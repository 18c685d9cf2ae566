-------------------------------- MODULE Hub --------------------------------
(***************************************************************************)
(* The WebSocket half of an API process (backend/internal/platform/ws):    *)
(* the loop Hub.Run, the read and write pumps of every connected browser,  *)
(* the goroutines that drop slow ones, and the notification consumer whose *)
(* handlers call Broadcast (cmd/api, internal/app/notifications.go).  The  *)
(* signal that stops the process reaches the hub and the consumer at once. *)
(*                                                                         *)
(* Go channels are sequences with a capacity; those without a buffer make  *)
(* one step of two goroutines.  A select with several ready cases may take *)
(* any of them.                                                             *)
(***************************************************************************)
EXTENDS Naturals, Sequences, FiniteSets

CONSTANTS
  Clients,          \* browser connections, each with its own Client
  Notifications,    \* number of messages in the consumer's queue
  Prefetch,         \* handlers of the consumer at work at a time
  BroadcastBuffer,  \* capacity of Hub.broadcast (64)
  SendBuffer        \* capacity of Client.send (16)

ASSUME HubAssumption ==
  /\ Notifications \in Nat
  /\ Prefetch \in Nat \ {0}
  /\ BroadcastBuffer \in Nat \ {0}
  /\ SendBuffer \in Nat \ {0}

VARIABLES
  stopping,  \* the process's context is cancelled
  running,   \* Hub.Run has not returned (done is open)
  clients,   \* Hub.clients
  broadcast, \* Hub.broadcast
  send,      \* send[c]: the buffer of c.send
  closed,    \* clients whose send is closed
  conn,      \* conn[c]: c's connection is open
  reader,    \* reader[c]: where c's readPump is
  writer,    \* writer[c]: where c's writePump is
  drops,     \* drops[c]: goroutines running Unregister(c) for a slow c
  next,      \* the next message the broker delivers
  inflight,  \* messages whose handler is inside Broadcast
  loop,      \* where the consumer's Consume is
  due,       \* due[c]: messages broadcast while c was registered (history)
  written,   \* written[c]: messages written to c's connection (history)
  panicked   \* a closed channel was closed again or sent to

consumerVars == <<next, inflight, loop>>
pumpVars == <<conn, reader, writer, written>>
vars == <<stopping, running, clients, broadcast, send, closed, conn, reader,
          writer, drops, next, inflight, loop, due, written, panicked>>

Messages == 1..Notifications

TypeOK ==
  /\ stopping \in BOOLEAN /\ running \in BOOLEAN /\ panicked \in BOOLEAN
  /\ clients \subseteq Clients /\ closed \subseteq Clients
  /\ broadcast \in Seq(Messages) /\ Len(broadcast) <= BroadcastBuffer
  /\ send \in [Clients -> Seq(Messages)]
  /\ \A c \in Clients : Len(send[c]) <= SendBuffer
  /\ due \in [Clients -> Seq(Messages)] /\ written \in [Clients -> Seq(Messages)]
  /\ conn \in [Clients -> BOOLEAN]
  /\ reader \in [Clients -> {"new", "reading", "leaving", "done"}]
  /\ writer \in [Clients -> {"new", "writing", "done"}]
  /\ drops \in [Clients -> Nat]
  /\ next \in 1..(Notifications + 1)
  /\ inflight \subseteq Messages /\ Cardinality(inflight) <= Prefetch
  /\ loop \in {"reading", "waiting", "returned"}

Init ==
  /\ stopping = FALSE /\ running = TRUE /\ panicked = FALSE
  /\ clients = {} /\ closed = {}
  /\ broadcast = <<>>
  /\ send = [c \in Clients |-> <<>>]
  /\ conn = [c \in Clients |-> TRUE]
  /\ reader = [c \in Clients |-> "new"]
  /\ writer = [c \in Clients |-> "new"]
  /\ drops = [c \in Clients |-> 0]
  /\ next = 1 /\ inflight = {} /\ loop = "reading"
  /\ due = [c \in Clients |-> <<>>]
  /\ written = [c \in Clients |-> <<>>]

\* close(c.send) for every c in cs; closing a channel twice panics.
Close(cs) ==
  /\ closed' = closed \cup cs
  /\ panicked' = (panicked \/ cs \cap closed # {})
-----------------------------------------------------------------------------
(* Client.Start, and Register.                                             *)

Pumps(c) ==
  /\ reader[c] = "new"
  /\ reader' = [reader EXCEPT ![c] = "reading"]
  /\ writer' = [writer EXCEPT ![c] = "writing"]

Register(c) ==
  /\ Pumps(c)
  /\ running
  /\ clients' = clients \cup {c}
  /\ UNCHANGED <<stopping, running, broadcast, send, closed, conn, drops, due,
                 written, panicked, consumerVars>>

\* The hub is gone: Register does nothing, and the pumps start all the same.
RegisterAfterStop(c) ==
  /\ Pumps(c)
  /\ ~running
  /\ UNCHANGED <<stopping, running, clients, broadcast, send, closed, conn,
                 drops, due, written, panicked, consumerVars>>
-----------------------------------------------------------------------------
(* Unregister, by readPump and by the goroutines that drop a slow client.  *)

CallUnregister(c) ==
  \/ /\ reader[c] = "leaving"
     /\ reader' = [reader EXCEPT ![c] = "done"]
     /\ UNCHANGED drops
  \/ /\ drops[c] > 0
     /\ drops' = [drops EXCEPT ![c] = @ - 1]
     /\ UNCHANGED reader

RemoveUnchecked(c) == clients' = clients \ {c} /\ Close({c})
RemoveSilently(c) == clients' = clients \ {c} /\ UNCHANGED <<closed, panicked>>

Remove(c) == clients' = clients \ {c} /\ Close(clients \cap {c})

Unregister(c) ==
  /\ running
  /\ CallUnregister(c)
  /\ Remove(c)
  /\ UNCHANGED <<stopping, running, broadcast, send, conn, writer, due,
                 written, consumerVars>>

NoDoneCase(c) == FALSE

UnregisterAfterStop(c) ==
  /\ ~running
  /\ CallUnregister(c)
  /\ UNCHANGED <<stopping, running, clients, broadcast, send, closed, conn,
                 writer, due, written, panicked, consumerVars>>
-----------------------------------------------------------------------------
(* The other cases of Run.                                                 *)

HasRoom(c) == Len(send[c]) < SendBuffer

DropOnlyTheMessage(c) == drops[c]

\* go h.Unregister(c)
DropClient(c) == drops[c] + 1

\* One message to every client; a client that is not keeping up loses it.
Dispatch ==
  /\ running
  /\ broadcast # <<>>
  /\ LET m == Head(broadcast) IN
       /\ send' = [c \in Clients |-> IF c \in clients /\ HasRoom(c)
                                     THEN Append(send[c], m) ELSE send[c]]
       /\ drops' = [c \in Clients |-> IF c \in clients /\ ~HasRoom(c)
                                      THEN DropClient(c) ELSE drops[c]]
       /\ due' = [c \in Clients |-> IF c \in clients
                                    THEN Append(due[c], m) ELSE due[c]]
  /\ panicked' = (panicked \/ clients \cap closed # {})
  /\ broadcast' = Tail(broadcast)
  /\ UNCHANGED <<stopping, running, clients, closed, pumpVars, consumerVars>>

HubStops ==
  /\ running
  /\ stopping
  /\ Close(clients)
  /\ clients' = {}
  /\ running' = FALSE
  /\ UNCHANGED <<stopping, broadcast, send, drops, due, pumpVars, consumerVars>>
-----------------------------------------------------------------------------
(* The pumps.                                                              *)

Write(c) ==
  /\ writer[c] = "writing"
  /\ conn[c]
  /\ send[c] # <<>>
  /\ written' = [written EXCEPT ![c] = Append(@, Head(send[c]))]
  /\ send' = [send EXCEPT ![c] = Tail(@)]
  /\ UNCHANGED <<stopping, running, clients, broadcast, closed, conn, reader,
                 writer, drops, due, panicked, consumerVars>>

\* send is closed and empty, or a message or a ping cannot be written; the
\* writer closes the connection.
WriterEnds(c) ==
  /\ writer[c] = "writing"
  /\ ~conn[c] \/ (c \in closed /\ send[c] = <<>>)
  /\ writer' = [writer EXCEPT ![c] = "done"]
  /\ conn' = [conn EXCEPT ![c] = FALSE]
  /\ UNCHANGED <<stopping, running, clients, broadcast, send, closed, reader,
                 drops, due, written, panicked, consumerVars>>

ReaderEnds(c) ==
  /\ reader[c] = "reading"
  /\ ~conn[c]
  /\ reader' = [reader EXCEPT ![c] = "leaving"]
  /\ UNCHANGED <<stopping, running, clients, broadcast, send, closed, conn,
                 writer, drops, due, written, panicked, consumerVars>>

\* The browser goes away, or does not read or answer pings in time.
PeerLeaves(c) ==
  /\ reader[c] # "new"
  /\ conn[c]
  /\ conn' = [conn EXCEPT ![c] = FALSE]
  /\ UNCHANGED <<stopping, running, clients, broadcast, send, closed, reader,
                 writer, drops, due, written, panicked, consumerVars>>
-----------------------------------------------------------------------------
(* The notification consumer: Consume and NotificationHandler.             *)

Deliver ==
  /\ loop = "reading"
  /\ next \in Messages
  /\ Cardinality(inflight) < Prefetch
  /\ inflight' = inflight \cup {next}
  /\ next' = next + 1
  /\ UNCHANGED <<stopping, running, clients, broadcast, send, closed, drops,
                 due, panicked, loop, pumpVars>>

\* Waits while the buffer is full, whether the hub runs or not.
Broadcast(m) ==
  /\ m \in inflight
  /\ Len(broadcast) < BroadcastBuffer
  /\ broadcast' = Append(broadcast, m)
  /\ inflight' = inflight \ {m}
  /\ UNCHANGED <<stopping, running, clients, send, closed, drops, due,
                 panicked, next, loop, pumpVars>>

LeaveLoop ==
  /\ loop = "reading"
  /\ stopping
  /\ loop' = "waiting"
  /\ UNCHANGED <<stopping, running, clients, broadcast, send, closed, drops,
                 due, panicked, next, inflight, pumpVars>>

Return ==
  /\ loop = "waiting"
  /\ inflight = {}
  /\ loop' = "returned"
  /\ UNCHANGED <<stopping, running, clients, broadcast, send, closed, drops,
                 due, panicked, next, inflight, pumpVars>>

\* SIGINT or SIGTERM
Stop ==
  /\ ~stopping
  /\ stopping' = TRUE
  /\ UNCHANGED <<running, clients, broadcast, send, closed, drops, due,
                 panicked, pumpVars, consumerVars>>
-----------------------------------------------------------------------------
Leave(c) == Unregister(c) \/ UnregisterAfterStop(c)
Writer(c) == Write(c) \/ WriterEnds(c)

Client(c) ==
  \/ Register(c) \/ RegisterAfterStop(c)
  \/ Leave(c) \/ Writer(c) \/ ReaderEnds(c) \/ PeerLeaves(c)

Next ==
  \/ \E c \in Clients : Client(c)
  \/ Dispatch \/ HubStops
  \/ Deliver \/ (\E m \in Messages : Broadcast(m)) \/ LeaveLoop \/ Return
  \/ Stop

(* Goroutines are scheduled, every case of a select that stays ready is    *)
(* taken at last, and deadlines end a read, a write or a missed pong.      *)
(* Browsers and signals come and go as they like.                          *)
Fairness ==
  /\ WF_vars(Dispatch) /\ WF_vars(HubStops)
  /\ WF_vars(LeaveLoop) /\ WF_vars(Return)
  /\ \A m \in Messages : WF_vars(Broadcast(m))
  /\ \A c \in Clients : WF_vars(Leave(c)) /\ WF_vars(Writer(c)) /\ WF_vars(ReaderEnds(c))

Spec == Init /\ [][Next]_vars /\ Fairness
-----------------------------------------------------------------------------
(* Properties.                                                             *)

(* Whatever the order in which the pumps, the drops and the shutdown reach *)
(* the hub, it never closes a send channel twice and never sends on a      *)
(* closed one: either would panic and take the API down (Run, Unregister). *)
NoPanic == ~panicked

(* A registered client gets every broadcast, in order, unless it is slow   *)
(* and a goroutine is about to remove it: no browser stays connected with  *)
(* a silent gap in its stream (the default case of Run's select).          *)
StreamIsWhole ==
  \A c \in clients : drops[c] = 0 => written[c] \o send[c] = due[c]

(* A slow client is dropped for good: hub, pumps and connection let go of  *)
(* it, though the drop races the pumps and the shutdown (Run, writePump).  *)
SlowClientIsDropped ==
  \A c \in Clients : drops[c] > 0 ~> (reader[c] = "done" /\ writer[c] = "done")

(* A connection that is lost frees both its goroutines, before, during and *)
(* after the shutdown of the hub (Unregister's done case, Client.Start).   *)
LostConnectionEnds ==
  \A c \in Clients : ~conn[c] ~> (reader[c] = "done" /\ writer[c] = "done")
=============================================================================
