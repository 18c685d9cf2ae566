--------------------------- MODULE Notifications ---------------------------
(***************************************************************************)
(* The browser half of the notifications: NotificationClient, which keeps  *)
(* one WebSocket to the platform alive from the mount of the dashboard to  *)
(* its unmount, NotificationCenter, which turns the events it validates    *)
(* into toasts and history, and the bell that shows the history            *)
(* (frontend/src/lib/websocket, hooks/useNotifications.ts,                 *)
(* components/notifications, components/layout/DashboardShell.tsx).        *)
(*                                                                         *)
(* JavaScript runs one handler at a time; between two of them anything may *)
(* happen: the answer to getTicket, a timer, an event of a socket, a click *)
(* or the unmount.  The server broadcasts every event it consumes to the   *)
(* sockets open at that moment and keeps none for later (module Hub); an   *)
(* event that is delivered to it again (modules Outbox, Consumer) is       *)
(* broadcast again, and nothing on the way looks at the event's id.        *)
(***************************************************************************)
EXTENDS Naturals, Sequences, FiniteSets

CONSTANTS
  MaxSockets,     \* bound: sockets made in one mount of the dashboard
  MaxFaults,      \* bound: tickets and connections that fail
  Broadcasts,     \* bound: messages the server sends
  Events,         \* the events it may be given to broadcast
  KindOf,         \* KindOf[e]: what event e is for the center
  MAX_ITEMS,      \* length of the history (20)
  MaxBackoff      \* MAX_BACKOFF_MS, in seconds (30)

Sockets == 1..MaxSockets

\* What the server may send: an event the center shows, one it knows but whose
\* payload does not fit, one of another type, and what is no event at all.
Kinds == {"job", "status", "statusInvalid", "other", "garbage"}

ASSUME NotificationsAssumption ==
  /\ MaxSockets \in Nat \ {0} /\ MaxFaults \in 0..(MaxSockets - 1)
  /\ Broadcasts \in Nat
  /\ KindOf \in [Events -> Kinds]
  /\ MAX_ITEMS \in Nat \ {0} /\ MaxBackoff \in Nat \ {0}

VARIABLES
  stopped,   \* NotificationClient.stopped
  attempt,   \* NotificationClient.attempt
  tickets,   \* getTicket calls of open() not answered yet
  timers,    \* reconnection timers armed
  delay,     \* the last backoff, in seconds (history)
  opened,    \* failures before the last socket that opened (history)
  current,   \* NotificationClient.socket: 0 is null
  socket,    \* socket[s]: readyState, or "none" before new WebSocket
  channel,   \* channel[s]: broadcasts sent to s and not delivered yet, by number
  state,     \* ConnectionState, as the Topbar and /monitoramento show it
  sent,      \* the events the server has broadcast, in order (history)
  toasts,    \* broadcasts shown as toasts, in order (history)
  items,     \* the history of NotificationHistoryProvider, newest first
  bell,      \* the bell's dropdown is open
  seen,      \* toasts there had been when the bell was last opened (history)
  faults     \* failures so far (history)

link == <<stopped, attempt, tickets, timers, delay, opened, current, socket,
          state, faults>>
feed == <<sent, toasts, items, bell, seen>>
vars == <<stopped, attempt, tickets, timers, delay, opened, current, socket,
          channel, state, sent, toasts, items, bell, seen, faults>>

ConnectionState == {"idle", "connecting", "open", "closed", "unauthorized"}
ReadyState == {"none", "connecting", "open", "failing", "closing", "closed"}

\* How long a client waits after n retries in a row.
defaultBackoff(n) == IF 2 ^ n < MaxBackoff THEN 2 ^ n ELSE MaxBackoff

TypeOK ==
  /\ stopped \in BOOLEAN /\ bell \in BOOLEAN
  /\ attempt \in Nat /\ tickets \in Nat /\ timers \in Nat
  /\ faults \in 0..MaxFaults /\ opened \in 0..MaxFaults
  /\ delay \in {0} \cup {defaultBackoff(n) : n \in 0..MaxFaults}
  /\ current \in 0..MaxSockets
  /\ socket \in [Sockets -> ReadyState]
  /\ channel \in [Sockets -> Seq(1..Broadcasts)]
  /\ state \in ConnectionState
  /\ sent \in Seq(Events) /\ Len(sent) <= Broadcasts
  /\ toasts \in Seq(1..Broadcasts)
  /\ items \in Seq([n : 1..Broadcasts, read : BOOLEAN])
  /\ Len(items) <= MAX_ITEMS /\ seen \in Nat

\* The dashboard has just been mounted: connect() has called open(), which
\* waits for its ticket.
Init ==
  /\ stopped = FALSE /\ attempt = 0 /\ tickets = 1 /\ timers = 0 /\ delay = 0
  /\ opened = 0 /\ current = 0
  /\ socket = [s \in Sockets |-> "none"]
  /\ channel = [s \in Sockets |-> <<>>]
  /\ state = "connecting"
  /\ sent = <<>> /\ toasts = <<>> /\ items = <<>> /\ bell = FALSE /\ seen = 0
  /\ faults = 0

Fault == faults < MaxFaults /\ faults' = faults + 1

-----------------------------------------------------------------------------
(* NotificationClient.                                                      *)

\* Arms a timer for the next open(), later each time in a row.
scheduleReconnect ==
  IF stopped THEN UNCHANGED <<attempt, timers, delay>>
  ELSE /\ delay' = defaultBackoff(attempt)
       /\ attempt' = attempt + 1
       /\ timers' = timers + 1

\* Mutant of open: a new attempt starts counting anew.
OpenForgets ==
  /\ timers > 0
  /\ timers' = timers - 1 /\ attempt' = 0
  /\ IF stopped THEN UNCHANGED <<state, tickets>>
     ELSE state' = "connecting" /\ tickets' = tickets + 1
  /\ UNCHANGED <<stopped, delay, current, socket, channel, opened,
                 feed, faults>>

\* open(), called by the timer: asks for a ticket.
open ==
  /\ timers > 0
  /\ timers' = timers - 1
  /\ IF stopped THEN UNCHANGED <<state, tickets>>
     ELSE state' = "connecting" /\ tickets' = tickets + 1
  /\ UNCHANGED <<stopped, attempt, delay, current, socket, channel, opened,
                 feed, faults>>

\* Mutant of TicketGranted: stopped is not looked at again after the await.
GrantUnchecked ==
  /\ tickets > 0
  /\ tickets' = tickets - 1
  /\ \E s \in Sockets :
       /\ socket[s] = "none" /\ \A r \in 1..(s - 1) : socket[r] # "none"
       /\ socket' = [socket EXCEPT ![s] = "connecting"]
       /\ current' = s
  /\ UNCHANGED <<stopped, attempt, timers, delay, channel, state,
                 opened, feed, faults>>

\* The ticket comes: unless disconnect() ran meanwhile, a socket is made.
TicketGranted ==
  /\ tickets > 0
  /\ tickets' = tickets - 1
  /\ IF stopped THEN UNCHANGED <<current, socket>>
     ELSE \E s \in Sockets :
            /\ socket[s] = "none" /\ \A r \in 1..(s - 1) : socket[r] # "none"
            /\ socket' = [socket EXCEPT ![s] = "connecting"]
            /\ current' = s
  /\ UNCHANGED <<stopped, attempt, timers, delay, channel, state,
                 opened, feed, faults>>

\* getTicket throws: 401 is final, anything else is tried again.
TicketRefused ==
  /\ tickets > 0
  /\ tickets' = tickets - 1
  /\ state' = "unauthorized"
  /\ UNCHANGED <<stopped, attempt, timers, delay, current, socket, channel,
                 opened, feed, faults>>

\* Mutant of TicketFails: the error is only reported.
FailQuietly ==
  /\ tickets > 0 /\ Fault
  /\ tickets' = tickets - 1
  /\ UNCHANGED <<stopped, attempt, timers, delay, current, socket, channel, state,
                 opened, feed>>

TicketFails ==
  /\ tickets > 0 /\ Fault
  /\ tickets' = tickets - 1
  /\ scheduleReconnect
  /\ UNCHANGED <<stopped, current, socket, channel, state,
                 opened, feed>>

\* socket.onopen
onopen(s) ==
  /\ socket[s] = "connecting"
  /\ socket' = [socket EXCEPT ![s] = "open"]
  /\ attempt' = 0 /\ opened' = faults /\ state' = "open"
  /\ UNCHANGED <<stopped, tickets, timers, delay, current, channel, feed, faults>>

\* The connection breaks, with or without an error event before the close one.
Break(s) ==
  /\ socket[s] \in {"connecting", "open"} /\ Fault
  /\ \E next \in {"failing", "closing"} :
       socket' = [socket EXCEPT ![s] = next]
  /\ channel' = [channel EXCEPT ![s] = <<>>]
  /\ UNCHANGED <<stopped, attempt, tickets, timers, delay, current, state,
                 opened, feed>>

\* socket.onerror closes the socket and leaves the rest to onclose.
onerror(s) ==
  /\ socket[s] = "failing"
  /\ socket' = [socket EXCEPT ![s] = "closing"]
  /\ UNCHANGED <<stopped, attempt, tickets, timers, delay, current, channel, state,
                 opened, feed, faults>>

\* Mutant of onclose: the state is left as it was.
CloseUnnoticed(s) ==
  /\ socket[s] = "closing"
  /\ socket' = [socket EXCEPT ![s] = "closed"]
  /\ scheduleReconnect
  /\ UNCHANGED <<stopped, tickets, current, channel, state,
                 opened, feed, faults>>

\* socket.onclose
onclose(s) ==
  /\ socket[s] = "closing"
  /\ socket' = [socket EXCEPT ![s] = "closed"]
  /\ state' = "closed"
  /\ scheduleReconnect
  /\ UNCHANGED <<stopped, tickets, current, channel, opened,
                 feed, faults>>

\* disconnect(), at the unmount of the dashboard.
disconnect ==
  /\ ~stopped
  /\ stopped' = TRUE
  /\ timers' = IF timers > 0 THEN timers - 1 ELSE 0
  /\ current' = 0
  /\ socket' = [s \in Sockets |->
       IF s = current /\ socket[s] \in {"connecting", "open", "failing"}
       THEN "closing" ELSE socket[s]]
  /\ channel' = [s \in Sockets |-> IF s = current THEN <<>> ELSE channel[s]]
  /\ bell' = FALSE
  /\ UNCHANGED <<attempt, tickets, delay, state, opened, sent, toasts, items, seen,
                 faults>>

-----------------------------------------------------------------------------
(* The events, from the server to the toasts and the history.              *)

\* Hub.Broadcast, called by NotificationHandler for each delivery: a new event,
\* or one it has broadcast before (published twice, or delivered again because
\* the process died before the ack).  It reaches whom the hub has registered.
Send ==
  /\ Len(sent) < Broadcasts
  /\ \E e \in Events : sent' = Append(sent, e)
  /\ \E early \in SUBSET {s \in Sockets : socket[s] = "connecting"} :
       channel' = [s \in Sockets |->
         IF socket[s] = "open" \/ s \in early
         THEN Append(channel[s], Len(sent) + 1) ELSE channel[s]]
  /\ UNCHANGED <<link, toasts, items, bell, seen>>

\* An envelope or null.
parseEventEnvelope(e) == KindOf[e] # "garbage"

\* Mutant of push: the newest comes last.
PushLast(n) ==
  LET all == Append(items, [n |-> n, read |-> FALSE])
  IN items' = SubSeq(all, 1, IF Len(all) < MAX_ITEMS THEN Len(all) ELSE MAX_ITEMS)

\* push of the history, which keeps the newest MAX_ITEMS.
push(n) ==
  LET all == <<[n |-> n, read |-> FALSE]>> \o items
  IN items' = SubSeq(all, 1, IF Len(all) < MAX_ITEMS THEN Len(all) ELSE MAX_ITEMS)

\* A toast and an item of the history for every event with something to say.
handleEvent(e, n) ==
  IF KindOf[e] \in {"job", "status"}
  THEN toasts' = Append(toasts, n) /\ push(n)
  ELSE UNCHANGED <<toasts, items>>

\* socket.onmessage
onmessage(s) ==
  /\ socket[s] = "open" /\ channel[s] # <<>>
  /\ channel' = [channel EXCEPT ![s] = Tail(@)]
  /\ LET n == Head(channel[s])
         e == sent[n]
     IN IF parseEventEnvelope(e) THEN handleEvent(e, n)
        ELSE UNCHANGED <<toasts, items>>
  /\ UNCHANGED <<link, sent, bell, seen>>

markAllRead == items' = [i \in DOMAIN items |-> [items[i] EXCEPT !.read = TRUE]]

\* A click on the bell; a click elsewhere or Escape only closes it.
toggle ==
  /\ ~stopped
  /\ bell' = ~bell
  /\ IF bell THEN UNCHANGED <<items, seen>>
     ELSE markAllRead /\ seen' = Len(toasts)
  /\ UNCHANGED <<link, channel, sent, toasts>>

\* The number on the bell.
unreadCount == Cardinality({i \in DOMAIN items : ~items[i].read})

\* What the Topbar says of the connection.
CONNECTION_LABEL ==
  [idle |-> "connecting", connecting |-> "connecting", open |-> "live",
   closed |-> "reconnecting", unauthorized |-> "expired"]
Topbar == CONNECTION_LABEL[state]

-----------------------------------------------------------------------------
Link(s) == onopen(s) \/ onerror(s) \/ onclose(s)

Next ==
  \/ open \/ TicketGranted \/ TicketRefused \/ TicketFails \/ disconnect
  \/ Send \/ toggle
  \/ \E s \in Sockets : Link(s) \/ Break(s) \/ onmessage(s)

\* Timers fire, tickets are answered and sockets open or close in the end.
Fairness ==
  /\ WF_vars(open)
  /\ WF_vars(TicketGranted \/ TicketRefused \/ TicketFails)
  /\ \A s \in Sockets : WF_vars(Link(s)) /\ WF_vars(onmessage(s))

Spec == Init /\ [][Next]_vars /\ Fairness

-----------------------------------------------------------------------------
(* Properties.                                                              *)

Live == {s \in Sockets : socket[s] \notin {"none", "closed"}}
Held == {s \in Sockets : socket[s] \in {"connecting", "open", "failing"}}

\* One logical connection.  Until the unmount or a 401 exactly one of a ticket,
\* a timer and a socket is at work: no failure ends the retries and none doubles
\* them (an error is followed by a close).  After disconnect() no timer is armed
\* and no connection kept, whatever it interrupted: a ticket on its way makes no
\* socket when it comes.
OneChain ==
  IF stopped THEN timers = 0 /\ Held = {}
  ELSE tickets + timers + Cardinality(Live) = IF state = "unauthorized" THEN 0 ELSE 1

\* The status shown is true: "live" only with a connection (or the news of its
\* end on the way), "reconnecting" only with a retry armed, "expired" only when
\* nothing more is tried.
StatusIsHonest ==
  ~stopped =>
    /\ Topbar = "live" => Live # {} /\ timers = 0
    /\ Topbar = "reconnecting" => timers > 0
    /\ Topbar = "expired" => tickets + timers = 0 /\ Live = {}

\* No broadcast is shown twice or out of order across reconnections, so an event
\* is shown at most as often as the server broadcast it (which may be twice: no
\* one looks at the event's id).  The bell holds the latest toasts, and its
\* number is that of the toasts since it was opened.
HistoryMatchesToasts ==
  /\ \A i, j \in DOMAIN toasts : i < j => toasts[i] < toasts[j]
  /\ \A e \in Events :
       Cardinality({i \in DOMAIN toasts : sent[toasts[i]] = e})
         <= Cardinality({n \in DOMAIN sent : sent[n] = e})
  /\ Len(items) = IF Len(toasts) < MAX_ITEMS THEN Len(toasts) ELSE MAX_ITEMS
  /\ \A i \in DOMAIN items : items[i].n = toasts[Len(toasts) + 1 - i]
  /\ LET new == Len(toasts) - seen
     IN unreadCount = IF new < MAX_ITEMS THEN new ELSE MAX_ITEMS

\* A retry waits as long as the failures in a row since the last connection say:
\* nothing but a connection that opens resets the backoff.
RetriesSlowDown ==
  timers > 0 => delay = defaultBackoff(faults - opened - 1)

\* Where the client is in the loop of reconnections.
place == IF stopped THEN "ended"
         ELSE IF tickets > 0 THEN "asking"
         ELSE IF timers > 0 THEN "waiting"
         ELSE IF state = "unauthorized" THEN "expired"
         ELSE state

\* Tickets, timers, sockets and their callbacks, in whatever order they come and
\* whatever disconnect() interrupts, make one loop of reconnections: what comes
\* late is no step of it, and no failure is counted twice or forgotten (open,
\* scheduleReconnect, onclose).
Loop == INSTANCE Reconnection WITH Backoff <- defaultBackoff, retries <- attempt
ImplementsReconnection == Loop!Spec

\* A mounted dashboard gets its connection back, or says why not.
ComesBack == ~stopped ~> stopped \/ state \in {"open", "unauthorized"}
=============================================================================
