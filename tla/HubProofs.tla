------------------------------ MODULE HubProofs ------------------------------
(***************************************************************************)
(* Proofs about Hub for any number of browsers and notifications and any   *)
(* capacities.  The inductive invariant is about who may close a channel:  *)
(* the hub closes send when it lets go of a client, a client it has let go *)
(* of is not in the map, and a client registers once, before anything was  *)
(* sent to it.                                                             *)
(***************************************************************************)
EXTENDS Hub, FiniteSetTheorems, SequenceTheorems, TLAPS

\* Registered clients have an open channel.
OpenWhileRegistered == clients \cap closed = {}

\* A hub that has returned has let go of all of them.
StoppedIsEmpty == ~running => clients = {}

\* Who has not called Register has no history.
Fresh ==
  \A c \in Clients : reader[c] = "new" =>
    /\ c \notin clients /\ c \notin closed
    /\ send[c] = <<>> /\ written[c] = <<>> /\ due[c] = <<>>
    /\ writer[c] = "new"

IInv ==
  /\ TypeOK
  /\ NoPanic
  /\ OpenWhileRegistered
  /\ StoppedIsEmpty
  /\ Fresh
  /\ StreamIsWhole
-----------------------------------------------------------------------------
\* Moving the head of a buffer to the end of what was written keeps the whole.
LEMMA MoveHead ==
  ASSUME NEW S, NEW w \in Seq(S), NEW s \in Seq(S), s # <<>>
  PROVE  Append(w, Head(s)) \o Tail(s) = w \o s
  <1>1. Head(s) \in S /\ Tail(s) \in Seq(S) /\ s = <<Head(s)>> \o Tail(s)
    BY HeadTailProperties, TailIsSubSeq, SubSeqRecursiveFirst, SubSeqFull, LenProperties, EmptySeq
  <1>2. Append(w, Head(s)) = w \o <<Head(s)>>
    BY <1>1, AppendIsConcat
  <1>3. <<Head(s)>> \in Seq(S)
    BY <1>1
  <1>4. QED
    BY <1>1, <1>2, <1>3, ConcatAssociative

LEMMA AppendToWhole ==
  ASSUME NEW S, NEW w \in Seq(S), NEW s \in Seq(S), NEW m \in S
  PROVE  w \o Append(s, m) = Append(w \o s, m)
  <1>1. <<m>> \in Seq(S) /\ Append(s, m) = s \o <<m>>
    BY AppendIsConcat
  <1>2. w \o s \in Seq(S)
    BY ConcatProperties
  <1>3. Append(w \o s, m) = (w \o s) \o <<m>>
    BY <1>2, AppendIsConcat
  <1>4. QED
    BY <1>1, <1>3, ConcatAssociative
-----------------------------------------------------------------------------
LEMMA InitIInv == Init => IInv
  <1> SUFFICES ASSUME Init PROVE IInv
    OBVIOUS
  <1> USE DEF Init
  <1>1. <<>> \in Seq(Messages) /\ Len(<<>>) = 0
    BY EmptySeq
  <1>2. inflight \subseteq Messages /\ Cardinality(inflight) <= Prefetch
    BY FS_EmptySet, HubAssumption
  <1>3. send \in [Clients -> Seq(Messages)] /\ \A c \in Clients : Len(send[c]) <= SendBuffer
    BY <1>1, HubAssumption
  <1>4. broadcast \in Seq(Messages) /\ Len(broadcast) <= BroadcastBuffer
    BY <1>1, HubAssumption
  <1>5. stopping \in BOOLEAN /\ running \in BOOLEAN /\ panicked \in BOOLEAN
    OBVIOUS
  <1>6. TypeOK
    BY <1>1, <1>2, <1>3, <1>4, <1>5, HubAssumption DEF TypeOK
  <1>7. NoPanic /\ OpenWhileRegistered /\ StoppedIsEmpty /\ Fresh /\ StreamIsWhole
    BY DEF NoPanic, OpenWhileRegistered, StoppedIsEmpty, Fresh, StreamIsWhole
  <1>8. QED
    BY <1>6, <1>7 DEF IInv

\* Steps that only move a pump, the consumer or the signal.
LEMMA QuietStep ==
  ASSUME IInv, TypeOK',
         UNCHANGED <<running, clients, send, closed, drops, due, written, panicked>>,
         \A c \in Clients : /\ reader'[c] = "new" <=> reader[c] = "new"
                            /\ reader'[c] = "new" => writer'[c] = writer[c]
  PROVE  IInv'
  <1> USE DEF IInv
  <1>1. NoPanic' /\ OpenWhileRegistered' /\ StoppedIsEmpty'
    BY DEF NoPanic, OpenWhileRegistered, StoppedIsEmpty
  <1>2. Fresh'
    BY DEF Fresh
  <1>3. StreamIsWhole'
    BY DEF StreamIsWhole, TypeOK
  <1>4. QED
    BY <1>1, <1>2, <1>3

LEMMA PumpStarts ==
  ASSUME IInv, NEW c \in Clients, Register(c) \/ RegisterAfterStop(c)
  PROVE  IInv'
  <1> USE DEF IInv
  <1>1. /\ reader[c] = "new"
        /\ reader' = [reader EXCEPT ![c] = "reading"]
        /\ writer' = [writer EXCEPT ![c] = "writing"]
        /\ clients' \in {clients, clients \cup {c}}
        /\ ~running => clients' = clients
        /\ UNCHANGED <<stopping, running, broadcast, send, closed, conn, drops, due,
                       written, panicked, next, inflight, loop>>
    BY DEF Register, RegisterAfterStop, Pumps, consumerVars
  <1>2. TypeOK'
    BY <1>1 DEF TypeOK
  <1>3. NoPanic' /\ OpenWhileRegistered' /\ StoppedIsEmpty' /\ Fresh'
    BY <1>1 DEF NoPanic, OpenWhileRegistered, StoppedIsEmpty, Fresh, TypeOK
  <1>4. written[c] \o send[c] = due[c]
    <2>1. written[c] = <<>> /\ send[c] = <<>> /\ due[c] = <<>>
      BY <1>1 DEF Fresh
    <2>2. <<>> \in Seq(Messages)
      BY EmptySeq
    <2>3. QED
      BY <2>1, <2>2, ConcatEmptySeq
  <1>5. StreamIsWhole'
    BY <1>1, <1>4 DEF StreamIsWhole
  <1>6. QED
    BY <1>2, <1>3, <1>5

LEMMA LeaveStep ==
  ASSUME IInv, NEW c \in Clients, Leave(c)
  PROVE  IInv'
  <1> USE DEF IInv
  <1>1. /\ \A d \in Clients : reader'[d] = "new" <=> reader[d] = "new"
        /\ \A d \in Clients : d # c => drops'[d] = drops[d]
        /\ reader' \in [Clients -> {"new", "reading", "leaving", "done"}]
        /\ drops' \in [Clients -> Nat]
    <2>1. CallUnregister(c)
      BY DEF Leave, Unregister, UnregisterAfterStop
    <2>2. CASE reader[c] = "leaving" /\ reader' = [reader EXCEPT ![c] = "done"] /\ UNCHANGED drops
      BY <2>2 DEF TypeOK
    <2>3. CASE drops[c] > 0 /\ drops' = [drops EXCEPT ![c] = @ - 1] /\ UNCHANGED reader
      BY <2>3 DEF TypeOK
    <2>4. QED
      BY <2>1, <2>2, <2>3 DEF CallUnregister
  <1>2. UNCHANGED <<stopping, running, broadcast, send, conn, writer, due, written,
                    next, inflight, loop>>
    BY DEF Leave, Unregister, UnregisterAfterStop, consumerVars
  <1>3. CASE Unregister(c)
    <2>1. /\ clients' = clients \ {c}
          /\ closed' = closed \cup (clients \cap {c})
          /\ panicked' = (panicked \/ (clients \cap {c}) \cap closed # {})
      BY <1>3 DEF Unregister, Remove, Close
    <2>2. (clients \cap {c}) \cap closed = {}
      BY DEF OpenWhileRegistered
    <2>3. NoPanic' /\ panicked' \in BOOLEAN
      BY <2>1, <2>2 DEF NoPanic
    <2>4. TypeOK'
      <3>1. clients' \subseteq Clients /\ closed' \subseteq Clients
        BY <2>1 DEF TypeOK
      <3>2. QED
        BY <1>1, <1>2, <2>3, <3>1 DEF TypeOK
    <2>5. OpenWhileRegistered' /\ StoppedIsEmpty' /\ Fresh'
      BY <1>1, <1>2, <2>1 DEF OpenWhileRegistered, StoppedIsEmpty, Fresh
    <2>6. StreamIsWhole'
      BY <1>1, <1>2, <2>1 DEF StreamIsWhole, TypeOK
    <2>7. QED
      BY <2>3, <2>4, <2>5, <2>6
  <1>4. CASE UnregisterAfterStop(c)
    <2>1. ~running /\ UNCHANGED <<clients, closed, panicked>>
      BY <1>4 DEF UnregisterAfterStop
    <2>2. TypeOK'
      BY <1>1, <1>2, <2>1 DEF TypeOK
    <2>3. NoPanic' /\ OpenWhileRegistered' /\ StoppedIsEmpty' /\ Fresh'
      BY <1>1, <1>2, <2>1 DEF NoPanic, OpenWhileRegistered, StoppedIsEmpty, Fresh
    <2>4. StreamIsWhole'
      BY <1>2, <2>1 DEF StreamIsWhole, StoppedIsEmpty
    <2>5. QED
      BY <2>2, <2>3, <2>4
  <1>5. QED
    BY <1>3, <1>4 DEF Leave
-----------------------------------------------------------------------------
LEMMA DispatchStep ==
  ASSUME IInv, Dispatch
  PROVE  IInv'
  <1> USE DEF IInv
  <1> DEFINE m == Head(broadcast)
  <1>1. /\ UNCHANGED <<stopping, running, clients, closed, conn, reader, writer, written,
                       next, inflight, loop>>
        /\ broadcast # <<>> /\ broadcast' = Tail(broadcast)
        /\ panicked' = (panicked \/ clients \cap closed # {})
    BY DEF Dispatch, pumpVars, consumerVars
  <1>2. m \in Messages /\ broadcast' \in Seq(Messages) /\ Len(broadcast') <= BroadcastBuffer
    <2>1. Len(Tail(broadcast)) = Len(broadcast) - 1 /\ Len(broadcast) \in Nat
      BY <1>1, HeadTailProperties, LenProperties DEF TypeOK
    <2>2. QED
      BY <1>1, <2>1, HeadTailProperties, HubAssumption DEF TypeOK
  <1>3. /\ send' = [c \in Clients |-> IF c \in clients /\ HasRoom(c)
                                       THEN Append(send[c], m) ELSE send[c]]
        /\ drops' = [c \in Clients |-> IF c \in clients /\ ~HasRoom(c)
                                        THEN DropClient(c) ELSE drops[c]]
        /\ due' = [c \in Clients |-> IF c \in clients THEN Append(due[c], m) ELSE due[c]]
    BY DEF Dispatch
  <1> HIDE DEF m
  <1>4. \A c \in Clients :
          /\ Append(send[c], m) \in Seq(Messages) /\ Len(Append(send[c], m)) = Len(send[c]) + 1
          /\ Append(due[c], m) \in Seq(Messages)
          /\ Len(send[c]) \in Nat
    BY <1>2, AppendProperties, LenProperties DEF TypeOK
  <1>5. send' \in [Clients -> Seq(Messages)] /\ due' \in [Clients -> Seq(Messages)]
    BY <1>3, <1>4 DEF TypeOK
  <1>6. \A c \in Clients : Len(send'[c]) <= SendBuffer
    BY <1>3, <1>4, HubAssumption DEF HasRoom, TypeOK
  <1>7. drops' \in [Clients -> Nat]
    BY <1>3 DEF DropClient, TypeOK
  <1>8. NoPanic' /\ panicked' \in BOOLEAN
    BY <1>1 DEF NoPanic, OpenWhileRegistered
  <1>9. TypeOK'
    BY <1>1, <1>2, <1>5, <1>6, <1>7, <1>8 DEF TypeOK
  <1>10. OpenWhileRegistered' /\ StoppedIsEmpty' /\ Fresh'
    BY <1>1, <1>3 DEF OpenWhileRegistered, StoppedIsEmpty, Fresh
  <1>11. StreamIsWhole'
    <2> SUFFICES ASSUME NEW c \in clients, drops'[c] = 0
                 PROVE  written[c] \o send'[c] = due'[c]
      BY <1>1 DEF StreamIsWhole
    <2>1. c \in Clients
      BY DEF TypeOK
    <2>2. HasRoom(c) /\ drops[c] = 0
      <3>1. drops[c] \in Nat
        BY <2>1 DEF TypeOK
      <3>2. drops'[c] = IF ~HasRoom(c) THEN drops[c] + 1 ELSE drops[c]
        BY <1>3, <2>1 DEF DropClient
      <3>3. QED
        BY <3>1, <3>2
    <2>3. send'[c] = Append(send[c], m) /\ due'[c] = Append(due[c], m)
      BY <1>3, <2>1, <2>2
    <2>4. written[c] \o send[c] = due[c]
      BY <2>2 DEF StreamIsWhole
    <2>5. written[c] \in Seq(Messages) /\ send[c] \in Seq(Messages)
      BY <2>1 DEF TypeOK
    <2>6. written[c] \o Append(send[c], m) = Append(written[c] \o send[c], m)
      <3> DEFINE w == written[c]
                 s == send[c]
      <3>1. w \in Seq(Messages) /\ s \in Seq(Messages) /\ m \in Messages
        BY <1>2, <2>5
      <3> HIDE DEF w, s
      <3>2. w \o Append(s, m) = Append(w \o s, m)
        BY <3>1, AppendToWhole
      <3>3. QED
        BY <3>2 DEF w, s
    <2>7. QED
      BY <2>3, <2>4, <2>6
  <1>12. QED
    BY <1>8, <1>9, <1>10, <1>11

LEMMA HubStopsStep ==
  ASSUME IInv, HubStops
  PROVE  IInv'
  <1> USE DEF IInv
  <1>1. /\ UNCHANGED <<stopping, broadcast, send, drops, due, conn, reader, writer, written,
                       next, inflight, loop>>
        /\ closed' = closed \cup clients
        /\ panicked' = (panicked \/ clients \cap closed # {})
        /\ clients' = {} /\ running' = FALSE
    BY DEF HubStops, Close, pumpVars, consumerVars
  <1>2. NoPanic' /\ panicked' \in BOOLEAN /\ running' \in BOOLEAN
    BY <1>1 DEF NoPanic, OpenWhileRegistered
  <1>3. TypeOK'
    BY <1>1, <1>2 DEF TypeOK
  <1>4. OpenWhileRegistered' /\ StoppedIsEmpty' /\ Fresh' /\ StreamIsWhole'
    BY <1>1 DEF OpenWhileRegistered, StoppedIsEmpty, Fresh, StreamIsWhole
  <1>5. QED
    BY <1>2, <1>3, <1>4
-----------------------------------------------------------------------------
LEMMA WriteStep ==
  ASSUME IInv, NEW c \in Clients, Write(c)
  PROVE  IInv'
  <1> USE DEF IInv
  <1>1. /\ UNCHANGED <<stopping, running, clients, broadcast, closed, conn, reader, writer,
                       drops, due, panicked, next, inflight, loop>>
        /\ writer[c] = "writing" /\ send[c] # <<>>
        /\ written' = [written EXCEPT ![c] = Append(@, Head(send[c]))]
        /\ send' = [send EXCEPT ![c] = Tail(@)]
    BY DEF Write, consumerVars
  <1>2. written[c] \in Seq(Messages) /\ send[c] \in Seq(Messages)
    BY DEF TypeOK
  <1>3. /\ Append(written[c], Head(send[c])) \in Seq(Messages)
        /\ Tail(send[c]) \in Seq(Messages) /\ Len(Tail(send[c])) <= SendBuffer
    <2>1. Len(Tail(send[c])) = Len(send[c]) - 1 /\ Len(send[c]) \in Nat
      BY <1>1, <1>2, HeadTailProperties, LenProperties
    <2>2. QED
      BY <1>1, <1>2, <2>1, HeadTailProperties, AppendProperties, HubAssumption DEF TypeOK
  <1>4. TypeOK'
    BY <1>1, <1>3 DEF TypeOK
  <1>5. NoPanic' /\ OpenWhileRegistered' /\ StoppedIsEmpty' /\ Fresh'
    BY <1>1 DEF NoPanic, OpenWhileRegistered, StoppedIsEmpty, Fresh
  <1>6. written'[c] \o send'[c] = written[c] \o send[c]
    BY <1>1, <1>2, MoveHead DEF TypeOK
  <1>7. StreamIsWhole'
    BY <1>1, <1>6 DEF StreamIsWhole, TypeOK
  <1>8. QED
    BY <1>4, <1>5, <1>7

LEMMA PumpEnds ==
  ASSUME IInv, NEW c \in Clients, WriterEnds(c) \/ ReaderEnds(c) \/ PeerLeaves(c)
  PROVE  IInv'
  <1>1. TypeOK'
    <2>1. UNCHANGED <<stopping, running, clients, broadcast, send, closed, drops, due,
                      written, panicked, next, inflight, loop>>
      BY DEF WriterEnds, ReaderEnds, PeerLeaves, consumerVars
    <2>2. conn' \in [Clients -> BOOLEAN]
      BY DEF IInv, TypeOK, WriterEnds, ReaderEnds, PeerLeaves
    <2>3. reader' \in [Clients -> {"new", "reading", "leaving", "done"}]
      BY DEF IInv, TypeOK, WriterEnds, ReaderEnds, PeerLeaves
    <2>4. writer' \in [Clients -> {"new", "writing", "done"}]
      BY DEF IInv, TypeOK, WriterEnds, ReaderEnds, PeerLeaves
    <2>5. QED
      BY <2>1, <2>2, <2>3, <2>4 DEF IInv, TypeOK
  <1>2. /\ UNCHANGED <<running, clients, send, closed, drops, due, written, panicked>>
        /\ \A d \in Clients : /\ reader'[d] = "new" <=> reader[d] = "new"
                              /\ reader'[d] = "new" => writer'[d] = writer[d]
    BY DEF IInv, TypeOK, Fresh, WriterEnds, ReaderEnds, PeerLeaves
  <1>3. QED
    BY <1>1, <1>2, QuietStep

\* The set of handlers inside Broadcast is finite, and counted.
LEMMA InflightIsFinite == TypeOK => IsFiniteSet(inflight) /\ Cardinality(inflight) \in Nat
  <1>1. IsFiniteSet(Messages)
    BY FS_Interval, HubAssumption DEF Messages
  <1>2. QED
    BY <1>1, FS_Subset, FS_CardinalityType DEF TypeOK

LEMMA ConsumerStep ==
  ASSUME IInv, Deliver \/ (\E m \in Messages : Broadcast(m)) \/ LeaveLoop \/ Return \/ Stop
  PROVE  IInv'
  <1>1. /\ UNCHANGED <<running, clients, send, closed, drops, due, panicked, conn, reader,
                       writer, written>>
    BY DEF Deliver, Broadcast, LeaveLoop, Return, Stop, pumpVars
  <1>2. IsFiniteSet(inflight) /\ Cardinality(inflight) \in Nat
    BY InflightIsFinite DEF IInv
  <1>3. TypeOK'
    <2>1. CASE Deliver
      <3>1. Cardinality(inflight') <= Prefetch
        <4>1. Cardinality(inflight) + 1 <= Prefetch
          BY <2>1, <1>2, HubAssumption DEF Deliver
        <4>2. Cardinality(inflight \cup {next}) <= Cardinality(inflight) + 1
          <5>1. Cardinality(inflight \cup {next}) =
                  IF next \in inflight THEN Cardinality(inflight) ELSE Cardinality(inflight) + 1
            BY <1>2, FS_AddElement
          <5>2. QED
            BY <1>2, <5>1
        <4>3. Cardinality(inflight \cup {next}) \in Nat
          BY <1>2, FS_AddElement
        <4>4. inflight' = inflight \cup {next}
          BY <2>1 DEF Deliver
        <4>5. QED
          BY <1>2, <4>1, <4>2, <4>3, <4>4, HubAssumption
      <3>2. inflight' \subseteq Messages /\ next' \in 1..(Notifications + 1)
        BY <2>1, HubAssumption DEF Deliver, Messages, IInv, TypeOK
      <3>3. QED
        BY <2>1, <1>1, <3>1, <3>2 DEF Deliver, IInv, TypeOK
    <2>2. ASSUME NEW m \in Messages, Broadcast(m)
          PROVE  TypeOK'
      <3>1. broadcast' \in Seq(Messages) /\ Len(broadcast') = Len(broadcast) + 1 /\ Len(broadcast) \in Nat
        BY <2>2, AppendProperties, LenProperties DEF Broadcast, IInv, TypeOK
      <3>2. Len(broadcast') <= BroadcastBuffer
        BY <2>2, <3>1, HubAssumption DEF Broadcast
      <3>3. Cardinality(inflight') <= Prefetch
        <4>1. Cardinality(inflight') = Cardinality(inflight) - 1
          BY <2>2, <1>2, FS_RemoveElement DEF Broadcast
        <4>2. QED
          BY <1>2, <4>1, HubAssumption DEF IInv, TypeOK
      <3>4. QED
        BY <2>2, <1>1, <3>1, <3>2, <3>3 DEF Broadcast, IInv, TypeOK
    <2>3. CASE LeaveLoop \/ Return
      BY <2>3, <1>1 DEF LeaveLoop, Return, IInv, TypeOK
    <2>4. CASE Stop
      <3>1. stopping' \in BOOLEAN
        BY <2>4 DEF Stop
      <3>2. QED
        BY <2>4, <1>1, <3>1 DEF Stop, consumerVars, IInv, TypeOK
    <2>5. QED
      BY <2>1, <2>2, <2>3, <2>4
  <1>4. QED
    BY <1>1, <1>3, QuietStep

LEMMA NextIInv == IInv /\ [Next]_vars => IInv'
  <1> SUFFICES ASSUME IInv, [Next]_vars PROVE IInv'
    OBVIOUS
  <1>1. CASE \E c \in Clients : Client(c)
    BY <1>1, PumpStarts, LeaveStep, WriteStep, PumpEnds DEF Client, Writer
  <1>2. CASE Dispatch
    BY <1>2, DispatchStep
  <1>3. CASE HubStops
    BY <1>3, HubStopsStep
  <1>4. CASE Deliver \/ (\E m \in Messages : Broadcast(m)) \/ LeaveLoop \/ Return \/ Stop
    BY <1>4, ConsumerStep
  <1>5. CASE UNCHANGED vars
    <2>1. TypeOK'
      BY <1>5 DEF vars, IInv, TypeOK
    <2>2. QED
      BY <1>5, <2>1, QuietStep DEF vars
  <1>6. QED
    BY <1>1, <1>2, <1>3, <1>4, <1>5 DEF Next
-----------------------------------------------------------------------------
(* The inductive invariant holds in every reachable state.                 *)
THEOREM Invariance == Spec => []IInv
  BY InitIInv, NextIInv, PTL DEF Spec

(* No buffer grows past its capacity, whatever the browsers do.            *)
THEOREM TypeCorrect == Spec => []TypeOK
  <1>1. IInv => TypeOK
    BY DEF IInv
  <1>2. QED
    BY <1>1, Invariance, PTL

(* Run never panics on a send channel: for any number of browsers that     *)
(* come, go, lag and are dropped several times, and for any shutdown.      *)
THEOREM HubDoesNotPanic == Spec => []NoPanic
  <1>1. IInv => NoPanic
    BY DEF IInv
  <1>2. QED
    BY <1>1, Invariance, PTL

(* A browser that stays registered has a stream without gaps.              *)
THEOREM StreamHasNoGap == Spec => []StreamIsWhole
  <1>1. IInv => StreamIsWhole
    BY DEF IInv
  <1>2. QED
    BY <1>1, Invariance, PTL
-----------------------------------------------------------------------------
(* The hang of Findings: Broadcast has no case for a hub that has gone.    *)

\* The handler of m waits in Broadcast for room that no hub will make.
Stuck(m) ==
  /\ ~running
  /\ Len(broadcast) = BroadcastBuffer
  /\ m \in inflight
  /\ loop # "returned"

LEMMA StuckStays ==
  ASSUME NEW m, Stuck(m), [Next]_vars
  PROVE  Stuck(m)'
  <1> USE DEF Stuck
  <1>1. CASE \E c \in Clients : Client(c)
    BY <1>1 DEF Client, Register, RegisterAfterStop, Leave, Unregister, UnregisterAfterStop,
                Writer, Write, WriterEnds, ReaderEnds, PeerLeaves, consumerVars
  <1>2. CASE Dispatch \/ HubStops
    BY <1>2 DEF Dispatch, HubStops
  <1>3. CASE Deliver \/ LeaveLoop \/ Stop
    BY <1>3 DEF Deliver, LeaveLoop, Stop, consumerVars
  <1>4. ASSUME NEW k \in Messages, Broadcast(k)
        PROVE  FALSE
    BY <1>4, HubAssumption DEF Broadcast
  <1>5. CASE Return
    BY <1>5 DEF Return
  <1>6. CASE UNCHANGED vars
    BY <1>6 DEF vars
  <1>7. QED
    BY <1>1, <1>2, <1>3, <1>4, <1>5, <1>6 DEF Next

(* A handler that finds the buffer full once the hub has returned waits in *)
(* Broadcast for ever, and Consume with it: wg.Wait never returns, nor     *)
(* does the background.Wait of the shutdown, whatever is scheduled and for *)
(* any capacity (hub.go Broadcast, cmd/api main.go).                       *)
THEOREM FullBufferHangs ==
  ASSUME NEW m \in Messages
  PROVE  Spec => [](Stuck(m) => []Stuck(m))
  <1>1. Stuck(m) /\ [Next]_vars => Stuck(m)'
    BY StuckStays
  <1>2. QED
    BY <1>1, PTL DEF Spec
=============================================================================
