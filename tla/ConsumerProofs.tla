--------------------------- MODULE ConsumerProofs ---------------------------
(***************************************************************************)
(* Proofs about Consumer for any queues, events, bindings, prefetch,       *)
(* retries, faults and shutdowns.  The inductive invariant IInv adds to    *)
(* the types where an acknowledgement may come from: whoever is about to   *)
(* acknowledge a message has handled it, or a copy with a higher attempt   *)
(* waits in the same queue.                                                *)
(***************************************************************************)
EXTENDS Consumer, FiniteSetTheorems, TLAPS

\* The broker has m for q: ready, or unacknowledged.
Copy(q, m) ==
  \/ ready[q][m] > 0
  \/ \E s \in Slots : open[q] /\ task[q][s] # "free" /\ held[q][s] = m

\* ... or a later attempt of it.
Higher(q, m) == \E n \in Messages : n[1] = m[1] /\ n[2] > m[2] /\ Copy(q, n)

\* Messages are only in queues bound to their key.
Bindings ==
  /\ \A q \in Queues, m \in Messages : ready[q][m] > 0 => q \in Bound[m[1]]
  /\ \A q \in Queues, s \in Slots :
       task[q][s] # "free" => q \in Bound[held[q][s][1]]

\* A consumer that has returned has no delivery and no channel.
Idle ==
  \A q \in Queues : loop[q] \in {"down", "returned"} =>
    ~open[q] /\ \A s \in Slots : task[q][s] = "free"

\* What is about to be acknowledged will not be missed.
Acks ==
  \A q \in Queues, s \in Slots : open[q] /\ task[q][s] = "ack" =>
    Done(q, held[q][s][1]) \/ Higher(q, held[q][s])

IInv == TypeOK /\ Bindings /\ Idle /\ Acks /\ NoEventLost

-----------------------------------------------------------------------------
(* Messages.                                                               *)

LEMMA MessageParts ==
  ASSUME NEW m \in Messages
  PROVE  m[1] \in Events /\ m[2] \in 0..MaxRetries /\ m[2] \in Nat /\ m # NoMessage
         /\ m = <<m[1], m[2]>>
BY ConsumerAssumption DEF Messages, NoMessage

LEMMA FirstAttempt ==
  ASSUME NEW e \in Events
  PROVE  <<e, 0>> \in Messages
BY ConsumerAssumption DEF Messages

\* A goroutine at work has a message.
LEMMA AtWork ==
  ASSUME TypeOK, NEW q \in Queues, NEW s \in Slots, task[q][s] # "free"
  PROVE  held[q][s] \in Messages
BY DEF TypeOK

\* A message that is not exhausted can be sent once more.
LEMMA RetryIsMessage ==
  ASSUME NEW m \in Messages, ~Exhausted(m)
  PROVE  Retry(m) \in Messages
<1>1. m[1] \in Events /\ m[2] \in Nat /\ m[2] + 1 \in 0..MaxRetries
  BY MessageParts, ConsumerAssumption DEF Exhausted
<1> QED
  BY <1>1 DEF Retry, Messages

\* What the exchange adds to the queues.
LEMMA RoutedAdds ==
  ASSUME TypeOK, NEW m \in Messages
  PROVE  /\ Routed(m) \in [Queues -> [Messages -> Nat]]
         /\ \A q \in Queues, n \in Messages :
              /\ Routed(m)[q][n] >= ready[q][n]
              /\ Routed(m)[q][n] > ready[q][n] => n = m /\ q \in Bound[m[1]]
         /\ \A q \in Queues : q \in Bound[m[1]] => Routed(m)[q][m] > 0
<1>1. ready \in [Queues -> [Messages -> Nat]]
  BY DEF TypeOK
<1>2. ASSUME NEW q \in Queues
      PROVE  /\ Routed(m)[q] \in [Messages -> Nat]
             /\ \A n \in Messages :
                  /\ Routed(m)[q][n] >= ready[q][n]
                  /\ Routed(m)[q][n] > ready[q][n] => n = m /\ q \in Bound[m[1]]
             /\ q \in Bound[m[1]] => Routed(m)[q][m] > 0
  <2>1. ready[q] \in [Messages -> Nat]
    BY <1>1
  <2>2. CASE q \in Bound[m[1]]
    <3>1. Routed(m)[q] = [ready[q] EXCEPT ![m] = @ + 1]
      BY <2>2 DEF Routed
    <3> QED
      BY <2>1, <2>2, <3>1
  <2>3. CASE q \notin Bound[m[1]]
    <3>1. Routed(m)[q] = ready[q]
      BY <2>3 DEF Routed
    <3> QED
      BY <2>1, <2>3, <3>1
  <2> QED
    BY <2>2, <2>3
<1> QED
  BY <1>2 DEF Routed

\* What the end of a channel gives back.
LEMMA GivenBack ==
  ASSUME TypeOK, NEW q \in Queues, GiveBack(q)
  PROVE  /\ ready' \in [Queues -> [Messages -> Nat]]
         /\ \A p \in Queues, n \in Messages : ready'[p][n] >= ready[p][n]
         /\ \A p \in Queues : p # q => ready'[p] = ready[p]
         /\ \A n \in Messages :
              ready'[q][n] > ready[q][n] =>
                \E s \in Slots : task[q][s] # "free" /\ held[q][s] = n
         /\ \A s \in Slots :
              open[q] /\ task[q][s] # "free" => ready'[q][held[q][s]] > 0
<1> DEFINE Holding(n) == {s \in Unacked(q) : held[q][s] = n}
           Back == [n \in Messages |-> ready[q][n] + Cardinality(Holding(n))]
<1>1. ready \in [Queues -> [Messages -> Nat]]
  BY DEF TypeOK
<1>2. ASSUME NEW n \in Messages
      PROVE  /\ Cardinality(Holding(n)) \in Nat
             /\ Cardinality(Holding(n)) = 0 <=> Holding(n) = {}
  <2>1. IsFiniteSet(Slots)
    BY FS_Interval, ConsumerAssumption DEF Slots
  <2>2. Holding(n) \subseteq Slots
    BY DEF Unacked
  <2>3. IsFiniteSet(Holding(n))
    BY <2>1, <2>2, FS_Subset
  <2> QED
    BY <2>3, FS_CardinalityType, FS_EmptySet
<1>3. ready' = [ready EXCEPT ![q] = Back]
  BY DEF GiveBack
<1>4. Back \in [Messages -> Nat]
  <2> HIDE DEF Holding
  <2> QED
    BY <1>1, <1>2
<1>5. ready' \in [Queues -> [Messages -> Nat]] /\ ready'[q] = Back
      /\ \A p \in Queues : p # q => ready'[p] = ready[p]
  <2> HIDE DEF Back
  <2> QED
    BY <1>1, <1>3, <1>4
<1>6. \A n \in Messages : /\ Back[n] = ready[q][n] + Cardinality(Holding(n))
                          /\ ready[q][n] \in Nat
  BY <1>1
<1>7. \A n \in Messages : /\ ready'[q][n] >= ready[q][n]
                          /\ ready'[q][n] > ready[q][n] => Holding(n) # {}
                          /\ Holding(n) # {} => ready'[q][n] > 0
  <2> HIDE DEF Back, Holding
  <2> QED
    BY <1>2, <1>5, <1>6
<1>8. ASSUME NEW n \in Messages, ready'[q][n] > ready[q][n]
      PROVE  \E s \in Slots : task[q][s] # "free" /\ held[q][s] = n
  BY <1>7, <1>8 DEF Unacked
<1>9. ASSUME NEW s \in Slots, open[q], task[q][s] # "free"
      PROVE  ready'[q][held[q][s]] > 0
  <2>1. held[q][s] \in Messages
    BY <1>9, AtWork
  <2>2. s \in Holding(held[q][s])
    BY <1>9 DEF Unacked
  <2> QED
    BY <1>7, <2>1, <2>2
<1>10. \A p \in Queues, n \in Messages : ready'[p][n] >= ready[p][n]
  <2> HIDE DEF Back, Holding
  <2>1. \A p \in Queues, n \in Messages : ready[p][n] \in Nat
    BY <1>1
  <2> QED
    BY <1>5, <1>7, <2>1
<1> QED
  BY <1>5, <1>8, <1>9, <1>10

-----------------------------------------------------------------------------
(* What a step must show.                                                  *)

LEMMA KeptIsCopy ==
  ASSUME TypeOK, NEW q \in Queues, NEW e \in Events
  PROVE  Kept(q, e) <=> \E m \in Messages : m[1] = e /\ Copy(q, m)
<1>1. ASSUME Kept(q, e)
      PROVE  \E m \in Messages : m[1] = e /\ Copy(q, m)
  BY <1>1, AtWork DEF Kept, Unacked, Copy
<1> QED
  BY <1>1 DEF Kept, Unacked, Copy

LEMMA KeptIsCopyNext ==
  ASSUME TypeOK', NEW q \in Queues, NEW e \in Events
  PROVE  Kept(q, e)' <=> \E m \in Messages : m[1] = e /\ Copy(q, m)'
<1>1. \A s \in Slots : task'[q][s] # "free" => held'[q][s] \in Messages
  BY DEF TypeOK
<1>2. ASSUME Kept(q, e)'
      PROVE  \E m \in Messages : m[1] = e /\ Copy(q, m)'
  BY <1>1, <1>2 DEF Kept, Unacked, Copy
<1> QED
  BY <1>2 DEF Kept, Unacked, Copy

\* A copy may go only for a later one or for good, and nothing new is lost.
LEMMA Persist ==
  ASSUME IInv, TypeOK',
         \A q \in Queues, e \in Events : Done(q, e) => Done(q, e)',
         \A q \in Queues, m \in Messages :
           Copy(q, m) => Copy(q, m)' \/ Done(q, m[1])' \/ Higher(q, m)',
         \A q \in Queues, s \in Slots :
           open'[q] /\ task'[q][s] = "ack" =>
             \/ open[q] /\ task[q][s] = "ack" /\ held'[q][s] = held[q][s]
             \/ Done(q, held[q][s][1])'
             \/ Higher(q, held[q][s])',
         \A e \in Published' \ Published : \A q \in Bound[e] : Copy(q, <<e, 0>>)'
  PROVE  Acks' /\ NoEventLost'
<1>1. ASSUME NEW q \in Queues, NEW m \in Messages, Higher(q, m)
      PROVE  Done(q, m[1])' \/ Higher(q, m)'
  <2>1. PICK n \in Messages : n[1] = m[1] /\ n[2] > m[2] /\ Copy(q, n)
    BY <1>1 DEF Higher
  <2>2. CASE Copy(q, n)' \/ Done(q, n[1])'
    BY <2>1, <2>2 DEF Higher
  <2>3. CASE Higher(q, n)'
    <3>1. PICK k \in Messages : k[1] = n[1] /\ k[2] > n[2] /\ Copy(q, k)'
      BY <2>3 DEF Higher
    <3>2. k[2] > m[2]
      BY <2>1, <3>1, MessageParts
    <3> QED
      BY <2>1, <3>1, <3>2 DEF Higher
  <2> QED
    BY <2>1, <2>2, <2>3
<1>2. Acks'
  <2> SUFFICES ASSUME NEW q \in Queues, NEW s \in Slots,
                      open'[q], task'[q][s] = "ack"
               PROVE  Done(q, held[q][s][1])' \/ Higher(q, held[q][s])'
    BY DEF Acks
  <2>1. ASSUME open[q], task[q][s] = "ack", held'[q][s] = held[q][s]
        PROVE  Done(q, held[q][s][1])' \/ Higher(q, held[q][s])'
    <3>1. held[q][s] \in Messages /\ held[q][s][1] \in Events
      BY <2>1, AtWork, MessageParts DEF IInv
    <3>2. Done(q, held[q][s][1]) \/ Higher(q, held[q][s])
      BY <2>1 DEF IInv, Acks
    <3>3. Done(q, held[q][s][1])' \/ \E n \in Messages :
            n[1] = held[q][s][1] /\ n[2] > held[q][s][2] /\ Copy(q, n)'
      BY <1>1, <2>1, <3>1, <3>2 DEF Higher, Done
    <3> QED
      BY <2>1, <3>3 DEF Higher, Done
  <2> QED
    BY <2>1
<1>3. NoEventLost'
  <2> SUFFICES ASSUME NEW e \in Published', NEW q \in Bound[e]
               PROVE  Kept(q, e)' \/ Done(q, e)'
    BY DEF NoEventLost
  <2>1. e \in Events /\ q \in Queues
    BY ConsumerAssumption DEF Published
  <2>2. CASE e \notin Published
    <3>1. Copy(q, <<e, 0>>)' /\ <<e, 0>> \in Messages
      BY <2>1, <2>2, FirstAttempt
    <3> QED
      BY <2>1, <3>1, KeptIsCopyNext
  <2>3. CASE e \in Published /\ Done(q, e)
    <3>1. Done(q, e)'
      BY <2>1, <2>3
    <3> QED
      BY <3>1
  <2>4. CASE e \in Published /\ Kept(q, e)
    <3>1. PICK m \in Messages : m[1] = e /\ Copy(q, m)
      BY <2>1, <2>4, KeptIsCopy DEF IInv
    <3>2. Copy(q, m)' \/ Done(q, e)' \/ Higher(q, m)'
      BY <2>1, <3>1
    <3> QED
      BY <2>1, <3>1, <3>2, KeptIsCopyNext DEF Higher
  <2> QED
    BY <2>2, <2>3, <2>4 DEF IInv, NoEventLost
<1> QED
  BY <1>2, <1>3

\* Steps that take nothing away.
LEMMA NothingGoes ==
  ASSUME IInv, TypeOK',
         \A q \in Queues, m \in Messages : ready'[q][m] >= ready[q][m],
         \A q \in Queues, s \in Slots : open[q] /\ task[q][s] # "free" =>
           open'[q] /\ task'[q][s] # "free" /\ held'[q][s] = held[q][s]
  PROVE  \A q \in Queues, m \in Messages : Copy(q, m) => Copy(q, m)'
<1>1. \A q \in Queues, m \in Messages : ready[q][m] \in Nat /\ ready'[q][m] \in Nat
  BY DEF IInv, TypeOK
<1> QED
  BY <1>1 DEF Copy

-----------------------------------------------------------------------------
(* The loop.                                                               *)

LEMMA Start0 == Init => IInv
<1> SUFFICES ASSUME Init PROVE IInv
  OBVIOUS
<1>1. TypeOK
  BY ConsumerAssumption DEF Init, TypeOK, Tasks, Messages
<1>2. Bindings /\ Idle /\ Acks /\ NoEventLost
  BY FirstAttempt DEF Init, Bindings, Idle, Acks, NoEventLost, Published
<1> QED
  BY <1>1, <1>2 DEF IInv

LEMMA PublishKeeps ==
  ASSUME IInv, NEW e \in Events, Publish(e)
  PROVE  IInv'
<1>1. <<e, 0>> \in Messages /\ TypeOK
  BY FirstAttempt DEF IInv
<1> DEFINE m == <<e, 0>>
<1>2. /\ ready' = Routed(m) /\ sent' = [sent EXCEPT ![m] = @ + 1]
      /\ UNCHANGED <<dlq, task, held, loop, open, conn, stop, handled, retries, stops>>
      /\ faults' \in 0..MaxFaults
  BY <1>1, ConsumerAssumption DEF Publish, Send, Fault, consumeVars, historyVars, TypeOK
<1>3. /\ ready' \in [Queues -> [Messages -> Nat]]
      /\ \A q \in Queues, n \in Messages :
           /\ ready'[q][n] >= ready[q][n]
           /\ ready'[q][n] > ready[q][n] => n = m /\ q \in Bound[e]
      /\ \A q \in Queues : q \in Bound[e] => ready'[q][m] > 0
  <2>1. m[1] = e
    OBVIOUS
  <2> HIDE DEF m
  <2> QED
    BY <1>1, <1>2, <2>1, RoutedAdds DEF m
<1>4. TypeOK'
  <2>1. m \in Messages
    BY <1>1
  <2> HIDE DEF m
  <2>2. sent' \in [Messages -> Nat]
    BY <1>1, <1>2, <2>1 DEF TypeOK
  <2> QED
    BY <1>1, <1>2, <1>3, <2>2 DEF TypeOK
<1> HIDE DEF m
<1>5. Bindings'
  <2>1. \A q \in Queues, n \in Messages : ready[q][n] \in Nat /\ ready'[q][n] \in Nat
    BY <1>1, <1>3 DEF TypeOK
  <2>2. ASSUME NEW q \in Queues, NEW n \in Messages, ready'[q][n] > 0
        PROVE  q \in Bound[n[1]]
    <3>1. CASE ready[q][n] > 0
      BY <3>1 DEF IInv, Bindings
    <3>2. CASE ~(ready[q][n] > 0)
      BY <1>3, <2>1, <2>2, <3>2 DEF m
    <3> QED
      BY <3>1, <3>2
  <2> QED
    BY <1>2, <2>2 DEF IInv, Bindings
<1>6. Idle'
  BY <1>2 DEF IInv, Idle
<1>7. \A q \in Queues, n \in Messages : Copy(q, n) => Copy(q, n)'
  BY <1>2, <1>3, <1>4, NothingGoes
<1>8. \A q \in Bound[e] : Copy(q, m)'
  BY <1>3, ConsumerAssumption DEF Copy
<1>9. \A f \in Published' \ Published : f = e
  BY <1>1, <1>2 DEF Published, TypeOK, Messages, m
<1>10. Acks' /\ NoEventLost'
  BY <1>2, <1>4, <1>7, <1>8, <1>9, Persist DEF Done, m
<1> QED
  BY <1>4, <1>5, <1>6, <1>10 DEF IInv

\* Steps of the loop and the process that touch neither queues nor goroutines
\* and open a channel only when nothing is at work.
LEMMA LoopKeeps ==
  ASSUME IInv, TypeOK', Idle',
         UNCHANGED <<brokerVars, task, held, historyVars>>,
         \A q \in Queues : open[q] /\ ~open'[q] => \A s \in Slots : task[q][s] = "free",
         \A q \in Queues : ~open[q] /\ open'[q] => \A s \in Slots : task[q][s] = "free"
  PROVE  IInv'
<1>1. /\ ready' = ready /\ task' = task /\ held' = held /\ Published' = Published
      /\ handled' = handled /\ dlq' = dlq
  BY DEF brokerVars, historyVars, Published
<1>2. Bindings'
  BY <1>1 DEF IInv, Bindings
<1>3. \A q \in Queues, m \in Messages : ready'[q][m] >= ready[q][m]
  BY <1>1 DEF IInv, TypeOK
<1>4. \A q \in Queues, m \in Messages : Copy(q, m) => Copy(q, m)'
  BY <1>1, <1>3, NothingGoes
<1>5. \A q \in Queues, e \in Events : Done(q, e) => Done(q, e)'
  BY <1>1 DEF Done
<1>6. \A q \in Queues, s \in Slots : open'[q] /\ task'[q][s] = "ack" =>
        open[q] /\ task[q][s] = "ack" /\ held'[q][s] = held[q][s]
  BY <1>1
<1>7. Acks' /\ NoEventLost'
  BY <1>1, <1>4, <1>5, <1>6, Persist
<1> QED
  BY <1>2, <1>7 DEF IInv

LEMMA ConsumeLoopKeeps ==
  ASSUME IInv, NEW q \in Queues,
         Start(q) \/ StartFails(q) \/ LeaveLoop(q) \/ Return(q)
  PROVE  IInv'
<1>1. TypeOK /\ Idle
  BY DEF IInv
<1>2. UNCHANGED <<brokerVars, task, held, historyVars>>
  BY DEF Start, StartFails, LeaveLoop, Return
<1>3. UNCHANGED <<sent, ready, dlq, task, held, stop, handled, retries, stops>>
  BY <1>2 DEF brokerVars, historyVars, Start, StartFails, LeaveLoop, Return
<1>4. CASE Start(q)
  <2>1. /\ loop[q] = "down" /\ loop' = [loop EXCEPT ![q] = "reading"]
        /\ open' = [open EXCEPT ![q] = TRUE] /\ conn' = [conn EXCEPT ![q] = TRUE]
        /\ faults' = faults
    BY <1>4 DEF Start
  <2>2. TypeOK'
    BY <1>1, <1>3, <2>1 DEF TypeOK
  <2>3. \A p \in Queues :
          /\ p # q => open'[p] = open[p] /\ loop'[p] = loop[p]
          /\ open'[q] /\ loop'[q] = "reading"
    BY <1>1, <2>1 DEF TypeOK
  <2>4. Idle' /\ ~open[q] /\ \A s \in Slots : task[q][s] = "free"
    BY <1>1, <1>3, <2>1, <2>3 DEF Idle
  <2> QED
    BY <1>2, <2>2, <2>3, <2>4, LoopKeeps
<1>5. CASE StartFails(q)
  <2>1. /\ loop[q] = "down" /\ loop' = [loop EXCEPT ![q] = "returned"]
        /\ open' = open /\ conn' = conn /\ faults < MaxFaults /\ faults' = faults + 1
    BY <1>5 DEF StartFails, Fault
  <2>2. TypeOK'
    BY <1>1, <1>3, <2>1, ConsumerAssumption DEF TypeOK
  <2>3. Idle'
    BY <1>1, <1>3, <2>1 DEF Idle, TypeOK
  <2> QED
    BY <1>2, <2>1, <2>2, <2>3, LoopKeeps
<1>6. CASE LeaveLoop(q)
  <2>1. /\ loop' = [loop EXCEPT ![q] = "waiting"]
        /\ open' = open /\ conn' = conn /\ faults' = faults
    BY <1>6 DEF LeaveLoop
  <2>2. TypeOK'
    BY <1>1, <1>3, <2>1 DEF TypeOK
  <2>3. Idle'
    BY <1>1, <1>3, <2>1 DEF Idle, TypeOK
  <2> QED
    BY <1>2, <2>1, <2>2, <2>3, LoopKeeps
<1>7. CASE Return(q)
  <2>1. /\ loop' = [loop EXCEPT ![q] = "returned"]
        /\ \A s \in Slots : task[q][s] = "free"
        /\ open' = [open EXCEPT ![q] = FALSE] /\ conn' = conn /\ faults' = faults
    BY <1>7 DEF Return
  <2>2. TypeOK'
    BY <1>1, <1>3, <2>1 DEF TypeOK
  <2>3. \A p \in Queues :
          /\ p # q => open'[p] = open[p] /\ loop'[p] = loop[p]
          /\ ~open'[q]
    BY <1>1, <2>1 DEF TypeOK
  <2>4. Idle'
    BY <1>1, <1>3, <2>1, <2>3 DEF Idle
  <2> QED
    BY <1>2, <2>1, <2>2, <2>3, <2>4, LoopKeeps
<1> QED
  BY <1>4, <1>5, <1>6, <1>7

LEMMA DeliverKeeps ==
  ASSUME IInv, NEW q \in Queues, Deliver(q)
  PROVE  IInv'
<1>1. PICK s \in Slots, m \in Messages :
        /\ loop[q] = "reading" /\ open[q]
        /\ task[q][s] = "free" /\ ready[q][m] > 0
        /\ ready' = [ready EXCEPT ![q][m] = @ - 1]
        /\ held' = [held EXCEPT ![q][s] = m]
        /\ task' = [task EXCEPT ![q][s] = FirstTask(m)]
        /\ UNCHANGED <<sent, dlq, consumeVars, historyVars, faults, stops>>
  BY DEF Deliver
<1>2. TypeOK /\ m # NoMessage /\ FirstTask(m) \in {"deadletter", "handling"}
  BY MessageParts DEF IInv, FirstTask
<1>3. UNCHANGED <<sent, dlq, loop, open, conn, stop, handled, retries,
                  faults, stops>>
  BY <1>1 DEF consumeVars, historyVars
<1>4. /\ ready' \in [Queues -> [Messages -> Nat]]
      /\ \A p \in Queues, n \in Messages :
           /\ ready'[p][n] <= ready[p][n]
           /\ p # q \/ n # m => ready'[p][n] = ready[p][n]
  <2>1. ready \in [Queues -> [Messages -> Nat]]
    BY <1>2 DEF TypeOK
  <2>2. ready[q][m] - 1 \in Nat
    BY <1>1, <2>1
  <2> QED
    BY <1>1, <2>1, <2>2
<1>5. /\ held' \in [Queues -> [Slots -> Messages \cup {NoMessage}]]
      /\ task' \in [Queues -> [Slots -> Tasks]]
      /\ held'[q][s] = m /\ task'[q][s] = FirstTask(m)
      /\ \A p \in Queues, r \in Slots :
           p # q \/ r # s => held'[p][r] = held[p][r] /\ task'[p][r] = task[p][r]
  BY <1>1, <1>2 DEF TypeOK, Tasks
<1>6. TypeOK'
  <2>1. ASSUME NEW p \in Queues, NEW r \in Slots
        PROVE  /\ held'[p][r] = NoMessage <=> task'[p][r] = "free"
               /\ task'[p][r] = "backoff" => Retry(held'[p][r]) \in Messages
    <3>1. CASE p = q /\ r = s
      BY <1>2, <1>5, <3>1
    <3>2. CASE p # q \/ r # s
      BY <1>2, <1>5, <3>2 DEF TypeOK
    <3> QED
      BY <3>1, <3>2
  <2> QED
    BY <1>2, <1>3, <1>4, <1>5, <2>1 DEF TypeOK
<1>7. Bindings'
  <2>1. \A p \in Queues, n \in Messages : ready[p][n] \in Nat /\ ready'[p][n] \in Nat
    BY <1>2, <1>4 DEF TypeOK
  <2>2. \A p \in Queues, n \in Messages : ready'[p][n] > 0 => p \in Bound[n[1]]
    BY <1>4, <2>1 DEF IInv, Bindings
  <2>3. q \in Bound[m[1]]
    BY <1>1 DEF IInv, Bindings
  <2>4. \A p \in Queues, r \in Slots :
          task'[p][r] # "free" => p \in Bound[held'[p][r][1]]
    BY <1>5, <2>3 DEF IInv, Bindings
  <2> QED
    BY <2>2, <2>4 DEF Bindings
<1>8. Idle'
  BY <1>1, <1>3, <1>5 DEF IInv, Idle
<1>9. ASSUME NEW p \in Queues, NEW n \in Messages, Copy(p, n)
      PROVE  Copy(p, n)'
  <2>1. CASE p = q /\ n = m
    BY <1>1, <1>2, <1>3, <1>5, <2>1 DEF Copy
  <2>2. CASE (p # q \/ n # m) /\ ready[p][n] > 0
    BY <1>4, <2>2 DEF Copy
  <2>3. CASE \E r \in Slots : open[p] /\ task[p][r] # "free" /\ held[p][r] = n
    <3>1. PICK r \in Slots : open[p] /\ task[p][r] # "free" /\ held[p][r] = n
      BY <2>3
    <3>2. p # q \/ r # s
      BY <1>1, <3>1
    <3> QED
      BY <1>3, <1>5, <3>1, <3>2 DEF Copy
  <2> QED
    BY <1>9, <2>1, <2>2, <2>3 DEF Copy
<1>10. \A p \in Queues, e \in Events : Done(p, e) => Done(p, e)'
  BY <1>3 DEF Done
<1>11. \A p \in Queues, r \in Slots : open'[p] /\ task'[p][r] = "ack" =>
         open[p] /\ task[p][r] = "ack" /\ held'[p][r] = held[p][r]
  BY <1>2, <1>3, <1>5
<1>12. Acks' /\ NoEventLost'
  BY <1>3, <1>6, <1>9, <1>10, <1>11, Persist DEF Published
<1> QED
  BY <1>6, <1>7, <1>8, <1>12 DEF IInv

-----------------------------------------------------------------------------
(* handleDelivery.                                                         *)

\* A goroutine goes on with its delivery.
LEMMA GoesKeeps ==
  ASSUME IInv, NEW q \in Queues, NEW s \in Slots, task[q][s] # "free",
         NEW to \in Tasks \ {"free"},
         task' = [task EXCEPT ![q][s] = to],
         to = "backoff" => Retry(held[q][s]) \in Messages,
         UNCHANGED <<dlq, held, consumeVars, stops>>,
         sent' \in [Messages -> Nat], Published' = Published,
         ready' \in [Queues -> [Messages -> Nat]],
         handled' \in [Queues -> [Messages -> Nat]],
         retries' \in [Queues -> [Messages -> Nat]],
         faults' \in 0..MaxFaults,
         \A p \in Queues, m \in Messages :
           /\ ready'[p][m] >= ready[p][m]
           /\ ready'[p][m] > ready[p][m] => p \in Bound[m[1]],
         \A p \in Queues, m \in Messages : handled'[p][m] >= handled[p][m],
         to = "ack" => Done(q, held[q][s][1])' \/ Higher(q, held[q][s])'
  PROVE  IInv'
<1>1. TypeOK
  BY DEF IInv
<1>2. UNCHANGED <<dlq, held, loop, open, conn, stop, stops>>
  BY DEF consumeVars
<1>3. /\ task' \in [Queues -> [Slots -> Tasks]]
      /\ task'[q][s] = to
      /\ \A p \in Queues, r \in Slots : p # q \/ r # s => task'[p][r] = task[p][r]
  BY <1>1 DEF TypeOK
<1>4. TypeOK'
  <2>1. ASSUME NEW p \in Queues, NEW r \in Slots
        PROVE  /\ held'[p][r] = NoMessage <=> task'[p][r] = "free"
               /\ task'[p][r] = "backoff" => Retry(held'[p][r]) \in Messages
    <3>1. CASE p = q /\ r = s
      BY <1>1, <1>2, <1>3, <3>1 DEF TypeOK
    <3>2. CASE p # q \/ r # s
      BY <1>1, <1>2, <1>3, <3>2 DEF TypeOK
    <3> QED
      BY <3>1, <3>2
  <2> QED
    BY <1>1, <1>2, <1>3, <2>1 DEF TypeOK
<1>5. Bindings'
  <2>1. \A p \in Queues, m \in Messages : ready[p][m] \in Nat /\ ready'[p][m] \in Nat
    BY <1>1 DEF TypeOK
  <2>2. ASSUME NEW p \in Queues, NEW m \in Messages, ready'[p][m] > 0
        PROVE  p \in Bound[m[1]]
    <3>1. CASE ready'[p][m] > ready[p][m]
      BY <3>1
    <3>2. CASE ~(ready'[p][m] > ready[p][m])
      <4>1. ready[p][m] > 0
        BY <2>1, <2>2, <3>2
      <4> QED
        BY <4>1 DEF IInv, Bindings
    <3> QED
      BY <3>1, <3>2
  <2>3. \A p \in Queues, r \in Slots : task'[p][r] # "free" => task[p][r] # "free"
    BY <1>3
  <2> QED
    BY <1>2, <2>2, <2>3 DEF IInv, Bindings
<1>6. Idle'
  BY <1>2, <1>3 DEF IInv, Idle
<1>7. \A p \in Queues, m \in Messages : Copy(p, m) => Copy(p, m)'
  <2>1. \A p \in Queues, r \in Slots : open[p] /\ task[p][r] # "free" =>
          open'[p] /\ task'[p][r] # "free" /\ held'[p][r] = held[p][r]
    BY <1>2, <1>3
  <2> QED
    BY <1>4, <2>1, NothingGoes
<1>8. \A p \in Queues, e \in Events : Done(p, e) => Done(p, e)'
  <2>1. \A p \in Queues, m \in Messages : handled[p][m] \in Nat /\ handled'[p][m] \in Nat
    BY <1>1 DEF TypeOK
  <2> QED
    BY <1>2, <2>1 DEF Done
<1>9. ASSUME NEW p \in Queues, NEW r \in Slots, open'[p], task'[p][r] = "ack"
      PROVE  \/ open[p] /\ task[p][r] = "ack" /\ held'[p][r] = held[p][r]
             \/ Done(p, held[p][r][1])'
             \/ Higher(p, held[p][r])'
  BY <1>2, <1>3, <1>9
<1>10. Acks' /\ NoEventLost'
  BY <1>2, <1>4, <1>7, <1>8, <1>9, Persist
<1> QED
  BY <1>4, <1>5, <1>6, <1>10 DEF IInv

LEMMA HandlerKeeps ==
  ASSUME IInv, NEW q \in Queues, NEW s \in Slots,
         HandlerSucceeds(q, s) \/ HandlerFails(q, s) \/ BackoffCancelled(q, s)
  PROVE  IInv'
<1>1. TypeOK
  BY DEF IInv
<1>2. /\ UNCHANGED <<sent, dlq, held, consumeVars, stops>> /\ Published' = Published
      /\ ready' = ready /\ retries' = retries /\ faults' = faults
      /\ task[q][s] \in {"handling", "backoff"}
  BY DEF HandlerSucceeds, HandlerFails, BackoffCancelled, Goes, brokerVars, historyVars, Published
<1>3. /\ ready' \in [Queues -> [Messages -> Nat]]
      /\ retries' \in [Queues -> [Messages -> Nat]] /\ faults' \in 0..MaxFaults
      /\ sent' \in [Messages -> Nat]
      /\ \A p \in Queues, m \in Messages : ready[p][m] \in Nat
  BY <1>1, <1>2 DEF TypeOK
<1>4. \A p \in Queues, m \in Messages :
        /\ ready'[p][m] >= ready[p][m]
        /\ ready'[p][m] > ready[p][m] => p \in Bound[m[1]]
  BY <1>2, <1>3
<1>5. held[q][s] \in Messages /\ held[q][s][1] \in Events
  BY <1>1, <1>2, AtWork, MessageParts
<1>6. CASE HandlerSucceeds(q, s)
  <2> DEFINE m == held[q][s]
  <2>1. /\ task' = [task EXCEPT ![q][s] = "ack"]
        /\ handled' = [handled EXCEPT ![q][m] = @ + 1]
    BY <1>6 DEF HandlerSucceeds, Goes
  <2>2. /\ handled' \in [Queues -> [Messages -> Nat]]
        /\ \A p \in Queues, n \in Messages : handled'[p][n] >= handled[p][n]
        /\ handled'[q][m] > 0
    BY <1>1, <1>5, <2>1 DEF TypeOK
  <2>3. Done(q, held[q][s][1])'
    BY <1>2, <1>5, <2>2 DEF Done
  <2>4. "ack" \in Tasks \ {"free"} /\ "ack" # "backoff"
    BY DEF Tasks
  <2> QED
    BY <1>2, <1>3, <1>4, <2>1, <2>2, <2>3, <2>4, GoesKeeps
<1>7. CASE HandlerFails(q, s) \/ BackoffCancelled(q, s)
  <2>1. PICK to \in {"deadletter", "backoff", "requeue"} :
          /\ task' = [task EXCEPT ![q][s] = to]
          /\ to = "backoff" => ~Exhausted(held[q][s])
    BY <1>7 DEF HandlerFails, BackoffCancelled, Goes
  <2>2. to = "backoff" => Retry(held[q][s]) \in Messages
    BY <1>5, <2>1, RetryIsMessage
  <2>3. /\ handled' \in [Queues -> [Messages -> Nat]]
        /\ \A p \in Queues, n \in Messages : handled'[p][n] >= handled[p][n]
    BY <1>1, <1>7 DEF HandlerFails, BackoffCancelled, historyVars, TypeOK
  <2>4. to \in Tasks \ {"free"} /\ to # "ack"
    BY <2>1 DEF Tasks
  <2> QED
    BY <1>2, <1>3, <1>4, <2>1, <2>2, <2>3, <2>4, GoesKeeps
<1> QED
  BY <1>6, <1>7

LEMMA RepublishKeeps ==
  ASSUME IInv, NEW q \in Queues, NEW s \in Slots, Republish(q, s)
  PROVE  IInv'
<1>1. TypeOK /\ task[q][s] = "backoff"
  BY DEF IInv, Republish, Republished, RepublishRefused, RepublishConfirmLost, Goes
<1> DEFINE m == held[q][s]
<1>2. /\ m \in Messages /\ m[1] \in Events /\ m[2] \in Nat
      /\ Retry(m) \in Messages /\ Retry(m)[1] = m[1] /\ Retry(m)[2] = m[2] + 1
  BY <1>1, AtWork, MessageParts DEF TypeOK, Retry
<1>3. q \in Bound[m[1]]
  BY <1>1 DEF IInv, Bindings
<1>4. /\ UNCHANGED <<dlq, held, consumeVars, stops>> /\ handled' = handled
      /\ \/ sent' = sent /\ ready' = ready /\ retries' = retries
            /\ task' = [task EXCEPT ![q][s] = "requeue"]
         \/ Resend(q, m)
            /\ \E to \in {"ack", "requeue"} : task' = [task EXCEPT ![q][s] = to]
  BY DEF Republish, Republished, RepublishRefused, RepublishConfirmLost, Goes,
         brokerVars, historyVars
<1>5. faults' \in 0..MaxFaults
  <2>1. faults' = faults \/ (faults < MaxFaults /\ faults' = faults + 1)
    BY DEF Republish, Republished, RepublishRefused, RepublishConfirmLost, Fault
  <2> QED
    BY <1>1, <2>1, ConsumerAssumption DEF TypeOK
<1>6. /\ handled' \in [Queues -> [Messages -> Nat]]
      /\ \A p \in Queues, n \in Messages : handled'[p][n] >= handled[p][n]
  BY <1>1, <1>4 DEF TypeOK
<1>7. {"ack", "requeue"} \subseteq Tasks \ {"free"}
  BY DEF Tasks
<1>8. CASE sent' = sent /\ ready' = ready /\ retries' = retries
           /\ task' = [task EXCEPT ![q][s] = "requeue"]
  <2>1. /\ ready' \in [Queues -> [Messages -> Nat]]
        /\ retries' \in [Queues -> [Messages -> Nat]]
        /\ sent' \in [Messages -> Nat] /\ Published' = Published
        /\ \A p \in Queues, n \in Messages :
             ready'[p][n] >= ready[p][n] /\ ~(ready'[p][n] > ready[p][n])
    BY <1>1, <1>8 DEF TypeOK, Published
  <2> QED
    BY <1>1, <1>4, <1>5, <1>6, <1>7, <1>8, <2>1, GoesKeeps
<1>9. ASSUME Resend(q, m), NEW to \in {"ack", "requeue"},
             task' = [task EXCEPT ![q][s] = to]
      PROVE  IInv'
  <2>1. /\ ready' = Routed(Retry(m)) /\ sent' = [sent EXCEPT ![Retry(m)] = @ + 1]
        /\ retries' = [retries EXCEPT ![q][m] = @ + 1]
    BY <1>9 DEF Resend, Send
  <2>2. retries' \in [Queues -> [Messages -> Nat]] /\ sent' \in [Messages -> Nat]
    BY <1>1, <1>2, <2>1 DEF TypeOK
  <2>8. Published' = Published
    <3>1. \A e \in Events : <<e, 0>> # Retry(m)
      BY <1>2 DEF Retry
    <3> QED
      BY <1>1, <2>1, <3>1 DEF Published, TypeOK
  <2> DEFINE r == Retry(m)
  <2>3. r \in Messages /\ r[1] = m[1] /\ r[2] > m[2] /\ ready' = Routed(r)
    BY <1>2, <2>1
  <2> HIDE DEF r, m
  <2>4. /\ ready' \in [Queues -> [Messages -> Nat]]
        /\ \A p \in Queues, n \in Messages :
             /\ ready'[p][n] >= ready[p][n]
             /\ ready'[p][n] > ready[p][n] => p \in Bound[n[1]]
        /\ ready'[q][r] > 0
    BY <1>1, <1>3, <2>3, RoutedAdds
  <2>5. \E n \in Messages : n[1] = m[1] /\ n[2] > m[2] /\ Copy(q, n)'
    BY <2>3, <2>4 DEF Copy
  <2>6. Higher(q, held[q][s])'
    BY <1>4, <2>5 DEF Higher, m
  <2>7. to # "backoff" /\ to \in Tasks \ {"free"}
    BY <1>7, <1>9
  <2> QED
    BY <1>1, <1>4, <1>5, <1>6, <1>9, <2>2, <2>4, <2>6, <2>7, <2>8, GoesKeeps
<1> QED
  BY <1>4, <1>8, <1>9

LEMMA SettleKeeps ==
  ASSUME IInv, NEW q \in Queues, NEW s \in Slots, Settle(q, s)
  PROVE  IInv'
<1>1. TypeOK /\ task[q][s] \in {"ack", "deadletter", "requeue"}
  BY DEF IInv, Settle
<1>0. PICK m : m = held[q][s]
  OBVIOUS
<1>2. m \in Messages /\ m[1] \in Events /\ m[2] \in Nat /\ q \in Bound[m[1]]
  BY <1>0, <1>1, AtWork, MessageParts DEF IInv, Bindings
<1>3. /\ dlq' = IF open[q] /\ task[q][s] = "deadletter"
               THEN [dlq EXCEPT ![q][m[1]] = @ + 1] ELSE dlq
      /\ ready' = IF open[q] /\ task[q][s] = "requeue"
                  THEN [ready EXCEPT ![q][m] = @ + 1] ELSE ready
      /\ task' = [task EXCEPT ![q][s] = "free"]
      /\ held' = [held EXCEPT ![q][s] = NoMessage]
      /\ UNCHANGED <<sent, loop, open, conn, stop, handled, retries, faults, stops>>
  BY <1>0 DEF Settle, consumeVars, historyVars
<1>4. /\ ready' \in [Queues -> [Messages -> Nat]]
      /\ \A p \in Queues, n \in Messages :
           /\ ready'[p][n] >= ready[p][n]
           /\ ready'[p][n] > ready[p][n] => p = q /\ n = m
      /\ open[q] /\ task[q][s] = "requeue" => ready'[q][m] > 0
  BY <1>1, <1>2, <1>3 DEF TypeOK
<1>5. /\ dlq' \in [Queues -> [Events -> Nat]]
      /\ \A p \in Queues, e \in Events : dlq'[p][e] >= dlq[p][e]
      /\ open[q] /\ task[q][s] = "deadletter" => dlq'[q][m[1]] > 0
  BY <1>1, <1>2, <1>3 DEF TypeOK
<1>6. /\ task' \in [Queues -> [Slots -> Tasks]]
      /\ held' \in [Queues -> [Slots -> Messages \cup {NoMessage}]]
      /\ task'[q][s] = "free" /\ held'[q][s] = NoMessage
      /\ \A p \in Queues, r \in Slots :
           p # q \/ r # s => task'[p][r] = task[p][r] /\ held'[p][r] = held[p][r]
  BY <1>1, <1>3 DEF TypeOK, Tasks
<1>7. TypeOK'
  <2>1. ASSUME NEW p \in Queues, NEW r \in Slots
        PROVE  /\ held'[p][r] = NoMessage <=> task'[p][r] = "free"
               /\ task'[p][r] = "backoff" => Retry(held'[p][r]) \in Messages
    <3>1. CASE p = q /\ r = s
      BY <1>6, <3>1
    <3>2. CASE p # q \/ r # s
      BY <1>1, <1>6, <3>2 DEF TypeOK
    <3> QED
      BY <3>1, <3>2
  <2> QED
    BY <1>1, <1>3, <1>4, <1>5, <1>6, <2>1 DEF TypeOK
<1>8. Bindings'
  <2>1. \A p \in Queues, n \in Messages : ready[p][n] \in Nat /\ ready'[p][n] \in Nat
    BY <1>1, <1>4 DEF TypeOK
  <2>2. ASSUME NEW p \in Queues, NEW n \in Messages, ready'[p][n] > 0
        PROVE  p \in Bound[n[1]]
    <3>1. CASE ready'[p][n] > ready[p][n]
      BY <1>2, <1>4, <3>1
    <3>2. CASE ~(ready'[p][n] > ready[p][n])
      <4>1. ready[p][n] > 0
        BY <2>1, <2>2, <3>2
      <4> QED
        BY <4>1 DEF IInv, Bindings
    <3> QED
      BY <3>1, <3>2
  <2>3. \A p \in Queues, r \in Slots :
          task'[p][r] # "free" => p \in Bound[held'[p][r][1]]
    BY <1>6 DEF IInv, Bindings
  <2> QED
    BY <2>2, <2>3 DEF Bindings
<1>9. Idle'
  BY <1>3, <1>6 DEF IInv, Idle
<1>10. \A p \in Queues, e \in Events : Done(p, e) => Done(p, e)'
  <2>1. \A p \in Queues, e \in Events : dlq[p][e] \in Nat /\ dlq'[p][e] \in Nat
    BY <1>1, <1>5 DEF TypeOK
  <2> QED
    BY <1>3, <1>5, <2>1 DEF Done
<1>11. ASSUME NEW p \in Queues, NEW n \in Messages, Copy(p, n), p # q \/ n # m
       PROVE  Copy(p, n)'
  <2>1. ready[p][n] \in Nat /\ ready'[p][n] \in Nat /\ ready'[p][n] >= ready[p][n]
    BY <1>1, <1>4 DEF TypeOK
  <2>2. CASE ready[p][n] > 0
    BY <2>1, <2>2 DEF Copy
  <2>3. CASE \E r \in Slots : open[p] /\ task[p][r] # "free" /\ held[p][r] = n
    <3>1. PICK r \in Slots : open[p] /\ task[p][r] # "free" /\ held[p][r] = n
      BY <2>3
    <3>2. p # q \/ r # s
      BY <1>0, <1>11, <3>1
    <3> QED
      BY <1>3, <1>6, <3>1, <3>2 DEF Copy
  <2> QED
    BY <1>11, <2>2, <2>3 DEF Copy
<1>12. ASSUME Copy(q, m)
       PROVE  Copy(q, m)' \/ Done(q, m[1])' \/ Higher(q, m)'
  <2>1. CASE ready[q][m] > 0 \/ (open[q] /\ task[q][s] = "requeue")
    <3>1. ready[q][m] \in Nat /\ ready'[q][m] \in Nat /\ ready'[q][m] >= ready[q][m]
      BY <1>1, <1>2, <1>4 DEF TypeOK
    <3> QED
      BY <1>4, <2>1, <3>1 DEF Copy
  <2>2. CASE open[q] /\ task[q][s] = "deadletter"
    BY <1>5, <2>2 DEF Done
  <2>3. CASE open[q] /\ task[q][s] = "ack"
    <3>1. Done(q, m[1]) \/ Higher(q, m)
      BY <1>0, <2>3 DEF IInv, Acks
    <3>2. CASE Done(q, m[1])
      BY <1>2, <1>10, <3>2
    <3>3. CASE Higher(q, m)
      <4>1. PICK n \in Messages : n[1] = m[1] /\ n[2] > m[2] /\ Copy(q, n)
        BY <3>3 DEF Higher
      <4>2. n # m
        BY <1>2, <4>1
      <4>3. Copy(q, n)'
        BY <1>11, <4>1, <4>2
      <4>4. \E k \in Messages : k[1] = m[1] /\ k[2] > m[2] /\ Copy(q, k)'
        BY <4>1, <4>3
      <4> QED
        BY <1>12, <4>4 DEF Higher
    <3> QED
      BY <3>1, <3>2, <3>3
  <2>4. CASE ~open[q]
    BY <1>12, <2>1, <2>4 DEF Copy
  <2> QED
    BY <1>1, <2>1, <2>2, <2>3, <2>4
<1>13. \A p \in Queues, r \in Slots : open'[p] /\ task'[p][r] = "ack" =>
         open[p] /\ task[p][r] = "ack" /\ held'[p][r] = held[p][r]
  BY <1>3, <1>6
<1>14. Acks' /\ NoEventLost'
  BY <1>3, <1>7, <1>10, <1>11, <1>12, <1>13, Persist DEF Published
<1> QED
  BY <1>7, <1>8, <1>9, <1>14 DEF IInv

-----------------------------------------------------------------------------
(* The connection and the process.                                         *)

\* The channel of q closes: all that was unacknowledged is ready again.
LEMMA ChannelEnds ==
  ASSUME IInv, NEW q \in Queues, GiveBack(q), TypeOK', Idle',
         open' = [open EXCEPT ![q] = FALSE],
         UNCHANGED <<sent, dlq, handled>>,
         \A p \in Queues, s \in Slots :
           \/ task'[p][s] = task[p][s] /\ held'[p][s] = held[p][s]
           \/ p = q /\ task'[p][s] = "free"
  PROVE  IInv'
<1>1. TypeOK
  BY DEF IInv
<1>2. /\ \A p \in Queues, n \in Messages : ready'[p][n] >= ready[p][n]
      /\ \A p \in Queues : p # q => ready'[p] = ready[p]
      /\ \A n \in Messages :
           ready'[q][n] > ready[q][n] =>
             \E s \in Slots : task[q][s] # "free" /\ held[q][s] = n
      /\ \A s \in Slots :
           open[q] /\ task[q][s] # "free" => ready'[q][held[q][s]] > 0
  BY <1>1, GivenBack
<1>3. \A p \in Queues, n \in Messages : ready[p][n] \in Nat /\ ready'[p][n] \in Nat
  BY <1>1 DEF TypeOK
<1>4. ~open'[q] /\ \A p \in Queues : p # q => open'[p] = open[p]
  BY <1>1 DEF TypeOK
<1>5. Bindings'
  <2>1. ASSUME NEW p \in Queues, NEW n \in Messages, ready'[p][n] > 0
        PROVE  p \in Bound[n[1]]
    <3>1. CASE ready[p][n] > 0
      BY <3>1 DEF IInv, Bindings
    <3>2. CASE ~(ready[p][n] > 0)
      <4>1. p = q /\ ready'[q][n] > ready[q][n]
        BY <1>2, <1>3, <2>1, <3>2
      <4>2. \E s \in Slots : task[q][s] # "free" /\ held[q][s] = n
        BY <1>2, <4>1
      <4> QED
        BY <4>1, <4>2 DEF IInv, Bindings
    <3> QED
      BY <3>1, <3>2
  <2>2. \A p \in Queues, s \in Slots :
          task'[p][s] # "free" => p \in Bound[held'[p][s][1]]
    BY DEF IInv, Bindings
  <2> QED
    BY <2>1, <2>2 DEF Bindings
<1>6. ASSUME NEW p \in Queues, NEW n \in Messages, Copy(p, n)
      PROVE  Copy(p, n)'
  <2>1. CASE ready[p][n] > 0
    BY <1>2, <1>3, <2>1 DEF Copy
  <2>2. CASE \E s \in Slots : open[p] /\ task[p][s] # "free" /\ held[p][s] = n
    BY <1>2, <1>4, <2>2 DEF Copy
  <2> QED
    BY <1>6, <2>1, <2>2 DEF Copy
<1>7. \A p \in Queues, e \in Events : Done(p, e) => Done(p, e)'
  BY DEF Done
<1>8. \A p \in Queues, s \in Slots : open'[p] /\ task'[p][s] = "ack" =>
        open[p] /\ task[p][s] = "ack" /\ held'[p][s] = held[p][s]
  BY <1>4
<1>9. Acks' /\ NoEventLost'
  BY <1>6, <1>7, <1>8, Persist DEF Published
<1> QED
  BY <1>5, <1>9 DEF IInv

LEMMA ConnectionLostKeeps ==
  ASSUME IInv, NEW q \in Queues, ConnectionLost(q)
  PROVE  IInv'
<1>1. TypeOK /\ Idle
  BY DEF IInv
<1>2. /\ conn' = [conn EXCEPT ![q] = FALSE] /\ open' = [open EXCEPT ![q] = FALSE]
      /\ GiveBack(q) /\ faults < MaxFaults /\ faults' = faults + 1
      /\ UNCHANGED <<sent, dlq, task, held, loop, stop, handled, retries, stops>>
  BY DEF ConnectionLost, Fault, historyVars
<1>3. ready' \in [Queues -> [Messages -> Nat]]
  BY <1>1, <1>2, GivenBack
<1>4. TypeOK'
  <2>1. faults' \in 0..MaxFaults
    BY <1>1, <1>2, ConsumerAssumption DEF TypeOK
  <2>2. conn' \in [Queues -> BOOLEAN] /\ open' \in [Queues -> BOOLEAN]
    BY <1>1, <1>2 DEF TypeOK
  <2> QED
    BY <1>1, <1>2, <1>3, <2>1, <2>2 DEF TypeOK
<1>5. \A p \in Queues : open'[p] => open[p]
  BY <1>1, <1>2 DEF TypeOK
<1>6. Idle'
  BY <1>1, <1>2, <1>5 DEF Idle
<1> QED
  BY <1>2, <1>4, <1>6, ChannelEnds

LEMMA CrashKeeps ==
  ASSUME IInv, NEW q \in Queues, Crash(q)
  PROVE  IInv'
<1>1. TypeOK /\ Idle
  BY DEF IInv
<1> DEFINE free == [s \in Slots |-> "free"]
           empty == [s \in Slots |-> NoMessage]
<1>2. /\ loop' = [loop EXCEPT ![q] = "down"] /\ open' = [open EXCEPT ![q] = FALSE]
      /\ conn' = [conn EXCEPT ![q] = FALSE] /\ stop' = [stop EXCEPT ![q] = FALSE]
      /\ GiveBack(q) /\ faults < MaxFaults /\ faults' = faults + 1
      /\ task' = [task EXCEPT ![q] = free] /\ held' = [held EXCEPT ![q] = empty]
      /\ UNCHANGED <<sent, dlq, handled, retries, stops>>
  BY DEF Crash, Down, Fault, historyVars
<1>3. ready' \in [Queues -> [Messages -> Nat]]
  BY <1>1, <1>2, GivenBack
<1>4. /\ task' \in [Queues -> [Slots -> Tasks]]
      /\ held' \in [Queues -> [Slots -> Messages \cup {NoMessage}]]
      /\ \A s \in Slots : task'[q][s] = "free" /\ held'[q][s] = NoMessage
      /\ \A p \in Queues : p # q => task'[p] = task[p] /\ held'[p] = held[p]
  BY <1>1, <1>2 DEF TypeOK, Tasks
<1>5. TypeOK'
  <2>1. ASSUME NEW p \in Queues, NEW s \in Slots
        PROVE  /\ held'[p][s] = NoMessage <=> task'[p][s] = "free"
               /\ task'[p][s] = "backoff" => Retry(held'[p][s]) \in Messages
    <3>1. CASE p = q
      BY <1>4, <3>1
    <3>2. CASE p # q
      BY <1>1, <1>4, <3>2 DEF TypeOK
    <3> QED
      BY <3>1, <3>2
  <2>2. faults' \in 0..MaxFaults
    BY <1>1, <1>2, ConsumerAssumption DEF TypeOK
  <2>3. /\ loop' \in [Queues -> {"down", "reading", "waiting", "returned"}]
        /\ open' \in [Queues -> BOOLEAN] /\ conn' \in [Queues -> BOOLEAN]
        /\ stop' \in [Queues -> BOOLEAN]
    BY <1>1, <1>2 DEF TypeOK
  <2> QED
    BY <1>1, <1>2, <1>3, <1>4, <2>1, <2>2, <2>3 DEF TypeOK
<1>6. Idle'
  <2>1. ~open'[q] /\ \A p \in Queues : p # q => open'[p] = open[p] /\ loop'[p] = loop[p]
    BY <1>1, <1>2 DEF TypeOK
  <2> QED
    BY <1>1, <1>4, <2>1 DEF Idle
<1>7. \A p \in Queues, s \in Slots :
        \/ task'[p][s] = task[p][s] /\ held'[p][s] = held[p][s]
        \/ p = q /\ task'[p][s] = "free"
  BY <1>4
<1> QED
  BY <1>2, <1>5, <1>6, <1>7, ChannelEnds

LEMMA ProcessKeeps ==
  ASSUME IInv, NEW q \in Queues, Reconnect(q) \/ Stop(q) \/ Exit(q)
  PROVE  IInv'
<1>1. TypeOK /\ Idle
  BY DEF IInv
<1>2. UNCHANGED <<brokerVars, task, held, historyVars>>
  BY DEF Reconnect, Stop, Exit
<1>3. UNCHANGED <<sent, ready, dlq, task, held, handled, retries, faults>>
  BY <1>2 DEF brokerVars, historyVars, Reconnect, Stop, Exit
<1>4. CASE Reconnect(q) \/ Stop(q)
  <2>1. UNCHANGED <<loop, open>>
    BY <1>4 DEF Reconnect, Stop
  <2>2. TypeOK'
    <3>1. CASE Reconnect(q)
      <4>1. conn' = [conn EXCEPT ![q] = TRUE] /\ UNCHANGED <<stop, stops>>
        BY <3>1 DEF Reconnect
      <4> QED
        BY <1>1, <1>3, <2>1, <4>1 DEF TypeOK
    <3>2. CASE Stop(q)
      <4>1. /\ stop' = [stop EXCEPT ![q] = TRUE] /\ conn' = conn
            /\ stops < MaxStops /\ stops' = stops + 1
        BY <3>2 DEF Stop
      <4>2. stops' \in 0..MaxStops /\ stop' \in [Queues -> BOOLEAN]
        BY <1>1, <4>1, ConsumerAssumption DEF TypeOK
      <4> QED
        BY <1>1, <1>3, <2>1, <4>1, <4>2 DEF TypeOK
    <3> QED
      BY <1>4, <3>1, <3>2
  <2>3. Idle'
    BY <1>1, <1>3, <2>1 DEF Idle
  <2> QED
    BY <1>2, <2>1, <2>2, <2>3, LoopKeeps
<1>5. CASE Exit(q)
  <2>1. /\ loop[q] = "returned" /\ stops' = stops
        /\ loop' = [loop EXCEPT ![q] = "down"] /\ open' = [open EXCEPT ![q] = FALSE]
        /\ conn' = [conn EXCEPT ![q] = FALSE] /\ stop' = [stop EXCEPT ![q] = FALSE]
    BY <1>5 DEF Exit, Down
  <2>2. TypeOK'
    BY <1>1, <1>3, <2>1 DEF TypeOK
  <2>3. ~open[q] /\ \A s \in Slots : task[q][s] = "free"
    BY <1>1, <2>1 DEF Idle
  <2>4. ~open'[q] /\ \A p \in Queues : p # q => open'[p] = open[p] /\ loop'[p] = loop[p]
    BY <1>1, <2>1 DEF TypeOK
  <2>5. Idle'
    BY <1>1, <1>3, <2>3, <2>4 DEF Idle
  <2> QED
    BY <1>2, <2>2, <2>3, <2>4, <2>5, LoopKeeps
<1> QED
  BY <1>4, <1>5

-----------------------------------------------------------------------------
(* Every step.                                                             *)

LEMMA Stutter ==
  ASSUME IInv, UNCHANGED vars
  PROVE  IInv'
<1>1. TypeOK' /\ Bindings' /\ Idle'
  BY DEF IInv, vars, TypeOK, Bindings, Idle
<1>2. Acks'
  BY DEF IInv, vars, Acks, Done, Higher, Copy
<1>3. NoEventLost'
  BY DEF IInv, vars, NoEventLost, Published, Done, Kept, Unacked
<1> QED
  BY <1>1, <1>2, <1>3 DEF IInv

LEMMA NextIInv == IInv /\ [Next]_vars => IInv'
<1> SUFFICES ASSUME IInv, [Next]_vars PROVE IInv'
  OBVIOUS
<1>1. CASE \E e \in Events : Publish(e)
  BY <1>1, PublishKeeps
<1>2. CASE \E q \in Queues : Consume(q)
  BY <1>2, ConsumeLoopKeeps, DeliverKeeps DEF Consume
<1>3. CASE \E q \in Queues : Process(q)
  BY <1>3, ConnectionLostKeeps, CrashKeeps, ProcessKeeps DEF Process
<1>4. CASE \E q \in Queues, s \in Slots : Goroutine(q, s)
  BY <1>4, HandlerKeeps, RepublishKeeps, SettleKeeps DEF Goroutine, Aftermath, Handler
<1>5. CASE UNCHANGED vars
  BY <1>5, Stutter
<1> QED
  BY <1>1, <1>2, <1>3, <1>4, <1>5 DEF Next

-----------------------------------------------------------------------------
(* Dead letters.  A copy of attempt k of an event exists only because each *)
(* attempt up to k went through the exchange, and a goroutine gives up     *)
(* only an envelope it cannot read or the last attempt.                    *)

Reached(m) == \A k \in 0..m[2] : sent[<<m[1], k>>] > 0

SentFirst ==
  /\ \A q \in Queues, m \in Messages : ready[q][m] > 0 => Reached(m)
  /\ \A q \in Queues, s \in Slots : task[q][s] # "free" => Reached(held[q][s])

LastAttempt(m) == m[1] \in Undecodable \/ m[2] = MaxRetries

GivesUpLast ==
  \A q \in Queues, s \in Slots : task[q][s] = "deadletter" => LastAttempt(held[q][s])

DeadInv == SentFirst /\ GivesUpLast /\ DeadLetterIsJustified

\* What a step may do: the exchange forgets nothing, what is new in a queue or
\* a goroutine was sent, and only a goroutine that gives up fills a DLQ.
Traced ==
  /\ \A m \in Messages : sent'[m] >= sent[m]
  /\ \A q \in Queues, m \in Messages :
       ready'[q][m] > 0 => ready[q][m] > 0 \/ Reached(m)'
  /\ \A q \in Queues, s \in Slots : task'[q][s] # "free" =>
       \/ task[q][s] # "free" /\ held'[q][s] = held[q][s]
       \/ Reached(held'[q][s])
  /\ \A q \in Queues, s \in Slots : task'[q][s] = "deadletter" =>
       \/ task[q][s] = "deadletter" /\ held'[q][s] = held[q][s]
       \/ LastAttempt(held'[q][s])
  /\ \A q \in Queues, e \in Events : dlq'[q][e] > 0 =>
       \/ dlq[q][e] > 0
       \/ \E s \in Slots : task[q][s] = "deadletter" /\ held[q][s][1] = e

LEMMA StillReached ==
  ASSUME TypeOK, TypeOK', NEW m \in Messages, Reached(m),
         \A n \in Messages : sent'[n] >= sent[n]
  PROVE  Reached(m)'
<1> SUFFICES ASSUME NEW k \in 0..m[2] PROVE sent'[<<m[1], k>>] > 0
  BY DEF Reached
<1>1. <<m[1], k>> \in Messages
  BY ConsumerAssumption DEF Messages
<1>2. sent[<<m[1], k>>] \in Nat /\ sent'[<<m[1], k>>] \in Nat
  BY <1>1 DEF TypeOK
<1> QED
  BY <1>1, <1>2 DEF Reached

LEMMA TracedKeeps ==
  ASSUME IInv, TypeOK', DeadInv, Traced
  PROVE  DeadInv'
<1> USE DEF DeadInv
<1>1. TypeOK /\ \A n \in Messages : sent'[n] >= sent[n]
  BY DEF IInv, Traced
<1>2. ASSUME NEW q \in Queues, NEW m \in Messages, ready'[q][m] > 0
      PROVE  Reached(m)'
  <2>1. CASE ready[q][m] > 0
    <3>1. Reached(m)
      BY <2>1 DEF SentFirst
    <3> QED
      BY <1>1, <3>1, StillReached
  <2> QED
    BY <1>2, <2>1 DEF Traced
<1>3. ASSUME NEW q \in Queues, NEW s \in Slots, task'[q][s] # "free"
      PROVE  Reached(held[q][s])'
  <2>1. PICK m \in Messages : m = held'[q][s]
    BY <1>3 DEF TypeOK
  <2>2. Reached(m)
    BY <1>3, <2>1 DEF Traced, SentFirst
  <2>3. Reached(m)'
    BY <1>1, <2>2, StillReached
  <2> QED
    BY <2>1, <2>3 DEF Reached
<1>4. GivesUpLast'
  BY DEF Traced, GivesUpLast, LastAttempt
<1>5. DeadLetterIsJustified'
  <2> SUFFICES ASSUME NEW q \in Queues, NEW e \in Events, dlq'[q][e] > 0, e \notin Undecodable,
                      NEW k \in 1..MaxRetries
               PROVE  sent'[<<e, k>>] > 0
    BY DEF DeadLetterIsJustified
  <2>1. <<e, k>> \in Messages
    BY ConsumerAssumption DEF Messages
  <2>2. sent[<<e, k>>] > 0
    <3>1. CASE dlq[q][e] > 0
      BY <3>1 DEF DeadLetterIsJustified
    <3>2. CASE \E s \in Slots : task[q][s] = "deadletter" /\ held[q][s][1] = e
      <4>1. PICK s \in Slots : task[q][s] = "deadletter" /\ held[q][s][1] = e
        BY <3>2
      <4>2. held[q][s][2] = MaxRetries /\ Reached(held[q][s])
        BY <4>1 DEF GivesUpLast, LastAttempt, SentFirst
      <4>3. k \in 0..held[q][s][2]
        BY <4>2, ConsumerAssumption
      <4> QED
        BY <4>1, <4>2, <4>3 DEF Reached
    <3> QED
      BY <3>1, <3>2 DEF Traced
  <2>3. sent[<<e, k>>] \in Nat /\ sent'[<<e, k>>] \in Nat
    BY <1>1, <2>1 DEF TypeOK
  <2> QED
    BY <1>1, <2>1, <2>2, <2>3
<1> QED
  BY <1>2, <1>3, <1>4, <1>5 DEF SentFirst

\* What a message through the exchange leaves behind.
LEMMA SendTraces ==
  ASSUME TypeOK, NEW m \in Messages, Send(m), \A k \in 0..m[2] : k # m[2] => sent[<<m[1], k>>] > 0
  PROVE  /\ \A n \in Messages : sent'[n] >= sent[n]
         /\ \A q \in Queues, n \in Messages :
              ready'[q][n] > 0 => ready[q][n] > 0 \/ Reached(n)'
<1>1. /\ sent' = [sent EXCEPT ![m] = @ + 1] /\ ready' = Routed(m)
      /\ sent \in [Messages -> Nat] /\ ready \in [Queues -> [Messages -> Nat]]
  BY DEF Send, TypeOK
<1>2. \A n \in Messages : sent'[n] >= sent[n] /\ sent[n] \in Nat /\ sent'[n] \in Nat
  BY <1>1
<1>3. Reached(m)'
  <2> SUFFICES ASSUME NEW k \in 0..m[2] PROVE sent'[<<m[1], k>>] > 0
    BY DEF Reached
  <2>1. <<m[1], k>> \in Messages /\ m = <<m[1], m[2]>>
    BY MessageParts, ConsumerAssumption DEF Messages
  <2>2. CASE k = m[2]
    BY <1>1, <2>1, <2>2
  <2>3. CASE k # m[2]
    BY <1>2, <2>1, <2>3
  <2> QED
    BY <2>2, <2>3
<1>4. \A q \in Queues, n \in Messages : Routed(m)[q][n] > ready[q][n] => n = m
  BY RoutedAdds
<1>5. \A q \in Queues, n \in Messages : Routed(m)[q][n] \in Nat /\ ready[q][n] \in Nat
  BY <1>1, RoutedAdds
<1>6. ASSUME NEW q \in Queues, NEW n \in Messages, ready'[q][n] > 0, ~(ready[q][n] > 0)
      PROVE  Reached(n)'
  BY <1>1, <1>3, <1>4, <1>5, <1>6
<1> QED
  BY <1>2, <1>6

LEMMA PublishTraces ==
  ASSUME IInv, NEW e \in Events, Publish(e)
  PROVE  Traced
<1>1. TypeOK /\ <<e, 0>> \in Messages /\ Send(<<e, 0>>)
  BY FirstAttempt DEF IInv, Publish
<1>2. UNCHANGED <<dlq, task, held>>
  BY DEF Publish
<1>3. \A k \in 0..<<e, 0>>[2] : k # <<e, 0>>[2] => sent[<<(<<e, 0>>)[1], k>>] > 0
  OBVIOUS
<1>4. /\ \A n \in Messages : sent'[n] >= sent[n]
      /\ \A q \in Queues, n \in Messages :
           ready'[q][n] > 0 => ready[q][n] > 0 \/ Reached(n)'
  BY <1>1, <1>3, SendTraces
<1> QED
  BY <1>2, <1>4 DEF Traced

\* Steps that send nothing and start nothing.
LEMMA QuietTraces ==
  ASSUME IInv, UNCHANGED <<sent, ready, dlq, held>>,
         \A q \in Queues, s \in Slots : task'[q][s] # "free" =>
           /\ task[q][s] # "free"
           /\ task'[q][s] = "deadletter" => task[q][s] = "deadletter" \/ LastAttempt(held[q][s])
  PROVE  Traced
<1>1. \A m \in Messages : sent[m] \in Nat
  BY DEF IInv, TypeOK
<1> QED
  BY <1>1 DEF Traced

LEMMA LoopTraces ==
  ASSUME IInv, NEW q \in Queues,
         \/ Start(q) \/ StartFails(q) \/ LeaveLoop(q) \/ Return(q)
         \/ Reconnect(q) \/ Stop(q) \/ Exit(q)
  PROVE  Traced
<1>1. UNCHANGED <<sent, ready, dlq, task, held>>
  BY DEF Start, StartFails, LeaveLoop, Return, Reconnect, Stop, Exit, brokerVars
<1> QED
  BY <1>1, QuietTraces

LEMMA DeliverTraces ==
  ASSUME IInv, DeadInv, NEW q \in Queues, Deliver(q)
  PROVE  Traced
<1>1. PICK s \in Slots, m \in Messages :
        /\ task[q][s] = "free" /\ ready[q][m] > 0
        /\ ready' = [ready EXCEPT ![q][m] = @ - 1]
        /\ held' = [held EXCEPT ![q][s] = m]
        /\ task' = [task EXCEPT ![q][s] = FirstTask(m)]
        /\ UNCHANGED <<sent, dlq>>
  BY DEF Deliver
<1>2. TypeOK /\ Reached(m)
  BY <1>1 DEF IInv, DeadInv, SentFirst
<1>3. /\ held'[q][s] = m /\ task'[q][s] = FirstTask(m)
      /\ \A p \in Queues, r \in Slots :
           p # q \/ r # s => held'[p][r] = held[p][r] /\ task'[p][r] = task[p][r]
  BY <1>1, <1>2 DEF TypeOK
<1>4. FirstTask(m) = "deadletter" => LastAttempt(m)
  BY DEF FirstTask, LastAttempt
<1>5. \A p \in Queues, n \in Messages : ready'[p][n] > 0 => ready[p][n] > 0
  <2>1. \A p \in Queues, n \in Messages : ready[p][n] \in Nat /\ (p # q \/ n # m => ready'[p][n] = ready[p][n])
    BY <1>1, <1>2 DEF TypeOK
  <2> QED
    BY <1>1, <2>1
<1>6. \A n \in Messages : sent'[n] >= sent[n]
  BY <1>1, <1>2 DEF TypeOK
<1>7. \A p \in Queues, r \in Slots :
        \/ task'[p][r] = task[p][r] /\ held'[p][r] = held[p][r]
        \/ Reached(held'[p][r]) /\ (task'[p][r] = "deadletter" => LastAttempt(held'[p][r]))
  BY <1>2, <1>3, <1>4
<1> QED
  BY <1>1, <1>5, <1>6, <1>7 DEF Traced

LEMMA HandlerTraces ==
  ASSUME IInv, NEW q \in Queues, NEW s \in Slots,
         \/ HandlerSucceeds(q, s) \/ HandlerFails(q, s) \/ BackoffCancelled(q, s)
         \/ RepublishRefused(q, s)
  PROVE  Traced
<1> DEFINE m == held[q][s]
<1>1. TypeOK /\ task[q][s] # "free" /\ UNCHANGED <<sent, ready, dlq, held>>
  BY DEF IInv, HandlerSucceeds, HandlerFails, BackoffCancelled, RepublishRefused, Goes, brokerVars
<1>2. m \in Messages
  BY <1>1, AtWork
<1>3. Exhausted(m) => LastAttempt(m)
  <2> HIDE DEF m
  <2> QED
    BY <1>2, MessageParts, ConsumerAssumption DEF Exhausted, LastAttempt
<1>4. PICK to \in {"ack", "requeue", "backoff", "deadletter"} :
        task' = [task EXCEPT ![q][s] = to] /\ (to = "deadletter" => LastAttempt(m))
  BY <1>3 DEF HandlerSucceeds, HandlerFails, BackoffCancelled, RepublishRefused, Goes
<1>5. \A p \in Queues, r \in Slots :
        \/ task'[p][r] = task[p][r]
        \/ p = q /\ r = s /\ task'[p][r] = to
  BY <1>1, <1>4 DEF TypeOK
<1> QED
  BY <1>1, <1>4, <1>5, QuietTraces

\* The retry of an attempt that was sent is the next attempt.
LEMMA RepublishTraces ==
  ASSUME IInv, DeadInv, NEW q \in Queues, NEW s \in Slots,
         Republished(q, s) \/ RepublishConfirmLost(q, s)
  PROVE  Traced
<1> DEFINE m == held[q][s]
           n == Retry(m)
<1>1. TypeOK /\ task[q][s] = "backoff" /\ UNCHANGED <<dlq, held>> /\ Send(n)
  BY DEF IInv, Republished, RepublishConfirmLost, Resend, Goes
<1>2. /\ m \in Messages /\ n \in Messages /\ m[2] \in Nat
      /\ n[1] = m[1] /\ n[2] = m[2] + 1
  BY <1>1, AtWork, MessageParts DEF TypeOK, Retry
<1>3. \A k \in 0..m[2] : sent[<<m[1], k>>] > 0
  BY <1>1 DEF DeadInv, SentFirst, Reached
<1>4. \A k \in 0..n[2] : k # n[2] => sent[<<n[1], k>>] > 0
  <2> HIDE DEF m, n
  <2> QED
    BY <1>2, <1>3
<1>5. /\ \A k \in Messages : sent'[k] >= sent[k]
      /\ \A p \in Queues, k \in Messages :
           ready'[p][k] > 0 => ready[p][k] > 0 \/ Reached(k)'
  <2> HIDE DEF m, n
  <2> QED
    BY <1>1, <1>2, <1>4, SendTraces
<1>6. PICK to \in {"ack", "requeue"} : task' = [task EXCEPT ![q][s] = to]
  BY DEF Republished, RepublishConfirmLost, Goes
<1>7. \A p \in Queues, r \in Slots :
        \/ task'[p][r] = task[p][r]
        \/ p = q /\ r = s /\ task'[p][r] = to
  BY <1>1, <1>6 DEF TypeOK
<1> QED
  BY <1>1, <1>5, <1>6, <1>7 DEF Traced

LEMMA SettleTraces ==
  ASSUME IInv, DeadInv, NEW q \in Queues, NEW s \in Slots, Settle(q, s)
  PROVE  Traced
<1>0. PICK m : m = held[q][s]
  OBVIOUS
<1>1. TypeOK /\ task[q][s] \in {"ack", "deadletter", "requeue"}
  BY DEF IInv, Settle
<1>2. m \in Messages /\ m[1] \in Events /\ Reached(m)
  BY <1>0, <1>1, AtWork, MessageParts DEF DeadInv, SentFirst
<1>3. /\ dlq' = IF open[q] /\ task[q][s] = "deadletter"
               THEN [dlq EXCEPT ![q][m[1]] = @ + 1] ELSE dlq
      /\ ready' = IF open[q] /\ task[q][s] = "requeue"
                  THEN [ready EXCEPT ![q][m] = @ + 1] ELSE ready
      /\ task' = [task EXCEPT ![q][s] = "free"]
      /\ held' = [held EXCEPT ![q][s] = NoMessage]
      /\ sent' = sent
  BY <1>0 DEF Settle
<1>4. \A p \in Queues, n \in Messages : ready'[p][n] > 0 => ready[p][n] > 0 \/ n = m
  BY <1>1, <1>2, <1>3 DEF TypeOK
<1>5. \A p \in Queues, e \in Events : dlq'[p][e] > 0 =>
        dlq[p][e] > 0 \/ (p = q /\ e = m[1] /\ task[q][s] = "deadletter")
  BY <1>1, <1>2, <1>3 DEF TypeOK
<1>6. \A p \in Queues, r \in Slots : task'[p][r] # "free" =>
        task'[p][r] = task[p][r] /\ held'[p][r] = held[p][r]
  BY <1>1, <1>3 DEF TypeOK
<1>7. Reached(m)'
  BY <1>2, <1>3 DEF Reached
<1>8. \A n \in Messages : sent'[n] >= sent[n]
  BY <1>1, <1>3 DEF TypeOK
<1> QED
  BY <1>0, <1>4, <1>5, <1>6, <1>7, <1>8 DEF Traced

\* What a lost channel gives back was sent.
LEMMA LossTraces ==
  ASSUME IInv, DeadInv, NEW q \in Queues, ConnectionLost(q) \/ Crash(q)
  PROVE  Traced
<1>1. TypeOK /\ GiveBack(q) /\ UNCHANGED <<sent, dlq>>
  BY DEF IInv, ConnectionLost, Crash
<1>2. /\ \A p \in Queues : p # q => ready'[p] = ready[p]
      /\ \A n \in Messages :
           ready'[q][n] > ready[q][n] =>
             \E s \in Slots : task[q][s] # "free" /\ held[q][s] = n
      /\ ready' \in [Queues -> [Messages -> Nat]]
  BY <1>1, GivenBack
<1>3. ASSUME NEW p \in Queues, NEW n \in Messages, ready'[p][n] > 0, ~(ready[p][n] > 0)
      PROVE  Reached(n)'
  <2>1. p = q /\ ready'[q][n] > ready[q][n]
    BY <1>1, <1>2, <1>3 DEF TypeOK
  <2>2. PICK s \in Slots : task[q][s] # "free" /\ held[q][s] = n
    BY <1>2, <2>1
  <2>3. Reached(n)
    BY <2>2 DEF DeadInv, SentFirst
  <2> QED
    BY <1>1, <2>3 DEF Reached
<1>4. \A p \in Queues, s \in Slots : task'[p][s] # "free" =>
        task'[p][s] = task[p][s] /\ held'[p][s] = held[p][s]
  <2>1. CASE ConnectionLost(q)
    BY <2>1 DEF ConnectionLost
  <2>2. CASE Crash(q)
    <3> DEFINE free == [s \in Slots |-> "free"]
               empty == [s \in Slots |-> NoMessage]
    <3>1. task' = [task EXCEPT ![q] = free] /\ held' = [held EXCEPT ![q] = empty]
      BY <2>2 DEF Crash
    <3>2. \A s \in Slots : task'[q][s] = "free"
      BY <1>1, <3>1 DEF TypeOK
    <3> HIDE DEF free, empty
    <3>3. \A p \in Queues : p # q => task'[p] = task[p] /\ held'[p] = held[p]
      BY <1>1, <3>1 DEF TypeOK
    <3> QED
      BY <3>2, <3>3
  <2> QED
    BY <2>1, <2>2
<1>5. \A n \in Messages : sent'[n] >= sent[n]
  BY <1>1 DEF TypeOK
<1> QED
  BY <1>1, <1>3, <1>4, <1>5 DEF Traced

LEMMA NextDead == IInv /\ IInv' /\ DeadInv /\ [Next]_vars => DeadInv'
<1> SUFFICES ASSUME IInv, IInv', DeadInv, [Next]_vars PROVE DeadInv'
  OBVIOUS
<1>1. CASE \E e \in Events : Publish(e)
  BY <1>1, PublishTraces, TracedKeeps DEF IInv
<1>2. CASE \E q \in Queues : Consume(q)
  BY <1>2, LoopTraces, DeliverTraces, TracedKeeps DEF Consume, IInv
<1>3. CASE \E q \in Queues : Process(q)
  BY <1>3, LoopTraces, LossTraces, TracedKeeps DEF Process, IInv
<1>4. CASE \E q \in Queues, s \in Slots : Goroutine(q, s)
  <2>1. PICK q \in Queues, s \in Slots : Goroutine(q, s)
    BY <1>4
  <2>2. Traced
    BY <2>1, HandlerTraces, RepublishTraces, SettleTraces DEF Goroutine, Aftermath, Handler, Republish
  <2> QED
    BY <2>2, TracedKeeps DEF IInv
<1>5. CASE UNCHANGED vars
  BY <1>5 DEF vars, DeadInv, SentFirst, Reached, GivesUpLast, DeadLetterIsJustified
<1> QED
  BY <1>1, <1>2, <1>3, <1>4, <1>5 DEF Next

-----------------------------------------------------------------------------
(* Duplicates.  Each copy that a queue was sent is handled, sent on as a   *)
(* retry, ready, or in the hands of a goroutine that has not decided: no   *)
(* step counts one twice.  A fault may: it gives back what goroutines      *)
(* still work on, or loses the confirm of a retry that is requeued too.    *)

Undecided == {"handling", "backoff", "deadletter", "requeue"}

AtWorkOn(q, m) == {s \in Slots : task[q][s] \in Undecided /\ held[q][s] = m}

Copies(q, m) == handled[q][m] + retries[q][m] + ready[q][m] + Cardinality(AtWorkOn(q, m))

Balance == \A q \in Queues, m \in Messages : Copies(q, m) <= sent[m] + Prefetch * faults

\* What a step may do to a queue's copies of m: no more than was sent is new,
\* or a fault pays for it with a prefetch.
Paid(q, m) ==
  Copies(q, m)' + sent[m] <= Copies(q, m) + sent'[m] + (IF faults' = faults THEN 0 ELSE Prefetch)

\* Slots are finitely many, Prefetch of them.
LEMMA SlotSets ==
  ASSUME NEW S, S \subseteq Slots
  PROVE  IsFiniteSet(S) /\ Cardinality(S) \in Nat /\ Cardinality(S) <= Prefetch
<1>1. IsFiniteSet(Slots) /\ Cardinality(Slots) = Prefetch
  BY FS_Interval, ConsumerAssumption DEF Slots
<1> QED
  BY <1>1, FS_Subset, FS_CardinalityType

LEMMA Numbers ==
  ASSUME TypeOK, NEW q \in Queues, NEW m \in Messages
  PROVE  /\ handled[q][m] \in Nat /\ retries[q][m] \in Nat /\ ready[q][m] \in Nat
         /\ sent[m] \in Nat /\ faults \in Nat
         /\ Cardinality(AtWorkOn(q, m)) \in Nat
         /\ Copies(q, m) \in Nat
<1>1. Cardinality(AtWorkOn(q, m)) \in Nat
  BY SlotSets DEF AtWorkOn
<1>2. /\ handled[q][m] \in Nat /\ retries[q][m] \in Nat /\ ready[q][m] \in Nat
      /\ sent[m] \in Nat /\ faults \in Nat
  BY ConsumerAssumption DEF TypeOK
<1> QED
  BY <1>1, <1>2 DEF Copies

LEMMA NumbersNext ==
  ASSUME TypeOK', NEW q \in Queues, NEW m \in Messages
  PROVE  /\ handled'[q][m] \in Nat /\ retries'[q][m] \in Nat /\ ready'[q][m] \in Nat
         /\ sent'[m] \in Nat /\ faults' \in Nat
         /\ Cardinality(AtWorkOn(q, m)') \in Nat
         /\ Copies(q, m)' \in Nat
         /\ Copies(q, m)' = handled'[q][m] + retries'[q][m] + ready'[q][m]
                              + Cardinality(AtWorkOn(q, m)')
<1>1. Cardinality(AtWorkOn(q, m)') \in Nat
  BY SlotSets DEF AtWorkOn
<1>2. /\ handled'[q][m] \in Nat /\ retries'[q][m] \in Nat /\ ready'[q][m] \in Nat
      /\ sent'[m] \in Nat /\ faults' \in Nat
  BY ConsumerAssumption DEF TypeOK
<1>3. Copies(q, m)' = handled'[q][m] + retries'[q][m] + ready'[q][m]
                       + Cardinality(AtWorkOn(q, m)')
  BY DEF Copies
<1> QED
  BY <1>1, <1>2, <1>3

LEMMA PaidKeeps ==
  ASSUME TypeOK, TypeOK', faults' \in {faults, faults + 1}, Balance,
         \A q \in Queues, m \in Messages : Paid(q, m)
  PROVE  Balance'
<1> SUFFICES ASSUME NEW q \in Queues, NEW m \in Messages
             PROVE  Copies(q, m)' <= sent'[m] + Prefetch * faults'
  BY DEF Balance
<1> DEFINE c == Copies(q, m)
           d == Copies(q, m)'
           t == sent[m]
           u == sent'[m]
<1>1. c \in Nat /\ d \in Nat /\ t \in Nat /\ u \in Nat /\ faults \in Nat /\ Prefetch \in Nat
  BY Numbers, NumbersNext, ConsumerAssumption
<1>2. c <= t + Prefetch * faults
  BY DEF Balance
<1>3. d + t <= c + u + (IF faults' = faults THEN 0 ELSE Prefetch)
  BY DEF Paid
<1> HIDE DEF c, d, t, u
<1>4. PICK P : P = Prefetch * faults
  OBVIOUS
<1>5. P \in Nat /\ Prefetch * (faults + 1) = P + Prefetch
  BY <1>1, <1>4
<1>6. CASE faults' = faults
  BY <1>1, <1>2, <1>3, <1>4, <1>5, <1>6 DEF d, u
<1>7. CASE faults' = faults + 1
  <2>1. d + t <= c + u + Prefetch
    BY <1>1, <1>3, <1>7
  <2>2. c <= t + P
    BY <1>2, <1>4
  <2>3. d <= u + (P + Prefetch)
    BY <1>1, <1>5, <2>1, <2>2
  <2> QED
    BY <1>5, <1>7, <2>3 DEF d, u
<1> QED
  BY <1>6, <1>7

\* A step that changes one slot, and not for another delivery.
LEMMA SlotMoves ==
  ASSUME TypeOK, NEW q \in Queues, NEW s \in Slots,
         \A p \in Queues, r \in Slots :
           p # q \/ r # s => task'[p][r] = task[p][r] /\ held'[p][r] = held[p][r],
         task'[q][s] \in Undecided => task[q][s] \in Undecided /\ held'[q][s] = held[q][s],
         NEW p \in Queues, NEW n \in Messages
  PROVE  Cardinality(AtWorkOn(p, n)') =
           IF p = q /\ n = held[q][s] /\ task[q][s] \in Undecided /\ task'[q][s] \notin Undecided
           THEN Cardinality(AtWorkOn(p, n)) - 1 ELSE Cardinality(AtWorkOn(p, n))
<1>1. IsFiniteSet(AtWorkOn(p, n))
  BY SlotSets DEF AtWorkOn
<1>2. CASE p = q /\ n = held[q][s] /\ task[q][s] \in Undecided /\ task'[q][s] \notin Undecided
  <2>1. AtWorkOn(p, n)' = AtWorkOn(p, n) \ {s} /\ s \in AtWorkOn(p, n)
    BY <1>2 DEF AtWorkOn
  <2>2. Cardinality(AtWorkOn(p, n) \ {s}) = Cardinality(AtWorkOn(p, n)) - 1
    BY <1>1, <2>1, FS_RemoveElement
  <2> QED
    BY <1>2, <2>1, <2>2
<1>3. CASE ~(p = q /\ n = held[q][s] /\ task[q][s] \in Undecided /\ task'[q][s] \notin Undecided)
  <2>1. AtWorkOn(p, n)' = AtWorkOn(p, n)
    BY <1>3 DEF AtWorkOn
  <2> QED
    BY <1>3, <2>1
<1> QED
  BY <1>2, <1>3

\* What the exchange adds: one copy of m for each queue of its key.
LEMMA SendAdds ==
  ASSUME TypeOK, NEW m \in Messages, Send(m), NEW q \in Queues, NEW n \in Messages
  PROVE  /\ sent'[n] = IF n = m THEN sent[n] + 1 ELSE sent[n]
         /\ ready'[q][n] = IF n = m /\ q \in Bound[m[1]] THEN ready[q][n] + 1 ELSE ready[q][n]
<1>1. sent'[n] = IF n = m THEN sent[n] + 1 ELSE sent[n]
  BY DEF Send, TypeOK
<1>2. ready[q] \in [Messages -> Nat]
  BY DEF TypeOK
<1>3. ready'[q] = IF q \in Bound[m[1]] THEN [ready[q] EXCEPT ![m] = @ + 1] ELSE ready[q]
  BY DEF Send, Routed
<1> QED
  BY <1>1, <1>2, <1>3

\* Steps that leave the deliveries and their histories alone.
LEMMA QuietPays ==
  ASSUME TypeOK, TypeOK', UNCHANGED <<sent, ready, task, held, historyVars>>,
         NEW q \in Queues, NEW m \in Messages
  PROVE  Paid(q, m)
<1>1. Copies(q, m)' = Copies(q, m) /\ sent'[m] = sent[m]
  BY DEF Copies, AtWorkOn, historyVars
<1> QED
  BY <1>1, Numbers, ConsumerAssumption DEF Paid

LEMMA PublishPays ==
  ASSUME TypeOK, TypeOK', NEW e \in Events, Publish(e), NEW q \in Queues, NEW m \in Messages
  PROVE  Paid(q, m)
<1>1. Send(<<e, 0>>) /\ <<e, 0>> \in Messages /\ UNCHANGED <<task, held, handled, retries>>
  BY FirstAttempt DEF Publish, historyVars
<1>2. AtWorkOn(q, m)' = AtWorkOn(q, m)
  BY <1>1 DEF AtWorkOn
<1>3. /\ sent'[m] = IF m = <<e, 0>> THEN sent[m] + 1 ELSE sent[m]
      /\ ready'[q][m] = IF m = <<e, 0>> /\ q \in Bound[e] THEN ready[q][m] + 1 ELSE ready[q][m]
  BY <1>1, SendAdds
<1>4. handled'[q][m] = handled[q][m] /\ retries'[q][m] = retries[q][m]
  BY <1>1
<1> QED
  BY <1>2, <1>3, <1>4, Numbers, NumbersNext, ConsumerAssumption DEF Paid, Copies

LEMMA LoopPays ==
  ASSUME TypeOK, TypeOK', NEW q \in Queues,
         \/ Start(q) \/ StartFails(q) \/ LeaveLoop(q) \/ Return(q)
         \/ Reconnect(q) \/ Stop(q) \/ Exit(q),
         NEW p \in Queues, NEW m \in Messages
  PROVE  Paid(p, m)
<1>1. UNCHANGED <<sent, ready, task, held, historyVars>>
  BY DEF Start, StartFails, LeaveLoop, Return, Reconnect, Stop, Exit, brokerVars
<1> QED
  BY <1>1, QuietPays

\* The delivery leaves the queue for a goroutine.
LEMMA DeliverPays ==
  ASSUME TypeOK, TypeOK', NEW q \in Queues, Deliver(q), NEW p \in Queues, NEW n \in Messages
  PROVE  Paid(p, n)
<1>1. PICK s \in Slots, m \in Messages :
        /\ task[q][s] = "free" /\ ready[q][m] > 0
        /\ ready' = [ready EXCEPT ![q][m] = @ - 1]
        /\ held' = [held EXCEPT ![q][s] = m]
        /\ task' = [task EXCEPT ![q][s] = FirstTask(m)]
        /\ UNCHANGED <<sent, historyVars>>
  BY DEF Deliver
<1>2. /\ held'[q][s] = m /\ task'[q][s] \in Undecided
      /\ \A t \in Queues, r \in Slots :
           t # q \/ r # s => held'[t][r] = held[t][r] /\ task'[t][r] = task[t][r]
  BY <1>1 DEF TypeOK, FirstTask, Undecided
<1>3. s \notin AtWorkOn(p, n) \/ p # q
  BY <1>1 DEF AtWorkOn, Undecided
<1>4. AtWorkOn(p, n)' = IF p = q /\ n = m THEN AtWorkOn(p, n) \cup {s} ELSE AtWorkOn(p, n)
  BY <1>1, <1>2 DEF AtWorkOn, Undecided
<1>5. IsFiniteSet(AtWorkOn(p, n))
  BY SlotSets DEF AtWorkOn
<1>6. Cardinality(AtWorkOn(p, n)') =
        IF p = q /\ n = m THEN Cardinality(AtWorkOn(p, n)) + 1 ELSE Cardinality(AtWorkOn(p, n))
  <2>1. CASE p = q /\ n = m
    <3>1. Cardinality(AtWorkOn(p, n) \cup {s}) = Cardinality(AtWorkOn(p, n)) + 1
      BY <1>3, <1>5, <2>1, FS_AddElement
    <3> QED
      BY <1>4, <2>1, <3>1
  <2>2. CASE ~(p = q /\ n = m)
    BY <1>4, <2>2
  <2> QED
    BY <2>1, <2>2
<1>7. ready'[p][n] = IF p = q /\ n = m THEN ready[p][n] - 1 ELSE ready[p][n]
  BY <1>1 DEF TypeOK
<1>8. handled'[p][n] = handled[p][n] /\ retries'[p][n] = retries[p][n] /\ sent'[n] = sent[n]
  BY <1>1 DEF historyVars
<1> QED
  BY <1>6, <1>7, <1>8, Numbers, NumbersNext, ConsumerAssumption DEF Paid, Copies

\* A success counts the copy the goroutine had; to fail, or to give up a
\* backoff, decides nothing.
LEMMA HandlerPays ==
  ASSUME TypeOK, TypeOK', NEW q \in Queues, NEW s \in Slots,
         \/ HandlerSucceeds(q, s) \/ HandlerFails(q, s) \/ BackoffCancelled(q, s)
         \/ RepublishRefused(q, s),
         NEW p \in Queues, NEW n \in Messages
  PROVE  Paid(p, n)
<1>1. PICK to \in {"ack", "backoff", "deadletter", "requeue"} :
        /\ task' = [task EXCEPT ![q][s] = to] /\ held' = held
        /\ to = "ack" <=> HandlerSucceeds(q, s)
  BY DEF HandlerSucceeds, HandlerFails, BackoffCancelled, RepublishRefused, Goes
<1>2. /\ task[q][s] \in Undecided /\ task[q][s] # "free"
      /\ UNCHANGED <<sent, ready, retries>>
  BY DEF HandlerSucceeds, HandlerFails, BackoffCancelled, RepublishRefused, Goes, Undecided,
         brokerVars, historyVars
<1>3. /\ task'[q][s] = to
      /\ \A t \in Queues, r \in Slots :
           t # q \/ r # s => task'[t][r] = task[t][r] /\ held'[t][r] = held[t][r]
  BY <1>1 DEF TypeOK
<1>4. Cardinality(AtWorkOn(p, n)') =
        IF p = q /\ n = held[q][s] /\ to = "ack"
        THEN Cardinality(AtWorkOn(p, n)) - 1 ELSE Cardinality(AtWorkOn(p, n))
  <2>1. to \in Undecided <=> to # "ack"
    BY DEF Undecided
  <2>2. Cardinality(AtWorkOn(p, n)') =
          IF p = q /\ n = held[q][s] /\ task[q][s] \in Undecided /\ task'[q][s] \notin Undecided
          THEN Cardinality(AtWorkOn(p, n)) - 1 ELSE Cardinality(AtWorkOn(p, n))
    BY <1>1, <1>2, <1>3, SlotMoves
  <2> QED
    BY <1>2, <1>3, <2>1, <2>2
<1>5. held[q][s] \in Messages
  BY <1>2, AtWork
<1>6. handled'[p][n] = IF p = q /\ n = held[q][s] /\ to = "ack"
                       THEN handled[p][n] + 1 ELSE handled[p][n]
  <2>1. CASE HandlerSucceeds(q, s)
    <3>1. handled' = [handled EXCEPT ![q][held[q][s]] = @ + 1]
      BY <2>1 DEF HandlerSucceeds
    <3> QED
      BY <1>1, <1>5, <2>1, <3>1 DEF TypeOK
  <2>2. CASE ~HandlerSucceeds(q, s)
    <3>1. handled' = handled
      BY <2>2 DEF HandlerFails, BackoffCancelled, RepublishRefused, historyVars
    <3> QED
      BY <1>1, <2>2, <3>1
  <2> QED
    BY <2>1, <2>2
<1>7. sent'[n] = sent[n] /\ ready'[p][n] = ready[p][n] /\ retries'[p][n] = retries[p][n]
  BY <1>2
<1> QED
  BY <1>4, <1>6, <1>7, Numbers, NumbersNext, ConsumerAssumption DEF Paid, Copies

\* A confirmed retry counts the copy it repeats; when its confirm is lost the
\* copy is requeued as well, and the fault pays for it.
LEMMA RepublishPays ==
  ASSUME TypeOK, TypeOK', NEW q \in Queues, NEW s \in Slots,
         Republished(q, s) \/ RepublishConfirmLost(q, s),
         NEW p \in Queues, NEW n \in Messages
  PROVE  Paid(p, n)
<1>0. PICK m : m = held[q][s]
  OBVIOUS
<1>1. PICK to \in {"ack", "requeue"} :
        /\ task[q][s] = "backoff" /\ task' = [task EXCEPT ![q][s] = to] /\ held' = held
        /\ to = "requeue" => faults' = faults + 1
        /\ Send(Retry(m)) /\ retries' = [retries EXCEPT ![q][m] = @ + 1] /\ handled' = handled
  BY <1>0 DEF Republished, RepublishConfirmLost, Goes, Resend, Fault
<1>2. m \in Messages /\ Retry(m) \in Messages
  BY <1>0, <1>1, AtWork DEF TypeOK
<1>3. /\ task'[q][s] = to
      /\ \A t \in Queues, r \in Slots :
           t # q \/ r # s => task'[t][r] = task[t][r] /\ held'[t][r] = held[t][r]
  BY <1>1 DEF TypeOK
<1>4. Cardinality(AtWorkOn(p, n)') =
        IF p = q /\ n = m /\ to = "ack"
        THEN Cardinality(AtWorkOn(p, n)) - 1 ELSE Cardinality(AtWorkOn(p, n))
  <2>1. task[q][s] \in Undecided /\ (to \in Undecided <=> to # "ack")
    BY <1>1 DEF Undecided
  <2>2. Cardinality(AtWorkOn(p, n)') =
          IF p = q /\ n = held[q][s] /\ task[q][s] \in Undecided /\ task'[q][s] \notin Undecided
          THEN Cardinality(AtWorkOn(p, n)) - 1 ELSE Cardinality(AtWorkOn(p, n))
    BY <1>1, <1>3, <2>1, SlotMoves
  <2> QED
    BY <1>0, <1>3, <2>1, <2>2
<1>5. /\ sent'[n] = IF n = Retry(m) THEN sent[n] + 1 ELSE sent[n]
      /\ ready'[p][n] \in {ready[p][n], IF n = Retry(m) THEN ready[p][n] + 1 ELSE ready[p][n]}
  BY <1>1, <1>2, SendAdds
<1>6. retries'[p][n] = IF p = q /\ n = m THEN retries[p][n] + 1 ELSE retries[p][n]
  BY <1>1, <1>2 DEF TypeOK
<1>7. handled'[p][n] = handled[p][n]
  BY <1>1
<1>8. faults \in Nat /\ Prefetch \in Nat /\ Prefetch > 0
  BY ConsumerAssumption DEF TypeOK
<1>9. to = "ack" \/ faults' # faults
  BY <1>1, <1>8
<1> QED
  BY <1>4, <1>5, <1>6, <1>7, <1>8, <1>9, Numbers, NumbersNext DEF Paid, Copies

\* An acknowledgement was counted when it was decided; a nack takes the copy
\* from the goroutine, and gives it back to the queue at most once.
LEMMA SettlePays ==
  ASSUME TypeOK, TypeOK', NEW q \in Queues, NEW s \in Slots, Settle(q, s),
         NEW p \in Queues, NEW n \in Messages
  PROVE  Paid(p, n)
<1>0. PICK m : m = held[q][s]
  OBVIOUS
<1>1. /\ task[q][s] \in {"ack", "deadletter", "requeue"}
      /\ ready' = IF open[q] /\ task[q][s] = "requeue"
                  THEN [ready EXCEPT ![q][m] = @ + 1] ELSE ready
      /\ task' = [task EXCEPT ![q][s] = "free"]
      /\ held' = [held EXCEPT ![q][s] = NoMessage]
      /\ UNCHANGED <<sent, handled, retries>>
  BY <1>0 DEF Settle, historyVars
<1>2. m \in Messages
  BY <1>0, <1>1, AtWork
<1>3. /\ task'[q][s] = "free" /\ "free" \notin Undecided
      /\ \A t \in Queues, r \in Slots :
           t # q \/ r # s => task'[t][r] = task[t][r] /\ held'[t][r] = held[t][r]
  BY <1>1 DEF TypeOK, Undecided
<1>4. Cardinality(AtWorkOn(p, n)') =
        IF p = q /\ n = m /\ task[q][s] # "ack"
        THEN Cardinality(AtWorkOn(p, n)) - 1 ELSE Cardinality(AtWorkOn(p, n))
  <2>1. task[q][s] \in Undecided <=> task[q][s] # "ack"
    BY <1>1 DEF Undecided
  <2>2. Cardinality(AtWorkOn(p, n)') =
          IF p = q /\ n = held[q][s] /\ task[q][s] \in Undecided /\ task'[q][s] \notin Undecided
          THEN Cardinality(AtWorkOn(p, n)) - 1 ELSE Cardinality(AtWorkOn(p, n))
    BY <1>3, SlotMoves
  <2> QED
    BY <1>0, <1>3, <2>1, <2>2
<1>5. ready'[p][n] \in {ready[p][n], IF p = q /\ n = m /\ task[q][s] = "requeue"
                                     THEN ready[p][n] + 1 ELSE ready[p][n]}
  BY <1>1, <1>2 DEF TypeOK
<1>6. sent'[n] = sent[n] /\ handled'[p][n] = handled[p][n] /\ retries'[p][n] = retries[p][n]
  BY <1>1
<1> QED
  BY <1>4, <1>5, <1>6, Numbers, NumbersNext, ConsumerAssumption DEF Paid, Copies

\* A channel has at most Prefetch deliveries to give back.
LEMMA LossPays ==
  ASSUME TypeOK, TypeOK', NEW q \in Queues, ConnectionLost(q) \/ Crash(q),
         NEW p \in Queues, NEW n \in Messages
  PROVE  Paid(p, n)
<1> DEFINE back == Cardinality({s \in Unacked(q) : held[q][s] = n})
<1>1. /\ GiveBack(q) /\ faults' = faults + 1
      /\ UNCHANGED <<sent, handled, retries>>
  BY DEF ConnectionLost, Crash, Fault, historyVars
<1>2. back \in Nat /\ back <= Prefetch
  BY SlotSets DEF Unacked
<1>3. ready'[p][n] = IF p = q THEN ready[p][n] + back ELSE ready[p][n]
  <2> DEFINE Back == [m \in Messages |-> ready[q][m] + Cardinality({s \in Unacked(q) : held[q][s] = m})]
  <2>1. ready' = [ready EXCEPT ![q] = Back]
    BY <1>1 DEF GiveBack
  <2>2. Back[n] = ready[q][n] + back
    OBVIOUS
  <2> HIDE DEF Back, back
  <2> QED
    BY <2>1, <2>2 DEF TypeOK
<1>4. AtWorkOn(p, n)' \subseteq AtWorkOn(p, n)
  <2>1. CASE ConnectionLost(q)
    BY <2>1 DEF ConnectionLost, AtWorkOn
  <2>2. CASE Crash(q)
    <3> DEFINE free == [s \in Slots |-> "free"]
               empty == [s \in Slots |-> NoMessage]
    <3>1. task' = [task EXCEPT ![q] = free] /\ held' = [held EXCEPT ![q] = empty]
      BY <2>2 DEF Crash
    <3>2. \A s \in Slots : task'[q][s] = "free"
      BY <3>1 DEF TypeOK
    <3> HIDE DEF free, empty
    <3>3. \A t \in Queues : t # q => task'[t] = task[t] /\ held'[t] = held[t]
      BY <3>1 DEF TypeOK
    <3> QED
      BY <3>2, <3>3 DEF AtWorkOn, Undecided
  <2> QED
    BY <2>1, <2>2
<1>5. Cardinality(AtWorkOn(p, n)') <= Cardinality(AtWorkOn(p, n))
  <2>1. IsFiniteSet(AtWorkOn(p, n))
    BY SlotSets DEF AtWorkOn
  <2> QED
    BY <1>4, <2>1, FS_Subset
<1>6. sent'[n] = sent[n] /\ handled'[p][n] = handled[p][n] /\ retries'[p][n] = retries[p][n]
  BY <1>1
<1>7. faults' # faults /\ Prefetch \in Nat
  BY <1>1, ConsumerAssumption DEF TypeOK
<1> HIDE DEF back
<1> QED
  BY <1>2, <1>3, <1>5, <1>6, <1>7, Numbers, NumbersNext DEF Paid, Copies

LEMMA NextPays ==
  ASSUME TypeOK, TypeOK', [Next]_vars, NEW p \in Queues, NEW n \in Messages
  PROVE  Paid(p, n)
<1>1. CASE \E e \in Events : Publish(e)
  BY <1>1, PublishPays
<1>2. CASE \E q \in Queues : Consume(q)
  BY <1>2, LoopPays, DeliverPays DEF Consume
<1>3. CASE \E q \in Queues : Process(q)
  BY <1>3, LoopPays, LossPays DEF Process
<1>4. CASE \E q \in Queues, s \in Slots : Goroutine(q, s)
  <2>1. PICK q \in Queues, s \in Slots : Goroutine(q, s)
    BY <1>4
  <2> QED
    BY <2>1, HandlerPays, RepublishPays, SettlePays DEF Goroutine, Aftermath, Handler, Republish
<1>5. CASE UNCHANGED vars
  BY <1>5, QuietPays DEF vars, historyVars
<1> QED
  BY <1>1, <1>2, <1>3, <1>4, <1>5 DEF Next

LEMMA FaultsByOne == [Next]_vars => faults' \in {faults, faults + 1}
BY DEF Next, Publish, Consume, Start, StartFails, Deliver, LeaveLoop, Return, Process,
       ConnectionLost, Reconnect, Stop, Exit, Crash, Goroutine, Aftermath, Handler, HandlerSucceeds,
       HandlerFails, BackoffCancelled, Republish, Republished, RepublishRefused,
       RepublishConfirmLost, Settle, Fault, vars

LEMMA NextBalance == TypeOK /\ TypeOK' /\ Balance /\ [Next]_vars => Balance'
BY NextPays, FaultsByOne, PaidKeeps

LEMMA InitBalance == Init => Balance
<1> SUFFICES ASSUME Init, NEW q \in Queues, NEW m \in Messages
             PROVE  Copies(q, m) <= sent[m] + Prefetch * faults
  BY DEF Balance
<1>1. AtWorkOn(q, m) = {}
  BY DEF Init, AtWorkOn, Undecided
<1>2. Cardinality(AtWorkOn(q, m)) = 0
  BY <1>1, FS_EmptySet
<1>3. /\ handled[q][m] = 0 /\ retries[q][m] = 0 /\ ready[q][m] = 0 /\ sent[m] = 0
      /\ faults = 0
  BY DEF Init
<1> QED
  BY <1>2, <1>3, ConsumerAssumption DEF Copies

-----------------------------------------------------------------------------
(* The theorems.                                                           *)

\* The inductive invariant: messages are only where they are bound to, and an
\* acknowledgement never takes the last copy of what was not handled.
THEOREM Invariance == Spec => []IInv
<1>1. Init => IInv
  BY Start0
<1>2. IInv /\ [Next]_vars => IInv'
  BY NextIInv
<1> QED
  BY <1>1, <1>2, PTL DEF Spec

\* The model of the consumer is type correct.
THEOREM TypeCorrect == Spec => []TypeOK
<1>1. IInv => TypeOK
  BY DEF IInv
<1> QED
  BY <1>1, Invariance, PTL

\* At least once (Consumer.handleDelivery): whatever fails between handler,
\* republish and acknowledgement, each queue keeps a published event until it
\* was handled or is in the DLQ.
THEOREM EventsAreKept == Spec => []NoEventLost
<1>1. IInv => NoEventLost
  BY DEF IInv
<1> QED
  BY <1>1, Invariance, PTL

\* An event is dead-lettered only if it is no envelope or after each of its
\* MaxRetries retries went through the exchange (handleDelivery, republish),
\* however deliveries, retries of other queues, crashes and shutdowns interleave.
THEOREM DeadLettersAreJustified == Spec => []DeadLetterIsJustified
<1>1. Init => DeadInv
  BY DEF Init, DeadInv, SentFirst, GivesUpLast, DeadLetterIsJustified
<1>2. DeadInv => DeadLetterIsJustified
  BY DEF DeadInv
<1> QED
  BY <1>1, <1>2, NextDead, Invariance, PTL DEF Spec

\* A queue ends each copy it is sent once, and a fault repeats no more than the
\* deliveries in flight: neither shutdowns nor the retries of other queues
\* repeat anything by themselves (the comment of handleDelivery on why the
\* republish ignores the cancelled context).
THEOREM DuplicatesAreBounded == Spec => []NoSpuriousDuplicate
<1>1. TypeOK /\ Balance => NoSpuriousDuplicate
  <2> SUFFICES ASSUME TypeOK, Balance, NEW q \in Queues, NEW m \in Messages
               PROVE  handled[q][m] + retries[q][m] <= sent[m] + Prefetch * faults
    BY DEF NoSpuriousDuplicate
  <2>1. Copies(q, m) <= sent[m] + Prefetch * faults
    BY DEF Balance
  <2>2. PICK b : b = sent[m] + Prefetch * faults
    OBVIOUS
  <2>3. b \in Int
    BY <2>2, Numbers, ConsumerAssumption
  <2> QED
    BY <2>1, <2>2, <2>3, Numbers DEF Copies
<1> QED
  BY <1>1, InitBalance, NextBalance, TypeCorrect, PTL DEF Spec
-----------------------------------------------------------------------------
(* After the loss of the connection.                                        *)

\* What a step may do to a consumer that has returned.
StaysDeaf(q) ==
  loop[q] = "returned" =>
    /\ handled'[q] = handled[q] /\ retries'[q] = retries[q]
    /\ \/ loop'[q] = "returned" /\ ~open'[q]
       \/ loop'[q] = "down" /\ (stop[q] \/ faults' > faults)

LEMMA NextDeaf ==
  ASSUME IInv, [Next]_vars, NEW q \in Queues
  PROVE  StaysDeaf(q)
<1> SUFFICES ASSUME loop[q] = "returned"
             PROVE  /\ handled'[q] = handled[q] /\ retries'[q] = retries[q]
                    /\ \/ loop'[q] = "returned" /\ ~open'[q]
                       \/ loop'[q] = "down" /\ (stop[q] \/ faults' > faults)
  BY DEF StaysDeaf
<1>1. ~open[q] /\ \A s \in Slots : task[q][s] = "free"
  BY DEF IInv, Idle
<1>2. /\ handled \in [Queues -> [Messages -> Nat]] /\ retries \in [Queues -> [Messages -> Nat]]
      /\ loop \in [Queues -> {"down", "reading", "waiting", "returned"}]
      /\ open \in [Queues -> BOOLEAN] /\ faults \in Nat
  BY ConsumerAssumption DEF IInv, TypeOK
<1>3. CASE \E e \in Events : Publish(e)
  BY <1>1, <1>3 DEF Publish, consumeVars, historyVars
<1>4. ASSUME NEW p \in Queues, Consume(p)
      PROVE  /\ handled'[q] = handled[q] /\ retries'[q] = retries[q]
             /\ loop'[q] = "returned" /\ ~open'[q]
  BY <1>1, <1>2, <1>4 DEF Consume, Start, StartFails, Deliver, LeaveLoop, Return,
                         consumeVars, historyVars
<1>5. ASSUME NEW p \in Queues, Process(p)
      PROVE  /\ handled'[q] = handled[q] /\ retries'[q] = retries[q]
             /\ \/ loop'[q] = "returned" /\ ~open'[q]
                \/ loop'[q] = "down" /\ (stop[q] \/ faults' > faults)
  <2>1. CASE ConnectionLost(p) \/ Reconnect(p) \/ Stop(p)
    BY <1>1, <1>2, <2>1 DEF ConnectionLost, Reconnect, Stop, historyVars
  <2>2. CASE Exit(p) \/ Crash(p)
    BY <1>1, <1>2, <2>2 DEF Exit, Crash, Down, Fault, historyVars
  <2> QED
    BY <1>5, <2>1, <2>2 DEF Process
<1>6. ASSUME NEW p \in Queues, NEW s \in Slots, Goroutine(p, s)
      PROVE  /\ handled'[q] = handled[q] /\ retries'[q] = retries[q]
             /\ loop'[q] = "returned" /\ ~open'[q]
  <2>1. task[p][s] # "free"
    BY <1>6 DEF Goroutine, Aftermath, Handler, HandlerSucceeds, HandlerFails, BackoffCancelled,
                Republish, Republished, RepublishRefused, RepublishConfirmLost, Settle, Goes
  <2>2. p # q
    BY <1>1, <2>1
  <2>3. UNCHANGED consumeVars
    BY <1>6 DEF Goroutine, Aftermath, Handler, HandlerSucceeds, HandlerFails, BackoffCancelled,
                Republish, Republished, RepublishRefused, RepublishConfirmLost, Settle
  <2>4. handled'[q] = handled[q]
    BY <1>2, <1>6, <2>2 DEF Goroutine, Aftermath, Handler, HandlerSucceeds, HandlerFails,
       BackoffCancelled, Republish, Republished, RepublishRefused, RepublishConfirmLost,
       Settle, historyVars
  <2>5. retries'[q] = retries[q]
    BY <1>2, <1>6, <2>2 DEF Goroutine, Aftermath, Handler, HandlerSucceeds, HandlerFails,
       BackoffCancelled, Republish, Republished, RepublishRefused, RepublishConfirmLost,
       Resend, Settle, historyVars
  <2> QED
    BY <1>1, <2>3, <2>4, <2>5 DEF consumeVars
<1>7. CASE UNCHANGED vars
  BY <1>1, <1>7 DEF vars, consumeVars, historyVars
<1> QED
  BY <1>3, <1>4, <1>5, <1>6, <1>7 DEF Next

\* Once Consume has returned, whatever the supervisor dials (connection.go), the
\* queue's consumer handles nothing and opens no channel until its process is
\* stopped or crashes.
THEOREM ReturnedConsumerIsDeaf ==
  ASSUME NEW q \in Queues
  PROVE  Spec => [][loop[q] = "returned" =>
                      /\ handled'[q] = handled[q] /\ retries'[q] = retries[q]
                      /\ \/ loop'[q] = "returned" /\ ~open'[q]
                         \/ loop'[q] = "down" /\ (stop[q] \/ faults' > faults)]_vars
<1>1. IInv /\ [Next]_vars =>
        (loop[q] = "returned" =>
           /\ handled'[q] = handled[q] /\ retries'[q] = retries[q]
           /\ \/ loop'[q] = "returned" /\ ~open'[q]
              \/ loop'[q] = "down" /\ (stop[q] \/ faults' > faults))
  BY NextDeaf DEF StaysDeaf
<1> QED
  BY <1>1, Invariance, PTL DEF Spec
=============================================================================
