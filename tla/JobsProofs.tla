----------------------------- MODULE JobsProofs -----------------------------
(***************************************************************************)
(* Proofs about Jobs for any number of redeliveries, retries and faults.   *)
(* What the row lock is worth is one conjunct, Locked: a single open       *)
(* transaction, which knows the committed status.  The rest ties the place *)
(* of every handler to the transition its transaction is to make, and a    *)
(* running handler to the status of the job.                               *)
(***************************************************************************)
EXTENDS Jobs, TLAPS

Locked ==
  /\ \A a, b \in Actors : tx[a] # Idle /\ tx[b] # Idle => a = b
  /\ \A a \in Actors : tx[a] # Idle => tx[a].seen = status

InTransaction == {"starting", "finishing", "burying"}

\* A handler's place says what its transaction is about.
Purpose ==
  /\ \A d \in Deliveries :
       /\ tx[d] # Idle <=> pc[d] \in InTransaction
       /\ pc[d] = "starting" => tx[d].to = "processing"
       /\ pc[d] = "finishing" => tx[d].to \in {"completed", "failed"}
       /\ pc[d] = "burying" => tx[d].to = "dead_letter"
  /\ tx[Sweeper] # Idle => tx[Sweeper].to = "dead_letter"

\* Retries are left until the message is given up.
RetriesLeft ==
  \A d \in Deliveries :
    pc[d] \in {"waiting", "starting", "working", "finishing"} => tries[d] < MaxTries

\* Only the sweeper, or a redelivery that gives up, ends a job under its runner.
RunnersJob ==
  \A d \in Deliveries : Running(d) => status \in {"processing", "dead_letter"}

IInv ==
  /\ TypeOK
  /\ Locked
  /\ Purpose
  /\ RetriesLeft
  /\ RunnersJob
  /\ OneRunner

LEMMA IdleIsNoTransition == ~(Idle \in [to : Statuses, seen : Statuses])
  BY DEF Idle, Statuses
-----------------------------------------------------------------------------
LEMMA InitIInv == Init => IInv
  <1> SUFFICES ASSUME Init PROVE IInv
    OBVIOUS
  <1> USE DEF Init
  <1>1. TypeOK
    <2>1. status \in Statuses /\ attempts \in Nat /\ age \in Ages \cup {None}
      BY DEF Statuses
    <2>2. tx \in [Actors -> [to : Statuses, seen : Statuses] \cup {Idle}]
      OBVIOUS
    <2>3. pc \in [Deliveries -> {"waiting", "starting", "working", "finishing",
                                 "exhausted", "burying", "done"}]
      OBVIOUS
    <2>4. busy \in [Deliveries -> 0..MaxWork] /\ tries \in [Deliveries -> 0..MaxTries]
      BY JobsAssumption
    <2>5. listed \in BOOLEAN
      OBVIOUS
    <2>6. faults \in 0..MaxFaults
      BY JobsAssumption
    <2>7. QED
      BY <2>1, <2>2, <2>3, <2>4, <2>5, <2>6 DEF TypeOK
  <1>2. Locked /\ Purpose /\ RetriesLeft
    BY JobsAssumption DEF Locked, Purpose, RetriesLeft, InTransaction, Actors
  <1>3. RunnersJob /\ OneRunner
    BY DEF RunnersJob, OneRunner, Running
  <1>4. QED
    BY <1>1, <1>2, <1>3 DEF IInv

LEMMA MarkStep ==
  ASSUME IInv, NEW d \in Deliveries, Mark(d)
  PROVE  IInv'
  <1> USE DEF IInv
  <1> PICK to \in Statuses : /\ Wants(d, to) /\ Lock(d, to)
                             /\ pc' = [pc EXCEPT ![d] = InTx(d)]
                             /\ UNCHANGED <<busy, tries, listed, faults>>
    BY DEF Mark
  <1>1. d \in Actors /\ Sweeper \in Actors /\ d # Sweeper
    BY JobsAssumption DEF Actors
  <1>2. /\ tx' = [tx EXCEPT ![d] = [to |-> to, seen |-> status]]
        /\ UNCHANGED <<status, attempts, age>>
        /\ \A a \in Actors : tx[a] = Idle
    BY DEF Lock, RowIsFree
  <1>3. [to |-> to, seen |-> status] # Idle
    BY IdleIsNoTransition DEF TypeOK
  <1>4. /\ pc[d] = "waiting" => InTx(d) = "starting" /\ to = "processing"
        /\ pc[d] = "working" => InTx(d) = "finishing" /\ to \in {"completed", "failed"}
        /\ pc[d] = "exhausted" => InTx(d) = "burying" /\ to = "dead_letter"
        /\ pc[d] \in {"waiting", "working", "exhausted"}
    BY DEF Wants, InTx
  <1>5. TypeOK'
    BY <1>1, <1>2, <1>4 DEF TypeOK
  <1>6. Locked'
    BY <1>1, <1>2, <1>3 DEF Locked, TypeOK
  <1>7. Purpose'
    BY <1>1, <1>2, <1>3, <1>4 DEF Purpose, TypeOK, InTransaction, Actors
  <1>8. RetriesLeft'
    BY <1>4 DEF RetriesLeft, TypeOK
  <1>9. \A e \in Deliveries : Running(e)' => Running(e)
    BY <1>4 DEF Running, TypeOK
  <1>10. RunnersJob' /\ OneRunner'
    BY <1>2, <1>9 DEF RunnersJob, OneRunner
  <1>11. QED
    BY <1>5, <1>6, <1>7, <1>8, <1>10

\* The status an open transaction has seen allows the change it makes.
LEMMA AppliedStatus ==
  ASSUME IInv, NEW a \in Actors, tx[a] # Idle, Apply(a)
  PROVE  /\ CanTransition(status, tx[a].to) /\ status' = tx[a].to
         /\ \A b \in Actors : b # a => tx[b] = Idle
         /\ \A b \in Actors : tx'[b] = Idle
         /\ tx[a].to \in Statuses
  BY DEF IInv, TypeOK, Locked, Apply, Allowed

LEMMA AppliedTypes ==
  ASSUME IInv, NEW a \in Actors, tx[a] # Idle, Apply(a)
  PROVE  /\ status' \in Statuses /\ attempts' \in Nat
         /\ age' \in Ages \cup {None}
         /\ tx' \in [Actors -> [to : Statuses, seen : Statuses] \cup {Idle}]
  <1>1. status' \in Statuses
    BY AppliedStatus
  <1>2. attempts' \in Nat
    BY DEF IInv, TypeOK, Apply
  <1>3. age' \in Ages \cup {None}
    BY JobsAssumption DEF IInv, TypeOK, Apply, Ages
  <1>4. tx' \in [Actors -> [to : Statuses, seen : Statuses] \cup {Idle}]
    BY DEF IInv, TypeOK, Apply
  <1>5. QED
    BY <1>1, <1>2, <1>3, <1>4

LEMMA MarkedStep ==
  ASSUME IInv, NEW d \in Deliveries, Marked(d)
  PROVE  IInv'
  <1> USE DEF IInv
  <1>1. d \in Actors /\ Sweeper \in Actors /\ d # Sweeper /\ Deliveries \subseteq Actors
    BY JobsAssumption DEF Actors
  <1>2. tx[d] # Idle /\ Apply(d) /\ UNCHANGED <<listed, faults>>
    BY DEF Marked
  <1>3. /\ CanTransition(status, tx[d].to) /\ status' = tx[d].to
        /\ \A b \in Actors : b # d => tx[b] = Idle
        /\ \A b \in Actors : tx'[b] = Idle
    BY <1>1, <1>2, AppliedStatus
  <1>4. /\ pc[d] \in InTransaction
        /\ tx[d].to = "processing" => pc[d] = "starting"
        /\ tx[d].to = "failed" => pc[d] = "finishing"
    BY <1>1, <1>2 DEF Purpose, InTransaction
  <1>5. \E to \in {"working", "waiting", "exhausted", "done"} :
          /\ pc' = [pc EXCEPT ![d] = to]
          /\ to = "working" <=> tx[d].to = "processing"
          /\ to = "waiting" => tries'[d] < MaxTries
          /\ tx[d].to # "failed" => UNCHANGED tries
    BY <1>1 DEF Marked, Retry, TypeOK, Terminal
  <1>6. tries' \in [Deliveries -> 0..MaxTries] /\ \A e \in Deliveries : e # d => tries'[e] = tries[e]
    <2>1. CASE tx[d].to = "failed"
      <3>1. tries' = [tries EXCEPT ![d] = @ + 1] /\ tries[d] < MaxTries
        BY <2>1, <1>4 DEF Marked, Retry, RetriesLeft, Terminal
      <3>2. QED
        BY <3>1, JobsAssumption DEF TypeOK
    <2>2. CASE tx[d].to # "failed"
      BY <2>2, <1>5 DEF TypeOK
    <2>3. QED
      BY <2>1, <2>2
  <1>7. TypeOK'
    <2>1. pc' \in [Deliveries -> {"waiting", "starting", "working", "finishing",
                                  "exhausted", "burying", "done"}]
      BY <1>5 DEF TypeOK
    <2>2. busy' \in [Deliveries -> 0..MaxWork]
      BY JobsAssumption DEF Marked, TypeOK
    <2>3. listed' \in BOOLEAN /\ faults' \in 0..MaxFaults
      BY <1>2 DEF TypeOK
    <2>4. QED
      BY <1>1, <1>2, <1>6, <2>1, <2>2, <2>3, AppliedTypes DEF TypeOK
  <1>8. Locked'
    BY <1>3 DEF Locked
  <1>9. Purpose'
    BY <1>1, <1>3, <1>5 DEF Purpose, TypeOK, InTransaction
  <1>10. RetriesLeft'
    <2>1. \A e \in Deliveries : e # d => pc'[e] = pc[e] /\ tries'[e] = tries[e]
      BY <1>5, <1>6 DEF TypeOK
    <2>2. pc'[d] = "working" => tries'[d] < MaxTries
      BY <1>4, <1>5 DEF RetriesLeft, TypeOK
    <2>3. pc'[d] \in {"waiting", "starting", "working", "finishing"} => tries'[d] < MaxTries
      BY <1>5, <2>2 DEF TypeOK
    <2>4. QED
      BY <2>1, <2>3 DEF RetriesLeft
  <1>11. \A e \in Deliveries : e # d /\ Running(e)' => Running(e)
    BY <1>5 DEF Running, TypeOK
  <1>12. RunnersJob' /\ OneRunner'
    <2>1. CASE Running(d)
      <3>1. \A e \in Deliveries : Running(e)' => FALSE
        BY <2>1, <1>4, <1>5, <1>11 DEF OneRunner, Running, TypeOK, InTransaction
      <3>2. QED
        BY <3>1 DEF RunnersJob, OneRunner
    <2>2. CASE pc[d] = "starting"
      <3>1. tx[d].to = "processing" /\ status' = "processing"
        BY <2>2, <1>3 DEF Purpose
      <3>2. \A e \in Deliveries : ~Running(e)
        BY <1>3, <3>1 DEF CanTransition, RunnersJob
      <3>3. QED
        BY <3>1, <3>2, <1>11 DEF RunnersJob, OneRunner
    <2>3. CASE pc[d] = "burying"
      <3>1. tx[d].to = "dead_letter" /\ status' = "dead_letter"
        BY <2>3, <1>3 DEF Purpose
      <3>2. ~Running(d)'
        BY <3>1, <1>5 DEF Running, TypeOK
      <3>3. QED
        BY <3>1, <3>2, <1>11 DEF RunnersJob, OneRunner
    <2>4. QED
      BY <2>1, <2>2, <2>3, <1>4 DEF InTransaction, Running
  <1>13. QED
    BY <1>7, <1>8, <1>9, <1>10, <1>12

\* A rollback of a's transaction, the only one that is open.
LEMMA AbandonedTx ==
  ASSUME IInv, NEW a \in Actors, tx[a] # Idle, tx' = [tx EXCEPT ![a] = Idle]
  PROVE  /\ \A b \in Actors : tx'[b] = Idle
         /\ tx' \in [Actors -> [to : Statuses, seen : Statuses] \cup {Idle}]
  BY DEF IInv, TypeOK, Locked

LEMMA NotMarkedStep ==
  ASSUME IInv, NEW d \in Deliveries, NotMarked(d)
  PROVE  IInv'
  <1> USE DEF IInv
  <1>1. d \in Actors /\ Sweeper \in Actors /\ d # Sweeper /\ Deliveries \subseteq Actors
    BY JobsAssumption DEF Actors
  <1>2. /\ tx[d] # Idle /\ tx' = [tx EXCEPT ![d] = Idle]
        /\ UNCHANGED <<status, attempts, age, listed>>
        /\ pc[d] \in InTransaction
    BY <1>1 DEF NotMarked, Abandon, Purpose
  <1>3. /\ \A b \in Actors : tx'[b] = Idle
        /\ tx' \in [Actors -> [to : Statuses, seen : Statuses] \cup {Idle}]
    BY <1>1, <1>2, AbandonedTx
  <1>4. \E to \in {"waiting", "exhausted", "done"} :
          /\ pc' = [pc EXCEPT ![d] = to]
          /\ to = "waiting" => tries'[d] < MaxTries
    <2>1. CASE pc[d] = "burying"
      BY <2>1 DEF NotMarked
    <2>2. CASE pc[d] # "burying"
      BY <2>2 DEF NotMarked, Retry, TypeOK
    <2>3. QED
      BY <2>1, <2>2
  <1>5. tries' \in [Deliveries -> 0..MaxTries] /\ \A e \in Deliveries : e # d => tries'[e] = tries[e]
    <2>1. CASE pc[d] = "burying"
      BY <2>1 DEF NotMarked, TypeOK
    <2>2. CASE pc[d] # "burying"
      <3>1. tries' = [tries EXCEPT ![d] = @ + 1] /\ tries[d] < MaxTries
        BY <2>2, <1>2 DEF NotMarked, Retry, RetriesLeft, InTransaction
      <3>2. QED
        BY <3>1, JobsAssumption DEF TypeOK
    <2>3. QED
      BY <2>1, <2>2
  <1>6. TypeOK'
    <2>1. pc' \in [Deliveries -> {"waiting", "starting", "working", "finishing",
                                  "exhausted", "burying", "done"}]
      BY <1>4 DEF TypeOK
    <2>2. busy' \in [Deliveries -> 0..MaxWork]
      BY JobsAssumption DEF NotMarked, TypeOK
    <2>3. faults' \in 0..MaxFaults
      BY JobsAssumption DEF NotMarked, Abandon, Fault, TypeOK
    <2>4. QED
      BY <1>2, <1>3, <1>5, <2>1, <2>2, <2>3 DEF TypeOK
  <1>7. Locked' /\ Purpose'
    BY <1>1, <1>2, <1>3, <1>4 DEF Locked, Purpose, TypeOK, InTransaction
  <1>8. RetriesLeft'
    BY <1>4, <1>5 DEF RetriesLeft, TypeOK
  <1>9. \A e \in Deliveries : Running(e)' => Running(e)
    BY <1>4 DEF Running, TypeOK
  <1>10. RunnersJob' /\ OneRunner'
    BY <1>2, <1>9 DEF RunnersJob, OneRunner
  <1>11. QED
    BY <1>6, <1>7, <1>8, <1>10

LEMMA CrashStep ==
  ASSUME IInv, NEW d \in Deliveries, Crash(d)
  PROVE  IInv'
  <1> USE DEF IInv
  <1>1. d \in Actors /\ Sweeper \in Actors /\ d # Sweeper /\ Deliveries \subseteq Actors
    BY JobsAssumption DEF Actors
  <1>2. /\ tx' = [tx EXCEPT ![d] = Idle]
        /\ UNCHANGED <<status, attempts, age, tries, listed>>
    BY DEF Crash
  <1>3. \E to \in {"waiting", "exhausted", "done"} :
          /\ pc' = [pc EXCEPT ![d] = to]
          /\ to = "waiting" => pc[d] # "burying"
    BY DEF Crash
  <1>4. TypeOK'
    <2>1. pc' \in [Deliveries -> {"waiting", "starting", "working", "finishing",
                                  "exhausted", "burying", "done"}]
      BY <1>3 DEF TypeOK
    <2>2. busy' \in [Deliveries -> 0..MaxWork]
      BY JobsAssumption DEF Crash, TypeOK
    <2>3. faults' \in 0..MaxFaults
      BY JobsAssumption DEF Crash, Fault, TypeOK
    <2>4. tx' \in [Actors -> [to : Statuses, seen : Statuses] \cup {Idle}]
      BY <1>2 DEF TypeOK
    <2>5. QED
      BY <1>2, <2>1, <2>2, <2>3, <2>4 DEF TypeOK
  <1>5. Locked' /\ Purpose'
    BY <1>1, <1>2, <1>3 DEF Locked, Purpose, TypeOK, InTransaction
  <1>6. RetriesLeft'
    BY <1>2, <1>3 DEF Crash, RetriesLeft, TypeOK
  <1>7. \A e \in Deliveries : Running(e)' => Running(e)
    BY <1>3 DEF Running, TypeOK
  <1>8. RunnersJob' /\ OneRunner'
    BY <1>2, <1>7 DEF RunnersJob, OneRunner
  <1>9. QED
    BY <1>4, <1>5, <1>6, <1>8
-----------------------------------------------------------------------------
\* The sweeper's steps leave every handler where it is.
LEMMA SweepStep ==
  ASSUME IInv, Sweep
  PROVE  IInv'
  <1> USE DEF IInv
  <1>1. Sweeper \in Actors /\ Sweeper \notin Deliveries /\ Deliveries \subseteq Actors
    BY JobsAssumption DEF Actors
  <1>2. UNCHANGED <<pc, busy, tries>> /\ \A d \in Deliveries : Running(d)' = Running(d)
    BY DEF Sweep, FindStale, Bury, Buried, NotBuried, Running
  <1>3. RetriesLeft' /\ OneRunner'
    BY <1>2 DEF RetriesLeft, OneRunner
  <1>4. CASE FindStale
    BY <1>2, <1>3, <1>4 DEF FindStale, TypeOK, Locked, Purpose, RunnersJob
  <1>5. CASE Bury
    <2>1. /\ tx' = [tx EXCEPT ![Sweeper] = [to |-> "dead_letter", seen |-> status]]
          /\ UNCHANGED <<status, attempts, age, listed, faults>>
          /\ \A a \in Actors : tx[a] = Idle
      BY <1>5 DEF Bury, Lock, RowIsFree
    <2>2. TypeOK'
      BY <1>1, <1>2, <2>1 DEF TypeOK, Statuses
    <2>3. Locked' /\ Purpose'
      BY <1>1, <1>2, <2>1 DEF Locked, Purpose, TypeOK
    <2>4. RunnersJob'
      BY <1>2, <2>1 DEF RunnersJob
    <2>5. QED
      BY <1>3, <2>2, <2>3, <2>4
  <1>6. CASE Buried
    <2>1. tx[Sweeper] # Idle /\ Apply(Sweeper) /\ listed' = FALSE /\ faults' = faults
      BY <1>6 DEF Buried
    <2>2. /\ status' = "dead_letter"
          /\ \A b \in Actors : b # Sweeper => tx[b] = Idle
          /\ \A b \in Actors : tx'[b] = Idle
      BY <1>1, <2>1, AppliedStatus DEF Purpose
    <2>3. listed' \in BOOLEAN
      BY <2>1
    <2>4. TypeOK'
      BY <1>1, <1>2, <2>1, <2>3, AppliedTypes DEF TypeOK
    <2>5. Locked' /\ Purpose'
      BY <1>1, <1>2, <2>2 DEF Locked, Purpose
    <2>6. RunnersJob'
      BY <2>2 DEF RunnersJob
    <2>7. QED
      BY <1>3, <2>4, <2>5, <2>6
  <1>7. CASE NotBuried
    <2>1. /\ tx[Sweeper] # Idle /\ tx' = [tx EXCEPT ![Sweeper] = Idle]
          /\ UNCHANGED <<status, attempts, age>> /\ listed' = FALSE
      BY <1>7 DEF NotBuried, Abandon
    <2>2. /\ \A b \in Actors : tx'[b] = Idle
          /\ tx' \in [Actors -> [to : Statuses, seen : Statuses] \cup {Idle}]
      BY <1>1, <2>1, AbandonedTx
    <2>3. faults' \in 0..MaxFaults
      BY <1>7, JobsAssumption DEF NotBuried, Abandon, Fault, TypeOK
    <2>4. listed' \in BOOLEAN
      BY <2>1
    <2>5. TypeOK'
      BY <1>2, <2>1, <2>2, <2>3, <2>4 DEF TypeOK
    <2>6. \A b \in Actors : b # Sweeper => tx[b] = Idle
      BY <1>1, <2>1 DEF Locked
    <2>7. Locked' /\ Purpose'
      BY <1>1, <1>2, <2>2, <2>6 DEF Locked, Purpose
    <2>8. RunnersJob'
      BY <1>2, <2>1 DEF RunnersJob
    <2>9. QED
      BY <1>3, <2>5, <2>7, <2>8
  <1>8. QED
    BY <1>4, <1>5, <1>6, <1>7 DEF Sweep

LEMMA TickStep ==
  ASSUME IInv, Tick
  PROVE  IInv'
  <1> USE DEF IInv
  <1>1. UNCHANGED <<status, attempts, tx, pc, tries, listed, faults>>
    BY DEF Tick
  <1>2. age' \in Ages \cup {None}
    BY JobsAssumption DEF Tick, TypeOK, Ages
  <1>3. busy' \in [Deliveries -> 0..MaxWork]
    BY JobsAssumption DEF Tick, TypeOK
  <1>4. TypeOK'
    BY <1>1, <1>2, <1>3 DEF TypeOK
  <1>5. QED
    BY <1>1, <1>4 DEF Locked, Purpose, RetriesLeft, RunnersJob, OneRunner, Running

LEMMA NextIInv == IInv /\ [Next]_vars => IInv'
  <1> SUFFICES ASSUME IInv, [Next]_vars PROVE IInv'
    OBVIOUS
  <1>1. CASE \E d \in Deliveries : Delivery(d)
    BY <1>1, MarkStep, MarkedStep, NotMarkedStep, CrashStep DEF Delivery
  <1>2. CASE Sweep
    BY <1>2, SweepStep
  <1>3. CASE Tick
    BY <1>3, TickStep
  <1>4. CASE UNCHANGED vars
    BY <1>4 DEF vars, IInv, TypeOK, Locked, Purpose, RetriesLeft, RunnersJob, OneRunner, Running
  <1>5. QED
    BY <1>1, <1>2, <1>3, <1>4 DEF Next
-----------------------------------------------------------------------------
(* The inductive invariant holds in every reachable state of the table row *)
(* and its handlers, whatever transition and sweepOnce do and in any order.*)
THEOREM Invariance == Spec => []IInv
  BY InitIInv, NextIInv, PTL DEF Spec

(* The row and the handlers keep their types; no delivery is tried more    *)
(* often than the consumer's retry policy allows.                          *)
THEOREM TypeCorrect == Spec => []TypeOK
  <1>1. IInv => TypeOK
    BY DEF IInv
  <1>2. QED
    BY <1>1, Invariance, PTL

(* However many redeliveries of a job's message race, SELECT ... FOR       *)
(* UPDATE and CanTransition let at most one of them run it.                *)
THEOREM JobHasOneRunner == Spec => []OneRunner
  <1>1. IInv => OneRunner
    BY DEF IInv
  <1>2. QED
    BY <1>1, Invariance, PTL

-----------------------------------------------------------------------------
(* The life cycle.  A run begins with the commit of MarkProcessing; while  *)
(* the transaction is open its delivery does not count as a runner.        *)

Runners == {d \in Deliveries : Running(d)}

\* Whoever runs the job is alone with it.
LEMMA RunnerIsAlone ==
  ASSUME IInv, NEW d \in Deliveries, Running(d)
  PROVE  Runners = {d}
  BY DEF IInv, OneRunner, Runners

\* The runners after a step that moves d only.
LEMMA RunnersMove ==
  ASSUME IInv, NEW d \in Deliveries, NEW to, pc' = [pc EXCEPT ![d] = to]
  PROVE  Runners' = IF to \in {"working", "finishing"} THEN Runners \cup {d} ELSE Runners \ {d}
  <1>1. \A e \in Deliveries : pc'[e] = IF e = d THEN to ELSE pc[e]
    BY DEF IInv, TypeOK
  <1>2. QED
    BY <1>1 DEF Runners, Running

\* A transaction that opens moves its delivery into the transaction: nobody
\* starts or ends a run.
LEMMA MarkLifecycle ==
  ASSUME IInv, NEW d \in Deliveries, Mark(d)
  PROVE  UNCHANGED Lifecycle!vars
  <1>1. PICK to \in Statuses : Wants(d, to)
    BY DEF Mark
  <1>2. pc' = [pc EXCEPT ![d] = InTx(d)] /\ UNCHANGED <<status, attempts>>
    BY DEF Mark, Lock
  <1>3. /\ pc[d] \in {"waiting", "working", "exhausted"}
        /\ InTx(d) \in {"working", "finishing"} <=> Running(d)
    BY <1>1 DEF Wants, InTx, Running
  <1>4. Runners' = Runners
    <2>1. Runners' = IF InTx(d) \in {"working", "finishing"} THEN Runners \cup {d} ELSE Runners \ {d}
      BY <1>2, RunnersMove
    <2>2. Running(d) <=> d \in Runners
      BY DEF Runners
    <2>3. QED
      BY <1>3, <2>1, <2>2
  <1>5. QED
    BY <1>2, <1>4 DEF Lifecycle!vars, Runners

(* The commit of a transition begins a run, ends the run of its own        *)
(* delivery, or gives the job up.                                          *)
LEMMA MarkedLifecycle ==
  ASSUME IInv, NEW d \in Deliveries, Marked(d)
  PROVE  Lifecycle!Next
  <1> DEFINE to == tx[d].to
  <1>1. d \in Actors /\ tx[d] # Idle /\ Apply(d)
    BY DEF Marked, Actors
  <1>2. CanTransition(status, to) /\ status' = to
    BY <1>1, AppliedStatus
  <1>3. attempts' = IF to = "processing" THEN attempts + 1 ELSE attempts
    BY <1>1 DEF Apply
  <1>4. /\ pc[d] \in InTransaction
        /\ to = "processing" <=> pc[d] = "starting"
        /\ to \in {"completed", "failed"} <=> pc[d] = "finishing"
        /\ to = "dead_letter" <=> pc[d] = "burying"
    BY <1>1 DEF IInv, Purpose, InTransaction
  <1>5. CASE to = "processing"
    <2>1. pc' = [pc EXCEPT ![d] = "working"]
      BY <1>5 DEF Marked, Terminal
    <2>2. status \in {"queued", "failed"}
      BY <1>2, <1>5 DEF CanTransition
    <2>3. Runners = {}
      BY <2>2 DEF IInv, RunnersJob, Runners
    <2>4. Runners' = {d}
      BY <2>1, <2>3, RunnersMove
    <2>5. Lifecycle!Run(d)
      BY <1>2, <1>3, <1>5, <2>2, <2>3, <2>4 DEF Lifecycle!Run, Runners
    <2>6. QED
      BY <2>5 DEF Lifecycle!Next
  <1>6. CASE to \in {"completed", "failed"}
    <2>1. PICK at \in {"waiting", "exhausted", "done"} : pc' = [pc EXCEPT ![d] = at]
      BY <1>6 DEF Marked, Retry, Terminal
    <2>2. status = "processing"
      BY <1>2, <1>6 DEF CanTransition
    <2>3. Runners = {d}
      BY <1>4, <1>6, RunnerIsAlone DEF Running
    <2>4. Runners' = {}
      BY <2>1, <2>3, RunnersMove
    <2>5. Lifecycle!End(d)
      BY <1>2, <1>3, <1>6, <2>2, <2>3, <2>4 DEF Lifecycle!End, Runners
    <2>6. QED
      BY <2>5 DEF Lifecycle!Next
  <1>7. CASE to = "dead_letter"
    <2>1. pc' = [pc EXCEPT ![d] = "done"]
      BY <1>7 DEF Marked, Terminal
    <2>2. d \notin Runners
      BY <1>4, <1>7 DEF Runners, Running
    <2>3. Runners' = Runners
      <3>1. Runners' = Runners \ {d}
        BY <2>1, RunnersMove
      <3>2. QED
        BY <2>2, <3>1
    <2>4. Lifecycle!GiveUp
      BY <1>2, <1>3, <1>7, <2>3 DEF Lifecycle!GiveUp, CanTransition, Runners
    <2>5. QED
      BY <2>4 DEF Lifecycle!Next
  <1>8. QED
    BY <1>4, <1>5, <1>6, <1>7 DEF InTransaction

\* A delivery that leaves its place without a commit lets go of the job, if
\* it had it.
LEMMA LeaverLetsGo ==
  ASSUME IInv, NEW d \in Deliveries, NEW to \in {"waiting", "exhausted", "done"},
         pc' = [pc EXCEPT ![d] = to], UNCHANGED <<status, attempts>>
  PROVE  [Lifecycle!Next]_(Lifecycle!vars)
  <1>1. Runners' = Runners \ {d}
    BY RunnersMove
  <1>2. CASE Running(d)
    <2>1. Runners = {d} /\ Runners' = {}
      BY <1>1, <1>2, RunnerIsAlone
    <2>2. Lifecycle!LetGo
      BY <2>1 DEF Lifecycle!LetGo, Runners
    <2>3. QED
      BY <2>2 DEF Lifecycle!Next
  <1>3. CASE ~Running(d)
    <2>1. Runners' = Runners
      BY <1>1, <1>3 DEF Runners
    <2>2. QED
      BY <2>1 DEF Lifecycle!vars, Runners
  <1>4. QED
    BY <1>2, <1>3

LEMMA DeliveryLifecycle ==
  ASSUME IInv, NEW d \in Deliveries, Delivery(d)
  PROVE  [Lifecycle!Next]_(Lifecycle!vars)
  <1>1. CASE NotMarked(d)
    <2>1. \E to \in {"waiting", "exhausted", "done"} : pc' = [pc EXCEPT ![d] = to]
      BY <1>1 DEF NotMarked, Retry
    <2>2. UNCHANGED <<status, attempts>>
      BY <1>1 DEF NotMarked, Abandon
    <2>3. QED
      BY <2>1, <2>2, LeaverLetsGo
  <1>2. CASE Crash(d)
    <2>1. \E to \in {"waiting", "exhausted", "done"} : pc' = [pc EXCEPT ![d] = to]
      BY <1>2 DEF Crash
    <2>2. UNCHANGED <<status, attempts>>
      BY <1>2 DEF Crash
    <2>3. QED
      BY <2>1, <2>2, LeaverLetsGo
  <1>3. QED
    BY <1>1, <1>2, MarkLifecycle, MarkedLifecycle DEF Delivery

\* The sweeper gives the job up, or changes nothing a reader of it sees.
LEMMA SweepLifecycle ==
  ASSUME IInv, Sweep
  PROVE  [Lifecycle!Next]_(Lifecycle!vars)
  <1>1. pc' = pc /\ Runners' = Runners
    BY DEF Sweep, FindStale, Bury, Buried, NotBuried, Runners, Running
  <1>2. CASE Buried
    <2>1. Sweeper \in Actors /\ tx[Sweeper] # Idle /\ Apply(Sweeper)
      BY <1>2 DEF Buried, Actors
    <2>2. tx[Sweeper].to = "dead_letter"
      BY <2>1 DEF IInv, Purpose
    <2>3. /\ CanTransition(status, "dead_letter") /\ status' = "dead_letter"
          /\ attempts' = attempts
      BY <2>1, <2>2, AppliedStatus DEF Apply
    <2>4. Lifecycle!GiveUp
      BY <1>1, <2>3 DEF Lifecycle!GiveUp, CanTransition, Runners
    <2>5. QED
      BY <2>4 DEF Lifecycle!Next
  <1>3. CASE ~Buried
    <2>1. UNCHANGED <<status, attempts>>
      BY <1>3 DEF Sweep, FindStale, Bury, Lock, NotBuried, Abandon
    <2>2. QED
      BY <1>1, <2>1 DEF Lifecycle!vars, Runners
  <1>4. QED
    BY <1>2, <1>3

LEMMA NextLifecycle == IInv /\ [Next]_vars => [Lifecycle!Next]_(Lifecycle!vars)
  <1> SUFFICES ASSUME IInv, [Next]_vars PROVE [Lifecycle!Next]_(Lifecycle!vars)
    OBVIOUS
  <1>1. CASE Tick \/ UNCHANGED vars
    BY <1>1 DEF Tick, vars, Lifecycle!vars, Running
  <1>2. QED
    BY <1>1, DeliveryLifecycle, SweepLifecycle DEF Next

(* Jobs implements JobLifecycle: whatever redeliveries, crashes and sweeps *)
(* do to each other, a job is run by one worker at a time, only that       *)
(* worker completes or fails the run, attempts counts the runs, and an end *)
(* is final (transition, validTransitions, sweepOnce).                     *)
THEOREM Implementation == Spec => ImplementsLifecycle
  <1>1. Init => Lifecycle!Init
    BY DEF Init, Lifecycle!Init, Running
  <1>2. QED
    BY <1>1, Invariance, NextLifecycle, PTL DEF Spec, ImplementsLifecycle, Lifecycle!Spec

(* A completed or dead-lettered job never changes again: neither a late    *)
(* handler, nor a redelivery, nor the sweeper overwrites the outcome or    *)
(* counts another run.  It is a fact of the life cycle alone.              *)
THEOREM OutcomeIsFinal ==
  Spec => [][(status \in Terminal => status' = status /\ attempts' = attempts)]_vars
  <1>1. [Lifecycle!Next]_(Lifecycle!vars) =>
          (status \in Terminal => status' = status /\ attempts' = attempts)
    BY DEF Lifecycle!Next, Lifecycle!Run, Lifecycle!End, Lifecycle!LetGo, Lifecycle!GiveUp,
           Lifecycle!vars, Terminal
  <1>2. IInv /\ [Next]_vars => [(status \in Terminal => status' = status /\ attempts' = attempts)]_vars
    BY <1>1, NextLifecycle
  <1>3. QED
    BY <1>2, Invariance, PTL DEF Spec
=============================================================================
