---------------------------- MODULE OutboxProofs ----------------------------
(***************************************************************************)
(* Proofs about Outbox for any set of events, any number of replicas, any  *)
(* batch size, attempt limit and number of faults.  The inductive          *)
(* invariant says who may touch a row: the rows locked by the open batches *)
(* are pending and belong to one batch each, an outcome is staged only in  *)
(* a live transaction, and a staged "published" or "failed" is already     *)
(* justified by what the broker did.                                       *)
(***************************************************************************)
EXTENDS Outbox, FiniteSetTheorems, TLAPS

\* A row exists exactly when the transaction that wrote it has committed.
RowOfTx == \A e \in Events : status[e] = "absent" <=> biz[e] # "committed"

\* Only existing rows are in a batch, and none is when no batch is open.
WorkOnRows ==
  /\ \A r \in Replicas : pc[r] \in {"down", "idle"} => work[r] = NoWork
  /\ \A r \in Replicas, e \in Events : work[r][e] # "no" => status[e] # "absent"
  /\ \A r \in Replicas, e \in Events : work[r][e] \in Outcomes => pc[r] = "batch"

\* A locked row is pending, and one transaction holds it.
Locks ==
  /\ \A r \in Replicas, e \in Events : e \in Locked(r) => status[e] = "pending"
  /\ \A r, q \in Replicas, e \in Events : e \in Locked(r) /\ e \in Locked(q) => r = q

\* What a batch is about to record, and what is recorded, has happened.
Justified ==
  /\ \A e \in Events : status[e] \in {"absent", "pending"} => attempts[e] < MaxAttempts
  /\ \A e \in Events : status[e] = "published" => copies[e] > 0
  /\ FailedIsJustified
  /\ \A r \in Replicas, e \in Events :
       /\ work[r][e] = "published" => copies[e] > 0
       /\ work[r][e] = "failed" => e \in Undecodable \/ attempts[e] + 1 = MaxAttempts
       /\ work[r][e] = "retry" => attempts[e] + 1 < MaxAttempts

IInv == TypeOK /\ RowOfTx /\ WorkOnRows /\ Locks /\ Justified
-----------------------------------------------------------------------------
LEMMA InitIInv == Init => IInv
  <1> SUFFICES ASSUME Init PROVE IInv
    OBVIOUS
  <1> USE DEF Init
  <1>1. TypeOK
    BY LimitsAssumption DEF TypeOK, TxStates, Statuses, Phases, Outcomes, NoWork
  <1>2. RowOfTx /\ WorkOnRows
    BY DEF RowOfTx, WorkOnRows, NoWork, Outcomes
  <1>3. Locks /\ Justified
    BY LimitsAssumption DEF Locks, Locked, Justified, FailedIsJustified, NoWork
  <1>4. QED
    BY <1>1, <1>2, <1>3 DEF IInv

\* Steps that touch neither the rows nor the batches.
LEMMA QuietStep ==
  ASSUME IInv, TypeOK', UNCHANGED <<biz, status, attempts, copies, pc, work>>
  PROVE  IInv'
  <1>1. RowOfTx' /\ WorkOnRows'
    BY DEF IInv, RowOfTx, WorkOnRows, NoWork
  <1>2. Locks' /\ Justified'
    BY DEF IInv, Locks, Locked, Justified, FailedIsJustified
  <1>3. QED
    BY <1>1, <1>2 DEF IInv

\* The steps of a use case: what changes is a row nobody has looked at yet.
LEMMA UseCaseStep ==
  ASSUME IInv, NEW e \in Events, UseCase(e)
  PROVE  IInv'
  <1> USE DEF IInv, TypeOK
  <1>1. CASE Write(e)
    <2>1. TypeOK'
      BY <1>1 DEF Write, replicaVars, TxStates
    <2>2. RowOfTx' /\ WorkOnRows'
      BY <1>1 DEF Write, replicaVars, RowOfTx, WorkOnRows, NoWork
    <2>3. Locks' /\ Justified'
      BY <1>1 DEF Write, replicaVars, Locks, Locked, Justified, FailedIsJustified
    <2>4. QED
      BY <2>1, <2>2, <2>3
  <1>2. CASE CommitTx(e)
    <2>1. TypeOK'
      BY <1>2 DEF CommitTx, TxStates, Statuses
    <2>2. RowOfTx' /\ WorkOnRows'
      BY <1>2 DEF CommitTx, RowOfTx, WorkOnRows, NoWork, TxStates
    <2>3. Locks' /\ Justified'
      BY <1>2 DEF CommitTx, Locks, Locked, Justified, FailedIsJustified, RowOfTx, WorkOnRows
    <2>4. QED
      BY <2>1, <2>2, <2>3
  <1>3. CASE RollbackTx(e)
    <2>1. TypeOK'
      BY <1>3 DEF RollbackTx, replicaVars, TxStates
    <2>2. RowOfTx' /\ WorkOnRows'
      BY <1>3 DEF RollbackTx, replicaVars, RowOfTx, WorkOnRows, NoWork
    <2>3. Locks' /\ Justified'
      BY <1>3 DEF RollbackTx, replicaVars, Locks, Locked, Justified, FailedIsJustified
    <2>4. QED
      BY <2>1, <2>2, <2>3
  <1>4. QED
    BY <1>1, <1>2, <1>3 DEF UseCase

\* Run's wake channel and the listener leave rows and batches alone.
LEMMA WakeStep ==
  ASSUME IInv, NEW r \in Replicas,
         \/ Boot(r) \/ Tick(r) \/ Listener(r) \/ SelectFails(r)
  PROVE  IInv'
  <1> USE DEF IInv
  <1>1. CASE Boot(r)
    <2>1. TypeOK'
      BY <1>1 DEF Boot, Signal, rowVars, TypeOK, Phases
    <2>2. RowOfTx' /\ WorkOnRows'
      BY <1>1 DEF Boot, rowVars, RowOfTx, WorkOnRows, NoWork, TypeOK, Phases, Outcomes
    <2>3. Locks' /\ Justified'
      BY <1>1 DEF Boot, rowVars, Locks, Locked, Justified, FailedIsJustified, TypeOK
    <2>4. QED
      BY <2>1, <2>2, <2>3
  <1>2. CASE Tick(r)
    <2>1. TypeOK'
      BY <1>2 DEF Tick, Signal, rowVars, TypeOK
    <2>2. QED
      BY <1>2, <2>1, QuietStep DEF Tick, rowVars
  <1>3. CASE Listener(r)
    <2>1. TypeOK'
      BY <1>3 DEF Listener, Listen, ListenReady, ReceiveNotify, ListenDrop, Signal, rowVars, TypeOK
    <2>2. UNCHANGED <<biz, status, attempts, copies, pc, work>>
      BY <1>3 DEF Listener, Listen, ListenReady, ReceiveNotify, ListenDrop, rowVars
    <2>3. QED
      BY <2>1, <2>2, QuietStep
  <1>4. CASE SelectFails(r)
    <2>1. TypeOK'
      BY <1>4, LimitsAssumption DEF SelectFails, TakeWake, Fault, rowVars, TypeOK
    <2>2. QED
      BY <1>4, <2>1, QuietStep DEF SelectFails, rowVars
  <1>5. QED
    BY <1>1, <1>2, <1>3, <1>4

\* SELECT ... FOR UPDATE SKIP LOCKED takes rows that are pending and unlocked.
LEMMA SelectStep ==
  ASSUME IInv, NEW r \in Replicas, Select(r)
  PROVE  IInv'
  <1> USE DEF IInv
  <1>1. TypeOK'
    BY DEF Select, TakeWake, rowVars, TypeOK, Phases
  <1>2. \A e \in Events : work'[r][e] # "no" => e \in Available /\ work'[r][e] = "todo"
    BY DEF Select, Oldest, TypeOK
  <1>3. \A q \in Replicas \ {r} : work'[q] = work[q] /\ pc'[q] = pc[q]
    BY DEF Select, TypeOK
  <1>4. Available = {} => work'[r] = NoWork
    BY DEF Select, Oldest, TypeOK, NoWork
  <1>5. UNCHANGED rowVars /\ copies' = copies /\ pc'[r] \in {"idle", "batch"}
        /\ (pc'[r] = "idle" <=> Available = {}) /\ pc[r] = "idle"
    BY DEF Select, TakeWake, TypeOK
  <1>6. RowOfTx'
    BY <1>5 DEF RowOfTx, rowVars
  <1>7. WorkOnRows'
    <2>1. \A e \in Events : work'[r][e] # "no" => status[e] = "pending"
      BY <1>2 DEF Available
    <2>2. \A q \in Replicas : pc'[q] \in {"down", "idle"} => work'[q] = NoWork
      BY <1>3, <1>4, <1>5 DEF WorkOnRows
    <2>3. \A q \in Replicas, e \in Events : work'[q][e] # "no" => status[e] # "absent"
      BY <2>1, <1>3 DEF WorkOnRows
    <2>4. \A q \in Replicas, e \in Events : work'[q][e] \in Outcomes => pc'[q] = "batch"
      BY <1>2, <1>3 DEF WorkOnRows, Outcomes
    <2>5. QED
      BY <2>2, <2>3, <2>4, <1>5 DEF WorkOnRows, rowVars, NoWork
  <1>8. Locks'
    <2>1. \A q \in Replicas \ {r} : Locked(q)' = Locked(q)
      BY <1>3 DEF Locked
    <2>2. Locked(r)' \subseteq Available
      BY <1>2 DEF Locked
    <2>3. QED
      BY <2>1, <2>2, <1>5 DEF Locks, Available, rowVars
  <1>9. Justified'
    BY <1>2, <1>3, <1>5 DEF Justified, FailedIsJustified, rowVars
  <1>10. QED
    BY <1>1, <1>6, <1>7, <1>8, <1>9

\* A replica loses its transaction: its locks and its staged outcomes are gone.
Release(r) ==
  /\ UNCHANGED rowVars /\ UNCHANGED copies
  /\ \A q \in Replicas \ {r} : work'[q] = work[q] /\ pc'[q] = pc[q]
  /\ \A e \in Events : work'[r][e] = "no" \/ (work'[r][e] = "todo" /\ work[r][e] = "todo")
  /\ pc'[r] # "batch"
  /\ pc'[r] \in {"down", "idle"} => work'[r] = NoWork

LEMMA ReleaseStep ==
  ASSUME IInv, TypeOK', NEW r \in Replicas, Release(r)
  PROVE  IInv'
  <1> USE DEF IInv, Release
  <1>1. RowOfTx'
    BY DEF RowOfTx, rowVars
  <1>2. WorkOnRows'
    BY DEF WorkOnRows, rowVars, NoWork, Outcomes
  <1>3. Locks'
    <2>1. \A q \in Replicas \ {r} : Locked(q)' = Locked(q)
      BY DEF Locked
    <2>2. Locked(r)' = {}
      BY DEF Locked
    <2>3. QED
      BY <2>1, <2>2 DEF Locks, rowVars
  <1>4. Justified'
    BY DEF Justified, FailedIsJustified, rowVars
  <1>5. QED
    BY <1>1, <1>2, <1>3, <1>4

LEMMA ReleaseIntro ==
  ASSUME TypeOK, NEW r \in Replicas, UNCHANGED rowVars, UNCHANGED copies,
         \/ work' = [work EXCEPT ![r] = NoWork]
         \/ work' = [work EXCEPT ![r] = OnlyTodo(r)],
         pc' \in [Replicas -> Phases], pc'[r] # "batch",
         \A q \in Replicas \ {r} : pc'[q] = pc[q],
         pc'[r] \in {"down", "idle"} => work'[r] = NoWork
  PROVE  /\ Release(r)
         /\ work' \in [Replicas -> [Events -> {"no", "todo"} \cup Outcomes]]
  <1>1. CASE work' = [work EXCEPT ![r] = NoWork]
    <2>1. NoWork \in [Events -> {"no", "todo"} \cup Outcomes] /\ \A e \in Events : NoWork[e] = "no"
      BY DEF NoWork
    <2>2. QED
      BY <1>1, <2>1 DEF TypeOK, Release
  <1>2. CASE work' = [work EXCEPT ![r] = OnlyTodo(r)]
    <2>1. /\ OnlyTodo(r) \in [Events -> {"no", "todo"} \cup Outcomes]
          /\ \A e \in Events : OnlyTodo(r)[e] = "no" \/ (OnlyTodo(r)[e] = "todo" /\ work[r][e] = "todo")
      BY DEF OnlyTodo
    <2>2. QED
      BY <1>2, <2>1 DEF TypeOK, Release
  <1>3. QED
    BY <1>1, <1>2

LEMMA LoseStep ==
  ASSUME IInv, NEW r \in Replicas,
         \/ AbortBatch(r) \/ RollbackBatch(r) \/ Shutdown(r) \/ Crash(r)
  PROVE  IInv'
  <1>1. TypeOK /\ WorkOnRows
    BY DEF IInv
  <1>2. /\ UNCHANGED rowVars /\ UNCHANGED copies /\ faults' \in 0..MaxFaults
        /\ wake' \in [Replicas -> BOOLEAN] /\ note' \in [Replicas -> BOOLEAN]
        /\ fresh' \in [Replicas -> BOOLEAN] /\ listen' \in [Replicas -> {"off", "on", "ready"}]
    <2>1. UNCHANGED rowVars /\ UNCHANGED copies /\ (Silence(r) \/ UNCHANGED <<wake, listen, note, fresh>>)
      BY DEF AbortBatch, RollbackBatch, Shutdown, Crash, rowVars
    <2>2. faults' = faults \/ Fault
      BY DEF AbortBatch, RollbackBatch, Shutdown, Crash
    <2>3. faults' \in 0..MaxFaults
      BY <1>1, <2>2, LimitsAssumption DEF Fault, TypeOK
    <2>4. CASE Silence(r)
      BY <1>1, <2>1, <2>3, <2>4 DEF Silence, TypeOK
    <2>5. CASE UNCHANGED <<wake, listen, note, fresh>>
      BY <1>1, <2>1, <2>3, <2>5 DEF TypeOK
    <2>6. QED
      BY <2>1, <2>4, <2>5
  <1>3. /\ pc' \in [Replicas -> Phases] /\ pc'[r] # "batch"
        /\ \A q \in Replicas \ {r} : pc'[q] = pc[q]
    BY <1>1 DEF AbortBatch, RollbackBatch, Shutdown, Crash, TypeOK, Phases
  <1>4. \/ work' = [work EXCEPT ![r] = NoWork]
        \/ work' = [work EXCEPT ![r] = OnlyTodo(r)]
    BY DEF AbortBatch, RollbackBatch, Shutdown, Crash
  <1>5. pc'[r] \in {"down", "idle"} => work'[r] = NoWork
    <2>1. CASE AbortBatch(r)
      BY <1>1, <2>1 DEF AbortBatch, TypeOK
    <2>2. CASE RollbackBatch(r) \/ Crash(r)
      BY <1>1, <2>2 DEF RollbackBatch, Crash, TypeOK
    <2>3. CASE Shutdown(r)
      <3>1. pc[r] = "idle" => OnlyTodo(r) = NoWork
        BY <1>1 DEF WorkOnRows, OnlyTodo, NoWork
      <3>2. QED
        BY <1>1, <2>3, <3>1 DEF Shutdown, TypeOK
    <2>4. QED
      BY <2>1, <2>2, <2>3
  <1>6. Release(r) /\ work' \in [Replicas -> [Events -> {"no", "todo"} \cup Outcomes]]
    BY <1>1, <1>2, <1>3, <1>4, <1>5, ReleaseIntro
  <1>7. TypeOK'
    BY <1>1, <1>2, <1>3, <1>6 DEF TypeOK, rowVars
  <1>8. QED
    BY <1>6, <1>7, ReleaseStep

\* One row of the loop: what is staged is what the broker answered.
LEMMA PublishStep ==
  ASSUME IInv, NEW r \in Replicas, NEW e \in Events,
         \/ MarkUndecodable(r, e) \/ PublishConfirmed(r, e)
         \/ PublishRefused(r, e) \/ ConfirmLost(r, e)
  PROVE  IInv'
  <1> USE DEF IInv
  <1>1. PICK outcome \in Outcomes : Mark(r, e, outcome) /\ IsNext(r, e)
        /\ (outcome = "published" => copies'[e] > 0)
        /\ (outcome = "failed" => e \in Undecodable \/ attempts[e] + 1 >= MaxAttempts)
        /\ (outcome = "retry" => attempts[e] + 1 < MaxAttempts)
    <2>1. attempts[e] \in Nat /\ MaxAttempts \in Nat /\ copies[e] \in Nat
      BY LimitsAssumption DEF TypeOK
    <2>2. FailureOutcome(e) \in Outcomes
      BY DEF FailureOutcome, Outcomes
    <2>3. PublishConfirmed(r, e) => copies'[e] > 0
      BY <2>1 DEF PublishConfirmed, TypeOK
    <2>4. QED
      BY <2>1, <2>2, <2>3 DEF MarkUndecodable, PublishConfirmed, PublishRefused, ConfirmLost,
         FailureOutcome, Outcomes
  <1>2. UNCHANGED <<rowVars, pc, wake, listen, note, fresh>>
        /\ faults' \in 0..MaxFaults /\ copies' \in [Events -> Nat]
        /\ \A f \in Events : copies'[f] >= copies[f]
    <2>1. /\ UNCHANGED <<biz, status, attempts, pc, wake, listen, note, fresh>>
          /\ copies' = copies \/ copies' = [copies EXCEPT ![e] = @ + 1]
          /\ faults' = faults \/ Fault
      BY DEF MarkUndecodable, PublishConfirmed, PublishRefused, ConfirmLost, rowVars
    <2>2. copies' \in [Events -> Nat] /\ \A f \in Events : copies'[f] >= copies[f]
      BY <2>1 DEF TypeOK
    <2>3. faults' \in 0..MaxFaults
      BY <2>1, LimitsAssumption DEF TypeOK, Fault
    <2>4. QED
      BY <2>1, <2>2, <2>3 DEF rowVars
  <1>3. work' = [work EXCEPT ![r][e] = IF pc[r] = "batch" THEN outcome ELSE "no"]
    BY <1>1 DEF Mark
  <1>4. TypeOK'
    BY <1>2, <1>3 DEF TypeOK, rowVars, Outcomes
  <1>5. /\ \A q \in Replicas, f \in Events : q # r \/ f # e => work'[q][f] = work[q][f]
        /\ work'[r][e] = IF pc[r] = "batch" THEN outcome ELSE "no"
        /\ work[r][e] = "todo"
        /\ \A q \in Replicas \ {r} : work'[q] = work[q]
    BY <1>1, <1>3 DEF TypeOK, IsNext
  <1>6. RowOfTx'
    BY <1>2 DEF RowOfTx, rowVars
  <1>7. WorkOnRows'
    <2>1. pc[r] \notin {"down", "idle"}
      BY <1>1 DEF IsNext
    <2>2. QED
      BY <2>1, <1>2, <1>5 DEF WorkOnRows, rowVars, NoWork, Outcomes
  <1>8. Locks'
    <2>1. \A q \in Replicas : Locked(q)' \subseteq Locked(q)
      BY <1>2, <1>5 DEF Locked
    <2>2. QED
      BY <2>1, <1>2 DEF Locks, rowVars
  <1>9. Justified'
    <2>1. FailedIsJustified' /\ \A f \in Events :
            /\ status'[f] \in {"absent", "pending"} => attempts'[f] < MaxAttempts
            /\ status'[f] = "published" => copies'[f] > 0
      BY <1>2 DEF Justified, FailedIsJustified, rowVars, TypeOK
    <2>2. pc[r] = "batch" => attempts[e] + 1 <= MaxAttempts
      <3>1. pc[r] = "batch" => status[e] = "pending"
        BY <1>5 DEF Locks, Locked
      <3>2. QED
        BY <3>1, LimitsAssumption DEF Justified, TypeOK
    <2>3. \A q \in Replicas, f \in Events :
            /\ work'[q][f] = "published" => copies'[f] > 0
            /\ work'[q][f] = "failed" => f \in Undecodable \/ attempts[f] + 1 = MaxAttempts
            /\ work'[q][f] = "retry" => attempts[f] + 1 < MaxAttempts
      <3> SUFFICES ASSUME NEW q \in Replicas, NEW f \in Events
                   PROVE  /\ work'[q][f] = "published" => copies'[f] > 0
                          /\ work'[q][f] = "failed" => f \in Undecodable \/ attempts[f] + 1 = MaxAttempts
                          /\ work'[q][f] = "retry" => attempts[f] + 1 < MaxAttempts
        OBVIOUS
      <3>1. attempts[f] \in Nat /\ MaxAttempts \in Nat /\ copies[f] \in Nat /\ copies'[f] \in Nat
        BY <1>2, LimitsAssumption DEF TypeOK
      <3>2. CASE q = r /\ f = e
        BY <1>1, <1>5, <2>2, <3>1, <3>2 DEF Outcomes
      <3>3. CASE ~(q = r /\ f = e)
        <4>1. work'[q][f] = work[q][f] /\ copies'[f] >= copies[f]
          BY <1>2, <1>5, <3>3
        <4>2. QED
          BY <4>1, <3>1 DEF Justified
      <3>4. QED
        BY <3>2, <3>3
    <2>4. QED
      BY <2>1, <2>3, <1>2 DEF Justified, rowVars
  <1>10. QED
    BY <1>4, <1>6, <1>7, <1>8, <1>9

\* COMMIT: the rows it records were locked by this batch, hence pending.
LEMMA CommitStep ==
  ASSUME IInv, NEW r \in Replicas, CommitBatch(r)
  PROVE  IInv'
  <1> USE DEF IInv
  <1>1. /\ UNCHANGED <<biz, copies, wake, listen, note, fresh, faults>>
        /\ pc[r] = "batch"
        /\ pc'[r] = "idle" /\ work'[r] = NoWork
        /\ \A q \in Replicas \ {r} : work'[q] = work[q] /\ pc'[q] = pc[q]
    BY DEF CommitBatch, TypeOK
  <1>2. \A e \in Events :
          /\ work[r][e] \in {"no"} \cup Outcomes
          /\ work[r][e] # "no" => status[e] = "pending" /\ attempts[e] < MaxAttempts
    BY <1>1 DEF CommitBatch, BatchDone, TypeOK, Locks, Locked, Justified
  <1>3. \A e \in Events :
          /\ status'[e] = IF work[r][e] \in {"published", "failed"} THEN work[r][e] ELSE status[e]
          /\ attempts'[e] = IF work[r][e] \in {"retry", "failed"} THEN attempts[e] + 1 ELSE attempts[e]
    BY DEF CommitBatch
  <1>4. TypeOK'
    <2>1. status' \in [Events -> Statuses]
      BY DEF CommitBatch, TypeOK, Statuses
    <2>2. attempts' \in [Events -> 0..MaxAttempts]
      BY <1>2, LimitsAssumption DEF CommitBatch, TypeOK
    <2>3. work' \in [Replicas -> [Events -> {"no", "todo"} \cup Outcomes]] /\ pc' \in [Replicas -> Phases]
      BY DEF CommitBatch, TypeOK, NoWork, Phases
    <2>4. QED
      BY <1>1, <2>1, <2>2, <2>3 DEF TypeOK
  <1>5. RowOfTx'
    BY <1>1, <1>2, <1>3 DEF RowOfTx
  <1>6. WorkOnRows'
    BY <1>1, <1>2, <1>3 DEF WorkOnRows, NoWork, Outcomes
  <1>7. Locks'
    <2>1. \A q \in Replicas \ {r} : Locked(q)' = Locked(q)
      BY <1>1 DEF Locked
    <2>2. Locked(r)' = {}
      BY <1>1 DEF Locked
    <2>3. \A q \in Replicas \ {r}, e \in Events : e \in Locked(q) => work[r][e] = "no"
      BY <1>1 DEF Locks, Locked
    <2>4. QED
      BY <1>3, <2>1, <2>2, <2>3 DEF Locks
  <1>8. Justified'
    <2>1. \A q \in Replicas, e \in Events : work'[q][e] \in Outcomes =>
            q # r /\ work'[q][e] = work[q][e] /\ work[r][e] = "no"
      BY <1>1 DEF Locks, Locked, WorkOnRows, NoWork, Outcomes
    <2>2. \A e \in Events :
            /\ status'[e] \in {"absent", "pending"} => attempts'[e] < MaxAttempts
            /\ status'[e] = "published" => copies'[e] > 0
            /\ status'[e] = "failed" => e \in Undecodable \/ attempts'[e] = MaxAttempts
      <3> SUFFICES ASSUME NEW e \in Events
                   PROVE  /\ status'[e] \in {"absent", "pending"} => attempts'[e] < MaxAttempts
                          /\ status'[e] = "published" => copies'[e] > 0
                          /\ status'[e] = "failed" => e \in Undecodable \/ attempts'[e] = MaxAttempts
        OBVIOUS
      <3>1. attempts[e] \in Nat /\ MaxAttempts \in Nat
        BY LimitsAssumption DEF TypeOK
      <3>2. QED
        BY <1>1, <1>2, <1>3, <3>1 DEF Justified, FailedIsJustified, Outcomes
    <2>3. \A q \in Replicas, e \in Events : work'[q][e] \in Outcomes => attempts'[e] = attempts[e]
      BY <1>3, <2>1 DEF Outcomes
    <2>4. \A q \in Replicas, e \in Events :
            /\ work'[q][e] = "published" => copies'[e] > 0
            /\ work'[q][e] = "failed" => e \in Undecodable \/ attempts'[e] + 1 = MaxAttempts
            /\ work'[q][e] = "retry" => attempts'[e] + 1 < MaxAttempts
      BY <1>1, <2>1, <2>3 DEF Justified, Outcomes
    <2>5. FailedIsJustified'
      BY <2>2 DEF FailedIsJustified
    <2>6. QED
      BY <2>2, <2>4, <2>5 DEF Justified
  <1>9. QED
    BY <1>4, <1>5, <1>6, <1>7, <1>8

LEMMA NextIInv == IInv /\ [Next]_vars => IInv'
  <1> SUFFICES ASSUME IInv, [Next]_vars PROVE IInv'
    OBVIOUS
  <1>1. CASE UNCHANGED vars
    <2>1. TypeOK'
      BY <1>1 DEF vars, IInv, TypeOK
    <2>2. QED
      BY <1>1, <2>1, QuietStep DEF vars
  <1>2. ASSUME NEW e \in Events, UseCase(e) PROVE IInv'
    BY <1>2, UseCaseStep
  <1>3. ASSUME NEW r \in Replicas, Replica(r) PROVE IInv'
    <2>1. CASE Boot(r) \/ Tick(r) \/ Listener(r) \/ SelectFails(r)
      BY <2>1, WakeStep
    <2>2. CASE Select(r)
      BY <2>2, SelectStep
    <2>3. CASE PublishRow(r)
      BY <2>3, PublishStep DEF PublishRow
    <2>4. CASE AbortBatch(r) \/ RollbackBatch(r) \/ Shutdown(r) \/ Crash(r)
      BY <2>4, LoseStep
    <2>5. CASE CommitBatch(r)
      BY <2>5, CommitStep
    <2>6. QED
      BY <1>3, <2>1, <2>2, <2>3, <2>4, <2>5 DEF Replica
  <1>4. QED
    BY <1>1, <1>2, <1>3 DEF Next
-----------------------------------------------------------------------------
(* The invariant holds in every reachable state.                           *)
THEOREM Invariance == Spec => []IInv
  <1>1. QED
    BY InitIInv, NextIInv, PTL DEF Spec

(* Types, and that a counter of attempts never passes MaxAttempts: the     *)
(* bound needs the row locks, since two batches that counted an attempt    *)
(* for the same row would push it past the limit.                          *)
THEOREM TypeCorrect == Spec => []TypeOK
  <1>1. IInv => TypeOK
    BY DEF IInv
  <1>2. QED
    BY <1>1, Invariance, PTL

(* A row is given up only when it cannot be decoded or after MaxAttempts   *)
(* failed publishes counted in committed batches.                          *)
THEOREM GivingUpIsJustified == Spec => []FailedIsJustified
  <1>1. IInv => FailedIsJustified
    BY DEF IInv, Justified
  <1>2. QED
    BY <1>1, Invariance, PTL
-----------------------------------------------------------------------------
(* Duplicates.  A replica whose transaction was lost still publishes the   *)
(* rows left in its loop: each such row is a debt of one copy, paid by the *)
(* fault that aborted the transaction.                                     *)
Debt(e) == {r \in Replicas : pc[r] \in {"aborted", "stopping"} /\ work[r][e] = "todo"}

\* A copy that needs no fault: the one recorded, or staged to be.
Recorded(e) == status[e] = "published" \/ \E r \in Replicas : work[r][e] = "published"

Balance(e) == copies[e] + Cardinality(Debt(e)) <= faults + (IF Recorded(e) THEN 1 ELSE 0)

DupInv == \A e \in Events : Balance(e)

LEMMA DebtFinite ==
  ASSUME NEW e \in Events
  PROVE  IsFiniteSet(Debt(e)) /\ Cardinality(Debt(e)) \in Nat
  <1>1. Debt(e) \subseteq Replicas
    BY DEF Debt
  <1>2. QED
    BY <1>1, ReplicasAssumption, FS_Subset, FS_CardinalityType

LEMMA DebtShrinks ==
  ASSUME NEW e \in Events, Debt(e)' \subseteq Debt(e)
  PROVE  Cardinality(Debt(e)') \in Nat /\ Cardinality(Debt(e)') <= Cardinality(Debt(e))
  BY DebtFinite, FS_Subset, FS_CardinalityType

\* Neither copies nor faults move, no debt appears and no record is lost.
LEMMA BalanceKept ==
  ASSUME TypeOK, TypeOK', NEW e \in Events, Balance(e),
         copies'[e] = copies[e], faults' >= faults,
         Debt(e)' \subseteq Debt(e), Recorded(e) => Recorded(e)'
  PROVE  Balance(e)'
  <1>1. copies[e] \in Nat /\ faults \in Nat /\ faults' \in Nat
    BY LimitsAssumption DEF TypeOK
  <1>2. QED
    BY <1>1, DebtFinite, DebtShrinks DEF Balance

\* A fault pays for a record that is lost, or for a new debt.
LEMMA BalancePaid ==
  ASSUME TypeOK, TypeOK', NEW e \in Events, NEW r \in Replicas, Balance(e),
         copies'[e] = copies[e], faults' = faults + 1,
         \/ Debt(e)' \subseteq Debt(e)
         \/ Debt(e)' = Debt(e) \cup {r} /\ (Recorded(e) => Recorded(e)')
  PROVE  Balance(e)'
  <1>1. copies[e] \in Nat /\ faults \in Nat
    BY LimitsAssumption DEF TypeOK
  <1>2. CASE Debt(e)' \subseteq Debt(e)
    BY <1>1, <1>2, DebtFinite, DebtShrinks DEF Balance
  <1>3. CASE Debt(e)' = Debt(e) \cup {r} /\ (Recorded(e) => Recorded(e)')
    <2> DEFINE D == Debt(e)
    <2>0. IsFiniteSet(D) /\ Cardinality(D) \in Nat
      BY DebtFinite
    <2>1. Cardinality(D \cup {r}) = IF r \in D THEN Cardinality(D) ELSE Cardinality(D) + 1
      <3> HIDE DEF D
      <3>1. QED
        BY <2>0, FS_AddElement
    <2>2. Cardinality(Debt(e)') = IF r \in D THEN Cardinality(D) ELSE Cardinality(D) + 1
      BY <1>3, <2>1
    <2>3. QED
      BY <1>1, <1>3, <2>0, <2>2 DEF Balance
  <1>4. QED
    BY <1>2, <1>3

\* One more copy: paid by the first record, by a debt or by a fault.
LEMMA BalanceSent ==
  ASSUME TypeOK, TypeOK', NEW e \in Events, NEW r \in Replicas, Balance(e),
         copies'[e] = copies[e] + 1,
         \/ faults' = faults /\ Debt(e)' \subseteq Debt(e) /\ ~Recorded(e) /\ Recorded(e)'
         \/ faults' = faults /\ r \in Debt(e) /\ Debt(e)' = Debt(e) \ {r} /\ (Recorded(e) => Recorded(e)')
         \/ faults' = faults + 1 /\ Debt(e)' \subseteq Debt(e) /\ (Recorded(e) => Recorded(e)')
  PROVE  Balance(e)'
  <1>1. copies[e] \in Nat /\ faults \in Nat
    BY LimitsAssumption DEF TypeOK
  <1>2. CASE faults' = faults /\ r \in Debt(e) /\ Debt(e)' = Debt(e) \ {r}
             /\ (Recorded(e) => Recorded(e)')
    <2>1. Cardinality(Debt(e)') = Cardinality(Debt(e)) - 1
      BY <1>2, DebtFinite, FS_RemoveElement
    <2>2. QED
      BY <1>1, <1>2, <2>1, DebtFinite DEF Balance
  <1>3. CASE faults' = faults /\ Debt(e)' \subseteq Debt(e) /\ ~Recorded(e) /\ Recorded(e)'
    BY <1>1, <1>3, DebtFinite, DebtShrinks DEF Balance
  <1>4. CASE faults' = faults + 1 /\ Debt(e)' \subseteq Debt(e) /\ (Recorded(e) => Recorded(e)')
    BY <1>1, <1>4, DebtFinite, DebtShrinks DEF Balance
  <1>5. QED
    BY <1>2, <1>3, <1>4

LEMMA InitDup == Init => DupInv
  <1> SUFFICES ASSUME Init, NEW e \in Events PROVE Balance(e)
    BY DEF DupInv
  <1>1. Debt(e) = {}
    BY DEF Init, Debt
  <1>2. ~Recorded(e) /\ copies[e] = 0 /\ faults = 0
    BY DEF Init, Recorded, NoWork
  <1>3. QED
    BY <1>1, <1>2, FS_EmptySet DEF Balance

\* Steps that send nothing, lose no record and abort no transaction.
LEMMA HarmlessStep ==
  ASSUME IInv, IInv', DupInv,
         \/ \E e \in Events : UseCase(e)
         \/ \E r \in Replicas : Boot(r) \/ Tick(r) \/ Listener(r) \/ SelectFails(r) \/ Select(r)
         \/ UNCHANGED vars
  PROVE  DupInv'
  <1> SUFFICES ASSUME NEW f \in Events PROVE Balance(f)'
    BY DEF DupInv
  <1> USE DEF IInv
  <1>1. faults \in Nat
    BY LimitsAssumption DEF TypeOK
  <1>2. CASE \E e \in Events : UseCase(e)
    <2>1. PICK e \in Events : UseCase(e)
      BY <1>2
    <2>2. UNCHANGED <<copies, faults, pc, work>>
      BY <2>1 DEF UseCase, Write, CommitTx, RollbackTx, replicaVars
    <2>3. status[f] = "published" => status'[f] = "published"
      BY <2>1 DEF UseCase, Write, CommitTx, RollbackTx, RowOfTx, TypeOK
    <2>4. Debt(f)' \subseteq Debt(f) /\ (Recorded(f) => Recorded(f)')
      BY <2>2, <2>3 DEF Debt, Recorded
    <2>5. QED
      BY <1>1, <2>2, <2>4, BalanceKept DEF DupInv
  <1>3. ASSUME NEW r \in Replicas,
               Boot(r) \/ Tick(r) \/ Listener(r) \/ SelectFails(r) \/ Select(r)
        PROVE  Balance(f)'
    <2>1. UNCHANGED <<copies, status>> /\ faults' >= faults
      BY <1>1, <1>3 DEF Boot, Tick, Listener, Listen, ListenReady, ReceiveNotify, ListenDrop,
           SelectFails, Select, Fault, rowVars
    <2>2. CASE Boot(r) \/ Select(r)
      <3>1. pc[r] \in {"down", "idle"} /\ work[r] = NoWork
        BY <2>2 DEF Boot, Select, TakeWake, WorkOnRows
      <3>2. /\ pc'[r] \in {"idle", "batch"}
            /\ \A q \in Replicas : q # r => pc'[q] = pc[q] /\ work'[q] = work[q]
        BY <2>2 DEF Boot, Select, TakeWake, TypeOK
      <3>3. Debt(f)' \subseteq Debt(f)
        BY <3>2 DEF Debt
      <3>4. Recorded(f) => Recorded(f)'
        BY <2>1, <3>1, <3>2 DEF Recorded, NoWork
      <3>5. QED
        BY <2>1, <3>3, <3>4, BalanceKept DEF DupInv
    <2>3. CASE Tick(r) \/ Listener(r) \/ SelectFails(r)
      <3>1. UNCHANGED <<pc, work>>
        BY <2>3 DEF Tick, Listener, Listen, ListenReady, ReceiveNotify, ListenDrop, SelectFails
      <3>2. Debt(f)' \subseteq Debt(f) /\ (Recorded(f) => Recorded(f)')
        BY <2>1, <3>1 DEF Debt, Recorded
      <3>3. QED
        BY <2>1, <3>2, BalanceKept DEF DupInv
    <2>4. QED
      BY <1>3, <2>2, <2>3
  <1>4. CASE UNCHANGED vars
    <2>1. Debt(f)' \subseteq Debt(f) /\ (Recorded(f) => Recorded(f)')
      BY <1>4 DEF vars, Debt, Recorded
    <2>2. QED
      BY <1>1, <1>4, <2>1, BalanceKept DEF vars, DupInv
  <1>5. QED
    BY <1>2, <1>3, <1>4

\* COMMIT and ROLLBACK: staged records become rows, and no debt is left.
LEMMA EndOfBatchStep ==
  ASSUME IInv, IInv', DupInv, NEW r \in Replicas, CommitBatch(r) \/ RollbackBatch(r)
  PROVE  DupInv'
  <1> SUFFICES ASSUME NEW f \in Events PROVE Balance(f)'
    BY DEF DupInv
  <1> USE DEF IInv
  <1>1. faults \in Nat /\ UNCHANGED <<copies, faults>>
    BY LimitsAssumption DEF TypeOK, CommitBatch, RollbackBatch
  <1>2. /\ pc'[r] \in {"idle", "down"}
        /\ \A q \in Replicas : q # r => pc'[q] = pc[q] /\ work'[q] = work[q]
    BY DEF CommitBatch, RollbackBatch, TypeOK
  <1>3. Debt(f)' \subseteq Debt(f)
    BY <1>2 DEF Debt
  <1>4. status[f] = "published" => status'[f] = "published"
    <2>1. CASE RollbackBatch(r)
      BY <2>1 DEF RollbackBatch, rowVars
    <2>2. CASE CommitBatch(r)
      <3>1. status[f] = "published" => work[r][f] = "no"
        BY <2>2 DEF CommitBatch, Locks, Locked
      <3>2. QED
        BY <2>2, <3>1 DEF CommitBatch
    <2>3. QED
      BY <2>1, <2>2
  <1>5. work[r][f] = "published" => status'[f] = "published"
    BY DEF CommitBatch, RollbackBatch, WorkOnRows, Outcomes
  <1>6. Recorded(f) => Recorded(f)'
    BY <1>2, <1>4, <1>5 DEF Recorded
  <1>7. QED
    BY <1>1, <1>3, <1>6, BalanceKept DEF DupInv

\* A lost transaction loses its records and turns its unsent rows into debts.
LEMMA FaultStep ==
  ASSUME IInv, IInv', DupInv, NEW r \in Replicas,
         AbortBatch(r) \/ Shutdown(r) \/ Crash(r)
  PROVE  DupInv'
  <1> SUFFICES ASSUME NEW f \in Events PROVE Balance(f)'
    BY DEF DupInv
  <1> USE DEF IInv
  <1>1. UNCHANGED <<copies, status>> /\ faults' = faults + 1
    BY DEF AbortBatch, Shutdown, Crash, Fault, rowVars
  <1>2. \A q \in Replicas : q # r => pc'[q] = pc[q] /\ work'[q] = work[q]
    BY DEF AbortBatch, Shutdown, Crash, TypeOK
  <1>3. work'[r][f] \in {"todo", "no"} /\ (work'[r][f] = "todo" => work[r][f] = "todo")
    BY DEF AbortBatch, Shutdown, Crash, OnlyTodo, NoWork, TypeOK
  <1>4. Debt(f)' \subseteq Debt(f) \/ (r \notin Debt(f) /\ Debt(f)' = Debt(f) \cup {r})
    BY <1>2 DEF Debt
  <1>5. r \in Debt(f)' => (Recorded(f) => Recorded(f)')
    BY <1>1, <1>2, <1>3 DEF Debt, Recorded
  <1>6. QED
    BY <1>1, <1>4, <1>5, BalancePaid DEF DupInv

\* What marking a row does to the debts and the records.
LEMMA MarkEffect ==
  ASSUME IInv, NEW r \in Replicas, NEW e \in Events, NEW outcome \in Outcomes,
         IsNext(r, e), Mark(r, e, outcome), UNCHANGED <<pc, status>>, NEW f \in Events
  PROVE  /\ Recorded(f) => Recorded(f)'
         /\ Debt(f)' \subseteq Debt(f)
         /\ f # e => Debt(f)' = Debt(f)
         /\ pc[r] # "batch" => r \in Debt(e) /\ Debt(e)' = Debt(e) \ {r}
         /\ pc[r] = "batch" /\ outcome = "published" => ~Recorded(e) /\ Recorded(e)'
  <1> USE DEF IInv
  <1>1. /\ work[r][e] = "todo"
        /\ work'[r][e] = IF pc[r] = "batch" THEN outcome ELSE "no"
        /\ \A q \in Replicas, g \in Events : ~(q = r /\ g = e) => work'[q][g] = work[q][g]
    BY DEF IsNext, Mark, TypeOK
  <1>2. Recorded(f) => Recorded(f)'
    BY <1>1 DEF Recorded
  <1>3. work'[r][e] # "todo"
    BY <1>1 DEF Outcomes
  <1>4. Debt(f)' \subseteq Debt(f) /\ (f # e => Debt(f)' = Debt(f))
    BY <1>1, <1>3 DEF Debt
  <1>5. ASSUME pc[r] # "batch" PROVE r \in Debt(e) /\ Debt(e)' = Debt(e) \ {r}
    BY <1>1, <1>3, <1>5 DEF Debt, IsNext
  <1>6. ASSUME pc[r] = "batch", outcome = "published" PROVE ~Recorded(e) /\ Recorded(e)'
    <2>1. e \in Locked(r)
      BY <1>1, <1>6 DEF Locked
    <2>2. status[e] = "pending"
      BY <2>1 DEF Locks
    <2>3. \A q \in Replicas : work[q][e] # "published"
      <3> SUFFICES ASSUME NEW q \in Replicas, work[q][e] = "published" PROVE FALSE
        OBVIOUS
      <3>1. e \in Locked(q)
        BY DEF WorkOnRows, Outcomes, Locked
      <3>2. QED
        BY <1>1, <2>1, <3>1 DEF Locks
    <2>4. QED
      BY <1>1, <1>6, <2>2, <2>3 DEF Recorded
  <1>7. QED
    BY <1>2, <1>4, <1>5, <1>6

\* A copy sent in a live batch is the record staged for the row, which it
\* locks; one sent after the transaction was lost pays a debt.
LEMMA SendStep ==
  ASSUME IInv, IInv', DupInv, NEW r \in Replicas, PublishRow(r)
  PROVE  DupInv'
  <1> SUFFICES ASSUME NEW f \in Events PROVE Balance(f)'
    BY DEF DupInv
  <1> USE DEF IInv
  <1>0. faults \in Nat /\ Balance(f)
    BY LimitsAssumption DEF TypeOK, DupInv
  <1>1. ASSUME NEW e \in Events, MarkUndecodable(r, e) \/ PublishRefused(r, e) PROVE Balance(f)'
    <2>1. PICK outcome \in Outcomes : Mark(r, e, outcome)
      BY <1>1 DEF MarkUndecodable, PublishRefused, FailureOutcome, Outcomes
    <2>2. IsNext(r, e) /\ UNCHANGED <<pc, status, copies, faults>>
      BY <1>1 DEF MarkUndecodable, PublishRefused, rowVars
    <2>3. Debt(f)' \subseteq Debt(f) /\ (Recorded(f) => Recorded(f)')
      BY <2>1, <2>2, MarkEffect
    <2>4. QED
      BY <1>0, <2>2, <2>3, BalanceKept
  <1>2. ASSUME NEW e \in Events, PublishConfirmed(r, e) PROVE Balance(f)'
    <2>1. /\ IsNext(r, e) /\ Mark(r, e, "published") /\ "published" \in Outcomes
          /\ UNCHANGED <<pc, status, faults>>
      BY <1>2 DEF PublishConfirmed, rowVars, Outcomes
    <2>2. CASE f # e
      <3>1. copies'[f] = copies[f]
        BY <1>2, <2>2 DEF PublishConfirmed, TypeOK
      <3>2. Debt(f)' \subseteq Debt(f) /\ (Recorded(f) => Recorded(f)')
        BY <2>1, MarkEffect
      <3>3. QED
        BY <1>0, <2>1, <3>1, <3>2, BalanceKept
    <2>3. CASE f = e
      <3>1. copies'[e] = copies[e] + 1
        BY <1>2 DEF PublishConfirmed, TypeOK
      <3>2. /\ Recorded(e) => Recorded(e)'
            /\ Debt(e)' \subseteq Debt(e)
            /\ pc[r] # "batch" => r \in Debt(e) /\ Debt(e)' = Debt(e) \ {r}
            /\ pc[r] = "batch" => ~Recorded(e) /\ Recorded(e)'
        BY <2>1, MarkEffect
      <3>3. QED
        BY <1>0, <2>1, <2>3, <3>1, <3>2, BalanceSent
    <2>4. QED
      BY <2>2, <2>3
  <1>3. ASSUME NEW e \in Events, ConfirmLost(r, e) PROVE Balance(f)'
    <2>1. PICK outcome \in Outcomes : Mark(r, e, outcome)
      BY <1>3 DEF ConfirmLost, FailureOutcome, Outcomes
    <2>2. IsNext(r, e) /\ UNCHANGED <<pc, status>> /\ faults' = faults + 1
      BY <1>3 DEF ConfirmLost, rowVars, Fault
    <2>3. Debt(f)' \subseteq Debt(f) /\ (Recorded(f) => Recorded(f)')
      BY <2>1, <2>2, MarkEffect
    <2>4. CASE f # e
      <3>1. copies'[f] = copies[f]
        BY <1>3, <2>4 DEF ConfirmLost, TypeOK
      <3>2. QED
        BY <1>0, <2>2, <2>3, <3>1, BalanceKept
    <2>5. CASE f = e
      <3>1. copies'[f] = copies[f] + 1
        BY <1>3, <2>5 DEF ConfirmLost, TypeOK
      <3>2. QED
        BY <1>0, <2>2, <2>3, <3>1, BalanceSent
    <2>6. QED
      BY <2>4, <2>5
  <1>4. QED
    BY <1>1, <1>2, <1>3 DEF PublishRow

LEMMA NextDup == IInv /\ IInv' /\ DupInv /\ [Next]_vars => DupInv'
  <1> SUFFICES ASSUME IInv, IInv', DupInv, [Next]_vars PROVE DupInv'
    OBVIOUS
  <1>1. ASSUME NEW r \in Replicas, Replica(r) PROVE DupInv'
    <2>1. CASE Boot(r) \/ Tick(r) \/ Listener(r) \/ SelectFails(r) \/ Select(r)
      BY <2>1, HarmlessStep
    <2>2. CASE PublishRow(r)
      BY <2>2, SendStep
    <2>3. CASE CommitBatch(r) \/ RollbackBatch(r)
      BY <2>3, EndOfBatchStep
    <2>4. CASE AbortBatch(r) \/ Shutdown(r) \/ Crash(r)
      BY <2>4, FaultStep
    <2>5. QED
      BY <1>1, <2>1, <2>2, <2>3, <2>4 DEF Replica
  <1>2. CASE (\E e \in Events : UseCase(e)) \/ UNCHANGED vars
    BY <1>2, HarmlessStep
  <1>3. QED
    BY <1>1, <1>2 DEF Next

(* Every copy of an event beyond the first is paid for by a fault, however *)
(* many replicas drain the table: SKIP LOCKED and the transaction around   *)
(* the batch are enough (publishPendingBatch).                             *)
THEOREM NoDuplicateWithoutFault == Spec => []DuplicatesAreFaults
  <1>1. TypeOK /\ DupInv => DuplicatesAreFaults
    <2> SUFFICES ASSUME TypeOK, DupInv, NEW e \in Events PROVE copies[e] <= 1 + faults
      BY DEF DuplicatesAreFaults
    <2>1. copies[e] \in Nat /\ faults \in Nat /\ Cardinality(Debt(e)) \in Nat
      BY LimitsAssumption, DebtFinite DEF TypeOK
    <2>2. QED
      BY <2>1 DEF DupInv, Balance
  <1>2. QED
    BY <1>1, InitDup, NextDup, Invariance, TypeCorrect, PTL DEF Spec
-----------------------------------------------------------------------------
(* No wake-up is lost.  The invariant needs no strengthening beyond the    *)
(* types: a commit marks the NOTIFY of every connection it makes fresh,    *)
(* the listener turns that mark into a signal in one step, and whoever     *)
(* drops a mark or a signal closes the connection or looks at the table.   *)

\* A commit notifies every open connection, wherever its listener stands.
LEMMA UseCaseWakeup ==
  ASSUME TypeOK, NoLostWakeup, NEW e \in Events, UseCase(e)
  PROVE  NoLostWakeup'
  <1>1. CASE Write(e) \/ RollbackTx(e)
    BY <1>1 DEF Write, RollbackTx, replicaVars, NoLostWakeup
  <1>2. CASE CommitTx(e)
    BY <1>2 DEF CommitTx, NoLostWakeup, TypeOK
  <1>3. QED
    BY <1>1, <1>2 DEF UseCase

\* LISTEN comes before the signal, and the signal before the mark is dropped.
LEMMA ListenerWakeup ==
  ASSUME TypeOK, NoLostWakeup, NEW r \in Replicas, Listener(r)
  PROVE  NoLostWakeup'
  <1> USE DEF NoLostWakeup, TypeOK
  <1>1. CASE Listen(r)
    BY <1>1 DEF Listen
  <1>2. CASE ListenReady(r)
    BY <1>2 DEF ListenReady, Signal
  <1>3. CASE ReceiveNotify(r)
    BY <1>3 DEF ReceiveNotify, Signal
  <1>4. CASE ListenDrop(r)
    BY <1>4 DEF ListenDrop
  <1>5. QED
    BY <1>1, <1>2, <1>3, <1>4 DEF Listener

\* The loop spends a signal only to look at the table.
LEMMA LoopWakeup ==
  ASSUME TypeOK, NoLostWakeup, NEW r \in Replicas,
         \/ Boot(r) \/ Tick(r) \/ Select(r) \/ SelectFails(r)
         \/ Shutdown(r) \/ Crash(r)
  PROVE  NoLostWakeup'
  <1> USE DEF NoLostWakeup, TypeOK
  <1>1. CASE Boot(r) \/ Tick(r)
    BY <1>1 DEF Boot, Tick, Signal
  <1>2. CASE Select(r) \/ SelectFails(r)
    BY <1>2 DEF Select, SelectFails, TakeWake
  <1>3. CASE Shutdown(r) \/ Crash(r)
    BY <1>3 DEF Shutdown, Crash, Silence
  <1>4. QED
    BY <1>1, <1>2, <1>3

\* Inside a batch nobody touches the channel or the connection.
LEMMA BatchWakeup ==
  ASSUME NoLostWakeup, NEW r \in Replicas,
         PublishRow(r) \/ AbortBatch(r) \/ CommitBatch(r) \/ RollbackBatch(r)
  PROVE  NoLostWakeup'
  <1>1. UNCHANGED <<wake, listen, note, fresh>>
    BY DEF PublishRow, MarkUndecodable, PublishConfirmed, PublishRefused, ConfirmLost,
         AbortBatch, CommitBatch, RollbackBatch
  <1>2. QED
    BY <1>1 DEF NoLostWakeup

LEMMA NextWakeup == TypeOK /\ NoLostWakeup /\ [Next]_vars => NoLostWakeup'
  <1> SUFFICES ASSUME TypeOK, NoLostWakeup, [Next]_vars PROVE NoLostWakeup'
    OBVIOUS
  <1>1. CASE UNCHANGED vars
    BY <1>1 DEF vars, NoLostWakeup
  <1>2. ASSUME NEW r \in Replicas, Replica(r) PROVE NoLostWakeup'
    BY <1>2, ListenerWakeup, LoopWakeup, BatchWakeup DEF Replica
  <1>3. QED
    BY <1>1, <1>2, UseCaseWakeup DEF Next

(* No wake-up is lost: while a replica listens, a row that became visible  *)
(* since its last look at the table is announced by a NOTIFY or a signal   *)
(* still to come (publisher.go listenOnce, Run's coalescing channel).      *)
THEOREM NoWakeupIsLost == Spec => []NoLostWakeup
  <1>1. Init => NoLostWakeup
    BY DEF Init, NoLostWakeup
  <1>2. QED
    BY <1>1, NextWakeup, TypeCorrect, PTL DEF Spec
-----------------------------------------------------------------------------
(* Refinement.  The promise made for an event is read off its row.         *)

LEMMA InitDelivery == Init => Delivery!Init
  BY DEF Init, Delivery!Init, promise

\* A committed transaction is what the platform owes.
LEMMA UseCaseDelivery ==
  ASSUME IInv, NEW e \in Events, UseCase(e)
  PROVE  [Delivery!Next]_(Delivery!vars)
  <1> USE DEF IInv
  <1>1. CASE Write(e) \/ RollbackTx(e)
    <2>1. UNCHANGED <<status, copies>>
      BY <1>1 DEF Write, RollbackTx
    <2>2. QED
      BY <2>1 DEF Delivery!vars, promise
  <1>2. CASE CommitTx(e)
    <2>1. status[e] = "absent" /\ status' = [status EXCEPT ![e] = "pending"] /\ UNCHANGED copies
      BY <1>2 DEF CommitTx, RowOfTx
    <2>2. promise[e] = "none" /\ promise' = [promise EXCEPT ![e] = "owed"]
      BY <2>1 DEF promise, TypeOK
    <2>3. Delivery!Owe(e)
      BY <2>1, <2>2 DEF Delivery!Owe
    <2>4. QED
      BY <2>3 DEF Delivery!Next
  <1>3. QED
    BY <1>1, <1>2 DEF UseCase

\* Rows in a batch exist, so what is sent is a committed event.
LEMMA PublishDelivery ==
  ASSUME IInv, NEW r \in Replicas, PublishRow(r)
  PROVE  [Delivery!Next]_(Delivery!vars)
  <1> USE DEF IInv
  <1>1. ASSUME NEW e \in Events, MarkUndecodable(r, e) \/ PublishRefused(r, e)
        PROVE  UNCHANGED Delivery!vars
    BY <1>1 DEF MarkUndecodable, PublishRefused, rowVars, Delivery!vars, promise
  <1>2. ASSUME NEW e \in Events, PublishConfirmed(r, e) \/ ConfirmLost(r, e)
        PROVE  Delivery!Next
    <2>1. work[r][e] = "todo" /\ UNCHANGED status /\ copies' = [copies EXCEPT ![e] = @ + 1]
      BY <1>2 DEF PublishConfirmed, ConfirmLost, IsNext, rowVars
    <2>2. status[e] # "absent"
      BY <2>1 DEF WorkOnRows
    <2>3. promise[e] # "none" /\ UNCHANGED promise
      BY <2>1, <2>2 DEF promise, TypeOK, Statuses
    <2>4. Delivery!Deliver(e)
      BY <2>1, <2>3 DEF Delivery!Deliver
    <2>5. QED
      BY <2>4 DEF Delivery!Next
  <1>3. QED
    BY <1>1, <1>2 DEF PublishRow

\* COMMIT settles the rows its transaction holds: they are pending, and the
\* broker has those recorded as published.
LEMMA CommitDelivery ==
  ASSUME IInv, NEW r \in Replicas, CommitBatch(r)
  PROVE  Delivery!Next
  <1> USE DEF IInv
  <1> DEFINE P == {e \in Events : work[r][e] = "published"}
             F == {e \in Events : work[r][e] = "failed"}
  <1>1. \A e \in P \cup F : e \in Locked(r)
    BY DEF CommitBatch, Locked
  <1>2. \A e \in P \cup F : promise[e] = "owed"
    BY <1>1 DEF Locks, promise
  <1>3. \A e \in P : copies[e] > 0
    BY DEF Justified
  <1>4. promise' = [e \in Events |-> IF e \in P THEN "published"
                                    ELSE IF e \in F THEN "failed"
                                    ELSE promise[e]]
    BY DEF CommitBatch, promise
  <1>5. Delivery!Settle(P, F)
    BY <1>2, <1>3, <1>4 DEF Delivery!Settle, CommitBatch
  <1>6. QED
    BY <1>5 DEF Delivery!Next

\* Every other step of a replica leaves the rows and the broker alone.
LEMMA StutterDelivery ==
  ASSUME NEW r \in Replicas,
         \/ Boot(r) \/ Tick(r) \/ Listener(r) \/ SelectFails(r) \/ Select(r)
         \/ AbortBatch(r) \/ RollbackBatch(r) \/ Shutdown(r) \/ Crash(r)
  PROVE  UNCHANGED Delivery!vars
  <1>1. UNCHANGED <<status, copies>>
    BY DEF Boot, Tick, Listener, Listen, ListenReady, ReceiveNotify, ListenDrop, SelectFails,
         Select, AbortBatch, RollbackBatch, Shutdown, Crash, rowVars
  <1>2. QED
    BY <1>1 DEF Delivery!vars, promise

LEMMA NextDelivery == IInv /\ [Next]_vars => [Delivery!Next]_(Delivery!vars)
  <1> SUFFICES ASSUME IInv, [Next]_vars PROVE [Delivery!Next]_(Delivery!vars)
    OBVIOUS
  <1>1. ASSUME NEW r \in Replicas, Replica(r) PROVE [Delivery!Next]_(Delivery!vars)
    BY <1>1, PublishDelivery, CommitDelivery, StutterDelivery DEF Replica
  <1>2. CASE UNCHANGED vars
    BY <1>2 DEF vars, Delivery!vars, promise
  <1>3. QED
    BY <1>1, <1>2, UseCaseDelivery DEF Next

(* The outbox implements EventDelivery: no event reaches the broker before *)
(* the transaction it describes has committed, one recorded as published   *)
(* has reached it, and neither final record is ever revised (writer.go's   *)
(* package comment, publishPendingBatch).                                  *)
THEOREM Implementation == Spec => ImplementsDelivery
  <1>1. QED
    BY InitDelivery, NextDelivery, Invariance, PTL DEF Spec, ImplementsDelivery, Delivery!Spec
=============================================================================
