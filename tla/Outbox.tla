------------------------------- MODULE Outbox -------------------------------
(***************************************************************************)
(* The transactional outbox (backend/internal/platform/outbox): use cases  *)
(* that write an event in their own PostgreSQL transaction (Writer.Write   *)
(* inside database.WithTx), and worker replicas whose Publisher drains the *)
(* table in batches, each batch one transaction that locks its rows with   *)
(* FOR UPDATE SKIP LOCKED, publishes them to RabbitMQ one by one and        *)
(* records the outcome of each in the same transaction.                    *)
(*                                                                         *)
(* The broker is seen through messaging.Publisher: a publish is confirmed, *)
(* or it fails and the event is not there, or it fails although the broker *)
(* has taken it (the confirm is lost).  Events are natural numbers ordered *)
(* by created_at, which is stamped before the transaction commits, so rows *)
(* become visible in any order.                                            *)
(***************************************************************************)
EXTENDS Naturals, FiniteSets

CONSTANTS
  Events,       \* events the use cases may write, ordered by created_at
  Undecodable,  \* those whose stored envelope does not decode to an Event
  Replicas,     \* worker processes running Publisher.Run
  Listeners,    \* the replicas that can open a LISTEN connection
  BatchSize,    \* Publisher.batchSize
  MaxAttempts,  \* Publisher.maxAttempts
  MaxFaults     \* bound on crashes, shutdowns, database errors, lost confirms

ASSUME EventsAssumption == Events \subseteq Nat /\ Undecodable \subseteq Events
ASSUME ReplicasAssumption == IsFiniteSet(Replicas) /\ Listeners \subseteq Replicas
ASSUME LimitsAssumption ==
  /\ BatchSize \in Nat \ {0}
  /\ MaxAttempts \in Nat \ {0}
  /\ MaxFaults \in Nat

VARIABLES
  biz,       \* biz[e]: the use case's transaction that writes event e
  status,    \* status[e]: the committed status column of row e
  attempts,  \* attempts[e]: the committed attempts column of row e
  copies,    \* copies[e]: how many times the broker has received e
  pc,        \* pc[r]: where replica r's Run loop is
  work,      \* work[r][e]: what r's open transaction holds on row e
  wake,      \* wake[r]: r's wake channel (capacity one) holds a signal
  listen,    \* listen[r]: r's LISTEN connection
  note,      \* note[r]: a NOTIFY waits on r's LISTEN connection
  fresh,     \* fresh[r]: a row became visible since r last took a wake (history)
  faults     \* how many faults have happened

replicaVars == <<pc, work, wake, listen, note, fresh>>
rowVars == <<biz, status, attempts>>
vars == <<biz, status, attempts, copies, pc, work, wake, listen, note, fresh, faults>>

TxStates == {"none", "open", "committed", "rolledback"}
Statuses == {"absent", "pending", "published", "failed"}
Outcomes == {"published", "retry", "failed"}

(* "batch": the batch's transaction is open; "aborted": PostgreSQL has     *)
(* aborted it (an UPDATE failed, the connection broke) while the loop over *)
(* the rows goes on; "stopping": the same, and Run returns after it        *)
(* because its context is cancelled.                                       *)
Phases == {"down", "idle", "batch", "aborted", "stopping"}

TypeOK ==
  /\ biz \in [Events -> TxStates]
  /\ status \in [Events -> Statuses]
  /\ attempts \in [Events -> 0..MaxAttempts]
  /\ copies \in [Events -> Nat]
  /\ pc \in [Replicas -> Phases]
  /\ work \in [Replicas -> [Events -> {"no", "todo"} \cup Outcomes]]
  /\ wake \in [Replicas -> BOOLEAN]
  /\ listen \in [Replicas -> {"off", "on", "ready"}]
  /\ note \in [Replicas -> BOOLEAN]
  /\ fresh \in [Replicas -> BOOLEAN]
  /\ faults \in 0..MaxFaults

NoWork == [e \in Events |-> "no"]

Init ==
  /\ biz = [e \in Events |-> "none"]
  /\ status = [e \in Events |-> "absent"]
  /\ attempts = [e \in Events |-> 0]
  /\ copies = [e \in Events |-> 0]
  /\ pc = [r \in Replicas |-> "down"]
  /\ work = [r \in Replicas |-> NoWork]
  /\ wake = [r \in Replicas |-> FALSE]
  /\ listen = [r \in Replicas |-> "off"]
  /\ note = [r \in Replicas |-> FALSE]
  /\ fresh = [r \in Replicas |-> FALSE]
  /\ faults = 0

Fault == faults < MaxFaults /\ faults' = faults + 1
-----------------------------------------------------------------------------
(* The use case: Writer.Write within database.WithTx.                      *)

\* Writer.Write inserts the row in the caller's transaction: nobody sees it.
Write(e) ==
  /\ biz[e] = "none"
  /\ biz' = [biz EXCEPT ![e] = "open"]
  /\ UNCHANGED <<status, attempts, copies, replicaVars, faults>>

\* Commit makes the row visible and delivers the NOTIFY to every listener.
CommitTx(e) ==
  /\ biz[e] = "open"
  /\ biz' = [biz EXCEPT ![e] = "committed"]
  /\ status' = [status EXCEPT ![e] = "pending"]
  /\ note' = [r \in Replicas |-> note[r] \/ listen[r] # "off"]
  /\ fresh' = [r \in Replicas |-> r \in Listeners /\ pc[r] # "down"]
  /\ UNCHANGED <<attempts, copies, pc, work, wake, listen, faults>>

\* An error of the use case, a crash of the API, or a failed COMMIT.
RollbackTx(e) ==
  /\ biz[e] = "open"
  /\ biz' = [biz EXCEPT ![e] = "rolledback"]
  /\ UNCHANGED <<status, attempts, copies, replicaVars, faults>>
-----------------------------------------------------------------------------
(* Publisher.Run: the wake channel and what feeds it.                      *)

Signal(r) == wake' = [wake EXCEPT ![r] = TRUE]

\* Run starts (or the worker is restarted) and drains the backlog.
Boot(r) ==
  /\ pc[r] = "down"
  /\ pc' = [pc EXCEPT ![r] = "idle"]
  /\ Signal(r)
  /\ UNCHANGED <<rowVars, copies, work, listen, note, fresh, faults>>

\* The safety ticker, read by the loop between two batches.
Tick(r) ==
  /\ pc[r] = "idle"
  /\ Signal(r)
  /\ UNCHANGED <<rowVars, copies, pc, work, listen, note, fresh, faults>>

\* listenOnce: a dedicated connection executes LISTEN.
Listen(r) ==
  /\ r \in Listeners
  /\ pc[r] \notin {"down", "stopping"}
  /\ listen[r] = "off"
  /\ listen' = [listen EXCEPT ![r] = "on"]
  /\ UNCHANGED <<rowVars, copies, pc, work, wake, note, fresh, faults>>

ListenReadySilently(r) ==
  /\ listen[r] = "on"
  /\ listen' = [listen EXCEPT ![r] = "ready"]
  /\ UNCHANGED <<rowVars, copies, pc, work, wake, note, fresh, faults>>

\* After LISTEN it signals once, for what was notified while nobody listened.
ListenReady(r) ==
  /\ listen[r] = "on"
  /\ listen' = [listen EXCEPT ![r] = "ready"]
  /\ Signal(r)
  /\ UNCHANGED <<rowVars, copies, pc, work, note, fresh, faults>>

\* WaitForNotification returns.
ReceiveNotify(r) ==
  /\ listen[r] = "ready"
  /\ note[r]
  /\ note' = [note EXCEPT ![r] = FALSE]
  /\ Signal(r)
  /\ UNCHANGED <<rowVars, copies, pc, work, listen, fresh, faults>>

\* The LISTEN connection breaks, and what waited on it is gone.
ListenDrop(r) ==
  /\ listen[r] # "off"
  /\ listen' = [listen EXCEPT ![r] = "off"]
  /\ note' = [note EXCEPT ![r] = FALSE]
  /\ UNCHANGED <<rowVars, copies, pc, work, wake, fresh, faults>>
-----------------------------------------------------------------------------
(* Publisher.publishPendingBatch: one transaction per batch.               *)

NoLocks(r) == {}

(* The rows r's transaction holds locked.  PostgreSQL lets go of them when *)
(* the transaction aborts, before the loop over the rows is done.          *)
Locked(r) == {e \in Events : pc[r] = "batch" /\ work[r][e] # "no"}

Available == {e \in Events : status[e] = "pending" /\ \A r \in Replicas : e \notin Locked(r)}

\* ORDER BY created_at LIMIT batchSize
Oldest(S) == {e \in S : Cardinality({f \in S : f < e}) < BatchSize}

TakeWake(r) ==
  /\ pc[r] = "idle"
  /\ wake[r]
  /\ wake' = [wake EXCEPT ![r] = FALSE]
  /\ fresh' = [fresh EXCEPT ![r] = FALSE]

\* SELECT ... FOR UPDATE SKIP LOCKED; with no row the transaction ends here.
Select(r) ==
  /\ TakeWake(r)
  /\ pc' = [pc EXCEPT ![r] = IF Available = {} THEN "idle" ELSE "batch"]
  /\ work' = [work EXCEPT ![r] = [e \in Events |-> IF e \in Oldest(Available) THEN "todo" ELSE "no"]]
  /\ UNCHANGED <<rowVars, copies, listen, note, faults>>

\* BEGIN or the SELECT fails: the error is logged and the wake is spent.
SelectFails(r) ==
  /\ TakeWake(r)
  /\ Fault
  /\ UNCHANGED <<rowVars, copies, pc, work, listen, note>>

\* The next row of the loop, in created_at order.
IsNext(r, e) ==
  /\ pc[r] \in {"batch", "aborted", "stopping"}
  /\ work[r][e] = "todo"
  /\ \A f \in Events : work[r][f] = "todo" => e <= f

\* The UPDATE of a row; it does nothing in an aborted transaction.
Mark(r, e, outcome) ==
  work' = [work EXCEPT ![r][e] = IF pc[r] = "batch" THEN outcome ELSE "no"]

OffByOne(e) == IF attempts[e] + 1 >= MaxAttempts - 1 THEN "failed" ELSE "retry"

\* After a failed publish: one attempt more, and the last one gives up.
FailureOutcome(e) == IF attempts[e] + 1 >= MaxAttempts THEN "failed" ELSE "retry"

\* The envelope does not decode: failed at once, never sent.
MarkUndecodable(r, e) ==
  /\ IsNext(r, e)
  /\ e \in Undecodable
  /\ Mark(r, e, "failed")
  /\ UNCHANGED <<rowVars, copies, pc, wake, listen, note, fresh, faults>>

\* The broker confirms.
PublishConfirmed(r, e) ==
  /\ IsNext(r, e)
  /\ e \notin Undecodable
  /\ copies' = [copies EXCEPT ![e] = @ + 1]
  /\ Mark(r, e, "published")
  /\ UNCHANGED <<rowVars, pc, wake, listen, note, fresh, faults>>

MarkDespiteError(r, e) ==
  /\ IsNext(r, e)
  /\ e \notin Undecodable
  /\ Mark(r, e, "published")
  /\ UNCHANGED <<rowVars, copies, pc, wake, listen, note, fresh, faults>>

RefusalUncounted(r, e) ==
  /\ IsNext(r, e)
  /\ e \notin Undecodable
  /\ Mark(r, e, "no")
  /\ UNCHANGED <<rowVars, copies, pc, wake, listen, note, fresh, faults>>

\* No channel, a nack, a connection that breaks: the broker does not have it.
PublishRefused(r, e) ==
  /\ IsNext(r, e)
  /\ e \notin Undecodable
  /\ Mark(r, e, FailureOutcome(e))
  /\ UNCHANGED <<rowVars, copies, pc, wake, listen, note, fresh, faults>>

\* The broker has it and the confirm never comes.
ConfirmLost(r, e) ==
  /\ IsNext(r, e)
  /\ e \notin Undecodable
  /\ Fault
  /\ copies' = [copies EXCEPT ![e] = @ + 1]
  /\ Mark(r, e, FailureOutcome(e))
  /\ UNCHANGED <<rowVars, pc, wake, listen, note, fresh>>

PublishRow(r) ==
  \E e \in Events :
    \/ MarkUndecodable(r, e)
    \/ PublishConfirmed(r, e)
    \/ PublishRefused(r, e)
    \/ ConfirmLost(r, e)

\* What remains of r's work when its transaction is lost: the loop goes on.
OnlyTodo(r) == [e \in Events |-> IF work[r][e] = "todo" THEN "todo" ELSE "no"]

\* An UPDATE fails (it is only logged), the COMMIT will, or the connection breaks.
AbortBatch(r) ==
  /\ pc[r] = "batch"
  /\ Fault
  /\ pc' = [pc EXCEPT ![r] = "aborted"]
  /\ work' = [work EXCEPT ![r] = OnlyTodo(r)]
  /\ UNCHANGED <<rowVars, copies, wake, listen, note, fresh>>

BatchDone(r) == \A e \in Events : work[r][e] # "todo"

\* COMMIT: every outcome of the batch becomes visible at once.
CommitBatch(r) ==
  /\ pc[r] = "batch"
  /\ BatchDone(r)
  /\ status' = [e \in Events |-> IF work[r][e] \in {"published", "failed"}
                                 THEN work[r][e] ELSE status[e]]
  /\ attempts' = [e \in Events |-> IF work[r][e] \in {"retry", "failed"}
                                   THEN attempts[e] + 1 ELSE attempts[e]]
  /\ work' = [work EXCEPT ![r] = NoWork]
  /\ pc' = [pc EXCEPT ![r] = "idle"]
  /\ UNCHANGED <<biz, copies, wake, listen, note, fresh, faults>>

\* COMMIT of an aborted transaction is a rollback: the rows stay pending.
RollbackBatch(r) ==
  /\ pc[r] \in {"aborted", "stopping"}
  /\ BatchDone(r)
  /\ pc' = [pc EXCEPT ![r] = IF pc[r] = "aborted" THEN "idle" ELSE "down"]
  /\ work' = [work EXCEPT ![r] = NoWork]
  /\ UNCHANGED <<rowVars, copies, wake, listen, note, fresh, faults>>
-----------------------------------------------------------------------------
(* The context of the worker is cancelled, or its process dies.            *)

Silence(r) ==
  /\ wake' = [wake EXCEPT ![r] = FALSE]
  /\ listen' = [listen EXCEPT ![r] = "off"]
  /\ note' = [note EXCEPT ![r] = FALSE]
  /\ fresh' = [fresh EXCEPT ![r] = FALSE]

(* An idle loop returns.  In a batch every statement from here on fails    *)
(* with the cancelled context, but the remaining rows are still published. *)
Shutdown(r) ==
  /\ pc[r] \in {"idle", "batch", "aborted"}
  /\ Fault
  /\ pc' = [pc EXCEPT ![r] = IF pc[r] = "idle" THEN "down" ELSE "stopping"]
  /\ work' = [work EXCEPT ![r] = OnlyTodo(r)]
  /\ Silence(r)
  /\ UNCHANGED <<rowVars, copies>>

Crash(r) ==
  /\ pc[r] # "down"
  /\ Fault
  /\ pc' = [pc EXCEPT ![r] = "down"]
  /\ work' = [work EXCEPT ![r] = NoWork]
  /\ Silence(r)
  /\ UNCHANGED <<rowVars, copies>>
-----------------------------------------------------------------------------
UseCase(e) == Write(e) \/ CommitTx(e) \/ RollbackTx(e)

Listener(r) == Listen(r) \/ ListenReady(r) \/ ReceiveNotify(r) \/ ListenDrop(r)

Replica(r) ==
  \/ Boot(r) \/ Tick(r) \/ Listener(r)
  \/ Select(r) \/ SelectFails(r)
  \/ PublishRow(r) \/ AbortBatch(r) \/ CommitBatch(r) \/ RollbackBatch(r)
  \/ Shutdown(r) \/ Crash(r)

Next == (\E e \in Events : UseCase(e)) \/ (\E r \in Replicas : Replica(r))

(* The runtime schedules the loop, the ticker fires, the orchestrator      *)
(* restarts the worker, and a publish returns.  Nothing is assumed of the  *)
(* use cases, the listener or the broker's answers.                        *)
Fairness ==
  \A r \in Replicas :
    /\ WF_vars(Boot(r))
    /\ WF_vars(Tick(r))
    /\ WF_vars(Select(r))
    /\ WF_vars(PublishRow(r))
    /\ WF_vars(CommitBatch(r))
    /\ WF_vars(RollbackBatch(r))

Spec == Init /\ [][Next]_vars /\ Fairness
-----------------------------------------------------------------------------
(* Properties.                                                             *)

(* A row is given up ("failed") only when its envelope does not decode or  *)
(* MaxAttempts publishes failed and were counted, each in a committed      *)
(* batch: rolled-back attempts never push a row to "failed"                *)
(* (publisher.go publishRow).                                              *)
FailedIsJustified ==
  \A e \in Events : status[e] = "failed" => e \in Undecodable \/ attempts[e] = MaxAttempts

(* Every copy of an event beyond the first is paid for by a fault: without *)
(* crashes, lost confirms and database errors no two replicas publish the  *)
(* same row (the SKIP LOCKED comment of publishPendingBatch).              *)
DuplicatesAreFaults == \A e \in Events : copies[e] <= 1 + faults

(* No wake-up is lost: while a replica listens, a row that became visible  *)
(* since its last look at the table is announced by a pending NOTIFY or a  *)
(* pending wake, whatever the order of LISTEN, NOTIFY and signal           *)
(* (publisher.go listenOnce, Run's coalescing channel).                    *)
NoLostWakeup ==
  \A r \in Replicas : listen[r] = "ready" /\ fresh[r] => wake[r] \/ note[r]

(* The outbox implements what EventDelivery promises: only committed       *)
(* events reach the broker, an event recorded as published has reached it, *)
(* and neither record is ever revised (writer.go's package comment).       *)
promise == [e \in Events |-> IF status[e] = "absent" THEN "none"
                           ELSE IF status[e] = "pending" THEN "owed"
                           ELSE status[e]]
Delivery == INSTANCE EventDelivery WITH Events <- Events,
              promise <- promise, copies <- copies
ImplementsDelivery == Delivery!Spec

(* Every committed event is eventually published or given up: no row stays *)
(* pending for ever behind another one, a lock or a lost notification.     *)
EventuallySettled ==
  \A e \in Events : biz[e] = "committed" ~> status[e] \in {"published", "failed"}
=============================================================================
