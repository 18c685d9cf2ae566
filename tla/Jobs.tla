-------------------------------- MODULE Jobs --------------------------------
(***************************************************************************)
(* An asynchronous job (backend/internal/platform/jobs): the row that      *)
(* Repository.transition changes under SELECT ... FOR UPDATE, the worker   *)
(* deliveries that drive it, the original one and its redeliveries, and    *)
(* the sweeper that buries jobs whose worker is gone.  Jobs do not         *)
(* interact, so one of them is the whole story.                            *)
(*                                                                         *)
(* No module of the repository registers a job handler yet: what a handler *)
(* does with the row is taken from the comments of job.go, repository.go   *)
(* and sweeper.go, and from the retry policy of messaging.Consumer.        *)
(***************************************************************************)
EXTENDS Naturals

CONSTANTS
  Deliveries,  \* messages that drive the job: the original and redeliveries
  Sweeper,     \* the job sweeper of the worker
  MaxTries,    \* deliveries of one message before its retries are exhausted
  MaxWork,     \* the longest timeout of a handler, in units of time
  StaleAfter,  \* config.Jobs.StaleAfter, in the same units
  MaxFaults    \* bound on worker crashes and failed transactions

ASSUME JobsAssumption ==
  /\ Sweeper \notin Deliveries
  /\ MaxTries \in Nat \ {0}
  /\ MaxWork \in Nat /\ StaleAfter \in Nat /\ MaxWork <= StaleAfter
  /\ MaxFaults \in Nat

VARIABLES
  status,    \* the committed status of the job
  attempts,  \* its attempts column
  age,       \* the time since its started_at, None when it is NULL
  tx,        \* tx[a]: the transition that a's open transaction is to make
  pc,        \* pc[d]: where the handler of delivery d is
  busy,      \* busy[d]: for how long d's current attempt has run
  tries,     \* tries[d]: attempts of d that failed
  listed,    \* the sweeper has found the job stale and is about to bury it
  faults     \* number of faults

vars == <<status, attempts, age, tx, pc, busy, tries, listed, faults>>

Actors == Deliveries \cup {Sweeper}
Statuses == {"queued", "processing", "completed", "failed", "dead_letter"}
Terminal == {"completed", "dead_letter"}
None == StaleAfter + 2          \* an age out of range
Ages == 0..(StaleAfter + 1)     \* older than StaleAfter is all that matters
Idle == [to |-> "none", seen |-> "none"]

TypeOK ==
  /\ status \in Statuses
  /\ attempts \in Nat
  /\ age \in Ages \cup {None}
  /\ tx \in [Actors -> [to : Statuses, seen : Statuses] \cup {Idle}]
  /\ pc \in [Deliveries -> {"waiting", "starting", "working", "finishing",
                            "exhausted", "burying", "done"}]
  /\ busy \in [Deliveries -> 0..MaxWork]
  /\ tries \in [Deliveries -> 0..MaxTries]
  /\ listed \in BOOLEAN
  /\ faults \in 0..MaxFaults

Init ==
  /\ status = "queued"
  /\ attempts = 0
  /\ age = None
  /\ tx = [a \in Actors |-> Idle]
  /\ pc = [d \in Deliveries |-> "waiting"]
  /\ busy = [d \in Deliveries |-> 0]
  /\ tries = [d \in Deliveries |-> 0]
  /\ listed = FALSE
  /\ faults = 0

Fault == faults < MaxFaults /\ faults' = faults + 1
-----------------------------------------------------------------------------
(* Repository.transition.                                                  *)

\* The map before dead_letter was made reachable from every open state.
FormerTransition(from, to) ==
  \/ from = "queued" /\ to = "processing"
  \/ from = "processing" /\ to \in {"completed", "failed"}
  \/ from = "failed" /\ to \in {"processing", "dead_letter"}

CanTransition(from, to) ==
  \/ from = "queued" /\ to \in {"processing", "dead_letter"}
  \/ from = "processing" /\ to \in {"completed", "failed", "dead_letter"}
  \/ from = "failed" /\ to \in {"processing", "dead_letter"}

NoRowLock == TRUE

\* SELECT ... FOR UPDATE waits for whoever has locked the row.
RowIsFree == \A a \in Actors : tx[a] = Idle

\* a's transaction locks the row and reads the status.
Lock(a, to) ==
  /\ tx[a] = Idle
  /\ RowIsFree
  /\ tx' = [tx EXCEPT ![a] = [to |-> to, seen |-> status]]
  /\ UNCHANGED <<status, attempts, age>>

Allowed(a) == CanTransition(tx[a].seen, tx[a].to)

\* The UPDATE and the COMMIT; started_at keeps the time of the first attempt.
Apply(a) ==
  /\ Allowed(a)
  /\ status' = tx[a].to
  /\ attempts' = IF tx[a].to = "processing" THEN attempts + 1 ELSE attempts
  /\ age' = IF tx[a].to = "processing" /\ age = None THEN 0 ELSE age
  /\ tx' = [tx EXCEPT ![a] = Idle]

\* The transition is refused, or its transaction fails: rollback.
Abandon(a) ==
  /\ tx[a] # Idle
  /\ IF Allowed(a) THEN Fault ELSE UNCHANGED faults
  /\ tx' = [tx EXCEPT ![a] = Idle]
  /\ UNCHANGED <<status, attempts, age>>
-----------------------------------------------------------------------------
(* A delivery and its handler, under the consumer's retry policy.          *)

\* MarkProcessing, MarkCompleted or MarkFailed, MarkDeadLetter
Wants(d, to) ==
  \/ pc[d] = "waiting" /\ to = "processing"
  \/ pc[d] = "working" /\ to \in {"completed", "failed"}
  \/ pc[d] = "exhausted" /\ to = "dead_letter"

InTx(d) == CASE pc[d] = "waiting" -> "starting"
             [] pc[d] = "working" -> "finishing"
             [] pc[d] = "exhausted" -> "burying"

Mark(d) ==
  \E to \in Statuses :
    /\ Wants(d, to)
    /\ Lock(d, to)
    /\ pc' = [pc EXCEPT ![d] = InTx(d)]
    /\ UNCHANGED <<busy, tries, listed, faults>>

\* The handler fails: another try, or the message is given up.
Retry(d) ==
  /\ tries' = [tries EXCEPT ![d] = @ + 1]
  /\ pc' = [pc EXCEPT ![d] = IF tries[d] + 1 < MaxTries THEN "waiting" ELSE "exhausted"]

Marked(d) ==
  /\ tx[d] # Idle
  /\ Apply(d)
  /\ \/ /\ tx[d].to = "processing"
        /\ pc' = [pc EXCEPT ![d] = "working"]
        /\ UNCHANGED tries
     \/ /\ tx[d].to = "failed"
        /\ Retry(d)
     \/ /\ tx[d].to \in Terminal
        /\ pc' = [pc EXCEPT ![d] = "done"]
        /\ UNCHANGED tries
  /\ busy' = [busy EXCEPT ![d] = 0]
  /\ UNCHANGED <<listed, faults>>

NotMarked(d) ==
  /\ Abandon(d)
  /\ IF pc[d] = "burying"
     THEN pc' = [pc EXCEPT ![d] = "done"] /\ UNCHANGED tries
     ELSE Retry(d)
  /\ busy' = [busy EXCEPT ![d] = 0]
  /\ UNCHANGED listed

\* The worker dies: its transaction is rolled back, and the message comes
\* again or, acknowledged long before, does not.
Crash(d) ==
  /\ pc[d] \in {"starting", "working", "finishing", "burying"}
  /\ Fault
  /\ tx' = [tx EXCEPT ![d] = Idle]
  /\ \E to \in {IF pc[d] = "burying" THEN "exhausted" ELSE "waiting", "done"} :
       pc' = [pc EXCEPT ![d] = to]
  /\ busy' = [busy EXCEPT ![d] = 0]
  /\ UNCHANGED <<status, attempts, age, tries, listed>>
-----------------------------------------------------------------------------
(* sweepOnce.                                                              *)

\* SELECT ... WHERE status = 'processing' AND started_at < cutoff
FindStale ==
  /\ ~listed
  /\ status = "processing"
  /\ age # None /\ age > StaleAfter
  /\ listed' = TRUE
  /\ UNCHANGED <<status, attempts, age, tx, pc, busy, tries, faults>>

\* The job's StaleJobHandler: MarkDeadLetter in a transaction of its own.
Bury ==
  /\ listed
  /\ Lock(Sweeper, "dead_letter")
  /\ UNCHANGED <<pc, busy, tries, listed, faults>>

Buried ==
  /\ tx[Sweeper] # Idle
  /\ Apply(Sweeper)
  /\ listed' = FALSE
  /\ UNCHANGED <<pc, busy, tries, faults>>

NotBuried ==
  /\ Abandon(Sweeper)
  /\ listed' = FALSE
  /\ UNCHANGED <<pc, busy, tries>>
-----------------------------------------------------------------------------
Running(d) == pc[d] \in {"working", "finishing"}

\* Time passes; a handler ends its attempt by its timeout.
Tick ==
  /\ \A d \in Deliveries : Running(d) => busy[d] < MaxWork
  /\ age' = IF age \in 0..StaleAfter THEN age + 1 ELSE age
  /\ busy' = [d \in Deliveries |-> IF Running(d) THEN busy[d] + 1 ELSE busy[d]]
  /\ age' # age \/ busy' # busy
  /\ UNCHANGED <<status, attempts, tx, pc, tries, listed, faults>>

Delivery(d) == Mark(d) \/ Marked(d) \/ NotMarked(d) \/ Crash(d)
Sweep == FindStale \/ Bury \/ Buried \/ NotBuried

Next == (\E d \in Deliveries : Delivery(d)) \/ Sweep \/ Tick

(* The sweeper ticks and transactions end; SELECT ... FOR UPDATE waits in  *)
(* a queue, so nobody waits for the row for ever.  Handlers may hang until *)
(* their timeout, and a delivery need not come.                            *)
Fairness ==
  /\ WF_vars(Tick)
  /\ WF_vars(FindStale) /\ SF_vars(Bury) /\ WF_vars(Buried \/ NotBuried)
  /\ \A d \in Deliveries : SF_vars(Mark(d)) /\ WF_vars(Marked(d) \/ NotMarked(d))

Spec == Init /\ [][Next]_vars /\ Fairness
-----------------------------------------------------------------------------
(* Properties.                                                             *)

(* Redeliveries and the original never work on the job at the same time:   *)
(* MarkProcessing lets one in (the comment on SELECT ... FOR UPDATE in     *)
(* transition).                                                            *)
OneRunner ==
  \A d, e \in Deliveries : Running(d) /\ Running(e) => d = e

(* The row, its locks and the redeliveries implement the life cycle that   *)
(* JobLifecycle promises: each run is begun and ended by one worker, no    *)
(* late result, redelivery or sweep overwrites an end, and attempts counts *)
(* the runs (transition, the comment on validTransitions, sweeper.go).     *)
Lifecycle == INSTANCE JobLifecycle WITH Workers <- Deliveries,
               runners <- {d \in Deliveries : Running(d)}
ImplementsLifecycle == Lifecycle!Spec

(* A job is "processing" for its runner's sake or is taken out of it: no   *)
(* crash leaves it there for ever (SweepStale, with a handler registered). *)
OrphanIsBuried ==
  status = "processing" /\ (\A d \in Deliveries : ~Running(d)) ~> status # "processing"
=============================================================================
