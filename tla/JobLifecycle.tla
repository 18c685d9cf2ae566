---------------------------- MODULE JobLifecycle ----------------------------
(***************************************************************************)
(* What the jobs package promises to whoever reads a job, with no          *)
(* transaction, no row lock, no message and no clock in it:                *)
(*                                                                         *)
(*   - a job is run by one worker at a time, and its attempts count the    *)
(*     runs;                                                               *)
(*   - a run ends completed or failed by the word of the worker that has   *)
(*     it, and of nobody else; a failed one may be run again;              *)
(*   - giving a job up is an administrative end, open to anyone at any     *)
(*     time, even under a worker, whose result then no longer counts;      *)
(*   - neither end is ever revised.                                        *)
(*                                                                         *)
(* Module Jobs, the code of internal/platform/jobs, implements it.         *)
(***************************************************************************)
EXTENDS Naturals

CONSTANT Workers

VARIABLES
  status,    \* the status of the job
  attempts,  \* how many times it was run
  runners    \* the workers at work on it

vars == <<status, attempts, runners>>

Init ==
  /\ status = "queued"
  /\ attempts = 0
  /\ runners = {}

\* Worker w takes up a job that nobody runs.
Run(w) ==
  /\ status \in {"queued", "failed"}
  /\ runners = {}
  /\ status' = "processing"
  /\ attempts' = attempts + 1
  /\ runners' = {w}

\* The worker that runs the job records how the run ended.
End(w) ==
  /\ status = "processing"
  /\ runners = {w}
  /\ status' \in {"completed", "failed"}
  /\ runners' = {}
  /\ UNCHANGED attempts

\* It is gone, or was told that its result comes too late.
LetGo ==
  /\ runners # {}
  /\ runners' = {}
  /\ UNCHANGED <<status, attempts>>

\* The job is given up, whoever may be at work on it.
GiveUp ==
  /\ status \in {"queued", "processing", "failed"}
  /\ status' = "dead_letter"
  /\ UNCHANGED <<attempts, runners>>

Next ==
  \/ \E w \in Workers : Run(w) \/ End(w)
  \/ LetGo \/ GiveUp

Spec == Init /\ [][Next]_vars
=============================================================================
