---------------------------- MODULE Idempotency ----------------------------
(***************************************************************************)
(* The idempotency middleware (backend/internal/platform/idempotency) for  *)
(* one key: HTTP requests that carry the same Idempotency-Key and run      *)
(* concurrently, in any replica, over the key's row in PostgreSQL.  Keys   *)
(* do not interact, so one of them is the whole story.                     *)
(*                                                                         *)
(* Claim is one SQL statement, but not one step: under READ COMMITTED the  *)
(* fallback SELECT reads the snapshot taken when the statement started,    *)
(* while INSERT ... ON CONFLICT acts on the row as it is when its turn     *)
(* comes.  Both moments are actions of their own.                          *)
(***************************************************************************)
EXTENDS Naturals, FiniteSets

CONSTANTS
  Requests,  \* requests sent with the key
  Hash,      \* Hash[r]: what hashRequest makes of method, path and body
  MaxFaults  \* bound on database errors, crashes and clients that go away

ASSUME IdempotencyAssumption ==
  /\ IsFiniteSet(Requests)
  /\ Hash \in [Requests -> Nat]
  /\ MaxFaults \in Nat

VARIABLES
  row,     \* the row of the key in idempotency_keys, or NoRow
  pc,      \* pc[r]: where request r is in Middleware
  snap,    \* snap[r]: the row as r's Claim statement saw it when it started
  result,  \* result[r]: what the handler answered r
  answer,  \* answer[r]: what the middleware did with r
  source,  \* source[r]: the request whose response r was given as a replay
  gone,    \* gone[r]: r's client has left, which cancels its context
  effects, \* requests whose handler took effect since the row is known (history)
  faults   \* number of faults

vars == <<row, pc, snap, result, answer, source, gone, effects, faults>>

Statuses == {"processing", "completed", "failed"}
Rows == [status : Statuses, hash : {Hash[r] : r \in Requests}, by : Requests]
NoRow == [status |-> "absent"]

(* "ok": any status below 500; "large": one whose body is over             *)
(* MaxCachedResponseBytes; "error": a status of 500 or more.               *)
Results == {"ok", "large", "error"}

\* "owner" runs the handler by right of Claim, "open" because Claim failed.
Answers == {"owner", "open", "replay", "reused", "conflict"}

TypeOK ==
  /\ row \in Rows \cup {NoRow}
  /\ pc \in [Requests -> {"new", "claiming", "running", "finishing", "done"}]
  /\ snap \in [Requests -> Rows \cup {NoRow}]
  /\ result \in [Requests -> Results \cup {"none"}]
  /\ answer \in [Requests -> Answers \cup {"none"}]
  /\ source \in [Requests -> SUBSET Requests]
  /\ gone \in [Requests -> BOOLEAN]
  /\ effects \subseteq Requests
  /\ faults \in 0..MaxFaults

Init ==
  /\ row = NoRow
  /\ pc = [r \in Requests |-> "new"]
  /\ snap = [r \in Requests |-> NoRow]
  /\ result = [r \in Requests |-> "none"]
  /\ answer = [r \in Requests |-> "none"]
  /\ source = [r \in Requests |-> {}]
  /\ gone = [r \in Requests |-> FALSE]
  /\ effects = {}
  /\ faults = 0

Fault == faults < MaxFaults /\ faults' = faults + 1
-----------------------------------------------------------------------------
(* Claim.                                                                  *)

\* The statement starts and takes its snapshot.
Arrive(r) ==
  /\ pc[r] = "new"
  /\ pc' = [pc EXCEPT ![r] = "claiming"]
  /\ snap' = [snap EXCEPT ![r] = row]
  /\ UNCHANGED <<row, result, answer, source, gone, effects, faults>>

\* The statement returns, and its snapshot is gone.
Returns(r, to) ==
  /\ pc' = [pc EXCEPT ![r] = to]
  /\ snap' = [snap EXCEPT ![r] = NoRow]

\* Mutant of Claimable: a claim still processing can be taken over.
AnyOpenRow(r) == row # NoRow => (row.status # "completed" /\ row.hash = Hash[r])

\* INSERT ... ON CONFLICT DO UPDATE ... WHERE, on the row as it is now.
Claimable(r) == row # NoRow => (row.status = "failed" /\ row.hash = Hash[r])

ClaimWon(r) ==
  /\ pc[r] = "claiming"
  /\ Claimable(r)
  /\ row' = [status |-> "processing", hash |-> Hash[r], by |-> r]
  /\ answer' = [answer EXCEPT ![r] = "owner"]
  /\ Returns(r, "running")
  /\ UNCHANGED <<result, source, gone, effects, faults>>

\* The fallback SELECT finds a row in the snapshot: handleExisting.
ClaimLost(r) ==
  /\ pc[r] = "claiming"
  /\ ~Claimable(r)
  /\ snap[r] # NoRow
  /\ answer' = [answer EXCEPT ![r] = IF snap[r].hash # Hash[r] THEN "reused"
                                     ELSE IF snap[r].status = "completed" THEN "replay"
                                     ELSE "conflict"]
  /\ source' = [source EXCEPT ![r] = IF answer'[r] = "replay" THEN {snap[r].by} ELSE {}]
  /\ Returns(r, "done")
  /\ UNCHANGED <<row, result, gone, effects, faults>>

\* Claim returns an error and the request is let through.
LetThrough(r) ==
  /\ answer' = [answer EXCEPT ![r] = "open"]
  /\ Returns(r, "running")
  /\ UNCHANGED <<row, result, source, gone, effects>>

\* It finds none: the row is younger than the snapshot (pgx.ErrNoRows).
ClaimNotSeen(r) ==
  /\ pc[r] = "claiming"
  /\ ~Claimable(r)
  /\ snap[r] = NoRow
  /\ LetThrough(r)
  /\ UNCHANGED faults

ClaimFails(r) ==
  /\ pc[r] = "claiming"
  /\ Fault
  /\ LetThrough(r)
-----------------------------------------------------------------------------
(* The handler and finalizeClaim.                                          *)

(* Whatever it answers, the handler may have taken effect or not: a request *)
(* that is refused changes nothing, and a COMMIT whose reply is lost        *)
(* answers 500 after the effect.                                            *)
Handle(r) ==
  /\ pc[r] = "running"
  /\ \E res \in Results : result' = [result EXCEPT ![r] = res]
  /\ effects' \in {effects, effects \cup {r}}
  /\ pc' = [pc EXCEPT ![r] = IF answer[r] = "owner" THEN "finishing" ELSE "done"]
  /\ UNCHANGED <<row, snap, answer, source, gone, faults>>

NothingIsKept(r) == "failed"
ErrorsAreKept(r) == "completed"
\* Complete, or Fail for a server error or a response too large to keep.
FinalStatus(r) == IF result[r] = "ok" THEN "completed" ELSE "failed"

\* The UPDATE names the key only; it runs in the request's context.
Finalize(r) ==
  /\ pc[r] = "finishing"
  /\ ~gone[r]
  /\ row' = IF row = NoRow THEN NoRow
            ELSE [row EXCEPT !.status = FinalStatus(r), !.by = r]
  /\ pc' = [pc EXCEPT ![r] = "done"]
  /\ UNCHANGED <<snap, result, answer, source, gone, effects, faults>>

\* The context is cancelled: the UPDATE fails and the error is logged.
FinalizeFails(r) ==
  /\ pc[r] = "finishing"
  /\ gone[r]
  /\ pc' = [pc EXCEPT ![r] = "done"]
  /\ UNCHANGED <<row, snap, result, answer, source, gone, effects, faults>>
-----------------------------------------------------------------------------
(* Clients, crashes and the clean-up of the worker.                        *)

\* net/http cancels the request's context when its client disconnects.
ClientLeaves(r) ==
  /\ pc[r] \in {"running", "finishing"}
  /\ ~gone[r]
  /\ Fault
  /\ gone' = [gone EXCEPT ![r] = TRUE]
  /\ UNCHANGED <<row, pc, snap, result, answer, source, effects>>

\* The replica dies, or the handler panics: no finalizeClaim.
Crash(r) ==
  /\ pc[r] \in {"running", "finishing"}
  /\ Fault
  /\ pc' = [pc EXCEPT ![r] = "done"]
  /\ UNCHANGED <<row, snap, result, answer, source, gone, effects>>

\* Requests at work by right of Claim.
Owner(r) == answer[r] = "owner" /\ pc[r] \in {"running", "finishing"}

CleanupSparesProcessing ==
  /\ row # NoRow
  /\ row.status # "processing"
  /\ row' = NoRow
  /\ effects' = {}
  /\ UNCHANGED <<pc, snap, result, answer, source, gone, faults>>

(* The row has not been updated for 24 hours, so its owner is long gone:   *)
(* it is deleted whatever its status, and the key is new again.            *)
Cleanup ==
  /\ row # NoRow
  /\ \A r \in Requests : ~Owner(r)
  /\ row' = NoRow
  /\ effects' = {}
  /\ UNCHANGED <<pc, snap, result, answer, source, gone, faults>>
-----------------------------------------------------------------------------
Claim(r) == ClaimWon(r) \/ ClaimLost(r) \/ ClaimNotSeen(r) \/ ClaimFails(r)

Request(r) ==
  \/ Arrive(r) \/ Claim(r) \/ Handle(r)
  \/ Finalize(r) \/ FinalizeFails(r)
  \/ ClientLeaves(r) \/ Crash(r)

Next == (\E r \in Requests : Request(r)) \/ Cleanup

(* A statement returns and a handler ends; the worker's clean-up runs.     *)
Fairness ==
  /\ WF_vars(Cleanup)
  /\ \A r \in Requests : WF_vars(Claim(r)) /\ WF_vars(Handle(r) \/ Finalize(r) \/ FinalizeFails(r))

Spec == Init /\ [][Next]_vars /\ Fairness
-----------------------------------------------------------------------------
(* Properties.                                                             *)

(* However the statements of concurrent requests interleave, one request   *)
(* at most runs by right of Claim, and the row says so until it is done    *)
(* (PostgresStore.Claim).                                                  *)
OneOwner ==
  \A r \in Requests :
    Owner(r) =>
      /\ row # NoRow /\ row.status = "processing" /\ row.hash = Hash[r]
      /\ \A q \in Requests : Owner(q) => q = r

(* Of the requests that took effect since the key is known, one at most     *)
(* held the key and left it so.  The others were let through by a failed    *)
(* Claim, or the middleware itself has released the key after them: a       *)
(* response too large to keep, or a server error answered in spite of the   *)
(* effect (Middleware's fail-open branch, finalizeClaim).                   *)
ExtraEffectsAreAccounted ==
  LET Open == {r \in Requests : answer[r] = "open"}
      Released == {r \in Requests : result[r] \in {"large", "error"}}
  IN Cardinality(effects \ (Open \cup Released)) <= 1

(* A replay is the stored answer of a request with the same method, path   *)
(* and body, which owned the key and succeeded, even when it was read from *)
(* an old snapshot (handleExisting).                                       *)
ReplayIsFaithful ==
  \A r \in Requests : \A q \in source[r] :
    answer[q] = "owner" /\ result[q] = "ok" /\ Hash[q] = Hash[r]

(* As long as its row lives a key keeps its payload, whether its first run *)
(* is pending, done or failed (the WHERE of Claim's ON CONFLICT), and a    *)
(* stored response is never replaced or reopened, not even by a late       *)
(* finalizeClaim, whose UPDATE names only the key.                         *)
KeyIsKept ==
  [][row # NoRow =>
       /\ row.status = "completed" => row' \in {row, NoRow}
       /\ row' # NoRow => row'.hash = row.hash]_vars

(* A key whose owner died or could not write its outcome does not answer   *)
(* "in progress" for ever: the clean-up frees it.                          *)
StuckKeyIsFreed == (row # NoRow /\ row.status = "processing") ~> (row = NoRow \/ row.status # "processing")
=============================================================================
