------------------------- MODULE IdempotencyProofs -------------------------
(***************************************************************************)
(* Proofs about Idempotency for any number of concurrent requests, any     *)
(* payloads and any number of faults.  The inductive invariant adds to     *)
(* OneOwner what a stored response is worth, in the row and in every       *)
(* snapshot of it that a statement may still hold: its author owned the    *)
(* key, succeeded, and has nothing left to do.                             *)
(***************************************************************************)
EXTENDS Idempotency, FiniteSetTheorems, TLAPS

\* The author of the response stored in v is done, and v is its outcome.
Stored(v) ==
  v # NoRow /\ v.status = "completed" =>
    /\ answer[v.by] = "owner" /\ result[v.by] = "ok" /\ pc[v.by] = "done"
    /\ Hash[v.by] = v.hash

\* Only owners reach finalizeClaim.
Finishers == \A r \in Requests : pc[r] = "finishing" => answer[r] = "owner"

\* Who has not come back from Claim has no answer and was given no replay.
Unanswered == \A r \in Requests : pc[r] \in {"new", "claiming"} => answer[r] = "none"

\* The handler runs by right of Claim or because Claim failed.
Running == \A r \in Requests : pc[r] = "running" => answer[r] \in {"owner", "open"}

Sources ==
  \A r \in Requests : \A q \in source[r] :
    /\ answer[q] = "owner" /\ result[q] = "ok" /\ pc[q] = "done"
    /\ Hash[q] = Hash[r]

IInv ==
  /\ TypeOK
  /\ OneOwner
  /\ Stored(row)
  /\ \A r \in Requests : Stored(snap[r])
  /\ Finishers
  /\ Unanswered
  /\ Running
  /\ Sources
-----------------------------------------------------------------------------
LEMMA InitIInv == Init => IInv
  <1> SUFFICES ASSUME Init PROVE IInv
    OBVIOUS
  <1> USE DEF Init
  <1>1. TypeOK
    BY IdempotencyAssumption DEF TypeOK
  <1>2. OneOwner /\ Stored(row) /\ \A r \in Requests : Stored(snap[r])
    BY DEF OneOwner, Owner, Stored
  <1>3. Finishers /\ Unanswered /\ Running /\ Sources
    BY DEF Finishers, Unanswered, Running, Sources
  <1>4. QED
    BY <1>1, <1>2, <1>3 DEF IInv

\* The authors of stored responses are done: a step of another request, and
\* a request that is not done, leaves the stored responses as they are.
LEMMA AuthorsStay ==
  ASSUME IInv, NEW r \in Requests, pc[r] # "done",
         \A q \in Requests : q # r => /\ pc'[q] = pc[q] /\ answer'[q] = answer[q]
                                      /\ result'[q] = result[q]
  PROVE  /\ \A v \in Rows \cup {NoRow} : Stored(v) => Stored(v)'
         /\ \A s \in Requests : \A q \in source[s] :
              /\ answer'[q] = "owner" /\ result'[q] = "ok" /\ pc'[q] = "done"
              /\ Hash[q] = Hash[s]
  <1>1. \A v \in Rows \cup {NoRow} : v # NoRow => v.by \in Requests
    BY DEF Rows
  <1>2. \A v \in Rows \cup {NoRow} : Stored(v) => Stored(v)'
    BY <1>1 DEF Stored
  <1>3. \A s \in Requests : \A q \in source[s] : q \in Requests
    BY DEF IInv, TypeOK
  <1>4. QED
    BY <1>2, <1>3 DEF IInv, Sources

LEMMA ArriveStep ==
  ASSUME IInv, NEW r \in Requests, Arrive(r)
  PROVE  IInv'
  <1> USE DEF IInv
  <1>1. TypeOK'
    BY DEF Arrive, TypeOK
  <1>2. OneOwner'
    BY DEF Arrive, OneOwner, Owner, TypeOK
  <1>3. \A q \in Requests : q # r => pc'[q] = pc[q] /\ UNCHANGED <<answer, result, source, row>>
    BY DEF Arrive, TypeOK
  <1>4. Stored(row)' /\ \A q \in Requests : Stored(snap[q])'
    BY <1>3, AuthorsStay DEF Arrive, Stored, TypeOK
  <1>5. Finishers' /\ Unanswered' /\ Running'
    BY DEF Arrive, Finishers, Unanswered, Running, TypeOK
  <1>6. Sources'
    BY AuthorsStay DEF Arrive, Sources, TypeOK
  <1>7. QED
    BY <1>1, <1>2, <1>4, <1>5, <1>6

\* The row is claimed: it was free, so nobody owned it.
LEMMA ClaimWonStep ==
  ASSUME IInv, NEW r \in Requests, ClaimWon(r)
  PROVE  IInv'
  <1> USE DEF IInv
  <1>1. /\ row' = [status |-> "processing", hash |-> Hash[r], by |-> r]
        /\ row' \in Rows /\ row' # NoRow
    BY DEF ClaimWon, Rows, Statuses, NoRow
  <1>2. TypeOK'
    BY <1>1 DEF ClaimWon, Returns, TypeOK, Answers
  <1>3. \A q \in Requests : ~Owner(q)
    BY DEF ClaimWon, Claimable, OneOwner
  <1>4. OneOwner'
    <2>1. \A q \in Requests : q # r => ~Owner(q)'
      BY <1>3 DEF ClaimWon, Returns, Owner, TypeOK
    <2>2. QED
      BY <1>1, <2>1 DEF OneOwner, Owner
  <1>5. Stored(row)' /\ \A q \in Requests : Stored(snap[q])'
    BY <1>1, AuthorsStay DEF ClaimWon, Returns, Stored, TypeOK
  <1>6. Finishers' /\ Unanswered' /\ Running'
    BY DEF ClaimWon, Returns, Finishers, Unanswered, Running, TypeOK
  <1>7. Sources'
    BY AuthorsStay DEF ClaimWon, Returns, Sources, TypeOK
  <1>8. QED
    BY <1>2, <1>4, <1>5, <1>6, <1>7

\* Another answer from Claim: a replay repeats what the snapshot stores.
LEMMA ClaimNotWonStep ==
  ASSUME IInv, NEW r \in Requests, ClaimLost(r) \/ ClaimNotSeen(r) \/ ClaimFails(r)
  PROVE  IInv'
  <1> USE DEF IInv
  <1> USE DEF ClaimLost, ClaimNotSeen, ClaimFails, LetThrough, Returns
  <1>1. /\ pc[r] = "claiming" /\ pc'[r] \in {"running", "done"}
        /\ answer'[r] \in Answers /\ answer'[r] # "owner"
        /\ pc'[r] = "running" => answer'[r] = "open"
        /\ UNCHANGED <<row, result, gone, effects>>
        /\ \A q \in Requests : q # r => /\ pc'[q] = pc[q] /\ answer'[q] = answer[q]
                                       /\ snap'[q] = snap[q] /\ source'[q] = source[q]
    BY DEF TypeOK, Answers
  <1>2. snap'[r] = NoRow /\ (source'[r] = source[r] \/ source'[r] = {} \/
          (ClaimLost(r) /\ source'[r] = {snap[r].by} /\ snap[r].status = "completed" /\ snap[r].hash = Hash[r]))
    BY DEF TypeOK
  <1>3. TypeOK'
    <2>1. source' \in [Requests -> SUBSET Requests]
      BY DEF TypeOK, Rows
    <2>2. faults' \in 0..MaxFaults
      BY IdempotencyAssumption DEF TypeOK, Fault
    <2>3. pc' \in [Requests -> {"new", "claiming", "running", "finishing", "done"}]
          /\ snap' \in [Requests -> Rows \cup {NoRow}]
          /\ answer' \in [Requests -> Answers \cup {"none"}]
      BY DEF TypeOK, Answers
    <2>4. QED
      BY <1>1, <2>1, <2>2, <2>3 DEF TypeOK
  <1>4. OneOwner'
    BY <1>1 DEF OneOwner, Owner
  <1>5. Stored(row)' /\ \A q \in Requests : Stored(snap[q])'
    BY <1>1, <1>2, AuthorsStay DEF Stored, TypeOK
  <1>6. Finishers' /\ Unanswered' /\ Running'
    BY <1>1 DEF Finishers, Unanswered, Running
  <1>7. Sources'
    <2> SUFFICES ASSUME NEW s \in Requests, NEW q \in source'[s]
                 PROVE  /\ answer'[q] = "owner" /\ result'[q] = "ok" /\ pc'[q] = "done"
                        /\ Hash[q] = Hash[s]
      BY DEF Sources
    <2>1. CASE q \in source[s]
      BY <1>1, <2>1, AuthorsStay
    <2>2. CASE q \notin source[s]
      <3>1. s = r /\ q = snap[r].by /\ snap[r] # NoRow /\ snap[r].status = "completed" /\ snap[r].hash = Hash[r]
        BY <1>1, <1>2, <2>2
      <3>2. answer[q] = "owner" /\ result[q] = "ok" /\ pc[q] = "done" /\ Hash[q] = Hash[r] /\ q \in Requests
        BY <3>1 DEF Stored, TypeOK, Rows
      <3>3. QED
        BY <1>1, <3>1, <3>2
    <2>3. QED
      BY <2>1, <2>2
  <1>8. QED
    BY <1>3, <1>4, <1>5, <1>6, <1>7

LEMMA HandleStep ==
  ASSUME IInv, NEW r \in Requests, Handle(r)
  PROVE  IInv'
  <1> USE DEF IInv
  <1>1. /\ pc[r] = "running"
        /\ pc'[r] = IF answer[r] = "owner" THEN "finishing" ELSE "done"
        /\ UNCHANGED <<row, snap, answer, source, gone, faults>>
        /\ \A q \in Requests : q # r => pc'[q] = pc[q] /\ result'[q] = result[q]
    BY DEF Handle, TypeOK
  <1>2. TypeOK'
    BY DEF Handle, TypeOK, Results
  <1>3. OneOwner'
    BY <1>1 DEF OneOwner, Owner
  <1>4. /\ \A v \in Rows \cup {NoRow} : Stored(v) => Stored(v)'
        /\ \A s \in Requests : \A q \in source[s] :
             answer'[q] = "owner" /\ result'[q] = "ok" /\ pc'[q] = "done" /\ Hash[q] = Hash[s]
    BY <1>1, AuthorsStay
  <1>5. Stored(row)' /\ \A q \in Requests : Stored(snap[q])'
    BY <1>1, <1>4 DEF Stored, TypeOK
  <1>6. Finishers' /\ Unanswered' /\ Running' /\ Sources'
    BY <1>1, <1>4 DEF Finishers, Unanswered, Running, Sources
  <1>7. QED
    BY <1>2, <1>3, <1>4, <1>5, <1>6

\* The owner writes its outcome: the row it finds is its own.
LEMMA FinalizeStep ==
  ASSUME IInv, NEW r \in Requests, Finalize(r)
  PROVE  IInv'
  <1> USE DEF IInv
  <1>1. /\ pc[r] = "finishing" /\ pc'[r] = "done"
        /\ UNCHANGED <<snap, result, answer, source, gone, effects, faults>>
        /\ \A q \in Requests : q # r => pc'[q] = pc[q]
    BY DEF Finalize, TypeOK
  <1>2. Owner(r) /\ row \in Rows /\ row.status = "processing" /\ row.hash = Hash[r]
    BY <1>1 DEF Finishers, OneOwner, Owner, TypeOK
  <1>3. row' = [row EXCEPT !.status = FinalStatus(r), !.by = r]
    BY <1>2 DEF Finalize, OneOwner
  <1>4. /\ row' \in Rows /\ row'.by = r /\ row'.hash = Hash[r]
        /\ row'.status = "completed" => result[r] = "ok"
    BY <1>2, <1>3 DEF Rows, Statuses, FinalStatus
  <1>5. TypeOK'
    BY <1>1, <1>4 DEF Finalize, TypeOK
  <1>6. OneOwner'
    BY <1>1, <1>2 DEF OneOwner, Owner
  <1>7. Stored(row)'
    BY <1>1, <1>2, <1>4 DEF Stored, Owner
  <1>8. \A q \in Requests : Stored(snap[q])'
    BY <1>1, AuthorsStay DEF Stored, TypeOK
  <1>9. Finishers' /\ Unanswered' /\ Running' /\ Sources'
    BY <1>1, AuthorsStay DEF Finishers, Unanswered, Running, Sources
  <1>10. QED
    BY <1>5, <1>6, <1>7, <1>8, <1>9

\* A request that ends without its finalizeClaim, or loses its client.
LEMMA GiveUpStep ==
  ASSUME IInv, NEW r \in Requests, FinalizeFails(r) \/ ClientLeaves(r) \/ Crash(r)
  PROVE  IInv'
  <1> USE DEF IInv
  <1>1. /\ pc[r] \in {"running", "finishing"} /\ pc'[r] \in {pc[r], "done"}
        /\ UNCHANGED <<row, snap, result, answer, source, effects>>
        /\ \A q \in Requests : q # r => pc'[q] = pc[q]
    BY DEF FinalizeFails, ClientLeaves, Crash, TypeOK
  <1>2. TypeOK'
    <2>1. faults' \in 0..MaxFaults
      BY IdempotencyAssumption DEF FinalizeFails, ClientLeaves, Crash, Fault, TypeOK
    <2>2. /\ pc' \in [Requests -> {"new", "claiming", "running", "finishing", "done"}]
          /\ gone' \in [Requests -> BOOLEAN]
      BY DEF FinalizeFails, ClientLeaves, Crash, TypeOK
    <2>3. QED
      BY <1>1, <2>1, <2>2 DEF TypeOK
  <1>3. OneOwner'
    BY <1>1 DEF OneOwner, Owner
  <1>4. Stored(row)' /\ \A q \in Requests : Stored(snap[q])'
    BY <1>1, AuthorsStay DEF Stored, TypeOK
  <1>5. Finishers' /\ Unanswered' /\ Running' /\ Sources'
    BY <1>1, AuthorsStay DEF Finishers, Unanswered, Running, Sources
  <1>6. QED
    BY <1>2, <1>3, <1>4, <1>5

LEMMA CleanupStep == IInv /\ Cleanup => IInv'
  <1> SUFFICES ASSUME IInv, Cleanup PROVE IInv'
    OBVIOUS
  <1> USE DEF IInv, Cleanup
  <1>1. TypeOK'
    BY DEF TypeOK
  <1>2. OneOwner' /\ Stored(row)'
    BY DEF OneOwner, Owner, Stored
  <1>3. (\A q \in Requests : Stored(snap[q])') /\ Finishers' /\ Unanswered' /\ Running' /\ Sources'
    BY DEF Stored, Finishers, Unanswered, Running, Sources
  <1>4. QED
    BY <1>1, <1>2, <1>3

LEMMA NextIInv == IInv /\ [Next]_vars => IInv'
  <1> SUFFICES ASSUME IInv, [Next]_vars PROVE IInv'
    OBVIOUS
  <1>1. ASSUME NEW r \in Requests, Request(r) PROVE IInv'
    BY <1>1, ArriveStep, ClaimWonStep, ClaimNotWonStep, HandleStep, FinalizeStep, GiveUpStep
       DEF Request, Claim
  <1>2. CASE UNCHANGED vars
    BY <1>2 DEF vars, IInv, TypeOK, OneOwner, Owner, Stored, Finishers, Unanswered, Running, Sources
  <1>3. QED
    BY <1>1, <1>2, CleanupStep DEF Next

\* What no step does to a row that exists.
LEMMA RowStep ==
  ASSUME IInv, [Next]_vars, row # NoRow
  PROVE  /\ row.status = "completed" => row' \in {row, NoRow}
         /\ row' # NoRow => row'.hash = row.hash
  <1>1. ASSUME NEW r \in Requests, Request(r)
        PROVE  /\ row.status = "completed" => row' \in {row, NoRow}
               /\ row' # NoRow => row'.hash = row.hash
    <2>1. CASE ClaimWon(r)
      BY <2>1 DEF ClaimWon, Claimable
    <2>2. CASE Finalize(r)
      <3>1. Owner(r) /\ row.status = "processing" /\ row \in Rows
        BY <2>2 DEF Finalize, IInv, Finishers, OneOwner, Owner, TypeOK
      <3>2. QED
        BY <2>2, <3>1 DEF Finalize, Rows
    <2>3. CASE ~ClaimWon(r) /\ ~Finalize(r)
      BY <1>1, <2>3 DEF Request, Claim, Arrive, ClaimLost, ClaimNotSeen, ClaimFails, LetThrough,
           Handle, FinalizeFails, ClientLeaves, Crash
    <2>4. QED
      BY <2>1, <2>2, <2>3
  <1>2. QED
    BY <1>1 DEF Next, Cleanup, vars
-----------------------------------------------------------------------------
(* How often the handler takes effect.  The effect of an owner whose       *)
(* response is kept holds the row: it is the row's author, and the row is  *)
(* processing or completed, so nobody else wins the claim.                 *)

Holds(p) == row # NoRow /\ row.by = p /\ row.status \in {"processing", "completed"}

\* The row of a request at work by right of Claim names it.
OwnRow == \A r \in Requests : Owner(r) => row.by = r

\* A request takes effect once, and unless it was let through or the key is
\* released after it, its effect holds the row.
EffectsHeld ==
  \A p \in effects :
    /\ pc[p] \in {"finishing", "done"}
    /\ \/ answer[p] = "open"
       \/ result[p] \in {"large", "error"}
       \/ result[p] = "ok" /\ Holds(p)

EffInv == OwnRow /\ EffectsHeld

\* Claim starts nothing, and it is won only when no effect holds the row.
LEMMA ClaimEffects ==
  ASSUME IInv, EffInv, NEW r \in Requests, Arrive(r) \/ Claim(r)
  PROVE  EffInv'
  <1> USE DEF IInv, EffInv, TypeOK
  <1>1. r \notin effects
    BY DEF EffectsHeld, Claim, Arrive, ClaimWon, ClaimLost, ClaimNotSeen, ClaimFails
  <1>2. CASE ClaimWon(r)
    <2>1. \A p \in effects : ~Holds(p)
      BY <1>2 DEF ClaimWon, Claimable, Holds
    <2>2. EffectsHeld'
      BY <1>1, <1>2, <2>1 DEF ClaimWon, Returns, EffectsHeld
    <2>3. OwnRow'
      BY <1>2 DEF ClaimWon, Returns, Claimable, OneOwner, OwnRow, Owner
    <2>4. QED
      BY <2>2, <2>3
  <1>3. CASE Arrive(r) \/ ClaimLost(r) \/ ClaimNotSeen(r) \/ ClaimFails(r)
    <2>1. /\ UNCHANGED <<row, result, effects>>
          /\ \A q \in Requests : q # r => pc'[q] = pc[q] /\ answer'[q] = answer[q]
          /\ ~Owner(r)'
      BY <1>3 DEF Arrive, ClaimLost, ClaimNotSeen, ClaimFails, LetThrough, Returns, Owner, Answers
    <2>2. QED
      BY <1>1, <2>1 DEF OwnRow, Owner, EffectsHeld, Holds
  <1>4. QED
    BY <1>2, <1>3 DEF Claim

\* The handler of an owner takes effect under a row that names it.
LEMMA HandleEffects ==
  ASSUME IInv, EffInv, NEW r \in Requests, Handle(r)
  PROVE  EffInv'
  <1> USE DEF IInv, EffInv, TypeOK
  <1>1. /\ pc[r] = "running" /\ r \notin effects
        /\ UNCHANGED <<row, answer>>
        /\ \A q \in Requests : q # r => pc'[q] = pc[q] /\ result'[q] = result[q]
        /\ pc'[r] \in {"finishing", "done"} /\ (pc'[r] = "finishing" => answer[r] = "owner")
    BY DEF Handle, EffectsHeld
  <1>2. /\ effects' \in {effects, effects \cup {r}}
        /\ result'[r] \in {"ok", "large", "error"}
    BY <1>1 DEF Handle, Results
  <1>3. OwnRow'
    BY <1>1 DEF OwnRow, Owner
  <1>4. answer[r] \in {"owner", "open"}
    BY <1>1 DEF Running
  <1>5. answer[r] = "owner" => Holds(r)
    BY <1>1 DEF OwnRow, Owner, OneOwner, Holds
  <1>6. EffectsHeld'
    BY <1>1, <1>2, <1>4, <1>5 DEF EffectsHeld, Holds
  <1>7. QED
    BY <1>3, <1>6

\* finalizeClaim writes the row of its own request, and releases it only after
\* a server error or a response too large to keep.
LEMMA EndEffects ==
  ASSUME IInv, EffInv, NEW r \in Requests,
         Finalize(r) \/ FinalizeFails(r) \/ ClientLeaves(r) \/ Crash(r)
  PROVE  EffInv'
  <1> USE DEF IInv, EffInv, TypeOK
  <1>1. /\ UNCHANGED <<result, answer, effects>>
        /\ \A q \in Requests : pc'[q] \in {pc[q], "done"}
        /\ \A q \in Requests : q # r => pc'[q] = pc[q]
    BY DEF Finalize, FinalizeFails, ClientLeaves, Crash
  <1>2. CASE Finalize(r)
    <2>1. /\ Owner(r) /\ row \in Rows /\ row.by = r /\ pc'[r] = "done"
          /\ row' = [row EXCEPT !.status = FinalStatus(r), !.by = r]
      BY <1>2 DEF Finalize, Finishers, OneOwner, OwnRow, Owner
    <2>2. row'.by = r /\ row' \in Rows /\ row' # NoRow
          /\ (result[r] = "ok" => row'.status = "completed")
      BY <2>1 DEF Rows, Statuses, FinalStatus, NoRow
    <2>3. \A q \in Requests : ~Owner(q)'
      BY <1>1, <2>1 DEF OneOwner, Owner
    <2>4. EffectsHeld'
      BY <1>1, <2>1, <2>2 DEF EffectsHeld, Holds
    <2>5. QED
      BY <2>3, <2>4 DEF OwnRow
  <1>3. CASE UNCHANGED row
    BY <1>1, <1>3 DEF OwnRow, Owner, EffectsHeld, Holds
  <1>4. QED
    BY <1>2, <1>3 DEF FinalizeFails, ClientLeaves, Crash

LEMMA NextEffects == IInv /\ EffInv /\ [Next]_vars => EffInv'
  <1> SUFFICES ASSUME IInv, EffInv, [Next]_vars PROVE EffInv'
    OBVIOUS
  <1>1. ASSUME NEW r \in Requests, Request(r) PROVE EffInv'
    BY <1>1, ClaimEffects, HandleEffects, EndEffects DEF Request
  <1>2. CASE Cleanup
    BY <1>2 DEF Cleanup, EffInv, OwnRow, Owner, EffectsHeld
  <1>3. CASE UNCHANGED vars
    BY <1>3 DEF vars, EffInv, OwnRow, Owner, EffectsHeld, Holds
  <1>4. QED
    BY <1>1, <1>2, <1>3 DEF Next

\* A set whose elements are all the same has one at most.
LEMMA AtMostOne ==
  ASSUME NEW B, \A p, q \in B : p = q
  PROVE  Cardinality(B) <= 1
  <1>1. CASE B = {}
    BY <1>1, FS_EmptySet
  <1>2. CASE B # {}
    <2>1. PICK p \in B : TRUE
      BY <1>2
    <2>2. B = {p}
      BY <2>1
    <2>3. QED
      BY <2>2, FS_Singleton
  <1>3. QED
    BY <1>1, <1>2

LEMMA EffectsBound == IInv /\ EffInv => ExtraEffectsAreAccounted
  <1> SUFFICES ASSUME IInv, EffInv PROVE ExtraEffectsAreAccounted
    OBVIOUS
  <1> DEFINE A == {r \in Requests : answer[r] = "open"}
                    \cup {r \in Requests : result[r] \in {"large", "error"}}
  <1>1. \A p, q \in effects \ A : p = q
    BY DEF EffInv, EffectsHeld, Holds, IInv, TypeOK
  <1>2. Cardinality(effects \ A) <= 1
    <2> HIDE DEF A
    <2>1. QED
      BY <1>1, AtMostOne
  <1>3. QED
    BY <1>2 DEF ExtraEffectsAreAccounted
-----------------------------------------------------------------------------
THEOREM Invariance == Spec => []IInv
  <1>1. QED
    BY InitIInv, NextIInv, PTL DEF Spec

(* The state of the middleware and of the row is well-typed.               *)
THEOREM TypeCorrect == Spec => []TypeOK
  <1>1. IInv => TypeOK
    BY DEF IInv
  <1>2. QED
    BY <1>1, Invariance, PTL

(* Mutual exclusion: one request at most runs by right of Claim, for any   *)
(* number of requests that race (PostgresStore.Claim).                     *)
THEOREM ClaimIsExclusive == Spec => []OneOwner
  <1>1. IInv => OneOwner
    BY DEF IInv
  <1>2. QED
    BY <1>1, Invariance, PTL

(* A replayed response is the success of an owner with the same request    *)
(* (handleExisting).                                                       *)
THEOREM ReplayIsCorrect == Spec => []ReplayIsFaithful
  <1>1. IInv => ReplayIsFaithful
    BY DEF IInv, Sources, ReplayIsFaithful
  <1>2. QED
    BY <1>1, Invariance, PTL

(* A key keeps its payload, and its response once stored, as long as its   *)
(* row lives (the WHERE of Claim's ON CONFLICT, finalizeClaim).            *)
THEOREM KeyAndResponseAreKept == Spec => KeyIsKept
  <1>1. IInv /\ [Next]_vars =>
          [row # NoRow =>
             /\ row.status = "completed" => row' \in {row, NoRow}
             /\ row' # NoRow => row'.hash = row.hash]_vars
    BY RowStep
  <1>2. QED
    BY <1>1, Invariance, PTL DEF Spec, KeyIsKept

(* However the requests race, crash and lose their clients, one request at *)
(* most takes effect in a life of the key and leaves the key taken: every  *)
(* other one that took effect was let through, or the middleware released  *)
(* the key after its answer (Middleware's fail-open branch, finalizeClaim).*)
THEOREM EffectsAreAccounted == Spec => []ExtraEffectsAreAccounted
  <1>1. Init => EffInv
    BY DEF Init, EffInv, OwnRow, Owner, EffectsHeld
  <1>2. QED
    BY <1>1, NextEffects, EffectsBound, Invariance, PTL DEF Spec
=============================================================================
