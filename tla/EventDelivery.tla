--------------------------- MODULE EventDelivery ---------------------------
(***************************************************************************)
(* What the transactional outbox promises to the rest of the platform,     *)
(* with no replica, no lock, no transaction and no broker protocol in it:  *)
(*                                                                         *)
(*   - an event exists only once the business transaction it describes     *)
(*     has committed, and only such an event ever reaches the broker;      *)
(*   - it reaches the broker any number of times (at least once);          *)
(*   - it is recorded as published only if it has reached the broker, and  *)
(*     that record, like the record that it was given up, is final.        *)
(*                                                                         *)
(* Module Outbox, the code of internal/platform/outbox, implements it.     *)
(***************************************************************************)
EXTENDS Naturals

CONSTANT Events

VARIABLES
  promise,  \* promise[e]: what the platform has committed to for event e
  copies    \* copies[e]: how many times the broker has received e

vars == <<promise, copies>>

Promises == {"none", "owed", "published", "failed"}

TypeOK ==
  /\ promise \in [Events -> Promises]
  /\ copies \in [Events -> Nat]

Init ==
  /\ promise = [e \in Events |-> "none"]
  /\ copies = [e \in Events |-> 0]

\* The business transaction commits, and its event with it.
Owe(e) ==
  /\ promise[e] = "none"
  /\ promise' = [promise EXCEPT ![e] = "owed"]
  /\ UNCHANGED copies

\* The broker receives one more copy of a committed event.
Deliver(e) ==
  /\ promise[e] # "none"
  /\ copies' = [copies EXCEPT ![e] = @ + 1]
  /\ UNCHANGED promise

\* A set of events is recorded as published, and another as given up.
Settle(P, F) ==
  /\ \A e \in P : promise[e] = "owed" /\ copies[e] > 0
  /\ \A e \in F : promise[e] = "owed"
  /\ promise' = [e \in Events |-> IF e \in P THEN "published"
                                  ELSE IF e \in F THEN "failed"
                                  ELSE promise[e]]
  /\ UNCHANGED copies

Next ==
  \/ \E e \in Events : Owe(e) \/ Deliver(e)
  \/ \E P, F \in SUBSET Events : Settle(P, F)

Spec == Init /\ [][Next]_vars
=============================================================================
