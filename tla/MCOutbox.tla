------------------------------ MODULE MCOutbox ------------------------------
(* TLC instance of Outbox: two events, one of which does not decode, two   *)
(* replicas of which one listens, and batches of two.                      *)
EXTENDS Outbox

=============================================================================
