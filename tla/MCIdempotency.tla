--------------------------- MODULE MCIdempotency ---------------------------
(* TLC instance of Idempotency: requests a and b repeat one payload, d     *)
(* sends another one with the same key.                                    *)
EXTENDS Idempotency

Payload == [a |-> 1, b |-> 1, d |-> 2]
MCHash == [r \in Requests |-> Payload[r]]

=============================================================================
