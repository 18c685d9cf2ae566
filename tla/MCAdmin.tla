------------------------------ MODULE MCAdmin ------------------------------
(* Admin for TLC: two flags, two connections, two dependencies, two tabs   *)
(* of one browser, one text of the branding that fits in a cookie and one  *)
(* that does not, and one toast (each has timers of its own).              *)
EXTENDS Admin

CONSTANTS i1, i2, c1

MCEnvConn == [issuer |-> i1, client |-> c1]
=============================================================================
