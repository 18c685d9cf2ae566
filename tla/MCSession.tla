----------------------------- MODULE MCSession -----------------------------
(* Session for TLC: two tabs and the lifetime of a few tokens.              *)
EXTENDS Session
=============================================================================
