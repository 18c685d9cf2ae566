------------------------------- MODULE MCHub -------------------------------
(* TLC instance of Hub: two browsers, and buffers of one message, so that  *)
(* a few notifications fill them.                                          *)
EXTENDS Hub

=============================================================================
