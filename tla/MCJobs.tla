------------------------------- MODULE MCJobs -------------------------------
(* TLC instance of Jobs: a message and one redelivery of it.               *)
EXTENDS Jobs

=============================================================================
