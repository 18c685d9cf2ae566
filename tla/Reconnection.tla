---------------------------- MODULE Reconnection ----------------------------
(***************************************************************************)
(* What NotificationClient promises to the page that mounts it, with no    *)
(* ticket, timer, socket or callback in it: at every moment of a mount the *)
(* client is at one place of one loop,                                     *)
(*                                                                         *)
(*   asking --> connecting --> open --> waiting --> asking ...             *)
(*                                                                         *)
(* each failure leads to one wait, longer than the one before unless a     *)
(* connection opened in between, and nothing leads out of the loop but a   *)
(* session that has expired or the unmount, and nothing back into it.      *)
(*                                                                         *)
(* Module Notifications, the code of frontend/src/lib/websocket,           *)
(* implements it.                                                          *)
(***************************************************************************)
EXTENDS Naturals

CONSTANT Backoff(_)  \* the wait after so many failures in a row

VARIABLES
  place,    \* where the client is
  retries,  \* failures in a row
  delay     \* the wait it chose last

vars == <<place, retries, delay>>

Init == place = "asking" /\ retries = 0 /\ delay = 0

Goes(from, to) == place = from /\ place' = to

\* The server lets the page connect.
Connect == Goes("asking", "connecting") /\ UNCHANGED <<retries, delay>>

\* The session is over: nothing more is tried.
Expire == Goes("asking", "expired") /\ UNCHANGED <<retries, delay>>

\* The connection is there, and what failed before is forgotten.
Open == Goes("connecting", "open") /\ retries' = 0 /\ UNCHANGED delay

\* No answer, no connection, or the end of one: a wait for the next try.
Fail ==
  /\ \E from \in {"asking", "connecting", "open"} : Goes(from, "waiting")
  /\ delay' = Backoff(retries)
  /\ retries' = retries + 1

\* The wait is over.
Ask == Goes("waiting", "asking") /\ UNCHANGED <<retries, delay>>

\* The page is left, whatever was under way.
End == place # "ended" /\ place' = "ended" /\ UNCHANGED <<retries, delay>>

Next == Connect \/ Expire \/ Open \/ Fail \/ Ask \/ End

Spec == Init /\ [][Next]_vars
=============================================================================
