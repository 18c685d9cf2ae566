-------------------------- MODULE MCNotifications --------------------------
(* Notifications for TLC: a few sockets, failures and broadcasts, and an    *)
(* event of every kind, any of which may be broadcast again.                *)
EXTENDS Notifications

MCKindOf == <<"job", "status", "statusInvalid", "other", "garbage">>
MCEvents == DOMAIN MCKindOf
=============================================================================
