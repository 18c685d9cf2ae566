----------------------------- MODULE MCConsumer -----------------------------
(* TLC instances of Consumer over the queues of topology.go: "item"        *)
(* (example.item.created) is bound to both of them, "notice"               *)
(* (notification.created) to the first only.                               *)
EXTENDS Consumer, TLC

Keys == [notice |-> {"websocket"}, item |-> {"websocket", "example"}]
MCBound == [e \in Events |-> Keys[e] \cap Queues]

\* The safety run has "item" only: its two queues differ in nothing but their name.
MCItem == [e \in Events |-> Queues]
QueueSymmetry == Permutations(Queues)

=============================================================================
