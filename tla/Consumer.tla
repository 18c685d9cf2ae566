------------------------------ MODULE Consumer ------------------------------
(***************************************************************************)
(* The consuming half of backend/internal/platform/messaging: RabbitMQ     *)
(* queues bound to one topic exchange, and for each queue one process that *)
(* runs Consumer.Consume over a messaging.Connection.  Deliveries are      *)
(* handled in their own goroutines (at most Prefetch of them); a failed    *)
(* one waits a backoff and is published again through the exchange with a  *)
(* higher attempt header, then acknowledged.                               *)
(*                                                                         *)
(* The broker is what AMQP promises of it: a message is ready in a queue,  *)
(* or unacknowledged on a channel, and the channel's end gives its         *)
(* unacknowledged messages back to the queue.                              *)
(***************************************************************************)
EXTENDS Naturals, FiniteSets

CONSTANTS
  Queues,      \* queues of topology.go that a process consumes
  Events,      \* events the outbox publishes
  Bound,       \* Bound[e]: the queues bound to the routing key of e
  Undecodable, \* events whose body is not an envelope
  Prefetch,    \* RabbitMQConfig.PrefetchCount
  MaxRetries,  \* RabbitMQConfig.MaxRetries
  MaxFaults,   \* bound on lost connections, refused republishes, crashes
  MaxStops     \* bound on graceful shutdowns

ASSUME ConsumerAssumption ==
  /\ Bound \in [Events -> SUBSET Queues]
  /\ Undecodable \subseteq Events
  /\ Prefetch \in Nat \ {0}
  /\ MaxRetries \in Nat
  /\ MaxFaults \in Nat
  /\ MaxStops \in Nat

VARIABLES
  sent,       \* sent[m]: times the exchange has received message m
  ready,      \* ready[q][m]: copies of message m ready in q
  dlq,        \* dlq[q][e]: copies of e in q's dead-letter queue
  task,       \* task[q][s]: what the goroutine in slot s does with its delivery
  held,       \* held[q][s]: the message it was given
  loop,       \* loop[q]: where q's Consume is
  open,       \* open[q]: the channel it consumes from is open
  conn,       \* conn[q]: the process's Connection is up
  stop,       \* stop[q]: the process's context is cancelled
  handled,    \* handled[q][m]: times the handler of q succeeded with m (history)
  retries,    \* retries[q][m]: times q's consumer put the retry of m on the exchange (history)
  faults,     \* number of faults
  stops       \* number of graceful shutdowns

brokerVars == <<sent, ready, dlq>>
consumeVars == <<loop, open, conn, stop>>
historyVars == <<handled, retries>>
vars == <<sent, ready, dlq, task, held, loop, open, conn, stop,
          handled, retries, faults, stops>>

Slots == 1..Prefetch
Messages == Events \X (0..MaxRetries)   \* a body and its attempt header
NoMessage == <<>>
Tasks == {"free", "handling", "ack", "deadletter", "backoff", "requeue"}

\* The copy that republish sends: the attempt header counts one more.
Retry(m) == <<m[1], m[2] + 1>>

TypeOK ==
  /\ sent \in [Messages -> Nat]
  /\ ready \in [Queues -> [Messages -> Nat]]
  /\ dlq \in [Queues -> [Events -> Nat]]
  /\ task \in [Queues -> [Slots -> Tasks]]
  /\ held \in [Queues -> [Slots -> Messages \cup {NoMessage}]]
  /\ \A q \in Queues, s \in Slots :
       /\ held[q][s] = NoMessage <=> task[q][s] = "free"
       /\ task[q][s] = "backoff" => Retry(held[q][s]) \in Messages
  /\ loop \in [Queues -> {"down", "reading", "waiting", "returned"}]
  /\ open \in [Queues -> BOOLEAN]
  /\ conn \in [Queues -> BOOLEAN]
  /\ stop \in [Queues -> BOOLEAN]
  /\ handled \in [Queues -> [Messages -> Nat]]
  /\ retries \in [Queues -> [Messages -> Nat]]
  /\ faults \in 0..MaxFaults
  /\ stops \in 0..MaxStops

Init ==
  /\ sent = [m \in Messages |-> 0]
  /\ ready = [q \in Queues |-> [m \in Messages |-> 0]]
  /\ dlq = [q \in Queues |-> [e \in Events |-> 0]]
  /\ task = [q \in Queues |-> [s \in Slots |-> "free"]]
  /\ held = [q \in Queues |-> [s \in Slots |-> NoMessage]]
  /\ loop = [q \in Queues |-> "down"]
  /\ open = [q \in Queues |-> FALSE]
  /\ conn = [q \in Queues |-> FALSE]
  /\ stop = [q \in Queues |-> FALSE]
  /\ handled = [q \in Queues |-> [m \in Messages |-> 0]]
  /\ retries = [q \in Queues |-> [m \in Messages |-> 0]]
  /\ faults = 0
  /\ stops = 0

Fault == faults < MaxFaults /\ faults' = faults + 1
-----------------------------------------------------------------------------
(* The exchange and the queues.                                            *)

(* ready once message m went through the exchange: a copy in every queue   *)
(* bound to the routing key of its event.                                  *)
Routed(m) ==
  [q \in Queues |-> IF q \in Bound[m[1]] THEN [ready[q] EXCEPT ![m] = @ + 1] ELSE ready[q]]

\* Message m goes through the exchange.
Send(m) ==
  /\ sent' = [sent EXCEPT ![m] = @ + 1]
  /\ ready' = Routed(m)

\* Events the outbox has published.
Published == {e \in Events : sent[<<e, 0>>] > 0}

(* The outbox publishes an event: its attempt header is zero.  A lost      *)
(* confirm, or a crash before its record commits, makes it publish again.  *)
Publish(e) ==
  /\ IF e \in Published THEN Fault ELSE UNCHANGED faults
  /\ Send(<<e, 0>>)
  /\ UNCHANGED <<dlq, task, held, consumeVars, historyVars, stops>>

\* The slots of q whose message the broker counts as unacknowledged.
Unacked(q) == {s \in Slots : open[q] /\ task[q][s] # "free"}

\* The end of q's channel: its unacknowledged messages are ready again.
GiveBack(q) ==
  ready' = [ready EXCEPT ![q] =
              [m \in Messages |-> ready[q][m] + Cardinality({s \in Unacked(q) : held[q][s] = m})]]
-----------------------------------------------------------------------------
(* Consume: the loop over deliveries.                                      *)

\* The process starts: Connect, then Consume subscribes the queue.
Start(q) ==
  /\ loop[q] = "down"
  /\ loop' = [loop EXCEPT ![q] = "reading"]
  /\ open' = [open EXCEPT ![q] = TRUE]
  /\ conn' = [conn EXCEPT ![q] = TRUE]
  /\ UNCHANGED <<brokerVars, task, held, stop, historyVars, faults, stops>>

\* The connection is lost between Connect and Consume, which gives up.
StartFails(q) ==
  /\ loop[q] = "down"
  /\ Fault
  /\ loop' = [loop EXCEPT ![q] = "returned"]
  /\ UNCHANGED <<brokerVars, task, held, open, conn, stop, historyVars, stops>>

RequeueUndecodable(m) == IF m[1] \in Undecodable THEN "requeue" ELSE "handling"

\* A body that is no envelope goes to the DLQ at once.
FirstTask(m) == IF m[1] \in Undecodable THEN "deadletter" ELSE "handling"

(* A delivery gets a goroutine; the select may still take one after the    *)
(* context was cancelled.                                                  *)
Deliver(q) ==
  \E s \in Slots, m \in Messages :
    /\ loop[q] = "reading" /\ open[q]
    /\ task[q][s] = "free"
    /\ ready[q][m] > 0
    /\ ready' = [ready EXCEPT ![q][m] = @ - 1]
    /\ held' = [held EXCEPT ![q][s] = m]
    /\ task' = [task EXCEPT ![q][s] = FirstTask(m)]
    /\ UNCHANGED <<sent, dlq, consumeVars, historyVars, faults, stops>>

LeaveOnlyWhenClosed(q) ==
  /\ loop[q] = "reading"
  /\ ~open[q]
  /\ loop' = [loop EXCEPT ![q] = "waiting"]
  /\ UNCHANGED <<brokerVars, task, held, open, conn, stop, historyVars, faults, stops>>

\* ctx.Done, or the deliveries channel was closed.
LeaveLoop(q) ==
  /\ loop[q] = "reading"
  /\ stop[q] \/ ~open[q]
  /\ loop' = [loop EXCEPT ![q] = "waiting"]
  /\ UNCHANGED <<brokerVars, task, held, open, conn, stop, historyVars, faults, stops>>

\* The channel is closed although goroutines still work on its deliveries.
ReturnAtOnce(q) ==
  /\ loop[q] = "waiting"
  /\ loop' = [loop EXCEPT ![q] = "returned"]
  /\ open' = [open EXCEPT ![q] = FALSE]
  /\ GiveBack(q)
  /\ UNCHANGED <<sent, dlq, task, held, conn, stop, historyVars, faults, stops>>

\* wg.Wait returns: the channel is closed and Consume returns nil.
Return(q) ==
  /\ loop[q] = "waiting"
  /\ \A s \in Slots : task[q][s] = "free"
  /\ loop' = [loop EXCEPT ![q] = "returned"]
  /\ open' = [open EXCEPT ![q] = FALSE]
  /\ UNCHANGED <<brokerVars, task, held, conn, stop, historyVars, faults, stops>>
-----------------------------------------------------------------------------
(* handleDelivery, in a goroutine of its own.                              *)

Goes(q, s, from, to) ==
  /\ task[q][s] = from
  /\ task' = [task EXCEPT ![q][s] = to]

HandlerSucceeds(q, s) ==
  /\ Goes(q, s, "handling", "ack")
  /\ handled' = [handled EXCEPT ![q][held[q][s]] = @ + 1]
  /\ UNCHANGED <<brokerVars, held, consumeVars, retries, faults, stops>>

GivesUpEarly(m) == m[2] + 1 >= MaxRetries

\* attempt > maxRetries
Exhausted(m) == m[2] + 1 > MaxRetries

HandlerFails(q, s) ==
  /\ Goes(q, s, "handling", IF Exhausted(held[q][s]) THEN "deadletter" ELSE "backoff")
  /\ UNCHANGED <<brokerVars, held, consumeVars, historyVars, faults, stops>>

\* ctx.Done during the backoff: the delivery goes back as it was.
BackoffCancelled(q, s) ==
  /\ stop[q]
  /\ Goes(q, s, "backoff", "requeue")
  /\ UNCHANGED <<brokerVars, held, consumeVars, historyVars, faults, stops>>

\* The broker has the copy with the higher attempt.
Resend(q, m) ==
  /\ Send(Retry(m))
  /\ retries' = [retries EXCEPT ![q][m] = @ + 1]

\* The backoff elapses, and republish is confirmed, on a channel of its own
\* and whatever becomes of ctx meanwhile.
Republished(q, s) ==
  /\ conn[q]
  /\ Goes(q, s, "backoff", "ack")
  /\ Resend(q, held[q][s])
  /\ UNCHANGED <<dlq, held, consumeVars, handled, faults, stops>>

\* The error of republish is dropped, and the delivery acknowledged.
RefusalIgnored(q, s) ==
  /\ Goes(q, s, "backoff", "ack")
  /\ UNCHANGED <<brokerVars, held, consumeVars, historyVars, faults, stops>>

\* It fails: no connection, or a nack.
RepublishRefused(q, s) ==
  /\ IF conn[q] THEN Fault ELSE UNCHANGED faults
  /\ Goes(q, s, "backoff", "requeue")
  /\ UNCHANGED <<brokerVars, held, consumeVars, historyVars, stops>>

\* It fails after the broker took the copy: the confirm timed out.
RepublishConfirmLost(q, s) ==
  /\ conn[q]
  /\ Fault
  /\ Goes(q, s, "backoff", "requeue")
  /\ Resend(q, held[q][s])
  /\ UNCHANGED <<dlq, held, consumeVars, handled, stops>>

(* The Ack or Nack that ends the goroutine, its error ignored.  On a dead  *)
(* channel it does nothing: the broker already took the message back.      *)
Settle(q, s) ==
  LET m == held[q][s] IN
  /\ task[q][s] \in {"ack", "deadletter", "requeue"}
  /\ dlq' = IF open[q] /\ task[q][s] = "deadletter" THEN [dlq EXCEPT ![q][m[1]] = @ + 1] ELSE dlq
  /\ ready' = IF open[q] /\ task[q][s] = "requeue" THEN [ready EXCEPT ![q][m] = @ + 1] ELSE ready
  /\ task' = [task EXCEPT ![q][s] = "free"]
  /\ held' = [held EXCEPT ![q][s] = NoMessage]
  /\ UNCHANGED <<sent, consumeVars, historyVars, faults, stops>>
-----------------------------------------------------------------------------
(* The connection and the process.                                         *)

ConnectionLost(q) ==
  /\ conn[q]
  /\ Fault
  /\ conn' = [conn EXCEPT ![q] = FALSE]
  /\ open' = [open EXCEPT ![q] = FALSE]
  /\ GiveBack(q)
  /\ UNCHANGED <<sent, dlq, task, held, loop, stop, historyVars, stops>>

\* superviseReconnect dials again; nobody consumes on the new connection.
Reconnect(q) ==
  /\ loop[q] # "down"
  /\ ~conn[q]
  /\ conn' = [conn EXCEPT ![q] = TRUE]
  /\ UNCHANGED <<brokerVars, task, held, loop, open, stop, historyVars, faults, stops>>

\* SIGTERM cancels the context.
Stop(q) ==
  /\ loop[q] # "down" /\ ~stop[q]
  /\ stops < MaxStops
  /\ stops' = stops + 1
  /\ stop' = [stop EXCEPT ![q] = TRUE]
  /\ UNCHANGED <<brokerVars, task, held, loop, open, conn, historyVars, faults>>

Down(q) ==
  /\ loop' = [loop EXCEPT ![q] = "down"]
  /\ open' = [open EXCEPT ![q] = FALSE]
  /\ conn' = [conn EXCEPT ![q] = FALSE]
  /\ stop' = [stop EXCEPT ![q] = FALSE]

\* background.Wait returns and the process ends.
Exit(q) ==
  /\ loop[q] = "returned" /\ stop[q]
  /\ Down(q)
  /\ UNCHANGED <<brokerVars, task, held, historyVars, faults, stops>>

Crash(q) ==
  /\ loop[q] # "down"
  /\ Fault
  /\ Down(q)
  /\ GiveBack(q)
  /\ task' = [task EXCEPT ![q] = [s \in Slots |-> "free"]]
  /\ held' = [held EXCEPT ![q] = [s \in Slots |-> NoMessage]]
  /\ UNCHANGED <<sent, dlq, historyVars, stops>>
-----------------------------------------------------------------------------
Handler(q, s) == HandlerSucceeds(q, s) \/ HandlerFails(q, s)
Republish(q, s) == Republished(q, s) \/ RepublishRefused(q, s) \/ RepublishConfirmLost(q, s)

\* What handleDelivery does by itself once the handler has returned.
Aftermath(q, s) == BackoffCancelled(q, s) \/ Republish(q, s) \/ Settle(q, s)

Goroutine(q, s) == Handler(q, s) \/ Aftermath(q, s)

Consume(q) == Start(q) \/ StartFails(q) \/ Deliver(q) \/ LeaveLoop(q) \/ Return(q)

Process(q) == ConnectionLost(q) \/ Reconnect(q) \/ Stop(q) \/ Exit(q) \/ Crash(q)

Next ==
  \/ \E e \in Events : Publish(e)
  \/ \E q \in Queues : Consume(q) \/ Process(q)
  \/ \E q \in Queues, s \in Slots : Goroutine(q, s)

(* A timer fires, the broker delivers and answers, the supervisor's dial   *)
(* succeeds in the end and a stopped process is started again.  Nothing is *)
(* assumed of a handler, not even that it returns: NotificationHandler may *)
(* wait in Hub.Broadcast for ever (FullBufferHangs of HubProofs).          *)
Fairness ==
  \A q \in Queues :
    /\ WF_vars(Start(q)) /\ WF_vars(Deliver(q)) /\ WF_vars(LeaveLoop(q))
    /\ WF_vars(Return(q)) /\ WF_vars(Reconnect(q)) /\ WF_vars(Exit(q))
    /\ \A s \in Slots : WF_vars(Aftermath(q, s))

Spec == Init /\ [][Next]_vars /\ Fairness
-----------------------------------------------------------------------------
(* Properties.                                                             *)

\* q still has a copy of e that the broker will deliver again.
Kept(q, e) ==
  \/ \E m \in Messages : m[1] = e /\ ready[q][m] > 0
  \/ \E s \in Unacked(q) : held[q][s][1] = e

\* The handler of q succeeded with e, or e is in q's dead-letter queue.
Done(q, e) == (\E m \in Messages : m[1] = e /\ handled[q][m] > 0) \/ dlq[q][e] > 0

(* At least once: whatever is lost between handler, republish and ack, a   *)
(* published event is kept by each queue bound to it until the handler     *)
(* succeeded or it is in the DLQ (Consumer.handleDelivery).                *)
NoEventLost == \A e \in Published : \A q \in Bound[e] : Kept(q, e) \/ Done(q, e)

(* A queue ends each copy it is sent once, by a success of its handler or  *)
(* by a retry, and a fault repeats no more than the deliveries that were   *)
(* in flight: graceful shutdowns and the retries of other queues repeat    *)
(* nothing by themselves.  Summed over the attempts of an event, whose     *)
(* later ones are all retries, a queue's handler succeeds once for each    *)
(* publication and once for each retry of another queue's consumer, apart  *)
(* from faults (the comment of handleDelivery on why the republish ignores *)
(* the cancelled context).                                                 *)
NoSpuriousDuplicate ==
  \A q \in Queues, m \in Messages :
    handled[q][m] + retries[q][m] <= sent[m] + Prefetch * faults

(* An event reaches a DLQ only if it is no envelope, or after each of its  *)
(* MaxRetries retries went through the exchange: sent by this queue or, a  *)
(* retry being routed to every queue of its key, by another one            *)
(* (handleDelivery, republish).                                            *)
DeadLetterIsJustified ==
  \A q \in Queues, e \in Events :
    dlq[q][e] > 0 => e \in Undecodable \/ \A k \in 1..MaxRetries : sent[<<e, k>>] > 0

\* One call of the handler of q never returns.
HandlerHangs(q) == \E s \in Slots : <>[](task[q][s] = "handling")

(* A graceful shutdown ends, and only a handler that never returns can     *)
(* hold it up: no backoff, republish or settlement keeps Consume from      *)
(* returning (Consume, cmd/api main.go background.Wait).                   *)
StopEnds == \A q \in Queues : HandlerHangs(q) \/ (stop[q] ~> loop[q] = "down")

(* Every published event is handled or dead-lettered by each queue bound   *)
(* to it, unless the connection was lost and Consume returned while the    *)
(* process lives on, or a handler of the queue never returns.              *)
EventuallyDone ==
  \A q \in Queues : HandlerHangs(q) \/
    \A e \in Events :
      e \in Published /\ q \in Bound[e] ~> Done(q, e) \/ (loop[q] = "returned" /\ ~stop[q])

(* events.EventConsumer blocks until the context is cancelled, and cmd/api  *)
(* runs the consumer for the whole life of the process: a consumer that     *)
(* loses its connection consumes again once the supervisor has dialled.     *)
ConsumerOutlivesConnection ==
  \A q \in Queues : loop[q] = "reading" /\ ~open[q] ~> open[q] \/ stop[q]
=============================================================================
