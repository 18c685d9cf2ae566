------------------------- MODULE NotificationsProofs -------------------------
(***************************************************************************)
(* Proofs about Notifications for any number of sockets, failures and      *)
(* messages.  The inductive invariant IInv says at which of four points    *)
(* the one chain of attempts is (a ticket, a timer, a socket, or over),    *)
(* and how many failures the backoff has counted there.                    *)
(***************************************************************************)
EXTENDS Notifications, FiniteSetTheorems, SequenceTheorems, TLAPS

Over == {"none", "closed"}
NoneLive == \A s \in Sockets : socket[s] \in Over
OneLive ==
  /\ current \in Sockets /\ socket[current] \notin Over
  /\ \A s \in Sockets \ {current} : socket[s] \in Over

\* The four points, with what the client says of itself there.
Asking == tickets = 1 /\ timers = 0 /\ NoneLive /\ state = "connecting"
Retrying == tickets = 0 /\ timers = 1 /\ NoneLive /\ state \in {"connecting", "closed"}
Linked == tickets = 0 /\ timers = 0 /\ OneLive /\ state \in {"connecting", "open"}
Expired == tickets = 0 /\ timers = 0 /\ NoneLive /\ state = "unauthorized"

\* After disconnect().
Ended ==
  /\ timers = 0
  /\ \A s \in Sockets : socket[s] \notin {"connecting", "open", "failing"}

\* A socket whose end the client has not heard of yet: a failure not counted.
Breaking == \E s \in Sockets : socket[s] \in {"failing", "closing"}
Counted ==
  /\ opened <= faults
  /\ attempt + opened + (IF Breaking THEN 1 ELSE 0) = faults
  /\ timers > 0 => attempt > 0 /\ delay = defaultBackoff(attempt - 1)

Point ==
  IF stopped THEN Ended
  ELSE (Asking \/ Retrying \/ Linked \/ Expired) /\ Counted

IInv == TypeOK /\ Point

-----------------------------------------------------------------------------
(* The operations of the client.                                            *)

LEMMA SchedulesOnce ==
  ASSUME TypeOK, ~stopped, attempt < MaxFaults, scheduleReconnect
  PROVE  /\ attempt' = attempt + 1 /\ timers' = timers + 1
         /\ delay' = defaultBackoff(attempt)
         /\ delay' \in {0} \cup {defaultBackoff(n) : n \in 0..MaxFaults}
<1>1. /\ attempt' = attempt + 1 /\ timers' = timers + 1
      /\ delay' = defaultBackoff(attempt)
  BY DEF scheduleReconnect
<1>2. attempt \in 0..MaxFaults
  BY NotificationsAssumption DEF TypeOK
<1> HIDE DEF defaultBackoff
<1> QED
  BY <1>1, <1>2

\* Operations on the stream and the bell do not touch the link.
LEMMA FeedKeeps ==
  ASSUME IInv, UNCHANGED link, TypeOK'
  PROVE  IInv'
BY DEF IInv, link, Point, Ended, Asking, Retrying, Linked, Expired, NoneLive, OneLive,
       Counted, Breaking, Over

LEMMA OpenKeeps ==
  ASSUME IInv, open
  PROVE  IInv'
<1>1. ~stopped /\ Retrying /\ Counted
  BY DEF IInv, Point, Ended, open, Asking, Linked, Expired
<1>2. /\ timers' = timers - 1 /\ tickets' = tickets + 1 /\ state' = "connecting"
      /\ UNCHANGED <<stopped, attempt, delay, current, socket, channel, opened, feed, faults>>
  BY <1>1 DEF open
<1>3. TypeOK'
  BY <1>1, <1>2 DEF IInv, TypeOK, feed, ConnectionState, Retrying
<1>4. Asking'
  BY <1>1, <1>2 DEF Asking, Retrying, NoneLive
<1>5. Counted'
  BY <1>1, <1>2 DEF Counted, Breaking, Retrying
<1> QED
  BY <1>1, <1>2, <1>3, <1>4, <1>5 DEF IInv, Point
\* A ticket that makes a socket, or comes too late to make one.
LEMMA GrantKeeps ==
  ASSUME IInv, TicketGranted
  PROVE  IInv'
<1>1. CASE stopped
  BY <1>1 DEF IInv, TypeOK, Point, Ended, TicketGranted, feed
<1>2. CASE ~stopped
  <2>1. Asking /\ Counted
    BY <1>2 DEF IInv, Point, TicketGranted, Retrying, Linked, Expired
  <2>2. PICK s \in Sockets : /\ socket[s] = "none"
                             /\ socket' = [socket EXCEPT ![s] = "connecting"]
                             /\ current' = s
    BY <1>2 DEF TicketGranted
  <2>3. tickets' = tickets - 1
        /\ UNCHANGED <<stopped, attempt, timers, delay, channel, state, opened, feed, faults>>
    BY DEF TicketGranted
  <2>4. s \in 1..MaxSockets /\ s # 0
    BY NotificationsAssumption DEF Sockets
  <2>5. TypeOK'
    BY <2>1, <2>2, <2>3, <2>4, NotificationsAssumption
      DEF IInv, TypeOK, feed, ReadyState, Asking
  <2>6. Linked'
    BY <2>1, <2>2, <2>3, <2>4 DEF IInv, TypeOK, Asking, Linked, NoneLive, OneLive, Over
  <2>7. \A r \in Sockets : socket'[r] \in {"failing", "closing"} <=>
                           socket[r] \in {"failing", "closing"}
    BY <2>2 DEF IInv, TypeOK
  <2>8. Counted'
    BY <2>1, <2>3, <2>7 DEF Counted, Breaking, Asking
  <2> QED
    BY <1>2, <2>3, <2>5, <2>6, <2>8 DEF IInv, Point
<1> QED
  BY <1>1, <1>2 DEF IInv, TypeOK

LEMMA RefusedKeeps ==
  ASSUME IInv, TicketRefused
  PROVE  IInv'
<1>1. tickets > 0 /\ tickets' = tickets - 1 /\ state' = "unauthorized"
      /\ UNCHANGED <<stopped, attempt, timers, delay, current, socket, channel,
                     opened, feed, faults>>
  BY DEF TicketRefused
<1>2. TypeOK'
  BY <1>1 DEF IInv, TypeOK, feed, ConnectionState
<1>3. CASE stopped
  BY <1>1, <1>2, <1>3 DEF IInv, Point, Ended
<1>4. CASE ~stopped
  <2>1. Asking /\ Counted
    BY <1>1, <1>4 DEF IInv, Point, Retrying, Linked, Expired
  <2>2. Expired' /\ Counted'
    BY <1>1, <2>1 DEF Asking, Expired, NoneLive, Counted, Breaking
  <2> QED
    BY <1>1, <1>2, <1>4, <2>2 DEF IInv, Point
<1> QED
  BY <1>3, <1>4

LEMMA TicketFailsKeeps ==
  ASSUME IInv, TicketFails
  PROVE  IInv'
<1>1. /\ tickets > 0 /\ tickets' = tickets - 1 /\ faults < MaxFaults /\ faults' = faults + 1
      /\ scheduleReconnect
      /\ UNCHANGED <<stopped, current, socket, channel, state, opened, feed>>
  BY DEF TicketFails, Fault
<1>2. faults' \in 0..MaxFaults
  BY <1>1, NotificationsAssumption DEF IInv, TypeOK
<1>3. CASE stopped
  BY <1>1, <1>2, <1>3 DEF IInv, TypeOK, Point, Ended, scheduleReconnect, feed
<1>4. CASE ~stopped
  <2>1. Asking /\ Counted
    BY <1>1, <1>4 DEF IInv, Point, Retrying, Linked, Expired
  <2>2. ~Breaking
    BY <2>1 DEF Asking, NoneLive, Over, Breaking
  <2>3. attempt < MaxFaults
    BY <1>1, <2>1, <2>2, NotificationsAssumption DEF IInv, TypeOK, Counted
  <2>4. /\ attempt' = attempt + 1 /\ timers' = timers + 1
        /\ delay' = defaultBackoff(attempt)
        /\ delay' \in {0} \cup {defaultBackoff(n) : n \in 0..MaxFaults}
    BY <1>1, <1>4, <2>3, SchedulesOnce DEF IInv
  <2> HIDE DEF defaultBackoff
  <2>5. TypeOK'
    BY <1>1, <1>2, <2>1, <2>4 DEF IInv, TypeOK, feed, Asking
  <2>6. Retrying'
    BY <1>1, <2>1, <2>4 DEF Asking, Retrying, NoneLive
  <2>7. ~Breaking'
    BY <1>1, <2>2 DEF Breaking
  <2>8. attempt' - 1 = attempt /\ attempt' > 0
    BY <2>4 DEF IInv, TypeOK
  <2>9. Counted'
    BY <1>1, <2>1, <2>2, <2>4, <2>7, <2>8 DEF IInv, TypeOK, Counted, Asking
  <2> QED
    BY <1>1, <1>4, <2>5, <2>6, <2>9 DEF IInv, Point
<1> QED
  BY <1>3, <1>4

\* What happens to a socket happens to the current one, unless all is over.
LEMMA OnlyTheCurrent ==
  ASSUME IInv, ~stopped, NEW s \in Sockets, socket[s] \notin Over
  PROVE  Linked /\ Counted /\ s = current
BY DEF IInv, Point, Asking, Retrying, Linked, Expired, NoneLive, OneLive

LEMMA OnopenKeeps ==
  ASSUME IInv, NEW s \in Sockets, onopen(s)
  PROVE  IInv'
<1>1. /\ socket[s] = "connecting" /\ socket' = [socket EXCEPT ![s] = "open"]
      /\ attempt' = 0 /\ opened' = faults /\ state' = "open"
      /\ UNCHANGED <<stopped, tickets, timers, delay, current, channel, feed, faults>>
  BY DEF onopen
<1>2. TypeOK'
  BY <1>1 DEF IInv, TypeOK, feed, ReadyState, ConnectionState
<1>3. CASE stopped
  BY <1>1, <1>3 DEF IInv, Point, Ended
<1>4. CASE ~stopped
  <2>1. Linked /\ Counted /\ s = current
    BY <1>1, <1>4, OnlyTheCurrent DEF Over
  <2>2. Linked'
    BY <1>1, <2>1 DEF IInv, TypeOK, Linked, OneLive, Over
  <2>3. ~Breaking'
    BY <1>1, <2>1 DEF IInv, TypeOK, Linked, OneLive, Over, Breaking
  <2>4. Counted'
    BY <1>1, <2>1, <2>3 DEF IInv, TypeOK, Counted, Linked
  <2> QED
    BY <1>1, <1>2, <1>4, <2>2, <2>4 DEF IInv, Point
<1> QED
  BY <1>3, <1>4

LEMMA BreakKeeps ==
  ASSUME IInv, NEW s \in Sockets, Break(s)
  PROVE  IInv'
<1>1. /\ socket[s] \in {"connecting", "open"} /\ faults < MaxFaults /\ faults' = faults + 1
      /\ channel' = [channel EXCEPT ![s] = <<>>]
      /\ UNCHANGED <<stopped, attempt, tickets, timers, delay, current, state, opened, feed>>
  BY DEF Break, Fault
<1>2. PICK next \in {"failing", "closing"} : socket' = [socket EXCEPT ![s] = next]
  BY DEF Break
<1>3. TypeOK'
  BY <1>1, <1>2, NotificationsAssumption DEF IInv, TypeOK, feed, ReadyState
<1>4. CASE stopped
  BY <1>1, <1>4 DEF IInv, Point, Ended
<1>5. CASE ~stopped
  <2>1. Linked /\ Counted /\ s = current
    BY <1>1, <1>5, OnlyTheCurrent DEF Over
  <2>2. Linked'
    BY <1>1, <1>2, <2>1 DEF IInv, TypeOK, Linked, OneLive, Over
  <2>3. ~Breaking /\ Breaking'
    BY <1>1, <1>2, <2>1 DEF IInv, TypeOK, Linked, OneLive, Over, Breaking
  <2>4. Counted'
    BY <1>1, <2>1, <2>3 DEF IInv, TypeOK, Counted, Linked
  <2> QED
    BY <1>1, <1>3, <1>5, <2>2, <2>4 DEF IInv, Point
<1> QED
  BY <1>4, <1>5

LEMMA OnerrorKeeps ==
  ASSUME IInv, NEW s \in Sockets, onerror(s)
  PROVE  IInv'
<1>1. /\ socket[s] = "failing" /\ socket' = [socket EXCEPT ![s] = "closing"]
      /\ UNCHANGED <<stopped, attempt, tickets, timers, delay, current, channel, state,
                     opened, feed, faults>>
  BY DEF onerror
<1>2. TypeOK'
  BY <1>1 DEF IInv, TypeOK, feed, ReadyState
<1>3. CASE stopped
  BY <1>1, <1>3 DEF IInv, Point, Ended
<1>4. CASE ~stopped
  <2>1. Linked /\ Counted /\ s = current
    BY <1>1, <1>4, OnlyTheCurrent DEF Over
  <2>2. Linked'
    BY <1>1, <2>1 DEF IInv, TypeOK, Linked, OneLive, Over
  <2>3. Breaking /\ Breaking'
    BY <1>1 DEF IInv, TypeOK, Breaking
  <2>4. Counted'
    BY <1>1, <2>1, <2>3 DEF Counted
  <2> QED
    BY <1>1, <1>2, <1>4, <2>2, <2>4 DEF IInv, Point
<1> QED
  BY <1>3, <1>4

LEMMA OncloseKeeps ==
  ASSUME IInv, NEW s \in Sockets, onclose(s)
  PROVE  IInv'
<1>1. /\ socket[s] = "closing" /\ socket' = [socket EXCEPT ![s] = "closed"]
      /\ state' = "closed" /\ scheduleReconnect
      /\ UNCHANGED <<stopped, tickets, current, channel, opened, feed, faults>>
  BY DEF onclose
<1>2. CASE stopped
  BY <1>1, <1>2 DEF IInv, TypeOK, Point, Ended, scheduleReconnect, feed, ReadyState,
                    ConnectionState
<1>3. CASE ~stopped
  <2>1. Linked /\ Counted /\ s = current
    BY <1>1, <1>3, OnlyTheCurrent DEF Over
  <2>2. Breaking /\ ~Breaking'
    BY <1>1, <2>1 DEF IInv, TypeOK, Linked, OneLive, Over, Breaking
  <2>3. attempt + opened + 1 = faults
    BY <2>1, <2>2 DEF Counted
  <2>4. attempt < MaxFaults
    BY <2>3, NotificationsAssumption DEF IInv, TypeOK
  <2>5. /\ attempt' = attempt + 1 /\ timers' = timers + 1
        /\ delay' = defaultBackoff(attempt)
        /\ delay' \in {0} \cup {defaultBackoff(n) : n \in 0..MaxFaults}
    BY <1>1, <1>3, <2>4, SchedulesOnce DEF IInv
  <2> HIDE DEF defaultBackoff
  <2>6. TypeOK'
    BY <1>1, <2>5 DEF IInv, TypeOK, feed, ReadyState, ConnectionState
  <2>7. Retrying'
    BY <1>1, <2>1, <2>5 DEF IInv, TypeOK, Linked, OneLive, Retrying, NoneLive, Over
  <2>8. attempt' - 1 = attempt /\ attempt' > 0
    BY <2>5 DEF IInv, TypeOK
  <2>9. Counted'
    BY <1>1, <2>1, <2>2, <2>3, <2>5, <2>8 DEF IInv, TypeOK, Counted, Linked
  <2> QED
    BY <1>1, <1>3, <2>6, <2>7, <2>9 DEF IInv, Point
<1> QED
  BY <1>2, <1>3

LEMMA DisconnectKeeps ==
  ASSUME IInv, disconnect
  PROVE  IInv'
<1>1. ~stopped /\ (Asking \/ Retrying \/ Linked \/ Expired)
  BY DEF disconnect, IInv, Point
<1>2. /\ stopped' = TRUE /\ current' = 0 /\ bell' = FALSE
      /\ timers' = IF timers > 0 THEN timers - 1 ELSE 0
      /\ socket' = [s \in Sockets |->
           IF s = current /\ socket[s] \in {"connecting", "open", "failing"}
           THEN "closing" ELSE socket[s]]
      /\ channel' = [s \in Sockets |-> IF s = current THEN <<>> ELSE channel[s]]
      /\ UNCHANGED <<attempt, tickets, delay, state, opened, sent, toasts, items, seen, faults>>
  BY DEF disconnect
<1>3. timers \in Nat /\ timers <= 1
  BY <1>1 DEF IInv, TypeOK, Asking, Retrying, Linked, Expired
<1>4. TypeOK'
  <2>1. socket' \in [Sockets -> ReadyState]
    BY <1>2 DEF IInv, TypeOK, ReadyState
  <2>2. ASSUME NEW s \in Sockets
        PROVE  channel'[s] \in Seq(1..Broadcasts)
    <3>1. channel'[s] = <<>> \/ channel'[s] = channel[s]
      BY <1>2
    <3> QED
      BY <3>1, EmptySeq DEF IInv, TypeOK
  <2>3. channel' \in [Sockets -> Seq(1..Broadcasts)]
    BY <1>2, <2>2
  <2>4. current' \in 0..MaxSockets
    BY <1>2, NotificationsAssumption
  <2>5. stopped' \in BOOLEAN /\ bell' \in BOOLEAN
    BY <1>2, Zenon
  <2>6. timers' \in Nat
    BY <1>2, <1>3
  <2> HIDE DEF defaultBackoff
  <2> QED
    BY <1>2, <2>1, <2>3, <2>4, <2>5, <2>6 DEF IInv, TypeOK
<1>5. Ended'
  BY <1>1, <1>2, <1>3 DEF IInv, TypeOK, Asking, Retrying, Linked, Expired, NoneLive, OneLive,
                          Over, Ended
<1> QED
  BY <1>2, <1>4, <1>5 DEF IInv, Point

-----------------------------------------------------------------------------
(* The feed.                                                                *)

LEMMA PushKeepsTypes ==
  ASSUME TypeOK, NEW n \in 1..Broadcasts, push(n)
  PROVE  /\ items' \in Seq([n : 1..Broadcasts, read : BOOLEAN])
         /\ Len(items') = IF Len(items) + 1 < MAX_ITEMS THEN Len(items) + 1 ELSE MAX_ITEMS
         /\ \A i \in DOMAIN items' :
              items'[i] = IF i = 1 THEN [n |-> n, read |-> FALSE] ELSE items[i - 1]
<1> DEFINE Items == [n : 1..Broadcasts, read : BOOLEAN]
           new == [n |-> n, read |-> FALSE]
           all == <<new>> \o items
           last == IF Len(all) < MAX_ITEMS THEN Len(all) ELSE MAX_ITEMS
<1>1. new \in Items /\ items \in Seq(Items) /\ Len(items) \in Nat
  BY DEF TypeOK
<1> HIDE DEF Items, new
<1>2. all \in Seq(Items) /\ Len(all) = Len(items) + 1
      /\ \A i \in 1..(Len(items) + 1) : all[i] = IF i = 1 THEN new ELSE items[i - 1]
  BY <1>1
<1>3. last \in 1..Len(all)
      /\ last = IF Len(items) + 1 < MAX_ITEMS THEN Len(items) + 1 ELSE MAX_ITEMS
  BY <1>1, <1>2, NotificationsAssumption
<1> HIDE DEF all, last
<1>4. items' = SubSeq(all, 1, last)
  BY DEF push, all, last, new
<1>5. /\ items' \in Seq(Items) /\ Len(items') = last
      /\ \A i \in 1..last : items'[i] = all[i]
  BY <1>2, <1>3, <1>4, SubSeqProperties
<1>6. DOMAIN items' = 1..last
  BY <1>5
<1>7. \A i \in 1..last : i \in 1..(Len(items) + 1)
  BY <1>2, <1>3
<1> QED
  BY <1>2, <1>3, <1>5, <1>6, <1>7 DEF Items, new

LEMMA SendTypes ==
  ASSUME TypeOK, Send
  PROVE  TypeOK' /\ UNCHANGED link
<1>1. /\ Len(sent) < Broadcasts /\ \E e \in Events : sent' = Append(sent, e)
      /\ UNCHANGED <<link, toasts, items, bell, seen>>
  BY DEF Send
<1>2. PICK early \in SUBSET {s \in Sockets : socket[s] = "connecting"} :
       channel' = [s \in Sockets |->
         IF socket[s] = "open" \/ s \in early
         THEN Append(channel[s], Len(sent) + 1) ELSE channel[s]]
  BY DEF Send
<1>3. sent' \in Seq(Events) /\ Len(sent') = Len(sent) + 1 /\ Len(sent) \in Nat
  BY <1>1 DEF TypeOK
<1>4. Len(sent) + 1 \in 1..Broadcasts /\ Len(sent') <= Broadcasts
  BY <1>1, <1>3, NotificationsAssumption
<1>5. ASSUME NEW s \in Sockets
      PROVE  channel'[s] \in Seq(1..Broadcasts)
  <2>1. channel[s] \in Seq(1..Broadcasts)
    BY DEF TypeOK
  <2>2. channel'[s] = channel[s] \/ channel'[s] = Append(channel[s], Len(sent) + 1)
    BY <1>2
  <2>3. Append(channel[s], Len(sent) + 1) \in Seq(1..Broadcasts)
    BY <1>4, <2>1, AppendProperties
  <2> QED
    BY <2>1, <2>2, <2>3
<1>6. channel' \in [Sockets -> Seq(1..Broadcasts)]
  BY <1>2, <1>5
<1> QED
  BY <1>1, <1>3, <1>4, <1>6 DEF TypeOK, link

LEMMA OnmessageTypes ==
  ASSUME TypeOK, NEW s \in Sockets, onmessage(s)
  PROVE  TypeOK' /\ UNCHANGED link
<1>1. /\ channel[s] # <<>> /\ channel' = [channel EXCEPT ![s] = Tail(@)]
      /\ UNCHANGED <<link, sent, bell, seen>>
      /\ UNCHANGED <<toasts, items>> \/ handleEvent(sent[Head(channel[s])], Head(channel[s]))
  BY DEF onmessage
<1>2. channel[s] \in Seq(1..Broadcasts)
  BY DEF TypeOK
<1>3. Head(channel[s]) \in 1..Broadcasts /\ Tail(channel[s]) \in Seq(1..Broadcasts)
  BY <1>1, <1>2, HeadTailProperties
<1>4. channel' \in [Sockets -> Seq(1..Broadcasts)]
  BY <1>1, <1>3 DEF TypeOK
<1>5. CASE UNCHANGED <<toasts, items>>
  BY <1>1, <1>4, <1>5 DEF TypeOK, link
<1>6. CASE /\ toasts' = Append(toasts, Head(channel[s]))
           /\ push(Head(channel[s]))
  <2>1. Head(channel[s]) \in 1..Broadcasts
    BY <1>3
  <2>2. toasts' \in Seq(1..Broadcasts)
    BY <1>6, <2>1 DEF TypeOK
  <2>3. /\ items' \in Seq([n : 1..Broadcasts, read : BOOLEAN])
        /\ Len(items') = IF Len(items) + 1 < MAX_ITEMS THEN Len(items) + 1 ELSE MAX_ITEMS
    BY <1>6, <2>1, PushKeepsTypes
  <2>4. Len(items') <= MAX_ITEMS
    BY <2>3, NotificationsAssumption DEF TypeOK
  <2> QED
    BY <1>1, <1>4, <2>2, <2>3, <2>4 DEF TypeOK, link
<1> QED
  BY <1>1, <1>5, <1>6 DEF handleEvent

LEMMA ToggleTypes ==
  ASSUME TypeOK, toggle
  PROVE  TypeOK' /\ UNCHANGED link
<1>1. bell' = ~bell /\ bell' \in BOOLEAN /\ UNCHANGED <<link, channel, sent, toasts>>
  BY DEF toggle
<1>2. CASE UNCHANGED <<items, seen>>
  BY <1>1, <1>2 DEF TypeOK, link
<1>3. CASE markAllRead /\ seen' = Len(toasts)
  <2>1. \A i \in 1..Len(items) : items[i] \in [n : 1..Broadcasts, read : BOOLEAN]
    BY ElementOfSeq DEF TypeOK
  <2>2. \A i \in 1..Len(items) :
          [items[i] EXCEPT !.read = TRUE] \in [n : 1..Broadcasts, read : BOOLEAN]
    BY <2>1
  <2>3. /\ DOMAIN items = 1..Len(items) /\ Len(items) \in Nat
        /\ items' = [i \in 1..Len(items) |-> [items[i] EXCEPT !.read = TRUE]]
    BY <1>3 DEF markAllRead, TypeOK
  <2>4. items' \in Seq([n : 1..Broadcasts, read : BOOLEAN]) /\ Len(items') = Len(items)
    BY <2>2, <2>3 DEF TypeOK
  <2>5. seen' \in Nat
    BY <1>3 DEF TypeOK
  <2> QED
    BY <1>1, <2>4, <2>5 DEF TypeOK, link
<1> QED
  BY <1>2, <1>3 DEF toggle
-----------------------------------------------------------------------------
(* One logical connection: the theorems about the link.                     *)

\* IInv holds in every reachable state, for any sockets, failures and messages.
THEOREM Invariance == Spec => []IInv
<1>1. Init => IInv
  <2> SUFFICES ASSUME Init PROVE IInv
    OBVIOUS
  <2>1. TypeOK
    <3>1. stopped \in BOOLEAN /\ bell \in BOOLEAN
      BY Zenon DEF Init
    <3>2. channel \in [Sockets -> Seq(1..Broadcasts)]
      BY DEF Init
    <3> HIDE DEF defaultBackoff
    <3> QED
      BY <3>1, <3>2, NotificationsAssumption DEF Init, TypeOK, ReadyState, ConnectionState
  <2>2. Asking /\ Counted
    BY DEF Init, Asking, NoneLive, Over, Counted, Breaking
  <2> QED
    BY <2>1, <2>2 DEF IInv, Point, Init
<1>2. IInv /\ [Next]_vars => IInv'
  <2> SUFFICES ASSUME IInv, [Next]_vars PROVE IInv'
    OBVIOUS
  <2>1. CASE UNCHANGED vars
    <3>1. TypeOK' /\ UNCHANGED link
      BY <2>1 DEF vars, link, IInv, TypeOK
    <3> QED
      BY <3>1, FeedKeeps
  <2>2. CASE open
    BY <2>2, OpenKeeps
  <2>3. CASE TicketGranted \/ TicketRefused \/ TicketFails
    BY <2>3, GrantKeeps, RefusedKeeps, TicketFailsKeeps
  <2>4. CASE disconnect
    BY <2>4, DisconnectKeeps
  <2>5. CASE Send \/ toggle
    BY <2>5, SendTypes, ToggleTypes, FeedKeeps DEF IInv
  <2>6. ASSUME NEW s \in Sockets, Link(s) \/ Break(s)
        PROVE  IInv'
    BY <2>6, OnopenKeeps, OnerrorKeeps, OncloseKeeps, BreakKeeps DEF Link
  <2>7. ASSUME NEW s \in Sockets, onmessage(s)
        PROVE  IInv'
    BY <2>7, OnmessageTypes, FeedKeeps DEF IInv
  <2> QED
    BY <2>1, <2>2, <2>3, <2>4, <2>5, <2>6, <2>7 DEF Next
<1> QED
  BY <1>1, <1>2, PTL DEF Spec

\* The model of the client is type correct; its backoff is one of the table's.
THEOREM TypeCorrect == Spec => []TypeOK
<1>1. IInv => TypeOK
  BY DEF IInv
<1> QED
  BY <1>1, Invariance, PTL

\* The sockets at work, at each of the four points.
LEMMA LiveSockets ==
  ASSUME IInv
  PROVE  /\ NoneLive => Live = {} /\ Cardinality(Live) = 0
         /\ OneLive => Live = {current} /\ Cardinality(Live) = 1
<1>1. NoneLive => Live = {}
  BY DEF NoneLive, Live, Over
<1>2. OneLive => Live = {current}
  BY DEF OneLive, Live, Over
<1> QED
  BY <1>1, <1>2, FS_EmptySet, FS_Singleton

\* Exactly one of a ticket, a timer and a socket is at work until the unmount
\* or a 401, and nothing after disconnect(), for any number of failures.
THEOREM ClientHasOneChain == Spec => []OneChain
<1>1. IInv => OneChain
  <2> SUFFICES ASSUME IInv PROVE OneChain
    OBVIOUS
  <2>1. CASE stopped
    BY <2>1 DEF IInv, Point, Ended, OneChain, Held
  <2>2. CASE ~stopped
    BY <2>2, LiveSockets DEF IInv, Point, Asking, Retrying, Linked, Expired, OneChain
  <2> QED
    BY <2>1, <2>2
<1> QED
  BY <1>1, Invariance, PTL

\* What the Topbar says of the connection is true.
THEOREM ShownStatusIsTrue == Spec => []StatusIsHonest
<1>1. IInv => StatusIsHonest
  <2> SUFFICES ASSUME IInv, ~stopped
               PROVE  /\ Topbar = "live" => Live # {} /\ timers = 0
                      /\ Topbar = "reconnecting" => timers > 0
                      /\ Topbar = "expired" => tickets + timers = 0 /\ Live = {}
    BY DEF StatusIsHonest
  <2>1. state \in ConnectionState
    BY DEF IInv, TypeOK
  <2>2. /\ Topbar = "live" => state = "open"
        /\ Topbar = "reconnecting" => state = "closed"
        /\ Topbar = "expired" => state = "unauthorized"
    BY <2>1 DEF Topbar, CONNECTION_LABEL, ConnectionState
  <2> QED
    BY <2>2, LiveSockets DEF IInv, Point, Asking, Retrying, Linked, Expired
<1> QED
  BY <1>1, Invariance, PTL

\* The n-th retry in a row waits as long as the table says, for any n.
THEOREM BackoffCountsFailures == Spec => []RetriesSlowDown
<1>1. IInv => RetriesSlowDown
  <2> SUFFICES ASSUME IInv, timers > 0
               PROVE  delay = defaultBackoff(faults - opened - 1)
    BY DEF RetriesSlowDown
  <2>1. ~stopped /\ Retrying /\ Counted
    BY DEF IInv, Point, Ended, Asking, Linked, Expired
  <2>2. ~Breaking
    BY <2>1 DEF Retrying, NoneLive, Over, Breaking
  <2>3. attempt - 1 = faults - opened - 1
    BY <2>1, <2>2 DEF Counted, IInv, TypeOK
  <2> QED
    BY <2>1, <2>3 DEF Counted
<1> QED
  BY <1>1, Invariance, PTL

-----------------------------------------------------------------------------
(* The loop of reconnections.                                               *)

\* A socket that has not opened yet is the one whose opening is waited for.
Unopened ==
  \A s \in Sockets : ~stopped /\ socket[s] = "connecting" => state = "connecting"

LoopInv == IInv /\ Unopened

\* The four points are places of the loop.
LEMMA Places ==
  ASSUME IInv, ~stopped
  PROVE  /\ tickets > 0 => Asking /\ place = "asking"
         /\ timers > 0 => Retrying /\ place = "waiting"
         /\ Asking => place = "asking"
         /\ Retrying => place = "waiting"
         /\ Linked => place = state /\ state \in {"connecting", "open"}
         /\ Expired => place = "expired"
BY DEF IInv, Point, Asking, Retrying, Linked, Expired, place

\* scheduleReconnect, from anywhere but a wait.
LEMMA SchedulesFailure ==
  ASSUME ~stopped, scheduleReconnect, UNCHANGED stopped,
         place \in {"asking", "connecting", "open"}, place' = "waiting"
  PROVE  Loop!Next
<1>1. attempt' = attempt + 1 /\ delay' = defaultBackoff(attempt)
  BY DEF scheduleReconnect
<1>2. Loop!Fail
  BY <1>1 DEF Loop!Fail, Loop!Goes
<1> QED
  BY <1>2 DEF Loop!Next

\* After disconnect() nothing that comes late is a step of the loop.
LEMMA LateIsNoStep ==
  ASSUME stopped, UNCHANGED <<stopped, attempt, delay>>
  PROVE  UNCHANGED Loop!vars
BY DEF place, Loop!vars

\* Neither is what leaves the place and the count alone.
LEMMA InPlace ==
  ASSUME UNCHANGED <<stopped, tickets, timers, state, attempt, delay>>
  PROVE  UNCHANGED Loop!vars
BY DEF place, Loop!vars

LEMMA TimerLoop ==
  ASSUME LoopInv, open
  PROVE  Loop!Next /\ Unopened'
<1>1. ~stopped /\ Retrying
  BY DEF LoopInv, IInv, Point, Ended, open, Asking, Linked, Expired
<1>2. /\ timers' = timers - 1 /\ tickets' = tickets + 1 /\ state' = "connecting"
      /\ UNCHANGED <<stopped, attempt, delay, socket>>
  BY <1>1 DEF open
<1>3. place = "waiting" /\ place' = "asking"
  BY <1>1, <1>2, Places DEF LoopInv, Retrying, place
<1>4. Loop!Ask
  BY <1>2, <1>3 DEF Loop!Ask, Loop!Goes
<1> QED
  BY <1>2, <1>4 DEF Loop!Next, Unopened

\* The answers of getTicket.
LEMMA TicketLoop ==
  ASSUME LoopInv, TicketGranted \/ TicketRefused \/ TicketFails
  PROVE  [Loop!Next]_(Loop!vars) /\ Unopened'
<1>1. tickets > 0 /\ tickets' = tickets - 1 /\ UNCHANGED stopped
  BY DEF TicketGranted, TicketRefused, TicketFails
<1>2. CASE stopped
  <2>1. UNCHANGED <<attempt, delay>>
    BY <1>2 DEF TicketGranted, TicketRefused, TicketFails, scheduleReconnect
  <2> QED
    BY <1>1, <1>2, <2>1, LateIsNoStep DEF Unopened
<1>3. CASE ~stopped
  <2>1. Asking /\ place = "asking"
    BY <1>1, <1>3, Places DEF LoopInv
  <2>2. CASE TicketGranted
    <3>1. UNCHANGED <<attempt, delay, timers, state>>
      BY <2>2 DEF TicketGranted
    <3>2. place' = "connecting"
      BY <1>1, <1>3, <2>1, <3>1 DEF Asking, place
    <3>3. Loop!Connect
      BY <2>1, <3>1, <3>2 DEF Loop!Connect, Loop!Goes
    <3>4. Unopened'
      BY <2>1, <3>1 DEF Asking, Unopened
    <3> QED
      BY <3>3, <3>4 DEF Loop!Next
  <2>3. CASE TicketRefused
    <3>1. UNCHANGED <<attempt, delay, timers, socket>> /\ state' = "unauthorized"
      BY <2>3 DEF TicketRefused
    <3>2. place' = "expired"
      BY <1>1, <1>3, <2>1, <3>1 DEF Asking, place
    <3>3. Loop!Expire
      BY <2>1, <3>1, <3>2 DEF Loop!Expire, Loop!Goes
    <3>4. Unopened'
      BY <2>1, <3>1 DEF Asking, NoneLive, Over, Unopened
    <3> QED
      BY <3>3, <3>4 DEF Loop!Next
  <2>4. CASE TicketFails
    <3>1. scheduleReconnect /\ UNCHANGED <<socket, state>>
      BY <2>4 DEF TicketFails
    <3>2. timers' = timers + 1
      BY <1>3, <3>1 DEF scheduleReconnect
    <3>3. place' = "waiting"
      BY <1>1, <1>3, <2>1, <3>2 DEF Asking, place
    <3>4. Loop!Next
      BY <1>1, <1>3, <2>1, <3>1, <3>3, SchedulesFailure
    <3> QED
      BY <1>1, <3>1, <3>4 DEF LoopInv, Unopened
  <2> QED
    BY <2>2, <2>3, <2>4
<1> QED
  BY <1>2, <1>3

\* The events of a socket; after disconnect() only its close is left.
LEMMA SocketLoop ==
  ASSUME LoopInv, NEW s \in Sockets, Link(s) \/ Break(s)
  PROVE  [Loop!Next]_(Loop!vars) /\ Unopened'
<1>1. UNCHANGED <<stopped, tickets>> /\ socket[s] \notin Over
  BY DEF Link, onopen, onerror, onclose, Break, Over
<1>2. \A r \in Sockets : socket'[r] = "connecting" => socket[r] = "connecting"
  BY DEF LoopInv, IInv, TypeOK, Link, onopen, onerror, onclose, Break
<1>3. CASE stopped
  <2>1. socket[s] = "closing"
    BY <1>1, <1>3 DEF LoopInv, IInv, TypeOK, Point, Ended, ReadyState, Over
  <2>2. UNCHANGED <<attempt, delay>>
    BY <1>3, <2>1 DEF Link, onopen, onerror, onclose, Break, scheduleReconnect
  <2> QED
    BY <1>1, <1>3, <2>2, LateIsNoStep DEF Unopened
<1>4. CASE ~stopped
  <2>1. Linked /\ s = current /\ place = state /\ state \in {"connecting", "open"}
    BY <1>1, <1>4, OnlyTheCurrent, Places DEF LoopInv
  <2>2. CASE onopen(s)
    <3>1. /\ socket[s] = "connecting" /\ socket' = [socket EXCEPT ![s] = "open"]
          /\ attempt' = 0 /\ state' = "open" /\ UNCHANGED <<timers, delay>>
      BY <2>2 DEF onopen
    <3>2. place = "connecting"
      BY <1>4, <2>1, <3>1 DEF LoopInv, Unopened
    <3>3. place' = "open"
      BY <1>1, <1>4, <2>1, <3>1 DEF Linked, place
    <3>4. Loop!Open
      BY <3>1, <3>2, <3>3 DEF Loop!Open, Loop!Goes
    <3>5. \A r \in Sockets : socket'[r] # "connecting"
      BY <2>1, <3>1 DEF LoopInv, IInv, TypeOK, Linked, OneLive, Over
    <3> QED
      BY <3>4, <3>5 DEF Loop!Next, Unopened
  <2>3. CASE onclose(s)
    <3>1. scheduleReconnect /\ socket' = [socket EXCEPT ![s] = "closed"]
      BY <2>3 DEF onclose
    <3>2. timers' = timers + 1
      BY <1>4, <3>1 DEF scheduleReconnect
    <3>3. place' = "waiting"
      BY <1>1, <1>4, <2>1, <3>2 DEF Linked, place
    <3>4. Loop!Next
      BY <1>1, <1>4, <2>1, <3>1, <3>3, SchedulesFailure
    <3>5. \A r \in Sockets : socket'[r] # "connecting"
      BY <2>1, <3>1 DEF LoopInv, IInv, TypeOK, Linked, OneLive, Over
    <3> QED
      BY <3>4, <3>5 DEF Unopened
  <2>4. CASE onerror(s) \/ Break(s)
    <3>1. UNCHANGED <<timers, state, attempt, delay>>
      BY <2>4 DEF onerror, Break
    <3> QED
      BY <1>1, <1>2, <3>1, InPlace DEF LoopInv, Unopened
  <2> QED
    BY <2>2, <2>3, <2>4 DEF Link
<1> QED
  BY <1>3, <1>4

LEMMA NextLoop ==
  ASSUME LoopInv, [Next]_vars
  PROVE  [Loop!Next]_(Loop!vars) /\ Unopened'
<1>1. CASE open \/ TicketGranted \/ TicketRefused \/ TicketFails
  BY <1>1, TimerLoop, TicketLoop
<1>2. CASE disconnect
  <2>1. ~stopped /\ stopped' = TRUE /\ UNCHANGED <<attempt, delay>>
    BY <1>2 DEF disconnect
  <2>2. place' = "ended"
    BY <2>1 DEF place
  <2>3. place # "ended"
    <3>1. state \in ConnectionState
      BY DEF LoopInv, IInv, TypeOK
    <3> QED
      BY <2>1, <3>1 DEF place, ConnectionState
  <2>4. Loop!End
    BY <2>1, <2>2, <2>3 DEF Loop!End
  <2> QED
    BY <2>1, <2>4 DEF Loop!Next, Unopened
<1>3. ASSUME NEW s \in Sockets, Link(s) \/ Break(s)
      PROVE  [Loop!Next]_(Loop!vars) /\ Unopened'
  BY <1>3, SocketLoop
<1>4. CASE Send \/ toggle \/ (\E s \in Sockets : onmessage(s)) \/ UNCHANGED vars
  <2>1. UNCHANGED <<stopped, tickets, timers, state, attempt, delay, socket>>
    BY <1>4 DEF Send, toggle, onmessage, vars, link
  <2> QED
    BY <2>1, InPlace DEF LoopInv, Unopened
<1> QED
  BY <1>1, <1>2, <1>3, <1>4 DEF Next

\* NotificationClient implements Reconnection: for any sockets and failures, and
\* wherever disconnect() or the end of a session interrupts it, its callbacks
\* make one loop; whatever comes late is no step of it (open, onclose,
\* scheduleReconnect, disconnect).
THEOREM Implementation == Spec => ImplementsReconnection
<1>1. Init => Loop!Init /\ Unopened
  BY DEF Init, Loop!Init, place, Unopened
<1>2. LoopInv /\ [Next]_vars => [Loop!Next]_(Loop!vars) /\ Unopened'
  BY NextLoop
<1> QED
  BY <1>1, <1>2, Invariance, PTL DEF Spec, LoopInv, ImplementsReconnection, Loop!Spec

-----------------------------------------------------------------------------
(* The history.                                                             *)

\* Numbers grow along the toasts and from them along each channel, and nothing
\* waits for a socket that has no connection.
Ordered ==
  /\ \A s \in Sockets : socket[s] \notin {"connecting", "open"} => channel[s] = <<>>
  /\ \A s \in Sockets : \A i \in 1..Len(channel[s]) :
       /\ channel[s][i] <= Len(sent)
       /\ \A j \in 1..Len(toasts) : toasts[j] < channel[s][i]
       /\ \A j \in 1..(i - 1) : channel[s][j] < channel[s][i]
  /\ \A i \in 1..Len(toasts) :
       toasts[i] <= Len(sent) /\ \A j \in 1..(i - 1) : toasts[j] < toasts[i]

\* The history is the end of the toasts, unread since the bell was opened.
Recorded ==
  /\ seen <= Len(toasts)
  /\ Len(items) = IF Len(toasts) < MAX_ITEMS THEN Len(toasts) ELSE MAX_ITEMS
  /\ \A i \in 1..Len(items) :
       /\ items[i].n = toasts[Len(toasts) + 1 - i]
       /\ items[i].read <=> i > Len(toasts) - seen

HInv == IInv /\ Ordered /\ Recorded

\* Two channels never hold messages together.
LEMMA OneChannel ==
  ASSUME HInv, NEW s \in Sockets, NEW r \in Sockets, s # r, channel[s] # <<>>
  PROVE  channel[r] = <<>>
<1>1. socket[s] \in {"connecting", "open"}
  BY DEF HInv, Ordered
<1>2. Linked /\ s = current
  BY <1>1, OnlyTheCurrent DEF HInv, IInv, Point, Ended, Over
<1> QED
  BY <1>2 DEF Linked, OneLive, Over, HInv, Ordered

LEMMA SendKeepsOrder ==
  ASSUME HInv, Send, IInv'
  PROVE  HInv'
<1>1. /\ Len(sent') = Len(sent) + 1 /\ Len(sent) \in Nat
      /\ UNCHANGED <<link, toasts, items, bell, seen>>
  BY DEF Send, HInv, IInv, TypeOK
<1>2. PICK early \in SUBSET {s \in Sockets : socket[s] = "connecting"} :
       channel' = [s \in Sockets |->
         IF socket[s] = "open" \/ s \in early
         THEN Append(channel[s], Len(sent) + 1) ELSE channel[s]]
  BY DEF Send
<1>3. \A i \in 1..Len(toasts) : toasts[i] \in Nat /\ toasts[i] <= Len(sent)
  <2>1. toasts \in Seq(1..Broadcasts)
    BY DEF HInv, IInv, TypeOK
  <2>2. \A i \in 1..Len(toasts) : toasts[i] \in 1..Broadcasts
    BY <2>1, ElementOfSeq
  <2> QED
    BY <2>2, NotificationsAssumption DEF HInv, Ordered
<1>4. ASSUME NEW s \in Sockets, NEW i \in 1..Len(channel'[s])
      PROVE  /\ channel'[s][i] <= Len(sent')
             /\ \A j \in 1..Len(toasts) : toasts[j] < channel'[s][i]
             /\ \A j \in 1..(i - 1) : channel'[s][j] < channel'[s][i]
  <2> DEFINE m == Len(sent) + 1
  <2>1. channel[s] \in Seq(1..Broadcasts)
    BY DEF HInv, IInv, TypeOK
  <2>2. \A j \in 1..Len(channel[s]) :
          /\ channel[s][j] \in Nat /\ channel[s][j] <= Len(sent)
          /\ \A k \in 1..Len(toasts) : toasts[k] < channel[s][j]
          /\ \A k \in 1..(j - 1) : channel[s][k] < channel[s][j]
    <3>1. \A j \in 1..Len(channel[s]) : channel[s][j] \in 1..Broadcasts
      BY <2>1, ElementOfSeq
    <3>2. \A j \in 1..Len(channel[s]) : channel[s][j] \in Nat
      BY <3>1, NotificationsAssumption
    <3> QED
      BY <3>2 DEF HInv, Ordered
  <2>3. CASE channel'[s] = channel[s]
    BY <1>1, <2>2, <2>3
  <2>4. CASE channel'[s] = Append(channel[s], m)
    <3>1. /\ Len(channel'[s]) = Len(channel[s]) + 1 /\ Len(channel[s]) \in Nat
          /\ \A j \in 1..Len(channel[s]) : channel'[s][j] = channel[s][j]
          /\ channel'[s][Len(channel[s]) + 1] = m
      BY <2>1, <2>4
    <3>2. m = Len(sent) + 1
      OBVIOUS
    <3> HIDE DEF m
    <3>3. CASE i = Len(channel[s]) + 1
      <4>1. channel'[s][i] = Len(sent) + 1
        BY <3>1, <3>2, <3>3
      <4>2. \A j \in 1..(i - 1) : j \in 1..Len(channel[s])
        BY <3>1, <3>3
      <4>3. \A j \in 1..(i - 1) : channel'[s][j] <= Len(sent) /\ channel'[s][j] \in Nat
        BY <2>2, <3>1, <4>2
      <4> QED
        BY <1>1, <1>3, <4>1, <4>3
    <3>4. CASE i \in 1..Len(channel[s])
      <4>1. \A j \in 1..i : j \in 1..Len(channel[s]) /\ channel'[s][j] = channel[s][j]
        BY <3>1, <3>4
      <4>2. channel'[s][i] = channel[s][i] /\
            \A j \in 1..(i - 1) : channel'[s][j] = channel[s][j]
        BY <4>1
      <4> QED
        BY <1>1, <2>2, <3>4, <4>2
    <3> QED
      BY <3>1, <3>3, <3>4
  <2> QED
    BY <1>2, <2>3, <2>4
<1>5. \A s \in Sockets : socket'[s] \notin {"connecting", "open"} => channel'[s] = <<>>
  BY <1>1, <1>2 DEF HInv, Ordered, link
<1>6. Ordered'
  BY <1>1, <1>3, <1>4, <1>5 DEF HInv, Ordered
<1> QED
  BY <1>1, <1>6 DEF HInv, Recorded

\* A step that only empties channels keeps the order and the history.
LEMMA LinkKeepsOrder ==
  ASSUME HInv, IInv', UNCHANGED <<sent, toasts, items, seen>>,
         \A s \in Sockets : \/ channel'[s] = <<>>
                            \/ /\ channel'[s] = channel[s]
                               /\ socket[s] \in {"connecting", "open"} =>
                                    socket'[s] \in {"connecting", "open"}
  PROVE  HInv'
<1>1. \A s \in Sockets : socket'[s] \notin {"connecting", "open"} => channel'[s] = <<>>
  BY DEF HInv, Ordered
<1>2. ASSUME NEW s \in Sockets, NEW i \in 1..Len(channel'[s])
      PROVE  /\ channel'[s][i] <= Len(sent)
             /\ \A j \in 1..Len(toasts) : toasts[j] < channel'[s][i]
             /\ \A j \in 1..(i - 1) : channel'[s][j] < channel'[s][i]
  <2>1. CASE channel'[s] = <<>>
    BY <2>1
  <2>2. CASE channel'[s] = channel[s]
    BY <2>2 DEF HInv, Ordered
  <2> QED
    BY <2>1, <2>2
<1>3. Ordered'
  BY <1>1, <1>2 DEF HInv, Ordered
<1> QED
  BY <1>3 DEF HInv, Recorded
LEMMA OnmessageKeepsOrder ==
  ASSUME HInv, NEW s \in Sockets, onmessage(s), IInv'
  PROVE  HInv'
<1>1. /\ socket[s] = "open" /\ channel[s] # <<>> /\ channel' = [channel EXCEPT ![s] = Tail(@)]
      /\ UNCHANGED <<link, sent, bell, seen>> /\ UNCHANGED socket
      /\ UNCHANGED <<toasts, items>> \/ handleEvent(sent[Head(channel[s])], Head(channel[s]))
  BY DEF onmessage, link
<1>2. channel[s] \in Seq(1..Broadcasts) /\ toasts \in Seq(1..Broadcasts)
      /\ channel \in [Sockets -> Seq(1..Broadcasts)] /\ Len(sent) \in Nat
  <2>1. TypeOK
    BY DEF HInv, IInv
  <2>2. channel \in [Sockets -> Seq(1..Broadcasts)] /\ toasts \in Seq(1..Broadcasts)
    BY <2>1 DEF TypeOK
  <2>3. Len(sent) \in Nat
    BY <2>1 DEF TypeOK
  <2> QED
    BY <2>2, <2>3
<1>3. \A r \in Sockets : r # s => channel[r] = <<>> /\ channel'[r] = <<>>
  BY <1>1, <1>2, OneChannel
<1>4. /\ channel'[s] = Tail(channel[s]) /\ Len(channel[s]) \in Nat /\ Len(channel[s]) > 0
      /\ Len(channel'[s]) = Len(channel[s]) - 1
      /\ \A i \in 1..Len(channel'[s]) : channel'[s][i] = channel[s][i + 1]
      /\ Head(channel[s]) = channel[s][1]
  BY <1>1, <1>2
<1>5. \A i \in 1..Len(channel'[s]) :
        /\ channel'[s][i] <= Len(sent)
        /\ \A j \in 1..Len(toasts) : toasts[j] < channel'[s][i]
        /\ \A j \in 1..(i - 1) : channel'[s][j] < channel'[s][i]
        /\ channel[s][1] < channel'[s][i]
  <2> SUFFICES ASSUME NEW i \in 1..Len(channel'[s])
               PROVE  /\ channel'[s][i] <= Len(sent)
                      /\ \A j \in 1..Len(toasts) : toasts[j] < channel'[s][i]
                      /\ \A j \in 1..(i - 1) : channel'[s][j] < channel'[s][i]
                      /\ channel[s][1] < channel'[s][i]
    OBVIOUS
  <2>1. i + 1 \in 1..Len(channel[s]) /\ channel'[s][i] = channel[s][i + 1]
        /\ 1 \in 1..((i + 1) - 1)
    BY <1>4
  <2>2. \A j \in 1..(i - 1) : /\ j + 1 \in 1..((i + 1) - 1)
                              /\ channel'[s][j] = channel[s][j + 1]
    BY <1>4
  <2> QED
    BY <2>1, <2>2 DEF HInv, Ordered
<1>6. \A r \in Sockets : socket'[r] \notin {"connecting", "open"} => channel'[r] = <<>>
  BY <1>1, <1>3
<1>7. CASE UNCHANGED <<toasts, items>>
  <2>1. Ordered'
    BY <1>1, <1>3, <1>5, <1>6, <1>7 DEF HInv, Ordered
  <2> QED
    BY <1>1, <1>7, <2>1 DEF HInv, Recorded
<1>8. CASE /\ toasts' = Append(toasts, channel[s][1])
           /\ push(channel[s][1])
  <2> DEFINE n == channel[s][1]
  <2>1. n \in 1..Broadcasts /\ n <= Len(sent) /\ \A j \in 1..Len(toasts) : toasts[j] < n
    <3>1. 1 \in 1..Len(channel[s])
      BY <1>4
    <3>2. channel[s][1] \in 1..Broadcasts
      BY <1>2, <3>1, ElementOfSeq
    <3> QED
      BY <3>1, <3>2 DEF HInv, Ordered
  <2> HIDE DEF n
  <2>2. /\ Len(toasts') = Len(toasts) + 1 /\ Len(toasts) \in Nat
        /\ \A i \in 1..Len(toasts) : toasts'[i] = toasts[i]
        /\ toasts'[Len(toasts) + 1] = n
    BY <1>2, <1>8, <2>1 DEF n
  <2>3. \A i \in 1..Len(toasts') :
          toasts'[i] <= Len(sent) /\ \A j \in 1..(i - 1) : toasts'[j] < toasts'[i]
    <3> SUFFICES ASSUME NEW i \in 1..Len(toasts')
                 PROVE  toasts'[i] <= Len(sent) /\ \A j \in 1..(i - 1) : toasts'[j] < toasts'[i]
      OBVIOUS
    <3>1. CASE i = Len(toasts) + 1
      <4>1. \A j \in 1..(i - 1) : j \in 1..Len(toasts)
        BY <2>2, <3>1
      <4> QED
        BY <2>1, <2>2, <3>1, <4>1
    <3>2. CASE i \in 1..Len(toasts)
      <4>1. \A j \in 1..(i - 1) : j \in 1..Len(toasts)
        BY <2>2, <3>2
      <4> QED
        BY <2>2, <3>2, <4>1 DEF HInv, Ordered
    <3> QED
      BY <2>2, <3>1, <3>2
  <2>4. \A i \in 1..Len(channel'[s]) : \A j \in 1..Len(toasts') :
          toasts'[j] < channel'[s][i]
    <3> SUFFICES ASSUME NEW i \in 1..Len(channel'[s]), NEW j \in 1..Len(toasts')
                 PROVE  toasts'[j] < channel'[s][i]
      OBVIOUS
    <3>1. CASE j = Len(toasts) + 1
      BY <1>5, <2>2, <3>1 DEF n
    <3>2. CASE j \in 1..Len(toasts)
      BY <1>5, <2>2, <3>2
    <3> QED
      BY <2>2, <3>1, <3>2
  <2>5. Ordered'
    <3>1. \A r \in Sockets : \A i \in 1..Len(channel'[r]) : r = s
      BY <1>3
    <3>2. \A r \in Sockets : \A i \in 1..Len(channel'[r]) :
            /\ channel'[r][i] <= Len(sent)
            /\ \A j \in 1..Len(toasts') : toasts'[j] < channel'[r][i]
            /\ \A j \in 1..(i - 1) : channel'[r][j] < channel'[r][i]
      BY <1>5, <2>4, <3>1
    <3> QED
      BY <1>1, <1>6, <2>3, <3>2 DEF Ordered
  <2>6. /\ Len(items') = IF Len(items) + 1 < MAX_ITEMS THEN Len(items) + 1 ELSE MAX_ITEMS
        /\ \A i \in DOMAIN items' :
             items'[i] = IF i = 1 THEN [n |-> n, read |-> FALSE] ELSE items[i - 1]
        /\ items' \in Seq([n : 1..Broadcasts, read : BOOLEAN])
    <3>1. TypeOK /\ push(n)
      BY <1>8 DEF HInv, IInv, n
    <3> QED
      BY <2>1, <3>1, PushKeepsTypes
  <2>7. DOMAIN items' = 1..Len(items') /\ Len(items) \in Nat /\ seen \in Nat
        /\ MAX_ITEMS \in Nat \ {0}
    <3>1. Len(items) \in Nat /\ seen \in Nat
      BY DEF HInv, IInv, TypeOK
    <3> QED
      BY <2>6, <3>1, NotificationsAssumption
  <2>8. Len(items') = IF Len(toasts') < MAX_ITEMS THEN Len(toasts') ELSE MAX_ITEMS
    BY <2>2, <2>6, <2>7 DEF HInv, Recorded
  <2>9. ASSUME NEW i \in 1..Len(items')
        PROVE  /\ items'[i].n = toasts'[Len(toasts') + 1 - i]
               /\ items'[i].read <=> i > Len(toasts') - seen
    <3>1. CASE i = 1
      <4>1. items'[i].n = n /\ ~items'[i].read
        BY <2>6, <2>7, <3>1
      <4>2. Len(toasts') - seen >= 1 /\ Len(toasts') + 1 - i = Len(toasts) + 1
        BY <2>2, <2>7, <3>1 DEF HInv, Recorded
      <4> QED
        BY <2>2, <2>7, <3>1, <4>1, <4>2
    <3>2. CASE i # 1
      <4>1. i - 1 \in 1..Len(items) /\ items'[i] = items[i - 1]
        BY <2>6, <2>7, <3>2
      <4>2. /\ items[i - 1].n = toasts[Len(toasts) + 1 - (i - 1)]
            /\ items[i - 1].read <=> i - 1 > Len(toasts) - seen
        BY <4>1 DEF HInv, Recorded
      <4>3. Len(items) <= Len(toasts)
        BY <2>2, <2>7 DEF HInv, Recorded
      <4>4. Len(toasts) + 1 - (i - 1) \in 1..Len(toasts)
            /\ Len(toasts') + 1 - i = Len(toasts) + 1 - (i - 1)
        BY <2>2, <2>7, <4>1, <4>3
      <4>5. i - 1 > Len(toasts) - seen <=> i > Len(toasts') - seen
        BY <2>2, <2>7
      <4> QED
        BY <2>2, <4>1, <4>2, <4>4, <4>5
    <3> QED
      BY <3>1, <3>2
  <2>10. seen' <= Len(toasts')
    BY <1>1, <2>2, <2>7 DEF HInv, Recorded
  <2> QED
    BY <1>1, <2>5, <2>8, <2>9, <2>10 DEF HInv, Recorded
<1> QED
  BY <1>1, <1>4, <1>7, <1>8 DEF handleEvent

LEMMA ToggleKeepsOrder ==
  ASSUME HInv, toggle, IInv'
  PROVE  HInv'
<1>1. UNCHANGED <<link, channel, sent, toasts>> /\ UNCHANGED socket
  BY DEF toggle, link
<1>2. Ordered'
  BY <1>1 DEF HInv, Ordered
<1>3. CASE UNCHANGED <<items, seen>>
  BY <1>1, <1>2, <1>3 DEF HInv, Recorded
<1>4. CASE markAllRead /\ seen' = Len(toasts)
  <2>1. /\ Len(toasts) \in Nat /\ Len(items) \in Nat /\ DOMAIN items = 1..Len(items)
        /\ items' = [i \in 1..Len(items) |-> [items[i] EXCEPT !.read = TRUE]]
        /\ \A i \in 1..Len(items) : items[i] \in [n : 1..Broadcasts, read : BOOLEAN]
    <3>1. items \in Seq([n : 1..Broadcasts, read : BOOLEAN])
          /\ toasts \in Seq(1..Broadcasts)
      BY DEF HInv, IInv, TypeOK
    <3>2. Len(toasts) \in Nat /\ Len(items) \in Nat /\ DOMAIN items = 1..Len(items)
      BY <3>1
    <3>3. items' = [i \in 1..Len(items) |-> [items[i] EXCEPT !.read = TRUE]]
      BY <1>4, <3>2 DEF markAllRead
    <3>4. \A i \in 1..Len(items) : items[i] \in [n : 1..Broadcasts, read : BOOLEAN]
      BY <3>1, ElementOfSeq
    <3> QED
      BY <3>2, <3>3, <3>4
  <2>2. /\ Len(items') = Len(items)
        /\ \A i \in 1..Len(items) : items'[i].read /\ items'[i].n = items[i].n
    BY <2>1
  <2>3. seen' <= Len(toasts') /\ \A i \in 1..Len(items) : i > Len(toasts') - seen'
    BY <1>1, <1>4, <2>1
  <2>4. Recorded'
    BY <1>1, <2>2, <2>3 DEF HInv, Recorded
  <2> QED
    BY <1>2, <2>4 DEF HInv
<1> QED
  BY <1>3, <1>4 DEF toggle
LEMMA LinkStepsKeepOrder ==
  ASSUME HInv, IInv', NEW s \in Sockets,
         Link(s) \/ Break(s) \/ open \/ TicketGranted \/ TicketRefused \/ TicketFails
         \/ disconnect
  PROVE  HInv'
<1>1. channel \in [Sockets -> Seq(1..Broadcasts)] /\ socket \in [Sockets -> ReadyState]
  BY DEF HInv, IInv, TypeOK
<1>2. CASE open \/ TicketRefused \/ TicketFails
  <2>1. UNCHANGED <<channel, socket, sent, toasts, items, seen>>
    BY <1>2 DEF open, TicketRefused, TicketFails, feed
  <2> QED
    BY <2>1, LinkKeepsOrder
<1>3. CASE TicketGranted
  <2>1. UNCHANGED <<channel, sent, toasts, items, seen>>
    BY <1>3 DEF TicketGranted, feed
  <2>2. \A r \in Sockets : socket[r] \in {"connecting", "open"} => socket'[r] = socket[r]
    BY <1>1, <1>3 DEF TicketGranted
  <2> QED
    BY <2>1, <2>2, LinkKeepsOrder
<1>4. CASE Link(s)
  <2>1. UNCHANGED <<channel, sent, toasts, items, seen>>
    BY <1>4 DEF Link, onopen, onerror, onclose, feed
  <2>2. \A r \in Sockets : socket[r] \in {"connecting", "open"} =>
                           socket'[r] \in {"connecting", "open"}
    BY <1>1, <1>4 DEF Link, onopen, onerror, onclose
  <2> QED
    BY <2>1, <2>2, LinkKeepsOrder
<1>5. CASE Break(s)
  <2>1. UNCHANGED <<sent, toasts, items, seen>>
    BY <1>5 DEF Break, feed
  <2>2. \A r \in Sockets : \/ channel'[r] = <<>>
                           \/ channel'[r] = channel[r] /\ socket'[r] = socket[r]
    BY <1>1, <1>5 DEF Break
  <2> QED
    BY <2>1, <2>2, LinkKeepsOrder
<1>6. CASE disconnect
  <2>1. UNCHANGED <<sent, toasts, items, seen>>
    BY <1>6 DEF disconnect
  <2>2. \A r \in Sockets : \/ channel'[r] = <<>>
                           \/ channel'[r] = channel[r] /\ socket'[r] = socket[r]
    BY <1>1, <1>6 DEF disconnect
  <2> QED
    BY <2>1, <2>2, LinkKeepsOrder
<1> QED
  BY <1>2, <1>3, <1>4, <1>5, <1>6

\* Any step keeps the order of the feed, given IInv before and after it.
THEOREM HistoryInvariance == Spec => []HInv
<1>1. Init => Ordered /\ Recorded
  <2> SUFFICES ASSUME Init PROVE Ordered /\ Recorded
    OBVIOUS
  <2>1. Ordered
    BY DEF Init, Ordered
  <2>2. Recorded
    BY NotificationsAssumption DEF Init, Recorded
  <2> QED
    BY <2>1, <2>2
<1>2. HInv /\ IInv' /\ [Next]_vars => HInv'
  <2> SUFFICES ASSUME HInv, IInv', [Next]_vars PROVE HInv'
    OBVIOUS
  <2>1. CASE UNCHANGED vars
    BY <2>1 DEF vars, HInv, Ordered, Recorded
  <2>2. PICK r \in Sockets : TRUE
    <3>1. 1 \in Sockets
      BY NotificationsAssumption DEF Sockets
    <3> QED
      BY <3>1
  <2>3. CASE open \/ TicketGranted \/ TicketRefused \/ TicketFails \/ disconnect
    BY <2>2, <2>3, LinkStepsKeepOrder
  <2>4. CASE Send \/ toggle
    BY <2>4, SendKeepsOrder, ToggleKeepsOrder
  <2>5. ASSUME NEW s \in Sockets, Link(s) \/ Break(s) \/ onmessage(s)
        PROVE  HInv'
    BY <2>5, LinkStepsKeepOrder, OnmessageKeepsOrder
  <2> QED
    BY <2>1, <2>3, <2>4, <2>5 DEF Next
<1>3. IInv /\ Ordered /\ Recorded => HInv
  BY DEF HInv
<1> QED
  BY <1>1, <1>2, <1>3, Invariance, PTL DEF Spec

\* What the bell counts.
LEMMA UnreadAreNew ==
  ASSUME HInv
  PROVE  unreadCount = IF Len(toasts) - seen < MAX_ITEMS THEN Len(toasts) - seen
                       ELSE MAX_ITEMS
<1> DEFINE new == Len(toasts) - seen
           last == IF new < MAX_ITEMS THEN new ELSE MAX_ITEMS
<1>1. /\ Len(toasts) \in Nat /\ seen \in Nat /\ MAX_ITEMS \in Nat \ {0}
      /\ seen <= Len(toasts) /\ DOMAIN items = 1..Len(items)
      /\ Len(items) = IF Len(toasts) < MAX_ITEMS THEN Len(toasts) ELSE MAX_ITEMS
  BY NotificationsAssumption DEF HInv, IInv, TypeOK, Recorded
<1>2. last \in Nat /\ last <= Len(items)
  BY <1>1
<1>3. \A i \in DOMAIN items : ~items[i].read <=> i <= new
  BY <1>1 DEF HInv, Recorded
<1>4. \A i \in DOMAIN items : i <= new <=> i \in 1..last
  BY <1>1
<1> HIDE DEF last
<1>5. {i \in DOMAIN items : ~items[i].read} = 1..last
  BY <1>1, <1>2, <1>3, <1>4
<1>6. Cardinality(1..last) = last
  BY <1>2, FS_Interval
<1> QED
  BY <1>5, <1>6 DEF unreadCount, last

\* The toasts of an event are different broadcasts of it.
LEMMA NoExtraToast ==
  ASSUME HInv, NEW e \in Events
  PROVE  Cardinality({i \in DOMAIN toasts : sent[toasts[i]] = e})
           <= Cardinality({n \in DOMAIN sent : sent[n] = e})
<1> DEFINE Shown == {i \in DOMAIN toasts : sent[toasts[i]] = e}
           Made == {n \in DOMAIN sent : sent[n] = e}
           f == [i \in Shown |-> toasts[i]]
<1>1. /\ toasts \in Seq(1..Broadcasts) /\ sent \in Seq(Events)
      /\ DOMAIN toasts = 1..Len(toasts) /\ Len(toasts) \in Nat
      /\ DOMAIN sent = 1..Len(sent) /\ Len(sent) \in Nat
  BY DEF HInv, IInv, TypeOK
<1>2. \A i \in DOMAIN toasts : toasts[i] \in 1..Broadcasts
  BY <1>1, ElementOfSeq
<1>3. \A i \in DOMAIN toasts : toasts[i] \in 1..Len(sent)
  BY <1>1, <1>2, NotificationsAssumption DEF HInv, Ordered
<1>4. f \in [Shown -> Made]
  BY <1>1, <1>3
<1>5. ASSUME NEW i \in Shown, NEW j \in Shown, i # j
      PROVE  f[i] # f[j]
  <2>1. i \in 1..(j - 1) \/ j \in 1..(i - 1)
    BY <1>1, <1>5
  <2>2. toasts[i] < toasts[j] \/ toasts[j] < toasts[i]
    BY <1>1, <2>1 DEF HInv, Ordered
  <2> QED
    BY <1>1, <1>3, <2>2
<1>6. IsFiniteSet(Made)
  <2>1. IsFiniteSet(1..Len(sent)) /\ Made \subseteq 1..Len(sent)
    BY <1>1, FS_Interval
  <2> QED
    BY <2>1, FS_Subset
<1> HIDE DEF f, Shown, Made
<1>7. f \in Injection(Shown, Made)
  BY <1>4, <1>5 DEF Injection, IsInjective
<1>8. Cardinality(Shown) <= Cardinality(Made)
  BY <1>6, <1>7, FS_Injection
<1> QED
  BY <1>8 DEF Shown, Made

\* The toasts are broadcasts in order and once each, across any number of
\* reconnections, so that no event is shown more often than it was broadcast;
\* the history is their end, and the bell counts those it has not shown yet.
THEOREM HistoryIsFaithful == Spec => []HistoryMatchesToasts
<1>1. HInv => HistoryMatchesToasts
  <2> SUFFICES ASSUME HInv PROVE HistoryMatchesToasts
    OBVIOUS
  <2>1. /\ DOMAIN toasts = 1..Len(toasts) /\ Len(toasts) \in Nat
        /\ DOMAIN items = 1..Len(items)
    BY DEF HInv, IInv, TypeOK
  <2>2. \A i, j \in DOMAIN toasts : i < j => toasts[i] < toasts[j]
    <3> SUFFICES ASSUME NEW i \in DOMAIN toasts, NEW j \in DOMAIN toasts, i < j
                 PROVE  toasts[i] < toasts[j]
      OBVIOUS
    <3>1. i \in 1..(j - 1) /\ j \in 1..Len(toasts)
      BY <2>1
    <3> QED
      BY <3>1 DEF HInv, Ordered
  <2>3. \A i \in DOMAIN items : items[i].n = toasts[Len(toasts) + 1 - i]
    BY <2>1 DEF HInv, Recorded
  <2>4. \A e \in Events :
          Cardinality({i \in DOMAIN toasts : sent[toasts[i]] = e})
            <= Cardinality({n \in DOMAIN sent : sent[n] = e})
    BY NoExtraToast
  <2> QED
    BY <2>2, <2>3, <2>4, UnreadAreNew DEF HistoryMatchesToasts, HInv, Recorded
<1> QED
  BY <1>1, HistoryInvariance, PTL
=============================================================================
