# Projeto Aurora: formal models

TLA+ models of Projeto Aurora (`src/backend`, Go; `src/frontend`, TypeScript):
the concurrent core of the backend, and everything in the browser and in the
frontend's server that keeps state. They are model-checked with TLC and, for
the most part, proved with TLAPS. The models are written from the code. Where
a comment of the code and the code disagree, the model follows the code, and
the disagreement is listed under [Findings](#findings).

Paths that start with `frontend/` are under `src/frontend/src`, paths without a
prefix under `src/backend/internal/platform`; others start with `src/`.

## The system

Aurora is a platform of two backend processes, `api` and `worker`, any number
of replicas of each, over PostgreSQL and RabbitMQ; and a Next.js frontend: a
server that renders pages, keeps the session in an encrypted cookie and
forwards calls to the backend (the BFF), and the pages in the browser's tabs.

| Component | State | Operations | Interacts with |
|---|---|---|---|
| Transactional outbox (`outbox/`) | table `outbox_events`; per worker: wake channel, LISTEN connection, the open batch | `Writer.Write` in a business transaction; `Publisher.Run`, `listenLoop`, `publishPendingBatch` | use cases (same transaction), RabbitMQ (publish and confirm), other workers (row locks) |
| Messaging (`messaging/`) | one AMQP connection per process, queues, DLQs, in-flight deliveries | `Publish`, `Consume`, `handleDelivery`, `republish`, reconnection | exchange, handlers, shutdown of the process |
| Idempotency (`idempotency/`) | table `idempotency_keys` | `Claim`, `Complete`, `Fail`, the middleware, `Cleanup` in the worker | concurrent requests, replicas, clients that leave |
| Jobs (`jobs/`) | table `jobs` | `Create`, `Mark...` through `transition`; `SweepStale` | redeliveries, the consumer's retry policy, the sweeper |
| WebSocket hub (`ws/`) | set of clients, broadcast buffer, a send buffer and two pumps per client | `Register`, `Unregister`, `Broadcast`, `Run`, pumps | notification consumer, browsers, shutdown of `cmd/api` |
| Session (`frontend/lib/auth`, `proxy.ts`, `lib/api`) | session cookie shared by the tabs, the Keycloak session | `callbacks.jwt` and `refreshAccessToken`, `accessTokenUsable` in proxy, BFF and `serverApiGet`, sign-in, `fullSignOut` | Keycloak, local login, backend, all tabs |
| Notification client (`frontend/lib/websocket`, `components/notifications`) | socket, retry timer, status; toasts and history | `connect`, `open`, `scheduleReconnect`, `disconnect`; `handleEvent`, bell | tickets, hub, mount and unmount of the shell |
| Toasts (`ToastProvider.tsx`) | toasts, three maps of timers and times | `showToast`, `pause`, `resume`, `dismiss` | mouse, focus, timers |
| Feature flags (`FeatureFlagsPanel.tsx`, `Sidebar.tsx`) | switches, `pendingKey`; the menu's flags | `toggle`, load | overlapping PATCHes, table `feature_flags` |
| Keycloak settings (`KeycloakSettingsForm.tsx`, `keycloakconfig/`) | form, result, calls under way; settings row, verifier | test, save, resolution of a blank secret, `Reload` | issuer over the network, environment |
| Health (`PlatformMonitoringDashboard.tsx`, `api/health`) | SWR's data and error | polling, `getSystemHealth`, cards | `/ready` |
| Preferences (`brandingStore.ts`, `sidebarCollapsedStore.ts`, `ThemeToggle.tsx`) | cookies, older `localStorage`, a copy per tab | `update...Store`, hydration, promotion, form, bar | server render, other tabs, operating system |
| WebSocket tickets (`ws/ticket.go`) | map of tickets, in memory | `Issue`, `Redeem`, eviction | HTTP handler, browser |
| Worker supervisor (`src/backend/internal/app/worker.go`) | processors and backoffs | `supervised`, `Run`, metrics server | all background processors |
| Local login (`localauth/`), rate limiter (`ratelimit/`) | failed attempts and locks; buckets | `Login`, `RegisterFailedAttempt`; `Allow`, `Cleanup` | requests of all replicas |
| LGPD requests (`lgpd/`), WORM export (`audit/worm.go`) | requests, users; export records, immutable objects | create, `ErasureProcessor`; `run`, `exportOneDay` | worker replicas, audit, object storage |
| CRUD modules, configuration, storage, telemetry, static pages | - | single statements, I/O, rendering | - |

`PROJECT.json` lists every component with its status and, under `hazards`,
what is hard to test in each, at the line where it bites, with the properties
that cover it.

What makes this system hard:

* **Two stores, no distributed transaction.** PostgreSQL and RabbitMQ are tied
  together by the outbox on one side and acknowledgements on the other. Every
  crash or lost confirm between two of their steps loses, duplicates or delays
  an event.
* **Replicas meet only in the database**, through row locks (`FOR UPDATE`,
  `SKIP LOCKED`, `ON CONFLICT`) under READ COMMITTED, where one statement is
  not one step.
* **Goroutines and channels** in the hub and in the consumer, whose shutdown
  races everything else.
* **Retry, redelivery and a sweeper** act on the same job at the same time.
* **One cookie, many writers.** Every answer of the session route, however late
  and to whichever tab, sets the session cookie; a server render can spend a
  refresh token but cannot store the one it got for it.
* **State read before an `await` and used after it**: tickets, optimistic
  switches, tests and saves of a form, polls, all answered in any order, by
  components that may be unmounted meanwhile.
* **Copies nobody refreshes**: per-tab stores over shared cookies, SWR's last
  data beside an error, a menu drawn once.

## Modules

| Module | Models | |
|---|---|---|
| `EventDelivery` | what the outbox promises | abstract specification |
| `Outbox`, `MCOutbox`, `OutboxProofs` | `outbox/`, `database.WithTx`, `messaging/publisher.go` | refines `EventDelivery`; checked and proved |
| `Consumer`, `MCConsumer`, `ConsumerProofs` | `messaging/consumer.go`, `connection.go`, `topology.go` | checked and proved |
| `Idempotency`, `MCIdempotency`, `IdempotencyProofs` | `idempotency/` | checked and proved |
| `JobLifecycle` | what the jobs package promises | abstract specification |
| `Jobs`, `MCJobs`, `JobsProofs` | `jobs/` | refines `JobLifecycle`; checked and proved |
| `Hub`, `MCHub`, `HubProofs` | `ws/hub.go`, `ws/client.go`, `src/backend/internal/app/notifications.go`, the shutdown of `cmd/api` | checked and proved |
| `Session`, `MCSession`, `SessionProofs` | `frontend/lib/auth`, `frontend/lib/api`, `frontend/proxy.ts`, the BFF route, the protected layout, the places that sign in and out | checked and proved |
| `Reconnection` | what the notification client promises to the page | abstract specification |
| `Notifications`, `MCNotifications`, `NotificationsProofs` | `frontend/lib/websocket`, `hooks/useNotifications.ts`, `components/notifications`, the shell | refines `Reconnection`; checked and proved |
| `FeatureFlags` | the panel, the menu, and the table behind them | parts of `Admin` |
| `KeycloakSettings` | the form, and `keycloakconfig/` behind it | |
| `Monitoring` | the health page, its route, `getSystemHealth`, the card of `/dashboard` | |
| `Prefs` | branding, contrast, font size, sidebar, theme | |
| `Toasts` | `ToastProvider.tsx` | |
| `Admin`, `MCAdmin`, `AdminProofs` | the five above, as the pages of one shell | checked and proved |

A few definitions of each module stand next to one they resemble and are used
by nothing (`NoLocks` before `Locked`, `OpenForgets` before `open`, and so on).
They are the *mutants* of `PROJECT.json`: each is the mistake that a property
is there to catch, and putting it in the place of its neighbour makes TLC find
that property violated.

### Outbox

State: `biz` is the business transaction around `Writer.Write`; `status` and
`attempts` are the committed columns of `outbox_events`; `copies` counts what
the broker has received. Per worker replica: `pc` is the place of
`Publisher.Run`, `work[r][e]` what its open transaction holds on a row (not yet
looked at, or the outcome of its UPDATE), `wake` the channel of capacity one,
`listen` and `note` the LISTEN connection and what waits on it. `fresh` is a
history variable for one property.

A batch is many steps, because the code's transaction spans network calls:
`Select` takes the locks, `PublishRow` handles the rows one by one in
`created_at` order, `CommitBatch` makes all outcomes visible. When PostgreSQL
aborts the transaction (`AbortBatch`: an UPDATE error is only logged) its locks
are released while the loop goes on publishing, and COMMIT becomes
`RollbackBatch`. `Shutdown` is the cancelled context: statements fail from then
on, but the remaining rows are still published. `Crash` loses all of the
process at once. `ConfirmLost` is a publish that failed although the broker has
the message. Envelopes that do not decode are the constant `Undecodable`.

Events are natural numbers ordered by `created_at`. Because that is stamped
before the commit, rows become visible in any order.

### Consumer

One `Consume` per queue, `Prefetch` goroutine slots each. `ready` and `dlq` are
the broker's queues, a message being a body and its attempt header, and `sent`
what the exchange has received; `task` and `held` are the goroutines, `loop`, `open`, `conn` and `stop` the loop, its
channel, the process's connection and its context. `Republished` routes the
retry through the exchange, as the code does, to *every* queue bound to the
key. `Settle` is the final Ack or Nack, which does nothing on a dead channel.
`ConnectionLost` and `Crash` return unacknowledged messages to the queue.
An event may be published again at the cost of a fault, as the outbox does after a
lost confirm or a rollback. `sent`, `handled` and `retries` are history, counted
per message. In the repository only
`aurora.notification.websocket` has a consumer; the model gives one to each
queue of its instance, each in a process of its own, since `Consumer` is written for any queue.

### Idempotency

One key, since keys do not interact. `Arrive` is the start of the `Claim`
statement, which takes its snapshot; `ClaimWon`, `ClaimLost` and `ClaimNotSeen`
are the moment its INSERT gets at the row and the fallback SELECT reads *the
snapshot*. `ClaimFails` and `ClaimNotSeen` let the request through, as the
middleware does on any error. `Finalize` is the UPDATE of `Complete` or `Fail`,
which names the key only; `FinalizeFails` is the same with a context cancelled
by the client's departure. `row.by` is not a column: it says whose response the
row holds. Responses are `ok` (kept), `large` (over `MaxCachedResponseBytes`)
and `error` (500 and above). `effects` counts handlers that took effect since
the row is known: whatever it answers, a handler may have taken effect or not (a
request that is refused, a COMMIT whose reply is lost); `Cleanup`, which deletes rows not updated for a day, resets
it, and needs that no owner is at work.

### Jobs

One job, a set of deliveries of its message (the original and native
redeliveries) and the sweeper. `Lock` is `SELECT ... FOR UPDATE`, `Apply` the
UPDATE with COMMIT, `Abandon` a refused transition or a failed transaction. A
delivery marks the job processing, works, and marks it completed or failed; the
consumer retries it, and after `MaxTries` the delivery marks it dead-lettered.
`age` is how long ago `started_at` lies, cut off just above `StaleAfter`, and `busy` how
long the attempt has been at work. The sweeper lists a stale job (`FindStale`)
and buries it later (`Bury`, `Buried`). `JobLifecycle` has none of it: a status, a
count of runs and the workers at work, which here are the deliveries between
`MarkProcessing` and their outcome. The repository's handler map is empty
today: the model has the handler that `StaleJobHandler` documents.

### Hub

`Dispatch`, `Register`, `Unregister` and `HubStops` are the cases of
`Hub.Run`'s select; a rendezvous on an unbuffered channel is one step of both
sides. `drops` counts the goroutines that `go h.Unregister(c)` has started and
not finished; `closed` the closed send channels; `panicked` is set when a
channel is closed twice or sent to after its close. `written` and `due` are
history. The notification consumer is `Consumer`'s loop reduced to what matters
here: deliveries, handlers inside `Broadcast`, and the wait for them.

### Session

State: `cookie` is the session cookie of the browser's jar; `idp` the Keycloak
session and the one refresh token it accepts; `page[t]` and `req[t]` what tab
`t` shows and the activity it is in; `answers` the answers of
`GET /api/auth/session` on their way. `now` is the time in seconds.

A request carries the cookie as it was when it was sent, and an answer sets
another when it lands: `SessionAsk` runs `callbacks.jwt` on the server, where
Keycloak may replace the refresh token; `SessionLand` stores the result, or
never arrives. A server render (`ProtectedLayout`) runs `callbacks.jwt` too but
cannot store anything. So does `Prefetch`, the render of `/dashboard` that the link on a
public page makes ahead of any click: the matcher of `proxy.ts` leaves prefetches out, so nobody
has judged their cookie. `polls[t]` says whether the timer of `/monitoramento` sends requests: SWR
stops it after an answer that is an error and while the page is hidden. `refreshAccessToken` is the set of its outcomes: refused, unanswered
(with the token replaced or not), answered with an `expires_in` that is no
number, renewed. `proxy`, `Request` (the BFF) and the fetch of `/dashboard` judge by
`accessTokenUsable` and renew nothing. `SignIn` goes through `callbacks.jwt` in the
same request, with a token whose expiry may be in the past or unparsable.
`fullSignOut`, `signOut`, `Leave` are the three awaits of `logout.ts`; each may
fail, and the code goes on.

### Notifications

`stopped`, `attempt`, `current` are fields of `NotificationClient`; `tickets` counts the
calls of `getTicket` that `open` awaits, `timers` the reconnection timers armed,
`socket[s]` the `readyState` of every socket made, with `failing` between an error
event and its close. `Init` is the mount; every callback is an action
(`TicketGranted`, `TicketRefused`, `TicketFails`, `onopen`, `onerror`, `onclose`,
`onmessage`), and `disconnect` (the unmount) may come between any two. The hook makes a new
client for each mount, so one client is one behaviour. `Send` is
`NotificationHandler` with the hub: it broadcasts an event it is given, for the first time
or again (published twice, or delivered again after a crash), to the sockets the hub has registered.
`sent` is the list of broadcasts, and what is on its way to a socket is a number in it; `KindOf`
says of an event whether it is shown, malformed, of another type, or no event. `toasts`
(history) are the broadcasts shown, `items` the bell's history, newest first and cut
at `MAX_ITEMS`; `toggle` opens the bell and marks all read. `Reconnection` knows one place
(asking, connecting, open, waiting, expired, ended), the failures in a row and the last
wait; `place` says where the client is from its tickets, timers and status.

### Admin and its five parts

They share the shell and the BFF but no state. `Admin` therefore follows, in
each behaviour, one of them, chosen in `Init` (`panel`): the union of their
behaviours instead of a product, which would only multiply states.

* `FeatureFlags`: `toggle` is a click that changes the switch at once and sends a PATCH, a
  record with a life of its own in `patches` (sent, applied, failed; `orphan`
  when the panel it belongs to was left). The answer or the rollback is written
  to whatever the panel shows by then; a call may end in an error before its request
  reaches the backend (`Cut`). `payload` is the page as it was rendered, from which `Back` mounts the panel
  again, and `Elsewhere` the writes of other administrators. `doubt` (history) are the flags of which
  the code cannot know better: changed again before the last change ended, mounted meanwhile, or
  ended without an answer; `behind` (history) those last written by others, or after the page
  was rendered.
* `KeycloakSettings`: `form`, `result`, `test` and `saves` are the form and the calls; each of `saves`,
  the form's and another administrator's, goes through the stages of the handler (`checked`, `stored`,
  `done`) without a lock, so that either may change the row between two steps of the other. `row`
  is the table, `live` what the verifier was loaded with, which a failed `Reload` leaves behind; the process
  may restart at any moment, on the environment first and then on what is saved, if it can
  be read and loaded.
* `Monitoring`: `up` and `healthy` are the world; `answer` is made by the route at one
  moment and read by the page (`health`, `error`) at another. SWR keeps the last
  data beside an error. `PlatformMonitoringDashboard` and `Dashboard` are what is drawn.
* `Prefs`: `jar` and `storage` are shared by the tabs; `tab[t]` is the page of a tab, before
  and after it comes alive: what the server painted, the stores' copies, the
  form, and the `ThemeToggle` beside the theme painted. A tab goes from public pages to the shell and
  back without a load; each time the toggle of the header is mounted anew, in `Topbar` with the theme of a
  layout rendered now or before (`had`), in `PublicShell` without any. Promotion of values older versions left, cookies too long for the browser,
  and a copy that other tabs' writes leave `behind` are all there.
* `Toasts`: for each toast the three maps of the provider; a timer that was replaced without being cleared is an
  orphan and still fires, and every timer may fire late.

## Runs

Sizes are those of the checked instances, with the exact values in the `.cfg`
files.

| Run | Distinct states | What it shows |
|---|---|---|
| `outbox` | 73 437 | Two replicas, one of them with a LISTEN connection; two events, one undecodable; batches of two, two attempts, two faults: safety, refinement, and that every event is settled |
| `consumer` | 1 817 679 | Two queues bound to one key (up to exchanging them), two slots, one fault, one graceful shutdown |
| `consumer_liveness` | 52 864 | Shutdown ends, and every event is handled or dead-lettered unless `Consume` returned; both unless a handler never returns |
| `consumer_lifetime` | - | violated: finding 1 |
| `idempotency` | 127 470 | Three requests, two payloads, handlers that take effect or not whatever they answer, two faults |
| `jobs` | 34 123 | A message and its redelivery, three tries, sweeper, two faults: safety, refinement of `JobLifecycle`, and no orphan |
| `hub` | 92 206 | Two browsers, two notifications, buffers of one |
| `session` | 388 139 | Two tabs, one sign-in, tokens of two seconds and a clock of three, rotation, every answer late or lost, prefetches, polls that stop |
| `session_signout` | - | violated: finding 2 |
| `notifications` | 359 768 | Four sockets, three faults, three broadcasts of events old or new, a history of two: safety, refinement of `Reconnection`, and the client comes back |
| `admin` | 673 161 | Three clicks on two flags, here and elsewhere; two issuers, a secret beside the environment's, two edits or saves of another administrator; two dependencies, four changes of the world; two tabs, two clicks; a toast |
| `keycloak_adoption` | - | violated: finding 3 |

The type invariants are proved (`TypeCorrect` of each proof module), not
checked by a run of their own.

### The properties

* **Outbox.** `FailedIsJustified`: giving up takes `MaxAttempts` counted
  failures; attempts of rolled-back batches do not count. `DuplicatesAreFaults`:
  copies beyond the first are bounded by the faults, so row locks do keep
  replicas apart. `NoLostWakeup`: a listening replica has a pending NOTIFY or
  wake for every row it has not looked for. `ImplementsDelivery`: refinement of
  `EventDelivery`. `EventuallySettled`: no committed event stays pending.
* **Consumer.** `NoEventLost`; `NoSpuriousDuplicate`: of each message, a queue ends every copy
  it is sent once, by a success or by a retry, and a fault repeats at most what was in
  flight; `DeadLetterIsJustified`: an event reaches a DLQ only if it is no envelope, or after
  every one of its retries went through the exchange; `StopEnds` and `EventuallyDone`: a shutdown
  ends and every event is settled, and nothing but a handler that never returns (`HandlerHangs`) can
  prevent either.
* **Idempotency.** `OneOwner`; `ExtraEffectsAreAccounted`: one effect at most is of a request that
  held the key and left it so, every other of one that a failed `Claim` let through or after which
  the middleware released the key (too large a response, a server error in spite of the
  effect); `ReplayIsFaithful`, `KeyIsKept` (a row
  never changes its payload, and a stored response is never replaced), `StuckKeyIsFreed`.
* **Jobs.** `OneRunner`; `ImplementsLifecycle`: refinement of `JobLifecycle`, so a run is
  ended by whoever runs it, attempts count runs, and no end is revised; `OrphanIsBuried`.
* **Hub.** `NoPanic`; `StreamIsWhole`: a client that nobody is dropping has been given all that
  was broadcast since it registered, in order; `SlowClientIsDropped`, `LostConnectionEnds`.
* **Session.** `KnownExpiry`: the branch of `accessTokenUsable` for a token without
  an expiry never decides, because nothing ever puts one in the cookie.
  `NoBearerDiesInFlight`: a bearer judged usable is still valid when the backend
  judges it. `NavigationNeverSpendsRefresh`: the render of a navigation finds the token the proxy judged
  still valid, so it never spends a refresh token it could not store; prefetches and `/exemplos` may.
  `DeadSessionReachesLogin`: a page left open on a dead session does not stay there, unless
  its poll stops again and again, or for good.
* **Notifications.** `OneChain`: until the unmount or a 401 exactly one ticket, timer or
  socket is at work, and none after. `StatusIsHonest`, `ComesBack`. `HistoryMatchesToasts`: no broadcast is
  shown twice or out of order, an event no more often than it was broadcast, and the bell has the
  latest toasts and the number of the new ones.
  `ImplementsReconnection`: refinement of `Reconnection`, one loop in which no failure is
  counted twice or forgotten and nothing that comes late is a step.
* **Admin.** `FlagsAreTrue`, `VerdictIsAboutTheForm`, `CardsAreHonest`,
  `EventuallyWarns`, `ToastsTakeTheirTime`; `VerifierFollowsRow`: whatever two saves, failures and restarts
  do, tokens are verified against the saved connection but for a save on its way, a failed reload, or two
  saves that overlapped; and of `Prefs` `NoFlash` (a page coming alive does not
  swap what the server painted), `ReloadShowsLast`, `OnlyWhatWasAsked`. Each names the exceptions
  the code has; those are under [Findings](#findings).

### Bounds, and why they are enough

Unbounded in the code and bounded in an instance, each by a constant that is named in
its module and appears in a guard: faults (`MaxFaults`), graceful shutdowns
(`MaxStops`), events, requests, deliveries, clients and notifications of the
backend; sign-ins (`MaxLogins`), answers on their way (`MaxAnswers`), the clock (`MaxTime`,
`MaxClock`), sockets (`MaxSockets`), clicks and edits (`MaxToggles`, `MaxEdits`,
`MaxClicks`), changes of the world (`MaxChanges`), and the tabs that visit the form and public
pages (`BusyTabs`); `PrefsInit` has values of an older version in both stores or in neither. They were chosen so that the interesting cases happen: the last attempt, two
replicas at one row, one queue's retry reaching the
other queue, a second try of a job older than `StaleAfter`, every buffer full, more
notifications than the bell keeps, a backoff at its maximum, a token that
expires while its renewal is on its way, a third click on a flag of which two are
under way, a cookie that is too long.

Two actors are enough for the races between equals; the third request of
`idempotency` is the other payload. `MaxAnswers` is one: renewals still race,
through a session request and a server render or a sign-in and sign-out of
another tab; the theorems hold for any number. One toast is enough because
toasts have timers of their own. `MaxTime` of three with tokens of two seconds and
a margin of one has every order of expiry, margin and flight. The proof modules
remove the bounds from most of the safety properties.

The safety run of `Consumer` takes its two queues as symmetric: they are bound to the same
key and no property or constant tells them apart. No other run uses symmetry, because
the others check temporal properties.

### Fairness, and why the code justifies it

* `Outbox`: the loop takes a pending wake, the ticker fires, a publish returns,
  a batch ends, the orchestrator restarts a worker. Nothing is assumed of
  use cases, of NOTIFY, of the LISTEN connection, or of what the broker
  answers. A failed publish costs an attempt, so settling needs no luck.
* `Consumer`: timers fire, the broker delivers and answers, the supervisor
  reconnects, a stopped process is started again, and `handleDelivery` goes on once its handler
  has returned (`Aftermath`). Nothing is assumed of the handler, not even that it returns: that of the
  notification consumer may wait for ever, in `Broadcast` of a stopped hub (see Findings).
* `Idempotency`: statements return, handlers end, the clean-up runs.
* `Jobs`: strong fairness on taking the row lock, because PostgreSQL queues the
  waiters; time passes, the sweeper ticks, transactions end. A handler ends by
  its timeout because `Tick` does not pass it.
* `Hub`: goroutines are scheduled and a select's ready case is taken in the
  end (Go chooses among ready cases at random, so no case starves). Write and
  read deadlines end the pumps of a dead connection. Browsers and signals are
  free.
* `Session`: answers to a tab's requests come (`Work`, weak), and the timer by which
  `/monitoramento` polls fires in spite of the tab's other activities (strong), as long as SWR lets it:
  after an answer that is an error, and in a hidden page, it does not. Users,
  Keycloak and the session route are free.
* `Notifications`: timers fire, tickets are answered, sockets open or close. What the
  answers are is open, within `MaxFaults`.
* `Admin`: SWR polls and its fetches are answered (`Poll`). Nothing else.

### Deadlock

TLC checks `outbox`, `session` and `admin` for deadlock. `CHECK_DEADLOCK FALSE` stands where the
modelled system may stop: all requests are answered (`Idempotency`), the job is
over (`Jobs`), the hub is shut down or all notifications are delivered and
browsers gone (`Hub`), the dashboard is unmounted (`Notifications`), and a consumer whose
`Consume` returned after a lost connection, in a process that nobody stops, does
nothing any more (`Consumer`, finding 1).

## Proofs

The proof modules hold for every value of the constants their `ASSUME`s admit:
any number of events, replicas, requests, deliveries, clients, tabs, flags, issuers,
dependencies and toasts, any buffer, batch size, lifetime and margin, any number of faults. Each has
`Init => IInv`, `IInv /\ [Next]_vars => IInv'`, and a theorem per property.

| Module | Properties proved | Inductive invariant |
|---|---|---|
| `OutboxProofs` | `TypeOK`, `FailedIsJustified`, `DuplicatesAreFaults`, `NoLostWakeup`, `ImplementsDelivery` | `TypeOK`; `RowOfTx` (a row is visible exactly when its transaction committed); `WorkOnRows` (only existing rows are in a batch, and an outcome is staged only in a live transaction); `Locks` (a locked row is pending, and one transaction holds it); `Justified` (what is staged or recorded has happened: the broker has a "published" row, a "failed" one had its attempts) |
| `ConsumerProofs` | `TypeOK`, `NoEventLost`, `DeadLetterIsJustified`, `NoSpuriousDuplicate`; that a consumer which returned stays deaf | `TypeOK`; `Bindings` (messages only in queues bound to their key); `Idle` (a consumer that returned holds nothing); `Acks` (whoever acknowledges has handled the message, or a copy with a higher attempt waits); `NoEventLost`; beside it `DeadInv` (a message stems from its lower attempts) and `Balance` (copies ready, at work, handled and retried against copies sent) |
| `IdempotencyProofs` | `TypeOK`, `OneOwner`, `ExtraEffectsAreAccounted`, `ReplayIsFaithful`, `KeyIsKept` | `TypeOK`, `OneOwner`, and that the row and every snapshot stem from an owner with their hash, completed ones from a result `ok`; `Finishers` (only owners reach `finalizeClaim`); `Unanswered` (no answer before `Claim` has returned); `Sources` (the same of every replay given) |
| `JobsProofs` | `TypeOK`, `OneRunner`, `ImplementsLifecycle`, that an outcome is final | `TypeOK`; `Locked` (one transaction at most, which has seen the present status); `Purpose` (a transaction's target fits the place of its delivery); `RetriesLeft`; `RunnersJob` (a runner's job is processing, or was dead-lettered under it); `OneRunner` |
| `HubProofs` | `TypeOK`, `NoPanic`, `StreamIsWhole`, that a full buffer hangs for ever | `TypeOK`, `NoPanic`; `OpenWhileRegistered`; `StoppedIsEmpty`; `Fresh` (a client not yet started has seen nothing); `StreamIsWhole` |
| `SessionProofs` | `TypeOK`, `KnownExpiry`, `NoBearerDiesInFlight`, `NavigationNeverSpendsRefresh`; what a lost rotation and a late answer can do | `TypeOK`; the cookie and every answer have a known expiry or an error mark; `RequestOK` (a request under way carries a token that had the margin left when it was sent, and it is not older than `Flight`) |
| `NotificationsProofs` | `TypeOK`, `OneChain`, `StatusIsHonest`, `ImplementsReconnection`, `RetriesSlowDown`, `HistoryMatchesToasts` | `Point`: the client is in one of few places (waiting for a ticket, for a timer, on the current socket, over, refused), each with its counters; for the history `Ordered` (messages on their way are newer than those shown and in order, in one channel at a time) and `Recorded` (items are the latest toasts, the first of them unread) |
| `AdminProofs` | `AdminTypeOK`, `FlagsAreTrue`, `VerdictIsAboutTheForm`, `VerifierFollowsRow`, `CardsAreHonest`, `ToastsTakeTheirTime`, `ReloadShowsLast`, `NoFlash`, `OnlyWhatWasAsked` | one for each part: `FlagsInv`, `KeycloakInv`, `MonitoringInv`, `ToastsInv`, `PrefsInv` (`UpToDate`: a page not behind another tab has what the cookies say; `PageOK`: a form differs from its branding only in the fields edited; and `ReloadShowsLast`) |

Why the strengthening is needed. `FailedIsJustified` speaks of committed
columns, but what is committed was decided earlier, inside the batch: `Justified`
carries the reason from `PublishRow` to `CommitBatch`. `DuplicatesAreFaults` is not
inductive because a copy is made before it is recorded: `DupInv` balances, for each
event, copies against faults, the record, and a *debt* for an outcome of an open
transaction; `Locks` makes that at most one. `NoEventLost` is threatened by every acknowledgement,
which takes a copy away: `Acks` says what is left, a copy with a *higher* attempt and not just another
one, since two messages could otherwise each be the excuse of the other. `DeadLetterIsJustified` needs
the way a message came: none is at a queue or in a goroutine whose lower attempts were not all
sent, and only the last attempt gives up. `NoSpuriousDuplicate` is a balance: every copy sent to
a queue is ready, undecided in a goroutine, handled or sent on; only a fault lets one be in two of
these, and it takes at most `Prefetch` at once. `ExtraEffectsAreAccounted` holds because an effect
of a request that was neither let through nor released still *holds* the row, so a
second one cannot claim it. `OneRunner` follows from the row's
status only together with the fact that whoever has the lock has seen the
status as it is. `NoPanic` needs that a client is closed only when it leaves
`clients`, and that it never enters again. `NavigationNeverSpendsRefresh` needs that
the token the proxy judged had `Skew` left *then*, and that `Flight` (assumed no longer than
`Skew`) bounds what has passed since. `OneChain` counts; `Point` says which one of the things
counted it is, without which neither a late ticket nor a late close can be placed.
`FlagsAreTrue` needs that a switch not in doubt says what its only PATCH
will make of the table, applied or not, and that the page the router keeps is right but for what
was written since it was rendered (`Recalled`), or `Back` could mount anything.
`VerifierFollowsRow` needs that a save between row and verifier is the only one there and wrote the row
as it is, unless two overlapped. `ToastsTakeTheirTime` needs that the time left and the
time the toast was free add up to `AUTO_DISMISS_MS`. `OnlyWhatWasAsked` needs `UpToDate`: a tab writes its
own copy, so it leaves the other fields alone only if that copy is what is kept.

Three theorems called `Implementation` prove that the initial state maps to an initial state and
every step to a step of the abstract specification or a stutter. In `OutboxProofs`, `CommitTx`
is `Owe`, a publish the broker received is `Deliver`, `CommitBatch` is one `Settle`. In
`JobsProofs`, the `Apply` that commits a transition is `Run`, `End` or `GiveUp` by its target, and a
delivery that dies, or that learns its job was buried, is `LetGo`: that an `End` is by the one
runner is `RunnersJob` and `OneRunner`, and that nothing else moves the status is the row lock.
`OutcomeIsFinal` is then a fact of the abstract specification alone. In `NotificationsProofs`,
`scheduleReconnect` is `Fail` from wherever it is called, and every callback of an abandoned
life is a stutter. That an opening comes from "connecting" needs `Unopened`: a socket
still connecting has left the status at "connecting".

Some theorems say how far a failure reaches (see Findings). `LostRotationIsFinal`: when
Keycloak has replaced a refresh token and neither the cookie nor an answer has the new one, only a
sign-in mends the session; it needs `TokensAreIssued`, that no session carries a token
not issued yet, since otherwise a later rotation might make it the accepted one.
`OnlyOldAnswersReopen`: what undoes a sign-out, if not a sign-in, is an answer older than it. `ReturnedConsumerIsDeaf`: once `Consume` has
returned, no reconnection makes that queue's handler run again; only a shutdown or a crash
ends this. `FullBufferHangs`: a handler that waits in `Broadcast` for a stopped hub with a
full buffer waits for ever; `hub`'s instance reaches such a state.

`TestedIsStored` is no theorem: it is false on a platform with a secret of its own in the
environment, of which `keycloak_adoption` is the counterexample, and whenever two saves overlap.
`TokensFollowTheRow` states what does hold of two saves, for every environment.

Only model-checked: the liveness properties, since fairness and `ENABLED` are out of the prover's
reach: `EventuallySettled`, `StopEnds`, `EventuallyDone`, `StuckKeyIsFreed`, `OrphanIsBuried`,
`SlowClientIsDropped`, `LostConnectionEnds`, `DeadSessionReachesLogin`, `ComesBack` and
`EventuallyWarns`. Every safety and action property that a passing run checks is proved as well.

## Findings

Runs that TLC is expected to violate, each a statement of the repository's own
comments or tests:

1. `consumer_lifetime`: after a lost connection `Consume` returns `nil` and nobody
   calls it again; the reconnected process consumes nothing
   (`messaging/consumer.go:101`, `src/backend/cmd/api/main.go:64-70`), although the
   consumer "runs for the whole life of the process". `ReturnedConsumerIsDeaf` proves it for every
   instance.
2. `session_signout`: the answer of a session request that was under way at the
   sign-out lands after it and sets the cookie again, while the page says that the
   session was closed (`frontend/lib/auth/logout.ts:34`). `OnlyOldAnswersReopen` proves that
   nothing else does this.
3. `keycloak_adoption`: on a platform that runs on its environment, saving with a blank
   secret tests the environment's secret and stores an empty one
   (`keycloakconfig/store.go:156`).

Met while modelling, quoted in `PROJECT.json` and without a run:

* idempotency: concurrent first requests can both run the handler
  (`idempotency/postgres.go:55`); a server error after the effect (a COMMIT whose reply is lost) releases the key,
  and a retry repeats the effect (`middleware.go:143`); `finalizeClaim` in a cancelled context leaves
  the key in "processing"; `Cleanup` deletes keys of any status;
* jobs: `started_at` is the first attempt's, so a retried job is buried while at work
  (`jobs/repository.go:71`); the sweeper's comment on acknowledgements is not what the consumer does;
* `Broadcast` has no `done` case (`ws/hub.go:126`; theorem `FullBufferHangs`); `NotificationHandler` broadcasts
  a redelivered event again, and no one looks at the event's id (`notifications.go:41`); nobody consumes `aurora.example.worker`;
* session: the comment on tokens without expiry describes a case that cannot occur;
  `/exemplos` is not among the prefixes of `proxy.ts`; a prefetch of `/dashboard`
  renders without the proxy and may spend a refresh token (`proxy.ts:128`); a poll that ended in an error does
  not notice the end of the session (`swr.ts:48`); the anonymous LGPD acceptance always gets 401;
* flags: the rollback writes `!next` (`FeatureFlagsPanel.tsx:36`): `doubt` in `FlagsAreTrue`; the Back button mounts the
  panel from the page rendered before, and others' writes are never shown (line 23): `behind`;
* Keycloak form: an answer sets a verdict on fields that have changed (`crossed` in
  `VerdictIsAboutTheForm`); toast and badge after a failed reload claim it happened; two saves at once
  store a secret that was not tested, or leave the verifier with the other's connection
  (`keycloakconfig/transport.go:173`): `amiss` in `VerifierFollowsRow`;
* health: the backend's card says "Online" on a 503 with a body, beside the header's warning
  (`CardsAreHonest` says no more of it); "degraded" is
  "operational" on one page and not on the other;
* preferences: the form refills over typed text; a tab writes its whole, possibly old copy; too long a
  cookie is dropped silently; a left-over value is promoted after the sidebar was expanded;
  the `ThemeToggle` of public pages is not given the theme (`PublicShell.tsx:52`), so its icon may be wrong and its
  first click without effect: the exceptions of `OnlyWhatWasAsked` and `ReloadShowsLast`;
* toasts: leaving with the mouse resumes the count though the focus is still there (`crowded`).

## Not modelled, and why

* Envelope contents, schema validation, JSON, headers other than the attempt,
  tracing, metrics and logs: data no property tells apart.
* `Connection.Close`, `http.Server.Shutdown`, dependency wiring: the end of a process is
  one step.
* Cryptography, OIDC discovery, object storage: external. Sealing and opening the session cookie
  is next-auth's; the model has the cookie's content.
* WebSocket tickets: one map under one mutex; `Notifications` has their outcomes.
* Worker supervisor, rate limiter, local login and its lock, LGPD erasure, WORM export: each is a
  component of its own that nothing modelled depends on beyond its outcome. Their hazards are listed
  without a property where they have one.
* Several replicas in `KeycloakSettings`: each has a verifier of its own, and only the one that saved
  reloads it; a restart reads the row again (`Restart`).
* `new WebSocket` throwing (a malformed URL): it stands outside the `try` of `open`, and would end the
  retries without a status; the URL is a constant of the build.
* The CRUD modules of the backend: one statement per operation.
* Of the frontend, the pages of users, integrations and the example module (lists rendered by the server, and
  one form with one call), the LGPD consent dialog (one call whose outcome is
  ignored; see Findings), the static pages and the design system (markup).

## What remains

In this order: `Erasure` (requests checked and then
inserted, two worker replicas, rollback and failure marking); `WormExport` with an abstract hash chain it should
implement; `LocalLogin` with `RateLimit`; the composition of `Hub` with `Notifications`, whose
sockets see the same stream from both ends, and of `Outbox` with `Consumer` behind
`EventDelivery`.
