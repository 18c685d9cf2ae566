----------------------------- MODULE Monitoring -----------------------------
(***************************************************************************)
(* What the pages say of the platform's health: the polling of             *)
(* /monitoramento (PlatformMonitoringDashboard.tsx, through SWR), the route *)
(* and the function that ask the backend's /ready (api/health,             *)
(* getSystemHealth.ts), and the card of /dashboard that calls the same     *)
(* function on the server.                                                 *)
(*                                                                         *)
(* The world changes between a check and the moment its answer is shown.   *)
(***************************************************************************)
EXTENDS Naturals, FiniteSets

CONSTANTS
  Deps,        \* what /ready checks: postgres, rabbitmq, minio
  MaxChanges,  \* bound: changes of the world
  NoAnswer,    \* no answer: not yet, or an error instead
  NotShown     \* a page that has not been opened

ASSUME MonitoringAssumption ==
  MaxChanges \in Nat /\ IsFiniteSet(Deps) /\ Deps # {}

VARIABLES
  up,         \* the backend answers /ready
  healthy,    \* the dependencies that are well
  changes,    \* changes of the world so far
  answer,     \* the answer to the fetch under way, once the route has made it
  fetching,   \* SWR has a fetch under way (isValidating)
  health,     \* SWR's data: the last answer read
  error,      \* SWR's error
  core        \* the card "Estado do Core" of the last /dashboard rendered

monitoringVars ==
  <<up, healthy, changes, answer, fetching, health, error, core>>

Statuses == {"ok", "degraded", "unhealthy"}
\* What is said of the dependencies something is said of, and the truth at the
\* moment of the check: those that were well and could be asked (history).
Health == [status : Statuses, good : SUBSET Deps, bad : SUBSET Deps,
           truth : SUBSET Deps, reached : BOOLEAN]

MonitoringTypeOK ==
  /\ up \in BOOLEAN /\ fetching \in BOOLEAN /\ error \in BOOLEAN
  /\ healthy \subseteq Deps
  /\ changes \in 0..MaxChanges
  /\ answer \in Health \cup {NoAnswer} /\ health \in Health \cup {NoAnswer}
  /\ core \in Statuses \cup {NotShown}

MonitoringInit ==
  /\ up \in BOOLEAN /\ healthy \in {Deps, {}}
  /\ changes = 0
  /\ answer = NoAnswer /\ fetching = FALSE
  /\ health = NoAnswer /\ error = FALSE
  /\ core = NotShown

World ==
  /\ changes < MaxChanges
  /\ changes' = changes + 1
  /\ \/ /\ up' = ~up
        /\ UNCHANGED healthy
     \/ /\ \E d \in Deps :
             healthy' = IF d \in healthy THEN healthy \ {d} ELSE healthy \cup {d}
        /\ UNCHANGED up
  /\ UNCHANGED <<answer, fetching, health, error, core>>

-----------------------------------------------------------------------------
(* The check.                                                               *)

Says(status, good, bad) ==
  [status |-> status, good |-> good, bad |-> bad,
   truth |-> IF up THEN healthy ELSE {}, reached |-> up]

\* Mutant of getSystemHealth: a backend that does not answer is degraded.
NeverUnhealthy ==
  IF ~up THEN {Says("degraded", {}, {})}
  ELSE {Says(IF healthy = Deps THEN "ok" ELSE "degraded", healthy, Deps \ healthy)}

\* /ready within five seconds: the status of the dependencies it lists.  An
\* answer that cannot be read lists none and keeps the status of its HTTP code.
getSystemHealth ==
  IF ~up THEN {Says("unhealthy", {}, {})}
  ELSE {Says(IF healthy = Deps THEN "ok" ELSE "degraded", healthy, Deps \ healthy),
        Says(IF healthy = Deps THEN "ok" ELSE "degraded", {}, {})}

\* GET /api/health, whose status code the fetcher does not look at.
Route ==
  /\ fetching /\ answer = NoAnswer
  /\ \E h \in getSystemHealth : answer' = h
  /\ UNCHANGED <<up, healthy, changes, fetching, health, error, core>>

\* DashboardOverviewPage, rendered by the server.
Dashboard ==
  /\ \E h \in getSystemHealth : core' = h.status
  /\ UNCHANGED <<up, healthy, changes, answer, fetching, health, error>>

-----------------------------------------------------------------------------
(* The polling of SWR.                                                      *)

\* The timer, the focus of the window or the button "Atualizar".
Revalidate ==
  /\ ~fetching
  /\ fetching' = TRUE /\ answer' = NoAnswer
  /\ UNCHANGED <<up, healthy, changes, health, error, core>>

\* The answer is read: it becomes the data, and there is no error any more.
Success ==
  /\ fetching /\ answer # NoAnswer
  /\ fetching' = FALSE /\ answer' = NoAnswer
  /\ health' = answer /\ error' = FALSE
  /\ UNCHANGED <<up, healthy, changes, core>>

\* The frontend's own server does not answer, or not with JSON: the old data
\* stays, with an error.
Failure ==
  /\ fetching
  /\ fetching' = FALSE /\ answer' = NoAnswer
  /\ error' = TRUE
  /\ UNCHANGED <<up, healthy, changes, health, core>>

Swr == Revalidate \/ Route \/ Success

MonitoringNext == World \/ Dashboard \/ Swr \/ Failure

-----------------------------------------------------------------------------
(* What /monitoramento shows.                                               *)

\* The header: "SISTEMA OPERACIONAL", or "ATENCAO".
isHealthy == ~error /\ (health # NoAnswer => health.status # "unhealthy")

\* Mutant of backendCheckStatus: the data decides, error or not.
DataOnly(d) ==
  IF health = NoAnswer \/ d \notin (health.good \cup health.bad) THEN "unknown"
  ELSE IF d \in health.good THEN "online" ELSE "offline"

\* The card of a dependency.
backendCheckStatus(d) ==
  IF error THEN "offline"
  ELSE IF health = NoAnswer \/ d \notin (health.good \cup health.bad) THEN "unknown"
  ELSE IF d \in health.good THEN "online" ELSE "offline"

\* The card of the backend itself.
backendApi ==
  IF error THEN "offline" ELSE IF health = NoAnswer THEN "unknown" ELSE "online"

\* "n de 4 servicos verificados como ativos".
onlineCount ==
  Cardinality({d \in Deps : backendCheckStatus(d) = "online"}) +
  (IF backendApi = "online" THEN 1 ELSE 0)

\* The page.
PlatformMonitoringDashboard ==
  [operational |-> isHealthy, api |-> backendApi,
   card |-> [d \in Deps |-> backendCheckStatus(d)], online |-> onlineCount]

-----------------------------------------------------------------------------
(* Properties.                                                              *)

\* No card of a dependency claims what the last check did not find: "online" only
\* what was well then, "offline" only what was not (or nobody answered the page).
\* The backend's own card is weaker than the comment in the code says: it is
\* "online" after any answer, that of a backend that was not reached included
\* (the answer is a body with 503, which is no error of SWR's), but then the
\* header warns; "offline" it says only when the page got no answer.  The header
\* calls the system operational, and the count is full, only with the backend
\* reached and, for the count, all dependencies well.
CardsAreHonest ==
  LET page == PlatformMonitoringDashboard
  IN /\ \A d \in Deps :
          /\ page.card[d] = "online" => ~error /\ d \in health.truth
          /\ page.card[d] = "offline" => error \/ d \notin health.truth
     /\ page.api = "online" => health.reached \/ ~page.operational
     /\ page.api = "offline" => error
     /\ page.operational /\ health # NoAnswer => health.reached
     /\ page.online = Cardinality(Deps) + 1 => page.operational /\ health.truth = Deps

\* When the backend stays down, every open page ends up saying so for good,
\* whatever was on its way when it went down.
EventuallyWarns == <>[]~up => <>[]~isHealthy
=============================================================================
