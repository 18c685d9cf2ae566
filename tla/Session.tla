------------------------------ MODULE Session ------------------------------
(***************************************************************************)
(* The browser's session with the platform: the encrypted cookie of        *)
(* next-auth shared by every tab, the jwt callback that renews it, the     *)
(* three places that judge it without renewing it (proxy.ts, the BFF route *)
(* and serverApiGet), sign-in, sign-out and the redirections that end on   *)
(* the login page (frontend/src/lib/auth, frontend/src/lib/api, proxy.ts). *)
(*                                                                         *)
(* A request carries the cookie as it was when it was sent; its answer may *)
(* set another one when it lands.  Each tab has one page activity (req) at *)
(* a time; the GET /api/auth/session of all tabs go their own way, and     *)
(* nothing orders the answers of different requests.  Time is in seconds.  *)
(***************************************************************************)
EXTENDS Naturals, FiniteSets

CONSTANTS
  Tabs,       \* the tabs of the browser
  MaxTime,    \* bound: the clock stops here
  Lifetimes,  \* expires_in (or the time to expires_at) of a token; 0 is bad
  Skew,       \* EXPIRY_SKEW_MS
  Flight,     \* longest time from a token's check to the backend's verdict
  Rotations,  \* whether Keycloak replaces a refresh token it accepts
  MaxLogins,  \* bound: sign-ins
  MaxAnswers, \* bound: answers with a session on their way at a time
  NoCookie    \* there is no session cookie

Unknown == 0  \* accessTokenExpires: undefined or NaN
None == 0     \* refreshToken: undefined

Jwt == [expires : Nat, refresh : Nat, idToken : BOOLEAN, error : BOOLEAN]

ASSUME SessionAssumption ==
  /\ Lifetimes \subseteq Nat
  /\ MaxTime \in Nat /\ Skew \in Nat /\ MaxLogins \in Nat
  /\ Flight \in 0..Skew
  /\ Rotations \subseteq BOOLEAN
  /\ NoCookie \notin Jwt

VARIABLES
  now,     \* Date.now()
  cookie,  \* the session cookie in the browser's jar
  idp,     \* the Keycloak session: alive, and the refresh token it accepts
  page,    \* page[t]: what tab t shows
  req,     \* req[t]: the page activity of tab t
  polls,   \* polls[t]: the timer of tab t's /monitoramento sends requests
  answers, \* answers to GET /api/auth/session on their way to some tab
  logins   \* sign-ins so far

vars == <<now, cookie, idp, page, req, polls, answers, logins>>

PROTECTED_PREFIXES == {"dashboard", "monitoramento"}
ProtectedGroup == PROTECTED_PREFIXES \cup {"exemplos"}
PublicPages == {"public", "bye"}
LoginPages == {"login", "expired"}   \* /login, with the notice of expiry
Pages == ProtectedGroup \cup PublicPages \cup LoginPages \cup {"loading"}

Cookies == Jwt \cup {NoCookie}

Activity(kind, jwt, since, to) ==
  [kind |-> kind, jwt |-> jwt, since |-> since, to |-> to]
Idle == Activity("idle", NoCookie, 0, "none")

InFlight == {"render", "fetch", "api"}  \* each answered within Flight
SigningOut == {"url", "leave"}

TypeOK ==
  /\ now \in Nat /\ logins \in Nat
  /\ cookie \in Cookies
  /\ idp \in [alive : BOOLEAN, current : Nat]
  /\ page \in [Tabs -> Pages]
  /\ req \in [Tabs -> [kind : {"idle"} \cup InFlight \cup SigningOut,
                       jwt : Cookies, since : Nat,
                       to : Pages \cup {"none", "keycloak"}]]
  /\ \A t \in Tabs : req[t].kind \in InFlight =>
       req[t].jwt \in Jwt /\ req[t].since <= now
  /\ polls \in [Tabs -> BOOLEAN]
  /\ answers \subseteq Jwt /\ IsFiniteSet(answers)

Init ==
  /\ now = 1 /\ logins = 0
  /\ cookie = NoCookie
  /\ idp = [alive |-> FALSE, current |-> 0]
  /\ page = [t \in Tabs |-> "public"]
  /\ req = [t \in Tabs |-> Idle]
  /\ polls = [t \in Tabs |-> TRUE]
  /\ answers = {}

-----------------------------------------------------------------------------
(* Judging and renewing a token.                                           *)

\* Mutant of accessTokenUsable: no margin.
UsableToTheEnd(c) ==
  /\ c # NoCookie
  /\ ~c.error
  /\ c.expires # Unknown => now < c.expires

\* May this session still call the backend?
accessTokenUsable(c) ==
  /\ c # NoCookie
  /\ ~c.error
  /\ c.expires # Unknown => now + Skew < c.expires

Outcome(c, provider) == [jwt |-> c, idp |-> provider]

\* The outcomes for the session: marked as failed, or renewed.
Failed(c) == [c EXCEPT !.error = TRUE]
Renewed(c, ttl, refresh) ==
  [c EXCEPT !.expires = now + ttl, !.refresh = refresh, !.error = FALSE]

\* ... and for Keycloak, which may replace the refresh token.
Rotated(provider, rotate) ==
  [provider EXCEPT !.current = IF rotate THEN @ + 1 ELSE @]

\* POST .../token with the refresh token: refused, unanswered (with the token
\* replaced or not), answered with a bad expires_in, or a new access token.
refreshAccessToken(c, provider) ==
  {Outcome(Failed(c), provider)} \cup
  UNION {
    LET after == Rotated(provider, rotate)
    IN {Outcome(Failed(c), after)} \cup
       {Outcome(Renewed(c, ttl, after.current), after) : ttl \in Lifetimes \ {0}}
    : rotate \in {r \in Rotations : provider.alive /\ c.refresh = provider.current}}

\* Mutant of jwt: a token without a known expiry is taken for a valid one.
UnknownIsValid(c, provider) ==
  IF c.expires = Unknown \/ now < c.expires THEN {Outcome(c, provider)}
  ELSE IF c.refresh # None THEN refreshAccessToken(c, provider)
  ELSE {Outcome(Failed(c), provider)}

\* callbacks.jwt once the token is made.
jwt(c, provider) ==
  IF c.expires # Unknown /\ now < c.expires THEN {Outcome(c, provider)}
  ELSE IF c.refresh # None THEN refreshAccessToken(c, provider)
  ELSE {Outcome(Failed(c), provider)}

Expiries == {Unknown} \cup {now + ttl : ttl \in Lifetimes}

\* The token callbacks.jwt makes of the answer of authorize().
LocalTokens ==
  [expires : Expiries, refresh : {None}, idToken : {FALSE}, error : {FALSE}]

\* ... and of the account Keycloak sends with its provider's new state.
KeycloakTokens(provider) ==
  [expires : Expiries, refresh : {provider.current}, idToken : {TRUE},
   error : {FALSE}]

-----------------------------------------------------------------------------
(* Navigation: the proxy, the layout of the protected group, the pages.    *)

\* proxy.ts: where a request for a page ends up.
proxy(c, route) ==
  IF route \notin PROTECTED_PREFIXES \/ accessTokenUsable(c) THEN route
  ELSE IF c # NoCookie THEN "expired" ELSE "login"

\* A new document or route in tab t: its polls start afresh.
Afresh(t) == polls' = [polls EXCEPT ![t] = TRUE]

\* Tab t asks for a page with the cookie c: one of the protected group is
\* rendered by the server, where its layout turns away who has no session.
GoTo(t, route, c) ==
  LET there == proxy(c, route)
  IN /\ Afresh(t)
     /\ IF there \in ProtectedGroup /\ c # NoCookie
        THEN /\ req' = [req EXCEPT ![t] = Activity("render", c, now, there)]
             /\ page' = [page EXCEPT ![t] = "loading"]
        ELSE /\ req' = [req EXCEPT ![t] = Idle]
             /\ page' = [page EXCEPT ![t] =
                  IF there \in ProtectedGroup THEN "login" ELSE there]

Navigate(t, route) ==
  /\ req[t].kind = "idle"
  /\ GoTo(t, route, cookie)
  /\ UNCHANGED <<now, cookie, idp, answers, logins>>

\* ProtectedLayout: getServerSession runs callbacks.jwt, whose result a server
\* component cannot store in the cookie.  /dashboard then fetches its data.
ProtectedLayout(t) ==
  /\ req[t].kind = "render"
  /\ \E o \in jwt(req[t].jwt, idp) :
       /\ idp' = o.idp
       /\ IF o.jwt.error
          THEN /\ page' = [page EXCEPT ![t] = "login"]
               /\ req' = [req EXCEPT ![t] = Idle]
          ELSE /\ page' = [page EXCEPT ![t] = req[t].to]
               /\ req' = [req EXCEPT ![t] =
                    IF req[t].to = "dashboard" /\ accessTokenUsable(req[t].jwt)
                    THEN Activity("fetch", req[t].jwt, now, "none") ELSE Idle]
  /\ UNCHANGED <<now, cookie, polls, answers, logins>>

\* Where a tab offers to sign out: the user menu of the protected pages, and the
\* header of the public ones while its copy of the session, which may be an old
\* one, says that somebody is signed in.
UserMenu(t) == page[t] \in ProtectedGroup
PublicShell(t) == page[t] \in PublicPages /\ logins > 0

\* The matcher of proxy.ts leaves out prefetches.  A public page that takes the
\* browser for signed in links to /dashboard, and the prefetch of that link runs
\* ProtectedLayout on a cookie nobody has judged; its result is not stored, and
\* the page that asked for it stays as it is.
Prefetch(t) ==
  /\ PublicShell(t)
  /\ cookie # NoCookie
  /\ \E o \in jwt(cookie, idp) : idp' = o.idp
  /\ UNCHANGED <<now, cookie, page, req, polls, answers, logins>>

\* The backend answers serverApiGet, or does not: the page shows which.
ServerAnswer(t) ==
  /\ req[t].kind = "fetch"
  /\ req' = [req EXCEPT ![t] = Idle]
  /\ UNCHANGED <<now, cookie, idp, page, polls, answers, logins>>

-----------------------------------------------------------------------------
(* Calls of the client components through the BFF route.                   *)

\* location.replace("/login?reason=session_expired"): a new document.
ToExpired(t) ==
  /\ page' = [page EXCEPT ![t] = "expired"]
  /\ req' = [req EXCEPT ![t] = Idle]
  /\ Afresh(t)

\* Mutant of Request: a 401 is an error like the others.
NoRedirect(t) ==
  /\ page[t] \in ProtectedGroup /\ req[t].kind = "idle"
  /\ accessTokenUsable(cookie)
  /\ req' = [req EXCEPT ![t] = Activity("api", cookie, now, "none")]
  /\ UNCHANGED <<now, cookie, idp, page, polls, answers, logins>>

\* apiClient sends a request and the BFF judges it: refused with 401, or
\* forwarded with the bearer.
Request(t) ==
  /\ page[t] \in ProtectedGroup /\ req[t].kind = "idle"
  /\ IF accessTokenUsable(cookie)
     THEN /\ req' = [req EXCEPT ![t] = Activity("api", cookie, now, "none")]
          /\ UNCHANGED <<page, polls>>
     ELSE ToExpired(t)
  /\ UNCHANGED <<now, cookie, idp, answers, logins>>

\* SWR's timer sends nothing while the page is hidden or its last answer was an
\* error: it stops, or goes on when the page is shown or data has come.
Toggle(t) ==
  /\ page[t] = "monitoramento"
  /\ polls' = [polls EXCEPT ![t] = ~polls[t]]

\* The answer reaches the page: 401 from the backend too ends the session, any
\* other error stops the poll it answers, and data resumes it.
Answer(t) ==
  /\ req[t].kind = "api"
  /\ \/ /\ req' = [req EXCEPT ![t] = Idle]
        /\ Toggle(t) \/ UNCHANGED polls
        /\ UNCHANGED page
     \/ ToExpired(t)
  /\ UNCHANGED <<now, cookie, idp, answers, logins>>

\* The tab is left for another one, or looked at again.
HideOrShow(t) ==
  /\ Toggle(t)
  /\ UNCHANGED <<now, cookie, idp, page, req, answers, logins>>

\* The timer of /monitoramento fires every ten seconds.
Poll(t) == page[t] = "monitoramento" /\ polls[t] /\ Request(t)

-----------------------------------------------------------------------------
(* GET /api/auth/session: sent when a page is opened, when a tab is looked  *)
(* at again and when another tab signs in or out.                           *)

\* The request reaches the server, which runs callbacks.jwt on its cookie; the
\* answer will set the cookie.  (Without one, there is nothing to set.)
SessionAsk ==
  /\ cookie # NoCookie
  /\ Cardinality(answers) < MaxAnswers
  /\ \E o \in jwt(cookie, idp) :
       answers' = answers \cup {o.jwt} /\ idp' = o.idp
  /\ UNCHANGED <<now, cookie, page, req, polls, logins>>

\* It lands, whatever has become of the cookie, or never arrives.
SessionLand ==
  \E c \in answers :
    /\ answers' = answers \ {c}
    /\ cookie' \in {c, cookie}
    /\ UNCHANGED <<now, idp, page, req, polls, logins>>

-----------------------------------------------------------------------------
(* Sign-in and sign-out.                                                    *)

\* The cookie holds what callbacks.jwt makes of a sign-in's token, and the tab
\* goes on to the page it came from (/dashboard by default).
SignIn(t, tokens, provider) ==
  /\ page[t] \in LoginPages /\ req[t].kind = "idle"
  /\ logins < MaxLogins
  /\ logins' = logins + 1
  /\ \E token \in tokens : \E o \in jwt(token, provider) :
       cookie' = o.jwt /\ idp' = o.idp
  /\ GoTo(t, "dashboard", cookie')
  /\ UNCHANGED <<now, answers>>

\* The form: authorize() answered with a user, and the page is pushed.
handleLogin(t) == SignIn(t, LocalTokens, idp)

\* Keycloak: the browser leaves for it and comes back to a new document.
signInKeycloak(t) ==
  LET provider == [alive |-> TRUE, current |-> idp.current + 1]
  IN SignIn(t, KeycloakTokens(provider), provider)

\* GET /api/auth/keycloak-logout-url; "/" when there is no answer.
LogoutUrls(c) ==
  {"public", IF c # NoCookie /\ c.idToken THEN "keycloak" ELSE "bye"}

\* fullSignOut begins: the POST for the audit trail, whose outcome it ignores,
\* and the address to leave for, asked while there is a session.
fullSignOut(t) ==
  /\ UserMenu(t) \/ PublicShell(t)
  /\ req[t].kind = "idle"
  /\ \E url \in LogoutUrls(cookie) :
       req' = [req EXCEPT ![t] = Activity("url", NoCookie, 0, url)]
  /\ UNCHANGED <<now, cookie, idp, page, polls, answers, logins>>

\* signOut deletes the cookie, or fails and nothing more happens.
signOut(t) ==
  /\ req[t].kind = "url"
  /\ \/ /\ cookie' = NoCookie
        /\ req' = [req EXCEPT ![t].kind = "leave"]
     \/ /\ req' = [req EXCEPT ![t] = Idle]
        /\ UNCHANGED cookie
  /\ UNCHANGED <<now, idp, page, polls, answers, logins>>

\* window.location.href = logoutUrl; Keycloak ends its session on the way.
Leave(t) ==
  /\ req[t].kind = "leave"
  /\ IF req[t].to = "keycloak"
     THEN /\ idp' = [idp EXCEPT !.alive = FALSE]
          /\ page' = [page EXCEPT ![t] = "bye"]
     ELSE /\ page' = [page EXCEPT ![t] = req[t].to]
          /\ UNCHANGED idp
  /\ req' = [req EXCEPT ![t] = Idle]
  /\ Afresh(t)
  /\ UNCHANGED <<now, cookie, answers, logins>>

-----------------------------------------------------------------------------
(* The world.                                                               *)

\* The Keycloak session ends on its own: idle too long, or by an administrator.
IdpExpire ==
  /\ idp.alive
  /\ idp' = [idp EXCEPT !.alive = FALSE]
  /\ UNCHANGED <<now, cookie, page, req, polls, answers, logins>>

Tick ==
  /\ now < MaxTime
  /\ \A t \in Tabs : req[t].kind \in InFlight => now < req[t].since + Flight
  /\ now' = now + 1
  /\ UNCHANGED <<cookie, idp, page, req, polls, answers, logins>>

Work(t) ==
  \/ ProtectedLayout(t) \/ ServerAnswer(t) \/ Answer(t)
  \/ signOut(t) \/ Leave(t)

Next ==
  \/ Tick \/ IdpExpire \/ SessionAsk \/ SessionLand
  \/ \E t \in Tabs :
       \/ \E route \in ProtectedGroup \cup {"public", "login"} : Navigate(t, route)
       \/ Prefetch(t) \/ Request(t) \/ Work(t) \/ HideOrShow(t)
       \/ handleLogin(t) \/ signInKeycloak(t) \/ fullSignOut(t)

\* Answers come, and the timer of /monitoramento does not wait for the tab's
\* other activities, so it is not starved by them.
Fairness == \A t \in Tabs : WF_vars(Work(t)) /\ SF_vars(Poll(t))

Spec == Init /\ [][Next]_vars /\ Fairness

-----------------------------------------------------------------------------
(* Properties.                                                              *)

\* accessTokenUsable lets a token without a known expiry through and leaves the
\* verdict to the backend: no sign-in, renewal or late answer ever puts such a
\* token in the cookie, so that case never decides anything.
KnownExpiry == accessTokenUsable(cookie) => cookie.expires # Unknown

\* A token judged usable does not expire before the backend has judged it too:
\* the margin EXPIRY_SKEW_MS covers the flight of every forwarded bearer.
NoBearerDiesInFlight ==
  \A t \in Tabs : req[t].kind \in {"fetch", "api"} => now < req[t].jwt.expires

\* A render cannot store a renewed token, so it must not spend a refresh token
\* (with rotation it would be the cookie's last): for a navigation to the routes
\* the proxy checks first, the layout always finds the access token still valid.
\* The renders the proxy does not see may spend it: those of /exemplos, and those
\* of a prefetch.
NavigationNeverSpendsRefresh ==
  [][\A t \in Tabs : ProtectedLayout(t) /\ req[t].to \in PROTECTED_PREFIXES
       => UNCHANGED idp]_vars

\* A page left open on a dead session is taken to the login page, or a renewal
\* of another request brings the session back, as long as it goes on polling:
\* not if it is hidden again and again, or its last answer was an error.
DeadSessionReachesLogin ==
  \A t \in Tabs :
    \/ []<>~polls[t]
    \/ (page[t] = "monitoramento" /\ ~accessTokenUsable(cookie) ~>
          page[t] # "monitoramento" \/ accessTokenUsable(cookie))

\* While a tab says that the session was closed, the session stays closed until
\* somebody signs in (logout.ts, AuthFlashToast.tsx).
SignedOutStaysOut ==
  [][\A t \in Tabs : page[t] = "bye" /\ cookie = NoCookie /\ logins' = logins
       => cookie' = NoCookie]_vars
=============================================================================
