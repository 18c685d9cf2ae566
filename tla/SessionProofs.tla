---------------------------- MODULE SessionProofs ----------------------------
(***************************************************************************)
(* Proofs about Session for any number of tabs, any lifetimes and any      *)
(* bounds.  The inductive invariant IInv adds two things to the types:     *)
(* nothing without a known expiry is taken for a valid session anywhere    *)
(* (cookie, answers on their way, requests under way), and a request that  *)
(* was let through on the strength of its token still has more than the    *)
(* margin's rest to live.                                                  *)
(***************************************************************************)
EXTENDS Session, FiniteSetTheorems, TLAPS

\* A session whose expiry is not known is marked as failed.
Known(c) == c.expires = Unknown => c.error

\* Activities whose token was judged usable when they began.
Trusted(a) ==
  \/ a.kind \in {"fetch", "api"}
  \/ a.kind = "render" /\ a.to \in PROTECTED_PREFIXES

RequestOK(a) ==
  /\ a.kind = "render" => a.to \in ProtectedGroup
  /\ a.kind \in SigningOut => a.to \in {"public", "bye", "keycloak"}
  /\ a.kind \in InFlight => Known(a.jwt) /\ now <= a.since + Flight
  /\ Trusted(a) => ~a.jwt.error /\ a.since + Skew < a.jwt.expires

IInv ==
  /\ TypeOK
  /\ cookie # NoCookie => Known(cookie)
  /\ \A c \in answers : Known(c)
  /\ \A t \in Tabs : RequestOK(req[t])

Providers == [alive : BOOLEAN, current : Nat]

-----------------------------------------------------------------------------
(* The token functions.                                                     *)

\* A session with any fields of the right types is one.
LEMMA JwtFields ==
  ASSUME NEW c \in Jwt, NEW e \in Nat, NEW r \in Nat
  PROVE  /\ [c EXCEPT !.expires = e, !.refresh = r, !.error = FALSE] \in Jwt
         /\ [c EXCEPT !.expires = e, !.refresh = r, !.error = FALSE].expires = e
BY DEF Jwt

LEMMA FailedIsKnown ==
  ASSUME NEW c \in Jwt
  PROVE  Failed(c) \in Jwt /\ Known(Failed(c))
BY DEF Jwt, Failed, Known

LEMMA RenewedIsKnown ==
  ASSUME NEW c \in Jwt, now \in Nat, NEW ttl \in Lifetimes \ {0}, NEW r \in Nat
  PROVE  Renewed(c, ttl, r) \in Jwt /\ Known(Renewed(c, ttl, r))
<1>1. now + ttl \in Nat /\ now + ttl # 0
  BY SessionAssumption
<1>2. Renewed(c, ttl, r) \in Jwt /\ Renewed(c, ttl, r).expires = now + ttl
  BY <1>1, JwtFields DEF Renewed
<1> QED
  BY <1>1, <1>2 DEF Known, Unknown

\* A renewal answers with a session whose expiry is known, or a failed one.
LEMMA RefreshAnswers ==
  ASSUME NEW c \in Jwt, NEW p \in Providers, now \in Nat,
         NEW o \in refreshAccessToken(c, p)
  PROVE  o.jwt \in Jwt /\ o.idp \in Providers /\ Known(o.jwt)
<1>1. CASE o = Outcome(Failed(c), p)
  BY <1>1, FailedIsKnown DEF Outcome
<1>2. ASSUME NEW rotate \in Rotations
      PROVE  Rotated(p, rotate) \in Providers /\ Rotated(p, rotate).current \in Nat
  BY <1>2, SessionAssumption DEF Rotated, Providers
<1>3. ASSUME NEW rotate \in Rotations, o = Outcome(Failed(c), Rotated(p, rotate))
      PROVE  o.jwt \in Jwt /\ o.idp \in Providers /\ Known(o.jwt)
  BY <1>2, <1>3, FailedIsKnown DEF Outcome
<1>4. ASSUME NEW rotate \in Rotations, NEW ttl \in Lifetimes \ {0},
             o = Outcome(Renewed(c, ttl, Rotated(p, rotate).current), Rotated(p, rotate))
      PROVE  o.jwt \in Jwt /\ o.idp \in Providers /\ Known(o.jwt)
  BY <1>2, <1>4, RenewedIsKnown DEF Outcome
<1> QED
  BY <1>1, <1>3, <1>4 DEF refreshAccessToken

\* So does the callback jwt, whatever session it is given.
LEMMA JwtAnswers ==
  ASSUME NEW c \in Jwt, NEW p \in Providers, now \in Nat, NEW o \in jwt(c, p)
  PROVE  o.jwt \in Jwt /\ o.idp \in Providers /\ Known(o.jwt)
<1>1. CASE c.expires # Unknown /\ now < c.expires
  BY <1>1 DEF jwt, Outcome, Known
<1>2. CASE ~(c.expires # Unknown /\ now < c.expires) /\ c.refresh # None
  BY <1>2, RefreshAnswers DEF jwt
<1>3. CASE ~(c.expires # Unknown /\ now < c.expires) /\ c.refresh = None
  <2>1. o = Outcome(Failed(c), p)
    BY <1>3 DEF jwt
  <2> QED
    BY <2>1, FailedIsKnown DEF Outcome
<1> QED
  BY <1>1, <1>2, <1>3

\* A sign-in starts from a well-formed token.
LEMMA SignInTokens ==
  ASSUME now \in Nat, NEW p \in Providers
  PROVE  LocalTokens \subseteq Jwt /\ KeycloakTokens(p) \subseteq Jwt
<1>1. \A ttl \in Lifetimes : now + ttl \in Nat
  BY SessionAssumption
<1>2. Expiries \subseteq Nat
  BY <1>1 DEF Expiries, Unknown
<1>3. {p.current} \subseteq Nat /\ {None} \subseteq Nat
  BY DEF Providers, None
<1>4. ASSUME NEW E \in SUBSET Nat, NEW R \in SUBSET Nat, NEW B \in SUBSET BOOLEAN,
             NEW F \in SUBSET BOOLEAN
      PROVE  [expires : E, refresh : R, idToken : B, error : F] \subseteq Jwt
  BY <1>4, Zenon DEF Jwt
<1>5. {TRUE} \subseteq BOOLEAN /\ {FALSE} \subseteq BOOLEAN
  OBVIOUS
<1> QED
  BY <1>2, <1>3, <1>4, <1>5 DEF LocalTokens, KeycloakTokens

\* The proxy lets a request through to one of its prefixes only with a session
\* it finds usable.
LEMMA ProxyTrusts ==
  ASSUME NEW c, NEW route \in Pages, proxy(c, route) \in PROTECTED_PREFIXES
  PROVE  accessTokenUsable(c)
BY DEF proxy, PROTECTED_PREFIXES

\* The timers stay timers.
LEMMA PollsTyped ==
  ASSUME TypeOK, NEW t \in Tabs, Afresh(t) \/ Toggle(t)
  PROVE  polls' \in [Tabs -> BOOLEAN]
BY DEF TypeOK, Afresh, Toggle

\* A navigation leaves a page or a request that keeps IInv.
LEMMA GoToKeeps ==
  ASSUME TypeOK, \A u \in Tabs : RequestOK(req[u]), now' = now,
         NEW t \in Tabs, NEW route \in Pages, NEW c \in Cookies,
         c # NoCookie => Known(c), GoTo(t, route, c)
  PROVE  /\ page' \in [Tabs -> Pages] /\ polls' \in [Tabs -> BOOLEAN]
         /\ req' \in [Tabs -> [kind : {"idle"} \cup InFlight \cup SigningOut,
                              jwt : Cookies, since : Nat,
                              to : Pages \cup {"none", "keycloak"}]]
         /\ \A u \in Tabs : req'[u].kind \in InFlight =>
              req'[u].jwt \in Jwt /\ req'[u].since <= now'
         /\ \A u \in Tabs : RequestOK(req[u])'
<1> DEFINE there == proxy(c, route)
<1>1. there \in Pages
  BY DEF proxy, Pages, LoginPages
<1>0. polls' \in [Tabs -> BOOLEAN]
  BY PollsTyped DEF GoTo
<1>2. CASE there \in ProtectedGroup /\ c # NoCookie
  <2>1. req' = [req EXCEPT ![t] = Activity("render", c, now, there)]
        /\ page' = [page EXCEPT ![t] = "loading"]
    BY <1>2 DEF GoTo
  <2>2. c \in Jwt /\ Known(c)
    BY <1>2 DEF Cookies
  <2>3. there \in PROTECTED_PREFIXES => ~c.error /\ now + Skew < c.expires
    <3>1. SUFFICES ASSUME there \in PROTECTED_PREFIXES
                   PROVE  ~c.error /\ now + Skew < c.expires
      OBVIOUS
    <3>2. accessTokenUsable(c)
      BY <3>1, ProxyTrusts
    <3> QED
      BY <2>2, <3>2 DEF accessTokenUsable, Known
  <2>4. RequestOK(req[t])'
    BY <1>2, <2>1, <2>2, <2>3, SessionAssumption
      DEF RequestOK, Trusted, Activity, InFlight, SigningOut, TypeOK
  <2>5. \A u \in Tabs \ {t} : req'[u] = req[u]
    BY <2>1 DEF TypeOK
  <2>6. \A u \in Tabs : RequestOK(req[u])'
    BY <2>4, <2>5 DEF RequestOK, Trusted
  <2> QED
    BY <1>0, <1>1, <2>1, <2>2, <2>6
      DEF TypeOK, Activity, InFlight, Cookies, Pages
<1>3. CASE ~(there \in ProtectedGroup /\ c # NoCookie)
  <2>1. req' = [req EXCEPT ![t] = Idle]
        /\ page' = [page EXCEPT ![t] =
             IF there \in ProtectedGroup THEN "login" ELSE there]
    BY <1>3 DEF GoTo
  <2>2. \A u \in Tabs : RequestOK(req[u])'
    BY <2>1 DEF RequestOK, Trusted, Idle, Activity, InFlight, SigningOut, TypeOK
  <2> QED
    BY <1>0, <1>1, <2>1, <2>2
      DEF TypeOK, Idle, Activity, InFlight, Cookies, Pages, LoginPages
<1> QED
  BY <1>2, <1>3
-----------------------------------------------------------------------------
(* Every step keeps IInv.                                                   *)

\* A tab whose activity changes to one that is well formed keeps the types.
LEMMA ReqTypes ==
  ASSUME TypeOK, NEW t \in Tabs, NEW a,
         a \in [kind : {"idle"} \cup InFlight \cup SigningOut, jwt : Cookies,
                since : Nat, to : Pages \cup {"none", "keycloak"}],
         a.kind \in InFlight => a.jwt \in Jwt /\ a.since <= now,
         req' = [req EXCEPT ![t] = a], now' = now
  PROVE  /\ req' \in [Tabs -> [kind : {"idle"} \cup InFlight \cup SigningOut,
                              jwt : Cookies, since : Nat,
                              to : Pages \cup {"none", "keycloak"}]]
         /\ \A u \in Tabs : req'[u].kind \in InFlight =>
              req'[u].jwt \in Jwt /\ req'[u].since <= now'
BY DEF TypeOK

\* ... and, if it is well judged too, IInv's part about requests.
LEMMA ReqKeeps ==
  ASSUME TypeOK, \A u \in Tabs : RequestOK(req[u]), NEW t \in Tabs, NEW a,
         RequestOK(a), req' = [req EXCEPT ![t] = a], now' = now
  PROVE  \A u \in Tabs : RequestOK(req[u])'
<1>1. \A u \in Tabs : req'[u] = IF u = t THEN a ELSE req[u]
  BY DEF TypeOK
<1> QED
  BY <1>1 DEF RequestOK, Trusted

LEMMA IdleOK == RequestOK(Idle)
BY DEF RequestOK, Trusted, Idle, Activity, InFlight, SigningOut

LEMMA NavigateKeeps ==
  ASSUME IInv, NEW t \in Tabs, NEW route \in ProtectedGroup \cup {"public", "login"},
         Navigate(t, route)
  PROVE  IInv'
<1>1. route \in Pages
  BY DEF Pages, PublicPages, LoginPages
<1>2. cookie \in Cookies /\ now' = now
  BY DEF IInv, TypeOK, Navigate
<1>3. /\ page' \in [Tabs -> Pages] /\ polls' \in [Tabs -> BOOLEAN]
      /\ req' \in [Tabs -> [kind : {"idle"} \cup InFlight \cup SigningOut,
                           jwt : Cookies, since : Nat,
                           to : Pages \cup {"none", "keycloak"}]]
      /\ \A u \in Tabs : req'[u].kind \in InFlight =>
           req'[u].jwt \in Jwt /\ req'[u].since <= now'
      /\ \A u \in Tabs : RequestOK(req[u])'
  BY <1>1, <1>2, GoToKeeps DEF IInv, Navigate
<1> QED
  BY <1>3 DEF IInv, TypeOK, Navigate, Known

LEMMA ProtectedLayoutKeeps ==
  ASSUME IInv, NEW t \in Tabs, ProtectedLayout(t)
  PROVE  IInv'
<1>1. /\ req[t].jwt \in Jwt /\ Known(req[t].jwt) /\ req[t].to \in ProtectedGroup
      /\ idp \in Providers /\ now \in Nat
  BY DEF IInv, TypeOK, ProtectedLayout, RequestOK, InFlight, Providers
<1>2. PICK o \in jwt(req[t].jwt, idp) :
        /\ idp' = o.idp
        /\ IF o.jwt.error
           THEN /\ page' = [page EXCEPT ![t] = "login"]
                /\ req' = [req EXCEPT ![t] = Idle]
           ELSE /\ page' = [page EXCEPT ![t] = req[t].to]
                /\ req' = [req EXCEPT ![t] =
                     IF req[t].to = "dashboard" /\ accessTokenUsable(req[t].jwt)
                     THEN Activity("fetch", req[t].jwt, now, "none") ELSE Idle]
  BY DEF ProtectedLayout
<1>3. idp' \in Providers
  BY <1>1, <1>2, JwtAnswers
<1>4. page' \in [Tabs -> Pages]
  BY <1>1, <1>2 DEF IInv, TypeOK, Pages, LoginPages
<1>5. PICK a : /\ req' = [req EXCEPT ![t] = a]
               /\ \/ a = Idle
                  \/ /\ accessTokenUsable(req[t].jwt)
                     /\ a = Activity("fetch", req[t].jwt, now, "none")
  BY <1>2
<1>6. a \in [kind : {"idle"} \cup InFlight \cup SigningOut, jwt : Cookies,
             since : Nat, to : Pages \cup {"none", "keycloak"}]
  BY <1>1, <1>5 DEF Idle, Activity, InFlight, Cookies
<1>7. a.kind \in InFlight => a.jwt \in Jwt /\ a.since <= now
  BY <1>1, <1>5 DEF Idle, Activity, InFlight
<1>8. RequestOK(a)
  <2>1. CASE a = Idle
    BY <2>1, IdleOK
  <2>2. CASE /\ accessTokenUsable(req[t].jwt)
             /\ a = Activity("fetch", req[t].jwt, now, "none")
    <3>1. ~req[t].jwt.error /\ now + Skew < req[t].jwt.expires
      BY <1>1, <2>2 DEF accessTokenUsable, Known
    <3>2. /\ a.kind = "fetch" /\ a.jwt = req[t].jwt /\ a.since = now
      BY <2>2 DEF Activity
    <3> QED
      BY <1>1, <3>1, <3>2, SessionAssumption
        DEF RequestOK, Trusted, InFlight, SigningOut
  <2> QED
    BY <1>5, <2>1, <2>2
<1>9. now' = now
  BY DEF ProtectedLayout
<1>10. TypeOK'
  BY <1>3, <1>4, <1>5, <1>6, <1>7, <1>9, ReqTypes
    DEF IInv, TypeOK, ProtectedLayout, Providers
<1>11. \A u \in Tabs : RequestOK(req[u])'
  BY <1>5, <1>8, <1>9, ReqKeeps DEF IInv
<1> QED
  BY <1>10, <1>11 DEF IInv, ProtectedLayout, Known

\* A tab that has ended its activity keeps everything said of requests.
LEMMA IdleKeeps ==
  ASSUME IInv, NEW t \in Tabs, req' = [req EXCEPT ![t] = Idle], now' = now
  PROVE  /\ req' \in [Tabs -> [kind : {"idle"} \cup InFlight \cup SigningOut,
                              jwt : Cookies, since : Nat,
                              to : Pages \cup {"none", "keycloak"}]]
         /\ \A u \in Tabs : req'[u].kind \in InFlight =>
              req'[u].jwt \in Jwt /\ req'[u].since <= now'
         /\ \A u \in Tabs : RequestOK(req[u])'
<1>1. Idle \in [kind : {"idle"} \cup InFlight \cup SigningOut, jwt : Cookies,
                since : Nat, to : Pages \cup {"none", "keycloak"}]
      /\ Idle.kind \notin InFlight
  BY DEF Idle, Activity, InFlight, Cookies
<1>2. \A u \in Tabs : RequestOK(req[u])'
  BY IdleOK, ReqKeeps DEF IInv
<1> QED
  BY <1>1, <1>2, ReqTypes DEF IInv

LEMMA ServerAnswerKeeps ==
  ASSUME IInv, NEW t \in Tabs, ServerAnswer(t)
  PROVE  IInv'
<1>1. req' = [req EXCEPT ![t] = Idle] /\ now' = now
  BY DEF ServerAnswer
<1> QED
  BY <1>1, IdleKeeps DEF IInv, TypeOK, ServerAnswer, Known

LEMMA ExpiredKeeps ==
  ASSUME IInv, NEW t \in Tabs, ToExpired(t),
         UNCHANGED <<now, cookie, idp, answers, logins>>
  PROVE  IInv'
<1>1. req' = [req EXCEPT ![t] = Idle] /\ now' = now
  BY DEF ToExpired
<1>2. page' \in [Tabs -> Pages] /\ polls' \in [Tabs -> BOOLEAN]
  BY PollsTyped DEF ToExpired, IInv, TypeOK, Pages, LoginPages
<1> QED
  BY <1>1, <1>2, IdleKeeps DEF IInv, TypeOK, Known

LEMMA RequestKeeps ==
  ASSUME IInv, NEW t \in Tabs, Request(t)
  PROVE  IInv'
<1>1. CASE ~accessTokenUsable(cookie)
  BY <1>1, ExpiredKeeps DEF Request
<1>2. CASE accessTokenUsable(cookie)
  <2> DEFINE a == Activity("api", cookie, now, "none")
  <2>1. req' = [req EXCEPT ![t] = a] /\ now' = now /\ page' = page /\ polls' = polls
    BY <1>2 DEF Request
  <2>2. cookie \in Jwt /\ Known(cookie) /\ ~cookie.error /\ now + Skew < cookie.expires
    BY <1>2 DEF IInv, TypeOK, Cookies, accessTokenUsable, Known
  <2>3. /\ a.kind = "api" /\ a.jwt = cookie /\ a.since = now
        /\ a \in [kind : {"idle"} \cup InFlight \cup SigningOut, jwt : Cookies,
                  since : Nat, to : Pages \cup {"none", "keycloak"}]
    BY <2>2 DEF Activity, InFlight, Cookies, IInv, TypeOK
  <2> HIDE DEF a
  <2>4. now \in Nat /\ now <= now
    BY DEF IInv, TypeOK
  <2>5. RequestOK(a)
    BY <2>2, <2>3, <2>4, SessionAssumption DEF RequestOK, Trusted, InFlight, SigningOut
  <2>6. TypeOK'
    BY <2>1, <2>2, <2>3, <2>4, ReqTypes DEF IInv, TypeOK, Request
  <2>7. \A u \in Tabs : RequestOK(req[u])'
    BY <2>1, <2>5, ReqKeeps DEF IInv
  <2> QED
    BY <2>6, <2>7 DEF IInv, Request, Known
<1> QED
  BY <1>1, <1>2

LEMMA AnswerKeeps ==
  ASSUME IInv, NEW t \in Tabs, Answer(t)
  PROVE  IInv'
<1>1. CASE ToExpired(t)
  BY <1>1, ExpiredKeeps DEF Answer
<1>2. CASE ~ToExpired(t)
  <2>1. /\ req' = [req EXCEPT ![t] = Idle]
        /\ Toggle(t) \/ polls' = polls
        /\ UNCHANGED <<now, cookie, idp, page, answers, logins>>
    BY <1>2 DEF Answer
  <2>2. polls' \in [Tabs -> BOOLEAN]
    <3>1. CASE Toggle(t)
      BY <3>1, PollsTyped DEF IInv
    <3>2. CASE polls' = polls
      BY <3>2 DEF IInv, TypeOK
    <3> QED
      BY <2>1, <3>1, <3>2
  <2>3. TypeOK'
    BY <2>1, <2>2, IdleKeeps DEF IInv, TypeOK
  <2> QED
    BY <2>1, <2>3, IdleKeeps DEF IInv, Known
<1> QED
  BY <1>1, <1>2

LEMMA HideOrShowKeeps ==
  ASSUME IInv, NEW t \in Tabs, HideOrShow(t)
  PROVE  IInv'
<1>1. polls' \in [Tabs -> BOOLEAN]
  BY PollsTyped DEF HideOrShow, IInv
<1> QED
  BY <1>1 DEF HideOrShow, IInv, TypeOK, RequestOK, Trusted, Known

LEMMA PrefetchKeeps ==
  ASSUME IInv, NEW t \in Tabs, Prefetch(t)
  PROVE  IInv'
<1>1. cookie \in Jwt /\ idp \in Providers /\ now \in Nat
  BY DEF IInv, TypeOK, Cookies, Prefetch, Providers
<1>2. PICK o \in jwt(cookie, idp) : idp' = o.idp
  BY DEF Prefetch
<1>3. idp' \in Providers
  BY <1>1, <1>2, JwtAnswers
<1> QED
  BY <1>3 DEF Prefetch, IInv, TypeOK, RequestOK, Trusted, Known, Providers

LEMMA SessionAskKeeps ==
  ASSUME IInv, SessionAsk
  PROVE  IInv'
<1>1. cookie \in Jwt /\ idp \in Providers /\ now \in Nat
  BY DEF IInv, TypeOK, Cookies, SessionAsk, Providers
<1>2. PICK o \in jwt(cookie, idp) : answers' = answers \cup {o.jwt} /\ idp' = o.idp
  BY DEF SessionAsk
<1>3. o.jwt \in Jwt /\ o.idp \in Providers /\ Known(o.jwt)
  BY <1>1, JwtAnswers
<1>4. IsFiniteSet(answers')
  BY <1>2, FS_AddElement DEF IInv, TypeOK
<1>5. TypeOK'
  BY <1>2, <1>3, <1>4 DEF IInv, TypeOK, SessionAsk, Providers
<1>6. \A c \in answers' : Known(c)
  BY <1>2, <1>3 DEF IInv
<1> QED
  BY <1>5, <1>6 DEF IInv, SessionAsk, RequestOK, Trusted, Known

LEMMA SessionLandKeeps ==
  ASSUME IInv, SessionLand
  PROVE  IInv'
<1>1. PICK c \in answers :
        /\ answers' = answers \ {c}
        /\ cookie' \in {c, cookie}
        /\ UNCHANGED <<now, idp, page, req, polls, logins>>
  BY DEF SessionLand
<1>2. c \in Jwt /\ Known(c)
  BY DEF IInv, TypeOK
<1>3. IsFiniteSet(answers')
  BY <1>1, FS_RemoveElement DEF IInv, TypeOK
<1>4. TypeOK'
  BY <1>1, <1>2, <1>3 DEF IInv, TypeOK, Cookies
<1>5. cookie' # NoCookie => Known(cookie')
  BY <1>1, <1>2 DEF IInv
<1> QED
  BY <1>1, <1>4, <1>5 DEF IInv, RequestOK, Trusted, Known

LEMMA SignInKeeps ==
  ASSUME IInv, NEW t \in Tabs, NEW p \in Providers, NEW tokens \in SUBSET Jwt,
         SignIn(t, tokens, p)
  PROVE  IInv'
<1>1. PICK token \in tokens : \E o \in jwt(token, p) : cookie' = o.jwt /\ idp' = o.idp
  BY DEF SignIn
<1>2. PICK o \in jwt(token, p) : cookie' = o.jwt /\ idp' = o.idp
  BY <1>1
<1>3. now \in Nat /\ now' = now
  BY DEF IInv, TypeOK, SignIn
<1>4. cookie' \in Jwt /\ idp' \in Providers /\ Known(cookie')
  BY <1>2, <1>3, JwtAnswers
<1>5. /\ page' \in [Tabs -> Pages] /\ polls' \in [Tabs -> BOOLEAN]
      /\ req' \in [Tabs -> [kind : {"idle"} \cup InFlight \cup SigningOut,
                           jwt : Cookies, since : Nat,
                           to : Pages \cup {"none", "keycloak"}]]
      /\ \A u \in Tabs : req'[u].kind \in InFlight =>
           req'[u].jwt \in Jwt /\ req'[u].since <= now'
      /\ \A u \in Tabs : RequestOK(req[u])'
  <2>1. "dashboard" \in Pages /\ cookie' \in Cookies
    BY <1>4 DEF Pages, ProtectedGroup, PROTECTED_PREFIXES, Cookies
  <2>2. GoTo(t, "dashboard", cookie')
    BY DEF SignIn
  <2> QED
    BY <1>3, <1>4, <2>1, <2>2, GoToKeeps DEF IInv
<1>6. TypeOK'
  BY <1>3, <1>4, <1>5 DEF IInv, TypeOK, SignIn, Cookies, Providers
<1> QED
  BY <1>4, <1>5, <1>6 DEF IInv, SignIn, Known

LEMMA SignInsKeep ==
  ASSUME IInv, NEW t \in Tabs, handleLogin(t) \/ signInKeycloak(t)
  PROVE  IInv'
<1>1. now \in Nat /\ idp \in Providers
  BY DEF IInv, TypeOK, Providers
<1>2. CASE handleLogin(t)
  BY <1>1, <1>2, SignInTokens, SignInKeeps DEF handleLogin
<1>3. CASE signInKeycloak(t)
  <2> DEFINE p == [alive |-> TRUE, current |-> idp.current + 1]
  <2>1. p \in Providers
    BY <1>1 DEF Providers
  <2>2. SignIn(t, KeycloakTokens(p), p)
    BY <1>3 DEF signInKeycloak
  <2> HIDE DEF p
  <2> QED
    BY <1>1, <2>1, <2>2, SignInTokens, SignInKeeps
<1> QED
  BY <1>2, <1>3

LEMMA SignOutKeeps ==
  ASSUME IInv, NEW t \in Tabs, fullSignOut(t) \/ signOut(t) \/ Leave(t)
  PROVE  IInv'
<1>1. CASE fullSignOut(t)
  <2>1. PICK url \in LogoutUrls(cookie) :
          req' = [req EXCEPT ![t] = Activity("url", NoCookie, 0, url)]
    BY <1>1 DEF fullSignOut
  <2> DEFINE a == Activity("url", NoCookie, 0, url)
  <2>2. url \in {"public", "bye", "keycloak"}
    BY DEF LogoutUrls
  <2>3. /\ a \in [kind : {"idle"} \cup InFlight \cup SigningOut, jwt : Cookies,
                  since : Nat, to : Pages \cup {"none", "keycloak"}]
        /\ a.kind \notin InFlight /\ RequestOK(a)
    BY <2>2 DEF Activity, InFlight, SigningOut, Cookies, Pages, PublicPages,
                RequestOK, Trusted
  <2> HIDE DEF a
  <2>4. now' = now
    BY <1>1 DEF fullSignOut
  <2>5. TypeOK'
    BY <1>1, <2>1, <2>3, <2>4, ReqTypes DEF IInv, TypeOK, fullSignOut, a
  <2>6. \A u \in Tabs : RequestOK(req[u])'
    BY <2>1, <2>3, <2>4, ReqKeeps DEF IInv, a
  <2> QED
    BY <1>1, <2>5, <2>6 DEF IInv, fullSignOut, Known
<1>2. CASE signOut(t)
  <2>1. CASE req' = [req EXCEPT ![t] = Idle] /\ UNCHANGED cookie
    <3>1. now' = now
      BY <1>2 DEF signOut
    <3> QED
      BY <1>2, <2>1, <3>1, IdleKeeps DEF IInv, TypeOK, signOut, Known
  <2>2. CASE cookie' = NoCookie /\ req' = [req EXCEPT ![t].kind = "leave"]
    <3> DEFINE a == [req[t] EXCEPT !.kind = "leave"]
    <3>1. req' = [req EXCEPT ![t] = a] /\ now' = now
      BY <1>2, <2>2 DEF signOut
    <3>2. /\ a \in [kind : {"idle"} \cup InFlight \cup SigningOut, jwt : Cookies,
                    since : Nat, to : Pages \cup {"none", "keycloak"}]
          /\ a.kind = "leave" /\ a.to = req[t].to
      BY DEF IInv, TypeOK, SigningOut
    <3>3. req[t].to \in {"public", "bye", "keycloak"}
      BY <1>2 DEF IInv, signOut, RequestOK, SigningOut
    <3> HIDE DEF a
    <3>4. RequestOK(a) /\ a.kind \notin InFlight
      BY <3>2, <3>3 DEF RequestOK, Trusted, InFlight, SigningOut
    <3>5. TypeOK'
      BY <1>2, <2>2, <3>1, <3>2, <3>4, ReqTypes DEF IInv, TypeOK, signOut, Cookies
    <3>6. \A u \in Tabs : RequestOK(req[u])'
      BY <3>1, <3>4, ReqKeeps DEF IInv
    <3> QED
      BY <1>2, <2>2, <3>5, <3>6 DEF IInv, signOut, Known
  <2> QED
    BY <1>2, <2>1, <2>2 DEF signOut
<1>3. CASE Leave(t)
  <2>1. req' = [req EXCEPT ![t] = Idle] /\ now' = now
    BY <1>3 DEF Leave
  <2>2. req[t].to \in {"public", "bye", "keycloak"}
    BY <1>3 DEF IInv, Leave, RequestOK, SigningOut
  <2>3. /\ page' \in [Tabs -> Pages] /\ idp' \in Providers
        /\ polls' \in [Tabs -> BOOLEAN]
    BY <1>3, <2>2, PollsTyped DEF Leave, IInv, TypeOK, Pages, PublicPages, Providers
  <2> QED
    BY <1>3, <2>1, <2>3, IdleKeeps DEF IInv, TypeOK, Leave, Known, Providers
<1> QED
  BY <1>1, <1>2, <1>3

LEMMA WorldKeeps ==
  ASSUME IInv, IdpExpire \/ Tick
  PROVE  IInv'
<1>1. CASE IdpExpire
  BY <1>1 DEF IdpExpire, IInv, TypeOK, RequestOK, Trusted, Known
<1>2. CASE Tick
  <2>1. /\ now \in Nat /\ now' = now + 1
        /\ UNCHANGED <<cookie, idp, page, req, polls, answers, logins>>
        /\ \A t \in Tabs : req[t].kind \in InFlight => now < req[t].since + Flight
    BY <1>2 DEF Tick, IInv, TypeOK
  <2>2. TypeOK'
    BY <2>1 DEF IInv, TypeOK
  <2>3. Flight \in Nat
    BY SessionAssumption
  <2>4. ASSUME NEW t \in Tabs
        PROVE  RequestOK(req[t])'
    <3>1. req[t].since \in Nat /\ RequestOK(req[t])
      BY DEF IInv, TypeOK
    <3>2. req[t].kind \in InFlight => now' <= req[t].since + Flight
      BY <2>1, <2>3, <3>1
    <3> QED
      BY <2>1, <3>1, <3>2 DEF RequestOK, Trusted, Known
  <2> QED
    BY <2>1, <2>2, <2>4 DEF IInv, Known
<1> QED
  BY <1>1, <1>2

-----------------------------------------------------------------------------
(* The theorems.                                                            *)

\* IInv holds in every reachable state, for any tabs, lifetimes and bounds.
THEOREM Invariance == Spec => []IInv
<1>1. Init => IInv
  <2> SUFFICES ASSUME Init PROVE IInv
    OBVIOUS
  <2>1. Idle \in [kind : {"idle"} \cup InFlight \cup SigningOut, jwt : Cookies,
                  since : Nat, to : Pages \cup {"none", "keycloak"}]
        /\ Idle.kind \notin InFlight
    BY DEF Idle, Activity, InFlight, Cookies
  <2>2. TypeOK
    BY <2>1, FS_EmptySet DEF Init, TypeOK, Cookies, Pages, PublicPages
  <2> QED
    BY <2>2, IdleOK DEF Init, IInv
<1>2. IInv /\ [Next]_vars => IInv'
  <2> SUFFICES ASSUME IInv, [Next]_vars PROVE IInv'
    OBVIOUS
  <2>1. CASE UNCHANGED vars
    BY <2>1 DEF vars, IInv, TypeOK, RequestOK, Trusted, Known
  <2>2. CASE Tick \/ IdpExpire
    BY <2>2, WorldKeeps
  <2>3. CASE SessionAsk
    BY <2>3, SessionAskKeeps
  <2>4. CASE SessionLand
    BY <2>4, SessionLandKeeps
  <2>5. ASSUME NEW t \in Tabs,
               \E route \in ProtectedGroup \cup {"public", "login"} : Navigate(t, route)
        PROVE  IInv'
    BY <2>5, NavigateKeeps
  <2>6. ASSUME NEW t \in Tabs, Request(t) \/ Prefetch(t) \/ HideOrShow(t) PROVE IInv'
    BY <2>6, RequestKeeps, PrefetchKeeps, HideOrShowKeeps
  <2>7. ASSUME NEW t \in Tabs, Work(t) PROVE IInv'
    BY <2>7, ProtectedLayoutKeeps, ServerAnswerKeeps, AnswerKeeps, SignOutKeeps DEF Work
  <2>8. ASSUME NEW t \in Tabs, handleLogin(t) \/ signInKeycloak(t) PROVE IInv'
    BY <2>8, SignInsKeep
  <2>9. ASSUME NEW t \in Tabs, fullSignOut(t) PROVE IInv'
    BY <2>9, SignOutKeeps
  <2> QED
    BY <2>1, <2>2, <2>3, <2>4, <2>5, <2>6, <2>7, <2>8, <2>9 DEF Next
<1> QED
  BY <1>1, <1>2, PTL DEF Spec

\* The model of the session is type correct.
THEOREM TypeCorrect == Spec => []TypeOK
<1>1. IInv => TypeOK
  BY DEF IInv
<1> QED
  BY <1>1, Invariance, PTL

\* No sign-in, renewal or late answer puts a session into the cookie that
\* accessTokenUsable lets through without knowing when its token expires.
THEOREM UsableTokensExpire == Spec => []KnownExpiry
<1>1. IInv => KnownExpiry
  BY DEF IInv, KnownExpiry, Known, accessTokenUsable
<1> QED
  BY <1>1, Invariance, PTL

\* The margin of accessTokenUsable covers the flight of a bearer: no token the
\* BFF or serverApiGet forwards expires on its way to the backend's verdict.
THEOREM BearersSurvive == Spec => []NoBearerDiesInFlight
<1>1. IInv => NoBearerDiesInFlight
  <2> SUFFICES ASSUME IInv, NEW t \in Tabs, req[t].kind \in {"fetch", "api"}
               PROVE  now < req[t].jwt.expires
    BY DEF NoBearerDiesInFlight
  <2>1. /\ req[t].since \in Nat /\ req[t].jwt \in Jwt /\ now \in Nat
        /\ now <= req[t].since + Flight /\ req[t].since + Skew < req[t].jwt.expires
    BY DEF IInv, TypeOK, RequestOK, Trusted, InFlight
  <2>2. req[t].jwt.expires \in Nat
    BY <2>1 DEF Jwt
  <2> QED
    BY <2>1, <2>2, SessionAssumption
<1> QED
  BY <1>1, Invariance, PTL

\* A navigation to a page whose prefix the proxy guards never spends the refresh
\* token: the token that passed the proxy is still valid when the layout looks
\* (prefetches, which the matcher of proxy.ts leaves out, may spend it).
THEOREM NavigationsKeepTheRefreshToken == Spec => NavigationNeverSpendsRefresh
<1> DEFINE Keeps == \A t \in Tabs :
      ProtectedLayout(t) /\ req[t].to \in PROTECTED_PREFIXES => UNCHANGED idp
<1>1. IInv => Keeps
  <2> SUFFICES ASSUME IInv, NEW t \in Tabs, ProtectedLayout(t),
                      req[t].to \in PROTECTED_PREFIXES
               PROVE  idp' = idp
    OBVIOUS
  <2>1. /\ req[t].since \in Nat /\ req[t].jwt \in Jwt /\ now \in Nat
        /\ now <= req[t].since + Flight /\ req[t].since + Skew < req[t].jwt.expires
    BY DEF IInv, TypeOK, RequestOK, Trusted, InFlight, ProtectedLayout
  <2>2. req[t].jwt.expires \in Nat
    BY <2>1 DEF Jwt
  <2>3. req[t].jwt.expires # Unknown /\ now < req[t].jwt.expires
    BY <2>1, <2>2, SessionAssumption DEF Unknown
  <2>4. \A o \in jwt(req[t].jwt, idp) : o.idp = idp
    BY <2>3 DEF jwt, Outcome
  <2> QED
    BY <2>4 DEF ProtectedLayout
<1> QED
  BY <1>1, Invariance, PTL DEF NavigationNeverSpendsRefresh
-----------------------------------------------------------------------------
(* Rotation.  The sessions of the browser are those in its cookie and in    *)
(* the answers on their way to it; Keycloak accepts one refresh token.      *)

Held == (answers \cup {cookie}) \ {NoCookie}

Issued == \A c \in Held : c.refresh <= idp.current

Accepted(c, p) == c.refresh # None /\ c.refresh = p.current

\* No session of the browser has the refresh token Keycloak accepts.
Lost == \A c \in Held : ~Accepted(c, idp)

\* A renewal spends the accepted token or changes nothing, and the session it
\* answers with has a token that was issued.
LEMMA RenewalSpends ==
  ASSUME NEW c \in Jwt, NEW p \in Providers, now \in Nat, NEW o \in jwt(c, p),
         c.refresh <= p.current
  PROVE  /\ o.idp.current >= p.current
         /\ o.jwt.refresh <= o.idp.current
         /\ ~Accepted(c, p) => o.idp = p /\ o.jwt.refresh = c.refresh
<1>1. c.refresh \in Nat /\ p.current \in Nat
  BY DEF Jwt, Providers
<1>2. Failed(c).refresh = c.refresh
  BY DEF Failed, Jwt
<1>3. ASSUME NEW rotate \in Rotations
      PROVE  /\ Rotated(p, rotate).current \in Nat
             /\ Rotated(p, rotate).current >= p.current
  BY <1>1, <1>3 DEF Rotated, Providers
<1>4. CASE o = Outcome(c, p) \/ o = Outcome(Failed(c), p)
  BY <1>1, <1>2, <1>4 DEF Outcome
<1>5. ASSUME NEW rotate \in Rotations, Accepted(c, p),
             o = Outcome(Failed(c), Rotated(p, rotate))
      PROVE  o.idp.current >= p.current /\ o.jwt.refresh <= o.idp.current
  BY <1>1, <1>2, <1>3, <1>5 DEF Outcome
<1>6. ASSUME NEW rotate \in Rotations, NEW ttl \in Lifetimes \ {0}, Accepted(c, p),
             o = Outcome(Renewed(c, ttl, Rotated(p, rotate).current), Rotated(p, rotate))
      PROVE  o.idp.current >= p.current /\ o.jwt.refresh <= o.idp.current
  <2>1. o.jwt.refresh = Rotated(p, rotate).current
    BY <1>6 DEF Outcome, Renewed, Jwt
  <2> QED
    BY <1>3, <1>6, <2>1 DEF Outcome
<1>7. \/ o = Outcome(c, p) \/ o = Outcome(Failed(c), p)
      \/ /\ Accepted(c, p)
         /\ \E rotate \in Rotations :
              \/ o = Outcome(Failed(c), Rotated(p, rotate))
              \/ \E ttl \in Lifetimes \ {0} :
                   o = Outcome(Renewed(c, ttl, Rotated(p, rotate).current),
                               Rotated(p, rotate))
  BY DEF jwt, refreshAccessToken, Accepted
<1> QED
  BY <1>4, <1>5, <1>6, <1>7

\* Whatever session it is asked for, Keycloak takes no token back.
LEMMA RenewalGrows ==
  ASSUME NEW c \in Jwt, NEW p \in Providers, NEW o \in jwt(c, p)
  PROVE  o.idp.current >= p.current
<1>1. p.current \in Nat
  BY DEF Providers
<1>2. \A rotate \in Rotations : Rotated(p, rotate).current >= p.current
  BY <1>1 DEF Rotated, Providers
<1>3. o.idp = p \/ \E rotate \in Rotations : o.idp = Rotated(p, rotate)
  BY DEF jwt, refreshAccessToken, Outcome
<1> QED
  BY <1>1, <1>2, <1>3

\* What a step does to the browser's sessions and to Keycloak's token.
Rotates ==
  /\ idp'.current >= idp.current
  /\ Issued'
  /\ logins' = logins /\ Lost => Lost'

LEMMA HeldTypes ==
  ASSUME TypeOK
  PROVE  /\ Held \subseteq Jwt /\ idp \in Providers /\ idp.current \in Nat /\ now \in Nat
         /\ \A c \in Held : c.refresh \in Nat
BY DEF TypeOK, Held, Cookies, Jwt, Providers

\* A step that lets the browser keep what it had, and Keycloak go on.
LEMMA NothingNew ==
  ASSUME TypeOK, Issued, Held' \subseteq Held, idp'.current \in Nat,
         idp'.current >= idp.current
  PROVE  Rotates
BY HeldTypes DEF Rotates, Issued, Lost, Accepted

LEMMA RenderRotates ==
  ASSUME TypeOK, TypeOK', Issued, NEW t \in Tabs, ProtectedLayout(t)
  PROVE  Rotates
<1>1. Held' = Held
  BY DEF ProtectedLayout, Held
<1>2. idp'.current \in Nat
  BY DEF TypeOK
<1>3. PICK o \in jwt(req[t].jwt, idp) : idp' = o.idp
  BY DEF ProtectedLayout
<1>4. req[t].jwt \in Jwt
  BY DEF TypeOK, ProtectedLayout, InFlight
<1>5. o.idp.current >= idp.current
  BY <1>4, HeldTypes, RenewalGrows
<1> QED
  BY <1>1, <1>2, <1>3, <1>5, NothingNew

LEMMA PrefetchRotates ==
  ASSUME TypeOK, TypeOK', Issued, NEW t \in Tabs, Prefetch(t)
  PROVE  Rotates
<1>1. Held' = Held /\ cookie \in Held
  BY DEF Prefetch, Held
<1>2. idp'.current \in Nat
  BY DEF TypeOK
<1>3. PICK o \in jwt(cookie, idp) : idp' = o.idp
  BY DEF Prefetch
<1>4. o.idp.current >= idp.current
  BY <1>1, HeldTypes, RenewalGrows
<1> QED
  BY <1>1, <1>2, <1>3, <1>4, NothingNew

LEMMA AskRotates ==
  ASSUME TypeOK, TypeOK', Issued, SessionAsk
  PROVE  Rotates
<1>1. PICK o \in jwt(cookie, idp) : answers' = answers \cup {o.jwt} /\ idp' = o.idp
  BY DEF SessionAsk
<1>2. cookie # NoCookie /\ cookie' = cookie /\ cookie \in Held /\ cookie \in Jwt
  BY HeldTypes DEF SessionAsk, Held
<1>3. cookie.refresh <= idp.current
  BY <1>2 DEF Issued
<1>4. /\ o.idp.current >= idp.current
      /\ o.jwt.refresh <= o.idp.current
      /\ ~Accepted(cookie, idp) => o.idp = idp /\ o.jwt.refresh = cookie.refresh
  BY <1>2, <1>3, HeldTypes, RenewalSpends
<1>5. Held' \subseteq Held \cup {o.jwt}
  BY <1>1, <1>2 DEF Held
<1>6. idp'.current \in Nat
  BY DEF TypeOK
<1>7. Issued'
  BY <1>1, <1>4, <1>5, <1>6, HeldTypes DEF Issued
<1>8. ASSUME Lost
      PROVE  Lost'
  <2>1. ~Accepted(cookie, idp)
    BY <1>2, <1>8 DEF Lost
  <2> QED
    BY <1>1, <1>4, <1>5, <1>8, <2>1 DEF Lost, Accepted
<1> QED
  BY <1>1, <1>4, <1>7, <1>8 DEF Rotates

LEMMA SignInRotates ==
  ASSUME TypeOK, TypeOK', Issued, NEW t \in Tabs, handleLogin(t) \/ signInKeycloak(t)
  PROVE  Rotates
<1>0. PICK p : p = [alive |-> TRUE, current |-> idp.current + 1]
  OBVIOUS
<1>1. /\ p \in Providers /\ p.current \in Nat /\ p.current >= idp.current
      /\ idp \in Providers /\ idp.current \in Nat /\ now \in Nat
  BY <1>0, HeldTypes DEF Providers
<1>2. ASSUME NEW q \in Providers, NEW tokens, SignIn(t, tokens, q), tokens \subseteq Jwt,
             q.current >= idp.current, \A token \in tokens : token.refresh <= q.current
      PROVE  Rotates
  <2>0. PICK token \in tokens : \E o \in jwt(token, q) : cookie' = o.jwt /\ idp' = o.idp
    BY <1>2 DEF SignIn
  <2>1. PICK o \in jwt(token, q) : cookie' = o.jwt /\ idp' = o.idp
    BY <2>0
  <2>2. o.idp.current >= q.current /\ o.jwt.refresh <= o.idp.current
    BY <1>1, <1>2, RenewalSpends
  <2>3. idp'.current \in Nat /\ q.current \in Nat
    BY DEF TypeOK, Providers
  <2>4. Held' \subseteq Held \cup {o.jwt}
    BY <1>2, <2>1 DEF SignIn, Held
  <2>5. idp'.current >= idp.current
    BY <1>1, <1>2, <2>1, <2>2, <2>3
  <2>6. Issued'
    BY <1>1, <2>1, <2>2, <2>3, <2>4, <2>5, HeldTypes DEF Issued
  <2>7. logins' # logins
    BY <1>2 DEF SignIn, TypeOK
  <2> QED
    BY <2>5, <2>6, <2>7 DEF Rotates
<1>3. LocalTokens \subseteq Jwt /\ KeycloakTokens(p) \subseteq Jwt
  BY <1>1, SignInTokens
<1>4. ASSUME handleLogin(t)
      PROVE  Rotates
  <2>1. SignIn(t, LocalTokens, idp)
    BY <1>4 DEF handleLogin
  <2>2. \A token \in LocalTokens : token.refresh = 0
    BY DEF LocalTokens, None
  <2>3. \A token \in LocalTokens : token.refresh <= idp.current
    BY <1>1, <2>2
  <2> QED
    BY <1>1, <1>2, <1>3, <2>1, <2>3
<1>5. ASSUME signInKeycloak(t)
      PROVE  Rotates
  <2>1. SignIn(t, KeycloakTokens(p), p)
    BY <1>0, <1>5 DEF signInKeycloak
  <2>2. \A token \in KeycloakTokens(p) : token.refresh = p.current
    BY DEF KeycloakTokens
  <2>3. \A token \in KeycloakTokens(p) : token.refresh <= p.current
    BY <1>1, <2>2
  <2> QED
    BY <1>1, <1>2, <1>3, <2>1, <2>3
<1> QED
  BY <1>4, <1>5

LEMMA NextRotates ==
  ASSUME TypeOK, TypeOK', Issued, [Next]_vars
  PROVE  Rotates
<1>1. CASE SessionAsk
  BY <1>1, AskRotates
<1>2. CASE SessionLand
  <2>1. Held' \subseteq Held /\ idp' = idp
    BY <1>2 DEF SessionLand, Held
  <2> QED
    BY <2>1, NothingNew, HeldTypes
<1>3. CASE Tick \/ UNCHANGED vars
  <2>1. Held' = Held /\ idp' = idp
    BY <1>3 DEF Tick, vars, Held
  <2> QED
    BY <2>1, NothingNew, HeldTypes
<1>4. CASE IdpExpire
  <2>1. Held' = Held /\ idp'.current = idp.current
    BY <1>4, HeldTypes DEF IdpExpire, Held, Providers
  <2> QED
    BY <2>1, NothingNew, HeldTypes
<1>5. ASSUME NEW t \in Tabs, Work(t)
      PROVE  Rotates
  <2>1. CASE ProtectedLayout(t)
    BY <2>1, RenderRotates
  <2>2. CASE ServerAnswer(t) \/ Answer(t) \/ signOut(t) \/ Leave(t)
    <3>1. Held' \subseteq Held
      BY <2>2 DEF ServerAnswer, Answer, signOut, Leave, Held
    <3>2. idp'.current = idp.current
      BY <2>2, HeldTypes DEF ServerAnswer, Answer, signOut, Leave, Providers
    <3> QED
      BY <3>1, <3>2, NothingNew, HeldTypes
  <2> QED
    BY <1>5, <2>1, <2>2 DEF Work
<1>6. ASSUME NEW t \in Tabs, handleLogin(t) \/ signInKeycloak(t)
      PROVE  Rotates
  BY <1>6, SignInRotates
<1>8. ASSUME NEW t \in Tabs, Prefetch(t)
      PROVE  Rotates
  BY <1>8, PrefetchRotates
<1>7. ASSUME NEW t \in Tabs,
             \/ \E route \in ProtectedGroup \cup {"public", "login"} : Navigate(t, route)
             \/ Request(t) \/ HideOrShow(t) \/ fullSignOut(t)
      PROVE  Rotates
  <2>1. Held' = Held /\ idp' = idp
    BY <1>7 DEF Navigate, Request, HideOrShow, fullSignOut, Held
  <2> QED
    BY <2>1, NothingNew, HeldTypes
<1> QED
  BY <1>1, <1>2, <1>3, <1>4, <1>5, <1>6, <1>7, <1>8 DEF Next

\* No session in the cookie or on its way has a refresh token that Keycloak has
\* not issued yet, however renewals, sign-ins and lost answers interleave
\* (refreshAccessToken keeps the old one unless the answer brings another).
THEOREM TokensAreIssued == Spec => []Issued
<1>1. Init => Issued
  BY DEF Init, Issued, Held
<1>2. TypeOK /\ TypeOK' /\ Issued /\ [Next]_vars => Issued'
  BY NextRotates DEF Rotates
<1> QED
  BY <1>1, <1>2, TypeCorrect, PTL DEF Spec

\* A rotation whose answer was lost is final (callbacks.jwt, ProtectedLayout): once
\* neither the cookie nor an answer has the refresh token Keycloak accepts, no
\* renewal, late answer or other tab gives the browser one; only a sign-in does.
THEOREM LostRotationIsFinal == Spec => [][Lost /\ logins' = logins => Lost']_vars
<1>1. TypeOK /\ TypeOK' /\ Issued /\ [Next]_vars => (Lost /\ logins' = logins => Lost')
  BY NextRotates DEF Rotates
<1> QED
  BY <1>1, TypeCorrect, TokensAreIssued, PTL DEF Spec

\* What undoes a sign-out (logout.ts): nothing but a sign-in and the answers that
\* were under way when the cookie was deleted, of which no new ones come.
THEOREM OnlyOldAnswersReopen ==
  Spec => [][cookie = NoCookie /\ logins' = logins =>
               cookie' \in answers \cup {NoCookie} /\ answers' \subseteq answers]_vars
<1>1. TypeOK /\ [Next]_vars =>
        (cookie = NoCookie /\ logins' = logins =>
           cookie' \in answers \cup {NoCookie} /\ answers' \subseteq answers)
  <2> SUFFICES ASSUME TypeOK, [Next]_vars, cookie = NoCookie, logins' = logins
               PROVE  cookie' \in answers \cup {NoCookie} /\ answers' \subseteq answers
    OBVIOUS
  <2>1. \A t \in Tabs : ~handleLogin(t) /\ ~signInKeycloak(t)
    BY DEF handleLogin, signInKeycloak, SignIn, TypeOK
  <2>2. CASE SessionAsk \/ SessionLand
    BY <2>2 DEF SessionAsk, SessionLand
  <2>3. CASE Tick \/ IdpExpire \/ UNCHANGED vars
    BY <2>3 DEF Tick, IdpExpire, vars
  <2>4. ASSUME NEW t \in Tabs,
               \/ \E route \in ProtectedGroup \cup {"public", "login"} : Navigate(t, route)
               \/ Prefetch(t) \/ Request(t) \/ Work(t) \/ HideOrShow(t) \/ fullSignOut(t)
        PROVE  cookie' = NoCookie /\ answers' = answers
    BY <2>4 DEF Navigate, Prefetch, Request, HideOrShow, Work, ProtectedLayout, ServerAnswer, Answer, signOut,
                Leave, fullSignOut
  <2> QED
    BY <2>1, <2>2, <2>3, <2>4 DEF Next
<1> QED
  BY <1>1, TypeCorrect, PTL DEF Spec
=============================================================================
