-------------------------- MODULE KeycloakSettings --------------------------
(***************************************************************************)
(* The Keycloak connection an administrator tests and saves while the      *)
(* platform runs: the form of /configuracao (KeycloakSettingsForm.tsx) and *)
(* behind it the handlers that resolve a blank secret, try the connection, *)
(* store it and reload the verifier (backend/internal/platform/            *)
(* keycloakconfig).  Until something is saved, the platform runs on its    *)
(* environment variables.                                                  *)
(*                                                                         *)
(* One form; its test and its save may be under way together, and it can   *)
(* be edited meanwhile.  Another administrator may save at the same time:  *)
(* the handler holds no lock between its steps.  One API process.          *)
(***************************************************************************)
EXTENDS Naturals

CONSTANTS
  Issuers, Clients,  \* issuer, realm and audience go together, as one value
  Secrets,           \* client secrets one can type
  EnvConn,           \* KEYCLOAK_* of the environment, or NoConn
  EnvSecret,         \* ... and its client secret
  NoConn,
  Blank,             \* an empty secret field: keep the present one
  Nothing,           \* no row, no result, no call, no form
  MaxEdits           \* bound: changes of a field and saves of the other

Conns == [issuer : Issuers, client : Clients]

VARIABLES
  row,       \* keycloak_settings, or Nothing
  live,      \* the connection that the verifier of tokens was loaded with
  form,      \* the fields; blank secrets are never filled in
  source,    \* the badge: "database", "environment" or "unset"
  result,    \* the result shown, or Nothing
  test,      \* the connection under test: Nothing when the button is free
  saves,     \* the form's save and the other administrator's, or Nothing
  edits,     \* changes of a field and saves of the other so far
  crossed,   \* the form changed while a call was under way (history)
  amiss      \* the last reload failed, or two saves overlapped (history)

keycloakVars ==
  <<row, live, form, source, result, test, saves, edits, crossed, amiss>>

AnySecret == Secrets \cup {EnvSecret, Blank}
Settings(conns) == [conn : conns, secret : AnySecret]

\* What a test finds; "passed" stands for StatusOK and StatusWarning.
Verdicts == {"passed", "failed"}

Savers == {"mine", "other"}
save == saves["mine"]

\* A save at a stage of its handler; saved is the row that it wrote.
Saves == [conn : Conns, secret : AnySecret, tested : AnySecret,
          saved : Settings(Conns) \cup {Nothing}, verdict : Verdicts,
          stage : {"sent", "refused", "checked", "stored", "done"}]

ASSUME KeycloakSettingsAssumption ==
  /\ EnvConn \in Conns \cup {NoConn}
  /\ MaxEdits \in Nat
  /\ Blank \notin Secrets /\ NoConn \notin Conns
  /\ Nothing \notin Conns \cup Settings(Conns) \cup Saves

KeycloakTypeOK ==
  /\ row \in Settings(Conns) \cup {Nothing}
  /\ live \in Conns \cup {NoConn}
  /\ form \in Settings(Conns \cup {NoConn})
  /\ source \in {"database", "environment", "unset"}
  /\ result \in [conn : Conns \cup {NoConn}, verdict : Verdicts] \cup {Nothing}
  /\ test \in Conns \cup {Nothing}
  /\ saves \in [Savers -> Saves \cup {Nothing}]
  /\ edits \in 0..MaxEdits /\ crossed \in BOOLEAN /\ amiss \in BOOLEAN

\* The connection of a row, or of the environment when there is none.
Kept(r) == IF r # Nothing THEN r.conn ELSE EnvConn

\* toStatusResponse, as toFormState turns it into the fields.
StatusSource(r) ==
  IF r # Nothing THEN "database"
  ELSE IF EnvConn # NoConn THEN "environment" ELSE "unset"
toFormState(r) == [conn |-> Kept(r), secret |-> Blank]

\* The platform has just started, with something saved or not, and the page is
\* open: SistemaPage renders the form from the status it reads.
KeycloakInit ==
  /\ row \in {Nothing} \cup [conn : Conns, secret : Secrets]
  /\ live = Kept(row)
  /\ form = toFormState(row) /\ source = StatusSource(row)
  /\ result = Nothing /\ test = Nothing /\ saves = [a \in Savers |-> Nothing]
  /\ edits = 0 /\ crossed = FALSE /\ amiss = FALSE

-----------------------------------------------------------------------------
(* The form.                                                                *)

\* Mutant of handleChange: the result stays.
KeepResult ==
  /\ edits < MaxEdits
  /\ edits' = edits + 1
  /\ \E c \in Conns \ {form.conn} : form' = [form EXCEPT !.conn = c]
  /\ crossed' = (test # Nothing \/ save # Nothing)
  /\ UNCHANGED <<row, live, source, result, test, saves, amiss>>

\* A field changes: what was tested is no longer what is shown.
handleChange ==
  /\ edits < MaxEdits
  /\ edits' = edits + 1
  /\ \/ \E c \in Conns \ {form.conn} : form' = [form EXCEPT !.conn = c]
     \/ \E s \in (Secrets \cup {Blank}) \ {form.secret} :
          form' = [form EXCEPT !.secret = s]
  /\ result' = Nothing
  /\ crossed' = (test # Nothing \/ save # Nothing)
  /\ UNCHANGED <<row, live, source, test, saves, amiss>>

\* The button "Testar conexao".
handleTest ==
  /\ test = Nothing /\ form.conn # NoConn
  /\ test' = form.conn
  /\ result' = Nothing
  /\ crossed' = (crossed /\ save # Nothing)
  /\ UNCHANGED <<row, live, form, source, saves, edits, amiss>>

\* The backend tries the connection (Test), and the answer comes back: the
\* verdict, or an error, which is a toast and leaves the result alone.
TestAnswer ==
  /\ test # Nothing
  /\ test' = Nothing
  /\ \/ \E v \in Verdicts : result' = [conn |-> test, verdict |-> v]
     \/ UNCHANGED result
  /\ UNCHANGED <<row, live, form, source, saves, edits, crossed, amiss>>

\* The body of PUT /api/v1/admin/keycloak.
Sent(conn, secret) ==
  [conn |-> conn, secret |-> secret, tested |-> Blank, saved |-> Nothing,
   verdict |-> "failed", stage |-> "sent"]

\* What is left of a save that ends in an error.
Refused(call) == [Sent(call.conn, Blank) EXCEPT !.stage = "refused"]

\* The button "Salvar"; every field but the secrets is required.
handleSave ==
  /\ save = Nothing /\ form.conn # NoConn
  /\ saves' = [saves EXCEPT !["mine"] = Sent(form.conn, form.secret)]
  /\ UNCHANGED <<row, live, form, source, result, test, edits, crossed, amiss>>

\* Another administrator saves, from a form of their own.
OtherSaves ==
  /\ saves["other"] = Nothing /\ edits < MaxEdits
  /\ edits' = edits + 1
  /\ \E c \in Conns, s \in Secrets \cup {Blank} :
       saves' = [saves EXCEPT !["other"] = Sent(c, s)]
  /\ UNCHANGED <<row, live, form, source, result, test, crossed, amiss>>

\* What the fields and buttons of a form call.
KeycloakSettingsForm == handleChange \/ handleTest \/ handleSave \/ OtherSaves

-----------------------------------------------------------------------------
(* The handler of a save, between its calls to others.                      *)

\* The save of a goes on with these fields.
Goes(a, stage) == saves[a] # Nothing /\ saves[a].stage = stage

\* The secret a blank field stands for when the connection is tried.
resolved(secret) ==
  IF secret # Blank THEN secret
  ELSE IF row # Nothing THEN row.secret ELSE EnvSecret

\* The connection is tried with it: no discovery, no save.
Check(a) ==
  /\ Goes(a, "sent")
  /\ \/ \E v \in Verdicts \ {"failed"} :
          saves' = [saves EXCEPT ![a].tested = resolved(saves[a].secret),
                                 ![a].verdict = v, ![a].stage = "checked"]
     \/ saves' = [saves EXCEPT ![a] = Refused(saves[a])]
  /\ UNCHANGED <<row, live, form, source, result, test, edits, crossed, amiss>>

\* The secret that PostgresStore.Set leaves in the row.
stored(secret) ==
  IF secret = Blank /\ row # Nothing THEN row.secret ELSE secret

\* The row is written and returned, or the statement fails.
Set(a) ==
  /\ Goes(a, "checked")
  /\ \/ /\ row' = [conn |-> saves[a].conn, secret |-> stored(saves[a].secret)]
        /\ saves' = [saves EXCEPT ![a].saved = row', ![a].stage = "stored"]
        /\ amiss' = \E b \in Savers : Goes(b, "stored")
     \/ /\ saves' = [saves EXCEPT ![a] = Refused(saves[a])]
        /\ UNCHANGED <<row, amiss>>
  /\ UNCHANGED <<live, form, source, result, test, edits, crossed>>

\* The verifier takes what this save wrote; its failure is only logged.
VerifierReload(a) ==
  /\ Goes(a, "stored")
  /\ saves' = [saves EXCEPT ![a].stage = "done"]
  /\ \/ live' = saves[a].saved.conn /\ UNCHANGED amiss
     \/ amiss' = TRUE /\ UNCHANGED live
  /\ UNCHANGED <<row, form, source, result, test, edits, crossed>>

\* The answer: the form starts again from what it saved.  One that is lost, or
\* an error, leaves form and badge as they are.
SaveAnswer ==
  /\ save # Nothing /\ save.stage \in {"done", "refused"}
  /\ saves' = [saves EXCEPT !["mine"] = Nothing]
  /\ \/ /\ save.stage = "done"
        /\ form' = toFormState(save.saved) /\ source' = StatusSource(save.saved)
        /\ result' = [conn |-> save.conn, verdict |-> save.verdict]
     \/ UNCHANGED <<form, source, result>>
  /\ UNCHANGED <<row, live, test, edits, crossed, amiss>>

\* The answer to the other administrator, whose form is not followed.
OtherAnswered ==
  /\ Goes("other", "done") \/ Goes("other", "refused")
  /\ saves' = [saves EXCEPT !["other"] = Nothing]
  /\ UNCHANGED <<row, live, form, source, result, test, edits, crossed, amiss>>

\* Mutant of Restart: it runs on the environment again, as if nothing was saved.
RestartOnEnvironment ==
  /\ \A a \in Savers : saves[a] = Nothing
  /\ live' = EnvConn /\ amiss' = FALSE
  /\ UNCHANGED <<row, form, source, result, test, saves, edits, crossed>>

\* The API process ends, whatever its handlers were at, and starts again: on the
\* environment, then on what is saved if that can be read and loaded.  The calls
\* it was answering fail.
Restart ==
  /\ live' \in {Kept(row), EnvConn}
  /\ amiss' = (live' # Kept(row))
  /\ saves' = [a \in Savers |->
       IF saves[a] = Nothing \/ Goes(a, "done") THEN saves[a]
       ELSE Refused(saves[a])]
  /\ test' \in {test, Nothing}
  /\ UNCHANGED <<row, form, source, result, edits, crossed>>

KeycloakNext ==
  \/ KeycloakSettingsForm \/ TestAnswer
  \/ \E a \in Savers : Check(a) \/ Set(a) \/ VerifierReload(a)
  \/ SaveAnswer \/ OtherAnswered \/ Restart

-----------------------------------------------------------------------------
(* Properties.                                                              *)

\* A verdict on the screen is about the connection in the fields, across tests
\* and saves under way together, unless a field changed while one of them was.
VerdictIsAboutTheForm ==
  result # Nothing /\ ~crossed => result.conn = form.conn

\* Tokens are verified against what is saved ("the next restart reads from
\* Postgres and converges", transport.go): whatever two administrators save at
\* once, whichever statement fails and wherever the process dies, the verifier
\* has the connection of the row, or the environment's when there is none.  Only
\* a save on its way from the row to the verifier, a reload that failed and two
\* saves that overlapped there set them apart, and the last two no longer than
\* to the next save or restart that goes through.
VerifierFollowsRow ==
  (\A a \in Savers : ~Goes(a, "stored")) /\ ~amiss => live = Kept(row)

\* "The test of the connection validates exactly the secret that will be stored,
\* never one different from what ends up saved" (transport.go), which a platform
\* that runs on its environment needs too: a blank field keeps the environment's
\* secret (KeycloakSettingsForm.tsx).
TestedIsStored ==
  \A a \in Savers :
    Goes(a, "stored") \/ Goes(a, "done") => saves[a].saved.secret = saves[a].tested
=============================================================================
