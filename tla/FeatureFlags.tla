---------------------------- MODULE FeatureFlags ----------------------------
(***************************************************************************)
(* The feature flags as an administrator sees and changes them: the panel  *)
(* of /configuracao with its optimistic switches (FeatureFlagsPanel.tsx),  *)
(* the menu that hides the pages of disabled modules (Sidebar.tsx) and the *)
(* table of the backend (backend/internal/platform/configflags) that both  *)
(* read once, and that the panel and other administrators write.           *)
(*                                                                         *)
(* Every click on a switch is a PATCH with a life of its own: it may reach *)
(* the backend late, even after its call has ended in an error, be refused *)
(* there, or be applied and its answer lost.  The panel starts from what   *)
(* the server rendered, which the browser's Back restores as it was then.  *)
(***************************************************************************)
EXTENDS Naturals, FiniteSets

CONSTANTS
  Keys,        \* the feature flags
  MaxToggles,  \* bound: clicks on switches, here and elsewhere
  Closed,      \* no panel: another page, a refusal (403) or an error instead
  Unknown,     \* the menu has no flags: not loaded, refused or failed
  NoKey        \* pendingKey is null

ASSUME FeatureFlagsAssumption ==
  MaxToggles \in Nat /\ NoKey \notin Keys
  /\ {Closed, Unknown} \cap [Keys -> BOOLEAN] = {}

VARIABLES
  enabled,     \* feature_flags.enabled, in the backend
  flags,       \* the switches of the panel, or Closed
  payload,     \* the flags in the rendered page the router keeps, or Closed
  pendingKey,  \* the key whose switch is disabled
  patches,     \* toggle calls that have not ended
  menu,        \* the flags the menu was drawn from, or Unknown
  clicks,      \* clicks so far, here and elsewhere
  doubt,       \* keys with a change whose outcome the panel cannot know:
               \* changed again or mounted meanwhile, or no answer (history)
  behind,      \* keys last written by others than this panel (history)
  stale,       \* keys written since the payload was rendered (history)
  touched      \* keys changed since the menu was loaded (history)

flagVars ==
  <<enabled, flags, payload, pendingKey, patches, menu, clicks, doubt, behind,
    stale, touched>>

Shown == [Keys -> BOOLEAN]
Patches ==
  [id : 1..MaxToggles, key : Keys, next : BOOLEAN, orphan : BOOLEAN,
   stage : {"sent", "applied", "failed"}]

FlagsTypeOK ==
  /\ enabled \in Shown /\ {flags, payload} \subseteq Shown \cup {Closed}
  /\ menu \in Shown \cup {Unknown}
  /\ pendingKey \in Keys \cup {NoKey}
  /\ patches \subseteq Patches
  /\ clicks \in 0..MaxToggles
  /\ doubt \cup behind \cup stale \cup touched \subseteq Keys

Changing(k) == \E p \in patches : p.key = k
Unsettled == {k \in Keys : Changing(k)}

FlagsInit ==
  /\ enabled \in Shown
  /\ flags = Closed /\ payload = Closed /\ pendingKey = NoKey /\ patches = {}
  /\ menu \in {enabled, Unknown}
  /\ clicks = 0 /\ doubt = {} /\ behind = {} /\ stale = {} /\ touched = {}

-----------------------------------------------------------------------------
(* The page and the menu.                                                   *)

\* Leaving the page forgets its state; the calls under way go on without it.
Unmount == patches' = {[p EXCEPT !.orphan = TRUE] : p \in patches}

\* A panel is mounted with these flags (useState(initialFlags)), or none is; of
\* them it has missed what was written since.
Mount(shown, missed) ==
  /\ flags' = shown /\ pendingKey' = NoKey
  /\ doubt' = Unsettled /\ behind' = missed
  /\ Unmount

\* SistemaPage: the server reads the flags and the panel starts from them,
\* unless the account is refused or the backend does not answer.
SistemaPage ==
  /\ payload' \in {enabled, Closed} /\ stale' = {}
  /\ Mount(payload', {})
  /\ UNCHANGED <<enabled, menu, clicks, touched>>

\* Another page is shown; the router keeps this one for the history.
Leave ==
  /\ flags # Closed
  /\ Mount(Closed, {})
  /\ UNCHANGED <<enabled, payload, menu, clicks, stale, touched>>

\* The browser's Back: the panel starts again from the page rendered before,
\* which no PATCH has refreshed.
Back ==
  /\ flags = Closed /\ payload # Closed
  /\ Mount(payload, stale)
  /\ UNCHANGED <<enabled, payload, menu, clicks, stale, touched>>

\* The document is loaded again, the menu with it (useSWR of the Sidebar, which
\* does not ask again on focus nor after an error).
Reload ==
  /\ menu' \in {enabled, Unknown} /\ touched' = Unsettled
  /\ payload' = Closed /\ stale' = {}
  /\ Mount(Closed, {})
  /\ UNCHANGED <<enabled, clicks>>

\* The flags whose pages are missing from the menu: none while it knows nothing.
disabledFlags ==
  IF menu = Unknown THEN {} ELSE {k \in Keys : ~menu[k]}

\* The pages of modules it offers.
Sidebar == Keys \ disabledFlags

-----------------------------------------------------------------------------
(* A switch.                                                                *)

\* What a click asks for: the opposite of what the switch shows.
Flip(k) == ~flags[k]

\* A click on the switch of k, unless it is disabled.  The switch moves at once.
toggle(k) ==
  /\ flags # Closed /\ pendingKey # k /\ clicks < MaxToggles
  /\ clicks' = clicks + 1
  /\ pendingKey' = k
  /\ flags' = [flags EXCEPT ![k] = Flip(k)]
  /\ patches' = patches \cup
       {[id |-> clicks + 1, key |-> k, next |-> Flip(k), orphan |-> FALSE,
         stage |-> "sent"]}
  /\ touched' = touched \cup {k}
  /\ doubt' = IF Changing(k) THEN doubt \cup {k} ELSE doubt
  /\ UNCHANGED <<enabled, payload, menu, behind, stale>>

\* The PATCH reaches the backend: the row of its key is written, or not.
Patch(p) ==
  /\ p.stage = "sent"
  /\ \/ /\ enabled' = [enabled EXCEPT ![p.key] = p.next]
        /\ patches' = (patches \ {p}) \cup {[p EXCEPT !.stage = "applied"]}
        /\ behind' = IF p.orphan THEN behind ELSE behind \ {p.key}
        /\ stale' = stale \cup {p.key}
     \/ /\ patches' = (patches \ {p}) \cup {[p EXCEPT !.stage = "failed"]}
        /\ UNCHANGED <<enabled, behind, stale>>
  /\ UNCHANGED <<flags, payload, pendingKey, menu, clicks, doubt, touched>>

\* Another administrator, or another tab, writes the row of k.
Elsewhere(k) ==
  /\ clicks < MaxToggles /\ clicks' = clicks + 1
  /\ enabled' = [enabled EXCEPT ![k] = ~enabled[k]]
  /\ behind' = behind \cup {k} /\ stale' = stale \cup {k}
  /\ touched' = touched \cup {k}
  /\ UNCHANGED <<flags, payload, pendingKey, patches, menu, doubt>>

\* Mutant of Undo: the error is only reported.
UndoNothing(p) == flags

\* The rollback of a switch, from its key and the value it was to have.
Undo(p) == [flags EXCEPT ![p.key] = ~p.next]

\* What the panel makes of the end of a call, if it still waits for it: after an
\* error the switch is put back.
Show(p, error) ==
  IF p.orphan THEN UNCHANGED <<flags, pendingKey>>
  ELSE /\ pendingKey' = NoKey
       /\ flags' = IF error THEN Undo(p) ELSE flags

\* The call ends with its answer, or with an error.  An applied PATCH whose
\* answer is lost is an error like the others.
Ended(p, error) ==
  /\ patches' = patches \ {p}
  /\ Show(p, error)
  /\ doubt' = IF error /\ p.stage = "applied" THEN doubt \cup {p.key} ELSE doubt
  /\ UNCHANGED <<enabled, payload, menu, clicks, behind, stale, touched>>

Answered(p) ==
  \/ p.stage = "applied" /\ \E error \in BOOLEAN : Ended(p, error)
  \/ p.stage = "failed" /\ Ended(p, TRUE)

\* The call ends in an error before the backend has done anything: the request
\* goes on without it.
Cut(p) ==
  /\ p.stage = "sent" /\ ~p.orphan
  /\ patches' = (patches \ {p}) \cup {[p EXCEPT !.orphan = TRUE]}
  /\ Show(p, TRUE)
  /\ doubt' = doubt \cup {p.key}
  /\ UNCHANGED <<enabled, payload, menu, clicks, behind, stale, touched>>

FlagsNext ==
  \/ SistemaPage \/ Leave \/ Back \/ Reload
  \/ \E k \in Keys : toggle(k) \/ Elsewhere(k)
  \/ \E p \in patches : Patch(p) \/ Answered(p) \/ Cut(p)

-----------------------------------------------------------------------------
(* Properties.                                                              *)

\* The panel does not lie about the backend, whatever the other switches do
\* meanwhile, whatever page it was mounted from and however its calls end, except
\* about a key changed again before its last change ended, one whose change lost
\* its answer, and one that was last written elsewhere or after the page was
\* rendered: until a change of its own there.  The menu is right about every key
\* not changed since it was loaded.
FlagsAreTrue ==
  /\ flags # Closed =>
       \A k \in Keys \ (doubt \cup Unsettled \cup behind) : flags[k] = enabled[k]
  /\ \A k \in Keys \ (Sidebar \cup touched) : ~enabled[k]
=============================================================================
