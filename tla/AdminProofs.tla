----------------------------- MODULE AdminProofs -----------------------------
(***************************************************************************)
(* Proofs about the pages of an administrator, for any number of flags,    *)
(* connections, dependencies, tabs and toasts: an inductive invariant for  *)
(* the switches, for the Keycloak form, for the cards of the monitoring,   *)
(* for the toasts and for the preferences.  A step of one page leaves the  *)
(* others' alone.                                                          *)
(***************************************************************************)
EXTENDS Admin, FiniteSetTheorems, TLAPS

-----------------------------------------------------------------------------
(* The switches.                                                            *)

\* A key that is not in doubt has at most one call under way, of this panel, and
\* the switch shows what it asks for.
Waiting(k) ==
  flags # Closed /\ k \notin doubt =>
    \A p \in patches : p.key = k =>
      /\ ~p.orphan /\ flags[k] = p.next
      /\ \A q \in patches : q.key = k => q = p

\* If nobody else wrote it last, the switch agrees with the table, now or once
\* the call under way has reached it.
Matches(k) ==
  flags # Closed /\ k \notin doubt \cup behind =>
    /\ ~Changing(k) => flags[k] = enabled[k]
    /\ \A p \in patches : p.key = k => (p.stage = "applied" <=> enabled[k] = p.next)

\* The page the router keeps and the menu are right about what was not written
\* since; what is under way counts as written for the menu.
Recalled(k) == payload # Closed /\ k \notin stale => payload[k] = enabled[k]
Listed(k) ==
  /\ menu # Unknown /\ k \notin touched => menu[k] = enabled[k]
  /\ Changing(k) => k \in touched

Settled(k) == Waiting(k) /\ Matches(k) /\ Recalled(k) /\ Listed(k)

FlagsInv ==
  /\ FlagsTypeOK
  /\ \A p \in patches : p.id <= clicks /\ (flags = Closed => p.orphan)
  /\ \A k \in Keys : Settled(k)

LEMMA FlagsStart == Init => FlagsInv
<1> SUFFICES ASSUME Init PROVE FlagsInv
  OBVIOUS
<1>1. FlagsTypeOK
  BY FeatureFlagsAssumption DEF Init, FlagsInit, FlagsTypeOK, Shown
<1>2. \A k \in Keys : Settled(k)
  BY DEF Init, FlagsInit, Settled, Waiting, Matches, Recalled, Listed, Changing
<1> QED
  BY <1>1, <1>2 DEF Init, FlagsInit, FlagsInv

LEMMA FlagsAside ==
  ASSUME FlagsInv, UNCHANGED flagVars
  PROVE  FlagsInv'
BY DEF FlagsInv, FlagsTypeOK, flagVars, Settled, Waiting, Matches, Recalled, Listed, Changing

LEMMA UnmountKeeps ==
  ASSUME FlagsInv, Unmount
  PROVE  /\ patches' \subseteq Patches
         /\ \A p \in patches' : \E q \in patches :
              /\ p = [q EXCEPT !.orphan = TRUE] /\ p.key = q.key /\ p.id = q.id
              /\ p.orphan
         /\ Unsettled' = Unsettled
<1>1. \A q \in patches :
        /\ [q EXCEPT !.orphan = TRUE] \in Patches
        /\ [q EXCEPT !.orphan = TRUE].key = q.key
        /\ [q EXCEPT !.orphan = TRUE].id = q.id
        /\ [q EXCEPT !.orphan = TRUE].orphan
  BY DEF FlagsInv, FlagsTypeOK, Patches
<1>2. \A p \in patches' : \E q \in patches :
        /\ p = [q EXCEPT !.orphan = TRUE] /\ p.key = q.key /\ p.id = q.id
        /\ p.orphan
  BY <1>1 DEF Unmount
<1>3. \A q \in patches : \E p \in patches' : p.key = q.key
  BY <1>1 DEF Unmount
<1>4. \A k \in Keys : Changing(k)' <=> Changing(k)
  BY <1>2, <1>3 DEF Changing
<1>5. patches' \subseteq Patches
  BY <1>1 DEF Unmount
<1> QED
  BY <1>2, <1>4, <1>5 DEF Unsettled

\* A panel mounted from flags that are right about all it has not missed.
LEMMA MountKeeps ==
  ASSUME FlagsInv, NEW shown \in Shown \cup {Closed}, NEW missed \in SUBSET Keys,
         Mount(shown, missed), UNCHANGED <<enabled, clicks>>,
         shown # Closed => \A k \in Keys \ missed : shown[k] = enabled[k]
  PROVE  /\ flags' \in Shown \cup {Closed} /\ pendingKey' = NoKey
         /\ patches' \subseteq Patches /\ doubt' \subseteq Keys /\ behind' \subseteq Keys
         /\ \A p \in patches' : p.id <= clicks' /\ p.orphan
         /\ \A k \in Keys : /\ Changing(k)' <=> Changing(k)
                            /\ Waiting(k)' /\ Matches(k)'
<1>1. /\ Unmount /\ flags' = shown /\ pendingKey' = NoKey
      /\ doubt' = Unsettled /\ behind' = missed
  BY DEF Mount
<1>2. /\ patches' \subseteq Patches /\ \A p \in patches' : p.id <= clicks' /\ p.orphan
      /\ Unsettled' = Unsettled
  BY <1>1, UnmountKeeps DEF FlagsInv
<1>3. \A k \in Keys : Changing(k)' <=> Changing(k)
  BY <1>2 DEF Unsettled
<1>4. \A k \in Keys : k \notin doubt' => \A p \in patches' : p.key # k
  BY <1>1, <1>3 DEF Unsettled, Changing
<1>5. \A k \in Keys : Waiting(k)' /\ Matches(k)'
  BY <1>1, <1>4 DEF Waiting, Matches
<1> QED
  BY <1>1, <1>2, <1>3, <1>5 DEF Unsettled

LEMMA PageKeepsFlags ==
  ASSUME FlagsInv, SistemaPage \/ Leave \/ Back \/ Reload
  PROVE  FlagsInv'
<1>1. /\ enabled \in Shown /\ payload \in Shown \cup {Closed} /\ stale \subseteq Keys
      /\ menu \in Shown \cup {Unknown} /\ UNCHANGED <<enabled, clicks>>
  BY DEF FlagsInv, FlagsTypeOK, SistemaPage, Leave, Back, Reload
<1>2. PICK shown \in Shown \cup {Closed}, missed \in SUBSET Keys :
        /\ Mount(shown, missed)
        /\ shown # Closed => \A k \in Keys \ missed : shown[k] = enabled[k]
  <2>1. CASE SistemaPage
    BY <1>1, <2>1 DEF SistemaPage
  <2>2. CASE Leave \/ Reload
    BY <2>2 DEF Leave, Reload
  <2>3. CASE Back
    BY <1>1, <2>3 DEF Back, FlagsInv, Settled, Recalled
  <2> QED
    BY <2>1, <2>2, <2>3
<1>3. /\ flags' \in Shown \cup {Closed} /\ pendingKey' = NoKey
      /\ patches' \subseteq Patches /\ doubt' \subseteq Keys /\ behind' \subseteq Keys
      /\ \A p \in patches' : p.id <= clicks' /\ p.orphan
      /\ \A k \in Keys : /\ Changing(k)' <=> Changing(k)
                         /\ Waiting(k)' /\ Matches(k)'
  BY <1>1, <1>2, MountKeeps
<1>4. /\ payload' \in Shown \cup {Closed} /\ menu' \in Shown \cup {Unknown}
      /\ stale' \subseteq Keys /\ touched' \subseteq Keys
  <2>1. Unsettled \subseteq Keys
    BY DEF Unsettled
  <2> QED
    BY <1>1, <2>1 DEF SistemaPage, Leave, Back, Reload, FlagsInv, FlagsTypeOK
<1>5. ASSUME NEW k \in Keys PROVE Recalled(k)' /\ Listed(k)'
  <2>1. CASE SistemaPage
    BY <1>1, <1>3, <2>1 DEF SistemaPage, FlagsInv, Settled, Recalled, Listed
  <2>2. CASE Leave \/ Back
    BY <1>1, <1>3, <2>2 DEF Leave, Back, FlagsInv, Settled, Recalled, Listed
  <2>3. CASE Reload
    BY <1>1, <1>3, <2>3 DEF Reload, Recalled, Listed, Unsettled
  <2> QED
    BY <2>1, <2>2, <2>3
<1>6. FlagsTypeOK'
  BY <1>1, <1>3, <1>4 DEF FlagsInv, FlagsTypeOK
<1> QED
  BY <1>3, <1>5, <1>6 DEF FlagsInv, Settled

\* The call a click sends.
LEMMA ToggleKeeps ==
  ASSUME FlagsInv, NEW k \in Keys, toggle(k)
  PROVE  FlagsInv'
<1> DEFINE p == [id |-> clicks + 1, key |-> k, next |-> Flip(k), orphan |-> FALSE,
                 stage |-> "sent"]
<1>1. /\ flags # Closed /\ clicks < MaxToggles /\ clicks' = clicks + 1 /\ pendingKey' = k
      /\ flags' = [flags EXCEPT ![k] = Flip(k)]
      /\ patches' = patches \cup {p}
      /\ touched' = touched \cup {k}
      /\ doubt' = IF Changing(k) THEN doubt \cup {k} ELSE doubt
      /\ UNCHANGED <<enabled, payload, menu, behind, stale>>
  BY DEF toggle
<1>2. clicks' \in 0..MaxToggles /\ clicks + 1 \in 1..MaxToggles /\ clicks \in Nat
  BY <1>1, FeatureFlagsAssumption DEF FlagsInv, FlagsTypeOK
<1>3. flags \in [Keys -> BOOLEAN] /\ enabled \in [Keys -> BOOLEAN]
  BY <1>1 DEF FlagsInv, FlagsTypeOK, Shown
<1>4. Flip(k) \in BOOLEAN /\ Flip(k) # flags[k]
  BY <1>3, Zenon DEF Flip
<1>5. p \in Patches /\ p.id = clicks + 1 /\ p.key = k /\ p.next = Flip(k)
      /\ p.orphan = FALSE /\ p.stage = "sent"
  BY <1>2, <1>4 DEF Patches
<1> HIDE DEF p
<1>6. flags' \in Shown /\ flags'[k] = Flip(k) /\ \A j \in Keys : j # k => flags'[j] = flags[j]
  BY <1>1, <1>3, <1>4 DEF Shown
<1>7. FlagsTypeOK'
  BY <1>1, <1>2, <1>5, <1>6 DEF FlagsInv, FlagsTypeOK
<1>8. \A q \in patches' : q.id <= clicks' /\ (flags' = Closed => q.orphan)
  <2>1. flags' # Closed
    BY <1>6, FeatureFlagsAssumption DEF Shown
  <2> QED
    BY <1>1, <1>2, <1>5, <2>1 DEF FlagsInv, FlagsTypeOK, Patches
<1>9. \A j \in Keys : j # k =>
        (Changing(j)' <=> Changing(j)) /\ \A q \in patches' : q.key = j <=> q \in patches /\ q.key = j
  BY <1>1, <1>5 DEF Changing
<1>10. ASSUME NEW j \in Keys, j # k PROVE Settled(j)'
  BY <1>1, <1>6, <1>9, <1>10 DEF FlagsInv, Settled, Waiting, Matches, Recalled, Listed
<1>11. Settled(k)'
  <2>1. Changing(k)' /\ k \in touched'
    BY <1>1, <1>5 DEF Changing
  <2>2. ASSUME k \notin doubt', NEW q \in patches', q.key = k
        PROVE  k \notin doubt /\ ~Changing(k) /\ q = p
    BY <1>1, <2>2 DEF Changing
  <2>3. Waiting(k)'
    BY <1>5, <1>6, <2>2, Zenon DEF Waiting
  <2>4. ASSUME k \notin doubt' \cup behind', NEW q \in patches', q.key = k
        PROVE  q.stage # "applied" /\ enabled'[k] # q.next
    <3>1. enabled[k] = flags[k]
      BY <1>1, <2>2, <2>4 DEF FlagsInv, Settled, Matches
    <3> QED
      BY <1>1, <1>4, <1>5, <2>2, <2>4, <3>1
  <2>5. Matches(k)'
    BY <2>1, <2>4 DEF Matches
  <2> QED
    BY <1>1, <2>1, <2>3, <2>5 DEF FlagsInv, Settled, Recalled, Listed
<1> QED
  BY <1>7, <1>8, <1>10, <1>11 DEF FlagsInv

\* Somebody else writes a key.
LEMMA ElsewhereKeeps ==
  ASSUME FlagsInv, NEW k \in Keys, Elsewhere(k)
  PROVE  FlagsInv'
<1>1. /\ clicks < MaxToggles /\ clicks' = clicks + 1
      /\ enabled' = [enabled EXCEPT ![k] = ~enabled[k]]
      /\ behind' = behind \cup {k} /\ stale' = stale \cup {k}
      /\ touched' = touched \cup {k}
      /\ UNCHANGED <<flags, payload, pendingKey, patches, menu, doubt>>
  BY DEF Elsewhere
<1>2. clicks' \in 0..MaxToggles /\ clicks \in Nat /\ clicks <= clicks'
  BY <1>1, FeatureFlagsAssumption DEF FlagsInv, FlagsTypeOK
<1>3. enabled' \in Shown /\ \A j \in Keys : j # k => enabled'[j] = enabled[j]
  BY <1>1 DEF FlagsInv, FlagsTypeOK, Shown
<1>4. FlagsTypeOK'
  BY <1>1, <1>2, <1>3 DEF FlagsInv, FlagsTypeOK
<1>5. \A p \in patches' : p.id <= clicks' /\ (flags' = Closed => p.orphan)
  BY <1>1, <1>2 DEF FlagsInv, FlagsTypeOK, Patches
<1>6. \A j \in Keys : Settled(j)'
  BY <1>1, <1>3 DEF FlagsInv, Settled, Waiting, Matches, Recalled, Listed, Changing
<1> QED
  BY <1>4, <1>5, <1>6 DEF FlagsInv

\* A call that reaches the backend.
LEMMA PatchKeeps ==
  ASSUME FlagsInv, NEW p \in patches, Patch(p)
  PROVE  FlagsInv'
<1>1. p \in Patches /\ p.key \in Keys /\ p.next \in BOOLEAN /\ p.stage = "sent"
      /\ UNCHANGED <<flags, payload, pendingKey, menu, clicks, doubt, touched>>
  BY DEF Patch, FlagsInv, FlagsTypeOK, Patches
<1>2. PICK stage \in {"applied", "failed"} :
        /\ patches' = (patches \ {p}) \cup {[p EXCEPT !.stage = stage]}
        /\ stage = "applied" =>
             /\ enabled' = [enabled EXCEPT ![p.key] = p.next]
             /\ behind' = IF p.orphan THEN behind ELSE behind \ {p.key}
             /\ stale' = stale \cup {p.key}
        /\ stage = "failed" => UNCHANGED <<enabled, behind, stale>>
  BY DEF Patch
<1> DEFINE q == [p EXCEPT !.stage = stage]
<1>3. /\ q \in Patches /\ q.key = p.key /\ q.id = p.id /\ q.next = p.next
      /\ q.orphan = p.orphan /\ q.stage = stage
  BY <1>1 DEF Patches
<1> HIDE DEF q
<1>4. patches' = (patches \ {p}) \cup {q}
  BY <1>2 DEF q
<1>5. /\ enabled' \in Shown /\ behind' \subseteq Keys /\ stale' \subseteq Keys
      /\ \A k \in Keys : k # p.key => /\ enabled'[k] = enabled[k]
                                      /\ k \in behind' <=> k \in behind
                                      /\ k \in stale' <=> k \in stale
  BY <1>1, <1>2 DEF FlagsInv, FlagsTypeOK, Shown
<1>6. /\ stage = "applied" => enabled'[p.key] = p.next
      /\ stage = "failed" => enabled'[p.key] = enabled[p.key]
  BY <1>1, <1>2 DEF FlagsInv, FlagsTypeOK, Shown
<1>7. FlagsTypeOK'
  BY <1>1, <1>3, <1>4, <1>5 DEF FlagsInv, FlagsTypeOK
<1>8. \A r \in patches' : r.id <= clicks' /\ (flags' = Closed => r.orphan)
  BY <1>1, <1>3, <1>4 DEF FlagsInv
<1>9. \A k \in Keys : Changing(k)' <=> Changing(k)
  BY <1>1, <1>3, <1>4 DEF Changing
<1>10. ASSUME NEW k \in Keys, k # p.key PROVE Settled(k)'
  <2>1. \A r \in patches' : r.key = k => r \in patches
    BY <1>3, <1>4, <1>10
  <2> QED
    BY <1>1, <1>5, <1>9, <1>10, <2>1 DEF FlagsInv, Settled, Waiting, Matches, Recalled, Listed
<1>11. ASSUME NEW k \in Keys, k = p.key PROVE Settled(k)'
  <2>1. Changing(k) /\ k \in touched
    BY <1>11 DEF Changing, FlagsInv, Settled, Listed
  <2>2. ASSUME flags # Closed, k \notin doubt
        PROVE  /\ ~p.orphan /\ flags[k] = p.next
               /\ \A r \in patches' : r.key = k => r = q
    <3>1. /\ ~p.orphan /\ flags[k] = p.next
          /\ \A r \in patches : r.key = k => r = p
      BY <1>11, <2>2 DEF FlagsInv, Settled, Waiting
    <3> QED
      BY <1>4, <3>1
  <2>3. Waiting(k)'
    BY <1>1, <1>3, <2>2 DEF Waiting
  <2>4. ASSUME flags # Closed, k \notin doubt, k \notin behind',
               NEW r \in patches', r.key = k
        PROVE  r.stage = "applied" <=> enabled'[k] = r.next
    <3>1. r = q /\ ~p.orphan
      BY <2>2, <2>4
    <3>2. CASE stage = "applied"
      BY <1>3, <1>6, <1>11, <3>1, <3>2
    <3>3. CASE stage = "failed"
      <4>1. k \notin behind
        BY <1>2, <2>4, <3>3
      <4>2. enabled[k] # p.next
        BY <1>1, <1>11, <2>4, <4>1 DEF FlagsInv, Settled, Matches
      <4> QED
        BY <1>3, <1>6, <1>11, <3>1, <3>3, <4>2
    <3> QED
      BY <3>2, <3>3
  <2>5. Matches(k)'
    BY <1>1, <1>9, <2>1, <2>4 DEF Matches
  <2>6. Recalled(k)'
    <3>1. CASE stage = "applied"
      BY <1>2, <1>11, <3>1 DEF Recalled
    <3>2. CASE stage = "failed"
      BY <1>1, <1>2, <3>2 DEF FlagsInv, Settled, Recalled
    <3> QED
      BY <3>1, <3>2
  <2> QED
    BY <1>1, <2>1, <2>3, <2>5, <2>6 DEF Settled, Listed
<1> QED
  BY <1>7, <1>8, <1>10, <1>11 DEF FlagsInv

\* What the panel shows at the end of a call.
LEMMA ShowIsTyped ==
  ASSUME FlagsInv, NEW p \in patches, NEW failed \in BOOLEAN, Show(p, failed)
  PROVE  /\ p \in Patches /\ p.key \in Keys /\ p.next \in BOOLEAN
         /\ pendingKey' \in {pendingKey, NoKey}
         /\ flags = Closed => p.orphan /\ flags' = Closed
         /\ flags # Closed =>
              /\ flags' \in Shown /\ flags' # Closed
              /\ \A k \in Keys : k # p.key => flags'[k] = flags[k]
              /\ ~p.orphan => flags'[p.key] = IF failed THEN ~p.next ELSE flags[p.key]
<1>1. /\ p \in Patches /\ p.key \in Keys /\ p.next \in BOOLEAN
      /\ flags = Closed => p.orphan
  BY DEF FlagsInv, FlagsTypeOK, Patches
<1>2. /\ p.orphan => UNCHANGED <<flags, pendingKey>>
      /\ ~p.orphan => pendingKey' = NoKey /\ flags' = IF failed THEN Undo(p) ELSE flags
  BY DEF Show
<1>3. ASSUME flags # Closed
      PROVE  /\ flags' \in Shown
             /\ \A k \in Keys : k # p.key => flags'[k] = flags[k]
             /\ ~p.orphan => flags'[p.key] = IF failed THEN ~p.next ELSE flags[p.key]
  <2>1. flags \in [Keys -> BOOLEAN]
    BY <1>3 DEF FlagsInv, FlagsTypeOK, Shown
  <2>2. (~p.next) \in BOOLEAN
    OBVIOUS
  <2>3. Undo(p) \in Shown /\ Undo(p)[p.key] = ~p.next
        /\ \A k \in Keys : k # p.key => Undo(p)[k] = flags[k]
    BY <2>1, <2>2, <1>1 DEF Undo, Shown
  <2> QED
    BY <2>1, <2>3, <1>2 DEF Shown
<1>4. flags # Closed => flags' # Closed
  BY <1>3, FeatureFlagsAssumption DEF Shown
<1> QED
  BY <1>1, <1>2, <1>3, <1>4

\* A call that ends, its change undone when it ends with an error.
LEMMA AnsweredKeeps ==
  ASSUME FlagsInv, NEW p \in patches, Answered(p)
  PROVE  FlagsInv'
<1>1. PICK lost \in BOOLEAN :
        /\ Ended(p, lost)
        /\ p.stage = "applied" \/ (p.stage = "failed" /\ lost)
  <2>1. CASE p.stage = "applied" /\ \E lost \in BOOLEAN : Ended(p, lost)
    <3>1. PICK lost \in BOOLEAN : Ended(p, lost)
      BY <2>1
    <3> QED
      BY <2>1, <3>1
  <2>2. CASE p.stage = "failed" /\ Ended(p, TRUE)
    <3>1. TRUE \in BOOLEAN
      OBVIOUS
    <3> QED
      BY <2>2, <3>1, Zenon
  <2> QED
    BY <2>1, <2>2, Zenon DEF Answered
<1>2. /\ p \in Patches /\ p.key \in Keys /\ p.next \in BOOLEAN
      /\ pendingKey' \in {pendingKey, NoKey}
      /\ flags = Closed => p.orphan /\ flags' = Closed
      /\ flags # Closed =>
           /\ flags' \in Shown /\ flags' # Closed
           /\ \A k \in Keys : k # p.key => flags'[k] = flags[k]
           /\ ~p.orphan => flags'[p.key] = IF lost THEN ~p.next ELSE flags[p.key]
  BY <1>1, ShowIsTyped DEF Ended
<1>3. /\ patches' = patches \ {p}
      /\ UNCHANGED <<enabled, payload, menu, clicks, behind, stale, touched>>
      /\ doubt' = IF lost /\ p.stage = "applied" THEN doubt \cup {p.key} ELSE doubt
  BY <1>1 DEF Ended
<1>4. FlagsTypeOK'
  BY <1>2, <1>3 DEF FlagsInv, FlagsTypeOK
<1>5. \A r \in patches' : r.id <= clicks' /\ (flags' = Closed => r.orphan)
  BY <1>2, <1>3 DEF FlagsInv
<1>6. ASSUME NEW k \in Keys, k # p.key PROVE Settled(k)'
  <2>1. Changing(k)' <=> Changing(k)
    BY <1>3, <1>6 DEF Changing
  <2> QED
    BY <1>2, <1>3, <1>6, <2>1 DEF FlagsInv, Settled, Waiting, Matches, Recalled, Listed
<1>7. ASSUME NEW k \in Keys, k = p.key PROVE Settled(k)'
  <2>1. Changing(k) /\ k \in touched
    BY <1>7 DEF Changing, FlagsInv, Settled, Listed
  <2>2. ASSUME flags' # Closed, k \notin doubt'
        PROVE  /\ flags # Closed /\ k \notin doubt /\ ~(lost /\ p.stage = "applied")
               /\ ~p.orphan /\ flags[k] = p.next /\ ~Changing(k)'
    <3>1. flags # Closed /\ k \notin doubt /\ ~(lost /\ p.stage = "applied")
      BY <1>2, <1>3, <1>7, <2>2
    <3>2. /\ ~p.orphan /\ flags[k] = p.next
          /\ \A q \in patches : q.key = k => q = p
      BY <1>7, <3>1 DEF FlagsInv, Settled, Waiting
    <3>3. ~Changing(k)'
      BY <1>3, <3>2 DEF Changing
    <3> QED
      BY <3>1, <3>2, <3>3
  <2>3. ASSUME flags' # Closed, k \notin doubt' \cup behind'
        PROVE  flags'[k] = enabled[k]
    <3>1. p.stage = "applied" <=> enabled[k] = p.next
      BY <1>3, <1>7, <2>2, <2>3 DEF FlagsInv, Settled, Matches
    <3>2. flags'[k] = IF lost THEN ~p.next ELSE p.next
      BY <1>2, <1>7, <2>2, <2>3
    <3>3. enabled[k] \in BOOLEAN
      BY DEF FlagsInv, FlagsTypeOK, Shown
    <3>4. CASE lost
      <4>1. enabled[k] # p.next
        BY <1>1, <2>2, <2>3, <3>1, <3>4
      <4>2. enabled[k] = ~p.next
        BY <4>1, <3>3, <1>2, Zenon
      <4> QED
        BY <4>2, <3>2, <3>4
    <3>5. CASE ~lost
      BY <1>1, <3>1, <3>2, <3>5
    <3> QED
      BY <3>4, <3>5
  <2>4. Waiting(k)'
    BY <2>2 DEF Waiting, Changing
  <2>5. Matches(k)'
    BY <1>3, <2>2, <2>3 DEF Matches, Changing
  <2> QED
    BY <1>3, <2>1, <2>4, <2>5 DEF FlagsInv, Settled, Recalled, Listed
<1> QED
  BY <1>4, <1>5, <1>6, <1>7 DEF FlagsInv

\* A call that ends in an error while its request goes on.
LEMMA CutKeeps ==
  ASSUME FlagsInv, NEW p \in patches, Cut(p)
  PROVE  FlagsInv'
<1>1. /\ Show(p, TRUE) /\ ~p.orphan /\ doubt' = doubt \cup {p.key}
      /\ patches' = (patches \ {p}) \cup {[p EXCEPT !.orphan = TRUE]}
      /\ UNCHANGED <<enabled, payload, menu, clicks, behind, stale, touched>>
  BY DEF Cut
<1>2. TRUE \in BOOLEAN
  OBVIOUS
<1>3. /\ p \in Patches /\ p.key \in Keys
      /\ pendingKey' \in {pendingKey, NoKey}
      /\ flags # Closed /\ flags' \in Shown /\ flags' # Closed
      /\ \A k \in Keys : k # p.key => flags'[k] = flags[k]
  BY <1>1, <1>2, ShowIsTyped
<1> DEFINE q == [p EXCEPT !.orphan = TRUE]
<1>4. q \in Patches /\ q.key = p.key /\ q.id = p.id
  BY <1>3 DEF Patches
<1>5. patches' = (patches \ {p}) \cup {q}
  BY <1>1
<1> HIDE DEF q
<1>6. FlagsTypeOK'
  BY <1>1, <1>3, <1>4, <1>5 DEF FlagsInv, FlagsTypeOK
<1>7. \A r \in patches' : r.id <= clicks' /\ (flags' = Closed => r.orphan)
  BY <1>1, <1>3, <1>4, <1>5 DEF FlagsInv
<1>8. \A k \in Keys : Changing(k)' <=> Changing(k)
  BY <1>4, <1>5 DEF Changing
<1>9. ASSUME NEW k \in Keys, k # p.key PROVE Settled(k)'
  <2>1. \A r \in patches' : r.key = k => r \in patches
    BY <1>4, <1>5, <1>9
  <2> QED
    BY <1>1, <1>3, <1>8, <1>9, <2>1 DEF FlagsInv, Settled, Waiting, Matches, Recalled, Listed
<1>10. ASSUME NEW k \in Keys, k = p.key PROVE Settled(k)'
  BY <1>1, <1>8, <1>10 DEF FlagsInv, Settled, Waiting, Matches, Recalled, Listed
<1> QED
  BY <1>6, <1>7, <1>9, <1>10 DEF FlagsInv

\* The invariant of the switches holds.
THEOREM SwitchesInvariance == Spec => []FlagsInv
<1>1. ASSUME FlagsInv, [Next]_vars PROVE FlagsInv'
  <2>1. CASE FlagsStep
    BY <1>1, <2>1, PageKeepsFlags, ToggleKeeps, ElsewhereKeeps, PatchKeeps,
       AnsweredKeeps, CutKeeps
    DEF FlagsStep, FlagsNext
  <2>2. CASE ~FlagsStep
    BY <1>1, <2>2, FlagsAside
    DEF Next, KeycloakStep, MonitoringStep, PrefsStep, ToastsStep, vars, flagVars
  <2> QED
    BY <2>1, <2>2
<1> QED
  BY <1>1, FlagsStart, PTL DEF Spec

\* The panel does not lie about a key whose changes have ended one by one with
\* an answer and that nobody else wrote last, whatever the other switches do
\* meanwhile and whatever page it was mounted from; the menu is right about every
\* key not changed since it was loaded.
THEOREM SwitchesAreTrue == Spec => []FlagsAreTrue
<1>1. FlagsInv => FlagsAreTrue
  <2> SUFFICES ASSUME FlagsInv PROVE FlagsAreTrue
    OBVIOUS
  <2>1. ASSUME flags # Closed, NEW k \in Keys \ (doubt \cup Unsettled \cup behind)
        PROVE  flags[k] = enabled[k]
    BY <2>1 DEF FlagsInv, Settled, Matches, Unsettled
  <2>2. ASSUME NEW k \in Keys \ (Sidebar \cup touched) PROVE ~enabled[k]
    <3>1. menu # Unknown /\ ~menu[k]
      BY <2>2 DEF Sidebar, disabledFlags
    <3>2. menu[k] = enabled[k]
      BY <2>2, <3>1 DEF FlagsInv, Settled, Listed
    <3> QED
      BY <3>1, <3>2, Zenon
  <2> QED
    BY <2>1, <2>2 DEF FlagsAreTrue
<1> QED
  BY <1>1, SwitchesInvariance, PTL

-----------------------------------------------------------------------------
(* The Keycloak form.                                                       *)

\* What is tested, saved and shown is the form's connection until a field
\* changes under a call; a save that is stored has returned what it wrote, and
\* while nothing is amiss at most one is on its way from the row to the verifier.
KeycloakInv ==
  /\ KeycloakTypeOK
  /\ ~crossed =>
       /\ test # Nothing => test = form.conn
       /\ save # Nothing => save.conn = form.conn
       /\ result # Nothing => result.conn = form.conn
  /\ \A a \in Savers : Goes(a, "stored") \/ Goes(a, "done") =>
       saves[a].saved # Nothing /\ saves[a].saved.conn = saves[a].conn
  /\ ~amiss => \A a \in Savers : Goes(a, "stored") =>
       /\ row = saves[a].saved
       /\ \A b \in Savers : Goes(b, "stored") => b = a
  /\ VerifierFollowsRow

LEMMA KeptIsTyped ==
  ASSUME NEW r \in Settings(Conns) \cup {Nothing}
  PROVE  /\ Kept(r) \in Conns \cup {NoConn}
         /\ toFormState(r) \in Settings(Conns \cup {NoConn})
         /\ toFormState(r).conn = Kept(r)
         /\ StatusSource(r) \in {"database", "environment", "unset"}
<1>1. Kept(r) \in Conns \cup {NoConn}
  BY KeycloakSettingsAssumption DEF Kept, Settings
<1> QED
  BY <1>1 DEF toFormState, StatusSource, Settings, AnySecret

LEMMA KeycloakStart == Init => KeycloakInv
<1> SUFFICES ASSUME Init PROVE KeycloakInv
  OBVIOUS
<1>1. KeycloakInit
  BY DEF Init
<1>2. row \in Settings(Conns) \cup {Nothing}
  BY <1>1 DEF KeycloakInit, Settings, AnySecret
<1>3. /\ live = Kept(row) /\ live \in Conns \cup {NoConn}
      /\ form \in Settings(Conns \cup {NoConn})
      /\ source \in {"database", "environment", "unset"}
  BY <1>1, <1>2, KeptIsTyped DEF KeycloakInit
<1>4. /\ saves = [a \in Savers |-> Nothing] /\ test = Nothing /\ result = Nothing
      /\ edits = 0 /\ crossed = FALSE /\ amiss = FALSE
  BY <1>1, Zenon DEF KeycloakInit
<1>a. saves \in [Savers -> Saves \cup {Nothing}] /\ edits \in 0..MaxEdits
  BY <1>4, KeycloakSettingsAssumption
<1>b. crossed \in BOOLEAN /\ amiss \in BOOLEAN
  BY <1>4
<1>5. KeycloakTypeOK
  BY <1>2, <1>3, <1>4, <1>a, <1>b DEF KeycloakTypeOK
<1>6. \A a \in Savers : saves[a] = Nothing
  BY <1>4
<1> QED
  BY <1>3, <1>4, <1>5, <1>6 DEF KeycloakInv, VerifierFollowsRow, Goes, save, Savers

LEMMA KeycloakAside ==
  ASSUME KeycloakInv, UNCHANGED keycloakVars PROVE KeycloakInv'
<1>1. /\ UNCHANGED <<row, live, form, source, result, test>>
      /\ UNCHANGED <<saves, edits, crossed, amiss>>
  BY DEF keycloakVars
<1>2. KeycloakTypeOK'
  BY <1>1 DEF KeycloakInv, KeycloakTypeOK
<1> QED
  BY <1>1, <1>2 DEF KeycloakInv, VerifierFollowsRow, Goes, save

\* What a step that leaves the saves, the row and the verifier alone keeps.
LEMMA SavesStay ==
  ASSUME KeycloakInv, UNCHANGED <<saves, row, live, amiss>>
  PROVE  /\ \A a \in Savers : Goes(a, "stored")' \/ Goes(a, "done")' =>
              saves'[a].saved # Nothing /\ saves'[a].saved.conn = saves'[a].conn
         /\ ~amiss' => \A a \in Savers : Goes(a, "stored")' =>
              /\ row' = saves'[a].saved
              /\ \A b \in Savers : Goes(b, "stored")' => b = a
         /\ VerifierFollowsRow' /\ save' = save
BY DEF KeycloakInv, VerifierFollowsRow, Goes, save

\* One save moves, to something that is not between the row and the verifier.
LEMMA SaveMoves ==
  ASSUME KeycloakInv, NEW a \in Savers, NEW c \in Saves \cup {Nothing},
         saves' = [saves EXCEPT ![a] = c], ~Goes(a, "stored"),
         c = Nothing \/ c.stage \in {"sent", "refused", "checked"},
         UNCHANGED <<row, live, amiss>>
  PROVE  /\ saves' \in [Savers -> Saves \cup {Nothing}]
         /\ \A b \in Savers : Goes(b, "stored")' \/ Goes(b, "done")' =>
              saves'[b].saved # Nothing /\ saves'[b].saved.conn = saves'[b].conn
         /\ ~amiss' => \A b \in Savers : Goes(b, "stored")' =>
              /\ row' = saves'[b].saved
              /\ \A d \in Savers : Goes(d, "stored")' => d = b
         /\ VerifierFollowsRow'
<1>1. saves \in [Savers -> Saves \cup {Nothing}]
  BY DEF KeycloakInv, KeycloakTypeOK
<1>2. saves' \in [Savers -> Saves \cup {Nothing}] /\ saves'[a] = c
      /\ \A b \in Savers \ {a} : saves'[b] = saves[b]
  BY <1>1
<1>3. ~Goes(a, "stored")' /\ ~Goes(a, "done")'
  BY <1>2 DEF Goes
<1>4. \A b \in Savers \ {a} : /\ Goes(b, "stored")' <=> Goes(b, "stored")
                              /\ Goes(b, "done")' <=> Goes(b, "done")
  BY <1>2 DEF Goes
<1>5. \A b \in Savers : Goes(b, "stored")' <=> Goes(b, "stored")
  BY <1>3, <1>4
<1>6. VerifierFollowsRow'
  BY <1>5 DEF KeycloakInv, VerifierFollowsRow
<1> QED
  BY <1>2, <1>3, <1>4, <1>5, <1>6 DEF KeycloakInv

LEMMA SentIsTyped ==
  ASSUME NEW c \in Conns, NEW s \in AnySecret
  PROVE  Sent(c, s) \in Saves /\ Sent(c, s).conn = c /\ Sent(c, s).stage = "sent"
BY DEF Sent, Saves, AnySecret, Verdicts

LEMMA RefusedIsTyped ==
  ASSUME NEW c \in Saves
  PROVE  /\ Refused(c) \in Saves /\ Refused(c).conn = c.conn
         /\ Refused(c).stage = "refused"
BY DEF Refused, Sent, Saves, AnySecret, Verdicts

\* The steps of the form, and the other administrator's button.
LEMMA FormKeeps ==
  ASSUME KeycloakInv, KeycloakSettingsForm PROVE KeycloakInv'
<1>0. KeycloakTypeOK /\ form \in Settings(Conns \cup {NoConn})
  BY DEF KeycloakInv, KeycloakTypeOK
<1>1. CASE handleChange
  <2>1. form' \in Settings(Conns \cup {NoConn})
    <3>1. ASSUME NEW c \in Conns, form' = [form EXCEPT !.conn = c]
          PROVE  form' \in Settings(Conns \cup {NoConn})
      BY <1>0, <3>1 DEF Settings
    <3>2. ASSUME NEW s \in Secrets \cup {Blank}, form' = [form EXCEPT !.secret = s]
          PROVE  form' \in Settings(Conns \cup {NoConn})
      BY <1>0, <3>2 DEF Settings, AnySecret
    <3> QED
      BY <1>1, <3>1, <3>2 DEF handleChange
  <2>2. /\ edits < MaxEdits /\ edits' = edits + 1 /\ result' = Nothing
        /\ UNCHANGED <<row, live, source, test, saves, amiss>>
        /\ crossed' = (test # Nothing \/ save # Nothing)
    BY <1>1 DEF handleChange
  <2>3. crossed' \in BOOLEAN
    BY <2>2
  <2>4. KeycloakTypeOK'
    BY <1>0, <2>1, <2>2, <2>3, KeycloakSettingsAssumption DEF KeycloakTypeOK
  <2> QED
    BY <2>2, <2>4, SavesStay DEF KeycloakInv
<1>2. CASE handleTest
  <2>1. /\ test' = form.conn /\ result' = Nothing
        /\ crossed' = (crossed /\ save # Nothing) /\ form.conn # NoConn
        /\ UNCHANGED <<row, live, form, source, saves, edits, amiss>>
    BY <1>2 DEF handleTest
  <2>2. test' \in Conns /\ crossed' \in BOOLEAN
    BY <1>0, <2>1 DEF Settings
  <2>3. KeycloakTypeOK'
    BY <1>0, <2>1, <2>2 DEF KeycloakTypeOK
  <2> QED
    BY <2>1, <2>3, SavesStay DEF KeycloakInv
<1>3. CASE handleSave
  <2> DEFINE c == Sent(form.conn, form.secret)
  <2>1. /\ save = Nothing /\ form.conn # NoConn
        /\ saves' = [saves EXCEPT !["mine"] = c]
        /\ UNCHANGED <<row, live, form, source, result, test, edits, crossed, amiss>>
    BY <1>3 DEF handleSave
  <2>2. c \in Saves /\ c.conn = form.conn /\ c.stage = "sent"
    BY <1>0, <2>1, SentIsTyped DEF Settings
  <2>3. "mine" \in Savers /\ ~Goes("mine", "stored")
    BY <2>1 DEF Savers, Goes, save
  <2>4. save' = c
    BY <1>0, <2>1, <2>3 DEF save, KeycloakTypeOK
  <2> HIDE DEF c
  <2>5. saves' \in [Savers -> Saves \cup {Nothing}]
    BY <2>1, <2>2, <2>3, SaveMoves
  <2>6. KeycloakTypeOK'
    BY <1>0, <2>1, <2>5 DEF KeycloakTypeOK
  <2> QED
    BY <2>1, <2>2, <2>3, <2>4, <2>6, SaveMoves DEF KeycloakInv
<1>4. CASE OtherSaves
  <2>1. /\ saves["other"] = Nothing /\ edits < MaxEdits /\ edits' = edits + 1
        /\ UNCHANGED <<row, live, form, source, result, test, crossed, amiss>>
    BY <1>4 DEF OtherSaves
  <2>2. PICK d \in Conns, s \in Secrets \cup {Blank} :
          saves' = [saves EXCEPT !["other"] = Sent(d, s)]
    BY <1>4 DEF OtherSaves
  <2> DEFINE c == Sent(d, s)
  <2>3. c \in Saves /\ c.stage = "sent"
    BY SentIsTyped DEF AnySecret
  <2>4. "other" \in Savers /\ ~Goes("other", "stored")
    BY <2>1 DEF Savers, Goes
  <2>5. save' = save
    BY <1>0, <2>2 DEF save, KeycloakTypeOK, Savers
  <2>6. saves' = [saves EXCEPT !["other"] = c]
    BY <2>2
  <2> HIDE DEF c
  <2>7. saves' \in [Savers -> Saves \cup {Nothing}]
    BY <2>1, <2>3, <2>4, <2>6, SaveMoves
  <2>8. KeycloakTypeOK'
    BY <1>0, <2>1, <2>7, KeycloakSettingsAssumption DEF KeycloakTypeOK
  <2> QED
    BY <2>1, <2>3, <2>4, <2>5, <2>6, <2>8, SaveMoves DEF KeycloakInv
<1> QED
  BY <1>1, <1>2, <1>3, <1>4 DEF KeycloakSettingsForm

\* The connection is tried.
LEMMA CheckKeeps ==
  ASSUME KeycloakInv, NEW a \in Savers, Check(a) PROVE KeycloakInv'
<1>0. KeycloakTypeOK /\ saves \in [Savers -> Saves \cup {Nothing}]
  BY DEF KeycloakInv, KeycloakTypeOK
<1>1. /\ Goes(a, "sent") /\ ~Goes(a, "stored") /\ saves[a] # Nothing /\ saves[a] \in Saves
      /\ UNCHANGED <<row, live, form, source, result, test, edits, crossed, amiss>>
  BY <1>0 DEF Check, Goes
<1>2. resolved(saves[a].secret) \in AnySecret
  BY <1>0, <1>1 DEF resolved, Settings, AnySecret, KeycloakTypeOK, Saves
<1>3. PICK c \in Saves : /\ saves' = [saves EXCEPT ![a] = c] /\ c.conn = saves[a].conn
                         /\ c.stage \in {"refused", "checked"}
  <2>1. ASSUME NEW v \in Verdicts,
               saves' = [saves EXCEPT ![a].tested = resolved(saves[a].secret),
                                      ![a].verdict = v, ![a].stage = "checked"]
        PROVE  \E c \in Saves : /\ saves' = [saves EXCEPT ![a] = c]
                                /\ c.conn = saves[a].conn
                                /\ c.stage \in {"refused", "checked"}
    <3> DEFINE c == [saves[a] EXCEPT !.tested = resolved(saves[a].secret),
                                     !.verdict = v, !.stage = "checked"]
    <3>1. c \in Saves /\ c.conn = saves[a].conn /\ c.stage = "checked"
      BY <1>1, <1>2 DEF Saves
    <3>2. saves' = [saves EXCEPT ![a] = c]
      BY <1>0, <2>1
    <3> QED
      BY <3>1, <3>2
  <2>2. ASSUME saves' = [saves EXCEPT ![a] = Refused(saves[a])]
        PROVE  \E c \in Saves : /\ saves' = [saves EXCEPT ![a] = c]
                                /\ c.conn = saves[a].conn
                                /\ c.stage \in {"refused", "checked"}
    BY <1>1, <2>2, RefusedIsTyped
  <2> QED
    BY <2>1, <2>2 DEF Check
<1>4. saves' \in [Savers -> Saves \cup {Nothing}]
  BY <1>1, <1>3, SaveMoves
<1>5. KeycloakTypeOK'
  BY <1>0, <1>1, <1>4 DEF KeycloakTypeOK
<1>6. save' # Nothing => save # Nothing /\ save'.conn = save.conn
  BY <1>0, <1>1, <1>3 DEF save, Savers
<1> QED
  BY <1>1, <1>3, <1>5, <1>6, SaveMoves DEF KeycloakInv

\* The row is written, or the statement fails.
LEMMA SetKeeps ==
  ASSUME KeycloakInv, NEW a \in Savers, Set(a) PROVE KeycloakInv'
<1>0. KeycloakTypeOK /\ saves \in [Savers -> Saves \cup {Nothing}]
  BY DEF KeycloakInv, KeycloakTypeOK
<1>1. /\ Goes(a, "checked") /\ ~Goes(a, "stored") /\ saves[a] # Nothing /\ saves[a] \in Saves
      /\ UNCHANGED <<live, form, source, result, test, edits, crossed>>
  BY <1>0 DEF Set, Goes
<1>2. CASE /\ row' = [conn |-> saves[a].conn, secret |-> stored(saves[a].secret)]
           /\ saves' = [saves EXCEPT ![a].saved = row', ![a].stage = "stored"]
           /\ amiss' = \E b \in Savers : Goes(b, "stored")
  <2> DEFINE c == [saves[a] EXCEPT !.saved = row', !.stage = "stored"]
  <2>1. stored(saves[a].secret) \in AnySecret
    BY <1>0, <1>1 DEF stored, Settings, AnySecret, KeycloakTypeOK, Saves
  <2>2. row' \in Settings(Conns) /\ row'.conn = saves[a].conn
    BY <1>1, <1>2, <2>1 DEF Settings, Saves
  <2>3. row' # Nothing
    BY <2>2, KeycloakSettingsAssumption DEF Settings, AnySecret
  <2>4. /\ c \in Saves /\ c.conn = saves[a].conn /\ c.saved = row'
        /\ c.stage = "stored"
    BY <1>1, <2>2 DEF Saves
  <2>5. saves' = [saves EXCEPT ![a] = c]
    BY <1>0, <1>2
  <2> HIDE DEF c
  <2>6. /\ saves' \in [Savers -> Saves \cup {Nothing}] /\ saves'[a] = c
        /\ \A b \in Savers \ {a} : saves'[b] = saves[b]
    BY <1>0, <2>4, <2>5
  <2>7. Goes(a, "stored")' /\ ~Goes(a, "done")'
    BY <2>4, <2>6, KeycloakSettingsAssumption DEF Goes, Saves
  <2>8. \A b \in Savers \ {a} : /\ Goes(b, "stored")' <=> Goes(b, "stored")
                                /\ Goes(b, "done")' <=> Goes(b, "done")
    BY <2>6 DEF Goes
  <2>9. amiss' \in BOOLEAN
    BY <1>2
  <2>10. KeycloakTypeOK'
    BY <1>0, <1>1, <2>2, <2>6, <2>9 DEF KeycloakTypeOK
  <2>11. save' # Nothing => save # Nothing /\ save'.conn = save.conn
    BY <1>1, <2>4, <2>6 DEF save, Savers
  <2>12. \A b \in Savers : Goes(b, "stored")' \/ Goes(b, "done")' =>
           saves'[b].saved # Nothing /\ saves'[b].saved.conn = saves'[b].conn
    BY <2>2, <2>3, <2>4, <2>6, <2>8 DEF KeycloakInv
  <2>13. ~amiss' => \A b \in Savers : Goes(b, "stored")' => b = a
    BY <1>2, <2>8
  <2>14. VerifierFollowsRow'
    BY <2>7 DEF VerifierFollowsRow
  <2> QED
    BY <1>1, <2>4, <2>6, <2>10, <2>11, <2>12, <2>13, <2>14 DEF KeycloakInv
<1>3. CASE /\ saves' = [saves EXCEPT ![a] = Refused(saves[a])]
           /\ UNCHANGED <<row, amiss>>
  <2> DEFINE c == Refused(saves[a])
  <2>1. c \in Saves /\ c.conn = saves[a].conn /\ c.stage = "refused"
    BY <1>1, RefusedIsTyped
  <2>2. saves' = [saves EXCEPT ![a] = c]
    BY <1>3
  <2> HIDE DEF c
  <2>3. saves' \in [Savers -> Saves \cup {Nothing}]
    BY <1>1, <1>3, <2>1, <2>2, SaveMoves
  <2>4. KeycloakTypeOK'
    BY <1>0, <1>1, <1>3, <2>3 DEF KeycloakTypeOK
  <2>5. save' # Nothing => save # Nothing /\ save'.conn = save.conn
    BY <1>0, <1>1, <2>1, <2>2 DEF save, Savers
  <2> QED
    BY <1>1, <1>3, <2>1, <2>2, <2>4, <2>5, SaveMoves DEF KeycloakInv
<1> QED
  BY <1>2, <1>3 DEF Set

\* The verifier takes the new settings, or keeps what it has.
LEMMA ReloadKeeps ==
  ASSUME KeycloakInv, NEW a \in Savers, VerifierReload(a) PROVE KeycloakInv'
<1>0. KeycloakTypeOK /\ saves \in [Savers -> Saves \cup {Nothing}]
  BY DEF KeycloakInv, KeycloakTypeOK
<1> DEFINE c == [saves[a] EXCEPT !.stage = "done"]
<1>1. /\ Goes(a, "stored") /\ saves[a] # Nothing /\ saves[a] \in Saves
      /\ saves' = [saves EXCEPT ![a] = c]
      /\ UNCHANGED <<row, form, source, result, test, edits, crossed>>
  BY <1>0 DEF VerifierReload, Goes
<1>2. /\ c \in Saves /\ c.conn = saves[a].conn /\ c.saved = saves[a].saved
      /\ c.stage = "done"
  BY <1>1 DEF Saves
<1>3. saves[a].saved # Nothing /\ saves[a].saved.conn = saves[a].conn
  BY <1>1 DEF KeycloakInv
<1> HIDE DEF c
<1>4. /\ saves' \in [Savers -> Saves \cup {Nothing}] /\ saves'[a] = c
      /\ \A b \in Savers \ {a} : saves'[b] = saves[b]
  BY <1>0, <1>1, <1>2
<1>5. ~Goes(a, "stored")'
  BY <1>2, <1>4 DEF Goes
<1>6. \A b \in Savers \ {a} : /\ Goes(b, "stored")' <=> Goes(b, "stored")
                              /\ Goes(b, "done")' <=> Goes(b, "done")
  BY <1>4 DEF Goes
<1>7. /\ \/ live' = saves[a].saved.conn /\ amiss' = amiss
         \/ amiss' = TRUE /\ live' = live
      /\ amiss' \in BOOLEAN
  BY <1>0 DEF VerifierReload, KeycloakTypeOK
<1>8. live' \in Conns \cup {NoConn}
  BY <1>0, <1>1, <1>3, <1>7 DEF KeycloakTypeOK, Saves
<1>9. KeycloakTypeOK'
  BY <1>0, <1>1, <1>4, <1>7, <1>8 DEF KeycloakTypeOK
<1>10. save' # Nothing => save # Nothing /\ save'.conn = save.conn
  BY <1>1, <1>2, <1>4 DEF save, Savers
<1>11. \A b \in Savers : Goes(b, "stored")' \/ Goes(b, "done")' =>
         saves'[b].saved # Nothing /\ saves'[b].saved.conn = saves'[b].conn
  BY <1>2, <1>3, <1>4, <1>6 DEF KeycloakInv
<1>12. ASSUME ~amiss'
       PROVE  /\ \A b \in Savers : ~Goes(b, "stored")'
              /\ live' = Kept(row')
  <2>1. ~amiss /\ live' = saves[a].saved.conn
    BY <1>7, <1>12
  <2>2. row = saves[a].saved /\ \A b \in Savers : Goes(b, "stored") => b = a
    BY <1>1, <2>1 DEF KeycloakInv
  <2> QED
    BY <1>1, <1>3, <1>5, <1>6, <2>1, <2>2 DEF Kept
<1> QED
  BY <1>1, <1>9, <1>10, <1>11, <1>12 DEF KeycloakInv, VerifierFollowsRow

\* The answers to both administrators.
LEMMA AnswersKeep ==
  ASSUME KeycloakInv, TestAnswer \/ SaveAnswer \/ OtherAnswered PROVE KeycloakInv'
<1>0. KeycloakTypeOK /\ saves \in [Savers -> Saves \cup {Nothing}]
  BY DEF KeycloakInv, KeycloakTypeOK
<1>1. CASE TestAnswer
  <2>1. /\ test # Nothing /\ test' = Nothing
        /\ UNCHANGED <<row, live, form, source, saves, edits, crossed, amiss>>
        /\ \/ \E v \in Verdicts : result' = [conn |-> test, verdict |-> v]
           \/ result' = result
    BY <1>1 DEF TestAnswer
  <2>2. /\ result' \in [conn : Conns \cup {NoConn}, verdict : Verdicts] \cup {Nothing}
        /\ result' = result \/ result'.conn = test
    BY <1>0, <2>1 DEF KeycloakTypeOK
  <2>3. KeycloakTypeOK'
    BY <1>0, <2>1, <2>2 DEF KeycloakTypeOK
  <2> QED
    BY <2>1, <2>2, <2>3, SavesStay DEF KeycloakInv
<1>2. CASE SaveAnswer
  <2>1. /\ save # Nothing /\ save.stage \in {"done", "refused"} /\ save \in Saves
        /\ saves' = [saves EXCEPT !["mine"] = Nothing] /\ "mine" \in Savers
        /\ UNCHANGED <<row, live, test, edits, crossed, amiss>>
    BY <1>0, <1>2 DEF SaveAnswer, save, Savers
  <2>2. ~Goes("mine", "stored") /\ save' = Nothing
    BY <1>0, <2>1 DEF Goes, save
  <2>3. saves' \in [Savers -> Saves \cup {Nothing}]
    BY <2>1, <2>2, SaveMoves
  <2>4. CASE /\ save.stage = "done"
             /\ form' = toFormState(save.saved) /\ source' = StatusSource(save.saved)
             /\ result' = [conn |-> save.conn, verdict |-> save.verdict]
    <3>1. save.saved # Nothing /\ save.saved.conn = save.conn
      BY <2>1, <2>4 DEF KeycloakInv, Goes, save
    <3>2. save.saved \in Settings(Conns) \cup {Nothing}
      BY <2>1 DEF Saves
    <3>3. /\ form' \in Settings(Conns \cup {NoConn}) /\ form'.conn = save.conn
          /\ source' \in {"database", "environment", "unset"}
      BY <2>4, <3>1, <3>2, KeptIsTyped DEF Kept
    <3>4. /\ result' \in [conn : Conns \cup {NoConn}, verdict : Verdicts]
          /\ result'.conn = save.conn
      BY <2>1, <2>4 DEF Saves
    <3>5. KeycloakTypeOK'
      BY <1>0, <2>1, <2>3, <3>3, <3>4 DEF KeycloakTypeOK
    <3>6. ~crossed' => (test' # Nothing => test' = form'.conn)
      BY <2>1, <3>3 DEF KeycloakInv
    <3> QED
      BY <2>1, <2>2, <3>3, <3>4, <3>5, <3>6, SaveMoves DEF KeycloakInv
  <2>5. CASE UNCHANGED <<form, source, result>>
    <3>1. KeycloakTypeOK'
      BY <1>0, <2>1, <2>3, <2>5 DEF KeycloakTypeOK
    <3> QED
      BY <2>1, <2>2, <2>5, <3>1, SaveMoves DEF KeycloakInv
  <2> QED
    BY <1>2, <2>4, <2>5 DEF SaveAnswer
<1>3. CASE OtherAnswered
  <2>1. /\ saves' = [saves EXCEPT !["other"] = Nothing] /\ "other" \in Savers
        /\ UNCHANGED <<row, live, form, source, result, test, edits, crossed, amiss>>
        /\ ~Goes("other", "stored")
    BY <1>3 DEF OtherAnswered, Goes, Savers
  <2>2. saves' \in [Savers -> Saves \cup {Nothing}]
    BY <2>1, SaveMoves
  <2>3. KeycloakTypeOK'
    BY <1>0, <2>1, <2>2 DEF KeycloakTypeOK
  <2>4. save' = save
    BY <1>0, <2>1 DEF save, Savers
  <2> QED
    BY <2>1, <2>3, <2>4, SaveMoves DEF KeycloakInv
<1> QED
  BY <1>1, <1>2, <1>3

\* The process starts again.
LEMMA RestartKeeps ==
  ASSUME KeycloakInv, Restart PROVE KeycloakInv'
<1>0. /\ KeycloakTypeOK /\ saves \in [Savers -> Saves \cup {Nothing}]
      /\ row \in Settings(Conns) \cup {Nothing}
  BY DEF KeycloakInv, KeycloakTypeOK
<1>1. /\ live' \in {Kept(row), EnvConn} /\ amiss' = (live' # Kept(row))
      /\ saves' = [a \in Savers |->
           IF saves[a] = Nothing \/ Goes(a, "done") THEN saves[a]
           ELSE Refused(saves[a])]
      /\ test' \in {test, Nothing}
      /\ UNCHANGED <<row, form, source, result, edits, crossed>>
  BY DEF Restart
<1>2. ASSUME NEW a \in Savers
      PROVE  /\ saves'[a] \in Saves \cup {Nothing}
             /\ ~Goes(a, "stored")'
             /\ saves'[a] # Nothing => saves[a] # Nothing /\ saves'[a].conn = saves[a].conn
             /\ Goes(a, "done")' => Goes(a, "done") /\ saves'[a] = saves[a]
  <2>1. CASE saves[a] = Nothing \/ Goes(a, "done")
    <3>1. saves'[a] = saves[a]
      BY <1>1, <2>1
    <3> QED
      BY <1>0, <2>1, <3>1 DEF Goes
  <2>2. CASE ~(saves[a] = Nothing \/ Goes(a, "done"))
    <3>1. saves'[a] = Refused(saves[a]) /\ saves[a] \in Saves
      BY <1>0, <1>1, <2>2
    <3> QED
      BY <2>2, <3>1, RefusedIsTyped DEF Goes
  <2> QED
    BY <2>1, <2>2
<1>3. saves' \in [Savers -> Saves \cup {Nothing}]
  BY <1>1, <1>2
<1>4. /\ live' \in Conns \cup {NoConn} /\ amiss' \in BOOLEAN
      /\ test' \in Conns \cup {Nothing}
  BY <1>0, <1>1, KeptIsTyped, KeycloakSettingsAssumption DEF KeycloakTypeOK
<1>5. KeycloakTypeOK'
  BY <1>0, <1>1, <1>3, <1>4 DEF KeycloakTypeOK
<1>6. save' # Nothing => save # Nothing /\ save'.conn = save.conn
  BY <1>2 DEF save, Savers
<1>7. \A a \in Savers : Goes(a, "stored")' \/ Goes(a, "done")' =>
        saves'[a].saved # Nothing /\ saves'[a].saved.conn = saves'[a].conn
  BY <1>2 DEF KeycloakInv
<1>8. VerifierFollowsRow'
  BY <1>1 DEF VerifierFollowsRow
<1> QED
  BY <1>1, <1>2, <1>5, <1>6, <1>7, <1>8 DEF KeycloakInv

\* The invariant of the form and of the saves behind it holds.
THEOREM KeycloakInvariance == Spec => []KeycloakInv
<1>1. ASSUME KeycloakInv, [Next]_vars PROVE KeycloakInv'
  <2>1. CASE KeycloakStep
    <3>1. CASE \E a \in Savers : Check(a) \/ Set(a) \/ VerifierReload(a)
      BY <1>1, <3>1, CheckKeeps, SetKeeps, ReloadKeeps
    <3>2. CASE ~\E a \in Savers : Check(a) \/ Set(a) \/ VerifierReload(a)
      BY <1>1, <2>1, <3>2, FormKeeps, AnswersKeep, RestartKeeps DEF KeycloakStep, KeycloakNext
    <3> QED
      BY <3>1, <3>2
  <2>2. CASE ~KeycloakStep
    BY <1>1, <2>2, KeycloakAside
    DEF Next, FlagsStep, MonitoringStep, PrefsStep, ToastsStep, vars, keycloakVars
  <2> QED
    BY <2>1, <2>2
<1>2. Init => KeycloakInv
  BY KeycloakStart
<1> QED
  BY <1>1, <1>2, PTL DEF Spec

\* A verdict shown is about the connection in the fields, unless a field changed
\* while a test or a save was under way.
THEOREM VerdictStaysTrue == Spec => []VerdictIsAboutTheForm
<1>1. KeycloakInv => VerdictIsAboutTheForm
  BY DEF KeycloakInv, VerdictIsAboutTheForm
<1> QED
  BY <1>1, KeycloakInvariance, PTL

\* Whatever two administrators save at once and wherever the process dies, the
\* verifier has the connection that is saved, but for a save on its way there, a
\* reload that failed and two saves that overlapped.
THEOREM TokensFollowTheRow == Spec => []VerifierFollowsRow
<1>1. KeycloakInv => VerifierFollowsRow
  BY DEF KeycloakInv
<1> QED
  BY <1>1, KeycloakInvariance, PTL

-----------------------------------------------------------------------------
(* The cards of the monitoring.                                             *)

\* An answer says nothing its check did not find.
Faithful(h) ==
  /\ h.good \subseteq h.truth /\ h.bad \cap h.truth = {}
  /\ h.status # "unhealthy" => h.reached
  /\ h.good # {} => h.status # "unhealthy"

MonitoringInv ==
  /\ MonitoringTypeOK
  /\ answer # NoAnswer => Faithful(answer)
  /\ health # NoAnswer => Faithful(health)

LEMMA MonitoringStart == Init => MonitoringInv
<1> SUFFICES ASSUME Init PROVE MonitoringInv
  OBVIOUS
<1>1. MonitoringInit
  BY DEF Init
<1>2. fetching \in BOOLEAN /\ error \in BOOLEAN
  BY <1>1, Zenon DEF MonitoringInit
<1>3. up \in BOOLEAN /\ healthy \subseteq Deps /\ changes \in 0..MaxChanges
  BY <1>1, MonitoringAssumption DEF MonitoringInit
<1> QED
  BY <1>1, <1>2, <1>3 DEF MonitoringInit, MonitoringInv, MonitoringTypeOK

LEMMA MonitoringAside ==
  ASSUME MonitoringInv, UNCHANGED monitoringVars
  PROVE  MonitoringInv'
BY DEF MonitoringInv, MonitoringTypeOK, Faithful, monitoringVars

\* What the check can say.
LEMMA CheckIsFaithful ==
  ASSUME MonitoringTypeOK, NEW h \in getSystemHealth
  PROVE  h \in Health /\ Faithful(h)
<1>1. healthy \subseteq Deps /\ up \in BOOLEAN
  BY DEF MonitoringTypeOK
<1>2. (IF up THEN healthy ELSE {}) \in SUBSET Deps
  BY <1>1
<1>3. CASE ~up
  <2>1. h = Says("unhealthy", {}, {})
    BY <1>3 DEF getSystemHealth
  <2> QED
    BY <1>1, <1>3, <2>1 DEF Faithful, Statuses, Says, Health
<1>4. CASE up
  <2>1. \E s \in {"ok", "degraded"} :
          h = Says(s, healthy, Deps \ healthy) \/ h = Says(s, {}, {})
    BY <1>4 DEF getSystemHealth
  <2>2. PICK s \in {"ok", "degraded"} :
          h = Says(s, healthy, Deps \ healthy) \/ h = Says(s, {}, {})
    BY <2>1
  <2>3. s \in Statuses
    BY DEF Statuses
  <2>4. CASE h = Says(s, healthy, Deps \ healthy)
    <3>1. healthy \in SUBSET Deps /\ (Deps \ healthy) \in SUBSET Deps
      BY <1>1
    <3>2. /\ h \in Health /\ h.status = s /\ h.good = healthy
          /\ h.bad = Deps \ healthy /\ h.reached = up
          /\ h.truth = IF up THEN healthy ELSE {}
      BY <1>1, <1>2, <2>3, <2>4, <3>1 DEF Says, Health
    <3> QED
      BY <1>4, <3>2 DEF Faithful
  <2>5. CASE h = Says(s, {}, {})
    <3>1. {} \in SUBSET Deps
      OBVIOUS
    <3>2. /\ h \in Health /\ h.status = s /\ h.good = {} /\ h.bad = {}
          /\ h.reached = up /\ h.truth = IF up THEN healthy ELSE {}
      BY <1>1, <1>2, <2>3, <2>5, <3>1 DEF Says, Health
    <3> QED
      BY <1>4, <3>2 DEF Faithful
  <2> QED
    BY <2>2, <2>4, <2>5
<1> QED
  BY <1>3, <1>4

LEMMA MonitoringKeeps ==
  ASSUME MonitoringInv, MonitoringNext
  PROVE  MonitoringInv'
<1>0. MonitoringTypeOK
  BY DEF MonitoringInv
<1>1. CASE World
  <2>1. /\ changes' \in 0..MaxChanges
        /\ UNCHANGED <<answer, fetching, health, error, core>>
    BY <1>0, <1>1, MonitoringAssumption DEF World, MonitoringTypeOK
  <2>2. up' \in BOOLEAN
    BY <1>0, <1>1, Zenon DEF World, MonitoringTypeOK
  <2>3. healthy' \subseteq Deps
    BY <1>0, <1>1 DEF World, MonitoringTypeOK
  <2> QED
    BY <2>1, <2>2, <2>3 DEF MonitoringInv, MonitoringTypeOK, Faithful
<1>2. CASE Dashboard
  <2>1. /\ UNCHANGED <<up, healthy, changes, answer, fetching, health, error>>
        /\ \E h \in getSystemHealth : core' = h.status
    BY <1>2 DEF Dashboard
  <2>2. core' \in Statuses
    BY <1>0, <2>1, CheckIsFaithful DEF Health
  <2> QED
    BY <2>1, <2>2 DEF MonitoringInv, MonitoringTypeOK, Faithful
<1>3. CASE Route
  <2>1. /\ UNCHANGED <<up, healthy, changes, fetching, health, error, core>>
        /\ \E h \in getSystemHealth : answer' = h
    BY <1>3 DEF Route
  <2>2. answer' \in Health /\ Faithful(answer')
    BY <1>0, <2>1, CheckIsFaithful
  <2> QED
    BY <2>1, <2>2 DEF MonitoringInv, MonitoringTypeOK, Faithful
<1>4. CASE Revalidate \/ Failure
  <2>1. /\ UNCHANGED <<up, healthy, changes, health, core>> /\ answer' = NoAnswer
    BY <1>4 DEF Revalidate, Failure
  <2>2. fetching' \in BOOLEAN /\ error' \in BOOLEAN
    BY <1>0, <1>4, Zenon DEF Revalidate, Failure, MonitoringTypeOK
  <2> QED
    BY <2>1, <2>2 DEF MonitoringInv, MonitoringTypeOK, Faithful
<1>5. CASE Success
  <2>1. /\ UNCHANGED <<up, healthy, changes, core>> /\ answer' = NoAnswer
        /\ health' = answer /\ answer # NoAnswer
    BY <1>5 DEF Success
  <2>2. fetching' \in BOOLEAN /\ error' \in BOOLEAN
    BY <1>5, Zenon DEF Success
  <2> QED
    BY <2>1, <2>2 DEF MonitoringInv, MonitoringTypeOK, Faithful
<1> QED
  BY <1>1, <1>2, <1>3, <1>4, <1>5 DEF MonitoringNext, Swr

\* The invariant of the monitoring holds.
THEOREM MonitoringInvariance == Spec => []MonitoringInv
<1>1. ASSUME MonitoringInv, [Next]_vars PROVE MonitoringInv'
  <2>1. CASE MonitoringStep
    BY <1>1, <2>1, MonitoringKeeps DEF MonitoringStep
  <2>2. CASE ~MonitoringStep
    BY <1>1, <2>2, MonitoringAside
    DEF Next, FlagsStep, KeycloakStep, PrefsStep, ToastsStep, vars, monitoringVars
  <2> QED
    BY <2>1, <2>2
<1> QED
  BY <1>1, MonitoringStart, PTL DEF Spec

\* Every card counted as online means that all are.
LEMMA AllOnline ==
  ASSUME MonitoringInv, onlineCount = Cardinality(Deps) + 1
  PROVE  backendApi = "online" /\ \A d \in Deps : backendCheckStatus(d) = "online"
<1> DEFINE Online == {d \in Deps : backendCheckStatus(d) = "online"}
<1>1. IsFiniteSet(Deps) /\ Online \subseteq Deps
  BY MonitoringAssumption
<1>2. /\ IsFiniteSet(Online) /\ Cardinality(Online) <= Cardinality(Deps)
      /\ Cardinality(Online) = Cardinality(Deps) => Online = Deps
  BY <1>1, FS_Subset
<1>3. Cardinality(Online) \in Nat /\ Cardinality(Deps) \in Nat
  BY <1>1, <1>2, FS_CardinalityType
<1>4. onlineCount = Cardinality(Online) + (IF backendApi = "online" THEN 1 ELSE 0)
  BY DEF onlineCount
<1> HIDE DEF Online
<1>5. backendApi = "online" /\ Cardinality(Online) = Cardinality(Deps)
  BY <1>2, <1>3, <1>4
<1>6. Online = Deps
  BY <1>2, <1>5
<1> QED
  BY <1>5, <1>6 DEF Online

\* No card of a dependency claims what the last check did not find, nor does the
\* header; the backend's own card may, and the header then warns.
THEOREM MonitoringIsHonest == Spec => []CardsAreHonest
<1>1. MonitoringInv => CardsAreHonest
  <2> SUFFICES ASSUME MonitoringInv PROVE CardsAreHonest
    OBVIOUS
  <2> DEFINE page == PlatformMonitoringDashboard
  <2>1. /\ page.operational = isHealthy /\ page.online = onlineCount
        /\ page.api = backendApi
        /\ \A d \in Deps : page.card[d] = backendCheckStatus(d)
    BY DEF PlatformMonitoringDashboard
  <2> HIDE DEF page
  <2>2. ASSUME NEW d \in Deps
        PROVE  /\ backendCheckStatus(d) = "online" => ~error /\ d \in health.truth
               /\ backendCheckStatus(d) = "offline" => error \/ d \notin health.truth
    BY DEF backendCheckStatus, MonitoringInv, Faithful
  <2>3. isHealthy /\ health # NoAnswer => health.reached
    BY DEF isHealthy, MonitoringInv, Faithful
  <2>4. ASSUME onlineCount = Cardinality(Deps) + 1
        PROVE  isHealthy /\ health.truth = Deps
    <3>1. backendApi = "online" /\ \A d \in Deps : backendCheckStatus(d) = "online"
      BY <2>4, AllOnline
    <3>2. ~error /\ health # NoAnswer
      BY <3>1 DEF backendApi
    <3>3. \A d \in Deps : d \in health.good /\ d \in health.truth
      BY <3>1, <3>2 DEF backendCheckStatus, MonitoringInv, Faithful
    <3>4. health \in Health
      BY <3>2 DEF MonitoringInv, MonitoringTypeOK
    <3>5. health.truth = Deps
      BY <3>3, <3>4 DEF Health
    <3>6. health.status # "unhealthy"
      BY <3>2, <3>3, MonitoringAssumption DEF MonitoringInv, Faithful
    <3> QED
      BY <3>2, <3>5, <3>6 DEF isHealthy
  <2>5. /\ backendApi = "online" => health.reached \/ ~isHealthy
        /\ backendApi = "offline" => error
    BY <2>3 DEF backendApi
  <2> QED
    BY <2>1, <2>2, <2>3, <2>4, <2>5 DEF CardsAreHonest, page
<1> QED
  BY <1>1, MonitoringInvariance, PTL

-----------------------------------------------------------------------------
(* The toasts.                                                              *)

ToastRecords ==
  [stage : {"new", "shown", "gone", "closed"},
   remaining : 0..AUTO_DISMISS_MS, startedAt : Times,
   timer : Deadlines \cup {Cleared}, orphans : SUBSET Deadlines,
   mouse : BOOLEAN, focus : BOOLEAN, free : 0..AUTO_DISMISS_MS,
   crowded : BOOLEAN]

\* While mouse and focus have not met on it, a toast has one timer or none, and
\* what was left of its time is what it has not been free for.
Timely(toast, now) ==
  /\ toast.orphans = {} /\ ~(toast.mouse /\ toast.focus)
  /\ toast.stage = "shown" /\ ~Held(toast) =>
       /\ toast.timer = toast.startedAt + toast.remaining /\ toast.remaining > 0
       /\ toast.free = IF now - toast.startedAt < toast.remaining
                       THEN AUTO_DISMISS_MS - toast.remaining + (now - toast.startedAt)
                       ELSE AUTO_DISMISS_MS
  /\ toast.stage = "shown" /\ Held(toast) =>
       toast.timer = Cleared /\ toast.free = AUTO_DISMISS_MS - toast.remaining
  /\ toast.stage = "gone" => toast.free = AUTO_DISMISS_MS

ToastInv(toast, now) ==
  /\ toast \in ToastRecords /\ toast.startedAt <= now
  /\ toast.stage = "new" => toast = NewToast
  /\ toast.stage = "shown" /\ ~Held(toast) => toast.timer # Cleared
  /\ ~toast.crowded => Timely(toast, now)

ToastsInv ==
  /\ clock \in Times /\ stack \in [ToastIds -> ToastRecords]
  /\ \A i \in ToastIds : ToastInv(stack[i], clock)

LEMMA NewToastIsTyped == ToastInv(NewToast, 0)
<1>1. /\ NewToast.mouse = FALSE /\ NewToast.focus = FALSE /\ NewToast.crowded = FALSE
      /\ NewToast.mouse \in BOOLEAN /\ NewToast.focus \in BOOLEAN
      /\ NewToast.crowded \in BOOLEAN
  BY DEF NewToast
<1>2. NewToast \in ToastRecords
  BY <1>1, ToastsAssumption DEF NewToast, ToastRecords, Times, Deadlines, Cleared
<1> QED
  BY <1>2 DEF NewToast, ToastInv, Timely, Held

LEMMA ToastsStart == Init => ToastsInv
BY NewToastIsTyped, ToastsAssumption
DEF Init, ToastsInit, ToastsInv, ToastInv, Times

LEMMA ToastsAside ==
  ASSUME ToastsInv, UNCHANGED toastVars
  PROVE  ToastsInv'
BY DEF ToastsInv, ToastInv, Timely, Held, toastVars

\* A toast with another in its place.
LEMMA OneToast ==
  ASSUME ToastsInv, NEW i \in ToastIds, NEW toast, ToastInv(toast, clock),
         stack' = [stack EXCEPT ![i] = toast], clock' = clock
  PROVE  ToastsInv'
<1>1. toast \in ToastRecords /\ stack' \in [ToastIds -> ToastRecords]
  BY DEF ToastsInv, ToastInv
<1>2. \A j \in ToastIds : stack'[j] = IF j = i THEN toast ELSE stack[j]
  BY DEF ToastsInv
<1>3. \A j \in ToastIds : ToastInv(stack'[j], clock)
  BY <1>2 DEF ToastsInv
<1> QED
  BY <1>1, <1>3 DEF ToastsInv, ToastInv, Timely, Held

\* Scheduling, dismissing, pausing.
LEMMA ScheduleIsTyped ==
  ASSUME NEW toast \in ToastRecords, clock \in Times, NEW ms \in 0..AUTO_DISMISS_MS
  PROVE  /\ scheduleDismiss(toast, ms) \in ToastRecords
         /\ scheduleDismiss(toast, ms).startedAt = clock
         /\ scheduleDismiss(toast, ms).timer = clock + ms
         /\ scheduleDismiss(toast, ms).timer # Cleared
         /\ toast.timer = Cleared => scheduleDismiss(toast, ms).orphans = toast.orphans
         /\ scheduleDismiss(toast, ms).stage = toast.stage
         /\ scheduleDismiss(toast, ms).remaining = toast.remaining
         /\ scheduleDismiss(toast, ms).free = toast.free
         /\ scheduleDismiss(toast, ms).mouse = toast.mouse
         /\ scheduleDismiss(toast, ms).focus = toast.focus
         /\ scheduleDismiss(toast, ms).crowded = toast.crowded
<1>1. clock + ms \in Deadlines /\ clock + ms # Cleared
  BY ToastsAssumption DEF Times, Deadlines, Cleared
<1>2. (IF toast.timer = Cleared THEN toast.orphans ELSE toast.orphans \cup {toast.timer})
        \in SUBSET Deadlines
  BY DEF ToastRecords
<1> QED
  BY <1>1, <1>2 DEF scheduleDismiss, ToastRecords

LEMMA DismissIsTyped ==
  ASSUME NEW toast \in ToastRecords, NEW stage \in {"gone", "closed"}
  PROVE  /\ dismiss(toast, stage) \in ToastRecords
         /\ dismiss(toast, stage).stage = stage
         /\ dismiss(toast, stage).startedAt = toast.startedAt
         /\ dismiss(toast, stage).orphans = toast.orphans
         /\ dismiss(toast, stage).free = toast.free
         /\ dismiss(toast, stage).mouse = toast.mouse
         /\ dismiss(toast, stage).focus = toast.focus
         /\ dismiss(toast, stage).crowded = toast.crowded
BY DEF dismiss, ToastRecords

LEMMA PauseIsTyped ==
  ASSUME NEW toast \in ToastRecords, clock \in Times, toast.startedAt <= clock
  PROVE  /\ pause(toast) \in ToastRecords
         /\ pause(toast).stage = toast.stage
         /\ pause(toast).startedAt = toast.startedAt
         /\ pause(toast).remaining =
              IF toast.remaining - (clock - toast.startedAt) > 0
              THEN toast.remaining - (clock - toast.startedAt) ELSE 0
         /\ pause(toast).timer = Cleared
         /\ pause(toast).orphans = toast.orphans
         /\ pause(toast).free = toast.free
         /\ pause(toast).mouse = toast.mouse
         /\ pause(toast).focus = toast.focus
         /\ pause(toast).crowded = toast.crowded
<1> DEFINE left == toast.remaining - (clock - toast.startedAt)
<1>1. (IF left > 0 THEN left ELSE 0) \in 0..AUTO_DISMISS_MS
  BY ToastsAssumption DEF ToastRecords, Times
<1> QED
  BY <1>1 DEF pause, ToastRecords

\* A toast whose mouse or focus has changed.
Touched(toast, mouse, focus) ==
  [toast EXCEPT !.mouse = mouse, !.focus = focus,
                !.crowded = @ \/ (mouse /\ focus)]

LEMMA TouchedIsTyped ==
  ASSUME NEW toast \in ToastRecords, NEW mouse \in BOOLEAN, NEW focus \in BOOLEAN
  PROVE  /\ Touched(toast, mouse, focus) \in ToastRecords
         /\ Touched(toast, mouse, focus).mouse = mouse
         /\ Touched(toast, mouse, focus).focus = focus
         /\ Touched(toast, mouse, focus).crowded = (toast.crowded \/ (mouse /\ focus))
         /\ Touched(toast, mouse, focus).stage = toast.stage
         /\ Touched(toast, mouse, focus).startedAt = toast.startedAt
         /\ Touched(toast, mouse, focus).remaining = toast.remaining
         /\ Touched(toast, mouse, focus).timer = toast.timer
         /\ Touched(toast, mouse, focus).orphans = toast.orphans
         /\ Touched(toast, mouse, focus).free = toast.free
<1>1. (toast.crowded \/ (mouse /\ focus)) \in BOOLEAN
  OBVIOUS
<1> QED
  BY <1>1 DEF Touched, ToastRecords

\* Something comes onto the toast.
LEMMA PauseKeeps ==
  ASSUME NEW toast, ToastInv(toast, clock), clock \in Times, toast.stage = "shown",
         NEW mouse \in BOOLEAN, NEW focus \in BOOLEAN,
         \/ ~toast.mouse /\ mouse /\ focus = toast.focus
         \/ ~toast.focus /\ focus /\ mouse = toast.mouse
  PROVE  ToastInv(pause(Touched(toast, mouse, focus)), clock)
<1> DEFINE x == Touched(toast, mouse, focus)
           y == pause(Touched(toast, mouse, focus))
<1>1. toast \in ToastRecords /\ toast.startedAt <= clock
  BY DEF ToastInv
<1>2. /\ x \in ToastRecords /\ x.stage = "shown" /\ x.startedAt = toast.startedAt
      /\ x.remaining = toast.remaining /\ x.orphans = toast.orphans
      /\ x.free = toast.free /\ x.mouse = mouse /\ x.focus = focus
      /\ x.crowded = (toast.crowded \/ (mouse /\ focus))
  BY <1>1, TouchedIsTyped
<1>3. /\ y \in ToastRecords /\ y.stage = "shown" /\ y.startedAt = toast.startedAt
      /\ y.remaining = IF toast.remaining - (clock - toast.startedAt) > 0
                       THEN toast.remaining - (clock - toast.startedAt) ELSE 0
      /\ y.timer = Cleared /\ y.orphans = toast.orphans /\ y.free = toast.free
      /\ y.mouse = mouse /\ y.focus = focus
      /\ y.crowded = (toast.crowded \/ (mouse /\ focus))
  BY <1>1, <1>2, PauseIsTyped
<1> HIDE DEF x, y
<1>4. Held(y)
  BY <1>3 DEF Held
<1>5. ASSUME ~y.crowded PROVE Timely(y, clock)
  <2>1. ~toast.crowded /\ ~(mouse /\ focus) /\ ~Held(toast)
    BY <1>3, <1>5 DEF Held
  <2>2. /\ toast.orphans = {} /\ toast.remaining > 0
        /\ toast.free = IF clock - toast.startedAt < toast.remaining
                        THEN AUTO_DISMISS_MS - toast.remaining + (clock - toast.startedAt)
                        ELSE AUTO_DISMISS_MS
    BY <2>1 DEF ToastInv, Timely
  <2>3. y.free = AUTO_DISMISS_MS - y.remaining
    BY <1>1, <1>3, <2>2, ToastsAssumption DEF ToastRecords, Times
  <2>4. ~(y.mouse /\ y.focus)
    BY <1>3, <2>1
  <2> QED
    BY <1>3, <1>4, <2>2, <2>3, <2>4 DEF Timely
<1>6. ToastInv(y, clock)
  BY <1>1, <1>3, <1>4, <1>5 DEF ToastInv
<1> QED
  BY <1>6 DEF y

\* Something leaves it.
LEMMA ResumeKeeps ==
  ASSUME NEW toast, ToastInv(toast, clock), clock \in Times, toast.stage = "shown",
         NEW mouse \in BOOLEAN, NEW focus \in BOOLEAN,
         \/ toast.mouse /\ ~mouse /\ focus = toast.focus
         \/ toast.focus /\ ~focus /\ mouse = toast.mouse
  PROVE  ToastInv(resume(Touched(toast, mouse, focus)), clock)
<1> DEFINE x == Touched(toast, mouse, focus)
<1>1. toast \in ToastRecords /\ toast.startedAt <= clock
  BY DEF ToastInv
<1>2. /\ x \in ToastRecords /\ x.stage = "shown" /\ x.startedAt = toast.startedAt
      /\ x.remaining = toast.remaining /\ x.orphans = toast.orphans
      /\ x.timer = toast.timer
      /\ x.free = toast.free /\ x.mouse = mouse /\ x.focus = focus
      /\ x.crowded = (toast.crowded \/ (mouse /\ focus))
  BY <1>1, TouchedIsTyped
<1>3. resume(Touched(toast, mouse, focus)) =
        IF x.remaining <= 0 THEN dismiss(x, "gone") ELSE scheduleDismiss(x, x.remaining)
  BY DEF resume
<1> HIDE DEF x
<1>4. x.remaining \in 0..AUTO_DISMISS_MS
  BY <1>2 DEF ToastRecords
<1>5. ASSUME ~x.crowded
      PROVE  /\ ~mouse /\ ~focus /\ toast.timer = Cleared /\ toast.orphans = {}
             /\ toast.free = AUTO_DISMISS_MS - toast.remaining
  <2>1. ~toast.crowded /\ Held(toast)
    BY <1>2, <1>5 DEF Held
  <2> QED
    BY <2>1 DEF ToastInv, Timely
<1>6. CASE x.remaining <= 0
  <2> DEFINE y == dismiss(x, "gone")
  <2>1. /\ y \in ToastRecords /\ y.stage = "gone" /\ y.startedAt = toast.startedAt
        /\ y.orphans = toast.orphans /\ y.free = toast.free
        /\ y.mouse = mouse /\ y.focus = focus /\ y.crowded = x.crowded
    BY <1>2, DismissIsTyped
  <2> HIDE DEF y
  <2>2. ~y.crowded => Timely(y, clock)
    BY <1>2, <1>4, <1>5, <1>6, <2>1, ToastsAssumption DEF Timely
  <2>3. ToastInv(y, clock)
    BY <1>1, <2>1, <2>2 DEF ToastInv
  <2> QED
    BY <1>3, <1>6, <2>3 DEF y
<1>7. CASE ~(x.remaining <= 0)
  <2> DEFINE y == scheduleDismiss(x, x.remaining)
  <2>1. /\ y \in ToastRecords /\ y.stage = "shown" /\ y.startedAt = clock
        /\ y.timer = clock + x.remaining /\ y.timer # Cleared
        /\ toast.timer = Cleared => y.orphans = toast.orphans
        /\ y.remaining = x.remaining /\ y.free = toast.free
        /\ y.mouse = mouse /\ y.focus = focus /\ y.crowded = x.crowded
    BY <1>2, <1>4, ScheduleIsTyped
  <2> HIDE DEF y
  <2>2. ASSUME ~y.crowded PROVE Timely(y, clock)
    <3>1. ~mouse /\ ~focus /\ y.orphans = {} /\ ~Held(y)
      BY <1>5, <2>1, <2>2 DEF Held
    <3>2. y.free = AUTO_DISMISS_MS - y.remaining /\ y.remaining > 0 /\ clock - y.startedAt = 0
      BY <1>2, <1>4, <1>5, <1>7, <2>1, <2>2 DEF Times
    <3> QED
      BY <1>2, <1>4, <2>1, <3>1, <3>2, ToastsAssumption DEF Timely
  <2>3. clock <= clock
    BY ToastsAssumption DEF Times
  <2>4. ToastInv(y, clock)
    BY <2>1, <2>2, <2>3 DEF ToastInv
  <2> QED
    BY <1>3, <1>7, <2>4 DEF y
<1> QED
  BY <1>6, <1>7

LEMMA ToastKeeps ==
  ASSUME ToastsInv, NEW i \in ToastIds, Toast(i)
  PROVE  ToastsInv'
<1> DEFINE toast == stack[i]
<1>1. /\ ToastInv(toast, clock) /\ clock \in Times /\ toast.stage = "shown"
      /\ clock' = clock /\ toast \in ToastRecords
  BY DEF ToastsInv, Toast
<1>2. /\ toast.mouse \in BOOLEAN /\ toast.focus \in BOOLEAN
      /\ TRUE \in BOOLEAN /\ FALSE \in BOOLEAN
  BY <1>1 DEF ToastRecords
<1>3. \/ ~toast.mouse /\ stack' = [stack EXCEPT ![i] = pause(Touched(toast, TRUE, toast.focus))]
      \/ ~toast.focus /\ stack' = [stack EXCEPT ![i] = pause(Touched(toast, toast.mouse, TRUE))]
      \/ toast.mouse /\ stack' = [stack EXCEPT ![i] = resume(Touched(toast, FALSE, toast.focus))]
      \/ toast.focus /\ stack' = [stack EXCEPT ![i] = resume(Touched(toast, toast.mouse, FALSE))]
      \/ stack' = [stack EXCEPT ![i] = dismiss(toast, "closed")]
  BY DEF Toast, Touched
<1> HIDE DEF toast
<1>4. ASSUME ~toast.mouse PROVE ToastInv(pause(Touched(toast, TRUE, toast.focus)), clock)
  BY <1>1, <1>2, <1>4, PauseKeeps
<1>5. ASSUME ~toast.focus PROVE ToastInv(pause(Touched(toast, toast.mouse, TRUE)), clock)
  BY <1>1, <1>2, <1>5, PauseKeeps
<1>6. ASSUME toast.mouse PROVE ToastInv(resume(Touched(toast, FALSE, toast.focus)), clock)
  BY <1>1, <1>2, <1>6, ResumeKeeps
<1>7. ASSUME toast.focus PROVE ToastInv(resume(Touched(toast, toast.mouse, FALSE)), clock)
  BY <1>1, <1>2, <1>7, ResumeKeeps
<1>8. ToastInv(dismiss(toast, "closed"), clock)
  <2> DEFINE y == dismiss(toast, "closed")
  <2>1. /\ y \in ToastRecords /\ y.stage = "closed" /\ y.startedAt = toast.startedAt
        /\ y.orphans = toast.orphans
        /\ y.mouse = toast.mouse /\ y.focus = toast.focus /\ y.crowded = toast.crowded
    BY <1>1, DismissIsTyped
  <2> HIDE DEF y
  <2>2. ToastInv(y, clock)
    BY <1>1, <2>1 DEF ToastInv, Timely
  <2> QED
    BY <2>2 DEF y
<1> QED
  BY <1>1, <1>3, <1>4, <1>5, <1>6, <1>7, <1>8, OneToast

\* A toast appears.
LEMMA ShowKeeps ==
  ASSUME ToastsInv, NEW i \in ToastIds, showToast(i)
  PROVE  ToastsInv'
<1> DEFINE x == [stack[i] EXCEPT !.stage = "shown", !.remaining = AUTO_DISMISS_MS]
           y == scheduleDismiss(x, AUTO_DISMISS_MS)
<1>1. /\ stack[i] \in ToastRecords /\ stack[i] = NewToast /\ clock \in Times
      /\ clock' = clock
  BY DEF ToastsInv, ToastInv, showToast
<1>2. stack' = [stack EXCEPT ![i] = y]
  BY DEF showToast, ToastsInv
<1>3. AUTO_DISMISS_MS \in 0..AUTO_DISMISS_MS
  BY ToastsAssumption
<1>4. /\ NewToast.mouse = FALSE /\ NewToast.focus = FALSE /\ NewToast.orphans = {}
      /\ NewToast.timer = Cleared /\ NewToast.free = 0
  BY DEF NewToast
<1>5. /\ x \in ToastRecords /\ x.stage = "shown" /\ x.remaining = AUTO_DISMISS_MS
      /\ x.timer = Cleared /\ x.orphans = {} /\ x.free = 0
      /\ x.mouse = NewToast.mouse /\ x.focus = NewToast.focus
  BY <1>1, <1>3, <1>4 DEF ToastRecords
<1> HIDE DEF x
<1>6. /\ y \in ToastRecords /\ y.stage = "shown" /\ y.startedAt = clock
      /\ y.timer = clock + AUTO_DISMISS_MS /\ y.timer # Cleared /\ y.orphans = {}
      /\ y.remaining = AUTO_DISMISS_MS /\ y.free = 0
      /\ y.mouse = NewToast.mouse /\ y.focus = NewToast.focus
  BY <1>1, <1>3, <1>5, ScheduleIsTyped
<1> HIDE DEF y
<1>7. ~y.mouse /\ ~y.focus
  BY <1>4, <1>6
<1>8. Timely(y, clock)
  BY <1>1, <1>6, <1>7, ToastsAssumption DEF Timely, Held, Times
<1>9. ToastInv(y, clock)
  BY <1>1, <1>6, <1>7, <1>8, ToastsAssumption DEF ToastInv, Held, Times
<1> QED
  BY <1>1, <1>2, <1>9, OneToast

\* A timer fires.
LEMMA FireKeeps ==
  ASSUME ToastsInv, NEW i \in ToastIds, Fire(i)
  PROVE  ToastsInv'
<1> DEFINE toast == stack[i]
           x == IF toast.stage = "shown" THEN dismiss(toast, "gone") ELSE toast
<1>1. PICK at \in {toast.timer} \cup toast.orphans :
        /\ at # Cleared /\ at <= clock
        /\ stack' = [stack EXCEPT ![i] = fired(toast, at)] /\ clock' = clock
  BY DEF Fire
<1>2. ToastInv(toast, clock) /\ toast \in ToastRecords /\ clock \in Times
  BY DEF ToastsInv, ToastInv
<1>3. /\ x \in ToastRecords /\ x.startedAt = toast.startedAt /\ x.orphans = toast.orphans
      /\ x.free = toast.free /\ x.mouse = toast.mouse /\ x.focus = toast.focus
      /\ x.crowded = toast.crowded
      /\ x.stage = IF toast.stage = "shown" THEN "gone" ELSE toast.stage
  <2> HIDE DEF toast
  <2> QED
    BY <1>2, DismissIsTyped
<1> DEFINE y == fired(toast, at)
<1>4. /\ y \in ToastRecords /\ y.startedAt = x.startedAt /\ y.orphans = x.orphans \ {at}
      /\ y.free = x.free /\ y.mouse = x.mouse /\ y.focus = x.focus
      /\ y.crowded = x.crowded /\ y.stage = x.stage
  <2>1. y = [x EXCEPT !.orphans = @ \ {at}]
    BY DEF fired
  <2> HIDE DEF x, y, toast
  <2> QED
    BY <1>3, <2>1 DEF ToastRecords
<1> HIDE DEF x, y, toast
<1>5. toast.stage # "new"
  <2>1. NewToast.timer = Cleared /\ NewToast.orphans = {}
    BY DEF NewToast
  <2> QED
    BY <1>1, <1>2, <2>1 DEF ToastInv
<1>6. ASSUME ~y.crowded PROVE Timely(y, clock)
  <2>1. ~toast.crowded /\ Timely(toast, clock)
    BY <1>2, <1>3, <1>4, <1>6 DEF ToastInv
  <2>2. toast.orphans = {} /\ at = toast.timer /\ y.orphans = {}
    BY <1>1, <1>3, <1>4, <2>1 DEF Timely
  <2>3. toast.stage = "shown" => toast.free = AUTO_DISMISS_MS
    <3> SUFFICES ASSUME toast.stage = "shown" PROVE toast.free = AUTO_DISMISS_MS
      OBVIOUS
    <3>1. ~Held(toast)
      BY <1>1, <2>1, <2>2 DEF Timely
    <3>2. toast.startedAt + toast.remaining <= clock
      BY <1>1, <2>1, <2>2, <3>1 DEF Timely
    <3> QED
      BY <1>2, <2>1, <3>1, <3>2, ToastsAssumption DEF Timely, ToastRecords, Times
  <2>4. ~(y.mouse /\ y.focus)
    BY <1>3, <1>4, <2>1 DEF Timely
  <2> QED
    BY <1>3, <1>4, <2>1, <2>2, <2>3, <2>4 DEF Timely
<1>7. y.stage # "new" /\ y.stage # "shown"
  BY <1>3, <1>4, <1>5
<1>8. ToastInv(y, clock)
  BY <1>2, <1>3, <1>4, <1>6, <1>7 DEF ToastInv
<1> QED
  BY <1>1, <1>2, <1>8, OneToast DEF y

\* Time passes.
LEMMA TickKeeps ==
  ASSUME ToastsInv, ToastTick
  PROVE  ToastsInv'
<1> DEFINE Read(toast) ==
      IF toast.stage = "shown" /\ ~Held(toast) /\ toast.free < AUTO_DISMISS_MS
      THEN [toast EXCEPT !.free = @ + 1] ELSE toast
<1>1. /\ clock' = clock + 1 /\ clock' \in Times /\ clock \in Times
      /\ stack' = [i \in ToastIds |-> Read(stack[i])]
  BY ToastsAssumption DEF ToastTick, ToastsInv, Times
<1>2. ASSUME NEW toast, ToastInv(toast, clock)
      PROVE  ToastInv(Read(toast), clock + 1)
  <2>1. toast \in ToastRecords /\ toast.startedAt <= clock /\ toast.startedAt \in Nat
        /\ clock \in Nat /\ toast.startedAt <= clock + 1
    BY <1>1, <1>2, ToastsAssumption DEF ToastInv, ToastRecords, Times
  <2>2. CASE toast.stage = "shown" /\ ~Held(toast) /\ toast.free < AUTO_DISMISS_MS
    <3> DEFINE y == [toast EXCEPT !.free = @ + 1]
    <3>1. /\ y \in ToastRecords /\ y.free = toast.free + 1 /\ y.stage = "shown"
          /\ y.startedAt = toast.startedAt /\ y.remaining = toast.remaining
          /\ y.timer = toast.timer /\ y.orphans = toast.orphans
          /\ y.mouse = toast.mouse /\ y.focus = toast.focus /\ y.crowded = toast.crowded
      <4>1. toast.free + 1 \in 0..AUTO_DISMISS_MS
        BY <2>1, <2>2, ToastsAssumption DEF ToastRecords
      <4> QED
        BY <2>1, <2>2, <4>1 DEF ToastRecords
    <3> HIDE DEF y
    <3>2. ~Held(y) /\ y.timer # Cleared
      BY <1>2, <2>2, <3>1 DEF Held, ToastInv
    <3>3. ASSUME ~y.crowded PROVE Timely(y, clock + 1)
      <4>1. Timely(toast, clock)
        BY <1>2, <3>1, <3>3 DEF ToastInv
      <4>2. y.free = IF (clock + 1) - y.startedAt < y.remaining
                     THEN AUTO_DISMISS_MS - y.remaining + ((clock + 1) - y.startedAt)
                     ELSE AUTO_DISMISS_MS
        <5>1. /\ toast.free = IF clock - toast.startedAt < toast.remaining
                              THEN AUTO_DISMISS_MS - toast.remaining + (clock - toast.startedAt)
                              ELSE AUTO_DISMISS_MS
              /\ toast.free < AUTO_DISMISS_MS
          BY <2>2, <4>1 DEF Timely
        <5> QED
          BY <2>1, <3>1, <5>1, ToastsAssumption DEF ToastRecords
      <4>3. ~(y.mouse /\ y.focus) /\ y.orphans = {}
            /\ y.timer = y.startedAt + y.remaining /\ y.remaining > 0
        BY <2>2, <3>1, <4>1 DEF Timely
      <4> QED
        BY <3>1, <3>2, <4>2, <4>3 DEF Timely
    <3>4. ToastInv(y, clock + 1)
      BY <2>1, <3>1, <3>2, <3>3 DEF ToastInv
    <3> QED
      BY <2>2, <3>4 DEF y
  <2>3. CASE ~(toast.stage = "shown" /\ ~Held(toast) /\ toast.free < AUTO_DISMISS_MS)
    <3>1. ASSUME ~toast.crowded PROVE Timely(toast, clock + 1)
      <4>1. Timely(toast, clock)
        BY <1>2, <3>1 DEF ToastInv
      <4>2. ASSUME toast.stage = "shown", ~Held(toast)
            PROVE  /\ toast.free = AUTO_DISMISS_MS
                   /\ ~((clock + 1) - toast.startedAt < toast.remaining)
        BY <2>1, <2>3, <4>1, <4>2, ToastsAssumption DEF Timely, ToastRecords
      <4> QED
        BY <4>1, <4>2 DEF Timely
    <3>2. ToastInv(toast, clock + 1)
      BY <1>2, <2>1, <3>1 DEF ToastInv
    <3> QED
      BY <2>3, <3>2
  <2> QED
    BY <2>2, <2>3
<1>3. \A i \in ToastIds : ToastInv(Read(stack[i]), clock + 1)
  BY <1>2 DEF ToastsInv
<1> HIDE DEF Read
<1>4. \A i \in ToastIds : ToastInv(stack'[i], clock')
  BY <1>1, <1>3
<1>5. stack' \in [ToastIds -> ToastRecords]
  BY <1>1, <1>3 DEF ToastInv
<1> QED
  BY <1>1, <1>4, <1>5 DEF ToastsInv, ToastInv, Timely, Held

\* The invariant of the toasts holds.
THEOREM ToastsInvariance == Spec => []ToastsInv
<1>1. ASSUME ToastsInv, [Next]_vars PROVE ToastsInv'
  <2>1. CASE ToastsStep /\ LeaveShell
    BY <2>1, NewToastIsTyped, ToastsAssumption DEF LeaveShell, ToastsInv, ToastInv, Times
  <2>2. CASE ToastsStep /\ ~LeaveShell
    BY <1>1, <2>2, TickKeeps, ShowKeeps, FireKeeps, ToastKeeps DEF ToastsStep, ToastsNext
  <2>3. CASE ~ToastsStep
    BY <1>1, <2>3, ToastsAside
    DEF Next, FlagsStep, KeycloakStep, MonitoringStep, PrefsStep, vars, toastVars
  <2> QED
    BY <2>1, <2>2, <2>3
<1> QED
  BY <1>1, ToastsStart, PTL DEF Spec

\* A toast goes by itself after its time, however often mouse or focus hold it,
\* and never while one of them does, unless both ever were on it together.
THEOREM ToastsGoInTime == Spec => []ToastsTakeTheirTime
<1>1. ToastsInv => ToastsTakeTheirTime
  BY DEF ToastsInv, ToastInv, Timely, ToastsTakeTheirTime
<1> QED
  BY <1>1, ToastsInvariance, PTL

-----------------------------------------------------------------------------
(* The preferences.                                                         *)

Fields == {"name", "highContrast", "fontSizeScale"}
Raw == Partials \cup {None, Garbled}
Pages ==
  [stage : {"closed", "served", "live"}, place : {"public", "shell", "left"},
   server : Configs \cup {None}, branding : Configs \cup {None}, collapsed : BOOLEAN,
   theme : Themes, form : Configs \cup {None},
   asked : SUBSET Fields, behind : SUBSET Preferences]
Jars == [branding : Raw, sidebar : {None, "true", "false"}, theme : {None, "light", "dark"}]
Storages == [branding : Raw, sidebar : {None, "true", "false"}]

\* What a page holds at each stage.
PageOK(page) ==
  /\ page.stage = "live" <=> page.branding # None
  /\ page.stage = "served" => page.server # None
  /\ page.form # None =>
       /\ page.stage = "live"
       /\ \A f \in Fields \ page.asked : page.form[f] = page.branding[f]

\* A page nobody was ahead of has what the cookies say.
UpToDate(page) ==
  /\ page.stage = "served" =>
       /\ "branding" \notin page.behind => page.server = parseBrandingCookie(jar.branding)
       /\ page.place = "shell" /\ "sidebar" \notin page.behind =>
            (page.collapsed <=> jar.sidebar = "true")
  /\ page.stage = "live" /\ "branding" \notin page.behind /\ Fits(page.branding) =>
       page.branding = readBranding

PrefsInv ==
  /\ jar \in Jars /\ storage \in Storages /\ tab \in [Tabs -> Pages]
  /\ os \in {"light", "dark"} /\ clicked \in 0..MaxClicks
  /\ last \in [Preferences -> Tabs \cup {None}] /\ wish \subseteq Fields
  /\ \A t \in Tabs :
       /\ PageOK(tab[t]) /\ UpToDate(tab[t])
       /\ \A p \in Preferences : last[p] = t => Live(t)
  /\ ReloadShowsLast

\* What a step owes: the invariant, and what OnlyWhatWasAsked says of it.  No
\* page comes alive, unless the step is Hydrate.
AsAsked ==
  \A f \in Fields :
    readBranding'[f] # readBranding[f] =>
      \/ f \in wish'
      \/ ~Fits(readBranding) \/ ~Fits(readBranding')
      \/ \E t \in Tabs : /\ last'["branding"] = t
                         /\ "branding" \in tab[t].behind \/ ~Fits(tab[t].branding)
SameStages == \A t \in Tabs : tab'[t].stage = tab[t].stage
NoSwap ==
  \A t \in Tabs :
    tab[t].stage = "served" /\ tab'[t].stage = "live" =>
      /\ tab'[t].branding = tab[t].server \/ "branding" \in tab[t].behind \/ Promotable
      /\ \/ tab'[t].collapsed = tab[t].collapsed
         \/ "sidebar" \in tab[t].behind \/ PromotableSidebar
Owed == PrefsInv' /\ AsAsked /\ SameStages

LEMMA DefaultIsConfig ==
  /\ DEFAULT_BRANDING \in Configs
  /\ Fits(DEFAULT_BRANDING)
  /\ DOMAIN DEFAULT_BRANDING = Fields
BY PrefsAssumption DEF DEFAULT_BRANDING, Configs, Scales, Fits, Fields

LEMMA ConfigIsPartial ==
  ASSUME NEW c \in Configs
  PROVE  DOMAIN c = Fields /\ c \in Raw /\ c # None /\ c # Garbled
<1>1. c \in Partials
  BY DEF Partials
<1>2. DOMAIN c = Fields
  BY DEF Configs, Fields
<1> QED
  BY <1>1, <1>2, PrefsAssumption DEF Raw

\* The fields of a merged branding.
LEMMA Merged ==
  ASSUME NEW c \in Configs, NEW d, DOMAIN d \subseteq Fields,
         "name" \in DOMAIN d => d.name \in Names,
         "highContrast" \in DOMAIN d => d.highContrast \in BOOLEAN,
         "fontSizeScale" \in DOMAIN d => d.fontSizeScale \in Scales
  PROVE  /\ Merge(c, d) \in Configs
         /\ \A f \in Fields : Merge(c, d)[f] = IF f \in DOMAIN d THEN d[f] ELSE c[f]
<1>1. DOMAIN c = Fields
  BY ConfigIsPartial
<1>2. Merge(c, d) = [f \in {"name", "highContrast", "fontSizeScale"} |->
                       IF f \in DOMAIN d THEN d[f] ELSE c[f]]
  BY <1>1 DEF Merge, Fields
<1>3. @ = [name |-> IF "name" \in DOMAIN d THEN d.name ELSE c.name,
           highContrast |-> IF "highContrast" \in DOMAIN d THEN d.highContrast
                            ELSE c.highContrast,
           fontSizeScale |-> IF "fontSizeScale" \in DOMAIN d THEN d.fontSizeScale
                             ELSE c.fontSizeScale]
  OBVIOUS
<1>4. Merge(c, d) \in Configs
  BY <1>2, <1>3 DEF Configs
<1> QED
  BY <1>2, <1>4 DEF Fields

LEMMA WholeIsMerged ==
  ASSUME NEW c \in Configs, NEW d \in Configs
  PROVE  Merge(c, d) = d
<1>1. DOMAIN c = Fields /\ DOMAIN d = Fields
  BY ConfigIsPartial
<1>2. Merge(c, d) = [f \in DOMAIN d |-> d[f]]
  BY <1>1 DEF Merge
<1>3. d = [f \in DOMAIN d |-> d[f]]
  BY DEF Configs
<1> QED
  BY <1>2, <1>3

\* What is read from a cookie.
LEMMA Parsed ==
  /\ \A r \in Raw : parseBrandingCookie(r) \in Configs
  /\ \A r \in Raw \ {None, Garbled} : Merge(DEFAULT_BRANDING, r) \in Configs
  /\ \A c \in Configs : parseBrandingCookie(c) = c
<1>1. ASSUME NEW r \in Partials
      PROVE  Merge(DEFAULT_BRANDING, r) \in Configs
  <2>1. CASE r = <<>>
    <3>1. DOMAIN r = {}
      BY <2>1
    <3> QED
      BY <3>1, DefaultIsConfig, Merged
  <2>2. CASE r \in [{"name"} -> Names]
    <3>1. DOMAIN r = {"name"} /\ r["name"] \in Names
      BY <2>2
    <3>2. r.name \in Names
      BY <3>1
    <3> QED
      BY <3>1, <3>2, DefaultIsConfig, Merged DEF Fields
  <2>3. CASE r \in Configs
    BY <2>3, DefaultIsConfig, WholeIsMerged
  <2> QED
    BY <2>1, <2>2, <2>3 DEF Partials
<1>2. \A r \in Raw : parseBrandingCookie(r) \in Configs
  BY <1>1, DefaultIsConfig DEF Raw, parseBrandingCookie
<1>3. \A c \in Configs : parseBrandingCookie(c) = c
  BY ConfigIsPartial, DefaultIsConfig, WholeIsMerged DEF parseBrandingCookie
<1> QED
  BY <1>1, <1>2, <1>3 DEF Raw

LEMMA ReadIsConfig ==
  ASSUME jar \in Jars, storage \in Storages
  PROVE  readBranding \in Configs /\ readSidebar \in BOOLEAN
<1>1. jar.branding \in Raw /\ storage.branding \in Raw
  BY DEF Jars, Storages
<1>2. readBranding \in Configs
  BY <1>1, Parsed DEF readBranding, Promotable
<1>3. readSidebar \in BOOLEAN
  BY DEF readSidebar
<1> QED
  BY <1>2, <1>3

\* The pages after another one has written: q is what became of page p.
LeftBehind(p, q, written) ==
  /\ q.stage = p.stage /\ q.server = p.server /\ q.branding = p.branding
  /\ q.form = p.form /\ q.collapsed = p.collapsed /\ q.theme = p.theme
  /\ q.asked = p.asked /\ q.place = p.place
  /\ q.stage # "closed" => q.behind = p.behind \cup written

LEMMA BehindIs ==
  ASSUME NEW pages \in [Tabs -> Pages], NEW t \in Tabs, NEW written \in SUBSET Preferences,
         NEW after, after = Behind(pages, t, written)
  PROVE  /\ after \in [Tabs -> Pages]
         /\ after[t] = pages[t]
         /\ \A u \in Tabs : u # t => LeftBehind(pages[u], after[u], written)
<1>1. ASSUME NEW u \in Tabs
      PROVE  [pages[u] EXCEPT !.behind = @ \cup written] \in Pages
  <2>1. pages[u] \in Pages
    OBVIOUS
  <2> QED
    BY <2>1 DEF Pages
<1>2. after \in [Tabs -> Pages]
  BY <1>1 DEF Behind
<1>3. ASSUME NEW u \in Tabs, u # t
      PROVE  LeftBehind(pages[u], after[u], written)
  <2>1. pages[u] \in Pages
    OBVIOUS
  <2>2. CASE pages[u].stage = "closed"
    <3>1. after[u] = pages[u]
      BY <2>2 DEF Behind
    <3> QED
      BY <2>2, <3>1 DEF LeftBehind
  <2>3. CASE pages[u].stage # "closed"
    <3>1. after[u] = [pages[u] EXCEPT !.behind = @ \cup written]
      BY <1>3, <2>3 DEF Behind
    <3> QED
      BY <2>1, <2>3, <3>1 DEF Pages, LeftBehind
  <2> QED
    BY <2>2, <2>3
<1>4. after[t] = pages[t]
  BY DEF Behind
<1> QED
  BY <1>2, <1>3, <1>4

\* A page of one tab changes, and puts the others behind.
LEMMA Overtaken ==
  ASSUME tab \in [Tabs -> Pages], NEW t \in Tabs, NEW page \in Pages,
         NEW written \in SUBSET Preferences,
         tab' = Behind([tab EXCEPT ![t] = page], t, written)
  PROVE  /\ tab' \in [Tabs -> Pages] /\ tab'[t] = page
         /\ \A u \in Tabs : u # t => LeftBehind(tab[u], tab'[u], written)
<1> DEFINE pages == [tab EXCEPT ![t] = page]
<1>1. pages \in [Tabs -> Pages] /\ pages[t] = page
      /\ \A u \in Tabs : u # t => pages[u] = tab[u]
  OBVIOUS
<1>2. ASSUME NEW after, after = Behind(pages, t, written)
      PROVE  /\ after \in [Tabs -> Pages] /\ after[t] = pages[t]
             /\ \A u \in Tabs : u # t => LeftBehind(pages[u], after[u], written)
  <2> HIDE DEF pages
  <2> QED
    BY ONLY <1>1, <1>2, BehindIs
<1>3. tab' = Behind(pages, t, written)
  OBVIOUS
<1> HIDE DEF pages
<1> QED
  BY <1>1, <1>2, <1>3

\* A page left behind with what was written is right about the rest.
LEMMA StillUpToDate ==
  ASSUME NEW u \in Tabs, NEW written, LeftBehind(tab[u], tab'[u], written),
         PageOK(tab[u]), UpToDate(tab[u]),
         "branding" \notin written =>
           readBranding' = readBranding /\ jar'.branding = jar.branding,
         "sidebar" \notin written => jar'.sidebar = jar.sidebar
  PROVE  PageOK(tab[u])' /\ UpToDate(tab[u])'
<1>1. /\ tab'[u].stage = tab[u].stage /\ tab'[u].server = tab[u].server
      /\ tab'[u].place = tab[u].place
      /\ tab'[u].branding = tab[u].branding /\ tab'[u].form = tab[u].form
      /\ tab'[u].collapsed = tab[u].collapsed /\ tab'[u].asked = tab[u].asked
      /\ tab'[u].stage # "closed" => tab'[u].behind = tab[u].behind \cup written
  BY DEF LeftBehind
<1>2. PageOK(tab[u])'
  BY <1>1 DEF PageOK
<1>3. UpToDate(tab[u])'
  BY <1>1 DEF UpToDate
<1> QED
  BY <1>2, <1>3

\* A page with another theme is the same page otherwise.
LEMMA Rethemed ==
  ASSUME NEW page \in Pages, NEW theme \in Themes, NEW q, q = [page EXCEPT !.theme = theme]
  PROVE  /\ q \in Pages /\ q.theme = theme
         /\ q.stage = page.stage /\ q.place = page.place /\ q.server = page.server
         /\ q.branding = page.branding /\ q.collapsed = page.collapsed
         /\ q.form = page.form /\ q.asked = page.asked /\ q.behind = page.behind
BY DEF Pages

LEMMA PrefsStart == Init => PrefsInv
<1> SUFFICES ASSUME Init PROVE PrefsInv
  OBVIOUS
<1>1. PrefsInit
  BY DEF Init
<1>2. NoPage \in Pages /\ PageOK(NoPage)
  BY ConfigIsPartial DEF NoPage, Pages, PageOK, Themes, CookieThemes
<1>3. {<<>>} \cup [{"name"} -> Names] \subseteq Partials
  BY DEF Partials
<1>4. [{"name"} -> {DefaultName}] \subseteq [{"name"} -> Names]
      /\ [{"name"} -> Names \ {DefaultName}] \subseteq [{"name"} -> Names]
  BY PrefsAssumption
<1>5. jar \in Jars
  <2>1. jar.branding \in Raw
    BY <1>1, <1>3, <1>4 DEF PrefsInit, Raw
  <2>2. jar = [branding |-> jar.branding, sidebar |-> jar.sidebar, theme |-> jar.theme]
        /\ jar.sidebar \in {None, "true"} /\ jar.theme = None
    BY <1>1 DEF PrefsInit
  <2> QED
    BY <2>1, <2>2 DEF Jars
<1>6. storage \in Storages
  <2>1. storage.branding \in Raw
    BY <1>1, <1>3, <1>4 DEF PrefsInit, Raw
  <2>2. storage = [branding |-> storage.branding, sidebar |-> storage.sidebar]
        /\ storage.sidebar \in {None, "true"}
    BY <1>1 DEF PrefsInit
  <2> QED
    BY <2>1, <2>2 DEF Storages
<1>7. /\ tab \in [Tabs -> Pages] /\ os \in {"light", "dark"} /\ clicked \in 0..MaxClicks
      /\ last \in [Preferences -> Tabs \cup {None}] /\ wish \subseteq Fields
  BY <1>1, <1>2, PrefsAssumption DEF PrefsInit
<1>8. ASSUME NEW t \in Tabs
      PROVE  PageOK(tab[t]) /\ UpToDate(tab[t])
  <2>1. tab[t] = NoPage /\ NoPage.stage = "closed"
    BY <1>1 DEF PrefsInit, NoPage
  <2> QED
    BY <1>2, <2>1 DEF UpToDate
<1>9. \A t \in Tabs, p \in Preferences : last[p] # t
  BY <1>1, PrefsAssumption DEF PrefsInit
<1>10. ReloadShowsLast
  BY <1>9 DEF ReloadShowsLast, Preferences
<1> QED
  BY <1>5, <1>6, <1>7, <1>8, <1>9, <1>10 DEF PrefsInv

LEMMA PrefsAside ==
  ASSUME PrefsInv, UNCHANGED prefVars
  PROVE  PrefsInv'
BY DEF PrefsInv, prefVars, UpToDate, ReloadShowsLast, readBranding, Promotable,
       readSidebar, PromotableSidebar, Live

\* A tab writes a branding: the others are behind, its form is filled anew.
LEMMA BrandingKeeps ==
  ASSUME PrefsInv, NEW t \in Tabs, Live(t), NEW config \in Configs,
         tab' = Behind([tab EXCEPT ![t] = Resync(@, config)], t, {"branding"}),
         jar' \in Jars, jar'.sidebar = jar.sidebar, jar'.theme = jar.theme,
         storage' \in Storages, storage'.sidebar = storage.sidebar,
         readBranding' = IF Fits(config) THEN config ELSE readBranding,
         \A f \in Fields \ wish' : config[f] = tab[t].branding[f],
         Click, SetBy(t, "branding"), os' = os, wish' \subseteq Fields
  PROVE  Owed
<1>1. /\ jar \in Jars /\ storage \in Storages /\ tab \in [Tabs -> Pages]
      /\ last \in [Preferences -> Tabs \cup {None}]
      /\ \A u \in Tabs : PageOK(tab[u]) /\ UpToDate(tab[u])
      /\ \A u \in Tabs : \A p \in Preferences : last[p] = u => tab[u].stage = "live"
      /\ tab[t].stage = "live"
  BY DEF PrefsInv, Live
<1>2. config # None
  BY ConfigIsPartial
<1> DEFINE page == Resync(tab[t], config)
           pages == [tab EXCEPT ![t] = page]
<1>3. /\ page \in Pages
      /\ page.stage = "live" /\ page.branding = config /\ page.asked = {}
      /\ page.form = (IF tab[t].form = None THEN None ELSE config)
      /\ page.collapsed = tab[t].collapsed /\ page.theme = tab[t].theme
  <2>1. tab[t] \in Pages
    BY <1>1
  <2> QED
    BY <1>1, <2>1 DEF Resync, Pages
<1> HIDE DEF page
<1>4. pages \in [Tabs -> Pages] /\ pages[t] = page
      /\ \A u \in Tabs : u # t => pages[u] = tab[u]
  BY <1>1, <1>3
<1>5. tab' = Behind(pages, t, {"branding"})
  BY DEF page
<1>a. {"branding"} \in SUBSET Preferences
  BY DEF Preferences
<1> HIDE DEF pages
<1>6. /\ tab' \in [Tabs -> Pages] /\ tab'[t] = page
      /\ \A u \in Tabs : u # t => LeftBehind(tab[u], tab'[u], {"branding"})
  <2>1. /\ tab' \in [Tabs -> Pages] /\ tab'[t] = pages[t]
        /\ \A u \in Tabs : u # t => LeftBehind(pages[u], tab'[u], {"branding"})
    BY <1>4, <1>5, <1>a, BehindIs
  <2> QED
    BY <1>4, <2>1
<1>7. ASSUME NEW u \in Tabs
      PROVE  PageOK(tab[u])' /\ UpToDate(tab[u])'
  <2>1. CASE u = t
    BY <1>2, <1>3, <1>6, <2>1 DEF PageOK, UpToDate
  <2>2. CASE u # t
    <3>1. PageOK(tab[u]) /\ UpToDate(tab[u])
      BY <1>1
    <3>2. /\ tab'[u].stage = tab[u].stage /\ tab'[u].server = tab[u].server
          /\ tab'[u].place = tab[u].place
          /\ tab'[u].branding = tab[u].branding /\ tab'[u].form = tab[u].form
          /\ tab'[u].collapsed = tab[u].collapsed /\ tab'[u].asked = tab[u].asked
          /\ tab'[u].stage # "closed" => tab'[u].behind = tab[u].behind \cup {"branding"}
      BY <1>6, <2>2 DEF LeftBehind
    <3>3. PageOK(tab[u])'
      BY <3>1, <3>2 DEF PageOK
    <3>4. UpToDate(tab[u])'
      BY <3>1, <3>2 DEF UpToDate
    <3> QED
      BY <3>3, <3>4
  <2> QED
    BY <2>1, <2>2
<1>8. /\ last' \in [Preferences -> Tabs \cup {None}] /\ last'["branding"] = t
      /\ last'["sidebar"] = last["sidebar"] /\ last'["theme"] = last["theme"]
      /\ clicked' \in 0..MaxClicks
  BY <1>1, PrefsAssumption DEF SetBy, Preferences, Click, PrefsInv
<1>9. ASSUME NEW u \in Tabs, NEW p \in Preferences, last'[p] = u
      PROVE  Live(u)'
  <2>1. CASE u = t
    BY <1>3, <1>6, <2>1 DEF Live
  <2>2. CASE u # t
    <3>1. last[p] = u
      BY <1>8, <1>9, <2>2 DEF Preferences
    <3>2. tab[u].stage = "live"
      BY <1>1, <3>1
    <3> QED
      BY <1>6, <2>2, <3>2 DEF Live, LeftBehind
  <2> QED
    BY <2>1, <2>2
<1>10. \A u \in Tabs : tab'[u].collapsed = tab[u].collapsed /\ tab'[u].theme = tab[u].theme
  BY <1>3, <1>6 DEF LeftBehind
<1>11. readSidebar' = readSidebar
  BY DEF readSidebar, PromotableSidebar
<1>12. ReloadShowsLast'
  <2>1. ASSUME NEW u \in Tabs, last'["branding"] = u, Fits(tab'[u].branding)
        PROVE  readBranding' = tab'[u].branding
    BY <1>3, <1>6, <1>8, <2>1
  <2>2. ASSUME NEW u \in Tabs, last'["sidebar"] = u, storage'.sidebar = None
        PROVE  readSidebar' = tab'[u].collapsed
    BY <1>8, <1>10, <1>11, <2>2 DEF PrefsInv, ReloadShowsLast
  <2>3. ASSUME NEW u \in Tabs, last'["theme"] = u
        PROVE  Agrees(tab'[u].theme, jar'.theme)
    BY <1>8, <1>10, <2>3 DEF PrefsInv, ReloadShowsLast
  <2> QED
    BY <2>1, <2>2, <2>3 DEF ReloadShowsLast
<1>13. PrefsInv'
  BY <1>6, <1>7, <1>8, <1>9, <1>12 DEF PrefsInv
<1>14. SameStages
  BY <1>1, <1>3, <1>6 DEF LeftBehind, SameStages
<1>15. AsAsked
  <2>1. ASSUME NEW f \in Fields \ wish', readBranding'[f] # readBranding[f],
               "branding" \notin tab[t].behind, Fits(tab[t].branding)
        PROVE  FALSE
    <3>1. tab[t].branding = readBranding
      BY <1>1, <2>1 DEF UpToDate
    <3>2. readBranding' = config /\ config[f] = tab[t].branding[f]
      BY <2>1
    <3> QED
      BY <2>1, <3>1, <3>2
  <2> QED
    BY <1>8, <2>1 DEF AsAsked
<1> QED
  BY <1>13, <1>14, <1>15 DEF Owed

LEMMA UpdateKeeps ==
  ASSUME PrefsInv, NEW t \in Tabs, NEW partial, DOMAIN partial \subseteq Fields,
         "name" \in DOMAIN partial => partial.name \in Names,
         "highContrast" \in DOMAIN partial => partial.highContrast \in BOOLEAN,
         "fontSizeScale" \in DOMAIN partial => partial.fontSizeScale \in Scales,
         NEW fields \in SUBSET Fields, updateBrandingStore(t, partial, fields),
         \A f \in Fields \ fields : Merge(tab[t].branding, partial)[f] = tab[t].branding[f]
  PROVE  Owed
<1>1. tab[t].branding \in Configs
  BY DEF updateBrandingStore, Live, PrefsInv, PageOK, Pages
<1> DEFINE config == Merge(tab[t].branding, partial)
<1>2. config \in Configs
  BY <1>1, Merged
<1>3. /\ Live(t) /\ Click /\ SetBy(t, "branding") /\ os' = os /\ storage' = storage
      /\ tab' = Behind([tab EXCEPT ![t] = Resync(@, config)], t, {"branding"})
      /\ jar' = [jar EXCEPT !.branding = writeCookie(@, config)]
      /\ wish' = fields
  BY DEF updateBrandingStore
<1>a. \A f \in Fields \ wish' : config[f] = tab[t].branding[f]
  BY <1>3
<1> HIDE DEF config
<1>4. jar \in Jars /\ storage \in Storages
  BY DEF PrefsInv
<1>5. jar' \in Jars /\ jar'.sidebar = jar.sidebar /\ jar'.theme = jar.theme
      /\ jar'.branding = IF Fits(config) THEN config ELSE jar.branding
  BY <1>2, <1>3, <1>4, ConfigIsPartial DEF Jars, writeCookie
<1>6. readBranding' = IF Fits(config) THEN config ELSE readBranding
  <2>1. CASE Fits(config)
    BY <1>2, <1>5, <2>1, ConfigIsPartial, Parsed DEF readBranding, Promotable
  <2>2. CASE ~Fits(config)
    BY <1>3, <1>5, <2>2 DEF readBranding, Promotable
  <2> QED
    BY <2>1, <2>2
<1>7. storage' \in Storages /\ storage'.sidebar = storage.sidebar
  BY <1>3, <1>4
<1> QED
  BY <1>2, <1>3, <1>a, <1>5, <1>6, <1>7, BrandingKeeps

LEMMA ResetKeeps ==
  ASSUME PrefsInv, NEW t \in Tabs, resetBrandingStore(t)
  PROVE  Owed
<1>1. jar \in Jars /\ storage \in Storages
  BY DEF PrefsInv
<1>2. jar' \in Jars /\ jar'.sidebar = jar.sidebar /\ jar'.theme = jar.theme
      /\ jar'.branding = None
  BY <1>1 DEF resetBrandingStore, Jars, Raw
<1>3. storage' \in Storages /\ storage'.sidebar = storage.sidebar /\ storage'.branding = None
  BY <1>1 DEF resetBrandingStore, Storages, Raw
<1>4. readBranding' = DEFAULT_BRANDING
  BY <1>2, <1>3 DEF readBranding, Promotable, parseBrandingCookie
<1>5. /\ Live(t) /\ Click /\ SetBy(t, "branding") /\ os' = os
      /\ tab' = Behind([tab EXCEPT ![t] = Resync(@, DEFAULT_BRANDING)], t, {"branding"})
      /\ wish' = Fields
  BY DefaultIsConfig DEF resetBrandingStore
<1> QED
  BY <1>2, <1>3, <1>4, <1>5, DefaultIsConfig, BrandingKeeps

\* The buttons of the e-MAG bar.
LEMMA BarKeeps ==
  ASSUME PrefsInv, NEW t \in Tabs, EMagAccessibilityBar(t)
  PROVE  Owed
<1>1. tab[t].branding \in Configs
  BY DEF EMagAccessibilityBar, Live, PrefsInv, PageOK, Pages
<1>2. ASSUME NEW scale \in Scales, setFont(t, scale)
      PROVE  Owed
  <2> DEFINE partial == [fontSizeScale |-> scale]
  <2>1. /\ DOMAIN partial = {"fontSizeScale"} /\ partial.fontSizeScale = scale
    OBVIOUS
  <2>2. updateBrandingStore(t, partial, {"fontSizeScale"})
    BY <1>2 DEF setFont
  <2>3. {"fontSizeScale"} \in SUBSET Fields
    BY DEF Fields
  <2> HIDE DEF partial
  <2>4. \A f \in Fields \ {"fontSizeScale"} :
          Merge(tab[t].branding, partial)[f] = tab[t].branding[f]
    BY <1>1, <1>2, <2>1, <2>3, Merged DEF Fields
  <2> QED
    BY <1>2, <2>1, <2>2, <2>3, <2>4, UpdateKeeps
<1>3. CASE toggleHighContrast(t)
  <2> DEFINE partial == [highContrast |-> ~tab[t].branding.highContrast]
  <2>1. /\ DOMAIN partial = {"highContrast"} /\ partial.highContrast \in BOOLEAN
    OBVIOUS
  <2>2. updateBrandingStore(t, partial, {"highContrast"})
    BY <1>3 DEF toggleHighContrast
  <2>3. {"highContrast"} \in SUBSET Fields
    BY DEF Fields
  <2> HIDE DEF partial
  <2>4. \A f \in Fields \ {"highContrast"} :
          Merge(tab[t].branding, partial)[f] = tab[t].branding[f]
    BY <1>1, <2>1, <2>3, Merged DEF Fields
  <2> QED
    BY <2>1, <2>2, <2>3, <2>4, UpdateKeeps
<1>4. tab[t].branding.fontSizeScale \in Scales
  BY <1>1 DEF Configs
<1>5. CASE increaseFontSize(t)
  <2>1. tab[t].branding.fontSizeScale + 10 \in Scales
    BY <1>4, <1>5 DEF increaseFontSize, Scales
  <2> QED
    BY <1>2, <1>5, <2>1 DEF increaseFontSize
<1>6. CASE decreaseFontSize(t)
  <2>1. tab[t].branding.fontSizeScale - 10 \in Scales
    BY <1>4, <1>6 DEF decreaseFontSize, Scales
  <2> QED
    BY <1>2, <1>6, <2>1 DEF decreaseFontSize
<1>7. CASE setFont(t, 100)
  BY <1>2, <1>7 DEF Scales
<1> QED
  BY <1>3, <1>5, <1>6, <1>7 DEF EMagAccessibilityBar

\* A step within a live page: what it has of the cookies stays as it is.
LEMMA PageKeeps ==
  ASSUME PrefsInv, NEW t \in Tabs, NEW page \in Pages, PageOK(page),
         tab[t].stage = "live", page.stage = "live",
         page.branding = tab[t].branding, page.collapsed = tab[t].collapsed,
         page.behind = tab[t].behind,
         last["theme"] = t => Agrees(page.theme, jar.theme),
         tab' = [tab EXCEPT ![t] = page],
         UNCHANGED <<jar, storage, os, clicked, last>>, wish' = {}
  PROVE  Owed
<1>1. tab \in [Tabs -> Pages] /\ \A u \in Tabs : PageOK(tab[u]) /\ UpToDate(tab[u])
  BY DEF PrefsInv
<1>2. /\ tab' \in [Tabs -> Pages] /\ tab'[t] = page
      /\ \A u \in Tabs :
           /\ tab'[u].stage = tab[u].stage
           /\ tab'[u].branding = tab[u].branding /\ tab'[u].collapsed = tab[u].collapsed
           /\ tab'[u].behind = tab[u].behind
           /\ u # t => tab'[u] = tab[u]
  BY <1>1
<1>3. readBranding' = readBranding /\ readSidebar' = readSidebar
  BY DEF readBranding, Promotable, readSidebar, PromotableSidebar
<1>4. ASSUME NEW u \in Tabs
      PROVE  PageOK(tab[u])' /\ UpToDate(tab[u])'
  <2>1. PageOK(tab[u])'
    BY <1>1, <1>2 DEF PageOK
  <2>2. UpToDate(tab[u])'
    BY <1>1, <1>2, <1>3 DEF UpToDate
  <2> QED
    BY <2>1, <2>2
<1>5. ReloadShowsLast'
  <2>1. ASSUME NEW u \in Tabs, last'["theme"] = u
        PROVE  Agrees(tab'[u].theme, jar'.theme)
    BY <1>2, <2>1 DEF PrefsInv, ReloadShowsLast
  <2> QED
    BY <1>2, <1>3, <2>1 DEF PrefsInv, ReloadShowsLast
<1>6. \A u \in Tabs : \A p \in Preferences : last'[p] = u => Live(u)'
  BY <1>2 DEF PrefsInv, Live
<1>7. PrefsInv'
  BY <1>2, <1>4, <1>5, <1>6 DEF PrefsInv
<1> QED
  BY <1>2, <1>3, <1>7 DEF Owed, AsAsked, SameStages

LEMMA FormPageKeeps ==
  ASSUME PrefsInv, NEW t \in Tabs,
         \/ OpenForm(t) \/ LeaveForm(t)
         \/ \E text \in Names : handleBrandingChange(t, text)
  PROVE  Owed
<1>1. /\ tab[t] \in Pages /\ PageOK(tab[t])
      /\ last["theme"] = t => Agrees(tab[t].theme, jar.theme)
  BY DEF PrefsInv, ReloadShowsLast
<1>2. CASE OpenForm(t)
  <2> DEFINE page == [tab[t] EXCEPT !.form = tab[t].branding]
  <2>1. tab[t].branding \in Configs /\ tab[t].stage = "live"
    BY <1>1, <1>2 DEF OpenForm, Live, PageOK, Pages
  <2>2. /\ page \in Pages /\ page.form = tab[t].branding /\ page.asked = tab[t].asked
        /\ page.stage = tab[t].stage /\ page.theme = tab[t].theme
        /\ page.branding = tab[t].branding /\ page.collapsed = tab[t].collapsed
        /\ page.behind = tab[t].behind
    BY <1>1, <2>1 DEF Pages
  <2>3. tab' = [tab EXCEPT ![t] = page]
        /\ UNCHANGED <<jar, storage, os, clicked, last>> /\ wish' = {}
    BY <1>2 DEF OpenForm
  <2> HIDE DEF page
  <2>4. PageOK(page)
    BY <1>1, <2>1, <2>2 DEF PageOK
  <2> QED
    BY <1>1, <2>1, <2>2, <2>3, <2>4, PageKeeps
<1>3. CASE LeaveForm(t)
  <2> DEFINE page == [tab[t] EXCEPT !.form = None, !.asked = {}]
  <2>1. tab[t].stage = "live"
    BY <1>1, <1>3 DEF LeaveForm, PageOK
  <2>2. /\ page \in Pages /\ page.form = None
        /\ page.stage = tab[t].stage /\ page.theme = tab[t].theme
        /\ page.branding = tab[t].branding /\ page.collapsed = tab[t].collapsed
        /\ page.behind = tab[t].behind
    BY <1>1 DEF Pages
  <2>3. tab' = [tab EXCEPT ![t] = page]
        /\ UNCHANGED <<jar, storage, os, clicked, last>> /\ wish' = {}
    BY <1>3 DEF LeaveForm
  <2> HIDE DEF page
  <2>4. PageOK(page)
    BY <1>1, <2>1, <2>2 DEF PageOK
  <2> QED
    BY <1>1, <2>1, <2>2, <2>3, <2>4, PageKeeps
<1>4. ASSUME NEW text \in Names, handleBrandingChange(t, text)
      PROVE  Owed
  <2> DEFINE typed == [tab[t].form EXCEPT !.name = text]
             asked == tab[t].asked \cup {"name"}
             page == [tab[t] EXCEPT !.form = typed, !.asked = asked]
  <2>1. tab[t].form \in Configs /\ tab[t].stage = "live" /\ tab[t].asked \in SUBSET Fields
        /\ tab[t].form # None
    BY <1>1, <1>4 DEF handleBrandingChange, PageOK, Pages
  <2>2. typed \in Configs /\ asked \in SUBSET Fields
        /\ \A f \in Fields \ {"name"} : typed[f] = tab[t].form[f]
    BY <2>1 DEF Configs, Fields
  <2>3. tab' = [tab EXCEPT ![t] = page]
        /\ UNCHANGED <<jar, storage, os, clicked, last>> /\ wish' = {}
    BY <1>4 DEF handleBrandingChange
  <2>4. \A f \in Fields \ asked : typed[f] = tab[t].branding[f]
    BY <1>1, <2>1, <2>2 DEF PageOK
  <2> HIDE DEF typed, asked
  <2>5. /\ page \in Pages /\ page.form = typed /\ page.asked = asked
        /\ page.stage = tab[t].stage /\ page.theme = tab[t].theme
        /\ page.branding = tab[t].branding /\ page.collapsed = tab[t].collapsed
        /\ page.behind = tab[t].behind
    BY <1>1, <2>2 DEF Pages
  <2> HIDE DEF page
  <2>6. PageOK(page)
    BY <1>1, <2>1, <2>4, <2>5 DEF PageOK
  <2> QED
    BY <1>1, <2>1, <2>3, <2>5, <2>6, PageKeeps
<1> QED
  BY <1>2, <1>3, <1>4

LEMMA SaveKeeps ==
  ASSUME PrefsInv, NEW t \in Tabs, handleBrandingSave(t)
  PROVE  Owed
<1>1. /\ tab[t].form \in Configs /\ tab[t].branding \in Configs
      /\ tab[t].asked \in SUBSET Fields /\ PageOK(tab[t]) /\ tab[t].form # None
  BY DEF PrefsInv, handleBrandingSave, Pages, PageOK, Live
<1>2. DOMAIN tab[t].form = Fields /\ tab[t].form.name \in Names
      /\ tab[t].form.highContrast \in BOOLEAN /\ tab[t].form.fontSizeScale \in Scales
  BY <1>1, ConfigIsPartial DEF Configs
<1>3. Merge(tab[t].branding, tab[t].form) = tab[t].form
  BY <1>1, WholeIsMerged
<1>4. \A f \in Fields \ tab[t].asked :
        Merge(tab[t].branding, tab[t].form)[f] = tab[t].branding[f]
  BY <1>1, <1>3 DEF PageOK
<1>5. updateBrandingStore(t, tab[t].form, tab[t].asked)
  BY DEF handleBrandingSave
<1> QED
  BY <1>1, <1>2, <1>4, <1>5, UpdateKeeps

\* Mounting the toggle changes the theme of the page alone.
LEMMA MountedIs ==
  ASSUME jar \in Jars, NEW page \in Pages, NEW given \in CookieThemes,
         NEW q, q = Mounted(page, given)
  PROVE  /\ q \in Pages
         /\ q.stage = page.stage /\ q.place = page.place /\ q.server = page.server
         /\ q.branding = page.branding /\ q.collapsed = page.collapsed
         /\ q.form = page.form /\ q.asked = page.asked /\ q.behind = page.behind
         /\ page.theme.painted = jar.theme => Agrees(q.theme, jar.theme)
<1> DEFINE aware == given = jar.theme
           theme == [painted |-> page.theme.painted, explicit |-> given,
                     had |-> page.theme.had, unaware |-> ~aware]
<1>1. /\ page.theme.painted \in CookieThemes /\ page.theme.had \in SUBSET CookieThemes
      /\ page \in Pages
  BY DEF Pages, Themes
<1>2. aware \in BOOLEAN
  OBVIOUS
<1>3. theme \in Themes
  <2> HIDE DEF aware
  <2> QED
    BY <1>1, <1>2 DEF Themes
<1>4. page.theme.painted = jar.theme => Agrees(theme, jar.theme)
  BY DEF Agrees
<1>5. q = [page EXCEPT !.theme = theme]
  BY DEF Mounted
<1> HIDE DEF theme
<1> QED
  BY <1>1, <1>3, <1>4, <1>5, Rethemed

LEMMA LoadKeeps ==
  ASSUME PrefsInv, NEW t \in Tabs, NEW place \in {"public", "shell"}, Load(t, place)
  PROVE  PrefsInv' /\ AsAsked /\ NoSwap
<1>1. /\ jar \in Jars /\ storage \in Storages /\ tab \in [Tabs -> Pages]
      /\ last \in [Preferences -> Tabs \cup {None}]
      /\ \A u \in Tabs : PageOK(tab[u]) /\ UpToDate(tab[u])
  BY DEF PrefsInv
<1> DEFINE served == [NoPage EXCEPT !.stage = "served", !.place = place,
                                    !.server = RootLayout.branding,
                                    !.collapsed = place = "shell" /\ ProtectedLayout.collapsed,
                                    !.theme.painted = RootLayout.theme,
                                    !.theme.had = {jar.theme}]
           given == IF place = "shell" THEN ProtectedLayout.theme ELSE None
           page == Mounted(served, given)
<1>2. /\ parseBrandingCookie(jar.branding) \in Configs
      /\ jar.theme \in CookieThemes /\ given \in CookieThemes
  BY <1>1, Parsed DEF Jars, CookieThemes, ProtectedLayout
<1>a. /\ served \in Pages /\ served.stage = "served" /\ served.place = place
      /\ served.form = None /\ served.branding = None
      /\ served.server = parseBrandingCookie(jar.branding)
      /\ place = "shell" => (served.collapsed <=> jar.sidebar = "true")
  <2> DEFINE bar == place = "shell" /\ jar.sidebar = "true"
             theme == [painted |-> jar.theme, explicit |-> None, had |-> {jar.theme},
                       unaware |-> FALSE]
  <2>1. bar \in BOOLEAN /\ (place = "shell" => (bar <=> jar.sidebar = "true"))
    OBVIOUS
  <2>2. theme \in Themes
    BY <1>2 DEF Themes, CookieThemes
  <2>a. served = [NoPage EXCEPT !.stage = "served", !.place = place,
                                !.server = parseBrandingCookie(jar.branding),
                                !.collapsed = bar, !.theme.painted = jar.theme,
                                !.theme.had = {jar.theme}]
    BY DEF RootLayout, ProtectedLayout
  <2> HIDE DEF bar, served
  <2>3. served = [stage |-> "served", place |-> place,
                  server |-> parseBrandingCookie(jar.branding), branding |-> None,
                  collapsed |-> bar, theme |-> theme, form |-> None, asked |-> {},
                  behind |-> {}]
    BY <2>a DEF NoPage
  <2> HIDE DEF theme
  <2> QED
    BY <1>2, <2>1, <2>2, <2>3 DEF Pages
<1>4. /\ tab' = [tab EXCEPT ![t] = page] /\ jar' = jar /\ storage' = storage /\ os' = os
      /\ clicked' = clicked /\ wish' = {}
      /\ last' = [p \in Preferences |-> IF last[p] = t THEN None ELSE last[p]]
  BY DEF Load
<1> HIDE DEF served, given
<1>3. /\ page \in Pages /\ page.stage = "served" /\ page.form = None /\ page.branding = None
      /\ page.server = parseBrandingCookie(jar.branding)
      /\ page.place = "shell" => (page.collapsed <=> jar.sidebar = "true")
  BY <1>1, <1>2, <1>a, MountedIs
<1> HIDE DEF page
<1>5. tab' \in [Tabs -> Pages] /\ tab'[t] = page /\ \A u \in Tabs : u # t => tab'[u] = tab[u]
  BY <1>1, <1>3, <1>4
<1>6. readBranding' = readBranding /\ readSidebar' = readSidebar
  BY <1>4 DEF readBranding, Promotable, readSidebar, PromotableSidebar
<1>7. page.server # None
  BY <1>2, <1>3, ConfigIsPartial
<1>8. ASSUME NEW u \in Tabs
      PROVE  PageOK(tab[u])' /\ UpToDate(tab[u])'
  <2>1. CASE u = t
    BY <1>3, <1>4, <1>5, <1>7, <2>1 DEF PageOK, UpToDate
  <2>2. CASE u # t
    BY <1>1, <1>4, <1>5, <1>6, <2>2 DEF PageOK, UpToDate
  <2> QED
    BY <2>1, <2>2
<1>9. /\ last' \in [Preferences -> Tabs \cup {None}]
      /\ \A u \in Tabs : \A p \in Preferences : last'[p] = u => u # t /\ last[p] = u
  BY <1>1, <1>4, PrefsAssumption
<1>10. \A u \in Tabs : \A p \in Preferences : last'[p] = u => Live(u)'
  BY <1>5, <1>9 DEF PrefsInv, Live
<1>11. ReloadShowsLast'
  BY <1>4, <1>5, <1>6, <1>9 DEF PrefsInv, ReloadShowsLast, Preferences
<1>12. PrefsInv'
  BY <1>1, <1>4, <1>5, <1>8, <1>9, <1>10, <1>11 DEF PrefsInv
<1>13. AsAsked /\ NoSwap
  BY <1>3, <1>5, <1>6 DEF AsAsked, NoSwap
<1> QED
  BY <1>12, <1>13

\* What the first read of these stores finds, and what its promotion leaves.
LEMMA Promotion ==
  ASSUME jar \in Jars, storage \in Storages, NEW stores \in SUBSET {"branding", "sidebar"},
         migrateLegacyStorage(stores), NEW ps, ps = Promoted(stores)
  PROVE  /\ jar' \in Jars /\ storage' \in Storages /\ jar'.theme = jar.theme
         /\ ps \in SUBSET Preferences /\ ps \subseteq stores /\ "theme" \notin ps
         /\ "branding" \in ps => Promotable
         /\ "sidebar" \in ps => PromotableSidebar
         /\ Fits(readBranding) => readBranding' = readBranding
         /\ "branding" \notin ps => readBranding' = readBranding /\ jar'.branding = jar.branding
         /\ (readSidebar' <=> readSidebar)
         /\ "sidebar" \notin ps =>
              jar'.sidebar = jar.sidebar /\ storage'.sidebar = storage.sidebar
<1>1. readBranding \in Configs /\ readSidebar \in BOOLEAN
  BY ReadIsConfig
<1>2. readBranding \in Raw /\ readBranding # None /\ readBranding # Garbled
  BY <1>1, ConfigIsPartial
<1>a. /\ ps \in SUBSET Preferences /\ ps \subseteq stores /\ "theme" \notin ps
      /\ "branding" \in ps => Promotable
      /\ "sidebar" \in ps => PromotableSidebar
  BY DEF Promoted, Preferences
<1>3. /\ jar' = [jar EXCEPT
           !.branding = IF "branding" \in ps THEN writeCookie(jar.branding, readBranding)
                        ELSE jar.branding,
           !.sidebar = IF "sidebar" \in ps THEN storage.sidebar ELSE jar.sidebar]
      /\ storage' = [branding |-> IF "branding" \in ps THEN None ELSE storage.branding,
                     sidebar |-> IF "sidebar" \in ps THEN None ELSE storage.sidebar]
  BY DEF migrateLegacyStorage
<1> DEFINE kept == IF "branding" \in ps THEN writeCookie(jar.branding, readBranding)
                   ELSE jar.branding
           bar == IF "sidebar" \in ps THEN storage.sidebar ELSE jar.sidebar
<1>4. kept \in Raw /\ bar \in {None, "true", "false"}
  BY <1>2 DEF Jars, Storages, writeCookie
<1>5. jar' = [jar EXCEPT !.branding = kept, !.sidebar = bar]
  BY <1>3
<1>6. /\ jar' \in Jars /\ jar'.branding = kept /\ jar'.sidebar = bar /\ jar'.theme = jar.theme
  <2> HIDE DEF kept, bar
  <2> QED
    BY <1>4, <1>5 DEF Jars
<1>7. /\ storage' \in Storages
      /\ storage'.branding = IF "branding" \in ps THEN None ELSE storage.branding
      /\ storage'.sidebar = IF "sidebar" \in ps THEN None ELSE storage.sidebar
  BY <1>3 DEF Storages, Raw
<1>8. "branding" \notin ps => readBranding' = readBranding /\ jar'.branding = jar.branding
  BY <1>6, <1>7 DEF readBranding, Promotable
<1>9. Fits(readBranding) => readBranding' = readBranding
  <2>1. CASE "branding" \in ps
    <3>1. ASSUME Fits(readBranding) PROVE jar'.branding = readBranding
      BY <1>6, <2>1, <3>1 DEF writeCookie
    <3>2. readBranding' = parseBrandingCookie(jar'.branding)
      BY <1>7, <2>1 DEF readBranding, Promotable
    <3> QED
      BY <1>1, <3>1, <3>2, Parsed
  <2> QED
    BY <1>8, <2>1
<1>10. (readSidebar' <=> readSidebar)
       /\ ("sidebar" \notin ps =>
             jar'.sidebar = jar.sidebar /\ storage'.sidebar = storage.sidebar)
  <2>1. CASE "sidebar" \in ps
    <3>1. PromotableSidebar /\ ~PromotableSidebar' /\ jar'.sidebar = storage.sidebar
      BY <1>a, <1>6, <1>7, <2>1 DEF PromotableSidebar
    <3> QED
      BY <2>1, <3>1 DEF readSidebar
  <2>2. CASE "sidebar" \notin ps
    <3>1. jar'.sidebar = jar.sidebar /\ storage'.sidebar = storage.sidebar
      BY <1>6, <1>7, <2>2
    <3> QED
      BY <2>2, <3>1 DEF readSidebar, PromotableSidebar
  <2> QED
    BY <2>1, <2>2
<1> QED
  BY <1>a, <1>6, <1>7, <1>8, <1>9, <1>10

\* A page reads these stores for the first time, as it comes alive or later.
LEMMA ReadKeeps ==
  ASSUME PrefsInv, NEW t \in Tabs, NEW stores \in SUBSET {"branding", "sidebar"},
         NEW page \in Pages, PageOK(page), page.stage = "live",
         "branding" \in stores => page.branding = readBranding,
         "branding" \notin stores =>
           tab[t].stage = "live" /\ page.branding = tab[t].branding,
         "sidebar" \in stores => page.collapsed = readSidebar,
         "sidebar" \notin stores => page.collapsed = tab[t].collapsed,
         page.behind = tab[t].behind \ stores,
         last["theme"] = t => Agrees(page.theme, jar.theme),
         tab' = Behind([tab EXCEPT ![t] = page], t, Promoted(stores)),
         migrateLegacyStorage(stores), wish' = {}, UNCHANGED <<os, clicked>>,
         last' = [p \in Preferences |-> IF p \in Promoted(stores) THEN t ELSE last[p]]
  PROVE  /\ PrefsInv' /\ AsAsked
         /\ tab'[t] = page /\ \A u \in Tabs : u # t => tab'[u].stage = tab[u].stage
<1>1. /\ jar \in Jars /\ storage \in Storages /\ tab \in [Tabs -> Pages]
      /\ last \in [Preferences -> Tabs \cup {None}] /\ clicked \in 0..MaxClicks
      /\ os \in {"light", "dark"}
      /\ \A u \in Tabs : PageOK(tab[u]) /\ UpToDate(tab[u])
      /\ \A u \in Tabs : \A p \in Preferences : last[p] = u => tab[u].stage = "live"
  BY DEF PrefsInv, Live
<1>2. readBranding \in Configs /\ readSidebar \in BOOLEAN
  BY <1>1, ReadIsConfig
<1> DEFINE ps == Promoted(stores)
<1>3. last' = [p \in Preferences |-> IF p \in ps THEN t ELSE last[p]]
  OBVIOUS
<1>4. /\ jar' \in Jars /\ storage' \in Storages /\ jar'.theme = jar.theme
      /\ ps \in SUBSET Preferences /\ ps \subseteq stores /\ "theme" \notin ps
      /\ Fits(readBranding) => readBranding' = readBranding
      /\ "branding" \notin ps => readBranding' = readBranding /\ jar'.branding = jar.branding
      /\ (readSidebar' <=> readSidebar)
      /\ "sidebar" \notin ps =>
           jar'.sidebar = jar.sidebar /\ storage'.sidebar = storage.sidebar
  BY <1>1, Promotion
<1>5. /\ "branding" \notin ps => readBranding' = readBranding /\ jar'.branding = jar.branding
      /\ "sidebar" \notin ps => jar'.sidebar = jar.sidebar
  BY <1>4
<1>6. /\ tab' \in [Tabs -> Pages] /\ tab'[t] = page
      /\ \A u \in Tabs : u # t => LeftBehind(tab[u], tab'[u], ps)
  BY <1>1, <1>4, Overtaken
<1> HIDE DEF ps
<1>7. ASSUME NEW u \in Tabs
      PROVE  PageOK(tab[u])' /\ UpToDate(tab[u])'
  <2>1. CASE u = t
    <3>1. PageOK(tab[u])'
      BY <1>6, <2>1 DEF PageOK
    <3>2. "branding" \notin page.behind /\ Fits(page.branding) =>
            page.branding = readBranding'
      <4>1. CASE "branding" \in stores
        BY <1>4, <4>1
      <4>2. CASE "branding" \notin stores
        BY <1>1, <1>4, <4>2 DEF UpToDate
      <4> QED
        BY <4>1, <4>2
    <3>3. UpToDate(tab[u])'
      BY <1>6, <2>1, <3>2 DEF UpToDate
    <3> QED
      BY <3>1, <3>3
  <2>2. CASE u # t
    BY <1>1, <1>5, <1>6, <2>2, StillUpToDate
  <2> QED
    BY <2>1, <2>2
<1>8. /\ last' \in [Preferences -> Tabs \cup {None}]
      /\ \A p \in Preferences : last'[p] = IF p \in ps THEN t ELSE last[p]
  BY <1>1, <1>3
<1>9. \A u \in Tabs : u # t =>
        /\ tab'[u].stage = tab[u].stage /\ tab'[u].branding = tab[u].branding
        /\ tab'[u].collapsed = tab[u].collapsed /\ tab'[u].theme = tab[u].theme
  BY <1>6 DEF LeftBehind
<1>10. ASSUME NEW u \in Tabs, NEW p \in Preferences, last'[p] = u
       PROVE  Live(u)'
  <2>1. CASE u = t
    BY <1>6, <2>1 DEF Live
  <2>2. CASE u # t
    <3>1. last[p] = u
      BY <1>8, <1>10, <2>2
    <3>2. tab[u].stage = "live"
      BY <1>1, <3>1
    <3> QED
      BY <1>9, <2>2, <3>2 DEF Live
  <2> QED
    BY <2>1, <2>2
<1>11. ReloadShowsLast'
  <2>1. ASSUME NEW u \in Tabs, last'["branding"] = u, Fits(tab'[u].branding)
        PROVE  readBranding' = tab'[u].branding
    <3>1. CASE u = t /\ "branding" \in stores
      BY <1>4, <1>6, <2>1, <3>1
    <3>2. CASE ~(u = t /\ "branding" \in stores)
      <4>1. "branding" \notin ps
        BY <1>4, <1>8, <2>1, <3>2 DEF Preferences
      <4>2. last["branding"] = u /\ tab'[u].branding = tab[u].branding
        BY <1>6, <1>8, <1>9, <2>1, <3>2, <4>1 DEF Preferences
      <4> QED
        BY <1>4, <2>1, <4>1, <4>2 DEF PrefsInv, ReloadShowsLast
    <3> QED
      BY <3>1, <3>2
  <2>2. ASSUME NEW u \in Tabs, last'["sidebar"] = u, storage'.sidebar = None
        PROVE  readSidebar' = tab'[u].collapsed
    <3>a. readSidebar' = readSidebar
      BY <1>4 DEF readSidebar
    <3>1. CASE u = t /\ "sidebar" \in stores
      BY <1>6, <3>1, <3>a
    <3>2. CASE ~(u = t /\ "sidebar" \in stores)
      <4>1. "sidebar" \notin ps
        BY <1>4, <1>8, <2>2, <3>2 DEF Preferences
      <4>2. /\ last["sidebar"] = u /\ tab'[u].collapsed = tab[u].collapsed
            /\ storage.sidebar = None
        BY <1>4, <1>6, <1>8, <1>9, <2>2, <3>2, <4>1 DEF Preferences
      <4>3. readSidebar = tab[u].collapsed
        BY <4>2 DEF PrefsInv, ReloadShowsLast
      <4> QED
        BY <3>a, <4>2, <4>3
    <3> QED
      BY <3>1, <3>2
  <2>3. ASSUME NEW u \in Tabs, last'["theme"] = u
        PROVE  Agrees(tab'[u].theme, jar'.theme)
    <3>1. last["theme"] = u
      BY <1>4, <1>8, <2>3 DEF Preferences
    <3>2. CASE u = t
      BY <1>4, <1>6, <3>1, <3>2
    <3>3. CASE u # t
      BY <1>4, <1>9, <3>1, <3>3 DEF PrefsInv, ReloadShowsLast
    <3> QED
      BY <3>2, <3>3
  <2> QED
    BY <2>1, <2>2, <2>3 DEF ReloadShowsLast
<1>12. PrefsInv'
  BY <1>1, <1>4, <1>6, <1>7, <1>8, <1>10, <1>11 DEF PrefsInv
<1>13. AsAsked
  BY <1>4 DEF AsAsked
<1> QED
  BY <1>6, <1>9, <1>12, <1>13

LEMMA HydrateKeeps ==
  ASSUME PrefsInv, NEW t \in Tabs, Hydrate(t)
  PROVE  PrefsInv' /\ AsAsked /\ NoSwap
<1>1. /\ jar \in Jars /\ storage \in Storages /\ tab \in [Tabs -> Pages]
      /\ PageOK(tab[t]) /\ UpToDate(tab[t]) /\ tab[t].stage = "served"
      /\ last["theme"] # t
  BY DEF PrefsInv, Hydrate, Live, Preferences
<1>2. readBranding \in Configs /\ readSidebar \in BOOLEAN
  BY <1>1, ReadIsConfig
<1> DEFINE stores == Stores(t)
           bar == IF tab[t].place = "shell" THEN readSidebar ELSE tab[t].collapsed
           missed == tab[t].behind \ stores
           page == [tab[t] EXCEPT !.stage = "live", !.server = None,
                                  !.branding = readBranding, !.collapsed = bar,
                                  !.behind = missed]
<1>3. /\ stores \in SUBSET {"branding", "sidebar"} /\ "branding" \in stores
      /\ "sidebar" \in stores <=> tab[t].place = "shell"
  BY DEF Stores
<1>4. /\ tab' = Behind([tab EXCEPT ![t] = page], t, Promoted(stores))
      /\ migrateLegacyStorage(stores) /\ wish' = {} /\ os' = os /\ clicked' = clicked
      /\ last' = [p \in Preferences |-> IF p \in Promoted(stores) THEN t ELSE last[p]]
  BY DEF Hydrate
<1>5. tab[t] \in Pages /\ bar \in BOOLEAN /\ missed \in SUBSET Preferences
  BY <1>1, <1>2 DEF Pages
<1>6. /\ "sidebar" \in stores => bar = readSidebar
      /\ "sidebar" \notin stores => bar = tab[t].collapsed
      /\ missed = tab[t].behind \ stores
  BY <1>3
<1> HIDE DEF stores, bar, missed
<1>7. /\ page \in Pages /\ page.stage = "live" /\ page.branding = readBranding
      /\ page.collapsed = bar /\ page.form = tab[t].form /\ page.behind = missed
  BY <1>2, <1>5 DEF Pages
<1> HIDE DEF page
<1>8. PageOK(page)
  BY <1>1, <1>2, <1>7, ConfigIsPartial DEF PageOK
<1>9. /\ PrefsInv' /\ AsAsked
      /\ tab'[t] = page /\ \A u \in Tabs : u # t => tab'[u].stage = tab[u].stage
  BY <1>1, <1>3, <1>4, <1>6, <1>7, <1>8, ReadKeeps
<1>10. \/ tab'[t].branding = tab[t].server
       \/ "branding" \in tab[t].behind \/ Promotable
  BY <1>1, <1>7, <1>9 DEF UpToDate, readBranding
<1>11. \/ tab'[t].collapsed = tab[t].collapsed
       \/ "sidebar" \in tab[t].behind \/ PromotableSidebar
  <2>1. tab[t].collapsed \in BOOLEAN
    BY <1>5 DEF Pages
  <2> QED
    BY <1>1, <1>3, <1>6, <1>7, <1>9, <2>1 DEF UpToDate, readSidebar
<1>12. NoSwap
  BY <1>9, <1>10, <1>11 DEF NoSwap
<1> QED
  BY <1>9, <1>12

\* The way from a public page to the shell, and back.
LEMMA RemountedIs ==
  ASSUME PrefsInv, NEW t \in Tabs, NEW page \in Remounted(t)
  PROVE  /\ page \in Pages
         /\ page.stage = tab[t].stage /\ page.place = tab[t].place
         /\ page.branding = tab[t].branding /\ page.collapsed = tab[t].collapsed
         /\ page.server = tab[t].server
         /\ page.form = tab[t].form /\ page.asked = tab[t].asked
         /\ page.behind = tab[t].behind
         /\ last["theme"] = t => Agrees(page.theme, jar.theme)
<1>1. /\ jar \in Jars /\ tab[t] \in Pages
      /\ last["theme"] = t => Agrees(tab[t].theme, jar.theme)
  BY DEF PrefsInv, ReloadShowsLast
<1>2. PICK theme \in tab[t].theme.had : page = Mounted(tab[t], theme)
  BY DEF Remounted
<1>3. theme \in CookieThemes
  BY <1>1 DEF Pages, Themes
<1>4. last["theme"] = t => tab[t].theme.painted = jar.theme
  BY <1>1 DEF Agrees
<1> QED
  BY <1>1, <1>2, <1>3, <1>4, MountedIs

LEMMA EnterKeeps ==
  ASSUME PrefsInv, NEW t \in Tabs, EnterShell(t)
  PROVE  PrefsInv' /\ AsAsked /\ NoSwap
<1>1. /\ jar \in Jars /\ storage \in Storages
      /\ PageOK(tab[t]) /\ tab[t].stage = "live"
  BY DEF PrefsInv, EnterShell, Live
<1>2. PICK old \in Remounted(t) :
        tab' = Behind(
          [tab EXCEPT ![t] = [old EXCEPT !.place = "shell", !.collapsed = readSidebar,
                                         !.behind = old.behind \ {"sidebar"}]],
          t, Promoted({"sidebar"}))
  BY DEF EnterShell
<1>3. /\ old \in Pages /\ old.stage = "live"
      /\ old.branding = tab[t].branding /\ old.form = tab[t].form
      /\ old.asked = tab[t].asked /\ old.behind = tab[t].behind
      /\ last["theme"] = t => Agrees(old.theme, jar.theme)
  BY <1>1, RemountedIs
<1> DEFINE page == [old EXCEPT !.place = "shell", !.collapsed = readSidebar,
                               !.behind = old.behind \ {"sidebar"}]
<1>4. readSidebar \in BOOLEAN
  BY <1>1, ReadIsConfig
<1>5. /\ page \in Pages /\ page.stage = "live" /\ page.branding = tab[t].branding
      /\ page.collapsed = readSidebar /\ page.behind = tab[t].behind \ {"sidebar"}
      /\ page.form = tab[t].form /\ page.asked = tab[t].asked /\ page.theme = old.theme
  BY <1>3, <1>4 DEF Pages
<1>6. tab' = Behind([tab EXCEPT ![t] = page], t, Promoted({"sidebar"}))
  BY <1>2
<1> HIDE DEF page
<1>7. PageOK(page)
  BY <1>1, <1>5 DEF PageOK
<1>8. /\ migrateLegacyStorage({"sidebar"}) /\ wish' = {} /\ UNCHANGED <<os, clicked>>
      /\ last' = [p \in Preferences |-> IF p \in Promoted({"sidebar"}) THEN t ELSE last[p]]
  BY DEF EnterShell
<1>9. /\ PrefsInv' /\ AsAsked
      /\ tab'[t] = page /\ \A u \in Tabs : u # t => tab'[u].stage = tab[u].stage
  <2> DEFINE stores == {"sidebar"}
  <2>1. stores \in SUBSET {"branding", "sidebar"} /\ "branding" \notin stores
        /\ "sidebar" \in stores
    OBVIOUS
  <2> QED
    BY <1>1, <1>3, <1>5, <1>6, <1>7, <1>8, <2>1, ReadKeeps
<1> QED
  BY <1>1, <1>5, <1>9 DEF NoSwap

LEMMA TravelKeeps ==
  ASSUME PrefsInv, NEW t \in Tabs, GoPublic(t) \/ ReturnToShell(t)
  PROVE  Owed
<1>1. /\ jar \in Jars /\ tab[t] \in Pages /\ PageOK(tab[t]) /\ tab[t].stage = "live"
      /\ last["theme"] = t => Agrees(tab[t].theme, jar.theme)
  BY DEF PrefsInv, GoPublic, ReturnToShell, Live, ReloadShowsLast
<1>2. /\ UNCHANGED <<jar, storage, os, clicked, last>> /\ wish' = {}
      /\ \E page \in Pages, place \in {"shell", "left"} :
           /\ page.stage = "live"
           /\ page.branding = tab[t].branding /\ page.collapsed = tab[t].collapsed
           /\ page.form = tab[t].form /\ page.asked = tab[t].asked
           /\ page.behind = tab[t].behind
           /\ last["theme"] = t => Agrees(page.theme, jar.theme)
           /\ tab' = [tab EXCEPT ![t] = [page EXCEPT !.place = place]]
  <2>1. CASE GoPublic(t)
    <3> DEFINE page == Mounted(tab[t], None)
    <3>1. None \in CookieThemes
      BY DEF CookieThemes
    <3>2. last["theme"] = t => tab[t].theme.painted = jar.theme
      BY <1>1 DEF Agrees
    <3>3. tab' = [tab EXCEPT ![t] = [page EXCEPT !.place = "left"]]
          /\ UNCHANGED <<jar, storage, os, clicked, last>> /\ wish' = {}
      BY <2>1 DEF GoPublic
    <3>4. page = Mounted(tab[t], None)
      OBVIOUS
    <3> HIDE DEF page
    <3>5. /\ page \in Pages /\ page.stage = "live"
          /\ page.branding = tab[t].branding /\ page.collapsed = tab[t].collapsed
          /\ page.form = tab[t].form /\ page.asked = tab[t].asked
          /\ page.behind = tab[t].behind
          /\ last["theme"] = t => Agrees(page.theme, jar.theme)
      BY <1>1, <3>1, <3>2, <3>4, MountedIs
    <3> QED
      BY <3>3, <3>5
  <2>2. CASE ReturnToShell(t)
    <3>1. PICK page \in Remounted(t) : tab' = [tab EXCEPT ![t] = [page EXCEPT !.place = "shell"]]
      BY <2>2 DEF ReturnToShell
    <3>2. UNCHANGED <<jar, storage, os, clicked, last>> /\ wish' = {}
      BY <2>2 DEF ReturnToShell
    <3>3. /\ page \in Pages /\ page.stage = "live"
          /\ page.branding = tab[t].branding /\ page.collapsed = tab[t].collapsed
          /\ page.form = tab[t].form /\ page.asked = tab[t].asked
          /\ page.behind = tab[t].behind
          /\ last["theme"] = t => Agrees(page.theme, jar.theme)
      BY <1>1, RemountedIs
    <3> QED
      BY <3>1, <3>2, <3>3
  <2> QED
    BY <2>1, <2>2
<1>3. PICK page \in Pages, place \in {"shell", "left"} :
           /\ page.stage = "live"
           /\ page.branding = tab[t].branding /\ page.collapsed = tab[t].collapsed
           /\ page.form = tab[t].form /\ page.asked = tab[t].asked
           /\ page.behind = tab[t].behind
           /\ last["theme"] = t => Agrees(page.theme, jar.theme)
           /\ tab' = [tab EXCEPT ![t] = [page EXCEPT !.place = place]]
  BY <1>2
<1> DEFINE moved == [page EXCEPT !.place = place]
<1>4. /\ moved \in Pages /\ moved.stage = "live"
      /\ moved.branding = tab[t].branding /\ moved.collapsed = tab[t].collapsed
      /\ moved.form = tab[t].form /\ moved.asked = tab[t].asked
      /\ moved.behind = tab[t].behind
      /\ last["theme"] = t => Agrees(moved.theme, jar.theme)
  BY <1>3 DEF Pages
<1>5. tab' = [tab EXCEPT ![t] = moved]
  BY <1>3
<1> HIDE DEF moved
<1>6. PageOK(moved)
  BY <1>1, <1>4 DEF PageOK
<1> QED
  BY <1>1, <1>2, <1>4, <1>5, <1>6, PageKeeps

LEMMA SidebarKeeps ==
  ASSUME PrefsInv, NEW t \in Tabs, toggleSidebar(t)
  PROVE  Owed
<1>1. /\ jar \in Jars /\ storage \in Storages /\ tab \in [Tabs -> Pages]
      /\ last \in [Preferences -> Tabs \cup {None}]
      /\ \A u \in Tabs : PageOK(tab[u]) /\ UpToDate(tab[u])
      /\ \A u \in Tabs : \A p \in Preferences : last[p] = u => tab[u].stage = "live"
      /\ tab[t].stage = "live"
  BY DEF PrefsInv, Live, toggleSidebar
<1> DEFINE next == ~tab[t].collapsed
           page == [tab[t] EXCEPT !.collapsed = next]
           pages == [tab EXCEPT ![t] = page]
<1>2. /\ page \in Pages /\ page.stage = tab[t].stage /\ page.branding = tab[t].branding
      /\ page.form = tab[t].form /\ page.asked = tab[t].asked /\ page.behind = tab[t].behind
      /\ page.theme = tab[t].theme /\ page.collapsed = next
  <2>1. tab[t] \in Pages
    BY <1>1
  <2> QED
    BY <2>1 DEF Pages
<1>3. /\ tab' = Behind(pages, t, {"sidebar"})
      /\ jar' = [jar EXCEPT !.sidebar = IF next THEN "true" ELSE None]
      /\ last' = [last EXCEPT !["sidebar"] = t]
      /\ storage' = storage /\ os' = os /\ wish' = {} /\ Click
  BY DEF toggleSidebar, setSidebarCollapsed, SetBy
<1>4. next \in BOOLEAN /\ {"sidebar"} \in SUBSET Preferences
  BY DEF Preferences
<1> HIDE DEF next, page
<1>5. pages \in [Tabs -> Pages] /\ pages[t] = page
      /\ \A u \in Tabs : u # t => pages[u] = tab[u]
  BY <1>1, <1>2
<1> HIDE DEF pages
<1>6. /\ tab' \in [Tabs -> Pages] /\ tab'[t] = page
      /\ \A u \in Tabs : u # t => LeftBehind(tab[u], tab'[u], {"sidebar"})
  <2>1. /\ tab' \in [Tabs -> Pages] /\ tab'[t] = pages[t]
        /\ \A u \in Tabs : u # t => LeftBehind(pages[u], tab'[u], {"sidebar"})
    BY <1>3, <1>4, <1>5, BehindIs
  <2> QED
    BY <1>5, <2>1
<1>7. /\ jar' \in Jars /\ jar'.branding = jar.branding /\ jar'.theme = jar.theme
      /\ (jar'.sidebar = "true" <=> next)
  BY <1>1, <1>3, <1>4, PrefsAssumption DEF Jars
<1>8. readBranding' = readBranding
  BY <1>3, <1>7 DEF readBranding, Promotable
<1>9. ASSUME NEW u \in Tabs
      PROVE  PageOK(tab[u])' /\ UpToDate(tab[u])'
  <2>1. PageOK(tab[u]) /\ UpToDate(tab[u])
    BY <1>1
  <2>2. CASE u = t
    BY <1>1, <1>2, <1>6, <1>8, <2>1, <2>2 DEF PageOK, UpToDate
  <2>3. CASE u # t
    <3>1. /\ tab'[u].stage = tab[u].stage /\ tab'[u].server = tab[u].server
          /\ tab'[u].place = tab[u].place
          /\ tab'[u].branding = tab[u].branding /\ tab'[u].form = tab[u].form
          /\ tab'[u].collapsed = tab[u].collapsed /\ tab'[u].asked = tab[u].asked
          /\ tab'[u].stage # "closed" => tab'[u].behind = tab[u].behind \cup {"sidebar"}
      BY <1>6, <2>3 DEF LeftBehind
    <3>2. PageOK(tab[u])'
      BY <2>1, <3>1 DEF PageOK
    <3>3. UpToDate(tab[u])'
      BY <1>7, <1>8, <2>1, <3>1 DEF UpToDate
    <3> QED
      BY <3>2, <3>3
  <2> QED
    BY <2>2, <2>3
<1>10. /\ last' \in [Preferences -> Tabs \cup {None}] /\ last'["sidebar"] = t
       /\ last'["branding"] = last["branding"] /\ last'["theme"] = last["theme"]
       /\ clicked' \in 0..MaxClicks
  BY <1>1, <1>3, PrefsAssumption DEF Preferences, Click, PrefsInv
<1>11. \A u \in Tabs :
         /\ tab'[u].stage = tab[u].stage /\ tab'[u].branding = tab[u].branding
         /\ tab'[u].theme = tab[u].theme
  BY <1>2, <1>6 DEF LeftBehind
<1>12. ASSUME NEW u \in Tabs, NEW p \in Preferences, last'[p] = u
       PROVE  Live(u)'
  <2>1. u = t \/ last[p] = u
    BY <1>10, <1>12 DEF Preferences
  <2>2. tab[u].stage = "live"
    BY <1>1, <2>1
  <2> QED
    BY <1>11, <2>2 DEF Live
<1>13. ReloadShowsLast'
  <2>1. ASSUME NEW u \in Tabs, last'["branding"] = u, Fits(tab'[u].branding)
        PROVE  readBranding' = tab'[u].branding
    BY <1>8, <1>10, <1>11, <2>1 DEF PrefsInv, ReloadShowsLast
  <2>2. ASSUME NEW u \in Tabs, last'["sidebar"] = u, storage'.sidebar = None
        PROVE  readSidebar' = tab'[u].collapsed
    <3>1. u = t /\ tab'[u].collapsed = next
      BY <1>2, <1>6, <1>10, <2>2
    <3>2. ~PromotableSidebar'
      BY <2>2 DEF PromotableSidebar
    <3> QED
      BY <1>4, <1>7, <3>1, <3>2 DEF readSidebar
  <2>3. ASSUME NEW u \in Tabs, last'["theme"] = u
        PROVE  Agrees(tab'[u].theme, jar'.theme)
    BY <1>7, <1>10, <1>11, <2>3 DEF PrefsInv, ReloadShowsLast
  <2> QED
    BY <2>1, <2>2, <2>3 DEF ReloadShowsLast
<1>14. PrefsInv'
  BY <1>3, <1>6, <1>7, <1>9, <1>10, <1>12, <1>13 DEF PrefsInv
<1> QED
  BY <1>8, <1>11, <1>14 DEF Owed, AsAsked, SameStages

LEMMA ThemeKeeps ==
  ASSUME PrefsInv, NEW t \in Tabs, toggleTheme(t)
  PROVE  Owed
<1>1. /\ jar \in Jars /\ storage \in Storages /\ tab \in [Tabs -> Pages]
      /\ last \in [Preferences -> Tabs \cup {None}]
      /\ \A u \in Tabs : PageOK(tab[u]) /\ UpToDate(tab[u])
      /\ \A u \in Tabs : \A p \in Preferences : last[p] = u => tab[u].stage = "live"
      /\ tab[t].stage = "live"
  BY DEF PrefsInv, Live, toggleTheme
<1> DEFINE theme == Opposite(ThemeOf(t))
           knows(u) == [tab[u].theme EXCEPT !.had = @ \cup {theme}]
           chosen == [knows(t) EXCEPT !.painted = theme, !.explicit = theme,
                                      !.unaware = FALSE]
<1>2. theme \in {"light", "dark"}
  BY DEF Opposite
<1>3. /\ tab' = [u \in Tabs |->
           IF u = t THEN [tab[u] EXCEPT !.theme = chosen]
           ELSE IF tab[u].stage = "closed" THEN tab[u]
           ELSE [tab[u] EXCEPT !.theme = knows(u)]]
      /\ jar' = [jar EXCEPT !.theme = theme]
      /\ last' = [last EXCEPT !["theme"] = t]
      /\ storage' = storage /\ os' = os /\ wish' = {} /\ Click
  BY DEF toggleTheme, SetBy
<1> HIDE DEF theme
<1>4. /\ \A u \in Tabs : knows(u) \in Themes
      /\ chosen \in Themes /\ Agrees(chosen, theme)
  <2>1. ASSUME NEW u \in Tabs
        PROVE  knows(u) \in Themes
    <3>1. tab[u].theme \in Themes
      BY <1>1 DEF Pages
    <3> QED
      BY <1>2, <3>1 DEF Themes, CookieThemes
  <2>2. knows(t) \in Themes
    BY <2>1
  <2> HIDE DEF knows
  <2>3. chosen \in Themes /\ Agrees(chosen, theme)
    BY <1>2, <2>2 DEF Themes, CookieThemes, Agrees
  <2> QED
    BY <2>1, <2>3
<1> HIDE DEF knows, chosen
<1>5. /\ tab' \in [Tabs -> Pages] /\ tab'[t].theme = chosen
      /\ \A u \in Tabs :
           /\ tab'[u].stage = tab[u].stage /\ tab'[u].server = tab[u].server
           /\ tab'[u].branding = tab[u].branding /\ tab'[u].form = tab[u].form
           /\ tab'[u].collapsed = tab[u].collapsed /\ tab'[u].asked = tab[u].asked
           /\ tab'[u].behind = tab[u].behind /\ tab'[u].place = tab[u].place
  <2>2. ASSUME NEW u \in Tabs
        PROVE  /\ tab'[u] \in Pages /\ (u = t => tab'[u].theme = chosen)
               /\ tab'[u].stage = tab[u].stage /\ tab'[u].server = tab[u].server
               /\ tab'[u].branding = tab[u].branding /\ tab'[u].form = tab[u].form
               /\ tab'[u].collapsed = tab[u].collapsed /\ tab'[u].asked = tab[u].asked
               /\ tab'[u].behind = tab[u].behind /\ tab'[u].place = tab[u].place
    <3>1. tab[u] \in Pages
      BY <1>1
    <3>2. CASE u = t
      BY <1>3, <1>4, <3>1, <3>2, Rethemed
    <3>3. CASE u # t /\ tab[u].stage = "closed"
      BY <1>3, <3>1, <3>3
    <3>4. CASE u # t /\ tab[u].stage # "closed"
      BY <1>3, <1>4, <3>1, <3>4, Rethemed
    <3> QED
      BY <3>2, <3>3, <3>4
  <2>3. tab' \in [Tabs -> Pages]
    BY <1>3, <2>2
  <2> QED
    BY <2>2, <2>3
<1>6. /\ jar' \in Jars /\ jar'.branding = jar.branding /\ jar'.sidebar = jar.sidebar
      /\ jar'.theme = theme
  BY <1>1, <1>2, <1>3 DEF Jars
<1>7. readBranding' = readBranding /\ readSidebar' = readSidebar
  BY <1>3, <1>6 DEF readBranding, Promotable, readSidebar, PromotableSidebar
<1>8. ASSUME NEW u \in Tabs
      PROVE  PageOK(tab[u])' /\ UpToDate(tab[u])'
  BY <1>1, <1>5, <1>6, <1>7 DEF PageOK, UpToDate
<1>9. /\ last' \in [Preferences -> Tabs \cup {None}] /\ last'["theme"] = t
      /\ last'["branding"] = last["branding"] /\ last'["sidebar"] = last["sidebar"]
      /\ clicked' \in 0..MaxClicks
  BY <1>1, <1>3, PrefsAssumption DEF Preferences, Click, PrefsInv
<1>10. ASSUME NEW u \in Tabs, NEW p \in Preferences, last'[p] = u
       PROVE  Live(u)'
  <2>1. u = t \/ last[p] = u
    BY <1>9, <1>10 DEF Preferences
  <2>2. tab[u].stage = "live"
    BY <1>1, <2>1
  <2> QED
    BY <1>5, <2>2 DEF Live
<1>11. ReloadShowsLast'
  <2>1. \A u \in Tabs : last'["branding"] = u /\ Fits(tab'[u].branding) =>
          readBranding' = tab'[u].branding
    BY <1>5, <1>7, <1>9 DEF PrefsInv, ReloadShowsLast
  <2>2. \A u \in Tabs : last'["sidebar"] = u /\ storage'.sidebar = None =>
          readSidebar' = tab'[u].collapsed
    BY <1>3, <1>5, <1>7, <1>9 DEF PrefsInv, ReloadShowsLast
  <2>3. \A u \in Tabs : last'["theme"] = u => Agrees(tab'[u].theme, jar'.theme)
    BY <1>4, <1>5, <1>6, <1>9
  <2> QED
    BY <2>1, <2>2, <2>3 DEF ReloadShowsLast
<1>12. PrefsInv'
  BY <1>3, <1>5, <1>6, <1>8, <1>9, <1>10, <1>11 DEF PrefsInv
<1> QED
  BY <1>5, <1>7, <1>12 DEF Owed, AsAsked, SameStages

LEMMA SystemKeeps ==
  ASSUME PrefsInv, PrefersDark
  PROVE  Owed
<1>1. os' \in {"light", "dark"} /\ clicked' \in 0..MaxClicks /\ wish' = {}
      /\ UNCHANGED <<jar, storage, tab, last>>
  BY PrefsAssumption DEF PrefersDark, Opposite, Click, PrefsInv
<1>2. readBranding' = readBranding /\ readSidebar' = readSidebar
  BY <1>1 DEF readBranding, Promotable, readSidebar, PromotableSidebar
<1>3. PrefsInv'
  BY <1>1, <1>2 DEF PrefsInv, UpToDate, ReloadShowsLast, Live
<1> QED
  BY <1>1, <1>2, <1>3 DEF Owed, AsAsked, SameStages

\* Every step of the preferences.
LEMMA PrefsKeep ==
  ASSUME PrefsInv, PrefsNext
  PROVE  PrefsInv' /\ AsAsked /\ NoSwap
<1>1. CASE \E t \in Tabs :
             \/ Load(t, "shell") \/ Load(t, "public") \/ Hydrate(t) \/ EnterShell(t)
  BY <1>1, LoadKeeps, HydrateKeeps, EnterKeeps
<1>2. CASE PrefersDark \/ \E t \in Tabs :
             \/ GoPublic(t) \/ ReturnToShell(t) \/ EMagAccessibilityBar(t)
             \/ OpenForm(t) \/ LeaveForm(t) \/ BrandingSettingsForm(t)
             \/ toggleSidebar(t) \/ toggleTheme(t)
  <2>1. Owed
    BY <1>2, SystemKeeps, BarKeeps, TravelKeeps, FormPageKeeps, SaveKeeps, ResetKeeps, SidebarKeeps,
       ThemeKeeps DEF BrandingSettingsForm, doReset
  <2> QED
    BY <2>1 DEF Owed, SameStages, NoSwap
<1> QED
  BY <1>1, <1>2 DEF PrefsNext

\* The preferences keep their invariant, for any tabs, names and clicks.
THEOREM PrefsInvariance == Spec => []PrefsInv
<1>1. ASSUME PrefsInv, [Next]_vars PROVE PrefsInv'
  <2>1. CASE PrefsStep
    BY <1>1, <2>1, PrefsKeep DEF PrefsStep
  <2>2. CASE ~PrefsStep
    BY <1>1, <2>2, PrefsAside
    DEF Next, FlagsStep, KeycloakStep, MonitoringStep, ToastsStep, vars, prefVars
  <2> QED
    BY <2>1, <2>2
<1> QED
  BY <1>1, PrefsStart, PTL DEF Spec

\* What the tab that set a preference last shows is what the next load shows,
\* however many tabs write, and whatever older versions left behind.
THEOREM LastChoiceIsKept == Spec => []ReloadShowsLast
<1>1. PrefsInv => ReloadShowsLast
  BY DEF PrefsInv
<1> QED
  BY <1>1, PrefsInvariance, PTL

\* A page that comes alive shows what the server painted, unless another tab
\* wrote in between or an older value is promoted right then.
THEOREM PagesDoNotFlash == Spec => NoFlash
<1>1. ASSUME PrefsInv, [Next]_vars PROVE [NoSwap]_prefVars
  <2>1. CASE PrefsStep
    BY <1>1, <2>1, PrefsKeep DEF PrefsStep
  <2>2. CASE ~PrefsStep
    BY <1>1, <2>2
    DEF Next, FlagsStep, KeycloakStep, MonitoringStep, ToastsStep, vars, prefVars
  <2> QED
    BY <2>1, <2>2
<1> QED
  BY <1>1, PrefsInvariance, PTL DEF Spec, NoFlash, NoSwap

\* A step changes no field of the kept branding but those its user set, unless
\* it writes the copy of a tab that was behind or too long for its cookie.
THEOREM NothingElseChanges == Spec => OnlyWhatWasAsked
<1>1. ASSUME PrefsInv, [Next]_vars PROVE [AsAsked]_prefVars
  <2>1. CASE PrefsStep
    BY <1>1, <2>1, PrefsKeep DEF PrefsStep
  <2>2. CASE ~PrefsStep
    BY <1>1, <2>2
    DEF Next, FlagsStep, KeycloakStep, MonitoringStep, ToastsStep, vars, prefVars
  <2> QED
    BY <2>1, <2>2
<1>2. DOMAIN DEFAULT_BRANDING = Fields
  BY DefaultIsConfig
<1>3. [AsAsked]_prefVars =>
        [\A f \in DOMAIN DEFAULT_BRANDING :
           readBranding'[f] # readBranding[f] =>
             \/ f \in wish'
             \/ ~Fits(readBranding) \/ ~Fits(readBranding')
             \/ \E t \in Tabs : /\ last'["branding"] = t
                                /\ "branding" \in tab[t].behind \/ ~Fits(tab[t].branding)]_prefVars
  BY <1>2 DEF AsAsked
<1> QED
  BY <1>1, <1>3, PrefsInvariance, PTL DEF Spec, OnlyWhatWasAsked

LEMMA PrefsTypes == PrefsInv => PrefsTypeOK
<1> SUFFICES ASSUME PrefsInv PROVE PrefsTypeOK
  OBVIOUS
<1>1. ASSUME NEW t \in Tabs
      PROVE  /\ tab[t].stage \in {"closed", "served", "live"}
             /\ tab[t].branding \in Configs \cup {None} /\ tab[t].form \in Configs \cup {None}
             /\ (tab[t].branding # None) = Live(t)
             /\ tab[t].place \in {"public", "shell", "left"} /\ tab[t].theme \in Themes
  BY DEF PrefsInv, Pages, PageOK, Live
<1> QED
  BY <1>1, DefaultIsConfig DEF PrefsTypeOK, PrefsInv, Jars, Storages, Raw

-----------------------------------------------------------------------------
\* The pages keep their types, whichever of them a behaviour follows.
THEOREM TypeCorrect == Spec => []AdminTypeOK
<1>1. FlagsInv /\ KeycloakInv /\ MonitoringInv /\ ToastsInv =>
        FlagsTypeOK /\ KeycloakTypeOK /\ MonitoringTypeOK /\ ToastsTypeOK
  BY DEF FlagsInv, KeycloakInv, MonitoringInv, ToastsInv, ToastsTypeOK, ToastRecords
<1>2. Spec => [](panel \in Panels)
  <2>1. Init => panel \in Panels
    BY DEF Init
  <2>2. panel \in Panels /\ [Next]_vars => (panel \in Panels)'
    BY DEF Next, vars
  <2> QED
    BY <2>1, <2>2, PTL DEF Spec
<1>3. /\ panel \in Panels /\ PrefsTypeOK
      /\ FlagsTypeOK /\ KeycloakTypeOK /\ MonitoringTypeOK /\ ToastsTypeOK
      => AdminTypeOK
  BY DEF AdminTypeOK
<1> QED
  BY <1>1, <1>2, <1>3, PrefsTypes, SwitchesInvariance, KeycloakInvariance, MonitoringInvariance,
     PrefsInvariance, ToastsInvariance, PTL
=============================================================================
