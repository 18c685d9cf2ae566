------------------------------- MODULE Prefs -------------------------------
(***************************************************************************)
(* The preferences of one browser: the white-label branding with the       *)
(* e-MAG contrast and font scale (brandingStore.ts and its form and bar),  *)
(* the collapsed sidebar (sidebarCollapsedStore.ts) and the theme          *)
(* (ThemeToggle.tsx).  All three live in cookies every tab shares; each    *)
(* tab keeps a copy of its own, filled once when the page comes alive and  *)
(* never read again from the cookie.  The server renders the first paint   *)
(* from the cookies of the request, so a page has a copy of its own too.   *)
(*                                                                         *)
(* A tab shows a public page (PublicShell.tsx) or one of the protected     *)
(* shell (Topbar.tsx), and goes from one to the other without a load: the  *)
(* ThemeToggle of the header is mounted anew, on a public page without the *)
(* cookie's theme.                                                         *)
(*                                                                         *)
(* Values older versions left in localStorage are promoted to cookies by   *)
(* the first read that finds no cookie.                                    *)
(***************************************************************************)
EXTENDS Naturals

CONSTANTS
  Tabs,        \* browser tabs
  Names,       \* the texts of the form: appName, orgName, logoUrl, contacts
  DefaultName, \* their defaults
  TooLong,     \* texts whose cookie passes the browser's size limit
  MaxClicks,   \* bound: clicks that set a preference
  BusyTabs,    \* bound: the tabs that visit /configuracao and public pages
  None,        \* no cookie, nothing in localStorage, no copy, no form
  Garbled      \* text that is not JSON

VARIABLES
  jar,       \* the cookies: [branding, sidebar, theme]
  storage,   \* localStorage of older versions: [branding, sidebar]
  tab,       \* the pages
  os,        \* prefers-color-scheme: "dark" or "light"
  clicked,   \* clicks that set a preference so far
  last,      \* the tab that last set each preference (history)
  wish       \* the fields the last step was meant to change (history)

prefVars == <<jar, storage, tab, os, clicked, last, wish>>

Scales == {90, 100, 110, 120, 130}
Configs == [name : Names, highContrast : BOOLEAN, fontSizeScale : Scales]
DEFAULT_BRANDING ==
  [name |-> DefaultName, highContrast |-> FALSE, fontSizeScale |-> 100]

\* { ...config, ...partial }
Merge(config, partial) ==
  [f \in DOMAIN config |-> IF f \in DOMAIN partial THEN partial[f] ELSE config[f]]

\* What an older version may have written: some of the fields of today.
Partials == {<<>>} \cup [{"name"} -> Names] \cup Configs

ASSUME PrefsAssumption ==
  /\ MaxClicks \in Nat /\ BusyTabs \subseteq Tabs
  /\ DefaultName \in Names \ TooLong
  /\ None \notin Partials \cup Tabs \cup {Garbled, "true", "false", "light", "dark"}
  /\ Garbled \notin Partials

\* parseBrandingCookie: the missing fields, or all of them, are the defaults.
parseBrandingCookie(raw) ==
  IF raw \in {None, Garbled} THEN DEFAULT_BRANDING ELSE Merge(DEFAULT_BRANDING, raw)

\* A page before and after it comes alive.  server is what its HTML was
\* rendered from, until then; the rest is the state of the tab.  Two fields are
\* history: asked, the fields edited since the form was last filled, and
\* behind, what another tab wrote since this page took it from the cookies.
\* place is "public" until the shell is drawn (its store of the sidebar has not
\* been read), then "shell" or, back on a public page, "left".
Preferences == {"branding", "sidebar", "theme"}
NoPage ==
  [stage |-> "closed", place |-> "public", server |-> None, branding |-> None,
   collapsed |-> FALSE,
   theme |-> [painted |-> None, explicit |-> None, had |-> {}, unaware |-> FALSE],
   form |-> None, asked |-> {}, behind |-> {}]
Live(t) == tab[t].stage = "live"

\* The theme of a page: painted is the data-theme of its <html>, explicit the
\* state of its ThemeToggle, had what the cookie has been since the load (a layout
\* of the shell rendered meanwhile holds one of them), and unaware that the toggle
\* was mounted with another theme than the cookie's and not clicked since (history).
CookieThemes == {None, "light", "dark"}
Themes == [painted : CookieThemes, explicit : CookieThemes,
           had : SUBSET CookieThemes, unaware : BOOLEAN]

\* The ThemeToggle of a page is mounted with the theme it is given.
Mounted(page, given) ==
  [page EXCEPT !.theme = [painted |-> page.theme.painted, explicit |-> given,
                          had |-> page.theme.had, unaware |-> given # jar.theme]]

PrefsTypeOK ==
  /\ jar \in [branding : Partials \cup {None, Garbled}, sidebar : {None, "true", "false"},
              theme : {None, "light", "dark"}]
  /\ storage \in [branding : Partials \cup {None, Garbled}, sidebar : {None, "true", "false"}]
  /\ DOMAIN tab = Tabs
  /\ \A t \in Tabs :
       /\ tab[t].stage \in {"closed", "served", "live"}
       /\ tab[t].place \in {"public", "shell", "left"} /\ tab[t].theme \in Themes
       /\ tab[t].branding \in Configs \cup {None} /\ tab[t].form \in Configs \cup {None}
       /\ (tab[t].branding # None) = Live(t)
  /\ os \in {"light", "dark"} /\ clicked \in 0..MaxClicks
  /\ last \in [Preferences -> Tabs \cup {None}]
  /\ wish \subseteq DOMAIN DEFAULT_BRANDING

\* What earlier visits left behind, a rolled-back release among them (bound:
\* values of an older version in both stores or in neither).
PrefsInit ==
  /\ jar \in [branding : {None, Garbled} \cup [{"name"} -> {DefaultName}],
              sidebar : {None, "true"}, theme : {None}]
  /\ storage \in [branding : {None, Garbled} \cup [{"name"} -> Names \ {DefaultName}],
                  sidebar : {None, "true"}]
  /\ jar.branding = Garbled => storage.branding = None
  /\ jar.sidebar = "true" => storage.sidebar = "true"
  /\ (storage.branding = None) = (storage.sidebar = None)
  /\ tab = [t \in Tabs |-> NoPage]
  /\ os = "light"
  /\ clicked = 0 /\ wish = {}
  /\ last = [p \in Preferences |-> None]

-----------------------------------------------------------------------------
(* Cookies and the promotion of older values.                               *)

\* writeCookie: the browser drops a cookie past its limit, silently.
Fits(c) == c.name \notin TooLong
writeCookie(old, c) == IF Fits(c) THEN c ELSE old

\* read() of both stores: what a page that comes alive takes.  Without a
\* cookie, migrateLegacyStorage promotes what it can parse.
Promotable == jar.branding = None /\ storage.branding \notin {None, Garbled}
readBranding ==
  IF Promotable THEN Merge(DEFAULT_BRANDING, storage.branding)
  ELSE parseBrandingCookie(jar.branding)
PromotableSidebar == jar.sidebar = None /\ storage.sidebar # None
readSidebar == "true" = IF PromotableSidebar THEN storage.sidebar ELSE jar.sidebar

\* Of these stores, those whose older value their first read promotes.
Promoted(stores) == {p \in stores :
  IF p = "branding" THEN Promotable ELSE PromotableSidebar}
migrateLegacyStorage(stores) ==
  LET ps == Promoted(stores)
  IN /\ jar' = [jar EXCEPT
          !.branding = IF "branding" \in ps THEN writeCookie(@, readBranding) ELSE @,
          !.sidebar = IF "sidebar" \in ps THEN storage.sidebar ELSE @]
     /\ storage' =
          [branding |-> IF "branding" \in ps THEN None ELSE storage.branding,
           sidebar |-> IF "sidebar" \in ps THEN None ELSE storage.sidebar]

-----------------------------------------------------------------------------
(* A page load.                                                             *)

\* The other tabs are behind with what t wrote from now on.
Behind(pages, t, written) ==
  [u \in Tabs |-> IF u = t \/ pages[u].stage = "closed" THEN pages[u]
                  ELSE [pages[u] EXCEPT !.behind = @ \cup written]]

\* Mutant of RootLayout: the server renders the defaults and leaves the cookie to the page.
DefaultsRendered == [branding |-> DEFAULT_BRANDING, theme |-> jar.theme]

\* What RootLayout and ProtectedLayout render, from the cookies of the request.
RootLayout == [branding |-> parseBrandingCookie(jar.branding), theme |-> jar.theme]
ProtectedLayout == [collapsed |-> jar.sidebar = "true", theme |-> jar.theme]

\* A page loads.  Topbar's ThemeToggle is given the theme of the cookie,
\* PublicShell's is not.
Load(t, place) ==
  LET page == [NoPage EXCEPT !.stage = "served", !.place = place,
                             !.server = RootLayout.branding,
                             !.collapsed = place = "shell" /\ ProtectedLayout.collapsed,
                             !.theme.painted = RootLayout.theme,
                             !.theme.had = {jar.theme}]
      given == IF place = "shell" THEN ProtectedLayout.theme ELSE None
  IN /\ tab' = [tab EXCEPT ![t] = Mounted(page, given)]
     /\ last' = [p \in Preferences |-> IF last[p] = t THEN None ELSE last[p]]
     /\ UNCHANGED <<jar, storage, os, clicked>>
     /\ wish' = {}

\* BrandingProvider and, in the shell, DashboardShell hydrate: the stores are read
\* for the first time, and what they say takes the place of what was rendered.
Stores(t) == IF tab[t].place = "shell" THEN {"branding", "sidebar"} ELSE {"branding"}
Hydrate(t) ==
  /\ tab[t].stage = "served"
  /\ tab' = Behind(
       [tab EXCEPT ![t] =
          [tab[t] EXCEPT !.stage = "live", !.server = None, !.branding = readBranding,
                         !.collapsed = IF tab[t].place = "shell" THEN readSidebar ELSE @,
                         !.behind = @ \ Stores(t)]],
       t, Promoted(Stores(t)))
  /\ migrateLegacyStorage(Stores(t))
  /\ wish' = {}
  /\ last' = [p \in Preferences |-> IF p \in Promoted(Stores(t)) THEN t ELSE last[p]]
  /\ UNCHANGED <<os, clicked>>

\* A link from the shell to a public page, which mounts PublicShell's toggle.
GoPublic(t) ==
  /\ Live(t) /\ tab[t].place = "shell" /\ tab[t].form = None
  /\ tab' = [tab EXCEPT ![t] = [Mounted(tab[t], None) EXCEPT !.place = "left"]]
  /\ UNCHANGED <<jar, storage, os, clicked, last>>
  /\ wish' = {}

\* A link, or the Back button, from a public page to the shell, which mounts
\* Topbar's toggle: with the theme of the cookie, or with that of a layout
\* rendered before, for an earlier visit or a prefetch.
Remounted(t) == {Mounted(tab[t], theme) : theme \in tab[t].theme.had}

\* ... for the first time since the load: the store of the sidebar is read.
EnterShell(t) ==
  /\ Live(t) /\ tab[t].place = "public"
  /\ \E page \in Remounted(t) :
       tab' = Behind(
         [tab EXCEPT ![t] = [page EXCEPT !.place = "shell", !.collapsed = readSidebar,
                                         !.behind = @ \ {"sidebar"}]],
         t, Promoted({"sidebar"}))
  /\ migrateLegacyStorage({"sidebar"})
  /\ last' = [p \in Preferences |-> IF p \in Promoted({"sidebar"}) THEN t ELSE last[p]]
  /\ UNCHANGED <<os, clicked>>
  /\ wish' = {}

\* ... or once more: the store has it.
ReturnToShell(t) ==
  /\ Live(t) /\ tab[t].place = "left"
  /\ \E page \in Remounted(t) :
       tab' = [tab EXCEPT ![t] = [page EXCEPT !.place = "shell"]]
  /\ UNCHANGED <<jar, storage, os, clicked, last>>
  /\ wish' = {}

-----------------------------------------------------------------------------
(* The branding.                                                            *)

Click == clicked < MaxClicks /\ clicked' = clicked + 1

SetBy(t, p) == last' = [last EXCEPT ![p] = t]

\* Mutant of Resync: the form keeps what it was first filled with.
FillOnce(page, config) == [page EXCEPT !.branding = config]

\* BrandingSettingsForm fills itself again whenever the branding of the tab
\* changes: see syncedBranding.
Resync(page, config) ==
  [page EXCEPT !.branding = config, !.asked = {},
               !.form = IF @ = None THEN None ELSE config]

\* updateBrandingStore: the tab's own copy is merged and written.
updateBrandingStore(t, partial, fields) ==
  LET config == Merge(tab[t].branding, partial)
  IN /\ Live(t) /\ Click
     /\ tab' = Behind([tab EXCEPT ![t] = Resync(@, config)], t, {"branding"})
     /\ jar' = [jar EXCEPT !.branding = writeCookie(@, config)]
     /\ wish' = fields
     /\ SetBy(t, "branding")
     /\ UNCHANGED <<storage, os>>

\* Mutant of resetBrandingStore: it leaves the value of the older version behind.
ResetTheCookie(t) ==
  /\ Live(t) /\ Click
  /\ tab' = Behind([tab EXCEPT ![t] = Resync(@, DEFAULT_BRANDING)], t, {"branding"})
  /\ jar' = [jar EXCEPT !.branding = None]
  /\ wish' = DOMAIN DEFAULT_BRANDING
  /\ SetBy(t, "branding")
  /\ UNCHANGED <<storage, os>>

\* The defaults come back and neither a cookie nor an older value stays.
resetBrandingStore(t) ==
  /\ Live(t) /\ Click
  /\ tab' = Behind([tab EXCEPT ![t] = Resync(@, DEFAULT_BRANDING)], t, {"branding"})
  /\ jar' = [jar EXCEPT !.branding = None]
  /\ storage' = [storage EXCEPT !.branding = None]
  /\ wish' = DOMAIN DEFAULT_BRANDING
  /\ SetBy(t, "branding")
  /\ UNCHANGED os

\* The buttons of the e-MAG bar.
setFont(t, scale) ==
  updateBrandingStore(t, [fontSizeScale |-> scale], {"fontSizeScale"})
increaseFontSize(t) ==
  tab[t].branding.fontSizeScale < 130 /\ setFont(t, tab[t].branding.fontSizeScale + 10)
decreaseFontSize(t) ==
  tab[t].branding.fontSizeScale > 90 /\ setFont(t, tab[t].branding.fontSizeScale - 10)
toggleHighContrast(t) ==
  updateBrandingStore(t, [highContrast |-> ~tab[t].branding.highContrast], {"highContrast"})
EMagAccessibilityBar(t) ==
  /\ Live(t)
  /\ \/ toggleHighContrast(t)
     \/ increaseFontSize(t)
     \/ decreaseFontSize(t)
     \/ setFont(t, 100)

\* The form of /configuracao.  Its page may be left with edits not saved.
OpenForm(t) ==
  /\ t \in BusyTabs /\ Live(t) /\ tab[t].place = "shell" /\ tab[t].form = None
  /\ tab' = [tab EXCEPT ![t] = [tab[t] EXCEPT !.form = tab[t].branding]]
  /\ UNCHANGED <<jar, storage, os, clicked, last>>
  /\ wish' = {}
LeaveForm(t) ==
  /\ tab[t].form # None
  /\ tab' = [tab EXCEPT ![t] = [tab[t] EXCEPT !.form = None, !.asked = {}]]
  /\ UNCHANGED <<jar, storage, os, clicked, last>>
  /\ wish' = {}

handleBrandingChange(t, text) ==
  /\ tab[t].form # None /\ tab[t].form.name # text
  /\ tab' = [tab EXCEPT ![t] =
       [tab[t] EXCEPT !.form = [tab[t].form EXCEPT !.name = text],
                      !.asked = @ \cup {"name"}]]
  /\ UNCHANGED <<jar, storage, os, clicked, last>>
  /\ wish' = {}

\* handleSave of the form writes the whole form, the fields it does not show included.
handleBrandingSave(t) ==
  /\ Live(t) /\ tab[t].form # None
  /\ updateBrandingStore(t, tab[t].form, tab[t].asked)

\* "Restaurar padroes", confirmed in the dialog.
doReset(t) == tab[t].form # None /\ resetBrandingStore(t)

\* What the fields and buttons of the form call.
BrandingSettingsForm(t) ==
  \/ \E text \in Names : handleBrandingChange(t, text)
  \/ handleBrandingSave(t)
  \/ doReset(t)

-----------------------------------------------------------------------------
(* The sidebar and the theme.                                               *)

\* setSidebarCollapsed: the default leaves no cookie behind.
setSidebarCollapsed(t, next) ==
  /\ tab' = Behind([tab EXCEPT ![t].collapsed = next], t, {"sidebar"})
  /\ jar' = [jar EXCEPT !.sidebar = IF next THEN "true" ELSE None]
  /\ SetBy(t, "sidebar")

toggleSidebar(t) ==
  /\ Live(t) /\ tab[t].place = "shell" /\ Click
  /\ setSidebarCollapsed(t, ~tab[t].collapsed)
  /\ UNCHANGED <<storage, os>>
  /\ wish' = {}

\* ThemeToggle: without a theme of its own it follows the system.
ThemeOf(t) ==
  IF tab[t].theme.explicit = None THEN os ELSE tab[t].theme.explicit
Opposite(theme) == IF theme = "dark" THEN "light" ELSE "dark"

toggleTheme(t) ==
  LET next == Opposite(ThemeOf(t))
      knows(u) == [tab[u].theme EXCEPT !.had = @ \cup {next}]
  IN /\ Live(t) /\ Click
     /\ tab' = [u \in Tabs |->
          IF u = t THEN [tab[u] EXCEPT !.theme = [knows(u) EXCEPT
                           !.painted = next, !.explicit = next, !.unaware = FALSE]]
          ELSE IF tab[u].stage = "closed" THEN tab[u]
          ELSE [tab[u] EXCEPT !.theme = knows(u)]]
     /\ jar' = [jar EXCEPT !.theme = next]
     /\ SetBy(t, "theme")
     /\ UNCHANGED <<storage, os>>
     /\ wish' = {}

\* The system changes its preference: usePrefersDark is told.
PrefersDark ==
  /\ Click
  /\ os' = Opposite(os)
  /\ UNCHANGED <<jar, storage, tab, last>>
  /\ wish' = {}

-----------------------------------------------------------------------------
PrefsNext ==
  \/ PrefersDark
  \/ \E t \in Tabs :
       \/ Load(t, "shell") \/ Hydrate(t)
       \/ t \in BusyTabs /\ (Load(t, "public") \/ GoPublic(t))
       \/ EnterShell(t) \/ ReturnToShell(t)
       \/ EMagAccessibilityBar(t)
       \/ OpenForm(t) \/ LeaveForm(t) \/ BrandingSettingsForm(t)
       \/ toggleSidebar(t) \/ toggleTheme(t)

-----------------------------------------------------------------------------
(* Properties.                                                              *)

\* A page never swaps what the server painted for something else when it
\* comes alive ("sem troca visível logo após a hidratação"): it does so only
\* if another tab wrote in between, or an older value is promoted right then.
NoFlash ==
  [][\A t \in Tabs :
       tab[t].stage = "served" /\ tab'[t].stage = "live" =>
         /\ tab'[t].branding = tab[t].server \/ "branding" \in tab[t].behind \/ Promotable
         /\ \/ tab'[t].collapsed = tab[t].collapsed
            \/ "sidebar" \in tab[t].behind \/ PromotableSidebar]_prefVars

\* The theme a page is painted in, and its toggle with it.
Agrees(theme, kept) ==
  theme.painted = kept /\ (theme.unaware \/ theme.explicit = kept)

\* What the tab that set a preference last shows is what the next page load
\* will show, whatever was in localStorage before and however the tab went
\* about the site since.  (A branding too long for a cookie is not kept, and
\* expanding the sidebar does not clear the value of an older version that a
\* rollback may have left beside the cookie.)  The toggle of the theme says so
\* too, until it is mounted again with another theme than the cookie's: with none
\* on a public page, or with that of an older layout.  The icon is wrong then
\* and a click may change nothing, against usePrefersDark.ts ("para o ícone do
\* botão concordar com o que a tela já está mostrando").
ReloadShowsLast ==
  /\ \A t \in Tabs : last["branding"] = t /\ Fits(tab[t].branding) =>
       readBranding = tab[t].branding
  /\ \A t \in Tabs : last["sidebar"] = t /\ storage.sidebar = None =>
       readSidebar = tab[t].collapsed
  /\ \A t \in Tabs : last["theme"] = t => Agrees(tab[t].theme, jar.theme)

\* A step changes no field of the kept branding but those its user set: saving
\* the form never takes the contrast or the font size back, a button of the
\* bar never writes what is only typed.  (A tab that is behind another writes
\* its whole copy and takes the other's changes back: nothing refreshes it.)
OnlyWhatWasAsked ==
  [][\A f \in DOMAIN DEFAULT_BRANDING :
       readBranding'[f] # readBranding[f] =>
         \/ f \in wish'
         \/ ~Fits(readBranding) \/ ~Fits(readBranding')
         \/ \E t \in Tabs : /\ last'["branding"] = t
                            /\ "branding" \in tab[t].behind \/ ~Fits(tab[t].branding)]_prefVars
=============================================================================
