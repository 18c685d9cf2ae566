-------------------------------- MODULE Admin --------------------------------
(***************************************************************************)
(* The pages of an administrator, checked together: the feature flags, the *)
(* Keycloak settings, the monitoring, the preferences of the browser they  *)
(* are drawn in and the toasts over them.  They share the shell and the    *)
(* BFF but no state, so a behaviour follows one of them, chosen at the     *)
(* start.                                                                  *)
(***************************************************************************)
EXTENDS FeatureFlags, KeycloakSettings, Monitoring, Prefs, Toasts

VARIABLE panel  \* what this behaviour follows

vars == <<flagVars, keycloakVars, monitoringVars, prefVars, toastVars, panel>>

Panels == {"flags", "keycloak", "monitoring", "prefs", "toasts"}

AdminTypeOK ==
  /\ panel \in Panels
  /\ FlagsTypeOK /\ KeycloakTypeOK /\ MonitoringTypeOK /\ PrefsTypeOK
  /\ ToastsTypeOK

Init ==
  /\ FlagsInit /\ KeycloakInit /\ MonitoringInit /\ PrefsInit /\ ToastsInit
  /\ panel \in Panels
  \* what is not followed starts in one of its initial states
  /\ panel # "flags" => enabled = [k \in Keys |-> TRUE] /\ menu = Unknown
  /\ panel # "keycloak" => row = Nothing
  /\ panel # "monitoring" => up /\ healthy = Deps
  /\ panel # "prefs" =>
       jar.branding = None /\ jar.sidebar = None
       /\ storage = [branding |-> None, sidebar |-> None]

FlagsStep ==
  /\ panel = "flags" /\ FlagsNext
  /\ UNCHANGED <<keycloakVars, monitoringVars, prefVars, toastVars>>
KeycloakStep ==
  /\ panel = "keycloak" /\ KeycloakNext
  /\ UNCHANGED <<flagVars, monitoringVars, prefVars, toastVars>>
MonitoringStep ==
  /\ panel = "monitoring" /\ MonitoringNext
  /\ UNCHANGED <<flagVars, keycloakVars, prefVars, toastVars>>
PrefsStep ==
  /\ panel = "prefs" /\ PrefsNext
  /\ UNCHANGED <<flagVars, keycloakVars, monitoringVars, toastVars>>
ToastsStep ==
  /\ panel = "toasts" /\ ToastsNext
  /\ UNCHANGED <<flagVars, keycloakVars, monitoringVars, prefVars>>

Next ==
  /\ FlagsStep \/ KeycloakStep \/ MonitoringStep \/ PrefsStep \/ ToastsStep
  /\ UNCHANGED panel

\* /api/health and SWR's timer: answers come within seconds, polls every ten.
Poll ==
  /\ panel = "monitoring" /\ Swr
  /\ UNCHANGED <<flagVars, keycloakVars, prefVars, toastVars, panel>>

Spec == Init /\ [][Next]_vars /\ WF_vars(Poll)
=============================================================================
