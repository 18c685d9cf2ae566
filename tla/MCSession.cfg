CONSTANTS
  Tabs = {t1, t2}
  MaxTime = 3
  Lifetimes = {2}
  Skew = 1
  Flight = 1
  Rotations = {TRUE}
  MaxLogins = 1
  MaxAnswers = 1
  NoCookie = NoCookie
SPECIFICATION Spec
INVARIANTS
  KnownExpiry
  NoBearerDiesInFlight
PROPERTIES
  NavigationNeverSpendsRefresh
  DeadSessionReachesLogin
