CONSTANTS
  Keys = {k1, k2}
  MaxToggles = 3
  Closed = Closed
  Unknown = Unknown
  NoKey = NoKey
  i1 = i1
  i2 = i2
  c1 = c1
  Issuers = {i1, i2}
  Clients = {c1}
  Secrets = {s1}
  EnvConn <- MCEnvConn
  EnvSecret = envSecret
  NoConn = NoConn
  Blank = Blank
  Nothing = Nothing
  MaxEdits = 2
  Deps = {postgres, rabbitmq}
  MaxChanges = 4
  NoAnswer = NoAnswer
  NotShown = NotShown
  Tabs = {t1, t2}
  Names = {n0, n1, long}
  DefaultName = n0
  BusyTabs = {t1}
  TooLong = {long}
  MaxClicks = 2
  None = None
  Garbled = Garbled
  ToastIds = {1}
  AUTO_DISMISS_MS = 2
  MaxClock = 5
SPECIFICATION Spec
INVARIANTS
  FlagsAreTrue
  VerdictIsAboutTheForm
  
  CardsAreHonest
  ReloadShowsLast
  ToastsTakeTheirTime
PROPERTIES
  NoFlash
  OnlyWhatWasAsked
  EventuallyWarns
