CONSTANTS
  Calls = {a1, a2}
  MaxRetries = 2
  lastCall = a2
  Closings = {f, r}
  Targets = {t1, t2, t3, t4}
  t1 = t1
  t2 = t2
  t3 = t3
  t4 = t4
  MaxLapses = 1
SPECIFICATION DriverSpec
INVARIANTS
  AnswersAreOwn
  NobodyIsStranded
  SentOnceUnlessIdempotent
  AttachedTabsAreAccountedFor
PROPERTIES
  ImplementsChannel
  EveryCallEnds
  TabsAreClosedOnlyWhenMeant
  FetchEnds
  LastPageSurvives
CHECK_DEADLOCK FALSE
