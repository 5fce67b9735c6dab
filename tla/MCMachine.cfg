CONSTANTS
  h1 = h1
  h2 = h2
  c1 = c1
  c2 = c2
  p1 = p1
  p2 = p2
  Hosts = {h1, h2}
  Callers = {c1, c2}
  NoHost = NoHost
  Setups <- MCSetups
  Ports = {1, 2}
  Tries = 2
  Screens = {1}
  MaxStrangers = 1
  Commands = {p1, p2}
  TokenTries = 2
  HealthTries = 2
  MaxEvents = 1
  InspectFails = TRUE
  Jobs <- MCJobs
  Worlds <- MCWorlds
SPECIFICATION SidesSpec
INVARIANTS
  NothingLeftRunning
  CallersShareOne
  CommandsKeepTheirWord
PROPERTIES
  LaunchesTellStrangers
  RemovalsMindTheirOwn
CHECK_DEADLOCK FALSE
