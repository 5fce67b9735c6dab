CONSTANTS
  o1 = o1
  o2 = o2
  Owners = {o1}
  Agent = Agent
  MaxCreds = 3
  MaxUpsets = 2
  Ttl = 3
  Idle = 6
  Every = 2
  Patience = 1
  Delivery = 1
  Lines <- MCLines
  Boxes <- MCBoxes
  Ports = {"9222", "9333"}
  MaxMoves = 1
  Served = {"own", "framed"}
  Queries <- MCQueries
  Room = 1
  SendMax = 2
SPECIFICATION PartsSpec
INVARIANTS
  HeldLeaseIsLive
  SpentCredentialsAreDead
  TakeoversLeadToTheHost
PROPERTIES
  NothingLingers
  RelayServesItsPanel
CHECK_DEADLOCK FALSE
