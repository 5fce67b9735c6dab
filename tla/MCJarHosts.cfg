CONSTANTS
  Hosts <- MCHosts
  Up <- MCUp
  Suffixes <- MCSuffixes
  Addresses = {}
  Urls <- MCUrls
  PathUp <- MCPathUp
  Dir <- MCDir
  Settings <- MCSettings
  Offers <- MCOffers
  Jars <- MCJars
  MaxHops = 2
  MaxOthers = 1
  MaxBody = 2
  Procs = {a, b, c}
  Cookies = {k}
  MaxDeaths = 0
SPECIFICATION SidesSpec
SYMMETRY Symmetry
INVARIANTS
  OneHostPerProfile
CHECK_DEADLOCK FALSE
