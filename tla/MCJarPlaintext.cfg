CONSTANTS
  Hosts <- MCHosts
  Up <- MCUp
  Suffixes <- MCSuffixes
  Addresses = {}
  Urls <- MCUrls
  PathUp <- MCPathUp
  Dir <- MCDir
  Settings <- MCSettings
  Offers <- MCOffers
  Jars <- MCJars
  MaxHops = 2
  MaxOthers = 1
  MaxBody = 2
  Procs = {a, b, c}
  Cookies = {k}
  MaxDeaths = 1
SPECIFICATION SidesSpec
PROPERTY SecureCookiesSurvivePlaintext
CHECK_DEADLOCK FALSE
