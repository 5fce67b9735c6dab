CONSTANTS
  Clients = {c1, c2}
  Profiles = {p, q}
  MaxBrowsers = 3
  Cap = 1
  Conns = {k1, k2}
  Targets = {t1, t2}
  ReqIds = {1}
  lastProfile = q
  lastTab = t2
SPECIFICATION BooksSpec
INVARIANTS
  ClientsKeepTheirBrowser
  CredentialsDieWithTheirBrowser
  HoldersCountLedgers
  OrphansHaveNoHolder
PROPERTY EveryRequestIsDecided
CHECK_DEADLOCK FALSE
