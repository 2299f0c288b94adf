SPECIFICATION Spec
CONSTANTS
  Tabs = {t1, t2}
  Users = {ann, ben}
  Nobody = Nobody
  NoTab = NoTab
  Accounts = {ann, ben}
  MaxTokens = 2
  MaxLoads = 1
  MaxRequests = 2
SYMMETRY Symmetry
INVARIANTS
  TypeOK
  CacheIsOfUser
  WaitsForAnAnswer
PROPERTIES
  ValidTokenKept
  RedirectIsHonest
