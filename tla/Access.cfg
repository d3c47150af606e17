SPECIFICATION AccessSpec
CONSTANTS
  c1 = c1  c2 = c2  p1 = p1  p2 = p2  n1 = n1  n2 = n2
  one = one  other = other  who = who  whom = whom  h1 = h1  h2 = h2
  Callers = {c1, c2}
  Proxies = {p1, p2}
  Junk = junk
  Networks = {n1, n2}
  Addressings <- MCAddressings
  Headers <- MCHeaders
  Routes <- MCRoutes
  Token = 1  Budget = 2  Costs = {1, 2, 3}
  PruneEvery = 2  MaxRetry = 2  MaxTime = 4
  Members = {"ada", "bob"}
  Boot = "bob"
  Founders = {"ada"}
  Calls = {one, other}
  Given = {"user", "admin"}
  MaxSessions = 2  MaxPasswords = 2  Changing = {"bob"}
  People = {who, whom}
  Handlers = {h1, h2}
  MaxRequests = 2  MaxTurns = 1
  Films = {1, 2}
  Bits <- MCBits
  BlockOf <- MCBlockOf
  Prints <- MCPrints
  Scene <- MCScene
  MaxEdits = 1
  Parts = {"limiter", "accounts", "removal", "fit", "lookup"}
SYMMETRY Interchangeable
INVARIANTS
  AccessTypeOK
  LimiterIsHonest
  RevokedSessionsEnd
  ReportsAreFair
  LookupsAreExact
PROPERTIES
  LimiterRefinesBudget
  DeletionLeavesAnAdmin
CHECK_DEADLOCK FALSE
