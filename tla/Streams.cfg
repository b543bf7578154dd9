SPECIFICATION Spec
CONSTANTS
  r1 = r1
  r2 = r2
  v1 = v1
  v2 = v2
  k1 = k1
  k2 = k2
  a1 = a1
  a2 = a2
  RingCap = 2
  NodeCap = 3
  ProcLogBatch = 2
  MaxLines = 3
  MaxBoots = 2
  MaxForgets = 1
  MaxLate = 1
  Resolvers = {r1}
  Nodes = {r1, r2}
  Viewers = {v1, v2}
  Kinds = {k1}
  Contents = {k1, k2}
  Unlabelled = Unlabelled
  NoVersion = NoVersion
  LiveBuffer = 1
  LiveSubQueue = 1
  MaxQueries = 2
  Clients = {v1, v2}
  Names = {k1}
  Registered = k2
  Hidden = Hidden
  NoClient = NoClient
  Policies <- SomePolicies
  DayLen = 2
  Overlap = 1
  MaxNow = 2
  MaxRows = 2
  MaxPolicies = 2
  ClientIPs = {v1, v2}
  Admins = {a1, a2}
  NodeNames = {r1}
  Lookers = {r1}
  HostNames = {r2}
  Everywhere = Everywhere
  Master = Master
  Unnamed = Unnamed
  Ticker = Ticker
  TTL = 2
  MaxTime = 1
  MaxEdits = 2
SYMMETRY Symmetry
INVARIANTS ProcLogsInv  PrivacyInv 
\* A system that nobody uses stops.
CHECK_DEADLOCK FALSE
