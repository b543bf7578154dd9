SPECIFICATION SuiteSpec
CONSTANTS
  a = a
  b = b
  q1 = q1
  q2 = q2
  q3 = q3
  n1 = n1
  MaxUpstreams = 3
  NoUpstream = NoUpstream
  PoolQueries = {q1, q2, q3}
  NoQuery = NoQuery
  StartInflight = 1
  MaxInflight = 4
  Capacity = 3
  MinConns = 2
  MaxDials = 1
  Attempts = 2
  FirstID = 65535
  MaxOpened = 2
  Agents = {a, b}
  NoAgent = NoAgent
  Names = {n1}
  NoName = NoName
  NameOf <- OneName
  MaxIds = 2
  MaxKeys = 7
  MaxUses = 3
  NameRetries = 1
  RequireApproval = FALSE
  Budget <- SharedBudget
SYMMETRY Symmetry
INVARIANTS ForwardingInv PoolInv OneAgentPerNode
\* A resolver nobody asks stops.
CHECK_DEADLOCK FALSE
