SPECIFICATION Spec
CONSTANTS
  q1 = q1
  q2 = q2
  q3 = q3
  u1 = u1
  u2 = u2
  b1 = b1
  Queries = {q1, q2, q3}
  Names = {"n"}
  Upstreams = {u1, u2}
  Bounds = {b1}
  Off = Off
  Rest = {0, 1}
  Offered <- Changes
  Initial <- First
  None = None
  Failed = Failed
  Local = Local
  MaxItems = 1
  EvictionSample = 8
  MaxApplies = 1
  MaxChanges = 1
SYMMETRY QuerySymmetry
INVARIANTS CacheFollowsUpstreams OneExchange RefreshOnce NobodyStranded
PROPERTIES CacheMovesForward LiveEntriesStay
\* A resolver nobody asks stops.
CHECK_DEADLOCK FALSE
