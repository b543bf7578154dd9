SPECIFICATION Spec
CONSTANTS
  r1 = r1
  r2 = r2
  r3 = r3
  a = a
  b = b
  s1 = s1
  Requests = {r1, r2, r3}
  Challenge = {a, b}
  NoToken = NoToken
  MaxSecrets = 2
  MaxLists = 2
  NCodes = 2
  MaxAttempts = 2
  CodeLimit = 2
  SwapTries = 2
  MaxStep = 2
  Clients = {r1, r2, r3}
  Bases = {a, b}
  Subjects = {s1}
  Nobody = Nobody
  MaxUsers = 4
  MaxRev = 2
SYMMETRY Symmetry
INVARIANTS SecondFactorInv AccountsInv
PROPERTIES CodesSpentOnce NewestProviderStays
\* A control plane nobody calls stops.
CHECK_DEADLOCK FALSE
