SPECIFICATION Spec
CONSTANTS
  a1 = a1
  n1 = n1
  Agents = {a1}
  NoAgent = NoAgent
  Names = {n1}
  NoName = NoName
  NameOf <- OneName
  MaxIds = 3
  MaxKeys = 7
  MaxUses = 3
  NameRetries = 1
  RequireApproval = FALSE
  Budget <- RenewOnceBudget
INVARIANT NoLockout
CHECK_DEADLOCK FALSE
