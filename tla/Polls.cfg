SPECIFICATION SuiteSpec
CONSTANTS
  Policies = {empty, rules}
  NoRows = empty
  Forwarders = {direct, conditional}
  NoForwarders = direct
  Settings = {default, saved}
  NoSettings = default
  Absent = Absent
  empty = empty
  rules = rules
  direct = direct
  conditional = conditional
  default = default
  saved = saved
  Editable = {"policy", "forwarders", "settings", "pause", "maint"}
  Failures = {"crash", "lost"}
  MaxEdits = 4
  MaxMishaps = 2
  MaxSerial = 4
  a1 = a1
  n1 = n1
  Agents = {a1}
  NoAgent = NoAgent
  Names = {n1}
  NoName = NoName
  NameOf <- OneName
  MaxIds = 4
  MaxKeys = 8
  MaxUses = 0
  NameRetries = 1
  RequireApproval = TRUE
  Budget <- AgentBudget
INVARIANTS UnchangedIsInForce StoredInForce 
PROPERTIES ConfigInForce 
CHECK_DEADLOCK FALSE
