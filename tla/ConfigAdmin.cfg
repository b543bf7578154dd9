SPECIFICATION SuiteSpec
CONSTANTS
  r1 = r1
  r2 = r2
  k1 = k1
  k2 = k2
  s1 = s1
  s2 = s2
  owner1 = owner1
  empty = empty
  rules1 = rules1
  direct = direct
  conditional = conditional
  default = default
  saved = saved
  Policies = {empty, rules1}
  NoRows = empty
  Forwarders = {direct, conditional}
  NoForwarders = direct
  Settings = {default, saved}
  NoSettings = default
  Absent = Absent
  Editable = {"policy", "forwarders"}
  Failures = {"crash", "lost", "write", "apply", "reload", "read"}
  MaxEdits = 4
  MaxMishaps = 2
  MaxSerial = 4
  Readers = {r1, r2}
  Writers = {r1, r2}
  Keys = {k1}
  NTables = 2
  NoAnswer = NoAnswer
  MaxGen = 2
  MaxWrites = 1
  Rules = {k1, k2}
  Editors = {r1, r2}
  Ticker = Ticker
  MaxLists = 2
  Nodes = {s1, s2}
  Sites = {k1, k2}
  Integrations = {owner1}
  Calls = {r1, r2}
  MaxRows = 2
  Saves = {r1, r2}
  AuditMax = 1
SYMMETRY Symmetry
INVARIANTS    VersionSound
PROPERTIES KeepsPromise RenameKeepsServed UnmentionedStays
\* A control plane nobody calls stops.
CHECK_DEADLOCK FALSE
