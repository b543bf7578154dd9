SPECIFICATION RpFairSpec
CONSTANTS
  Policies = {empty, rules}
  NoRows = empty
  Forwarders = {direct, conditional}
  NoForwarders = direct
  Settings = {default, saved}
  NoSettings = default
  Absent = Absent
  empty = empty
  rules = rules
  direct = direct
  conditional = conditional
  default = default
  saved = saved
  Editable = {"policy", "settings"}
  Failures = {"apply"}
  MaxEdits = 3
  MaxMishaps = 1
  MaxSerial = 4
PROPERTY SettingsReachForce
CHECK_DEADLOCK FALSE
