SPECIFICATION Spec
CONSTANTS
  d1 = d1
  d2 = d2
  Ages = {0, 10, 730}
  Hits = {0, 1, 2}
  VTReports <- Reports
  AbuseScores = {0, 60}
  Confidences = {0, 100, 9500}
  Details <- Registrations
  NameSigns <- NameKinds
  NoReport = NoReport
  Domains = {d1, d2}
  NoDomain = NoDomain
  Popular = {d1}
  Providers = {}
  Old = {d1}
  QueueCap = 1
  FirstMode = "auto"
  MaxEvents = 3
  Names <- SiteNames
  Chain <- Chains
  RegisteredDomain <- Registrars
  Platforms = {"shop"}
  Private = {"printer"}
  BuiltinList <- BuiltIn
  Publications <- Databases
  Precedence <- ByRank
  Security = {"phishing"}
  None = None
  MaxChanges = 2
  MaxSyncs = 2
  MaxQueries = 2
INVARIANTS ScoringInv  
PROPERTY ReviewsStand
\* A control plane nobody calls stops.
CHECK_DEADLOCK FALSE
