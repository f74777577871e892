SPECIFICATION ServicesSpec
CONSTANTS
  RateKeys = {a, b, c}
  RateCallers = {c1, c2}
  KeyBurst = 1
  GlobalBurst = 3
  MaxEntries = 2
  MaxBuckets = 4
  MaxRefills = 3
  Hosts = {"home", "sub", "idp", "other", "local"}
  Parents <- MCParents
  Refusable = {"local"}
  Registrations <- MCRegistrations
  InitDomains = {"other", "sub"}
  Execs = {"e1", "e2"}
  Inputs <- MCInputs
  ReadOnly = FALSE
  MaxDynamicDomains = 2
  MaxTotalDomains = 3
  MaxRetries = 1
  MaxRateRetries = 1
  MaxRedirects = 2
  SamlMaxLegs = 1
  MaxRegistrations = 2
  StatTools = {"s", "u"}
  StatPlugin <- MCStatPlugin
  StatWork <- MCStatWork
  Recorders = {g1, g2}
  MaxDay = 1
  MaxRecords = 2
  MaxStarts = 2
  Retentions = {0, 1}
  SdkKinds = {"tool", "unknown", "list", "read", "shutdown"}
  Handlers = {"init", "tool", "read"}
  MaxRequests = 2
  MaxServices = 2
CHECK_DEADLOCK FALSE
INVARIANTS KeyBudget HostsAnchored CredentialsStayHome MutationsOnce ViewsAgree ServedInContext
PROPERTIES ExecuteReturns RecordedIsSaved WaitEnds
