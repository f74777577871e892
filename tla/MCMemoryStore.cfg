SPECIFICATION Spec
CONSTANTS
  Clients = {c1, c2}
  Namespaces = {jira}
  Keys = {k1, k2}
  Values = {v, big}
  TooLarge = {big}
  TTLs = {0, 1}
  MaxPerNS = 1
  MaxTime = 3
INVARIANTS
  CountsExact
  WithinLimit
PROPERTIES
  LiveEntriesKept
  ExpiredCollected
