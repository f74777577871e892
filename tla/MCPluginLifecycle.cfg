SPECIFICATION Spec
CONSTANTS
  p = p
  q = q
  s = s
  t = t
  u = u
  v = v
  Plugins = {p}
  Names = {p}
  Handles = {h1, h2, h3, h4}
  NoHandle = NoHandle
  Persistent = {p}
  Providers = {}
  Skipped = {}
  Grouped = {p}
  DependsOn <- NoDeps
  Auth <- NoDeps
  Callers = {c1, c2}
  McpReloaders = {m}
  CtlReloaders = {w}
  Drains = TRUE
SYMMETRY HandleSymmetry
INVARIANTS InFlightRunning NoOrphans OneProcess LoadedIsProxied
