SPECIFICATION Spec
CONSTANTS
  p = p
  q = q
  s = s
  t = t
  u = u
  v = v
  Plugins = {p}
  Names = {p}
  Handles = {h1, h2}
  NoHandle = NoHandle
  Persistent = {p}
  Providers = {}
  Skipped = {}
  Grouped = {}
  DependsOn <- NoDeps
  Auth <- NoDeps
  Callers = {}
  McpReloaders = {m}
  CtlReloaders = {w}
  Drains = TRUE
SYMMETRY HandleSymmetry
INVARIANTS ReloadEnables
