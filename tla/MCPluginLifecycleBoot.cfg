SPECIFICATION Spec
CONSTANTS
  p = p
  q = q
  s = s
  t = t
  u = u
  v = v
  Plugins = {p, q, s, t, u, v}
  Names = {p, q, s, t, u, v}
  Handles = {h1, h2, h3, h4, h5}
  NoHandle = NoHandle
  Persistent = {p, q, s, u, v}
  Providers = {p, s}
  Skipped = {s}
  Grouped = {q}
  DependsOn <- QOnU
  Auth <- TOnS
  Callers = {c1}
  McpReloaders = {}
  CtlReloaders = {}
  Drains = TRUE
SYMMETRY HandleSymmetry
INVARIANTS NoOrphans
