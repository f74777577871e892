SPECIFICATION Spec
CONSTANTS
  p = p
  q = q
  s = s
  t = t
  u = u
  v = v
  Plugins = {p}
  Names = {p}
  Handles = {h1, h2, h3}
  NoHandle = NoHandle
  Persistent = {}
  Providers = {}
  Skipped = {}
  Grouped = {p}
  DependsOn <- NoDeps
  Auth <- NoDeps
  Callers = {c1}
  McpReloaders = {m}
  CtlReloaders = {w}
  Drains = TRUE
PROPERTIES ReloadsReturn 
