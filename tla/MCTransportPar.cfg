SPECIFICATION Spec
CONSTANTS
  ToolCalls = {t1, t2}
  Lifecycle = {}
  Shutdowns = {}
  WriteCalls = {t1, t2}
  LocalWriters = {t2}
  DryRunCalls = {t2}
  Timed = {t1, t2}
  Sequential = FALSE
  Kinds = {"http_post", "cache_set", "file_write"}
  PipeCap = 1
  MaxLines = 2
INVARIANTS
  
  WritesAuthorised
