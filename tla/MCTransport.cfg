SPECIFICATION Spec
CONSTANTS
  ToolCalls = {t1, t2}
  Lifecycle = {}
  Shutdowns = {s}
  WriteCalls = {t1}
  LocalWriters = {}
  DryRunCalls = {}
  Timed = {t1, t2, s}
  Sequential = TRUE
  Kinds = {"http_post"}
  PipeCap = 1
  MaxLines = 3
INVARIANTS
  TypeOK
  DeliveryIsSafe
  OwnResponse
  NoLeak
