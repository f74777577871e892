SPECIFICATION Spec
CONSTANTS
  ToolCalls = {t1}
  Lifecycle = {q}
  Shutdowns = {}
  WriteCalls = {t1}
  LocalWriters = {}
  DryRunCalls = {}
  Timed = {t1}
  Sequential = TRUE
  Kinds = {"http_get"}
  PipeCap = 1
  MaxLines = 2
PROPERTIES
  ImplementsRequestReply
  ExitWakesWaiters
