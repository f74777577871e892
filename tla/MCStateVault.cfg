SPECIFICATION StateSpec
CONSTANTS
  CredKeys = {k, t}
  TokenKeys = {t}
  CredValues = {v, q}
  Unquoted <- MCUnquoted
  EnvVars = {}
  MaxCommands = 1
  MaxIssued = 3
  Rotates = {"rotating"}
  Modes = {"encrypted", "plain", "rotating", "app"}
  Candidates <- MCCandidates
  Ctls = {w1, w2}
  CtlCommands <- MCCtlCommands
  StartConfigs <- MCStartConfigs
  MaxCtlRuns = 3
  Targets = {"top", "deep"}
  InSub = {"deep"}
  Sources = {"src"}
  FileValues = {"x", "y", "big"}
  Oversized = {"big"}
  FileWriters = {f1, f2}
  FileReaders = {r1}
  WriteRequests <- MCWriteRequests
  MaxWrites = 2
  MaxCrashes = 1
  VaultPlugins <- MCVaultPlugins
  Passwords = {"p", "q"}
  VaultIds = {"dev"}
  VaultLoaders = {"l1", "l2"}
  MaxVaultSteps = 3
  ToolsOf <- MCToolsOf
  UrisOf <- MCUrisOf
  Grouped = {"a"}
  Reserved = {"plugin_list"}
  SurfaceSettings <- MCSurfaceSettings
  Reloaders = {"client", "watcher"}
  MaxEvents = 2
  Markdowns <- MCMarkdowns
  StartDocs <- MCStartDocs
  MaxCellReqs = 3
  Explorable = {"vault"}
CHECK_DEADLOCK FALSE
INVARIANT GroupFilesOpen
