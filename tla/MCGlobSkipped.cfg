SPECIFICATION ToolsSpec
CONSTANTS
  MaxRecords = 3
  MaxCalls = 2
  Files = {"a.dll", "b.dll"}
  MaxRows = 2
  Limit = 2
  Pids = {4, 5, 6}
  SystemPids = {0, 4}
  Directories <- SomeDirectories
  Flags <- SomeFlags
  Limits = {0, 1, 2}
  Tables <- SomeTables
  Confs <- SomeConfs
  Sources = {"A", "B"}
  Caplens = {60, 65499, 65520}
  MaxInput = 3
INVARIANT NoMatchMeansNone
CHECK_DEADLOCK FALSE
