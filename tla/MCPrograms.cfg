SPECIFICATION ProgramsSpec
CONSTANTS
  DefaultTries = 2
  Fds = {3, 4}
  BAD = 0
  MaxInbox = 1
  MaxPackets = 4
  ReadAhead = 2
  MaxTimeouts = 2
  MaxBytes = 4
  ReadSize = 3
  MaxPipe = 12
  MaxRecords = 3
  MaxCalls = 2
  Files = {"a.dll", "b.dll"}
  MaxRows = 2
  Limit = 2
  Pids = {4, 5, 6}
  SystemPids = {0, 4}
  Directories <- SomeDirectories
  Flags <- SomeFlags
  Limits = {0, 1, 2}
  Tables <- SomeTables
  Confs <- SomeConfs
  Sources = {"A", "B"}
  Caplens = {60, 65499, 65520}
  MaxInput = 3
INVARIANTS
  TypesOK
  OneCallback
  WaitsForAnswers
  SetsMatchKernel
  ReleasedAtExit
  LoopsReadToTheEnd
  CallsFindFirst
  Released
  DefinedUnlessFailed
  ListingsComplete
  RecordsRight
  ChecksumVerifies
PROPERTIES
  LoopsEnd
  DataIsRead
  FirstCallReturns
CHECK_DEADLOCK FALSE
