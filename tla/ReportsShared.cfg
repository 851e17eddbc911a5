\* Baselines made, rewritten and applied by two shells; commands run out, so the system may stop.
SPECIFICATION Spec
CONSTANTS
  NoHash = nohash
  sh1 = sh1
  sh2 = sh2
  Shells <- TwoShells
  FileNames <- MCFileNames
  Pids <- TwoProcesses
  Paths <- MCPaths
  Lower <- MCLower
  PathOf <- TwoPathOf
  SeverityOf <- MCSeverityOf
  Commands <- SharedCommands
  MaxCommands = 2
  MaxChanges = 0
  Faults = TRUE
INVARIANTS
  TypeOK
  NewFindingRaisesAlarm
  ZeroMeansWritten
CHECK_DEADLOCK FALSE
