\* One command after the other: baselines made, spoilt, made again and used, reports
\* compared; commands run out, so the system may stop.
SPECIFICATION Spec
CONSTANTS
  NoHash = nohash
  sh1 = sh1
  sh2 = sh2
  Shells <- OneShell
  FileNames <- MCFileNames
  Pids <- TwoProcesses
  Paths <- MCPaths
  Lower <- MCLower
  PathOf <- TwoPathOf
  SeverityOf <- OneSeverityOf
  Commands <- SequenceCommands
  MaxCommands = 3
  MaxChanges = 1
  Faults = TRUE
INVARIANTS
  BaselineHidesOnlyItsApp
  BaselineHidesWhatItSaw
  NewFindingRaisesAlarm
  DiffComparesFindings
CHECK_DEADLOCK FALSE
