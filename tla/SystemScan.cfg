\* Three processes besides the idle one, one of them protected; a scan that has returned stops.
SPECIFICATION Spec
CONSTANTS
  Procs = {idle, a, b, c}
  Openable = {a, b}
  Idle = idle
  NoProc = none
  Pids = {0, 1, 2}
  Tids = {10}
  MaxPids = 2
  Options <- MCOptions
INVARIANTS
  TypeOK
  EveryoneScanned
PROPERTIES
  FindingsOfOneProcess
  ScanSystemEnds
CHECK_DEADLOCK FALSE
