\* The same system, whose tids are given again.
SPECIFICATION Spec
CONSTANTS
  Procs = {idle, a, b, c}
  Openable = {a, b}
  Idle = idle
  NoProc = none
  Pids = {0, 1, 2}
  Tids = {10}
  MaxPids = 2
  Options <- MCOptions
INVARIANTS
  ThreadStartsOfProcess
CHECK_DEADLOCK FALSE
