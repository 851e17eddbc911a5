\* Two scans without faults.
SPECIFICATION Spec
CONSTANTS
  w1 = w1
  w2 = w2
  s1 = s1
  s2 = s2
  Writers <- TwoWriters
  Stems <- TwoStems
  MaxCaptures = 3
  ManifestLimit = 3
  Faults = FALSE
INVARIANT
  EveryCaptureRefreshes
CHECK_DEADLOCK FALSE
