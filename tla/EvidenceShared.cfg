\* Two scans on one directory; captures run out, so the system may stop.
SPECIFICATION Spec
CONSTANTS
  w1 = w1
  w2 = w2
  s1 = s1
  s2 = s2
  Writers <- TwoWriters
  Stems <- TwoStems
  MaxCaptures = 3
  ManifestLimit = 2
  Faults = TRUE
INVARIANTS
  TypeOK
  ManifestNamesCompleteFiles
  DoneEndsOneLine
  IndexFollowsLastCapture
PROPERTY
  ImplementsCaptureLog
CHECK_DEADLOCK FALSE
