\* One scan at a time, with calls that fail.
SPECIFICATION Spec
CONSTANTS
  w1 = w1
  w2 = w2
  s1 = s1
  s2 = s2
  Writers <- OneWriter
  Stems <- TwoStems
  MaxCaptures = 2
  ManifestLimit = 2
  Faults = TRUE
INVARIANT
  OneLinePerCapture
CHECK_DEADLOCK FALSE
