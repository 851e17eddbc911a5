\* Two drives of which one has a device whose name begins with the other's.
SPECIFICATION Spec
CONSTANTS
  Contents <- MCContents
  NoBytes = "nobytes"
  Pe <- MCPe
  Names <- MCNames
  NoName <- Empty
  NotListed <- Unlisted
  SectionNames <- MCSections
  Disk <- MCDisk
  NumPages = 4
  LayoutProbes <- Probes31
  PeReadPages = 2
  EvidenceCap = 1
  ProcessName <- App
  Files <- FilesAlike
  PathsOf <- MCPathsOf
  Lower <- MCLower
  Drives <- DrivesAlike
  IgnoreProc <- Nothing
  IgnorePaths <- Nothing
  BaselineFps <- Nothing
  Tids = {"t1"}
  Targets <- TenTargets
  NewImages <- Nothing
  NewProtections <- Nothing
  NewContents <- Nothing
  MaxChanges = 0
INVARIANTS
  PathMismatchExact
