\* A target that changes twice during the scan.
SPECIFICATION Spec
CONSTANTS
  Contents <- MCContents
  NoBytes = "nobytes"
  Pe <- MCPe
  Names <- MCNames
  NoName <- Empty
  NotListed <- Unlisted
  SectionNames <- MCSections
  Disk <- MCDisk
  NumPages = 4
  LayoutProbes <- Probes31
  PeReadPages = 2
  EvidenceCap = 1
  ProcessName <- App
  Files <- FilesApart
  PathsOf <- MCPathsOf
  Lower <- MCLower
  Drives <- DrivesApart
  IgnoreProc <- Nothing
  IgnorePaths <- Nothing
  BaselineFps <- Nothing
  Tids = {"t1", "t2"}
  Targets <- LiveTargets
  NewImages <- MCNewImages
  NewProtections <- MCNewProtections
  NewContents <- MCNewContents
  MaxChanges = 2
INVARIANTS
  FindingsDisjoint
  ContextNeedsPrimary
  StillRegionsExact
  EvidenceBudget
PROPERTY
  ScanTerminates
