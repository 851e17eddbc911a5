\* A target that stands still, in many shapes.
SPECIFICATION Spec
CONSTANTS
  Contents <- MCContents
  NoBytes = "nobytes"
  Pe <- MCPe
  Names <- MCNames
  NoName <- Empty
  NotListed <- Unlisted
  SectionNames <- MCSections
  Disk <- MCDisk
  NumPages = 4
  LayoutProbes <- Probes31
  PeReadPages = 2
  EvidenceCap = 1
  ProcessName <- App
  Files <- FilesApart
  PathsOf <- MCPathsOf
  Lower <- MCLower
  Drives <- DrivesApart
  IgnoreProc <- Nothing
  IgnorePaths <- RawOnly
  BaselineFps <- AppOnlyFp
  Tids = {"t1"}
  Targets <- QuietTargets
  NewImages <- Nothing
  NewProtections <- Nothing
  NewContents <- Nothing
  MaxChanges = 0
INVARIANTS
  TypeOK
  ContextNeedsPrimary
  StillRegionsExact
  PathMismatchExact
