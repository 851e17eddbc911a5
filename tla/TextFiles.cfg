\* Two shells create directories of one tree; a command that has read its file stops.
SPECIFICATION Spec
CONSTANTS
  Shells = {a, b}
  Saver = a
  DirectoryOf <- MCDirectoryOf
  Denied <- MCDenied
  Documents <- MCDocuments
INVARIANTS
  TypeOK
  DirectoriesShared
  BaselineLoadsWhatWasSaved
  ReportLoadsWhatWasSaved
PROPERTIES
  ReadEnds
CHECK_DEADLOCK FALSE
