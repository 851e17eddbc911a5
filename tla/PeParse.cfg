\* Whole, cut off and spoilt images; a parser that has returned stops.
SPECIFICATION Spec
CONSTANTS
  Buffers <- MCBuffers
  WordMax = 127
  Printable <- MCPrintable
  MZ = 90
  PE00 = 80
  Magic32 = 32
  Magic64 = 64
  MaxSections = 2
  MaxDescriptors = 3
  MaxThunks = 3
  MaxExports = 2
  MaxText = 3
INVARIANTS
  TypeOK
  ReadsInside
  LoadedNamesFound
  NothingElseFound
  OverlayBehindSections
PROPERTIES
  ParseReturns
CHECK_DEADLOCK FALSE
