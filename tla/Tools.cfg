SPECIFICATION ToolsSpec
CONSTANTS
  Sources <- mcSources
  Listings <- mcListings
  AsmLines <- mcAsmLines
  MaxEdits = 1
  Programs <- mcPrograms
  ConstLeaf = "BASE"
  ScanLines = 5
  NscAddr = 64
  Gaps <- mcGaps
  ModuleNames <- mcModuleNames
  ProcNames <- mcProcNames
  MaxCalls = 1
  DataTop = 536870912
  DataSizes = {4, 8}
  WordBits = 4
  Plans <- MCPlans
  Frames <- MCFrames
  Table <- MCTable
  Procs <- MCProcs
  HitLimit = 4
  PassLimit = 5
  EmptyLimit = 2
  Comparators = 2
  LostLimit = 1
INVARIANTS SourceKept CodeMeantIt GatesSound ListingsTrue
INVARIANTS FormatKeeps ConstTrue SameVerdict RunSound PassesSound
PROPERTIES Terminated
