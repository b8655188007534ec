SPECIFICATION BuildSpec
CONSTANTS
  Sources <- mcSources
  Listings <- mcListings
  AsmLines <- mcAsmLines
  MaxEdits = 1
  Programs <- mcPrograms
  ConstLeaf = "BASE"
  ScanLines = 30
  NscAddr = 64
CHECK_DEADLOCK FALSE
INVARIANTS BuiltAsDocumented
