SPECIFICATION ElfSpec
CONSTANTS
  Programs <- mcPrograms
  Menu <- mcMenu
  MaxDecls = 8
  Words <- mcWords
  MaxWords = 4
  Top = 100
  Sizes <- mcSizes
  AddrSteps <- mcAddrSteps
  LineSteps <- mcLineSteps
  MaxRows = 3
  Blocks <- mcBlocks
  BodyBlocks <- mcBodyBlocks
  Names <- mcNames
  BodyName = "..init"
  Commands <- mcCommands
CHECK_DEADLOCK FALSE
INVARIANTS ModulesDescribed StorageApart ListingKept FileSound
