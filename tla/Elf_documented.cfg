SPECIFICATION ElfSpec
CONSTANTS
  Programs <- mcWhole
  Menu <- mcNoMenu
  MaxDecls = 0
  Words <- mcWords
  MaxWords = 4
  Top = 100
  Sizes <- mcSizes
  AddrSteps <- mcAddrSteps
  LineSteps <- mcLineSteps
  MaxRows = 3
  Blocks <- mcBlocks
  BodyBlocks <- mcBodyBlocks
  Names <- mcNames
  BodyName = "..init"
  Commands <- mcCommands
CHECK_DEADLOCK FALSE
INVARIANTS TypesDescribed
