SPECIFICATION SpecDamage
CONSTANTS
  NUMBER_OF_TYPES = 4
  SType <- MCSType
  MEM_BLOCK_SIZE = 3
  U32 = 12
  U64 = 20
  Undef = 7
  Types = {1, 3}
  Names = {1, 2}
  LongNames = {}
  Values <- MCFewValues
  DamageCells <- MCDamage
  MaxFaults = 1
  MaxCells = 10
INVARIANTS
  TypeOK
  LayoutInv
  GetInside
PROPERTIES
  RoundTrip
  ParseEnds
