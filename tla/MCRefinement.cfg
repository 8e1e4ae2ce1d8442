SPECIFICATION Spec
CONSTANTS
  NUMBER_OF_TYPES = 4
  SType <- MCSType
  MEM_BLOCK_SIZE = 4
  U32 = 12
  U64 = 20
  Undef = 7
  Types = {2, 3}
  Names = {1, 2, 3}
  LongNames = {3}
  Values <- MCValues
  DamageCells <- NoDamage
  MaxFaults = 0
  MaxCells = 11
PROPERTIES
  ImplementsDictionary
