SPECIFICATION Spec
CONSTANTS
  NUMBER_OF_TYPES = 4
  SType <- MCSType
  MEM_BLOCK_SIZE = 4
  U32 = 14
  U64 = 20
  Undef = 7
  Types = {1, 3}
  Names = {1, 2}
  LongNames = {}
  Values <- MCTwoValues
  DamageCells <- NoDamage
  MaxFaults = 0
  MaxCells = 10
INVARIANTS
  AddedIsReadable
