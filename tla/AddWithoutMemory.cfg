SPECIFICATION SpecOOM
CONSTANTS
  NUMBER_OF_TYPES = 4
  SType <- MCSType
  MEM_BLOCK_SIZE = 4
  MAX_STACK_VAR_SIZE = 3
  U32 = 12
  U64 = 20
  Undef = 7
  Types = {1, 3}
  Names = {1, 2}
  LongNames = {}
  Values <- MCValues
  DamageCells <- NoDamage
  MaxFaults = 0
  MaxCells = 11
INVARIANTS
  AddedIsReadable
CHECK_DEADLOCK FALSE
