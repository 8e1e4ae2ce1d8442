SPECIFICATION ViewsSpec
CONSTANTS
  NUMBER_OF_TYPES = 4
  SType <- MCSType
  MEM_BLOCK_SIZE = 9
  U32 = 100
  U64 = 100
  Undef = 7
  Objects = {o1, o2, o3}
  Blocks <- MCMoreBlocks
  MESSAGE = 2
  MESSAGEARRAY = 3
  Scalar = 1
  ScalarNames = {1}
  MessageNames = {2}
  ArrayNames = {3}
  Values <- MCTwoValues
  MaxCells = 24
  MaxCalls = 4
SYMMETRY Symmetry
INVARIANTS
  Faithful
CHECK_DEADLOCK FALSE
