SPECIFICATION CrossSpec
CONSTANTS
  NUMBER_OF_TYPES = 4
  SType <- MCSType
  MEM_BLOCK_SIZE = 3
  U32 = 2000
  U64 = 2000
  Undef = 7
  MESSAGE = 2
  TEXT = 3
  Types = {1, 2}
  Names = {1}
  LongNames = {}
  Values <- MCValues
  DamageCells <- MCDamage
  MaxFaults = 1
  MaxCells = 12
  PyNames = {1, 3, 4, 5, 6}
  Encoded <- MCEncoded
  Unencodable = {6}
  NotText <- MCNotText
INVARIANTS
  SameReading
PROPERTIES
  RoundTrip
  PyRoundTrip
