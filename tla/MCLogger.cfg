SPECIFICATION Spec
CONSTANTS
  Loggers = {t1, t2}
  Setters = {t2, t3}
  Nobody = nobody
  Levels = {2, 4}
  Targets = {1, 2}
INVARIANTS
  WholeLines
PROPERTIES
  FilterOK
  LogReturns
