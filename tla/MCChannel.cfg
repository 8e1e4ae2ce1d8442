SPECIFICATION Spec
CONSTANTS
  kMessageCount = 5
INVARIANTS
  HandoverInv
  SentFirst
PROPERTIES
  Termination
  ImplementsFifo
  Delivers
