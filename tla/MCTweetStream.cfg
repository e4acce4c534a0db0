CHECK_DEADLOCK FALSE

CONSTANTS
  BackoffMax = 5
  MaxMessages = 5

SPECIFICATION FairSpec

INVARIANTS
  HandedInOrder
  WaitsDouble

PROPERTIES
  Recovers
  CloseEnds
