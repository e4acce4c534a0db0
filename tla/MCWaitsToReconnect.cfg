CHECK_DEADLOCK FALSE

CONSTANTS
  BackoffMax = 4
  MaxMessages = 2

SPECIFICATION FairSpec

PROPERTIES
  WaitsToReconnect
