SPECIFICATION Spec
CONSTANTS
  MaxOps = 2
  MaxHeld = 1
  MaxLines = 1
  MaxRequests = 3
PROPERTY KeysReachTheApp
CHECK_DEADLOCK FALSE
