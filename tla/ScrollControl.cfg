SPECIFICATION FairSpec
CONSTANTS
  MaxOps = 1
  MaxHeld = 2
  MaxLines = 1
  MaxRequests = 4
INVARIANTS  KeysInOrder NoInputLost
PROPERTIES  DrainEnds
CHECK_DEADLOCK FALSE
