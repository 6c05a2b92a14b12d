SPECIFICATION ViewsSpec
CONSTANTS
  v1 = v1
  v2 = v2
  Primary = Primary
  Views = {v1, v2}
  MaxViewFaults = 2
INVARIANT OnlyCloseEndsSession
CHECK_DEADLOCK FALSE
