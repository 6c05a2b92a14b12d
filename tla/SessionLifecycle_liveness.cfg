SPECIFICATION FairSpec
CONSTANTS
  t1 = t1  t2 = t2
  k1 = k1  k2 = k2  k3 = k3  k4 = k4
  Terminals = {t1}
  Attaches = {k1, k2, k3, k4}
  NoAttach = NoAttach
  Backoffs = 2
  MaxSockets = 1
  MaxFaults = 3
  Reapers = FALSE
PROPERTIES ServedOrEnded GoneIsEnded ClosedTabEnds UnattendedReattach
CHECK_DEADLOCK FALSE
