SPECIFICATION Spec
CONSTANTS
  i1 = i1
  i2 = i2
  f1 = f1
  f2 = f2
  f3 = f3
  None = None
  Items = {i1, i2}
  Files = {f1, f2}
  FirstFile = f1
  MaxFaults = 1
INVARIANT RecoversFromRestart
CHECK_DEADLOCK FALSE
