SPECIFICATION SaveSpec
CONSTANTS
  Editors = {1, 2}
  Autosaving = {1}
  MaxPuts = 2
  MaxEdits = 5
  SaveOverlaps = {"typing"}
INVARIANT NothingDiscardedUnasked
CHECK_DEADLOCK FALSE
