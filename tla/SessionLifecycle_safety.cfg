SPECIFICATION Spec
CONSTANTS
  t1 = t1  t2 = t2
  k1 = k1  k2 = k2  k3 = k3  k4 = k4
  Terminals = {t1}
  Attaches = {k1, k2, k3}
  NoAttach = NoAttach
  Backoffs = 2
  MaxSockets = 2
  MaxFaults = 3
  Reapers = TRUE
SYMMETRY AttachSymmetry
INVARIANTS EndedIsJustified NoOrphanClient NoDeadHandle DeadlinesAgree
PROPERTIES OnlyItsOwnExitDetaches KeepsContract
CHECK_DEADLOCK FALSE
