------------------------- MODULE MCSessionLifecycle -------------------------
EXTENDS SessionLifecycle, TLC

CONSTANTS t1, t2, k1, k2, k3, k4

AttachSymmetry == Permutations(Attaches)
=============================================================================
