---------------------------- MODULE MCFileTrash -----------------------------
(* FileTrash for TLC: the values come from the configurations. *)
EXTENDS FileTrash, TLC

CONSTANTS i1, i2, f1, f2, f3

ItemSymmetry == Permutations(Items)
=============================================================================
