-------------------------- MODULE MCScrollControl --------------------------
(* ScrollControl for TLC: a few gestures and inputs on one terminal. *)
EXTENDS ScrollControl
=============================================================================
