--------------------------- MODULE MCEmailBreaker ---------------------------
(***************************************************************************)
(* A small instance of EmailBreaker.                                       *)
(***************************************************************************)
EXTENDS EmailBreaker, TLC

CallerSymmetry == Permutations(Callers)
=============================================================================
