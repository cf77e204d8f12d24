----------------------------- MODULE MCRateLimit -----------------------------
(***************************************************************************)
(* A small instance of RateLimit: two tokens and three ticks a minute.     *)
(***************************************************************************)
EXTENDS RateLimit, TLC

Identities ==
  Permutations(Users) \cup Permutations(Requests) \cup Permutations(Limiters)
=============================================================================
