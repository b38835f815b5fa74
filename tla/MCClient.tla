------------------------------ MODULE MCClient ------------------------------
(* Symmetry for the safety runs of Client: requests, handlers and callables *)
(* are only ever compared with each other.                                  *)
EXTENDS Client, TLC

ClientSymmetry ==
  Permutations(Request) \cup Permutations(Handler) \cup Permutations(Closure)
=============================================================================
