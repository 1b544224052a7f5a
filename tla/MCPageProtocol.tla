---------------------------- MODULE MCPageProtocol ----------------------------
(* The abstract page protocol on a small instance. *)
EXTENDS PageProtocol, TLC
Symmetry == Permutations(Frame) \cup Permutations(Req) \cup Permutations(Page)
===============================================================================
