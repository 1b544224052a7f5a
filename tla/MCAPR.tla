--------------------------------- MODULE MCAPR ---------------------------------
(* The APR policy of one cell on small instances. *)
EXTENDS APR, TLC
Symmetry == Permutations(Page \ Boundary) \cup Permutations(Boundary)
================================================================================
