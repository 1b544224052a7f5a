---------------------------- MODULE MCGlobalCache ----------------------------
(* The page cache protocol on small instances. *)
EXTENDS GlobalCache, TLC
Symmetry == Permutations(Thread) \cup Permutations(Frame) \cup Permutations(Req)
==============================================================================
