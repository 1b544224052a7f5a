------------------------------- MODULE MCEngine -------------------------------
(* Engine on a graph of three vertices in two partitions.                  *)
EXTENDS Engine, TLC

CONSTANTS v1, v2, v3

MCOwner == v1 :> 0 @@ v2 :> 0 @@ v3 :> 1
MCEdges == v1 :> {v3} @@ v2 :> {} @@ v3 :> {v2}
===============================================================================
