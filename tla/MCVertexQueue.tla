---------------------------- MODULE MCVertexQueue -----------------------------
(* VertexQueue on one partition of a small graph: the partition the range  *)
(* partitioner gives a worker, whose local ids are what its queue holds.   *)
EXTENDS VertexQueue, Partitioner

MCNumLocal == RangePartSize(1, 19)

\* The partitions of all graphs looked at.  A queue for NumLocal vertices holds the local ids of
\* the smaller ones too: those with a part of a range, a whole range or nothing in the last stripe.
Places == (0 .. MaxVertices) \X Part

\* The local ids a worker activates and hands out are the vertices of its partition, whatever the
\* number of vertices and the partition: loc2map takes them to vertices that map and map2loc send
\* back to this partition and this local id, and when all local ids below get_part_size are started
\* these are all vertices of the partition, no more and no less, and the ones that
\* get_all_vertices_in_part lists.
VerticesAreOwn == \A p \in Places : LET tot == p[1]  part == p[2] IN
    /\ \A off \in wanted \cup activated :
          /\ RangeMap2Loc(RangeLoc2Map(part, off)) = [part |-> part, off |-> off]
          /\ ModuloMap2Loc(ModuloLoc2Map(part, off)) = [part |-> part, off |-> off]
    /\ wanted = 0 .. RangePartSize(part, tot) - 1 =>
          /\ {RangeLoc2Map(part, off) : off \in wanted} = {id \in 0 .. tot - 1 : RangeMap(id) = part}
          /\ {RangeLoc2Map(part, off) : off \in wanted} = RangeVertices(part, tot)
    /\ wanted = 0 .. ModuloPartSize(part, tot) - 1 =>
          /\ {ModuloLoc2Map(part, off) : off \in wanted} = {id \in 0 .. tot - 1 : ModuloMap(id) = part}
          /\ {ModuloLoc2Map(part, off) : off \in wanted} = ModuloVertices(part, tot)
===============================================================================
