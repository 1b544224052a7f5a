----------------------------- MODULE Partitioner ------------------------------
(***************************************************************************)
(* The partitioners of FlashGraph (partitioner.h, partitioner.cpp): how    *)
(* vertex ids are split over the worker threads, in ranges dealt out in    *)
(* stripes (range_graph_partitioner, the one the graph index uses) or one  *)
(* by one (modulo_graph_partitioner).                                      *)
(*                                                                         *)
(* size_t and vertex_id_t are unsigned and wrap around; min and max of     *)
(* common_c.h take their arguments as long.  get_part_end and              *)
(* get_part_size depend on both.                                           *)
(***************************************************************************)
EXTENDS Integers, FiniteSets, FiniteSetsExt

CONSTANTS
    RangeSize,    \* RANGE_SIZE, a power of two
    NumParts,     \* the number of partitions, a power of two
    Word,         \* the number of values of an unsigned integer
    MaxVertices   \* the largest number of vertices to look at

ASSUME PartitionerAssumption ==
    /\ RangeSize \in Nat \ {0} /\ NumParts \in Nat \ {0}
    /\ MaxVertices \in Nat /\ Word \in Nat /\ 2 * (MaxVertices + RangeSize * NumParts) < Word

Part == 0 .. NumParts - 1
Stripe == RangeSize * NumParts

Unsigned(x) == x % Word
AsLong(x) == IF 2 * x >= Word THEN x - Word ELSE x
-------------------------------------------------------------------------------
(* range_graph_partitioner                                                 *)

RangeMap(id) == (id \div RangeSize) % NumParts

RangeMap2Loc(id) ==
    [part |-> (id \div RangeSize) % NumParts,
     off  |-> ((id \div RangeSize) \div NumParts) * RangeSize + (id % RangeSize)]

RangeLoc2Map(part, off) == (off \div RangeSize) * Stripe + part * RangeSize + (off % RangeSize)

\* Mutant: min compares its arguments as unsigned numbers.
RangePartEndUnsigned(part, tot) ==
    LET whole == (tot \div Stripe) * Stripe
        num == Unsigned(tot - whole - part * RangeSize)
        start == part * RangeSize + whole
    IN  Unsigned(IF num > 0 THEN start + Min({num, RangeSize}) ELSE start)

\* get_part_end: one after the last vertex of the partition, or, if the partition has none in
\* the last stripe, some id before its place in that stripe: num has wrapped around.
RangePartEnd(part, tot) ==
    LET whole == (tot \div Stripe) * Stripe
        num == Unsigned(tot - whole - part * RangeSize)
        start == part * RangeSize + whole
    IN  Unsigned(IF num > 0 THEN start + Min({AsLong(num), RangeSize}) ELSE start)

RangePartSize(part, tot) ==
    LET end == RangePartEnd(part, tot)
        ranges == end \div Stripe
        last == Unsigned(end - ranges * Stripe - part * RangeSize)
    IN  ranges * RangeSize + Max({0, AsLong(last)})

RangeVertices(part, tot) ==
    LET end == RangePartEnd(part, tot)
        starts == {s \in {part * RangeSize + k * Stripe : k \in 0 .. tot} : s < end}
    IN  UNION {s .. s + Min({RangeSize, end - s}) - 1 : s \in starts}
-------------------------------------------------------------------------------
(* modulo_graph_partitioner                                                *)

ModuloMap(id) == id % NumParts
ModuloMap2Loc(id) == [part |-> id % NumParts, off |-> id \div NumParts]
ModuloLoc2Map(part, off) == off * NumParts + part
ModuloPartSize(part, tot) == (tot - part + NumParts - 1) \div NumParts
ModuloVertices(part, tot) == {id \in {part + k * NumParts : k \in 0 .. tot} : id < tot}
===============================================================================
