------------------------------ MODULE VertexQueue ------------------------------
(***************************************************************************)
(* The active vertices of one worker of the FlashGraph engine              *)
(* (worker_thread.h, worker_thread.cpp): the set that collects the         *)
(* vertices activated for the next level, a list that turns into a bitmap  *)
(* when it grows, and the queue of the current level, which reads that set *)
(* block by block in either direction (scan_pointer.h, bitmap.h) and hands *)
(* out vertically partitioned vertices once for every part.                *)
(*                                                                         *)
(* The queue is used under its lock, so an operation is one step.  Engine  *)
(* uses such a queue as a plain set of vertices; this is why it may.       *)
(***************************************************************************)
EXTENDS Integers, Sequences, SequencesExt, FiniteSets

CONSTANTS
    NumLocal,       \* vertices of the partition: local ids 0 .. NumLocal - 1
    NumBitsLong,    \* NUM_BITS_LONG
    MaxActiveV,     \* MAX_ACTIVE_V
    VertexBufSize,  \* VERTEX_BUF_SIZE, a multiple of NUM_BITS_LONG
    VPart,          \* the vertically partitioned vertices among them
    NumVParts,      \* graph_conf.get_num_vparts()
    Elevators,      \* the settings of graph_conf.get_elevator_enabled() to look at
    MaxLevel

Local == 0 .. NumLocal - 1

ASSUME SizesAssumption ==
    /\ NumLocal \in Nat /\ NumBitsLong \in Nat \ {0} /\ MaxActiveV \in Nat \ {0}
    /\ VertexBufSize \in Nat \ {0} /\ VertexBufSize % NumBitsLong = 0
    /\ VPart \subseteq Local /\ NumVParts \in Nat \ {0} /\ (NumVParts = 1 => VPart = {})
    /\ Elevators \subseteq BOOLEAN /\ MaxLevel \in Nat

NumLongs == (NumLocal + NumBitsLong - 1) \div NumBitsLong

VARIABLES
    next,      \* next_activated_vertices: an active_vertex_set
    queue,     \* curr_activated_vertices
    level,     \* the level, get_curr_level()
    elevator,
    activated, \* history: the vertices activated for the next level
    wanted,    \* history: the vertices active in this level
    got        \* history: what fetch has returned in this level

vars == <<next, queue, level, elevator, activated, wanted, got>>
-------------------------------------------------------------------------------
(* scan_pointer                                                            *)

NewPtr(size, forward) == [size |-> size, idx |-> IF forward THEN 0 ELSE size, forward |-> forward]
Remaining(p) == IF p.forward THEN p.size - p.idx ELSE p.idx

\* Mutant: the end of the range is not looked at.
MoveOn(p, dist) ==
    [p EXCEPT !.idx = IF p.forward THEN @ + dist ELSE IF @ >= dist THEN @ - dist ELSE 0]

Move(p, dist) ==
    [p EXCEPT !.idx = IF p.forward THEN Min({@ + dist, p.size})
                      ELSE IF @ >= dist THEN @ - dist ELSE 0]

\* The places a pointer passes when it moves from p to q.
Passed(p, q) == Min({p.idx, q.idx}) .. Max({p.idx, q.idx}) - 1

(* active_vertex_set: a list, or the longs of a bitmap                     *)

EmptySet == [v |-> <<>>, map |-> {}, ptr |-> NewPtr(0, TRUE)]

NumActiveIn(set) == IF set.v = <<>> THEN Cardinality(set.map) ELSE Len(set.v)

ActivateOne(set, id) ==
    IF set.map # {} THEN [set EXCEPT !.map = @ \cup {id}]
    ELSE IF Len(set.v) < MaxActiveV THEN [set EXCEPT !.v = Append(@, id)]
    ELSE [set EXCEPT !.map = {id} \cup ToSet(set.v), !.v = <<>>]

\* Mutant: the list stays when the vertices go into the bitmap.
ActivateManyBoth(set, ids) ==
    IF set.map # {} THEN [set EXCEPT !.map = @ \cup ToSet(ids)]
    ELSE IF Len(set.v) + Len(ids) < MaxActiveV THEN [set EXCEPT !.v = @ \o ids]
    ELSE [set EXCEPT !.map = ToSet(ids) \cup ToSet(set.v)]

ActivateMany(set, ids) ==
    IF set.map # {} THEN [set EXCEPT !.map = @ \cup ToSet(ids)]
    ELSE IF Len(set.v) + Len(ids) < MaxActiveV THEN [set EXCEPT !.v = @ \o ids]
    ELSE [set EXCEPT !.map = ToSet(ids) \cup ToSet(set.v), !.v = <<>>]

\* The vertices in the order of their ids: the i-th is the one with i - 1 smaller ones.
Sorted(ids) ==
    [i \in 1 .. Cardinality(ids) |-> CHOOSE x \in ids : Cardinality({y \in ids : y < x}) = i - 1]

\* finalize: the list is sorted and has no duplicates.
Finalized(set) == [set EXCEPT !.v = Sorted(ToSet(@))]

\* fetch_reset_active_vertices takes max vertices of the list, or whole longs of the
\* bitmap until it has max vertices or has seen all; the number of longs at a time is
\* max / NUM_BITS_LONG.  In the end the pointer has made as many moves as it takes.
FetchReset(set, max) ==
    IF set.v # <<>>
    THEN LET n == Min({max, Len(set.v)})
         IN  [ids |-> SubSeq(set.v, 1, n), set |-> [set EXCEPT !.v = SubSeq(@, n + 1, Len(@))]]
    ELSE LET after(k) == Move(set.ptr, k * (max \div NumBitsLong))
             bits(k) == {id \in set.map : id \div NumBitsLong \in Passed(set.ptr, after(k))}
             moves == Min({k \in 0 .. NumLongs :
                              Remaining(after(k)) = 0 \/ Cardinality(bits(k)) >= max})
         IN  [ids |-> Sorted(bits(moves)),
              set |-> [set EXCEPT !.map = @ \ bits(moves), !.ptr = after(moves)]]
-------------------------------------------------------------------------------
(* default_vertex_queue                                                    *)

Forward == IF elevator THEN level % 2 = 1 ELSE TRUE

\* What a vertex is to the worker: itself, or one of its parts.
Whole(ids) == [i \in DOMAIN ids |-> <<ids[i], 0>>]
PartOf(ids, part) == [i \in DOMAIN ids |-> <<ids[i], part + 1>>]

EmptyQueue == [set |-> EmptySet, buf |-> <<>>, ptr |-> NewPtr(0, TRUE), vparts |-> <<>>,
               currVPart |-> 0, num |-> 0]

\* init of a list of vertices
InitFromBuf(ids) ==
    LET whole == Sorted(ids \ VPart)
        vparts == Sorted(ids \cap VPart)
    IN  [set |-> EmptySet, buf |-> Whole(whole), ptr |-> NewPtr(Len(whole), TRUE), vparts |-> vparts,
         currVPart |-> 0, num |-> Len(whole) + Len(vparts) * NumVParts]

\* Mutant: vertically partitioned vertices are counted once only.
InitFromSetShort(set, forward) ==
    LET fin == Finalized(set)
        map == IF VPart = {} THEN fin.map ELSE fin.map \cup ToSet(fin.v)
        vparts == map \cap VPart
        rest == [v |-> IF VPart = {} THEN fin.v ELSE <<>>, map |-> map \ vparts,
                 ptr |-> NewPtr(NumLongs, forward)]
    IN  [EmptyQueue EXCEPT !.set = rest, !.vparts = Sorted(vparts), !.num = NumActiveIn(fin)]

\* init from the set of the vertices activated for this level: the partitioned ones leave
\* the set, which is read in the direction of this level.
InitFromSet(set, forward) ==
    LET fin == Finalized(set)
        map == IF VPart = {} THEN fin.map ELSE fin.map \cup ToSet(fin.v)
        vparts == map \cap VPart
        rest == [v |-> IF VPart = {} THEN fin.v ELSE <<>>, map |-> map \ vparts,
                 ptr |-> NewPtr(NumLongs, forward)]
        n == Cardinality(vparts)
    IN  [EmptyQueue EXCEPT !.set = rest, !.vparts = Sorted(vparts),
                           !.num = NumActiveIn(fin) - n + n * NumVParts]

FetchFromMap(q, forward) ==
    LET r == FetchReset(q.set, VertexBufSize)
    IN  [q EXCEPT !.set = r.set, !.buf = Whole(r.ids), !.ptr = NewPtr(Len(r.ids), forward)]

FetchVParts(q) ==
    IF q.currVPart >= NumVParts THEN q
    ELSE [q EXCEPT !.buf = PartOf(q.vparts, q.currVPart), !.ptr = NewPtr(Len(q.vparts), TRUE),
                   !.currVPart = @ + 1]

\* The buffer is filled when it is empty: from the set, then from the partitioned vertices.
Refill(q, forward) ==
    IF Remaining(q.ptr) > 0 THEN q
    ELSE LET r == FetchFromMap(q, forward)
         IN  IF r.buf = <<>> /\ r.vparts # <<>> THEN FetchVParts(r) ELSE r

\* Up to max vertices of the buffer; they are the ones the pointer passes.
Take(q, max) ==
    LET n == Min({max, Remaining(q.ptr)})
        p == Move(q.ptr, n)
    IN  [items |-> SubSeq(q.buf, Min({q.ptr.idx, p.idx}) + 1, Min({q.ptr.idx, p.idx}) + n),
         q |-> [q EXCEPT !.ptr = p]]

\* Mutant: a fetch that empties the buffer does not refill it, and the next one finds none.
FetchOnce(q, max, forward) ==
    IF q.num = 0 THEN [items |-> <<>>, q |-> q]
    ELSE LET a == Take(q, max)
         IN  [items |-> a.items, q |-> [a.q EXCEPT !.num = @ - Len(a.items)]]

\* default_vertex_queue::fetch
Fetch(q, max, forward) ==
    IF q.num = 0 THEN [items |-> <<>>, q |-> q]
    ELSE LET a == Take(q, max)
             b == Take(Refill(a.q, forward), max - Len(a.items))
             items == a.items \o b.items
         IN  [items |-> items, q |-> [b.q EXCEPT !.num = @ - Len(items)]]
-------------------------------------------------------------------------------
(* The operations of worker_thread                                         *)

Init ==
    /\ next = EmptySet /\ queue = EmptyQueue /\ level = 0
    /\ elevator \in Elevators
    /\ activated = {} /\ wanted = {} /\ got = <<>>

\* The queue is filled from a set of active vertices, which it exchanges for its own, empty one.
FillFromSet(set, forward) == queue' = InitFromSet(set, forward) /\ next' = queue.set

Fresh == level = 0 /\ wanted = {} /\ got = <<>> /\ activated = {}

\* start_all: every vertex is active.
StartAll ==
    /\ Fresh
    /\ FillFromSet([EmptySet EXCEPT !.map = Local], Forward)
    /\ wanted' = Local
    /\ UNCHANGED <<level, elevator, activated, got>>

\* Given vertices, or those a vertex_filter keeps.
StartVertices == \E S \in SUBSET Local \ {{}} :
    /\ Fresh
    /\ queue' = InitFromBuf(S)
    /\ wanted' = S
    /\ UNCHANGED <<next, level, elevator, activated, got>>

ActivateVertex == \E id \in Local :
    /\ wanted # {}
    /\ next' = ActivateOne(next, id)
    /\ activated' = activated \cup {id}
    /\ UNCHANGED <<queue, level, elevator, wanted, got>>

ActivateVertices == \E S \in SUBSET Local \ {{}} :
    /\ wanted # {}
    /\ next' = ActivateMany(next, Sorted(S))
    /\ activated' = activated \cup S
    /\ UNCHANGED <<queue, level, elevator, wanted, got>>

\* A worker, the owner or a thief, takes vertices from the queue.
FetchVertices == \E max \in 1 .. NumLocal :
    LET r == Fetch(queue, max, Forward)
    IN  /\ r.items # <<>>
        /\ queue' = r.q
        /\ got' = got \o r.items
        /\ UNCHANGED <<next, level, elevator, activated, wanted>>

\* enter_next_level; level goes up when the last worker is here, after the queues are filled.
EnterNextLevel ==
    /\ wanted # {} /\ queue.num = 0 /\ level < MaxLevel
    /\ FillFromSet(next, Forward)
    /\ level' = level + 1
    /\ wanted' = activated /\ activated' = {} /\ got' = <<>>
    /\ UNCHANGED elevator

Next == StartAll \/ StartVertices \/ ActivateVertex \/ ActivateVertices \/ FetchVertices \/ EnterNextLevel
Spec == Init /\ [][Next]_vars
-------------------------------------------------------------------------------
(* Properties                                                              *)

\* What a set of active vertices gives the workers to do.
Items(ids) == {<<id, 0>> : id \in ids \ VPart} \cup {<<id, k>> : id \in ids \cap VPart, k \in 1 .. NumVParts}

TypeOK ==
    /\ next.v \in Seq(Local) /\ Len(next.v) <= MaxActiveV /\ next.map \subseteq Local
    /\ ToSet(queue.buf) \subseteq Items(Local)
    /\ queue.ptr.idx \in 0 .. queue.ptr.size /\ queue.ptr.size = Len(queue.buf)
    /\ queue.set.ptr.idx \in 0 .. queue.set.ptr.size
    /\ queue.num \in Nat /\ level \in 0 .. MaxLevel
    /\ activated \subseteq Local /\ wanted \subseteq Local /\ ToSet(got) \subseteq Items(Local)

\* Whatever mixture of fetches empties the queue, in whichever direction, no vertex and no part
\* of a vertex is handed out twice, and none that is not active in this level; and num_active, the
\* number the workers and the barrier go by, counts what has not been handed out, so that
\* is_empty() is true when all the vertices of the level have been.
FetchedOnce ==
    /\ IsInjective(got) /\ ToSet(got) \subseteq Items(wanted)
    /\ queue.num = Cardinality(Items(wanted)) - Len(got)

\* A fetch from a queue that is not empty returns vertices: process_activated_vertices asserts
\* that the queue is empty when it got none.
NeverStuck == queue.num > 0 => Fetch(queue, 1, Forward).items # <<>>

\* The set for the next level holds the vertices activated so far, in one of its two forms,
\* whichever calls put them there and when it turned into a bitmap.
SetIsActivated ==
    /\ ToSet(next.v) \cup next.map = activated
    /\ next.v = <<>> \/ next.map = {}
===============================================================================
