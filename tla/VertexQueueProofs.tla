--------------------------- MODULE VertexQueueProofs ---------------------------
(***************************************************************************)
(* The queue of active vertices, for every partition, every size of the    *)
(* list, the buffer and the longs of the bitmap and every number of        *)
(* vertical parts: each vertex that is active in a level is handed out     *)
(* once, a queue that is not empty never returns nothing, and the set for  *)
(* the next level holds what was activated, whichever form it takes.       *)
(***************************************************************************)
EXTENDS MCVertexQueue, FiniteSetTheorems, SequenceTheorems, TLAPS

-------------------------------------------------------------------------------
(* Numbers, sets and sequences                                             *)

\* The smaller and the larger of two numbers.
LEMMA MinMaxPair == ASSUME NEW a \in Int, NEW b \in Int
                    PROVE /\ Min({a, b}) = IF a <= b THEN a ELSE b
                          /\ Max({a, b}) = IF a <= b THEN b ELSE a
<1>1. \E x \in {a, b} : \A y \in {a, b} : x <= y
  BY SMT
<1>2. \E x \in {a, b} : \A y \in {a, b} : x >= y
  BY SMT
<1>3. Min({a, b}) \in {a, b} /\ \A y \in {a, b} : Min({a, b}) <= y
  BY <1>1 DEF Min
<1>4. Max({a, b}) \in {a, b} /\ \A y \in {a, b} : Max({a, b}) >= y
  BY <1>2 DEF Max
<1> QED BY <1>3, <1>4

\* A sequence without duplicates has as many elements as it is long.
LEMMA LenInjective == ASSUME NEW S, NEW s \in Seq(S), IsInjective(s)
                      PROVE IsFiniteSet(ToSet(s)) /\ Cardinality(ToSet(s)) = Len(s)
<1>1. Len(s) \in Nat /\ s \in [1 .. Len(s) -> S] /\ DOMAIN s = 1 .. Len(s)
  BY LenProperties
<1>2. s \in [1 .. Len(s) -> ToSet(s)] /\ \A t \in ToSet(s) : \E i \in 1 .. Len(s) : s[i] = t
  BY <1>1 DEF ToSet
<1>3. s \in Surjection(1 .. Len(s), ToSet(s)) /\ s \in Injection(1 .. Len(s), ToSet(s))
  BY <1>2 DEF Surjection, Injection
<1>4. IsFiniteSet(1 .. Len(s)) /\ Cardinality(1 .. Len(s)) = Len(s)
  BY <1>1, FS_Interval, SMTT(30)
<1> QED BY <1>3, <1>4, FS_Surjection

\* A set of numbers as a sequence in their order: its elements, each of them once.
LEMMA SortedSeq == ASSUME NEW ids, ids \subseteq Nat, IsFiniteSet(ids)
                   PROVE /\ Sorted(ids) \in Seq(ids) /\ Len(Sorted(ids)) = Cardinality(ids)
                         /\ ToSet(Sorted(ids)) = ids /\ IsInjective(Sorted(ids))
<1> DEFINE n == Cardinality(ids)
           Below(x) == {y \in ids : y < x}
           rank == [x \in ids |-> Cardinality(Below(x)) + 1]
           Pick(i) == CHOOSE x \in ids : Cardinality(Below(x)) = i - 1
<1>1. n \in Nat
  BY FS_CardinalityType
<1>2. ASSUME NEW x \in ids PROVE IsFiniteSet(Below(x)) /\ Cardinality(Below(x)) \in 0 .. n - 1
  <2>1. IsFiniteSet(Below(x)) /\ Cardinality(Below(x)) <= n /\ (n = Cardinality(Below(x)) => ids = Below(x))
    BY FS_Subset
  <2>2. ids # Below(x)
    OBVIOUS
  <2> QED BY <1>1, <2>1, <2>2, FS_CardinalityType
<1>3. ASSUME NEW x \in ids, NEW y \in ids, x < y PROVE Cardinality(Below(x)) < Cardinality(Below(y))
  <2>1. \A z \in ids : z \in Int /\ (z < x => z < y) /\ ~(x < x)
    BY <1>3
  <2>2. Below(x) \subseteq Below(y) /\ x \in Below(y) /\ x \notin Below(x)
    BY <1>3, <2>1
  <2>3. Cardinality(Below(x)) <= Cardinality(Below(y)) /\ Cardinality(Below(y)) # Cardinality(Below(x))
    BY <1>2, <2>2, FS_Subset
  <2> QED BY <1>1, <1>2, <2>3
<1>4. \A x, y \in ids : Cardinality(Below(x)) = Cardinality(Below(y)) => x = y
  <2> TAKE x \in ids, y \in ids
  <2>1. Cardinality(Below(x)) \in Int /\ Cardinality(Below(y)) \in Int
    BY <1>1, <1>2
  <2>2. x \in Nat /\ y \in Nat
    OBVIOUS
  <2>3. CASE x < y
    BY <1>3, <2>1, <2>3
  <2>4. CASE y < x
    BY <1>3, <2>1, <2>4
  <2> QED BY <2>2, <2>3, <2>4
<1>5. rank \in [ids -> 1 .. n] /\ \A x \in ids : rank[x] = Cardinality(Below(x)) + 1
  BY <1>1, <1>2
<1>6. rank \in Injection(ids, 1 .. n)
  <2>1. \A x, y \in ids : rank[x] = rank[y] => x = y
    <3> TAKE x \in ids, y \in ids
    <3>1. Cardinality(Below(x)) \in Int /\ Cardinality(Below(y)) \in Int
      BY <1>1, <1>2
    <3> QED BY <1>4, <1>5, <3>1
  <2> QED BY <1>5, <2>1 DEF Injection, IsInjective
<1>7. rank \in Surjection(ids, 1 .. n)
  <2>1. IsFiniteSet(1 .. n) /\ Cardinality(1 .. n) = n
    BY <1>1, FS_Interval
  <2> QED BY <1>6, <2>1, FS_Injection
<1>8. ASSUME NEW i \in 1 .. n PROVE Pick(i) \in ids /\ Cardinality(Below(Pick(i))) = i - 1
  <2>1. PICK x \in ids : rank[x] = i
    BY <1>7 DEF Surjection
  <2>2. Cardinality(Below(x)) = i - 1
    BY <1>1, <1>2, <1>5, <2>1
  <2> QED BY <2>2
<1>9. Sorted(ids) = [i \in 1 .. n |-> Pick(i)]
  BY DEF Sorted
<1>10. ASSUME NEW x \in ids PROVE \E i \in 1 .. n : Pick(i) = x
  <2>1. rank[x] \in 1 .. n /\ Cardinality(Below(x)) = rank[x] - 1
    BY <1>1, <1>2, <1>5
  <2> QED BY <1>4, <1>8, <2>1
<1> HIDE DEF n, Below, rank, Pick
<1>11. Sorted(ids) \in [1 .. n -> ids] /\ DOMAIN Sorted(ids) = 1 .. n
  BY <1>8, <1>9
<1>12. Sorted(ids) \in Seq(ids) /\ Len(Sorted(ids)) = n
  BY <1>1, <1>11
<1>13. ToSet(Sorted(ids)) = ids
  BY <1>8, <1>9, <1>10, <1>11 DEF ToSet
<1>14. IsInjective(Sorted(ids))
  <2>1. \A i, j \in 1 .. n : Pick(i) = Pick(j) => i = j
    <3> TAKE i \in 1 .. n, j \in 1 .. n
    <3>1. Pick(i) = Pick(j) => i - 1 = j - 1
      BY <1>8
    <3> QED BY <1>1, <3>1
  <2> QED BY <1>9, <1>11, <2>1 DEF IsInjective
<1> QED BY <1>12, <1>13, <1>14 DEF n

\* The numbers of vertices are finite, whatever the partition.
LEMMA LocalFinite == IsFiniteSet(Local) /\ Local \subseteq Nat /\ \A S \in SUBSET Local : IsFiniteSet(S) /\ S \subseteq Nat
<1>1. IsFiniteSet(Local)
  BY SizesAssumption, FS_Interval DEF Local
<1>2. Local \subseteq Nat
  BY SizesAssumption DEF Local
<1> QED BY <1>1, <1>2, FS_Subset

\* How much a set of active vertices is to do: a vertex once, a partitioned one for every part.
LEMMA ItemsCount == ASSUME NEW S \in SUBSET Local
                    PROVE /\ IsFiniteSet(Items(S)) /\ Cardinality(S) \in Nat /\ Cardinality(S \cap VPart) \in Nat
                          /\ Cardinality(Items(S)) = Cardinality(S) - Cardinality(S \cap VPart)
                                                     + Cardinality(S \cap VPart) * NumVParts
<1> DEFINE whole == {<<id, 0>> : id \in S \ VPart}
           parts == {<<id, k>> : id \in S \cap VPart, k \in 1 .. NumVParts}
<1>1. IsFiniteSet(S) /\ IsFiniteSet(S \ VPart) /\ IsFiniteSet(S \cap VPart)
  BY LocalFinite
<1>2. Cardinality(S) \in Nat /\ Cardinality(S \cap VPart) \in Nat /\ Cardinality(S \ VPart) \in Nat
  BY <1>1, FS_CardinalityType
<1>3. Cardinality(S \ VPart) = Cardinality(S) - Cardinality(S \cap VPart)
  BY <1>1, FS_Difference
<1>4. IsFiniteSet({0}) /\ Cardinality({0}) = 1
  BY FS_Singleton
<1>5. IsFiniteSet(1 .. NumVParts) /\ Cardinality(1 .. NumVParts) = NumVParts
  BY SizesAssumption, FS_Interval
<1>6. whole = (S \ VPart) \X {0}
  OBVIOUS
<1>7. parts = (S \cap VPart) \X (1 .. NumVParts)
  OBVIOUS
<1>8. whole \cap parts = {}
  OBVIOUS
<1>9. Items(S) = whole \cup parts
  BY DEF Items
<1> HIDE DEF whole, parts
<1>10. IsFiniteSet(whole) /\ Cardinality(whole) = Cardinality(S \ VPart) * 1
  BY <1>1, <1>4, <1>6, FS_Product
<1>11. IsFiniteSet(parts) /\ Cardinality(parts) = Cardinality(S \cap VPart) * NumVParts
  BY <1>1, <1>5, <1>7, FS_Product
<1>12. Cardinality(whole \cap parts) = 0
  BY <1>8, FS_EmptySet
<1>13. Cardinality(S \cap VPart) * NumVParts \in Nat
  BY <1>2, SizesAssumption
<1>14. IsFiniteSet(Items(S)) /\ Cardinality(Items(S)) = Cardinality(whole) + Cardinality(parts) - Cardinality(whole \cap parts)
  BY <1>10, <1>11, <1>9, FS_Union
<1> QED BY <1>1, <1>2, <1>3, <1>10, <1>11, <1>12, <1>13, <1>14

\* A set of numbers has a least element.
LEMMA MinOfNats == ASSUME NEW K, K \subseteq Nat, K # {}
                   PROVE Min(K) \in K /\ \A y \in K : Min(K) <= y
<1>1. PICK x \in K : \A y \in K : ~(y < x)
  <2> DEFINE R == {ss \in Nat \X Nat : ss[1] < ss[2]}
  <2>1. IsWellFoundedOn(R, Nat)
    BY NatLessThanWellFounded DEF OpToRel
  <2> HIDE DEF R
  <2>2. PICK x \in K : \A y \in K : <<y, x>> \notin R
    BY <2>1, WFMin
  <2>3. \A y \in K : ~(y < x)
    BY <2>2 DEF R
  <2> QED BY <2>3
<1>2. \A y \in K : x <= y
  BY <1>1
<1> QED BY <1>2 DEF Min

\* n elements of a sequence, after the first m.
Piece(s, m, n) == SubSeq(s, m + 1, m + n)

\* The elements of a part of a sequence.
LEMMA PartOfSeq == ASSUME NEW S, NEW s \in Seq(S), IsInjective(s), NEW m \in Nat, NEW n \in Nat, m + n <= Len(s)
                   PROVE /\ Piece(s, m, n) \in Seq(S) /\ Len(Piece(s, m, n)) = n /\ IsInjective(Piece(s, m, n))
                         /\ \A x : x \in ToSet(Piece(s, m, n)) <=> \E i \in m + 1 .. m + n : x = s[i]
<1> DEFINE t == SubSeq(s, m + 1, m + n)
<1>1. Len(s) \in Nat /\ DOMAIN s = 1 .. Len(s) /\ \A i \in 1 .. Len(s) : s[i] \in S
  BY LenProperties, ElementOfSeq
<1>2. \A i \in m + 1 .. m + n : i \in 1 .. Len(s)
  BY <1>1
<1>3. /\ t \in Seq(S) /\ Len(t) = (IF m + 1 <= m + n THEN (m + n) - (m + 1) + 1 ELSE 0)
      /\ \A i \in 1 .. (m + n) - (m + 1) + 1 : t[i] = s[(m + 1) + i - 1]
  BY <1>1, <1>2, SubSeqProperties
<1>4. Len(t) = n /\ \A i \in 1 .. n : t[i] = s[m + i] /\ m + i \in m + 1 .. m + n
  BY <1>3
<1>5. t \in Seq(S) /\ DOMAIN t = 1 .. n
  BY <1>3, <1>4, LenProperties
<1> HIDE DEF t
<1>6. IsInjective(t)
  <2>1. \A i, j \in 1 .. n : t[i] = t[j] => m + i = m + j
    BY <1>1, <1>2, <1>4, SMTT(30) DEF IsInjective
  <2>2. \A i, j \in 1 .. n : t[i] = t[j] => i = j
    BY <2>1
  <2> QED BY <1>5, <2>2 DEF IsInjective
<1>7. \A i \in m + 1 .. m + n : i - m \in 1 .. n /\ m + (i - m) = i
  OBVIOUS
<1>8. ToSet(t) = {s[i] : i \in m + 1 .. m + n}
  <2>1. ToSet(t) = {t[i] : i \in 1 .. n}
    BY <1>5 DEF ToSet
  <2>2. \A i \in m + 1 .. m + n : i - m \in 1 .. n /\ s[i] = t[i - m]
    BY <1>4, <1>7
  <2> QED BY <1>4, <2>1, <2>2
<1> QED BY <1>4, <1>5, <1>6, <1>8 DEF t, Piece

\* One sequence after another.
Joined(s, t) == s \o t

\* Joining two sequences, and two without duplicates that have nothing in common.
LEMMA JoinedSeq == ASSUME NEW S, NEW s \in Seq(S), NEW t \in Seq(S)
                   PROVE /\ Joined(s, t) \in Seq(S) /\ Len(Joined(s, t)) = Len(s) + Len(t)
                         /\ \A x : x \in ToSet(Joined(s, t)) <=> x \in ToSet(s) \/ x \in ToSet(t)
                         /\ IsInjective(s) /\ IsInjective(t) /\ ToSet(s) \cap ToSet(t) = {} => IsInjective(Joined(s, t))
<1> DEFINE u == s \o t
<1>1. /\ Len(s) \in Nat /\ DOMAIN s = 1 .. Len(s) /\ Len(t) \in Nat /\ DOMAIN t = 1 .. Len(t)
  BY LenProperties
<1>2. /\ u \in Seq(S) /\ Len(u) = Len(s) + Len(t)
      /\ \A i \in 1 .. Len(s) + Len(t) : u[i] = IF i <= Len(s) THEN s[i] ELSE t[i - Len(s)]
  BY ConcatProperties
<1>3. DOMAIN u = 1 .. Len(s) + Len(t)
  BY <1>2, LenProperties
<1> HIDE DEF u
<1>4. ToSet(u) \subseteq ToSet(s) \cup ToSet(t)
  <2>1. ASSUME NEW i \in 1 .. Len(s) + Len(t) PROVE u[i] \in ToSet(s) \cup ToSet(t)
    <3>1. CASE i <= Len(s)
      BY <1>1, <1>2, <3>1, SMTT(30) DEF ToSet
    <3>2. CASE ~(i <= Len(s))
      <4>1. i - Len(s) \in 1 .. Len(t) /\ u[i] = t[i - Len(s)]
        BY <1>1, <1>2, <3>2
      <4> QED BY <1>1, <4>1 DEF ToSet
    <3> QED BY <3>1, <3>2
  <2> QED BY <1>3, <2>1 DEF ToSet
<1>5. ToSet(s) \subseteq ToSet(u)
  BY <1>1, <1>2, <1>3 DEF ToSet
<1>6. ToSet(t) \subseteq ToSet(u)
  <2>1. \A i \in 1 .. Len(t) : i + Len(s) \in 1 .. Len(s) + Len(t) /\ u[i + Len(s)] = t[i]
    BY <1>1, <1>2
  <2> QED BY <1>1, <1>3, <2>1 DEF ToSet
<1>7. ASSUME IsInjective(s), IsInjective(t), ToSet(s) \cap ToSet(t) = {} PROVE IsInjective(u)
  <2>1. \A i \in 1 .. Len(s), j \in 1 .. Len(t) : s[i] # t[j]
    BY <1>1, <1>7 DEF ToSet
  <2>2. ASSUME NEW i \in 1 .. Len(s) + Len(t), NEW j \in 1 .. Len(s) + Len(t), u[i] = u[j] PROVE i = j
    <3>1. CASE i <= Len(s) /\ j <= Len(s)
      BY <1>1, <1>2, <1>7, <2>2, <3>1 DEF IsInjective
    <3>2. CASE ~(i <= Len(s)) /\ ~(j <= Len(s))
      <4>1. i - Len(s) \in 1 .. Len(t) /\ j - Len(s) \in 1 .. Len(t)
        BY <1>1, <3>2
      <4>2. i - Len(s) = j - Len(s)
        BY <1>1, <1>2, <1>7, <2>2, <3>2, <4>1 DEF IsInjective
      <4> QED BY <1>1, <4>2
    <3>3. CASE i <= Len(s) /\ ~(j <= Len(s))
      <4>1. i \in 1 .. Len(s) /\ j - Len(s) \in 1 .. Len(t)
        BY <1>1, <3>3
      <4> QED BY <1>1, <1>2, <2>1, <2>2, <3>3, <4>1
    <3>4. CASE ~(i <= Len(s)) /\ j <= Len(s)
      <4>1. j \in 1 .. Len(s) /\ i - Len(s) \in 1 .. Len(t)
        BY <1>1, <3>4
      <4> QED BY <1>1, <1>2, <2>1, <2>2, <3>4, <4>1
    <3> QED BY <3>1, <3>2, <3>3, <3>4
  <2> QED BY <1>3, <2>2 DEF IsInjective
<1>8. ToSet(u) = ToSet(s) \cup ToSet(t)
  BY <1>4, <1>5, <1>6
<1> QED BY <1>2, <1>7, <1>8 DEF u, Joined

-------------------------------------------------------------------------------
(* The inductive invariant                                                 *)

PtrRec == [size : Nat, idx : Nat, forward : BOOLEAN]
SetRec == [v : Seq(Local), map : SUBSET Local, ptr : PtrRec]
QueueRec == [set : SetRec, buf : Seq(Items(Local)), ptr : PtrRec, vparts : Seq(VPart),
             currVPart : 0 .. NumVParts, num : Int]

\* What is still in the queue: in the buffer beyond its pointer, in the set, in the parts that
\* have not been put into the buffer.
BufIdx(q) == IF q.ptr.forward THEN q.ptr.idx + 1 .. q.ptr.size ELSE 1 .. q.ptr.idx
BufLeft(q) == {q.buf[i] : i \in BufIdx(q)}
SetIds(set) == ToSet(set.v) \cup set.map
SetLeft(set) == {<<id, 0>> : id \in SetIds(set)}
PartsLeft(q) == {<<id, k>> : id \in ToSet(q.vparts), k \in q.currVPart + 1 .. NumVParts}
Left(q) == BufLeft(q) \cup SetLeft(q.set) \cup PartsLeft(q)

\* A set that is being read is a list or a bitmap without partitioned vertices, and the bits
\* that are set are in the longs the pointer has not passed.
SetOK(set) ==
    /\ set.v = <<>> \/ set.map = {}
    /\ IsInjective(set.v)
    /\ SetIds(set) \cap VPart = {}
    /\ set.ptr.idx <= set.ptr.size /\ set.ptr.size <= NumLongs
    /\ \A id \in set.map : IF set.ptr.forward
                           THEN id \div NumBitsLong >= set.ptr.idx /\ id \div NumBitsLong < set.ptr.size
                           ELSE id \div NumBitsLong < set.ptr.idx

\* Nothing is in two places of the queue.
QueueOK(q) ==
    /\ SetOK(q.set)
    /\ IsInjective(q.buf) /\ q.ptr.size = Len(q.buf) /\ q.ptr.idx <= q.ptr.size
    /\ IsInjective(q.vparts)
    /\ BufLeft(q) \cap (SetLeft(q.set) \cup PartsLeft(q)) = {}

Types ==
    /\ next \in SetRec /\ queue \in QueueRec
    /\ level \in 0 .. MaxLevel /\ elevator \in BOOLEAN
    /\ activated \subseteq Local /\ wanted \subseteq Local /\ got \in Seq(Items(Local))

\* The queue holds what is active in this level and has not been handed out.
LeftIsRest == Left(queue) = Items(wanted) \ ToSet(got)

IInv ==
    /\ Types
    /\ Len(next.v) <= MaxActiveV
    /\ SetIsActivated
    /\ QueueOK(queue)
    /\ FetchedOnce
    /\ LeftIsRest

-------------------------------------------------------------------------------
(* Taking vertices from the buffer                                         *)

\* Take passes over as many places of the buffer as it can.
LEMMA TakeForm == ASSUME NEW q \in QueueRec, q.ptr.idx <= q.ptr.size, NEW max \in Nat
                  PROVE \E n \in Nat, lo \in Nat, p \in PtrRec :
                           /\ n = IF max <= Remaining(q.ptr) THEN max ELSE Remaining(q.ptr)
                           /\ Take(q, max) = [items |-> SubSeq(q.buf, lo + 1, lo + n), q |-> [q EXCEPT !.ptr = p]]
                           /\ p.size = q.ptr.size /\ p.forward = q.ptr.forward
                           /\ lo + n <= q.ptr.size /\ p.idx <= p.size
                           /\ IF q.ptr.forward THEN lo = q.ptr.idx /\ p.idx = lo + n
                              ELSE lo = p.idx /\ q.ptr.idx = lo + n
<1>1. q.ptr \in PtrRec
  BY DEF QueueRec
<1>2. q.ptr.size \in Nat /\ q.ptr.idx \in Nat /\ q.ptr.forward \in BOOLEAN
  BY <1>1 DEF PtrRec
<1>3. Remaining(q.ptr) \in Nat
  BY <1>2 DEF Remaining
<1> DEFINE n == Min({max, Remaining(q.ptr)})
           p == Move(q.ptr, n)
           lo == Min({q.ptr.idx, p.idx})
<1>4. n = (IF max <= Remaining(q.ptr) THEN max ELSE Remaining(q.ptr)) /\ n \in Nat
  BY <1>3, MinMaxPair
<1>5. Take(q, max) = [items |-> SubSeq(q.buf, lo + 1, lo + n), q |-> [q EXCEPT !.ptr = p]]
  BY DEF Take
<1>6. p \in PtrRec /\ p.size = q.ptr.size /\ p.forward = q.ptr.forward
      /\ p.idx = IF q.ptr.forward THEN q.ptr.idx + n ELSE q.ptr.idx - n
  <2> HIDE DEF n
  <2>1. CASE q.ptr.forward
    <3>1. q.ptr.idx + n <= q.ptr.size
      BY <1>2, <1>4, <2>1 DEF Remaining
    <3>2. Min({q.ptr.idx + n, q.ptr.size}) = q.ptr.idx + n
      BY <1>2, <1>4, <3>1, MinMaxPair
    <3>3. p = [q.ptr EXCEPT !.idx = q.ptr.idx + n]
      BY <2>1, <3>2 DEF Move
    <3>4. q.ptr.idx + n \in Nat
      BY <1>2, <1>4
    <3> HIDE DEF p
    <3> QED BY <1>1, <2>1, <3>3, <3>4 DEF PtrRec
  <2>2. CASE ~q.ptr.forward
    <3>1. n <= q.ptr.idx
      BY <1>2, <1>4, <2>2 DEF Remaining
    <3>2. p = [q.ptr EXCEPT !.idx = q.ptr.idx - n]
      BY <2>2, <3>1 DEF Move
    <3> QED BY <1>1, <1>2, <1>4, <2>2, <3>1, <3>2 DEF PtrRec
  <2> QED BY <2>1, <2>2
<1> HIDE DEF n, p
<1>7. /\ lo \in Nat /\ lo + n <= q.ptr.size /\ p.idx <= p.size
      /\ IF q.ptr.forward THEN lo = q.ptr.idx /\ p.idx = lo + n ELSE lo = p.idx /\ q.ptr.idx = lo + n
  <2>1. p.idx \in Nat
    BY <1>6 DEF PtrRec
  <2>2. lo = IF q.ptr.idx <= p.idx THEN q.ptr.idx ELSE p.idx
    BY <1>2, <2>1, MinMaxPair
  <2>3. n <= Remaining(q.ptr)
    BY <1>3, <1>4
  <2> HIDE DEF lo
  <2>4. CASE q.ptr.forward
    BY <1>2, <1>4, <1>6, <2>1, <2>2, <2>3, <2>4 DEF Remaining
  <2>5. CASE ~q.ptr.forward
    BY <1>2, <1>4, <1>6, <2>1, <2>2, <2>3, <2>5 DEF Remaining
  <2> QED BY <2>4, <2>5
<1> HIDE DEF lo
<1> QED BY <1>4, <1>5, <1>6, <1>7

\* What Take returns is no longer in the queue, and nothing else has left it.
LEMMA TakeStep == ASSUME NEW q \in QueueRec, QueueOK(q), NEW max \in Nat
                  PROVE LET r == Take(q, max)
                        IN  /\ r.q \in QueueRec /\ QueueOK(r.q) /\ r.q.num = q.num
                            /\ r.items \in Seq(Items(Local)) /\ IsInjective(r.items)
                            /\ ToSet(r.items) \subseteq Left(q) /\ Left(r.q) = Left(q) \ ToSet(r.items)
                            /\ Remaining(q.ptr) \in Nat
                            /\ Len(r.items) = IF max <= Remaining(q.ptr) THEN max ELSE Remaining(q.ptr)
<1>1. /\ q.ptr \in PtrRec /\ q.buf \in Seq(Items(Local)) /\ IsInjective(q.buf)
      /\ q.ptr.size = Len(q.buf) /\ q.ptr.idx <= q.ptr.size
  BY DEF QueueRec, QueueOK
<1>2. q.ptr.size \in Nat /\ q.ptr.idx \in Nat /\ q.ptr.forward \in BOOLEAN /\ Remaining(q.ptr) \in Nat
  BY <1>1 DEF PtrRec, Remaining
<1>3. PICK n \in Nat, lo \in Nat, p \in PtrRec :
        /\ n = IF max <= Remaining(q.ptr) THEN max ELSE Remaining(q.ptr)
        /\ Take(q, max) = [items |-> SubSeq(q.buf, lo + 1, lo + n), q |-> [q EXCEPT !.ptr = p]]
        /\ p.size = q.ptr.size /\ p.forward = q.ptr.forward
        /\ lo + n <= q.ptr.size /\ p.idx <= p.size
        /\ IF q.ptr.forward THEN lo = q.ptr.idx /\ p.idx = lo + n ELSE lo = p.idx /\ q.ptr.idx = lo + n
  BY <1>1, TakeForm
<1> DEFINE t == SubSeq(q.buf, lo + 1, lo + n)
           w == [q EXCEPT !.ptr = p]
<1>4. /\ t \in Seq(Items(Local)) /\ Len(t) = n /\ IsInjective(t)
      /\ \A x : x \in ToSet(t) <=> \E i \in lo + 1 .. lo + n : x = q.buf[i]
  <2>1. lo + n <= Len(q.buf) /\ q.buf \in Seq(Items(Local)) /\ IsInjective(q.buf)
    BY <1>1, <1>3
  <2>2. t = Piece(q.buf, lo, n)
    BY DEF Piece
  <2> HIDE DEF t
  <2>3. /\ Piece(q.buf, lo, n) \in Seq(Items(Local)) /\ Len(Piece(q.buf, lo, n)) = n /\ IsInjective(Piece(q.buf, lo, n))
        /\ \A x : x \in ToSet(Piece(q.buf, lo, n)) <=> \E i \in lo + 1 .. lo + n : x = q.buf[i]
    BY <2>1, PartOfSeq, ZenonT(40)
  <2> QED BY <2>2, <2>3, Zenon
<1>5. /\ w \in QueueRec /\ w.ptr = p /\ w.buf = q.buf /\ w.set = q.set /\ w.num = q.num
      /\ w.vparts = q.vparts /\ w.currVPart = q.currVPart
  BY <1>3 DEF QueueRec
<1>6. Take(q, max).items = t /\ Take(q, max).q = w
  BY <1>3, SMTT(30)
<1> HIDE DEF t, w
<1>7. SetLeft(w.set) = SetLeft(q.set) /\ PartsLeft(w) = PartsLeft(q)
  BY <1>5 DEF PartsLeft
<1>8. p.idx \in Nat
  BY <1>3 DEF PtrRec
<1>9. BufIdx(q) = BufIdx(w) \cup (lo + 1 .. lo + n) /\ BufIdx(w) \cap (lo + 1 .. lo + n) = {}
  <2>1. CASE q.ptr.forward
    <3>1. BufIdx(q) = lo + 1 .. q.ptr.size /\ BufIdx(w) = lo + n + 1 .. q.ptr.size
      BY <1>3, <1>5, <2>1 DEF BufIdx
    <3> QED BY <1>2, <1>3, <3>1, SMTT(30)
  <2>2. CASE ~q.ptr.forward
    <3>1. BufIdx(q) = 1 .. lo + n /\ BufIdx(w) = 1 .. lo
      BY <1>3, <1>5, <2>2 DEF BufIdx
    <3> QED BY <1>3, <3>1
  <2> QED BY <2>1, <2>2
<1>10. BufIdx(q) \subseteq 1 .. Len(q.buf) /\ DOMAIN q.buf = 1 .. Len(q.buf)
  BY <1>1, <1>2, LenProperties DEF BufIdx
<1>11. \A i, j \in BufIdx(q) : q.buf[i] = q.buf[j] => i = j
  BY <1>1, <1>10 DEF IsInjective
<1>12. BufLeft(w) = BufLeft(q) \ ToSet(t) /\ ToSet(t) \subseteq BufLeft(q)
  BY <1>4, <1>5, <1>9, <1>11 DEF BufLeft
<1>13. BufLeft(q) \cap (SetLeft(q.set) \cup PartsLeft(q)) = {}
  BY DEF QueueOK
<1>14. ToSet(t) \subseteq Left(q) /\ Left(w) = Left(q) \ ToSet(t)
  BY <1>7, <1>12, <1>13 DEF Left
<1>15. BufLeft(w) \cap (SetLeft(w.set) \cup PartsLeft(w)) = {}
  BY <1>7, <1>12, <1>13
<1>16. QueueOK(w)
  BY <1>1, <1>3, <1>5, <1>15 DEF QueueOK
<1> QED BY <1>2, <1>3, <1>4, <1>5, <1>6, <1>14, <1>16

-------------------------------------------------------------------------------
(* Reading the set of active vertices                                      *)

\* Quotient and remainder.
LEMMA DivNat == ASSUME NEW a \in Nat, NEW n \in Nat \ {0}
                PROVE a \div n \in Nat /\ a % n \in 0 .. n - 1 /\ a = n * (a \div n) + (a % n)
<1>1. a \div n \in Int /\ a % n \in Int
  OBVIOUS
<1>2. PICK q \in Int, r \in Int : q = a \div n /\ r = a % n
  BY <1>1
<1>3. r = a - n * q
  BY <1>2
<1>4. r >= 0 /\ r < n /\ q >= 0
  BY <1>2
<1>5. a = n * q + r /\ q \in Nat /\ r \in 0 .. n - 1
  BY <1>3, <1>4
<1> QED BY <1>2, <1>5, Zenon

\* A number as quotient and remainder.
LEMMA DivPick == ASSUME NEW a \in Nat, NEW n \in Nat \ {0} PROVE \E q \in Nat, r \in 0 .. n - 1 : a = n * q + r
<1>1. a \div n \in Nat /\ a % n \in 0 .. n - 1 /\ a = n * (a \div n) + (a % n)
  BY DivNat
<1> WITNESS a \div n \in Nat, a % n \in 0 .. n - 1
<1> QED BY <1>1

\* A buffer holds the bits of at least one long.
LEMMA LongsAtATime == /\ VertexBufSize \div NumBitsLong \in Nat \ {0} /\ NumLongs \in Nat
                      /\ \A id \in Local : id \div NumBitsLong \in Nat /\ id \div NumBitsLong < NumLongs
<1> USE SizesAssumption
<1>1. VertexBufSize \div NumBitsLong \in Nat
  BY DivNat
<1>2. VertexBufSize = NumBitsLong * (VertexBufSize \div NumBitsLong) + (VertexBufSize % NumBitsLong)
  BY DivNat
<1>3. VertexBufSize \div NumBitsLong # 0
  BY <1>1, <1>2
<1>4. NumLongs \in Nat
  BY DivNat DEF NumLongs
<1>5. ASSUME NEW id \in Local PROVE id \div NumBitsLong \in Nat /\ id \div NumBitsLong < NumLongs
  <2>1. id \in Nat /\ id < NumLocal
    BY DEF Local
  <2>2. id \div NumBitsLong \in Nat
    BY <2>1, DivNat
  <2>3. (id + NumBitsLong) \div NumBitsLong = id \div NumBitsLong + 1
    BY <2>1
  <2>4. id + NumBitsLong <= NumLocal + NumBitsLong - 1
    BY <2>1
  <2>5. (id + NumBitsLong) \div NumBitsLong <= NumLongs
    BY <2>1, <2>4 DEF NumLongs
  <2> QED BY <1>4, <2>2, <2>3, <2>5
<1> QED BY <1>1, <1>3, <1>4, <1>5

\* Moving a pointer: it stays in its range and passes the places between.
LEMMA MoveForm == ASSUME NEW p \in PtrRec, p.idx <= p.size, NEW d \in Nat
                  PROVE LET m == Move(p, d)
                        IN  /\ m \in PtrRec /\ m.size = p.size /\ m.forward = p.forward /\ m.idx <= m.size
                            /\ IF p.forward THEN m.idx = (IF p.idx + d <= p.size THEN p.idx + d ELSE p.size)
                               ELSE m.idx = IF d <= p.idx THEN p.idx - d ELSE 0
                            /\ Passed(p, m) = IF p.forward THEN p.idx .. m.idx - 1 ELSE m.idx .. p.idx - 1
                            /\ Remaining(m) = IF p.forward THEN p.size - m.idx ELSE m.idx
<1>1. p.size \in Nat /\ p.idx \in Nat /\ p.forward \in BOOLEAN
  BY DEF PtrRec
<1> DEFINE i == IF p.forward THEN (IF p.idx + d <= p.size THEN p.idx + d ELSE p.size)
                ELSE IF d <= p.idx THEN p.idx - d ELSE 0
           m == Move(p, d)
<1>2. i \in Nat /\ i <= p.size /\ (IF p.forward THEN p.idx <= i ELSE i <= p.idx)
  BY <1>1
<1>3. Min({p.idx + d, p.size}) = IF p.idx + d <= p.size THEN p.idx + d ELSE p.size
  BY <1>1, MinMaxPair
<1>4. m = [p EXCEPT !.idx = i]
  BY <1>1, <1>3 DEF Move
<1>i. i = IF p.forward THEN (IF p.idx + d <= p.size THEN p.idx + d ELSE p.size)
          ELSE IF d <= p.idx THEN p.idx - d ELSE 0
  OBVIOUS
<1> HIDE DEF m, i
<1>5. m \in PtrRec /\ m.size = p.size /\ m.forward = p.forward /\ m.idx = i
  BY <1>2, <1>4 DEF PtrRec
<1>6. Min({p.idx, m.idx}) = (IF p.forward THEN p.idx ELSE m.idx) /\ Max({p.idx, m.idx}) = (IF p.forward THEN m.idx ELSE p.idx)
  <2>1. m.idx \in Nat /\ (IF p.forward THEN p.idx <= m.idx ELSE m.idx <= p.idx)
    BY <1>2, <1>5
  <2>2. /\ Min({p.idx, m.idx}) = (IF p.idx <= m.idx THEN p.idx ELSE m.idx)
        /\ Max({p.idx, m.idx}) = (IF p.idx <= m.idx THEN m.idx ELSE p.idx)
    BY <1>1, <2>1, MinMaxPair
  <2> QED BY <1>1, <2>1, <2>2
<1>7. Passed(p, m) = IF p.forward THEN p.idx .. m.idx - 1 ELSE m.idx .. p.idx - 1
  BY <1>6 DEF Passed
<1>8. Remaining(m) = IF p.forward THEN p.size - m.idx ELSE m.idx
  BY <1>5 DEF Remaining
<1> QED BY <1>i, <1>2, <1>5, <1>7, <1>8 DEF m

\* What a read of the set returns is no longer in the set, nothing else has left it, and it
\* returns nothing only when there is nothing.
LEMMA FetchResetStep == ASSUME NEW set \in SetRec, SetOK(set)
                        PROVE LET r == FetchReset(set, VertexBufSize)
                              IN  /\ r.set \in SetRec /\ SetOK(r.set)
                                  /\ r.ids \in Seq(Local) /\ IsInjective(r.ids)
                                  /\ ToSet(r.ids) \cap SetIds(r.set) = {}
                                  /\ ToSet(r.ids) \cup SetIds(r.set) = SetIds(set)
                                  /\ r.ids = <<>> => SetIds(set) = {}
<1>1. /\ set.v \in Seq(Local) /\ set.map \subseteq Local /\ set.ptr \in PtrRec
  BY DEF SetRec
<1>2. /\ set.ptr.idx \in Nat /\ set.ptr.size \in Nat /\ set.ptr.forward \in BOOLEAN
  BY <1>1 DEF PtrRec
<1>3. CASE set.v # <<>>
  <2> DEFINE n == Min({VertexBufSize, Len(set.v)})
             ids == SubSeq(set.v, 1, n)
             rest == SubSeq(set.v, n + 1, Len(set.v))
             w == [set EXCEPT !.v = rest]
  <2>1. Len(set.v) \in Nat \ {0} /\ DOMAIN set.v = 1 .. Len(set.v)
    BY <1>1, <1>3, EmptySeq, LenProperties
  <2>2. n \in Nat /\ n > 0 /\ n <= Len(set.v)
    BY <2>1, MinMaxPair, SizesAssumption
  <2>3. FetchReset(set, VertexBufSize) = [ids |-> ids, set |-> w]
    BY <1>3 DEF FetchReset
  <2>4. IsInjective(set.v) /\ set.map = {}
    BY <1>3 DEF SetOK
  <2> HIDE DEF n
  <2>5. ids = Piece(set.v, 0, n) /\ rest = Piece(set.v, n, Len(set.v) - n)
    BY <2>1, <2>2 DEF Piece
  <2> HIDE DEF ids, rest
  <2>a. ASSUME NEW m \in Nat, NEW k \in Nat, m + k <= Len(set.v)
        PROVE /\ Piece(set.v, m, k) \in Seq(Local) /\ Len(Piece(set.v, m, k)) = k /\ IsInjective(Piece(set.v, m, k))
              /\ \A x : x \in ToSet(Piece(set.v, m, k)) <=> \E i \in m + 1 .. m + k : x = set.v[i]
    <3>1. set.v \in Seq(Local) /\ IsInjective(set.v)
      BY <1>1, <2>4
    <3> QED BY <2>a, <3>1, PartOfSeq, ZenonT(40)
  <2>6. /\ ids \in Seq(Local) /\ Len(ids) = n /\ IsInjective(ids)
        /\ \A x : x \in ToSet(ids) <=> \E i \in 0 + 1 .. 0 + n : x = set.v[i]
    <3>1. 0 \in Nat /\ 0 + n <= Len(set.v)
      BY <2>1, <2>2
    <3> QED BY <2>2, <2>5, <2>a, <3>1
  <2>7. /\ rest \in Seq(Local) /\ Len(rest) = Len(set.v) - n /\ IsInjective(rest)
        /\ \A x : x \in ToSet(rest) <=> \E i \in n + 1 .. n + (Len(set.v) - n) : x = set.v[i]
    <3> DEFINE c == Len(set.v) - n
    <3>1. c \in Nat /\ n + c <= Len(set.v)
      BY <2>1, <2>2
    <3>2. rest = Piece(set.v, n, c)
      BY <2>5
    <3> HIDE DEF c
    <3>3. /\ rest \in Seq(Local) /\ Len(rest) = c /\ IsInjective(rest)
          /\ \A x : x \in ToSet(rest) <=> \E i \in n + 1 .. n + c : x = set.v[i]
      BY <2>2, <2>a, <3>1, <3>2
    <3> QED BY <3>3 DEF c
  <2>8. w \in SetRec /\ w.v = rest /\ w.map = {} /\ w.ptr = set.ptr
    BY <1>1, <2>4, <2>7 DEF SetRec
  <2> HIDE DEF w
  <2>9. SetIds(w) = ToSet(rest) /\ SetIds(set) = ToSet(set.v)
    BY <2>4, <2>8 DEF SetIds
  <2>10. \A i \in 1 .. Len(set.v) : i \in 0 + 1 .. 0 + n \/ i \in n + 1 .. n + (Len(set.v) - n)
    BY <2>1, <2>2
  <2>11. \A i \in 0 + 1 .. 0 + n, j \in n + 1 .. n + (Len(set.v) - n) : i # j /\ i \in 1 .. Len(set.v) /\ j \in 1 .. Len(set.v)
    BY <2>1, <2>2
  <2>12. ToSet(set.v) = {set.v[i] : i \in 1 .. Len(set.v)}
    BY <2>1 DEF ToSet
  <2>13. \A i, j \in 1 .. Len(set.v) : set.v[i] = set.v[j] => i = j
    BY <2>1, <2>4 DEF IsInjective
  <2>14. ToSet(ids) \cap ToSet(rest) = {}
    <3> SUFFICES ASSUME NEW x, x \in ToSet(ids), x \in ToSet(rest) PROVE FALSE
      OBVIOUS
    <3>1. PICK i \in 0 + 1 .. 0 + n : x = set.v[i]
      BY <2>6
    <3>2. PICK j \in n + 1 .. n + (Len(set.v) - n) : x = set.v[j]
      BY <2>7
    <3> QED BY <2>11, <2>13, <3>1, <3>2
  <2>15. n \in 0 + 1 .. 0 + n /\ \A i \in 0 + 1 .. 0 + n : i \in 1 .. Len(set.v)
    BY <2>2, <2>1
  <2>16. \A j \in n + 1 .. n + (Len(set.v) - n) : j \in 1 .. Len(set.v)
    BY <2>2, <2>1
  <2>17. ToSet(ids) \cup ToSet(rest) = ToSet(set.v)
    BY <2>6, <2>7, <2>10, <2>12, <2>15, <2>16
  <2>18. SetOK(w)
    BY <2>7, <2>8, <2>9, <2>17 DEF SetOK
  <2>19. ids # <<>>
    BY <2>2, <2>6, EmptySeq
  <2> QED BY <2>3, <2>6, <2>8, <2>9, <2>14, <2>17, <2>18, <2>19
<1>4. CASE set.v = <<>>
  <2> DEFINE after(k) == Move(set.ptr, k * (VertexBufSize \div NumBitsLong))
             bits(k) == {id \in set.map : id \div NumBitsLong \in Passed(set.ptr, after(k))}
             K == {k \in 0 .. NumLongs : Remaining(after(k)) = 0 \/ Cardinality(bits(k)) >= VertexBufSize}
             moves == Min(K)
             w == [set EXCEPT !.map = @ \ bits(moves), !.ptr = after(moves)]
  <2>1. FetchReset(set, VertexBufSize) = [ids |-> Sorted(bits(moves)), set |-> w]
    BY <1>4 DEF FetchReset
  <2>2. set.ptr.idx <= set.ptr.size /\ set.ptr.size <= NumLongs
    BY DEF SetOK
  <2>3. ASSUME NEW k \in Nat PROVE k * (VertexBufSize \div NumBitsLong) \in Nat
    BY LongsAtATime
  <2>4. NumLongs \in K
    <3>1. NumLongs \in 0 .. NumLongs /\ NumLongs \in Nat
      BY LongsAtATime
    <3>2. NumLongs * (VertexBufSize \div NumBitsLong) >= NumLongs
      <4>1. PICK s \in Nat : VertexBufSize \div NumBitsLong = s + 1
        <5>1. VertexBufSize \div NumBitsLong - 1 \in Nat /\ VertexBufSize \div NumBitsLong = (VertexBufSize \div NumBitsLong - 1) + 1
          BY LongsAtATime
        <5> QED BY <5>1
      <4>2. NumLongs * s \in Nat /\ NumLongs * (s + 1) = NumLongs * s + NumLongs
        BY <3>1, <4>1
      <4> QED BY <3>1, <4>1, <4>2
    <3> DEFINE d == NumLongs * (VertexBufSize \div NumBitsLong)
               m == Move(set.ptr, d)
    <3>3. d \in Nat /\ d >= set.ptr.size /\ d >= set.ptr.idx
      BY <1>2, <2>2, <2>3, <3>1, <3>2
    <3>4. after(NumLongs) = m
      OBVIOUS
    <3> HIDE DEF d
    <3>5. /\ IF set.ptr.forward THEN m.idx = (IF set.ptr.idx + d <= set.ptr.size THEN set.ptr.idx + d ELSE set.ptr.size)
             ELSE m.idx = IF d <= set.ptr.idx THEN set.ptr.idx - d ELSE 0
          /\ Remaining(m) = IF set.ptr.forward THEN set.ptr.size - m.idx ELSE m.idx
      BY <1>1, <2>2, <3>3, MoveForm
    <3> HIDE DEF m
    <3>6. Remaining(m) = 0
      BY <1>2, <2>2, <3>3, <3>5
    <3> QED BY <3>1, <3>4, <3>6
  <2>5. moves \in 0 .. NumLongs /\ (Remaining(after(moves)) = 0 \/ Cardinality(bits(moves)) >= VertexBufSize)
    <3> HIDE DEF after, bits
    <3>1. K \subseteq Nat /\ K # {}
      BY <2>4
    <3> HIDE DEF K
    <3>2. moves \in K
      BY <3>1, MinOfNats
    <3> QED BY <3>2 DEF K
  <2> HIDE DEF K, moves
  <2>6. moves * (VertexBufSize \div NumBitsLong) \in Nat
    BY <2>3, <2>5
  <2> DEFINE m == after(moves)
             B == bits(moves)
  <2>7. /\ m \in PtrRec /\ m.size = set.ptr.size /\ m.forward = set.ptr.forward /\ m.idx <= m.size
        /\ Passed(set.ptr, m) = (IF set.ptr.forward THEN set.ptr.idx .. m.idx - 1 ELSE m.idx .. set.ptr.idx - 1)
        /\ Remaining(m) = IF set.ptr.forward THEN set.ptr.size - m.idx ELSE m.idx
    BY <1>1, <2>2, <2>6, MoveForm
  <2>8. B = {id \in set.map : id \div NumBitsLong \in Passed(set.ptr, m)}
    OBVIOUS
  <2>9. w = [set EXCEPT !.map = @ \ B, !.ptr = m]
    OBVIOUS
  <2>10. Remaining(m) = 0 \/ Cardinality(B) >= VertexBufSize
    BY <2>5
  <2> HIDE DEF m, B, after, bits, w
  <2>11. B \subseteq set.map /\ B \subseteq Local /\ IsFiniteSet(B) /\ B \subseteq Nat
    BY <1>1, <2>8, LocalFinite
  <2>12. w \in SetRec /\ w.v = <<>> /\ w.map = set.map \ B /\ w.ptr = m
    BY <1>1, <1>4, <2>7, <2>9 DEF SetRec
  <2>13. ToSet(<<>>) = {} /\ IsInjective(<<>>)
    BY DEF ToSet, IsInjective
  <2>14. SetIds(set) = set.map /\ SetIds(w) = set.map \ B
    BY <1>4, <2>12, <2>13 DEF SetIds
  <2>15. m.idx \in Nat
    BY <2>7 DEF PtrRec
  <2>16. ASSUME NEW id \in set.map
         PROVE /\ id \div NumBitsLong \in Nat
               /\ IF set.ptr.forward THEN id \div NumBitsLong >= set.ptr.idx /\ id \div NumBitsLong < set.ptr.size
                  ELSE id \div NumBitsLong < set.ptr.idx
    BY <1>1, LongsAtATime DEF SetOK
  <2>17. ASSUME NEW id \in w.map
         PROVE IF m.forward THEN id \div NumBitsLong >= m.idx /\ id \div NumBitsLong < m.size
               ELSE id \div NumBitsLong < m.idx
    <3>1. id \in set.map /\ id \div NumBitsLong \notin Passed(set.ptr, m)
      BY <2>8, <2>12
    <3> QED BY <1>2, <2>7, <2>15, <2>16, <3>1
  <2>18. SetOK(w)
    BY <2>2, <2>7, <2>12, <2>13, <2>14, <2>17 DEF SetOK
  <2>19. /\ Sorted(B) \in Seq(B) /\ Len(Sorted(B)) = Cardinality(B)
         /\ ToSet(Sorted(B)) = B /\ IsInjective(Sorted(B))
    BY <2>11, SortedSeq
  <2>20. Sorted(B) \in Seq(Local)
    BY <2>11, <2>19, SeqMonotonic
  <2>21. ASSUME Sorted(B) = <<>> PROVE set.map = {}
    <3>1. Cardinality(B) = 0
      BY <2>19, <2>21, EmptySeq
    <3>2. B = {} /\ Remaining(m) = 0
      BY <2>10, <2>11, <3>1, FS_EmptySet, SizesAssumption
    <3>3. \A id \in set.map : id \div NumBitsLong \in Passed(set.ptr, m)
      BY <1>2, <2>7, <2>15, <2>16, <3>2
    <3> QED BY <2>8, <3>2, <3>3
  <2>22. FetchReset(set, VertexBufSize) = [ids |-> Sorted(B), set |-> w]
    BY <2>1 DEF B
  <2>23. B \cap SetIds(w) = {} /\ B \cup SetIds(w) = SetIds(set)
    BY <2>11, <2>14
  <2>24. Sorted(B) = <<>> => SetIds(set) = {}
    BY <2>14, <2>21
  <2> HIDE DEF m, B, w
  <2> QED BY <2>12, <2>18, <2>19, <2>20, <2>22, <2>23, <2>24
<1> QED BY <1>3, <1>4

-------------------------------------------------------------------------------
(* Filling the buffer                                                      *)

\* Vertices in the buffer: those of a list that are not partitioned ...
LEMMA WholeSeq == ASSUME NEW ids \in Seq(Local), IsInjective(ids), ToSet(ids) \cap VPart = {}
                  PROVE /\ Whole(ids) \in Seq(Items(Local)) /\ Len(Whole(ids)) = Len(ids) /\ IsInjective(Whole(ids))
                        /\ ToSet(Whole(ids)) = {<<id, 0>> : id \in ToSet(ids)}
<1>1. Len(ids) \in Nat /\ DOMAIN ids = 1 .. Len(ids)
  BY LenProperties
<1>2. \A i \in 1 .. Len(ids) : ids[i] \in Local /\ ids[i] \notin VPart
  BY <1>1, ElementOfSeq DEF ToSet
<1>3. \A i \in 1 .. Len(ids) : <<ids[i], 0>> \in Items(Local)
  BY <1>2 DEF Items
<1>4. Whole(ids) = [i \in 1 .. Len(ids) |-> <<ids[i], 0>>]
  BY <1>1 DEF Whole
<1>5. Whole(ids) \in [1 .. Len(ids) -> Items(Local)] /\ DOMAIN Whole(ids) = 1 .. Len(ids)
  BY <1>3, <1>4
<1>6. Whole(ids) \in Seq(Items(Local)) /\ Len(Whole(ids)) = Len(ids)
  BY <1>1, <1>5
<1>7. IsInjective(Whole(ids))
  BY <1>1, <1>4, <1>5 DEF IsInjective
<1>8. ToSet(Whole(ids)) = {<<id, 0>> : id \in ToSet(ids)}
  BY <1>1, <1>4, <1>5 DEF ToSet
<1> QED BY <1>6, <1>7, <1>8

\* ... and one part of each of the partitioned ones.
LEMMA PartSeq == ASSUME NEW ids \in Seq(VPart), IsInjective(ids), NEW part \in 0 .. NumVParts - 1
                 PROVE /\ PartOf(ids, part) \in Seq(Items(Local)) /\ Len(PartOf(ids, part)) = Len(ids)
                       /\ IsInjective(PartOf(ids, part))
                       /\ ToSet(PartOf(ids, part)) = {<<id, part + 1>> : id \in ToSet(ids)}
<1>1. Len(ids) \in Nat /\ DOMAIN ids = 1 .. Len(ids)
  BY LenProperties
<1>2. \A i \in 1 .. Len(ids) : ids[i] \in VPart /\ ids[i] \in Local
  BY ElementOfSeq, SizesAssumption
<1>3. part + 1 \in 1 .. NumVParts
  BY SizesAssumption
<1>4. \A i \in 1 .. Len(ids) : <<ids[i], part + 1>> \in Items(Local)
  BY <1>2, <1>3 DEF Items
<1>5. PartOf(ids, part) = [i \in 1 .. Len(ids) |-> <<ids[i], part + 1>>]
  BY <1>1 DEF PartOf
<1>6. PartOf(ids, part) \in [1 .. Len(ids) -> Items(Local)] /\ DOMAIN PartOf(ids, part) = 1 .. Len(ids)
  BY <1>4, <1>5
<1>7. PartOf(ids, part) \in Seq(Items(Local)) /\ Len(PartOf(ids, part)) = Len(ids)
  BY <1>1, <1>6
<1>8. IsInjective(PartOf(ids, part))
  BY <1>1, <1>5, <1>6 DEF IsInjective
<1>9. ToSet(PartOf(ids, part)) = {<<id, part + 1>> : id \in ToSet(ids)}
  BY <1>1, <1>5, <1>6 DEF ToSet
<1> QED BY <1>7, <1>8, <1>9

\* A buffer that has just been filled is read from one end or the other.
LEMMA NewBuffer == ASSUME NEW w, w.buf \in Seq(Items(Local)), NEW forward \in BOOLEAN, w.ptr = NewPtr(Len(w.buf), forward)
                   PROVE /\ w.ptr \in PtrRec /\ w.ptr.size = Len(w.buf) /\ w.ptr.idx <= w.ptr.size
                         /\ Remaining(w.ptr) = Len(w.buf) /\ BufLeft(w) = ToSet(w.buf)
<1>1. Len(w.buf) \in Nat /\ DOMAIN w.buf = 1 .. Len(w.buf)
  BY LenProperties
<1>2. w.ptr = [size |-> Len(w.buf), idx |-> IF forward THEN 0 ELSE Len(w.buf), forward |-> forward]
  BY DEF NewPtr
<1>3. w.ptr \in PtrRec /\ w.ptr.size = Len(w.buf) /\ w.ptr.idx <= w.ptr.size /\ w.ptr.forward = forward
  BY <1>1, <1>2 DEF PtrRec
<1>4. BufIdx(w) = 1 .. Len(w.buf)
  BY <1>1, <1>2 DEF BufIdx
<1>5. BufLeft(w) = ToSet(w.buf)
  BY <1>1, <1>4 DEF BufLeft, ToSet
<1>6. Remaining(w.ptr) = Len(w.buf)
  BY <1>1, <1>2 DEF Remaining
<1> QED BY <1>3, <1>5, <1>6

\* An empty buffer: nothing of what is left is in it.
LEMMA BufferDone == ASSUME NEW q \in QueueRec, QueueOK(q)
                    PROVE Remaining(q.ptr) \in Nat /\ (Remaining(q.ptr) = 0 => BufLeft(q) = {})
<1>1. q.ptr \in PtrRec /\ q.ptr.idx <= q.ptr.size
  BY DEF QueueRec, QueueOK
<1>2. q.ptr.idx \in Nat /\ q.ptr.size \in Nat /\ q.ptr.forward \in BOOLEAN
  BY <1>1 DEF PtrRec
<1>3. ASSUME Remaining(q.ptr) = 0 PROVE BufIdx(q) = {}
  BY <1>1, <1>2, <1>3 DEF Remaining, BufIdx
<1>4. Remaining(q.ptr) \in Nat
  BY <1>1, <1>2 DEF Remaining
<1> QED BY <1>3, <1>4 DEF BufLeft

\* fetch_from_map moves vertices from the set to the buffer.
LEMMA FetchFromMapStep == ASSUME NEW q \in QueueRec, QueueOK(q), Remaining(q.ptr) = 0, NEW forward \in BOOLEAN
                          PROVE LET w == FetchFromMap(q, forward)
                                IN  /\ w \in QueueRec /\ QueueOK(w) /\ Left(w) = Left(q)
                                    /\ w.num = q.num /\ w.vparts = q.vparts /\ w.currVPart = q.currVPart
                                    /\ Remaining(w.ptr) = Len(w.buf)
                                    /\ w.buf = <<>> => SetLeft(w.set) = {}
<1> DEFINE r == FetchReset(q.set, VertexBufSize)
           w == [q EXCEPT !.set = r.set, !.buf = Whole(r.ids), !.ptr = NewPtr(Len(r.ids), forward)]
<1>1. q.set \in SetRec /\ SetOK(q.set) /\ q.vparts \in Seq(VPart)
  BY DEF QueueRec, QueueOK
<1>2. FetchFromMap(q, forward) = w
  BY DEF FetchFromMap
<1>3. /\ r.set \in SetRec /\ SetOK(r.set) /\ r.ids \in Seq(Local) /\ IsInjective(r.ids)
      /\ ToSet(r.ids) \cap SetIds(r.set) = {} /\ ToSet(r.ids) \cup SetIds(r.set) = SetIds(q.set)
      /\ r.ids = <<>> => SetIds(q.set) = {}
  BY <1>1, FetchResetStep
<1> HIDE DEF r
<1>4. SetIds(q.set) \cap VPart = {}
  BY <1>1 DEF SetOK
<1>5. /\ Whole(r.ids) \in Seq(Items(Local)) /\ Len(Whole(r.ids)) = Len(r.ids) /\ IsInjective(Whole(r.ids))
      /\ ToSet(Whole(r.ids)) = {<<id, 0>> : id \in ToSet(r.ids)}
  <2>1. ToSet(r.ids) \cap VPart = {}
    BY <1>3, <1>4
  <2> QED BY <1>3, <2>1, WholeSeq
<1>6. /\ w.set = r.set /\ w.buf = Whole(r.ids) /\ w.ptr = NewPtr(Len(w.buf), forward)
      /\ w.num = q.num /\ w.vparts = q.vparts /\ w.currVPart = q.currVPart
  BY <1>5 DEF QueueRec
<1>7. NewPtr(Len(r.ids), forward) \in PtrRec
  BY <1>3, LenProperties DEF NewPtr, PtrRec
<1>8. w \in QueueRec
  BY <1>3, <1>5, <1>7 DEF QueueRec
<1> HIDE DEF w
<1>9. /\ w.ptr.size = Len(w.buf) /\ w.ptr.idx <= w.ptr.size /\ Remaining(w.ptr) = Len(w.buf)
      /\ BufLeft(w) = ToSet(w.buf)
  BY <1>5, <1>6, NewBuffer
<1>10. BufLeft(w) \cup SetLeft(w.set) = SetLeft(q.set) /\ BufLeft(w) \cap SetLeft(w.set) = {}
  BY <1>3, <1>5, <1>6, <1>9 DEF SetLeft
<1>11. PartsLeft(w) = PartsLeft(q)
  BY <1>6 DEF PartsLeft
<1>12. SetLeft(q.set) \cap PartsLeft(q) = {}
  <2>1. q.currVPart \in Nat
    BY DEF QueueRec
  <2>2. \A k \in q.currVPart + 1 .. NumVParts : k # 0
    BY <2>1
  <2> QED BY <2>2 DEF SetLeft, PartsLeft
<1>13. BufLeft(q) = {}
  BY BufferDone
<1>14. Left(w) = Left(q)
  BY <1>10, <1>11, <1>13 DEF Left
<1>15. BufLeft(w) \cap (SetLeft(w.set) \cup PartsLeft(w)) = {}
  BY <1>10, <1>11, <1>12
<1>16. IsInjective(q.vparts)
  BY DEF QueueOK
<1>17. QueueOK(w)
  BY <1>3, <1>5, <1>6, <1>9, <1>15, <1>16 DEF QueueOK
<1>18. ASSUME w.buf = <<>> PROVE SetLeft(w.set) = {}
  <2>1. r.ids = <<>>
    BY <1>3, <1>5, <1>6, <1>18, EmptySeq
  <2> QED BY <1>3, <1>6, <2>1 DEF SetLeft
<1> QED BY <1>2, <1>6, <1>8, <1>9, <1>14, <1>17, <1>18

\* fetch_vparts moves one part of every partitioned vertex to the buffer, once the set is empty.
LEMMA FetchVPartsStep == ASSUME NEW q \in QueueRec, QueueOK(q), q.buf = <<>>, SetLeft(q.set) = {}
                         PROVE LET w == FetchVParts(q)
                               IN  /\ w \in QueueRec /\ QueueOK(w) /\ Left(w) = Left(q) /\ w.num = q.num
                                   /\ Remaining(w.ptr) = 0 => Left(w) = {}
<1>0. q.currVPart \in 0 .. NumVParts /\ q.vparts \in Seq(VPart) /\ IsInjective(q.vparts) /\ q.set \in SetRec
  BY DEF QueueRec, QueueOK
<1>1. BufLeft(q) = {}
  <2>1. q.ptr.size = 0 /\ q.ptr.idx <= q.ptr.size /\ q.ptr \in PtrRec
    BY EmptySeq DEF QueueOK, QueueRec
  <2>2. q.ptr.idx \in Nat
    BY <2>1 DEF PtrRec
  <2>3. BufIdx(q) = {}
    BY <2>1, <2>2 DEF BufIdx
  <2> QED BY <2>3 DEF BufLeft
<1>2. CASE q.currVPart >= NumVParts
  <2>1. FetchVParts(q) = q
    BY <1>2 DEF FetchVParts
  <2>2. q.currVPart + 1 .. NumVParts = {}
    BY <1>0, <1>2, SizesAssumption
  <2>3. PartsLeft(q) = {}
    BY <2>2 DEF PartsLeft
  <2>4. Left(q) = {}
    BY <1>1, <2>3 DEF Left
  <2> QED BY <2>1, <2>4
<1>3. CASE ~(q.currVPart >= NumVParts)
  <2> DEFINE part == q.currVPart
             w == [q EXCEPT !.buf = PartOf(q.vparts, part), !.ptr = NewPtr(Len(q.vparts), TRUE), !.currVPart = @ + 1]
  <2>1. FetchVParts(q) = w
    BY <1>3 DEF FetchVParts
  <2>2. part \in 0 .. NumVParts - 1 /\ part + 1 \in 0 .. NumVParts
    BY <1>0, <1>3, SizesAssumption
  <2> HIDE DEF part
  <2>3. /\ PartOf(q.vparts, part) \in Seq(Items(Local)) /\ Len(PartOf(q.vparts, part)) = Len(q.vparts)
        /\ IsInjective(PartOf(q.vparts, part))
        /\ ToSet(PartOf(q.vparts, part)) = {<<id, part + 1>> : id \in ToSet(q.vparts)}
    BY <1>0, <2>2, PartSeq
  <2>4. /\ w.set = q.set /\ w.buf = PartOf(q.vparts, part) /\ w.ptr = NewPtr(Len(w.buf), TRUE)
        /\ w.num = q.num /\ w.vparts = q.vparts /\ w.currVPart = part + 1
    BY <2>3 DEF QueueRec, part
  <2>5. NewPtr(Len(q.vparts), TRUE) \in PtrRec
    BY <1>0, LenProperties DEF NewPtr, PtrRec
  <2>6. w \in QueueRec
    BY <2>2, <2>3, <2>5 DEF QueueRec, part
  <2> HIDE DEF w
  <2>7. /\ w.ptr.size = Len(w.buf) /\ w.ptr.idx <= w.ptr.size /\ Remaining(w.ptr) = Len(w.buf)
        /\ BufLeft(w) = ToSet(w.buf)
    BY <2>3, <2>4, NewBuffer
  <2>8. q.currVPart + 1 .. NumVParts = {part + 1} \cup (part + 1 + 1 .. NumVParts)
    BY <2>2, SizesAssumption DEF part
  <2>9. part + 1 \notin part + 1 + 1 .. NumVParts
    BY <2>2
  <2>10. PartsLeft(w) = {<<id, k>> : id \in ToSet(q.vparts), k \in part + 1 + 1 .. NumVParts}
    BY <2>4 DEF PartsLeft
  <2>11. BufLeft(w) = {<<id, part + 1>> : id \in ToSet(q.vparts)}
    BY <2>3, <2>4, <2>7
  <2>12. PartsLeft(q) = BufLeft(w) \cup PartsLeft(w)
    <3>1. PartsLeft(q) = {<<id, k>> : id \in ToSet(q.vparts), k \in {part + 1} \cup (part + 1 + 1 .. NumVParts)}
      BY <2>8 DEF PartsLeft
    <3> QED BY <2>10, <2>11, <3>1
  <2>13. BufLeft(w) \cap PartsLeft(w) = {}
    BY <2>9, <2>10, <2>11
  <2>14. SetLeft(w.set) = {}
    BY <2>4
  <2>15. Left(w) = Left(q)
    BY <1>1, <2>12, <2>14 DEF Left
  <2>16. SetOK(q.set)
    BY DEF QueueOK
  <2>17. QueueOK(w)
    BY <1>0, <2>3, <2>4, <2>7, <2>13, <2>14, <2>16 DEF QueueOK
  <2>18. ASSUME Remaining(w.ptr) = 0 PROVE Left(w) = {}
    <3>1. Len(q.vparts) = 0
      BY <2>3, <2>4, <2>7, <2>18
    <3>2. ToSet(q.vparts) = {}
      BY <1>0, <3>1, LenProperties DEF ToSet
    <3> QED BY <2>10, <2>11, <2>14, <3>2 DEF Left
  <2> QED BY <2>1, <2>4, <2>6, <2>15, <2>17, <2>18
<1> QED BY <1>2, <1>3

\* Filling the buffer keeps what is left, and leaves the buffer empty only when nothing is left.
LEMMA RefillStep == ASSUME NEW q \in QueueRec, QueueOK(q), NEW forward \in BOOLEAN
                    PROVE LET w == Refill(q, forward)
                          IN  /\ w \in QueueRec /\ QueueOK(w) /\ Left(w) = Left(q) /\ w.num = q.num
                              /\ Remaining(w.ptr) = 0 => Left(w) = {}
<1>0. Remaining(q.ptr) \in Nat
  BY BufferDone
<1>1. CASE Remaining(q.ptr) > 0
  BY <1>0, <1>1 DEF Refill
<1>2. CASE ~(Remaining(q.ptr) > 0)
  <2> DEFINE r == FetchFromMap(q, forward)
  <2>1. Remaining(q.ptr) = 0
    BY <1>0, <1>2
  <2>2. /\ r \in QueueRec /\ QueueOK(r) /\ Left(r) = Left(q) /\ r.num = q.num
        /\ Remaining(r.ptr) = Len(r.buf)
        /\ r.buf = <<>> => SetLeft(r.set) = {}
    BY <2>1, FetchFromMapStep
  <2>3. Refill(q, forward) = IF r.buf = <<>> /\ r.vparts # <<>> THEN FetchVParts(r) ELSE r
    BY <1>2 DEF Refill
  <2> HIDE DEF r
  <2>4. CASE r.buf = <<>> /\ r.vparts # <<>>
    BY <2>2, <2>3, <2>4, FetchVPartsStep
  <2>5. CASE ~(r.buf = <<>> /\ r.vparts # <<>>)
    <3>1. Refill(q, forward) = r
      BY <2>3, <2>5
    <3>2. ASSUME Remaining(r.ptr) = 0 PROVE Left(r) = {}
      <4>1. r.buf \in Seq(Items(Local))
        BY <2>2 DEF QueueRec
      <4>2. r.buf = <<>>
        BY <2>2, <3>2, <4>1, EmptySeq
      <4>3. r.vparts = <<>>
        BY <2>5, <4>2
      <4>4. PartsLeft(r) = {}
        BY <4>3 DEF PartsLeft, ToSet
      <4>5. BufLeft(r) = {}
        BY <2>2, <3>2, BufferDone
      <4> QED BY <2>2, <4>2, <4>4, <4>5 DEF Left
    <3> QED BY <2>2, <3>1, <3>2
  <2> QED BY <2>4, <2>5
<1> QED BY <1>1, <1>2

\* What a fetch returns leaves the queue and nothing else does, it is counted, and a queue in which
\* something is left returns something.
LEMMA FetchStep == ASSUME NEW q \in QueueRec, QueueOK(q), NEW max \in Nat, NEW forward \in BOOLEAN
                   PROVE LET r == Fetch(q, max, forward)
                         IN  /\ r.q \in QueueRec /\ QueueOK(r.q) /\ r.q.num = q.num - Len(r.items)
                             /\ r.items \in Seq(Items(Local)) /\ IsInjective(r.items)
                             /\ ToSet(r.items) \subseteq Left(q) /\ Left(r.q) = Left(q) \ ToSet(r.items)
                             /\ max > 0 /\ q.num # 0 /\ Left(q) # {} => r.items # <<>>
<1>1. CASE q.num = 0
  <2>1. Fetch(q, max, forward) = [items |-> <<>>, q |-> q]
    BY <1>1 DEF Fetch
  <2>2. <<>> \in Seq(Items(Local)) /\ Len(<<>>) = 0 /\ ToSet(<<>>) = {} /\ IsInjective(<<>>)
    BY EmptySeq DEF ToSet, IsInjective
  <2>3. q.num - 0 = q.num
    BY DEF QueueRec
  <2> QED BY <1>1, <2>1, <2>2, <2>3
<1>2. CASE q.num # 0
  <2> DEFINE one == Take(q, max)
             f == Refill(one.q, forward)
             rest == max - Len(one.items)
             two == Take(f, rest)
             items == one.items \o two.items
             w == [two.q EXCEPT !.num = @ - Len(items)]
  <2>1. Fetch(q, max, forward) = [items |-> items, q |-> w]
    BY <1>2 DEF Fetch
  <2>2. /\ one.q \in QueueRec /\ QueueOK(one.q) /\ one.q.num = q.num
        /\ one.items \in Seq(Items(Local)) /\ IsInjective(one.items)
        /\ ToSet(one.items) \subseteq Left(q) /\ Left(one.q) = Left(q) \ ToSet(one.items)
        /\ Remaining(q.ptr) \in Nat
        /\ Len(one.items) = IF max <= Remaining(q.ptr) THEN max ELSE Remaining(q.ptr)
    BY TakeStep
  <2> HIDE DEF one
  <2>3. rest \in Nat
    BY <2>2
  <2>4. /\ f \in QueueRec /\ QueueOK(f) /\ Left(f) = Left(one.q) /\ f.num = one.q.num
        /\ Remaining(f.ptr) = 0 => Left(f) = {}
    BY <2>2, RefillStep
  <2>r. rest = max - Len(one.items)
    OBVIOUS
  <2> HIDE DEF f, rest
  <2>5. /\ two.q \in QueueRec /\ QueueOK(two.q) /\ two.q.num = f.num
        /\ two.items \in Seq(Items(Local)) /\ IsInjective(two.items)
        /\ ToSet(two.items) \subseteq Left(f) /\ Left(two.q) = Left(f) \ ToSet(two.items)
        /\ Remaining(f.ptr) \in Nat
        /\ Len(two.items) = IF rest <= Remaining(f.ptr) THEN rest ELSE Remaining(f.ptr)
    BY <2>3, <2>4, TakeStep
  <2> HIDE DEF two
  <2>6. ToSet(one.items) \cap ToSet(two.items) = {}
    BY <2>2, <2>4, <2>5
  <2>7. /\ items \in Seq(Items(Local)) /\ Len(items) = Len(one.items) + Len(two.items)
        /\ ToSet(items) = ToSet(one.items) \cup ToSet(two.items) /\ IsInjective(items)
    <3>1. items = Joined(one.items, two.items)
      BY DEF Joined
    <3> HIDE DEF items
    <3>2. /\ one.items \in Seq(Items(Local)) /\ two.items \in Seq(Items(Local))
          /\ IsInjective(one.items) /\ IsInjective(two.items) /\ ToSet(one.items) \cap ToSet(two.items) = {}
      BY <2>2, <2>5, <2>6
    <3>3. items \in Seq(Items(Local)) /\ Len(items) = Len(one.items) + Len(two.items)
      BY <3>1, <3>2, JoinedSeq, Zenon
    <3>4. ToSet(items) = ToSet(one.items) \cup ToSet(two.items)
      <4>1. \A x : x \in ToSet(items) <=> x \in ToSet(one.items) \/ x \in ToSet(two.items)
        BY <3>1, <3>2, JoinedSeq, Zenon
      <4> QED BY <4>1, Zenon
    <3>5. IsInjective(items)
      BY <3>1, <3>2, JoinedSeq, Zenon
    <3> QED BY <3>3, <3>4, <3>5, Zenon
  <2>8. Len(one.items) \in Nat /\ Len(two.items) \in Nat
    BY <2>2, <2>5, LenProperties
  <2> HIDE DEF items
  <2>9. /\ w \in QueueRec /\ w.num = q.num - Len(items)
        /\ w.set = two.q.set /\ w.buf = two.q.buf /\ w.ptr = two.q.ptr /\ w.vparts = two.q.vparts /\ w.currVPart = two.q.currVPart
    <3>1. two.q.num \in Int /\ two.q.num = q.num /\ two.q.num - Len(items) \in Int
      BY <2>2, <2>4, <2>5, <2>7, <2>8 DEF QueueRec
    <3> QED BY <2>5, <3>1 DEF QueueRec
  <2> HIDE DEF w
  <2>10. BufLeft(w) = BufLeft(two.q) /\ PartsLeft(w) = PartsLeft(two.q)
    BY <2>9 DEF BufLeft, BufIdx, PartsLeft
  <2>11. QueueOK(w) /\ Left(w) = Left(two.q)
    BY <2>5, <2>9, <2>10 DEF QueueOK, Left
  <2>12. ToSet(items) \subseteq Left(q) /\ Left(w) = Left(q) \ ToSet(items)
    BY <2>2, <2>4, <2>5, <2>7, <2>11
  <2>13. ASSUME max > 0, Left(q) # {}, items = <<>> PROVE FALSE
    <3>0. Len(one.items) + Len(two.items) = 0
      BY <2>7, <2>13, EmptySeq
    <3>1. Len(one.items) = 0 /\ Len(two.items) = 0
      <4>1. \A x, y \in Nat : x + y = 0 => x = 0 /\ y = 0
        OBVIOUS
      <4> QED BY <2>8, <3>0, <4>1, Zenon
    <3>2. ToSet(one.items) = {}
      BY <2>2, <3>1, LenProperties DEF ToSet
    <3>3. rest > 0
      BY <2>13, <2>r, <3>1
    <3>4. Remaining(f.ptr) = 0
      BY <2>3, <2>5, <3>1, <3>3
    <3> QED BY <2>2, <2>4, <2>13, <3>2, <3>4
  <2>14. max > 0 /\ Left(q) # {} => items # <<>>
    BY <2>13
  <2>15. Fetch(q, max, forward).items = items /\ Fetch(q, max, forward).q = w
    BY <2>1
  <2> QED BY <2>7, <2>9, <2>11, <2>12, <2>14, <2>15
<1> QED BY <1>1, <1>2

-------------------------------------------------------------------------------
(* Filling the queue                                                       *)

\* The queue before the first level.
LEMMA EmptyQueueOK == /\ EmptyQueue \in QueueRec /\ QueueOK(EmptyQueue) /\ Left(EmptyQueue) = {}
                      /\ EmptySet \in SetRec /\ SetIds(EmptySet) = {} /\ SetOK(EmptySet)
<1> DEFINE p == [size |-> 0, idx |-> 0, forward |-> TRUE]
<1>1. NewPtr(0, TRUE) = p /\ p \in PtrRec
  BY DEF NewPtr, PtrRec
<1>2. /\ <<>> \in Seq(Local) /\ <<>> \in Seq(Items(Local)) /\ <<>> \in Seq(VPart)
      /\ ToSet(<<>>) = {} /\ IsInjective(<<>>) /\ Len(<<>>) = 0
  BY EmptySeq DEF ToSet, IsInjective
<1>3. EmptySet = [v |-> <<>>, map |-> {}, ptr |-> p]
  BY <1>1 DEF EmptySet
<1>4. EmptySet \in SetRec /\ SetIds(EmptySet) = {}
  BY <1>1, <1>2, <1>3 DEF SetRec, SetIds
<1>5. SetOK(EmptySet)
  BY <1>2, <1>3, <1>4, LongsAtATime DEF SetOK
<1>6. EmptyQueue = [set |-> EmptySet, buf |-> <<>>, ptr |-> p, vparts |-> <<>>, currVPart |-> 0, num |-> 0]
  BY <1>1 DEF EmptyQueue
<1>7. EmptyQueue \in QueueRec
  <2>1. 0 \in 0 .. NumVParts /\ 0 \in Int
    BY SizesAssumption
  <2> QED BY <1>1, <1>2, <1>4, <1>6, <2>1 DEF QueueRec
<1>8. BufLeft(EmptyQueue) = {} /\ PartsLeft(EmptyQueue) = {} /\ SetLeft(EmptySet) = {}
  <2>1. BufIdx(EmptyQueue) = {}
    BY <1>6 DEF BufIdx
  <2>2. EmptyQueue.vparts = <<>>
    BY <1>6
  <2>3. ToSet(EmptyQueue.vparts) = {}
    BY <1>2, <2>2
  <2>4. SetLeft(EmptySet) = {}
    BY <1>4 DEF SetLeft
  <2>5. BufLeft(EmptyQueue) = {}
    BY <2>1 DEF BufLeft
  <2> QED BY <2>3, <2>4, <2>5 DEF PartsLeft
<1>9. QueueOK(EmptyQueue) /\ Left(EmptyQueue) = {}
  <2>1. /\ EmptyQueue.set = EmptySet /\ EmptyQueue.buf = <<>> /\ EmptyQueue.vparts = <<>>
        /\ EmptyQueue.ptr.size = 0 /\ EmptyQueue.ptr.idx = 0
    BY <1>6
  <2> QED BY <1>2, <1>5, <1>8, <2>1 DEF QueueOK, Left
<1> QED BY <1>4, <1>5, <1>7, <1>9

\* The parts of partitioned vertices before any of them is in the buffer.
LEMMA ItemsSplit == ASSUME NEW S
                    PROVE Items(S) = {<<id, 0>> : id \in S \ VPart} \cup {<<id, k>> : id \in S \cap VPart, k \in 0 + 1 .. NumVParts}
BY DEF Items

\* A queue that is filled from the set of a level holds what is to do for that set, and counts it.
LEMMA InitFromSetStep == ASSUME NEW set \in SetRec, set.v = <<>> \/ set.map = {}, NEW forward \in BOOLEAN
                         PROVE LET q == InitFromSet(set, forward)
                               IN  /\ q \in QueueRec /\ QueueOK(q) /\ Left(q) = Items(SetIds(set))
                                   /\ q.num = Cardinality(Items(SetIds(set)))
<1> DEFINE ids == ToSet(set.v)
           S == SetIds(set)
           sorted == Sorted(ids)
           map == IF VPart = {} THEN set.map ELSE set.map \cup ToSet(sorted)
           parts == map \cap VPart
           rest == [v |-> IF VPart = {} THEN sorted ELSE <<>>, map |-> map \ parts, ptr |-> NewPtr(NumLongs, forward)]
           n == Cardinality(parts)
           fin == [set EXCEPT !.v = sorted]
           q == [EmptyQueue EXCEPT !.set = rest, !.vparts = Sorted(parts), !.num = NumActiveIn(fin) - n + n * NumVParts]
<1>1. set.v \in Seq(Local) /\ set.map \subseteq Local /\ S \subseteq Local /\ ids \subseteq Local
  <2>1. set.v \in Seq(Local) /\ set.map \subseteq Local
    BY DEF SetRec
  <2>2. \A i \in DOMAIN set.v : set.v[i] \in Local
    BY <2>1, LenProperties, ElementOfSeq
  <2> QED BY <2>1, <2>2 DEF SetIds, ToSet
<1>2. fin = Finalized(set) /\ fin.v = sorted /\ fin.map = set.map
  BY DEF Finalized, SetRec
<1>3. InitFromSet(set, forward) = q
  BY <1>2 DEF InitFromSet
<1>4. /\ sorted \in Seq(ids) /\ sorted \in Seq(Local) /\ Len(sorted) = Cardinality(ids)
      /\ ToSet(sorted) = ids /\ IsInjective(sorted)
  <2>1. IsFiniteSet(ids) /\ ids \subseteq Nat
    BY <1>1, LocalFinite
  <2>2. sorted \in Seq(ids) /\ Len(sorted) = Cardinality(ids) /\ ToSet(sorted) = ids /\ IsInjective(sorted)
    BY <2>1, SortedSeq
  <2>3. sorted \in Seq(Local)
    BY <1>1, <2>2, SeqMonotonic
  <2> QED BY <2>2, <2>3
<1>5. S = ids \cup set.map
  BY DEF SetIds
<1>e. ToSet(<<>>) = {} /\ IsInjective(<<>>) /\ <<>> \in Seq(Local) /\ <<>> \in Seq(Items(Local)) /\ Len(<<>>) = 0
  BY EmptySeq DEF ToSet, IsInjective
<1>6. NumActiveIn(fin) = Cardinality(S)
  <2>1. NumActiveIn(fin) = IF sorted = <<>> THEN Cardinality(set.map) ELSE Len(sorted)
    BY <1>2 DEF NumActiveIn
  <2> HIDE DEF sorted
  <2>2. CASE sorted = <<>>
    <3>1. ids = {}
      BY <1>4, <1>e, <2>2
    <3> QED BY <1>5, <2>1, <2>2, <3>1
  <2>3. CASE sorted # <<>>
    <3>1. ids # {}
      <4>1. Len(sorted) \in Nat \ {0} /\ DOMAIN sorted = 1 .. Len(sorted)
        BY <1>4, <2>3, EmptySeq, LenProperties
      <4>2. 1 \in DOMAIN sorted
        BY <4>1
      <4> QED BY <1>4, <4>2 DEF ToSet
    <3>2. set.v # <<>>
      BY <1>e, <3>1
    <3>3. set.map = {}
      BY <3>2
    <3> QED BY <1>4, <1>5, <2>1, <2>3, <3>3
  <2> QED BY <2>2, <2>3
<1>7. map \subseteq Local /\ parts = S \cap VPart /\ parts \subseteq VPart /\ parts \subseteq Local
  BY <1>1, <1>4, <1>5
<1>8. SetIds(rest) = S \ VPart
  BY <1>4, <1>5, <1>e DEF SetIds
<1>9. NewPtr(NumLongs, forward) \in PtrRec
  BY LongsAtATime DEF NewPtr, PtrRec
<1>10. rest \in SetRec /\ rest.ptr = NewPtr(NumLongs, forward) /\ rest.map \subseteq Local
  BY <1>4, <1>7, <1>9, <1>e DEF SetRec
<1>11. SetOK(rest)
  <2>1. rest.v = <<>> \/ rest.map = {}
    <3>1. CASE VPart = {}
      <4>1. rest.v = sorted /\ rest.map = set.map
        BY <3>1
      <4>2. CASE set.v = <<>>
        <5>1. ids = {}
          BY <1>e, <4>2
        <5>2. Len(sorted) = 0
          BY <1>4, <5>1, FS_EmptySet
        <5> QED BY <1>4, <4>1, <5>2, EmptySeq
      <4> QED BY <4>1, <4>2
    <3> QED BY <3>1
  <2>2. IsInjective(rest.v)
    BY <1>4, <1>e
  <2>3. SetIds(rest) \cap VPart = {}
    BY <1>8
  <2> HIDE DEF rest
  <2>4. rest.ptr = [size |-> NumLongs, idx |-> IF forward THEN 0 ELSE NumLongs, forward |-> forward]
    BY <1>10 DEF NewPtr
  <2>5. \A id \in rest.map : id \div NumBitsLong \in Nat /\ id \div NumBitsLong < NumLongs
    BY <1>10, LongsAtATime
  <2>6. rest.ptr.idx <= rest.ptr.size /\ rest.ptr.size <= NumLongs
    BY <2>4, LongsAtATime
  <2>7. \A id \in rest.map : IF rest.ptr.forward
                             THEN id \div NumBitsLong >= rest.ptr.idx /\ id \div NumBitsLong < rest.ptr.size
                             ELSE id \div NumBitsLong < rest.ptr.idx
    BY <2>4, <2>5
  <2> QED BY <2>1, <2>2, <2>3, <2>6, <2>7 DEF SetOK
<1>12. /\ Sorted(parts) \in Seq(VPart) /\ ToSet(Sorted(parts)) = parts /\ IsInjective(Sorted(parts))
  <2>1. IsFiniteSet(parts) /\ parts \subseteq Nat
    BY <1>7, LocalFinite
  <2> HIDE DEF parts
  <2>2. Sorted(parts) \in Seq(parts) /\ ToSet(Sorted(parts)) = parts /\ IsInjective(Sorted(parts))
    BY <2>1, SortedSeq
  <2> QED BY <1>7, <2>2, SeqMonotonic
<1>13. /\ n = Cardinality(S \cap VPart) /\ n \in Nat /\ Cardinality(S) \in Nat
       /\ Cardinality(Items(S)) = Cardinality(S) - n + n * NumVParts /\ n * NumVParts \in Nat
  <2>1. n = Cardinality(S \cap VPart)
    BY <1>7
  <2> HIDE DEF n, S
  <2> QED BY <1>1, <2>1, ItemsCount, SizesAssumption
<1>14. q.num = Cardinality(Items(S)) /\ q.num \in Int
  <2>1. q.num = NumActiveIn(fin) - n + n * NumVParts
    BY DEF EmptyQueue
  <2> HIDE DEF q, fin, n, S
  <2> QED BY <1>6, <1>13, <2>1
<1>15. /\ q.set = rest /\ q.vparts = Sorted(parts) /\ q.buf = <<>> /\ q.currVPart = 0
       /\ q.ptr = [size |-> 0, idx |-> 0, forward |-> TRUE]
  BY DEF EmptyQueue, NewPtr
<1>16. q = [EmptyQueue EXCEPT !.set = rest, !.vparts = Sorted(parts), !.num = NumActiveIn(fin) - n + n * NumVParts]
  OBVIOUS
<1> HIDE DEF q, rest, parts, n, S, fin, map, sorted, ids
<1>17. q \in QueueRec
  <2>1. NumActiveIn(fin) - n + n * NumVParts \in Int
    BY <1>6, <1>13
  <2>2. EmptyQueue \in QueueRec
    BY EmptyQueueOK
  <2> QED BY <1>10, <1>12, <1>16, <2>1, <2>2 DEF QueueRec
<1>18. BufLeft(q) = {}
  <2>1. BufIdx(q) = {}
    BY <1>15 DEF BufIdx
  <2> QED BY <2>1 DEF BufLeft
<1>19. SetLeft(q.set) = {<<id, 0>> : id \in S \ VPart}
  BY <1>8, <1>15 DEF SetLeft
<1>20. PartsLeft(q) = {<<id, k>> : id \in S \cap VPart, k \in 0 + 1 .. NumVParts}
  <2>1. ToSet(q.vparts) = S \cap VPart /\ q.currVPart = 0
    BY <1>7, <1>12, <1>15
  <2> QED BY <2>1 DEF PartsLeft
<1>21. Left(q) = Items(S)
  BY <1>18, <1>19, <1>20, ItemsSplit DEF Left
<1>22. QueueOK(q)
  BY <1>11, <1>12, <1>15, <1>18, <1>e DEF QueueOK
<1> QED BY <1>3, <1>14, <1>17, <1>21, <1>22 DEF S

\* The same for a queue that is filled from a list of vertices.
LEMMA InitFromBufStep == ASSUME NEW S \in SUBSET Local
                         PROVE LET q == InitFromBuf(S)
                               IN  /\ q \in QueueRec /\ QueueOK(q) /\ Left(q) = Items(S)
                                   /\ q.num = Cardinality(Items(S))
<1> DEFINE whole == Sorted(S \ VPart)
           parts == Sorted(S \cap VPart)
           q == [set |-> EmptySet, buf |-> Whole(whole), ptr |-> NewPtr(Len(whole), TRUE), vparts |-> parts,
                 currVPart |-> 0, num |-> Len(whole) + Len(parts) * NumVParts]
<1>1. InitFromBuf(S) = q
  BY DEF InitFromBuf
<1>2. /\ whole \in Seq(S \ VPart) /\ Len(whole) = Cardinality(S \ VPart)
      /\ ToSet(whole) = S \ VPart /\ IsInjective(whole)
  <2>1. IsFiniteSet(S \ VPart) /\ S \ VPart \subseteq Nat
    BY LocalFinite
  <2> QED BY <2>1, SortedSeq
<1>3. /\ parts \in Seq(S \cap VPart) /\ Len(parts) = Cardinality(S \cap VPart)
      /\ ToSet(parts) = S \cap VPart /\ IsInjective(parts)
  <2>1. IsFiniteSet(S \cap VPart) /\ S \cap VPart \subseteq Nat
    BY LocalFinite
  <2> QED BY <2>1, SortedSeq
<1>4. whole \in Seq(Local)
  BY <1>2, SeqMonotonic
<1>5. parts \in Seq(VPart)
  BY <1>3, SeqMonotonic
<1> HIDE DEF whole, parts
<1>6. /\ Whole(whole) \in Seq(Items(Local)) /\ Len(Whole(whole)) = Len(whole) /\ IsInjective(Whole(whole))
      /\ ToSet(Whole(whole)) = {<<id, 0>> : id \in ToSet(whole)}
  BY <1>2, <1>4, WholeSeq
<1>7. NewPtr(Len(whole), TRUE) \in PtrRec
  BY <1>4, LenProperties DEF NewPtr, PtrRec
<1>8. /\ Cardinality(Items(S)) = Cardinality(S) - Cardinality(S \cap VPart) + Cardinality(S \cap VPart) * NumVParts
      /\ Cardinality(S) \in Nat /\ Cardinality(S \cap VPart) \in Nat
  BY ItemsCount
<1>9. Cardinality(S \ VPart) = Cardinality(S) - Cardinality(S \cap VPart)
  BY LocalFinite, FS_Difference
<1>10. Len(whole) + Len(parts) * NumVParts = Cardinality(Items(S)) /\ Len(whole) + Len(parts) * NumVParts \in Int
  BY <1>2, <1>3, <1>8, <1>9, SizesAssumption
<1>11. q \in QueueRec
  <2>1. 0 \in 0 .. NumVParts
    BY SizesAssumption
  <2> QED BY <1>5, <1>6, <1>7, <1>10, <2>1, EmptyQueueOK DEF QueueRec
<1>12. /\ q.set = EmptySet /\ q.buf = Whole(whole) /\ q.ptr = NewPtr(Len(q.buf), TRUE) /\ q.vparts = parts
       /\ q.currVPart = 0 /\ q.num = Len(whole) + Len(parts) * NumVParts
  BY <1>6
<1> HIDE DEF q
<1>13. /\ q.ptr.size = Len(q.buf) /\ q.ptr.idx <= q.ptr.size /\ BufLeft(q) = ToSet(q.buf)
  BY <1>6, <1>12, NewBuffer
<1>14. BufLeft(q) = {<<id, 0>> : id \in S \ VPart}
  BY <1>2, <1>6, <1>12, <1>13
<1>15. SetLeft(q.set) = {} /\ SetOK(q.set)
  BY <1>12, EmptyQueueOK DEF SetLeft
<1>16. PartsLeft(q) = {<<id, k>> : id \in S \cap VPart, k \in 0 + 1 .. NumVParts}
  <2>1. ToSet(q.vparts) = S \cap VPart /\ q.currVPart = 0
    BY <1>3, <1>12
  <2> QED BY <2>1 DEF PartsLeft
<1>17. Left(q) = Items(S)
  BY <1>14, <1>15, <1>16, ItemsSplit DEF Left
<1>18. BufLeft(q) \cap (SetLeft(q.set) \cup PartsLeft(q)) = {}
  BY <1>14, <1>15, <1>16
<1>19. QueueOK(q)
  BY <1>3, <1>6, <1>12, <1>13, <1>15, <1>18 DEF QueueOK
<1> QED BY <1>1, <1>10, <1>11, <1>12, <1>17, <1>19

-------------------------------------------------------------------------------
(* The invariant is inductive                                              *)

\* Nothing to do for no vertices.
LEMMA NoItems == Items({}) = {} /\ Cardinality(Items({})) = 0 /\ ToSet(<<>>) = {} /\ IsInjective(<<>>) /\ Len(<<>>) = 0
<1>1. Items({}) = {}
  BY DEF Items
<1> QED BY <1>1, FS_EmptySet DEF ToSet, IsInjective

\* A queue in which nothing is left has an empty set.
LEMMA NothingLeft == ASSUME NEW q \in QueueRec, Left(q) = {}
                     PROVE q.set \in SetRec /\ q.set.v = <<>> /\ q.set.map = {}
<1>1. q.set \in SetRec
  BY DEF QueueRec
<1>2. q.set.v \in Seq(Local) /\ SetLeft(q.set) = {}
  BY <1>1 DEF SetRec, Left
<1>3. SetIds(q.set) = {}
  BY <1>2 DEF SetLeft
<1>4. q.set.map = {} /\ ToSet(q.set.v) = {}
  BY <1>3 DEF SetIds
<1>5. q.set.v = <<>>
  <2>1. Len(q.set.v) \in Nat /\ DOMAIN q.set.v = 1 .. Len(q.set.v)
    BY <1>2, LenProperties
  <2>2. ASSUME Len(q.set.v) # 0 PROVE FALSE
    <3>1. 1 \in DOMAIN q.set.v
      BY <2>1, <2>2
    <3>2. q.set.v[1] \in ToSet(q.set.v)
      BY <3>1 DEF ToSet
    <3> QED BY <1>4, <3>2
  <2> QED BY <1>2, <2>2, EmptySeq
<1> QED BY <1>1, <1>4, <1>5

\* Filling the queue of a level from a set: the queue starts with all there is to do in the level.
LEMMA FillStep == ASSUME NEW set \in SetRec, set.v = <<>> \/ set.map = {}, NEW forward \in BOOLEAN, NEW S,
                         S = SetIds(set), queue \in QueueRec, Left(queue) = {}, FillFromSet(set, forward),
                         wanted' = S, got' = <<>>, activated' = {}, S \subseteq Local,
                         level' \in 0 .. MaxLevel, elevator' \in BOOLEAN
                  PROVE IInv'
<1>1. queue' = InitFromSet(set, forward) /\ next' = queue.set
  BY DEF FillFromSet
<1>2. queue' \in QueueRec /\ QueueOK(queue') /\ Left(queue') = Items(S) /\ queue'.num = Cardinality(Items(S))
  BY <1>1, InitFromSetStep
<1>3. next' \in SetRec /\ next'.v = <<>> /\ next'.map = {}
  BY <1>1, NothingLeft
<1>4. Types'
  BY <1>2, <1>3, EmptySeq DEF Types
<1>5. Len(next'.v) <= MaxActiveV
  BY <1>3, NoItems, SizesAssumption
<1>6. SetIsActivated'
  BY <1>3, NoItems DEF SetIsActivated
<1>7. FetchedOnce'
  <2>1. Cardinality(Items(S)) \in Nat
    BY ItemsCount, FS_CardinalityType
  <2>2. queue'.num = Cardinality(Items(S)) - 0
    BY <1>2, <2>1
  <2>3. IsInjective(got') /\ ToSet(got') = {} /\ Len(got') = 0
    BY NoItems
  <2> QED BY <2>2, <2>3 DEF FetchedOnce
<1>8. LeftIsRest'
  BY <1>2, NoItems DEF LeftIsRest
<1> QED BY <1>2, <1>4, <1>5, <1>6, <1>7, <1>8 DEF IInv

\* Everything of the level has been handed out when the count is zero, and only then.
LEMMA CountOfLeft == ASSUME Types, FetchedOnce, LeftIsRest
                     PROVE queue.num \in Nat /\ (queue.num = 0 <=> Left(queue) = {})
<1>1. got \in Seq(Items(Local)) /\ IsInjective(got) /\ ToSet(got) \subseteq Items(wanted) /\ wanted \in SUBSET Local
  BY DEF Types, FetchedOnce
<1>2. IsFiniteSet(ToSet(got)) /\ Cardinality(ToSet(got)) = Len(got)
  BY <1>1, LenInjective
<1>3. IsFiniteSet(Items(wanted)) /\ Cardinality(Items(wanted)) \in Nat
  BY <1>1, ItemsCount, FS_CardinalityType
<1>4. Cardinality(ToSet(got)) <= Cardinality(Items(wanted)) /\ (Cardinality(Items(wanted)) = Cardinality(ToSet(got)) => Items(wanted) = ToSet(got))
  BY <1>1, <1>3, FS_Subset
<1>5. Cardinality(ToSet(got)) \in Nat
  BY <1>2, FS_CardinalityType
<1>6. queue.num = Cardinality(Items(wanted)) - Cardinality(ToSet(got))
  BY <1>2 DEF FetchedOnce
<1>7. queue.num \in Nat /\ (queue.num = 0 <=> Items(wanted) = ToSet(got))
  BY <1>3, <1>4, <1>5, <1>6
<1>8. Left(queue) = {} <=> Items(wanted) = ToSet(got)
  BY <1>1 DEF LeftIsRest
<1> QED BY <1>7, <1>8

\* The invariant holds initially.
LEMMA InitOK == Init => IInv
<1> SUFFICES ASSUME Init PROVE IInv
  OBVIOUS
<1>1. /\ next = EmptySet /\ queue = EmptyQueue /\ level = 0 /\ elevator \in Elevators
      /\ activated = {} /\ wanted = {} /\ got = <<>>
  BY DEF Init
<1>2. next.v = <<>> /\ next.map = {} /\ queue.num = 0
  BY <1>1 DEF EmptySet, EmptyQueue
<1>3. Types
  BY <1>1, EmptyQueueOK, EmptySeq, SizesAssumption DEF Types
<1>4. Len(next.v) <= MaxActiveV
  BY <1>2, NoItems, SizesAssumption
<1>5. SetIsActivated
  BY <1>1, <1>2, NoItems DEF SetIsActivated
<1>6. QueueOK(queue) /\ Left(queue) = {}
  BY <1>1, EmptyQueueOK
<1>7. FetchedOnce
  BY <1>1, <1>2, NoItems DEF FetchedOnce
<1>8. LeftIsRest
  BY <1>1, <1>6, NoItems DEF LeftIsRest
<1> QED BY <1>3, <1>4, <1>5, <1>6, <1>7, <1>8 DEF IInv

\* The direction of a level.
LEMMA ForwardType == ASSUME Types PROVE Forward \in BOOLEAN
BY DEF Types, Forward

\* start_all.
LEMMA StartAllStep == ASSUME IInv, StartAll PROVE IInv'
<1> DEFINE set == [EmptySet EXCEPT !.map = Local]
<1>1. /\ level = 0 /\ wanted = {} /\ got = <<>> /\ activated = {}
      /\ FillFromSet(set, Forward) /\ wanted' = Local
      /\ level' = level /\ elevator' = elevator /\ activated' = activated /\ got' = got
  BY DEF StartAll, Fresh
<1>2. set \in SetRec /\ set.v = <<>> /\ set.map = Local
  BY EmptyQueueOK DEF SetRec, EmptySet
<1>3. Types /\ LeftIsRest
  BY DEF IInv
<1>4. queue \in QueueRec /\ Left(queue) = {} /\ level \in 0 .. MaxLevel /\ elevator \in BOOLEAN /\ Forward \in BOOLEAN
  BY <1>1, <1>3, NoItems, ForwardType DEF LeftIsRest, Types
<1>5. SetIds(set) = Local
  BY <1>2, NoItems DEF SetIds
<1> HIDE DEF set
<1> QED BY <1>1, <1>2, <1>4, <1>5, FillStep

\* start with some vertices.
LEMMA StartVerticesStep == ASSUME IInv, StartVertices PROVE IInv'
<1>1. PICK S \in SUBSET Local :
        /\ level = 0 /\ wanted = {} /\ got = <<>> /\ activated = {}
        /\ queue' = InitFromBuf(S) /\ wanted' = S
        /\ UNCHANGED <<next, level, elevator, activated, got>>
  BY DEF StartVertices, Fresh
<1>2. Types /\ SetIsActivated /\ Len(next.v) <= MaxActiveV
  BY DEF IInv
<1>3. queue' \in QueueRec /\ QueueOK(queue') /\ Left(queue') = Items(S) /\ queue'.num = Cardinality(Items(S))
  BY <1>1, InitFromBufStep
<1>4. Types'
  BY <1>1, <1>2, <1>3 DEF Types
<1>5. SetIsActivated' /\ Len(next'.v) <= MaxActiveV
  BY <1>1, <1>2 DEF SetIsActivated
<1>6. FetchedOnce'
  <2>1. Cardinality(Items(S)) \in Nat
    BY ItemsCount, FS_CardinalityType
  <2>2. queue'.num = Cardinality(Items(S)) - 0
    BY <1>3, <2>1
  <2>3. IsInjective(got') /\ ToSet(got') = {} /\ Len(got') = 0
    BY <1>1, NoItems
  <2> QED BY <1>1, <2>2, <2>3 DEF FetchedOnce
<1>7. LeftIsRest'
  BY <1>1, <1>3, NoItems DEF LeftIsRest
<1> QED BY <1>3, <1>4, <1>5, <1>6, <1>7 DEF IInv

\* A step that only activates vertices.
LEMMA ActivationStep == ASSUME IInv, UNCHANGED <<queue, level, elevator, wanted, got>>,
                               next' \in SetRec, Len(next'.v) <= MaxActiveV,
                               ToSet(next'.v) \cup next'.map = activated', next'.v = <<>> \/ next'.map = {},
                               activated' \subseteq Local
                        PROVE IInv'
<1>1. Types /\ QueueOK(queue) /\ FetchedOnce /\ LeftIsRest
  BY DEF IInv
<1>2. Types'
  BY <1>1 DEF Types
<1>3. SetIsActivated'
  BY DEF SetIsActivated
<1>4. QueueOK(queue') /\ FetchedOnce' /\ LeftIsRest'
  BY <1>1 DEF FetchedOnce, LeftIsRest
<1> QED BY <1>2, <1>3, <1>4 DEF IInv

\* activate_vertex: the list grows by one, or becomes a bitmap.
LEMMA ActivateVertexStep == ASSUME IInv, ActivateVertex PROVE IInv'
<1>1. PICK id \in Local : /\ next' = ActivateOne(next, id) /\ activated' = activated \cup {id}
                          /\ UNCHANGED <<queue, level, elevator, wanted, got>>
  BY DEF ActivateVertex
<1>2. /\ next \in SetRec /\ Len(next.v) <= MaxActiveV /\ activated \subseteq Local
      /\ ToSet(next.v) \cup next.map = activated /\ (next.v = <<>> \/ next.map = {})
  BY DEF IInv, Types, SetIsActivated
<1>3. next.v \in Seq(Local) /\ next.map \subseteq Local /\ next.ptr \in PtrRec
  BY <1>2 DEF SetRec
<1>4. <<>> \in Seq(Local) /\ ToSet(<<>>) = {} /\ Len(<<>>) = 0 /\ 0 <= MaxActiveV
  BY NoItems, EmptySeq, SizesAssumption
<1>5. activated' \subseteq Local
  BY <1>1, <1>2
<1>6. CASE next.map # {}
  <2>1. next' = [next EXCEPT !.map = @ \cup {id}]
    BY <1>1, <1>6 DEF ActivateOne
  <2>2. next' \in SetRec /\ next'.v = next.v /\ next'.map = next.map \cup {id}
    BY <1>2, <1>3, <2>1 DEF SetRec
  <2> QED BY <1>1, <1>2, <1>5, <1>6, <2>2, ActivationStep
<1>7. CASE next.map = {} /\ Len(next.v) < MaxActiveV
  <2> DEFINE w == Append(next.v, id)
  <2>1. next' = [next EXCEPT !.v = w]
    BY <1>1, <1>7 DEF ActivateOne
  <2>2. w \in Seq(Local) /\ Len(w) = Len(next.v) + 1 /\ ToSet(w) = ToSet(next.v) \cup {id}
    <3>1. Len(next.v) \in Nat /\ DOMAIN next.v = 1 .. Len(next.v)
      BY <1>3, LenProperties
    <3>2. w \in Seq(Local) /\ Len(w) = Len(next.v) + 1
      BY <1>3
    <3>3. DOMAIN w = 1 .. Len(next.v) + 1
      BY <3>2, LenProperties
    <3>4. \A i \in 1 .. Len(next.v) + 1 : w[i] = IF i <= Len(next.v) THEN next.v[i] ELSE id
      BY <1>3, <3>1
    <3> HIDE DEF w
    <3>5. \A i \in 1 .. Len(next.v) : i \in 1 .. Len(next.v) + 1 /\ w[i] = next.v[i]
      BY <3>1, <3>4
    <3>6. Len(next.v) + 1 \in 1 .. Len(next.v) + 1 /\ w[Len(next.v) + 1] = id
      BY <3>1, <3>4
    <3>7. \A i \in 1 .. Len(next.v) + 1 : i \in 1 .. Len(next.v) \/ w[i] = id
      BY <3>1, <3>4
    <3>8. ToSet(w) = ToSet(next.v) \cup {id}
      BY <3>1, <3>3, <3>5, <3>6, <3>7 DEF ToSet
    <3> QED BY <3>2, <3>8
  <2> HIDE DEF w
  <2>3. next' \in SetRec /\ next'.v = w /\ next'.map = {}
    BY <1>2, <1>3, <1>7, <2>1, <2>2 DEF SetRec
  <2>4. Len(w) <= MaxActiveV
    BY <1>3, <1>7, <2>2, LenProperties, SizesAssumption
  <2> QED BY <1>1, <1>2, <1>5, <1>7, <2>2, <2>3, <2>4, ActivationStep
<1>8. CASE next.map = {} /\ ~(Len(next.v) < MaxActiveV)
  <2>1. next' = [next EXCEPT !.map = {id} \cup ToSet(next.v), !.v = <<>>]
    BY <1>1, <1>8 DEF ActivateOne
  <2>2. next' \in SetRec /\ next'.v = <<>> /\ next'.map = {id} \cup ToSet(next.v)
    BY <1>2, <1>3, <1>4, <2>1 DEF SetRec
  <2> QED BY <1>1, <1>2, <1>4, <1>5, <1>8, <2>2, ActivationStep
<1> QED BY <1>6, <1>7, <1>8

\* activate_vertices: the same for a sequence of vertices.
LEMMA ActivateVerticesStep == ASSUME IInv, ActivateVertices PROVE IInv'
<1>1. PICK S \in SUBSET Local : /\ next' = ActivateMany(next, Sorted(S)) /\ activated' = activated \cup S
                                /\ UNCHANGED <<queue, level, elevator, wanted, got>>
  BY DEF ActivateVertices
<1>2. /\ next \in SetRec /\ Len(next.v) <= MaxActiveV /\ activated \subseteq Local
      /\ ToSet(next.v) \cup next.map = activated /\ (next.v = <<>> \/ next.map = {})
  BY DEF IInv, Types, SetIsActivated
<1>3. next.v \in Seq(Local) /\ next.map \subseteq Local /\ next.ptr \in PtrRec
  BY <1>2 DEF SetRec
<1>4. <<>> \in Seq(Local) /\ ToSet(<<>>) = {} /\ Len(<<>>) = 0 /\ 0 <= MaxActiveV
  BY NoItems, EmptySeq, SizesAssumption
<1>5. activated' \subseteq Local
  BY <1>1, <1>2
<1> DEFINE ids == Sorted(S)
<1>6. ids \in Seq(Local) /\ ToSet(ids) = S
  <2>1. IsFiniteSet(S) /\ S \subseteq Nat
    BY LocalFinite
  <2>2. ids \in Seq(S) /\ ToSet(ids) = S
    BY <2>1, SortedSeq
  <2> QED BY <2>2, SeqMonotonic
<1>7. next' = ActivateMany(next, ids)
  BY <1>1
<1> HIDE DEF ids
<1>8. CASE next.map # {}
  <2>1. next' = [next EXCEPT !.map = @ \cup ToSet(ids)]
    BY <1>7, <1>8 DEF ActivateMany
  <2>2. next' \in SetRec /\ next'.v = next.v /\ next'.map = next.map \cup S
    BY <1>2, <1>3, <1>6, <2>1 DEF SetRec
  <2> QED BY <1>1, <1>2, <1>5, <1>8, <2>2, ActivationStep
<1>9. CASE next.map = {} /\ Len(next.v) + Len(ids) < MaxActiveV
  <2> DEFINE w == Joined(next.v, ids)
  <2>1. next' = [next EXCEPT !.v = w]
    BY <1>7, <1>9 DEF ActivateMany, Joined
  <2>2. w \in Seq(Local) /\ Len(w) = Len(next.v) + Len(ids)
    BY <1>3, <1>6, JoinedSeq, Zenon
  <2>3. \A x : x \in ToSet(w) <=> x \in ToSet(next.v) \/ x \in ToSet(ids)
    BY <1>3, <1>6, JoinedSeq, Zenon
  <2> HIDE DEF w
  <2>4. next' \in SetRec /\ next'.v = w /\ next'.map = {}
    BY <1>2, <1>3, <1>9, <2>1, <2>2 DEF SetRec
  <2>5. Len(w) <= MaxActiveV
    <3>1. Len(w) < MaxActiveV /\ Len(w) \in Nat
      BY <1>9, <2>2, LenProperties
    <3> QED BY <3>1, SizesAssumption
  <2>6. ToSet(w) = activated'
    BY <1>1, <1>2, <1>6, <1>9, <2>3
  <2> QED BY <1>1, <1>5, <2>4, <2>5, <2>6, ActivationStep
<1>10. CASE next.map = {} /\ ~(Len(next.v) + Len(ids) < MaxActiveV)
  <2>1. next' = [next EXCEPT !.map = ToSet(ids) \cup ToSet(next.v), !.v = <<>>]
    BY <1>7, <1>10 DEF ActivateMany
  <2>2. next' \in SetRec /\ next'.v = <<>> /\ next'.map = S \cup ToSet(next.v)
    BY <1>2, <1>3, <1>4, <1>6, <2>1 DEF SetRec
  <2> QED BY <1>1, <1>2, <1>4, <1>5, <1>10, <2>2, ActivationStep
<1> QED BY <1>8, <1>9, <1>10

\* fetch: what it returns has not been handed out before.
LEMMA FetchVerticesStep == ASSUME IInv, FetchVertices PROVE IInv'
<1>1. PICK max \in 1 .. NumLocal :
        /\ queue' = Fetch(queue, max, Forward).q /\ got' = got \o Fetch(queue, max, Forward).items
        /\ UNCHANGED <<next, level, elevator, activated, wanted>>
  BY DEF FetchVertices
<1> DEFINE r == Fetch(queue, max, Forward)
<1>2. Types /\ SetIsActivated /\ Len(next.v) <= MaxActiveV /\ QueueOK(queue) /\ FetchedOnce /\ LeftIsRest
  BY DEF IInv
<1>3. queue \in QueueRec /\ Forward \in BOOLEAN /\ max \in Nat /\ wanted \in SUBSET Local /\ got \in Seq(Items(Local))
  BY <1>2, ForwardType DEF Types
<1>4. /\ r.q \in QueueRec /\ QueueOK(r.q) /\ r.q.num = queue.num - Len(r.items)
      /\ r.items \in Seq(Items(Local)) /\ IsInjective(r.items)
      /\ ToSet(r.items) \subseteq Left(queue) /\ Left(r.q) = Left(queue) \ ToSet(r.items)
  BY <1>2, <1>3, FetchStep
<1>5. queue' = r.q /\ got' = Joined(got, r.items)
  BY <1>1 DEF Joined
<1> HIDE DEF r
<1>6. Left(queue) = Items(wanted) \ ToSet(got) /\ IsInjective(got) /\ ToSet(got) \subseteq Items(wanted)
  BY <1>2 DEF LeftIsRest, FetchedOnce
<1>7. ToSet(got) \cap ToSet(r.items) = {}
  BY <1>4, <1>6
<1>8. got' \in Seq(Items(Local)) /\ Len(got') = Len(got) + Len(r.items)
  BY <1>3, <1>4, <1>5, JoinedSeq, Zenon
<1>9. IsInjective(got')
  BY <1>3, <1>4, <1>5, <1>6, <1>7, JoinedSeq, Zenon
<1>10. \A x : x \in ToSet(got') <=> x \in ToSet(got) \/ x \in ToSet(r.items)
  BY <1>3, <1>4, <1>5, JoinedSeq, Zenon
<1>11. Types'
  BY <1>1, <1>2, <1>4, <1>5, <1>8 DEF Types
<1>12. SetIsActivated' /\ Len(next'.v) <= MaxActiveV
  BY <1>1, <1>2 DEF SetIsActivated
<1>13. FetchedOnce'
  <2>1. ToSet(got') \subseteq Items(wanted)
    BY <1>4, <1>6, <1>10
  <2>2. queue.num = Cardinality(Items(wanted)) - Len(got)
    BY <1>2 DEF FetchedOnce
  <2>3. Cardinality(Items(wanted)) \in Int /\ Len(got) \in Int /\ Len(r.items) \in Int
    <3>1. Cardinality(Items(wanted)) \in Nat
      BY <1>3, ItemsCount, FS_CardinalityType
    <3>2. Len(got) \in Nat /\ Len(r.items) \in Nat
      BY <1>3, <1>4, LenProperties
    <3> QED BY <3>1, <3>2
  <2>4. \A c, x, y \in Int : (c - x) - y = c - (x + y)
    OBVIOUS
  <2>5. queue'.num = Cardinality(Items(wanted)) - Len(got')
    <3>1. (Cardinality(Items(wanted)) - Len(got)) - Len(r.items) = Cardinality(Items(wanted)) - (Len(got) + Len(r.items))
      BY <2>3, <2>4, Zenon
    <3>2. queue'.num = queue.num - Len(r.items)
      BY <1>4, <1>5, Zenon
    <3> QED BY <1>8, <2>2, <3>1, <3>2, Zenon
  <2> QED BY <1>1, <1>9, <2>1, <2>5 DEF FetchedOnce
<1>14. LeftIsRest'
  BY <1>1, <1>4, <1>5, <1>6, <1>10 DEF LeftIsRest
<1> QED BY <1>4, <1>5, <1>11, <1>12, <1>13, <1>14 DEF IInv

\* enter_next_level.
LEMMA EnterNextLevelStep == ASSUME IInv, EnterNextLevel PROVE IInv'
<1>1. /\ queue.num = 0 /\ level < MaxLevel /\ FillFromSet(next, Forward) /\ level' = level + 1
      /\ wanted' = activated /\ activated' = {} /\ got' = <<>> /\ elevator' = elevator
  BY DEF EnterNextLevel
<1>2. Types /\ SetIsActivated /\ FetchedOnce /\ LeftIsRest
  BY DEF IInv
<1>3. /\ next \in SetRec /\ queue \in QueueRec /\ activated \subseteq Local /\ elevator \in BOOLEAN
      /\ level \in 0 .. MaxLevel /\ Forward \in BOOLEAN
  BY <1>2, ForwardType DEF Types
<1>4. (next.v = <<>> \/ next.map = {}) /\ activated = SetIds(next)
  BY <1>2 DEF SetIsActivated, SetIds
<1>5. Left(queue) = {}
  BY <1>1, <1>2, CountOfLeft
<1>6. level' \in 0 .. MaxLevel
  BY <1>1, <1>3, SizesAssumption
<1> QED BY <1>1, <1>3, <1>4, <1>5, <1>6, FillStep

\* Nothing changes.
LEMMA StutterStep == ASSUME IInv, UNCHANGED vars PROVE IInv'
BY DEF IInv, vars, Types, SetIsActivated, FetchedOnce, LeftIsRest

\* Every step of a worker keeps the invariant: nothing is in two places of the queue, what is in it
\* is what the level has not handed out, and the bits that are set lie ahead of the pointer.
THEOREM QueueInvariant == Spec => []IInv
<1>1. Init => IInv
  BY InitOK
<1>2. IInv /\ [Next]_vars => IInv'
  BY StartAllStep, StartVerticesStep, ActivateVertexStep, ActivateVerticesStep, FetchVerticesStep,
     EnterNextLevelStep, StutterStep DEF Next
<1> QED BY <1>1, <1>2, PTL DEF Spec

\* The types of the sets and of the queue; the pointers stay in their ranges.
THEOREM QueueTypeOK == Spec => []TypeOK
<1>1. IInv => TypeOK
  <2> SUFFICES ASSUME IInv PROVE TypeOK
    OBVIOUS
  <2>1. Types /\ Len(next.v) <= MaxActiveV /\ QueueOK(queue) /\ FetchedOnce /\ LeftIsRest
    BY DEF IInv
  <2>2. next \in SetRec /\ queue \in QueueRec
    BY <2>1 DEF Types
  <2>3. next.v \in Seq(Local) /\ next.map \subseteq Local
    BY <2>2 DEF SetRec
  <2>4. queue.set \in SetRec /\ queue.ptr \in PtrRec /\ queue.buf \in Seq(Items(Local))
    BY <2>2 DEF QueueRec
  <2>5. queue.set.ptr \in PtrRec
    BY <2>4 DEF SetRec
  <2>6. /\ queue.ptr.idx \in Nat /\ queue.ptr.size \in Nat /\ queue.set.ptr.idx \in Nat /\ queue.set.ptr.size \in Nat
    BY <2>4, <2>5 DEF PtrRec
  <2>7. queue.ptr.size = Len(queue.buf) /\ queue.ptr.idx <= queue.ptr.size /\ queue.set.ptr.idx <= queue.set.ptr.size
    BY <2>1 DEF QueueOK, SetOK
  <2>8. \A s \in Seq(Items(Local)) : ToSet(s) \subseteq Items(Local)
    BY LenProperties, ElementOfSeq DEF ToSet
  <2>9. queue.num \in Nat
    BY <2>1, CountOfLeft
  <2> QED BY <2>1, <2>3, <2>4, <2>6, <2>7, <2>8, <2>9 DEF TypeOK, Types
<1> QED BY <1>1, QueueInvariant, PTL

\* Each vertex active in a level, and each part of a partitioned one, is handed out at most once,
\* nothing else is, and num_active counts what has not been: fetch of default_vertex_queue.
THEOREM QueueFetchedOnce == Spec => []FetchedOnce
<1>1. IInv => FetchedOnce
  BY DEF IInv
<1> QED BY <1>1, QueueInvariant, PTL

\* A fetch from a queue that is not empty returns something.
THEOREM QueueNeverStuck == Spec => []NeverStuck
<1>1. IInv => NeverStuck
  <2> SUFFICES ASSUME IInv, queue.num > 0 PROVE Fetch(queue, 1, Forward).items # <<>>
    BY DEF NeverStuck
  <2>1. Types /\ QueueOK(queue) /\ FetchedOnce /\ LeftIsRest
    BY DEF IInv
  <2>2. queue \in QueueRec /\ Forward \in BOOLEAN
    BY <2>1, ForwardType DEF Types
  <2>3. queue.num # 0 /\ Left(queue) # {}
    BY <2>1, CountOfLeft
  <2>4. 1 \in Nat /\ 1 > 0
    OBVIOUS
  <2> QED BY <2>1, <2>2, <2>3, <2>4, FetchStep
<1> QED BY <1>1, QueueInvariant, PTL

\* The set for the next level holds what was activated, as a list or as a bitmap.
THEOREM QueueSetIsActivated == Spec => []SetIsActivated
<1>1. IInv => SetIsActivated
  BY DEF IInv
<1> QED BY <1>1, QueueInvariant, PTL

-------------------------------------------------------------------------------
(* The partitioners                                                        *)

\* Quotient and remainder are the only numbers of this form.
LEMMA DivUnique == ASSUME NEW q \in Nat, NEW r \in Nat, NEW n \in Nat \ {0}, r < n
                   PROVE (n * q + r) \div n = q /\ (n * q + r) % n = r
OBVIOUS

\* Comparing numbers by quotient and remainder; the second remainder may be the divisor.
LEMMA LexLess == ASSUME NEW n \in Nat \ {0}, NEW a \in Nat, NEW q \in Nat, NEW b \in 0 .. n - 1, NEW r \in 0 .. n
                 PROVE n * a + b < n * q + r <=> a < q \/ (a = q /\ b < r)
<1>1. CASE a < q
  <2>1. PICK t \in Nat : q = a + 1 + t
    <3>1. q - a - 1 \in Nat /\ q = a + 1 + (q - a - 1)
      BY <1>1
    <3> QED BY <3>1
  <2>2. n * q = n * a + n + n * t /\ n * t \in Nat /\ n * a \in Nat
    BY <2>1
  <2> QED BY <1>1, <2>2
<1>2. CASE a = q
  <2>1. n * a = n * q /\ n * q \in Nat
    BY <1>2
  <2> QED BY <1>2, <2>1
<1>3. CASE a > q
  <2>1. PICK t \in Nat : a = q + 1 + t
    <3>1. a - q - 1 \in Nat /\ a = q + 1 + (a - q - 1)
      BY <1>3
    <3> QED BY <3>1
  <2>2. n * a = n * q + n + n * t /\ n * t \in Nat /\ n * q \in Nat
    BY <2>1
  <2> QED BY <1>3, <2>2
<1> QED BY <1>1, <1>2, <1>3

\* The place of a range in its stripe.
LEMMA InStripe == ASSUME NEW part \in Part
                  PROVE /\ Stripe \in Nat \ {0} /\ part \in Nat /\ RangeSize * part \in Nat
                        /\ part * RangeSize = RangeSize * part /\ RangeSize * part + RangeSize <= Stripe
<1> USE PartitionerAssumption
<1>1. part \in Nat /\ part + 1 <= NumParts
  BY DEF Part
<1>2. PICK t \in Nat : NumParts = part + 1 + t
  <2>1. NumParts - part - 1 \in Nat /\ NumParts = part + 1 + (NumParts - part - 1)
    BY <1>1
  <2> QED BY <2>1
<1>3. RangeSize * NumParts = RangeSize * part + RangeSize + RangeSize * t /\ RangeSize * t \in Nat /\ RangeSize * part \in Nat
  BY <1>1, <1>2
<1>4. part * RangeSize = RangeSize * part
  BY <1>1
<1> QED BY <1>1, <1>3, <1>4 DEF Stripe

\* The vertex of range a of the partition, at place b: what loc2map, map and map2loc make of it.
LEMMA RangeForm == ASSUME NEW part \in Part, NEW a \in Nat, NEW b \in 0 .. RangeSize - 1
                   PROVE LET id == Stripe * a + (RangeSize * part + b)
                         IN  /\ id \in Nat /\ RangeSize * part + b \in 0 .. Stripe - 1 /\ RangeSize * a + b \in Nat
                             /\ RangeLoc2Map(part, RangeSize * a + b) = id
                             /\ RangeMap(id) = part
                             /\ RangeMap2Loc(id) = [part |-> part, off |-> RangeSize * a + b]
<1> USE PartitionerAssumption
<1> DEFINE id == Stripe * a + (RangeSize * part + b)
           off == RangeSize * a + b
<1>1. /\ Stripe \in Nat \ {0} /\ part \in Nat /\ RangeSize * part \in Nat /\ part * RangeSize = RangeSize * part
      /\ RangeSize * part + RangeSize <= Stripe
  BY InStripe
<1>2. b \in Nat /\ b < RangeSize
  OBVIOUS
<1>3. RangeSize * part + b \in 0 .. Stripe - 1
  BY <1>1, <1>2
<1>4. off \in Nat /\ off \div RangeSize = a /\ off % RangeSize = b
  <2>1. RangeSize * a \in Nat
    OBVIOUS
  <2> QED BY <1>2, <2>1, DivUnique
<1>5. Stripe * a \in Nat /\ a * Stripe = Stripe * a /\ id \in Nat
  BY <1>1, <1>3
<1>6. RangeLoc2Map(part, off) = id
  <2>1. RangeLoc2Map(part, off) = a * Stripe + part * RangeSize + b
    BY <1>4 DEF RangeLoc2Map
  <2> HIDE DEF off
  <2> QED BY <1>1, <1>2, <1>5, <2>1
<1> DEFINE c == NumParts * a + part
<1>7. c \in Nat /\ part < NumParts
  <2>1. NumParts * a \in Nat
    OBVIOUS
  <2> QED BY <1>1, <2>1 DEF Part
<1>8. id = RangeSize * c + b
  <2>1. Stripe * a = RangeSize * (NumParts * a) /\ NumParts * a \in Nat
    BY DEF Stripe
  <2>2. RangeSize * c = RangeSize * (NumParts * a) + RangeSize * part
    BY <1>1, <2>1
  <2>3. RangeSize * (NumParts * a) \in Nat
    BY <2>1
  <2> QED BY <1>1, <1>2, <2>1, <2>2, <2>3
<1>9. c % NumParts = part /\ c \div NumParts = a
  BY <1>1, <1>7, DivUnique
<1>i. id \div RangeSize = c /\ id % RangeSize = b
  <2> HIDE DEF id, c
  <2> QED BY <1>2, <1>7, <1>8, DivUnique
<1> HIDE DEF id, c
<1>10. RangeMap(id) = part
  BY <1>9, <1>i DEF RangeMap
<1>11. a * RangeSize + b = off
  BY <1>2
<1>12. RangeMap2Loc(id) = [part |-> part, off |-> off]
  BY <1>9, <1>11, <1>i DEF RangeMap2Loc
<1> QED BY <1>3, <1>4, <1>5, <1>6, <1>10, <1>12 DEF id

\* Every vertex has this form.
LEMMA RangeIds == ASSUME NEW id \in Nat
                  PROVE \E part \in Part, a \in Nat, b \in 0 .. RangeSize - 1 : id = Stripe * a + (RangeSize * part + b)
<1> USE PartitionerAssumption
<1>1. PICK c \in Nat, b \in 0 .. RangeSize - 1 : id = RangeSize * c + b
  BY DivPick
<1>2. PICK a \in Nat, part \in 0 .. NumParts - 1 : c = NumParts * a + part
  BY DivPick
<1>3. NumParts * a \in Nat /\ part \in Nat /\ b \in Nat /\ RangeSize * part \in Nat
  OBVIOUS
<1>4. Stripe * a = RangeSize * (NumParts * a) /\ RangeSize * (NumParts * a) \in Nat
  BY <1>3 DEF Stripe
<1>5. RangeSize * c = RangeSize * (NumParts * a) + RangeSize * part
  BY <1>2, <1>3
<1>6. id = (Stripe * a + RangeSize * part) + b /\ Stripe * a \in Nat
  BY <1>1, <1>4, <1>5
<1>7. id = Stripe * a + (RangeSize * part + b)
  <2> DEFINE x == Stripe * a
             y == RangeSize * part
  <2>1. id = (x + y) + b /\ x \in Nat /\ y \in Nat /\ b \in Nat
    BY <1>3, <1>6
  <2> HIDE DEF x, y
  <2>2. id = x + (y + b)
    BY <2>1
  <2> QED BY <2>2 DEF x, y
<1> QED BY <1>7 DEF Part

\* Unsigned subtraction read as a signed number: get_part_end and get_part_size rely on it.
LEMMA WrapsBack == ASSUME NEW x \in Int, 2 * x < Word, 0 <= 2 * x + Word
                   PROVE /\ AsLong(Unsigned(x)) = x /\ Unsigned(x) \in Nat
                         /\ Unsigned(x) > 0 <=> x # 0
                         /\ x >= 0 => Unsigned(x) = x
<1>0. Word \in Nat \ {0}
  BY PartitionerAssumption
<1>1. CASE x >= 0
  <2>1. Unsigned(x) = x
    BY <1>0, <1>1 DEF Unsigned
  <2> QED BY <1>0, <1>1, <2>1 DEF AsLong
<1>2. CASE x < 0
  <2>1. Unsigned(x) = x + Word
    BY <1>0, <1>2 DEF Unsigned
  <2> QED BY <1>0, <1>2, <2>1 DEF AsLong
<1> QED BY <1>1, <1>2

\* get_part_end cuts the last stripe off behind the range of the partition, wrapped around or not.
LEMMA RangeEnd == ASSUME NEW part \in Part, NEW tot \in 0 .. MaxVertices, NEW q \in Nat, NEW r \in 0 .. Stripe - 1,
                         tot = Stripe * q + r
                  PROVE \E e \in 0 .. Stripe - 1 :
                           /\ e = IF r <= RangeSize * part + RangeSize THEN r ELSE RangeSize * part + RangeSize
                           /\ RangePartEnd(part, tot) = Stripe * q + e
<1> USE PartitionerAssumption
<1>1. /\ Stripe \in Nat \ {0} /\ part \in Nat /\ RangeSize * part \in Nat /\ part * RangeSize = RangeSize * part
      /\ RangeSize * part + RangeSize <= Stripe
  BY InStripe
<1>2. PICK at \in Nat, size \in Nat : at = RangeSize * part /\ size = RangeSize
  BY <1>1
<1>3. PICK whole \in Nat : whole = Stripe * q /\ whole = (tot \div Stripe) * Stripe
  <2>1. Stripe * q \in Nat /\ Stripe * q = q * Stripe /\ tot \div Stripe = q
    BY <1>1, DivUnique
  <2> QED BY <2>1
<1>4. tot = whole + r /\ r \in Nat /\ tot <= MaxVertices /\ at + size <= Stripe /\ r < Stripe /\ part * RangeSize = at
  BY <1>1, <1>2, <1>3
<1>5. 2 * (MaxVertices + Stripe) < Word /\ Word \in Nat
  BY DEF Stripe
<1> DEFINE x == tot - whole - at
           num == Unsigned(x)
           e == IF r <= at + size THEN r ELSE at + size
<1>6. x = r - at /\ x \in Int
  BY <1>4
<1>7. 2 * x < Word /\ 0 <= 2 * x + Word
  BY <1>1, <1>4, <1>5, <1>6
<1>8. AsLong(num) = x /\ num \in Nat /\ (num > 0 <=> x # 0)
  <2> HIDE DEF x
  <2> QED BY <1>6, <1>7, WrapsBack
<1>9. RangePartEnd(part, tot) = Unsigned(IF num > 0 THEN at + whole + Min({AsLong(num), RangeSize}) ELSE at + whole)
  BY <1>3, <1>4 DEF RangePartEnd
<1> HIDE DEF x, num
<1>10. Min({AsLong(num), RangeSize}) = IF x <= size THEN x ELSE size
  BY <1>2, <1>6, <1>8, MinMaxPair
<1>11. e = IF r <= at + size THEN r ELSE at + size
  OBVIOUS
<1> HIDE DEF e
<1>12. (IF num > 0 THEN at + whole + Min({AsLong(num), RangeSize}) ELSE at + whole) = whole + e
  BY <1>2, <1>4, <1>6, <1>8, <1>10, <1>11
<1>13. e \in Nat /\ e <= r
  BY <1>2, <1>4, <1>11
<1>a. e \in 0 .. Stripe - 1 /\ whole + e \in Nat /\ whole + e <= MaxVertices
  BY <1>1, <1>4, <1>13
<1>b. 2 * (whole + e) < Word /\ 0 <= 2 * (whole + e) + Word
  BY <1>1, <1>5, <1>a
<1>14. Unsigned(whole + e) = whole + e
  BY <1>a, <1>b, WrapsBack
<1>15. RangePartEnd(part, tot) = Stripe * q + e
  BY <1>3, <1>9, <1>12, <1>14
<1> QED BY <1>2, <1>11, <1>a, <1>15

\* The local ids of a partition are those that loc2map takes to vertices of the graph, and so are
\* the vertices before get_part_end.
LEMMA RangeOwn == ASSUME NEW part \in Part, NEW tot \in 0 .. MaxVertices, NEW a \in Nat, NEW b \in 0 .. RangeSize - 1
                  PROVE LET id == Stripe * a + (RangeSize * part + b)
                        IN  /\ RangePartSize(part, tot) \in Nat /\ RangePartEnd(part, tot) \in Nat
                            /\ RangeSize * a + b < RangePartSize(part, tot) <=> id < tot
                            /\ id < RangePartEnd(part, tot) <=> id < tot
<1> USE PartitionerAssumption
<1>1. /\ Stripe \in Nat \ {0} /\ part \in Nat /\ RangeSize * part \in Nat /\ part * RangeSize = RangeSize * part
      /\ RangeSize * part + RangeSize <= Stripe
  BY InStripe
<1>2. PICK q \in Nat, r \in 0 .. Stripe - 1 : tot = Stripe * q + r
  <2>1. tot \in Nat
    OBVIOUS
  <2> QED BY <1>1, <2>1, DivPick
<1>3. PICK e \in 0 .. Stripe - 1 :
        /\ e = IF r <= RangeSize * part + RangeSize THEN r ELSE RangeSize * part + RangeSize
        /\ RangePartEnd(part, tot) = Stripe * q + e
  BY <1>2, RangeEnd
<1>4. PICK at \in Nat, size \in Nat : at = RangeSize * part /\ size = RangeSize
  BY <1>1
<1>5. 2 * Stripe < Word /\ Word \in Nat
  BY DEF Stripe
<1> DEFINE x == e - at
           m == IF x >= 0 THEN x ELSE 0
<1>6. x \in Int /\ 2 * x < Word /\ 0 <= 2 * x + Word /\ m \in 0 .. size
  BY <1>1, <1>3, <1>4, <1>5
<1>7. RangePartSize(part, tot) = RangeSize * q + m
  <2> DEFINE end == RangePartEnd(part, tot)
             last == Unsigned(end - (end \div Stripe) * Stripe - part * RangeSize)
  <2>1. Stripe * q \in Nat /\ (end \div Stripe) = q /\ (end \div Stripe) * Stripe = Stripe * q
    <3>1. Stripe * q \in Nat /\ q * Stripe = Stripe * q
      BY <1>1
    <3>2. (Stripe * q + e) \div Stripe = q
      BY <1>1, DivUnique
    <3> QED BY <1>3, <3>1, <3>2
  <2>2. end - (end \div Stripe) * Stripe - part * RangeSize = x
    BY <1>1, <1>3, <1>4, <2>1
  <2>3. RangePartSize(part, tot) = (end \div Stripe) * RangeSize + Max({0, AsLong(last)})
    BY DEF RangePartSize
  <2> HIDE DEF x, end
  <2>4. AsLong(last) = x
    BY <1>6, <2>2, WrapsBack
  <2>5. Max({0, AsLong(last)}) = m
    <3>1. Max({0, x}) = IF 0 <= x THEN x ELSE 0
      BY <1>6, MinMaxPair
    <3> QED BY <1>6, <2>4, <3>1
  <2>6. q * RangeSize = RangeSize * q
    OBVIOUS
  <2> HIDE DEF last
  <2> QED BY <2>1, <2>3, <2>5, <2>6
<1>8. RangeSize * q \in Nat /\ Stripe * q \in Nat
  BY <1>1
<1>9. RangePartSize(part, tot) \in Nat /\ RangePartEnd(part, tot) \in Nat
  BY <1>3, <1>6, <1>7, <1>8
<1>10. m \in 0 .. RangeSize /\ RangeSize * part + b \in 0 .. Stripe - 1 /\ r \in 0 .. Stripe /\ e \in 0 .. Stripe
  BY <1>1, <1>4, <1>6
<1>11. RangeSize * a + b < RangeSize * q + m <=> a < q \/ (a = q /\ b < m)
  <2> HIDE DEF m
  <2> QED BY <1>10, LexLess
<1>12. Stripe * a + (RangeSize * part + b) < Stripe * q + r <=> a < q \/ (a = q /\ RangeSize * part + b < r)
  <2> DEFINE y == RangeSize * part + b
  <2>1. y \in 0 .. Stripe - 1
    BY <1>10
  <2> HIDE DEF y
  <2>2. Stripe * a + y < Stripe * q + r <=> a < q \/ (a = q /\ y < r)
    BY <1>1, <1>10, <2>1, LexLess
  <2> QED BY <2>2 DEF y
<1>13. Stripe * a + (RangeSize * part + b) < Stripe * q + e <=> a < q \/ (a = q /\ RangeSize * part + b < e)
  <2> DEFINE y == RangeSize * part + b
  <2>1. y \in 0 .. Stripe - 1
    BY <1>10
  <2> HIDE DEF y
  <2>2. Stripe * a + y < Stripe * q + e <=> a < q \/ (a = q /\ y < e)
    BY <1>1, <1>10, <2>1, LexLess
  <2> QED BY <2>2 DEF y
<1>14. /\ b < m <=> RangeSize * part + b < r
       /\ RangeSize * part + b < e <=> RangeSize * part + b < r
  BY <1>3, <1>4
<1> QED BY <1>2, <1>3, <1>7, <1>9, <1>11, <1>12, <1>13, <1>14

\* The vertices of a partition, as the local ids give them and as get_all_vertices_in_part does.
LEMMA RangeLocal == ASSUME NEW part \in Part, NEW tot \in 0 .. MaxVertices
                    PROVE LET own == {id \in 0 .. tot - 1 : RangeMap(id) = part}
                          IN  /\ \A off \in Nat : RangeMap2Loc(RangeLoc2Map(part, off)) = [part |-> part, off |-> off]
                              /\ {RangeLoc2Map(part, off) : off \in 0 .. RangePartSize(part, tot) - 1} = own
                              /\ RangeVertices(part, tot) = own
<1> USE PartitionerAssumption
<1> DEFINE own == {id \in 0 .. tot - 1 : RangeMap(id) = part}
           Id(a, b) == Stripe * a + (RangeSize * part + b)
           size == RangePartSize(part, tot)
           end == RangePartEnd(part, tot)
<1>0. tot \in Nat /\ RangeSize \in Nat \ {0}
  OBVIOUS
<1>1. ASSUME NEW a \in Nat, NEW b \in 0 .. RangeSize - 1
      PROVE /\ Id(a, b) \in Nat /\ RangeSize * a + b \in Nat /\ RangeLoc2Map(part, RangeSize * a + b) = Id(a, b)
            /\ RangeMap(Id(a, b)) = part /\ RangeMap2Loc(Id(a, b)) = [part |-> part, off |-> RangeSize * a + b]
            /\ size \in Nat /\ end \in Nat
            /\ RangeSize * a + b < size <=> Id(a, b) < tot
            /\ Id(a, b) < end <=> Id(a, b) < tot
  BY RangeForm, RangeOwn
<1>2. ASSUME NEW id \in Nat, RangeMap(id) = part PROVE \E a \in Nat, b \in 0 .. RangeSize - 1 : id = Id(a, b)
  <2>1. PICK p \in Part, a \in Nat, b \in 0 .. RangeSize - 1 : id = Stripe * a + (RangeSize * p + b)
    BY RangeIds
  <2>2. RangeMap(id) = p
    BY <2>1, RangeForm
  <2> QED BY <1>2, <2>1, <2>2
<1>3. ASSUME NEW off \in Nat PROVE \E a \in Nat, b \in 0 .. RangeSize - 1 : off = RangeSize * a + b
  BY <1>0, DivPick
<1>s. /\ Stripe \in Nat \ {0} /\ part \in Nat /\ RangeSize * part \in Nat /\ part * RangeSize = RangeSize * part
  BY InStripe
<1>i. \A a, b : Id(a, b) = Stripe * a + (RangeSize * part + b)
  OBVIOUS
<1> HIDE DEF Id, size, end
<1>4. ASSUME NEW off \in Nat PROVE RangeMap2Loc(RangeLoc2Map(part, off)) = [part |-> part, off |-> off]
  <2>1. PICK a \in Nat, b \in 0 .. RangeSize - 1 : off = RangeSize * a + b
    BY <1>3
  <2>2. RangeLoc2Map(part, RangeSize * a + b) = Id(a, b) /\ RangeMap2Loc(Id(a, b)) = [part |-> part, off |-> RangeSize * a + b]
    BY <1>1, Zenon
  <2> QED BY <2>1, <2>2, Zenon
<1>5. {RangeLoc2Map(part, off) : off \in 0 .. size - 1} = own
  <2>1. ASSUME NEW off \in 0 .. size - 1 PROVE RangeLoc2Map(part, off) \in own
    <3>0. off \in Nat
      OBVIOUS
    <3>1. PICK a \in Nat, b \in 0 .. RangeSize - 1 : off = RangeSize * a + b
      BY <1>3, <3>0
    <3>2. off < size
      BY <1>1, <3>1
    <3>3. /\ RangeLoc2Map(part, RangeSize * a + b) = Id(a, b) /\ Id(a, b) \in Nat /\ RangeMap(Id(a, b)) = part
          /\ RangeSize * a + b < size <=> Id(a, b) < tot
      BY <1>1, Zenon
    <3>4. RangeLoc2Map(part, off) = Id(a, b) /\ Id(a, b) < tot
      BY <3>1, <3>2, <3>3, Zenon
    <3>5. Id(a, b) \in 0 .. tot - 1
      BY <1>0, <3>3, <3>4
    <3> QED BY <3>3, <3>4, <3>5, Zenon
  <2>2. ASSUME NEW id \in own PROVE \E off \in 0 .. size - 1 : RangeLoc2Map(part, off) = id
    <3>1. id \in Nat /\ id < tot /\ RangeMap(id) = part
      BY <1>0
    <3>2. PICK a \in Nat, b \in 0 .. RangeSize - 1 : id = Id(a, b)
      BY <1>2, <3>1
    <3>3. RangeSize * a + b \in 0 .. size - 1
      BY <1>1, <3>1, <3>2
    <3> QED BY <1>1, <3>2, <3>3
  <2> QED BY <2>1, <2>2
<1>6. RangeVertices(part, tot) = own
  <2> DEFINE starts == {s \in {part * RangeSize + k * Stripe : k \in 0 .. tot} : s < end}
             Run(s) == s .. s + Min({RangeSize, end - s}) - 1
  <2>1. RangeVertices(part, tot) = UNION {Run(s) : s \in starts}
    BY DEF RangeVertices, end
  <2>2. 0 \in Nat /\ 0 \in 0 .. RangeSize - 1
    BY <1>0
  <2>3. end \in Nat
    BY <1>1, <2>2
  <2>4. ASSUME NEW s \in Nat, s < end
        PROVE Min({RangeSize, end - s}) = IF RangeSize <= end - s THEN RangeSize ELSE end - s
    BY <1>0, <2>3, MinMaxPair
  <2>5. ASSUME NEW k \in Nat, NEW b \in Nat
        PROVE /\ part * RangeSize + k * Stripe \in Nat
              /\ Id(k, b) = (part * RangeSize + k * Stripe) + b
    <3> DEFINE x == Stripe * k
               y == RangeSize * part
    <3>1. k * Stripe = x /\ x \in Nat /\ part * RangeSize = y /\ y \in Nat /\ Id(k, b) = x + (y + b)
      BY <1>s, <1>i
    <3> HIDE DEF x, y
    <3> QED BY <3>1
  <2>6. ASSUME NEW s \in starts, NEW id \in Run(s) PROVE id \in own
    <3>1. PICK k \in 0 .. tot : s = part * RangeSize + k * Stripe
      OBVIOUS
    <3>2. k \in Nat /\ s \in Nat /\ s < end
      BY <2>5, <3>1
    <3>3. PICK b \in Nat : id = s + b /\ b < RangeSize /\ id < end
      <4>1. id \in Int /\ id - s \in Nat /\ id - s < RangeSize /\ id < end /\ id = s + (id - s)
        <5> HIDE DEF starts
        <5> QED BY <1>0, <2>3, <2>4, <3>2
      <4> QED BY <4>1
    <3>4. id = Id(k, b) /\ b \in 0 .. RangeSize - 1
      BY <1>0, <2>5, <3>1, <3>2, <3>3
    <3>5. /\ Id(k, b) \in Nat /\ RangeMap(Id(k, b)) = part
          /\ Id(k, b) < end <=> Id(k, b) < tot
      BY <1>1, <3>2, <3>4, Zenon
    <3>6. id \in Nat /\ id < tot /\ RangeMap(id) = part
      BY <3>3, <3>4, <3>5, Zenon
    <3> QED BY <1>0, <3>6
  <2>7. ASSUME NEW id \in own PROVE \E s \in starts : id \in Run(s)
    <3>1. id \in Nat /\ id < tot /\ RangeMap(id) = part
      BY <1>0
    <3>2. PICK k \in Nat, b \in 0 .. RangeSize - 1 : id = Id(k, b)
      BY <1>2, <3>1
    <3> DEFINE s == part * RangeSize + k * Stripe
    <3>3. s \in Nat /\ id = s + b /\ b \in Nat
      BY <2>5, <3>2
    <3>4. id < end
      BY <1>1, <3>1, <3>2
    <3>5. k <= tot
      <4>1. k * Stripe >= k /\ k * Stripe \in Nat
        <5>1. PICK t \in Nat : Stripe = t + 1
          <6>1. Stripe - 1 \in Nat /\ Stripe = (Stripe - 1) + 1
            BY <1>s
          <6> QED BY <6>1
        <5>2. k * Stripe = k * t + k /\ k * t \in Nat
          BY <5>1
        <5> QED BY <5>2
      <4>2. part * RangeSize \in Nat
        BY <1>s
      <4> DEFINE x == k * Stripe
                 y == part * RangeSize
      <4>3. x \in Nat /\ y \in Nat /\ x >= k /\ id = y + x + b
        BY <3>3, <4>1, <4>2
      <4> HIDE DEF x, y, s
      <4> QED BY <1>0, <3>1, <3>3, <4>3
    <3>6. s \in starts
      <4>1. s < end
        <5> HIDE DEF s
        <5> QED BY <2>3, <3>3, <3>4
      <4> QED BY <1>0, <3>5, <4>1
    <3> HIDE DEF s, starts
    <3>7. id \in Run(s)
      <4>1. s < end /\ b < RangeSize
        BY <1>0, <2>3, <3>3, <3>4
      <4> QED BY <1>0, <2>3, <2>4, <3>3, <3>4, <4>1
    <3> QED BY <3>6, <3>7
  <2> HIDE DEF starts, Run, own
  <2> QED BY <2>1, <2>6, <2>7
<1> QED BY <1>4, <1>5, <1>6 DEF size


\* The same for the partitioner that deals the vertices out one by one.
LEMMA ModuloLocal == ASSUME NEW part \in Part, NEW tot \in 0 .. MaxVertices
                     PROVE LET own == {id \in 0 .. tot - 1 : ModuloMap(id) = part}
                           IN  /\ \A off \in Nat : ModuloMap2Loc(ModuloLoc2Map(part, off)) = [part |-> part, off |-> off]
                               /\ {ModuloLoc2Map(part, off) : off \in 0 .. ModuloPartSize(part, tot) - 1} = own
                               /\ ModuloVertices(part, tot) = own
<1> USE PartitionerAssumption
<1> DEFINE own == {id \in 0 .. tot - 1 : ModuloMap(id) = part}
           Id(off) == ModuloLoc2Map(part, off)
           size == ModuloPartSize(part, tot)
           y == tot - part + NumParts - 1
<1>0. tot \in Nat /\ part \in Nat /\ part < NumParts /\ NumParts \in Nat \ {0}
  BY DEF Part
<1>1. ASSUME NEW off \in Nat
      PROVE /\ Id(off) = NumParts * off + part /\ NumParts * off \in Nat /\ Id(off) \in Nat
            /\ off * NumParts = NumParts * off
            /\ ModuloMap(Id(off)) = part /\ ModuloMap2Loc(Id(off)) = [part |-> part, off |-> off]
  <2>1. NumParts * off \in Nat /\ off * NumParts = NumParts * off
    OBVIOUS
  <2>2. Id(off) = NumParts * off + part
    BY <2>1 DEF ModuloLoc2Map
  <2>3. (NumParts * off + part) \div NumParts = off /\ (NumParts * off + part) % NumParts = part
    BY <1>0, DivUnique
  <2>4. Id(off) \in Nat
    BY <1>0, <2>1, <2>2
  <2> QED BY <2>1, <2>2, <2>3, <2>4 DEF ModuloMap, ModuloMap2Loc
<1>2. ASSUME NEW id \in Nat, ModuloMap(id) = part PROVE \E off \in Nat : id = Id(off)
  <2>1. PICK off \in Nat, b \in 0 .. NumParts - 1 : id = NumParts * off + b
    BY DivPick
  <2>2. id % NumParts = b
    BY <2>1, DivUnique
  <2> QED BY <1>1, <1>2, <2>1, <2>2 DEF ModuloMap
<1>3. y \in Nat
  BY <1>0
<1>4. PICK q \in Nat, r \in 0 .. NumParts - 1 : y = NumParts * q + r
  <2> HIDE DEF y
  <2> QED BY <1>3, DivPick
<1>5. size = q
  <2>1. size = y \div NumParts
    BY DEF ModuloPartSize
  <2> HIDE DEF y, size
  <2> QED BY <1>4, <2>1, DivUnique
<1>6. ASSUME NEW off \in Nat PROVE off < size <=> Id(off) < tot
  <2> DEFINE x == NumParts * off
             z == NumParts * q
  <2>1. x \in Nat /\ z \in Nat /\ tot - part + NumParts - 1 = z + r /\ Id(off) = x + part
    BY <1>1, <1>4
  <2>2. CASE off < q
    <3>1. PICK t \in Nat : q = off + 1 + t
      <4>1. q - off - 1 \in Nat /\ q = off + 1 + (q - off - 1)
        BY <2>2
      <4> QED BY <4>1
    <3>2. z = x + NumParts + NumParts * t /\ NumParts * t \in Nat
      BY <3>1
    <3> DEFINE w == NumParts * t
    <3>3. z = x + NumParts + w /\ w \in Nat
      BY <3>2
    <3> HIDE DEF x, z, w, Id, size
    <3> QED BY <1>0, <1>5, <2>1, <2>2, <3>3
  <2>3. CASE ~(off < q)
    <3>1. PICK t \in Nat : off = q + t
      <4>1. off - q \in Nat /\ off = q + (off - q)
        BY <2>3
      <4> QED BY <4>1
    <3>2. x = z + NumParts * t /\ NumParts * t \in Nat
      BY <3>1
    <3> DEFINE w == NumParts * t
    <3>3. x = z + w /\ w \in Nat
      BY <3>2
    <3> HIDE DEF x, z, w, Id, size
    <3> QED BY <1>0, <1>5, <2>1, <2>3, <3>3
  <2> QED BY <2>2, <2>3
<1>7. size \in Nat
  BY <1>5
<1> HIDE DEF Id, size, y
<1>8. {Id(off) : off \in 0 .. size - 1} = own
  <2>1. ASSUME NEW off \in 0 .. size - 1 PROVE Id(off) \in own
    <3>1. off \in Nat /\ off < size
      BY <1>7
    <3>2. Id(off) \in Nat /\ Id(off) < tot /\ ModuloMap(Id(off)) = part
      BY <1>1, <1>6, <3>1
    <3> QED BY <1>0, <3>2
  <2>2. ASSUME NEW id \in own PROVE \E off \in 0 .. size - 1 : Id(off) = id
    <3>1. id \in Nat /\ id < tot /\ ModuloMap(id) = part
      BY <1>0
    <3>2. PICK off \in Nat : id = Id(off)
      BY <1>2, <3>1
    <3>3. off < size
      BY <1>6, <3>1, <3>2
    <3> QED BY <1>7, <3>2, <3>3
  <2> QED BY <2>1, <2>2
<1>9. ModuloVertices(part, tot) = own
  <2> DEFINE ids == {part + k * NumParts : k \in 0 .. tot}
  <2>1. ModuloVertices(part, tot) = {id \in ids : id < tot}
    BY DEF ModuloVertices
  <2>2. ASSUME NEW k \in Nat PROVE part + k * NumParts = Id(k)
    <3> DEFINE x == NumParts * k
    <3>1. x \in Nat /\ k * NumParts = x /\ Id(k) = x + part
      BY <1>1
    <3> HIDE DEF x
    <3> QED BY <1>0, <3>1
  <2>3. ASSUME NEW id \in ids, id < tot PROVE id \in own
    <3>1. PICK k \in 0 .. tot : id = part + k * NumParts
      OBVIOUS
    <3>2. k \in Nat
      BY <1>0
    <3>3. id = Id(k)
      BY <2>2, <3>1, <3>2
    <3>4. id \in Nat /\ ModuloMap(id) = part
      BY <1>1, <3>2, <3>3
    <3> QED BY <1>0, <2>3, <3>4
  <2>4. ASSUME NEW id \in own PROVE id \in ids /\ id < tot
    <3>1. id \in Nat /\ id < tot /\ ModuloMap(id) = part
      BY <1>0
    <3>2. PICK k \in Nat : id = Id(k)
      BY <1>2, <3>1
    <3>3. k <= tot
      <4>1. PICK t \in Nat : NumParts = t + 1
        <5>1. NumParts - 1 \in Nat /\ NumParts = (NumParts - 1) + 1
          BY <1>0
        <5> QED BY <5>1
      <4>2. NumParts * k = t * k + k /\ t * k \in Nat
        BY <4>1
      <4> DEFINE w == t * k
      <4>3. w \in Nat /\ id = (w + k) + part
        BY <1>1, <3>2, <4>2
      <4> HIDE DEF w
      <4> QED BY <1>0, <3>1, <4>3
    <3>4. k \in 0 .. tot /\ id = part + k * NumParts
      BY <1>0, <2>2, <3>2, <3>3
    <3> QED BY <3>1, <3>4
  <2> HIDE DEF ids, own
  <2> QED BY <2>1, <2>3, <2>4
<1>10. \A off \in Nat : ModuloMap2Loc(Id(off)) = [part |-> part, off |-> off]
  BY <1>1
<1> QED BY <1>8, <1>9, <1>10 DEF Id, size

\* The local ids that a worker activates and hands out are the vertices of its partition, under
\* either partitioner, for every number of vertices and of partitions.
THEOREM QueueVerticesAreOwn == Spec => []VerticesAreOwn
<1>1. IInv => VerticesAreOwn
  <2> SUFFICES ASSUME IInv PROVE VerticesAreOwn
    OBVIOUS
  <2>1. wanted \cup activated \subseteq Nat
    BY SizesAssumption DEF IInv, Types, Local
  <2>2. ASSUME NEW tot \in 0 .. MaxVertices, NEW part \in Part
        PROVE /\ \A off \in wanted \cup activated :
                    RangeMap2Loc(RangeLoc2Map(part, off)) = [part |-> part, off |-> off]
              /\ wanted = 0 .. RangePartSize(part, tot) - 1 =>
                    /\ {RangeLoc2Map(part, off) : off \in wanted} = {id \in 0 .. tot - 1 : RangeMap(id) = part}
                    /\ {RangeLoc2Map(part, off) : off \in wanted} = RangeVertices(part, tot)
    <3>1. /\ \A off \in Nat : RangeMap2Loc(RangeLoc2Map(part, off)) = [part |-> part, off |-> off]
          /\ {RangeLoc2Map(part, off) : off \in 0 .. RangePartSize(part, tot) - 1} = {id \in 0 .. tot - 1 : RangeMap(id) = part}
          /\ RangeVertices(part, tot) = {id \in 0 .. tot - 1 : RangeMap(id) = part}
      BY RangeLocal
    <3> QED BY <2>1, <3>1, Zenon
  <2>3. ASSUME NEW tot \in 0 .. MaxVertices, NEW part \in Part
        PROVE /\ \A off \in wanted \cup activated :
                    ModuloMap2Loc(ModuloLoc2Map(part, off)) = [part |-> part, off |-> off]
              /\ wanted = 0 .. ModuloPartSize(part, tot) - 1 =>
                    /\ {ModuloLoc2Map(part, off) : off \in wanted} = {id \in 0 .. tot - 1 : ModuloMap(id) = part}
                    /\ {ModuloLoc2Map(part, off) : off \in wanted} = ModuloVertices(part, tot)
    <3>1. /\ \A off \in Nat : ModuloMap2Loc(ModuloLoc2Map(part, off)) = [part |-> part, off |-> off]
          /\ {ModuloLoc2Map(part, off) : off \in 0 .. ModuloPartSize(part, tot) - 1} = {id \in 0 .. tot - 1 : ModuloMap(id) = part}
          /\ ModuloVertices(part, tot) = {id \in 0 .. tot - 1 : ModuloMap(id) = part}
      BY ModuloLocal
    <3> QED BY <2>1, <3>1, Zenon
  <2>4. \A p \in Places : p[1] \in 0 .. MaxVertices /\ p[2] \in Part
    BY DEF Places
  <2> QED BY <2>2, <2>3, <2>4, Zenon DEF VerticesAreOwn
<1> QED BY <1>1, QueueInvariant, PTL
===============================================================================
