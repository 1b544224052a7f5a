------------------------------- MODULE APRProofs -------------------------------
(***************************************************************************)
(* Proofs about the APR policy of one cell, for every number of frames and *)
(* every set of pages.                                                     *)
(***************************************************************************)
EXTENDS APR, WellFoundedInduction, TLAPS

-----------------------------------------------------------------------------
(* The inductive invariant *)

PageRec == [id : Page \cup {None}, ref : BOOLEAN, dirty : BOOLEAN, hits : BOOLEAN,
            boundary : BOOLEAN, evicted : Policy \cup {None},
            lifoStale : BOOLEAN, clockStale : BOOLEAN]
GhostRec == [policy : Policy, idx : Frame]
PolRec == [sample : BOOLEAN, lead : Policy, warm : BOOLEAN, entries : 0 .. N, clock : Frame, lifo : 0 .. N,
           lt : Seq(Frame)]
NoGhosts == \A p \in Page : ghost[p] = None

\* A page is in one frame of the cell.
OneFrame == \A f, g \in Frame : f # g /\ pg[f].id # None => pg[f].id # pg[g].id

\* During the warm-up the frames are filled in their order, LIFO leads and there are no ghosts.
WarmUpOrder ==
    pol.warm =>
        /\ pol.lead = "LIFO" /\ pol.lifo = pol.entries /\ pol.entries < N /\ NoGhosts
        /\ \A f \in Frame : IF f < pol.entries THEN pg[f].id # None ELSE pg[f].id = None /\ ~pg[f].ref

\* Only a sampled cell has ghosts.
FollowersHaveNone == ~pol.sample => NoGhosts

IInv ==
    /\ TypeOK /\ LifoListComplete /\ WarmUpFillsCell /\ GhostsAreEvicted
    /\ OneFrame /\ WarmUpOrder /\ FollowersHaveNone

-----------------------------------------------------------------------------
(* Induction over the natural numbers, with a set in place of a predicate. *)

LEMMA LeastNumber == ASSUME NEW T, T \subseteq Nat, T # {}
                     PROVE \E x \in T : \A y \in T : x <= y
<1>1. PICK R : R = OpToRel(<, Nat)
  OBVIOUS
<1>2. IsWellFoundedOn(R, Nat)
  BY <1>1, NatLessThanWellFounded
<1>3. PICK x \in T : \A y \in T : ~ (<<y, x>> \in R)
  BY <1>2, WFMin
<1>4. \A y \in T : y < x => <<y, x>> \in R
  BY <1>1 DEF OpToRel
<1>5. \A y \in T : ~(y < x)
  BY <1>3, <1>4
<1>6. \A y \in T : x <= y
  <2> TAKE y \in T
  <2>1. x \in Nat /\ y \in Nat
    OBVIOUS
  <2> QED BY <1>5, <2>1
<1> QED BY <1>6

LEMMA SetInduction == ASSUME NEW T, 0 \in T, \A n \in Nat : n \in T => n + 1 \in T
                      PROVE Nat \subseteq T
<1> SUFFICES ASSUME Nat \ T # {} PROVE FALSE
  OBVIOUS
<1>1. PICK x \in Nat \ T : \A y \in Nat \ T : x <= y
  BY LeastNumber
<1>2. x - 1 \in Nat /\ x - 1 \in T
  BY <1>1
<1> QED BY <1>1, <1>2

\* The function of the steps of a scan exists.
LEMMA AfterExists == ASSUME NEW n \in Nat, NEW s, NEW scan
                     PROVE \E g : g = [i \in 0 .. n |-> IF i = 0 THEN s ELSE ScanStep(g[i - 1], i, scan)]
<1> DEFINE Def(m, g) == g = [i \in 0 .. m |-> IF i = 0 THEN s ELSE ScanStep(g[i - 1], i, scan)]
           T == {m \in Nat : \E g : Def(m, g)}
<1>1. 0 \in T
  <2>1. Def(0, [i \in 0 .. 0 |-> s])
    OBVIOUS
  <2> QED BY <2>1
<1>2. \A m \in Nat : m \in T => m + 1 \in T
  <2> TAKE m \in Nat
  <2> HAVE m \in T
  <2>1. PICK g : Def(m, g)
    OBVIOUS
  <2> DEFINE h == [i \in 0 .. m + 1 |-> IF i = m + 1 THEN ScanStep(g[m], i, scan) ELSE g[i]]
  <2>2. m + 1 # 0 /\ m \in 0 .. m
    OBVIOUS
  <2>3. \A i \in 0 .. m + 1 : h[i] = IF i = 0 THEN s ELSE ScanStep(h[i - 1], i, scan)
    <3> TAKE i \in 0 .. m + 1
    <3>1. CASE i = m + 1
      BY <3>1, <2>2
    <3>2. CASE i # m + 1
      <4>1. i \in 0 .. m /\ (i # 0 => i - 1 \in 0 .. m /\ i - 1 \in 0 .. m + 1 /\ i - 1 # m + 1)
        BY <3>2
      <4>2. h[i] = g[i] /\ (i # 0 => h[i - 1] = g[i - 1])
        BY <4>1, <3>2
      <4>3. g[i] = IF i = 0 THEN s ELSE ScanStep(g[i - 1], i, scan)
        BY <4>1, <2>1
      <4> QED BY <4>2, <4>3
    <3> QED BY <3>1, <3>2
  <2>4. Def(m + 1, h)
    BY <2>3
  <2>5. m + 1 \in Nat
    OBVIOUS
  <2> HIDE DEF h, Def
  <2> QED BY <2>4, <2>5
<1>3. n \in T
  <2> HIDE DEF T
  <2> QED BY <1>1, <1>2, SetInduction
<1> QED BY <1>3

LEMMA ScanSteps == ASSUME NEW n \in Nat, NEW s, NEW scan
                   PROVE \E g : /\ g[0] = s /\ Scan(s, scan, n) = g[n]
                                /\ \A i \in 1 .. n : g[i] = ScanStep(g[i - 1], i, scan)
<1> DEFINE Def(g) == g = [i \in 0 .. n |-> IF i = 0 THEN s ELSE ScanStep(g[i - 1], i, scan)]
           after == CHOOSE g : Def(g)
<1>1. Def(after)
  BY AfterExists
<1>2. Scan(s, scan, n) = after[n]
  BY DEF Scan
<1>3. after[0] = s /\ \A i \in 1 .. n : after[i] = ScanStep(after[i - 1], i, scan)
  <2> HIDE DEF after
  <2>1. 0 \in 0 .. n /\ \A i \in 1 .. n : i \in 0 .. n /\ i # 0
    OBVIOUS
  <2> QED BY <1>1, <2>1
<1> QED BY <1>2, <1>3

-----------------------------------------------------------------------------
(* The state an eviction works on *)

WorkRec == [pg : [Frame -> PageRec], ghost : [Page -> {None} \cup GhostRec], pol : PolRec,
            wins : SUBSET Policy, nref : Nat, skipped : Nat, avoid : BOOLEAN, stop : BOOLEAN,
            victim : Frame \cup {None}]

\* A list that names every frame once.
Complete(lt) == lt \in Seq(Frame) /\ Len(lt) = N /\ {lt[i] : i \in 1 .. Len(lt)} = Frame

\* No page is in two frames, p is in none.
Apart(s, p) == \A f \in Frame : s.pg[f].id # p /\ \A g \in Frame : f # g /\ s.pg[f].id # None => s.pg[f].id # s.pg[g].id

\* The pages in the frames but v, and p, are no ghosts; a stale mark has its ghost.
Free(s, v, p) == /\ s.ghost[p] = None
                 /\ \A f \in Frame \ {v} : s.pg[f].id # None => s.ghost[s.pg[f].id] = None
Marked(s, f) == /\ s.pg[f].lifoStale  => \E q \in Page : s.ghost[q] = [policy |-> "CLOCK", idx |-> f]
                /\ s.pg[f].clockStale => \E q \in Page : s.ghost[q] = [policy |-> "LIFO", idx |-> f]

Fine(s, v, p) == /\ s \in WorkRec /\ Complete(s.pol.lt) /\ Apart(s, p) /\ Free(s, v, p)
                 /\ \A f \in Frame : Marked(s, f)

\* What the policies leave alone.
Same(s, w) == /\ \A f \in Frame : w.pg[f].id = s.pg[f].id /\ w.pg[f].ref = s.pg[f].ref
              /\ w.pol.sample = s.pol.sample /\ w.pol.lead = s.pol.lead
              /\ w.pol.warm = s.pol.warm /\ w.pol.entries = s.pol.entries

\* The victim of a scan is not referenced; a voting LIFO has its head there.
Found(s, scan) == s.victim # None => ~s.pg[s.victim].ref /\ (scan = "voter lifo" => s.pol.lifo = s.victim)

LEMMA SameTrans == ASSUME NEW s, NEW v, NEW w, Same(s, v), Same(v, w) PROVE Same(s, w)
BY DEF Same

LEMMA Constants == N \in Nat /\ N # 0 /\ None \notin Page /\ None \notin Frame /\ Frame = 0 .. N - 1 /\ Frame # {}
<1>1. N \in Nat /\ N # 0 /\ None \notin Page /\ None \notin 0 .. N - 1
  BY ConstantsAssumption
<1>2. Frame = 0 .. N - 1
  BY DEF Frame
<1>3. 0 \in 0 .. N - 1
  BY <1>1
<1> QED BY <1>1, <1>2, <1>3

\* A change of one frame's page, of the fields that Fine does not look at, or that takes marks away.
Milder(q, r) == /\ q.id = r.id /\ q.ref = r.ref /\ (q.lifoStale => r.lifoStale) /\ (q.clockStale => r.clockStale)

\* A step that only changes marks of pages, the heads, the list, the counts and the victim.
LEMMA MilderFine ==
  ASSUME NEW s, NEW w \in WorkRec, NEW v, NEW p, Fine(s, v, p),
         \A f \in Frame : Milder(w.pg[f], s.pg[f]), w.ghost = s.ghost, Complete(w.pol.lt),
         w.pol.sample = s.pol.sample, w.pol.lead = s.pol.lead, w.pol.warm = s.pol.warm, w.pol.entries = s.pol.entries
  PROVE  Fine(w, v, p) /\ Same(s, w)
<1>1. Same(s, w)
  BY DEF Same, Milder
<1>2. Apart(w, p) /\ Free(w, v, p)
  BY DEF Fine, Apart, Free, Milder
<1>3. \A f \in Frame : Marked(w, f)
  BY DEF Fine, Marked, Milder
<1> QED BY <1>1, <1>2, <1>3 DEF Fine


\* What every operation in a scan keeps (the frame v apart).
Kept(s, w, v, p, scan) == Fine(w, v, p) /\ Same(s, w) /\ w.ghost = s.ghost /\ (Found(s, scan) => Found(w, scan))

LEMMA KeptFine == ASSUME NEW s, NEW w, NEW v, NEW p, NEW scan, Kept(s, w, v, p, scan) PROVE Fine(w, v, p) /\ Same(s, w)
BY DEF Kept

LEMMA KeptTrans == ASSUME NEW s, NEW u, NEW w, NEW v, NEW p, NEW scan, Kept(s, u, v, p, scan), Kept(u, w, v, p, scan)
                   PROVE Kept(s, w, v, p, scan)
BY SameTrans DEF Kept

LEMMA MilderKept ==
  ASSUME NEW s, NEW w \in WorkRec, NEW v, NEW p, NEW scan, Fine(s, v, p),
         \A f \in Frame : Milder(w.pg[f], s.pg[f]), w.ghost = s.ghost, Complete(w.pol.lt),
         w.pol.sample = s.pol.sample, w.pol.lead = s.pol.lead, w.pol.warm = s.pol.warm, w.pol.entries = s.pol.entries,
         Found(s, scan) => Found(w, scan)
  PROVE  Kept(s, w, v, p, scan)
BY MilderFine DEF Kept

\* Counters, winners and marks.
LEMMA OthersKept ==
  ASSUME NEW s, NEW w \in WorkRec, NEW v, NEW p, NEW scan, Fine(s, v, p),
         \A f \in Frame : Milder(w.pg[f], s.pg[f]), w.ghost = s.ghost, w.pol = s.pol, w.victim = s.victim
  PROVE  Kept(s, w, v, p, scan)
<1>1. s \in WorkRec /\ Complete(s.pol.lt)
  BY DEF Fine
<1>2. Found(s, scan) => Found(w, scan)
  <2>1. s.victim \in Frame \cup {None}
    BY <1>1 DEF WorkRec
  <2> QED BY <2>1 DEF Found, Milder
<1> QED BY <1>1, <1>2, MilderKept

LEMMA CountsKept ==
  ASSUME NEW s, NEW v, NEW p, NEW scan, NEW winner \in Policy, Fine(s, v, p)
  PROVE  /\ Kept(s, Again(s), v, p, scan) /\ Kept(s, CountRef(s), v, p, scan) /\ Kept(s, Skip(s), v, p, scan)
         /\ Kept(s, EndChallenge(s, winner), v, p, scan)
<1>1. s \in WorkRec /\ \A f \in Frame : Milder(s.pg[f], s.pg[f])
  BY DEF Fine, Milder
<1>2. PICK w : w = Again(s)
  OBVIOUS
<1>3. w \in WorkRec /\ w.pg = s.pg /\ w.ghost = s.ghost /\ w.pol = s.pol /\ w.victim = s.victim
  BY <1>1, <1>2 DEF WorkRec, Again
<1>4. PICK x : x = CountRef(s)
  OBVIOUS
<1>5. x \in WorkRec /\ x.pg = s.pg /\ x.ghost = s.ghost /\ x.pol = s.pol /\ x.victim = s.victim
  <2>1. N \in Nat /\ s.nref \in Nat
    BY <1>1, Constants DEF WorkRec
  <2>2. PICK m \in Nat : m = s.nref + 1
    BY <2>1
  <2>3. x = [s EXCEPT !.nref = m, !.stop = (m >= N)]
    BY <1>1, <1>4, <2>2 DEF CountRef, WorkRec
  <2>4. CASE m >= N
    <3>1. x = [s EXCEPT !.nref = m, !.stop = TRUE]
      BY <2>3, <2>4
    <3> QED BY <1>1, <3>1 DEF WorkRec
  <2>5. CASE ~(m >= N)
    <3>0. (m >= N) = FALSE
      BY <2>5
    <3>1. x = [s EXCEPT !.nref = m, !.stop = FALSE]
      BY Zenon, <2>3, <3>0
    <3> QED BY <1>1, <3>1 DEF WorkRec
  <2> QED BY <2>4, <2>5
<1>6. PICK y : y = Skip(s)
  OBVIOUS
<1>7. y \in WorkRec /\ y.pg = s.pg /\ y.ghost = s.ghost /\ y.pol = s.pol /\ y.victim = s.victim
  BY <1>1, <1>6 DEF WorkRec, Skip
<1>8. PICK z : z = EndChallenge(s, winner)
  OBVIOUS
<1>9. z \in WorkRec /\ z.pg = s.pg /\ z.ghost = s.ghost /\ z.pol = s.pol /\ z.victim = s.victim
  BY <1>1, <1>8 DEF WorkRec, EndChallenge
<1>10. Kept(s, w, v, p, scan)
  BY <1>1, <1>3, OthersKept
<1>11. Kept(s, x, v, p, scan)
  BY <1>1, <1>5, OthersKept
<1>12. Kept(s, y, v, p, scan)
  BY <1>1, <1>7, OthersKept
<1>13. Kept(s, z, v, p, scan)
  BY <1>1, <1>9, OthersKept
<1> QED BY <1>2, <1>4, <1>6, <1>8, <1>10, <1>11, <1>12, <1>13

\* One page of a working state is replaced.
LEMMA PutPage ==
  ASSUME NEW s \in WorkRec, NEW f \in Frame, NEW q \in PageRec
  PROVE  LET w == [s EXCEPT !.pg[f] = q]
         IN  /\ w \in WorkRec /\ w.ghost = s.ghost /\ w.pol = s.pol /\ w.victim = s.victim
             /\ w.pg[f] = q /\ \A g \in Frame \ {f} : w.pg[g] = s.pg[g]
BY DEF WorkRec

LEMMA PageKept ==
  ASSUME NEW s, NEW v, NEW p, NEW scan, NEW f \in Frame, NEW q \in PageRec, Fine(s, v, p), Milder(q, s.pg[f])
  PROVE  Kept(s, [s EXCEPT !.pg[f] = q], v, p, scan)
<1>1. s \in WorkRec
  BY DEF Fine
<1>2. PICK w : w = [s EXCEPT !.pg[f] = q]
  OBVIOUS
<1>3. /\ w \in WorkRec /\ w.ghost = s.ghost /\ w.pol = s.pol /\ w.victim = s.victim
      /\ w.pg[f] = q /\ \A g \in Frame \ {f} : w.pg[g] = s.pg[g]
  BY <1>1, <1>2, PutPage
<1>4. \A g \in Frame : Milder(w.pg[g], s.pg[g])
  BY <1>3 DEF Milder
<1> QED BY <1>2, <1>3, <1>4, OthersKept

LEMMA MarksKept ==
  ASSUME NEW s, NEW v, NEW p, NEW scan, NEW f \in Frame, Fine(s, v, p)
  PROVE  /\ Kept(s, [s EXCEPT !.pg[f].hits = FALSE], v, p, scan)
         /\ Kept(s, [s EXCEPT !.pg[f].boundary = FALSE], v, p, scan)
         /\ Kept(s, [s EXCEPT !.pg[f].clockStale = FALSE], v, p, scan)
         /\ Kept(s, [s EXCEPT !.pg[f].lifoStale = FALSE], v, p, scan)
<1>1. s \in WorkRec
  BY DEF Fine
<1>2. PICK q : q = s.pg[f]
  OBVIOUS
<1>3. q \in PageRec
  BY <1>1, <1>2 DEF WorkRec
<1>4. /\ [q EXCEPT !.hits = FALSE] \in PageRec /\ Milder([q EXCEPT !.hits = FALSE], q)
      /\ [q EXCEPT !.boundary = FALSE] \in PageRec /\ Milder([q EXCEPT !.boundary = FALSE], q)
      /\ [q EXCEPT !.clockStale = FALSE] \in PageRec /\ Milder([q EXCEPT !.clockStale = FALSE], q)
      /\ [q EXCEPT !.lifoStale = FALSE] \in PageRec /\ Milder([q EXCEPT !.lifoStale = FALSE], q)
  BY <1>3 DEF PageRec, Milder
<1>5. /\ [s EXCEPT !.pg[f].hits = FALSE] = [s EXCEPT !.pg[f] = [q EXCEPT !.hits = FALSE]]
      /\ [s EXCEPT !.pg[f].boundary = FALSE] = [s EXCEPT !.pg[f] = [q EXCEPT !.boundary = FALSE]]
      /\ [s EXCEPT !.pg[f].clockStale = FALSE] = [s EXCEPT !.pg[f] = [q EXCEPT !.clockStale = FALSE]]
      /\ [s EXCEPT !.pg[f].lifoStale = FALSE] = [s EXCEPT !.pg[f] = [q EXCEPT !.lifoStale = FALSE]]
  BY <1>1, <1>2 DEF WorkRec
<1> QED BY <1>2, <1>4, <1>5, PageKept

\* In a cell whose pages are no ghosts there is nothing to forget.
LEMMA ForgetKept ==
  ASSUME NEW s, NEW v, NEW p, NEW scan, NEW f \in Frame \ {v}, Fine(s, v, p)
  PROVE  Kept(s, ForgetGhost(s, f), v, p, scan)
<1>1. s \in WorkRec
  BY DEF Fine
<1>2. s.ghost \in [Page -> {None} \cup GhostRec]
  BY <1>1 DEF WorkRec
<1>3. \A q \in Page : (IF q = s.pg[f].id THEN None ELSE s.ghost[q]) = s.ghost[q]
  BY Constants DEF Fine, Free
<1>4. [q \in Page |-> IF q = s.pg[f].id THEN None ELSE s.ghost[q]] = s.ghost
  BY <1>2, <1>3
<1>5. PICK w : w = ForgetGhost(s, f)
  OBVIOUS
<1>6. w = [s EXCEPT !.ghost = s.ghost]
  BY <1>1, <1>4, <1>5 DEF ForgetGhost, WorkRec
<1>7. w \in WorkRec /\ w.ghost = s.ghost /\ w.pg = s.pg /\ w.pol = s.pol /\ w.victim = s.victim
  BY <1>1, <1>6 DEF WorkRec
<1>8. \A g \in Frame : Milder(w.pg[g], s.pg[g])
  BY <1>7 DEF Milder
<1> QED BY <1>5, <1>7, <1>8, OthersKept

-----------------------------------------------------------------------------
(* The LIFO list *)

LEMMA Erased ==
  ASSUME NEW lt, Complete(lt), NEW i \in Frame
  PROVE  Complete(MoveToBack(lt, i)) /\ Complete(<<i>> \o Erase(lt, i))
<1>1. lt \in Seq(Frame) /\ Len(lt) = N /\ N \in Nat /\ N # 0 /\ DOMAIN lt = 1 .. N
  BY Constants DEF Complete
<1>2. PICK k : k = CHOOSE j \in DOMAIN lt : lt[j] = i
  OBVIOUS
<1>3. k \in 1 .. N /\ lt[k] = i
  <2>1. \E j \in DOMAIN lt : lt[j] = i
    BY <1>1 DEF Complete
  <2> QED BY <1>1, <1>2, <2>1
<1>4. PICK e : e = SubSeq(lt, 1, k - 1) \o SubSeq(lt, k + 1, N)
  OBVIOUS
<1>5. Erase(lt, i) = e
  BY <1>1, <1>2, <1>4 DEF Erase, RemoveAt
<1>6. /\ e \in Seq(Frame) /\ Len(e) = N - 1
      /\ \A j \in 1 .. N - 1 : e[j] = IF j < k THEN lt[j] ELSE lt[j + 1]
  <2>1. PICK a, b : a = SubSeq(lt, 1, k - 1) /\ b = SubSeq(lt, k + 1, N)
    OBVIOUS
  <2>2. a \in Seq(Frame) /\ Len(a) = k - 1 /\ \A j \in 1 .. k - 1 : a[j] = lt[j]
    BY <1>1, <1>3, <2>1
  <2>3. b \in Seq(Frame) /\ Len(b) = N - k /\ \A j \in 1 .. N - k : b[j] = lt[k + j]
    BY <1>1, <1>3, <2>1
  <2>4. e = a \o b /\ e \in Seq(Frame) /\ Len(e) = N - 1
    BY <1>1, <1>3, <1>4, <2>1, <2>2, <2>3
  <2>5. ASSUME NEW j \in 1 .. N - 1 PROVE e[j] = IF j < k THEN lt[j] ELSE lt[j + 1]
    <3>1. CASE j < k
      BY <1>1, <1>3, <2>2, <2>3, <2>4, <3>1
    <3>2. CASE ~(j < k)
      <4>1. j - (k - 1) \in 1 .. N - k /\ k + (j - (k - 1)) = j + 1
        BY <1>1, <1>3, <3>2
      <4>2. e[j] = b[j - (k - 1)]
        BY <1>1, <1>3, <2>2, <2>3, <2>4, <3>2
      <4> QED BY <2>3, <3>2, <4>1, <4>2
    <3> QED BY <3>1, <3>2
  <2> QED BY <2>4, <2>5
<1>7. \A g \in Frame \ {i} : \E j \in 1 .. N - 1 : e[j] = g
  <2> TAKE g \in Frame \ {i}
  <2>1. PICK j \in 1 .. N : lt[j] = g
    BY <1>1 DEF Complete
  <2>2. j # k
    BY <1>3, <2>1
  <2>3. CASE j < k
    <3>1. j \in 1 .. N - 1
      BY <1>1, <1>3, <2>3
    <3> QED BY <1>6, <2>1, <2>3, <3>1
  <2>4. CASE ~(j < k)
    <3>1. j - 1 \in 1 .. N - 1 /\ ~(j - 1 < k) /\ (j - 1) + 1 = j
      BY <1>1, <1>3, <2>2, <2>4
    <3> QED BY <1>6, <2>1, <3>1
  <2> QED BY <2>3, <2>4
<1>8. Complete(Append(e, i))
  <2>1. PICK a : a = Append(e, i)
    OBVIOUS
  <2>2. a \in Seq(Frame) /\ Len(a) = N /\ a[N] = i /\ (\A j \in 1 .. N - 1 : a[j] = e[j]) /\ \A j \in 1 .. N : a[j] \in Frame
    BY <1>1, <1>6, <2>1
  <2>3. \A g \in Frame : \E j \in 1 .. N : a[j] = g
    <3> TAKE g \in Frame
    <3>1. CASE g = i
      BY <1>1, <2>2, <3>1
    <3>2. CASE g # i
      <4>1. PICK j \in 1 .. N - 1 : e[j] = g
        BY <1>7, <3>2
      <4> QED BY <1>1, <2>2, <4>1
    <3> QED BY <3>1, <3>2
  <2>4. {a[j] : j \in 1 .. N} = Frame
    BY <2>2, <2>3
  <2>5. {a[j] : j \in 1 .. Len(a)} = Frame
    BY ONLY <2>2, <2>4, Zenon
  <2>6. Complete(a)
    BY ONLY <2>2, <2>5 DEF Complete
  <2> QED BY ONLY <2>1, <2>6, Zenon
<1>9. Complete(<<i>> \o e)
  <2>1. PICK a : a = <<i>> \o e
    OBVIOUS
  <2>2. a \in Seq(Frame) /\ Len(a) = N /\ a[1] = i /\ (\A j \in 1 .. N - 1 : a[j + 1] = e[j]) /\ \A j \in 1 .. N : a[j] \in Frame
    BY <1>1, <1>6, <2>1
  <2>3. \A g \in Frame : \E j \in 1 .. N : a[j] = g
    <3> TAKE g \in Frame
    <3>1. CASE g = i
      BY <1>1, <2>2, <3>1
    <3>2. CASE g # i
      <4>1. PICK j \in 1 .. N - 1 : e[j] = g
        BY <1>7, <3>2
      <4>2. j + 1 \in 1 .. N
        BY <1>1
      <4> QED BY <2>2, <4>1, <4>2
    <3> QED BY <3>1, <3>2
  <2>4. {a[j] : j \in 1 .. N} = Frame
    BY <2>2, <2>3
  <2>5. {a[j] : j \in 1 .. Len(a)} = Frame
    BY ONLY <2>2, <2>4, Zenon
  <2>6. Complete(a)
    BY ONLY <2>2, <2>5 DEF Complete
  <2> QED BY ONLY <2>1, <2>6, Zenon
<1> QED BY <1>5, <1>8, <1>9 DEF MoveToBack

-----------------------------------------------------------------------------
(* Scans *)

Scans == {"voter clock", "voter lifo", "follower clock", "follower lifo"}

LEMMA TakeKept ==
  ASSUME NEW s, NEW v, NEW p, NEW scan, NEW f \in Frame, Fine(s, v, p), ~s.pg[f].ref
  PROVE  /\ scan # "voter lifo" => Kept(s, Take(s, f), v, p, scan)
         /\ Kept(s, [Take(s, f) EXCEPT !.pol.lifo = f], v, p, scan)
<1>1. s \in WorkRec /\ Complete(s.pol.lt) /\ \A g \in Frame : Milder(s.pg[g], s.pg[g])
  BY DEF Fine, Milder
<1>2. PICK w : w = Take(s, f)
  OBVIOUS
<1>3. w \in WorkRec /\ w.pg = s.pg /\ w.ghost = s.ghost /\ w.pol = s.pol /\ w.victim = f
  BY <1>1, <1>2 DEF WorkRec, Take
<1>4. scan # "voter lifo" => Kept(s, w, v, p, scan)
  <2>1. scan # "voter lifo" => Found(w, scan)
    BY <1>3 DEF Found
  <2> QED BY <1>1, <1>3, <2>1, MilderKept
<1>5. PICK x : x = [w EXCEPT !.pol.lifo = f]
  OBVIOUS
<1>6. x \in WorkRec /\ x.pg = w.pg /\ x.ghost = w.ghost /\ x.victim = w.victim
  <2>1. f \in 0 .. N
    BY Constants
  <2> QED BY <1>3, <1>5, <2>1 DEF WorkRec, PolRec
<1>7. /\ x.pol.lt = w.pol.lt /\ x.pol.sample = w.pol.sample /\ x.pol.lead = w.pol.lead /\ x.pol.warm = w.pol.warm
      /\ x.pol.entries = w.pol.entries /\ x.pol.lifo = f
  BY <1>3, <1>5 DEF WorkRec, PolRec
<1>8. Found(x, scan)
  BY <1>3, <1>6, <1>7 DEF Found
<1>9. Kept(s, x, v, p, scan)
  BY <1>1, <1>3, <1>6, <1>7, <1>8, MilderKept
<1> QED BY <1>2, <1>4, <1>5, <1>9

\* A change of the list.
LEMMA ListForm ==
  ASSUME NEW s \in WorkRec, NEW lt \in Seq(Frame)
  PROVE  LET w == [s EXCEPT !.pol.lt = lt]
         IN  /\ w \in WorkRec /\ w.pg = s.pg /\ w.ghost = s.ghost /\ w.victim = s.victim /\ w.wins = s.wins
             /\ w.pol.lt = lt /\ w.pol.sample = s.pol.sample /\ w.pol.lead = s.pol.lead /\ w.pol.warm = s.pol.warm
             /\ w.pol.entries = s.pol.entries /\ w.pol.lifo = s.pol.lifo /\ w.pol.clock = s.pol.clock
BY DEF WorkRec, PolRec

LEMMA ListKept ==
  ASSUME NEW s, NEW v, NEW p, NEW scan, NEW lt, Fine(s, v, p), Complete(lt)
  PROVE  Kept(s, [s EXCEPT !.pol.lt = lt], v, p, scan)
<1>1. s \in WorkRec /\ (\A g \in Frame : Milder(s.pg[g], s.pg[g])) /\ lt \in Seq(Frame)
  BY DEF Fine, Milder, Complete
<1>2. PICK w : w = [s EXCEPT !.pol.lt = lt]
  OBVIOUS
<1>3. /\ w \in WorkRec /\ w.pg = s.pg /\ w.ghost = s.ghost /\ w.victim = s.victim
      /\ w.pol.lt = lt /\ w.pol.sample = s.pol.sample /\ w.pol.lead = s.pol.lead /\ w.pol.warm = s.pol.warm
      /\ w.pol.entries = s.pol.entries /\ w.pol.lifo = s.pol.lifo
  BY <1>1, <1>2, ListForm
<1>4. Found(s, scan) => Found(w, scan)
  BY <1>3 DEF Found
<1> QED BY <1>1, <1>2, <1>3, <1>4, MilderKept

LEMMA KeptSelf == ASSUME NEW s, NEW v, NEW p, NEW scan, Fine(s, v, p) PROVE Kept(s, s, v, p, scan)
BY DEF Kept, Same

LEMMA UpdateKept ==
  ASSUME NEW s, NEW v, NEW p, NEW scan, NEW i, Fine(s, v, p)
  PROVE  Kept(s, UpdateLifoList(s, i), v, p, scan)
<1>1. s \in WorkRec /\ Complete(s.pol.lt)
  BY DEF Fine
<1>2. CASE i \in Frame
  <2>1. Complete(MoveToBack(s.pol.lt, i))
    BY <1>1, <1>2, Erased
  <2>2. UpdateLifoList(s, i) = [s EXCEPT !.pol.lt = MoveToBack(s.pol.lt, i)]
    BY <1>1, <1>2 DEF UpdateLifoList, WorkRec
  <2> QED BY <2>1, <2>2, ListKept
<1>3. CASE i \notin Frame
  BY <1>3, KeptSelf DEF UpdateLifoList
<1> QED BY <1>2, <1>3

LEMMA ClockLookKept ==
  ASSUME NEW s, NEW p, NEW f \in Frame, Fine(s, None, p), ~s.pg[f].ref
  PROVE  Kept(s, ClockLook(s, f), None, p, "voter clock")
<1> DEFINE K(a, b) == Kept(a, b, None, p, "voter clock")
<1>1. PICK h : h = [s EXCEPT !.pg[f].hits = FALSE]
  OBVIOUS
<1>2. K(s, h)
  BY <1>1, MarksKept
<1>3. Fine(h, None, p) /\ ~h.pg[f].ref
  BY <1>2 DEF Kept, Same
<1>4. PICK e : e = EndChallenge(h, "LIFO")
  OBVIOUS
<1>5. K(h, e) /\ Fine(e, None, p)
  BY <1>3, <1>4, CountsKept, KeptFine DEF Policy
<1>6. PICK c : c = [e EXCEPT !.pg[f].clockStale = FALSE]
  OBVIOUS
<1>7. K(e, c) /\ Fine(c, None, p)
  BY <1>5, <1>6, MarksKept, KeptFine
<1>8. K(c, ForgetGhost(c, f))
  BY <1>7, ForgetKept, Constants
<1>9. K(h, Take(h, f))
  BY <1>3, TakeKept
<1>10. K(s, ForgetGhost(c, f)) /\ K(s, Take(h, f))
  BY <1>2, <1>5, <1>7, <1>8, <1>9, KeptTrans
<1>11. ClockLook(s, f) \in {h, ForgetGhost(c, f), Take(h, f)}
  BY <1>1, <1>4, <1>6 DEF ClockLook
<1> HIDE DEF K
<1>12. K(s, ClockLook(s, f))
  BY <1>2, <1>10, <1>11
<1> QED BY <1>12 DEF K

LEMMA LifoLookKept ==
  ASSUME NEW s, NEW p, NEW f \in Frame, Fine(s, None, p), ~s.pg[f].ref
  PROVE  Kept(s, LifoLook(s, f), None, p, "voter lifo")
<1> DEFINE K(a, b) == Kept(a, b, None, p, "voter lifo")
<1>1. PICK h : h = [s EXCEPT !.pg[f].boundary = FALSE]
  OBVIOUS
<1>2. K(s, h)
  BY <1>1, MarksKept
<1>3. Fine(h, None, p) /\ ~h.pg[f].ref
  BY <1>2 DEF Kept, Same
<1>4. PICK e : e = EndChallenge(h, "CLOCK")
  OBVIOUS
<1>5. K(h, e) /\ Fine(e, None, p)
  BY <1>3, <1>4, CountsKept, KeptFine DEF Policy
<1>6. PICK c : c = [e EXCEPT !.pg[f].lifoStale = FALSE]
  OBVIOUS
<1>7. K(e, c) /\ Fine(c, None, p)
  BY <1>5, <1>6, MarksKept, KeptFine
<1>8. K(c, ForgetGhost(c, f))
  BY <1>7, ForgetKept, Constants
<1>9. PICK l : l = [Take(h, f) EXCEPT !.pol.lifo = f]
  OBVIOUS
<1>10. K(h, l)
  BY <1>3, <1>9, TakeKept
<1>11. K(s, ForgetGhost(c, f)) /\ K(s, l)
  BY <1>2, <1>5, <1>7, <1>8, <1>10, KeptTrans
<1>12. LifoLook(s, f) \in {h, ForgetGhost(c, f), l}
  BY <1>1, <1>4, <1>6, <1>9 DEF LifoLook
<1> HIDE DEF K
<1>13. K(s, LifoLook(s, f))
  BY <1>2, <1>11, <1>12
<1> QED BY <1>13 DEF K

LEMMA FollowerLookKept ==
  ASSUME NEW s, NEW p, NEW f \in Frame, Fine(s, None, p), ~s.pg[f].ref
  PROVE  /\ Kept(s, FollowerClockLook(s, f), None, p, "follower clock")
         /\ Kept(s, FollowerLifoLook(s, f), None, p, "follower lifo")
<1>1. Kept(s, FollowerClockLook(s, f), None, p, "follower clock")
  BY MarksKept, TakeKept DEF FollowerClockLook
<1> DEFINE K(a, b) == Kept(a, b, None, p, "follower lifo")
<1>2. PICK l : l = [Take(s, f) EXCEPT !.pol.lifo = f]
  OBVIOUS
<1>3. K(s, l) /\ Fine(l, None, p)
  BY <1>2, TakeKept, KeptFine
<1>4. PICK b : b = [l EXCEPT !.pg[f].boundary = FALSE]
  OBVIOUS
<1>5. K(l, b) /\ Fine(b, None, p)
  BY <1>3, <1>4, MarksKept, KeptFine
<1>6. K(b, UpdateLifoList(b, f))
  BY <1>5, UpdateKept
<1>7. FollowerLifoLook(s, f) = UpdateLifoList(b, f)
  <2>1. s \in WorkRec
    BY DEF Fine
  <2>2. [Take(s, f) EXCEPT !.pg[f].boundary = FALSE, !.pol.lifo = f] = b
    BY <1>2, <1>4, <2>1 DEF Take, WorkRec
  <2> QED BY <2>2 DEF FollowerLifoLook
<1>8. K(s, UpdateLifoList(b, f))
  BY <1>3, <1>5, <1>6, KeptTrans
<1> QED BY <1>1, <1>7, <1>8

LEMMA LookKept ==
  ASSUME NEW s, NEW p, NEW f \in Frame, NEW scan \in Scans, Fine(s, None, p), ~s.pg[f].ref
  PROVE  Kept(s, Look(s, f, scan), None, p, scan)
<1>1. CASE scan = "voter clock"
  BY <1>1, ClockLookKept DEF Look
<1>2. CASE scan = "voter lifo"
  BY <1>2, LifoLookKept DEF Look
<1>3. CASE scan = "follower clock"
  BY <1>3, FollowerLookKept DEF Look
<1>4. CASE scan = "follower lifo"
  BY <1>4, FollowerLookKept DEF Look
<1> QED BY <1>1, <1>2, <1>3, <1>4 DEF Scans

LEMMA VisitKept ==
  ASSUME NEW s, NEW p, NEW f \in Frame, NEW scan \in Scans, Fine(s, None, p)
  PROVE  Kept(s, Visit(s, f, scan), None, p, scan)
<1> DEFINE K(a, b) == Kept(a, b, None, p, scan)
<1>1. PICK a : a = Again(s)
  OBVIOUS
<1>2. K(s, a) /\ Fine(a, None, p) /\ "CLOCK" \in Policy
  BY <1>1, CountsKept, KeptFine DEF Policy
<1>3. K(a, CountRef(a)) /\ K(a, Skip(a))
  BY <1>2, CountsKept
<1>4. ~a.pg[f].ref => K(a, Look(a, f, scan))
  BY <1>2, LookKept
<1>5. K(s, s)
  BY KeptSelf
<1>6. Visit(s, f, scan) \in {s, CountRef(a), Skip(a)} \/ (~a.pg[f].ref /\ Visit(s, f, scan) = Look(a, f, scan))
  BY <1>1 DEF Visit, Referenced
<1>7. K(s, CountRef(a)) /\ K(s, Skip(a)) /\ (~a.pg[f].ref => K(s, Look(a, f, scan)))
  BY <1>2, <1>3, <1>4, KeptTrans
<1> HIDE DEF K
<1>8. K(s, Visit(s, f, scan))
  BY <1>5, <1>6, <1>7
<1> QED BY <1>8 DEF K

LEMMA PageAtFrame ==
  ASSUME NEW s \in WorkRec, Complete(s.pol.lt), NEW i \in Nat, NEW scan
  PROVE  PageAt(s, i, scan) \in Frame
<1>1. s.pol.clock \in Frame /\ s.pol.lt \in Seq(Frame) /\ Len(s.pol.lt) = N /\ N \in Nat /\ N # 0
  BY Constants DEF WorkRec, PolRec, Complete
<1>2. PICK k : k = 3 * N - 1 - i
  OBVIOUS
<1>3. k \in Int
  BY <1>1, <1>2
<1>4. k % N \in 0 .. N - 1
  BY <1>1, <1>3
<1>5. (k % N) + 1 \in 1 .. Len(s.pol.lt)
  BY <1>1, <1>4
<1>6. LifoAt(s, i) \in Frame
  BY <1>1, <1>2, <1>5 DEF LifoAt
<1> QED BY <1>1, <1>6 DEF PageAt

LEMMA ClockMoves ==
  ASSUME NEW s, NEW p, NEW scan, Fine(s, None, p)
  PROVE  Kept(s, [s EXCEPT !.pol.clock = (@ + 1) % N], None, p, scan)
<1>1. s \in WorkRec /\ Complete(s.pol.lt) /\ \A g \in Frame : Milder(s.pg[g], s.pg[g])
  BY DEF Fine, Milder
<1>2. s.pol.clock \in Frame /\ s.pol \in PolRec
  BY <1>1 DEF WorkRec, PolRec
<1>3. (s.pol.clock + 1) % N \in Frame
  <2>1. N \in Nat /\ N # 0 /\ Frame = 0 .. N - 1
    BY Constants
  <2>2. PICK c \in Int : c = s.pol.clock + 1
    BY <1>2, <2>1
  <2>3. c % N \in 0 .. N - 1
    BY <2>1, <2>2
  <2> QED BY <2>1, <2>2, <2>3
<1>4. PICK c \in Frame : c = (s.pol.clock + 1) % N
  BY <1>3
<1>5. PICK w : w = [s EXCEPT !.pol.clock = c]
  OBVIOUS
<1>6. [s EXCEPT !.pol.clock = (@ + 1) % N] = w
  BY <1>1, <1>4, <1>5 DEF WorkRec
<1>7. /\ w \in WorkRec /\ w.pg = s.pg /\ w.ghost = s.ghost /\ w.victim = s.victim
      /\ w.pol.lt = s.pol.lt /\ w.pol.sample = s.pol.sample /\ w.pol.lead = s.pol.lead /\ w.pol.warm = s.pol.warm
      /\ w.pol.entries = s.pol.entries /\ w.pol.lifo = s.pol.lifo
  BY <1>1, <1>5 DEF WorkRec, PolRec
<1>8. Found(s, scan) => Found(w, scan)
  BY <1>7 DEF Found
<1>9. Kept(s, w, None, p, scan)
  BY <1>1, <1>7, <1>8, MilderKept
<1> QED BY <1>6, <1>9

LEMMA StepKept ==
  ASSUME NEW s, NEW p, NEW i \in Nat, NEW scan \in Scans, Fine(s, None, p)
  PROVE  Kept(s, ScanStep(s, i, scan), None, p, scan)
<1>1. s \in WorkRec /\ Complete(s.pol.lt)
  BY DEF Fine
<1>2. PICK f \in Frame : f = PageAt(s, i, scan)
  BY <1>1, PageAtFrame
<1>3. PICK w : w = Visit(s, f, scan)
  OBVIOUS
<1>4. Kept(s, w, None, p, scan) /\ Fine(w, None, p)
  BY <1>3, VisitKept, KeptFine
<1>5. Kept(w, [w EXCEPT !.pol.clock = (@ + 1) % N], None, p, scan)
  BY <1>4, ClockMoves
<1>6. PICK x : x = [w EXCEPT !.pol.clock = (@ + 1) % N]
  OBVIOUS
<1>7. Kept(s, x, None, p, scan)
  BY <1>4, <1>5, <1>6, KeptTrans
<1>8. ScanStep(s, i, scan) \in {s, w, x}
  BY <1>2, <1>3, <1>6 DEF ScanStep
<1> QED BY <1>4, <1>7, <1>8, KeptSelf

LEMMA ScanKept ==
  ASSUME NEW s, NEW p, NEW n \in Nat, NEW scan \in Scans, Fine(s, None, p)
  PROVE  Kept(s, Scan(s, scan, n), None, p, scan)
<1>1. PICK g : /\ g[0] = s /\ Scan(s, scan, n) = g[n]
               /\ \A i \in 1 .. n : g[i] = ScanStep(g[i - 1], i, scan)
  BY ScanSteps
<1> DEFINE T == {i \in Nat : i <= n => Kept(s, g[i], None, p, scan)}
<1>2. 0 \in T
  BY <1>1, KeptSelf
<1>3. \A i \in Nat : i \in T => i + 1 \in T
  <2> TAKE i \in Nat
  <2> HAVE i \in T
  <2>1. SUFFICES ASSUME i + 1 <= n PROVE Kept(s, g[i + 1], None, p, scan)
    OBVIOUS
  <2>2. i + 1 \in 1 .. n /\ (i + 1) - 1 = i /\ i <= n /\ i + 1 \in Nat
    BY <2>1
  <2>3. Kept(s, g[i], None, p, scan) /\ Fine(g[i], None, p)
    BY <2>2, KeptFine
  <2>4. g[i + 1] = ScanStep(g[i], i + 1, scan)
    BY <1>1, <2>2
  <2>5. Kept(g[i], g[i + 1], None, p, scan)
    BY <2>2, <2>3, <2>4, StepKept
  <2> QED BY <2>3, <2>5, KeptTrans
<1>4. n \in T
  <2> HIDE DEF T
  <2> QED BY <1>2, <1>3, SetInduction
<1> QED BY <1>1, <1>4

-----------------------------------------------------------------------------
(* The votes *)

\* An operation on a frame other than v.
Done(s, w, v, p) == Fine(w, v, p) /\ Same(s, w) /\ w.pol.lifo = s.pol.lifo

LEMMA DoneFine == ASSUME NEW s, NEW w, NEW v, NEW p, Done(s, w, v, p) PROVE Fine(w, v, p) /\ Same(s, w) /\ w.pol.lifo = s.pol.lifo
BY DEF Done

LEMMA DoneTrans == ASSUME NEW s, NEW u, NEW w, NEW v, NEW p, Done(s, u, v, p), Done(u, w, v, p) PROVE Done(s, w, v, p)
BY SameTrans DEF Done

LEMMA FineWeaker == ASSUME NEW s, NEW v, NEW p, Fine(s, None, p) PROVE Fine(s, v, p)
<1>1. Frame \ {v} \subseteq Frame \ {None}
  BY Constants
<1> QED BY <1>1 DEF Fine, Free

LEMMA EndDone == ASSUME NEW s, NEW v, NEW p, NEW winner \in Policy, Fine(s, v, p) PROVE Done(s, EndChallenge(s, winner), v, p)
<1>1. s \in WorkRec /\ \A f \in Frame : Milder(s.pg[f], s.pg[f])
  BY DEF Fine, Milder
<1>2. PICK z : z = EndChallenge(s, winner)
  OBVIOUS
<1>3. z \in WorkRec /\ z.pg = s.pg /\ z.ghost = s.ghost /\ z.pol = s.pol
  BY <1>1, <1>2 DEF WorkRec, EndChallenge
<1>4. Fine(z, v, p) /\ Same(s, z)
  BY <1>1, <1>3, MilderFine DEF Fine
<1> QED BY <1>2, <1>3, <1>4 DEF Done

LEMMA UpdateDone == ASSUME NEW s, NEW v, NEW p, NEW i, Fine(s, v, p) PROVE Done(s, UpdateLifoList(s, i), v, p)
<1>1. Fine(UpdateLifoList(s, i), v, p) /\ Same(s, UpdateLifoList(s, i))
  BY UpdateKept DEF Kept
<1>2. s \in WorkRec /\ Complete(s.pol.lt)
  BY DEF Fine
<1>3. CASE i \in Frame
  <2>1. PICK lt \in Seq(Frame) : lt = MoveToBack(s.pol.lt, i)
    BY <1>2, <1>3, Erased DEF Complete
  <2>2. UpdateLifoList(s, i) = [s EXCEPT !.pol.lt = lt]
    BY <1>2, <1>3, <2>1 DEF UpdateLifoList, WorkRec
  <2>3. UpdateLifoList(s, i).pol.lifo = s.pol.lifo
    BY <1>2, <2>2, ListForm
  <2> QED BY <1>1, <2>3 DEF Done
<1>4. CASE i \notin Frame
  BY <1>1, <1>4 DEF Done, UpdateLifoList
<1> QED BY <1>3, <1>4

\* A mark is taken away, or only the mark of a virtual eviction changes.
LEMMA PageDone == ASSUME NEW s, NEW v, NEW p, NEW f \in Frame, NEW q \in PageRec, Fine(s, v, p), Milder(q, s.pg[f])
                  PROVE Done(s, [s EXCEPT !.pg[f] = q], v, p)
<1>1. s \in WorkRec
  BY DEF Fine
<1>2. PICK w : w = [s EXCEPT !.pg[f] = q]
  OBVIOUS
<1>3. Kept(s, w, v, p, "voter clock")
  BY <1>2, PageKept
<1>4. w.pol = s.pol
  BY <1>1, <1>2, PutPage
<1> QED BY <1>2, <1>3, <1>4 DEF Kept, Done

LEMMA RefreshDone == ASSUME NEW s, NEW v, NEW p, NEW f \in Frame \ {v}, Fine(s, v, p) PROVE Done(s, RefreshChal(s, f), v, p)
<1>1. s \in WorkRec
  BY DEF Fine
<1>2. PICK q : q = [s.pg[f] EXCEPT !.clockStale = FALSE, !.lifoStale = FALSE, !.evicted = None]
  OBVIOUS
<1>3. q \in PageRec /\ Milder(q, s.pg[f])
  <2>1. s.pg[f] \in PageRec
    BY <1>1 DEF WorkRec
  <2> QED BY <1>2, <2>1 DEF PageRec, Milder
<1>4. PICK w : w = [s EXCEPT !.pg[f] = q]
  OBVIOUS
<1>5. Done(s, w, v, p) /\ Fine(w, v, p)
  BY <1>3, <1>4, PageDone, DoneFine
<1>6. [s EXCEPT !.pg[f].clockStale = FALSE, !.pg[f].lifoStale = FALSE, !.pg[f].evicted = None] = w
  BY <1>1, <1>2, <1>4 DEF WorkRec, PageRec
<1>7. RefreshChal(s, f) = ForgetGhost(w, f)
  BY <1>6 DEF RefreshChal
<1>8. Kept(w, ForgetGhost(w, f), v, p, "voter clock") /\ ForgetGhost(w, f).pol = w.pol
  <2>1. w \in WorkRec
    BY <1>5 DEF Fine
  <2>2. ForgetGhost(w, f).pol = w.pol
    BY <2>1 DEF ForgetGhost, WorkRec
  <2> QED BY <1>5, <2>2, ForgetKept
<1>9. Done(w, ForgetGhost(w, f), v, p)
  BY <1>8 DEF Kept, Done
<1> QED BY <1>5, <1>7, <1>9, DoneTrans

LEMMA StartDone ==
  ASSUME NEW s, NEW v, NEW p, NEW f \in Frame, NEW by \in Policy, Fine(s, v, p), by = "LIFO" => s.pol.lifo \in Frame
  PROVE  Done(s, StartChallenge(s, f, by), v, p)
<1>1. s \in WorkRec /\ Complete(s.pol.lt)
  BY DEF Fine
<1>2. PICK q : q = [s.pg[f] EXCEPT !.evicted = by]
  OBVIOUS
<1>3. q \in PageRec /\ Milder(q, s.pg[f])
  <2>1. s.pg[f] \in PageRec
    BY <1>1 DEF WorkRec
  <2> QED BY <1>2, <2>1 DEF PageRec, Milder
<1>4. PICK w : w = [s EXCEPT !.pg[f] = q]
  OBVIOUS
<1>5. Done(s, w, v, p) /\ Fine(w, v, p) /\ w \in WorkRec /\ w.pol = s.pol
  BY <1>1, <1>3, <1>4, PageDone, PutPage, DoneFine
<1>6. CASE by = "LIFO"
  <2>1. PICK lt : lt = <<s.pol.lifo>> \o Erase(s.pol.lt, s.pol.lifo)
    OBVIOUS
  <2>2. Complete(lt)
    BY <1>1, <1>6, <2>1, Erased
  <2>3. StartChallenge(s, f, by) = [w EXCEPT !.pol.lt = lt]
    BY <1>1, <1>2, <1>4, <1>6, <2>1 DEF StartChallenge, WorkRec
  <2>4. PICK x : x = [w EXCEPT !.pol.lt = lt]
    OBVIOUS
  <2>5. Kept(w, x, v, p, "voter clock")
    BY <1>5, <2>2, <2>4, ListKept
  <2>6. x.pol.lifo = w.pol.lifo
    BY <1>5, <2>2, <2>4, ListForm DEF Complete
  <2>7. Done(w, x, v, p)
    BY <2>5, <2>6 DEF Kept, Done
  <2> QED BY <1>5, <2>3, <2>4, <2>7, DoneTrans
<1>7. CASE by # "LIFO"
  <2>1. StartChallenge(s, f, by) = [w EXCEPT !.pol.lt = w.pol.lt]
    BY <1>1, <1>2, <1>4, <1>5, <1>7 DEF StartChallenge, WorkRec
  <2>2. PICK x : x = [w EXCEPT !.pol.lt = w.pol.lt]
    OBVIOUS
  <2>3. Complete(w.pol.lt)
    BY <1>1, <1>5
  <2>5. Kept(w, x, v, p, "voter clock")
    BY <1>5, <2>2, <2>3, ListKept
  <2>6. x.pol.lifo = w.pol.lifo
    BY <1>5, <2>2, <2>3, ListForm DEF Complete
  <2>7. Done(w, x, v, p)
    BY <2>5, <2>6 DEF Kept, Done
  <2> QED BY <1>5, <2>1, <2>2, <2>7, DoneTrans
<1> QED BY <1>6, <1>7

\* The page in f becomes a ghost; the mark of the frame belongs to it.
LEMMA Registered ==
  ASSUME NEW s, NEW p \in Page, NEW f \in Frame, Fine(s, None, p), s.pg[f].id # None, NEW lead \in Policy,
         NEW w \in WorkRec, w.pol = s.pol,
         \A g \in Frame \ {f} : w.pg[g] = s.pg[g],
         w.pg[f].id = s.pg[f].id, w.pg[f].ref = s.pg[f].ref,
         w.pg[f].lifoStale => s.pg[f].lifoStale \/ lead = "CLOCK", w.pg[f].clockStale => s.pg[f].clockStale \/ lead = "LIFO",
         w.ghost = [q \in Page |-> IF q = s.pg[f].id THEN [policy |-> lead, idx |-> f] ELSE s.ghost[q]]
  PROVE  Done(s, w, f, p)
<1>1. s \in WorkRec /\ Complete(s.pol.lt) /\ Apart(s, p) /\ Free(s, None, p) /\ \A g \in Frame : Marked(s, g)
  BY DEF Fine
<1>2. PICK h \in Page : h = s.pg[f].id
  BY <1>1 DEF WorkRec, PageRec
<1>3. s.ghost[h] = None /\ \A q \in Page \ {h} : w.ghost[q] = s.ghost[q]
  BY <1>1, <1>2, Constants DEF Free
<1>4. w.ghost[h] = [policy |-> lead, idx |-> f]
  BY <1>2
<1>5. Same(s, w)
  BY DEF Same
<1>6. Apart(w, p)
  BY <1>1 DEF Apart
<1>7. Free(w, f, p)
  <2>1. p # h
    BY <1>1, <1>2 DEF Apart
  <2>2. \A g \in Frame \ {f} : w.pg[g].id # None => w.pg[g].id \in Page \ {h}
    <3> TAKE g \in Frame \ {f}
    <3>1. s.pg[g] \in PageRec
      BY <1>1 DEF WorkRec
    <3>2. s.pg[g].id \in Page \cup {None}
      BY <3>1 DEF PageRec
    <3> QED BY <1>1, <1>2, <3>2 DEF Apart
  <2>3. w.ghost[p] = None
    BY <1>1, <1>3, <2>1 DEF Free
  <2>4. \A g \in Frame \ {f} : w.pg[g].id # None => w.ghost[w.pg[g].id] = None
    <3> TAKE g \in Frame \ {f}
    <3> HAVE w.pg[g].id # None
    <3>1. w.pg[g].id = s.pg[g].id /\ g \in Frame \ {None}
      BY Constants
    <3>2. s.ghost[s.pg[g].id] = None
      BY <1>1, <3>1 DEF Free
    <3> QED BY <1>3, <2>2, <3>1, <3>2
  <2> QED BY <2>3, <2>4 DEF Free
<1>8. \A g \in Frame : Marked(w, g)
  <2> TAKE g \in Frame
  <2>1. \A q \in Page : \A x \in GhostRec : s.ghost[q] = x => w.ghost[q] = x
    <3> TAKE q \in Page
    <3> TAKE x \in GhostRec
    <3>1. x # None
      BY ConstantsAssumption DEF GhostRec, Policy, Frame
    <3> QED BY <1>3, <3>1
  <2>2. [policy |-> "CLOCK", idx |-> g] \in GhostRec /\ [policy |-> "LIFO", idx |-> g] \in GhostRec
    BY DEF GhostRec, Policy
  <2>3. /\ (\E q \in Page : s.ghost[q] = [policy |-> "CLOCK", idx |-> g]) => \E q \in Page : w.ghost[q] = [policy |-> "CLOCK", idx |-> g]
        /\ (\E q \in Page : s.ghost[q] = [policy |-> "LIFO", idx |-> g]) => \E q \in Page : w.ghost[q] = [policy |-> "LIFO", idx |-> g]
    BY <2>1, <2>2
  <2>4. CASE g # f
    BY <1>1, <2>3, <2>4 DEF Marked
  <2>5. CASE g = f
    BY <1>1, <1>4, <2>3, <2>5 DEF Marked
  <2> QED BY <2>4, <2>5
<1> QED BY <1>1, <1>5, <1>6, <1>7, <1>8 DEF Fine, Done

LEMMA EvictDone ==
  ASSUME NEW s, NEW p \in Page, NEW f \in Frame, Fine(s, None, p), s.pg[f].id # None
  PROVE  Done(s, PEvict(s, f), f, p)
<1>1. s \in WorkRec
  BY DEF Fine
<1>2. PICK lead \in Policy : lead = s.pol.lead
  BY <1>1 DEF WorkRec, PolRec
<1>3. s.pg[f] \in PageRec
  BY <1>1 DEF WorkRec
<1>4. PICK gh : gh = [q \in Page |-> IF q = s.pg[f].id THEN [policy |-> lead, idx |-> f] ELSE s.ghost[q]]
  OBVIOUS
<1>5. gh \in [Page -> {None} \cup GhostRec]
  <2>1. s.ghost \in [Page -> {None} \cup GhostRec] /\ [policy |-> lead, idx |-> f] \in GhostRec
    BY <1>1 DEF WorkRec, GhostRec
  <2> QED BY <1>4, <2>1
<1>6. PICK reg : reg = [s EXCEPT !.pg[f].evicted = None, !.ghost = gh]
  OBVIOUS
<1>7. /\ reg \in WorkRec /\ reg.pol = s.pol
      /\ \A g \in Frame \ {f} : reg.pg[g] = s.pg[g]
      /\ reg.pg[f] = [s.pg[f] EXCEPT !.evicted = None] /\ reg.ghost = gh
  <2>1. PICK q : q = [s.pg[f] EXCEPT !.evicted = None]
    OBVIOUS
  <2>2. q \in PageRec
    BY <1>3, <2>1 DEF PageRec
  <2>3. PICK x : x = [s EXCEPT !.pg[f] = q]
    OBVIOUS
  <2>4. /\ x \in WorkRec /\ x.pol = s.pol
        /\ x.pg[f] = q /\ \A g \in Frame \ {f} : x.pg[g] = s.pg[g]
    BY <1>1, <2>2, <2>3, PutPage
  <2>5. reg = [x EXCEPT !.ghost = gh]
    BY <1>1, <1>6, <2>1, <2>3 DEF WorkRec
  <2>6. reg \in WorkRec /\ reg.pg = x.pg /\ reg.pol = x.pol /\ reg.ghost = gh
    BY <1>5, <2>4, <2>5 DEF WorkRec
  <2> QED BY <2>1, <2>4, <2>6
<1>8. /\ \A g \in Frame \ {f} : reg.pg[g] = s.pg[g]
      /\ reg.pg[f] = [s.pg[f] EXCEPT !.evicted = None] /\ reg.ghost = gh
  BY <1>7
<1>9. CASE lead = "CLOCK"
  <2>1. PICK q : q = [reg.pg[f] EXCEPT !.lifoStale = TRUE]
    OBVIOUS
  <2>2. q \in PageRec /\ q.id = s.pg[f].id /\ q.ref = s.pg[f].ref /\ (q.clockStale => s.pg[f].clockStale)
    BY <1>3, <1>8, <2>1 DEF PageRec
  <2>3. PICK w : w = [reg EXCEPT !.pg[f] = q]
    OBVIOUS
  <2>4. /\ w \in WorkRec /\ w.ghost = gh /\ w.pol = s.pol
        /\ w.pg[f] = q /\ \A g \in Frame \ {f} : w.pg[g] = s.pg[g]
    BY <1>7, <1>8, <2>2, <2>3, PutPage
  <2>5. Done(s, w, f, p)
    BY <1>4, <1>9, <2>2, <2>4, Registered
  <2>6. [reg EXCEPT !.pg[f].lifoStale = TRUE] = w
    BY <1>7, <2>1, <2>3 DEF WorkRec
  <2>7. PEvict(s, f) = w
    BY <1>2, <1>4, <1>6, <1>9, <2>6 DEF PEvict
  <2> QED BY <2>5, <2>7
<1>10. CASE lead = "LIFO"
  <2>1. PICK q : q = [reg.pg[f] EXCEPT !.clockStale = TRUE]
    OBVIOUS
  <2>2. q \in PageRec /\ q.id = s.pg[f].id /\ q.ref = s.pg[f].ref /\ (q.lifoStale => s.pg[f].lifoStale)
    BY <1>3, <1>8, <2>1 DEF PageRec
  <2>3. PICK w : w = [reg EXCEPT !.pg[f] = q]
    OBVIOUS
  <2>4. /\ w \in WorkRec /\ w.ghost = gh /\ w.pol = s.pol
        /\ w.pg[f] = q /\ \A g \in Frame \ {f} : w.pg[g] = s.pg[g]
    BY <1>7, <1>8, <2>2, <2>3, PutPage
  <2>5. Done(s, w, f, p) /\ Fine(w, f, p)
    BY <1>4, <1>10, <2>2, <2>4, Registered, DoneFine
  <2>6. [reg EXCEPT !.pg[f].clockStale = TRUE] = w
    BY <1>7, <2>1, <2>3 DEF WorkRec
  <2>7. PEvict(s, f) = UpdateLifoList(w, f)
    BY <1>2, <1>4, <1>6, <1>10, <2>6 DEF PEvict
  <2>8. Done(w, UpdateLifoList(w, f), f, p)
    BY <2>5, UpdateDone
  <2> QED BY <2>5, <2>7, <2>8, DoneTrans
<1> QED BY <1>2, <1>9, <1>10 DEF Policy

LEMMA OtherPolicy == ASSUME NEW w \in Policy PROVE Other(w) \in Policy /\ (Other(w) = "LIFO" <=> w = "CLOCK") /\ w \in {"CLOCK", "LIFO"}
BY DEF Other, Policy

LEMMA SettleDone ==
  ASSUME NEW s, NEW p \in Page, NEW own \in Frame \cup {None}, NEW vote \in Frame \cup {None}, own # vote,
         Fine(s, None, p), \A f \in Frame : s.pg[f].id # None,
         s.pol.lead = "LIFO" /\ own # None => s.pol.lifo \in Frame,
         s.pol.lead = "CLOCK" /\ vote # None => s.pol.lifo \in Frame
  PROVE  Done(s, Settle(s, own, vote), own, p)
<1>1. s \in WorkRec
  BY DEF Fine
<1>2. PICK lead \in Policy : lead = s.pol.lead
  BY <1>1 DEF WorkRec, PolRec
<1>3. Other(lead) \in Policy
  BY OtherPolicy
<1>4. PICK first : first = IF own = None THEN s
                 ELSE IF s.pg[own].evicted = lead THEN PEvict(s, own)
                 ELSE IF s.pg[own].evicted # None
                 THEN UpdateLifoList(RefreshChal(EndChallenge(s, Other(lead)), own), own)
                 ELSE PEvict(StartChallenge(s, own, lead), own)
  OBVIOUS
<1>5. Done(s, s, own, p)
  BY FineWeaker DEF Done, Same
<1>6. ASSUME own \in Frame PROVE Done(s, PEvict(s, own), own, p)
  BY <1>6, EvictDone
<1>7. ASSUME own \in Frame PROVE Done(s, UpdateLifoList(RefreshChal(EndChallenge(s, Other(lead)), own), own), own, p)
  <2>1. PICK e : e = EndChallenge(s, Other(lead))
    OBVIOUS
  <2>2. Done(s, e, None, p) /\ Fine(e, None, p)
    BY <1>3, <2>1, EndDone, DoneFine
  <2>3. PICK r : r = RefreshChal(e, own)
    OBVIOUS
  <2>4. Done(e, r, None, p) /\ Fine(r, None, p)
    BY <1>7, <2>2, <2>3, RefreshDone, DoneFine, Constants
  <2>5. Done(r, UpdateLifoList(r, own), None, p)
    BY <2>4, UpdateDone
  <2>6. Done(s, UpdateLifoList(r, own), None, p)
    BY <2>2, <2>4, <2>5, DoneTrans
  <2> QED BY <2>1, <2>3, <2>6, FineWeaker DEF Done
<1>8. ASSUME own \in Frame PROVE Done(s, PEvict(StartChallenge(s, own, lead), own), own, p)
  <2>1. PICK c : c = StartChallenge(s, own, lead)
    OBVIOUS
  <2>2. own # None
    BY <1>8, Constants
  <2>3. Done(s, c, None, p)
    BY <1>2, <1>8, <2>1, <2>2, StartDone
  <2>4. Fine(c, None, p) /\ c.pg[own].id # None
    BY <1>8, <2>3 DEF Done, Same
  <2>5. Done(c, PEvict(c, own), own, p)
    BY <1>8, <2>4, EvictDone
  <2>6. Done(s, c, own, p)
    BY <2>3, FineWeaker DEF Done
  <2> QED BY <2>1, <2>5, <2>6, DoneTrans
<1>9. Done(s, first, own, p) /\ Fine(first, own, p) /\ first.pol.lead = lead /\ first.pol.lifo = s.pol.lifo
  <2>1. first \in {s} \/ (own \in Frame /\ first \in {PEvict(s, own), PEvict(StartChallenge(s, own, lead), own),
                                              UpdateLifoList(RefreshChal(EndChallenge(s, Other(lead)), own), own)})
    BY <1>4
  <2>2. Done(s, first, own, p)
    BY <1>5, <1>6, <1>7, <1>8, <2>1
  <2>3. Fine(first, own, p) /\ Same(s, first) /\ first.pol.lifo = s.pol.lifo
    BY <2>2, DoneFine
  <2> QED BY <1>2, <2>2, <2>3 DEF Same
<1>10. CASE vote = None
  <2>1. Settle(s, own, vote) = first
    BY <1>2, <1>4, <1>10 DEF Settle
  <2> QED BY <1>9, <2>1
<1>11. CASE vote # None
  <2>1. vote \in Frame /\ vote \in Frame \ {own}
    BY <1>11
  <2>2. PICK c : c = StartChallenge(first, vote, Other(lead))
    OBVIOUS
  <2>3. Other(lead) = "LIFO" => first.pol.lifo \in Frame
    BY <1>2, <1>9, <1>11, OtherPolicy
  <2>4. Done(first, c, own, p)
    BY <1>3, <1>9, <2>1, <2>2, <2>3, StartDone
  <2>5. PICK r : r = RefreshChal(first, vote)
    OBVIOUS
  <2>6. Done(first, r, own, p) /\ Fine(r, own, p)
    BY <1>9, <2>1, <2>5, RefreshDone, DoneFine
  <2>7. PICK e : e = EndChallenge(r, lead)
    OBVIOUS
  <2>8. Done(r, e, own, p) /\ Fine(e, own, p)
    BY <2>6, <2>7, EndDone, DoneFine
  <2>9. PICK u : u = UpdateLifoList(e, first.pol.lifo)
    OBVIOUS
  <2>10. Done(e, u, own, p)
    BY <2>8, <2>9, UpdateDone
  <2>11. Settle(s, own, vote) \in {c, e, u}
    BY <1>2, <1>4, <1>11, <2>2, <2>5, <2>7, <2>9 DEF Settle
  <2>12. Done(s, c, own, p) /\ Done(s, e, own, p) /\ Done(s, u, own, p)
    BY <1>9, <2>4, <2>6, <2>8, <2>10, DoneTrans
  <2> QED BY <2>11, <2>12
<1> QED BY <1>10, <1>11

LEMMA VictimFine ==
  ASSUME NEW s, NEW v, NEW p, NEW c \in Frame \cup {None}, Fine(s, v, p)
  PROVE  LET w == [s EXCEPT !.victim = c] IN Fine(w, v, p) /\ Same(s, w) /\ w.victim = c /\ w.ghost = s.ghost
<1>1. s \in WorkRec /\ Complete(s.pol.lt) /\ \A f \in Frame : Milder(s.pg[f], s.pg[f])
  BY DEF Fine, Milder
<1>2. PICK z : z = [s EXCEPT !.victim = c]
  OBVIOUS
<1>3. z \in WorkRec /\ z.pg = s.pg /\ z.ghost = s.ghost /\ z.pol = s.pol /\ z.victim = c
  BY <1>1, <1>2 DEF WorkRec
<1>4. Fine(z, v, p) /\ Same(s, z)
  BY <1>1, <1>3, MilderFine
<1> QED BY <1>2, <1>3, <1>4

LEMMA VictimDone ==
  ASSUME NEW s, NEW p \in Page, NEW clock \in Frame \cup {None}, NEW lifo \in Frame \cup {None},
         Fine(s, None, p), \A f \in Frame : s.pg[f].id # None, lifo # None => s.pol.lifo = lifo, s.victim = lifo
  PROVE  LET w == VoterActualVictim(s, clock, lifo)
         IN  Fine(w, w.victim, p) /\ Same(s, w) /\ w.victim \in {clock, lifo}
<1>1. s \in WorkRec
  BY DEF Fine
<1>2. s.pol.lead \in Policy /\ \A f \in Frame : s.pg[f].evicted \in Policy \cup {None}
  BY <1>1 DEF WorkRec, PolRec, PageRec
<1>3. PICK w : w = VoterActualVictim(s, clock, lifo)
  OBVIOUS
<1>4. CASE clock = lifo /\ clock = None
  <2>1. w = s
    BY <1>3, <1>4 DEF VoterActualVictim
  <2> QED BY <1>3, <1>4, <2>1 DEF Same
<1>5. CASE clock = lifo /\ clock # None
  <2>1. clock \in Frame \ {None}
    BY <1>5, Constants
  <2>2. PICK both : both = IF s.pg[clock].evicted = None THEN s ELSE EndChallenge(s, s.pg[clock].evicted)
    OBVIOUS
  <2>3. Done(s, both, None, p)
    <3>1. CASE s.pg[clock].evicted = None
      BY <2>2, <3>1 DEF Done, Same
    <3>2. CASE s.pg[clock].evicted # None
      <4>1. s.pg[clock].evicted \in Policy
        BY <1>2, <2>1, <3>2
      <4> QED BY <2>2, <3>2, <4>1, EndDone
    <3> QED BY <3>1, <3>2
  <2>4. Fine(both, None, p)
    BY <2>3, DoneFine
  <2>5. PICK r : r = RefreshChal(both, clock)
    OBVIOUS
  <2>6. Done(both, r, None, p) /\ Fine(r, None, p)
    BY <2>1, <2>4, <2>5, RefreshDone, DoneFine
  <2>7. PICK u : u = UpdateLifoList(r, clock)
    OBVIOUS
  <2>8. Done(r, u, None, p) /\ Fine(u, None, p)
    BY <2>6, <2>7, UpdateDone, DoneFine
  <2>9. Same(s, u) /\ Fine(u, clock, p)
    BY <2>3, <2>6, <2>8, DoneTrans, DoneFine, FineWeaker
  <2>10. w = [u EXCEPT !.victim = clock]
    BY <1>3, <1>5, <2>2, <2>5, <2>7 DEF VoterActualVictim
  <2>11. Fine(w, clock, p) /\ Same(u, w) /\ w.victim = clock
    BY <2>9, <2>10, VictimFine
  <2> QED BY <1>3, <2>9, <2>11, SameTrans
<1>6. CASE clock # lifo /\ s.pol.lead = "CLOCK"
  <2>1. PICK x : x = Settle(s, clock, lifo)
    OBVIOUS
  <2>2. Done(s, x, clock, p)
    BY <1>6, <2>1, SettleDone
  <2>3. Fine(x, clock, p) /\ Same(s, x)
    BY <2>2, DoneFine
  <2>4. w = [x EXCEPT !.victim = clock]
    BY <1>3, <1>6, <2>1 DEF VoterActualVictim
  <2>5. Fine(w, clock, p) /\ Same(x, w) /\ w.victim = clock
    BY <2>3, <2>4, VictimFine
  <2> QED BY <1>3, <2>3, <2>5, SameTrans
<1>7. CASE clock # lifo /\ s.pol.lead # "CLOCK"
  <2>1. PICK x : x = Settle(s, lifo, clock)
    OBVIOUS
  <2>2. Done(s, x, lifo, p)
    BY <1>2, <1>7, <2>1, SettleDone DEF Policy
  <2>3. Fine(x, lifo, p) /\ Same(s, x)
    BY <2>2, DoneFine
  <2>4. w = [x EXCEPT !.victim = lifo]
    BY <1>3, <1>7, <2>1 DEF VoterActualVictim
  <2>5. Fine(w, lifo, p) /\ Same(x, w) /\ w.victim = lifo
    BY <2>3, <2>4, VictimFine
  <2> QED BY <1>3, <2>3, <2>5, SameTrans
<1> QED BY <1>4, <1>5, <1>6, <1>7

-----------------------------------------------------------------------------
(* An eviction *)

LEMMA WorkForm ==
  ASSUME IInv, NEW lead \in Policy
  PROVE  LET s == Work(Cell, lead)
         IN  /\ s \in WorkRec /\ s.pg = pg /\ s.ghost = ghost /\ s.victim = None /\ s.wins = {} /\ s.stop = FALSE
             /\ s.pol = [pol EXCEPT !.lead = lead] /\ s.pol \in PolRec
             /\ s.pol.lead = lead /\ s.pol.sample = pol.sample /\ s.pol.warm = pol.warm /\ s.pol.entries = pol.entries
             /\ s.pol.lifo = pol.lifo /\ s.pol.lt = pol.lt /\ s.pol.clock = pol.clock
<1>1. pg \in [Frame -> PageRec] /\ ghost \in [Page -> {None} \cup GhostRec] /\ pol \in PolRec
  BY DEF IInv, TypeOK, PageRec, GhostRec, PolRec
<1>2. PICK q : q = [pol EXCEPT !.lead = lead]
  OBVIOUS
<1>3. /\ q \in PolRec /\ q.lead = lead /\ q.sample = pol.sample /\ q.warm = pol.warm /\ q.entries = pol.entries
      /\ q.lifo = pol.lifo /\ q.lt = pol.lt /\ q.clock = pol.clock
  BY <1>1, <1>2 DEF PolRec
<1>4. Work(Cell, lead) = [pg |-> pg, ghost |-> ghost, pol |-> q, wins |-> {},
     nref |-> 0, skipped |-> 0, avoid |-> TRUE, stop |-> FALSE, victim |-> None]
  BY <1>2 DEF Work, Cell
<1>5. Work(Cell, lead) \in WorkRec
  BY <1>1, <1>3, <1>4 DEF WorkRec
<1>6. PICK s : s = Work(Cell, lead)
  OBVIOUS
<1>7. s.pg = pg /\ s.ghost = ghost /\ s.victim = None /\ s.wins = {} /\ s.stop = FALSE /\ s.pol = q
  BY <1>4, <1>6
<1>8. s.pol = [pol EXCEPT !.lead = lead] /\ s.pol \in PolRec
  BY ONLY <1>2, <1>3, <1>7, Zenon
<1>9. /\ s.pol.lead = lead /\ s.pol.sample = pol.sample /\ s.pol.warm = pol.warm /\ s.pol.entries = pol.entries
      /\ s.pol.lifo = pol.lifo /\ s.pol.lt = pol.lt /\ s.pol.clock = pol.clock
  BY ONLY <1>3, <1>7, Zenon
<1> QED BY ONLY <1>5, <1>6, <1>7, <1>8, <1>9, Zenon

\* A follower starts with a fine state, and so does a voter once the access to a ghost has been evaluated.
LEMMA WorkFine ==
  ASSUME IInv, NEW lead \in Policy, NEW p \in Uncached, ghost[p] = None
  PROVE  Fine(Work(Cell, lead), None, p)
<1>1. PICK s : s = Work(Cell, lead)
  OBVIOUS
<1>2. s \in WorkRec /\ s.pg = pg /\ s.ghost = ghost /\ s.pol.lt = pol.lt /\ s.pol \in PolRec
  BY <1>1, WorkForm
<1>3. Complete(s.pol.lt)
  BY <1>2 DEF PolRec, IInv, LifoListComplete, Complete
<1>4. Apart(s, p)
  BY <1>2 DEF IInv, OneFrame, Apart, Uncached
<1>5. Free(s, None, p)
  BY <1>2 DEF IInv, GhostsAreEvicted, Free
<1>6. \A f \in Frame : Marked(s, f)
  BY <1>2 DEF IInv, GhostsAreEvicted, Marked
<1> QED BY <1>1, <1>2, <1>3, <1>4, <1>5, <1>6 DEF Fine

LEMMA EvalFine ==
  ASSUME IInv, NEW lead \in Policy, NEW p \in Uncached
  PROVE  LET s == Work(Cell, lead)
             w == EvalChallenge(s, p)
         IN  Fine(w, None, p) /\ Same(s, w) /\ w.victim = None /\ (ghost[p] = None => w = s)
<1>1. PICK s : s = Work(Cell, lead)
  OBVIOUS
<1>2. /\ s \in WorkRec /\ s.pg = pg /\ s.ghost = ghost /\ s.pol.lt = pol.lt /\ s.pol \in PolRec /\ s.victim = None
  BY <1>1, WorkForm
<1>3. PICK w : w = EvalChallenge(s, p)
  OBVIOUS
<1>4. p \in Page
  BY DEF Uncached
<1>5. CASE ghost[p] = None
  <2>1. w = s
    BY <1>2, <1>3, <1>5 DEF EvalChallenge
  <2> QED BY <1>1, <1>2, <1>3, <1>5, <2>1, WorkFine DEF Same
<1>6. CASE ghost[p] # None
  <2>1. ghost[p] \in GhostRec
    BY <1>2, <1>4, <1>6 DEF WorkRec
  <2>2. PICK by \in Policy, f \in Frame : ghost[p] = [policy |-> by, idx |-> f]
    BY <2>1 DEF GhostRec
  <2>3. Other(by) \in Policy /\ by \in {"CLOCK", "LIFO"}
    BY OtherPolicy
  <2>4. PICK q : q = IF by = "LIFO" THEN [s.pg[f] EXCEPT !.clockStale = FALSE] ELSE [s.pg[f] EXCEPT !.lifoStale = FALSE]
    OBVIOUS
  <2>5. q \in PageRec /\ Milder(q, s.pg[f]) /\ (by = "LIFO" => q.clockStale = FALSE) /\ (by = "CLOCK" => q.lifoStale = FALSE)
    <3>1. s.pg[f] \in PageRec
      BY <1>2 DEF WorkRec
    <3> QED BY <2>4, <3>1 DEF PageRec, Milder
  <2>6. PICK e : e = [s EXCEPT !.ghost[p] = None, !.wins = @ \cup {Other(by)}]
    OBVIOUS
  <2>7. /\ e \in WorkRec /\ e.pg = s.pg /\ e.pol = s.pol /\ e.victim = None
        /\ e.ghost[p] = None /\ \A x \in Page \ {p} : e.ghost[x] = ghost[x]
    BY <1>2, <1>4, <2>3, <2>6 DEF WorkRec
  <2>8. w = [e EXCEPT !.pg[f] = q]
    <3>1. w = IF by = "LIFO" THEN [e EXCEPT !.pg[f].clockStale = FALSE] ELSE [e EXCEPT !.pg[f].lifoStale = FALSE]
      BY <1>2, <1>3, <1>6, <2>2, <2>6 DEF EvalChallenge, EndChallenge, WorkRec
    <3> QED BY <2>4, <2>7, <3>1 DEF WorkRec
  <2>9. /\ w \in WorkRec /\ w.ghost = e.ghost /\ w.pol = s.pol /\ w.victim = None
        /\ w.pg[f] = q /\ \A g \in Frame \ {f} : w.pg[g] = pg[g]
    BY <1>2, <2>5, <2>7, <2>8, PutPage
  <2>10. \A g \in Frame : Milder(w.pg[g], pg[g])
    BY <1>2, <2>5, <2>9 DEF Milder
  <2>11. Complete(w.pol.lt)
    <3>1. pol.lt \in Seq(Frame)
      BY <1>2 DEF PolRec
    <3>2. Complete(pol.lt)
      BY <3>1, Zenon DEF IInv, LifoListComplete, Complete
    <3> QED BY <1>2, <2>9, <3>2, Zenon
  <2>12. Apart(w, p)
    BY <2>10 DEF IInv, OneFrame, Apart, Uncached, Milder
  <2>13. Free(w, None, p)
    <3>1. \A g \in Frame : pg[g].id # None => pg[g].id \in Page \ {p} /\ ghost[pg[g].id] = None
      <4> TAKE g \in Frame
      <4>1. pg[g].id \in Page \cup {None}
        BY DEF IInv, TypeOK
      <4>2. pg[g].id # p
        BY DEF Uncached
      <4>3. pg[g].id # None => ghost[pg[g].id] = None
        BY DEF IInv, GhostsAreEvicted
      <4> QED BY ONLY <4>1, <4>2, <4>3, Zenon
    <3> QED BY <2>7, <2>9, <2>10, <3>1 DEF Free, Milder
  <2>14. \A g \in Frame : Marked(w, g)
    <3> TAKE g \in Frame
    <3>1. ASSUME NEW b \in Policy, NEW x \in Page, ghost[x] = [policy |-> b, idx |-> g], b # by \/ g # f
          PROVE  w.ghost[x] = [policy |-> b, idx |-> g]
      <4>1. x # p
        BY <2>2, <3>1
      <4> QED BY <2>7, <2>9, <3>1, <4>1
    <3>2. w.pg[g].lifoStale => pg[g].lifoStale /\ ("CLOCK" # by \/ g # f)
      BY <2>3, <2>5, <2>9, <2>10 DEF Milder
    <3>3. w.pg[g].clockStale => pg[g].clockStale /\ ("LIFO" # by \/ g # f)
      BY <2>3, <2>5, <2>9, <2>10 DEF Milder
    <3>4. w.pg[g].lifoStale => \E x \in Page : w.ghost[x] = [policy |-> "CLOCK", idx |-> g]
      BY <3>1, <3>2 DEF IInv, GhostsAreEvicted, Policy
    <3>5. w.pg[g].clockStale => \E x \in Page : w.ghost[x] = [policy |-> "LIFO", idx |-> g]
      BY <3>1, <3>3 DEF IInv, GhostsAreEvicted, Policy
    <3> QED BY <3>4, <3>5 DEF Marked
  <2>15. Same(s, w)
    BY <1>2, <2>9, <2>10 DEF Same, Milder
  <2>16. Fine(w, None, p)
    BY <2>9, <2>11, <2>12, <2>13, <2>14 DEF Fine
  <2> QED BY <1>1, <1>3, <1>6, <2>9, <2>15, <2>16
<1> QED BY <1>5, <1>6

\* What an eviction leaves: a state that is fine but for its victim, which is not referenced.
Evicted(w, p) ==
    /\ Fine(w, w.victim, p) /\ w.victim \in Frame \cup {None} /\ (w.victim # None => ~pg[w.victim].ref)
    /\ \A f \in Frame : w.pg[f].id = pg[f].id /\ w.pg[f].ref = pg[f].ref
    /\ w.pol.sample = pol.sample /\ w.pol.warm = pol.warm /\ (~pol.sample => \A q \in Page : w.ghost[q] = None)

LEMMA RescanFine ==
  ASSUME NEW s, NEW p, Fine(s, None, p)
  PROVE  Fine(Rescan(s), None, p) /\ Same(s, Rescan(s)) /\ Rescan(s).victim = None /\ Rescan(s).pol = s.pol
<1>1. s \in WorkRec /\ Complete(s.pol.lt) /\ \A f \in Frame : Milder(s.pg[f], s.pg[f])
  BY DEF Fine, Milder
<1>2. PICK z : z = Rescan(s)
  OBVIOUS
<1>3. z \in WorkRec /\ z.pg = s.pg /\ z.ghost = s.ghost /\ z.pol = s.pol /\ z.victim = None
  BY <1>1, <1>2 DEF WorkRec, Rescan
<1>4. Fine(z, None, p) /\ Same(s, z)
  BY <1>1, <1>3, MilderFine
<1> QED BY <1>2, <1>3, <1>4

LEMMA SampleEvicted ==
  ASSUME IInv, pol.sample, ~pol.warm, NEW p \in Uncached
  PROVE  Evicted(EvictSample(Cell, p), p)
<1>1. p \in Page /\ pol.lead \in Policy /\ Cell.pol = pol /\ 2 * N \in Nat /\ {"voter clock", "voter lifo"} \subseteq Scans
  BY Constants DEF Uncached, IInv, TypeOK, Cell, Scans
<1>2. PICK s0 : s0 = Work(Cell, pol.lead)
  OBVIOUS
<1>3. s0.pg = pg /\ s0.pol.sample = pol.sample /\ s0.pol.warm = pol.warm
  BY <1>1, <1>2, WorkForm
<1>4. PICK s : s = EvalChallenge(s0, p)
  OBVIOUS
<1>5. Fine(s, None, p) /\ Same(s0, s) /\ s.victim = None
  BY <1>1, <1>2, <1>4, EvalFine
<1>6. PICK c : c = VoterClock(s)
  OBVIOUS
<1>7. Kept(s, c, None, p, "voter clock")
  BY <1>1, <1>5, <1>6, ScanKept DEF VoterClock
<1>8. Fine(c, None, p) /\ Same(s, c) /\ Found(c, "voter clock")
  BY <1>5, <1>7 DEF Kept, Found
<1>9. PICK d : d = Rescan(c)
  OBVIOUS
<1>10. Fine(d, None, p) /\ Same(c, d) /\ d.victim = None
  BY <1>8, <1>9, RescanFine
<1>11. PICK l : l = VoterLifo(d)
  OBVIOUS
<1>12. Kept(d, l, None, p, "voter lifo")
  BY <1>1, <1>10, <1>11, ScanKept DEF VoterLifo
<1>13. Fine(l, None, p) /\ Same(d, l) /\ Found(l, "voter lifo")
  BY <1>10, <1>12 DEF Kept, Found
<1>14. Same(s0, c) /\ Same(s0, l)
  BY <1>5, <1>8, <1>10, <1>13, SameTrans
<1>15. c.victim \in Frame \cup {None} /\ l.victim \in Frame \cup {None}
  BY <1>8, <1>13 DEF Fine, WorkRec
<1>16. \A f \in Frame : l.pg[f].id # None
  BY <1>3, <1>14 DEF IInv, WarmUpFillsCell, Same
<1>17. PICK w : w = VoterActualVictim(l, c.victim, l.victim)
  OBVIOUS
<1>18. Fine(w, w.victim, p) /\ Same(l, w) /\ w.victim \in {c.victim, l.victim}
  <2>1. l.victim # None => l.pol.lifo = l.victim
    BY <1>13 DEF Found
  <2> QED BY <1>1, <1>13, <1>15, <1>16, <1>17, <2>1, VictimDone
<1>19. w.victim # None => ~pg[w.victim].ref
  <2>1. \A f \in Frame : c.pg[f].ref = pg[f].ref /\ l.pg[f].ref = pg[f].ref
    BY <1>3, <1>14 DEF Same
  <2> QED BY <1>8, <1>13, <1>15, <1>18, <2>1 DEF Found
<1>20. Same(s0, w)
  BY <1>14, <1>18, SameTrans
<1>21. EvictSample(Cell, p) = w
  <2>1. ~s.pol.warm
    BY <1>3, <1>5 DEF Same
  <2> QED BY <1>1, <1>2, <1>4, <1>6, <1>9, <1>11, <1>17, <2>1 DEF EvictSample
<1>22. Evicted(w, p)
  BY <1>3, <1>15, <1>18, <1>19, <1>20 DEF Evicted, Same
<1> QED BY <1>21, <1>22

LEMMA FollowEvicted ==
  ASSUME IInv, ~pol.sample, ~pol.warm, NEW p \in Uncached, NEW global \in Policy
  PROVE  Evicted(EvictFollow(Cell, global), p)
<1>1. p \in Page /\ Cell.pol = pol /\ 2 * N \in Nat /\ 3 * N + 1 \in Nat /\ {"follower clock", "follower lifo"} \subseteq Scans
  BY Constants DEF Uncached, Cell, Scans
<1>2. \A q \in Page : ghost[q] = None
  BY DEF IInv, FollowersHaveNone, NoGhosts
<1>3. PICK s : s = Work(Cell, global)
  OBVIOUS
<1>4. Fine(s, None, p)
  BY <1>1, <1>2, <1>3, WorkFine
<1>5. s.pg = pg /\ s.pol.sample = pol.sample /\ s.pol.warm = pol.warm /\ s.ghost = ghost /\ s.victim = None
  BY <1>3, WorkForm
<1>6. PICK w : w = EvictFollow(Cell, global)
  OBVIOUS
<1>7. w = Scan(s, "follower clock", 3 * N + 1) \/ w = Scan(s, "follower lifo", 2 * N)
  BY <1>1, <1>3, <1>5, <1>6 DEF EvictFollow, FollowerClock, FollowerLifo
<1>8. PICK scan \in Scans : Kept(s, w, None, p, scan)
  BY <1>1, <1>4, <1>7, ScanKept
<1>9. Fine(w, None, p) /\ Same(s, w) /\ Found(w, scan) /\ w.ghost = s.ghost
  BY <1>5, <1>8 DEF Kept, Found
<1>10. w.victim \in Frame \cup {None}
  BY <1>9 DEF Fine, WorkRec
<1>11. Fine(w, w.victim, p)
  BY <1>9, FineWeaker
<1>12. w.victim # None => ~pg[w.victim].ref
  BY <1>5, <1>9, <1>10 DEF Found, Same
<1>13. Evicted(w, p)
  BY <1>2, <1>5, <1>9, <1>10, <1>11, <1>12 DEF Evicted, Same
<1> QED BY <1>6, <1>13

\* The score may change the leading policy.
LEMMA PageEvicted ==
  ASSUME IInv, ~pol.warm, NEW p \in Uncached, NEW w \in EvictPage(Cell, p)
  PROVE  Evicted(w, p)
<1>1. CASE pol.sample
  <2>1. PICK s : s = EvictSample(Cell, p)
    OBVIOUS
  <2>2. Evicted(s, p)
    BY <1>1, <2>1, SampleEvicted
  <2>3. PICK lead \in {pol.lead} \cup s.wins : w = [s EXCEPT !.pol.lead = lead]
    BY <1>1, <2>1 DEF EvictPage, Cell
  <2>4. s \in WorkRec /\ lead \in Policy /\ Complete(s.pol.lt)
    BY <2>2, <2>3 DEF Evicted, Fine, WorkRec, IInv, TypeOK
  <2>5. /\ w \in WorkRec /\ w.pg = s.pg /\ w.ghost = s.ghost /\ w.victim = s.victim
        /\ w.pol.sample = s.pol.sample /\ w.pol.warm = s.pol.warm /\ w.pol.lt = s.pol.lt
    BY <2>3, <2>4 DEF WorkRec, PolRec
  <2>6. Fine(w, w.victim, p)
    BY <2>2, <2>4, <2>5 DEF Evicted, Fine, Apart, Free, Marked
  <2> QED BY <2>2, <2>5, <2>6 DEF Evicted
<1>2. CASE ~pol.sample
  BY <1>2, FollowEvicted DEF EvictPage, Cell
<1> QED BY <1>1, <1>2

-----------------------------------------------------------------------------
(* The steps *)

\* What a step does to pages in use.
InUseKept == \A f \in Frame : pg[f].ref => pg'[f].id = pg[f].id

LEMMA MissStep ==
  ASSUME IInv, ~pol.warm, NEW p \in Page, SearchMiss(p)
  PROVE  IInv' /\ InUseKept
<1>1. p \in Uncached
  BY DEF SearchMiss
<1>2. PICK w \in EvictPage(Cell, p) :
          /\ pg' = IF w.victim = None THEN w.pg
                   ELSE [w.pg EXCEPT ![w.victim].id = p, ![w.victim].ref = TRUE,
                                     ![w.victim].dirty = FALSE, ![w.victim].hits = TRUE,
                                     ![w.victim].boundary = @ \/ p \in Boundary]
          /\ ghost' = w.ghost
          /\ pol' = w.pol
  BY DEF SearchMiss
<1>3. Evicted(w, p)
  BY <1>1, <1>2, PageEvicted
<1>4. /\ w \in WorkRec /\ Complete(w.pol.lt) /\ Apart(w, p) /\ Free(w, w.victim, p) /\ \A f \in Frame : Marked(w, f)
  BY <1>3 DEF Evicted, Fine
<1>5. w.pg \in [Frame -> PageRec] /\ w.ghost \in [Page -> {None} \cup GhostRec] /\ w.pol \in PolRec
  BY <1>4 DEF WorkRec
<1>6. PICK v \in Frame \cup {None} : v = w.victim
  BY <1>3 DEF Evicted
\* The frames after the step.
<1>7. /\ pg' \in [Frame -> PageRec]
      /\ \A f \in Frame \ {v} : pg'[f] = w.pg[f]
      /\ v # None => /\ pg'[v].id = p
                     /\ pg'[v].lifoStale = w.pg[v].lifoStale /\ pg'[v].clockStale = w.pg[v].clockStale
  <2>1. CASE v = None
    BY <1>2, <1>5, <1>6, <2>1, Constants
  <2>2. CASE v # None
    <3>1. v \in Frame /\ w.pg[v] \in PageRec
      BY <1>5, <2>2
    <3>2. PICK q : q = [w.pg[v] EXCEPT !.id = p, !.ref = TRUE, !.dirty = FALSE, !.hits = TRUE,
                                       !.boundary = @ \/ p \in Boundary]
      OBVIOUS
    <3>3. q \in PageRec /\ q.id = p /\ q.lifoStale = w.pg[v].lifoStale /\ q.clockStale = w.pg[v].clockStale
      <4>1. PICK b \in BOOLEAN : b = (w.pg[v].boundary \/ p \in Boundary)
        OBVIOUS
      <4>2. q = [w.pg[v] EXCEPT !.id = p, !.ref = TRUE, !.dirty = FALSE, !.hits = TRUE, !.boundary = b]
        BY <3>1, <3>2, <4>1 DEF PageRec
      <4> QED BY <3>1, <4>2 DEF PageRec
    <3>4. pg' = [w.pg EXCEPT ![v] = q]
      BY <1>2, <1>5, <1>6, <2>2, <3>1, <3>2
    <3> QED BY <1>5, <3>1, <3>3, <3>4
  <2> QED BY <2>1, <2>2
<1>8. \A f \in Frame \ {v} : pg'[f].id = pg[f].id
  BY <1>3, <1>7 DEF Evicted
<1>9. TypeOK'
  BY <1>2, <1>5, <1>7 DEF TypeOK, PageRec, GhostRec, PolRec
<1>10. LifoListComplete'
  BY <1>2, <1>4 DEF LifoListComplete, Complete
<1>11. WarmUpFillsCell'
  <2>1. \A f \in Frame : pg[f].id # None
    BY DEF IInv, WarmUpFillsCell
  <2> QED BY <1>7, <1>8, <2>1, Constants DEF WarmUpFillsCell
<1>12. GhostsAreEvicted'
  <2> SUFFICES ASSUME NEW f \in Frame
               PROVE  /\ pg'[f].id # None  => ghost'[pg'[f].id] = None
                      /\ pg'[f].lifoStale  => \E x \in Page : ghost'[x] = [policy |-> "CLOCK", idx |-> f]
                      /\ pg'[f].clockStale => \E x \in Page : ghost'[x] = [policy |-> "LIFO", idx |-> f]
    BY DEF GhostsAreEvicted
  <2>1. pg'[f].lifoStale = w.pg[f].lifoStale /\ pg'[f].clockStale = w.pg[f].clockStale
    BY <1>7, Constants
  <2>2. Marked(w, f)
    BY <1>4
  <2>3. pg'[f].id # None  => ghost'[pg'[f].id] = None
    <3>1. CASE f = v
      BY <1>2, <1>4, <1>7, <3>1, Constants DEF Free
    <3>2. CASE f # v
      BY <1>2, <1>4, <1>6, <1>7, <3>2 DEF Free
    <3> QED BY <3>1, <3>2
  <2> QED BY <1>2, <2>1, <2>2, <2>3 DEF Marked
<1>13. OneFrame'
  <2> SUFFICES ASSUME NEW f \in Frame, NEW g \in Frame, f # g, pg'[f].id # None PROVE pg'[f].id # pg'[g].id
    BY DEF OneFrame
  <2>1. \A h \in Frame : pg[h].id # p
    BY <1>1 DEF Uncached
  <2>2. CASE f # v /\ g # v
    BY <1>8, <2>2 DEF IInv, OneFrame
  <2>3. CASE f = v
    BY <1>7, <1>8, <2>1, <2>3, Constants
  <2>4. CASE g = v
    BY <1>7, <1>8, <2>1, <2>4, Constants
  <2> QED BY <2>2, <2>3, <2>4
<1>14. WarmUpOrder' /\ FollowersHaveNone'
  BY <1>2, <1>3 DEF Evicted, WarmUpOrder, FollowersHaveNone, NoGhosts
<1>15. InUseKept
  BY <1>3, <1>6, <1>8, Constants DEF InUseKept, Evicted
<1> QED BY <1>9, <1>10, <1>11, <1>12, <1>13, <1>14, <1>15 DEF IInv

\* The warm-up takes the next frame, which is empty.
LEMMA WarmEvicted ==
  ASSUME IInv, pol.warm, NEW p \in Uncached, NEW w \in EvictPage(Cell, p)
  PROVE  /\ w.victim = pol.entries /\ w.pg = pg /\ w.ghost = ghost
         /\ w.pol = [pol EXCEPT !.lifo = pol.entries + 1, !.entries = pol.entries + 1, !.warm = (pol.entries + 1 < N)]
<1>1. /\ pol.lead = "LIFO" /\ pol.lifo = pol.entries /\ pol.entries < N /\ (\A q \in Page : ghost[q] = None) /\ pol \in PolRec
      /\ pol.entries \in Nat
  <2>1. pol \in PolRec /\ pol.entries \in 0 .. N
    BY DEF IInv, TypeOK, PolRec
  <2>2. pol.entries \in Nat
    BY <2>1, Constants
  <2> QED BY <2>1, <2>2 DEF IInv, WarmUpOrder, NoGhosts
<1>2. p \in Page /\ pol.lead \in Policy
  BY <1>1 DEF Uncached, Policy
<1>3. PICK s : s = Work(Cell, pol.lead)
  OBVIOUS
<1>4. /\ s \in WorkRec /\ s.pg = pg /\ s.ghost = ghost /\ s.wins = {} /\ s.pol = [pol EXCEPT !.lead = pol.lead]
      /\ s.pol.warm = pol.warm /\ s.pol.lead = pol.lead /\ s.pol.lifo = pol.lifo /\ s.pol.entries = pol.entries
  BY <1>2, <1>3, WorkForm
<1>5. s.pol = pol
  BY <1>1, <1>4 DEF PolRec
<1>6. pol.entries % N = pol.entries
  BY <1>1, Constants
<1>7. PICK x : x = WarmUp(s)
  OBVIOUS
<1>8. /\ x.victim = pol.entries /\ x.pg = pg /\ x.ghost = ghost /\ x.wins = {}
      /\ x.pol = [pol EXCEPT !.lifo = pol.entries + 1, !.entries = pol.entries + 1, !.warm = (pol.entries + 1 < N)]
  BY <1>1, <1>4, <1>5, <1>6, <1>7 DEF WarmUp, Take, WorkRec
<1>9. CASE pol.sample
  <2>1. EvalChallenge(s, p) = s
    BY <1>1, <1>2, <1>4 DEF EvalChallenge
  <2>2. EvictSample(Cell, p) = x
    BY <1>3, <1>4, <1>7, <2>1 DEF EvictSample, Cell
  <2>3. w = [x EXCEPT !.pol.lead = pol.lead]
    BY <1>8, <1>9, <2>2 DEF EvictPage, Cell
  <2>4. DOMAIN x = {"pg", "ghost", "pol", "wins", "nref", "skipped", "avoid", "stop", "victim"}
    BY <1>4, <1>7 DEF WarmUp, Take, WorkRec
  <2>5. PICK o : o = [pol EXCEPT !.lifo = pol.entries + 1, !.entries = pol.entries + 1, !.warm = (pol.entries + 1 < N)]
    OBVIOUS
  <2>6. [o EXCEPT !.lead = pol.lead] = o
    BY <1>1, <2>5 DEF PolRec
  <2>7. w.victim = x.victim /\ w.pg = x.pg /\ w.ghost = x.ghost /\ w.pol = [x.pol EXCEPT !.lead = pol.lead]
    BY <2>3, <2>4
  <2> QED BY <1>8, <2>5, <2>6, <2>7
<1>10. CASE ~pol.sample
  <2>1. PICK global \in Policy : w = EvictFollow(Cell, global)
    BY <1>10 DEF EvictPage, Cell
  <2>2. w = x
    BY <1>1, <1>3, <1>4, <1>7, <2>1 DEF EvictFollow, FollowerLifo, Cell
  <2> QED BY <1>8, <2>2
<1> QED BY <1>9, <1>10

LEMMA WarmStep ==
  ASSUME IInv, pol.warm, NEW p \in Page, SearchMiss(p)
  PROVE  IInv' /\ InUseKept
<1>1. p \in Uncached
  BY DEF SearchMiss
<1>2. PICK w \in EvictPage(Cell, p) :
          /\ pg' = IF w.victim = None THEN w.pg
                   ELSE [w.pg EXCEPT ![w.victim].id = p, ![w.victim].ref = TRUE,
                                     ![w.victim].dirty = FALSE, ![w.victim].hits = TRUE,
                                     ![w.victim].boundary = @ \/ p \in Boundary]
          /\ ghost' = w.ghost
          /\ pol' = w.pol
  BY DEF SearchMiss
<1>3. PICK v : v = pol.entries
  OBVIOUS
<1>4. /\ w.victim = v /\ w.pg = pg /\ w.ghost = ghost
      /\ w.pol = [pol EXCEPT !.lifo = v + 1, !.entries = v + 1, !.warm = (v + 1 < N)]
  BY <1>1, <1>2, <1>3, WarmEvicted
<1>5. /\ pol.lead = "LIFO" /\ v < N /\ NoGhosts /\ v \in Nat /\ pol \in PolRec
      /\ \A f \in Frame : IF f < v THEN pg[f].id # None ELSE pg[f].id = None /\ ~pg[f].ref
  <2>1. pol \in PolRec /\ pol.entries \in 0 .. N
    BY DEF IInv, TypeOK, PolRec
  <2>2. v \in Nat
    BY <1>3, <2>1, Constants
  <2> QED BY <1>3, <2>1, <2>2 DEF IInv, WarmUpOrder
<1>6. v \in Frame /\ v # None /\ v + 1 \in 0 .. N
  BY <1>5, Constants
<1>7. pg \in [Frame -> PageRec] /\ ghost \in [Page -> {None} \cup GhostRec] /\ pg[v] \in PageRec
  BY <1>6 DEF IInv, TypeOK, PageRec, GhostRec
<1>8. /\ pg' \in [Frame -> PageRec] /\ (\A f \in Frame \ {v} : pg'[f] = pg[f]) /\ pg'[v].id = p
      /\ pg'[v].lifoStale = pg[v].lifoStale /\ pg'[v].clockStale = pg[v].clockStale
  <2>1. PICK q : q = [pg[v] EXCEPT !.id = p, !.ref = TRUE, !.dirty = FALSE, !.hits = TRUE,
                                   !.boundary = @ \/ p \in Boundary]
    OBVIOUS
  <2>2. q \in PageRec /\ q.id = p /\ q.lifoStale = pg[v].lifoStale /\ q.clockStale = pg[v].clockStale
    <3>1. PICK b \in BOOLEAN : b = (pg[v].boundary \/ p \in Boundary)
      OBVIOUS
    <3>2. q = [pg[v] EXCEPT !.id = p, !.ref = TRUE, !.dirty = FALSE, !.hits = TRUE, !.boundary = b]
      BY <1>7, <2>1, <3>1 DEF PageRec
    <3> QED BY <1>7, <3>2 DEF PageRec
  <2>3. pg' = [pg EXCEPT ![v] = q]
    BY <1>2, <1>4, <1>6, <1>7, <2>1
  <2> QED BY <1>6, <1>7, <2>2, <2>3
<1>9. /\ pol' \in PolRec /\ pol'.lt = pol.lt /\ pol'.lead = "LIFO" /\ pol'.sample = pol.sample
      /\ pol'.lifo = v + 1 /\ pol'.entries = v + 1 /\ (pol'.warm <=> v + 1 < N)
  <2>1. pol' = [pol EXCEPT !.lifo = v + 1, !.entries = v + 1, !.warm = (v + 1 < N)]
    BY <1>2, <1>4
  <2>2. CASE v + 1 < N
    <3>1. (v + 1 < N) = TRUE
      BY <2>2
    <3>2. pol' = [pol EXCEPT !.lifo = v + 1, !.entries = v + 1, !.warm = TRUE]
      BY Zenon, <2>1, <3>1
    <3> QED BY <1>5, <1>6, <2>2, <3>2 DEF PolRec
  <2>3. CASE ~(v + 1 < N)
    <3>1. (v + 1 < N) = FALSE
      BY <2>3
    <3>2. pol' = [pol EXCEPT !.lifo = v + 1, !.entries = v + 1, !.warm = FALSE]
      BY Zenon, <2>1, <3>1
    <3> QED BY <1>5, <1>6, <2>3, <3>2 DEF PolRec
  <2> QED BY <2>2, <2>3
<1>10. ghost' = ghost
  BY <1>2, <1>4
<1>11. TypeOK'
  BY <1>7, <1>8, <1>9, <1>10 DEF TypeOK, PageRec, GhostRec, PolRec
<1>12. LifoListComplete'
  BY <1>9 DEF IInv, LifoListComplete
<1>13. \A f \in Frame : IF f < v + 1 THEN pg'[f].id # None ELSE pg'[f].id = None /\ ~pg'[f].ref
  <2> TAKE f \in Frame
  <2>1. f \in Nat
    BY Constants
  <2>2. CASE f = v
    BY <1>5, <1>8, <2>2, Constants
  <2>3. CASE f # v
    BY <1>5, <1>8, <2>1, <2>3
  <2> QED BY <2>2, <2>3
<1>14. WarmUpFillsCell'
  <2>1. SUFFICES ASSUME ~(v + 1 < N), NEW f \in Frame PROVE pg'[f].id # None
    BY <1>9 DEF WarmUpFillsCell
  <2>2. f < v + 1
    BY <1>5, <2>1, Constants
  <2> QED BY <1>13, <2>2
<1>15. GhostsAreEvicted'
  <2> SUFFICES ASSUME NEW f \in Frame
               PROVE  /\ pg'[f].id # None  => ghost'[pg'[f].id] = None
                      /\ pg'[f].lifoStale  => \E x \in Page : ghost'[x] = [policy |-> "CLOCK", idx |-> f]
                      /\ pg'[f].clockStale => \E x \in Page : ghost'[x] = [policy |-> "LIFO", idx |-> f]
    BY DEF GhostsAreEvicted
  <2>1. pg'[f].lifoStale = pg[f].lifoStale /\ pg'[f].clockStale = pg[f].clockStale
    BY <1>8
  <2>2. pg'[f].id # None => pg'[f].id \in Page
    BY <1>8 DEF PageRec
  <2> QED BY <1>5, <1>10, <2>1, <2>2 DEF IInv, GhostsAreEvicted, NoGhosts
<1>16. OneFrame'
  <2> SUFFICES ASSUME NEW f \in Frame, NEW g \in Frame, f # g, pg'[f].id # None PROVE pg'[f].id # pg'[g].id
    BY DEF OneFrame
  <2>1. \A h \in Frame : pg[h].id # p
    BY <1>1 DEF Uncached
  <2>2. CASE f # v /\ g # v
    BY <1>8, <2>2 DEF IInv, OneFrame
  <2>3. CASE f = v
    BY <1>8, <2>1, <2>3
  <2>4. CASE g = v
    BY <1>8, <2>1, <2>4
  <2> QED BY <2>2, <2>3, <2>4
<1>17. WarmUpOrder'
  BY <1>5, <1>9, <1>10, <1>13 DEF WarmUpOrder, NoGhosts
<1>18. FollowersHaveNone'
  BY <1>5, <1>10 DEF FollowersHaveNone, NoGhosts
<1>19. InUseKept
  <2>1. ~pg[v].ref
    BY <1>5, <1>6
  <2> QED BY <1>8, <2>1 DEF InUseKept
<1> QED BY <1>11, <1>12, <1>14, <1>15, <1>16, <1>17, <1>18, <1>19 DEF IInv

\* A hit and a release change neither the page of a frame nor its marks.
LEMMA SamePages ==
  ASSUME IInv, UNCHANGED <<ghost, pol>>, pg' \in [Frame -> PageRec],
         \A f \in Frame : /\ pg'[f].id = pg[f].id /\ (pg[f].id = None /\ ~pg[f].ref => ~pg'[f].ref)
                          /\ pg'[f].lifoStale = pg[f].lifoStale /\ pg'[f].clockStale = pg[f].clockStale
  PROVE  IInv' /\ InUseKept
<1>1. TypeOK'
  BY DEF IInv, TypeOK, PageRec
<1>2. LifoListComplete' /\ FollowersHaveNone'
  BY DEF IInv, LifoListComplete, FollowersHaveNone, NoGhosts
<1>3. WarmUpFillsCell' /\ OneFrame' /\ InUseKept
  BY DEF IInv, WarmUpFillsCell, OneFrame, InUseKept
<1>4. WarmUpOrder'
  BY DEF IInv, WarmUpOrder, NoGhosts
<1>5. GhostsAreEvicted'
  BY DEF IInv, GhostsAreEvicted
<1> QED BY <1>1, <1>2, <1>3, <1>4, <1>5 DEF IInv

LEMMA HitStep == ASSUME IInv, NEW f \in Frame, SearchHit(f) PROVE IInv' /\ InUseKept
<1>1. pg \in [Frame -> PageRec] /\ pg[f] \in PageRec /\ pg[f].id # None /\ UNCHANGED <<ghost, pol>>
  BY DEF IInv, TypeOK, PageRec, SearchHit
<1>2. PICK other \in BOOLEAN : pg' = [pg EXCEPT ![f].ref = TRUE, ![f].hits = TRUE, ![f].boundary = @ /\ ~other]
  BY DEF SearchHit
<1>3. PICK b \in BOOLEAN : b = (pg[f].boundary /\ ~other)
  OBVIOUS
<1>4. PICK q : q = [pg[f] EXCEPT !.ref = TRUE, !.hits = TRUE, !.boundary = b]
  OBVIOUS
<1>5. pg' = [pg EXCEPT ![f] = q]
  BY <1>1, <1>2, <1>3, <1>4
<1>6. q \in PageRec /\ q.id = pg[f].id /\ q.lifoStale = pg[f].lifoStale /\ q.clockStale = pg[f].clockStale
  BY <1>1, <1>3, <1>4 DEF PageRec
<1>7. pg' \in [Frame -> PageRec] /\ pg'[f] = q /\ \A g \in Frame \ {f} : pg'[g] = pg[g]
  BY <1>1, <1>5, <1>6
<1> QED BY <1>1, <1>6, <1>7, SamePages

LEMMA ReleaseStep == ASSUME IInv, NEW f \in Frame, Release(f) PROVE IInv' /\ InUseKept
<1>1. pg \in [Frame -> PageRec] /\ pg[f] \in PageRec /\ UNCHANGED <<ghost, pol>>
  BY DEF IInv, TypeOK, PageRec, Release
<1>2. PICK wr \in {FALSE, Writes} : pg' = [pg EXCEPT ![f].ref = FALSE, ![f].dirty = @ \/ wr]
  BY DEF Release
<1>3. PICK b \in BOOLEAN : b = (pg[f].dirty \/ wr)
  OBVIOUS
<1>4. PICK q : q = [pg[f] EXCEPT !.ref = FALSE, !.dirty = b]
  OBVIOUS
<1>5. pg' = [pg EXCEPT ![f] = q]
  BY <1>1, <1>2, <1>3, <1>4
<1>6. q \in PageRec /\ q.id = pg[f].id /\ q.lifoStale = pg[f].lifoStale /\ q.clockStale = pg[f].clockStale /\ ~q.ref
  BY <1>1, <1>3, <1>4 DEF PageRec
<1>7. pg' \in [Frame -> PageRec] /\ pg'[f] = q /\ \A g \in Frame \ {f} : pg'[g] = pg[g]
  BY <1>1, <1>5, <1>6
<1> QED BY <1>1, <1>6, <1>7, SamePages

LEMMA InitInv == Init => IInv
<1> SUFFICES ASSUME Init PROVE IInv
  OBVIOUS
<1>1. PICK b \in BOOLEAN : pol = [sample |-> b, lead |-> "LIFO", warm |-> TRUE, entries |-> 0, clock |-> 0,
                                 lifo |-> 0, lt |-> [i \in 1 .. N |-> i - 1]]
  BY DEF Init
<1>2. PICK lt : lt = [i \in 1 .. N |-> i - 1]
  OBVIOUS
<1>3. lt \in Seq(Frame) /\ Len(lt) = N /\ {lt[i] : i \in 1 .. Len(lt)} = Frame
  <2>1. lt \in [1 .. N -> Frame] /\ N \in Nat
    BY <1>2, Constants
  <2>2. lt \in Seq(Frame) /\ Len(lt) = N
    BY <2>1
  <2>3. \A f \in Frame : f + 1 \in 1 .. N /\ lt[f + 1] = f
    BY <1>2, Constants
  <2> QED BY <2>1, <2>2, <2>3
<1>4. 0 \in Frame /\ 0 \in 0 .. N /\ "LIFO" \in Policy /\ 0 < N
  BY Constants DEF Policy
<1>5. TypeOK
  BY <1>1, <1>2, <1>3, <1>4 DEF Init, TypeOK, NewPage
<1>6. LifoListComplete
  BY <1>1, <1>2, <1>3 DEF LifoListComplete
<1>7. pol.warm /\ pol.lead = "LIFO" /\ pol.lifo = 0 /\ pol.entries = 0
  BY <1>1
<1>8. \A f \in Frame : pg[f].id = None /\ ~pg[f].ref /\ ~pg[f].lifoStale /\ ~pg[f].clockStale /\ ~(f < 0)
  BY Constants DEF Init, NewPage
<1>9. NoGhosts
  BY DEF Init, NoGhosts
<1> QED BY <1>4, <1>5, <1>6, <1>7, <1>8, <1>9
        DEF IInv, WarmUpFillsCell, GhostsAreEvicted, OneFrame, WarmUpOrder, FollowersHaveNone

LEMMA NextInv == ASSUME IInv, Next PROVE IInv' /\ InUseKept
BY HitStep, ReleaseStep, MissStep, WarmStep DEF Next

LEMMA StepInv == ASSUME IInv, [Next]_vars PROVE IInv' /\ InUseKept
<1>1. CASE Next
  BY <1>1, NextInv
<1>2. CASE UNCHANGED vars
  <2>1. pg' = pg /\ ghost' = ghost /\ pol' = pol
    BY <1>2 DEF vars
  <2>2. pg \in [Frame -> PageRec]
    BY DEF IInv, TypeOK, PageRec
  <2> QED BY <2>1, <2>2, SamePages
<1> QED BY <1>1, <1>2

-----------------------------------------------------------------------------
(* Theorems *)

\* The inductive invariant of a cell under APR.
THEOREM APRInvariant == Spec => []IInv
<1>1. IInv /\ [Next]_vars => IInv'
  BY StepInv
<1> QED BY InitInv, <1>1, PTL DEF Spec

\* Type correctness: among others, the heads stay in the cell, so that the policies never index a page outside it.
THEOREM APRTypeOK == Spec => []TypeOK
<1>1. IInv => TypeOK
  BY DEF IInv
<1> QED BY APRInvariant, <1>1, PTL

\* The LIFO list names every frame once, through every removal and insertion (start_challenge, update_lifo_list,
\* follower_lifo_evict).
THEOREM APRLifoListComplete == Spec => []LifoListComplete
<1>1. IInv => LifoListComplete
  BY DEF IInv
<1> QED BY APRInvariant, <1>1, PTL

\* After the warm-up every frame holds a page: the voters never look up the ghost of an empty frame.
THEOREM APRWarmUpFillsCell == Spec => []WarmUpFillsCell
<1>1. IInv => WarmUpFillsCell
  BY DEF IInv
<1> QED BY APRInvariant, <1>1, PTL

\* Cached pages are no ghosts, and a stale mark belongs to a ghost that the other policy evicted from its frame
\* (reg_ghost, eval_challenge, refresh_chal).
THEOREM APRGhostsAreEvicted == Spec => []GhostsAreEvicted
<1>1. IInv => GhostsAreEvicted
  BY DEF IInv
<1> QED BY APRInvariant, <1>1, PTL

\* A page in use is never evicted, whatever the two policies vote and during the warm-up too.
THEOREM APRInUseNotEvicted == Spec => InUseNotEvicted
<1>1. IInv /\ [Next]_vars => [\A f \in Frame : pg[f].ref => pg'[f].id = pg[f].id]_vars
  BY StepInv DEF InUseKept
<1> QED BY APRInvariant, <1>1, PTL DEF Spec, InUseNotEvicted
================================================================================
