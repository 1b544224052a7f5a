---------------------------- MODULE GlobalCacheData ----------------------------
(***************************************************************************)
(* The data of the page cache, in cells that do not vote: a write-back     *)
(* carries the bytes of the page at whose location it is written, and,     *)
(* with single write-backs and reads that fill a frame with its own page,  *)
(* no write is lost.  So do the assertions where a request meets a page.   *)
(***************************************************************************)
EXTENDS GlobalCacheProofs

-------------------------------------------------------------------------------
(* What the frames hold                                                    *)

Merges(t) == th[t].pc \in {"mergeF", "mergeB"}

\* The buffer holds the page at whose location it is written: the page that was
\* evicted from the frame, or the page of the frame.
Carried(b) == frame[b[1]].dataOf = b[2] /\ (frame[b[1]].oldDirty \/ b[2] = frame[b[1]].id)

\* Dirty data are those of the page, old dirty data those of the page that the evictor knows.
DirtyData == \A f \in Frame : frame[f].dirty => frame[f].dataOf = frame[f].id
OldData == \A t \in Thread, f \in Frame : Evicting(t, f) /\ frame[f].oldDirty => frame[f].dataOf = th[t].old

\* Writes, sent, answered or still being built, carry their pages.
WritesCarry ==
    /\ \A io \in Ios : io.op = "write" => \A b \in io.bufs : Carried(b)
    /\ \A t \in Thread : Merges(t) => \A b \in th[t].out : Carried(b)

\* Without large writes every write is the write-back of one page.
SmallWrites ==
    ~LargeWrite => /\ \A t \in Thread : ~Merges(t)
                   /\ \A io \in Ios : io.op = "write" => ~io.multi /\ \A b \in io.bufs : io.bufs = {b}

DataInv == DirtyData /\ OldData /\ WritesCarry /\ SmallWrites

-------------------------------------------------------------------------------
(* What a step does to the data                                            *)

\* The page in the frame, its flags and its data stay.
Kept(f) ==
    /\ frame'[f].id = frame[f].id /\ frame'[f].ready = frame[f].ready /\ frame'[f].dirty = frame[f].dirty
    /\ frame'[f].oldDirty = frame[f].oldDirty /\ frame'[f].dataOf = frame[f].dataOf /\ frame'[f].fresh = frame[f].fresh

\* No page is evicted, no write begins and no answer comes or is taken.
EvictLike == \A t \in Thread, f \in Frame : Evicting(t, f)' => Evicting(t, f) /\ th'[t].old = th[t].old
MergeLike == \A t \in Thread : Merges(t)' => Merges(t) /\ th'[t].out \subseteq th[t].out
WritesLike == \A io \in Ios' : io.op = "write" => io \in Ios \/ \E t \in Thread : Merges(t) /\ io.bufs \subseteq th[t].out
DoneLike == \A t \in Thread : que'[t].disk = que[t].disk
Calm == EvictLike /\ MergeLike /\ WritesLike /\ DoneLike

\* A step that leaves the data alone.
Quiet == Calm /\ (\A f \in Frame : Kept(f)) /\ disk' = disk /\ raced' = raced

\* The requests to the underlying I/O after a step of one thread.
LEMMA CalmLocal == ASSUME NEW t \in Thread, \A u \in Thread \ {t} : th'[u] = th[u],
                          \A u \in Thread : que'[u].disk = que[u].disk,
                          \A f \in Frame : Evicting(t, f)' => Evicting(t, f) /\ th'[t].old = th[t].old,
                          Merges(t)' => Merges(t) /\ th'[t].out \subseteq th[t].out,
                          \A io \in flight' : io.op = "write" => io \in flight \/ (Merges(t) /\ io.bufs \subseteq th[t].out)
                   PROVE Calm
<1>1. EvictLike
  BY DEF EvictLike, Evicting
<1>2. MergeLike
  BY DEF MergeLike, Merges
<1>3. WritesLike
  <2>1. SUFFICES ASSUME NEW io \in Ios', io.op = "write"
                 PROVE io \in Ios \/ \E u \in Thread : Merges(u) /\ io.bufs \subseteq th[u].out
    BY DEF WritesLike
  <2>2. io \in flight' \/ \E u \in Thread : io \in ToSet(que'[u].disk)
    BY <2>1 DEF Ios
  <2>3. CASE io \in flight'
    BY <2>1, <2>3 DEF Ios
  <2>4. CASE \E u \in Thread : io \in ToSet(que'[u].disk)
    BY <2>4 DEF Ios
  <2> QED BY <2>2, <2>3, <2>4
<1> QED BY <1>1, <1>2, <1>3 DEF Calm, DoneLike

\* The buffers are frames with pages.
LEMMA BufTypes == ASSUME TypeOK
                  PROVE /\ \A io \in Ios : \A b \in io.bufs : b \in Frame \X Page /\ b[1] \in Frame /\ b[2] \in Page
                        /\ \A t \in Thread : \A b \in th[t].out : b \in Frame \X Page /\ b[1] \in Frame /\ b[2] \in Page
<1>1. \A io \in Ios : \A b \in io.bufs : b \in Frame \X Page
  BY IosTyped
<1>2. \A t \in Thread : th[t].out \in SUBSET (Frame \X Page)
  BY Records
<1> QED BY <1>1, <1>2

\* Writes carry their pages after a step that begins no write, when the buffers of those under way still do.
LEMMA CalmWrites == ASSUME TypeOK, WritesCarry, SmallWrites, Calm,
                           \A io \in Ios : \A b \in io.bufs : io.op = "write" /\ Carried(b) => Carried(b)',
                           \A t \in Thread : \A b \in th[t].out : Merges(t) /\ Carried(b) => Carried(b)'
                    PROVE WritesCarry' /\ SmallWrites'
<1>1. \A io \in Ios' : io.op = "write" => \A b \in io.bufs : Carried(b)'
  BY DEF WritesCarry, Calm, WritesLike
<1>2. \A t \in Thread : Merges(t)' => \A b \in th'[t].out : Carried(b)'
  BY DEF WritesCarry, Calm, MergeLike
<1>3. SmallWrites'
  BY DEF SmallWrites, Calm, WritesLike, MergeLike
<1> QED BY <1>1, <1>2, <1>3 DEF WritesCarry

\* The invariant when no data change.
LEMMA QuietData == ASSUME TypeOK, DataInv, Quiet PROVE DataInv'
<1>1. DirtyData'
  BY DEF DataInv, DirtyData, Quiet, Kept
<1>2. OldData'
  BY DEF DataInv, OldData, Quiet, Kept, Calm, EvictLike
<1>3. \A b : b[1] \in Frame /\ Carried(b) => Carried(b)'
  BY DEF Quiet, Kept, Carried
<1>4. WritesCarry' /\ SmallWrites'
  BY <1>3, BufTypes, CalmWrites DEF DataInv, Quiet
<1> QED BY <1>1, <1>2, <1>4 DEF DataInv

\* The page in frame f is written to, all of it when w holds.
WroteTo(f, w) ==
    /\ frame[f].id \in Page /\ ~frame[f].oldDirty /\ (frame[f].ready \/ (~frame[f].pending /\ w))
    /\ frame'[f].id = frame[f].id /\ frame'[f].oldDirty = frame[f].oldDirty /\ frame'[f].ready = TRUE /\ frame'[f].dirty = TRUE
    /\ frame'[f].dataOf = frame[f].id /\ frame'[f].fresh = (w \/ (frame[f].fresh /\ frame[f].dataOf = frame[f].id))
    /\ \A g \in Frame \ {f} :
          /\ frame'[g].id = frame[g].id /\ frame'[g].ready = frame[g].ready /\ frame'[g].dirty = frame[g].dirty
          /\ frame'[g].oldDirty = frame[g].oldDirty /\ frame'[g].dataOf = frame[g].dataOf
          /\ frame'[g].fresh = (frame[g].fresh /\ frame[g].dataOf # frame[f].id)
    /\ disk' = [disk EXCEPT ![frame[f].id] = FALSE] /\ raced' = raced

LEMMA WroteData == ASSUME TypeOK, DataInv, Calm, NEW f \in Frame, NEW w, WroteTo(f, w) PROVE DataInv'
<1>1. DirtyData'
  BY DEF DataInv, DirtyData, WroteTo
<1>2. OldData'
  BY DEF DataInv, OldData, WroteTo, Calm, EvictLike
<1>3. \A b : b[1] \in Frame /\ Carried(b) => Carried(b)'
  BY DEF WroteTo, Carried
<1>4. WritesCarry' /\ SmallWrites'
  BY <1>3, BufTypes, CalmWrites DEF DataInv
<1> QED BY <1>1, <1>2, <1>4 DEF DataInv

\* Frame f, which nobody used, is given to page p by thread t.
Takes(t, f, p) ==
    /\ frame[f].ref = 0 /\ p \in Page /\ (\A g \in Frame : frame[g].id # p)
    /\ frame'[f].id = p /\ frame'[f].ready = FALSE /\ frame'[f].dirty = FALSE /\ frame'[f].oldDirty = frame[f].dirty
    /\ frame'[f].dataOf = frame[f].dataOf /\ frame'[f].fresh = frame[f].fresh
    /\ (\A g \in Frame \ {f} : Kept(g)) /\ disk' = disk
    /\ raced' = IF \E g \in Frame : frame[g].oldDirty /\ frame[g].dataOf = p THEN raced \cup {p} ELSE raced
    /\ \A u \in Thread, g \in Frame : Evicting(u, g)' =>
          \/ u # t /\ Evicting(u, g) /\ th'[u].old = th[u].old
          \/ u = t /\ g = f /\ (frame[f].id # None => th'[t].old = frame[f].id)
    /\ MergeLike /\ WritesLike /\ DoneLike

\* A frame in use is covered by no request; so one that is covered stays.
LEMMA TakesUncovered == ASSUME IInv, NEW f \in Frame, frame[f].ref = 0
                        PROVE /\ ~frame[f].oldDirty /\ (\A u \in Thread : ~Evicting(u, f)) /\ (frame[f].dirty => frame[f].id \in Page)
                              /\ \A io \in Ios : \A b \in io.bufs : b[1] # f
                              /\ \A u \in Thread : Merges(u) => \A b \in th[u].out : b[1] # f
<1>1. /\ ~CovBy(f, "read") /\ ~CovBy(f, "write") /\ ~frame[f].oldDirty /\ \A u \in Thread : th[u].cur # f
  BY Unreferenced
<1>2. TypeOK /\ FlagsAt(f)
  BY Parts
<1>3. \A io \in Ios : io.op \in {"read", "write"}
  BY <1>2, IosTyped DEF IO
<1>4. \A io \in Ios : \A b \in io.bufs : b[1] # f
  BY <1>1, <1>3 DEF CovBy, Cov
<1>5. \A u \in Thread : Merges(u) => \A b \in th[u].out : b[1] # f
  BY <1>1 DEF CovBy, Cov, Merges, OutOp
<1>6. \A u \in Thread : ~Evicting(u, f)
  BY <1>1 DEF Evicting
<1>7. frame[f].dirty => frame[f].id \in Page
  BY <1>2, Records DEF FlagsAt
<1> QED BY <1>1, <1>4, <1>5, <1>6, <1>7

LEMMA TakesData == ASSUME IInv, DataInv, NEW t \in Thread, NEW f \in Frame, NEW p, Takes(t, f, p) PROVE DataInv'
<1>1. /\ ~frame[f].oldDirty /\ (\A u \in Thread : ~Evicting(u, f)) /\ (frame[f].dirty => frame[f].id \in Page)
      /\ (\A io \in Ios : \A b \in io.bufs : b[1] # f) /\ (\A u \in Thread : Merges(u) => \A b \in th[u].out : b[1] # f)
  BY TakesUncovered DEF Takes
<1>2. TypeOK
  BY Parts
<1>3. DirtyData'
  BY DEF DataInv, DirtyData, Takes, Kept
<1>4. OldData'
  <2>1. SUFFICES ASSUME NEW u \in Thread, NEW g \in Frame, Evicting(u, g)', frame'[g].oldDirty
                 PROVE frame'[g].dataOf = th'[u].old
    BY DEF OldData
  <2>2. CASE g # f
    <3>1. Kept(g) /\ Evicting(u, g) /\ th'[u].old = th[u].old
      BY <2>1, <2>2 DEF Takes
    <3> QED BY <2>1, <3>1 DEF DataInv, OldData, Kept
  <2>3. CASE g = f
    <3>1. u = t /\ (frame[f].id # None => th'[t].old = frame[f].id)
      BY <1>1, <2>1, <2>3 DEF Takes
    <3>2. frame[f].dirty /\ frame'[f].dataOf = frame[f].dataOf
      BY <2>1, <2>3 DEF Takes
    <3>3. frame[f].dataOf = frame[f].id /\ frame[f].id # None
      BY <1>1, <3>2, NoneApart DEF DataInv, DirtyData
    <3> QED BY <2>3, <3>1, <3>2, <3>3
  <2> QED BY <2>2, <2>3
<1>5. \A b : b[1] \in Frame \ {f} /\ Carried(b) => Carried(b)'
  BY DEF Takes, Kept, Carried
<1>6. \A io \in Ios' : io.op = "write" => \A b \in io.bufs : Carried(b)'
  BY <1>1, <1>2, <1>5, BufTypes DEF DataInv, WritesCarry, Takes, WritesLike
<1>7. \A u \in Thread : Merges(u)' => \A b \in th'[u].out : Carried(b)'
  BY <1>1, <1>2, <1>5, BufTypes DEF DataInv, WritesCarry, Takes, MergeLike
<1>8. SmallWrites'
  BY DEF DataInv, SmallWrites, Takes, WritesLike, MergeLike
<1> QED BY <1>3, <1>4, <1>6, <1>7, <1>8 DEF DataInv, WritesCarry

\* Thread t begins to build, adds to or sends a write of b.
Begins(t, b) ==
    /\ (\A f \in Frame : Kept(f)) /\ disk' = disk /\ raced' = raced /\ EvictLike /\ DoneLike
    /\ b[1] \in Frame /\ Carried(b) /\ \A u \in Thread \ {t} : th'[u] = th[u]
    /\ \/ /\ LargeWrite /\ flight' = flight
          /\ \A c \in th'[t].out : c = b \/ (Merges(t) /\ c \in th[t].out)
       \/ /\ ~Merges(t)' /\ \E io : flight' = flight \cup {io} /\ io.bufs = {b} /\ ~io.multi

LEMMA BeginsData == ASSUME TypeOK, DataInv, NEW t \in Thread, NEW b, Begins(t, b) PROVE DataInv'
<1>1. DirtyData'
  BY DEF DataInv, DirtyData, Begins, Kept
<1>2. OldData'
  BY DEF DataInv, OldData, Begins, Kept, EvictLike
<1>3. \A c : c[1] \in Frame /\ Carried(c) => Carried(c)'
  BY DEF Begins, Kept, Carried
<1>4. \A io \in Ios' : io \in Ios \/ (io.bufs = {b} /\ ~io.multi)
  <2>1. SUFFICES ASSUME NEW io \in Ios', ~(io.bufs = {b} /\ ~io.multi) PROVE io \in Ios
    OBVIOUS
  <2>2. CASE io \in flight'
    BY <2>1, <2>2 DEF Begins, Ios
  <2>3. CASE io \notin flight'
    BY <2>1, <2>3 DEF Begins, DoneLike, Ios
  <2> QED BY <2>2, <2>3
<1>5. \A io \in Ios' : io.op = "write" => \A c \in io.bufs : Carried(c)'
  BY <1>3, <1>4, BufTypes DEF DataInv, WritesCarry, Begins
<1>6. \A u \in Thread : Merges(u)' => \A c \in th'[u].out : Carried(c)'
  <2>1. SUFFICES ASSUME NEW u \in Thread, Merges(u)', NEW c \in th'[u].out PROVE Carried(c)'
    OBVIOUS
  <2>2. CASE u # t
    BY <1>3, <2>1, <2>2, BufTypes DEF DataInv, WritesCarry, Begins, Merges
  <2>3. CASE u = t
    BY <1>3, <2>1, <2>3, BufTypes DEF DataInv, WritesCarry, Begins
  <2> QED BY <2>2, <2>3
<1>7. SmallWrites'
  BY <1>4 DEF DataInv, SmallWrites, Begins, Merges
<1> QED BY <1>1, <1>2, <1>5, <1>6, <1>7 DEF DataInv, WritesCarry

-------------------------------------------------------------------------------
(* Steps that leave the data alone                                         *)

\* Two records of a frame with the same page, flags and data.
SameData(pg, n) ==
    /\ n.id = pg.id /\ n.ready = pg.ready /\ n.dirty = pg.dirty /\ n.oldDirty = pg.oldDirty
    /\ n.dataOf = pg.dataOf /\ n.fresh = pg.fresh

LEMMA SameDataForm == ASSUME NEW pg \in FrameRec, NEW r, NEW x
                      PROVE /\ SameData(pg, AddReq(pg, r)) /\ SameData(pg, [pg EXCEPT !.ref = x]) /\ SameData(pg, Writing(pg))
                            /\ SameData(pg, AddReq([pg EXCEPT !.pending = TRUE], r)) /\ SameData(pg, AddReq(Writing(pg), r))
  BY DEF FrameRec, SameData, AddReq, Writing

\* A thread that evicts no page in this step and merges none.
Tame(t) ==
    /\ \/ th'[t].cur = None \/ th'[t].old = None \/ th'[t].pc \notin {"got", "old", "flush"}
       \/ (th'[t].cur = th[t].cur /\ th'[t].old = th[t].old /\ th[t].pc \in {"got", "old", "flush"})
    /\ th'[t].pc \notin {"mergeF", "mergeB"} \/ (Merges(t) /\ th'[t].out \subseteq th[t].out)

LEMMA TameCalm == ASSUME NEW t \in Thread, \A u \in Thread \ {t} : th'[u] = th[u], Tame(t),
                         \A u \in Thread : que'[u].disk = que[u].disk,
                         \A io \in flight' : io.op = "write" => io \in flight \/ (Merges(t) /\ io.bufs \subseteq th[t].out)
                  PROVE Calm
<1>1. \A f \in Frame : Evicting(t, f)' => Evicting(t, f) /\ th'[t].old = th[t].old
  BY NoneApart DEF Tame, Evicting
<1>2. Merges(t)' => Merges(t) /\ th'[t].out \subseteq th[t].out
  BY DEF Tame, Merges
<1> QED BY <1>1, <1>2, CalmLocal

\* Frames that are set to records with the same data.
LEMMA KeptSet == ASSUME TypeOK, NEW f \in Frame, NEW pg, SameData(frame[f], pg), frame' = [frame EXCEPT ![f] = pg]
                 PROVE \A g \in Frame : Kept(g)
<1>1. frame \in [Frame -> FrameRec]
  BY TypesForm
<1>2. frame'[f] = pg /\ \A g \in Frame \ {f} : frame'[g] = frame[g]
  BY <1>1
<1> QED BY <1>2 DEF SameData, Kept

LEMMA KeptAll == ASSUME frame' = frame PROVE \A g \in Frame : Kept(g)
  BY DEF Kept

\* The steps of the application and of a thread between two calls.
Idles(t) ==
    /\ UNCHANGED <<frame, disk, raced, flight>> /\ \A u \in Thread : que'[u].disk = que[u].disk
    /\ \E me : th' = [th EXCEPT ![t] = me] /\ me.pc \in Idle \cup {"search"}

LEMMA IdleQuiet == ASSUME TypeOK, NEW t \in Thread, Idles(t) PROVE Quiet
<1>1. th \in [Thread -> ThRec]
  BY TypesForm
<1>2. UNCHANGED <<frame, disk, raced, flight>> /\ \A u \in Thread : que'[u].disk = que[u].disk
  BY DEF Idles
<1>3. th'[t].pc \in Idle \cup {"search"} /\ \A u \in Thread \ {t} : th'[u] = th[u]
  BY <1>1 DEF Idles
<1>4. Tame(t)
  BY <1>3 DEF Tame, Idle
<1>5. Calm
  BY <1>2, <1>3, <1>4, TameCalm
<1> QED BY <1>2, <1>5, KeptAll DEF Quiet

LEMMA AccessIdles == ASSUME TypeOK, NEW t \in Thread, NEW r \in Req, Access(t, r) PROVE Idles(t)
<1>1. th[t] \in ThRec
  BY Records
<1>2. UNCHANGED <<frame, disk, raced, flight, que>>
  BY Zenon DEF Access
<1>3. \E me : th' = [th EXCEPT ![t] = me] /\ me.pc = "search"
  <2>1. PICK p \in Page : th' = [th EXCEPT ![t] = IF th[t].proc = None THEN [th[t] EXCEPT !.proc = r, !.nxt = p, !.pc = "search", !.poll = FALSE]
                                                  ELSE [th[t] EXCEPT !.arg = r, !.pc = "search", !.poll = FALSE]]
    BY Zenon DEF Access
  <2> DEFINE m == IF th[t].proc = None THEN [th[t] EXCEPT !.proc = r, !.nxt = p, !.pc = "search", !.poll = FALSE]
                                       ELSE [th[t] EXCEPT !.arg = r, !.pc = "search", !.poll = FALSE]
  <2>2. m.pc = "search"
    BY <1>1 DEF ThRec
  <2> QED BY <2>1, <2>2
<1> QED BY <1>2, <1>3 DEF Idles

LEMMA Wait4CompleteIdles == ASSUME TypeOK, NEW t \in Thread, Wait4Complete(t) PROVE Idles(t)
<1>1. th[t] \in ThRec
  BY Records
<1>2. UNCHANGED <<frame, disk, raced, flight, que>>
  BY Zenon DEF Wait4Complete
<1>3. \E n : th' = [th EXCEPT ![t] = [th[t] EXCEPT !.pc = "disk", !.goal = n]]
  BY TypesForm DEF Wait4Complete
<1>4. \A n : [th[t] EXCEPT !.pc = "disk", !.goal = n].pc \in Idle
  BY <1>1 DEF ThRec, Idle
<1> QED BY <1>2, <1>3, <1>4 DEF Idles

LEMMA WakeIdles == ASSUME TypeOK, NEW t \in Thread, Wake(t) PROVE Idles(t)
<1>1. th[t] \in ThRec
  BY Records
<1>2. UNCHANGED <<frame, disk, raced, flight, que>>
  BY Zenon DEF Wake
<1>3. th' = [th EXCEPT ![t] = [th[t] EXCEPT !.pc = "disk", !.act = FALSE]]
  BY TypesForm DEF Wake
<1>4. [th[t] EXCEPT !.pc = "disk", !.act = FALSE].pc \in Idle
  BY <1>1 DEF ThRec, Idle
<1> QED BY <1>2, <1>3, <1>4 DEF Idles

LEMMA NextPhaseIdles == ASSUME TypeOK, NEW t \in Thread, NextPhase(t) PROVE Idles(t)
<1>1. th[t] \in ThRec
  BY Records
<1>2. UNCHANGED <<frame, disk, raced, flight, que>>
  BY Zenon DEF NextPhase
<1>3. \E pc \in Idle \cup {"search"} : th' = [th EXCEPT ![t] = [th[t] EXCEPT !.poll = TRUE, !.pc = pc]]
  BY TypesForm DEF NextPhase, Idle
<1>4. \A pc : [th[t] EXCEPT !.poll = TRUE, !.pc = pc].pc = pc
  BY <1>1 DEF ThRec
<1> QED BY <1>2, <1>3, <1>4 DEF Idles

LEMMA ReturnIdles == ASSUME TypeOK, NEW t \in Thread, Return(t) PROVE Idles(t)
<1>1. th[t] \in ThRec /\ que[t] \in QueRec
  BY Records
<1>2. UNCHANGED <<frame, disk, raced, flight>>
  BY Zenon DEF Return
<1>3. \E me : th' = [th EXCEPT ![t] = me] /\ me.pc \in Idle \cup {"search"}
  <2>1. \/ \E pc \in Idle : th' = [th EXCEPT ![t].pc = pc]
        \/ \E r : th' = [th EXCEPT ![t] = Start(th[t], r)]
        \/ th' = [th EXCEPT ![t].pc = "user", ![t].arg = None]
    BY DEF Return, Idle
  <2>2. \/ \E pc \in Idle : th' = [th EXCEPT ![t] = [th[t] EXCEPT !.pc = pc]]
        \/ \E r : th' = [th EXCEPT ![t] = Start(th[t], r)]
        \/ th' = [th EXCEPT ![t] = [th[t] EXCEPT !.pc = "user", !.arg = None]]
    BY <2>1, TypesForm
  <2>3. /\ \A pc : [th[t] EXCEPT !.pc = pc].pc = pc
        /\ \A r : Start(th[t], r).pc = "search"
        /\ [th[t] EXCEPT !.pc = "user", !.arg = None].pc = "user"
    BY <1>1 DEF ThRec, Start
  <2>4. CASE \E pc \in Idle : th' = [th EXCEPT ![t] = [th[t] EXCEPT !.pc = pc]]
    <3>1. PICK pc \in Idle : th' = [th EXCEPT ![t] = [th[t] EXCEPT !.pc = pc]]
      BY <2>4, Zenon
    <3>2. PICK me : me = [th[t] EXCEPT !.pc = pc]
      OBVIOUS
    <3>3. me.pc \in Idle \cup {"search"}
      BY <2>3, <3>2, Zenon
    <3>4. th' = [th EXCEPT ![t] = me]
      BY <3>1, <3>2, Zenon
    <3> QED BY ONLY <3>3, <3>4, Zenon
  <2>5. CASE \E r : th' = [th EXCEPT ![t] = Start(th[t], r)]
    <3>1. PICK r : th' = [th EXCEPT ![t] = Start(th[t], r)]
      BY <2>5, Zenon
    <3>2. PICK me : me = Start(th[t], r)
      OBVIOUS
    <3>3. me.pc \in Idle \cup {"search"}
      BY <2>3, <3>2, Zenon
    <3>4. th' = [th EXCEPT ![t] = me]
      BY <3>1, <3>2, Zenon
    <3> QED BY ONLY <3>3, <3>4, Zenon
  <2>6. CASE th' = [th EXCEPT ![t] = [th[t] EXCEPT !.pc = "user", !.arg = None]]
    <3>1. PICK me : me = [th[t] EXCEPT !.pc = "user", !.arg = None]
      OBVIOUS
    <3>2. me.pc = "user" /\ "user" \in Idle
      BY <2>3, <3>1 DEF Idle
    <3>3. th' = [th EXCEPT ![t] = me]
      BY <2>6, <3>1, Zenon
    <3> QED BY ONLY <3>2, <3>3, Zenon
  <2> QED BY ONLY <2>2, <2>4, <2>5, <2>6, Zenon
<1>4. \A u \in Thread : que'[u].disk = que[u].disk
  <2>1. \/ que' = que \/ (\E s : que' = [que EXCEPT ![t].user = s])
    BY DEF Return
  <2>2. que \in [Thread -> QueRec]
    BY TypesForm
  <2>3. \A s : [que[t] EXCEPT !.user = s].disk = que[t].disk
    BY <1>1 DEF QueRec
  <2>4. ASSUME NEW s, que' = [que EXCEPT ![t].user = s] PROVE \A u \in Thread : que'[u].disk = que[u].disk
    <3>1. que' = [que EXCEPT ![t] = [que[t] EXCEPT !.user = s]]
      BY <2>2, <2>4
    <3> QED BY <2>2, <2>3, <3>1
  <2> QED BY <2>1, <2>4
<1> QED BY <1>2, <1>3, <1>4 DEF Idles

\* The search finds the page.
LEMMA SearchHitQuiet == ASSUME TypeOK, NEW t \in Thread, SearchHit(t) PROVE Quiet
<1>1. th[t] \in ThRec /\ th \in [Thread -> ThRec] /\ frame \in [Frame -> FrameRec]
  BY Records, TypesForm
<1>2. UNCHANGED <<disk, raced, flight, que>>
  BY Zenon DEF SearchHit
<1>3. PICK f \in FramesOf(th[t].nxt) : frame' = [frame EXCEPT ![f].ref = @ + 1] /\ Found(t, f, None)
  BY Zenon DEF SearchHit, Found
<1>4. f \in Frame
  BY DEF FramesOf
<1>5. frame' = [frame EXCEPT ![f] = [frame[f] EXCEPT !.ref = @ + 1]] /\ frame[f] \in FrameRec
  BY <1>1, <1>3, <1>4
<1>6. \A g \in Frame : Kept(g)
  BY <1>4, <1>5, SameDataForm, KeptSet
<1>7. th'[t].old = None /\ th'[t].pc = "got" /\ \A u \in Thread \ {t} : th'[u] = th[u]
  BY <1>1, <1>3 DEF Found, ThRec
<1>8. Calm
  BY <1>2, <1>7, TameCalm DEF Tame
<1> QED BY <1>2, <1>6, <1>8 DEF Quiet

\* In a cell that does not vote nobody loses data.
LEMMA NoLosers == ASSUME TypeOK, ~Voter, NEW L \in Losers PROVE Unready(frame, L) = frame
<1>1. L = {}
  BY DEF Losers
<1>2. frame = [g \in Frame |-> frame[g]]
  BY TypesForm
<1>3. Unready(frame, L) = [g \in Frame |-> frame[g]]
  BY <1>1 DEF Unready
<1> QED BY <1>2, <1>3

\* The search finds no page to evict.
LEMMA SearchNullQuiet == ASSUME IInv, ~Voter, NEW t \in Thread, SearchNull(t) PROVE Quiet
<1>1. TypeOK /\ th[t] \in ThRec /\ th \in [Thread -> ThRec]
  BY Parts, Records, TypesForm
<1>2. UNCHANGED <<disk, raced, flight, que>> /\ th[t].pc = "search"
  BY Zenon DEF SearchNull
<1>3. PICK L \in Losers : frame' = Unready(frame, L)
  BY Zenon DEF SearchNull
<1>4. frame' = frame
  BY <1>1, <1>3, NoLosers
<1>5. th[t].cur = None
  BY <1>2, Searching
<1>6. th'[t].cur = None /\ th'[t].pc \in {"ret", "flush"} /\ \A u \in Thread \ {t} : th'[u] = th[u]
  BY <1>1, <1>5 DEF SearchNull, ThRec
<1>7. Calm
  BY <1>2, <1>6, TameCalm DEF Tame
<1> QED BY <1>2, <1>4, <1>7, KeptAll DEF Quiet

\* The flags of the page are read.
LEMMA ClassifyQuiet == ASSUME TypeOK, NEW t \in Thread, Classify(t) PROVE Quiet
<1>1. th[t] \in ThRec /\ th \in [Thread -> ThRec] /\ que[t] \in QueRec /\ que \in [Thread -> QueRec]
  BY Records, TypesForm
<1>2. UNCHANGED <<frame, disk, raced, flight>> /\ th[t].pc = "got"
  BY Zenon DEF Classify
<1>3. \A u \in Thread : que'[u].disk = que[u].disk
  <2>1. que' = que \/ \E s : que' = [que EXCEPT ![t] = [que[t] EXCEPT !.cached = s]]
    BY <1>1 DEF Classify
  <2>2. \A s : [que[t] EXCEPT !.cached = s].disk = que[t].disk
    BY <1>1 DEF QueRec
  <2>3. CASE que' = que
    BY <2>3
  <2>4. ASSUME NEW s, que' = [que EXCEPT ![t] = [que[t] EXCEPT !.cached = s]] PROVE \A u \in Thread : que'[u].disk = que[u].disk
    <3>1. PICK q : q = [que[t] EXCEPT !.cached = s] /\ q.disk = que[t].disk
      BY <2>2
    <3>2. que'[t] = q /\ \A u \in Thread \ {t} : que'[u] = que[u]
      BY <1>1, <2>4, <3>1
    <3> QED BY ONLY <3>1, <3>2, Zenon
  <2> QED BY ONLY <2>1, <2>3, <2>4, Zenon
<1>4. /\ \A u \in Thread \ {t} : th'[u] = th[u]
      /\ th'[t].pc \in {"ret", "use", "old", "flush"}
      /\ th'[t].pc = "ret" \/ (th'[t].cur = th[t].cur /\ th'[t].old = th[t].old)
  <2>1. \/ th' = [th EXCEPT ![t] = [th[t] EXCEPT !.proc = None, !.cur = None, !.pc = "ret"]]
        \/ th' = [th EXCEPT ![t] = [th[t] EXCEPT !.pc = "use"]]
        \/ th' = [th EXCEPT ![t] = [th[t] EXCEPT !.pc = "old"]]
        \/ th' = [th EXCEPT ![t] = [th[t] EXCEPT !.pc = "flush", !.cont = "old"]]
    BY DEF Classify
  <2>2. \/ th'[t] = [th[t] EXCEPT !.proc = None, !.cur = None, !.pc = "ret"]
        \/ th'[t] = [th[t] EXCEPT !.pc = "use"]
        \/ th'[t] = [th[t] EXCEPT !.pc = "old"]
        \/ th'[t] = [th[t] EXCEPT !.pc = "flush", !.cont = "old"]
    BY <1>1, <2>1
  <2>3. \A u \in Thread \ {t} : th'[u] = th[u]
    BY <1>1, <2>1
  <2>4. th[t] \in ThRec
    BY <1>1
  <2> QED BY <2>2, <2>3, <2>4 DEF ThRec
<1>5. Calm
  BY <1>2, <1>3, <1>4, TameCalm DEF Tame
<1> QED BY <1>2, <1>5, KeptAll DEF Quiet

\* The thread goes on in its loop.
LEMMA LoopedOn == ASSUME TypeOK, NEW t \in Thread, NEW me \in ThRec, me.proc \in Req, Looped(t, me)
                  PROVE /\ \A u \in Thread \ {t} : th'[u] = th[u]
                        /\ th'[t].cur = None /\ th'[t].pc \in {"search", "flush", "ret"} /\ Tame(t) /\ ~Merges(t)'
<1>1. th \in [Thread -> ThRec]
  BY TypesForm
<1>2. th'[t] = Loop(me) /\ \A u \in Thread \ {t} : th'[u] = th[u]
  BY <1>1 DEF Looped
<1>3. Loop(me).cur = None /\ Loop(me).pc \in {"search", "flush", "ret"}
  BY LoopForm
<1> QED BY <1>2, <1>3 DEF Tame, Merges

LEMMA WaitOldDirtyQuiet == ASSUME IInv, NEW t \in Thread, WaitOldDirty(t) PROVE Quiet
<1>1. TypeOK /\ th[t] \in ThRec /\ th \in [Thread -> ThRec] /\ frame \in [Frame -> FrameRec]
  BY Parts, Records, TypesForm
<1>2. UNCHANGED <<disk, raced, flight, que>> /\ th[t].pc = "old"
  BY Zenon DEF WaitOldDirty
<1>3. PICK f \in Frame, r \in Req : f = th[t].cur /\ r = th[t].proc
  BY <1>2, HasPage
<1>4. \/ frame' = [frame EXCEPT ![f] = AddReq(@, r)] /\ Looped(t, th[t])
      \/ frame' = frame /\ th' = [th EXCEPT ![t].pc = "use"]
  BY <1>3 DEF WaitOldDirty, Looped
<1>5. CASE frame' = [frame EXCEPT ![f] = AddReq(@, r)] /\ Looped(t, th[t])
  <2>1. \A g \in Frame : Kept(g)
    BY <1>1, <1>5, SameDataForm, KeptSet
  <2>2. (\A u \in Thread \ {t} : th'[u] = th[u]) /\ Tame(t)
    BY <1>1, <1>3, <1>5, LoopedOn
  <2>3. Calm
    BY <1>2, <2>2, TameCalm
  <2> QED BY <1>2, <2>1, <2>3 DEF Quiet
<1>6. CASE frame' = frame /\ th' = [th EXCEPT ![t].pc = "use"]
  <2>1. (\A u \in Thread \ {t} : th'[u] = th[u]) /\ th'[t].pc = "use"
    BY <1>1, <1>6 DEF ThRec
  <2>2. Calm
    BY <1>2, <2>1, TameCalm DEF Tame
  <2> QED BY <1>2, <1>6, <2>2, KeptAll DEF Quiet
<1> QED BY <1>4, <1>5, <1>6

\* A page to read is collected.
LEMMA UseReadQuiet == ASSUME IInv, NEW t \in Thread, UseRead(t) PROVE Quiet
<1>1. TypeOK /\ th[t] \in ThRec /\ th \in [Thread -> ThRec] /\ th[t].batch \in Seq(Frame)
  BY Parts, Records, TypesForm
<1> DEFINE b == Append(th[t].batch, th[t].cur)
           me == [th[t] EXCEPT !.batch = b]
<1>2. /\ me.pc = "use" /\ UNCHANGED <<frame, disk, raced, flight, que, rq>>
      /\ Flushing(t, me) \/ Looped(t, me)
  BY Zenon DEF UseRead, Looped, Flushing
<1>3. th[t].pc = "use"
  BY <1>1, <1>2 DEF ThRec
<1>4. PICK f \in Frame, r \in Req : f = th[t].cur /\ r = th[t].proc
  BY <1>3, HasPage
<1>5. b \in Seq(Frame)
  BY <1>1, <1>4, SeqAppend
<1> HIDE DEF b
<1>6. me \in ThRec /\ me.proc = r
  BY <1>1, <1>4, <1>5, BatchForm
<1> HIDE DEF me
<1>7. (\A u \in Thread \ {t} : th'[u] = th[u]) /\ Tame(t)
  <2>1. CASE Flushing(t, me)
    <3>1. (\A u \in Thread \ {t} : th'[u] = th[u]) /\ th'[t] = [me EXCEPT !.pc = "flush", !.cont = "loop", !.cur = None]
      BY <1>1, <2>1 DEF Flushing
    <3>2. th'[t].cur = None /\ th'[t].pc = "flush"
      <4>1. PICK n : n = [me EXCEPT !.pc = "flush", !.cont = "loop", !.cur = None]
        OBVIOUS
      <4>2. n.cur = None /\ n.pc = "flush"
        BY ONLY <1>6, <4>1, FlushForm, Zenon
      <4> QED BY ONLY <3>1, <4>1, <4>2, Zenon
    <3> QED BY <3>1, <3>2 DEF Tame
  <2>2. CASE Looped(t, me)
    BY <1>1, <1>6, <2>2, LoopedOn
  <2> QED BY <1>2, <2>1, <2>2
<1>8. Calm
  BY <1>2, <1>7, TameCalm
<1> QED BY <1>2, <1>8, KeptAll DEF Quiet

\* The search evicts a page.
LEMMA SearchMissTakes == ASSUME IInv, ~Voter, NEW t \in Thread, SearchMiss(t)
                         PROVE \E f \in Frame, p \in Page : Takes(t, f, p)
<1>1. TypeOK /\ th[t] \in ThRec /\ th \in [Thread -> ThRec] /\ frame \in [Frame -> FrameRec]
  BY Parts, Records, TypesForm
<1>2. /\ UNCHANGED <<disk, flight, que>> /\ th[t].pc = "search" /\ FramesOf(th[t].nxt) = {}
      /\ raced' = IF \E f \in Frame : frame[f].oldDirty /\ frame[f].dataOf = th[t].nxt THEN raced \cup {th[t].nxt} ELSE raced
  BY Zenon DEF SearchMiss
<1>3. PICK f \in Frame, L \in Losers :
         /\ frame[f].ref = 0 /\ frame' = [Unready(frame, L) EXCEPT ![f] = Evicted(f, th[t].nxt)]
         /\ Found(t, f, IF frame[f].id = None THEN NumPages ELSE frame[f].id)
  BY Zenon DEF SearchMiss, Evictable, Found
<1>4. PICK p \in Page : p = th[t].nxt
  BY <1>2, Searching
<1>5. frame' = [frame EXCEPT ![f] = Evicted(f, p)]
  BY <1>1, <1>3, <1>4, NoLosers
<1>6. frame'[f] = Evicted(f, p) /\ frame[f] \in FrameRec /\ \A g \in Frame \ {f} : frame'[g] = frame[g]
  BY <1>1, <1>5
<1>7. \A g \in Frame \ {f} : Kept(g)
  BY <1>6 DEF Kept
<1>8. ~frame[f].oldDirty
  BY <1>3, Unreferenced
<1>9. /\ frame'[f].id = p /\ frame'[f].ready = FALSE /\ frame'[f].dirty = FALSE /\ frame'[f].oldDirty = frame[f].dirty
      /\ frame'[f].dataOf = frame[f].dataOf /\ frame'[f].fresh = frame[f].fresh
  BY <1>6, <1>8 DEF Evicted, FrameRec
<1>10. /\ th'[t].cur = f /\ th'[t].pc = "got" /\ (frame[f].id # None => th'[t].old = frame[f].id)
       /\ \A u \in Thread \ {t} : th'[u] = th[u]
  BY <1>1, <1>3 DEF Found, ThRec
<1>11. \A g \in Frame : frame[g].id # p
  BY <1>2, <1>4 DEF FramesOf
<1>12. MergeLike
  BY <1>10 DEF MergeLike, Merges
<1>13. WritesLike
  <2>1. Ios' = Ios
    BY <1>2 DEF Ios
  <2> QED BY <2>1 DEF WritesLike
<1>14. DoneLike
  BY <1>2 DEF DoneLike
<1>15. \A u \in Thread, g \in Frame : Evicting(u, g)' =>
          \/ u # t /\ Evicting(u, g) /\ th'[u].old = th[u].old
          \/ u = t /\ g = f /\ (frame[f].id # None => th'[t].old = frame[f].id)
  BY <1>10 DEF Evicting
<1>16. raced' = IF \E g \in Frame : frame[g].oldDirty /\ frame[g].dataOf = p THEN raced \cup {p} ELSE raced
  BY <1>2, <1>4
<1> QED BY <1>2, <1>3, <1>7, <1>9, <1>11, <1>12, <1>13, <1>14, <1>15, <1>16 DEF Takes

-------------------------------------------------------------------------------
(* Steps in which a request meets its page                                 *)

\* Nothing is written.
Still == (\A g \in Frame : Kept(g)) /\ disk' = disk /\ raced' = raced

\* The data after a write to page p in frame f.
WrittenLike(fr, w, f, p, whole) ==
    /\ w[f].id = fr[f].id /\ w[f].ready = fr[f].ready /\ w[f].dirty = TRUE /\ w[f].oldDirty = fr[f].oldDirty
    /\ w[f].dataOf = p /\ w[f].fresh = (whole \/ (fr[f].fresh /\ fr[f].dataOf = p))
    /\ \A g \in Frame \ {f} :
          /\ w[g].id = fr[g].id /\ w[g].ready = fr[g].ready /\ w[g].dirty = fr[g].dirty
          /\ w[g].oldDirty = fr[g].oldDirty /\ w[g].dataOf = fr[g].dataOf
          /\ w[g].fresh = (fr[g].fresh /\ fr[g].dataOf # p)

LEMMA WrittenData == ASSUME NEW fr \in [Frame -> FrameRec], NEW f \in Frame, NEW p \in Page, NEW whole
                     PROVE WrittenLike(fr, Written(fr, f, p, whole), f, p, whole)
<1> DEFINE w == Written(fr, f, p, whole)
<1>1. w[f] = [fr[f] EXCEPT !.dirty = TRUE, !.dataOf = p, !.fresh = whole \/ (@ /\ fr[f].dataOf = p)]
  BY Zenon DEF Written
<1>2. fr[f] \in FrameRec
  OBVIOUS
<1>3. /\ w[f].id = fr[f].id /\ w[f].ready = fr[f].ready /\ w[f].dirty = TRUE /\ w[f].oldDirty = fr[f].oldDirty
      /\ w[f].dataOf = p /\ w[f].fresh = (whole \/ (fr[f].fresh /\ fr[f].dataOf = p))
  BY <1>1, <1>2 DEF FrameRec
<1>4. ASSUME NEW g \in Frame \ {f}
      PROVE /\ w[g].id = fr[g].id /\ w[g].ready = fr[g].ready /\ w[g].dirty = fr[g].dirty
            /\ w[g].oldDirty = fr[g].oldDirty /\ w[g].dataOf = fr[g].dataOf
            /\ w[g].fresh = (fr[g].fresh /\ fr[g].dataOf # p)
  <2>1. w[g] = IF fr[g].dataOf = p THEN [fr[g] EXCEPT !.fresh = FALSE] ELSE fr[g]
    BY DEF Written
  <2>2. fr[g] \in FrameRec
    OBVIOUS
  <2>3. fr[g].fresh \in BOOLEAN
    BY <2>2 DEF FrameRec
  <2>4. CASE fr[g].dataOf = p
    <3>1. w[g] = [fr[g] EXCEPT !.fresh = FALSE]
      BY <2>1, <2>4
    <3> HIDE DEF w
    <3> QED BY <2>2, <2>4, <3>1 DEF FrameRec
  <2>5. CASE fr[g].dataOf # p
    <3>1. w[g] = fr[g]
      BY <2>1, <2>5
    <3> HIDE DEF w
    <3> QED BY <2>3, <2>5, <3>1
  <2> QED BY <2>4, <2>5
<1> HIDE DEF w
<1>5. \A g \in Frame \ {f} :
            /\ w[g].id = fr[g].id /\ w[g].ready = fr[g].ready /\ w[g].dirty = fr[g].dirty
            /\ w[g].oldDirty = fr[g].oldDirty /\ w[g].dataOf = fr[g].dataOf
            /\ w[g].fresh = (fr[g].fresh /\ fr[g].dataOf # p)
  BY <1>4
<1>6. WrittenLike(fr, w, f, p, whole)
  BY <1>3, <1>5 DEF WrittenLike
<1> QED BY <1>6 DEF w

\* The page is written to: by WriteReady, or by the fast path when it is ready.
LEMMA WrittenTo == ASSUME TypeOK, NEW f \in Frame, frame[f].id \in Page, ~frame[f].oldDirty, NEW w,
                          frame[f].ready \/ (~frame[f].pending /\ w), NEW pg \in FrameRec,
                          pg.id = frame[f].id, pg.ready = TRUE, pg.oldDirty = frame[f].oldDirty, pg.dataOf = frame[f].dataOf,
                          pg.fresh = frame[f].fresh,
                          frame' = Written([frame EXCEPT ![f] = pg], f, frame[f].id, w),
                          disk' = [disk EXCEPT ![frame[f].id] = FALSE], raced' = raced
                   PROVE WroteTo(f, w)
<1>1. frame \in [Frame -> FrameRec]
  BY TypesForm
<1>2. PICK fr : fr = [frame EXCEPT ![f] = pg]
  OBVIOUS
<1>3. fr \in [Frame -> FrameRec] /\ fr[f] = pg /\ \A g \in Frame \ {f} : fr[g] = frame[g]
  BY <1>1, <1>2
<1>4. PICK p \in Page : p = frame[f].id
  OBVIOUS
<1>5. frame' = Written(fr, f, p, w)
  BY <1>2, <1>4
<1>6. WrittenLike(fr, frame', f, p, w)
  BY <1>3, <1>5, WrittenData
<1>7. /\ frame'[f].id = frame[f].id /\ frame'[f].oldDirty = frame[f].oldDirty /\ frame'[f].ready = TRUE /\ frame'[f].dirty = TRUE
      /\ frame'[f].dataOf = frame[f].id /\ frame'[f].fresh = (w \/ (frame[f].fresh /\ frame[f].dataOf = frame[f].id))
  BY <1>3, <1>4, <1>6 DEF WrittenLike
<1>8. \A g \in Frame \ {f} :
          /\ frame'[g].id = frame[g].id /\ frame'[g].ready = frame[g].ready /\ frame'[g].dirty = frame[g].dirty
          /\ frame'[g].oldDirty = frame[g].oldDirty /\ frame'[g].dataOf = frame[g].dataOf
          /\ frame'[g].fresh = (frame[g].fresh /\ frame[g].dataOf # frame[f].id)
  <2>1. SUFFICES ASSUME NEW g \in Frame \ {f}
                 PROVE /\ frame'[g].id = frame[g].id /\ frame'[g].ready = frame[g].ready /\ frame'[g].dirty = frame[g].dirty
                       /\ frame'[g].oldDirty = frame[g].oldDirty /\ frame'[g].dataOf = frame[g].dataOf
                       /\ frame'[g].fresh = (frame[g].fresh /\ frame[g].dataOf # frame[f].id)
    OBVIOUS
  <2>2. /\ frame'[g].id = fr[g].id /\ frame'[g].ready = fr[g].ready /\ frame'[g].dirty = fr[g].dirty
        /\ frame'[g].oldDirty = fr[g].oldDirty /\ frame'[g].dataOf = fr[g].dataOf
        /\ frame'[g].fresh = (fr[g].fresh /\ fr[g].dataOf # p)
    BY <1>6, Zenon DEF WrittenLike
  <2>3. fr[g] = frame[g]
    BY <1>3
  <2> QED BY <1>4, <2>2, <2>3, Zenon
<1> QED BY <1>7, <1>8 DEF WroteTo

\* The queues of answers when a thread works with the queues q.
LEMMA SameAnswers == ASSUME TypeOK, NEW t \in Thread, NEW q, q.disk = que[t].disk, que' = [que EXCEPT ![t] = q]
                     PROVE \A u \in Thread : que'[u].disk = que[u].disk
  BY TypesForm
LEMMA CompAnswers == ASSUME NEW q \in QueRec, NEW r, NEW p PROVE CompletedQueue(q, r, p).disk = q.disk
  BY DEF CompletedQueue, QueRec

\* A read of the page begins, or the request joins its list, or is served from it.
LEMMA StillMet == ASSUME TypeOK, NEW t \in Thread, NEW f \in Frame, NEW r, NEW q \in QueRec, q.disk = que[t].disk,
                         StartRead(t, f, r, q) \/ Enqueue(t, f, r, q) \/ ReadReady(t, f, r, q)
                  PROVE Still /\ \A u \in Thread : que'[u].disk = que[u].disk
<1>1. frame \in [Frame -> FrameRec] /\ frame[f] \in FrameRec
  BY TypesForm
<1>2. CASE StartRead(t, f, r, q)
  <2>1. /\ frame' = [frame EXCEPT ![f] = AddReq([frame[f] EXCEPT !.pending = TRUE], r)]
        /\ que' = [que EXCEPT ![t] = q] /\ disk' = disk /\ raced' = raced
    BY <1>1, <1>2 DEF StartRead
  <2>2. \A g \in Frame : Kept(g)
    BY <1>1, <2>1, SameDataForm, KeptSet
  <2> QED BY <2>1, <2>2, SameAnswers DEF Still
<1>3. CASE Enqueue(t, f, r, q)
  <2>1. /\ frame' = [frame EXCEPT ![f] = AddReq(frame[f], r)]
        /\ que' = [que EXCEPT ![t] = q] /\ disk' = disk /\ raced' = raced
    BY <1>1, <1>3 DEF Enqueue
  <2>2. \A g \in Frame : Kept(g)
    BY <1>1, <2>1, SameDataForm, KeptSet
  <2> QED BY <2>1, <2>2, SameAnswers DEF Still
<1>4. CASE ReadReady(t, f, r, q)
  <2>1. /\ \E x : frame' = [frame EXCEPT ![f].ref = x]
        /\ que' = [que EXCEPT ![t] = CompletedQueue(q, r, frame[f].id)] /\ disk' = disk /\ raced' = raced
    BY <1>4 DEF ReadReady
  <2>2. PICK x : frame' = [frame EXCEPT ![f] = [frame[f] EXCEPT !.ref = x]]
    BY <1>1, <2>1
  <2>3. \A g \in Frame : Kept(g)
    BY <1>1, <2>2, SameDataForm, KeptSet
  <2>4. CompletedQueue(q, r, frame[f].id).disk = que[t].disk
    BY CompAnswers
  <2> QED BY <2>1, <2>3, <2>4, SameAnswers DEF Still
<1> QED BY <1>2, <1>3, <1>4

\* The write is copied into the page.
LEMMA WriteMet == ASSUME TypeOK, NEW t \in Thread, NEW f \in Frame, frame[f].id \in Page, ~frame[f].oldDirty, frame[f].ref # 0,
                         NEW r, frame[f].ready \/ (~frame[f].pending /\ frame[f].id \in rq[r].whole),
                         NEW q \in QueRec, q.disk = que[t].disk, WriteReady(t, f, r, q)
                  PROVE /\ flight' = flight /\ (\E w : WroteTo(f, w)) /\ \A u \in Thread : que'[u].disk = que[u].disk
<1>1. frame \in [Frame -> FrameRec] /\ frame[f] \in FrameRec /\ frame[f].ref \in Nat
  BY TypesForm, Records
<1>2. PICK w : w = (frame[f].id \in rq[r].whole)
  OBVIOUS
<1>3. PICK x \in Nat : x = frame[f].ref - 1
  BY <1>1
<1>4. PICK pg : pg = [frame[f] EXCEPT !.ready = TRUE, !.ref = x]
  OBVIOUS
<1>5. /\ pg \in FrameRec /\ pg.id = frame[f].id /\ pg.ready = TRUE /\ pg.oldDirty = frame[f].oldDirty /\ pg.dataOf = frame[f].dataOf
      /\ pg.fresh = frame[f].fresh
  BY <1>1, <1>4 DEF FrameRec
<1>6. /\ frame' = Written([frame EXCEPT ![f].ready = TRUE, ![f].ref = @ - 1], f, frame[f].id, frame[f].id \in rq[r].whole)
      /\ disk' = [disk EXCEPT ![frame[f].id] = FALSE] /\ raced' = raced /\ flight' = flight
      /\ que' = [que EXCEPT ![t] = CompletedQueue(q, r, frame[f].id)]
  BY Zenon DEF WriteReady
<1>7. [frame EXCEPT ![f].ready = TRUE, ![f].ref = @ - 1] = [frame EXCEPT ![f] = pg]
  BY <1>1, <1>3, <1>4
<1>8. frame' = Written([frame EXCEPT ![f] = pg], f, frame[f].id, w)
  BY <1>2, <1>6, <1>7
<1>9. WroteTo(f, w)
  BY <1>2, <1>5, <1>6, <1>8, WrittenTo
<1>10. CompletedQueue(q, r, frame[f].id).disk = que[t].disk
  BY CompAnswers
<1> QED BY <1>6, <1>9, <1>10, SameAnswers

\* A step of this kind leaves the data alone or writes to one page.
Kinds == Quiet \/ (Calm /\ \E f \in Frame : \E w : WroteTo(f, w))

\* __write and __read.
LEMMA WriteKinds == ASSUME TypeOK, NEW t \in Thread, NEW f \in Frame, frame[f].id \in Page, ~frame[f].oldDirty, frame[f].ref # 0,
                           NEW r, NEW q \in QueRec, q.disk = que[t].disk, Write(t, f, r, q),
                           \A u \in Thread \ {t} : th'[u] = th[u], Tame(t)
                    PROVE Kinds
<1>1. \/ StartRead(t, f, r, q) /\ Send(Request(t, "read", {<<f, rq[r].first>>}))
      \/ Enqueue(t, f, r, q) /\ flight' = flight
      \/ (frame[f].ready \/ (~frame[f].pending /\ frame[f].id \in rq[r].whole)) /\ WriteReady(t, f, r, q)
  BY Zenon DEF Write
<1>2. \A b : Request(t, "read", b).op = "read"
  BY DEF Request
<1>3. CASE StartRead(t, f, r, q) /\ Send(Request(t, "read", {<<f, rq[r].first>>}))
  <2>1. Still /\ \A u \in Thread : que'[u].disk = que[u].disk
    BY <1>3, StillMet
  <2>2. \A io \in flight' : io.op = "write" => io \in flight
    BY <1>2, <1>3 DEF Send
  <2>3. Calm
    BY <2>1, <2>2, TameCalm
  <2> QED BY <2>1, <2>3 DEF Still, Quiet, Kinds
<1>4. CASE Enqueue(t, f, r, q) /\ flight' = flight
  <2>1. Still /\ \A u \in Thread : que'[u].disk = que[u].disk
    BY <1>4, StillMet
  <2>2. Calm
    BY <1>4, <2>1, TameCalm
  <2> QED BY <2>1, <2>2 DEF Still, Quiet, Kinds
<1>5. CASE (frame[f].ready \/ (~frame[f].pending /\ frame[f].id \in rq[r].whole)) /\ WriteReady(t, f, r, q)
  <2>1. flight' = flight /\ (\E w : WroteTo(f, w)) /\ \A u \in Thread : que'[u].disk = que[u].disk
    BY <1>5, WriteMet
  <2>2. Calm
    BY <2>1, TameCalm
  <2> QED BY <2>1, <2>2 DEF Kinds
<1> QED BY <1>1, <1>3, <1>4, <1>5

LEMMA ReadKinds == ASSUME TypeOK, NEW t \in Thread, NEW f \in Frame, NEW r, NEW q \in QueRec, q.disk = que[t].disk, Read(t, f, r, q),
                          \A u \in Thread \ {t} : th'[u] = th[u], Tame(t)
                   PROVE Quiet
<1>1. /\ StartRead(t, f, r, q) \/ Enqueue(t, f, r, q) \/ ReadReady(t, f, r, q)
      /\ flight' = flight \/ \E b : flight' = flight \cup {Request(t, "read", b)}
  BY DEF Read, Send, ReadIO
<1>2. \A b : Request(t, "read", b).op = "read"
  BY DEF Request
<1>3. Still /\ \A u \in Thread : que'[u].disk = que[u].disk
  BY <1>1, StillMet
<1>4. \A io \in flight' : io.op = "write" => io \in flight
  BY <1>1, <1>2
<1>5. Calm
  BY <1>3, <1>4, TameCalm
<1> QED BY <1>3, <1>5 DEF Still, Quiet

LEMMA UseWriteKinds == ASSUME IInv, NEW t \in Thread, UseWrite(t) PROVE Kinds
<1>1. TypeOK /\ EvictorAt(t) /\ th[t] \in ThRec
  BY Parts, Records
<1>2. th[t].pc = "use" /\ Write(t, th[t].cur, th[t].proc, que[t]) /\ Looped(t, th[t])
  BY Zenon DEF UseWrite, Looped
<1>3. PICK f \in Frame, r \in Req : f = th[t].cur /\ r = th[t].proc /\ In(f, r, "cur") /\ frame[f].id \in Page
  BY <1>2, HasPage
<1>4. ~frame[f].oldDirty
  BY <1>1, <1>2, <1>3 DEF EvictorAt
<1>5. frame[f].ref # 0
  BY <1>3, WithFrame DEF Kind
<1>6. (\A u \in Thread \ {t} : th'[u] = th[u]) /\ Tame(t)
  BY <1>1, <1>2, <1>3, LoopedOn
<1>7. PICK q \in QueRec : q = que[t]
  BY <1>1, Records
<1>8. Write(t, f, r, q) /\ q.disk = que[t].disk
  BY <1>2, <1>3, <1>7
<1> QED BY <1>1, <1>3, <1>4, <1>5, <1>6, <1>8, WriteKinds

LEMMA HandlePendingKinds == ASSUME IInv, NEW t \in Thread, HandlePending(t) PROVE Kinds
<1>1. TypeOK /\ th[t] \in ThRec /\ que[t] \in QueRec /\ que[t].pend \in Seq(Frame \X Req)
  BY Parts, Records
<1>2. /\ th[t].pc = "pend" /\ que[t].pend # <<>> /\ th' = th
      /\ \/ Write(t, Head(que[t].pend)[1], Head(que[t].pend)[2], [que[t] EXCEPT !.pend = Tail(@)])
         \/ Read(t, Head(que[t].pend)[1], Head(que[t].pend)[2], [que[t] EXCEPT !.pend = Tail(@)])
  BY Zenon DEF HandlePending
<1>3. Head(que[t].pend) \in Frame \X Req /\ Head(que[t].pend) \in ToSet(que[t].pend) /\ Tail(que[t].pend) \in Seq(Frame \X Req)
  BY <1>1, <1>2, SeqTail
<1>4. PICK f \in Frame, r \in Req : Head(que[t].pend) = <<f, r>>
  BY <1>3
<1>5. PICK q : q = [que[t] EXCEPT !.pend = Tail(@)]
  OBVIOUS
<1>6. q \in QueRec /\ q.disk = que[t].disk
  BY <1>1, <1>3, <1>5, PendForm
<1>7. Write(t, f, r, q) \/ Read(t, f, r, q)
  BY <1>2, <1>4, <1>5
<1>8. In(f, r, "pend") /\ "pend" \in Kind
  BY <1>3, <1>4 DEF In, At, Kind
<1>9. frame[f].id \in Page /\ frame[f].ref # 0
  BY <1>8, WithFrame
<1>10. ~frame[f].oldDirty
  BY <1>8, Parts DEF FlagsAt
<1>11. (\A u \in Thread \ {t} : th'[u] = th[u]) /\ Tame(t)
  BY <1>2 DEF Tame
<1>12. CASE Write(t, f, r, q)
  BY <1>1, <1>6, <1>9, <1>10, <1>11, <1>12, WriteKinds
<1>13. CASE Read(t, f, r, q)
  BY <1>1, <1>6, <1>11, <1>13, ReadKinds DEF Kinds
<1> QED BY <1>7, <1>12, <1>13

\* read(), one page: the page joins the request, or the request is sent.
FlushReads(t) ==
    /\ \A u \in Thread \ {t} : th'[u] = th[u]
    /\ \E f \in Frame : \E c : /\ \A b \in c : b \in th[t].out \/ b = <<f, frame[f].id>>
                               /\ th'[t].out \in {{}, c} /\ (flight' = flight \/ flight' = flight \cup {Request(t, "read", c)})

LEMMA FlushBatchQuiet == ASSUME IInv, NEW t \in Thread, FlushBatch(t) PROVE Quiet /\ FlushReads(t)
<1>1. TypeOK /\ ControlAt(t) /\ th[t] \in ThRec /\ th \in [Thread -> ThRec] /\ que[t] \in QueRec
  BY Parts, Records, TypesForm
<1>2. th[t].pc = "flush"
  BY Zenon DEF FlushBatch
<1>3. th[t].batch \in Seq(Frame) /\ th[t].batch # <<>> /\ th[t].proc # None /\ th[t].out \in SUBSET (Frame \X Page)
  BY <1>1, <1>2, Records DEF ControlAt
<1>4. PICK f \in Frame, b \in Seq(Frame) : f = Head(th[t].batch) /\ b = Tail(th[t].batch)
  BY <1>3, SeqTail
<1>5. frame[f].id \in Page
  <2>1. PICK r \in Req : r = th[t].proc
    BY <1>3, WorkingOn
  <2>2. In(f, r, "batch")
    BY <1>3, <1>4, <2>1, SeqTail DEF In, At
  <2> QED BY <2>2, WithFrame DEF Kind
<1> DEFINE need == ~frame[Head(th[t].batch)].ready /\ ~frame[Head(th[t].batch)].pending
           out == IF need THEN th[t].out \cup {<<Head(th[t].batch), frame[Head(th[t].batch)].id>>} ELSE th[t].out
           send == out # {} /\ (~need \/ Tail(th[t].batch) = <<>>)
           o == IF send THEN {} ELSE out
           me == Rest(th[t], Tail(th[t].batch), o)
<1>6. [th[t] EXCEPT !.batch = Tail(@)].batch = Tail(th[t].batch)
  BY <1>1 DEF ThRec
<1>7. /\ \/ need /\ StartRead(t, Head(th[t].batch), th[t].proc, que[t])
         \/ /\ ~frame[Head(th[t].batch)].ready /\ frame[Head(th[t].batch)].pending
            /\ Enqueue(t, Head(th[t].batch), th[t].proc, que[t])
         \/ frame[Head(th[t].batch)].ready /\ ReadReady(t, Head(th[t].batch), th[t].proc, que[t])
      /\ IF send THEN Send(Request(t, "read", out)) ELSE UNCHANGED flight
      /\ th' = [th EXCEPT ![t] = IF Tail(th[t].batch) = <<>> THEN AfterFlush(me) ELSE me]
  BY <1>6, Zenon DEF FlushBatch, Rest
<1>8. o \in SUBSET (Frame \X Page)
  BY <1>3, <1>4, <1>5
<1>a. o \in {{}, out} /\ \A c \in out : c \in th[t].out \/ c = <<Head(th[t].batch), frame[Head(th[t].batch)].id>>
  OBVIOUS
<1> HIDE DEF need, out, send, o
<1>9. FlushNext(t, b, o)
  <2>1. PICK m : m = me
    OBVIOUS
  <2>2. PICK n : n = IF b = <<>> THEN AfterFlush(m) ELSE m
    OBVIOUS
  <2>3. m = Rest(th[t], b, o) /\ th' = [th EXCEPT ![t] = n]
    BY <1>4, <1>7, <2>1, <2>2
  <2> QED BY <1>2, <1>8, <2>2, <2>3, Flushed
<1>10. /\ (\A u \in Thread \ {t} : th'[u] = th[u]) /\ th'[t].cur = th[t].cur /\ th'[t].old = th[t].old
       /\ th'[t].pc \notin {"mergeF", "mergeB"}
  BY <1>9 DEF FlushNext
<1>11. Tame(t)
  BY <1>2, <1>10 DEF Tame
<1>12. PICK q \in QueRec : q = que[t]
  BY <1>1
<1>13. \E r : StartRead(t, f, r, q) \/ Enqueue(t, f, r, q) \/ ReadReady(t, f, r, q)
  BY <1>4, <1>7, <1>12
<1>14. Still /\ \A u \in Thread : que'[u].disk = que[u].disk
  BY <1>1, <1>12, <1>13, StillMet
<1>15. \A io \in flight' : io.op = "write" => io \in flight
  <2>1. flight' = flight \/ \E c : flight' = flight \cup {Request(t, "read", c)}
    BY <1>7 DEF Send
  <2>2. \A c : Request(t, "read", c).op = "read"
    BY DEF Request
  <2> QED BY <2>1, <2>2
<1>16. Calm
  BY <1>10, <1>11, <1>14, <1>15, TameCalm
<1>17. FlushReads(t)
  <2>1. th'[t].out = o
    BY <1>9 DEF FlushNext
  <2>2. flight' = flight \/ flight' = flight \cup {Request(t, "read", out)}
    BY <1>7 DEF Send
  <2> QED BY <1>4, <1>10, <1>a, <2>1, <2>2 DEF FlushReads
<1> QED BY <1>14, <1>16, <1>17 DEF Still, Quiet

\* process_cached_reqs, one request.
LEMMA CachedReqKinds == ASSUME IInv, NEW t \in Thread, CachedReq(t) PROVE Kinds
<1>1. TypeOK /\ que[t] \in QueRec /\ que[t].cached \in Seq(Frame \X Req) /\ frame \in [Frame -> FrameRec]
  BY Parts, Records, TypesForm
<1>2. /\ th[t].pc = "cached" /\ que[t].cached # <<>> /\ FastServed(Head(que[t].cached)[1], Head(que[t].cached)[2])
      /\ que' = [que EXCEPT ![t].cached = Tail(@)] /\ Counts(t) /\ raced' = raced /\ flight' = flight
  BY Zenon DEF CachedReq, FastServed, Counts
<1>3. Head(que[t].cached) \in Frame \X Req /\ Head(que[t].cached) \in ToSet(que[t].cached) /\ Tail(que[t].cached) \in Seq(Frame \X Req)
  BY <1>1, <1>2, SeqTail
<1>4. PICK f \in Frame, r \in Req : Head(que[t].cached) = <<f, r>>
  BY <1>3
<1>5. In(f, r, "cached") /\ "cached" \in Kind
  BY <1>3, <1>4 DEF In, At, Kind
<1>6. frame[f].ready /\ ~frame[f].oldDirty
  BY <1>5, Parts DEF FlagsAt
<1>7. frame[f].id \in Page /\ frame[f].ref # 0 /\ frame[f].ref \in Nat /\ frame[f] \in FrameRec
  BY <1>1, <1>5, WithFrame, Records
<1>8. FastServed(f, r)
  BY <1>2, <1>4
<1>9. Calm
  <2>1. CountsForm(t)
    BY <1>1, <1>2, GoalForm
  <2>2. (\A u \in Thread \ {t} : th'[u] = th[u]) /\ Tame(t)
    BY <1>2, <2>1 DEF CountsForm, Tame
  <2>3. que' = [que EXCEPT ![t] = [que[t] EXCEPT !.cached = Tail(que[t].cached)]]
    BY <1>1, <1>2, TypesForm
  <2>4. [que[t] EXCEPT !.cached = Tail(que[t].cached)].disk = que[t].disk
    BY <1>1, <1>3, CachedTail
  <2>5. \A u \in Thread : que'[u].disk = que[u].disk
    BY <1>1, <2>3, <2>4, SameAnswers
  <2> QED BY <1>2, <2>2, <2>5, TameCalm
<1>10. PICK x \in Nat : x = frame[f].ref - 1
  BY <1>7
<1>11. PICK pg : pg = [frame[f] EXCEPT !.ref = x]
  OBVIOUS
<1>12. [frame EXCEPT ![f].ref = @ - 1] = [frame EXCEPT ![f] = pg]
  BY <1>1, <1>10, <1>11
<1>13. CASE rq[r].op = "write"
  <2>1. PICK w : w = (frame[f].id \in rq[r].whole)
    OBVIOUS
  <2>2. /\ frame' = Written([frame EXCEPT ![f].ref = @ - 1], f, frame[f].id, frame[f].id \in rq[r].whole)
        /\ disk' = [disk EXCEPT ![frame[f].id] = FALSE]
    BY <1>8, <1>13 DEF FastServed
  <2>3. frame' = Written([frame EXCEPT ![f] = pg], f, frame[f].id, w)
    BY <1>12, <2>1, <2>2
  <2>4. /\ pg \in FrameRec /\ pg.id = frame[f].id /\ pg.ready = TRUE /\ pg.oldDirty = frame[f].oldDirty /\ pg.dataOf = frame[f].dataOf
        /\ pg.fresh = frame[f].fresh
    BY <1>6, <1>7, <1>11 DEF FrameRec
  <2>5. WroteTo(f, w)
    BY <1>1, <1>2, <1>6, <1>7, <2>2, <2>3, <2>4, WrittenTo
  <2> QED BY <1>9, <2>5 DEF Kinds
<1>14. CASE rq[r].op # "write"
  <2>1. frame' = [frame EXCEPT ![f] = pg] /\ disk' = disk
    BY <1>8, <1>12, <1>14 DEF FastServed
  <2>2. SameData(frame[f], pg)
    BY <1>7, <1>11, SameDataForm
  <2>3. \A g \in Frame : Kept(g)
    BY <1>1, <2>1, <2>2, KeptSet
  <2> QED BY <1>2, <1>9, <2>1, <2>3 DEF Quiet, Kinds
<1> QED BY <1>13, <1>14

\* process_completed_requests, one request.
LEMMA CompletedReqQuiet == ASSUME IInv, NEW t \in Thread, CompletedReq(t) PROVE Quiet
<1>1. TypeOK /\ que[t] \in QueRec /\ que \in [Thread -> QueRec] /\ frame \in [Frame -> FrameRec]
  BY Parts, Records, TypesForm
<1>2. /\ th[t].pc = "comp" /\ que' = [que EXCEPT ![t].comp = Tail(@)] /\ Counts(t) /\ UNCHANGED <<disk, raced, flight>>
      /\ \E S : frame' = [f \in Frame |-> IF f \in S THEN [frame[f] EXCEPT !.ref = @ - 1] ELSE frame[f]]
  BY Zenon DEF CompletedReq, Counts
<1>3. \A f \in Frame : Kept(f)
  <2>1. SUFFICES ASSUME NEW f \in Frame PROVE Kept(f)
    OBVIOUS
  <2>2. frame'[f] = frame[f] \/ frame'[f] = [frame[f] EXCEPT !.ref = frame[f].ref - 1]
    BY <1>2
  <2>3. SameData(frame[f], [frame[f] EXCEPT !.ref = frame[f].ref - 1]) /\ SameData(frame[f], frame[f])
    BY <1>1, SameDataForm DEF SameData
  <2> QED BY <2>2, <2>3 DEF SameData, Kept
<1>4. (\A u \in Thread \ {t} : th'[u] = th[u]) /\ Tame(t)
  BY <1>1, <1>2, GoalForm DEF CountsForm, Tame
<1>5. \A u \in Thread : que'[u].disk = que[u].disk
  <2>1. que' = [que EXCEPT ![t] = [que[t] EXCEPT !.comp = Tail(que[t].comp)]]
    BY <1>1, <1>2
  <2>2. [que[t] EXCEPT !.comp = Tail(que[t].comp)].disk = que[t].disk
    BY <1>1 DEF QueRec
  <2> QED BY <1>1, <2>1, <2>2, SameAnswers
<1>6. Calm
  BY <1>2, <1>4, <1>5, TameCalm
<1> QED BY <1>2, <1>3, <1>6 DEF Quiet

-------------------------------------------------------------------------------
(* Steps that begin or send a write                                        *)

\* write_dirty_page.
LEMMA WriteDirtyPageBegins == ASSUME IInv, DataInv, NEW t \in Thread, WriteDirtyPage(t) PROVE \E b : Begins(t, b)
<1>1. TypeOK /\ EvictorAt(t) /\ th[t] \in ThRec /\ th \in [Thread -> ThRec] /\ frame \in [Frame -> FrameRec]
  BY Parts, Records, TypesForm
<1>2. th[t].pc = "old" /\ th[t].old # None /\ UNCHANGED <<disk, raced, que, rq>>
  BY Zenon DEF WriteDirtyPage
<1>3. PICK f \in Frame, r \in Req : f = th[t].cur /\ r = th[t].proc
  BY <1>2, HasPage
<1>4. frame' = [frame EXCEPT ![f] = AddReq(Writing(frame[f]), r)]
  BY <1>1, <1>3 DEF WriteDirtyPage
<1>5. \A g \in Frame : Kept(g)
  BY <1>1, <1>4, SameDataForm, KeptSet
<1>6. Evicting(t, f) /\ frame[f].oldDirty /\ th[t].old \in Page
  BY <1>1, <1>2, <1>3 DEF Evicting, EvictorAt
<1>7. PICK b : b = <<f, th[t].old>>
  OBVIOUS
<1>8. b[1] \in Frame /\ Carried(b)
  BY <1>6, <1>7 DEF DataInv, OldData, Carried
<1>9. DoneLike
  BY <1>2 DEF DoneLike
<1>10. CASE LargeWrite
  <2>1. /\ flight' = flight
        /\ th' = [th EXCEPT ![t] = [th[t] EXCEPT !.pc = "mergeF", !.out = WriteBackIO(t).bufs, !.mp = th[t].old + 1, !.cur = None]]
    BY <1>10 DEF WriteDirtyPage
  <2>2. WriteBackIO(t).bufs = {b}
    BY <1>3, <1>7 DEF WriteBackIO, Request
  <2>3. /\ \A u \in Thread \ {t} : th'[u] = th[u]
        /\ th'[t].out = {b} /\ th'[t].cur = None
    <3>1. th'[t] = [th[t] EXCEPT !.pc = "mergeF", !.out = WriteBackIO(t).bufs, !.mp = th[t].old + 1, !.cur = None]
      BY <1>1, <2>1
    <3>2. \A u \in Thread \ {t} : th'[u] = th[u]
      BY <1>1, <2>1
    <3>3. th[t] \in ThRec
      BY <1>1
    <3> QED BY <2>2, <3>1, <3>2, <3>3 DEF ThRec
  <2>4. EvictLike
    BY <2>3, NoneApart DEF EvictLike, Evicting
  <2> QED BY <1>2, <1>5, <1>8, <1>9, <1>10, <2>1, <2>3, <2>4 DEF Begins
<1>11. CASE ~LargeWrite
  <2>1. flight' = flight \cup {WriteBackIO(t)} /\ Looped(t, th[t])
    BY <1>11 DEF WriteDirtyPage, Send, Looped
  <2>2. WriteBackIO(t).bufs = {b} /\ (WriteBackIO(t).multi <=> Cardinality({b}) > 1)
    <3>b. b \in Frame \X Page
      BY <1>6, <1>7
    <3>c. {b} \in SUBSET (Frame \X Page)
      BY <3>b, Zenon
    <3>1. PICK B \in SUBSET (Frame \X Page) : B = {b}
      BY <3>c, Zenon
    <3>a. {<<th[t].cur, th[t].old>>} = B
      BY <1>3, <1>7, <3>1
    <3>2. WriteBackIO(t) = Request(t, "write", B)
      BY <3>a, Zenon DEF WriteBackIO
    <3>3. Request(t, "write", B).bufs = B /\ Request(t, "write", B).multi = (Cardinality(B) > 1)
      BY RequestForm
    <3> QED BY <3>1, <3>2, <3>3
  <2>3. Cardinality({b}) = 1
    BY FS_Singleton
  <2>4. ~WriteBackIO(t).multi
    BY <2>2, <2>3
  <2>5. (\A u \in Thread \ {t} : th'[u] = th[u]) /\ th'[t].cur = None /\ ~Merges(t)'
    BY <1>1, <1>3, <2>1, LoopedOn
  <2>6. EvictLike
    BY <2>5, NoneApart DEF EvictLike, Evicting
  <2> QED BY <1>2, <1>5, <1>8, <1>9, <2>1, <2>2, <2>4, <2>5, <2>6 DEF Begins
<1> QED BY <1>10, <1>11

\* A dirty page joins the write.
LEMMA MergeAddsBegins == ASSUME IInv, DataInv, NEW t \in Thread, Merges(t), NEW f \in Frame, NEW p \in Page, frame[f].id = p, frame[f].dirty,
                                frame' = Merged(f), NEW me, th' = [th EXCEPT ![t] = me], me.out = th[t].out \cup {<<f, p>>},
                                me.cur = th[t].cur, UNCHANGED <<disk, raced, flight, que>>
                         PROVE \E b : Begins(t, b)
<1>1. TypeOK /\ th \in [Thread -> ThRec] /\ frame \in [Frame -> FrameRec]
  BY Parts, TypesForm
<1>2. PICK b : b = <<f, p>>
  OBVIOUS
<1>3. LargeWrite
  BY DEF DataInv, SmallWrites
<1>4. frame' = [frame EXCEPT ![f] = Writing(frame[f])]
  BY <1>1 DEF Merged
<1>5. \A g \in Frame : Kept(g)
  BY <1>1, <1>4, SameDataForm, KeptSet
<1>6. b[1] \in Frame /\ Carried(b)
  BY <1>2 DEF DataInv, DirtyData, Carried
<1>7. th[t].cur = None
  BY Merging DEF Merges
<1>8. th'[t] = me /\ \A u \in Thread \ {t} : th'[u] = th[u]
  BY <1>1
<1>9. EvictLike
  BY <1>7, <1>8, NoneApart DEF EvictLike, Evicting
<1>10. DoneLike
  BY DEF DoneLike
<1> QED BY <1>2, <1>3, <1>5, <1>6, <1>8, <1>9, <1>10 DEF Begins

\* merge_pages2req, forwards and backwards.
LEMMA MergeForwardKinds == ASSUME IInv, DataInv, NEW t \in Thread, MergeForward(t) PROVE Quiet \/ \E b : Begins(t, b)
<1>1. TypeOK /\ th[t] \in ThRec /\ th \in [Thread -> ThRec]
  BY Parts, Records, TypesForm
<1>2. /\ th[t].pc = "mergeF" /\ UNCHANGED <<disk, raced, flight, que, rq>>
      /\ \/ \E f \in Mergeable(th[t].mp, Block(th[t].old)) :
               /\ frame' = Merged(f)
               /\ th' = [th EXCEPT ![t] = [th[t] EXCEPT !.out = @ \cup {<<f, th[t].mp>>}, !.mp = th[t].mp + 1]]
         \/ frame' = frame /\ th' = [th EXCEPT ![t] = [th[t] EXCEPT !.pc = "mergeB", !.mp = th[t].old]]
  BY Zenon DEF MergeForward
<1>3. Merges(t)
  BY <1>2 DEF Merges
<1>4. ASSUME NEW f \in Mergeable(th[t].mp, Block(th[t].old)), frame' = Merged(f),
             th' = [th EXCEPT ![t] = [th[t] EXCEPT !.out = @ \cup {<<f, th[t].mp>>}, !.mp = th[t].mp + 1]]
      PROVE \E b : Begins(t, b)
  <2>1. f \in Frame /\ th[t].mp \in Page /\ frame[f].id = th[t].mp /\ frame[f].dirty
    BY DEF Mergeable, FramesOf
  <2>2. PICK p \in Page : p = th[t].mp
    BY <2>1
  <2>3. PICK me : me = [th[t] EXCEPT !.out = @ \cup {<<f, th[t].mp>>}, !.mp = th[t].mp + 1]
    OBVIOUS
  <2>4. me.out = th[t].out \cup {<<f, p>>} /\ me.cur = th[t].cur
    BY <1>1, <2>2, <2>3 DEF ThRec
  <2>5. th' = [th EXCEPT ![t] = me]
    BY <1>4, <2>3
  <2>6. UNCHANGED <<disk, raced, flight, que>>
    BY <1>2
  <2>7. frame[f].id = p /\ f \in Frame /\ frame[f].dirty /\ frame' = Merged(f)
    BY <1>4, <2>1, <2>2, Zenon
  <2> QED BY <1>3, <2>4, <2>5, <2>6, <2>7, MergeAddsBegins, Zenon
<1>5. CASE frame' = frame /\ th' = [th EXCEPT ![t] = [th[t] EXCEPT !.pc = "mergeB", !.mp = th[t].old]]
  <2>1. th'[t] = [th[t] EXCEPT !.pc = "mergeB", !.mp = th[t].old] /\ \A u \in Thread \ {t} : th'[u] = th[u]
    BY <1>1, <1>5
  <2>2. th'[t].pc = "mergeB" /\ th'[t].out = th[t].out
    BY <1>1, <2>1 DEF ThRec
  <2>3. Tame(t)
    BY <1>3, <2>2 DEF Tame
  <2>4. Calm
    BY <1>2, <2>1, <2>3, TameCalm
  <2> QED BY <1>2, <1>5, <2>4, KeptAll DEF Quiet
<1> QED BY <1>2, <1>4, <1>5

LEMMA MergeBackwardKinds == ASSUME IInv, DataInv, NEW t \in Thread, MergeBackward(t) PROVE Quiet \/ \E b : Begins(t, b)
<1>1. TypeOK /\ th[t] \in ThRec /\ th \in [Thread -> ThRec]
  BY Parts, Records, TypesForm
<1>2. /\ th[t].pc = "mergeB" /\ UNCHANGED <<disk, raced, que, rq>>
      /\ \/ \E f \in IF th[t].mp = 0 THEN {} ELSE Mergeable(th[t].mp - 1, Block(th[t].old)) :
               /\ frame' = Merged(f)
               /\ th' = [th EXCEPT ![t] = [th[t] EXCEPT !.out = @ \cup {<<f, th[t].mp - 1>>}, !.mp = th[t].mp - 1]]
               /\ flight' = flight
         \/ /\ flight' = flight \cup {Request(t, "write", th[t].out)} /\ frame' = frame
            /\ Looped(t, [th[t] EXCEPT !.out = {}])
  BY Zenon DEF MergeBackward, Send, Looped
<1>3. Merges(t)
  BY <1>2 DEF Merges
<1>4. ASSUME NEW f \in Mergeable(th[t].mp - 1, Block(th[t].old)), frame' = Merged(f), flight' = flight,
             th' = [th EXCEPT ![t] = [th[t] EXCEPT !.out = @ \cup {<<f, th[t].mp - 1>>}, !.mp = th[t].mp - 1]]
      PROVE \E b : Begins(t, b)
  <2>1. f \in Frame /\ th[t].mp - 1 \in Page /\ frame[f].id = th[t].mp - 1 /\ frame[f].dirty
    BY DEF Mergeable, FramesOf
  <2>2. PICK p \in Page : p = th[t].mp - 1
    BY <2>1
  <2>3. PICK me : me = [th[t] EXCEPT !.out = @ \cup {<<f, th[t].mp - 1>>}, !.mp = th[t].mp - 1]
    OBVIOUS
  <2>4. me.out = th[t].out \cup {<<f, p>>} /\ me.cur = th[t].cur
    BY <1>1, <2>2, <2>3 DEF ThRec
  <2>5. th' = [th EXCEPT ![t] = me]
    BY <1>4, <2>3
  <2>6. UNCHANGED <<disk, raced, flight, que>>
    BY <1>2, <1>4
  <2>7. frame[f].id = p /\ f \in Frame /\ frame[f].dirty /\ frame' = Merged(f)
    BY <1>4, <2>1, <2>2, Zenon
  <2> QED BY <1>3, <2>4, <2>5, <2>6, <2>7, MergeAddsBegins, Zenon
<1>5. CASE /\ flight' = flight \cup {Request(t, "write", th[t].out)} /\ frame' = frame
           /\ Looped(t, [th[t] EXCEPT !.out = {}])
  <2>0. th[t].proc \in Req
    BY <1>2, Merging
  <2>1. PICK me \in ThRec : me = [th[t] EXCEPT !.out = {}] /\ me.proc \in Req
    BY ONLY <1>1, <2>0, SentForm, Zenon
  <2>2. (\A u \in Thread \ {t} : th'[u] = th[u]) /\ Tame(t)
    BY <1>1, <1>5, <2>1, LoopedOn
  <2>3. Request(t, "write", th[t].out).bufs = th[t].out
    BY DEF Request
  <2>4. \A io \in flight' : io \in flight \/ (Merges(t) /\ io.bufs \subseteq th[t].out)
    BY <1>3, <1>5, <2>3
  <2>5. Calm
    BY <1>2, <2>2, <2>4, TameCalm
  <2> QED BY <1>2, <1>5, <2>5, KeptAll DEF Quiet
<1> QED BY <1>2, <1>4, <1>5

-------------------------------------------------------------------------------
(* The disk transfers data and answers                                     *)

\* The threads are where they were.
Stays == \A u \in Thread : th'[u].pc = th[u].pc /\ th'[u].cur = th[u].cur /\ th'[u].old = th[u].old /\ th'[u].out = th[u].out
                                  /\ th'[u].nxt = th[u].nxt
Answered(t, io) == io \in ToSet(que[t].disk)

\* A read fills the frames it covers.
ReadServed(io) ==
    /\ io.op = "read" /\ disk' = disk
    /\ \A f \in Frame : /\ frame'[f].id = frame[f].id /\ frame'[f].ready = frame[f].ready /\ frame'[f].dirty = frame[f].dirty
                        /\ frame'[f].oldDirty = frame[f].oldDirty
    /\ \A b \in io.bufs : frame'[b[1]].dataOf = b[2] /\ frame'[b[1]].fresh = disk[b[2]]
    /\ \A f \in Frame : ~Cov(io.bufs, f) => Kept(f)
\* A write takes their data to the disk.
WriteServed(io) ==
    /\ io.op = "write" /\ \A f \in Frame : Kept(f)
    /\ disk' = [p \in Page |-> IF \E b \in io.bufs : b[2] = p THEN \E b \in io.bufs : b[2] = p /\ frame[b[1]].fresh ELSE disk[p]]
Serves(io) ==
    /\ io \in flight /\ Ios' = Ios /\ Stays /\ raced' = raced /\ (ReadServed(io) \/ WriteServed(io))
    /\ \A u \in Thread : \A jo : Answered(u, jo)' => Answered(u, jo) \/ jo = io

LEMMA ServeServes == ASSUME IInv, NEW io \in flight, Serve(io) PROVE Serves(io)
<1> DEFINE pageOf(f) == CHOOSE p \in Page : <<f, p>> \in io.bufs
           touched == {b[1] : b \in io.bufs}
<1>1. TypeOK /\ IOApart /\ frame \in [Frame -> FrameRec] /\ th \in [Thread -> ThRec] /\ que \in [Thread -> QueRec]
  BY Parts, TypesForm
<1>2. io \in IO /\ io.io \in Thread /\ io \in Ios /\ io.op \in {"read", "write"}
  BY <1>1, TypesForm DEF IO, Ios
<1>3. PICK t \in Thread : t = io.io
  BY <1>2
<1>4. /\ flight' = flight \ {io} /\ que' = [que EXCEPT ![t].disk = Append(@, io)] /\ th' = [th EXCEPT ![t] = Activated(@)]
      /\ raced' = raced
  BY <1>3, Zenon DEF Serve
<1>5. Stays
  <2>1. th'[t] = Activated(th[t]) /\ (\A u \in Thread \ {t} : th'[u] = th[u]) /\ th[t] \in ThRec
    BY <1>1, <1>4
  <2>2. SameBut(th[t], Activated(th[t]), th[t].acc)
    BY <2>1, ActSet
  <2> QED BY <2>1, <2>2 DEF SameBut, Stays
<1>6. \A u \in Thread : ToSet(que'[u].disk) = IF u = t THEN ToSet(que[t].disk) \cup {io} ELSE ToSet(que[u].disk)
  <2>1. que[t] \in QueRec /\ que[t].disk \in Seq(IO)
    BY <1>1, Records
  <2>2. ToSet(Append(que[t].disk, io)) = ToSet(que[t].disk) \cup {io}
    BY <1>2, <2>1, SeqAppend
  <2>3. que' = [que EXCEPT ![t] = [que[t] EXCEPT !.disk = Append(que[t].disk, io)]]
    BY <1>1, <1>4
  <2>4. [que[t] EXCEPT !.disk = Append(que[t].disk, io)].disk = Append(que[t].disk, io)
    BY <2>1 DEF QueRec
  <2> QED BY <1>1, <2>2, <2>3, <2>4
<1>7. Ios' = Ios
  BY <1>2, <1>4, <1>6 DEF Ios
<1>8. \A u \in Thread : \A jo : Answered(u, jo)' => Answered(u, jo) \/ jo = io
  BY <1>6 DEF Answered
<1>9. BufsOK(io.bufs) /\ \A b \in io.bufs : b \in Frame \X Page
  BY <1>1, <1>2, IosTyped DEF IOApart
<1>10. CASE io.op = "read"
  <2>1. /\ disk' = disk
        /\ frame' = [f \in Frame |-> IF f \in touched THEN [frame[f] EXCEPT !.dataOf = pageOf(f), !.fresh = disk[pageOf(f)]]
                                     ELSE frame[f]]
    BY <1>10, Zenon DEF Serve
  <2>2. ASSUME NEW b \in io.bufs PROVE b[1] \in touched /\ pageOf(b[1]) = b[2] /\ b[1] \in Frame
    <3>1. b[1] \in Frame /\ b[2] \in Page /\ <<b[1], b[2]>> \in io.bufs
      BY <1>9
    <3>2. \A p : <<b[1], p>> \in io.bufs => p = b[2]
      <4>1. ASSUME NEW p, <<b[1], p>> \in io.bufs PROVE p = b[2]
        <5>1. <<b[1], p>> = b
          BY <1>9, <4>1 DEF BufsOK
        <5> QED BY <5>1
      <4> QED BY <4>1
    <3> QED BY <3>1, <3>2
  <2>3. \A f : f \in touched <=> Cov(io.bufs, f)
    BY DEF Cov
  <2> HIDE DEF pageOf, touched
  <2>4. ASSUME NEW f \in Frame
        PROVE /\ frame'[f].id = frame[f].id /\ frame'[f].ready = frame[f].ready /\ frame'[f].dirty = frame[f].dirty
              /\ frame'[f].oldDirty = frame[f].oldDirty
              /\ f \in touched => frame'[f].dataOf = pageOf(f) /\ frame'[f].fresh = disk[pageOf(f)]
              /\ f \notin touched => Kept(f)
    <3>1. frame'[f] = IF f \in touched THEN [frame[f] EXCEPT !.dataOf = pageOf(f), !.fresh = disk[pageOf(f)]] ELSE frame[f]
      BY <2>1, Zenon
    <3>2. frame[f] \in FrameRec
      BY <1>1
    <3>3. CASE f \notin touched
      <4>1. frame'[f] = frame[f]
        BY <3>1, <3>3, Zenon
      <4> QED BY <3>3, <4>1 DEF Kept
    <3>4. CASE f \in touched
      <4>1. PICK p, d : p = pageOf(f) /\ d = disk[pageOf(f)]
        OBVIOUS
      <4>2. frame'[f] = [frame[f] EXCEPT !.dataOf = p, !.fresh = d]
        BY <3>1, <3>4, <4>1, Zenon
      <4>3. /\ frame'[f].id = frame[f].id /\ frame'[f].ready = frame[f].ready /\ frame'[f].dirty = frame[f].dirty
            /\ frame'[f].oldDirty = frame[f].oldDirty /\ frame'[f].dataOf = p /\ frame'[f].fresh = d
        BY <3>2, <4>2 DEF FrameRec
      <4> QED BY <3>4, <4>1, <4>3
    <3> QED BY <3>3, <3>4
  <2>5. \A b \in io.bufs : frame'[b[1]].dataOf = b[2] /\ frame'[b[1]].fresh = disk[b[2]]
    BY <2>2, <2>4
  <2>6. ReadServed(io)
    BY <1>10, <2>1, <2>3, <2>4, <2>5 DEF ReadServed
  <2> QED BY <1>4, <1>5, <1>7, <1>8, <2>6 DEF Serves
<1>11. CASE io.op = "write"
  <2>1. /\ frame' = frame
        /\ disk' = [p \in Page |-> IF \E b \in io.bufs : b[2] = p THEN \E b \in io.bufs : b[2] = p /\ frame[b[1]].fresh ELSE disk[p]]
    BY <1>11 DEF Serve
  <2>2. WriteServed(io)
    BY <1>11, <2>1, KeptAll DEF WriteServed
  <2> QED BY <1>4, <1>5, <1>7, <1>8, <2>2 DEF Serves
<1> QED BY <1>2, <1>10, <1>11

\* A frame that a read covers is not dirty, and nothing else covers it.
LEMMA ReadCovers == ASSUME IInv, ~Voter, NEW io \in Ios, io.op = "read", NEW f \in Frame, Cov(io.bufs, f)
                    PROVE /\ ~frame[f].ready /\ ~frame[f].dirty /\ ~frame[f].oldDirty
                          /\ \A jo \in Ios : jo.op = "write" => ~Cov(jo.bufs, f)
                          /\ \A u \in Thread : ~Cov(th[u].out, f)
<1>1. CovBy(f, "read")
  BY DEF CovBy
<1>2. FlagsAt(f) /\ IOApart
  BY Parts
<1>3. ~frame[f].ready /\ ~frame[f].dirty /\ ~frame[f].oldDirty
  BY <1>1, <1>2 DEF FlagsAt
<1>4. \A jo \in Ios : jo.op = "write" => ~Cov(jo.bufs, f)
  BY <1>2 DEF IOApart
<1>5. \A u \in Thread : ~Cov(th[u].out, f)
  BY <1>2 DEF IOApart
<1> QED BY <1>3, <1>4, <1>5

LEMMA StaysLike == ASSUME Stays PROVE EvictLike /\ MergeLike /\ \A t \in Thread : Merges(t)' <=> Merges(t)
  BY DEF Stays, EvictLike, MergeLike, Evicting, Merges

LEMMA ServesData == ASSUME IInv, ~Voter, DataInv, NEW io, Serves(io) PROVE DataInv'
<1>1. TypeOK /\ io \in Ios
  BY Parts DEF Serves, Ios
<1>2. EvictLike /\ MergeLike
  BY StaysLike DEF Serves
<1>3. CASE WriteServed(io)
  <2>1. DirtyData'
    BY <1>3 DEF DataInv, DirtyData, WriteServed, Kept
  <2>2. OldData'
    BY <1>2, <1>3 DEF DataInv, OldData, WriteServed, Kept, EvictLike
  <2>3. \A b : b[1] \in Frame /\ Carried(b) => Carried(b)'
    BY <1>3 DEF WriteServed, Kept, Carried
  <2>4. WritesCarry'
    BY <1>1, <1>2, <2>3, BufTypes DEF DataInv, WritesCarry, Serves, MergeLike
  <2>5. SmallWrites'
    BY <1>2 DEF DataInv, SmallWrites, Serves, MergeLike
  <2> QED BY <2>1, <2>2, <2>4, <2>5 DEF DataInv
<1>4. CASE ReadServed(io)
  <2>0. io.op = "read"
    BY <1>4 DEF ReadServed
  <2>1. DirtyData'
    <3>1. SUFFICES ASSUME NEW f \in Frame, frame'[f].dirty PROVE frame'[f].dataOf = frame'[f].id
      BY DEF DirtyData
    <3>2. frame[f].dirty
      BY <1>4, <3>1 DEF ReadServed
    <3>3. ~Cov(io.bufs, f)
      BY <1>1, <2>0, <3>2, ReadCovers
    <3>4. Kept(f)
      BY <1>4, <3>3 DEF ReadServed
    <3> QED BY <3>2, <3>4 DEF DataInv, DirtyData, Kept
  <2>2. OldData'
    <3>1. SUFFICES ASSUME NEW t \in Thread, NEW f \in Frame, Evicting(t, f)', frame'[f].oldDirty PROVE frame'[f].dataOf = th'[t].old
      BY DEF OldData
    <3>2. frame[f].oldDirty
      BY <1>4, <3>1 DEF ReadServed
    <3>3. ~Cov(io.bufs, f)
      BY <1>1, <2>0, <3>2, ReadCovers
    <3>4. Kept(f)
      BY <1>4, <3>3 DEF ReadServed
    <3> QED BY <1>2, <3>1, <3>2, <3>4 DEF DataInv, OldData, Kept, EvictLike
  <2>3. \A b : b[1] \in Frame /\ ~Cov(io.bufs, b[1]) /\ Carried(b) => Carried(b)'
    BY <1>4 DEF ReadServed, Kept, Carried
  <2>4. ASSUME NEW jo \in Ios', jo.op = "write", NEW b \in jo.bufs PROVE Carried(b)'
    <3>1. jo \in Ios /\ b[1] \in Frame /\ Carried(b)
      BY <1>1, <2>4, BufTypes DEF Serves, DataInv, WritesCarry
    <3>2. Cov(jo.bufs, b[1])
      BY DEF Cov
    <3>3. ~Cov(io.bufs, b[1])
      BY <1>1, <2>0, <2>4, <3>1, <3>2, ReadCovers
    <3> QED BY <2>3, <3>1, <3>3
  <2>5. ASSUME NEW t \in Thread, Merges(t)', NEW b \in th'[t].out PROVE Carried(b)'
    <3>1. b \in th[t].out /\ Merges(t)
      BY <1>2, <2>5 DEF MergeLike
    <3>2. b[1] \in Frame /\ Carried(b) /\ Cov(th[t].out, b[1])
      BY <1>1, <3>1, BufTypes DEF DataInv, WritesCarry, Cov
    <3>3. ~Cov(io.bufs, b[1])
      BY <1>1, <2>0, <3>2, ReadCovers
    <3> QED BY <2>3, <3>2, <3>3
  <2>6. WritesCarry'
    BY <2>4, <2>5 DEF WritesCarry
  <2>7. SmallWrites'
    BY <1>2 DEF DataInv, SmallWrites, Serves, MergeLike
  <2> QED BY <2>1, <2>2, <2>6, <2>7 DEF DataInv
<1> QED BY <1>3, <1>4 DEF Serves

\* The answer for page b of request io is taken: a read makes the page ready, a write ends the wait for its old
\* data and, when it is one of several pages, makes it clean.
PageDone(t, io, b) ==
    /\ Answered(t, io) /\ b \in io.bufs /\ b \in Frame \X Page /\ Stays /\ disk' = disk /\ raced' = raced
    /\ frame'[b[1]].id = frame[b[1]].id /\ frame'[b[1]].dataOf = frame[b[1]].dataOf /\ frame'[b[1]].fresh = frame[b[1]].fresh
    /\ frame'[b[1]].ready = (frame[b[1]].ready \/ io.op = "read")
    /\ frame'[b[1]].dirty = (frame[b[1]].dirty /\ ~(io.op = "write" /\ io.multi))
    /\ frame'[b[1]].oldDirty = (frame[b[1]].oldDirty /\ io.op = "read")
    /\ \A g \in Frame \ {b[1]} : Kept(g)
    /\ \A jo \in Ios' : /\ jo \in Ios \/ (jo.op = io.op /\ jo.multi = io.multi /\ jo.bufs = io.bufs \ {b})
                        /\ ~Cov(jo.bufs, b[1])
    /\ \A u \in Thread : \A jo : Answered(u, jo)' => \E ko : Answered(u, ko) /\ ko.op = jo.op /\ jo.bufs \subseteq ko.bufs

LEMMA CompletedData == ASSUME NEW pg \in FrameRec, NEW io
                       PROVE LET n == CompletedPage(pg, io) IN
                             /\ n.id = pg.id /\ n.dataOf = pg.dataOf /\ n.fresh = pg.fresh /\ n.ready = (pg.ready \/ io.op = "read")
                             /\ n.dirty = (pg.dirty /\ ~(io.op = "write" /\ io.multi)) /\ n.oldDirty = (pg.oldDirty /\ io.op = "read")
  BY DEF CompletedPage, FrameRec

LEMMA DiskCompletionDone == ASSUME IInv, NEW t \in Thread, DiskCompletion(t) PROVE \E io, b : PageDone(t, io, b)
<1>1. TypeOK /\ frame \in [Frame -> FrameRec]
  BY Parts, TypesForm
<1>2a. PICK io \in IO, b \in Frame \X Page : \E acc, ready : io \in ToSet(que[t].disk) /\ Turned(t, io, b, acc, ready)
  BY DiskTurn
<1>2. PICK acc, ready : io \in ToSet(que[t].disk) /\ Turned(t, io, b, acc, ready)
  BY <1>2a
<1>3. /\ que[t].disk # <<>> /\ io = Head(que[t].disk) /\ b \in io.bufs
      /\ acc = (IF frame[b[1]].reqs = <<>> THEN th[t].acc ELSE Append(th[t].acc, <<b[1], frame[b[1]].reqs>>))
      /\ (ready = IF io.bufs \ {b} = {} THEN acc ELSE <<>>)
      /\ frame' = [frame EXCEPT ![b[1]] = CompletedPage(@, io)]
  BY <1>2, Zenon DEF Turned
<1>4. PICK f \in Frame : f = b[1]
  OBVIOUS
<1>5. PICK rest \in Seq(IO) : rest = Remaining(io, b)
  BY <1>3, RemainingForm
<1>6. AccOK(acc) /\ AccOK(ready)
  <2>1. acc = IF frame[f].reqs = <<>> THEN th[t].acc ELSE Append(th[t].acc, <<f, frame[f].reqs>>)
    BY <1>3, <1>4
  <2>2. Grew(t, f, acc)
    BY <2>1, AccGrown
  <2> QED BY <1>3, <2>2, NothingQueued DEF Grew
<1>7. DiskForm(t, io, b, acc, ready, rest)
  <2>1. rest = IF io.bufs \ {b} = {} THEN <<>> ELSE <<[io EXCEPT !.bufs = io.bufs \ {b}]>>
    BY <1>5, Zenon DEF Remaining
  <2> QED BY <1>2, <1>6, <2>1, DiskFormed
<1>8. ~CovBy(f, "read")' /\ ~CovBy(f, "write")'
  <2>1. Uncovers(t, io, f)
    BY <1>3, <1>4, <1>5, <1>7, DiskIos
  <2> QED BY <2>1 DEF Uncovers
<1>9. Stays /\ disk' = disk /\ raced' = raced /\ flight' = flight
  BY <1>7 DEF DiskForm, Stays
<1>10. /\ frame'[f].id = frame[f].id /\ frame'[f].dataOf = frame[f].dataOf /\ frame'[f].fresh = frame[f].fresh
       /\ frame'[f].ready = (frame[f].ready \/ io.op = "read")
       /\ frame'[f].dirty = (frame[f].dirty /\ ~(io.op = "write" /\ io.multi))
       /\ frame'[f].oldDirty = (frame[f].oldDirty /\ io.op = "read")
  <2>1. frame'[f] = CompletedPage(frame[f], io) /\ frame[f] \in FrameRec
    BY <1>1, <1>3, <1>4
  <2> QED BY <2>1, CompletedData
<1>11. \A g \in Frame \ {f} : Kept(g)
  BY <1>4, <1>7 DEF DiskForm, Kept
<1>12. \A u \in Thread : \A jo \in ToSet(que'[u].disk) :
          \/ jo \in ToSet(que[u].disk)
          \/ (u = t /\ jo.op = io.op /\ jo.multi = io.multi /\ jo.bufs = io.bufs \ {b})
  <2>1. que[t].disk \in Seq(IO)
    BY <1>1, Records
  <2>2. PICK s \in Seq(IO) : s = Tail(que[t].disk) /\ ToSet(s) \subseteq ToSet(que[t].disk)
    BY <1>3, <2>1, SeqTail
  <2>3. que'[t].disk = rest \o s /\ \A u \in Thread \ {t} : que'[u].disk = que[u].disk
    BY <1>7, <2>2 DEF DiskForm
  <2>4. ToSet(rest \o s) = ToSet(rest) \cup ToSet(s)
    BY SeqJoin
  <2>5. \A jo \in ToSet(rest) : jo.op = io.op /\ jo.multi = io.multi /\ jo.bufs = io.bufs \ {b}
    BY <1>3, <1>5, RemainingForm
  <2> QED BY <2>2, <2>3, <2>4, <2>5
<1>13. \A jo \in Ios' : jo \in Ios \/ (jo.op = io.op /\ jo.multi = io.multi /\ jo.bufs = io.bufs \ {b})
  <2>1. SUFFICES ASSUME NEW jo \in Ios' PROVE jo \in Ios \/ (jo.op = io.op /\ jo.multi = io.multi /\ jo.bufs = io.bufs \ {b})
    OBVIOUS
  <2>2. jo \in flight' \/ \E u \in Thread : jo \in ToSet(que'[u].disk)
    BY DEF Ios
  <2>3. CASE jo \in flight'
    BY <1>9, <2>3 DEF Ios
  <2>4. CASE \E u \in Thread : jo \in ToSet(que'[u].disk)
    BY <1>12, <2>4 DEF Ios
  <2> QED BY <2>2, <2>3, <2>4
<1>14. \A jo \in Ios' : ~Cov(jo.bufs, f)
  <2>1. SUFFICES ASSUME NEW jo \in Ios', Cov(jo.bufs, f) PROVE FALSE
    OBVIOUS
  <2>2. io \in Ios /\ \A ko \in Ios : ko.op \in {"read", "write"}
    BY <1>1, <1>2, IosTyped DEF Ios, IO
  <2>3. jo.op \in {"read", "write"}
    BY <1>13, <2>2
  <2> QED BY <1>8, <2>1, <2>3 DEF CovBy
<1>15. \A u \in Thread : \A jo : Answered(u, jo)' => \E ko : Answered(u, ko) /\ ko.op = jo.op /\ jo.bufs \subseteq ko.bufs
  <2>1. SUFFICES ASSUME NEW u \in Thread, NEW jo \in ToSet(que'[u].disk)
                 PROVE \E ko \in ToSet(que[u].disk) : ko.op = jo.op /\ jo.bufs \subseteq ko.bufs
    BY DEF Answered
  <2> QED BY <1>2, <1>12, <2>1
<1>16. Answered(t, io) /\ b \in io.bufs /\ b \in Frame \X Page
  BY <1>2, <1>3 DEF Answered
<1>17. \A jo \in Ios' : /\ jo \in Ios \/ (jo.op = io.op /\ jo.multi = io.multi /\ jo.bufs = io.bufs \ {b})
                        /\ ~Cov(jo.bufs, f)
  BY <1>13, <1>14
<1>18. /\ frame'[b[1]].id = frame[b[1]].id /\ frame'[b[1]].dataOf = frame[b[1]].dataOf /\ frame'[b[1]].fresh = frame[b[1]].fresh
       /\ frame'[b[1]].ready = (frame[b[1]].ready \/ io.op = "read")
       /\ frame'[b[1]].dirty = (frame[b[1]].dirty /\ ~(io.op = "write" /\ io.multi))
       /\ frame'[b[1]].oldDirty = (frame[b[1]].oldDirty /\ io.op = "read")
  BY <1>4, <1>10
<1>19. \A g \in Frame \ {b[1]} : Kept(g)
  BY <1>4, <1>11
<1>20. \A jo \in Ios' : /\ jo \in Ios \/ (jo.op = io.op /\ jo.multi = io.multi /\ jo.bufs = io.bufs \ {b})
                        /\ ~Cov(jo.bufs, b[1])
  BY <1>4, <1>17
<1>21. PageDone(t, io, b)
  BY <1>9, <1>15, <1>16, <1>18, <1>19, <1>20, Zenon DEF PageDone
<1> QED BY <1>21

LEMMA DoneData == ASSUME IInv, DataInv, NEW t \in Thread, NEW io, NEW b, PageDone(t, io, b) PROVE DataInv'
<1>1. TypeOK /\ IOApart /\ io \in Ios /\ b[1] \in Frame
  BY Parts DEF PageDone, Answered, Ios
<1>2. EvictLike /\ MergeLike
  BY StaysLike DEF PageDone
<1>a. /\ frame'[b[1]].id = frame[b[1]].id /\ frame'[b[1]].dataOf = frame[b[1]].dataOf
      /\ (frame'[b[1]].dirty => frame[b[1]].dirty) /\ (frame'[b[1]].oldDirty => frame[b[1]].oldDirty)
  BY DEF PageDone
<1>b. \A g \in Frame \ {b[1]} : Kept(g)
  BY DEF PageDone
<1>c. \A g \in Frame : /\ frame'[g].id = frame[g].id /\ frame'[g].dataOf = frame[g].dataOf
                       /\ (frame'[g].dirty => frame[g].dirty) /\ (frame'[g].oldDirty => frame[g].oldDirty)
  BY <1>a, <1>b DEF Kept
<1>3. DirtyData'
  BY <1>c DEF DataInv, DirtyData
<1>4. OldData'
  BY <1>2, <1>c DEF DataInv, OldData, EvictLike
<1>5. \A c : c[1] \in Frame \ {b[1]} /\ Carried(c) => Carried(c)'
  BY DEF PageDone, Kept, Carried
<1>6. ASSUME NEW jo \in Ios', jo.op = "write", NEW c \in jo.bufs PROVE Carried(c)'
  <2>1. c[1] # b[1]
    BY DEF PageDone, Cov
  <2>2. c[1] \in Frame /\ Carried(c)
    <3>1. jo \in Ios \/ (jo.op = io.op /\ jo.bufs = io.bufs \ {b})
      BY DEF PageDone
    <3> QED BY <1>1, <1>6, <3>1, BufTypes DEF DataInv, WritesCarry
  <2> QED BY <1>5, <2>1, <2>2
<1>7. ASSUME NEW u \in Thread, Merges(u)', NEW c \in th'[u].out PROVE Carried(c)'
  <2>1. c \in th[u].out /\ Merges(u)
    BY <1>2, <1>7 DEF MergeLike
  <2>2. c[1] \in Frame /\ Carried(c) /\ Cov(th[u].out, c[1])
    BY <1>1, <2>1, BufTypes DEF DataInv, WritesCarry, Cov
  <2>3. Cov(io.bufs, b[1])
    BY DEF PageDone, Cov
  <2>4. c[1] # b[1]
    BY <1>1, <2>2, <2>3 DEF IOApart
  <2> QED BY <1>5, <2>2, <2>4
<1>8. WritesCarry'
  BY <1>6, <1>7 DEF WritesCarry
<1>9. SmallWrites'
  <2>1. SUFFICES ASSUME ~LargeWrite PROVE /\ \A u \in Thread : ~Merges(u)'
                                          /\ \A jo \in Ios' : jo.op = "write" => ~jo.multi /\ \A c \in jo.bufs : jo.bufs = {c}
    BY DEF SmallWrites
  <2>2. \A u \in Thread : ~Merges(u)'
    BY <1>2, <2>1 DEF DataInv, SmallWrites, MergeLike
  <2>3. ASSUME NEW jo \in Ios', jo.op = "write" PROVE ~jo.multi /\ \A c \in jo.bufs : jo.bufs = {c}
    <3>1. CASE jo \in Ios
      BY <2>1, <2>3, <3>1 DEF DataInv, SmallWrites
    <3>2. CASE jo.op = io.op /\ jo.multi = io.multi /\ jo.bufs = io.bufs \ {b}
      <4>1. ~io.multi /\ io.bufs = {b}
        BY <1>1, <2>1, <2>3, <3>2 DEF DataInv, SmallWrites, PageDone
      <4> QED BY <3>2, <4>1
    <3> QED BY <3>1, <3>2 DEF PageDone
  <2> QED BY <2>2, <2>3
<1> QED BY <1>3, <1>4, <1>8, <1>9 DEF DataInv

-------------------------------------------------------------------------------
(* What a write-back carries                                               *)

\* What a step does to the data.
LEMMA StepKinds == ASSUME IInv, DataInv, ~Voter, Next
                   PROVE \/ Kinds
                         \/ \E t \in Thread : \/ (SearchMiss(t) /\ \E f \in Frame, p \in Page : Takes(t, f, p))
                                              \/ (\E b : Begins(t, b))
                                              \/ (\E io, b : PageDone(t, io, b))
                         \/ \E io : Serves(io)
<1>1. TypeOK
  BY Parts
<1>2. Quiet => Kinds
  BY DEF Kinds
<1>3. ASSUME NEW t \in Thread, Application(t) PROVE Kinds
  BY <1>1, <1>2, <1>3, IdleQuiet, Wait4CompleteIdles, AccessIdles DEF Application
<1>4. ASSUME NEW t \in Thread, ProcessUserReq(t)
      PROVE Kinds \/ (SearchMiss(t) /\ \E f \in Frame, p \in Page : Takes(t, f, p)) \/ (\E b : Begins(t, b))
  BY <1>1, <1>2, <1>4, SearchHitQuiet, SearchMissTakes, SearchNullQuiet, ClassifyQuiet, WriteDirtyPageBegins, MergeForwardKinds,
     MergeBackwardKinds, WaitOldDirtyQuiet, UseWriteKinds, UseReadQuiet, FlushBatchQuiet, ReturnIdles, IdleQuiet DEF ProcessUserReq
<1>5. ASSUME NEW t \in Thread, ProcessAllRequests(t) PROVE Kinds \/ (\E io, b : PageDone(t, io, b))
  BY <1>1, <1>2, <1>5, DiskCompletionDone, HandlePendingKinds, CachedReqKinds, CompletedReqQuiet, NextPhaseIdles, WakeIdles, IdleQuiet DEF ProcessAllRequests
<1>6. ASSUME NEW io \in flight, Serve(io) PROVE Serves(io)
  BY <1>6, ServeServes
<1> QED BY <1>3, <1>4, <1>5, <1>6 DEF Next

LEMMA DataStep == ASSUME ~Voter, IInv, DataInv, [Next]_vars PROVE DataInv'
<1>1. TypeOK
  BY Parts
<1>2. CASE Next
  <2>1. CASE Kinds
    BY <1>1, <2>1, QuietData, WroteData DEF Kinds
  <2>2. ASSUME NEW t \in Thread, NEW f \in Frame, NEW p \in Page, Takes(t, f, p) PROVE DataInv'
    BY <2>2, TakesData
  <2>3. ASSUME NEW t \in Thread, NEW b, Begins(t, b) PROVE DataInv'
    BY <1>1, <2>3, BeginsData
  <2>4. ASSUME NEW t \in Thread, NEW io, NEW b, PageDone(t, io, b) PROVE DataInv'
    BY <2>4, DoneData
  <2>5. ASSUME NEW io, Serves(io) PROVE DataInv'
    BY <2>5, ServesData
  <2> QED BY <1>2, <2>1, <2>2, <2>3, <2>4, <2>5, StepKinds
<1>3. CASE UNCHANGED vars
  <2>1. Ios' = Ios /\ Stays
    BY <1>3 DEF vars, Ios, Stays
  <2>2. Quiet
    BY <1>3, <2>1, StaysLike, KeptAll DEF vars, Quiet, Calm, WritesLike, DoneLike
  <2> QED BY <1>1, <2>2, QuietData
<1> QED BY <1>2, <1>3

LEMMA DataInit == Init => IInv /\ DataInv
<1>1. SUFFICES ASSUME Init PROVE DataInv
  BY InitInv
<1>2. \A f \in Frame : ~frame[f].dirty /\ ~frame[f].oldDirty
  BY <1>1 DEF Init, FreeFrame
<1>3. \A t \in Thread : th[t].pc = "user"
  BY <1>1 DEF Init, IdleThread
<1>4. Ios = {}
  BY <1>1, EmptySet DEF Init, Ios
<1> QED BY <1>2, <1>3, <1>4 DEF DataInv, DirtyData, OldData, WritesCarry, SmallWrites, Merges

\* The bytes that a write-back takes to the location of a page are the bytes of
\* that page, in a cell that does not vote: a frame given to a new page keeps
\* the old data until they are on disk, and a page merged into the write is the
\* one at that location (write_dirty_page, merge_pages2req).
THEOREM CacheWriteBackCarries == ASSUME ~Voter PROVE Spec => []WriteBackCarriesItsPage
<1>1. Init => IInv /\ DataInv
  BY DataInit
<1>2. IInv /\ DataInv /\ [Next]_vars => (IInv /\ DataInv)'
  BY InvStep, DataStep
<1>3. IInv /\ DataInv => WriteBackCarriesItsPage
  BY DEF DataInv, WritesCarry, Carried, Ios, WriteBackCarriesItsPage
<1> QED BY <1>1, <1>2, <1>3, PTL DEF Spec

-------------------------------------------------------------------------------
(* No write is lost                                                        *)

\* The underlying I/O has answered for buffer b, and the answer has not been taken.
Finished(op, b) == \E t \in Thread : \E io : Answered(t, io) /\ io.op = op /\ b \in io.bufs

\* The two parts of NoLostWrite.
Reflected(p) == disk[p] \/ \E f \in Frame : /\ frame[f].dataOf = p /\ frame[f].fresh
                                            /\ frame[f].dirty \/ frame[f].oldDirty
ReadyFresh == \A f \in Frame : frame[f].ready /\ frame[f].id \in Page \ raced => frame[f].fresh

\* A ready frame holds its page; so does one that was read and waits for the answer.
ReadyData == \A f \in Frame : frame[f].ready => frame[f].dataOf = frame[f].id
ReadsFill == \A b \in Frame \X Page : Finished("read", b) =>
                /\ frame[b[1]].dataOf = b[2] /\ frame[b[1]].id = b[2]
                /\ b[2] \in raced \/ frame[b[1]].fresh
\* Old data reflect every write, unless the page was fetched again; a write-back that is done took them to the disk.
OldRaced == \A f, g \in Frame : frame[g].oldDirty /\ frame[f].id = frame[g].dataOf => frame[g].dataOf \in raced
OldFresh == \A g \in Frame : frame[g].oldDirty /\ frame[g].dataOf \notin raced => frame[g].fresh
WritesDone == \A b \in Frame \X Page : Finished("write", b) => b[2] \in raced \/ disk[b[2]]

LostInv ==
    /\ (\A p \in Page \ raced : Reflected(p)) /\ ReadyFresh /\ ReadyData
    /\ ReadsFill /\ OldRaced /\ OldFresh /\ WritesDone

LEMMA LostForm == ASSUME TypeOK, LostInv PROVE NoLostWrite
<1>1. \A p \in Page \ raced : Reflected(p)
  BY DEF LostInv
<1>2. \A p \in Page \ raced : \A f \in FramesOf(p) : frame[f].ready => frame[f].fresh
  BY DEF LostInv, ReadyFresh, FramesOf
<1> QED BY <1>1, <1>2 DEF NoLostWrite, Reflected

LEMMA StillLost == ASSUME LostInv, Still, DoneLike PROVE LostInv'
<1>1. \A op, b : Finished(op, b)' => Finished(op, b)
  BY DEF Finished, Answered, DoneLike
<1>2. raced' = raced /\ disk' = disk /\ \A f \in Frame : Kept(f)
  BY DEF Still
<1>3. \A p \in Page \ raced' : Reflected(p)'
  BY <1>2 DEF LostInv, Reflected, Kept
<1>4. ReadyFresh' /\ ReadyData'
  BY <1>2 DEF LostInv, ReadyFresh, ReadyData, Kept
<1>5. ReadsFill'
  <2>1. SUFFICES ASSUME NEW b \in Frame \X Page, Finished("read", b)
                 PROVE frame'[b[1]].dataOf = b[2] /\ frame'[b[1]].id = b[2] /\ (b[2] \in raced \/ frame'[b[1]].fresh)
    BY <1>1, <1>2 DEF ReadsFill
  <2>2. b[1] \in Frame
    OBVIOUS
  <2> QED BY <1>2, <2>1, <2>2 DEF LostInv, ReadsFill, Kept
<1>6. OldRaced' /\ OldFresh'
  BY <1>2 DEF LostInv, OldRaced, OldFresh, Kept
<1>7. WritesDone'
  BY <1>1, <1>2 DEF LostInv, WritesDone
<1> QED BY <1>3, <1>4, <1>5, <1>6, <1>7 DEF LostInv

\* Answers are requests to the underlying I/O.
LEMMA FinishedIo == ASSUME TypeOK, NEW op, NEW b, Finished(op, b)
                    PROVE \E io \in Ios : /\ io.op = op /\ b \in io.bufs /\ b \in Frame \X Page /\ Cov(io.bufs, b[1])
                                          /\ \E t \in Thread : Answered(t, io)
<1>1. PICK t, io : t \in Thread /\ Answered(t, io) /\ io.op = op /\ b \in io.bufs
  BY DEF Finished
<1>2. io \in Ios
  BY <1>1 DEF Answered, Ios
<1>3. b \in Frame \X Page
  BY <1>1, <1>2, BufTypes
<1> QED BY <1>1, <1>2, <1>3 DEF Cov

LEMMA WroteLost == ASSUME IInv, ~Voter, ~LargeWrite, DataInv, LostInv, NEW f \in Frame, NEW w, WroteTo(f, w), DoneLike PROVE LostInv'
<1>1. TypeOK /\ OneFrame /\ SingleWrites /\ \A g \in Frame : FlagsAt(g)
  BY Parts
<1>2. PICK p \in Page : p = frame[f].id
  BY DEF WroteTo
<1>3. \A op, b : Finished(op, b)' => Finished(op, b)
  BY DEF Finished, Answered, DoneLike
<1>4. \A g \in Frame : frame'[g].id = frame[g].id /\ frame'[g].oldDirty = frame[g].oldDirty
  BY DEF WroteTo
<1>5. \A g \in Frame \ {f} :
        /\ frame'[g].ready = frame[g].ready /\ frame'[g].dirty = frame[g].dirty /\ frame'[g].dataOf = frame[g].dataOf
        /\ frame'[g].fresh = (frame[g].fresh /\ frame[g].dataOf # p)
  BY <1>2 DEF WroteTo
<1>6. raced' = raced /\ frame'[f].dataOf = p /\ frame'[f].dirty /\ frame'[f].ready /\ ~frame[f].oldDirty
  BY <1>2 DEF WroteTo
<1>7. p \notin raced => frame'[f].fresh
  BY <1>2 DEF WroteTo, LostInv, ReadyFresh, ReadyData
<1>8. \A q \in Page : q # p => disk'[q] = disk[q]
  BY <1>1, <1>2 DEF WroteTo, TypeOK
<1>9. \A q \in Page \ raced' : Reflected(q)'
  <2>1. SUFFICES ASSUME NEW q \in Page \ raced PROVE Reflected(q)'
    BY <1>6
  <2>2. CASE q = p
    BY <1>6, <1>7, <2>1, <2>2 DEF Reflected
  <2>3. CASE q # p
    <3>1. Reflected(q)
      BY <2>1 DEF LostInv
    <3>2. CASE disk[q]
      BY <1>8, <2>3, <3>2 DEF Reflected
    <3>3. ASSUME NEW g \in Frame, frame[g].dataOf = q, frame[g].fresh, frame[g].dirty \/ frame[g].oldDirty PROVE Reflected(q)'
      <4>1. g # f
        BY <1>2, <1>6, <2>3, <3>3 DEF DataInv, DirtyData
      <4>2. frame'[g].dataOf = q /\ frame'[g].fresh /\ (frame'[g].dirty \/ frame'[g].oldDirty)
        BY <1>4, <1>5, <2>3, <3>3, <4>1
      <4> QED BY <4>2 DEF Reflected
    <3> QED BY <3>1, <3>2, <3>3 DEF Reflected
  <2> QED BY <2>2, <2>3
<1>10. \A g \in Frame \ {f} : frame[g].id # p
  BY <1>1, <1>2, NoneApart DEF OneFrame
<1>11. ReadyFresh' /\ ReadyData'
  <2>1. ReadyData'
    BY <1>2, <1>4, <1>5, <1>6 DEF LostInv, ReadyData
  <2>2. ASSUME NEW g \in Frame, frame'[g].ready, frame'[g].id \in Page \ raced' PROVE frame'[g].fresh
    <3>1. CASE g = f
      BY <1>2, <1>4, <1>6, <1>7, <2>2, <3>1
    <3>2. CASE g # f
      <4>1. frame[g].ready /\ frame[g].id \in Page \ raced /\ g \in Frame \ {f}
        BY <1>4, <1>5, <1>6, <2>2, <3>2
      <4>2. frame[g].fresh /\ frame[g].dataOf # p
        BY <1>10, <4>1 DEF LostInv, ReadyData, ReadyFresh
      <4> QED BY <1>5, <4>1, <4>2
    <3> QED BY <3>1, <3>2
  <2> QED BY <2>1, <2>2 DEF ReadyFresh
<1>12. ReadsFill'
  <2>1. SUFFICES ASSUME NEW b \in Frame \X Page, Finished("read", b)
                 PROVE frame'[b[1]].dataOf = b[2] /\ frame'[b[1]].id = b[2] /\ (b[2] \in raced \/ frame'[b[1]].fresh)
    BY <1>3, <1>6 DEF ReadsFill
  <2>2. PICK io \in Ios : io.op = "read" /\ Cov(io.bufs, b[1])
    BY <1>1, <2>1, FinishedIo
  <2>3. b[1] \in Frame /\ ~frame[b[1]].ready /\ frame[b[1]].pending
    BY <1>1, <2>2, ReadCovers DEF FlagsAt, CovBy
  <2>4. b[1] # f
    BY <2>3 DEF WroteTo
  <2>5. frame[b[1]].dataOf = b[2] /\ frame[b[1]].id = b[2] /\ (b[2] \in raced \/ frame[b[1]].fresh)
    BY <2>1 DEF LostInv, ReadsFill
  <2>6. PICK g \in Frame \ {f} : g = b[1]
    BY <2>3, <2>4
  <2>7. frame[g].dataOf = b[2] /\ frame[g].id = b[2] /\ (b[2] \in raced \/ frame[g].fresh)
    BY <2>5, <2>6
  <2>8. frame'[g].dataOf = frame[g].dataOf /\ frame'[g].fresh = (frame[g].fresh /\ frame[g].dataOf # p) /\ frame'[g].id = frame[g].id
    BY <1>4, <1>5
  <2>9. frame[g].dataOf # p
    BY <1>10, <2>7
  <2>10. frame'[g].dataOf = b[2] /\ frame'[g].id = b[2] /\ (b[2] \in raced \/ frame'[g].fresh)
    BY <2>7, <2>8, <2>9
  <2> QED BY ONLY <2>6, <2>10, Zenon
<1>13. OldRaced' /\ OldFresh'
  <2>1. OldRaced'
    BY <1>4, <1>5, <1>6 DEF LostInv, OldRaced
  <2>2. ASSUME NEW g \in Frame, frame'[g].oldDirty, frame'[g].dataOf \notin raced' PROVE frame'[g].fresh
    <3>1. g # f
      BY <1>4, <1>6, <2>2
    <3>2. frame[g].oldDirty /\ frame[g].dataOf \notin raced
      BY <1>4, <1>5, <1>6, <2>2, <3>1
    <3>3. frame[g].fresh
      BY <3>2 DEF LostInv, OldFresh
    <3>4. frame[g].dataOf # p
      BY <1>2, <3>2 DEF LostInv, OldRaced
    <3> QED BY <1>5, <3>1, <3>3, <3>4
  <2> QED BY <2>1, <2>2 DEF OldFresh
<1>14. WritesDone'
  <2>1. SUFFICES ASSUME NEW b \in Frame \X Page, Finished("write", b), b[2] \notin raced PROVE disk'[b[2]]
    BY <1>3, <1>6 DEF WritesDone
  <2>2. PICK io \in Ios : io.op = "write" /\ b \in io.bufs
    BY <1>1, <2>1, FinishedIo
  <2>3. frame[b[1]].oldDirty /\ frame[b[1]].dataOf = b[2] /\ b[1] \in Frame
    BY <1>1, <2>2 DEF DataInv, SmallWrites, SingleWrites, WritesCarry, Carried
  <2>4. b[2] # p
    BY <1>2, <2>1, <2>3 DEF LostInv, OldRaced
  <2> QED BY <1>8, <2>1, <2>4 DEF LostInv, WritesDone
<1> QED BY <1>9, <1>11, <1>12, <1>13, <1>14 DEF LostInv


LEMMA TakesLost == ASSUME IInv, ~Voter, DataInv, LostInv, NEW t \in Thread, NEW f \in Frame, NEW p, Takes(t, f, p) PROVE LostInv'
<1>1. TypeOK /\ OneFrame /\ FlagsAt(f)
  BY Parts
<1>2. /\ p \in Page /\ (\A g \in Frame : frame[g].id # p) /\ frame'[f].id = p /\ ~frame'[f].ready
      /\ ~frame'[f].dirty /\ frame'[f].oldDirty = frame[f].dirty
      /\ frame'[f].dataOf = frame[f].dataOf /\ frame'[f].fresh = frame[f].fresh
      /\ (\A g \in Frame \ {f} : Kept(g)) /\ disk' = disk /\ DoneLike
  BY DEF Takes
<1>3. /\ ~frame[f].oldDirty /\ (frame[f].dirty => frame[f].id \in Page) /\ \A io \in Ios : ~Cov(io.bufs, f)
  BY TakesUncovered DEF Takes, Cov
<1>4. raced \subseteq raced' /\ \A g \in Frame : frame[g].oldDirty /\ frame[g].dataOf = p => p \in raced'
  BY DEF Takes
<1>5. \A op, b : Finished(op, b)' => Finished(op, b)
  BY <1>2 DEF Finished, Answered, DoneLike
<1>6. \A g \in Frame : /\ frame'[g].dataOf = frame[g].dataOf /\ frame'[g].fresh = frame[g].fresh
                       /\ frame[g].dirty \/ frame[g].oldDirty => frame'[g].dirty \/ frame'[g].oldDirty
  <2>1. ASSUME NEW g \in Frame, g # f PROVE Kept(g)
    BY <1>2, <2>1
  <2> QED BY <1>2, <1>3, <2>1 DEF Kept
<1>7. \A q \in Page \ raced' : Reflected(q)'
  <2>1. SUFFICES ASSUME NEW q \in Page \ raced PROVE Reflected(q)'
    BY <1>4
  <2>2. Reflected(q)
    BY <2>1 DEF LostInv
  <2> QED BY <1>2, <1>6, <2>2 DEF Reflected
<1>8. \A g \in Frame : frame'[g].ready => g # f /\ frame[g].ready /\ frame'[g].id = frame[g].id
  BY <1>2 DEF Kept
<1>9. ReadyFresh' /\ ReadyData'
  <2>1. ReadyFresh'
    BY <1>4, <1>6, <1>8 DEF LostInv, ReadyFresh
  <2>2. ReadyData'
    BY <1>6, <1>8 DEF LostInv, ReadyData
  <2> QED BY <2>1, <2>2
<1>10. ReadsFill'
  <2>1. SUFFICES ASSUME NEW b \in Frame \X Page, Finished("read", b)
                 PROVE frame'[b[1]].dataOf = b[2] /\ frame'[b[1]].id = b[2] /\ (b[2] \in raced' \/ frame'[b[1]].fresh)
    BY <1>5 DEF ReadsFill
  <2>2. b[1] \in Frame /\ b[1] # f
    BY <1>1, <1>3, <2>1, FinishedIo
  <2>3. frame[b[1]].dataOf = b[2] /\ frame[b[1]].id = b[2] /\ (b[2] \in raced \/ frame[b[1]].fresh)
    BY <2>1 DEF LostInv, ReadsFill
  <2>4. Kept(b[1])
    BY <1>2, <2>2
  <2> QED BY <1>4, <2>3, <2>4 DEF Kept
<1>11. frame[f].dirty => frame[f].dataOf = frame[f].id /\ frame[f].ready
  BY <1>1 DEF DataInv, DirtyData, FlagsAt
<1>12. OldRaced'
  <2>1. SUFFICES ASSUME NEW h \in Frame, NEW g \in Frame, frame'[g].oldDirty, frame'[h].id = frame[g].dataOf
                 PROVE frame[g].dataOf \in raced'
    BY <1>6 DEF OldRaced
  <2>2. CASE g = f
    <3>1. frame[f].dirty
      BY <1>2, <2>1, <2>2
    <3>2. frame[f].dataOf = frame[f].id /\ frame[f].id \in Page
      BY <1>3, <1>11, <3>1
    <3>3. CASE h = f
      BY <1>2, <2>1, <2>2, <3>2, <3>3
    <3>4. CASE h # f
      <4>1. Kept(h)
        BY <1>2, <3>4
      <4>2. frame[h].id = frame[f].id
        BY <2>1, <2>2, <3>2, <4>1 DEF Kept
      <4> QED BY <1>1, <3>2, <3>4, <4>2, NoneApart DEF OneFrame
    <3> QED BY <3>3, <3>4
  <2>3. CASE g # f
    <3>1. frame[g].oldDirty
      BY <1>2, <2>1, <2>3 DEF Kept
    <3>2. CASE h = f
      BY <1>2, <1>4, <2>1, <3>1, <3>2
    <3>3. CASE h # f
      <4>1. frame[h].id = frame[g].dataOf
        BY <1>2, <2>1, <3>3 DEF Kept
      <4> QED BY <1>4, <3>1, <4>1 DEF LostInv, OldRaced
    <3> QED BY <3>2, <3>3
  <2> QED BY <2>2, <2>3
<1>13. OldFresh'
  <2>1. SUFFICES ASSUME NEW g \in Frame, frame'[g].oldDirty, frame[g].dataOf \notin raced PROVE frame[g].fresh
    BY <1>4, <1>6 DEF OldFresh
  <2>2. CASE g = f
    BY <1>2, <1>3, <1>11, <2>1, <2>2 DEF LostInv, ReadyFresh
  <2>3. CASE g # f
    BY <1>2, <2>1, <2>3 DEF LostInv, OldFresh, Kept
  <2> QED BY <2>2, <2>3
<1>14. WritesDone'
  BY <1>2, <1>4, <1>5 DEF LostInv, WritesDone
<1> QED BY <1>7, <1>9, <1>10, <1>12, <1>13, <1>14 DEF LostInv

LEMMA ServesLost == ASSUME IInv, ~Voter, ~LargeWrite, DataInv, LostInv, ReadsOwnPage, NEW io, Serves(io) PROVE LostInv'
<1>1. TypeOK /\ OneFrame /\ SingleWrites /\ IOApart /\ io \in Ios /\ io \in flight /\ raced' = raced
  BY Parts DEF Serves, Ios
<1>2. ASSUME NEW op, NEW b, Finished(op, b)'
      PROVE (io.op = op /\ b \in io.bufs) \/ (Finished(op, b) /\ (b \in Frame \X Page => ~Cov(io.bufs, b[1])))
  <2>1. PICK u, jo : u \in Thread /\ Answered(u, jo)' /\ jo.op = op /\ b \in jo.bufs
    BY <1>2 DEF Finished
  <2>2. CASE jo = io
    BY <2>1, <2>2
  <2>3. CASE Answered(u, jo)
    <3>1. jo \in Ios /\ jo # io
      BY <1>1, <2>1, <2>3 DEF Answered, Ios, IOApart
    <3>2. b \in Frame \X Page => Cov(jo.bufs, b[1]) /\ b[1] \in Frame
      BY <2>1 DEF Cov
    <3> QED BY <1>1, <2>1, <2>3, <3>1, <3>2 DEF Finished, IOApart
  <2> QED BY <2>1, <2>2, <2>3 DEF Serves
<1>3. CASE ReadServed(io)
  <2>1. io.op = "read" /\ disk' = disk
    BY <1>3 DEF ReadServed
  <2>2. \A g \in Frame : frame'[g].ready = frame[g].ready /\ frame'[g].dirty = frame[g].dirty
                         /\ frame'[g].oldDirty = frame[g].oldDirty /\ frame'[g].id = frame[g].id
    BY <1>3 DEF ReadServed
  <2>3. \A g \in Frame : frame[g].ready \/ frame[g].dirty \/ frame[g].oldDirty => ~Cov(io.bufs, g)
    BY <1>1, <2>1, ReadCovers
  <2>4. \A g \in Frame : ~Cov(io.bufs, g) => frame'[g].dataOf = frame[g].dataOf /\ frame'[g].fresh = frame[g].fresh
    BY <1>3 DEF ReadServed, Kept
  <2>5. \A q \in Page \ raced' : Reflected(q)'
    <3>1. SUFFICES ASSUME NEW q \in Page \ raced PROVE Reflected(q)'
      BY <1>1
    <3>2. Reflected(q)
      BY <3>1 DEF LostInv
    <3> QED BY <2>1, <2>2, <2>3, <2>4, <3>2 DEF Reflected
  <2>6. ReadyFresh'
    BY <1>1, <2>2, <2>3, <2>4 DEF LostInv, ReadyFresh
  <2>7. ReadyData'
    BY <2>2, <2>3, <2>4 DEF LostInv, ReadyData
  <2>8. OldRaced'
    BY <1>1, <2>2, <2>3, <2>4 DEF LostInv, OldRaced
  <2>9. OldFresh'
    BY <1>1, <2>2, <2>3, <2>4 DEF LostInv, OldFresh
  <2>10. WritesDone'
    BY <1>1, <1>2, <2>1 DEF LostInv, WritesDone
  <2>11. ASSUME NEW b \in io.bufs PROVE b[1] \in Frame /\ b[2] \in Page /\ frame[b[1]].id = b[2] /\ (b[2] \notin raced => disk[b[2]])
    <3>1. b[1] \in Frame /\ b[2] \in Page /\ frame[b[1]].id = b[2] /\ Cov(io.bufs, b[1])
      BY <1>1, <2>1, <2>11, BufTypes DEF ReadsOwnPage, Cov
    <3>2. SUFFICES ASSUME b[2] \notin raced, ~disk[b[2]] PROVE FALSE
      BY <3>1
    <3>3. Reflected(b[2])
      BY <3>1, <3>2 DEF LostInv
    <3>4. PICK g \in Frame : frame[g].dataOf = b[2] /\ (frame[g].dirty \/ frame[g].oldDirty)
      BY <3>2, <3>3 DEF Reflected
    <3>5. CASE frame[g].dirty
      <4>1. frame[g].id = b[2]
        BY <3>4, <3>5 DEF DataInv, DirtyData
      <4>2. g = b[1]
        BY <1>1, <3>1, <4>1, NoneApart DEF OneFrame
      <4> QED BY <2>3, <3>1, <3>5, <4>2
    <3>6. CASE frame[g].oldDirty
      BY <3>1, <3>2, <3>4, <3>6 DEF LostInv, OldRaced
    <3> QED BY <3>4, <3>5, <3>6
  <2>12. ReadsFill'
    <3>1. SUFFICES ASSUME NEW b \in Frame \X Page, Finished("read", b)'
                   PROVE frame'[b[1]].dataOf = b[2] /\ frame'[b[1]].id = b[2] /\ (b[2] \in raced \/ frame'[b[1]].fresh)
      BY <1>1 DEF ReadsFill
    <3>2. CASE b \in io.bufs
      <4>1. frame'[b[1]].dataOf = b[2] /\ frame'[b[1]].fresh = disk[b[2]]
        BY <1>3, <3>2 DEF ReadServed
      <4> QED BY <2>2, <2>11, <3>2, <4>1
    <3>3. CASE Finished("read", b) /\ ~Cov(io.bufs, b[1])
      <4>1. frame[b[1]].dataOf = b[2] /\ frame[b[1]].id = b[2] /\ (b[2] \in raced \/ frame[b[1]].fresh) /\ b[1] \in Frame
        BY <3>3 DEF LostInv, ReadsFill
      <4> QED BY <2>2, <2>4, <3>3, <4>1
    <3> QED BY <1>2, <3>1, <3>2, <3>3
  <2> QED BY <2>5, <2>6, <2>7, <2>8, <2>9, <2>10, <2>12 DEF LostInv
<1>4. CASE WriteServed(io)
  <2>1. io.op = "write" /\ \A g \in Frame : Kept(g)
    BY <1>4 DEF WriteServed
  <2>2. PICK b \in io.bufs : io.bufs = {b} /\ b[1] \in Frame /\ b[2] \in Page /\ frame[b[1]].oldDirty /\ frame[b[1]].dataOf = b[2]
    <3>1. PICK b \in io.bufs : TRUE
      BY <1>1 DEF IOApart
    <3>2. io.bufs = {b} /\ ~io.multi /\ Carried(b)
      BY <1>1, <2>1 DEF DataInv, SmallWrites, WritesCarry
    <3> QED BY <1>1, <2>1, <3>2, BufTypes DEF SingleWrites, Carried
  <2>3. b[2] \notin raced => frame[b[1]].fresh
    BY <2>2 DEF LostInv, OldFresh
  <2>4. disk' = [p \in Page |-> IF \E c \in io.bufs : c[2] = p THEN \E c \in io.bufs : c[2] = p /\ frame[c[1]].fresh ELSE disk[p]]
    BY <1>4 DEF WriteServed
  <2>5. (\A q \in Page : q # b[2] => disk'[q] = disk[q]) /\ (b[2] \notin raced => disk'[b[2]])
    BY <2>2, <2>3, <2>4
  <2>6. \A q \in Page \ raced' : Reflected(q)'
    <3>1. SUFFICES ASSUME NEW q \in Page \ raced PROVE Reflected(q)'
      BY <1>1
    <3>2. Reflected(q)
      BY <3>1 DEF LostInv
    <3>3. CASE q = b[2]
      BY <2>5, <3>1, <3>3 DEF Reflected
    <3>4. CASE q # b[2]
      BY <2>1, <2>5, <3>2, <3>4 DEF Reflected, Kept
    <3> QED BY <3>3, <3>4
  <2>7. ReadyFresh' /\ ReadyData'
    BY <1>1, <2>1 DEF LostInv, ReadyFresh, ReadyData, Kept
  <2>8. OldRaced' /\ OldFresh'
    BY <1>1, <2>1 DEF LostInv, OldRaced, OldFresh, Kept
  <2>9. ReadsFill'
    <3>1. SUFFICES ASSUME NEW c \in Frame \X Page, Finished("read", c)'
                   PROVE frame'[c[1]].dataOf = c[2] /\ frame'[c[1]].id = c[2] /\ (c[2] \in raced \/ frame'[c[1]].fresh)
      BY <1>1 DEF ReadsFill
    <3>2. Finished("read", c) /\ c[1] \in Frame
      BY <1>2, <2>1, <3>1
    <3> QED BY <2>1, <3>2 DEF LostInv, ReadsFill, Kept
  <2>10. WritesDone'
    <3>1. SUFFICES ASSUME NEW c \in Frame \X Page, Finished("write", c)', c[2] \notin raced PROVE disk'[c[2]]
      BY <1>1 DEF WritesDone
    <3>2. CASE c[2] = b[2]
      BY <2>5, <3>1, <3>2
    <3>3. CASE c[2] # b[2]
      <4>1. Finished("write", c)
        BY <1>2, <2>2, <3>1, <3>3
      <4> QED BY <2>5, <3>1, <3>3, <4>1 DEF LostInv, WritesDone
    <3> QED BY <3>2, <3>3
  <2> QED BY <2>6, <2>7, <2>8, <2>9, <2>10 DEF LostInv
<1> QED BY <1>3, <1>4 DEF Serves

LEMMA DoneLost == ASSUME IInv, ~LargeWrite, DataInv, LostInv, NEW t \in Thread, NEW io, NEW b, PageDone(t, io, b) PROVE LostInv'
<1>1. /\ Answered(t, io) /\ b \in io.bufs /\ b \in Frame \X Page /\ b[1] \in Frame /\ b[2] \in Page /\ disk' = disk /\ raced' = raced
  BY DEF PageDone
<1>2. io \in Ios /\ TypeOK /\ SingleWrites /\ Finished(io.op, b)
  BY <1>1, Parts DEF Answered, Ios, Finished
<1>3. io.op = "write" => ~io.multi /\ frame[b[1]].dataOf = b[2]
  BY <1>1, <1>2 DEF DataInv, SmallWrites, WritesCarry, Carried
<1>4. \A op, c : Finished(op, c)' => Finished(op, c)
  BY DEF PageDone, Finished
<1>5. \A g \in Frame : frame'[g].id = frame[g].id /\ frame'[g].dataOf = frame[g].dataOf /\ frame'[g].fresh = frame[g].fresh
  <2>1. ASSUME NEW g \in Frame, g # b[1] PROVE Kept(g)
    BY <2>1 DEF PageDone
  <2> QED BY <2>1 DEF PageDone, Kept
<1>6. \A g \in Frame : /\ frame'[g].ready => frame[g].ready \/ (g = b[1] /\ io.op = "read")
                       /\ frame'[g].oldDirty => frame[g].oldDirty
                       /\ frame[g].dirty => frame'[g].dirty
                       /\ frame[g].oldDirty => frame'[g].oldDirty \/ (g = b[1] /\ io.op = "write")
  <2>1. ASSUME NEW g \in Frame, g # b[1] PROVE Kept(g)
    BY <2>1 DEF PageDone
  <2>2. io.op = "read" \/ io.op = "write"
    BY <1>2, IosTyped DEF IO
  <2>3. /\ frame'[b[1]].ready = (frame[b[1]].ready \/ io.op = "read")
        /\ frame'[b[1]].dirty = (frame[b[1]].dirty /\ ~(io.op = "write" /\ io.multi))
        /\ frame'[b[1]].oldDirty = (frame[b[1]].oldDirty /\ io.op = "read")
    BY DEF PageDone
  <2> QED BY <1>3, <2>1, <2>2, <2>3 DEF Kept
<1>7. io.op = "read" => frame[b[1]].dataOf = frame[b[1]].id /\ (frame[b[1]].id \in raced \/ frame[b[1]].fresh)
  BY <1>1, <1>2 DEF LostInv, ReadsFill
<1>8. io.op = "write" => b[2] \in raced \/ disk[b[2]]
  BY <1>1, <1>2 DEF LostInv, WritesDone
<1>9. \A q \in Page \ raced' : Reflected(q)'
  <2>1. SUFFICES ASSUME NEW q \in Page \ raced PROVE Reflected(q)'
    BY <1>1
  <2>2. Reflected(q)
    BY <2>1 DEF LostInv
  <2>3. CASE disk[q]
    BY <1>1, <2>3 DEF Reflected
  <2>4. ASSUME NEW g \in Frame, frame[g].dataOf = q, frame[g].fresh, frame[g].dirty \/ frame[g].oldDirty PROVE Reflected(q)'
    <3>1. CASE frame'[g].dirty \/ frame'[g].oldDirty
      BY <1>5, <2>4, <3>1 DEF Reflected
    <3>2. CASE g = b[1] /\ io.op = "write"
      BY <1>1, <1>3, <1>8, <2>1, <2>4, <3>2 DEF Reflected
    <3> QED BY <1>6, <2>4, <3>1, <3>2
  <2> QED BY <2>2, <2>3, <2>4 DEF Reflected
<1>10. ReadyFresh'
  BY <1>1, <1>5, <1>6, <1>7 DEF LostInv, ReadyFresh
<1>11. ReadyData'
  BY <1>5, <1>6, <1>7 DEF LostInv, ReadyData
<1>12. ReadsFill'
  BY <1>1, <1>4, <1>5 DEF LostInv, ReadsFill
<1>13. OldRaced' /\ OldFresh'
  BY <1>1, <1>5, <1>6 DEF LostInv, OldRaced, OldFresh
<1>14. WritesDone'
  BY <1>1, <1>4 DEF LostInv, WritesDone
<1> QED BY <1>9, <1>10, <1>11, <1>12, <1>13, <1>14 DEF LostInv


-------------------------------------------------------------------------------
(* The pages that are read                                                 *)

\* Buffer b is read, or will be; the frame is that of the page.
Reads(b) ==
    \/ \E io \in Ios : io.op = "read" /\ b \in io.bufs
    \/ \E t \in Thread : th[t].pc = "flush" /\ b \in th[t].out
Own(b) == b[1] \in Frame /\ frame[b[1]].id = b[2]
OwnInv == \A b : Reads(b) => Own(b)

\* No read begins, or those that begin are of the page in the frame.
NoReads == \A b : Reads(b)' => Reads(b)
OwnReads == \A b : Reads(b)' => Reads(b) \/ Own(b)

LEMMA LocalReads == ASSUME NEW t \in Thread, \A u \in Thread \ {t} : th'[u] = th[u], \A u \in Thread : que'[u].disk = que[u].disk,
                           th'[t].pc # "flush" \/ th'[t].out = {}, \A io \in flight' : io.op = "read" => io \in flight
                    PROVE NoReads
<1>1. SUFFICES ASSUME NEW b, Reads(b)' PROVE Reads(b)
  BY DEF NoReads
<1>2. ASSUME NEW io \in Ios', io.op = "read", b \in io.bufs PROVE Reads(b)
  BY <1>2 DEF Ios, Reads
<1>3. ASSUME NEW u \in Thread, th'[u].pc = "flush", b \in th'[u].out PROVE Reads(b)
  <2>1. u # t
    BY <1>3
  <2> QED BY <1>3, <2>1 DEF Reads
<1> QED BY <1>1, <1>2, <1>3 DEF Reads

LEMMA IdleReads == ASSUME TypeOK, NEW t \in Thread, Idles(t) PROVE NoReads
<1>1. th \in [Thread -> ThRec]
  BY TypesForm
<1>2. flight' = flight /\ \A u \in Thread : que'[u].disk = que[u].disk
  BY DEF Idles
<1>3. th'[t].pc # "flush" /\ \A u \in Thread \ {t} : th'[u] = th[u]
  BY <1>1 DEF Idles, Idle
<1> QED BY <1>2, <1>3, LocalReads

\* The search for the page.
LEMMA SearchReads == ASSUME IInv, NEW t \in Thread, SearchHit(t) \/ SearchMiss(t) \/ SearchNull(t) PROVE NoReads
<1>1. TypeOK /\ th[t] \in ThRec /\ th \in [Thread -> ThRec]
  BY Parts, Records, TypesForm
<1>2. th[t].pc = "search" /\ UNCHANGED <<flight, que>>
  BY Zenon DEF SearchHit, SearchMiss, SearchNull
<1>3. th[t].out = {}
  BY <1>2, Searching
<1>4. \/ \E f, o : Found(t, f, o)
      \/ th' = [th EXCEPT ![t] = IF th[t].batch = <<>> THEN [th[t] EXCEPT !.pc = "ret"] ELSE [th[t] EXCEPT !.pc = "flush", !.cont = "null"]]
  BY Zenon DEF SearchHit, SearchMiss, SearchNull, Found
<1>5. th'[t].pc # "flush" \/ th'[t].out = {}
  <2>1. ASSUME NEW f, NEW o, Found(t, f, o) PROVE th'[t].pc = "got"
    BY <1>1, <2>1 DEF Found, ThRec
  <2>2. \/ \E f, o : Found(t, f, o)
        \/ th'[t] = [th[t] EXCEPT !.pc = "ret"]
        \/ th'[t] = [th[t] EXCEPT !.pc = "flush", !.cont = "null"]
    BY <1>1, <1>4
  <2>3. th[t] \in ThRec
    BY <1>1
  <2>4. [th[t] EXCEPT !.pc = "ret"].pc = "ret" /\ [th[t] EXCEPT !.pc = "flush", !.cont = "null"].out = th[t].out
    BY <2>3 DEF ThRec
  <2> QED BY <1>3, <2>1, <2>2, <2>4
<1>6. \A u \in Thread \ {t} : th'[u] = th[u]
  BY <1>1, <1>4 DEF Found
<1> QED BY <1>2, <1>5, <1>6, LocalReads

LEMMA ClassifyReads == ASSUME IInv, NEW t \in Thread, Classify(t) PROVE NoReads
<1>1. TypeOK /\ th[t] \in ThRec /\ th \in [Thread -> ThRec]
  BY Parts, Records, TypesForm
<1>2. th[t].pc = "got" /\ flight' = flight
  BY Zenon DEF Classify
<1>3. th[t].out = {}
  BY <1>2, HasPage
<1>4. \/ th' = [th EXCEPT ![t] = [th[t] EXCEPT !.proc = None, !.cur = None, !.pc = "ret"]]
      \/ th' = [th EXCEPT ![t] = [th[t] EXCEPT !.pc = "use"]]
      \/ th' = [th EXCEPT ![t] = [th[t] EXCEPT !.pc = "old"]]
      \/ th' = [th EXCEPT ![t] = [th[t] EXCEPT !.pc = "flush", !.cont = "old"]]
  BY DEF Classify
<1>5. th'[t].out = {}
  <2>1. \/ th'[t] = [th[t] EXCEPT !.proc = None, !.cur = None, !.pc = "ret"]
        \/ th'[t] = [th[t] EXCEPT !.pc = "use"]
        \/ th'[t] = [th[t] EXCEPT !.pc = "old"]
        \/ th'[t] = [th[t] EXCEPT !.pc = "flush", !.cont = "old"]
    BY <1>1, <1>4
  <2>2. th[t] \in ThRec
    BY <1>1
  <2> QED BY <1>3, <2>1, <2>2 DEF ThRec
<1>6. \A u \in Thread \ {t} : th'[u] = th[u]
  BY <1>1, <1>4
<1>7. \A u \in Thread : que'[u].disk = que[u].disk
  BY <1>1, ClassifyQuiet DEF Quiet, Calm, DoneLike
<1> QED BY <1>2, <1>5, <1>6, <1>7, LocalReads

\* The thread goes on in its loop.
LEMMA LoopedReads == ASSUME TypeOK, NEW t \in Thread, NEW me \in ThRec, me.proc \in Req, Looped(t, me), me.out = {}
                     PROVE (\A u \in Thread \ {t} : th'[u] = th[u]) /\ th'[t].out = {}
<1>1. th \in [Thread -> ThRec]
  BY TypesForm
<1>2. th'[t] = Loop(me) /\ \A u \in Thread \ {t} : th'[u] = th[u]
  BY <1>1 DEF Looped
<1> QED BY <1>2, LoopForm

LEMMA WaitOldDirtyReads == ASSUME IInv, NEW t \in Thread, WaitOldDirty(t) PROVE NoReads
<1>1. TypeOK /\ th[t] \in ThRec /\ th \in [Thread -> ThRec]
  BY Parts, Records, TypesForm
<1>2. UNCHANGED <<flight, que>> /\ th[t].pc = "old"
  BY Zenon DEF WaitOldDirty
<1>3. th[t].out = {} /\ th[t].proc \in Req
  BY <1>2, HasPage
<1>4. Looped(t, th[t]) \/ th' = [th EXCEPT ![t].pc = "use"]
  BY DEF WaitOldDirty, Looped
<1>5. CASE Looped(t, th[t])
  BY <1>1, <1>2, <1>3, <1>5, LoopedReads, LocalReads
<1>6. CASE th' = [th EXCEPT ![t].pc = "use"]
  <2>1. (\A u \in Thread \ {t} : th'[u] = th[u]) /\ th'[t].pc = "use"
    BY <1>1, <1>6 DEF ThRec
  <2> QED BY <1>2, <2>1, LocalReads
<1> QED BY <1>4, <1>5, <1>6

LEMMA UseReadReads == ASSUME IInv, NEW t \in Thread, UseRead(t) PROVE NoReads
<1>1. TypeOK /\ th[t] \in ThRec /\ th \in [Thread -> ThRec] /\ th[t].batch \in Seq(Frame)
  BY Parts, Records, TypesForm
<1> DEFINE b == Append(th[t].batch, th[t].cur)
           me == [th[t] EXCEPT !.batch = b]
<1>2. me.pc = "use" /\ UNCHANGED <<flight, que>> /\ (Flushing(t, me) \/ Looped(t, me))
  BY Zenon DEF UseRead, Looped, Flushing
<1>3. th[t].pc = "use"
  BY <1>1, <1>2 DEF ThRec
<1>4. PICK f \in Frame, r \in Req : f = th[t].cur /\ r = th[t].proc /\ th[t].out = {}
  BY <1>3, HasPage
<1>5. b \in Seq(Frame)
  BY <1>1, <1>4, SeqAppend
<1> HIDE DEF b
<1>6. me \in ThRec /\ me.proc = r /\ me.out = {}
  BY <1>1, <1>4, <1>5, BatchForm
<1> HIDE DEF me
<1>7. CASE Flushing(t, me)
  <2>1. (\A u \in Thread \ {t} : th'[u] = th[u]) /\ th'[t] = [me EXCEPT !.pc = "flush", !.cont = "loop", !.cur = None]
    BY <1>1, <1>7 DEF Flushing
  <2>2. th'[t].out = {}
    <3>1. PICK n : n = [me EXCEPT !.pc = "flush", !.cont = "loop", !.cur = None]
      OBVIOUS
    <3>2. n.out = me.out
      BY ONLY <1>6, <3>1, FlushForm, Zenon
    <3>3. th'[t] = n
      BY <2>1, <3>1, Zenon
    <3> QED BY ONLY <1>6, <3>2, <3>3, Zenon
  <2>3. \A u \in Thread \ {t} : th'[u] = th[u]
    BY <2>1
  <2>4. (\A u \in Thread : que'[u].disk = que[u].disk) /\ \A io \in flight' : io.op = "read" => io \in flight
    BY <1>2
  <2> QED BY Zenon, <2>2, <2>3, <2>4, LocalReads
<1>8. CASE Looped(t, me)
  BY <1>1, <1>2, <1>6, <1>8, LoopedReads, LocalReads
<1> QED BY <1>2, <1>7, <1>8

\* A write-back is no read.
LEMMA WriteDirtyPageReads == ASSUME IInv, NEW t \in Thread, WriteDirtyPage(t) PROVE NoReads
<1>1. TypeOK /\ th[t] \in ThRec /\ th \in [Thread -> ThRec]
  BY Parts, Records, TypesForm
<1>2. th[t].pc = "old" /\ que' = que
  BY Zenon DEF WriteDirtyPage
<1>3. th[t].out = {} /\ th[t].proc \in Req
  BY <1>2, HasPage
<1>4. WriteBackIO(t).op # "read"
  BY DEF WriteBackIO, Request
<1>5. CASE LargeWrite
  <2>1. /\ flight' = flight
        /\ th' = [th EXCEPT ![t] = [th[t] EXCEPT !.pc = "mergeF", !.out = WriteBackIO(t).bufs, !.mp = th[t].old + 1, !.cur = None]]
    BY <1>5 DEF WriteDirtyPage
  <2>2. (\A u \in Thread \ {t} : th'[u] = th[u]) /\ th'[t].pc = "mergeF"
    <3>1. th'[t] = [th[t] EXCEPT !.pc = "mergeF", !.out = WriteBackIO(t).bufs, !.mp = th[t].old + 1, !.cur = None]
      BY <1>1, <2>1
    <3>2. th[t] \in ThRec /\ \A u \in Thread \ {t} : th'[u] = th[u]
      BY <1>1, <2>1
    <3> QED BY <3>1, <3>2 DEF ThRec
  <2> QED BY <1>2, <2>1, <2>2, LocalReads
<1>6. CASE ~LargeWrite
  <2>1. flight' = flight \cup {WriteBackIO(t)} /\ Looped(t, th[t])
    BY <1>6 DEF WriteDirtyPage, Send, Looped
  <2>2. (\A u \in Thread \ {t} : th'[u] = th[u]) /\ th'[t].out = {}
    BY <1>1, <1>3, <2>1, LoopedReads
  <2> QED BY <1>2, <1>4, <2>1, <2>2, LocalReads
<1> QED BY <1>5, <1>6

LEMMA MergeReads == ASSUME IInv, NEW t \in Thread, MergeForward(t) \/ MergeBackward(t) PROVE NoReads
<1>1. TypeOK /\ th[t] \in ThRec /\ th \in [Thread -> ThRec]
  BY Parts, Records, TypesForm
<1>2. th[t].pc \in {"mergeF", "mergeB"} /\ que' = que
  BY Zenon DEF MergeForward, MergeBackward
<1>3. \/ flight' = flight /\ \E o, m : th' = [th EXCEPT ![t] = [th[t] EXCEPT !.out = o, !.mp = m]]
      \/ flight' = flight /\ th' = [th EXCEPT ![t] = [th[t] EXCEPT !.pc = "mergeB", !.mp = th[t].old]]
      \/ flight' = flight \cup {Request(t, "write", th[t].out)} /\ Looped(t, [th[t] EXCEPT !.out = {}])
  BY Zenon DEF MergeForward, MergeBackward, Send, Looped
<1>4. ASSUME NEW o, NEW m, flight' = flight, th' = [th EXCEPT ![t] = [th[t] EXCEPT !.out = o, !.mp = m]] PROVE NoReads
  <2>1. (\A u \in Thread \ {t} : th'[u] = th[u]) /\ th'[t] = [th[t] EXCEPT !.out = o, !.mp = m]
    BY <1>1, <1>4
  <2>2. th'[t].pc = th[t].pc
    BY <1>1, <2>1 DEF ThRec
  <2> QED BY <1>2, <1>4, <2>1, <2>2, LocalReads
<1>5. CASE flight' = flight /\ th' = [th EXCEPT ![t] = [th[t] EXCEPT !.pc = "mergeB", !.mp = th[t].old]]
  <2>1. (\A u \in Thread \ {t} : th'[u] = th[u]) /\ th'[t] = [th[t] EXCEPT !.pc = "mergeB", !.mp = th[t].old]
    BY <1>1, <1>5
  <2>2. th'[t].pc = "mergeB"
    BY <1>1, <2>1 DEF ThRec
  <2> QED BY <1>2, <1>5, <2>1, <2>2, LocalReads
<1>6. CASE flight' = flight \cup {Request(t, "write", th[t].out)} /\ Looped(t, [th[t] EXCEPT !.out = {}])
  <2>1. PICK me \in ThRec : me = [th[t] EXCEPT !.out = {}] /\ me.proc \in Req /\ me.out = {}
    BY <1>1, <1>2, SentForm, Merging
  <2>2. (\A u \in Thread \ {t} : th'[u] = th[u]) /\ th'[t].out = {}
    BY <1>1, <1>6, <2>1, LoopedReads
  <2>3. Request(t, "write", th[t].out).op # "read"
    BY DEF Request
  <2> QED BY <1>2, <1>6, <2>2, <2>3, LocalReads
<1> QED BY <1>3, <1>4, <1>5, <1>6

\* The fast path and the end of a request.
LEMMA CountsReads == ASSUME IInv, NEW t \in Thread, CachedReq(t) \/ CompletedReq(t) PROVE NoReads
<1>1. TypeOK
  BY Parts
<1>2. th[t].pc \in {"cached", "comp"} /\ Counts(t) /\ flight' = flight
  BY Zenon DEF CachedReq, CompletedReq, Counts
<1>3. (\A u \in Thread \ {t} : th'[u] = th[u]) /\ th'[t].pc # "flush"
  BY <1>1, <1>2, GoalForm DEF CountsForm
<1>4. \A u \in Thread : que'[u].disk = que[u].disk
  BY CachedReqKinds, CompletedReqQuiet DEF Kinds, Quiet, Calm, DoneLike
<1> QED BY <1>2, <1>3, <1>4, LocalReads


\* The reads that begin are of the page in the frame.
LEMMA LocalOwn == ASSUME NEW t \in Thread, \A u \in Thread \ {t} : th'[u] = th[u], \A u \in Thread : que'[u].disk = que[u].disk,
                         th'[t].pc = "flush" => \A b \in th'[t].out : Reads(b) \/ Own(b),
                         \A io \in flight' : io.op = "read" => io \in flight \/ \A b \in io.bufs : Reads(b) \/ Own(b)
                  PROVE OwnReads
<1>1. SUFFICES ASSUME NEW b, Reads(b)' PROVE Reads(b) \/ Own(b)
  BY DEF OwnReads
<1>2. ASSUME NEW io \in Ios', io.op = "read", b \in io.bufs PROVE Reads(b) \/ Own(b)
  BY <1>2 DEF Ios, Reads
<1>3. ASSUME NEW u \in Thread, th'[u].pc = "flush", b \in th'[u].out PROVE Reads(b) \/ Own(b)
  <2>1. CASE u = t
    BY <1>3, <2>1
  <2>2. CASE u # t
    BY <1>3, <2>2 DEF Reads
  <2> QED BY <2>1, <2>2
<1> QED BY <1>1, <1>2, <1>3 DEF Reads

LEMMA FlushBatchOwn == ASSUME IInv, NEW t \in Thread, FlushBatch(t) PROVE OwnReads
<1>1. FlushReads(t) /\ \A u \in Thread : que'[u].disk = que[u].disk
  BY FlushBatchQuiet DEF Quiet, Calm, DoneLike
<1>2. th[t].pc = "flush"
  BY Zenon DEF FlushBatch
<1>3. PICK f, c : /\ f \in Frame /\ \A b \in c : b \in th[t].out \/ b = <<f, frame[f].id>>
                  /\ th'[t].out \in {{}, c} /\ (flight' = flight \/ flight' = flight \cup {Request(t, "read", c)})
  BY <1>1 DEF FlushReads
<1>4. \A b \in c : Reads(b) \/ Own(b)
  BY <1>2, <1>3 DEF Reads, Own
<1>5. Request(t, "read", c).bufs = c
  BY DEF Request
<1>6. \A u \in Thread \ {t} : th'[u] = th[u]
  BY <1>1 DEF FlushReads
<1> QED BY <1>1, <1>3, <1>4, <1>5, <1>6, LocalOwn

\* __write and __read send a read of the page in the frame when the write is of one page.
LEMMA MetFlight == ASSUME TypeOK, NEW t \in Thread, NEW f \in Frame, NEW r \in Req, NEW q, Write(t, f, r, q) \/ Read(t, f, r, q),
                          frame[f].id \in PagesOf(r), Write(t, f, r, q) => rq[r].first = rq[r].last
                   PROVE flight' = flight \/ flight' = flight \cup {Request(t, "read", {<<f, frame[f].id>>})}
<1>1. Write(t, f, r, q) => flight' = flight \/ flight' = flight \cup {Request(t, "read", {<<f, rq[r].first>>})}
  BY Zenon DEF Write, Send, WriteReady
<1>2. Read(t, f, r, q) => flight' = flight \/ flight' = flight \cup {Request(t, "read", {<<f, frame[f].id>>})}
  BY Zenon DEF Read, Send, ReadIO
<1>3. rq[r].first = rq[r].last => frame[f].id = rq[r].first
  <2>1. rq[r].first \in Nat /\ rq[r].last \in Nat
    BY Records, NoneApart
  <2> QED BY <2>1 DEF PagesOf
<1> QED BY <1>1, <1>2, <1>3

\* Every write of the application is within one page.
OnePageWrites == \A r \in Req : rq[r].op = "write" => WithinOnePage(r)

LEMMA UseWriteOwn == ASSUME IInv, OnePageWrites, NEW t \in Thread, UseWrite(t) PROVE OwnReads
<1>1. TypeOK /\ th[t] \in ThRec
  BY Parts, Records
<1>2. th[t].pc = "use" /\ Write(t, th[t].cur, th[t].proc, que[t]) /\ Looped(t, th[t]) /\ rq[th[t].proc].op = "write"
  BY Zenon DEF UseWrite, Looped
<1>3. PICK f \in Frame, r \in Req : f = th[t].cur /\ r = th[t].proc /\ frame[f].id \in PagesOf(r) /\ th[t].out = {}
  BY <1>2, HasPage
<1>4. (\A u \in Thread \ {t} : th'[u] = th[u]) /\ th'[t].out = {}
  BY <1>1, <1>2, <1>3, LoopedReads
<1>5. flight' = flight \/ flight' = flight \cup {Request(t, "read", {<<f, frame[f].id>>})}
  BY <1>1, <1>2, <1>3, MetFlight DEF OnePageWrites, WithinOnePage
<1>6. \A b \in Request(t, "read", {<<f, frame[f].id>>}).bufs : Own(b)
  BY DEF Request, Own
<1>7. \A u \in Thread : que'[u].disk = que[u].disk
  BY UseWriteKinds DEF Kinds, Quiet, Calm, DoneLike
<1> QED BY <1>4, <1>5, <1>6, <1>7, LocalOwn

LEMMA HandlePendingOwn == ASSUME IInv, OnePageWrites, NEW t \in Thread, HandlePending(t) PROVE OwnReads
<1>1. TypeOK /\ que[t].pend \in Seq(Frame \X Req)
  BY Parts, Records
<1>2. /\ th[t].pc = "pend" /\ que[t].pend # <<>> /\ th' = th
      /\ \/ /\ rq[Head(que[t].pend)[2]].op = "write"
            /\ Write(t, Head(que[t].pend)[1], Head(que[t].pend)[2], [que[t] EXCEPT !.pend = Tail(@)])
         \/ /\ rq[Head(que[t].pend)[2]].op # "write"
            /\ Read(t, Head(que[t].pend)[1], Head(que[t].pend)[2], [que[t] EXCEPT !.pend = Tail(@)])
  BY Zenon DEF HandlePending
<1>3. Head(que[t].pend) \in Frame \X Req /\ Head(que[t].pend) \in ToSet(que[t].pend)
  BY <1>1, <1>2, SeqTail
<1>4. PICK f \in Frame, r \in Req : Head(que[t].pend) = <<f, r>>
  BY <1>3
<1>5. PICK q : q = [que[t] EXCEPT !.pend = Tail(@)]
  OBVIOUS
<1>6. (rq[r].op = "write" /\ Write(t, f, r, q)) \/ Read(t, f, r, q)
  BY <1>2, <1>4, <1>5
<1>7. In(f, r, "pend") /\ "pend" \in Kind
  BY <1>3, <1>4 DEF In, At, Kind
<1>8. frame[f].id \in PagesOf(r)
  BY <1>7, WithFrame
<1>9. flight' = flight \/ flight' = flight \cup {Request(t, "read", {<<f, frame[f].id>>})}
  <2>1. CASE rq[r].op = "write" /\ Write(t, f, r, q)
    BY <1>1, <1>8, <2>1, MetFlight DEF OnePageWrites, WithinOnePage
  <2>2. CASE Read(t, f, r, q)
    BY <2>2, Zenon DEF Read, Send, ReadIO
  <2> QED BY <1>6, <2>1, <2>2
<1>10. \A b \in Request(t, "read", {<<f, frame[f].id>>}).bufs : Own(b)
  BY DEF Request, Own
<1>11. \A u \in Thread : que'[u].disk = que[u].disk
  BY HandlePendingKinds DEF Kinds, Quiet, Calm, DoneLike
<1> QED BY <1>2, <1>9, <1>10, <1>11, LocalOwn

\* The disk answers, and answers are taken.
LEMMA ServesReads == ASSUME NEW io, Serves(io) PROVE NoReads
  BY DEF Serves, Stays, NoReads, Reads
LEMMA DoneReads == ASSUME NEW t \in Thread, NEW io, NEW b, PageDone(t, io, b) PROVE NoReads
<1>1. io \in Ios
  BY DEF PageDone, Answered, Ios
<1>2. \A jo \in Ios' : jo \in Ios \/ (jo.op = io.op /\ jo.bufs = io.bufs \ {b})
  BY DEF PageDone
<1>3. Stays
  BY DEF PageDone
<1> QED BY <1>1, <1>2, <1>3 DEF Stays, NoReads, Reads

\* What a step does to the reads.
LEMMA StepReads == ASSUME IInv, OnePageWrites, Next PROVE OwnReads
<1>1. TypeOK
  BY Parts
<1>2. NoReads => OwnReads
  BY DEF NoReads, OwnReads
<1>3. ASSUME NEW t \in Thread, Application(t) PROVE OwnReads
  BY <1>1, <1>2, <1>3, IdleReads, Wait4CompleteIdles, AccessIdles DEF Application
<1>4. ASSUME NEW t \in Thread, ProcessUserReq(t) PROVE OwnReads
  BY <1>1, <1>2, <1>4, SearchReads, ClassifyReads, WriteDirtyPageReads, MergeReads, WaitOldDirtyReads, UseWriteOwn, UseReadReads,
     FlushBatchOwn, ReturnIdles, IdleReads DEF ProcessUserReq
<1>5. ASSUME NEW t \in Thread, DiskCompletion(t) PROVE OwnReads
  BY <1>2, <1>5, DiskCompletionDone, DoneReads
<1>6. ASSUME NEW t \in Thread, ProcessAllRequests(t) PROVE OwnReads
  BY <1>1, <1>2, <1>5, <1>6, HandlePendingOwn, CountsReads, NextPhaseIdles, WakeIdles, IdleReads DEF ProcessAllRequests
<1>7. ASSUME NEW io \in flight, Serve(io) PROVE OwnReads
  BY <1>2, <1>7, ServeServes, ServesReads
<1> QED BY <1>3, <1>4, <1>6, <1>7 DEF Next

\* Frames keep their pages, except the one that is evicted.
LEMMA StepPages == ASSUME IInv, DataInv, ~Voter, Next
                   PROVE \/ \A f \in Frame : frame'[f].id = frame[f].id
                         \/ \E t \in Thread, f \in Frame : /\ SearchMiss(t) /\ frame[f].ref = 0
                                                           /\ \A g \in Frame \ {f} : frame'[g].id = frame[g].id
<1>1. (\A f \in Frame : Kept(f)) => \A f \in Frame : frame'[f].id = frame[f].id
  BY DEF Kept
<1>2. Kinds => \A f \in Frame : frame'[f].id = frame[f].id
  BY <1>1 DEF Kinds, Quiet, WroteTo
<1>3. ASSUME NEW t \in Thread, NEW b, Begins(t, b) PROVE \A f \in Frame : frame'[f].id = frame[f].id
  BY <1>1, <1>3 DEF Begins
<1>4. ASSUME NEW t \in Thread, NEW io, NEW b, PageDone(t, io, b) PROVE \A f \in Frame : frame'[f].id = frame[f].id
  BY <1>4 DEF PageDone, Kept
<1>5. ASSUME NEW io, Serves(io) PROVE \A f \in Frame : frame'[f].id = frame[f].id
  BY <1>1, <1>5 DEF Serves, ReadServed, WriteServed
<1>6. ASSUME NEW t \in Thread, NEW f \in Frame, NEW p \in Page, Takes(t, f, p)
      PROVE frame[f].ref = 0 /\ \A g \in Frame \ {f} : frame'[g].id = frame[g].id
  BY <1>6 DEF Takes, Kept
<1> QED BY <1>2, <1>3, <1>4, <1>5, <1>6, StepKinds

LEMMA OwnStep == ASSUME ~Voter, IInv, DataInv, OwnInv, OnePageWrites, [Next]_vars PROVE OwnInv'
<1>1. CASE UNCHANGED vars
  BY <1>1 DEF vars, OwnInv, Reads, Own, Ios
<1>2. CASE Next
  <2>4. OwnReads
    BY <1>2, StepReads
  <2>5. CASE \A f \in Frame : frame'[f].id = frame[f].id
    BY <2>4, <2>5 DEF OwnInv, OwnReads, Own
  <2>6. ASSUME NEW t \in Thread, NEW f \in Frame, SearchMiss(t), frame[f].ref = 0, \A g \in Frame \ {f} : frame'[g].id = frame[g].id
        PROVE OwnInv'
    <3>1. NoReads
      BY <2>6, SearchReads
    <3>2. ~CovBy(f, "read")
      BY <2>6, Unreferenced
    <3>3. \A b : Reads(b) => b[1] # f
      BY <3>2 DEF Reads, CovBy, Cov, OutOp
    <3> QED BY <2>6, <3>1, <3>3 DEF OwnInv, NoReads, Own
  <2> QED BY <1>2, <2>5, <2>6, StepPages
<1> QED BY <1>1, <1>2

LEMMA LostStep == ASSUME ~Voter, ~LargeWrite, IInv, DataInv, LostInv, ReadsOwnPage, [Next]_vars PROVE LostInv'
<1>1. Quiet => LostInv'
  BY StillLost DEF Quiet, Calm, Still
<1>2. CASE Next
  <2>1. CASE Kinds
    BY <1>1, <2>1, WroteLost DEF Kinds, Calm
  <2>2. ASSUME NEW t \in Thread, NEW f \in Frame, NEW p \in Page, Takes(t, f, p) PROVE LostInv'
    BY <2>2, TakesLost
  <2>3. ASSUME NEW t \in Thread, NEW b, Begins(t, b) PROVE LostInv'
    BY <2>3, StillLost DEF Begins, Still
  <2>4. ASSUME NEW t \in Thread, NEW io, NEW b, PageDone(t, io, b) PROVE LostInv'
    BY <2>4, DoneLost
  <2>5. ASSUME NEW io, Serves(io) PROVE LostInv'
    BY <2>5, ServesLost
  <2> QED BY <1>2, <2>1, <2>2, <2>3, <2>4, <2>5, StepKinds
<1>3. CASE UNCHANGED vars
  <2>1. Still /\ DoneLike
    BY <1>3, KeptAll DEF vars, Still, DoneLike
  <2> QED BY <2>1, StillLost
<1> QED BY <1>2, <1>3

LEMMA LostInit == Init => OwnInv /\ LostInv
<1>1. SUFFICES ASSUME Init PROVE OwnInv /\ LostInv
  OBVIOUS
<1>2. \A f \in Frame : ~frame[f].dirty /\ ~frame[f].oldDirty /\ ~frame[f].ready
  BY <1>1 DEF Init, FreeFrame
<1>3. \A t \in Thread : th[t].pc = "user" /\ que[t].disk = <<>>
  BY <1>1 DEF Init, IdleThread
<1>4. Ios = {}
  BY <1>1, EmptySet DEF Init, Ios
<1>5. \A op, b : ~Finished(op, b)
  BY <1>4 DEF Finished, Answered, Ios
<1>6. \A p \in Page : Reflected(p)
  BY <1>1 DEF Init, Reflected
<1>7. OwnInv
  BY <1>3, <1>4 DEF OwnInv, Reads
<1> QED BY <1>2, <1>5, <1>6, <1>7 DEF LostInv, ReadyFresh, ReadyData, ReadsFill, OldRaced, OldFresh, WritesDone

-------------------------------------------------------------------------------
(* A write-back and the page that its frame has been given to              *)

\* Old dirty data are those of another page than the frame's, and a write that a thread builds
\* has nothing of the page that the thread evicted for: the frame of that page is in the write,
\* with other data.
OldElsewhere == \A f \in Frame : frame[f].oldDirty => frame[f].dataOf # frame[f].id
Clear(t) ==
    Merges(t) => /\ \A b \in th[t].out : b[2] # th[t].nxt - 1
                 /\ \E b \in th[t].out : b[1] \in Frame /\ frame[b[1]].id = th[t].nxt - 1
ClearInv == OldElsewhere /\ \A t \in Thread : Clear(t)

LEMMA OldStep == ASSUME ~Voter, IInv, DataInv, OldElsewhere, Next PROVE OldElsewhere'
<1>1. (\A f \in Frame : Kept(f)) => OldElsewhere'
  BY DEF OldElsewhere, Kept
<1>2. CASE Kinds
  <2>1. CASE Quiet
    BY <1>1, <2>1 DEF Quiet
  <2>2. ASSUME NEW f \in Frame, NEW w, WroteTo(f, w) PROVE OldElsewhere'
    BY <2>2 DEF OldElsewhere, WroteTo
  <2> QED BY <1>2, <2>1, <2>2 DEF Kinds
<1>3. ASSUME NEW t \in Thread, NEW f \in Frame, NEW p \in Page, Takes(t, f, p) PROVE OldElsewhere'
  BY <1>3 DEF OldElsewhere, Takes, Kept, DataInv, DirtyData
<1>4. ASSUME NEW t \in Thread, NEW b, Begins(t, b) PROVE OldElsewhere'
  BY <1>1, <1>4 DEF Begins
<1>5. ASSUME NEW t \in Thread, NEW io, NEW b, PageDone(t, io, b) PROVE OldElsewhere'
  <2>1. SUFFICES ASSUME NEW f \in Frame, frame'[f].oldDirty PROVE frame'[f].dataOf # frame'[f].id
    BY DEF OldElsewhere
  <2>2. CASE f # b[1]
    BY <1>5, <2>1, <2>2 DEF OldElsewhere, PageDone, Kept
  <2>3. CASE f = b[1]
    <3>1. /\ frame'[f].id = frame[f].id /\ frame'[f].dataOf = frame[f].dataOf
          /\ frame'[f].oldDirty = (frame[f].oldDirty /\ io.op = "read")
      BY <1>5, <2>3, Zenon DEF PageDone
    <3> QED BY <2>1, <3>1 DEF OldElsewhere
  <2> QED BY <2>2, <2>3
<1>6. ASSUME NEW io, Serves(io) PROVE OldElsewhere'
  <2>1. io \in Ios
    BY <1>6 DEF Serves, Ios
  <2>2. CASE WriteServed(io)
    BY <1>1, <2>2 DEF WriteServed
  <2>3. CASE ReadServed(io)
    <3>1. SUFFICES ASSUME NEW f \in Frame, frame'[f].oldDirty PROVE frame'[f].dataOf # frame'[f].id
      BY DEF OldElsewhere
    <3>2. ~Cov(io.bufs, f)
      BY <2>1, <2>3, <3>1, ReadCovers DEF ReadServed
    <3> QED BY <2>3, <3>1, <3>2 DEF ReadServed, OldElsewhere, Kept
  <2> QED BY <1>6, <2>2, <2>3 DEF Serves
<1> QED BY <1>2, <1>3, <1>4, <1>5, <1>6, StepKinds

\* The evictor of a page knows that it is not the page it wants.
LEMMA OldApart == ASSUME IInv, DataInv, OldElsewhere \/ ClearInv, NEW t \in Thread, th[t].pc = "old", th[t].old # None
                  PROVE th[t].old # th[t].nxt - 1
<1>1. TypeOK /\ EvictorAt(t)
  BY Parts
<1>2. PICK f \in Frame : f = th[t].cur /\ frame[f].id \in Page /\ frame[f].id + 1 = th[t].nxt
  BY HasPage
<1>3. Evicting(t, f)
  BY <1>2 DEF Evicting
<1>4. frame[f].oldDirty
  BY <1>1, <1>3 DEF EvictorAt
<1>5. frame[f].dataOf = th[t].old /\ frame[f].dataOf # frame[f].id
  BY <1>3, <1>4 DEF DataInv, OldData, OldElsewhere, ClearInv
<1>6. frame[f].id \in Int /\ th[t].nxt \in Int
  BY <1>1, <1>2, Records DEF Page
<1> QED BY <1>2, <1>5, <1>6

\* A step of another thread, and what a thread that merges does.
LEMMA OthersStay == ASSUME IInv, NEW u \in Thread,
                           Application(u) \/ ProcessUserReq(u) \/ (ProcessAllRequests(u) /\ ~DiskCompletion(u))
                    PROVE \A v \in Thread \ {u} : th'[v] = th[v]
<1>1. TypeOK /\ th \in [Thread -> ThRec]
  BY Parts, TypesForm
<1>2. ASSUME NEW me, th' = [th EXCEPT ![u] = me] PROVE \A v \in Thread \ {u} : th'[v] = th[v]
  BY <1>1, <1>2
<1>3. ASSUME Idles(u) PROVE \A v \in Thread \ {u} : th'[v] = th[v]
  BY <1>2, <1>3 DEF Idles
<1>4. CASE Application(u)
  BY <1>1, <1>3, <1>4, Wait4CompleteIdles, AccessIdles DEF Application
<1>5. CASE ProcessUserReq(u)
  <2>1. CASE SearchHit(u) \/ SearchMiss(u) \/ SearchNull(u) \/ Classify(u)
    <3>1. \E me : th' = [th EXCEPT ![u] = me]
      BY <2>1, Zenon DEF SearchHit, SearchMiss, SearchNull, Classify
    <3> QED BY <1>2, <3>1
  <2>2. CASE WriteDirtyPage(u) \/ MergeForward(u) \/ MergeBackward(u)
    <3>1. \E me : th' = [th EXCEPT ![u] = me]
      BY <2>2, Zenon DEF WriteDirtyPage, MergeForward, MergeBackward
    <3> QED BY <1>2, <3>1
  <2>3. CASE WaitOldDirty(u)
    <3>1. (\E me : th' = [th EXCEPT ![u] = me]) \/ th' = [th EXCEPT ![u].pc = "use"]
      BY <2>3, Zenon DEF WaitOldDirty
    <3>2. th' = [th EXCEPT ![u].pc = "use"] => \A v \in Thread \ {u} : th'[v] = th[v]
      BY <1>1
    <3> QED BY <1>2, <3>1, <3>2
  <2>4. CASE UseWrite(u) \/ UseRead(u) \/ FlushBatch(u)
    <3>1. \E me : th' = [th EXCEPT ![u] = me]
      BY <2>4, Zenon DEF UseWrite, UseRead, FlushBatch
    <3> QED BY <1>2, <3>1
  <2>5. CASE Return(u)
    BY <1>1, <1>3, <2>5, ReturnIdles
  <2> QED BY <1>5, <2>1, <2>2, <2>3, <2>4, <2>5 DEF ProcessUserReq
<1>6. CASE ProcessAllRequests(u) /\ ~DiskCompletion(u)
  <2>1. CASE HandlePending(u)
    BY <2>1 DEF HandlePending
  <2>2. CASE CachedReq(u) \/ CompletedReq(u)
    <3>1. th' = [th EXCEPT ![u].goal = IF @ = 0 THEN 0 ELSE @ - 1]
      BY <2>2, Zenon DEF CachedReq, CompletedReq
    <3> QED BY <1>1, <3>1
  <2>3. CASE NextPhase(u) \/ Wake(u)
    BY <1>1, <1>3, <2>3, NextPhaseIdles, WakeIdles
  <2> QED BY <1>6, <2>1, <2>2, <2>3 DEF ProcessAllRequests
<1> QED BY <1>4, <1>5, <1>6

LEMMA MergingStep == ASSUME IInv, NEW t \in Thread, Merges(t), Next
                     PROVE \/ MergeForward(t) \/ MergeBackward(t)
                           \/ th'[t].pc = th[t].pc /\ th'[t].nxt = th[t].nxt /\ th'[t].out = th[t].out
<1>1. ASSUME NEW u \in Thread, DiskCompletion(u) PROVE Stays
  BY <1>1, DiskCompletionDone DEF PageDone
<1>2. ASSUME NEW io \in flight, Serve(io) PROVE Stays
  BY <1>2, ServeServes DEF Serves
<1>3. CASE Application(t)
  BY <1>3, Zenon DEF Application, Wait4Complete, Access, Merges
<1>4. CASE ProcessUserReq(t)
  <2>1. ~(SearchHit(t) \/ SearchMiss(t) \/ SearchNull(t) \/ Classify(t) \/ WriteDirtyPage(t))
    BY Zenon DEF SearchHit, SearchMiss, SearchNull, Classify, WriteDirtyPage, Merges
  <2>2. ~(WaitOldDirty(t) \/ UseWrite(t) \/ FlushBatch(t) \/ Return(t))
    BY Zenon DEF WaitOldDirty, UseWrite, FlushBatch, Return, Merges
  <2>3. ~UseRead(t)
    <3>1. [th[t] EXCEPT !.batch = Append(@, th[t].cur)].pc = th[t].pc
      BY Parts, Records DEF ThRec
    <3> QED BY <3>1 DEF UseRead, Merges
  <2> QED BY <1>4, <2>1, <2>2, <2>3 DEF ProcessUserReq
<1>5. CASE ProcessAllRequests(t)
  <2>1. ~(DiskCompletion(t) \/ HandlePending(t) \/ CachedReq(t) \/ CompletedReq(t) \/ NextPhase(t) \/ Wake(t))
    BY Zenon DEF DiskCompletion, HandlePending, CachedReq, CompletedReq, NextPhase, Wake, Merges
  <2> QED BY <1>5, <2>1 DEF ProcessAllRequests
<1>6. ASSUME NEW u \in Thread \ {t}, Application(u) \/ ProcessUserReq(u) \/ (ProcessAllRequests(u) /\ ~DiskCompletion(u))
      PROVE th'[t] = th[t]
  BY <1>6, OthersStay
<1> QED BY <1>1, <1>2, <1>3, <1>4, <1>5, <1>6 DEF Next, Stays

\* Only write_dirty_page begins to merge.
LEMMA MergingStarts == ASSUME ~Voter, IInv, DataInv, NEW t \in Thread, ~Merges(t), Merges(t)', Next PROVE WriteDirtyPage(t)
<1>1. TypeOK /\ ~Quiet /\ ~Calm /\ ~Stays /\ ~Kinds
  BY Parts DEF Quiet, Calm, MergeLike, Stays, Merges, Kinds
<1>2. ASSUME NEW u \in Thread, DiskCompletion(u) PROVE FALSE
  BY <1>1, <1>2, DiskCompletionDone DEF PageDone
<1>3. ASSUME NEW io \in flight, Serve(io) PROVE FALSE
  BY <1>1, <1>3, ServeServes DEF Serves
<1>4. ASSUME NEW u \in Thread, Application(u) PROVE FALSE
  BY <1>1, <1>4, IdleQuiet, Wait4CompleteIdles, AccessIdles DEF Application
<1>5. ASSUME NEW u \in Thread, ProcessAllRequests(u) PROVE FALSE
  BY <1>1, <1>2, <1>5, HandlePendingKinds, CachedReqKinds, CompletedReqQuiet, NextPhaseIdles, WakeIdles, IdleQuiet DEF ProcessAllRequests
<1>6. ASSUME NEW u \in Thread, ProcessUserReq(u) PROVE u = t /\ WriteDirtyPage(t)
  <2>1. u = t
    BY <1>6, OthersStay DEF Merges
  <2>2. ~(MergeForward(t) \/ MergeBackward(t))
    BY Zenon DEF MergeForward, MergeBackward, Merges
  <2>3. ~SearchMiss(t)
    BY <1>1, SearchMissTakes DEF Takes, MergeLike
  <2> QED BY <1>1, <1>6, <2>1, <2>2, <2>3, SearchHitQuiet, SearchNullQuiet, ClassifyQuiet, WaitOldDirtyQuiet, UseWriteKinds,
             UseReadQuiet, FlushBatchQuiet, ReturnIdles, IdleQuiet DEF ProcessUserReq
<1> QED BY <1>2, <1>3, <1>4, <1>5, <1>6 DEF Next

\* The write has the old data of the frame that was evicted.
LEMMA ClearStarts == ASSUME IInv, DataInv, OldElsewhere, NEW t \in Thread, WriteDirtyPage(t), Merges(t)' PROVE Clear(t)'
<1>1. TypeOK /\ th[t] \in ThRec /\ th \in [Thread -> ThRec] /\ frame \in [Frame -> FrameRec]
  BY Parts, Records, TypesForm
<1>2. th[t].pc = "old" /\ th[t].old # None
  BY Zenon DEF WriteDirtyPage
<1>3. PICK f \in Frame, r \in Req : f = th[t].cur /\ r = th[t].proc /\ frame[f].id \in Page /\ frame[f].id + 1 = th[t].nxt
  BY <1>2, HasPage
<1>4. frame' = [frame EXCEPT ![f] = AddReq(Writing(frame[f]), r)]
  BY <1>1, <1>3 DEF WriteDirtyPage
<1>5. \A g \in Frame : Kept(g)
  BY <1>1, <1>4, SameDataForm, KeptSet
<1>6. LargeWrite
  <2>1. ~LargeWrite => Looped(t, th[t])
    BY DEF WriteDirtyPage, Looped
  <2> QED BY <1>1, <1>3, <2>1, LoopedOn
<1>7. th' = [th EXCEPT ![t] = [th[t] EXCEPT !.pc = "mergeF", !.out = WriteBackIO(t).bufs, !.mp = th[t].old + 1, !.cur = None]]
  BY <1>6 DEF WriteDirtyPage
<1>8. WriteBackIO(t).bufs = {<<f, th[t].old>>}
  BY <1>3 DEF WriteBackIO, Request
<1>9. th'[t].nxt = th[t].nxt /\ th'[t].out = {<<f, th[t].old>>}
  <2>1. th'[t] = [th[t] EXCEPT !.pc = "mergeF", !.out = WriteBackIO(t).bufs, !.mp = th[t].old + 1, !.cur = None]
    BY <1>1, <1>7
  <2>2. th[t] \in ThRec
    BY <1>1
  <2> QED BY <1>8, <2>1, <2>2 DEF ThRec
<1>10. th[t].old # th[t].nxt - 1
  BY <1>2, OldApart
<1>11. frame'[f].id = th[t].nxt - 1
  <2>1. frame'[f].id = frame[f].id /\ frame[f].id \in Int
    BY <1>3, <1>5 DEF Kept, Page
  <2> QED BY <1>3, <2>1
<1> QED BY <1>9, <1>10, <1>11 DEF Clear

\* merge_pages2req adds the page of a frame without I/O: not the page of a frame in the write.
LEMMA ClearMerged == ASSUME IInv, NEW t \in Thread, Merges(t), Clear(t), NEW f \in Frame, NEW p \in Page, frame[f].id = p, ~frame[f].pending,
                            frame' = Merged(f), th'[t].out = th[t].out \cup {<<f, p>>}, th'[t].nxt = th[t].nxt
                     PROVE Clear(t)'
<1>1. TypeOK /\ OneFrame /\ frame \in [Frame -> FrameRec]
  BY Parts, TypesForm
<1>2. PICK b \in th[t].out : b[1] \in Frame /\ frame[b[1]].id = th[t].nxt - 1
  BY DEF Clear
<1>3. frame[b[1]].pending
  <2>1. CovBy(b[1], "write")
    BY <1>2 DEF CovBy, Cov, OutOp, Merges
  <2> QED BY <1>2, <2>1, Parts DEF FlagsAt
<1>4. p # th[t].nxt - 1
  <2>1. b[1] # f
    BY <1>3
  <2>2. p # None
    BY NoneApart
  <2> QED BY <1>1, <1>2, <2>1, <2>2 DEF OneFrame
<1>5. frame' = [frame EXCEPT ![f] = Writing(frame[f])]
  BY <1>1 DEF Merged
<1>6. \A g \in Frame : Kept(g)
  BY <1>1, <1>5, SameDataForm, KeptSet
<1>7. \A c \in th'[t].out : c[2] # th'[t].nxt - 1
  BY <1>4 DEF Clear
<1>8. b \in th'[t].out /\ frame'[b[1]].id = th'[t].nxt - 1
  BY <1>2, <1>6 DEF Kept
<1> QED BY <1>2, <1>7, <1>8 DEF Clear

Adds(t, f, p, m) ==
    /\ f \in Mergeable(p, Block(th[t].old)) /\ frame' = Merged(f)
    /\ th' = [th EXCEPT ![t] = [th[t] EXCEPT !.out = @ \cup {<<f, p>>}, !.mp = m]]

LEMMA ClearMerges == ASSUME IInv, NEW t \in Thread, Clear(t), MergeForward(t) \/ MergeBackward(t) PROVE Clear(t)'
<1>1. TypeOK /\ th[t] \in ThRec /\ th \in [Thread -> ThRec] /\ Merges(t)
  <2>1. th[t].pc \in {"mergeF", "mergeB"}
    BY Zenon DEF MergeForward, MergeBackward
  <2> QED BY <2>1, Parts, Records, TypesForm DEF Merges
<1>2. \/ \E f, p, m : Adds(t, f, p, m)
      \/ frame' = frame /\ th' = [th EXCEPT ![t] = [th[t] EXCEPT !.pc = "mergeB", !.mp = th[t].old]]
      \/ Looped(t, [th[t] EXCEPT !.out = {}])
  <2>1. CASE MergeForward(t)
    <3>1. \/ \E f \in Mergeable(th[t].mp, Block(th[t].old)) :
               /\ frame' = Merged(f)
               /\ th' = [th EXCEPT ![t] = [th[t] EXCEPT !.out = @ \cup {<<f, th[t].mp>>}, !.mp = th[t].mp + 1]]
          \/ frame' = frame /\ th' = [th EXCEPT ![t] = [th[t] EXCEPT !.pc = "mergeB", !.mp = th[t].old]]
      BY <2>1, Zenon DEF MergeForward
    <3>2. ASSUME NEW f \in Mergeable(th[t].mp, Block(th[t].old)), frame' = Merged(f),
                 th' = [th EXCEPT ![t] = [th[t] EXCEPT !.out = @ \cup {<<f, th[t].mp>>}, !.mp = th[t].mp + 1]]
          PROVE Adds(t, f, th[t].mp, th[t].mp + 1)
      BY <3>2, Zenon DEF Adds
    <3> QED BY <3>1, <3>2, Zenon
  <2>2. CASE MergeBackward(t)
    <3>1. \/ \E f \in IF th[t].mp = 0 THEN {} ELSE Mergeable(th[t].mp - 1, Block(th[t].old)) :
               /\ frame' = Merged(f)
               /\ th' = [th EXCEPT ![t] = [th[t] EXCEPT !.out = @ \cup {<<f, th[t].mp - 1>>}, !.mp = th[t].mp - 1]]
          \/ Looped(t, [th[t] EXCEPT !.out = {}])
      BY <2>2, Zenon DEF MergeBackward, Looped
    <3>2. \A f : f \in (IF th[t].mp = 0 THEN {} ELSE Mergeable(th[t].mp - 1, Block(th[t].old))) => f \in Mergeable(th[t].mp - 1, Block(th[t].old))
      OBVIOUS
    <3>3. ASSUME NEW f \in Mergeable(th[t].mp - 1, Block(th[t].old)), frame' = Merged(f),
                 th' = [th EXCEPT ![t] = [th[t] EXCEPT !.out = @ \cup {<<f, th[t].mp - 1>>}, !.mp = th[t].mp - 1]]
          PROVE Adds(t, f, th[t].mp - 1, th[t].mp - 1)
      BY <3>3, Zenon DEF Adds
    <3> QED BY <3>1, <3>2, <3>3, Zenon
  <2> QED BY <2>1, <2>2, Zenon
<1>3. ASSUME NEW f, NEW p, NEW m, Adds(t, f, p, m) PROVE Clear(t)'
  <2>1. f \in Frame /\ p \in Page /\ frame[f].id = p /\ ~frame[f].pending
    BY <1>3 DEF Adds, Mergeable, FramesOf
  <2>2. PICK o : o = th[t].out \cup {<<f, p>>}
    OBVIOUS
  <2>3. th'[t] = [th[t] EXCEPT !.out = o, !.mp = m]
    BY <1>1, <1>3, <2>2 DEF Adds
  <2>4. th'[t].out = o /\ th'[t].nxt = th[t].nxt
    BY <1>1, <2>3 DEF ThRec
  <2> QED BY <1>1, <1>3, <2>1, <2>2, <2>4, ClearMerged DEF Adds
<1>4. CASE frame' = frame /\ th' = [th EXCEPT ![t] = [th[t] EXCEPT !.pc = "mergeB", !.mp = th[t].old]]
  <2>1. th'[t] = [th[t] EXCEPT !.pc = "mergeB", !.mp = th[t].old]
    BY <1>1, <1>4
  <2>2. th'[t].out = th[t].out /\ th'[t].nxt = th[t].nxt
    BY <1>1, <2>1 DEF ThRec
  <2> QED BY <1>1, <1>4, <2>2 DEF Clear
<1>5. CASE Looped(t, [th[t] EXCEPT !.out = {}])
  <2>1. th[t].proc \in Req
    BY <1>1, Merging DEF Merges
  <2>2. PICK me \in ThRec : me = [th[t] EXCEPT !.out = {}] /\ me.proc \in Req
    BY ONLY <1>1, <2>1, SentForm, Zenon
  <2>3. ~Merges(t)'
    BY <1>1, <1>5, <2>2, LoopedOn
  <2> QED BY <2>3 DEF Clear
<1> QED BY <1>2, <1>3, <1>4, <1>5

LEMMA ClearStep == ASSUME ~Voter, IInv, DataInv, ClearInv, [Next]_vars PROVE ClearInv'
<1>1. CASE UNCHANGED vars
  BY <1>1 DEF vars, ClearInv, OldElsewhere, Clear, Merges
<1>2. CASE Next
  <2>1. OldElsewhere'
    BY <1>2, OldStep DEF ClearInv
  <2>2. ASSUME NEW t \in Thread, Merges(t)' PROVE Clear(t)'
    <3>1. CASE ~Merges(t)
      BY <1>2, <2>2, <3>1, MergingStarts, ClearStarts DEF ClearInv
    <3>2. CASE Merges(t) /\ (MergeForward(t) \/ MergeBackward(t))
      BY <3>2, ClearMerges DEF ClearInv
    <3>3. CASE Merges(t) /\ th'[t].nxt = th[t].nxt /\ th'[t].out = th[t].out
      <4>1. PICK b \in th[t].out : b[1] \in Frame /\ frame[b[1]].id = th[t].nxt - 1
        BY <3>3 DEF ClearInv, Clear
      <4>2. frame[b[1]].ref # 0
        BY <3>3, <4>1, TakesUncovered
      <4>3. frame'[b[1]].id = frame[b[1]].id
        BY <1>2, <4>1, <4>2, StepPages
      <4> QED BY <3>3, <4>1, <4>3 DEF ClearInv, Clear
    <3> QED BY <1>2, <3>1, <3>2, <3>3, MergingStep
  <2>3. \A t \in Thread : Clear(t)'
    BY <2>2 DEF Clear
  <2> QED BY <2>1, <2>3 DEF ClearInv
<1> QED BY <1>1, <1>2

LEMMA ClearInit == Init => ClearInv
<1>1. SUFFICES ASSUME Init PROVE ClearInv
  OBVIOUS
<1>2. \A f \in Frame : ~frame[f].oldDirty
  BY <1>1 DEF Init, FreeFrame
<1>3. \A t \in Thread : th[t].pc = "user"
  BY <1>1 DEF Init, IdleThread
<1> QED BY <1>2, <1>3 DEF ClearInv, OldElsewhere, Clear, Merges

-------------------------------------------------------------------------------
(* The theorems                                                            *)

\* In a cell that does not vote the assertions on the flags, lists and references of a page hold
\* at the points where a request meets it, and a write-back carries no data of the page its
\* frame was given to, also when merge_pages2req adds pages.  A cell that votes may clear
\* data_ready of a dirty page.
THEOREM CacheAssertionsHold == ASSUME ~Voter PROVE Spec => []AssertionsHold
<1>1. ASSUME IInv, DataInv, ClearInv, NEW t \in Thread
      PROVE /\ th[t].pc = "disk" /\ que[t].disk # <<>> =>
                 LET io == Head(que[t].disk)
                 IN  \A b \in io.bufs : /\ frame[b[1]].pending
                                        /\ io.op = "write" /\ ~io.multi => frame[b[1]].oldDirty /\ ~frame[b[1]].ready
            /\ \A x \in ToSet(que[t].pend) : ~frame[x[1]].oldDirty
            /\ th[t].pc = "use" => ~frame[th[t].cur].oldDirty
            /\ th[t].pc = "old" /\ th[t].old # None => ~frame[th[t].cur].pending
            /\ \A x \in ToSet(que[t].pend) : frame[x[1]].id \notin rq[x[2]].done
            /\ th[t].pc = "old" /\ th[t].old # None => th[t].old # th[t].nxt - 1
            /\ th[t].pc \in {"mergeF", "mergeB"} => \A b \in th[t].out : b[2] # th[t].nxt - 1
  <2>1. TypeOK /\ EvictorAt(t) /\ ControlAt(t) /\ SingleWrites /\ IOApart
    BY <1>1, Parts
  <2>2. que[t].disk \in Seq(IO) /\ que[t].pend \in Seq(Frame \X Req) /\ th[t].cur \in Frame \cup {None}
    BY <2>1, Records
  <2>3. ASSUME que[t].disk # <<>>, NEW io, io = Head(que[t].disk), NEW b \in io.bufs
        PROVE frame[b[1]].pending /\ (io.op = "write" /\ ~io.multi => frame[b[1]].oldDirty /\ ~frame[b[1]].ready)
    <3>1. io \in ToSet(que[t].disk)
      BY <2>2, <2>3, SeqTail
    <3>2. io \in Ios
      BY <3>1 DEF Ios
    <3>3. b[1] \in Frame /\ io.op \in {"read", "write"}
      BY <2>1, <3>2, IosTyped DEF IO
    <3>4. CovBy(b[1], io.op)
      BY <2>3, <3>2 DEF CovBy, Cov
    <3>5. FlagsAt(b[1])
      BY <1>1, <3>3, Parts
    <3>6. frame[b[1]].pending
      BY <3>3, <3>4, <3>5 DEF FlagsAt
    <3>7. io.op = "write" /\ ~io.multi => frame[b[1]].oldDirty
      BY <2>1, <3>2 DEF SingleWrites
    <3> QED BY <3>5, <3>6, <3>7 DEF FlagsAt
  <2>4. ASSUME NEW x \in ToSet(que[t].pend) PROVE ~frame[x[1]].oldDirty /\ frame[x[1]].id \notin rq[x[2]].done
    <3>1. x \in Frame \X Req
      BY <2>2, SeqSet
    <3>2. PICK f \in Frame, r \in Req : x = <<f, r>>
      BY <3>1
    <3>3. At(th[t], que[t], f, r, "pend") /\ "pend" \in Kind
      BY <2>4, <3>2 DEF At, Kind
    <3>4. In(f, r, "pend")
      BY <3>3 DEF In
    <3>5. FlagsAt(f) /\ RequestAt(r)
      BY <1>1, Parts
    <3>6. ~frame[f].oldDirty
      BY <3>3, <3>4, <3>5 DEF FlagsAt
    <3>7. frame[f].id \notin rq[r].done
      BY <3>3, <3>4, <3>5 DEF RequestAt
    <3> QED BY <3>2, <3>6, <3>7
  <2>5. th[t].pc = "use" => ~frame[th[t].cur].oldDirty
    BY <2>1 DEF EvictorAt
  <2>6. ASSUME th[t].pc = "old", th[t].old # None PROVE ~frame[th[t].cur].pending
    <3>1. th[t].cur \in Frame
      BY <2>1, <2>2, <2>6 DEF ControlAt
    <3>2. Evicting(t, th[t].cur)
      BY <2>6 DEF Evicting
    <3> QED BY <2>1, <2>6, <3>1, <3>2 DEF EvictorAt
  <2>7. th[t].pc = "old" /\ th[t].old # None => th[t].old # th[t].nxt - 1
    BY <1>1, OldApart
  <2>8. th[t].pc \in {"mergeF", "mergeB"} => \A b \in th[t].out : b[2] # th[t].nxt - 1
    BY <1>1 DEF ClearInv, Clear, Merges
  <2> QED BY <2>3, <2>4, <2>5, <2>6, <2>7, <2>8
<1>2. ASSUME IInv, NEW f \in Frame
      PROVE /\ ~frame[f].ready /\ ~frame[f].pending => ~frame[f].dirty
            /\ ~frame[f].ready /\ ~frame[f].pending /\ ~frame[f].oldDirty => frame[f].reqs = <<>>
            /\ frame[f].ref = 0 => ~frame[f].pending
  <2>1. FlagsAt(f)
    BY <1>2, Parts
  <2>2. frame[f].ref = 0 => ~frame[f].pending
    BY <1>2, Unreferenced
  <2> QED BY <2>1, <2>2 DEF FlagsAt
<1>3. IInv /\ DataInv /\ ClearInv => AssertionsHold
  BY <1>1, <1>2, Zenon DEF AssertionsHold
<1>4. Init => IInv /\ DataInv /\ ClearInv
  BY DataInit, ClearInit
<1>5. IInv /\ DataInv /\ ClearInv /\ [Next]_vars => (IInv /\ DataInv /\ ClearInv)'
  BY InvStep, DataStep, ClearStep
<1> QED BY <1>3, <1>4, <1>5, PTL DEF Spec

\* A read fills a frame with the page that the frame stands for, as long as the
\* application writes within one page (__write reads the page at the offset of
\* the whole request before it writes to a part of it).
THEOREM CacheReadsOwnPage == ASSUME ~Voter PROVE Spec /\ []OnePageWrites => []ReadsOwnPage
<1>1. Init => IInv /\ DataInv /\ OwnInv
  BY DataInit, LostInit
<1>2. IInv /\ DataInv /\ OwnInv /\ OnePageWrites /\ [Next]_vars => (IInv /\ DataInv /\ OwnInv)'
  BY InvStep, DataStep, OwnStep
<1>3. OwnInv => ReadsOwnPage
  BY DEF OwnInv, Reads, Own, Ios, ReadsOwnPage
<1> QED BY <1>1, <1>2, <1>3, PTL DEF Spec

\* No write is lost, as long as the application writes within one page, in a cell
\* that does not vote and with write-backs of one page (global_cached_io::access,
\* write_dirty_page, hash_cell::search): a page that was not fetched again during
\* the write-back of its evicted copy has every write on the disk or in a copy
\* that is on its way there.
THEOREM CacheNoLostWrite == ASSUME ~Voter, ~LargeWrite PROVE Spec /\ []OnePageWrites => []NoLostWrite
<1>1. Init => IInv /\ DataInv /\ LostInv
  BY DataInit, LostInit
<1>2. IInv /\ DataInv /\ LostInv /\ ReadsOwnPage /\ [Next]_vars => (IInv /\ DataInv /\ LostInv)'
  BY InvStep, DataStep, LostStep
<1>3. IInv /\ LostInv => NoLostWrite
  BY LostForm, Parts
<1> QED BY <1>1, <1>2, <1>3, CacheReadsOwnPage, PTL DEF Spec


\* Requests keep their pages; a new one has a single page.
SpansKept == \A s \in Req : rq'[s].first = rq'[s].last \/ (rq'[s].first = rq[s].first /\ rq'[s].last = rq[s].last)

LEMMA SpanServed == ASSUME TypeOK, NEW r, NEW p, NEW keep, rq' = Finalized(r, p, keep) PROVE SpansKept
<1>1. rq \in [Req -> ReqRec]
  BY TypesForm
<1>2. SUFFICES ASSUME NEW s \in Req PROVE rq'[s].first = rq[s].first /\ rq'[s].last = rq[s].last
  BY DEF SpansKept
<1>3. rq[s] \in ReqRec
  BY <1>1
<1>4. CASE s = r
  <2>1. rq'[s] = [rq[s] EXCEPT !.done = @ \cup {p}, !.held = @ \cup keep]
    BY <1>1, <1>4 DEF Finalized
  <2> QED BY <1>3, <2>1 DEF ReqRec
<1>5. CASE s # r
  BY <1>1, <1>5 DEF Finalized
<1> QED BY <1>4, <1>5

LEMMA SpanMet == ASSUME TypeOK, NEW t, NEW f, NEW r, NEW q, Write(t, f, r, q) \/ Read(t, f, r, q) PROVE SpansKept
<1>1. rq' = rq \/ \E p, keep : rq' = Finalized(r, p, keep)
  BY Zenon DEF Write, Read, StartRead, Enqueue, ReadReady, WriteReady
<1> QED BY <1>1, SpanServed DEF SpansKept

LEMMA SpanState == ASSUME TypeOK, NEW r, NEW v, NEW d, NEW h,
                          \/ rq' = [rq EXCEPT ![r].st = v] \/ rq' = [rq EXCEPT ![r].done = d, ![r].st = v]
                          \/ rq' = [rq EXCEPT ![r].st = v, ![r].held = h]
                   PROVE SpansKept
<1>1. rq \in [Req -> ReqRec]
  BY TypesForm
<1>2. SUFFICES ASSUME NEW s \in Req PROVE rq'[s].first = rq[s].first /\ rq'[s].last = rq[s].last
  BY DEF SpansKept
<1>3. rq[s] \in ReqRec
  BY <1>1
<1>4. CASE s = r
  <2>1. \/ rq'[s] = [rq[s] EXCEPT !.st = v] \/ rq'[s] = [rq[s] EXCEPT !.done = d, !.st = v]
        \/ rq'[s] = [rq[s] EXCEPT !.st = v, !.held = h]
    BY <1>1, <1>4
  <2> QED BY <1>3, <2>1 DEF ReqRec
<1>5. CASE s # r
  BY <1>1, <1>5
<1> QED BY <1>4, <1>5

LEMMA AccessForm == ASSUME NEW t \in Thread, NEW r \in Req, Access(t, r)
                    PROVE \E op \in Ops, p \in Page, m \in 0 .. MaxSpan - 1 : \E whole :
                             rq' = [rq EXCEPT ![r] = [NewReq EXCEPT !.st = IF th[t].proc = None THEN "taken" ELSE "queued",
                                                      !.op = op, !.io = t, !.first = p, !.last = p + m, !.whole = whole]]
<1>1. PICK op \in Ops, p \in Page, m \in 0 .. MaxSpan - 1 :
          \E whole \in IF op = "write" THEN {w \in SUBSET (p .. p + m) : (p + 1) .. (p + m - 1) \subseteq w} ELSE {{}} :
             rq' = [rq EXCEPT ![r] = [NewReq EXCEPT !.st = IF th[t].proc = None THEN "taken" ELSE "queued",
                                      !.op = op, !.io = t, !.first = p, !.last = p + m, !.whole = whole]]
  BY ZenonT(60) DEF Access
<1> QED BY <1>1, Zenon

LEMMA SpanAccess == ASSUME TypeOK, NEW t \in Thread, NEW r \in Req, Access(t, r) PROVE MaxSpan = 1 => SpansKept
<1>1. rq \in [Req -> ReqRec]
  BY TypesForm
<1>2. PICK op \in Ops, p \in Page, m \in 0 .. MaxSpan - 1 :
          \E whole : rq' = [rq EXCEPT ![r] = [NewReq EXCEPT !.st = IF th[t].proc = None THEN "taken" ELSE "queued",
                                              !.op = op, !.io = t, !.first = p, !.last = p + m, !.whole = whole]]
  BY AccessForm, ZenonT(60)
<1>3. PICK whole :
          rq' = [rq EXCEPT ![r] = [NewReq EXCEPT !.st = IF th[t].proc = None THEN "taken" ELSE "queued",
                                   !.op = op, !.io = t, !.first = p, !.last = p + m, !.whole = whole]]
  BY <1>2, Zenon
<1>4. PICK st : st = IF th[t].proc = None THEN "taken" ELSE "queued"
  OBVIOUS
<1>5. rq' = [rq EXCEPT ![r] = [NewReq EXCEPT !.st = st, !.op = op, !.io = t, !.first = p, !.last = p + m, !.whole = whole]]
  BY <1>3, <1>4
<1>6. MaxSpan = 1 => p + m = p
  BY NoneApart
<1>7. PICK new : new = [NewReq EXCEPT !.st = st, !.op = op, !.io = t, !.first = p, !.last = p + m, !.whole = whole]
  OBVIOUS
<1>8. MaxSpan = 1 => new.first = p /\ new.last = p
  BY <1>6, <1>7 DEF NewReq
<1>9. rq'[r] = new /\ \A s \in Req \ {r} : rq'[s] = rq[s]
  BY <1>1, <1>5, <1>7
<1> QED BY <1>8, <1>9 DEF SpansKept

LEMMA SpanStep == ASSUME MaxSpan = 1, TypeOK, \A r \in Req : WithinOnePage(r), [Next]_vars PROVE (\A r \in Req : WithinOnePage(r))'
<1>1. rq' = rq => SpansKept
  BY DEF SpansKept
<1>2. CASE UNCHANGED vars
  BY <1>2 DEF vars, WithinOnePage
<1>3. CASE \E io \in flight : Serve(io)
  <2>1. rq' = rq
    BY <1>3, Zenon DEF Serve
  <2> QED BY <2>1 DEF WithinOnePage
<1>4. ASSUME NEW t \in Thread, Application(t) PROVE SpansKept
  BY <1>1, <1>4, SpanAccess DEF Application, Wait4Complete
<1>5. ASSUME NEW t \in Thread, ProcessUserReq(t) PROVE SpansKept
  <2>1. CASE SearchHit(t) \/ SearchMiss(t) \/ SearchNull(t) \/ Classify(t)
    BY <1>1, <2>1, Zenon DEF SearchHit, SearchMiss, SearchNull, Classify
  <2>2. CASE WriteDirtyPage(t) \/ MergeForward(t) \/ MergeBackward(t) \/ WaitOldDirty(t) \/ UseRead(t)
    BY <1>1, <2>2, Zenon DEF WriteDirtyPage, MergeForward, MergeBackward, WaitOldDirty, UseRead
  <2>3. CASE UseWrite(t)
    <3>1. Write(t, th[t].cur, th[t].proc, que[t])
      BY <2>3, Zenon DEF UseWrite
    <3> QED BY <3>1, SpanMet
  <2>4. CASE FlushBatch(t)
    <3>1. \/ StartRead(t, Head(th[t].batch), th[t].proc, que[t]) \/ Enqueue(t, Head(th[t].batch), th[t].proc, que[t])
          \/ ReadReady(t, Head(th[t].batch), th[t].proc, que[t])
      BY <2>4, Zenon DEF FlushBatch
    <3>2. rq' = rq \/ \E p, keep : rq' = Finalized(th[t].proc, p, keep)
      BY <3>1 DEF StartRead, Enqueue, ReadReady
    <3> QED BY <1>1, <3>2, SpanServed
  <2>5. CASE Return(t)
    <3>1. rq' = rq \/ \E r : rq' = [rq EXCEPT ![r].st = "taken"]
      BY <2>5 DEF Return
    <3> QED BY <1>1, <3>1, SpanState
  <2> QED BY <1>5, <2>1, <2>2, <2>3, <2>4, <2>5 DEF ProcessUserReq
<1>6. ASSUME NEW t \in Thread, ProcessAllRequests(t) PROVE SpansKept
  <2>1. CASE DiskCompletion(t) \/ NextPhase(t) \/ Wake(t)
    BY <1>1, <2>1, Zenon DEF DiskCompletion, NextPhase, Wake
  <2>2. CASE HandlePending(t)
    <3>1. \E f, r, q : Write(t, f, r, q) \/ Read(t, f, r, q)
      BY <2>2, Zenon DEF HandlePending
    <3> QED BY <3>1, SpanMet
  <2>3. CASE CachedReq(t)
    <3>1. \E r, d : rq' = [rq EXCEPT ![r].done = d, ![r].st = "done"]
      BY <2>3, Zenon DEF CachedReq
    <3> QED BY <3>1, SpanState
  <2>4. CASE CompletedReq(t)
    <3>1. \E r : rq' = [rq EXCEPT ![r].st = "done", ![r].held = {}]
      BY <2>4, Zenon DEF CompletedReq
    <3> QED BY <3>1, SpanState
  <2> QED BY <1>6, <2>1, <2>2, <2>3, <2>4 DEF ProcessAllRequests
<1>7. SpansKept => (\A r \in Req : WithinOnePage(r))'
  BY DEF SpansKept, WithinOnePage
<1> QED BY <1>2, <1>3, <1>4, <1>5, <1>6, <1>7 DEF Next

\* With requests of one page no write is lost, whatever the application does.
THEOREM CacheNoLostWriteOnePage == ASSUME ~Voter, ~LargeWrite, MaxSpan = 1 PROVE Spec => []NoLostWrite
<1>1. Init => TypeOK /\ \A r \in Req : WithinOnePage(r)
  BY InitInv, Parts DEF Init, NewReq, WithinOnePage
<1>2. IInv /\ (\A r \in Req : WithinOnePage(r)) /\ [Next]_vars => (\A r \in Req : WithinOnePage(r))'
  BY SpanStep, Parts
<1>3. (\A r \in Req : WithinOnePage(r)) => OnePageWrites
  BY DEF OnePageWrites
<1>4. Spec => []OnePageWrites
  BY <1>1, <1>2, <1>3, CacheInvariant, PTL DEF Spec
<1> QED BY <1>4, CacheNoLostWrite, PTL

=============================================================================
