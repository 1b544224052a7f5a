--------------------------- MODULE GlobalCacheProofs ---------------------------
(***************************************************************************)
(* The steps in which a request meets its page or the disk answers keep    *)
(* the invariant of GlobalCacheInv; so every step does, and the page cache *)
(* counts its references, has one I/O where one is pending, completes      *)
(* every request once, and leaves nobody waiting on a page that nobody     *)
(* will answer for.                                                        *)
(***************************************************************************)
EXTENDS GlobalCacheInv

-------------------------------------------------------------------------------
(* A request meets its page: __read, __write and read()                    *)

\* The request when a page of it has been served.
LEMMA FinalizedForm == ASSUME TypeOK, NEW r \in Req, NEW p \in Page, NEW keep \in SUBSET Frame, rq' = Finalized(r, p, keep)
                       PROVE /\ rq' \in [Req -> ReqRec] /\ (\A s \in Req \ {r} : rq'[s] = rq[s])
                             /\ rq'[r].st = rq[r].st /\ rq'[r].op = rq[r].op /\ rq'[r].io = rq[r].io /\ rq'[r].first = rq[r].first
                             /\ rq'[r].last = rq[r].last /\ rq'[r].done = rq[r].done \cup {p} /\ rq'[r].held = rq[r].held \cup keep
<1>1. rq \in [Req -> ReqRec] /\ rq[r] \in ReqRec
  BY TypesForm
<1>2. rq' = [rq EXCEPT ![r] = [rq[r] EXCEPT !.done = @ \cup {p}, !.held = @ \cup keep]]
  BY <1>1 DEF Finalized, ReqRec
<1>3. [rq[r] EXCEPT !.done = @ \cup {p}, !.held = @ \cup keep] \in ReqRec
  BY <1>1 DEF ReqRec
<1>4. /\ rq' \in [Req -> ReqRec] /\ (\A s \in Req \ {r} : rq'[s] = rq[s])
      /\ rq'[r] = [rq[r] EXCEPT !.done = @ \cup {p}, !.held = @ \cup keep]
  BY <1>1, <1>2, <1>3
<1> QED BY <1>1, <1>4 DEF ReqRec

\* The queues of a thread that works with q.
QueuesNext(t, q) ==
    /\ que' \in [Thread -> QueRec] /\ \A u \in Thread \ {t} : que'[u] = que[u]
    /\ que'[t].pend = q.pend /\ que'[t].cached = q.cached /\ que'[t].user = q.user /\ que'[t].disk = q.disk
    /\ QueuesAt(t)' /\ IsInjective(que'[t].comp)
QueuesLike(t, q) ==
    /\ q \in QueRec /\ q.cached = que[t].cached /\ q.user = que[t].user /\ q.disk = que[t].disk /\ q.comp = que[t].comp
    /\ ToSet(q.pend) \subseteq ToSet(que[t].pend)

\* A queue of completed requests that has grown.
LEMMA CompForm == ASSUME NEW q \in QueRec, NEW c \in Seq(Req)
                  PROVE LET n == [q EXCEPT !.comp = c] IN
                        n \in QueRec /\ n.comp = c /\ n.pend = q.pend /\ n.cached = q.cached /\ n.user = q.user /\ n.disk = q.disk
BY DEF QueRec

LEMMA CompletedForm == ASSUME NEW q \in QueRec, NEW r \in Req, NEW p, IsInjective(q.comp), r \notin ToSet(q.comp)
                       PROVE LET n == CompletedQueue(q, r, p) IN
                             /\ n \in QueRec /\ n.pend = q.pend /\ n.cached = q.cached /\ n.user = q.user /\ n.disk = q.disk
                             /\ IsInjective(n.comp)
                             /\ \A s \in ToSet(n.comp) : s \in ToSet(q.comp) \/ (s = r /\ rq[r].done \cup {p} = PagesOf(r))
<1> DEFINE c == Append(q.comp, r)
<1>1. q.comp \in Seq(Req)
  BY DEF QueRec
<1>2. c \in Seq(Req) /\ ToSet(c) = ToSet(q.comp) \cup {r} /\ IsInjective(c)
  BY <1>1, SeqAppend
<1>3. CASE rq[r].done \cup {p} = PagesOf(r)
  <2> DEFINE n == CompletedQueue(q, r, p)
  <2>1. n = [q EXCEPT !.comp = c]
    BY <1>3 DEF CompletedQueue
  <2> HIDE DEF n, c
  <2>2. n \in QueRec /\ n.comp = c /\ n.pend = q.pend /\ n.cached = q.cached /\ n.user = q.user /\ n.disk = q.disk
    BY <1>2, <2>1, CompForm
  <2>3. /\ n \in QueRec /\ n.pend = q.pend /\ n.cached = q.cached /\ n.user = q.user /\ n.disk = q.disk
        /\ IsInjective(n.comp)
        /\ \A s \in ToSet(n.comp) : s \in ToSet(q.comp) \/ (s = r /\ rq[r].done \cup {p} = PagesOf(r))
    BY <1>2, <1>3, <2>2
  <2> QED BY <2>3 DEF n
<1>4. CASE rq[r].done \cup {p} # PagesOf(r)
  BY <1>4 DEF CompletedQueue
<1> QED BY <1>3, <1>4

\* A page of a request has been served.
LEMMA QueuesServed == ASSUME IInv, NEW t \in Thread, NEW f \in Frame, NEW r \in Req, NEW k \in Kind \ {"held"}, In(f, r, k),
                             NEW q, QueuesLike(t, q), NEW keep \in SUBSET Frame,
                             rq' = Finalized(r, frame[f].id, keep), rq[r].io = t,
                             que' = [que EXCEPT ![t] = CompletedQueue(q, r, frame[f].id)]
                      PROVE QueuesNext(t, q)
<1> DEFINE p == frame[f].id
           n == CompletedQueue(q, r, p)
<1>1. TypeOK /\ QueuesAt(t) /\ RepeatsAt(t)
  BY Parts
<1>2. p \in Page /\ p \in PagesOf(r) /\ p \notin rq[r].done /\ rq[r].st = "taken"
  BY WithFrame
<1>3. /\ (\A s \in Req \ {r} : rq'[s] = rq[s])
      /\ rq'[r].st = rq[r].st /\ rq'[r].io = rq[r].io /\ rq'[r].first = rq[r].first
      /\ rq'[r].last = rq[r].last /\ rq'[r].done = rq[r].done \cup {p}
  BY <1>1, <1>2, FinalizedForm
<1>4. q \in QueRec /\ q.comp = que[t].comp /\ IsInjective(q.comp)
  BY <1>1 DEF QueuesLike, RepeatsAt
<1>5. r \notin ToSet(q.comp)
  BY <1>1, <1>2, <1>4 DEF QueuesAt
<1>6. que' = [que EXCEPT ![t] = n]
  OBVIOUS
<1>7. /\ n \in QueRec /\ n.pend = q.pend /\ n.cached = q.cached /\ n.user = q.user /\ n.disk = q.disk
      /\ IsInjective(n.comp)
      /\ \A s \in ToSet(n.comp) : s \in ToSet(q.comp) \/ (s = r /\ rq[r].done \cup {p} = PagesOf(r))
  BY <1>4, <1>5, CompletedForm
<1> HIDE DEF p, n
<1>8. que \in [Thread -> QueRec]
  BY <1>1, TypesForm
<1>9. que' \in [Thread -> QueRec] /\ que'[t] = n /\ \A u \in Thread \ {t} : que'[u] = que[u]
  BY <1>6, <1>7, <1>8
<1>10. \A s \in Req : rq'[s].io = rq[s].io /\ rq'[s].st = rq[s].st /\ rq'[s].first = rq[s].first /\ rq'[s].last = rq[s].last
  BY <1>3
<1>11. que[t].pend \in Seq(Frame \X Req) /\ que[t].cached \in Seq(Frame \X Req) /\ que[t].comp \in Seq(Req) /\ que[t].user \in Seq(Req)
  BY <1>1, Records
<1>12. (\A x \in ToSet(que[t].pend) : x[2] \in Req) /\ (\A x \in ToSet(que[t].cached) : x[2] \in Req)
  <2>1. ToSet(que[t].pend) \subseteq Frame \X Req /\ ToSet(que[t].cached) \subseteq Frame \X Req
    BY <1>11, SeqSet
  <2> QED BY <2>1
<1>13. (\A s \in ToSet(que[t].comp) : s \in Req) /\ (\A s \in ToSet(que[t].user) : s \in Req)
  BY <1>11, SeqSet
<1>14. /\ \A x \in ToSet(que'[t].pend) : rq'[x[2]].io = t
       /\ \A x \in ToSet(que'[t].cached) : rq'[x[2]].io = t /\ WithinOnePage(x[2])'
       /\ \A s \in ToSet(que'[t].user) : rq'[s].io = t /\ rq'[s].st = "queued"
  BY <1>1, <1>7, <1>9, <1>10, <1>12, <1>13 DEF QueuesAt, QueuesLike, WithinOnePage
<1>15. ASSUME NEW s \in ToSet(que'[t].comp) PROVE rq'[s].io = t /\ rq'[s].st = "taken" /\ rq'[s].done = PagesOf(s)'
  <2>1. CASE s = r
    <3>1. rq[r].done \cup {p} = PagesOf(r)
      BY <1>5, <1>7, <1>9, <2>1
    <3> QED BY <1>2, <1>3, <2>1, <3>1 DEF PagesOf
  <2>2. CASE s # r
    <3>1. s \in ToSet(que[t].comp)
      BY <1>4, <1>7, <1>9, <2>2
    <3>2. rq'[s] = rq[s]
      BY <1>3, <1>13, <2>2, <3>1
    <3> QED BY <1>1, <3>1, <3>2 DEF QueuesAt, PagesOf
  <2> QED BY <2>1, <2>2
<1>16. QueuesAt(t)'
  BY <1>14, <1>15 DEF QueuesAt
<1> QED BY <1>7, <1>9, <1>16 DEF QueuesNext

\* No request has been served.
LEMMA QueuesKept == ASSUME IInv, NEW t \in Thread, NEW q, QueuesLike(t, q), rq' = rq, que' = [que EXCEPT ![t] = q]
                    PROVE QueuesNext(t, q)
<1>1. TypeOK /\ QueuesAt(t) /\ RepeatsAt(t)
  BY Parts
<1>2. /\ q \in QueRec /\ q.cached = que[t].cached /\ q.user = que[t].user /\ q.disk = que[t].disk /\ q.comp = que[t].comp
      /\ ToSet(q.pend) \subseteq ToSet(que[t].pend)
  BY DEF QueuesLike
<1>3. que \in [Thread -> QueRec]
  BY <1>1, TypesForm
<1>4. que' \in [Thread -> QueRec] /\ que'[t] = q /\ \A u \in Thread \ {t} : que'[u] = que[u]
  BY <1>2, <1>3
<1>5. QueuesAt(t)'
  BY <1>1, <1>2, <1>4 DEF QueuesAt, WithinOnePage, PagesOf
<1> QED BY <1>1, <1>2, <1>4, <1>5 DEF QueuesNext, RepeatsAt

\* The frames after a write to page p in frame f.
LEMMA WrittenForm == ASSUME NEW fr \in [Frame -> FrameRec], NEW f \in Frame, NEW p \in Page, NEW whole \in BOOLEAN
                     PROVE /\ Written(fr, f, p, whole) \in [Frame -> FrameRec]
                           /\ \A g \in Frame : LET n == Written(fr, f, p, whole)[g] IN
                                 /\ n.id = fr[g].id /\ n.ready = fr[g].ready /\ n.pending = fr[g].pending /\ n.oldDirty = fr[g].oldDirty
                                 /\ n.ref = fr[g].ref /\ n.reqs = fr[g].reqs /\ n.dirty = (fr[g].dirty \/ g = f)
<1> DEFINE w == Written(fr, f, p, whole)
<1>1. ASSUME NEW g \in Frame
      PROVE /\ w[g] \in FrameRec /\ w[g].id = fr[g].id /\ w[g].ready = fr[g].ready /\ w[g].pending = fr[g].pending
            /\ w[g].oldDirty = fr[g].oldDirty /\ w[g].ref = fr[g].ref /\ w[g].reqs = fr[g].reqs /\ w[g].dirty = (fr[g].dirty \/ g = f)
  <2>1. fr[g] \in FrameRec /\ fr[f] \in FrameRec
    OBVIOUS
  <2>2. CASE g = f
    <3>1. w[g] = [fr[f] EXCEPT !.dirty = TRUE, !.dataOf = p, !.fresh = whole \/ (fr[f].fresh /\ fr[f].dataOf = p)]
      BY <2>2 DEF Written
    <3> DEFINE b == whole \/ (fr[f].fresh /\ fr[f].dataOf = p)
    <3>2. b \in BOOLEAN
      OBVIOUS
    <3> HIDE DEF b, w
    <3>3. w[g] = [fr[f] EXCEPT !.dirty = TRUE, !.dataOf = p, !.fresh = b]
      BY <3>1 DEF b
    <3> QED BY <2>1, <2>2, <3>2, <3>3 DEF FrameRec
  <2>3. CASE g # f /\ fr[g].dataOf = p
    <3>1. w[g] = [fr[g] EXCEPT !.fresh = FALSE]
      BY <2>3 DEF Written
    <3> HIDE DEF w
    <3> QED BY <2>1, <2>3, <3>1 DEF FrameRec
  <2>4. CASE g # f /\ fr[g].dataOf # p
    <3>1. w[g] = fr[g]
      BY <2>4 DEF Written
    <3> HIDE DEF w
    <3>2. fr[g].dirty \in BOOLEAN
      BY <2>1 DEF FrameRec
    <3> QED BY <2>1, <2>4, <3>1, <3>2
  <2> QED BY <2>2, <2>3, <2>4
<1>2. w = [g \in Frame |-> w[g]]
  BY DEF Written
<1> QED BY <1>1, <1>2, Zenon

\* The page after it served the request: place l is "held" when the request keeps it.
Gave(pg, n, l) ==
    /\ n.id = pg.id /\ n.ready = TRUE /\ n.pending = pg.pending /\ n.oldDirty = pg.oldDirty /\ n.reqs = pg.reqs
    /\ n.ref = IF l = "none" THEN pg.ref - 1 ELSE pg.ref
Keeps(f, l) == IF l = "held" THEN {f} ELSE {}

\* What becomes of request r of thread t at frame f: an I/O of the page begins, the request joins its list, or is served.
Met(f, r, l) ==
    \/ (l = "reqs" /\ rq' = rq /\ ~frame[f].ready /\ ~frame[f].pending /\ Started(frame[f], frame'[f], r, "read"))
    \/ (l = "reqs" /\ rq' = rq /\ frame[f].pending /\ frame'[f] = AddReq(frame[f], r))
    \/ (l \in {"none", "held"} /\ (frame[f].ready \/ ~frame[f].pending) /\ Gave(frame[f], frame'[f], l) /\ rq' = Finalized(r, frame[f].id, Keeps(f, l)))
Meeting(t, f, r, q, l) ==
    /\ Met(f, r, l) /\ ListsNext(f, r, l) /\ QueuesNext(t, q) /\ rq' \in [Req -> ReqRec]
    /\ frame' \in [Frame -> FrameRec] /\ disk' \in [Page -> BOOLEAN] /\ raced' = raced
    /\ (\A g \in Frame \ {f} : Same(g)) /\ (\A g \in Frame : frame'[g].id = frame[g].id /\ frame'[g].oldDirty = frame[g].oldDirty)
    /\ rq'[r].op = rq[r].op /\ rq'[r].last = rq[r].last /\ rq'[r].first = rq[r].first /\ rq'[r].io = rq[r].io /\ rq'[r].st = rq[r].st
    /\ rq'[r].done \subseteq rq[r].done \cup {frame[f].id} /\ \A s \in Req \ {r} : rq'[s] = rq[s]

LEMMA MeetStart == ASSUME IInv, NEW t \in Thread, NEW f \in Frame, NEW r \in Req, NEW q, QueuesLike(t, q),
                          ~frame[f].ready, ~frame[f].pending, StartRead(t, f, r, q)
                   PROVE Meeting(t, f, r, q, "reqs") /\ frame'[f].pending
<1>1. TypeOK /\ frame[f] \in FrameRec /\ rq \in [Req -> ReqRec] /\ disk \in [Page -> BOOLEAN]
  BY Parts, Records, TypesForm
<1> DEFINE m == [frame[f] EXCEPT !.pending = TRUE]
           pg == AddReq(m, r)
<1>2. /\ m \in FrameRec /\ m.id = frame[f].id /\ m.ready = frame[f].ready /\ m.pending = TRUE /\ m.dirty = frame[f].dirty
      /\ m.oldDirty = frame[f].oldDirty /\ m.ref = frame[f].ref /\ m.reqs = frame[f].reqs
  BY <1>1 DEF FrameRec
<1>3. frame' = [frame EXCEPT ![f] = pg] /\ que' = [que EXCEPT ![t] = q] /\ disk' = disk /\ raced' = raced /\ rq' = rq
  BY DEF StartRead
<1> HIDE DEF m
<1>4. /\ pg \in FrameRec /\ pg.id = m.id /\ pg.ready = m.ready /\ pg.pending = m.pending /\ pg.dirty = m.dirty
      /\ pg.oldDirty = m.oldDirty /\ pg.ref = m.ref /\ ToSet(pg.reqs) = ToSet(m.reqs) \cup {r}
  BY <1>2, AddReqForm
<1>5. pg.reqs = <<r>> \o m.reqs
  BY <1>2 DEF AddReq, FrameRec
<1> HIDE DEF pg
<1>6. Started(frame[f], pg, r, "read")
  BY <1>2, <1>4, <1>5 DEF Started
<1>7. frame' \in [Frame -> FrameRec] /\ frame'[f] = pg /\ \A g \in Frame \ {f} : frame'[g] = frame[g] /\ Same(g)
  BY <1>3, <1>4, OneFrameSet
<1>8. QueuesNext(t, q)
  BY <1>3, QueuesKept
<1>9. ListsNext(f, r, "reqs")
  BY <1>2, <1>3, <1>4, <1>7 DEF ListsNext
<1>10. Met(f, r, "reqs")
  BY <1>3, <1>6, <1>7 DEF Met
<1>11. \A g \in Frame : frame'[g].id = frame[g].id /\ frame'[g].oldDirty = frame[g].oldDirty
  BY <1>2, <1>4, <1>7
<1> QED BY <1>1, <1>2, <1>3, <1>4, <1>7, <1>8, <1>9, <1>10, <1>11 DEF Meeting

LEMMA MeetList == ASSUME IInv, NEW t \in Thread, NEW f \in Frame, NEW r \in Req, NEW q, QueuesLike(t, q), frame[f].pending, Enqueue(t, f, r, q)
                  PROVE Meeting(t, f, r, q, "reqs")
<1>1. TypeOK /\ frame[f] \in FrameRec /\ rq \in [Req -> ReqRec] /\ disk \in [Page -> BOOLEAN]
  BY Parts, Records, TypesForm
<1> DEFINE pg == AddReq(frame[f], r)
<1>2. /\ pg \in FrameRec /\ pg.id = frame[f].id /\ pg.oldDirty = frame[f].oldDirty /\ ToSet(pg.reqs) = ToSet(frame[f].reqs) \cup {r}
  BY <1>1, AddReqForm
<1>3. frame' = [frame EXCEPT ![f] = pg] /\ que' = [que EXCEPT ![t] = q] /\ disk' = disk /\ raced' = raced /\ rq' = rq
  BY DEF Enqueue
<1> HIDE DEF pg
<1>4. frame' \in [Frame -> FrameRec] /\ frame'[f] = pg /\ \A g \in Frame \ {f} : frame'[g] = frame[g] /\ Same(g)
  BY <1>2, <1>3, OneFrameSet
<1>5. QueuesNext(t, q)
  BY <1>3, QueuesKept
<1>6. ListsNext(f, r, "reqs")
  BY <1>2, <1>3, <1>4 DEF ListsNext
<1>7. Met(f, r, "reqs")
  BY <1>3, <1>4 DEF Met, pg
<1>8. \A g \in Frame : frame'[g].id = frame[g].id /\ frame'[g].oldDirty = frame[g].oldDirty
  BY <1>2, <1>4
<1> QED BY <1>1, <1>3, <1>4, <1>5, <1>6, <1>7, <1>8 DEF Meeting

\* What is common to the ways a request is served.
LEMMA MeetServed == ASSUME IInv, NEW t \in Thread, NEW f \in Frame, NEW r \in Req, NEW k \in Kind \ {"held"}, In(f, r, k), rq[r].io = t,
                           NEW q, QueuesLike(t, q), NEW l \in {"none", "held"}, frame[f].ready \/ ~frame[f].pending,
                           frame' \in [Frame -> FrameRec], disk' \in [Page -> BOOLEAN], raced' = raced,
                           \A g \in Frame \ {f} : Same(g), Gave(frame[f], frame'[f], l),
                           rq' = Finalized(r, frame[f].id, Keeps(f, l)), que' = [que EXCEPT ![t] = CompletedQueue(q, r, frame[f].id)]
                    PROVE Meeting(t, f, r, q, l)
<1> DEFINE keep == Keeps(f, l)
           p == frame[f].id
<1>1. TypeOK /\ p \in Page
  BY Parts, WithFrame
<1>2. keep \in SUBSET Frame /\ rq' = Finalized(r, frame[f].id, keep)
  BY DEF Keeps
<1> HIDE DEF keep
<1>3. /\ rq' \in [Req -> ReqRec] /\ (\A s \in Req \ {r} : rq'[s] = rq[s])
      /\ rq'[r].st = rq[r].st /\ rq'[r].op = rq[r].op /\ rq'[r].io = rq[r].io /\ rq'[r].first = rq[r].first
      /\ rq'[r].last = rq[r].last /\ rq'[r].done = rq[r].done \cup {p} /\ rq'[r].held = rq[r].held \cup keep
  BY <1>1, <1>2, FinalizedForm
<1>4. QueuesNext(t, q)
  BY <1>2, QueuesServed
<1>5. \A g \in Frame : frame'[g].id = frame[g].id /\ frame'[g].oldDirty = frame[g].oldDirty /\ frame'[g].reqs = frame[g].reqs
  BY DEF Same, Gave
<1>6. ListsNext(f, r, l)
  BY <1>3, <1>5 DEF ListsNext, keep, Keeps
<1>7. Met(f, r, l)
  BY DEF Met
<1> QED BY <1>3, <1>4, <1>5, <1>6, <1>7 DEF Meeting

LEMMA RefForm == ASSUME NEW pg \in FrameRec, NEW x \in Nat
                 PROVE LET n == [pg EXCEPT !.ref = x] IN
                       /\ n \in FrameRec /\ n.ref = x /\ n.id = pg.id /\ n.ready = pg.ready /\ n.pending = pg.pending
                       /\ n.dirty = pg.dirty /\ n.oldDirty = pg.oldDirty /\ n.reqs = pg.reqs
BY DEF FrameRec

LEMMA MeetRead == ASSUME IInv, NEW t \in Thread, NEW f \in Frame, NEW r \in Req, NEW k \in Kind \ {"held"}, In(f, r, k), rq[r].io = t,
                         NEW q, QueuesLike(t, q), frame[f].ready, ReadReady(t, f, r, q)
                  PROVE \E l \in {"none", "held"} : Meeting(t, f, r, q, l)
<1>1. TypeOK /\ frame[f] \in FrameRec /\ frame[f].ref \in Nat /\ disk \in [Page -> BOOLEAN]
  BY Parts, Records, TypesForm
<1>2. frame[f].ref # 0
  BY WithFrame
<1> DEFINE keep == IF rq[r].op = "compute" THEN {f} ELSE {}
           l == IF rq[r].op = "compute" THEN "held" ELSE "none"
           x == IF keep = {} THEN frame[f].ref - 1 ELSE frame[f].ref
           pg == [frame[f] EXCEPT !.ref = x]
<1>3. /\ frame' = [frame EXCEPT ![f].ref = IF keep = {} THEN @ - 1 ELSE @] /\ rq' = Finalized(r, frame[f].id, keep)
      /\ que' = [que EXCEPT ![t] = CompletedQueue(q, r, frame[f].id)] /\ disk' = disk /\ raced' = raced
  BY Zenon DEF ReadReady
<1>4. frame' = [frame EXCEPT ![f] = pg]
  BY <1>3
<1>5. x \in Nat /\ keep = Keeps(f, l) /\ l \in {"none", "held"} /\ x = IF l = "none" THEN frame[f].ref - 1 ELSE frame[f].ref
  BY <1>1, <1>2 DEF Keeps
<1> HIDE DEF x, l, keep
<1>6. /\ pg \in FrameRec /\ pg.ref = x /\ pg.id = frame[f].id /\ pg.ready = frame[f].ready /\ pg.pending = frame[f].pending
      /\ pg.dirty = frame[f].dirty /\ pg.oldDirty = frame[f].oldDirty /\ pg.reqs = frame[f].reqs
  BY <1>1, <1>5, RefForm
<1> HIDE DEF pg
<1>7. frame' \in [Frame -> FrameRec] /\ frame'[f] = pg /\ \A g \in Frame \ {f} : frame'[g] = frame[g] /\ Same(g)
  BY <1>4, <1>6, OneFrameSet
<1>8. frame[f].ready \in BOOLEAN
  BY <1>1 DEF FrameRec
<1>9. Gave(frame[f], frame'[f], l)
  BY <1>5, <1>6, <1>7, <1>8 DEF Gave
<1>10. Meeting(t, f, r, q, l)
  <2>1. rq' = Finalized(r, frame[f].id, Keeps(f, l))
    BY <1>3, <1>5
  <2>2. que' = [que EXCEPT ![t] = CompletedQueue(q, r, frame[f].id)] /\ raced' = raced /\ disk' \in [Page -> BOOLEAN]
    BY <1>1, <1>3
  <2> QED BY <1>5, <1>7, <1>9, <2>1, <2>2, MeetServed
<1> QED BY <1>5, <1>10

LEMMA MeetWrite == ASSUME IInv, NEW t \in Thread, NEW f \in Frame, NEW r \in Req, NEW k \in Kind \ {"held"}, In(f, r, k), rq[r].io = t,
                          NEW q, QueuesLike(t, q), frame[f].ready \/ ~frame[f].pending, WriteReady(t, f, r, q)
                   PROVE Meeting(t, f, r, q, "none")
<1>1. TypeOK /\ frame[f] \in FrameRec /\ frame[f].ref \in Nat /\ disk \in [Page -> BOOLEAN] /\ frame \in [Frame -> FrameRec]
  BY Parts, Records, TypesForm
<1>2. frame[f].ref # 0 /\ frame[f].id \in Page
  BY WithFrame
<1> DEFINE p == frame[f].id
           fr == [frame EXCEPT ![f].ready = TRUE, ![f].ref = @ - 1]
           whole == p \in rq[r].whole
<1>3. /\ frame' = Written(fr, f, p, whole) /\ disk' = [disk EXCEPT ![p] = FALSE] /\ rq' = Finalized(r, p, {})
      /\ que' = [que EXCEPT ![t] = CompletedQueue(q, r, p)] /\ raced' = raced
  BY Zenon DEF WriteReady
<1>4. PICK x \in Nat : x = frame[f].ref - 1
  BY <1>1, <1>2
<1> DEFINE pg == [frame[f] EXCEPT !.ready = TRUE, !.ref = x]
<1>5. fr = [frame EXCEPT ![f] = pg]
  BY <1>1, <1>4
<1>6. /\ pg \in FrameRec /\ pg.ref = x /\ pg.id = frame[f].id /\ pg.ready = TRUE /\ pg.pending = frame[f].pending
      /\ pg.dirty = frame[f].dirty /\ pg.oldDirty = frame[f].oldDirty /\ pg.reqs = frame[f].reqs
  BY <1>1 DEF FrameRec
<1> HIDE DEF pg, fr
<1>7. fr \in [Frame -> FrameRec] /\ fr[f] = pg /\ \A g \in Frame \ {f} : fr[g] = frame[g]
  BY <1>1, <1>5, <1>6
<1>8. whole \in BOOLEAN
  OBVIOUS
<1> HIDE DEF p, whole
<1>9. p \in Page
  BY <1>2 DEF p
<1>10. /\ frame' \in [Frame -> FrameRec]
       /\ \A g \in Frame : /\ frame'[g].id = fr[g].id /\ frame'[g].ready = fr[g].ready /\ frame'[g].pending = fr[g].pending
                           /\ frame'[g].oldDirty = fr[g].oldDirty /\ frame'[g].ref = fr[g].ref /\ frame'[g].reqs = fr[g].reqs
                           /\ frame'[g].dirty = (fr[g].dirty \/ g = f)
  BY <1>3, <1>7, <1>8, <1>9, WrittenForm
<1>11. \A g \in Frame \ {f} : Same(g)
  <2>1. \A g \in Frame : fr[g].dirty \in BOOLEAN
    BY <1>7 DEF FrameRec
  <2> QED BY <1>7, <1>10, <2>1 DEF Same
<1>12. Gave(frame[f], frame'[f], "none")
  BY <1>4, <1>6, <1>7, <1>10 DEF Gave
<1>13. disk' \in [Page -> BOOLEAN]
  BY <1>1, <1>3, <1>9
<1>14. rq' = Finalized(r, frame[f].id, Keeps(f, "none")) /\ que' = [que EXCEPT ![t] = CompletedQueue(q, r, frame[f].id)]
  BY <1>3 DEF Keeps, p
<1>15. "none" \in {"none", "held"} /\ raced' = raced
  BY <1>3
<1> QED BY <1>10, <1>11, <1>12, <1>13, <1>14, <1>15, MeetServed

\* The I/O of the page that the request met: a read of it begins when it was not pending and now is.
CovNext(f) == \A o \in {"read", "write"} : CovBy(f, o)' <=> CovBy(f, o) \/ (o = "read" /\ frame'[f].pending /\ ~frame[f].pending)

LEMMA MetPage == ASSUME IInv, NEW t \in Thread, NEW f \in Frame, NEW r \in Req, NEW k \in Kind \ {"held", "reqs"}, In(f, r, k), ~frame[f].oldDirty,
                        NEW q, NEW l \in {"reqs", "held", "none"}, Meeting(t, f, r, q, l), Moved(f, r, l), CovNext(f)
                 PROVE CountedAt(f)' /\ FlagsAt(f)' /\ IsInjective(frame'[f].reqs) /\ RequestAt(r)'
<1>1. Met(f, r, l) /\ \A g \in Frame : frame'[g].id = frame[g].id
  BY DEF Meeting
<1>2. frame[f].id \in PagesOf(r) \ rq[r].done /\ rq[r].st = "taken"
  BY WithFrame
<1>3. frame[f] \in FrameRec
  BY Parts, Records
<1>4. k \in Kind /\ k # "reqs" /\ k \in Kind \ {"held"} /\ "reqs" \in Kind \ {"held"}
  BY DEF Kind
<1>5. CASE l = "reqs" /\ rq' = rq /\ ~frame[f].ready /\ ~frame[f].pending /\ Started(frame[f], frame'[f], r, "read")
  <2>1. frame'[f].pending
    BY <1>5 DEF Started
  <2>2. \A o \in {"read", "write"} : CovBy(f, o)' <=> CovBy(f, o) \/ o = "read"
    BY <1>5, <2>1 DEF CovNext
  <2>3. "read" \in {"read", "write"}
    OBVIOUS
  <2>4. Moved(f, r, "reqs")
    BY <1>5
  <2>5. CountedAt(f)' /\ FlagsAt(f)' /\ IsInjective(frame'[f].reqs)
    BY <1>4, <1>5, <2>2, <2>3, <2>4, FrameStart
  <2>6. RequestAt(r)'
    BY <1>1, <1>2, <1>4, <1>5, <2>4, ReqMoved
  <2> QED BY <2>5, <2>6
<1>6. CASE l = "reqs" /\ rq' = rq /\ frame[f].pending /\ frame'[f] = AddReq(frame[f], r)
  <2>1. SameCov(f)
    BY <1>6 DEF SameCov, CovNext
  <2>2. EvictKept(f)
    BY DEF EvictKept
  <2>3. Moved(f, r, "reqs")
    BY <1>6
  <2>4. CountedAt(f)' /\ FlagsAt(f)' /\ IsInjective(frame'[f].reqs)
    BY <1>4, <1>6, <2>1, <2>2, <2>3, FrameEnlist
  <2>5. RequestAt(r)'
    BY <1>1, <1>2, <1>4, <1>6, <2>3, ReqMoved
  <2> QED BY <2>4, <2>5
<1>7. CASE l \in {"none", "held"} /\ (frame[f].ready \/ ~frame[f].pending) /\ Gave(frame[f], frame'[f], l) /\ rq' = Finalized(r, frame[f].id, Keeps(f, l))
  <2>1. /\ frame'[f].id = frame[f].id /\ frame'[f].ready = TRUE /\ frame'[f].pending = frame[f].pending
        /\ frame'[f].oldDirty = frame[f].oldDirty /\ frame'[f].reqs = frame[f].reqs
        /\ frame'[f].ref = IF l = "none" THEN frame[f].ref - 1 ELSE frame[f].ref
    BY <1>7 DEF Gave
  <2>2. SameCov(f)
    BY <2>1 DEF SameCov, CovNext
  <2>3. CountedAt(f)' /\ FlagsAt(f)' /\ IsInjective(frame'[f].reqs)
    BY <1>4, <1>7, <2>1, <2>2, FrameServe
  <2> DEFINE keep == Keeps(f, l)
  <2>4. keep \in {{}, {f}} /\ l = IF keep = {} THEN "none" ELSE "held"
    BY <1>7 DEF Keeps
  <2>5. rq' = Finalized(r, frame[f].id, keep)
    BY <1>7
  <2> HIDE DEF keep
  <2>6. Moved(f, r, IF keep = {} THEN "none" ELSE "held")
    BY <2>4
  <2>7. RequestAt(r)'
    BY <1>1, <1>4, <2>4, <2>5, <2>6, ReqServed
  <2> QED BY <2>3, <2>7
<1> QED BY <1>1, <1>5, <1>6, <1>7 DEF Met

\* The underlying I/O: a read of the page is sent, or nothing.
LEMMA MeetIO == ASSUME IInv, TypeOK', NEW t \in Thread, NEW f \in Frame, th[t].out = {}, th'[t].out = {},
                       th'[t].pc \notin {"mergeF", "mergeB"}, \A u \in Thread \ {t} : th'[u] = th[u],
                       \A u \in Thread : que'[u].disk = que[u].disk,
                       \A g \in Frame : frame'[g].oldDirty = frame[g].oldDirty,
                       \/ flight' = flight /\ ~(frame'[f].pending /\ ~frame[f].pending)
                       \/ frame'[f].pending /\ ~frame[f].pending /\ \E p \in Page : Send(Request(t, "read", {<<f, p>>}))
                PROVE IOApart' /\ SingleWrites' /\ CovNext(f) /\ \A g \in Frame \ {f} : SameCov(g)
<1>1. ASSUME NEW u \in Thread, th'[u].pc \in {"mergeF", "mergeB"}
      PROVE th[u].pc \in {"mergeF", "mergeB"} /\ th[u].out \subseteq th'[u].out /\ th'[u].old = th[u].old
  <2>1. u # t
    BY <1>1
  <2> QED BY <1>1, <2>1
<1>2. CASE flight' = flight /\ ~(frame'[f].pending /\ ~frame[f].pending)
  <2>1. \A u \in Thread : que'[u].disk = que[u].disk /\ th'[u].out = th[u].out /\ (th[u].out = {} \/ OutOp(u)' = OutOp(u))
    BY DEF OutOp
  <2>2. IOApart' /\ Ios' = Ios /\ \A g \in Frame : SameCov(g)
    BY <1>2, <2>1, IOSame
  <2>3. \A io \in Ios' : io \in Ios \/ io.op = "read"
    BY <2>2
  <2>4. SingleWrites'
    BY <1>1, <2>3, SingleSame
  <2>5. CovNext(f)
    BY <1>2, <2>2 DEF CovNext, SameCov
  <2> QED BY <2>2, <2>4, <2>5
<1>3. CASE frame'[f].pending /\ ~frame[f].pending /\ \E p \in Page : Send(Request(t, "read", {<<f, p>>}))
  <2>1. PICK p \in Page : Send(Request(t, "read", {<<f, p>>}))
    BY <1>3
  <2> DEFINE X == {<<f, p>>}
  <2>2. X \in SUBSET (Frame \X Page) /\ (\A g : Cov(X, g) <=> g = f) /\ {} \cup X = X /\ X # {}
    BY CovOne
  <2>3. ~CovBy(f, "read") /\ ~CovBy(f, "write")
    BY <1>3, Parts DEF FlagsAt
  <2>4. \E g \in Frame, x \in Page : X = {<<g, x>>} /\ ~CovBy(g, "read") /\ ~CovBy(g, "write")
    BY <2>3
  <2>5. flight' = flight \cup {Request(t, "read", X)}
    BY <2>1 DEF Send
  <2> HIDE DEF X
  <2>6. flight' = flight \cup {Request(t, "read", th[t].out \cup X)} /\ th'[t].out = {} /\ th[t].out \cup X # {}
    BY <2>2, <2>5
  <2>7. /\ IOApart'
        /\ \A g \in Frame, o \in {"read", "write"} : CovBy(g, o)' <=> CovBy(g, o) \/ (o = "read" /\ Cov(X, g))
    BY <2>2, <2>4, <2>6, IOAdd
  <2>8. Request(t, "read", X).op = "read"
    BY <2>2, RequestForm
  <2>9. \A io \in Ios' : io \in Ios \/ io.op = "read"
    BY <2>5, <2>8 DEF Ios
  <2>10. SingleWrites'
    BY <1>1, <2>9, SingleSame
  <2>11. CovNext(f) /\ \A g \in Frame \ {f} : SameCov(g)
    BY <1>3, <2>2, <2>7 DEF CovNext, SameCov
  <2> QED BY <2>7, <2>10, <2>11
<1> QED BY <1>2, <1>3

\* __write and __read.
LEMMA MeetForWrite == ASSUME IInv, NEW t \in Thread, NEW f \in Frame, NEW r \in Req, NEW k \in Kind \ {"held"}, In(f, r, k), rq[r].io = t,
                             NEW q, QueuesLike(t, q), Write(t, f, r, q)
                      PROVE \E l \in {"reqs", "held", "none"} :
                              /\ Meeting(t, f, r, q, l)
                              /\ \/ flight' = flight /\ ~(frame'[f].pending /\ ~frame[f].pending)
                                 \/ frame'[f].pending /\ ~frame[f].pending /\ \E p \in Page : Send(Request(t, "read", {<<f, p>>}))
<1>1. rq[r].first \in Page
  BY Parts, Records
<1>2. CASE /\ ~frame[f].ready /\ ~frame[f].pending /\ StartRead(t, f, r, q) /\ Send(Request(t, "read", {<<f, rq[r].first>>}))
  BY <1>1, <1>2, MeetStart
<1>3. CASE /\ ~frame[f].ready /\ frame[f].pending /\ Enqueue(t, f, r, q) /\ UNCHANGED flight
  BY <1>3, MeetList
<1>4. CASE (frame[f].ready \/ ~frame[f].pending) /\ WriteReady(t, f, r, q)
  <2>1. Meeting(t, f, r, q, "none")
    BY <1>4, MeetWrite
  <2>2. Gave(frame[f], frame'[f], "none")
    BY <2>1 DEF Meeting, Met
  <2>3. frame'[f].pending = frame[f].pending
    BY <2>2 DEF Gave
  <2>4. flight' = flight
    BY <1>4, Zenon DEF WriteReady
  <2> QED BY <2>1, <2>3, <2>4
<1>5. \/ /\ ~frame[f].ready /\ ~frame[f].pending /\ StartRead(t, f, r, q) /\ Send(Request(t, "read", {<<f, rq[r].first>>}))
      \/ /\ ~frame[f].ready /\ frame[f].pending /\ Enqueue(t, f, r, q) /\ UNCHANGED flight
      \/ (frame[f].ready \/ ~frame[f].pending) /\ WriteReady(t, f, r, q)
  BY Zenon DEF Write
<1> QED BY <1>2, <1>3, <1>4, <1>5

LEMMA MeetForRead == ASSUME IInv, NEW t \in Thread, NEW f \in Frame, NEW r \in Req, NEW k \in Kind \ {"held"}, In(f, r, k), rq[r].io = t,
                             NEW q, QueuesLike(t, q), Read(t, f, r, q)
                     PROVE \E l \in {"reqs", "held", "none"} :
                              /\ Meeting(t, f, r, q, l)
                              /\ \/ flight' = flight /\ ~(frame'[f].pending /\ ~frame[f].pending)
                                 \/ frame'[f].pending /\ ~frame[f].pending /\ \E p \in Page : Send(Request(t, "read", {<<f, p>>}))
<1>1. frame[f].id \in Page
  BY WithFrame
<1>2. CASE /\ ~frame[f].ready /\ ~frame[f].pending /\ StartRead(t, f, r, q) /\ Send(Request(t, "read", {<<f, frame[f].id>>}))
  BY <1>1, <1>2, MeetStart
<1>3. CASE /\ ~frame[f].ready /\ frame[f].pending /\ Enqueue(t, f, r, q) /\ UNCHANGED flight
  BY <1>3, MeetList
<1>4. CASE frame[f].ready /\ ReadReady(t, f, r, q) /\ UNCHANGED flight
  <2>1. PICK l \in {"none", "held"} : Meeting(t, f, r, q, l)
    BY <1>4, MeetRead
  <2>2. Gave(frame[f], frame'[f], l)
    BY <2>1 DEF Meeting, Met
  <2>3. frame'[f].pending = frame[f].pending
    BY <2>2 DEF Gave
  <2> QED BY <1>4, <2>1, <2>3
<1>5. \/ /\ ~frame[f].ready /\ ~frame[f].pending /\ StartRead(t, f, r, q) /\ Send(Request(t, "read", {<<f, frame[f].id>>}))
      \/ /\ ~frame[f].ready /\ frame[f].pending /\ Enqueue(t, f, r, q) /\ UNCHANGED flight
      \/ frame[f].ready /\ ReadReady(t, f, r, q) /\ UNCHANGED flight
  BY Zenon DEF Read, ReadIO
<1> QED BY <1>2, <1>3, <1>4, <1>5

\* Types after such a step.
LEMMA MeetTypes == ASSUME IInv, NEW t \in Thread, NEW f \in Frame, NEW r \in Req, NEW q, NEW l, Meeting(t, f, r, q, l), th' \in [Thread -> ThRec],
                          \/ flight' = flight /\ ~(frame'[f].pending /\ ~frame[f].pending)
                          \/ frame'[f].pending /\ ~frame[f].pending /\ \E p \in Page : Send(Request(t, "read", {<<f, p>>}))
                   PROVE TypeOK'
<1>1. flight \subseteq IO /\ raced \subseteq Page
  BY Parts, TypesForm
<1>2. flight' \subseteq IO
  <2>1. CASE flight' = flight
    BY <1>1, <2>1
  <2>2. CASE \E p \in Page : Send(Request(t, "read", {<<f, p>>}))
    <3>1. PICK p \in Page : Send(Request(t, "read", {<<f, p>>}))
      BY <2>2
    <3>2. {<<f, p>>} \in SUBSET (Frame \X Page)
      BY CovOne
    <3>3. Request(t, "read", {<<f, p>>}) \in IO
      BY <3>2, RequestForm
    <3> QED BY <1>1, <3>1, <3>3 DEF Send
  <2> QED BY <2>1, <2>2
<1> QED BY <1>1, <1>2, TypesNext DEF Meeting, QueuesNext

\* The page is written to.
LEMMA UseWriteStep == ASSUME IInv, NEW t \in Thread, UseWrite(t) PROVE IInv'
<1>1. TypeOK /\ EvictorAt(t)
  BY Parts
<1>2. th[t].pc = "use" /\ Write(t, th[t].cur, th[t].proc, que[t]) /\ Looped(t, th[t])
  BY Zenon DEF UseWrite, Looped
<1>3. PICK f \in Frame, r \in Req :
         /\ f = th[t].cur /\ r = th[t].proc /\ rq[r].io = t /\ rq[r].st = "taken" /\ In(f, r, "cur")
         /\ frame[f].id \in PagesOf(r) \ rq[r].done /\ frame[f].id \in Page /\ frame[f].id + 1 = th[t].nxt
         /\ th[t].out = {} /\ (th[t].batch # <<>> => rq[r].op # "write")
  BY <1>2, HasPage
<1>4. ~frame[f].oldDirty
  BY <1>1, <1>2, <1>3 DEF EvictorAt
<1>5. PICK q : q = que[t]
  OBVIOUS
<1>6. QueuesLike(t, q)
  BY <1>1, <1>5, Records DEF QueuesLike
<1>7. Write(t, f, r, q) /\ "cur" \in Kind \ {"held"} /\ "cur" \in Kind \ {"held", "reqs"} /\ rq[r].io = t /\ In(f, r, "cur")
  BY <1>2, <1>3, <1>5 DEF Kind
<1>8. PICK l \in {"reqs", "held", "none"} :
         /\ Meeting(t, f, r, q, l)
         /\ \/ flight' = flight /\ ~(frame'[f].pending /\ ~frame[f].pending)
            \/ frame'[f].pending /\ ~frame[f].pending /\ \E p \in Page : Send(Request(t, "read", {<<f, p>>}))
  BY <1>6, <1>7, MeetForWrite
<1>9. /\ ListsNext(f, r, l) /\ QueuesNext(t, q) /\ (\A g \in Frame \ {f} : Same(g))
      /\ (\A g \in Frame : frame'[g].id = frame[g].id /\ frame'[g].oldDirty = frame[g].oldDirty)
      /\ rq'[r].op = rq[r].op /\ rq'[r].last = rq[r].last /\ rq'[r].first = rq[r].first /\ rq'[r].io = rq[r].io /\ rq'[r].st = rq[r].st
      /\ rq'[r].done \subseteq rq[r].done \cup {frame[f].id} /\ \A s \in Req \ {r} : rq'[s] = rq[s]
  BY <1>8 DEF Meeting
<1>10. /\ (\A u \in Thread \ {t} : que'[u] = que[u]) /\ que'[t].pend = que[t].pend /\ que'[t].cached = que[t].cached
       /\ que'[t].user = que[t].user /\ que'[t].disk = que[t].disk /\ QueuesAt(t)' /\ IsInjective(que'[t].comp)
  BY <1>5, <1>9 DEF QueuesNext
<1>11. /\ Moved(f, r, l) /\ th' \in [Thread -> ThRec] /\ (\A u \in Thread \ {t} : th'[u] = th[u])
       /\ th'[t].out = {} /\ th'[t].pc \in {"search", "flush", "ret"}
  BY <1>2, <1>3, <1>9, <1>10, LoopMoved
<1>12. TypeOK'
  BY <1>8, <1>11, MeetTypes
<1>13. IOApart' /\ SingleWrites' /\ CovNext(f) /\ \A g \in Frame \ {f} : SameCov(g)
  <2>1. /\ th[t].out = {} /\ th'[t].pc \notin {"mergeF", "mergeB"} /\ (\A u \in Thread : que'[u].disk = que[u].disk)
        /\ \A g \in Frame : frame'[g].oldDirty = frame[g].oldDirty
    BY <1>3, <1>9, <1>10, <1>11
  <2> QED BY <1>8, <1>11, <1>12, <2>1, MeetIO
<1>14. CountedAt(f)' /\ FlagsAt(f)' /\ IsInjective(frame'[f].reqs) /\ RequestAt(r)'
  BY <1>3, <1>4, <1>7, <1>8, <1>11, <1>13, MetPage
<1>15. th[t].pc \in {"got", "old", "use"}
  BY <1>2
<1> QED BY <1>2, <1>3, <1>4, <1>9, <1>10, <1>12, <1>13, <1>14, <1>15, LoopStep

\* A request of the queue of pending requests is with the frame at its head.
LEMMA PendingOne == ASSUME IInv, NEW t \in Thread, NEW f \in Frame, NEW r \in Req, que[t].pend # <<>>, Head(que[t].pend) = <<f, r>>, th[t].pc \in Idle,
                           NEW q, q.cached = que[t].cached, q.pend = Tail(que[t].pend), th' = th, QueuesNext(t, q),
                           NEW l \in {"reqs", "held", "none"}, ListsNext(f, r, l)
                    PROVE Moved(f, r, l)
<1>1. TypeOK /\ RepeatsAt(t) /\ ControlAt(t)
  BY Parts
<1>2. que[t].pend \in Seq(Frame \X Req) /\ IsInjective(que[t].pend)
  BY <1>1, Records DEF RepeatsAt
<1>3. <<f, r>> \in ToSet(que[t].pend) /\ ToSet(Tail(que[t].pend)) = ToSet(que[t].pend) \ {<<f, r>>}
  BY <1>2, SeqTail
<1>4. At(th[t], que[t], f, r, "pend") /\ "pend" \in Kind
  BY <1>3 DEF At, Kind
<1>5. In(f, r, "pend") /\ \A k \in Kind : In(f, r, k) => k = "pend"
  <2>1. In(f, r, "pend")
    BY <1>4 DEF In
  <2> QED BY <1>4, <2>1, WithFrame
<1>6. /\ ~In(f, r, "batch") /\ ~In(f, r, "cur") /\ ~In(f, r, "cached") /\ ~In(f, r, "acc") /\ ~In(f, r, "reqs") /\ ~In(f, r, "held")
  BY <1>5 DEF Kind
<1>7. que'[t].pend = Tail(que[t].pend) /\ que'[t].cached = que[t].cached /\ th'[t] = th[t] /\ \A u \in Thread \ {t} : que'[u] = que[u] /\ th'[u] = th[u]
  BY DEF QueuesNext
<1>8. ASSUME NEW g \in Frame, NEW s \in Req, NEW k \in Kind
      PROVE At(th'[t], que'[t], g, s, k) <=> IF g = f /\ s = r THEN k = l /\ l \notin {"reqs", "held"}
                                             ELSE At(th[t], que[t], g, s, k)
  <2>1. CASE k = "pend"
    <3>1. At(th'[t], que'[t], g, s, k) <=> <<g, s>> \in ToSet(Tail(que[t].pend))
      BY <1>7, <2>1 DEF At
    <3>2. At(th[t], que[t], g, s, k) <=> <<g, s>> \in ToSet(que[t].pend)
      BY <2>1 DEF At
    <3>3. <<g, s>> = <<f, r>> <=> g = f /\ s = r
      OBVIOUS
    <3> QED BY <1>3, <2>1, <3>1, <3>2, <3>3
  <2>2. CASE k # "pend"
    <3>1. At(th'[t], que'[t], g, s, k) <=> At(th[t], que[t], g, s, k)
      BY <1>7, <2>2 DEF At
    <3>2. g = f /\ s = r => ~At(th[t], que[t], g, s, k)
      BY <1>5, <2>2 DEF In
    <3>3. k # "none"
      BY DEF Kind
    <3> QED BY <3>1, <3>2, <3>3
  <2> QED BY <2>1, <2>2
<1>9. \A g \in Frame, s \in Req : s \in ToSet(frame'[g].reqs) <=> IF g = f /\ s = r THEN l = "reqs" ELSE s \in ToSet(frame[g].reqs)
  <2>1. r \notin ToSet(frame[f].reqs)
    BY <1>6 DEF In
  <2> QED BY <2>1 DEF ListsNext
<1>10. \A g \in Frame, s \in Req : g \in rq'[s].held <=> IF g = f /\ s = r THEN l = "held" ELSE g \in rq[s].held
  <2>1. f \notin rq[r].held
    BY <1>6 DEF In
  <2> QED BY <2>1 DEF ListsNext
<1> QED BY <1>4, <1>7, <1>8, <1>9, <1>10, OneMove

LEMMA PendForm == ASSUME NEW q \in QueRec, NEW s \in Seq(Frame \X Req)
                  PROVE LET n == [q EXCEPT !.pend = s] IN
                        n \in QueRec /\ n.pend = s /\ n.comp = q.comp /\ n.cached = q.cached /\ n.user = q.user /\ n.disk = q.disk
BY DEF QueRec

\* handle_pending_requests: the request is tried again.
LEMMA HandlePendingStep == ASSUME IInv, NEW t \in Thread, HandlePending(t) PROVE IInv'
<1>1. TypeOK /\ ControlAt(t) /\ EvictorAt(t) /\ RepeatsAt(t) /\ QueuesAt(t) /\ OneFrame
  BY Parts
<1>2. que[t] \in QueRec /\ que[t].pend \in Seq(Frame \X Req)
  BY <1>1, Records
<1> DEFINE x == Head(que[t].pend)
           s == Tail(que[t].pend)
           q == [que[t] EXCEPT !.pend = s]
<1>3. /\ th[t].pc = "pend" /\ que[t].pend # <<>> /\ th' = th
      /\ IF rq[x[2]].op = "write" THEN Write(t, x[1], x[2], q) ELSE Read(t, x[1], x[2], q)
  BY Zenon DEF HandlePending
<1>4. x \in Frame \X Req /\ s \in Seq(Frame \X Req) /\ x \in ToSet(que[t].pend) /\ ToSet(s) = ToSet(que[t].pend) \ {x} /\ IsInjective(s)
  BY <1>1, <1>2, <1>3, SeqTail DEF RepeatsAt
<1>5. PICK f \in Frame, r \in Req : x = <<f, r>>
  BY <1>4
<1>6. x[1] = f /\ x[2] = r
  BY <1>5
<1> HIDE DEF s
<1>7. q \in QueRec /\ q.pend = s /\ q.comp = que[t].comp /\ q.cached = que[t].cached /\ q.user = que[t].user /\ q.disk = que[t].disk
  BY <1>2, <1>4, PendForm
<1> HIDE DEF q
<1>8. QueuesLike(t, q)
  BY <1>4, <1>7 DEF QueuesLike
<1>9. In(f, r, "pend") /\ "pend" \in Kind \ {"held"} /\ "pend" \in Kind \ {"held", "reqs"} /\ "pend" \notin {"cur", "reqs"} /\ "pend" \in Kind
  BY <1>4, <1>5 DEF In, At, Kind
<1>10. rq[r].io = t
  BY <1>1, <1>4, <1>6 DEF QueuesAt
<1>11. ~frame[f].oldDirty
  BY <1>9, Parts DEF FlagsAt
<1>12. Write(t, f, r, q) \/ Read(t, f, r, q)
  BY <1>3, <1>6
<1>13. PICK l \in {"reqs", "held", "none"} :
         /\ Meeting(t, f, r, q, l)
         /\ \/ flight' = flight /\ ~(frame'[f].pending /\ ~frame[f].pending)
            \/ frame'[f].pending /\ ~frame[f].pending /\ \E p \in Page : Send(Request(t, "read", {<<f, p>>}))
  BY <1>8, <1>9, <1>10, <1>12, MeetForWrite, MeetForRead
<1>14. /\ ListsNext(f, r, l) /\ QueuesNext(t, q) /\ (\A g \in Frame \ {f} : Same(g))
       /\ (\A g \in Frame : frame'[g].id = frame[g].id /\ frame'[g].oldDirty = frame[g].oldDirty)
       /\ rq'[r].op = rq[r].op /\ rq'[r].last = rq[r].last /\ rq'[r].first = rq[r].first /\ rq'[r].io = rq[r].io /\ rq'[r].st = rq[r].st
       /\ rq'[r].done \subseteq rq[r].done \cup {frame[f].id} /\ \A v \in Req \ {r} : rq'[v] = rq[v]
  BY <1>13 DEF Meeting
<1>15. /\ (\A u \in Thread \ {t} : que'[u] = que[u]) /\ que'[t].pend = s /\ que'[t].cached = que[t].cached
       /\ que'[t].user = que[t].user /\ que'[t].disk = que[t].disk /\ QueuesAt(t)' /\ IsInjective(que'[t].comp)
  BY <1>7, <1>14 DEF QueuesNext
<1>16. th[t].pc \in Idle /\ q.pend = Tail(que[t].pend) /\ Head(que[t].pend) = <<f, r>>
  BY <1>3, <1>5, <1>7 DEF Idle, s
<1>17. Moved(f, r, l)
  BY <1>3, <1>7, <1>14, <1>16, PendingOne
<1>18. th' \in [Thread -> ThRec] /\ th[t].cur = None /\ th[t].out = {}
  BY <1>1, <1>3, TypesForm DEF ControlAt
<1>19. TypeOK'
  BY <1>13, <1>18, MeetTypes
<1>20. IOApart' /\ SingleWrites' /\ CovNext(f) /\ \A g \in Frame \ {f} : SameCov(g)
  <2>1. /\ th'[t].out = {} /\ th'[t].pc \notin {"mergeF", "mergeB"} /\ (\A u \in Thread \ {t} : th'[u] = th[u])
        /\ \A u \in Thread : que'[u].disk = que[u].disk
    BY <1>3, <1>15, <1>18
  <2> QED BY <1>13, <1>14, <1>18, <1>19, <2>1, MeetIO
<1>21. CountedAt(f)' /\ FlagsAt(f)' /\ IsInjective(frame'[f].reqs) /\ RequestAt(r)'
  BY <1>9, <1>11, <1>13, <1>17, <1>20, MetPage
<1>22. EvictorAt(t)'
  BY <1>3, <1>18, NoEvictor
<1>23. ControlAt(t)'
  <2>1. rq'[th[t].proc].last = rq[th[t].proc].last \/ th[t].proc = None
    <3>1. th[t].proc \in Req \cup {None}
      BY <1>1, Records
    <3> QED BY <1>14, <3>1
  <2> QED BY <1>1, <1>3, <2>1 DEF ControlAt
<1>24. WorkingAt(t)'
  <2>1. \A v \in Req : rq[v].io = t => /\ rq'[v].io = t /\ rq'[v].first = rq[v].first /\ rq'[v].last = rq[v].last
                                       /\ v \in {th[t].arg, th[t].proc} => rq'[v].st = rq[v].st
    BY <1>10, <1>14
  <2>2. \A g \in Frame, k \in Kind : \A v \in Req : v = th[t].proc /\ In(g, v, k)' => \E j \in Kind : In(g, v, j)
    BY <1>9, <1>17 DEF Moved
  <2>3. ASSUME th[t].proc # None, NEW p \in rq'[th[t].proc].done PROVE p \in rq[th[t].proc].done \/ p < th[t].nxt
    <3>1. th[t].proc \in Req
      BY <2>3, WorkingOn
    <3>2. CASE th[t].proc = r
      <4>1. f \in FramesHeld(r)
        BY <1>9 DEF FramesHeld
      <4>2. frame[f].id < th[t].nxt
        BY <2>3, <3>2, <4>1, Parts DEF WorkingAt
      <4> QED BY <1>14, <2>3, <3>2, <4>2
    <3>3. CASE th[t].proc # r
      BY <1>14, <2>3, <3>1, <3>3
    <3> QED BY <3>2, <3>3
  <2> QED BY <1>3, <1>14, <1>15, <2>1, <2>2, <2>3, WorkingKept
<1>25. RepeatsAt(t)'
  BY <1>1, <1>3, <1>4, <1>15 DEF RepeatsAt
<1>26. \A g \in Frame : ~Evicting(t, g)
  BY <1>18, NoneApart DEF Evicting
<1>27. (\A u \in Thread \ {t} : th'[u] = th[u] /\ que'[u] = que[u]) /\ th'[t].acc = th[t].acc /\ th'[t].cur = None
  BY <1>3, <1>15, <1>18
<1> QED BY <1>10, <1>11, <1>14, <1>15, <1>17, <1>19, <1>20, <1>21, <1>22, <1>23, <1>24, <1>25, <1>26, <1>27, MoveStep

-------------------------------------------------------------------------------
(* read()                                                                  *)

\* The thread when it has dealt with the first page of the batch: b is the rest of the batch, o the request being built.
FlushNext(t, b, o) ==
    /\ th' \in [Thread -> ThRec] /\ \A u \in Thread \ {t} : th'[u] = th[u]
    /\ th'[t].cur = th[t].cur /\ th'[t].old = th[t].old /\ th'[t].arg = th[t].arg /\ th'[t].nxt = th[t].nxt /\ th'[t].acc = th[t].acc
    /\ th'[t].batch = b /\ th'[t].out = o
    /\ \/ (th'[t].proc = th[t].proc /\ th'[t].pc = "flush" /\ th'[t].cont = th[t].cont /\ b # <<>>)
       \/ (th'[t].proc = th[t].proc /\ th'[t].pc = "old" /\ th[t].cont = "old" /\ b = <<>>)
       \/ (th'[t].proc = th[t].proc /\ th'[t].pc = "search" /\ th[t].cont = "loop" /\ b = <<>> /\ th[t].nxt <= rq[th[t].proc].last)
       \/ (th'[t].proc = th[t].proc /\ th'[t].pc = "ret" /\ th[t].cont = "null" /\ b = <<>>)
       \/ (th'[t].proc = None /\ th'[t].pc = "ret" /\ th[t].cont \in {"loop", "ret"} /\ b = <<>>)
Rest(me, b, o) == [[me EXCEPT !.batch = b] EXCEPT !.out = o]

LEMMA RestForm == ASSUME NEW me \in ThRec, NEW b \in Seq(Frame), NEW o \in SUBSET (Frame \X Page)
                  PROVE LET n == Rest(me, b, o) IN
                        /\ n \in ThRec /\ n.batch = b /\ n.out = o /\ n.pc = me.pc /\ n.cont = me.cont /\ n.cur = me.cur /\ n.old = me.old
                        /\ n.arg = me.arg /\ n.nxt = me.nxt /\ n.acc = me.acc /\ n.proc = me.proc
BY DEF ThRec, Rest

\* The locals after the end of read().
LEMMA AfterFlushForm == ASSUME TypeOK, NEW me \in ThRec, me.proc \in Req, me.batch = <<>>, me.cur # None <=> me.cont = "old"
                        PROVE LET n == AfterFlush(me) IN
                              /\ n \in ThRec /\ n.batch = me.batch /\ n.out = me.out /\ n.cur = me.cur /\ n.old = me.old
                              /\ n.arg = me.arg /\ n.nxt = me.nxt /\ n.acc = me.acc
                              /\ \/ (n.proc = me.proc /\ n.pc = "old" /\ me.cont = "old")
                                 \/ (n.proc = me.proc /\ n.pc = "search" /\ me.cont = "loop" /\ me.nxt <= rq[me.proc].last)
                                 \/ (n.proc = me.proc /\ n.pc = "ret" /\ me.cont = "null")
                                 \/ (n.proc = None /\ n.pc = "ret" /\ me.cont \in {"loop", "ret"})
<1>1. me.cont \in {"loop", "old", "null", "ret"} /\ "old" \in Pcs /\ "ret" \in Pcs /\ None \in Req \cup {None}
  BY DEF ThRec, Pcs
<1> DEFINE n == AfterFlush(me)
<1>2. CASE me.cont = "old"
  <2>1. n = [me EXCEPT !.pc = "old"]
    BY <1>2 DEF AfterFlush
  <2> HIDE DEF n
  <2>2. /\ n \in ThRec /\ n.batch = me.batch /\ n.out = me.out /\ n.pc = "old" /\ n.cur = me.cur /\ n.old = me.old
        /\ n.arg = me.arg /\ n.nxt = me.nxt /\ n.acc = me.acc /\ n.proc = me.proc
    BY <2>1 DEF ThRec, Pcs
  <2> QED BY <1>2, <2>2 DEF n
<1>3. CASE me.cont = "null"
  <2>1. n = [me EXCEPT !.pc = "ret"]
    BY <1>3 DEF AfterFlush
  <2> HIDE DEF n
  <2>2. /\ n \in ThRec /\ n.batch = me.batch /\ n.out = me.out /\ n.pc = "ret" /\ n.cur = me.cur /\ n.old = me.old
        /\ n.arg = me.arg /\ n.nxt = me.nxt /\ n.acc = me.acc /\ n.proc = me.proc
    BY <2>1 DEF ThRec, Pcs
  <2> QED BY <1>3, <2>2 DEF n
<1>4. CASE me.cont = "ret"
  <2>1. n = [me EXCEPT !.pc = "ret", !.proc = None]
    BY <1>4 DEF AfterFlush
  <2> HIDE DEF n
  <2>2. /\ n \in ThRec /\ n.batch = me.batch /\ n.out = me.out /\ n.pc = "ret" /\ n.cur = me.cur /\ n.old = me.old
        /\ n.arg = me.arg /\ n.nxt = me.nxt /\ n.acc = me.acc /\ n.proc = None
    BY <2>1 DEF ThRec, Pcs
  <2> QED BY <1>4, <2>2 DEF n
<1>5. CASE me.cont = "loop"
  <2>1. n = Loop(me)
    BY <1>5 DEF AfterFlush
  <2> HIDE DEF n
  <2> DEFINE l == Loop(me)
  <2>2. /\ l \in ThRec /\ l.cur = None /\ l.batch = me.batch /\ l.arg = me.arg /\ l.nxt = me.nxt
        /\ l.old = me.old /\ l.out = me.out /\ l.acc = me.acc
        /\ \/ l.proc = me.proc /\ l.pc = "search" /\ me.nxt <= rq[me.proc].last
           \/ l.proc = me.proc /\ l.pc = "flush" /\ l.cont = "ret" /\ me.nxt > rq[me.proc].last /\ me.batch # <<>>
           \/ l.proc = None /\ l.pc = "ret" /\ me.nxt > rq[me.proc].last /\ me.batch = <<>>
    BY LoopForm, Zenon
  <2> HIDE DEF l
  <2>3. n = l
    BY <2>1 DEF l
  <2> QED BY <1>5, <2>2, <2>3 DEF n
<1> QED BY <1>1, <1>2, <1>3, <1>4, <1>5

LEMMA Flushed == ASSUME IInv, NEW t \in Thread, th[t].pc = "flush", NEW b \in Seq(Frame), NEW o \in SUBSET (Frame \X Page),
                        NEW me, me = Rest(th[t], b, o), NEW n, n = (IF b = <<>> THEN AfterFlush(me) ELSE me), th' = [th EXCEPT ![t] = n]
                 PROVE FlushNext(t, b, o)
<1>1. TypeOK /\ ControlAt(t)
  BY Parts
<1>2. th \in [Thread -> ThRec] /\ th[t] \in ThRec /\ th[t].proc \in Req \cup {None}
  BY <1>1, TypesForm, Records
<1>3. th[t].proc \in Req /\ (th[t].cur # None <=> th[t].cont = "old")
  BY <1>1, <1>2 DEF ControlAt
<1>4. /\ me \in ThRec /\ me.batch = b /\ me.out = o /\ me.pc = th[t].pc /\ me.cont = th[t].cont /\ me.cur = th[t].cur /\ me.old = th[t].old
      /\ me.arg = th[t].arg /\ me.nxt = th[t].nxt /\ me.acc = th[t].acc /\ me.proc = th[t].proc
  BY <1>2, RestForm
<1>5. CASE b # <<>>
  <2>1. n = me
    BY <1>5
  <2>2. th' \in [Thread -> ThRec] /\ th'[t] = me /\ \A u \in Thread \ {t} : th'[u] = th[u]
    BY <1>2, <1>4, <2>1
  <2> QED BY <1>4, <1>5, <2>2 DEF FlushNext
<1>6. CASE b = <<>>
  <2>1. n = AfterFlush(me)
    BY <1>6
  <2>2. /\ n \in ThRec /\ n.batch = me.batch /\ n.out = me.out /\ n.cur = me.cur /\ n.old = me.old
        /\ n.arg = me.arg /\ n.nxt = me.nxt /\ n.acc = me.acc
        /\ \/ (n.proc = me.proc /\ n.pc = "old" /\ me.cont = "old")
           \/ (n.proc = me.proc /\ n.pc = "search" /\ me.cont = "loop" /\ me.nxt <= rq[me.proc].last)
           \/ (n.proc = me.proc /\ n.pc = "ret" /\ me.cont = "null")
           \/ (n.proc = None /\ n.pc = "ret" /\ me.cont \in {"loop", "ret"})
    <3>1. me.proc \in Req /\ me.batch = <<>> /\ (me.cur # None <=> me.cont = "old")
      BY <1>3, <1>4, <1>6
    <3> QED BY <1>1, <1>4, <2>1, <3>1, AfterFlushForm
  <2>3. th' \in [Thread -> ThRec] /\ th'[t] = n /\ \A u \in Thread \ {t} : th'[u] = th[u]
    BY <1>2, <2>2
  <2> QED BY <1>4, <1>6, <2>2, <2>3 DEF FlushNext
<1> QED BY <1>5, <1>6

\* The request that reads the batch, after the first page of it: sent, grown, or as it was.
ReadNext(t, f, need, o) ==
    \/ (need /\ flight' = flight /\ o = th[t].out \cup {<<f, frame[f].id>>} /\ th'[t].pc = "flush")
    \/ (need /\ flight' = flight \cup {Request(t, "read", th[t].out \cup {<<f, frame[f].id>>})} /\ o = {})
    \/ (~need /\ flight' = flight \cup {Request(t, "read", th[t].out)} /\ o = {} /\ th[t].out # {})
    \/ (~need /\ flight' = flight /\ o = {} /\ th[t].out = {})

LEMMA ReadOn == ASSUME IInv, TypeOK', NEW t \in Thread, NEW f \in Frame, th[t].pc = "flush", frame[f].id \in Page, NEW need \in BOOLEAN, NEW o,
                       ReadNext(t, f, need, o), th'[t].out = o, th'[t].pc \notin {"mergeF", "mergeB"}, \A u \in Thread \ {t} : th'[u] = th[u],
                       \A u \in Thread : que'[u].disk = que[u].disk, \A g \in Frame : frame'[g].oldDirty = frame[g].oldDirty,
                       need <=> frame'[f].pending /\ ~frame[f].pending
                PROVE IOApart' /\ SingleWrites' /\ CovNext(f) /\ \A g \in Frame \ {f} : SameCov(g)
<1>0. OutOp(t) = "read" /\ th[t].out \in SUBSET (Frame \X Page)
  BY Parts, Records DEF OutOp
<1>1. ASSUME NEW u \in Thread, th'[u].pc \in {"mergeF", "mergeB"}
      PROVE th[u].pc \in {"mergeF", "mergeB"} /\ th[u].out \subseteq th'[u].out /\ th'[u].old = th[u].old
  <2>1. u # t
    BY <1>1
  <2> QED BY <1>1, <2>1
<1>2. CASE ~need /\ flight' = flight /\ o = {} /\ th[t].out = {}
  <2>1. \A u \in Thread : que'[u].disk = que[u].disk /\ th'[u].out = th[u].out /\ (th[u].out = {} \/ OutOp(u)' = OutOp(u))
    BY <1>2 DEF OutOp
  <2>2. IOApart' /\ Ios' = Ios /\ \A g \in Frame : SameCov(g)
    BY <1>2, <2>1, IOSame
  <2>3. \A io \in Ios' : io \in Ios \/ io.op = "read"
    BY <2>2
  <2>4. SingleWrites'
    BY <1>1, <2>3, SingleSame
  <2>5. CovNext(f)
    BY <1>2, <2>2 DEF CovNext, SameCov
  <2> QED BY <2>2, <2>4, <2>5
<1>3. CASE ~need /\ flight' = flight \cup {Request(t, "read", th[t].out)} /\ o = {} /\ th[t].out # {}
  <2> DEFINE X == {}
  <2>1. X \in SUBSET (Frame \X Page) /\ (\A g : ~Cov(X, g)) /\ th[t].out \cup X = th[t].out
    BY DEF Cov
  <2>2. flight' = flight \cup {Request(t, "read", th[t].out \cup X)} /\ th'[t].out = {} /\ th[t].out \cup X # {} /\ X = {}
    BY <1>3, <2>1
  <2> HIDE DEF X
  <2>3. /\ IOApart'
        /\ \A g \in Frame, p \in {"read", "write"} : CovBy(g, p)' <=> CovBy(g, p) \/ (p = "read" /\ Cov(X, g))
    <3>1. X = {} /\ (\A u \in Thread \ {t} : th'[u] = th[u]) /\ X \in SUBSET (Frame \X Page)
      BY <2>1, <2>2
    <3>2. flight' = flight \cup {Request(t, "read", th[t].out \cup X)} /\ th'[t].out = {} /\ th[t].out \cup X # {}
      BY <2>2
    <3>3. OutOp(t) = "read" /\ \A u \in Thread : que'[u].disk = que[u].disk
      BY <1>0
    <3> HIDE DEF X
    <3> QED BY <3>1, <3>2, <3>3, IOAdd
  <2>4. Request(t, "read", th[t].out).op = "read"
    BY <1>0, RequestForm
  <2>5. \A io \in Ios' : io \in Ios \/ io.op = "read"
    BY <1>3, <2>4 DEF Ios
  <2>6. SingleWrites'
    BY <1>1, <2>5, SingleSame
  <2>7. CovNext(f) /\ \A g \in Frame \ {f} : SameCov(g)
    BY <1>3, <2>1, <2>3 DEF CovNext, SameCov
  <2> QED BY <2>3, <2>6, <2>7
<1>4. CASE need
  <2>1. ~frame[f].pending /\ frame'[f].pending
    BY <1>4
  <2> DEFINE X == {<<f, frame[f].id>>}
             Y == th[t].out \cup X
  <2>2. X \in SUBSET (Frame \X Page) /\ (\A g : Cov(X, g) <=> g = f) /\ X # {}
    BY CovOne
  <2>3. ~CovBy(f, "read") /\ ~CovBy(f, "write")
    BY <2>1, Parts DEF FlagsAt
  <2>4. \E g \in Frame, x \in Page : X = {<<g, x>>} /\ ~CovBy(g, "read") /\ ~CovBy(g, "write")
    BY <2>3
  <2>5. \/ flight' = flight /\ th'[t].out = th[t].out \cup X /\ th'[t].pc = "flush"
        \/ flight' = flight \cup {Request(t, "read", th[t].out \cup X)} /\ th'[t].out = {}
    BY <1>4 DEF ReadNext
  <2> HIDE DEF X
  <2>6. \/ flight' = flight /\ th'[t].out = th[t].out \cup X /\ OutOp(t)' = "read"
        \/ flight' = flight \cup {Request(t, "read", th[t].out \cup X)} /\ th'[t].out = {} /\ th[t].out \cup X # {}
    BY <2>2, <2>5 DEF OutOp
  <2>7. /\ IOApart'
        /\ \A g \in Frame, p \in {"read", "write"} : CovBy(g, p)' <=> CovBy(g, p) \/ (p = "read" /\ Cov(X, g))
    BY <1>0, <2>2, <2>4, <2>6, IOAdd
  <2>8. Y \in SUBSET (Frame \X Page)
    BY <1>0, <2>2
  <2>9. Request(t, "read", Y).op = "read"
    BY <2>8, RequestForm
  <2>10. \A io \in Ios' : io \in Ios \/ io.op = "read"
    BY <2>6, <2>9 DEF Ios
  <2>11. SingleWrites'
    BY <1>1, <2>10, SingleSame
  <2>12. CovNext(f) /\ \A g \in Frame \ {f} : SameCov(g)
    BY <2>1, <2>2, <2>7 DEF CovNext, SameCov
  <2> QED BY <2>7, <2>11, <2>12
<1> QED BY <1>2, <1>3, <1>4 DEF ReadNext

\* The first page of the batch goes elsewhere with its request.
LEMMA BatchOne == ASSUME IInv, NEW t \in Thread, NEW f \in Frame, NEW r \in Req, th[t].pc = "flush", r = th[t].proc,
                         th[t].batch # <<>>, Head(th[t].batch) = f, NEW o, FlushNext(t, Tail(th[t].batch), o), NEW q, q = que[t], QueuesNext(t, q),
                         NEW l \in {"reqs", "held", "none"}, ListsNext(f, r, l)
                  PROVE Moved(f, r, l)
<1>1. TypeOK /\ RepeatsAt(t) /\ ControlAt(t)
  BY Parts
<1>2. th[t].batch \in Seq(Frame) /\ IsInjective(th[t].batch)
  BY <1>1, Records DEF RepeatsAt
<1>3. f \in ToSet(th[t].batch) /\ ToSet(Tail(th[t].batch)) = ToSet(th[t].batch) \ {f}
  BY <1>2, SeqTail
<1>4. At(th[t], que[t], f, r, "batch") /\ "batch" \in Kind
  BY <1>3 DEF At, Kind
<1>5. In(f, r, "batch") /\ \A k \in Kind : In(f, r, k) => k = "batch"
  <2>1. In(f, r, "batch")
    BY <1>4 DEF In
  <2> QED BY <1>4, <2>1, WithFrame
<1>6. ~In(f, r, "reqs") /\ ~In(f, r, "held")
  BY <1>5 DEF Kind
<1>7. /\ que'[t].pend = que[t].pend /\ que'[t].cached = que[t].cached /\ \A u \in Thread \ {t} : que'[u] = que[u] /\ th'[u] = th[u]
      /\ th'[t].cur = th[t].cur /\ th'[t].batch = Tail(th[t].batch) /\ th'[t].acc = th[t].acc
      /\ th'[t].proc = r \/ (th'[t].proc = None /\ Tail(th[t].batch) = <<>> /\ th[t].cur = None)
  <2>1. th[t].cont \in {"loop", "ret"} => th[t].cur = None
    BY <1>1 DEF ControlAt
  <2> QED BY <2>1 DEF QueuesNext, FlushNext
<1>8. ASSUME NEW g \in Frame, NEW s \in Req, NEW k \in Kind
      PROVE At(th'[t], que'[t], g, s, k) <=> IF g = f /\ s = r THEN k = l /\ l \notin {"reqs", "held"}
                                             ELSE At(th[t], que[t], g, s, k)
  <2>0. g = f /\ s = r /\ k # "batch" => ~At(th[t], que[t], g, s, k)
    BY <1>5 DEF In
  <2>00. k # "none" /\ r # None /\ s # None /\ g # None
    BY NoneApart DEF Kind
  <2>1. CASE k = "batch"
    <3>1. At(th'[t], que'[t], g, s, k) <=> th'[t].proc = s /\ g \in ToSet(Tail(th[t].batch))
      BY <1>7, <2>1 DEF At
    <3>2. At(th[t], que[t], g, s, k) <=> r = s /\ g \in ToSet(th[t].batch)
      BY <2>1 DEF At
    <3>3. g \notin ToSet(<<>>)
      BY EmptySet
    <3> QED BY <1>3, <1>7, <2>00, <2>1, <3>1, <3>2, <3>3
  <2>2. CASE k = "cur"
    <3>1. At(th'[t], que'[t], g, s, k) <=> At(th[t], que[t], g, s, k)
      BY <1>7, <2>00, <2>2 DEF At
    <3> QED BY <2>0, <2>00, <2>2, <3>1
  <2>3. CASE k \notin {"batch", "cur"}
    <3>1. At(th'[t], que'[t], g, s, k) <=> At(th[t], que[t], g, s, k)
      BY <1>7, <2>3 DEF At
    <3> QED BY <2>0, <2>00, <2>3, <3>1
  <2> QED BY <2>1, <2>2, <2>3
<1>9. \A g \in Frame, s \in Req : s \in ToSet(frame'[g].reqs) <=> IF g = f /\ s = r THEN l = "reqs" ELSE s \in ToSet(frame[g].reqs)
  <2>1. r \notin ToSet(frame[f].reqs)
    BY <1>6 DEF In
  <2> QED BY <2>1 DEF ListsNext
<1>10. \A g \in Frame, s \in Req : g \in rq'[s].held <=> IF g = f /\ s = r THEN l = "held" ELSE g \in rq[s].held
  <2>1. f \notin rq[r].held
    BY <1>6 DEF In
  <2> QED BY <2>1 DEF ListsNext
<1> QED BY <1>4, <1>7, <1>8, <1>9, <1>10, OneMove

\* The page at the head of the batch meets the request.
LEMMA FlushMeets == ASSUME IInv, NEW t \in Thread, NEW f \in Frame, NEW r \in Req, In(f, r, "batch"), rq[r].io = t, NEW q, QueuesLike(t, q),
                           NEW need, need <=> ~frame[f].ready /\ ~frame[f].pending,
                           \/ need /\ StartRead(t, f, r, q)
                           \/ ~frame[f].ready /\ frame[f].pending /\ Enqueue(t, f, r, q)
                           \/ frame[f].ready /\ ReadReady(t, f, r, q)
                    PROVE \E l \in {"reqs", "held", "none"} :
                            Meeting(t, f, r, q, l) /\ (need <=> frame'[f].pending /\ ~frame[f].pending)
<1>0. "batch" \in Kind \ {"held"}
  BY DEF Kind
<1>1. CASE need /\ StartRead(t, f, r, q)
  <2>1. ~frame[f].ready /\ ~frame[f].pending /\ StartRead(t, f, r, q)
    BY <1>1
  <2> QED BY <1>1, <2>1, MeetStart
<1>2. CASE ~frame[f].ready /\ frame[f].pending /\ Enqueue(t, f, r, q)
  BY <1>2, MeetList
<1>3. CASE frame[f].ready /\ ReadReady(t, f, r, q)
  <2>1. PICK l \in {"none", "held"} : Meeting(t, f, r, q, l)
    BY <1>0, <1>3, MeetRead
  <2>2. frame'[f].pending = frame[f].pending
    BY <2>1 DEF Meeting, Met, Gave
  <2> QED BY <1>3, <2>1, <2>2
<1> QED BY <1>1, <1>2, <1>3

LEMMA ReadTypes == ASSUME IInv, NEW t \in Thread, NEW f \in Frame, NEW r \in Req, NEW q, NEW l, Meeting(t, f, r, q, l), th' \in [Thread -> ThRec],
                          frame[f].id \in Page, NEW need, NEW o, ReadNext(t, f, need, o)
                   PROVE TypeOK'
<1>1. flight \subseteq IO /\ raced \subseteq Page /\ th[t].out \in SUBSET (Frame \X Page)
  BY Parts, TypesForm, Records
<1>2. flight' \subseteq IO
  <2>1. PICK x : x = th[t].out \cup {<<f, frame[f].id>>}
    OBVIOUS
  <2>2. x \in SUBSET (Frame \X Page)
    BY <1>1, <2>1
  <2>3. Request(t, "read", x) \in IO /\ Request(t, "read", th[t].out) \in IO
    BY <1>1, <2>2, RequestForm
  <2>4. flight' \in {flight, flight \cup {Request(t, "read", x)}, flight \cup {Request(t, "read", th[t].out)}}
    BY <2>1 DEF ReadNext
  <2> QED BY <1>1, <2>3, <2>4
<1> QED BY <1>1, <1>2, TypesNext DEF Meeting, QueuesNext

\* The locals of the thread after it.
LEMMA FlushControl == ASSUME IInv, NEW t \in Thread, NEW f \in Frame, NEW r \in Req, th[t].pc = "flush", r = th[t].proc, NEW b, NEW o, FlushNext(t, b, o),
                             NEW need, ReadNext(t, f, need, o), rq'[r].op = rq[r].op, rq'[r].last = rq[r].last,
                             ~frame[f].oldDirty, \A g \in Frame \ {f} : Same(g), \A g \in Frame : frame'[g].oldDirty = frame[g].oldDirty
                      PROVE /\ ControlAt(t)' /\ EvictorAt(t)'
                            /\ \A g \in Frame : Evicting(t, g) /\ frame[g].oldDirty => Evicting(t, g)'
<1>1. ControlAt(t) /\ EvictorAt(t) /\ TypeOK
  BY Parts
<1>2. th[t].batch # <<>> /\ (th[t].cur # None <=> th[t].cont = "old") /\ r # None /\ rq[r].op # "write" /\ th[t].cur \in Frame \cup {None}
  BY <1>1, Records DEF ControlAt
<1>3. th'[t].pc = "flush" \/ o = {}
  BY DEF ReadNext
<1>4. th[t].cont = "null" => th[t].nxt <= rq[r].last
  BY <1>1, <1>2 DEF ControlAt
<1>5. ControlAt(t)'
  BY <1>2, <1>3, <1>4 DEF ControlAt, FlushNext
<1>6. \A g \in Frame : Evicting(t, g)' => Evicting(t, g)
  BY DEF Evicting, FlushNext
<1>7. \A g \in Frame : Evicting(t, g) => Evicting(t, g)'
  BY <1>2, NoneApart DEF Evicting, FlushNext
<1>8. EvictorAt(t)'
  <2>1. ASSUME NEW g \in Frame, Evicting(t, g)', frame'[g].oldDirty PROVE ~frame'[g].pending /\ th'[t].old \in Page
    <3>1. Evicting(t, g) /\ frame[g].oldDirty /\ g # f
      BY <1>6, <2>1
    <3>2. ~frame[g].pending /\ th[t].old \in Page
      BY <1>1, <3>1 DEF EvictorAt
    <3>3. frame'[g].pending = frame[g].pending /\ th'[t].old = th[t].old
      BY <3>1 DEF Same, FlushNext
    <3> QED BY <3>2, <3>3
  <2>2. \A g \in Frame : Evicting(t, g)' => frame'[g].oldDirty
    BY <1>1, <1>6 DEF EvictorAt
  <2>3. th'[t].pc # "use"
    BY DEF FlushNext
  <2> QED BY <2>1, <2>2, <2>3 DEF EvictorAt
<1> QED BY <1>5, <1>7, <1>8

\* read(), one page.
LEMMA FlushBatchStep == ASSUME IInv, NEW t \in Thread, FlushBatch(t) PROVE IInv'
<1>1. TypeOK /\ ControlAt(t) /\ RepeatsAt(t)
  BY Parts
<1>2. th[t].pc = "flush"
  BY Zenon DEF FlushBatch
<1>3. th[t].batch \in Seq(Frame) /\ th[t].batch # <<>> /\ IsInjective(th[t].batch) /\ th[t].out \in SUBSET (Frame \X Page) /\ th[t].proc # None
  BY <1>1, <1>2, Records DEF RepeatsAt, ControlAt
<1>4. PICK f \in Frame, b \in Seq(Frame) : f = Head(th[t].batch) /\ b = Tail(th[t].batch) /\ f \in ToSet(th[t].batch) /\ IsInjective(b)
  BY <1>3, SeqTail
<1>5. PICK r \in Req : rq[r].io = t /\ r = th[t].proc
  BY <1>3, WorkingOn
<1>g. PICK q : q = que[t]
  OBVIOUS
<1>b. PICK need \in BOOLEAN : need <=> ~frame[f].ready /\ ~frame[f].pending
  OBVIOUS
<1>c. PICK out : out = IF need THEN th[t].out \cup {<<f, frame[f].id>>} ELSE th[t].out
  OBVIOUS
<1>d. PICK send \in BOOLEAN : send <=> out # {} /\ (~need \/ b = <<>>)
  OBVIOUS
<1>e. PICK o : o = IF send THEN {} ELSE out
  OBVIOUS
<1>f. PICK me : me = Rest(th[t], b, o)
  OBVIOUS
<1>h. PICK n : n = IF b = <<>> THEN AfterFlush(me) ELSE me
  OBVIOUS
<1>i. /\ \/ need /\ StartRead(t, f, r, q)
         \/ ~frame[f].ready /\ frame[f].pending /\ Enqueue(t, f, r, q)
         \/ frame[f].ready /\ ReadReady(t, f, r, q)
      /\ send => flight' = flight \cup {Request(t, "read", out)}
      /\ ~send => flight' = flight
      /\ th' = [th EXCEPT ![t] = n]
  <2> DEFINE Need == ~frame[Head(th[t].batch)].ready /\ ~frame[Head(th[t].batch)].pending
             Out == IF Need THEN th[t].out \cup {<<Head(th[t].batch), frame[Head(th[t].batch)].id>>} ELSE th[t].out
             Go == Out # {} /\ (~Need \/ Tail(th[t].batch) = <<>>)
             Me == Rest(th[t], Tail(th[t].batch), IF Go THEN {} ELSE Out)
  <2>1. th[t] \in ThRec
    BY <1>1, Records
  <2>2. [th[t] EXCEPT !.batch = Tail(@)].batch = Tail(th[t].batch)
    BY <2>1 DEF ThRec
  <2>3. /\ \/ Need /\ StartRead(t, Head(th[t].batch), th[t].proc, que[t])
           \/ /\ ~frame[Head(th[t].batch)].ready /\ frame[Head(th[t].batch)].pending
              /\ Enqueue(t, Head(th[t].batch), th[t].proc, que[t])
           \/ frame[Head(th[t].batch)].ready /\ ReadReady(t, Head(th[t].batch), th[t].proc, que[t])
        /\ IF Go THEN Send(Request(t, "read", Out)) ELSE UNCHANGED flight
        /\ th' = [th EXCEPT ![t] = IF Tail(th[t].batch) = <<>> THEN AfterFlush(Me) ELSE Me]
    BY <2>2, Zenon DEF FlushBatch, Rest
  <2>4. (need <=> Need) /\ out = Out /\ (send <=> Go) /\ o = (IF Go THEN {} ELSE Out)
    BY <1>4, <1>b, <1>c, <1>d, <1>e
  <2> HIDE DEF Need, Out, Go
  <2>5. me = Me
    BY <1>4, <1>f, <2>4
  <2> HIDE DEF Me
  <2>6. n = (IF Tail(th[t].batch) = <<>> THEN AfterFlush(Me) ELSE Me)
    BY <1>4, <1>h, <2>5
  <2>7. \/ need /\ StartRead(t, f, r, q)
        \/ ~frame[f].ready /\ frame[f].pending /\ Enqueue(t, f, r, q)
        \/ frame[f].ready /\ ReadReady(t, f, r, q)
    BY <1>4, <1>5, <1>g, <2>3, <2>4
  <2>8. (send => flight' = flight \cup {Request(t, "read", out)}) /\ (~send => flight' = flight)
    BY <2>3, <2>4 DEF Send
  <2> QED BY <2>3, <2>6, <2>7, <2>8
<1>6. In(f, r, "batch") /\ "batch" \in Kind /\ "batch" \in Kind \ {"held", "reqs"} /\ "batch" \notin {"cur", "reqs"}
  BY <1>4, <1>5 DEF In, At, Kind
<1>7. ~frame[f].oldDirty /\ frame[f].id \in Page
  BY <1>4, <1>5, <1>6, WithFrame, Parts DEF FlagsAt
<1>8. o \in SUBSET (Frame \X Page)
  BY <1>3, <1>4, <1>7, <1>c, <1>e
<1>10. FlushNext(t, b, o)
  BY <1>2, <1>4, <1>8, <1>f, <1>h, <1>i, Flushed
<1>11. ReadNext(t, f, need, o)
  <2>1. CASE need /\ b = <<>>
    <3>1. out = th[t].out \cup {<<f, frame[f].id>>} /\ <<f, frame[f].id>> \in out
      BY <2>1, <1>c
    <3>2. send /\ o = {}
      BY <2>1, <3>1, <1>d, <1>e
    <3> QED BY <1>i, <2>1, <3>1, <3>2 DEF ReadNext
  <2>2. CASE need /\ b # <<>>
    <3>1. out = th[t].out \cup {<<f, frame[f].id>>} /\ ~send /\ o = out
      BY <2>2, <1>c, <1>d, <1>e
    <3>2. th'[t].pc = "flush"
      BY <1>10, <2>2 DEF FlushNext
    <3> QED BY <1>i, <2>2, <3>1, <3>2 DEF ReadNext
  <2>3. CASE ~need
    <3>1. out = th[t].out /\ (send <=> out # {}) /\ o = {}
      BY <2>3, <1>c, <1>d, <1>e
    <3> QED BY <1>i, <2>3, <3>1 DEF ReadNext
  <2> QED BY <1>b, <2>1, <2>2, <2>3
<1>13. QueuesLike(t, q)
  BY <1>1, <1>g, Records DEF QueuesLike
<1>15. Head(th[t].batch) = f /\ FlushNext(t, Tail(th[t].batch), o)
  BY <1>4, <1>10
<1>16. PICK l \in {"reqs", "held", "none"} : Meeting(t, f, r, q, l) /\ (need <=> frame'[f].pending /\ ~frame[f].pending)
  BY <1>4, <1>5, <1>6, <1>b, <1>13, <1>i, FlushMeets
<1>17. /\ ListsNext(f, r, l) /\ QueuesNext(t, q) /\ (\A g \in Frame \ {f} : Same(g))
       /\ (\A g \in Frame : frame'[g].id = frame[g].id /\ frame'[g].oldDirty = frame[g].oldDirty)
       /\ rq'[r].op = rq[r].op /\ rq'[r].last = rq[r].last /\ rq'[r].first = rq[r].first /\ rq'[r].io = rq[r].io /\ rq'[r].st = rq[r].st
       /\ rq'[r].done \subseteq rq[r].done \cup {frame[f].id} /\ \A v \in Req \ {r} : rq'[v] = rq[v]
  BY <1>16 DEF Meeting
<1>18. /\ (\A u \in Thread \ {t} : que'[u] = que[u]) /\ que'[t].pend = que[t].pend /\ que'[t].cached = que[t].cached
       /\ que'[t].user = que[t].user /\ que'[t].disk = que[t].disk /\ QueuesAt(t)' /\ IsInjective(que'[t].comp)
  BY <1>g, <1>17 DEF QueuesNext
<1>19. Moved(f, r, l)
  BY <1>2, <1>3, <1>4, <1>5, <1>g, <1>15, <1>17, BatchOne
<1>20. /\ th' \in [Thread -> ThRec] /\ (\A u \in Thread \ {t} : th'[u] = th[u]) /\ th'[t].out = o /\ th'[t].pc \notin {"mergeF", "mergeB"}
       /\ th'[t].cur = th[t].cur /\ th'[t].old = th[t].old /\ th'[t].arg = th[t].arg /\ th'[t].nxt = th[t].nxt /\ th'[t].acc = th[t].acc
       /\ th'[t].batch = b /\ th'[t].proc \in {r, None}
  BY <1>5, <1>10 DEF FlushNext
<1>21. TypeOK'
  BY <1>4, <1>5, <1>7, <1>11, <1>16, <1>20, ReadTypes
<1>22. IOApart' /\ SingleWrites' /\ CovNext(f) /\ \A g \in Frame \ {f} : SameCov(g)
  <2>1. (\A u \in Thread : que'[u].disk = que[u].disk) /\ \A g \in Frame : frame'[g].oldDirty = frame[g].oldDirty
    BY <1>17, <1>18
  <2> QED BY <1>2, <1>4, <1>7, <1>b, <1>11, <1>16, <1>20, <1>21, <2>1, ReadOn
<1>23. CountedAt(f)' /\ FlagsAt(f)' /\ IsInjective(frame'[f].reqs) /\ RequestAt(r)'
  <2>1. In(f, r, "batch") /\ ~frame[f].oldDirty /\ Meeting(t, f, r, q, l) /\ Moved(f, r, l) /\ CovNext(f) /\ f \in Frame /\ r \in Req
    BY <1>4, <1>5, <1>6, <1>7, <1>16, <1>19, <1>22
  <2> QED BY <1>6, <2>1, MetPage
<1>24. ControlAt(t)' /\ EvictorAt(t)' /\ \A g \in Frame : Evicting(t, g) /\ frame[g].oldDirty => Evicting(t, g)'
  BY <1>2, <1>4, <1>5, <1>7, <1>10, <1>11, <1>17, FlushControl
<1>25. WorkingAt(t)'
  <2>1. \A v \in Req : rq[v].io = t => /\ rq'[v].io = t /\ rq'[v].first = rq[v].first /\ rq'[v].last = rq[v].last
                                       /\ v \in {th[t].arg, th[t].proc} => rq'[v].st = rq[v].st
    BY <1>5, <1>17
  <2>2. \A g \in Frame, k \in Kind : \A v \in Req : v = th[t].proc /\ In(g, v, k)' => \E j \in Kind : In(g, v, j)
    BY <1>6, <1>19 DEF Moved
  <2>3. ASSUME NEW p \in rq'[th[t].proc].done PROVE p \in rq[th[t].proc].done \/ p < th[t].nxt
    <3>1. f \in FramesHeld(r)
      BY <1>4, <1>6 DEF FramesHeld
    <3>2. frame[f].id < th[t].nxt
      BY <1>3, <1>5, <3>1, Parts DEF WorkingAt
    <3> QED BY <1>5, <1>17, <2>3, <3>2
  <2>4. th'[t].arg \in {th[t].arg, None} /\ th'[t].proc \in {th[t].proc, None} /\ th'[t].cur \in {th[t].cur, None}
    BY <1>5, <1>20
  <2> QED BY <1>17, <1>18, <1>20, <2>1, <2>2, <2>3, <2>4, WorkingKept
<1>26. RepeatsAt(t)'
  BY <1>1, <1>4, <1>18, <1>20 DEF RepeatsAt
<1>27. \A u \in Thread \ {t} : th'[u] = th[u] /\ que'[u] = que[u]
  BY <1>18, <1>20
<1>28. \A g \in Frame \ {f} : Same(g) /\ SameCov(g)
  BY <1>17, <1>22
<1>29. /\ frame'[f].id = frame[f].id /\ frame'[f].oldDirty = frame[f].oldDirty /\ ~frame[f].oldDirty
       /\ th'[t].cur = th[t].cur /\ th'[t].old = th[t].old /\ th'[t].acc = th[t].acc /\ QueuesAt(t)'
       /\ \A g \in Frame \ {f} : Evicting(t, g) /\ frame[g].oldDirty => Evicting(t, g)'
  BY <1>4, <1>7, <1>17, <1>18, <1>20, <1>24
<1>30. (\A v \in Req \ {r} : rq'[v] = rq[v]) /\ f \in Frame /\ r \in Req /\ rq[r].io = t
  BY <1>4, <1>5, <1>17
<1> QED BY <1>19, <1>21, <1>22, <1>23, <1>24, <1>25, <1>26, <1>27, <1>28, <1>29, <1>30, MoveStep

-------------------------------------------------------------------------------
(* Requests are completed                                                      *)

\* wait4complete counts the completion.
Counts(t) == th' = [th EXCEPT ![t].goal = IF @ = 0 THEN 0 ELSE @ - 1]
CountsForm(t) ==
    /\ th' \in [Thread -> ThRec] /\ (\A u \in Thread \ {t} : th'[u] = th[u])
    /\ th'[t].pc = th[t].pc /\ th'[t].arg = th[t].arg /\ th'[t].proc = th[t].proc /\ th'[t].cur = th[t].cur
    /\ th'[t].batch = th[t].batch /\ th'[t].nxt = th[t].nxt /\ th'[t].old = th[t].old /\ th'[t].out = th[t].out
    /\ th'[t].acc = th[t].acc /\ th'[t].cont = th[t].cont /\ th'[t].mp = th[t].mp

LEMMA GoalForm == ASSUME TypeOK, NEW t \in Thread, Counts(t) PROVE CountsForm(t)
<1>1. th \in [Thread -> ThRec] /\ th[t] \in ThRec
  BY TypesForm, Records
<1>2. th[t].goal \in Nat
  BY <1>1 DEF ThRec
<1>3. PICK x \in Nat : x = IF th[t].goal = 0 THEN 0 ELSE th[t].goal - 1
  BY <1>2
<1> DEFINE me == [th[t] EXCEPT !.goal = x]
<1>4. th' = [th EXCEPT ![t] = me]
  BY <1>1, <1>3 DEF Counts
<1>5. /\ me \in ThRec /\ me.pc = th[t].pc /\ me.arg = th[t].arg /\ me.proc = th[t].proc /\ me.cur = th[t].cur
      /\ me.batch = th[t].batch /\ me.nxt = th[t].nxt /\ me.old = th[t].old /\ me.out = th[t].out
      /\ me.acc = th[t].acc /\ me.cont = th[t].cont /\ me.mp = th[t].mp
  BY <1>1 DEF ThRec
<1> HIDE DEF me
<1>6. th' \in [Thread -> ThRec] /\ th'[t] = me /\ \A u \in Thread \ {t} : th'[u] = th[u]
  BY <1>1, <1>4, <1>5
<1> QED BY <1>5, <1>6 DEF CountsForm

\* The page gives the data of the fast path, and the reference goes.
FastServed(f, r) ==
    LET put == [frame EXCEPT ![f].ref = @ - 1]
        p == frame[f].id
    IN  IF rq[r].op = "write"
        THEN /\ frame' = Written(put, f, p, p \in rq[r].whole)
             /\ disk' = [disk EXCEPT ![p] = FALSE]
        ELSE frame' = put /\ UNCHANGED disk

LEMMA FastFrames == ASSUME IInv, NEW f \in Frame, NEW r \in Req, In(f, r, "cached"), frame[f].ready, FastServed(f, r)
                    PROVE /\ frame' \in [Frame -> FrameRec] /\ disk' \in [Page -> BOOLEAN]
                          /\ (\A g \in Frame \ {f} : Same(g)) /\ Gave(frame[f], frame'[f], "none")
<1>1. TypeOK /\ frame[f] \in FrameRec /\ frame[f].ref \in Nat /\ disk \in [Page -> BOOLEAN] /\ frame \in [Frame -> FrameRec]
  BY Parts, Records, TypesForm
<1>0. "cached" \in Kind
  BY DEF Kind
<1>2. frame[f].ref # 0 /\ frame[f].id \in Page
  BY <1>0, WithFrame
<1>4. PICK x \in Nat : x = frame[f].ref - 1
  BY <1>1, <1>2
<1> DEFINE fr == [frame EXCEPT ![f].ref = @ - 1]
           p == frame[f].id
           whole == p \in rq[r].whole
           pg == [frame[f] EXCEPT !.ref = x]
<1>3. IF rq[r].op = "write" THEN frame' = Written(fr, f, p, whole) /\ disk' = [disk EXCEPT ![p] = FALSE] ELSE frame' = fr /\ disk' = disk
  BY DEF FastServed
<1>5. fr = [frame EXCEPT ![f] = pg]
  BY <1>1, <1>4
<1>6. /\ pg \in FrameRec /\ pg.ref = x /\ pg.id = frame[f].id /\ pg.ready = frame[f].ready /\ pg.pending = frame[f].pending
      /\ pg.dirty = frame[f].dirty /\ pg.oldDirty = frame[f].oldDirty /\ pg.reqs = frame[f].reqs
  BY <1>1, RefForm
<1> HIDE DEF pg, fr
<1>7. fr \in [Frame -> FrameRec] /\ fr[f] = pg /\ \A g \in Frame \ {f} : fr[g] = frame[g]
  BY <1>1, <1>5, <1>6
<1>8. whole \in BOOLEAN /\ frame[f].ready = TRUE
  BY <1>1 DEF FrameRec
<1> HIDE DEF p, whole
<1>9. p \in Page
  BY <1>2 DEF p
<1>10. CASE rq[r].op = "write"
  <2>1. /\ frame' \in [Frame -> FrameRec]
        /\ \A g \in Frame : /\ frame'[g].id = fr[g].id /\ frame'[g].ready = fr[g].ready /\ frame'[g].pending = fr[g].pending
                            /\ frame'[g].oldDirty = fr[g].oldDirty /\ frame'[g].ref = fr[g].ref /\ frame'[g].reqs = fr[g].reqs
                            /\ frame'[g].dirty = (fr[g].dirty \/ g = f)
    BY <1>3, <1>7, <1>8, <1>9, <1>10, WrittenForm
  <2>2. \A g \in Frame : fr[g].dirty \in BOOLEAN
    BY <1>7 DEF FrameRec
  <2>3. \A g \in Frame \ {f} : Same(g)
    BY <1>7, <2>1, <2>2 DEF Same
  <2>4. Gave(frame[f], frame'[f], "none")
    BY <1>4, <1>6, <1>7, <1>8, <2>1 DEF Gave
  <2>5. disk' \in [Page -> BOOLEAN]
    BY <1>1, <1>3, <1>9, <1>10
  <2> QED BY <2>1, <2>3, <2>4, <2>5
<1>11. CASE rq[r].op # "write"
  <2>1. frame' = fr /\ disk' = disk
    BY <1>3, <1>11
  <2> QED BY <1>1, <1>4, <1>6, <1>7, <1>8, <2>1 DEF Same, Gave
<1> QED BY <1>10, <1>11

\* The head of the queue of cached requests leaves it.
LEMMA CachedOne == ASSUME IInv, NEW t \in Thread, NEW f \in Frame, NEW r \in Req, que[t].cached # <<>>, Head(que[t].cached) = <<f, r>>,
                          CountsForm(t), \A u \in Thread \ {t} : que'[u] = que[u], que'[t].pend = que[t].pend,
                          que'[t].cached = Tail(que[t].cached), ListsNext(f, r, "none")
                   PROVE Moved(f, r, "none")
<1>1. TypeOK /\ RepeatsAt(t)
  BY Parts
<1>2. que[t].cached \in Seq(Frame \X Req) /\ IsInjective(que[t].cached)
  BY <1>1, Records DEF RepeatsAt
<1>3. <<f, r>> \in ToSet(que[t].cached) /\ ToSet(Tail(que[t].cached)) = ToSet(que[t].cached) \ {<<f, r>>}
  BY <1>2, SeqTail
<1>4. At(th[t], que[t], f, r, "cached") /\ "cached" \in Kind
  BY <1>3 DEF At, Kind
<1>5. In(f, r, "cached") /\ \A k \in Kind : In(f, r, k) => k = "cached"
  <2>1. In(f, r, "cached")
    BY <1>4 DEF In
  <2> QED BY <1>4, <2>1, WithFrame
<1>6. ~In(f, r, "reqs") /\ ~In(f, r, "held")
  BY <1>5 DEF Kind
<1>7. \A u \in Thread \ {t} : que'[u] = que[u] /\ th'[u] = th[u]
  BY DEF CountsForm
<1>8. ASSUME NEW g \in Frame, NEW s \in Req, NEW k \in Kind
      PROVE At(th'[t], que'[t], g, s, k) <=> IF g = f /\ s = r THEN k = "none" /\ "none" \notin {"reqs", "held"}
                                             ELSE At(th[t], que[t], g, s, k)
  <2>0. k # "none"
    BY DEF Kind
  <2>1. CASE k = "cached"
    <3>1. At(th'[t], que'[t], g, s, k) <=> <<g, s>> \in ToSet(Tail(que[t].cached))
      BY <2>1 DEF At
    <3>2. At(th[t], que[t], g, s, k) <=> <<g, s>> \in ToSet(que[t].cached)
      BY <2>1 DEF At
    <3>3. <<g, s>> = <<f, r>> <=> g = f /\ s = r
      OBVIOUS
    <3> QED BY <1>3, <2>0, <2>1, <3>1, <3>2, <3>3
  <2>2. CASE k # "cached"
    <3>1. At(th'[t], que'[t], g, s, k) <=> At(th[t], que[t], g, s, k)
      BY <2>2 DEF At, CountsForm
    <3>2. g = f /\ s = r => ~At(th[t], que[t], g, s, k)
      BY <1>5, <2>2 DEF In
    <3> QED BY <2>0, <3>1, <3>2
  <2> QED BY <2>1, <2>2
<1>9. \A g \in Frame, s \in Req : s \in ToSet(frame'[g].reqs) <=> IF g = f /\ s = r THEN "none" = "reqs" ELSE s \in ToSet(frame[g].reqs)
  <2>1. r \notin ToSet(frame[f].reqs)
    BY <1>6 DEF In
  <2> QED BY <2>1 DEF ListsNext
<1>10. \A g \in Frame, s \in Req : g \in rq'[s].held <=> IF g = f /\ s = r THEN "none" = "held" ELSE g \in rq[s].held
  <2>1. f \notin rq[r].held
    BY <1>6 DEF In
  <2> QED BY <2>1 DEF ListsNext
<1> QED BY <1>4, <1>7, <1>8, <1>9, <1>10, OneMove

\* The fast path: the request is within one page, so it is done.
FastDone(r, p) == rq' = [rq EXCEPT ![r].done = {p}, ![r].st = "done"]

LEMMA DoneForm == ASSUME TypeOK, NEW r \in Req, NEW p \in Page, FastDone(r, p)
                  PROVE /\ rq' \in [Req -> ReqRec] /\ (\A s \in Req \ {r} : rq'[s] = rq[s])
                        /\ rq'[r].st = "done" /\ rq'[r].op = rq[r].op /\ rq'[r].io = rq[r].io /\ rq'[r].first = rq[r].first
                        /\ rq'[r].last = rq[r].last /\ rq'[r].done = {p} /\ rq'[r].held = rq[r].held
<1>1. rq \in [Req -> ReqRec] /\ rq[r] \in ReqRec
  BY TypesForm, Records
<1> DEFINE me == [rq[r] EXCEPT !.done = {p}, !.st = "done"]
<1>2. rq' = [rq EXCEPT ![r] = me]
  BY <1>1 DEF FastDone
<1>3. /\ me \in ReqRec /\ me.st = "done" /\ me.op = rq[r].op /\ me.io = rq[r].io /\ me.first = rq[r].first
      /\ me.last = rq[r].last /\ me.done = {p} /\ me.held = rq[r].held
  BY <1>1 DEF ReqRec
<1> HIDE DEF me
<1>4. rq' \in [Req -> ReqRec] /\ rq'[r] = me /\ \A s \in Req \ {r} : rq'[s] = rq[s]
  BY <1>1, <1>2, <1>3
<1> QED BY <1>3, <1>4

LEMMA CachedTail == ASSUME NEW q \in QueRec, NEW s \in Seq(Frame \X Req)
                    PROVE LET n == [q EXCEPT !.cached = s] IN
                          n \in QueRec /\ n.cached = s /\ n.comp = q.comp /\ n.pend = q.pend /\ n.user = q.user /\ n.disk = q.disk
BY DEF QueRec

\* A request within one page is with one frame, and the thread is not working on it.
LEMMA OnePage == ASSUME IInv, NEW t \in Thread, th[t].pc \in Idle, NEW f \in Frame, NEW r \in Req, In(f, r, "cached"), WithinOnePage(r)
                 PROVE /\ PagesOf(r) = {frame[f].id} /\ (\A g \in Frame, k \in Kind : In(g, r, k) => g = f /\ k = "cached")
                       /\ th[t].proc # r /\ th[t].arg # r /\ rq[r].st = "taken"
                       /\ r \notin ToSet(que[t].comp) /\ r \notin ToSet(que[t].user)
<1>0. "cached" \in Kind
  BY DEF Kind
<1>1. TypeOK /\ ControlAt(t) /\ WorkingAt(t) /\ QueuesAt(t) /\ OneFrame
  BY Parts
<1>2. /\ rq[r].st = "taken" /\ frame[f].id \in PagesOf(r) /\ frame[f].id \in Page /\ frame[f].id \notin rq[r].done
      /\ \A l \in Kind : In(f, r, l) => l = "cached"
  BY <1>0, WithFrame
<1>3. rq[r].first \in Nat /\ rq[r].last \in Nat /\ rq[r].first = rq[r].last
  BY <1>1, Records DEF WithinOnePage
<1>4. PagesOf(r) = {frame[f].id} /\ frame[f].id = rq[r].last
  BY <1>2, <1>3 DEF PagesOf
<1>5. ASSUME NEW g \in Frame, NEW k \in Kind, In(g, r, k) PROVE g = f /\ k = "cached"
  <2>1. frame[g].id \in PagesOf(r)
    BY <1>5, WithFrame
  <2>2. frame[g].id = frame[f].id /\ frame[f].id # None
    BY <1>2, <1>4, <2>1, NoneApart
  <2>3. g = f
    BY <1>1, <2>2 DEF OneFrame
  <2> QED BY <1>2, <1>5, <2>3
<1>6. th[t].proc # r
  <2>1. SUFFICES ASSUME th[t].proc = r PROVE FALSE
    OBVIOUS
  <2>2. r # None /\ th[t].nxt \in Nat
    BY <1>1, NoneApart, Records
  <2>3. th[t].nxt <= rq[r].last
    BY <1>1, <2>1, <2>2 DEF ControlAt, Idle
  <2>4. f \in FramesHeld(r)
    BY <1>0 DEF FramesHeld
  <2>5. frame[f].id < th[t].nxt
    BY <1>1, <2>1, <2>2, <2>4 DEF WorkingAt
  <2> QED BY <1>3, <1>4, <2>2, <2>3, <2>5
<1>7. th[t].arg # r
  <2>1. r # None
    BY NoneApart
  <2> QED BY <1>1, <1>2, <2>1 DEF WorkingAt
<1>8. r \notin ToSet(que[t].comp) /\ r \notin ToSet(que[t].user)
  BY <1>1, <1>2 DEF QueuesAt
<1> QED BY <1>2, <1>4, <1>5, <1>6, <1>7, <1>8

\* A step that changes no request to the underlying I/O and leaves the old dirty pages as they are.
LEMMA IOQuiet == ASSUME IInv, flight' = flight, \A u \in Thread : que'[u].disk = que[u].disk,
                        \A u \in Thread : th'[u].out = th[u].out /\ th'[u].pc = th[u].pc /\ th'[u].old = th[u].old,
                        \A f \in Frame : frame'[f].oldDirty = frame[f].oldDirty
                 PROVE IOApart' /\ SingleWrites' /\ \A f \in Frame : SameCov(f)
<1>1. \A u \in Thread : OutOp(u)' = OutOp(u)
  BY DEF OutOp
<1>2. IOApart' /\ Ios' = Ios /\ \A f \in Frame : SameCov(f)
  BY <1>1, IOSame
<1>3. SingleWrites'
  BY <1>2, SingleSame
<1> QED BY <1>2, <1>3

\* process_cached_reqs, one request.
LEMMA CachedReqStep == ASSUME IInv, NEW t \in Thread, CachedReq(t) PROVE IInv'
<1>1. TypeOK /\ ControlAt(t) /\ EvictorAt(t) /\ RepeatsAt(t) /\ QueuesAt(t) /\ WorkingAt(t)
  BY Parts
<1>2. que[t] \in QueRec /\ que[t].cached \in Seq(Frame \X Req) /\ que \in [Thread -> QueRec] /\ IsInjective(que[t].cached)
  BY <1>1, Records, TypesForm DEF RepeatsAt
<1> DEFINE x == Head(que[t].cached)
<1>3. /\ th[t].pc = "cached" /\ que[t].cached # <<>> /\ raced' = raced /\ flight' = flight /\ Counts(t)
      /\ FastServed(x[1], x[2]) /\ FastDone(x[2], frame[x[1]].id) /\ que' = [que EXCEPT ![t].cached = Tail(@)]
  BY Zenon DEF CachedReq, Counts, FastServed, FastDone
<1>4. PICK s \in Seq(Frame \X Req) : s = Tail(que[t].cached) /\ x \in Frame \X Req /\ x \in ToSet(que[t].cached) /\ ToSet(s) = ToSet(que[t].cached) \ {x} /\ IsInjective(s)
  BY <1>1, <1>2, <1>3, SeqTail
<1>5. PICK f \in Frame, r \in Req : x = <<f, r>>
  BY <1>4
<1>6. x[1] = f /\ x[2] = r
  BY <1>5
<1>7. Head(que[t].cached) = <<f, r>> /\ <<f, r>> \in ToSet(que[t].cached) /\ FastServed(f, r) /\ FastDone(r, frame[f].id)
  BY <1>3, <1>4, <1>5, <1>6
<1>8. rq[r].io = t /\ WithinOnePage(r)
  BY <1>1, <1>4, <1>6 DEF QueuesAt
<1> HIDE DEF x
<1>9. In(f, r, "cached") /\ "cached" \in Kind /\ "cached" \notin {"cur", "reqs"} /\ "cached" \in {"cached", "held"}
  BY <1>7 DEF In, At, Kind
<1>10. ~frame[f].oldDirty /\ frame[f].ready /\ frame[f].id \in Page
  BY <1>9, WithFrame, Parts DEF FlagsAt
<1>11. th[t].pc \in Idle
  BY <1>3 DEF Idle
<1>12. /\ PagesOf(r) = {frame[f].id} /\ (\A g \in Frame, k \in Kind : In(g, r, k) => g = f /\ k = "cached")
       /\ th[t].proc # r /\ th[t].arg # r /\ rq[r].st = "taken"
       /\ r \notin ToSet(que[t].comp) /\ r \notin ToSet(que[t].user)
  BY <1>8, <1>9, <1>11, OnePage
<1>13. CountsForm(t)
  BY <1>1, <1>3, GoalForm
<1>14. /\ frame' \in [Frame -> FrameRec] /\ disk' \in [Page -> BOOLEAN]
       /\ (\A g \in Frame \ {f} : Same(g)) /\ Gave(frame[f], frame'[f], "none")
  BY <1>7, <1>9, <1>10, FastFrames
<1>15. /\ rq' \in [Req -> ReqRec] /\ (\A v \in Req \ {r} : rq'[v] = rq[v])
       /\ rq'[r].st = "done" /\ rq'[r].op = rq[r].op /\ rq'[r].io = rq[r].io /\ rq'[r].first = rq[r].first
       /\ rq'[r].last = rq[r].last /\ rq'[r].done = {frame[f].id} /\ rq'[r].held = rq[r].held
  BY <1>1, <1>7, <1>10, DoneForm
<1>16. /\ que' \in [Thread -> QueRec] /\ (\A u \in Thread \ {t} : que'[u] = que[u]) /\ que'[t].cached = s
       /\ que'[t].comp = que[t].comp /\ que'[t].pend = que[t].pend /\ que'[t].user = que[t].user /\ que'[t].disk = que[t].disk
  <2> DEFINE n == [que[t] EXCEPT !.cached = s]
  <2>1. que' = [que EXCEPT ![t] = n]
    BY <1>2, <1>3, <1>4
  <2>2. n \in QueRec /\ n.cached = s /\ n.comp = que[t].comp /\ n.pend = que[t].pend /\ n.user = que[t].user /\ n.disk = que[t].disk
    BY <1>2, CachedTail
  <2> HIDE DEF n
  <2> QED BY <1>2, <2>1, <2>2
<1>17. TypeOK'
  <2>1. flight' \subseteq IO /\ raced' \subseteq Page
    BY <1>1, <1>3, TypesForm
  <2> QED BY <1>13, <1>14, <1>15, <1>16, <2>1, TypesNext DEF CountsForm
<1>18. \A g \in Frame : frame'[g].id = frame[g].id /\ frame'[g].oldDirty = frame[g].oldDirty /\ frame'[g].reqs = frame[g].reqs
  BY <1>14 DEF Same, Gave
<1>19. ListsNext(f, r, "none")
  BY <1>15, <1>18 DEF ListsNext
<1>20. Moved(f, r, "none")
  BY <1>3, <1>4, <1>7, <1>13, <1>16, <1>19, CachedOne
<1>21. IOApart' /\ SingleWrites' /\ \A g \in Frame : SameCov(g)
  <2>1. \A u \in Thread : que'[u].disk = que[u].disk
    BY <1>16
  <2>2. \A u \in Thread : th'[u].out = th[u].out /\ th'[u].pc = th[u].pc /\ th'[u].old = th[u].old
    BY <1>13 DEF CountsForm
  <2> QED BY <1>3, <1>18, <2>1, <2>2, IOQuiet
<1>22. CountedAt(f)' /\ FlagsAt(f)' /\ IsInjective(frame'[f].reqs)
  <2>1. /\ frame'[f].id = frame[f].id /\ frame'[f].ready = TRUE /\ frame'[f].pending = frame[f].pending
        /\ frame'[f].oldDirty = frame[f].oldDirty /\ frame'[f].reqs = frame[f].reqs /\ frame'[f].ref = frame[f].ref - 1
    BY <1>14 DEF Gave
  <2>2. "none" \in {"none", "held"} /\ SameCov(f) /\ frame'[f].ref = IF "none" = "none" THEN frame[f].ref - 1 ELSE frame[f].ref
    BY <1>21, <2>1
  <2> QED BY <1>9, <1>10, <1>20, <2>1, <2>2, FrameServe
<1>23. \A g \in Frame, k \in Kind : ~In(g, r, k)'
  <2>1. "none" \notin Kind
    BY DEF Kind
  <2> QED BY <1>12, <1>20, <2>1 DEF Moved
<1>24. RequestAt(r)'
  <2>1. RequestAt(r)
    BY Parts
  <2>2. PagesOf(r)' = PagesOf(r)
    BY <1>15 DEF PagesOf
  <2> QED BY <1>12, <1>15, <1>23, <2>1, <2>2 DEF RequestAt
<1>25. th[t].cur = None /\ th'[t].cur = None /\ th'[t].acc = th[t].acc /\ th'[t].pc = "cached"
  BY <1>1, <1>3, <1>13 DEF ControlAt, CountsForm
<1>26. EvictorAt(t)'
  BY <1>25, NoEvictor
<1>27. ControlAt(t)'
  <2>1. rq'[th[t].proc] = rq[th[t].proc] \/ th[t].proc = None
    <3>1. th[t].proc \in Req \cup {None}
      BY <1>1, Records
    <3> QED BY <1>12, <1>15, <3>1
  <2> QED BY <1>1, <1>13, <2>1 DEF ControlAt, CountsForm
<1>28. WorkingAt(t)'
  <2>1. \A v \in Req : rq[v].io = t => /\ rq'[v].io = t /\ rq'[v].first = rq[v].first /\ rq'[v].last = rq[v].last
                                       /\ v \in {th[t].arg, th[t].proc} => rq'[v].st = rq[v].st
    BY <1>8, <1>12, <1>15
  <2>2. \A g \in Frame, k \in Kind : \A v \in Req : v = th[t].proc /\ In(g, v, k)' => \E j \in Kind : In(g, v, j)
    BY <1>9, <1>20 DEF Moved
  <2>3. ASSUME th[t].proc # None, NEW p \in rq'[th[t].proc].done PROVE p \in rq[th[t].proc].done \/ p < th[t].nxt
    <3>1. th[t].proc \in Req
      BY <2>3, WorkingOn
    <3> QED BY <1>12, <1>15, <2>3, <3>1
  <2>4. th'[t].arg \in {th[t].arg, None} /\ th'[t].proc \in {th[t].proc, None} /\ th'[t].cur \in {th[t].cur, None} /\ th'[t].nxt = th[t].nxt
    BY <1>13 DEF CountsForm
  <2> QED BY <1>16, <1>18, <2>1, <2>2, <2>3, <2>4, WorkingKept
<1>29. QueuesAt(t)'
  <2>1. \A v \in Req : rq'[v].io = rq[v].io /\ rq'[v].first = rq[v].first /\ rq'[v].last = rq[v].last
    BY <1>15
  <2>2. que[t].pend \in Seq(Frame \X Req) /\ que[t].comp \in Seq(Req) /\ que[t].user \in Seq(Req)
    BY <1>1, Records
  <2>3. ToSet(que[t].pend) \subseteq Frame \X Req /\ ToSet(que[t].cached) \subseteq Frame \X Req /\ ToSet(que[t].comp) \subseteq Req /\ ToSet(que[t].user) \subseteq Req
    BY <1>2, <2>2, SeqSet
  <2>4. \A y \in ToSet(que'[t].pend) : rq'[y[2]].io = t
    <3>1. \A y \in ToSet(que[t].pend) : y[2] \in Req /\ rq[y[2]].io = t
      BY <1>1, <2>3 DEF QueuesAt
    <3> QED BY <1>16, <2>1, <3>1
  <2>5. \A y \in ToSet(que'[t].cached) : rq'[y[2]].io = t /\ WithinOnePage(y[2])'
    <3>1. \A y \in ToSet(que[t].cached) : y[2] \in Req /\ rq[y[2]].io = t /\ rq[y[2]].first = rq[y[2]].last
      BY <1>1, <2>3 DEF QueuesAt, WithinOnePage
    <3> QED BY <1>4, <1>16, <2>1, <3>1 DEF WithinOnePage
  <2>6. \A v \in ToSet(que'[t].comp) : rq'[v].io = t /\ rq'[v].st = "taken" /\ rq'[v].done = PagesOf(v)'
    <3>1. \A v \in ToSet(que[t].comp) : v \in Req \ {r} /\ rq[v].io = t /\ rq[v].st = "taken" /\ rq[v].done = PagesOf(v)
      BY <1>1, <1>12, <2>3 DEF QueuesAt
    <3> QED BY <1>15, <1>16, <3>1 DEF PagesOf
  <2>7. \A v \in ToSet(que'[t].user) : rq'[v].io = t /\ rq'[v].st = "queued"
    <3>1. \A v \in ToSet(que[t].user) : v \in Req \ {r} /\ rq[v].io = t /\ rq[v].st = "queued"
      BY <1>1, <1>12, <2>3 DEF QueuesAt
    <3> QED BY <1>15, <1>16, <3>1
  <2> QED BY <2>4, <2>5, <2>6, <2>7 DEF QueuesAt
<1>30. RepeatsAt(t)'
  BY <1>1, <1>4, <1>13, <1>16 DEF RepeatsAt, CountsForm
<1>31. \A u \in Thread \ {t} : th'[u] = th[u] /\ que'[u] = que[u]
  BY <1>13, <1>16 DEF CountsForm
<1>32. \A g \in Frame : ~Evicting(t, g)
  BY <1>25, NoneApart DEF Evicting
<1>33. \A g \in Frame \ {f} : Same(g) /\ SameCov(g)
  BY <1>14, <1>21
<1>34. \A v \in Req \ {r} : rq'[v] = rq[v]
  BY <1>15
<1> QED BY <1>8, <1>10, <1>17, <1>18, <1>20, <1>21, <1>22, <1>24, <1>25, <1>26, <1>27, <1>28, <1>29, <1>30, <1>31, <1>32, <1>33, <1>34, MoveStep

\* The frames a completed request gives back, and the request.
GivesBack(r) ==
    /\ frame' = [f \in Frame |-> IF f \in rq[r].held THEN [frame[f] EXCEPT !.ref = @ - 1] ELSE frame[f]]
    /\ rq' = [rq EXCEPT ![r].st = "done", ![r].held = {}]
BackForm(r) ==
    /\ rq' \in [Req -> ReqRec] /\ (\A s \in Req \ {r} : rq'[s] = rq[s])
    /\ rq'[r].st = "done" /\ rq'[r].op = rq[r].op /\ rq'[r].io = rq[r].io /\ rq'[r].first = rq[r].first
    /\ rq'[r].last = rq[r].last /\ rq'[r].done = rq[r].done /\ rq'[r].held = {}
    /\ frame' \in [Frame -> FrameRec]
    /\ \A f \in Frame : /\ frame'[f].id = frame[f].id /\ frame'[f].ready = frame[f].ready /\ frame'[f].pending = frame[f].pending
                        /\ frame'[f].dirty = frame[f].dirty /\ frame'[f].oldDirty = frame[f].oldDirty /\ frame'[f].reqs = frame[f].reqs
                        /\ frame'[f].ref = IF f \in rq[r].held THEN frame[f].ref - 1 ELSE frame[f].ref

LEMMA GaveBack == ASSUME IInv, NEW r \in Req, GivesBack(r) PROVE BackForm(r)
<1>1. TypeOK
  BY Parts
<1>2. rq \in [Req -> ReqRec] /\ rq[r] \in ReqRec /\ frame \in [Frame -> FrameRec] /\ \A f \in Frame : frame[f] \in FrameRec /\ frame[f].ref \in Nat
  BY <1>1, TypesForm, Records
<1> DEFINE me == [rq[r] EXCEPT !.st = "done", !.held = {}]
<1>3. rq' = [rq EXCEPT ![r] = me]
  BY <1>2 DEF GivesBack
<1>4. /\ me \in ReqRec /\ me.st = "done" /\ me.op = rq[r].op /\ me.io = rq[r].io /\ me.first = rq[r].first
      /\ me.last = rq[r].last /\ me.done = rq[r].done /\ me.held = {}
  BY <1>2 DEF ReqRec
<1> HIDE DEF me
<1>5. rq' \in [Req -> ReqRec] /\ rq'[r] = me /\ \A s \in Req \ {r} : rq'[s] = rq[s]
  BY <1>2, <1>3, <1>4
<1>6. ASSUME NEW f \in Frame
      PROVE /\ frame'[f] \in FrameRec
            /\ frame'[f].id = frame[f].id /\ frame'[f].ready = frame[f].ready /\ frame'[f].pending = frame[f].pending
            /\ frame'[f].dirty = frame[f].dirty /\ frame'[f].oldDirty = frame[f].oldDirty /\ frame'[f].reqs = frame[f].reqs
            /\ frame'[f].ref = IF f \in rq[r].held THEN frame[f].ref - 1 ELSE frame[f].ref
  <2>1. frame'[f] = IF f \in rq[r].held THEN [frame[f] EXCEPT !.ref = @ - 1] ELSE frame[f]
    BY Zenon DEF GivesBack
  <2>2. CASE f \in rq[r].held
    <3>1. In(f, r, "held") /\ "held" \in Kind
      BY <2>2 DEF In, Kind
    <3>2. frame[f].ref # 0
      BY <3>1, WithFrame
    <3>3. PICK x \in Nat : x = frame[f].ref - 1
      BY <1>2, <3>2
    <3>4. frame'[f] = [frame[f] EXCEPT !.ref = x]
      BY <2>1, <2>2, <3>3
    <3>5. frame[f] \in FrameRec
      BY <1>2
    <3> DEFINE n == [frame[f] EXCEPT !.ref = x]
    <3>6. /\ n \in FrameRec /\ n.ref = x /\ n.id = frame[f].id /\ n.ready = frame[f].ready /\ n.pending = frame[f].pending
          /\ n.dirty = frame[f].dirty /\ n.oldDirty = frame[f].oldDirty /\ n.reqs = frame[f].reqs
      BY <3>5, RefForm
    <3>7. frame'[f] = n
      BY <3>4
    <3> HIDE DEF n
    <3> QED BY <2>2, <3>3, <3>6, <3>7
  <2>3. CASE f \notin rq[r].held
    BY <1>2, <2>1, <2>3
  <2> QED BY <2>2, <2>3
<1>7. frame' \in [Frame -> FrameRec]
  <2>1. frame' = [f \in Frame |-> frame'[f]]
    BY Zenon DEF GivesBack
  <2>2. \A f \in Frame : frame'[f] \in FrameRec
    BY <1>6
  <2> QED BY <2>1, <2>2, Zenon
<1> QED BY <1>4, <1>5, <1>6, <1>7 DEF BackForm

\* Nobody else is affected: the request leaves the frames it kept, and no other place.
LEMMA BackMoved == ASSUME IInv, NEW t \in Thread, NEW r \in Req, rq[r].done = PagesOf(r), BackForm(r), CountsForm(t),
                          \A u \in Thread : que'[u].pend = que[u].pend /\ que'[u].cached = que[u].cached
                   PROVE /\ \A f \in Frame, k \in Kind : In(f, r, k) <=> k = "held" /\ f \in rq[r].held
                         /\ \A f \in Frame, s \in Req, k \in Kind : In(f, s, k)' <=> s # r /\ In(f, s, k)
<1>1. ASSUME NEW f \in Frame, NEW k \in Kind, In(f, r, k) PROVE k = "held" /\ f \in rq[r].held
  <2>1. k = "held"
    BY <1>1, WithFrame
  <2> QED BY <1>1, <2>1 DEF In, At
<1>2. \A f \in Frame : f \in rq[r].held => In(f, r, "held")
  BY DEF In
<1>3. ASSUME NEW f \in Frame, NEW s \in Req, NEW k \in Kind PROVE In(f, s, k)' <=> s # r /\ In(f, s, k)
  <2>1. \A u \in Thread : At(th'[u], que'[u], f, s, k) <=> At(th[u], que[u], f, s, k)
    BY DEF At, CountsForm
  <2>2. s \in ToSet(frame'[f].reqs) <=> s \in ToSet(frame[f].reqs)
    BY DEF BackForm
  <2>3. f \in rq'[s].held <=> s # r /\ f \in rq[s].held
    BY DEF BackForm
  <2>4. s = r => (In(f, s, k) <=> k = "held" /\ f \in rq[r].held)
    BY <1>1, <1>2
  <2>5. s = r => \A u \in Thread : ~At(th[u], que[u], f, s, k)
    <3>1. ASSUME s = r, NEW u \in Thread, At(th[u], que[u], f, s, k) PROVE FALSE
      <4>1. In(f, r, k)
        BY <3>1 DEF In
      <4>2. k = "held"
        BY <1>1, <4>1
      <4> QED BY <3>1, <4>2 DEF At
    <3> QED BY <3>1
  <2>6. s = r => ~(k = "reqs" /\ s \in ToSet(frame[f].reqs))
    <3>1. ASSUME s = r, k = "reqs", s \in ToSet(frame[f].reqs) PROVE FALSE
      <4>1. In(f, r, k)
        BY <3>1 DEF In
      <4> QED BY <1>1, <3>1, <4>1
    <3> QED BY <3>1
  <2>7. In(f, s, k)' <=> \/ \E u \in Thread : At(th'[u], que'[u], f, s, k)
                         \/ (k = "reqs" /\ s \in ToSet(frame'[f].reqs))
                         \/ (k = "held" /\ f \in rq'[s].held)
    BY DEF In
  <2>8. In(f, s, k) <=> \/ \E u \in Thread : At(th[u], que[u], f, s, k)
                        \/ (k = "reqs" /\ s \in ToSet(frame[f].reqs))
                        \/ (k = "held" /\ f \in rq[s].held)
    BY DEF In
  <2> QED BY <2>1, <2>2, <2>3, <2>5, <2>6, <2>7, <2>8
<1> QED BY <1>1, <1>2, <1>3

\* The frames afterwards.
LEMMA BackFrame == ASSUME IInv, NEW t \in Thread, NEW r \in Req, BackForm(r), CountsForm(t), NEW f \in Frame, SameCov(f),
                          \A k \in Kind : In(f, r, k) <=> k = "held" /\ f \in rq[r].held,
                          \A s \in Req, k \in Kind : In(f, s, k)' <=> s # r /\ In(f, s, k)
                   PROVE CountedAt(f)' /\ FlagsAt(f)' /\ IsInjective(frame'[f].reqs)
<1>1. CountedAt(f) /\ FlagsAt(f) /\ IsInjective(frame[f].reqs)
  BY Parts
<1>2. frame[f].ref \in Nat
  BY Parts, Records
<1>3. r \in Users(f) <=> f \in rq[r].held
  <2>1. "held" \in Kind
    BY DEF Kind
  <2> QED BY <2>1, UsersForm
<1>4. Users(f)' = Users(f) \ {r} /\ Users(f) \subseteq Req
  BY UsersForm
<1>5. Cardinality(Users(f)) \in Nat /\ (r \in Users(f) => Cardinality(Users(f) \ {r}) = Cardinality(Users(f)) - 1)
  BY <1>4, CountUsers
<1>6. r \notin Users(f) => Users(f)' = Users(f)
  BY <1>4
<1>7. CountedAt(f)'
  <2>1. frame'[f].ref = IF f \in rq[r].held THEN frame[f].ref - 1 ELSE frame[f].ref
    BY DEF BackForm
  <2>2. CASE r \in Users(f)
    <3>1. Cardinality(Users(f)') = Cardinality(Users(f)) - 1
      BY <1>4, <1>5, <2>2
    <3> QED BY <1>1, <1>2, <1>3, <1>5, <2>1, <2>2, <3>1 DEF CountedAt, SameCov
  <2>3. CASE r \notin Users(f)
    <3>1. Cardinality(Users(f)') = Cardinality(Users(f))
      BY <1>6, <2>3
    <3> QED BY <1>1, <1>2, <1>3, <1>5, <2>1, <2>3, <3>1 DEF CountedAt, SameCov
  <2> QED BY <2>2, <2>3
<1>8. /\ frame'[f].id = frame[f].id /\ frame'[f].ready = frame[f].ready /\ frame'[f].pending = frame[f].pending
      /\ frame'[f].dirty = frame[f].dirty /\ frame'[f].oldDirty = frame[f].oldDirty /\ frame'[f].reqs = frame[f].reqs
  BY DEF BackForm
<1>9. \A u \in Thread : Evicting(u, f)' <=> Evicting(u, f)
  BY DEF Evicting, CountsForm
<1>10. FlagsAt(f)'
  BY <1>1, <1>8, <1>9 DEF FlagsAt, SameCov
<1> QED BY <1>1, <1>7, <1>8, <1>10

\* process_completed_requests, one request.
LEMMA CompletedReqStep == ASSUME IInv, NEW t \in Thread, CompletedReq(t) PROVE IInv'
<1>1. /\ TypeOK /\ ControlAt(t) /\ EvictorAt(t) /\ RepeatsAt(t) /\ QueuesAt(t) /\ WorkingAt(t) /\ AccAt(t)
      /\ OnePlace /\ AccApart /\ OneFrame /\ OneEvictor
  BY Parts
<1>2. que[t] \in QueRec /\ que[t].comp \in Seq(Req) /\ que \in [Thread -> QueRec] /\ IsInjective(que[t].comp)
  BY <1>1, Records, TypesForm DEF RepeatsAt
<1>3. /\ th[t].pc = "comp" /\ que[t].comp # <<>> /\ disk' = disk /\ raced' = raced /\ flight' = flight /\ Counts(t)
      /\ GivesBack(Head(que[t].comp)) /\ que' = [que EXCEPT ![t].comp = Tail(@)]
  BY Zenon DEF CompletedReq, Counts, GivesBack
<1>4. PICK s \in Seq(Req), r \in Req : s = Tail(que[t].comp) /\ r = Head(que[t].comp) /\ r \in ToSet(que[t].comp)
                                       /\ ToSet(s) = ToSet(que[t].comp) \ {r} /\ IsInjective(s)
  BY <1>2, <1>3, SeqTail
<1>5. rq[r].io = t /\ rq[r].st = "taken" /\ rq[r].done = PagesOf(r)
  BY <1>1, <1>4 DEF QueuesAt
<1>6. GivesBack(r)
  BY <1>3, <1>4
<1>7. BackForm(r) /\ CountsForm(t)
  BY <1>1, <1>3, <1>6, GaveBack, GoalForm
<1>8. /\ que' \in [Thread -> QueRec] /\ (\A u \in Thread \ {t} : que'[u] = que[u]) /\ que'[t].comp = s
      /\ que'[t].cached = que[t].cached /\ que'[t].pend = que[t].pend /\ que'[t].user = que[t].user /\ que'[t].disk = que[t].disk
  <2> DEFINE n == [que[t] EXCEPT !.comp = s]
  <2>1. que' = [que EXCEPT ![t] = n]
    BY <1>2, <1>3, <1>4
  <2>2. n \in QueRec /\ n.comp = s /\ n.cached = que[t].cached /\ n.pend = que[t].pend /\ n.user = que[t].user /\ n.disk = que[t].disk
    BY <1>2, CompForm
  <2> HIDE DEF n
  <2> QED BY <1>2, <2>1, <2>2
<1>9. \A u \in Thread : que'[u].pend = que[u].pend /\ que'[u].cached = que[u].cached /\ que'[u].disk = que[u].disk
  BY <1>8
<1>10. /\ \A f \in Frame, k \in Kind : In(f, r, k) <=> k = "held" /\ f \in rq[r].held
       /\ \A f \in Frame, v \in Req, k \in Kind : In(f, v, k)' <=> v # r /\ In(f, v, k)
  BY <1>5, <1>7, <1>9, BackMoved
<1>11. \A f \in Frame : frame'[f].id = frame[f].id /\ frame'[f].oldDirty = frame[f].oldDirty /\ frame'[f].pending = frame[f].pending
  BY <1>7 DEF BackForm
<1>12. \A u \in Thread : /\ th'[u].out = th[u].out /\ th'[u].pc = th[u].pc /\ th'[u].old = th[u].old /\ th'[u].acc = th[u].acc
                         /\ th'[u].cur = th[u].cur
  BY <1>7 DEF CountsForm
<1>13. TypeOK'
  <2>1. flight' \subseteq IO /\ raced' \subseteq Page /\ disk' \in [Page -> BOOLEAN]
    BY <1>1, <1>3, TypesForm
  <2> QED BY <1>7, <1>8, <2>1, TypesNext DEF CountsForm, BackForm
<1>14. IOApart' /\ SingleWrites' /\ \A f \in Frame : SameCov(f)
  BY <1>3, <1>9, <1>11, <1>12, IOQuiet
<1>15. ASSUME NEW f \in Frame PROVE CountedAt(f)' /\ FlagsAt(f)' /\ IsInjective(frame'[f].reqs)
  BY <1>7, <1>10, <1>14, BackFrame
<1>16. OnePlace' /\ AccApart' /\ OneFrame' /\ OneEvictor'
  <2>1. OnePlace'
    BY <1>1, <1>10 DEF OnePlace
  <2>2. AccApart'
    BY <1>1, <1>12 DEF AccApart
  <2>3. OneFrame'
    BY <1>1, <1>11 DEF OneFrame
  <2>4. OneEvictor'
    BY <1>1, <1>12 DEF OneEvictor
  <2> QED BY <2>1, <2>2, <2>3, <2>4
<1>17. (\A v \in Req \ {r} : rq'[v] = rq[v]) /\ \A v \in Req : rq'[v].io = rq[v].io /\ rq'[v].first = rq[v].first /\ rq'[v].last = rq[v].last
  BY <1>7 DEF BackForm
<1>18. ASSUME NEW v \in Req PROVE RequestAt(v)'
  <2>1. CASE v # r
    <3>1. \A f \in Frame, k \in Kind : In(f, v, k)' => In(f, v, k) /\ frame'[f].id = frame[f].id
      BY <1>10, <1>11
    <3> QED BY <1>17, <2>1, <3>1, OtherRequest
  <2>2. CASE v = r
    <3>1. RequestAt(r)
      BY Parts
    <3>2. PagesOf(r)' = PagesOf(r) /\ rq'[r].done = rq[r].done /\ rq'[r].st = "done"
      BY <1>7, <1>17 DEF PagesOf, BackForm
    <3>3. \A f \in Frame, k \in Kind : ~In(f, r, k)'
      BY <1>10
    <3>4. RequestAt(r)'
      BY <1>5, <1>17, <3>1, <3>2, <3>3 DEF RequestAt
    <3> QED BY <2>2, <3>4
  <2> QED BY <2>1, <2>2
<1>19. th[t].cur = None /\ th[t].proc \in Req \cup {None} /\ th[t].arg \in Req \cup {None} /\ r # None
  BY <1>1, <1>3, Records, NoneApart DEF ControlAt
<1>20. th[t].proc # r /\ th[t].arg # r
  <2>1. ASSUME th[t].proc = r PROVE FALSE
    <3>1. th[t].nxt <= rq[r].last
      BY <1>1, <1>3, <1>19, <2>1 DEF ControlAt
    <3>2. rq[r].first \in Nat /\ rq[r].last \in Nat /\ th[t].nxt \in Nat /\ rq[r].first <= rq[r].last
      BY <1>1, Records, Parts DEF RequestAt
    <3>3. rq[r].last \in rq[r].done
      BY <1>5, <3>2 DEF PagesOf
    <3>4. rq[r].last < th[t].nxt
      BY <1>1, <1>19, <2>1, <3>3 DEF WorkingAt
    <3> QED BY <3>1, <3>2, <3>4
  <2>2. th[t].arg # r
    BY <1>1, <1>5, <1>19 DEF WorkingAt
  <2> QED BY <2>1, <2>2
<1>21. EvictorAt(t)'
  <2>1. th'[t].cur = None /\ th'[t].pc # "use"
    BY <1>3, <1>12, <1>19
  <2> QED BY <2>1, NoEvictor
<1>22. ControlAt(t)'
  <2>1. rq'[th[t].proc] = rq[th[t].proc] \/ th[t].proc = None
    BY <1>17, <1>19, <1>20
  <2> QED BY <1>1, <1>7, <2>1 DEF ControlAt, CountsForm
<1>23. WorkingAt(t)'
  <2>1. \A v \in Req : rq[v].io = t => /\ rq'[v].io = t /\ rq'[v].first = rq[v].first /\ rq'[v].last = rq[v].last
                                       /\ v \in {th[t].arg, th[t].proc} => rq'[v].st = rq[v].st
    BY <1>17, <1>20
  <2>2. \A g \in Frame, k \in Kind : \A v \in Req : v = th[t].proc /\ In(g, v, k)' => \E j \in Kind : In(g, v, j)
    BY <1>10
  <2>3. th[t].proc # None => \A p \in rq'[th[t].proc].done : p \in rq[th[t].proc].done \/ p < th[t].nxt
    BY <1>17, <1>19, <1>20
  <2>4. th'[t].arg \in {th[t].arg, None} /\ th'[t].proc \in {th[t].proc, None} /\ th'[t].cur \in {th[t].cur, None} /\ th'[t].nxt = th[t].nxt
    BY <1>7 DEF CountsForm
  <2> QED BY <1>8, <1>11, <2>1, <2>2, <2>3, <2>4, WorkingKept
<1>24. QueuesAt(t)'
  <2>2. que[t].pend \in Seq(Frame \X Req) /\ que[t].cached \in Seq(Frame \X Req) /\ que[t].user \in Seq(Req)
    BY <1>1, Records
  <2>3. ToSet(que[t].pend) \subseteq Frame \X Req /\ ToSet(que[t].cached) \subseteq Frame \X Req /\ ToSet(que[t].comp) \subseteq Req /\ ToSet(que[t].user) \subseteq Req
    BY <1>2, <2>2, SeqSet
  <2>4. \A y \in ToSet(que'[t].pend) : rq'[y[2]].io = t
    <3>1. \A y \in ToSet(que[t].pend) : y[2] \in Req /\ rq[y[2]].io = t
      BY <1>1, <2>3 DEF QueuesAt
    <3> QED BY <1>8, <1>17, <3>1
  <2>5. \A y \in ToSet(que'[t].cached) : rq'[y[2]].io = t /\ WithinOnePage(y[2])'
    <3>1. \A y \in ToSet(que[t].cached) : y[2] \in Req /\ rq[y[2]].io = t /\ rq[y[2]].first = rq[y[2]].last
      BY <1>1, <2>3 DEF QueuesAt, WithinOnePage
    <3> QED BY <1>8, <1>17, <3>1 DEF WithinOnePage
  <2>6. \A v \in ToSet(que'[t].comp) : rq'[v].io = t /\ rq'[v].st = "taken" /\ rq'[v].done = PagesOf(v)'
    <3>1. \A v \in ToSet(s) : v \in Req \ {r} /\ rq[v].io = t /\ rq[v].st = "taken" /\ rq[v].done = PagesOf(v)
      BY <1>1, <1>4, <2>3 DEF QueuesAt
    <3> QED BY <1>8, <1>17, <3>1 DEF PagesOf
  <2>7. \A v \in ToSet(que'[t].user) : rq'[v].io = t /\ rq'[v].st = "queued"
    <3>1. \A v \in ToSet(que[t].user) : v \in Req \ {r} /\ rq[v].io = t /\ rq[v].st = "queued"
      BY <1>1, <1>5, <2>3 DEF QueuesAt
    <3> QED BY <1>8, <1>17, <3>1
  <2> QED BY <2>4, <2>5, <2>6, <2>7 DEF QueuesAt
<1>25. RepeatsAt(t)' /\ AccAt(t)'
  <2>1. RepeatsAt(t)'
    BY <1>1, <1>4, <1>7, <1>8 DEF RepeatsAt, CountsForm
  <2>2. AccAt(t)'
    BY <1>1, <1>12 DEF AccAt
  <2> QED BY <2>1, <2>2
<1>26. ASSUME NEW u \in Thread, u # t
       PROVE EvictorAt(u)' /\ ControlAt(u)' /\ WorkingAt(u)' /\ QueuesAt(u)' /\ RepeatsAt(u)' /\ AccAt(u)'
  <2>1. th'[u] = th[u] /\ que'[u] = que[u]
    BY <1>7, <1>8, <1>26 DEF CountsForm
  <2>2. \A v \in Req : rq[v].io = u => rq'[v] = rq[v]
    BY <1>5, <1>17, <1>26
  <2>3. \A f \in Frame, v \in Req, k \in Kind : rq[v].io = u =>
           (In(f, v, k)' => \E l \in Kind : In(f, v, l)) /\ (In(f, v, k) => frame'[f].id = frame[f].id)
    BY <1>10, <1>11
  <2>4. \A f \in Frame : th[u].cur = f => frame'[f].oldDirty = frame[f].oldDirty /\ (Evicting(u, f) /\ frame[f].oldDirty => ~frame'[f].pending)
    BY <1>11, Parts DEF EvictorAt
  <2> QED BY <1>13, <2>1, <2>2, <2>3, <2>4, OtherThread
<1>27. \A u \in Thread : EvictorAt(u)' /\ ControlAt(u)' /\ WorkingAt(u)' /\ QueuesAt(u)' /\ RepeatsAt(u)' /\ AccAt(u)'
  BY <1>21, <1>22, <1>23, <1>24, <1>25, <1>26
<1> QED BY <1>13, <1>14, <1>15, <1>16, <1>18, <1>27 DEF IInv

-------------------------------------------------------------------------------
(* queue_requests                                                          *)

\* The order of the places in the lists is a strict total order.
LEMMA BeforeOrder == /\ \A x \in Nat \X Nat : ~Before(x, x)
                     /\ \A x, y \in Nat \X Nat : Before(x, y) \/ Before(y, x) \/ x = y
                     /\ \A x, y, z \in Nat \X Nat : Before(x, y) /\ Before(y, z) => Before(x, z)
<1>1. \A x \in Nat \X Nat : x[1] \in Nat /\ x[2] \in Nat
  OBVIOUS
<1>2. \A x, y \in Nat \X Nat : x[1] = y[1] /\ x[2] = y[2] => x = y
  OBVIOUS
<1>3. \A x \in Nat \X Nat : ~Before(x, x)
  BY <1>1 DEF Before
<1>4. \A x, y \in Nat \X Nat : Before(x, y) \/ Before(y, x) \/ x = y
  BY <1>1, <1>2 DEF Before
<1>5. ASSUME NEW x \in Nat \X Nat, NEW y \in Nat \X Nat, NEW z \in Nat \X Nat, Before(x, y), Before(y, z) PROVE Before(x, z)
  <2>1. x[1] \in Nat /\ x[2] \in Nat /\ y[1] \in Nat /\ y[2] \in Nat /\ z[1] \in Nat /\ z[2] \in Nat
    BY <1>1
  <2> QED BY <1>5, <2>1 DEF Before
<1> QED BY <1>3, <1>4, <1>5

\* Places in their order: the k-th is the one that k - 1 others precede.
Ranked(mine) == [k \in 1 .. Cardinality(mine) |-> CHOOSE x \in mine : Cardinality({y \in mine : Before(y, x)}) = k - 1]

LEMMA RankOrder == ASSUME NEW mine, mine \subseteq Nat \X Nat, IsFiniteSet(mine)
                   PROVE /\ Cardinality(mine) \in Nat
                         /\ \A k \in 1 .. Cardinality(mine) : Ranked(mine)[k] \in mine
                         /\ \A x \in mine : \E k \in 1 .. Cardinality(mine) : Ranked(mine)[k] = x
                         /\ \A j, k \in 1 .. Cardinality(mine) : Ranked(mine)[j] = Ranked(mine)[k] => j = k
<1> DEFINE n == Cardinality(mine)
           Below(x) == {y \in mine : Before(y, x)}
           rank == [x \in mine |-> Cardinality(Below(x)) + 1]
           Kth(i) == CHOOSE x \in mine : Cardinality(Below(x)) = i - 1
<1>1. n \in Nat
  BY FS_CardinalityType
<1>2. ASSUME NEW x \in mine PROVE IsFiniteSet(Below(x)) /\ Cardinality(Below(x)) \in 0 .. n - 1
  <2>1. IsFiniteSet(Below(x)) /\ Cardinality(Below(x)) <= n /\ (n = Cardinality(Below(x)) => mine = Below(x))
    BY FS_Subset
  <2>2. mine # Below(x)
    BY BeforeOrder
  <2> QED BY <1>1, <2>1, <2>2, FS_CardinalityType
<1>3. ASSUME NEW x \in mine, NEW y \in mine, Before(x, y) PROVE Cardinality(Below(x)) < Cardinality(Below(y))
  <2>1. \A z \in mine : (Before(z, x) => Before(z, y)) /\ ~Before(x, x)
    BY <1>3, BeforeOrder
  <2>2. Below(x) \subseteq Below(y) /\ x \in Below(y) /\ x \notin Below(x)
    BY <1>3, <2>1
  <2>3. Cardinality(Below(x)) <= Cardinality(Below(y)) /\ Cardinality(Below(y)) # Cardinality(Below(x))
    BY <1>2, <2>2, FS_Subset
  <2>4. Cardinality(Below(x)) \in 0 .. n - 1 /\ Cardinality(Below(y)) \in 0 .. n - 1
    BY <1>2
  <2> HIDE DEF Below, n
  <2> QED BY <1>1, <2>3, <2>4
<1>3a. \A x \in mine : Cardinality(Below(x)) \in 0 .. n - 1 /\ Cardinality(Below(x)) \in Int
  <2>1. \A x \in mine : Cardinality(Below(x)) \in 0 .. n - 1
    BY <1>2
  <2> HIDE DEF Below, n
  <2> QED BY <1>1, <2>1
<1>9. \A i \in 1 .. n : Ranked(mine)[i] = Kth(i)
  BY DEF Ranked
<1> HIDE DEF Below, n
<1>4. \A x, y \in mine : Cardinality(Below(x)) = Cardinality(Below(y)) => x = y
  <2> TAKE x \in mine, y \in mine
  <2>1. Cardinality(Below(x)) \in Int /\ Cardinality(Below(y)) \in Int
    BY <1>3a
  <2>2. Before(x, y) \/ Before(y, x) \/ x = y
    BY BeforeOrder
  <2>3. CASE Before(x, y)
    BY <1>3, <2>1, <2>3
  <2>4. CASE Before(y, x)
    BY <1>3, <2>1, <2>4
  <2> QED BY <2>2, <2>3, <2>4
<1>5. rank \in [mine -> 1 .. n] /\ \A x \in mine : rank[x] = Cardinality(Below(x)) + 1
  BY <1>1, <1>3a
<1> HIDE DEF rank
<1>6. rank \in Injection(mine, 1 .. n)
  <2>1. \A x, y \in mine : rank[x] = rank[y] => x = y
    <3> TAKE x \in mine, y \in mine
    <3>1. Cardinality(Below(x)) \in Int /\ Cardinality(Below(y)) \in Int
      BY <1>3a
    <3> QED BY <1>4, <1>5, <3>1
  <2> QED BY <1>5, <2>1 DEF Injection, IsInjective
<1>7. rank \in Surjection(mine, 1 .. n)
  <2>1. PICK m \in Nat : m = n /\ m = Cardinality(mine)
    BY <1>1 DEF n
  <2>2. 1 \in Int /\ m \in Int /\ (IF 1 > m THEN 0 ELSE m - 1 + 1) = m
    OBVIOUS
  <2>3. IsFiniteSet(1 .. m) /\ Cardinality(1 .. m) = m
    BY <2>2, FS_Interval
  <2>4. rank \in Injection(mine, 1 .. m)
    BY <1>6, <2>1
  <2>5. rank \in Surjection(mine, 1 .. m)
    BY <2>1, <2>3, <2>4, FS_Injection
  <2> QED BY <2>1, <2>5
<1>8. ASSUME NEW i \in 1 .. n PROVE Kth(i) \in mine /\ Cardinality(Below(Kth(i))) = i - 1
  <2>1. PICK x \in mine : rank[x] = i
    BY <1>7 DEF Surjection
  <2>2. Cardinality(Below(x)) = i - 1
    BY <1>1, <1>3a, <1>5, <2>1
  <2> QED BY <2>2
<1>10. ASSUME NEW x \in mine PROVE \E i \in 1 .. n : Kth(i) = x
  <2>1. rank[x] \in 1 .. n /\ Cardinality(Below(x)) = rank[x] - 1
    BY <1>1, <1>2, <1>5
  <2> QED BY <1>4, <1>8, <2>1
<1> HIDE DEF rank, Kth
<1>11. \A i, j \in 1 .. n : Kth(i) = Kth(j) => i = j
  <2> TAKE i \in 1 .. n, j \in 1 .. n
  <2>1. Kth(i) = Kth(j) => i - 1 = j - 1
    BY <1>8
  <2> QED BY <1>1, <2>1
<1> QED BY <1>1, <1>8, <1>9, <1>10, <1>11 DEF n

\* The lists collected from the pages: each request is in one of them, once.
AccOK(acc) ==
    /\ acc \in Seq(Frame \X Seq(Req)) /\ IsInjective(acc) /\ \A a \in ToSet(acc) : IsInjective(a[2])
    /\ \A a, c \in ToSet(acc) : \A r \in Req : a[1] = c[1] /\ r \in ToSet(a[2]) /\ r \in ToSet(c[2]) => a = c
Listed(acc, f, r) == \E a \in ToSet(acc) : a[1] = f /\ r \in ToSet(a[2])

LEMMA PlacesForm == ASSUME NEW acc, acc \in Seq(Frame \X Seq(Req))
                    PROVE /\ IsFiniteSet(Places(acc)) /\ Places(acc) \subseteq Nat \X Nat
                          /\ \A i, j : <<i, j>> \in Places(acc) <=> i \in 1 .. Len(acc) /\ j \in 1 .. Len(acc[i][2])
                          /\ \A x \in Places(acc) : /\ x = <<x[1], x[2]>> /\ x[1] \in 1 .. Len(acc) /\ x[2] \in 1 .. Len(acc[x[1]][2])
                                                    /\ PairAt(acc, x) \in Frame \X Req
<1>1. Len(acc) \in Nat /\ \A i \in 1 .. Len(acc) : acc[i] \in Frame \X Seq(Req)
  BY ElementOfSeq, LenProperties
<1>2. \A i \in 1 .. Len(acc) : acc[i][1] \in Frame /\ acc[i][2] \in Seq(Req) /\ Len(acc[i][2]) \in Nat /\ \A j \in 1 .. Len(acc[i][2]) : acc[i][2][j] \in Req
  BY <1>1, ElementOfSeq, LenProperties
<1> DEFINE F == [i \in 1 .. Len(acc) |-> {i} \X (1 .. Len(acc[i][2]))]
           T == {{i} \X (1 .. Len(acc[i][2])) : i \in 1 .. Len(acc)}
<1>3. F \in Surjection(1 .. Len(acc), T)
  BY DEF Surjection
<1>4. IsFiniteSet(1 .. Len(acc))
  BY <1>1, FS_Interval
<1>5. IsFiniteSet(T)
  BY <1>3, <1>4, FS_Surjection
<1>6. ASSUME NEW X \in T PROVE IsFiniteSet(X)
  <2>1. PICK i \in 1 .. Len(acc) : X = {i} \X (1 .. Len(acc[i][2]))
    OBVIOUS
  <2>2. IsFiniteSet(1 .. Len(acc[i][2])) /\ IsFiniteSet({i})
    <3>1. PICK l \in Nat : l = Len(acc[i][2])
      BY <1>2
    <3>2. IsFiniteSet(1 .. l)
      BY FS_Interval
    <3> QED BY <3>1, <3>2, FS_Singleton
  <2> QED BY <2>1, <2>2, FS_Product
<1>7. IsFiniteSet(UNION T)
  BY <1>5, <1>6, FS_UNION
<1>8. Places(acc) = UNION T
  BY DEF Places
<1>9. \A x : x \in Places(acc) <=> \E i \in 1 .. Len(acc) : x \in {i} \X (1 .. Len(acc[i][2]))
  BY <1>8
<1> HIDE DEF T, F
<1>10. \A i, j : <<i, j>> \in Places(acc) <=> i \in 1 .. Len(acc) /\ j \in 1 .. Len(acc[i][2])
  BY <1>9
<1>11. ASSUME NEW x \in Places(acc)
       PROVE /\ x = <<x[1], x[2]>> /\ x[1] \in 1 .. Len(acc) /\ x[2] \in 1 .. Len(acc[x[1]][2])
             /\ PairAt(acc, x) \in Frame \X Req /\ x \in Nat \X Nat
  <2>1. PICK i \in 1 .. Len(acc) : x \in {i} \X (1 .. Len(acc[i][2]))
    BY <1>9
  <2>2. PICK j \in 1 .. Len(acc[i][2]) : x = <<i, j>>
    BY <2>1
  <2>3. x[1] = i /\ x[2] = j
    BY <2>2
  <2>4. PairAt(acc, x) = <<acc[i][1], acc[i][2][j]>>
    BY <2>3 DEF PairAt
  <2>5. i \in Nat /\ j \in Nat
    BY <1>1, <1>2
  <2> QED BY <1>2, <2>2, <2>3, <2>4, <2>5
<1> QED BY <1>7, <1>8, <1>10, <1>11

\* No two places have the same request of the same page.
LEMMA PairsApart == ASSUME NEW acc, AccOK(acc), NEW x \in Places(acc), NEW y \in Places(acc), PairAt(acc, x) = PairAt(acc, y)
                    PROVE x = y
<1>1. acc \in Seq(Frame \X Seq(Req))
  BY DEF AccOK
<1>2. /\ x = <<x[1], x[2]>> /\ x[1] \in 1 .. Len(acc) /\ x[2] \in 1 .. Len(acc[x[1]][2])
      /\ y = <<y[1], y[2]>> /\ y[1] \in 1 .. Len(acc) /\ y[2] \in 1 .. Len(acc[y[1]][2])
      /\ PairAt(acc, x) \in Frame \X Req
  BY <1>1, PlacesForm
<1>3. PICK i, j, k, l : x = <<i, j>> /\ y = <<k, l>> /\ i = x[1] /\ j = x[2] /\ k = y[1] /\ l = y[2]
  BY <1>2
<1>4. i \in 1 .. Len(acc) /\ k \in 1 .. Len(acc) /\ j \in 1 .. Len(acc[i][2]) /\ l \in 1 .. Len(acc[k][2])
  BY <1>2, <1>3
<1>5. acc[i] \in Frame \X Seq(Req) /\ acc[k] \in Frame \X Seq(Req)
  BY <1>1, <1>4, ElementOfSeq
<1>6. acc[i] \in ToSet(acc) /\ acc[k] \in ToSet(acc) /\ DOMAIN acc = 1 .. Len(acc)
  BY <1>1, <1>4, SeqSet
<1>7. acc[i][2] \in Seq(Req) /\ acc[k][2] \in Seq(Req)
  BY <1>5
<1>8. PICK r : r = acc[i][2][j]
  OBVIOUS
<1>9. PairAt(acc, x) = <<acc[i][1], r>> /\ PairAt(acc, y) = <<acc[k][1], acc[k][2][l]>>
  BY <1>3, <1>8 DEF PairAt
<1>10. acc[i][1] = acc[k][1] /\ acc[k][2][l] = r
  <2>1. PICK p, q, z : p = acc[i][1] /\ q = acc[k][1] /\ z = acc[k][2][l]
    OBVIOUS
  <2>2. PairAt(acc, x) = <<p, r>> /\ PairAt(acc, y) = <<q, z>>
    BY <1>9, <2>1
  <2>3. PairAt(acc, x) = PairAt(acc, y)
    OBVIOUS
  <2>4. <<p, r>> = <<q, z>>
    BY <2>2, <2>3
  <2>5. p = q /\ r = z
    BY <2>4
  <2> QED BY <2>1, <2>5
<1>11. r \in Req
  BY <1>2, <1>9
<1>12. r \in ToSet(acc[i][2]) /\ r \in ToSet(acc[k][2])
  BY <1>4, <1>7, <1>8, <1>10, SeqSet
<1>13. acc[i] = acc[k]
  BY <1>6, <1>10, <1>11, <1>12 DEF AccOK
<1>14. i = k
  BY <1>4, <1>6, <1>13 DEF AccOK, IsInjective
<1>15. IsInjective(acc[i][2]) /\ DOMAIN acc[i][2] = 1 .. Len(acc[i][2])
  BY <1>6, <1>7, SeqSet DEF AccOK
<1>16. j = l
  BY <1>4, <1>8, <1>10, <1>14, <1>15 DEF IsInjective
<1> QED BY <1>3, <1>14, <1>16

\* A request of a list has a place.
LEMMA ListedAt == ASSUME NEW acc, AccOK(acc), NEW f \in Frame, NEW r \in Req
                  PROVE Listed(acc, f, r) <=> \E x \in Places(acc) : PairAt(acc, x) = <<f, r>>
<1>1. acc \in Seq(Frame \X Seq(Req))
  BY DEF AccOK
<1>2. \A i \in 1 .. Len(acc) : acc[i] \in Frame \X Seq(Req) /\ acc[i][2] \in Seq(Req)
  BY <1>1, ElementOfSeq
<1>3. ASSUME Listed(acc, f, r) PROVE \E x \in Places(acc) : PairAt(acc, x) = <<f, r>>
  <2>1. PICK a \in ToSet(acc) : a[1] = f /\ r \in ToSet(a[2])
    BY <1>3 DEF Listed
  <2>2. PICK i \in 1 .. Len(acc) : acc[i] = a
    BY <1>1, <2>1, SeqSet
  <2>3. PICK j \in 1 .. Len(acc[i][2]) : acc[i][2][j] = r
    BY <1>2, <2>1, <2>2, SeqSet
  <2>4. <<i, j>> \in Places(acc)
    BY <1>1, PlacesForm
  <2>5. PairAt(acc, <<i, j>>) = <<f, r>>
    BY <2>1, <2>2, <2>3 DEF PairAt
  <2> QED BY <2>4, <2>5
<1>4. ASSUME NEW x \in Places(acc), PairAt(acc, x) = <<f, r>> PROVE Listed(acc, f, r)
  <2>1. x[1] \in 1 .. Len(acc) /\ x[2] \in 1 .. Len(acc[x[1]][2])
    BY <1>1, PlacesForm
  <2>2. acc[x[1]][1] = f /\ acc[x[1]][2][x[2]] = r
    BY <1>4 DEF PairAt
  <2>3. acc[x[1]] \in ToSet(acc)
    BY <1>1, <2>1, SeqSet
  <2>4. r \in ToSet(acc[x[1]][2])
    BY <1>2, <2>1, <2>2, SeqSet
  <2> QED BY <2>2, <2>3, <2>4 DEF Listed
<1> QED BY <1>3, <1>4

\* queue_requests: the requests of the lists that are of the thread, each once.
LEMMA ForThreadForm == ASSUME NEW acc, AccOK(acc), NEW u
                       PROVE /\ ForThread(u, acc) \in Seq(Frame \X Req) /\ IsInjective(ForThread(u, acc))
                             /\ \A f \in Frame, r \in Req : <<f, r>> \in ToSet(ForThread(u, acc)) <=> rq[r].io = u /\ Listed(acc, f, r)
<1> DEFINE mine == {x \in Places(acc) : rq[PairAt(acc, x)[2]].io = u}
           n == Cardinality(mine)
           s == ForThread(u, acc)
<1>1. acc \in Seq(Frame \X Seq(Req))
  BY DEF AccOK
<1>2. IsFiniteSet(Places(acc)) /\ Places(acc) \subseteq Nat \X Nat /\ \A x \in Places(acc) : PairAt(acc, x) \in Frame \X Req
  BY <1>1, PlacesForm
<1>3. IsFiniteSet(mine) /\ mine \subseteq Nat \X Nat
  BY <1>2, FS_Subset
<1>4. s = [k \in 1 .. n |-> PairAt(acc, Ranked(mine)[k])]
  <2>1. s = [k \in 1 .. n |-> PairAt(acc, CHOOSE x \in mine : Cardinality({y \in mine : Before(y, x)}) = k - 1)]
    BY Zenon DEF ForThread
  <2>2. \A k \in 1 .. n : Ranked(mine)[k] = CHOOSE x \in mine : Cardinality({y \in mine : Before(y, x)}) = k - 1
    BY Zenon DEF Ranked
  <2> HIDE DEF mine
  <2> QED BY <2>1, <2>2, Zenon
<1>5. \A x : x \in mine <=> x \in Places(acc) /\ rq[PairAt(acc, x)[2]].io = u
  OBVIOUS
<1> HIDE DEF mine, s
<1>6. /\ n \in Nat /\ (\A k \in 1 .. n : Ranked(mine)[k] \in mine)
      /\ (\A x \in mine : \E k \in 1 .. n : Ranked(mine)[k] = x)
      /\ \A j, k \in 1 .. n : Ranked(mine)[j] = Ranked(mine)[k] => j = k
  BY <1>3, RankOrder
<1> HIDE DEF n
<1>7. \A k \in 1 .. n : s[k] = PairAt(acc, Ranked(mine)[k]) /\ s[k] \in Frame \X Req
  BY <1>2, <1>4, <1>5, <1>6
<1>8. s \in [1 .. n -> Frame \X Req] /\ DOMAIN s = 1 .. n
  BY <1>4, <1>7
<1>9. s \in Seq(Frame \X Req) /\ Len(s) = n
  BY <1>6, <1>8
<1>10. IsInjective(s)
  <2>1. ASSUME NEW j \in 1 .. n, NEW k \in 1 .. n, s[j] = s[k] PROVE j = k
    <3>1. Ranked(mine)[j] \in Places(acc) /\ Ranked(mine)[k] \in Places(acc)
      BY <1>5, <1>6
    <3>2. PairAt(acc, Ranked(mine)[j]) = PairAt(acc, Ranked(mine)[k])
      BY <1>7, <2>1
    <3>3. Ranked(mine)[j] = Ranked(mine)[k]
      BY <3>1, <3>2, PairsApart
    <3> QED BY <1>6, <3>3
  <2> QED BY <1>8, <2>1 DEF IsInjective
<1>11. ASSUME NEW f \in Frame, NEW r \in Req PROVE <<f, r>> \in ToSet(s) <=> rq[r].io = u /\ Listed(acc, f, r)
  <2>1. <<f, r>> \in ToSet(s) <=> \E k \in 1 .. n : s[k] = <<f, r>>
    BY <1>9, SeqSet
  <2>2. (\E k \in 1 .. n : s[k] = <<f, r>>) <=> \E x \in mine : PairAt(acc, x) = <<f, r>>
    BY <1>6, <1>7
  <2>3. \A x : PairAt(acc, x) = <<f, r>> => PairAt(acc, x)[2] = r
    OBVIOUS
  <2>4. (\E x \in mine : PairAt(acc, x) = <<f, r>>) <=> rq[r].io = u /\ \E x \in Places(acc) : PairAt(acc, x) = <<f, r>>
    BY <1>5, <2>3
  <2> QED BY <2>1, <2>2, <2>4, ListedAt
<1> QED BY <1>9, <1>10, <1>11 DEF s

LEMMA NothingQueued == AccOK(<<>>) /\ (\A f, r : ~Listed(<<>>, f, r)) /\ \A u : ForThread(u, <<>>) = <<>>
<1>1. AccOK(<<>>) /\ \A f, r : ~Listed(<<>>, f, r)
  BY EmptySet DEF AccOK, Listed
<1>2. ASSUME NEW u PROVE ForThread(u, <<>>) = <<>>
  <2>1. /\ ForThread(u, <<>>) \in Seq(Frame \X Req)
        /\ \A f \in Frame, r \in Req : <<f, r>> \notin ToSet(ForThread(u, <<>>))
    BY <1>1, ForThreadForm
  <2>2. ToSet(ForThread(u, <<>>)) \subseteq Frame \X Req
    BY <2>1, SeqSet
  <2>3. ToSet(ForThread(u, <<>>)) = {}
    BY <2>1, <2>2
  <2> QED BY <2>1, <2>3, SeqSet
<1> QED BY <1>1, <1>2

-------------------------------------------------------------------------------
(* process_disk_completed_requests                                         *)

\* The page with the lowest offset is one of the pages of the request.
LEMMA LeastBuffer == ASSUME NEW B, B \subseteq Frame \X Page, B # {}
                     PROVE (CHOOSE x \in B : \A c \in B : x[2] <= c[2]) \in B
<1> DEFINE S == {c[2] : c \in B}
<1>1. \A c \in B : c[2] \in Nat
  BY NoneApart
<1>2. S \subseteq Nat /\ S # {}
  BY <1>1
<1>3. PICK n \in S : \A m \in S : ~(m < n)
  <2> DEFINE R == {ss \in Nat \X Nat : ss[1] < ss[2]}
  <2>1. IsWellFoundedOn(R, Nat)
    BY NatLessThanWellFounded DEF OpToRel
  <2> HIDE DEF S, R
  <2>2. PICK n \in S : \A m \in S : ~(<<m, n>> \in R)
    BY <1>2, <2>1, WFMin
  <2>3. \A m \in S : ~(m < n)
    BY <1>2, <2>2 DEF R
  <2> QED BY <2>3
<1>4. n \in Nat /\ \A m \in S : n <= m
  BY <1>2, <1>3
<1>5. PICK x \in B : x[2] = n
  BY <1>3
<1>6. \A c \in B : x[2] <= c[2]
  <2> TAKE c \in B
  <2>1. c[2] \in S
    OBVIOUS
  <2> HIDE DEF S
  <2> QED BY <1>4, <1>5, <2>1
<1> QED BY <1>6

\* One page of the first request in the queue is completed: acc are the lists
\* collected so far, and ready the lists that are handed out.
Turned(t, io, b, acc, ready) ==
    /\ th[t].pc = "disk" /\ que[t].disk # <<>> /\ io = Head(que[t].disk) /\ b \in io.bufs
    /\ acc = IF frame[b[1]].reqs = <<>> THEN th[t].acc ELSE Append(th[t].acc, <<b[1], frame[b[1]].reqs>>)
    /\ ready = IF io.bufs \ {b} = {} THEN acc ELSE <<>>
    /\ frame' = [frame EXCEPT ![b[1]] = CompletedPage(@, io)]
    /\ que' = [u \in Thread |->
                 LET q == IF u # t THEN que[u] ELSE [que[t] EXCEPT !.disk =
                             (IF io.bufs \ {b} = {} THEN <<>> ELSE <<[io EXCEPT !.bufs = io.bufs \ {b}]>>) \o Tail(@)]
                 IN  [q EXCEPT !.pend = @ \o ForThread(u, ready)]]
    /\ th' = [u \in Thread |->
                 LET me == IF u # t THEN th[u]
                           ELSE [th[t] EXCEPT !.acc = IF io.bufs \ {b} = {} THEN <<>> ELSE acc]
                 IN  IF ForThread(u, ready) = <<>> THEN me ELSE Activated(me)]
    /\ UNCHANGED <<disk, raced, flight, rq>>

LEMMA DiskTurn == ASSUME IInv, NEW t \in Thread, DiskCompletion(t)
                  PROVE \E io \in IO, b \in Frame \X Page : \E acc, ready : io \in ToSet(que[t].disk) /\ Turned(t, io, b, acc, ready)
<1>1. TypeOK /\ IOApart
  BY Parts
<1>2. th[t].pc = "disk" /\ que[t].disk # <<>>
  BY Zenon DEF DiskCompletion
<1>3. que[t].disk \in Seq(IO)
  BY <1>1, Records
<1>4. Head(que[t].disk) \in IO /\ Head(que[t].disk) \in ToSet(que[t].disk)
  BY <1>2, <1>3, SeqTail
<1>5. Head(que[t].disk) \in Ios
  BY <1>4 DEF Ios
<1>6. Head(que[t].disk).bufs \subseteq Frame \X Page /\ Head(que[t].disk).bufs # {}
  BY <1>1, <1>4, <1>5 DEF IO, IOApart
<1> DEFINE io == Head(que[t].disk)
           b == CHOOSE x \in io.bufs : \A c \in io.bufs : x[2] <= c[2]
           acc == IF frame[b[1]].reqs = <<>> THEN th[t].acc ELSE Append(th[t].acc, <<b[1], frame[b[1]].reqs>>)
           ready == IF io.bufs \ {b} = {} THEN acc ELSE <<>>
<1>7. b \in io.bufs /\ b \in Frame \X Page
  BY <1>6, LeastBuffer
<1>8. Turned(t, io, b, acc, ready)
  BY <1>2, <1>7, Zenon DEF DiskCompletion, Turned
<1> HIDE DEF acc, ready
<1>9. \E a, r : Turned(t, io, b, a, r)
  BY <1>8, Zenon
<1> HIDE DEF b, io
<1>10. io \in IO /\ io \in ToSet(que[t].disk)
  BY <1>4 DEF io
<1> QED BY <1>7, <1>9, <1>10

\* The page after it, the queues and the threads.
Completed(pg, n, io) ==
    /\ n.id = pg.id /\ n.pending = FALSE /\ n.reqs = <<>> /\ (n.ready <=> pg.ready \/ io.op = "read")
    /\ (n.dirty => pg.dirty) /\ (n.oldDirty <=> pg.oldDirty /\ io.op = "read")
    /\ n.ref = IF io.op = "write" THEN pg.ref - 1 ELSE pg.ref
DiskForm(t, io, b, acc, ready, rest) ==
    /\ frame' \in [Frame -> FrameRec] /\ Completed(frame[b[1]], frame'[b[1]], io)
    /\ \A g \in Frame \ {b[1]} : frame'[g] = frame[g]
    /\ que' \in [Thread -> QueRec] /\ que'[t].disk = rest \o Tail(que[t].disk) /\ (\A u \in Thread \ {t} : que'[u].disk = que[u].disk)
    /\ \A u \in Thread : /\ que'[u].cached = que[u].cached /\ que'[u].comp = que[u].comp /\ que'[u].user = que[u].user
                         /\ que'[u].pend = que[u].pend \o ForThread(u, ready)
    /\ th' \in [Thread -> ThRec]
    /\ \A u \in Thread : /\ th'[u].pc = th[u].pc /\ th'[u].arg = th[u].arg /\ th'[u].proc = th[u].proc /\ th'[u].nxt = th[u].nxt
                         /\ th'[u].cur = th[u].cur /\ th'[u].old = th[u].old /\ th'[u].batch = th[u].batch /\ th'[u].cont = th[u].cont
                         /\ th'[u].out = th[u].out /\ th'[u].mp = th[u].mp
                         /\ th'[u].acc = IF u # t THEN th[u].acc ELSE IF rest = <<>> THEN <<>> ELSE acc
    /\ UNCHANGED <<disk, raced, flight, rq>>

\* A page is completed.
LEMMA PageCompleted == ASSUME NEW pg \in FrameRec, NEW io, NEW n \in Nat, n = IF io.op = "write" THEN pg.ref - 1 ELSE pg.ref
                       PROVE CompletedPage(pg, io) \in FrameRec /\ Completed(pg, CompletedPage(pg, io), io)
<1>1. PICK rd \in BOOLEAN, dt \in BOOLEAN, od \in BOOLEAN :
         /\ rd = (pg.ready \/ io.op = "read") /\ dt = (pg.dirty /\ ~(io.op = "write" /\ io.multi)) /\ od = (pg.oldDirty /\ io.op = "read")
  OBVIOUS
<1>2. CompletedPage(pg, io) = [pg EXCEPT !.pending = FALSE, !.reqs = <<>>, !.ready = rd, !.dirty = dt, !.oldDirty = od, !.ref = n]
  BY <1>1, Zenon DEF CompletedPage
<1>3. <<>> \in Seq(Req)
  OBVIOUS
<1> DEFINE m == [pg EXCEPT !.pending = FALSE, !.reqs = <<>>, !.ready = rd, !.dirty = dt, !.oldDirty = od, !.ref = n]
<1>4. m \in FrameRec /\ m.id = pg.id /\ m.pending = FALSE /\ m.reqs = <<>> /\ m.ready = rd /\ m.dirty = dt /\ m.oldDirty = od /\ m.ref = n
  <2>1. PICK no \in Seq(Req), off \in BOOLEAN : no = <<>> /\ off = FALSE
    BY <1>3
  <2>2. m = [pg EXCEPT !.pending = off, !.reqs = no, !.ready = rd, !.dirty = dt, !.oldDirty = od, !.ref = n]
    BY <2>1
  <2> HIDE DEF m
  <2>3. m \in FrameRec
    <3>1. pg.id \in Page \cup {None} /\ pg.dataOf \in Page \cup {None} /\ pg.fresh \in BOOLEAN
      BY DEF FrameRec
    <3>2. m = [id |-> pg.id, ready |-> rd, pending |-> off, dirty |-> dt, oldDirty |-> od, ref |-> n, reqs |-> no,
               dataOf |-> pg.dataOf, fresh |-> pg.fresh]
      BY <2>2 DEF FrameRec
    <3> QED BY <3>1, <3>2, Zenon DEF FrameRec
  <2>4. m.id = pg.id /\ m.pending = off /\ m.reqs = no /\ m.ready = rd /\ m.dirty = dt /\ m.oldDirty = od /\ m.ref = n
    BY <2>2 DEF FrameRec
  <2> QED BY <2>1, <2>3, <2>4
<1>5. CompletedPage(pg, io) = m
  BY <1>2
<1> HIDE DEF m
<1> QED BY <1>1, <1>4, <1>5 DEF Completed

LEMMA QueuePend == ASSUME NEW q \in QueRec, NEW p \in Seq(Frame \X Req)
                   PROVE LET n == [q EXCEPT !.pend = p] IN
                         n \in QueRec /\ n.disk = q.disk /\ n.pend = p /\ n.cached = q.cached /\ n.comp = q.comp /\ n.user = q.user
BY DEF QueRec

SameBut(me, n, acc) ==
    /\ n.pc = me.pc /\ n.arg = me.arg /\ n.proc = me.proc /\ n.nxt = me.nxt /\ n.cur = me.cur /\ n.old = me.old
    /\ n.batch = me.batch /\ n.cont = me.cont /\ n.out = me.out /\ n.mp = me.mp /\ n.acc = acc

LEMMA AccSet == ASSUME NEW me \in ThRec, NEW acc \in Seq(Frame \X Seq(Req))
                PROVE LET n == [me EXCEPT !.acc = acc] IN
                      n \in ThRec /\ SameBut(me, n, acc)
BY DEF ThRec, SameBut

LEMMA ActSet == ASSUME NEW me \in ThRec PROVE Activated(me) \in ThRec /\ SameBut(me, Activated(me), me.acc)
BY DEF ThRec, SameBut, Activated

\* The lists of a thread.
LEMMA ListsOK == ASSUME IInv, NEW t \in Thread
                 PROVE /\ AccOK(th[t].acc) /\ (\A a \in ToSet(th[t].acc) : a[2] # <<>>)
                       /\ \A g \in Frame, r \in Req : Listed(th[t].acc, g, r) <=> At(th[t], que[t], g, r, "acc")
<1>1. TypeOK /\ AccAt(t) /\ AccApart
  BY Parts
<1>2. th[t].acc \in Seq(Frame \X Seq(Req))
  BY <1>1, Records
<1>3. AccOK(th[t].acc)
  BY <1>1, <1>2 DEF AccOK, AccAt, AccApart
<1> QED BY <1>1, <1>3 DEF AccAt, Listed, At

\* The list of a page joins the lists collected.
Grew(t, f, acc) ==
    /\ AccOK(acc) /\ (\A a \in ToSet(acc) : a[2] # <<>> /\ (a \in ToSet(th[t].acc) \/ a = <<f, frame[f].reqs>>))
    /\ \A g \in Frame, r \in Req : Listed(acc, g, r) <=> Listed(th[t].acc, g, r) \/ (g = f /\ r \in ToSet(frame[f].reqs))

LEMMA AccGrown == ASSUME IInv, NEW t \in Thread, NEW f \in Frame, NEW acc,
                         acc = IF frame[f].reqs = <<>> THEN th[t].acc ELSE Append(th[t].acc, <<f, frame[f].reqs>>)
                  PROVE Grew(t, f, acc)
<1>1. /\ TypeOK /\ OnePlace /\ AccOK(th[t].acc) /\ (\A a \in ToSet(th[t].acc) : a[2] # <<>>)
      /\ \A g \in Frame, r \in Req : Listed(th[t].acc, g, r) <=> At(th[t], que[t], g, r, "acc")
  BY Parts, ListsOK
<1>2. frame[f].reqs \in Seq(Req) /\ IsInjective(frame[f].reqs) /\ th[t].acc \in Seq(Frame \X Seq(Req))
  BY <1>1, Parts, Records
<1>3. CASE frame[f].reqs = <<>>
  <2>1. acc = th[t].acc /\ \A r : r \notin ToSet(frame[f].reqs)
    BY <1>3, EmptySet
  <2> QED BY <1>1, <2>1 DEF Grew
<1>4. CASE frame[f].reqs # <<>>
  <2>1. PICK s \in Seq(Req), e \in Frame \X Seq(Req) : s = frame[f].reqs /\ e = <<f, s>> /\ e[1] = f /\ e[2] = s
    <3>1. PICK s \in Seq(Req) : s = frame[f].reqs
      BY <1>2
    <3>2. <<f, s>> \in Frame \X Seq(Req) /\ <<f, s>>[1] = f /\ <<f, s>>[2] = s
      OBVIOUS
    <3> QED BY <3>1, <3>2
  <2>2. PICK old \in Seq(Frame \X Seq(Req)) : old = th[t].acc /\ acc = Append(old, e)
    BY <1>2, <1>4, <2>1
  <2>3. ToSet(s) # {} /\ ToSet(s) \subseteq Req
    BY <1>4, <2>1, SeqSet
  <2>4. ASSUME NEW a \in ToSet(old), a[1] = f, NEW r \in Req, r \in ToSet(a[2]), r \in ToSet(s) PROVE FALSE
    <3>1. Listed(th[t].acc, f, r)
      BY <2>2, <2>4 DEF Listed
    <3>2. In(f, r, "acc") /\ In(f, r, "reqs") /\ "acc" \in Kind /\ "reqs" \in Kind
      BY <1>1, <2>1, <2>4, <3>1 DEF In, Kind
    <3> QED BY <1>1, <3>2 DEF OnePlace
  <2>5. e \notin ToSet(old)
    <3>1. PICK r \in Req : r \in ToSet(s)
      BY <2>3
    <3> QED BY <2>1, <2>4, <3>1
  <2>6. AccOK(old)
    BY <1>1, <2>2
  <2>7. acc \in Seq(Frame \X Seq(Req)) /\ ToSet(acc) = ToSet(old) \cup {e} /\ IsInjective(acc)
    BY <2>2, <2>5, <2>6, SeqAppend DEF AccOK
  <2>8. IsInjective(s)
    BY <1>2, <2>1
  <2>9. AccOK(acc)
    <3>1. \A a \in ToSet(acc) : IsInjective(a[2])
      BY <2>1, <2>6, <2>7, <2>8 DEF AccOK
    <3>2. ASSUME NEW a \in ToSet(acc), NEW c \in ToSet(acc), NEW r \in Req, a[1] = c[1], r \in ToSet(a[2]), r \in ToSet(c[2]) PROVE a = c
      <4>1. CASE a \in ToSet(old) /\ c \in ToSet(old)
        BY <2>6, <3>2, <4>1 DEF AccOK
      <4>2. CASE a = e /\ c \in ToSet(old)
        BY <2>1, <2>4, <3>2, <4>2
      <4>3. CASE c = e /\ a \in ToSet(old)
        BY <2>1, <2>4, <3>2, <4>3
      <4> QED BY <2>7, <4>1, <4>2, <4>3
    <3> QED BY <2>7, <3>1, <3>2 DEF AccOK
  <2>10. ASSUME NEW a \in ToSet(acc) PROVE a[2] # <<>> /\ (a \in ToSet(th[t].acc) \/ a = <<f, frame[f].reqs>>)
    BY <1>1, <1>4, <2>1, <2>2, <2>7
  <2>11. ASSUME NEW g \in Frame, NEW r \in Req PROVE Listed(acc, g, r) <=> Listed(old, g, r) \/ (g = f /\ r \in ToSet(s))
    BY <2>1, <2>7 DEF Listed
  <2> QED BY <2>1, <2>2, <2>9, <2>10, <2>11 DEF Grew
<1> QED BY <1>3, <1>4

\* The state after the completion of a page.
LEMMA DiskFormed == ASSUME IInv, NEW t \in Thread, NEW io \in IO, io \in ToSet(que[t].disk), NEW b \in Frame \X Page, NEW acc, NEW ready,
                           Turned(t, io, b, acc, ready), AccOK(acc), AccOK(ready),
                           NEW rest \in Seq(IO), rest = IF io.bufs \ {b} = {} THEN <<>> ELSE <<[io EXCEPT !.bufs = io.bufs \ {b}]>>
                    PROVE DiskForm(t, io, b, acc, ready, rest)
<1>1. TypeOK /\ IOApart
  BY Parts
<1>2. frame \in [Frame -> FrameRec] /\ que \in [Thread -> QueRec] /\ th \in [Thread -> ThRec] /\ b[1] \in Frame
  BY <1>1, TypesForm
<1>3. PICK f \in Frame : f = b[1]
  BY <1>2
<1>4. b \in io.bufs /\ io \in Ios
  BY Zenon DEF Turned, Ios
<1>5. frame' \in [Frame -> FrameRec] /\ Completed(frame[f], frame'[f], io) /\ \A g \in Frame \ {f} : frame'[g] = frame[g]
  <2>1. frame' = [frame EXCEPT ![f] = CompletedPage(frame[f], io)]
    BY <1>2, <1>3 DEF Turned
  <2>2. frame[f] \in FrameRec /\ frame[f].ref \in Nat
    BY <1>1, Records
  <2>3. io.op = "write" => frame[f].ref - 1 \in Nat
    <3>1. io.op = "write" => CovBy(f, "write")
      BY <1>3, <1>4 DEF CovBy, Cov
    <3>2. CountedAt(f) /\ Users(f) \subseteq Req
      BY Parts, UsersForm
    <3>3. Cardinality(Users(f)) \in Nat
      BY <3>2, CountUsers
    <3> QED BY <2>2, <3>1, <3>2, <3>3 DEF CountedAt
  <2>4. PICK n \in Nat : n = IF io.op = "write" THEN frame[f].ref - 1 ELSE frame[f].ref
    BY <2>2, <2>3
  <2>5. CompletedPage(frame[f], io) \in FrameRec /\ Completed(frame[f], CompletedPage(frame[f], io), io)
    BY <2>2, <2>4, PageCompleted
  <2>6. PICK pg \in FrameRec : pg = CompletedPage(frame[f], io) /\ Completed(frame[f], pg, io)
    BY <2>5
  <2>7. frame' = [frame EXCEPT ![f] = pg]
    BY <2>1, <2>6
  <2> QED BY <1>2, <2>6, <2>7
<1>6. que[t].disk # <<>> /\ que[t].disk \in Seq(IO)
  <2>1. que[t].disk # <<>>
    BY Zenon DEF Turned
  <2> QED BY <1>1, <2>1, Records
<1>7. Tail(que[t].disk) \in Seq(IO)
  BY <1>6, SeqTail
<1>8. PICK d \in Seq(IO) : d = rest \o Tail(que[t].disk)
  BY <1>7, SeqJoin
<1>9. ASSUME NEW u \in Thread
      PROVE /\ que'[u] \in QueRec /\ que'[u].disk = (IF u = t THEN d ELSE que[u].disk)
            /\ que'[u].cached = que[u].cached /\ que'[u].comp = que[u].comp /\ que'[u].user = que[u].user
            /\ que'[u].pend = que[u].pend \o ForThread(u, ready)
  <2>1. que'[u] = LET q == IF u # t THEN que[u] ELSE [que[t] EXCEPT !.disk =
                             (IF io.bufs \ {b} = {} THEN <<>> ELSE <<[io EXCEPT !.bufs = io.bufs \ {b}]>>) \o Tail(@)]
                  IN  [q EXCEPT !.pend = @ \o ForThread(u, ready)]
    BY Zenon DEF Turned
  <2>2. que[u] \in QueRec /\ que[u].pend \in Seq(Frame \X Req)
    BY <1>1, Records
  <2>3. ForThread(u, ready) \in Seq(Frame \X Req)
    BY ForThreadForm
  <2>4. PICK p \in Seq(Frame \X Req) : p = que[u].pend \o ForThread(u, ready)
    BY <2>2, <2>3, SeqJoin
  <2>5. CASE u # t
    <3>1. que'[u] = [que[u] EXCEPT !.pend = p]
      BY <2>1, <2>4, <2>5
    <3> DEFINE n == [que[u] EXCEPT !.pend = p]
    <3>2. n \in QueRec /\ n.disk = que[u].disk /\ n.pend = p /\ n.cached = que[u].cached /\ n.comp = que[u].comp /\ n.user = que[u].user
      BY <2>2, QueuePend
    <3>3. que'[u] = n
      BY <3>1
    <3> HIDE DEF n
    <3> QED BY <2>4, <2>5, <3>2, <3>3
  <2>6. CASE u = t
    <3> DEFINE q == [que[u] EXCEPT !.disk = d]
               n == [q EXCEPT !.pend = p]
    <3>1. que'[u] = [[que[u] EXCEPT !.disk = rest \o Tail(que[u].disk)] EXCEPT !.pend = @ \o ForThread(u, ready)]
      BY <2>1, <2>6
    <3>2. que'[u] = [q EXCEPT !.pend = @ \o ForThread(u, ready)]
      BY <1>8, <2>6, <3>1
    <3>3. q.pend = que[u].pend
      BY <2>2 DEF QueRec
    <3>4. que'[u] = n
      <4> HIDE DEF q
      <4> QED BY <2>4, <3>2, <3>3
    <3>5. n \in QueRec /\ n.disk = d /\ n.pend = p /\ n.cached = que[u].cached /\ n.comp = que[u].comp /\ n.user = que[u].user
      <4>1. q \in QueRec /\ q.disk = d /\ q.cached = que[u].cached /\ q.comp = que[u].comp /\ q.user = que[u].user
        BY <2>2 DEF QueRec
      <4> HIDE DEF q
      <4>2. n \in QueRec /\ n.disk = q.disk /\ n.pend = p /\ n.cached = q.cached /\ n.comp = q.comp /\ n.user = q.user
        BY <4>1, QueuePend
      <4> HIDE DEF n
      <4> QED BY <4>1, <4>2
    <3> HIDE DEF n
    <3> QED BY <2>4, <2>6, <3>4, <3>5
  <2> QED BY <2>5, <2>6
<1>10. que' \in [Thread -> QueRec]
  <2>1. que' = [u \in Thread |-> que'[u]]
    BY Zenon DEF Turned
  <2>2. \A u \in Thread : que'[u] \in QueRec
    BY <1>9
  <2> QED BY <2>1, <2>2, Zenon
<1>11. acc \in Seq(Frame \X Seq(Req)) /\ <<>> \in Seq(Frame \X Seq(Req))
  BY DEF AccOK
<1>12. (io.bufs \ {b} = {}) <=> rest = <<>>
  OBVIOUS
<1>13. ASSUME NEW u \in Thread
       PROVE th'[u] \in ThRec /\ SameBut(th[u], th'[u], IF u # t THEN th[u].acc ELSE IF rest = <<>> THEN <<>> ELSE acc)
  <2>1. th'[u] = LET me == IF u # t THEN th[u] ELSE [th[t] EXCEPT !.acc = IF io.bufs \ {b} = {} THEN <<>> ELSE acc]
                 IN  IF ForThread(u, ready) = <<>> THEN me ELSE Activated(me)
    BY Zenon DEF Turned
  <2>2. th[u] \in ThRec /\ th[u].acc \in Seq(Frame \X Seq(Req))
    BY <1>1, Records
  <2>3. PICK c \in Seq(Frame \X Seq(Req)) : c = IF u # t THEN th[u].acc ELSE IF rest = <<>> THEN <<>> ELSE acc
    BY <1>11, <2>2
  <2>4. PICK me : me = IF u # t THEN th[u] ELSE [th[t] EXCEPT !.acc = IF io.bufs \ {b} = {} THEN <<>> ELSE acc]
    OBVIOUS
  <2>5. me \in ThRec /\ SameBut(th[u], me, c)
    <3>1. CASE u # t
      <4>1. me = th[u] /\ c = th[u].acc
        BY <2>3, <2>4, <3>1
      <4> QED BY <2>2, <4>1 DEF SameBut
    <3>2. CASE u = t
      <4>1. c = IF io.bufs \ {b} = {} THEN <<>> ELSE acc
        BY <1>12, <2>3, <3>2
      <4>2. me = [th[u] EXCEPT !.acc = IF io.bufs \ {b} = {} THEN <<>> ELSE acc]
        BY <2>4, <3>2, Zenon
      <4>3. me = [th[u] EXCEPT !.acc = c]
        BY <4>1, <4>2, Zenon
      <4> QED BY <2>2, <4>3, AccSet
    <3> QED BY <3>1, <3>2
  <2>6. th'[u] = me \/ th'[u] = Activated(me)
    BY <2>1, <2>4, Zenon
  <2>7. Activated(me) \in ThRec /\ SameBut(me, Activated(me), me.acc)
    BY <2>5, ActSet
  <2>8. SameBut(th[u], Activated(me), c)
    BY <2>5, <2>7 DEF SameBut
  <2> QED BY <2>3, <2>5, <2>6, <2>7, <2>8
<1>14. th' \in [Thread -> ThRec]
  <2>1. th' = [u \in Thread |-> th'[u]]
    BY Zenon DEF Turned
  <2>2. \A u \in Thread : th'[u] \in ThRec
    BY <1>13
  <2> QED BY <2>1, <2>2, Zenon
<1>15. UNCHANGED <<disk, raced, flight, rq>>
  BY Zenon DEF Turned
<1> QED BY <1>3, <1>5, <1>8, <1>9, <1>10, <1>13, <1>14, <1>15 DEF DiskForm, SameBut

\* The lists with the list of page f; they are handed out with the last page.
Given(t, f, acc, ready, rest) ==
    /\ AccOK(acc) /\ AccOK(ready) /\ (rest = <<>> => ready = acc) /\ (rest # <<>> => ready = <<>>)
    /\ \A a \in ToSet(acc) : a[2] # <<>> /\ (a \in ToSet(th[t].acc) \/ a = <<f, frame[f].reqs>>)
    /\ \A g \in Frame, r \in Req : Listed(acc, g, r) <=> Listed(th[t].acc, g, r) \/ (g = f /\ r \in ToSet(frame[f].reqs))

\* Where the requests are afterwards.
Others(t, g, r) == \E u \in Thread \ {t} : Listed(th[u].acc, g, r)
DiskMoves(t, f, acc, rest, g, r) ==
    /\ \A k \in {"cur", "batch", "cached", "held"} : In(g, r, k)' <=> In(g, r, k)
    /\ In(g, r, "reqs")' <=> g # f /\ In(g, r, "reqs")
    /\ In(g, r, "acc")' <=> Others(t, g, r) \/ (rest # <<>> /\ Listed(acc, g, r))
    /\ In(g, r, "pend")' <=> In(g, r, "pend") \/ (rest = <<>> /\ Listed(acc, g, r))
    /\ Listed(acc, g, r) <=> Listed(th[t].acc, g, r) \/ (g = f /\ In(g, r, "reqs"))
    /\ In(g, r, "acc") <=> Others(t, g, r) \/ Listed(th[t].acc, g, r)
    /\ ~(Others(t, g, r) /\ Listed(th[t].acc, g, r))

LEMMA DiskMoved == ASSUME IInv, NEW t \in Thread, NEW io, NEW b, NEW acc, NEW ready, NEW rest, NEW f \in Frame, f = b[1],
                          DiskForm(t, io, b, acc, ready, rest), Given(t, f, acc, ready, rest), NEW g \in Frame, NEW r \in Req
                   PROVE DiskMoves(t, f, acc, rest, g, r)
<1>1. TypeOK /\ AccApart /\ OnePlace
  BY Parts
<1>2. \A u \in Thread : Listed(th[u].acc, g, r) <=> At(th[u], que[u], g, r, "acc")
  BY ListsOK
<1>3. /\ \A u \in Thread : /\ th'[u].proc = th[u].proc /\ th'[u].cur = th[u].cur /\ th'[u].batch = th[u].batch /\ que'[u].cached = que[u].cached
                           /\ th'[u].acc = IF u # t THEN th[u].acc ELSE IF rest = <<>> THEN <<>> ELSE acc
                           /\ que'[u].pend = que[u].pend \o ForThread(u, ready)
      /\ rq' = rq /\ frame'[f].reqs = <<>> /\ \A h \in Frame \ {f} : frame'[h] = frame[h]
  BY DEF DiskForm, Completed
<1>4. ASSUME NEW k \in {"cur", "batch", "cached", "held"} PROVE In(g, r, k)' <=> In(g, r, k)
  <2>1. \A u \in Thread : At(th'[u], que'[u], g, r, k) <=> At(th[u], que[u], g, r, k)
    BY <1>3 DEF At
  <2> QED BY <1>3, <2>1 DEF In
<1>5. In(g, r, "reqs") <=> r \in ToSet(frame[g].reqs)
  BY DEF In, At
<1>6. In(g, r, "reqs")' <=> r \in ToSet(frame'[g].reqs)
  BY DEF In, At
<1>7. In(g, r, "reqs")' <=> g # f /\ In(g, r, "reqs")
  BY <1>3, <1>5, <1>6, EmptySet
<1>8. Listed(acc, g, r) <=> Listed(th[t].acc, g, r) \/ (g = f /\ In(g, r, "reqs"))
  BY <1>5 DEF Given
<1>9. In(g, r, "acc") <=> Others(t, g, r) \/ Listed(th[t].acc, g, r)
  BY <1>2 DEF In, Others
<1>10. ~(Others(t, g, r) /\ Listed(th[t].acc, g, r))
  <2>1. ASSUME NEW u \in Thread, u # t, Listed(th[u].acc, g, r), Listed(th[t].acc, g, r) PROVE FALSE
    <3>1. PICK a \in ToSet(th[u].acc) : a[1] = g /\ r \in ToSet(a[2])
      BY <2>1 DEF Listed
    <3>2. PICK c \in ToSet(th[t].acc) : c[1] = g /\ r \in ToSet(c[2])
      BY <2>1 DEF Listed
    <3> QED BY <1>1, <2>1, <3>1, <3>2 DEF AccApart
  <2> QED BY <2>1 DEF Others
<1>11. In(g, r, "acc")' <=> Others(t, g, r) \/ (rest # <<>> /\ Listed(acc, g, r))
  <2>1. In(g, r, "acc")' <=> \E u \in Thread : Listed(th'[u].acc, g, r)
    BY DEF In, At, Listed
  <2>2. \A u \in Thread \ {t} : Listed(th'[u].acc, g, r) <=> Listed(th[u].acc, g, r)
    BY <1>3
  <2>3. Listed(th'[t].acc, g, r) <=> rest # <<>> /\ Listed(acc, g, r)
    <3>1. ~Listed(<<>>, g, r)
      BY NothingQueued
    <3>2. CASE rest = <<>>
      <4>1. th'[t].acc = <<>>
        BY <1>3, <3>2
      <4> QED BY <3>1, <3>2, <4>1
    <3>3. CASE rest # <<>>
      <4>1. th'[t].acc = acc
        BY <1>3, <3>3
      <4> QED BY <3>3, <4>1
    <3> QED BY <3>2, <3>3
  <2> QED BY <2>1, <2>2, <2>3 DEF Others
<1>12. In(g, r, "pend")' <=> In(g, r, "pend") \/ (rest = <<>> /\ Listed(acc, g, r))
  <2>1. In(g, r, "pend")' <=> \E u \in Thread : <<g, r>> \in ToSet(que'[u].pend)
    BY DEF In, At
  <2>2. In(g, r, "pend") <=> \E u \in Thread : <<g, r>> \in ToSet(que[u].pend)
    BY DEF In, At
  <2>3. ASSUME NEW u \in Thread PROVE <<g, r>> \in ToSet(que'[u].pend) <=> <<g, r>> \in ToSet(que[u].pend) \/ (rq[r].io = u /\ Listed(ready, g, r))
    <3>1. que[u].pend \in Seq(Frame \X Req)
      BY <1>1, Records
    <3>2. ForThread(u, ready) \in Seq(Frame \X Req) /\ (<<g, r>> \in ToSet(ForThread(u, ready)) <=> rq[r].io = u /\ Listed(ready, g, r))
      BY ForThreadForm DEF Given
    <3>3. ToSet(que'[u].pend) = ToSet(que[u].pend) \cup ToSet(ForThread(u, ready))
      <4>1. PICK s \in Seq(Frame \X Req), p \in Seq(Frame \X Req) : s = ForThread(u, ready) /\ p = que[u].pend
        BY <3>1, <3>2
      <4>2. que'[u].pend = p \o s
        BY <1>3, <4>1
      <4>3. ToSet(p \o s) = ToSet(p) \cup ToSet(s)
        BY SeqJoin
      <4> QED BY <4>1, <4>2, <4>3
    <3> QED BY <3>2, <3>3
  <2>4. Listed(ready, g, r) <=> rest = <<>> /\ Listed(acc, g, r)
    BY NothingQueued DEF Given
  <2>5. Listed(acc, g, r) => rq[r].io \in Thread
    <3>1. Listed(acc, g, r) => In(g, r, "acc") \/ In(g, r, "reqs")
      BY <1>8, <1>9
    <3>2. "acc" \in Kind /\ "reqs" \in Kind
      BY DEF Kind
    <3> QED BY <3>1, <3>2, WithFrame
  <2> QED BY <2>1, <2>2, <2>3, <2>4, <2>5
<1> QED BY <1>4, <1>7, <1>8, <1>9, <1>10, <1>11, <1>12 DEF DiskMoves

\* Nobody is in two places, and nobody gets lost.
LEMMA DiskOnce == ASSUME IInv, NEW t \in Thread, NEW f \in Frame, NEW acc, NEW rest, NEW g \in Frame, NEW r \in Req,
                         DiskMoves(t, f, acc, rest, g, r), NEW k \in Kind, NEW l \in Kind, In(g, r, k)', In(g, r, l)'
                  PROVE k = l
<1>1. \A i, j \in Kind : In(g, r, i) /\ In(g, r, j) => i = j
  BY Parts DEF OnePlace
<1>2. \A i : i \in Kind <=> i \in {"cur", "batch", "cached", "held"} \/ i = "reqs" \/ i = "acc" \/ i = "pend"
  BY DEF Kind
<1>4. \A i \in Kind : In(g, r, i)' /\ i \in {"cur", "batch", "cached", "held", "reqs"} => In(g, r, i)
  BY DEF DiskMoves
<1>6. "acc" \in Kind /\ "pend" \in Kind /\ "reqs" \in Kind
  BY DEF Kind
<1>7. ~(In(g, r, "acc")' /\ In(g, r, "pend")')
  BY <1>1, <1>6 DEF DiskMoves
<1>8. \A i \in Kind : In(g, r, i)' /\ i \in {"acc", "pend"} => In(g, r, "acc") \/ In(g, r, "pend") \/ (In(g, r, "reqs") /\ g = f)
  BY DEF DiskMoves
<1>c1. CASE k \in {"acc", "pend"} /\ l \in {"acc", "pend"}
  BY <1>7, <1>c1
<1>c2. CASE k \notin {"acc", "pend"} /\ l \notin {"acc", "pend"}
  BY <1>1, <1>2, <1>4, <1>c2
<1>c3. CASE k \in {"acc", "pend"} /\ l \notin {"acc", "pend"}
  <2>1. In(g, r, l) /\ (l = "reqs" => g # f)
    BY <1>2, <1>4, <1>c3 DEF DiskMoves
  <2> QED BY <1>1, <1>6, <1>8, <1>c3, <2>1
<1>c4. CASE k \notin {"acc", "pend"} /\ l \in {"acc", "pend"}
  <2>1. In(g, r, k) /\ (k = "reqs" => g # f)
    BY <1>2, <1>4, <1>c4 DEF DiskMoves
  <2> QED BY <1>1, <1>6, <1>8, <1>c4, <2>1
<1> QED BY <1>c1, <1>c2, <1>c3, <1>c4

LEMMA DiskPlaces == ASSUME IInv, NEW t \in Thread, NEW f \in Frame, NEW acc, NEW rest, NEW g \in Frame, NEW r \in Req,
                           DiskMoves(t, f, acc, rest, g, r)
                    PROVE /\ \A k \in Kind : In(g, r, k)' => \E l \in Kind : In(g, r, l) /\ (l = k \/ l = "acc" \/ (l = "reqs" /\ g = f))
                          /\ \A k \in Kind : In(g, r, k)' /\ k \in {"cur", "batch", "cached", "held", "reqs"} => In(g, r, k)
                          /\ \A k \in Kind : In(g, r, k) => \E l \in Kind : In(g, r, l)'
                          /\ \A k, l \in Kind : In(g, r, k)' /\ In(g, r, l)' => k = l
                          /\ \A k \in Kind : In(g, r, k)' => (k = "held" <=> In(g, r, "held"))
<1>2. \A k : k \in Kind <=> k \in {"cur", "batch", "cached", "held"} \/ k = "reqs" \/ k = "acc" \/ k = "pend"
  BY DEF Kind
<1>3. \A k \in Kind : In(g, r, k)' => \E l \in Kind : In(g, r, l) /\ (l = k \/ l = "acc" \/ (l = "reqs" /\ g = f))
  BY <1>2 DEF DiskMoves
<1>4. \A k \in Kind : In(g, r, k)' /\ k \in {"cur", "batch", "cached", "held", "reqs"} => In(g, r, k)
  BY DEF DiskMoves
<1>5. \A k \in Kind : In(g, r, k) => \E l \in Kind : In(g, r, l)'
  BY <1>2 DEF DiskMoves
<1>6. "acc" \in Kind /\ "pend" \in Kind /\ "reqs" \in Kind /\ "held" \in Kind
  BY DEF Kind
<1>9. \A k, l \in Kind : In(g, r, k)' /\ In(g, r, l)' => k = l
  BY DiskOnce
<1>10. \A k \in Kind : In(g, r, k)' => (k = "held" <=> In(g, r, "held"))
  BY <1>6, <1>9 DEF DiskMoves
<1> QED BY <1>3, <1>4, <1>5, <1>9, <1>10

\* What is left of the request after one of its pages.
Remaining(io, b) == IF io.bufs \ {b} = {} THEN <<>> ELSE <<[io EXCEPT !.bufs = io.bufs \ {b}]>>

LEMMA RemainingForm == ASSUME NEW io \in IO, NEW b \in io.bufs
                  PROVE /\ Remaining(io, b) \in Seq(IO) /\ IsInjective(Remaining(io, b)) /\ \A x, y \in ToSet(Remaining(io, b)) : x = y
                        /\ \A x \in ToSet(Remaining(io, b)) : /\ x \in IO /\ x.op = io.op /\ x.io = io.io /\ x.multi = io.multi
                                                         /\ x.bufs = io.bufs \ {b} /\ x.bufs # {}
                        /\ Remaining(io, b) = <<>> => io.bufs = {b}
                        /\ Remaining(io, b) # <<>> => ToSet(Remaining(io, b)) # {}
<1>1. CASE io.bufs \ {b} = {}
  <2>1. Remaining(io, b) = <<>>
    BY <1>1 DEF Remaining
  <2>2. io.bufs = {b} /\ <<>> \in Seq(IO)
    BY <1>1
  <2>3. Remaining(io, b) \in Seq(IO) /\ ToSet(Remaining(io, b)) = {} /\ IsInjective(Remaining(io, b))
    BY <2>1, <2>2, EmptySet
  <2> QED BY <2>1, <2>2, <2>3
<1>2. CASE io.bufs \ {b} # {}
  <2> DEFINE n == [io EXCEPT !.bufs = io.bufs \ {b}]
  <2>1. n \in IO /\ n.op = io.op /\ n.io = io.io /\ n.multi = io.multi /\ n.bufs = io.bufs \ {b}
    BY DEF IO
  <2>2. Remaining(io, b) = <<n>>
    BY <1>2 DEF Remaining
  <2> HIDE DEF n
  <2>3. <<n>> \in Seq(IO) /\ <<n>> # <<>> /\ IsInjective(<<n>>)
    BY <2>1 DEF IsInjective
  <2>4. \A x : x \in ToSet(<<n>>) <=> x = n
    <3>1. PICK s \in Seq(IO) : s = <<n>> /\ Len(s) = 1 /\ s[1] = n
      BY <2>3
    <3>2. \A x : x \in ToSet(s) <=> \E i \in 1 .. Len(s) : s[i] = x
      BY SeqSet
    <3>3. \A i \in 1 .. 1 : i = 1
      OBVIOUS
    <3> QED BY <3>1, <3>2, <3>3
  <2> QED BY <1>2, <2>1, <2>2, <2>3, <2>4
<1> QED BY <1>1, <1>2

\* The outstanding requests afterwards: the page is no longer covered.
Uncovers(t, io, f) ==
    /\ IOApart' /\ SingleWrites' /\ IsInjective(que'[t].disk)
    /\ (\A g \in Frame \ {f} : SameCov(g)) /\ ~CovBy(f, "read")' /\ ~CovBy(f, "write")'
    /\ CovBy(f, io.op) /\ \A o : CovBy(f, o) => o = io.op

LEMMA DiskIos == ASSUME IInv, NEW t \in Thread, NEW io \in IO, NEW b \in Frame \X Page, NEW acc, NEW ready, NEW rest, rest = Remaining(io, b),
                        NEW f \in Frame, f = b[1], b \in io.bufs, que[t].disk # <<>>, io = Head(que[t].disk),
                        DiskForm(t, io, b, acc, ready, rest)
                 PROVE Uncovers(t, io, f)
<1>1. TypeOK /\ IOApart /\ SingleWrites /\ RepeatsAt(t)
  BY Parts
<1>2. que[t].disk \in Seq(IO) /\ IsInjective(que[t].disk)
  BY <1>1, Records DEF RepeatsAt
<1>3. /\ Tail(que[t].disk) \in Seq(IO) /\ io \in ToSet(que[t].disk) /\ IsInjective(Tail(que[t].disk))
      /\ ToSet(Tail(que[t].disk)) = ToSet(que[t].disk) \ {io}
  BY <1>2, SeqTail
<1>4. /\ rest \in Seq(IO) /\ IsInjective(rest) /\ (\A x, y \in ToSet(rest) : x = y)
      /\ \A x \in ToSet(rest) : /\ x \in IO /\ x.op = io.op /\ x.io = io.io /\ x.multi = io.multi
                                /\ x.bufs = io.bufs \ {b} /\ x.bufs # {}
      /\ (rest = <<>> => io.bufs = {b}) /\ (rest # <<>> => ToSet(rest) # {})
  BY RemainingForm
<1>5. io \in Ios /\ io.io = t /\ BufsOK(io.bufs) /\ io \notin flight
  BY <1>1, <1>3 DEF Ios, IOApart
<1>6. \A x \in ToSet(rest) : \A g \in Frame : Cov(x.bufs, g) <=> Cov(io.bufs, g) /\ g # f
  BY <1>4, <1>5 DEF Cov, BufsOK
<1>7. \A x \in Ios : \A c \in x.bufs : c \in Frame \X Page /\ c[1] \in Frame /\ Cov(x.bufs, c[1])
  BY <1>1, IosTyped DEF Cov
<1>8. ASSUME NEW x \in ToSet(rest) PROVE x \notin Ios
  <2>1. PICK c \in x.bufs : TRUE
    BY <1>4
  <2>2. c \in io.bufs /\ c[1] \in Frame /\ Cov(x.bufs, c[1]) /\ Cov(io.bufs, c[1])
    BY <1>4, <1>5, <1>7, <2>1 DEF Cov
  <2>3. x.bufs # io.bufs
    BY <1>4
  <2> QED BY <1>1, <1>5, <2>2, <2>3 DEF IOApart
<1>9. /\ flight' = flight /\ que'[t].disk = rest \o Tail(que[t].disk) /\ \A u \in Thread \ {t} : que'[u].disk = que[u].disk
  BY DEF DiskForm
<1>10. ToSet(que'[t].disk) = ToSet(rest) \cup (ToSet(que[t].disk) \ {io}) /\ IsInjective(que'[t].disk)
  <2>1. ToSet(rest) \cap ToSet(Tail(que[t].disk)) = {}
    BY <1>3, <1>8 DEF Ios
  <2>2. PICK s \in Seq(IO) : s = Tail(que[t].disk)
    BY <1>3
  <2>3. IsInjective(s) /\ IsInjective(rest) /\ ToSet(rest) \cap ToSet(s) = {} /\ rest \in Seq(IO)
    BY <1>3, <1>4, <2>1, <2>2
  <2>4. ToSet(rest \o s) = ToSet(rest) \cup ToSet(s) /\ IsInjective(rest \o s)
    BY <2>3, SeqJoin
  <2> QED BY <1>3, <1>9, <2>2, <2>4
<1>11. \A u \in Thread \ {t} : io \notin ToSet(que[u].disk)
  BY <1>1, <1>5 DEF IOApart
<1>12. \A x : x \in Ios' <=> (x \in Ios /\ x # io) \/ x \in ToSet(rest)
  <2>1. \A x : x \in Ios' <=> x \in flight' \/ \E u \in Thread : x \in ToSet(que'[u].disk)
    BY DEF Ios
  <2>2. \A x : x \in Ios <=> x \in flight \/ \E u \in Thread : x \in ToSet(que[u].disk)
    BY DEF Ios
  <2>3. ASSUME NEW x PROVE x \in Ios' <=> (x \in Ios /\ x # io) \/ x \in ToSet(rest)
    <3>1. x \in ToSet(que'[t].disk) <=> x \in ToSet(rest) \/ (x \in ToSet(que[t].disk) /\ x # io)
      BY <1>10
    <3>2. \A u \in Thread \ {t} : x \in ToSet(que'[u].disk) <=> x \in ToSet(que[u].disk) /\ x # io
      BY <1>9, <1>11
    <3>3. x \in flight' <=> x \in flight /\ x # io
      BY <1>5, <1>9
    <3>4. (\E u \in Thread : x \in ToSet(que'[u].disk)) <=> x \in ToSet(rest) \/ (x # io /\ \E u \in Thread : x \in ToSet(que[u].disk))
      BY <3>1, <3>2
    <3> QED BY <2>1, <2>2, <3>3, <3>4
  <2> QED BY <2>3
<1>13. \A u \in Thread : th'[u].out = th[u].out /\ th'[u].pc = th[u].pc /\ th'[u].old = th[u].old /\ OutOp(u)' = OutOp(u)
  BY DEF DiskForm, OutOp
<1>14. Cov(io.bufs, f)
  BY DEF Cov
<1>15. \A x \in Ios : Cov(x.bufs, f) => x = io
  BY <1>1, <1>5, <1>14 DEF IOApart
<1>16. \A u \in Thread : ~Cov(th[u].out, f)
  BY <1>1, <1>5, <1>14 DEF IOApart
<1>17. IOApart'
  <2>1. \A x \in Ios' : x.bufs # {} /\ BufsOK(x.bufs)
    <3>1. \A x \in Ios : x.bufs # {} /\ BufsOK(x.bufs)
      BY <1>1 DEF IOApart
    <3>2. IsFiniteSet(io.bufs \ {b})
      BY <1>5, FS_Subset DEF BufsOK
    <3>3. \A x \in ToSet(rest) : x.bufs # {} /\ BufsOK(x.bufs)
      <4>1. BufsOK(io.bufs \ {b})
        BY <1>5, <3>2 DEF BufsOK
      <4> QED BY <1>4, <4>1
    <3> QED BY <1>12, <3>1, <3>3
  <2>2. \A u \in Thread : BufsOK(th'[u].out)
    BY <1>1, <1>13 DEF IOApart
  <2>3. \A u \in Thread : \A x \in ToSet(que'[u].disk) : x.io = u /\ x \notin flight'
    <3>1. \A u \in Thread : \A x \in ToSet(que[u].disk) : x.io = u /\ x \notin flight
      BY <1>1 DEF IOApart
    <3>2. \A x \in ToSet(rest) : x.io = t /\ x \notin flight
      BY <1>4, <1>5, <1>8 DEF Ios
    <3>3. \A x \in ToSet(que'[t].disk) : x.io = t /\ x \notin flight'
      BY <1>9, <1>10, <3>1, <3>2
    <3>4. \A u \in Thread \ {t} : \A x \in ToSet(que'[u].disk) : x.io = u /\ x \notin flight'
      BY <1>9, <3>1
    <3> QED BY <3>3, <3>4
  <2>4. ASSUME NEW g \in Frame, NEW x \in Ios', Cov(x.bufs, g) PROVE (x \in Ios /\ x # io) \/ (x \in ToSet(rest) /\ Cov(io.bufs, g))
    BY <1>6, <1>12, <2>4
  <2>5. ASSUME NEW g \in Frame, NEW x \in Ios', NEW y \in Ios', Cov(x.bufs, g), Cov(y.bufs, g) PROVE x = y
    <3>1. \A z \in Ios : Cov(z.bufs, g) => \A v \in Ios : Cov(v.bufs, g) => z = v
      BY <1>1 DEF IOApart
    <3> QED BY <1>4, <1>5, <2>4, <2>5, <3>1
  <2>6. ASSUME NEW g \in Frame, NEW x \in Ios', NEW u \in Thread PROVE ~(Cov(x.bufs, g) /\ Cov(th'[u].out, g))
    <3>1. \A z \in Ios : ~(Cov(z.bufs, g) /\ Cov(th[u].out, g))
      BY <1>1 DEF IOApart
    <3> QED BY <1>5, <1>13, <2>4, <3>1
  <2>7. \A g \in Frame : \A u, v \in Thread : Cov(th'[u].out, g) /\ Cov(th'[v].out, g) => u = v
    BY <1>1, <1>13 DEF IOApart
  <2> QED BY <2>1, <2>2, <2>3, <2>5, <2>6, <2>7 DEF IOApart
<1>18. ASSUME NEW g \in Frame, NEW o
       PROVE CovBy(g, o)' <=> CovBy(g, o) /\ g # f
  <2>1. (\E x \in Ios' : x.op = o /\ Cov(x.bufs, g)) <=> g # f /\ \E x \in Ios : x.op = o /\ Cov(x.bufs, g)
    <3>1. ASSUME NEW x \in Ios', x.op = o, Cov(x.bufs, g) PROVE g # f /\ \E y \in Ios : y.op = o /\ Cov(y.bufs, g)
      <4>1. CASE x \in Ios /\ x # io
        BY <1>15, <3>1, <4>1
      <4>2. CASE x \in ToSet(rest)
        BY <1>4, <1>5, <1>6, <3>1, <4>2
      <4> QED BY <1>12, <4>1, <4>2
    <3>2. ASSUME g # f, NEW x \in Ios, x.op = o, Cov(x.bufs, g) PROVE \E y \in Ios' : y.op = o /\ Cov(y.bufs, g)
      <4>1. CASE x # io
        BY <1>12, <3>2, <4>1
      <4>2. CASE x = io
        <5>1. rest # <<>>
          BY <1>4, <3>2, <4>2 DEF Cov
        <5>2. PICK y \in ToSet(rest) : TRUE
          BY <1>4, <5>1
        <5> QED BY <1>4, <1>6, <1>12, <3>2, <4>2, <5>2
      <4> QED BY <4>1, <4>2
    <3> QED BY <3>1, <3>2
  <2>2. (\E u \in Thread : OutOp(u)' = o /\ Cov(th'[u].out, g)) <=> g # f /\ \E u \in Thread : OutOp(u) = o /\ Cov(th[u].out, g)
    BY <1>13, <1>16
  <2> QED BY <2>1, <2>2 DEF CovBy
<1>19. CovBy(f, io.op) /\ \A o : CovBy(f, o) => o = io.op
  BY <1>5, <1>14, <1>15, <1>16 DEF CovBy
<1>20. \A g \in Frame \ {f} : SameCov(g)
  BY <1>18 DEF SameCov
<1>21. ~CovBy(f, "read")' /\ ~CovBy(f, "write")'
  BY <1>18
<1>22. \A g \in Frame \ {f} : frame'[g] = frame[g]
  BY DEF DiskForm
<1>23. SingleWrites'
  <2>1. ASSUME NEW x \in Ios', x.op = "write", ~x.multi, NEW c \in x.bufs PROVE frame'[c[1]].oldDirty
    <3>1. CASE x \in Ios /\ x # io
      <4>1. c[1] \in Frame /\ c[1] # f /\ frame[c[1]].oldDirty
        BY <1>1, <1>7, <1>15, <2>1, <3>1 DEF SingleWrites
      <4> QED BY <1>22, <4>1
    <3>2. CASE x \in ToSet(rest)
      <4>1. c \in io.bufs /\ c # b
        BY <1>4, <2>1, <3>2
      <4>2. c[1] \in Frame /\ c[1] # f
        BY <1>5, <1>7, <4>1 DEF BufsOK
      <4>3. frame[c[1]].oldDirty
        BY <1>1, <1>4, <1>5, <2>1, <3>2, <4>1 DEF SingleWrites
      <4> QED BY <1>22, <4>2, <4>3
    <3> QED BY <1>12, <3>1, <3>2
  <2>2. ASSUME NEW u \in Thread, th'[u].pc \in {"mergeF", "mergeB"} PROVE \E c \in th'[u].out : c[2] = th'[u].old /\ frame'[c[1]].oldDirty
    <3>1. PICK c \in th[u].out : c[2] = th[u].old /\ frame[c[1]].oldDirty
      BY <1>1, <1>13, <2>2 DEF SingleWrites
    <3>2. th[u].out \in SUBSET (Frame \X Page)
      BY <1>1, Records
    <3>3. c[1] \in Frame /\ Cov(th[u].out, c[1])
      BY <3>1, <3>2 DEF Cov
    <3>4. frame'[c[1]] = frame[c[1]]
      BY <1>16, <1>22, <3>3
    <3> QED BY <1>13, <3>1, <3>4
  <2> QED BY <2>1, <2>2 DEF SingleWrites
<1> QED BY <1>10, <1>17, <1>19, <1>20, <1>21, <1>23 DEF Uncovers

\* The frames afterwards: the completed one, and the others.
LEMMA DiskFrame == ASSUME IInv, NEW t \in Thread, NEW io \in IO, NEW b \in Frame \X Page, NEW acc, NEW ready, NEW rest,
                          NEW f \in Frame, f = b[1], DiskForm(t, io, b, acc, ready, rest),
                          \A g \in Frame, r \in Req : DiskMoves(t, f, acc, rest, g, r),
                          \A g \in Frame \ {f} : SameCov(g), ~CovBy(f, "read")', ~CovBy(f, "write")',
                          CovBy(f, io.op), \A o : CovBy(f, o) => o = io.op, NEW g \in Frame
                   PROVE CountedAt(g)' /\ FlagsAt(g)' /\ IsInjective(frame'[g].reqs)
<1>1. CountedAt(g) /\ FlagsAt(g) /\ IsInjective(frame[g].reqs) /\ frame[g].ref \in Nat
  BY Parts, Records
<1>2. \A r \in Req : (\E k \in Kind : In(g, r, k)') <=> \E k \in Kind : In(g, r, k)
  BY DiskPlaces
<1>3. Users(g)' = Users(g)
  BY <1>2, UsersForm
<1>4. Cardinality(Users(g)) \in Nat /\ Cardinality(Users(g)') = Cardinality(Users(g))
  <2>1. Users(g) \subseteq Req
    BY UsersForm
  <2> QED BY <1>3, <2>1, CountUsers
<1>5. io.op \in {"read", "write"}
  BY DEF IO
<1>6. \A r \in Req, k \in Kind : /\ In(g, r, k)' => \E l \in Kind : In(g, r, l) /\ (l = k \/ l = "acc" \/ (l = "reqs" /\ g = f))
                                 /\ In(g, r, k)' /\ k \in {"cached", "held"} => In(g, r, k)
  BY DiskPlaces
<1>7. \A u \in Thread : Evicting(u, g)' <=> Evicting(u, g)
  BY DEF Evicting, DiskForm
<1>8. CASE g # f
  <2>1. frame'[g] = frame[g] /\ SameCov(g)
    BY <1>8 DEF DiskForm
  <2>2. CountedAt(g)'
    BY <1>1, <1>4, <2>1 DEF CountedAt, SameCov
  <2>3. \A r \in Req, k \in Kind : In(g, r, k)' /\ k \notin {"cur", "reqs"} => ~frame'[g].oldDirty
    BY <1>1, <1>6, <1>8, <2>1 DEF FlagsAt
  <2>4. \A r \in Req, k \in Kind : In(g, r, k)' /\ k \in {"cached", "held"} => frame'[g].ready
    BY <1>1, <1>6, <2>1 DEF FlagsAt
  <2>5. FlagsAt(g)'
    BY <1>1, <1>7, <2>1, <2>3, <2>4 DEF FlagsAt, SameCov
  <2> QED BY <1>1, <2>1, <2>2, <2>5
<1>9. CASE g = f
  <2>1. Completed(frame[g], frame'[g], io)
    BY <1>9 DEF DiskForm
  <2>2. io.op = "read" => CovBy(g, "read") /\ ~CovBy(g, "write")
    BY <1>9
  <2>3. io.op = "write" => CovBy(g, "write")
    BY <1>9
  <2>4. ~CovBy(g, "read")' /\ ~CovBy(g, "write")'
    BY <1>9
  <2>5. CountedAt(g)'
    <3>1. CASE io.op = "read"
      BY <1>1, <1>4, <2>1, <2>2, <2>4, <3>1 DEF CountedAt, Completed
    <3>2. CASE io.op = "write"
      BY <1>1, <1>4, <2>1, <2>3, <2>4, <3>2 DEF CountedAt, Completed
    <3> QED BY <1>5, <3>1, <3>2
  <2>6. ~frame'[g].oldDirty /\ ~frame'[g].pending /\ frame'[g].reqs = <<>> /\ frame'[g].id = frame[g].id
        /\ (frame[g].ready => frame'[g].ready) /\ (frame'[g].dirty => frame[g].dirty)
    BY <1>1, <2>1, <2>2 DEF FlagsAt, Completed
  <2>7. \A r \in Req, k \in Kind : In(g, r, k)' /\ k \in {"cached", "held"} => frame'[g].ready
    BY <1>1, <1>6, <2>6 DEF FlagsAt
  <2>8. FlagsAt(g)'
    BY <1>1, <2>4, <2>6, <2>7 DEF FlagsAt
  <2> QED BY <2>5, <2>6, <2>8, EmptySet
<1> QED BY <1>8, <1>9

\* The thread whose queue it is, and the threads that get requests back.
LEMMA DiskThread == ASSUME IInv, NEW t \in Thread, NEW io \in IO, NEW b \in Frame \X Page, NEW acc, NEW ready, NEW rest,
                           NEW f \in Frame, f = b[1], DiskForm(t, io, b, acc, ready, rest), Given(t, f, acc, ready, rest),
                           \A g \in Frame, r \in Req : DiskMoves(t, f, acc, rest, g, r),
                           CovBy(f, io.op), IsInjective(que'[t].disk), TypeOK', NEW u \in Thread
                    PROVE EvictorAt(u)' /\ ControlAt(u)' /\ WorkingAt(u)' /\ QueuesAt(u)' /\ RepeatsAt(u)' /\ AccAt(u)'
<1>1. /\ TypeOK /\ EvictorAt(u) /\ ControlAt(u) /\ WorkingAt(u) /\ QueuesAt(u) /\ RepeatsAt(u) /\ AccAt(u) /\ FlagsAt(f) /\ OnePlace
  BY Parts
<1>2. io.op \in {"read", "write"}
  BY DEF IO
<1>3. frame[f].pending /\ (io.op = "read" => ~frame[f].oldDirty)
  BY <1>1, <1>2 DEF FlagsAt
<1>4. ~frame'[f].oldDirty /\ (\A g \in Frame \ {f} : frame'[g] = frame[g]) /\ \A g \in Frame : frame'[g].id = frame[g].id
  BY <1>3 DEF DiskForm, Completed
<1>5. \A g \in Frame : Evicting(u, g)' <=> Evicting(u, g)
  BY DEF Evicting, DiskForm
<1>6. /\ th'[u].pc = th[u].pc /\ th'[u].arg = th[u].arg /\ th'[u].proc = th[u].proc /\ th'[u].nxt = th[u].nxt
      /\ th'[u].cur = th[u].cur /\ th'[u].old = th[u].old /\ th'[u].batch = th[u].batch /\ th'[u].cont = th[u].cont
      /\ th'[u].out = th[u].out /\ th'[u].mp = th[u].mp /\ rq' = rq
      /\ th'[u].acc = IF u # t THEN th[u].acc ELSE IF rest = <<>> THEN <<>> ELSE acc
  BY DEF DiskForm
<1>7. /\ que'[u].cached = que[u].cached /\ que'[u].comp = que[u].comp /\ que'[u].user = que[u].user
      /\ que'[u].pend = que[u].pend \o ForThread(u, ready) /\ (u # t => que'[u].disk = que[u].disk)
  BY DEF DiskForm
<1>8. EvictorAt(u)'
  <2>1. \A g \in Frame : Evicting(u, g) /\ th[u].pc # "got" => g # f
    BY <1>1, <1>3 DEF EvictorAt
  <2>2. th[u].cur \in Frame \cup {None} /\ (th[u].pc = "use" => th[u].cur \in Frame)
    BY <1>1, Records DEF ControlAt
  <2>3. \A g \in Frame : Evicting(u, g)' /\ frame'[g].oldDirty => ~frame'[g].pending /\ th'[u].old \in Page
    BY <1>1, <1>4, <1>5, <1>6 DEF EvictorAt
  <2>4. \A g \in Frame : Evicting(u, g)' /\ th'[u].pc # "got" => frame'[g].oldDirty
    BY <1>1, <1>4, <1>5, <1>6, <2>1 DEF EvictorAt
  <2>5. th'[u].pc = "use" => ~frame'[th'[u].cur].oldDirty
    BY <1>1, <1>4, <1>6, <2>2 DEF EvictorAt
  <2> QED BY <2>3, <2>4, <2>5 DEF EvictorAt
<1>9. ControlAt(u)'
  BY <1>1, <1>6 DEF ControlAt
<1>10. WorkingAt(u)'
  <2>1. \A g \in Frame, r \in Req, k \in Kind : In(g, r, k)' => \E l \in Kind : In(g, r, l)
    BY DiskPlaces
  <2> QED BY <1>4, <1>6, <1>7, <2>1, WorkingKept
<1>11. PICK p \in Seq(Frame \X Req), s \in Seq(Frame \X Req) : p = que[u].pend /\ s = ForThread(u, ready) /\ IsInjective(p) /\ IsInjective(s)
  <2>1. AccOK(ready)
    BY DEF Given
  <2> QED BY <1>1, <2>1, ForThreadForm, Records DEF RepeatsAt
<1>12. \A g \in Frame, r \in Req : <<g, r>> \in ToSet(s) => rq[r].io = u /\ Listed(acc, g, r)
  <2>1. AccOK(ready) /\ \A g \in Frame, r \in Req : Listed(ready, g, r) => Listed(acc, g, r)
    BY NothingQueued DEF Given
  <2> QED BY <1>11, <2>1, ForThreadForm
<1>13. que'[u].pend = p \o s
  BY <1>7, <1>11
<1>14. ToSet(p) \subseteq Frame \X Req /\ ToSet(s) \subseteq Frame \X Req
  BY SeqSet
<1>15. ToSet(p) \cap ToSet(s) = {}
  <2>1. ASSUME NEW g \in Frame, NEW r \in Req, <<g, r>> \in ToSet(p), <<g, r>> \in ToSet(s) PROVE FALSE
    <3>1. In(g, r, "pend") /\ "pend" \in Kind /\ "acc" \in Kind /\ "reqs" \in Kind
      BY <1>11, <2>1 DEF In, At, Kind
    <3>2. DiskMoves(t, f, acc, rest, g, r)
      OBVIOUS
    <3>3. In(g, r, "acc") \/ In(g, r, "reqs")
      BY <1>12, <2>1, <3>2 DEF DiskMoves
    <3> QED BY <1>1, <3>1, <3>3 DEF OnePlace
  <2>2. ASSUME NEW x \in ToSet(p), x \in ToSet(s) PROVE FALSE
    <3>1. PICK g \in Frame, r \in Req : x = <<g, r>>
      BY <1>14
    <3> QED BY <2>1, <2>2, <3>1
  <2> QED BY <2>2
<1>16. ToSet(p \o s) = ToSet(p) \cup ToSet(s) /\ IsInjective(p \o s)
  BY <1>11, <1>15, SeqJoin
<1>17. QueuesAt(u)'
  <2>1. \A x \in ToSet(que'[u].pend) : rq'[x[2]].io = u
    <3>1. \A x \in ToSet(p) : rq[x[2]].io = u
      BY <1>1, <1>11 DEF QueuesAt
    <3>2. ASSUME NEW x \in ToSet(s) PROVE rq[x[2]].io = u
      <4>1. PICK g \in Frame, r \in Req : x = <<g, r>>
        BY <1>14
      <4>2. rq[r].io = u
        BY <1>12, <3>2, <4>1
      <4> QED BY <4>1, <4>2
    <3> QED BY <1>6, <1>13, <1>16, <3>1, <3>2
  <2> QED BY <1>1, <1>6, <1>7, <2>1 DEF QueuesAt, WithinOnePage, PagesOf
<1>18. RepeatsAt(u)'
  <2>1. IsInjective(que'[u].disk)
    <3>1. CASE u = t
      BY <3>1
    <3>2. CASE u # t
      BY <1>1, <1>7, <3>2 DEF RepeatsAt
    <3> QED BY <3>1, <3>2
  <2>2. IsInjective(que'[u].pend)
    BY <1>13, <1>16
  <2> QED BY <1>1, <1>6, <1>7, <2>1, <2>2 DEF RepeatsAt
<1>19. AccAt(u)'
  <2>1. CASE u # t
    <3>1. th'[u].acc = th[u].acc
      BY <1>6, <2>1
    <3> QED BY <1>1, <3>1 DEF AccAt
  <2>2. CASE u = t /\ rest = <<>>
    <3>1. th'[u].acc = <<>>
      BY <1>6, <2>2
    <3> QED BY <3>1, EmptySet DEF AccAt
  <2>3. CASE u = t /\ rest # <<>>
    <3>1. th'[u].acc = acc
      BY <1>6, <2>3
    <3> QED BY <3>1 DEF AccAt, Given, AccOK
  <2> QED BY <2>1, <2>2, <2>3
<1> QED BY <1>8, <1>9, <1>10, <1>17, <1>18, <1>19

\* process_disk_completed_requests, one page.
LEMMA DiskCompletionStep == ASSUME IInv, NEW t \in Thread, DiskCompletion(t) PROVE IInv'
<1>1. /\ TypeOK /\ OnePlace /\ AccApart /\ OneFrame /\ OneEvictor
  BY Parts
<1>2a. PICK io \in IO, b \in Frame \X Page : \E acc, ready : io \in ToSet(que[t].disk) /\ Turned(t, io, b, acc, ready)
  BY DiskTurn
<1>2. PICK acc, ready : io \in ToSet(que[t].disk) /\ Turned(t, io, b, acc, ready)
  BY <1>2a
<1>3. /\ que[t].disk # <<>> /\ io = Head(que[t].disk) /\ b \in io.bufs
      /\ acc = (IF frame[b[1]].reqs = <<>> THEN th[t].acc ELSE Append(th[t].acc, <<b[1], frame[b[1]].reqs>>))
      /\ ready = IF io.bufs \ {b} = {} THEN acc ELSE <<>>
  BY <1>2, Zenon DEF Turned
<1>4. PICK f \in Frame : f = b[1]
  OBVIOUS
<1>5. PICK rest \in Seq(IO) : rest = Remaining(io, b)
  BY <1>3, RemainingForm
<1>6. (io.bufs \ {b} = {}) <=> rest = <<>>
  BY <1>5 DEF Remaining
<1>7. /\ AccOK(acc) /\ (\A a \in ToSet(acc) : a[2] # <<>> /\ (a \in ToSet(th[t].acc) \/ a = <<f, frame[f].reqs>>))
      /\ \A g \in Frame, r \in Req : Listed(acc, g, r) <=> Listed(th[t].acc, g, r) \/ (g = f /\ r \in ToSet(frame[f].reqs))
  <2>1. acc = IF frame[f].reqs = <<>> THEN th[t].acc ELSE Append(th[t].acc, <<f, frame[f].reqs>>)
    BY <1>3, <1>4
  <2>2. Grew(t, f, acc)
    BY <2>1, AccGrown
  <2> QED BY <2>2 DEF Grew
<1>8. AccOK(ready) /\ (rest = <<>> => ready = acc) /\ (rest # <<>> => ready = <<>>)
  BY <1>3, <1>6, <1>7, NothingQueued
<1>9. Given(t, f, acc, ready, rest)
  BY <1>7, <1>8 DEF Given
<1>10. DiskForm(t, io, b, acc, ready, rest)
  <2>1. rest = IF io.bufs \ {b} = {} THEN <<>> ELSE <<[io EXCEPT !.bufs = io.bufs \ {b}]>>
    BY <1>5, Zenon DEF Remaining
  <2> QED BY <1>2, <1>7, <1>8, <2>1, DiskFormed
<1>11. \A g \in Frame, r \in Req : DiskMoves(t, f, acc, rest, g, r)
  BY <1>4, <1>9, <1>10, DiskMoved
<1>12. /\ IOApart' /\ SingleWrites' /\ IsInjective(que'[t].disk)
       /\ (\A g \in Frame \ {f} : SameCov(g)) /\ ~CovBy(f, "read")' /\ ~CovBy(f, "write")'
       /\ CovBy(f, io.op) /\ \A o : CovBy(f, o) => o = io.op
  <2>1. Uncovers(t, io, f)
    BY <1>3, <1>4, <1>5, <1>10, DiskIos
  <2> QED BY <2>1 DEF Uncovers
<1>13. TypeOK'
  <2>1. flight' \subseteq IO /\ raced' \subseteq Page /\ disk' \in [Page -> BOOLEAN] /\ rq' \in [Req -> ReqRec]
    BY <1>1, <1>10, TypesForm DEF DiskForm
  <2> QED BY <1>10, <2>1, TypesNext DEF DiskForm
<1>14. \A g \in Frame : CountedAt(g)' /\ FlagsAt(g)' /\ IsInjective(frame'[g].reqs)
  BY <1>4, <1>10, <1>11, <1>12, DiskFrame
<1>15. \A u \in Thread : EvictorAt(u)' /\ ControlAt(u)' /\ WorkingAt(u)' /\ QueuesAt(u)' /\ RepeatsAt(u)' /\ AccAt(u)'
  BY <1>4, <1>9, <1>10, <1>11, <1>12, <1>13, DiskThread
<1>16. OnePlace'
  <2>1. \A g \in Frame, r \in Req, k, l \in Kind : In(g, r, k)' /\ In(g, r, l)' => k = l
    <3> SUFFICES ASSUME NEW g \in Frame, NEW r \in Req, NEW k \in Kind, NEW l \in Kind, In(g, r, k)', In(g, r, l)' PROVE k = l
      OBVIOUS
    <3>1. DiskMoves(t, f, acc, rest, g, r)
      BY <1>11
    <3> QED BY <3>1, DiskOnce
  <2> QED BY <2>1 DEF OnePlace
<1>17. \A g \in Frame : frame'[g].id = frame[g].id
  BY <1>4, <1>10 DEF DiskForm, Completed
<1>18. OneFrame'
  BY <1>1, <1>17 DEF OneFrame
<1>19. OneEvictor'
  <2>1. \A u \in Thread : th'[u].cur = th[u].cur /\ th'[u].old = th[u].old
    BY <1>10 DEF DiskForm
  <2> QED BY <1>1, <2>1 DEF OneEvictor
<1>20. AccApart'
  <2>1. \A u \in Thread \ {t} : th'[u].acc = th[u].acc
    BY <1>10 DEF DiskForm
  <2>2. th'[t].acc = <<>> \/ th'[t].acc = acc
    BY <1>10 DEF DiskForm
  <2>3. ASSUME NEW a \in ToSet(th'[t].acc) PROVE a \in ToSet(acc)
    BY <2>2, <2>3, EmptySet
  <2>4. ASSUME NEW u \in Thread \ {t}, NEW c \in ToSet(th[u].acc), NEW a \in ToSet(acc), NEW r \in Req, a[1] = c[1], r \in ToSet(a[2]), r \in ToSet(c[2])
        PROVE FALSE
    <3>1. th[u].acc \in Seq(Frame \X Seq(Req)) /\ acc \in Seq(Frame \X Seq(Req))
      BY <1>1, <1>7, Records DEF AccOK
    <3>2. c \in Frame \X Seq(Req) /\ a \in Frame \X Seq(Req)
      BY <2>4, <3>1, SeqSet
    <3>3. PICK g \in Frame : g = a[1] /\ g = c[1]
      BY <2>4, <3>2
    <3>4. Listed(th[u].acc, g, r) /\ Listed(acc, g, r)
      BY <2>4, <3>3 DEF Listed
    <3>5. DiskMoves(t, f, acc, rest, g, r)
      BY <1>11
    <3>6. Others(t, g, r)
      BY <3>4 DEF Others
    <3>7. In(g, r, "acc") /\ In(g, r, "reqs") /\ "acc" \in Kind /\ "reqs" \in Kind
      BY <3>4, <3>5, <3>6 DEF DiskMoves, Kind
    <3> QED BY <1>1, <3>7 DEF OnePlace
  <2>5. ASSUME NEW u \in Thread, NEW v \in Thread, NEW a \in ToSet(th'[u].acc), NEW c \in ToSet(th'[v].acc), NEW r \in Req,
               a[1] = c[1], r \in ToSet(a[2]), r \in ToSet(c[2])
        PROVE u = v /\ a = c
    <3>1. CASE u # t /\ v # t
      BY <1>1, <2>1, <2>5, <3>1 DEF AccApart
    <3>2. CASE u = t /\ v # t
      BY <2>1, <2>3, <2>4, <2>5, <3>2
    <3>3. CASE u # t /\ v = t
      BY <2>1, <2>3, <2>4, <2>5, <3>3
    <3>4. CASE u = t /\ v = t
      BY <1>7, <2>3, <2>5, <3>4 DEF AccOK
    <3> QED BY <3>1, <3>2, <3>3, <3>4
  <2> QED BY <2>5 DEF AccApart
<1>21. ASSUME NEW r \in Req PROVE RequestAt(r)'
  <2>1. RequestAt(r) /\ rq' = rq
    BY <1>10, Parts DEF DiskForm
  <2>2. ASSUME NEW g \in Frame, NEW k \in Kind, In(g, r, k)'
        PROVE rq[r].st = "taken" /\ frame[g].id \in PagesOf(r) /\ (k = "held" <=> frame[g].id \in rq[r].done)
    <3>1. PICK l \in Kind : In(g, r, l)
      BY <1>11, <2>2, DiskPlaces
    <3>2. k = "held" <=> In(g, r, "held")
      BY <1>11, <2>2, DiskPlaces
    <3>3. "held" \in Kind /\ \A j \in Kind : In(g, r, j) => j = l
      BY <1>1, <3>1 DEF OnePlace, Kind
    <3>4. k = "held" <=> l = "held"
      BY <3>1, <3>2, <3>3
    <3> QED BY <2>1, <3>1, <3>4 DEF RequestAt
  <2>3. PagesOf(r)' = PagesOf(r)
    BY <2>1 DEF PagesOf
  <2> QED BY <1>17, <2>1, <2>2, <2>3 DEF RequestAt
<1> QED BY <1>12, <1>13, <1>14, <1>15, <1>16, <1>18, <1>19, <1>20, <1>21 DEF IInv

-------------------------------------------------------------------------------
(* The invariant                                                           *)

\* The cache is empty and nobody has asked for anything.
LEMMA InitInv == Init => IInv
<1> SUFFICES ASSUME Init PROVE IInv
  OBVIOUS
<1>1. /\ frame = [f \in Frame |-> FreeFrame] /\ disk = [p \in Page |-> TRUE] /\ raced = {} /\ flight = {}
      /\ que = [t \in Thread |-> [disk |-> <<>>, pend |-> <<>>, cached |-> <<>>, comp |-> <<>>, user |-> <<>>]]
      /\ th = [t \in Thread |-> IdleThread] /\ rq = [r \in Req |-> NewReq]
  BY DEF Init
<1>2. 0 \in Page /\ 0 \in 0 .. NumPages /\ 0 \in 0 .. NumPages + 1
  BY NoneApart
<1>3. TypeOK
  <2>1. FreeFrame \in FrameRec
    BY DEF FreeFrame, FrameRec
  <2>2. IdleThread \in ThRec
    BY <1>2 DEF IdleThread, ThRec, Pcs
  <2>3. NewReq \in ReqRec
    BY <1>2 DEF NewReq, ReqRec
  <2>4. [disk |-> <<>>, pend |-> <<>>, cached |-> <<>>, comp |-> <<>>, user |-> <<>>] \in QueRec
    BY DEF QueRec
  <2> QED BY <1>1, <2>1, <2>2, <2>3, <2>4, TypesForm
<1>4. \A f \in Frame : /\ frame[f].id = None /\ ~frame[f].ready /\ ~frame[f].pending /\ ~frame[f].dirty /\ ~frame[f].oldDirty
                       /\ frame[f].ref = 0 /\ frame[f].reqs = <<>>
  BY <1>1 DEF FreeFrame
<1>5. \A t \in Thread : que[t].disk = <<>> /\ que[t].pend = <<>> /\ que[t].cached = <<>> /\ que[t].comp = <<>> /\ que[t].user = <<>>
  BY <1>1
<1>6. \A t \in Thread : /\ th[t].pc = "user" /\ th[t].arg = None /\ th[t].proc = None /\ th[t].cur = None /\ th[t].old = None
                        /\ th[t].batch = <<>> /\ th[t].out = {} /\ th[t].acc = <<>>
  BY <1>1 DEF IdleThread
<1>7. \A r \in Req : rq[r].st = "new" /\ rq[r].io = None /\ rq[r].first = 0 /\ rq[r].last = 0 /\ rq[r].done = {} /\ rq[r].held = {}
  BY <1>1 DEF NewReq
<1>8. \A f \in Frame, r \in Req, k \in Kind : ~In(f, r, k)
  <2>1. ASSUME NEW f \in Frame, NEW r \in Req, NEW k \in Kind, In(f, r, k) PROVE FALSE
    <3>1. r # None /\ f # None
      BY NoneApart
    <3>2. \A t \in Thread : ~At(th[t], que[t], f, r, k)
      BY <1>5, <1>6, <3>1, EmptySet DEF At
    <3> QED BY <1>4, <1>7, <2>1, <3>2, EmptySet DEF In
  <2> QED BY <2>1
<1>9. Ios = {} /\ (\A t \in Thread : \A f : ~Cov(th[t].out, f)) /\ \A f, o : ~CovBy(f, o)
  <2>1. Ios = {}
    BY <1>1, <1>5, EmptySet DEF Ios
  <2>2. \A t \in Thread : \A f : ~Cov(th[t].out, f)
    BY <1>6 DEF Cov
  <2> QED BY <2>1, <2>2 DEF CovBy
<1>10. IOApart /\ SingleWrites
  <2>1. BufsOK({})
    BY FS_EmptySet DEF BufsOK
  <2>2. IOApart
    BY <1>5, <1>6, <1>9, <2>1, EmptySet DEF IOApart
  <2>3. SingleWrites
    BY <1>6, <1>9 DEF SingleWrites
  <2> QED BY <2>2, <2>3
<1>11. OnePlace /\ AccApart /\ OneFrame /\ OneEvictor
  <2>1. AccApart
    BY <1>6, EmptySet DEF AccApart
  <2> QED BY <1>4, <1>6, <1>8, <2>1 DEF OnePlace, OneFrame, OneEvictor
<1>12. ASSUME NEW f \in Frame PROVE CountedAt(f) /\ FlagsAt(f) /\ IsInjective(frame[f].reqs)
  <2>1. Users(f) = {}
    BY <1>8, UsersForm
  <2>2. CountedAt(f)
    BY <1>4, <1>9, <2>1, FS_EmptySet DEF CountedAt
  <2>3. FlagsAt(f)
    BY <1>4, <1>8, <1>9 DEF FlagsAt
  <2> QED BY <1>4, <2>2, <2>3, EmptySet
<1>13. ASSUME NEW t \in Thread PROVE EvictorAt(t) /\ ControlAt(t) /\ WorkingAt(t) /\ QueuesAt(t) /\ RepeatsAt(t) /\ AccAt(t)
  <2>1. EvictorAt(t)
    BY <1>6 DEF EvictorAt, Evicting
  <2>2. ControlAt(t) /\ WorkingAt(t)
    BY <1>6 DEF ControlAt, WorkingAt
  <2>3. QueuesAt(t) /\ RepeatsAt(t) /\ AccAt(t)
    BY <1>5, <1>6, EmptySet DEF QueuesAt, RepeatsAt, AccAt
  <2> QED BY <2>1, <2>2, <2>3
<1>14. ASSUME NEW r \in Req PROVE RequestAt(r)
  BY <1>7, <1>8 DEF RequestAt, PagesOf
<1> QED BY <1>3, <1>10, <1>11, <1>12, <1>13, <1>14 DEF IInv

\* No step of a thread or of the disk breaks the invariant.
LEMMA InvStep == IInv /\ [Next]_vars => IInv'
<1> SUFFICES ASSUME IInv, [Next]_vars PROVE IInv'
  OBVIOUS
<1>1. CASE UNCHANGED vars
  <2>1. frame' = frame /\ disk' = disk /\ raced' = raced /\ flight' = flight /\ que' = que /\ th' = th /\ rq' = rq
    BY <1>1 DEF vars
  <2>2. TypeOK'
    BY <2>1, Parts, TypesForm, TypesNext
  <2>3. (\A f \in Frame, r \in Req, k \in Kind : In(f, r, k)' <=> In(f, r, k)) /\ \A f \in Frame, t \in Thread : Evicting(t, f)' <=> Evicting(t, f)
    BY <2>1 DEF In, Evicting
  <2>4. Ios' = Ios /\ (\A t \in Thread : OutOp(t)' = OutOp(t)) /\ \A f \in Frame : SameCov(f)
    BY <2>1 DEF Ios, OutOp, CovBy, SameCov
  <2>5. OnePlace' /\ AccApart' /\ OneFrame' /\ OneEvictor'
    BY <2>1, <2>3, Parts DEF OnePlace, AccApart, OneFrame, OneEvictor
  <2>6. IOApart' /\ SingleWrites'
    BY <2>1, <2>4, Parts DEF IOApart, SingleWrites
  <2>7. ASSUME NEW f \in Frame PROVE CountedAt(f)' /\ FlagsAt(f)' /\ IsInjective(frame'[f].reqs)
    BY <2>1, <2>3, <2>4, OtherFrame DEF Same, Unmoved, EvictKept
  <2>8. ASSUME NEW t \in Thread PROVE EvictorAt(t)' /\ ControlAt(t)' /\ WorkingAt(t)' /\ QueuesAt(t)' /\ RepeatsAt(t)' /\ AccAt(t)'
    <3>1. \A f \in Frame : Evicting(t, f) /\ frame[f].oldDirty => ~frame'[f].pending
      BY <2>1, Parts DEF EvictorAt
    <3> QED BY <2>1, <2>2, <2>3, <3>1, OtherThread
  <2>9. ASSUME NEW r \in Req PROVE RequestAt(r)'
    BY <2>1, <2>3, OtherRequest
  <2> QED BY <2>2, <2>5, <2>6, <2>7, <2>8, <2>9 DEF IInv
<1>2. CASE \E io \in flight : Serve(io)
  BY <1>2, ServeStep
<1>3. ASSUME NEW t \in Thread, Application(t) PROVE IInv'
  BY <1>3, Wait4CompleteStep, AccessStep DEF Application
<1>4. ASSUME NEW t \in Thread, ProcessUserReq(t) PROVE IInv'
  <2>1. CASE SearchHit(t) \/ SearchMiss(t) \/ SearchNull(t) \/ Classify(t)
    BY <2>1, SearchHitStep, SearchMissStep, SearchNullStep, ClassifyStep
  <2>2. CASE WriteDirtyPage(t) \/ MergeForward(t) \/ MergeBackward(t) \/ WaitOldDirty(t)
    BY <2>2, WriteDirtyPageStep, MergeForwardStep, MergeBackwardStep, WaitOldDirtyStep
  <2>3. CASE UseWrite(t) \/ UseRead(t) \/ FlushBatch(t) \/ Return(t)
    BY <2>3, UseWriteStep, UseReadStep, FlushBatchStep, ReturnStep
  <2> QED BY <1>4, <2>1, <2>2, <2>3 DEF ProcessUserReq
<1>5. ASSUME NEW t \in Thread, ProcessAllRequests(t) PROVE IInv'
  <2>1. CASE DiskCompletion(t) \/ HandlePending(t) \/ CachedReq(t)
    BY <2>1, DiskCompletionStep, HandlePendingStep, CachedReqStep
  <2>2. CASE CompletedReq(t) \/ NextPhase(t) \/ Wake(t)
    BY <2>2, CompletedReqStep, NextPhaseStep, WakeStep
  <2> QED BY <1>5, <2>1, <2>2 DEF ProcessAllRequests
<1> QED BY <1>1, <1>2, <1>3, <1>4, <1>5 DEF Next

\* The invariant of the cache holds in every reachable state, for every set of
\* threads, frames and requests, with and without large writes and voting cells.
THEOREM CacheInvariant == Spec => []IInv
BY InitInv, InvStep, PTL DEF Spec

\* Every reachable state of the cache, its queues, its threads and its requests
\* is well typed: a reference count is never taken below zero (dec_ref).
THEOREM CacheTypeOK == Spec => []TypeOK
<1>1. IInv => TypeOK
  BY Parts
<1> QED BY <1>1, CacheInvariant, PTL

\* An outstanding request that covers a frame is the only one.
LEMMA CoveringForm == ASSUME IInv, NEW f \in Frame
                      PROVE /\ \A x, y \in Covering(f) : x = y
                            /\ \A x \in Covering(f) : x.op \in {"read", "write"} /\ CovBy(f, x.op)
                            /\ \A o \in {"read", "write"} : CovBy(f, o) => \E x \in Covering(f) : x.op = o
<1> DEFINE Mine(t) == Request(t, IF th[t].pc = "flush" THEN "read" ELSE "write", th[t].out)
<1>1. TypeOK /\ IOApart
  BY Parts
<1>2. \A x : x \in Outstanding <=> x \in Ios \/ \E t \in Thread : x = Mine(t)
  <2>1. \A x : x \in Outstanding <=> x \in Ios \/ x \in {Mine(t) : t \in Thread}
    <3>1. Outstanding = Ios \cup {Mine(t) : t \in Thread}
      BY Zenon DEF Outstanding, Ios
    <3> HIDE DEF Mine
    <3> QED BY <3>1
  <2> HIDE DEF Mine
  <2> QED BY <2>1
<1>3. \A t \in Thread : Mine(t).op = OutOp(t) /\ Mine(t).bufs = th[t].out /\ OutOp(t) \in {"read", "write"}
  <2> TAKE t \in Thread
  <2>1. th[t].out \in SUBSET (Frame \X Page) /\ OutOp(t) \in {"read", "write"}
    BY <1>1, Records DEF OutOp
  <2>2. Mine(t) = Request(t, OutOp(t), th[t].out)
    BY DEF OutOp
  <2> QED BY <2>1, <2>2, RequestForm
<1>4. \A x \in Ios : x.op \in {"read", "write"}
  BY <1>1, IosTyped DEF IO
<1> HIDE DEF Mine
<1>5. \A x : x \in Covering(f) <=> (x \in Ios /\ Cov(x.bufs, f)) \/ \E t \in Thread : x = Mine(t) /\ Cov(th[t].out, f)
  BY <1>2, <1>3 DEF Covering, Cov
<1>6. \A x, y \in Covering(f) : x = y
  BY <1>1, <1>5 DEF IOApart
<1>7. \A x \in Covering(f) : x.op \in {"read", "write"} /\ CovBy(f, x.op)
  BY <1>3, <1>4, <1>5 DEF CovBy
<1>8. \A o \in {"read", "write"} : CovBy(f, o) => \E x \in Covering(f) : x.op = o
  BY <1>3, <1>5 DEF CovBy
<1> QED BY <1>6, <1>7, <1>8

\* The references to a page are the requests that use it, plus one for a write
\* of it that is outstanding (write_dirty_page): none leaks, none is given back
\* twice.
THEOREM CacheRefAccounting == Spec => []RefAccounting
<1>1. ASSUME IInv, NEW f \in Frame PROVE frame[f].ref = Cardinality(Users(f)) + Cardinality({io \in Covering(f) : io.op = "write"})
  <2>1. CountedAt(f)
    BY <1>1, Parts
  <2>2. /\ \A x, y \in Covering(f) : x = y
        /\ \A x \in Covering(f) : CovBy(f, x.op)
        /\ CovBy(f, "write") => \E x \in Covering(f) : x.op = "write"
    BY <1>1, CoveringForm
  <2>3. CASE CovBy(f, "write")
    <3>1. PICK x \in Covering(f) : x.op = "write"
      BY <2>2, <2>3
    <3>2. {io \in Covering(f) : io.op = "write"} = {x}
      BY <2>2, <3>1
    <3>3. Cardinality({x}) = 1
      BY FS_Singleton
    <3> QED BY <2>1, <2>3, <3>2, <3>3 DEF CountedAt
  <2>4. CASE ~CovBy(f, "write")
    <3>1. {io \in Covering(f) : io.op = "write"} = {}
      BY <2>2, <2>4
    <3>2. Cardinality({}) = 0
      BY FS_EmptySet
    <3> QED BY <2>1, <2>4, <3>1, <3>2 DEF CountedAt
  <2> QED BY <2>3, <2>4
<1>2. IInv => RefAccounting
  BY <1>1 DEF RefAccounting
<1> QED BY <1>2, CacheInvariant, PTL

\* A page is marked pending exactly while one underlying request covers it: two
\* threads never read a page twice, and no completion leaves the mark behind.
THEOREM CachePendingMeansOneIO == Spec => []PendingMeansOneIO
<1>1. ASSUME IInv, NEW f \in Frame PROVE Cardinality(Covering(f)) = IF frame[f].pending THEN 1 ELSE 0
  <2>1. FlagsAt(f)
    BY <1>1, Parts
  <2>2. /\ \A x, y \in Covering(f) : x = y
        /\ \A x \in Covering(f) : x.op \in {"read", "write"} /\ CovBy(f, x.op)
        /\ \A o \in {"read", "write"} : CovBy(f, o) => \E x \in Covering(f) : x.op = o
    BY <1>1, CoveringForm
  <2>3. CASE frame[f].pending
    <3>1. PICK x \in Covering(f) : TRUE
      BY <2>1, <2>2, <2>3 DEF FlagsAt
    <3>2. Covering(f) = {x}
      BY <2>2, <3>1
    <3> QED BY <2>3, <3>2, FS_Singleton
  <2>4. CASE ~frame[f].pending
    <3>1. Covering(f) = {}
      BY <2>1, <2>2, <2>4 DEF FlagsAt
    <3> QED BY <2>4, <3>1, FS_EmptySet
  <2> QED BY <2>3, <2>4
<1>2. IInv => PendingMeansOneIO
  BY <1>1 DEF PendingMeansOneIO
<1> QED BY <1>2, CacheInvariant, PTL

\* No request waits in the list of a page that nobody will hand back: an I/O of
\* the page is outstanding, or the thread that evicted the page will start it.
THEOREM CacheNoStrandedRequest == Spec => []NoStrandedRequest
<1>1. ASSUME IInv, NEW f \in Frame, frame[f].reqs # <<>>, ~frame[f].pending
      PROVE frame[f].oldDirty /\ \E t \in Thread : th[t].cur = f /\ th[t].old # None /\ th[t].pc \in {"got", "old", "flush"}
  <2>1. FlagsAt(f)
    BY <1>1, Parts
  <2> QED BY <1>1, <2>1 DEF FlagsAt, Evicting
<1>2. IInv => NoStrandedRequest
  BY <1>1 DEF NoStrandedRequest
<1> QED BY <1>2, CacheInvariant, PTL

-------------------------------------------------------------------------------
(* Completion                                                              *)

\* What CompletedOnce says of one step.
CompletesOnce ==
    \A r \in Req :
       /\ \A t \in Thread : Notified(t, r) =>
             /\ rq[r].st = "taken" /\ rq[r].io = t
             /\ rq'[r].st = "done" /\ rq'[r].done = PagesOf(r)
       /\ rq'[r].st # rq[r].st =>
             /\ rq[r].st # "done"
             /\ rq'[r].st = "done" => \E t \in Thread : Notified(t, r)

\* Most steps complete nothing: the queues of completed requests only grow, and no
\* request is done after the step that was not before it.
Grows(s, n, S) == n = s \/ \E x \in S : n = Append(s, x)
QueuesGrow == \A t \in Thread : Grows(que[t].comp, que'[t].comp, Req) /\ Grows(que[t].cached, que'[t].cached, Frame \X Req)
StatesKept == \A r \in Req : rq'[r].st # rq[r].st => rq[r].st # "done" /\ rq'[r].st # "done"

LEMMA GrowsLonger == ASSUME NEW S, NEW s \in Seq(S), NEW n, Grows(s, n, S) PROVE ~(Len(n) < Len(s))
BY DEF Grows

LEMMA NoneCompleted == ASSUME TypeOK, QueuesGrow, StatesKept PROVE CompletesOnce
<1>1. ASSUME NEW t \in Thread, NEW r \in Req PROVE ~Notified(t, r)
  <2>1. que[t].comp \in Seq(Req) /\ que[t].cached \in Seq(Frame \X Req)
    BY Records
  <2>2. ~(Len(que'[t].comp) < Len(que[t].comp)) /\ ~(Len(que'[t].cached) < Len(que[t].cached))
    BY <2>1, GrowsLonger DEF QueuesGrow
  <2> QED BY <2>2 DEF Notified
<1> QED BY <1>1 DEF CompletesOnce, StatesKept

\* The queues of one thread change.
LEMMA OneGrows == ASSUME TypeOK, NEW t \in Thread, NEW q, que' = [que EXCEPT ![t] = q],
                         Grows(que[t].comp, q.comp, Req), Grows(que[t].cached, q.cached, Frame \X Req)
                  PROVE QueuesGrow
<1>1. que \in [Thread -> QueRec]
  BY TypesForm
<1>2. que'[t] = q /\ \A u \in Thread \ {t} : que'[u] = que[u]
  BY <1>1
<1> QED BY <1>2 DEF QueuesGrow, Grows

LEMMA SameGrows == ASSUME \A t \in Thread : que'[t].comp = que[t].comp /\ que'[t].cached = que[t].cached PROVE QueuesGrow
BY DEF QueuesGrow, Grows

LEMMA CompGrows == ASSUME NEW q \in QueRec, NEW r \in Req, NEW p
                   PROVE Grows(q.comp, CompletedQueue(q, r, p).comp, Req) /\ CompletedQueue(q, r, p).cached = q.cached
<1>1. CASE rq[r].done \cup {p} = PagesOf(r)
  <2>1. CompletedQueue(q, r, p) = [q EXCEPT !.comp = Append(q.comp, r)]
    BY <1>1 DEF CompletedQueue
  <2>2. CompletedQueue(q, r, p).comp = Append(q.comp, r) /\ CompletedQueue(q, r, p).cached = q.cached
    BY <2>1 DEF QueRec
  <2> QED BY <2>2 DEF Grows
<1>2. CASE rq[r].done \cup {p} # PagesOf(r)
  BY <1>2 DEF CompletedQueue, Grows
<1> QED BY <1>1, <1>2

\* finalize_partial_request leaves the state of the request alone.
LEMMA ServedState == ASSUME IInv, NEW r, NEW p, NEW keep, rq' = Finalized(r, p, keep) PROVE StatesKept
<1>1. rq \in [Req -> ReqRec]
  BY Parts, TypesForm
<1>2. \A s \in Req : rq[s] \in ReqRec
  BY <1>1
<1>3. ASSUME NEW s \in Req PROVE rq'[s].st = rq[s].st
  <2>1. rq' = [rq EXCEPT ![r].done = @ \cup {p}, ![r].held = @ \cup keep]
    BY Zenon DEF Finalized
  <2>2. rq[s] \in ReqRec
    BY <1>2
  <2>3. CASE r \notin Req
    BY <1>1, <2>1, <2>3
  <2>4. CASE r \in Req
    <3>1. PICK d, h : d = rq[r].done \cup {p} /\ h = rq[r].held \cup keep
      OBVIOUS
    <3>2. rq' = [rq EXCEPT ![r] = [rq[r] EXCEPT !.done = d, !.held = h]]
      BY <1>1, <1>2, <2>1, <2>4, <3>1 DEF ReqRec
    <3>3. s # r => rq'[s] = rq[s]
      BY <1>1, <3>2
    <3>4. rq'[r] = [rq[r] EXCEPT !.done = d, !.held = h]
      BY <1>1, <2>4, <3>2
    <3>5. rq[r] \in ReqRec
      BY <1>2, <2>4
    <3>6. rq'[r].st = rq[r].st
      BY <3>4, <3>5 DEF ReqRec
    <3> QED BY <3>3, <3>6
  <2> QED BY <2>3, <2>4
<1> QED BY <1>3 DEF StatesKept

\* A request meets a page: it may be queued as completed, but is not yet.
LEMMA MetOnce == ASSUME IInv, NEW t \in Thread, NEW r \in Req, NEW q \in QueRec, q.comp = que[t].comp, q.cached = que[t].cached,
                        \/ rq' = rq /\ que' = [que EXCEPT ![t] = q]
                        \/ \E p, keep : rq' = Finalized(r, p, keep) /\ que' = [que EXCEPT ![t] = CompletedQueue(q, r, p)]
                 PROVE CompletesOnce
<1>1. TypeOK
  BY Parts
<1>2. CASE rq' = rq /\ que' = [que EXCEPT ![t] = q]
  <2>1. QueuesGrow
    BY <1>1, <1>2, OneGrows DEF Grows
  <2> QED BY <1>1, <1>2, <2>1, NoneCompleted DEF StatesKept
<1>3. ASSUME NEW p, NEW keep, rq' = Finalized(r, p, keep), que' = [que EXCEPT ![t] = CompletedQueue(q, r, p)] PROVE CompletesOnce
  <2>1. Grows(que[t].comp, CompletedQueue(q, r, p).comp, Req) /\ Grows(que[t].cached, CompletedQueue(q, r, p).cached, Frame \X Req)
    BY CompGrows DEF Grows
  <2>2. QueuesGrow
    BY <1>1, <1>3, <2>1, OneGrows
  <2>3. StatesKept
    BY <1>3, ServedState
  <2> QED BY <1>1, <2>2, <2>3, NoneCompleted
<1> QED BY <1>2, <1>3

LEMMA ServeState == ASSUME IInv, NEW t \in Thread, NEW f, NEW r \in Req, NEW q \in QueRec, q.comp = que[t].comp, q.cached = que[t].cached,
                           Write(t, f, r, q) \/ Read(t, f, r, q)
                    PROVE CompletesOnce
<1>1. \/ rq' = rq /\ que' = [que EXCEPT ![t] = q]
      \/ \E p, keep : rq' = Finalized(r, p, keep) /\ que' = [que EXCEPT ![t] = CompletedQueue(q, r, p)]
  <2>1. CASE Write(t, f, r, q)
    BY <2>1 DEF Write, StartRead, Enqueue, WriteReady
  <2>2. CASE Read(t, f, r, q)
    BY <2>2 DEF Read, StartRead, Enqueue, ReadReady
  <2> QED BY <2>1, <2>2
<1> QED BY <1>1, MetOnce

\* The request whose state a step sets.
LEMMA OneState == ASSUME IInv, NEW r \in Req, NEW n, rq' = [rq EXCEPT ![r] = n], rq[r].st # "done", n.st # "done" PROVE StatesKept
<1>1. rq \in [Req -> ReqRec]
  BY Parts, TypesForm
<1>2. \A s \in Req \ {r} : rq'[s] = rq[s]
  BY <1>1
<1>3. rq'[r] = n
  BY <1>1
<1> QED BY <1>2, <1>3 DEF StatesKept

LEMMA AccessState == ASSUME IInv, NEW t \in Thread, NEW r \in Req, Access(t, r) PROVE CompletesOnce
<1>1. PICK n : rq' = [rq EXCEPT ![r] = n] /\ n.st \in {"taken", "queued"}
  <2>0. PICK op \in Ops, p \in Page, m \in 0 .. MaxSpan - 1 :
          \E whole \in IF op = "write" THEN {w \in SUBSET (p .. p + m) : (p + 1) .. (p + m - 1) \subseteq w} ELSE {{}} :
             rq' = [rq EXCEPT ![r] = [NewReq EXCEPT !.st = IF th[t].proc = None THEN "taken" ELSE "queued",
                                      !.op = op, !.io = t, !.first = p, !.last = p + m, !.whole = whole]]
    BY ZenonT(60) DEF Access
  <2>1. PICK whole :
           rq' = [rq EXCEPT ![r] = [NewReq EXCEPT !.st = IF th[t].proc = None THEN "taken" ELSE "queued",
                                    !.op = op, !.io = t, !.first = p, !.last = p + m, !.whole = whole]]
    BY <2>0, Zenon
  <2>2. PICK st \in {"taken", "queued"} : st = IF th[t].proc = None THEN "taken" ELSE "queued"
    OBVIOUS
  <2> DEFINE n == [NewReq EXCEPT !.st = st, !.op = op, !.io = t, !.first = p, !.last = p + m, !.whole = whole]
  <2>3. rq' = [rq EXCEPT ![r] = n]
    BY <2>1, <2>2
  <2>4. n.st = st
    BY DEF NewReq
  <2> HIDE DEF n
  <2> QED BY <2>2, <2>3, <2>4
<1>2. rq[r].st = "new"
  BY Zenon DEF Access
<1>3. TypeOK /\ StatesKept
  BY <1>1, <1>2, OneState, Parts
<1>4. QueuesGrow
  <2>1. que' = que
    BY Zenon DEF Access
  <2> QED BY <2>1, SameGrows
<1> QED BY <1>3, <1>4, NoneCompleted

LEMMA ReturnState == ASSUME IInv, NEW t \in Thread, Return(t) PROVE CompletesOnce
<1>1. TypeOK /\ WorkingAt(t) /\ QueuesAt(t)
  BY Parts
<1>2. th[t].arg \in Req \cup {None} /\ que[t].user \in Seq(Req) /\ rq \in [Req -> ReqRec]
  BY <1>1, Records, TypesForm
<1>3. \/ rq' = rq
      \/ (th[t].arg # None /\ rq' = [rq EXCEPT ![th[t].arg].st = "taken"])
      \/ (que[t].user # <<>> /\ rq' = [rq EXCEPT ![Head(que[t].user)].st = "taken"])
  BY DEF Return
<1>4. ASSUME NEW r \in Req, rq[r].st = "queued", rq' = [rq EXCEPT ![r].st = "taken"] PROVE StatesKept
  <2>1. rq[r] \in ReqRec
    BY <1>2
  <2> DEFINE n == [rq[r] EXCEPT !.st = "taken"]
  <2>2. rq' = [rq EXCEPT ![r] = n] /\ n.st = "taken"
    BY <1>2, <1>4, <2>1 DEF ReqRec
  <2> HIDE DEF n
  <2> QED BY <1>4, <2>2, OneState
<1>5. rq' = rq => StatesKept
  BY DEF StatesKept
<1>6. ASSUME th[t].arg # None, rq' = [rq EXCEPT ![th[t].arg].st = "taken"] PROVE StatesKept
  <2>1. PICK r \in Req : r = th[t].arg
    BY <1>2, <1>6
  <2>2. rq[r].st = "queued"
    BY <1>1, <1>6, <2>1 DEF WorkingAt
  <2>3. rq' = [rq EXCEPT ![r].st = "taken"]
    BY <1>6, <2>1
  <2> QED BY <1>4, <2>2, <2>3
<1>7. ASSUME que[t].user # <<>>, rq' = [rq EXCEPT ![Head(que[t].user)].st = "taken"] PROVE StatesKept
  <2>1. Head(que[t].user) \in Req /\ Head(que[t].user) \in ToSet(que[t].user)
    BY <1>2, <1>7, SeqTail
  <2>2. PICK r \in Req : r = Head(que[t].user)
    BY <2>1
  <2>3. rq[r].st = "queued"
    BY <1>1, <2>1, <2>2 DEF QueuesAt
  <2>4. rq' = [rq EXCEPT ![r].st = "taken"]
    BY <1>7, <2>2
  <2> QED BY <1>4, <2>3, <2>4
<1>8. StatesKept
  BY <1>3, <1>5, <1>6, <1>7
<1>9. QueuesGrow
  <2>1. \/ que' = que
        \/ \E x : que' = [que EXCEPT ![t].user = x]
    BY Zenon DEF Return
  <2>2. ASSUME NEW x, que' = [que EXCEPT ![t].user = x] PROVE QueuesGrow
    <3>1. que \in [Thread -> QueRec] /\ que[t] \in QueRec
      BY <1>1, TypesForm
    <3>2. \A u \in Thread : que'[u].comp = que[u].comp /\ que'[u].cached = que[u].cached
      BY <2>2, <3>1 DEF QueRec
    <3> QED BY <3>2, SameGrows
  <2>3. CASE que' = que
    BY <2>3, SameGrows
  <2> QED BY <2>1, <2>2, <2>3
<1> QED BY <1>1, <1>8, <1>9, NoneCompleted

\* A completion: one request leaves a queue of its thread and is done.
LEMMA OneCompleted == ASSUME IInv, NEW t \in Thread, NEW r \in Req, NEW n, rq' = [rq EXCEPT ![r] = n],
                             rq[r].st = "taken", rq[r].io = t, n.st = "done", n.done = PagesOf(r),
                             \A u \in Thread, s \in Req : Notified(u, s) => u = t /\ s = r, Notified(t, r)
                      PROVE CompletesOnce
<1>1. rq \in [Req -> ReqRec]
  BY Parts, TypesForm
<1>2. \A s \in Req \ {r} : rq'[s] = rq[s]
  BY <1>1
<1>3. rq'[r] = n
  BY <1>1
<1> QED BY <1>2, <1>3 DEF CompletesOnce

LEMMA CachedState == ASSUME IInv, NEW t \in Thread, CachedReq(t) PROVE CompletesOnce
<1>1. TypeOK /\ QueuesAt(t)
  BY Parts
<1>2. que[t].cached \in Seq(Frame \X Req) /\ que[t].cached # <<>> /\ rq \in [Req -> ReqRec]
  <2>1. que[t].cached # <<>>
    BY Zenon DEF CachedReq
  <2> QED BY <1>1, <2>1, Records, TypesForm
<1>3. Head(que[t].cached) \in Frame \X Req /\ Head(que[t].cached) \in ToSet(que[t].cached)
  BY <1>2, SeqTail
<1>4. PICK f \in Frame, r \in Req : Head(que[t].cached) = <<f, r>>
  BY <1>3
<1>5. Head(que[t].cached)[1] = f /\ Head(que[t].cached)[2] = r
  BY <1>4
<1>6. In(f, r, "cached") /\ "cached" \in Kind
  BY <1>3, <1>4 DEF In, At, Kind
<1>7. rq[r].st = "taken" /\ frame[f].id \in PagesOf(r)
  BY <1>6, WithFrame
<1>8. rq[r].first = rq[r].last /\ rq[r].first \in Nat /\ rq[r].io = t
  BY <1>1, <1>3, <1>5, Records DEF QueuesAt, WithinOnePage
<1>9. PagesOf(r) = {frame[f].id}
  <2>1. PagesOf(r) = {rq[r].first}
    BY <1>8 DEF PagesOf
  <2> QED BY <1>7, <2>1
<1>10. rq' = [rq EXCEPT ![r].done = {frame[f].id}, ![r].st = "done"]
  <2>1. rq' = [rq EXCEPT ![Head(que[t].cached)[2]].done = {frame[Head(que[t].cached)[1]].id}, ![Head(que[t].cached)[2]].st = "done"]
    BY Zenon DEF CachedReq
  <2> QED BY <1>5, <2>1, Zenon
<1>11. PICK d : d = {frame[f].id}
  OBVIOUS
<1> DEFINE n == [rq[r] EXCEPT !.done = d, !.st = "done"]
<1>12. rq[r] \in ReqRec
  BY <1>2
<1>13. rq' = [rq EXCEPT ![r] = n]
  BY <1>2, <1>10, <1>11, <1>12 DEF ReqRec
<1>14. n.done = d /\ n.st = "done"
  BY <1>12 DEF ReqRec
<1>15. que \in [Thread -> QueRec] /\ que[t] \in QueRec /\ que' = [que EXCEPT ![t].cached = Tail(que[t].cached)]
  <2>1. que' = [que EXCEPT ![t].cached = Tail(@)]
    BY Zenon DEF CachedReq
  <2> QED BY <1>1, <2>1, TypesForm
<1>16. /\ que'[t].comp = que[t].comp /\ que'[t].cached = Tail(que[t].cached)
       /\ \A u \in Thread \ {t} : que'[u] = que[u]
  BY <1>15 DEF QueRec
<1>17. Len(Tail(que[t].cached)) < Len(que[t].cached) /\ que[t].comp \in Seq(Req)
  BY <1>1, <1>2, SeqTail, Records
<1>18. Notified(t, r)
  BY <1>2, <1>5, <1>16, <1>17 DEF Notified
<1>19. ASSUME NEW u \in Thread, NEW s \in Req, Notified(u, s) PROVE u = t /\ s = r
  <2>1. que[u].comp \in Seq(Req) /\ que[u].cached \in Seq(Frame \X Req)
    BY <1>1, Records
  <2>2. ~(Len(que[u].comp) < Len(que[u].comp)) /\ ~(Len(que[u].cached) < Len(que[u].cached))
    BY <2>1
  <2>3. u = t
    BY <1>16, <1>19, <2>2 DEF Notified
  <2> QED BY <1>5, <1>16, <1>19, <2>2, <2>3 DEF Notified
<1> HIDE DEF n
<1> QED BY <1>7, <1>8, <1>9, <1>11, <1>13, <1>14, <1>18, <1>19, OneCompleted

LEMMA CompletedState == ASSUME IInv, NEW t \in Thread, CompletedReq(t) PROVE CompletesOnce
<1>1. TypeOK /\ QueuesAt(t)
  BY Parts
<1>2. que[t].comp \in Seq(Req) /\ que[t].comp # <<>> /\ rq \in [Req -> ReqRec]
  <2>1. que[t].comp # <<>>
    BY Zenon DEF CompletedReq
  <2> QED BY <1>1, <2>1, Records, TypesForm
<1>3. PICK r \in Req : r = Head(que[t].comp) /\ r \in ToSet(que[t].comp)
  BY <1>2, SeqTail
<1>4. rq[r].st = "taken" /\ rq[r].done = PagesOf(r) /\ rq[r].io = t
  BY <1>1, <1>3 DEF QueuesAt
<1>5. rq' = [rq EXCEPT ![r].st = "done", ![r].held = {}]
  BY <1>3, Zenon DEF CompletedReq
<1> DEFINE n == [rq[r] EXCEPT !.st = "done", !.held = {}]
<1>6. rq[r] \in ReqRec
  BY <1>2
<1>7. rq' = [rq EXCEPT ![r] = n] /\ n.done = rq[r].done /\ n.st = "done"
  BY <1>2, <1>5, <1>6 DEF ReqRec
<1>8. que \in [Thread -> QueRec] /\ que[t] \in QueRec /\ que' = [que EXCEPT ![t].comp = Tail(que[t].comp)]
  <2>1. que' = [que EXCEPT ![t].comp = Tail(@)]
    BY Zenon DEF CompletedReq
  <2> QED BY <1>1, <2>1, TypesForm
<1>9. /\ que'[t].cached = que[t].cached /\ que'[t].comp = Tail(que[t].comp)
      /\ \A u \in Thread \ {t} : que'[u] = que[u]
  BY <1>8 DEF QueRec
<1>10. Len(Tail(que[t].comp)) < Len(que[t].comp)
  BY <1>2, SeqTail
<1>11. Notified(t, r)
  BY <1>2, <1>3, <1>9, <1>10 DEF Notified
<1>12. ASSUME NEW u \in Thread, NEW s \in Req, Notified(u, s) PROVE u = t /\ s = r
  <2>1. que[u].comp \in Seq(Req) /\ que[u].cached \in Seq(Frame \X Req)
    BY <1>1, Records
  <2>2. ~(Len(que[u].comp) < Len(que[u].comp)) /\ ~(Len(que[u].cached) < Len(que[u].cached))
    BY <2>1
  <2>3. u = t
    BY <1>9, <1>12, <2>2 DEF Notified
  <2> QED BY <1>3, <1>9, <1>12, <2>2, <2>3 DEF Notified
<1> HIDE DEF n
<1> QED BY <1>4, <1>7, <1>11, <1>12, OneCompleted

\* What a step does to the queues of completed requests that completes none.
LEMMA ClassifyOnce == ASSUME IInv, NEW t \in Thread, Classify(t) PROVE CompletesOnce
<1>1. TypeOK /\ th[t].pc = "got" /\ rq' = rq
  <2>1. th[t].pc = "got" /\ rq' = rq
    BY Zenon DEF Classify
  <2> QED BY <2>1, Parts
<1>2. PICK f \in Frame, r \in Req : th[t].cur = f /\ th[t].proc = r
  BY <1>1, HasPage
<1>3. que' = que \/ que' = [que EXCEPT ![t].cached = Append(@, <<f, r>>)]
  <2>1. que' = que \/ que' = [que EXCEPT ![t].cached = Append(@, <<th[t].cur, th[t].proc>>)]
    BY Zenon DEF Classify
  <2> QED BY <1>2, <2>1
<1>4. CASE que' = que
  BY <1>1, <1>4, SameGrows, NoneCompleted DEF StatesKept
<1>5. CASE que' = [que EXCEPT ![t].cached = Append(@, <<f, r>>)]
  <2>1. que \in [Thread -> QueRec] /\ que[t] \in QueRec
    BY <1>1, TypesForm
  <2>2. /\ que'[t].comp = que[t].comp /\ que'[t].cached = Append(que[t].cached, <<f, r>>)
        /\ \A u \in Thread \ {t} : que'[u] = que[u]
    BY <1>5, <2>1 DEF QueRec
  <2>3. QueuesGrow
    BY <2>2 DEF QueuesGrow, Grows
  <2> QED BY <1>1, <2>3, NoneCompleted DEF StatesKept
<1> QED BY <1>3, <1>4, <1>5

LEMMA DiskCompletionOnce == ASSUME IInv, NEW t \in Thread, DiskCompletion(t) PROVE CompletesOnce
<1>1. TypeOK /\ rq' = rq /\ que \in [Thread -> QueRec]
  <2>1. rq' = rq
    BY Zenon DEF DiskCompletion
  <2> QED BY <2>1, Parts, TypesForm
<1>2. \E d, ready : que' = [u \in Thread |->
                 LET q == IF u # t THEN que[u] ELSE [que[t] EXCEPT !.disk = d]
                 IN  [q EXCEPT !.pend = @ \o ForThread(u, ready)]]
  <2>1. PICK io, b, acc, ready : Turned(t, io, b, acc, ready)
    BY DiskTurn
  <2>2. PICK d : d = Remaining(io, b) \o Tail(que[t].disk)
    OBVIOUS
  <2>3. que' = [u \in Thread |->
                 LET q == IF u # t THEN que[u] ELSE [que[t] EXCEPT !.disk = Remaining(io, b) \o Tail(@)]
                 IN  [q EXCEPT !.pend = @ \o ForThread(u, ready)]]
    BY <2>1, Zenon DEF Turned, Remaining
  <2>4. que' = [u \in Thread |->
                 LET q == IF u # t THEN que[u] ELSE [que[t] EXCEPT !.disk = d]
                 IN  [q EXCEPT !.pend = @ \o ForThread(u, ready)]]
    BY <2>2, <2>3, Zenon
  <2> QED BY <2>4
<1>3. PICK d, ready : que' = [u \in Thread |->
                 LET q == IF u # t THEN que[u] ELSE [que[t] EXCEPT !.disk = d]
                 IN  [q EXCEPT !.pend = @ \o ForThread(u, ready)]]
  BY <1>2
<1>4. ASSUME NEW u \in Thread PROVE que'[u].comp = que[u].comp /\ que'[u].cached = que[u].cached
  <2>1. PICK x : x = IF u # t THEN que[u] ELSE [que[t] EXCEPT !.disk = d]
    OBVIOUS
  <2>2. que'[u] = [x EXCEPT !.pend = x.pend \o ForThread(u, ready)]
    BY <1>3, <2>1
  <2>3. que[u] \in QueRec
    BY <1>1
  <2>4. PICK p : p = x.pend \o ForThread(u, ready)
    OBVIOUS
  <2>5. que'[u] = [x EXCEPT !.pend = p]
    BY <2>2, <2>4
  <2> QED BY <2>1, <2>3, <2>5 DEF QueRec
<1>5. QueuesGrow
  BY <1>4, SameGrows
<1> QED BY <1>1, <1>5, NoneCompleted DEF StatesKept

LEMMA ServeOnce == ASSUME IInv, NEW io \in flight, Serve(io) PROVE CompletesOnce
<1>1. TypeOK /\ rq' = rq /\ que \in [Thread -> QueRec]
  <2>1. rq' = rq
    BY Zenon DEF Serve
  <2> QED BY <2>1, Parts, TypesForm
<1>2. que' = [que EXCEPT ![io.io].disk = Append(@, io)]
  BY Zenon DEF Serve
<1>3. ASSUME NEW u \in Thread PROVE que'[u].comp = que[u].comp /\ que'[u].cached = que[u].cached
  <2>1. que[u] \in QueRec
    BY <1>1
  <2> QED BY <1>1, <1>2, <2>1 DEF QueRec
<1>4. QueuesGrow
  BY <1>3, SameGrows
<1> QED BY <1>1, <1>4, NoneCompleted DEF StatesKept

LEMMA FlushBatchOnce == ASSUME IInv, NEW t \in Thread, FlushBatch(t) PROVE CompletesOnce
<1>1. TypeOK /\ th[t].pc = "flush" /\ que[t] \in QueRec
  <2>1. th[t].pc = "flush"
    BY Zenon DEF FlushBatch
  <2> QED BY <2>1, Parts, Records
<1>2. PICK r \in Req : r = th[t].proc
  BY <1>1, Parts, Records DEF ControlAt
<1>3. \/ StartRead(t, Head(th[t].batch), r, que[t]) \/ Enqueue(t, Head(th[t].batch), r, que[t])
      \/ ReadReady(t, Head(th[t].batch), r, que[t])
  <2>1. \/ StartRead(t, Head(th[t].batch), th[t].proc, que[t]) \/ Enqueue(t, Head(th[t].batch), th[t].proc, que[t])
        \/ ReadReady(t, Head(th[t].batch), th[t].proc, que[t])
    BY Zenon DEF FlushBatch
  <2> QED BY <1>2, <2>1
<1>4. \/ rq' = rq /\ que' = [que EXCEPT ![t] = que[t]]
      \/ \E p, keep : rq' = Finalized(r, p, keep) /\ que' = [que EXCEPT ![t] = CompletedQueue(que[t], r, p)]
  BY <1>3 DEF StartRead, Enqueue, ReadReady
<1> QED BY <1>1, <1>4, MetOnce

LEMMA HandlePendingOnce == ASSUME IInv, NEW t \in Thread, HandlePending(t) PROVE CompletesOnce
<1>1. TypeOK /\ que[t] \in QueRec /\ que[t].pend \in Seq(Frame \X Req) /\ que[t].pend # <<>>
  <2>1. que[t].pend # <<>>
    BY Zenon DEF HandlePending
  <2> QED BY <2>1, Parts, Records
<1>2. Head(que[t].pend) \in Frame \X Req /\ Tail(que[t].pend) \in Seq(Frame \X Req)
  BY <1>1, SeqTail
<1>3. PICK r \in Req : r = Head(que[t].pend)[2]
  BY <1>2
<1>4. PICK q : q = [que[t] EXCEPT !.pend = Tail(que[t].pend)]
  OBVIOUS
<1>5. q \in QueRec /\ q.comp = que[t].comp /\ q.cached = que[t].cached
  BY <1>1, <1>2, <1>4, QueuePend
<1>6. \E f : Write(t, f, r, q) \/ Read(t, f, r, q)
  <2>1. \E f : \/ Write(t, f, Head(que[t].pend)[2], [que[t] EXCEPT !.pend = Tail(@)])
               \/ Read(t, f, Head(que[t].pend)[2], [que[t] EXCEPT !.pend = Tail(@)])
    BY Zenon DEF HandlePending
  <2> QED BY <1>3, <1>4, <2>1
<1> QED BY <1>5, <1>6, ServeState

\* The application hears of a request once, when every page of it has been served
\* (finalize_partial_request, process_cached_reqs, process_completed_requests).
THEOREM CacheCompletedOnce == Spec => CompletedOnce
<1>1. ASSUME IInv, [Next]_vars PROVE CompletesOnce
  <2>0. TypeOK
    BY <1>1, Parts
  <2>1. rq' = rq /\ que' = que => CompletesOnce
    BY <2>0, SameGrows, NoneCompleted DEF StatesKept
  <2>2. CASE UNCHANGED vars
    BY <2>1, <2>2 DEF vars
  <2>3. CASE \E io \in flight : Serve(io)
    BY <1>1, <2>3, ServeOnce
  <2>4. ASSUME NEW t \in Thread, Application(t) PROVE CompletesOnce
    <3>1. CASE Wait4Complete(t)
      BY <2>1, <3>1 DEF Wait4Complete
    <3>2. CASE \E r \in Req : Access(t, r)
      BY <1>1, <3>2, AccessState
    <3> QED BY <2>4, <3>1, <3>2 DEF Application
  <2>5. ASSUME NEW t \in Thread, ProcessUserReq(t) PROVE CompletesOnce
    <3>1. CASE SearchHit(t) \/ SearchMiss(t) \/ SearchNull(t)
      <4>1. rq' = rq /\ que' = que
        BY <3>1, Zenon DEF SearchHit, SearchMiss, SearchNull
      <4> QED BY <2>1, <4>1
    <3>2. CASE WriteDirtyPage(t) \/ MergeForward(t) \/ MergeBackward(t) \/ WaitOldDirty(t) \/ UseRead(t)
      <4>1. rq' = rq /\ que' = que
        BY <3>2, Zenon DEF WriteDirtyPage, MergeForward, MergeBackward, WaitOldDirty, UseRead
      <4> QED BY <2>1, <4>1
    <3>3. CASE UseWrite(t)
      <4>1. th[t].pc = "use" /\ Write(t, th[t].cur, th[t].proc, que[t])
        BY <3>3, Zenon DEF UseWrite
      <4>2. th[t].proc \in Req /\ que[t] \in QueRec
        BY <1>1, <2>0, <4>1, HasPage, Records
      <4> QED BY <1>1, <4>1, <4>2, ServeState
    <3>4. CASE Classify(t)
      BY <1>1, <3>4, ClassifyOnce
    <3>5. CASE FlushBatch(t)
      BY <1>1, <3>5, FlushBatchOnce
    <3>6. CASE Return(t)
      BY <1>1, <3>6, ReturnState
    <3> QED BY <2>5, <3>1, <3>2, <3>3, <3>4, <3>5, <3>6 DEF ProcessUserReq
  <2>6. ASSUME NEW t \in Thread, ProcessAllRequests(t) PROVE CompletesOnce
    <3>1. CASE NextPhase(t) \/ Wake(t)
      <4>1. rq' = rq /\ que' = que
        BY <3>1, Zenon DEF NextPhase, Wake
      <4> QED BY <2>1, <4>1
    <3>2. CASE DiskCompletion(t)
      BY <1>1, <3>2, DiskCompletionOnce
    <3>3. CASE HandlePending(t)
      BY <1>1, <3>3, HandlePendingOnce
    <3>4. CASE CachedReq(t) \/ CompletedReq(t)
      BY <1>1, <3>4, CachedState, CompletedState
    <3> QED BY <2>6, <3>1, <3>2, <3>3, <3>4 DEF ProcessAllRequests
  <2> QED BY <1>1, <2>2, <2>3, <2>4, <2>5, <2>6 DEF Next
<1>2. IInv /\ [Next]_vars => CompletesOnce
  BY <1>1
<1>3. CompletesOnce => [\A r \in Req :
          /\ \A t \in Thread : Notified(t, r) =>
                /\ rq[r].st = "taken" /\ rq[r].io = t
                /\ rq'[r].st = "done" /\ rq'[r].done = PagesOf(r)
          /\ rq'[r].st # rq[r].st =>
                /\ rq[r].st # "done"
                /\ rq'[r].st = "done" => \E t \in Thread : Notified(t, r)]_vars
  BY DEF CompletesOnce
<1> QED BY <1>2, <1>3, CacheInvariant, PTL DEF Spec, CompletedOnce

===============================================================================
