------------------------------ MODULE GlobalCache ------------------------------
(***************************************************************************)
(* The page cache of SAFS as its I/O instances use it                      *)
(* (libsafs/global_cached_private.cpp on top of one hash cell of           *)
(* libsafs/associative_cache.cpp).  Every thread owns one global_cached_io *)
(* and serves the requests of its application; all threads share the       *)
(* frames of the cell.  One action is one critical section: a search under *)
(* the cell's lock, a look at a page under the page's lock, a transfer of  *)
(* the disk.  Which unreferenced frame a search evicts is left open here   *)
(* (the policies have modules of their own).                               *)
(***************************************************************************)
EXTENDS Naturals, Sequences, FiniteSets, SequencesExt

CONSTANTS
    Thread,       \* the threads, one global_cached_io each
    Frame,        \* the page frames (thread_safe_page) of the hash cell
    Req,          \* identities of the requests the applications issue
    NumPages,     \* pages of all files together
    FilePages,    \* pages of one file
    BlockPages,   \* get_block_size(): pages of a RAID block
    MaxSpan,      \* bound: the most pages one request covers
    MaxPending,   \* get_max_num_pending_ios()
    MaxUnderlying,\* the limit on num_underlying_pages (1000 in the code)
    MaxGoal,      \* bound: the most completions wait4complete waits for
    Ops,          \* the operations the applications use
    LargeWrite,   \* params.is_cache_large_write()
    Voter,        \* the cell is one of those in which the APR policy samples
    None

ASSUME ConstantsAssumption ==
    /\ NumPages \in Nat \ {0} /\ FilePages \in Nat \ {0}
    /\ BlockPages \in Nat \ {0} /\ FilePages % BlockPages = 0
    /\ MaxSpan \in Nat \ {0} /\ MaxPending \in Nat \ {0}
    /\ MaxUnderlying \in Nat \ {0} /\ MaxGoal \in Nat \ {0} /\ LargeWrite \in BOOLEAN
    /\ Voter \in BOOLEAN
    /\ Ops \subseteq {"read", "compute", "write"}
    /\ IsFiniteSet(Req) /\ None \notin Thread \cup Frame \cup Req \cup (0 .. NumPages)

VARIABLES
    frame,    \* thread_safe_page: identity, flags, reference count, reqs list
    disk,     \* disk[p]: the copy of p on disk reflects every write to p
    raced,    \* history: pages fetched while their old copy awaited write-back
    flight,   \* requests the underlying I/O is working on
    que,      \* the queues of each global_cached_io
    th,       \* control state and locals of each thread
    rq        \* the requests of the applications

vars == <<frame, disk, raced, flight, que, th, rq>>

Page == 0 .. NumPages - 1
Offset(p) == p % FilePages
File(p) == p \div FilePages
Block(p) == p \div BlockPages

\* A request to the underlying I/O: what it does, the instance to notify, and
\* its buffers, each a frame with the page at whose location it is transferred.
IO == [op : {"read", "write"}, io : Thread, multi : BOOLEAN,
       bufs : SUBSET (Frame \X Page)]

FreeFrame == [id |-> None, ready |-> FALSE, pending |-> FALSE, dirty |-> FALSE,
              oldDirty |-> FALSE, ref |-> 0, reqs |-> <<>>,
              dataOf |-> None, fresh |-> FALSE]

IdleThread == [pc |-> "user", arg |-> None, poll |-> FALSE, goal |-> 0, act |-> FALSE,
               proc |-> None, nxt |-> 0, cur |-> None, old |-> None, batch |-> <<>>,
               cont |-> "loop", out |-> {}, mp |-> 0, acc |-> <<>>]

NewReq == [st |-> "new", op |-> "read", io |-> None, first |-> 0, last |-> 0,
           whole |-> {}, done |-> {}, held |-> {}]

Init ==
    /\ frame = [f \in Frame |-> FreeFrame]
    /\ disk = [p \in Page |-> TRUE]
    /\ raced = {}
    /\ flight = {}
    /\ que = [t \in Thread |-> [disk |-> <<>>, pend |-> <<>>, cached |-> <<>>,
                                comp |-> <<>>, user |-> <<>>]]
    /\ th = [t \in Thread |-> IdleThread]
    /\ rq = [r \in Req |-> NewReq]

-----------------------------------------------------------------------------
(* Helpers *)

PagesOf(r) == rq[r].first .. rq[r].last

FramesOf(p) == {f \in Frame : frame[f].id = p}
WithinOnePage(r) == rq[r].first = rq[r].last

\* Requests of t handed to the underlying I/O and not yet processed by t:
\* num_to_underlying - num_from_underlying, and the pages they cover.
Underlying(t) == {io \in flight : io.io = t} \cup ToSet(que[t].disk)
UnderlyingPages(t) == UNION {io.bufs : io \in Underlying(t)}
\* num_processed_areqs - num_completed_areqs
Processed(t) == {r \in Req : rq[r].io = t /\ rq[r].st = "taken"}

\* The frames after a write to page p in frame f: every other copy of p in
\* memory misses the write, and so does the copy on disk.
Written(fr, f, p, whole) ==
    [g \in Frame |->
        IF g = f THEN [fr[f] EXCEPT !.dirty = TRUE, !.dataOf = p,
                                    !.fresh = whole \/ (@ /\ fr[f].dataOf = p)]
        ELSE IF fr[g].dataOf = p THEN [fr[g] EXCEPT !.fresh = FALSE] ELSE fr[g]]

\* p->add_req(): the list of a page grows at its head.
AddReq(pg, r) == [pg EXCEPT !.reqs = <<r>> \o @]

\* Mutant: the flag that ends thread::wait() is not set.
NotActivated(me) == me
\* thread::activate()
Activated(me) == [me EXCEPT !.act = TRUE]

\* Start processing request r (processing_req.init).
Start(me, r) == [me EXCEPT !.proc = r, !.nxt = rq[r].first, !.arg = None, !.pc = "search"]

\* The head of the loop of process_user_req: search the next page of the
\* request, or leave; on leaving, the collected pages are read first.
Loop(me) ==
    IF me.nxt <= rq[me.proc].last THEN [me EXCEPT !.pc = "search", !.cur = None]
    ELSE [me EXCEPT !.pc = IF me.batch = <<>> THEN "ret" ELSE "flush",
                    !.cont = "ret", !.cur = None, !.proc = IF me.batch = <<>> THEN None ELSE @]

\* The end of read(): where process_user_req continues.
AfterFlush(me) ==
    CASE me.cont = "old"  -> [me EXCEPT !.pc = "old"]
      [] me.cont = "loop" -> Loop(me)
      [] me.cont = "null" -> [me EXCEPT !.pc = "ret"]
      [] me.cont = "ret"  -> [me EXCEPT !.pc = "ret", !.proc = None]

-----------------------------------------------------------------------------
(* What is done to a page for a request, under the lock of the page.  Each    *)
(* of the three actions says what becomes of the frames, the disk copies, the *)
(* requests, the queue of completed requests and the underlying I/O; the      *)
(* caller adds the control state `me' of its thread and its other queues.     *)

Send(io) == flight' = flight \cup {io}

\* finalize_partial_request: one page of r is served; r is queued as completed
\* when all its pages are.
Finalized(r, p, keep) ==
    [rq EXCEPT ![r].done = @ \cup {p}, ![r].held = @ \cup keep]
\* Mutant: the request is queued here and once more by the caller.
QueuedTwice(q, r, p) ==
    IF rq[r].done \cup {p} = PagesOf(r) THEN [q EXCEPT !.comp = @ \o <<r, r>>] ELSE q
CompletedQueue(q, r, p) ==
    IF rq[r].done \cup {p} = PagesOf(r) THEN [q EXCEPT !.comp = Append(@, r)] ELSE q

\* complete_req of a read: the data is copied, or, for a user computation, the
\* request keeps a reference to the page; then the caller's reference goes.
ReadReady(t, f, r, q) ==
    LET p == frame[f].id
        keep == IF rq[r].op = "compute" THEN {f} ELSE {}
    IN  /\ frame' = [frame EXCEPT ![f].ref = IF keep = {} THEN @ - 1 ELSE @]
        /\ rq' = Finalized(r, p, keep)
        /\ que' = [que EXCEPT ![t] = CompletedQueue(q, r, p)]
        /\ UNCHANGED <<disk, raced>>

\* The write of r is copied into the page, and the reference goes.
WriteReady(t, f, r, q) ==
    LET p == frame[f].id
        w == Written([frame EXCEPT ![f].ready = TRUE, ![f].ref = @ - 1], f, p,
                     p \in rq[r].whole)
    IN  /\ frame' = w
        /\ disk' = [disk EXCEPT ![p] = FALSE]
        /\ rq' = Finalized(r, p, {})
        /\ que' = [que EXCEPT ![t] = CompletedQueue(q, r, p)]
        /\ UNCHANGED <<raced, flight>>

Enqueue(t, f, r, q) ==
    /\ frame' = [frame EXCEPT ![f] = AddReq(@, r)]
    /\ que' = [que EXCEPT ![t] = q]
    /\ UNCHANGED <<disk, raced, rq>>

StartRead(t, f, r, q) ==
    /\ frame' = [frame EXCEPT ![f] = AddReq([@ EXCEPT !.pending = TRUE], r)]
    /\ que' = [que EXCEPT ![t] = q]
    /\ UNCHANGED <<disk, raced, rq>>

Request(t, op, bufs) == [op |-> op, io |-> t, multi |-> Cardinality(bufs) > 1, bufs |-> bufs]
ReadIO(t, f) == Request(t, "read", {<<f, frame[f].id>>})

\* __write: a page written in part is read first, at ROUND_PAGE of the offset
\* of the whole request.
Write(t, f, r, q) ==
    LET pg == frame[f]
    IN  \/ /\ ~pg.ready /\ ~pg.pending /\ pg.id \notin rq[r].whole
           /\ StartRead(t, f, r, q)
           /\ Send(Request(t, "read", {<<f, rq[r].first>>}))
        \/ /\ ~pg.ready /\ pg.pending
           /\ Enqueue(t, f, r, q)
           /\ UNCHANGED flight
        \/ /\ pg.ready \/ (~pg.pending /\ pg.id \in rq[r].whole)
           /\ WriteReady(t, f, r, q)

\* __read
Read(t, f, r, q) ==
    LET pg == frame[f]
    IN  \/ /\ ~pg.ready /\ ~pg.pending
           /\ StartRead(t, f, r, q)
           /\ Send(ReadIO(t, f))
        \/ /\ ~pg.ready /\ pg.pending
           /\ Enqueue(t, f, r, q)
           /\ UNCHANGED flight
        \/ /\ pg.ready
           /\ ReadReady(t, f, r, q)
           /\ UNCHANGED flight

-----------------------------------------------------------------------------
(* The application *)

\* access() with one asynchronous request: a request left unfinished by an
\* earlier call comes first; the new one waits in user_requests if that one is
\* still unfinished afterwards.
Access(t, r) ==
    /\ th[t].pc = "user"
    /\ rq[r].st = "new"
    /\ \E op \in Ops, p \in Page, n \in 0 .. MaxSpan - 1 :
        /\ p + n \in Page /\ File(p) = File(p + n)
        /\ \E whole \in IF op = "write"
                        THEN {w \in SUBSET (p .. p + n) : (p + 1) .. (p + n - 1) \subseteq w}
                        ELSE {{}} :
              rq' = [rq EXCEPT ![r] = [NewReq EXCEPT !.st = IF th[t].proc = None THEN "taken" ELSE "queued",
                                       !.op = op, !.io = t, !.first = p, !.last = p + n, !.whole = whole]]
        /\ th' = [th EXCEPT ![t] =
                    IF @.proc = None
                    THEN [@ EXCEPT !.proc = r, !.nxt = p, !.pc = "search", !.poll = FALSE]
                    ELSE [@ EXCEPT !.arg = r, !.pc = "search", !.poll = FALSE]]
    /\ UNCHANGED <<frame, disk, raced, flight, que>>

\* wait4complete(n): process_all_requests until n more requests completed.
Wait4Complete(t) ==
    LET pending == {r \in Req : rq[r].io = t /\ rq[r].st \in {"taken", "queued"}}
    IN  /\ th[t].pc = "user" /\ th[t].goal = 0
        /\ \E n \in 1 .. Min({MaxGoal, Cardinality(pending)}) :
              th' = [th EXCEPT ![t].pc = "disk", ![t].goal = n]
        /\ UNCHANGED <<frame, disk, raced, flight, que, rq>>

\* thread::wait() returns once the thread has been activated.
Wake(t) ==
    /\ th[t].pc = "wait" /\ th[t].act
    /\ th' = [th EXCEPT ![t].pc = "disk", ![t].act = FALSE]
    /\ UNCHANGED <<frame, disk, raced, flight, que, rq>>

-----------------------------------------------------------------------------
(* process_user_req *)

\* associative_cache::search finds the page.
SearchHit(t) ==
    LET me == th[t]
    IN  /\ me.pc = "search"
        /\ \E f \in FramesOf(me.nxt) :
              /\ frame' = [frame EXCEPT ![f].ref = @ + 1]
              /\ th' = [th EXCEPT ![t] = [me EXCEPT !.cur = f, !.old = None,
                                                    !.nxt = @ + 1, !.pc = "got"]]
        /\ UNCHANGED <<disk, raced, flight, que, rq>>

\* The eviction policies skip a page that is referenced.
Evictable(f) == frame[f].ref = 0

\* Mutant: the dirty data are dropped.
EvictedClean(f, p) == [frame[f] EXCEPT !.id = p, !.ready = FALSE, !.ref = 1, !.dirty = FALSE]
\* The frame after hash_cell::search gave it to page p: what was dirty is now
\* old dirty.
Evicted(f, p) ==
    [frame[f] EXCEPT !.id = p, !.ready = FALSE, !.ref = 1,
                     !.oldDirty = @ \/ frame[f].dirty,
                     !.dirty = @ /\ frame[f].oldDirty]

\* The votes of the APR policy, once every frame has been used: both voters clear
\* data_ready of their victim, so the victim that is not taken, if any, loses its
\* data too.  A voter takes a dirty page when it finds no clean one.
Candidates == {g \in Frame : Evictable(g) /\ (frame[g].dirty =>
                                \A h \in Frame : Evictable(h) => frame[h].dirty)}
Losers == {{}} \cup (IF Voter /\ FramesOf(None) = {} THEN {{g} : g \in Candidates} ELSE {})
Unready(fr, L) == [g \in Frame |-> IF g \in L THEN [fr[g] EXCEPT !.ready = FALSE] ELSE fr[g]]

\* ... or evicts an unreferenced page for it: the frame changes its identity
\* under the lock of the cell and the caller learns the old one.
SearchMiss(t) ==
    LET me == th[t]
        p  == me.nxt
    IN  /\ me.pc = "search"
        /\ FramesOf(p) = {}
        /\ \E f \in Frame, L \in Losers :
              /\ Evictable(f) /\ f \notin L
              /\ frame' = [Unready(frame, L) EXCEPT ![f] = Evicted(f, p)]
              /\ th' = [th EXCEPT ![t] = [me EXCEPT !.cur = f,
                            !.old = IF frame[f].id = None THEN NumPages ELSE frame[f].id,
                            !.nxt = @ + 1, !.pc = "got"]]
        /\ raced' = IF \E f \in Frame : frame[f].oldDirty /\ frame[f].dataOf = p
                    THEN raced \cup {p} ELSE raced
        /\ UNCHANGED <<disk, flight, que, rq>>

\* ... or finds no page to evict: the request stays unfinished, and the pages
\* collected for reading are read.
SearchNull(t) ==
    LET me == th[t]
    IN  /\ me.pc = "search"
        /\ FramesOf(me.nxt) = {}
        /\ \E L \in Losers : frame' = Unready(frame, L)
        /\ th' = [th EXCEPT ![t] = IF me.batch = <<>> THEN [me EXCEPT !.pc = "ret"]
                                   ELSE [me EXCEPT !.pc = "flush", !.cont = "null"]]
        /\ UNCHANGED <<disk, raced, flight, que, rq>>

\* The flags of the page are read without its lock: a hit on a ready page by a
\* request within one page takes the fast path, an old dirty page is written
\* back first.  (While the thread holds its reference a page only becomes ready
\* and only stops being old dirty, and both flags are read again under the lock.)
Classify(t) ==
    LET me == th[t]
        pg == frame[me.cur]
    IN  /\ me.pc = "got"
        /\ IF me.old = None /\ WithinOnePage(me.proc) /\ pg.ready
           THEN /\ que' = [que EXCEPT ![t].cached = Append(@, <<me.cur, me.proc>>)]
                /\ th' = [th EXCEPT ![t] = [me EXCEPT !.proc = None, !.cur = None, !.pc = "ret"]]
           ELSE /\ th' = [th EXCEPT ![t] =
                      IF ~pg.oldDirty THEN [me EXCEPT !.pc = "use"]
                      ELSE IF me.batch = <<>> THEN [me EXCEPT !.pc = "old"]
                      ELSE [me EXCEPT !.pc = "flush", !.cont = "old"]]
                /\ UNCHANGED que
        /\ UNCHANGED <<frame, disk, raced, flight, rq>>

\* Mutant: the old data go to the location of the new page.
WriteBackToNew(t) == Request(t, "write", {<<th[t].cur, frame[th[t].cur].id>>})
\* The write of the old dirty data, at the location of the evicted page.
WriteBackIO(t) == Request(t, "write", {<<th[t].cur, th[t].old>>})

\* A write of the page begins: it holds a reference to the page until it is done.
Writing(pg) == [pg EXCEPT !.pending = TRUE, !.ref = @ + 1]

\* write_dirty_page by the thread that evicted the page, up to the merging of
\* adjacent dirty pages (merge_pages2req).
WriteDirtyPage(t) ==
    LET me == th[t]
        io == WriteBackIO(t)
    IN  /\ me.pc = "old" /\ me.old # None
        /\ frame' = [frame EXCEPT ![me.cur] = AddReq(Writing(@), me.proc)]
        /\ IF LargeWrite
           THEN /\ th' = [th EXCEPT ![t] = [me EXCEPT !.pc = "mergeF", !.out = io.bufs,
                                                      !.mp = me.old + 1, !.cur = None]]
                /\ UNCHANGED flight
           ELSE /\ Send(io)
                /\ th' = [th EXCEPT ![t] = Loop(me)]
        /\ UNCHANGED <<disk, raced, que, rq>>

\* The dirty page with identity p that merge_pages2req adds to the write, if any.
Mergeable(p, blk) ==
    {f \in FramesOf(p) : p \in Page /\ Block(p) = blk /\ frame[f].dirty /\ ~frame[f].pending}

Merged(f) == [frame EXCEPT ![f] = Writing(@)]

MergeForward(t) ==
    LET me == th[t]
        m  == Mergeable(me.mp, Block(me.old))
    IN  /\ me.pc = "mergeF"
        /\ \/ \E f \in m :
                /\ frame' = Merged(f)
                /\ th' = [th EXCEPT ![t] = [me EXCEPT !.out = @ \cup {<<f, me.mp>>}, !.mp = me.mp + 1]]
           \/ /\ m = {}
              /\ th' = [th EXCEPT ![t] = [me EXCEPT !.pc = "mergeB", !.mp = me.old]]
              /\ UNCHANGED frame
        /\ UNCHANGED <<disk, raced, flight, que, rq>>

\* Backwards from the page before mp; then the write is sent.
MergeBackward(t) ==
    LET me == th[t]
        m  == IF me.mp = 0 THEN {} ELSE Mergeable(me.mp - 1, Block(me.old))
    IN  /\ me.pc = "mergeB"
        /\ \/ \E f \in m :
                /\ frame' = Merged(f)
                /\ th' = [th EXCEPT ![t] = [me EXCEPT !.out = @ \cup {<<f, me.mp - 1>>}, !.mp = me.mp - 1]]
                /\ UNCHANGED flight
           \/ /\ m = {}
              /\ Send(Request(t, "write", me.out))
              /\ th' = [th EXCEPT ![t] = Loop([me EXCEPT !.out = {}])]
              /\ UNCHANGED frame
        /\ UNCHANGED <<disk, raced, que, rq>>

\* Mutant: the flag is not read again under the lock of the page.
WaitUnchecked(t) ==
    LET me == th[t]
    IN  /\ me.pc = "old" /\ me.old = None
        /\ frame' = [frame EXCEPT ![me.cur] = AddReq(@, me.proc)]
        /\ th' = [th EXCEPT ![t] = Loop(me)]
        /\ UNCHANGED <<disk, raced, flight, que, rq>>
\* Another thread evicted the page: wait for its write-back, unless that has
\* finished since the flag was read.
WaitOldDirty(t) ==
    LET me == th[t]
    IN  /\ me.pc = "old" /\ me.old = None
        /\ IF frame[me.cur].oldDirty
           THEN /\ frame' = [frame EXCEPT ![me.cur] = AddReq(@, me.proc)]
                /\ th' = [th EXCEPT ![t] = Loop(me)]
           ELSE /\ th' = [th EXCEPT ![t].pc = "use"]
                /\ UNCHANGED frame
        /\ UNCHANGED <<disk, raced, flight, que, rq>>

\* Writes go to the page at once; pages to read are collected up to the end of
\* their RAID block.
UseWrite(t) ==
    LET me == th[t]
    IN  /\ me.pc = "use" /\ rq[me.proc].op = "write"
        /\ Write(t, me.cur, me.proc, que[t])
        /\ th' = [th EXCEPT ![t] = Loop(me)]

UseRead(t) ==
    LET me == [th[t] EXCEPT !.batch = Append(@, th[t].cur)]
    IN  /\ me.pc = "use" /\ rq[me.proc].op # "write"
        /\ th' = [th EXCEPT ![t] =
                    IF Offset(me.nxt - 1) % BlockPages = BlockPages - 1
                    THEN [me EXCEPT !.pc = "flush", !.cont = "loop", !.cur = None] ELSE Loop(me)]
        /\ UNCHANGED <<frame, disk, raced, flight, que, rq>>

\* read(), one page of the batch: a page that needs reading joins the
\* multi-page request, any other page ends it.
FlushBatch(t) ==
    LET me   == th[t]
        f    == Head(me.batch)
        pg   == frame[f]
        rest == [me EXCEPT !.batch = Tail(@)]
        join == me.out \cup {<<f, pg.id>>}
        need == ~pg.ready /\ ~pg.pending
        out  == IF need THEN join ELSE me.out
        send == out # {} /\ (~need \/ rest.batch = <<>>)
        then == [rest EXCEPT !.out = IF send THEN {} ELSE out]
    IN  /\ me.pc = "flush"
        /\ \/ need /\ StartRead(t, f, me.proc, que[t])
           \/ ~pg.ready /\ pg.pending /\ Enqueue(t, f, me.proc, que[t])
           \/ pg.ready /\ ReadReady(t, f, me.proc, que[t])
        /\ IF send THEN Send(Request(t, "read", out)) ELSE UNCHANGED flight
        /\ th' = [th EXCEPT ![t] = IF rest.batch = <<>> THEN AfterFlush(then) ELSE then]

\* Back in the caller of process_user_req: access() or process_user_reqs().  At
\* the end of process_all_requests, wait4complete returns, sleeps in
\* thread::wait() while the underlying I/O has requests, or goes round again.
Return(t) ==
    LET me == th[t]
        q  == que[t]
        take == /\ me.proc = None /\ q.user # <<>>
                /\ Cardinality(Processed(t)) < MaxPending
                /\ Cardinality(UnderlyingPages(t)) < MaxUnderlying
    IN  /\ me.pc = "ret"
        /\ \/ /\ ~me.poll /\ me.arg = None
              /\ th' = [th EXCEPT ![t].pc = "user"]
              /\ UNCHANGED <<que, rq>>
           \/ /\ ~me.poll /\ me.arg # None /\ me.proc = None
              /\ th' = [th EXCEPT ![t] = Start(me, me.arg)]
              /\ rq' = [rq EXCEPT ![me.arg].st = "taken"]
              /\ UNCHANGED que
           \/ /\ ~me.poll /\ me.arg # None /\ me.proc # None
              /\ th' = [th EXCEPT ![t].pc = "user", ![t].arg = None]
              /\ que' = [que EXCEPT ![t].user = Append(@, me.arg)]
              /\ UNCHANGED rq
           \/ /\ me.poll /\ take
              /\ th' = [th EXCEPT ![t] = Start(me, Head(q.user))]
              /\ que' = [que EXCEPT ![t].user = Tail(@)]
              /\ rq' = [rq EXCEPT ![Head(q.user)].st = "taken"]
           \/ /\ me.poll /\ ~take
              /\ th' = [th EXCEPT ![t].pc = IF q.cached # <<>> \/ q.comp # <<>> THEN "cached"
                                            ELSE IF me.goal = 0 THEN "user"
                                            ELSE IF Underlying(t) # {} THEN "wait" ELSE "disk"]
              /\ UNCHANGED <<que, rq>>
        /\ UNCHANGED <<frame, disk, raced, flight>>

-----------------------------------------------------------------------------
(* process_all_requests *)

\* queue_requests: every request in the lists of the pages goes to the I/O
\* instance it came from, the heads of the lists first, and wakes its thread.
\* A place <<i, j>> is request j in the list of page i.
Places(acc) == UNION {{i} \X (1 .. Len(acc[i][2])) : i \in 1 .. Len(acc)}
PairAt(acc, x) == <<acc[x[1]][1], acc[x[1]][2][x[2]]>>
Before(x, y) ==
    \/ x[2] = 1 /\ y[2] # 1
    \/ /\ x[2] = 1 <=> y[2] = 1
       /\ x[1] < y[1] \/ (x[1] = y[1] /\ x[2] < y[2])
ForThread(t, acc) ==
    LET mine == {x \in Places(acc) : rq[PairAt(acc, x)[2]].io = t}
    IN  [k \in 1 .. Cardinality(mine) |->
            PairAt(acc, CHOOSE x \in mine : Cardinality({y \in mine : Before(y, x)}) = k - 1)]

\* Mutants of the completion of a page: it drops a reference after a read too;
\* none after a write-back; the I/O stays pending; the page stays old dirty;
\* a read leaves the page not ready.
PutAlways(pg, io) == [pg EXCEPT !.pending = FALSE, !.reqs = <<>>, !.ready = @ \/ io.op = "read",
                                !.oldDirty = @ /\ io.op = "read", !.ref = @ - 1]
PutNever(pg, io) == [pg EXCEPT !.pending = FALSE, !.reqs = <<>>, !.ready = @ \/ io.op = "read",
                               !.oldDirty = @ /\ io.op = "read"]
StillPending(pg, io) == [pg EXCEPT !.reqs = <<>>, !.ready = @ \/ io.op = "read",
                                   !.oldDirty = @ /\ io.op = "read",
                                   !.ref = IF io.op = "write" THEN @ - 1 ELSE @]
StillOld(pg, io) == [pg EXCEPT !.pending = FALSE, !.reqs = <<>>, !.ready = @ \/ io.op = "read",
                               !.ref = IF io.op = "write" THEN @ - 1 ELSE @]
NotReady(pg, io) == [pg EXCEPT !.pending = FALSE, !.reqs = <<>>, !.oldDirty = @ /\ io.op = "read",
                               !.ref = IF io.op = "write" THEN @ - 1 ELSE @]
\* process_disk_completed_requests and multibuf_completion, one page at a
\* time in the order of the offsets.  A write of one page is the write-back of
\* an evicted page; a write of several also cleans the pages merged into it.
CompletedPage(pg, io) ==
    [pg EXCEPT !.pending = FALSE, !.reqs = <<>>,
               !.ready = @ \/ io.op = "read",
               !.dirty = @ /\ ~(io.op = "write" /\ io.multi),
               !.oldDirty = @ /\ io.op = "read",
               !.ref = IF io.op = "write" THEN @ - 1 ELSE @]

DiskCompletion(t) ==
    /\ th[t].pc = "disk" /\ que[t].disk # <<>>
    /\ LET io == Head(que[t].disk)
           b  == CHOOSE x \in io.bufs : \A c \in io.bufs : x[2] <= c[2]
           f  == b[1]
           left  == io.bufs \ {b}
           acc   == IF frame[f].reqs = <<>> THEN th[t].acc
                    ELSE Append(th[t].acc, <<f, frame[f].reqs>>)
           ready == IF left = {} THEN acc ELSE <<>>
       IN  /\ frame' = [frame EXCEPT ![f] = CompletedPage(@, io)]
           /\ que' = [u \in Thread |->
                 LET q == IF u # t THEN que[u] ELSE [que[t] EXCEPT !.disk =
                             (IF left = {} THEN <<>> ELSE <<[io EXCEPT !.bufs = left]>>) \o Tail(@)]
                 IN  [q EXCEPT !.pend = @ \o ForThread(u, ready)]]
           /\ th' = [u \in Thread |->
                 LET me == IF u # t THEN th[u]
                           ELSE [th[t] EXCEPT !.acc = IF left = {} THEN <<>> ELSE acc]
                 IN  IF ForThread(u, ready) = <<>> THEN me ELSE Activated(me)]
    /\ UNCHANGED <<disk, raced, flight, rq>>

\* handle_pending_requests: the request is tried again on its page.
HandlePending(t) ==
    /\ th[t].pc = "pend" /\ que[t].pend # <<>>
    /\ LET f == Head(que[t].pend)[1]
           r == Head(que[t].pend)[2]
           q == [que[t] EXCEPT !.pend = Tail(@)]
       IN  IF rq[r].op = "write" THEN Write(t, f, r, q) ELSE Read(t, f, r, q)
    /\ UNCHANGED th

\* process_cached_reqs: a request of the fast path is served from its page.
CachedReq(t) ==
    /\ th[t].pc = "cached" /\ que[t].cached # <<>>
    /\ LET f == Head(que[t].cached)[1]
           r == Head(que[t].cached)[2]
           p == frame[f].id
           put == [frame EXCEPT ![f].ref = @ - 1]
       IN  /\ IF rq[r].op = "write"
              THEN /\ frame' = Written(put, f, p, p \in rq[r].whole)
                   /\ disk' = [disk EXCEPT ![p] = FALSE]
              ELSE frame' = put /\ UNCHANGED disk
           /\ rq' = [rq EXCEPT ![r].done = {p}, ![r].st = "done"]
           /\ que' = [que EXCEPT ![t].cached = Tail(@)]
           /\ th' = [th EXCEPT ![t].goal = IF @ = 0 THEN 0 ELSE @ - 1]
    /\ UNCHANGED <<raced, flight>>

\* process_completed_requests: the callback of the application is invoked; a
\* user computation runs and gives back the pages it kept.
CompletedReq(t) ==
    /\ th[t].pc = "comp" /\ que[t].comp # <<>>
    /\ LET r == Head(que[t].comp)
       IN  /\ frame' = [f \in Frame |-> IF f \in rq[r].held
                                        THEN [frame[f] EXCEPT !.ref = @ - 1] ELSE frame[f]]
           /\ rq' = [rq EXCEPT ![r].st = "done", ![r].held = {}]
           /\ que' = [que EXCEPT ![t].comp = Tail(@)]
           /\ th' = [th EXCEPT ![t].goal = IF @ = 0 THEN 0 ELSE @ - 1]
    /\ UNCHANGED <<disk, raced, flight>>

\* The next phase of process_all_requests that has work, when a queue has been
\* drained; the last phase is process_user_reqs.
NextPhase(t) ==
    LET me == th[t]
        q  == que[t]
    IN  /\ \/ me.pc = "disk" /\ q.disk = <<>>
           \/ me.pc = "pend" /\ q.pend = <<>>
           \/ me.pc = "cached" /\ q.cached = <<>>
           \/ me.pc = "comp" /\ q.comp = <<>>
        /\ th' = [th EXCEPT ![t].poll = TRUE, ![t].pc =
                    IF @ = "disk" /\ q.pend # <<>> THEN "pend"
                    ELSE IF @ \in {"disk", "pend"} /\ q.cached # <<>> THEN "cached"
                    ELSE IF @ # "comp" /\ q.comp # <<>> THEN "comp"
                    ELSE IF me.proc = None THEN "ret" ELSE "search"]
        /\ UNCHANGED <<frame, disk, raced, flight, que, rq>>

-----------------------------------------------------------------------------
(* The underlying I/O: it serves its requests in any order and notifies the   *)
(* instance that sent them (notify_completion).                               *)

Serve(io) ==
    LET pageOf(f) == CHOOSE p \in Page : <<f, p>> \in io.bufs
        touched   == {b[1] : b \in io.bufs}
    IN  /\ flight' = flight \ {io}
        /\ que' = [que EXCEPT ![io.io].disk = Append(@, io)]
        /\ th' = [th EXCEPT ![io.io] = Activated(@)]
        /\ IF io.op = "read"
           THEN /\ frame' = [f \in Frame |-> IF f \in touched
                                THEN [frame[f] EXCEPT !.dataOf = pageOf(f), !.fresh = disk[pageOf(f)]]
                                ELSE frame[f]]
                /\ UNCHANGED disk
           ELSE /\ disk' = [p \in Page |-> IF \E b \in io.bufs : b[2] = p
                                THEN \E b \in io.bufs : b[2] = p /\ frame[b[1]].fresh
                                ELSE disk[p]]
                /\ UNCHANGED frame
        /\ UNCHANGED <<raced, rq>>

-----------------------------------------------------------------------------
ProcessUserReq(t) ==
    \/ SearchHit(t) \/ SearchMiss(t) \/ SearchNull(t)
    \/ Classify(t)
    \/ WriteDirtyPage(t) \/ MergeForward(t) \/ MergeBackward(t) \/ WaitOldDirty(t)
    \/ UseWrite(t) \/ UseRead(t) \/ FlushBatch(t) \/ Return(t)

ProcessAllRequests(t) ==
    \/ DiskCompletion(t) \/ HandlePending(t) \/ CachedReq(t) \/ CompletedReq(t)
    \/ NextPhase(t) \/ Wake(t)

Application(t) == Wait4Complete(t) \/ \E r \in Req : Access(t, r)

Next ==
    \/ \E t \in Thread : Application(t) \/ ProcessUserReq(t) \/ ProcessAllRequests(t)
    \/ \E io \in flight : Serve(io)

Spec == Init /\ [][Next]_vars

\* Threads keep running and wait for their requests before they stop
\* (global_cached_io::cleanup), the disk answers, and a search that can evict a
\* page again and again does: a policy that gave up has still aged the pages.
Fairness ==
    \A t \in Thread :
        /\ WF_vars(Wait4Complete(t))
        /\ WF_vars(ProcessUserReq(t) \/ ProcessAllRequests(t))
        /\ SF_vars(SearchMiss(t))
        /\ WF_vars(\E io \in flight : io.io = t /\ Serve(io))

FairSpec == Spec /\ Fairness

-----------------------------------------------------------------------------
(* Properties *)

\* Type invariant of the cache, its queues, its threads and its requests.
TypeOK ==
    /\ frame \in [Frame -> [id : Page \cup {None}, ready : BOOLEAN, pending : BOOLEAN,
                            dirty : BOOLEAN, oldDirty : BOOLEAN, ref : Nat,
                            reqs : Seq(Req), dataOf : Page \cup {None}, fresh : BOOLEAN]]
    /\ disk \in [Page -> BOOLEAN]
    /\ raced \subseteq Page
    /\ flight \subseteq IO
    /\ que \in [Thread -> [disk : Seq(IO), pend : Seq(Frame \X Req),
                           cached : Seq(Frame \X Req), comp : Seq(Req), user : Seq(Req)]]
    /\ th \in [Thread -> [pc : {"user", "search", "got", "old", "mergeF", "mergeB",
                                "use", "flush", "ret", "disk", "pend", "cached", "comp",
                                "wait"},
                          arg : Req \cup {None}, poll : BOOLEAN, goal : Nat, act : BOOLEAN,
                          proc : Req \cup {None}, nxt : 0 .. NumPages,
                          cur : Frame \cup {None}, old : 0 .. NumPages \cup {None},
                          batch : Seq(Frame), cont : {"loop", "old", "null", "ret"},
                          out : SUBSET (Frame \X Page), mp : 0 .. NumPages + 1,
                          acc : Seq(Frame \X Seq(Req))]]
    /\ rq \in [Req -> [st : {"new", "queued", "taken", "done"}, op : {"read", "compute", "write"},
                       io : Thread \cup {None}, first : Page, last : Page,
                       whole : SUBSET Page, done : SUBSET Page, held : SUBSET Frame]]

\* The requests to the underlying I/O that are being built, are being served,
\* or whose completion has not been processed.
Outstanding ==
    flight \cup (UNION {ToSet(que[t].disk) : t \in Thread})
           \cup {Request(t, IF th[t].pc = "flush" THEN "read" ELSE "write", th[t].out) : t \in Thread}
Covering(f) == {io \in Outstanding : \E b \in io.bufs : b[1] = f}

\* The requests that use frame f, wherever they are waiting.
Users(f) ==
    {r \in Req :
       \/ \E t \in Thread :
            \/ th[t].proc = r /\ (th[t].cur = f \/ f \in ToSet(th[t].batch))
            \/ <<f, r>> \in ToSet(que[t].pend) \cup ToSet(que[t].cached)
            \/ \E a \in ToSet(th[t].acc) : a[1] = f /\ r \in ToSet(a[2])
       \/ r \in ToSet(frame[f].reqs)
       \/ f \in rq[r].held}

\* "The reference count of a page should be the same as the number of original
\* I/O requests pending on the page", plus one while a write of the page is
\* outstanding (write_dirty_page): no path of the protocol leaks a reference
\* or gives one back twice.
RefAccounting ==
    \A f \in Frame :
        frame[f].ref = Cardinality(Users(f))
                       + Cardinality({io \in Covering(f) : io.op = "write"})

\* A page has an I/O pending exactly while one underlying request covers it:
\* two threads that find the same page not ready never both read it, and a
\* completion never leaves the mark behind (__read, __write, read,
\* write_dirty_page against process_disk_completed_requests).
PendingMeansOneIO ==
    \A f \in Frame : Cardinality(Covering(f)) = IF frame[f].pending THEN 1 ELSE 0

\* No request is stranded in the list of a page: an I/O whose completion will
\* hand the list back is outstanding, or the thread that evicted the page is
\* about to start it (the two-thread case described in process_user_req).
NoStrandedRequest ==
    \A f \in Frame : frame[f].reqs # <<>> =>
        \/ frame[f].pending
        \/ /\ frame[f].oldDirty
           /\ \E t \in Thread : /\ th[t].cur = f /\ th[t].old # None
                                /\ th[t].pc \in {"got", "old", "flush"}

\* The assertions the code makes on the flags, lists and references of a page where a request
\* meets it (process_disk_completed_requests, handle_pending_requests, __write, __read,
\* process_user_req, write_dirty_page, complete_range and hash_cell::search), and of the
\* assertion that a write-back does not overlap the request that triggered it
\* (write_dirty_page) the part that holds: it carries no data of the page the frame has been
\* given to, also when merge_pages2req adds pages.  It may carry other pages of a request of
\* several pages, with which that assertion fails (README, observations).
AssertionsHold ==
    /\ \A t \in Thread :
        /\ th[t].pc = "disk" /\ que[t].disk # <<>> =>
             LET io == Head(que[t].disk)
             IN  \A b \in io.bufs :
                   /\ frame[b[1]].pending
                   /\ io.op = "write" /\ ~io.multi => frame[b[1]].oldDirty /\ ~frame[b[1]].ready
        /\ \A x \in ToSet(que[t].pend) : ~frame[x[1]].oldDirty
        /\ th[t].pc = "use" => ~frame[th[t].cur].oldDirty
        /\ th[t].pc = "old" /\ th[t].old # None => ~frame[th[t].cur].pending
        /\ \A x \in ToSet(que[t].pend) : frame[x[1]].id \notin rq[x[2]].done
        /\ th[t].pc = "old" /\ th[t].old # None => th[t].old # th[t].nxt - 1
        /\ th[t].pc \in {"mergeF", "mergeB"} => \A b \in th[t].out : b[2] # th[t].nxt - 1
    /\ \A f \in Frame :
        /\ ~frame[f].ready /\ ~frame[f].pending => ~frame[f].dirty
        /\ ~frame[f].ready /\ ~frame[f].pending /\ ~frame[f].oldDirty => frame[f].reqs = <<>>
        /\ frame[f].ref = 0 => ~frame[f].pending

\* The bytes a write-back transfers to the location of a page are the bytes of
\* that page: a frame given to a new page keeps its old data until they are on
\* disk.
WriteBackCarriesItsPage ==
    \A io \in flight : io.op = "write" =>
        \A b \in io.bufs : frame[b[1]].dataOf = b[2]

\* No write is lost: while a page has not been fetched again during the
\* write-back of its evicted copy, some copy that is on disk or on its way
\* there reflects every write to it, and a cached copy served to readers does.
NoLostWrite ==
    \A p \in Page \ raced :
        /\ disk[p] \/ \E f \in Frame : /\ frame[f].dataOf = p /\ frame[f].fresh
                                       /\ frame[f].dirty \/ frame[f].oldDirty
        /\ \A f \in FramesOf(p) : frame[f].ready => frame[f].fresh

\* The application is told that r is complete: r leaves the queue of completed requests of
\* thread t (process_completed_requests) or that of cached ones (process_cached_reqs).
Notified(t, r) ==
    \/ /\ que[t].comp # <<>> /\ r = Head(que[t].comp)
       /\ Len(que'[t].comp) < Len(que[t].comp)
    \/ /\ que[t].cached # <<>> /\ r = Head(que[t].cached)[2]
       /\ Len(que'[t].cached) < Len(que[t].cached)

\* The application hears of a request once, when every page of it has been served: it is told
\* of requests that are under way only, which are done from then on and for ever, and a
\* request is done in no other way.
CompletedOnce ==
    [][\A r \in Req :
          /\ \A t \in Thread : Notified(t, r) =>
                /\ rq[r].st = "taken" /\ rq[r].io = t
                /\ rq'[r].st = "done" /\ rq'[r].done = PagesOf(r)
          /\ rq'[r].st # rq[r].st =>
                /\ rq[r].st # "done"
                /\ rq'[r].st = "done" => \E t \in Thread : Notified(t, r)]_vars

\* Every request an application issues is completed: "We have to make sure all
\* requests are completed" (global_cached_io::cleanup).
AllRequestsComplete ==
    \A r \in Req : rq[r].st \in {"queued", "taken"} ~> rq[r].st = "done"

-----------------------------------------------------------------------------
(* Statements of the source that do not hold in every configuration.          *)

\* assert(!p->is_dirty()) in __read, __write and read: a page that has to be
\* read from disk holds no data newer than the disk's.
ReadKeepsDirtyData ==
    \A t \in Thread :
        LET meets == {f \in Frame : th[t].pc = "use" /\ th[t].cur = f}
                     \cup ToSet(th[t].batch) \cup {x[1] : x \in ToSet(que[t].pend)}
        IN  \A f \in meets : ~frame[f].ready /\ ~frame[f].pending => ~frame[f].dirty

\* "We are going to write to part of a page, therefore, we need to first read the
\* page" (comment in __write): a read fills a frame with the page of the frame.
ReadsOwnPage ==
    \A io \in flight : io.op = "read" => \A b \in io.bufs : frame[b[1]].id = b[2]

-----------------------------------------------------------------------------
(* The protocol of the pages that the cache implements (PageProtocol): the    *)
(* users of a frame are the requests found with it anywhere in the queues and *)
(* threads, and its I/O is the one outstanding request that covers it.        *)

EvictorOf(f) ==
    {th[t].proc : t \in {u \in Thread : /\ th[u].cur = f /\ th[u].old # None
                                        /\ frame[f].oldDirty /\ ~frame[f].pending}}

Protocol == INSTANCE PageProtocol WITH
    id       <- [f \in Frame |-> frame[f].id],
    ready    <- [f \in Frame |-> frame[f].ready],
    dirty    <- [f \in Frame |-> frame[f].dirty],
    oldDirty <- [f \in Frame |-> frame[f].oldDirty],
    io       <- [f \in Frame |-> IF Covering(f) = {} THEN "none"
                                 ELSE (CHOOSE x \in Covering(f) : TRUE).op],
    users    <- [f \in Frame |-> Users(f)],
    waiting  <- [f \in Frame |-> ToSet(frame[f].reqs)],
    evictor  <- [f \in Frame |-> IF EvictorOf(f) = {} THEN None
                                 ELSE CHOOSE r \in EvictorOf(f) : TRUE]

\* The cache implements the page protocol: every critical section of every
\* thread is a step of it or leaves the pages alone.
ImplementsPageProtocol == Protocol!Spec

================================================================================
