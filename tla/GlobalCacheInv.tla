---------------------------- MODULE GlobalCacheInv ----------------------------
(***************************************************************************)
(* The inductive invariant of the page cache, for every number of threads, *)
(* frames, pages and requests, with and without large writes and voting    *)
(* cells, and that the steps of the application, the searches, the         *)
(* eviction and the write-back of old pages keep it.                       *)
(***************************************************************************)
EXTENDS GlobalCache, FiniteSetTheorems, SequenceTheorems, WellFoundedInduction, TLAPS

-------------------------------------------------------------------------------
(* Sequences                                                               *)

\* A sequence and the set of its elements.
LEMMA SeqSet == ASSUME NEW S, NEW s \in Seq(S)
                PROVE /\ Len(s) \in Nat /\ DOMAIN s = 1 .. Len(s) /\ ToSet(s) \subseteq S
                      /\ \A x : x \in ToSet(s) <=> \E i \in 1 .. Len(s) : s[i] = x
                      /\ ToSet(s) = {} <=> s = <<>>
<1>1. Len(s) \in Nat /\ DOMAIN s = 1 .. Len(s) /\ \A i \in 1 .. Len(s) : s[i] \in S
  BY LenProperties, ElementOfSeq
<1>2. s = <<>> <=> Len(s) = 0
  BY EmptySeq, LenProperties
<1>3. \A x : x \in ToSet(s) <=> \E i \in 1 .. Len(s) : s[i] = x
  BY <1>1 DEF ToSet
<1>4. ToSet(s) = {} <=> Len(s) = 0
  <2>1. ASSUME Len(s) # 0 PROVE s[1] \in ToSet(s)
    <3>1. 1 \in 1 .. Len(s)
      BY <1>1, <2>1
    <3> QED BY <1>3, <3>1
  <2>2. ASSUME Len(s) = 0 PROVE ToSet(s) = {}
    <3>1. ~ \E i \in 1 .. Len(s) : TRUE
      BY <2>2
    <3> QED BY <1>3, <3>1
  <2> QED BY <2>1, <2>2
<1> QED BY <1>1, <1>2, <1>3, <1>4

\* The empty sequence.
LEMMA EmptySet == ToSet(<<>>) = {} /\ IsInjective(<<>>)
BY DEF ToSet, IsInjective

\* One element more, at the end.
LEMMA SeqAppend == ASSUME NEW S, NEW s \in Seq(S), NEW x \in S
                   PROVE /\ Append(s, x) \in Seq(S) /\ ToSet(Append(s, x)) = ToSet(s) \cup {x}
                         /\ Append(s, x) # <<>>
                         /\ IsInjective(s) /\ x \notin ToSet(s) => IsInjective(Append(s, x))
<1> DEFINE t == Append(s, x)
<1>1. Len(s) \in Nat /\ DOMAIN s = 1 .. Len(s) /\ \A y : y \in ToSet(s) <=> \E i \in 1 .. Len(s) : s[i] = y
  BY SeqSet
<1>2. t \in Seq(S) /\ Len(t) = Len(s) + 1 /\ t[Len(s) + 1] = x /\ \A i \in 1 .. Len(s) : t[i] = s[i]
  BY AppendProperties
<1>3. DOMAIN t = 1 .. Len(s) + 1 /\ \A y : y \in ToSet(t) <=> \E i \in 1 .. Len(s) + 1 : t[i] = y
  BY <1>2, SeqSet
<1> HIDE DEF t
<1>4. ToSet(t) = ToSet(s) \cup {x}
  <2>1. ASSUME NEW i \in 1 .. Len(s) + 1 PROVE t[i] \in ToSet(s) \cup {x}
    BY <1>1, <1>2
  <2>2. x \in ToSet(t)
    BY <1>1, <1>2, <1>3
  <2>3. \A i \in 1 .. Len(s) : s[i] \in ToSet(t)
    <3> TAKE i \in 1 .. Len(s)
    <3>1. i \in 1 .. Len(s) + 1 /\ t[i] = s[i]
      BY <1>1, <1>2
    <3> QED BY <1>3, <3>1
  <2> QED BY <1>1, <1>3, <2>1, <2>2, <2>3
<1>5. ASSUME IsInjective(s), x \notin ToSet(s) PROVE IsInjective(t)
  <2>1. ASSUME NEW i \in 1 .. Len(s) + 1, NEW j \in 1 .. Len(s) + 1, t[i] = t[j] PROVE i = j
    <3>1. CASE i \in 1 .. Len(s) /\ j \in 1 .. Len(s)
      BY <1>1, <1>2, <1>5, <2>1, <3>1 DEF IsInjective
    <3>2. CASE i = Len(s) + 1 /\ j = Len(s) + 1
      BY <3>2
    <3>3. CASE i = Len(s) + 1 /\ j \in 1 .. Len(s)
      BY <1>1, <1>2, <1>5, <2>1, <3>3
    <3>4. CASE j = Len(s) + 1 /\ i \in 1 .. Len(s)
      BY <1>1, <1>2, <1>5, <2>1, <3>4
    <3> QED BY <1>1, <3>1, <3>2, <3>3, <3>4
  <2> QED BY <1>3, <2>1 DEF IsInjective
<1>6. t # <<>>
  BY <1>4, EmptySet
<1> QED BY <1>2, <1>4, <1>5, <1>6 DEF t

\* The first element and the rest.
LEMMA SeqTail == ASSUME NEW S, NEW s \in Seq(S), s # <<>>
                 PROVE /\ Tail(s) \in Seq(S) /\ Head(s) \in S /\ Head(s) \in ToSet(s) /\ Head(s) = s[1] /\ 1 \in 1 .. Len(s)
                       /\ ToSet(s) = {Head(s)} \cup ToSet(Tail(s))
                       /\ IsInjective(s) => IsInjective(Tail(s)) /\ ToSet(Tail(s)) = ToSet(s) \ {Head(s)}
                       /\ Len(Tail(s)) = Len(s) - 1 /\ \A i \in 1 .. Len(s) - 1 : i + 1 \in 1 .. Len(s) /\ Tail(s)[i] = s[i + 1]
<1> DEFINE t == Tail(s)
<1>1. Len(s) \in Nat /\ DOMAIN s = 1 .. Len(s) /\ \A y : y \in ToSet(s) <=> \E i \in 1 .. Len(s) : s[i] = y
  BY SeqSet
<1>2. t \in Seq(S) /\ Len(t) = Len(s) - 1 /\ \A i \in 1 .. Len(s) - 1 : t[i] = s[i + 1]
  BY HeadTailProperties
<1>3. Head(s) \in S /\ Head(s) = s[1] /\ Len(s) # 0
  BY HeadTailProperties, EmptySeq, LenProperties
<1>4. DOMAIN t = 1 .. Len(s) - 1 /\ \A y : y \in ToSet(t) <=> \E i \in 1 .. Len(s) - 1 : t[i] = y
  BY <1>2, SeqSet
<1> HIDE DEF t
<1>5. 1 \in 1 .. Len(s) /\ \A i \in 1 .. Len(s) - 1 : i + 1 \in 1 .. Len(s) /\ i + 1 # 1
  BY <1>1, <1>3
<1>6. \A i \in 1 .. Len(s) : i # 1 => i - 1 \in 1 .. Len(s) - 1 /\ t[i - 1] = s[i]
  <2> TAKE i \in 1 .. Len(s)
  <2> HAVE i # 1
  <2>1. i - 1 \in 1 .. Len(s) - 1 /\ (i - 1) + 1 = i
    BY <1>1
  <2> QED BY <1>2, <2>1
<1>7. ToSet(s) = {s[1]} \cup ToSet(t)
  <2>1. \A i \in 1 .. Len(s) : s[i] \in {s[1]} \cup ToSet(t)
    BY <1>4, <1>6
  <2>2. \A i \in 1 .. Len(s) - 1 : t[i] \in ToSet(s)
    BY <1>1, <1>2, <1>5
  <2> QED BY <1>1, <1>4, <1>5, <2>1, <2>2
<1>8. ASSUME IsInjective(s) PROVE IsInjective(t) /\ s[1] \notin ToSet(t)
  <2>1. \A i, j \in 1 .. Len(s) : s[i] = s[j] => i = j
    BY <1>1, <1>8 DEF IsInjective
  <2>2. ASSUME NEW i \in 1 .. Len(s) - 1, NEW j \in 1 .. Len(s) - 1, t[i] = t[j] PROVE i = j
    <3>1. i + 1 = j + 1
      BY <1>2, <1>5, <2>1, <2>2
    <3> QED BY <3>1
  <2>3. \A i \in 1 .. Len(s) - 1 : t[i] # s[1]
    BY <1>2, <1>5, <2>1
  <2> QED BY <1>4, <2>2, <2>3 DEF IsInjective
<1> QED BY <1>1, <1>2, <1>3, <1>5, <1>7, <1>8 DEF t

\* One sequence behind another.
LEMMA SeqJoin == ASSUME NEW S, NEW s \in Seq(S), NEW t \in Seq(S)
                 PROVE /\ s \o t \in Seq(S) /\ ToSet(s \o t) = ToSet(s) \cup ToSet(t)
                       /\ IsInjective(s) /\ IsInjective(t) /\ ToSet(s) \cap ToSet(t) = {} => IsInjective(s \o t)
<1> DEFINE u == s \o t
<1>1. /\ Len(s) \in Nat /\ DOMAIN s = 1 .. Len(s) /\ Len(t) \in Nat /\ DOMAIN t = 1 .. Len(t)
      /\ \A y : y \in ToSet(s) <=> \E i \in 1 .. Len(s) : s[i] = y
      /\ \A y : y \in ToSet(t) <=> \E i \in 1 .. Len(t) : t[i] = y
  BY SeqSet
<1>2. /\ u \in Seq(S) /\ Len(u) = Len(s) + Len(t)
      /\ \A i \in 1 .. Len(s) + Len(t) : u[i] = IF i <= Len(s) THEN s[i] ELSE t[i - Len(s)]
  BY ConcatProperties
<1>3. DOMAIN u = 1 .. Len(s) + Len(t) /\ \A y : y \in ToSet(u) <=> \E i \in 1 .. Len(s) + Len(t) : u[i] = y
  BY <1>2, SeqSet
<1> HIDE DEF u
<1>4. ASSUME NEW i \in 1 .. Len(s) + Len(t)
      PROVE \/ i \in 1 .. Len(s) /\ u[i] = s[i]
            \/ i \notin 1 .. Len(s) /\ i - Len(s) \in 1 .. Len(t) /\ u[i] = t[i - Len(s)]
  BY <1>1, <1>2
<1>5. ASSUME NEW i \in 1 .. Len(s) PROVE i \in 1 .. Len(s) + Len(t) /\ u[i] = s[i]
  BY <1>1, <1>2
<1>6. ASSUME NEW i \in 1 .. Len(t) PROVE i + Len(s) \in 1 .. Len(s) + Len(t) /\ u[i + Len(s)] = t[i]
  BY <1>1, <1>2
<1>7. ToSet(u) = ToSet(s) \cup ToSet(t)
  <2>1. \A i \in 1 .. Len(s) + Len(t) : u[i] \in ToSet(s) \cup ToSet(t)
    BY <1>1, <1>4
  <2>2. \A i \in 1 .. Len(s) : s[i] \in ToSet(u)
    BY <1>3, <1>5
  <2>3. \A i \in 1 .. Len(t) : t[i] \in ToSet(u)
    BY <1>3, <1>6
  <2> QED BY <1>1, <1>3, <2>1, <2>2, <2>3
<1>8. ASSUME IsInjective(s), IsInjective(t), ToSet(s) \cap ToSet(t) = {} PROVE IsInjective(u)
  <2>0. /\ \A i, j \in 1 .. Len(s) : s[i] = s[j] => i = j
        /\ \A i, j \in 1 .. Len(t) : t[i] = t[j] => i = j
        /\ \A i \in 1 .. Len(s), j \in 1 .. Len(t) : s[i] # t[j]
    BY <1>1, <1>8 DEF IsInjective
  <2>1. ASSUME NEW i \in 1 .. Len(s) + Len(t), NEW j \in 1 .. Len(s) + Len(t), u[i] = u[j] PROVE i = j
    <3>1. CASE i \in 1 .. Len(s) /\ j \in 1 .. Len(s)
      BY <1>5, <2>0, <2>1, <3>1
    <3>2. CASE i \in 1 .. Len(s) /\ j \notin 1 .. Len(s)
      BY <1>4, <1>5, <2>0, <2>1, <3>2
    <3>3. CASE i \notin 1 .. Len(s) /\ j \in 1 .. Len(s)
      BY <1>4, <1>5, <2>0, <2>1, <3>3
    <3>4. CASE i \notin 1 .. Len(s) /\ j \notin 1 .. Len(s)
      <4>1. i - Len(s) \in 1 .. Len(t) /\ j - Len(s) \in 1 .. Len(t) /\ t[i - Len(s)] = t[j - Len(s)]
        BY <1>4, <2>1, <3>4
      <4>2. i - Len(s) = j - Len(s)
        BY <2>0, <4>1
      <4> QED BY <1>1, <4>2
    <3> QED BY <3>1, <3>2, <3>3, <3>4
  <2> QED BY <1>3, <2>1 DEF IsInjective
<1> QED BY <1>2, <1>7, <1>8 DEF u

\* One element more, at the front.
LEMMA SeqCons == ASSUME NEW S, NEW s \in Seq(S), NEW x \in S
                 PROVE /\ <<x>> \o s \in Seq(S) /\ ToSet(<<x>> \o s) = ToSet(s) \cup {x} /\ <<x>> \o s # <<>>
                       /\ IsInjective(s) /\ x \notin ToSet(s) => IsInjective(<<x>> \o s)
<1>1. <<x>> \in Seq(S) /\ ToSet(<<x>>) = {x} /\ IsInjective(<<x>>)
  BY DEF ToSet, IsInjective
<1> DEFINE o == <<x>>
<1> HIDE DEF o
<1>a. o \in Seq(S) /\ ToSet(o) = {x} /\ IsInjective(o)
  BY <1>1 DEF o
<1>b. /\ o \o s \in Seq(S) /\ ToSet(o \o s) = ToSet(o) \cup ToSet(s)
      /\ IsInjective(o) /\ IsInjective(s) /\ ToSet(o) \cap ToSet(s) = {} => IsInjective(o \o s)
  BY <1>a, SeqJoin
<1>2. /\ <<x>> \o s \in Seq(S) /\ ToSet(<<x>> \o s) = {x} \cup ToSet(s)
      /\ IsInjective(s) /\ x \notin ToSet(s) => IsInjective(<<x>> \o s)
  BY <1>a, <1>b DEF o
<1>3. <<x>> \o s # <<>>
  BY <1>2, EmptySet
<1> QED BY <1>1, <1>2, <1>3

-------------------------------------------------------------------------------
(* The invariant                                                           *)

FrameRec == [id : Page \cup {None}, ready : BOOLEAN, pending : BOOLEAN,
             dirty : BOOLEAN, oldDirty : BOOLEAN, ref : Nat,
             reqs : Seq(Req), dataOf : Page \cup {None}, fresh : BOOLEAN]
QueRec == [disk : Seq(IO), pend : Seq(Frame \X Req), cached : Seq(Frame \X Req), comp : Seq(Req), user : Seq(Req)]
Pcs == {"user", "search", "got", "old", "mergeF", "mergeB", "use", "flush", "ret", "disk", "pend", "cached", "comp",
        "wait"}
ThRec == [pc : Pcs, arg : Req \cup {None}, poll : BOOLEAN, goal : Nat, act : BOOLEAN,
          proc : Req \cup {None}, nxt : 0 .. NumPages,
          cur : Frame \cup {None}, old : 0 .. NumPages \cup {None},
          batch : Seq(Frame), cont : {"loop", "old", "null", "ret"},
          out : SUBSET (Frame \X Page), mp : 0 .. NumPages + 1,
          acc : Seq(Frame \X Seq(Req))]
ReqRec == [st : {"new", "queued", "taken", "done"}, op : {"read", "compute", "write"},
           io : Thread \cup {None}, first : Page, last : Page,
           whole : SUBSET Page, done : SUBSET Page, held : SUBSET Frame]

\* The places where a request can be with a frame it holds a reference to: those of a thread with
\* control state me and queues q, the list of the frame, the references the request keeps.
Kind == {"cur", "batch", "pend", "cached", "acc", "reqs", "held"}
At(me, q, f, r, k) ==
    \/ (k = "cur" /\ me.proc = r /\ me.cur = f)
    \/ (k = "batch" /\ me.proc = r /\ f \in ToSet(me.batch))
    \/ (k = "pend" /\ <<f, r>> \in ToSet(q.pend))
    \/ (k = "cached" /\ <<f, r>> \in ToSet(q.cached))
    \/ (k = "acc" /\ \E a \in ToSet(me.acc) : a[1] = f /\ r \in ToSet(a[2]))
In(f, r, k) ==
    \/ \E t \in Thread : At(th[t], que[t], f, r, k)
    \/ (k = "reqs" /\ r \in ToSet(frame[f].reqs))
    \/ (k = "held" /\ f \in rq[r].held)

\* A request is with a frame in one place.
OnePlace == \A f \in Frame, r \in Req, k, l \in Kind : In(f, r, k) /\ In(f, r, l) => k = l

\* The frames that a request has a reference to.
FramesHeld(r) == {f \in Frame : \E k \in Kind : In(f, r, k)}

\* ... and once in that place.
RepeatsAt(t) ==
    /\ IsInjective(que[t].disk) /\ IsInjective(que[t].pend) /\ IsInjective(que[t].cached)
    /\ IsInjective(que[t].comp) /\ IsInjective(que[t].user) /\ IsInjective(th[t].batch)
AccAt(t) == IsInjective(th[t].acc) /\ \A a \in ToSet(th[t].acc) : IsInjective(a[2]) /\ a[2] # <<>>
AccApart ==
    \A t, u \in Thread : \A a \in ToSet(th[t].acc), c \in ToSet(th[u].acc) : \A r \in Req :
       a[1] = c[1] /\ r \in ToSet(a[2]) /\ r \in ToSet(c[2]) => t = u /\ a = c

\* The requests to the underlying I/O, sent or answered; the frames they cover.
Ios == flight \cup UNION {ToSet(que[t].disk) : t \in Thread}
Cov(bufs, f) == \E b \in bufs : b[1] = f
OutOp(t) == IF th[t].pc = "flush" THEN "read" ELSE "write"
CovBy(f, op) ==
    \/ \E io \in Ios : io.op = op /\ Cov(io.bufs, f)
    \/ \E t \in Thread : OutOp(t) = op /\ Cov(th[t].out, f)

\* No frame is covered by two requests, sent, answered or still being built.
BufsOK(bufs) == IsFiniteSet(bufs) /\ \A b, c \in bufs : b[1] = c[1] => b = c
IOApart ==
    /\ \A io \in Ios : io.bufs # {} /\ BufsOK(io.bufs)
    /\ \A t \in Thread : BufsOK(th[t].out)
    /\ \A t \in Thread : \A io \in ToSet(que[t].disk) : io.io = t /\ io \notin flight
    /\ \A f \in Frame :
        /\ \A io, jo \in Ios : Cov(io.bufs, f) /\ Cov(jo.bufs, f) => io = jo
        /\ \A io \in Ios, t \in Thread : ~(Cov(io.bufs, f) /\ Cov(th[t].out, f))
        /\ \A t, u \in Thread : Cov(th[t].out, f) /\ Cov(th[u].out, f) => t = u

\* A write of one page is the write-back of old data; so is one page of a write under construction.
SingleWrites ==
    /\ \A io \in Ios : io.op = "write" /\ ~io.multi => \A b \in io.bufs : frame[b[1]].oldDirty
    /\ \A t \in Thread : th[t].pc \in {"mergeF", "mergeB"} =>
          \E b \in th[t].out : b[2] = th[t].old /\ frame[b[1]].oldDirty

\* References count the requests with the frame, and a write that covers it.
CountedAt(f) == frame[f].ref = Cardinality(Users(f)) + (IF CovBy(f, "write") THEN 1 ELSE 0)

\* The thread that evicted the page of f and has not started the write-back.
Evicting(t, f) == th[t].cur = f /\ th[t].old # None /\ th[t].pc \in {"got", "old", "flush"}

\* What the flags of a frame say about its I/O and its requests.
FlagsAt(f) ==
    /\ frame[f].pending <=> CovBy(f, "read") \/ CovBy(f, "write")
    /\ frame[f].oldDirty => ~frame[f].ready /\ ~frame[f].dirty
    /\ frame[f].oldDirty /\ ~frame[f].pending => \E t \in Thread : Evicting(t, f)
    /\ CovBy(f, "read") => ~frame[f].ready /\ ~frame[f].oldDirty /\ frame[f].reqs # <<>>
    /\ frame[f].reqs # <<>> => frame[f].pending \/ frame[f].oldDirty
    /\ \A r \in Req, k \in Kind : In(f, r, k) /\ k \notin {"cur", "reqs"} => ~frame[f].oldDirty
    /\ \A r \in Req, k \in Kind : In(f, r, k) /\ k \in {"cached", "held"} => frame[f].ready
    /\ frame[f].id = None => ~frame[f].dirty /\ ~frame[f].oldDirty
    /\ ~Voter /\ frame[f].dirty => frame[f].ready

\* A page is in one frame.
OneFrame == \A f, g \in Frame : frame[f].id = frame[g].id /\ frame[f].id # None => f = g

\* An evictor finds its frame as it left it; nobody uses old data.
EvictorAt(t) ==
    /\ \A f \in Frame : Evicting(t, f) /\ frame[f].oldDirty => ~frame[f].pending /\ th[t].old \in Page
    /\ \A f \in Frame : Evicting(t, f) /\ th[t].pc # "got" => frame[f].oldDirty
    /\ th[t].pc = "use" => ~frame[th[t].cur].oldDirty
OneEvictor ==
    \A t, u \in Thread : th[t].cur # None /\ th[t].cur = th[u].cur /\ th[t].old # None /\ th[u].old # None => t = u

\* The locals of a thread at each point of its program.
ControlAt(t) ==
    LET me == th[t] IN
    /\ me.proc = None => me.cur = None /\ me.batch = <<>>
    /\ me.pc \in {"search", "got", "old", "mergeF", "mergeB", "use", "flush"} => me.proc # None
    /\ me.pc \in {"got", "old", "use"} => me.cur # None
    /\ me.pc \notin {"got", "old", "use", "flush"} => me.cur = None
    /\ me.pc = "flush" => me.batch # <<>> /\ (me.cur # None <=> me.cont = "old")
    /\ me.pc \in {"user", "ret", "disk", "pend", "cached", "comp", "wait"} => me.batch = <<>>
    /\ me.proc # None /\ (me.pc \notin {"got", "old", "mergeF", "mergeB", "use", "flush"} \/ (me.pc = "flush" /\ me.cont = "null")) =>
          me.nxt <= rq[me.proc].last
    /\ me.pc \notin {"mergeF", "mergeB", "flush"} => me.out = {}
    /\ me.pc \in {"mergeF", "mergeB"} => me.old \in Page
    /\ me.pc = "mergeF" => me.mp \in 1 .. NumPages
    /\ me.pc = "mergeB" => me.mp \in 0 .. NumPages - 1
    /\ me.batch # <<>> => rq[me.proc].op # "write"

\* The request a thread works on, and the one it has been given.
WorkingAt(t) ==
    LET me == th[t] IN
    /\ me.arg # None => rq[me.arg].st = "queued" /\ rq[me.arg].io = t /\ me.arg \notin ToSet(que[t].user)
    /\ me.cur # None => frame[me.cur].id \in Page /\ frame[me.cur].id + 1 = me.nxt
    /\ me.proc # None => /\ rq[me.proc].st = "taken" /\ rq[me.proc].io = t
                         /\ rq[me.proc].first <= me.nxt /\ me.nxt <= rq[me.proc].last + 1
                         /\ \A p \in rq[me.proc].done : p < me.nxt
                         /\ \A f \in FramesHeld(me.proc) : frame[f].id < me.nxt

\* The requests in the queues of a thread.
QueuesAt(t) ==
    /\ \A x \in ToSet(que[t].pend) : rq[x[2]].io = t
    /\ \A x \in ToSet(que[t].cached) : rq[x[2]].io = t /\ WithinOnePage(x[2])
    /\ \A r \in ToSet(que[t].comp) : rq[r].io = t /\ rq[r].st = "taken" /\ rq[r].done = PagesOf(r)
    /\ \A r \in ToSet(que[t].user) : rq[r].io = t /\ rq[r].st = "queued"

\* A request has references to frames of its pages only, of pages served only the ones it keeps.
RequestAt(r) ==
    /\ rq[r].first <= rq[r].last
    /\ rq[r].done \subseteq PagesOf(r)
    /\ rq[r].st \in {"new", "queued"} => rq[r].done = {}
    /\ rq[r].st # "new" => rq[r].io \in Thread
    /\ rq[r].st = "new" => rq[r].io = None
    /\ \A f \in Frame, k \in Kind : In(f, r, k) =>
          /\ rq[r].st = "taken" /\ frame[f].id \in PagesOf(r)
          /\ k = "held" <=> frame[f].id \in rq[r].done

IInv ==
    /\ TypeOK /\ OnePlace /\ AccApart /\ IOApart /\ SingleWrites /\ OneFrame /\ OneEvictor
    /\ \A f \in Frame : CountedAt(f) /\ FlagsAt(f) /\ IsInjective(frame[f].reqs)
    /\ \A t \in Thread : EvictorAt(t) /\ ControlAt(t) /\ WorkingAt(t) /\ QueuesAt(t) /\ RepeatsAt(t) /\ AccAt(t)
    /\ \A r \in Req : RequestAt(r)

-------------------------------------------------------------------------------
(* What follows from the invariant                                         *)

\* The types of the variables.
LEMMA TypesForm == TypeOK <=> /\ frame \in [Frame -> FrameRec] /\ disk \in [Page -> BOOLEAN] /\ raced \subseteq Page
                              /\ flight \subseteq IO /\ que \in [Thread -> QueRec]
                              /\ th \in [Thread -> ThRec] /\ rq \in [Req -> ReqRec]
BY DEF TypeOK, FrameRec, QueRec, ThRec, ReqRec, Pcs

\* None stands for nothing.
LEMMA NoneApart == None \notin Thread /\ None \notin Frame /\ None \notin Req /\ None \notin 0 .. NumPages /\ None \notin Page
                   /\ NumPages \in Nat \ {0} /\ Page = 0 .. NumPages - 1 /\ \A p \in Page : p \in 0 .. NumPages /\ p \in Nat
BY ConstantsAssumption DEF Page

\* The parts of the invariant.
LEMMA Parts == ASSUME IInv
               PROVE /\ TypeOK /\ OnePlace /\ AccApart /\ IOApart /\ SingleWrites /\ OneFrame /\ OneEvictor
                     /\ \A f \in Frame : CountedAt(f) /\ FlagsAt(f) /\ IsInjective(frame[f].reqs)
                     /\ \A t \in Thread : EvictorAt(t) /\ ControlAt(t) /\ WorkingAt(t) /\ QueuesAt(t) /\ RepeatsAt(t) /\ AccAt(t)
                     /\ \A r \in Req : RequestAt(r)
BY DEF IInv

\* The users of a frame are the requests that are with it somewhere, before and after a step.
LEMMA UsersForm == ASSUME NEW f \in Frame
                   PROVE /\ Users(f) = {r \in Req : \E k \in Kind : In(f, r, k)}
                         /\ Users(f)' = {r \in Req : \E k \in Kind : In(f, r, k)'}
<1>1. ASSUME NEW r \in Req PROVE r \in Users(f) <=> \E k \in Kind : In(f, r, k)
  <2>1. ASSUME NEW k \in Kind, In(f, r, k) PROVE r \in Users(f)
    BY <2>1, ZenonT(30) DEF Users, In, At
  <2>2. ASSUME r \in Users(f) PROVE In(f, r, "cur") \/ In(f, r, "batch") \/ In(f, r, "pend") \/ In(f, r, "cached")
                                     \/ In(f, r, "acc") \/ In(f, r, "reqs") \/ In(f, r, "held")
    BY <2>2, ZenonT(30) DEF Users, In, At
  <2> QED BY <2>1, <2>2 DEF Kind
<1>2. ASSUME NEW r \in Req PROVE r \in Users(f)' <=> \E k \in Kind : In(f, r, k)'
  <2>1. ASSUME NEW k \in Kind, In(f, r, k)' PROVE r \in Users(f)'
    BY <2>1, ZenonT(30) DEF Users, In, At
  <2>2. ASSUME r \in Users(f)' PROVE In(f, r, "cur")' \/ In(f, r, "batch")' \/ In(f, r, "pend")' \/ In(f, r, "cached")'
                                     \/ In(f, r, "acc")' \/ In(f, r, "reqs")' \/ In(f, r, "held")'
    BY <2>2, ZenonT(30) DEF Users, In, At
  <2> QED BY <2>1, <2>2 DEF Kind
<1>3. Users(f) \subseteq Req /\ Users(f)' \subseteq Req
  BY DEF Users
<1> QED BY <1>1, <1>2, <1>3

\* Counting users.
LEMMA CountUsers == ASSUME NEW S, S \subseteq Req
                    PROVE /\ IsFiniteSet(S) /\ Cardinality(S) \in Nat /\ (Cardinality(S) = 0 <=> S = {})
                          /\ \A r \in Req : r \notin S => Cardinality(S \cup {r}) = Cardinality(S) + 1
                          /\ \A r \in S : Cardinality(S \ {r}) = Cardinality(S) - 1
<1>1. IsFiniteSet(S)
  BY ConstantsAssumption, FS_Subset
<1>2. Cardinality(S) \in Nat /\ (Cardinality(S) = 0 <=> S = {})
  BY <1>1, FS_CardinalityType, FS_EmptySet
<1>3. ASSUME NEW r \in Req, r \notin S PROVE Cardinality(S \cup {r}) = Cardinality(S) + 1
  BY <1>1, <1>3, FS_AddElement
<1>4. ASSUME NEW r \in S PROVE Cardinality(S \ {r}) = Cardinality(S) - 1
  BY <1>1, FS_RemoveElement
<1> QED BY <1>1, <1>2, <1>3, <1>4

\* A frame without references is not used, nothing is being done with it, and no request waits.
LEMMA Unreferenced == ASSUME IInv, NEW f \in Frame, frame[f].ref = 0
                      PROVE /\ Users(f) = {} /\ (\A r \in Req, k \in Kind : ~In(f, r, k))
                            /\ ~CovBy(f, "read") /\ ~CovBy(f, "write") /\ ~frame[f].pending /\ frame[f].reqs = <<>>
                            /\ ~frame[f].oldDirty /\ \A t \in Thread : th[t].cur # f
<1>1. CountedAt(f) /\ FlagsAt(f) /\ TypeOK
  BY Parts
<1>2. Users(f) \subseteq Req
  BY DEF Users
<1>3. Cardinality(Users(f)) \in Nat /\ (Cardinality(Users(f)) = 0 <=> Users(f) = {})
  BY <1>2, CountUsers
<1>4. Users(f) = {} /\ ~CovBy(f, "write")
  BY <1>1, <1>3 DEF CountedAt
<1>5. \A r \in Req, k \in Kind : ~In(f, r, k)
  BY <1>4, UsersForm
<1>6. frame[f] \in FrameRec /\ frame[f].reqs \in Seq(Req)
  BY <1>1, TypesForm DEF FrameRec
<1>7. frame[f].reqs = <<>>
  <2>1. ToSet(frame[f].reqs) = {}
    <3>1. \A r \in ToSet(frame[f].reqs) : r \in Req /\ In(f, r, "reqs")
      BY <1>6, SeqSet DEF In
    <3> QED BY <1>5, <3>1 DEF Kind
  <2> QED BY <1>6, <2>1, SeqSet
<1>8. ~CovBy(f, "read") /\ ~frame[f].pending
  BY <1>1, <1>4, <1>7 DEF FlagsAt
<1>9. ASSUME NEW t \in Thread PROVE th[t].cur # f
  <2>1. ControlAt(t) /\ th[t] \in ThRec
    BY <1>1, Parts, TypesForm
  <2>2. ASSUME th[t].cur = f PROVE FALSE
    <3>1. th[t].proc \in Req
      BY <2>1, <2>2, NoneApart DEF ControlAt, ThRec
    <3>2. In(f, th[t].proc, "cur")
      BY <2>2 DEF In, At
    <3> QED BY <1>5, <3>1, <3>2 DEF Kind
  <2> QED BY <2>2
<1>10. ~frame[f].oldDirty
  BY <1>1, <1>8, <1>9 DEF FlagsAt, Evicting
<1> QED BY <1>4, <1>5, <1>7, <1>8, <1>9, <1>10

\* The head of the loop of process_user_req.
LEMMA LoopForm == ASSUME NEW me \in ThRec, me.proc \in Req, TypeOK
                  PROVE LET l == Loop(me) IN
                        /\ l \in ThRec /\ l.cur = None /\ l.batch = me.batch /\ l.arg = me.arg /\ l.nxt = me.nxt
                        /\ l.old = me.old /\ l.out = me.out /\ l.acc = me.acc
                        /\ \/ l.proc = me.proc /\ l.pc = "search" /\ me.nxt <= rq[me.proc].last
                           \/ l.proc = me.proc /\ l.pc = "flush" /\ l.cont = "ret" /\ me.nxt > rq[me.proc].last /\ me.batch # <<>>
                           \/ l.proc = None /\ l.pc = "ret" /\ me.nxt > rq[me.proc].last /\ me.batch = <<>>
<1>1. rq[me.proc].last \in Nat /\ me.nxt \in Nat
  <2>1. rq[me.proc] \in ReqRec
    BY TypesForm
  <2>2. rq[me.proc].last \in Page /\ me.nxt \in 0 .. NumPages
    BY <2>1 DEF ReqRec, ThRec
  <2> QED BY <2>2, NoneApart
<1>2. CASE me.nxt <= rq[me.proc].last
  <2>1. Loop(me) = [me EXCEPT !.pc = "search", !.cur = None]
    BY <1>2 DEF Loop
  <2> QED BY <1>2, <2>1 DEF ThRec, Pcs
<1>3. CASE me.nxt > rq[me.proc].last /\ me.batch = <<>>
  <2>1. Loop(me) = [me EXCEPT !.pc = "ret", !.cont = "ret", !.cur = None, !.proc = None]
    BY <1>1, <1>3 DEF Loop
  <2> QED BY <1>3, <2>1 DEF ThRec, Pcs
<1>4. CASE me.nxt > rq[me.proc].last /\ me.batch # <<>>
  <2>1. Loop(me) = [me EXCEPT !.pc = "flush", !.cont = "ret", !.cur = None, !.proc = me.proc]
    BY <1>1, <1>4 DEF Loop
  <2>2. Loop(me) = [me EXCEPT !.pc = "flush", !.cont = "ret", !.cur = None]
    BY <2>1 DEF ThRec
  <2> QED BY <1>4, <2>2 DEF ThRec, Pcs
<1> QED BY <1>1, <1>2, <1>3, <1>4

-------------------------------------------------------------------------------
(* What a step leaves alone                                                *)

\* The requests of a frame are where they were.
Unmoved(f) == \A r \in Req, k \in Kind : In(f, r, k)' <=> In(f, r, k)
SameCov(f) == /\ CovBy(f, "read")' <=> CovBy(f, "read")
              /\ CovBy(f, "write")' <=> CovBy(f, "write")
\* A frame is as it was; only a voter may take the data of one that nobody uses.
Same(f) ==
    /\ frame'[f].id = frame[f].id /\ frame'[f].pending = frame[f].pending /\ frame'[f].dirty = frame[f].dirty
    /\ frame'[f].oldDirty = frame[f].oldDirty /\ frame'[f].ref = frame[f].ref /\ frame'[f].reqs = frame[f].reqs
    /\ frame'[f].ready = frame[f].ready \/ (Voter /\ frame[f].ref = 0 /\ ~frame'[f].ready)
\* The evictor of a frame is still there.
EvictKept(f) == \A u \in Thread : Evicting(u, f) /\ frame[f].oldDirty => Evicting(u, f)'

\* What holds of a frame survives a step that leaves it alone.
LEMMA OtherFrame == ASSUME IInv, NEW f \in Frame, Same(f), Unmoved(f), SameCov(f), EvictKept(f)
                    PROVE CountedAt(f)' /\ FlagsAt(f)' /\ IsInjective(frame'[f].reqs)
<1>1. CountedAt(f) /\ FlagsAt(f) /\ IsInjective(frame[f].reqs)
  BY Parts
<1>2. Users(f)' = Users(f)
  BY UsersForm DEF Unmoved
<1>3. CountedAt(f)'
  BY <1>1, <1>2 DEF CountedAt, Same, SameCov
<1>4. CASE frame'[f].ready = frame[f].ready
  <2>1. frame[f].oldDirty /\ ~frame[f].pending => \E u \in Thread : Evicting(u, f)'
    BY <1>1 DEF FlagsAt, EvictKept
  <2> QED BY <1>1, <1>3, <1>4, <2>1 DEF FlagsAt, Same, Unmoved, SameCov
<1>5. CASE Voter /\ frame[f].ref = 0 /\ ~frame'[f].ready
  <2>1. /\ (\A r \in Req, k \in Kind : ~In(f, r, k)) /\ ~CovBy(f, "read") /\ ~CovBy(f, "write")
        /\ ~frame[f].pending /\ frame[f].reqs = <<>> /\ ~frame[f].oldDirty
    BY <1>5, Unreferenced
  <2> QED BY <1>1, <1>3, <1>5, <2>1 DEF FlagsAt, Same, Unmoved, SameCov
<1> QED BY <1>4, <1>5 DEF Same

\* A request with a frame: the frame is one of its pages'.
LEMMA WithFrame == ASSUME IInv, NEW f \in Frame, NEW r \in Req, NEW k \in Kind, In(f, r, k)
                   PROVE /\ frame[f].ref # 0 /\ rq[r].st = "taken" /\ frame[f].id \in PagesOf(r) /\ frame[f].id \in Page
                         /\ (k = "held" <=> frame[f].id \in rq[r].done) /\ rq[r].io \in Thread
                         /\ \A l \in Kind : In(f, r, l) => l = k
<1>1. RequestAt(r) /\ OnePlace /\ TypeOK
  BY Parts
<1>2. frame[f].ref # 0
  BY Unreferenced
<1>3. frame[f] \in FrameRec /\ rq[r] \in ReqRec
  BY <1>1, TypesForm
<1>4. frame[f].id \in Page \cup {None} /\ rq[r].first \in Page /\ rq[r].last \in Page
  BY <1>3 DEF FrameRec, ReqRec
<1>5. rq[r].st = "taken" /\ frame[f].id \in PagesOf(r) /\ (k = "held" <=> frame[f].id \in rq[r].done)
  BY <1>1 DEF RequestAt
<1>6. frame[f].id \in Page
  BY <1>4, <1>5, NoneApart DEF PagesOf
<1>7. rq[r].io \in Thread
  BY <1>1, <1>5 DEF RequestAt
<1> QED BY <1>1, <1>2, <1>5, <1>6, <1>7 DEF OnePlace

\* A request with a frame at a thread is one of the thread's, except in the list of finished pages.
LEMMA OwnRequest == ASSUME IInv, NEW t \in Thread, NEW f \in Frame, NEW r \in Req, NEW k \in Kind, k # "acc",
                           At(th[t], que[t], f, r, k)
                    PROVE rq[r].io = t
<1>1. WorkingAt(t) /\ QueuesAt(t)
  BY Parts
<1>2. CASE k = "cur" \/ k = "batch"
  <2>1. th[t].proc = r
    BY <1>2 DEF At
  <2> QED BY <1>1, <2>1, NoneApart DEF WorkingAt
<1>3. CASE k = "pend"
  <2>1. <<f, r>> \in ToSet(que[t].pend)
    BY <1>3 DEF At
  <2>2. rq[<<f, r>>[2]].io = t
    BY <1>1, <2>1 DEF QueuesAt
  <2> QED BY <2>2
<1>4. CASE k = "cached"
  <2>1. <<f, r>> \in ToSet(que[t].cached)
    BY <1>4 DEF At
  <2>2. rq[<<f, r>>[2]].io = t
    BY <1>1, <2>1 DEF QueuesAt
  <2> QED BY <2>2
<1> QED BY <1>2, <1>3, <1>4 DEF At

\* A request and a frame are together at one thread.
LEMMA AtOneThread == ASSUME IInv, NEW t \in Thread, NEW u \in Thread, NEW f \in Frame, NEW r \in Req,
                            NEW k \in Kind, NEW l \in Kind, At(th[t], que[t], f, r, k), At(th[u], que[u], f, r, l)
                     PROVE t = u /\ k = l
<1>1. In(f, r, k) /\ In(f, r, l)
  BY DEF In
<1>2. k = l
  BY <1>1, WithFrame
<1>3. CASE k # "acc"
  BY <1>2, <1>3, OwnRequest
<1>4. CASE k = "acc"
  <2>1. PICK a \in ToSet(th[t].acc) : a[1] = f /\ r \in ToSet(a[2])
    BY <1>4 DEF At
  <2>2. PICK c \in ToSet(th[u].acc) : c[1] = f /\ r \in ToSet(c[2])
    BY <1>2, <1>4 DEF At
  <2>3. AccApart
    BY Parts
  <2> QED BY <1>2, <2>1, <2>2, <2>3 DEF AccApart
<1> QED BY <1>2, <1>3, <1>4

\* The request r0 goes to place l with frame f0 and nothing else moves.
Moved(f0, r0, l) ==
    \A f \in Frame, r \in Req, k \in Kind : In(f, r, k)' <=> IF f = f0 /\ r = r0 THEN k = l ELSE In(f, r, k)

\* It does when one thread moves it, from a place of its own or from nowhere.
LEMMA OneMove == ASSUME IInv, NEW t \in Thread, NEW f0 \in Frame, NEW r0 \in Req, NEW l,
                        \A u \in Thread \ {t} : th'[u] = th[u] /\ que'[u] = que[u],
                        \A f \in Frame, r \in Req, k \in Kind :
                           At(th'[t], que'[t], f, r, k) <=>
                             IF f = f0 /\ r = r0 THEN k = l /\ l \notin {"reqs", "held"} ELSE At(th[t], que[t], f, r, k),
                        \A f \in Frame, r \in Req :
                           r \in ToSet(frame'[f].reqs) <=> IF f = f0 /\ r = r0 THEN l = "reqs" ELSE r \in ToSet(frame[f].reqs),
                        \A f \in Frame, r \in Req :
                           f \in rq'[r].held <=> IF f = f0 /\ r = r0 THEN l = "held" ELSE f \in rq[r].held,
                        \/ \E k \in Kind : At(th[t], que[t], f0, r0, k)
                        \/ \A k \in Kind : ~In(f0, r0, k)
                 PROVE Moved(f0, r0, l)
<1>1. ASSUME NEW u \in Thread \ {t}, NEW k \in Kind PROVE ~At(th[u], que[u], f0, r0, k)
  BY AtOneThread DEF In
<1>2. ASSUME NEW f \in Frame, NEW r \in Req, NEW k \in Kind
      PROVE In(f, r, k) <=> \/ At(th[t], que[t], f, r, k) \/ (\E u \in Thread \ {t} : At(th[u], que[u], f, r, k))
                            \/ (k = "reqs" /\ r \in ToSet(frame[f].reqs)) \/ (k = "held" /\ f \in rq[r].held)
  BY DEF In
<1>3. ASSUME NEW f \in Frame, NEW r \in Req, NEW k \in Kind
      PROVE In(f, r, k)' <=> \/ At(th'[t], que'[t], f, r, k) \/ (\E u \in Thread \ {t} : At(th[u], que[u], f, r, k))
                             \/ (k = "reqs" /\ r \in ToSet(frame'[f].reqs)) \/ (k = "held" /\ f \in rq'[r].held)
  BY DEF In
<1>4. ASSUME NEW f \in Frame, NEW r \in Req, NEW k \in Kind
      PROVE In(f, r, k)' <=> IF f = f0 /\ r = r0 THEN k = l ELSE In(f, r, k)
  <2>1. CASE f = f0 /\ r = r0
    <3>1. In(f, r, k)' <=> (k = l /\ l \notin {"reqs", "held"}) \/ (k = "reqs" /\ l = "reqs") \/ (k = "held" /\ l = "held")
      BY <1>1, <1>3, <2>1
    <3> QED BY <2>1, <3>1
  <2>2. CASE ~(f = f0 /\ r = r0)
    BY <1>2, <1>3, <2>2
  <2> QED BY <2>1, <2>2
<1> QED BY <1>4 DEF Moved

\* Or nothing moves.
LEMMA NoMove == ASSUME NEW t \in Thread,
                       \A u \in Thread \ {t} : th'[u] = th[u] /\ que'[u] = que[u],
                       \A f \in Frame, r \in Req, k \in Kind : At(th'[t], que'[t], f, r, k) <=> At(th[t], que[t], f, r, k),
                       \A f \in Frame : frame'[f].reqs = frame[f].reqs, \A r \in Req : rq'[r].held = rq[r].held
                PROVE \A f \in Frame : Unmoved(f)
<1>1. ASSUME NEW f \in Frame, NEW r \in Req, NEW k \in Kind PROVE In(f, r, k)' <=> In(f, r, k)
  BY DEF In
<1> QED BY <1>1 DEF Unmoved

\* The number of users after a move.
LEMMA UsersMoved == ASSUME IInv, NEW f0 \in Frame, NEW r0 \in Req, NEW l \in Kind \cup {"none"}, Moved(f0, r0, l)
                    PROVE /\ \A f \in Frame \ {f0} : Unmoved(f)
                          /\ Cardinality(Users(f0)) \in Nat /\ Cardinality(Users(f0)') \in Nat
                          /\ r0 \in Users(f0) <=> \E k \in Kind : In(f0, r0, k)
                          /\ r0 \in Users(f0) /\ l # "none" => Cardinality(Users(f0)') = Cardinality(Users(f0))
                          /\ r0 \in Users(f0) /\ l = "none" => Cardinality(Users(f0)') = Cardinality(Users(f0)) - 1
                          /\ r0 \notin Users(f0) /\ l # "none" => Cardinality(Users(f0)') = Cardinality(Users(f0)) + 1
<1>1. ASSUME NEW f \in Frame \ {f0} PROVE Unmoved(f)
  BY DEF Moved, Unmoved
<1>2. Users(f0) = {r \in Req : \E k \in Kind : In(f0, r, k)} /\ Users(f0)' = {r \in Req : \E k \in Kind : In(f0, r, k)'}
  BY UsersForm
<1>3. ASSUME NEW r \in Req, r # r0 PROVE r \in Users(f0)' <=> r \in Users(f0)
  BY <1>2, <1>3 DEF Moved
<1>4. r0 \in Users(f0)' <=> l # "none"
  <2>1. r0 \in Users(f0)' <=> \E k \in Kind : k = l
    BY <1>2 DEF Moved
  <2>2. "none" \notin Kind
    BY DEF Kind
  <2> QED BY <2>1, <2>2
<1>5. Users(f0) \subseteq Req /\ Users(f0)' \subseteq Req
  BY <1>2
<1> DEFINE U == Users(f0)  V == Users(f0)'
<1>6. /\ Cardinality(U) \in Nat /\ Cardinality(V) \in Nat
      /\ r0 \notin U => Cardinality(U \cup {r0}) = Cardinality(U) + 1
      /\ r0 \in U => Cardinality(U \ {r0}) = Cardinality(U) - 1
  BY <1>5, CountUsers
<1>7. /\ l # "none" /\ r0 \in U => V = U
      /\ l # "none" /\ r0 \notin U => V = U \cup {r0}
      /\ l = "none" => V = U \ {r0}
  BY <1>3, <1>4, <1>5
<1> QED BY <1>1, <1>2, <1>6, <1>7

\* What holds of a thread survives a step that leaves it, its requests and their pages alone.
LEMMA OtherThread == ASSUME IInv, TypeOK', NEW u \in Thread, th'[u] = th[u], que'[u] = que[u],
                            \A r \in Req : rq[r].io = u => rq'[r] = rq[r],
                            \A f \in Frame, r \in Req, k \in Kind : rq[r].io = u =>
                               /\ In(f, r, k)' => \E l \in Kind : In(f, r, l)
                               /\ In(f, r, k) => frame'[f].id = frame[f].id,
                            \A f \in Frame : th[u].cur = f =>
                               /\ frame'[f].oldDirty = frame[f].oldDirty
                               /\ Evicting(u, f) /\ frame[f].oldDirty => ~frame'[f].pending
                     PROVE /\ EvictorAt(u)' /\ ControlAt(u)' /\ WorkingAt(u)' /\ QueuesAt(u)'
                           /\ RepeatsAt(u)' /\ AccAt(u)'
<1>1. EvictorAt(u) /\ ControlAt(u) /\ WorkingAt(u) /\ QueuesAt(u) /\ RepeatsAt(u) /\ AccAt(u) /\ TypeOK
  BY Parts
<1>2. th[u] \in ThRec /\ que[u] \in QueRec
  BY <1>1, TypesForm
<1>3. th[u].proc \in Req \cup {None} /\ th[u].arg \in Req \cup {None} /\ th[u].cur \in Frame \cup {None}
  BY <1>2 DEF ThRec
<1>4. th[u].proc # None => th[u].proc \in Req /\ rq[th[u].proc].io = u /\ rq'[th[u].proc] = rq[th[u].proc]
  BY <1>1, <1>3 DEF WorkingAt
<1>5. th[u].arg # None => th[u].arg \in Req /\ rq[th[u].arg].io = u /\ rq'[th[u].arg] = rq[th[u].arg]
  BY <1>1, <1>3 DEF WorkingAt
<1>6. \A f : Evicting(u, f)' <=> Evicting(u, f)
  BY DEF Evicting
<1>7. EvictorAt(u)'
  <2>1. ASSUME NEW f \in Frame, Evicting(u, f) PROVE th[u].cur = f /\ frame'[f].oldDirty = frame[f].oldDirty
    BY <2>1 DEF Evicting
  <2>2. ASSUME NEW f \in Frame, Evicting(u, f)', frame'[f].oldDirty PROVE ~frame'[f].pending /\ th'[u].old \in Page
    BY <1>1, <1>6, <2>1, <2>2 DEF EvictorAt
  <2>3. ASSUME NEW f \in Frame, Evicting(u, f)', th'[u].pc # "got" PROVE frame'[f].oldDirty
    BY <1>1, <1>6, <2>1, <2>3 DEF EvictorAt
  <2>4. ASSUME th'[u].pc = "use" PROVE ~frame'[th'[u].cur].oldDirty
    <3>1. th[u].cur \in Frame
      BY <1>1, <1>3, <2>4 DEF ControlAt
    <3> QED BY <1>1, <2>4, <3>1 DEF EvictorAt
  <2> QED BY <2>2, <2>3, <2>4 DEF EvictorAt
<1>8. ControlAt(u)'
  <2>1. th[u].proc = None => th[u].batch = <<>>
    BY <1>1 DEF ControlAt
  <2> QED BY <1>1, <1>4, <2>1 DEF ControlAt
<1>9. WorkingAt(u)'
  <2>1. th[u].cur # None => th[u].cur \in Frame /\ frame'[th[u].cur].id = frame[th[u].cur].id
    <3>1. ASSUME th[u].cur # None PROVE th[u].proc # None
      BY <1>1, <3>1 DEF ControlAt
    <3>2. ASSUME th[u].cur # None PROVE In(th[u].cur, th[u].proc, "cur")
      BY DEF In, At
    <3>3. "cur" \in Kind
      BY DEF Kind
    <3> QED BY <1>3, <1>4, <3>1, <3>2, <3>3
  <2>2. ASSUME NEW r \in Req, rq[r].io = u, NEW f \in FramesHeld(r)' PROVE f \in FramesHeld(r) /\ frame'[f].id = frame[f].id
    <3>1. f \in Frame /\ \E k \in Kind : In(f, r, k)'
      BY DEF FramesHeld
    <3>2. \E k \in Kind : In(f, r, k)
      BY <2>2, <3>1
    <3> QED BY <2>2, <3>1, <3>2 DEF FramesHeld
  <2>3. ASSUME NEW r \in Req, r = th[u].proc PROVE \A f \in FramesHeld(r)' : frame'[f].id < th[u].nxt
    <3>1. r # None /\ rq[r].io = u
      BY <1>4, <2>3, NoneApart
    <3>2. \A f \in FramesHeld(r) : frame[f].id < th[u].nxt
      BY <1>1, <2>3, <3>1 DEF WorkingAt
    <3> QED BY <2>2, <3>1, <3>2
  <2>4. th[u].proc # None => \A f \in FramesHeld(th[u].proc)' : frame'[f].id < th'[u].nxt
    <3> DEFINE r == th[u].proc
    <3>1. th'[u].proc = r /\ th'[u].nxt = th[u].nxt
      OBVIOUS
    <3>2. \A s \in Req : s = r => \A f \in FramesHeld(s)' : frame'[f].id < th[u].nxt
      BY <2>3
    <3>3. \A s : s = th'[u].proc => (FramesHeld(th[u].proc))' = FramesHeld(s)'
      BY DEF FramesHeld, In
    <3> QED BY <1>4, <3>1, <3>2, <3>3
  <2> QED BY <1>1, <1>4, <1>5, <2>1, <2>4 DEF WorkingAt
<1>10. QueuesAt(u)'
  <2>1. /\ ToSet(que[u].pend) \subseteq Frame \X Req /\ ToSet(que[u].cached) \subseteq Frame \X Req
        /\ ToSet(que[u].comp) \subseteq Req /\ ToSet(que[u].user) \subseteq Req
    BY <1>2, SeqSet DEF QueRec
  <2>2. \A x \in Frame \X Req : x[2] \in Req
    OBVIOUS
  <2> QED BY <1>1, <2>1, <2>2 DEF QueuesAt, WithinOnePage, PagesOf
<1>11. RepeatsAt(u)' /\ AccAt(u)'
  BY <1>1 DEF RepeatsAt, AccAt
<1> QED BY <1>7, <1>8, <1>9, <1>10, <1>11

\* What holds of a request survives a step that leaves it and its pages alone.
LEMMA OtherRequest == ASSUME IInv, NEW r \in Req, rq'[r] = rq[r],
                             \A f \in Frame, k \in Kind : In(f, r, k)' => In(f, r, k) /\ frame'[f].id = frame[f].id
                      PROVE RequestAt(r)'
<1>1. RequestAt(r)
  BY Parts
<1> QED BY <1>1 DEF RequestAt, PagesOf

\* A page is given to a frame that nobody uses, or stays; a frame that gets an I/O is not waiting
\* for the write-back of another thread.
Touch(t, f) ==
    \/ frame[f].ref = 0
    \/ /\ frame'[f].id = frame[f].id /\ frame'[f].oldDirty = frame[f].oldDirty
       /\ frame'[f].pending => frame[f].pending \/ ~frame[f].oldDirty \/ Evicting(t, f)

\* The invariant after a step of one thread t on one frame f0 for one request r0.
LEMMA LocalStep ==
    ASSUME IInv, TypeOK', NEW t \in Thread, NEW f0, NEW r0,
           \A u \in Thread \ {t} : th'[u] = th[u] /\ que'[u] = que[u],
           \A r \in Req \ {r0} : rq'[r] = rq[r],
           \A f \in Frame \ {f0} : Same(f) /\ SameCov(f),
           \A f \in Frame, r \in Req, k \in Kind : ~(f = f0 /\ r = r0) => (In(f, r, k)' <=> In(f, r, k)),
           \A f \in Frame \ {f0} : Evicting(t, f) /\ frame[f].oldDirty => Evicting(t, f)',
           th'[t].acc = th[t].acc,
           f0 \in Frame => Touch(t, f0) /\ CountedAt(f0)' /\ FlagsAt(f0)' /\ IsInjective(frame'[f0].reqs),
           r0 \in Req => rq[r0].io \in {t, None} /\ RequestAt(r0)',
           f0 \in Frame /\ r0 \in Req => \A k, l \in Kind : In(f0, r0, k)' /\ In(f0, r0, l)' => k = l,
           EvictorAt(t)' /\ ControlAt(t)' /\ WorkingAt(t)' /\ QueuesAt(t)' /\ RepeatsAt(t)',
           \/ th'[t].cur = None \/ th'[t].old = None \/ (th'[t].cur = th[t].cur /\ th'[t].old = th[t].old)
           \/ (f0 \in Frame /\ th'[t].cur = f0 /\ frame[f0].ref = 0),
           IOApart' /\ SingleWrites' /\ OneFrame'
    PROVE  IInv'
<1>1. TypeOK /\ OnePlace /\ AccApart /\ OneEvictor /\ AccAt(t)
  BY Parts
<1>2. OnePlace'
  <2>1. ASSUME NEW f \in Frame, NEW r \in Req, NEW k \in Kind, NEW l \in Kind, In(f, r, k)', In(f, r, l)' PROVE k = l
    BY <1>1, <2>1 DEF OnePlace
  <2> QED BY <2>1 DEF OnePlace
<1>3. \A u \in Thread : th'[u].acc = th[u].acc
  OBVIOUS
<1>4. AccApart' /\ AccAt(t)'
  BY <1>1, <1>3 DEF AccApart, AccAt
<1>5. \A f \in Frame : frame[f].ref = 0 => \A u \in Thread : th[u].cur # f
  BY Unreferenced
<1>6. ASSUME NEW u \in Thread, NEW v \in Thread, th'[u].cur # None, th'[u].cur = th'[v].cur, th'[u].old # None, th'[v].old # None
      PROVE u = v
  BY <1>1, <1>5, <1>6 DEF OneEvictor
<1>7. OneEvictor'
  BY <1>6 DEF OneEvictor
<1>8. ASSUME NEW f \in Frame PROVE CountedAt(f)' /\ FlagsAt(f)' /\ IsInjective(frame'[f].reqs)
  <2>1. CASE f = f0
    BY <2>1
  <2>2. CASE f # f0
    <3>1. Unmoved(f)
      BY <2>2 DEF Unmoved
    <3>2. EvictKept(f)
      <4>1. ASSUME NEW u \in Thread, Evicting(u, f), frame[f].oldDirty PROVE Evicting(u, f)'
        <5>1. CASE u = t
          BY <2>2, <4>1, <5>1
        <5>2. CASE u # t
          BY <4>1, <5>2 DEF Evicting
        <5> QED BY <5>1, <5>2
      <4> QED BY <4>1 DEF EvictKept
    <3> QED BY <2>2, <3>1, <3>2, OtherFrame
  <2> QED BY <2>1, <2>2
<1>9. ASSUME NEW f \in Frame, NEW r \in Req, NEW k \in Kind, In(f, r, k) PROVE frame'[f].id = frame[f].id
  <2>1. frame[f].ref # 0
    BY <1>9, WithFrame
  <2> QED BY <2>1 DEF Touch, Same
<1>10. ASSUME NEW u \in Thread, u # t
       PROVE /\ EvictorAt(u)' /\ ControlAt(u)' /\ WorkingAt(u)' /\ QueuesAt(u)' /\ RepeatsAt(u)' /\ AccAt(u)'
  <2>1. ASSUME NEW r \in Req, rq[r].io = u PROVE r # r0
    BY <1>10, <2>1, NoneApart
  <2>2. ASSUME NEW r \in Req, rq[r].io = u PROVE rq'[r] = rq[r]
    BY <2>1, <2>2
  <2>3. ASSUME NEW f \in Frame, NEW r \in Req, NEW k \in Kind, rq[r].io = u
        PROVE (In(f, r, k)' => \E l \in Kind : In(f, r, l)) /\ (In(f, r, k) => frame'[f].id = frame[f].id)
    BY <1>9, <2>1, <2>3
  <2>4. ASSUME NEW f \in Frame, th[u].cur = f
        PROVE frame'[f].oldDirty = frame[f].oldDirty /\ (Evicting(u, f) /\ frame[f].oldDirty => ~frame'[f].pending)
    <3>1. frame[f].ref # 0
      BY <1>5, <2>4
    <3>2. Evicting(u, f) /\ frame[f].oldDirty => ~frame[f].pending
      BY Parts DEF EvictorAt
    <3>3. ASSUME Evicting(t, f), Evicting(u, f) PROVE FALSE
      <4>1. th[t].cur = f /\ th[u].cur = f /\ th[t].old # None /\ th[u].old # None
        BY <3>3 DEF Evicting
      <4> QED BY <1>1, <1>10, <4>1, NoneApart DEF OneEvictor
    <3> QED BY <3>1, <3>2, <3>3 DEF Touch, Same
  <2> QED BY <1>10, <2>2, <2>3, <2>4, OtherThread
<1>11. ASSUME NEW r \in Req PROVE RequestAt(r)'
  <2>1. CASE r = r0
    BY <2>1
  <2>2. CASE r # r0
    <3>1. \A f \in Frame, k \in Kind : In(f, r, k)' => In(f, r, k) /\ frame'[f].id = frame[f].id
      BY <1>9, <2>2
    <3> QED BY <2>2, <3>1, OtherRequest
  <2> QED BY <2>1, <2>2
<1>12. \A u \in Thread : EvictorAt(u)' /\ ControlAt(u)' /\ WorkingAt(u)' /\ QueuesAt(u)' /\ RepeatsAt(u)' /\ AccAt(u)'
  BY <1>4, <1>10
<1> QED BY <1>2, <1>4, <1>7, <1>8, <1>11, <1>12 DEF IInv

-------------------------------------------------------------------------------
(* The requests to the underlying I/O                                      *)

\* A request is a record of IO.
LEMMA RequestForm == ASSUME NEW t \in Thread, NEW op \in {"read", "write"}, NEW bufs \in SUBSET (Frame \X Page)
                     PROVE /\ Request(t, op, bufs) \in IO /\ Request(t, op, bufs).op = op /\ Request(t, op, bufs).io = t
                           /\ Request(t, op, bufs).bufs = bufs
                           /\ Request(t, op, bufs).multi = (Cardinality(bufs) > 1)
BY DEF Request, IO

\* The requests are records of IO, and their buffers are frames with pages.
LEMMA IosTyped == ASSUME TypeOK PROVE Ios \subseteq IO /\ \A io \in Ios : \A b \in io.bufs : b \in Frame \X Page /\ b[1] \in Frame
<1>1. ASSUME NEW u \in Thread PROVE ToSet(que[u].disk) \subseteq IO
  BY TypesForm, SeqSet DEF QueRec
<1>2. Ios \subseteq IO
  BY <1>1, TypesForm DEF Ios
<1>3. \A io \in IO : \A b \in io.bufs : b \in Frame \X Page /\ b[1] \in Frame
  BY DEF IO
<1> QED BY <1>2, <1>3

\* The I/O is untouched.
LEMMA IOSame == ASSUME IInv, flight' = flight,
                       \A u \in Thread : que'[u].disk = que[u].disk /\ th'[u].out = th[u].out,
                       \A u \in Thread : th[u].out = {} \/ OutOp(u)' = OutOp(u)
                PROVE IOApart' /\ Ios' = Ios /\ \A f \in Frame : SameCov(f)
<1>1. IOApart
  BY Parts
<1>2. Ios' = Ios
  BY DEF Ios
<1>3. IOApart'
  BY <1>1, <1>2 DEF IOApart
<1>4. ASSUME NEW f \in Frame, NEW op PROVE CovBy(f, op)' <=> CovBy(f, op)
  <2>1. \A u \in Thread : Cov(th[u].out, f) => OutOp(u)' = OutOp(u)
    BY DEF Cov
  <2>2. \A u \in Thread : Cov(th'[u].out, f) <=> Cov(th[u].out, f)
    BY DEF Cov
  <2> QED BY <1>2, <2>1, <2>2 DEF CovBy
<1> QED BY <1>2, <1>3, <1>4 DEF SameCov

\* No new writes, and old data stay.
LEMMA SingleSame == ASSUME IInv,
                           \A u \in Thread : th'[u].pc \in {"mergeF", "mergeB"} =>
                              th[u].pc \in {"mergeF", "mergeB"} /\ th[u].out \subseteq th'[u].out /\ th'[u].old = th[u].old,
                           \A io \in Ios' : io \in Ios \/ io.op = "read",
                           \A f \in Frame : frame[f].oldDirty => frame'[f].oldDirty
                    PROVE SingleWrites'
<1>1. SingleWrites /\ TypeOK
  BY Parts
<1>2. \A io \in Ios : \A b \in io.bufs : b[1] \in Frame
  BY <1>1, IosTyped
<1>3. ASSUME NEW u \in Thread, NEW b \in th[u].out PROVE b[1] \in Frame
  <2>1. th[u].out \subseteq Frame \X Page
    BY <1>1, TypesForm DEF ThRec
  <2> QED BY <2>1
<1>4. ASSUME NEW io \in Ios', io.op = "write", ~io.multi, NEW b \in io.bufs PROVE frame'[b[1]].oldDirty
  <2>1. frame[b[1]].oldDirty
    BY <1>1, <1>4 DEF SingleWrites
  <2> QED BY <1>2, <1>4, <2>1
<1>5. ASSUME NEW u \in Thread, th'[u].pc \in {"mergeF", "mergeB"}
      PROVE \E b \in th'[u].out : b[2] = th'[u].old /\ frame'[b[1]].oldDirty
  <2>1. PICK b \in th[u].out : b[2] = th[u].old /\ frame[b[1]].oldDirty
    BY <1>1, <1>5 DEF SingleWrites
  <2> QED BY <1>3, <1>5, <2>1
<1> QED BY <1>4, <1>5 DEF SingleWrites

\* One frame more is covered by the request that a thread is building, or the request is sent, or both.
LEMMA IOAdd == ASSUME IInv, TypeOK', NEW t \in Thread, NEW op \in {"read", "write"}, NEW X \in SUBSET (Frame \X Page),
                      \/ X = {}
                      \/ \E f \in Frame, p \in Page : X = {<<f, p>>} /\ ~CovBy(f, "read") /\ ~CovBy(f, "write"),
                      \A u \in Thread : que'[u].disk = que[u].disk,
                      \A u \in Thread \ {t} : th'[u] = th[u],
                      th[t].out = {} \/ OutOp(t) = op,
                      \/ flight' = flight /\ th'[t].out = th[t].out \cup X /\ OutOp(t)' = op
                      \/ /\ flight' = flight \cup {Request(t, op, th[t].out \cup X)} /\ th'[t].out = {}
                         /\ th[t].out \cup X # {}
               PROVE /\ IOApart'
                     /\ \A f \in Frame, o \in {"read", "write"} : CovBy(f, o)' <=> CovBy(f, o) \/ (o = op /\ Cov(X, f))
                     /\ \A io \in Ios' : io \in Ios \/ (io = Request(t, op, th[t].out \cup X) /\ io \in flight')
<1> DEFINE B == th[t].out \cup X
           R == Request(t, op, B)
<1>1. IOApart /\ TypeOK
  BY Parts
<1>2. /\ \A io \in Ios : io.bufs # {} /\ BufsOK(io.bufs)
      /\ \A u \in Thread : BufsOK(th[u].out)
      /\ \A u \in Thread : \A io \in ToSet(que[u].disk) : io.io = u /\ io \notin flight
      /\ \A f \in Frame : \A io, jo \in Ios : Cov(io.bufs, f) /\ Cov(jo.bufs, f) => io = jo
      /\ \A f \in Frame : \A io \in Ios, u \in Thread : ~(Cov(io.bufs, f) /\ Cov(th[u].out, f))
      /\ \A f \in Frame : \A u, v \in Thread : Cov(th[u].out, f) /\ Cov(th[v].out, f) => u = v
  BY <1>1 DEF IOApart
<1>3. th[t].out \subseteq Frame \X Page /\ B \subseteq Frame \X Page /\ \A b \in B : b[1] \in Frame
  BY <1>1, TypesForm DEF ThRec
<1>4. \A f : Cov(B, f) <=> Cov(th[t].out, f) \/ Cov(X, f)
  BY DEF Cov
<1>5. \A io \in IO : io.op = "read" \/ io.op = "write"
  BY DEF IO
<1>6. \A io \in Ios : io \in IO
  BY <1>1, IosTyped
<1>7. \A u \in Thread : OutOp(u) \in {"read", "write"}
  BY DEF OutOp
<1>8. ASSUME NEW f \in Frame, Cov(X, f) PROVE (\A io \in Ios : ~Cov(io.bufs, f)) /\ \A u \in Thread : ~Cov(th[u].out, f)
  <2>1. ~CovBy(f, "read") /\ ~CovBy(f, "write")
    BY <1>8 DEF Cov
  <2> QED BY <1>5, <1>6, <1>7, <2>1 DEF CovBy
<1>9. BufsOK(B)
  <2>1. BufsOK(th[t].out) /\ BufsOK(X)
    <3>1. IsFiniteSet(X)
      <4>1. CASE X = {}
        BY <4>1, FS_EmptySet
      <4>2. ASSUME NEW x, X = {x} PROVE IsFiniteSet(X)
        BY <4>2, FS_Singleton
      <4> QED BY <4>1, <4>2
    <3>2. \A b, c \in X : b = c
      OBVIOUS
    <3> QED BY <1>2, <3>1, <3>2 DEF BufsOK
  <2>2. IsFiniteSet(B)
    BY <2>1, FS_Union DEF BufsOK
  <2>3. ASSUME NEW b \in th[t].out, NEW c \in X PROVE b[1] # c[1]
    <3>1. Cov(X, c[1]) /\ c[1] \in Frame /\ Cov(th[t].out, b[1])
      BY DEF Cov
    <3> QED BY <1>8, <3>1
  <2>4. ASSUME NEW b \in B, NEW c \in B, b[1] = c[1] PROVE b = c
    BY <2>1, <2>3, <2>4 DEF BufsOK
  <2> QED BY <2>2, <2>4 DEF BufsOK
<1>10. \A f \in Frame : Cov(B, f) => (\A io \in Ios : ~Cov(io.bufs, f)) /\ \A u \in Thread \ {t} : ~Cov(th[u].out, f)
  BY <1>2, <1>4, <1>8
<1>11. R \in IO /\ R.op = op /\ R.io = t /\ R.bufs = B
  BY <1>3, RequestForm
<1> HIDE DEF B, R
<1>12. Ios = flight \cup UNION {ToSet(que[u].disk) : u \in Thread}
  BY DEF Ios
<1>13. Ios' = flight' \cup UNION {ToSet(que[u].disk) : u \in Thread}
  BY DEF Ios
<1>14. CASE flight' = flight /\ th'[t].out = B /\ OutOp(t)' = op
  <2>1. Ios' = Ios
    BY <1>12, <1>13, <1>14
  <2>2. \A u \in Thread : th'[u].out = IF u = t THEN B ELSE th[u].out
    BY <1>14
  <2>3. \A u \in Thread : BufsOK(th'[u].out)
    BY <1>2, <1>9, <2>2
  <2>4. \A f \in Frame : \A io \in Ios, u \in Thread : ~(Cov(io.bufs, f) /\ Cov(th'[u].out, f))
    BY <1>2, <1>10, <2>2
  <2>5. \A f \in Frame : \A u, v \in Thread : Cov(th'[u].out, f) /\ Cov(th'[v].out, f) => u = v
    <3> SUFFICES ASSUME NEW f \in Frame, NEW u \in Thread, NEW v \in Thread, Cov(th'[u].out, f), Cov(th'[v].out, f), u # v
                 PROVE FALSE
      OBVIOUS
    <3>1. CASE u = t
      BY <1>10, <2>2, <3>1
    <3>2. CASE v = t
      BY <1>10, <2>2, <3>2
    <3>3. CASE u # t /\ v # t
      BY <1>2, <2>2, <3>3
    <3> QED BY <3>1, <3>2, <3>3
  <2>6. IOApart'
    BY <1>2, <1>14, <2>1, <2>3, <2>4, <2>5 DEF IOApart
  <2>7. \A u \in Thread \ {t} : OutOp(u)' = OutOp(u)
    BY DEF OutOp
  <2>8. ASSUME NEW f \in Frame, NEW o \in {"read", "write"} PROVE CovBy(f, o)' <=> CovBy(f, o) \/ (o = op /\ Cov(X, f))
    <3>1. CovBy(f, o)' <=> \/ \E io \in Ios : io.op = o /\ Cov(io.bufs, f)
                           \/ \E u \in Thread \ {t} : OutOp(u) = o /\ Cov(th[u].out, f)
                           \/ (op = o /\ Cov(B, f))
      BY <1>14, <2>1, <2>2, <2>7 DEF CovBy
    <3>2. CovBy(f, o) <=> \/ \E io \in Ios : io.op = o /\ Cov(io.bufs, f)
                          \/ \E u \in Thread \ {t} : OutOp(u) = o /\ Cov(th[u].out, f)
                          \/ (OutOp(t) = o /\ Cov(th[t].out, f))
      BY DEF CovBy
    <3>3. Cov(th[t].out, f) => OutOp(t) = op
      BY DEF Cov
    <3> QED BY <1>4, <3>1, <3>2, <3>3
  <2> QED BY <2>1, <2>6, <2>8 DEF B, R
<1>15. CASE flight' = flight \cup {R} /\ th'[t].out = {} /\ B # {}
  <2>1. Ios' = Ios \cup {R}
    BY <1>12, <1>13, <1>15
  <2>2. \A f : ~Cov({}, f)
    BY DEF Cov
  <2>3. \A u \in Thread : th'[u].out = IF u = t THEN {} ELSE th[u].out
    BY <1>15
  <2>4. BufsOK({})
    BY FS_EmptySet DEF BufsOK
  <2>5. \E f \in Frame : Cov(B, f)
    BY <1>3, <1>15 DEF Cov
  <2>6. R \notin Ios
    BY <1>10, <1>11, <2>5
  <2>7. \A u \in Thread : \A io \in ToSet(que[u].disk) : io.io = u /\ io \notin flight'
    <3>1. \A u \in Thread : \A io \in ToSet(que[u].disk) : io \in Ios
      BY <1>12
    <3> QED BY <1>2, <1>15, <2>6, <3>1
  <2>8. \A io \in Ios' : io.bufs # {} /\ BufsOK(io.bufs)
    BY <1>2, <1>9, <1>11, <1>15, <2>1
  <2>9. \A u \in Thread : BufsOK(th'[u].out)
    BY <1>2, <2>3, <2>4
  <2>10. \A f \in Frame : \A io, jo \in Ios' : Cov(io.bufs, f) /\ Cov(jo.bufs, f) => io = jo
    BY <1>2, <1>10, <1>11, <2>1
  <2>11. \A f \in Frame : \A io \in Ios', u \in Thread : ~(Cov(io.bufs, f) /\ Cov(th'[u].out, f))
    BY <1>2, <1>10, <1>11, <2>1, <2>2, <2>3
  <2>12. \A f \in Frame : \A u, v \in Thread : Cov(th'[u].out, f) /\ Cov(th'[v].out, f) => u = v
    BY <1>2, <2>2, <2>3
  <2>13. IOApart'
    BY <2>7, <2>8, <2>9, <2>10, <2>11, <2>12 DEF IOApart
  <2>14. \A u \in Thread \ {t} : OutOp(u)' = OutOp(u)
    BY DEF OutOp
  <2>15. ASSUME NEW f \in Frame, NEW o \in {"read", "write"} PROVE CovBy(f, o)' <=> CovBy(f, o) \/ (o = op /\ Cov(X, f))
    <3>1. CovBy(f, o)' <=> \/ \E io \in Ios : io.op = o /\ Cov(io.bufs, f)
                           \/ (op = o /\ Cov(B, f))
                           \/ \E u \in Thread \ {t} : OutOp(u) = o /\ Cov(th[u].out, f)
      <4>1. (\E io \in Ios' : io.op = o /\ Cov(io.bufs, f)) <=>
               (\E io \in Ios : io.op = o /\ Cov(io.bufs, f)) \/ (op = o /\ Cov(B, f))
        BY <1>11, <2>1
      <4>2. (\E u \in Thread : OutOp(u)' = o /\ Cov(th'[u].out, f)) <=>
               \E u \in Thread \ {t} : OutOp(u) = o /\ Cov(th[u].out, f)
        BY <2>2, <2>3, <2>14
      <4> QED BY <4>1, <4>2 DEF CovBy
    <3>2. CovBy(f, o) <=> \/ \E io \in Ios : io.op = o /\ Cov(io.bufs, f)
                          \/ \E u \in Thread \ {t} : OutOp(u) = o /\ Cov(th[u].out, f)
                          \/ (OutOp(t) = o /\ Cov(th[t].out, f))
      BY DEF CovBy
    <3>3. Cov(th[t].out, f) => OutOp(t) = op
      BY DEF Cov
    <3> QED BY <1>4, <3>1, <3>2, <3>3
  <2> QED BY <1>15, <2>1, <2>13, <2>15 DEF B, R
<1> QED BY <1>14, <1>15 DEF B, R

-------------------------------------------------------------------------------
(* What a step does to its frame                                           *)

\* The list of a frame grows at its head.
LEMMA ListGrows == ASSUME NEW s \in Seq(Req), NEW r \in Req, IsInjective(s), r \notin ToSet(s)
                   PROVE /\ <<r>> \o s \in Seq(Req) /\ IsInjective(<<r>> \o s) /\ <<r>> \o s # <<>>
                         /\ ToSet(<<r>> \o s) = ToSet(s) \cup {r}
BY SeqCons, Zenon

\* SearchHit: one more request has the frame.
LEMMA FrameHit == ASSUME IInv, NEW f \in Frame, NEW r \in Req, \A k \in Kind : ~In(f, r, k), Moved(f, r, "cur"),
                         frame'[f] = [frame[f] EXCEPT !.ref = @ + 1], SameCov(f), EvictKept(f)
                  PROVE CountedAt(f)' /\ FlagsAt(f)' /\ IsInjective(frame'[f].reqs)
<1>1. CountedAt(f) /\ FlagsAt(f) /\ IsInjective(frame[f].reqs) /\ frame[f] \in FrameRec
  BY Parts, TypesForm
<1>2. /\ frame'[f].id = frame[f].id /\ frame'[f].ready = frame[f].ready /\ frame'[f].pending = frame[f].pending
      /\ frame'[f].dirty = frame[f].dirty /\ frame'[f].oldDirty = frame[f].oldDirty /\ frame'[f].reqs = frame[f].reqs
      /\ frame'[f].ref = frame[f].ref + 1
  BY <1>1 DEF FrameRec
<1>3. Cardinality(Users(f)') = Cardinality(Users(f)) + 1 /\ Cardinality(Users(f)) \in Nat
  BY UsersMoved DEF Kind
<1>4. CountedAt(f)'
  BY <1>1, <1>2, <1>3 DEF CountedAt, SameCov
<1>5. \A s \in Req, k \in Kind : In(f, s, k)' /\ k # "cur" => In(f, s, k)
  BY DEF Moved
<1>6. frame[f].oldDirty /\ ~frame[f].pending => \E u \in Thread : Evicting(u, f)'
  BY <1>1 DEF FlagsAt, EvictKept
<1> QED BY <1>1, <1>2, <1>4, <1>5, <1>6 DEF FlagsAt, SameCov

\* Classify and UseRead: the request goes on to wait in the batch or among the cached requests.
LEMMA FrameKeep == ASSUME IInv, NEW f \in Frame, NEW r \in Req, NEW k \in Kind, In(f, r, k), NEW l \in {"batch", "cached"},
                          Moved(f, r, l), frame'[f] = frame[f], ~frame[f].oldDirty, l = "cached" => frame[f].ready, SameCov(f)
                   PROVE CountedAt(f)' /\ FlagsAt(f)' /\ IsInjective(frame'[f].reqs)
<1>1. CountedAt(f) /\ FlagsAt(f) /\ IsInjective(frame[f].reqs)
  BY Parts
<1>2. l \in Kind /\ l # "none"
  BY DEF Kind
<1>3. Cardinality(Users(f)') = Cardinality(Users(f))
  BY <1>2, UsersMoved
<1>4. CountedAt(f)'
  BY <1>1, <1>3 DEF CountedAt, SameCov
<1>5. \A s \in Req, j \in Kind : In(f, s, j)' => In(f, s, j) \/ (s = r /\ j = l)
  BY DEF Moved
<1> QED BY <1>1, <1>4, <1>5 DEF FlagsAt, SameCov

\* Enqueue and WaitOldDirty: the request joins the list of the frame.
LEMMA FrameEnlist == ASSUME IInv, NEW f \in Frame, NEW r \in Req, NEW k \in Kind, In(f, r, k), k # "reqs",
                            Moved(f, r, "reqs"), frame'[f] = AddReq(frame[f], r), frame[f].pending \/ frame[f].oldDirty,
                            SameCov(f), EvictKept(f)
                     PROVE CountedAt(f)' /\ FlagsAt(f)' /\ IsInjective(frame'[f].reqs)
<1>1. CountedAt(f) /\ FlagsAt(f) /\ IsInjective(frame[f].reqs) /\ frame[f] \in FrameRec
  BY Parts, TypesForm
<1>2. /\ frame'[f].id = frame[f].id /\ frame'[f].ready = frame[f].ready /\ frame'[f].pending = frame[f].pending
      /\ frame'[f].dirty = frame[f].dirty /\ frame'[f].oldDirty = frame[f].oldDirty
      /\ frame'[f].ref = frame[f].ref /\ frame'[f].reqs = <<r>> \o frame[f].reqs /\ frame[f].reqs \in Seq(Req)
  BY <1>1 DEF FrameRec, AddReq
<1>3. r \notin ToSet(frame[f].reqs)
  <2>1. r \in ToSet(frame[f].reqs) => In(f, r, "reqs")
    BY DEF In
  <2> QED BY <2>1, WithFrame DEF Kind
<1>4. IsInjective(frame'[f].reqs) /\ frame'[f].reqs # <<>>
  <2>1. IsInjective(frame[f].reqs) /\ frame[f].reqs \in Seq(Req)
    BY <1>1, <1>2
  <2>2. IsInjective(<<r>> \o frame[f].reqs) /\ <<r>> \o frame[f].reqs # <<>>
    BY <1>3, <2>1, ListGrows
  <2> QED BY <1>2, <2>2
<1>5. Cardinality(Users(f)') = Cardinality(Users(f))
  BY UsersMoved DEF Kind
<1>6. CountedAt(f)'
  BY <1>1, <1>2, <1>5 DEF CountedAt, SameCov
<1>7. \A s \in Req, j \in Kind : In(f, s, j)' => In(f, s, j) \/ (s = r /\ j = "reqs")
  BY DEF Moved
<1>8. frame[f].oldDirty /\ ~frame[f].pending => \E u \in Thread : Evicting(u, f)'
  BY <1>1 DEF FlagsAt, EvictKept
<1> QED BY <1>1, <1>2, <1>4, <1>6, <1>7, <1>8 DEF FlagsAt, SameCov

\* StartRead and WriteDirtyPage: the request joins the list and an I/O of the frame begins.
Started(pg, n, r, op) ==
    /\ n.id = pg.id /\ n.ready = pg.ready /\ n.pending = TRUE /\ n.dirty = pg.dirty /\ n.oldDirty = pg.oldDirty
    /\ n.ref = (IF op = "write" THEN pg.ref + 1 ELSE pg.ref) /\ n.reqs = <<r>> \o pg.reqs
LEMMA FrameStart == ASSUME IInv, NEW f \in Frame, NEW r \in Req, NEW k \in Kind, In(f, r, k), k # "reqs", NEW op \in {"read", "write"},
                           Moved(f, r, "reqs"), ~frame[f].pending, op = "read" => ~frame[f].ready /\ ~frame[f].oldDirty,
                           Started(frame[f], frame'[f], r, op),
                           \A o \in {"read", "write"} : CovBy(f, o)' <=> CovBy(f, o) \/ o = op
                    PROVE CountedAt(f)' /\ FlagsAt(f)' /\ IsInjective(frame'[f].reqs)
<1>1. CountedAt(f) /\ FlagsAt(f) /\ IsInjective(frame[f].reqs) /\ frame[f] \in FrameRec
  BY Parts, TypesForm
<1>2. /\ frame'[f].id = frame[f].id /\ frame'[f].ready = frame[f].ready /\ frame'[f].pending = TRUE
      /\ frame'[f].dirty = frame[f].dirty /\ frame'[f].oldDirty = frame[f].oldDirty
      /\ frame'[f].ref = (IF op = "write" THEN frame[f].ref + 1 ELSE frame[f].ref)
      /\ frame'[f].reqs = <<r>> \o frame[f].reqs /\ frame[f].reqs \in Seq(Req) /\ frame[f].ref \in Nat
  BY <1>1 DEF FrameRec, Started
<1>3. r \notin ToSet(frame[f].reqs)
  <2>1. r \in ToSet(frame[f].reqs) => In(f, r, "reqs")
    BY DEF In
  <2> QED BY <2>1, WithFrame DEF Kind
<1>4. IsInjective(frame'[f].reqs) /\ frame'[f].reqs # <<>>
  <2>1. IsInjective(frame[f].reqs) /\ frame[f].reqs \in Seq(Req)
    BY <1>1, <1>2
  <2>2. IsInjective(<<r>> \o frame[f].reqs) /\ <<r>> \o frame[f].reqs # <<>>
    BY <1>3, <2>1, ListGrows
  <2> QED BY <1>2, <2>2
<1>5. Cardinality(Users(f)') = Cardinality(Users(f)) /\ Cardinality(Users(f)) \in Nat
  BY UsersMoved DEF Kind
<1>6. ~CovBy(f, "read") /\ ~CovBy(f, "write")
  BY <1>1 DEF FlagsAt
<1>7. (CovBy(f, "read")' <=> op = "read") /\ (CovBy(f, "write")' <=> op = "write")
  BY <1>6
<1>8. CountedAt(f)'
  BY <1>1, <1>2, <1>5, <1>6, <1>7 DEF CountedAt
<1>9. \A s \in Req, j \in Kind : In(f, s, j)' => In(f, s, j) \/ (s = r /\ j = "reqs")
  BY DEF Moved
<1> QED BY <1>1, <1>2, <1>4, <1>7, <1>8, <1>9 DEF FlagsAt

\* Merged: a write covers the frame, its requests stay.
LEMMA FrameMerge == ASSUME IInv, NEW f \in Frame, Unmoved(f), ~frame[f].pending, frame[f].dirty,
                           frame'[f] = Writing(frame[f]),
                           \A o \in {"read", "write"} : CovBy(f, o)' <=> CovBy(f, o) \/ o = "write"
                    PROVE CountedAt(f)' /\ FlagsAt(f)' /\ IsInjective(frame'[f].reqs)
<1>1. CountedAt(f) /\ FlagsAt(f) /\ IsInjective(frame[f].reqs) /\ frame[f] \in FrameRec
  BY Parts, TypesForm
<1>2. /\ frame'[f].id = frame[f].id /\ frame'[f].ready = frame[f].ready /\ frame'[f].pending = TRUE
      /\ frame'[f].dirty = frame[f].dirty /\ frame'[f].oldDirty = frame[f].oldDirty
      /\ frame'[f].ref = frame[f].ref + 1 /\ frame'[f].reqs = frame[f].reqs /\ frame[f].ref \in Nat
  BY <1>1 DEF FrameRec, Writing
<1>3. Users(f)' = Users(f) /\ Users(f) \subseteq Req
  BY UsersForm DEF Unmoved
<1>4. Cardinality(Users(f)) \in Nat
  BY <1>3, CountUsers
<1>5. ~CovBy(f, "read") /\ ~CovBy(f, "write")
  BY <1>1 DEF FlagsAt
<1>6. ~CovBy(f, "read")' /\ CovBy(f, "write")'
  BY <1>5
<1>7. CountedAt(f)'
  BY <1>1, <1>2, <1>3, <1>4, <1>5, <1>6 DEF CountedAt
<1> QED BY <1>1, <1>2, <1>6, <1>7 DEF FlagsAt, Unmoved

\* ReadReady, WriteReady and CachedReq: the request is served from the frame and gives it back or keeps it.
LEMMA FrameServe == ASSUME IInv, NEW f \in Frame, NEW r \in Req, NEW k \in Kind, In(f, r, k), NEW l \in {"none", "held"},
                           Moved(f, r, l), frame[f].ready \/ ~frame[f].pending, ~frame[f].oldDirty,
                           frame'[f].id = frame[f].id, frame'[f].ready = TRUE, frame'[f].pending = frame[f].pending,
                           frame'[f].oldDirty = frame[f].oldDirty, frame'[f].reqs = frame[f].reqs,
                           frame'[f].ref = IF l = "none" THEN frame[f].ref - 1 ELSE frame[f].ref, SameCov(f)
                    PROVE CountedAt(f)' /\ FlagsAt(f)' /\ IsInjective(frame'[f].reqs) /\ frame'[f].ref \in Nat
<1>1. CountedAt(f) /\ FlagsAt(f) /\ IsInjective(frame[f].reqs) /\ frame[f] \in FrameRec /\ frame[f].ref \in Nat
  BY Parts, TypesForm DEF FrameRec
<1>2. Cardinality(Users(f)') = (IF l = "none" THEN Cardinality(Users(f)) - 1 ELSE Cardinality(Users(f))) /\ Cardinality(Users(f)) \in Nat
      /\ Cardinality(Users(f)') \in Nat
  BY UsersMoved DEF Kind
<1>3. CountedAt(f)' /\ frame'[f].ref \in Nat
  BY <1>1, <1>2 DEF CountedAt, SameCov
<1>4. \A s \in Req, j \in Kind : In(f, s, j)' => In(f, s, j) \/ (s = r /\ j = l)
  BY DEF Moved
<1>5. ~CovBy(f, "read")
  BY <1>1 DEF FlagsAt
<1>6. frame[f].id # None
  BY WithFrame, NoneApart
<1>7. frame[f].reqs # <<>> => frame[f].pending
  BY <1>1 DEF FlagsAt
<1> QED BY <1>1, <1>3, <1>4, <1>5, <1>6, <1>7 DEF FlagsAt, SameCov

\* SearchMiss: the frame is given to another page.
LEMMA FrameEvict == ASSUME IInv, NEW f \in Frame, NEW r \in Req, frame[f].ref = 0, NEW p \in Page, Moved(f, r, "cur"),
                           frame'[f] = Evicted(f, p), SameCov(f),
                           NEW t \in Thread, frame[f].dirty => Evicting(t, f)'
                    PROVE /\ CountedAt(f)' /\ FlagsAt(f)' /\ IsInjective(frame'[f].reqs)
                          /\ frame'[f].oldDirty = frame[f].dirty /\ ~frame'[f].dirty /\ ~frame'[f].pending
<1>1. CountedAt(f) /\ FlagsAt(f) /\ IsInjective(frame[f].reqs) /\ frame[f] \in FrameRec
  BY Parts, TypesForm
<1>2. /\ Users(f) = {} /\ (\A s \in Req, k \in Kind : ~In(f, s, k)) /\ ~frame[f].oldDirty
      /\ ~CovBy(f, "read") /\ ~CovBy(f, "write") /\ ~frame[f].pending /\ frame[f].reqs = <<>>
  BY Unreferenced
<1>3. /\ frame'[f].id = p /\ frame'[f].ready = FALSE /\ frame'[f].pending = frame[f].pending
      /\ frame'[f].dirty = FALSE /\ frame'[f].oldDirty = frame[f].dirty /\ frame'[f].ref = 1 /\ frame'[f].reqs = <<>>
  BY <1>1, <1>2 DEF FrameRec, Evicted
<1>4. Cardinality(Users(f)) = 0
  BY <1>2, CountUsers
<1>5. Cardinality(Users(f)') = 1
  <2>1. r \notin Users(f) /\ "cur" \in Kind /\ "cur" # "none"
    BY <1>2 DEF Kind
  <2>2. Cardinality(Users(f)') = Cardinality(Users(f)) + 1
    BY <2>1, UsersMoved
  <2> QED BY <1>4, <2>2
<1>6. CountedAt(f)'
  BY <1>2, <1>3, <1>5 DEF CountedAt, SameCov
<1>7. \A s \in Req, k \in Kind : In(f, s, k)' => k = "cur"
  BY <1>2 DEF Moved
<1> QED BY <1>2, <1>3, <1>6, <1>7, EmptySet, NoneApart DEF FlagsAt, SameCov

-------------------------------------------------------------------------------
(* What a step does to its request and its thread                          *)

\* The types after a step.
LEMMA TypesNext == TypeOK' <=> /\ frame' \in [Frame -> FrameRec] /\ disk' \in [Page -> BOOLEAN] /\ raced' \subseteq Page
                               /\ flight' \subseteq IO /\ que' \in [Thread -> QueRec]
                               /\ th' \in [Thread -> ThRec] /\ rq' \in [Req -> ReqRec]
BY DEF TypeOK, FrameRec, QueRec, ThRec, ReqRec, Pcs

\* One value of a function changes.
LEMMA OneValue == ASSUME NEW D, NEW R, NEW F \in [D -> R], NEW x \in D, NEW y \in R
                  PROVE LET G == [F EXCEPT ![x] = y] IN G \in [D -> R] /\ G[x] = y /\ \A z \in D \ {x} : G[z] = F[z]
OBVIOUS

\* The elements of a frame's, a thread's, a queue's and a request's record.
LEMMA Records == ASSUME TypeOK
                 PROVE /\ \A f \in Frame : /\ frame[f] \in FrameRec /\ frame[f].id \in Page \cup {None} /\ frame[f].reqs \in Seq(Req)
                                           /\ frame[f].ref \in Nat
                       /\ \A t \in Thread : /\ th[t] \in ThRec /\ th[t].proc \in Req \cup {None} /\ th[t].arg \in Req \cup {None}
                                            /\ th[t].cur \in Frame \cup {None} /\ th[t].batch \in Seq(Frame)
                                            /\ th[t].nxt \in 0 .. NumPages /\ th[t].nxt \in Nat /\ th[t].out \in SUBSET (Frame \X Page)
                                            /\ th[t].acc \in Seq(Frame \X Seq(Req)) /\ th[t].old \in 0 .. NumPages \cup {None}
                       /\ \A t \in Thread : /\ que[t] \in QueRec /\ que[t].pend \in Seq(Frame \X Req) /\ que[t].disk \in Seq(IO)
                                            /\ que[t].cached \in Seq(Frame \X Req) /\ que[t].comp \in Seq(Req) /\ que[t].user \in Seq(Req)
                       /\ \A r \in Req : /\ rq[r] \in ReqRec /\ rq[r].first \in Page /\ rq[r].last \in Page /\ rq[r].done \in SUBSET Page
                                         /\ rq[r].held \in SUBSET Frame /\ rq[r].first \in Nat /\ rq[r].last \in Nat
<1>1. /\ frame \in [Frame -> FrameRec] /\ que \in [Thread -> QueRec] /\ th \in [Thread -> ThRec] /\ rq \in [Req -> ReqRec]
  BY TypesForm
<1>2. ASSUME NEW f \in Frame PROVE /\ frame[f] \in FrameRec /\ frame[f].id \in Page \cup {None} /\ frame[f].reqs \in Seq(Req)
                                   /\ frame[f].ref \in Nat
  BY <1>1 DEF FrameRec
<1>3. ASSUME NEW t \in Thread PROVE /\ th[t] \in ThRec /\ th[t].proc \in Req \cup {None} /\ th[t].arg \in Req \cup {None}
                                    /\ th[t].cur \in Frame \cup {None} /\ th[t].batch \in Seq(Frame)
                                    /\ th[t].nxt \in 0 .. NumPages /\ th[t].nxt \in Nat /\ th[t].out \in SUBSET (Frame \X Page)
                                    /\ th[t].acc \in Seq(Frame \X Seq(Req)) /\ th[t].old \in 0 .. NumPages \cup {None}
  BY <1>1, NoneApart DEF ThRec
<1>4. ASSUME NEW t \in Thread PROVE /\ que[t] \in QueRec /\ que[t].pend \in Seq(Frame \X Req) /\ que[t].disk \in Seq(IO)
                                    /\ que[t].cached \in Seq(Frame \X Req) /\ que[t].comp \in Seq(Req) /\ que[t].user \in Seq(Req)
  BY <1>1 DEF QueRec
<1>5. ASSUME NEW r \in Req PROVE /\ rq[r] \in ReqRec /\ rq[r].first \in Page /\ rq[r].last \in Page /\ rq[r].done \in SUBSET Page
                                 /\ rq[r].held \in SUBSET Frame /\ rq[r].first \in Nat /\ rq[r].last \in Nat
  BY <1>1, NoneApart DEF ReqRec
<1> QED BY <1>2, <1>3, <1>4, <1>5

\* The request a thread works on.
LEMMA WorkingOn == ASSUME IInv, NEW t \in Thread, th[t].proc # None
                   PROVE /\ th[t].proc \in Req /\ rq[th[t].proc].io = t /\ rq[th[t].proc].st = "taken"
                         /\ rq[th[t].proc].first <= th[t].nxt /\ th[t].nxt <= rq[th[t].proc].last + 1
BY Parts, Records DEF WorkingAt

\* A request moves and stays the same.
LEMMA ReqMoved == ASSUME IInv, NEW f \in Frame, NEW r \in Req, NEW l \in Kind \ {"held"}, Moved(f, r, l), rq'[r] = rq[r],
                         rq[r].st = "taken", frame'[f].id \in PagesOf(r) \ rq[r].done,
                         \A g \in Frame \ {f} : frame'[g].id = frame[g].id
                  PROVE RequestAt(r)'
<1>1. RequestAt(r)
  BY Parts
<1>2. \A k \in Kind : In(f, r, k)' => k = l
  BY DEF Moved
<1>3. \A g \in Frame \ {f}, k \in Kind : In(g, r, k)' => In(g, r, k)
  BY DEF Moved
<1>4. ASSUME NEW g \in Frame, NEW k \in Kind, In(g, r, k)'
      PROVE frame'[g].id \in PagesOf(r) /\ (k = "held" <=> frame'[g].id \in rq[r].done)
  <2>1. CASE g = f
    BY <1>2, <1>4, <2>1
  <2>2. CASE g # f
    BY <1>1, <1>3, <1>4, <2>2 DEF RequestAt
  <2> QED BY <2>1, <2>2
<1> QED BY <1>1, <1>4 DEF RequestAt, PagesOf

\* finalize_partial_request: one page more of the request is done, its frame is kept or given back.
LEMMA ReqServed == ASSUME IInv, NEW f \in Frame, NEW r \in Req, NEW k \in Kind \ {"held"}, In(f, r, k),
                          NEW keep \in {{}, {f}}, Moved(f, r, IF keep = {} THEN "none" ELSE "held"),
                          rq' = Finalized(r, frame[f].id, keep), \A g \in Frame : frame'[g].id = frame[g].id
                   PROVE /\ RequestAt(r)' /\ rq' \in [Req -> ReqRec] /\ \A s \in Req \ {r} : rq'[s] = rq[s]
                         /\ rq'[r].st = rq[r].st /\ rq'[r].op = rq[r].op /\ rq'[r].io = rq[r].io /\ rq'[r].first = rq[r].first
                         /\ rq'[r].last = rq[r].last /\ rq'[r].done = rq[r].done \cup {frame[f].id}
                         /\ rq'[r].held = rq[r].held \cup keep /\ frame[f].id \notin rq[r].done
<1> DEFINE p == frame[f].id
<1>1. RequestAt(r) /\ OneFrame /\ TypeOK
  BY Parts
<1>2. rq \in [Req -> ReqRec] /\ rq[r] \in ReqRec
  BY <1>1, TypesForm
<1>3. p \in Page /\ p \in PagesOf(r) /\ p \notin rq[r].done /\ rq[r].st = "taken"
  BY WithFrame
<1>4. rq' = [rq EXCEPT ![r] = [rq[r] EXCEPT !.done = @ \cup {p}, !.held = @ \cup keep]]
  BY <1>2 DEF Finalized, ReqRec
<1> HIDE DEF p
<1>5. [rq[r] EXCEPT !.done = @ \cup {p}, !.held = @ \cup keep] \in ReqRec
  BY <1>2, <1>3 DEF ReqRec
<1>6. /\ rq' \in [Req -> ReqRec] /\ (\A s \in Req \ {r} : rq'[s] = rq[s])
      /\ rq'[r] = [rq[r] EXCEPT !.done = @ \cup {p}, !.held = @ \cup keep]
  BY <1>2, <1>4, <1>5
<1>7. /\ rq'[r].st = rq[r].st /\ rq'[r].op = rq[r].op /\ rq'[r].io = rq[r].io /\ rq'[r].first = rq[r].first
      /\ rq'[r].last = rq[r].last /\ rq'[r].done = rq[r].done \cup {p} /\ rq'[r].held = rq[r].held \cup keep
  BY <1>2, <1>6 DEF ReqRec
<1>8. ASSUME NEW g \in Frame, NEW j \in Kind, In(g, r, j)'
      PROVE frame'[g].id \in PagesOf(r) /\ (j = "held" <=> frame'[g].id \in rq'[r].done)
  <2>1. CASE g = f
    <3>1. j = "held"
      BY <1>8, <2>1 DEF Moved, Kind
    <3> QED BY <1>3, <1>7, <2>1, <3>1 DEF p
  <2>2. CASE g # f
    <3>1. In(g, r, j)
      BY <1>8, <2>2 DEF Moved
    <3>2. frame[g].id # p
      BY <1>1, <1>3, <2>2, NoneApart DEF OneFrame, p
    <3> QED BY <1>1, <1>7, <3>1, <3>2 DEF RequestAt
  <2> QED BY <2>1, <2>2
<1>9. PagesOf(r)' = PagesOf(r)
  BY <1>7 DEF PagesOf
<1>10. RequestAt(r)'
  BY <1>1, <1>3, <1>7, <1>8, <1>9 DEF RequestAt
<1> QED BY <1>3, <1>6, <1>7, <1>10 DEF p

\* A thread that leaves its queues and the requests alone.
LEMMA QueuesSame == ASSUME IInv, NEW t \in Thread, que'[t] = que[t], rq' = rq, th'[t].batch = th[t].batch
                    PROVE QueuesAt(t)' /\ RepeatsAt(t)'
<1>1. QueuesAt(t) /\ RepeatsAt(t)
  BY Parts
<1>2. QueuesAt(t)'
  BY <1>1 DEF QueuesAt, WithinOnePage, PagesOf
<1>3. RepeatsAt(t)'
  BY <1>1 DEF RepeatsAt
<1> QED BY <1>2, <1>3

\* A thread without a page evicts none.
LEMMA NoEvictor == ASSUME NEW t \in Thread, th'[t].cur = None, th'[t].pc # "use" PROVE EvictorAt(t)'
<1>1. \A f \in Frame : ~Evicting(t, f)'
  BY NoneApart DEF Evicting
<1> QED BY <1>1 DEF EvictorAt

\* A thread that goes on with its request, or is done with it.
LEMMA WorkingKept == ASSUME IInv, NEW t \in Thread, th'[t].arg \in {th[t].arg, None}, th'[t].proc \in {th[t].proc, None},
                            th'[t].nxt = th[t].nxt, th'[t].cur \in {th[t].cur, None}, que'[t].user = que[t].user,
                            \A f \in Frame : frame'[f].id = frame[f].id,
                            \A r \in Req : rq[r].io = t => /\ rq'[r].io = t /\ rq'[r].first = rq[r].first /\ rq'[r].last = rq[r].last
                                                           /\ r \in {th[t].arg, th[t].proc} => rq'[r].st = rq[r].st,
                            th[t].proc # None => /\ \A p \in rq'[th[t].proc].done : p \in rq[th[t].proc].done \/ p < th[t].nxt
                                                 /\ \A f \in Frame, k \in Kind : \A r \in Req : r = th[t].proc /\ In(f, r, k)' =>
                                                       \E l \in Kind : In(f, r, l)
                     PROVE WorkingAt(t)'
<1>1. WorkingAt(t) /\ TypeOK
  BY Parts
<1>2. th[t].proc \in Req \cup {None} /\ th[t].arg \in Req \cup {None} /\ th[t].cur \in Frame \cup {None}
  BY <1>1, Records
<1>3. ASSUME NEW r \in Req, r = th'[t].proc
      PROVE /\ rq'[r].st = "taken" /\ rq'[r].io = t /\ rq'[r].first <= th'[t].nxt /\ th'[t].nxt <= rq'[r].last + 1
            /\ \A p \in rq'[r].done : p < th'[t].nxt
            /\ \A f \in FramesHeld(r)' : frame'[f].id < th'[t].nxt
  <2>1. r = th[t].proc /\ r # None
    BY <1>3, NoneApart
  <2>2. /\ rq[r].st = "taken" /\ rq[r].io = t /\ rq[r].first <= th[t].nxt /\ th[t].nxt <= rq[r].last + 1
        /\ (\A p \in rq[r].done : p < th[t].nxt) /\ \A f \in FramesHeld(r) : frame[f].id < th[t].nxt
    BY <1>1, <2>1 DEF WorkingAt
  <2>3. \A f \in FramesHeld(r)' : f \in FramesHeld(r) /\ frame'[f].id = frame[f].id
    BY <2>1 DEF FramesHeld
  <2> QED BY <2>1, <2>2, <2>3
<1>4. \A s : s = th'[t].proc => (FramesHeld(th[t].proc))' = FramesHeld(s)'
  BY DEF FramesHeld, In
<1>5. th'[t].proc # None => th'[t].proc \in Req
  BY <1>2
<1>6. th'[t].arg # None => rq'[th'[t].arg].st = "queued" /\ rq'[th'[t].arg].io = t /\ th'[t].arg \notin ToSet(que'[t].user)
  BY <1>1, <1>2 DEF WorkingAt
<1>7. th'[t].cur # None => frame'[th'[t].cur].id \in Page /\ frame'[th'[t].cur].id + 1 = th'[t].nxt
  BY <1>1, <1>2 DEF WorkingAt
<1> QED BY <1>3, <1>4, <1>5, <1>6, <1>7 DEF WorkingAt

-------------------------------------------------------------------------------
(* Steps that move no request                                              *)

\* A step within one thread that changes its control state only.
LEMMA QuietStep == ASSUME IInv, NEW t \in Thread, NEW me \in ThRec, th' = [th EXCEPT ![t] = me],
                          me.arg = th[t].arg, me.proc = th[t].proc, me.cur = th[t].cur, me.batch = th[t].batch,
                          me.nxt = th[t].nxt, me.old = th[t].old, me.out = th[t].out, me.acc = th[t].acc,
                          UNCHANGED <<disk, raced, flight, que, rq>>, frame' \in [Frame -> FrameRec], \A f \in Frame : Same(f),
                          th[t].out = {} \/ (me.pc = "flush" <=> th[t].pc = "flush"),
                          me.pc \in {"mergeF", "mergeB"} => th[t].pc \in {"mergeF", "mergeB"},
                          \A f \in Frame : Evicting(t, f) /\ frame[f].oldDirty => Evicting(t, f)',
                          EvictorAt(t)', ControlAt(t)'
                   PROVE IInv'
<1>1. TypeOK /\ SingleWrites /\ OneFrame
  BY Parts
<1>2. th' \in [Thread -> ThRec] /\ th'[t] = me /\ \A u \in Thread \ {t} : th'[u] = th[u]
  BY <1>1, TypesForm
<1>3. TypeOK'
  BY <1>1, <1>2, TypesForm, TypesNext
<1>4. \A f \in Frame, r \in Req, k \in Kind : At(th'[t], que'[t], f, r, k) <=> At(th[t], que[t], f, r, k)
  BY <1>2 DEF At
<1>5. \A f \in Frame : frame'[f].reqs = frame[f].reqs /\ frame'[f].id = frame[f].id /\ frame'[f].oldDirty = frame[f].oldDirty
  BY DEF Same
<1>6. \A f \in Frame : Unmoved(f)
  BY <1>2, <1>4, <1>5, NoMove
<1>7. \A u \in Thread : que'[u].disk = que[u].disk /\ th'[u].out = th[u].out /\ (th[u].out = {} \/ OutOp(u)' = OutOp(u))
  BY <1>2 DEF OutOp
<1>8. IOApart' /\ Ios' = Ios /\ \A f \in Frame : SameCov(f)
  BY <1>7, IOSame
<1>9. SingleWrites'
  <2>1. \A u \in Thread : th'[u].pc \in {"mergeF", "mergeB"} =>
           th[u].pc \in {"mergeF", "mergeB"} /\ th[u].out \subseteq th'[u].out /\ th'[u].old = th[u].old
    BY <1>2
  <2> QED BY <1>5, <1>8, <2>1, SingleSame
<1>10. WorkingAt(t)'
  BY <1>2, <1>5, <1>6, WorkingKept DEF Unmoved
<1>11. QueuesAt(t)' /\ RepeatsAt(t)'
  BY <1>2, QueuesSame
<1>12. OneFrame'
  BY <1>1, <1>5 DEF OneFrame
<1>13. \A f \in Frame, r \in Req, k \in Kind : In(f, r, k)' <=> In(f, r, k)
  BY <1>6 DEF Unmoved
<1>14. None \notin Frame /\ None \notin Req
  BY NoneApart
<1> QED BY <1>2, <1>3, <1>8, <1>9, <1>10, <1>11, <1>12, <1>13, <1>14, LocalStep

\* Between two calls of process_user_req a thread has a request at most.
Idle == {"user", "ret", "disk", "pend", "cached", "comp", "wait"}
LEMMA IdleStep == ASSUME IInv, NEW t \in Thread, th[t].pc \in Idle, NEW me \in ThRec, th' = [th EXCEPT ![t] = me],
                         me.arg = th[t].arg, me.proc = th[t].proc, me.cur = th[t].cur, me.batch = th[t].batch,
                         me.nxt = th[t].nxt, me.old = th[t].old, me.out = th[t].out, me.acc = th[t].acc,
                         me.pc \in Idle \/ (me.pc = "search" /\ me.proc # None),
                         UNCHANGED <<frame, disk, raced, flight, que, rq>>
                  PROVE IInv'
<1>1. TypeOK /\ ControlAt(t)
  BY Parts
<1>2. th'[t] = me
  BY <1>1, TypesForm
<1>3. th[t].cur = None /\ th[t].out = {} /\ th[t].batch = <<>> /\ (th[t].proc # None => th[t].nxt <= rq[th[t].proc].last)
  BY <1>1 DEF ControlAt, Idle
<1>4. EvictorAt(t)'
  BY <1>2, <1>3, NoEvictor DEF Idle
<1>5. ControlAt(t)'
  BY <1>2, <1>3 DEF ControlAt, Idle
<1>6. frame' \in [Frame -> FrameRec] /\ \A f \in Frame : Same(f) /\ ~Evicting(t, f)
  BY <1>1, <1>3, TypesForm, NoneApart DEF Same, Evicting
<1>7. me.pc \notin {"mergeF", "mergeB"}
  BY DEF Idle
<1> QED BY <1>3, <1>4, <1>5, <1>6, <1>7, QuietStep

\* wait4complete begins.
LEMMA Wait4CompleteStep == ASSUME IInv, NEW t \in Thread, Wait4Complete(t) PROVE IInv'
<1> DEFINE P == {r \in Req : rq[r].io = t /\ rq[r].st \in {"taken", "queued"}}
<1>1. PICK n \in 1 .. Min({MaxGoal, Cardinality(P)}) : th' = [th EXCEPT ![t].pc = "disk", ![t].goal = n]
  BY DEF Wait4Complete
<1>2. th[t].pc \in Idle /\ UNCHANGED <<frame, disk, raced, flight, que, rq>>
  BY DEF Wait4Complete, Idle
<1>3. n \in Nat
  OBVIOUS
<1> DEFINE me == [th[t] EXCEPT !.pc = "disk", !.goal = n]
<1>4. th \in [Thread -> ThRec]
  BY Parts, TypesForm
<1>a. th[t] \in ThRec
  BY <1>4
<1>5. me \in ThRec
  BY <1>3, <1>a DEF ThRec, Pcs
<1>6. th' = [th EXCEPT ![t] = me]
  BY <1>1, <1>4
<1>7. /\ me.arg = th[t].arg /\ me.proc = th[t].proc /\ me.cur = th[t].cur /\ me.batch = th[t].batch
      /\ me.nxt = th[t].nxt /\ me.old = th[t].old /\ me.out = th[t].out /\ me.acc = th[t].acc /\ me.pc \in Idle
  BY <1>a DEF ThRec, Idle
<1> HIDE DEF me
<1> QED BY <1>2, <1>5, <1>6, <1>7, IdleStep

\* thread::wait() returns.
LEMMA WakeStep == ASSUME IInv, NEW t \in Thread, Wake(t) PROVE IInv'
<1>1. th[t].pc \in Idle /\ UNCHANGED <<frame, disk, raced, flight, que, rq>> /\ th' = [th EXCEPT ![t].pc = "disk", ![t].act = FALSE]
  BY DEF Wake, Idle
<1> DEFINE me == [th[t] EXCEPT !.pc = "disk", !.act = FALSE]
<1>2. th \in [Thread -> ThRec]
  BY Parts, TypesForm
<1>a. th[t] \in ThRec
  BY <1>2
<1>3. me \in ThRec
  BY <1>a DEF ThRec, Pcs
<1>4. th' = [th EXCEPT ![t] = me]
  BY <1>1, <1>2
<1>5. /\ me.arg = th[t].arg /\ me.proc = th[t].proc /\ me.cur = th[t].cur /\ me.batch = th[t].batch
      /\ me.nxt = th[t].nxt /\ me.old = th[t].old /\ me.out = th[t].out /\ me.acc = th[t].acc /\ me.pc \in Idle
  BY <1>a DEF ThRec, Idle
<1> HIDE DEF me
<1> QED BY <1>1, <1>3, <1>4, <1>5, IdleStep

\* process_all_requests goes on to the next queue.
LEMMA NextPhaseStep == ASSUME IInv, NEW t \in Thread, NextPhase(t) PROVE IInv'
<1> DEFINE pc == IF th[t].pc = "disk" /\ que[t].pend # <<>> THEN "pend"
                 ELSE IF th[t].pc \in {"disk", "pend"} /\ que[t].cached # <<>> THEN "cached"
                 ELSE IF th[t].pc # "comp" /\ que[t].comp # <<>> THEN "comp"
                 ELSE IF th[t].proc = None THEN "ret" ELSE "search"
<1>1. th[t].pc \in Idle /\ UNCHANGED <<frame, disk, raced, flight, que, rq>> /\ th' = [th EXCEPT ![t].poll = TRUE, ![t].pc = pc]
  BY DEF NextPhase, Idle
<1>2. pc \in Idle \/ (pc = "search" /\ th[t].proc # None)
  BY DEF Idle
<1> HIDE DEF pc
<1> DEFINE me == [th[t] EXCEPT !.poll = TRUE, !.pc = pc]
<1>3. th \in [Thread -> ThRec]
  BY Parts, TypesForm
<1>a. th[t] \in ThRec
  BY <1>3
<1>b. pc \in Pcs
  BY <1>2 DEF Pcs, Idle
<1>4. me \in ThRec
  BY <1>a, <1>b DEF ThRec
<1>5. th' = [th EXCEPT ![t] = me]
  BY <1>1, <1>3
<1>6. /\ me.arg = th[t].arg /\ me.proc = th[t].proc /\ me.cur = th[t].cur /\ me.batch = th[t].batch
      /\ me.nxt = th[t].nxt /\ me.old = th[t].old /\ me.out = th[t].out /\ me.acc = th[t].acc /\ me.pc = pc
  BY <1>a DEF ThRec
<1> HIDE DEF me
<1> QED BY <1>1, <1>2, <1>4, <1>5, <1>6, IdleStep

\* The underlying I/O has served a request.
LEMMA ServeStep == ASSUME IInv, NEW io \in flight, Serve(io) PROVE IInv'
<1> DEFINE t == io.io
           pageOf(f) == CHOOSE p \in Page : <<f, p>> \in io.bufs
           touched == {b[1] : b \in io.bufs}
<1>1. TypeOK /\ IOApart /\ SingleWrites /\ OneFrame
  BY Parts
<1>2. io \in IO /\ t \in Thread /\ io \in Ios
  BY <1>1, TypesForm DEF IO, Ios
<1>3. /\ flight' = flight \ {io} /\ que' = [que EXCEPT ![t].disk = Append(@, io)] /\ th' = [th EXCEPT ![t] = Activated(@)]
      /\ raced' = raced /\ rq' = rq
  BY Zenon DEF Serve
<1>4. /\ frame' \in [Frame -> FrameRec] /\ disk' \in [Page -> BOOLEAN]
      /\ \A f \in Frame : Same(f) /\ frame'[f].ready = frame[f].ready
  <2>1. frame \in [Frame -> FrameRec] /\ disk \in [Page -> BOOLEAN]
    BY <1>1, TypesForm
  <2>2. CASE io.op = "read"
    <3>1. /\ disk' = disk
          /\ frame' = [f \in Frame |-> IF f \in touched THEN [frame[f] EXCEPT !.dataOf = pageOf(f), !.fresh = disk[pageOf(f)]]
                                       ELSE frame[f]]
      BY <2>2, Zenon DEF Serve
    <3>2. ASSUME NEW f \in Frame, f \in touched PROVE pageOf(f) \in Page
      <4>1. \E p \in Page : <<f, p>> \in io.bufs
        <5>1. PICK b \in io.bufs : b[1] = f
          BY <3>2
        <5>2. b \in Frame \X Page
          BY <1>1, <1>2, IosTyped
        <5> QED BY <5>1, <5>2
      <4> QED BY <4>1
    <3> HIDE DEF pageOf, touched
    <3>3. ASSUME NEW f \in Frame PROVE frame'[f] \in FrameRec /\ Same(f) /\ frame'[f].ready = frame[f].ready
      <4>1. frame[f] \in FrameRec
        BY <2>1
      <4>a. frame'[f] = IF f \in touched THEN [frame[f] EXCEPT !.dataOf = pageOf(f), !.fresh = disk[pageOf(f)]] ELSE frame[f]
        BY <3>1, Zenon
      <4>2. CASE f \notin touched
        <5>1. frame'[f] = frame[f]
          BY <4>2, <4>a, Zenon
        <5> QED BY <4>1, <5>1 DEF Same
      <4>3. CASE f \in touched
        <5> DEFINE p == pageOf(f)
        <5>1. p \in Page /\ disk[p] \in BOOLEAN
          BY <2>1, <3>2, <4>3
        <5>2. frame'[f] = [frame[f] EXCEPT !.dataOf = p, !.fresh = disk[p]]
          BY <4>3, <4>a, Zenon
        <5> HIDE DEF p
        <5> QED BY <4>1, <5>1, <5>2 DEF FrameRec, Same
      <4> QED BY <4>2, <4>3
    <3>4. frame' \in [Frame -> FrameRec]
      <4>1. \A f \in Frame : frame'[f] \in FrameRec
        BY <3>3
      <4>2. frame' = [f \in Frame |-> frame'[f]]
        BY <3>1, Zenon
      <4> QED BY <4>1, <4>2, Zenon
    <3>5. disk' = disk
      BY <3>1, Zenon
    <3> QED BY <2>1, <3>3, <3>4, <3>5
  <2>3. CASE io.op # "read"
    <3>1. /\ frame' = frame
          /\ disk' = [p \in Page |-> IF \E b \in io.bufs : b[2] = p THEN \E b \in io.bufs : b[2] = p /\ frame[b[1]].fresh
                                     ELSE disk[p]]
      BY <2>3 DEF Serve
    <3>2. \A f \in Frame : frame[f].fresh \in BOOLEAN
      BY <2>1 DEF FrameRec
    <3>3. disk' \in [Page -> BOOLEAN]
      BY <2>1, <3>1
    <3> QED BY <2>1, <3>1, <3>3 DEF Same
  <2> QED BY <2>2, <2>3
<1> HIDE DEF t
<1>5. th \in [Thread -> ThRec] /\ que \in [Thread -> QueRec]
  BY <1>1, TypesForm
<1>6. th[t] \in ThRec /\ que[t] \in QueRec /\ que[t].disk \in Seq(IO)
  BY <1>2, <1>5 DEF QueRec
<1>7. /\ Append(que[t].disk, io) \in Seq(IO) /\ ToSet(Append(que[t].disk, io)) = ToSet(que[t].disk) \cup {io}
      /\ IsInjective(que[t].disk) /\ io \notin ToSet(que[t].disk) => IsInjective(Append(que[t].disk, io))
  BY <1>2, <1>6, SeqAppend
<1> DEFINE me == [th[t] EXCEPT !.act = TRUE]
           q == [que[t] EXCEPT !.disk = Append(que[t].disk, io)]
<1>8. me \in ThRec
  BY <1>6 DEF ThRec
<1>9. q \in QueRec
  BY <1>6, <1>7 DEF QueRec
<1>10. th' = [th EXCEPT ![t] = me] /\ que' = [que EXCEPT ![t] = q]
  BY <1>3, <1>5 DEF Activated
<1>11. /\ me.arg = th[t].arg /\ me.proc = th[t].proc /\ me.cur = th[t].cur /\ me.batch = th[t].batch
       /\ me.nxt = th[t].nxt /\ me.old = th[t].old /\ me.out = th[t].out /\ me.acc = th[t].acc /\ me.pc = th[t].pc
       /\ me.cont = th[t].cont /\ me.mp = th[t].mp
  BY <1>6 DEF ThRec
<1>12. /\ q.pend = que[t].pend /\ q.cached = que[t].cached /\ q.comp = que[t].comp /\ q.user = que[t].user
       /\ q.disk = Append(que[t].disk, io)
  BY <1>6 DEF QueRec
<1> HIDE DEF me, q
<1>13. th' \in [Thread -> ThRec] /\ th'[t] = me /\ \A u \in Thread \ {t} : th'[u] = th[u]
  BY <1>2, <1>5, <1>8, <1>10
<1>14. que' \in [Thread -> QueRec] /\ que'[t] = q /\ \A u \in Thread \ {t} : que'[u] = que[u]
  BY <1>2, <1>5, <1>9, <1>10
<1>15. TypeOK'
  BY <1>1, <1>3, <1>4, <1>13, <1>14, TypesForm, TypesNext
<1>16. \A f \in Frame, r \in Req, k \in Kind : At(th'[t], que'[t], f, r, k) <=> At(th[t], que[t], f, r, k)
  BY <1>11, <1>12, <1>13, <1>14 DEF At
<1>17. \A f \in Frame : /\ frame'[f].reqs = frame[f].reqs /\ frame'[f].id = frame[f].id /\ frame'[f].oldDirty = frame[f].oldDirty
                        /\ frame'[f].pending = frame[f].pending
  BY <1>4 DEF Same
<1>18. \A f \in Frame : Unmoved(f)
  BY <1>2, <1>3, <1>13, <1>14, <1>16, <1>17, NoMove
<1>19. io \notin ToSet(que[t].disk)
  BY <1>1, <1>2 DEF IOApart
<1>20. \A u \in Thread : ToSet(que'[u].disk) = IF u = t THEN ToSet(que[t].disk) \cup {io} ELSE ToSet(que[u].disk)
  BY <1>7, <1>12, <1>14
<1>21. Ios' = Ios
  BY <1>2, <1>3, <1>20 DEF Ios
<1>22. \A u \in Thread : th'[u].out = th[u].out /\ OutOp(u)' = OutOp(u) /\ th'[u].pc = th[u].pc /\ th'[u].old = th[u].old
  BY <1>11, <1>13 DEF OutOp
<1>23. IOApart'
  <2>1. \A u \in Thread : \A x \in ToSet(que'[u].disk) : x.io = u /\ x \notin flight'
    <3>1. \A u \in Thread : \A x \in ToSet(que[u].disk) : x.io = u /\ x \notin flight
      BY <1>1 DEF IOApart
    <3> QED BY <1>3, <1>20, <3>1 DEF t
  <2> QED BY <1>1, <1>21, <1>22, <2>1 DEF IOApart
<1>24. \A f \in Frame : SameCov(f)
  BY <1>21, <1>22 DEF SameCov, CovBy
<1>25. SingleWrites'
  BY <1>17, <1>21, <1>22, SingleSame
<1>26. OneFrame'
  BY <1>1, <1>17 DEF OneFrame
<1>27. WorkingAt(t)'
  <2>1. que'[t].user = que[t].user
    BY <1>12, <1>14
  <2> QED BY <1>2, <1>3, <1>11, <1>13, <1>17, <1>18, <2>1, WorkingKept DEF Unmoved
<1>28. QueuesAt(t)' /\ RepeatsAt(t)'
  <2>1. QueuesAt(t) /\ RepeatsAt(t)
    BY <1>2, Parts
  <2>2. QueuesAt(t)'
    BY <1>3, <1>12, <1>14, <2>1 DEF QueuesAt, WithinOnePage, PagesOf
  <2>3. RepeatsAt(t)'
    BY <1>7, <1>11, <1>12, <1>13, <1>14, <1>19, <2>1 DEF RepeatsAt
  <2> QED BY <2>2, <2>3
<1>29. \A f \in Frame : Evicting(t, f)' <=> Evicting(t, f)
  BY <1>11, <1>13 DEF Evicting
<1>30. EvictorAt(t)' /\ ControlAt(t)'
  <2>1. EvictorAt(t) /\ ControlAt(t) /\ th[t].cur \in Frame \cup {None}
    BY <1>1, <1>2, Parts, Records
  <2>2. th[t].pc = "use" => th[t].cur \in Frame
    BY <2>1 DEF ControlAt
  <2>3. EvictorAt(t)'
    BY <1>11, <1>13, <1>17, <1>29, <2>1, <2>2 DEF EvictorAt
  <2>4. ControlAt(t)'
    BY <1>3, <1>11, <1>13, <2>1 DEF ControlAt
  <2> QED BY <2>3, <2>4
<1>31. \A f \in Frame, r \in Req, k \in Kind : In(f, r, k)' <=> In(f, r, k)
  BY <1>18 DEF Unmoved
<1>32. None \notin Frame /\ None \notin Req
  BY NoneApart
<1> QED BY <1>2, <1>3, <1>4, <1>11, <1>13, <1>14, <1>15, <1>23, <1>24, <1>25, <1>26, <1>27, <1>28, <1>29, <1>30, <1>31, <1>32, LocalStep

-------------------------------------------------------------------------------
(* A request comes in                                                      *)

\* A request that has not been taken up has no page.
LEMMA NotTaken == ASSUME IInv, NEW r \in Req, rq[r].st # "taken"
                  PROVE /\ rq[r].held = {} /\ \A f \in Frame, k \in Kind : ~In(f, r, k)
                        /\ \A t \in Thread : r # th[t].proc /\ r \notin ToSet(que[t].comp) /\ \A f \in Frame : <<f, r>> \notin ToSet(que[t].cached)
<1>1. \A f \in Frame, k \in Kind : ~In(f, r, k)
  BY WithFrame
<1>2. TypeOK
  BY Parts
<1>3. rq[r].held = {}
  <2>1. ASSUME NEW f \in Frame PROVE f \notin rq[r].held
    <3>1. ~In(f, r, "held")
      BY <1>1 DEF Kind
    <3> QED BY <3>1 DEF In
  <2> QED BY <1>2, <2>1, Records
<1>4. ASSUME NEW t \in Thread PROVE r # th[t].proc /\ r \notin ToSet(que[t].comp) /\ \A f \in Frame : <<f, r>> \notin ToSet(que[t].cached)
  <2>1. WorkingAt(t) /\ QueuesAt(t)
    BY Parts
  <2>2. r # th[t].proc /\ r \notin ToSet(que[t].comp)
    BY <2>1, NoneApart DEF WorkingAt, QueuesAt
  <2>3. ASSUME NEW f \in Frame PROVE <<f, r>> \notin ToSet(que[t].cached)
    <3>1. ~In(f, r, "cached")
      BY <1>1 DEF Kind
    <3> QED BY <3>1 DEF In, At
  <2> QED BY <2>2, <2>3
<1> QED BY <1>1, <1>3, <1>4

\* Between two calls a thread has no page, and taking up a request or laying it aside moves none.
LEMMA IntakeIn == ASSUME IInv, NEW t \in Thread, NEW r0 \in Req, th[t].pc \in Idle, rq[r0].st # "taken",
                         \A u \in Thread \ {t} : th'[u] = th[u] /\ que'[u] = que[u],
                         th'[t].cur = None, th'[t].batch = <<>>, th'[t].acc = th[t].acc,
                         que'[t].pend = que[t].pend, que'[t].cached = que[t].cached,
                         \A r \in Req \ {r0} : rq'[r] = rq[r], rq'[r0].held = {}, frame' = frame
                  PROVE /\ \A f \in Frame, r \in Req, k \in Kind : In(f, r, k)' <=> In(f, r, k)
                        /\ \A r \in Req : FramesHeld(r)' = FramesHeld(r)
                        /\ FramesHeld(r0) = {}
                        /\ \A s : s = th'[t].proc => FramesHeld(th[t].proc)' = FramesHeld(s)'
<1>1. ControlAt(t)
  BY Parts
<1>2. th[t].cur = None /\ th[t].batch = <<>>
  BY <1>1 DEF ControlAt, Idle
<1>3. rq[r0].held = {} /\ \A f \in Frame, k \in Kind : ~In(f, r0, k)
  BY NotTaken
<1>4. \A f \in Frame, r \in Req, k \in Kind : At(th'[t], que'[t], f, r, k) <=> At(th[t], que[t], f, r, k)
  BY <1>2, NoneApart, EmptySet DEF At
<1>5. \A f \in Frame : Unmoved(f)
  <2>1. \A r \in Req : rq'[r].held = rq[r].held
    BY <1>3
  <2> QED BY <1>4, <2>1, NoMove
<1>6. \A f \in Frame, r \in Req, k \in Kind : In(f, r, k)' <=> In(f, r, k)
  BY <1>5 DEF Unmoved
<1>7. \A r \in Req : FramesHeld(r)' = FramesHeld(r)
  BY <1>6 DEF FramesHeld
<1>8. FramesHeld(r0) = {}
  BY <1>3 DEF FramesHeld
<1>9. \A s : s = th'[t].proc => FramesHeld(th[t].proc)' = FramesHeld(s)'
  BY DEF FramesHeld, In
<1> QED BY <1>6, <1>7, <1>8, <1>9

\* The invariant after such a step.
LEMMA IntakeStep == ASSUME IInv, TypeOK', NEW t \in Thread, NEW r0 \in Req, th[t].pc \in Idle, rq[r0].st # "taken", rq[r0].io \in {t, None},
                           \A u \in Thread \ {t} : th'[u] = th[u] /\ que'[u] = que[u],
                           th'[t].cur = None, th'[t].batch = <<>>, th'[t].out = {}, th'[t].acc = th[t].acc,
                           th'[t].pc \in {"search", "user"},
                           que'[t].disk = que[t].disk, que'[t].pend = que[t].pend, que'[t].cached = que[t].cached, que'[t].comp = que[t].comp,
                           IsInjective(que'[t].user), \A r \in ToSet(que'[t].user) : rq'[r].io = t /\ rq'[r].st = "queued",
                           \A r \in Req \ {r0} : rq'[r] = rq[r],
                           rq'[r0].held = {}, rq'[r0].done = {}, rq'[r0].first <= rq'[r0].last, rq'[r0].io = t, rq'[r0].st \in {"queued", "taken"},
                           UNCHANGED <<frame, flight>>, WorkingAt(t)', ControlAt(t)'
                    PROVE IInv'
<1>1. TypeOK /\ ControlAt(t) /\ QueuesAt(t) /\ RepeatsAt(t) /\ OneFrame
  BY Parts
<1>2. th[t].cur = None /\ th[t].out = {} /\ th[t].batch = <<>>
  BY <1>1 DEF ControlAt, Idle
<1>3. rq[r0].held = {} /\ r0 \notin ToSet(que[t].comp) /\ \A f \in Frame : <<f, r0>> \notin ToSet(que[t].cached)
  BY NotTaken
<1>6. \A f \in Frame, r \in Req, k \in Kind : In(f, r, k)' <=> In(f, r, k)
  BY IntakeIn
<1>7. RequestAt(r0)'
  <2>1. \A f \in Frame, k \in Kind : ~In(f, r0, k)'
    BY <1>6, NotTaken
  <2> QED BY <2>1 DEF RequestAt
<1>8. EvictorAt(t)'
  BY NoEvictor
<1>9. QueuesAt(t)' /\ RepeatsAt(t)'
  <2>1. ToSet(que[t].pend) \subseteq Frame \X Req /\ ToSet(que[t].cached) \subseteq Frame \X Req /\ ToSet(que[t].comp) \subseteq Req
    BY <1>1, Records, SeqSet
  <2>2. \A x \in ToSet(que[t].pend) : rq'[x[2]].io = t
    <3>1. \A x \in Frame \X Req : x[2] \in Req
      OBVIOUS
    <3> QED BY <1>1, <2>1, <3>1 DEF QueuesAt
  <2>3. \A x \in ToSet(que[t].cached) : rq'[x[2]] = rq[x[2]]
    <3>1. ASSUME NEW x \in ToSet(que[t].cached) PROVE x[2] \in Req \ {r0}
      <4>1. x[1] \in Frame /\ x[2] \in Req /\ x = <<x[1], x[2]>>
        BY <2>1
      <4> QED BY <1>3, <4>1
    <3> QED BY <3>1
  <2>4. \A r \in ToSet(que[t].comp) : rq'[r] = rq[r]
    BY <1>3, <2>1
  <2>5. QueuesAt(t)'
    BY <1>1, <2>2, <2>3, <2>4 DEF QueuesAt, WithinOnePage, PagesOf
  <2>6. RepeatsAt(t)'
    BY <1>1, EmptySet DEF RepeatsAt
  <2> QED BY <2>5, <2>6
<1>10. /\ IOApart' /\ Ios' = Ios /\ \A f \in Frame : SameCov(f)
  <2>1. \A u \in Thread : que'[u].disk = que[u].disk /\ th'[u].out = th[u].out /\ (th[u].out = {} \/ OutOp(u)' = OutOp(u))
    <3> TAKE u \in Thread
    <3>1. CASE u = t
      BY <1>2, <3>1
    <3>2. CASE u # t
      BY <3>2 DEF OutOp
    <3> QED BY <3>1, <3>2
  <2> QED BY <2>1, IOSame
<1>11. SingleWrites'
  BY <1>10, SingleSame
<1>12. OneFrame'
  BY <1>1 DEF OneFrame
<1>13. \A f \in Frame : Same(f) /\ ~Evicting(t, f)
  BY <1>2, NoneApart DEF Same, Evicting
<1>14. None \notin Frame
  BY NoneApart
<1>15. IInv'
  <2>1. \A f \in Frame \ {None} : Same(f) /\ SameCov(f) /\ (Evicting(t, f) /\ frame[f].oldDirty => Evicting(t, f)')
    BY <1>10, <1>13
  <2>2. EvictorAt(t)' /\ ControlAt(t)' /\ WorkingAt(t)' /\ QueuesAt(t)' /\ RepeatsAt(t)' /\ IOApart' /\ SingleWrites' /\ OneFrame'
    BY <1>8, <1>9, <1>10, <1>11, <1>12
  <2> QED BY <1>6, <1>7, <1>14, <2>1, <2>2, LocalStep
<1> QED BY <1>15


\* access() with a request.
LEMMA AccessStep == ASSUME IInv, NEW t \in Thread, NEW r \in Req, Access(t, r) PROVE IInv'
<1>1. TypeOK /\ WorkingAt(t) /\ ControlAt(t) /\ QueuesAt(t) /\ RepeatsAt(t) /\ RequestAt(r)
  BY Parts
<1>2. th[t].pc = "user" /\ rq[r].st = "new" /\ UNCHANGED <<frame, disk, raced, flight, que>>
  BY DEF Access
<1> DEFINE st == IF th[t].proc = None THEN "taken" ELSE "queued"
<1>3. PICK op \in Ops, p \in Page, n \in 0 .. MaxSpan - 1 :
        /\ p + n \in Page
        /\ \E whole \in IF op = "write" THEN {w \in SUBSET (p .. p + n) : (p + 1) .. (p + n - 1) \subseteq w} ELSE {{}} :
              rq' = [rq EXCEPT ![r] = [NewReq EXCEPT !.st = st, !.op = op, !.io = t, !.first = p, !.last = p + n, !.whole = whole]]
        /\ th' = [th EXCEPT ![t] = IF @.proc = None
                                   THEN [@ EXCEPT !.proc = r, !.nxt = p, !.pc = "search", !.poll = FALSE]
                                   ELSE [@ EXCEPT !.arg = r, !.pc = "search", !.poll = FALSE]]
  BY ZenonT(60) DEF Access
<1>4. PICK whole : /\ whole \subseteq p .. p + n
                   /\ rq' = [rq EXCEPT ![r] = [NewReq EXCEPT !.st = st, !.op = op, !.io = t, !.first = p, !.last = p + n, !.whole = whole]]
  <2>1. PICK w \in IF op = "write" THEN {w \in SUBSET (p .. p + n) : (p + 1) .. (p + n - 1) \subseteq w} ELSE {{}} :
           rq' = [rq EXCEPT ![r] = [NewReq EXCEPT !.st = st, !.op = op, !.io = t, !.first = p, !.last = p + n, !.whole = w]]
    BY <1>3, Zenon
  <2>2. w \subseteq p .. p + n
    BY <2>1
  <2> QED BY <2>1, <2>2, Zenon
<1>5. p \in Nat /\ n \in Nat /\ p <= p + n /\ p \in 0 .. NumPages /\ p + n \in Page /\ whole \subseteq Page /\ op \in {"read", "compute", "write"}
  <2>1. p \in Nat /\ n \in Nat /\ p \in 0 .. NumPages /\ p + n \in Page /\ op \in {"read", "compute", "write"}
    BY <1>3, ConstantsAssumption, NoneApart
  <2>2. \A x \in p .. p + n : x \in Page
    BY <2>1, NoneApart
  <2> QED BY <1>4, <2>1, <2>2
<1> DEFINE new == [NewReq EXCEPT !.st = st, !.op = op, !.io = t, !.first = p, !.last = p + n, !.whole = whole]
<1>a. st \in {"new", "queued", "taken", "done"}
  OBVIOUS
<1> HIDE DEF st
<1>b. NewReq \in ReqRec /\ NewReq.done = {} /\ NewReq.held = {}
  BY NoneApart DEF NewReq, ReqRec
<1>6. new \in ReqRec
  BY <1>5, <1>a, <1>b DEF ReqRec
<1>7. /\ new.st = st /\ new.io = t /\ new.first = p /\ new.last = p + n /\ new.done = {} /\ new.held = {} /\ new.op = op
  BY <1>b DEF ReqRec
<1> HIDE DEF new
<1>8. rq \in [Req -> ReqRec] /\ th \in [Thread -> ThRec]
  BY <1>1, TypesForm
<1>9. rq' \in [Req -> ReqRec] /\ rq'[r] = new /\ \A s \in Req \ {r} : rq'[s] = rq[s]
  <2>1. rq' = [rq EXCEPT ![r] = new]
    BY <1>4, Zenon DEF new
  <2> QED BY <1>6, <1>8, <2>1
<1>10. th[t] \in ThRec /\ th[t].cur = None /\ th[t].out = {} /\ th[t].batch = <<>> /\ th[t].pc \in Idle /\ rq[r].io = None
       /\ r # None
  BY <1>1, <1>2, <1>8, NoneApart DEF ControlAt, Idle, RequestAt
<1>11. th[t].proc \in Req \cup {None} /\ r # th[t].proc /\ th[t].arg # r
  BY <1>1, <1>2, <1>10, Records, NotTaken DEF WorkingAt
<1>12. r \notin ToSet(que[t].user)
  BY <1>1, <1>2 DEF QueuesAt
<1>13. CASE th[t].proc = None
  <2> DEFINE me == [th[t] EXCEPT !.proc = r, !.nxt = p, !.pc = "search", !.poll = FALSE]
  <2>1. th' = [th EXCEPT ![t] = me]
    BY <1>3, <1>8, <1>13
  <2>2. me \in ThRec
    BY <1>5, <1>10 DEF ThRec, Pcs
  <2>3. /\ me.proc = r /\ me.nxt = p /\ me.pc = "search" /\ me.arg = th[t].arg /\ me.cur = None /\ me.batch = <<>> /\ me.out = {}
        /\ me.acc = th[t].acc
    BY <1>10 DEF ThRec
  <2> HIDE DEF me
  <2>4. th' \in [Thread -> ThRec] /\ th'[t] = me /\ \A u \in Thread \ {t} : th'[u] = th[u]
    BY <1>8, <2>1, <2>2
  <2>5. TypeOK'
    BY <1>1, <1>2, <1>9, <2>4, TypesForm, TypesNext
  <2>6. FramesHeld(r)' = {} /\ \A s : s = th'[t].proc => FramesHeld(th[t].proc)' = FramesHeld(s)'
    BY <1>2, <1>7, <1>9, <1>10, <2>3, <2>4, IntakeIn
  <2>7. FramesHeld(th[t].proc)' = {}
    BY <2>3, <2>4, <2>6
  <2>8. WorkingAt(t)'
    <3>1. th[t].arg # None => rq'[th[t].arg] = rq[th[t].arg]
      BY <1>1, <1>9, <1>11, Records
    <3>2. th[t].arg # None => rq'[th[t].arg].st = "queued" /\ rq'[th[t].arg].io = t /\ th[t].arg \notin ToSet(que'[t].user)
      BY <1>1, <1>2, <3>1 DEF WorkingAt
    <3>3. st = "taken" /\ p <= p /\ p <= (p + n) + 1
      BY <1>5, <1>13 DEF st
    <3> QED BY <1>7, <1>9, <2>3, <2>4, <2>7, <3>2, <3>3 DEF WorkingAt
  <2>9. ControlAt(t)'
    BY <1>5, <1>7, <1>9, <1>10, <2>3, <2>4 DEF ControlAt
  <2>10. \A s \in ToSet(que[t].user) : rq'[s].io = t /\ rq'[s].st = "queued"
    <3>1. ToSet(que[t].user) \subseteq Req
      BY <1>1, Records, SeqSet
    <3> QED BY <1>1, <1>9, <1>12, <3>1 DEF QueuesAt
  <2>11. rq'[r].first <= rq'[r].last /\ rq'[r].st \in {"queued", "taken"} /\ rq'[r].io = t /\ rq'[r].held = {} /\ rq'[r].done = {}
    BY <1>5, <1>7, <1>9 DEF st
  <2>12. IsInjective(que'[t].user) /\ que' = que /\ frame' = frame /\ flight' = flight
    BY <1>1, <1>2 DEF RepeatsAt
  <2> QED BY <1>2, <1>9, <1>10, <2>3, <2>4, <2>5, <2>8, <2>9, <2>10, <2>11, <2>12, IntakeStep
<1>14. CASE th[t].proc # None
  <2> DEFINE me == [th[t] EXCEPT !.arg = r, !.pc = "search", !.poll = FALSE]
  <2>1. th' = [th EXCEPT ![t] = me]
    BY <1>3, <1>8, <1>14
  <2>2. me \in ThRec
    BY <1>5, <1>10 DEF ThRec, Pcs
  <2>3. /\ me.proc = th[t].proc /\ me.nxt = th[t].nxt /\ me.pc = "search" /\ me.arg = r /\ me.cur = None /\ me.batch = <<>> /\ me.out = {}
        /\ me.acc = th[t].acc
    BY <1>10 DEF ThRec
  <2> HIDE DEF me
  <2>4. th' \in [Thread -> ThRec] /\ th'[t] = me /\ \A u \in Thread \ {t} : th'[u] = th[u]
    BY <1>8, <2>1, <2>2
  <2>5. TypeOK'
    BY <1>1, <1>2, <1>9, <2>4, TypesForm, TypesNext
  <2>6. (\A s \in Req : FramesHeld(s)' = FramesHeld(s)) /\ \A s : s = th'[t].proc => FramesHeld(th[t].proc)' = FramesHeld(s)'
    BY <1>2, <1>7, <1>9, <1>10, <2>3, <2>4, IntakeIn
  <2>7. FramesHeld(th[t].proc)' = FramesHeld(th[t].proc)
    BY <1>11, <1>14, <2>3, <2>4, <2>6
  <2>8. WorkingAt(t)'
    <3>1. rq'[th[t].proc] = rq[th[t].proc]
      BY <1>9, <1>11, <1>14
    <3>2. st = "queued"
      BY <1>14 DEF st
    <3> QED BY <1>1, <1>2, <1>7, <1>9, <1>12, <2>3, <2>4, <2>7, <3>1, <3>2 DEF WorkingAt
  <2>9. ControlAt(t)'
    <3>1. th[t].proc \in Req /\ rq'[th[t].proc] = rq[th[t].proc] /\ th[t].nxt <= rq[th[t].proc].last
      BY <1>1, <1>2, <1>9, <1>11, <1>14 DEF ControlAt
    <3> QED BY <1>14, <2>3, <2>4, <3>1 DEF ControlAt
  <2>10. \A s \in ToSet(que[t].user) : rq'[s].io = t /\ rq'[s].st = "queued"
    <3>1. ToSet(que[t].user) \subseteq Req
      BY <1>1, Records, SeqSet
    <3> QED BY <1>1, <1>9, <1>12, <3>1 DEF QueuesAt
  <2>11. rq'[r].first <= rq'[r].last /\ rq'[r].st \in {"queued", "taken"} /\ rq'[r].io = t /\ rq'[r].held = {} /\ rq'[r].done = {}
    BY <1>5, <1>7, <1>9 DEF st
  <2>12. IsInjective(que'[t].user) /\ que' = que /\ frame' = frame /\ flight' = flight
    BY <1>1, <1>2 DEF RepeatsAt
  <2> QED BY <1>2, <1>9, <1>10, <2>3, <2>4, <2>5, <2>8, <2>9, <2>10, <2>11, <2>12, IntakeStep
<1> QED BY <1>13, <1>14

\* processing_req.init.
LEMMA StartForm == ASSUME NEW me \in ThRec, NEW r \in Req, NEW x \in 0 .. NumPages
                   PROVE [me EXCEPT !.proc = r, !.nxt = x, !.arg = None, !.pc = "search"] \in ThRec
BY DEF ThRec, Pcs

\* A request that waits is taken up.
LEMMA TakeUp == ASSUME IInv, NEW t \in Thread, NEW r \in Req, th[t].pc = "ret", th[t].proc = None, rq[r].st = "queued", rq[r].io = t,
                       th' = [th EXCEPT ![t] = Start(th[t], r)], rq' = [rq EXCEPT ![r].st = "taken"],
                       NEW q \in QueRec, que' = [que EXCEPT ![t] = q], q.disk = que[t].disk, q.pend = que[t].pend,
                       q.cached = que[t].cached, q.comp = que[t].comp, IsInjective(q.user), ToSet(q.user) \subseteq ToSet(que[t].user) \ {r},
                       UNCHANGED <<frame, disk, raced, flight>>
                PROVE IInv'
<1>1. TypeOK /\ WorkingAt(t) /\ ControlAt(t) /\ QueuesAt(t) /\ RequestAt(r)
  BY Parts
<1>2. rq \in [Req -> ReqRec] /\ th \in [Thread -> ThRec] /\ que \in [Thread -> QueRec]
  BY <1>1, TypesForm
<1>3. rq[r] \in ReqRec
  BY <1>2
<1>4. th[t] \in ThRec
  BY <1>2
<1>5. rq[r].first \in Page /\ rq[r].first \in 0 .. NumPages /\ rq[r].first \in Nat /\ rq[r].last \in Nat
  BY <1>1, Records, NoneApart
<1>6. th[t].cur = None /\ th[t].out = {} /\ th[t].batch = <<>> /\ th[t].pc \in Idle /\ r # None
  BY <1>1, NoneApart DEF ControlAt, Idle
<1> DEFINE new == [rq[r] EXCEPT !.st = "taken"]
           me == Start(th[t], r)
<1>7. new \in ReqRec
  BY <1>3 DEF ReqRec
<1>8. /\ new.st = "taken" /\ new.io = t /\ new.first = rq[r].first /\ new.last = rq[r].last /\ new.done = rq[r].done /\ new.held = rq[r].held
  BY <1>3 DEF ReqRec
<1>9. rq' \in [Req -> ReqRec] /\ rq'[r] = new /\ \A s \in Req \ {r} : rq'[s] = rq[s]
  <2>1. rq' = [rq EXCEPT ![r] = new]
    BY <1>2
  <2> HIDE DEF new
  <2> QED BY <1>2, <1>7, <2>1
<1>10. me \in ThRec
  <2> DEFINE x == rq[r].first
  <2>1. me = [th[t] EXCEPT !.proc = r, !.nxt = x, !.arg = None, !.pc = "search"] /\ x \in 0 .. NumPages
    BY <1>5 DEF Start
  <2> HIDE DEF x, me
  <2>2. [th[t] EXCEPT !.proc = r, !.nxt = x, !.arg = None, !.pc = "search"] \in ThRec
    BY <1>4, <2>1, StartForm, Zenon
  <2> QED BY <2>1, <2>2, Zenon
<1>11. /\ me.proc = r /\ me.nxt = rq[r].first /\ me.pc = "search" /\ me.arg = None /\ me.cur = None /\ me.batch = <<>> /\ me.out = {}
       /\ me.acc = th[t].acc
  BY <1>4, <1>6 DEF Start, ThRec
<1> HIDE DEF me, new
<1>12. th' \in [Thread -> ThRec] /\ th'[t] = me /\ \A u \in Thread \ {t} : th'[u] = th[u]
  <2>1. th' = [th EXCEPT ![t] = me]
    BY DEF me
  <2> QED BY <1>2, <1>10, <2>1
<1>13. que' \in [Thread -> QueRec] /\ que'[t] = q /\ \A u \in Thread \ {t} : que'[u] = que[u]
  BY <1>2
<1>14. TypeOK'
  BY <1>1, <1>9, <1>12, <1>13, TypesForm, TypesNext
<1>15. rq[r].held = {} /\ rq[r].done = {} /\ rq[r].first <= rq[r].last
  BY <1>1, NotTaken DEF RequestAt
<1>16. FramesHeld(r)' = {} /\ \A s : s = th'[t].proc => FramesHeld(th[t].proc)' = FramesHeld(s)'
  BY <1>6, <1>8, <1>9, <1>11, <1>12, <1>13, <1>15, IntakeIn
<1>17. FramesHeld(th[t].proc)' = {}
  BY <1>11, <1>12, <1>16
<1>18. WorkingAt(t)'
  BY <1>5, <1>8, <1>9, <1>11, <1>12, <1>15, <1>17 DEF WorkingAt
<1>19. ControlAt(t)'
  BY <1>5, <1>6, <1>8, <1>9, <1>11, <1>12, <1>15 DEF ControlAt
<1>20. \A s \in ToSet(que'[t].user) : rq'[s].io = t /\ rq'[s].st = "queued"
  <2>1. ToSet(que[t].user) \subseteq Req
    BY <1>1, Records, SeqSet
  <2> QED BY <1>1, <1>9, <1>13, <2>1 DEF QueuesAt
<1>21. rq'[r].first <= rq'[r].last /\ rq'[r].st \in {"queued", "taken"} /\ rq'[r].io = t /\ rq'[r].held = {} /\ rq'[r].done = {}
  BY <1>8, <1>9, <1>15
<1> QED BY <1>6, <1>9, <1>11, <1>12, <1>13, <1>14, <1>18, <1>19, <1>20, <1>21, IntakeStep

\* process_user_req returns to its caller.
LEMMA ReturnStep == ASSUME IInv, NEW t \in Thread, Return(t) PROVE IInv'
<1> DEFINE me == th[t]
           q == que[t]
           take == /\ me.proc = None /\ q.user # <<>>
                   /\ Cardinality(Processed(t)) < MaxPending
                   /\ Cardinality(UnderlyingPages(t)) < MaxUnderlying
<1>1. me.pc = "ret" /\ UNCHANGED <<frame, disk, raced, flight>>
  BY Zenon DEF Return
<1>2. TypeOK /\ WorkingAt(t) /\ ControlAt(t) /\ QueuesAt(t) /\ RepeatsAt(t)
  BY Parts
<1>3. th \in [Thread -> ThRec] /\ que \in [Thread -> QueRec]
  BY <1>2, TypesForm
<1>4. th[t] \in ThRec
  BY <1>3
<1>5. que[t] \in QueRec
  BY <1>3
<1>6. me.arg \in Req \cup {None} /\ q.user \in Seq(Req) /\ me.pc \in Idle
  BY <1>1, <1>2, Records DEF Idle
<1>7. \/ /\ ~me.poll /\ me.arg = None
         /\ th' = [th EXCEPT ![t].pc = "user"]
         /\ UNCHANGED <<que, rq>>
      \/ /\ ~me.poll /\ me.arg # None /\ me.proc = None
         /\ th' = [th EXCEPT ![t] = Start(me, me.arg)]
         /\ rq' = [rq EXCEPT ![me.arg].st = "taken"]
         /\ UNCHANGED que
      \/ /\ ~me.poll /\ me.arg # None /\ me.proc # None
         /\ th' = [th EXCEPT ![t].pc = "user", ![t].arg = None]
         /\ que' = [que EXCEPT ![t].user = Append(@, me.arg)]
         /\ UNCHANGED rq
      \/ /\ me.poll /\ take
         /\ th' = [th EXCEPT ![t] = Start(me, Head(q.user))]
         /\ que' = [que EXCEPT ![t].user = Tail(@)]
         /\ rq' = [rq EXCEPT ![Head(q.user)].st = "taken"]
      \/ /\ me.poll /\ ~take
         /\ th' = [th EXCEPT ![t].pc = IF q.cached # <<>> \/ q.comp # <<>> THEN "cached"
                                       ELSE IF me.goal = 0 THEN "user"
                                       ELSE IF Underlying(t) # {} THEN "wait" ELSE "disk"]
         /\ UNCHANGED <<que, rq>>
  BY ZenonT(60) DEF Return
<1>8. ASSUME NEW pc \in Idle, th' = [th EXCEPT ![t].pc = pc], UNCHANGED <<que, rq>> PROVE IInv'
  <2> DEFINE n == [th[t] EXCEPT !.pc = pc]
  <2>1. th' = [th EXCEPT ![t] = n]
    BY <1>3, <1>8
  <2>2. n \in ThRec
    <3>1. pc \in Pcs
      BY DEF Pcs, Idle
    <3> QED BY <1>4, <3>1 DEF ThRec
  <2>3. /\ n.arg = th[t].arg /\ n.proc = th[t].proc /\ n.cur = th[t].cur /\ n.batch = th[t].batch
        /\ n.nxt = th[t].nxt /\ n.old = th[t].old /\ n.out = th[t].out /\ n.acc = th[t].acc /\ n.pc \in Idle
    BY <1>4 DEF ThRec
  <2> HIDE DEF n
  <2> QED BY <1>1, <1>6, <1>8, <2>1, <2>2, <2>3, IdleStep
<1>9. CASE th' = [th EXCEPT ![t].pc = "user"] /\ UNCHANGED <<que, rq>>
  <2>1. "user" \in Idle
    BY DEF Idle
  <2> QED BY <1>8, <1>9, <2>1
<1>10. CASE /\ ~me.poll /\ me.arg # None /\ me.proc = None
            /\ th' = [th EXCEPT ![t] = Start(me, me.arg)]
            /\ rq' = [rq EXCEPT ![me.arg].st = "taken"]
            /\ UNCHANGED que
  <2>1. me.arg \in Req /\ rq[me.arg].st = "queued" /\ rq[me.arg].io = t /\ me.arg \notin ToSet(q.user)
    BY <1>2, <1>6, <1>10 DEF WorkingAt
  <2>2. que' = [que EXCEPT ![t] = q] /\ IsInjective(q.user) /\ ToSet(q.user) \subseteq ToSet(que[t].user) \ {me.arg}
    BY <1>2, <1>3, <1>10, <2>1 DEF RepeatsAt
  <2> QED BY <1>1, <1>5, <1>10, <2>1, <2>2, TakeUp
<1>11. CASE /\ ~me.poll /\ me.arg # None /\ me.proc # None
            /\ th' = [th EXCEPT ![t].pc = "user", ![t].arg = None]
            /\ que' = [que EXCEPT ![t].user = Append(@, me.arg)]
            /\ UNCHANGED rq
  <2> DEFINE r == me.arg
             n == [th[t] EXCEPT !.pc = "user", !.arg = None]
             w == [que[t] EXCEPT !.user = Append(que[t].user, r)]
  <2>1. r \in Req /\ rq[r].st = "queued" /\ rq[r].io = t /\ r \notin ToSet(q.user)
    BY <1>2, <1>6, <1>11 DEF WorkingAt
  <2>2. /\ Append(que[t].user, r) \in Seq(Req) /\ ToSet(Append(que[t].user, r)) = ToSet(que[t].user) \cup {r}
        /\ IsInjective(Append(que[t].user, r))
    <3>1. IsInjective(que[t].user)
      BY <1>2 DEF RepeatsAt
    <3> QED BY <1>6, <2>1, <3>1, SeqAppend
  <2>3. th' = [th EXCEPT ![t] = n] /\ que' = [que EXCEPT ![t] = w]
    BY <1>3, <1>11
  <2>4. n \in ThRec
    BY <1>4 DEF ThRec, Pcs
  <2>5. /\ n.arg = None /\ n.proc = th[t].proc /\ n.cur = th[t].cur /\ n.batch = th[t].batch
        /\ n.nxt = th[t].nxt /\ n.old = th[t].old /\ n.out = th[t].out /\ n.acc = th[t].acc /\ n.pc = "user"
    BY <1>4 DEF ThRec
  <2>6. w \in QueRec
    BY <1>5, <2>2 DEF QueRec
  <2>7. /\ w.disk = que[t].disk /\ w.pend = que[t].pend /\ w.cached = que[t].cached /\ w.comp = que[t].comp
        /\ w.user = Append(que[t].user, r)
    BY <1>5 DEF QueRec
  <2> HIDE DEF n, w
  <2>8. th' \in [Thread -> ThRec] /\ th'[t] = n /\ \A u \in Thread \ {t} : th'[u] = th[u]
    BY <1>3, <2>3, <2>4
  <2>9. que' \in [Thread -> QueRec] /\ que'[t] = w /\ \A u \in Thread \ {t} : que'[u] = que[u]
    BY <1>3, <2>3, <2>6
  <2>10. TypeOK'
    BY <1>1, <1>2, <1>11, <2>8, <2>9, TypesForm, TypesNext
  <2>11. th[t].cur = None /\ th[t].out = {} /\ th[t].batch = <<>> /\ th[t].nxt <= rq[th[t].proc].last
    BY <1>1, <1>2, <1>11 DEF ControlAt
  <2>12. rq[r].held = {} /\ rq[r].done = {} /\ rq[r].first <= rq[r].last
    BY <2>1, NotTaken, Parts DEF RequestAt
  <2>13. (\A s \in Req : FramesHeld(s)' = FramesHeld(s)) /\ \A s : s = th'[t].proc => FramesHeld(th[t].proc)' = FramesHeld(s)'
    BY <1>1, <1>6, <1>11, <2>1, <2>5, <2>7, <2>8, <2>9, <2>11, <2>12, IntakeIn
  <2>14. FramesHeld(th[t].proc)' = FramesHeld(th[t].proc)
    BY <1>2, <1>11, <2>5, <2>8, <2>13, Records
  <2>15. WorkingAt(t)'
    <3>1. th'[t].arg = None /\ th'[t].cur = None /\ th'[t].proc = th[t].proc /\ th'[t].nxt = th[t].nxt /\ rq' = rq /\ frame' = frame
      BY <1>1, <1>11, <2>5, <2>8, <2>11
    <3>2. /\ rq[me.proc].st = "taken" /\ rq[me.proc].io = t /\ rq[me.proc].first <= me.nxt /\ me.nxt <= rq[me.proc].last + 1
          /\ (\A p \in rq[me.proc].done : p < me.nxt) /\ \A f \in FramesHeld(me.proc) : frame[f].id < me.nxt
      BY <1>2, <1>11 DEF WorkingAt
    <3> QED BY <2>14, <3>1, <3>2 DEF WorkingAt
  <2>16. ControlAt(t)'
    BY <1>11, <2>5, <2>8, <2>11 DEF ControlAt
  <2>17. \A s \in ToSet(que'[t].user) : rq'[s].io = t /\ rq'[s].st = "queued"
    BY <1>2, <1>11, <2>1, <2>2, <2>7, <2>9 DEF QueuesAt
  <2>18. IsInjective(que'[t].user)
    BY <2>2, <2>7, <2>9
  <2> HIDE DEF r
  <2> QED BY <1>1, <1>6, <1>11, <2>1, <2>5, <2>7, <2>8, <2>9, <2>10, <2>11, <2>12, <2>15, <2>16, <2>17, <2>18, IntakeStep
<1>12. CASE /\ me.poll /\ take
            /\ th' = [th EXCEPT ![t] = Start(me, Head(q.user))]
            /\ que' = [que EXCEPT ![t].user = Tail(@)]
            /\ rq' = [rq EXCEPT ![Head(q.user)].st = "taken"]
  <2> DEFINE r == Head(q.user)
             w == [que[t] EXCEPT !.user = Tail(que[t].user)]
  <2>0. q.user # <<>> /\ me.proc = None
    BY <1>12
  <2>1. IsInjective(q.user)
    BY <1>2 DEF RepeatsAt
  <2>2. Tail(q.user) \in Seq(Req) /\ r \in Req /\ r \in ToSet(q.user) /\ IsInjective(Tail(q.user)) /\ ToSet(Tail(q.user)) = ToSet(q.user) \ {r}
    BY <1>6, <2>0, <2>1, SeqTail
  <2>3. rq[r].st = "queued" /\ rq[r].io = t
    BY <1>2, <2>2 DEF QueuesAt
  <2>4. w \in QueRec
    BY <1>5, <2>2 DEF QueRec
  <2>5. /\ w.disk = que[t].disk /\ w.pend = que[t].pend /\ w.cached = que[t].cached /\ w.comp = que[t].comp
        /\ w.user = Tail(que[t].user)
    BY <1>5 DEF QueRec
  <2>6. que' = [que EXCEPT ![t] = w]
    BY <1>3, <1>12
  <2>7. th' = [th EXCEPT ![t] = Start(th[t], r)] /\ rq' = [rq EXCEPT ![r].st = "taken"]
    BY <1>12
  <2> HIDE DEF r, w, take
  <2> QED BY <1>1, <2>0, <2>2, <2>3, <2>4, <2>5, <2>6, <2>7, TakeUp
<1>13. CASE /\ th' = [th EXCEPT ![t].pc = IF q.cached # <<>> \/ q.comp # <<>> THEN "cached"
                                          ELSE IF me.goal = 0 THEN "user"
                                          ELSE IF Underlying(t) # {} THEN "wait" ELSE "disk"]
            /\ UNCHANGED <<que, rq>>
  <2> DEFINE pc == IF q.cached # <<>> \/ q.comp # <<>> THEN "cached" ELSE IF me.goal = 0 THEN "user"
                   ELSE IF Underlying(t) # {} THEN "wait" ELSE "disk"
  <2>1. pc \in Idle
    BY DEF Idle
  <2>2. th' = [th EXCEPT ![t].pc = pc]
    BY <1>13
  <2> HIDE DEF pc
  <2> QED BY <1>8, <1>13, <2>1, <2>2
<1> HIDE DEF take
<1> QED BY <1>7, <1>9, <1>10, <1>11, <1>12, <1>13

-------------------------------------------------------------------------------
(* The search for a page                                                   *)

\* A thread that searches a page of its request does not have that page.
LEMMA Searching == ASSUME IInv, NEW t \in Thread, th[t].pc = "search"
                   PROVE /\ th[t].proc \in Req /\ th[t].cur = None /\ th[t].out = {} /\ th[t].nxt \in Page /\ th[t].nxt + 1 \in 0 .. NumPages
                         /\ rq[th[t].proc].st = "taken" /\ rq[th[t].proc].io = t /\ th[t].nxt <= rq[th[t].proc].last
                         /\ th[t].nxt \in PagesOf(th[t].proc) \ rq[th[t].proc].done
                         /\ \A f \in Frame, k \in Kind : frame[f].id = th[t].nxt => ~In(f, th[t].proc, k)
<1>1. TypeOK /\ ControlAt(t) /\ WorkingAt(t)
  BY Parts
<1> DEFINE r == th[t].proc
           n == th[t].nxt
<1>2. r \in Req /\ r # None /\ th[t].cur = None /\ th[t].out = {} /\ n <= rq[r].last
  BY <1>1, Records DEF ControlAt
<1>3. /\ rq[r].st = "taken" /\ rq[r].io = t /\ rq[r].first <= n
      /\ (\A p \in rq[r].done : p < n) /\ \A f \in FramesHeld(r) : frame[f].id < n
  BY <1>1, <1>2 DEF WorkingAt
<1>4. n \in Nat /\ rq[r].last \in Page /\ rq[r].last \in Nat /\ rq[r].first \in Nat
  BY <1>1, <1>2, Records
<1>5. n \in Page /\ n + 1 \in 0 .. NumPages
  BY <1>2, <1>4, NoneApart
<1>6. n \in PagesOf(r) /\ n \notin rq[r].done
  BY <1>2, <1>3, <1>4 DEF PagesOf
<1>7. ASSUME NEW f \in Frame, NEW k \in Kind, frame[f].id = n, In(f, r, k) PROVE FALSE
  <2>1. f \in FramesHeld(r)
    BY <1>7 DEF FramesHeld
  <2> QED BY <1>3, <1>4, <1>7, <2>1
<1> QED BY <1>2, <1>3, <1>5, <1>6, <1>7

\* The search gives the thread a frame.
Found(t, f, old) == th' = [th EXCEPT ![t] = [th[t] EXCEPT !.cur = f, !.old = old, !.nxt = @ + 1, !.pc = "got"]]
LEMMA FoundMoved == ASSUME IInv, NEW t \in Thread, NEW f \in Frame, th[t].pc = "search", NEW old \in 0 .. NumPages \cup {None},
                           Found(t, f, old),
                           \A k \in Kind : ~In(f, th[t].proc, k), \A g \in Frame : frame'[g].reqs = frame[g].reqs,
                           UNCHANGED <<flight, que, rq>>
                    PROVE /\ th' \in [Thread -> ThRec] /\ \A u \in Thread \ {t} : th'[u] = th[u]
                          /\ th'[t].cur = f /\ th'[t].old = old /\ th'[t].nxt = th[t].nxt + 1 /\ th'[t].pc = "got"
                          /\ th'[t].arg = th[t].arg /\ th'[t].proc = th[t].proc /\ th'[t].batch = th[t].batch
                          /\ th'[t].out = {} /\ th'[t].acc = th[t].acc
                          /\ \A r \in Req : r = th[t].proc => Moved(f, r, "cur")
                          /\ IOApart' /\ Ios' = Ios /\ \A g \in Frame : SameCov(g)
                          /\ \A g \in Frame : ~Evicting(t, g)
<1>1. th \in [Thread -> ThRec]
  BY Parts, TypesForm
<1>2. th[t] \in ThRec
  BY <1>1
<1>3. th[t].cur = None /\ th[t].out = {} /\ th[t].nxt + 1 \in 0 .. NumPages /\ th[t].proc \in Req
  BY Searching
<1> DEFINE m == th[t].nxt + 1
           me == [th[t] EXCEPT !.cur = f, !.old = old, !.nxt = m, !.pc = "got"]
<1>4. th' = [th EXCEPT ![t] = me]
  BY <1>1 DEF Found
<1>5. m \in 0 .. NumPages
  BY <1>3
<1> HIDE DEF m
<1>6. me \in ThRec
  BY <1>2, <1>5 DEF ThRec, Pcs
<1>7. /\ me.cur = f /\ me.old = old /\ me.nxt = m /\ me.pc = "got" /\ me.arg = th[t].arg /\ me.proc = th[t].proc
      /\ me.batch = th[t].batch /\ me.out = th[t].out /\ me.acc = th[t].acc
  BY <1>2 DEF ThRec
<1> HIDE DEF me
<1>8. th' \in [Thread -> ThRec] /\ th'[t] = me /\ \A u \in Thread \ {t} : th'[u] = th[u]
  BY <1>1, <1>4, <1>6
<1>9. ASSUME NEW r \in Req, r = th[t].proc PROVE Moved(f, r, "cur")
  <2>1. ASSUME NEW g \in Frame, NEW s \in Req, NEW k \in Kind
        PROVE At(th'[t], que'[t], g, s, k) <=> IF g = f /\ s = r THEN k = "cur" /\ "cur" \notin {"reqs", "held"}
                                               ELSE At(th[t], que[t], g, s, k)
    <3>1. At(th'[t], que'[t], g, s, k) <=> At(th[t], que[t], g, s, k) \/ (k = "cur" /\ g = f /\ s = r)
      BY <1>3, <1>7, <1>8, <1>9, NoneApart DEF At
    <3>2. ~(g = f /\ s = r /\ At(th[t], que[t], g, s, k))
      BY <1>9 DEF In
    <3> QED BY <3>1, <3>2
  <2>2. \A g \in Frame, s \in Req : s \in ToSet(frame'[g].reqs) <=> IF g = f /\ s = r THEN "cur" = "reqs" ELSE s \in ToSet(frame[g].reqs)
    <3>1. ~In(f, r, "reqs")
      BY <1>9 DEF Kind
    <3> QED BY <3>1 DEF In
  <2>3. \A g \in Frame, s \in Req : g \in rq'[s].held <=> IF g = f /\ s = r THEN "cur" = "held" ELSE g \in rq[s].held
    <3>1. ~In(f, r, "held")
      BY <1>9 DEF Kind
    <3> QED BY <3>1 DEF In
  <2>4. \A k \in Kind : ~In(f, r, k)
    BY <1>9
  <2> QED BY <1>8, <2>1, <2>2, <2>3, <2>4, OneMove
<1>10. IOApart' /\ Ios' = Ios /\ \A g \in Frame : SameCov(g)
  <2>1. \A u \in Thread : que'[u].disk = que[u].disk /\ th'[u].out = th[u].out /\ (th[u].out = {} \/ OutOp(u)' = OutOp(u))
    <3> TAKE u \in Thread
    <3>1. CASE u = t
      BY <1>3, <1>7, <1>8, <3>1
    <3>2. CASE u # t
      BY <1>8, <3>2 DEF OutOp
    <3> QED BY <3>1, <3>2
  <2> QED BY <2>1, IOSame
<1>11. \A g \in Frame : ~Evicting(t, g)
  BY <1>3, NoneApart DEF Evicting
<1> QED BY <1>3, <1>7, <1>8, <1>9, <1>10, <1>11 DEF m

\* The request a thread goes on with.
LEMMA WorkingNext == ASSUME NEW t \in Thread, NEW r \in Req, th'[t].proc = r,
                            th'[t].arg # None => /\ rq'[th'[t].arg].st = "queued" /\ rq'[th'[t].arg].io = t
                                                 /\ th'[t].arg \notin ToSet(que'[t].user),
                            th'[t].cur # None => frame'[th'[t].cur].id \in Page /\ frame'[th'[t].cur].id + 1 = th'[t].nxt,
                            rq'[r].st = "taken", rq'[r].io = t, rq'[r].first <= th'[t].nxt, th'[t].nxt <= rq'[r].last + 1,
                            \A p \in rq'[r].done : p < th'[t].nxt,
                            \A g \in Frame, k \in Kind : In(g, r, k)' => frame'[g].id < th'[t].nxt
                     PROVE WorkingAt(t)'
<1>1. \A s : s = th'[t].proc => FramesHeld(th[t].proc)' = FramesHeld(s)'
  BY DEF FramesHeld, In
<1>2. \A g \in FramesHeld(r)' : frame'[g].id < th'[t].nxt
  BY DEF FramesHeld
<1>3. \A g \in FramesHeld(th[t].proc)' : frame'[g].id < th'[t].nxt
  BY <1>1, <1>2
<1> QED BY <1>3 DEF WorkingAt

\* The invariant after a search that found a frame.
LEMMA FoundStep == ASSUME IInv, NEW t \in Thread, NEW f \in Frame, th[t].pc = "search", NEW old \in 0 .. NumPages \cup {None},
                           Found(t, f, old),
                           \A k \in Kind : ~In(f, th[t].proc, k), \A g \in Frame : frame'[g].reqs = frame[g].reqs,
                           disk' = disk, UNCHANGED <<flight, que, rq>>, raced' \subseteq Page, frame' \in [Frame -> FrameRec],
                           frame'[f].id = th[t].nxt, \A g \in Frame \ {f} : Same(g), Touch(t, f), OneFrame',
                           frame[f].oldDirty => frame'[f].oldDirty, old = None \/ frame[f].ref = 0,
                           old # None /\ frame'[f].oldDirty => ~frame'[f].pending /\ old \in Page,
                           CountedAt(f)' /\ FlagsAt(f)' /\ IsInjective(frame'[f].reqs)
                    PROVE IInv'
<1>1. TypeOK /\ ControlAt(t) /\ WorkingAt(t)
  BY Parts
<1>0. PICK r \in Req : r = th[t].proc
  BY Searching
<1>2. /\ th' \in [Thread -> ThRec] /\ (\A u \in Thread \ {t} : th'[u] = th[u])
      /\ th'[t].cur = f /\ th'[t].old = old /\ th'[t].nxt = th[t].nxt + 1 /\ th'[t].pc = "got"
      /\ th'[t].arg = th[t].arg /\ th'[t].proc = r /\ th'[t].batch = th[t].batch
      /\ th'[t].out = {} /\ th'[t].acc = th[t].acc
  <2>1. th'[t].proc = th[t].proc /\ th'[t].out = {} /\ th'[t].acc = th[t].acc /\ th'[t].arg = th[t].arg /\ th'[t].batch = th[t].batch
    BY FoundMoved
  <2>2. /\ th' \in [Thread -> ThRec] /\ (\A u \in Thread \ {t} : th'[u] = th[u])
        /\ th'[t].cur = f /\ th'[t].old = old /\ th'[t].nxt = th[t].nxt + 1 /\ th'[t].pc = "got"
    BY FoundMoved
  <2> QED BY <1>0, <2>1, <2>2
<1>3. IOApart' /\ Ios' = Ios /\ (\A g \in Frame : SameCov(g)) /\ \A g \in Frame : ~Evicting(t, g)
  BY FoundMoved
<1>4. /\ r \in Req /\ th[t].cur = None /\ th[t].out = {} /\ th[t].nxt \in Page /\ th[t].nxt + 1 \in 0 .. NumPages
      /\ rq[r].st = "taken" /\ rq[r].io = t /\ th[t].nxt <= rq[r].last /\ th[t].nxt \in PagesOf(r) \ rq[r].done
  BY <1>0, Searching
<1>5. Moved(f, r, "cur")
  BY <1>0, FoundMoved
<1>6. TypeOK'
  BY <1>1, <1>2, TypesForm, TypesNext
<1>7. \A g \in Frame \ {f} : frame'[g].id = frame[g].id /\ frame'[g].oldDirty = frame[g].oldDirty
  BY DEF Same
<1>8. RequestAt(r)'
  <2>1. "cur" \in Kind \ {"held"} /\ rq'[r] = rq[r] /\ frame'[f].id \in PagesOf(r) \ rq[r].done
    BY <1>4 DEF Kind
  <2> QED BY <1>4, <1>5, <1>7, <2>1, ReqMoved
<1>9. SingleWrites'
  <2>1. \A u \in Thread : th'[u].pc \in {"mergeF", "mergeB"} =>
           th[u].pc \in {"mergeF", "mergeB"} /\ th[u].out \subseteq th'[u].out /\ th'[u].old = th[u].old
    BY <1>2
  <2>2. \A g \in Frame : frame[g].oldDirty => frame'[g].oldDirty
    BY <1>7
  <2> QED BY <1>3, <2>1, <2>2, SingleSame
<1>10. EvictorAt(t)'
  <2>1. ASSUME NEW g \in Frame, Evicting(t, g)' PROVE g = f /\ old # None
    BY <1>2, <2>1 DEF Evicting
  <2> QED BY <1>2, <2>1 DEF EvictorAt
<1>11. ControlAt(t)'
  BY <1>0, <1>1, <1>2, <1>4, NoneApart DEF ControlAt
<1>12. WorkingAt(t)'
  <2> DEFINE n == th[t].nxt
  <2>1. /\ rq[r].first <= n /\ (\A p \in rq[r].done : p < n) /\ \A g \in FramesHeld(r) : frame[g].id < n
    BY <1>0, <1>1, <1>4, NoneApart DEF WorkingAt
  <2>2. n \in Nat /\ rq[r].first \in Nat /\ rq[r].last \in Nat /\ rq[r].done \subseteq Page
    BY <1>1, <1>4, Records
  <2>3. \A p \in rq[r].done : p < n + 1
    <3>1. \A p \in rq[r].done : p \in Nat
      BY <2>2, NoneApart
    <3> QED BY <2>1, <2>2, <3>1
  <2>4. ASSUME NEW g \in Frame, NEW k \in Kind, In(g, r, k)' PROVE frame'[g].id < n + 1
    <3>2. CASE g = f
      BY <2>2, <3>2
    <3>3. CASE g # f
      <4>1. In(g, r, k)
        BY <1>5, <2>4, <3>3 DEF Moved
      <4>2. frame[g].id < n /\ frame'[g].id = frame[g].id
        BY <1>7, <2>1, <3>3, <4>1 DEF FramesHeld
      <4>4. frame[g].id \in Nat
        BY <4>1, WithFrame, NoneApart
      <4> QED BY <2>2, <4>2, <4>4
    <3> QED BY <3>2, <3>3
  <2>5. rq[r].first <= n + 1 /\ n + 1 <= rq[r].last + 1
    BY <1>4, <2>1, <2>2
  <2>7. frame'[f].id \in Page /\ frame'[f].id + 1 = th'[t].nxt
    BY <1>2, <1>4
  <2>8. th[t].arg # None => rq[th[t].arg].st = "queued" /\ rq[th[t].arg].io = t /\ th[t].arg \notin ToSet(que[t].user)
    BY <1>1 DEF WorkingAt
  <2> QED BY <1>2, <1>4, <2>3, <2>4, <2>5, <2>7, <2>8, WorkingNext
<1>13. QueuesAt(t)' /\ RepeatsAt(t)'
  BY <1>2, QueuesSame
<1>14. \A k, l \in Kind : In(f, r, k)' /\ In(f, r, l)' => k = l
  BY <1>5 DEF Moved
<1>15. \A g \in Frame, s \in Req, k \in Kind : ~(g = f /\ s = r) => (In(g, s, k)' <=> In(g, s, k))
  BY <1>5 DEF Moved
<1>16. th'[t].cur = None \/ th'[t].old = None \/ (f \in Frame /\ th'[t].cur = f /\ frame[f].ref = 0)
  BY <1>2
<1>17. \A g \in Frame \ {f} : Same(g) /\ SameCov(g) /\ (Evicting(t, g) /\ frame[g].oldDirty => Evicting(t, g)')
  BY <1>3
<1>18. rq[r].io \in {t, None} /\ \A s \in Req \ {r} : rq'[s] = rq[s]
  BY <1>4
<1>19. \A u \in Thread \ {t} : th'[u] = th[u] /\ que'[u] = que[u]
  BY <1>2
<1>20. th'[t].acc = th[t].acc
  BY <1>2
<1>21. EvictorAt(t)' /\ ControlAt(t)' /\ WorkingAt(t)' /\ QueuesAt(t)' /\ RepeatsAt(t)' /\ IOApart' /\ SingleWrites'
  BY <1>3, <1>9, <1>10, <1>11, <1>12, <1>13
<1> QED BY <1>6, <1>8, <1>14, <1>15, <1>16, <1>17, <1>18, <1>19, <1>20, <1>21, LocalStep

\* The search finds the page.
LEMMA SearchHitStep == ASSUME IInv, NEW t \in Thread, SearchHit(t) PROVE IInv'
<1>1. TypeOK /\ OneFrame
  BY Parts
<1>2. th[t].pc = "search" /\ disk' = disk /\ raced' = raced /\ UNCHANGED <<flight, que, rq>>
  BY Zenon DEF SearchHit
<1>3. PICK f \in FramesOf(th[t].nxt) : /\ frame' = [frame EXCEPT ![f].ref = @ + 1]
                                       /\ Found(t, f, None)
  BY Zenon DEF SearchHit, Found
<1>4. f \in Frame /\ frame[f].id = th[t].nxt
  BY DEF FramesOf
<1>0. PICK r \in Req : r = th[t].proc
  BY <1>2, Searching
<1>5. \A k \in Kind : ~In(f, r, k)
  BY <1>0, <1>2, <1>4, Searching
<1>6. frame \in [Frame -> FrameRec] /\ raced \subseteq Page
  BY <1>1, TypesForm
<1>7. frame[f] \in FrameRec
  BY <1>4, <1>6
<1> DEFINE pg == [frame[f] EXCEPT !.ref = @ + 1]
<1>8. pg \in FrameRec /\ pg.id = frame[f].id /\ pg.oldDirty = frame[f].oldDirty /\ pg.pending = frame[f].pending /\ pg.reqs = frame[f].reqs
  BY <1>7 DEF FrameRec
<1>9. frame' = [frame EXCEPT ![f] = pg]
  BY <1>3, <1>6
<1>10. frame' \in [Frame -> FrameRec] /\ frame'[f] = pg /\ \A g \in Frame \ {f} : frame'[g] = frame[g]
  <2> HIDE DEF pg
  <2> QED BY <1>4, <1>6, <1>8, <1>9
<1>11. \A g \in Frame : frame'[g].reqs = frame[g].reqs /\ frame'[g].id = frame[g].id
  BY <1>8, <1>10
<1>12. Moved(f, r, "cur") /\ SameCov(f) /\ (\A g \in Frame : ~Evicting(t, g)) /\ \A u \in Thread \ {t} : th'[u] = th[u]
  BY <1>0, <1>2, <1>3, <1>4, <1>5, <1>11, FoundMoved
<1>13. EvictKept(f)
  BY <1>4, <1>12 DEF EvictKept, Evicting
<1>14. CountedAt(f)' /\ FlagsAt(f)' /\ IsInjective(frame'[f].reqs)
  BY <1>4, <1>5, <1>10, <1>12, <1>13, FrameHit
<1>15. Touch(t, f) /\ \A g \in Frame \ {f} : Same(g)
  BY <1>8, <1>10 DEF Touch, Same
<1>16. OneFrame'
  BY <1>1, <1>11 DEF OneFrame
<1>17. \A k \in Kind : ~In(f, th[t].proc, k)
  BY <1>0, <1>5
<1>18. frame[f].oldDirty => frame'[f].oldDirty
  BY <1>8, <1>10
<1> HIDE DEF pg
<1> QED BY <1>2, <1>3, <1>4, <1>6, <1>10, <1>11, <1>14, <1>15, <1>16, <1>17, <1>18, FoundStep

\* The frames whose data a voter takes are not used.
LEMMA LosersUnused == ASSUME TypeOK, NEW L \in Losers
                      PROVE /\ L \subseteq Frame /\ (\A g \in L : Voter /\ frame[g].ref = 0)
                            /\ Unready(frame, L) \in [Frame -> FrameRec]
                            /\ \A g \in Frame : /\ Unready(frame, L)[g].id = frame[g].id /\ Unready(frame, L)[g].pending = frame[g].pending
                                                /\ Unready(frame, L)[g].dirty = frame[g].dirty /\ Unready(frame, L)[g].oldDirty = frame[g].oldDirty
                                                /\ Unready(frame, L)[g].ref = frame[g].ref /\ Unready(frame, L)[g].reqs = frame[g].reqs
                                                /\ \/ Unready(frame, L)[g].ready = frame[g].ready
                                                   \/ Voter /\ frame[g].ref = 0 /\ ~Unready(frame, L)[g].ready
<1>1. L \subseteq Frame /\ \A g \in L : Voter /\ frame[g].ref = 0
  BY DEF Losers, Candidates, Evictable
<1>2. ASSUME NEW g \in Frame
      PROVE /\ Unready(frame, L)[g] \in FrameRec
            /\ Unready(frame, L)[g].id = frame[g].id /\ Unready(frame, L)[g].pending = frame[g].pending
            /\ Unready(frame, L)[g].dirty = frame[g].dirty /\ Unready(frame, L)[g].oldDirty = frame[g].oldDirty
            /\ Unready(frame, L)[g].ref = frame[g].ref /\ Unready(frame, L)[g].reqs = frame[g].reqs
            /\ \/ Unready(frame, L)[g].ready = frame[g].ready
               \/ Voter /\ frame[g].ref = 0 /\ ~Unready(frame, L)[g].ready
  <2>1. frame[g] \in FrameRec
    BY Records
  <2>2. CASE g \in L
    <3>1. Unready(frame, L)[g] = [frame[g] EXCEPT !.ready = FALSE]
      BY <2>2 DEF Unready
    <3> QED BY <1>1, <2>1, <2>2, <3>1 DEF FrameRec
  <2>3. CASE g \notin L
    <3>1. Unready(frame, L)[g] = frame[g]
      BY <2>3 DEF Unready
    <3> QED BY <2>1, <3>1
  <2> QED BY <2>2, <2>3
<1>3. Unready(frame, L) \in [Frame -> FrameRec]
  <2>1. Unready(frame, L) = [g \in Frame |-> Unready(frame, L)[g]]
    BY DEF Unready
  <2> QED BY <1>2, <2>1, Zenon
<1> QED BY <1>1, <1>2, <1>3

\* The search evicts a page.
LEMMA SearchMissStep == ASSUME IInv, NEW t \in Thread, SearchMiss(t) PROVE IInv'
<1> DEFINE p == th[t].nxt
<1>1. TypeOK /\ OneFrame
  BY Parts
<1>2. /\ th[t].pc = "search" /\ disk' = disk /\ UNCHANGED <<flight, que, rq>> /\ FramesOf(p) = {}
      /\ raced' = IF \E f \in Frame : frame[f].oldDirty /\ frame[f].dataOf = p THEN raced \cup {p} ELSE raced
  BY Zenon DEF SearchMiss
<1>3. PICK f \in Frame, L \in Losers :
         /\ Evictable(f) /\ f \notin L
         /\ frame' = [Unready(frame, L) EXCEPT ![f] = Evicted(f, p)]
         /\ Found(t, f, IF frame[f].id = None THEN NumPages ELSE frame[f].id)
  BY ZenonT(30) DEF SearchMiss, Found
<1> DEFINE old == IF frame[f].id = None THEN NumPages ELSE frame[f].id
<1>4. frame[f].ref = 0
  BY <1>3 DEF Evictable
<1>0. PICK r \in Req : r = th[t].proc
  BY <1>2, Searching
<1>5. p \in Page
  BY <1>2, Searching
<1>6. frame[f] \in FrameRec /\ frame[f].id \in Page \cup {None} /\ FlagsAt(f)
  BY <1>1, Records, Parts
<1>7. old \in 0 .. NumPages \cup {None} /\ old # None /\ (frame[f].id # None => old \in Page)
  BY <1>6, NoneApart
<1>8. Evicted(f, p) \in FrameRec
  BY <1>5, <1>6 DEF Evicted, FrameRec
<1> HIDE DEF old, p
<1>9. /\ Unready(frame, L) \in [Frame -> FrameRec]
      /\ \A g \in Frame : /\ Unready(frame, L)[g].id = frame[g].id /\ Unready(frame, L)[g].pending = frame[g].pending
                          /\ Unready(frame, L)[g].dirty = frame[g].dirty /\ Unready(frame, L)[g].oldDirty = frame[g].oldDirty
                          /\ Unready(frame, L)[g].ref = frame[g].ref /\ Unready(frame, L)[g].reqs = frame[g].reqs
                          /\ \/ Unready(frame, L)[g].ready = frame[g].ready
                             \/ Voter /\ frame[g].ref = 0 /\ ~Unready(frame, L)[g].ready
  BY <1>1, LosersUnused
<1>10. frame' \in [Frame -> FrameRec] /\ frame'[f] = Evicted(f, p) /\ \A g \in Frame \ {f} : frame'[g] = Unready(frame, L)[g]
  BY <1>3, <1>8, <1>9, OneValue
<1>11. \A g \in Frame \ {f} : Same(g)
  BY <1>9, <1>10 DEF Same
<1>12. frame'[f].id = p /\ frame'[f].reqs = frame[f].reqs
  BY <1>6, <1>10 DEF Evicted, FrameRec
<1>13. \A g \in Frame : frame'[g].reqs = frame[g].reqs
  BY <1>9, <1>10, <1>12
<1>14. (\A s \in Req, k \in Kind : ~In(f, s, k)) /\ ~frame[f].oldDirty
  BY <1>4, Unreferenced
<1>15. Found(t, f, old)
  BY <1>3 DEF old
<1>16. Moved(f, r, "cur") /\ SameCov(f) /\ th'[t].cur = f /\ th'[t].old = old /\ th'[t].pc = "got"
  BY <1>0, <1>2, <1>7, <1>13, <1>14, <1>15, FoundMoved
<1>17. Evicting(t, f)'
  BY <1>7, <1>16 DEF Evicting
<1>18. /\ CountedAt(f)' /\ FlagsAt(f)' /\ IsInjective(frame'[f].reqs)
       /\ frame'[f].oldDirty = frame[f].dirty /\ ~frame'[f].dirty /\ ~frame'[f].pending
  BY <1>4, <1>5, <1>10, <1>16, <1>17, FrameEvict
<1>19. OneFrame'
  <2>1. \A g \in Frame : frame[g].id # p
    BY <1>2 DEF FramesOf, p
  <2>2. \A g \in Frame \ {f} : frame'[g].id = frame[g].id
    BY <1>11 DEF Same
  <2> QED BY <1>1, <1>12, <2>1, <2>2 DEF OneFrame
<1>20. raced' \subseteq Page
  BY <1>1, <1>2, <1>5, TypesForm DEF p
<1>21. frame'[f].oldDirty => old \in Page
  BY <1>6, <1>7, <1>18 DEF FlagsAt
<1>22. Touch(t, f) /\ \A k \in Kind : ~In(f, th[t].proc, k)
  BY <1>0, <1>4, <1>14 DEF Touch
<1>23. frame'[f].id = th[t].nxt
  BY <1>12 DEF p
<1> QED BY <1>2, <1>4, <1>7, <1>10, <1>11, <1>13, <1>14, <1>15, <1>18, <1>19, <1>20, <1>21, <1>22, <1>23, FoundStep

\* The search finds no page to evict.
LEMMA SearchNullStep == ASSUME IInv, NEW t \in Thread, SearchNull(t) PROVE IInv'
<1>1. TypeOK /\ ControlAt(t) /\ EvictorAt(t)
  BY Parts
<1>2. th[t].pc = "search" /\ UNCHANGED <<disk, raced, flight, que, rq>>
  BY DEF SearchNull
<1>3. PICK L \in Losers : frame' = Unready(frame, L)
  BY DEF SearchNull
<1>4. frame' \in [Frame -> FrameRec] /\ \A f \in Frame : Same(f)
  BY <1>1, <1>3, LosersUnused DEF Same
<1>5. th \in [Thread -> ThRec]
  BY <1>1, TypesForm
<1>6. th[t] \in ThRec
  BY <1>5
<1>7. th[t].cur = None /\ th[t].out = {} /\ th[t].proc # None /\ th[t].nxt <= rq[th[t].proc].last
  BY <1>1, <1>2 DEF ControlAt
<1> DEFINE me == IF th[t].batch = <<>> THEN [th[t] EXCEPT !.pc = "ret"] ELSE [th[t] EXCEPT !.pc = "flush", !.cont = "null"]
<1>8. th' = [th EXCEPT ![t] = me]
  BY DEF SearchNull
<1>9. /\ me \in ThRec
      /\ me.arg = th[t].arg /\ me.proc = th[t].proc /\ me.cur = th[t].cur /\ me.batch = th[t].batch
      /\ me.nxt = th[t].nxt /\ me.old = th[t].old /\ me.out = th[t].out /\ me.acc = th[t].acc
      /\ (me.pc = "ret" /\ th[t].batch = <<>>) \/ (me.pc = "flush" /\ me.cont = "null" /\ th[t].batch # <<>>)
  <2>1. CASE th[t].batch = <<>>
    <3>1. me = [th[t] EXCEPT !.pc = "ret"]
      BY <2>1
    <3> HIDE DEF me
    <3> QED BY <1>6, <2>1, <3>1 DEF ThRec, Pcs
  <2>2. CASE th[t].batch # <<>>
    <3>1. me = [th[t] EXCEPT !.pc = "flush", !.cont = "null"]
      BY <2>2
    <3> HIDE DEF me
    <3> QED BY <1>6, <2>2, <3>1 DEF ThRec, Pcs
  <2> QED BY <2>1, <2>2
<1> HIDE DEF me
<1>10. th'[t] = me
  BY <1>5, <1>8
<1>11. EvictorAt(t)'
  BY <1>7, <1>9, <1>10, NoEvictor
<1>12. ControlAt(t)'
  BY <1>1, <1>2, <1>7, <1>9, <1>10 DEF ControlAt
<1>13. \A f \in Frame : ~Evicting(t, f)
  BY <1>7, NoneApart DEF Evicting
<1> QED BY <1>2, <1>4, <1>7, <1>8, <1>9, <1>11, <1>12, <1>13, QuietStep

-------------------------------------------------------------------------------
(* A request and its page                                                  *)

\* A thread with a page in hand.
LEMMA HasPage == ASSUME IInv, NEW t \in Thread, th[t].pc \in {"got", "old", "use"}
                 PROVE \E f \in Frame, r \in Req :
                         /\ f = th[t].cur /\ r = th[t].proc /\ rq[r].io = t /\ rq[r].st = "taken" /\ In(f, r, "cur")
                         /\ frame[f].id \in PagesOf(r) \ rq[r].done /\ frame[f].id \in Page /\ frame[f].id + 1 = th[t].nxt
                         /\ th[t].out = {} /\ (th[t].batch # <<>> => rq[r].op # "write")
<1>1. TypeOK /\ ControlAt(t) /\ WorkingAt(t)
  BY Parts
<1>2. th[t].cur \in Frame /\ th[t].proc \in Req /\ th[t].cur # None /\ th[t].proc # None /\ th[t].out = {}
  BY <1>1, Records DEF ControlAt
<1>3. PICK f \in Frame, r \in Req : f = th[t].cur /\ r = th[t].proc
  BY <1>2
<1>4. rq[r].io = t /\ rq[r].st = "taken" /\ frame[f].id \in Page /\ frame[f].id + 1 = th[t].nxt
  BY <1>1, <1>2, <1>3 DEF WorkingAt
<1>5. In(f, r, "cur")
  BY <1>3 DEF In, At
<1>6. frame[f].id \in PagesOf(r) /\ frame[f].id \notin rq[r].done
  BY <1>5, WithFrame DEF Kind
<1>7. th[t].batch # <<>> => rq[r].op # "write"
  BY <1>1, <1>3 DEF ControlAt
<1> QED BY <1>2, <1>3, <1>4, <1>5, <1>6, <1>7

\* The lists of the frames and the references that the requests keep, when r goes to place l with f.
ListsNext(f, r, l) ==
    /\ \A g \in Frame : ToSet(frame'[g].reqs) = ToSet(frame[g].reqs) \cup (IF l = "reqs" /\ g = f THEN {r} ELSE {})
    /\ \A s \in Req : rq'[s].held = rq[s].held \cup (IF l = "held" /\ s = r THEN {f} ELSE {})
\* The places of the thread.
PlacesNext(t, f, r, l) ==
    /\ th'[t].cur = None /\ th'[t].proc \in {r, None} /\ th'[t].acc = th[t].acc
    /\ th'[t].proc = None => ToSet(th'[t].batch) = {}
    /\ ToSet(th'[t].batch) = ToSet(th[t].batch) \cup (IF l = "batch" THEN {f} ELSE {})
    /\ ToSet(que'[t].cached) = ToSet(que[t].cached) \cup (IF l = "cached" THEN {<<f, r>>} ELSE {})
    /\ que'[t].pend = que[t].pend
\* The thread is at the head of the loop with locals me.
Looped(t, me) == th' = [th EXCEPT ![t] = Loop(me)]

\* The thread lays the page aside, for the request to be found with it elsewhere or no more.
LEMMA LetGo == ASSUME IInv, NEW t \in Thread, NEW f \in Frame, NEW r \in Req, th[t].cur = f, th[t].proc = r,
                      NEW l \in {"reqs", "held", "none", "cached", "batch"},
                      \A u \in Thread \ {t} : th'[u] = th[u] /\ que'[u] = que[u],
                      PlacesNext(t, f, r, l), ListsNext(f, r, l)
               PROVE Moved(f, r, l)
<1>1. At(th[t], que[t], f, r, "cur") /\ "cur" \in Kind
  BY DEF At, Kind
<1>2. In(f, r, "cur") /\ \A k \in Kind : In(f, r, k) => k = "cur"
  <2>1. In(f, r, "cur")
    BY <1>1 DEF In
  <2> QED BY <1>1, <2>1, WithFrame
<1>3. /\ ~In(f, r, "batch") /\ ~In(f, r, "pend") /\ ~In(f, r, "cached") /\ ~In(f, r, "acc") /\ ~In(f, r, "reqs") /\ ~In(f, r, "held")
  BY <1>2 DEF Kind
<1>4. /\ f \notin ToSet(th[t].batch) /\ <<f, r>> \notin ToSet(que[t].pend) /\ <<f, r>> \notin ToSet(que[t].cached)
      /\ r \notin ToSet(frame[f].reqs) /\ f \notin rq[r].held
      /\ ~At(th[t], que[t], f, r, "acc")
  BY <1>3 DEF In, At
<1>5. ASSUME NEW g \in Frame, NEW s \in Req, NEW k \in Kind
      PROVE At(th'[t], que'[t], g, s, k) <=> IF g = f /\ s = r THEN k = l /\ l \notin {"reqs", "held"}
                                             ELSE At(th[t], que[t], g, s, k)
  <2>1. CASE k = "cur"
    BY <1>1, <2>1, NoneApart DEF At, PlacesNext
  <2>2. CASE k = "batch"
    <3>1. At(th'[t], que'[t], g, s, k) <=> th'[t].proc = s /\ g \in ToSet(th'[t].batch)
      BY <2>2 DEF At
    <3>2. At(th[t], que[t], g, s, k) <=> r = s /\ g \in ToSet(th[t].batch)
      BY <2>2 DEF At
    <3> QED BY <1>4, <2>2, <3>1, <3>2, NoneApart DEF PlacesNext
  <2>3. CASE k = "cached"
    <3>1. At(th'[t], que'[t], g, s, k) <=> <<g, s>> \in ToSet(que'[t].cached)
      BY <2>3 DEF At
    <3>2. At(th[t], que[t], g, s, k) <=> <<g, s>> \in ToSet(que[t].cached)
      BY <2>3 DEF At
    <3>3. <<g, s>> = <<f, r>> <=> g = f /\ s = r
      OBVIOUS
    <3> QED BY <1>4, <2>3, <3>1, <3>2, <3>3 DEF PlacesNext
  <2>4. CASE k = "pend"
    <3>1. At(th'[t], que'[t], g, s, k) <=> <<g, s>> \in ToSet(que[t].pend)
      BY <2>4 DEF At, PlacesNext
    <3>2. At(th[t], que[t], g, s, k) <=> <<g, s>> \in ToSet(que[t].pend)
      BY <2>4 DEF At
    <3> QED BY <1>4, <2>4, <3>1, <3>2
  <2>5. CASE k = "acc"
    <3>1. At(th'[t], que'[t], g, s, k) <=> At(th[t], que[t], g, s, k)
      BY <2>5 DEF At, PlacesNext
    <3> QED BY <1>4, <2>5, <3>1
  <2>6. CASE k = "reqs" \/ k = "held"
    <3>1. ~At(th'[t], que'[t], g, s, k) /\ ~At(th[t], que[t], g, s, k)
      BY <2>6 DEF At
    <3> QED BY <2>6, <3>1
  <2> QED BY <2>1, <2>2, <2>3, <2>4, <2>5, <2>6 DEF Kind
<1>6. \A g \in Frame, s \in Req : s \in ToSet(frame'[g].reqs) <=> IF g = f /\ s = r THEN l = "reqs" ELSE s \in ToSet(frame[g].reqs)
  BY <1>4 DEF ListsNext
<1>7. \A g \in Frame, s \in Req : g \in rq'[s].held <=> IF g = f /\ s = r THEN l = "held" ELSE g \in rq[s].held
  BY <1>4 DEF ListsNext
<1>8. \E k \in Kind : At(th[t], que[t], f, r, k)
  BY <1>1
<1> QED BY <1>5, <1>6, <1>7, <1>8, OneMove

\* The invariant after a step that moves one request, with its frame keeping its page.
LEMMA MoveStep ==
    ASSUME IInv, TypeOK', NEW t \in Thread, NEW f \in Frame, NEW r \in Req, NEW l, Moved(f, r, l),
           rq[r].io = t, RequestAt(r)',
           \A u \in Thread \ {t} : th'[u] = th[u] /\ que'[u] = que[u],
           \A s \in Req \ {r} : rq'[s] = rq[s],
           \A g \in Frame \ {f} : Same(g) /\ SameCov(g),
           frame'[f].id = frame[f].id, frame'[f].oldDirty = frame[f].oldDirty,
           frame'[f].pending => frame[f].pending \/ ~frame[f].oldDirty \/ Evicting(t, f),
           \A g \in Frame \ {f} : Evicting(t, g) /\ frame[g].oldDirty => Evicting(t, g)',
           th'[t].acc = th[t].acc,
           CountedAt(f)' /\ FlagsAt(f)' /\ IsInjective(frame'[f].reqs),
           EvictorAt(t)' /\ ControlAt(t)' /\ WorkingAt(t)' /\ QueuesAt(t)' /\ RepeatsAt(t)',
           th'[t].cur = None \/ th'[t].old = None \/ (th'[t].cur = th[t].cur /\ th'[t].old = th[t].old),
           IOApart' /\ SingleWrites'
    PROVE  IInv'
<1>1. OneFrame
  BY Parts
<1>2. \A g \in Frame : frame'[g].id = frame[g].id
  BY DEF Same
<1>3. OneFrame'
  BY <1>1, <1>2 DEF OneFrame
<1>4. Touch(t, f)
  BY DEF Touch
<1>5. \A g \in Frame, s \in Req, k \in Kind : ~(g = f /\ s = r) => (In(g, s, k)' <=> In(g, s, k))
  BY DEF Moved
<1>6. \A k, j \in Kind : In(f, r, k)' /\ In(f, r, j)' => k = j
  BY DEF Moved
<1>7. rq[r].io \in {t, None}
  OBVIOUS
<1> QED BY <1>3, <1>4, <1>5, <1>6, <1>7, LocalStep

\* The thread after the head of the loop.
LEMMA AfterLoop == ASSUME IInv, NEW t \in Thread, NEW me \in ThRec, NEW r \in Req, me.proc = r, Looped(t, me),
                          me.out = {}, me.batch # <<>> => rq'[r].op # "write", rq'[r].last = rq[r].last
                   PROVE /\ th' \in [Thread -> ThRec] /\ (\A u \in Thread \ {t} : th'[u] = th[u])
                         /\ th'[t].cur = None /\ th'[t].batch = me.batch /\ th'[t].arg = me.arg /\ th'[t].nxt = me.nxt
                         /\ th'[t].old = me.old /\ th'[t].out = {} /\ th'[t].acc = me.acc /\ th'[t].proc \in {r, None}
                         /\ (th'[t].proc = None => me.batch = <<>>)
                         /\ th'[t].pc \in {"search", "flush", "ret"} /\ ControlAt(t)' /\ EvictorAt(t)'
                         /\ \A g : ~Evicting(t, g)' \/ g = None
<1> DEFINE l == Loop(me)
<1>1. TypeOK /\ th \in [Thread -> ThRec]
  BY Parts, TypesForm
<1>2. /\ l \in ThRec /\ l.cur = None /\ l.batch = me.batch /\ l.arg = me.arg /\ l.nxt = me.nxt
      /\ l.old = me.old /\ l.out = me.out /\ l.acc = me.acc
      /\ \/ l.proc = me.proc /\ l.pc = "search" /\ me.nxt <= rq[me.proc].last
         \/ l.proc = me.proc /\ l.pc = "flush" /\ l.cont = "ret" /\ me.nxt > rq[me.proc].last /\ me.batch # <<>>
         \/ l.proc = None /\ l.pc = "ret" /\ me.nxt > rq[me.proc].last /\ me.batch = <<>>
  BY <1>1, LoopForm
<1> HIDE DEF l
<1>3. th' \in [Thread -> ThRec] /\ th'[t] = l /\ \A u \in Thread \ {t} : th'[u] = th[u]
  <2>1. th' = [th EXCEPT ![t] = l]
    BY DEF l, Looped
  <2> QED BY <1>1, <1>2, <2>1
<1>4. ControlAt(t)'
  BY <1>2, <1>3, NoneApart DEF ControlAt
<1>5. EvictorAt(t)'
  BY <1>2, <1>3, NoEvictor
<1>6. \A g : ~Evicting(t, g)' \/ g = None
  BY <1>2, <1>3 DEF Evicting
<1>7. /\ th'[t].cur = None /\ th'[t].batch = me.batch /\ th'[t].arg = me.arg /\ th'[t].nxt = me.nxt
      /\ th'[t].old = me.old /\ th'[t].out = {} /\ th'[t].acc = me.acc
  BY <1>2, <1>3
<1>8. /\ th'[t].proc \in {r, None} /\ (th'[t].proc = None => me.batch = <<>>) /\ th'[t].pc \in {"search", "flush", "ret"}
  BY <1>2, <1>3, NoneApart
<1> QED BY <1>3, <1>4, <1>5, <1>6, <1>7, <1>8

\* A request within one page has no pages collected.
LEMMA OnePageNoBatch == ASSUME IInv, NEW t \in Thread, th[t].pc \in {"got", "old", "use"}, WithinOnePage(th[t].proc)
                        PROVE th[t].batch = <<>>
<1>1. PICK f \in Frame, r \in Req : f = th[t].cur /\ r = th[t].proc /\ In(f, r, "cur") /\ frame[f].id \in PagesOf(r) /\ frame[f].id \in Page
  BY HasPage
<1>2. TypeOK /\ OneFrame /\ OnePlace
  BY Parts
<1>3. th[t].batch \in Seq(Frame)
  BY <1>2, Records
<1>4. ASSUME NEW g \in ToSet(th[t].batch) PROVE FALSE
  <2>1. g \in Frame /\ In(g, r, "batch") /\ "batch" \in Kind /\ "cur" \in Kind
    BY <1>1, <1>3, SeqSet DEF In, At, Kind
  <2>2. frame[g].id \in PagesOf(r) /\ frame[g].id \in Page
    BY <2>1, WithFrame
  <2>3. rq[r].first = rq[r].last /\ rq[r].first \in Nat
    BY <1>1, <1>2, Records DEF WithinOnePage
  <2>4. frame[g].id = frame[f].id
    BY <1>1, <2>2, <2>3, NoneApart DEF PagesOf
  <2>5. g = f
    BY <1>1, <1>2, <2>1, <2>4, NoneApart DEF OneFrame
  <2> QED BY <1>1, <1>2, <2>1, <2>5 DEF OnePlace
<1>5. ToSet(th[t].batch) = {}
  BY <1>4
<1> QED BY <1>3, <1>5, SeqSet

\* The thread leaves process_user_req.
LEMMA LeaveForm == ASSUME NEW me \in ThRec
                   PROVE LET n == [me EXCEPT !.proc = None, !.cur = None, !.pc = "ret"] IN
                         /\ n \in ThRec /\ n.proc = None /\ n.cur = None /\ n.pc = "ret" /\ n.batch = me.batch /\ n.acc = me.acc
                         /\ n.out = me.out /\ n.arg = me.arg /\ n.nxt = me.nxt
BY DEF ThRec, Pcs

\* The flags of the page are read: the fast path.
LEMMA FastPathStep == ASSUME IInv, NEW t \in Thread, th[t].pc = "got", th[t].old = None, WithinOnePage(th[t].proc),
                             frame[th[t].cur].ready,
                             que' = [que EXCEPT ![t].cached = Append(@, <<th[t].cur, th[t].proc>>)],
                             th' = [th EXCEPT ![t] = [th[t] EXCEPT !.proc = None, !.cur = None, !.pc = "ret"]],
                             UNCHANGED <<frame, disk, raced, flight, rq>>
                      PROVE IInv'
<1>1. TypeOK /\ ControlAt(t) /\ WorkingAt(t) /\ QueuesAt(t) /\ RepeatsAt(t)
  BY Parts
<1>2. PICK f \in Frame, r \in Req :
         /\ f = th[t].cur /\ r = th[t].proc /\ rq[r].io = t /\ rq[r].st = "taken" /\ In(f, r, "cur")
         /\ frame[f].id \in PagesOf(r) \ rq[r].done /\ frame[f].id \in Page /\ frame[f].id + 1 = th[t].nxt
         /\ th[t].out = {} /\ (th[t].batch # <<>> => rq[r].op # "write")
  BY HasPage
<1>3. th[t].batch = <<>>
  BY OnePageNoBatch
<1>4. th \in [Thread -> ThRec] /\ que \in [Thread -> QueRec]
  BY <1>1, TypesForm
<1>5. th[t] \in ThRec
  BY <1>4
<1>6. que[t] \in QueRec /\ que[t].cached \in Seq(Frame \X Req)
  BY <1>1, Records
<1> DEFINE me == [th[t] EXCEPT !.proc = None, !.cur = None, !.pc = "ret"]
           x == <<f, r>>
           c == Append(que[t].cached, x)
           q == [que[t] EXCEPT !.cached = c]
<1>7. x \notin ToSet(que[t].cached)
  <2>1. ~In(f, r, "cached")
    BY <1>2, WithFrame DEF Kind
  <2> QED BY <2>1 DEF In, At
<1>8. x \in Frame \X Req /\ x[2] = r
  BY <1>2
<1>9. que' = [que EXCEPT ![t] = q]
  BY <1>2, <1>4
<1> HIDE DEF x
<1>10. c \in Seq(Frame \X Req) /\ ToSet(c) = ToSet(que[t].cached) \cup {x} /\ IsInjective(c)
  <2>1. IsInjective(que[t].cached)
    BY <1>1 DEF RepeatsAt
  <2> QED BY <1>6, <1>7, <1>8, <2>1, SeqAppend
<1> HIDE DEF c
<1>12. /\ me \in ThRec /\ me.proc = None /\ me.cur = None /\ me.pc = "ret" /\ me.batch = th[t].batch /\ me.acc = th[t].acc
       /\ me.out = th[t].out /\ me.arg = th[t].arg /\ me.nxt = th[t].nxt
  BY <1>5, LeaveForm, Zenon
<1>13. q \in QueRec
  BY <1>6, <1>10 DEF QueRec
<1>14. q.disk = que[t].disk /\ q.pend = que[t].pend /\ q.cached = c /\ q.comp = que[t].comp /\ q.user = que[t].user
  BY <1>6 DEF QueRec
<1>15. th' = [th EXCEPT ![t] = me]
  OBVIOUS
<1> HIDE DEF me, q
<1>16. th' \in [Thread -> ThRec] /\ th'[t] = me /\ \A u \in Thread \ {t} : th'[u] = th[u]
  BY <1>4, <1>12, <1>15
<1>17. que' \in [Thread -> QueRec] /\ que'[t] = q /\ \A u \in Thread \ {t} : que'[u] = que[u]
  BY <1>4, <1>9, <1>13
<1>18. TypeOK'
  BY <1>1, <1>16, <1>17, TypesForm, TypesNext
<1>19. Moved(f, r, "cached")
  <2>1. ToSet(que'[t].cached) = ToSet(que[t].cached) \cup {<<f, r>>} /\ que'[t].pend = que[t].pend
    BY <1>10, <1>14, <1>17 DEF x
  <2>2. /\ th'[t].cur = None /\ th'[t].proc \in {r, None} /\ th'[t].acc = th[t].acc /\ ToSet(th'[t].batch) = {}
        /\ ToSet(th'[t].batch) = ToSet(th[t].batch) \cup {}
    BY <1>3, <1>12, <1>16, EmptySet
  <2>3. PlacesNext(t, f, r, "cached") /\ ListsNext(f, r, "cached")
    BY <2>1, <2>2 DEF PlacesNext, ListsNext
  <2> QED BY <1>2, <1>16, <1>17, <2>3, LetGo
<1>20. IOApart' /\ Ios' = Ios /\ \A g \in Frame : SameCov(g)
  <2>1. \A u \in Thread : que'[u].disk = que[u].disk /\ th'[u].out = th[u].out /\ (th[u].out = {} \/ OutOp(u)' = OutOp(u))
    <3> TAKE u \in Thread
    <3>1. CASE u = t
      BY <1>2, <1>12, <1>14, <1>16, <1>17, <3>1
    <3>2. CASE u # t
      BY <1>16, <1>17, <3>2 DEF OutOp
    <3> QED BY <3>1, <3>2
  <2> QED BY <2>1, IOSame
<1>21. SingleWrites'
  <2>1. \A u \in Thread : th'[u].pc \in {"mergeF", "mergeB"} =>
           th[u].pc \in {"mergeF", "mergeB"} /\ th[u].out \subseteq th'[u].out /\ th'[u].old = th[u].old
    BY <1>12, <1>16
  <2> QED BY <1>20, <2>1, SingleSame
<1>22. ~frame[f].oldDirty
  <2>1. FlagsAt(f)
    BY Parts
  <2> QED BY <1>2, <2>1 DEF FlagsAt
<1>23. CountedAt(f)' /\ FlagsAt(f)' /\ IsInjective(frame'[f].reqs)
  BY <1>2, <1>19, <1>20, <1>22, FrameKeep DEF Kind
<1>24. RequestAt(r)'
  BY <1>2, <1>19, ReqMoved DEF Kind
<1>25. EvictorAt(t)'
  BY <1>12, <1>16, NoEvictor
<1>26. ControlAt(t)'
  BY <1>2, <1>3, <1>12, <1>16 DEF ControlAt
<1>27. WorkingAt(t)'
  BY <1>1, <1>12, <1>14, <1>16, <1>17 DEF WorkingAt
<1>28. QueuesAt(t)'
  <2>1. WithinOnePage(r) /\ rq[r].io = t
    BY <1>2
  <2>2. \A y \in ToSet(que'[t].cached) : y \in ToSet(que[t].cached) \/ y = x
    BY <1>10, <1>14, <1>17
  <2>3. \A y \in ToSet(que'[t].cached) : rq[y[2]].io = t /\ WithinOnePage(y[2])
    BY <1>1, <1>8, <2>1, <2>2 DEF QueuesAt
  <2>4. que'[t].pend = que[t].pend /\ que'[t].comp = que[t].comp /\ que'[t].user = que[t].user
    BY <1>14, <1>17
  <2> QED BY <1>1, <2>3, <2>4 DEF QueuesAt, WithinOnePage, PagesOf
<1>29. RepeatsAt(t)'
  BY <1>1, <1>3, <1>10, <1>12, <1>14, <1>16, <1>17 DEF RepeatsAt
<1>30. \A g \in Frame : Same(g) /\ ~Evicting(t, g)
  BY DEF Same, Evicting
<1>31. th'[t].cur = None /\ th'[t].acc = th[t].acc
  BY <1>12, <1>16
<1> QED BY <1>2, <1>16, <1>17, <1>18, <1>19, <1>20, <1>21, <1>23, <1>24, <1>25, <1>26, <1>27, <1>28, <1>29, <1>30, <1>31, MoveStep

\* ... and the paths on which the page is locked.
LEMMA ClassifyStep == ASSUME IInv, NEW t \in Thread, Classify(t) PROVE IInv'
<1> DEFINE pg == frame[th[t].cur]
<1>1. TypeOK /\ ControlAt(t) /\ EvictorAt(t)
  BY Parts
<1>2. th[t].pc = "got" /\ UNCHANGED <<frame, disk, raced, flight, rq>>
  BY DEF Classify
<1>3. CASE th[t].old = None /\ WithinOnePage(th[t].proc) /\ pg.ready
  <2>1. /\ que' = [que EXCEPT ![t].cached = Append(@, <<th[t].cur, th[t].proc>>)]
        /\ th' = [th EXCEPT ![t] = [th[t] EXCEPT !.proc = None, !.cur = None, !.pc = "ret"]]
    BY <1>3, Zenon DEF Classify
  <2>2. frame[th[t].cur].ready /\ WithinOnePage(th[t].proc) /\ th[t].old = None
    BY <1>3
  <2> QED BY <1>2, <2>1, <2>2, FastPathStep, Zenon
<1>4. CASE ~(th[t].old = None /\ WithinOnePage(th[t].proc) /\ pg.ready)
  <2> DEFINE me == IF ~pg.oldDirty THEN [th[t] EXCEPT !.pc = "use"]
                   ELSE IF th[t].batch = <<>> THEN [th[t] EXCEPT !.pc = "old"]
                   ELSE [th[t] EXCEPT !.pc = "flush", !.cont = "old"]
  <2>1. th' = [th EXCEPT ![t] = me] /\ que' = que
    BY <1>4, Zenon DEF Classify
  <2>2. th \in [Thread -> ThRec]
    BY <1>1, TypesForm
  <2>3. th[t] \in ThRec
    BY <2>2
  <2>4. /\ me \in ThRec
        /\ me.arg = th[t].arg /\ me.proc = th[t].proc /\ me.cur = th[t].cur /\ me.batch = th[t].batch
        /\ me.nxt = th[t].nxt /\ me.old = th[t].old /\ me.out = th[t].out /\ me.acc = th[t].acc
        /\ \/ ~pg.oldDirty /\ me.pc = "use"
           \/ pg.oldDirty /\ me.pc = "old"
           \/ pg.oldDirty /\ me.pc = "flush" /\ me.cont = "old" /\ me.batch # <<>>
    <3>1. CASE ~pg.oldDirty
      <4>1. me = [th[t] EXCEPT !.pc = "use"]
        BY <3>1
      <4> HIDE DEF me
      <4> QED BY <2>3, <3>1, <4>1 DEF ThRec, Pcs
    <3>2. CASE pg.oldDirty /\ th[t].batch = <<>>
      <4>1. me = [th[t] EXCEPT !.pc = "old"]
        BY <3>2
      <4> HIDE DEF me
      <4> QED BY <2>3, <3>2, <4>1 DEF ThRec, Pcs
    <3>3. CASE pg.oldDirty /\ th[t].batch # <<>>
      <4>1. me = [th[t] EXCEPT !.pc = "flush", !.cont = "old"]
        BY <3>3
      <4> HIDE DEF me
      <4> QED BY <2>3, <3>3, <4>1 DEF ThRec, Pcs
    <3> QED BY <3>1, <3>2, <3>3
  <2> HIDE DEF me
  <2>5. th'[t] = me
    BY <2>1, <2>2
  <2>6. PICK f \in Frame, r \in Req : f = th[t].cur /\ r = th[t].proc /\ th[t].out = {}
    BY <1>2, HasPage
  <2>7. EvictorAt(t)'
    <3>1. ASSUME NEW g \in Frame, Evicting(t, g)' PROVE g = f /\ Evicting(t, g)
      BY <1>2, <2>4, <2>5, <2>6, <3>1 DEF Evicting
    <3>2. ASSUME NEW g \in Frame, Evicting(t, g)', frame'[g].oldDirty PROVE ~frame'[g].pending /\ th'[t].old \in Page
      BY <1>1, <1>2, <2>4, <2>5, <3>1, <3>2 DEF EvictorAt
    <3>3. ASSUME NEW g \in Frame, Evicting(t, g)' PROVE frame'[g].oldDirty
      BY <1>2, <2>4, <2>5, <2>6, <3>1, <3>3 DEF Evicting
    <3>4. th'[t].pc = "use" => ~frame'[th'[t].cur].oldDirty
      BY <1>2, <2>4, <2>5
    <3> QED BY <3>2, <3>3, <3>4 DEF EvictorAt
  <2>8. ControlAt(t)'
    BY <1>1, <1>2, <2>4, <2>5, <2>6, NoneApart DEF ControlAt
  <2>9. \A g \in Frame : Evicting(t, g) /\ frame[g].oldDirty => Evicting(t, g)'
    BY <2>4, <2>5, <2>6 DEF Evicting
  <2>10. frame' \in [Frame -> FrameRec] /\ \A g \in Frame : Same(g)
    BY <1>1, <1>2, TypesForm DEF Same
  <2> QED BY <1>2, <2>1, <2>4, <2>6, <2>7, <2>8, <2>9, <2>10, QuietStep
<1> QED BY <1>3, <1>4

\* The page is dealt with and the loop goes on.
LEMMA LoopMoved == ASSUME IInv, NEW t \in Thread, NEW f \in Frame, NEW r \in Req, th[t].pc \in {"got", "old", "use"},
                          f = th[t].cur, r = th[t].proc, Looped(t, th[t]), NEW l \in {"reqs", "held", "none"},
                          \A u \in Thread \ {t} : que'[u] = que[u], que'[t].pend = que[t].pend, que'[t].cached = que[t].cached,
                          ListsNext(f, r, l),
                          rq'[r].op = rq[r].op, rq'[r].last = rq[r].last
                   PROVE /\ Moved(f, r, l) /\ th' \in [Thread -> ThRec] /\ (\A u \in Thread \ {t} : th'[u] = th[u])
                         /\ th'[t].cur = None /\ th'[t].batch = th[t].batch /\ th'[t].arg = th[t].arg /\ th'[t].nxt = th[t].nxt
                         /\ th'[t].old = th[t].old /\ th'[t].out = {} /\ th'[t].acc = th[t].acc /\ th'[t].proc \in {r, None}
                         /\ th'[t].pc \in {"search", "flush", "ret"} /\ ControlAt(t)' /\ EvictorAt(t)'
                         /\ \A u \in Thread \ {t} : OutOp(u)' = OutOp(u)
<1>1. TypeOK
  BY Parts
<1>2. th[t] \in ThRec /\ th[t].batch \in Seq(Frame)
  BY <1>1, Records
<1>3. th[t].out = {} /\ (th[t].batch # <<>> => rq[r].op # "write")
  BY HasPage
<1>4. /\ th' \in [Thread -> ThRec] /\ (\A u \in Thread \ {t} : th'[u] = th[u])
      /\ th'[t].cur = None /\ th'[t].batch = th[t].batch /\ th'[t].arg = th[t].arg /\ th'[t].nxt = th[t].nxt
      /\ th'[t].old = th[t].old /\ th'[t].out = {} /\ th'[t].acc = th[t].acc /\ th'[t].proc \in {r, None}
      /\ (th'[t].proc = None => th[t].batch = <<>>)
      /\ th'[t].pc \in {"search", "flush", "ret"} /\ ControlAt(t)' /\ EvictorAt(t)'
  <2> DEFINE me == th[t]
  <2>1. me \in ThRec /\ me.proc = r /\ me.out = {} /\ (me.batch # <<>> => rq'[r].op # "write") /\ Looped(t, me)
    BY <1>2, <1>3
  <2> HIDE DEF me
  <2>2. /\ th' \in [Thread -> ThRec] /\ (\A u \in Thread \ {t} : th'[u] = th[u])
        /\ th'[t].cur = None /\ th'[t].batch = me.batch /\ th'[t].arg = me.arg /\ th'[t].nxt = me.nxt
        /\ th'[t].old = me.old /\ th'[t].out = {} /\ th'[t].acc = me.acc /\ th'[t].proc \in {r, None}
        /\ (th'[t].proc = None => me.batch = <<>>)
        /\ th'[t].pc \in {"search", "flush", "ret"} /\ ControlAt(t)' /\ EvictorAt(t)'
    BY <2>1, AfterLoop
  <2> QED BY <2>2 DEF me
<1>5. Moved(f, r, l)
  <2>1. PlacesNext(t, f, r, l)
    BY <1>4, EmptySet DEF PlacesNext
  <2>2. \A u \in Thread \ {t} : th'[u] = th[u] /\ que'[u] = que[u]
    BY <1>4
  <2>3. l \in {"reqs", "held", "none", "cached", "batch"}
    OBVIOUS
  <2> QED BY <2>1, <2>2, <2>3, LetGo
<1>6. \A u \in Thread \ {t} : OutOp(u)' = OutOp(u)
  BY <1>4 DEF OutOp
<1> QED BY <1>4, <1>5, <1>6

\* The invariant after such a step.
LEMMA LoopStep == ASSUME IInv, TypeOK', NEW t \in Thread, NEW f \in Frame, NEW r \in Req, th[t].pc \in {"got", "old", "use"},
                         f = th[t].cur, r = th[t].proc, Looped(t, th[t]), NEW l \in {"reqs", "held", "none"},
                         \A u \in Thread \ {t} : que'[u] = que[u], que'[t].pend = que[t].pend, que'[t].cached = que[t].cached,
                         que'[t].user = que[t].user, que'[t].disk = que[t].disk, QueuesAt(t)', IsInjective(que'[t].comp),
                         ListsNext(f, r, l),
                         rq'[r].op = rq[r].op, rq'[r].last = rq[r].last, rq'[r].first = rq[r].first, rq'[r].io = rq[r].io,
                         rq'[r].st = rq[r].st, rq'[r].done \subseteq rq[r].done \cup {frame[f].id},
                         \A s \in Req \ {r} : rq'[s] = rq[s],
                         \A g \in Frame \ {f} : Same(g) /\ SameCov(g),
                         frame'[f].id = frame[f].id, frame'[f].oldDirty = frame[f].oldDirty,
                         frame'[f].pending => frame[f].pending \/ ~frame[f].oldDirty \/ Evicting(t, f),
                         CountedAt(f)' /\ FlagsAt(f)' /\ IsInjective(frame'[f].reqs), RequestAt(r)',
                         IOApart' /\ SingleWrites'
                  PROVE IInv'
<1>1. TypeOK /\ RepeatsAt(t)
  BY Parts
<1>2. /\ Moved(f, r, l) /\ th' \in [Thread -> ThRec] /\ (\A u \in Thread \ {t} : th'[u] = th[u])
      /\ th'[t].cur = None /\ th'[t].batch = th[t].batch /\ th'[t].arg = th[t].arg /\ th'[t].nxt = th[t].nxt
      /\ th'[t].acc = th[t].acc /\ th'[t].proc \in {r, None} /\ ControlAt(t)' /\ EvictorAt(t)'
  BY LoopMoved
<1>3. /\ rq[r].io = t /\ rq[r].st = "taken" /\ In(f, r, "cur") /\ frame[f].id \in Page /\ frame[f].id + 1 = th[t].nxt
  BY HasPage
<1>4. \A g \in Frame : frame'[g].id = frame[g].id
  BY DEF Same
<1>5. WorkingAt(t)'
  <2>1. \A s \in Req : rq[s].io = t => /\ rq'[s].io = t /\ rq'[s].first = rq[s].first /\ rq'[s].last = rq[s].last
                                       /\ s \in {th[t].arg, th[t].proc} => rq'[s].st = rq[s].st
    BY <1>3
  <2>2. frame[f].id < th[t].nxt
    BY <1>3, NoneApart
  <2>3. \A p \in rq'[th[t].proc].done : p \in rq[th[t].proc].done \/ p < th[t].nxt
    BY <2>2
  <2>4. \A g \in Frame, k \in Kind : \A s \in Req : s = th[t].proc /\ In(g, s, k)' => \E j \in Kind : In(g, s, j)
    BY <1>2, <1>3 DEF Moved, Kind
  <2>5. /\ th'[t].arg \in {th[t].arg, None} /\ th'[t].proc \in {th[t].proc, None} /\ th'[t].nxt = th[t].nxt
        /\ th'[t].cur \in {th[t].cur, None}
    BY <1>2
  <2> QED BY <1>4, <2>1, <2>3, <2>4, <2>5, WorkingKept
<1>6. RepeatsAt(t)'
  BY <1>1, <1>2 DEF RepeatsAt
<1>7. \A g \in Frame \ {f} : ~Evicting(t, g)
  BY DEF Evicting
<1>8. \A u \in Thread \ {t} : th'[u] = th[u] /\ que'[u] = que[u]
  BY <1>2
<1> QED BY <1>2, <1>3, <1>5, <1>6, <1>7, <1>8, MoveStep

\* One frame changes.
LEMMA OneFrameSet == ASSUME IInv, NEW f \in Frame, NEW pg \in FrameRec, frame' = [frame EXCEPT ![f] = pg]
                     PROVE frame' \in [Frame -> FrameRec] /\ frame'[f] = pg /\ \A g \in Frame \ {f} : frame'[g] = frame[g] /\ Same(g)
<1>1. frame \in [Frame -> FrameRec]
  BY Parts, TypesForm
<1>2. frame' \in [Frame -> FrameRec] /\ frame'[f] = pg /\ \A g \in Frame \ {f} : frame'[g] = frame[g]
  BY <1>1
<1> QED BY <1>2 DEF Same

\* A request joins the list of a frame.
LEMMA ListSet == ASSUME NEW s \in Seq(Req), NEW r \in Req PROVE <<r>> \o s \in Seq(Req) /\ ToSet(<<r>> \o s) = ToSet(s) \cup {r}
<1>1. /\ <<r>> \o s \in Seq(Req) /\ ToSet(<<r>> \o s) = ToSet(s) \cup {r} /\ <<r>> \o s # <<>>
      /\ IsInjective(s) /\ r \notin ToSet(s) => IsInjective(<<r>> \o s)
  BY SeqCons, Zenon
<1> QED BY <1>1

LEMMA AddReqForm == ASSUME NEW pg \in FrameRec, NEW r \in Req
                    PROVE LET n == AddReq(pg, r) IN
                          /\ n \in FrameRec /\ n.id = pg.id /\ n.ready = pg.ready /\ n.pending = pg.pending /\ n.dirty = pg.dirty
                          /\ n.oldDirty = pg.oldDirty /\ n.ref = pg.ref /\ ToSet(n.reqs) = ToSet(pg.reqs) \cup {r}
<1>1. pg.reqs \in Seq(Req)
  BY DEF FrameRec
<1> DEFINE s == <<r>> \o pg.reqs
<1>2. s \in Seq(Req) /\ ToSet(s) = ToSet(pg.reqs) \cup {r}
  BY <1>1, ListSet
<1>3. AddReq(pg, r) = [pg EXCEPT !.reqs = s]
  BY DEF AddReq
<1> HIDE DEF s
<1> QED BY <1>2, <1>3 DEF FrameRec

\* A thread waits for the write-back of another.
LEMMA WaitOldDirtyStep == ASSUME IInv, NEW t \in Thread, WaitOldDirty(t) PROVE IInv'
<1>1. TypeOK /\ ControlAt(t) /\ EvictorAt(t)
  BY Parts
<1>2. th[t].pc = "old" /\ th[t].old = None /\ UNCHANGED <<disk, raced, flight, que, rq>>
  BY DEF WaitOldDirty
<1>3. PICK f \in Frame, r \in Req :
         /\ f = th[t].cur /\ r = th[t].proc /\ rq[r].io = t /\ rq[r].st = "taken" /\ In(f, r, "cur")
         /\ frame[f].id \in PagesOf(r) \ rq[r].done /\ frame[f].id \in Page /\ frame[f].id + 1 = th[t].nxt
         /\ th[t].out = {} /\ (th[t].batch # <<>> => rq[r].op # "write")
  BY <1>2, HasPage
<1>4. frame[f] \in FrameRec
  BY <1>1, Records
<1>5. \A g \in Frame : ~Evicting(t, g)
  BY <1>2 DEF Evicting
<1>6. CASE frame[f].oldDirty
  <2> DEFINE pg == AddReq(frame[f], r)
  <2>1. frame' = [frame EXCEPT ![f] = pg] /\ Looped(t, th[t])
    BY <1>3, <1>6 DEF WaitOldDirty, Looped
  <2>2. /\ pg \in FrameRec /\ pg.id = frame[f].id /\ pg.pending = frame[f].pending
        /\ pg.oldDirty = frame[f].oldDirty /\ ToSet(pg.reqs) = ToSet(frame[f].reqs) \cup {r}
    BY <1>4, AddReqForm
  <2> HIDE DEF pg
  <2>3. frame' \in [Frame -> FrameRec] /\ frame'[f] = pg /\ \A g \in Frame \ {f} : frame'[g] = frame[g] /\ Same(g)
    BY <2>1, <2>2, OneFrameSet
  <2>5. ListsNext(f, r, "reqs")
    BY <1>2, <2>2, <2>3 DEF ListsNext
  <2>7. /\ Moved(f, r, "reqs") /\ th' \in [Thread -> ThRec] /\ (\A u \in Thread \ {t} : th'[u] = th[u])
        /\ th'[t].out = {} /\ th'[t].pc \in {"search", "flush", "ret"}
        /\ \A u \in Thread \ {t} : OutOp(u)' = OutOp(u)
    BY <1>2, <1>3, <2>1, <2>5, LoopMoved
  <2>8. IOApart' /\ Ios' = Ios /\ \A g \in Frame : SameCov(g)
    BY <1>2, <1>3, <2>7, IOSame
  <2>9. SingleWrites'
    <3>1. \A u \in Thread : th'[u].pc \in {"mergeF", "mergeB"} =>
             th[u].pc \in {"mergeF", "mergeB"} /\ th[u].out \subseteq th'[u].out /\ th'[u].old = th[u].old
      BY <2>7
    <3>2. \A g \in Frame : frame[g].oldDirty => frame'[g].oldDirty
      BY <2>2, <2>3
    <3> QED BY <2>8, <3>1, <3>2, SingleSame
  <2>10. EvictKept(f)
    BY <1>5, <2>7 DEF EvictKept, Evicting
  <2>11. CountedAt(f)' /\ FlagsAt(f)' /\ IsInjective(frame'[f].reqs)
    <3>1. frame'[f] = AddReq(frame[f], r) /\ "cur" \in Kind /\ "cur" # "reqs" /\ Moved(f, r, "reqs")
      BY <2>3, <2>7 DEF pg, Kind
    <3> QED BY <1>3, <1>6, <2>8, <2>10, <3>1, FrameEnlist
  <2>12. RequestAt(r)'
    <3>1. Moved(f, r, "reqs") /\ "reqs" \in Kind \ {"held"} /\ frame'[f].id = frame[f].id /\ \A g \in Frame \ {f} : frame'[g].id = frame[g].id
      BY <2>2, <2>3, <2>7 DEF Kind
    <3> QED BY <1>2, <1>3, <3>1, ReqMoved
  <2>13. TypeOK'
    BY <1>1, <1>2, <2>3, <2>7, TypesForm, TypesNext
  <2>14. QueuesAt(t)' /\ IsInjective(que[t].comp)
    <3>1. QueuesAt(t) /\ RepeatsAt(t)
      BY Parts
    <3> QED BY <1>2, <3>1 DEF QueuesAt, WithinOnePage, PagesOf, RepeatsAt
  <2>15. frame'[f].id = frame[f].id /\ frame'[f].oldDirty = frame[f].oldDirty /\ frame'[f].pending = frame[f].pending
    BY <2>2, <2>3
  <2> QED BY <1>2, <1>3, <2>1, <2>3, <2>5, <2>8, <2>9, <2>11, <2>12, <2>13, <2>14, <2>15, LoopStep
<1>7. CASE ~frame[f].oldDirty
  <2> DEFINE me == [th[t] EXCEPT !.pc = "use"]
  <2>1. th' = [th EXCEPT ![t].pc = "use"] /\ frame' = frame
    BY <1>3, <1>7 DEF WaitOldDirty
  <2>2. th \in [Thread -> ThRec]
    BY <1>1, TypesForm
  <2>3. th[t] \in ThRec
    BY <2>2
  <2>4. th' = [th EXCEPT ![t] = me]
    BY <2>1, <2>2
  <2>5. /\ me \in ThRec /\ me.pc = "use"
        /\ me.arg = th[t].arg /\ me.proc = th[t].proc /\ me.cur = th[t].cur /\ me.batch = th[t].batch
        /\ me.nxt = th[t].nxt /\ me.old = th[t].old /\ me.out = th[t].out /\ me.acc = th[t].acc
    BY <2>3 DEF ThRec, Pcs
  <2> HIDE DEF me
  <2>6. th'[t] = me
    BY <2>2, <2>4
  <2>7. EvictorAt(t)'
    BY <1>2, <1>3, <1>7, <2>1, <2>5, <2>6 DEF EvictorAt, Evicting
  <2>8. ControlAt(t)'
    BY <1>1, <1>2, <1>3, <2>5, <2>6, NoneApart DEF ControlAt
  <2>9. frame' \in [Frame -> FrameRec] /\ \A g \in Frame : Same(g)
    BY <1>1, <2>1, TypesForm DEF Same
  <2> QED BY <1>2, <1>3, <1>5, <2>4, <2>5, <2>7, <2>8, <2>9, QuietStep
<1> QED BY <1>6, <1>7

-------------------------------------------------------------------------------
(* write_dirty_page                                                        *)

\* Writes of one page, after a step that builds or sends a write.
LEMMA SingleNext == ASSUME IInv, NEW t \in Thread, \A u \in Thread \ {t} : th'[u] = th[u],
                           th'[t].pc \in {"mergeF", "mergeB"} => \E b \in th'[t].out : b[2] = th'[t].old /\ frame'[b[1]].oldDirty,
                           \A io \in Ios' : io \in Ios \/ (io.op = "write" /\ ~io.multi => \A b \in io.bufs : frame'[b[1]].oldDirty),
                           \A f \in Frame : frame[f].oldDirty => frame'[f].oldDirty
                    PROVE SingleWrites'
<1>1. SingleWrites /\ TypeOK
  BY Parts
<1>2. \A io \in Ios : \A b \in io.bufs : b[1] \in Frame
  BY <1>1, IosTyped
<1>3. ASSUME NEW u \in Thread, NEW b \in th[u].out PROVE b[1] \in Frame
  <2>1. th[u].out \subseteq Frame \X Page
    BY <1>1, TypesForm DEF ThRec
  <2> QED BY <2>1
<1>4. ASSUME NEW io \in Ios', io.op = "write", ~io.multi, NEW b \in io.bufs PROVE frame'[b[1]].oldDirty
  <2>1. CASE io \in Ios
    <3>1. frame[b[1]].oldDirty
      BY <1>1, <1>4, <2>1 DEF SingleWrites
    <3> QED BY <1>2, <2>1, <3>1
  <2>2. CASE io \notin Ios
    BY <1>4, <2>2
  <2> QED BY <2>1, <2>2
<1>5. ASSUME NEW u \in Thread, th'[u].pc \in {"mergeF", "mergeB"}
      PROVE \E b \in th'[u].out : b[2] = th'[u].old /\ frame'[b[1]].oldDirty
  <2>1. CASE u = t
    BY <1>5, <2>1
  <2>2. CASE u # t
    <3>1. th'[u] = th[u]
      BY <2>2
    <3>2. PICK b \in th[u].out : b[2] = th[u].old /\ frame[b[1]].oldDirty
      BY <1>1, <1>5, <3>1 DEF SingleWrites
    <3> QED BY <1>3, <3>1, <3>2
  <2> QED BY <2>1, <2>2
<1> QED BY <1>4, <1>5 DEF SingleWrites

\* The frame of which an I/O begins.
LEMMA StartedForm == ASSUME NEW pg \in FrameRec, NEW r \in Req, NEW op \in {"read", "write"}, NEW m \in FrameRec,
                            m.id = pg.id, m.ready = pg.ready, m.pending = TRUE, m.dirty = pg.dirty, m.oldDirty = pg.oldDirty,
                            m.ref = (IF op = "write" THEN pg.ref + 1 ELSE pg.ref), m.reqs = pg.reqs
                     PROVE AddReq(m, r) \in FrameRec /\ Started(pg, AddReq(m, r), r, op) /\ ToSet(AddReq(m, r).reqs) = ToSet(pg.reqs) \cup {r}
<1> DEFINE n == AddReq(m, r)
<1>1. /\ n \in FrameRec /\ n.id = m.id /\ n.ready = m.ready /\ n.pending = m.pending /\ n.dirty = m.dirty
      /\ n.oldDirty = m.oldDirty /\ n.ref = m.ref /\ ToSet(n.reqs) = ToSet(m.reqs) \cup {r}
  BY AddReqForm
<1>2. n.reqs = <<r>> \o m.reqs
  BY DEF AddReq, FrameRec
<1> HIDE DEF n
<1>3. Started(pg, n, r, op) /\ ToSet(n.reqs) = ToSet(pg.reqs) \cup {r}
  BY <1>1, <1>2 DEF Started
<1> QED BY <1>1, <1>3 DEF n

LEMMA WriteBackForm == ASSUME NEW pg \in FrameRec, NEW r \in Req
                       PROVE LET n == AddReq(Writing(pg), r) IN
                             n \in FrameRec /\ Started(pg, n, r, "write") /\ ToSet(n.reqs) = ToSet(pg.reqs) \cup {r}
<1> DEFINE m == Writing(pg)
<1>1. pg.ref \in Nat
  BY DEF FrameRec
<1>2. PICK n \in Nat : n = pg.ref + 1
  BY <1>1
<1>3. m = [pg EXCEPT !.pending = TRUE, !.ref = n]
  BY <1>2 DEF Writing
<1> HIDE DEF m
<1>4. m \in FrameRec
  BY <1>3 DEF FrameRec
<1>5. /\ m.id = pg.id /\ m.ready = pg.ready /\ m.pending = TRUE /\ m.dirty = pg.dirty /\ m.oldDirty = pg.oldDirty
      /\ m.ref = n /\ m.reqs = pg.reqs
  BY <1>3 DEF FrameRec
<1>6. /\ AddReq(m, r) \in FrameRec /\ ToSet(AddReq(m, r).reqs) = ToSet(m.reqs) \cup {r}
      /\ AddReq(m, r).id = m.id /\ AddReq(m, r).ready = m.ready /\ AddReq(m, r).pending = m.pending /\ AddReq(m, r).dirty = m.dirty
      /\ AddReq(m, r).oldDirty = m.oldDirty /\ AddReq(m, r).ref = m.ref
  BY <1>4, AddReqForm
<1>7. AddReq(m, r).reqs = <<r>> \o m.reqs
  BY <1>4 DEF AddReq, FrameRec
<1>8. Started(pg, AddReq(m, r), r, "write")
  BY <1>2, <1>5, <1>6, <1>7 DEF Started
<1>9. AddReq(m, r) \in FrameRec /\ Started(pg, AddReq(m, r), r, "write") /\ ToSet(AddReq(m, r).reqs) = ToSet(pg.reqs) \cup {r}
  BY <1>5, <1>6, <1>8
<1> QED BY <1>9 DEF m

\* The thread that evicted the page starts the write-back.
LEMMA WriteBackBegins == ASSUME IInv, NEW t \in Thread, NEW f \in Frame, NEW r \in Req, f = th[t].cur, r = th[t].proc, WriteDirtyPage(t)
                         PROVE /\ frame' \in [Frame -> FrameRec] /\ Started(frame[f], frame'[f], r, "write")
                               /\ (\A g \in Frame \ {f} : frame'[g] = frame[g] /\ Same(g)) /\ ListsNext(f, r, "reqs")
                               /\ (\A g \in Frame : frame'[g].id = frame[g].id /\ frame'[g].oldDirty = frame[g].oldDirty)
                               /\ UNCHANGED <<disk, raced, que, rq>>
<1>1. frame[f] \in FrameRec
  BY Parts, Records
<1> DEFINE pg == AddReq(Writing(frame[f]), r)
<1>2. frame' = [frame EXCEPT ![th[t].cur] = AddReq(Writing(@), th[t].proc)] /\ UNCHANGED <<disk, raced, que, rq>>
  BY Zenon DEF WriteDirtyPage
<1>3. frame' = [frame EXCEPT ![f] = pg]
  <2>1. frame' = [frame EXCEPT ![f] = AddReq(Writing(@), r)]
    BY <1>2, Zenon
  <2> QED BY <2>1, Zenon
<1>4. pg \in FrameRec /\ Started(frame[f], pg, r, "write") /\ ToSet(pg.reqs) = ToSet(frame[f].reqs) \cup {r}
  BY <1>1, WriteBackForm, Zenon
<1> HIDE DEF pg
<1>5. frame' \in [Frame -> FrameRec] /\ frame'[f] = pg /\ \A g \in Frame \ {f} : frame'[g] = frame[g] /\ Same(g)
  BY <1>3, <1>4, OneFrameSet
<1>6. ListsNext(f, r, "reqs")
  BY <1>2, <1>4, <1>5 DEF ListsNext
<1>7. \A g \in Frame : frame'[g].id = frame[g].id /\ frame'[g].oldDirty = frame[g].oldDirty
  BY <1>4, <1>5 DEF Started
<1>8. UNCHANGED <<disk, raced, que, rq>> /\ Started(frame[f], frame'[f], r, "write")
  BY <1>2, <1>4, <1>5
<1> QED BY <1>5, <1>6, <1>7, <1>8, Zenon

\* One buffer covers one frame.
LEMMA CovOne == ASSUME NEW f \in Frame, NEW p \in Page
                PROVE /\ {<<f, p>>} \in SUBSET (Frame \X Page) /\ \A g : Cov({<<f, p>>}, g) <=> g = f
                      /\ {} \cup {<<f, p>>} = {<<f, p>>}
BY DEF Cov

\* The thread that evicted the page starts the write-back and looks for pages to merge.
LEMMA MergeBegins == ASSUME IInv, NEW t \in Thread, th[t].pc = "old", th[t].old # None, LargeWrite, WriteDirtyPage(t) PROVE IInv'
<1>1. TypeOK /\ ControlAt(t) /\ EvictorAt(t) /\ WorkingAt(t)
  BY Parts
<1>2. PICK f \in Frame, r \in Req :
         /\ f = th[t].cur /\ r = th[t].proc /\ rq[r].io = t /\ rq[r].st = "taken" /\ In(f, r, "cur")
         /\ frame[f].id \in PagesOf(r) \ rq[r].done /\ frame[f].id \in Page /\ frame[f].id + 1 = th[t].nxt
         /\ th[t].out = {} /\ (th[t].batch # <<>> => rq[r].op # "write")
  BY HasPage
<1>3. Evicting(t, f) /\ frame[f].oldDirty /\ ~frame[f].pending /\ th[t].old \in Page
  <2>1. Evicting(t, f)
    BY <1>2 DEF Evicting
  <2> QED BY <1>1, <2>1 DEF EvictorAt
<1>4. frame[f] \in FrameRec
  BY <1>1, Records
<1> DEFINE X == {<<f, th[t].old>>}
<1>5. /\ UNCHANGED <<disk, raced, que, rq>> /\ flight' = flight
      /\ th' = [th EXCEPT ![t] = [th[t] EXCEPT !.pc = "mergeF", !.out = X, !.mp = th[t].old + 1, !.cur = None]]
  <2>1. WriteBackIO(t).bufs = {<<th[t].cur, th[t].old>>}
    BY DEF WriteBackIO, Request
  <2>2. /\ flight' = flight /\ UNCHANGED <<disk, raced, que, rq>>
        /\ th' = [th EXCEPT ![t] = [th[t] EXCEPT !.pc = "mergeF", !.out = WriteBackIO(t).bufs, !.mp = th[t].old + 1, !.cur = None]]
    BY Zenon DEF WriteDirtyPage
  <2> QED BY <1>2, <2>1, <2>2, Zenon
<1>7. /\ frame' \in [Frame -> FrameRec] /\ Started(frame[f], frame'[f], r, "write") /\ (\A g \in Frame \ {f} : frame'[g] = frame[g] /\ Same(g))
      /\ ListsNext(f, r, "reqs") /\ \A g \in Frame : frame'[g].id = frame[g].id /\ frame'[g].oldDirty = frame[g].oldDirty
  BY <1>2, WriteBackBegins
<1>8. X \in SUBSET (Frame \X Page) /\ (\A g : Cov(X, g) <=> g = f) /\ {} \cup X = X
  BY <1>3, CovOne
<1>9. th \in [Thread -> ThRec] /\ th[t] \in ThRec
  BY <1>1, TypesForm
<1> DEFINE m == th[t].old + 1
<1>10. m \in 1 .. NumPages /\ m \in 0 .. NumPages + 1
  BY <1>3, NoneApart
<1> HIDE DEF m, X
<1> DEFINE me == [th[t] EXCEPT !.pc = "mergeF", !.out = X, !.mp = m, !.cur = None]
<1>11. me \in ThRec
  BY <1>8, <1>9, <1>10 DEF ThRec, Pcs
<1>12. /\ me.pc = "mergeF" /\ me.out = X /\ me.mp = m /\ me.cur = None /\ me.proc = th[t].proc /\ me.arg = th[t].arg
       /\ me.nxt = th[t].nxt /\ me.old = th[t].old /\ me.batch = th[t].batch /\ me.acc = th[t].acc
  BY <1>9 DEF ThRec
<1>13. th' = [th EXCEPT ![t] = me]
  BY <1>5 DEF m
<1> HIDE DEF me
<1>14. th' \in [Thread -> ThRec] /\ th'[t] = me /\ \A u \in Thread \ {t} : th'[u] = th[u]
  BY <1>9, <1>11, <1>13
<1>15. TypeOK'
  BY <1>1, <1>5, <1>7, <1>14, TypesForm, TypesNext
<1>16. Moved(f, r, "reqs")
  <2>2. PlacesNext(t, f, r, "reqs")
    BY <1>2, <1>5, <1>12, <1>14, NoneApart DEF PlacesNext
  <2> QED BY <1>2, <1>5, <1>7, <1>14, <2>2, LetGo
<1>17. /\ IOApart'
       /\ (\A g \in Frame, o \in {"read", "write"} : CovBy(g, o)' <=> CovBy(g, o) \/ (o = "write" /\ Cov(X, g)))
       /\ \A io \in Ios' : io \in Ios \/ io \in flight'
  <2>1. ~CovBy(f, "read") /\ ~CovBy(f, "write")
    BY <1>3, Parts DEF FlagsAt
  <2>2. \E g \in Frame, p \in Page : X = {<<g, p>>} /\ ~CovBy(g, "read") /\ ~CovBy(g, "write")
    BY <1>3, <2>1 DEF X
  <2>3. OutOp(t)' = "write" /\ th'[t].out = th[t].out \cup X
    BY <1>2, <1>8, <1>12, <1>14 DEF OutOp
  <2> QED BY <1>2, <1>5, <1>8, <1>14, <1>15, <2>2, <2>3, IOAdd
<1>18. \A g \in Frame : frame'[g].id = frame[g].id /\ frame'[g].oldDirty = frame[g].oldDirty
  BY <1>7
<1>19. SingleWrites'
  <2>1. \A io \in Ios' : io \in Ios
    BY <1>5, <1>17 DEF Ios
  <2>2. \E b \in th'[t].out : b[2] = th'[t].old /\ frame'[b[1]].oldDirty
    <3>1. <<f, th[t].old>> \in th'[t].out
      BY <1>12, <1>14 DEF X
    <3>2. <<f, th[t].old>>[1] = f /\ <<f, th[t].old>>[2] = th[t].old
      OBVIOUS
    <3>3. frame'[f].oldDirty /\ th'[t].old = th[t].old
      BY <1>3, <1>12, <1>14, <1>18
    <3> QED BY <3>1, <3>2, <3>3
  <2> QED BY <1>14, <1>18, <2>1, <2>2, SingleNext
<1>20. \A g \in Frame \ {f} : SameCov(g)
  BY <1>8, <1>17 DEF SameCov
<1>21. CountedAt(f)' /\ FlagsAt(f)' /\ IsInjective(frame'[f].reqs)
  <2>3. \A o \in {"read", "write"} : CovBy(f, o)' <=> CovBy(f, o) \/ o = "write"
    BY <1>8, <1>17
  <2>4. "cur" \in Kind /\ "cur" # "reqs"
    BY DEF Kind
  <2> QED BY <1>2, <1>3, <1>7, <1>16, <2>3, <2>4, FrameStart
<1>22. RequestAt(r)'
  <2>1. "reqs" \in Kind \ {"held"}
    BY DEF Kind
  <2> QED BY <1>2, <1>5, <1>16, <1>18, <2>1, ReqMoved
<1>23. EvictorAt(t)'
  BY <1>12, <1>14, NoEvictor
<1>24. ControlAt(t)'
  BY <1>1, <1>2, <1>3, <1>5, <1>10, <1>12, <1>14, NoneApart DEF ControlAt
<1>25. WorkingAt(t)'
  <2>1. \A g \in Frame, k \in Kind : \A s \in Req : s = th[t].proc /\ In(g, s, k)' => \E j \in Kind : In(g, s, j)
    BY <1>2, <1>16 DEF Moved, Kind
  <2> QED BY <1>5, <1>12, <1>14, <1>18, <2>1, WorkingKept
<1>26. QueuesAt(t)' /\ RepeatsAt(t)'
  BY <1>5, <1>12, <1>14, QueuesSame
<1>27. \A g \in Frame \ {f} : ~Evicting(t, g)
  BY <1>2 DEF Evicting
<1>28. th'[t].cur = None /\ th'[t].acc = th[t].acc
  BY <1>12, <1>14
<1>29. \A u \in Thread \ {t} : th'[u] = th[u] /\ que'[u] = que[u]
  BY <1>5, <1>14
<1> QED BY <1>2, <1>3, <1>5, <1>7, <1>15, <1>16, <1>17, <1>18, <1>19, <1>20, <1>21, <1>22, <1>23, <1>24, <1>25, <1>26, <1>27, <1>28, <1>29, MoveStep

\* ... or sends it.
LEMMA WriteBackSent == ASSUME IInv, NEW t \in Thread, th[t].pc = "old", th[t].old # None, ~LargeWrite, WriteDirtyPage(t) PROVE IInv'
<1>1. TypeOK /\ EvictorAt(t)
  BY Parts
<1>2. PICK f \in Frame, r \in Req :
         /\ f = th[t].cur /\ r = th[t].proc /\ rq[r].io = t /\ rq[r].st = "taken" /\ In(f, r, "cur")
         /\ frame[f].id \in PagesOf(r) \ rq[r].done /\ frame[f].id \in Page /\ frame[f].id + 1 = th[t].nxt
         /\ th[t].out = {} /\ (th[t].batch # <<>> => rq[r].op # "write")
  BY HasPage
<1>3. Evicting(t, f) /\ frame[f].oldDirty /\ ~frame[f].pending /\ th[t].old \in Page
  <2>1. Evicting(t, f)
    BY <1>2 DEF Evicting
  <2> QED BY <1>1, <2>1 DEF EvictorAt
<1>4. frame[f] \in FrameRec
  BY <1>1, Records
<1> DEFINE X == {<<f, th[t].old>>}
<1>5. /\ UNCHANGED <<disk, raced, que, rq>>
      /\ flight' = flight \cup {Request(t, "write", X)} /\ Looped(t, th[t])
  <2>1. /\ UNCHANGED <<disk, raced, que, rq>> /\ flight' = flight \cup {WriteBackIO(t)}
        /\ th' = [th EXCEPT ![t] = Loop(th[t])]
    BY Zenon DEF WriteDirtyPage, Send
  <2> QED BY <1>2, <2>1, Zenon DEF WriteBackIO, Looped
<1>7. /\ frame' \in [Frame -> FrameRec] /\ Started(frame[f], frame'[f], r, "write") /\ (\A g \in Frame \ {f} : frame'[g] = frame[g] /\ Same(g))
      /\ ListsNext(f, r, "reqs") /\ \A g \in Frame : frame'[g].id = frame[g].id /\ frame'[g].oldDirty = frame[g].oldDirty
  BY <1>2, WriteBackBegins
<1>8. X \in SUBSET (Frame \X Page) /\ (\A g : Cov(X, g) <=> g = f) /\ {} \cup X = X /\ X # {}
  BY <1>3, CovOne
<1>9. \A b \in X : b[1] = f
  OBVIOUS
<1>10. ~CovBy(f, "read") /\ ~CovBy(f, "write")
  BY <1>3, Parts DEF FlagsAt
<1>11. \E g \in Frame, p \in Page : X = {<<g, p>>} /\ ~CovBy(g, "read") /\ ~CovBy(g, "write")
  BY <1>3, <1>10
<1> HIDE DEF X
<1>12. Request(t, "write", X) \in IO /\ Request(t, "write", X).bufs = X
  BY <1>8, RequestForm
<1>13. ListsNext(f, r, "reqs")
  BY <1>7
<1>14. /\ Moved(f, r, "reqs") /\ th' \in [Thread -> ThRec] /\ (\A u \in Thread \ {t} : th'[u] = th[u])
       /\ th'[t].out = {} /\ th'[t].pc \in {"search", "flush", "ret"}
  BY <1>2, <1>5, <1>13, LoopMoved
<1>15. TypeOK'
  BY <1>1, <1>5, <1>7, <1>12, <1>14, TypesForm, TypesNext
<1>16. /\ IOApart'
       /\ (\A g \in Frame, o \in {"read", "write"} : CovBy(g, o)' <=> CovBy(g, o) \/ (o = "write" /\ Cov(X, g)))
       /\ \A io \in Ios' : io \in Ios \/ io = Request(t, "write", X)
  <2>1. th[t].out \cup X = X
    BY <1>2, <1>8
  <2>2. flight' = flight \cup {Request(t, "write", th[t].out \cup X)} /\ th'[t].out = {} /\ th[t].out \cup X # {}
    BY <1>5, <1>8, <1>14, <2>1
  <2>3. \A u \in Thread : que'[u].disk = que[u].disk
    BY <1>5
  <2>4. \A io \in Ios' : io \in Ios \/ io = Request(t, "write", th[t].out \cup X)
    BY <1>2, <1>8, <1>11, <1>14, <1>15, <2>2, <2>3, IOAdd
  <2>5. /\ IOApart'
        /\ \A g \in Frame, o \in {"read", "write"} : CovBy(g, o)' <=> CovBy(g, o) \/ (o = "write" /\ Cov(X, g))
    BY <1>2, <1>8, <1>11, <1>14, <1>15, <2>2, <2>3, IOAdd
  <2> QED BY <2>1, <2>4, <2>5
<1>17. \A g \in Frame : frame'[g].id = frame[g].id /\ frame'[g].oldDirty = frame[g].oldDirty
  BY <1>7
<1>18. SingleWrites'
  <2>1. \A io \in Ios' : io \in Ios \/ \A b \in io.bufs : frame'[b[1]].oldDirty
    BY <1>3, <1>9, <1>12, <1>16, <1>17
  <2> QED BY <1>14, <1>17, <2>1, SingleNext
<1>19. \A g \in Frame \ {f} : SameCov(g)
  BY <1>8, <1>16 DEF SameCov
<1>20. CountedAt(f)' /\ FlagsAt(f)' /\ IsInjective(frame'[f].reqs)
  <2>3. \A o \in {"read", "write"} : CovBy(f, o)' <=> CovBy(f, o) \/ o = "write"
    BY <1>8, <1>16
  <2>4. "cur" \in Kind /\ "cur" # "reqs"
    BY DEF Kind
  <2> QED BY <1>2, <1>3, <1>7, <1>14, <2>3, <2>4, FrameStart
<1>21. RequestAt(r)'
  <2>1. "reqs" \in Kind \ {"held"}
    BY DEF Kind
  <2> QED BY <1>2, <1>5, <1>14, <1>17, <2>1, ReqMoved
<1>22. QueuesAt(t)' /\ IsInjective(que[t].comp)
  <2>1. QueuesAt(t) /\ RepeatsAt(t)
    BY Parts
  <2> QED BY <1>5, <2>1 DEF QueuesAt, WithinOnePage, PagesOf, RepeatsAt
<1> QED BY <1>2, <1>3, <1>5, <1>7, <1>13, <1>15, <1>16, <1>17, <1>18, <1>19, <1>20, <1>21, <1>22, LoopStep

\* write_dirty_page.
LEMMA WriteDirtyPageStep == ASSUME IInv, NEW t \in Thread, WriteDirtyPage(t) PROVE IInv'
<1>1. th[t].pc = "old" /\ th[t].old # None
  BY Zenon DEF WriteDirtyPage
<1>2. LargeWrite \in BOOLEAN
  BY ConstantsAssumption
<1> QED BY <1>1, <1>2, MergeBegins, WriteBackSent

-------------------------------------------------------------------------------
(* Pages collected for reading                                             *)

\* The page joins the batch.
LEMMA BatchForm == ASSUME NEW me \in ThRec, NEW b \in Seq(Frame)
                   PROVE LET n == [me EXCEPT !.batch = b] IN
                         /\ n \in ThRec /\ n.batch = b /\ n.pc = me.pc /\ n.proc = me.proc /\ n.arg = me.arg /\ n.nxt = me.nxt
                         /\ n.old = me.old /\ n.out = me.out /\ n.acc = me.acc /\ n.cur = me.cur
BY DEF ThRec

LEMMA FlushForm == ASSUME NEW me \in ThRec
                   PROVE LET n == [me EXCEPT !.pc = "flush", !.cont = "loop", !.cur = None] IN
                         /\ n \in ThRec /\ n.batch = me.batch /\ n.pc = "flush" /\ n.cont = "loop" /\ n.cur = None /\ n.proc = me.proc
                         /\ n.arg = me.arg /\ n.nxt = me.nxt /\ n.old = me.old /\ n.out = me.out /\ n.acc = me.acc
BY DEF ThRec, Pcs

\* The end of a RAID block, or the next page.
Flushing(t, me) == th' = [th EXCEPT ![t] = [me EXCEPT !.pc = "flush", !.cont = "loop", !.cur = None]]
LEMMA BatchGoesOn == ASSUME IInv, NEW t \in Thread, NEW me \in ThRec, NEW r \in Req, me.proc = r, me.out = {}, me.batch # <<>>,
                            rq'[r].op # "write", rq'[r].last = rq[r].last,
                            Flushing(t, me) \/ Looped(t, me)
                     PROVE /\ th' \in [Thread -> ThRec] /\ (\A u \in Thread \ {t} : th'[u] = th[u])
                           /\ th'[t].cur = None /\ th'[t].batch = me.batch /\ th'[t].arg = me.arg /\ th'[t].nxt = me.nxt
                           /\ th'[t].old = me.old /\ th'[t].out = {} /\ th'[t].acc = me.acc /\ th'[t].proc = r
                           /\ th'[t].pc \in {"search", "flush", "ret"} /\ ControlAt(t)' /\ EvictorAt(t)'
<1>1. CASE Looped(t, me)
  <2>1. r # None
    BY NoneApart
  <2> QED BY <1>1, <2>1, AfterLoop
<1>2. CASE Flushing(t, me)
  <2> DEFINE n == [me EXCEPT !.pc = "flush", !.cont = "loop", !.cur = None]
  <2>1. /\ n \in ThRec /\ n.batch = me.batch /\ n.pc = "flush" /\ n.cont = "loop" /\ n.cur = None /\ n.proc = me.proc
        /\ n.arg = me.arg /\ n.nxt = me.nxt /\ n.old = me.old /\ n.out = me.out /\ n.acc = me.acc
    BY FlushForm, Zenon
  <2>2. th' = [th EXCEPT ![t] = n]
    BY <1>2 DEF Flushing
  <2> HIDE DEF n
  <2>3. th \in [Thread -> ThRec]
    BY Parts, TypesForm
  <2>4. th' \in [Thread -> ThRec] /\ th'[t] = n /\ \A u \in Thread \ {t} : th'[u] = th[u]
    BY <2>1, <2>2, <2>3
  <2>5. ControlAt(t)'
    BY <2>1, <2>4, NoneApart DEF ControlAt
  <2>6. EvictorAt(t)'
    BY <2>1, <2>4, NoEvictor
  <2> QED BY <2>1, <2>4, <2>5, <2>6
<1> QED BY <1>1, <1>2

\* A page to read is collected.
LEMMA UseReadStep == ASSUME IInv, NEW t \in Thread, UseRead(t) PROVE IInv'
<1>1. TypeOK /\ EvictorAt(t) /\ RepeatsAt(t) /\ QueuesAt(t)
  BY Parts
<1>2. th[t] \in ThRec /\ th[t].batch \in Seq(Frame)
  BY <1>1, Records
<1> DEFINE b == Append(th[t].batch, th[t].cur)
           me == [th[t] EXCEPT !.batch = b]
<1>3. /\ me.pc = "use" /\ rq[me.proc].op # "write" /\ UNCHANGED <<frame, disk, raced, flight, que, rq>>
      /\ Flushing(t, me) \/ Looped(t, me)
  BY Zenon DEF UseRead, Looped, Flushing
<1>4. th[t].pc = "use"
  BY <1>2, <1>3 DEF ThRec
<1>5. PICK f \in Frame, r \in Req :
         /\ f = th[t].cur /\ r = th[t].proc /\ rq[r].io = t /\ rq[r].st = "taken" /\ In(f, r, "cur")
         /\ frame[f].id \in PagesOf(r) \ rq[r].done /\ frame[f].id \in Page /\ frame[f].id + 1 = th[t].nxt
         /\ th[t].out = {} /\ (th[t].batch # <<>> => rq[r].op # "write")
  BY <1>4, HasPage
<1>6. ~frame[f].oldDirty
  BY <1>1, <1>4, <1>5 DEF EvictorAt
<1>7. f \notin ToSet(th[t].batch)
  <2>1. f \in ToSet(th[t].batch) => In(f, r, "batch")
    BY <1>5 DEF In, At
  <2> QED BY <1>5, <2>1, WithFrame DEF Kind
<1>8. b \in Seq(Frame) /\ ToSet(b) = ToSet(th[t].batch) \cup {f} /\ b # <<>> /\ IsInjective(b)
  BY <1>1, <1>2, <1>5, <1>7, SeqAppend DEF RepeatsAt
<1> HIDE DEF b
<1>9. /\ me \in ThRec /\ me.batch = b /\ me.proc = r /\ me.arg = th[t].arg /\ me.nxt = th[t].nxt
      /\ me.old = th[t].old /\ me.out = {} /\ me.acc = th[t].acc
  BY <1>2, <1>5, <1>8, BatchForm
<1> HIDE DEF me
<1>10. rq'[r].op # "write" /\ rq'[r].last = rq[r].last /\ me.batch # <<>>
  BY <1>3, <1>8, <1>9
<1>11. /\ th' \in [Thread -> ThRec] /\ (\A u \in Thread \ {t} : th'[u] = th[u])
       /\ th'[t].cur = None /\ th'[t].batch = me.batch /\ th'[t].arg = me.arg /\ th'[t].nxt = me.nxt
       /\ th'[t].old = me.old /\ th'[t].out = {} /\ th'[t].acc = me.acc /\ th'[t].proc = r
       /\ th'[t].pc \in {"search", "flush", "ret"} /\ ControlAt(t)' /\ EvictorAt(t)'
  BY <1>3, <1>9, <1>10, BatchGoesOn
<1>12. TypeOK'
  BY <1>1, <1>3, <1>11, TypesForm, TypesNext
<1>13. \A u \in Thread \ {t} : th'[u] = th[u] /\ que'[u] = que[u]
  BY <1>3, <1>11
<1>14. Moved(f, r, "batch")
  <2>1. PlacesNext(t, f, r, "batch")
    BY <1>3, <1>8, <1>9, <1>11, NoneApart DEF PlacesNext
  <2>2. ListsNext(f, r, "batch")
    BY <1>3 DEF ListsNext
  <2> QED BY <1>5, <1>13, <2>1, <2>2, LetGo
<1>15. IOApart' /\ Ios' = Ios /\ \A g \in Frame : SameCov(g)
  <2>1. \A u \in Thread : que'[u].disk = que[u].disk /\ th'[u].out = th[u].out /\ (th[u].out = {} \/ OutOp(u)' = OutOp(u))
    BY <1>3, <1>5, <1>11 DEF OutOp
  <2>2. flight' = flight
    BY <1>3
  <2> QED BY <2>1, <2>2, IOSame
<1>16. SingleWrites'
  <2>1. ASSUME NEW u \in Thread, th'[u].pc \in {"mergeF", "mergeB"}
        PROVE th[u].pc \in {"mergeF", "mergeB"} /\ th[u].out \subseteq th'[u].out /\ th'[u].old = th[u].old
    BY <1>11, <2>1
  <2>2. \A io \in Ios' : io \in Ios \/ io.op = "read"
    BY <1>15
  <2>3. \A g \in Frame : frame[g].oldDirty => frame'[g].oldDirty
    BY <1>3
  <2> QED BY <2>1, <2>2, <2>3, SingleSame
<1>17. frame'[f] = frame[f] /\ (\A g \in Frame : frame'[g].id = frame[g].id) /\ \A g \in Frame : Same(g)
  BY <1>3 DEF Same
<1>18. CountedAt(f)' /\ FlagsAt(f)' /\ IsInjective(frame'[f].reqs)
  <2>1. "cur" \in Kind
    BY DEF Kind
  <2> QED BY <1>5, <1>6, <1>14, <1>15, <1>17, <2>1, FrameKeep
<1>19. RequestAt(r)'
  <2>1. "batch" \in Kind \ {"held"}
    BY DEF Kind
  <2> QED BY <1>3, <1>5, <1>14, <1>17, <2>1, ReqMoved
<1>20. WorkingAt(t)'
  <2>1. \A g \in Frame, k \in Kind : \A s \in Req : s = th[t].proc /\ In(g, s, k)' => \E j \in Kind : In(g, s, j)
    BY <1>5, <1>14 DEF Moved, Kind
  <2> QED BY <1>3, <1>5, <1>9, <1>11, <1>17, <2>1, WorkingKept
<1>21. QueuesAt(t)' /\ RepeatsAt(t)'
  BY <1>1, <1>3, <1>8, <1>9, <1>11 DEF QueuesAt, RepeatsAt, WithinOnePage, PagesOf
<1>22. \A g \in Frame \ {f} : ~Evicting(t, g)
  BY <1>5 DEF Evicting
<1>23. \A s \in Req \ {r} : rq'[s] = rq[s]
  BY <1>3
<1>24. th'[t].acc = th[t].acc /\ frame'[f].oldDirty = frame[f].oldDirty /\ frame'[f].pending = frame[f].pending
  BY <1>3, <1>9, <1>11
<1> QED BY <1>5, <1>11, <1>12, <1>13, <1>14, <1>15, <1>16, <1>17, <1>18, <1>19, <1>20, <1>21, <1>22, <1>23, <1>24, MoveStep

-------------------------------------------------------------------------------
(* merge_pages2req                                                         *)

\* The fields of a page of which a write begins.
LEMMA WritingForm == ASSUME NEW pg \in FrameRec
                     PROVE /\ Writing(pg) \in FrameRec /\ Writing(pg).id = pg.id /\ Writing(pg).oldDirty = pg.oldDirty
                           /\ Writing(pg).pending = TRUE /\ Writing(pg).reqs = pg.reqs
<1>1. pg.ref \in Nat
  BY DEF FrameRec
<1>2. PICK n \in Nat : n = pg.ref + 1
  BY <1>1
<1>3. Writing(pg) = [pg EXCEPT !.pending = TRUE, !.ref = n]
  BY <1>2 DEF Writing
<1> QED BY <1>3 DEF FrameRec

\* Nothing moves when the thread drops no page.
LEMMA LeftAlone == ASSUME IInv, NEW t \in Thread, \A u \in Thread \ {t} : th'[u] = th[u], que' = que, rq' = rq,
                          th[t].cur = None, th'[t].cur = None, th'[t].batch = th[t].batch, th'[t].acc = th[t].acc,
                          th'[t].proc = th[t].proc \/ (th'[t].proc = None /\ th[t].batch = <<>>),
                          \A f \in Frame : frame'[f].reqs = frame[f].reqs
                   PROVE \A f \in Frame : Unmoved(f)
<1>1. ASSUME NEW f \in Frame, NEW r \in Req, NEW k \in Kind PROVE At(th'[t], que'[t], f, r, k) <=> At(th[t], que[t], f, r, k)
  <2>1. f \notin ToSet(<<>>)
    BY EmptySet
  <2> QED BY <2>1, NoneApart DEF At
<1>2. \A u \in Thread \ {t} : th'[u] = th[u] /\ que'[u] = que[u]
  OBVIOUS
<1>3. \A r \in Req : rq'[r].held = rq[r].held
  OBVIOUS
<1> QED BY <1>1, <1>2, <1>3, NoMove

\* The thread that merges pages.
LEMMA Merging == ASSUME IInv, NEW t \in Thread, th[t].pc \in {"mergeF", "mergeB"}
                 PROVE /\ th[t].proc \in Req /\ th[t].cur = None /\ th[t].old \in Page /\ th[t].mp \in 0 .. NumPages
                       /\ \E b \in th[t].out : b[2] = th[t].old /\ frame[b[1]].oldDirty
                       /\ OutOp(t) = "write" /\ (th[t].batch # <<>> => rq[th[t].proc].op # "write")
<1>1. TypeOK /\ ControlAt(t) /\ SingleWrites
  BY Parts
<1>2. th[t].proc \in Req \cup {None}
  BY <1>1, Records
<1> QED BY <1>1, <1>2, NoneApart DEF ControlAt, SingleWrites, OutOp

\* The locals of a thread that merges.
Builds(me, n, pc, out, mp) ==
    /\ n.pc = pc /\ n.out = out /\ n.mp = mp /\ n.arg = me.arg /\ n.proc = me.proc /\ n.cur = me.cur
    /\ n.batch = me.batch /\ n.nxt = me.nxt /\ n.old = me.old /\ n.acc = me.acc

\* A page joins the write.
LEMMA MergeAdds == ASSUME IInv, NEW t \in Thread, th[t].pc \in {"mergeF", "mergeB"}, NEW f \in Frame, NEW p \in Page,
                          frame[f].dirty, ~frame[f].pending, frame' = Merged(f),
                          NEW me \in ThRec, th' = [th EXCEPT ![t] = me], NEW mp \in 0 .. NumPages,
                          NEW out, out = th[t].out \cup {<<f, p>>}, Builds(th[t], me, th[t].pc, out, mp),
                          th[t].pc = "mergeF" => mp # 0, th[t].pc = "mergeB" => mp # NumPages,
                          UNCHANGED <<disk, raced, flight, que, rq>>
                   PROVE IInv'
<1>0. /\ me.out = th[t].out \cup {<<f, p>>} /\ me.pc = th[t].pc /\ me.arg = th[t].arg /\ me.proc = th[t].proc /\ me.cur = th[t].cur
      /\ me.batch = th[t].batch /\ me.nxt = th[t].nxt /\ me.old = th[t].old /\ me.acc = th[t].acc /\ me.mp = mp
  BY DEF Builds
<1>1. TypeOK /\ ControlAt(t) /\ FlagsAt(f) /\ OneFrame
  BY Parts
<1>2. /\ th[t].proc \in Req /\ th[t].cur = None /\ th[t].old \in Page /\ OutOp(t) = "write"
      /\ \E b \in th[t].out : b[2] = th[t].old /\ frame[b[1]].oldDirty
  BY Merging
<1>3. /\ Writing(frame[f]) \in FrameRec /\ Writing(frame[f]).id = frame[f].id /\ Writing(frame[f]).oldDirty = frame[f].oldDirty
      /\ Writing(frame[f]).reqs = frame[f].reqs
  BY <1>1, Records, WritingForm
<1>4. frame' = [frame EXCEPT ![f] = Writing(frame[f])]
  BY DEF Merged
<1>5. frame' \in [Frame -> FrameRec] /\ frame'[f] = Writing(frame[f]) /\ \A g \in Frame \ {f} : frame'[g] = frame[g] /\ Same(g)
  BY <1>3, <1>4, OneFrameSet
<1>6. \A g \in Frame : frame'[g].id = frame[g].id /\ frame'[g].oldDirty = frame[g].oldDirty /\ frame'[g].reqs = frame[g].reqs
  BY <1>3, <1>5
<1>7. th \in [Thread -> ThRec]
  BY <1>1, TypesForm
<1>8. th' \in [Thread -> ThRec] /\ th'[t] = me /\ \A u \in Thread \ {t} : th'[u] = th[u]
  BY <1>7
<1>9. TypeOK'
  BY <1>1, <1>5, <1>8, TypesForm, TypesNext
<1>10. \A g \in Frame : Unmoved(g)
  BY <1>0, <1>2, <1>6, <1>8, LeftAlone
<1> DEFINE X == {<<f, p>>}
<1>11. X \in SUBSET (Frame \X Page) /\ (\A g : Cov(X, g) <=> g = f)
  BY CovOne
<1>12. ~frame[f].oldDirty /\ ~CovBy(f, "read") /\ ~CovBy(f, "write")
  BY <1>1 DEF FlagsAt
<1>13. \E g \in Frame, q \in Page : X = {<<g, q>>} /\ ~CovBy(g, "read") /\ ~CovBy(g, "write")
  BY <1>12
<1>14. th'[t].out = th[t].out \cup X /\ OutOp(t)' = "write" /\ flight' = flight
  BY <1>0, <1>8 DEF OutOp
<1> HIDE DEF X
<1>15. /\ IOApart'
       /\ (\A g \in Frame, o \in {"read", "write"} : CovBy(g, o)' <=> CovBy(g, o) \/ (o = "write" /\ Cov(X, g)))
  BY <1>2, <1>8, <1>9, <1>11, <1>13, <1>14, IOAdd
<1>16. SingleWrites'
  <2>1. PICK b \in th[t].out : b[2] = th[t].old /\ frame[b[1]].oldDirty
    BY <1>2
  <2>2. b[1] \in Frame
    <3>1. th[t].out \in SUBSET (Frame \X Page)
      BY <1>1, Records
    <3> QED BY <2>1, <3>1
  <2>3. b \in th'[t].out /\ b[2] = th'[t].old /\ frame'[b[1]].oldDirty
    BY <1>0, <1>6, <1>8, <2>1, <2>2
  <2>4. \E c \in th'[t].out : c[2] = th'[t].old /\ frame'[c[1]].oldDirty
    BY <2>3
  <2>5. \A io \in Ios' : io \in Ios
    BY DEF Ios
  <2> QED BY <1>6, <1>8, <2>4, <2>5, SingleNext
<1>17. (\A g \in Frame \ {f} : SameCov(g)) /\ \A o \in {"read", "write"} : CovBy(f, o)' <=> CovBy(f, o) \/ o = "write"
  BY <1>11, <1>15 DEF SameCov
<1>18. CountedAt(f)' /\ FlagsAt(f)' /\ IsInjective(frame'[f].reqs)
  BY <1>5, <1>10, <1>17, FrameMerge
<1>19. Touch(t, f)
  BY <1>6, <1>12 DEF Touch
<1>20. EvictorAt(t)'
  BY <1>0, <1>2, <1>8, NoEvictor
<1>21. ControlAt(t)'
  <2>1. NumPages \in Nat /\ me.mp \in Nat
    BY <1>0, NoneApart
  <2> QED BY <1>0, <1>1, <1>2, <1>8, <2>1 DEF ControlAt
<1>22. WorkingAt(t)'
  <2>1. \A g \in Frame, k \in Kind : \A s \in Req : s = th[t].proc /\ In(g, s, k)' => \E j \in Kind : In(g, s, j)
    BY <1>10 DEF Unmoved
  <2> QED BY <1>0, <1>6, <1>8, <2>1, WorkingKept
<1>23. QueuesAt(t)' /\ RepeatsAt(t)'
  BY <1>0, <1>8, QueuesSame
<1>24. OneFrame'
  BY <1>1, <1>6 DEF OneFrame
<1>25. \A g \in Frame : ~Evicting(t, g)
  BY <1>2, NoneApart DEF Evicting
<1>26. \A g \in Frame, s \in Req, k \in Kind : In(g, s, k)' <=> In(g, s, k)
  BY <1>10 DEF Unmoved
<1>27. None \notin Req /\ th'[t].cur = None /\ th'[t].acc = th[t].acc
  BY <1>0, <1>2, <1>8, NoneApart
<1>28. (\A u \in Thread \ {t} : th'[u] = th[u] /\ que'[u] = que[u]) /\ \A s \in Req \ {None} : rq'[s] = rq[s]
  BY <1>8
<1> QED BY <1>5, <1>9, <1>15, <1>16, <1>17, <1>18, <1>19, <1>20, <1>21, <1>22, <1>23, <1>24, <1>25, <1>26, <1>27, <1>28, LocalStep

Built(me, pc, o, x) == [me EXCEPT !.pc = pc, !.out = o, !.mp = x]
LEMMA MergeForm == ASSUME NEW me \in ThRec, NEW o \in SUBSET (Frame \X Page), NEW x \in 0 .. NumPages + 1, NEW pc \in Pcs
                   PROVE Built(me, pc, o, x) \in ThRec /\ Builds(me, Built(me, pc, o, x), pc, o, x)
<1> DEFINE n == Built(me, pc, o, x)
<1>1. n \in ThRec
  BY DEF ThRec, Built
<1>2. /\ n.out = o /\ n.mp = x /\ n.pc = pc /\ n.arg = me.arg /\ n.proc = me.proc /\ n.cur = me.cur
      /\ n.batch = me.batch /\ n.nxt = me.nxt /\ n.old = me.old /\ n.acc = me.acc
  BY DEF ThRec, Built
<1> QED BY <1>1, <1>2 DEF Builds

LEMMA MergeForwardStep == ASSUME IInv, NEW t \in Thread, MergeForward(t) PROVE IInv'
<1>1. TypeOK /\ ControlAt(t)
  BY Parts
<1>2. th[t] \in ThRec /\ th[t].out \in SUBSET (Frame \X Page)
  BY <1>1, Records
<1>3. th[t].pc = "mergeF" /\ UNCHANGED <<disk, raced, flight, que, rq>>
  BY Zenon DEF MergeForward
<1>4. th[t].old \in Page /\ th[t].mp \in 1 .. NumPages /\ th[t].cur = None /\ th[t].proc \in Req /\ "mergeF" \in Pcs /\ "mergeB" \in Pcs
  BY <1>1, <1>3, Merging DEF ControlAt, Pcs
<1> DEFINE m == Mergeable(th[t].mp, Block(th[t].old))
<1>5. CASE m # {}
  <2>1. PICK f \in m : /\ frame' = Merged(f)
                       /\ th' = [th EXCEPT ![t] = [th[t] EXCEPT !.out = @ \cup {<<f, th[t].mp>>}, !.mp = th[t].mp + 1]]
    BY <1>5, Zenon DEF MergeForward
  <2>2. f \in Frame /\ th[t].mp \in Page /\ frame[f].dirty /\ ~frame[f].pending
    BY DEF Mergeable, FramesOf
  <2>3. PICK o \in SUBSET (Frame \X Page) : o = th[t].out \cup {<<f, th[t].mp>>}
    <3>1. th[t].out \cup {<<f, th[t].mp>>} \in SUBSET (Frame \X Page)
      BY <1>2, <2>2
    <3> QED BY <3>1
  <2>4. PICK x \in 0 .. NumPages : x = th[t].mp + 1 /\ x # 0 /\ x \in 0 .. NumPages + 1
    BY <1>4, <2>2, NoneApart
  <2> DEFINE me == Built(th[t], "mergeF", o, x)
  <2>5. th' = [th EXCEPT ![t] = me]
    <3>1. [th[t] EXCEPT !.out = @ \cup {<<f, th[t].mp>>}, !.mp = th[t].mp + 1] = me
      BY <1>2, <1>3, <2>3, <2>4 DEF ThRec, Built
    <3> QED BY <2>1, <3>1
  <2> HIDE DEF m
  <2>7. me \in ThRec /\ Builds(th[t], me, "mergeF", o, x)
    BY <1>2, <1>4, <2>4, MergeForm
  <2> HIDE DEF me
  <2>8. Builds(th[t], me, th[t].pc, o, x) /\ th[t].pc \in {"mergeF", "mergeB"} /\ th[t].pc # "mergeB"
    BY <1>3, <2>7
  <2>9. UNCHANGED <<disk, raced, flight, que, rq>> /\ frame' = Merged(f)
    BY <1>3, <2>1
  <2> QED BY <2>2, <2>3, <2>4, <2>5, <2>7, <2>8, <2>9, MergeAdds
<1>6. CASE m = {}
  <2>1. th' = [th EXCEPT ![t] = [th[t] EXCEPT !.pc = "mergeB", !.mp = th[t].old]] /\ frame' = frame
    BY <1>6, Zenon DEF MergeForward
  <2>2. PICK x \in 0 .. NumPages + 1 : x = th[t].old /\ x \in 0 .. NumPages - 1
    BY <1>4, NoneApart
  <2>3. PICK o \in SUBSET (Frame \X Page) : o = th[t].out
    BY <1>2
  <2> DEFINE me == Built(th[t], "mergeB", o, x)
  <2>4. th' = [th EXCEPT ![t] = me]
    <3>1. [th[t] EXCEPT !.pc = "mergeB", !.mp = th[t].old] = me
      BY <1>2, <2>2, <2>3 DEF ThRec, Built
    <3> QED BY <2>1, <3>1
  <2>5. me \in ThRec /\ Builds(th[t], me, "mergeB", o, x)
    BY <1>2, <1>4, MergeForm
  <2> HIDE DEF me, m
  <2>6. /\ me.out = th[t].out /\ me.mp = x /\ me.pc = "mergeB" /\ me.arg = th[t].arg /\ me.proc = th[t].proc
        /\ me.cur = th[t].cur /\ me.batch = th[t].batch /\ me.nxt = th[t].nxt /\ me.old = th[t].old /\ me.acc = th[t].acc
    BY <2>3, <2>5 DEF Builds
  <2>7. th'[t] = me
    BY <1>1, <2>4, TypesForm
  <2>8. ControlAt(t)'
    BY <1>1, <1>3, <1>4, <2>2, <2>6, <2>7 DEF ControlAt
  <2>9. EvictorAt(t)'
    BY <1>4, <2>6, <2>7, NoEvictor
  <2>10. \A f \in Frame : ~Evicting(t, f)
    BY <1>4, NoneApart DEF Evicting
  <2>11. frame' \in [Frame -> FrameRec] /\ \A f \in Frame : Same(f)
    BY <1>1, <2>1, TypesForm DEF Same
  <2> QED BY <1>3, <2>4, <2>5, <2>6, <2>8, <2>9, <2>10, <2>11, QuietStep
<1> QED BY <1>5, <1>6

\* A write with one buffer.
LEMMA OneBuffer == ASSUME NEW S, IsFiniteSet(S), NEW b \in S, ~(Cardinality(S) > 1) PROVE \A c \in S : c = b
<1>1. IsFiniteSet(S \ {b}) /\ Cardinality(S \ {b}) = Cardinality(S) - 1 /\ Cardinality(S) \in Nat /\ Cardinality(S \ {b}) \in Nat
  BY FS_RemoveElement, FS_CardinalityType
<1>2. Cardinality(S \ {b}) = 0
  BY <1>1
<1>3. S \ {b} = {}
  BY <1>1, <1>2, FS_EmptySet
<1> QED BY <1>3

\* The locals when the write has been sent.
LEMMA SentForm == ASSUME NEW me \in ThRec
                  PROVE LET n == [me EXCEPT !.out = {}] IN
                        /\ n \in ThRec /\ n.out = {} /\ n.pc = me.pc /\ n.arg = me.arg /\ n.proc = me.proc /\ n.cur = me.cur
                        /\ n.batch = me.batch /\ n.nxt = me.nxt /\ n.old = me.old /\ n.acc = me.acc
BY DEF ThRec

\* The write is sent.
LEMMA MergeSent == ASSUME IInv, NEW t \in Thread, th[t].pc = "mergeB", Send(Request(t, "write", th[t].out)),
                          Looped(t, [th[t] EXCEPT !.out = {}]), UNCHANGED <<frame, disk, raced, que, rq>>
                   PROVE IInv'
<1>1. TypeOK /\ OneFrame /\ IOApart
  BY Parts
<1>2. th[t] \in ThRec /\ th[t].out \in SUBSET (Frame \X Page)
  BY <1>1, Records
<1>3. PICK r \in Req : r = th[t].proc
  BY Merging
<1>4. /\ th[t].cur = None /\ th[t].old \in Page /\ OutOp(t) = "write" /\ (th[t].batch # <<>> => rq[r].op # "write")
  BY <1>3, Merging
<1>5. PICK b \in th[t].out : b[2] = th[t].old /\ frame[b[1]].oldDirty
  BY Merging
<1> DEFINE me == [th[t] EXCEPT !.out = {}]
<1>6. /\ me \in ThRec /\ me.proc = r /\ me.out = {} /\ me.batch = th[t].batch /\ me.arg = th[t].arg /\ me.nxt = th[t].nxt
      /\ me.old = th[t].old /\ me.acc = th[t].acc
  BY <1>2, <1>3, SentForm
<1>7. Looped(t, me)
  OBVIOUS
<1> HIDE DEF me
<1>8. /\ th' \in [Thread -> ThRec] /\ (\A u \in Thread \ {t} : th'[u] = th[u])
      /\ th'[t].cur = None /\ th'[t].batch = me.batch /\ th'[t].arg = me.arg /\ th'[t].nxt = me.nxt
      /\ th'[t].old = me.old /\ th'[t].out = {} /\ th'[t].acc = me.acc /\ th'[t].proc \in {r, None}
      /\ (th'[t].proc = None => me.batch = <<>>)
      /\ th'[t].pc \in {"search", "flush", "ret"} /\ ControlAt(t)' /\ EvictorAt(t)'
  BY <1>4, <1>6, <1>7, AfterLoop
<1>9. flight' = flight \cup {Request(t, "write", th[t].out)} /\ UNCHANGED <<frame, disk, raced, que, rq>>
  BY DEF Send
<1>10. /\ Request(t, "write", th[t].out) \in IO /\ Request(t, "write", th[t].out).bufs = th[t].out
       /\ Request(t, "write", th[t].out).multi = (Cardinality(th[t].out) > 1)
  BY <1>2, RequestForm
<1>11. TypeOK'
  BY <1>1, <1>8, <1>9, <1>10, TypesForm, TypesNext
<1>12. \A g \in Frame : Unmoved(g)
  BY <1>3, <1>4, <1>6, <1>8, <1>9, LeftAlone
<1> DEFINE X == {}
<1>13. X \in SUBSET (Frame \X Page) /\ (\A g : ~Cov(X, g)) /\ th[t].out \cup X = th[t].out
  BY DEF Cov
<1>14. flight' = flight \cup {Request(t, "write", th[t].out \cup X)} /\ th'[t].out = {} /\ th[t].out \cup X # {} /\ X = {}
  BY <1>5, <1>8, <1>9, <1>13
<1>15. \A u \in Thread : que'[u].disk = que[u].disk
  BY <1>9
<1> HIDE DEF X
<1>16. /\ IOApart'
       /\ (\A g \in Frame, o \in {"read", "write"} : CovBy(g, o)' <=> CovBy(g, o) \/ (o = "write" /\ Cov(X, g)))
       /\ \A io \in Ios' : io \in Ios \/ io = Request(t, "write", th[t].out \cup X)
  <2>1. X = {} /\ (\A u \in Thread \ {t} : th'[u] = th[u]) /\ X \in SUBSET (Frame \X Page)
    BY <1>8, <1>13, <1>14
  <2>2. \A io \in Ios' : io \in Ios \/ io = Request(t, "write", th[t].out \cup X)
    BY <1>14, <1>15 DEF Ios
  <2>3. /\ IOApart'
        /\ \A g \in Frame, o \in {"read", "write"} : CovBy(g, o)' <=> CovBy(g, o) \/ (o = "write" /\ Cov(X, g))
    BY <1>4, <1>11, <1>14, <1>15, <2>1, IOAdd
  <2> QED BY <2>2, <2>3
<1>17. \A g \in Frame : SameCov(g)
  BY <1>13, <1>16 DEF SameCov
<1>18. SingleWrites'
  <2>1. ~(Cardinality(th[t].out) > 1) => \A c \in th[t].out : frame'[c[1]].oldDirty
    <3>1. IsFiniteSet(th[t].out)
      BY <1>1 DEF IOApart, BufsOK
    <3> QED BY <1>5, <1>9, <3>1, OneBuffer
  <2>2. \A io \in Ios' : io \in Ios \/ (io.op = "write" /\ ~io.multi => \A c \in io.bufs : frame'[c[1]].oldDirty)
    BY <1>10, <1>13, <1>16, <2>1
  <2> QED BY <1>8, <1>9, <2>2, SingleNext
<1>19. WorkingAt(t)'
  <2>1. \A g \in Frame, k \in Kind : \A s \in Req : s = th[t].proc /\ In(g, s, k)' => \E j \in Kind : In(g, s, j)
    BY <1>12 DEF Unmoved
  <2> QED BY <1>3, <1>4, <1>6, <1>8, <1>9, <2>1, WorkingKept
<1>20. QueuesAt(t)' /\ RepeatsAt(t)'
  BY <1>6, <1>8, <1>9, QueuesSame
<1>21. OneFrame'
  BY <1>1, <1>9 DEF OneFrame
<1>22. \A g \in Frame : ~Evicting(t, g) /\ Same(g)
  BY <1>4, <1>9, NoneApart DEF Evicting, Same
<1>23. \A g \in Frame, s \in Req, k \in Kind : In(g, s, k)' <=> In(g, s, k)
  BY <1>12 DEF Unmoved
<1>24. None \notin Req /\ None \notin Frame /\ th'[t].cur = None /\ th'[t].acc = th[t].acc
  BY <1>6, <1>8, NoneApart
<1>25. (\A u \in Thread \ {t} : th'[u] = th[u] /\ que'[u] = que[u]) /\ \A s \in Req \ {None} : rq'[s] = rq[s]
  BY <1>8, <1>9
<1> QED BY <1>8, <1>11, <1>16, <1>17, <1>18, <1>19, <1>20, <1>21, <1>22, <1>23, <1>24, <1>25, LocalStep

LEMMA MergeBackwardStep == ASSUME IInv, NEW t \in Thread, MergeBackward(t) PROVE IInv'
<1>1. TypeOK /\ ControlAt(t)
  BY Parts
<1>2. th[t] \in ThRec /\ th[t].out \in SUBSET (Frame \X Page)
  BY <1>1, Records
<1>3. th[t].pc = "mergeB" /\ UNCHANGED <<disk, raced, que, rq>>
  BY Zenon DEF MergeBackward
<1>4. th[t].old \in Page /\ th[t].mp \in 0 .. NumPages - 1 /\ "mergeB" \in Pcs
  BY <1>1, <1>3 DEF ControlAt, Pcs
<1> DEFINE m == IF th[t].mp = 0 THEN {} ELSE Mergeable(th[t].mp - 1, Block(th[t].old))
<1>5. CASE m # {}
  <2>1. PICK f \in m : /\ frame' = Merged(f) /\ UNCHANGED flight
                       /\ th' = [th EXCEPT ![t] = [th[t] EXCEPT !.out = @ \cup {<<f, th[t].mp - 1>>}, !.mp = th[t].mp - 1]]
    BY <1>5, Zenon DEF MergeBackward
  <2>2. f \in Mergeable(th[t].mp - 1, Block(th[t].old)) /\ th[t].mp # 0
    OBVIOUS
  <2>3. PICK x \in 0 .. NumPages : x = th[t].mp - 1 /\ x \in 0 .. NumPages + 1 /\ x # NumPages
    BY <1>4, <2>2, NoneApart
  <2>4. f \in Frame /\ x \in Page /\ frame[f].dirty /\ ~frame[f].pending
    BY <2>2, <2>3 DEF Mergeable, FramesOf
  <2>5. PICK o \in SUBSET (Frame \X Page) : o = th[t].out \cup {<<f, x>>}
    <3>1. th[t].out \cup {<<f, x>>} \in SUBSET (Frame \X Page)
      BY <1>2, <2>4
    <3> QED BY <3>1
  <2> DEFINE me == Built(th[t], "mergeB", o, x)
  <2>6. th' = [th EXCEPT ![t] = me]
    <3>1. [th[t] EXCEPT !.out = @ \cup {<<f, th[t].mp - 1>>}, !.mp = th[t].mp - 1] = me
      BY <1>2, <1>3, <2>3, <2>5 DEF ThRec, Built
    <3> QED BY <2>1, <3>1
  <2> HIDE DEF m
  <2>7. me \in ThRec /\ Builds(th[t], me, "mergeB", o, x)
    BY <1>2, <1>4, <2>3, MergeForm
  <2> HIDE DEF me
  <2>8. Builds(th[t], me, th[t].pc, o, x) /\ th[t].pc \in {"mergeF", "mergeB"} /\ th[t].pc # "mergeF"
    BY <1>3, <2>7
  <2>9. UNCHANGED <<disk, raced, flight, que, rq>> /\ frame' = Merged(f)
    BY <1>3, <2>1
  <2> QED BY <2>3, <2>4, <2>5, <2>6, <2>7, <2>8, <2>9, MergeAdds
<1>6. CASE m = {}
  <2>1. Send(Request(t, "write", th[t].out)) /\ Looped(t, [th[t] EXCEPT !.out = {}]) /\ frame' = frame
    BY <1>6, Zenon DEF MergeBackward, Looped
  <2> QED BY <1>3, <2>1, MergeSent, Zenon
<1> QED BY <1>5, <1>6

===============================================================================
