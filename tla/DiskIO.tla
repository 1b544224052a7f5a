-------------------------------- MODULE DiskIO --------------------------------
(***************************************************************************)
(* The path of a request from a thread to the disks and back: remote_io    *)
(* splits it at the RAID blocks and buffers the parts per disk, an I/O     *)
(* thread per disk (disk_io_thread) submits them to the kernel and collects *)
(* what has finished (async_io), a completion thread (aio_complete_thread)  *)
(* hands the parts back, and the issuing thread puts them together and     *)
(* calls its user.  The threads sleep and wake each other with             *)
(* thread::wait and thread::activate, whose flag is sticky.                *)
(*                                                                         *)
(* The application threads share one file (remote_io_factory), for which   *)
(* each has a remote_io instance.  A step is what one thread does between  *)
(* two accesses to state that others write: a queue that is filled and the *)
(* thread that is then activated are two steps.  A thread that wakes up    *)
(* clears its flag and empties its queue in one: apart they would only     *)
(* change when a superfluous wake-up comes.                                *)
(***************************************************************************)
EXTENDS FileMapper, Sequences, SequencesExt

CONSTANTS
    App,           \* application threads
    FilePages,     \* the size of the file
    Mapping,       \* its mapping option
    Extents,       \* the <<offset, size>> a thread asks for in a request
    MaxReqs,       \* the requests of each thread (bound); after the first
    MaxDirect,     \* MaxDirect ones they come from callbacks (bound)
    MaxCached,     \* MAX_DISK_CACHED_REQS
    AIODepth,      \* AIO_DEPTH: slots of an I/O thread in the kernel
    CompleteSize,  \* size of the queue of the completion thread
    GroupFrom,     \* from this number on (8) completions are grouped by instance
    Modes,         \* the ways in which a thread waits: "wait" or "select"
    Reissue,       \* the ways of waiting in which callbacks issue requests
    None

ASSUME DiskIOAssumption ==
    /\ FilePages \in Nat /\ Extents \in [App -> SUBSET (Nat \X (Nat \ {0}))]
    /\ \A a \in App : \A e \in Extents[a] : e[1] + e[2] <= FilePages
    /\ {AIODepth, GroupFrom} \subseteq Nat \ {0} /\ CompleteSize \in Nat /\ MaxReqs \in [App -> Nat]
    /\ Mapping \in MappingOption /\ {MaxCached, MaxDirect} \subseteq Nat /\ None \notin App
    /\ Modes \in [App -> SUBSET {"wait", "select"}]

VARIABLES
    file, \* the factory of the file, as it opens or closes it
    rq,   \* the requests: what was issued, and how much of it is done
    app,  \* application threads and their remote_io instances
    io,   \* I/O threads
    ct    \* the completion thread

vars == <<file, rq, app, io, ct>>

Req == UNION {{a} \X (1 .. MaxReqs[a]) : a \in App}
Pages(off, size) == off .. off + size - 1

\* The elements of a sequence at some of its positions, in their order.
ElementsAt(s, positions) ==
    [k \in 1 .. Cardinality(positions) |->
        s[CHOOSE i \in positions : Cardinality({j \in positions : j <= i}) = k]]

\* Mutant: cutting pieces of a block's size from wherever the request starts.
SplitFromStart(r, off, size) ==
    [i \in 1 .. (size + StripeBlockSize - 1) \div StripeBlockSize |->
        [req |-> r, off |-> off + (i - 1) * StripeBlockSize,
         size |-> Min({StripeBlockSize, size - (i - 1) * StripeBlockSize})]]

\* The parts of a request: one for every RAID block it touches.
Split(r, off, size) ==
    LET first == BlockIdx(off)
        num   == BlockIdx(off + size - 1) - first + 1
        begin(i) == Max({off, (first + i - 1) * StripeBlockSize})
        end(i)   == Min({off + size, (first + i) * StripeBlockSize})
    IN  [i \in 1 .. num |-> [req |-> r, off |-> begin(i), size |-> end(i) - begin(i)]]

IsSplit(r) == BlockIdx(rq[r].off) # BlockIdx(rq[r].off + rq[r].size - 1)

PartPages(p) == Pages(p.off, p.size)
DiskOf(p) == Map2File(Mapping, p.off)

Pending(a) == app[a].issued - app[a].completed   \* num_pending_ios

Init ==
    /\ file = [pc |-> "command", op |-> "open", disk |-> 0, answered |-> FALSE]
    /\ rq = [r \in Req |-> [state |-> "new", off |-> 0, size |-> 0, left |-> 0, moved |-> {}]]
    /\ app = [a \in App |->
                [pc |-> "none", ret |-> "idle", disk |-> 0, act |-> FALSE,
                 senders |-> [d \in Stripe |-> <<>>], complete |-> <<>>, calls |-> <<>>,
                 mode |-> "none", issued |-> 0, completed |-> 0, batch |-> 0,
                 base |-> 0, target |-> 0, num |-> 0]]
    /\ io = [d \in Stripe |->
                [pc |-> "wait", act |-> FALSE, queue |-> <<>>, comm |-> <<>>, open |-> FALSE,
                 local |-> <<>>, kernel |-> {}, finished |-> <<>>, events |-> 0,
                 tcbs |-> <<>>, grouped |-> FALSE, to |-> None, ret |-> "fetch"]]
    /\ ct = [pc |-> "wait", act |-> FALSE, queue |-> <<>>, tcbs |-> <<>>, grouped |-> FALSE, to |-> None]

\* Where a thread is that has requests to flush before it goes on at ret.
FlushOr(senders, ret) == IF \E d \in Stripe : senders[d] # <<>> THEN "flush" ELSE ret

-----------------------------------------------------------------------------
(* Opening and closing the file: a command for every I/O thread, one after *)
(* the other (remote_io_factory, execute_remote_comm).  The thread that    *)
(* destroys the last instance closes the file.                             *)

\* comm_queue.add
Command ==
    /\ file.pc = "command"
    /\ io' = [io EXCEPT ![file.disk].comm = Append(@, file.op)]
    /\ file' = [file EXCEPT !.pc = "commanded", !.answered = FALSE]
    /\ UNCHANGED <<rq, app, ct>>

\* activate
CommandActivate ==
    /\ file.pc = "commanded"
    /\ io' = [io EXCEPT ![file.disk].act = TRUE]
    /\ file' = [file EXCEPT !.pc = "answer"]
    /\ UNCHANGED <<rq, app, ct>>

\* wait4complete of the command, then the next thread
Answered ==
    /\ file.pc = "answer" /\ file.answered
    /\ file' = IF file.disk < NumFiles - 1
               THEN [file EXCEPT !.pc = "command", !.disk = @ + 1]
               ELSE [file EXCEPT !.pc = IF file.op = "open" THEN "opened" ELSE "closed", !.disk = 0]
    /\ UNCHANGED <<rq, app, io, ct>>

\* create_io
CreateIO(a) ==
    /\ file.pc = "opened" /\ app[a].pc = "none"
    /\ app' = [app EXCEPT ![a].pc = "idle"]
    /\ UNCHANGED <<file, rq, io, ct>>

\* ~remote_io_factory
Close ==
    /\ file.pc = "opened" /\ \A a \in App : app[a].pc = "destroyed"
    /\ file' = [file EXCEPT !.pc = "command", !.op = "close"]
    /\ UNCHANGED <<rq, app, io, ct>>

-----------------------------------------------------------------------------
(* Issuing requests.                                                       *)

\* send_cached: the parts of a request go to the senders of their disks.
Sent(senders, parts) ==
    [d \in Stripe |-> senders[d] \o ElementsAt(parts, {i \in DOMAIN parts : DiskOf(parts[i]) = d})]

NumRemaining(senders) == FoldFunction(+, 0, [d \in Stripe |-> Len(senders[d])])

\* access of one request, from the application (ret = "idle") or from a callback.  It is sent when
\* enough requests are buffered, or at once when it is synchronous.
AccessBy(a, off, size, sync, ret) ==
    LET r == <<a, app[a].issued + 1>>
        sent == Sent(app[a].senders, Split(r, off, size))
        flush == sync \/ NumRemaining(sent) > MaxCached
    IN  /\ app[a].issued < MaxReqs[a]
        /\ app' = [app EXCEPT ![a].issued = @ + 1, ![a].senders = sent, ![a].ret = ret,
                              ![a].pc = IF flush THEN FlushOr(sent, ret) ELSE ret,
                              ![a].calls = IF ret = "call" THEN Tail(@) ELSE @]

Issued(off, size) == [state |-> "issued", off |-> off, size |-> size, left |-> size, moved |-> {}]

Access(a, off, size, sync) ==
    /\ app[a].pc = "idle" /\ app[a].issued < MaxDirect
    /\ AccessBy(a, off, size, sync, "idle")
    /\ rq' = [rq EXCEPT ![<<a, app[a].issued + 1>>] = Issued(off, size)]
    /\ UNCHANGED <<file, io, ct>>

\* access of a flush request: complete at once, and it sends what is buffered
FlushRequest(a) ==
    /\ app[a].pc = "idle" /\ app[a].issued < Min({MaxDirect, MaxReqs[a]})
    /\ app' = [app EXCEPT ![a].issued = @ + 1, ![a].completed = @ + 1,
                          ![a].pc = FlushOr(app[a].senders, "idle"), ![a].ret = "idle"]
    /\ UNCHANGED <<file, rq, io, ct>>

\* flush_requests: sender after sender, the parts move to the queue of the disk, whose thread is
\* activated afterwards (ActivateIO).
Flush(a) ==
    LET d == Min({e \in Stripe : app[a].senders[e] # <<>>})
    IN  /\ app[a].pc = "flush"
        /\ app' = [app EXCEPT ![a].senders[d] = <<>>, ![a].disk = d, ![a].pc = "flushed"]
        /\ io' = [io EXCEPT ![d].queue = @ \o app[a].senders[d]]
        /\ UNCHANGED <<file, rq, ct>>

\* ... activate
ActivateIO(a) ==
    /\ app[a].pc = "flushed"
    /\ io' = [io EXCEPT ![app[a].disk].act = TRUE]
    /\ app' = [app EXCEPT ![a].pc = FlushOr(app[a].senders, app[a].ret)]
    /\ UNCHANGED <<file, rq, ct>>

-----------------------------------------------------------------------------
(* Waiting: remote_io::wait4complete (mode "wait") measures its progress by *)
(* the number of pending requests, remote_io_select::wait4complete ("select") *)
(* by the number of parts it has fetched, and only it flushes in its loop. *)

Wait4Complete(a, mode, num) ==
    /\ app[a].pc = "idle" /\ Pending(a) > 0
    /\ app' = [app EXCEPT ![a].mode = mode, ![a].ret = "take",
                          ![a].pc = FlushOr(app[a].senders, "take"),
                          ![a].base = Pending(a), ![a].target = Min({Pending(a), num})]
    /\ UNCHANGED <<file, rq, io, ct>>

\* The pages of request r among the parts that were fetched.
PagesOf(r, parts) ==
    LET sum[i \in 0 .. Len(parts)] ==
            IF i = 0 THEN 0 ELSE sum[i - 1] + IF parts[i].req = r THEN parts[i].size ELSE 0
    IN  sum[Len(parts)]

\* Mutant: every part reported as a request of its own.
CompletedParts(parts) == [i \in DOMAIN parts |-> parts[i].req]

\* process_completed_requests: requests in one part are done, the others when their last part is;
\* the first go to their callbacks before the second.
Completed(parts) ==
    LET ends == [i \in DOMAIN parts |->
                    IF ~IsSplit(parts[i].req) THEN "whole"
                    ELSE IF /\ PagesOf(parts[i].req, parts) = rq[parts[i].req].left
                            /\ \A j \in i + 1 .. Len(parts) : parts[j].req # parts[i].req
                         THEN "last" ELSE "part"]
        pick(kind) == ElementsAt([i \in DOMAIN parts |-> parts[i].req], {i \in DOMAIN parts : ends[i] = kind})
    IN  pick("whole") \o pick("last")

\* process_all_completed_requests: fetch what is there
TakeCompleted(a) ==
    LET parts == app[a].complete
        done == Completed(parts)
    IN  /\ app[a].pc = "take"
        /\ app' = [app EXCEPT ![a].pc = "call", ![a].complete = <<>>, ![a].num = @ + Len(parts),
                              ![a].calls = done, ![a].batch = Len(done)]
        /\ rq' = [r \in Req |-> IF r[1] = a THEN [rq[r] EXCEPT !.left = @ - PagesOf(r, parts)]
                                ELSE rq[r]]
        /\ UNCHANGED <<file, io, ct>>

\* the callback of one request, which may issue another one
Callback(a) ==
    LET r == Head(app[a].calls)
    IN  /\ app[a].pc = "call" /\ app[a].calls # <<>>
        /\ \/ /\ app' = [app EXCEPT ![a].calls = Tail(@)]
              /\ rq' = [rq EXCEPT ![r].state = "done"]
           \/ \E e \in Extents[a] :
                /\ app[a].mode \in Reissue
                /\ AccessBy(a, e[1], e[2], FALSE, "call")
                /\ rq' = [rq EXCEPT ![r].state = "done",
                                    ![<<a, app[a].issued + 1>>] = Issued(e[1], e[2])]
        /\ UNCHANGED <<file, io, ct>>

\* The end of wait4complete and of its local variables.
Returned(a, completed) ==
    [app[a] EXCEPT !.completed = completed, !.batch = 0, !.pc = "idle", !.ret = "idle",
                   !.mode = "none", !.base = 0, !.target = 0, !.num = 0]

\* Mutant: counting what was fetched instead of what was complete.
CountedFetched(a) ==
    LET completed == app[a].completed + app[a].num
        enough == IF app[a].mode = "wait"
                  THEN app[a].base - (app[a].issued - completed) >= app[a].target
                  ELSE app[a].num >= app[a].target
    IN  /\ app[a].pc = "call" /\ app[a].calls = <<>>
        /\ app' = [app EXCEPT ![a] = IF enough THEN Returned(a, completed)
                                     ELSE [@ EXCEPT !.completed = completed, !.batch = 0, !.pc = "wait"]]
        /\ UNCHANGED <<file, rq, io, ct>>

\* after the callbacks: count, and return or go to sleep
Counted(a) ==
    LET completed == app[a].completed + app[a].batch
        enough == IF app[a].mode = "wait"
                  THEN app[a].base - (app[a].issued - completed) >= app[a].target
                  ELSE app[a].num >= app[a].target
    IN  /\ app[a].pc = "call" /\ app[a].calls = <<>>
        /\ app' = [app EXCEPT ![a] = IF enough THEN Returned(a, completed)
                                     ELSE [@ EXCEPT !.completed = completed, !.batch = 0, !.pc = "wait"]]
        /\ UNCHANGED <<file, rq, io, ct>>

\* thread::wait of the application
WakeApp(a) ==
    /\ app[a].pc = "wait" /\ app[a].act
    /\ app' = [app EXCEPT ![a].act = FALSE, ![a].ret = "take",
                          ![a].pc = IF app[a].mode = "select" THEN FlushOr(app[a].senders, "take")
                                    ELSE "take"]
    /\ UNCHANGED <<file, rq, io, ct>>

-----------------------------------------------------------------------------
(* cleanup of an instance whose requests are complete, so that it has      *)
(* nothing to process or to flush, and the end of its file.                *)

Cleanup(a) ==
    /\ app[a].pc = "idle" /\ Pending(a) = 0
    /\ app' = [app EXCEPT ![a].pc = "drain"]
    /\ UNCHANGED <<file, rq, io, ct>>

\* as long as there is anything in a queue, all threads are woken up; then once more, to flush (for
\* which async_io has nothing to do)
Drain(a) ==
    LET empty == \A d \in Stripe : io[d].queue = <<>>
    IN  /\ app[a].pc = "drain"
        /\ io' = [d \in Stripe |-> [io[d] EXCEPT !.act = TRUE]]
        /\ app' = [app EXCEPT ![a].pc = IF empty THEN "destroyed" ELSE "drain"]
        /\ UNCHANGED <<file, rq, ct>>

-----------------------------------------------------------------------------
(* I/O threads (disk_io_thread::run).                                      *)

Busy(d) == Cardinality(io[d].kernel) + Len(io[d].finished) + io[d].events

\* async_io::access goes on with t.local: as many requests as there are slots; if that is not all,
\* the thread waits for a slot.
Submitted(t, busy) ==
    LET num == Min({AIODepth - busy, Len(t.local)})
    IN  [t EXCEPT !.kernel = @ \cup ToSet(SubSeq(t.local, 1, num)),
                  !.local = SubSeq(@, num + 1, Len(@)),
                  !.pc = IF num = Len(t.local) THEN "comm" ELSE "iowait",
                  !.ret = IF num = Len(t.local) THEN "fetch" ELSE "access"]

\* Mutant: going to sleep as soon as there are no requests.
FetchedOrSleep(d) ==
    IF io[d].queue # <<>>
    THEN Submitted([io[d] EXCEPT !.queue = <<>>, !.local = io[d].queue], Busy(d))
    ELSE [io[d] EXCEPT !.pc = "wait"]

\* What get_all_reqs fetches is submitted; without requests the thread waits for the I/O it has, or
\* ends the round.
Fetched(d) ==
    IF io[d].queue # <<>>
    THEN Submitted([io[d] EXCEPT !.queue = <<>>, !.local = io[d].queue], Busy(d))
    ELSE [io[d] EXCEPT !.pc = IF Busy(d) > 0 THEN "iowait" ELSE "wait"]

\* The commands of the queue, open_file or close_file, and their answers, then get_all_reqs.
RunCommands(d, t) ==
    /\ io' = [io EXCEPT ![d] = [t EXCEPT !.comm = <<>>,
                                    !.open = IF t.comm = <<>> THEN @ ELSE Last(t.comm) = "open"]]
    /\ file' = [file EXCEPT !.answered = @ \/ io[d].comm # <<>>]
    /\ UNCHANGED <<rq, app, ct>>

\* run, when thread::wait returns
Run(d) ==
    /\ io[d].pc = "wait" /\ io[d].act
    /\ RunCommands(d, [Fetched(d) EXCEPT !.act = FALSE])

\* the next round of its loop, while there is I/O pending
Round(d) ==
    /\ io[d].pc = "comm"
    /\ RunCommands(d, Fetched(d))

\* get_all_reqs again, after some I/O is complete
FetchAgain(d) ==
    /\ io[d].pc = "fetch"
    /\ io' = [io EXCEPT ![d] = Fetched(d)]
    /\ UNCHANGED <<file, rq, app, ct>>

\* async_io::access, after io_wait has freed a slot
SubmitMore(d) ==
    /\ io[d].pc = "access"
    /\ io' = [io EXCEPT ![d] = Submitted(@, Busy(d))]
    /\ UNCHANGED <<file, rq, app, ct>>

\* the kernel moves the pages of a part
KernelDone(d) ==
    \E p \in io[d].kernel :
        /\ io' = [io EXCEPT ![d].kernel = @ \ {p}, ![d].finished = Append(@, p)]
        /\ rq' = [rq EXCEPT ![p.req].moved = @ \cup PartPages(p)]
        /\ UNCHANGED <<file, app, ct>>

\* Mutant: what does not fit into the queue is dropped.
IOWaitDrop(d) ==
    LET done == io[d].finished
        room == Min({Len(done), CompleteSize - Len(ct.queue)})
    IN  /\ io[d].pc = "iowait" /\ done # <<>>
        /\ ct' = [ct EXCEPT !.queue = @ \o SubSeq(done, 1, room)]
        /\ io' = [io EXCEPT ![d].pc = "added", ![d].finished = <<>>, ![d].events = Len(done),
                            ![d].tcbs = <<>>, ![d].grouped = FALSE]
        /\ UNCHANGED <<file, rq, app>>

\* io_wait and return_cb: the completion thread gets what its queue has room for
IOWait(d) ==
    LET done == io[d].finished
        room == Min({Len(done), CompleteSize - Len(ct.queue)})
    IN  /\ io[d].pc = "iowait" /\ done # <<>>
        /\ ct' = [ct EXCEPT !.queue = @ \o SubSeq(done, 1, room)]
        /\ io' = [io EXCEPT ![d].pc = "added", ![d].finished = <<>>, ![d].events = Len(done),
                            ![d].tcbs = SubSeq(done, room + 1, Len(done)),
                            ![d].grouped = Len(done) - room >= GroupFrom]
        /\ UNCHANGED <<file, rq, app>>

\* The end of io_wait, when all callbacks are done: their slots are free.
IOWaited(t) == [t EXCEPT !.pc = t.ret, !.events = 0, !.grouped = FALSE]

\* ... and is activated; the rest is processed here
ActivateCT(d) ==
    /\ io[d].pc = "added"
    /\ ct' = [ct EXCEPT !.act = TRUE]
    /\ io' = [io EXCEPT ![d] = IF @.tcbs = <<>> THEN IOWaited(@) ELSE [@ EXCEPT !.pc = "notify"]]
    /\ UNCHANGED <<file, rq, app>>

\* process_completed_reqs: one request, or all of one instance
Group(t) ==
    LET to == Head(t.tcbs).req[1]
    IN  IF t.grouped THEN ElementsAt(t.tcbs, {i \in DOMAIN t.tcbs : t.tcbs[i].req[1] = to}) ELSE <<Head(t.tcbs)>>

Ungrouped(t) ==
    LET to == Head(t.tcbs).req[1]
    IN  IF t.grouped THEN ElementsAt(t.tcbs, {i \in DOMAIN t.tcbs : t.tcbs[i].req[1] # to}) ELSE Tail(t.tcbs)

\* remote_io::notify_completion, first half: complete_queue.add
Notify(t) ==
    LET to == Head(t.tcbs).req[1]
    IN  app' = [app EXCEPT ![to].complete = @ \o Group(t)]

Notified(t) == [t EXCEPT !.pc = "notified", !.to = Head(t.tcbs).req[1], !.tcbs = Ungrouped(t)]

NotifyByIO(d) ==
    /\ io[d].pc = "notify"
    /\ Notify(io[d])
    /\ io' = [io EXCEPT ![d] = Notified(@)]
    /\ UNCHANGED <<file, rq, ct>>

\* second half: activate the thread of the instance
WakeByIO(d) ==
    LET t == [io[d] EXCEPT !.pc = "notify", !.to = None]
    IN  /\ io[d].pc = "notified"
        /\ app' = [app EXCEPT ![io[d].to].act = TRUE]
        /\ io' = [io EXCEPT ![d] = IF t.tcbs = <<>> THEN IOWaited(t) ELSE t]
        /\ UNCHANGED <<file, rq, ct>>

-----------------------------------------------------------------------------
(* The completion thread (aio_complete_thread::run).                       *)

\* run, when thread::wait returns: all entries of the queue
TakeTcbs ==
    /\ ct.pc = "wait" /\ ct.act
    /\ ct' = [ct EXCEPT !.act = FALSE, !.pc = IF ct.queue = <<>> THEN "wait" ELSE "notify",
                        !.queue = <<>>, !.tcbs = ct.queue, !.grouped = Len(ct.queue) >= GroupFrom]
    /\ UNCHANGED <<file, rq, app, io>>

NotifyByCT ==
    /\ ct.pc = "notify"
    /\ Notify(ct)
    /\ ct' = Notified(ct)
    /\ UNCHANGED <<file, rq, io>>

WakeByCT ==
    /\ ct.pc = "notified"
    /\ app' = [app EXCEPT ![ct.to].act = TRUE]
    /\ ct' = [ct EXCEPT !.pc = IF ct.tcbs = <<>> THEN "wait" ELSE "notify", !.to = None]
    /\ UNCHANGED <<file, rq, io>>

-----------------------------------------------------------------------------
\* The steps an application thread takes by itself, once it has called something.
AppStep(a) ==
    \/ CreateIO(a) \/ Flush(a) \/ ActivateIO(a) \/ TakeCompleted(a) \/ Callback(a) \/ Counted(a)
    \/ WakeApp(a) \/ Drain(a)

FileStep == Command \/ CommandActivate \/ Answered \/ Close

Waits(a) == \E mode \in Modes[a], num \in {1, MaxReqs[a]} : Wait4Complete(a, mode, num)

IOStep(d) ==
    \/ Run(d) \/ Round(d) \/ FetchAgain(d) \/ SubmitMore(d)
    \/ IOWait(d) \/ ActivateCT(d) \/ NotifyByIO(d) \/ WakeByIO(d)

CTStep == TakeTcbs \/ NotifyByCT \/ WakeByCT

Next ==
    \/ \E a \in App :
          \/ \E e \in Extents[a], sync \in BOOLEAN : Access(a, e[1], e[2], sync)
          \/ FlushRequest(a) \/ Waits(a) \/ Cleanup(a)
          \/ AppStep(a)
    \/ \E d \in Stripe : IOStep(d) \/ KernelDone(d)
    \/ CTStep \/ FileStep

Spec == Init /\ [][Next]_vars

\* Threads run on, the kernel finishes what was submitted, and an application waits for what it
\* has issued.
FairSpec ==
    /\ Spec
    /\ \A a \in App : WF_vars(AppStep(a) \/ Waits(a))
    /\ \A d \in Stripe : WF_vars(IOStep(d)) /\ WF_vars(KernelDone(d))
    /\ WF_vars(CTStep) /\ WF_vars(FileStep)

-----------------------------------------------------------------------------
(* Properties.                                                             *)

Part == {p \in [req : Req, off : 0 .. FilePages - 1, size : 1 .. StripeBlockSize] :
            BlockIdx(p.off) = BlockIdx(p.off + p.size - 1)}

\* Types; among them that a part stays inside a RAID block and that no more parts are with the
\* kernel than an I/O thread has slots.
TypeOK ==
    /\ \A r \in Req : /\ rq[r].state \in {"new", "issued", "done"}
                       /\ <<rq[r].off, rq[r].size>> \in Extents[r[1]] \cup {<<0, 0>>}
                       /\ rq[r].left \in 0 .. rq[r].size
    /\ \A a \in App :
          /\ app[a].pc \in {"none", "idle", "flush", "flushed", "take", "call", "wait", "drain",
                            "destroyed"}
          /\ app[a].ret \in {"idle", "take", "call"}
          /\ app[a].mode \in {"none", "wait", "select"}
          /\ app[a].disk \in Stripe /\ app[a].issued \in 0 .. MaxReqs[a] /\ app[a].completed \in Nat
          /\ \A d \in Stripe : ToSet(app[a].senders[d]) \subseteq Part
          /\ ToSet(app[a].complete) \subseteq Part /\ ToSet(app[a].calls) \subseteq Req
    /\ \A d \in Stripe :
          /\ io[d].pc \in {"comm", "fetch", "access", "iowait", "added", "notify", "notified", "wait"}
          /\ ToSet(io[d].queue \o io[d].local \o io[d].finished \o io[d].tcbs) \cup io[d].kernel \subseteq Part
          /\ io[d].open \in BOOLEAN
          /\ Busy(d) \in 0 .. AIODepth /\ io[d].to \in App \cup {None}
    /\ ct.pc \in {"notify", "notified", "wait"} /\ ct.to \in App \cup {None}
    /\ ToSet(ct.queue \o ct.tcbs) \subseteq Part /\ Len(ct.queue) <= CompleteSize

\* A thread that sleeps in thread::wait without having been activated has nothing to do, or the
\* thread that gave it something to do is about to activate it: no wake-up is lost.  An I/O thread
\* does not sleep while the kernel has requests of it, which nobody else would collect.
NobodySleepsOnWork ==
    /\ \A d \in Stripe : io[d].pc = "wait" =>
          /\ Busy(d) = 0
          /\ \/ io[d].act
             \/ io[d].queue = <<>> /\ io[d].comm = <<>>
             \/ file.pc = "commanded" /\ file.disk = d
             \/ \E a \in App : app[a].pc = "flushed" /\ app[a].disk = d
    /\ ct.pc = "wait" =>
          ct.act \/ ct.queue = <<>> \/ \E d \in Stripe : io[d].pc = "added"
    /\ \A a \in App : app[a].pc = "wait" =>
          app[a].act \/ app[a].complete = <<>> \/ ct.to = a \/ \E d \in Stripe : io[d].to = a

Place == [opt \in MappingOption |-> [i \in 0 .. FilePages - 1 |-> Map(opt, i)]]
Created == [opt \in MappingOption |-> SizePerDisk(opt, FilePages)]

\* Where the parts that are under way end up.  The I/O thread that was given a part owns the
\* physical file that map finds for it.  Whatever the mapping, the pages of a part follow each other
\* in one file (they are moved in one piece), they are inside the file as it was created
\* (get_size_per_disk), map2file and map agree on the file, and no other page of the SAFS file has
\* the same place.
PartsLandApart ==
    LET parts(d) == io[d].kernel \cup ToSet(io[d].queue \o io[d].local)
        under == UNION {PartPages(p) : p \in UNION {parts(d) : d \in Stripe}}
    IN  /\ \A d \in Stripe : \A p \in parts(d) : Place[Mapping][p.off].idx = d
        /\ \A opt \in MappingOption :
              /\ \A d \in Stripe : \A p \in parts(d) : \A i \in PartPages(p) :
                    Place[opt][i] = [idx |-> Map2File(opt, i), off |-> Place[opt][p.off].off + i - p.off]
              /\ \A i \in under : Place[opt][i].off < Created[opt][Place[opt][i].idx]
              /\ \A i \in under, j \in 0 .. FilePages - 1 : i # j => Place[opt][i] # Place[opt][j]

\* num_pending_ios ("the number of I/O requests pending in the I/O instance", io_interface.h) counts
\* the requests that were issued and not reported, and while callbacks run those of the batch too.
\* A thread whose count is zero lets go of the file, which is closed after the last one: the kernel
\* has requests of an I/O thread only while its file is open.
PendingIsExact ==
    /\ \A a \in App :
          Pending(a) = Cardinality({r \in Req : r[1] = a /\ rq[r].state = "issued"})
                       + app[a].batch - Len(app[a].calls)
    /\ \A d \in Stripe : io[d].kernel # {} => io[d].open

\* What the instances promise their users.
Service == INSTANCE DiskService WITH
    Request <- Req,
    Extent  <- {Pages(e[1], e[2]) : e \in UNION {Extents[a] : a \in App}},
    pages   <- [r \in Req |-> Pages(rq[r].off, rq[r].size)],
    moved   <- [r \in Req |-> rq[r].moved],
    state   <- [r \in Req |-> rq[r].state]

\* A request is reported once, after the kernel has moved each of its pages once.
ImplementsDiskService == Service!Spec

\* Again and again, and in the end for good, no request is outstanding: whoever waits is woken up
\* and finds what it waits for, and what callbacks issue is sent.
AllRequestsComplete == []<>(\A r \in Req : rq[r].state # "issued")
===============================================================================
