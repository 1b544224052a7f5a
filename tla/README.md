# GraphCache: a verification project

GraphCache is FlashGraph on top of SAFS, a user-space file system for arrays of
SSDs, with an adaptive page replacement policy (APR) added to the page cache of
SAFS. This directory holds TLA+ models of its core, the configurations with which
TLC checks them, and proofs checked by TLAPS.

| module | what it models | checked | proved |
|---|---|---|---|
| `PageProtocol` | what the page cache promises about the frames its users share | `page_protocol` | all its promises (`PageProtocolProofs`) |
| `GlobalCache` | `global_cached_io` of every thread over one hash cell, and the disk | four passing runs, two violations | all its invariants and that the application is told of a request once (`GlobalCacheInv`, `GlobalCacheProofs`, `GlobalCacheData`) |
| `APR` | the eviction policy of one hash cell | `apr` | its invariants but `GivesUpOnce` (`APRProofs`) |
| `DiskService` | what an asynchronous I/O instance promises its user | by `DiskIO` | implemented by `DiskIO` (`DiskIOProofs`) |
| `DiskIO` | the way of a request through `remote_io`, the I/O threads, the kernel and the completion thread | `disk_io` | all invariants, implements `DiskService` (`DiskIOProofs`) |
| `FileMapper` | the layout of a file over the disks, as functions | with `DiskIO` | one to one, in pieces, inside the files (`DiskIOProofs`) |
| `VertexLevels` | what the graph engine promises a vertex program | by `Engine` | - |
| `Engine` | the worker threads: levels, stealing, messages, barriers | `engine`, `engine_flush` | its invariants, and that it implements `VertexLevels` (`EngineProofs`) |
| `VertexQueue` | the active vertices of one worker: list or bitmap, scanned in two directions | `vqueue` | its invariants (`VertexQueueProofs`) |
| `Partitioner` | the assignment of vertices to workers, as functions on machine integers | with `VertexQueue` | that ids and local ids correspond (`VertexQueueProofs`) |
| `MC*` | instances and symmetry sets for the runs | | |

`GlobalCache` implements `PageProtocol`, `DiskIO` implements `DiskService`, `Engine`
implements `VertexLevels`. `DiskIO` is built on `FileMapper`, and `MCVertexQueue`
puts a queue on a partition of `Partitioner`. The layers meet at their abstractions:
`GlobalCache` uses the disk as `DiskService` promises it (requests inside a RAID block,
answered once, in any order), and `Engine` uses the queue of a worker as a set of
vertices, which is what `VertexQueue` shows it to be.

Run `tlc -config GCacheShared.cfg MCGlobalCache` and so on (`PROJECT.json` lists
module and configuration of each run), and `tlapm PageProtocolProofs.tla`,
likewise for the other seven modules of proofs.

## 1. Inventory

Each part with its state, its operations, what it shares with others, what is hard
about it and what makes it correct.

**Page frames** (`libsafs/cache.h`). `thread_safe_page`: identity (file, offset),
flag word (ready, I/O pending, dirty, old dirty, prepare write-back), reference
count, list of waiting requests, fields of the eviction policies. The cell's lock
guards the identity, the page's lock the flags and the list; the count is atomic.
*Hard*: who may change what while whose lock is held; flags read without the lock.
*Correct*: dirty and old dirty exclude each other; old data are never taken for the
new page's; a page in use keeps its identity; somebody answers every waiter.

**Hash cell** (`hash_cell`, `libsafs/associative_cache.cpp`). An array of frames, a
lock and a policy. `search(id, old_id)` returns the frame of a page with a
reference, evicting an unreferenced page on a miss and telling the caller whose
frame it was; `search(id)` only looks. *Correct*: a page is in one frame; only
unreferenced pages are evicted.

**APR policy** (`APR_eviction_policy`). In a sampled cell CLOCK and LIFO vote. State:
the two heads, the LIFO list, the stale marks of the frames, the virtual eviction
marks of the pages, a table of ghosts, a local score, the warm-up counter; shared by
all cells: the global score and the global policy that the other cells follow.
*Hard*: challenges begin and end in any order through six paths, and several of them
edit the same list and marks; scans pass over pages for four different reasons and
must end. *Correct*: the list names every frame; marks belong to ghosts; the policy
does not give up for ever; pages in use stay.

**Global cached I/O** (`libsafs/global_cached_private.cpp`). One instance per thread,
all sharing the cells. State: the request being processed, queues of user requests,
cached, pending and completed requests and of finished disk requests, counters for
throttling. Operations: `access`, `wait4complete`, `process_all_requests`,
`process_user_req`, `read`, `__read`, `__write`, `write_dirty_page`, the disk
completions, `handle_pending_requests`. *Hard*: a request of several pages is served
page by page by whoever completes the I/O; an evicted dirty page belongs to its new
owner and is still being written for the old one; requests can stop half-way. *Correct*:
references are neither leaked nor dropped twice; one I/O at a time per page; no
request stranded on a page, none completed twice or before all its pages; no write
lost; every request completes.

**Threads and queues** (`libsafs/thread.h`, `container.h`). `thread::wait` and
`activate` with a sticky flag; bounded and growing FIFO queues. *Correct*: no wake-up
is lost.

**Hash table** (`associative_cache`). Linear hashing: `expand`, `shrink`, rehashing of a
cell while searches run, retried by means of a sequence lock. `expand` is only called
when the table was made expandable, which no caller asks for, and `shrink` only for
another cache on the same memory manager; a unit test is their
only user. See section 6.

**Dirty page flusher** (`associative_flusher`, `dirty_page_flusher.h`). Off by default.
Queues cells with many dirty pages and writes them with low priority; a write-back can
be dropped at the disk when the page was evicted meanwhile.

**Partitioned cache** (`part_global_cached_private.cpp`). Per-node caches with messages
between threads of nodes.

**Disk I/O** (`remote_access.cpp`, `disk_read_thread.cpp`, `aio_private.cpp`, `wpaio.cpp`).
A `remote_io` instance per thread and file, with a buffer (sender) per disk, counters of
issued and completed requests and a completion queue; an I/O thread per disk with a
queue of requests, a queue of commands (open and close a file) and a fixed number of
slots in the kernel; a completion thread with a bounded queue. Operations: `access`,
`flush_requests`, `wait4complete` in two variants, `cleanup`, `run` of the two kinds of
threads, `notify_completion`. *Hard*: five pairs of a queue and a sleeping thread; a
request is cut at the RAID blocks and its parts come back through several threads; an
I/O thread out of slots has to complete I/O in the middle of a submission; the
completion queue overflows to the I/O thread. *Correct*: nobody sleeps on work; a page is
moved once, to the place the mapping gives it; a request is reported once, when all its
parts are back, to the thread that issued it; everything issued is reported.

**RAID mapping and files** (`file_mapper.h`, `RAID_config.h`, `native_file.h`,
`safs_file.cpp`). Three mappings from pages to disks, the sizes of the physical files;
directories of stripes. *Correct*: two pages never share a place, and every place is inside
the physical file.

**User-compute scheduling** (`comp_io_scheduler.h`). Requests made by computations.

**FlashGraph engine** (`flash-graph/graph_engine.cpp`, `worker_thread.cpp`,
`message_processor.cpp`, `load_balancer.cpp`, `steal_state.h`, `vertex_program.cpp`).
Workers process the active vertices of a level, steal from each other, send messages and
meet at barriers. *Hard*: a stolen vertex gets messages while it is away; a thief and the
owner agree by a guard that is toggled around the messages; the end of a level is
detected by counting; messages sit in buffers. *Correct*: every active vertex runs once per
level; every message is handled once and before its level ends; a vertex is not run while
its owner handles a message of it; the engine stops (see *Fairness* in section 4).

**Active vertices** (`worker_thread.h`, `scan_pointer.h`, `bitmap.h`). The next level's
vertices are collected in a list that turns into a bitmap; the queue of a level reads it
block by block, forwards or backwards, and hands out vertically partitioned vertices once
per part. *Correct*: everything active is handed out once, and the count is exact.

**Partitioner** (`partitioner.h`, `partitioner.cpp`). Ranges dealt out in stripes, or modulo.
*Hard*: unsigned subtraction that wraps around. *Correct*: vertices and (partition, local
id) correspond one to one.

**Graph index and construction, algorithms, matrix library, tools, daptrace** -
layout, numeric code, tracing and command lines; not protocol code.

## 2. Plan

The order follows how much depends on a part.

1. *(done)* `PageProtocol` and its proofs; `GlobalCache`, which implements it; `APR`.
2. *(done)* `Engine` under `VertexLevels`; `VertexQueue` and `Partitioner`, on which it rests.
3. *(done)* `DiskIO` under `DiskService`, with the mappings of `FileMapper`.
4. `VertexCompute`: the life of a vertex computation between the engine and the cache
   (requests made by computations, `comp_io_scheduler`).
5. The synchronous requests (`wait4req`), flush and `merge_reqs` in `GlobalCache`;
   `search(id)` for the flusher; the flusher's queue and discarded write-backs.
6. `GlobalScore`: `update_score`, the compare-and-swap and the decay, which is a plain
   load and store, by several sampled cells; what the followers see.
7. *(done)* Proofs of `Engine` and of its refinement of `VertexLevels`; of `FileMapper`; of the
   invariants of `DiskIO` and of its refinement of `DiskService`; of `VertexQueue` and the partitioners; of the invariants of
   `GlobalCache`, those about data included; of `APR`.
8. Proofs that are left: that the steps of `GlobalCache` are steps of `PageProtocol` (the
   invariants this rests on are proved); `GivesUpOnce` of `APR`.

## 3. The modules

### PageProtocol

Per frame: the page in it, the three data flags, the I/O on it (`none`, `read`,
`write`), the requests that hold a reference (a set in place of the count), those of
them that wait for its I/O, and the request that evicted dirty data from it and has not
yet started their write-back. The actions are the things that can happen to a page:
`Hit`, `Evict`, `Drop` (the policy invalidates clean pages it merely voted for),
`WriteBack`, `MergeWrite`, `StartRead`, `Wait`, `FinishRead`, `FinishWrite`, `Modify`,
`Release`.

### GlobalCache

One action is one critical section: a search under the cell's lock, a look at a page
under the page's lock, one page of a completion, a transfer of the disk. Between two
actions of a thread any other thread, and the disk, may step.

| code | model |
|---|---|
| `thread_safe_page` | `frame[f]`: `id`, `ready`, `pending`, `dirty`, `oldDirty`, `ref`, `reqs`; history: `dataOf` (whose bytes it holds) and `fresh` (they reflect all writes) |
| bytes on disk | `disk[p]`: the copy of `p` reflects all writes |
| `processing_req`, locals of `process_user_req` | `th[t].proc`, `nxt`, `cur`, `old`, `batch`, `out`, and `pc` |
| `user_requests`, `cached_requests`, `pending_requests`, `complete_queue`, `completed_disk_queue` | `que[t].user`, `cached`, `pend`, `comp`, `disk` |
| requests at the underlying I/O | `flight` |
| `original_io_request` (pages completed, pages kept for a computation) | `rq[r].done`, `held` |
| `_is_activated` | `th[t].act` |
| `search` | `SearchHit`, `SearchMiss`, `SearchNull` |
| `process_user_req` | `Classify`, `WriteDirtyPage`, `MergeForward`, `MergeBackward`, `WaitOldDirty`, `UseWrite`, `UseRead` |
| `read`, `__read`, `__write` | `FlushBatch`, `Read`, `Write` |
| `process_all_requests` and what it calls | `DiskCompletion`, `HandlePending`, `CachedReq`, `CompletedReq`, `NextPhase` |
| `access`, `process_user_reqs` | `Access`, `Return` |
| `wait4complete`, `thread::wait` | `Wait4Complete`, `Return`, `Wake` |
| the disk and `notify_completion` | `Serve` |

Abstractions. Data are two facts per copy (whose they are, whether they miss a write).
Any unreferenced frame may be the victim and any search may fail, so that every policy
is covered; with `Voter` the searches also do what a vote of APR does to the frame that
loses. A completion hands the waiting requests over when one disk request is done
instead of once per fetched batch, which only concerns the order in which requests for
different pages arrive in a queue. `process_user_reqs` retries an unfinished request
once per round and not twice. Requests of computations (`user_comp_requests`), synchronous
and flush requests and `merge_reqs` are left out. `access` has one request per call.

### APR

The policy of one cell, called under the cell's lock, so an eviction is one step,
computed on a record of the whole state (`Work`). Frames carry the page, whether it is
referenced, dirty, was hit, is a boundary page, which policy evicted it virtually, and
the two stale marks. `pol` has the leading policy, the heads, the warm-up and the LIFO
list. The four scans are one recursive function (`Scan`), whose step looks at the page of the
clock or at the next of the LIFO list (`PageAt`). They share `Visit`, which is the frame they
have in common: start again without avoiding anything when all pages were passed over, give
up at N references.

Abstractions. Only the sign of a score decides anything; a reward moves it towards the
winner, the decay (a factor of 0.7) keeps its sign, so after an eviction the lead may
go to any policy that won a challenge in it. For a following cell the global policy is
arbitrary at every eviction. `clock_head` is kept modulo N (the code reduces it on every
use). References and hits are Booleans. The reverse iterator of the LIFO list passes
through the end node of the list, which the code skips by comparing with the size, and
goes round. `global_ghost` has one entry per page of the file; a cell only ever touches
the pages that hash to it. `test_and_clear_clock` tests and clears the hits twice for a
page that is no ghost, so the second test decides; the model does what the code does.
Which cells are sampled is chosen initially, as the constructor of the table does.

### DiskIO, DiskService, FileMapper

`DiskService` is the promise: a request moves each of its pages once and is reported once
all of them are moved. `DiskIO` has a step for every access to state that two threads share.

| code | model |
|---|---|
| `remote_io_factory` and its open and close commands | `file`; `Command`, `CommandActivate`, `Answered`, `CreateIO`, `Close` |
| `io_request`, `remote_orig_io_request` | `rq[r]`: state, extent, `left` (pages not fetched), history: `moved` |
| application thread, `remote_io` (senders, completion queue, counters), locals of `wait4complete` | `app[a]`; `Access`, `FlushRequest`, `Flush`, `ActivateIO`, `Wait4Complete`, `TakeCompleted`, `Callback`, `Counted`, `WakeApp`, `Cleanup`, `Drain` |
| `disk_io_thread`, `async_io`, `aio_ctx` | `io[d]`; `Run`, `Round`, `FetchAgain`, `SubmitMore`, `IOWait`, `ActivateCT`, `NotifyByIO`, `WakeByIO` |
| Linux AIO (external) | `io[d].kernel`, `io[d].finished`; `KernelDone` |
| `aio_complete_thread` | `ct`; `TakeTcbs`, `NotifyByCT`, `WakeByCT` |

`thread::wait` and `activate` are one Boolean each, `act`: the flag stays set until its owner
takes it back. Filling a queue and activating its reader are separate steps everywhere.
Where an I/O thread or the completion thread wakes up, clearing the flag and emptying the
queue are one step, and so are fetching and submitting: apart they would only change when a
superfluous wake-up comes, or delay what the kernel is given.

Abstractions. Offsets are pages. A callback is called for one request at a time (the code
passes the unsplit requests of a batch together) and may issue one request. An application
destroys its instance when it has no requests pending; `cleanup` then finds nothing to
process or to flush. The flush counter of an I/O thread is left out, because flushing an
`async_io` does nothing. Disks are identified with their index in the stripe, and there is
one I/O thread per disk and one completion thread.

`ElementsAt` selects elements of a sequence by their positions: the code sorts parts by disk, by
receiver or by kind in loops over an array.

`FileMapper` has the three mappings and the sizes of the physical files, as functions of the
stripe size (a power of two, as `parameters.cpp` asserts), the number of disks and the
constants of the hash.

### Engine, VertexLevels

`VertexLevels` knows levels, vertices to do, running vertices, activations and mail, and
nothing of workers. `Engine` has a worker per partition; one action is one access to shared
state: the queue of a worker under its lock, a message queue, an atomic counter, the bitmap
of stolen vertices, the guard.

| code | model |
|---|---|
| `curr_activated_vertices`, `next_activated_vertices`, `process_vertex_buf`, vertices waiting for I/O | `curr`, `next`, `batch`, `pend` |
| `load_balancer` | `done`, `returning`, `victim`, `tries`; `StartSteal`, `Steal`, `ReturnVertices`, `ClearStolen` |
| `steal_state_t` | `marked`, `numStolen`, `numReturned`, `prepared`, `stealMode`, `guard`; `PrepareSteal`, `MarkStolen`, `WaitGuard`, `GuardMsgs`, `EnterStealMode`, `UnguardMsgs` |
| message senders of a `vertex_program` | `buf`, `ready`, `crashed`; `Send`, `SendFlush`, `FlushMsgs` |
| `message_processor` | `msgq`, `stolenMsgs`, `fetched`, `handling`; `TakeStolenMsgs`, `FetchMsgs`, `ProcessMsg`, `EndHandler` |
| `worker_thread::run`, `process_activated_vertices` | `FetchOwn`, `FetchNone`, `CountVertices`, `RunVertex`, `CompleteIO`, `LoopAgain`, `EndIteration` |
| `progress_first_level`, `progress_next_level` | `FirstLevel`, `Barrier1`, `EnterNextLevel`, `Barrier2`, `Stopped` |

Abstractions. A vertex program activates its neighbours, sends them messages, or sends them
messages with the flush flag (`Programs`); what it sends is sent when its computation
completes. The handlers of messages send nothing and `run_on_iteration_end` only activates,
although both are given the vertex program and could send; no algorithm of the repository does.
`notify_iteration_end` has no state of the engine, and neither has `notify_vertices`. Vertically
partitioned vertices, which a thief neither marks (`message_processor.cpp:238`) nor returns
(`load_balancer.cpp:112`), exist in `VertexQueue` only. Messages are a set. Memory is
sequentially consistent: the bits of stolen vertices are set by relaxed atomic operations
(`bitmap.h:282`), which order nothing else, and the code itself says "TODO I need a memory
barrier here", which x86 does not need, since its atomic read-modify-write is one. The serial mode (`use_serial_run`) is off by
default; both settings are checked.

### VertexQueue, Partitioner

The set for the next level and the queue of this level, with their pointers, as the code
has them; an operation is one step, since the queue has a lock. Histories record what was
activated, what is active and what was handed out. The order in which a scheduler sorts
vertices and its own queue are left out (section 4, observations). The ids that one refill reads
from several longs are sorted, in the code backward scans leave them sorted within a move only; no
property looks at the order. `Partitioner` keeps the
width of the unsigned integers (`Word`), because `get_part_end` subtracts below zero and
`min` and `max` compare as `long`.

## 4. Runs

All runs are exhaustive within their bounds. Interchangeable identities are declared as
such (`Symmetry`), except in liveness runs: threads, frames and requests in
`GlobalCache`, whose pages are numbers; frames, pages and requests in `PageProtocol`;
pages in `APR`, boundary pages among themselves, while its frames are numbers. Deadlock is
not checked in `GlobalCache`, `DiskIO` and `VertexQueue`, where the users may have done
everything they wanted; that nobody stops earlier is `AllRequestsComplete` and `NeverStuck`.

| run | bounds | shows |
|---|---|---|
| `page_protocol` | 2 frames, 3 pages, 3 requests | the promises of the protocol |
| `gcache_shared` | 2 threads, 2 frames, 2 pages, 3 one-page reads and writes | no stranded request, write-backs carry their page, no lost write |
| `gcache_span` | 2 threads, 2 frames, 3 pages in 2 RAID blocks, 2 writes or computations of up to 2 pages, throttle 1, large writes | reference and I/O accounting, the assertions on pages, completion once |
| `gcache_live` | 2 threads, 1 frame, 2 pages, 2 writes of up to 2 pages, throttle 1 | every request completes |
| `gcache_refines` | 2 threads, 1 frame, 2 pages, 2 writes or computations of up to 2 pages | implements `PageProtocol`, and so keeps what is proved of it |
| `apr` | 2 frames, 5 pages, one boundary page, writes | types, warm-up, list, ghosts and marks, pages in use, giving up is temporary |
| `disk_io` | 2 threads (one request in two RAID blocks; one request in one block, and another from its callback), 2 disks under RAID5 with 1 slot each, completion queue of 2, file of 10 pages | no lost wake-up, places of pages, pending counts, implements `DiskService`, every request is reported |
| `engine` | 2 workers, 3 vertices, 2 levels, 2 programs, both modes, up to 2 vertices in process | one vertex one thread, assertions, stolen bits, flushed senders, implements `VertexLevels`, the engine stops unless a thief spins for ever |
| `vqueue` | 5 local vertices, words of 2 bits, list limit 2, buffer 4, one vertex with 2 parts, both directions, 2 levels; all graphs of up to 20 vertices in 4 partitions of up to 5 | handed out once and counted exactly, never stuck, the set is what was activated, local ids are the partition's vertices |

Why the bounds are enough to be interesting. The races of the cache need two threads on
one frame and one page more than there are frames, so that a page is evicted, dirty,
fetched again and waited for; three requests let a third one arrive between eviction and
write-back. Two-page requests over one or two frames stop half-way. The throttle at one
request makes the queue of user requests fill. In APR at least two pages must be
outside the cell, or the only uncached page is always the ghost and no stale mark is
ever met by a scan: hence five pages for two frames. In `disk_io` all parts go to one disk,
so that its slot is used up, while the other one has only commands; three parts overflow the
completion queue, two of them make a group, and the pages lie in the second cycle of the
hash; `PartsLandApart` looks at all three mappings. The three vertices of `engine` let a
worker keep one vertex while another is stolen from it, and talk in both directions; the
graph with all edges v1 -> v2, v3; v2 -> v1; v3 -> v2 (2.7 million states) also passed for
safety and refinement. The
queue of `vqueue` has an odd last word, more vertices than fit into the buffer, and a list
that overflows with one and with many new vertices. It holds the local ids of every partition of
up to five vertices, so that `VerticesAreOwn` meets partitions that have a whole range, a part of
one or nothing in the last stripe; in the last case `get_part_end` and `get_part_size` wrap around.
`gcache_live` has writes only: a computation keeps the pages it has while it waits for more, and
one frame is then too few for ever (observations).

Fairness. *GlobalCache* (`FairSpec`): threads run on (weak fairness of their next step); an
application waits for its requests (`Wait4Complete`), as `cleanup` does, in a loop; the disk
answers (`Serve`). A search that can evict again and again eventually does (strong fairness
of `SearchMiss`): the policy may give up although a page is free, but then it has cleared
the marks that stopped it and succeeds at once when asked again, which is `GivesUpOnce` of
`APR`. *DiskIO* (`FairSpec`): every thread runs on, the kernel finishes what it was given, and
an application with pending requests waits for them. *Engine*: workers run on and meet at
barriers; every I/O completes (strong fairness of `CompleteIO`, since a worker looks at it
between other steps). A thief that spins on the guard of its victim
(`message_processor.cpp:258`) has weak fairness only: its load may fall on odd values for ever while
the victim toggles the guard, and nothing in the code makes it settle. `StopsUnlessSpinning`
therefore says that the engine stops, or that a thief spins for ever on a guard that is even
infinitely often. What it excludes is a thief that waits for a victim which stands still, and
every other way to stay behind; that the engine stops in any case is not true under this fairness.

Every property has a mutant (in `PROJECT.json`): a changed definition of the model, kept
next to the original, under which TLC finds the property violated.

### Statements of the code that do not hold

| run | statement | what happens |
|---|---|---|
| `gcache_voter` | `assert(!p->is_dirty())` before a read | in a voting cell both voters clear `data_ready` of their victim and one page stays; if it is dirty it is read over |
| `gcache_wrong_read` | "we need to first read the page" | the read before a partial write goes to the first page of the request, also for its last page |
| `engine_flush` | "All activation messages are the same. We can initialize the sender here." | a message with the flush flag ends the open activation message of the partition; the next activation there uses one that does not exist |

`NoLostWrite` talks of bytes written, `WriteBackCarriesItsPage` of locations; both are
checked with requests of one page and without votes, so that the first two rows do not
touch them. `ImplementsPageProtocol` is checked without votes. The `engine` run has no
program that both sends flush messages and activates.

### Observations without a run of their own

*Cache.* With `cache_large_write` (off by default) a ready page can have its write-back
pending, against the comment in `__write` ("If data is ready, there shouldn't be an IO
pending"), a page written to during such a write-back is marked clean, and the merged write
can take pages of the request that triggered it. The assertion in `write_dirty_page`
(`global_cached_private.cpp:1236`, "The writeback data should have no overlap with the original
request that triggered this writeback") fails in that case, and without large writes in three
more: a write of several pages evicts an earlier page of its own; the request ends exactly where
the page that is written back begins, since `has_overlap` (`io_request.h:792`) compares with `>=`;
and the page belongs to another file, since it compares offsets alone. `AssertionsHold` has the part
of it that holds, and on which the data depend: the write-back carries no data of the page the frame
was given to, merged pages included. A
page that is fetched again while the write-back of its evicted copy is outstanding can be
read before it is written: `NoLostWrite` leaves such pages out (variable `raced`). The
policies can give up while a page is free, against the message in `get_empty_page` ("all
pages in the cell were all referenced"). A computation that covers more pages of a cell than
it has frames waits for frames it holds (`global_cached_private.cpp:529`). The assertion that
an evicted page has another offset (`global_cached_private.cpp:1412`) fails for a page of
another file at the same offset, since only `search` compares file ids.
`test_and_clear_clock` tests and clears the hits of a page twice, the second test decides,
and so CLOCK gives no second chance.

*Disk I/O.* `remote_io::access` counts its requests before it validates them: one that is
rejected with an exception stays pending for ever. `remote_io::wait4complete` does not flush
in its loop, so a callback that issues a request can make it sleep for ever (setting
`Reissue` to `{"wait"}` shows it); `remote_io_select::wait4complete` does flush, but counts
the parts it has fetched and returns early for split requests. `aio_callback` ignores `res`:
a failed or short transfer is reported as complete; a partial `io_submit` is counted as
whole. `remote_comm::complete` signals a condition variable that the waiter may already have
deleted, and `notify_completion` activates through an instance whose user may already have
seen the completion. `cleanup` does not wait for I/O in flight. A low-priority request runs
into `assert(0)`.

*Engine.* `customized_vertex_queue::init` (with a vertex scheduler) reads a bitmap whose fetch
pointer nobody has set; nothing is fetched, and the assertions at `worker_thread.cpp:475` and
`:561` fail when all vertices are started or more than `MAX_ACTIVE_V` are activated. Neither
that queue nor `init(buf)` removes duplicates. `activate_vertex` in a message handler during
`enter_next_level` stays in the sender until the next level; no algorithm does that.

## 5. Proofs

The eight modules of proofs hold for every value of the constants that satisfies the named
assumptions of the models. Each inductive invariant was checked by TLC, as an invariant of
the instance of the run, before it was proved.

### PageProtocolProofs

For every set of frames, pages and requests, from the only assumption that `None` is neither
a page nor a request:

| theorem | states |
|---|---|
| `TypeCorrect` | `Spec => []TypeOK` |
| `FlagsExclude` | `Spec => []FlagProtocol` |
| `NoDuplicatePage` | `Spec => []OnePageOneFrame` |
| `NobodyStranded` | `Spec => []WaitersAnswered` |
| `ReadsAreSafe` | `Spec => []ReadsFillEmptyFrames` |
| `InUseKept` | `Spec => InUseNotEvicted` |

The inductive invariant `IInv` is the conjunction of the five state predicates. None of
the last four but `OnePageOneFrame` is inductive alone. `FlagProtocol` needs, for
`FinishRead`, that a read is only under way in a frame without old dirty data
(`ReadsFillEmptyFrames`), and that in turn needs, when a read starts, that dirty data
are ready. `WaitersAnswered` needs `FlagProtocol`: a user that has read or written the
page and leaves is not the evictor, because old data are not ready, and a dirty page
that is merged into a write-back holds no old data. `InitInv` and `InvStep` (one step per
action, after `TypeStep` for the types) give `Spec => []IInv`; the theorems follow, and
the action property from the invariant and the step.

### GlobalCacheInv, GlobalCacheProofs, GlobalCacheData

For every finite set of requests, every set of threads, frames, numbered pages and RAID blocks,
throttle and span of a request (`ConstantsAssumption`), with or without large writes and votes
where nothing else is said:

| theorem | states |
|---|---|
| `CacheInvariant` | `Spec => []IInv` |
| `CacheTypeOK` | `Spec => []TypeOK` |
| `CacheRefAccounting` | `Spec => []RefAccounting` |
| `CachePendingMeansOneIO` | `Spec => []PendingMeansOneIO` |
| `CacheNoStrandedRequest` | `Spec => []NoStrandedRequest` |
| `CacheCompletedOnce` | `Spec => CompletedOnce` |
| `CacheAssertionsHold` | without votes, `Spec => []AssertionsHold` |
| `CacheWriteBackCarries` | without votes, `Spec => []WriteBackCarriesItsPage` |
| `CacheReadsOwnPage` | without votes, `Spec /\ []OnePageWrites => []ReadsOwnPage` |
| `CacheNoLostWrite` | without votes and large writes, `Spec /\ []OnePageWrites => []NoLostWrite` |
| `CacheNoLostWriteOnePage` | without votes and large writes, requests of one page: `Spec => []NoLostWrite` |

The restrictions are those of the runs, and each is needed. With votes a dirty page can be
read over (`gcache_voter`). A write over a page boundary can read the wrong page
(`gcache_wrong_read`); `OnePageWrites` says that the application issues none, and
`CacheReadsOwnPage` that nothing else does that. With large writes a page written to during its
write-back is marked clean (section 4).

*Control and counts* (`GlobalCacheInv`, `GlobalCacheProofs`). A count of references cannot be
reasoned about step by step unless one knows what it counts. `Kind` names the places a request
can be with a frame: the page its thread looks at, the batch of a read, the queues of pending and
cached requests, the pages written to disk or read on its account, the list of the page, and the
pages kept for its computation. `IInv` says that a request is with a frame in one place
(`OnePlace`), that no disk request has a frame or a request twice or shares it with another
(`AccApart`, `IOApart`, `SingleWrites`), that a page is in one frame and a frame has one evictor
(`OneFrame`, `OneEvictor`), and, for every frame, that its count is the number of requests with it
plus one for a write under way (`CountedAt`), that the flags, the I/O and the list fit each other
(`FlagsAt`, `EvictorAt`), and what the places say about the request and the thread that has it
(`ControlAt`, `WorkingAt`, `QueuesAt`, `RepeatsAt`, `AccAt`, `RequestAt`). No part is inductive
alone: that a release finds a positive count needs that the request is counted; that it is counted
once needs that it is in one place; that it is in one place needs the progress of the request,
because a request looks at its pages in order and meets a frame again only when it has left it.
The proof has a lemma per action for where requests move (`Moved` from one place to another),
and lemmas that turn a move into the change of the count. The entries of a queue are compared by
position, and what a completion appends to the queues of several threads (`ForThread`) is
defined by rank, so that its lemmas need no induction over a sequence.

`CompletedOnce` looks at the moments the application is told of a request (`Notified`: it leaves
the queue of completed or of cached requests) and not at a mark of the request, so that a second
call would be seen. It follows from `IInv` with one argument per action: a request is in a queue of
completed requests once, and in no other place then, and a step takes one entry off it
(`MetOnce`, `OneCompleted`).

*Data* (`GlobalCacheData`). Here a step is described by its kind: nothing happens to bytes
(`Quiet`), a page is written to (`WroteTo`), a frame gets a new page (`Takes`), a request to the
disk is built (`Begins`), a page of a completed one is looked at (`PageDone`), the disk transfers
(`Serves`); `StepKinds` says that every step is one of them. `DataInv` then says whose bytes a
frame has: its page's when dirty, its former page's when old dirty, and a write under way has the
page it is addressed to. `OwnInv` says that a read that is built, sent or answered is for
the page of its frame. `LostInv` says which copy reflects all writes: the disk's, or that of one
frame with dirty or old dirty data (`Reflected`); ready data do (`ReadyFresh`), and so does what a
read will deliver unless the page is in `raced` (`ReadsFill`, `OldRaced`, `OldFresh`); a write
that the disk has carried out has left the disk up to date (`WritesDone`).

`AssertionsHold` is proved here because its last two parts are about pages: that a frame was given
to another page than the one it is written back for, and that merging does not reach the new page.
`ClearInv` is their invariant: the former page of a frame with old dirty data is another than its
page (`OldElsewhere`), and a thread that merges has not collected the page it merges for (`Clear`),
because that page is in one frame only, the one that the write has with its former data.

### EngineProofs

For every number of workers, finite set of vertices, assignment of vertices to workers, set of
programs and limit on levels and vertices in process (`OwnerAssumption`,
`VertexAssumption` and the other assumptions of `Engine`):

| theorem | states |
|---|---|
| `EngineInvariant` | `Spec => []IInv` |
| `EngineTypeOK` | `Spec => []TypeOK` |
| `EngineSerialExecution` | `Spec => []SerialExecution` |
| `EngineStolenAreAway` | `Spec => []StolenAreAway` |
| `EngineSendersFlushed` | `Spec => []SendersFlushed` |
| `EngineAssertionsHold` | `Spec => []AssertionsHold` |

None of these is inductive: a worker that switches must know that nobody else is still
running vertices, which the code knows only from counters. `IInv` says what the counters
count. `Phases` keeps all workers on the same side of the barriers; `Mail` says where a
message can be in which phase; `Places` that a vertex is at one worker at most and in one of
its stages; `Counters` that `remaining` is the number of vertices nobody has counted,
`arrived` and `total` those of the workers at the barrier, and that the difference of
`numStolen` and `numReturned` is the number of vertices of a worker that thieves have.
`Theft` is the handshake: an owner that handles messages without looking at the bitmap has
its guard odd, and then nobody runs vertices of it, because a thief announces itself before
it looks at the guard (`Guards`); a message kept for a stolen vertex belongs to a vertex that
was taken in this level, and is tried again before the level ends (`Keeps`). Every part
needs the others, so each has a lemma per action that assumes all of them.

The last part of the module is the refinement:
`EngineImplementsLevels == Spec => ImplementsVertexLevels`: the mapping in `Engine` takes the
vertices nobody has taken, those in process, the activations, queued or on the way, and the
messages that are not handled out of the state of the workers. Every action of a worker is
one action of `VertexLevels` (a vertex is taken, completes, a message is handled, the level
ends) or a stuttering step. Two more invariants are needed: a message with a body is in one
place (`Unique`), and it is from a vertex that has been processed in this level
(`Sources`), so that it cannot be sent again while it is under way and be counted once.
Fairness is not part of the theorem; the temporal part of the promise is
`StopsUnlessSpinning`, which TLC checks.

### DiskIOProofs

The first part is about the layout (`FileMapper`). For every number of disks and block size, every mapping, and constants of the hash that
permute the blocks of a cycle (`HashAssumption`; the code has 31 and the prime 191):

| theorem | states |
|---|---|
| `MapFindsTheFile` | `map` and `map2file` agree, and the file is one of the stripe |
| `BlockInOnePiece` | the pages of a RAID block follow each other in one physical file |
| `PagesApart` | two pages never have the same place |
| `PagesFit` | every page of a file of any size is inside the physical file that `get_size_per_disk` asks for |

A page is a block and a rest, and so is its place (`PlaceForm`); so the theorems are about blocks
and rows. RAID0 and RAID5 are the division of a block number by the number of disks, RAID5
turned by the row. The hash puts a cycle of blocks below the next one and orders it by the
permutation. `PagesFit` needs that `get_size_per_disk` looks far enough back: for every
block there is one among the last two stripes (or the last cycle) that lies in the same file
and not above it (`BlockAbove`), and the largest end decides.

The second part is about the threads. For every number of threads, disks, slots and requests, sizes of the queue and of the file,
extents inside the file, and threads that wait in either of the two ways (`DiskIOAssumption`):

| theorem | states |
|---|---|
| `DiskIOInvariant` | `Spec => []IInv` |
| `DiskIONobodySleepsOnWork` | `Spec => []NobodySleepsOnWork` |
| `DiskIOPartsLandApart` | `Spec => []PartsLandApart` |
| `DiskIOBooks` | `Spec => []Books` |
| `DiskIOTypeOK` | `Spec => []TypeOK` |
| `DiskIOPendingIsExact` | `Spec => []PendingIsExact` |
| `DiskIOImplementsService` | `Spec => ImplementsDiskService` |

`NobodySleepsOnWork` speaks of sleeping threads only and is not inductive, because a thread
falls asleep in a step that does not look at its queue again. `IInv` says of every queue,
whatever its reader does, that its reader is active, or will look at it, or that somebody
is about to activate the reader (`CommandsSeen`, `QueuesSeen`, `TcbsSeen`,
`CompletionsSeen`). For the application "will look" is `Looks`: it is on its way to
`process_all_completed_requests`, perhaps after a flush. That an I/O thread does not sleep on
requests in the kernel is `SlotsOK`, which counts slots exactly as `async_io` does: the
events it has collected keep theirs until they are handed over. `DiskIOInvariant` therefore
also says that the kernel has at most `AIO_DEPTH` requests of a thread. `HandsOK` is what lets
a receiver rely on being woken up: whoever has added parts to a queue remembers the receiver
until it has activated it. The places follow from `SplitType` (a part stays in a RAID block
and in the file), from senders and queues having parts of their own disk only, and from the
theorems about `FileMapper`.

The last part is about the accounting. None of `left`, `num_pending_ios` and the pages that were
moved says by itself why it is right: `left` is a sum over parts that come back in any order,
through two queues and in groups. `Books` is the invariant in which they are connected. A part
that is under way is in one of nine places (the buffers of a sender, the queue and the local
list of an I/O thread, the kernel, ... the completion queue of its issuer; `Boxes`), in no two of
them (`Disjoint`) and once there (`Single`), and parts of a request have no page in common
(`Apart`). Then `left` is the number of pages of the parts under way, and `moved` is all pages but
those of the parts in the first four places (`RqBook`); a thread has issued as many more requests
than it has counted as complete as are open, apart from those in the batch it is reporting
(`CountBook`); and an instance exists only while every I/O thread has the file open (`FileApp`,
`FileIO`). Most steps move parts from one place to one or two others, which leaves the sets
`Under` and `Early` as they are (`Moved`); only four do not: `Access` and a callback that issues
add the parts of a new request (`SplitParts`: they cover it, each page once), `KernelDone` makes a
part late, and `TakeCompleted` takes parts away. There `DoneRequests` shows that
`process_completed_requests` reports a request exactly when its last part is fetched, and once,
although a request in one part is recognised by its extent and a split one by a sum. That the sum
(`PagesOf`, a recursive function) is the number of pages is `PagesSum`, by induction over a set of
numbers (`SetInduction`), which the provers can instantiate.

`PendingIsExact` follows at once, since a part with the kernel belongs to an open request, whose
thread has an instance. For `ImplementsDiskService`, `Access` is `Issue`, `KernelDone` is
`Transfer` of pages that were not moved yet, a callback is `Report` or `ReportAndIssue`, and every
other step leaves `pages`, `moved` and `state` of the service alone (`ServiceStep`).

### APRProofs

For every number of frames, every set of pages and of boundary pages, with or without dirty
pages (`ConstantsAssumption`):

| theorem | states |
|---|---|
| `APRInvariant` | `Spec => []IInv` |
| `APRTypeOK` | `Spec => []TypeOK` |
| `APRLifoListComplete` | `Spec => []LifoListComplete` |
| `APRWarmUpFillsCell` | `Spec => []WarmUpFillsCell` |
| `APRGhostsAreEvicted` | `Spec => []GhostsAreEvicted` |
| `APRInUseNotEvicted` | `Spec => InUseNotEvicted` |

`GhostsAreEvicted` is not inductive: a page that is evicted becomes a ghost, and it is not
cached any more only because no second frame had it (`OneFrame`). A following cell takes a page
without looking at the ghosts, so it must have none (`FollowersHaveNone`), and during the warm-up
there must be none either, and the frames must be filled in their order, or the next free frame
would not be free (`WarmUpOrder`).

An eviction is a long computation on a working state. `Fine(s, v, p)` is what holds of that
state at every point of it (types, the LIFO list, the pages apart, the marks), when the frame `v`
is being given to the page `p`; `Same` says that frames keep their pages and references; `Kept`
is what one visit of a scan preserves, and `Found` that a victim is not referenced. There is one
lemma for every operator that changes the state, and one for a step of a scan. A scan is a recursive
function over the number of its steps: that the function exists and that what every step preserves
holds at its end is proved by induction (`AfterExists`, `ScanKept`).

The library's induction theorems take a predicate as a parameter, which the provers cannot
instantiate. `SetInduction` has a set in its place: it follows from `WFMin`, which says that a set of
natural numbers that is not empty has a least element.

### VertexQueueProofs

For every size of the partition, of the list (`MAX_ACTIVE_V`), of the buffer and of a long of the
bitmap, every set of vertically partitioned vertices and number of parts (`SizesAssumption`), and
for every size of a range, number of partitions and number of vertices whose double fits in
the unsigned integers (`PartitionerAssumption`):

| theorem | states |
|---|---|
| `QueueInvariant` | `Spec => []IInv` |
| `QueueTypeOK` | `Spec => []TypeOK` |
| `QueueFetchedOnce` | `Spec => []FetchedOnce` |
| `QueueNeverStuck` | `Spec => []NeverStuck` |
| `QueueSetIsActivated` | `Spec => []SetIsActivated` |
| `QueueVerticesAreOwn` | `Spec => []VerticesAreOwn` |

`FetchedOnce` compares the histories with a counter and says nothing about the contents of the
queue. `Left(q)` is those contents: what is ahead of the pointer in the buffer, what the set still
holds, and the parts of partitioned vertices that have not been started. `QueueOK` says that these
three do not overlap, that the buffer and the list have no duplicates, and that a bit that is set
lies ahead of the pointer of the bitmap, so that a scan in either direction that has reached its
end has read all of it; `LeftIsRest` that they are what is active and was not handed out. The
counter is then the number of elements of `Left(q)` (`CountOfLeft`), from which `NeverStuck`
follows: a fetch with something left returns something (`FetchStep`), because a refill moves
the pointer until it has found a bit. `Sorted`, the order of the ids in a long, is defined by
rank and its lemma (`SortedSeq`) by counting, without induction.

An id is a stripe, a partition and a place in the range (`RangeForm`, `RangeIds`), and comparing
ids is comparing these (`LexLess`). `get_part_end` and `get_part_size` subtract below zero when a
partition has nothing in the last stripe; `WrapsBack` says when an unsigned difference read as a
`long` is the difference, and `RangeEnd` and `RangeOwn` that the result is right although
`get_part_end` is then an id of another partition. The theorem follows since the local ids of a
worker are those below its partition's size.

### Only model-checked

Liveness (`AllRequestsComplete` of both components, `StopsUnlessSpinning`) is out of the reach of the
prover. `GivesUpOnce` of `APR`
counts the references and the pages passed over in up to two rounds of two searches of a cell.
That `GlobalCache` implements `PageProtocol` is model-checked; the invariants it rests on are proved.

## 6. Not modelled

The other eviction policies (any victim is allowed in their place), the flusher, the
partitioned cache, synchronous requests, the requests that computations make and the global
score are planned. The queue of a vertex scheduler is described above.

The growth of the hash table is not modelled because no state of the program reaches it:
`expandable` is false in every call, and memory is taken back only for a second cache on the
same memory manager. Reading it gave three more observations: `shrink` computes the arrays
to destroy from the level it has just decremented and never merges cell 0; with the default
`SA_min_cell_size` a split always fails, and the assertion in `merge` could not hold; `expand`
returns the pages it did not use.

File system calls (`native_file`, `safs_file`), memory management, the in-memory I/O, numeric
libraries, graph algorithms, the construction of graphs and tools are outside the protocols
this project is about: sequential code over files, arrays and matrices whose state no other
component changes. Most of the repository's lines are of this kind.

The flag word of a page is modelled as separate flags; that `set_flag` is a plain read and
write of the whole word is listed as a hazard. Counts that could overflow (the reference count
is a `short`) are unbounded.
