----------------------------- MODULE PageProtocol -----------------------------
(***************************************************************************)
(* What the page cache promises about the frames its I/O instances share:  *)
(* the life of a thread_safe_page (libsafs/cache.h) between the searches   *)
(* of a hash cell, the reads and write-backs of its data and the requests  *)
(* that use it.  References are the set of requests that hold one, and the *)
(* requests waiting for the I/O on a page are a set; GlobalCache implements*)
(* this with counts, lists, queues and locks.                              *)
(***************************************************************************)

CONSTANTS Frame, Page, Req, None

ASSUME NoneAssumption == None \notin Page \cup Req

VARIABLES
    id,        \* the page in each frame
    ready,     \* its data can be used
    dirty,     \* its data are newer than the disk
    oldDirty,  \* the frame still holds dirty data of the page evicted from it
    io,        \* the I/O on the frame
    users,     \* the requests that hold a reference to the frame
    waiting,   \* the users that wait for its I/O
    evictor    \* the user that has to start the write-back of the old data

vars == <<id, ready, dirty, oldDirty, io, users, waiting, evictor>>

Init ==
    /\ id = [f \in Frame |-> None]
    /\ ready = [f \in Frame |-> FALSE]
    /\ dirty = [f \in Frame |-> FALSE]
    /\ oldDirty = [f \in Frame |-> FALSE]
    /\ io = [f \in Frame |-> "none"]
    /\ users = [f \in Frame |-> {}]
    /\ waiting = [f \in Frame |-> {}]
    /\ evictor = [f \in Frame |-> None]

\* A request finds its page in the cache.
Hit(r, f) ==
    /\ id[f] # None /\ r \notin users[f]
    /\ users' = [users EXCEPT ![f] = @ \cup {r}]
    /\ UNCHANGED <<id, ready, dirty, oldDirty, io, waiting, evictor>>

\* Mutant: a reference does not protect the page.
UnusedByIO(f) == io[f] = "none"
Unused(f) == users[f] = {} /\ io[f] = "none"

\* Mutant: only pages with valid data are found.
NotReadyAnywhere(p) == \A g \in Frame : ready[g] => id[g] # p
NotCached(p) == \A g \in Frame : id[g] # p

\* Mutant: the dirty flag goes over to the new page.
StaysDirty(f) == dirty[f]
DirtyAfter(f) == dirty[f] /\ oldDirty[f]

\* Mutant: the page is remembered where the request is meant.
EvictedPage(r, f) == IF oldDirty[f] \/ dirty[f] THEN id[f] ELSE None
EvictorAfter(r, f) == IF oldDirty[f] \/ dirty[f] THEN r ELSE None

\* A search may drop the clean data of pages nobody uses (the APR policy does).
Droppable(D) == \A g \in D : Unused(g) /\ ~dirty[g]
Drop(D) ==
    /\ Droppable(D)
    /\ ready' = [g \in Frame |-> ready[g] /\ g \notin D]
    /\ UNCHANGED <<id, dirty, oldDirty, io, users, waiting, evictor>>

\* A request misses and takes a frame nobody uses; dirty data stay in it.
Evict(r, f, p, D) ==
    /\ Unused(f) /\ NotCached(p) /\ Droppable(D)
    /\ id' = [id EXCEPT ![f] = p]
    /\ ready' = [g \in Frame |-> ready[g] /\ g # f /\ g \notin D]
    /\ oldDirty' = [oldDirty EXCEPT ![f] = @ \/ dirty[f]]
    /\ dirty' = [dirty EXCEPT ![f] = DirtyAfter(f)]
    /\ users' = [users EXCEPT ![f] = {r}]
    /\ evictor' = [evictor EXCEPT ![f] = EvictorAfter(r, f)]
    /\ UNCHANGED <<io, waiting>>

\* The old dirty data are written back before the frame is used, by the request
\* that evicted them: "only one thread can evict the dirty page and the thread
\* gets its old offset" (process_user_req).
WriteBack(r, f) ==
    /\ r = evictor[f]
    /\ evictor' = [evictor EXCEPT ![f] = None]
    /\ io' = [io EXCEPT ![f] = "write"]
    /\ waiting' = [waiting EXCEPT ![f] = @ \cup {r}]
    /\ UNCHANGED <<id, ready, dirty, oldDirty, users>>

\* A dirty page joins the write-back of an adjacent one.
MergeWrite(f) ==
    /\ dirty[f] /\ io[f] = "none"
    /\ io' = [io EXCEPT ![f] = "write"]
    /\ UNCHANGED <<id, ready, dirty, oldDirty, users, waiting, evictor>>

\* Mutant: the page is read over the old data.
MayReadOver(f) == ~ready[f] /\ io[f] = "none"
MayRead(f) == ~ready[f] /\ ~oldDirty[f] /\ io[f] = "none"

\* The page is read for a request.
StartRead(r, f) ==
    /\ r \in users[f] /\ r \notin waiting[f]
    /\ MayRead(f)
    /\ io' = [io EXCEPT ![f] = "read"]
    /\ waiting' = [waiting EXCEPT ![f] = @ \cup {r}]
    /\ UNCHANGED <<id, ready, dirty, oldDirty, users, evictor>>

\* Mutant: the flags are not read again under the lock of the page.
MayWaitAnyway(f) == ~ready[f]
MayWait(f) == oldDirty[f] \/ (~ready[f] /\ io[f] # "none")

\* A request waits for the I/O on its page, or for the write-back to come.
Wait(r, f) ==
    /\ r \in users[f] /\ r \notin waiting[f]
    /\ MayWait(f)
    /\ r # evictor[f]
    /\ waiting' = [waiting EXCEPT ![f] = @ \cup {r}]
    /\ UNCHANGED <<id, ready, dirty, oldDirty, io, users, evictor>>

FinishRead(f) ==
    /\ io[f] = "read"
    /\ io' = [io EXCEPT ![f] = "none"]
    /\ ready' = [ready EXCEPT ![f] = TRUE]
    /\ waiting' = [waiting EXCEPT ![f] = {}]
    /\ UNCHANGED <<id, dirty, oldDirty, users, evictor>>

FinishWrite(f) ==
    /\ io[f] = "write"
    /\ io' = [io EXCEPT ![f] = "none"]
    /\ dirty' = [dirty EXCEPT ![f] = FALSE]
    /\ oldDirty' = [oldDirty EXCEPT ![f] = FALSE]
    /\ waiting' = [waiting EXCEPT ![f] = {}]
    /\ UNCHANGED <<id, ready, users, evictor>>

\* A write is copied into the page: the data are there, or the write covers
\* the whole page and nothing else happens to it.
Modify(r, f) ==
    /\ r \in users[f] /\ r \notin waiting[f]
    /\ ready[f] \/ (~oldDirty[f] /\ io[f] = "none")
    /\ ready' = [ready EXCEPT ![f] = TRUE]
    /\ dirty' = [dirty EXCEPT ![f] = TRUE]
    /\ users' = [users EXCEPT ![f] = @ \ {r}]
    /\ UNCHANGED <<id, oldDirty, io, waiting, evictor>>

\* A request has read the pages in S and gives them back.
Release(r, S) ==
    /\ \A f \in S : r \in users[f] /\ r \notin waiting[f] /\ ready[f]
    /\ users' = [f \in Frame |-> IF f \in S THEN users[f] \ {r} ELSE users[f]]
    /\ UNCHANGED <<id, ready, dirty, oldDirty, io, waiting, evictor>>

Next ==
    \/ \E r \in Req, f \in Frame :
         \/ Hit(r, f) \/ WriteBack(r, f) \/ StartRead(r, f) \/ Wait(r, f) \/ Modify(r, f)
         \/ \E p \in Page, D \in SUBSET Frame : Evict(r, f, p, D)
    \/ \E f \in Frame : MergeWrite(f) \/ FinishRead(f) \/ FinishWrite(f)
    \/ \E r \in Req, S \in SUBSET Frame : Release(r, S)
    \/ \E D \in SUBSET Frame : Drop(D)

Spec == Init /\ [][Next]_vars

-----------------------------------------------------------------------------
\* Type invariant.
TypeOK ==
    /\ id \in [Frame -> Page \cup {None}]
    /\ ready \in [Frame -> BOOLEAN]
    /\ dirty \in [Frame -> BOOLEAN]
    /\ oldDirty \in [Frame -> BOOLEAN]
    /\ io \in [Frame -> {"none", "read", "write"}]
    /\ users \in [Frame -> SUBSET Req]
    /\ waiting \in [Frame -> SUBSET Req]
    /\ evictor \in [Frame -> Req \cup {None}]

\* "The two bits exclude each other" (cache.h); data of the old page are never
\* taken for the new one's, and only data that are there are dirty.
FlagProtocol ==
    \A f \in Frame :
        /\ ~(dirty[f] /\ oldDirty[f])
        /\ oldDirty[f] => ~ready[f]
        /\ dirty[f] => ready[f]

\* A page is in at most one frame (hash_cell::search).
OnePageOneFrame ==
    \A f, g \in Frame : id[f] = id[g] /\ id[f] # None => f = g

\* A request that waits for a page holds it, and somebody will answer: an I/O
\* is under way, or the write-back of the old data is still to be started by the
\* request that evicted them, which uses the page and does not wait itself.
WaitersAnswered ==
    \A f \in Frame :
        /\ waiting[f] \subseteq users[f]
        /\ waiting[f] # {} => io[f] # "none" \/ evictor[f] # None
        /\ evictor[f] # None <=> oldDirty[f] /\ io[f] = "none"
        /\ evictor[f] # None => evictor[f] \in users[f] \ waiting[f]

\* The data of a page are never read from disk over data that are in use or
\* still to be written: a read only fills a frame without valid data, and old
\* dirty data are only ever written.
ReadsFillEmptyFrames ==
    \A f \in Frame : io[f] = "read" => ~ready[f] /\ ~dirty[f] /\ ~oldDirty[f] /\ users[f] # {}

\* A frame with users, or with I/O under way, keeps its page, and data that a
\* user found ready stay ready (process_user_req reads the flags unlocked and
\* relies on it).
InUseNotEvicted ==
    [][\A f \in Frame : users[f] # {} \/ io[f] # "none" =>
          /\ id'[f] = id[f]
          /\ ready[f] => ready'[f]]_vars

================================================================================
