---------------------------------- MODULE APR ----------------------------------
(***************************************************************************)
(* The adaptive page replacement policy of one hash cell                   *)
(* (APR_eviction_policy in libsafs/associative_cache.cpp), called with the *)
(* lock of the cell held.  A sampled cell lets CLOCK and LIFO vote: the    *)
(* victim of the leading policy is evicted and becomes a ghost, the victim *)
(* of the other is only marked, and what happens to both later rewards one *)
(* of the policies.  Any other cell follows the global policy.  Which      *)
(* cells are sampled is decided when the table is built (notify_sample).   *)
(*                                                                         *)
(* Of the scores only the sign decides anything: a reward moves it towards *)
(* the winner and the decay keeps it.  Times are left out with the rewards.*)
(***************************************************************************)
EXTENDS Integers, Sequences, FiniteSets, SequencesExt

CONSTANTS
    N,          \* buf.get_num_pages(), the pages of the cell
    Page,       \* the pages of the file that hash to the cell
    Boundary,   \* the pages page_info calls boundary pages
    Writes,     \* whether pages are written to
    None

ASSUME ConstantsAssumption ==
    /\ N \in Nat \ {0} /\ Boundary \subseteq Page
    /\ Writes \in BOOLEAN /\ None \notin Page \cup (0 .. N - 1)
    /\ None \notin [policy : {"CLOCK", "LIFO"}, idx : 0 .. N - 1]

VARIABLES
    pg,      \* the frames: thread_safe_page, and the stale flags of its index
    ghost,   \* global_ghost: None, or the policy and the frame of the eviction
    pol      \* the other fields of the policy

vars == <<pg, ghost, pol>>

Frame == 0 .. N - 1
Policy == {"CLOCK", "LIFO"}
Other(w) == IF w = "CLOCK" THEN "LIFO" ELSE "CLOCK"

\* A frame: `evicted' is the policy that evicted its page virtually;
\* `lifoStale' (`clockStale') says that CLOCK (LIFO) evicted a page from it.
NewPage == [id |-> None, ref |-> FALSE, dirty |-> FALSE, hits |-> FALSE, boundary |-> FALSE,
            evicted |-> None, lifoStale |-> FALSE, clockStale |-> FALSE]

Init ==
    /\ pg = [f \in Frame |-> NewPage]
    /\ ghost = [p \in Page |-> None]
    /\ \E s \in BOOLEAN :
          pol = [sample |-> s, lead |-> "LIFO", warm |-> TRUE, entries |-> 0, clock |-> 0,
                 lifo |-> 0, lt |-> [i \in 1 .. N |-> i - 1]]

-----------------------------------------------------------------------------
(* The state an eviction works on: the three variables, the policies that won *)
(* a challenge in it, and the counts of the scan under way.                   *)

Cell == [pg |-> pg, ghost |-> ghost, pol |-> pol]

Work(cell, lead) ==
    [pg |-> cell.pg, ghost |-> cell.ghost, pol |-> [cell.pol EXCEPT !.lead = lead], wins |-> {},
     nref |-> 0, skipped |-> 0, avoid |-> TRUE, stop |-> FALSE, victim |-> None]

EndChallenge(s, winner) == [s EXCEPT !.wins = @ \cup {winner}]

\* The ghost of the page in frame f is forgotten.
ForgetGhost(s, f) ==
    [s EXCEPT !.ghost = [p \in Page |-> IF p = s.pg[f].id THEN None ELSE @[p]]]

RefreshChal(s, f) ==
    ForgetGhost([s EXCEPT !.pg[f].clockStale = FALSE, !.pg[f].lifoStale = FALSE,
                          !.pg[f].evicted = None], f)

\* Mutant: the entry is not erased from its old place.
AddToBack(lt, i) == Append(lt, i)
\* The list without the entry of frame i (it has one, see LifoListComplete).
Erase(lt, i) == RemoveAt(lt, CHOOSE k \in DOMAIN lt : lt[k] = i)
MoveToBack(lt, i) == Append(Erase(lt, i), i)
UpdateLifoList(s, i) == IF i \in Frame THEN [s EXCEPT !.pol.lt = MoveToBack(@, i)] ELSE s

StartChallenge(s, f, by) ==
    [s EXCEPT !.pg[f].evicted = by,
              !.pol.lt = IF by = "LIFO" THEN <<s.pol.lifo>> \o Erase(@, s.pol.lifo) ELSE @]

\* pevict_page and reg_ghost: the page in f is evicted by the leading policy.
PEvict(s, f) ==
    LET lead == s.pol.lead
        reg  == [s EXCEPT !.pg[f].evicted = None,
                          !.ghost = [p \in Page |-> IF p = s.pg[f].id
                                                    THEN [policy |-> lead, idx |-> f] ELSE @[p]]]
    IN  IF lead = "CLOCK" THEN [reg EXCEPT !.pg[f].lifoStale = TRUE]
        ELSE UpdateLifoList([reg EXCEPT !.pg[f].clockStale = TRUE], f)

\* Mutant: the stale mark of the frame stays.
MarkStays(s, p) ==
    IF s.ghost[p] = None THEN s
    ELSE EndChallenge([s EXCEPT !.ghost[p] = None], Other(s.ghost[p].policy))
\* eval_challenge(offset): a ghost is accessed again, so the policy that evicted
\* it loses.
EvalChallenge(s, p) ==
    LET g == s.ghost[p]
        w == EndChallenge([s EXCEPT !.ghost[p] = None], Other(g.policy))
    IN  IF g = None THEN s
        ELSE IF g.policy = "LIFO" THEN [w EXCEPT !.pg[g.idx].clockStale = FALSE]
        ELSE [w EXCEPT !.pg[g.idx].lifoStale = FALSE]

-----------------------------------------------------------------------------
(* Scans.  All four have the same frame: when every page was skipped the scan *)
(* starts again without avoiding any, N referenced pages end it, and dirty    *)
(* (for LIFO also boundary) pages are avoided at first.                       *)

\* Mutant: the second round avoids dirty pages too.
AgainAvoiding(s) == IF s.skipped + s.nref >= N THEN [s EXCEPT !.skipped = 0, !.nref = 0] ELSE s
Again(s) ==
    IF s.skipped + s.nref >= N THEN [s EXCEPT !.skipped = 0, !.nref = 0, !.avoid = FALSE] ELSE s
CountRef(s) == [s EXCEPT !.nref = @ + 1, !.stop = s.nref + 1 >= N]
Skip(s) == [s EXCEPT !.skipped = @ + 1]
\* Mutant: only a page that is being written counts as referenced.
BeingWritten(page) == page.ref /\ page.dirty
Referenced(page) == page.ref
Take(s, f) == [s EXCEPT !.victim = f, !.stop = TRUE]

\* Mutant: the stale mark is not cleared when the page is passed over.
ClockLookAgain(s0, f) ==
    LET s == [s0 EXCEPT !.pg[f].hits = FALSE]
    IN  IF s.pol.lead = "CLOCK" /\ s.pg[f].clockStale THEN EndChallenge(s, "LIFO")
        ELSE IF s.pol.lead = "LIFO" /\ s.pg[f].evicted = "CLOCK" THEN s
        ELSE Take(s, f)
\* What test_and_clear_clock returns (it also clears the hits): for a page that is
\* not a ghost it reads the hits a second time, after clearing them, and so
\* never reports one.
TestAndClearClock(s, f) ==
    s.pg[f].hits /\ s.pg[f].id \in Page /\ s.ghost[s.pg[f].id] # None
\* voter_clock_evict
ClockLook(s0, f) ==
    LET s == [s0 EXCEPT !.pg[f].hits = FALSE]
    IN  IF TestAndClearClock(s0, f) THEN s
        ELSE IF s.pol.lead = "CLOCK" /\ s.pg[f].clockStale
        THEN ForgetGhost([EndChallenge(s, "LIFO") EXCEPT !.pg[f].clockStale = FALSE], f)
        ELSE IF s.pol.lead = "LIFO" /\ s.pg[f].evicted = "CLOCK" THEN s
        ELSE Take(s, f)

\* voter_lifo_evict
LifoLook(s0, f) ==
    LET s == [s0 EXCEPT !.pg[f].boundary = FALSE]
    IN  IF s.pol.lead = "LIFO" /\ s.pg[f].lifoStale
        THEN ForgetGhost([EndChallenge(s, "CLOCK") EXCEPT !.pg[f].lifoStale = FALSE], f)
        ELSE IF s.pol.lead = "CLOCK" /\ s.pg[f].evicted = "LIFO" THEN s
        ELSE [Take(s, f) EXCEPT !.pol.lifo = f]

\* follower_clock_evict and follower_lifo_evict
FollowerClockLook(s, f) ==
    IF s.pg[f].hits THEN [s EXCEPT !.pg[f].hits = FALSE] ELSE Take(s, f)
FollowerLifoLook(s, f) ==
    UpdateLifoList([Take(s, f) EXCEPT !.pg[f].boundary = FALSE, !.pol.lifo = f], f)

\* What a scan does with a page that is neither referenced nor avoided, and the
\* pages it avoids in its first round.
Look(s, f, scan) ==
    CASE scan = "voter clock"    -> ClockLook(s, f)
      [] scan = "voter lifo"     -> LifoLook(s, f)
      [] scan = "follower clock" -> FollowerClockLook(s, f)
      [] scan = "follower lifo"  -> FollowerLifoLook(s, f)
Avoided(page, scan) ==
    page.dirty \/ (page.boundary /\ scan \in {"voter lifo", "follower lifo"})

\* One page of a scan.
Visit(s0, f, scan) ==
    LET s == Again(s0)
    IN  IF s0.stop THEN s0
        ELSE IF Referenced(s.pg[f]) THEN CountRef(s)
        ELSE IF s.avoid /\ Avoided(s.pg[f], scan) THEN Skip(s)
        ELSE Look(s, f, scan)

\* The page a scan comes to: the one at the head of the clock, or the i-th of the
\* list from behind.  It begins with the last but one and comes to the last one
\* when it has gone round.
LifoAt(s, i) == s.pol.lt[((3 * N - 1 - i) % N) + 1]
PageAt(s, i, scan) == IF scan \in {"voter clock", "follower clock"} THEN s.pol.clock ELSE LifoAt(s, i)

\* Whether the head of the clock moves on: a follower leaves it at its victim.
Advances(s, scan) == scan = "voter clock" \/ (scan = "follower clock" /\ ~s.stop)
ScanStep(s, i, scan) ==
    LET v == Visit(s, PageAt(s, i, scan), scan)
    IN  IF s.stop THEN s
        ELSE IF Advances(v, scan) THEN [v EXCEPT !.pol.clock = (@ + 1) % N] ELSE v

\* The first n steps of a scan.
Scan(s, scan, n) ==
    LET after[i \in 0 .. n] == IF i = 0 THEN s ELSE ScanStep(after[i - 1], i, scan)
    IN  after[n]

\* voter_clock_evict, and voter_lifo_evict after the warm-up: at most two rounds.
VoterClock(s) == Scan(s, "voter clock", 2 * N)
VoterLifo(s) == Scan(s, "voter lifo", 2 * N)

\* Mutants: the warm-up takes one frame too many, or one too few.
WarmUpLong(s) == [Take(s, s.pol.lifo % N) EXCEPT !.pol.lifo = @ + 1, !.pol.entries = @ + 1,
                                                 !.pol.warm = s.pol.entries + 1 <= N]
WarmUpShort(s) == [Take(s, s.pol.lifo % N) EXCEPT !.pol.lifo = @ + 1, !.pol.entries = @ + 1,
                                                  !.pol.warm = s.pol.entries + 2 < N]
\* The warm-up of voter_lifo_evict and follower_lifo_evict: every frame once.
WarmUp(s) ==
    LET f == s.pol.lifo % N
    IN  [Take(s, f) EXCEPT !.pol.lifo = @ + 1, !.pol.entries = @ + 1,
                           !.pol.warm = s.pol.entries + 1 < N]

\* voter_actual_victim: `own' is the victim of the leading policy, `vote' that
\* of the other one.
Settle(s, own, vote) ==
    LET lead  == s.pol.lead
        first == IF own = None THEN s
                 ELSE IF s.pg[own].evicted = lead THEN PEvict(s, own)
                 ELSE IF s.pg[own].evicted # None
                 THEN UpdateLifoList(RefreshChal(EndChallenge(s, Other(lead)), own), own)
                 ELSE PEvict(StartChallenge(s, own, lead), own)
        stale == IF lead = "CLOCK" THEN first.pg[vote].lifoStale ELSE first.pg[vote].clockStale
    IN  IF vote = None THEN first
        ELSE IF first.pg[vote].evicted = None /\ ~stale
        THEN StartChallenge(first, vote, Other(lead))
        ELSE LET r == EndChallenge(RefreshChal(first, vote), lead)
             IN  IF stale THEN UpdateLifoList(r, first.pol.lifo) ELSE r

VoterActualVictim(s, clock, lifo) ==
    LET both == IF s.pg[clock].evicted = None THEN s ELSE EndChallenge(s, s.pg[clock].evicted)
    IN  IF clock = lifo
        THEN IF clock = None THEN s
             ELSE [UpdateLifoList(RefreshChal(both, clock), clock) EXCEPT !.victim = clock]
        ELSE IF s.pol.lead = "CLOCK" THEN [Settle(s, clock, lifo) EXCEPT !.victim = clock]
        ELSE [Settle(s, lifo, clock) EXCEPT !.victim = lifo]

Rescan(s) == [s EXCEPT !.nref = 0, !.skipped = 0, !.avoid = TRUE, !.stop = FALSE, !.victim = None]

\* evict_page of a sampled cell.
EvictSample(cell, p) ==
    LET s == EvalChallenge(Work(cell, cell.pol.lead), p)
        c == VoterClock(s)
        l == VoterLifo(Rescan(c))
    IN  IF s.pol.warm THEN WarmUp(s) ELSE VoterActualVictim(l, c.victim, l.victim)

\* follower_clock_evict, which ends at the latest in the third round, and
\* follower_lifo_evict.
FollowerClock(s) == Scan(s, "follower clock", 3 * N + 1)
FollowerLifo(s) == IF s.pol.warm THEN WarmUp(s) ELSE Scan(s, "follower lifo", 2 * N)

\* evict_page of any other cell, under the global policy of the moment.
EvictFollow(cell, global) ==
    LET s == Work(cell, IF cell.pol.warm THEN cell.pol.lead ELSE global)
    IN  IF s.pol.lead = "CLOCK" THEN FollowerClock(s) ELSE FollowerLifo(s)

\* What evict_page may do: the sampled score may change its sign only towards a
\* policy that won, and the global policy is whatever the sampled cells made it.
EvictPage(cell, p) ==
    IF cell.pol.sample
    THEN LET s == EvictSample(cell, p)
         IN  {[s EXCEPT !.pol.lead = w] : w \in {cell.pol.lead} \cup s.wins}
    ELSE {EvictFollow(cell, w) : w \in Policy}

-----------------------------------------------------------------------------
(* The searches of the cell and its users *)

\* hash_cell::search finds the page; another thread than the one that loaded a
\* boundary page ends its protection.
SearchHit(f) ==
    /\ pg[f].id # None
    /\ \E other \in BOOLEAN :
          pg' = [pg EXCEPT ![f].ref = TRUE, ![f].hits = TRUE, ![f].boundary = @ /\ ~other]
    /\ UNCHANGED <<ghost, pol>>

Uncached == Page \ {pg[f].id : f \in Frame}

\* It misses: the policy names a frame for the page, or none.
SearchMiss(p) ==
    /\ p \in Uncached
    /\ \E s \in EvictPage(Cell, p) :
          /\ pg' = IF s.victim = None THEN s.pg
                   ELSE [s.pg EXCEPT ![s.victim].id = p, ![s.victim].ref = TRUE,
                                     ![s.victim].dirty = FALSE, ![s.victim].hits = TRUE,
                                     ![s.victim].boundary = @ \/ p \in Boundary]
          /\ ghost' = s.ghost
          /\ pol' = s.pol

\* The last user of a page gives it back, perhaps after writing to it.
Release(f) ==
    /\ pg[f].ref
    /\ \E w \in {FALSE, Writes} : pg' = [pg EXCEPT ![f].ref = FALSE, ![f].dirty = @ \/ w]
    /\ UNCHANGED <<ghost, pol>>

Next ==
    \/ \E f \in Frame : SearchHit(f) \/ Release(f)
    \/ \E p \in Page : SearchMiss(p)

Spec == Init /\ [][Next]_vars

-----------------------------------------------------------------------------
(* Properties *)

\* Type invariant.
TypeOK ==
    /\ pg \in [Frame -> [id : Page \cup {None}, ref : BOOLEAN, dirty : BOOLEAN, hits : BOOLEAN,
                         boundary : BOOLEAN, evicted : Policy \cup {None},
                         lifoStale : BOOLEAN, clockStale : BOOLEAN]]
    /\ ghost \in [Page -> {None} \cup [policy : Policy, idx : Frame]]
    /\ pol \in [sample : BOOLEAN, lead : Policy, warm : BOOLEAN, entries : 0 .. N, clock : Frame, lifo : 0 .. N,
                lt : Seq(Frame)]

\* The LIFO list names every frame of the cell exactly once, whatever removals,
\* insertions at the front and moves to the back the challenges make
\* (start_challenge, update_lifo_list): a scan of it sees every page.
LifoListComplete == {pol.lt[i] : i \in 1 .. Len(pol.lt)} = Frame /\ Len(pol.lt) = N

\* When the warm-up is over every frame holds a page, so that the voters index
\* global_ghost with the offset of a page and never with -1.
WarmUpFillsCell == ~pol.warm => \A f \in Frame : pg[f].id # None

\* A cached page is not a ghost: a page becomes one when it leaves the cell and
\* stops being one when it is accessed again (reg_ghost, eval_challenge).  A
\* stale mark on a frame belongs to a page that the other policy evicted from
\* it and that is still a ghost; the marks of finished challenges are cleared.
GhostsAreEvicted ==
    \A f \in Frame :
        /\ pg[f].id # None  => ghost[pg[f].id] = None
        /\ pg[f].lifoStale  => \E p \in Page : ghost[p] = [policy |-> "CLOCK", idx |-> f]
        /\ pg[f].clockStale => \E p \in Page : ghost[p] = [policy |-> "LIFO", idx |-> f]

\* A policy may give up although a page is free (it counts a referenced page
\* twice), but it clears the marks that made it go round and succeeds when the
\* search is repeated: the progress that process_user_req relies on.
GivesUpOnce ==
    (\E f \in Frame : ~pg[f].ref) =>
        \A p \in Uncached : \A s \in EvictPage(Cell, p) :
            s.victim = None => \A again \in EvictPage([pg |-> s.pg, ghost |-> s.ghost, pol |-> s.pol], p) :
                                  again.victim # None

\* A page in use is never evicted: the policies return unreferenced pages only,
\* during the warm-up too.
InUseNotEvicted == [][\A f \in Frame : pg[f].ref => pg'[f].id = pg[f].id]_vars
================================================================================
