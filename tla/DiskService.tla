------------------------------ MODULE DiskService -----------------------------
(***************************************************************************)
(* What an asynchronous I/O instance of SAFS promises its user: a request  *)
(* moves every one of its pages between memory and the disk once, in any   *)
(* order and next to other requests, and is reported once, to the thread   *)
(* that issued it, when all of them have been moved.                       *)
(***************************************************************************)
CONSTANTS
    Request,
    Extent    \* the sets of pages a request may ask for

VARIABLES
    pages,  \* the pages of a request, once it was issued
    moved,  \* those that have been transferred
    state   \* "new", "issued" or "done"

vars == <<pages, moved, state>>

Init ==
    /\ pages = [r \in Request |-> {}]
    /\ moved = [r \in Request |-> {}]
    /\ state = [r \in Request |-> "new"]

\* access
Issue(r, e) ==
    /\ state[r] = "new"
    /\ state' = [state EXCEPT ![r] = "issued"]
    /\ pages' = [pages EXCEPT ![r] = e]
    /\ UNCHANGED moved

\* The device moves some of the pages, each for the first time.
Transfer(r, p) ==
    /\ state[r] = "issued" /\ p # {}
    /\ moved' = [moved EXCEPT ![r] = @ \cup p]
    /\ UNCHANGED <<pages, state>>

\* The callback of a request.
Report(r) ==
    /\ state[r] = "issued" /\ moved[r] = pages[r]
    /\ state' = [state EXCEPT ![r] = "done"]
    /\ UNCHANGED <<pages, moved>>

\* A callback that issues the next request.
ReportAndIssue(r, s, e) ==
    /\ state[r] = "issued" /\ moved[r] = pages[r]
    /\ state[s] = "new"
    /\ state' = [state EXCEPT ![r] = "done", ![s] = "issued"]
    /\ pages' = [pages EXCEPT ![s] = e]
    /\ UNCHANGED moved

Next ==
    \E r \in Request :
        \/ \E e \in Extent : Issue(r, e)
        \/ \E p \in SUBSET (pages[r] \ moved[r]) : Transfer(r, p)
        \/ Report(r)
        \/ \E s \in Request, e \in Extent : ReportAndIssue(r, s, e)

Spec == Init /\ [][Next]_vars
===============================================================================
