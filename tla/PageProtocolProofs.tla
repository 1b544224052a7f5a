-------------------------- MODULE PageProtocolProofs --------------------------
(***************************************************************************)
(* The safety of the page protocol for every set of frames, pages and      *)
(* requests.  Most of the invariants are not inductive alone: that a read  *)
(* only fills an empty frame needs that dirty data are ready, that the     *)
(* flags exclude each other after a read needs that the frame was empty,   *)
(* and that a user who leaves is not the evictor needs that old data are   *)
(* not ready.  Their conjunction is.                                       *)
(***************************************************************************)
EXTENDS PageProtocol, TLAPS

\* The inductive invariant: the promises about the state together.
IInv ==
    /\ TypeOK
    /\ FlagProtocol
    /\ OnePageOneFrame
    /\ WaitersAnswered
    /\ ReadsFillEmptyFrames

USE NoneAssumption

\* The initial states satisfy the inductive invariant.
LEMMA InitInv == Init => IInv
BY DEF Init, IInv, TypeOK, FlagProtocol, OnePageOneFrame, WaitersAnswered, ReadsFillEmptyFrames

\* Types are preserved by every step.
LEMMA TypeStep == TypeOK /\ [Next]_vars => TypeOK'
<1> SUFFICES ASSUME TypeOK, [Next]_vars PROVE TypeOK'
  OBVIOUS
<1> USE DEF TypeOK
<1>1. ASSUME NEW r \in Req, NEW f \in Frame, Hit(r, f) PROVE TypeOK'
  BY <1>1 DEF Hit
<1>2. ASSUME NEW r \in Req, NEW f \in Frame, WriteBack(r, f) PROVE TypeOK'
  BY <1>2 DEF WriteBack
<1>3. ASSUME NEW r \in Req, NEW f \in Frame, StartRead(r, f) PROVE TypeOK'
  BY <1>3 DEF StartRead, MayRead
<1>4. ASSUME NEW r \in Req, NEW f \in Frame, Wait(r, f) PROVE TypeOK'
  BY <1>4 DEF Wait, MayWait
<1>5. ASSUME NEW r \in Req, NEW f \in Frame, Modify(r, f) PROVE TypeOK'
  BY <1>5 DEF Modify
<1>6. ASSUME NEW r \in Req, NEW f \in Frame, NEW p \in Page, NEW D \in SUBSET Frame,
             Evict(r, f, p, D) PROVE TypeOK'
  BY <1>6 DEF Evict, Droppable, Unused, NotCached, DirtyAfter, EvictorAfter
<1>7. ASSUME NEW f \in Frame, MergeWrite(f) \/ FinishRead(f) \/ FinishWrite(f) PROVE TypeOK'
  BY <1>7 DEF MergeWrite, FinishRead, FinishWrite
<1>8. ASSUME NEW r \in Req, NEW S \in SUBSET Frame, Release(r, S) PROVE TypeOK'
  BY <1>8 DEF Release
<1>9. ASSUME NEW D \in SUBSET Frame, Drop(D) PROVE TypeOK'
  BY <1>9 DEF Drop
<1>10. CASE UNCHANGED vars
  BY <1>10 DEF vars
<1> QED BY <1>1, <1>2, <1>3, <1>4, <1>5, <1>6, <1>7, <1>8, <1>9, <1>10 DEF Next

\* Every step preserves the inductive invariant, one action at a time.
LEMMA InvStep == IInv /\ [Next]_vars => IInv'
<1> SUFFICES ASSUME IInv, [Next]_vars PROVE IInv'
  OBVIOUS
<1> DEFINE Rest == FlagProtocol /\ OnePageOneFrame /\ WaitersAnswered /\ ReadsFillEmptyFrames
<1>0. TypeOK'
  BY TypeStep DEF IInv
<1> SUFFICES Rest'
  BY <1>0 DEF IInv
<1> USE <1>0 DEF IInv, TypeOK, FlagProtocol, OnePageOneFrame, WaitersAnswered, ReadsFillEmptyFrames
<1>1. ASSUME NEW r \in Req, NEW f \in Frame, Hit(r, f) PROVE Rest'
  BY <1>1 DEF Hit
<1>2. ASSUME NEW r \in Req, NEW f \in Frame, WriteBack(r, f) PROVE Rest'
  BY <1>2 DEF WriteBack
<1>3. ASSUME NEW r \in Req, NEW f \in Frame, StartRead(r, f) PROVE Rest'
  BY <1>3 DEF StartRead, MayRead
<1>4. ASSUME NEW r \in Req, NEW f \in Frame, Wait(r, f) PROVE Rest'
  BY <1>4 DEF Wait, MayWait
<1>5. ASSUME NEW r \in Req, NEW f \in Frame, Modify(r, f) PROVE Rest'
  BY <1>5 DEF Modify
<1>6. ASSUME NEW r \in Req, NEW f \in Frame, NEW p \in Page, NEW D \in SUBSET Frame,
             Evict(r, f, p, D) PROVE Rest'
  BY <1>6 DEF Evict, Droppable, Unused, NotCached, DirtyAfter, EvictorAfter
<1>7. ASSUME NEW f \in Frame, MergeWrite(f) PROVE Rest'
  BY <1>7 DEF MergeWrite
<1>8. ASSUME NEW f \in Frame, FinishRead(f) PROVE Rest'
  BY <1>8 DEF FinishRead
<1>9. ASSUME NEW f \in Frame, FinishWrite(f) PROVE Rest'
  BY <1>9 DEF FinishWrite
<1>10. ASSUME NEW r \in Req, NEW S \in SUBSET Frame, Release(r, S) PROVE Rest'
  BY <1>10 DEF Release
<1>11. ASSUME NEW D \in SUBSET Frame, Drop(D) PROVE Rest'
  BY <1>11 DEF Drop, Droppable, Unused
<1>12. CASE UNCHANGED vars
  BY <1>12 DEF vars
<1> QED BY <1>1, <1>2, <1>3, <1>4, <1>5, <1>6, <1>7, <1>8, <1>9, <1>10, <1>11, <1>12 DEF Next

\* In every reachable state the inductive invariant holds.
LEMMA Invariance == Spec => []IInv
BY InitInv, InvStep, PTL DEF Spec

\* The variables keep their types.
THEOREM TypeCorrect == Spec => []TypeOK
<1>1. IInv => TypeOK
  BY DEF IInv
<1> QED BY <1>1, Invariance, PTL

\* Dirty and old dirty data exclude each other, and old data are never taken
\* for ready ones, whatever the threads do (the flags of cache.h).
THEOREM FlagsExclude == Spec => []FlagProtocol
<1>1. IInv => FlagProtocol
  BY DEF IInv
<1> QED BY <1>1, Invariance, PTL

\* No page is ever in two frames of a cell.
THEOREM NoDuplicatePage == Spec => []OnePageOneFrame
<1>1. IInv => OnePageOneFrame
  BY DEF IInv
<1> QED BY <1>1, Invariance, PTL

\* No request waits on a page for an I/O that nobody has started or will start.
THEOREM NobodyStranded == Spec => []WaitersAnswered
<1>1. IInv => WaitersAnswered
  BY DEF IInv
<1> QED BY <1>1, Invariance, PTL

\* A read from disk never overwrites data that are valid or still dirty.
THEOREM ReadsAreSafe == Spec => []ReadsFillEmptyFrames
<1>1. IInv => ReadsFillEmptyFrames
  BY DEF IInv
<1> QED BY <1>1, Invariance, PTL

\* A frame with users or I/O keeps its page and its ready data.
THEOREM InUseKept == Spec => InUseNotEvicted
<1> DEFINE Kept == \A f \in Frame : users[f] # {} \/ io[f] # "none" =>
                      /\ id'[f] = id[f]
                      /\ ready[f] => ready'[f]
<1>1. IInv /\ [Next]_vars => [Kept]_vars
  <2> SUFFICES ASSUME IInv, Next PROVE Kept
    OBVIOUS
  <2> USE DEF IInv, TypeOK
  <2>1. ASSUME NEW r \in Req, NEW f \in Frame, Hit(r, f) PROVE Kept
    BY <2>1 DEF Hit
  <2>2. ASSUME NEW r \in Req, NEW f \in Frame, WriteBack(r, f) PROVE Kept
    BY <2>2 DEF WriteBack
  <2>3. ASSUME NEW r \in Req, NEW f \in Frame, StartRead(r, f) \/ Wait(r, f) PROVE Kept
    BY <2>3 DEF StartRead, Wait
  <2>4. ASSUME NEW r \in Req, NEW f \in Frame, Modify(r, f) PROVE Kept
    BY <2>4 DEF Modify
  <2>5. ASSUME NEW r \in Req, NEW f \in Frame, NEW p \in Page, NEW D \in SUBSET Frame,
             Evict(r, f, p, D) PROVE Kept
    BY <2>5 DEF Evict, Droppable, Unused, NotCached, DirtyAfter, EvictorAfter
  <2>6. ASSUME NEW f \in Frame, MergeWrite(f) \/ FinishRead(f) \/ FinishWrite(f) PROVE Kept
    BY <2>6 DEF MergeWrite, FinishRead, FinishWrite
  <2>7. ASSUME NEW r \in Req, NEW S \in SUBSET Frame, Release(r, S) PROVE Kept
    BY <2>7 DEF Release
  <2>8. ASSUME NEW D \in SUBSET Frame, Drop(D) PROVE Kept
    BY <2>8 DEF Drop, Droppable, Unused
  <2> QED BY <2>1, <2>2, <2>3, <2>4, <2>5, <2>6, <2>7, <2>8 DEF Next
<1>2. IInv /\ [Next]_vars => [\A f \in Frame : users[f] # {} \/ io[f] # "none" =>
                                /\ id'[f] = id[f]
                                /\ ready[f] => ready'[f]]_vars
  BY <1>1
<1> QED BY <1>2, Invariance, PTL DEF Spec, InUseNotEvicted

===============================================================================
