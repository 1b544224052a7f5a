----------------------------- MODULE EngineProofs -----------------------------
(***************************************************************************)
(* The safety of the worker threads for every number of workers, every     *)
(* graph and every limit.  None of the invariants of Engine is inductive   *)
(* alone.  Their common strengthening has these parts:                     *)
(*   Phases    the barriers keep the workers in one phase of a level;      *)
(*   Mail      where messages can be, and when there are none;             *)
(*   Places    an active vertex is in one place;                           *)
(*   Counters  the atomic counters are the sizes of sets of vertices;      *)
(*   Theft     the handshake of thief and owner: the bitmap, the guard,    *)
(*             the messages kept for stolen vertices, serial execution.    *)
(* Each part is preserved by every step of a state that satisfies all.     *)
(***************************************************************************)
EXTENDS Engine, FiniteSetTheorems, TLAPS

-------------------------------------------------------------------------------
(* The parts of the inductive invariant                                    *)

\* The vertices a worker has taken and not given back, and those it may run.
Held(w) == batch[w] \cup pend[w] \cup done[w] \cup returning[w]
Running(w) == pend[w] \cup (IF pc[w] \in {"count", "run"} THEN batch[w] ELSE {})

\* Nobody has left progress_first_level.
Starting(w) == ~entering /\ pc[w] \in {"first", "barrier2"}

\* The barriers keep the workers together.
Phases ==
    /\ entering => \A w \in Worker : pc[w] \in {"msgs", "replay", "mode", "drain", "switch", "barrier2"}
    /\ ~entering => \A w, x \in Worker :
          /\ pc[w] # "switch"
          /\ pc[w] \in {"first", "barrier2"} => pc[x] \in {"first", "barrier2"}
          /\ pc[w] = "stop" => pc[x] = "stop"
    /\ \A w \in Worker : Starting(w) =>
          /\ level = 0 /\ handled = 0
          /\ Held(w) = {} /\ next[w] = {}
    /\ \A w \in Worker : pc[w] = "first" => ~entering
    /\ complete /\ level > 0 => \A w \in Worker : pc[w] \in {"barrier2", "stop"}

\* Where messages are, and when there are none.
Mail ==
    /\ \A w \in Worker :
          /\ \A m \in msgq[w] \cup stolenMsgs[w] \cup fetched[w] : Owner[m.dest] = w
          /\ handling[w] # None => Owner[handling[w].dest] = w /\ handling[w].body
          /\ fetched[w] # {} \/ handling[w] # None => pc[w] \in {"replay", "drain"}
          /\ pc[w] = "giveback" \/ entering => buf[w] = {}
          /\ entering /\ pc[w] \in {"switch", "barrier2"} => msgq[w] = {}
          /\ Starting(w) => buf[w] = {} /\ msgq[w] = {} /\ stolenMsgs[w] = {}

\* A vertex is in one place.
Places ==
    \A w \in Worker :
      /\ curr[w] \subseteq Own(w) /\ next[w] \subseteq Own(w)
      /\ \A x \in Worker : w # x => Held(w) \cap Held(x) = {}
      /\ batch[w] \cap (pend[w] \cup done[w] \cup returning[w]) = {}
      /\ pend[w] \cap (done[w] \cup returning[w]) = {} /\ done[w] \cap returning[w] = {}
      /\ \A v \in Held(w) : v \notin curr[Owner[v]]
      /\ \A v \in done[w] \cup returning[w] : Owner[v] # w
      /\ batch[w] # {} => pc[w] \in {"prepare", "mark", "count", "run"}
      /\ pc[w] \in {"prepare", "mark"} => serialRun /\ victim[w] # w /\ batch[w] \subseteq Own(victim[w])
      /\ pc[w] = "steal" => curr[w] = {} /\ tries[w] < NumThreads
      /\ tries[w] <= NumThreads
      /\ returning[w] # {} => serialRun
      /\ pc[w] \in {"flush", "giveback"} => pend[w] = {} /\ \A x \in Worker : curr[x] = {}
      /\ entering => Held(w) = {} /\ (pc[w] # "barrier2" => curr[w] = {})
      /\ entering /\ pc[w] = "barrier2" => next[w] = {}

\* What the counters count: the vertices of the level that nobody has counted, the workers at
\* a barrier and their active vertices, the vertices of a worker that thieves have.
Unread == {v \in Vertex : v \in curr[Owner[v]]
             \/ \E w \in Worker : pc[w] \in {"prepare", "mark", "count"} /\ v \in batch[w]}
AtBarrier == {w \in Worker : pc[w] = "barrier2"}
Gathered == {v \in Vertex : v \in curr[Owner[v]] /\ pc[Owner[v]] = "barrier2"}
Stolen(o) == {v \in Own(o) : \E w \in Worker \ {o} : v \in Running(w) \cup done[w]}

\* The last worker at a barrier resets the counters; until then they count the workers that
\* have come and their active vertices.
Arrivals ==
    /\ arrived = IF AtBarrier = Worker THEN 0 ELSE Cardinality(AtBarrier)
    /\ total = IF AtBarrier = Worker THEN 0 ELSE Cardinality(Gathered)

\* While workers gather, no vertex is to be processed; else remaining has those nobody
\* has counted yet.
Waiting == AtBarrier # Worker /\ \E w \in Worker : pc[w] \in {"first", "barrier2"}
ToRead == remaining = IF Waiting THEN 0 ELSE Cardinality(Unread)

\* Vertices stolen from a worker and not given back yet.
Lent == \A o \in Worker : numStolen[o] = numReturned[o] + IF serialRun THEN Cardinality(Stolen(o)) ELSE 0

Counters == Arrivals /\ ToRead /\ Lent

\* The bitmap has the vertices that are with a worker other than their owner.
Marks ==
    /\ ~serialRun => marked = {}
    /\ serialRun => \A w \in Worker :
          \A v \in Running(w) \cup done[w] \cup returning[w] : Owner[v] # w => v \in marked

\* An owner that does not look at the bitmap processes messages while nobody runs its
\* vertices: a theft is announced before the guard is looked at.
Guards ==
    /\ \A w \in Worker :
          /\ pc[w] \in {"mode", "replay"} => serialRun
          /\ pc[w] = "replay" => checkSteal[w]
    /\ serialRun => \A w \in Worker :
          /\ \A v \in Running(w) : Owner[v] # w => prepared[Owner[v]]
          /\ pc[w] = "mark" => prepared[victim[w]]
          /\ pc[w] \in {"mode", "drain"} => guard[w]
          /\ pc[w] = "drain" /\ ~checkSteal[w] => \A x \in Worker \ {w} : Running(x) \cap Own(w) = {}

\* The messages kept for stolen vertices, among them those that are tried again.
Kept(w) == stolenMsgs[w]
             \cup IF pc[w] = "replay" THEN fetched[w] \cup ({handling[w]} \ {None}) ELSE {}

\* The vertex of a kept message has been taken in this level and cannot be taken again; the
\* message is tried again, at the latest between the barriers.
Keeps ==
    /\ ~serialRun => \A w \in Worker : stolenMsgs[w] = {}
    /\ serialRun => \A w \in Worker : \A v \in returning[w] : numReturned[Owner[v]] > 0
    /\ \A w \in Worker :
        /\ \A m \in Kept(w) : /\ m.dest \notin curr[w]
                              /\ \A x \in Worker : m.dest \in batch[x] => m.dest \in marked
        /\ pc[w] = "replay" /\ handling[w] # None => \A x \in Worker \ {w} : handling[w].dest \notin batch[x]
        /\ stolenMsgs[w] # {} => \/ numReturned[w] > 0
                                 \/ \E x \in Worker \ {w} : Own(w) \cap (batch[x] \cup pend[x] \cup done[x]) # {}
        /\ entering /\ pc[w] \in {"replay", "mode", "drain", "switch", "barrier2"} => stolenMsgs[w] = {}

Theft == Marks /\ StolenAreAway /\ Guards /\ Keeps /\ SerialExecution

-------------------------------------------------------------------------------
USE OwnerAssumption

\* The types, in the form the steps preserve by themselves.
Types ==
    /\ program \in Programs /\ serialRun \in SerialRuns /\ serialRun \in BOOLEAN
    /\ pc \in [Worker -> {"first", "return", "steal", "prepare", "mark", "count", "run", "msgs",
                          "replay", "mode", "drain", "io", "flush", "giveback", "switch",
                          "barrier2", "stop"}]
    /\ entering \in BOOLEAN /\ complete \in BOOLEAN /\ crashed \in BOOLEAN
    /\ curr \in [Worker -> SUBSET Vertex] /\ next \in [Worker -> SUBSET Vertex]
    /\ batch \in [Worker -> SUBSET Vertex] /\ pend \in [Worker -> SUBSET Vertex]
    /\ done \in [Worker -> SUBSET Vertex] /\ returning \in [Worker -> SUBSET Vertex]
    /\ victim \in [Worker -> Worker] /\ tries \in [Worker -> Nat]
    /\ buf \in [Worker -> SUBSET Msg] /\ msgq \in [Worker -> SUBSET Msg]
    /\ stolenMsgs \in [Worker -> SUBSET Msg] /\ fetched \in [Worker -> SUBSET Msg]
    /\ ready \in [Worker -> SUBSET Worker]
    /\ handling \in [Worker -> Msg \cup {None}]
    /\ checkSteal \in [Worker -> BOOLEAN] /\ prepared \in [Worker -> BOOLEAN]
    /\ stealMode \in [Worker -> BOOLEAN] /\ guard \in [Worker -> BOOLEAN]
    /\ marked \subseteq Vertex
    /\ numStolen \in [Worker -> Nat] /\ numReturned \in [Worker -> Nat]
    /\ remaining \in Int /\ total \in Nat /\ arrived \in Nat /\ level \in Nat /\ handled \in Nat

\* Sets of vertices are finite.
LEMMA SubsetCard == ASSUME NEW S \in SUBSET Vertex PROVE IsFiniteSet(S) /\ Cardinality(S) \in Nat
BY FS_Subset, FS_CardinalityType, VertexAssumption

\* The next thread to steal from is a worker.
LEMMA NextVictim == \A t \in Worker : (t + 1) % NumThreads \in Worker
BY ThreadsAssumption DEF Worker

\* The fields of a message; None is no message.
LEMMA MsgFields == /\ \A m \in Msg : m.dest \in Vertex /\ m.act \in BOOLEAN /\ m.body \in BOOLEAN
                   /\ None \notin Msg
BY VertexAssumption DEF Msg

\* The types of what sending changes.
SendVars == /\ buf' \in [Worker -> SUBSET Msg] /\ msgq' \in [Worker -> SUBSET Msg]
            /\ ready' \in [Worker -> SUBSET Worker] /\ crashed' \in BOOLEAN

\* Activation messages keep the senders and queues typed.
LEMMA ActivateTypes == ASSUME Types, NEW w \in Worker, NEW A \in SUBSET Vertex, ActivateIds(w, A) PROVE SendVars
<1>1. Activations(A) \in SUBSET Msg
  <2>1. \A d \in A : [src |-> None, dest |-> d, act |-> TRUE, body |-> FALSE] \in Msg
    BY DEF Msg
  <2> QED BY <2>1 DEF Activations
<1> QED BY <1>1 DEF Types, SendVars, ActivateIds, SendCached, To

\* So does everything a vertex program sends.
LEMMA SendTypes == ASSUME Types, NEW w \in Worker, NEW v \in Vertex, Send(w, v)
                   PROVE SendVars /\ next' \in [Worker -> SUBSET Vertex]
<1>0. Edges[v] \in SUBSET Vertex
  BY EdgesAssumption
<1>1. CASE UNCHANGED <<next, senders, msgq>>
  BY <1>1 DEF Types, SendVars, senders
<1>2. CASE ActivateEdges(w, Edges[v])
  BY <1>0, <1>2, ActivateTypes DEF Types, ActivateEdges
<1>3. ASSUME NEW act \in BOOLEAN, SendCached(w, Messages(v, act)), UNCHANGED <<ready, next, crashed>>
      PROVE SendVars /\ next' \in [Worker -> SUBSET Vertex]
  <2>0. \A d \in Edges[v] : [src |-> v, dest |-> d, act |-> act, body |-> TRUE] \in Msg
    BY <1>0 DEF Msg
  <2>1. Messages(v, act) \in SUBSET Msg
    BY <2>0 DEF Messages
  <2> QED BY <2>1, <1>3 DEF Types, SendVars, SendCached, To
<1>4. ASSUME NEW act \in BOOLEAN, SendFlush(w, Messages(v, act)), UNCHANGED <<next, crashed>>
      PROVE SendVars /\ next' \in [Worker -> SUBSET Vertex]
  <2>0. \A d \in Edges[v] : [src |-> v, dest |-> d, act |-> act, body |-> TRUE] \in Msg
    BY <1>0 DEF Msg
  <2>1. Messages(v, act) \in SUBSET Msg
    BY <2>0 DEF Messages
  <2> QED BY <2>1, <1>4 DEF Types, SendVars, SendFlush, To
<1> QED BY <1>1, <1>2, <1>3, <1>4 DEF Send

\* The types of what the end of a level changes.
CountVars == /\ remaining' \in Int /\ total' \in Nat /\ arrived' \in Nat
             /\ level' \in Nat /\ handled' \in Nat /\ complete' \in BOOLEAN

\* Counting active vertices keeps the counters typed.
LEMMA CountTypes == ASSUME Types, NEW num \in Nat, NEW first \in BOOLEAN, CountActivated(num, first)
                    PROVE CountVars
<1>1. CASE arrived + 1 < NumThreads
  BY <1>1 DEF CountActivated, Types, CountVars
<1>2. CASE ~(arrived + 1 < NumThreads)
  <2>1. complete' = (total + num = 0)
    BY <1>2, SMTT(30) DEF CountActivated
  <2>2. complete' \in BOOLEAN
    BY <2>1, ZenonT(40)
  <2> QED BY <1>2, <2>2 DEF CountActivated, Types, CountVars
<1> QED BY <1>1, <1>2

-------------------------------------------------------------------------------
(* Each part is preserved                                                  *)

\* Every step preserves the types.
LEMMA TypesStep == ASSUME Types, [Next]_vars PROVE Types'
<1> USE DEF config, queues, balancer, senders, inbox, stealState, levels, Types, Goto
<1>1. ASSUME NEW w \in Worker, ReturnVertices(w) PROVE Types'
  <2> DEFINE o == Min({Owner[v] : v \in done[w]})
             S == done[w] \cap Own(o)
  <2>1. S \in SUBSET Vertex /\ Cardinality(S) \in Nat
    BY SubsetCard
  <2> HIDE DEF o, S
  <2>2. /\ done' = [done EXCEPT ![w] = @ \ S]
        /\ \/ /\ returning' = [returning EXCEPT ![w] = S]
              /\ numReturned' = [numReturned EXCEPT ![o] = @ + Cardinality(S)]
           \/ UNCHANGED <<returning, numReturned>>
    BY <1>1 DEF ReturnVertices, o, S
  <2>3. /\ done' \in [Worker -> SUBSET Vertex] /\ returning' \in [Worker -> SUBSET Vertex]
        /\ numReturned' \in [Worker -> Nat]
    <3>1. /\ done \in [Worker -> SUBSET Vertex] /\ returning \in [Worker -> SUBSET Vertex]
          /\ numReturned \in [Worker -> Nat]
      OBVIOUS
    <3> HIDE DEF Types
    <3> QED BY <2>1, <2>2, <3>1
  <2> QED BY <1>1, <2>3 DEF ReturnVertices
<1>2. ASSUME NEW w \in Worker, ClearStolen(w) PROVE Types'
  BY <1>2 DEF ClearStolen
<1>3. ASSUME NEW w \in Worker, FetchOwn(w) PROVE Types'
  BY <1>3 DEF FetchOwn, Fetch, kSubset
<1>4. ASSUME NEW w \in Worker, FetchNone(w) PROVE Types'
  BY <1>4 DEF FetchNone
<1>5. ASSUME NEW w \in Worker, StartSteal(w) PROVE Types'
  BY <1>5, NextVictim DEF StartSteal
<1>6. ASSUME NEW w \in Worker, Steal(w) PROVE Types'
  BY <1>6, NextVictim DEF Steal, Fetch, kSubset
<1>7. ASSUME NEW w \in Worker, PrepareSteal(w) PROVE Types'
  BY <1>7 DEF PrepareSteal
<1>8. ASSUME NEW w \in Worker, MarkStolen(w) PROVE Types'
  BY <1>8 DEF MarkStolen
<1>9. ASSUME NEW w \in Worker, WaitGuard(w) PROVE Types'
  <2>1. Cardinality(batch[w]) \in Nat
    BY SubsetCard
  <2> QED BY <1>9, <2>1 DEF WaitGuard
<1>10. ASSUME NEW w \in Worker, CountVertices(w) PROVE Types'
  BY <1>10, SubsetCard DEF CountVertices
<1>11. ASSUME NEW w \in Worker, RunVertex(w) PROVE Types'
  <2>1. PICK v \in batch[w] :
          /\ batch' = [batch EXCEPT ![w] = @ \ {v}]
          /\ \/ /\ pend' = [pend EXCEPT ![w] = @ \cup {v}]
                /\ UNCHANGED <<next, senders, msgq, done>>
             \/ Send(w, v) /\ CompleteVertex(w, v) /\ UNCHANGED pend
          /\ Goto(w, IF batch[w] = {v} THEN "msgs" ELSE "run")
    BY <1>11 DEF RunVertex
  <2>2. CASE UNCHANGED <<next, senders, msgq, done>> /\ pend' = [pend EXCEPT ![w] = @ \cup {v}]
    BY <1>11, <2>1, <2>2 DEF RunVertex
  <2>3. CASE Send(w, v) /\ CompleteVertex(w, v) /\ UNCHANGED pend
    BY <1>11, <2>1, <2>3, SendTypes DEF RunVertex, SendVars, CompleteVertex
  <2> QED BY <2>1, <2>2, <2>3
<1>12. ASSUME NEW w \in Worker, CompleteIO(w) PROVE Types'
  BY <1>12, SendTypes DEF CompleteIO, SendVars, CompleteVertex
<1>13. ASSUME NEW w \in Worker, TakeStolenMsgs(w) PROVE Types'
  BY <1>13 DEF TakeStolenMsgs
<1>14. ASSUME NEW w \in Worker, GuardMsgs(w) PROVE Types'
  BY <1>14 DEF GuardMsgs
<1>15. ASSUME NEW w \in Worker, EnterStealMode(w) PROVE Types'
  BY <1>15 DEF EnterStealMode
<1>16. ASSUME NEW w \in Worker, FetchMsgs(w) PROVE Types'
  BY <1>16 DEF FetchMsgs
<1>17. ASSUME NEW w \in Worker, ProcessMsg(w) PROVE Types'
  <2>1. /\ fetched' \in [Worker -> SUBSET Msg] /\ stolenMsgs' \in [Worker -> SUBSET Msg]
        /\ handling' \in [Worker -> Msg \cup {None}] /\ next' \in [Worker -> SUBSET Vertex]
    <3>1. PICK m \in fetched[w] :
            /\ fetched' = [fetched EXCEPT ![w] = @ \ {m}]
            /\ next' = next \/ Activate(w, m)
            /\ stolenMsgs' = stolenMsgs \/ stolenMsgs' = [stolenMsgs EXCEPT ![w] = @ \cup {m}]
            /\ handling' = handling \/ handling' = [handling EXCEPT ![w] = m]
      BY <1>17 DEF ProcessMsg
    <3>2. /\ fetched \in [Worker -> SUBSET Msg] /\ stolenMsgs \in [Worker -> SUBSET Msg]
          /\ handling \in [Worker -> Msg \cup {None}] /\ next \in [Worker -> SUBSET Vertex]
          /\ m \in Msg /\ m.dest \in Vertex
      BY MsgFields
    <3> HIDE DEF Types
    <3> QED BY <3>1, <3>2 DEF Activate
  <2> QED BY <1>17, <2>1 DEF ProcessMsg
<1>18. ASSUME NEW w \in Worker, EndHandler(w) PROVE Types'
  BY <1>18, MsgFields DEF EndHandler, Activate
<1>19. ASSUME NEW w \in Worker, UnguardMsgs(w) PROVE Types'
  BY <1>19 DEF UnguardMsgs
<1>20. ASSUME NEW w \in Worker, LoopAgain(w) PROVE Types'
  BY <1>20 DEF LoopAgain
<1>21. ASSUME NEW w \in Worker, EndIteration(w) PROVE Types'
  BY <1>21, ActivateTypes, EdgesAssumption DEF EndIteration, SendVars
<1>22. ASSUME NEW w \in Worker, FlushMsgs(w) PROVE Types'
  BY <1>22 DEF FlushMsgs, To
<1>23. ASSUME NEW w \in Worker, FirstLevel(w) PROVE Types'
  <2>1. Cardinality(curr[w]) \in Nat
    BY SubsetCard
  <2> QED BY <1>23, <2>1, CountTypes DEF FirstLevel, CountVars
<1>24. ASSUME NEW w \in Worker, EnterNextLevel(w) PROVE Types'
  <2>1. Cardinality(next[w]) \in Nat
    BY SubsetCard
  <2> QED BY <1>24, <2>1, CountTypes DEF EnterNextLevel, CountVars
<1>25. CASE Barrier1
  BY <1>25 DEF Barrier1, All
<1>26. CASE Barrier2
  BY <1>26 DEF Barrier2, All
<1>27. CASE UNCHANGED vars
  BY <1>27 DEF vars
<1> QED BY <1>1, <1>2, <1>3, <1>4, <1>5, <1>6, <1>7, <1>8, <1>9, <1>10, <1>11, <1>12, <1>13, <1>14, <1>15, <1>16, <1>17, <1>18, <1>19, <1>20, <1>21, <1>22, <1>23, <1>24, <1>25, <1>26, <1>27 DEF Next, WorkerStep, Stopped

\* The inductive invariant.
IInv == Types /\ Phases /\ Mail /\ Places /\ Counters /\ Theft

\* What a vertex program sends goes to the queue of its destination's owner, activates only
\* the sender's own vertices directly, and touches no other worker's senders.
LEMMA SendEffect == ASSUME Types, NEW w \in Worker, NEW v \in Vertex, Send(w, v)
    PROVE /\ \A p \in Worker : \A m \in msgq'[p] : m \in msgq[p] \/ Owner[m.dest] = p
          /\ \A p \in Worker : next[p] \subseteq next'[p] /\ next'[p] \subseteq next[p] \cup Own(p)
          /\ \A x \in Worker \ {w} : buf'[x] = buf[x] /\ next'[x] = next[x]
<1>1. CASE UNCHANGED <<next, senders, msgq>>
  BY <1>1 DEF senders
<1>2. CASE ActivateEdges(w, Edges[v])
  BY <1>2 DEF Types, ActivateEdges, ActivateIds, SendCached, To
<1>3. ASSUME NEW act \in BOOLEAN, SendCached(w, Messages(v, act)), UNCHANGED <<ready, next, crashed>>
      PROVE /\ \A p \in Worker : \A m \in msgq'[p] : m \in msgq[p] \/ Owner[m.dest] = p
            /\ \A x \in Worker \ {w} : buf'[x] = buf[x]
            /\ next' = next
  BY <1>3 DEF Types, SendCached, To
<1>4. ASSUME NEW act \in BOOLEAN, SendFlush(w, Messages(v, act)), UNCHANGED <<next, crashed>>
      PROVE /\ \A p \in Worker : \A m \in msgq'[p] : m \in msgq[p] \/ Owner[m.dest] = p
            /\ \A x \in Worker \ {w} : buf'[x] = buf[x]
            /\ next' = next
  BY <1>4 DEF Types, SendFlush, To
<1> QED BY <1>1, <1>2, <1>3, <1>4 DEF Send

\* There are NumThreads workers.
LEMMA Workers == IsFiniteSet(Worker) /\ Cardinality(Worker) = NumThreads /\ NumThreads \in Nat \ {0}
<1>1. 0 \in Int /\ NumThreads - 1 \in Int /\ NumThreads \in Nat \ {0}
  BY ThreadsAssumption
<1>2. IsFiniteSet(0 .. NumThreads - 1) /\ Cardinality(0 .. NumThreads - 1) = NumThreads
  BY <1>1, FS_Interval
<1> QED BY <1>1, <1>2 DEF Worker

\* A worker that comes to the barrier is one more, and the last one exactly when the count
\* says so.
LEMMA OneArrives == ASSUME IInv, NEW w \in Worker, pc[w] # "barrier2"
                    PROVE /\ Cardinality(AtBarrier \cup {w}) = arrived + 1
                          /\ arrived + 1 < NumThreads <=> AtBarrier \cup {w} # Worker
<1>1. IsFiniteSet(AtBarrier)
  BY Workers, FS_Subset DEF AtBarrier
<1>2. /\ IsFiniteSet(AtBarrier \cup {w})
      /\ Cardinality(AtBarrier \cup {w}) = Cardinality(AtBarrier) + 1
  BY <1>1, FS_AddElement DEF AtBarrier
<1>3. arrived = Cardinality(AtBarrier) /\ arrived \in Nat
  BY DEF IInv, Counters, Arrivals, AtBarrier, Types
<1>4. AtBarrier \cup {w} \in SUBSET Worker
  BY DEF AtBarrier
<1>5. /\ Cardinality(AtBarrier \cup {w}) <= NumThreads
      /\ Cardinality(AtBarrier \cup {w}) = NumThreads => AtBarrier \cup {w} = Worker
  BY <1>4, Workers, FS_Subset
<1>6. AtBarrier \cup {w} = Worker => Cardinality(AtBarrier \cup {w}) = NumThreads
  BY Workers
<1> DEFINE n == Cardinality(AtBarrier \cup {w})
<1>7. n = arrived + 1
  BY <1>2, <1>3
<1>8. /\ n <= NumThreads /\ (n = NumThreads <=> AtBarrier \cup {w} = Worker)
      /\ n \in Nat /\ NumThreads \in Nat
  BY <1>3, <1>5, <1>6, <1>7, Workers
<1> HIDE DEF n
<1> QED BY <1>7, <1>8 DEF n

\* When the last worker comes all others are at the barrier.
LEMMA LastArrives == ASSUME IInv, NEW w \in Worker, pc[w] # "barrier2", ~(arrived + 1 < NumThreads)
                     PROVE \A x \in Worker \ {w} : pc[x] = "barrier2"
BY OneArrives DEF AtBarrier

\* Every step keeps the workers in one phase.
LEMMA PhasesStep == ASSUME IInv, Types', [Next]_vars PROVE Phases'
<1> USE DEF config, queues, balancer, senders, inbox, stealState, levels, IInv, Types, Phases, Starting, Held, Goto
<1>1. ASSUME NEW w \in Worker, ReturnVertices(w) PROVE Phases'
  BY <1>1 DEF ReturnVertices
<1>2. ASSUME NEW w \in Worker, ClearStolen(w) PROVE Phases'
  BY <1>2 DEF ClearStolen
<1>3. ASSUME NEW w \in Worker, FetchOwn(w) PROVE Phases'
  BY <1>3 DEF FetchOwn
<1>4. ASSUME NEW w \in Worker, FetchNone(w) PROVE Phases'
  BY <1>4 DEF FetchNone
<1>5. ASSUME NEW w \in Worker, StartSteal(w) PROVE Phases'
  BY <1>5 DEF StartSteal
<1>6. ASSUME NEW w \in Worker, Steal(w) PROVE Phases'
  BY <1>6 DEF Steal
<1>7. ASSUME NEW w \in Worker, PrepareSteal(w) PROVE Phases'
  BY <1>7 DEF PrepareSteal
<1>8. ASSUME NEW w \in Worker, MarkStolen(w) PROVE Phases'
  BY <1>8 DEF MarkStolen
<1>9. ASSUME NEW w \in Worker, WaitGuard(w) PROVE Phases'
  BY <1>9 DEF WaitGuard
<1>10. ASSUME NEW w \in Worker, CountVertices(w) PROVE Phases'
  BY <1>10 DEF CountVertices
<1>11. ASSUME NEW w \in Worker, RunVertex(w) PROVE Phases'
  BY <1>11 DEF RunVertex
<1>12. ASSUME NEW w \in Worker, CompleteIO(w) PROVE Phases'
  BY <1>12 DEF CompleteIO
<1>13. ASSUME NEW w \in Worker, TakeStolenMsgs(w) PROVE Phases'
  BY <1>13 DEF TakeStolenMsgs
<1>14. ASSUME NEW w \in Worker, GuardMsgs(w) PROVE Phases'
  BY <1>14 DEF GuardMsgs
<1>15. ASSUME NEW w \in Worker, EnterStealMode(w) PROVE Phases'
  BY <1>15 DEF EnterStealMode
<1>16. ASSUME NEW w \in Worker, FetchMsgs(w) PROVE Phases'
  BY <1>16 DEF FetchMsgs
<1>17. ASSUME NEW w \in Worker, ProcessMsg(w) PROVE Phases'
  BY <1>17 DEF ProcessMsg
<1>18. ASSUME NEW w \in Worker, EndHandler(w) PROVE Phases'
  BY <1>18 DEF EndHandler, Activate, Mail
<1>19. ASSUME NEW w \in Worker, UnguardMsgs(w) PROVE Phases'
  BY <1>19 DEF UnguardMsgs
<1>20. ASSUME NEW w \in Worker, LoopAgain(w) PROVE Phases'
  BY <1>20 DEF LoopAgain
<1>21. ASSUME NEW w \in Worker, EndIteration(w) PROVE Phases'
  BY <1>21 DEF EndIteration
<1>22. ASSUME NEW w \in Worker, FlushMsgs(w) PROVE Phases'
  BY <1>22 DEF FlushMsgs
<1>23. ASSUME NEW w \in Worker, FirstLevel(w) PROVE Phases'
  BY <1>23 DEF FirstLevel, CountActivated
<1>24. ASSUME NEW w \in Worker, EnterNextLevel(w) PROVE Phases'
  <2>1. entering /\ pc[w] # "barrier2" /\ ~(complete /\ level > 0)
    BY <1>24 DEF EnterNextLevel
  <2>2. CASE arrived + 1 < NumThreads
    BY <1>24, <2>1, <2>2 DEF EnterNextLevel, CountActivated
  <2>3. CASE ~(arrived + 1 < NumThreads)
    <3>1. \A x \in Worker : pc'[x] = "barrier2"
      BY <1>24, <2>1, <2>3, LastArrives DEF EnterNextLevel
    <3> QED BY <1>24, <2>1, <3>1 DEF EnterNextLevel
  <2> QED BY <2>2, <2>3
<1>25. CASE Barrier1
  BY <1>25, SMTT(30) DEF Barrier1, All
<1>26. CASE Barrier2
  BY <1>26 DEF Barrier2, All
<1>27. CASE UNCHANGED vars
  BY <1>27 DEF vars
<1> QED BY <1>1, <1>2, <1>3, <1>4, <1>5, <1>6, <1>7, <1>8, <1>9, <1>10, <1>11, <1>12, <1>13, <1>14, <1>15, <1>16, <1>17, <1>18, <1>19, <1>20, <1>21, <1>22, <1>23, <1>24, <1>25, <1>26, <1>27 DEF Next, WorkerStep, Stopped

\* Every step keeps messages where they belong.
LEMMA MailStep == ASSUME IInv, Types', [Next]_vars PROVE Mail'
<1> USE DEF config, queues, balancer, senders, inbox, stealState, levels, IInv, Types, Phases, Mail, Starting, Goto
<1>1. ASSUME NEW w \in Worker, ReturnVertices(w) PROVE Mail'
  BY <1>1 DEF ReturnVertices
<1>2. ASSUME NEW w \in Worker, ClearStolen(w) PROVE Mail'
  BY <1>2 DEF ClearStolen
<1>3. ASSUME NEW w \in Worker, FetchOwn(w) PROVE Mail'
  BY <1>3 DEF FetchOwn
<1>4. ASSUME NEW w \in Worker, FetchNone(w) PROVE Mail'
  BY <1>4 DEF FetchNone
<1>5. ASSUME NEW w \in Worker, StartSteal(w) PROVE Mail'
  BY <1>5 DEF StartSteal
<1>6. ASSUME NEW w \in Worker, Steal(w) PROVE Mail'
  BY <1>6 DEF Steal
<1>7. ASSUME NEW w \in Worker, PrepareSteal(w) PROVE Mail'
  BY <1>7 DEF PrepareSteal
<1>8. ASSUME NEW w \in Worker, MarkStolen(w) PROVE Mail'
  BY <1>8 DEF MarkStolen
<1>9. ASSUME NEW w \in Worker, WaitGuard(w) PROVE Mail'
  BY <1>9 DEF WaitGuard
<1>10. ASSUME NEW w \in Worker, CountVertices(w) PROVE Mail'
  BY <1>10 DEF CountVertices
<1>11. ASSUME NEW w \in Worker, RunVertex(w) PROVE Mail'
  <2>1. PICK v \in batch[w] :
          \/ UNCHANGED <<next, senders, msgq, done>>
          \/ Send(w, v)
    BY <1>11 DEF RunVertex
  <2>2. /\ \A p \in Worker : \A m \in msgq'[p] : m \in msgq[p] \/ Owner[m.dest] = p
        /\ \A x \in Worker \ {w} : buf'[x] = buf[x]
    BY <2>1, SendEffect
  <2> QED BY <1>11, <2>2 DEF RunVertex
<1>12. ASSUME NEW w \in Worker, CompleteIO(w) PROVE Mail'
  <2>1. PICK v \in pend[w] : Send(w, v)
    BY <1>12 DEF CompleteIO
  <2>2. /\ \A p \in Worker : \A m \in msgq'[p] : m \in msgq[p] \/ Owner[m.dest] = p
        /\ \A x \in Worker \ {w} : buf'[x] = buf[x]
    BY <2>1, SendEffect
  <2>3. ~entering /\ \A x \in Worker : ~Starting(x)
    BY <1>12 DEF CompleteIO
  <2>4. pc[w] = "io" /\ UNCHANGED <<pc, entering, stolenMsgs, fetched, handling>>
    BY <1>12 DEF CompleteIO
  <2>5. \A x \in Worker : \A m \in (msgq[x] \cup stolenMsgs[x] \cup fetched[x])' : Owner[m.dest] = x
    BY <2>2, <2>4
  <2>6. \A x \in Worker : (pc[x] = "giveback" \/ entering)' => buf'[x] = {}
    <3> TAKE x \in Worker
    <3>1. CASE x = w
      BY <2>3, <2>4, <3>1
    <3>2. CASE x # w
      <4>1. buf'[x] = buf[x]
        BY <2>2, <3>2
      <4> QED BY <2>4, <4>1
    <3> QED BY <3>1, <3>2
  <2> QED BY <2>3, <2>4, <2>5, <2>6
<1>13. ASSUME NEW w \in Worker, TakeStolenMsgs(w) PROVE Mail'
  BY <1>13 DEF TakeStolenMsgs, Idle
<1>14. ASSUME NEW w \in Worker, GuardMsgs(w) PROVE Mail'
  BY <1>14 DEF GuardMsgs, Idle
<1>15. ASSUME NEW w \in Worker, EnterStealMode(w) PROVE Mail'
  BY <1>15 DEF EnterStealMode
<1>16. ASSUME NEW w \in Worker, FetchMsgs(w) PROVE Mail'
  BY <1>16, MsgFields DEF FetchMsgs, Idle
<1>17. ASSUME NEW w \in Worker, ProcessMsg(w) PROVE Mail'
  BY <1>17, MsgFields DEF ProcessMsg, Activate
<1>18. ASSUME NEW w \in Worker, EndHandler(w) PROVE Mail'
  BY <1>18 DEF EndHandler, Activate
<1>19. ASSUME NEW w \in Worker, UnguardMsgs(w) PROVE Mail'
  BY <1>19 DEF UnguardMsgs, Idle
<1>20. ASSUME NEW w \in Worker, LoopAgain(w) PROVE Mail'
  BY <1>20 DEF LoopAgain
<1>21. ASSUME NEW w \in Worker, EndIteration(w) PROVE Mail'
  <2>1. /\ \A p \in Worker : \A m \in msgq'[p] : m \in msgq[p] \/ Owner[m.dest] = p
        /\ \A x \in Worker \ {w} : buf'[x] = buf[x]
    BY <1>21 DEF EndIteration, ActivateIds, SendCached, To
  <2>2. ~entering /\ \A x \in Worker : ~Starting(x)
    BY <1>21 DEF EndIteration
  <2> QED BY <1>21, <2>1, <2>2 DEF EndIteration
<1>22. ASSUME NEW w \in Worker, FlushMsgs(w) PROVE Mail'
  BY <1>22 DEF FlushMsgs, To
<1>23. ASSUME NEW w \in Worker, FirstLevel(w) PROVE Mail'
  BY <1>23 DEF FirstLevel
<1>24. ASSUME NEW w \in Worker, EnterNextLevel(w) PROVE Mail'
  BY <1>24 DEF EnterNextLevel
<1>25. CASE Barrier1
  BY <1>25 DEF Barrier1, All
<1>26. CASE Barrier2
  BY <1>26 DEF Barrier2, All
<1>27. CASE UNCHANGED vars
  BY <1>27 DEF vars
<1> QED BY <1>1, <1>2, <1>3, <1>4, <1>5, <1>6, <1>7, <1>8, <1>9, <1>10, <1>11, <1>12, <1>13, <1>14, <1>15, <1>16, <1>17, <1>18, <1>19, <1>20, <1>21, <1>22, <1>23, <1>24, <1>25, <1>26, <1>27 DEF Next, WorkerStep, Stopped

\* Every step keeps a vertex in one place.
LEMMA PlacesStep == ASSUME IInv, Types', [Next]_vars PROVE Places'
<1> USE DEF config, queues, balancer, senders, inbox, stealState, levels, IInv, Types, Phases, Places, Held, Goto
<1>1. ASSUME NEW w \in Worker, ReturnVertices(w) PROVE Places'
  <2> DEFINE o == Min({Owner[v] : v \in done[w]})
             S == done[w] \cap Own(o)
  <2>1. S \subseteq done[w]
    OBVIOUS
  <2> HIDE DEF o, S
  <2>2. /\ done' = [done EXCEPT ![w] = @ \ S]
        /\ \/ serialRun /\ returning' = [returning EXCEPT ![w] = S]
           \/ UNCHANGED returning
        /\ returning[w] = {} /\ pc[w] \in {"return", "giveback"}
        /\ UNCHANGED <<serialRun, pc, entering, curr, next, batch, pend, victim, tries>>
    BY <1>1 DEF ReturnVertices, o, S
  <2> QED BY <2>1, <2>2
<1>2. ASSUME NEW w \in Worker, ClearStolen(w) PROVE Places'
  BY <1>2 DEF ClearStolen
<1>3. ASSUME NEW w \in Worker, FetchOwn(w) PROVE Places'
  BY <1>3 DEF FetchOwn, GaveBack, Fetch, kSubset, Own
<1>4. ASSUME NEW w \in Worker, FetchNone(w) PROVE Places'
  BY <1>4 DEF FetchNone
<1>5. ASSUME NEW w \in Worker, StartSteal(w) PROVE Places'
  BY <1>5, ThreadsAssumption DEF StartSteal, GaveBack
<1>6. ASSUME NEW w \in Worker, Steal(w) PROVE Places'
  <2>1. PICK S \in SUBSET curr[victim[w]] :
          /\ batch' = [batch EXCEPT ![w] = S]
          /\ curr' = [curr EXCEPT ![victim[w]] = @ \ S]
          /\ victim' = [victim EXCEPT ![w] = IF S = {} THEN (@ + 1) % NumThreads ELSE @]
          /\ Goto(w, IF S # {} THEN (IF serialRun THEN "prepare" ELSE "count")
                     ELSE IF tries[w] + 1 < NumThreads THEN "steal" ELSE "msgs")
    BY <1>6 DEF Steal, Fetch, kSubset
  <2>2. /\ pc[w] = "steal" /\ ~entering /\ batch[w] = {} /\ victim[w] \in Worker
        /\ tries' = [tries EXCEPT ![w] = @ + 1]
        /\ UNCHANGED <<serialRun, entering, next, pend, done, returning>>
    BY <1>6 DEF Steal
  <2>0. \A x \in Worker : tries'[x] <= NumThreads
    <3>1. tries[w] \in Nat /\ tries[w] < NumThreads /\ NumThreads \in Nat
      BY <2>2, ThreadsAssumption
    <3>2. \A x \in Worker : tries[x] <= NumThreads
      OBVIOUS
    <3> QED BY <2>2, <3>1, <3>2
  <2>3. CASE S = {}
    <3>1. curr' = curr /\ batch' = batch
      BY <2>1, <2>2, <2>3
    <3>2. \A x \in Worker \ {w} : pc'[x] = pc[x] /\ victim'[x] = victim[x] /\ tries'[x] = tries[x]
      BY <2>1, <2>2
    <3>3. pc'[w] \in {"steal", "msgs"} /\ (pc'[w] = "steal" => tries'[w] < NumThreads)
      BY <2>1, <2>2, <2>3
    <3>4. UNCHANGED <<serialRun, entering, next, pend, done, returning>> /\ ~entering /\ curr[w] = {} /\ batch[w] = {}
      BY <2>2
    <3>5. \A x \in Worker : Held(x)' = Held(x) /\ tries'[x] <= NumThreads
      BY <2>0, <3>1, <3>4
    <3>6. Places
      OBVIOUS
    <3> HIDE DEF IInv, Types, Held
    <3> QED BY <3>1, <3>2, <3>3, <3>4, <3>5, <3>6
  <2>4. CASE S # {}
    <3>1. victim[w] # w /\ victim' = victim
      BY <2>1, <2>2, <2>4
    <3>2. \A v \in S : Owner[v] = victim[w] /\ v \in curr[Owner[v]] /\ v \notin curr'[Owner[v]]
      BY <2>1, <2>2 DEF Own
    <3>3. \A x \in Worker : Held(x) \cap S = {} /\ curr'[x] \subseteq curr[x]
      BY <2>1, <2>2, <3>2
    <3>4. pc'[w] \in {"prepare", "count"} /\ (pc'[w] = "prepare" => serialRun)
      BY <2>1, <2>2, <2>4
    <3>5. \A x \in Worker \ {w} : pc'[x] = pc[x] /\ tries'[x] = tries[x] /\ batch'[x] = batch[x]
      BY <2>1, <2>2
    <3>6. batch'[w] = S
      BY <2>1
    <3>7. /\ Held(w)' = Held(w) \cup S
          /\ \A x \in Worker \ {w} : Held(x)' = Held(x)
      BY <2>2, <3>5, <3>6
    <3>8. /\ \A x, y \in Worker : x # y => Held(x) \cap Held(y) = {}
          /\ \A x \in Worker : \A v \in Held(x) : v \in Vertex /\ v \notin curr[Owner[v]]
      OBVIOUS
    <3>9. batch'[w] \cap (pend'[w] \cup done'[w] \cup returning'[w]) = {}
      BY <2>2, <3>3, <3>6
    <3> HIDE DEF Held
    <3>11. \A x, y \in Worker : x # y => Held(x)' \cap Held(y)' = {}
      <4> HIDE DEF IInv, Types
      <4> QED BY <3>3, <3>7, <3>8
    <3>12. \A x \in Worker : \A v \in Held(x)' : v \notin curr'[Owner[v]]
      <4> HIDE DEF IInv, Types
      <4> QED BY <3>2, <3>3, <3>7, <3>8
    <3>10. pc'[w] = "prepare" => serialRun' /\ victim'[w] # w /\ batch'[w] \subseteq Own(victim'[w])
      BY <2>2, <3>1, <3>2, <3>4, <3>6 DEF Own
    <3>13. Places /\ ~entering /\ pc[w] = "steal" /\ UNCHANGED <<serialRun, entering, next, pend, done, returning>>
      BY <2>2
    <3> HIDE DEF IInv, Types
    <3> QED BY <2>0, <3>1, <3>3, <3>4, <3>5, <3>9, <3>10, <3>11, <3>12, <3>13
  <2> QED BY <2>3, <2>4
<1>7. ASSUME NEW w \in Worker, PrepareSteal(w) PROVE Places'
  BY <1>7 DEF PrepareSteal
<1>8. ASSUME NEW w \in Worker, MarkStolen(w) PROVE Places'
  BY <1>8 DEF MarkStolen
<1>9. ASSUME NEW w \in Worker, WaitGuard(w) PROVE Places'
  BY <1>9 DEF WaitGuard
<1>10. ASSUME NEW w \in Worker, CountVertices(w) PROVE Places'
  BY <1>10 DEF CountVertices
<1>11. ASSUME NEW w \in Worker, RunVertex(w) PROVE Places'
  <2>1. PICK v \in batch[w] :
          /\ batch' = [batch EXCEPT ![w] = @ \ {v}]
          /\ \/ /\ pend' = [pend EXCEPT ![w] = @ \cup {v}]
                /\ UNCHANGED <<next, done>>
             \/ Send(w, v) /\ CompleteVertex(w, v) /\ UNCHANGED pend
          /\ Goto(w, IF batch[w] = {v} THEN "msgs" ELSE "run")
    BY <1>11 DEF RunVertex
  <2>2. pc[w] = "run" /\ ~entering /\ UNCHANGED <<serialRun, entering, curr, returning, victim, tries>>
    BY <1>11 DEF RunVertex
  <2>3. CASE pend' = [pend EXCEPT ![w] = @ \cup {v}] /\ UNCHANGED <<next, done>>
    BY <2>1, <2>2, <2>3
  <2>4. CASE Send(w, v) /\ CompleteVertex(w, v) /\ UNCHANGED pend
    <3>1. \A p \in Worker : next'[p] \subseteq next[p] \cup Own(p)
      BY <2>4, SendEffect
    <3> QED BY <2>1, <2>2, <2>4, <3>1 DEF CompleteVertex
  <2> QED BY <2>1, <2>3, <2>4
<1>12. ASSUME NEW w \in Worker, CompleteIO(w) PROVE Places'
  <2>1. PICK v \in pend[w] :
          pend' = [pend EXCEPT ![w] = @ \ {v}] /\ Send(w, v) /\ CompleteVertex(w, v)
    BY <1>12 DEF CompleteIO
  <2>2. \A p \in Worker : next'[p] \subseteq next[p] \cup Own(p)
    BY <2>1, SendEffect
  <2>3. pc[w] = "io" /\ ~entering /\ UNCHANGED <<serialRun, pc, entering, curr, batch, returning, victim, tries>>
    BY <1>12 DEF CompleteIO
  <2> QED BY <2>1, <2>2, <2>3 DEF CompleteVertex
<1>13. ASSUME NEW w \in Worker, TakeStolenMsgs(w) PROVE Places'
  BY <1>13 DEF TakeStolenMsgs
<1>14. ASSUME NEW w \in Worker, GuardMsgs(w) PROVE Places'
  BY <1>14 DEF GuardMsgs
<1>15. ASSUME NEW w \in Worker, EnterStealMode(w) PROVE Places'
  BY <1>15 DEF EnterStealMode
<1>16. ASSUME NEW w \in Worker, FetchMsgs(w) PROVE Places'
  BY <1>16 DEF FetchMsgs
<1>17. ASSUME NEW w \in Worker, ProcessMsg(w) PROVE Places'
  <2>1. next'[w] \subseteq next[w] \cup Own(w) /\ \A x \in Worker \ {w} : next'[x] = next[x]
    BY <1>17, MsgFields DEF ProcessMsg, Activate, Mail, Own
  <2>2. /\ pc[w] \in {"replay", "drain"}
        /\ UNCHANGED <<serialRun, entering, pc, curr, batch, pend, done, returning, victim, tries>>
    BY <1>17 DEF ProcessMsg
  <2>3. \A x \in Worker : next'[x] \subseteq Own(x) /\ (entering' /\ pc'[x] = "barrier2" => next'[x] = {})
    BY <2>1, <2>2, ZenonT(40)
  <2>4. \A x \in Worker : Held(x)' = Held(x)
    BY <2>2
  <2> HIDE DEF Held
  <2> QED BY <2>2, <2>3, <2>4
<1>18. ASSUME NEW w \in Worker, EndHandler(w) PROVE Places'
  <2>1. next'[w] \subseteq next[w] \cup Own(w) /\ \A x \in Worker \ {w} : next'[x] = next[x]
    BY <1>18, MsgFields DEF EndHandler, Activate, Mail, Own
  <2>2. /\ pc[w] \in {"replay", "drain"}
        /\ UNCHANGED <<serialRun, entering, pc, curr, batch, pend, done, returning, victim, tries>>
    BY <1>18 DEF EndHandler, Mail
  <2>3. \A x \in Worker : next'[x] \subseteq Own(x) /\ (entering' /\ pc'[x] = "barrier2" => next'[x] = {})
    BY <2>1, <2>2, ZenonT(40)
  <2>4. \A x \in Worker : Held(x)' = Held(x)
    BY <2>2
  <2> HIDE DEF Held
  <2> QED BY <2>2, <2>3, <2>4
<1>19. ASSUME NEW w \in Worker, UnguardMsgs(w) PROVE Places'
  BY <1>19 DEF UnguardMsgs
<1>20. ASSUME NEW w \in Worker, LoopAgain(w) PROVE Places'
  BY <1>20 DEF LoopAgain
<1>21. ASSUME NEW w \in Worker, EndIteration(w) PROVE Places'
  <2>1. pc[w] = "io" /\ pend[w] = {} /\ ~(remaining > 0)
    BY <1>21 DEF EndIteration, MoreInLevel
  <2>2. remaining = Cardinality(Unread)
    BY <2>1 DEF Counters, ToRead, Waiting, AtBarrier
  <2>3. IsFiniteSet(Unread) /\ Cardinality(Unread) \in Nat
    <3>1. Unread \in SUBSET Vertex
      BY DEF Unread
    <3> QED BY <3>1, SubsetCard
  <2>4. Unread = {}
    BY <2>1, <2>2, <2>3, FS_EmptySet
  <2>5. \A x \in Worker : curr[x] = {}
    BY <2>4 DEF Unread, Own
  <2> QED BY <1>21, <2>1, <2>5 DEF EndIteration
<1>22. ASSUME NEW w \in Worker, FlushMsgs(w) PROVE Places'
  BY <1>22 DEF FlushMsgs
<1>23. ASSUME NEW w \in Worker, FirstLevel(w) PROVE Places'
  BY <1>23 DEF FirstLevel
<1>24. ASSUME NEW w \in Worker, EnterNextLevel(w) PROVE Places'
  <2>1. pc[w] = "switch" /\ entering
    BY <1>24 DEF EnterNextLevel
  <2>2. \A x \in Worker : Held(x) = {} /\ Held(x)' = {}
    BY <1>24, <2>1 DEF EnterNextLevel
  <2>3. /\ curr'[w] = next[w] /\ next'[w] = {} /\ pc'[w] = "barrier2"
        /\ \A x \in Worker \ {w} : curr'[x] = curr[x] /\ next'[x] = next[x] /\ pc'[x] = pc[x]
    BY <1>24 DEF EnterNextLevel
  <2>4. \A x \in Worker : pc'[x] \in {"msgs", "replay", "mode", "drain", "switch", "barrier2"}
    BY <2>1, <2>3
  <2>5. \A x \in Worker : batch'[x] = {} /\ pend'[x] = {} /\ done'[x] = {} /\ returning'[x] = {}
    BY <2>2
  <2>6. \A x \in Worker : next[x] \subseteq Own(x) /\ curr'[x] \subseteq Own(x) /\ next'[x] \subseteq Own(x)
    BY <2>3, ZenonT(40)
  <2>7. \A x \in Worker : /\ entering' /\ pc'[x] # "barrier2" => curr'[x] = {}
                          /\ entering' /\ pc'[x] = "barrier2" => next'[x] = {}
    <3> TAKE x \in Worker
    <3>1. CASE x = w
      BY <2>3, <3>1
    <3>2. CASE x # w
      <4>1. curr'[x] = curr[x] /\ next'[x] = next[x] /\ pc'[x] = pc[x]
        BY <2>3, <3>2
      <4>2. /\ pc[x] # "barrier2" => curr[x] = {}
            /\ pc[x] = "barrier2" => next[x] = {}
        BY <2>1
      <4> QED BY <4>1, <4>2
    <3> QED BY <3>1, <3>2
  <2> HIDE DEF Held
  <2>8. \A x \in Worker : /\ \A y \in Worker : x # y => Held(x)' \cap Held(y)' = {}
                          /\ \A v \in Held(x)' : v \notin curr'[Owner[v]]
    BY <2>2
  <2>9. \A x \in Worker : tries'[x] <= NumThreads
    BY <1>24 DEF EnterNextLevel
  <2> HIDE DEF IInv, Types
  <2> QED BY <2>2, <2>4, <2>5, <2>6, <2>7, <2>8, <2>9
<1>25. CASE Barrier1
  <2>1. \A w \in Worker : pc[w] = "giveback" /\ done[w] = {} /\ returning[w] = {}
    BY <1>25 DEF Barrier1, GaveBack
  <2>2. \A w \in Worker : batch[w] = {} /\ pend[w] = {} /\ curr[w] = {}
    BY <2>1
  <2>3. \A w \in Worker : pc'[w] = "msgs"
    BY <1>25 DEF Barrier1, All
  <2> QED BY <1>25, <2>1, <2>2, <2>3 DEF Barrier1
<1>26. CASE Barrier2
  <2>1. \A w \in Worker : pc[w] = "barrier2" /\ pc'[w] \in {"stop", "return"}
    BY <1>26 DEF Barrier2, All
  <2>2. \A w \in Worker : batch[w] = {} /\ pend[w] = {} /\ done[w] = {} /\ returning[w] = {}
    BY <2>1 DEF Starting
  <2>3. UNCHANGED <<curr, next, batch, pend, done, returning>> /\ entering' = FALSE
    BY <1>26 DEF Barrier2
  <2>4. \A w \in Worker : Held(w)' = {}
    BY <2>2, <2>3
  <2> HIDE DEF Held
  <2>5. \A x \in Worker : /\ \A y \in Worker : x # y => Held(x)' \cap Held(y)' = {}
                          /\ \A v \in Held(x)' : v \notin curr'[Owner[v]]
    BY <2>4
  <2>6. \A x \in Worker : curr'[x] \subseteq Own(x) /\ next'[x] \subseteq Own(x)
    BY <2>3
  <2>7. \A x \in Worker : batch'[x] = {} /\ pend'[x] = {} /\ done'[x] = {} /\ returning'[x] = {}
    BY <2>2, <2>3
  <2>8. \A x \in Worker : tries'[x] <= NumThreads
    BY <1>26 DEF Barrier2
  <2> HIDE DEF IInv, Types
  <2> QED BY <2>1, <2>3, <2>5, <2>6, <2>7, <2>8
<1>27. CASE UNCHANGED vars
  BY <1>27 DEF vars
<1> HIDE DEF Places, Held
<1> QED BY <1>1, <1>2, <1>3, <1>4, <1>5, <1>6, <1>7, <1>8, <1>9, <1>10, <1>11, <1>12, <1>13, <1>14, <1>15, <1>16, <1>17, <1>18, <1>19, <1>20, <1>21, <1>22, <1>23, <1>24, <1>25, <1>26, <1>27 DEF Next, WorkerStep, Stopped

\* The sizes of disjoint sets of vertices add up.
LEMMA DisjointCard == ASSUME NEW S \in SUBSET Vertex, NEW T \in SUBSET Vertex, S \cap T = {}
                      PROVE Cardinality(S \cup T) = Cardinality(S) + Cardinality(T)
<1>1. IsFiniteSet(S) /\ IsFiniteSet(T) /\ Cardinality(S) \in Nat /\ Cardinality(T) \in Nat
  BY SubsetCard
<1>2. Cardinality(S \cap T) = 0
  BY FS_EmptySet
<1>3. Cardinality(S \cup T) = Cardinality(S) + Cardinality(T) - Cardinality(S \cap T)
  BY <1>1, FS_Union
<1> QED BY <1>1, <1>2, <1>3

\* The total counts every active vertex once.
LEMMA GatherMore == ASSUME IInv, NEW w \in Worker, pc[w] # "barrier2", NEW S \in SUBSET Own(w)
                    PROVE Cardinality(Gathered \cup S) = total + Cardinality(S)
<1>1. Gathered \in SUBSET Vertex /\ S \in SUBSET Vertex /\ Gathered \cap S = {}
  BY DEF Gathered, Own
<1>2. total = Cardinality(Gathered)
  BY DEF IInv, Counters, Arrivals, AtBarrier
<1> QED BY <1>1, <1>2, DisjointCard

\* Every step keeps the counters of the barrier exact.
LEMMA ArrivalsStep == ASSUME IInv, Types', [Next]_vars PROVE Arrivals'
<1> USE DEF config, queues, balancer, senders, inbox, stealState, levels, IInv, Types, Phases, Counters, Arrivals, AtBarrier, Gathered, Goto
<1>1. ASSUME NEW w \in Worker, ReturnVertices(w) PROVE Arrivals'
  <2>1. AtBarrier' = AtBarrier /\ Gathered' = Gathered
    BY <1>1 DEF ReturnVertices
  <2> QED BY <1>1, <2>1 DEF ReturnVertices
<1>2. ASSUME NEW w \in Worker, ClearStolen(w) PROVE Arrivals'
  <2>1. AtBarrier' = AtBarrier /\ Gathered' = Gathered
    BY <1>2 DEF ClearStolen
  <2> QED BY <1>2, <2>1 DEF ClearStolen
<1>3. ASSUME NEW w \in Worker, FetchOwn(w) PROVE Arrivals'
  <2>1. AtBarrier' = AtBarrier /\ Gathered' = Gathered
    BY <1>3 DEF FetchOwn, Places, Own
  <2> QED BY <1>3, <2>1 DEF FetchOwn
<1>4. ASSUME NEW w \in Worker, FetchNone(w) PROVE Arrivals'
  <2>1. AtBarrier' = AtBarrier /\ Gathered' = Gathered
    BY <1>4 DEF FetchNone
  <2> QED BY <1>4, <2>1 DEF FetchNone
<1>5. ASSUME NEW w \in Worker, StartSteal(w) PROVE Arrivals'
  <2>1. AtBarrier' = AtBarrier /\ Gathered' = Gathered
    BY <1>5 DEF StartSteal
  <2> QED BY <1>5, <2>1 DEF StartSteal
<1>6. ASSUME NEW w \in Worker, Steal(w) PROVE Arrivals'
  <2>1. AtBarrier' = AtBarrier /\ Gathered' = Gathered
    <3>1. ~entering /\ \A x \in Worker : pc[x] # "barrier2"
      BY <1>6 DEF Steal
    <3>2. \A x \in Worker : pc'[x] # "barrier2"
      BY <1>6, <3>1 DEF Steal
    <3> HIDE DEF IInv, Types
    <3> QED BY <3>1, <3>2
  <2> QED BY <1>6, <2>1 DEF Steal
<1>7. ASSUME NEW w \in Worker, PrepareSteal(w) PROVE Arrivals'
  <2>1. AtBarrier' = AtBarrier /\ Gathered' = Gathered
    BY <1>7 DEF PrepareSteal
  <2> QED BY <1>7, <2>1 DEF PrepareSteal
<1>8. ASSUME NEW w \in Worker, MarkStolen(w) PROVE Arrivals'
  <2>1. AtBarrier' = AtBarrier /\ Gathered' = Gathered
    BY <1>8 DEF MarkStolen
  <2> QED BY <1>8, <2>1 DEF MarkStolen
<1>9. ASSUME NEW w \in Worker, WaitGuard(w) PROVE Arrivals'
  <2>1. AtBarrier' = AtBarrier /\ Gathered' = Gathered
    BY <1>9 DEF WaitGuard
  <2> QED BY <1>9, <2>1 DEF WaitGuard
<1>10. ASSUME NEW w \in Worker, CountVertices(w) PROVE Arrivals'
  <2>1. AtBarrier' = AtBarrier /\ Gathered' = Gathered
    BY <1>10 DEF CountVertices
  <2> QED BY <1>10, <2>1 DEF CountVertices
<1>11. ASSUME NEW w \in Worker, RunVertex(w) PROVE Arrivals'
  <2>1. AtBarrier' = AtBarrier /\ Gathered' = Gathered
    BY <1>11 DEF RunVertex
  <2> QED BY <1>11, <2>1 DEF RunVertex
<1>12. ASSUME NEW w \in Worker, CompleteIO(w) PROVE Arrivals'
  <2>1. AtBarrier' = AtBarrier /\ Gathered' = Gathered
    BY <1>12 DEF CompleteIO
  <2> QED BY <1>12, <2>1 DEF CompleteIO
<1>13. ASSUME NEW w \in Worker, TakeStolenMsgs(w) PROVE Arrivals'
  <2>1. AtBarrier' = AtBarrier /\ Gathered' = Gathered
    BY <1>13 DEF TakeStolenMsgs
  <2> QED BY <1>13, <2>1 DEF TakeStolenMsgs
<1>14. ASSUME NEW w \in Worker, GuardMsgs(w) PROVE Arrivals'
  <2>1. AtBarrier' = AtBarrier /\ Gathered' = Gathered
    BY <1>14 DEF GuardMsgs
  <2> QED BY <1>14, <2>1 DEF GuardMsgs
<1>15. ASSUME NEW w \in Worker, EnterStealMode(w) PROVE Arrivals'
  <2>1. AtBarrier' = AtBarrier /\ Gathered' = Gathered
    BY <1>15 DEF EnterStealMode
  <2> QED BY <1>15, <2>1 DEF EnterStealMode
<1>16. ASSUME NEW w \in Worker, FetchMsgs(w) PROVE Arrivals'
  <2>1. AtBarrier' = AtBarrier /\ Gathered' = Gathered
    BY <1>16 DEF FetchMsgs
  <2> QED BY <1>16, <2>1 DEF FetchMsgs
<1>17. ASSUME NEW w \in Worker, ProcessMsg(w) PROVE Arrivals'
  <2>1. AtBarrier' = AtBarrier /\ Gathered' = Gathered
    BY <1>17 DEF ProcessMsg
  <2> QED BY <1>17, <2>1 DEF ProcessMsg
<1>18. ASSUME NEW w \in Worker, EndHandler(w) PROVE Arrivals'
  <2>1. AtBarrier' = AtBarrier /\ Gathered' = Gathered
    BY <1>18 DEF EndHandler
  <2> QED BY <1>18, <2>1 DEF EndHandler
<1>19. ASSUME NEW w \in Worker, UnguardMsgs(w) PROVE Arrivals'
  <2>1. AtBarrier' = AtBarrier /\ Gathered' = Gathered
    BY <1>19 DEF UnguardMsgs
  <2> QED BY <1>19, <2>1 DEF UnguardMsgs
<1>20. ASSUME NEW w \in Worker, LoopAgain(w) PROVE Arrivals'
  <2>1. AtBarrier' = AtBarrier /\ Gathered' = Gathered
    BY <1>20 DEF LoopAgain
  <2> QED BY <1>20, <2>1 DEF LoopAgain
<1>21. ASSUME NEW w \in Worker, EndIteration(w) PROVE Arrivals'
  <2>1. AtBarrier' = AtBarrier /\ Gathered' = Gathered
    BY <1>21 DEF EndIteration
  <2> QED BY <1>21, <2>1 DEF EndIteration
<1>22. ASSUME NEW w \in Worker, FlushMsgs(w) PROVE Arrivals'
  <2>1. AtBarrier' = AtBarrier /\ Gathered' = Gathered
    BY <1>22 DEF FlushMsgs
  <2> QED BY <1>22, <2>1 DEF FlushMsgs
<1>23. ASSUME NEW w \in Worker, FirstLevel(w) PROVE Arrivals'
  <2>1. pc[w] = "first" /\ curr' = curr /\ pc'[w] = "barrier2" /\ \A x \in Worker \ {w} : pc'[x] = pc[x]
    BY <1>23 DEF FirstLevel
  <2>2. AtBarrier' = AtBarrier \cup {w} /\ Gathered' = Gathered \cup curr[w]
    BY <2>1 DEF Places, Own
  <2>4. curr[w] \in SUBSET Own(w)
    BY DEF Places
  <2> HIDE DEF IInv, Types, AtBarrier, Gathered
  <2>3. /\ Cardinality(Gathered') = total + Cardinality(curr[w])
        /\ Cardinality(AtBarrier') = arrived + 1
        /\ arrived + 1 < NumThreads <=> AtBarrier' # Worker
    BY <2>1, <2>2, <2>4, GatherMore, OneArrives
  <2> QED BY <1>23, <2>3 DEF FirstLevel, CountActivated
<1>24. ASSUME NEW w \in Worker, EnterNextLevel(w) PROVE Arrivals'
  <2>1. /\ pc[w] = "switch" /\ entering
        /\ curr'[w] = next[w] /\ pc'[w] = "barrier2"
        /\ \A x \in Worker \ {w} : pc'[x] = pc[x] /\ curr'[x] = curr[x]
    BY <1>24 DEF EnterNextLevel
  <2>2. AtBarrier' = AtBarrier \cup {w}
    BY <2>1
  <2>5. next[w] \in SUBSET Own(w) /\ next[w] \in SUBSET Vertex
    BY DEF Places
  <2>3. Gathered' = Gathered \cup next[w]
    <3> HIDE DEF IInv, Types
    <3> QED BY <2>1, <2>5 DEF Own
  <2> HIDE DEF IInv, Types, AtBarrier, Gathered
  <2>4. /\ Cardinality(Gathered') = total + Cardinality(next[w])
        /\ Cardinality(AtBarrier') = arrived + 1
        /\ arrived + 1 < NumThreads <=> AtBarrier' # Worker
    BY <2>1, <2>2, <2>3, <2>5, GatherMore, OneArrives
  <2> QED BY <1>24, <2>4 DEF EnterNextLevel, CountActivated
<1>25. CASE Barrier1
  <2>1. AtBarrier' = AtBarrier /\ Gathered' = Gathered
    BY <1>25 DEF Barrier1, All
  <2> QED BY <1>25, <2>1 DEF Barrier1
<1>26. CASE Barrier2
  <2>1. AtBarrier = Worker /\ AtBarrier' = {} /\ Gathered' = {} /\ Worker # {}
    BY <1>26, Workers, FS_EmptySet DEF Barrier2, All
  <2> HIDE DEF Types, AtBarrier, Gathered
  <2> QED BY <1>26, <2>1, FS_EmptySet DEF Barrier2
<1>27. CASE UNCHANGED vars
  BY <1>27 DEF vars
<1> HIDE DEF Arrivals, Held
<1> QED BY <1>1, <1>2, <1>3, <1>4, <1>5, <1>6, <1>7, <1>8, <1>9, <1>10, <1>11, <1>12, <1>13, <1>14, <1>15, <1>16, <1>17, <1>18, <1>19, <1>20, <1>21, <1>22, <1>23, <1>24, <1>25, <1>26, <1>27 DEF Next, WorkerStep, Stopped

\* Every step keeps num_remaining_vertices_in_level exact.
LEMMA ToReadStep == ASSUME IInv, Types', [Next]_vars PROVE ToRead'
<1> USE DEF config, queues, balancer, senders, inbox, stealState, levels, IInv, Types, Phases, Counters, ToRead, Waiting, AtBarrier, Unread, Goto
<1>1. ASSUME NEW w \in Worker, ReturnVertices(w) PROVE ToRead'
  <2>1. Unread' = Unread /\ Waiting' = Waiting /\ UNCHANGED remaining
    BY <1>1 DEF ReturnVertices
  <2> QED BY <2>1
<1>2. ASSUME NEW w \in Worker, ClearStolen(w) PROVE ToRead'
  <2>1. Unread' = Unread /\ Waiting' = Waiting /\ UNCHANGED remaining
    BY <1>2 DEF ClearStolen
  <2> QED BY <2>1
<1>3. ASSUME NEW w \in Worker, FetchOwn(w) PROVE ToRead'
  <2>1. PICK S \in SUBSET curr[w] : /\ batch' = [batch EXCEPT ![w] = S]
                                    /\ curr' = [curr EXCEPT ![w] = @ \ S]
    BY <1>3 DEF FetchOwn, Fetch, kSubset
  <2>2. /\ pc[w] = "return" /\ batch[w] = {} /\ pc' = [pc EXCEPT ![w] = "count"] /\ UNCHANGED remaining
        /\ \A v \in S : Owner[v] = w
    <3>1. \A v \in S : Owner[v] = w
      BY DEF Places, Own
    <3>2. pc[w] = "return" /\ pc' = [pc EXCEPT ![w] = "count"] /\ UNCHANGED remaining
      BY <1>3 DEF FetchOwn
    <3> QED BY <3>1, <3>2 DEF Places
  <2>3. Unread' = Unread
    BY <2>1, <2>2
  <2>4. Waiting' = Waiting
    BY <2>2
  <2> QED BY <2>2, <2>3, <2>4
<1>4. ASSUME NEW w \in Worker, FetchNone(w) PROVE ToRead'
  <2>1. Unread' = Unread /\ Waiting' = Waiting /\ UNCHANGED remaining
    BY <1>4 DEF FetchNone
  <2> QED BY <2>1
<1>5. ASSUME NEW w \in Worker, StartSteal(w) PROVE ToRead'
  <2>1. Unread' = Unread /\ Waiting' = Waiting /\ UNCHANGED remaining
    BY <1>5 DEF StartSteal
  <2> QED BY <2>1
<1>6. ASSUME NEW w \in Worker, Steal(w) PROVE ToRead'
  <2>1. PICK S \in SUBSET curr[victim[w]] :
          /\ batch' = [batch EXCEPT ![w] = S]
          /\ curr' = [curr EXCEPT ![victim[w]] = @ \ S]
          /\ Goto(w, IF S # {} THEN (IF serialRun THEN "prepare" ELSE "count")
                     ELSE IF tries[w] + 1 < NumThreads THEN "steal" ELSE "msgs")
    BY <1>6 DEF Steal, Fetch, kSubset
  <2>2. /\ pc[w] = "steal" /\ batch[w] = {} /\ UNCHANGED remaining
        /\ \A v \in S : Owner[v] = victim[w]
    <3>1. \A v \in S : Owner[v] = victim[w]
      BY DEF Places, Own
    <3>2. pc[w] = "steal" /\ UNCHANGED remaining
      BY <1>6 DEF Steal
    <3> QED BY <3>1, <3>2 DEF Places
  <2>3. S # {} => pc'[w] \in {"prepare", "count"}
    BY <2>1
  <2>4. pc'[w] \in {"prepare", "count", "steal", "msgs"} /\ \A x \in Worker \ {w} : pc'[x] = pc[x]
    BY <2>1
  <2>5. batch'[w] = S /\ \A x \in Worker \ {w} : batch'[x] = batch[x]
    BY <2>1
  <2>6. \A v \in Vertex : v \in curr'[Owner[v]] <=> v \in curr[Owner[v]] /\ v \notin S
    BY <2>1, <2>2
  <2>7. S \in SUBSET Vertex /\ \A v \in S : v \in curr[Owner[v]]
    BY <2>1, <2>2
  <2>8. Waiting' = Waiting
    BY <2>2, <2>4
  <2>9. Unread' = Unread
    <3> HIDE DEF IInv, Types, Waiting
    <3> QED BY <2>2, <2>3, <2>4, <2>5, <2>6, <2>7
  <2> QED BY <2>2, <2>8, <2>9
<1>7. ASSUME NEW w \in Worker, PrepareSteal(w) PROVE ToRead'
  <2>1. Unread' = Unread /\ Waiting' = Waiting /\ UNCHANGED remaining
    BY <1>7 DEF PrepareSteal
  <2> QED BY <2>1
<1>8. ASSUME NEW w \in Worker, MarkStolen(w) PROVE ToRead'
  <2>1. Unread' = Unread /\ Waiting' = Waiting /\ UNCHANGED remaining
    BY <1>8 DEF MarkStolen
  <2> QED BY <2>1
<1>9. ASSUME NEW w \in Worker, WaitGuard(w) PROVE ToRead'
  <2>1. Unread' = Unread /\ Waiting' = Waiting /\ UNCHANGED remaining
    BY <1>9 DEF WaitGuard
  <2> QED BY <2>1
<1>10. ASSUME NEW w \in Worker, CountVertices(w) PROVE ToRead'
  <2>1. /\ pc[w] = "count" /\ pc' = [pc EXCEPT ![w] = "run"] /\ UNCHANGED <<curr, batch>>
        /\ remaining' = remaining - Cardinality(batch[w])
    BY <1>10 DEF CountVertices
  <2>2. \A v \in batch[w] : v \notin curr[Owner[v]] /\ \A x \in Worker \ {w} : v \notin batch[x]
    BY DEF Places, Held
  <2>3. Unread' = Unread \ batch[w] /\ batch[w] \subseteq Unread
    BY <2>1, <2>2
  <2>4. ~Waiting /\ ~Waiting'
    BY <2>1
  <2>5. Unread' \in SUBSET Vertex /\ batch[w] \in SUBSET Vertex
    BY <2>3
  <2>6. remaining = Cardinality(Unread)
    BY <2>4
  <2> HIDE DEF IInv, Types, Unread, Waiting
  <2>7. Unread' \cap batch[w] = {} /\ Unread = Unread' \cup batch[w]
    BY <2>3
  <2>8. Cardinality(Unread) = Cardinality(Unread') + Cardinality(batch[w])
    BY <2>5, <2>7, DisjointCard
  <2>9. Cardinality(Unread') \in Nat /\ Cardinality(batch[w]) \in Nat
    BY <2>5, SubsetCard
  <2> QED BY <2>1, <2>4, <2>6, <2>8, <2>9
<1>11. ASSUME NEW w \in Worker, RunVertex(w) PROVE ToRead'
  <2>1. Unread' = Unread /\ Waiting' = Waiting /\ UNCHANGED remaining
    BY <1>11 DEF RunVertex
  <2> QED BY <2>1
<1>12. ASSUME NEW w \in Worker, CompleteIO(w) PROVE ToRead'
  <2>1. Unread' = Unread /\ Waiting' = Waiting /\ UNCHANGED remaining
    BY <1>12 DEF CompleteIO
  <2> QED BY <2>1
<1>13. ASSUME NEW w \in Worker, TakeStolenMsgs(w) PROVE ToRead'
  <2>1. Unread' = Unread /\ Waiting' = Waiting /\ UNCHANGED remaining
    BY <1>13 DEF TakeStolenMsgs
  <2> QED BY <2>1
<1>14. ASSUME NEW w \in Worker, GuardMsgs(w) PROVE ToRead'
  <2>1. Unread' = Unread /\ Waiting' = Waiting /\ UNCHANGED remaining
    BY <1>14 DEF GuardMsgs
  <2> QED BY <2>1
<1>15. ASSUME NEW w \in Worker, EnterStealMode(w) PROVE ToRead'
  <2>1. Unread' = Unread /\ Waiting' = Waiting /\ UNCHANGED remaining
    BY <1>15 DEF EnterStealMode
  <2> QED BY <2>1
<1>16. ASSUME NEW w \in Worker, FetchMsgs(w) PROVE ToRead'
  <2>1. Unread' = Unread /\ Waiting' = Waiting /\ UNCHANGED remaining
    BY <1>16 DEF FetchMsgs
  <2> QED BY <2>1
<1>17. ASSUME NEW w \in Worker, ProcessMsg(w) PROVE ToRead'
  <2>1. Unread' = Unread /\ Waiting' = Waiting /\ UNCHANGED remaining
    BY <1>17 DEF ProcessMsg
  <2> QED BY <2>1
<1>18. ASSUME NEW w \in Worker, EndHandler(w) PROVE ToRead'
  <2>1. Unread' = Unread /\ Waiting' = Waiting /\ UNCHANGED remaining
    BY <1>18 DEF EndHandler
  <2> QED BY <2>1
<1>19. ASSUME NEW w \in Worker, UnguardMsgs(w) PROVE ToRead'
  <2>1. Unread' = Unread /\ Waiting' = Waiting /\ UNCHANGED remaining
    BY <1>19 DEF UnguardMsgs
  <2> QED BY <2>1
<1>20. ASSUME NEW w \in Worker, LoopAgain(w) PROVE ToRead'
  <2>1. Unread' = Unread /\ Waiting' = Waiting /\ UNCHANGED remaining
    BY <1>20 DEF LoopAgain
  <2> QED BY <2>1
<1>21. ASSUME NEW w \in Worker, EndIteration(w) PROVE ToRead'
  <2>1. Unread' = Unread /\ Waiting' = Waiting /\ UNCHANGED remaining
    BY <1>21 DEF EndIteration
  <2> QED BY <2>1
<1>22. ASSUME NEW w \in Worker, FlushMsgs(w) PROVE ToRead'
  <2>1. Unread' = Unread /\ Waiting' = Waiting /\ UNCHANGED remaining
    BY <1>22 DEF FlushMsgs
  <2> QED BY <2>1
<1>23. ASSUME NEW w \in Worker, FirstLevel(w) PROVE ToRead'
  <2>1. /\ pc[w] = "first" /\ curr' = curr /\ batch' = batch
        /\ pc'[w] = "barrier2" /\ \A x \in Worker \ {w} : pc'[x] = pc[x]
    BY <1>23 DEF FirstLevel
  <2>2. AtBarrier' = AtBarrier \cup {w} /\ Gathered' = Gathered \cup curr[w] /\ curr[w] \in SUBSET Own(w)
    BY <2>1 DEF Places, Own, AtBarrier, Gathered
  <2>3. Waiting /\ remaining = 0
    BY <2>1
  <2>4. \E x \in Worker : pc'[x] \in {"first", "barrier2"}
    BY <2>1
  <2>5. AtBarrier' = Worker => Unread' = Gathered'
    BY <2>1 DEF AtBarrier, Gathered
  <2> HIDE DEF IInv, Types, AtBarrier, Gathered, Unread
  <2>6. /\ Cardinality(Gathered') = total + Cardinality(curr[w])
        /\ arrived + 1 < NumThreads <=> AtBarrier' # Worker
    BY <2>1, <2>2, GatherMore, OneArrives
  <2> QED BY <1>23, <2>3, <2>4, <2>5, <2>6 DEF FirstLevel, CountActivated
<1>24. ASSUME NEW w \in Worker, EnterNextLevel(w) PROVE ToRead'
  <2>1. /\ pc[w] = "switch" /\ entering
        /\ curr'[w] = next[w] /\ pc'[w] = "barrier2"
        /\ \A x \in Worker \ {w} : pc'[x] = pc[x] /\ curr'[x] = curr[x]
    BY <1>24 DEF EnterNextLevel
  <2>2. AtBarrier' = AtBarrier \cup {w} /\ AtBarrier # Worker
    BY <2>1 DEF AtBarrier
  <2>3. next[w] \in SUBSET Own(w) /\ next[w] \in SUBSET Vertex
    BY DEF Places
  <2>4. Gathered' = Gathered \cup next[w]
    <3> HIDE DEF IInv, Types
    <3> QED BY <2>1, <2>3 DEF Own, Gathered
  <2>5. \A x \in Worker : /\ batch[x] = {} /\ batch'[x] = {}
                          /\ pc[x] # "barrier2" => curr[x] = {}
                          /\ pc[x] # "first"
    BY <1>24, <2>1 DEF EnterNextLevel, Places, Held
  <2>6. remaining = 0
    <3>1. CASE Waiting
      BY <3>1
    <3>2. CASE ~Waiting
      <4>1. \A x \in Worker : pc[x] # "barrier2"
        BY <2>2, <3>2
      <4>2. Unread = {}
        BY <4>1, <2>5
      <4> QED BY <3>2, <4>2, FS_EmptySet
    <3> QED BY <3>1, <3>2
  <2>7. \E x \in Worker : pc'[x] \in {"first", "barrier2"}
    BY <2>1
  <2>8. AtBarrier' = Worker => Unread' = Gathered'
    BY <2>5 DEF AtBarrier, Gathered
  <2> HIDE DEF IInv, Types, AtBarrier, Gathered, Unread
  <2>9. /\ Cardinality(Gathered') = total + Cardinality(next[w])
        /\ arrived + 1 < NumThreads <=> AtBarrier' # Worker
    BY <2>1, <2>2, <2>3, <2>4, GatherMore, OneArrives
  <2> QED BY <1>24, <2>6, <2>7, <2>8, <2>9 DEF EnterNextLevel, CountActivated
<1>25. CASE Barrier1
  <2>1. \A w \in Worker : pc[w] = "giveback" /\ pc'[w] = "msgs"
    BY <1>25 DEF Barrier1, All
  <2>2. Unread' = Unread /\ ~Waiting /\ ~Waiting' /\ UNCHANGED remaining
    BY <1>25, <2>1 DEF Barrier1
  <2> QED BY <2>2
<1>26. CASE Barrier2
  <2>1. \A w \in Worker : pc[w] = "barrier2" /\ pc'[w] \in {"return", "stop"}
    BY <1>26 DEF Barrier2, All
  <2>2. Unread' = Unread /\ ~Waiting /\ ~Waiting' /\ UNCHANGED remaining
    <3>1. AtBarrier = Worker /\ \A w \in Worker : pc'[w] \notin {"first", "barrier2"}
      BY <2>1
    <3>2. UNCHANGED <<curr, batch, remaining>>
      BY <1>26 DEF Barrier2
    <3>3. Unread' = Unread
      BY <2>1, <3>2
    <3> HIDE DEF IInv, Types, Unread, AtBarrier
    <3> QED BY <3>1, <3>2, <3>3
  <2> QED BY <2>2
<1>27. CASE UNCHANGED vars
  BY <1>27 DEF vars
<1> HIDE DEF ToRead, Held
<1> QED BY <1>1, <1>2, <1>3, <1>4, <1>5, <1>6, <1>7, <1>8, <1>9, <1>10, <1>11, <1>12, <1>13, <1>14, <1>15, <1>16, <1>17, <1>18, <1>19, <1>20, <1>21, <1>22, <1>23, <1>24, <1>25, <1>26, <1>27 DEF Next, WorkerStep, Stopped

\* A step that moves no vertex between owner and thief leaves the two counters alone.
LEMMA LentFrame == ASSUME Lent, UNCHANGED <<serialRun, numStolen, numReturned>>,
                          \A o \in Worker : serialRun => Stolen(o)' = Stolen(o)
                   PROVE Lent'
BY DEF Lent

\* What workers run and have completed determines what is stolen.
LEMMA StolenFrame == ASSUME \A w \in Worker : Running(w)' = Running(w) /\ done'[w] = done[w]
                     PROVE \A o \in Worker : Stolen(o)' = Stolen(o)
BY DEF Stolen

\* Stolen vertices are vertices.
LEMMA StolenType == ASSUME IInv, NEW o \in Worker PROVE Stolen(o) \in SUBSET Vertex
BY DEF Stolen, Own

\* Every step keeps num_stolen and num_returned of steal_state_t exact.
LEMMA LentStep == ASSUME IInv, Types', [Next]_vars PROVE Lent'
<1> USE DEF config, queues, balancer, senders, inbox, stealState, levels, IInv, Types, Counters, Lent, Goto
<1>1. ASSUME NEW w \in Worker, ReturnVertices(w) PROVE Lent'
  <2>0. PICK o : o = Min({Owner[v] : v \in done[w]})
    OBVIOUS
  <2> DEFINE S == done[w] \cap Own(o)
  <2>1. /\ S \in SUBSET done[w] /\ \A v \in S : Owner[v] = o
        /\ \A v \in done[w] \ S : v \in Vertex /\ Owner[v] # o
    BY DEF Own
  <2> HIDE DEF S
  <2>2. /\ done' = [done EXCEPT ![w] = @ \ S]
        /\ serialRun => numReturned' = [numReturned EXCEPT ![o] = @ + Cardinality(S)]
        /\ ~serialRun => numReturned' = numReturned
        /\ UNCHANGED <<serialRun, pc, batch, pend, numStolen>>
    BY <1>1, <2>0 DEF ReturnVertices, S
  <2>3. CASE ~serialRun
    BY <2>2, <2>3
  <2>4. CASE serialRun /\ S = {}
    <3>1. Cardinality(S) = 0
      BY <2>4, FS_EmptySet
    <3>2. numReturned' = numReturned /\ done' = done
      BY <2>2, <2>4, <3>1
    <3>3. \A x \in Worker : Running(x)' = Running(x) /\ done'[x] = done[x]
      BY <2>2, <3>2 DEF Running
    <3> QED BY <2>2, <3>2, <3>3, LentFrame, StolenFrame
  <2>5. CASE serialRun /\ S # {}
    <3>1. o \in Worker /\ o # w
      BY <2>1, <2>5 DEF Places
    <3>2. \A x \in Worker : Running(x)' = Running(x) /\ (x # w => done'[x] = done[x])
      BY <2>2 DEF Running
    <3>3. done'[w] = done[w] \ S /\ S \in SUBSET Vertex
      BY <2>1, <2>2
    <3>4. \A x \in Worker : /\ x # w => Running(x) \cap S = {} /\ done[x] \cap S = {}
                            /\ Running(w) \cap S = {}
      BY <2>1 DEF Places, Held, Running
    <3>5. \A p \in Worker \ {o} : Stolen(p)' = Stolen(p)
      <4> HIDE DEF IInv, Types
      <4> QED BY <2>1, <3>2, <3>3 DEF Stolen, Own
    <3>6. Stolen(o) = Stolen(o)' \cup S /\ Stolen(o)' \cap S = {}
      <4> HIDE DEF IInv, Types
      <4>1. S \subseteq Stolen(o)
        BY <2>1, <3>1, <3>3 DEF Stolen, Own
      <4>2. Stolen(o)' = Stolen(o) \ S
        <5>1. \A u \in S : u \notin Stolen(o)'
          BY <3>1, <3>2, <3>3, <3>4 DEF Stolen
        <5>2. \A u : u \notin S => (u \in Stolen(o)' <=> u \in Stolen(o))
          BY <3>2, <3>3 DEF Stolen
        <5> QED BY <5>1, <5>2
      <4> QED BY <4>1, <4>2
    <3>7. Stolen(o) \in SUBSET Vertex
      BY <3>1, StolenType
    <3>8. numStolen[o] = numReturned[o] + Cardinality(Stolen(o)) /\ numStolen[o] \in Nat /\ numReturned[o] \in Nat
      BY <2>5, <3>1
    <3>9. \A p \in Worker \ {o} : numReturned'[p] = numReturned[p] /\ numStolen[p] = numReturned[p] + Cardinality(Stolen(p))
      BY <2>2, <2>5, <3>1
    <3>10. numReturned'[o] = numReturned[o] + Cardinality(S)
      BY <2>2, <2>5, <3>1
    <3> HIDE DEF IInv, Types
    <3>11. Stolen(o)' \in SUBSET Vertex
      BY <3>6, <3>7
    <3>12. Cardinality(Stolen(o)) = Cardinality(Stolen(o)') + Cardinality(S)
      BY <3>3, <3>6, <3>11, DisjointCard
    <3>13. Cardinality(S) \in Nat /\ Cardinality(Stolen(o)') \in Nat
      BY <3>3, <3>11, SubsetCard
    <3>14. numStolen'[o] = numReturned'[o] + Cardinality(Stolen(o)')
      BY <2>2, <3>8, <3>10, <3>12, <3>13
    <3>15. ASSUME NEW p \in Worker PROVE numStolen'[p] = numReturned'[p] + Cardinality(Stolen(p)')
      <4>1. CASE p = o
        BY <3>14, <4>1
      <4>2. CASE p # o
        BY <2>2, <3>5, <3>9, <4>2
      <4> QED BY <4>1, <4>2
    <3> QED BY <2>2, <2>5, <3>15
  <2> QED BY <2>3, <2>4, <2>5
<1>2. ASSUME NEW w \in Worker, ClearStolen(w) PROVE Lent'
  <2>1. \A x \in Worker : Running(x)' = Running(x) /\ done'[x] = done[x]
    BY <1>2 DEF ClearStolen, Running
  <2> QED BY <1>2, <2>1, LentFrame, StolenFrame DEF ClearStolen
<1>3. ASSUME NEW w \in Worker, FetchOwn(w) PROVE Lent'
  <2>1. PICK S \in SUBSET curr[w] : batch' = [batch EXCEPT ![w] = S]
    BY <1>3 DEF FetchOwn, Fetch, kSubset
  <2>2. \A v \in S : Owner[v] = w
    BY DEF Places, Own
  <2>3. /\ pc[w] = "return" /\ pc' = [pc EXCEPT ![w] = "count"]
        /\ UNCHANGED <<serialRun, numStolen, numReturned, pend, done>>
    BY <1>3 DEF FetchOwn
  <2>4. /\ \A x \in Worker \ {w} : Running(x)' = Running(x)
        /\ Running(w)' = Running(w) \cup S
    BY <2>1, <2>3 DEF Running
  <2>5. \A o \in Worker : Stolen(o)' = Stolen(o)
    <3> HIDE DEF IInv, Types
    <3> QED BY <2>2, <2>3, <2>4 DEF Stolen, Own
  <2> QED BY <2>3, <2>5, LentFrame
<1>4. ASSUME NEW w \in Worker, FetchNone(w) PROVE Lent'
  <2>1. \A x \in Worker : Running(x)' = Running(x) /\ done'[x] = done[x]
    BY <1>4 DEF FetchNone, Running
  <2> QED BY <1>4, <2>1, LentFrame, StolenFrame DEF FetchNone
<1>5. ASSUME NEW w \in Worker, StartSteal(w) PROVE Lent'
  <2>1. \A x \in Worker : Running(x)' = Running(x) /\ done'[x] = done[x]
    BY <1>5 DEF StartSteal, Running
  <2> QED BY <1>5, <2>1, LentFrame, StolenFrame DEF StartSteal
<1>6. ASSUME NEW w \in Worker, Steal(w) PROVE Lent'
  <2>1. serialRun => \A x \in Worker : Running(x)' = Running(x)
    BY <1>6 DEF Steal, Running
  <2>2. UNCHANGED <<serialRun, numStolen, numReturned, done>>
    BY <1>6 DEF Steal
  <2> QED BY <2>1, <2>2, LentFrame, StolenFrame
<1>7. ASSUME NEW w \in Worker, PrepareSteal(w) PROVE Lent'
  <2>1. \A x \in Worker : Running(x)' = Running(x) /\ done'[x] = done[x]
    BY <1>7 DEF PrepareSteal, Running
  <2> QED BY <1>7, <2>1, LentFrame, StolenFrame DEF PrepareSteal
<1>8. ASSUME NEW w \in Worker, MarkStolen(w) PROVE Lent'
  <2>1. \A x \in Worker : Running(x)' = Running(x) /\ done'[x] = done[x]
    BY <1>8 DEF MarkStolen, Running
  <2> QED BY <1>8, <2>1, LentFrame, StolenFrame DEF MarkStolen
<1>9. ASSUME NEW w \in Worker, WaitGuard(w) PROVE Lent'
  <2>0. PICK o \in Worker : o = victim[w]
    OBVIOUS
  <2>1. serialRun /\ o \in Worker /\ o # w /\ pc[w] = "mark" /\ batch[w] \in SUBSET Own(o) /\ batch[w] \in SUBSET Vertex
    BY <1>9, <2>0 DEF WaitGuard, Places
  <2>2. /\ numStolen' = [numStolen EXCEPT ![o] = @ + Cardinality(batch[w])]
        /\ pc' = [pc EXCEPT ![w] = "count"]
        /\ UNCHANGED <<serialRun, numReturned, batch, pend, done>>
    BY <1>9, <2>0 DEF WaitGuard
  <2>3. /\ Running(w)' = Running(w) \cup batch[w]
        /\ \A x \in Worker \ {w} : Running(x)' = Running(x)
    BY <2>1, <2>2 DEF Running
  <2>4. \A x \in Worker : (Running(x) \cup done[x]) \cap batch[w] = {}
    <3> TAKE x \in Worker
    <3>1. CASE x = w
      BY <2>1, <3>1 DEF Places, Running
    <3>2. CASE x # w
      <4>1. Held(x) \cap Held(w) = {}
        BY <3>2 DEF Places
      <4> QED BY <4>1 DEF Held, Running
    <3> QED BY <3>1, <3>2
  <2>5. Stolen(o) \in SUBSET Vertex
    BY <2>1, StolenType
  <2>6. /\ \A p \in Worker : numStolen[p] = numReturned[p] + Cardinality(Stolen(p))
        /\ \A p \in Worker : numStolen[p] \in Nat /\ numReturned[p] \in Nat
        /\ numStolen'[o] = numStolen[o] + Cardinality(batch[w])
        /\ \A p \in Worker \ {o} : numStolen'[p] = numStolen[p]
    BY <2>1, <2>2
  <2> HIDE DEF IInv, Types
  <2>7. \A p \in Worker \ {o} : Stolen(p)' = Stolen(p)
    BY <2>1, <2>2, <2>3 DEF Stolen, Own
  <2>8. Stolen(o)' = Stolen(o) \cup batch[w] /\ Stolen(o) \cap batch[w] = {}
    <3>1. Stolen(o) \cap batch[w] = {}
      BY <2>4 DEF Stolen
    <3>2. \A u \in batch[w] : u \in Stolen(o)'
      BY <2>1, <2>3 DEF Stolen
    <3>3. \A u : u \notin batch[w] => (u \in Stolen(o)' <=> u \in Stolen(o))
      BY <2>2, <2>3 DEF Stolen
    <3> QED BY <3>1, <3>2, <3>3
  <2>9. Cardinality(Stolen(o)') = Cardinality(Stolen(o)) + Cardinality(batch[w])
    BY <2>1, <2>5, <2>8, DisjointCard
  <2>10. Cardinality(Stolen(o)) \in Nat /\ Cardinality(batch[w]) \in Nat
    BY <2>1, <2>5, SubsetCard
  <2>11. numStolen'[o] = numReturned'[o] + Cardinality(Stolen(o)')
    BY <2>1, <2>2, <2>6, <2>9, <2>10
  <2>12. ASSUME NEW p \in Worker PROVE numStolen'[p] = numReturned'[p] + Cardinality(Stolen(p)')
    <3>1. CASE p = o
      BY <2>11, <3>1
    <3>2. CASE p # o
      BY <2>2, <2>6, <2>7, <3>2
    <3> QED BY <3>1, <3>2
  <2> QED BY <2>1, <2>2, <2>12
<1>10. ASSUME NEW w \in Worker, CountVertices(w) PROVE Lent'
  <2>1. \A x \in Worker : Running(x)' = Running(x) /\ done'[x] = done[x]
    BY <1>10 DEF CountVertices, Running
  <2> QED BY <1>10, <2>1, LentFrame, StolenFrame DEF CountVertices
<1>11. ASSUME NEW w \in Worker, RunVertex(w) PROVE Lent'
  <2>1. PICK v \in batch[w] :
          /\ batch' = [batch EXCEPT ![w] = @ \ {v}]
          /\ \/ /\ pend' = [pend EXCEPT ![w] = @ \cup {v}]
                /\ UNCHANGED done
             \/ CompleteVertex(w, v) /\ UNCHANGED pend
          /\ Goto(w, IF batch[w] = {v} THEN "msgs" ELSE "run")
    BY <1>11 DEF RunVertex
  <2>2. pc[w] = "run" /\ UNCHANGED <<serialRun, numStolen, numReturned>>
    BY <1>11 DEF RunVertex
  <2>3. \A x \in Worker \ {w} : Running(x)' = Running(x) /\ done'[x] = done[x]
    BY <2>1, <2>2 DEF Running, CompleteVertex
  <2>4. Running(w) = pend[w] \cup batch[w] /\ Running(w)' = pend'[w] \cup batch'[w]
    BY <2>1, <2>2 DEF Running
  <2>5. \A u \in Vertex : Owner[u] # w => (u \in Running(w)' \cup done'[w] <=> u \in Running(w) \cup done[w])
    <3>1. CASE pend' = [pend EXCEPT ![w] = @ \cup {v}] /\ UNCHANGED done
      BY <2>1, <2>4, <3>1
    <3>2. CASE CompleteVertex(w, v) /\ UNCHANGED pend
      BY <2>1, <2>4, <3>2 DEF CompleteVertex
    <3> QED BY <2>1, <3>1, <3>2
  <2>6. \A o \in Worker : Stolen(o)' = Stolen(o)
    <3> HIDE DEF IInv, Types
    <3> QED BY <2>3, <2>5 DEF Stolen, Own
  <2> QED BY <2>2, <2>6, LentFrame
<1>12. ASSUME NEW w \in Worker, CompleteIO(w) PROVE Lent'
  <2>1. PICK v \in pend[w] :
          pend' = [pend EXCEPT ![w] = @ \ {v}] /\ CompleteVertex(w, v)
    BY <1>12 DEF CompleteIO
  <2>2. pc[w] = "io" /\ UNCHANGED <<serialRun, numStolen, numReturned, pc, batch>>
    BY <1>12 DEF CompleteIO
  <2>3. \A x \in Worker \ {w} : Running(x)' = Running(x) /\ done'[x] = done[x]
    BY <2>1, <2>2 DEF Running, CompleteVertex
  <2>4. \A u \in Vertex : Owner[u] # w => (u \in Running(w)' \cup done'[w] <=> u \in Running(w) \cup done[w])
    BY <2>1, <2>2 DEF Running, CompleteVertex
  <2>5. \A o \in Worker : Stolen(o)' = Stolen(o)
    <3> HIDE DEF IInv, Types
    <3> QED BY <2>3, <2>4 DEF Stolen, Own
  <2> QED BY <2>2, <2>5, LentFrame
<1>13. ASSUME NEW w \in Worker, TakeStolenMsgs(w) PROVE Lent'
  <2>1. \A x \in Worker : Running(x)' = Running(x) /\ done'[x] = done[x]
    BY <1>13 DEF TakeStolenMsgs, Running
  <2> QED BY <1>13, <2>1, LentFrame, StolenFrame DEF TakeStolenMsgs
<1>14. ASSUME NEW w \in Worker, GuardMsgs(w) PROVE Lent'
  <2>1. \A x \in Worker : Running(x)' = Running(x) /\ done'[x] = done[x]
    BY <1>14 DEF GuardMsgs, Running
  <2> QED BY <1>14, <2>1, LentFrame, StolenFrame DEF GuardMsgs
<1>15. ASSUME NEW w \in Worker, EnterStealMode(w) PROVE Lent'
  <2>1. \A x \in Worker : Running(x)' = Running(x) /\ done'[x] = done[x]
    BY <1>15 DEF EnterStealMode, Running
  <2> QED BY <1>15, <2>1, LentFrame, StolenFrame DEF EnterStealMode
<1>16. ASSUME NEW w \in Worker, FetchMsgs(w) PROVE Lent'
  <2>1. \A x \in Worker : Running(x)' = Running(x) /\ done'[x] = done[x]
    BY <1>16 DEF FetchMsgs, Running
  <2> QED BY <1>16, <2>1, LentFrame, StolenFrame DEF FetchMsgs
<1>17. ASSUME NEW w \in Worker, ProcessMsg(w) PROVE Lent'
  <2>1. \A x \in Worker : Running(x)' = Running(x) /\ done'[x] = done[x]
    BY <1>17 DEF ProcessMsg, Running
  <2> QED BY <1>17, <2>1, LentFrame, StolenFrame DEF ProcessMsg
<1>18. ASSUME NEW w \in Worker, EndHandler(w) PROVE Lent'
  <2>1. \A x \in Worker : Running(x)' = Running(x) /\ done'[x] = done[x]
    BY <1>18 DEF EndHandler, Running
  <2> QED BY <1>18, <2>1, LentFrame, StolenFrame DEF EndHandler
<1>19. ASSUME NEW w \in Worker, UnguardMsgs(w) PROVE Lent'
  <2>1. \A x \in Worker : Running(x)' = Running(x) /\ done'[x] = done[x]
    BY <1>19 DEF UnguardMsgs, Running
  <2> QED BY <1>19, <2>1, LentFrame, StolenFrame DEF UnguardMsgs
<1>20. ASSUME NEW w \in Worker, LoopAgain(w) PROVE Lent'
  <2>1. \A x \in Worker : Running(x)' = Running(x) /\ done'[x] = done[x]
    BY <1>20 DEF LoopAgain, Running
  <2> QED BY <1>20, <2>1, LentFrame, StolenFrame DEF LoopAgain
<1>21. ASSUME NEW w \in Worker, EndIteration(w) PROVE Lent'
  <2>1. \A x \in Worker : Running(x)' = Running(x) /\ done'[x] = done[x]
    BY <1>21 DEF EndIteration, Running
  <2> QED BY <1>21, <2>1, LentFrame, StolenFrame DEF EndIteration
<1>22. ASSUME NEW w \in Worker, FlushMsgs(w) PROVE Lent'
  <2>1. \A x \in Worker : Running(x)' = Running(x) /\ done'[x] = done[x]
    BY <1>22 DEF FlushMsgs, Running
  <2> QED BY <1>22, <2>1, LentFrame, StolenFrame DEF FlushMsgs
<1>23. ASSUME NEW w \in Worker, FirstLevel(w) PROVE Lent'
  <2>1. \A x \in Worker : Running(x)' = Running(x) /\ done'[x] = done[x]
    BY <1>23 DEF FirstLevel, Running
  <2> QED BY <1>23, <2>1, LentFrame, StolenFrame DEF FirstLevel
<1>24. ASSUME NEW w \in Worker, EnterNextLevel(w) PROVE Lent'
  <2>1. entering /\ serialRun' = serialRun
    BY <1>24 DEF EnterNextLevel, Phases
  <2>2. \A x \in Worker : batch'[x] = {} /\ pend'[x] = {} /\ done'[x] = {}
    BY <1>24, <2>1 DEF EnterNextLevel, Places, Held
  <2>3. \A o \in Worker : Stolen(o)' = {}
    BY <2>2 DEF Stolen, Running
  <2>4. \A x \in Worker : batch[x] = {} /\ pend[x] = {} /\ done[x] = {}
    BY <2>1 DEF Places, Held
  <2>5. \A o \in Worker : Stolen(o) = {}
    BY <2>4 DEF Stolen, Running
  <2>6. \A o \in Worker : numStolen[o] \in Nat /\ numReturned[o] \in Nat /\ (numStolen[o] = numReturned[o])
    <3> TAKE o \in Worker
    <3>1. Cardinality(Stolen(o)) = 0
      BY <2>5, FS_EmptySet
    <3>2. numStolen[o] = numReturned[o] + IF serialRun THEN Cardinality(Stolen(o)) ELSE 0
      OBVIOUS
    <3>3. numStolen[o] \in Nat /\ numReturned[o] \in Nat
      OBVIOUS
    <3> HIDE DEF IInv, Types
    <3> QED BY <3>1, <3>2, <3>3
  <2>7. \A o \in Worker : numStolen'[o] = numReturned'[o] /\ numReturned'[o] \in Nat
    BY <1>24, <2>6 DEF EnterNextLevel
  <2> HIDE DEF IInv, Types
  <2> QED BY <2>3, <2>7, FS_EmptySet
<1>25. CASE Barrier1
  <2>1. \A x \in Worker : Running(x)' = Running(x) /\ done'[x] = done[x]
    BY <1>25 DEF Barrier1, All, Running
  <2> QED BY <1>25, <2>1, LentFrame, StolenFrame DEF Barrier1
<1>26. CASE Barrier2
  <2>1. \A x \in Worker : Running(x)' = Running(x) /\ done'[x] = done[x]
    BY <1>26 DEF Barrier2, All, Running
  <2> QED BY <1>26, <2>1, LentFrame, StolenFrame DEF Barrier2
<1>27. CASE UNCHANGED vars
  <2>1. \A x \in Worker : Running(x)' = Running(x) /\ done'[x] = done[x]
    BY <1>27 DEF vars, Running
  <2> QED BY <1>27, <2>1, LentFrame, StolenFrame DEF vars
<1> HIDE DEF Lent, Held
<1> QED BY <1>1, <1>2, <1>3, <1>4, <1>5, <1>6, <1>7, <1>8, <1>9, <1>10, <1>11, <1>12, <1>13, <1>14, <1>15, <1>16, <1>17, <1>18, <1>19, <1>20, <1>21, <1>22, <1>23, <1>24, <1>25, <1>26, <1>27 DEF Next, WorkerStep, Stopped

\* Every step keeps the bits of stolen vertices set.
LEMMA MarksStep == ASSUME IInv, Types', [Next]_vars PROVE Marks'
<1> USE DEF config, queues, balancer, senders, inbox, stealState, levels, IInv, Types, Theft, Marks, Running, Goto
<1>1. ASSUME NEW w \in Worker, ReturnVertices(w) PROVE Marks'
  <2> DEFINE o == Min({Owner[v] : v \in done[w]})
             S == done[w] \cap Own(o)
  <2>1. S \subseteq done[w]
    OBVIOUS
  <2> HIDE DEF o, S
  <2>2. /\ done' = [done EXCEPT ![w] = @ \ S]
        /\ serialRun => returning' = [returning EXCEPT ![w] = S]
        /\ ~serialRun => UNCHANGED returning
        /\ UNCHANGED <<serialRun, pc, batch, pend, marked>>
    BY <1>1 DEF ReturnVertices, o, S
  <2> QED BY <2>1, <2>2
<1>2. ASSUME NEW w \in Worker, ClearStolen(w) PROVE Marks'
  <2>1. PICK v \in returning[w] : /\ returning' = [returning EXCEPT ![w] = @ \ {v}]
                                  /\ marked' = marked \ {v}
    BY <1>2 DEF ClearStolen
  <2>2. UNCHANGED <<serialRun, pc, batch, pend, done>>
    BY <1>2 DEF ClearStolen
  <2>3. \A x \in Worker : /\ v \notin Running(x) \cup done[x]
                          /\ x # w => v \notin returning[x]
    BY DEF Places, Held
  <2>4. v \notin returning'[w] /\ \A x \in Worker : returning'[x] \subseteq returning[x]
    BY <2>1
  <2>5. \A x \in Worker : Running(x)' = Running(x)
    BY <2>2
  <2>6. \A x \in Worker : \A u \in Running(x) \cup done[x] \cup returning[x] : serialRun /\ Owner[u] # x => u \in marked
    OBVIOUS
  <2>7. ~serialRun => marked = {}
    OBVIOUS
  <2> HIDE DEF IInv, Types, Running
  <2> QED BY <2>1, <2>2, <2>3, <2>4, <2>5, <2>6, <2>7
<1>3. ASSUME NEW w \in Worker, FetchOwn(w) PROVE Marks'
  BY <1>3 DEF FetchOwn, Fetch, kSubset, Places, Own
<1>4. ASSUME NEW w \in Worker, FetchNone(w) PROVE Marks'
  BY <1>4 DEF FetchNone
<1>5. ASSUME NEW w \in Worker, StartSteal(w) PROVE Marks'
  BY <1>5 DEF StartSteal
<1>6. ASSUME NEW w \in Worker, Steal(w) PROVE Marks'
  <2>1. serialRun => \A x \in Worker : Running(x)' = Running(x)
    BY <1>6 DEF Steal
  <2>2. UNCHANGED <<serialRun, done, returning, marked>>
    BY <1>6 DEF Steal
  <2> HIDE DEF Running
  <2> QED BY <2>1, <2>2
<1>7. ASSUME NEW w \in Worker, PrepareSteal(w) PROVE Marks'
  BY <1>7 DEF PrepareSteal
<1>8. ASSUME NEW w \in Worker, MarkStolen(w) PROVE Marks'
  BY <1>8 DEF MarkStolen, Places
<1>9. ASSUME NEW w \in Worker, WaitGuard(w) PROVE Marks'
  <2>1. batch[w] \subseteq marked /\ pc[w] = "mark" /\ pc' = [pc EXCEPT ![w] = "count"]
    BY <1>9 DEF WaitGuard
  <2>2. UNCHANGED <<serialRun, batch, pend, done, returning, marked>>
    BY <1>9 DEF WaitGuard
  <2> QED BY <2>1, <2>2
<1>10. ASSUME NEW w \in Worker, CountVertices(w) PROVE Marks'
  BY <1>10 DEF CountVertices
<1>11. ASSUME NEW w \in Worker, RunVertex(w) PROVE Marks'
  <2>1. PICK v \in batch[w] :
          /\ batch' = [batch EXCEPT ![w] = @ \ {v}]
          /\ \/ /\ pend' = [pend EXCEPT ![w] = @ \cup {v}]
                /\ UNCHANGED done
             \/ CompleteVertex(w, v) /\ UNCHANGED pend
          /\ Goto(w, IF batch[w] = {v} THEN "msgs" ELSE "run")
    BY <1>11 DEF RunVertex
  <2>2. pc[w] = "run" /\ UNCHANGED <<serialRun, returning, marked>>
    BY <1>11 DEF RunVertex
  <2> QED BY <2>1, <2>2 DEF CompleteVertex
<1>12. ASSUME NEW w \in Worker, CompleteIO(w) PROVE Marks'
  <2>1. PICK v \in pend[w] :
          pend' = [pend EXCEPT ![w] = @ \ {v}] /\ CompleteVertex(w, v)
    BY <1>12 DEF CompleteIO
  <2>2. UNCHANGED <<serialRun, pc, batch, returning, marked>>
    BY <1>12 DEF CompleteIO
  <2> QED BY <2>1, <2>2 DEF CompleteVertex
<1>13. ASSUME NEW w \in Worker, TakeStolenMsgs(w) PROVE Marks'
  BY <1>13 DEF TakeStolenMsgs
<1>14. ASSUME NEW w \in Worker, GuardMsgs(w) PROVE Marks'
  BY <1>14 DEF GuardMsgs
<1>15. ASSUME NEW w \in Worker, EnterStealMode(w) PROVE Marks'
  BY <1>15 DEF EnterStealMode
<1>16. ASSUME NEW w \in Worker, FetchMsgs(w) PROVE Marks'
  BY <1>16 DEF FetchMsgs
<1>17. ASSUME NEW w \in Worker, ProcessMsg(w) PROVE Marks'
  BY <1>17 DEF ProcessMsg
<1>18. ASSUME NEW w \in Worker, EndHandler(w) PROVE Marks'
  BY <1>18 DEF EndHandler
<1>19. ASSUME NEW w \in Worker, UnguardMsgs(w) PROVE Marks'
  BY <1>19 DEF UnguardMsgs
<1>20. ASSUME NEW w \in Worker, LoopAgain(w) PROVE Marks'
  BY <1>20 DEF LoopAgain
<1>21. ASSUME NEW w \in Worker, EndIteration(w) PROVE Marks'
  BY <1>21 DEF EndIteration
<1>22. ASSUME NEW w \in Worker, FlushMsgs(w) PROVE Marks'
  BY <1>22 DEF FlushMsgs
<1>23. ASSUME NEW w \in Worker, FirstLevel(w) PROVE Marks'
  BY <1>23 DEF FirstLevel
<1>24. ASSUME NEW w \in Worker, EnterNextLevel(w) PROVE Marks'
  <2>1. entering /\ serialRun' = serialRun /\ marked' \subseteq marked
    BY <1>24 DEF EnterNextLevel, Phases
  <2>2. \A x \in Worker : batch'[x] = {} /\ pend'[x] = {} /\ done'[x] = {} /\ returning'[x] = {}
    BY <1>24, <2>1 DEF EnterNextLevel, Places, Held
  <2> QED BY <2>1, <2>2
<1>25. CASE Barrier1
  BY <1>25 DEF Barrier1, All
<1>26. CASE Barrier2
  BY <1>26 DEF Barrier2, All
<1>27. CASE UNCHANGED vars
  BY <1>27 DEF vars
<1> HIDE DEF Marks, Held
<1> QED BY <1>1, <1>2, <1>3, <1>4, <1>5, <1>6, <1>7, <1>8, <1>9, <1>10, <1>11, <1>12, <1>13, <1>14, <1>15, <1>16, <1>17, <1>18, <1>19, <1>20, <1>21, <1>22, <1>23, <1>24, <1>25, <1>26, <1>27 DEF Next, WorkerStep, Stopped

\* A step that sets no bit and takes no marked vertex from a thief.
LEMMA AwayFrame == ASSUME StolenAreAway, marked' \subseteq marked,
                          \A w \in Worker : \A v \in Held(w) : Owner[v] # w /\ v \in marked' => v \in Held(w)'
                   PROVE StolenAreAway'
BY DEF StolenAreAway, Held

\* Every step keeps the vertices in the bitmap away from their owners.
LEMMA AwayStep == ASSUME IInv, Types', [Next]_vars PROVE StolenAreAway'
<1> USE DEF config, queues, balancer, senders, inbox, stealState, levels, IInv, Types, Theft, StolenAreAway, Goto
<1>1. ASSUME NEW w \in Worker, ReturnVertices(w) PROVE StolenAreAway'
  <2> DEFINE o == Min({Owner[v] : v \in done[w]})
             S == done[w] \cap Own(o)
  <2>1. S \subseteq done[w]
    OBVIOUS
  <2> HIDE DEF o, S
  <2>2. /\ done' = [done EXCEPT ![w] = @ \ S]
        /\ serialRun => returning' = [returning EXCEPT ![w] = S]
        /\ returning[w] = {}
        /\ UNCHANGED <<batch, pend, marked>>
    BY <1>1 DEF ReturnVertices, o, S
  <2>3. CASE ~serialRun
    BY <2>2, <2>3 DEF Marks, StolenAreAway
  <2>4. CASE serialRun
    <3>1. \A x \in Worker : Held(x) \subseteq Held(x)'
      BY <2>1, <2>2, <2>4 DEF Held
    <3> QED BY <2>2, <3>1, AwayFrame
  <2> QED BY <2>3, <2>4
<1>2. ASSUME NEW w \in Worker, ClearStolen(w) PROVE StolenAreAway'
  <2>1. PICK v \in returning[w] : /\ returning' = [returning EXCEPT ![w] = @ \ {v}]
                                  /\ marked' = marked \ {v}
    BY <1>2 DEF ClearStolen
  <2>2. UNCHANGED <<batch, pend, done>>
    BY <1>2 DEF ClearStolen
  <2>3. \A x \in Worker : Held(x) \ {v} \subseteq Held(x)'
    BY <2>1, <2>2 DEF Held
  <2> QED BY <2>1, <2>3, AwayFrame
<1>3. ASSUME NEW w \in Worker, FetchOwn(w) PROVE StolenAreAway'
  <2>1. batch[w] = {}
    BY <1>3 DEF FetchOwn, Places
  <2>2. marked' = marked /\ \A x \in Worker : Held(x) \subseteq Held(x)'
    BY <1>3, <2>1 DEF FetchOwn, Held
  <2> QED BY <2>2, AwayFrame
<1>4. ASSUME NEW w \in Worker, FetchNone(w) PROVE StolenAreAway'
  <2>1. marked' \subseteq marked /\ \A x \in Worker : Held(x)' = Held(x)
    BY <1>4 DEF FetchNone, Held
  <2> QED BY <2>1, AwayFrame
<1>5. ASSUME NEW w \in Worker, StartSteal(w) PROVE StolenAreAway'
  <2>1. marked' \subseteq marked /\ \A x \in Worker : Held(x)' = Held(x)
    BY <1>5 DEF StartSteal, Held
  <2> QED BY <2>1, AwayFrame
<1>6. ASSUME NEW w \in Worker, Steal(w) PROVE StolenAreAway'
  <2>1. batch[w] = {}
    BY <1>6 DEF Steal, Places
  <2>2. marked' = marked /\ \A x \in Worker : Held(x) \subseteq Held(x)'
    BY <1>6, <2>1 DEF Steal, Held
  <2> QED BY <2>2, AwayFrame
<1>7. ASSUME NEW w \in Worker, PrepareSteal(w) PROVE StolenAreAway'
  <2>1. marked' \subseteq marked /\ \A x \in Worker : Held(x)' = Held(x)
    BY <1>7 DEF PrepareSteal, Held
  <2> QED BY <2>1, AwayFrame
<1>8. ASSUME NEW w \in Worker, MarkStolen(w) PROVE StolenAreAway'
  <2>1. PICK v \in batch[w] : marked' = marked \cup {v}
    BY <1>8 DEF MarkStolen
  <2>2. v \in Held(w) /\ Owner[v] # w
    BY <1>8 DEF MarkStolen, Places, Own, Held
  <2>3. \A x \in Worker : Held(x)' = Held(x)
    BY <1>8 DEF MarkStolen, Held
  <2> HIDE DEF Types
  <2>4. \A u \in marked' : u = v \/ u \in marked
    BY <2>1
  <2>5. \A u \in marked : \E x \in Worker : x # Owner[u] /\ u \in Held(x)
    BY DEF Held
  <2>6. \A u \in marked' : \E x \in Worker : x # Owner[u] /\ u \in Held(x)'
    <3> HIDE DEF IInv
    <3> QED BY <2>2, <2>3, <2>4, <2>5
  <2> QED BY <2>6 DEF Held
<1>9. ASSUME NEW w \in Worker, WaitGuard(w) PROVE StolenAreAway'
  <2>1. marked' \subseteq marked /\ \A x \in Worker : Held(x)' = Held(x)
    BY <1>9 DEF WaitGuard, Held
  <2> QED BY <2>1, AwayFrame
<1>10. ASSUME NEW w \in Worker, CountVertices(w) PROVE StolenAreAway'
  <2>1. marked' \subseteq marked /\ \A x \in Worker : Held(x)' = Held(x)
    BY <1>10 DEF CountVertices, Held
  <2> QED BY <2>1, AwayFrame
<1>11. ASSUME NEW w \in Worker, RunVertex(w) PROVE StolenAreAway'
  <2>1. PICK v \in batch[w] :
          /\ batch' = [batch EXCEPT ![w] = @ \ {v}]
          /\ \/ /\ pend' = [pend EXCEPT ![w] = @ \cup {v}]
                /\ UNCHANGED done
             \/ CompleteVertex(w, v) /\ UNCHANGED pend
    BY <1>11 DEF RunVertex
  <2>2. UNCHANGED <<returning, marked>>
    BY <1>11 DEF RunVertex
  <2>3. \A x \in Worker : \A u \in Held(x) : Owner[u] # x => u \in Held(x)'
    BY <2>1, <2>2 DEF Held, CompleteVertex
  <2> QED BY <2>2, <2>3, AwayFrame
<1>12. ASSUME NEW w \in Worker, CompleteIO(w) PROVE StolenAreAway'
  <2>1. PICK v \in pend[w] :
          pend' = [pend EXCEPT ![w] = @ \ {v}] /\ CompleteVertex(w, v)
    BY <1>12 DEF CompleteIO
  <2>2. UNCHANGED <<batch, returning, marked>>
    BY <1>12 DEF CompleteIO
  <2>3. \A x \in Worker : \A u \in Held(x) : Owner[u] # x => u \in Held(x)'
    BY <2>1, <2>2 DEF Held, CompleteVertex
  <2> QED BY <2>2, <2>3, AwayFrame
<1>13. ASSUME NEW w \in Worker, TakeStolenMsgs(w) PROVE StolenAreAway'
  <2>1. marked' \subseteq marked /\ \A x \in Worker : Held(x)' = Held(x)
    BY <1>13 DEF TakeStolenMsgs, Held
  <2> QED BY <2>1, AwayFrame
<1>14. ASSUME NEW w \in Worker, GuardMsgs(w) PROVE StolenAreAway'
  <2>1. marked' \subseteq marked /\ \A x \in Worker : Held(x)' = Held(x)
    BY <1>14 DEF GuardMsgs, Held
  <2> QED BY <2>1, AwayFrame
<1>15. ASSUME NEW w \in Worker, EnterStealMode(w) PROVE StolenAreAway'
  <2>1. marked' \subseteq marked /\ \A x \in Worker : Held(x)' = Held(x)
    BY <1>15 DEF EnterStealMode, Held
  <2> QED BY <2>1, AwayFrame
<1>16. ASSUME NEW w \in Worker, FetchMsgs(w) PROVE StolenAreAway'
  <2>1. marked' \subseteq marked /\ \A x \in Worker : Held(x)' = Held(x)
    BY <1>16 DEF FetchMsgs, Held
  <2> QED BY <2>1, AwayFrame
<1>17. ASSUME NEW w \in Worker, ProcessMsg(w) PROVE StolenAreAway'
  <2>1. marked' \subseteq marked /\ \A x \in Worker : Held(x)' = Held(x)
    BY <1>17 DEF ProcessMsg, Held
  <2> QED BY <2>1, AwayFrame
<1>18. ASSUME NEW w \in Worker, EndHandler(w) PROVE StolenAreAway'
  <2>1. marked' \subseteq marked /\ \A x \in Worker : Held(x)' = Held(x)
    BY <1>18 DEF EndHandler, Held
  <2> QED BY <2>1, AwayFrame
<1>19. ASSUME NEW w \in Worker, UnguardMsgs(w) PROVE StolenAreAway'
  <2>1. marked' \subseteq marked /\ \A x \in Worker : Held(x)' = Held(x)
    BY <1>19 DEF UnguardMsgs, Held
  <2> QED BY <2>1, AwayFrame
<1>20. ASSUME NEW w \in Worker, LoopAgain(w) PROVE StolenAreAway'
  <2>1. marked' \subseteq marked /\ \A x \in Worker : Held(x)' = Held(x)
    BY <1>20 DEF LoopAgain, Held
  <2> QED BY <2>1, AwayFrame
<1>21. ASSUME NEW w \in Worker, EndIteration(w) PROVE StolenAreAway'
  <2>1. marked' \subseteq marked /\ \A x \in Worker : Held(x)' = Held(x)
    BY <1>21 DEF EndIteration, Held
  <2> QED BY <2>1, AwayFrame
<1>22. ASSUME NEW w \in Worker, FlushMsgs(w) PROVE StolenAreAway'
  <2>1. marked' \subseteq marked /\ \A x \in Worker : Held(x)' = Held(x)
    BY <1>22 DEF FlushMsgs, Held
  <2> QED BY <2>1, AwayFrame
<1>23. ASSUME NEW w \in Worker, FirstLevel(w) PROVE StolenAreAway'
  <2>1. marked' \subseteq marked /\ \A x \in Worker : Held(x)' = Held(x)
    BY <1>23 DEF FirstLevel, Held
  <2> QED BY <2>1, AwayFrame
<1>24. ASSUME NEW w \in Worker, EnterNextLevel(w) PROVE StolenAreAway'
  <2>1. marked' \subseteq marked /\ \A x \in Worker : Held(x)' = Held(x)
    BY <1>24 DEF EnterNextLevel, Held
  <2> QED BY <2>1, AwayFrame
<1>25. CASE Barrier1
  <2>1. marked' \subseteq marked /\ \A x \in Worker : Held(x)' = Held(x)
    BY <1>25 DEF Barrier1, Held
  <2> QED BY <2>1, AwayFrame
<1>26. CASE Barrier2
  <2>1. marked' \subseteq marked /\ \A x \in Worker : Held(x)' = Held(x)
    BY <1>26 DEF Barrier2, Held
  <2> QED BY <2>1, AwayFrame
<1>27. CASE UNCHANGED vars
  <2>1. marked' \subseteq marked /\ \A x \in Worker : Held(x)' = Held(x)
    BY <1>27 DEF vars, Held
  <2> QED BY <2>1, AwayFrame
<1> HIDE DEF StolenAreAway, Held
<1> QED BY <1>1, <1>2, <1>3, <1>4, <1>5, <1>6, <1>7, <1>8, <1>9, <1>10, <1>11, <1>12, <1>13, <1>14, <1>15, <1>16, <1>17, <1>18, <1>19, <1>20, <1>21, <1>22, <1>23, <1>24, <1>25, <1>26, <1>27 DEF Next, WorkerStep, Stopped

\* Every step keeps the handshake of prepare and guard.
LEMMA GuardsStep == ASSUME IInv, Types', [Next]_vars PROVE Guards'
<1> USE DEF config, queues, balancer, senders, inbox, stealState, levels, IInv, Types, Theft, Guards, Goto
<1>1. ASSUME NEW w \in Worker, ReturnVertices(w) PROVE Guards'
  <2>1. \A x \in Worker : Running(x)' = Running(x)
    BY <1>1 DEF ReturnVertices, Running
  <2> QED BY <1>1, <2>1 DEF ReturnVertices
<1>2. ASSUME NEW w \in Worker, ClearStolen(w) PROVE Guards'
  <2>1. \A x \in Worker : Running(x)' = Running(x)
    BY <1>2 DEF ClearStolen, Running
  <2> QED BY <1>2, <2>1 DEF ClearStolen
<1>3. ASSUME NEW w \in Worker, FetchOwn(w) PROVE Guards'
  <2>1. PICK S \in SUBSET curr[w] : batch' = [batch EXCEPT ![w] = S]
    BY <1>3 DEF FetchOwn, Fetch, kSubset
  <2>2. \A v \in S : Owner[v] = w
    BY DEF Places, Own
  <2>3. /\ pc[w] = "return" /\ pc' = [pc EXCEPT ![w] = "count"]
        /\ UNCHANGED <<serialRun, pend, checkSteal, prepared, victim, guard>>
    BY <1>3 DEF FetchOwn
  <2>4. /\ \A x \in Worker \ {w} : Running(x)' = Running(x)
        /\ Running(w)' = Running(w) \cup S
    BY <2>1, <2>3 DEF Running
  <2>5. Guards
    OBVIOUS
  <2> HIDE DEF IInv, Types
  <2> QED BY <2>2, <2>3, <2>4, <2>5 DEF Own
<1>4. ASSUME NEW w \in Worker, FetchNone(w) PROVE Guards'
  <2>1. \A x \in Worker : Running(x)' = Running(x)
    BY <1>4 DEF FetchNone, Running
  <2> QED BY <1>4, <2>1 DEF FetchNone
<1>5. ASSUME NEW w \in Worker, StartSteal(w) PROVE Guards'
  <2>1. \A x \in Worker : Running(x)' = Running(x)
    BY <1>5 DEF StartSteal, Running
  <2> QED BY <1>5, <2>1 DEF StartSteal
<1>6. ASSUME NEW w \in Worker, Steal(w) PROVE Guards'
  <2>1. serialRun => \A x \in Worker : Running(x)' = Running(x)
    BY <1>6 DEF Steal, Running
  <2>2. /\ pc'[w] \notin {"mode", "replay", "mark", "drain"}
        /\ \A x \in Worker \ {w} : pc'[x] = pc[x] /\ victim'[x] = victim[x]
        /\ UNCHANGED <<serialRun, checkSteal, prepared, guard>>
    BY <1>6 DEF Steal
  <2>3. Guards
    OBVIOUS
  <2> HIDE DEF IInv, Types
  <2> QED BY <2>1, <2>2, <2>3
<1>7. ASSUME NEW w \in Worker, PrepareSteal(w) PROVE Guards'
  <2>1. \A x \in Worker : Running(x)' = Running(x)
    BY <1>7 DEF PrepareSteal, Running
  <2> QED BY <1>7, <2>1 DEF PrepareSteal
<1>8. ASSUME NEW w \in Worker, MarkStolen(w) PROVE Guards'
  <2>1. \A x \in Worker : Running(x)' = Running(x)
    BY <1>8 DEF MarkStolen, Running
  <2> QED BY <1>8, <2>1 DEF MarkStolen
<1>9. ASSUME NEW w \in Worker, WaitGuard(w) PROVE Guards'
  <2>1. /\ serialRun /\ pc[w] = "mark" /\ batch[w] \in SUBSET Own(victim[w])
        /\ prepared[victim[w]] /\ ~guard[victim[w]] /\ victim[w] # w
    BY <1>9 DEF WaitGuard, Places
  <2>2. /\ pc' = [pc EXCEPT ![w] = "count"]
        /\ UNCHANGED <<serialRun, batch, pend, checkSteal, prepared, guard, victim>>
    BY <1>9 DEF WaitGuard
  <2>3. /\ Running(w)' = Running(w) \cup batch[w]
        /\ \A x \in Worker \ {w} : Running(x)' = Running(x)
    BY <2>1, <2>2 DEF Running
  <2>4. \A v \in batch[w] : v \in Vertex /\ Owner[v] = victim[w]
    BY <2>1 DEF Own
  <2>5. \A x \in Worker : \A v \in Running(x)' : Owner[v] # x => prepared'[Owner[v]]
    <3>1. \A x \in Worker : \A v \in Running(x) : Owner[v] # x => prepared[Owner[v]]
      BY <2>1
    <3> HIDE DEF IInv, Types
    <3> QED BY <2>1, <2>2, <2>3, <2>4, <3>1
  <2>6. ASSUME NEW y \in Worker, pc'[y] = "drain", ~checkSteal'[y], NEW x \in Worker \ {y}
        PROVE Running(x)' \cap Own(y) = {}
    <3>1. pc[y] = "drain" /\ ~checkSteal[y] /\ guard[y]
      BY <2>1, <2>2, <2>6
    <3>2. Running(x) \cap Own(y) = {}
      BY <2>1, <3>1
    <3>3. batch[w] \cap Own(y) = {}
      BY <2>1, <3>1 DEF Own
    <3> QED BY <2>3, <3>2, <3>3
  <2> QED BY <2>1, <2>2, <2>5, <2>6
<1>10. ASSUME NEW w \in Worker, CountVertices(w) PROVE Guards'
  <2>1. \A x \in Worker : Running(x)' = Running(x)
    BY <1>10 DEF CountVertices, Running
  <2> QED BY <1>10, <2>1 DEF CountVertices
<1>11. ASSUME NEW w \in Worker, RunVertex(w) PROVE Guards'
  <2>1. \A x \in Worker : Running(x)' \subseteq Running(x)
    BY <1>11 DEF RunVertex, Running
  <2>2. /\ pc'[w] \in {"run", "msgs"} /\ \A x \in Worker \ {w} : pc'[x] = pc[x]
        /\ UNCHANGED <<serialRun, checkSteal, prepared, guard, victim>>
    BY <1>11 DEF RunVertex
  <2>3. \A x \in Worker : \A v \in Running(x) : v \in Vertex
    BY DEF Running
  <2> QED BY <2>1, <2>2, <2>3, ZenonT(40)
<1>12. ASSUME NEW w \in Worker, CompleteIO(w) PROVE Guards'
  <2>1. \A x \in Worker : Running(x)' \subseteq Running(x)
    BY <1>12 DEF CompleteIO, Running
  <2>2. UNCHANGED <<serialRun, pc, checkSteal, prepared, guard, victim>>
    BY <1>12 DEF CompleteIO
  <2> QED BY <2>1, <2>2
<1>13. ASSUME NEW w \in Worker, TakeStolenMsgs(w) PROVE Guards'
  <2>1. \A x \in Worker : Running(x)' = Running(x)
    BY <1>13 DEF TakeStolenMsgs, Running
  <2> QED BY <1>13, <2>1 DEF TakeStolenMsgs, Replays
<1>14. ASSUME NEW w \in Worker, GuardMsgs(w) PROVE Guards'
  <2>1. \A x \in Worker : Running(x)' = Running(x)
    BY <1>14 DEF GuardMsgs, Running
  <2> QED BY <1>14, <2>1 DEF GuardMsgs
<1>15. ASSUME NEW w \in Worker, EnterStealMode(w) PROVE Guards'
  <2>1. \A x \in Worker : Running(x)' = Running(x)
    BY <1>15 DEF EnterStealMode, Running
  <2>2. /\ pc[w] = "mode" /\ pc' = [pc EXCEPT ![w] = "drain"]
        /\ checkSteal' = [checkSteal EXCEPT ![w] = stealMode[w] \/ prepared[w]]
        /\ UNCHANGED <<serialRun, prepared, guard, victim>>
    BY <1>15 DEF EnterStealMode
  <2>3. ~checkSteal'[w] => ~prepared[w]
    BY <2>2
  <2>4. ~checkSteal'[w] => \A x \in Worker \ {w} : Running(x) \cap Own(w) = {}
    BY <2>2, <2>3 DEF Own
  <2> QED BY <2>1, <2>2, <2>4
<1>16. ASSUME NEW w \in Worker, FetchMsgs(w) PROVE Guards'
  <2>1. \A x \in Worker : Running(x)' = Running(x)
    BY <1>16 DEF FetchMsgs, Running
  <2> QED BY <1>16, <2>1 DEF FetchMsgs
<1>17. ASSUME NEW w \in Worker, ProcessMsg(w) PROVE Guards'
  <2>1. \A x \in Worker : Running(x)' = Running(x)
    BY <1>17 DEF ProcessMsg, Running
  <2> QED BY <1>17, <2>1 DEF ProcessMsg
<1>18. ASSUME NEW w \in Worker, EndHandler(w) PROVE Guards'
  <2>1. \A x \in Worker : Running(x)' = Running(x)
    BY <1>18 DEF EndHandler, Running
  <2> QED BY <1>18, <2>1 DEF EndHandler
<1>19. ASSUME NEW w \in Worker, UnguardMsgs(w) PROVE Guards'
  <2>1. \A x \in Worker : Running(x)' = Running(x)
    BY <1>19 DEF UnguardMsgs, Running
  <2> QED BY <1>19, <2>1 DEF UnguardMsgs
<1>20. ASSUME NEW w \in Worker, LoopAgain(w) PROVE Guards'
  <2>1. \A x \in Worker : Running(x)' = Running(x)
    BY <1>20 DEF LoopAgain, Running
  <2> QED BY <1>20, <2>1 DEF LoopAgain
<1>21. ASSUME NEW w \in Worker, EndIteration(w) PROVE Guards'
  <2>1. \A x \in Worker : Running(x)' = Running(x)
    BY <1>21 DEF EndIteration, Running
  <2> QED BY <1>21, <2>1 DEF EndIteration
<1>22. ASSUME NEW w \in Worker, FlushMsgs(w) PROVE Guards'
  <2>1. \A x \in Worker : Running(x)' = Running(x)
    BY <1>22 DEF FlushMsgs, Running
  <2> QED BY <1>22, <2>1 DEF FlushMsgs
<1>23. ASSUME NEW w \in Worker, FirstLevel(w) PROVE Guards'
  <2>1. \A x \in Worker : Running(x)' = Running(x)
    BY <1>23 DEF FirstLevel, Running
  <2> QED BY <1>23, <2>1 DEF FirstLevel
<1>24. ASSUME NEW w \in Worker, EnterNextLevel(w) PROVE Guards'
  <2>1. entering /\ serialRun' = serialRun /\ UNCHANGED <<checkSteal, victim>>
    BY <1>24 DEF EnterNextLevel, Phases
  <2>2. \A x \in Worker : batch'[x] = {} /\ pend'[x] = {}
    BY <1>24, <2>1 DEF EnterNextLevel, Places, Held
  <2>3. \A x \in Worker : Running(x)' = {}
    BY <2>2 DEF Running
  <2>4. /\ pc'[w] = "barrier2" /\ \A x \in Worker \ {w} : pc'[x] = pc[x] /\ guard'[x] = guard[x]
        /\ \A x \in Worker : pc[x] # "mark"
    <3>1. \A x \in Worker : pc[x] # "mark"
      BY <2>1 DEF Phases
    <3> QED BY <1>24, <3>1 DEF EnterNextLevel
  <2> QED BY <2>1, <2>3, <2>4
<1>25. CASE Barrier1
  <2>1. \A x \in Worker : Running(x)' = Running(x)
    BY <1>25 DEF Barrier1, All, Running
  <2>2. \A x \in Worker : pc'[x] \in {"msgs"}
    BY <1>25 DEF Barrier1, All
  <2> QED BY <1>25, <2>1, <2>2 DEF Barrier1
<1>26. CASE Barrier2
  <2>1. \A x \in Worker : Running(x)' = Running(x)
    BY <1>26 DEF Barrier2, All, Running
  <2>2. \A x \in Worker : pc'[x] \in {"return", "stop"}
    BY <1>26 DEF Barrier2, All
  <2>3. Guards /\ UNCHANGED <<serialRun, checkSteal, prepared, guard, victim>>
    BY <1>26 DEF Barrier2
  <2> HIDE DEF IInv, Types
  <2> QED BY <2>1, <2>2, <2>3
<1>27. CASE UNCHANGED vars
  <2>1. \A x \in Worker : Running(x)' = Running(x)
    BY <1>27 DEF vars, Running
  <2> QED BY <1>27, <2>1 DEF vars
<1> HIDE DEF Guards, Held
<1> QED BY <1>1, <1>2, <1>3, <1>4, <1>5, <1>6, <1>7, <1>8, <1>9, <1>10, <1>11, <1>12, <1>13, <1>14, <1>15, <1>16, <1>17, <1>18, <1>19, <1>20, <1>21, <1>22, <1>23, <1>24, <1>25, <1>26, <1>27 DEF Next, WorkerStep, Stopped

\* A worker keeps messages of its own vertices.
LEMMA KeptOwner == ASSUME IInv, NEW w \in Worker, NEW m \in Kept(w)
                   PROVE m.dest \in Vertex /\ Owner[m.dest] = w
BY MsgFields DEF IInv, Types, Mail, Kept

\* A vertex in the bitmap is in no queue, and between the barriers there is none.
LEMMA MarkedAway == ASSUME IInv, NEW v \in marked
                    PROVE v \in Vertex /\ v \notin curr[Owner[v]] /\ ~entering
<1>1. PICK w \in Worker : v \in Held(w)
  BY DEF IInv, Theft, StolenAreAway, Held
<1> QED BY <1>1 DEF IInv, Types, Places

\* A step that keeps no new message and takes no vertex.
LEMMA KeepsFrame ==
    ASSUME Keeps, marked \subseteq marked',
           UNCHANGED <<serialRun, entering, curr, batch, pend, done, returning, stolenMsgs, handling, numReturned>>,
           \A w \in Worker :
              /\ Kept(w)' \subseteq Kept(w)
              /\ pc'[w] = "replay" => pc[w] = "replay"
              /\ entering /\ pc'[w] \in {"replay", "mode", "drain", "switch", "barrier2"}
                    => pc[w] \in {"replay", "mode", "drain", "switch", "barrier2"}
    PROVE Keeps'
BY DEF Keeps

\* Every step keeps the messages of stolen vertices until they can be handled.
LEMMA KeepsStep == ASSUME IInv, Types', [Next]_vars PROVE Keeps'
<1> USE DEF config, queues, balancer, senders, inbox, stealState, levels, IInv, Types, Theft, Keeps, Goto
<1>1. ASSUME NEW w \in Worker, ReturnVertices(w) PROVE Keeps'
  <2>0. PICK o : o = Min({Owner[v] : v \in done[w]})
    OBVIOUS
  <2> DEFINE S == done[w] \cap Own(o)
  <2>1. /\ S \in SUBSET done[w] /\ \A v \in S : Owner[v] = o
    BY DEF Own
  <2> HIDE DEF S
  <2>2. /\ done' = [done EXCEPT ![w] = @ \ S]
        /\ serialRun => /\ numReturned' = [numReturned EXCEPT ![o] = @ + Cardinality(S)]
                        /\ returning' = [returning EXCEPT ![w] = S]
        /\ ~serialRun => numReturned' = numReturned /\ returning' = returning
    BY <1>1, <2>0 DEF ReturnVertices, S
  <2>3. UNCHANGED <<serialRun, entering, pc, curr, batch, pend, stolenMsgs, fetched, handling, marked>>
    BY <1>1 DEF ReturnVertices
  <2>4. Cardinality(S) \in Nat /\ (S # {} => Cardinality(S) > 0)
    <3>1. S \in SUBSET Vertex
      BY <2>1
    <3> QED BY <3>1, SubsetCard, FS_EmptySet
  <2>5. \A x \in Worker : numReturned[x] \in Nat
    OBVIOUS
  <2>6. \A x \in Worker : numReturned'[x] >= numReturned[x] /\ (serialRun /\ S # {} /\ x = o => numReturned'[x] > 0)
    BY <2>2, <2>4, <2>5
  <2>7. ASSUME serialRun, NEW x \in Worker, NEW v \in returning'[x] PROVE numReturned'[Owner[v]] > 0
    <3>1. CASE x = w
      <4>1. v \in S /\ Owner[v] = o /\ o \in Worker
        BY <2>1, <2>2, <2>7, <3>1
      <4> QED BY <2>6, <2>7, <4>1
    <3>2. CASE x # w
      <4>1. v \in returning[x] /\ Owner[v] \in Worker
        BY <2>2, <2>7, <3>2
      <4>2. numReturned[Owner[v]] > 0
        BY <2>7, <4>1
      <4> QED BY <2>5, <2>6, <4>1, <4>2
    <3> QED BY <3>1, <3>2
  <2>8. ASSUME NEW y \in Worker, stolenMsgs'[y] # {}
        PROVE \/ numReturned'[y] > 0
              \/ \E x \in Worker \ {y} : Own(y) \cap (batch'[x] \cup pend'[x] \cup done'[x]) # {}
    <3>1. serialRun /\ stolenMsgs[y] # {}
      BY <2>3, <2>8
    <3>2. CASE numReturned[y] > 0
      BY <2>5, <2>6, <3>2
    <3>3. ASSUME NEW x \in Worker \ {y}, NEW v \in Own(y), v \in batch[x] \cup pend[x] \cup done[x]
          PROVE \/ numReturned'[y] > 0
                \/ \E z \in Worker \ {y} : Own(y) \cap (batch'[z] \cup pend'[z] \cup done'[z]) # {}
      <4>1. CASE v \in S
        BY <2>1, <2>6, <3>1, <3>3, <4>1 DEF Own
      <4>2. CASE v \notin S
        <5>1. v \in batch'[x] \cup pend'[x] \cup done'[x]
          BY <2>2, <2>3, <3>3, <4>2
        <5> QED BY <3>3, <5>1
      <4> QED BY <4>1, <4>2
    <3>4. \/ numReturned[y] > 0
          \/ \E x \in Worker \ {y} : Own(y) \cap (batch[x] \cup pend[x] \cup done[x]) # {}
      BY <3>1
    <3> HIDE DEF IInv, Types
    <3> QED BY <3>2, <3>3, <3>4
  <2>9. Keeps /\ \A x \in Worker : Kept(x)' = Kept(x)
    BY <2>3 DEF Kept
  <2> HIDE DEF IInv, Types
  <2> QED BY <2>3, <2>7, <2>8, <2>9
<1>2. ASSUME NEW w \in Worker, ClearStolen(w) PROVE Keeps'
  <2>1. PICK v \in returning[w] : /\ returning' = [returning EXCEPT ![w] = @ \ {v}]
                                  /\ marked' = marked \ {v}
    BY <1>2 DEF ClearStolen
  <2>2. UNCHANGED <<serialRun, entering, pc, curr, batch, pend, done, stolenMsgs, fetched, handling, numReturned>>
    BY <1>2 DEF ClearStolen
  <2>3. \A x \in Worker : v \notin batch[x]
    BY DEF Places, Held
  <2>4. \A x \in Worker : returning'[x] \subseteq returning[x] /\ Kept(x)' = Kept(x)
    BY <2>1, <2>2 DEF Kept
  <2>5. Keeps
    OBVIOUS
  <2> HIDE DEF IInv, Types
  <2> QED BY <2>1, <2>2, <2>3, <2>4, <2>5
<1>3. ASSUME NEW w \in Worker, FetchOwn(w) PROVE Keeps'
  <2>0. PICK t \in Worker : t = w
    OBVIOUS
  <2>1. PICK S \in SUBSET curr[t] : /\ batch' = [batch EXCEPT ![w] = S]
                                    /\ curr' = [curr EXCEPT ![t] = @ \ S]
    BY <1>3, <2>0 DEF FetchOwn, Fetch, kSubset
  <2>2. /\ UNCHANGED <<serialRun, entering, pend, done, returning, stolenMsgs, fetched, handling, marked, numReturned>>
        /\ pc[w] \in {"return", "steal"} /\ pc'[w] \notin {"replay", "mode", "drain", "switch", "barrier2"}
        /\ \A x \in Worker \ {w} : pc'[x] = pc[x]
    BY <1>3 DEF FetchOwn
  <2>3. \A x \in Worker : Kept(x)' = Kept(x) /\ curr'[x] \subseteq curr[x]
    BY <2>1, <2>2 DEF Kept
  <2>4. \A y \in Worker : \A m \in Kept(y) : m.dest \notin S
    <3>1. \A v \in S : Owner[v] = t
      BY DEF Places, Own
    <3>2. \A y \in Worker : \A m \in Kept(y) : Owner[m.dest] = y /\ m.dest \notin curr[y]
      BY KeptOwner
    <3> HIDE DEF IInv, Types
    <3> QED BY <3>1, <3>2
  <2>5. batch[w] = {} /\ batch'[w] = S /\ \A x \in Worker \ {w} : batch'[x] = batch[x]
    <3>1. batch[w] = {}
      BY <2>2 DEF Places
    <3> QED BY <2>1, <3>1
  <2>6. \A y \in Worker : pc[y] = "replay" /\ handling[y] # None => handling[y] \in Kept(y)
    BY DEF Kept
  <2>7. Keeps
    OBVIOUS
  <2> HIDE DEF IInv, Types
  <2>8. \A y \in Worker : \A m \in Kept(y)' : /\ m.dest \notin curr'[y]
                                             /\ \A x \in Worker : m.dest \in batch'[x] => m.dest \in marked'
    BY <2>2, <2>3, <2>4, <2>5, <2>7
  <2>9. \A y \in Worker : (pc[y] = "replay" /\ handling[y] # None)' => \A x \in Worker \ {y} : handling'[y].dest \notin batch'[x]
    BY <2>2, <2>4, <2>5, <2>6, <2>7
  <2>10. ASSUME NEW y \in Worker, stolenMsgs'[y] # {}
         PROVE \/ numReturned'[y] > 0
               \/ \E x \in Worker \ {y} : Own(y) \cap (batch'[x] \cup pend'[x] \cup done'[x]) # {}
    <3>1. \A x \in Worker : batch[x] \subseteq batch'[x]
      BY <2>5
    <3> QED BY <2>2, <2>7, <2>10, <3>1
  <2>11. \A y \in Worker : (entering /\ pc[y] \in {"replay", "mode", "drain", "switch", "barrier2"})' => stolenMsgs'[y] = {}
    BY <2>2, <2>7
  <2> QED BY <2>2, <2>7, <2>8, <2>9, <2>10, <2>11
<1>4. ASSUME NEW w \in Worker, FetchNone(w) PROVE Keeps'
  <2>1. \A x \in Worker :
           /\ Kept(x)' = Kept(x)
           /\ pc'[x] = "replay" => pc[x] = "replay"
           /\ entering /\ pc'[x] \in {"replay", "mode", "drain", "switch", "barrier2"}
                 => pc[x] \in {"replay", "mode", "drain", "switch", "barrier2"}
    BY <1>4 DEF FetchNone, Kept
  <2> HIDE DEF IInv, Types, Theft, Keeps
  <2> QED BY <1>4, <2>1, KeepsFrame DEF FetchNone, IInv, Theft
<1>5. ASSUME NEW w \in Worker, StartSteal(w) PROVE Keeps'
  <2>1. \A x \in Worker :
           /\ Kept(x)' = Kept(x)
           /\ pc'[x] = "replay" => pc[x] = "replay"
           /\ entering /\ pc'[x] \in {"replay", "mode", "drain", "switch", "barrier2"}
                 => pc[x] \in {"replay", "mode", "drain", "switch", "barrier2"}
    BY <1>5 DEF StartSteal, Kept
  <2> HIDE DEF IInv, Types, Theft, Keeps
  <2> QED BY <1>5, <2>1, KeepsFrame DEF StartSteal, IInv, Theft
<1>6. ASSUME NEW w \in Worker, Steal(w) PROVE Keeps'
  <2>0. PICK t \in Worker : t = victim[w]
    OBVIOUS
  <2>1. PICK S \in SUBSET curr[t] : /\ batch' = [batch EXCEPT ![w] = S]
                                    /\ curr' = [curr EXCEPT ![t] = @ \ S]
    BY <1>6, <2>0 DEF Steal, Fetch, kSubset
  <2>2. /\ UNCHANGED <<serialRun, entering, pend, done, returning, stolenMsgs, fetched, handling, marked, numReturned>>
        /\ pc[w] \in {"return", "steal"} /\ pc'[w] \notin {"replay", "mode", "drain", "switch", "barrier2"}
        /\ \A x \in Worker \ {w} : pc'[x] = pc[x]
    BY <1>6 DEF Steal
  <2>3. \A x \in Worker : Kept(x)' = Kept(x) /\ curr'[x] \subseteq curr[x]
    BY <2>1, <2>2 DEF Kept
  <2>4. \A y \in Worker : \A m \in Kept(y) : m.dest \notin S
    <3>1. \A v \in S : Owner[v] = t
      BY DEF Places, Own
    <3>2. \A y \in Worker : \A m \in Kept(y) : Owner[m.dest] = y /\ m.dest \notin curr[y]
      BY KeptOwner
    <3> HIDE DEF IInv, Types
    <3> QED BY <3>1, <3>2
  <2>5. batch[w] = {} /\ batch'[w] = S /\ \A x \in Worker \ {w} : batch'[x] = batch[x]
    <3>1. batch[w] = {}
      BY <2>2 DEF Places
    <3> QED BY <2>1, <3>1
  <2>6. \A y \in Worker : pc[y] = "replay" /\ handling[y] # None => handling[y] \in Kept(y)
    BY DEF Kept
  <2>7. Keeps
    OBVIOUS
  <2> HIDE DEF IInv, Types
  <2>8. \A y \in Worker : \A m \in Kept(y)' : /\ m.dest \notin curr'[y]
                                             /\ \A x \in Worker : m.dest \in batch'[x] => m.dest \in marked'
    BY <2>2, <2>3, <2>4, <2>5, <2>7
  <2>9. \A y \in Worker : (pc[y] = "replay" /\ handling[y] # None)' => \A x \in Worker \ {y} : handling'[y].dest \notin batch'[x]
    BY <2>2, <2>4, <2>5, <2>6, <2>7
  <2>10. ASSUME NEW y \in Worker, stolenMsgs'[y] # {}
         PROVE \/ numReturned'[y] > 0
               \/ \E x \in Worker \ {y} : Own(y) \cap (batch'[x] \cup pend'[x] \cup done'[x]) # {}
    <3>1. \A x \in Worker : batch[x] \subseteq batch'[x]
      BY <2>5
    <3> QED BY <2>2, <2>7, <2>10, <3>1
  <2>11. \A y \in Worker : (entering /\ pc[y] \in {"replay", "mode", "drain", "switch", "barrier2"})' => stolenMsgs'[y] = {}
    BY <2>2, <2>7
  <2> QED BY <2>2, <2>7, <2>8, <2>9, <2>10, <2>11
<1>7. ASSUME NEW w \in Worker, PrepareSteal(w) PROVE Keeps'
  <2>1. \A x \in Worker :
           /\ Kept(x)' = Kept(x)
           /\ pc'[x] = "replay" => pc[x] = "replay"
           /\ entering /\ pc'[x] \in {"replay", "mode", "drain", "switch", "barrier2"}
                 => pc[x] \in {"replay", "mode", "drain", "switch", "barrier2"}
    BY <1>7 DEF PrepareSteal, Kept
  <2> HIDE DEF IInv, Types, Theft, Keeps
  <2> QED BY <1>7, <2>1, KeepsFrame DEF PrepareSteal, IInv, Theft
<1>8. ASSUME NEW w \in Worker, MarkStolen(w) PROVE Keeps'
  <2>1. \A x \in Worker :
           /\ Kept(x)' = Kept(x)
           /\ pc'[x] = "replay" => pc[x] = "replay"
           /\ entering /\ pc'[x] \in {"replay", "mode", "drain", "switch", "barrier2"}
                 => pc[x] \in {"replay", "mode", "drain", "switch", "barrier2"}
    BY <1>8 DEF MarkStolen, Kept
  <2> HIDE DEF IInv, Types, Theft, Keeps
  <2> QED BY <1>8, <2>1, KeepsFrame DEF MarkStolen, IInv, Theft
<1>9. ASSUME NEW w \in Worker, WaitGuard(w) PROVE Keeps'
  <2>1. \A x \in Worker :
           /\ Kept(x)' = Kept(x)
           /\ pc'[x] = "replay" => pc[x] = "replay"
           /\ entering /\ pc'[x] \in {"replay", "mode", "drain", "switch", "barrier2"}
                 => pc[x] \in {"replay", "mode", "drain", "switch", "barrier2"}
    BY <1>9 DEF WaitGuard, Kept
  <2> HIDE DEF IInv, Types, Theft, Keeps
  <2> QED BY <1>9, <2>1, KeepsFrame DEF WaitGuard, IInv, Theft
<1>10. ASSUME NEW w \in Worker, CountVertices(w) PROVE Keeps'
  <2>1. \A x \in Worker :
           /\ Kept(x)' = Kept(x)
           /\ pc'[x] = "replay" => pc[x] = "replay"
           /\ entering /\ pc'[x] \in {"replay", "mode", "drain", "switch", "barrier2"}
                 => pc[x] \in {"replay", "mode", "drain", "switch", "barrier2"}
    BY <1>10 DEF CountVertices, Kept
  <2> HIDE DEF IInv, Types, Theft, Keeps
  <2> QED BY <1>10, <2>1, KeepsFrame DEF CountVertices, IInv, Theft
<1>11. ASSUME NEW w \in Worker, RunVertex(w) PROVE Keeps'
  <2>1. PICK v \in batch[w] :
          /\ batch' = [batch EXCEPT ![w] = @ \ {v}]
          /\ \/ /\ pend' = [pend EXCEPT ![w] = @ \cup {v}]
                /\ UNCHANGED done
             \/ CompleteVertex(w, v) /\ UNCHANGED pend
    BY <1>11 DEF RunVertex
  <2>2. /\ UNCHANGED <<serialRun, entering, curr, returning, stolenMsgs, fetched, handling, marked, numReturned>>
        /\ pc[w] = "run" /\ pc'[w] \notin {"replay", "mode", "drain", "switch", "barrier2"}
        /\ \A x \in Worker \ {w} : pc'[x] = pc[x]
    BY <1>11 DEF RunVertex
  <2>4. \A x \in Worker : batch'[x] \subseteq batch[x] /\ Kept(x)' = Kept(x)
    BY <2>1, <2>2 DEF Kept
  <2>5. \A y \in Worker : \A x \in Worker \ {y} :
           Own(y) \cap (batch[x] \cup pend[x] \cup done[x]) \subseteq batch'[x] \cup pend'[x] \cup done'[x]
    BY <2>1, <2>2 DEF CompleteVertex, Own
  <2>6. Keeps /\ ~entering
    BY <1>11 DEF RunVertex, Phases
  <2> HIDE DEF IInv, Types
  <2>7. \A y \in Worker : \A m \in Kept(y)' : /\ m.dest \notin curr'[y]
                                             /\ \A x \in Worker : m.dest \in batch'[x] => m.dest \in marked'
    BY <2>2, <2>4, <2>6
  <2>8. \A y \in Worker : (pc[y] = "replay" /\ handling[y] # None)' => \A x \in Worker \ {y} : handling'[y].dest \notin batch'[x]
    BY <2>2, <2>4, <2>6
  <2>9. ASSUME NEW y \in Worker, stolenMsgs'[y] # {}
        PROVE \/ numReturned'[y] > 0
              \/ \E x \in Worker \ {y} : Own(y) \cap (batch'[x] \cup pend'[x] \cup done'[x]) # {}
    <3>1. \/ numReturned[y] > 0
          \/ \E x \in Worker \ {y} : Own(y) \cap (batch[x] \cup pend[x] \cup done[x]) # {}
      BY <2>2, <2>6, <2>9
    <3> QED BY <2>2, <2>5, <3>1
  <2> QED BY <2>2, <2>6, <2>7, <2>8, <2>9
<1>12. ASSUME NEW w \in Worker, CompleteIO(w) PROVE Keeps'
  <2>1. PICK v \in pend[w] :
          pend' = [pend EXCEPT ![w] = @ \ {v}] /\ CompleteVertex(w, v)
    BY <1>12 DEF CompleteIO
  <2>2. UNCHANGED <<serialRun, entering, pc, curr, batch, returning, stolenMsgs, fetched, handling, marked, numReturned>>
    BY <1>12 DEF CompleteIO
  <2>4. \A x \in Worker : batch'[x] \subseteq batch[x] /\ Kept(x)' = Kept(x)
    BY <2>1, <2>2 DEF Kept
  <2>5. \A y \in Worker : \A x \in Worker \ {y} :
           Own(y) \cap (batch[x] \cup pend[x] \cup done[x]) \subseteq batch'[x] \cup pend'[x] \cup done'[x]
    BY <2>1, <2>2 DEF CompleteVertex, Own
  <2>6. Keeps /\ ~entering
    BY <1>12 DEF CompleteIO, Phases
  <2> HIDE DEF IInv, Types
  <2>7. \A y \in Worker : \A m \in Kept(y)' : /\ m.dest \notin curr'[y]
                                             /\ \A x \in Worker : m.dest \in batch'[x] => m.dest \in marked'
    BY <2>2, <2>4, <2>6
  <2>8. \A y \in Worker : (pc[y] = "replay" /\ handling[y] # None)' => \A x \in Worker \ {y} : handling'[y].dest \notin batch'[x]
    BY <2>2, <2>4, <2>6
  <2>9. ASSUME NEW y \in Worker, stolenMsgs'[y] # {}
        PROVE \/ numReturned'[y] > 0
              \/ \E x \in Worker \ {y} : Own(y) \cap (batch'[x] \cup pend'[x] \cup done'[x]) # {}
    <3>1. \/ numReturned[y] > 0
          \/ \E x \in Worker \ {y} : Own(y) \cap (batch[x] \cup pend[x] \cup done[x]) # {}
      BY <2>2, <2>6, <2>9
    <3> QED BY <2>2, <2>5, <3>1
  <2> QED BY <2>2, <2>6, <2>7, <2>8, <2>9
<1>13. ASSUME NEW w \in Worker, TakeStolenMsgs(w) PROVE Keeps'
  <2>1. /\ pc[w] = "msgs" /\ pc' = [pc EXCEPT ![w] = "replay"] /\ fetched' = [fetched EXCEPT ![w] = stolenMsgs[w]]
        /\ stolenMsgs' = [stolenMsgs EXCEPT ![w] = {}]
        /\ UNCHANGED <<serialRun, entering, curr, batch, pend, done, returning, handling, marked, numReturned>>
    BY <1>13 DEF TakeStolenMsgs
  <2>2. handling[w] = None /\ fetched[w] = {}
    BY <2>1 DEF Mail
  <2>3. \A x \in Worker : Kept(x)' = Kept(x)
    BY <2>1, <2>2 DEF Kept
  <2>4. \A x \in Worker : stolenMsgs'[x] \subseteq stolenMsgs[x]
    BY <2>1
  <2>5. stolenMsgs'[w] = {} /\ pc'[w] = "replay" /\ \A x \in Worker \ {w} : pc'[x] = pc[x]
    BY <2>1
  <2>6. Keeps
    OBVIOUS
  <2> HIDE DEF IInv, Types
  <2> QED BY <2>1, <2>2, <2>3, <2>4, <2>5, <2>6
<1>14. ASSUME NEW w \in Worker, GuardMsgs(w) PROVE Keeps'
  <2>1. /\ \/ pc[w] = "msgs" /\ ~Replays(w)
           \/ pc[w] = "replay"
        /\ pc'[w] \in {"mode", "drain"} /\ \A x \in Worker \ {w} : pc'[x] = pc[x]
        /\ UNCHANGED <<serialRun, entering, curr, batch, pend, done, returning, stolenMsgs, fetched, handling, marked, numReturned>>
    BY <1>14 DEF GuardMsgs
  <2>2. entering => stolenMsgs[w] = {}
    <3>1. CASE pc[w] = "replay"
      BY <3>1
    <3>2. CASE ~Replays(w) /\ entering /\ stolenMsgs[w] # {}
      <4>1. serialRun /\ ~(numReturned[w] > 0)
        BY <3>2 DEF Replays
      <4>2. \E x \in Worker \ {w} : Own(w) \cap (batch[x] \cup pend[x] \cup done[x]) # {}
        BY <3>2, <4>1
      <4>3. \A x \in Worker : batch[x] = {} /\ pend[x] = {} /\ done[x] = {}
        BY <3>2 DEF Places, Held
      <4> QED BY <4>2, <4>3
    <3> QED BY <2>1, <3>1, <3>2
  <2>3. \A x \in Worker : Kept(x)' \subseteq Kept(x)
    BY <2>1 DEF Kept
  <2>4. Keeps
    OBVIOUS
  <2> HIDE DEF IInv, Types
  <2> QED BY <2>1, <2>2, <2>3, <2>4
<1>15. ASSUME NEW w \in Worker, EnterStealMode(w) PROVE Keeps'
  <2>1. \A x \in Worker :
           /\ Kept(x)' = Kept(x)
           /\ pc'[x] = "replay" => pc[x] = "replay"
           /\ entering /\ pc'[x] \in {"replay", "mode", "drain", "switch", "barrier2"}
                 => pc[x] \in {"replay", "mode", "drain", "switch", "barrier2"}
    BY <1>15 DEF EnterStealMode, Kept
  <2> HIDE DEF IInv, Types, Theft, Keeps
  <2> QED BY <1>15, <2>1, KeepsFrame DEF EnterStealMode, IInv, Theft
<1>16. ASSUME NEW w \in Worker, FetchMsgs(w) PROVE Keeps'
  <2>1. \A x \in Worker :
           /\ Kept(x)' = Kept(x)
           /\ pc'[x] = "replay" => pc[x] = "replay"
           /\ entering /\ pc'[x] \in {"replay", "mode", "drain", "switch", "barrier2"}
                 => pc[x] \in {"replay", "mode", "drain", "switch", "barrier2"}
    BY <1>16 DEF FetchMsgs, Kept
  <2> HIDE DEF IInv, Types, Theft, Keeps
  <2> QED BY <1>16, <2>1, KeepsFrame DEF FetchMsgs, IInv, Theft
<1>17. ASSUME NEW w \in Worker, ProcessMsg(w) PROVE Keeps'
  <2>1. PICK m \in fetched[w] :
          /\ fetched' = [fetched EXCEPT ![w] = @ \ {m}]
          /\ \/ UNCHANGED <<stolenMsgs, handling>>
             \/ /\ MustWait(w, m)
                /\ stolenMsgs' = [stolenMsgs EXCEPT ![w] = @ \cup {m}]
                /\ UNCHANGED handling
             \/ /\ m.body /\ ~MustWait(w, m)
                /\ handling' = [handling EXCEPT ![w] = m]
                /\ UNCHANGED stolenMsgs
    BY <1>17 DEF ProcessMsg
  <2>2. /\ pc[w] \in {"replay", "drain"} /\ handling[w] = None
        /\ UNCHANGED <<serialRun, entering, pc, curr, batch, pend, done, returning, marked, numReturned>>
    BY <1>17 DEF ProcessMsg
  <2>3. Owner[m.dest] = w /\ m \in Msg /\ m # None
    BY MsgFields DEF Mail
  <2>4. \A x \in Worker \ {w} : /\ Kept(x)' = Kept(x) /\ handling'[x] = handling[x]
                                /\ stolenMsgs'[x] = stolenMsgs[x]
    BY <2>1, <2>2 DEF Kept
  <2>5. Keeps
    OBVIOUS
  <2>6. CASE UNCHANGED <<stolenMsgs, handling>>
    <3>1. Kept(w)' \subseteq Kept(w)
      BY <2>1, <2>2, <2>6 DEF Kept
    <3> HIDE DEF IInv, Types
    <3> QED BY <2>2, <2>4, <2>5, <2>6, <3>1
  <2>7. CASE MustWait(w, m) /\ stolenMsgs' = [stolenMsgs EXCEPT ![w] = @ \cup {m}] /\ UNCHANGED handling
    <3>1. m.dest \in marked
      BY <2>7 DEF MustWait
    <3>2. m.dest \notin curr[w] /\ ~entering
      BY <2>3, <3>1, MarkedAway
    <3>3. serialRun
      BY <3>1 DEF Marks
    <3>4. PICK x \in Worker \ {w} : m.dest \in batch[x] \cup pend[x] \cup done[x] \cup returning[x]
      BY <2>3, <3>1 DEF StolenAreAway
    <3>5. \/ numReturned[w] > 0
          \/ \E y \in Worker \ {w} : Own(w) \cap (batch[y] \cup pend[y] \cup done[y]) # {}
      <4>1. CASE m.dest \in returning[x]
        BY <2>3, <3>3, <4>1
      <4>2. CASE m.dest \in batch[x] \cup pend[x] \cup done[x]
        <5>1. m.dest \in Own(w)
          BY <2>3, MsgFields DEF Own
        <5> QED BY <4>2, <5>1
      <4> QED BY <3>4, <4>1, <4>2
    <3>6. Kept(w)' \subseteq Kept(w) \cup {m} /\ handling'[w] = None
      BY <2>1, <2>2, <2>7 DEF Kept
    <3> HIDE DEF IInv, Types
    <3> QED BY <2>2, <2>4, <2>5, <3>1, <3>2, <3>3, <3>5, <3>6
  <2>8. CASE ~MustWait(w, m) /\ m.body /\ handling' = [handling EXCEPT ![w] = m] /\ UNCHANGED stolenMsgs
    <3>1. Kept(w)' \subseteq Kept(w) /\ handling'[w] = m
      BY <2>1, <2>2, <2>8 DEF Kept
    <3>2. pc[w] = "replay" => m.dest \notin marked /\ m \in Kept(w)
      BY <2>8 DEF MustWait, Kept, Guards
    <3>3. pc[w] = "replay" => \A x \in Worker : m.dest \notin batch[x]
      BY <3>2
    <3> HIDE DEF IInv, Types
    <3> QED BY <2>2, <2>4, <2>5, <2>8, <3>1, <3>3
  <2> QED BY <2>1, <2>6, <2>7, <2>8
<1>18. ASSUME NEW w \in Worker, EndHandler(w) PROVE Keeps'
  <2>1. /\ handling' = [handling EXCEPT ![w] = None]
        /\ UNCHANGED <<serialRun, entering, pc, curr, batch, pend, done, returning, stolenMsgs, fetched, marked, numReturned>>
    BY <1>18 DEF EndHandler
  <2>2. \A x \in Worker : Kept(x)' \subseteq Kept(x) /\ handling'[x] \in {None, handling[x]}
    BY <2>1 DEF Kept
  <2>3. Keeps
    OBVIOUS
  <2> HIDE DEF IInv, Types
  <2> QED BY <2>1, <2>2, <2>3
<1>19. ASSUME NEW w \in Worker, UnguardMsgs(w) PROVE Keeps'
  <2>1. \A x \in Worker :
           /\ Kept(x)' = Kept(x)
           /\ pc'[x] = "replay" => pc[x] = "replay"
           /\ entering /\ pc'[x] \in {"replay", "mode", "drain", "switch", "barrier2"}
                 => pc[x] \in {"replay", "mode", "drain", "switch", "barrier2"}
    BY <1>19 DEF UnguardMsgs, Kept
  <2> HIDE DEF IInv, Types, Theft, Keeps
  <2> QED BY <1>19, <2>1, KeepsFrame DEF UnguardMsgs, IInv, Theft
<1>20. ASSUME NEW w \in Worker, LoopAgain(w) PROVE Keeps'
  <2>1. \A x \in Worker :
           /\ Kept(x)' = Kept(x)
           /\ pc'[x] = "replay" => pc[x] = "replay"
           /\ entering /\ pc'[x] \in {"replay", "mode", "drain", "switch", "barrier2"}
                 => pc[x] \in {"replay", "mode", "drain", "switch", "barrier2"}
    BY <1>20 DEF LoopAgain, Kept
  <2> HIDE DEF IInv, Types, Theft, Keeps
  <2> QED BY <1>20, <2>1, KeepsFrame DEF LoopAgain, IInv, Theft
<1>21. ASSUME NEW w \in Worker, EndIteration(w) PROVE Keeps'
  <2>1. \A x \in Worker :
           /\ Kept(x)' = Kept(x)
           /\ pc'[x] = "replay" => pc[x] = "replay"
           /\ entering /\ pc'[x] \in {"replay", "mode", "drain", "switch", "barrier2"}
                 => pc[x] \in {"replay", "mode", "drain", "switch", "barrier2"}
    BY <1>21 DEF EndIteration, Kept
  <2> HIDE DEF IInv, Types, Theft, Keeps
  <2> QED BY <1>21, <2>1, KeepsFrame DEF EndIteration, IInv, Theft
<1>22. ASSUME NEW w \in Worker, FlushMsgs(w) PROVE Keeps'
  <2>1. \A x \in Worker :
           /\ Kept(x)' = Kept(x)
           /\ pc'[x] = "replay" => pc[x] = "replay"
           /\ entering /\ pc'[x] \in {"replay", "mode", "drain", "switch", "barrier2"}
                 => pc[x] \in {"replay", "mode", "drain", "switch", "barrier2"}
    BY <1>22 DEF FlushMsgs, Kept
  <2> HIDE DEF IInv, Types, Theft, Keeps
  <2> QED BY <1>22, <2>1, KeepsFrame DEF FlushMsgs, IInv, Theft
<1>23. ASSUME NEW w \in Worker, FirstLevel(w) PROVE Keeps'
  <2>1. \A x \in Worker :
           /\ Kept(x)' = Kept(x)
           /\ pc'[x] = "replay" => pc[x] = "replay"
           /\ entering /\ pc'[x] \in {"replay", "mode", "drain", "switch", "barrier2"}
                 => pc[x] \in {"replay", "mode", "drain", "switch", "barrier2"}
    BY <1>23 DEF FirstLevel, Kept, Phases
  <2> HIDE DEF IInv, Types, Theft, Keeps
  <2> QED BY <1>23, <2>1, KeepsFrame DEF FirstLevel, IInv, Theft
<1>24. ASSUME NEW w \in Worker, EnterNextLevel(w) PROVE Keeps'
  <2>1. /\ pc[w] = "switch" /\ entering /\ pc'[w] = "barrier2" /\ \A x \in Worker \ {w} : pc'[x] = pc[x]
        /\ UNCHANGED <<serialRun, entering, stolenMsgs, fetched, handling>>
    BY <1>24 DEF EnterNextLevel, Phases
  <2>2. \A x \in Worker : batch'[x] = {} /\ pend'[x] = {} /\ done'[x] = {} /\ returning'[x] = {}
    BY <1>24, <2>1 DEF EnterNextLevel, Places, Held
  <2>3. \A x \in Worker : batch[x] = {} /\ pend[x] = {} /\ done[x] = {}
    BY <2>1 DEF Places, Held
  <2>4. stolenMsgs[w] = {} /\ Kept(w)' = {} /\ \A x \in Worker \ {w} : Kept(x)' = Kept(x)
    BY <2>1 DEF Kept
  <2>5. \A x \in Worker \ {w} : curr'[x] = curr[x] /\ numReturned'[x] = numReturned[x]
    BY <1>24 DEF EnterNextLevel
  <2>6. Keeps
    OBVIOUS
  <2> HIDE DEF IInv, Types
  <2> QED BY <2>1, <2>2, <2>3, <2>4, <2>5, <2>6
<1>25. CASE Barrier1
  <2>1. \A x \in Worker : Kept(x)' = Kept(x)
    BY <1>25 DEF Barrier1, All, Kept
  <2>2. /\ \A x \in Worker : pc'[x] \in {"msgs", "return", "stop"}
        /\ UNCHANGED <<serialRun, curr, batch, pend, done, returning, stolenMsgs, handling, marked, numReturned>>
    BY <1>25 DEF Barrier1, All
  <2>3. Keeps
    OBVIOUS
  <2> HIDE DEF IInv, Types
  <2> QED BY <2>1, <2>2, <2>3
<1>26. CASE Barrier2
  <2>1. \A x \in Worker : Kept(x)' = Kept(x)
    BY <1>26 DEF Barrier2, All, Kept
  <2>2. /\ \A x \in Worker : pc'[x] \in {"msgs", "return", "stop"}
        /\ UNCHANGED <<serialRun, curr, batch, pend, done, returning, stolenMsgs, handling, marked, numReturned>>
    BY <1>26 DEF Barrier2, All
  <2>3. Keeps
    OBVIOUS
  <2> HIDE DEF IInv, Types
  <2> QED BY <2>1, <2>2, <2>3
<1>27. CASE UNCHANGED vars
  <2>1. \A x \in Worker :
           /\ Kept(x)' = Kept(x)
           /\ pc'[x] = "replay" => pc[x] = "replay"
           /\ entering /\ pc'[x] \in {"replay", "mode", "drain", "switch", "barrier2"}
                 => pc[x] \in {"replay", "mode", "drain", "switch", "barrier2"}
    BY <1>27 DEF vars, Kept
  <2> HIDE DEF IInv, Types, Theft, Keeps
  <2> QED BY <1>27, <2>1, KeepsFrame DEF vars, IInv, Theft
<1> HIDE DEF Keeps, Held
<1> QED BY <1>1, <1>2, <1>3, <1>4, <1>5, <1>6, <1>7, <1>8, <1>9, <1>10, <1>11, <1>12, <1>13, <1>14, <1>15, <1>16, <1>17, <1>18, <1>19, <1>20, <1>21, <1>22, <1>23, <1>24, <1>25, <1>26, <1>27 DEF Next, WorkerStep, Stopped

\* Serial execution, in terms of what workers run.
LEMMA SerialRunning ==
    SerialExecution <=> (serialRun => \A w, x \in Worker : w # x /\ handling[w] # None => handling[w].dest \notin Running(x))
BY DEF SerialExecution, Running

\* A step that begins no handler, and no vertex of another worker.
LEMMA SerialFrame ==
    ASSUME IInv, UNCHANGED serialRun,
           \A w \in Worker : /\ handling'[w] \in {None, handling[w]}
                             /\ serialRun => Running(w)' \subseteq Running(w) \cup Own(w)
    PROVE SerialExecution'
<1>1. \A w \in Worker : handling[w] # None => Owner[handling[w].dest] = w
  BY DEF IInv, Mail
<1>2. serialRun => \A w, x \in Worker : w # x /\ handling[w] # None => handling[w].dest \notin Running(x)
  BY SerialRunning DEF IInv, Theft
<1>3. serialRun' => \A w, x \in Worker : w # x /\ handling'[w] # None => handling'[w].dest \notin Running(x)'
  BY <1>1, <1>2 DEF Own
<1> QED BY <1>3 DEF SerialExecution, Running

\* Every step keeps the execution serial.
LEMMA SerialStep == ASSUME IInv, Types', [Next]_vars PROVE SerialExecution'
<1> USE DEF config, queues, balancer, senders, inbox, stealState, levels, IInv, Types, Theft, Goto
<1>1. ASSUME NEW w \in Worker, ReturnVertices(w) PROVE SerialExecution'
  <2>1. \A x \in Worker : Running(x)' \subseteq Running(x)
    BY <1>1 DEF ReturnVertices, Running
  <2> QED BY <1>1, <2>1, SerialFrame DEF ReturnVertices
<1>2. ASSUME NEW w \in Worker, ClearStolen(w) PROVE SerialExecution'
  <2>1. \A x \in Worker : Running(x)' \subseteq Running(x)
    BY <1>2 DEF ClearStolen, Running
  <2> QED BY <1>2, <2>1, SerialFrame DEF ClearStolen
<1>3. ASSUME NEW w \in Worker, FetchOwn(w) PROVE SerialExecution'
  <2>1. \A x \in Worker : Running(x)' \subseteq Running(x) \cup Own(x)
    BY <1>3 DEF FetchOwn, Fetch, kSubset, Running, Places, Own
  <2> QED BY <1>3, <2>1, SerialFrame DEF FetchOwn
<1>4. ASSUME NEW w \in Worker, FetchNone(w) PROVE SerialExecution'
  <2>1. \A x \in Worker : Running(x)' \subseteq Running(x)
    BY <1>4 DEF FetchNone, Running
  <2> QED BY <1>4, <2>1, SerialFrame DEF FetchNone
<1>5. ASSUME NEW w \in Worker, StartSteal(w) PROVE SerialExecution'
  <2>1. \A x \in Worker : Running(x)' \subseteq Running(x)
    BY <1>5 DEF StartSteal, Running
  <2> QED BY <1>5, <2>1, SerialFrame DEF StartSteal
<1>6. ASSUME NEW w \in Worker, Steal(w) PROVE SerialExecution'
  <2>1. serialRun => \A x \in Worker : Running(x)' = Running(x)
    BY <1>6 DEF Steal, Running
  <2> QED BY <1>6, <2>1, SerialFrame DEF Steal
<1>7. ASSUME NEW w \in Worker, PrepareSteal(w) PROVE SerialExecution'
  <2>1. \A x \in Worker : Running(x)' \subseteq Running(x)
    BY <1>7 DEF PrepareSteal, Running
  <2> QED BY <1>7, <2>1, SerialFrame DEF PrepareSteal
<1>8. ASSUME NEW w \in Worker, MarkStolen(w) PROVE SerialExecution'
  <2>1. \A x \in Worker : Running(x)' \subseteq Running(x)
    BY <1>8 DEF MarkStolen, Running
  <2> QED BY <1>8, <2>1, SerialFrame DEF MarkStolen
<1>9. ASSUME NEW w \in Worker, WaitGuard(w) PROVE SerialExecution'
  <2>1. /\ serialRun /\ pc[w] = "mark" /\ batch[w] \in SUBSET Own(victim[w]) /\ ~guard[victim[w]]
        /\ victim[w] \in Worker /\ victim[w] # w
    BY <1>9 DEF WaitGuard, Places
  <2>2. pc' = [pc EXCEPT ![w] = "count"] /\ UNCHANGED <<serialRun, batch, pend, handling>>
    BY <1>9 DEF WaitGuard
  <2>3. /\ Running(w)' = Running(w) \cup batch[w]
        /\ \A x \in Worker \ {w} : Running(x)' = Running(x)
    BY <2>1, <2>2 DEF Running
  <2>4. ASSUME NEW y \in Worker, y # w, handling[y] # None PROVE handling[y].dest \notin batch[w]
    <3>1. Owner[handling[y].dest] = y /\ pc[y] \in {"replay", "drain"}
      BY <2>4 DEF Mail
    <3>2. CASE y # victim[w]
      BY <2>1, <3>1, <3>2 DEF Own
    <3>3. CASE y = victim[w]
      <4>1. pc[y] = "replay"
        BY <2>1, <3>1, <3>3 DEF Guards
      <4> QED BY <2>4, <4>1 DEF Keeps
    <3> QED BY <3>2, <3>3
  <2>5. \A y, x \in Worker : y # x /\ handling[y] # None => handling[y].dest \notin Running(x)
    BY <2>1, SerialRunning
  <2>6. \A y, x \in Worker : y # x /\ handling'[y] # None => handling'[y].dest \notin Running(x)'
    <3> HIDE DEF IInv, Types
    <3> QED BY <2>2, <2>3, <2>4, <2>5
  <2> QED BY <2>6 DEF SerialExecution, Running
<1>10. ASSUME NEW w \in Worker, CountVertices(w) PROVE SerialExecution'
  <2>1. \A x \in Worker : Running(x)' \subseteq Running(x)
    BY <1>10 DEF CountVertices, Running
  <2> QED BY <1>10, <2>1, SerialFrame DEF CountVertices
<1>11. ASSUME NEW w \in Worker, RunVertex(w) PROVE SerialExecution'
  <2>1. \A x \in Worker : Running(x)' \subseteq Running(x)
    BY <1>11 DEF RunVertex, Running
  <2> QED BY <1>11, <2>1, SerialFrame DEF RunVertex
<1>12. ASSUME NEW w \in Worker, CompleteIO(w) PROVE SerialExecution'
  <2>1. \A x \in Worker : Running(x)' \subseteq Running(x)
    BY <1>12 DEF CompleteIO, Running
  <2> QED BY <1>12, <2>1, SerialFrame DEF CompleteIO
<1>13. ASSUME NEW w \in Worker, TakeStolenMsgs(w) PROVE SerialExecution'
  <2>1. \A x \in Worker : Running(x)' \subseteq Running(x)
    BY <1>13 DEF TakeStolenMsgs, Running
  <2> QED BY <1>13, <2>1, SerialFrame DEF TakeStolenMsgs
<1>14. ASSUME NEW w \in Worker, GuardMsgs(w) PROVE SerialExecution'
  <2>1. \A x \in Worker : Running(x)' \subseteq Running(x)
    BY <1>14 DEF GuardMsgs, Running
  <2> QED BY <1>14, <2>1, SerialFrame DEF GuardMsgs
<1>15. ASSUME NEW w \in Worker, EnterStealMode(w) PROVE SerialExecution'
  <2>1. \A x \in Worker : Running(x)' \subseteq Running(x)
    BY <1>15 DEF EnterStealMode, Running
  <2> QED BY <1>15, <2>1, SerialFrame DEF EnterStealMode
<1>16. ASSUME NEW w \in Worker, FetchMsgs(w) PROVE SerialExecution'
  <2>1. \A x \in Worker : Running(x)' \subseteq Running(x)
    BY <1>16 DEF FetchMsgs, Running
  <2> QED BY <1>16, <2>1, SerialFrame DEF FetchMsgs
<1>17. ASSUME NEW w \in Worker, ProcessMsg(w) PROVE SerialExecution'
  <2>1. PICK m \in fetched[w] :
          \/ UNCHANGED handling
          \/ m.body /\ ~MustWait(w, m) /\ handling' = [handling EXCEPT ![w] = m]
    BY <1>17 DEF ProcessMsg
  <2>2. pc[w] \in {"replay", "drain"} /\ UNCHANGED <<serialRun, pc, batch, pend>>
    BY <1>17 DEF ProcessMsg
  <2>3. \A x \in Worker : Running(x)' = Running(x)
    BY <2>2 DEF Running
  <2>4. CASE UNCHANGED handling
    BY <2>2, <2>3, <2>4, SerialFrame
  <2>5. CASE m.body /\ ~MustWait(w, m) /\ handling' = [handling EXCEPT ![w] = m]
    <3>1. Owner[m.dest] = w /\ m.dest \in Vertex
      BY MsgFields DEF Mail
    <3>2. ASSUME serialRun, NEW x \in Worker \ {w} PROVE m.dest \notin Running(x)
      <4>1. CASE m.dest \notin marked
        BY <3>1, <3>2, <4>1 DEF Marks
      <4>2. CASE ~checkSteal[w]
        <5>1. pc[w] = "drain"
          BY <2>2, <4>2 DEF Guards
        <5>2. Running(x) \cap Own(w) = {}
          BY <3>2, <4>2, <5>1 DEF Guards
        <5> QED BY <3>1, <5>2 DEF Own
      <4> QED BY <2>5, <4>1, <4>2 DEF MustWait
    <3>3. handling'[w] = m /\ \A y \in Worker \ {w} : handling'[y] = handling[y]
      BY <2>5
    <3>4. serialRun => \A y, x \in Worker : y # x /\ handling[y] # None => handling[y].dest \notin Running(x)
      BY SerialRunning
    <3>5. serialRun' => \A y, x \in Worker : y # x /\ handling'[y] # None => handling'[y].dest \notin Running(x)'
      <4> HIDE DEF IInv, Types
      <4> QED BY <2>2, <2>3, <3>2, <3>3, <3>4
    <3> QED BY <3>5 DEF SerialExecution, Running
  <2> QED BY <2>1, <2>4, <2>5
<1>18. ASSUME NEW w \in Worker, EndHandler(w) PROVE SerialExecution'
  <2>1. \A x \in Worker : Running(x)' \subseteq Running(x)
    BY <1>18 DEF EndHandler, Running
  <2> QED BY <1>18, <2>1, SerialFrame DEF EndHandler
<1>19. ASSUME NEW w \in Worker, UnguardMsgs(w) PROVE SerialExecution'
  <2>1. \A x \in Worker : Running(x)' \subseteq Running(x)
    BY <1>19 DEF UnguardMsgs, Running
  <2> QED BY <1>19, <2>1, SerialFrame DEF UnguardMsgs
<1>20. ASSUME NEW w \in Worker, LoopAgain(w) PROVE SerialExecution'
  <2>1. \A x \in Worker : Running(x)' \subseteq Running(x)
    BY <1>20 DEF LoopAgain, Running
  <2> QED BY <1>20, <2>1, SerialFrame DEF LoopAgain
<1>21. ASSUME NEW w \in Worker, EndIteration(w) PROVE SerialExecution'
  <2>1. \A x \in Worker : Running(x)' \subseteq Running(x)
    BY <1>21 DEF EndIteration, Running
  <2> QED BY <1>21, <2>1, SerialFrame DEF EndIteration
<1>22. ASSUME NEW w \in Worker, FlushMsgs(w) PROVE SerialExecution'
  <2>1. \A x \in Worker : Running(x)' \subseteq Running(x)
    BY <1>22 DEF FlushMsgs, Running
  <2> QED BY <1>22, <2>1, SerialFrame DEF FlushMsgs
<1>23. ASSUME NEW w \in Worker, FirstLevel(w) PROVE SerialExecution'
  <2>1. \A x \in Worker : Running(x)' \subseteq Running(x)
    BY <1>23 DEF FirstLevel, Running
  <2> QED BY <1>23, <2>1, SerialFrame DEF FirstLevel
<1>24. ASSUME NEW w \in Worker, EnterNextLevel(w) PROVE SerialExecution'
  <2>1. \A x \in Worker : Running(x)' \subseteq Running(x)
    BY <1>24 DEF EnterNextLevel, Running
  <2> QED BY <1>24, <2>1, SerialFrame DEF EnterNextLevel
<1>25. CASE Barrier1
  <2>1. \A x \in Worker : Running(x)' \subseteq Running(x)
    BY <1>25 DEF Barrier1, Running, All
  <2> QED BY <1>25, <2>1, SerialFrame DEF Barrier1
<1>26. CASE Barrier2
  <2>1. \A x \in Worker : Running(x)' \subseteq Running(x)
    BY <1>26 DEF Barrier2, Running, All
  <2> QED BY <1>26, <2>1, SerialFrame DEF Barrier2
<1>27. CASE UNCHANGED vars
  <2>1. \A x \in Worker : Running(x)' \subseteq Running(x)
    BY <1>27 DEF vars, Running
  <2> QED BY <1>27, <2>1, SerialFrame DEF vars
<1> HIDE DEF SerialExecution, Held
<1> QED BY <1>1, <1>2, <1>3, <1>4, <1>5, <1>6, <1>7, <1>8, <1>9, <1>10, <1>11, <1>12, <1>13, <1>14, <1>15, <1>16, <1>17, <1>18, <1>19, <1>20, <1>21, <1>22, <1>23, <1>24, <1>25, <1>26, <1>27 DEF Next, WorkerStep, Stopped

-------------------------------------------------------------------------------
(* The theorems                                                            *)

\* The initial states satisfy the inductive invariant.
LEMMA InitInv == Init => IInv
<1> SUFFICES ASSUME Init PROVE IInv
  OBVIOUS
<1>0. PICK S \in SUBSET Vertex : curr = [w \in Worker |-> S \cap Own(w)]
  BY DEF Init
<1> USE DEF Init, All
<1>1. Types
  <2>1. victim \in [Worker -> Worker]
    BY NextVictim
  <2>2. curr \in [Worker -> SUBSET Vertex]
    BY <1>0
  <2>3. serialRun \in SerialRuns /\ serialRun \in BOOLEAN
    BY ProgramsAssumption
  <2>4. /\ next \in [Worker -> SUBSET Vertex] /\ batch \in [Worker -> SUBSET Vertex]
        /\ pend \in [Worker -> SUBSET Vertex] /\ done \in [Worker -> SUBSET Vertex]
        /\ returning \in [Worker -> SUBSET Vertex] /\ tries \in [Worker -> Nat]
    OBVIOUS
  <2>5. /\ buf \in [Worker -> SUBSET Msg] /\ msgq \in [Worker -> SUBSET Msg]
        /\ stolenMsgs \in [Worker -> SUBSET Msg] /\ fetched \in [Worker -> SUBSET Msg]
        /\ ready \in [Worker -> SUBSET Worker] /\ handling \in [Worker -> Msg \cup {None}]
    OBVIOUS
  <2>6. /\ checkSteal \in [Worker -> BOOLEAN] /\ prepared \in [Worker -> BOOLEAN]
        /\ stealMode \in [Worker -> BOOLEAN] /\ guard \in [Worker -> BOOLEAN]
        /\ numStolen \in [Worker -> Nat] /\ numReturned \in [Worker -> Nat]
    OBVIOUS
  <2>7. pc \in [Worker -> {"first"}]
    OBVIOUS
  <2>8. /\ program \in Programs /\ marked = {} /\ entering = FALSE /\ complete = FALSE /\ crashed = FALSE
        /\ remaining = 0 /\ total = 0 /\ arrived = 0 /\ level = 0 /\ handled = 0
    OBVIOUS
  <2> HIDE DEF Init
  <2>9. entering \in BOOLEAN /\ complete \in BOOLEAN /\ crashed \in BOOLEAN
    BY <2>8, Zenon
  <2>10. pc \in [Worker -> {"first", "return", "steal", "prepare", "mark", "count", "run", "msgs",
                            "replay", "mode", "drain", "io", "flush", "giveback", "switch",
                            "barrier2", "stop"}]
    BY <2>7
  <2>11. /\ program \in Programs /\ marked \subseteq Vertex
         /\ remaining \in Int /\ total \in Nat /\ arrived \in Nat /\ level \in Nat /\ handled \in Nat
    BY <2>8
  <2> QED BY <2>1, <2>2, <2>3, <2>4, <2>5, <2>6, <2>9, <2>10, <2>11, Zenon DEF Types
<1>2. \A w \in Worker : Held(w) = {} /\ Running(w) = {} /\ Kept(w) = {} /\ pc[w] = "first"
  BY DEF Held, Running, Kept
<1>3. Phases
  BY <1>2 DEF Phases, Starting
<1>4. Mail
  BY DEF Mail
<1>5. Places
  BY <1>0, <1>2, Workers DEF Places
<1>6. AtBarrier = {} /\ Gathered = {} /\ Worker # {} /\ 0 \in Worker
  <2>1. 0 \in Worker
    BY ThreadsAssumption DEF Worker
  <2> QED BY <2>1 DEF AtBarrier, Gathered
<1>7. \A o \in Worker : Stolen(o) = {}
  BY <1>2 DEF Stolen
<1>8. Counters
  <2>1. Arrivals
    BY <1>6, FS_EmptySet DEF Arrivals
  <2>2. Waiting
    BY <1>2, <1>6 DEF Waiting
  <2>3. Lent
    <3>1. \A o \in Worker : Cardinality(Stolen(o)) = 0
      BY <1>7, FS_EmptySet
    <3> QED BY <3>1 DEF Lent
  <2> QED BY <2>1, <2>2, <2>3 DEF Counters, ToRead
<1>9. Theft
  <2>1. Marks /\ StolenAreAway
    BY <1>2 DEF Marks, StolenAreAway
  <2>2. Guards
    BY <1>2 DEF Guards
  <2>3. Keeps
    BY <1>2 DEF Keeps
  <2> QED BY <2>1, <2>2, <2>3 DEF Theft, SerialExecution
<1> QED BY <1>1, <1>3, <1>4, <1>5, <1>8, <1>9 DEF IInv

\* The inductive invariant holds of every behaviour of the workers.
THEOREM EngineInvariant == Spec => []IInv
<1>1. ASSUME IInv, [Next]_vars PROVE IInv'
  <2>1. Types'
    BY <1>1, TypesStep DEF IInv
  <2>2. Phases' /\ Mail' /\ Places'
    BY <1>1, <2>1, PhasesStep, MailStep, PlacesStep
  <2>3. Counters'
    BY <1>1, <2>1, ArrivalsStep, ToReadStep, LentStep DEF Counters
  <2>4. Theft'
    BY <1>1, <2>1, MarksStep, AwayStep, GuardsStep, KeepsStep, SerialStep DEF Theft
  <2> QED BY <2>1, <2>2, <2>3, <2>4 DEF IInv
<1> QED BY <1>1, InitInv, PTL DEF Spec

\* The vertices to be processed are finitely many.
LEMMA UnreadCard == ASSUME IInv PROVE Unread \in SUBSET Vertex /\ IsFiniteSet(Unread) /\ Cardinality(Unread) \in Nat
<1>1. Unread \in SUBSET Vertex
  BY DEF Unread
<1> QED BY <1>1, SubsetCard

\* The workers keep their types; in particular num_remaining_vertices_in_level, which every
\* worker decrements by itself, is never negative.
THEOREM EngineTypeOK == Spec => []TypeOK
<1>1. ASSUME IInv PROVE TypeOK
  <2>1. remaining \in Nat
    BY <1>1, UnreadCard DEF IInv, Counters, ToRead
  <2>2. tries \in [Worker -> 0 .. NumThreads]
    BY <1>1, ThreadsAssumption DEF IInv, Types, Places
  <2> QED BY <1>1, <2>1, <2>2 DEF IInv, Types, TypeOK
<1> QED BY <1>1, EngineInvariant, PTL

\* With use_serial_run no vertex is run by a thief while its owner runs a message handler of
\* it, whatever the interleaving of steal_vertices and guard_msg_processing (steal_state.h).
THEOREM EngineSerialExecution == Spec => []SerialExecution
<1>1. IInv => SerialExecution
  BY DEF IInv, Theft
<1> QED BY <1>1, EngineInvariant, PTL

\* The stolen bitmap has no vertex that is not with a thief: no message waits for ever for a
\* bit that nobody will clear (steal_state_t::return_vertices).
THEOREM EngineStolenAreAway == Spec => []StolenAreAway
<1>1. IInv => StolenAreAway
  BY DEF IInv, Theft
<1> QED BY <1>1, EngineInvariant, PTL

\* Between the barriers of progress_next_level no sender holds a message, and a worker that
\* has processed its messages gets no others.
THEOREM EngineSendersFlushed == Spec => []SendersFlushed
<1>1. IInv => SendersFlushed
  BY DEF IInv, Mail, SendersFlushed
<1> QED BY <1>1, EngineInvariant, PTL

\* No vertex is left to count when a worker switches the level.
LEMMA NothingLeft == ASSUME IInv, NEW w \in Worker, pc[w] = "switch" PROVE remaining = 0
<1>1. entering /\ AtBarrier # Worker
  BY DEF IInv, Phases, AtBarrier
<1>2. CASE Waiting
  BY <1>2 DEF IInv, Counters, ToRead
<1>3. CASE ~Waiting
  <2>1. \A x \in Worker : pc[x] # "barrier2"
    BY <1>1, <1>3 DEF Waiting
  <2>2. \A x \in Worker : curr[x] = {} /\ batch[x] = {}
    BY <1>1, <2>1 DEF IInv, Places, Held
  <2>3. Unread = {}
    BY <2>2 DEF Unread
  <2> QED BY <1>3, <2>3, FS_EmptySet DEF IInv, Counters, ToRead
<1> QED BY <1>2, <1>3

\* The assertions of process_vertices, enter_next_level and return_vertices hold.
THEOREM EngineAssertionsHold == Spec => []AssertionsHold
<1>1. ASSUME IInv PROVE AssertionsHold
  <2> SUFFICES ASSUME NEW w \in Worker
               PROVE /\ pc[w] = "count" => remaining >= Cardinality(batch[w])
                     /\ pc[w] = "switch" => /\ msgq[w] = {} /\ stolenMsgs[w] = {} /\ curr[w] = {}
                                            /\ numStolen[w] = numReturned[w]
                                            /\ remaining = 0
                     /\ \A v \in returning[w] : Owner[v] # w
    BY DEF AssertionsHold
  <2>1. ASSUME pc[w] = "count" PROVE remaining >= Cardinality(batch[w])
    <3>1. ~Waiting
      BY <1>1, <2>1 DEF IInv, Phases, Waiting
    <3>2. remaining = Cardinality(Unread)
      BY <1>1, <3>1 DEF IInv, Counters, ToRead
    <3>3. batch[w] \in SUBSET Unread
      BY <1>1, <2>1 DEF IInv, Types, Unread
    <3>4. Cardinality(batch[w]) <= Cardinality(Unread) /\ Cardinality(batch[w]) \in Nat
      <4>1. batch[w] \in SUBSET Vertex
        BY <1>1 DEF IInv, Types
      <4> QED BY <1>1, <3>3, <4>1, UnreadCard, SubsetCard, FS_Subset
    <3> QED BY <1>1, <3>2, <3>4, UnreadCard
  <2>2. ASSUME pc[w] = "switch"
        PROVE msgq[w] = {} /\ stolenMsgs[w] = {} /\ curr[w] = {} /\ numStolen[w] = numReturned[w] /\ remaining = 0
    <3>1. entering
      BY <1>1, <2>2 DEF IInv, Phases
    <3>2. \A x \in Worker : batch[x] = {} /\ pend[x] = {} /\ done[x] = {}
      BY <1>1, <3>1 DEF IInv, Places, Held
    <3>3. Stolen(w) = {}
      BY <3>2 DEF Stolen, Running
    <3>4. numStolen[w] = numReturned[w]
      <4>1. numStolen[w] = numReturned[w] + (IF serialRun THEN Cardinality(Stolen(w)) ELSE 0)
        BY <1>1 DEF IInv, Counters, Lent
      <4>2. numStolen[w] \in Nat /\ numReturned[w] \in Nat
        BY <1>1 DEF IInv, Types
      <4> QED BY <3>3, <4>1, <4>2, FS_EmptySet
    <3>5. msgq[w] = {} /\ stolenMsgs[w] = {} /\ curr[w] = {}
      BY <1>1, <2>2, <3>1 DEF IInv, Mail, Theft, Keeps, Places
    <3> QED BY <1>1, <2>2, <3>4, <3>5, NothingLeft
  <2>3. \A v \in returning[w] : Owner[v] # w
    BY <1>1 DEF IInv, Places
  <2> QED BY <2>1, <2>2, <2>3
<1> QED BY <1>1, EngineInvariant, PTL

-------------------------------------------------------------------------------
(* Engine implements VertexLevels.  The mapping needs two more facts than the  *)
(* inductive invariant:                                                        *)
(*   Unique    a message with a body is in one place, so that its handler      *)
(*             takes it out of the mail for good;                              *)
(*   Sources   the vertex that has sent a message is not processed again in    *)
(*             the level, so that what it sends is not in the mail yet.        *)
(* Then every step of a worker is a step of VertexLevels (Take, Finish,        *)
(* Activate, Deliver, Advance) or leaves its state as it is.                   *)

\* The places a message can be in at a worker, and all messages at a worker.
Place == {"buf", "msgq", "stolenMsgs", "fetched", "handling"}
Box(w, i) == IF i = "buf" THEN buf[w]
             ELSE IF i = "msgq" THEN msgq[w]
             ELSE IF i = "stolenMsgs" THEN stolenMsgs[w]
             ELSE IF i = "fetched" THEN fetched[w]
             ELSE {handling[w]} \ {None}
At(w) == buf[w] \cup msgq[w] \cup stolenMsgs[w] \cup fetched[w] \cup ({handling[w]} \ {None})

\* A message with a body is in one place.
Unique ==
    \A w, x \in Worker, i, j \in Place : <<w, i>> # <<x, j>> =>
        \A m \in Box(w, i) \cap Box(x, j) : ~m.body

\* The vertex has been processed in this level and is not processed again in it.
Spent(v) ==
    /\ v \in Vertex
    /\ ~Switched(Owner[v]) => v \notin curr[Owner[v]]
    /\ \A x \in Worker : v \notin batch[x] \cup pend[x]

\* A message that has not been handled is from such a vertex.
Sources == \A w \in Worker : \A m \in At(w) : m.body => Spent(m.src)

\* The invariant the refinement rests on.
RInv == IInv /\ Unique /\ Sources

-------------------------------------------------------------------------------
\* The messages under way are those at some worker, before a step and after it.
LEMMA InFlightAt == /\ \A m : m \in InFlight <=> \E w \in Worker : m \in At(w)
                    /\ \A m : m \in InFlight' <=> \E w \in Worker : m \in At(w)'
BY DEF InFlight, At

\* A message at a worker is in one of its places.
LEMMA AtBox == /\ \A w \in Worker : \A m : m \in At(w) <=> \E i \in Place : m \in Box(w, i)
               /\ \A w \in Worker : \A m : m \in At(w)' <=> \E i \in Place : m \in Box(w, i)'
BY DEF At, Box, Place

\* Messages with a body stay in one place when none but those of X moves, and they move to one.
LEMMA UniqueFrame ==
    ASSUME Unique, NEW X,
           \A w \in Worker, i \in Place : \A m \in Box(w, i)' : m.body /\ m \notin X => m \in Box(w, i),
           \A w, x \in Worker, i, j \in Place : \A m \in X :
               m.body /\ m \in Box(w, i)' /\ m \in Box(x, j)' => <<w, i>> = <<x, j>>
    PROVE Unique'
BY DEF Unique

\* The messages of M are sent by vertex v: those of q go to the queues, before them the
\* messages of out, which a sender had in its buffer.
SendForm(w, v, M, out, q) ==
    /\ M \subseteq Msg /\ out \subseteq buf[w] /\ q \subseteq M
    /\ buf' = [buf EXCEPT ![w] = (@ \ out) \cup (M \ q)]
    /\ msgq' = [p \in Worker |-> msgq[p] \cup To(p, out \cup q)]
    /\ \A m \in M : m.body => m.src = v

\* The forms of sending: through a sender's buffer, ...
LEMMA CachedForm == ASSUME Types, NEW w \in Worker, NEW v, NEW M \in SUBSET Msg, SendCached(w, M),
                           \A m \in M : m.body => m.src = v
                    PROVE \E out : SendForm(w, v, M, out, {})
<1>1. PICK full \in BOOLEAN :
        LET out == {m \in buf[w] : full /\ \E n \in M : n.body = m.body /\ Owner[n.dest] = Owner[m.dest]}
        IN  /\ buf' = [buf EXCEPT ![w] = (@ \ out) \cup M]
            /\ msgq' = [p \in Worker |-> msgq[p] \cup To(p, out)]
  BY DEF SendCached
<1> DEFINE out == {m \in buf[w] : full /\ \E n \in M : n.body = m.body /\ Owner[n.dest] = Owner[m.dest]}
<1>2. out \subseteq buf[w]
  OBVIOUS
<1>3. buf' = [buf EXCEPT ![w] = (@ \ out) \cup M] /\ msgq' = [p \in Worker |-> msgq[p] \cup To(p, out)]
  BY <1>1
<1> HIDE DEF out
<1>4. SendForm(w, v, M, out, {})
  BY <1>2, <1>3 DEF SendForm
<1> QED BY <1>4

\* ... an activation, which has no body, ...
LEMMA ActivationForm == ASSUME Types, NEW w \in Worker, NEW A \in SUBSET Vertex, NEW v, ActivateIds(w, A)
                        PROVE \E M, out : SendForm(w, v, M, out, {}) /\ \A m \in M : ~m.body
<1>1. \A d \in A : [src |-> None, dest |-> d, act |-> TRUE, body |-> FALSE] \in Msg
  BY DEF Msg
<1>2. Activations(A) \in SUBSET Msg /\ \A m \in Activations(A) : ~m.body
  BY <1>1 DEF Activations
<1> QED BY <1>2, CachedForm DEF ActivateIds

\* ... and everything a vertex program does.
LEMMA SendHasForm == ASSUME Types, NEW w \in Worker, NEW v \in Vertex, Send(w, v)
                     PROVE \E M, out, q : SendForm(w, v, M, out, q)
<1>0. Edges[v] \in SUBSET Vertex
  BY EdgesAssumption
<1>1. CASE UNCHANGED <<next, senders, msgq>>
  <2>1. SendForm(w, v, {}, {}, {})
    BY <1>1 DEF SendForm, senders, Types, To
  <2> QED BY <2>1
<1>2. CASE ActivateEdges(w, Edges[v])
  BY <1>0, <1>2, ActivationForm DEF ActivateEdges
<1>3. ASSUME NEW act \in BOOLEAN,
             SendCached(w, Messages(v, act)) \/ SendFlush(w, Messages(v, act))
      PROVE \E M, out, q : SendForm(w, v, M, out, q)
  <2>1. \A d \in Edges[v] : [src |-> v, dest |-> d, act |-> act, body |-> TRUE] \in Msg
    BY <1>0 DEF Msg
  <2>2. Messages(v, act) \in SUBSET Msg /\ \A m \in Messages(v, act) : m.src = v
    BY <2>1 DEF Messages
  <2>3. CASE SendCached(w, Messages(v, act))
    BY <2>2, <2>3, CachedForm
  <2>4. CASE SendFlush(w, Messages(v, act))
    <3> DEFINE M == Messages(v, act)
               out == {m \in buf[w] : Owner[m.dest] \in {Owner[n.dest] : n \in M}}
    <3>1. /\ buf' = [buf EXCEPT ![w] = @ \ out]
          /\ msgq' = [p \in Worker |-> msgq[p] \cup To(p, out \cup M)]
      BY <2>4 DEF SendFlush
    <3>2. out \subseteq buf[w]
      OBVIOUS
    <3> HIDE DEF M, out
    <3>3. buf' = [buf EXCEPT ![w] = (@ \ out) \cup (M \ M)]
      BY <3>1
    <3>4. SendForm(w, v, M, out, M)
      BY <2>2, <3>1, <3>2, <3>3 DEF SendForm, M
    <3> QED BY <3>4
  <2> QED BY <1>3, <2>3, <2>4
<1> QED BY <1>1, <1>2, <1>3 DEF Send

\* What a vertex in work sends is new: no message of the same source is under way (Sources).
LEMMA SendUnique ==
    ASSUME RInv, NEW w \in Worker, NEW v, NEW M, NEW out, NEW q, SendForm(w, v, M, out, q),
           \A m \in M : m.body => \E x \in Worker : v \in batch[x] \cup pend[x],
           UNCHANGED <<stolenMsgs, fetched, handling>>
    PROVE Unique'
<1>1. \A m \in M, x \in Worker, i \in Place : m.body => m \notin Box(x, i)
  BY AtBox DEF RInv, Sources, Spent, SendForm
<1>2. /\ Box(w, "buf")' = (buf[w] \ out) \cup (M \ q)
      /\ \A x \in Worker \ {w} : Box(x, "buf")' = Box(x, "buf")
      /\ \A x \in Worker : Box(x, "msgq")' = msgq[x] \cup To(x, out \cup q)
      /\ \A x \in Worker : \A i \in {"stolenMsgs", "fetched", "handling"} : Box(x, i)' = Box(x, i)
  BY DEF Box, SendForm, RInv, IInv, Types
<1>3. Box(w, "buf") = buf[w] /\ \A x \in Worker : Box(x, "msgq") = msgq[x]
  BY DEF Box
<1>4. out \subseteq buf[w] /\ q \subseteq M
  BY DEF SendForm
<1>5. \A m \in out, x \in Worker, i \in Place : m.body /\ m \in Box(x, i) => x = w /\ i = "buf"
  BY <1>3, <1>4 DEF RInv, Unique, Place
<1> DEFINE X == out \cup M
<1>6. \A x \in Worker, i \in Place : \A m \in Box(x, i)' : m.body /\ m \notin X => m \in Box(x, i)
  BY <1>2, <1>3, <1>4 DEF Place, To
<1>7. ASSUME NEW m \in X, m.body, NEW x \in Worker, NEW i \in Place, m \in Box(x, i)'
      PROVE \/ m \in out \cup q /\ m \notin M \ q /\ i = "msgq" /\ x = Owner[m.dest]
            \/ m \in M \ q /\ m \notin out /\ i = "buf" /\ x = w
  <2>1. CASE m \in out
    <3>1. m \notin M
      BY <1>1, <1>3, <1>4, <1>7, <2>1 DEF Place
    <3>2. m \notin msgq[x]
      BY <1>3, <1>5, <1>7, <2>1 DEF Place
    <3>3. i = "msgq"
      BY <1>2, <1>5, <1>7, <2>1, <3>1 DEF Place
    <3> QED BY <1>2, <1>7, <2>1, <3>1, <3>2, <3>3 DEF To
  <2>2. CASE m \in M /\ m \notin out
    <3>1. m \notin Box(x, i) /\ m \notin msgq[x] /\ m \notin buf[w]
      BY <1>1, <1>3, <1>7, <2>2 DEF Place
    <3>2. i = "msgq" \/ (i = "buf" /\ x = w)
      BY <1>2, <1>7, <3>1 DEF Place
    <3> QED BY <1>2, <1>7, <2>2, <3>1, <3>2 DEF To
  <2> QED BY <1>7, <2>1, <2>2
<1> HIDE DEF X
<1>8. \A x, y \in Worker, i, j \in Place : \A m \in X :
         m.body /\ m \in Box(x, i)' /\ m \in Box(y, j)' => <<x, i>> = <<y, j>>
  BY <1>7
<1> QED BY <1>6, <1>8, UniqueFrame DEF RInv

\* Steps that touch no message.
LEMMA UniqueSame == ASSUME Unique, UNCHANGED <<buf, msgq, stolenMsgs, fetched, handling>>
                    PROVE Unique'
BY DEF Unique, Box

\* Every step keeps a message with a body in one place.
LEMMA UniqueStep == ASSUME RInv, Types', [Next]_vars PROVE Unique'
<1> USE DEF config, queues, balancer, senders, inbox, stealState, levels, RInv, IInv, Types
<1>1. ASSUME NEW w \in Worker, ReturnVertices(w) PROVE Unique'
  BY <1>1, UniqueSame DEF ReturnVertices
<1>2. ASSUME NEW w \in Worker, ClearStolen(w) PROVE Unique'
  BY <1>2, UniqueSame DEF ClearStolen
<1>3. ASSUME NEW w \in Worker, FetchOwn(w) PROVE Unique'
  BY <1>3, UniqueSame DEF FetchOwn
<1>4. ASSUME NEW w \in Worker, FetchNone(w) PROVE Unique'
  BY <1>4, UniqueSame DEF FetchNone
<1>5. ASSUME NEW w \in Worker, StartSteal(w) PROVE Unique'
  BY <1>5, UniqueSame DEF StartSteal
<1>6. ASSUME NEW w \in Worker, Steal(w) PROVE Unique'
  BY <1>6, UniqueSame DEF Steal
<1>7. ASSUME NEW w \in Worker, PrepareSteal(w) PROVE Unique'
  BY <1>7, UniqueSame DEF PrepareSteal
<1>8. ASSUME NEW w \in Worker, MarkStolen(w) PROVE Unique'
  BY <1>8, UniqueSame DEF MarkStolen
<1>9. ASSUME NEW w \in Worker, WaitGuard(w) PROVE Unique'
  BY <1>9, UniqueSame DEF WaitGuard
<1>10. ASSUME NEW w \in Worker, CountVertices(w) PROVE Unique'
  BY <1>10, UniqueSame DEF CountVertices
<1>11. ASSUME NEW w \in Worker, RunVertex(w) PROVE Unique'
  <2>1. PICK v \in batch[w] : \/ UNCHANGED <<senders, msgq>>
                             \/ Send(w, v)
    BY <1>11 DEF RunVertex
  <2>2. CASE UNCHANGED <<senders, msgq>>
    BY <1>11, <2>2, UniqueSame DEF RunVertex
  <2>3. CASE Send(w, v)
    <3>1. PICK M, out, q : SendForm(w, v, M, out, q)
      BY <2>1, <2>3, SendHasForm
    <3> QED BY <1>11, <2>1, <3>1, SendUnique DEF RunVertex
  <2> QED BY <2>1, <2>2, <2>3
<1>12. ASSUME NEW w \in Worker, CompleteIO(w) PROVE Unique'
  <2>1. PICK v \in pend[w] : Send(w, v)
    BY <1>12 DEF CompleteIO
  <2>2. PICK M, out, q : SendForm(w, v, M, out, q)
    BY <2>1, SendHasForm
  <2> QED BY <1>12, <2>1, <2>2, SendUnique DEF CompleteIO
<1>13. ASSUME NEW w \in Worker, TakeStolenMsgs(w) PROVE Unique'
  <2>1. fetched[w] = {}
    BY <1>13 DEF TakeStolenMsgs, Mail
  <2>2. PICK X : X = stolenMsgs[w]
    OBVIOUS
  <2>3. /\ stolenMsgs' = [stolenMsgs EXCEPT ![w] = {}] /\ fetched' = [fetched EXCEPT ![w] = X]
        /\ UNCHANGED <<buf, msgq, handling>>
    BY <1>13, <2>2 DEF TakeStolenMsgs
  <2>4. Unique /\ stolenMsgs \in [Worker -> SUBSET Msg] /\ fetched \in [Worker -> SUBSET Msg]
    OBVIOUS
  <2> HIDE DEF RInv
  <2>5. /\ Box(w, "stolenMsgs")' = {} /\ Box(w, "fetched")' = X
        /\ \A x \in Worker, i \in Place : ~(x = w /\ i \in {"fetched", "stolenMsgs"}) => Box(x, i)' = Box(x, i)
    BY <2>3, <2>4 DEF Box, Place
  <2>6. Box(w, "stolenMsgs") = X
    BY <2>2 DEF Box
  <2>7. \A x \in Worker, i \in Place : \A m \in X : m.body /\ m \in Box(x, i) => x = w /\ i = "stolenMsgs"
    BY <2>4, <2>6 DEF Unique, Place
  <2>8. \A x \in Worker, i \in Place : \A m \in X : m.body /\ m \in Box(x, i)' => x = w /\ i = "fetched"
    BY <2>5, <2>7 DEF Place
  <2>9. \A x, y \in Worker, i, j \in Place : \A m \in X :
          m.body /\ m \in Box(x, i)' /\ m \in Box(y, j)' => <<x, i>> = <<y, j>>
    BY <2>8
  <2>10. \A x \in Worker, i \in Place : \A m \in Box(x, i)' : m.body /\ m \notin X => m \in Box(x, i)
    BY <2>5 DEF Place
  <2> QED BY <2>4, <2>9, <2>10, UniqueFrame
<1>14. ASSUME NEW w \in Worker, GuardMsgs(w) PROVE Unique'
  BY <1>14, UniqueSame DEF GuardMsgs
<1>15. ASSUME NEW w \in Worker, EnterStealMode(w) PROVE Unique'
  BY <1>15, UniqueSame DEF EnterStealMode
<1>16. ASSUME NEW w \in Worker, FetchMsgs(w) PROVE Unique'
  <2>1. fetched[w] = {}
    BY <1>16 DEF FetchMsgs, Idle
  <2>2. PICK X : X = msgq[w]
    OBVIOUS
  <2>3. /\ msgq' = [msgq EXCEPT ![w] = {}] /\ fetched' = [fetched EXCEPT ![w] = X]
        /\ UNCHANGED <<buf, stolenMsgs, handling>>
    BY <1>16, <2>2 DEF FetchMsgs
  <2>4. Unique /\ msgq \in [Worker -> SUBSET Msg] /\ fetched \in [Worker -> SUBSET Msg]
    OBVIOUS
  <2> HIDE DEF RInv
  <2>5. /\ Box(w, "msgq")' = {} /\ Box(w, "fetched")' = X
        /\ \A x \in Worker, i \in Place : ~(x = w /\ i \in {"fetched", "msgq"}) => Box(x, i)' = Box(x, i)
    BY <2>3, <2>4 DEF Box, Place
  <2>6. Box(w, "msgq") = X
    BY <2>2 DEF Box
  <2>7. \A x \in Worker, i \in Place : \A m \in X : m.body /\ m \in Box(x, i) => x = w /\ i = "msgq"
    BY <2>4, <2>6 DEF Unique, Place
  <2>8. \A x \in Worker, i \in Place : \A m \in X : m.body /\ m \in Box(x, i)' => x = w /\ i = "fetched"
    BY <2>5, <2>7 DEF Place
  <2>9. \A x, y \in Worker, i, j \in Place : \A m \in X :
          m.body /\ m \in Box(x, i)' /\ m \in Box(y, j)' => <<x, i>> = <<y, j>>
    BY <2>8
  <2>10. \A x \in Worker, i \in Place : \A m \in Box(x, i)' : m.body /\ m \notin X => m \in Box(x, i)
    BY <2>5 DEF Place
  <2> QED BY <2>4, <2>9, <2>10, UniqueFrame
<1>17. ASSUME NEW w \in Worker, ProcessMsg(w) PROVE Unique'
  <2>1. PICK m \in fetched[w] :
          /\ fetched' = [fetched EXCEPT ![w] = @ \ {m}]
          /\ \/ UNCHANGED <<stolenMsgs, handling>>
             \/ stolenMsgs' = [stolenMsgs EXCEPT ![w] = @ \cup {m}] /\ UNCHANGED handling
             \/ handling' = [handling EXCEPT ![w] = m] /\ UNCHANGED stolenMsgs
          /\ handling[w] = None
          /\ UNCHANGED <<buf, msgq>>
    BY <1>17 DEF ProcessMsg
  <2>2. m \in Msg /\ m # None /\ m \in Box(w, "fetched")
    BY MsgFields DEF Box
  <2>3. /\ \A i \in Place : Box(w, i)' \subseteq Box(w, i) \cup {m}
        /\ m \notin Box(w, "fetched")'
        /\ \A i \in {"buf", "msgq"} : Box(w, i)' = Box(w, i)
        /\ m \notin Box(w, "stolenMsgs")' \ Box(w, "stolenMsgs") \/ m \notin Box(w, "handling")' \ Box(w, "handling")
        /\ \A x \in Worker \ {w}, i \in Place : Box(x, i)' = Box(x, i)
    BY <2>1, <2>2 DEF Box, Place
  <2>4. Unique
    OBVIOUS
  <2> HIDE DEF RInv
  <2>5. m.body => \A x \in Worker, i \in Place : m \in Box(x, i) => x = w /\ i = "fetched"
    BY <2>2, <2>4 DEF Unique, Place
  <2>6. PICK X : X = {m}
    OBVIOUS
  <2>7. \A x, y \in Worker, i, j \in Place : m.body /\ m \in Box(x, i)' /\ m \in Box(y, j)' => <<x, i>> = <<y, j>>
    BY <2>3, <2>5, SMTT(30) DEF Place
  <2>8. \A x, y \in Worker, i, j \in Place : \A n \in X :
          n.body /\ n \in Box(x, i)' /\ n \in Box(y, j)' => <<x, i>> = <<y, j>>
    BY <2>6, <2>7
  <2>9. \A x \in Worker, i \in Place : \A n \in Box(x, i)' : n.body /\ n \notin X => n \in Box(x, i)
    BY <2>3, <2>6
  <2> QED BY <2>4, <2>8, <2>9, UniqueFrame
<1>18. ASSUME NEW w \in Worker, EndHandler(w) PROVE Unique'
  <2>1. \A x \in Worker, i \in Place : Box(x, i)' \subseteq Box(x, i)
    BY <1>18 DEF EndHandler, Box, Place
  <2>2. Unique
    OBVIOUS
  <2> HIDE DEF RInv
  <2> QED BY <2>1, <2>2 DEF Unique
<1>19. ASSUME NEW w \in Worker, UnguardMsgs(w) PROVE Unique'
  BY <1>19, UniqueSame DEF UnguardMsgs
<1>20. ASSUME NEW w \in Worker, LoopAgain(w) PROVE Unique'
  BY <1>20, UniqueSame DEF LoopAgain
<1>21. ASSUME NEW w \in Worker, EndIteration(w) PROVE Unique'
  <2>1. PICK A \in SUBSET Vertex : ActivateIds(w, A)
    BY <1>21, EdgesAssumption DEF EndIteration
  <2>2. PICK M, out : SendForm(w, 0, M, out, {}) /\ \A m \in M : ~m.body
    BY <2>1, ActivationForm
  <2> QED BY <1>21, <2>2, SendUnique DEF EndIteration
<1>22. ASSUME NEW w \in Worker, FlushMsgs(w) PROVE Unique'
  <2>1. PICK out : out = buf[w]
    OBVIOUS
  <2>2. /\ buf' = [buf EXCEPT ![w] = {}]
        /\ msgq' = [p \in Worker |-> msgq[p] \cup To(p, out)]
    BY <1>22, <2>1 DEF FlushMsgs
  <2> HIDE DEF RInv
  <2>3. (buf[w] \ out) \cup ({} \ {}) = {} /\ out \cup {} = out
    BY <2>1
  <2>4. buf' = [buf EXCEPT ![w] = (@ \ out) \cup ({} \ {})]
    BY <2>2, <2>3
  <2>5. SendForm(w, 0, {}, out, {})
    <3>1. msgq' = [p \in Worker |-> msgq[p] \cup To(p, out \cup {})]
      BY <2>2, <2>3, Zenon
    <3>2. {} \subseteq Msg /\ out \subseteq buf[w] /\ {} \subseteq {}
      BY <2>1
    <3> QED BY ONLY <2>4, <3>1, <3>2, Zenon DEF SendForm
  <2> QED BY <1>22, <2>5, SendUnique DEF FlushMsgs
<1>23. ASSUME NEW w \in Worker, FirstLevel(w) PROVE Unique'
  BY <1>23, UniqueSame DEF FirstLevel
<1>24. ASSUME NEW w \in Worker, EnterNextLevel(w) PROVE Unique'
  BY <1>24, UniqueSame DEF EnterNextLevel
<1>25. CASE Barrier1
  BY <1>25, UniqueSame DEF Barrier1
<1>26. CASE Barrier2
  BY <1>26, UniqueSame DEF Barrier2
<1>27. CASE UNCHANGED vars
  BY <1>27, UniqueSame DEF vars
<1> HIDE DEF RInv, IInv, Types
<1> QED BY <1>1, <1>2, <1>3, <1>4, <1>5, <1>6, <1>7, <1>8, <1>9, <1>10, <1>11, <1>12, <1>13, <1>14, <1>15, <1>16, <1>17, <1>18, <1>19, <1>20, <1>21, <1>22, <1>23, <1>24, <1>25, <1>26, <1>27 DEF Next, WorkerStep, Stopped

\* Which workers have switched their queues changes only with one that does so.
LEMMA SwitchedSame == ASSUME IInv, [Next]_vars, \A w \in Worker : ~EnterNextLevel(w)
                      PROVE (\A x \in Worker : Switched(x)' <=> Switched(x))
<1> USE DEF config, queues, balancer, senders, inbox, stealState, levels, IInv, Types, Switched, Phases, Goto
<1>1. ASSUME NEW w \in Worker, ReturnVertices(w) PROVE (\A x \in Worker : Switched(x)' <=> Switched(x))
  BY <1>1 DEF ReturnVertices
<1>2. ASSUME NEW w \in Worker, ClearStolen(w) PROVE (\A x \in Worker : Switched(x)' <=> Switched(x))
  BY <1>2 DEF ClearStolen
<1>3. ASSUME NEW w \in Worker, FetchOwn(w) PROVE (\A x \in Worker : Switched(x)' <=> Switched(x))
  BY <1>3 DEF FetchOwn
<1>4. ASSUME NEW w \in Worker, FetchNone(w) PROVE (\A x \in Worker : Switched(x)' <=> Switched(x))
  BY <1>4 DEF FetchNone
<1>5. ASSUME NEW w \in Worker, StartSteal(w) PROVE (\A x \in Worker : Switched(x)' <=> Switched(x))
  BY <1>5 DEF StartSteal
<1>6. ASSUME NEW w \in Worker, Steal(w) PROVE (\A x \in Worker : Switched(x)' <=> Switched(x))
  BY <1>6 DEF Steal
<1>7. ASSUME NEW w \in Worker, PrepareSteal(w) PROVE (\A x \in Worker : Switched(x)' <=> Switched(x))
  BY <1>7 DEF PrepareSteal
<1>8. ASSUME NEW w \in Worker, MarkStolen(w) PROVE (\A x \in Worker : Switched(x)' <=> Switched(x))
  BY <1>8 DEF MarkStolen
<1>9. ASSUME NEW w \in Worker, WaitGuard(w) PROVE (\A x \in Worker : Switched(x)' <=> Switched(x))
  BY <1>9 DEF WaitGuard
<1>10. ASSUME NEW w \in Worker, CountVertices(w) PROVE (\A x \in Worker : Switched(x)' <=> Switched(x))
  BY <1>10 DEF CountVertices
<1>11. ASSUME NEW w \in Worker, RunVertex(w) PROVE (\A x \in Worker : Switched(x)' <=> Switched(x))
  BY <1>11 DEF RunVertex
<1>12. ASSUME NEW w \in Worker, CompleteIO(w) PROVE (\A x \in Worker : Switched(x)' <=> Switched(x))
  BY <1>12 DEF CompleteIO
<1>13. ASSUME NEW w \in Worker, TakeStolenMsgs(w) PROVE (\A x \in Worker : Switched(x)' <=> Switched(x))
  BY <1>13 DEF TakeStolenMsgs
<1>14. ASSUME NEW w \in Worker, GuardMsgs(w) PROVE (\A x \in Worker : Switched(x)' <=> Switched(x))
  BY <1>14 DEF GuardMsgs
<1>15. ASSUME NEW w \in Worker, EnterStealMode(w) PROVE (\A x \in Worker : Switched(x)' <=> Switched(x))
  BY <1>15 DEF EnterStealMode
<1>16. ASSUME NEW w \in Worker, FetchMsgs(w) PROVE (\A x \in Worker : Switched(x)' <=> Switched(x))
  BY <1>16 DEF FetchMsgs
<1>17. ASSUME NEW w \in Worker, ProcessMsg(w) PROVE (\A x \in Worker : Switched(x)' <=> Switched(x))
  BY <1>17 DEF ProcessMsg
<1>18. ASSUME NEW w \in Worker, EndHandler(w) PROVE (\A x \in Worker : Switched(x)' <=> Switched(x))
  BY <1>18 DEF EndHandler
<1>19. ASSUME NEW w \in Worker, UnguardMsgs(w) PROVE (\A x \in Worker : Switched(x)' <=> Switched(x))
  BY <1>19 DEF UnguardMsgs
<1>20. ASSUME NEW w \in Worker, LoopAgain(w) PROVE (\A x \in Worker : Switched(x)' <=> Switched(x))
  BY <1>20 DEF LoopAgain
<1>21. ASSUME NEW w \in Worker, EndIteration(w) PROVE (\A x \in Worker : Switched(x)' <=> Switched(x))
  BY <1>21 DEF EndIteration
<1>22. ASSUME NEW w \in Worker, FlushMsgs(w) PROVE (\A x \in Worker : Switched(x)' <=> Switched(x))
  BY <1>22 DEF FlushMsgs
<1>23. ASSUME NEW w \in Worker, FirstLevel(w) PROVE (\A x \in Worker : Switched(x)' <=> Switched(x))
  BY <1>23 DEF FirstLevel, FirstLevel, Phases
<1>24. ASSUME NEW w \in Worker, EnterNextLevel(w) PROVE (\A x \in Worker : Switched(x)' <=> Switched(x))
  BY <1>24 DEF EnterNextLevel
<1>25. CASE Barrier1
  BY <1>25 DEF Barrier1, All, Phases
<1>26. CASE Barrier2
  BY <1>26 DEF Barrier2, Counters, Arrivals, AtBarrier, All
<1>27. CASE UNCHANGED vars
  BY <1>27 DEF vars
<1> HIDE DEF IInv, Types, Switched, Phases
<1> QED BY <1>1, <1>2, <1>3, <1>4, <1>5, <1>6, <1>7, <1>8, <1>9, <1>10, <1>11, <1>12, <1>13, <1>14, <1>15, <1>16, <1>17, <1>18, <1>19, <1>20, <1>21, <1>22, <1>23, <1>24, <1>25, <1>26, <1>27 DEF Next, WorkerStep, Stopped

\* Every message is from a processed vertex when what is sent is, and processed vertices stay so.
LEMMA SourcesFrame ==
    ASSUME Sources, \A v : Spent(v) => Spent(v)',
           \A w \in Worker : \A m \in At(w)' : m.body => Spent(m.src)' \/ \E x \in Worker : m \in At(x)
    PROVE Sources'
BY DEF Sources

\* A processed vertex stays processed while the queues only lose vertices and only active ones are taken.
LEMMA SpentFrame ==
    ASSUME Types, \A x \in Worker : Switched(x) => Switched(x)',
           \A x \in Worker : Switched(x)' \/ curr'[x] \subseteq curr[x],
           \A v \in Vertex, x \in Worker : v \in batch'[x] \cup pend'[x] =>
               \/ v \in curr[Owner[v]] /\ ~Switched(Owner[v])
               \/ \E y \in Worker : v \in batch[y] \cup pend[y]
    PROVE \A v : Spent(v) => Spent(v)'
<1>1. ASSUME NEW v, Spent(v) PROVE Spent(v)'
  <2>1. v \in Vertex /\ Owner[v] \in Worker
    BY <1>1, OwnerAssumption DEF Spent
  <2> QED BY <1>1, <2>1 DEF Spent
<1> QED BY <1>1

\* Steps that move no vertex and send nothing.
LEMMA SourcesSame ==
    ASSUME RInv, [Next]_vars, \A w \in Worker : ~EnterNextLevel(w), UNCHANGED <<curr, batch, pend>>,
           \A w \in Worker : At(w)' \subseteq At(w)
    PROVE Sources'
<1>1. \A x \in Worker : Switched(x) <=> Switched(x)'
  BY SwitchedSame DEF RInv
<1>2. \A v : Spent(v) => Spent(v)'
  BY <1>1, SpentFrame DEF RInv, IInv
<1> QED BY <1>2, SourcesFrame DEF RInv

\* What is sent comes from the vertex that was running.
LEMMA SendSources ==
    ASSUME RInv, NEW w \in Worker, NEW v, NEW M, NEW out, NEW q, SendForm(w, v, M, out, q),
           \A m \in M : m.body => Spent(v)',
           \A x : Spent(x) => Spent(x)',
           UNCHANGED <<stolenMsgs, fetched, handling>>
    PROVE Sources'
<1>1. ASSUME NEW x \in Worker, NEW m \in At(x)', m.body
      PROVE Spent(m.src)' \/ \E y \in Worker : m \in At(y)
  <2>1. m \in M => m.src = v
    BY <1>1 DEF SendForm
  <2>2. m \in At(x) \/ m \in buf[w] \/ m \in M
    BY DEF SendForm, At, To, RInv, IInv, Types
  <2>3. m \in buf[w] => m \in At(w)
    BY DEF At
  <2> QED BY <1>1, <2>1, <2>2, <2>3
<1> QED BY <1>1, SourcesFrame DEF RInv

\* Nothing is sent by a vertex that could be processed again.
LEMMA SourcesSteps == ASSUME RInv, [Next]_vars, \A w \in Worker : ~EnterNextLevel(w)
                      PROVE Sources'
<1> USE DEF config, queues, balancer, senders, inbox, stealState, levels, RInv, IInv, Types
<1>0. \A x \in Worker : Switched(x)' <=> Switched(x)
  BY SwitchedSame
<1>1. ASSUME NEW w \in Worker, ReturnVertices(w) PROVE Sources'
  BY <1>1, SourcesSame DEF ReturnVertices, At
<1>2. ASSUME NEW w \in Worker, ClearStolen(w) PROVE Sources'
  BY <1>2, SourcesSame DEF ClearStolen, At
<1>3. ASSUME NEW w \in Worker, FetchOwn(w) PROVE Sources'
  <2>1. PICK S \in SUBSET curr[w] : batch' = [batch EXCEPT ![w] = S] /\ curr' = [curr EXCEPT ![w] = @ \ S]
    BY <1>3 DEF FetchOwn, Fetch, kSubset
  <2>2. UNCHANGED <<pend, buf, msgq, stolenMsgs, fetched, handling>> /\ ~entering
    BY <1>3 DEF FetchOwn, Phases
  <2>3. \A v \in S : Owner[v] = w /\ v \in curr[Owner[v]] /\ ~Switched(Owner[v])
    BY <2>2 DEF Places, Own, Switched
  <2>4. \A v : Spent(v) => Spent(v)'
    <3>1. \A y \in Vertex, x \in Worker : y \in batch'[x] \cup pend'[x] =>
             (y \in curr[Owner[y]] /\ ~Switched(Owner[y])) \/ \E z \in Worker : y \in batch[z] \cup pend[z]
      BY <2>1, <2>2, <2>3
    <3>2. \A x \in Worker : curr'[x] \subseteq curr[x]
      BY <2>1
    <3> QED BY <1>0, <3>1, <3>2, SpentFrame
  <2> QED BY <2>2, <2>4, SourcesFrame DEF At
<1>4. ASSUME NEW w \in Worker, FetchNone(w) PROVE Sources'
  BY <1>4, SourcesSame DEF FetchNone, At
<1>5. ASSUME NEW w \in Worker, StartSteal(w) PROVE Sources'
  BY <1>5, SourcesSame DEF StartSteal, At
<1>6. ASSUME NEW w \in Worker, Steal(w) PROVE Sources'
  <2>1. PICK t, S : /\ t \in Worker /\ S \in SUBSET curr[t]
                    /\ batch' = [batch EXCEPT ![w] = S] /\ curr' = [curr EXCEPT ![t] = @ \ S]
    BY <1>6 DEF Steal, Fetch, kSubset
  <2>2. UNCHANGED <<pend, buf, msgq, stolenMsgs, fetched, handling>> /\ ~entering
    BY <1>6 DEF Steal, Phases
  <2>3. \A v \in S : Owner[v] = t /\ v \in curr[Owner[v]] /\ ~Switched(Owner[v])
    BY <2>1, <2>2 DEF Places, Own, Switched
  <2>4. \A v : Spent(v) => Spent(v)'
    <3>1. \A y \in Vertex, x \in Worker : y \in batch'[x] \cup pend'[x] =>
             (y \in curr[Owner[y]] /\ ~Switched(Owner[y])) \/ \E z \in Worker : y \in batch[z] \cup pend[z]
      BY <2>1, <2>2, <2>3
    <3>2. \A x \in Worker : curr'[x] \subseteq curr[x]
      BY <2>1
    <3> QED BY <1>0, <3>1, <3>2, SpentFrame
  <2> QED BY <2>2, <2>4, SourcesFrame DEF At
<1>7. ASSUME NEW w \in Worker, PrepareSteal(w) PROVE Sources'
  BY <1>7, SourcesSame DEF PrepareSteal, At
<1>8. ASSUME NEW w \in Worker, MarkStolen(w) PROVE Sources'
  BY <1>8, SourcesSame DEF MarkStolen, At
<1>9. ASSUME NEW w \in Worker, WaitGuard(w) PROVE Sources'
  BY <1>9, SourcesSame DEF WaitGuard, At
<1>10. ASSUME NEW w \in Worker, CountVertices(w) PROVE Sources'
  BY <1>10, SourcesSame DEF CountVertices, At
<1>11. ASSUME NEW w \in Worker, RunVertex(w) PROVE Sources'
  <2>1. PICK v \in batch[w] :
          /\ batch' = [batch EXCEPT ![w] = @ \ {v}]
          /\ \/ pend' = [pend EXCEPT ![w] = @ \cup {v}] /\ UNCHANGED <<senders, msgq>>
             \/ Send(w, v) /\ UNCHANGED pend
    BY <1>11 DEF RunVertex
  <2>2. UNCHANGED <<curr, stolenMsgs, fetched, handling>>
    BY <1>11 DEF RunVertex
  <2>3. \A x : Spent(x) => Spent(x)'
    <3>1. \A y \in Vertex, x \in Worker : y \in batch'[x] \cup pend'[x] => \E z \in Worker : y \in batch[z] \cup pend[z]
      BY <2>1
    <3> QED BY <1>0, <2>2, <3>1, SpentFrame
  <2>4. CASE UNCHANGED <<senders, msgq>>
    BY <2>2, <2>3, <2>4, SourcesFrame DEF At
  <2>5. CASE Send(w, v) /\ UNCHANGED pend
    <3>1. v \in Vertex /\ v \notin curr[Owner[v]] /\ v \notin pend[w] /\ \A x \in Worker \ {w} : v \notin batch[x] \cup pend[x]
      BY <2>1 DEF Places, Held
    <3>2. Spent(v)'
      BY <2>1, <2>2, <2>5, <3>1 DEF Spent
    <3>3. PICK M, out, q : SendForm(w, v, M, out, q)
      BY <2>5, <3>1, SendHasForm
    <3> QED BY <2>2, <2>3, <3>2, <3>3, SendSources
  <2> QED BY <2>1, <2>4, <2>5
<1>12. ASSUME NEW w \in Worker, CompleteIO(w) PROVE Sources'
  <2>1. PICK v \in pend[w] : pend' = [pend EXCEPT ![w] = @ \ {v}] /\ Send(w, v)
    BY <1>12 DEF CompleteIO
  <2>2. UNCHANGED <<curr, batch, stolenMsgs, fetched, handling>>
    BY <1>12 DEF CompleteIO
  <2>3. \A x : Spent(x) => Spent(x)'
    <3>1. \A y \in Vertex, x \in Worker : y \in batch'[x] \cup pend'[x] => \E z \in Worker : y \in batch[z] \cup pend[z]
      BY <2>1, <2>2
    <3> QED BY <1>0, <2>2, <3>1, SpentFrame
  <2>4. v \in Vertex /\ v \notin curr[Owner[v]] /\ v \notin batch[w] /\ \A x \in Worker \ {w} : v \notin batch[x] \cup pend[x]
    BY <2>1 DEF Places, Held
  <2>5. Spent(v)'
    BY <2>1, <2>2, <2>4 DEF Spent
  <2>6. PICK M, out, q : SendForm(w, v, M, out, q)
    BY <2>1, <2>4, SendHasForm
  <2> QED BY <2>2, <2>3, <2>5, <2>6, SendSources
<1>13. ASSUME NEW w \in Worker, TakeStolenMsgs(w) PROVE Sources'
  BY <1>13, SourcesSame DEF TakeStolenMsgs, At
<1>14. ASSUME NEW w \in Worker, GuardMsgs(w) PROVE Sources'
  BY <1>14, SourcesSame DEF GuardMsgs, At
<1>15. ASSUME NEW w \in Worker, EnterStealMode(w) PROVE Sources'
  BY <1>15, SourcesSame DEF EnterStealMode, At
<1>16. ASSUME NEW w \in Worker, FetchMsgs(w) PROVE Sources'
  BY <1>16, SourcesSame DEF FetchMsgs, At
<1>17. ASSUME NEW w \in Worker, ProcessMsg(w) PROVE Sources'
  <2>1. \A x \in Worker : At(x)' \subseteq At(x)
    BY <1>17 DEF ProcessMsg, At
  <2> QED BY <1>17, <2>1, SourcesSame DEF ProcessMsg
<1>18. ASSUME NEW w \in Worker, EndHandler(w) PROVE Sources'
  BY <1>18, SourcesSame DEF EndHandler, At
<1>19. ASSUME NEW w \in Worker, UnguardMsgs(w) PROVE Sources'
  BY <1>19, SourcesSame DEF UnguardMsgs, At
<1>20. ASSUME NEW w \in Worker, LoopAgain(w) PROVE Sources'
  BY <1>20, SourcesSame DEF LoopAgain, At
<1>21. ASSUME NEW w \in Worker, EndIteration(w) PROVE Sources'
  <2>1. PICK A \in SUBSET Vertex : ActivateIds(w, A)
    BY <1>21, EdgesAssumption DEF EndIteration
  <2>2. PICK M, out : SendForm(w, 0, M, out, {}) /\ \A m \in M : ~m.body
    BY <2>1, ActivationForm
  <2>3. UNCHANGED <<curr, batch, pend, stolenMsgs, fetched, handling>>
    BY <1>21 DEF EndIteration
  <2>4. \A x : Spent(x) => Spent(x)'
    BY <1>0, <2>3, SpentFrame
  <2> QED BY <2>2, <2>3, <2>4, SendSources
<1>22. ASSUME NEW w \in Worker, FlushMsgs(w) PROVE Sources'
  <2>1. \A v : Spent(v) => Spent(v)'
    BY <1>0, <1>22, SpentFrame DEF FlushMsgs
  <2>2. ASSUME NEW x \in Worker, NEW m \in At(x)' PROVE \E y \in Worker : m \in At(y)
    <3>1. m \in At(x) \/ m \in At(w)
      BY <1>22 DEF FlushMsgs, At, To
    <3> QED BY <3>1
  <2> QED BY <2>1, <2>2, SourcesFrame
<1>23. ASSUME NEW w \in Worker, FirstLevel(w) PROVE Sources'
  BY <1>23, SourcesSame DEF FirstLevel, At
<1>24. ASSUME NEW w \in Worker, EnterNextLevel(w) PROVE Sources'
  BY <1>24
<1>25. CASE Barrier1
  BY <1>25, SourcesSame DEF Barrier1, At
<1>26. CASE Barrier2
  BY <1>26, SourcesSame DEF Barrier2, At
<1>27. CASE UNCHANGED vars
  BY <1>27, SourcesSame DEF vars, At
<1> HIDE DEF RInv, IInv, Types
<1> QED BY <1>1, <1>2, <1>3, <1>4, <1>5, <1>6, <1>7, <1>8, <1>9, <1>10, <1>11, <1>12, <1>13, <1>14, <1>15, <1>16, <1>17, <1>18, <1>19, <1>20, <1>21, <1>22, <1>23, <1>24, <1>25, <1>26, <1>27 DEF Next, WorkerStep, Stopped

\* When the last worker switches, no message is left anywhere.
LEMMA LastEmpty == ASSUME IInv, NEW w \in Worker, EnterNextLevel(w), ~(arrived + 1 < NumThreads)
                   PROVE entering /\ \A x \in Worker : At(x) = {}
<1>1. pc[w] = "switch" /\ \A x \in Worker \ {w} : pc[x] = "barrier2"
  BY LastArrives DEF EnterNextLevel
<1>2. entering
  BY <1>1 DEF IInv, Phases
<1>3. \A x \in Worker : pc[x] \in {"switch", "barrier2"}
  BY <1>1
<1>4. \A x \in Worker : buf[x] = {} /\ msgq[x] = {} /\ fetched[x] = {} /\ handling[x] = None
  BY <1>2, <1>3 DEF IInv, Mail
<1>5. \A x \in Worker : stolenMsgs[x] = {}
  BY <1>2, <1>3 DEF IInv, Theft, Keeps
<1> QED BY <1>2, <1>4, <1>5 DEF At

\* A worker that is not the last one has switched afterwards.
LEMMA SwitchedMore == ASSUME IInv, NEW w \in Worker, EnterNextLevel(w), arrived + 1 < NumThreads
                      PROVE /\ ~Switched(w) /\ Switched(w)'
                            /\ \A x \in Worker \ {w} : Switched(x)' <=> Switched(x)
<1>1. /\ pc' = [pc EXCEPT ![w] = "barrier2"] /\ pc[w] = "switch" /\ UNCHANGED entering
      /\ arrived' = arrived + 1
  BY DEF EnterNextLevel, CountActivated, Goto
<1>2. entering /\ arrived \in Nat /\ pc \in [Worker -> {"first", "return", "steal", "prepare", "mark", "count",
        "run", "msgs", "replay", "mode", "drain", "io", "flush", "giveback", "switch", "barrier2", "stop"}]
  BY <1>1 DEF IInv, Phases, Types
<1>3. \A x \in Worker \ {w} : pc[x] = "barrier2" => arrived > 0
  <2>1. SUFFICES ASSUME NEW x \in Worker \ {w}, pc[x] = "barrier2" PROVE arrived # 0
    BY <1>2
  <2>2. AtBarrier # Worker /\ x \in AtBarrier /\ IsFiniteSet(AtBarrier)
    BY <1>1, <2>1, Workers, FS_Subset DEF AtBarrier
  <2>3. arrived = Cardinality(AtBarrier)
    BY <2>2 DEF IInv, Counters, Arrivals
  <2> QED BY <2>2, <2>3, FS_EmptySet
<1> QED BY <1>1, <1>2, <1>3 DEF Switched

\* A switch puts vertices into a queue, but its worker counts as switched, or nothing is under way.
LEMMA SourcesEnter == ASSUME RInv, NEW w \in Worker, EnterNextLevel(w) PROVE Sources'
<1>1. /\ curr' = [curr EXCEPT ![w] = next[w]]
      /\ UNCHANGED <<batch, pend, buf, msgq, stolenMsgs, fetched, handling>>
  BY DEF EnterNextLevel, senders
<1>2. \A x \in Worker : At(x)' = At(x)
  BY <1>1 DEF At
<1>3. CASE arrived + 1 < NumThreads
  <2>1. Switched(w)' /\ \A x \in Worker : Switched(x) => Switched(x)'
    BY <1>3, SwitchedMore DEF RInv
  <2>2. \A x \in Worker : Switched(x)' \/ curr'[x] \subseteq curr[x]
    BY <1>1, <2>1 DEF RInv, IInv, Types
  <2>3. \A v : Spent(v) => Spent(v)'
    BY <1>1, <2>1, <2>2, SpentFrame DEF RInv, IInv
  <2> QED BY <1>2, <2>3, SourcesFrame DEF RInv
<1>4. CASE ~(arrived + 1 < NumThreads)
  BY <1>2, <1>4, LastEmpty DEF RInv, Sources
<1> QED BY <1>3, <1>4

\* The invariant of the refinement.
LEMMA RInvHolds == Spec => []RInv
<1>1. Init => RInv
  <2> SUFFICES ASSUME Init PROVE RInv
    OBVIOUS
  <2>1. \A w \in Worker : At(w) = {}
    BY DEF Init, All, At
  <2>2. \A w \in Worker, i \in Place : Box(w, i) = {}
    BY <2>1, AtBox
  <2> QED BY <2>1, <2>2, InitInv DEF RInv, Unique, Sources
<1>2. ASSUME RInv, IInv', [Next]_vars PROVE RInv'
  <2>1. Unique'
    BY <1>2, UniqueStep DEF IInv
  <2>2. Sources'
    BY <1>2, SourcesSteps, SourcesEnter
  <2> QED BY <1>2, <2>1, <2>2 DEF RInv
<1> QED BY <1>1, <1>2, EngineInvariant, PTL DEF Spec

-------------------------------------------------------------------------------
(* The refinement                                                          *)

\* What is in the state of VertexLevels: the vertices nobody has taken, ...
LEMMA TodoIn == /\ \A v : v \in Todo <=> \E w \in Worker : v \in curr[w] /\ ~Switched(w)
                /\ \A v : v \in Todo' <=> \E w \in Worker : v \in curr'[w] /\ ~Switched(w)'
BY DEF Todo

\* The vertices in work, ...
LEMMA InWorkIn == /\ \A v : v \in InWork <=> \E w \in Worker : v \in batch[w] \cup pend[w]
                  /\ \A v : v \in InWork' <=> \E w \in Worker : v \in batch'[w] \cup pend'[w]
BY DEF InWork

\* ... and the vertices activated so far.
LEMMA ActivatedIn ==
    /\ \A v : v \in Activated <=> \/ \E w \in Worker : v \in NextOf(w)
                                  \/ \E m \in InFlight : m.act /\ v = m.dest
    /\ \A v : v \in Activated' <=> \/ \E w \in Worker : v \in NextOf(w)'
                                   \/ \E m \in InFlight' : m.act /\ v = m.dest
<1>1. /\ \A v : v \in InQueues <=> \E w \in Worker : v \in NextOf(w)
      /\ \A v : v \in InQueues' <=> \E w \in Worker : v \in NextOf(w)'
  BY DEF InQueues
<1>2. /\ \A v : v \in OnTheWay <=> \E m \in InFlight : m.act /\ v = m.dest
      /\ \A v : v \in OnTheWay' <=> \E m \in InFlight' : m.act /\ v = m.dest
  BY DEF OnTheWay
<1> QED BY <1>1, <1>2 DEF Activated

\* The steps of VertexLevels.  None.
LEMMA AsStutter == ASSUME UNCHANGED <<level, Todo, InWork, Activated, Unhandled, handled, Over>>
                   PROVE [VL!Next]_(VL!vars)
BY DEF VL!vars

\* Vertices are taken.
LEMMA AsTake == ASSUME Todo' \subseteq Todo, InWork' = InWork \cup (Todo \ Todo'),
                       UNCHANGED <<level, Activated, Unhandled, handled, Over>>
                PROVE [VL!Next]_(VL!vars)
BY DEF VL!Next, VL!Take

\* A vertex finishes.
LEMMA AsFinish == ASSUME NEW v \in InWork, InWork' = InWork \ {v},
                         Activated \subseteq Activated', Unhandled \subseteq Unhandled',
                         UNCHANGED <<level, Todo, handled, Over>>
                  PROVE [VL!Next]_(VL!vars)
BY DEF VL!Next, VL!Finish

\* Vertices are activated at the end of an iteration.
LEMMA AsActivate == ASSUME ~Over, Activated \subseteq Activated',
                           UNCHANGED <<level, Todo, InWork, Unhandled, handled, Over>>
                    PROVE [VL!Next]_(VL!vars)
BY DEF VL!Next, VL!Activate

\* A message is handled.
LEMMA AsDeliver == ASSUME NEW m \in Unhandled, Unhandled' = Unhandled \ {m}, handled' = handled + 1,
                          UNCHANGED <<level, Todo, InWork, Activated, Over>>
                   PROVE [VL!Next]_(VL!vars)
BY DEF VL!Next, VL!Deliver

\* The next level begins.
LEMMA AsAdvance == ASSUME Todo = {}, InWork = {}, Unhandled = {}, ~Over,
                          level' = level + 1, Todo' = Activated, Activated' = {}, handled' = 0,
                          Over' = (Activated = {}), InWork' = {}, Unhandled' = {}
                   PROVE [VL!Next]_(VL!vars)
BY DEF VL!Next, VL!Advance

\* When nothing moves between the workers, each part is the same.
LEMMA TodoSame == ASSUME \A x \in Worker : Switched(x)' <=> Switched(x), UNCHANGED curr PROVE Todo' = Todo
BY TodoIn

\* The vertices in work.
LEMMA InWorkSame == ASSUME UNCHANGED <<batch, pend>> PROVE InWork' = InWork
BY DEF InWork

\* The messages under way, when none moves ...
LEMMA InFlightSame == ASSUME UNCHANGED <<buf, msgq, stolenMsgs, fetched, handling>> PROVE InFlight' = InFlight
BY DEF InFlight

\* ... and when they move between the places of a worker.
LEMMA InFlightMoves == ASSUME \A x \in Worker : At(x)' = At(x) PROVE InFlight' = InFlight
BY InFlightAt

\* The vertices activated.
LEMMA ActivatedSame ==
    ASSUME \A x \in Worker : Switched(x)' <=> Switched(x), UNCHANGED <<curr, next>>, InFlight' = InFlight
    PROVE Activated' = Activated
<1>1. \A x \in Worker : NextOf(x)' = NextOf(x)
  BY DEF NextOf
<1>2. InQueues' = InQueues
  BY <1>1 DEF InQueues
<1>3. OnTheWay' = OnTheWay
  BY DEF OnTheWay
<1> QED BY <1>2, <1>3 DEF Activated

\* All of the state of VertexLevels.
LEMMA StutterSame ==
    ASSUME \A x \in Worker : Switched(x)' <=> Switched(x), InFlight' = InFlight,
           UNCHANGED <<curr, next, batch, pend, level, handled, complete>>
    PROVE [VL!Next]_(VL!vars)
<1>1. Todo' = Todo /\ InWork' = InWork /\ Activated' = Activated
  BY TodoSame, InWorkSame, ActivatedSame
<1>2. Unhandled' = Unhandled /\ Over' = Over
  BY DEF Unhandled, Over
<1> QED BY <1>1, <1>2, AsStutter

\* What is sent is on its way, and nothing is lost.
LEMMA SendInFlight ==
    ASSUME Types, NEW w \in Worker, NEW v, NEW M, NEW out, NEW q, SendForm(w, v, M, out, q),
           UNCHANGED <<stolenMsgs, fetched, handling>>
    PROVE InFlight' = InFlight \cup M
<1>1. ASSUME NEW x \in Worker, NEW m \in At(x)' PROVE m \in M \/ \E y \in Worker : m \in At(y)
  <2>1. m \in At(x) \/ m \in buf[w] \/ m \in M
    BY DEF SendForm, At, To, Types
  <2>2. m \in buf[w] => m \in At(w)
    BY DEF At
  <2> QED BY <2>1, <2>2
<1>2. ASSUME NEW m \in M PROVE \E y \in Worker : m \in At(y)'
  <2>1. m \in Msg /\ Owner[m.dest] \in Worker
    BY MsgFields, OwnerAssumption DEF SendForm
  <2>2. m \in buf'[w] \/ m \in msgq'[Owner[m.dest]]
    BY <2>1 DEF SendForm, To, Types
  <2> QED BY <2>1, <2>2 DEF At
<1>3. ASSUME NEW x \in Worker, NEW m \in At(x) PROVE \E y \in Worker : m \in At(y)'
  <2>1. CASE m \in out /\ m \in buf[w]
    <3>1. m \in Msg /\ Owner[m.dest] \in Worker
      BY <2>1, MsgFields, OwnerAssumption DEF Types
    <3>2. m \in msgq'[Owner[m.dest]]
      BY <2>1, <3>1 DEF SendForm, To
    <3> QED BY <3>1, <3>2 DEF At
  <2>2. CASE ~(m \in out /\ m \in buf[w])
    <3>1. \A p \in Worker : msgq[p] \subseteq msgq'[p]
      BY DEF SendForm
    <3>2. m \in buf[x] => m \in buf'[x]
      BY <2>2 DEF SendForm, Types
    <3>3. m \in At(x)'
      BY <3>1, <3>2 DEF At
    <3> QED BY <3>3
  <2> QED BY <2>1, <2>2
<1> QED BY <1>1, <1>2, <1>3, InFlightAt

\* Sending activates vertices and takes none back.
LEMMA SendNext == ASSUME Types, NEW w \in Worker, NEW v \in Vertex, Send(w, v)
                  PROVE \A x \in Worker : next[x] \subseteq next'[x]
<1>1. next' = next \/ next' = [next EXCEPT ![w] = @ \cup (Edges[v] \cap Own(w))]
  BY Zenon DEF Send, ActivateEdges
<1>2. next \in [Worker -> SUBSET Vertex]
  BY DEF Types
<1> QED BY ONLY <1>1, <1>2

\* A vertex that has sent its messages finishes.
LEMMA SendFinishes ==
    ASSUME RInv, NEW w \in Worker, NEW v \in Vertex, Send(w, v), \A x \in Worker : Switched(x)' <=> Switched(x),
           v \in InWork, InWork' = InWork \ {v},
           UNCHANGED <<curr, stolenMsgs, fetched, handling, level, handled, complete>>
    PROVE [VL!Next]_(VL!vars)
<1>1. PICK M, out, q : SendForm(w, v, M, out, q)
  BY SendHasForm DEF RInv, IInv
<1>2. InFlight' = InFlight \cup M
  BY <1>1, SendInFlight DEF RInv, IInv
<1>3. \A x \in Worker : NextOf(x) \subseteq NextOf(x)'
  BY SendNext DEF NextOf, RInv, IInv
<1>4. Activated \subseteq Activated'
  BY <1>2, <1>3, ActivatedIn
<1>5. Unhandled \subseteq Unhandled' /\ UNCHANGED Over
  BY <1>2 DEF Unhandled, Over
<1>6. UNCHANGED Todo
  BY TodoSame
<1> QED BY <1>4, <1>5, <1>6, AsFinish

\* Vertices fetched from a queue, the worker's own or another's, are taken.
LEMMA TakenAway ==
    ASSUME RInv, NEW w \in Worker, NEW t \in Worker, NEW S \in SUBSET curr[t], \A v \in S : Owner[v] = t,
           batch[w] = {}, batch' = [batch EXCEPT ![w] = S], curr' = [curr EXCEPT ![t] = @ \ S], ~entering,
           \A x \in Worker : Switched(x)' <=> Switched(x),
           UNCHANGED <<next, pend, buf, msgq, stolenMsgs, fetched, handling, level, handled, complete>>
    PROVE [VL!Next]_(VL!vars)
<1>0. \A x \in Worker : ~Switched(x) /\ curr[x] \subseteq Own(x)
  BY DEF Switched, RInv, IInv, Places
<1>1. \A v : v \in Todo' <=> v \in Todo /\ v \notin S
  <2>1. \A x \in Worker : \A v \in curr[x] : Owner[v] = x
    BY <1>0 DEF Own
  <2> QED BY <1>0, <2>1, TodoIn DEF RInv, IInv, Types
<1>2. \A v \in S : v \in Todo
  BY <1>0, TodoIn
<1>3. \A v : v \in InWork' <=> v \in InWork \/ v \in S
  BY InWorkIn DEF RInv, IInv, Types
<1>4. Todo' \subseteq Todo /\ InWork' = InWork \cup (Todo \ Todo')
  BY <1>1, <1>2, <1>3
<1>5. \A x \in Worker : NextOf(x)' = NextOf(x)
  BY <1>0 DEF NextOf
<1>6. InFlight' = InFlight
  BY InFlightSame
<1>7. InQueues' = InQueues /\ OnTheWay' = OnTheWay
  BY <1>5, <1>6 DEF InQueues, OnTheWay
<1>8. UNCHANGED <<Activated, Unhandled, Over>>
  BY <1>6, <1>7 DEF Activated, Unhandled, Over
<1> QED BY <1>4, <1>8, AsTake

\* An activation that is processed reaches the vertices of the next level: it was among
\* them while it was on its way.
LEMMA ActivatedLands ==
    ASSUME Types, NEW w \in Worker, NEW m \in InFlight, m \in Msg, ~Switched(w), Activate(w, m), UNCHANGED curr,
           \A x \in Worker : Switched(x)' <=> Switched(x),
           \A n : n \in InFlight' => n \in InFlight,
           \A n : n \in InFlight => n \in InFlight' \/ n = m
    PROVE Activated' = Activated
<1>1. /\ \A x \in Worker \ {w} : NextOf(x)' = NextOf(x)
      /\ NextOf(w)' = IF m.act THEN NextOf(w) \cup {m.dest} ELSE NextOf(w)
  BY DEF NextOf, Activate, Types
<1>2. \A v : v \in Activated' => v \in Activated
  BY <1>1, ActivatedIn
<1>3. \A v : v \in Activated => v \in Activated'
  BY <1>1, ActivatedIn
<1> QED BY <1>2, <1>3

\* So processing a message without its handler changes nothing a program could see.
LEMMA ActivationLands ==
    ASSUME Types, NEW w \in Worker, NEW m \in InFlight, m \in Msg, ~Switched(w), Activate(w, m),
           \A x \in Worker : Switched(x)' <=> Switched(x),
           InFlight' \subseteq InFlight, InFlight \subseteq InFlight' \cup {m},
           InFlight' = InFlight \/ ~m.body,
           UNCHANGED <<curr, batch, pend, level, handled, complete>>
    PROVE [VL!Next]_(VL!vars)
<1>1. Activated' = Activated
  BY ActivatedLands
<1>2. Unhandled' = Unhandled
  BY DEF Unhandled
<1>3. UNCHANGED <<Todo, InWork, Over>>
  BY TodoSame, InWorkSame DEF Over
<1> QED BY <1>1, <1>2, <1>3, AsStutter

\* Every step but the switch of a level is a step of VertexLevels or changes nothing there.
LEMMA RefineSteps == ASSUME RInv, [Next]_vars, \A w \in Worker : ~EnterNextLevel(w)
                      PROVE [VL!Next]_(VL!vars)
<1> USE DEF config, queues, balancer, senders, inbox, stealState, levels, RInv, IInv, Types
<1>0. \A x \in Worker : Switched(x)' <=> Switched(x)
  BY SwitchedSame
<1>1. ASSUME NEW w \in Worker, ReturnVertices(w) PROVE [VL!Next]_(VL!vars)
  BY <1>1, <1>0, StutterSame, InFlightSame DEF ReturnVertices
<1>2. ASSUME NEW w \in Worker, ClearStolen(w) PROVE [VL!Next]_(VL!vars)
  BY <1>2, <1>0, StutterSame, InFlightSame DEF ClearStolen
<1>3. ASSUME NEW w \in Worker, FetchOwn(w) PROVE [VL!Next]_(VL!vars)
  <2>1. PICK S \in SUBSET curr[w] : batch' = [batch EXCEPT ![w] = S] /\ curr' = [curr EXCEPT ![w] = @ \ S]
    BY <1>3 DEF FetchOwn, Fetch, kSubset
  <2>2. UNCHANGED <<next, pend, buf, msgq, stolenMsgs, fetched, handling, level, handled, complete>> /\ ~entering
    BY <1>3 DEF FetchOwn, Phases
  <2>3. batch[w] = {} /\ \A v \in S : Owner[v] = w
    BY <1>3 DEF FetchOwn, Places, Own
  <2> QED BY <1>0, <2>1, <2>2, <2>3, TakenAway
<1>4. ASSUME NEW w \in Worker, FetchNone(w) PROVE [VL!Next]_(VL!vars)
  BY <1>4, <1>0, StutterSame, InFlightSame DEF FetchNone
<1>5. ASSUME NEW w \in Worker, StartSteal(w) PROVE [VL!Next]_(VL!vars)
  BY <1>5, <1>0, StutterSame, InFlightSame DEF StartSteal
<1>6. ASSUME NEW w \in Worker, Steal(w) PROVE [VL!Next]_(VL!vars)
  <2>1. PICK t, S : /\ t \in Worker /\ S \in SUBSET curr[t]
                    /\ batch' = [batch EXCEPT ![w] = S] /\ curr' = [curr EXCEPT ![t] = @ \ S]
    BY <1>6 DEF Steal, Fetch, kSubset
  <2>2. UNCHANGED <<next, pend, buf, msgq, stolenMsgs, fetched, handling, level, handled, complete>> /\ ~entering
    BY <1>6 DEF Steal, Phases
  <2>3. batch[w] = {} /\ \A v \in S : Owner[v] = t
    BY <1>6, <2>1 DEF Steal, Places, Own
  <2> QED BY <1>0, <2>1, <2>2, <2>3, TakenAway
<1>7. ASSUME NEW w \in Worker, PrepareSteal(w) PROVE [VL!Next]_(VL!vars)
  BY <1>7, <1>0, StutterSame, InFlightSame DEF PrepareSteal
<1>8. ASSUME NEW w \in Worker, MarkStolen(w) PROVE [VL!Next]_(VL!vars)
  BY <1>8, <1>0, StutterSame, InFlightSame DEF MarkStolen
<1>9. ASSUME NEW w \in Worker, WaitGuard(w) PROVE [VL!Next]_(VL!vars)
  BY <1>9, <1>0, StutterSame, InFlightSame DEF WaitGuard
<1>10. ASSUME NEW w \in Worker, CountVertices(w) PROVE [VL!Next]_(VL!vars)
  BY <1>10, <1>0, StutterSame, InFlightSame DEF CountVertices
<1>11. ASSUME NEW w \in Worker, RunVertex(w) PROVE [VL!Next]_(VL!vars)
  <2>1. PICK v \in batch[w] :
          /\ batch' = [batch EXCEPT ![w] = @ \ {v}]
          /\ \/ pend' = [pend EXCEPT ![w] = @ \cup {v}] /\ UNCHANGED <<next, senders, msgq>>
             \/ Send(w, v) /\ UNCHANGED pend
    BY <1>11 DEF RunVertex
  <2>2. UNCHANGED <<curr, stolenMsgs, fetched, handling, level, handled, complete>>
    BY <1>11 DEF RunVertex
  <2>3. v \in Vertex /\ v \notin pend[w] /\ \A x \in Worker \ {w} : v \notin batch[x] \cup pend[x]
    BY <2>1 DEF Places, Held
  <2>4. CASE pend' = [pend EXCEPT ![w] = @ \cup {v}] /\ UNCHANGED <<next, senders, msgq>>
    <3>1. \A x \in Worker : batch'[x] \cup pend'[x] = batch[x] \cup pend[x]
      BY <2>1, <2>4
    <3>2. InWork' = InWork
      BY <3>1, InWorkIn
    <3>3. UNCHANGED <<Todo, Activated, Unhandled, Over>>
      BY <1>0, <2>2, <2>4, TodoSame, ActivatedSame, InFlightSame DEF Unhandled, Over
    <3> QED BY <2>2, <3>2, <3>3, AsStutter
  <2>5. CASE Send(w, v) /\ UNCHANGED pend
    <3>1. v \in InWork
      BY <2>1, InWorkIn
    <3>2. InWork' = InWork \ {v}
      <4>1. \A y : y \in InWork' <=> y \in InWork /\ y # v
        BY <2>1, <2>3, <2>5, InWorkIn
      <4> QED BY <4>1
    <3> QED BY <1>0, <2>2, <2>3, <2>5, <3>1, <3>2, SendFinishes
  <2> QED BY <2>1, <2>4, <2>5
<1>12. ASSUME NEW w \in Worker, CompleteIO(w) PROVE [VL!Next]_(VL!vars)
  <2>1. PICK v \in pend[w] : pend' = [pend EXCEPT ![w] = @ \ {v}] /\ Send(w, v)
    BY <1>12 DEF CompleteIO
  <2>2. UNCHANGED <<curr, batch, stolenMsgs, fetched, handling, level, handled, complete>>
    BY <1>12 DEF CompleteIO
  <2>3. v \in Vertex /\ v \notin batch[w] /\ \A x \in Worker \ {w} : v \notin batch[x] \cup pend[x]
    BY <2>1 DEF Places, Held
  <2>4. v \in InWork
    BY <2>1, InWorkIn
  <2>5. InWork' = InWork \ {v}
    <3>1. \A y : y \in InWork' <=> y \in InWork /\ y # v
      BY <2>1, <2>2, <2>3, InWorkIn
    <3> QED BY <3>1
  <2> QED BY <1>0, <2>1, <2>2, <2>3, <2>4, <2>5, SendFinishes
<1>13. ASSUME NEW w \in Worker, TakeStolenMsgs(w) PROVE [VL!Next]_(VL!vars)
  <2>1. \A x \in Worker : At(x)' = At(x)
    <3>1. fetched[w] = {}
      BY <1>13 DEF TakeStolenMsgs, Mail
    <3>2. /\ fetched' = [fetched EXCEPT ![w] = stolenMsgs[w]]
          /\ stolenMsgs' = [stolenMsgs EXCEPT ![w] = {}]
          /\ UNCHANGED <<buf, msgq, handling>>
      BY <1>13 DEF TakeStolenMsgs
    <3>3. fetched \in [Worker -> SUBSET Msg] /\ stolenMsgs \in [Worker -> SUBSET Msg]
      OBVIOUS
    <3> HIDE DEF RInv
    <3> QED BY <3>1, <3>2, <3>3 DEF At
  <2> QED BY <1>0, <1>13, <2>1, InFlightMoves, StutterSame DEF TakeStolenMsgs
<1>14. ASSUME NEW w \in Worker, GuardMsgs(w) PROVE [VL!Next]_(VL!vars)
  BY <1>14, <1>0, StutterSame, InFlightSame DEF GuardMsgs
<1>15. ASSUME NEW w \in Worker, EnterStealMode(w) PROVE [VL!Next]_(VL!vars)
  BY <1>15, <1>0, StutterSame, InFlightSame DEF EnterStealMode
<1>16. ASSUME NEW w \in Worker, FetchMsgs(w) PROVE [VL!Next]_(VL!vars)
  <2>1. \A x \in Worker : At(x)' = At(x)
    BY <1>16 DEF FetchMsgs, At, Mail, Idle
  <2> QED BY <1>0, <1>16, <2>1, InFlightMoves, StutterSame DEF FetchMsgs
<1>17. ASSUME NEW w \in Worker, ProcessMsg(w) PROVE [VL!Next]_(VL!vars)
  <2>1. PICK m \in fetched[w] :
          /\ fetched' = [fetched EXCEPT ![w] = @ \ {m}]
          /\ \/ ~m.body /\ Activate(w, m) /\ UNCHANGED <<stolenMsgs, handling>>
             \/ /\ m.body /\ Activate(w, m) /\ stolenMsgs' = [stolenMsgs EXCEPT ![w] = @ \cup {m}] /\ UNCHANGED handling
             \/ /\ m.body /\ handling' = [handling EXCEPT ![w] = m] /\ UNCHANGED <<next, stolenMsgs>>
          /\ pc[w] \in {"replay", "drain"} /\ handling[w] = None
          /\ UNCHANGED <<buf, msgq, curr, batch, pend, level, handled, complete>>
    BY <1>17 DEF ProcessMsg, MustWait
  <2>2. m \in Msg /\ m # None /\ m.dest \in Vertex /\ m \in At(w) /\ ~Switched(w)
    BY <2>1, MsgFields DEF At, Switched
  <2>3. CASE m.body
    <3>1. \A x \in Worker : At(x)' = At(x)
      BY <2>1, <2>2, <2>3 DEF At
    <3>2. InFlight' = InFlight
      BY <3>1, InFlightMoves
    <3>3. CASE UNCHANGED next
      BY <1>0, <2>1, <3>2, <3>3, StutterSame
    <3>4. CASE Activate(w, m)
      BY <1>0, <2>1, <2>2, <3>2, <3>4, InFlightAt, ActivationLands
    <3> QED BY <2>1, <2>3, <3>3, <3>4
  <2>4. CASE ~m.body
    <3>1. \A x \in Worker : At(x)' \subseteq At(x) /\ At(x) \subseteq At(x)' \cup {m}
      BY <2>1, <2>4 DEF At
    <3>2. InFlight' \subseteq InFlight /\ InFlight \subseteq InFlight' \cup {m} /\ m \in InFlight
      BY <2>2, <3>1, InFlightAt
    <3> QED BY <1>0, <2>1, <2>2, <2>4, <3>2, ActivationLands
  <2> QED BY <2>3, <2>4
<1>18. ASSUME NEW w \in Worker, EndHandler(w) PROVE [VL!Next]_(VL!vars)
  <2>1. PICK m : m = handling[w]
    OBVIOUS
  <2>2. /\ handling[w] # None /\ Activate(w, m)
        /\ handling' = [handling EXCEPT ![w] = None] /\ handled' = handled + 1
        /\ UNCHANGED <<curr, batch, pend, buf, msgq, stolenMsgs, fetched, level, complete>>
    BY <1>18, <2>1 DEF EndHandler
  <2>3. m \in Msg /\ m.dest \in Vertex /\ m.body /\ m \in At(w) /\ m \in Box(w, "handling") /\ ~Switched(w)
    <3>1. m \in Msg \cup {None} /\ m # None
      BY <2>1, <2>2
    <3>2. m.body /\ ~Switched(w)
      BY <2>1, <2>2 DEF Mail, Switched
    <3>3. m \in At(w) /\ m \in Box(w, "handling")
      BY <2>1, <2>2 DEF At, Box
    <3> QED BY <3>1, <3>2, <3>3, MsgFields
  <2>4. Unique /\ Types
    OBVIOUS
  <2> HIDE DEF RInv
  <2>5. \A x \in Worker, i \in Place : m \in Box(x, i) => x = w /\ i = "handling"
    BY <2>3, <2>4 DEF Unique, Place
  <2>6. \A x \in Worker, i \in Place : m \notin Box(x, i)'
    BY <2>1, <2>2, <2>3, <2>4, <2>5 DEF Box, Place
  <2>7. \A x \in Worker : m \notin At(x)' 
    BY <2>6, AtBox
  <2>8. \A x \in Worker : At(x)' \subseteq At(x) /\ At(x) \subseteq At(x)' \cup {m}
    BY <2>1, <2>2, <2>4 DEF At
  <2>9. \A n : n \in InFlight' <=> n \in InFlight /\ n # m
    BY <2>7, <2>8, InFlightAt
  <2>10. m \in InFlight
    BY <2>3, InFlightAt
  <2>11. Activated' = Activated
    BY <1>0, <2>2, <2>3, <2>4, <2>9, <2>10, ActivatedLands
  <2>12. m \in Unhandled /\ Unhandled' = Unhandled \ {m}
    BY <2>3, <2>9, <2>10 DEF Unhandled
  <2>13. UNCHANGED <<Todo, InWork, Over>>
    BY <1>0, <2>2, TodoSame, InWorkSame DEF Over
  <2> QED BY <2>2, <2>11, <2>12, <2>13, AsDeliver
<1>19. ASSUME NEW w \in Worker, UnguardMsgs(w) PROVE [VL!Next]_(VL!vars)
  BY <1>19, <1>0, StutterSame, InFlightSame DEF UnguardMsgs
<1>20. ASSUME NEW w \in Worker, LoopAgain(w) PROVE [VL!Next]_(VL!vars)
  BY <1>20, <1>0, StutterSame, InFlightSame DEF LoopAgain
<1>21. ASSUME NEW w \in Worker, EndIteration(w) PROVE [VL!Next]_(VL!vars)
  <2>1. PICK A \in SUBSET Vertex : ActivateIds(w, A)
    BY <1>21, EdgesAssumption DEF EndIteration
  <2>2. PICK M, out : SendForm(w, 0, M, out, {}) /\ \A m \in M : ~m.body
    BY <2>1, ActivationForm
  <2>3. /\ UNCHANGED <<curr, next, batch, pend, stolenMsgs, fetched, handling, level, handled, complete>>
        /\ ~(complete /\ level > 0)
    BY <1>21 DEF EndIteration, Phases
  <2>4. InFlight' = InFlight \cup M
    BY <2>2, <2>3, SendInFlight
  <2>5. \A x \in Worker : NextOf(x)' = NextOf(x)
    BY <1>0, <2>3 DEF NextOf
  <2>6. Activated \subseteq Activated'
    <3>1. ASSUME NEW x \in Activated PROVE x \in Activated'
      <4>1. CASE \E u \in Worker : x \in NextOf(u)
        <5>1. \E u \in Worker : x \in NextOf(u)'
          BY <2>5, <4>1, Zenon
        <5> QED BY <5>1, ActivatedIn, Zenon
      <4>2. CASE \E m \in InFlight : m.act /\ x = m.dest
        <5>1. \E m \in InFlight' : m.act /\ x = m.dest
          BY <2>4, <4>2, Zenon
        <5> QED BY <5>1, ActivatedIn, Zenon
      <4> QED BY <4>1, <4>2, ActivatedIn, Zenon
    <3> QED BY <3>1, Zenon
  <2>7. Unhandled' = Unhandled
    BY <2>2, <2>4 DEF Unhandled
  <2>8. UNCHANGED <<Todo, InWork, Over>> /\ ~Over
    BY <1>0, <2>3, TodoSame, InWorkSame DEF Over
  <2> QED BY <2>3, <2>6, <2>7, <2>8, AsActivate
<1>22. ASSUME NEW w \in Worker, FlushMsgs(w) PROVE [VL!Next]_(VL!vars)
  <2>1. PICK out : out = buf[w]
    OBVIOUS
  <2>2. /\ buf' = [buf EXCEPT ![w] = {}]
        /\ msgq' = [p \in Worker |-> msgq[p] \cup To(p, out)]
        /\ UNCHANGED <<curr, next, batch, pend, stolenMsgs, fetched, handling, level, handled, complete>>
    BY <1>22, <2>1 DEF FlushMsgs
  <2>3. Types
    OBVIOUS
  <2> HIDE DEF RInv
  <2>4. (buf[w] \ out) \cup ({} \ {}) = {} /\ out \cup {} = out
    BY <2>1
  <2>5. buf' = [buf EXCEPT ![w] = (@ \ out) \cup ({} \ {})]
    BY <2>2, <2>4
  <2>6. SendForm(w, 0, {}, out, {})
    BY <2>1, <2>2, <2>4, <2>5 DEF SendForm
  <2>7. InFlight' = InFlight \cup {}
    BY <2>2, <2>3, <2>6, SendInFlight
  <2> QED BY <1>0, <2>2, <2>7, StutterSame
<1>23. ASSUME NEW w \in Worker, FirstLevel(w) PROVE [VL!Next]_(VL!vars)
  <2>1. level = 0 /\ handled = 0 /\ level' = level /\ handled' = 0 /\ UNCHANGED <<curr, next, batch, pend, buf, msgq, stolenMsgs, fetched, handling>>
    BY <1>23 DEF FirstLevel, CountActivated, Phases, Starting
  <2>2. UNCHANGED <<Todo, InWork, Activated, Unhandled>>
    BY <1>0, <2>1, TodoSame, InWorkSame, ActivatedSame, InFlightSame DEF Unhandled
  <2>3. Over' = Over
    BY <2>1 DEF Over
  <2> QED BY <2>1, <2>2, <2>3, AsStutter
<1>24. ASSUME NEW w \in Worker, EnterNextLevel(w) PROVE [VL!Next]_(VL!vars)
  BY <1>24
<1>25. CASE Barrier1
  BY <1>0, <1>25, StutterSame, InFlightSame DEF Barrier1
<1>26. CASE Barrier2
  BY <1>0, <1>26, StutterSame, InFlightSame DEF Barrier2
<1>27. CASE UNCHANGED vars
  BY <1>0, <1>27, StutterSame, InFlightSame DEF vars
<1> HIDE DEF RInv, IInv, Types
<1> QED BY <1>1, <1>2, <1>3, <1>4, <1>5, <1>6, <1>7, <1>8, <1>9, <1>10, <1>11, <1>12, <1>13, <1>14, <1>15, <1>16, <1>17, <1>18, <1>19, <1>20, <1>21, <1>22, <1>23, <1>24, <1>25, <1>26, <1>27 DEF Next, WorkerStep, Stopped

\* A worker switches its queues: the last one begins the next level, the others show nothing.
LEMMA RefineEnter == ASSUME RInv, NEW w \in Worker, EnterNextLevel(w) PROVE [VL!Next]_(VL!vars)
<1>1. /\ pc[w] = "switch" /\ entering
      /\ curr' = [curr EXCEPT ![w] = next[w]] /\ next' = [next EXCEPT ![w] = {}]
      /\ CountActivated(Cardinality(next[w]), FALSE)
      /\ UNCHANGED <<batch, pend, buf, msgq, stolenMsgs, fetched, handling>>
  BY DEF EnterNextLevel, senders, RInv, IInv, Phases
<1>2. Types /\ Phases /\ Places
  BY DEF RInv, IInv
<1>3. InWork' = InWork /\ InFlight' = InFlight /\ curr[w] = {}
  BY <1>1, <1>2, InWorkSame, InFlightSame DEF Places
<1>4. CASE arrived + 1 < NumThreads
  <2>1. ~Switched(w) /\ Switched(w)' /\ \A x \in Worker \ {w} : Switched(x)' <=> Switched(x)
    BY <1>4, SwitchedMore DEF RInv
  <2>2. UNCHANGED <<level, handled, complete>>
    BY <1>1, <1>4 DEF CountActivated
  <2>3. \A v : v \in Todo' <=> v \in Todo
    BY <1>1, <1>2, <1>3, <2>1, TodoIn DEF Types
  <2>4. \A x \in Worker : NextOf(x)' = NextOf(x)
    BY <1>1, <1>2, <2>1 DEF NextOf, Types
  <2>5. InQueues' = InQueues /\ OnTheWay' = OnTheWay
    BY <1>3, <2>4 DEF InQueues, OnTheWay
  <2>6. Todo' = Todo
    BY <2>3
  <2>7. UNCHANGED <<Activated, Unhandled, Over>>
    BY <1>3, <2>2, <2>5 DEF Activated, Unhandled, Over
  <2> QED BY <1>3, <2>2, <2>6, <2>7, AsStutter
<1>5. CASE ~(arrived + 1 < NumThreads)
  <2>1. \A x \in Worker \ {w} : pc[x] = "barrier2"
    BY <1>1, <1>5, LastArrives DEF RInv
  <2>2. InFlight = {}
    BY <1>5, LastEmpty, InFlightAt DEF RInv
  <2>3. \A x \in Worker \ {w} : Switched(x)
    <3>1. SUFFICES ASSUME NEW x \in Worker \ {w} PROVE arrived # 0
      BY <1>1, <1>2, <2>1 DEF Switched, Types
    <3>2. AtBarrier # Worker /\ x \in AtBarrier /\ IsFiniteSet(AtBarrier)
      BY <1>1, <2>1, Workers, FS_Subset DEF AtBarrier
    <3>3. arrived = Cardinality(AtBarrier)
      BY <3>2 DEF RInv, IInv, Counters, Arrivals
    <3> QED BY <3>2, <3>3, FS_EmptySet
  <2>4. ~Switched(w)
    BY <1>1 DEF Switched
  <2>5. /\ arrived' = 0 /\ level' = level + 1 /\ handled' = 0
        /\ complete' = (total + Cardinality(next[w]) = 0)
    BY <1>1, <1>5 DEF CountActivated
  <2>6. \A x \in Worker : ~Switched(x)'
    BY <2>5 DEF Switched
  <2>7. Todo = {}
    BY <1>3, <2>3, TodoIn
  <2>8. InWork = {} /\ \A x \in Worker \ {w} : next[x] = {}
    BY <1>1, <1>2, <2>1, InWorkIn DEF Places, Held
  <2>9. ~Over
    BY <1>1, <1>2 DEF Over, Phases
  <2>10. \A x \in Worker : NextOf(x) = curr'[x]
    BY <1>1, <1>2, <2>3, <2>4 DEF NextOf, Types
  <2>11. \A v : v \in Todo' <=> v \in Activated
    BY <2>2, <2>6, <2>10, TodoIn, ActivatedIn
  <2>12. \A x \in Worker : NextOf(x)' = {}
    BY <1>1, <1>2, <2>6, <2>8 DEF NextOf, Types
  <2>13. Activated' = {}
    BY <1>3, <2>2, <2>12, ActivatedIn
  <2>14. Unhandled = {} /\ Unhandled' = {}
    BY <1>3, <2>2 DEF Unhandled
  <2>15. Over' = (Activated = {})
    <3>1. next[w] \in SUBSET Own(w) /\ Cardinality(next[w]) \in Nat
      BY <1>2, SubsetCard DEF Places, Types
    <3>2. Cardinality(Gathered \cup next[w]) = total + Cardinality(next[w])
      BY <1>1, <3>1, GatherMore DEF RInv
    <3>3. \A v : v \in Activated <=> v \in Gathered \cup next[w]
      <4>1. \A x \in Worker : curr[x] \subseteq Own(x) /\ curr[x] \subseteq Vertex
        BY <1>2 DEF Places, Types
      <4>2. \A v : v \in Gathered <=> \E x \in Worker \ {w} : v \in curr[x]
        BY <1>1, <2>1, <4>1, OwnerAssumption DEF Gathered, Own
      <4>3. \A v : v \in Activated <=> v \in next[w] \/ \E x \in Worker \ {w} : v \in curr[x]
        BY <2>2, <2>3, <2>4, ActivatedIn DEF NextOf
      <4> QED BY <4>2, <4>3
    <3>4. Activated = Gathered \cup next[w]
      BY <3>3
    <3>5. Activated \in SUBSET Vertex
      BY <1>2, <3>4 DEF Gathered, Types
    <3>6. IsFiniteSet(Activated) /\ Cardinality(Activated) \in Nat
      BY <3>5, SubsetCard
    <3>7. Cardinality(Activated) = 0 <=> Activated = {}
      BY <3>6, FS_EmptySet
    <3>8. complete' <=> Activated = {}
      BY <2>5, <3>2, <3>4, <3>7
    <3>9. level' > 0
      BY <1>2, <2>5 DEF Types
    <3>10. Over' <=> Activated = {}
      BY <3>8, <3>9 DEF Over
    <3>11. Over' \in BOOLEAN
      BY Zenon DEF Over
    <3> QED BY <3>10, <3>11
  <2> QED BY <1>3, <2>5, <2>7, <2>8, <2>9, <2>11, <2>13, <2>14, <2>15, AsAdvance
<1> QED BY <1>4, <1>5

\* The workers together implement VertexLevels: for every number of workers and every graph,
\* an active vertex is processed once in its level, every message is handled once and in the
\* level it was sent in, and exactly the vertices activated in a level are active in the next,
\* however the workers steal, buffer, keep and replay.
THEOREM EngineImplementsLevels == Spec => ImplementsVertexLevels
<1>1. Init => VL!Init
  <2> SUFFICES ASSUME Init PROVE VL!Init
    OBVIOUS
  <2>1. \A w \in Worker : ~Switched(w) /\ At(w) = {} /\ batch[w] \cup pend[w] = {} /\ next[w] = {}
    BY DEF Init, All, Switched, At
  <2>2. InFlight = {} /\ InWork = {} /\ level = 0 /\ handled = 0 /\ complete = FALSE
    BY <2>1, InFlightAt, InWorkIn DEF Init
  <2>3. Todo \subseteq Vertex
    <3>1. \A w \in Worker : curr[w] \subseteq Vertex
      BY DEF Init, Own
    <3> QED BY <3>1, TodoIn
  <2>4. Activated = {}
    <3>1. \A w \in Worker : NextOf(w) = {}
      BY <2>1 DEF NextOf
    <3> QED BY <2>2, <3>1, ActivatedIn
  <2>5. Unhandled = {} /\ Over = FALSE
    BY <2>2 DEF Unhandled, Over
  <2> QED BY <2>2, <2>3, <2>4, <2>5 DEF VL!Init
<1>2. ASSUME RInv, [Next]_vars PROVE [VL!Next]_(VL!vars)
  BY <1>2, RefineSteps, RefineEnter
<1> QED BY <1>1, <1>2, RInvHolds, PTL DEF Spec, ImplementsVertexLevels, VL!Spec

===============================================================================
