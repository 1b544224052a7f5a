-------------------------------- MODULE Engine --------------------------------
(***************************************************************************)
(* The worker threads of the FlashGraph engine: the loop of a worker over  *)
(* a level (worker_thread.cpp), the stealing of active vertices            *)
(* (load_balancer.cpp, steal_state.h), vertex messages and activations     *)
(* (vertex_program.cpp, messaging.cpp, message_processor.cpp) and the two  *)
(* barriers between levels (graph_engine.cpp).                             *)
(*                                                                         *)
(* One action is one access to state that workers share: the vertex queue  *)
(* under its lock, a message queue, an atomic counter, the stolen bitmap.  *)
(* Vertices and messages are sets: messages travel in separate buffers for *)
(* each kind, so no order among them is promised.                          *)
(***************************************************************************)
EXTENDS Integers, FiniteSets, FiniteSetsExt

CONSTANTS
    NumThreads,     \* worker threads, one for each partition
    Vertex,
    Owner,          \* the partition of a vertex: graph_partitioner::map
    Edges,          \* the vertices the program of a vertex talks to
    EndVertices,    \* the vertices the program activates at an iteration's end
    Programs,       \* the kinds of vertex programs: subsets of Operation
    MaxProcessing,  \* max_processing_vertices
    SerialRuns,     \* the settings of graph_conf.use_serial_run() to look at
    MaxLevel,       \* the program activates no vertices from this level on
    None

Worker == 0 .. NumThreads - 1

\* What a program does: activate its neighbours, send them messages, send them
\* messages that have the flush flag.
Operation == {"activate", "message", "flush"}

ASSUME ThreadsAssumption == NumThreads \in Nat \ {0}
ASSUME OwnerAssumption == Owner \in [Vertex -> Worker]
ASSUME EdgesAssumption == Edges \in [Vertex -> SUBSET Vertex] /\ EndVertices \subseteq Vertex
ASSUME ProgramsAssumption == Programs \subseteq SUBSET Operation /\ SerialRuns \subseteq BOOLEAN
ASSUME LimitAssumption == MaxProcessing \in Nat \ {0} /\ MaxLevel \in Nat

\* A message to one vertex: an activation message has no body for its program.
Msg == [src : Vertex \cup {None}, dest : Vertex, act : BOOLEAN, body : BOOLEAN]

ASSUME VertexAssumption == IsFiniteSet(Vertex) /\ None \notin Msg

VARIABLES
    program,     \* what the vertex program does
    serialRun,   \* use_serial_run(): the engine has a steal_state
    pc,          \* where each worker is
    entering,    \* it is between the two barriers
    curr, next,  \* curr_activated_vertices, next_activated_vertices
    batch,       \* the vertices fetched and not run yet: process_vertex_buf
    pend,        \* the vertices that wait for their I/O
    done,        \* completed_stolen_vertices of its load_balancer
    returning,   \* the vertices return_vertices is giving back
    victim,      \* steal_thread_id
    tries,       \* num_tries
    buf,         \* the messages in its senders
    ready,       \* the partitions whose activate_sender holds an open message
    crashed,     \* a destination was added to a sender without one
    msgq,        \* msg_q
    stolenMsgs,  \* stolenv_msgs
    fetched,     \* the messages process_msgs has taken and not processed yet
    checkSteal,  \* check_steal
    handling,    \* the message whose handler runs
    marked,      \* stolen_bitmap, of all workers
    numStolen, numReturned, prepared, stealMode, guard, \* steal_state_t
    remaining,   \* num_remaining_vertices_in_level
    total,       \* tot_num_activates
    arrived,     \* num_threads of progress_next_level
    level, complete,
    handled      \* history: the handlers run in this level

config == <<program, serialRun>>
queues == <<curr, next, batch, pend>>
balancer == <<done, returning, victim, tries>>
senders == <<buf, ready, crashed>>
inbox == <<stolenMsgs, fetched, checkSteal, handling, handled>>
stealState == <<marked, numStolen, numReturned, prepared, stealMode, guard>>
levels == <<remaining, total, arrived, level, complete>>
vars == <<config, pc, entering, queues, balancer, senders, msgq, inbox, stealState, levels>>

All(x) == [w \in Worker |-> x]
Own(w) == {v \in Vertex : Owner[v] = w}
To(w, msgs) == {m \in msgs : Owner[m.dest] = w}

\* The engine is started on a set of vertices; every worker has put its own into
\* its queue and is about to enter progress_first_level.
Init ==
    /\ program \in Programs /\ serialRun \in SerialRuns
    /\ \E S \in SUBSET Vertex : curr = [w \in Worker |-> S \cap Own(w)]
    /\ pc = All("first") /\ entering = FALSE
    /\ next = All({}) /\ batch = All({}) /\ pend = All({})
    /\ done = All({}) /\ returning = All({})
    /\ victim = [w \in Worker |-> (w + 1) % NumThreads] /\ tries = All(0)
    /\ buf = All({}) /\ ready = All(Worker) /\ crashed = FALSE
    /\ msgq = All({}) /\ stolenMsgs = All({})
    /\ fetched = All({}) /\ checkSteal = All(FALSE) /\ handling = All(None)
    /\ marked = {} /\ numStolen = All(0) /\ numReturned = All(0)
    /\ prepared = All(FALSE) /\ stealMode = All(FALSE) /\ guard = All(FALSE)
    /\ remaining = 0 /\ total = 0 /\ arrived = 0 /\ level = 0
    /\ complete = FALSE /\ handled = 0

Goto(w, l) == pc' = [pc EXCEPT ![w] = l]
-------------------------------------------------------------------------------
(* Stolen vertices go back to their owners                                 *)

\* Nothing is left to give back: process_completed_stolen_vertices returns.
GaveBack(w) == done[w] = {} /\ returning[w] = {}

\* process_completed_stolen_vertices, for the next owner with vertices to get back:
\* return_vertices counts them first ...
ReturnVertices(w) ==
    /\ pc[w] \in {"return", "giveback"}
    /\ done[w] # {} /\ returning[w] = {}
    /\ LET o == Min({Owner[v] : v \in done[w]})
           S == done[w] \cap Own(o)
       IN  /\ done' = [done EXCEPT ![w] = @ \ S]
           /\ IF serialRun
              THEN /\ returning' = [returning EXCEPT ![w] = S]
                   /\ numReturned' = [numReturned EXCEPT ![o] = @ + Cardinality(S)]
              ELSE UNCHANGED <<returning, numReturned>>
    /\ UNCHANGED <<config, pc, entering, queues, victim, tries, senders, msgq, inbox,
                   marked, numStolen, prepared, stealMode, guard, levels>>

\* Mutant: the bits stay set.
ClearStolenNot(w) == \E v \in returning[w] :
    /\ returning' = [returning EXCEPT ![w] = @ \ {v}]
    /\ UNCHANGED <<config, pc, entering, queues, done, victim, tries, senders, msgq, inbox, stealState, levels>>

\* ... and then clears their bits, one after the other.
ClearStolen(w) == \E v \in returning[w] :
    /\ returning' = [returning EXCEPT ![w] = @ \ {v}]
    /\ marked' = marked \ {v}
    /\ UNCHANGED <<config, pc, entering, queues, done, victim, tries, senders, msgq, inbox,
                   numStolen, numReturned, prepared, stealMode, guard, levels>>
-------------------------------------------------------------------------------
(* Active vertices are fetched or stolen                                   *)

Room(w) == MaxProcessing - Cardinality(pend[w])

\* num vertices of a queue, or all it has.
Fetch(S, num) == kSubset(Min({num, Cardinality(S)}), S)

\* process_activated_vertices takes vertices from the worker's own queue, ...
FetchOwn(w) ==
    /\ pc[w] = "return" /\ GaveBack(w) /\ Room(w) > 0 /\ curr[w] # {}
    /\ \E S \in Fetch(curr[w], Room(w)) :
           /\ batch' = [batch EXCEPT ![w] = S]
           /\ curr' = [curr EXCEPT ![w] = @ \ S]
    /\ Goto(w, "count")
    /\ UNCHANGED <<config, entering, next, pend, balancer, senders, msgq, inbox, stealState, levels>>

\* ... none when it already has as many in flight as it may, ...
FetchNone(w) ==
    /\ pc[w] = "return" /\ GaveBack(w) /\ Room(w) <= 0
    /\ Goto(w, "msgs")
    /\ UNCHANGED <<config, entering, queues, balancer, senders, msgq, inbox, stealState, levels>>

\* ... and turns to the other workers when its queue is empty.
StartSteal(w) ==
    /\ pc[w] = "return" /\ GaveBack(w) /\ Room(w) > 0 /\ curr[w] = {}
    /\ victim' = [victim EXCEPT ![w] = IF @ = w THEN (@ + 1) % NumThreads ELSE @]
    /\ tries' = [tries EXCEPT ![w] = 0]
    /\ Goto(w, "steal")
    /\ UNCHANGED <<config, entering, queues, done, returning, senders, msgq, inbox, stealState, levels>>

\* One try of load_balancer::steal_activated_vertices at the queue of its victim.
Steal(w) ==
    LET t == victim[w]
        share == Max({1, Cardinality(curr[t]) \div NumThreads})
    IN  /\ pc[w] = "steal"
        /\ tries' = [tries EXCEPT ![w] = @ + 1]
        /\ \E S \in Fetch(curr[t], Min({Room(w), share})) :
               /\ batch' = [batch EXCEPT ![w] = S]
               /\ curr' = [curr EXCEPT ![t] = @ \ S]
               /\ victim' = [victim EXCEPT ![w] = IF S = {} THEN (@ + 1) % NumThreads ELSE @]
               /\ Goto(w, IF S # {} THEN (IF serialRun THEN "prepare" ELSE "count")
                          ELSE IF tries[w] + 1 < NumThreads THEN "steal" ELSE "msgs")
        /\ UNCHANGED <<config, entering, next, pend, done, returning, senders, msgq, inbox, stealState, levels>>

\* steal_state_t::steal_vertices announces the theft, ...
PrepareSteal(w) ==
    /\ pc[w] = "prepare"
    /\ prepared' = [prepared EXCEPT ![victim[w]] = TRUE]
    /\ Goto(w, "mark")
    /\ UNCHANGED <<config, entering, queues, balancer, senders, msgq, inbox,
                   marked, numStolen, numReturned, stealMode, guard, levels>>

\* ... sets the bits of the vertices ...
MarkStolen(w) ==
    /\ pc[w] = "mark"
    /\ \E v \in batch[w] \ marked : marked' = marked \cup {v}
    /\ UNCHANGED <<config, pc, entering, queues, balancer, senders, msgq, inbox,
                   numStolen, numReturned, prepared, stealMode, guard, levels>>

\* Mutant: the thief does not wait for the owner.
WaitGuardNot(w) ==
    /\ pc[w] = "mark" /\ batch[w] \subseteq marked
    /\ numStolen' = [numStolen EXCEPT ![victim[w]] = @ + Cardinality(batch[w])]
    /\ Goto(w, "count")
    /\ UNCHANGED <<config, entering, queues, balancer, senders, msgq, inbox,
                   marked, numReturned, prepared, stealMode, guard, levels>>

\* ... and waits until the owner is not processing messages.
WaitGuard(w) ==
    /\ pc[w] = "mark" /\ batch[w] \subseteq marked
    /\ ~guard[victim[w]]
    /\ numStolen' = [numStolen EXCEPT ![victim[w]] = @ + Cardinality(batch[w])]
    /\ Goto(w, "count")
    /\ UNCHANGED <<config, entering, queues, balancer, senders, msgq, inbox,
                   marked, numReturned, prepared, stealMode, guard, levels>>

\* Mutant: all the vertices asked for are counted, not the ones fetched.
CountVerticesMax(w) ==
    /\ pc[w] = "count"
    /\ remaining' = remaining - MaxProcessing
    /\ Goto(w, "run")
    /\ UNCHANGED <<config, entering, queues, balancer, senders, msgq, inbox, stealState,
                   total, arrived, level, complete>>

\* graph_engine::process_vertices
CountVertices(w) ==
    /\ pc[w] = "count"
    /\ remaining' = remaining - Cardinality(batch[w])
    /\ Goto(w, "run")
    /\ UNCHANGED <<config, entering, queues, balancer, senders, msgq, inbox, stealState,
                   total, arrived, level, complete>>
-------------------------------------------------------------------------------
(* Vertices run; their programs activate vertices and send messages        *)

Activations(A) == {[src |-> None, dest |-> d, act |-> TRUE, body |-> FALSE] : d \in A}
Messages(v, act) == {[src |-> v, dest |-> d, act |-> act, body |-> TRUE] : d \in Edges[v]}

\* Messages are added to the senders of the worker.  A sender whose buffer is full
\* first puts what it holds into the queue of its destination.
SendCached(w, msgs) == \E full \in BOOLEAN :
    LET out == {m \in buf[w] : full /\ \E n \in msgs :
                    n.body = m.body /\ Owner[n.dest] = Owner[m.dest]}
    IN  /\ buf' = [buf EXCEPT ![w] = (@ \ out) \cup msgs]
        /\ msgq' = [p \in Worker |-> msgq[p] \cup To(p, out)]

\* vertex_program::activate_vertices of vertex ids: all go through the activate_sender
\* of their partition, which needs an open activation message.
ActivateIds(w, A) ==
    /\ SendCached(w, Activations(A))
    /\ crashed' = (crashed \/ \E d \in A : Owner[d] \notin ready[w])
    /\ UNCHANGED ready

\* vertex_program::activate_vertices of an edge iterator activates the vertices of the
\* worker's own partition directly.
ActivateEdges(w, A) ==
    /\ next' = [next EXCEPT ![w] = @ \cup (A \cap Own(w))]
    /\ ActivateIds(w, A \ Own(w))

\* send_msg of a message with the flush flag: all senders to its partition are flushed
\* before it, and the activate_sender is left without a message.
SendFlush(w, msgs) ==
    LET parts == {Owner[m.dest] : m \in msgs}
        out == {m \in buf[w] : Owner[m.dest] \in parts}
    IN  /\ buf' = [buf EXCEPT ![w] = @ \ out]
        /\ msgq' = [p \in Worker |-> msgq[p] \cup To(p, out \cup msgs)]
        /\ ready' = [ready EXCEPT ![w] = @ \ parts]

\* What the program of a vertex sends before the vertex is complete.
Send(w, v) ==
    \/ UNCHANGED <<next, senders, msgq>>
    \/ "activate" \in program /\ level < MaxLevel /\ ActivateEdges(w, Edges[v])
    \/ /\ \E act \in BOOLEAN :
             /\ act => level < MaxLevel
             /\ \/ "message" \in program /\ SendCached(w, Messages(v, act)) /\ UNCHANGED ready
                \/ "flush" \in program /\ SendFlush(w, Messages(v, act))
       /\ UNCHANGED <<next, crashed>>

\* worker_thread::complete_vertex: a stolen vertex is to be given back.
CompleteVertex(w, v) ==
    done' = [done EXCEPT ![w] = IF Owner[v] = w THEN @ ELSE @ \cup {v}]

\* process_activated_vertices runs a vertex of the batch; it is complete unless its
\* program has requested I/O.
RunVertex(w) ==
    /\ pc[w] = "run"
    /\ \E v \in batch[w] :
          /\ batch' = [batch EXCEPT ![w] = @ \ {v}]
          /\ \/ /\ pend' = [pend EXCEPT ![w] = @ \cup {v}]
                /\ UNCHANGED <<next, senders, msgq, done>>
             \/ /\ Send(w, v) /\ CompleteVertex(w, v)
                /\ UNCHANGED pend
          /\ Goto(w, IF batch[w] = {v} THEN "msgs" ELSE "run")
    /\ UNCHANGED <<config, entering, curr, returning, victim, tries, inbox, stealState, levels>>

\* wait4complete runs a vertex on the data it has requested.
CompleteIO(w) ==
    /\ pc[w] = "io"
    /\ \E v \in pend[w] :
          /\ pend' = [pend EXCEPT ![w] = @ \ {v}]
          /\ Send(w, v) /\ CompleteVertex(w, v)
    /\ UNCHANGED <<config, pc, entering, curr, batch, returning, victim, tries, inbox, stealState, levels>>
-------------------------------------------------------------------------------
(* message_processor::process_msgs                                         *)

Activate(w, m) == next' = [next EXCEPT ![w] = IF m.act THEN @ \cup {m.dest} ELSE @]

\* Messages of stolen vertices are tried again once vertices have come back.
Replays(w) == serialRun /\ numReturned[w] > 0 /\ stolenMsgs[w] # {}

TakeStolenMsgs(w) ==
    /\ pc[w] = "msgs" /\ Replays(w)
    /\ fetched' = [fetched EXCEPT ![w] = stolenMsgs[w]]
    /\ stolenMsgs' = [stolenMsgs EXCEPT ![w] = {}]
    /\ checkSteal' = [checkSteal EXCEPT ![w] = TRUE]
    /\ Goto(w, "replay")
    /\ UNCHANGED <<config, entering, queues, balancer, senders, msgq, handling, handled, stealState, levels>>

Idle(w) == fetched[w] = {} /\ handling[w] = None

\* guard_msg_processing makes the guard odd ...
GuardMsgs(w) ==
    /\ \/ pc[w] = "msgs" /\ ~Replays(w)
       \/ pc[w] = "replay" /\ Idle(w)
    /\ guard' = [guard EXCEPT ![w] = serialRun]
    /\ checkSteal' = [checkSteal EXCEPT ![w] = FALSE]
    /\ Goto(w, IF serialRun THEN "mode" ELSE "drain")
    /\ UNCHANGED <<config, entering, queues, balancer, senders, msgq, stolenMsgs, fetched, handling, handled,
                   marked, numStolen, numReturned, prepared, stealMode, levels>>

\* ... and enters the stealing stage if somebody has announced a theft.
EnterStealMode(w) ==
    /\ pc[w] = "mode"
    /\ stealMode' = [stealMode EXCEPT ![w] = @ \/ prepared[w]]
    /\ checkSteal' = [checkSteal EXCEPT ![w] = stealMode'[w]]
    /\ Goto(w, "drain")
    /\ UNCHANGED <<config, entering, queues, balancer, senders, msgq, stolenMsgs, fetched, handling, handled,
                   marked, numStolen, numReturned, prepared, guard, levels>>

FetchMsgs(w) ==
    /\ pc[w] = "drain" /\ Idle(w) /\ msgq[w] # {}
    /\ fetched' = [fetched EXCEPT ![w] = msgq[w]]
    /\ msgq' = [msgq EXCEPT ![w] = {}]
    /\ UNCHANGED <<config, pc, entering, queues, balancer, senders, stolenMsgs, checkSteal, handling, handled,
                   stealState, levels>>

\* The handler of the message must wait: its vertex is with another worker.
MustWait(w, m) == m.body /\ checkSteal[w] /\ m.dest \in marked

\* process_msg: a message activates its vertex, is kept for a stolen vertex, or its
\* handler begins.
ProcessMsg(w) ==
    /\ pc[w] \in {"replay", "drain"} /\ handling[w] = None
    /\ \E m \in fetched[w] :
          /\ fetched' = [fetched EXCEPT ![w] = @ \ {m}]
          /\ \/ ~m.body /\ Activate(w, m) /\ UNCHANGED <<stolenMsgs, handling>>
             \/ /\ MustWait(w, m) /\ Activate(w, m)
                /\ stolenMsgs' = [stolenMsgs EXCEPT ![w] = @ \cup {m}]
                /\ UNCHANGED handling
             \/ /\ m.body /\ ~MustWait(w, m)
                /\ handling' = [handling EXCEPT ![w] = m]
                /\ UNCHANGED <<next, stolenMsgs>>
    /\ UNCHANGED <<config, pc, entering, curr, batch, pend, balancer, senders, msgq, checkSteal, handled,
                   stealState, levels>>

\* Mutant: a message with the activate flag does not activate its vertex.
EndHandlerOnly(w) ==
    /\ handling[w] # None
    /\ handling' = [handling EXCEPT ![w] = None]
    /\ handled' = handled + 1
    /\ UNCHANGED <<config, pc, entering, queues, balancer, senders, msgq, stolenMsgs, fetched, checkSteal,
                   stealState, levels>>

\* The handler, run_on_message, returns.
EndHandler(w) ==
    /\ handling[w] # None
    /\ Activate(w, handling[w])
    /\ handling' = [handling EXCEPT ![w] = None]
    /\ handled' = handled + 1
    /\ UNCHANGED <<config, pc, entering, curr, batch, pend, balancer, senders, msgq, stolenMsgs, fetched, checkSteal,
                   stealState, levels>>

\* Mutant: the guard stays odd.
UnguardMsgsNot(w) ==
    /\ pc[w] = "drain" /\ Idle(w) /\ msgq[w] = {}
    /\ Goto(w, IF entering THEN "switch" ELSE "io")
    /\ UNCHANGED <<config, entering, queues, balancer, senders, msgq, inbox, stealState, levels>>


UnguardMsgs(w) ==
    /\ pc[w] = "drain" /\ Idle(w) /\ msgq[w] = {}
    /\ guard' = [guard EXCEPT ![w] = FALSE]
    /\ Goto(w, IF entering THEN "switch" ELSE "io")
    /\ UNCHANGED <<config, entering, queues, balancer, senders, msgq, inbox,
                   marked, numStolen, numReturned, prepared, stealMode, levels>>
-------------------------------------------------------------------------------
(* The end of a level                                                      *)

\* The worker has or may still get vertices to process in this level.
MoreInLevel(w) == pend[w] # {} \/ curr[w] # {} \/ remaining > 0

LoopAgain(w) ==
    /\ pc[w] = "io" /\ MoreInLevel(w)
    /\ Goto(w, "return")
    /\ UNCHANGED <<config, entering, queues, balancer, senders, msgq, inbox, stealState, levels>>

\* run_on_iteration_end, which may activate vertices ...
EndIteration(w) ==
    /\ pc[w] = "io" /\ ~MoreInLevel(w)
    /\ \E A \in {{}} \cup {B \in {EndVertices} : "activate" \in program /\ level < MaxLevel} :
          ActivateIds(w, A)
    /\ Goto(w, "flush")
    /\ UNCHANGED <<config, entering, queues, balancer, inbox, stealState, levels>>

\* Mutant: the senders are not flushed.
FlushMsgsNot(w) ==
    /\ pc[w] = "flush"
    /\ Goto(w, "giveback")
    /\ UNCHANGED <<config, entering, queues, balancer, senders, msgq, inbox, stealState, levels>>

\* ... and flush_msgs, which empties all senders and opens their activation messages.
FlushMsgs(w) ==
    /\ pc[w] = "flush"
    /\ buf' = [buf EXCEPT ![w] = {}]
    /\ ready' = [ready EXCEPT ![w] = Worker]
    /\ msgq' = [p \in Worker |-> msgq[p] \cup To(p, buf[w])]
    /\ Goto(w, "giveback")
    /\ UNCHANGED <<config, entering, queues, balancer, crashed, inbox, stealState, levels>>

\* Mutant: stolen vertices are not given back before the barrier.
Barrier1Early ==
    /\ \A w \in Worker : pc[w] = "giveback"
    /\ pc' = All("msgs") /\ entering' = TRUE
    /\ UNCHANGED <<config, queues, balancer, senders, msgq, inbox, stealState, levels>>

\* barrier1 of progress_next_level; behind it every worker processes its messages.
Barrier1 ==
    /\ \A w \in Worker : pc[w] = "giveback" /\ GaveBack(w)
    /\ pc' = All("msgs") /\ entering' = TRUE
    /\ UNCHANGED <<config, queues, balancer, senders, msgq, inbox, stealState, levels>>

\* A worker adds its active vertices to the total; the last one starts the level.
CountActivated(num, firstLevel) ==
    IF arrived + 1 < NumThreads
    THEN /\ total' = total + num /\ arrived' = arrived + 1
         /\ UNCHANGED <<remaining, level, complete, handled>>
    ELSE /\ total' = 0 /\ arrived' = 0
         /\ remaining' = total + num /\ complete' = (total + num = 0)
         /\ level' = IF firstLevel THEN level ELSE level + 1
         /\ handled' = 0

\* progress_first_level up to barrier2
FirstLevel(w) ==
    /\ pc[w] = "first"
    /\ CountActivated(Cardinality(curr[w]), TRUE)
    /\ Goto(w, "barrier2")
    /\ UNCHANGED <<config, entering, queues, balancer, senders, msgq, stolenMsgs, fetched, checkSteal, handling, stealState>>

\* enter_next_level after its messages, and progress_next_level up to barrier2
EnterNextLevel(w) ==
    /\ pc[w] = "switch"
    /\ curr' = [curr EXCEPT ![w] = next[w]]
    /\ next' = [next EXCEPT ![w] = {}]
    /\ marked' = marked \ Own(w)
    /\ numStolen' = [numStolen EXCEPT ![w] = 0] /\ numReturned' = [numReturned EXCEPT ![w] = 0]
    /\ prepared' = [prepared EXCEPT ![w] = FALSE] /\ stealMode' = [stealMode EXCEPT ![w] = FALSE]
    /\ guard' = [guard EXCEPT ![w] = FALSE]
    /\ CountActivated(Cardinality(next[w]), FALSE)
    /\ Goto(w, "barrier2")
    /\ UNCHANGED <<config, entering, batch, pend, balancer, senders, msgq, stolenMsgs, fetched, checkSteal, handling>>

\* barrier2: all workers see whether the engine is done.  After the first level nobody
\* looks: worker_thread::init only logs a warning.
Barrier2 ==
    /\ \A w \in Worker : pc[w] = "barrier2"
    /\ pc' = All(IF entering /\ complete THEN "stop" ELSE "return")
    /\ entering' = FALSE
    /\ UNCHANGED <<config, queues, balancer, senders, msgq, inbox, stealState, levels>>

\* All workers have left run() and stay out of it.
Stopped ==
    /\ \A w \in Worker : pc[w] = "stop"
    /\ UNCHANGED vars

WorkerStep(w) ==
    \/ ReturnVertices(w) \/ ClearStolen(w)
    \/ FetchOwn(w) \/ FetchNone(w) \/ StartSteal(w) \/ Steal(w)
    \/ PrepareSteal(w) \/ MarkStolen(w) \/ WaitGuard(w) \/ CountVertices(w)
    \/ RunVertex(w) \/ CompleteIO(w)
    \/ TakeStolenMsgs(w) \/ GuardMsgs(w) \/ EnterStealMode(w)
    \/ FetchMsgs(w) \/ ProcessMsg(w) \/ EndHandler(w) \/ UnguardMsgs(w)
    \/ LoopAgain(w) \/ EndIteration(w) \/ FlushMsgs(w)
    \/ FirstLevel(w) \/ EnterNextLevel(w)

Next == Barrier1 \/ Barrier2 \/ Stopped \/ \E w \in Worker : WorkerStep(w)

\* Every thread gets to run, and every I/O completes.  Nothing is assumed of a thief that
\* looks at the guard of its victim: it may find it odd whenever it looks.
Fairness ==
    /\ WF_vars(Barrier1) /\ WF_vars(Barrier2)
    /\ \A w \in Worker : WF_vars(WorkerStep(w)) /\ SF_vars(CompleteIO(w))

Spec == Init /\ [][Next]_vars /\ Fairness
-------------------------------------------------------------------------------
(* Properties                                                              *)

TypeOK ==
    /\ program \in Programs /\ serialRun \in SerialRuns
    /\ pc \in [Worker -> {"first", "return", "steal", "prepare", "mark", "count", "run", "msgs",
                          "replay", "mode", "drain", "io", "flush", "giveback", "switch",
                          "barrier2", "stop"}]
    /\ entering \in BOOLEAN /\ complete \in BOOLEAN /\ crashed \in BOOLEAN
    /\ {curr, next, batch, pend, done, returning} \subseteq [Worker -> SUBSET Vertex]
    /\ victim \in [Worker -> Worker] /\ tries \in [Worker -> 0 .. NumThreads]
    /\ {buf, msgq, stolenMsgs, fetched} \subseteq [Worker -> SUBSET Msg]
    /\ ready \in [Worker -> SUBSET Worker]
    /\ handling \in [Worker -> Msg \cup {None}]
    /\ {checkSteal, prepared, stealMode, guard} \subseteq [Worker -> BOOLEAN]
    /\ marked \subseteq Vertex
    /\ {numStolen, numReturned} \subseteq [Worker -> Nat]
    /\ {remaining, total, arrived, level, handled} \subseteq Nat

\* A vertex is not run by one worker while its owner runs a message handler of it: with
\* use_serial_run, steal_vertices waits for the guard, and process_msg keeps the messages
\* of vertices whose bit is set (steal_state.h).
SerialExecution == serialRun =>
    \A w, x \in Worker : w # x /\ handling[w] # None =>
        /\ handling[w].dest \notin pend[x]
        /\ pc[x] \in {"count", "run"} => handling[w].dest \notin batch[x]

\* The assertions of the code hold where it makes them: process_vertices counts down no more
\* than there are; when the level switches, nothing is left in a message queue, all stolen
\* vertices are back, and no vertices are left to count.
AssertionsHold == \A w \in Worker :
    /\ pc[w] = "count" => remaining >= Cardinality(batch[w])
    /\ pc[w] = "switch" =>
          /\ msgq[w] = {} /\ stolenMsgs[w] = {} /\ curr[w] = {}
          /\ numStolen[w] = numReturned[w]
          /\ remaining = 0
    /\ \A v \in returning[w] : Owner[v] # w

\* No destination is added to an activate_sender that holds no activation message.
\* init_messaging and flush_msgs open one: "All activation messages are the same. We can
\* initialize the sender here."
SendersReady == ~crashed

\* The bits of the bitmap stand for vertices that are with another worker, and a vertex
\* that its owner could be handed again has none: otherwise its messages wait for ever.
StolenAreAway == \A v \in marked : \E w \in Worker :
    w # Owner[v] /\ v \in batch[w] \cup pend[w] \cup done[w] \cup returning[w]

\* Once its level has begun to switch, nobody holds a message or an activation in a sender:
\* what a level sends is handled and taken into account before the next level begins.
SendersFlushed == entering =>
    \A w \in Worker : buf[w] = {} /\ (pc[w] \in {"switch", "barrier2"} => msgq[w] = {})

\* The thief w spins in steal_vertices: while (guard.load() % 2 > 0).
Spins(w) == pc[w] = "mark" /\ batch[w] \subseteq marked

\* The engine stops when its program activates no vertices after MaxLevel, unless a thief spins
\* for ever because it looks at the guard of its victim at the wrong times only: the victim goes
\* on, and its guard is even again and again.  No worker is left behind at a barrier or in its
\* loop, and no thief waits for a victim that waits for the thief.
StopsUnlessSpinning ==
    \/ <>(\A w \in Worker : pc[w] = "stop")
    \/ \E w \in Worker : <>[]Spins(w) /\ []<>~guard[victim[w]]

\* A worker has switched its queues, and the level has not begun yet.
Switched(w) == entering /\ pc[w] = "barrier2" /\ arrived > 0

InFlight == UNION {buf[w] \cup msgq[w] \cup stolenMsgs[w] \cup fetched[w] \cup ({handling[w]} \ {None})
                     : w \in Worker}

\* The state of VertexLevels: the vertices nobody has taken, those somebody processes, those
\* active in the next level (the activation may still be on its way), the messages that wait
\* for their handlers, and whether the engine is done.
Todo == UNION {curr[w] : w \in {x \in Worker : ~Switched(x)}}
InWork == UNION {batch[w] \cup pend[w] : w \in Worker}
NextOf(w) == IF Switched(w) THEN curr[w] ELSE next[w]
InQueues == UNION {NextOf(w) : w \in Worker}
OnTheWay == {m.dest : m \in {n \in InFlight : n.act}}
Activated == InQueues \cup OnTheWay
Unhandled == {m \in InFlight : m.body}
Over == complete /\ level > 0

VL == INSTANCE VertexLevels WITH
    todo <- Todo, running <- InWork, next <- Activated, mail <- Unhandled, complete <- Over

\* The workers together do what VertexLevels promises a vertex program.
ImplementsVertexLevels == VL!Spec
===============================================================================
