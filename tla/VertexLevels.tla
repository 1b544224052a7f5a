----------------------------- MODULE VertexLevels -----------------------------
(***************************************************************************)
(* What the graph engine promises a vertex program: the computation goes   *)
(* level by level, a vertex that is active in a level is processed once in *)
(* it, every message is handled once and before its level ends, and the    *)
(* vertices activated in a level are the active ones of the next.  Worker  *)
(* threads, partitions, stealing, buffers and barriers do not appear here; *)
(* Engine implements this.                                                 *)
(***************************************************************************)
EXTENDS Naturals

CONSTANT Vertex

VARIABLES
    level,     \* the number of the current level
    todo,      \* the active vertices that nobody has taken yet
    running,   \* the vertices being processed
    next,      \* the vertices activated for the next level
    mail,      \* the messages sent and not handled yet
    handled,   \* how many messages have been handled in this level
    complete   \* the engine has nothing left to do

vars == <<level, todo, running, next, mail, handled, complete>>

Init ==
    /\ level = 0 /\ handled = 0 /\ complete = FALSE
    /\ todo \subseteq Vertex
    /\ running = {} /\ next = {} /\ mail = {}

\* Active vertices are taken for processing.
Take ==
    /\ todo' \subseteq todo
    /\ running' = running \cup (todo \ todo')
    /\ UNCHANGED <<level, next, mail, handled, complete>>

\* A vertex finishes; its program may have activated vertices and sent messages.
Finish == \E v \in running :
    /\ running' = running \ {v}
    /\ next \subseteq next' /\ mail \subseteq mail'
    /\ UNCHANGED <<level, todo, handled, complete>>

\* The program may activate vertices at the end of an iteration.
Activate ==
    /\ ~complete
    /\ next \subseteq next'
    /\ UNCHANGED <<level, todo, running, mail, handled, complete>>

\* A message is handled.
Deliver == \E m \in mail :
    /\ mail' = mail \ {m}
    /\ handled' = handled + 1
    /\ UNCHANGED <<level, todo, running, next, complete>>

\* Only when all the work of a level is done does the next one begin.
Advance ==
    /\ todo = {} /\ running = {} /\ mail = {} /\ ~complete
    /\ level' = level + 1
    /\ todo' = next /\ next' = {}
    /\ handled' = 0
    /\ complete' = (next = {})
    /\ UNCHANGED <<running, mail>>

Next == Take \/ Finish \/ Activate \/ Deliver \/ Advance
Spec == Init /\ [][Next]_vars
===============================================================================
