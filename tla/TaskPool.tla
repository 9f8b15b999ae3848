------------------------------ MODULE TaskPool ------------------------------
(* What a pool of threads promises: a task that was handed over is run     *)
(* once, and tasks are begun in the order they came.                       *)
EXTENDS Naturals, Sequences

CONSTANT Tasks

VARIABLES
    waiting, \* the tasks nobody has begun, in order
    running, \* the tasks some thread is running
    finished \* the tasks whose future is ready

Init ==
    /\ waiting = <<>>
    /\ running = {}
    /\ finished = {}

New(t) ==
    /\ t \notin running \cup finished
    /\ \A i \in 1 .. Len(waiting) : waiting[i] # t

Submit(t) ==
    /\ New(t)
    /\ waiting' = Append(waiting, t)
    /\ UNCHANGED <<running, finished>>

Begin ==
    /\ waiting # <<>>
    /\ running' = running \cup {Head(waiting)}
    /\ waiting' = Tail(waiting)
    /\ UNCHANGED finished

\* The submitter runs the task itself instead of handing it over.
RunInline(t) ==
    /\ New(t)
    /\ running' = running \cup {t}
    /\ UNCHANGED <<waiting, finished>>

Finish(t) ==
    /\ t \in running
    /\ running' = running \ {t}
    /\ finished' = finished \cup {t}
    /\ UNCHANGED waiting

Next == Begin \/ \E t \in Tasks : Submit(t) \/ RunInline(t) \/ Finish(t)

Spec == Init /\ [][Next]_<<waiting, running, finished>>
=============================================================================
