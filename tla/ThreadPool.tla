----------------------------- MODULE ThreadPool -----------------------------
(***************************************************************************)
(* utils/thread.h: a pool whose workers take tasks from a queue under a    *)
(* mutex and sleep on a condition variable, and the thread that owns the   *)
(* pool. The generator script is such an owner: it enqueues the tasks of a *)
(* batch, waits for their futures and goes on to the next batch.           *)
(*                                                                         *)
(* The mutex is modelled because the destructor does not take it, and a    *)
(* worker that has found nothing to do sleeps one step later.              *)
(***************************************************************************)
EXTENDS Naturals, Sequences, FiniteSets

CONSTANTS
    Workers, \* the threads of the pool; capacity_ is their number
    Tasks,   \* the tasks the owner may hand over
    NoWorker, NoTask

ASSUME ThreadPoolAssumption ==
    /\ IsFiniteSet(Workers)
    /\ Workers # {}
    /\ NoWorker \notin Workers
    /\ NoTask \notin Tasks

VARIABLES
    tasks_,           \* the queue
    stopPool_,
    activateThreads_, \* number of workers that run a task
    mutex_,           \* the worker that holds it, or NoWorker
    wpc,              \* [worker]: program counter
    task,             \* [worker]: the task it has taken
    opc,              \* the owner's program counter
    inline,           \* the task spawn runs in the owner's thread
    ready,            \* tasks whose future is ready
    raced             \* has a worker gone to sleep after notify_all?

vars == <<tasks_, stopPool_, activateThreads_, mutex_, wpc, task, opc, inline,
          ready, raced>>

WorkerPcs ==
    {"lock", "check", "sleep", "asleep", "take", "before", "run", "after",
     "notify", "exit"}
OwnerPcs == {"idle", "notify", "inline", "get", "stop", "join", "gone"}

capacity_ == Cardinality(Workers)

InQueue == {tasks_[i] : i \in 1 .. Len(tasks_)}
Held == {task[w] : w \in Workers} \cup {inline}
Submitted == InQueue \cup (Held \ {NoTask}) \cup ready

TypeOK ==
    /\ tasks_ \in Seq(Tasks)
    /\ stopPool_ \in BOOLEAN
    /\ activateThreads_ \in 0 .. capacity_
    /\ mutex_ \in Workers \cup {NoWorker}
    /\ wpc \in [Workers -> WorkerPcs]
    /\ task \in [Workers -> Tasks \cup {NoTask}]
    /\ opc \in OwnerPcs
    /\ inline \in Tasks \cup {NoTask}
    /\ ready \subseteq Tasks
    /\ raced \in BOOLEAN

Init ==
    /\ tasks_ = <<>>
    /\ stopPool_ = FALSE
    /\ activateThreads_ = 0
    /\ mutex_ = NoWorker
    /\ wpc = [w \in Workers |-> "lock"]
    /\ task = [w \in Workers |-> NoTask]
    /\ opc = "idle"
    /\ inline = NoTask
    /\ ready = {}
    /\ raced = FALSE

-----------------------------------------------------------------------------
(* The condition variable cv_: asleep workers wait, a notified one goes on *)
(* to take the mutex again.                                                *)

notify_one ==
    IF \E w \in Workers : wpc[w] = "asleep"
    THEN \E w \in Workers :
            /\ wpc[w] = "asleep"
            /\ wpc' = [wpc EXCEPT ![w] = "lock"]
    ELSE UNCHANGED wpc

notify_all ==
    wpc' = [w \in Workers |-> IF wpc[w] = "asleep" THEN "lock" ELSE wpc[w]]

-----------------------------------------------------------------------------
(* waitLoop                                                                *)

WorkerGoto(w, from, to) ==
    /\ wpc[w] = from
    /\ wpc' = [wpc EXCEPT ![w] = to]
    /\ UNCHANGED <<opc, inline, stopPool_>>

WorkerLock(w) ==
    /\ mutex_ = NoWorker
    /\ WorkerGoto(w, "lock", "check")
    /\ mutex_' = w
    /\ UNCHANGED <<tasks_, activateThreads_, task, ready, raced>>

\* The predicate of the wait.
Awake == stopPool_ \/ tasks_ # <<>>

\* stopPool_ is read again after the wait.
WorkerCheck(w) ==
    /\ WorkerGoto(w, "check", IF Awake THEN "take" ELSE "sleep")
    /\ UNCHANGED <<tasks_, activateThreads_, mutex_, task, ready, raced>>

WorkerSleep(w) ==
    /\ WorkerGoto(w, "sleep", "asleep")
    /\ mutex_' = NoWorker
    /\ raced' = (raced \/ opc = "join")
    /\ UNCHANGED <<tasks_, activateThreads_, task, ready>>

\* The standard allows a wait to return unnotified.
WorkerSpurious(w) ==
    /\ WorkerGoto(w, "asleep", "lock")
    /\ UNCHANGED <<tasks_, activateThreads_, mutex_, task, ready, raced>>

\* Mutant of WorkerTake: the task stays in the queue.
WorkerTakeKeep(w) ==
    /\ WorkerGoto(w, "take",
            IF stopPool_ /\ tasks_ = <<>> THEN "exit" ELSE "before")
    /\ mutex_' = NoWorker
    /\ IF stopPool_ /\ tasks_ = <<>>
       THEN UNCHANGED task
       ELSE task' = [task EXCEPT ![w] = Head(tasks_)]
    /\ UNCHANGED <<tasks_, activateThreads_, ready, raced>>

\* Mutant of WorkerTake: a stopped pool drops what is left in the queue.
WorkerTakeStopped(w) ==
    /\ WorkerGoto(w, "take", IF stopPool_ THEN "exit" ELSE "before")
    /\ mutex_' = NoWorker
    /\ IF stopPool_
       THEN UNCHANGED <<task, tasks_>>
       ELSE /\ task' = [task EXCEPT ![w] = Head(tasks_)]
            /\ tasks_' = Tail(tasks_)
    /\ UNCHANGED <<activateThreads_, ready, raced>>

\* Return if stopped and nothing is left, else take the oldest task.
WorkerTake(w) ==
    /\ WorkerGoto(w, "take",
            IF stopPool_ /\ tasks_ = <<>> THEN "exit" ELSE "before")
    /\ mutex_' = NoWorker
    /\ IF stopPool_ /\ tasks_ = <<>>
       THEN UNCHANGED <<task, tasks_>>
       ELSE /\ task' = [task EXCEPT ![w] = Head(tasks_)]
            /\ tasks_' = Tail(tasks_)
    /\ UNCHANGED <<activateThreads_, ready, raced>>

beforeTaskHook(w) ==
    /\ WorkerGoto(w, "before", "run")
    /\ activateThreads_' = activateThreads_ + 1
    /\ UNCHANGED <<tasks_, mutex_, task, ready, raced>>

\* task(): the packaged task makes its future ready, with a value or with
\* the exception the function threw.
WorkerRun(w) ==
    /\ WorkerGoto(w, "run", "after")
    /\ ready' = ready \cup {task[w]}
    /\ task' = [task EXCEPT ![w] = NoTask]
    /\ UNCHANGED <<tasks_, activateThreads_, mutex_, raced>>

\* Mutant of afterTaskHook: the counter is not brought back.
afterTaskHookNone(w) ==
    /\ WorkerGoto(w, "after", "notify")
    /\ UNCHANGED <<tasks_, activateThreads_, mutex_, task, ready, raced>>

afterTaskHook(w) ==
    /\ WorkerGoto(w, "after", "notify")
    /\ activateThreads_' = activateThreads_ - 1
    /\ UNCHANGED <<tasks_, mutex_, task, ready, raced>>

\* The worker's own notify_one; it is not asleep itself.
WorkerNotify(w) ==
    /\ wpc[w] = "notify"
    /\ IF \E v \in Workers : wpc[v] = "asleep"
       THEN \E v \in Workers :
               /\ wpc[v] = "asleep"
               /\ wpc' = [wpc EXCEPT ![v] = "lock", ![w] = "lock"]
       ELSE wpc' = [wpc EXCEPT ![w] = "lock"]
    /\ UNCHANGED <<tasks_, stopPool_, activateThreads_, mutex_, task, opc,
                   inline, ready, raced>>

Worker(w) ==
    \/ WorkerLock(w) \/ WorkerCheck(w) \/ WorkerSleep(w) \/ WorkerTake(w)
    \/ beforeTaskHook(w) \/ WorkerRun(w) \/ afterTaskHook(w)
    \/ WorkerNotify(w)

-----------------------------------------------------------------------------
(* The owner.                                                              *)

OwnerGoto(from, to) ==
    /\ opc = from
    /\ opc' = to
    /\ UNCHANGED <<activateThreads_, mutex_, task, raced>>

\* enqueue: the owner is not stopping the pool, so it never throws.
enqueue(t) ==
    /\ t \notin Submitted
    /\ mutex_ = NoWorker
    /\ OwnerGoto("idle", "notify")
    /\ tasks_' = Append(tasks_, t)
    /\ UNCHANGED <<wpc, stopPool_, inline, ready>>

\* Mutant of EnqueueNotify: nobody is told.
EnqueueSilent ==
    /\ OwnerGoto("notify", "idle")
    /\ UNCHANGED <<tasks_, stopPool_, wpc, inline, ready>>

EnqueueNotify ==
    /\ OwnerGoto("notify", "idle")
    /\ notify_one
    /\ UNCHANGED <<tasks_, stopPool_, inline, ready>>

\* spawn runs the task itself if every worker is counted as running one; it
\* enqueues it otherwise, which is enqueue.
spawnInline(t) ==
    /\ t \notin Submitted
    /\ activateThreads_ >= capacity_
    /\ OwnerGoto("idle", "inline")
    /\ inline' = t
    /\ UNCHANGED <<tasks_, stopPool_, wpc, ready>>

InlineRun ==
    /\ OwnerGoto("inline", "idle")
    /\ ready' = ready \cup {inline}
    /\ inline' = NoTask
    /\ UNCHANGED <<tasks_, stopPool_, wpc>>

\* future.get() on every task of the batch, and on to the next one.
OwnerGet ==
    \/ /\ Submitted # ready
       /\ OwnerGoto("idle", "get")
       /\ UNCHANGED <<tasks_, stopPool_, wpc, inline, ready>>
    \/ /\ Submitted = ready
       /\ OwnerGoto("get", "idle")
       /\ UNCHANGED <<tasks_, stopPool_, wpc, inline, ready>>

\* ~ThreadPool sets the flag without the mutex ...
DestroyStop ==
    /\ OwnerGoto("idle", "stop")
    /\ stopPool_' = TRUE
    /\ UNCHANGED <<tasks_, wpc, inline, ready>>

\* Mutant of DestroyNotify: one worker is woken instead of all.
DestroyNotifyOne ==
    /\ OwnerGoto("stop", "join")
    /\ notify_one
    /\ UNCHANGED <<tasks_, stopPool_, inline, ready>>

\* ... notifies ...
DestroyNotify ==
    /\ OwnerGoto("stop", "join")
    /\ notify_all
    /\ UNCHANGED <<tasks_, stopPool_, inline, ready>>

\* ... and joins every thread.
DestroyJoin ==
    /\ \A w \in Workers : wpc[w] = "exit"
    /\ OwnerGoto("join", "gone")
    /\ UNCHANGED <<tasks_, stopPool_, wpc, inline, ready>>

Owner ==
    \/ \E t \in Tasks : enqueue(t) \/ spawnInline(t)
    \/ EnqueueNotify \/ InlineRun \/ OwnerGet
    \/ DestroyStop \/ DestroyNotify \/ DestroyJoin

-----------------------------------------------------------------------------

Next ==
    \/ Owner
    \/ \E w \in Workers : Worker(w) \/ WorkerSpurious(w)

Spec == Init /\ [][Next]_vars

\* A worker runs when it can, and gets the mutex if it is free again and
\* again; the owner finishes a call it is in.
Fairness ==
    /\ \A w \in Workers : WF_vars(Worker(w)) /\ SF_vars(WorkerLock(w))
    /\ WF_vars(EnqueueNotify) /\ WF_vars(InlineRun)
    /\ WF_vars(DestroyNotify) /\ WF_vars(DestroyJoin)

FairSpec == Spec /\ Fairness

-----------------------------------------------------------------------------

\* spawn's count of busy workers is never above the number of workers that
\* hold a task or have just finished one.
ActiveCount ==
    activateThreads_ =
        Cardinality({w \in Workers : wpc[w] \in {"run", "after"}})

\* No wakeup is lost between enqueue and the workers: while tasks wait, a
\* worker is awake to take them, or the owner is about to notify one.
WakeupOwed ==
    (tasks_ # <<>> /\ \A w \in Workers : wpc[w] \in {"asleep", "exit"})
        => opc = "notify"

\* Nobody leaves while work is left: a stopped pool runs what was enqueued.
ExitMeansEmpty ==
    (\E w \in Workers : wpc[w] = "exit") => tasks_ = <<>>

\* Every task is run exactly once and they are begun in order, whatever
\* wakes up when.
Promise == INSTANCE TaskPool WITH
    waiting <- tasks_,
    running <- Held \ {NoTask},
    finished <- ready

ImplementsTaskPool == Promise!Spec

\* A future that somebody waits for becomes ready.
FuturesReady == \A t \in Tasks : t \in Submitted ~> t \in ready

\* The destructor returns, unless a worker that looked at stopPool_ before it
\* was set went to sleep after the notification (the flag is set without the
\* mutex).
DestructorReturns == (opc = "join") ~> (opc = "gone" \/ raced)
=============================================================================
