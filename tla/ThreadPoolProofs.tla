-------------------------- MODULE ThreadPoolProofs --------------------------
(***************************************************************************)
(* Proofs about ThreadPool, for any number of workers and tasks: no wakeup *)
(* is lost, nobody leaves while tasks wait, the count of busy workers is   *)
(* right, and the pool runs each task once, in order (TaskPool).           *)
(***************************************************************************)
EXTENDS ThreadPool, FiniteSetTheorems, SequenceTheorems, TLAPS

-----------------------------------------------------------------------------
(* The inductive invariant.                                                *)

\* TypeOK without the bound of activateThreads_, which follows from ActiveCount.
Types ==
    /\ tasks_ \in Seq(Tasks)
    /\ stopPool_ \in BOOLEAN
    /\ mutex_ \in Workers \cup {NoWorker}
    /\ wpc \in [Workers -> WorkerPcs]
    /\ task \in [Workers -> Tasks \cup {NoTask}]
    /\ opc \in OwnerPcs
    /\ inline \in Tasks \cup {NoTask}
    /\ ready \subseteq Tasks
    /\ raced \in BOOLEAN

\* The worker between WorkerLock and its release has the mutex.
Exclusion ==
    \A w \in Workers : wpc[w] \in {"check", "sleep", "take"} <=> mutex_ = w

\* Whoever is said to have a task has one.
Holding ==
    /\ \A w \in Workers : wpc[w] \in {"before", "run"} <=> task[w] # NoTask
    /\ opc = "inline" <=> inline # NoTask

Protocol == Types /\ Exclusion /\ Holding

\* What a worker saw of the queue holds while it has the mutex; the
\* destructor may set stopPool_ meanwhile.
Awareness ==
    /\ opc \in {"stop", "join", "gone"} <=> stopPool_
    /\ \A w \in Workers :
        /\ wpc[w] = "take" => Awake
        /\ wpc[w] = "sleep" => tasks_ = <<>>
        /\ wpc[w] = "exit" => stopPool_ /\ tasks_ = <<>>

\* A task is in one place.
Distinct ==
    /\ \A i, j \in 1 .. Len(tasks_) : tasks_[i] = tasks_[j] => i = j
    /\ \A i \in 1 .. Len(tasks_) : tasks_[i] # inline
    /\ \A i \in 1 .. Len(tasks_), w \in Workers : tasks_[i] # task[w]
    /\ \A w, v \in Workers : task[w] = task[v] => w = v \/ task[w] = NoTask
    /\ \A w \in Workers : task[w] = inline => inline = NoTask

Counted == activateThreads_ \in Nat /\ ActiveCount

IndInv == Protocol /\ Awareness /\ WakeupOwed /\ Distinct /\ Counted

-----------------------------------------------------------------------------

\* The part of ThreadPoolAssumption without Cardinality.
LEMMA Names == Workers # {} /\ NoWorker \notin Workers /\ NoTask \notin Tasks
  BY ThreadPoolAssumption

LEMMA InvInit == Init => IndInv
<1> SUFFICES ASSUME Init PROVE IndInv
  OBVIOUS
<1>1. Protocol /\ Awareness /\ WakeupOwed /\ Distinct
  <2>1. Types
    BY Names, EmptySeq DEF Init, Types, WorkerPcs, OwnerPcs
  <2>2. Exclusion /\ Holding
    BY Names DEF Init, Exclusion, Holding
  <2>3. Awareness /\ WakeupOwed
    BY Names DEF Init, Awareness, Awake, WakeupOwed
  <2>4. Distinct
    BY Names DEF Init, Distinct
  <2> QED
    BY <2>1, <2>2, <2>3, <2>4 DEF Protocol
<1>2. Counted
  <2>1. {w \in Workers : wpc[w] \in {"run", "after"}} = {}
    BY DEF Init
  <2> QED
    BY <2>1, FS_EmptySet DEF Init, Counted, ActiveCount
<1> QED
  BY <1>1, <1>2 DEF IndInv

\* Types, the mutex, and who has a task.
LEMMA ProtocolStep == Protocol /\ Awareness /\ [Next]_vars => Protocol'
<1> SUFFICES ASSUME Protocol, Awareness, [Next]_vars PROVE Protocol'
  OBVIOUS
<1> USE Names
    DEF Protocol, Awareness, Awake, Types, Exclusion, Holding, WorkerPcs,
        OwnerPcs, WorkerGoto, OwnerGoto
<1>1. ASSUME NEW w \in Workers, WorkerLock(w) PROVE Protocol'
  BY <1>1 DEF WorkerLock
<1>2. ASSUME NEW w \in Workers, WorkerCheck(w) PROVE Protocol'
  BY <1>2 DEF WorkerCheck, Awake
<1>3. ASSUME NEW w \in Workers, WorkerSleep(w) PROVE Protocol'
  BY <1>3 DEF WorkerSleep
<1>4. ASSUME NEW w \in Workers, WorkerSpurious(w) PROVE Protocol'
  BY <1>4 DEF WorkerSpurious
<1>5. ASSUME NEW w \in Workers, WorkerTake(w) PROVE Protocol'
  <2>1. CASE stopPool_ /\ tasks_ = <<>>
    BY <1>5, <2>1 DEF WorkerTake
  <2>2. CASE ~(stopPool_ /\ tasks_ = <<>>)
    <3>1. Head(tasks_) \in Tasks /\ Tail(tasks_) \in Seq(Tasks)
      BY <1>5, <2>2, HeadTailProperties DEF WorkerTake
    <3> QED
      BY <1>5, <2>2, <3>1 DEF WorkerTake
  <2> QED
    BY <2>1, <2>2
<1>6. ASSUME NEW w \in Workers, beforeTaskHook(w) PROVE Protocol'
  BY <1>6 DEF beforeTaskHook
<1>7. ASSUME NEW w \in Workers, WorkerRun(w) PROVE Protocol'
  BY <1>7 DEF WorkerRun
<1>8. ASSUME NEW w \in Workers, afterTaskHook(w) PROVE Protocol'
  BY <1>8 DEF afterTaskHook
<1>9. ASSUME NEW w \in Workers, WorkerNotify(w) PROVE Protocol'
  BY <1>9 DEF WorkerNotify
<1>10. ASSUME NEW t \in Tasks, enqueue(t) PROVE Protocol'
  <2>1. Append(tasks_, t) \in Seq(Tasks)
    BY AppendProperties
  <2> QED
    BY <1>10, <2>1 DEF enqueue
<1>11. ASSUME NEW t \in Tasks, spawnInline(t) PROVE Protocol'
  BY <1>11 DEF spawnInline
<1>12. CASE EnqueueNotify
  BY <1>12 DEF EnqueueNotify, notify_one
<1>13. CASE InlineRun
  BY <1>13 DEF InlineRun
<1>14. CASE OwnerGet
  BY <1>14 DEF OwnerGet
<1>15. CASE DestroyStop
  BY <1>15 DEF DestroyStop
<1>16. CASE DestroyNotify
  BY <1>16 DEF DestroyNotify, notify_all
<1>17. CASE DestroyJoin
  BY <1>17 DEF DestroyJoin
<1>18. CASE UNCHANGED vars
  BY <1>18 DEF vars
<1> QED
  BY <1>1, <1>2, <1>3, <1>4, <1>5, <1>6, <1>7, <1>8, <1>9,
     <1>10, <1>11, <1>12, <1>13, <1>14, <1>15, <1>16, <1>17, <1>18
     DEF Next, Owner, Worker

\* The queue changes only under the mutex.
LEMMA AwarenessStep == Protocol /\ Awareness /\ [Next]_vars => Awareness'
<1> SUFFICES ASSUME Protocol, Awareness, [Next]_vars PROVE Awareness'
  OBVIOUS
<1> USE Names
    DEF Protocol, Types, Exclusion, Holding, WorkerPcs, OwnerPcs, WorkerGoto,
        OwnerGoto, Awareness, Awake
<1>1. ASSUME NEW w \in Workers, WorkerLock(w) PROVE Awareness'
  BY <1>1 DEF WorkerLock
<1>2. ASSUME NEW w \in Workers, WorkerCheck(w) PROVE Awareness'
  BY <1>2 DEF WorkerCheck, Awake
<1>3. ASSUME NEW w \in Workers, WorkerSleep(w) PROVE Awareness'
  BY <1>3 DEF WorkerSleep
<1>4. ASSUME NEW w \in Workers, WorkerSpurious(w) PROVE Awareness'
  BY <1>4 DEF WorkerSpurious
<1>5. ASSUME NEW w \in Workers, WorkerTake(w) PROVE Awareness'
  BY <1>5 DEF WorkerTake
<1>6. ASSUME NEW w \in Workers, beforeTaskHook(w) PROVE Awareness'
  BY <1>6 DEF beforeTaskHook
<1>7. ASSUME NEW w \in Workers, WorkerRun(w) PROVE Awareness'
  BY <1>7 DEF WorkerRun
<1>8. ASSUME NEW w \in Workers, afterTaskHook(w) PROVE Awareness'
  BY <1>8 DEF afterTaskHook
<1>9. ASSUME NEW w \in Workers, WorkerNotify(w) PROVE Awareness'
  BY <1>9 DEF WorkerNotify
<1>10. ASSUME NEW t \in Tasks, enqueue(t) PROVE Awareness'
  BY <1>10 DEF enqueue
<1>11. ASSUME NEW t \in Tasks, spawnInline(t) PROVE Awareness'
  BY <1>11 DEF spawnInline
<1>12. CASE EnqueueNotify
  BY <1>12 DEF EnqueueNotify, notify_one
<1>13. CASE InlineRun
  BY <1>13 DEF InlineRun
<1>14. CASE OwnerGet
  BY <1>14 DEF OwnerGet
<1>15. CASE DestroyStop
  BY <1>15 DEF DestroyStop
<1>16. CASE DestroyNotify
  BY <1>16 DEF DestroyNotify, notify_all
<1>17. CASE DestroyJoin
  BY <1>17 DEF DestroyJoin
<1>18. CASE UNCHANGED vars
  BY <1>18 DEF vars
<1> QED
  BY <1>1, <1>2, <1>3, <1>4, <1>5, <1>6, <1>7, <1>8, <1>9,
     <1>10, <1>11, <1>12, <1>13, <1>14, <1>15, <1>16, <1>17, <1>18
     DEF Next, Owner, Worker

\* enqueue's notification reaches a sleeper, or somebody is awake.
LEMMA WakeupStep ==
  Protocol /\ Awareness /\ WakeupOwed /\ [Next]_vars => WakeupOwed'
<1> SUFFICES ASSUME Protocol, Awareness, WakeupOwed, [Next]_vars
             PROVE  WakeupOwed'
  OBVIOUS
<1> USE Names
    DEF Protocol, Types, Exclusion, Holding, WorkerPcs, OwnerPcs, WorkerGoto,
        OwnerGoto, Awareness, Awake, WakeupOwed
<1>1. ASSUME NEW w \in Workers, WorkerLock(w) PROVE WakeupOwed'
  BY <1>1 DEF WorkerLock
<1>2. ASSUME NEW w \in Workers, WorkerCheck(w) PROVE WakeupOwed'
  BY <1>2 DEF WorkerCheck, Awake
<1>3. ASSUME NEW w \in Workers, WorkerSleep(w) PROVE WakeupOwed'
  BY <1>3 DEF WorkerSleep
<1>4. ASSUME NEW w \in Workers, WorkerSpurious(w) PROVE WakeupOwed'
  BY <1>4 DEF WorkerSpurious
<1>5. ASSUME NEW w \in Workers, WorkerTake(w) PROVE WakeupOwed'
  BY <1>5 DEF WorkerTake
<1>6. ASSUME NEW w \in Workers, beforeTaskHook(w) PROVE WakeupOwed'
  BY <1>6 DEF beforeTaskHook
<1>7. ASSUME NEW w \in Workers, WorkerRun(w) PROVE WakeupOwed'
  BY <1>7 DEF WorkerRun
<1>8. ASSUME NEW w \in Workers, afterTaskHook(w) PROVE WakeupOwed'
  BY <1>8 DEF afterTaskHook
<1>9. ASSUME NEW w \in Workers, WorkerNotify(w) PROVE WakeupOwed'
  BY <1>9 DEF WorkerNotify
<1>10. ASSUME NEW t \in Tasks, enqueue(t) PROVE WakeupOwed'
  BY <1>10 DEF enqueue
<1>11. ASSUME NEW t \in Tasks, spawnInline(t) PROVE WakeupOwed'
  BY <1>11 DEF spawnInline
<1>12. CASE EnqueueNotify
  BY <1>12 DEF EnqueueNotify, notify_one
<1>13. CASE InlineRun
  BY <1>13 DEF InlineRun
<1>14. CASE OwnerGet
  BY <1>14 DEF OwnerGet
<1>15. CASE DestroyStop
  BY <1>15 DEF DestroyStop
<1>16. CASE DestroyNotify
  BY <1>16 DEF DestroyNotify, notify_all
<1>17. CASE DestroyJoin
  BY <1>17 DEF DestroyJoin
<1>18. CASE UNCHANGED vars
  BY <1>18 DEF vars
<1> QED
  BY <1>1, <1>2, <1>3, <1>4, <1>5, <1>6, <1>7, <1>8, <1>9,
     <1>10, <1>11, <1>12, <1>13, <1>14, <1>15, <1>16, <1>17, <1>18
     DEF Next, Owner, Worker

\* Only a task that is nowhere is handed over.
LEMMA DistinctStep ==
  Protocol /\ Awareness /\ Distinct /\ [Next]_vars => Distinct'
<1> SUFFICES ASSUME Protocol, Awareness, Distinct, [Next]_vars
             PROVE  Distinct'
  OBVIOUS
<1> USE Names
    DEF Protocol, Types, Exclusion, Holding, WorkerPcs, OwnerPcs, WorkerGoto,
        OwnerGoto, Awareness, Awake, Distinct
<1>1. ASSUME NEW w \in Workers, WorkerLock(w) PROVE Distinct'
  BY <1>1 DEF WorkerLock
<1>2. ASSUME NEW w \in Workers, WorkerCheck(w) PROVE Distinct'
  BY <1>2 DEF WorkerCheck, Awake
<1>3. ASSUME NEW w \in Workers, WorkerSleep(w) PROVE Distinct'
  BY <1>3 DEF WorkerSleep
<1>4. ASSUME NEW w \in Workers, WorkerSpurious(w) PROVE Distinct'
  BY <1>4 DEF WorkerSpurious
<1>5. ASSUME NEW w \in Workers, WorkerTake(w) PROVE Distinct'
  <2>1. CASE stopPool_ /\ tasks_ = <<>>
    BY <1>5, <2>1 DEF WorkerTake
  <2>2. CASE ~(stopPool_ /\ tasks_ = <<>>)
    <3>1. /\ Head(tasks_) = tasks_[1]
          /\ Len(Tail(tasks_)) = Len(tasks_) - 1
          /\ Len(tasks_) \in Nat \ {0}
          /\ \A i \in 1 .. Len(Tail(tasks_)) : Tail(tasks_)[i] = tasks_[i + 1]
      BY <1>5, <2>2, HeadTailProperties, EmptySeq, LenProperties
         DEF WorkerTake
    <3>2. /\ tasks_' = Tail(tasks_)
          /\ task' = [task EXCEPT ![w] = tasks_[1]]
          /\ inline' = inline
      BY <1>5, <2>2, <3>1 DEF WorkerTake
    <3>3. \A i \in 1 .. Len(tasks_') :
             /\ i + 1 \in 1 .. Len(tasks_)
             /\ i + 1 # 1
             /\ tasks_'[i] = tasks_[i + 1]
      BY <3>1, <3>2
    <3>4. 1 \in 1 .. Len(tasks_)
      BY <3>1
    <3>5. \A i, j \in 1 .. Len(tasks_') : tasks_'[i] = tasks_'[j] => i = j
      <4> SUFFICES ASSUME NEW i \in 1 .. Len(tasks_'),
                          NEW j \in 1 .. Len(tasks_'),
                          tasks_'[i] = tasks_'[j]
                   PROVE  i = j
        OBVIOUS
      <4>1. i + 1 = j + 1
        BY <3>3
      <4> QED
        BY <4>1, <3>1, <3>2
    <3>6. \A v \in Workers : task'[v] = IF v = w THEN tasks_[1] ELSE task[v]
      BY <3>2
    <3>7. \A i \in 1 .. Len(tasks_'), v \in Workers : tasks_'[i] # task'[v]
      BY <3>3, <3>4, <3>6
    <3> QED
      BY <3>2, <3>3, <3>4, <3>5, <3>6, <3>7
  <2> QED
    BY <2>1, <2>2
<1>6. ASSUME NEW w \in Workers, beforeTaskHook(w) PROVE Distinct'
  BY <1>6 DEF beforeTaskHook
<1>7. ASSUME NEW w \in Workers, WorkerRun(w) PROVE Distinct'
  BY <1>7 DEF WorkerRun
<1>8. ASSUME NEW w \in Workers, afterTaskHook(w) PROVE Distinct'
  BY <1>8 DEF afterTaskHook
<1>9. ASSUME NEW w \in Workers, WorkerNotify(w) PROVE Distinct'
  BY <1>9 DEF WorkerNotify
<1>10. ASSUME NEW t \in Tasks, enqueue(t) PROVE Distinct'
  <2>1. /\ Len(Append(tasks_, t)) = Len(tasks_) + 1
        /\ Len(tasks_) \in Nat
        /\ Append(tasks_, t)[Len(tasks_) + 1] = t
        /\ \A i \in 1 .. Len(tasks_) : Append(tasks_, t)[i] = tasks_[i]
    BY AppendProperties, LenProperties
  <2>2. /\ \A i \in 1 .. Len(tasks_) : tasks_[i] # t
        /\ \A w \in Workers : task[w] # t
        /\ inline # t
    BY <1>10 DEF enqueue, Submitted, InQueue, Held
  <2> QED
    BY <1>10, <2>1, <2>2 DEF enqueue
<1>11. ASSUME NEW t \in Tasks, spawnInline(t) PROVE Distinct'
  <2>1. /\ \A i \in 1 .. Len(tasks_) : tasks_[i] # t
        /\ \A w \in Workers : task[w] # t
    BY <1>11 DEF spawnInline, Submitted, InQueue, Held
  <2> QED
    BY <1>11, <2>1 DEF spawnInline
<1>12. CASE EnqueueNotify
  BY <1>12 DEF EnqueueNotify, notify_one
<1>13. CASE InlineRun
  BY <1>13 DEF InlineRun
<1>14. CASE OwnerGet
  BY <1>14 DEF OwnerGet
<1>15. CASE DestroyStop
  BY <1>15 DEF DestroyStop
<1>16. CASE DestroyNotify
  BY <1>16 DEF DestroyNotify, notify_all
<1>17. CASE DestroyJoin
  BY <1>17 DEF DestroyJoin
<1>18. CASE UNCHANGED vars
  BY <1>18 DEF vars
<1> QED
  BY <1>1, <1>2, <1>3, <1>4, <1>5, <1>6, <1>7, <1>8, <1>9,
     <1>10, <1>11, <1>12, <1>13, <1>14, <1>15, <1>16, <1>17, <1>18
     DEF Next, Owner, Worker

-----------------------------------------------------------------------------
(* The count of busy workers.                                              *)

Running == {w \in Workers : wpc[w] \in {"run", "after"}}

\* A step that moves no worker into or out of Running leaves the count.
LEMMA CountedSame ==
  ASSUME Counted, Running' = Running, activateThreads_' = activateThreads_
  PROVE  Counted'
  BY DEF Counted, ActiveCount, Running

LEMMA RunningFinite ==
  IsFiniteSet(Running) /\ Cardinality(Running) \in 0 .. capacity_
<1>1. Running \subseteq Workers /\ IsFiniteSet(Workers)
  BY ThreadPoolAssumption DEF Running
<1> QED
  BY <1>1, FS_Subset, FS_CardinalityType DEF capacity_

\* The hooks count a worker once on its way in and once on its way out.
LEMMA CountedStep == Protocol /\ Counted /\ [Next]_vars => Counted'
<1> SUFFICES ASSUME Protocol, Counted, [Next]_vars PROVE Counted'
  OBVIOUS
<1>1. ASSUME NEW w \in Workers, beforeTaskHook(w) PROVE Counted'
  <2>1. Running' = Running \cup {w} /\ w \notin Running
    BY <1>1 DEF beforeTaskHook, WorkerGoto, Running, Protocol, Types
  <2>2. Cardinality(Running') = Cardinality(Running) + 1
    BY <2>1, RunningFinite, FS_AddElement
  <2> QED
    BY <1>1, <2>2 DEF beforeTaskHook, Counted, ActiveCount, Running
<1>2. ASSUME NEW w \in Workers, afterTaskHook(w) PROVE Counted'
  <2>1. Running' = Running \ {w} /\ w \in Running
    BY <1>2 DEF afterTaskHook, WorkerGoto, Running, Protocol, Types
  <2>2. /\ Cardinality(Running') = Cardinality(Running) - 1
        /\ IsFiniteSet(Running')
    BY <2>1, RunningFinite, FS_RemoveElement
  <2>3. Cardinality(Running') \in Nat
    BY <2>2, FS_CardinalityType
  <2> QED
    BY <1>2, <2>2, <2>3 DEF afterTaskHook, Counted, ActiveCount, Running
<1>3. ASSUME NEW w \in Workers,
             \/ WorkerLock(w) \/ WorkerCheck(w) \/ WorkerSleep(w)
             \/ WorkerSpurious(w) \/ WorkerTake(w) \/ WorkerRun(w)
             \/ WorkerNotify(w)
      PROVE  Counted'
  <2>1. Running' = Running /\ activateThreads_' = activateThreads_
    BY <1>3
       DEF WorkerLock, WorkerCheck, WorkerSleep, WorkerSpurious, WorkerTake,
           WorkerRun, WorkerNotify, WorkerGoto, Running, Protocol, Types
  <2> QED
    BY <2>1, CountedSame
<1>4. CASE Owner
  <2>1. Running' = Running /\ activateThreads_' = activateThreads_
    BY <1>4
       DEF Owner, enqueue, spawnInline, EnqueueNotify, InlineRun, OwnerGet,
           DestroyStop, DestroyNotify, DestroyJoin, OwnerGoto, notify_one,
           notify_all, Running, Protocol, Types
  <2> QED
    BY <2>1, CountedSame
<1>5. CASE UNCHANGED vars
  BY <1>5, CountedSame DEF vars, Running
<1> QED
  BY <1>1, <1>2, <1>3, <1>4, <1>5 DEF Next, Worker

LEMMA Inductive == Spec => []IndInv
<1>1. Init => IndInv
  BY InvInit
<1>2. IndInv /\ [Next]_vars => IndInv'
  BY ProtocolStep, AwarenessStep, WakeupStep, DistinctStep, CountedStep
     DEF IndInv
<1> QED
  BY <1>1, <1>2, PTL DEF Spec

-----------------------------------------------------------------------------
(* The theorems.                                                           *)

\* Every variable keeps its type; in particular activateThreads_, unsigned in
\* the code, never goes below 0 or above the number of workers.
THEOREM TypeCorrect == Spec => []TypeOK
<1>1. IndInv => TypeOK
  <2>1. Counted => activateThreads_ \in 0 .. capacity_
    BY RunningFinite DEF Counted, ActiveCount, Running
  <2> QED
    BY <2>1 DEF IndInv, Protocol, Types, TypeOK
<1> QED
  BY <1>1, Inductive, PTL

\* spawn's count of busy workers is right, whatever the order of the hooks.
THEOREM ActiveCountHolds == Spec => []ActiveCount
  BY Inductive, PTL DEF IndInv, Counted

\* No wakeup is lost: tasks in the queue have a worker awake to take them,
\* or the owner is about to notify one.
THEOREM WakeupOwedHolds == Spec => []WakeupOwed
  BY Inductive, PTL DEF IndInv

\* A worker leaves waitLoop only with the queue empty, and it stays empty.
THEOREM ExitMeansEmptyHolds == Spec => []ExitMeansEmpty
<1>1. IndInv => ExitMeansEmpty
  BY DEF IndInv, Awareness, ExitMeansEmpty
<1> QED
  BY <1>1, Inductive, PTL

-----------------------------------------------------------------------------
(* What the liveness of the pool rests on: it is never stuck.              *)

\* While the destructor joins, only a worker that raced with it is asleep.
SleepersRaced ==
    opc = "join" => \A w \in Workers : wpc[w] = "asleep" => raced

LEMMA SleepersRacedStep ==
  IndInv /\ SleepersRaced /\ [Next]_vars => SleepersRaced'
<1> SUFFICES ASSUME IndInv, SleepersRaced, [Next]_vars PROVE SleepersRaced'
  OBVIOUS
<1>0. wpc \in [Workers -> WorkerPcs]
  BY DEF IndInv, Protocol, Types
<1>1. CASE DestroyNotify
  BY <1>0, <1>1 DEF DestroyNotify, notify_all, SleepersRaced
<1>2. CASE Owner /\ ~DestroyNotify
  BY <1>2 DEF Owner, enqueue, spawnInline, EnqueueNotify, InlineRun, OwnerGet,
              DestroyStop, DestroyJoin, OwnerGoto, SleepersRaced
<1>3. ASSUME NEW w \in Workers, WorkerSleep(w) PROVE SleepersRaced'
  BY <1>0, <1>3 DEF WorkerSleep, WorkerGoto, SleepersRaced
<1>4. ASSUME NEW w \in Workers,
             \/ WorkerLock(w) \/ WorkerCheck(w) \/ WorkerTake(w)
             \/ WorkerSpurious(w) \/ beforeTaskHook(w) \/ WorkerRun(w)
             \/ afterTaskHook(w) \/ WorkerNotify(w)
      PROVE  SleepersRaced'
  <2>1. /\ opc' = opc /\ raced' = raced
        /\ \A v \in Workers : wpc'[v] = "asleep" => wpc[v] = "asleep"
    BY <1>0, <1>4
       DEF WorkerLock, WorkerCheck, WorkerTake, WorkerSpurious,
           beforeTaskHook, WorkerRun, afterTaskHook, WorkerNotify, WorkerGoto
  <2> QED
    BY <2>1 DEF SleepersRaced
<1>5. CASE UNCHANGED vars
  BY <1>5 DEF vars, SleepersRaced
<1> QED
  BY <1>1, <1>2, <1>3, <1>4, <1>5 DEF Next, Worker

\* A worker that has not left and waits for nobody.
CanGoOn(w) ==
    /\ wpc[w] \notin {"asleep", "exit"}
    /\ wpc[w] = "lock" => mutex_ = NoWorker

\* Who waits for the mutex waits for a worker that can go on.
LEMMA SomebodyCan ==
  ASSUME IndInv, NEW w \in Workers, wpc[w] \notin {"asleep", "exit"}
  PROVE  \E v \in Workers : CanGoOn(v)
<1>1. CASE wpc[w] = "lock" /\ mutex_ # NoWorker
  <2>1. mutex_ \in Workers /\ wpc[mutex_] \in {"check", "sleep", "take"}
    BY <1>1 DEF IndInv, Protocol, Types, Exclusion
  <2> QED
    BY <2>1 DEF CanGoOn
<1>2. CASE ~(wpc[w] = "lock" /\ mutex_ # NoWorker)
  BY <1>2 DEF CanGoOn
<1> QED
  BY <1>1, <1>2

\* The destructor is never stuck: unless a worker raced with it, all have left
\* and it returns, or one of them has a step to take.
THEOREM DestructorNotStuck ==
  Spec => [](opc = "join" /\ ~raced =>
                \/ \A w \in Workers : wpc[w] = "exit"
                \/ \E w \in Workers : CanGoOn(w))
<1>1. Init => SleepersRaced
  BY DEF Init, SleepersRaced
<1>2. Spec => []SleepersRaced
  BY <1>1, SleepersRacedStep, Inductive, PTL DEF Spec
<1>3. IndInv /\ SleepersRaced =>
        (opc = "join" /\ ~raced => \/ \A w \in Workers : wpc[w] = "exit"
                                  \/ \E w \in Workers : CanGoOn(w))
  BY SomebodyCan DEF SleepersRaced
<1> QED
  BY <1>2, <1>3, Inductive, PTL

\* A future is never stuck: while a task that was handed over has not run, a
\* worker has a step to take, or the owner is in a call that it finishes.
THEOREM FuturesNotStuck ==
  Spec => [](Submitted # ready =>
                \/ opc \in {"notify", "inline"}
                \/ \E w \in Workers : CanGoOn(w))
<1>1. ASSUME IndInv, Submitted # ready, opc \notin {"notify", "inline"}
      PROVE  \E w \in Workers : CanGoOn(w)
  <2>1. PICK t \in InQueue \cup (Held \ {NoTask}) : t \notin ready
    BY <1>1 DEF Submitted
  <2>2. CASE t \in InQueue
    <3>1. tasks_ # <<>>
      BY <2>2 DEF InQueue
    <3>2. \E w \in Workers : wpc[w] \notin {"asleep", "exit"}
      BY <1>1, <3>1 DEF IndInv, WakeupOwed
    <3> QED
      BY <1>1, <3>2, SomebodyCan
  <2>3. CASE t \in Held \ {NoTask}
    <3>1. inline = NoTask
      BY <1>1 DEF IndInv, Protocol, Holding
    <3>2. PICK w \in Workers : task[w] # NoTask
      BY <2>3, <3>1 DEF Held
    <3>3. wpc[w] \in {"before", "run"}
      BY <1>1, <3>2 DEF IndInv, Protocol, Holding
    <3> QED
      BY <3>3 DEF CanGoOn
  <2> QED
    BY <2>1, <2>2, <2>3
<1>2. IndInv =>
        (Submitted # ready => \/ opc \in {"notify", "inline"}
                              \/ \E w \in Workers : CanGoOn(w))
  BY <1>1
<1> QED
  BY <1>2, Inductive, PTL

-----------------------------------------------------------------------------
(* The pool implements TaskPool.                                           *)

BeingRun == Held \ {NoTask}

pvars == <<tasks_, BeingRun, ready>>

LEMMA PromiseInit == Init => Promise!Init
  BY ThreadPoolAssumption DEF Init, Promise!Init, Held

\* Taking a task begins it, running it finishes it; the rest is stuttering.
LEMMA PromiseStep ==
  IndInv /\ [Next]_vars => Promise!Next \/ UNCHANGED pvars
<1> SUFFICES ASSUME IndInv, [Next]_vars
             PROVE  Promise!Next \/ UNCHANGED pvars
  OBVIOUS
<1> USE Names DEF IndInv, Protocol, Types
<1>1. ASSUME NEW w \in Workers, WorkerTake(w), ~(stopPool_ /\ tasks_ = <<>>)
      PROVE  Promise!Begin
  <2>1. tasks_ # <<>> /\ wpc[w] = "take" /\ task[w] = NoTask
    BY <1>1 DEF WorkerTake, WorkerGoto, Awareness, Awake, Holding
  <2>2. Head(tasks_) \in Tasks
    BY <2>1, HeadTailProperties
  <2>3. task' = [task EXCEPT ![w] = Head(tasks_)] /\ inline' = inline
    BY <1>1 DEF WorkerTake, WorkerGoto
  <2>4. BeingRun' = BeingRun \cup {Head(tasks_)}
    BY <2>1, <2>2, <2>3 DEF BeingRun, Held
  <2> QED
    BY <1>1, <2>1, <2>4 DEF WorkerTake, Promise!Begin, BeingRun
<1>2. ASSUME NEW w \in Workers, WorkerTake(w), stopPool_ /\ tasks_ = <<>>
      PROVE  UNCHANGED pvars
  BY <1>2 DEF WorkerTake, WorkerGoto, pvars, BeingRun, Held
<1>3. ASSUME NEW w \in Workers, WorkerRun(w)
      PROVE  task[w] \in Tasks /\ Promise!Finish(task[w])
  <2>1. task[w] # NoTask /\ task[w] \in Tasks
    BY <1>3 DEF WorkerRun, WorkerGoto, Holding
  <2>2. task' = [task EXCEPT ![w] = NoTask] /\ inline' = inline
    BY <1>3 DEF WorkerRun, WorkerGoto
  <2>3. inline # task[w] /\ \A v \in Workers \ {w} : task[v] # task[w]
    BY <2>1 DEF Distinct
  <2>4. BeingRun' = BeingRun \ {task[w]} /\ task[w] \in BeingRun
    BY <2>1, <2>2, <2>3 DEF BeingRun, Held
  <2> QED
    BY <1>3, <2>1, <2>4 DEF WorkerRun, Promise!Finish, BeingRun
<1>4. CASE InlineRun
  <2>1. inline # NoTask /\ inline \in Tasks
    BY <1>4 DEF InlineRun, OwnerGoto, Holding
  <2>2. inline' = NoTask /\ task' = task
    BY <1>4 DEF InlineRun, OwnerGoto
  <2>3. \A v \in Workers : task[v] # inline
    BY <2>1 DEF Distinct
  <2>4. BeingRun' = BeingRun \ {inline} /\ inline \in BeingRun
    BY <2>1, <2>2, <2>3 DEF BeingRun, Held
  <2>5. Promise!Finish(inline)
    BY <1>4, <2>4 DEF InlineRun, Promise!Finish, BeingRun
  <2> QED
    BY <2>1, <2>5 DEF Promise!Next
<1>5. ASSUME NEW t \in Tasks, enqueue(t) PROVE Promise!Submit(t)
  BY <1>5
     DEF enqueue, OwnerGoto, Promise!Submit, Promise!New, Submitted, InQueue,
         Held
<1>6. ASSUME NEW t \in Tasks, spawnInline(t) PROVE Promise!RunInline(t)
  <2>1. inline = NoTask /\ inline' = t /\ task' = task
    BY <1>6 DEF spawnInline, OwnerGoto, Holding
  <2>2. BeingRun' = BeingRun \cup {t}
    BY <2>1 DEF BeingRun, Held
  <2> QED
    BY <1>6, <2>2
       DEF spawnInline, Promise!RunInline, Promise!New, Submitted, InQueue,
           BeingRun
<1>7. ASSUME NEW w \in Workers,
             \/ WorkerLock(w) \/ WorkerCheck(w) \/ WorkerSleep(w)
             \/ WorkerSpurious(w) \/ beforeTaskHook(w) \/ afterTaskHook(w)
             \/ WorkerNotify(w)
      PROVE  UNCHANGED pvars
  BY <1>7
     DEF WorkerLock, WorkerCheck, WorkerSleep, WorkerSpurious, beforeTaskHook,
         afterTaskHook, WorkerNotify, WorkerGoto, pvars, BeingRun, Held
<1>8. CASE EnqueueNotify \/ OwnerGet \/ DestroyStop \/ DestroyNotify
           \/ DestroyJoin \/ UNCHANGED vars
  BY <1>8
     DEF EnqueueNotify, OwnerGet, DestroyStop, DestroyNotify, DestroyJoin,
         OwnerGoto, vars, pvars, BeingRun, Held
<1> QED
  BY <1>1, <1>2, <1>3, <1>4, <1>5, <1>6, <1>7, <1>8
     DEF Next, Owner, Worker, Promise!Next

\* ThreadPool keeps TaskPool's promise: each task that enqueue or spawn
\* accepts is run once, and the workers begin them in the queue's order.
THEOREM ThreadPoolImplementsTaskPool == Spec => ImplementsTaskPool
<1>1. IndInv /\ [Next]_vars => [Promise!Next]_pvars
  BY PromiseStep
<1> QED
  BY <1>1, PromiseInit, Inductive, PTL
     DEF Spec, ImplementsTaskPool, Promise!Spec, pvars, BeingRun
=============================================================================
