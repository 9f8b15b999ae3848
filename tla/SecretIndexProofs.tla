------------------------- MODULE SecretIndexProofs -------------------------
(***************************************************************************)
(* Proofs about SecretIndex, for any number of requests, strings, seconds  *)
(* and faults: an index that was handed out stays guarded, is not found    *)
(* free again, and its counter is reset once.                              *)
(***************************************************************************)
EXTENDS SecretIndex, SequenceTheorems, TLAPS

-----------------------------------------------------------------------------
(* The inductive invariant.                                                *)

\* What the generator has published of the message it works on: nothing
\* before GeneratorTime, and the counter only after the creation time.
Publishing ==
    /\ \A s \in Sources : count[s] \subseteq time[s]
    /\ gpc \in {"work", "time"} => msg.index \notin time[msg.source]
    /\ gpc \in {"count", "unlock"} => msg.index \in time[msg.source]

\* A request that a look-up has seen never draws again.
SeenStays ==
    \A h \in Requests :
        hpc[h] \in {"zscore", "set", "push", "ok", "pushed"} =>
            \A o \in seen[h] : hpc[o] \in {"push", "ok", "pushed", "failed"}

\* An index somebody else had, and that was found without a lock, is
\* published, so the second look finds it; who passed that look is alone.
LookedUp ==
    \A h \in Requests : \A o \in seen[h] :
        /\ hpc[h] = "zscore" /\ randomStr[o] = randomStr[h] =>
                randomStr[h] \in time["server"]
        /\ hpc[h] \in {"set", "push", "ok", "pushed"} =>
                randomStr[o] # randomStr[h]

\* A request past its draw has a string.
Drawn ==
    \A h \in Requests :
        hpc[h] \in {"get", "zscore", "set", "push", "ok", "pushed"} =>
            randomStr[h] \in Indexes

TypeInv == TypeOK /\ Drawn

Once == Publishing /\ CounterResetOnce
LookUps == SeenStays /\ LookedUp

IndInv ==
    /\ TypeInv
    /\ Once
    /\ IndexGuarded
    /\ LookUps

-----------------------------------------------------------------------------

LEMMA InvInit == Init => IndInv
  BY SecretIndexAssumption
     DEF Init, IndInv, TypeInv, TypeOK, Drawn, Once, Publishing,
         IndexGuarded, CounterResetOnce,
         LookUps, SeenStays, LookedUp, Taken, HandlerPcs, Sources

\* Every step keeps the types.
LEMMA TypeStep == TypeInv /\ [Next]_vars => TypeInv'
<1> SUFFICES ASSUME TypeInv, [Next]_vars PROVE TypeInv'
  OBVIOUS
<1> USE SecretIndexAssumption
    DEF TypeInv, TypeOK, Drawn, HandlerPcs, Sources, Messages, HandlerGoto,
        GeneratorGoto, handlerVars, generatorVars
<1>1. CASE Tick
  BY <1>1 DEF Tick
<1>2. ASSUME NEW h \in Requests, HandlerArrive(h) PROVE TypeInv'
  BY <1>2 DEF HandlerArrive
<1>3. ASSUME NEW h \in Requests, HandlerName(h) PROVE TypeInv'
  <2>1. genRandomStr(h) \subseteq Indexes
    BY DEF genRandomStr
  <2> QED
    BY <1>3, <2>1 DEF HandlerName
<1>4. ASSUME NEW h \in Requests, HandlerGet(h) PROVE TypeInv'
  BY <1>4 DEF HandlerGet, Taken
<1>5. ASSUME NEW h \in Requests, HandlerZscore(h) PROVE TypeInv'
  BY <1>5 DEF HandlerZscore
<1>6. ASSUME NEW h \in Requests, HandlerSet(h) PROVE TypeInv'
  BY <1>6 DEF HandlerSet
<1>7. ASSUME NEW h \in Requests, HandlerPush(h) PROVE TypeInv'
  BY <1>7 DEF HandlerPush
<1>8. ASSUME NEW h \in Requests, ClientPush(h) PROVE TypeInv'
  BY <1>8 DEF ClientPush
<1>9. ASSUME NEW h \in Requests, RequestFails(h) PROVE TypeInv'
  BY <1>9 DEF RequestFails, Busy
<1>10. CASE GeneratorPop
  <2>1. Head(list) \in Messages /\ Tail(list) \in Seq(Messages)
    <3> HIDE DEF Messages
    <3> QED
      BY <1>10, HeadTailProperties DEF GeneratorPop
  <2> QED
    <3> HIDE DEF Messages
    <3> QED
      BY <1>10, <2>1 DEF GeneratorPop
<1>11. CASE GeneratorCheck
  BY <1>11 DEF GeneratorCheck
<1>12. CASE GeneratorWork
  BY <1>12 DEF GeneratorWork
<1>13. CASE GeneratorTime
  BY <1>13 DEF GeneratorTime
<1>14. CASE GeneratorCount
  BY <1>14 DEF GeneratorCount
<1>15. CASE GeneratorUnlock
  BY <1>15 DEF GeneratorUnlock
<1>16. CASE GeneratorFails
  BY <1>16 DEF GeneratorFails
<1>17. CASE UNCHANGED vars
  BY <1>17 DEF vars
<1> QED
  BY <1>1, <1>2, <1>3, <1>4, <1>5, <1>6, <1>7, <1>8,
     <1>9, <1>10, <1>11, <1>12, <1>13, <1>14, <1>15, <1>16, <1>17
     DEF Next, Request, Generator

\* The generator publishes a message's index in order and once.
LEMMA PublishingStep == IndInv /\ [Next]_vars => Once'
<1> SUFFICES ASSUME IndInv, [Next]_vars PROVE Once'
  OBVIOUS
<1> USE SecretIndexAssumption
    DEF IndInv, TypeInv, TypeOK, Drawn, HandlerPcs, Sources, Messages,
        HandlerGoto, GeneratorGoto, handlerVars, generatorVars, Once,
        Publishing, CounterResetOnce
<1>1. CASE Tick \/ UNCHANGED vars
  BY <1>1 DEF Tick, vars
<1>2. ASSUME NEW h \in Requests,
             HandlerArrive(h) \/ Request(h) \/ RequestFails(h)
      PROVE  Once'
  BY <1>2 DEF Request, HandlerArrive, HandlerName, HandlerGet, HandlerZscore,
     HandlerSet, HandlerPush, ClientPush, RequestFails
<1>3. CASE GeneratorPop
  BY <1>3 DEF GeneratorPop
<1>4. CASE GeneratorCheck
  BY <1>4 DEF GeneratorCheck
<1>5. CASE GeneratorWork
  BY <1>5 DEF GeneratorWork
<1>6. CASE GeneratorTime
  BY <1>6 DEF GeneratorTime
<1>7. CASE GeneratorCount
  BY <1>7 DEF GeneratorCount
<1>8. CASE GeneratorUnlock
  BY <1>8 DEF GeneratorUnlock
<1>9. CASE GeneratorFails
  BY <1>9 DEF GeneratorFails
<1> QED
  BY <1>1, <1>2, <1>3, <1>4, <1>5, <1>6, <1>7, <1>8,
     <1>9
     DEF Next, Generator

\* A lock goes only when its index is published for the server.
LEMMA GuardedStep == IndInv /\ [Next]_vars => IndexGuarded'
<1> SUFFICES ASSUME IndInv, [Next]_vars PROVE IndexGuarded'
  OBVIOUS
<1> USE SecretIndexAssumption
    DEF IndInv, TypeInv, TypeOK, Drawn, HandlerPcs, Sources, Messages,
        HandlerGoto, GeneratorGoto, handlerVars, generatorVars, Once,
        Publishing, IndexGuarded, Taken
<1>1. CASE Tick \/ UNCHANGED vars
  BY <1>1 DEF Tick, vars
<1>2. ASSUME NEW h \in Requests, HandlerArrive(h) PROVE IndexGuarded'
  BY <1>2 DEF HandlerArrive
<1>3. ASSUME NEW h \in Requests, HandlerName(h) PROVE IndexGuarded'
  BY <1>3 DEF HandlerName
<1>4. ASSUME NEW h \in Requests, HandlerGet(h) PROVE IndexGuarded'
  BY <1>4 DEF HandlerGet
<1>5. ASSUME NEW h \in Requests, HandlerZscore(h) PROVE IndexGuarded'
  BY <1>5 DEF HandlerZscore
<1>6. ASSUME NEW h \in Requests, HandlerSet(h) PROVE IndexGuarded'
  BY <1>6 DEF HandlerSet
<1>7. ASSUME NEW h \in Requests, HandlerPush(h) PROVE IndexGuarded'
  BY <1>7 DEF HandlerPush
<1>8. ASSUME NEW h \in Requests, ClientPush(h) PROVE IndexGuarded'
  BY <1>8 DEF ClientPush
<1>9. ASSUME NEW h \in Requests, RequestFails(h) PROVE IndexGuarded'
  BY <1>9 DEF RequestFails, Busy
<1>10. CASE GeneratorTime
  BY <1>10 DEF GeneratorTime
<1>11. CASE GeneratorUnlock
  BY <1>11 DEF GeneratorUnlock
<1>12. CASE GeneratorPop \/ GeneratorCheck \/ GeneratorWork
           \/ GeneratorCount \/ GeneratorFails
  BY <1>12 DEF GeneratorPop, GeneratorCheck, GeneratorWork, GeneratorCount,
     GeneratorFails
<1> QED
  BY <1>1, <1>2, <1>3, <1>4, <1>5, <1>6, <1>7, <1>8,
     <1>9, <1>10, <1>11, <1>12
     DEF Next, Request, Generator

\* The look-ups: a lock first, then the publication that replaces it.
LEMMA LookedUpStep == IndInv /\ [Next]_vars => LookUps'
<1> SUFFICES ASSUME IndInv, [Next]_vars PROVE LookUps'
  OBVIOUS
<1> USE SecretIndexAssumption
    DEF IndInv, TypeInv, TypeOK, Drawn, HandlerPcs, Sources, Messages,
        HandlerGoto, GeneratorGoto, handlerVars, generatorVars, IndexGuarded,
        Taken, LookUps, SeenStays, LookedUp
<1>1. CASE Tick \/ UNCHANGED vars
  BY <1>1 DEF Tick, vars
<1>2. ASSUME NEW h \in Requests, HandlerArrive(h) PROVE LookUps'
  BY <1>2 DEF HandlerArrive
<1>3. ASSUME NEW h \in Requests, HandlerName(h) PROVE LookUps'
  BY <1>3 DEF HandlerName
<1>4. ASSUME NEW h \in Requests, HandlerGet(h) PROVE LookUps'
  BY <1>4 DEF HandlerGet
<1>5. ASSUME NEW h \in Requests, HandlerZscore(h) PROVE LookUps'
  BY <1>5 DEF HandlerZscore
<1>6. ASSUME NEW h \in Requests, HandlerSet(h) PROVE LookUps'
  BY <1>6 DEF HandlerSet
<1>7. ASSUME NEW h \in Requests, HandlerPush(h) PROVE LookUps'
  BY <1>7 DEF HandlerPush
<1>8. ASSUME NEW h \in Requests, ClientPush(h) PROVE LookUps'
  BY <1>8 DEF ClientPush
<1>9. ASSUME NEW h \in Requests, RequestFails(h) PROVE LookUps'
  BY <1>9 DEF RequestFails, Busy
<1>10. CASE GeneratorTime
  BY <1>10 DEF GeneratorTime
<1>11. CASE GeneratorPop \/ GeneratorCheck \/ GeneratorWork
           \/ GeneratorCount \/ GeneratorUnlock \/ GeneratorFails
  BY <1>11 DEF GeneratorPop, GeneratorCheck, GeneratorWork, GeneratorCount,
     GeneratorUnlock, GeneratorFails
<1> QED
  BY <1>1, <1>2, <1>3, <1>4, <1>5, <1>6, <1>7, <1>8,
     <1>9, <1>10, <1>11
     DEF Next, Request, Generator

LEMMA Inductive == Spec => []IndInv
<1>1. Init => IndInv
  BY InvInit
<1>2. IndInv /\ [Next]_vars => IndInv'
  BY TypeStep, PublishingStep, GuardedStep, LookedUpStep DEF IndInv
<1> QED
  BY <1>1, <1>2, PTL DEF Spec

-----------------------------------------------------------------------------

\* Every variable keeps its type: no message but a pair of a side and an
\* index is ever in the list or in the generator's hands.
THEOREM TypeCorrect == Spec => []TypeOK
  BY Inductive, PTL DEF IndInv, TypeInv

\* An index that genSecret handed out is locked or published at every moment,
\* also between the generator's zadd and its del, and after any fault.
THEOREM IndexGuardedHolds == Spec => []IndexGuarded
  BY Inductive, PTL DEF IndInv

\* genSecret never hands out an index that another request had locked when
\* it looked, although it reads lock and publication one after the other.
THEOREM DistinctAfterLockHolds == Spec => []DistinctAfterLock
<1>1. IndInv => DistinctAfterLock
  BY DEF IndInv, LookUps, LookedUp, DistinctAfterLock, Taken
<1> QED
  BY <1>1, Inductive, PTL

\* The generator resets an index's progress counter once per side, however
\* often the index is in its list.
THEOREM CounterResetOnceHolds == Spec => []CounterResetOnce
  BY Inductive, PTL DEF IndInv, Once

-----------------------------------------------------------------------------
(* What PollEnds rests on: without faults, no message is forgotten.        *)

Message(s, i) == [source |-> s, index |-> i]

\* The message is in the list or in the generator's hands.
Underway(m) ==
    \/ \E k \in 1 .. Len(list) : list[k] = m
    \/ gpc # "pop" /\ msg = m

Owed(i, s) == i \in time[s] \/ Underway(Message(s, i))

\* What a client waits for is published, or on its way.
NothingForgotten ==
    \A h \in Requests :
        /\ hpc[h] \in {"ok", "pushed"} => Owed(randomStr[h], "server")
        /\ hpc[h] = "pushed" => Owed(randomStr[h], "client")

FaultFreeForgetsNothing == faults = 0 => NothingForgotten

\* A message that is put into the list is underway, and none that was is lost.
LEMMA ListGrows ==
  ASSUME list \in Seq(Messages), NEW n \in Messages, list' = Append(list, n),
         UNCHANGED <<gpc, msg>>
  PROVE  Underway(n)' /\ \A m \in Messages : Underway(m) => Underway(m)'
<1>1. /\ Len(list') = Len(list) + 1 /\ list'[Len(list')] = n
      /\ Len(list) \in Nat
      /\ \A k \in 1 .. Len(list) : list'[k] = list[k]
  OBVIOUS
<1>2. \A k \in 1 .. Len(list) : k \in 1 .. Len(list')
  BY <1>1
<1>3. Len(list') \in 1 .. Len(list')
  BY <1>1
<1> QED
  BY <1>1, <1>2, <1>3 DEF Underway

\* What is owed stays owed: the generator lays a message down only when its
\* index is published.
LEMMA OwedStep ==
  ASSUME IndInv, [Next]_vars, faults' = 0,
         NEW i \in Indexes, NEW s \in Sources, Owed(i, s)
  PROVE  Owed(i, s)'
<1> DEFINE m == Message(s, i)
<1>0. /\ list \in Seq(Messages) /\ m \in Messages /\ m.source = s
      /\ m.index = i /\ time \in [Sources -> SUBSET Indexes]
      /\ gpc = "pop" \/ msg \in Messages
  BY DEF IndInv, TypeInv, TypeOK, Messages, Message
<1>a. m' = m
  BY DEF Message
<1> HIDE DEF m
<1>1. ASSUME Underway(m) => Underway(m)' \/ i \in time'[s],
             time[s] \subseteq time'[s]
      PROVE  Owed(i, s)'
  BY <1>a, <1>1 DEF Owed, m
<1>2. CASE UNCHANGED <<list, time, gpc, msg>>
  BY <1>1, <1>2 DEF Underway
<1>3. CASE Tick \/ UNCHANGED vars
  BY <1>2, <1>3 DEF Tick, vars, generatorVars
<1>4. ASSUME NEW h \in Requests,
             \/ HandlerArrive(h) \/ HandlerName(h) \/ HandlerGet(h)
             \/ HandlerZscore(h) \/ HandlerSet(h) \/ RequestFails(h)
      PROVE  Owed(i, s)'
  BY <1>2, <1>4
     DEF HandlerArrive, HandlerName, HandlerGet, HandlerZscore, HandlerSet,
         RequestFails, HandlerGoto, generatorVars
<1>5. ASSUME NEW h \in Requests, HandlerPush(h) \/ ClientPush(h)
      PROVE  Owed(i, s)'
  <2>1. PICK n \in Messages : list' = Append(list, n)
    BY <1>5 DEF HandlerPush, ClientPush, HandlerGoto, IndInv, TypeInv, Drawn,
                Messages, Sources
  <2>2. UNCHANGED <<time, gpc, msg>>
    BY <1>5 DEF HandlerPush, ClientPush, HandlerGoto, generatorVars
  <2> QED
    BY <1>0, <1>1, <2>1, <2>2, ListGrows
<1>6. CASE GeneratorPop
  <2>1. /\ list # <<>> /\ gpc = "pop" /\ gpc' = "check" /\ time' = time
        /\ msg' = Head(list) /\ list' = Tail(list)
    BY <1>6 DEF GeneratorPop, GeneratorGoto
  <2>2. ASSUME NEW k \in 1 .. Len(list), list[k] = m PROVE Underway(m)'
    <3>1. CASE k = 1
      BY <1>0, <2>1, <2>2, <3>1 DEF Underway
    <3>2. CASE k # 1
      <4>1. k - 1 \in 1 .. Len(list') /\ list'[k - 1] = m
        BY <1>0, <2>1, <2>2, <3>2
      <4> QED
        BY <4>1 DEF Underway
    <3> QED
      BY <3>1, <3>2
  <2> QED
    BY <1>1, <2>1, <2>2 DEF Underway
<1>7. CASE GeneratorTime
  <2>1. UNCHANGED <<list, msg>> /\ gpc' = "count" /\ time[s] \subseteq time'[s]
    BY <1>0, <1>7 DEF GeneratorTime, GeneratorGoto, Messages
  <2> QED
    BY <1>1, <2>1 DEF Underway
<1>8. CASE GeneratorWork \/ GeneratorCount
  <2>1. UNCHANGED <<list, msg, time>> /\ gpc' # "pop"
    BY <1>8 DEF GeneratorWork, GeneratorCount, GeneratorGoto
  <2> QED
    BY <1>1, <2>1 DEF Underway
<1>9. CASE GeneratorCheck \/ GeneratorUnlock
  <2>1. /\ UNCHANGED <<list, msg, time>>
        /\ gpc' # "pop" \/ msg.index \in time[msg.source]
    BY <1>9 DEF GeneratorCheck, GeneratorUnlock, GeneratorGoto, IndInv, Once,
                Publishing
  <2> QED
    BY <1>0, <1>1, <2>1 DEF Underway
<1>10. CASE GeneratorFails
  BY <1>10 DEF GeneratorFails, IndInv, TypeInv, TypeOK
<1> QED
  BY <1>3, <1>4, <1>5, <1>6, <1>7, <1>8, <1>9, <1>10
     DEF Next, Request, Generator

LEMMA NothingForgottenStep ==
  IndInv /\ FaultFreeForgetsNothing /\ [Next]_vars => FaultFreeForgetsNothing'
<1> SUFFICES ASSUME IndInv, [Next]_vars, FaultFreeForgetsNothing, faults' = 0
             PROVE  NothingForgotten'
  BY DEF FaultFreeForgetsNothing
<1>0. /\ list \in Seq(Messages)
      /\ hpc \in [Requests -> HandlerPcs]
      /\ randomStr \in [Requests -> Indexes \cup {NoIndex}]
      /\ \A h \in Requests : hpc[h] \in {"push", "ok", "pushed"} =>
            randomStr[h] \in Indexes
      /\ "server" \in Sources /\ "client" \in Sources
  BY DEF IndInv, TypeInv, TypeOK, Drawn, Sources
<1>1. faults = 0 /\ NothingForgotten
  <2>1. faults \in Nat /\ faults + 1 # 0
    BY SecretIndexAssumption DEF IndInv, TypeInv, TypeOK
  <2>2. \/ faults' = faults
        \/ faults' = faults + 1
    BY DEF Next, Tick, Request, HandlerArrive, HandlerName, HandlerGet,
           HandlerZscore, HandlerSet, HandlerPush, ClientPush, RequestFails,
           Generator, GeneratorPop, GeneratorCheck, GeneratorWork,
           GeneratorTime, GeneratorCount, GeneratorUnlock, GeneratorFails, vars
  <2> QED
    BY <2>1, <2>2 DEF FaultFreeForgetsNothing
<1>2. ASSUME NEW h \in Requests, NEW s \in Sources, randomStr[h] \in Indexes,
             randomStr'[h] = randomStr[h], Owed(randomStr[h], s)
      PROVE  Owed(randomStr[h], s)'
  <2>1. PICK i \in Indexes : i = randomStr[h]
    BY <1>2
  <2>2. Owed(i, s)'
    BY <1>2, <2>1, OwedStep
  <2> QED
    BY <1>2, <2>1, <2>2 DEF Owed, Underway, Message
\* A step that leaves alone how far a request is and what it drew.
<1>3. ASSUME NEW h \in Requests, hpc'[h] = hpc[h], randomStr'[h] = randomStr[h]
      PROVE  /\ hpc'[h] \in {"ok", "pushed"} => Owed(randomStr[h], "server")'
             /\ hpc'[h] = "pushed" => Owed(randomStr[h], "client")'
  BY <1>0, <1>1, <1>2, <1>3 DEF NothingForgotten
<1>4. ASSUME UNCHANGED handlerVars PROVE NothingForgotten'
  BY <1>3, <1>4 DEF handlerVars, NothingForgotten
<1>5. CASE Tick \/ Generator \/ GeneratorFails \/ UNCHANGED vars
  BY <1>4, <1>5
     DEF Tick, Generator, GeneratorPop, GeneratorCheck, GeneratorWork,
         GeneratorTime, GeneratorCount, GeneratorUnlock, GeneratorFails,
         GeneratorGoto, handlerVars, vars
\* A step of one request h, which changes nothing of the others.
<1>6. ASSUME NEW h \in Requests,
             \A o \in Requests \ {h} :
                hpc'[o] = hpc[o] /\ randomStr'[o] = randomStr[o],
             hpc'[h] \in {"ok", "pushed"} => Owed(randomStr[h], "server")',
             hpc'[h] = "pushed" => Owed(randomStr[h], "client")'
      PROVE  NothingForgotten'
  BY <1>3, <1>6 DEF NothingForgotten
<1>7. ASSUME NEW h \in Requests,
             \/ HandlerArrive(h) \/ HandlerName(h) \/ HandlerGet(h)
             \/ HandlerZscore(h) \/ HandlerSet(h) \/ RequestFails(h)
      PROVE  NothingForgotten'
  <2>1. /\ hpc'[h] \notin {"ok", "pushed"}
        /\ \A o \in Requests \ {h} :
                hpc'[o] = hpc[o] /\ randomStr'[o] = randomStr[o]
    BY <1>0, <1>7
       DEF HandlerArrive, HandlerName, HandlerGet, HandlerZscore, HandlerSet,
           RequestFails, HandlerGoto
  <2> QED
    BY <1>6, <2>1
<1>8. ASSUME NEW h \in Requests, NEW s \in Sources,
             list' = Append(list, Message(s, randomStr[h])),
             UNCHANGED <<gpc, msg, randomStr>>, randomStr[h] \in Indexes
      PROVE  Owed(randomStr[h], s)'
  <2>1. Message(s, randomStr[h]) \in Messages
    BY <1>8 DEF Message, Messages
  <2>2. PICK m \in Messages : m = Message(s, randomStr[h])
    BY <2>1
  <2>3. Underway(m)'
    BY <1>0, <1>8, <2>2, ListGrows
  <2>4. m = [source |-> s, index |-> randomStr'[h]]
    BY <1>8, <2>2 DEF Message
  <2> QED
    BY <2>3, <2>4 DEF Owed, Underway, Message
<1>9. ASSUME NEW h \in Requests, HandlerPush(h) PROVE NothingForgotten'
  <2>1. /\ hpc[h] = "push" /\ hpc'[h] = "ok" /\ UNCHANGED randomStr
        /\ \A o \in Requests \ {h} : hpc'[o] = hpc[o]
    BY <1>0, <1>9 DEF HandlerPush, HandlerGoto
  <2>2. /\ list' = Append(list, Message("server", randomStr[h]))
        /\ UNCHANGED <<gpc, msg>>
    BY <1>9 DEF HandlerPush, HandlerGoto, Message, generatorVars
  <2> QED
    BY <1>0, <1>6, <1>8, <2>1, <2>2
<1>10. ASSUME NEW h \in Requests, ClientPush(h) PROVE NothingForgotten'
  <2>1. /\ hpc[h] = "ok" /\ hpc'[h] = "pushed" /\ UNCHANGED randomStr
        /\ \A o \in Requests \ {h} : hpc'[o] = hpc[o]
    BY <1>0, <1>10 DEF ClientPush, HandlerGoto
  <2>2. /\ list' = Append(list, Message("client", randomStr[h]))
        /\ UNCHANGED <<gpc, msg>>
    BY <1>10 DEF ClientPush, HandlerGoto, Message, generatorVars
  <2>3. Owed(randomStr[h], "server")'
    BY <1>0, <1>1, <1>2, <2>1 DEF NothingForgotten
  <2> QED
    BY <1>0, <1>6, <1>8, <2>1, <2>2, <2>3
<1> QED
  BY <1>5, <1>7, <1>9, <1>10 DEF Next, Request

\* As long as nothing fails, the index that a client waits for is published for
\* each side, or the generator has, or will take, a message for it.
THEOREM NothingForgottenHolds == Spec => []FaultFreeForgetsNothing
<1>1. Init => FaultFreeForgetsNothing
  BY DEF Init, FaultFreeForgetsNothing, NothingForgotten
<1> QED
  BY <1>1, NothingForgottenStep, Inductive, PTL DEF Spec
=============================================================================
