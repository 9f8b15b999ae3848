---------------------------- MODULE AlignedProofs ----------------------------
(***************************************************************************)
(* Proofs about Transfer as it is shipped: the poll may fall between the   *)
(* generator's two zadds, so the client's counter may be reset while it    *)
(* claims chunks, but CLIENT_THREAD_NUM divides PROGRESS. For every number *)
(* of chunks, of client threads and of faults the transfer then keeps its  *)
(* promise, as long as a waiting file that is there can be opened, and     *)
(* removed once move() is through with it.                                 *)
(*                                                                         *)
(* After the reset the client claims chunk numbers a second time, as the   *)
(* requests after the first PROGRESS. The argument: a batch that is not    *)
(* the last has CLIENT_THREAD_NUM requests, so one batch ends with request *)
(* PROGRESS exactly, and the next begins only when all of those have been  *)
(* received. By then the secret has moved, and a handler of a later        *)
(* request finds no waiting file.                                          *)
(***************************************************************************)
EXTENDS TransferProofs

Multiples == {k * CLIENT_THREAD_NUM : k \in Nat}

\* The shipped configuration: batches fill PROGRESS without a rest.
Aligned == PROGRESS \in Multiples

\* The waiting file does what it is told; everything else may fail.
Tidy == Readable /\ \A r \in Requests : ~UnlinkFails(r)

TidySpec == Init /\ [][Next /\ Tidy]_vars

-----------------------------------------------------------------------------
(* The inductive invariant: the parts it shares with TransferProofs, and   *)
(* three of its own.                                                       *)

\* Claims, counter and batches. The reset is the last of the generator's
\* steps, so it happens at most once in a round.
Pacing ==
    /\ cpc = "poll" => issued = 0 /\ cur = 1
    /\ tail["client"] = "files" => issued = 0 /\ cpc \in {"poll", "dead"}
    /\ tail["client"] # "files" => tail["server"] = "done"
    /\ tail["client"] # "done" => issued = count["client"]
    /\ progress <= issued
    /\ issued <= count["client"] + PROGRESS
    /\ cur \in 1 .. (issued + 1)
    /\ cpc = "claim" => /\ cur - 1 \in Multiples
                        /\ issued < (cur - 1) + CLIENT_THREAD_NUM
    /\ cpc \in {"await", "drain"} => issued \in Multiples \/ Complete(progress)

\* None of the first PROGRESS requests is refused, and the client has all of
\* them before it starts another. A later request never gets beyond the
\* handler's first test.
Collected ==
    /\ served \subseteq All
    /\ \A r \in All : handler[r] # "err"
    /\ \A r \in Requests \ All :
            handler[r] \in {"none", "check", "err", "lost"}
    /\ \A r \in All : r < cur => thread[r] = "true"
    /\ issued > PROGRESS => AllReceived
    /\ cpc = "drain" => cur = issued + 1 \/ AllReceived
    /\ cpc = "gather" \/ verdict # NONE => AllReceived

\* A move that came to its end has removed the waiting file.
Removed ==
    served = All => \/ ~waiting
                    \/ \E r \in All : handler[r] \in MovePcs \cup {"lost"}

AlignedInv ==
    /\ TypeInv
    /\ Pacing
    /\ Collected
    /\ Removed
    /\ Lifecycle
    /\ Serving
    /\ Moving
    /\ Moved
    /\ Deciding

\* It gives what the lemmas of TransferProofs need of the requests.
LEMMA AlignedRoundFacts == AlignedInv => RoundInv
<1> SUFFICES ASSUME AlignedInv PROVE RoundInv
  OBVIOUS
<1> USE TransferAssumption DEF AlignedInv
<1>1. /\ issued \in Nat /\ TypeInv /\ PROGRESS \in Nat
      /\ tail \in [Sources -> {"files", "time", "done"}]
      /\ count \in [Sources -> Nat]
  BY DEF TypeInv, TypeOK
<1>2. Issuing
  <2>1. tail["server"] # "done" => issued = 0
    BY <1>1 DEF Pacing
  <2>2. ASSUME cpc = "claim" PROVE issued + 1 \in Requests
    <3>1. count["client"] < PROGRESS /\ count["client"] \in Nat
      BY <1>1, <2>2 DEF TypeInv, TypeOK, Claims, Sources
    <3> QED
      BY <1>1, <3>1 DEF Pacing, Requests
  <2>3. 1 .. issued \subseteq Requests
    BY <1>1 DEF Pacing, Requests, TypeInv, TypeOK, Claims, Sources
  <2> QED
    BY <2>1, <2>2, <2>3 DEF Issuing, Pacing
<1>3. \A r \in Requests : handler[r] \in MovePcs \cup {"count"} => r \in All
  BY DEF Collected, MovePcs
<1>4. served \subseteq All /\ (verdict # NONE => AllReceived)
  BY DEF Collected
<1> QED
  BY <1>1, <1>2, <1>3, <1>4 DEF RoundInv, Answered, NONE, VALID

LEMMA AlignedInit == Init => AlignedInv
<1> SUFFICES ASSUME Init PROVE AlignedInv
  OBVIOUS
<1> USE TransferAssumption
<1>1. IndInv
  BY InvInit
<1>2. Pacing
  BY DEF Init, Pacing, Sources
<1>3. Collected
  BY DEF Init, Collected, All, Requests, NONE
<1>4. Removed
  <2>1. 1 \in All /\ 1 \notin served
    BY DEF Init, All
  <2> QED
    BY <2>1 DEF Removed
<1> QED
  BY <1>1, <1>2, <1>3, <1>4 DEF IndInv, AlignedInv

-----------------------------------------------------------------------------
(* Lemmas about multiples.                                                 *)

\* Two multiples that differ are CLIENT_THREAD_NUM apart at least.
LEMMA MultiplesApart ==
  ASSUME NEW x \in Multiples, NEW y \in Multiples, x < y
  PROVE  x + CLIENT_THREAD_NUM <= y
<1> USE TransferAssumption
<1>1. PICK a \in Nat, b \in Nat :
          x = a * CLIENT_THREAD_NUM /\ y = b * CLIENT_THREAD_NUM
  BY DEF Multiples
<1>2. ~(b <= a)
  <2> SUFFICES ASSUME b <= a PROVE y <= x
    BY <1>1
  <2>1. PICK d \in Nat : a = b + d
    BY <1>1
  <2>2. x = y + d * CLIENT_THREAD_NUM /\ d * CLIENT_THREAD_NUM \in Nat
        /\ y \in Nat
    BY <1>1, <2>1
  <2> QED
    BY <2>2
<1>3. PICK d \in Nat : b = a + 1 + d
  BY <1>2
<1>4. y = x + CLIENT_THREAD_NUM + d * CLIENT_THREAD_NUM
      /\ d * CLIENT_THREAD_NUM \in Nat /\ x \in Nat
  BY <1>1, <1>3
<1> QED
  BY <1>4

LEMMA NextMultiple ==
  ASSUME NEW x \in Multiples
  PROVE  x \in Nat /\ x + CLIENT_THREAD_NUM \in Multiples
<1> USE TransferAssumption
<1>1. PICK a \in Nat : x = a * CLIENT_THREAD_NUM
  BY DEF Multiples
<1>2. x + CLIENT_THREAD_NUM = (a + 1) * CLIENT_THREAD_NUM
  BY <1>1
<1> QED
  BY <1>1, <1>2 DEF Multiples

LEMMA ZeroMultiple == 0 \in Multiples
<1>1. 0 = 0 * CLIENT_THREAD_NUM
  BY TransferAssumption
<1> QED
  BY <1>1 DEF Multiples

-----------------------------------------------------------------------------
(* The three parts are kept by every step.                                 *)

\* A claim ends the batch when it was the last chunk or the batch is full.
LEMMA ClaimPace ==
  ASSUME TypeInv, ClientClaim
  PROVE  /\ cpc' = "claim" => (issued + 1) - cur + 1 < CLIENT_THREAD_NUM
         /\ cpc' = "await" => \/ Complete(progress')
                              \/ (issued + 1) - cur + 1 >= CLIENT_THREAD_NUM
<1> USE TransferAssumption DEF TypeInv, TypeOK
<1>1. progress' = count["client"] + 1 /\ issued \in Nat /\ cur \in Nat
  BY ClaimFrame
<1>2. cpc' = IF \/ Complete(count["client"] + 1)
                \/ (issued + 1) - cur + 1 >= CLIENT_THREAD_NUM
             THEN "await" ELSE "claim"
  BY DEF ClientClaim
<1> QED
  BY <1>1, <1>2

LEMMA PacingStep ==
  ASSUME AlignedInv, [Next]_vars
  PROVE  Pacing'
<1> USE TransferAssumption DEF AlignedInv, Pacing
<1> /\ TypeInv /\ count \in [Sources -> Nat] /\ count["client"] \in Nat
    /\ issued \in Nat /\ cur \in Nat /\ progress \in Nat
    /\ tail \in [Sources -> {"files", "time", "done"}]
    /\ count["client"] <= progress /\ progress <= PROGRESS
  BY DEF TypeInv, TypeOK, Claims, Sources
<1>1. CASE PublishStep
  <2>1. PICK s \in Sources : PublishTime(s) \/ PublishCount(s)
    BY <1>1 DEF PublishStep
  <2>2. UNCHANGED <<cpc, progress, issued, cur>>
    BY <1>1, PublishFrame
  <2>3. CASE PublishTime(s)
    BY <2>2, <2>3 DEF PublishTime, Sources
  <2>4. CASE PublishCount(s)
    <3>1. /\ tail[s] = "time" /\ tail' = [tail EXCEPT ![s] = "done"]
          /\ count' = [count EXCEPT ![s] = 0]
      BY <2>4 DEF PublishCount
    <3>2. CASE s = "server"
      BY <2>2, <3>1, <3>2 DEF Sources
    <3>3. CASE s = "client"
      <4>1. issued <= PROGRESS /\ count'["client"] = 0
        BY <3>1, <3>3 DEF Sources
      <4> QED
        BY <2>2, <3>1, <3>3, <4>1 DEF Sources
    <3> QED
      BY <3>2, <3>3 DEF Sources
  <2> QED
    BY <2>1, <2>3, <2>4
<1>2. CASE ClientClaim
  <2>1. /\ cpc = "claim" /\ cpc' \in {"claim", "await"}
        /\ count["client"] < PROGRESS
        /\ count'["client"] = count["client"] + 1
        /\ progress' = count["client"] + 1
        /\ issued' = issued + 1 /\ cur' = cur /\ tail' = tail
    BY <1>2, ClaimFrame DEF Sources
  <2>2. tail["client"] # "files"
    BY <2>1
  <2>3. count["client"] <= issued
    OBVIOUS
  <2>4. cpc' = "claim" => issued' < (cur - 1) + CLIENT_THREAD_NUM
    BY <1>2, <2>1, ClaimPace
  <2>5. ASSUME cpc' = "await"
        PROVE  issued' \in Multiples \/ Complete(progress')
    <3>1. CASE (issued + 1) - cur + 1 >= CLIENT_THREAD_NUM
      <4>1. cur - 1 \in Multiples
        BY <2>1
      <4>2. issued' = (cur - 1) + CLIENT_THREAD_NUM
        BY <2>1, <3>1
      <4> QED
        BY <4>1, <4>2, NextMultiple
    <3> QED
      BY <1>2, <2>5, <3>1, ClaimPace
  <2> QED
    BY <2>1, <2>2, <2>3, <2>4, <2>5
<1>3. CASE LoopStep
  <2>1. UNCHANGED <<tail, count, progress, issued>>
    BY <1>3, LoopFrame
  <2>2. CASE ClientPoll
    <3>1. /\ cpc = "poll" /\ cpc' = "claim" /\ cur' = cur
          /\ tail["client"] # "files"
      BY <2>2 DEF ClientPoll, Published, Sources
    <3>2. cur - 1 = 0 /\ issued = 0
      BY <3>1
    <3> QED
      BY <2>1, <3>1, <3>2, ZeroMultiple
  <2>3. CASE ClientAwait
    <3>1. /\ cpc = "await" /\ cpc' \in {"await", "gather", "drain", "dead"}
          /\ cur' \in {cur, cur + 1} /\ (cur' = cur + 1 => cur <= issued)
      BY <2>3 DEF ClientAwait, AfterBatch
    <3>2. cur' \in 1 .. (issued + 1)
      BY <3>1
    <3> QED
      BY <2>1, <3>1, <3>2 DEF Complete
  <2>4. CASE ClientDrain
    <3>1. cpc = "drain" /\ cpc' = "claim" /\ cur' = issued + 1
      BY <2>4 DEF ClientDrain
    <3>2. ~Complete(progress)
      BY <3>1 DEF Complete, TypeInv, Claims
    <3>3. issued \in Multiples /\ cur' - 1 = issued
      BY <3>1, <3>2
    <3> QED
      BY <2>1, <3>1, <3>3
  <2>5. CASE ~ClientPoll /\ ~ClientAwait /\ ~ClientDrain
    <3>1. /\ cur' = cur
          /\ cpc' \notin {"poll", "claim", "await", "drain"}
          /\ cpc' = "dead" \/ cpc \notin {"poll", "dead"}
      BY <1>3, <2>5
         DEF LoopStep, ClientGather, ClientReport, ClientReported,
             ClientStore, ClientRmdir, ClientFinish, ReportTimesOut,
             ClientStoreFails, ClientCrash, AfterReport
    <3> QED
      BY <2>1, <3>1
  <2> QED
    BY <2>2, <2>3, <2>4, <2>5
<1>4. ASSUME NEW r \in Requests, ThreadAct(r) PROVE Pacing'
  BY <1>4, ThreadFrame DEF Complete
<1>5. ASSUME NEW r \in Requests, HandlerAct(r) PROVE Pacing'
  BY <1>5, HandlerFrame DEF Complete
<1>6. CASE ReportAct
  BY <1>6, ReportFrame DEF Complete
<1>7. CASE ServerCrash
  BY <1>7, CrashFrame DEF Complete
<1>8. CASE UNCHANGED vars
  BY <1>8 DEF vars, redisVars, loopVars, Complete
<1> QED
  BY <1>1, <1>2, <1>3, <1>4, <1>5, <1>6, <1>7, <1>8, StepKinds

\* A handler of one of the first PROGRESS requests finds what it looks for.
LEMMA FirstAccepted ==
  ASSUME AlignedInv, NEW r \in All, Handler(r)
  PROVE  handler'[r] # "err" /\ served' \subseteq All
<1> USE TransferAssumption DEF AlignedInv, HandlerGoto
<1> /\ r \in Requests /\ handler \in [Requests -> HandlerPcs]
    /\ served \subseteq All
  BY DEF TypeInv, TypeOK, All, Requests, Collected
<1>1. CASE handler[r] \in {"check", "fresh", "open"}
  <2>1. r \notin served /\ served # All
    BY <1>1 DEF Serving, ServingPcs
  <2>2. waiting /\ serverSecret = "none"
    BY <2>1 DEF Moved
  <2>3. tail["server"] = "done"
    <3>1. issued # 0
      BY <1>1 DEF Lifecycle, All, TypeInv, TypeOK
    <3> QED
      BY <3>1 DEF Pacing, TypeInv, TypeOK, Sources
  <2>4. chunkOf[r] < PROGRESS
    BY DEF TypeInv, TypeOK, Chunks
  <2>5. CASE HandlerCheck(r)
    BY <2>2, <2>3, <2>5 DEF HandlerCheck
  <2>6. CASE HandlerFresh(r)
    BY <2>2, <2>6 DEF HandlerFresh
  <2>7. CASE HandlerOpen(r)
    BY <2>2, <2>4, <2>7 DEF HandlerOpen
  <2> QED
    BY <1>1, <2>5, <2>6, <2>7
       DEF Handler, HandlerCount, HandlerMember, HandlerLoad, HandlerCopy,
           HandlerFlush, HandlerMark, HandlerUnlink
<1>2. CASE HandlerCount(r)
  BY <1>2 DEF HandlerCount
<1>3. CASE HandlerMember(r)
  <2>1. handler[r] = "member" /\ valid = NONE
    BY <1>3 DEF HandlerMember, Moving, MovePcs
  <2> QED
    BY <1>3, <2>1 DEF HandlerMember
<1>4. CASE HandlerLoad(r) \/ HandlerCopy(r) \/ HandlerFlush(r)
           \/ HandlerMark(r) \/ HandlerUnlink(r)
  BY <1>4 DEF HandlerLoad, HandlerCopy, HandlerFlush, HandlerMark,
              HandlerUnlink
<1>5. HandlerCheck(r) \/ HandlerFresh(r) \/ HandlerOpen(r) =>
          handler[r] \in {"check", "fresh", "open"}
  BY DEF HandlerCheck, HandlerFresh, HandlerOpen
<1> QED
  BY <1>1, <1>2, <1>3, <1>4, <1>5 DEF Handler

\* Once the client has the first PROGRESS requests the secret has moved, so
\* a later handler finds no waiting file.
LEMMA LaterRefused ==
  ASSUME AlignedInv, NEW r \in Requests \ All, HandlerAct(r)
  PROVE  /\ handler[r] = "check" /\ handler'[r] \in {"err", "lost"}
         /\ UNCHANGED <<waiting, served>>
<1> USE TransferAssumption DEF AlignedInv, HandlerGoto
<1> handler \in [Requests -> HandlerPcs]
  BY DEF TypeInv, TypeOK
<1>1. handler[r] = "check"
  BY HandlerFrame DEF Collected, ServingPcs, MovePcs
<1>2. AllReceived
  <2>1. ~(r > issued)
    BY <1>1 DEF Lifecycle
  <2>2. issued > PROGRESS
    BY <2>1 DEF All, Requests, TypeInv, TypeOK
  <2> QED
    BY <2>2 DEF Collected
<1>3. \A o \in All : handler[o] = "ok"
  BY <1>2 DEF AllReceived, Lifecycle, All, Requests
<1>4. served = All
  <2>1. All \subseteq served
    BY <1>3 DEF Serving, All, Requests
  <2> QED
    BY <2>1 DEF Collected
<1>5. ~waiting
  BY <1>3, <1>4 DEF Removed, MovePcs
<1>6. HandlerCheck(r) \/ HandlerThrows(r)
  BY <1>1 DEF HandlerAct, Handler, HandlerFresh, HandlerOpen, HandlerCount,
              HandlerMember, HandlerLoad, HandlerCopy, HandlerFlush,
              HandlerMark, HandlerUnlink, OpenFails, MoveFails, UnlinkFails
<1> QED
  BY <1>1, <1>5, <1>6 DEF HandlerCheck, HandlerThrows, serverVars

\* The request after the first PROGRESS starts a batch, so all before it have
\* been received.
LEMMA SecondClaims ==
  ASSUME AlignedInv, Aligned, cpc = "claim", issued >= PROGRESS
  PROVE  AllReceived
<1> USE TransferAssumption DEF AlignedInv, Pacing
<1> issued \in Nat /\ cur \in Nat /\ PROGRESS \in Nat
  BY DEF TypeInv, TypeOK
<1>1. CASE issued > PROGRESS
  BY <1>1 DEF Collected
<1>2. CASE issued = PROGRESS
  <2>1. cur - 1 \in Multiples /\ PROGRESS \in Multiples
    BY DEF Aligned
  <2>2. ~(cur - 1 < PROGRESS)
    <3> SUFFICES ASSUME cur - 1 < PROGRESS PROVE FALSE
      OBVIOUS
    <3>1. (cur - 1) + CLIENT_THREAD_NUM <= PROGRESS
      BY <2>1, MultiplesApart
    <3> QED
      BY <1>2, <3>1
  <2>3. \A r \in All : r < cur
    BY <2>2 DEF All
  <2> QED
    BY <2>3 DEF Collected, AllReceived
<1> QED
  BY <1>1, <1>2

LEMMA CollectedStep ==
  ASSUME AlignedInv, [Next]_vars, Aligned,
         \A r \in Requests : ~OpenFails(r)
  PROVE  Collected'
<1> USE TransferAssumption DEF AlignedInv, Collected
<1> /\ TypeInv /\ issued \in Nat /\ cur \in Nat /\ progress \in Nat
    /\ cur \in 1 .. (issued + 1) /\ progress <= issued
    /\ All \subseteq Requests
    /\ thread \in [Requests -> ThreadPcs]
    /\ handler \in [Requests -> HandlerPcs]
  BY DEF TypeInv, TypeOK, Pacing, All, Requests
<1>1. CASE PublishStep
  BY <1>1, PublishFrame DEF AllReceived
<1>2. CASE ClientClaim
  <2>1. /\ cpc = "claim" /\ cpc' \in {"claim", "await"}
        /\ issued' = issued + 1
        /\ thread' = [thread EXCEPT ![issued + 1] = "wait"]
        /\ handler' = [handler EXCEPT ![issued + 1] = "check"]
        /\ UNCHANGED <<cur, verdict, served>>
    BY <1>2, ClaimFrame
  <2>2. verdict' = NONE
    BY <2>1 DEF Deciding
  <2>3. \A r \in Requests : r # issued + 1 =>
            thread'[r] = thread[r] /\ handler'[r] = handler[r]
    BY <2>1
  <2>4. \A r \in Requests : r = issued + 1 => handler'[r] = "check"
    BY <2>1
  <2>5. AllReceived => AllReceived'
    <3>1. \A r \in All : thread[r] = "true" => r # issued + 1
      BY DEF Lifecycle
    <3> QED
      BY <2>3, <3>1 DEF AllReceived
  <2>6. issued' > PROGRESS => AllReceived'
    BY <2>1, <2>5, SecondClaims
  <2>7. \A r \in All : r < cur => thread'[r] = "true"
    BY <2>3
  <2> QED
    BY <2>1, <2>2, <2>3, <2>4, <2>6, <2>7
<1>3. CASE LoopStep
  <2>1. UNCHANGED <<thread, issued, handler, served>>
    BY <1>3, LoopFrame
  <2>2. AllReceived' <=> AllReceived
    BY <2>1 DEF AllReceived
  <2>3. CASE ClientAwait
    <3>1. verdict' = NONE
      BY <2>3 DEF ClientAwait, Deciding
    <3>2. CASE cur > issued /\ cpc' = AfterBatch /\ cur' = cur
      <4>1. cur = issued + 1
        BY <3>2
      <4>2. cpc' = "gather" => AllReceived
        <5>1. cpc' = "gather" => issued >= PROGRESS
          BY <3>2 DEF AfterBatch, Complete
        <5> QED
          BY <4>1, <5>1 DEF AllReceived, All
      <4> QED
        BY <2>1, <2>2, <3>1, <3>2, <4>1, <4>2
    <3>3. CASE cur <= issued /\ thread[cur] = "true" /\ cur' = cur + 1
               /\ cpc' = cpc
      <4>1. cpc' = "await"
        BY <2>3, <3>3 DEF ClientAwait
      <4>2. \A r \in All : r < cur' => r < cur \/ r = cur
        BY <3>3 DEF All
      <4> QED
        BY <2>1, <2>2, <3>1, <3>3, <4>1, <4>2
    <3>4. CASE cur <= issued /\ thread[cur] = "false" /\ cpc' = AfterBatch
               /\ cur' = cur
      <4>1. cur \notin All
        BY <3>4 DEF Lifecycle
      <4>2. AllReceived
        BY <3>4, <4>1 DEF All
      <4> QED
        BY <2>1, <2>2, <3>1, <3>4, <4>2
    <3>5. CASE cpc' = "dead" /\ cur' = cur
      BY <2>1, <2>2, <3>1, <3>5
    <3> QED
      BY <2>3, <3>2, <3>3, <3>4, <3>5 DEF ClientAwait
  <2>4. CASE ClientDrain
    <3>1. cpc = "drain" /\ cpc' = "claim" /\ cur' = issued + 1
          /\ verdict' = NONE
      BY <2>4 DEF ClientDrain, Deciding
    <3>2. \A r \in All : r < cur' => thread[r] = "true"
      BY <3>1 DEF AllReceived
    <3> QED
      BY <2>1, <2>2, <3>1, <3>2
  <2>5. CASE ~ClientAwait /\ ~ClientDrain
    <3>1. /\ cur' = cur /\ cpc' # "drain"
          /\ cpc' = "gather" => cpc = "gather"
          /\ verdict' # NONE => cpc = "gather" \/ verdict # NONE
      BY <1>3, <2>5
         DEF LoopStep, ClientPoll, ClientGather, ClientReport,
             ClientReported, ClientStore, ClientRmdir, ClientFinish,
             ReportTimesOut, ClientStoreFails, ClientCrash, AfterReport
    <3> QED
      BY <2>1, <2>2, <3>1
  <2> QED
    BY <2>3, <2>4, <2>5
<1>4. ASSUME NEW r \in Requests, ThreadAct(r) PROVE Collected'
  <2>1. UNCHANGED <<cpc, cur, issued, verdict, handler, served>>
    BY <1>4, ThreadFrame
  <2>2. \A o \in Requests : thread[o] = "true" => thread'[o] = "true"
    BY <1>4, ThreadFrame
  <2>3. AllReceived => AllReceived'
    BY <2>2 DEF AllReceived
  <2> QED
    BY <2>1, <2>2, <2>3
<1>5. ASSUME NEW r \in Requests, HandlerAct(r) PROVE Collected'
  <2>1. UNCHANGED <<cpc, cur, issued, verdict, thread>>
    BY <1>5, HandlerFrame
  <2>2. \A o \in Requests : o # r => handler'[o] = handler[o]
    BY <1>5, HandlerFrame
  <2>3. AllReceived' <=> AllReceived
    BY <2>1 DEF AllReceived
  <2>4. CASE r \in All
    <3>1. handler'[r] # "err" /\ served' \subseteq All
      <4>1. CASE Handler(r)
        BY <2>4, <4>1, FirstAccepted
      <4>2. CASE HandlerThrows(r) \/ MoveFails(r) \/ UnlinkFails(r)
        BY <4>2 DEF HandlerThrows, MoveFails, UnlinkFails, HandlerGoto
      <4> QED
        BY <1>5, <4>1, <4>2 DEF HandlerAct
    <3> QED
      BY <2>1, <2>2, <2>3, <2>4, <3>1
  <2>5. CASE r \notin All
    <3>1. handler'[r] \in {"err", "lost"} /\ served' = served
      BY <1>5, <2>5, LaterRefused
    <3> QED
      BY <2>1, <2>2, <2>3, <2>5, <3>1
  <2> QED
    BY <2>4, <2>5
<1>6. CASE ReportAct
  BY <1>6, ReportFrame DEF AllReceived
<1>7. CASE ServerCrash
  BY <1>7, CrashFrame DEF AllReceived
<1>8. CASE UNCHANGED vars
  BY <1>8 DEF vars, loopVars, requestVars, AllReceived
<1> QED
  BY <1>1, <1>2, <1>3, <1>4, <1>5, <1>6, <1>7, <1>8, StepKinds

LEMMA RemovedStep ==
  ASSUME AlignedInv, [Next]_vars, \A r \in Requests : ~UnlinkFails(r)
  PROVE  Removed'
<1> USE DEF AlignedInv, Removed
<1> /\ TypeInv /\ handler \in [Requests -> HandlerPcs]
    /\ All \subseteq Requests
  BY TransferAssumption DEF TypeInv, TypeOK, All, Requests
<1>1. CASE PublishStep
  BY <1>1, PublishFrame
<1>2. CASE ClientClaim
  <2>1. /\ handler' = [handler EXCEPT ![issued + 1] = "check"]
        /\ UNCHANGED <<waiting, served>>
    BY <1>2, ClaimFrame
  <2>2. \A r \in Requests : handler[r] \in MovePcs \cup {"lost"} =>
            r # issued + 1 /\ handler'[r] = handler[r]
    BY <2>1 DEF Lifecycle, MovePcs, TypeInv, TypeOK
  <2> QED
    BY <2>1, <2>2
<1>3. CASE LoopStep
  BY <1>3, LoopFrame
<1>4. ASSUME NEW r \in Requests, ThreadAct(r) PROVE Removed'
  BY <1>4, ThreadFrame
<1>5. ASSUME NEW r \in Requests, HandlerAct(r) PROVE Removed'
  <2>1. \A o \in Requests : o # r => handler'[o] = handler[o]
    BY <1>5, HandlerFrame
  <2>2. CASE r \notin All
    BY <1>5, <2>1, <2>2, LaterRefused
  <2>3. CASE r \in All /\ HandlerCount(r)
    <3>1. /\ handler[r] = "count" /\ served' = served \cup {r}
          /\ handler'[r] = IF Complete(count["server"] + 1)
                           THEN "member" ELSE "ok"
      BY <2>3 DEF HandlerCount, HandlerGoto
    <3>2. Complete(count["server"] + 1) <=> served' = All
      BY <3>1, CountFacts, AlignedRoundFacts
    <3> QED
      BY <2>3, <3>1, <3>2 DEF MovePcs
  <2>4. CASE r \in All /\ HandlerUnlink(r)
    BY <2>4, Zenon DEF HandlerUnlink
  <2>5. CASE r \in All /\ ~HandlerCount(r) /\ ~HandlerUnlink(r)
    <3>1. UNCHANGED <<waiting, served>>
      BY <1>5, <2>5
         DEF HandlerAct, Handler, HandlerCheck, HandlerFresh, HandlerOpen,
             HandlerMember, HandlerLoad, HandlerCopy, HandlerFlush,
             HandlerMark, OpenFails, HandlerThrows, MoveFails, UnlinkFails,
             serverVars
    <3>2. \/ handler'[r] \in MovePcs \cup {"lost"}
          \/ handler[r] \notin MovePcs \cup {"lost"}
      BY <1>5, <2>5
         DEF HandlerAct, Handler, HandlerCheck, HandlerFresh, HandlerOpen,
             HandlerMember, HandlerLoad, HandlerCopy, HandlerFlush,
             HandlerMark, OpenFails, HandlerThrows, MoveFails, HandlerGoto,
             Moving, MovePcs
    <3> QED
      BY <2>1, <2>5, <3>1, <3>2
  <2> QED
    BY <2>2, <2>3, <2>4, <2>5
<1>6. CASE ReportAct
  BY <1>6, ReportFrame
<1>7. CASE ServerCrash
  BY <1>7, CrashFrame DEF MovePcs
<1>8. CASE UNCHANGED vars
  BY <1>8 DEF vars, serverVars, requestVars
<1> QED
  BY <1>1, <1>2, <1>3, <1>4, <1>5, <1>6, <1>7, <1>8, StepKinds

\* The invariant is inductive as long as no waiting file fails to open or to
\* go.
LEMMA AlignedStep ==
  ASSUME Aligned
  PROVE  AlignedInv /\ [Next /\ Tidy]_vars => AlignedInv'
<1> SUFFICES ASSUME AlignedInv, [Next /\ Tidy]_vars PROVE AlignedInv'
  OBVIOUS
<1>1. [Next]_vars /\ RoundInv
  BY AlignedRoundFacts
<1>2. TypeInv' /\ Pacing'
  BY <1>1, TypeStep, PacingStep DEF AlignedInv
<1>3. Collected' /\ Removed'
  <2>1. CASE Tidy
    BY <1>1, <2>1, CollectedStep, RemovedStep DEF Tidy, Readable
  <2>2. CASE UNCHANGED vars
    BY <2>2 DEF vars, loopVars, requestVars, serverVars, AllReceived,
                AlignedInv, Collected, Removed
  <2> QED
    BY <2>1, <2>2
<1>4. Lifecycle' /\ Serving' /\ Moving' /\ Moved' /\ Deciding'
  BY <1>1, LifecycleStep, ServingStep, MovingStep, MovedStep, DecidingStep
<1> QED
  BY <1>2, <1>3, <1>4 DEF AlignedInv

LEMMA AlignedInvariance ==
  ASSUME Aligned
  PROVE  TidySpec => []RoundInv
  BY AlignedInit, AlignedStep, AlignedRoundFacts, PTL DEF TidySpec

-----------------------------------------------------------------------------
(* What follows.                                                           *)

\* A client that keeps the secret keeps one the server staged and holds,
\* whatever the poll sees and whatever fails between.
THEOREM AlignedAgreementHolds ==
  ASSUME Aligned
  PROVE  TidySpec => []Agreement
  BY AlignedInvariance, AgreementFact, PTL

\* A finished round is all or nothing, but for what a call whose result is
\* dropped takes away.
THEOREM AlignedRoundOutcomeHolds ==
  ASSUME Aligned
  PROVE  TidySpec => []RoundOutcome
  BY AlignedInvariance, RoundOutcomeFact, PTL

\* The waiting file goes only when the secret file is complete, or when a
\* read or write of the move itself has failed.
THEOREM AlignedNeverWithoutCopyHolds ==
  ASSUME Aligned
  PROVE  TidySpec => []NeverWithoutCopy
<1>1. RoundInv => NeverWithoutCopy
  BY DEF RoundInv, Moved
<1> QED
  BY <1>1, AlignedInvariance, PTL

\* A complete secret file is never written over by a second or late move.
THEOREM AlignedSecretNeverRewrittenHolds ==
  ASSUME Aligned
  PROVE  TidySpec => SecretNeverRewritten
<1>1. RoundInv /\ [Next /\ Tidy]_vars => [Kept]_vars
  BY KeptStep
<1>2. TidySpec => [][Kept]_vars
  BY <1>1, AlignedInvariance, PTL DEF TidySpec
<1> QED
  BY <1>2 DEF SecretNeverRewritten, Kept

\* The shipped transfer keeps the promise of Handover.
THEOREM AlignedImplementsHandover ==
  ASSUME Aligned
  PROVE  TidySpec => ImplementsHandover
<1>1. Init => Promise!Init
  BY DEF Init, Promise!Init, ServerSide, Judgement, NONE, VALID, INVALID
<1>2. RoundInv /\ RoundInv' /\ [Next /\ Tidy]_vars =>
          [Promise!Next]_(Promise!hvars)
  BY StepImplements
<1> QED
  BY <1>1, <1>2, AlignedInvariance, PTL
     DEF TidySpec, ImplementsHandover, Promise!Spec

\* The shipped client's round is never stuck either.
THEOREM AlignedRoundNotStuck ==
  ASSUME Aligned
  PROVE  TidySpec => [](cpc \notin {"done", "dead"} => SomebodyCan)
<1>1. RoundInv => (cpc \notin {"done", "dead"} => SomebodyCan)
  BY SomebodyCanFact
<1> QED
  BY <1>1, AlignedInvariance, PTL
=============================================================================
