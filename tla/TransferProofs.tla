--------------------------- MODULE TransferProofs ---------------------------
(***************************************************************************)
(* Proofs about Transfer, for every number of chunks, of client threads    *)
(* and of faults. Type correctness holds of the code as it is. The safety  *)
(* properties are proved of a client whose poll never falls between the    *)
(* generator's two zadds (~PublishGap); Transfer's "gap" run shows them    *)
(* to need that.                                                           *)
(***************************************************************************)
EXTENDS Transfer, FiniteSetTheorems, TLAPS

\* The requests of a round without a counter reset: one per chunk.
All == 1 .. PROGRESS

\* The client's counter stays below its last value, and that within bounds.
Claims ==
    /\ progress <= PROGRESS
    /\ count["client"] <= progress
    /\ cpc \in {"poll", "claim", "drain"} => progress < PROGRESS

TypeInv == TypeOK /\ Claims

-----------------------------------------------------------------------------
(* The inductive invariant, in the order in which its parts are used.      *)

\* Nothing is claimed before both sides are published, so the counter, the
\* requests and the chunk numbers run together.
Counting ==
    /\ cpc = "poll" => issued = 0
    /\ cpc \notin {"poll", "dead"} => tail["client"] = "done"
    /\ tail["client"] # "done" => issued = 0
    /\ tail["client"] # "files" => tail["server"] = "done"
    /\ count["client"] = issued
    /\ progress = issued
    /\ issued <= PROGRESS
    /\ cur \in 1 .. (issued + 1)
    /\ \A r \in 1 .. issued : chunkOf[r] = r - 1

Lifecycle ==
    \A r \in Requests :
        /\ r > issued <=> thread[r] = "none"
        /\ r > issued <=> handler[r] = "none"
        /\ thread[r] \in {"open", "write", "true"} => handler[r] = "ok"
        /\ thread[r] = "false" => handler[r] = "err"

\* A handler answers with data only after it counted, with an error only
\* if it did not.
Serving ==
    /\ served \subseteq 1 .. issued
    /\ count["server"] = Cardinality(served)
    /\ \A r \in Requests :
        /\ handler[r] \in MovePcs \cup {"ok"} => r \in served
        /\ handler[r] \in ServingPcs \cup {"err"} => r \notin served

\* A read or write of move() has failed.
Spoilt == "copy" \in mishap

\* One handler moves the file, after every request was served, and finds
\* the file and the zset as move() expects them.
Moving ==
    /\ \A r \in Requests :
        /\ handler[r] \in MovePcs => served = All
        /\ handler[r] \in {"member", "load", "copy"} => serverSecret = "none"
        /\ handler[r] \in {"copy", "flush"} => loaded[r] \/ Spoilt
        /\ handler[r] = "flush" => serverSecret = "torn"
        /\ handler[r] \in {"mark", "unlink"} =>
                serverSecret = "intact" \/ Spoilt
        /\ handler[r] \in MovePcs \ {"unlink"} => valid = NONE /\ waiting
        /\ handler[r] = "unlink" => valid = INVALID
    /\ \A r, o \in Requests :
        handler[r] \in MovePcs /\ handler[o] \in MovePcs => r = o

\* Before the last request is served nothing has moved; after it the move is
\* under way, was cut off, is done, or was undone by a verdict.
Moved ==
    /\ served # All =>
        /\ waiting
        /\ serverSecret = "none"
        /\ valid # VALID
        /\ valid = INVALID => verdict = INVALID
    /\ served = All =>
        \/ \E r \in All : handler[r] \in MovePcs \cup {"lost"}
        \/ /\ ~waiting \/ faults > 0
           /\ \/ (serverSecret = "intact" \/ Spoilt) /\ valid # NONE
              \/ verdict = INVALID /\ rep \notin {"idle", "mark"}
    /\ serverSecret = "torn" => valid = NONE \/ Spoilt
    /\ NeverWithoutCopy

\* What the loop over the futures has learnt when it is left.
SomeFailed == \E r \in Requests : thread[r] = "false"
AllReceived == \A r \in All : thread[r] = "true"

Awaiting ==
    /\ SomeFailed \/ \A r \in Requests : r < cur => thread[r] = "true"
    /\ cpc = "drain" => SomeFailed \/ cur = issued + 1
    /\ (cpc = "gather" \/ verdict # NONE) => SomeFailed \/ AllReceived

\* A chunk that is right came from its thread.
Received ==
    \A c \in Chunks :
        chunkFile[c] = "good" \/ c \in buf => thread[c + 1] = "true"

\* The verdict, the report of it, and what follows.
Deciding ==
    /\ verdict = NONE <=> rep = "idle"
    /\ cpc \in {"poll", "claim", "await", "drain", "gather"} => verdict = NONE
    /\ cpc = "reporting" => verdict # NONE
    /\ verdict = VALID => buf = Chunks
    /\ rep \in {"exists", "remove"} => verdict = INVALID /\ valid = INVALID
    /\ valid = VALID => verdict = VALID /\ rep = "replied"
    /\ rep = "replied" => valid = verdict
    /\ rep = "replied" /\ verdict = INVALID => serverSecret = "none"
    /\ cpc \in {"store", "flush"} => verdict = VALID
    /\ cpc \in {"store", "flush", "rmdir", "finish", "done"} =>
            verdict # NONE /\ (rep = "replied" \/ "report" \in mishap)
    /\ rep = "failed" => "report" \in mishap
    /\ clientSecret # "none" =>
            verdict = VALID /\ (rep = "replied" \/ "report" \in mishap)
    /\ cpc \in {"rmdir", "finish", "done"} /\ verdict = VALID =>
            clientSecret = "intact" \/ "store" \in mishap

IndInv ==
    /\ TypeInv
    /\ Counting
    /\ Lifecycle
    /\ Serving
    /\ Moving
    /\ Moved
    /\ Awaiting
    /\ Received
    /\ Deciding

-----------------------------------------------------------------------------
(* What the proofs need of the client's requests. Counting, Awaiting and   *)
(* Received give it when the poll cannot fall into the gap; AlignedProofs  *)
(* has another invariant that gives it.                                    *)

Issuing ==
    /\ tail["server"] # "done" => issued = 0
    /\ cpc = "claim" => issued + 1 \in Requests
    /\ 1 .. issued \subseteq Requests
    /\ cur \in 1 .. (issued + 1)

\* Only the first PROGRESS requests are counted, and a verdict means that
\* each of them was received or that one of them was refused.
Answered ==
    /\ served \subseteq All
    /\ \A r \in Requests : handler[r] \in MovePcs \cup {"count"} => r \in All
    /\ verdict # NONE => AllReceived \/ \E f \in All : handler[f] = "err"
    /\ verdict = VALID => AllReceived

RoundInv ==
    /\ TypeInv
    /\ Issuing
    /\ Answered
    /\ Lifecycle
    /\ Serving
    /\ Moving
    /\ Moved
    /\ Deciding

-----------------------------------------------------------------------------
(* Type correctness, of the code as it is.                                 *)

LEMMA TypeInit == Init => TypeInv
  BY TransferAssumption
     DEF Init, TypeInv, TypeOK, Claims, Sources, Chunks, Requests, LoopPcs,
         ThreadPcs, HandlerPcs, ReportPcs, NONE, VALID, INVALID

LEMMA FaultTyped ==
  ASSUME TypeOK, NEW calls \in SUBSET Unchecked, Fault(calls)
  PROVE  faults' \in 0 .. MaxFaults /\ mishap' \subseteq Unchecked
<1>1. faults' \in 0 .. MaxFaults
  BY TransferAssumption DEF TypeOK, Fault
<1>2. mishap' \subseteq Unchecked
  BY DEF TypeOK, Fault
<1> QED
  BY <1>1, <1>2

\* Every step keeps the types, and the counter below its bound.
LEMMA TypeStep == TypeInv /\ [Next]_vars => TypeInv'
<1> SUFFICES ASSUME TypeInv, [Next]_vars PROVE TypeInv'
  OBVIOUS
<1> USE TransferAssumption
    DEF TypeInv, TypeOK, Claims, Sources, Chunks, Requests, LoopPcs, NONE,
        VALID, INVALID, redisVars, serverVars, fileVars, loopVars,
        requestVars, faultVars
<1>1. ASSUME NEW s \in Sources, PublishTime(s) \/ PublishCount(s)
      PROVE  TypeInv'
  <2>1. CASE PublishTime(s)
    BY <2>1 DEF PublishTime
  <2>2. CASE PublishCount(s)
    BY <2>2 DEF PublishCount
  <2> QED
    BY <1>1, <2>1, <2>2
<1>2. CASE ClientPoll
  BY <1>2 DEF ClientPoll, Published
<1>3. CASE ClientClaim
  <2> DEFINE p == count["client"] + 1
             r == issued + 1
  <2>1. p \in Nat /\ p <= PROGRESS /\ r \in Nat
    BY <1>3 DEF ClientClaim
  <2>2. /\ count' = [count EXCEPT !["client"] = p]
        /\ progress' = p
        /\ issued' = r
        /\ chunkOf' = [chunkOf EXCEPT ![r] = ChunkAt(p)]
        /\ thread' = [thread EXCEPT ![r] = "wait"]
        /\ handler' = [handler EXCEPT ![r] = "check"]
    BY <1>3, <2>1 DEF ClientClaim
  <2>3. cpc' \in {"await", "claim"} /\ (cpc' = "claim" => p < PROGRESS)
    BY <1>3, <2>1 DEF ClientClaim, Complete
  <2>4. UNCHANGED <<tail, valid, serverVars, fileVars, keysAgree, cur, num,
                    buf, verdict, loaded, served, rep, faultVars>>
    BY <1>3 DEF ClientClaim
  <2> HIDE DEF p, r
  <2>5. ChunkAt(p) \in Chunks
    BY <2>1 DEF ChunkAt, p
  <2>6. /\ count' \in [Sources -> Nat]
        /\ count'["client"] = p
        /\ chunkOf' \in [Requests -> Chunks]
    BY <2>1, <2>2, <2>5
  <2>7. /\ thread' \in [Requests -> ThreadPcs]
        /\ handler' \in [Requests -> HandlerPcs]
    BY <2>1, <2>2 DEF ThreadPcs, HandlerPcs, ServingPcs
  <2> QED
    BY <2>1, <2>2, <2>3, <2>4, <2>6, <2>7
<1>4. CASE ClientAwait
  BY <1>4 DEF ClientAwait, AfterBatch, Complete
<1>5. CASE ClientDrain
  BY <1>5 DEF ClientDrain
<1>6. CASE ClientGather
  <2>1. num \in Chunks
    BY <1>6 DEF ClientGather
  <2>2. buf' \subseteq Chunks
    BY <1>6, <2>1 DEF ClientGather
  <2> QED
    BY <1>6, <2>2 DEF ClientGather
<1>7. CASE ClientReport
  BY <1>7 DEF ClientReport, ReportPcs, ReportRunning
<1>8. CASE ClientReported
  BY <1>8 DEF ClientReported, AfterReport
<1>9. CASE ClientStore
  BY <1>9 DEF ClientStore
<1>10. CASE ClientRmdir
  BY <1>10 DEF ClientRmdir
<1>11. CASE ClientFinish
  BY <1>11 DEF ClientFinish
<1>12. ASSUME NEW r \in Requests, Thread(r) PROVE TypeInv'
  <2>1. CASE ThreadReply(r)
    <3>1. thread' \in [Requests -> ThreadPcs]
      BY <2>1 DEF ThreadReply, ThreadStep, ThreadPcs
    <3>2. UNCHANGED <<redisVars, serverVars, fileVars, keysAgree, loopVars,
                      chunkOf, handler, loaded, served, rep, faultVars>>
      BY <2>1 DEF ThreadReply, ThreadStep
    <3> QED
      BY <3>1, <3>2
  <2>2. CASE ThreadOpen(r)
    BY <2>2 DEF ThreadOpen, ThreadStep, ThreadPcs
  <2>3. CASE ThreadWrite(r)
    <3>1. thread' \in [Requests -> ThreadPcs]
      BY <2>3 DEF ThreadWrite, ThreadStep, ThreadPcs
    <3>2. Written(r) \subseteq {"none", "partial", "good", "bad"}
      BY DEF Written
    <3>3. chunkFile' \in [Chunks -> {"none", "partial", "good", "bad"}]
      BY <2>3, <3>2 DEF ThreadWrite
    <3> QED
      BY <2>3, <3>1, <3>3 DEF ThreadWrite, ThreadStep
  <2> QED
    BY <1>12, <2>1, <2>2, <2>3 DEF Thread
<1>13. ASSUME NEW r \in Requests, Handler(r) PROVE TypeInv'
  <2>1. CASE HandlerCheck(r)
    BY <2>1 DEF HandlerCheck, HandlerGoto, HandlerPcs, ServingPcs, MovePcs
  <2>2. CASE HandlerFresh(r)
    BY <2>2 DEF HandlerFresh, HandlerGoto, HandlerPcs, ServingPcs, MovePcs
  <2>3. CASE HandlerOpen(r)
    BY <2>3 DEF HandlerOpen, HandlerGoto, HandlerPcs, ServingPcs, MovePcs
  <2>4. CASE HandlerCount(r)
    BY <2>4 DEF HandlerCount, HandlerGoto, HandlerPcs, ServingPcs, MovePcs
  <2>5. CASE HandlerMember(r)
    BY <2>5 DEF HandlerMember, HandlerGoto, HandlerPcs, ServingPcs, MovePcs
  <2>6. CASE HandlerLoad(r)
    BY <2>6 DEF HandlerLoad, HandlerGoto, HandlerPcs, ServingPcs, MovePcs
  <2>7. CASE HandlerCopy(r)
    BY <2>7 DEF HandlerCopy, HandlerGoto, HandlerPcs, ServingPcs, MovePcs
  <2>8. CASE HandlerFlush(r)
    BY <2>8 DEF HandlerFlush, HandlerGoto, HandlerPcs, ServingPcs, MovePcs
  <2>9. CASE HandlerMark(r)
    BY <2>9 DEF HandlerMark, HandlerGoto, HandlerPcs, ServingPcs, MovePcs
  <2>10. CASE HandlerUnlink(r)
    <3>1. waiting' \in BOOLEAN
      BY <2>10, Zenon DEF HandlerUnlink
    <3>2. handler' \in [Requests -> HandlerPcs]
      BY <2>10 DEF HandlerUnlink, HandlerGoto, HandlerPcs
    <3> QED
      BY <2>10, <3>1, <3>2 DEF HandlerUnlink, HandlerGoto
  <2> QED
    BY <1>13, <2>1, <2>2, <2>3, <2>4, <2>5, <2>6, <2>7, <2>8, <2>9, <2>10
       DEF Handler
<1>14. CASE Report
  <2>1. CASE ReportMark
    BY <2>1 DEF ReportMark, ReportGoto, ReportPcs, ReportRunning
  <2>2. CASE ReportExists
    BY <2>2 DEF ReportExists, ReportGoto, ReportPcs, ReportRunning
  <2>3. CASE ReportRemove
    BY <2>3 DEF ReportRemove, ReportGoto, ReportPcs, ReportRunning
  <2> QED
    BY <1>14, <2>1, <2>2, <2>3 DEF Report
<1>15. ASSUME NEW r \in Requests,
             \/ OpenFails(r) \/ WriteFails(r) \/ ReplyTimesOut(r)
             \/ HandlerThrows(r) \/ MoveFails(r) \/ UnlinkFails(r)
      PROVE  TypeInv'
  <2>1. CASE OpenFails(r)
    BY <2>1 DEF OpenFails, Fault, HandlerGoto, HandlerPcs
  <2>2. CASE WriteFails(r)
    BY <2>2 DEF WriteFails, Fault, ThreadStep, ThreadPcs
  <2>3. CASE ReplyTimesOut(r)
    BY <2>3 DEF ReplyTimesOut, Fault, ThreadStep, ThreadPcs
  <2>4. CASE HandlerThrows(r) \/ MoveFails(r) \/ UnlinkFails(r)
    <3>1. \E to \in HandlerPcs : handler' = [handler EXCEPT ![r] = to]
      BY <2>4 DEF HandlerThrows, MoveFails, UnlinkFails, HandlerGoto,
                  HandlerPcs, MovePcs
    <3>2. Fault({}) \/ Fault({"copy"})
      BY <2>4 DEF HandlerThrows, MoveFails, UnlinkFails
    <3>3. faults' \in 0 .. MaxFaults /\ mishap' \subseteq Unchecked
      BY <3>2, FaultTyped DEF Unchecked
    <3>4. UNCHANGED <<redisVars, serverVars, fileVars, keysAgree, loopVars,
                      chunkOf, thread, loaded, served, rep>>
      BY <2>4 DEF HandlerThrows, MoveFails, UnlinkFails, HandlerGoto
    <3> QED
      BY <3>1, <3>3, <3>4
  <2> QED
    BY <1>15, <2>1, <2>2, <2>3, <2>4
<1>16. CASE ReportTimesOut \/ ReportThrows \/ ClientStoreFails
  <2>1. /\ Fault({"report"}) \/ Fault({"store"})
        /\ cpc' \in {cpc, "store", "rmdir"}
        /\ rep' \in {rep, "failed"}
        /\ UNCHANGED <<redisVars, serverVars, fileVars, keysAgree, progress,
                       issued, cur, num, buf, verdict, requestVars>>
    BY <1>16 DEF ReportTimesOut, AfterReport, ReportThrows, ClientStoreFails
  <2>2. faults' \in 0 .. MaxFaults /\ mishap' \subseteq Unchecked
    BY <2>1, FaultTyped DEF Unchecked
  <2> QED
    BY <2>1, <2>2 DEF ReportPcs
<1>17. CASE ServerCrash
  BY <1>17 DEF ServerCrash, Fault, HandlerPcs, ReportPcs, Unchecked
<1>18. CASE ClientCrash
  BY <1>18 DEF ClientCrash, Fault
<1>19. CASE UNCHANGED vars
  BY <1>19 DEF vars
<1> QED
  BY <1>1, <1>2, <1>3, <1>4, <1>5, <1>6, <1>7, <1>8, <1>9, <1>10, <1>11,
     <1>12, <1>13, <1>14, <1>15, <1>16, <1>17, <1>18, <1>19
     DEF Next, Client

\* Every variable keeps its type, and the loop's counter its bound.
THEOREM TypeCorrect == Spec => []TypeOK
<1>1. TypeInv => TypeOK
  BY DEF TypeInv
<1> QED
  BY TypeInit, TypeStep, <1>1, PTL DEF Spec

-----------------------------------------------------------------------------
(* The steps, grouped by the actor that takes them, and what each group    *)
(* leaves alone.                                                           *)

PublishStep == \E s \in Sources : PublishTime(s) \/ PublishCount(s)

\* Every step of the client's main loop but the claim of a chunk.
LoopStep ==
    \/ ClientPoll \/ ClientAwait \/ ClientDrain \/ ClientGather
    \/ ClientReport \/ ClientReported \/ ClientStore \/ ClientRmdir
    \/ ClientFinish \/ ReportTimesOut \/ ClientStoreFails \/ ClientCrash

ThreadAct(r) == Thread(r) \/ WriteFails(r) \/ ReplyTimesOut(r)

HandlerAct(r) ==
    \/ Handler(r) \/ OpenFails(r)
    \/ HandlerThrows(r) \/ MoveFails(r) \/ UnlinkFails(r)

ReportAct == Report \/ ReportThrows

LEMMA StepKinds ==
  ASSUME [Next]_vars
  PROVE  \/ PublishStep
         \/ ClientClaim
         \/ LoopStep
         \/ \E r \in Requests : ThreadAct(r)
         \/ \E r \in Requests : HandlerAct(r)
         \/ ReportAct
         \/ ServerCrash
         \/ UNCHANGED vars
  BY DEF Next, Client, PublishStep, LoopStep, ThreadAct, HandlerAct, ReportAct

LEMMA PublishFrame ==
  ASSUME PublishStep
  PROVE  UNCHANGED <<valid, waiting, serverSecret, chunkFile, dir,
                     clientSecret, cpc, progress, issued, cur, num, buf,
                     verdict, chunkOf, thread, handler, loaded, served, rep>>
  BY DEF PublishStep, PublishTime, PublishCount, serverVars, fileVars,
         loopVars, requestVars

LEMMA ClaimFrame ==
  ASSUME TypeInv, ClientClaim
  PROVE  /\ cpc = "claim" /\ cpc' \in {"claim", "await"}
         /\ count["client"] < PROGRESS
         /\ count' = [count EXCEPT !["client"] = @ + 1]
         /\ progress' = count["client"] + 1
         /\ cpc' = "claim" => progress' < PROGRESS
         /\ issued' = issued + 1
         /\ chunkOf' = [chunkOf EXCEPT ![issued + 1] = count["client"]]
         /\ thread' = [thread EXCEPT ![issued + 1] = "wait"]
         /\ handler' = [handler EXCEPT ![issued + 1] = "check"]
         /\ UNCHANGED <<tail, valid, waiting, serverSecret, chunkFile, dir,
                        clientSecret, cur, num, buf, verdict, loaded, served,
                        rep>>
<1> USE TransferAssumption
    DEF TypeInv, TypeOK, Claims, Sources
<1>1. /\ cpc = "claim"
      /\ count["client"] \in Nat
      /\ count["client"] < PROGRESS
      /\ PROGRESS \in Nat
  BY DEF ClientClaim
<1>2. /\ count' = [count EXCEPT !["client"] = count["client"] + 1]
      /\ progress' = count["client"] + 1
      /\ issued' = issued + 1
      /\ chunkOf' = [chunkOf EXCEPT ![issued + 1] =
                        ChunkAt(count["client"] + 1)]
      /\ thread' = [thread EXCEPT ![issued + 1] = "wait"]
      /\ handler' = [handler EXCEPT ![issued + 1] = "check"]
  BY <1>1 DEF ClientClaim
<1>3. ChunkAt(count["client"] + 1) = count["client"]
  BY <1>1 DEF ChunkAt
<1>4. /\ cpc' \in {"claim", "await"}
      /\ cpc' = "claim" => count["client"] + 1 < PROGRESS
  BY <1>1 DEF ClientClaim, Complete
<1>5. UNCHANGED <<tail, valid, waiting, serverSecret, chunkFile, dir,
                  clientSecret, cur, num, buf, verdict, loaded, served, rep>>
  BY DEF ClientClaim, serverVars, fileVars
<1> QED
  BY <1>1, <1>2, <1>3, <1>4, <1>5

LEMMA LoopFrame ==
  ASSUME LoopStep
  PROVE  UNCHANGED <<tail, count, valid, waiting, serverSecret, progress,
                     issued, chunkOf, thread, handler, loaded, served>>
<1> USE DEF redisVars, serverVars, requestVars
<1>1. CASE ClientPoll \/ ClientAwait \/ ClientDrain
  BY <1>1 DEF ClientPoll, ClientAwait, ClientDrain
<1>2. CASE ClientGather \/ ClientReport \/ ClientReported
  BY <1>2 DEF ClientGather, ClientReport, ClientReported
<1>3. CASE ClientStore \/ ClientRmdir \/ ClientFinish
  BY <1>3 DEF ClientStore, ClientRmdir, ClientFinish
<1>4. CASE ReportTimesOut \/ ClientStoreFails \/ ClientCrash
  BY <1>4 DEF ReportTimesOut, ClientStoreFails, ClientCrash
<1> QED
  BY <1>1, <1>2, <1>3, <1>4 DEF LoopStep

\* A thread goes from the answer to the write; a chunk file only turns good
\* as its thread ends with true.
LEMMA ThreadFrame ==
  ASSUME TypeInv, NEW r \in Requests, ThreadAct(r)
  PROVE  /\ UNCHANGED <<tail, count, valid, waiting, serverSecret, dir,
                        clientSecret, cpc, progress, issued, cur, num, buf,
                        verdict, chunkOf, handler, loaded, served, rep>>
         /\ \E to \in ThreadPcs :
              /\ thread' = [thread EXCEPT ![r] = to]
              /\ \/ thread[r] = "wait" /\ to = "open" /\ handler[r] = "ok"
                 \/ thread[r] = "wait" /\ to = "false" /\ handler[r] = "err"
                 \/ thread[r] = "wait" /\ to = "throw"
                 \/ thread[r] = "open" /\ to = "write"
                 \/ thread[r] = "write" /\ to = "true"
         /\ \A c \in Chunks :
              (chunkFile'[c] = "good" /\ chunkFile[c] # "good") =>
                  c = chunkOf[r] /\ thread'[r] = "true"
<1> USE DEF ThreadStep, redisVars, serverVars, loopVars
<1> thread \in [Requests -> ThreadPcs] /\
    chunkFile \in [Chunks -> {"none", "partial", "good", "bad"}] /\
    chunkOf \in [Requests -> Chunks]
  BY DEF TypeInv, TypeOK
<1>1. CASE ThreadReply(r)
  <2>1. UNCHANGED <<tail, count, valid, waiting, serverSecret, dir,
                    clientSecret, cpc, progress, issued, cur, num, buf,
                    verdict, chunkOf, handler, loaded, served, rep, chunkFile>>
    BY <1>1 DEF ThreadReply
  <2>2. \/ /\ thread' = [thread EXCEPT ![r] = "open"]
           /\ thread[r] = "wait" /\ handler[r] = "ok"
        \/ /\ thread' = [thread EXCEPT ![r] = "false"]
           /\ thread[r] = "wait" /\ handler[r] = "err"
        \/ /\ thread' = [thread EXCEPT ![r] = "throw"]
           /\ thread[r] = "wait"
    BY <1>1 DEF ThreadReply
  <2> QED
    BY <2>1, <2>2 DEF ThreadPcs
<1>2. CASE ThreadOpen(r)
  <2>1. chunkFile' = [chunkFile EXCEPT ![chunkOf[r]] =
            IF dir /\ @ = "none" THEN "partial" ELSE @]
    BY <1>2 DEF ThreadOpen
  <2>2. /\ thread[r] = "open"
        /\ thread' = [thread EXCEPT ![r] = "write"]
    BY <1>2 DEF ThreadOpen
  <2>3. UNCHANGED <<tail, count, valid, waiting, serverSecret, dir,
                    clientSecret, cpc, progress, issued, cur, num, buf,
                    verdict, chunkOf, handler, loaded, served, rep>>
    BY <1>2 DEF ThreadOpen
  <2>4. \A c \in Chunks : chunkFile'[c] = "good" => chunkFile[c] = "good"
    BY <2>1
  <2> QED
    BY <2>2, <2>3, <2>4 DEF ThreadPcs
<1>3. CASE ThreadWrite(r) \/ WriteFails(r)
  <2>1. /\ thread[r] = "write"
        /\ thread' = [thread EXCEPT ![r] = "true"]
    BY <1>3 DEF ThreadWrite, WriteFails
  <2>2. UNCHANGED <<tail, count, valid, waiting, serverSecret, dir,
                    clientSecret, cpc, progress, issued, cur, num, buf,
                    verdict, chunkOf, handler, loaded, served, rep>>
    BY <1>3 DEF ThreadWrite, WriteFails
  <2>3. \A c \in Chunks : c # chunkOf[r] => chunkFile'[c] = chunkFile[c]
    BY <1>3 DEF ThreadWrite, WriteFails
  <2> QED
    BY <2>1, <2>2, <2>3 DEF ThreadPcs
<1>4. CASE ReplyTimesOut(r)
  <2>1. /\ thread[r] = "wait"
        /\ thread' = [thread EXCEPT ![r] = "throw"]
        /\ UNCHANGED <<tail, count, valid, waiting, serverSecret, dir,
                       clientSecret, cpc, progress, issued, cur, num, buf,
                       verdict, chunkOf, handler, loaded, served, rep,
                       chunkFile>>
    BY <1>4 DEF ReplyTimesOut
  <2> QED
    BY <2>1 DEF ThreadPcs
<1> QED
  BY <1>1, <1>2, <1>3, <1>4 DEF ThreadAct, Thread

\* A handler steps from one of its own states, and not back to "none".
LEMMA HandlerFrame ==
  ASSUME TypeInv, NEW r \in Requests, HandlerAct(r)
  PROVE  /\ UNCHANGED <<tail, chunkFile, dir, clientSecret, cpc, progress,
                        issued, cur, num, buf, verdict, chunkOf, thread, rep>>
         /\ count'["client"] = count["client"]
         /\ handler[r] \in ServingPcs \cup MovePcs
         /\ \E to \in ServingPcs \cup MovePcs \cup {"ok", "err", "lost"} :
               handler' = [handler EXCEPT ![r] = to]
<1> USE DEF HandlerGoto, fileVars, loopVars, ServingPcs, MovePcs
<1> count \in [Sources -> Nat]
  BY DEF TypeInv, TypeOK
<1>1. CASE HandlerCheck(r) \/ HandlerFresh(r) \/ HandlerOpen(r)
  BY <1>1 DEF HandlerCheck, HandlerFresh, HandlerOpen
<1>2. CASE HandlerCount(r)
  BY <1>2 DEF HandlerCount, Sources
<1>3. CASE HandlerMember(r) \/ HandlerLoad(r) \/ HandlerCopy(r)
  BY <1>3 DEF HandlerMember, HandlerLoad, HandlerCopy
<1>4. CASE HandlerFlush(r) \/ HandlerMark(r) \/ HandlerUnlink(r)
  BY <1>4 DEF HandlerFlush, HandlerMark, HandlerUnlink
<1>5. CASE OpenFails(r) \/ HandlerThrows(r)
  BY <1>5 DEF OpenFails, HandlerThrows
<1>6. CASE MoveFails(r) \/ UnlinkFails(r)
  BY <1>6 DEF MoveFails, UnlinkFails
<1> QED
  BY <1>1, <1>2, <1>3, <1>4, <1>5, <1>6 DEF HandlerAct, Handler

LEMMA ReportFrame ==
  ASSUME ReportAct
  PROVE  UNCHANGED <<tail, count, waiting, chunkFile, dir, clientSecret, cpc,
                     progress, issued, cur, num, buf, verdict, chunkOf,
                     thread, handler, loaded, served>>
  BY DEF ReportAct, Report, ReportMark, ReportExists, ReportRemove,
         ReportGoto, ReportThrows, redisVars, serverVars, fileVars, loopVars,
         requestVars

LEMMA CrashFrame ==
  ASSUME ServerCrash
  PROVE  /\ UNCHANGED <<tail, count, valid, waiting, serverSecret, chunkFile,
                        dir, clientSecret, cpc, progress, issued, cur, num,
                        buf, verdict, chunkOf, thread, loaded, served>>
         /\ handler' = [r \in Requests |->
                          IF handler[r] \in ServingPcs \cup MovePcs
                          THEN "lost" ELSE handler[r]]
         /\ rep' = IF rep \in ReportRunning THEN "failed" ELSE rep
         /\ mishap' = mishap \cup IF rep \in ReportRunning
                                  THEN {"report"} ELSE {}
  BY DEF ServerCrash, Fault, redisVars, serverVars, fileVars, loopVars

\* What has failed is not forgotten.
LEMMA FaultsGrow ==
  ASSUME TypeInv, [Next]_vars
  PROVE  mishap \subseteq mishap' /\ (faults > 0 => faults' > 0)
<1> faults \in Nat
  BY TransferAssumption DEF TypeInv, TypeOK
<1>1. ASSUME NEW calls, Fault(calls)
      PROVE  mishap \subseteq mishap' /\ (faults > 0 => faults' > 0)
  BY <1>1 DEF Fault
<1>2. ASSUME UNCHANGED faultVars
      PROVE  mishap \subseteq mishap' /\ (faults > 0 => faults' > 0)
  BY <1>2 DEF faultVars
<1>3. CASE PublishStep \/ Report \/ UNCHANGED vars
  <2> UNCHANGED faultVars
    BY <1>3 DEF PublishStep, PublishTime, PublishCount, Report, ReportMark,
                ReportExists, ReportRemove, ReportGoto, vars
  <2> QED
    BY <1>2
<1>4. CASE Client
  <2> UNCHANGED faultVars
    BY <1>4 DEF Client, ClientPoll, ClientClaim, ClientAwait, ClientDrain,
                ClientGather, ClientReport, ClientReported, ClientStore,
                ClientRmdir, ClientFinish
  <2> QED
    BY <1>2
<1>5. CASE \E r \in Requests : Thread(r) \/ Handler(r)
  <2> UNCHANGED faultVars
    BY <1>5 DEF Thread, ThreadReply, ThreadOpen, ThreadWrite, Handler,
                HandlerCheck, HandlerFresh, HandlerOpen, HandlerCount,
                HandlerMember, HandlerLoad, HandlerCopy, HandlerFlush,
                HandlerMark, HandlerUnlink
  <2> QED
    BY <1>2
<1>6. CASE \E r \in Requests : OpenFails(r) \/ WriteFails(r)
  BY <1>1, <1>6 DEF OpenFails, WriteFails
<1>7. CASE \E r \in Requests : ReplyTimesOut(r) \/ HandlerThrows(r)
  BY <1>1, <1>7 DEF ReplyTimesOut, HandlerThrows
<1>8. CASE \E r \in Requests : MoveFails(r) \/ UnlinkFails(r)
  BY <1>1, <1>8 DEF MoveFails, UnlinkFails
<1>9. CASE ReportTimesOut \/ ReportThrows \/ ClientStoreFails
  BY <1>1, <1>9 DEF ReportTimesOut, ReportThrows, ClientStoreFails
<1>10. CASE ServerCrash \/ ClientCrash
  BY <1>1, <1>10 DEF ServerCrash, ClientCrash
<1> QED
  BY <1>3, <1>4, <1>5, <1>6, <1>7, <1>8, <1>9, <1>10 DEF Next, PublishStep

-----------------------------------------------------------------------------
(* The inductive invariant holds initially ...                             *)

LEMMA InvInit == Init => IndInv
<1> SUFFICES ASSUME Init PROVE IndInv
  OBVIOUS
<1> USE TransferAssumption
    DEF Init, Requests, Chunks, NONE, VALID, INVALID, MovePcs, ServingPcs
<1>1. TypeInv
  BY TypeInit
<1>2. Counting /\ Lifecycle /\ Deciding
  BY DEF Counting, Lifecycle, Deciding, Sources
<1>3. Serving
  BY FS_EmptySet DEF Serving, Sources
<1>4. Moving
  BY DEF Moving
<1>5. 1 \in All /\ 1 \notin served
  BY DEF All
<1>6. Moved
  BY <1>5 DEF Moved, NeverWithoutCopy
<1>7. Awaiting /\ Received
  BY DEF Awaiting, Received, SomeFailed, AllReceived
<1> QED
  BY <1>1, <1>2, <1>3, <1>4, <1>6, <1>7 DEF IndInv

-----------------------------------------------------------------------------
(* ... and is kept by every step, part by part.                            *)

LEMMA CountingStep ==
  ASSUME IndInv, [Next]_vars, ~PublishGap
  PROVE  Counting'
<1> USE TransferAssumption DEF IndInv, Counting
<1> TypeInv /\ count \in [Sources -> Nat] /\ issued \in Nat /\ cur \in Nat
    /\ tail \in [Sources -> {"files", "time", "done"}]
  BY DEF TypeInv, TypeOK
<1>1. CASE PublishStep
  <2>1. PICK s \in Sources : PublishTime(s) \/ PublishCount(s)
    BY <1>1 DEF PublishStep
  <2>2. CASE PublishTime(s)
    BY <1>1, <2>2, PublishFrame DEF PublishTime, Sources
  <2>3. CASE PublishCount(s)
    BY <1>1, <2>3, PublishFrame DEF PublishCount, Sources
  <2> QED
    BY <2>1, <2>2, <2>3
<1>2. CASE ClientClaim
  BY <1>2, ClaimFrame DEF Sources, Requests, TypeInv, TypeOK
<1>3. CASE LoopStep
  <2>1. UNCHANGED <<tail, count, progress, issued, chunkOf>>
    BY <1>3, LoopFrame
  <2>2. cpc' # "poll" /\ (cpc = "poll" => cpc' = "dead" \/ Published)
    BY <1>3 DEF LoopStep, ClientPoll, ClientAwait, AfterBatch, ClientDrain,
                ClientGather, ClientReport, ClientReported, AfterReport, ClientStore,
                ClientRmdir, ClientFinish, ReportTimesOut, ClientStoreFails, ClientCrash
  <2>3. cpc = "dead" => cpc' = "dead"
    BY <1>3 DEF LoopStep, ClientPoll, ClientAwait, AfterBatch, ClientDrain,
                ClientGather, ClientReport, ClientReported, AfterReport, ClientStore,
                ClientRmdir, ClientFinish, ReportTimesOut, ClientStoreFails, ClientCrash
  <2>4. cur' \in 1 .. (issued + 1)
    <3>1. CASE ClientAwait
      BY <3>1 DEF ClientAwait
    <3>2. CASE ClientDrain
      BY <3>2 DEF ClientDrain
    <3>3. CASE ~ClientAwait /\ ~ClientDrain
      BY <1>3, <3>3
         DEF LoopStep, ClientPoll, ClientGather, ClientReport,
             ClientReported, ClientStore, ClientRmdir, ClientFinish,
             ReportTimesOut, ClientStoreFails, ClientCrash
    <3> QED
      BY <3>1, <3>2, <3>3
  <2>5. Published => tail["client"] = "done"
    BY DEF Published
  <2> QED
    BY <2>1, <2>2, <2>3, <2>4, <2>5
<1>4. ASSUME NEW r \in Requests, ThreadAct(r) PROVE Counting'
  BY <1>4, ThreadFrame
<1>5. ASSUME NEW r \in Requests, HandlerAct(r) PROVE Counting'
  BY <1>5, HandlerFrame
<1>6. CASE ReportAct
  BY <1>6, ReportFrame
<1>7. CASE ServerCrash
  BY <1>7, CrashFrame
<1>8. CASE UNCHANGED vars
  BY <1>8 DEF vars, redisVars, loopVars, requestVars
<1> QED
  BY <1>1, <1>2, <1>3, <1>4, <1>5, <1>6, <1>7, <1>8, StepKinds

LEMMA LifecycleStep ==
  ASSUME RoundInv, [Next]_vars
  PROVE  Lifecycle'
<1> USE DEF RoundInv, Lifecycle
<1> TypeInv /\ issued \in Nat
    /\ thread \in [Requests -> ThreadPcs]
    /\ handler \in [Requests -> HandlerPcs]
  BY DEF TypeInv, TypeOK
<1>1. CASE PublishStep
  BY <1>1, PublishFrame
<1>2. CASE ClientClaim
  <2>1. issued + 1 \in Requests
    BY <1>2, ClaimFrame DEF Issuing
  <2>2. /\ issued' = issued + 1
        /\ thread' = [thread EXCEPT ![issued + 1] = "wait"]
        /\ handler' = [handler EXCEPT ![issued + 1] = "check"]
    BY <1>2, ClaimFrame
  <2>3. ASSUME NEW r \in Requests, r = issued + 1
        PROVE  thread'[r] = "wait" /\ handler'[r] = "check" /\ ~(r > issued')
    BY <2>1, <2>2, <2>3
  <2>4. ASSUME NEW r \in Requests, r # issued + 1
        PROVE  /\ thread'[r] = thread[r] /\ handler'[r] = handler[r]
               /\ r > issued' <=> r > issued
    BY <2>2, <2>4 DEF Requests
  <2> QED
    BY <2>3, <2>4
<1>3. CASE LoopStep
  BY <1>3, LoopFrame
<1>4. ASSUME NEW r \in Requests, ThreadAct(r) PROVE Lifecycle'
  BY <1>4, ThreadFrame
<1>5. ASSUME NEW r \in Requests, HandlerAct(r) PROVE Lifecycle'
  BY <1>5, HandlerFrame DEF ServingPcs, MovePcs
<1>6. CASE ReportAct
  BY <1>6, ReportFrame
<1>7. CASE ServerCrash
  BY <1>7, CrashFrame DEF ServingPcs, MovePcs
<1>8. CASE UNCHANGED vars
  BY <1>8 DEF vars, loopVars, requestVars
<1> QED
  BY <1>1, <1>2, <1>3, <1>4, <1>5, <1>6, <1>7, <1>8, StepKinds

LEMMA ReceivedStep ==
  ASSUME IndInv, [Next]_vars
  PROVE  Received'
<1> USE TransferAssumption DEF IndInv, Received, Chunks
<1> TypeInv /\ issued \in Nat /\ issued <= PROGRESS
    /\ thread \in [Requests -> ThreadPcs]
    /\ chunkFile \in [Chunks -> {"none", "partial", "good", "bad"}]
    /\ \A c \in Chunks : c + 1 \in Requests
  BY DEF TypeInv, TypeOK, Counting, Requests
<1>1. CASE PublishStep
  BY <1>1, PublishFrame
<1>2. CASE ClientClaim
  BY <1>2, ClaimFrame DEF Lifecycle
<1>3. CASE LoopStep
  <2>1. thread' = thread
    BY <1>3, LoopFrame
  <2>2. CASE ClientGather
    BY <2>1, <2>2 DEF ClientGather
  <2>3. CASE ~ClientGather
    BY <1>3, <2>1, <2>3
       DEF LoopStep, ClientPoll, ClientAwait, ClientDrain, ClientReport,
           ClientReported, ClientStore, ClientRmdir, ClientFinish,
           ReportTimesOut, ClientStoreFails, ClientCrash, fileVars
  <2> QED
    BY <2>2, <2>3
<1>4. ASSUME NEW r \in Requests, ThreadAct(r) PROVE Received'
  <2>1. \A o \in Requests : thread[o] = "true" => thread'[o] = "true"
    BY <1>4, ThreadFrame
  <2>2. ASSUME NEW c \in Chunks, chunkFile'[c] = "good",
               chunkFile[c] # "good"
        PROVE  thread'[c + 1] = "true"
    <3>1. c = chunkOf[r] /\ thread'[r] = "true"
      BY <1>4, <2>2, ThreadFrame
    <3>2. thread[r] # "none"
      BY <1>4, ThreadFrame
    <3>3. r \in 1 .. issued
      BY <3>2 DEF Lifecycle, Requests
    <3>4. c + 1 = r
      BY <3>1, <3>3 DEF Counting
    <3> QED
      BY <3>1, <3>4
  <2>3. buf' = buf
    BY <1>4, ThreadFrame
  <2> QED
    BY <2>1, <2>2, <2>3
<1>5. ASSUME NEW r \in Requests, HandlerAct(r) PROVE Received'
  BY <1>5, HandlerFrame
<1>6. CASE ReportAct
  BY <1>6, ReportFrame
<1>7. CASE ServerCrash
  BY <1>7, CrashFrame
<1>8. CASE UNCHANGED vars
  BY <1>8 DEF vars, fileVars, loopVars, requestVars
<1> QED
  BY <1>1, <1>2, <1>3, <1>4, <1>5, <1>6, <1>7, <1>8, StepKinds

\* The handler that counts finds nothing moving, and completes the count
\* exactly when it serves the last request.
LEMMA CountFacts ==
  ASSUME RoundInv, NEW r \in Requests, handler[r] = "count"
  PROVE  /\ r \in All /\ r \notin served /\ served # All
         /\ \A o \in Requests : handler[o] \notin MovePcs
         /\ Cardinality(served \cup {r}) = count["server"] + 1
         /\ Complete(count["server"] + 1) <=> served \cup {r} = All
<1> USE TransferAssumption DEF RoundInv
<1>1. r \in All
  BY DEF Answered
<1>2. r \notin served
  BY DEF Serving, ServingPcs
<1>3. r \in All /\ served # All
  BY <1>1, <1>2
<1>4. \A o \in Requests : handler[o] \notin MovePcs
  BY <1>3 DEF Moving
<1>5. served \cup {r} \subseteq All
  BY <1>3 DEF Answered
<1>6. IsFiniteSet(All) /\ Cardinality(All) = PROGRESS
  BY FS_Interval DEF All
<1>7. IsFiniteSet(served) /\ count["server"] = Cardinality(served)
  BY <1>5, <1>6, FS_Subset DEF Serving
<1>8. Cardinality(served \cup {r}) = count["server"] + 1
  BY <1>2, <1>7, FS_AddElement
<1>9. /\ Cardinality(served \cup {r}) <= PROGRESS
      /\ Cardinality(served \cup {r}) = PROGRESS => served \cup {r} = All
  BY <1>5, <1>6, FS_Subset
<1>10. Complete(count["server"] + 1) <=> served \cup {r} = All
  <2>1. count["server"] \in Nat
    BY <1>7, FS_CardinalityType
  <2>2. Complete(count["server"] + 1) =>
            Cardinality(served \cup {r}) = PROGRESS
    BY <2>1, <1>8, <1>9 DEF Complete
  <2>3. served \cup {r} = All => Cardinality(served \cup {r}) = PROGRESS
    BY <1>6, Zenon
  <2>4. Cardinality(served \cup {r}) = PROGRESS =>
            Complete(count["server"] + 1)
    BY <2>1, <1>8 DEF Complete
  <2> QED
    BY <2>2, <2>3, <2>4, <1>9
<1> QED
  BY <1>2, <1>3, <1>4, <1>8, <1>10

LEMMA ServingStep ==
  ASSUME RoundInv, [Next]_vars
  PROVE  Serving'
<1> USE TransferAssumption DEF RoundInv, Serving
<1> TypeInv /\ issued \in Nat
    /\ handler \in [Requests -> HandlerPcs] /\ count \in [Sources -> Nat]
    /\ tail \in [Sources -> {"files", "time", "done"}]
  BY DEF TypeInv, TypeOK
<1>1. CASE PublishStep
  <2>1. PICK s \in Sources : PublishTime(s) \/ PublishCount(s)
    BY <1>1 DEF PublishStep
  <2>2. UNCHANGED <<issued, handler, served>>
    BY <1>1, PublishFrame
  <2>3. count'["server"] = Cardinality(served)
    <3>1. CASE PublishTime(s) \/ s = "client"
      BY <2>1, <3>1 DEF PublishTime, PublishCount, Sources
    <3>2. CASE PublishCount(s) /\ s = "server"
      <4>1. count'["server"] = 0
        BY <3>2 DEF PublishCount
      <4>2. issued = 0
        BY <3>2 DEF PublishCount, Issuing, Sources
      <4>3. served = {}
        BY <4>2
      <4> QED
        BY <4>1, <4>3, FS_EmptySet
    <3> QED
      BY <2>1, <3>1, <3>2 DEF Sources
  <2> QED
    BY <2>2, <2>3
<1>2. CASE ClientClaim
  <2>1. /\ issued' = issued + 1
        /\ handler' = [handler EXCEPT ![issued + 1] = "check"]
        /\ count'["server"] = count["server"]
        /\ served' = served
    BY <1>2, ClaimFrame DEF Sources
  <2>2. issued + 1 \notin served
    OBVIOUS
  <2>3. \A r \in Requests : r # issued + 1 => handler'[r] = handler[r]
    BY <2>1
  <2>4. \A r \in Requests : r = issued + 1 => handler'[r] = "check"
    BY <2>1
  <2> QED
    BY <2>1, <2>2, <2>3, <2>4 DEF MovePcs
<1>3. CASE LoopStep
  BY <1>3, LoopFrame
<1>4. ASSUME NEW r \in Requests, ThreadAct(r) PROVE Serving'
  BY <1>4, ThreadFrame
<1>5. ASSUME NEW r \in Requests, HandlerAct(r) PROVE Serving'
  <2>1. CASE HandlerCount(r)
    <3>1. /\ handler[r] = "count"
          /\ handler' = [handler EXCEPT ![r] =
                IF Complete(count["server"] + 1) THEN "member" ELSE "ok"]
          /\ count'["server"] = count["server"] + 1
          /\ served' = served \cup {r}
      BY <2>1 DEF HandlerCount, HandlerGoto, Sources
    <3>2. r \in 1 .. issued /\ issued' = issued
      BY <3>1, <1>5, HandlerFrame DEF Lifecycle, Requests
    <3> QED
      BY <3>1, <3>2, CountFacts DEF MovePcs, ServingPcs
  <2>2. CASE ~HandlerCount(r)
    <3>1. /\ UNCHANGED <<issued, served>>
          /\ count'["server"] = count["server"]
      BY <1>5, <2>2, HandlerFrame
         DEF HandlerAct, Handler, HandlerCheck, HandlerFresh, HandlerOpen,
             HandlerMember, HandlerLoad, HandlerCopy, HandlerFlush,
             HandlerMark, HandlerUnlink, OpenFails, HandlerThrows, MoveFails,
             UnlinkFails
    <3>2. \A o \in Requests : o # r => handler'[o] = handler[o]
      BY <1>5, HandlerFrame
    <3>3. handler[r] \in ServingPcs =>
              handler'[r] \in ServingPcs \cup {"err", "lost"}
      BY <1>5, <2>2
         DEF HandlerAct, Handler, HandlerCheck, HandlerFresh, HandlerOpen,
             HandlerMember, HandlerLoad, HandlerCopy, HandlerFlush,
             HandlerMark, HandlerUnlink, OpenFails, HandlerThrows, MoveFails,
             UnlinkFails, HandlerGoto, ServingPcs
    <3>4. handler[r] \in MovePcs => handler'[r] \in MovePcs \cup {"ok", "lost"}
      BY <1>5, <2>2
         DEF HandlerAct, Handler, HandlerCheck, HandlerFresh, HandlerOpen,
             HandlerMember, HandlerLoad, HandlerCopy, HandlerFlush,
             HandlerMark, HandlerUnlink, OpenFails, HandlerThrows, MoveFails,
             UnlinkFails, HandlerGoto, MovePcs, Moving
    <3>5. handler[r] \in ServingPcs \cup MovePcs
      BY <1>5, HandlerFrame
    <3> QED
      BY <3>1, <3>2, <3>3, <3>4, <3>5 DEF ServingPcs, MovePcs
  <2> QED
    BY <2>1, <2>2
<1>6. CASE ReportAct
  BY <1>6, ReportFrame
<1>7. CASE ServerCrash
  BY <1>7, CrashFrame DEF ServingPcs, MovePcs
<1>8. CASE UNCHANGED vars
  BY <1>8 DEF vars, loopVars, requestVars, redisVars
<1> QED
  BY <1>1, <1>2, <1>3, <1>4, <1>5, <1>6, <1>7, <1>8, StepKinds

LEMMA AwaitingStep ==
  ASSUME IndInv, [Next]_vars
  PROVE  Awaiting'
<1> USE TransferAssumption DEF IndInv, Awaiting, SomeFailed, AllReceived
<1> TypeInv /\ issued \in Nat /\ issued <= PROGRESS /\ cur \in Nat
    /\ cur <= issued + 1 /\ progress = issued
    /\ thread \in [Requests -> ThreadPcs] /\ All \subseteq Requests
  BY DEF TypeInv, TypeOK, Counting, All, Requests
<1>1. CASE PublishStep
  BY <1>1, PublishFrame
<1>2. CASE ClientClaim
  <2>1. /\ thread' = [thread EXCEPT ![issued + 1] = "wait"]
        /\ cpc' \in {"claim", "await"} /\ cpc = "claim"
        /\ UNCHANGED <<cur, verdict>>
    BY <1>2, ClaimFrame
  <2>2. \A r \in Requests : r # issued + 1 => thread'[r] = thread[r]
    BY <2>1
  <2>3. \A r \in Requests : r = issued + 1 => thread[r] = "none"
    BY DEF Lifecycle
  <2>4. verdict' = NONE
    BY <2>1 DEF Deciding
  <2> QED
    BY <2>1, <2>2, <2>3, <2>4 DEF Requests
<1>3. CASE LoopStep
  <2>1. UNCHANGED <<thread, issued>>
    BY <1>3, LoopFrame
  <2>2. CASE ClientAwait
    <3>1. verdict' = NONE
      BY <2>2 DEF ClientAwait, Deciding
    <3>2. CASE cur > issued /\ cpc' = AfterBatch /\ cur' = cur
      <4>1. cpc' = "gather" => issued = PROGRESS
        BY <3>2 DEF AfterBatch, Complete
      <4>2. cpc' = "gather" => SomeFailed \/ AllReceived
        BY <3>2, <4>1 DEF All
      <4> QED
        BY <2>1, <3>1, <3>2, <4>2 DEF AfterBatch
    <3>3. CASE thread[cur] = "true" /\ cur' = cur + 1 /\ cpc' = cpc
      <4>1. cpc' = "await"
        BY <2>2, <3>3 DEF ClientAwait
      <4> QED
        BY <2>1, <3>1, <3>3, <4>1 DEF Requests
    <3>4. CASE cur <= issued /\ thread[cur] = "false" /\ cur' = cur
      <4>1. SomeFailed
        <5>1. cur \in Requests
          BY <3>4 DEF Requests, Counting
        <5> QED
          BY <3>4, <5>1
      <4> QED
        BY <2>1, <4>1
    <3>5. CASE cpc' = "dead" /\ cur' = cur
      BY <2>1, <3>1, <3>5
    <3> QED
      BY <2>2, <3>2, <3>3, <3>4, <3>5 DEF ClientAwait
  <2>3. CASE ClientDrain
    BY <2>1, <2>3 DEF ClientDrain
  <2>4. CASE ClientReport
    BY <2>1, <2>4 DEF ClientReport
  <2>5. CASE ~ClientAwait /\ ~ClientDrain /\ ~ClientReport
    <3>1. UNCHANGED <<cur, verdict>> /\ (cpc' = "gather" => cpc = "gather")
          /\ cpc' # "drain"
      BY <1>3, <2>5
         DEF LoopStep, ClientPoll, ClientGather, ClientReported, AfterReport, ClientStore,
             ClientRmdir, ClientFinish, ReportTimesOut, ClientStoreFails, ClientCrash
    <3> QED
      BY <2>1, <3>1
  <2> QED
    BY <2>2, <2>3, <2>4, <2>5
<1>4. ASSUME NEW r \in Requests, ThreadAct(r) PROVE Awaiting'
  <2>1. UNCHANGED <<cpc, cur, issued, verdict>>
    BY <1>4, ThreadFrame
  <2>2. \A o \in Requests :
            /\ thread[o] = "true" => thread'[o] = "true"
            /\ thread[o] = "false" => thread'[o] = "false"
    BY <1>4, ThreadFrame
  <2> QED
    BY <2>1, <2>2
<1>5. ASSUME NEW r \in Requests, HandlerAct(r) PROVE Awaiting'
  BY <1>5, HandlerFrame
<1>6. CASE ReportAct
  BY <1>6, ReportFrame
<1>7. CASE ServerCrash
  BY <1>7, CrashFrame
<1>8. CASE UNCHANGED vars
  BY <1>8 DEF vars, loopVars, requestVars
<1> QED
  BY <1>1, <1>2, <1>3, <1>4, <1>5, <1>6, <1>7, <1>8, StepKinds

\* Once there is a verdict nothing moves any more: either a request failed,
\* and then it was not served, or every request was answered.
LEMMA Settled ==
  ASSUME RoundInv, verdict # NONE
  PROVE  /\ \A r \in Requests : handler[r] \notin MovePcs
         /\ AllReceived => served = All /\ \A r \in All : handler[r] = "ok"
         /\ served = All => AllReceived
<1> USE TransferAssumption DEF RoundInv
<1> All \subseteq Requests
  BY DEF All, Requests
<1>1. ASSUME NEW f \in All, handler[f] = "err"
      PROVE  served # All /\ ~AllReceived
  <2>1. f \notin served
    BY <1>1 DEF Serving
  <2>2. thread[f] # "true"
    BY <1>1 DEF Lifecycle
  <2> QED
    BY <2>1, <2>2 DEF AllReceived
<1>2. CASE \E f \in All : handler[f] = "err"
  BY <1>1, <1>2 DEF Moving
<1>3. CASE AllReceived
  <2>1. \A r \in All : handler[r] = "ok"
    BY <1>3 DEF AllReceived, Lifecycle
  <2>2. All \subseteq served
    BY <2>1 DEF Serving
  <2>3. served = All
    BY <2>2 DEF Answered
  <2>4. \A r \in Requests : handler[r] \in MovePcs => r \in All
    BY DEF Answered
  <2> QED
    BY <1>3, <2>1, <2>3, <2>4 DEF MovePcs
<1> QED
  BY <1>2, <1>3 DEF Answered

\* A VALID verdict means that every chunk came from the server, and then the
\* server's own file is complete, if it could be written.
LEMMA ValidVerdict ==
  ASSUME RoundInv, verdict = VALID
  PROVE  served = All /\ (serverSecret = "intact" \/ Spoilt) /\ valid # NONE
<1> USE DEF RoundInv, NONE, VALID, INVALID
<1>1. AllReceived
  BY DEF Answered
<1>2. served = All /\ \A r \in All : handler[r] = "ok"
  BY <1>1, Settled
<1> QED
  BY <1>2 DEF Moved, MovePcs

\* When a verdict arrives the secret file is not being written.
LEMMA NotTorn ==
  ASSUME RoundInv, rep = "mark"
  PROVE  serverSecret # "torn" \/ Spoilt
<1> USE DEF RoundInv
<1>1. verdict # NONE
  BY DEF Deciding
<1>2. served = All => \A r \in All : handler[r] = "ok"
  BY <1>1, Settled
<1> QED
  BY <1>2 DEF Moved, MovePcs

\* Who serves the last request comes before any verdict: no request failed,
\* since that one would not be served, and its own answer is still to come.
LEMMA LastCount ==
  ASSUME RoundInv, NEW r \in Requests, handler[r] = "count",
         Complete(count["server"] + 1)
  PROVE  verdict = NONE /\ waiting /\ serverSecret = "none" /\ valid = NONE
<1> USE DEF RoundInv
<1>1. r \in All /\ served # All /\ served \cup {r} = All
  BY CountFacts
<1>2. ~AllReceived
  <2>1. All \subseteq Requests
    BY TransferAssumption DEF All, Requests
  <2> QED
    BY <1>1, <2>1 DEF AllReceived, Lifecycle
<1>3. ASSUME NEW f \in All, handler[f] = "err" PROVE FALSE
  <2>1. f \notin served /\ f # r
    BY <1>3, TransferAssumption DEF Serving, All, Requests
  <2> QED
    BY <1>1, <2>1
<1>4. verdict = NONE
  BY <1>2, <1>3 DEF Answered
<1> QED
  BY <1>1, <1>4 DEF Moved, TypeInv, TypeOK, NONE, VALID, INVALID

LEMMA MovingStep ==
  ASSUME RoundInv, [Next]_vars
  PROVE  Moving'
<1> USE DEF RoundInv, Moving
<1> TypeInv /\ handler \in [Requests -> HandlerPcs]
    /\ loaded \in [Requests -> BOOLEAN]
  BY DEF TypeInv, TypeOK
<1>0. Spoilt => Spoilt'
  BY FaultsGrow DEF Spoilt
<1>1. CASE PublishStep
  BY <1>0, <1>1, PublishFrame
<1>2. CASE ClientClaim
  <2>1. /\ handler' = [handler EXCEPT ![issued + 1] = "check"]
        /\ UNCHANGED <<valid, waiting, serverSecret, loaded, served>>
    BY <1>2, ClaimFrame
  <2>2. \A r \in Requests : r # issued + 1 => handler'[r] = handler[r]
    BY <2>1
  <2>3. \A r \in Requests : r = issued + 1 => handler'[r] = "check"
    BY <2>1
  <2> QED
    BY <1>0, <2>1, <2>2, <2>3 DEF MovePcs
<1>3. CASE LoopStep
  BY <1>0, <1>3, LoopFrame
<1>4. ASSUME NEW r \in Requests, ThreadAct(r) PROVE Moving'
  BY <1>0, <1>4, ThreadFrame
<1>5. ASSUME NEW r \in Requests, HandlerAct(r) PROVE Moving'
  <2>1. CASE HandlerCheck(r) \/ HandlerFresh(r) \/ HandlerOpen(r)
             \/ OpenFails(r) \/ HandlerThrows(r) \/ UnlinkFails(r)
    <3>1. /\ UNCHANGED <<valid, waiting, serverSecret, loaded, served>>
          /\ handler'[r] \notin MovePcs
          /\ \A o \in Requests : o # r => handler'[o] = handler[o]
      BY <2>1 DEF HandlerCheck, HandlerFresh, HandlerOpen, OpenFails,
                  HandlerThrows, UnlinkFails, HandlerGoto, serverVars,
                  MovePcs
    <3> QED
      BY <1>0, <3>1 DEF MovePcs
  <2>2. CASE HandlerCount(r)
    <3>1. /\ handler[r] = "count"
          /\ UNCHANGED <<valid, waiting, serverSecret, loaded>>
          /\ served' = served \cup {r}
          /\ handler'[r] = IF Complete(count["server"] + 1)
                           THEN "member" ELSE "ok"
          /\ \A o \in Requests : o # r => handler'[o] = handler[o]
      BY <2>2 DEF HandlerCount, HandlerGoto, serverVars
    <3>2. /\ \A o \in Requests : handler[o] \notin MovePcs
          /\ served # All
          /\ Complete(count["server"] + 1) => served' = All
      BY <3>1, CountFacts
    <3>3. CASE Complete(count["server"] + 1)
      <4>1. waiting /\ serverSecret = "none" /\ valid = NONE
        BY <3>1, <3>2, <3>3, LastCount
      <4>2. handler'[r] = "member"
        BY <3>1, <3>3
      <4> QED
        BY <1>0, <3>1, <3>2, <3>3, <4>1, <4>2 DEF MovePcs
    <3>4. CASE ~Complete(count["server"] + 1)
      <4>1. handler'[r] = "ok"
        BY <3>1, <3>4
      <4> QED
        BY <1>0, <3>1, <3>2, <4>1 DEF MovePcs
    <3> QED
      BY <3>3, <3>4
  <2>3. CASE handler[r] \in MovePcs
    <3>1. /\ served = All
          /\ \A o \in Requests : handler[o] \in MovePcs => o = r
      BY <2>3
    <3>2. \A o \in Requests : o # r => handler'[o] \notin MovePcs
      BY <3>1, <1>5, HandlerFrame
    <3> USE DEF HandlerGoto, serverVars, NONE, INVALID
    <3>3. CASE HandlerMember(r)
      <4>1. handler[r] = "member" /\ valid = NONE /\ handler'[r] = "load"
            /\ UNCHANGED <<valid, waiting, serverSecret, loaded, served>>
        BY <3>3 DEF HandlerMember, MovePcs
      <4> QED
        BY <1>0, <3>1, <3>2, <4>1 DEF MovePcs
    <3>4. CASE HandlerLoad(r)
      <4>1. handler[r] = "load" /\ waiting /\ handler'[r] = "copy"
            /\ loaded'[r] = waiting
            /\ UNCHANGED <<valid, waiting, serverSecret, served>>
        BY <3>4 DEF HandlerLoad, MovePcs
      <4> QED
        BY <1>0, <3>1, <3>2, <4>1 DEF MovePcs
    <3>5. CASE HandlerCopy(r)
      <4>1. handler[r] = "copy" /\ handler'[r] = "flush"
            /\ serverSecret' = "torn"
            /\ UNCHANGED <<valid, waiting, loaded, served>>
        BY <3>5 DEF HandlerCopy
      <4> QED
        BY <1>0, <3>1, <3>2, <4>1 DEF MovePcs
    <3>6. CASE HandlerFlush(r)
      <4>1. handler[r] = "flush" /\ handler'[r] = "mark"
            /\ UNCHANGED <<valid, waiting, loaded, served>>
        BY <3>6 DEF HandlerFlush
      <4>2. serverSecret' = "intact" \/ Spoilt
        BY <3>6, <4>1 DEF HandlerFlush
      <4> QED
        BY <1>0, <3>1, <3>2, <4>1, <4>2 DEF MovePcs
    <3>7. CASE HandlerMark(r)
      <4>1. handler[r] = "mark" /\ handler'[r] = "unlink" /\ valid' = INVALID
            /\ UNCHANGED <<waiting, serverSecret, loaded, served>>
        BY <3>7 DEF HandlerMark
      <4> QED
        BY <1>0, <3>1, <3>2, <4>1 DEF MovePcs
    <3>8. CASE HandlerUnlink(r)
      <4>1. handler'[r] = "ok"
        BY <3>8 DEF HandlerUnlink
      <4> QED
        BY <1>0, <3>2, <4>1 DEF MovePcs
    <3>9. CASE MoveFails(r)
      <4>1. /\ handler[r] \in {"load", "copy", "flush"}
            /\ handler'[r] \in {"copy", "mark"}
            /\ handler'[r] = "copy" => handler[r] = "load"
            /\ UNCHANGED <<valid, waiting, serverSecret, loaded, served>>
            /\ Spoilt'
        BY <3>9 DEF MoveFails, Fault, Spoilt
      <4>2. valid = NONE /\ waiting
        BY <4>1 DEF MovePcs
      <4> QED
        BY <3>1, <3>2, <4>1, <4>2 DEF MovePcs
    <3> QED
      BY <1>5, <2>1, <2>3, <3>3, <3>4, <3>5, <3>6, <3>7, <3>8, <3>9
         DEF HandlerAct, Handler, HandlerCount, MovePcs
  <2> QED
    BY <1>5, <2>1, <2>2, <2>3
       DEF HandlerAct, Handler, HandlerMember, HandlerLoad, HandlerCopy,
           HandlerFlush, HandlerMark, HandlerUnlink, MoveFails, HandlerGoto,
           MovePcs
<1>6. CASE ReportAct
  <2>1. handler' = handler /\ verdict # NONE
    BY <1>6, ReportFrame
       DEF ReportAct, Report, ReportMark, ReportExists, ReportRemove,
           ReportGoto, ReportThrows, ReportRunning, Deciding
  <2> QED
    BY <2>1, Settled DEF MovePcs
<1>7. CASE ServerCrash
  BY <1>0, <1>7, CrashFrame DEF MovePcs
<1>8. CASE UNCHANGED vars
  BY <1>0, <1>8 DEF vars, serverVars, requestVars, redisVars
<1> QED
  BY <1>1, <1>2, <1>3, <1>4, <1>5, <1>6, <1>7, <1>8, StepKinds

LEMMA MovedStep ==
  ASSUME RoundInv, [Next]_vars
  PROVE  Moved'
<1> USE DEF RoundInv, NONE, VALID, INVALID
<1> handler \in [Requests -> HandlerPcs] /\ All \subseteq Requests
    /\ valid \in {NONE, VALID, INVALID}
    /\ serverSecret \in {"none", "torn", "intact"}
  BY TransferAssumption DEF TypeInv, TypeOK, All, Requests
<1>0. (Spoilt => Spoilt') /\ (faults > 0 => faults' > 0)
  BY FaultsGrow DEF Spoilt
<1> USE <1>0 DEF Moved, NeverWithoutCopy, Spoilt
<1>1. CASE PublishStep
  BY <1>1, PublishFrame
<1>2. CASE ClientClaim
  <2>1. /\ handler' = [handler EXCEPT ![issued + 1] = "check"]
        /\ UNCHANGED <<valid, waiting, serverSecret, served, verdict, rep>>
    BY <1>2, ClaimFrame
  <2>2. \A r \in Requests : handler[r] \in MovePcs \cup {"lost"} =>
            r # issued + 1 /\ handler'[r] = handler[r]
    BY <2>1 DEF Lifecycle, MovePcs, TypeInv, TypeOK
  <2> QED
    BY <2>1, <2>2
<1>3. CASE LoopStep
  <2>1. UNCHANGED <<valid, waiting, serverSecret, handler, served>>
    BY <1>3, LoopFrame
  <2>2. CASE ClientReport
    <3>1. verdict = NONE /\ rep = "idle"
      BY <2>2 DEF ClientReport, Deciding
    <3> QED
      BY <2>1, <3>1
  <2>3. CASE ~ClientReport
    <3>1. UNCHANGED <<verdict, rep>>
      BY <1>3, <2>3
         DEF LoopStep, ClientPoll, ClientAwait, ClientDrain, ClientGather,
             ClientReported, ClientStore, ClientRmdir, ClientFinish,
             ReportTimesOut, ClientStoreFails, ClientCrash
    <3> QED
      BY <2>1, <3>1
  <2> QED
    BY <2>2, <2>3
<1>4. ASSUME NEW r \in Requests, ThreadAct(r) PROVE Moved'
  BY <1>4, ThreadFrame
<1>5. ASSUME NEW r \in Requests, HandlerAct(r) PROVE Moved'
  <2>1. UNCHANGED <<verdict, rep>>
        /\ \A o \in Requests : o # r => handler'[o] = handler[o]
    BY <1>5, HandlerFrame
  <2>2. CASE HandlerCheck(r) \/ HandlerFresh(r) \/ HandlerOpen(r)
             \/ OpenFails(r) \/ HandlerThrows(r)
    <3>1. /\ UNCHANGED <<valid, waiting, serverSecret, served>>
          /\ handler[r] \notin MovePcs \cup {"lost"} \/ handler'[r] = "lost"
      BY <2>2 DEF HandlerCheck, HandlerFresh, HandlerOpen, OpenFails,
                  HandlerThrows, HandlerGoto, serverVars, MovePcs
    <3>2. \A o \in All : handler[o] \in MovePcs \cup {"lost"} =>
                handler'[o] \in MovePcs \cup {"lost"}
      BY <2>1, <3>1
    <3> QED
      BY <2>1, <3>1, <3>2
  <2>3. CASE HandlerCount(r)
    <3>1. /\ handler[r] = "count"
          /\ UNCHANGED <<valid, waiting, serverSecret>>
          /\ served' = served \cup {r}
          /\ handler'[r] = IF Complete(count["server"] + 1)
                           THEN "member" ELSE "ok"
      BY <2>3 DEF HandlerCount, HandlerGoto, serverVars
    <3>2. /\ r \in All /\ served # All
          /\ Complete(count["server"] + 1) <=> served' = All
      BY <3>1, CountFacts
    <3> QED
      BY <2>1, <3>1, <3>2 DEF MovePcs
  <2>4. CASE handler[r] \in MovePcs
    <3>1. served = All /\ r \in All
      BY <2>4 DEF Moving, Answered
    <3> USE DEF HandlerGoto, serverVars
    <3>2. CASE HandlerMember(r)
      BY <2>1, <3>1, <3>2
         DEF HandlerMember, Moving, MovePcs
    <3>3. CASE HandlerLoad(r)
      BY <2>1, <3>1, <3>3
         DEF HandlerLoad, Moving, MovePcs
    <3>4. CASE HandlerCopy(r)
      <4>1. /\ handler[r] = "copy" /\ handler'[r] = "flush"
            /\ serverSecret' = "torn"
            /\ UNCHANGED <<valid, waiting, served>>
        BY <3>4 DEF HandlerCopy
      <4>2. valid = NONE /\ waiting
        BY <4>1 DEF Moving, MovePcs
      <4> QED
        BY <2>1, <3>1, <4>1, <4>2 DEF MovePcs
    <3>5. CASE HandlerFlush(r)
      <4>1. /\ handler[r] = "flush" /\ handler'[r] = "mark"
            /\ UNCHANGED <<valid, waiting, served>>
        BY <3>5 DEF HandlerFlush
      <4>2. /\ serverSecret' = "intact" \/ Spoilt
            /\ serverSecret = "torn" /\ waiting /\ valid = NONE
            /\ serverSecret' \in {"torn", "intact"}
        BY <3>5, <4>1 DEF HandlerFlush, Moving, MovePcs
      <4> QED
        BY <2>1, <3>1, <4>1, <4>2 DEF MovePcs
    <3>6. CASE HandlerMark(r)
      <4>1. /\ handler[r] = "mark" /\ handler'[r] = "unlink"
            /\ UNCHANGED <<serverSecret, waiting, served>>
            /\ valid' = INVALID
        BY <3>6 DEF HandlerMark
      <4>2. serverSecret = "intact" \/ Spoilt
        BY <4>1 DEF Moving
      <4> QED
        BY <2>1, <3>1, <4>1, <4>2 DEF MovePcs
    <3>7. CASE HandlerUnlink(r)
      <4>1. /\ handler[r] = "unlink"
            /\ UNCHANGED <<serverSecret, valid, served>>
        BY <3>7 DEF HandlerUnlink
      <4>2. (serverSecret = "intact" \/ Spoilt) /\ valid = INVALID
        BY <4>1 DEF Moving
      <4>3. ~waiting'
        BY <3>7, Zenon DEF HandlerUnlink
      <4> QED
        BY <2>1, <3>1, <4>1, <4>2, <4>3
    <3>8. CASE MoveFails(r)
      <4>1. /\ handler[r] \in {"load", "copy", "flush"}
            /\ handler'[r] \in {"copy", "mark"}
            /\ UNCHANGED <<valid, waiting, serverSecret, served>>
            /\ Spoilt'
        BY <3>8 DEF MoveFails, Fault
      <4>2. waiting
        BY <4>1 DEF Moving, MovePcs
      <4> QED
        BY <2>1, <3>1, <4>1, <4>2 DEF MovePcs
    <3>9. CASE UnlinkFails(r)
      <4>1. /\ handler[r] = "unlink"
            /\ UNCHANGED <<serverSecret, valid, waiting, served>>
        BY <3>9 DEF UnlinkFails
      <4>2. (serverSecret = "intact" \/ Spoilt) /\ valid = INVALID
        BY <4>1 DEF Moving
      <4>3. faults' > 0
        BY <3>9, TransferAssumption DEF UnlinkFails, Fault, TypeInv, TypeOK
      <4> QED
        BY <2>1, <3>1, <4>1, <4>2, <4>3
    <3> QED
      BY <1>5, <2>2, <2>4, <3>2, <3>3, <3>4, <3>5, <3>6, <3>7, <3>8, <3>9
         DEF HandlerAct, Handler, HandlerCount, MovePcs
  <2> QED
    BY <1>5, <2>2, <2>3, <2>4
       DEF HandlerAct, Handler, HandlerMember, HandlerLoad, HandlerCopy,
           HandlerFlush, HandlerMark, HandlerUnlink, MoveFails, UnlinkFails,
           HandlerGoto, MovePcs
<1>6. CASE ReportAct
  <2>1. UNCHANGED <<waiting, verdict, handler, served>>
    BY <1>6, ReportFrame
  <2>2. CASE ReportMark
    <3>1. /\ rep = "mark" /\ valid' = verdict /\ serverSecret' = serverSecret
          /\ rep' \notin {"idle", "mark"}
      BY <2>2 DEF ReportMark, ReportGoto
    <3>2. serverSecret # "torn" \/ Spoilt
      BY <3>1, NotTorn
    <3>3. verdict \in {VALID, INVALID}
      BY <3>1 DEF Deciding, TypeInv, TypeOK
    <3>4. verdict = VALID => /\ served = All
                             /\ serverSecret = "intact" \/ Spoilt
      BY ValidVerdict
    <3>5. served = All => /\ ~waiting \/ faults > 0
                          /\ serverSecret = "intact" \/ Spoilt
      BY <3>1, <3>3, Settled DEF MovePcs
    <3> QED
      BY <2>1, <3>1, <3>2, <3>3, <3>4, <3>5
  <2>3. CASE ReportExists
    BY <2>1, <2>3 DEF ReportExists, ReportGoto
  <2>4. CASE ReportRemove
    <3>1. verdict = INVALID /\ rep' = "replied" /\ serverSecret' = "none"
          /\ valid' = valid
      BY <2>4 DEF ReportRemove, ReportGoto, Deciding
    <3> QED
      BY <2>1, <3>1
  <2>5. CASE ReportThrows
    <3>1. /\ rep' = "failed" /\ UNCHANGED <<serverSecret, valid>>
          /\ rep # "idle" /\ rep \in ReportRunning
      BY <2>5 DEF ReportThrows, ReportRunning, redisVars, serverVars
    <3>2. verdict # NONE
      BY <3>1 DEF Deciding
    <3> QED
      BY <2>1, <3>1, <3>2
  <2> QED
    BY <1>6, <2>2, <2>3, <2>4, <2>5 DEF ReportAct, Report
<1>7. CASE ServerCrash
  BY <1>7, CrashFrame DEF MovePcs
<1>8. CASE UNCHANGED vars
  BY <1>8 DEF vars, serverVars, requestVars, redisVars, loopVars
<1> QED
  BY <1>1, <1>2, <1>3, <1>4, <1>5, <1>6, <1>7, <1>8, StepKinds

LEMMA DecidingStep ==
  ASSUME RoundInv, [Next]_vars
  PROVE  Deciding'
<1> USE DEF RoundInv, Deciding, NONE, VALID, INVALID
<1> verdict \in {NONE, VALID, INVALID} /\ valid \in {NONE, VALID, INVALID}
    /\ clientSecret \in {"none", "torn", "intact"} /\ rep \in ReportPcs
  BY DEF TypeInv, TypeOK
<1>0. mishap \subseteq mishap'
  BY FaultsGrow
<1> USE <1>0
<1>1. CASE PublishStep
  BY <1>1, PublishFrame
<1>2. CASE ClientClaim
  <2>1. TypeInv
    OBVIOUS
  <2> QED
    BY <1>2, <2>1, ClaimFrame
<1>3. CASE LoopStep
  <2>1. UNCHANGED <<valid, serverSecret>>
    BY <1>3, LoopFrame
  <2>2. CASE ClientPoll \/ ClientAwait \/ ClientDrain
    <3>1. UNCHANGED <<clientSecret, buf, verdict, rep>> /\ verdict = NONE
          /\ cpc' \in {"claim", "gather", "drain", "await", "dead"}
      BY <2>2 DEF ClientPoll, ClientAwait, ClientDrain, AfterBatch, fileVars
    <3> QED
      BY <2>1, <3>1
  <2>3. CASE ClientGather
    <3>1. UNCHANGED <<clientSecret, verdict, rep, cpc>> /\ verdict = NONE
      BY <2>3 DEF ClientGather
    <3> QED
      BY <2>1, <3>1
  <2>4. CASE ClientReport
    <3>1. /\ verdict = NONE /\ cpc' = "reporting" /\ rep' = "mark"
          /\ verdict' = IF Checksum THEN VALID ELSE INVALID
          /\ UNCHANGED <<clientSecret, buf>>
      BY <2>4 DEF ClientReport, fileVars
    <3> QED
      BY <2>1, <3>1 DEF Checksum
  <2>5. CASE ClientReported
    <3>1. UNCHANGED <<clientSecret, buf, verdict, rep>>
      BY <2>5 DEF ClientReported, fileVars
    <3>2. /\ rep \in {"replied", "failed"}
          /\ \/ verdict = VALID /\ cpc' = "store"
             \/ verdict = INVALID /\ cpc' = "rmdir"
      BY <2>5 DEF ClientReported, AfterReport
    <3>3. rep = "replied" \/ "report" \in mishap
      BY <3>2
    <3> QED
      BY <2>1, <3>1, <3>2, <3>3
  <2>6. CASE ClientStore
    BY <2>1, <2>6 DEF ClientStore
  <2>7. CASE ClientRmdir \/ ClientFinish
    BY <2>1, <2>7 DEF ClientRmdir, ClientFinish, fileVars
  <2>8. CASE ClientCrash
    BY <2>1, <2>8 DEF ClientCrash, fileVars
  <2>9. CASE ReportTimesOut
    <3>1. /\ cpc = "reporting" /\ "report" \in mishap'
          /\ \/ verdict = VALID /\ cpc' = "store"
             \/ verdict = INVALID /\ cpc' = "rmdir"
          /\ UNCHANGED <<clientSecret, buf, verdict, rep>>
      BY <2>9 DEF ReportTimesOut, AfterReport, Fault, fileVars
    <3> QED
      BY <2>1, <3>1
  <2>10. CASE ClientStoreFails
    <3>1. /\ cpc \in {"store", "flush"} /\ cpc' = "rmdir"
          /\ "store" \in mishap'
          /\ UNCHANGED <<clientSecret, buf, verdict, rep>>
      BY <2>10 DEF ClientStoreFails, Fault, fileVars
    <3> QED
      BY <2>1, <3>1
  <2> QED
    BY <1>3, <2>2, <2>3, <2>4, <2>5, <2>6, <2>7, <2>8, <2>9, <2>10
       DEF LoopStep
<1>4. ASSUME NEW r \in Requests, ThreadAct(r) PROVE Deciding'
  <2>1. TypeInv
    OBVIOUS
  <2> QED
    BY <1>4, <2>1, ThreadFrame
<1>5. ASSUME NEW r \in Requests, HandlerAct(r) PROVE Deciding'
  <2>1. TypeInv
    OBVIOUS
  <2>2. UNCHANGED <<cpc, buf, verdict, rep, clientSecret>>
    BY <1>5, <2>1, HandlerFrame
  <2>3. CASE handler[r] \in MovePcs
    <3>1. verdict = NONE
      BY <2>3, Settled
    <3>2. valid' # VALID
      <4>1. valid # VALID
        BY <3>1
      <4>2. valid' \in {valid, INVALID}
        BY <1>5 DEF HandlerAct, Handler, HandlerCheck, HandlerFresh,
                    HandlerOpen, HandlerCount, HandlerMember, HandlerLoad,
                    HandlerCopy, HandlerFlush, HandlerMark, HandlerUnlink,
                    OpenFails, HandlerThrows, MoveFails, UnlinkFails
      <4> QED
        BY <4>1, <4>2
    <3> QED
      BY <2>2, <3>1, <3>2
  <2>4. CASE handler[r] \notin MovePcs
    <3>1. UNCHANGED <<valid, serverSecret>>
      BY <1>5, <2>4
         DEF HandlerAct, Handler, HandlerCheck, HandlerFresh, HandlerOpen,
             HandlerCount, HandlerMember, HandlerLoad, HandlerCopy,
             HandlerFlush, HandlerMark, HandlerUnlink, OpenFails,
             HandlerThrows, MoveFails, UnlinkFails, HandlerGoto, MovePcs,
             serverVars
    <3> QED
      BY <2>2, <3>1
  <2> QED
    BY <2>3, <2>4
<1>6. CASE ReportAct
  <2>1. UNCHANGED <<cpc, buf, verdict, clientSecret>>
    BY <1>6, ReportFrame
  <2>2. CASE ReportMark
    BY <2>1, <2>2 DEF ReportMark, ReportGoto
  <2>3. CASE ReportExists
    BY <2>1, <2>3 DEF ReportExists, ReportGoto
  <2>4. CASE ReportRemove
    BY <2>1, <2>4 DEF ReportRemove, ReportGoto
  <2>5. CASE ReportThrows
    <3>1. /\ rep \in ReportRunning /\ rep' = "failed" /\ "report" \in mishap'
          /\ UNCHANGED <<serverSecret, valid>>
      BY <2>5 DEF ReportThrows, Fault, redisVars, serverVars
    <3> QED
      BY <2>1, <3>1 DEF ReportRunning
  <2> QED
    BY <1>6, <2>2, <2>3, <2>4, <2>5 DEF ReportAct, Report
<1>7. CASE ServerCrash
  BY <1>7, CrashFrame DEF ReportRunning
<1>8. CASE UNCHANGED vars
  BY <1>8 DEF vars, serverVars, fileVars, redisVars, loopVars
<1> QED
  BY <1>1, <1>2, <1>3, <1>4, <1>5, <1>6, <1>7, <1>8, StepKinds

\* The invariant gives what the lemmas above need of the requests.
LEMMA RoundFacts == IndInv => RoundInv
<1> SUFFICES ASSUME IndInv PROVE RoundInv
  OBVIOUS
<1> USE TransferAssumption DEF IndInv
<1>1. /\ issued \in Nat /\ issued <= PROGRESS
      /\ TypeInv /\ progress = issued
      /\ tail \in [Sources -> {"files", "time", "done"}]
      /\ \A r \in Requests : r <= issued => r \in All
  BY DEF TypeInv, TypeOK, Counting, All, Requests
<1>2. Issuing
  BY <1>1 DEF Issuing, Counting, Requests, Claims, TypeInv, Sources
<1>3. served \subseteq All
  BY <1>1 DEF Serving, All
<1>4. \A r \in Requests : handler[r] # "none" => r \in All
  BY <1>1 DEF Lifecycle, Requests
<1>5. \A f \in Requests : thread[f] = "false" => handler[f] = "err"
  BY DEF Lifecycle
<1>6. verdict # NONE => AllReceived \/ \E f \in All : handler[f] = "err"
  BY <1>4, <1>5 DEF Awaiting, SomeFailed
<1>7. ASSUME verdict = VALID PROVE AllReceived
  <2> SUFFICES ASSUME NEW r \in All PROVE thread[r] = "true"
    BY DEF AllReceived
  <2>1. r - 1 \in Chunks /\ (r - 1) + 1 = r
    BY DEF All, Chunks
  <2>2. r - 1 \in buf
    BY <1>7, <2>1 DEF Deciding
  <2> QED
    BY <2>1, <2>2 DEF Received
<1> QED
  BY <1>1, <1>2, <1>3, <1>4, <1>6, <1>7 DEF RoundInv, Answered, MovePcs

\* The invariant is inductive when the poll cannot fall into the gap.
LEMMA InvStep ==
  ASSUME ~PublishGap
  PROVE  IndInv /\ [Next]_vars => IndInv'
<1> SUFFICES ASSUME IndInv, [Next]_vars PROVE IndInv'
  OBVIOUS
<1>1. TypeInv'
  BY TypeStep DEF IndInv
<1>2. RoundInv
  BY RoundFacts
<1>3. Counting' /\ Received' /\ Awaiting'
  BY CountingStep, ReceivedStep, AwaitingStep
<1>4. Lifecycle' /\ Serving' /\ Moving' /\ Moved' /\ Deciding'
  BY <1>2, LifecycleStep, ServingStep, MovingStep, MovedStep, DecidingStep
<1> QED
  BY <1>1, <1>2, <1>3, <1>4 DEF IndInv

LEMMA Invariance ==
  ASSUME ~PublishGap
  PROVE  Spec => []IndInv /\ []RoundInv
  BY InvInit, InvStep, RoundFacts, PTL DEF Spec

-----------------------------------------------------------------------------
(* What follows from the invariant.                                        *)

LEMMA AgreementFact == RoundInv => Agreement
  BY ValidVerdict DEF RoundInv, Deciding, Agreement, Spoilt

LEMMA ValidMeansIntactFact == RoundInv => ValidMeansIntact
  BY ValidVerdict DEF RoundInv, Deciding, ValidMeansIntact, Spoilt

LEMMA RoundOutcomeFact == RoundInv => RoundOutcome
<1> SUFFICES ASSUME RoundInv, cpc = "done" PROVE RoundOutcome
  BY DEF RoundOutcome
<1>1. verdict \in {VALID, INVALID}
  BY DEF RoundInv, Deciding, TypeInv, TypeOK
<1>2. CASE verdict = VALID
  BY <1>2, ValidVerdict DEF RoundInv, Deciding, RoundOutcome, Spoilt
<1>3. CASE verdict = INVALID
  BY <1>3 DEF RoundInv, Deciding, RoundOutcome, VALID, INVALID
<1> QED
  BY <1>1, <1>2, <1>3

\* A client with a file of its own has it of a secret it judged VALID and the
\* server holds: complete unless move()'s read or write failed, with status
\* VALID unless the report of the verdict failed.
THEOREM AgreementHolds ==
  ASSUME ~PublishGap
  PROVE  Spec => []Agreement
  BY Invariance, AgreementFact, PTL

\* A VALID index has a complete secret file on the server, unless the read or
\* write of move() failed.
THEOREM ValidMeansIntactHolds ==
  ASSUME ~PublishGap
  PROVE  Spec => []ValidMeansIntact
  BY Invariance, ValidMeansIntactFact, PTL

\* The waiting file goes only when the secret file is complete: nothing but a
\* failed read or write of move() itself leaves the server without a copy.
THEOREM NeverWithoutCopyHolds ==
  ASSUME ~PublishGap
  PROVE  Spec => []NeverWithoutCopy
<1>1. RoundInv => NeverWithoutCopy
  BY DEF RoundInv, Moved
<1> QED
  BY <1>1, Invariance, PTL

\* The server's counter says "complete" only when every chunk was served.
THEOREM CompleteMeansServedHolds ==
  ASSUME ~PublishGap
  PROVE  Spec => []CompleteMeansServed
<1>1. IndInv => CompleteMeansServed
  <2> SUFFICES ASSUME IndInv, Complete(count["server"])
               PROVE  Chunks = {chunkOf[r] : r \in served}
    BY DEF CompleteMeansServed
  <2> USE TransferAssumption DEF IndInv
  <2>1. /\ served \subseteq All /\ PROGRESS \in Nat /\ issued \in Nat
        /\ served \subseteq 1 .. issued /\ All \subseteq Requests
    BY DEF Serving, Counting, All, Requests, TypeInv, TypeOK
  <2>2. IsFiniteSet(All) /\ Cardinality(All) = PROGRESS
    BY <2>1, FS_Interval DEF All
  <2>3. Cardinality(served) <= PROGRESS /\ IsFiniteSet(served)
        /\ (Cardinality(served) = PROGRESS => served = All)
    BY <2>1, <2>2, FS_Subset
  <2>4. Cardinality(served) \in Nat
    BY <2>3, FS_CardinalityType
  <2>5. served = All
    BY <2>1, <2>3, <2>4 DEF Serving, Complete
  <2>6. \A r \in All : chunkOf[r] = r - 1
    BY <2>1, <2>5 DEF Counting
  <2>7. \A c \in Chunks : c + 1 \in All /\ (c + 1) - 1 = c
    BY <2>1 DEF Chunks, All
  <2>8. \A r \in All : r - 1 \in Chunks
    BY <2>1 DEF Chunks, All
  <2>9. \A c \in Chunks : \E r \in served : chunkOf[r] = c
    BY <2>5, <2>6, <2>7
  <2>10. \A r \in served : chunkOf[r] \in Chunks
    BY <2>5, <2>6, <2>8
  <2> QED
    BY <2>9, <2>10
<1> QED
  BY <1>1, Invariance, PTL

\* A finished round is all or nothing, but for the part that an unchecked call
\* itself failed to do.
THEOREM RoundOutcomeHolds ==
  ASSUME ~PublishGap
  PROVE  Spec => []RoundOutcome
  BY RoundOutcomeFact, Invariance, PTL

\* What SecretNeverRewritten says of a step.
Kept ==
    serverSecret = "intact" =>
        \/ serverSecret' = "intact"
        \/ serverSecret' = "none" /\ verdict = INVALID

LEMMA KeptStep ==
  ASSUME RoundInv, [Next]_vars
  PROVE  Kept
<1> SUFFICES ASSUME serverSecret = "intact"
             PROVE  \/ serverSecret' = "intact"
                    \/ serverSecret' = "none" /\ verdict = INVALID
  BY DEF Kept
<1> TypeInv
  BY DEF RoundInv
<1>1. ASSUME NEW r \in Requests, HandlerAct(r)
      PROVE  serverSecret' = "intact"
  <2>1. handler[r] \notin {"copy", "flush"}
    BY DEF RoundInv, Moving
  <2> QED
    BY <1>1, <2>1
       DEF HandlerAct, Handler, HandlerCheck, HandlerFresh, HandlerOpen,
           HandlerCount, HandlerMember, HandlerLoad, HandlerCopy,
           HandlerFlush, HandlerMark, HandlerUnlink, OpenFails,
           HandlerThrows, MoveFails, UnlinkFails, HandlerGoto, serverVars
<1>2. CASE ReportAct
  BY <1>2 DEF ReportAct, Report, ReportMark, ReportExists, ReportRemove,
              ReportGoto, ReportThrows, serverVars, RoundInv, Deciding
<1>3. CASE PublishStep \/ ClientClaim \/ LoopStep \/ ServerCrash
  BY <1>3, PublishFrame, ClaimFrame, LoopFrame, CrashFrame
<1>4. ASSUME NEW r \in Requests, ThreadAct(r)
      PROVE  serverSecret' = "intact"
  BY <1>4, ThreadFrame
<1>5. CASE UNCHANGED vars
  BY <1>5 DEF vars, serverVars
<1> QED
  BY <1>1, <1>2, <1>3, <1>4, <1>5, StepKinds

\* A complete secret file is never written over; only an INVALID verdict
\* removes it.
THEOREM SecretNeverRewrittenHolds ==
  ASSUME ~PublishGap
  PROVE  Spec => SecretNeverRewritten
<1>1. RoundInv /\ [Next]_vars => [Kept]_vars
  BY KeptStep
<1>2. Spec => [][Kept]_vars
  BY <1>1, Invariance, PTL DEF Spec
<1> QED
  BY <1>2 DEF SecretNeverRewritten, Kept

-----------------------------------------------------------------------------
(* The transfer implements Handover.                                       *)

\* While the server moves the file there is no verdict and no status.
LEMMA MoverFacts ==
  ASSUME RoundInv, NEW r \in Requests, handler[r] \in MovePcs
  PROVE  /\ verdict = NONE
         /\ handler[r] # "unlink" => valid = NONE
<1>1. verdict = NONE
  BY Settled
<1> QED
  BY <1>1 DEF RoundInv, Moving

\* A verdict that comes before any status finds no secret file: the move
\* either did not start, or it is finished and has set the status.
LEMMA NoneBeforeMark ==
  ASSUME RoundInv, rep = "mark", valid = NONE
  PROVE  serverSecret = "none"
<1> USE DEF RoundInv
<1>1. verdict # NONE
  BY DEF Deciding
<1>2. served = All => \A r \in All : handler[r] = "ok"
  BY <1>1, Settled
<1> QED
  BY <1>2 DEF Moved, MovePcs

\* What a step has to leave alone, or do, for Handover not to move.
Mapped == <<valid, serverSecret, clientSecret, verdict, rep, Spoilt>>

LEMMA QuietStep ==
  ASSUME UNCHANGED Mapped
  PROVE  UNCHANGED Promise!hvars
  BY DEF Mapped, Spoilt, ServerSide, Judgement, Promise!hvars

\* Once every chunk was received the server has moved the file.
LEMMA ReceivedMeansMoved ==
  ASSUME RoundInv, AllReceived, verdict = NONE
  PROVE  valid # NONE
<1> USE DEF RoundInv
<1> All \subseteq Requests
  BY TransferAssumption DEF All, Requests
<1>1. \A r \in All : handler[r] = "ok"
  BY DEF AllReceived, Lifecycle
<1>2. served = All
  BY <1>1 DEF Serving, Answered
<1> QED
  BY <1>1, <1>2 DEF Moved, MovePcs, NONE, INVALID

\* A report that fails after the verdict was recorded, or before: at most a
\* secret that has no file any more now counts as discarded.
LEMMA EndedReport ==
  ASSUME RoundInv, verdict # NONE, rep \in ReportRunning, rep' = "failed",
         UNCHANGED <<valid, serverSecret, clientSecret, verdict, Spoilt>>
  PROVE  [Promise!Next]_(Promise!hvars)
<1> USE DEF Promise!Next, Promise!Discard, Promise!hvars
<1> /\ valid \in {NONE, VALID, INVALID} /\ verdict \in {VALID, INVALID}
    /\ rep = "mark" => valid # VALID
  BY DEF RoundInv, Deciding, TypeInv, TypeOK
<1>1. CASE rep = "mark" /\ verdict = INVALID /\ serverSecret = "none"
           /\ valid = INVALID
  <2>1. /\ ServerSide = "staged" /\ ServerSide' = "discarded"
        /\ Judgement = "bad" /\ Judgement' = "bad"
    BY <1>1 DEF ServerSide, Judgement, NONE, VALID, INVALID
  <2> QED
    BY <1>1, <2>1 DEF Spoilt
<1>2. CASE ~(/\ rep = "mark" /\ verdict = INVALID /\ serverSecret = "none"
             /\ valid = INVALID)
  <2>1. UNCHANGED <<ServerSide, Judgement>>
    BY <1>2 DEF ServerSide, Judgement
  <2> QED
    BY <2>1 DEF Spoilt
<1> QED
  BY <1>1, <1>2

\* Every step of the transfer is a step of Handover or stutters there.
LEMMA StepImplements ==
  ASSUME RoundInv, RoundInv', [Next]_vars
  PROVE  [Promise!Next]_(Promise!hvars)
<1> USE DEF Promise!Next, Promise!Spoil, Promise!Stage, Promise!Judge,
            Promise!Confirm, Promise!Discard, Promise!Hold, Promise!hvars
<1> TypeInv
  BY DEF RoundInv
<1>1. CASE PublishStep \/ ClientClaim
  <2>1. UNCHANGED <<valid, serverSecret, clientSecret, verdict, rep>>
    BY <1>1, PublishFrame, ClaimFrame
  <2>2. UNCHANGED faultVars
    BY <1>1 DEF PublishStep, PublishTime, PublishCount, ClientClaim
  <2> QED
    BY <2>1, <2>2, QuietStep DEF Mapped, Spoilt, faultVars
<1>2. CASE LoopStep
  <2>1. UNCHANGED <<valid, serverSecret, handler>> /\ Spoilt' = Spoilt
    <3>1. ASSUME ReportTimesOut \/ ClientStoreFails \/ ClientCrash
          PROVE  Spoilt' = Spoilt
      BY <3>1 DEF ReportTimesOut, ClientStoreFails, ClientCrash, Fault, Spoilt
    <3>2. ASSUME Client PROVE Spoilt' = Spoilt
      BY <3>2 DEF Client, ClientPoll, ClientClaim, ClientAwait, ClientDrain,
                  ClientGather, ClientReport, ClientReported, ClientStore,
                  ClientRmdir, ClientFinish, faultVars, Spoilt
    <3> QED
      BY <1>2, <3>1, <3>2, LoopFrame DEF LoopStep, Client
  <2>2. CASE ClientStore
    <3>1. verdict = VALID /\ UNCHANGED <<verdict, rep>>
      BY <2>2 DEF ClientStore, RoundInv, Deciding
    <3>2. UNCHANGED <<ServerSide, Judgement>> /\ Judgement = "good"
      BY <2>1, <3>1 DEF ServerSide, Judgement, NONE, VALID, INVALID
    <3>3. (clientSecret # "none")' = TRUE
      BY <2>2 DEF ClientStore
    <3> QED
      BY <2>1, <3>2, <3>3 DEF Spoilt
  <2>3. CASE ClientReport
    <3>1. /\ verdict = NONE /\ verdict' \in {VALID, INVALID}
          /\ rep' = "mark" /\ UNCHANGED clientSecret
      BY <2>3 DEF ClientReport, RoundInv, Deciding, fileVars
    <3>2. valid # VALID /\ valid \in {NONE, VALID, INVALID}
      BY <3>1 DEF RoundInv, Deciding, TypeInv, TypeOK, NONE, VALID
    <3>3. ASSUME verdict' = VALID PROVE valid' # NONE
      <4>1. AllReceived'
        BY <3>3 DEF RoundInv, Answered
      <4>2. AllReceived
        BY <1>2, <4>1, LoopFrame DEF AllReceived
      <4> QED
        BY <2>1, <3>1, <4>2, ReceivedMeansMoved
    <3>4. UNCHANGED ServerSide
      BY <2>1, <3>1, <3>2 DEF ServerSide, NONE, VALID, INVALID
    <3>5. /\ Judgement = "none" /\ Judgement' \in {"good", "bad"}
          /\ Judgement' = "good" => ServerSide = "staged"
      BY <2>1, <3>1, <3>2, <3>3 DEF ServerSide, Judgement, NONE, VALID, INVALID
    <3> QED
      BY <2>1, <3>1, <3>4, <3>5 DEF Spoilt
  <2>4. CASE ~ClientStore /\ ~ClientReport
    <3>1. UNCHANGED <<clientSecret, verdict, rep>>
      BY <1>2, <2>4
         DEF LoopStep, ClientPoll, ClientAwait, ClientDrain, ClientGather,
             ClientReported, ClientRmdir, ClientFinish, ReportTimesOut,
             ClientStoreFails, ClientCrash, fileVars
    <3> QED
      BY <2>1, <3>1, QuietStep DEF Mapped
  <2> QED
    BY <2>2, <2>3, <2>4
<1>3. ASSUME NEW r \in Requests, ThreadAct(r)
      PROVE  [Promise!Next]_(Promise!hvars)
  <2>1. Spoilt' = Spoilt
    BY <1>3 DEF ThreadAct, Thread, ThreadReply, ThreadOpen, ThreadWrite,
                WriteFails, ReplyTimesOut, Fault, faultVars, Spoilt
  <2> QED
    BY <1>3, <2>1, ThreadFrame, QuietStep DEF Mapped
<1>4. ASSUME NEW r \in Requests, HandlerAct(r)
      PROVE  [Promise!Next]_(Promise!hvars)
  <2>1. UNCHANGED <<clientSecret, verdict, rep>>
    BY <1>4, HandlerFrame
  <2>2. CASE HandlerCopy(r) \/ HandlerFlush(r)
    <3>1. valid = NONE /\ valid' = NONE /\ Spoilt' = Spoilt
      BY <2>2 DEF HandlerCopy, HandlerFlush, HandlerGoto, RoundInv, Moving,
                  MovePcs, Spoilt, faultVars
    <3>2. UNCHANGED <<ServerSide, Judgement>>
      BY <2>1, <3>1 DEF ServerSide, Judgement
    <3> QED
      BY <2>1, <3>1, <3>2 DEF Spoilt
  <2>3. CASE HandlerMark(r)
    <3>1. /\ valid = NONE /\ verdict = NONE
          /\ serverSecret = "intact" \/ Spoilt
          /\ valid' = INVALID /\ serverSecret' = serverSecret
          /\ Spoilt' = Spoilt
      BY <2>3, MoverFacts
         DEF HandlerMark, HandlerGoto, RoundInv, Moving, MovePcs, serverVars,
             Spoilt, faultVars
    <3>2. /\ ServerSide = "absent" /\ ServerSide' = "staged"
          /\ Judgement = "none" /\ Judgement' = "none"
      BY <2>1, <3>1 DEF ServerSide, Judgement, NONE, VALID, INVALID
    <3>3. (valid # NONE /\ serverSecret = "intact")' \in BOOLEAN
      OBVIOUS
    <3>4. (valid # NONE /\ serverSecret = "intact")' \/ "copy" \in mishap
      BY <3>1 DEF Spoilt, NONE, INVALID
    <3> QED
      BY <2>1, <3>1, <3>2, <3>3, <3>4 DEF Spoilt
  <2>4. CASE MoveFails(r)
    <3>1. /\ handler[r] \in MovePcs /\ handler[r] # "unlink"
          /\ UNCHANGED <<valid, serverSecret>> /\ "copy" \in mishap'
      BY <2>4 DEF MoveFails, HandlerGoto, MovePcs, serverVars, Fault
    <3>2. valid = NONE /\ verdict = NONE
      BY <3>1, MoverFacts
    <3>3. /\ UNCHANGED <<ServerSide, Judgement>>
          /\ ServerSide = "absent" /\ Judgement = "none"
      BY <2>1, <3>1, <3>2 DEF ServerSide, Judgement, NONE, VALID, INVALID
    <3> QED
      BY <2>1, <3>1, <3>3 DEF Spoilt
  <2>5. CASE ~HandlerCopy(r) /\ ~HandlerFlush(r) /\ ~HandlerMark(r)
             /\ ~MoveFails(r)
    <3>1. UNCHANGED <<valid, serverSecret>> /\ Spoilt' = Spoilt
      BY <1>4, <2>5
         DEF HandlerAct, Handler, HandlerCheck, HandlerFresh, HandlerOpen,
             HandlerCount, HandlerMember, HandlerLoad, HandlerUnlink,
             OpenFails, HandlerThrows, UnlinkFails, serverVars, Fault,
             faultVars, Spoilt
    <3> QED
      BY <2>1, <3>1, QuietStep DEF Mapped
  <2> QED
    BY <2>2, <2>3, <2>4, <2>5
<1>5. CASE ReportAct
  <2>1. UNCHANGED <<clientSecret, verdict>> /\ verdict # NONE
        /\ rep \in ReportRunning
    BY <1>5, ReportFrame
       DEF ReportAct, Report, ReportMark, ReportExists, ReportRemove,
           ReportGoto, ReportThrows, ReportRunning, RoundInv, Deciding
  <2>2. Spoilt' = Spoilt
    BY <1>5 DEF ReportAct, Report, ReportMark, ReportExists, ReportRemove,
                ReportGoto, ReportThrows, Fault, faultVars, Spoilt
  <2>3. CASE ReportMark
    <3>1. /\ rep = "mark" /\ rep' # "mark"
          /\ valid' = verdict /\ serverSecret' = serverSecret
          /\ verdict \in {VALID, INVALID} /\ valid \in {NONE, INVALID}
      BY <2>3 DEF ReportMark, ReportGoto, RoundInv, Deciding, TypeInv, TypeOK,
                  NONE, VALID, INVALID
    <3>2. valid = NONE => serverSecret = "none"
      BY <3>1, NoneBeforeMark
    <3>3. CASE verdict = VALID
      <4>1. valid = INVALID /\ valid' = VALID
        BY <3>1, <3>3, ValidVerdict
      <4>2. /\ ServerSide = "staged" /\ ServerSide' = "confirmed"
            /\ Judgement = "good" /\ Judgement' = "good"
        BY <2>1, <3>3, <4>1 DEF ServerSide, Judgement, NONE, VALID, INVALID
      <4> QED
        BY <2>1, <2>2, <3>1, <4>1, <4>2 DEF Spoilt, NONE, VALID, INVALID
    <3>4. CASE verdict = INVALID /\ serverSecret = "none"
      <4>1. /\ ServerSide \in {"absent", "staged"}
            /\ ServerSide' = "discarded"
            /\ Judgement = "bad" /\ Judgement' = "bad"
        BY <2>1, <3>1, <3>4 DEF ServerSide, Judgement, NONE, VALID, INVALID
      <4> QED
        BY <2>1, <2>2, <3>1, <3>4, <4>1 DEF Spoilt
    <3>5. CASE verdict = INVALID /\ serverSecret # "none"
      <4>1. valid = INVALID
        BY <3>1, <3>2, <3>5
      <4>2. UNCHANGED <<ServerSide, Judgement>>
        BY <2>1, <3>1, <3>5, <4>1 DEF ServerSide, Judgement, NONE, VALID,
                                      INVALID
      <4> QED
        BY <2>1, <2>2, <3>1, <3>5, <4>1, <4>2 DEF Spoilt
    <3> QED
      BY <3>1, <3>3, <3>4, <3>5
  <2>4. CASE ReportExists
    <3>1. UNCHANGED <<valid, serverSecret>> /\ rep # "mark" /\ rep' # "mark"
      BY <2>4 DEF ReportExists, ReportGoto
    <3>2. UNCHANGED <<ServerSide, Judgement>>
      BY <2>1, <3>1 DEF ServerSide, Judgement
    <3> QED
      BY <2>1, <2>2, <3>1, <3>2 DEF Spoilt
  <2>5. CASE ReportRemove
    <3>1. /\ valid = INVALID /\ valid' = INVALID /\ serverSecret' = "none"
          /\ verdict = INVALID /\ rep # "mark" /\ rep' # "mark"
      BY <2>5 DEF ReportRemove, ReportGoto, RoundInv, Deciding
    <3>2. /\ ServerSide \in {"staged", "discarded"}
          /\ ServerSide' = "discarded"
          /\ Judgement = "bad" /\ Judgement' = "bad"
          /\ ServerSide = "discarded" => serverSecret = "none"
      BY <2>1, <3>1 DEF ServerSide, Judgement, NONE, VALID, INVALID
    <3> QED
      BY <2>1, <2>2, <3>1, <3>2 DEF Spoilt
  <2>6. CASE ReportThrows
    <3>1. UNCHANGED <<valid, serverSecret>> /\ rep' = "failed"
      BY <2>6 DEF ReportThrows, redisVars, serverVars
    <3> QED
      BY <2>1, <2>2, <3>1, EndedReport
  <2> QED
    BY <1>5, <2>3, <2>4, <2>5, <2>6 DEF ReportAct, Report
<1>6. CASE ServerCrash
  <2>1. /\ UNCHANGED <<valid, serverSecret, clientSecret, verdict>>
        /\ Spoilt' = Spoilt
    BY <1>6, CrashFrame DEF Spoilt
  <2>2. CASE rep \in ReportRunning
    <3>1. verdict # NONE /\ rep' = "failed"
      BY <1>6, <2>2, CrashFrame DEF ReportRunning, RoundInv, Deciding
    <3> QED
      BY <2>1, <2>2, <3>1, EndedReport
  <2>3. CASE rep \notin ReportRunning
    <3>1. rep' = rep
      BY <1>6, <2>3, CrashFrame
    <3> QED
      BY <2>1, <3>1, QuietStep DEF Mapped
  <2> QED
    BY <2>2, <2>3
<1>7. CASE UNCHANGED vars
  BY <1>7, QuietStep DEF vars, redisVars, serverVars, fileVars, loopVars,
                         faultVars, Mapped, Spoilt
<1> QED
  BY <1>1, <1>2, <1>3, <1>4, <1>5, <1>6, <1>7, StepKinds

\* The transfer keeps the promise of Handover, whatever fails: judged good
\* only when staged, confirmed or kept only after that, never both kept and
\* discarded, and incomplete only over a failed disk of the server.
THEOREM TransferImplementsHandover ==
  ASSUME ~PublishGap
  PROVE  Spec => ImplementsHandover
<1>1. Init => Promise!Init
  BY DEF Init, Promise!Init, ServerSide, Judgement, NONE, VALID, INVALID
<1>2. RoundInv /\ RoundInv' /\ [Next]_vars => [Promise!Next]_(Promise!hvars)
  BY StepImplements
<1> QED
  BY <1>1, <1>2, Invariance, PTL DEF Spec, ImplementsHandover, Promise!Spec

-----------------------------------------------------------------------------
(* A round without faults. As long as nothing has failed, every file and   *)
(* every counter of the client is where the code means it to be; a round   *)
(* that ends like this has delivered the secret. What this leaves to TLC   *)
(* of FaultFreeDelivers is that the round ends.                            *)

Receiving == {"poll", "claim", "await", "drain"}

\* Nothing has answered with an error, and nothing has stopped.
NoError ==
    /\ \A r \in Requests :
        /\ handler[r] \notin {"err", "lost"}
        /\ thread[r] \notin {"false", "throw"}
    /\ cpc # "dead"
    /\ rep # "failed"
    /\ mishap = {}

\* gather() starts when every chunk was received, and takes each of them;
\* the directory goes at the end, and goes indeed.
Gathering ==
    /\ cpc \in Receiving => num = 0
    /\ cpc \notin Receiving => AllReceived /\ progress = PROGRESS
    /\ num <= PROGRESS
    /\ cpc \notin Receiving \cup {"gather"} => num = PROGRESS
    /\ cpc \in {"finish", "done"} <=> ~dir

\* The file of a chunk says how far its thread is, until gather() has it.
FilesAsDue ==
    \A r \in All :
        /\ r <= num \/ thread[r] \in {"none", "wait", "open"} =>
              chunkFile[r - 1] = "none"
        /\ thread[r] = "write" => chunkFile[r - 1] = "partial"
        /\ thread[r] = "true" /\ r > num /\ keysAgree =>
              chunkFile[r - 1] = "good"

\* With running files that agree, gather() loses no chunk.
NothingLost ==
    keysAgree => buf = {c \in Chunks : c < num} /\ verdict # INVALID

Smooth == NoError /\ Gathering /\ FilesAsDue /\ NothingLost

FaultFree == faults = 0 => Smooth

\* The steps that are not faults.
SoundStep ==
    \/ PublishStep
    \/ Client
    \/ \E r \in Requests : Thread(r) \/ Handler(r)
    \/ Report
    \/ UNCHANGED vars

LEMMA SoundSteps ==
  ASSUME TypeInv, [Next]_vars, faults' = 0
  PROVE  UNCHANGED faultVars /\ SoundStep
<1> faults \in Nat
  BY TransferAssumption DEF TypeInv, TypeOK
<1>1. ASSUME NEW calls PROVE ~Fault(calls)
  BY DEF Fault
<1>2. SoundStep
  BY <1>1 DEF Next, SoundStep, PublishStep, OpenFails, WriteFails,
              ReplyTimesOut, HandlerThrows, MoveFails, UnlinkFails,
              ReportTimesOut, ReportThrows, ClientStoreFails, ServerCrash,
              ClientCrash
<1>3. UNCHANGED faultVars
  <2>1. CASE PublishStep \/ Report
    BY <2>1 DEF PublishStep, PublishTime, PublishCount, Report, ReportMark,
                ReportExists, ReportRemove, ReportGoto
  <2>2. CASE Client
    BY <2>2 DEF Client, ClientPoll, ClientClaim, ClientAwait, ClientDrain,
                ClientGather, ClientReport, ClientReported, ClientStore,
                ClientRmdir, ClientFinish
  <2>3. CASE \E r \in Requests : Thread(r)
    BY <2>3 DEF Thread, ThreadReply, ThreadOpen, ThreadWrite
  <2>4. CASE \E r \in Requests : Handler(r)
    BY <2>4 DEF Handler, HandlerCheck, HandlerFresh, HandlerOpen,
                HandlerCount, HandlerMember, HandlerLoad, HandlerCopy,
                HandlerFlush, HandlerMark, HandlerUnlink
  <2>5. CASE UNCHANGED vars
    BY <2>5 DEF vars
  <2> QED
    BY <1>2, <2>1, <2>2, <2>3, <2>4, <2>5 DEF SoundStep
<1> QED
  BY <1>2, <1>3

\* Nothing writes to the running files.
LEMMA KeysStep ==
  ASSUME [Next]_vars
  PROVE  keysAgree' = keysAgree
<1>1. CASE PublishStep \/ ClientClaim
  BY <1>1 DEF PublishStep, PublishTime, PublishCount, ClientClaim
<1>2. CASE LoopStep
  BY <1>2 DEF LoopStep, ClientPoll, ClientAwait, ClientDrain, ClientGather,
              ClientReport, ClientReported, ClientStore, ClientRmdir,
              ClientFinish, ReportTimesOut, ClientStoreFails, ClientCrash
<1>3. CASE \E r \in Requests : ThreadAct(r)
  BY <1>3 DEF ThreadAct, Thread, ThreadReply, ThreadOpen, ThreadWrite,
              WriteFails, ReplyTimesOut, ThreadStep
<1>4. CASE \E r \in Requests : HandlerAct(r)
  BY <1>4 DEF HandlerAct, Handler, HandlerCheck, HandlerFresh, HandlerOpen,
              HandlerCount, HandlerMember, HandlerLoad, HandlerCopy,
              HandlerFlush, HandlerMark, HandlerUnlink, OpenFails,
              HandlerThrows, MoveFails, UnlinkFails, HandlerGoto
<1>5. CASE ReportAct \/ ServerCrash \/ UNCHANGED vars
  BY <1>5 DEF ReportAct, Report, ReportMark, ReportExists, ReportRemove,
              ReportGoto, ReportThrows, ServerCrash, vars
<1> QED
  BY <1>1, <1>2, <1>3, <1>4, <1>5, StepKinds

\* A request that was started is one of the first PROGRESS, for its chunk.
LEMMA Started ==
  ASSUME IndInv, NEW r \in Requests,
         thread[r] # "none" \/ handler[r] # "none"
  PROVE  /\ r \in All /\ chunkOf[r] = r - 1
         /\ tail["server"] = "done"
<1>1. r \in 1 .. issued
  BY TransferAssumption DEF IndInv, Lifecycle, Requests, TypeInv, TypeOK
<1> QED
  BY <1>1, TransferAssumption DEF IndInv, Counting, All, TypeInv, TypeOK

\* A request that is not counted yet finds the index published, its waiting
\* file in place and no secret file.
LEMMA NotRefused ==
  ASSUME IndInv, NEW r \in Requests, handler[r] \in ServingPcs
  PROVE  /\ tail["server"] = "done" /\ waiting /\ serverSecret = "none"
         /\ chunkOf[r] < PROGRESS
<1>1. r \in All /\ r \notin served
  BY Started DEF IndInv, Serving, ServingPcs
<1>2. served # All
  BY <1>1
<1> QED
  BY <1>1, <1>2, Started, TransferAssumption
     DEF IndInv, Moved, All, ServingPcs

LEMMA NoErrorStep ==
  ASSUME IndInv, Smooth, SoundStep, UNCHANGED faultVars
  PROVE  NoError'
<1> USE DEF Smooth, NoError
<1> mishap' = {}
  BY DEF faultVars
<1> TypeInv /\ handler \in [Requests -> HandlerPcs]
    /\ thread \in [Requests -> ThreadPcs]
  BY DEF IndInv, TypeInv, TypeOK
<1>1. CASE PublishStep \/ UNCHANGED vars
  BY <1>1, PublishFrame DEF vars, loopVars, requestVars
<1>2. CASE ClientClaim
  BY <1>2, ClaimFrame
<1>3. CASE Client /\ ~ClientClaim
  <2>1. UNCHANGED <<handler, thread>>
    BY <1>3, LoopFrame DEF Client, LoopStep
  <2>2. rep' # "failed"
    BY <1>3 DEF Client, ClientPoll, ClientAwait, ClientDrain, ClientGather,
                ClientReport, ClientReported, ClientStore, ClientRmdir,
                ClientFinish
  <2>3. cpc' # "dead"
    <3>1. CASE ClientAwait
      <4>1. cur \in Nat /\ issued \in Nat /\ cur > 0 /\ issued <= PROGRESS
        BY TransferAssumption DEF IndInv, Counting, TypeInv, TypeOK
      <4>2. cur <= issued => cur \in Requests
        BY <4>1, TransferAssumption DEF Requests
      <4> QED
        BY <3>1, <4>1, <4>2 DEF ClientAwait, AfterBatch
    <3>2. CASE ~ClientAwait
      BY <1>3, <3>2
         DEF Client, ClientPoll, ClientDrain, ClientGather, ClientReport,
             ClientReported, AfterReport, ClientStore, ClientRmdir,
             ClientFinish
    <3> QED
      BY <3>1, <3>2
  <2> QED
    BY <2>1, <2>2, <2>3
<1>4. ASSUME NEW r \in Requests, Thread(r) PROVE NoError'
  <2>1. UNCHANGED <<handler, cpc, rep>>
    BY <1>4, ThreadFrame DEF ThreadAct
  <2>2. \E to \in ThreadPcs \ {"false", "throw"} :
            thread' = [thread EXCEPT ![r] = to]
    BY <1>4 DEF Thread, ThreadReply, ThreadOpen, ThreadWrite, ThreadStep,
                ThreadPcs
  <2> QED
    BY <2>1, <2>2
<1>5. ASSUME NEW r \in Requests, Handler(r) PROVE NoError'
  <2>1. UNCHANGED <<thread, cpc, rep>>
    BY <1>5, HandlerFrame DEF HandlerAct
  <2>2. handler[r] \in ServingPcs =>
            /\ tail["server"] = "done" /\ waiting /\ serverSecret = "none"
            /\ chunkOf[r] < PROGRESS
    BY NotRefused
  <2>3. handler[r] = "member" => valid = NONE
    BY DEF IndInv, Moving, MovePcs
  <2>4. handler' = [handler EXCEPT ![r] = handler'[r]]
        /\ handler'[r] \notin {"err", "lost"}
    BY <1>5, <2>2, <2>3
       DEF Handler, HandlerCheck, HandlerFresh, HandlerOpen, HandlerCount,
           HandlerMember, HandlerLoad, HandlerCopy, HandlerFlush,
           HandlerMark, HandlerUnlink, HandlerGoto, ServingPcs
  <2> QED
    BY <2>1, <2>4
<1>6. CASE Report
  BY <1>6, ReportFrame
     DEF ReportAct, Report, ReportMark, ReportExists, ReportRemove,
         ReportGoto
<1> QED
  BY <1>1, <1>2, <1>3, <1>4, <1>5, <1>6 DEF SoundStep

\* A thread that still has something to do belongs to a loop that receives.
LEMMA StillReceiving ==
  ASSUME IndInv, Gathering, NEW r \in Requests,
         thread[r] \notin {"none", "true"}
  PROVE  cpc \in Receiving /\ num = 0 /\ dir
<1>1. r \in All
  BY Started
<1> QED
  BY <1>1 DEF Gathering, AllReceived, Receiving

LEMMA GatheringStep ==
  ASSUME IndInv, IndInv', Smooth, NoError', SoundStep
  PROVE  Gathering'
<1> USE DEF Smooth
<1> TypeInv /\ thread \in [Requests -> ThreadPcs] /\ num \in Nat
    /\ progress \in Nat /\ All \subseteq Requests /\ dir \in BOOLEAN
    /\ PROGRESS \in Nat \ {0}
  BY TransferAssumption DEF IndInv, TypeInv, TypeOK, All, Requests
<1>1. CASE PublishStep \/ Report \/ UNCHANGED vars
  BY <1>1, PublishFrame, ReportFrame
     DEF ReportAct, vars, loopVars, requestVars, fileVars, Gathering,
         AllReceived
<1>2. CASE ClientClaim
  BY <1>2, ClaimFrame DEF Gathering, Receiving
<1>3. CASE Client /\ ~ClientClaim
  <2>1. UNCHANGED <<thread, progress>>
    BY <1>3, LoopFrame DEF Client, LoopStep
  <2>2. AllReceived' <=> AllReceived
    BY <2>1 DEF AllReceived
  <2>3. CASE ClientPoll \/ ClientDrain \/ ClientReported \/ ClientStore
             \/ ClientFinish
    BY <2>1, <2>2, <2>3
       DEF ClientPoll, ClientDrain, ClientReported, AfterReport, ClientStore,
           ClientFinish, NoError, Gathering, Receiving, fileVars
  <2>4. CASE ClientAwait
    <3>1. cpc' = "gather" => AllReceived'
      BY DEF IndInv, Awaiting, SomeFailed, NoError
    <3>2. cpc' = "gather" => progress = PROGRESS
      BY <2>1, <2>4, TransferAssumption
         DEF ClientAwait, AfterBatch, Complete, NoError, IndInv, TypeInv,
             Claims
    <3>3. cpc' \in {"await", "gather", "drain"}
      BY <2>4 DEF ClientAwait, AfterBatch, NoError
    <3> QED
      BY <2>1, <2>4, <3>1, <3>2, <3>3
         DEF ClientAwait, Gathering, Receiving, fileVars
  <2>5. CASE ClientGather \/ ClientReport
    BY <2>1, <2>2, <2>5
       DEF ClientGather, ClientReport, Gathering, Receiving, fileVars
  <2>6. CASE ClientRmdir
    <3>1. AllReceived /\ progress = PROGRESS /\ num = PROGRESS
      BY <2>6 DEF ClientRmdir, Gathering, Receiving
    <3>2. ASSUME NEW c \in Chunks PROVE chunkFile[c] = "none"
      <4>1. c + 1 \in All /\ c + 1 <= num /\ (c + 1) - 1 = c
        BY <3>1 DEF Chunks, All
      <4> QED
        BY <4>1 DEF FilesAsDue
    <3>3. ~dir'
      BY <2>6, <3>2 DEF ClientRmdir
    <3> QED
      BY <2>1, <2>2, <2>6, <3>1, <3>3 DEF ClientRmdir, Gathering, Receiving
  <2> QED
    BY <1>3, <2>3, <2>4, <2>5, <2>6 DEF Client
<1>4. ASSUME NEW r \in Requests, Thread(r) PROVE Gathering'
  <2>1. UNCHANGED <<cpc, num, dir, progress>>
    BY <1>4, ThreadFrame DEF ThreadAct
  <2>2. thread[r] \in {"wait", "open", "write"}
    BY <1>4 DEF Thread, ThreadReply, ThreadOpen, ThreadWrite, ThreadStep
  <2>3. cpc \in Receiving
    BY <2>2, StillReceiving
  <2> QED
    BY <2>1, <2>3 DEF Gathering, Receiving
<1>5. ASSUME NEW r \in Requests, Handler(r) PROVE Gathering'
  BY <1>5, HandlerFrame DEF HandlerAct, Gathering, AllReceived
<1> QED
  BY <1>1, <1>2, <1>3, <1>4, <1>5 DEF SoundStep

LEMMA FilesAsDueStep ==
  ASSUME IndInv, Smooth, SoundStep, keysAgree' = keysAgree
  PROVE  FilesAsDue'
<1> USE DEF Smooth
<1> TypeInv /\ thread \in [Requests -> ThreadPcs] /\ num \in Nat
    /\ issued \in Nat /\ issued <= PROGRESS
    /\ chunkFile \in [Chunks -> {"none", "partial", "good", "bad"}]
    /\ All \subseteq Requests /\ PROGRESS \in Nat \ {0}
  BY TransferAssumption
     DEF IndInv, TypeInv, TypeOK, Counting, All, Requests
<1> \A r \in All : r - 1 \in Chunks
  BY DEF All, Chunks
<1>1. CASE UNCHANGED <<chunkFile, thread, num>>
  BY <1>1 DEF FilesAsDue
<1>2. CASE ClientClaim
  <2>1. /\ UNCHANGED <<chunkFile, num>>
        /\ thread' = [thread EXCEPT ![issued + 1] = "wait"]
    BY <1>2, ClaimFrame
  <2>2. issued + 1 \in Requests => thread[issued + 1] = "none"
    BY DEF IndInv, Lifecycle
  <2>3. ASSUME NEW r \in All
        PROVE  \/ thread'[r] = thread[r]
               \/ thread[r] = "none" /\ thread'[r] = "wait"
    BY <2>1, <2>2
  <2> QED
    BY <2>1, <2>3 DEF FilesAsDue
<1>3. CASE Client /\ ~ClientClaim
  <2>1. thread' = thread
    BY <1>3, LoopFrame DEF Client, LoopStep
  <2>2. CASE ClientGather
    <3>1. AllReceived /\ num < PROGRESS
      BY <2>2 DEF ClientGather, Gathering, Receiving
    <3>2. /\ chunkFile' = [chunkFile EXCEPT ![num] = "none"]
          /\ num' = num + 1
      BY <2>2 DEF ClientGather
    <3>3. ASSUME NEW r \in All
          PROVE  /\ r <= num' => chunkFile'[r - 1] = "none"
                 /\ r > num' => r > num /\ chunkFile'[r - 1] = chunkFile[r - 1]
      <4>1. r \in Nat /\ r <= num' => r <= num \/ r - 1 = num
        BY <3>2
      <4> QED
        BY <3>2, <4>1 DEF FilesAsDue, All
    <3> QED
      BY <2>1, <3>1, <3>3 DEF FilesAsDue, AllReceived
  <2>3. CASE ~ClientGather
    BY <1>1, <1>3, <2>1, <2>3
       DEF Client, ClientPoll, ClientAwait, ClientDrain, ClientReport,
           ClientReported, ClientStore, ClientRmdir, ClientFinish, fileVars
  <2> QED
    BY <2>2, <2>3
<1>4. ASSUME NEW r \in Requests, Thread(r) PROVE FilesAsDue'
  <2>1. num' = num
    BY <1>4, ThreadFrame DEF ThreadAct
  <2>2. thread[r] \in {"wait", "open", "write"}
    BY <1>4 DEF Thread, ThreadReply, ThreadOpen, ThreadWrite, ThreadStep
  <2>3. /\ num = 0 /\ dir
        /\ r \in All /\ chunkOf[r] = r - 1
    BY <2>2, StillReceiving, Started
  <2>4. ASSUME NEW o \in All, o # r
        PROVE  thread'[o] = thread[o] /\ chunkFile'[o - 1] = chunkFile[o - 1]
    <3>1. o - 1 # chunkOf[r]
      BY <2>3, <2>4 DEF All
    <3> QED
      BY <1>4, <2>4, <3>1
         DEF Thread, ThreadReply, ThreadOpen, ThreadWrite, ThreadStep
  <2>5. /\ thread'[r] \in {"none", "wait", "open"} =>
               chunkFile'[r - 1] = "none"
        /\ thread'[r] = "write" => chunkFile'[r - 1] = "partial"
        /\ thread'[r] = "true" /\ keysAgree => chunkFile'[r - 1] = "good"
    <3>1. CASE ThreadReply(r)
      BY <2>3, <3>1 DEF ThreadReply, ThreadStep, FilesAsDue
    <3>2. CASE ThreadOpen(r)
      BY <2>3, <3>2 DEF ThreadOpen, ThreadStep, FilesAsDue
    <3>3. CASE ThreadWrite(r)
      <4>1. chunkFile[r - 1] = "partial"
        BY <2>3, <3>3 DEF ThreadWrite, ThreadStep, FilesAsDue
      <4>2. ~Contended(r)
        <5> SUFFICES ASSUME NEW o \in Requests \ {r}, thread[o] = "write"
                     PROVE  chunkOf[o] # chunkOf[r]
          BY DEF Contended
        <5> o \in All /\ chunkOf[o] = o - 1
          BY Started
        <5> QED
          BY <2>3 DEF All
      <4>3. keysAgree => Written(r) = {"good"}
        BY <2>3, <4>1, <4>2 DEF Written
      <4> QED
        BY <2>3, <3>3, <4>3 DEF ThreadWrite, ThreadStep
    <3> QED
      BY <1>4, <3>1, <3>2, <3>3 DEF Thread
  <2>6. ASSUME NEW o \in All
        PROVE  /\ o <= num' \/ thread'[o] \in {"none", "wait", "open"} =>
                      chunkFile'[o - 1] = "none"
               /\ thread'[o] = "write" => chunkFile'[o - 1] = "partial"
               /\ thread'[o] = "true" /\ o > num' /\ keysAgree =>
                      chunkFile'[o - 1] = "good"
    <3>1. ~(o <= num')
      BY <2>1, <2>3 DEF All
    <3>2. CASE o = r
      BY <2>5, <3>1, <3>2
    <3>3. CASE o # r
      BY <2>1, <2>4, <3>3 DEF FilesAsDue
    <3> QED
      BY <3>2, <3>3
  <2> QED
    BY <2>6 DEF FilesAsDue
<1>5. ASSUME NEW r \in Requests, Handler(r) PROVE FilesAsDue'
  BY <1>1, <1>5, HandlerFrame DEF HandlerAct
<1> QED
  BY <1>1, <1>2, <1>3, <1>4, <1>5, PublishFrame, ReportFrame
     DEF SoundStep, ReportAct, vars, fileVars, loopVars, requestVars

LEMMA NothingLostStep ==
  ASSUME IndInv, Smooth, SoundStep, keysAgree' = keysAgree
  PROVE  NothingLost'
<1> USE DEF Smooth
<1> TypeInv /\ num \in Nat /\ progress \in Nat /\ PROGRESS \in Nat \ {0}
  BY TransferAssumption DEF IndInv, TypeInv, TypeOK
<1>1. CASE UNCHANGED <<buf, num, verdict>>
  BY <1>1 DEF NothingLost
<1>2. CASE ClientGather
  <2>1. /\ AllReceived /\ num < PROGRESS
        /\ buf' = buf \cup {c \in {num} : chunkFile[c] = "good"}
        /\ num' = num + 1 /\ verdict' = verdict
    BY <1>2 DEF ClientGather, Gathering, Receiving
  <2>2. num + 1 \in All /\ num + 1 > num /\ (num + 1) - 1 = num
    BY <2>1 DEF All
  <2>3. keysAgree => chunkFile[num] = "good"
    BY <2>1, <2>2 DEF FilesAsDue, AllReceived
  <2>4. {c \in Chunks : c < num + 1} = {c \in Chunks : c < num} \cup {num}
    BY <2>1 DEF Chunks
  <2> QED
    BY <2>1, <2>3, <2>4 DEF NothingLost
<1>3. CASE ClientReport
  <2>1. num = PROGRESS
    BY <1>3 DEF ClientReport, Gathering, Receiving
  <2>2. {c \in Chunks : c < num} = Chunks
    BY <2>1 DEF Chunks
  <2> QED
    BY <1>3, <2>2 DEF ClientReport, Checksum, NothingLost, VALID, INVALID
<1>4. CASE Client /\ ~ClientGather /\ ~ClientReport
  BY <1>1, <1>4
     DEF Client, ClientPoll, ClientClaim, ClientAwait, ClientDrain,
         ClientReported, ClientStore, ClientRmdir, ClientFinish
<1>5. ASSUME NEW r \in Requests, Thread(r) PROVE NothingLost'
  BY <1>1, <1>5, ThreadFrame DEF ThreadAct
<1>6. ASSUME NEW r \in Requests, Handler(r) PROVE NothingLost'
  BY <1>1, <1>6, HandlerFrame DEF HandlerAct
<1> QED
  BY <1>1, <1>2, <1>3, <1>4, <1>5, <1>6, PublishFrame, ReportFrame
     DEF SoundStep, ReportAct, vars, loopVars

LEMMA FaultFreeInit == Init => FaultFree
  BY TransferAssumption
     DEF Init, FaultFree, Smooth, NoError, Gathering, FilesAsDue,
         NothingLost, Receiving, Chunks, Requests, All, NONE, INVALID

LEMMA FaultFreeStep ==
  ASSUME IndInv, IndInv', FaultFree, [Next]_vars
  PROVE  FaultFree'
<1> SUFFICES ASSUME faults' = 0 PROVE Smooth'
  BY DEF FaultFree
<1>1. Smooth /\ SoundStep /\ UNCHANGED faultVars
  BY SoundSteps DEF FaultFree, IndInv, faultVars
<1>2. NoError'
  BY <1>1, NoErrorStep
<1> QED
  BY <1>1, <1>2, KeysStep, GatheringStep, FilesAsDueStep, NothingLostStep
     DEF Smooth

LEMMA FaultFreeInvariance ==
  ASSUME ~PublishGap
  PROVE  Spec => [](IndInv /\ FaultFree)
<1>1. IndInv /\ [Next]_vars => IndInv'
  BY InvStep
<1>2. IndInv /\ IndInv' /\ FaultFree /\ [Next]_vars => FaultFree'
  BY FaultFreeStep
<1> QED
  BY InvInit, FaultFreeInit, <1>1, <1>2, PTL DEF Spec

\* Running files that agree and no fault so far: the client's process has not
\* ended early, and a round that is over has delivered the secret.
FaultFreeOutcome ==
    faults = 0 /\ keysAgree =>
        cpc # "dead" /\ (cpc = "done" => Delivered)

LEMMA FaultFreeOutcomeFact == IndInv /\ FaultFree => FaultFreeOutcome
<1> SUFFICES ASSUME IndInv, Smooth, keysAgree, faults = 0
             PROVE  cpc # "dead" /\ (cpc = "done" => Delivered)
  BY DEF FaultFree, FaultFreeOutcome
<1> USE DEF Smooth, IndInv
<1>1. cpc # "dead"
  BY DEF NoError
<1>2. ASSUME cpc = "done" PROVE Delivered
  <2>1. AllReceived /\ ~dir
    BY <1>2 DEF Gathering, Receiving
  <2>2. verdict = VALID
    BY <1>2 DEF Deciding, NothingLost, TypeInv, TypeOK, NONE, VALID, INVALID
  <2>3. valid = VALID /\ clientSecret = "intact"
    BY <1>2, <2>2 DEF Deciding, NoError
  <2>4. serverSecret = "intact"
    BY <2>3, RoundFacts, ValidMeansIntactFact DEF ValidMeansIntact, NoError
  <2>5. All \subseteq Requests
    BY TransferAssumption DEF All, Requests
  <2>6. \A r \in All : handler[r] = "ok"
    BY <2>1, <2>5 DEF AllReceived, Lifecycle
  <2>7. served = All
    <3>1. served \subseteq All
      BY RoundFacts DEF RoundInv, Answered
    <3> QED
      BY <2>5, <2>6, <3>1 DEF Serving
  <2>8. ~waiting
    BY <2>6, <2>7 DEF Moved, MovePcs
  <2> QED
    BY <2>1, <2>3, <2>4, <2>8 DEF Delivered
<1> QED
  BY <1>1, <1>2

\* Until the first fault, a round with running files that agree cannot end
\* otherwise than with the secret at both sides and nothing left over.
THEOREM FaultFreeOutcomeHolds ==
  ASSUME ~PublishGap
  PROVE  Spec => []FaultFreeOutcome
  BY FaultFreeInvariance, FaultFreeOutcomeFact, PTL

\* A behaviour whose round ends delivers the secret if nothing fails in it.
\* That the round ends is liveness, and TLC's.
THEOREM EndedRoundDelivers ==
  ASSUME ~PublishGap
  PROVE  Spec => (RoundEnds => FaultFreeDelivers)
<1>1. keysAgree /\ [Next]_vars => keysAgree'
  BY KeysStep, Zenon
<1>2. FaultFreeOutcome /\ keysAgree /\ faults = 0 /\ cpc \in {"done", "dead"}
        => Delivered
  BY DEF FaultFreeOutcome
<1> QED
  BY <1>1, <1>2, FaultFreeOutcomeHolds, PTL
     DEF Spec, RoundEnds, FaultFreeDelivers

-----------------------------------------------------------------------------
(* What the end of a round rests on: while the client's loop is not over,  *)
(* some actor has a step to take that is not a fault.                      *)

ClientCan ==
    \/ cpc = "poll" /\ Published
    \/ cpc \in {"claim", "gather", "store", "flush", "rmdir"}
    \/ cpc = "await" /\ (cur > issued \/ Ended(cur))
    \/ cpc \in {"drain", "finish"} /\ \A r \in 1 .. issued : Ended(r)
    \/ cpc = "reporting" /\ rep \in {"replied", "failed"}

\* A thread has its answer, or works on it.
ThreadCan(r) ==
    \/ thread[r] = "wait" /\ handler[r] \in {"ok", "err", "lost"}
    \/ thread[r] \in {"open", "write"}

HandlerCan(r) == handler[r] \in ServingPcs \cup MovePcs

ReportCan == rep \in ReportRunning

GeneratorCan == \E s \in Sources : tail[s] # "done"

SomebodyCan ==
    \/ ClientCan
    \/ \E r \in Requests : ThreadCan(r) \/ HandlerCan(r)
    \/ ReportCan
    \/ GeneratorCan

\* A request that was started has ended, or its thread can go on, or the
\* handler that the thread waits for can.
LEMMA RequestGoesOn ==
  ASSUME RoundInv, NEW r \in 1 .. issued
  PROVE  r \in Requests /\ (Ended(r) \/ ThreadCan(r) \/ HandlerCan(r))
<1>1. r \in Requests /\ ~(r > issued)
  BY DEF RoundInv, Issuing, TypeInv, TypeOK
<1>2. thread[r] \in ThreadPcs \ {"none"} /\ handler[r] \in HandlerPcs \ {"none"}
  BY <1>1 DEF RoundInv, TypeInv, TypeOK, Lifecycle
<1> QED
  BY <1>1, <1>2
     DEF ThreadPcs, HandlerPcs, Ended, ThreadCan, HandlerCan

\* While a request has not ended, somebody can go on.
LEMMA AllEnded ==
  ASSUME RoundInv, ~SomebodyCan
  PROVE  \A r \in 1 .. issued : Ended(r)
  BY RequestGoesOn DEF SomebodyCan

LEMMA SomebodyCanFact ==
  ASSUME RoundInv, cpc \notin {"done", "dead"}
  PROVE  SomebodyCan
<1> SUFFICES ASSUME ~SomebodyCan PROVE FALSE
  OBVIOUS
<1> USE DEF RoundInv, SomebodyCan, ClientCan
<1>1. \A r \in 1 .. issued : Ended(r)
  BY AllEnded
<1>2. cpc \in {"poll", "await", "reporting"}
  BY <1>1 DEF TypeInv, TypeOK, LoopPcs
<1>3. CASE cpc = "poll"
  BY <1>3 DEF GeneratorCan, Published, Sources
<1>4. CASE cpc = "await"
  <2>1. cur \in 1 .. issued \/ cur > issued
    BY DEF Issuing, TypeInv, TypeOK
  <2> QED
    BY <1>1, <1>4, <2>1
<1>5. CASE cpc = "reporting"
  <2>1. rep # "idle"
    BY <1>5 DEF Deciding
  <2> QED
    BY <1>5, <2>1 DEF ReportCan, TypeInv, TypeOK, ReportPcs
<1> QED
  BY <1>2, <1>3, <1>4, <1>5

\* The client never waits for a thread, a handler or a report that has nothing
\* left to do, however many threads it runs and whatever fails.
THEOREM RoundNotStuck ==
  ASSUME ~PublishGap
  PROVE  Spec => [](cpc \notin {"done", "dead"} => SomebodyCan)
<1>1. RoundInv => (cpc \notin {"done", "dead"} => SomebodyCan)
  BY SomebodyCanFact
<1> QED
  BY <1>1, Invariance, PTL

-----------------------------------------------------------------------------
(* Running files that differ, of the code as it is.                        *)

\* Nothing of such a round passes the checksum, so nothing is called VALID.
NothingKept ==
    ~keysAgree =>
        /\ \A c \in Chunks : chunkFile[c] # "good"
        /\ buf = {}
        /\ verdict # VALID
        /\ valid # VALID
        /\ clientSecret = "none"
        /\ cpc \notin {"store", "flush"}

LEMMA NothingKeptStep ==
  TypeInv /\ NothingKept /\ [Next]_vars => NothingKept'
<1> SUFFICES ASSUME TypeInv, NothingKept, [Next]_vars, ~keysAgree
             PROVE  NothingKept'
  BY KeysStep, Zenon DEF NothingKept
<1>0. /\ \A c \in Chunks : chunkFile[c] # "good"
      /\ buf = {} /\ verdict # VALID /\ valid # VALID
      /\ clientSecret = "none" /\ cpc \notin {"store", "flush"}
      /\ chunkFile \in [Chunks -> {"none", "partial", "good", "bad"}]
  BY DEF NothingKept, TypeInv, TypeOK
<1>1. CASE PublishStep \/ ClientClaim
  BY <1>0, <1>1 DEF PublishStep, PublishTime, PublishCount, ClientClaim,
                    NothingKept, fileVars, loopVars
<1>2. CASE LoopStep
  <2>1. CASE ClientGather
    <3>1. buf' = {} /\ \A c \in Chunks : chunkFile'[c] # "good"
      <4>1. /\ num \in Chunks
            /\ buf' = buf \cup {c \in {num} : chunkFile[c] = "good"}
            /\ chunkFile' = [chunkFile EXCEPT ![num] = "none"]
        BY <2>1, TransferAssumption
           DEF ClientGather, TypeInv, TypeOK, Claims, Sources, Chunks
      <4>2. {c \in {num} : chunkFile[c] = "good"} = {}
        BY <1>0, <4>1
      <4>3. buf' = {}
        BY <1>0, <4>1, <4>2
      <4>4. \A c \in Chunks :
                chunkFile'[c] = IF c = num THEN "none" ELSE chunkFile[c]
        BY <1>0, <4>1
      <4> QED
        BY <1>0, <4>3, <4>4
    <3>2. UNCHANGED <<redisVars, clientSecret, cpc, verdict>>
      BY <2>1 DEF ClientGather
    <3> QED
      BY <1>0, <3>1, <3>2 DEF NothingKept, redisVars
  <2>2. CASE ClientReport
    <3>1. ~Checksum
      BY <1>0, TransferAssumption DEF Checksum, Chunks
    <3> QED
      BY <1>0, <2>2, <3>1
         DEF ClientReport, NothingKept, redisVars, fileVars, VALID, INVALID
  <2>3. CASE \/ ClientReported \/ ReportTimesOut \/ ClientStore
             \/ ClientStoreFails
    BY <1>0, <2>3
       DEF ClientReported, ReportTimesOut, AfterReport, ClientStore,
           ClientStoreFails, NothingKept, redisVars, fileVars
  <2>4. CASE \/ ClientPoll \/ ClientAwait \/ ClientDrain \/ ClientRmdir
             \/ ClientFinish \/ ClientCrash
    BY <1>0, <2>4
       DEF ClientPoll, ClientAwait, AfterBatch, ClientDrain, ClientRmdir,
           ClientFinish, ClientCrash, NothingKept, redisVars, fileVars
  <2> QED
    BY <1>2, <2>1, <2>2, <2>3, <2>4 DEF LoopStep
<1>3. ASSUME NEW r \in Requests, ThreadAct(r) PROVE NothingKept'
  <2>1. UNCHANGED <<redisVars, clientSecret, loopVars>>
    BY <1>3 DEF ThreadAct, Thread, ThreadReply, ThreadOpen, ThreadWrite,
                WriteFails, ReplyTimesOut, ThreadStep
  <2>2. \A c \in Chunks : chunkFile'[c] # "good"
    <3>1. CASE ThreadWrite(r)
      <4>1. PICK w \in Written(r) :
               chunkFile' = [chunkFile EXCEPT ![chunkOf[r]] = w]
        BY <3>1 DEF ThreadWrite
      <4>2. chunkOf[r] \in Chunks
        BY DEF TypeInv, TypeOK
      <4>3. w # "good"
        BY <1>0, <4>1, <4>2 DEF Written
      <4> QED
        BY <1>0, <4>1, <4>2, <4>3
    <3>2. CASE ThreadOpen(r) \/ WriteFails(r)
      BY <1>0, <3>2 DEF ThreadOpen, WriteFails
    <3>3. CASE ThreadReply(r) \/ ReplyTimesOut(r)
      BY <1>0, <3>3 DEF ThreadReply, ReplyTimesOut
    <3> QED
      BY <1>3, <3>1, <3>2, <3>3 DEF ThreadAct, Thread
  <2> QED
    BY <1>0, <2>1, <2>2 DEF NothingKept, redisVars, loopVars
<1>4. ASSUME NEW r \in Requests, HandlerAct(r) PROVE NothingKept'
  <2>1. valid' = valid \/ valid' = INVALID
    BY <1>4 DEF HandlerAct, Handler, HandlerCheck, HandlerFresh, HandlerOpen,
                HandlerCount, HandlerMember, HandlerLoad, HandlerCopy,
                HandlerFlush, HandlerMark, HandlerUnlink, OpenFails,
                HandlerThrows, MoveFails, UnlinkFails, redisVars
  <2>2. UNCHANGED <<fileVars, loopVars>>
    BY <1>4 DEF HandlerAct, Handler, HandlerCheck, HandlerFresh, HandlerOpen,
                HandlerCount, HandlerMember, HandlerLoad, HandlerCopy,
                HandlerFlush, HandlerMark, HandlerUnlink, OpenFails,
                HandlerThrows, MoveFails, UnlinkFails, HandlerGoto
  <2> QED
    BY <1>0, <2>1, <2>2 DEF NothingKept, fileVars, loopVars, VALID, INVALID
<1>5. CASE ReportAct
  <2>1. valid' = valid \/ valid' = verdict
    BY <1>5 DEF ReportAct, Report, ReportMark, ReportExists, ReportRemove,
                ReportThrows, redisVars
  <2>2. UNCHANGED <<fileVars, loopVars>>
    BY <1>5 DEF ReportAct, Report, ReportMark, ReportExists, ReportRemove,
                ReportGoto, ReportThrows
  <2> QED
    BY <1>0, <2>1, <2>2 DEF NothingKept, fileVars, loopVars
<1>6. CASE ServerCrash \/ UNCHANGED vars
  BY <1>0, <1>6 DEF ServerCrash, NothingKept, vars, redisVars, fileVars,
                    loopVars
<1> QED
  BY <1>1, <1>2, <1>3, <1>4, <1>5, <1>6, StepKinds

\* Whatever fails, with the gap or without, a secret that was sent under
\* running files that differ is never VALID, and the client never writes it.
THEOREM UnequalKeysKeepNothing ==
  Spec => [](~keysAgree => valid # VALID /\ clientSecret = "none")
<1>1. Init => NothingKept
  BY DEF Init, NothingKept, NONE, VALID
<1>2. NothingKept => (~keysAgree => valid # VALID /\ clientSecret = "none")
  BY DEF NothingKept
<1> QED
  BY <1>1, <1>2, NothingKeptStep, TypeInit, TypeStep, PTL DEF Spec
=============================================================================
