------------------------------ MODULE Transfer ------------------------------
(***************************************************************************)
(* The transfer of one secret (one index) from the server to the client.   *)
(*                                                                         *)
(*  - the generator script publishes the index: per side, a creation time  *)
(*    and then a progress counter reset to 0 (generateSecretFile.cc);      *)
(*  - the client's main loop claims chunk numbers from its counter and     *)
(*    runs one thread per chunk (ClientApp.cc, Decrypt::process), then     *)
(*    gathers the chunk files and reports a verdict (Decrypt::gather);     *)
(*  - one server handler per get_data request encrypts a chunk, counts it  *)
(*    and, on the last one, moves the waiting file to its secret place     *)
(*    (SecretController::getData, Encrypt::process, Encrypt::move);        *)
(*  - one handler serves result_report (SecretController::resultReport).   *)
(*                                                                         *)
(* Every read or write of Redis or of a file that another actor can see is *)
(* a step of its own.                                                      *)
(***************************************************************************)
EXTENDS Naturals, FiniteSets

CONSTANTS
    PROGRESS,          \* number of chunks of a secret (config.h)
    CLIENT_THREAD_NUM, \* requests the client runs at a time (config.h)
    PublishGap,        \* may the client's poll fall between the two zadds?
    MaxFaults          \* bound on the faults of one behaviour

ASSUME TransferAssumption ==
    /\ PROGRESS \in Nat \ {0}
    /\ CLIENT_THREAD_NUM \in Nat \ {0}
    /\ PublishGap \in BOOLEAN
    /\ MaxFaults \in Nat

Sources == {"server", "client"}
Chunks == 0 .. (PROGRESS - 1)

\* One request per claim. Fewer than PROGRESS claims can precede a reset of
\* the client's counter and PROGRESS follow it, so this bound is never met.
Requests == 1 .. (2 * PROGRESS)

\* The status of an index in the node's zset; NONE is "not a member".
NONE == 0
VALID == 1
INVALID == 2

VARIABLES
    \* Redis
    tail,         \* [source]: the generator's last steps for that side
    count,        \* [source]: the progress counter of the index
    valid,        \* the status of the index in the zset of the node pair
    \* files of the server
    waiting,      \* does the waiting file exist?
    serverSecret, \* the secret file: none, torn (incomplete, zeros) or intact
    \* files of the client
    chunkFile,    \* [chunk]: none, partial, good (decrypted right) or bad
    dir,          \* does the directory of the chunk files exist?
    clientSecret, \* the secret file
    \* the two running files are equal bytes, read as the same matrix A
    keysAgree,
    \* the client's main loop
    cpc,          \* its program counter
    progress,     \* the last value of its counter
    issued,       \* number of requests started
    cur,          \* the future it waits for
    num,          \* the chunk file it gathers next
    buf,          \* chunks that reached the gather buffer intact
    verdict,      \* the verdict it reports
    \* the client's threads and the server's handlers, one per request
    chunkOf, thread, handler,
    loaded,       \* [request]: did move() read the whole waiting file?
    rep,          \* the result_report handler
    \* history and bounds
    served,       \* requests the server has counted
    mishap,       \* which calls whose result nobody looks at have failed
    faults        \* faults so far

redisVars == <<tail, count, valid>>
serverVars == <<waiting, serverSecret>>
fileVars == <<chunkFile, dir, clientSecret>>
loopVars == <<cpc, progress, issued, cur, num, buf, verdict>>
requestVars == <<chunkOf, thread, handler, loaded, served>>
faultVars == <<mishap, faults>>
vars == <<redisVars, serverVars, fileVars, keysAgree, loopVars, requestVars,
          rep, faultVars>>

LoopPcs == {"poll", "claim", "await", "drain", "gather", "reporting",
            "store", "flush", "rmdir", "finish", "done", "dead"}
ThreadPcs == {"none", "wait", "open", "write", "true", "false", "throw"}
ServingPcs == {"check", "fresh", "open", "count"}
MovePcs == {"member", "load", "copy", "flush", "mark", "unlink"}
HandlerPcs == ServingPcs \cup MovePcs \cup {"none", "ok", "err", "lost"}
ReportRunning == {"mark", "exists", "remove"}
ReportPcs == ReportRunning \cup {"idle", "replied", "failed"}

\* The three: a read or write of move(), the call that reports the verdict,
\* and the write of the client's own copy.
Unchecked == {"copy", "report", "store"}

TypeOK ==
    /\ tail \in [Sources -> {"files", "time", "done"}]
    /\ count \in [Sources -> Nat]
    /\ valid \in {NONE, VALID, INVALID}
    /\ waiting \in BOOLEAN
    /\ serverSecret \in {"none", "torn", "intact"}
    /\ chunkFile \in [Chunks -> {"none", "partial", "good", "bad"}]
    /\ dir \in BOOLEAN
    /\ clientSecret \in {"none", "torn", "intact"}
    /\ keysAgree \in BOOLEAN
    /\ cpc \in LoopPcs
    /\ progress \in Nat
    /\ issued \in Nat
    /\ cur \in Nat
    /\ num \in Nat
    /\ buf \subseteq Chunks
    /\ verdict \in {NONE, VALID, INVALID}
    /\ chunkOf \in [Requests -> Chunks]
    /\ thread \in [Requests -> ThreadPcs]
    /\ handler \in [Requests -> HandlerPcs]
    /\ loaded \in [Requests -> BOOLEAN]
    /\ rep \in ReportPcs
    /\ served \subseteq Requests
    /\ mishap \subseteq Unchecked
    /\ faults \in 0 .. MaxFaults

\* The files of both sides are on disk; nothing is published yet. Whether
\* the two running files agree is decided by the rounds before this one.
Init ==
    /\ tail = [s \in Sources |-> "files"]
    /\ count = [s \in Sources |-> 0]
    /\ valid = NONE
    /\ waiting = TRUE
    /\ serverSecret = "none"
    /\ chunkFile = [c \in Chunks |-> "none"]
    /\ dir = TRUE
    /\ clientSecret = "none"
    /\ keysAgree \in BOOLEAN
    /\ cpc = "poll"
    /\ progress = 0
    /\ issued = 0
    /\ cur = 1
    /\ num = 0
    /\ buf = {}
    /\ verdict = NONE
    /\ chunkOf = [r \in Requests |-> 0]
    /\ thread = [r \in Requests |-> "none"]
    /\ handler = [r \in Requests |-> "none"]
    /\ loaded = [r \in Requests |-> FALSE]
    /\ rep = "idle"
    /\ served = {}
    /\ mishap = {}
    /\ faults = 0

-----------------------------------------------------------------------------
(* Conditions of the code that several steps share.                        *)

\* Mutant of Complete: the comparison is off by one.
CompleteEarly(n) == n >= PROGRESS - 1

\* Both sides compare the value zincrby returned with PROGRESS.
Complete(n) == n >= PROGRESS

\* Mutant of ChunkAt: the claim is used as it is.
ChunkAtClaim(p) == p

\* The chunk number a claim of value p stands for.
ChunkAt(p) == p - 1

Ended(r) == thread[r] \in {"true", "false", "throw"}

\* A fault happens, to one of the unchecked calls or to none of them: part of
\* every action that is one.
Fault(calls) ==
    /\ faults < MaxFaults
    /\ faults' = faults + 1
    /\ mishap' = mishap \cup calls

-----------------------------------------------------------------------------
(* The generator's last three Redis steps for a side. The script is one    *)
(* loop over one list, and the server's message was pushed first.          *)

PublishTime(s) ==
    /\ tail[s] = "files"
    /\ s = "client" => tail["server"] = "done"
    /\ tail' = [tail EXCEPT ![s] = "time"]
    /\ UNCHANGED <<count, valid, serverVars, fileVars, keysAgree, loopVars,
                   requestVars, rep, faultVars>>

PublishCount(s) ==
    /\ tail[s] = "time"
    /\ tail' = [tail EXCEPT ![s] = "done"]
    /\ count' = [count EXCEPT ![s] = 0]
    /\ UNCHANGED <<valid, serverVars, fileVars, keysAgree, loopVars,
                   requestVars, rep, faultVars>>

-----------------------------------------------------------------------------
(* The client's main loop.                                                 *)

\* Poll the two creation times. Without PublishGap the poll, one every 10 s,
\* is assumed not to fall between the generator's zadd of the client's time
\* and its zadd of the client's counter.
Published ==
    /\ \A s \in Sources : tail[s] # "files"
    /\ PublishGap \/ tail["client"] = "done"

ClientPoll ==
    /\ cpc = "poll"
    /\ Published
    /\ cpc' = "claim"
    /\ UNCHANGED <<redisVars, serverVars, fileVars, keysAgree, progress,
                   issued, cur, num, buf, verdict, requestVars, rep, faultVars>>

\* One turn of the batch loop: zincrby, start a thread, break on the last.
\* cur - 1 requests were started before this batch.
ClientClaim ==
    /\ cpc = "claim"
    /\ LET p == count["client"] + 1
           r == issued + 1
       IN  /\ count' = [count EXCEPT !["client"] = p]
           /\ progress' = p
           /\ IF p <= PROGRESS
              THEN /\ issued' = r
                   /\ chunkOf' = [chunkOf EXCEPT ![r] = ChunkAt(p)]
                   /\ thread' = [thread EXCEPT ![r] = "wait"]
                   /\ handler' = [handler EXCEPT ![r] = "check"]
              ELSE UNCHANGED <<issued, chunkOf, thread, handler>>
           /\ cpc' = IF \/ Complete(p)
                        \/ r - cur + 1 >= CLIENT_THREAD_NUM
                     THEN "await" ELSE "claim"
    /\ UNCHANGED <<tail, valid, serverVars, fileVars, keysAgree, cur, num,
                   buf, verdict, loaded, served, rep, faultVars>>

\* What follows the loop over the batch's futures.
AfterBatch == IF Complete(progress) THEN "gather" ELSE "drain"

\* future.get(): true goes on to the next, false leaves the loop, and an
\* exception of the thread ends the process.
ClientAwait ==
    /\ cpc = "await"
    /\ \/ /\ cur > issued
          /\ cpc' = AfterBatch
          /\ UNCHANGED cur
       \/ /\ cur <= issued
          /\ thread[cur] = "true"
          /\ cur' = cur + 1
          /\ UNCHANGED cpc
       \/ /\ cur <= issued
          /\ thread[cur] = "false"
          /\ cpc' = AfterBatch
          /\ UNCHANGED cur
       \/ /\ cur <= issued
          /\ thread[cur] = "throw"
          /\ cpc' = "dead"
          /\ UNCHANGED cur
    /\ UNCHANGED <<redisVars, serverVars, fileVars, keysAgree, progress,
                   issued, num, buf, verdict, requestVars, rep, faultVars>>

\* The futures of an unfinished batch are destroyed, which joins them.
ClientDrain ==
    /\ cpc = "drain"
    /\ \A r \in 1 .. issued : Ended(r)
    /\ cpc' = "claim"
    /\ cur' = issued + 1
    /\ UNCHANGED <<redisVars, serverVars, fileVars, keysAgree, progress,
                   issued, num, buf, verdict, requestVars, rep, faultVars>>

\* gather(): read and remove one chunk file, or go on without it.
ClientGather ==
    /\ cpc = "gather"
    /\ num < progress
    /\ buf' = buf \cup {c \in {num} : chunkFile[c] = "good"}
    /\ chunkFile' = [chunkFile EXCEPT ![num] = "none"]
    /\ num' = num + 1
    /\ UNCHANGED <<redisVars, serverVars, dir, clientSecret, keysAgree, cpc,
                   progress, issued, cur, verdict, requestVars, rep, faultVars>>

\* The buffer is compared with the CRC it ends with: an absent, partial or
\* wrong chunk is taken to show.
Checksum == buf = Chunks

\* Mutant of ClientReport: the client stores its copy before it reports.
ClientStoreFirst ==
    /\ cpc = "gather"
    /\ num >= progress
    /\ verdict' = IF Checksum THEN VALID ELSE INVALID
    /\ rep' = "mark"
    /\ cpc' = IF Checksum THEN "store" ELSE "reporting"
    /\ UNCHANGED <<redisVars, serverVars, fileVars, keysAgree, progress,
                   issued, cur, num, buf, requestVars, faultVars>>

ClientReport ==
    /\ cpc = "gather"
    /\ num >= progress
    /\ verdict' = IF Checksum THEN VALID ELSE INVALID
    /\ rep' = "mark"
    /\ cpc' = "reporting"
    /\ UNCHANGED <<redisVars, serverVars, fileVars, keysAgree, progress,
                   issued, cur, num, buf, requestVars, faultVars>>

\* What gather() does after the report, whatever came back.
AfterReport == IF verdict = VALID THEN "store" ELSE "rmdir"

\* The answer to the report, which gather() drops unread: that of
\* resultReport, or an error in its place.
ClientReported ==
    /\ cpc = "reporting"
    /\ rep \in {"replied", "failed"}
    /\ cpc' = AfterReport
    /\ UNCHANGED <<redisVars, serverVars, fileVars, keysAgree, progress,
                   issued, cur, num, buf, verdict, requestVars, rep, faultVars>>

\* The client's own copy: created (truncated), then complete.
ClientStore ==
    /\ \/ /\ cpc = "store"
          /\ clientSecret' = "torn"
          /\ cpc' = "flush"
       \/ /\ cpc = "flush"
          /\ clientSecret' = "intact"
          /\ cpc' = "rmdir"
    /\ UNCHANGED <<redisVars, serverVars, chunkFile, dir, keysAgree, progress,
                   issued, cur, num, buf, verdict, requestVars, rep, faultVars>>

\* The directory goes if it is empty; a failure is only logged.
ClientRmdir ==
    /\ cpc = "rmdir"
    /\ dir' = \E c \in Chunks : chunkFile[c] # "none"
    /\ cpc' = "finish"
    /\ UNCHANGED <<redisVars, serverVars, chunkFile, clientSecret, keysAgree,
                   progress, issued, cur, num, buf, verdict, requestVars, rep,
                   faultVars>>

\* Leaving the loop destroys the last batch's futures, which joins them.
ClientFinish ==
    /\ cpc = "finish"
    /\ \A r \in 1 .. issued : Ended(r)
    /\ cpc' = "done"
    /\ UNCHANGED <<redisVars, serverVars, fileVars, keysAgree, progress,
                   issued, cur, num, buf, verdict, requestVars, rep, faultVars>>

Client ==
    \/ ClientPoll \/ ClientClaim \/ ClientAwait \/ ClientDrain
    \/ ClientGather \/ ClientReport \/ ClientReported \/ ClientStore
    \/ ClientRmdir \/ ClientFinish

-----------------------------------------------------------------------------
(* Decrypt::process, one thread per request.                               *)

ThreadStep(r, from, to) ==
    /\ cpc # "dead"
    /\ thread[r] = from
    /\ thread' = [thread EXCEPT ![r] = to]
    /\ UNCHANGED <<redisVars, serverVars, dir, clientSecret, keysAgree,
                   loopVars, chunkOf, handler, loaded, served, rep>>

\* Mutant of ThreadReply: only a successful answer ends the wait.
ThreadReplyOkOnly(r) ==
    /\ handler[r] = "ok"
    /\ ThreadStep(r, "wait", "open")
    /\ UNCHANGED <<chunkFile, faultVars>>

\* The answer arrives: data, an error status, or none (an exception).
ThreadReply(r) ==
    /\ \/ handler[r] = "ok" /\ ThreadStep(r, "wait", "open")
       \/ handler[r] = "err" /\ ThreadStep(r, "wait", "false")
       \/ handler[r] = "lost" /\ ThreadStep(r, "wait", "throw")
    /\ UNCHANGED <<chunkFile, faultVars>>

\* Open the chunk file to append: without its directory nothing is created,
\* and the stream swallows what is written to it.
ThreadOpen(r) ==
    /\ ThreadStep(r, "open", "write")
    /\ chunkFile' = [chunkFile EXCEPT ![chunkOf[r]] =
                        IF dir /\ @ = "none" THEN "partial" ELSE @]
    /\ UNCHANGED faultVars

\* Another thread has the same chunk file open.
Contended(r) ==
    \E o \in Requests \ {r} :
        thread[o] = "write" /\ chunkOf[o] = chunkOf[r]

\* What the file may hold after the writes: an unlinked file stays so, and a
\* complete one only grows past the bytes gather() reads.
Written(r) ==
    IF chunkFile[chunkOf[r]] # "partial" THEN {chunkFile[chunkOf[r]]}
    ELSE IF ~keysAgree THEN {"bad"}
    ELSE IF Contended(r) THEN {"good", "bad"}
    ELSE {"good"}

ThreadWrite(r) ==
    /\ ThreadStep(r, "write", "true")
    /\ \E w \in Written(r) :
          chunkFile' = [chunkFile EXCEPT ![chunkOf[r]] = w]
    /\ UNCHANGED faultVars

Thread(r) == ThreadReply(r) \/ ThreadOpen(r) \/ ThreadWrite(r)

-----------------------------------------------------------------------------
(* SecretController::getData, one handler per request.                     *)

HandlerGoto(r, from, to) ==
    /\ handler[r] = from
    /\ handler' = [handler EXCEPT ![r] = to]
    /\ UNCHANGED <<tail, fileVars, keysAgree, loopVars, chunkOf, thread, rep>>

\* The index is published and its waiting file exists. The running file was
\* written before the index was published and is never removed.
HandlerCheck(r) ==
    /\ HandlerGoto(r, "check",
            IF tail["server"] # "files" /\ waiting THEN "fresh" ELSE "err")
    /\ UNCHANGED <<count, valid, serverVars, loaded, served, faultVars>>

HandlerFresh(r) ==
    /\ HandlerGoto(r, "fresh", IF serverSecret = "none" THEN "open" ELSE "err")
    /\ UNCHANGED <<count, valid, serverVars, loaded, served, faultVars>>

\* Open and read the chunk, and encrypt it.
HandlerOpen(r) ==
    /\ HandlerGoto(r, "open",
            IF waiting /\ chunkOf[r] < PROGRESS THEN "count" ELSE "err")
    /\ UNCHANGED <<count, valid, serverVars, loaded, served, faultVars>>

\* Mutant of HandlerCount: the counter's old value is compared.
HandlerCountOld(r) ==
    /\ HandlerGoto(r, "count",
            IF Complete(count["server"]) THEN "member" ELSE "ok")
    /\ count' = [count EXCEPT !["server"] = @ + 1]
    /\ served' = served \cup {r}
    /\ UNCHANGED <<valid, serverVars, loaded, faultVars>>

\* Mutant of HandlerCount: the one before the last moves the file as well.
HandlerCountEarly(r) ==
    /\ HandlerGoto(r, "count",
            IF Complete(count["server"] + 2) THEN "member" ELSE "ok")
    /\ count' = [count EXCEPT !["server"] = @ + 1]
    /\ served' = served \cup {r}
    /\ UNCHANGED <<valid, serverVars, loaded, faultVars>>

\* zincrby the server's counter; the last one moves the file.
HandlerCount(r) ==
    /\ HandlerGoto(r, "count",
            IF Complete(count["server"] + 1) THEN "member" ELSE "ok")
    /\ count' = [count EXCEPT !["server"] = @ + 1]
    /\ served' = served \cup {r}
    /\ UNCHANGED <<valid, serverVars, loaded, faultVars>>

\* move(): an index that has a status is not moved again.
HandlerMember(r) ==
    /\ HandlerGoto(r, "member", IF valid # NONE THEN "err" ELSE "load")
    /\ UNCHANGED <<count, valid, serverVars, loaded, served, faultVars>>

\* move(): read the whole waiting file, or leave the buffer zero.
HandlerLoad(r) ==
    /\ HandlerGoto(r, "load", "copy")
    /\ loaded' = [loaded EXCEPT ![r] = waiting]
    /\ UNCHANGED <<count, valid, serverVars, served, faultVars>>

\* Mutant of HandlerCopy: the file is created and its write left out.
HandlerCopyEmpty(r) ==
    /\ HandlerGoto(r, "copy", "mark")
    /\ serverSecret' = "torn"
    /\ UNCHANGED <<count, valid, waiting, loaded, served, faultVars>>

\* move(): open the secret file, which creates or truncates it ...
HandlerCopy(r) ==
    /\ HandlerGoto(r, "copy", "flush")
    /\ serverSecret' = "torn"
    /\ UNCHANGED <<count, valid, waiting, loaded, served, faultVars>>

\* ... and write the buffer, if the file has not been removed meanwhile.
HandlerFlush(r) ==
    /\ HandlerGoto(r, "flush", "mark")
    /\ serverSecret' = IF serverSecret = "none" THEN "none"
                       ELSE IF loaded[r] THEN "intact" ELSE "torn"
    /\ UNCHANGED <<count, valid, waiting, loaded, served, faultVars>>

\* move(): the index is INVALID until the client's verdict.
HandlerMark(r) ==
    /\ HandlerGoto(r, "mark", "unlink")
    /\ valid' = INVALID
    /\ UNCHANGED <<count, serverVars, loaded, served, faultVars>>

HandlerUnlink(r) ==
    /\ HandlerGoto(r, "unlink", "ok")
    /\ waiting' = FALSE
    /\ UNCHANGED <<count, valid, serverSecret, loaded, served, faultVars>>

Handler(r) ==
    \/ HandlerCheck(r) \/ HandlerFresh(r) \/ HandlerOpen(r)
    \/ HandlerCount(r) \/ HandlerMember(r) \/ HandlerLoad(r)
    \/ HandlerCopy(r) \/ HandlerFlush(r) \/ HandlerMark(r)
    \/ HandlerUnlink(r)

-----------------------------------------------------------------------------
(* SecretController::resultReport.                                         *)

ReportGoto(from, to) ==
    /\ rep = from
    /\ rep' = to
    /\ UNCHANGED <<tail, count, waiting, fileVars, keysAgree, loopVars,
                   requestVars, faultVars>>

\* Mutant of ReportMark: the zset entry does not depend on the verdict.
ReportMarkValid ==
    /\ ReportGoto("mark", IF verdict = VALID THEN "replied" ELSE "exists")
    /\ valid' = VALID
    /\ UNCHANGED serverSecret

\* A VALID verdict ends here; an INVALID one also removes the secret file.
ReportMark ==
    /\ ReportGoto("mark", IF verdict = VALID THEN "replied" ELSE "exists")
    /\ valid' = verdict
    /\ UNCHANGED serverSecret

\* Mutant of ReportExists: the test for the file is the wrong way round.
ReportExistsNot ==
    /\ ReportGoto("exists",
            IF serverSecret = "none" THEN "remove" ELSE "replied")
    /\ UNCHANGED <<valid, serverSecret>>

ReportExists ==
    /\ ReportGoto("exists",
            IF serverSecret = "none" THEN "replied" ELSE "remove")
    /\ UNCHANGED <<valid, serverSecret>>

ReportRemove ==
    /\ ReportGoto("remove", "replied")
    /\ serverSecret' = "none"
    /\ UNCHANGED valid

Report == ReportMark \/ ReportExists \/ ReportRemove

-----------------------------------------------------------------------------
(* Faults.                                                                 *)

\* The waiting file cannot be opened: the handler answers with an error.
OpenFails(r) ==
    /\ Fault({})
    /\ HandlerGoto(r, "open", "err")
    /\ UNCHANGED <<count, valid, serverVars, loaded, served>>

\* The disk fills up under a chunk file; the stream's state is not checked.
WriteFails(r) ==
    /\ Fault({})
    /\ ThreadStep(r, "write", "true")
    /\ chunkFile' = [chunkFile EXCEPT ![chunkOf[r]] =
                        IF @ = "partial" THEN "bad" ELSE @]

\* The proxy gives up on a slow request, or the connection breaks: the
\* thread's call throws, the handler goes on.
ReplyTimesOut(r) ==
    /\ Fault({})
    /\ ThreadStep(r, "wait", "throw")
    /\ UNCHANGED chunkFile

\* A Redis call of a handler throws, before or after it took effect: the
\* answer is an error page, which the thread fails to parse.
HandlerThrows(r) ==
    /\ Fault({})
    /\ \E pc \in {"check", "count", "member", "mark", "unlink"} :
          HandlerGoto(r, pc, "lost")
    /\ UNCHANGED <<count, valid, serverVars, loaded, served>>

\* move() reads nothing, cannot open the secret file or cannot write it. The
\* streams' state is not looked at and it goes on.
MoveFails(r) ==
    /\ Fault({"copy"})
    /\ \/ HandlerGoto(r, "load", "copy")
       \/ HandlerGoto(r, "copy", "mark")
       \/ HandlerGoto(r, "flush", "mark")
    /\ UNCHANGED <<count, valid, serverVars, loaded, served>>

\* move() cannot remove the waiting file, which is only logged.
UnlinkFails(r) ==
    /\ Fault({})
    /\ HandlerGoto(r, "unlink", "ok")
    /\ UNCHANGED <<count, valid, serverVars, loaded, served>>

\* The proxy answers a slow report itself: the client goes on while
\* resultReport is still running.
ReportTimesOut ==
    /\ Fault({"report"})
    /\ cpc = "reporting"
    /\ cpc' = AfterReport
    /\ UNCHANGED <<redisVars, serverVars, fileVars, keysAgree, progress,
                   issued, cur, num, buf, verdict, requestVars, rep>>

\* A Redis call of resultReport throws, before or after it took effect, or
\* the secret file cannot be removed: the answer is an error.
ReportThrows ==
    /\ Fault({"report"})
    /\ rep \in ReportRunning
    /\ rep' = "failed"
    /\ UNCHANGED <<redisVars, serverVars, fileVars, keysAgree, loopVars,
                   requestVars>>

\* The client's own copy cannot be opened, or not be written; the stream's
\* state is not looked at.
ClientStoreFails ==
    /\ Fault({"store"})
    /\ cpc \in {"store", "flush"}
    /\ cpc' = "rmdir"
    /\ UNCHANGED <<redisVars, serverVars, fileVars, keysAgree, progress,
                   issued, cur, num, buf, verdict, requestVars, rep>>

\* The server process stops and starts again: its running handlers are gone
\* and the proxy answers in their place. Redis and the files stay as they
\* are.
ServerCrash ==
    /\ Fault(IF rep \in ReportRunning THEN {"report"} ELSE {})
    /\ handler' = [r \in Requests |->
                     IF handler[r] \in ServingPcs \cup MovePcs
                     THEN "lost" ELSE handler[r]]
    /\ rep' = IF rep \in ReportRunning THEN "failed" ELSE rep
    /\ UNCHANGED <<redisVars, serverVars, fileVars, keysAgree, loopVars,
                   chunkOf, thread, loaded, served>>

\* The client process stops, with all its threads; an exception of its own
\* calls (Redis, a broken connection to the proxy) does that too.
ClientCrash ==
    /\ Fault({})
    /\ cpc \notin {"done", "dead"}
    /\ cpc' = "dead"
    /\ UNCHANGED <<redisVars, serverVars, fileVars, keysAgree, progress,
                   issued, cur, num, buf, verdict, requestVars, rep>>

-----------------------------------------------------------------------------

Next ==
    \/ \E s \in Sources : PublishTime(s) \/ PublishCount(s)
    \/ Client
    \/ \E r \in Requests : Thread(r) \/ Handler(r)
    \/ Report
    \/ \E r \in Requests :
          \/ OpenFails(r) \/ WriteFails(r) \/ ReplyTimesOut(r)
          \/ HandlerThrows(r) \/ MoveFails(r) \/ UnlinkFails(r)
    \/ ReportTimesOut
    \/ ReportThrows
    \/ ClientStoreFails
    \/ ServerCrash
    \/ ClientCrash

Spec == Init /\ [][Next]_vars

\* Each of these is a thread or a process that runs when it can; faults never
\* have to happen.
Fairness ==
    /\ \A s \in Sources : WF_vars(PublishTime(s) \/ PublishCount(s))
    /\ WF_vars(Client)
    /\ \A r \in Requests : WF_vars(Thread(r)) /\ WF_vars(Handler(r))
    /\ WF_vars(Report)

FairSpec == Spec /\ Fairness

\* A round in which every waiting file that is there can be opened: all other
\* faults may happen.
Readable == \A r \in Requests : ~OpenFails(r)

ReadableSpec == Init /\ [][Next /\ Readable]_vars

FairReadableSpec == ReadableSpec /\ Fairness

-----------------------------------------------------------------------------
(* Safety. Those marked (gap) need a client that never polls between the   *)
(* generator's two zadds, PublishGap = FALSE. Those marked (aligned) need  *)
(* that, or a CLIENT_THREAD_NUM that divides PROGRESS and a waiting file   *)
(* that can be read, ReadableSpec.                                         *)

\* (gap) The server's counter stands for chunks: when it says the transfer
\* is complete, every chunk number has been served at least once.
CompleteMeansServed ==
    Complete(count["server"]) => Chunks = {chunkOf[r] : r \in served}

\* (aligned) The waiting file, the only complete copy during a transfer, is
\* removed by move() only once its bytes are in the secret file. Besides an
\* INVALID verdict only a failed read or write of move() itself, which the
\* code does not see, gives that up: no crash, exception or timeout does.
NeverWithoutCopy ==
    \/ waiting
    \/ serverSecret = "intact"
    \/ verdict = INVALID
    \/ "copy" \in mishap

\* (aligned) A lemma of the proofs: an index with status VALID has a complete
\* secret file on the server, if move() could write it.
ValidMeansIntact ==
    valid = VALID => serverSecret = "intact" \/ "copy" \in mishap

\* (aligned) "Held by both": a client that has (or is writing) its own secret
\* file judged it VALID, and has it of a secret the server moved and still
\* holds, complete unless move()'s own read or write failed; the server calls
\* it VALID unless the report, whose answer is dropped, went wrong.
Agreement ==
    clientSecret # "none" =>
        /\ verdict = VALID
        /\ valid # NONE
        /\ valid = VALID \/ "report" \in mishap
        /\ serverSecret = "intact" \/ "copy" \in mishap

\* (aligned) A round the client finished is all or nothing: both sides have the
\* secret and it is VALID, or neither has a file and it is INVALID. Each of
\* the calls whose result the code drops can take away its own part of that,
\* and nothing else: no part is lost to another fault or another part's.
RoundOutcome ==
    cpc = "done" =>
        \/ /\ verdict = VALID
           /\ serverSecret = "intact" \/ "copy" \in mishap
           /\ valid = VALID \/ "report" \in mishap
           /\ clientSecret = "intact" \/ "store" \in mishap
        \/ /\ verdict = INVALID
           /\ clientSecret = "none"
           /\ \/ valid = INVALID /\ serverSecret = "none"
              \/ "report" \in mishap

\* gather() after a round that failed leaves no received data behind.
InvalidRoundLeavesNoChunk ==
    (cpc = "done" /\ verdict = INVALID) =>
        \A c \in Chunks : chunkFile[c] = "none"

\* (aligned) No step damages a complete secret file: a handler that moves a
\* second time, or a late one, would truncate it. Only resultReport with an
\* INVALID verdict takes it away.
SecretNeverRewritten ==
    [][serverSecret = "intact" =>
         \/ serverSecret' = "intact"
         \/ serverSecret' = "none" /\ verdict = INVALID]_vars

-----------------------------------------------------------------------------
(* (aligned) The transfer keeps the promise of Handover: a secret is       *)
(* confirmed or kept by the client only after a good verdict, judged good  *)
(* only when staged, never discarded after that, and staged incomplete     *)
(* only over a failed disk.                                                *)

\* An INVALID status is move()'s until the report of a bad verdict has got
\* past it; then it stands for a discarded secret once the file is gone.
ServerSide ==
    CASE valid = NONE -> "absent"
      [] valid = VALID -> "confirmed"
      [] OTHER -> IF /\ verdict = INVALID
                     /\ rep # "mark"
                     /\ serverSecret = "none"
                  THEN "discarded" ELSE "staged"

Judgement ==
    CASE verdict = NONE -> "none"
      [] verdict = VALID -> "good"
      [] OTHER -> "bad"

Promise == INSTANCE Handover WITH
    status <- ServerSide,
    copy <- valid # NONE /\ serverSecret = "intact",
    spoilt <- "copy" \in mishap,
    verdict <- Judgement,
    holds <- clientSecret # "none"

ImplementsHandover == Promise!Spec

-----------------------------------------------------------------------------
(* Liveness, under FairSpec.                                               *)

\* Whatever fails, the client is never left waiting for a thread, a handler
\* or a report that will not come: its round ends, or its process does.
RoundEnds == <>(cpc \in {"done", "dead"})

\* (gap) Without faults, and with running files that agree, the secret
\* reaches both sides and nothing of the transfer stays on disk.
Delivered ==
    /\ valid = VALID /\ serverSecret = "intact" /\ clientSecret = "intact"
    /\ ~waiting /\ ~dir

FaultFreeDelivers ==
    (keysAgree /\ [](faults = 0)) => <>Delivered
=============================================================================
