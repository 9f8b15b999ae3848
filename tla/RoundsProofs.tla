---------------------------- MODULE RoundsProofs ----------------------------
(***************************************************************************)
(* Proofs about Rounds, for any number of rounds, of runs of init.cc and   *)
(* of faults: where the two directories agree, what a VALID secret was     *)
(* sent under, and that the rounds keep the promise of KeyStock.           *)
(***************************************************************************)
EXTENDS Rounds, SequenceTheorems, TLAPS

-----------------------------------------------------------------------------
(* The inductive invariant, in the order in which its parts are used.      *)

\* The client has not put the message into the list yet.
Unsent(s, i) ==
    \/ i > round
    \/ i = round /\ (cpc = "request" \/ (cpc = "push" /\ s = "client"))

\* init.cc runs alone: no round is under way, and no handler.
Alone ==
    ipc # "off" =>
        /\ cpc = "idle"
        /\ \A i \in Indexes : /\ mover[i] \notin {"copy", "flush", "mark"}
                              /\ rep[i] \notin {"mark", "remove"}

\* A message is in the list once and before its round is published, so a
\* published key stays.
Queued ==
    /\ \A j, k \in 1 .. Len(queue) : queue[j] = queue[k] => j = k
    /\ \A k \in 1 .. Len(queue) : \A s \in Sources, i \in Indexes :
            queue[k] = <<s, i>> =>
                key[s][i] = NoKey /\ mover[i] = "none" /\ ~Unsent(s, i)
    /\ \A s \in Sources, i \in Indexes : Unsent(s, i) => key[s][i] = NoKey

\* The handlers of the round have not begun.
Untouched(i) ==
    i > round \/ (i = round /\ cpc \in {"request", "push", "poll"})

\* A status VALID goes back to a verdict VALID, and that to equal keys and a
\* file that was moved; there is one verdict of a round.
VerdictOf(i) ==
    /\ Untouched(i) => mover[i] = "none" /\ status[i] = NONE
    /\ Untouched(i) \/ (i = round /\ cpc = "transfer") =>
            rep[i] = "none" /\ verdict[i] = NONE
    /\ i = round /\ cpc = "transfer" => mover[i] # "none"
    /\ rep[i] # "none" => verdict[i] # NONE
    /\ rep[i] = "remove" => verdict[i] = INVALID
    /\ verdict[i] = VALID => mover[i] = "done" /\ KeysEqual(i)
    /\ status[i] = VALID => verdict[i] = VALID
    /\ i = round /\ cpc \in {"store", "flush"} => verdict[i] = VALID

Verdicts == \A i \in Indexes : VerdictOf(i)

\* The index is VALID, or a report that does not fail makes it so, however
\* late.
ToBeValid(i) == status[i] = VALID \/ (rep[i] = "mark" /\ verdict[i] = VALID)

\* The server's file of a round whose secret is, or may still become, VALID.
ServerFileOf(i) ==
    /\ mover[i] = "flush" /\ verdict[i] # INVALID =>
            file["server"][i] = "torn"
    /\ \/ ToBeValid(i)
       \/ mover[i] = "mark" /\ verdict[i] # INVALID
       \/ mover[i] = "done" /\ i = round /\ cpc = "transfer"
       => file["server"][i] = "whole"

\* The client's file of such a round.
ClientFileOf(i) ==
    ToBeValid(i) =>
        file["client"][i] = "whole" \/ (i = round /\ cpc \in Storing)

\* init.cc's own files: while they are made they count as damaged, and they
\* agree before they are called VALID.
FirstFiles ==
    /\ ipc \in {"write", "copy", "fill"} => 0 \in damaged
    /\ 0 \notin damaged /\ (status[0] = VALID \/ ipc \in RedisPcs) =>
            \A s \in Sources : file[s][0] = "whole"

StoredFiles ==
    /\ \A i \in Indexes \ damaged : ServerFileOf(i) /\ ClientFileOf(i)
    /\ FirstFiles

\* The index may still become VALID, and init.cc has not run since its round
\* began.
Live(i) ==
    \/ rep[i] = "mark" /\ verdict[i] = VALID
    \/ i = round /\ cpc \in {"push", "poll", "transfer"}

\* What such a round is derived from: files of earlier names that are still
\* VALID and still hold the same.
Ingredients ==
    \A i \in Indexes : Live(i) =>
        \A s \in Sources : \A f \in key[s][i].files :
            f[1] < i /\ status[f[1]] = VALID /\ file[s][f[1]] = f[2]

IndInv == TypeOK /\ Alone /\ Queued /\ Verdicts /\ StoredFiles /\ Ingredients

-----------------------------------------------------------------------------

LEMMA Numbers ==
  /\ ROUNDS \in Nat /\ INITS \in Nat /\ MaxFaults \in Nat
  /\ Indexes = 1 .. ROUNDS /\ Names = 0 .. ROUNDS
  /\ Indexes \subseteq Names /\ 0 \in Names /\ 0 \notin Indexes
  /\ \A n \in Names : n \in Nat /\ (n \in Indexes \/ n = 0)
  /\ Sources = {"server", "client"}
  /\ NoKey \in Keys /\ NoKey.files = {}
  BY RoundsAssumption DEF Indexes, Names, Sources, NoKey, Keys

LEMMA InvInit == Init => IndInv
<1> SUFFICES ASSUME Init PROVE IndInv
  OBVIOUS
<1>1. TypeOK
  BY Numbers DEF Init, TypeOK, Files, NONE
<1>6. Alone
  BY DEF Init, Alone
<1>2. Queued
  BY Numbers DEF Init, Queued
<1>3. Verdicts
  BY Numbers DEF Init, Verdicts, VerdictOf, NONE, VALID
<1>4. StoredFiles
  BY Numbers DEF Init, StoredFiles, FirstFiles, RedisPcs, ServerFileOf,
                 ClientFileOf, ToBeValid, NONE, VALID
<1>5. Ingredients
  BY Numbers DEF Init, Ingredients, Live
<1> QED
  BY <1>1, <1>2, <1>3, <1>4, <1>5, <1>6 DEF IndInv

\* init.cc begins, goes on, fails or stops.
InitWorks == InitStart \/ Initialise \/ InitFails \/ InitStops

\* What a step is.
LEMMA StepKinds ==
  ASSUME [Next]_vars
  PROVE  \/ InitWorks
         \/ ClientStart \/ ClientRequest \/ ClientPush \/ ClientPoll
         \/ ClientGather \/ ClientGatherFails
         \/ ClientReported \/ ReportTimesOut
         \/ ClientStore \/ ClientFlush \/ ClientStoreFails
         \/ ClientStops \/ ClientThrows
         \/ Generate \/ GenerateCut \/ GenerateFails
         \/ \E i \in Indexes : Move(i) \/ MoveFails(i)
         \/ \E i \in Indexes : Report(i)
         \/ ServerStops \/ \E i \in Indexes : HandlerFails(i)
         \/ UNCHANGED vars
  BY DEF Next, Client, InitWorks

\* One file is written.
LEMMA FileWrite ==
  ASSUME file \in [Sources -> [Names -> Files]],
         NEW s \in Sources, NEW n \in Names, NEW c \in Files,
         file' = [file EXCEPT ![s][n] = c]
  PROVE  /\ file' \in [Sources -> [Names -> Files]]
         /\ file'[s][n] = c
         /\ \A r \in Sources, m \in Names :
                r # s \/ m # n => file'[r][m] = file[r][m]
  OBVIOUS

\* The handlers that are left when the server has stopped.
LEMMA Stopped ==
  ASSUME TypeOK
  PROVE  /\ StopMovers \in
              [Indexes -> {"none", "copy", "flush", "mark", "done", "lost"}]
         /\ StopReports \in
              [Indexes -> {"none", "mark", "remove", "replied", "failed"}]
         /\ \A i \in Indexes :
                /\ StopMovers[i] \notin {"copy", "flush", "mark"}
                /\ StopMovers[i] = "none" <=> mover[i] = "none"
                /\ StopMovers[i] = "done" <=> mover[i] = "done"
                /\ StopReports[i] \notin {"mark", "remove"}
                /\ StopReports[i] = "none" <=> rep[i] = "none"
  BY DEF TypeOK, StopMovers, StopReports

\* What the steps of init.cc do to the variables but its own files.
LEMMA InitTypes ==
  ASSUME TypeOK, InitWorks
  PROVE  /\ ipc' \in {"off"} \cup FilePcs \cup RedisPcs
         /\ inits' \in 0 .. INITS /\ faults' \in 0 .. MaxFaults
         /\ UNCHANGED <<clientVars, sameOrder>>
         /\ queue' = queue \/ queue' = <<>>
         /\ \/ key' = key
            \/ key' = [s \in Sources |-> [i \in Indexes |-> NoKey]]
         /\ \/ status' = status
            \/ status' = [n \in Names |-> NONE] /\ ipc = "forget"
            \/ status' = [status EXCEPT ![0] = VALID] /\ ipc = "call"
         /\ \/ UNCHANGED serverVars /\ ipc # "off"
            \/ mover' = StopMovers /\ rep' = StopReports /\ cpc = "idle"
         /\ damaged' \subseteq Names
         /\ \A i \in Indexes : i \in damaged \ damaged' => status'[i] = NONE
<1>1. ipc \in {"off"} \cup FilePcs \cup RedisPcs /\ inits \in 0 .. INITS
      /\ faults \in 0 .. MaxFaults /\ damaged \subseteq Names /\ 0 \in Names
      /\ 0 \notin Indexes /\ Indexes \subseteq Names
  BY Numbers DEF TypeOK
<1>2. CASE InitStart
  <2>1. /\ inits < INITS /\ inits' = inits + 1 /\ ipc' = "open" /\ cpc = "idle"
        /\ mover' = StopMovers /\ rep' = StopReports
        /\ UNCHANGED <<clientVars, sameOrder, queue, key, status, damaged, faults>>
    BY <1>2 DEF InitStart, InitGoto, redisVars
  <2>2. inits' \in 0 .. INITS
    BY <1>1, <2>1, Numbers
  <2>3. ipc' \in FilePcs
    BY <2>1 DEF FilePcs
  <2> QED
    BY <1>1, <2>1, <2>2, <2>3
<1>3. CASE InitFails \/ InitStops
  <2>1. /\ ipc # "off" /\ ipc' \in {"off", "copy", "list"}
        /\ damaged \subseteq damaged' /\ damaged' \subseteq damaged \cup {0}
        /\ faults < MaxFaults /\ faults' = faults + 1
        /\ UNCHANGED <<clientVars, sameOrder, inits, queue, key, status, serverVars>>
    BY <1>3, Zenon DEF InitFails, InitStops, InitGoto, Fault, redisVars
  <2>2. faults' \in 0 .. MaxFaults
    BY <1>1, <2>1, Numbers
  <2>3. ipc' \in {"off"} \cup FilePcs \cup RedisPcs
    BY <2>1 DEF FilePcs, RedisPcs
  <2>4. damaged' \subseteq Names /\ \A i \in Indexes : i \notin damaged \ damaged'
    BY <1>1, <2>1
  <2> QED
    BY <1>1, <2>1, <2>2, <2>3, <2>4
<1>4. CASE InitOpen \/ InitWrite \/ InitCopy \/ InitFill
  BY <1>1, <1>4
     DEF InitOpen, InitWrite, InitCopy, InitFill, InitGoto, FilePcs, RedisPcs,
         redisVars
<1>5. CASE InitList \/ InitTimes \/ InitForget \/ InitCall
  BY <1>1, <1>5
     DEF InitList, InitTimes, InitForget, InitCall, InitGoto, FilePcs, RedisPcs
<1> QED
  BY <1>2, <1>3, <1>4, <1>5 DEF InitWorks, Initialise

\* The files init.cc writes are its own.
LEMMA InitFiles ==
  ASSUME TypeOK, InitWorks
  PROVE  /\ file' \in [Sources -> [Names -> Files]]
         /\ \A s \in Sources, i \in Indexes : file'[s][i] = file[s][i]
<1>1. /\ file \in [Sources -> [Names -> Files]] /\ 0 \in Names
      /\ 0 \notin Indexes /\ Indexes \subseteq Names
      /\ "server" \in Sources /\ "client" \in Sources
      /\ {"none", "torn", "whole"} = Files /\ file["server"][0] \in Files
  BY Numbers DEF TypeOK, Files
<1>2. ASSUME UNCHANGED file
      PROVE  /\ file' \in [Sources -> [Names -> Files]]
             /\ \A s \in Sources, i \in Indexes : file'[s][i] = file[s][i]
  BY <1>1, <1>2
<1>3. CASE InitStart \/ InitFails \/ InitStops
  BY <1>2, <1>3 DEF InitStart, InitFails, InitStops
<1>4. CASE InitList \/ InitTimes \/ InitForget \/ InitCall
  BY <1>2, <1>4 DEF InitList, InitTimes, InitForget, InitCall
<1>5. CASE InitOpen
  <2> DEFINE c == IF file["client"][0] = "none" THEN "none" ELSE "torn"
  <2>1. c \in Files
    BY <1>1
  <2>2. file' = [file EXCEPT !["server"][0] = "torn", !["client"][0] = c]
    BY <1>1, <1>5 DEF InitOpen
  <2> HIDE DEF c
  <2> QED
    BY <1>1, <2>1, <2>2
<1>6. CASE InitWrite \/ InitCopy \/ InitFill
  <2>1. PICK s \in Sources, c \in Files : file' = [file EXCEPT ![s][0] = c]
    BY <1>1, <1>6 DEF InitWrite, InitCopy, InitFill
  <2> QED
    BY <1>1, <2>1, FileWrite
<1> QED
  BY <1>3, <1>4, <1>5, <1>6 DEF InitWorks, Initialise

\* They are told apart from each other only while they count as damaged.
LEMMA InitFirstFiles ==
  ASSUME TypeOK, FirstFiles, InitWorks
  PROVE  FirstFiles'
<1>1. /\ file \in [Sources -> [Names -> Files]] /\ 0 \in Names
      /\ Sources = {"server", "client"} /\ "server" # "client"
      /\ NONE # VALID /\ status \in [Names -> {NONE, VALID, INVALID}]
  BY Numbers DEF TypeOK, NONE, VALID
<1>2. CASE InitStart \/ InitStops
  BY <1>2 DEF InitStart, InitStops, InitGoto, FirstFiles, RedisPcs, redisVars
<1>3. CASE InitOpen \/ InitCopy \/ InitFails
  BY <1>3 DEF InitOpen, InitCopy, InitFails, FirstFiles
<1>4. CASE InitWrite
  BY <1>4 DEF InitWrite, InitGoto, FirstFiles
<1>5. CASE InitFill
  <2>1. /\ ipc = "fill" /\ ipc' = "list" /\ 0 \in damaged
        /\ file' = [file EXCEPT !["client"][0] = file["server"][0]]
        /\ damaged' = IF file["server"][0] = "whole" THEN damaged \ {0}
                      ELSE damaged
    BY <1>5 DEF InitFill, InitGoto, FirstFiles
  <2>2. /\ file'["client"][0] = file["server"][0]
        /\ file'["server"][0] = file["server"][0]
    BY <1>1, <2>1
  <2> QED
    BY <1>1, <2>1, <2>2 DEF FirstFiles
<1>6. CASE InitList \/ InitTimes
  BY <1>6 DEF InitList, InitTimes, InitGoto, FirstFiles, RedisPcs
<1>7. CASE InitForget \/ InitCall
  BY <1>1, <1>7 DEF InitForget, InitCall, InitGoto, FirstFiles, RedisPcs
<1> QED
  BY <1>2, <1>3, <1>4, <1>5, <1>6, <1>7 DEF InitWorks, Initialise

\* What the other processes find when init.cc has taken a step.
LEMMA InitFacts ==
  ASSUME TypeOK, Alone, InitWorks
  PROVE  /\ cpc = "idle" /\ UNCHANGED <<clientVars, sameOrder>>
         /\ queue' = queue \/ queue' = <<>>
         /\ \/ key' = key
            \/ \A s \in Sources, i \in Indexes : key'[s][i] = NoKey
         /\ \A i \in Indexes :
                /\ mover'[i] \notin {"copy", "flush", "mark"}
                /\ mover'[i] = "none" <=> mover[i] = "none"
                /\ mover'[i] = "done" <=> mover[i] = "done"
                /\ rep'[i] \notin {"mark", "remove"}
                /\ rep'[i] = "none" <=> rep[i] = "none"
                /\ status'[i] = status[i] \/ status'[i] = NONE
                /\ i \in damaged \ damaged' => status'[i] = NONE
                /\ \A s \in Sources : file'[s][i] = file[s][i]
<1>1. cpc = "idle"
  BY InitTypes DEF Alone
<1>2. ASSUME NEW i \in Indexes
      PROVE  /\ mover'[i] \notin {"copy", "flush", "mark"}
             /\ mover'[i] = "none" <=> mover[i] = "none"
             /\ mover'[i] = "done" <=> mover[i] = "done"
             /\ rep'[i] \notin {"mark", "remove"}
             /\ rep'[i] = "none" <=> rep[i] = "none"
  BY InitTypes, Stopped DEF Alone, serverVars
<1>3. ASSUME NEW i \in Indexes
      PROVE  status'[i] = status[i] \/ status'[i] = NONE
  BY InitTypes, Numbers DEF TypeOK
<1> QED
  BY <1>1, <1>2, <1>3, InitTypes, InitFiles

\* A message is taken off the list, and its key published or not; the key is
\* made of VALID files.
Popped(s, i) ==
    /\ queue \in Seq(Sources \X Indexes) /\ queue # <<>>
    /\ queue[1] = <<s, i>> /\ queue' = Tail(queue)
    /\ UNCHANGED <<status, file, clientVars, serverVars, sameOrder, damaged,
                   initVars>>
    /\ faults' \in 0 .. MaxFaults
    /\ \/ UNCHANGED key
       \/ \E k \in Keys :
            /\ key' = [key EXCEPT ![s][i] = k]
            /\ \A f \in k.files : /\ f[1] \in Names /\ status[f[1]] = VALID
                                  /\ file[s][f[1]] = f[2]

LEMMA GenerateFacts ==
  ASSUME TypeOK, Generate \/ GenerateCut \/ GenerateFails
  PROVE  \E s \in Sources, i \in Indexes : Popped(s, i)
<1>1. PopMessage /\ faults' \in 0 .. MaxFaults
  BY Numbers DEF Generate, GenerateCut, GenerateFails, Fault, TypeOK
<1>2. /\ queue \in Seq(Sources \X Indexes) /\ queue # <<>>
      /\ queue[1] \in Sources \X Indexes /\ Head(queue) = queue[1]
  BY <1>1 DEF TypeOK, PopMessage
<1>3. PICK s \in Sources, i \in Indexes : queue[1] = <<s, i>>
  BY <1>2
<1>4. Head(queue)[1] = s /\ Head(queue)[2] = i
  BY <1>2, <1>3
<1>5. ASSUME NEW names \in SUBSET Listed(s), NEW order \in {1, 2},
             Publish(names, order)
      PROVE  \E k \in Keys :
                /\ key' = [key EXCEPT ![s][i] = k]
                /\ \A f \in k.files : /\ f[1] \in Names /\ status[f[1]] = VALID
                                      /\ file[s][f[1]] = f[2]
  <2>1. PICK d \in Drawn(s, i, names, order) :
            key' = [key EXCEPT ![s][i] = Derived(s, names, order, d)]
    BY <1>4, <1>5 DEF Publish
  <2>2. d \subseteq names /\ names \subseteq Names
    BY DEF Drawn, Listed
  <2>3. \A n \in d : status[n] = VALID /\ file[s][n] \in {"torn", "whole"}
    BY <2>2 DEF Listed, TypeOK, Files
  <2> DEFINE k == Derived(s, names, order, d)
  <2>4. k \in Keys
    BY <2>2, <2>3 DEF Derived, Keys
  <2>5. \A f \in k.files : /\ f[1] \in Names /\ status[f[1]] = VALID
                           /\ file[s][f[1]] = f[2]
    BY <2>2, <2>3 DEF Derived
  <2> QED
    BY <2>1, <2>4, <2>5
<1>6. \/ UNCHANGED key
      \/ \E names \in SUBSET Listed(s), order \in {1, 2} : Publish(names, order)
  BY <1>4 DEF Generate, GenerateCut, GenerateFails, Orders
<1> QED
  BY <1>1, <1>2, <1>3, <1>5, <1>6 DEF Popped, PopMessage

\* A step of move(), failed or not, is of a handler that is not done, and
\* touches its own index only.
LEMMA MoveFacts ==
  ASSUME TypeOK, NEW i \in Indexes, Move(i) \/ MoveFails(i)
  PROVE  /\ mover[i] \in {"copy", "flush", "mark"}
         /\ mover' \in [Indexes ->
                {"none", "copy", "flush", "mark", "done", "lost"}]
         /\ mover'[i] # "none" /\ \A j \in Indexes \ {i} : mover'[j] = mover[j]
         /\ status' \in [Names -> {NONE, VALID, INVALID}]
         /\ status'[i] = status[i] \/ status'[i] = INVALID
         /\ \A n \in Names \ {i} : status'[n] = status[n]
         /\ file' \in [Sources -> [Names -> Files]]
         /\ \A r \in Sources, n \in Names :
                r = "client" \/ n # i => file'[r][n] = file[r][n]
         /\ damaged \subseteq damaged' /\ damaged' \subseteq damaged \cup {i}
         /\ faults' \in 0 .. MaxFaults
         /\ UNCHANGED <<queue, key, clientVars, rep, sameOrder, initVars>>
<1>1. /\ mover \in [Indexes -> {"none", "copy", "flush", "mark", "done", "lost"}]
      /\ status \in [Names -> {NONE, VALID, INVALID}]
      /\ file \in [Sources -> [Names -> Files]]
      /\ i \in Names /\ "server" \in Sources /\ "client" # "server"
      /\ faults \in 0 .. MaxFaults /\ MaxFaults \in Nat
  BY Numbers DEF TypeOK
<1>2. CASE MoveCopy(i)
  <2>1. file' = file \/ file' = [file EXCEPT !["server"][i] = "torn"]
    BY <1>2 DEF MoveCopy
  <2>2. file' \in [Sources -> [Names -> Files]]
        /\ \A r \in Sources, n \in Names :
                r = "client" \/ n # i => file'[r][n] = file[r][n]
    BY <1>1, <2>1, FileWrite DEF Files
  <2> QED
    BY <1>1, <1>2, <2>2 DEF MoveCopy, MoverGoto
<1>3. CASE MoveFlush(i)
  <2>1. PICK c \in Files : file' = [file EXCEPT !["server"][i] = c]
    BY <1>1, <1>3 DEF MoveFlush, Files
  <2> QED
    BY <1>1, <1>3, <2>1, FileWrite DEF MoveFlush, MoverGoto
<1>4. CASE MoveMark(i)
  BY <1>1, <1>4 DEF MoveMark, MoverGoto
<1>5. CASE MoveFails(i)
  <2>1. PICK c \in Files : file' = [file EXCEPT !["server"][i] = c]
    <3>1. "none" \in Files /\ file["server"][i] \in Files
      BY <1>1 DEF Files
    <3>2. PICK c \in {"none", file["server"][i]} :
              file' = [file EXCEPT !["server"][i] = c]
      BY <1>5, Zenon DEF MoveFails
    <3> QED
      BY <3>1, <3>2
  <2>2. faults' \in 0 .. MaxFaults
    BY <1>1, <1>5 DEF MoveFails, Fault
  <2> QED
    BY <1>1, <1>5, <2>1, <2>2, FileWrite DEF MoveFails, MoverGoto
<1> QED
  BY <1>2, <1>3, <1>4, <1>5 DEF Move

\* A step of the report's handler.
LEMMA ReportFacts ==
  ASSUME TypeOK, NEW i \in Indexes, Report(i)
  PROVE  /\ rep' \in [Indexes -> {"none", "mark", "remove", "replied", "failed"}]
         /\ \A j \in Indexes \ {i} : rep'[j] = rep[j]
         /\ status' \in [Names -> {NONE, VALID, INVALID}]
         /\ \A n \in Names \ {i} : status'[n] = status[n]
         /\ file' \in [Sources -> [Names -> Files]]
         /\ \/ /\ rep[i] = "mark" /\ status'[i] = verdict[i] /\ file' = file
               /\ rep'[i] = IF verdict[i] = VALID THEN "replied" ELSE "remove"
            \/ /\ rep[i] = "remove" /\ status' = status /\ rep'[i] = "replied"
               /\ \A r \in Sources, n \in Names :
                    r = "client" \/ n # i => file'[r][n] = file[r][n]
         /\ UNCHANGED <<queue, key, clientVars, mover, sameOrder, damaged,
                        boundVars>>
<1>1. /\ rep \in [Indexes -> {"none", "mark", "remove", "replied", "failed"}]
      /\ status \in [Names -> {NONE, VALID, INVALID}]
      /\ verdict[i] \in {NONE, VALID, INVALID}
      /\ file \in [Sources -> [Names -> Files]]
      /\ i \in Names /\ "server" \in Sources /\ "client" # "server"
  BY Numbers DEF TypeOK
<1>2. CASE ReportMark(i)
  BY <1>1, <1>2 DEF ReportMark, ReportGoto
<1>3. CASE ReportRemove(i)
  <2>1. file' = [file EXCEPT !["server"][i] = "none"] /\ "none" \in Files
    BY <1>3 DEF ReportRemove, Files
  <2>2. file' \in [Sources -> [Names -> Files]]
        /\ \A r \in Sources, n \in Names :
                r = "client" \/ n # i => file'[r][n] = file[r][n]
    BY <1>1, <2>1, FileWrite
  <2> QED
    BY <1>1, <1>3, <2>2 DEF ReportRemove, ReportGoto
<1> QED
  BY <1>2, <1>3 DEF Report

\* The client stores its file, or fails to.
Stores ==
    /\ cpc \in {"store", "flush"} /\ round \in Indexes
    /\ file' \in [Sources -> [Names -> Files]]
    /\ \A r \in Sources, n \in Names :
            r = "server" \/ n # round => file'[r][n] = file[r][n]
    /\ \/ cpc' = "flush"
       \/ cpc' = "idle" /\ (file'["client"][round] = "whole" \/ round \in damaged')
    /\ damaged \subseteq damaged' /\ damaged' \subseteq damaged \cup {round}
    /\ faults' \in 0 .. MaxFaults
    /\ UNCHANGED <<redisVars, round, verdict, serverVars, sameOrder, initVars>>

LEMMA StoreFacts ==
  ASSUME TypeOK, ClientStore \/ ClientFlush \/ ClientStoreFails
  PROVE  Stores
<1>1. /\ file \in [Sources -> [Names -> Files]]
      /\ "client" \in Sources /\ "client" # "server"
      /\ faults \in 0 .. MaxFaults /\ MaxFaults \in Nat
  BY Numbers DEF TypeOK
<1>2. cpc \in {"store", "flush"} /\ round \in Indexes /\ round \in Names
  BY Numbers DEF TypeOK, ClientStore, ClientFlush, ClientStoreFails, ClientGoto
<1>3. PICK c \in Files :
            /\ file' = [file EXCEPT !["client"][round] = c]
            /\ \/ cpc' = "flush"
               \/ cpc' = "idle" /\ (c = "whole" \/ round \in damaged')
  BY DEF ClientStore, ClientFlush, ClientStoreFails, ClientGoto, Files
<1>4. faults' \in 0 .. MaxFaults
  BY <1>1 DEF ClientStore, ClientFlush, ClientStoreFails, ClientGoto, Fault,
              boundVars
<1>5. /\ damaged \subseteq damaged' /\ damaged' \subseteq damaged \cup {round}
      /\ UNCHANGED <<redisVars, round, verdict, serverVars, sameOrder, initVars>>
  BY DEF ClientStore, ClientFlush, ClientStoreFails, ClientGoto, boundVars
<1>6. /\ file' \in [Sources -> [Names -> Files]]
      /\ file'["client"][round] = c
      /\ \A r \in Sources, n \in Names :
            r = "server" \/ n # round => file'[r][n] = file[r][n]
  BY <1>1, <1>2, <1>3, FileWrite
<1> QED
  BY <1>2, <1>3, <1>4, <1>5, <1>6 DEF Stores

\* The client has a verdict: INVALID, or VALID with the file moved and the
\* keys equal.
Concludes ==
    /\ cpc = "transfer" /\ cpc' = "reporting" /\ round \in Indexes
    /\ \E v \in {VALID, INVALID} :
        /\ v = VALID => mover[round] = "done" /\ KeysEqual(round)
        /\ verdict' = [verdict EXCEPT ![round] = v]
    /\ rep' = [rep EXCEPT ![round] = "mark"]
    /\ faults' \in 0 .. MaxFaults
    /\ UNCHANGED <<redisVars, file, round, mover, sameOrder, damaged, initVars>>

LEMMA GatherFacts ==
  ASSUME TypeOK, ClientGather \/ ClientGatherFails
  PROVE  Concludes
<1>1. CASE ClientGather
  <2>1. \E v \in {VALID, INVALID} :
            /\ v = VALID => mover[round] = "done" /\ KeysEqual(round)
            /\ verdict' = [verdict EXCEPT ![round] = v]
    <3>1. PICK v \in Judged(round) :
              /\ mover[round] = "done"
              /\ verdict' = [verdict EXCEPT ![round] = v]
      BY <1>1, Zenon DEF ClientGather, Gather
    <3>2. v \in {VALID, INVALID} /\ (v = VALID => KeysEqual(round))
      BY DEF Judged, VALID, INVALID
    <3> QED
      BY <3>1, <3>2
  <2> QED
    BY <1>1, <2>1
       DEF ClientGather, Gather, ClientGoto, Concludes, TypeOK, boundVars
<1>2. CASE ClientGatherFails
  <2>1. faults' \in 0 .. MaxFaults
    BY <1>2, Numbers DEF ClientGatherFails, Fault, TypeOK
  <2> QED
    BY <1>2, <2>1 DEF ClientGatherFails, Concludes, TypeOK, VALID, INVALID
<1> QED
  BY <1>1, <1>2

\* The client ends.
Leaves ==
    /\ cpc' = "idle" /\ cpc # "idle"
    /\ damaged' = damaged \cup LeftBehind
    /\ faults' \in 0 .. MaxFaults
    /\ UNCHANGED <<redisVars, file, round, verdict, serverVars, sameOrder,
                   initVars>>

LEMMA LeaveFacts ==
  ASSUME TypeOK, ClientStops \/ ClientThrows
  PROVE  Leaves
<1>1. faults' \in 0 .. MaxFaults
  BY Numbers DEF ClientStops, ClientThrows, ClientGoto, Fault, boundVars, TypeOK
<1> QED
  BY <1>1 DEF ClientStops, ClientThrows, ClientGoto, Leaves, LeftBehind,
              boundVars

\* The report has an answer, of whatever kind: what the client does next
\* depends on its own verdict only.
Answered ==
    /\ cpc = "reporting"
    /\ \/ cpc' = "store" /\ verdict[round] = VALID
       \/ cpc' = "idle" /\ verdict[round] # VALID
    /\ faults' \in 0 .. MaxFaults
    /\ UNCHANGED <<redisVars, file, round, verdict, serverVars, sameOrder,
                   damaged, initVars>>

LEMMA AnswerFacts ==
  ASSUME TypeOK, ClientReported \/ ReportTimesOut
  PROVE  Answered
<1>1. faults' \in 0 .. MaxFaults
  BY Numbers DEF ClientReported, ReportTimesOut, ClientGoto, Fault, boundVars,
                 TypeOK
<1> QED
  BY <1>1 DEF ClientReported, ReportTimesOut, AfterReport, ClientGoto, Answered,
              boundVars

\* A handler ends with an error: it is gone as after a stop of the server, and
\* nothing else is touched.
Fails(i) ==
    /\ faults' \in 0 .. MaxFaults
    /\ mover' \in [Indexes -> {"none", "copy", "flush", "mark", "done", "lost"}]
    /\ rep' \in [Indexes -> {"none", "mark", "remove", "replied", "failed"}]
    /\ \A j \in Indexes \ {i} : mover'[j] = mover[j] /\ rep'[j] = rep[j]
    /\ mover'[i] = mover[i] \/ (mover'[i] = "lost" /\ mover[i] # "none"
                                                  /\ mover[i] # "done")
    /\ rep'[i] = rep[i] \/ (rep'[i] = "failed" /\ rep[i] \in {"mark", "remove"})
    /\ UNCHANGED <<redisVars, file, clientVars, sameOrder, damaged, initVars>>

LEMMA FailFacts ==
  ASSUME TypeOK, NEW i \in Indexes, HandlerFails(i)
  PROVE  Fails(i)
<1>1. faults' \in 0 .. MaxFaults
  BY Numbers DEF HandlerFails, Fault, TypeOK
<1> QED
  BY <1>1 DEF HandlerFails, Fails, TypeOK

-----------------------------------------------------------------------------
(* Every step keeps the types.                                             *)

LEMMA TypeStep == TypeOK /\ [Next]_vars => TypeOK'
<1> SUFFICES ASSUME TypeOK, [Next]_vars PROVE TypeOK'
  OBVIOUS
<1>0. /\ queue \in Seq(Sources \X Indexes)
      /\ \A i \in Indexes : <<"server", i>> \in Sources \X Indexes
                          /\ <<"client", i>> \in Sources \X Indexes
  BY DEF TypeOK, Sources
<1>1. CASE InitWorks
  <2>1. key' \in [Sources -> [Indexes -> Keys]]
    <3>1. NoKey \in Keys /\ key \in [Sources -> [Indexes -> Keys]]
      BY Numbers DEF TypeOK
    <3>2. \/ key' = key
          \/ key' = [s \in Sources |-> [i \in Indexes |-> NoKey]]
      BY <1>1, InitTypes
    <3> QED
      BY <3>1, <3>2
  <2>a. queue' \in Seq(Sources \X Indexes)
    <3> DEFINE M == Sources \X Indexes
    <3>1. queue' = queue \/ queue' = <<>>
      BY <1>1, InitTypes
    <3>2. queue \in Seq(M)
      BY <1>0
    <3> HIDE DEF M
    <3>3. <<>> \in Seq(M)
      BY EmptySeq
    <3>4. queue' \in Seq(M)
      BY <3>1, <3>2, <3>3, Zenon
    <3> QED
      BY <3>4 DEF M
  <2>2. status' \in [Names -> {NONE, VALID, INVALID}]
    BY <1>1, InitTypes, Numbers DEF TypeOK
  <2>3. /\ mover' \in [Indexes ->
                {"none", "copy", "flush", "mark", "done", "lost"}]
        /\ rep' \in [Indexes -> {"none", "mark", "remove", "replied", "failed"}]
    BY <1>1, InitTypes, Stopped DEF TypeOK, serverVars
  <2>4. /\ ipc' \in {"off"} \cup FilePcs \cup RedisPcs
        /\ inits' \in 0 .. INITS /\ faults' \in 0 .. MaxFaults
        /\ UNCHANGED <<clientVars, sameOrder>> /\ damaged' \subseteq Names
        /\ file' \in [Sources -> [Names -> Files]]
    BY <1>1, InitTypes, InitFiles
  <2> QED
    BY <2>1, <2>a, <2>2, <2>3, <2>4 DEF TypeOK, clientVars
<1>2. CASE ClientStart
  BY <1>2, Numbers
     DEF ClientStart, ClientGoto, TypeOK, redisVars, serverVars, boundVars, initVars
<1>3. CASE ClientRequest \/ ClientPush
  <2>1. round \in Indexes
    BY <1>3 DEF ClientRequest, ClientPush, ClientGoto, TypeOK
  <2>2. queue' \in Seq(Sources \X Indexes)
    <3> DEFINE M == Sources \X Indexes
    <3>1. \E m \in M : queue' = Append(queue, m)
      BY <1>0, <1>3, <2>1 DEF ClientRequest, ClientPush
    <3>2. queue \in Seq(M)
      BY <1>0
    <3> HIDE DEF M
    <3>3. queue' \in Seq(M)
      BY <3>1, <3>2, AppendProperties
    <3> QED
      BY <3>3 DEF M
  <2> QED
    BY <1>3, <2>1, <2>2
       DEF ClientRequest, ClientPush, ClientGoto, TypeOK, serverVars, boundVars,
           initVars
<1>4. CASE ClientPoll
  BY <1>4 DEF ClientPoll, ClientGoto, TypeOK, redisVars, boundVars, initVars
<1>5. CASE ClientGather \/ ClientGatherFails
  BY <1>5, GatherFacts DEF Concludes, TypeOK, redisVars, initVars
<1>6. CASE ClientStore \/ ClientFlush \/ ClientStoreFails
  BY <1>6, StoreFacts, Numbers DEF Stores, TypeOK, redisVars, serverVars, initVars
<1>7. CASE ClientStops \/ ClientThrows
  BY <1>7, LeaveFacts, Numbers
     DEF Leaves, LeftBehind, TypeOK, redisVars, serverVars, initVars
<1>8. CASE ClientReported \/ ReportTimesOut
  BY <1>8, AnswerFacts DEF Answered, TypeOK, redisVars, serverVars, initVars
<1>9. CASE Generate \/ GenerateCut \/ GenerateFails
  <2>1. PICK s \in Sources, i \in Indexes : Popped(s, i)
    BY <1>9, GenerateFacts
  <2>2. queue' \in Seq(Sources \X Indexes)
    <3> DEFINE M == Sources \X Indexes
    <3>1. queue \in Seq(M) /\ queue # <<>> /\ queue' = Tail(queue)
      BY <2>1 DEF Popped
    <3> HIDE DEF M
    <3>2. queue' \in Seq(M)
      BY <3>1, HeadTailProperties
    <3> QED
      BY <3>2 DEF M
  <2>3. key' \in [Sources -> [Indexes -> Keys]]
    <3>1. \/ key' = key
          \/ \E k \in Keys : key' = [key EXCEPT ![s][i] = k]
      BY <2>1, Zenon DEF Popped
    <3>2. key \in [Sources -> [Indexes -> Keys]]
      BY DEF TypeOK
    <3> QED
      BY <3>1, <3>2
  <2> QED
    BY <2>1, <2>2, <2>3 DEF Popped, TypeOK, clientVars, serverVars, initVars
<1>10. ASSUME NEW i \in Indexes, Move(i) \/ MoveFails(i) PROVE TypeOK'
  <2>1. i \in Names
    BY Numbers
  <2>2. /\ mover' \in [Indexes ->
                {"none", "copy", "flush", "mark", "done", "lost"}]
        /\ status' \in [Names -> {NONE, VALID, INVALID}]
        /\ file' \in [Sources -> [Names -> Files]]
        /\ damaged' \subseteq damaged \cup {i}
        /\ faults' \in 0 .. MaxFaults
        /\ UNCHANGED <<queue, key, clientVars, rep, sameOrder, initVars>>
    BY <1>10, MoveFacts
  <2> QED
    BY <2>1, <2>2 DEF TypeOK, clientVars, initVars
<1>11. ASSUME NEW i \in Indexes, Report(i) PROVE TypeOK'
  BY <1>11, ReportFacts DEF TypeOK, clientVars, boundVars, initVars
<1>12. CASE ServerStops
  BY <1>12, Stopped, Numbers
     DEF ServerStops, Fault, TypeOK, redisVars, clientVars, initVars
<1>13. CASE UNCHANGED vars
  BY <1>13 DEF vars, redisVars, clientVars, serverVars, boundVars, initVars, TypeOK
<1>14. ASSUME NEW i \in Indexes, HandlerFails(i) PROVE TypeOK'
  BY <1>14, FailFacts DEF Fails, TypeOK, redisVars, clientVars, initVars
<1> QED
  BY <1>1, <1>2, <1>3, <1>4, <1>5, <1>6, <1>7, <1>8, <1>9, <1>10, <1>11,
     <1>12, <1>13, <1>14, StepKinds

\* The variables keep their types.
THEOREM TypeCorrect == Spec => []TypeOK
<1>1. Init => TypeOK
  BY InvInit DEF IndInv
<1> QED
  BY <1>1, TypeStep, PTL DEF Spec

-----------------------------------------------------------------------------
(* The rest of the invariant, part by part.                                *)

\* No process begins while init.cc runs, and init.cc begins when no round is
\* under way.
LEMMA AloneStep == TypeOK /\ Alone /\ [Next]_vars => Alone'
<1> SUFFICES ASSUME TypeOK, Alone, [Next]_vars PROVE Alone'
  OBVIOUS
<1>1. CASE InitWorks
  BY <1>1, InitFacts DEF Alone, clientVars
<1>3. ASSUME UNCHANGED ipc, cpc # "idle" \/ ipc = "off" PROVE Alone'
  BY <1>3 DEF Alone
<1>4. CASE ClientStart \/ ClientRequest \/ ClientPush \/ ClientPoll
  BY <1>3, <1>4
     DEF ClientStart, ClientRequest, ClientPush, ClientPoll, ClientGoto, boundVars,
         initVars
<1>5. CASE ClientGather \/ ClientGatherFails
  BY <1>3, <1>5, GatherFacts DEF Concludes, initVars
<1>6. CASE ClientStore \/ ClientFlush \/ ClientStoreFails
  BY <1>3, <1>6, StoreFacts DEF Stores, initVars
<1>7. CASE ClientStops \/ ClientThrows
  BY <1>3, <1>7, LeaveFacts DEF Leaves, initVars
<1>8. CASE ClientReported \/ ReportTimesOut
  BY <1>3, <1>8, AnswerFacts DEF Answered, initVars
<1>9. CASE Generate \/ GenerateCut \/ GenerateFails
  BY <1>3, <1>9 DEF Generate, GenerateCut, GenerateFails, PopMessage, initVars
<1>10. ASSUME NEW i \in Indexes, Move(i) \/ MoveFails(i) PROVE Alone'
  BY <1>3, <1>10, MoveFacts DEF Alone, initVars
<1>11. ASSUME NEW i \in Indexes, Report(i) PROVE Alone'
  BY <1>3, <1>11, ReportFacts DEF Alone, boundVars, initVars
<1>12. CASE ServerStops
  BY <1>12, Stopped DEF ServerStops, Alone, clientVars, initVars
<1>13. ASSUME NEW i \in Indexes, HandlerFails(i) PROVE Alone'
  BY <1>13, FailFacts DEF Fails, Alone, clientVars, initVars
<1>14. CASE UNCHANGED vars
  BY <1>14 DEF vars, clientVars, serverVars, boundVars, initVars, Alone
<1> QED
  BY <1>1, <1>4, <1>5, <1>6, <1>7, <1>8, <1>9, <1>10, <1>11, <1>12, <1>13,
     <1>14, StepKinds

\* A message goes into the list once and out of it once.
LEMMA QueuedStep == IndInv /\ [Next]_vars => Queued'
<1> SUFFICES ASSUME IndInv, [Next]_vars PROVE Queued'
  OBVIOUS
<1>0. TypeOK /\ Alone /\ Queued /\ Verdicts /\ round \in Nat
  BY Numbers DEF IndInv, TypeOK
<1>1. ASSUME UNCHANGED <<queue, key>>,
             \A i \in Indexes : mover[i] = "none" => mover'[i] = "none",
             \A s \in Sources, i \in Indexes : Unsent(s, i)' => Unsent(s, i)
      PROVE  Queued'
  BY <1>0, <1>1 DEF Queued
<1>2. CASE InitWorks
  <2>1. /\ UNCHANGED <<cpc, round>>
        /\ queue' = queue \/ queue' = <<>>
        /\ key' = key \/ \A s \in Sources, i \in Indexes : key'[s][i] = NoKey
        /\ \A i \in Indexes : mover'[i] = "none" <=> mover[i] = "none"
    BY <1>0, <1>2, InitFacts DEF clientVars
  <2> QED
    BY <1>0, <2>1 DEF Queued, Unsent
<1>3. CASE ClientStart
  BY <1>0, <1>1, <1>3, Numbers
     DEF ClientStart, ClientGoto, Unsent, redisVars, serverVars
<1>a. ASSUME NEW s \in Sources, round \in Indexes,
             UNCHANGED <<key, mover, round>>,
             queue' = Append(queue, <<s, round>>),
             Unsent(s, round), ~Unsent(s, round)', mover[round] = "none",
             \A r \in Sources, i \in Indexes : Unsent(r, i)' => Unsent(r, i)
      PROVE  Queued'
  <2>1. /\ Len(queue) \in Nat /\ Len(queue') = Len(queue) + 1
        /\ queue'[Len(queue')] = <<s, round>>
        /\ \A k \in 1 .. Len(queue') :
                k = Len(queue') \/ (k \in 1 .. Len(queue) /\ queue'[k] = queue[k])
    BY <1>0, <1>a DEF TypeOK
  <2>2. \A k \in 1 .. Len(queue) : queue[k] # <<s, round>>
    BY <1>0, <1>a DEF Queued
  <2>3. key[s][round] = NoKey
    BY <1>0, <1>a DEF Queued
  <2>4. ASSUME NEW j \in 1 .. Len(queue'), NEW k \in 1 .. Len(queue'),
               queue'[j] = queue'[k]
        PROVE  j = k
    <3>1. \A x, y \in 1 .. Len(queue) : queue[x] = queue[y] => x = y
      BY <1>0 DEF Queued
    <3> QED
      BY <2>1, <2>2, <2>4, <3>1
  <2>5. ASSUME NEW k \in 1 .. Len(queue'), NEW r \in Sources, NEW i \in Indexes,
               queue'[k] = <<r, i>>
        PROVE  key'[r][i] = NoKey /\ mover'[i] = "none" /\ ~Unsent(r, i)'
    <3>1. CASE k = Len(queue')
      <4>1. r = s /\ i = round
        <5>1. <<r, i>> = <<s, round>>
          BY <2>1, <2>5, <3>1
        <5> QED
          BY ONLY <5>1
      <4> QED
        BY <1>a, <2>3, <4>1 DEF Unsent
    <3>2. CASE k \in 1 .. Len(queue) /\ queue[k] = <<r, i>>
      <4>1. key[r][i] = NoKey /\ mover[i] = "none" /\ ~Unsent(r, i)
        BY <1>0, <3>2 DEF Queued
      <4> QED
        BY <1>a, <4>1
    <3> QED
      BY <2>1, <2>5, <3>1, <3>2
  <2>6. \A r \in Sources, i \in Indexes : Unsent(r, i)' => key'[r][i] = NoKey
    BY <1>0, <1>a DEF Queued
  <2> QED
    BY <2>4, <2>5, <2>6 DEF Queued
<1>4. CASE ClientRequest
  <2>1. /\ cpc = "request" /\ cpc' = "push" /\ round \in Indexes
        /\ queue' = Append(queue, <<"server", round>>)
        /\ UNCHANGED <<key, round, mover>>
    BY <1>0, <1>4 DEF ClientRequest, ClientGoto, serverVars, TypeOK
  <2>2. /\ Unsent("server", round) /\ ~Unsent("server", round)'
        /\ \A s \in Sources, i \in Indexes : Unsent(s, i)' => Unsent(s, i)
    BY <1>0, <2>1 DEF Unsent
  <2>3. mover[round] = "none"
    BY <1>0, <2>1 DEF Verdicts, VerdictOf, Untouched
  <2> QED
    BY <1>a, <2>1, <2>2, <2>3, Numbers
<1>5. CASE ClientPush
  <2>1. /\ cpc = "push" /\ cpc' = "poll" /\ round \in Indexes
        /\ queue' = Append(queue, <<"client", round>>)
        /\ UNCHANGED <<key, round, mover>>
    BY <1>0, <1>5 DEF ClientPush, ClientGoto, serverVars, TypeOK
  <2>2. /\ Unsent("client", round) /\ ~Unsent("client", round)'
        /\ \A s \in Sources, i \in Indexes : Unsent(s, i)' => Unsent(s, i)
    BY <1>0, <2>1 DEF Unsent
  <2>3. mover[round] = "none"
    BY <1>0, <2>1 DEF Verdicts, VerdictOf, Untouched
  <2> QED
    BY <1>a, <2>1, <2>2, <2>3, Numbers
<1>6. CASE ClientPoll
  <2>1. /\ cpc = "poll" /\ cpc' = "transfer" /\ round \in Indexes
        /\ \A s \in Sources : key[s][round] # NoKey
        /\ mover' = [mover EXCEPT ![round] = "copy"]
        /\ UNCHANGED <<queue, key, round>>
    BY <1>0, <1>6 DEF ClientPoll, ClientGoto, redisVars, TypeOK
  <2>2. /\ \A i \in Indexes \ {round} : mover'[i] = mover[i]
        /\ \A s \in Sources, i \in Indexes : Unsent(s, i)' <=> Unsent(s, i)
    BY <1>0, <2>1 DEF TypeOK, Unsent
  <2>3. ASSUME NEW k \in 1 .. Len(queue'), NEW s \in Sources, NEW i \in Indexes,
               queue'[k] = <<s, i>>
        PROVE  key'[s][i] = NoKey /\ mover'[i] = "none" /\ ~Unsent(s, i)'
    <3>1. key[s][i] = NoKey /\ mover[i] = "none" /\ ~Unsent(s, i)
      BY <1>0, <2>1, <2>3 DEF Queued
    <3> QED
      BY <2>1, <2>2, <3>1
  <2>4. /\ \A j, k \in 1 .. Len(queue') : queue'[j] = queue'[k] => j = k
        /\ \A s \in Sources, i \in Indexes : Unsent(s, i)' => key'[s][i] = NoKey
    BY <1>0, <2>1, <2>2 DEF Queued
  <2> QED
    BY <2>3, <2>4 DEF Queued
<1>7. CASE ClientGather \/ ClientGatherFails
  BY <1>0, <1>1, <1>7, GatherFacts DEF Concludes, Unsent, redisVars
<1>8. CASE ClientStore \/ ClientFlush \/ ClientStoreFails
  BY <1>0, <1>1, <1>8, StoreFacts DEF Stores, Unsent, redisVars, serverVars
<1>9. CASE ClientStops \/ ClientThrows
  BY <1>0, <1>1, <1>9, LeaveFacts DEF Leaves, Unsent, redisVars, serverVars
<1>10. CASE ClientReported \/ ReportTimesOut
  BY <1>0, <1>1, <1>10, AnswerFacts DEF Answered, Unsent, redisVars, serverVars
<1>11. CASE Generate \/ GenerateCut \/ GenerateFails
  <2>1. PICK s \in Sources, i \in Indexes : Popped(s, i)
    BY <1>0, <1>11, GenerateFacts
  <2>2. /\ Len(queue) \in Nat /\ Len(queue) > 0 /\ queue[1] = <<s, i>>
        /\ Len(queue') = Len(queue) - 1
        /\ \A k \in 1 .. Len(queue') :
                queue'[k] = queue[k + 1] /\ k + 1 \in 1 .. Len(queue)
    <3> DEFINE M == Sources \X Indexes
    <3>1. /\ queue \in Seq(M) /\ queue # <<>> /\ queue' = Tail(queue)
          /\ queue[1] = <<s, i>>
      BY <2>1 DEF Popped
    <3> HIDE DEF M
    <3> QED
      BY <3>1
  <2>3. /\ \A j, k \in 1 .. Len(queue') : queue'[j] = queue'[k] => j = k
        /\ \A k \in 1 .. Len(queue') : queue'[k] # <<s, i>>
    <3>1. \A j, k \in 1 .. Len(queue) : queue[j] = queue[k] => j = k
      BY <1>0 DEF Queued
    <3>2. 1 \in 1 .. Len(queue)
      BY <2>2
    <3>3. ASSUME NEW j \in 1 .. Len(queue'), NEW k \in 1 .. Len(queue'),
                 queue'[j] = queue'[k]
          PROVE  j = k
      <4>1. j + 1 = k + 1
        BY <2>2, <3>1, <3>3
      <4> QED
        BY <2>2, <4>1
    <3>4. ASSUME NEW k \in 1 .. Len(queue'), queue'[k] = <<s, i>> PROVE FALSE
      <4>1. k + 1 = 1
        BY <2>2, <3>1, <3>2, <3>4
      <4> QED
        BY <2>2, <4>1
    <3> QED
      BY <3>3, <3>4
  <2>4. ~Unsent(s, i)
    BY <1>0, <2>2 DEF Queued
  <2>5. /\ \A r \in Sources, j \in Indexes :
              r # s \/ j # i => key'[r][j] = key[r][j]
        /\ \A r \in Sources, j \in Indexes : Unsent(r, j)' <=> Unsent(r, j)
        /\ mover' = mover
    BY <1>0, <2>1 DEF Popped, TypeOK, Unsent, clientVars, serverVars
  <2> QED
    BY <1>0, <2>2, <2>3, <2>4, <2>5 DEF Queued
<1>12. ASSUME NEW i \in Indexes, Move(i) \/ MoveFails(i) PROVE Queued'
  BY <1>0, <1>1, <1>12, MoveFacts DEF Unsent, clientVars
<1>13. ASSUME NEW i \in Indexes, Report(i) PROVE Queued'
  BY <1>0, <1>1, <1>13, ReportFacts DEF Unsent, clientVars
<1>14. CASE ServerStops
  BY <1>0, <1>1, <1>14, Stopped DEF ServerStops, Unsent, redisVars, clientVars
<1>15. CASE UNCHANGED vars
  BY <1>1, <1>15 DEF vars, redisVars, clientVars, serverVars, Unsent
<1>16. ASSUME NEW i \in Indexes, HandlerFails(i) PROVE Queued'
  BY <1>0, <1>1, <1>16, FailFacts DEF Fails, Unsent, redisVars, clientVars
<1> QED
  BY <1>2, <1>3, <1>4, <1>5, <1>6, <1>7, <1>8, <1>9, <1>10, <1>11, <1>12,
     <1>13, <1>14, <1>15, <1>16, StepKinds

\* The verdict is reached once, after the move, and reported once.
LEMMA VerdictsStep == IndInv /\ [Next]_vars => Verdicts'
<1> SUFFICES ASSUME IndInv, [Next]_vars PROVE Verdicts'
  OBVIOUS
<1>0. TypeOK /\ Alone /\ Queued /\ Verdicts /\ round \in Nat /\ \A i \in Indexes : i \in Nat
  BY Numbers DEF IndInv, TypeOK
<1>a. NONE # VALID /\ NONE # INVALID /\ VALID # INVALID
  BY DEF NONE, VALID, INVALID
<1>1. ASSUME NEW i \in Indexes, round' = round, UNCHANGED <<mover, rep, verdict>>,
             status'[i] = status[i], KeysEqual(i)' = KeysEqual(i),
             cpc' = cpc \/ i # round \/ cpc' \notin {"request", "push", "poll",
                                                "transfer", "store", "flush"}
      PROVE  VerdictOf(i)'
  BY <1>0, <1>1 DEF Verdicts, VerdictOf, Untouched
<1>2. CASE InitWorks
  <2>1. /\ cpc = "idle" /\ UNCHANGED <<cpc, round, verdict>>
        /\ key' = key \/ \A s \in Sources, i \in Indexes : key'[s][i] = NoKey
    BY <1>0, <1>2, InitFacts DEF clientVars
  <2>2. ASSUME NEW i \in Indexes PROVE VerdictOf(i)'
    <3>1. KeysEqual(i) => KeysEqual(i)'
      BY <2>1 DEF KeysEqual, Sources
    <3>2. /\ mover'[i] = "none" <=> mover[i] = "none"
          /\ mover'[i] = "done" <=> mover[i] = "done"
          /\ rep'[i] # "remove" /\ (rep'[i] = "none" <=> rep[i] = "none")
          /\ status'[i] = status[i] \/ status'[i] = NONE
      BY <1>0, <1>2, InitFacts
    <3>3. VerdictOf(i) /\ (Untouched(i)' <=> Untouched(i))
      BY <1>0, <2>1 DEF Verdicts, Untouched
    <3> QED
      BY <1>a, <2>1, <3>1, <3>2, <3>3 DEF VerdictOf
  <2> QED
    BY <2>2 DEF Verdicts
<1>3. CASE ClientStart
  BY <1>0, <1>3, Numbers
     DEF ClientStart, ClientGoto, Verdicts, VerdictOf, Untouched, KeysEqual,
         redisVars, serverVars
<1>4. CASE ClientRequest \/ ClientPush
  BY <1>0, <1>4
     DEF ClientRequest, ClientPush, ClientGoto, Verdicts, VerdictOf, Untouched,
         KeysEqual, serverVars
<1>5. CASE ClientPoll
  <2>1. /\ cpc = "poll" /\ cpc' = "transfer" /\ round \in Indexes
        /\ \A i \in Indexes \ {round} : mover'[i] = mover[i]
        /\ mover'[round] = "copy"
        /\ UNCHANGED <<key, status, round, verdict, rep>>
    BY <1>0, <1>5 DEF ClientPoll, ClientGoto, redisVars, TypeOK
  <2>2. ASSUME NEW i \in Indexes PROVE VerdictOf(i)'
    <3>1. CASE i = round
      BY <1>0, <1>a, <2>1, <3>1 DEF Verdicts, VerdictOf, Untouched, KeysEqual
    <3>2. CASE i # round
      BY <1>0, <2>1, <3>2 DEF Verdicts, VerdictOf, Untouched, KeysEqual
    <3> QED
      BY <3>1, <3>2
  <2> QED
    BY <2>2 DEF Verdicts
<1>6. CASE ClientGather \/ ClientGatherFails
  <2>1. Concludes
    BY <1>0, <1>6, GatherFacts
  <2>2. PICK v \in {VALID, INVALID} :
            /\ v = VALID => mover[round] = "done" /\ KeysEqual(round)
            /\ verdict' = [verdict EXCEPT ![round] = v]
    BY <2>1 DEF Concludes
  <2>3. /\ cpc = "transfer" /\ cpc' = "reporting" /\ round \in Indexes
        /\ verdict'[round] = v /\ rep'[round] = "mark"
        /\ \A i \in Indexes \ {round} : verdict'[i] = verdict[i] /\ rep'[i] = rep[i]
        /\ UNCHANGED <<key, status, round, mover>>
    BY <1>0, <2>1, <2>2 DEF Concludes, redisVars, TypeOK
  <2>4. ASSUME NEW i \in Indexes PROVE VerdictOf(i)'
    <3>1. CASE i = round
      BY <1>0, <1>a, <2>2, <2>3, <3>1
         DEF Verdicts, VerdictOf, Untouched, KeysEqual
    <3>2. CASE i # round
      BY <1>0, <2>3, <3>2 DEF Verdicts, VerdictOf, Untouched, KeysEqual
    <3> QED
      BY <3>1, <3>2
  <2> QED
    BY <2>4 DEF Verdicts
<1>7. CASE ClientStore \/ ClientFlush \/ ClientStoreFails
  <2>1. Stores
    BY <1>0, <1>7, StoreFacts
  <2> QED
    BY <1>0, <2>1
       DEF Stores, Verdicts, VerdictOf, Untouched, KeysEqual, redisVars, serverVars
<1>8. CASE ClientStops \/ ClientThrows
  <2>1. Leaves
    BY <1>0, <1>8, LeaveFacts
  <2> QED
    BY <1>0, <2>1
       DEF Leaves, Verdicts, VerdictOf, Untouched, KeysEqual, redisVars, serverVars
<1>9. CASE ClientReported \/ ReportTimesOut
  <2>1. Answered
    BY <1>0, <1>9, AnswerFacts
  <2> QED
    BY <1>0, <2>1
       DEF Answered, Verdicts, VerdictOf, Untouched, KeysEqual, redisVars,
           serverVars
<1>10. CASE Generate \/ GenerateCut \/ GenerateFails
  <2>1. PICK s \in Sources, i \in Indexes : Popped(s, i)
    BY <1>0, <1>10, GenerateFacts
  <2>2. mover[i] = "none"
    <3>1. queue[1] = <<s, i>> /\ 1 \in 1 .. Len(queue)
      BY <2>1 DEF Popped
    <3> QED
      BY <1>0, <3>1 DEF Queued
  <2>3. /\ \A r \in Sources, j \in Indexes \ {i} : key'[r][j] = key[r][j]
        /\ UNCHANGED <<status, clientVars, serverVars>>
    <3>1. \/ key' = key
          \/ \E k \in Keys : key' = [key EXCEPT ![s][i] = k]
      BY <2>1, Zenon DEF Popped
    <3>2. key \in [Sources -> [Indexes -> Keys]]
      BY <1>0 DEF TypeOK
    <3>3. UNCHANGED <<status, clientVars, serverVars>>
      BY <2>1 DEF Popped
    <3> QED
      BY <3>1, <3>2, <3>3
  <2>4. ASSUME NEW j \in Indexes, j # i PROVE KeysEqual(j)' = KeysEqual(j)
    BY <2>3, <2>4 DEF KeysEqual, Sources
  <2>5. ASSUME NEW j \in Indexes PROVE VerdictOf(j)'
    <3>1. CASE j = i
      BY <1>0, <2>2, <2>3, <3>1
         DEF Verdicts, VerdictOf, Untouched, clientVars, serverVars
    <3>2. CASE j # i
      BY <1>1, <2>3, <2>4, <3>2 DEF clientVars, serverVars
    <3> QED
      BY <3>1, <3>2
  <2> QED
    BY <2>5 DEF Verdicts
<1>11. ASSUME NEW i \in Indexes, Move(i) \/ MoveFails(i) PROVE Verdicts'
  <2>1. /\ mover[i] \in {"copy", "flush", "mark"} /\ mover'[i] # "none"
        /\ \A j \in Indexes \ {i} : mover'[j] = mover[j]
        /\ status'[i] = status[i] \/ status'[i] = INVALID
        /\ \A j \in Indexes \ {i} : status'[j] = status[j]
        /\ UNCHANGED <<key, cpc, round, verdict, rep>>
    BY <1>0, <1>11, MoveFacts, Numbers DEF clientVars
  <2>2. verdict[i] # VALID /\ status[i] # VALID /\ ~Untouched(i)
    BY <1>0, <2>1 DEF Verdicts, VerdictOf
  <2>3. ASSUME NEW j \in Indexes PROVE VerdictOf(j)'
    <3>1. CASE j = i
      BY <1>0, <1>a, <2>1, <2>2, <3>1
         DEF Verdicts, VerdictOf, Untouched, KeysEqual
    <3>2. CASE j # i
      BY <1>0, <2>1, <3>2 DEF Verdicts, VerdictOf, Untouched, KeysEqual
    <3> QED
      BY <3>1, <3>2
  <2> QED
    BY <2>3 DEF Verdicts
<1>12. ASSUME NEW i \in Indexes, Report(i) PROVE Verdicts'
  <2>1. /\ rep[i] \in {"mark", "remove"}
        /\ rep'[i] = "remove" => verdict[i] # VALID
        /\ status'[i] = VALID => status[i] = VALID \/ verdict[i] = VALID
        /\ \A j \in Indexes \ {i} : status'[j] = status[j] /\ rep'[j] = rep[j]
        /\ UNCHANGED <<key, cpc, round, verdict, mover>>
    BY <1>0, <1>12, ReportFacts, Numbers DEF clientVars
  <2>2. verdict[i] # NONE /\ ~Untouched(i) /\ ~(i = round /\ cpc = "transfer")
    BY <1>0, <2>1 DEF Verdicts, VerdictOf
  <2>3. verdict[i] \in {VALID, INVALID}
    BY <1>0, <2>2 DEF TypeOK
  <2>4. ASSUME NEW j \in Indexes PROVE VerdictOf(j)'
    <3>1. CASE j = i
      BY <1>0, <2>1, <2>2, <2>3, <3>1
         DEF Verdicts, VerdictOf, Untouched, KeysEqual
    <3>2. CASE j # i
      BY <1>0, <2>1, <3>2 DEF Verdicts, VerdictOf, Untouched, KeysEqual
    <3> QED
      BY <3>1, <3>2
  <2> QED
    BY <2>4 DEF Verdicts
<1>13. CASE ServerStops
  BY <1>0, <1>13, Stopped
     DEF ServerStops, Verdicts, VerdictOf, Untouched, KeysEqual, redisVars,
         clientVars
<1>14. CASE UNCHANGED vars
  BY <1>1, <1>14 DEF vars, redisVars, clientVars, serverVars, Verdicts, KeysEqual
<1>15. ASSUME NEW i \in Indexes, HandlerFails(i) PROVE Verdicts'
  <2>1. Fails(i)
    BY <1>0, <1>15, FailFacts
  <2>2. ASSUME NEW j \in Indexes PROVE VerdictOf(j)'
    BY <1>0, <2>1
       DEF Fails, Verdicts, VerdictOf, Untouched, KeysEqual, redisVars, clientVars
  <2> QED
    BY <2>2 DEF Verdicts
<1> QED
  BY <1>2, <1>3, <1>4, <1>5, <1>6, <1>7, <1>8, <1>9, <1>10, <1>11, <1>12,
     <1>13, <1>14, <1>15, StepKinds

\* What is to become VALID is whole at the server, and at the client or about
\* to be.
LEMMA StoredStep == IndInv /\ [Next]_vars => StoredFiles'
<1> SUFFICES ASSUME IndInv, [Next]_vars PROVE StoredFiles'
  OBVIOUS
<1>0. TypeOK /\ Alone /\ Verdicts /\ StoredFiles /\ round \in Nat
  BY Numbers DEF IndInv, TypeOK
<1>a. NONE # VALID /\ NONE # INVALID /\ VALID # INVALID
  BY DEF NONE, VALID, INVALID
<1>b. 0 \notin Indexes /\ "server" \in Sources /\ "client" \in Sources
      /\ Indexes \subseteq Names /\ 0 \in Names /\ "server" # "client"
      /\ Sources = {"server", "client"}
  BY Numbers
<1>1. ASSUME NEW i \in Indexes \ damaged, UNCHANGED <<round, verdict>>,
             mover'[i] = mover[i], rep'[i] = rep[i], status'[i] = status[i],
             \A s \in Sources : file'[s][i] = file[s][i],
             \/ cpc' = cpc
             \/ i # round
             \/ cpc' # "transfer" /\ (cpc \in Storing => cpc' \in Storing)
      PROVE  ServerFileOf(i)' /\ ClientFileOf(i)'
  BY <1>0, <1>b, <1>1
     DEF StoredFiles, ServerFileOf, ClientFileOf, ToBeValid
<1>2. ASSUME damaged \subseteq damaged', status'[0] = status[0], ipc' = ipc,
             \A s \in Sources : file'[s][0] = file[s][0],
             \A i \in Indexes \ damaged' : ServerFileOf(i)' /\ ClientFileOf(i)'
      PROVE  StoredFiles'
  BY <1>0, <1>2 DEF StoredFiles, FirstFiles
<1>3. CASE InitWorks
  <2>1. FirstFiles'
    BY <1>0, <1>3, InitFirstFiles DEF StoredFiles
  <2>2. ASSUME NEW i \in Indexes \ damaged'
        PROVE  ServerFileOf(i)' /\ ClientFileOf(i)'
    <3>1. /\ cpc = "idle" /\ UNCHANGED <<cpc, round, verdict>>
          /\ mover'[i] \notin {"copy", "flush", "mark"} /\ rep'[i] # "mark"
          /\ status'[i] = status[i] \/ status'[i] = NONE
          /\ i \in damaged => status'[i] = NONE
          /\ \A s \in Sources : file'[s][i] = file[s][i]
      BY <1>0, <1>3, <2>2, InitFacts DEF clientVars
    <3>2. i \notin damaged => ServerFileOf(i) /\ ClientFileOf(i)
      BY <1>0 DEF StoredFiles
    <3> QED
      BY <1>a, <1>b, <3>1, <3>2
         DEF ServerFileOf, ClientFileOf, ToBeValid, Storing
  <2> QED
    BY <2>1, <2>2 DEF StoredFiles
<1>4. CASE ClientStart
  <2>1. /\ cpc = "idle" /\ cpc' = "request" /\ damaged' = damaged
        /\ UNCHANGED <<status, file, verdict, mover, rep, ipc>>
    BY <1>4 DEF ClientStart, ClientGoto, redisVars, serverVars, boundVars,
                initVars
  <2>2. ASSUME NEW i \in Indexes \ damaged'
        PROVE  ServerFileOf(i)' /\ ClientFileOf(i)'
    BY <1>0, <2>1, <2>2
       DEF StoredFiles, ServerFileOf, ClientFileOf, ToBeValid, Storing
  <2> QED
    BY <1>2, <2>1, <2>2
<1>5. CASE ClientRequest \/ ClientPush
  <2>1. /\ cpc' \notin {"transfer"} \cup Storing /\ cpc \notin Storing
        /\ UNCHANGED <<status, file, round, verdict, mover, rep, damaged, ipc>>
    BY <1>5 DEF ClientRequest, ClientPush, ClientGoto, serverVars, Storing,
                boundVars, initVars
  <2> QED
    BY <1>1, <1>2, <2>1
<1>6. CASE ClientPoll
  <2>1. /\ cpc = "poll" /\ cpc' = "transfer" /\ mover'[round] = "copy"
        /\ round \in Indexes
        /\ \A i \in Indexes \ {round} : mover'[i] = mover[i]
        /\ UNCHANGED <<status, file, round, verdict, rep, damaged, ipc>>
    BY <1>0, <1>6 DEF ClientPoll, ClientGoto, redisVars, boundVars, initVars,
                      TypeOK
  <2>2. rep[round] = "none" /\ status[round] = NONE
    BY <1>0, <2>1 DEF Verdicts, VerdictOf, Untouched
  <2>3. ASSUME NEW i \in Indexes \ damaged'
        PROVE  ServerFileOf(i)' /\ ClientFileOf(i)'
    <3>1. CASE i = round
      BY <1>a, <2>1, <2>2, <3>1 DEF ServerFileOf, ClientFileOf, ToBeValid
    <3>2. CASE i # round
      BY <1>1, <2>1, <2>3, <3>2
    <3> QED
      BY <3>1, <3>2
  <2> QED
    BY <1>2, <2>1, <2>3
<1>7. CASE ClientGather \/ ClientGatherFails
  <2>1. Concludes
    BY <1>0, <1>7, GatherFacts
  <2>2. PICK v \in {VALID, INVALID} :
            /\ v = VALID => mover[round] = "done" /\ KeysEqual(round)
            /\ verdict' = [verdict EXCEPT ![round] = v]
    BY <2>1 DEF Concludes
  <2>3. /\ cpc = "transfer" /\ cpc' = "reporting" /\ round \in Indexes
        /\ verdict'[round] = v /\ rep'[round] = "mark"
        /\ \A i \in Indexes \ {round} : verdict'[i] = verdict[i] /\ rep'[i] = rep[i]
        /\ UNCHANGED <<status, file, round, mover, damaged, ipc>>
    BY <1>0, <2>1, <2>2 DEF Concludes, redisVars, initVars, TypeOK
  <2>4. verdict[round] = NONE /\ status[round] # VALID
    BY <1>0, <1>a, <2>3 DEF Verdicts, VerdictOf
  <2>5. ASSUME NEW i \in Indexes \ damaged'
        PROVE  ServerFileOf(i)' /\ ClientFileOf(i)'
    <3>1. CASE i = round
      BY <1>0, <1>a, <2>2, <2>3, <2>4, <2>5, <3>1
         DEF StoredFiles, ServerFileOf, ClientFileOf, ToBeValid, Storing
    <3>2. CASE i # round
      BY <1>0, <2>3, <2>5, <3>2
         DEF StoredFiles, ServerFileOf, ClientFileOf, ToBeValid
    <3> QED
      BY <3>1, <3>2
  <2> QED
    BY <1>2, <2>3, <2>5
<1>8. CASE ClientStore \/ ClientFlush \/ ClientStoreFails
  <2>1. Stores
    BY <1>0, <1>8, StoreFacts
  <2>2. /\ cpc \in {"store", "flush"} /\ round \in Indexes
        /\ \A r \in Sources, n \in Names :
                r = "server" \/ n # round => file'[r][n] = file[r][n]
        /\ \/ cpc' = "flush"
           \/ /\ cpc' = "idle"
              /\ file'["client"][round] = "whole" \/ round \in damaged'
        /\ damaged \subseteq damaged'
        /\ UNCHANGED <<status, round, verdict, mover, rep, ipc>>
    BY <2>1 DEF Stores, redisVars, serverVars, initVars
  <2>3. ASSUME NEW i \in Indexes \ damaged'
        PROVE  ServerFileOf(i)' /\ ClientFileOf(i)'
    BY <1>0, <1>b, <2>2, <2>3
       DEF StoredFiles, ServerFileOf, ClientFileOf, ToBeValid, Storing
  <2> QED
    BY <1>2, <1>b, <2>2, <2>3
<1>9. ASSUME \/ ClientStops \/ ClientThrows
             \/ ClientReported \/ ReportTimesOut
      PROVE  StoredFiles'
  <2>1. /\ \/ cpc' = "idle" /\ damaged' = damaged \cup LeftBehind
           \/ damaged' = damaged /\ cpc = "reporting"
              /\ \/ cpc' = "store"
                 \/ cpc' = "idle" /\ verdict[round] # VALID
        /\ cpc # "idle" /\ round \in Indexes
        /\ UNCHANGED <<status, file, round, verdict, mover, rep, ipc>>
    BY <1>0, <1>9, LeaveFacts, AnswerFacts
       DEF Leaves, Answered, redisVars, serverVars, initVars, TypeOK
  <2>2. ASSUME NEW i \in Indexes \ damaged'
        PROVE  ServerFileOf(i)' /\ ClientFileOf(i)'
    <3>1. CASE i = round
      <4>1. cpc' = "store" \/ cpc \notin Storing \/ verdict[i] # VALID
        BY <2>1, <2>2, <3>1 DEF LeftBehind, Storing
      <4>2. cpc \in Storing \/ ~ToBeValid(i) \/ file["client"][i] = "whole"
        BY <1>0, <2>1, <2>2 DEF StoredFiles, ClientFileOf
      <4>3. ToBeValid(i) => verdict[i] = VALID
        BY <1>0 DEF Verdicts, VerdictOf, ToBeValid
      <4> QED
        BY <1>0, <2>1, <2>2, <4>1, <4>2, <4>3
           DEF StoredFiles, ServerFileOf, ClientFileOf, ToBeValid, Storing
    <3>2. CASE i # round
      BY <1>1, <2>1, <2>2, <3>2
    <3> QED
      BY <3>1, <3>2
  <2> QED
    BY <1>2, <2>1, <2>2
<1>10. ASSUME NEW i \in Indexes, HandlerFails(i) PROVE StoredFiles'
  <2>1. Fails(i)
    BY <1>0, <1>10, FailFacts
  <2>2. UNCHANGED <<status, file, cpc, round, verdict, damaged, ipc>>
    BY <2>1 DEF Fails, redisVars, clientVars, initVars
  <2>3. ASSUME NEW j \in Indexes \ damaged'
        PROVE  ServerFileOf(j)' /\ ClientFileOf(j)'
    BY <1>0, <2>1, <2>2, <2>3
       DEF Fails, StoredFiles, ServerFileOf, ClientFileOf, ToBeValid
  <2> QED
    BY <1>2, <2>2, <2>3
<1>11. CASE Generate \/ GenerateCut \/ GenerateFails
  <2>1. UNCHANGED <<status, file, cpc, round, verdict, mover, rep, damaged, ipc>>
    BY <1>0, <1>11, GenerateFacts DEF Popped, clientVars, serverVars, initVars
  <2> QED
    BY <1>1, <1>2, <2>1
<1>12. ASSUME NEW i \in Indexes, Move(i) \/ MoveFails(i) PROVE StoredFiles'
  <2>1. /\ mover[i] \in {"copy", "flush", "mark"}
        /\ \A j \in Indexes \ {i} : mover'[j] = mover[j]
        /\ status'[i] = status[i] \/ status'[i] = INVALID
        /\ \A n \in Names \ {i} : status'[n] = status[n]
        /\ \A r \in Sources, n \in Names :
                r = "client" \/ n # i => file'[r][n] = file[r][n]
        /\ damaged \subseteq damaged'
        /\ UNCHANGED <<cpc, round, verdict, rep, ipc>>
    BY <1>0, <1>12, MoveFacts DEF clientVars, initVars
  <2>2. verdict[i] # VALID /\ ~ToBeValid(i) /\ ~ToBeValid(i)'
    <3>1. verdict[i] # VALID
      BY <1>0, <2>1 DEF Verdicts, VerdictOf
    <3> QED
      BY <1>0, <1>a, <2>1, <3>1 DEF Verdicts, VerdictOf, ToBeValid
  <2>3. i \notin damaged' => ServerFileOf(i)'
    <3>1. file \in [Sources -> [Names -> Files]]
          /\ mover \in [Indexes ->
                {"none", "copy", "flush", "mark", "done", "lost"}]
      BY <1>0 DEF TypeOK
    <3>2. CASE MoveCopy(i)
      <4>1. /\ mover'[i] = "flush" => file'["server"][i] = "torn"
            /\ mover'[i] \in {"flush", "lost"}
        BY <1>b, <3>1, <3>2 DEF MoveCopy, MoverGoto
      <4> QED
        BY <2>2, <4>1 DEF ServerFileOf
    <3>3. CASE MoveFlush(i)
      <4>1. /\ mover[i] = "flush" /\ mover'[i] = "mark" /\ damaged' = damaged
            /\ file["server"][i] = "torn" => file'["server"][i] = "whole"
        BY <1>b, <3>1, <3>3 DEF MoveFlush, MoverGoto
      <4> QED
        BY <1>0, <2>1, <2>2, <4>1 DEF StoredFiles, ServerFileOf
    <3>4. CASE MoveMark(i)
      <4>1. /\ mover[i] = "mark" /\ mover'[i] = "done" /\ file' = file
            /\ damaged' = damaged
        BY <3>1, <3>4 DEF MoveMark, MoverGoto
      <4>2. i = round /\ cpc = "transfer" => verdict[i] # INVALID
        BY <1>0, <1>a DEF Verdicts, VerdictOf
      <4> QED
        BY <1>0, <2>1, <2>2, <4>1, <4>2 DEF StoredFiles, ServerFileOf
    <3>5. CASE MoveFails(i)
      BY <3>5 DEF MoveFails
    <3> QED
      BY <1>12, <3>2, <3>3, <3>4, <3>5 DEF Move
  <2>4. ASSUME NEW j \in Indexes \ damaged'
        PROVE  ServerFileOf(j)' /\ ClientFileOf(j)'
    <3>1. CASE j = i
      BY <2>2, <2>3, <2>4, <3>1 DEF ClientFileOf
    <3>2. CASE j # i
      BY <1>1, <1>b, <2>1, <2>4, <3>2
    <3> QED
      BY <3>1, <3>2
  <2> QED
    BY <1>2, <1>b, <2>1, <2>4
<1>13. ASSUME NEW i \in Indexes, Report(i) PROVE StoredFiles'
  <2>1. /\ \A j \in Indexes \ {i} : rep'[j] = rep[j]
        /\ \A n \in Names \ {i} : status'[n] = status[n]
        /\ \A r \in Sources, n \in Names :
                r = "client" \/ n # i => file'[r][n] = file[r][n]
        /\ \/ /\ rep[i] = "mark" /\ status'[i] = verdict[i] /\ file' = file
              /\ rep'[i] # "mark"
           \/ /\ rep[i] = "remove" /\ status' = status /\ rep'[i] # "mark"
        /\ UNCHANGED <<cpc, round, verdict, mover, damaged, ipc>>
    BY <1>0, <1>13, ReportFacts DEF clientVars, boundVars, initVars
  <2>2. /\ ToBeValid(i)' => ToBeValid(i)
        /\ ToBeValid(i) => verdict[i] = VALID
        /\ rep[i] = "remove" => verdict[i] = INVALID
        /\ i = round /\ cpc = "transfer" => rep[i] = "none"
    BY <1>0, <2>1 DEF Verdicts, VerdictOf, ToBeValid
  <2>3. ASSUME i \notin damaged PROVE ServerFileOf(i)' /\ ClientFileOf(i)'
    <3>1. ServerFileOf(i) /\ ClientFileOf(i)
      BY <1>0, <2>3 DEF StoredFiles
    <3>2. CASE rep[i] = "mark"
      <4>1. file' = file
        BY <2>1, <3>2
      <4> QED
        BY <2>1, <2>2, <3>1, <3>2, <4>1 DEF ServerFileOf, ClientFileOf
    <3>3. CASE rep[i] # "mark"
      <4>1. verdict[i] = INVALID /\ rep[i] = "remove"
        BY <2>1, <2>2, <3>3
      <4>2. ~ToBeValid(i)'
        BY <1>a, <2>2, <4>1
      <4> QED
        BY <2>1, <2>2, <4>1, <4>2 DEF ServerFileOf, ClientFileOf
    <3> QED
      BY <3>2, <3>3
  <2>4. ASSUME NEW j \in Indexes \ damaged'
        PROVE  ServerFileOf(j)' /\ ClientFileOf(j)'
    <3>1. CASE j = i
      BY <2>1, <2>3, <2>4, <3>1
    <3>2. CASE j # i
      BY <1>1, <1>b, <2>1, <2>4, <3>2
    <3> QED
      BY <3>1, <3>2
  <2> QED
    BY <1>2, <1>b, <2>1, <2>4
<1>14. CASE ServerStops
  <2>1. /\ mover' = StopMovers /\ rep' = StopReports
        /\ UNCHANGED <<status, file, cpc, round, verdict, damaged, ipc>>
    BY <1>14 DEF ServerStops, redisVars, clientVars, initVars
  <2>2. ASSUME NEW i \in Indexes \ damaged'
        PROVE  ServerFileOf(i)' /\ ClientFileOf(i)'
    BY <1>0, <2>1, <2>2, Stopped
       DEF StoredFiles, ServerFileOf, ClientFileOf, ToBeValid
  <2> QED
    BY <1>2, <2>1, <2>2
<1>15. CASE UNCHANGED vars
  BY <1>1, <1>2, <1>15 DEF vars, redisVars, clientVars, serverVars, boundVars,
                           initVars
<1> QED
  BY <1>3, <1>4, <1>5, <1>6, <1>7, <1>8, <1>9, <1>10, <1>11, <1>12, <1>13,
     <1>14, <1>15, StepKinds

\* What a round is derived from does not change as long as it may still
\* become VALID.
LEMMA IngredientsStep == IndInv /\ [Next]_vars => Ingredients'
<1> SUFFICES ASSUME IndInv, [Next]_vars PROVE Ingredients'
  OBVIOUS
<1>0. /\ TypeOK /\ Alone /\ Queued /\ Verdicts /\ Ingredients /\ round \in Nat
      /\ \A i \in Indexes : i \in Nat
  BY Numbers DEF IndInv, TypeOK
<1>a. NONE # VALID /\ NONE # INVALID /\ VALID # INVALID
  BY DEF NONE, VALID, INVALID
<1>b. ASSUME NEW s \in Sources, NEW i \in Indexes, NEW f \in key[s][i].files
      PROVE  f[1] \in Names
  BY <1>0 DEF TypeOK, Keys
<1>1. ASSUME UNCHANGED <<key, status, file>>,
             \A i \in Indexes :
                Live(i)' => Live(i) \/ \A s \in Sources : key[s][i] = NoKey
      PROVE  Ingredients'
  BY <1>0, <1>1, Numbers DEF Ingredients
\* The files of a VALID name are not written.
<1>2. ASSUME UNCHANGED key, \A i \in Indexes : Live(i)' => Live(i),
             \A n \in Names : status[n] = VALID =>
                    /\ status'[n] = VALID
                    /\ \A s \in Sources : file'[s][n] = file[s][n]
      PROVE  Ingredients'
  BY <1>0, <1>b, <1>2 DEF Ingredients
<1>3. CASE InitWorks
  <2>1. \A i \in Indexes : ~Live(i)'
    BY <1>0, <1>3, InitFacts DEF Live, clientVars
  <2> QED
    BY <2>1 DEF Ingredients
<1>4. CASE ClientStart
  BY <1>1, <1>4 DEF ClientStart, ClientGoto, redisVars, serverVars, Live
<1>5. CASE ClientRequest
  <2>1. /\ cpc = "request"
        /\ UNCHANGED <<key, status, file, round, verdict, rep>>
    BY <1>5 DEF ClientRequest, ClientGoto, serverVars
  <2>2. \A i \in Indexes : i = round => \A s \in Sources : key[s][i] = NoKey
    BY <1>0, <2>1 DEF Queued, Unsent
  <2> QED
    BY <1>1, <2>1, <2>2 DEF Live
<1>6. CASE ClientPush
  BY <1>1, <1>6 DEF ClientPush, ClientGoto, serverVars, Live
<1>7. CASE ClientPoll
  BY <1>1, <1>7 DEF ClientPoll, ClientGoto, redisVars, Live
<1>8. CASE ClientGather \/ ClientGatherFails
  <2>1. /\ cpc = "transfer" /\ cpc' = "reporting" /\ round \in Indexes
        /\ \A i \in Indexes \ {round} : verdict'[i] = verdict[i] /\ rep'[i] = rep[i]
        /\ UNCHANGED <<key, status, file, round>>
    BY <1>0, <1>8, GatherFacts DEF Concludes, redisVars, TypeOK
  <2>2. \A i \in Indexes : Live(i)' => Live(i)
    BY <2>1 DEF Live
  <2> QED
    BY <1>1, <2>1, <2>2
<1>9. CASE ClientStore \/ ClientFlush \/ ClientStoreFails
  <2>1. /\ cpc' \in {"flush", "idle"}
        /\ \A r \in Sources, n \in Names :
                r = "server" \/ n # round => file'[r][n] = file[r][n]
        /\ UNCHANGED <<key, status, round, verdict, rep>>
    BY <1>0, <1>9, StoreFacts DEF Stores, redisVars, serverVars
  <2>2. ASSUME NEW i \in Indexes, Live(i)',
               NEW s \in Sources, NEW f \in key[s][i].files
        PROVE  f[1] < i /\ status[f[1]] = VALID /\ file'[s][f[1]] = f[2]
    <3>1. f[1] < i /\ status[f[1]] = VALID /\ file[s][f[1]] = f[2]
      BY <1>0, <2>1, <2>2 DEF Ingredients, Live
    <3>2. i <= round
      BY <1>0, <2>1, <2>2 DEF Verdicts, VerdictOf, Untouched, Live
    <3>3. f[1] \in Names /\ f[1] # round
      BY <1>0, <1>b, <2>2, <3>1, <3>2, Numbers
    <3> QED
      BY <2>1, <3>1, <3>3
  <2> QED
    BY <2>1, <2>2 DEF Ingredients
<1>10. CASE ClientStops \/ ClientThrows
  BY <1>0, <1>1, <1>10, LeaveFacts DEF Leaves, redisVars, serverVars, Live
<1>11. CASE ClientReported \/ ReportTimesOut
  BY <1>0, <1>1, <1>11, AnswerFacts DEF Answered, redisVars, serverVars, Live
<1>12. CASE Generate \/ GenerateCut \/ GenerateFails
  <2>1. PICK s \in Sources, i \in Indexes : Popped(s, i)
    BY <1>0, <1>12, GenerateFacts
  <2>2. UNCHANGED <<status, file, cpc, round, verdict, mover, rep>>
    BY <2>1 DEF Popped, clientVars, serverVars
  <2>3. key \in [Sources -> [Indexes -> Keys]]
    BY <1>0 DEF TypeOK
  <2>4. CASE UNCHANGED key
    BY <1>1, <2>2, <2>4 DEF Live
  <2>5. ASSUME NEW k \in Keys, key' = [key EXCEPT ![s][i] = k],
               \A f \in k.files : /\ f[1] \in Names /\ status[f[1]] = VALID
                                  /\ file[s][f[1]] = f[2]
        PROVE  Ingredients'
    <3>1. /\ key'[s][i] = k
          /\ \A r \in Sources, j \in Indexes :
                r # s \/ j # i => key'[r][j] = key[r][j]
      BY <2>3, <2>5
    <3>2. mover[i] = "none"
      <4>1. queue[1] = <<s, i>> /\ 1 \in 1 .. Len(queue)
        BY <2>1 DEF Popped
      <4> QED
        BY <1>0, <4>1 DEF Queued
    <3>3. ASSUME NEW f \in k.files, Live(i) PROVE f[1] < i
      <4>1. f[1] \in Names /\ status[f[1]] = VALID
        BY <2>5, <3>3
      <4>2. f[1] = 0 \/ f[1] \in Indexes
        BY <4>1, Numbers
      <4>3. f[1] \in Indexes => ~Untouched(f[1])
        BY <1>0, <1>a, <4>1 DEF Verdicts, VerdictOf
      <4>4. f[1] \in Nat /\ i \in Nat /\ i # 0
        BY <4>1, Numbers
      <4>5. i = round /\ cpc \in {"push", "poll"}
        BY <1>0, <3>2, <3>3 DEF Verdicts, VerdictOf, Live
      <4> QED
        BY <4>2, <4>3, <4>4, <4>5 DEF Untouched
    <3>4. ASSUME NEW j \in Indexes, Live(j),
                 NEW r \in Sources, NEW f \in key'[r][j].files
          PROVE  f[1] < j /\ status[f[1]] = VALID /\ file[r][f[1]] = f[2]
      <4>1. CASE r = s /\ j = i
        BY <2>5, <3>1, <3>2, <3>3, <3>4, <4>1
      <4>2. CASE r # s \/ j # i
        BY <1>0, <3>1, <3>4, <4>2 DEF Ingredients
      <4> QED
        BY <4>1, <4>2
    <3> QED
      BY <2>2, <3>4 DEF Ingredients, Live
  <2> QED
    BY <2>1, <2>4, <2>5 DEF Popped
<1>13. ASSUME NEW i \in Indexes, Move(i) \/ MoveFails(i) PROVE Ingredients'
  <2>1. /\ mover[i] \in {"copy", "flush", "mark"}
        /\ \A j \in Indexes \ {i} : mover'[j] = mover[j]
        /\ \A n \in Names \ {i} : status'[n] = status[n]
        /\ \A r \in Sources, n \in Names :
                r = "client" \/ n # i => file'[r][n] = file[r][n]
        /\ UNCHANGED <<key, cpc, round, verdict, rep>>
    BY <1>0, <1>13, MoveFacts DEF clientVars
  <2>2. status[i] # VALID
    BY <1>0, <2>1 DEF Verdicts, VerdictOf
  <2> QED
    BY <1>2, <2>1, <2>2 DEF Live
<1>14. ASSUME NEW i \in Indexes, Report(i) PROVE Ingredients'
  <2>1. /\ \A n \in Names \ {i} : status'[n] = status[n]
        /\ \A r \in Sources, n \in Names :
                r = "client" \/ n # i => file'[r][n] = file[r][n]
        /\ \/ rep[i] = "mark" /\ status'[i] = verdict[i] /\ file' = file
           \/ rep[i] = "remove" /\ status' = status
        /\ rep'[i] # "mark" /\ \A j \in Indexes \ {i} : rep'[j] = rep[j]
        /\ UNCHANGED <<key, cpc, round, verdict>>
    BY <1>0, <1>14, ReportFacts DEF clientVars
  <2>2. /\ status[i] = VALID => verdict[i] = VALID
        /\ rep[i] = "remove" => verdict[i] = INVALID
    BY <1>0 DEF Verdicts, VerdictOf
  <2>3. ASSUME NEW n \in Names, status[n] = VALID
        PROVE  status'[n] = VALID /\ \A s \in Sources : file'[s][n] = file[s][n]
    <3>1. CASE n # i
      BY <2>1, <2>3, <3>1
    <3>2. CASE n = i
      BY <1>a, <2>1, <2>2, <2>3, <3>2
    <3> QED
      BY <3>1, <3>2
  <2> QED
    BY <1>2, <2>1, <2>3 DEF Live
<1>15. CASE ServerStops
  BY <1>0, <1>2, <1>15, Stopped DEF ServerStops, redisVars, clientVars, Live
<1>16. CASE UNCHANGED vars
  BY <1>1, <1>16 DEF vars, redisVars, clientVars, serverVars, Live
<1>17. ASSUME NEW i \in Indexes, HandlerFails(i) PROVE Ingredients'
  <2>1. Fails(i)
    BY <1>0, <1>17, FailFacts
  <2>2. \A j \in Indexes : Live(j)' => Live(j)
    BY <2>1 DEF Fails, Live, clientVars
  <2> QED
    BY <1>1, <2>1, <2>2 DEF Fails, redisVars
<1> QED
  BY <1>3, <1>4, <1>5, <1>6, <1>7, <1>8, <1>9, <1>10, <1>11, <1>12, <1>13,
     <1>14, <1>15, <1>16, <1>17, StepKinds

-----------------------------------------------------------------------------
(* The theorems.                                                           *)

LEMMA Invariance == Spec => []IndInv
<1>1. IndInv /\ [Next]_vars => IndInv'
  BY TypeStep, AloneStep, QueuedStep, VerdictsStep, StoredStep, IngredientsStep
     DEF IndInv
<1> QED
  BY <1>1, InvInit, PTL DEF Spec

\* Whatever fails, however late a status is recorded and wherever init.cc is
\* stopped, both directories hold the whole file of every VALID name that no
\* fault has touched since.
THEOREM StocksAgreeHolds == Spec => []StocksAgree
<1>1. ASSUME IndInv, NEW n \in Names \ damaged, status[n] = VALID
      PROVE  /\ file["server"][n] = "whole"
             /\ file["client"][n] = "whole" \/ (n = round /\ cpc \in Storing)
  <2>1. CASE n = 0
    BY <1>1, <2>1, Numbers DEF IndInv, StoredFiles, FirstFiles
  <2>2. CASE n \in Indexes
    BY <1>1, <2>2
       DEF IndInv, StoredFiles, ServerFileOf, ClientFileOf, ToBeValid
  <2> QED
    BY <2>1, <2>2, Numbers
<1>2. IndInv => StocksAgree
  BY <1>1 DEF StocksAgree
<1> QED
  BY <1>2, Invariance, PTL

\* Only the report makes a round VALID.
LEMMA MadeByReport ==
  ASSUME IndInv, [Next]_vars, NEW i \in Indexes, MadeValid(i)
  PROVE  UNCHANGED file /\ rep[i] = "mark" /\ verdict[i] = VALID
<1>0. /\ TypeOK /\ Alone /\ Verdicts /\ i \in Names /\ NONE # VALID
      /\ VALID # INVALID /\ status[i] # VALID /\ status'[i] = VALID
  BY Numbers DEF IndInv, MadeValid, NONE, VALID, INVALID
<1>1. status' # status
  BY <1>0
<1>2. ~InitWorks
  BY <1>0, InitFacts
<1>3. /\ ~ClientStart /\ ~ClientRequest /\ ~ClientPush /\ ~ClientPoll
      /\ ~ClientStore /\ ~ClientFlush /\ ~ClientStoreFails /\ ~ClientStops
      /\ ~ClientThrows /\ ~ClientReported /\ ~ReportTimesOut /\ ~ServerStops
      /\ status' = status \/ ~UNCHANGED vars
  BY <1>1
     DEF ClientStart, ClientRequest, ClientPush, ClientPoll, ClientStore,
         ClientFlush, ClientStoreFails, ClientStops, ClientThrows,
         ClientReported, ReportTimesOut, ServerStops, redisVars, vars
<1>4. ~ClientGather /\ ~ClientGatherFails
  BY <1>0, <1>1, GatherFacts DEF Concludes, redisVars
<1>5. ~Generate /\ ~GenerateCut /\ ~GenerateFails
  BY <1>1 DEF Generate, GenerateCut, GenerateFails, PopMessage
<1>6. ASSUME NEW j \in Indexes PROVE ~Move(j) /\ ~MoveFails(j) /\ ~HandlerFails(j)
  <2>1. ~HandlerFails(j)
    BY <1>1 DEF HandlerFails, redisVars
  <2>2. ~(Move(j) \/ MoveFails(j))
    BY <1>0, MoveFacts
  <2> QED
    BY <2>1, <2>2
<1>7. PICK j \in Indexes : Report(j)
  BY <1>1, <1>2, <1>3, <1>4, <1>5, <1>6, StepKinds DEF vars, redisVars
<1>8. /\ j = i
      /\ \/ rep[i] = "mark" /\ status'[i] = verdict[i] /\ file' = file
         \/ rep[i] = "remove" /\ status' = status
  BY <1>0, <1>7, ReportFacts
<1> QED
  BY <1>0, <1>1, <1>8

\* A secret that becomes VALID was sent under a matrix that both sides made of
\* files they hold alike, also after faults that left others different, and
\* after an init.cc that was stopped between its files and the statuses.
THEOREM ValidMadeFromSharedHolds == Spec => ValidMadeFromShared
<1>1. ASSUME IndInv, [Next]_vars, NEW i \in Indexes, MadeValid(i),
             NEW s \in Sources, NEW f \in key[s][i].files
      PROVE  file["server"][f[1]] = file["client"][f[1]]
  <2>1. Live(i) /\ key["server"][i] = key["client"][i]
    BY <1>1, MadeByReport DEF IndInv, Verdicts, VerdictOf, KeysEqual, Live
  <2>2. f \in key["server"][i].files /\ f \in key["client"][i].files
    BY <1>1, <2>1, Numbers
  <2>3. file["server"][f[1]] = f[2] /\ file["client"][f[1]] = f[2]
    BY <1>1, <2>1, <2>2, Numbers DEF IndInv, Ingredients
  <2> QED
    BY <2>3
<1> DEFINE A == \A i \in Indexes : MadeValid(i) =>
                  \A s \in Sources : \A f \in key[s][i].files :
                      file["server"][f[1]] = file["client"][f[1]]
<1>2. IndInv /\ [Next]_vars => [A]_vars
  BY <1>1
<1> QED
  BY <1>2, Invariance, PTL DEF Spec, ValidMadeFromShared

-----------------------------------------------------------------------------
(* The promise of KeyStock.                                                *)

\* The client has not written its file of the round.
Unstored(i) == i > round \/ (i = round /\ cpc \notin {"flush", "idle"})

\* It writes it once, and has none before: what is held is not truncated.
StoredOnce == \A i \in Indexes : Unstored(i) => file["client"][i] = "none"

LEMMA StoredOnceStep == IndInv /\ StoredOnce /\ [Next]_vars => StoredOnce'
<1> SUFFICES ASSUME IndInv, StoredOnce, [Next]_vars PROVE StoredOnce'
  OBVIOUS
<1>0. /\ TypeOK /\ Alone /\ "client" \in Sources /\ "client" # "server"
      /\ round \in Nat /\ \A i \in Indexes : i \in Nat /\ i \in Names
  BY Numbers DEF IndInv, TypeOK
<1>1. ASSUME \A i \in Indexes : Unstored(i)' =>
                Unstored(i) /\ file'["client"][i] = file["client"][i]
      PROVE  StoredOnce'
  BY <1>1 DEF StoredOnce
<1>2. CASE InitWorks
  BY <1>0, <1>1, <1>2, InitFacts DEF Unstored, clientVars
<1>3. CASE ClientStart
  BY <1>0, <1>1, <1>3 DEF ClientStart, ClientGoto, Unstored
<1>4. CASE \/ ClientRequest \/ ClientPush \/ ClientPoll
           \/ ClientReported \/ ReportTimesOut
  BY <1>1, <1>4
     DEF ClientRequest, ClientPush, ClientPoll, ClientReported, ReportTimesOut,
         ClientGoto, Unstored
<1>5. CASE ClientGather \/ ClientGatherFails
  BY <1>0, <1>1, <1>5, GatherFacts DEF Concludes, Unstored
<1>6. CASE ClientStore \/ ClientFlush \/ ClientStoreFails
  BY <1>0, <1>1, <1>6, StoreFacts DEF Stores, Unstored
<1>7. CASE ClientStops \/ ClientThrows
  BY <1>0, <1>1, <1>7, LeaveFacts DEF Leaves, Unstored
<1>8. CASE Generate \/ GenerateCut \/ GenerateFails
  BY <1>0, <1>1, <1>8, GenerateFacts DEF Popped, Unstored, clientVars
<1>9. ASSUME NEW i \in Indexes, Move(i) \/ MoveFails(i) PROVE StoredOnce'
  BY <1>0, <1>1, <1>9, MoveFacts DEF Unstored, clientVars
<1>10. ASSUME NEW i \in Indexes, Report(i) PROVE StoredOnce'
  <2>1. UNCHANGED <<cpc, round>>
    BY <1>0, <1>10, ReportFacts DEF clientVars
  <2>2. \A n \in Names : file'["client"][n] = file["client"][n]
    BY <1>0, <1>10, ReportFacts
  <2> QED
    BY <1>0, <1>1, <2>1, <2>2 DEF Unstored
<1>11. CASE ServerStops \/ (\E i \in Indexes : HandlerFails(i)) \/ UNCHANGED vars
  BY <1>1, <1>11 DEF ServerStops, HandlerFails, vars, clientVars, Unstored
<1> QED
  BY <1>2, <1>3, <1>4, <1>5, <1>6, <1>7, <1>8, <1>9, <1>10, <1>11, StepKinds

LEMMA StoredOnceInvariance == Spec => []IndInv /\ []StoredOnce
<1>1. Init => StoredOnce
  BY Numbers DEF Init, StoredOnce
<1> QED
  BY <1>1, StoredOnceStep, Invariance, PTL DEF Spec

\* A step of init.cc renews the stock.
LEMMA InitStock ==
  ASSUME TypeOK, InitWorks
  PROVE  [Promise!Next]_(Promise!stockVars)
<1>0. 0 \in Names /\ 0 \notin Indexes /\ Indexes \subseteq Names
      /\ Sources = {"server", "client"} /\ NONE # VALID
      /\ \A n \in Names : n \in Indexes \/ n = 0
  BY Numbers DEF NONE, VALID
<1>1. CASE InitStart
  <2>1. ipc = "off" /\ ipc' = "open" /\ UNCHANGED <<status, file>>
    BY <1>1 DEF InitStart, InitGoto, redisVars
  <2>2. Stock' = Stock
    BY <2>1 DEF Stock, Held
  <2>3. (ipc # "off") = FALSE /\ (ipc' # "off") = TRUE
    BY <2>1
  <2>4. Promise!Begin
    BY <2>2, <2>3 DEF Promise!Begin
  <2> QED
    BY <2>4 DEF Promise!Next
<1>2. CASE InitForget
  <2>1. ipc = "forget" /\ status' = [n \in Names |-> NONE]
    BY <1>2 DEF InitForget, InitGoto
  <2>2. Stock' = {}
    BY <1>0, <2>1 DEF Stock, Held
  <2>3. ipc # "off" /\ (ipc # "off")' \in BOOLEAN
    BY <2>1
  <2>4. Promise!Renew
    BY <2>2, <2>3 DEF Promise!Renew
  <2> QED
    BY <2>4 DEF Promise!Next
<1>3. CASE ~InitStart /\ ~InitForget
  <2>1. /\ ipc # "off"
        /\ status' = status \/ status' = [status EXCEPT ![0] = VALID]
    BY <1>3
       DEF InitWorks, Initialise, InitOpen, InitWrite, InitCopy, InitFill,
           InitList, InitTimes, InitCall, InitFails, InitStops, InitGoto,
           redisVars
  <2>2. ASSUME NEW i \in Indexes PROVE Held(i)' <=> Held(i)
    <3>1. status'[i] = status[i] /\ i \in Names
      BY <1>0, <2>1 DEF TypeOK
    <3>2. \A s \in Sources : file'[s][i] = file[s][i]
      BY InitFiles
    <3> QED
      BY <3>1, <3>2 DEF Held
  <2>3. \A n \in Names : n # 0 => (n \in Stock' <=> n \in Stock)
    BY <1>0, <2>2 DEF Stock
  <2>4. Stock \subseteq Names /\ Stock' \subseteq Names
    BY DEF Stock
  <2>5. Stock' = Stock \/ Stock' = Stock \cup {0} \/ Stock' = Stock \ {0}
    <3>1. CASE 0 \in Stock'
      <4>1. Stock' = Stock \cup {0}
        BY <1>0, <2>3, <2>4, <3>1
      <4> QED
        BY <4>1
    <3>2. CASE 0 \notin Stock'
      <4>1. Stock' = Stock \ {0}
        BY <1>0, <2>3, <2>4, <3>2
      <4> QED
        BY <4>1
    <3> QED
      BY <3>1, <3>2
  <2>6. (ipc # "off")' \in BOOLEAN
    OBVIOUS
  <2>7. Promise!Renew
    BY <2>1, <2>5, <2>6 DEF Promise!Renew
  <2> QED
    BY <2>7 DEF Promise!Next
<1> QED
  BY <1>1, <1>2, <1>3

\* An index comes to be held by both sides, in any order.
LEMMA StockAdds ==
  ASSUME UNCHANGED ipc, ipc = "off", NEW i \in Indexes, ~Held(i),
         \A n \in Names \ {i} : status'[n] = status[n]
                /\ \A s \in Sources : file'[s][n] = file[s][n]
  PROVE  [Promise!Next]_(Promise!stockVars)
<1>0. i \in Names /\ i # 0
  BY Numbers
<1>1. \A n \in Names \ {i} : Held(n)' <=> Held(n)
  BY DEF Held
<1>2. UNCHANGED (ipc # "off") /\ ~(ipc # "off")
  OBVIOUS
<1>3. CASE Held(i)'
  <2>1. Stock' = Stock \cup {i} /\ i \notin Stock
    BY <1>0, <1>1, <1>3 DEF Stock
  <2>2. Promise!Add(i)
    BY <1>0, <1>2, <2>1 DEF Promise!Add
  <2> QED
    BY <1>0, <2>2 DEF Promise!Next
<1>4. CASE ~Held(i)'
  <2>1. Stock' = Stock
    BY <1>0, <1>1, <1>4 DEF Stock
  <2> QED
    BY <1>2, <2>1 DEF Promise!stockVars
<1> QED
  BY <1>3, <1>4

\* Every step of init.cc renews the stock; every other one adds a round to it,
\* or leaves it as it is.
LEMMA StockStep ==
  IndInv /\ StoredOnce /\ [Next]_vars => [Promise!Next]_(Promise!stockVars)
<1> SUFFICES ASSUME IndInv, StoredOnce, [Next]_vars
             PROVE  [Promise!Next]_(Promise!stockVars)
  OBVIOUS
<1>0. TypeOK /\ Alone /\ Verdicts /\ round \in Nat
  BY Numbers DEF IndInv, TypeOK
<1>a. NONE # VALID /\ VALID # INVALID
  BY DEF NONE, VALID, INVALID
<1>1. ASSUME Stock' = Stock, UNCHANGED ipc
      PROVE  [Promise!Next]_(Promise!stockVars)
  BY <1>1 DEF Promise!stockVars
<1>2. ASSUME UNCHANGED <<status, file, ipc>>
      PROVE  [Promise!Next]_(Promise!stockVars)
  <2>1. Stock' = Stock
    BY <1>2 DEF Stock, Held
  <2> QED
    BY <1>1, <1>2, <2>1
\* An index that is not held either way.
<1>3. ASSUME NEW i \in Indexes, ~Held(i), ~Held(i)', UNCHANGED ipc,
             \A n \in Names \ {i} : status'[n] = status[n]
                /\ \A s \in Sources : file'[s][n] = file[s][n]
      PROVE  [Promise!Next]_(Promise!stockVars)
  <2>1. \A n \in Names : Held(n)' <=> Held(n)
    <3>1. ASSUME NEW n \in Names, n # i PROVE Held(n)' <=> Held(n)
      BY <1>3, <3>1 DEF Held
    <3> QED
      BY <1>3, <3>1
  <2> QED
    BY <1>1, <1>3, <2>1 DEF Stock
<1>4. CASE InitWorks
  BY <1>0, <1>4, InitStock
<1>5. CASE ClientStore \/ ClientFlush \/ ClientStoreFails
  <2>1. /\ cpc \in {"store", "flush"} /\ round \in Indexes
        /\ UNCHANGED <<status, ipc, round>>
        /\ \A s \in Sources, n \in Names :
                n # round => file'[s][n] = file[s][n]
        /\ file'["server"][round] = file["server"][round]
    BY <1>0, <1>5, StoreFacts, Numbers DEF Stores, redisVars, initVars
  <2>2. ipc = "off"
    BY <1>0, <2>1 DEF Alone
  <2>3. CASE Held(round)
    <3>1. cpc = "flush"
      BY <2>1, <2>3, Numbers DEF Held, StoredOnce, Unstored
    <3>2. ClientFlush
      BY <1>5, <3>1 DEF ClientStore, ClientStoreFails, ClientGoto
    <3>3. file'["client"][round] = "whole"
      BY <1>0, <2>1, <3>2, Numbers DEF ClientFlush, TypeOK
    <3>4. Held(round)'
      BY <2>1, <2>3, <3>3, Numbers DEF Held
    <3>5. \A n \in Names : Held(n)' <=> Held(n)
      BY <2>1, <2>3, <3>4 DEF Held
    <3> QED
      BY <1>1, <2>1, <3>5 DEF Stock
  <2>4. CASE ~Held(round)
    BY <2>1, <2>2, <2>4, StockAdds
  <2> QED
    BY <2>3, <2>4
<1>6. CASE \/ ClientStart \/ ClientRequest \/ ClientPush \/ ClientPoll
           \/ ServerStops \/ UNCHANGED vars
  BY <1>2, <1>6
     DEF ClientStart, ClientRequest, ClientPush, ClientPoll, ClientGoto,
         ServerStops, redisVars, boundVars, initVars, vars
<1>7. CASE \/ ClientGather \/ ClientGatherFails
           \/ ClientReported \/ ReportTimesOut
  BY <1>0, <1>2, <1>7, GatherFacts, AnswerFacts
     DEF Concludes, Answered, redisVars, initVars
<1>8. CASE ClientStops \/ ClientThrows
  BY <1>0, <1>2, <1>8, LeaveFacts DEF Leaves, redisVars, initVars
<1>9. ASSUME NEW i \in Indexes, HandlerFails(i)
      PROVE  [Promise!Next]_(Promise!stockVars)
  BY <1>0, <1>2, <1>9, FailFacts DEF Fails, redisVars, initVars
<1>10. CASE Generate \/ GenerateCut \/ GenerateFails
  BY <1>0, <1>2, <1>10, GenerateFacts DEF Popped, initVars
\* A handler that still moves a file belongs to a round without a verdict, or
\* with the verdict INVALID.
<1>11. ASSUME NEW i \in Indexes, Move(i) \/ MoveFails(i)
       PROVE  [Promise!Next]_(Promise!stockVars)
  <2>1. /\ mover[i] \in {"copy", "flush", "mark"}
        /\ status'[i] = status[i] \/ status'[i] = INVALID
        /\ \A n \in Names \ {i} : status'[n] = status[n]
        /\ \A r \in Sources, n \in Names :
                r = "client" \/ n # i => file'[r][n] = file[r][n]
        /\ UNCHANGED ipc
    BY <1>0, <1>11, MoveFacts DEF initVars
  <2>2. status[i] # VALID /\ status'[i] # VALID
    BY <1>0, <1>a, <2>1 DEF Verdicts, VerdictOf
  <2> QED
    BY <1>3, <2>1, <2>2 DEF Held
\* The report, which may come after later rounds, makes its index held if the
\* client has stored its file by then.
<1>12. ASSUME NEW i \in Indexes, Report(i)
       PROVE  [Promise!Next]_(Promise!stockVars)
  <2>1. /\ \A n \in Names \ {i} : status'[n] = status[n]
        /\ \A r \in Sources, n \in Names :
                r = "client" \/ n # i => file'[r][n] = file[r][n]
        /\ \/ rep[i] = "mark" /\ status'[i] = verdict[i] /\ file' = file
           \/ rep[i] = "remove" /\ status' = status
        /\ UNCHANGED ipc
    BY <1>0, <1>12, ReportFacts DEF boundVars, initVars
  <2>2. /\ status[i] = VALID => verdict[i] = VALID
        /\ rep[i] = "remove" => verdict[i] = INVALID
        /\ ipc = "off"
    BY <1>0, <2>1 DEF Verdicts, VerdictOf, Alone
  <2>3. CASE Held(i)
    <3>1. status[i] = VALID /\ UNCHANGED <<status[i], file>>
      BY <1>a, <2>1, <2>2, <2>3 DEF Held
    <3>2. \A n \in Names : Held(n)' <=> Held(n)
      BY <2>1, <3>1 DEF Held
    <3> QED
      BY <1>1, <2>1, <3>2 DEF Stock
  <2>4. CASE ~Held(i)
    BY <2>1, <2>2, <2>4, StockAdds
  <2> QED
    BY <2>3, <2>4
<1> QED
  BY <1>4, <1>5, <1>6, <1>7, <1>8, <1>9, <1>10, <1>11, <1>12, StepKinds

\* Whatever stops, fails or comes late, what both sides hold is only added to,
\* a secret at a time, and only init.cc, which touches no other file than its
\* own, begins anew.
THEOREM RoundsImplementKeyStock == Spec => ImplementsKeyStock
<1>1. Init => Promise!Init
  <2>1. ASSUME Init PROVE Stock = {} /\ (ipc # "off") = FALSE
    BY <2>1, Numbers DEF Init, Stock, Held, NONE, VALID
  <2> QED
    BY <2>1 DEF Promise!Init
<1> QED
  BY <1>1, StockStep, StoredOnceInvariance, PTL
     DEF ImplementsKeyStock, Promise!Spec, Spec

-----------------------------------------------------------------------------
(* What EveryRoundDelivers rests on. Where nothing has failed, and both    *)
(* directories are listed alike, the two messages of a round are answered  *)
(* from the same stock, so that the round ends with one more secret in it, *)
(* from which the next is answered. What this leaves to TLC is that every  *)
(* step that can be taken is taken some day.                               *)

Undisturbed == faults = 0 /\ sameOrder

Sending == {"push", "poll"}

Over(i) == i < round \/ (i = round /\ cpc = "idle")

\* init.cc has left a first secret, or is making it, and nothing else is
\* damaged. Of the rounds that are over no handler is left.
Quiet ==
    /\ damaged \subseteq {0} /\ (ipc \notin FilePcs => damaged = {})
    /\ ipc \in {"copy", "fill"} => file["server"][0] = "whole"
    /\ inits > 0 /\ ipc = "off" => status[0] = VALID
    /\ inits = 0 => cpc = "idle"
    /\ \A i \in Indexes : Over(i) => mover[i] = "done" /\ rep[i] = "replied"

\* The list holds the messages of the present round that are not answered.
Messages ==
    /\ queue # <<>> => cpc \in Sending
    /\ \A k \in 1 .. Len(queue) : \E s \in Sources : queue[k] = <<s, round>>
    /\ cpc \in Sending => \A s \in Sources :
            \/ Unsent(s, round)
            \/ key[s][round] # NoKey
            \/ \E k \in 1 .. Len(queue) : queue[k] = <<s, round>>

\* Both sides list all VALID names, and draw the same files from them.
Matching ==
    /\ cpc \in Sending =>
        /\ \A s \in Sources : key[s][round] # NoKey =>
                /\ key[s][round].names = {n \in Names : status[n] = VALID}
                /\ key[s][round].order = 1
        /\ (\A s \in Sources : key[s][round] # NoKey) => KeysEqual(round)
    /\ cpc = "transfer" => KeysEqual(round)

\* The round goes from the move to a VALID status.
Course ==
    /\ cpc = "transfer" =>
        /\ mover[round] \in {"copy", "flush", "mark", "done"}
        /\ mover[round] # "done" => status[round] = NONE
    /\ cpc \in Storing =>
        /\ mover[round] = "done" /\ verdict[round] = VALID
        /\ rep[round] \in {"mark", "replied"}
        /\ rep[round] = "replied" => status[round] = VALID
    /\ cpc \in {"store", "flush"} => rep[round] = "replied"

Smooth == Quiet /\ Messages /\ Matching /\ Course

FaultFree == Undisturbed => Smooth

\* Which handlers are at work, and what they find.
LEMMA AtWork ==
  ASSUME IndInv, Smooth, NEW i \in Indexes
  PROVE  /\ mover[i] \in {"copy", "flush", "mark"} =>
                i = round /\ cpc = "transfer"
         /\ mover[i] # "lost"
         /\ rep[i] \notin {"none", "replied"} =>
                i = round /\ cpc = "reporting" /\ rep[i] = "mark"
<1>1. TypeOK /\ VerdictOf(i) /\ Quiet /\ Course
  BY DEF IndInv, Verdicts, Smooth
<1>2. i \in Nat /\ round \in Nat
  BY <1>1, Numbers DEF TypeOK
<1>3. CASE Over(i)
  BY <1>1, <1>3 DEF Quiet
<1>4. CASE Untouched(i)
  BY <1>1, <1>4 DEF VerdictOf
<1>5. CASE i = round /\ cpc = "transfer"
  BY <1>1, <1>5 DEF VerdictOf, Course
<1>6. CASE i = round /\ cpc \in Storing
  BY <1>1, <1>6 DEF Course, Storing
<1>7. i < round \/ i = round \/ i > round
  BY <1>2
<1>8. cpc \in {"idle", "request", "push", "poll", "transfer"} \cup Storing
  BY <1>1 DEF TypeOK, Storing
<1> QED
  BY <1>3, <1>4, <1>5, <1>6, <1>7, <1>8 DEF Over, Untouched

\* The steps that are not faults. No call is lost, so the client throws none.
SoundStep ==
    \/ InitStart \/ Initialise
    \/ ClientStart \/ ClientRequest \/ ClientPush \/ ClientPoll
    \/ ClientGather \/ ClientReported \/ ClientStore \/ ClientFlush
    \/ Generate
    \/ \E i \in Indexes : Move(i)
    \/ \E i \in Indexes : Report(i)
    \/ UNCHANGED vars

LEMMA SoundSteps ==
  ASSUME IndInv, FaultFree, [Next]_vars, Undisturbed'
  PROVE  Undisturbed /\ Smooth /\ SoundStep
<1>0. TypeOK /\ faults \in Nat
  BY Numbers DEF IndInv, TypeOK
<1>1. ~Fault
  BY <1>0 DEF Fault, Undisturbed
<1>2. SoundStep \/ ClientThrows
  BY <1>1, StepKinds
     DEF SoundStep, InitWorks, InitFails, InitStops, ClientGatherFails,
         ReportTimesOut, ClientStoreFails, ClientStops, GenerateCut,
         GenerateFails, MoveFails, HandlerFails, ServerStops
<1>3. UNCHANGED <<faults, sameOrder>>
  <2>1. CASE InitStart \/ Initialise
    BY <2>1, Zenon
       DEF InitStart, Initialise, InitOpen, InitWrite, InitCopy, InitFill,
           InitList, InitTimes, InitForget, InitCall, InitGoto
  <2>2. CASE \/ ClientStart \/ ClientRequest \/ ClientPush \/ ClientPoll
             \/ ClientGather \/ ClientReported \/ ClientStore \/ ClientFlush
    BY <2>2, Zenon
       DEF ClientStart, ClientRequest, ClientPush, ClientPoll, ClientGather,
           ClientReported, ClientStore, ClientFlush, Gather, ClientGoto,
           boundVars
  <2>3. CASE Generate \/ ClientThrows
    BY <2>3 DEF Generate, PopMessage, ClientThrows, ClientGoto, boundVars
  <2>4. ASSUME NEW i \in Indexes, Move(i) \/ Report(i)
        PROVE  UNCHANGED <<faults, sameOrder>>
    BY <2>4, Zenon DEF Move, MoveCopy, MoveFlush, MoveMark, MoverGoto, Report,
                ReportMark, ReportRemove, ReportGoto, boundVars
  <2>5. CASE UNCHANGED vars
    BY <2>5 DEF vars, boundVars
  <2> QED
    BY <1>2, <2>1, <2>2, <2>3, <2>4, <2>5 DEF SoundStep
<1>4. Undisturbed /\ Smooth
  BY <1>3 DEF Undisturbed, FaultFree
<1>5. ~ClientThrows
  <2>1. Course
    BY <1>4 DEF Smooth
  <2> QED
    BY <2>1 DEF ClientThrows, Course, Storing
<1> QED
  BY <1>2, <1>4, <1>5

\* A round that is over stays so while another one goes on.
LEMMA StillQuiet ==
  ASSUME IndInv, Quiet, UNCHANGED <<damaged, initVars, status, round>>,
         cpc # "idle", cpc' # "idle",
         \A i \in Indexes : i # round => mover'[i] = mover[i] /\ rep'[i] = rep[i]
  PROVE  Quiet'
<1>1. \A i \in Indexes : Over(i)' => Over(i) /\ i # round
  BY Numbers DEF Over, IndInv, TypeOK
<1>2. ipc = "off"
  BY DEF IndInv, Alone
<1> QED
  BY <1>1, <1>2 DEF Quiet, initVars

\* While a round is under way, every VALID name has its whole file at the
\* server.
LEMMA ServerWhole ==
  ASSUME IndInv, Quiet, cpc # "idle", NEW n \in Names, status[n] = VALID
  PROVE  file["server"][n] = "whole"
<1>1. n \notin damaged
  BY DEF Quiet, FilePcs, IndInv, Alone
<1>2. CASE n = 0
  BY <1>1, <1>2, Numbers DEF IndInv, StoredFiles, FirstFiles
<1>3. CASE n \in Indexes
  BY <1>1, <1>3 DEF IndInv, StoredFiles, ServerFileOf, ToBeValid
<1> QED
  BY <1>2, <1>3, Numbers

\* Both sides have it when a list is made.
LEMMA ListedAll ==
  ASSUME IndInv, Quiet, cpc \in Sending, NEW s \in Sources
  PROVE  /\ Listed(s) = {n \in Names : status[n] = VALID}
         /\ \A n \in Listed(s) : file[s][n] = "whole"
         /\ 0 \in Listed(s)
<1>0. ipc = "off" /\ damaged = {} /\ cpc # "idle" /\ cpc \notin Storing
  BY DEF Quiet, FilePcs, IndInv, Alone, Sending, Storing
<1>1. ASSUME NEW n \in Names, status[n] = VALID
      PROVE  file[s][n] = "whole"
  <2>1. CASE n = 0
    BY <1>0, <1>1, <2>1 DEF IndInv, StoredFiles, FirstFiles
  <2>2. CASE n \in Indexes
    <3>1. ClientFileOf(n) /\ ToBeValid(n)
      BY <1>0, <1>1, <2>2 DEF IndInv, StoredFiles, ToBeValid
    <3>2. file["client"][n] = "whole"
      BY <1>0, <3>1 DEF ClientFileOf
    <3> QED
      BY <1>0, <1>1, <3>2, ServerWhole, Numbers
  <2> QED
    BY <2>1, <2>2, Numbers
<1>2. status[0] = VALID
  BY <1>0 DEF Quiet, Sending, IndInv, TypeOK
<1> QED
  BY <1>1, <1>2, Numbers DEF Listed

\* A running file made from the stock is the other side's, if that has one.
LEMMA SameKey ==
  ASSUME IndInv, Quiet, Matching, cpc \in Sending, round \in Indexes,
         NEW s \in Sources, NEW d \in Drawn(s, round, Listed(s), 1),
         key[Other(s)][round] # NoKey
  PROVE  Derived(s, Listed(s), 1, d) = key[Other(s)][round]
<1> DEFINE r == Other(s)
           o == key[r][round]
<1>1. r \in Sources /\ o \in Keys
  BY DEF Other, Sources, IndInv, TypeOK
<1>2. o.names = Listed(s) /\ o.order = 1
  <2>1. Listed(s) = {n \in Names : status[n] = VALID}
    BY ListedAll
  <2> QED
    BY <1>1, <2>1 DEF Matching
<1>3. d = {f[1] : f \in o.files} /\ d \subseteq Listed(s)
  BY <1>2 DEF Drawn
<1>4. ASSUME NEW f \in o.files PROVE f = <<f[1], "whole">> /\ f[1] \in d
  <2>1. f[1] \in Names /\ f = <<f[1], f[2]>>
    BY <1>1 DEF Keys
  <2>2. status[f[1]] = VALID /\ file[r][f[1]] = f[2]
    BY <1>1 DEF IndInv, Ingredients, Live, Sending
  <2>3. f[1] \in Listed(r)
    BY <1>1, <2>1, <2>2, ListedAll
  <2>4. f[2] = "whole"
    BY <1>1, <2>2, <2>3, ListedAll
  <2> QED
    BY <1>3, <2>1, <2>4
<1>5. \A n \in d : file[s][n] = "whole"
  BY <1>3, ListedAll
<1>6. {<<n, file[s][n]>> : n \in d} = o.files
  <2>1. ASSUME NEW n \in d PROVE <<n, file[s][n]>> \in o.files
    <3>1. PICK f \in o.files : n = f[1]
      BY <1>3
    <3> QED
      BY <1>4, <1>5, <3>1
  <2>2. ASSUME NEW f \in o.files PROVE f \in {<<n, file[s][n]>> : n \in d}
    BY <1>4, <1>5
  <2> QED
    BY <2>1, <2>2
<1>7. o = [names |-> o.names, order |-> o.order, files |-> o.files]
  BY <1>1 DEF Keys
<1> HIDE DEF o
<1>8. Derived(s, Listed(s), 1, d) = o
  BY <1>2, <1>6, <1>7 DEF Derived
<1> QED
  BY <1>8 DEF o

\* The generator answers the oldest message, one of the present round.
LEMMA GenerateSmooth ==
  ASSUME IndInv, Smooth, sameOrder, Generate
  PROVE  Smooth'
<1>1. /\ PopMessage /\ queue \in Seq(Sources \X Indexes) /\ queue # <<>>
      /\ cpc \in Sending /\ cpc # "idle" /\ round \in Indexes
  BY DEF Generate, PopMessage, IndInv, TypeOK, Smooth, Messages, Sending
<1>2. /\ Len(queue) \in Nat /\ 1 \in 1 .. Len(queue)
      /\ queue' = Tail(queue) /\ Len(queue') = Len(queue) - 1
      /\ \A k \in 1 .. Len(queue') :
            k + 1 \in 1 .. Len(queue) /\ queue'[k] = queue[k + 1]
      /\ \A k \in 1 .. Len(queue) :
            k # 1 => k - 1 \in 1 .. Len(queue') /\ queue'[k - 1] = queue[k]
      /\ Head(queue) = queue[1]
  BY <1>1 DEF PopMessage
<1>3. PICK s \in Sources : queue[1] = <<s, round>>
  BY <1>2 DEF Smooth, Messages
<1>4. Head(queue)[1] = s /\ Head(queue)[2] = round
  BY <1>2, <1>3
<1>5. UNCHANGED <<status, file, cpc, round, verdict, mover, rep, damaged, ipc,
                  inits>>
  BY <1>1 DEF PopMessage, clientVars, serverVars, initVars
<1>6. /\ Listed(s) # {}
      /\ Listed(s) = {n \in Names : status[n] = VALID}
  <2>1. Quiet
    BY DEF Smooth
  <2> QED
    BY <1>1, <2>1, ListedAll
<1>7. Publish(Listed(s), 1)
  BY <1>4, <1>6 DEF Generate, Orders
<1>8. PICK d \in Drawn(s, round, Listed(s), 1) :
        key' = [key EXCEPT ![s][round] = Derived(s, Listed(s), 1, d)]
  BY <1>4, <1>7 DEF Publish
<1> DEFINE k == Derived(s, Listed(s), 1, d)
<1>9. k.names = Listed(s) /\ k.order = 1 /\ k # NoKey
  BY <1>6 DEF Derived, NoKey
<1>10. Other(s) # s /\ Sources = {s, Other(s)}
  BY DEF Other, Sources
<1>11. /\ key'[s][round] = k
       /\ key'[Other(s)][round] = key[Other(s)][round]
  <2> HIDE DEF k
  <2>1. key' = [key EXCEPT ![s][round] = k]
    BY <1>8 DEF k
  <2> QED
    BY <1>1, <1>10, <2>1 DEF IndInv, TypeOK
<1>12. key[Other(s)][round] # NoKey => k = key[Other(s)][round]
  BY <1>1, <1>8, SameKey DEF Smooth
<1> HIDE DEF k
<1>13. Quiet' /\ Course'
  BY <1>5 DEF Smooth, Quiet, Course, Over, Storing
<1>14. Messages'
  <2>1. queue' # <<>> => cpc' \in Sending
    BY <1>1, <1>5
  <2>2. \A j \in 1 .. Len(queue') : \E r \in Sources : queue'[j] = <<r, round>>
    BY <1>2 DEF Smooth, Messages
  <2>3. ASSUME NEW r \in Sources
        PROVE  \/ Unsent(r, round)
               \/ key'[r][round] # NoKey
               \/ \E j \in 1 .. Len(queue') : queue'[j] = <<r, round>>
    <3>1. CASE r = s
      BY <1>9, <1>11, <3>1
    <3>2. CASE r # s
      <4>1. key'[r][round] = key[r][round]
        BY <1>10, <1>11, <3>2
      <4>2. ASSUME NEW j \in 1 .. Len(queue), queue[j] = <<r, round>>
            PROVE  \E l \in 1 .. Len(queue') : queue'[l] = <<r, round>>
        <5>1. j # 1
          BY <1>3, <3>2, <4>2
        <5>2. j - 1 \in 1 .. Len(queue') /\ queue'[j - 1] = <<r, round>>
          BY <1>2, <4>2, <5>1
        <5> QED
          BY <5>2
      <4>3. \/ Unsent(r, round)
            \/ key[r][round] # NoKey
            \/ \E j \in 1 .. Len(queue) : queue[j] = <<r, round>>
        BY <1>1 DEF Smooth, Messages
      <4> QED
        BY <4>1, <4>2, <4>3
    <3> QED
      BY <3>1, <3>2
  <2> QED
    BY <1>5, <2>1, <2>2, <2>3 DEF Messages, Unsent
<1>15. Matching'
  <2>1. ASSUME NEW r \in Sources, key'[r][round] # NoKey
        PROVE  /\ key'[r][round].names = {n \in Names : status[n] = VALID}
               /\ key'[r][round].order = 1
    <3>1. CASE r = s
      BY <1>6, <1>9, <1>11, <3>1
    <3>2. CASE r # s
      BY <1>1, <1>10, <1>11, <2>1, <3>2 DEF Smooth, Matching
    <3> QED
      BY <3>1, <3>2
  <2>2. (\A r \in Sources : key'[r][round] # NoKey) =>
            key'["server"][round] = key'["client"][round]
    BY <1>10, <1>11, <1>12, Numbers
  <2>3. cpc # "transfer"
    BY <1>1 DEF Sending
  <2> QED
    BY <1>5, <2>1, <2>2, <2>3 DEF Matching, KeysEqual
<1> QED
  BY <1>13, <1>14, <1>15 DEF Smooth

\* The client puts a message of its round at the end of the list.
LEMMA MessageSent ==
  ASSUME IndInv, Quiet, Messages, cpc # "idle", NEW s \in Sources,
         round \in Indexes, queue' = Append(queue, <<s, round>>),
         cpc' \in Sending, cpc \in {"request"} \cup Sending,
         UNCHANGED <<key, status, round, mover, rep, damaged, initVars>>,
         \A r \in Sources \ {s} : Unsent(r, round) => Unsent(r, round)'
  PROVE  Quiet' /\ Messages'
<1>1. Quiet'
  BY StillQuiet DEF Sending
<1>2. /\ Len(queue) \in Nat /\ Len(queue') = Len(queue) + 1
      /\ queue'[Len(queue')] = <<s, round>> /\ Len(queue') \in 1 .. Len(queue')
      /\ \A k \in 1 .. Len(queue') :
            k = Len(queue') \/ (k \in 1 .. Len(queue) /\ queue'[k] = queue[k])
      /\ \A k \in 1 .. Len(queue) :
            k \in 1 .. Len(queue') /\ queue'[k] = queue[k]
  BY DEF IndInv, TypeOK
<1>3. ASSUME NEW k \in 1 .. Len(queue')
      PROVE  \E r \in Sources : queue'[k] = <<r, round>>
  BY <1>2 DEF Messages
<1>4. ASSUME NEW r \in Sources, r # s, ~Unsent(r, round)'
      PROVE  \/ key[r][round] # NoKey
             \/ \E k \in 1 .. Len(queue') : queue'[k] = <<r, round>>
  <2>1. ~Unsent(r, round) /\ cpc \in Sending
    BY <1>4 DEF Unsent
  <2>2. CASE \E k \in 1 .. Len(queue) : queue[k] = <<r, round>>
    BY <1>2, <2>2
  <2> QED
    BY <2>1, <2>2 DEF Messages
<1>5. ASSUME NEW r \in Sources
      PROVE  \/ Unsent(r, round)'
             \/ key[r][round] # NoKey
             \/ \E k \in 1 .. Len(queue') : queue'[k] = <<r, round>>
  BY <1>2, <1>4
<1> QED
  BY <1>1, <1>3, <1>5 DEF Messages

\* Up to the poll: init.cc, the beginning of a round, and its two messages.
LEMMA RequestSmooth ==
  ASSUME IndInv, Smooth,
         InitStart \/ Initialise \/ ClientStart \/ ClientRequest \/ ClientPush
  PROVE  Smooth'
<1>0. /\ TypeOK /\ Alone /\ Queued /\ StoredFiles /\ round \in Nat
      /\ \A i \in Indexes : i \in Nat
      /\ Quiet /\ Messages /\ Matching /\ Course
  BY Numbers DEF IndInv, TypeOK, Smooth
<1>1. CASE InitStart \/ Initialise
  <2>1. /\ cpc = "idle" /\ UNCHANGED <<cpc, round>>
        /\ queue' = queue \/ queue' = <<>>
    BY <1>0, <1>1, InitFacts DEF InitWorks, clientVars
  <2>2. \A i \in Indexes : Over(i) => mover'[i] = "done" /\ rep'[i] = "replied"
    BY <1>0, <1>1, InitTypes
       DEF Quiet, StopMovers, StopReports, InitWorks, serverVars
  <2>3. queue = <<>>
    BY <1>0, <2>1 DEF Messages, Sending
  <2>4. Messages' /\ Matching' /\ Course'
    BY <2>1, <2>3 DEF Messages, Matching, Course, Sending, Storing
  <2>5. ASSUME damaged' \subseteq {0}, ipc' \notin FilePcs => damaged' = {},
               ipc' \in {"copy", "fill"} => file'["server"][0] = "whole",
               inits' > 0 /\ ipc' = "off" => status'[0] = VALID
        PROVE  Smooth'
    BY <2>1, <2>2, <2>4, <2>5 DEF Smooth, Quiet, Over
  <2>6. CASE InitStart
    BY <1>0, <2>5, <2>6 DEF InitStart, InitGoto, Quiet, FilePcs
  <2>7. CASE InitOpen \/ InitList \/ InitTimes
    BY <1>0, <2>5, <2>7
       DEF InitOpen, InitList, InitTimes, InitGoto, Quiet, FilePcs
  <2>8. CASE InitWrite \/ InitCopy
    <3>1. file'["server"][0] = "whole"
      BY <1>0, <2>8, Numbers DEF InitWrite, InitCopy, InitGoto, Quiet, TypeOK
    <3> QED
      BY <1>0, <2>5, <2>8, <3>1
         DEF InitWrite, InitCopy, InitGoto, Quiet, FilePcs
  <2>9. CASE InitFill
    <3>1. damaged' = {}
      BY <1>0, <2>9 DEF InitFill, InitGoto, Quiet
    <3> QED
      BY <2>5, <2>9, <3>1 DEF InitFill, InitGoto
  <2>10. CASE InitForget \/ InitCall
    <3>1. damaged' = {} /\ ipc' \in {"call", "off"}
      BY <1>0, <2>10 DEF InitForget, InitCall, InitGoto, Quiet, FilePcs
    <3>2. ipc' = "off" => status'[0] = VALID
      BY <1>0, <2>10, Numbers DEF InitForget, InitCall, InitGoto, TypeOK
    <3> QED
      BY <2>5, <3>1, <3>2
  <2> QED
    BY <1>1, <2>6, <2>7, <2>8, <2>9, <2>10 DEF Initialise
<1>2. CASE ClientStart
  <2>1. /\ cpc = "idle" /\ cpc' = "request" /\ round' = round + 1 /\ inits > 0
        /\ UNCHANGED <<queue, status, file, mover, rep, damaged, ipc, inits>>
    BY <1>2 DEF ClientStart, ClientGoto, redisVars, serverVars, boundVars,
                initVars
  <2>2. \A i \in Indexes : Over(i)' => Over(i)
    BY <1>0, <2>1 DEF Over
  <2>3. Quiet'
    BY <1>0, <2>1, <2>2 DEF Quiet, TypeOK
  <2>4. queue = <<>>
    BY <1>0, <2>1 DEF Messages, Sending
  <2>5. Messages' /\ Matching' /\ Course'
    BY <2>1, <2>4 DEF Messages, Matching, Course, Sending, Storing
  <2> QED
    BY <2>3, <2>5 DEF Smooth
<1>3. CASE ClientRequest
  <2>1. /\ cpc = "request" /\ cpc' = "push" /\ round \in Indexes
        /\ queue' = Append(queue, <<"server", round>>)
        /\ UNCHANGED <<key, status, round, mover, rep, damaged, initVars>>
    BY <1>0, <1>3 DEF ClientRequest, ClientGoto, serverVars, boundVars, TypeOK
  <2>2. \A s \in Sources : key[s][round] = NoKey
    BY <1>0, <2>1 DEF Queued, Unsent
  <2>3. Quiet' /\ Messages'
    BY <1>0, <2>1, MessageSent, Numbers DEF Unsent, Sending
  <2>4. Matching' /\ Course'
    BY <2>1, <2>2, Numbers DEF Matching, Course, Sending, Storing
  <2> QED
    BY <2>3, <2>4 DEF Smooth
<1>4. CASE ClientPush
  <2>1. /\ cpc = "push" /\ cpc' = "poll" /\ round \in Indexes
        /\ queue' = Append(queue, <<"client", round>>)
        /\ UNCHANGED <<key, status, round, mover, rep, damaged, initVars>>
    BY <1>0, <1>4 DEF ClientPush, ClientGoto, serverVars, boundVars, TypeOK
  <2>2. Quiet' /\ Messages'
    <3>1. \A r \in Sources \ {"client"} :
              Unsent(r, round) => Unsent(r, round)'
      BY <1>0, <2>1 DEF Unsent
    <3> QED
      BY <1>0, <2>1, <3>1, MessageSent, Numbers DEF Sending
  <2>3. Matching' /\ Course'
    BY <1>0, <2>1 DEF Matching, Course, KeysEqual, Sending, Storing
  <2> QED
    BY <2>2, <2>3 DEF Smooth
<1> QED
  BY <1>1, <1>2, <1>3, <1>4

\* From the poll on: the transfer, the verdict and the client's own file.
LEMMA TransferSmooth ==
  ASSUME IndInv, Smooth,
         \/ ClientPoll \/ ClientGather \/ ClientReported
         \/ ClientStore \/ ClientFlush
  PROVE  Smooth'
<1>0. /\ TypeOK /\ Queued /\ Verdicts
      /\ Quiet /\ Messages /\ Matching /\ Course
  BY DEF IndInv, Smooth
<1>1. CASE ClientPoll
  <2>1. /\ cpc = "poll" /\ cpc' = "transfer" /\ round \in Indexes
        /\ \A s \in Sources : key[s][round] # NoKey
        /\ mover' = [mover EXCEPT ![round] = "copy"]
        /\ UNCHANGED <<queue, key, status, round, rep, damaged, initVars>>
    BY <1>0, <1>1 DEF ClientPoll, ClientGoto, redisVars, boundVars, TypeOK
  <2>2. \A i \in Indexes : i # round => mover'[i] = mover[i]
    BY <1>0, <2>1 DEF TypeOK
  <2>3. mover'[round] = "copy"
    BY <1>0, <2>1 DEF TypeOK
  <2>4. Quiet'
    BY <1>0, <2>1, <2>2, StillQuiet
  <2>5. queue = <<>>
    <3>1. ASSUME NEW k \in 1 .. Len(queue) PROVE FALSE
      BY <1>0, <2>1, <3>1 DEF Messages, Queued
    <3> QED
      BY <1>0, <3>1 DEF TypeOK
  <2>6. status[round] = NONE
    BY <1>0, <2>1 DEF Verdicts, VerdictOf, Untouched
  <2>7. Messages' /\ Course'
    BY <2>1, <2>3, <2>5, <2>6 DEF Messages, Course, Sending, Storing
  <2>8. Matching'
    BY <1>0, <2>1 DEF Matching, KeysEqual, Sending
  <2> QED
    BY <2>4, <2>7, <2>8 DEF Smooth
<1>2. CASE ClientGather
  <2>1. /\ cpc = "transfer" /\ cpc' = "reporting" /\ round \in Indexes
        /\ mover[round] = "done"
        /\ \E v \in Judged(round) : verdict' = [verdict EXCEPT ![round] = v]
        /\ rep' = [rep EXCEPT ![round] = "mark"]
        /\ UNCHANGED <<queue, status, round, mover, damaged, initVars>>
    BY <1>0, <1>2, Zenon
       DEF ClientGather, Gather, ClientGoto, redisVars, boundVars, TypeOK
  <2>2. verdict'[round] = VALID
    <3>1. ASSUME NEW f \in key["server"][round].files PROVE f[2] # "torn"
      <4>1. f[1] \in Names
        BY <1>0, <2>1, Numbers DEF TypeOK, Keys
      <4>2. status[f[1]] = VALID /\ file["server"][f[1]] = f[2]
        BY <2>1, Numbers DEF IndInv, Ingredients, Live
      <4> QED
        BY <1>0, <2>1, <4>1, <4>2, ServerWhole
    <3>2. Judged(round) = {VALID}
      BY <1>0, <2>1, <3>1 DEF Judged, Matching
    <3> QED
      BY <1>0, <2>1, <3>2 DEF TypeOK
  <2>3. /\ rep'[round] = "mark"
        /\ \A i \in Indexes : i # round => rep'[i] = rep[i]
    BY <1>0, <2>1 DEF TypeOK
  <2>4. Quiet'
    BY <1>0, <2>1, <2>3, StillQuiet
  <2>5. Messages' /\ Matching' /\ Course'
    BY <1>0, <2>1, <2>2, <2>3
       DEF Messages, Matching, Course, Sending, Storing
  <2> QED
    BY <2>4, <2>5 DEF Smooth
<1>3. CASE ClientReported
  <2>1. /\ cpc = "reporting"
        /\ cpc' = IF verdict[round] = VALID THEN "store" ELSE "idle"
        /\ rep[round] \in {"replied", "failed"}
        /\ UNCHANGED <<queue, status, round, verdict, mover, rep, damaged,
                       initVars>>
    BY <1>3 DEF ClientReported, AfterReport, ClientGoto, redisVars, serverVars,
                boundVars
  <2>2. cpc' = "store"
    BY <1>0, <2>1 DEF Course, Storing
  <2>3. Quiet'
    BY <1>0, <2>1, <2>2, StillQuiet
  <2>4. Messages' /\ Matching' /\ Course'
    BY <1>0, <2>1, <2>2 DEF Messages, Matching, Course, Sending, Storing
  <2> QED
    BY <2>3, <2>4 DEF Smooth
<1>4. CASE ClientStore \/ ClientFlush
  <2>1. /\ \/ cpc = "store" /\ cpc' = "flush"
           \/ cpc = "flush" /\ cpc' = "idle"
        /\ UNCHANGED <<queue, status, round, verdict, mover, rep, damaged, ipc,
                       inits>>
    BY <1>4 DEF ClientStore, ClientFlush, ClientGoto, redisVars, serverVars,
                boundVars, initVars
  <2>2. mover[round] = "done" /\ rep[round] = "replied"
    BY <1>0, <2>1 DEF Course, Storing
  <2>3. \A i \in Indexes : Over(i)' => Over(i) \/ i = round
    BY <2>1 DEF Over
  <2>a. ipc = "off"
    BY <2>1 DEF IndInv, Alone
  <2>4. Quiet'
    BY <1>0, <2>1, <2>2, <2>3, <2>a DEF Quiet
  <2>5. Messages' /\ Matching' /\ Course'
    BY <1>0, <2>1 DEF Messages, Matching, Course, Sending, Storing
  <2> QED
    BY <2>4, <2>5 DEF Smooth
<1> QED
  BY <1>1, <1>2, <1>3, <1>4

\* The handlers: the move, and the report of a verdict VALID.
LEMMA HandlerSmooth ==
  ASSUME IndInv, Smooth, NEW i \in Indexes, Move(i) \/ Report(i)
  PROVE  Smooth'
<1>0. /\ TypeOK /\ Alone /\ i \in Names /\ 0 \in Names /\ 0 # i
      /\ Quiet /\ Messages /\ Matching /\ Course
  BY Numbers DEF IndInv, Smooth
<1>1. CASE Move(i)
  <2>1. /\ mover[i] \in {"copy", "flush", "mark"}
        /\ \A j \in Indexes \ {i} : mover'[j] = mover[j]
        /\ \A n \in Names \ {i} : status'[n] = status[n]
        /\ UNCHANGED <<queue, key, cpc, round, rep, ipc, inits>>
    BY <1>0, <1>1, MoveFacts DEF clientVars, initVars
  <2>2. i = round /\ cpc = "transfer" /\ ipc = "off"
    BY <1>0, <2>1, AtWork DEF Alone
  <2>3. damaged' = damaged
    BY <1>1 DEF Move, MoveCopy, MoveFlush, MoveMark
  <2>4. /\ mover'[i] \in {"flush", "mark", "done"}
        /\ mover'[i] # "done" => status'[i] = NONE
    BY <1>0, <1>1, <2>1, <2>2
       DEF Move, MoveCopy, MoveFlush, MoveMark, MoverGoto, Course, TypeOK
  <2>5. Quiet'
    BY <1>0, <2>1, <2>2, <2>3 DEF Quiet, Over
  <2>6. Messages' /\ Matching' /\ Course'
    BY <1>0, <2>1, <2>2, <2>4
       DEF Messages, Matching, Course, KeysEqual, Sending, Storing
  <2> QED
    BY <2>5, <2>6 DEF Smooth
<1>2. CASE Report(i)
  <2>1. /\ rep[i] \in {"mark", "remove"}
        /\ \A j \in Indexes \ {i} : rep'[j] = rep[j]
        /\ \A n \in Names \ {i} : status'[n] = status[n]
        /\ rep[i] = "mark" => status'[i] = verdict[i]
        /\ rep[i] = "mark" /\ verdict[i] = VALID => rep'[i] = "replied"
        /\ UNCHANGED <<queue, key, cpc, round, verdict, mover, damaged, ipc,
                       inits>>
    BY <1>0, <1>2, ReportFacts DEF clientVars, boundVars, initVars
  <2>2. i = round /\ cpc = "reporting" /\ rep[i] = "mark" /\ ipc = "off"
    BY <1>0, <2>1, AtWork DEF Alone
  <2>3. mover[i] = "done" /\ verdict[i] = VALID
    BY <1>0, <2>2 DEF Course, Storing
  <2>4. Quiet'
    BY <1>0, <2>1, <2>2 DEF Quiet, Over
  <2>5. Messages' /\ Matching' /\ Course'
    BY <1>0, <2>1, <2>2, <2>3
       DEF Messages, Matching, Course, Sending, Storing
  <2> QED
    BY <2>4, <2>5 DEF Smooth
<1> QED
  BY <1>1, <1>2

LEMMA FaultFreeStep ==
  IndInv /\ FaultFree /\ [Next]_vars => FaultFree'
<1> SUFFICES ASSUME IndInv, FaultFree, [Next]_vars, Undisturbed'
             PROVE  Smooth'
  BY DEF FaultFree
<1>1. Undisturbed /\ Smooth /\ SoundStep
  BY SoundSteps
<1>2. sameOrder
  BY <1>1 DEF Undisturbed
<1>3. CASE UNCHANGED vars
  BY <1>1, <1>3
     DEF vars, redisVars, clientVars, serverVars, boundVars, initVars, Smooth,
         Quiet, Messages, Matching, Course, Over, Unsent, KeysEqual
<1> QED
  BY <1>1, <1>2, <1>3, RequestSmooth, GenerateSmooth, TransferSmooth,
     HandlerSmooth DEF SoundStep

LEMMA FaultFreeInvariance == Spec => []IndInv /\ []FaultFree
<1>1. Init => FaultFree
  BY Numbers DEF Init, FaultFree, Smooth, Quiet, Messages, Matching, Course,
                 Over, Sending, Storing, FilePcs
<1> QED
  BY <1>1, FaultFreeStep, Invariance, PTL DEF Spec

\* Both directories have the whole file of the round that ends.
HandsOver ==
    Undisturbed' /\ cpc # "idle" /\ cpc' = "idle" => Held(round)'

LEMMA HandsOverStep ==
  IndInv /\ FaultFree /\ [Next]_vars => [HandsOver]_vars
<1> SUFFICES ASSUME IndInv, FaultFree, [Next]_vars, Undisturbed',
                    cpc # "idle", cpc' = "idle"
             PROVE  Held(round)'
  BY DEF HandsOver
<1>1. /\ TypeOK /\ Alone /\ Quiet /\ Course /\ SoundStep
      /\ round \in Indexes
  BY SoundSteps DEF IndInv, TypeOK, Smooth
<1>2. ClientFlush
  <2>1. ~ClientReported
    BY <1>1 DEF ClientReported, AfterReport, ClientGoto, Course, Storing
  <2>2. ~Generate
    BY DEF Generate, PopMessage, clientVars
  <2>3. \A i \in Indexes : ~Move(i) /\ ~Report(i)
    BY <1>1, MoveFacts, ReportFacts DEF clientVars
  <2>4. cpc' # cpc /\ ~InitStart /\ ~Initialise
    BY <1>1, InitFacts DEF InitWorks
  <2> QED
    BY <1>1, <2>1, <2>2, <2>3, <2>4
       DEF SoundStep, ClientStart, ClientRequest, ClientPush, ClientPoll,
           ClientGather, Gather, ClientStore, ClientGoto, vars, clientVars
<1>3. /\ cpc = "flush" /\ UNCHANGED <<status, round>>
      /\ file' = [file EXCEPT !["client"][round] = "whole"]
  BY <1>2 DEF ClientFlush, ClientGoto, redisVars
<1>4. status[round] = VALID
  BY <1>1, <1>3 DEF Course, Storing
<1>5. file["server"][round] = "whole"
  BY <1>1, <1>4, ServerWhole, Numbers
<1>6. \A s \in Sources : file'[s][round] = "whole"
  BY <1>1, <1>3, <1>5, Numbers DEF TypeOK
<1> QED
  BY <1>3, <1>4, <1>6 DEF Held

\* As long as nothing has failed and the directories are listed alike, a round
\* does not end but with its secret held by both sides, however many there
\* were before it and however often init.cc was run.
THEOREM FaultFreeRoundDelivers == Spec => [][HandsOver]_vars
  BY HandsOverStep, FaultFreeInvariance, PTL DEF Spec

\* Who can go on: the generator, the client or a handler.
SomebodyCan ==
    \/ queue # <<>>
    \/ cpc \in {"request", "push", "store", "flush"}
    \/ cpc = "poll" /\ \A s \in Sources : key[s][round] # NoKey
    \/ cpc = "transfer" /\ mover[round] = "done"
    \/ cpc = "reporting" /\ rep[round] \in {"replied", "failed"}
    \/ \E i \in Indexes : \/ mover[i] \in {"copy", "flush", "mark"}
                          \/ rep[i] \in {"mark", "remove"}

\* Such a round does not hang either: a client that waits for a running file, a
\* chunk or an answer waits for a message in the list or for a handler.
THEOREM FaultFreeRoundNotStuck ==
  Spec => [](Undisturbed /\ cpc # "idle" => SomebodyCan)
<1>1. ASSUME IndInv, FaultFree, Undisturbed, cpc # "idle"
      PROVE  SomebodyCan
  <2>1. Messages /\ Course /\ TypeOK /\ round \in Indexes
    BY <1>1 DEF FaultFree, Smooth, IndInv, TypeOK
  <2>2. CASE cpc = "poll"
    <3>1. \A s \in Sources : ~Unsent(s, round)
      BY <2>1, <2>2, Numbers DEF Unsent, TypeOK
    <3>2. (\E k \in 1 .. Len(queue) : TRUE) => queue # <<>>
      BY <2>1 DEF TypeOK
    <3> QED
      BY <2>1, <2>2, <3>1, <3>2 DEF Messages, Sending, SomebodyCan
  <2>3. CASE cpc \in {"transfer", "reporting"}
    BY <2>1, <2>3 DEF Course, Storing, SomebodyCan
  <2> QED
    BY <1>1, <2>1, <2>2, <2>3 DEF SomebodyCan, TypeOK
<1>2. IndInv /\ FaultFree => (Undisturbed /\ cpc # "idle" => SomebodyCan)
  BY <1>1
<1> QED
  BY <1>2, FaultFreeInvariance, PTL
=============================================================================
