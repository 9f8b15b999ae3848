------------------------------- MODULE Rounds -------------------------------
(***************************************************************************)
(* One client's rounds, one after another, from the initialisation on: the *)
(* secrets that earlier rounds handed over are what both sides derive the  *)
(* running file of the next one from.                                      *)
(*                                                                         *)
(*  - init.cc makes the first secrets of both sides and resets Redis;      *)
(*  - a round asks for an index and puts the two messages in the list      *)
(*    (gen_secret, ClientApp.cc);                                          *)
(*  - the generator takes a message, lists the VALID secret files of its   *)
(*    side (readFileSize) and derives and publishes the running file: what *)
(*    Derivation does in detail is one step here;                          *)
(*  - the transfer moves the server's file, ends with the client's verdict *)
(*    and its report, and the client stores its own file once the report   *)
(*    has any answer: Transfer has the chunks, here are the steps that     *)
(*    change files and statuses.                                           *)
(*                                                                         *)
(* Any process, init.cc too, may stop between two steps; a call of a       *)
(* handler may fail. Redis and the files stay as they are then. The        *)
(* secret files are seen as a directory per side, and a derivation as the  *)
(* files it read, by which two running files are equal or not.             *)
(***************************************************************************)
EXTENDS Naturals, FiniteSets, Sequences

CONSTANTS
    ROUNDS,   \* bound on the rounds
    INITS,    \* bound on the runs of init.cc
    FILE_NUM, \* the most files a derivation uses (config.h)
    MaxFaults \* bound on the faults of one behaviour

ASSUME RoundsAssumption ==
    /\ ROUNDS \in Nat
    /\ INITS \in Nat
    /\ FILE_NUM \in Nat \ {0}
    /\ MaxFaults \in Nat

Sources == {"server", "client"}
Other(s) == IF s = "server" THEN "client" ELSE "server"

\* A round is known by its index: no two rounds get the same one
\* (SecretIndex). Name 0 is what init.cc makes: two files, treated alike.
Indexes == 1 .. ROUNDS
Names == 0 .. ROUNDS

\* The status of a name in the node's zset; NONE is "not a member".
NONE == 0
VALID == 1
INVALID == 2

\* What a directory holds under a name: nothing, a file that was opened and
\* not (completely) written, or the whole secret. A file of init.cc is whole
\* at the client as long as it is a copy of the server's.
Files == {"none", "torn", "whole"}

\* What a running file depends on: the names listed, their order (1 is the one
\* the server's directory gives), and what was in the files drawn from the
\* list. NoKey: nothing is published.
Keys == [names : SUBSET Names, order : {1, 2},
         files : SUBSET (Names \X {"torn", "whole"})]
NoKey == [names |-> {}, order |-> 1, files |-> {}]

VARIABLES
    \* Redis
    queue,  \* the list of messages, the oldest first
    key,    \* [source][index]: the running file it was published with
    status, \* [name]
    \* files
    file,   \* [source][name]: the secret files
    \* processes
    cpc,     \* the client
    round,   \* its last round
    verdict, \* [index]: the verdict it reports
    mover,   \* [index]: the request whose handler runs move()
    rep,     \* [index]: the handler of the report
    \* do both directories list the same names in the same order?
    sameOrder,
    ipc,     \* init.cc: the step it is at, or "off"
    \* history and bounds
    damaged, \* names of which a fault, or init.cc, has kept a side from its
             \* whole file
    inits,   \* runs of init.cc so far
    faults   \* faults so far

redisVars == <<queue, key, status>>
clientVars == <<cpc, round, verdict>>
serverVars == <<mover, rep>>
initVars == <<ipc, inits>>
boundVars == <<initVars, faults>>
vars == <<redisVars, file, clientVars, serverVars, sameOrder, damaged,
          boundVars>>

FilePcs == {"open", "write", "copy", "fill"}
RedisPcs == {"list", "times", "forget", "call"}

TypeOK ==
    /\ queue \in Seq(Sources \X Indexes)
    /\ key \in [Sources -> [Indexes -> Keys]]
    /\ status \in [Names -> {NONE, VALID, INVALID}]
    /\ file \in [Sources -> [Names -> Files]]
    /\ cpc \in {"idle", "request", "push", "poll", "transfer", "reporting",
                "store", "flush"}
    /\ round \in Names
    /\ cpc # "idle" => round \in Indexes
    /\ verdict \in [Indexes -> {NONE, VALID, INVALID}]
    /\ mover \in [Indexes -> {"none", "copy", "flush", "mark", "done", "lost"}]
    /\ rep \in [Indexes -> {"none", "mark", "remove", "replied", "failed"}]
    /\ sameOrder \in BOOLEAN
    /\ ipc \in {"off"} \cup FilePcs \cup RedisPcs
    /\ damaged \subseteq Names
    /\ inits \in 0 .. INITS
    /\ faults \in 0 .. MaxFaults

Init ==
    /\ queue = <<>>
    /\ key = [s \in Sources |-> [i \in Indexes |-> NoKey]]
    /\ status = [n \in Names |-> NONE]
    /\ file = [s \in Sources |-> [n \in Names |-> "none"]]
    /\ cpc = "idle"
    /\ round = 0
    /\ verdict = [i \in Indexes |-> NONE]
    /\ mover = [i \in Indexes |-> "none"]
    /\ rep = [i \in Indexes |-> "none"]
    /\ sameOrder \in BOOLEAN
    /\ ipc = "off"
    /\ damaged = {}
    /\ inits = 0
    /\ faults = 0

Fault ==
    /\ faults < MaxFaults
    /\ faults' = faults + 1

\* The handlers that a stop of the server ends.
StopMovers == [i \in Indexes |-> IF mover[i] \in {"copy", "flush", "mark"}
                                 THEN "lost" ELSE mover[i]]
StopReports == [i \in Indexes |-> IF rep[i] \in {"mark", "remove"}
                                  THEN "failed" ELSE rep[i]]

-----------------------------------------------------------------------------
(* init.cc, run while nothing else runs. It makes the server's files and   *)
(* copies them to the client, empties the list and the creation times,     *)
(* drops all statuses and calls its own files VALID. Older files stay on   *)
(* disk.                                                                   *)

InitGoto(from, to) ==
    /\ ipc = from
    /\ ipc' = to
    /\ UNCHANGED <<clientVars, sameOrder>>

InitStart ==
    /\ inits < INITS
    /\ cpc = "idle"
    /\ InitGoto("off", "open")
    /\ inits' = inits + 1
    /\ mover' = StopMovers
    /\ rep' = StopReports
    /\ UNCHANGED <<redisVars, file, damaged, faults>>

\* The server's file is opened, which truncates it; the client's, if there is
\* one from an earlier run, is no copy of it any more.
InitOpen ==
    /\ InitGoto("open", "write")
    /\ file' = [file EXCEPT !["server"][0] = "torn",
                            !["client"][0] = IF @ = "none" THEN "none"
                                             ELSE "torn"]
    /\ damaged' = damaged \cup {0}
    /\ UNCHANGED <<redisVars, serverVars, inits, faults>>

InitWrite ==
    /\ InitGoto("write", "copy")
    /\ file' = [file EXCEPT !["server"][0] = "whole"]
    /\ UNCHANGED <<redisVars, serverVars, damaged, inits, faults>>

InitCopy ==
    /\ InitGoto("copy", "fill")
    /\ file' = [file EXCEPT !["client"][0] = "torn"]
    /\ damaged' = damaged \cup {0}
    /\ UNCHANGED <<redisVars, serverVars, inits, faults>>

\* A whole copy of a whole file makes both sides agree again.
InitFill ==
    /\ InitGoto("fill", "list")
    /\ file' = [file EXCEPT !["client"][0] = file["server"][0]]
    /\ damaged' = IF file["server"][0] = "whole" THEN damaged \ {0}
                  ELSE damaged
    /\ UNCHANGED <<redisVars, serverVars, inits, faults>>

\* A directory that was not created, or a file that cannot be opened, read or
\* written: what is there stays, and init.cc goes on.
InitFails ==
    /\ \/ InitGoto("open", "copy")
       \/ InitGoto("write", "copy")
       \/ InitGoto("copy", "list")
       \/ InitGoto("fill", "list")
    /\ damaged' = damaged \cup {0}
    /\ Fault
    /\ UNCHANGED <<redisVars, file, serverVars, inits>>

InitList ==
    /\ InitGoto("list", "times")
    /\ queue' = <<>>
    /\ UNCHANGED <<key, status, file, serverVars, damaged, inits, faults>>

\* The creation times and counters, without which no index is published.
InitTimes ==
    /\ InitGoto("times", "forget")
    /\ key' = [s \in Sources |-> [i \in Indexes |-> NoKey]]
    /\ UNCHANGED <<queue, status, file, serverVars, damaged, inits, faults>>

\* Mutant of InitForget: the statuses are not dropped.
InitForgetNot ==
    /\ InitGoto("forget", "call")
    /\ damaged' = damaged \cap {0}
    /\ UNCHANGED <<redisVars, file, serverVars, inits, faults>>

\* A name without a status is never used again, whatever its files hold.
InitForget ==
    /\ InitGoto("forget", "call")
    /\ status' = [n \in Names |-> NONE]
    /\ damaged' = damaged \cap {0}
    /\ UNCHANGED <<queue, key, file, serverVars, inits, faults>>

InitCall ==
    /\ InitGoto("call", "off")
    /\ status' = [status EXCEPT ![0] = VALID]
    /\ UNCHANGED <<queue, key, file, serverVars, damaged, inits, faults>>

Initialise ==
    \/ InitOpen \/ InitWrite \/ InitCopy \/ InitFill
    \/ InitList \/ InitTimes \/ InitForget \/ InitCall

\* It is stopped, or a Redis call throws; nothing is undone.
InitStops ==
    /\ ipc # "off"
    /\ ipc' = "off"
    /\ Fault
    /\ UNCHANGED <<redisVars, file, clientVars, serverVars, sameOrder, damaged,
                   inits>>

-----------------------------------------------------------------------------
(* The client asks for an index. The server's message goes into the list   *)
(* before the client's.                                                    *)

ClientGoto(from, to) ==
    /\ cpc = from
    /\ cpc' = to
    /\ UNCHANGED <<sameOrder, boundVars>>

ClientStart ==
    /\ inits > 0 /\ ipc = "off"
    /\ round < ROUNDS
    /\ ClientGoto("idle", "request")
    /\ round' = round + 1
    /\ UNCHANGED <<redisVars, file, verdict, serverVars, damaged>>

ClientRequest ==
    /\ ClientGoto("request", "push")
    /\ queue' = Append(queue, <<"server", round>>)
    /\ UNCHANGED <<key, status, file, round, verdict, serverVars, damaged>>

ClientPush ==
    /\ ClientGoto("push", "poll")
    /\ queue' = Append(queue, <<"client", round>>)
    /\ UNCHANGED <<key, status, file, round, verdict, serverVars, damaged>>

-----------------------------------------------------------------------------
(* The generator: one message.                                             *)

\* Mutant of Listed: the zset is listed instead of the directory.
ListedStatus(s) == {n \in Names : status[n] = VALID}

\* readFileSize(): the files of the directory that are VALID.
Listed(s) == {n \in Names : file[s][n] # "none" /\ status[n] = VALID}

\* The orders a side may list its names in.
Orders(s) == IF sameOrder \/ s = "server" THEN {1} ELSE {1, 2}

\* The files of a list that are used: all, or the FILE_NUM that the seed of
\* the index draws. Both sides have the same seed.
Drawn(s, i, names, order) ==
    {d \in SUBSET names :
        /\ IF Cardinality(names) <= FILE_NUM THEN d = names
           ELSE Cardinality(d) = FILE_NUM
        /\ LET o == key[Other(s)][i]
           IN  o.names = names /\ o.order = order =>
                   d = {f[1] : f \in o.files}}

Derived(s, names, order, drawn) ==
    [names |-> names, order |-> order,
     files |-> {<<n, file[s][n]>> : n \in drawn}]

PopMessage ==
    /\ queue # <<>> /\ ipc = "off"
    /\ queue' = Tail(queue)
    /\ UNCHANGED <<status, file, clientVars, serverVars, sameOrder, damaged,
                   initVars>>

Publish(names, order) ==
    LET s == Head(queue)[1]
        i == Head(queue)[2]
    IN  \E d \in Drawn(s, i, names, order) :
            key' = [key EXCEPT ![s][i] = Derived(s, names, order, d)]

Generate ==
    /\ PopMessage
    /\ LET names == Listed(Head(queue)[1])
       IN  IF names = {} THEN UNCHANGED key
           ELSE \E order \in Orders(Head(queue)[1]) : Publish(names, order)
    /\ UNCHANGED faults

\* Redis fails while the directory is read: the list is cut short.
GenerateCut ==
    /\ PopMessage
    /\ Fault
    /\ \E names \in SUBSET Listed(Head(queue)[1]) \ {{}},
          order \in Orders(Head(queue)[1]) : Publish(names, order)

\* The script gives the message up, or stops.
GenerateFails ==
    /\ PopMessage
    /\ Fault
    /\ UNCHANGED key

-----------------------------------------------------------------------------
(* The transfer: the request that completes it moves the server's file.    *)
(* While init.cc runs there is no client and no handler, so only what can  *)
(* start by itself, a round or a derivation, has to wait for its end.      *)

ClientPoll ==
    /\ ClientGoto("poll", "transfer")
    /\ \A s \in Sources : key[s][round] # NoKey
    /\ mover' = [mover EXCEPT ![round] = "copy"]
    /\ UNCHANGED <<redisVars, file, round, verdict, rep, damaged>>

MoverGoto(i, from, to) ==
    /\ mover[i] = from
    /\ mover' = [mover EXCEPT ![i] = to]
    /\ UNCHANGED <<queue, key, clientVars, rep, sameOrder, initVars>>

\* An index that has a status is not moved.
MoveCopy(i) ==
    /\ MoverGoto(i, "copy", IF status[i] = NONE THEN "flush" ELSE "lost")
    /\ file' = IF status[i] = NONE THEN [file EXCEPT !["server"][i] = "torn"]
               ELSE file
    /\ UNCHANGED <<status, damaged, faults>>

MoveFlush(i) ==
    /\ MoverGoto(i, "flush", "mark")
    /\ file' = [file EXCEPT !["server"][i] = IF @ = "none" THEN "none"
                                             ELSE "whole"]
    /\ UNCHANGED <<status, damaged, faults>>

MoveMark(i) ==
    /\ MoverGoto(i, "mark", "done")
    /\ status' = [status EXCEPT ![i] = INVALID]
    /\ UNCHANGED <<file, damaged, faults>>

\* The file cannot be opened, or the disk is full: the stream's state is not
\* looked at, and the waiting file is removed all the same.
MoveFails(i) ==
    /\ MoverGoto(i, "flush", "mark")
    /\ Fault
    /\ \E left \in {"none", file["server"][i]} :
          file' = [file EXCEPT !["server"][i] = left]
    /\ damaged' = damaged \cup {i}
    /\ UNCHANGED status

Move(i) == MoveCopy(i) \/ MoveFlush(i) \/ MoveMark(i)

-----------------------------------------------------------------------------
(* The verdict, its report and the client's own file.                      *)

Gather(v) ==
    /\ ClientGoto("transfer", "reporting")
    /\ verdict' = [verdict EXCEPT ![round] = v]
    /\ rep' = [rep EXCEPT ![round] = "mark"]
    /\ UNCHANGED <<redisVars, file, round, mover, damaged>>

KeysEqual(i) == key["server"][i] = key["client"][i]

\* What the checksum may tell. Files that are torn at both sides may or may
\* not be the same bytes.
Judged(i) ==
    IF ~KeysEqual(i) THEN {INVALID}
    ELSE IF \E f \in key["server"][i].files : f[2] = "torn"
         THEN {VALID, INVALID}
         ELSE {VALID}

\* Mutant of ClientGather: the checksum is not compared.
ClientGatherAny ==
    /\ cpc = "transfer"
    /\ mover[round] = "done"
    /\ Gather(VALID)

\* Mutant of ClientGather: the last chunk is answered before its handler has
\* set the status.
ClientGatherEarly ==
    /\ cpc = "transfer"
    /\ mover[round] \in {"mark", "done"}
    /\ \E v \in Judged(round) : Gather(v)

\* All chunks have arrived. Decrypted with another matrix they fail the CRC.
ClientGather ==
    /\ cpc = "transfer"
    /\ mover[round] = "done"
    /\ \E v \in Judged(round) : Gather(v)

\* A request that is answered with an error ends its batch: gather() then
\* finds a chunk missing.
ClientGatherFails ==
    /\ cpc = "transfer"
    /\ cpc' = "reporting"
    /\ verdict' = [verdict EXCEPT ![round] = INVALID]
    /\ rep' = [rep EXCEPT ![round] = "mark"]
    /\ Fault
    /\ UNCHANGED <<redisVars, file, round, mover, sameOrder, damaged,
                   initVars>>

ReportGoto(i, from, to) ==
    /\ rep[i] = from
    /\ rep' = [rep EXCEPT ![i] = to]
    /\ UNCHANGED <<queue, key, clientVars, mover, sameOrder, damaged,
                   boundVars>>

\* Mutant of ReportMark: the two verdicts are swapped.
ReportMarkSwapped(i) ==
    /\ ReportGoto(i, "mark", IF verdict[i] = VALID THEN "remove" ELSE "replied")
    /\ status' = [status EXCEPT ![i] = verdict[i]]
    /\ UNCHANGED file

ReportMark(i) ==
    /\ ReportGoto(i, "mark", IF verdict[i] = VALID THEN "replied" ELSE "remove")
    /\ status' = [status EXCEPT ![i] = verdict[i]]
    /\ UNCHANGED file

ReportRemove(i) ==
    /\ ReportGoto(i, "remove", "replied")
    /\ file' = [file EXCEPT !["server"][i] = "none"]
    /\ UNCHANGED status

Report(i) == ReportMark(i) \/ ReportRemove(i)

\* What gather() does after the report, whatever came back.
AfterReport == IF verdict[round] = VALID THEN "store" ELSE "idle"

\* The answer to the report is dropped unread: that of resultReport, or an
\* error in its place.
ClientReported ==
    /\ cpc = "reporting"
    /\ rep[round] \in {"replied", "failed"}
    /\ ClientGoto(cpc, AfterReport)
    /\ UNCHANGED <<redisVars, file, round, verdict, serverVars, damaged>>

\* The proxy answers a slow report itself; the handler goes on, maybe until
\* after later rounds.
ReportTimesOut ==
    /\ cpc = "reporting"
    /\ cpc' = AfterReport
    /\ Fault
    /\ UNCHANGED <<redisVars, file, round, verdict, serverVars, sameOrder,
                   damaged, initVars>>

ClientStore ==
    /\ ClientGoto("store", "flush")
    /\ file' = [file EXCEPT !["client"][round] = "torn"]
    /\ UNCHANGED <<redisVars, round, verdict, serverVars, damaged>>

ClientFlush ==
    /\ ClientGoto("flush", "idle")
    /\ file' = [file EXCEPT !["client"][round] = "whole"]
    /\ UNCHANGED <<redisVars, round, verdict, serverVars, damaged>>

\* The file cannot be opened or written; the stream's state is not looked at.
ClientStoreFails ==
    /\ cpc = "store"
    /\ cpc' = "idle"
    /\ \E left \in {"none", "torn"} :
          file' = [file EXCEPT !["client"][round] = left]
    /\ damaged' = damaged \cup {round}
    /\ Fault
    /\ UNCHANGED <<redisVars, round, verdict, serverVars, sameOrder, initVars>>

-----------------------------------------------------------------------------
(* Processes stop.                                                         *)

\* What the client leaves when it stops: a secret whose VALID report is on
\* its way, or done, and of which it has no whole file.
LeftBehind ==
    IF cpc \in {"reporting", "store", "flush"} /\ verdict[round] = VALID
    THEN {round} ELSE {}

\* The client stops: an operator, a crash, or a call of its own that throws
\* (Redis, a request that is not answered in JSON, a broken connection to the
\* proxy). Its handlers go on.
ClientStops ==
    /\ cpc # "idle"
    /\ cpc' = "idle"
    /\ damaged' = damaged \cup LeftBehind
    /\ Fault
    /\ UNCHANGED <<redisVars, file, round, verdict, serverVars, sameOrder,
                   initVars>>

\* The answer to a get_data whose handler is gone is an error page, which the
\* client fails to parse: that ends it.
ClientThrows ==
    /\ cpc = "transfer" /\ mover[round] = "lost"
    /\ ClientGoto(cpc, "idle")
    /\ UNCHANGED <<redisVars, file, round, verdict, serverVars, damaged>>

\* A Redis call of a handler throws, or its file cannot be removed.
HandlerFails(i) ==
    /\ \/ /\ mover[i] \in {"copy", "flush", "mark"}
          /\ mover' = [mover EXCEPT ![i] = "lost"]
          /\ UNCHANGED rep
       \/ /\ rep[i] \in {"mark", "remove"}
          /\ rep' = [rep EXCEPT ![i] = "failed"]
          /\ UNCHANGED mover
    /\ Fault
    /\ UNCHANGED <<redisVars, file, clientVars, sameOrder, damaged, initVars>>

\* The server stops and is started again: its handlers are gone.
ServerStops ==
    /\ mover' = StopMovers
    /\ rep' = StopReports
    /\ serverVars' # serverVars
    /\ Fault
    /\ UNCHANGED <<redisVars, file, clientVars, sameOrder, damaged, initVars>>

-----------------------------------------------------------------------------

Client ==
    \/ ClientStart \/ ClientRequest \/ ClientPush \/ ClientPoll
    \/ ClientGather \/ ClientReported \/ ClientStore \/ ClientFlush
    \/ ClientThrows

Next ==
    \/ InitStart \/ Initialise \/ InitFails \/ InitStops
    \/ Client \/ ClientGatherFails \/ ReportTimesOut \/ ClientStoreFails
    \/ ClientStops
    \/ Generate \/ GenerateCut \/ GenerateFails
    \/ \E i \in Indexes : \/ Move(i) \/ MoveFails(i) \/ Report(i)
                         \/ HandlerFails(i)
    \/ ServerStops

Spec == Init /\ [][Next]_vars

\* The client's loop, the script, the handlers and an init.cc that was started
\* run when they can. Nobody has to start init.cc, and faults are never
\* forced.
Fairness ==
    /\ WF_vars(Initialise)
    /\ WF_vars(Client)
    /\ WF_vars(Generate)
    /\ \A i \in Indexes : WF_vars(Move(i)) /\ WF_vars(Report(i))

FairSpec == Spec /\ Fairness

-----------------------------------------------------------------------------
(* Safety.                                                                 *)

Storing == {"reporting", "store", "flush"}

\* "A is held by both": both directories have the whole file of every VALID
\* name, but for the one the client is about to store, for those that a fault
\* has touched and for init.cc's own while it is made. A status that comes
\* late, after later rounds, is no exception.
StocksAgree ==
    \A n \in Names \ damaged :
        status[n] = VALID =>
            /\ file["server"][n] = "whole"
            /\ file["client"][n] = "whole" \/ (n = round /\ cpc \in Storing)

\* A secret becomes VALID only if it was sent under a matrix made of secrets
\* that both sides hold alike: after a fault that left them with different
\* files, a stop of init.cc among them, no round ends VALID unless it happens
\* not to use these.
MadeValid(i) == status[i] # VALID /\ status'[i] = VALID

ValidMadeFromShared ==
    [][\A i \in Indexes : MadeValid(i) =>
          \A s \in Sources : \A f \in key[s][i].files :
              file["server"][f[1]] = file["client"][f[1]]]_vars

-----------------------------------------------------------------------------
(* The rounds keep the promise of KeyStock.                                *)

\* Both sides have the whole secret, and it is VALID.
Held(n) ==
    /\ status[n] = VALID
    /\ \A s \in Sources : file[s][n] = "whole"

Stock == {n \in Names : Held(n)}

Promise == INSTANCE KeyStock WITH stock <- Stock, busy <- ipc # "off"

\* What both sides hold is only added to, a secret at a time, whatever stops,
\* fails or comes late; only init.cc begins anew.
ImplementsKeyStock == Promise!Spec

-----------------------------------------------------------------------------
(* Liveness, under FairSpec.                                               *)

\* Without faults, and where both directories are listed alike, every round
\* hands its secret over: each leaves the next what it needs.
EveryRoundDelivers ==
    (sameOrder /\ <>(inits > 0) /\ [](faults = 0)) =>
        \A i \in Indexes : <>Held(i)
=============================================================================
