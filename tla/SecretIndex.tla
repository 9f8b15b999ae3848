---------------------------- MODULE SecretIndex ----------------------------
(***************************************************************************)
(* How an index comes into use: gen_secret handlers draw one, look it up,  *)
(* lock it and push a message for the generator (SecretController::        *)
(* genSecret); the client pushes a second one (ClientApp.cc); the          *)
(* generator script takes the messages one by one, publishes the index per *)
(* side and removes the lock (generateSecretFile.cc).                      *)
(*                                                                         *)
(* An index must not be handed out twice: its lock is looked up first and  *)
(* its publication second, while the generator publishes first and unlocks *)
(* second.                                                                 *)
(***************************************************************************)
EXTENDS Naturals, Sequences

CONSTANTS
    Requests,  \* calls of gen_secret, one per round of a client
    Indexes,   \* the strings genRandomStr may return
    StringAt,  \* [second]: what genRandomStr returns when nothing disturbs it
    MaxTime,   \* bound on the clock
    MaxFaults, \* bound on the faults of one behaviour
    NoIndex

ASSUME SecretIndexAssumption ==
    /\ MaxTime \in Nat
    /\ MaxFaults \in Nat
    /\ StringAt \in [0 .. MaxTime -> Indexes]
    /\ NoIndex \notin Indexes

Sources == {"server", "client"}
Messages == [source : Sources, index : Indexes]

VARIABLES
    clock,     \* seconds
    hpc,       \* [request]: program counter of handler, then of its client
    randomStr, \* [request]: the index drawn
    seen,      \* [request]: who held a lock when it looked (history)
    locked,    \* Redis: keys set as locks
    time,      \* Redis: [source]: the published indexes
    count,     \* Redis: [source]: the indexes that have a progress counter
    list,      \* Redis: the messages, the next one to be popped first
    gpc,       \* the generator's program counter
    msg,       \* the message it works on
    faults

vars == <<clock, hpc, randomStr, seen, locked, time, count, list, gpc, msg,
          faults>>
handlerVars == <<hpc, randomStr, seen>>
generatorVars == <<gpc, msg>>

HandlerPcs == {"idle", "name", "get", "zscore", "set", "push", "ok", "pushed",
               "failed"}
Busy == {"name", "get", "zscore", "set", "push"}

TypeOK ==
    /\ clock \in 0 .. MaxTime
    /\ hpc \in [Requests -> HandlerPcs]
    /\ randomStr \in [Requests -> Indexes \cup {NoIndex}]
    /\ seen \in [Requests -> SUBSET Requests]
    /\ locked \subseteq Indexes
    /\ time \in [Sources -> SUBSET Indexes]
    /\ count \in [Sources -> SUBSET Indexes]
    /\ list \in Seq(Messages)
    /\ gpc \in {"pop", "check", "work", "time", "count", "unlock"}
    /\ gpc = "pop" \/ msg \in Messages
    /\ faults \in 0 .. MaxFaults

Init ==
    /\ clock = 0
    /\ hpc = [h \in Requests |-> "idle"]
    /\ randomStr = [h \in Requests |-> NoIndex]
    /\ seen = [h \in Requests |-> {}]
    /\ locked = {}
    /\ time = [s \in Sources |-> {}]
    /\ count = [s \in Sources |-> {}]
    /\ list = <<>>
    /\ gpc = "pop"
    /\ msg = NoIndex
    /\ faults = 0

Tick ==
    /\ clock < MaxTime
    /\ clock' = clock + 1
    /\ UNCHANGED <<handlerVars, locked, time, count, list, generatorVars,
                   faults>>

-----------------------------------------------------------------------------
(* genSecret                                                               *)

HandlerGoto(h, from, to) ==
    /\ hpc[h] = from
    /\ hpc' = [hpc EXCEPT ![h] = to]
    /\ UNCHANGED <<clock, time, count, generatorVars>>

HandlerArrive(h) ==
    /\ HandlerGoto(h, "idle", "name")
    /\ UNCHANGED <<randomStr, seen, locked, list, faults>>

\* srand(time(nullptr)), then rand() for every character. The generator is
\* the process's: another request may draw from it or seed it in between.
genRandomStr(h) ==
    IF \E o \in Requests \ {h} : hpc[o] \in Busy
    THEN Indexes
    ELSE {StringAt[clock]}

HandlerName(h) ==
    /\ HandlerGoto(h, "name", "get")
    /\ \E i \in genRandomStr(h) : randomStr' = [randomStr EXCEPT ![h] = i]
    /\ UNCHANGED <<seen, locked, list, faults>>

Taken == {o \in Requests : hpc[o] \in {"push", "ok", "pushed"}}

\* Is the index locked? The answer is looked at after zscore; an index that
\* is locked is drawn again whatever zscore says.
HandlerGet(h) ==
    /\ HandlerGoto(h, "get",
            IF randomStr[h] \in locked THEN "name" ELSE "zscore")
    /\ seen' = [seen EXCEPT ![h] = Taken]
    /\ UNCHANGED <<randomStr, locked, list, faults>>

\* Mutant of HandlerZscore: the publication is not looked at.
HandlerZscoreNone(h) ==
    /\ HandlerGoto(h, "zscore", "set")
    /\ UNCHANGED <<randomStr, seen, locked, list, faults>>

\* Is it published for the server?
HandlerZscore(h) ==
    /\ HandlerGoto(h, "zscore",
            IF randomStr[h] \in time["server"] THEN "name" ELSE "set")
    /\ UNCHANGED <<randomStr, seen, locked, list, faults>>

HandlerSet(h) ==
    /\ HandlerGoto(h, "set", "push")
    /\ locked' = locked \cup {randomStr[h]}
    /\ UNCHANGED <<randomStr, seen, list, faults>>

HandlerPush(h) ==
    /\ HandlerGoto(h, "push", "ok")
    /\ list' = Append(list, [source |-> "server", index |-> randomStr[h]])
    /\ UNCHANGED <<randomStr, seen, locked, faults>>

\* The client that got the answer pushes its own message.
ClientPush(h) ==
    /\ HandlerGoto(h, "ok", "pushed")
    /\ list' = Append(list, [source |-> "client", index |-> randomStr[h]])
    /\ UNCHANGED <<randomStr, seen, locked, faults>>

Request(h) ==
    \/ HandlerName(h) \/ HandlerGet(h) \/ HandlerZscore(h) \/ HandlerSet(h)
    \/ HandlerPush(h) \/ ClientPush(h)

\* Redis fails, the server stops, or the answer does not reach the client.
RequestFails(h) ==
    /\ faults < MaxFaults
    /\ faults' = faults + 1
    /\ hpc[h] \in Busy \cup {"ok"}
    /\ HandlerGoto(h, hpc[h], "failed")
    /\ UNCHANGED <<randomStr, seen, locked, list>>

-----------------------------------------------------------------------------
(* generateSecretFileScript                                                *)

GeneratorGoto(from, to) ==
    /\ gpc = from
    /\ gpc' = to
    /\ UNCHANGED <<clock, handlerVars>>

\* Mutant of GeneratorPop: the index is taken from the message before it is
\* looked at whether there is one.
GeneratorPopAny ==
    /\ GeneratorGoto("pop", "check")
    /\ msg' = IF list = <<>> THEN NoIndex ELSE Head(list)
    /\ list' = IF list = <<>> THEN list ELSE Tail(list)
    /\ UNCHANGED <<locked, time, count, faults>>

\* rpop takes the message off the list for good.
GeneratorPop ==
    /\ list # <<>>
    /\ GeneratorGoto("pop", "check")
    /\ msg' = Head(list)
    /\ list' = Tail(list)
    /\ UNCHANGED <<locked, time, count, faults>>

\* Mutant of GeneratorCheck: the key of the server, whoever the message is of.
GeneratorCheckServer ==
    /\ GeneratorGoto("check",
            IF msg.index \in time["server"] THEN "pop" ELSE "work")
    /\ UNCHANGED <<msg, list, locked, time, count, faults>>

\* Mutant of GeneratorCheck: the index is generated again.
GeneratorCheckNone ==
    /\ GeneratorGoto("check", "work")
    /\ UNCHANGED <<msg, list, locked, time, count, faults>>

\* An index that is published for this side is not generated again.
GeneratorCheck ==
    /\ GeneratorGoto("check",
            IF msg.index \in time[msg.source] THEN "pop" ELSE "work")
    /\ UNCHANGED <<msg, list, locked, time, count, faults>>

\* The running file and, for the server, the waiting file are written.
GeneratorWork ==
    /\ GeneratorGoto("work", "time")
    /\ UNCHANGED <<msg, list, locked, time, count, faults>>

GeneratorTime ==
    /\ GeneratorGoto("time", "count")
    /\ time' = [time EXCEPT ![msg.source] = @ \cup {msg.index}]
    /\ UNCHANGED <<msg, list, locked, count, faults>>

GeneratorCount ==
    /\ GeneratorGoto("count", "unlock")
    /\ count' = [count EXCEPT ![msg.source] = @ \cup {msg.index}]
    /\ UNCHANGED <<msg, list, locked, time, faults>>

\* Mutant of GeneratorUnlock: either side's message removes the lock.
GeneratorUnlockBoth ==
    /\ GeneratorGoto("unlock", "pop")
    /\ locked' = locked \ {msg.index}
    /\ UNCHANGED <<msg, list, time, count, faults>>

\* Only the server's message removes the lock.
GeneratorUnlock ==
    /\ GeneratorGoto("unlock", "pop")
    /\ locked' = IF msg.source = "server" THEN locked \ {msg.index} ELSE locked
    /\ UNCHANGED <<msg, list, time, count, faults>>

Generator ==
    \/ GeneratorPop \/ GeneratorCheck \/ GeneratorWork \/ GeneratorTime
    \/ GeneratorCount \/ GeneratorUnlock

\* A directory or a file cannot be made, Redis throws, or the script stops
\* and starts again: the message is gone.
GeneratorFails ==
    /\ faults < MaxFaults
    /\ faults' = faults + 1
    /\ gpc # "pop"
    /\ GeneratorGoto(gpc, "pop")
    /\ UNCHANGED <<msg, list, locked, time, count>>

-----------------------------------------------------------------------------

Next ==
    \/ Tick
    \/ \E h \in Requests : HandlerArrive(h) \/ Request(h) \/ RequestFails(h)
    \/ Generator
    \/ GeneratorFails

Spec == Init /\ [][Next]_vars

Fairness == WF_vars(Generator) /\ \A h \in Requests : WF_vars(Request(h))

FairSpec == Spec /\ Fairness

-----------------------------------------------------------------------------

\* An index that is handed out is at every moment locked or published, also
\* while the generator turns the one into the other, and when it fails.
IndexGuarded ==
    \A h \in Taken : randomStr[h] \in locked \cup time["server"]

\* A request that looks an index up after another has locked it does not get
\* it, whatever the generator does between its two reads. (Two requests that
\* overlap between the look-up and the lock are another matter.)
DistinctAfterLock ==
    \A h \in Taken : \A o \in seen[h] : randomStr[o] # randomStr[h]

\* The progress counter of a side is set to 0 once, also when an index was
\* handed out twice and is twice in the list: a second reset would restart
\* the counting of a transfer.
CounterResetOnce ==
    gpc = "count" => msg.index \notin count[msg.source]

\* "Lock the index": two requests never get the same one.
DistinctIndexes ==
    \A h, o \in Taken : h # o => randomStr[h] # randomStr[o]

\* The poll of a client that pushed its message comes to an end, if nothing
\* fails: its index is published for both sides.
PollEnds ==
    \A h \in Requests :
        hpc[h] = "pushed" ~>
            \/ \A s \in Sources : randomStr[h] \in time[s]
            \/ faults > 0
=============================================================================
