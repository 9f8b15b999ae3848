----------------------------- MODULE Derivation -----------------------------
(***************************************************************************)
(* How the generator script derives the running file of one index for one  *)
(* side (generateSecretFile.cc, readFileSize in utils.cc). The script      *)
(*                                                                         *)
(*  - lists the secret files with status VALID in the order the directory  *)
(*    gives, and draws FILE_NUM of them if there are more;                 *)
(*  - has the pool run one task per file and thread (processTmpSecret),    *)
(*    each of which writes a temporary file, and waits for all of them;    *)
(*  - has the pool run one task per thread (processBinSecret), which reads *)
(*    and removes the temporary files of its thread, XORs them and writes  *)
(*    a piece, and waits for these;                                        *)
(*  - puts the pieces together in the running file, has the waiting file   *)
(*    written if the message is the server's, and publishes the index.     *)
(*                                                                         *)
(* A piece or a slice of the running file is the set of the positions in   *)
(* the list whose temporary files were XORed into it: {} is zeros, and a   *)
(* set with 0 in it stands for bytes that are not what the code meant      *)
(* (short, or read outside a buffer). The pool has at least as many        *)
(* workers as there are tasks (line 241), so a task may run once enqueued. *)
(***************************************************************************)
EXTENDS Naturals, FiniteSets, Sequences, Functions

CONSTANTS
    FILES,      \* number of .bin files in the directory
    FILE_NUM,   \* the most that a derivation uses (config.h)
    THREAD_NUM, \* tasks per file, and slices of the running file (config.h)
    MaxFaults   \* bound on the faults of one behaviour

ASSUME DerivationAssumption ==
    /\ FILES \in Nat
    /\ FILE_NUM \in Nat \ {0}
    /\ THREAD_NUM \in Nat \ {0}
    /\ MaxFaults \in Nat

Names == 1 .. FILES
Positions == 1 .. FILE_NUM
Threads == 1 .. THREAD_NUM
Slots == Positions \X Threads

VARIABLES
    source, \* whose message it is: server or client
    usable, \* the files whose status is VALID
    \* the script
    spc,    \* its program counter
    unread, \* directory entries the iterator has not returned yet
    list,   \* the files to derive from
    at,     \* the piece it puts into the running file next
    \* the tasks in the pool
    task,   \* [position, thread]: processTmpSecret
    merge,  \* [thread]: processBinSecret
    pos,    \* [thread]: the position it reads next
    buf,    \* [thread]: the positions it has read
    \* files
    tmpDir, \* does the tmp directory exist?
    tmps,   \* the temporary files on disk
    full,   \* the temporary files that were written completely
    pieces, \* the threads whose piece is on disk
    piece,  \* [thread]: what it holds
    slice,  \* [thread]: its part of the buffer, then of the running file
    waiting, \* the waiting file: none, intact, or failed (absent or short)
    \* history and bounds
    cut,    \* was the list cut short by an error of Redis?
    hit,    \* the threads whose files a fault has touched
    faults  \* faults so far

scriptVars == <<spc, unread, list, at>>
mergeVars == <<merge, pos, buf>>
tmpVars == <<tmps, full>>
pieceVars == <<pieces, piece>>
givenVars == <<source, usable>>
vars == <<givenVars, scriptVars, task, mergeVars, tmpDir, tmpVars, pieceVars,
          slice, waiting, cut, hit, faults>>

ScriptPcs == {"dirs", "list", "pick", "derive", "await", "merge", "join",
              "rmtmp", "assemble", "write", "waiting", "publish",
              "published", "lost"}

Contents == SUBSET (0 .. FILE_NUM)

TypeOK ==
    /\ source \in {"server", "client"}
    /\ usable \subseteq Names
    /\ spc \in ScriptPcs
    /\ unread \subseteq Names
    /\ list \in Seq(Names)
    /\ spc \notin {"dirs", "list", "pick", "lost"} => Len(list) \in Positions
    /\ at \in 1 .. (THREAD_NUM + 1)
    /\ task \in [Slots -> {"idle", "open", "write", "done"}]
    /\ merge \in [Threads -> {"idle", "read", "done"}]
    /\ pos \in [Threads -> 1 .. (FILE_NUM + 1)]
    /\ buf \in [Threads -> SUBSET Positions]
    /\ tmpDir \in BOOLEAN
    /\ tmps \subseteq Slots
    /\ full \subseteq Slots
    /\ pieces \subseteq Threads
    /\ piece \in [Threads -> Contents]
    /\ slice \in [Threads -> Contents]
    /\ waiting \in {"none", "intact", "failed"}
    /\ cut \in BOOLEAN
    /\ hit \subseteq Threads
    /\ faults \in 0 .. MaxFaults

Init ==
    /\ source \in {"server", "client"}
    /\ usable \in SUBSET Names
    /\ spc = "dirs"
    /\ unread = Names
    /\ list = <<>>
    /\ at = 1
    /\ task = [s \in Slots |-> "idle"]
    /\ merge = [t \in Threads |-> "idle"]
    /\ pos = [t \in Threads |-> 1]
    /\ buf = [t \in Threads |-> {}]
    /\ tmpDir = FALSE
    /\ tmps = {}
    /\ full = {}
    /\ pieces = {}
    /\ piece = [t \in Threads |-> {}]
    /\ slice = [t \in Threads |-> {}]
    /\ waiting = "none"
    /\ cut = FALSE
    /\ hit = {}
    /\ faults = 0

\* A fault happens to the files of a set of threads.
Fault(touched) ==
    /\ faults < MaxFaults
    /\ faults' = faults + 1
    /\ hit' = hit \cup touched

NoFault == UNCHANGED <<hit, faults>>

-----------------------------------------------------------------------------
(* The script, up to the list of files.                                    *)

ScriptGoto(from, to) ==
    /\ spc = from
    /\ spc' = to
    /\ UNCHANGED givenVars

MakeDirs ==
    /\ ScriptGoto("dirs", "list")
    /\ tmpDir' = TRUE
    /\ NoFault
    /\ UNCHANGED <<unread, list, at, task, mergeVars, tmpVars, pieceVars,
                   slice, waiting, cut>>

\* readFileSize(): the next entry, whichever it is, if its status is VALID.
ReadEntry(f) ==
    /\ ScriptGoto("list", "list")
    /\ f \in unread
    /\ unread' = unread \ {f}
    /\ list' = IF f \in usable THEN Append(list, f) ELSE list
    /\ NoFault
    /\ UNCHANGED <<at, task, mergeVars, tmpDir, tmpVars, pieceVars, slice,
                   waiting, cut>>

ReadEnd ==
    /\ ScriptGoto("list", "pick")
    /\ unread = {}
    /\ NoFault
    /\ UNCHANGED <<unread, list, at, task, mergeVars, tmpDir, tmpVars,
                   pieceVars, slice, waiting, cut>>

\* Mutant of Pick: all files are used, however many there are.
PickAll ==
    /\ ScriptGoto("pick", IF list = <<>> THEN "lost" ELSE "derive")
    /\ NoFault
    /\ UNCHANGED <<unread, list, at, task, mergeVars, tmpDir, tmpVars,
                   pieceVars, slice, waiting, cut>>

\* Without files the message is given up; with too many, generateRandomFile()
\* draws FILE_NUM different positions.
Pick ==
    /\ ScriptGoto("pick", IF list = <<>> THEN "lost" ELSE "derive")
    /\ IF Len(list) <= FILE_NUM
       THEN UNCHANGED list
       ELSE \E drawn \in Injection(Positions, 1 .. Len(list)) :
                list' = [i \in Positions |-> list[drawn[i]]]
    /\ NoFault
    /\ UNCHANGED <<unread, at, task, mergeVars, tmpDir, tmpVars, pieceVars,
                   slice, waiting, cut>>

-----------------------------------------------------------------------------
(* The script, from the tasks to the publication.                          *)

Used == 1 .. Len(list)

Derive ==
    /\ ScriptGoto("derive", "await")
    /\ task' = [s \in Slots |-> IF s[1] \in Used THEN "open" ELSE "idle"]
    /\ NoFault
    /\ UNCHANGED <<unread, list, at, mergeVars, tmpDir, tmpVars, pieceVars,
                   slice, waiting, cut>>

\* Mutant of Await: the futures of the first file's tasks only are awaited.
AwaitFirst ==
    /\ ScriptGoto("await", "merge")
    /\ \A t \in Threads : task[<<1, t>>] = "done"
    /\ NoFault
    /\ UNCHANGED <<unread, list, at, task, mergeVars, tmpDir, tmpVars,
                   pieceVars, slice, waiting, cut>>

\* Mutant of Await: it waits for the files instead of the futures.
AwaitFiles ==
    /\ ScriptGoto("await", "merge")
    /\ Used \X Threads \subseteq full
    /\ NoFault
    /\ UNCHANGED <<unread, list, at, task, mergeVars, tmpDir, tmpVars,
                   pieceVars, slice, waiting, cut>>

\* All futures are ready.
Await ==
    /\ ScriptGoto("await", "merge")
    /\ \A s \in Slots : task[s] \in {"idle", "done"}
    /\ NoFault
    /\ UNCHANGED <<unread, list, at, task, mergeVars, tmpDir, tmpVars,
                   pieceVars, slice, waiting, cut>>

Merge ==
    /\ ScriptGoto("merge", "join")
    /\ merge' = [t \in Threads |-> "read"]
    /\ NoFault
    /\ UNCHANGED <<unread, list, at, task, pos, buf, tmpDir, tmpVars,
                   pieceVars, slice, waiting, cut>>

Join ==
    /\ ScriptGoto("join", "rmtmp")
    /\ \A t \in Threads : merge[t] = "done"
    /\ NoFault
    /\ UNCHANGED <<unread, list, at, task, mergeVars, tmpDir, tmpVars,
                   pieceVars, slice, waiting, cut>>

\* The tmp directory goes if it is empty; a failure is only logged.
RemoveTmp ==
    /\ ScriptGoto("rmtmp", "assemble")
    /\ tmpDir' = (tmps # {})
    /\ NoFault
    /\ UNCHANGED <<unread, list, at, task, mergeVars, tmpVars, pieceVars,
                   slice, waiting, cut>>

\* One piece into its place of the buffer; without the file the place stays
\* zero. The piece is removed.
Assemble ==
    /\ ScriptGoto("assemble", IF at = THREAD_NUM THEN "write" ELSE "assemble")
    /\ at' = at + 1
    /\ slice' = [slice EXCEPT ![at] = IF at \in pieces THEN piece[at] ELSE {}]
    /\ pieces' = pieces \ {at}
    /\ NoFault
    /\ UNCHANGED <<unread, list, task, mergeVars, tmpDir, tmpVars, piece,
                   waiting, cut>>

\* The running file. Only the server's message has a waiting file written.
Write ==
    /\ ScriptGoto("write", IF source = "server" THEN "waiting" ELSE "publish")
    /\ NoFault
    /\ UNCHANGED <<unread, list, at, task, mergeVars, tmpDir, tmpVars,
                   pieceVars, slice, waiting, cut>>

Waiting ==
    /\ ScriptGoto("waiting", "publish")
    /\ waiting' = "intact"
    /\ NoFault
    /\ UNCHANGED <<unread, list, at, task, mergeVars, tmpDir, tmpVars,
                   pieceVars, slice, cut>>

\* The zadds and del: their order is in SecretIndex and Transfer.
Publish ==
    /\ ScriptGoto("publish", "published")
    /\ NoFault
    /\ UNCHANGED <<unread, list, at, task, mergeVars, tmpDir, tmpVars,
                   pieceVars, slice, waiting, cut>>

Script ==
    \/ MakeDirs
    \/ \E f \in Names : ReadEntry(f)
    \/ ReadEnd \/ Pick \/ Derive \/ Await \/ Merge \/ Join
    \/ RemoveTmp \/ Assemble \/ Write \/ Waiting \/ Publish

-----------------------------------------------------------------------------
(* processTmpSecret, one task per position and thread.                     *)

TaskGoto(s, from, to) ==
    /\ spc # "lost"
    /\ task[s] = from
    /\ task' = [task EXCEPT ![s] = to]
    /\ UNCHANGED <<givenVars, scriptVars, mergeVars, tmpDir, pieceVars, slice,
                   waiting, cut>>

\* The secret file is read and the temporary one created, ...
TmpOpen(s) ==
    /\ TaskGoto(s, "open", "write")
    /\ tmps' = tmps \cup {s}
    /\ NoFault
    /\ UNCHANGED full

\* ... and what the offsets select is written.
TmpWrite(s) ==
    /\ TaskGoto(s, "write", "done")
    /\ full' = full \cup {s}
    /\ NoFault
    /\ UNCHANGED tmps

-----------------------------------------------------------------------------
(* processBinSecret, one task per thread.                                  *)

MergeStep(t) ==
    /\ spc # "lost"
    /\ merge[t] = "read"
    /\ UNCHANGED <<givenVars, unread, list, at, task, tmpDir, full, slice,
                   waiting, cut>>

\* Mutant of MergeRead: the temporary file is not removed.
MergeReadKeep(t) ==
    /\ MergeStep(t)
    /\ pos[t] <= Len(list)
    /\ pos' = [pos EXCEPT ![t] = @ + 1]
    /\ buf' = [buf EXCEPT ![t] = @ \cup {i \in {pos[t]} : <<i, t>> \in tmps}]
    /\ NoFault
    /\ UNCHANGED <<spc, merge, tmps, pieceVars>>

\* Read the next temporary file and remove it, or go on without it.
MergeRead(t) ==
    /\ MergeStep(t)
    /\ pos[t] <= Len(list)
    /\ pos' = [pos EXCEPT ![t] = @ + 1]
    /\ buf' = [buf EXCEPT ![t] = @ \cup {i \in {pos[t]} : <<i, t>> \in tmps}]
    /\ tmps' = tmps \ {<<pos[t], t>>}
    /\ NoFault
    /\ UNCHANGED <<spc, merge, pieceVars>>

\* Every buffer that the loop over the list's length indexes is there, and
\* as long as the first one.
Whole(t) == buf[t] = Used /\ \A i \in Used : <<i, t>> \in full

\* The loop goes past the buffers that were read, or past the end of one of
\* them that is shorter than the first.
Overrun(t) == \E i \in Used : i \notin buf[t] \/ (i # 1 /\ <<i, t>> \notin full)

\* XOR what was read and write the piece. Only reading outside a buffer is
\* undefined; where it does not end the process, the bytes are arbitrary.
MergeXor(t) ==
    /\ MergeStep(t)
    /\ pos[t] > Len(list)
    /\ buf[t] # {}
    /\ piece' = [piece EXCEPT ![t] = IF Whole(t) THEN buf[t] ELSE {0}]
    /\ pieces' = pieces \cup {t}
    /\ merge' = [merge EXCEPT ![t] = "done"]
    /\ NoFault
    /\ UNCHANGED <<spc, pos, buf, tmps>>

\* Reading outside a buffer ends the process.
MergeCrash(t) ==
    /\ MergeStep(t)
    /\ pos[t] > Len(list)
    /\ Overrun(t)
    /\ spc' = "lost"
    /\ NoFault
    /\ UNCHANGED <<mergeVars, tmps, pieceVars>>

Task ==
    \/ \E s \in Slots : TmpOpen(s) \/ TmpWrite(s)
    \/ \E t \in Threads : MergeRead(t) \/ MergeXor(t) \/ MergeCrash(t)

-----------------------------------------------------------------------------
(* Faults. Every failure below is logged, and nothing else is done.        *)

\* Redis fails for an entry: readFileSize() returns what it has.
ReadCut ==
    /\ ScriptGoto("list", "pick")
    /\ Fault({})
    /\ cut' = TRUE
    /\ UNCHANGED <<unread, list, at, task, mergeVars, tmpDir, tmpVars,
                   pieceVars, slice, waiting>>

\* The secret file or the temporary file cannot be opened.
TmpOpenFails(s) ==
    /\ TaskGoto(s, "open", "done")
    /\ Fault({s[2]})
    /\ UNCHANGED tmpVars

\* The disk is full: the stream's state is not looked at.
TmpWriteFails(s) ==
    /\ TaskGoto(s, "write", "done")
    /\ Fault({s[2]})
    /\ UNCHANGED tmpVars

\* The temporary file cannot be opened to be read, or not removed.
MergeReadFails(t) ==
    /\ MergeStep(t)
    /\ pos[t] <= Len(list)
    /\ pos' = [pos EXCEPT ![t] = @ + 1]
    /\ \/ UNCHANGED buf
       \/ /\ <<pos[t], t>> \in tmps
          /\ buf' = [buf EXCEPT ![t] = @ \cup {pos[t]}]
    /\ Fault({t})
    /\ UNCHANGED <<spc, merge, tmps, pieceVars>>

\* The piece cannot be opened, or is written incompletely.
MergeWriteFails(t) ==
    /\ MergeStep(t)
    /\ pos[t] > Len(list)
    /\ buf[t] # {}
    /\ merge' = [merge EXCEPT ![t] = "done"]
    /\ \/ UNCHANGED pieceVars
       \/ /\ pieces' = pieces \cup {t}
          /\ piece' = [piece EXCEPT ![t] = {0}]
    /\ Fault({t})
    /\ UNCHANGED <<spc, pos, buf, tmps>>

\* The piece cannot be opened, and its place stays zero, or not be removed.
AssembleFails ==
    /\ ScriptGoto("assemble", IF at = THREAD_NUM THEN "write" ELSE "assemble")
    /\ at' = at + 1
    /\ \/ UNCHANGED slice
       \/ /\ at \in pieces
          /\ slice' = [slice EXCEPT ![at] = piece[at]]
    /\ Fault({at})
    /\ UNCHANGED <<unread, list, task, mergeVars, tmpDir, tmpVars, pieceVars,
                   waiting, cut>>

\* The running file is written incompletely.
WriteShort ==
    /\ ScriptGoto("write", IF source = "server" THEN "waiting" ELSE "publish")
    /\ Fault(Threads)
    /\ slice' = [t \in Threads |-> {0}]
    /\ UNCHANGED <<unread, list, at, task, mergeVars, tmpDir, tmpVars,
                   pieceVars, waiting, cut>>

\* The waiting file cannot be opened, or is written incompletely.
WaitingFails ==
    /\ ScriptGoto("waiting", "publish")
    /\ Fault({})
    /\ waiting' = "failed"
    /\ UNCHANGED <<unread, list, at, task, mergeVars, tmpDir, tmpVars,
                   pieceVars, slice, cut>>

\* The script gives up: a directory that cannot be made, a running file that
\* cannot be opened, Redis. rpop has taken the message off the list.
GivesUp ==
    /\ spc \in {"dirs", "write", "publish"}
    /\ ScriptGoto(spc, "lost")
    /\ Fault({})
    /\ UNCHANGED <<unread, list, at, task, mergeVars, tmpDir, tmpVars,
                   pieceVars, slice, waiting, cut>>

\* The process stops, with its pool.
ScriptStops ==
    /\ spc \notin {"published", "lost"}
    /\ ScriptGoto(spc, "lost")
    /\ Fault({})
    /\ UNCHANGED <<unread, list, at, task, mergeVars, tmpDir, tmpVars,
                   pieceVars, slice, waiting, cut>>

Failure ==
    \/ ReadCut \/ AssembleFails \/ WriteShort \/ WaitingFails \/ GivesUp
    \/ ScriptStops
    \/ \E s \in Slots : TmpOpenFails(s) \/ TmpWriteFails(s)
    \/ \E t \in Threads : MergeReadFails(t) \/ MergeWriteFails(t)

-----------------------------------------------------------------------------

Next == Script \/ Task \/ Failure

Spec == Init /\ [][Next]_vars

\* The script and every worker of the pool run when they can; faults are never
\* forced, and undefined behaviour may go either way.
Fairness ==
    /\ WF_vars(Script)
    /\ \A s \in Slots : WF_vars(TmpOpen(s) \/ TmpWrite(s))
    /\ \A t \in Threads : WF_vars(MergeRead(t) \/ MergeXor(t) \/ MergeCrash(t))

FairSpec == Spec /\ Fairness

-----------------------------------------------------------------------------
(* Safety.                                                                 *)

\* What a published running file holds. The list is of different VALID files,
\* and of all of them, or FILE_NUM, unless Redis failed in between. A fault
\* stays in its slice: every other one is the XOR of all files of the list,
\* however the tasks ran.
PublishedMatrix ==
    spc = "published" =>
        /\ \A i \in Used : list[i] \in usable
        /\ \A i, j \in Used : list[i] = list[j] => i = j
        /\ ~cut /\ Len(list) < FILE_NUM => \A f \in usable : \E i \in Used : list[i] = f
        /\ \A t \in Threads \ hit : slice[t] = Used

\* A publication leaves nothing behind that a fault did not keep it from
\* removing, and an index of the server comes with its waiting file.
LeftoversAreFaults ==
    spc = "published" =>
        /\ \A t \in Threads \ hit : t \notin pieces
        /\ \A s \in tmps : s[2] \in hit
        /\ tmpDir => tmps # {}
        /\ source = "server" /\ faults = 0 => waiting = "intact"

-----------------------------------------------------------------------------
(* Liveness, under FairSpec.                                               *)

\* Whatever fails, the script is done with the message some day and can take
\* the next one; without a fault, and with a file to use, it publishes it.
MessageEnds ==
    /\ <>(spc \in {"published", "lost"})
    /\ usable # {} /\ [](faults = 0) => <>(spc = "published")
=============================================================================
