-------------------------- MODULE DerivationProofs --------------------------
(***************************************************************************)
(* Proofs about Derivation, for any number of files, of tasks and of       *)
(* faults: what a published running file holds, and what a publication     *)
(* leaves behind.                                                          *)
(***************************************************************************)
EXTENDS Derivation, SequenceTheorems, TLAPS

-----------------------------------------------------------------------------
(* The inductive invariant, in the order in which its parts are used.      *)

Listing == {"dirs", "list", "pick"}
BeforeTasks == Listing \cup {"derive"}
BeforeMerge == BeforeTasks \cup {"await", "merge"}
AfterJoin == {"rmtmp", "assemble", "write", "waiting", "publish", "published"}

\* Tasks run between their enqueueing and the wait for their futures, and the
\* pieces are put together one after another after that.
Phases ==
    /\ spc \in BeforeTasks => \A s \in Slots : task[s] = "idle"
    /\ spc \in {"merge", "join"} \cup AfterJoin =>
            \A s \in Slots : task[s] \in {"idle", "done"}
    /\ spc \in BeforeMerge => \A t \in Threads : merge[t] = "idle"
    /\ spc = "join" => \A t \in Threads : merge[t] # "idle"
    /\ spc \in AfterJoin => \A t \in Threads : merge[t] = "done"
    /\ spc \in BeforeMerge \cup {"join", "rmtmp"} => at = 1
    /\ spc = "assemble" => at \in Threads
    /\ spc \in AfterJoin \ {"rmtmp", "assemble"} => at = THREAD_NUM + 1

TypeInv == TypeOK /\ Phases

\* The list holds different usable files, and misses one only if there were
\* too many or Redis failed.
Listed ==
    /\ \A i \in Used : list[i] \in usable
    /\ \A i, j \in Used : list[i] = list[j] => i = j
    /\ spc = "dirs" => unread = Names /\ list = <<>>
    /\ spc = "list" => \A i \in Used : list[i] \notin unread
    /\ ~cut => \A f \in usable :
            \/ f \in unread /\ spc \in {"dirs", "list"}
            \/ \E i \in Used : list[i] = f
            \/ Len(list) = FILE_NUM /\ spc \notin Listing

\* There is a task for each position of the list; where no fault has struck,
\* its file is on disk from its opening to its merge.
Temporaries ==
    \A s \in Slots :
        /\ s \in tmps => task[s] # "idle"
        /\ task[s] # "idle" => s[1] \in Used
        /\ spc \notin BeforeTasks /\ s[1] \in Used => task[s] # "idle"
        /\ s[2] \notin hit =>
            /\ task[s] = "done" => s \in full
            /\ task[s] \in {"write", "done"} =>
                    (s \in tmps <=> pos[s[2]] <= s[1])

\* Where no fault has struck, the merge has read every position before the
\* one it is at, and the piece is on disk until it is in its place.
MergedBy(t) ==
    /\ pos[t] <= Len(list) + 1
    /\ merge[t] = "idle" => pos[t] = 1 /\ buf[t] = {}
    /\ merge[t] = "done" => pos[t] = Len(list) + 1
    /\ t \in pieces => merge[t] = "done"
    /\ t \notin hit =>
        /\ buf[t] = 1 .. (pos[t] - 1)
        /\ merge[t] = "done" /\ t >= at => t \in pieces /\ piece[t] = Used
        /\ t < at => t \notin pieces /\ slice[t] = Used

Merging == \A t \in Threads : MergedBy(t)

\* Nothing of the tmp directory changes after its removal was tried.
Ending ==
    /\ spc \in AfterJoin \ {"rmtmp"} => (tmpDir => tmps # {})
    /\ spc \in {"publish", "published"} /\ source = "server" /\ faults = 0 =>
            waiting = "intact"

IndInv ==
    /\ TypeInv
    /\ spc # "lost" => Listed /\ Temporaries /\ Merging /\ Ending

-----------------------------------------------------------------------------

LEMMA InvInit == Init => IndInv
<1> SUFFICES ASSUME Init PROVE IndInv
  OBVIOUS
<1> USE DerivationAssumption DEF Init
<1>1. TypeOK
  <2>1. list \in Seq(Names)
    BY DEF Names
  <2>2. /\ 1 \in 1 .. (FILE_NUM + 1) /\ 1 \in 1 .. (THREAD_NUM + 1)
        /\ 0 \in 0 .. MaxFaults
    OBVIOUS
  <2>3. /\ buf \in [Threads -> SUBSET Positions]
        /\ piece \in [Threads -> Contents] /\ slice \in [Threads -> Contents]
    BY DEF Contents
  <2>4. /\ task \in [Slots -> {"idle", "open", "write", "done"}]
        /\ merge \in [Threads -> {"idle", "read", "done"}]
        /\ pos \in [Threads -> 1 .. (FILE_NUM + 1)]
    BY <2>2
  <2>5. usable \subseteq Names /\ unread \subseteq Names
    OBVIOUS
  <2> HIDE DerivationAssumption
  <2> QED
    BY <2>1, <2>2, <2>3, <2>4, <2>5, Zenon DEF TypeOK, ScriptPcs
<1>2. Phases
  BY DEF Phases, BeforeTasks, BeforeMerge, Listing, AfterJoin, Threads
<1>3. Listed
  BY DEF Listed, Used, Listing
<1>4. Temporaries
  BY DEF Temporaries, Slots, Positions, Threads, BeforeTasks, Listing
<1>5. Merging
  BY DEF Merging, MergedBy, Used, Threads
<1>6. Ending
  BY DEF Ending, AfterJoin
<1> QED
  BY <1>1, <1>2, <1>3, <1>4, <1>5, <1>6 DEF IndInv, TypeInv

\* What a step is: one action of the script, of a task, or a failure.
LEMMA StepKinds ==
  ASSUME [Next]_vars
  PROVE  \/ MakeDirs \/ ReadEnd \/ Pick \/ Derive \/ Await \/ Merge \/ Join
         \/ RemoveTmp \/ Assemble \/ Write \/ Waiting \/ Publish
         \/ \E f \in Names : ReadEntry(f)
         \/ \E s \in Slots : \/ TmpOpen(s) \/ TmpWrite(s)
                             \/ TmpOpenFails(s) \/ TmpWriteFails(s)
         \/ \E t \in Threads : \/ MergeRead(t) \/ MergeXor(t) \/ MergeCrash(t)
                               \/ MergeReadFails(t) \/ MergeWriteFails(t)
         \/ ReadCut \/ AssembleFails \/ WriteShort \/ WaitingFails
         \/ GivesUp \/ ScriptStops
         \/ UNCHANGED vars
  BY DEF Next, Script, Task, Failure

\* The files that Pick draws.
LEMMA DrawnList ==
  ASSUME NEW drawn \in Injection(Positions, 1 .. Len(list)),
         list \in Seq(Names), FILE_NUM \in Nat,
         list' = [i \in Positions |-> list[drawn[i]]]
  PROVE  /\ list' \in Seq(Names) /\ Len(list') = FILE_NUM
         /\ \A i \in 1 .. FILE_NUM : /\ drawn[i] \in 1 .. Len(list)
                                     /\ list'[i] = list[drawn[i]]
         /\ \A i, j \in 1 .. FILE_NUM : drawn[i] = drawn[j] => i = j
<1>1. drawn \in [Positions -> 1 .. Len(list)]
  BY DEF Injection
<1>2. \A i, j \in Positions : drawn[i] = drawn[j] => i = j
  BY DEF Injection, IsInjective
<1> QED
  BY <1>1, <1>2 DEF Positions

\* When tasks run.
LEMMA TaskPhases ==
  ASSUME TypeInv
  PROVE  /\ Threads = 1 .. THREAD_NUM /\ THREAD_NUM \in Nat \ {0}
         /\ Positions = 1 .. FILE_NUM /\ FILE_NUM \in Nat \ {0}
         /\ \A s \in Slots : s[1] \in Positions /\ s[2] \in Threads
                           /\ s = <<s[1], s[2]>>
         /\ \A i \in Positions, t \in Threads : <<i, t>> \in Slots
         /\ \A t \in Threads : MergeStep(t) =>
                spc = "join" /\ Len(list) \in Positions
         /\ \A s \in Slots : spc # "lost" /\ task[s] \in {"open", "write"} =>
                spc = "await"
         /\ spc \in BeforeTasks \cup AfterJoin
                    \cup {"await", "merge", "join", "lost"}
         /\ spc \notin Listing \cup {"lost"} => Len(list) \in Positions
<1>1. spc \in BeforeTasks \cup {"await", "merge", "join", "lost"} \cup AfterJoin
  BY DEF TypeInv, TypeOK, ScriptPcs, BeforeTasks, Listing, AfterJoin
<1>2. /\ Threads = 1 .. THREAD_NUM /\ THREAD_NUM \in Nat \ {0}
      /\ Positions = 1 .. FILE_NUM /\ FILE_NUM \in Nat \ {0}
  BY DerivationAssumption DEF Threads, Positions
<1>3. /\ \A s \in Slots : s[1] \in Positions /\ s[2] \in Threads
                         /\ s = <<s[1], s[2]>>
      /\ \A i \in Positions, t \in Threads : <<i, t>> \in Slots
  BY DEF Slots
<1>4. \A s \in Slots : spc # "lost" /\ task[s] \in {"open", "write"} =>
            spc = "await"
  BY <1>1 DEF TypeInv, Phases
<1>5. spc \notin Listing \cup {"lost"} => Len(list) \in Positions
  BY DEF TypeInv, TypeOK, Listing
<1>6. ASSUME NEW t \in Threads, MergeStep(t)
      PROVE  spc = "join" /\ Len(list) \in Positions
  BY <1>1, <1>5, <1>6
     DEF TypeInv, Phases, BeforeMerge, BeforeTasks, Listing, AfterJoin, MergeStep
<1> QED
  BY <1>1, <1>2, <1>3, <1>4, <1>5, <1>6

\* What a failure counts.
LEMMA FailureTypes ==
  TypeInv /\ Failure => hit' \subseteq Threads /\ faults' \in 0 .. MaxFaults
<1> SUFFICES ASSUME TypeInv, Failure
             PROVE  hit' \subseteq Threads /\ faults' \in 0 .. MaxFaults
  OBVIOUS
<1>1. PICK touched : Fault(touched) /\ touched \subseteq Threads
  <2>1. \A s \in Slots : {s[2]} \subseteq Threads
    BY TaskPhases
  <2>2. AssembleFails => {at} \subseteq Threads
    BY DEF AssembleFails, ScriptGoto, TypeInv, Phases
  <2>3. CASE \E s \in Slots : TmpOpenFails(s) \/ TmpWriteFails(s)
    <3>1. PICK s \in Slots : Fault({s[2]})
      BY <2>3, Zenon DEF TmpOpenFails, TmpWriteFails
    <3> QED
      BY <2>1, <3>1
  <2>4. CASE \E t \in Threads : MergeReadFails(t) \/ MergeWriteFails(t)
    <3>1. PICK t \in Threads : Fault({t})
      BY <2>4, Zenon DEF MergeReadFails, MergeWriteFails
    <3> QED
      BY <3>1
  <2>5. CASE AssembleFails
    BY <2>2, <2>5, Zenon DEF AssembleFails
  <2>6. CASE ReadCut \/ WriteShort \/ WaitingFails \/ GivesUp \/ ScriptStops
    <3>1. Fault({}) \/ Fault(Threads)
      BY <2>6, Zenon DEF ReadCut, WriteShort, WaitingFails, GivesUp, ScriptStops
    <3> QED
      BY <3>1
  <2> QED
    BY <2>3, <2>4, <2>5, <2>6, Zenon DEF Failure
<1> QED
  BY <1>1, DerivationAssumption DEF Fault, TypeInv, TypeOK

\* Every step keeps the types, and the order of the phases.
LEMMA TypeStep ==
  TypeInv /\ [Next]_vars => TypeInv'
<1> SUFFICES ASSUME TypeInv, [Next]_vars PROVE TypeInv'
  OBVIOUS
<1>0. /\ Threads = 1 .. THREAD_NUM /\ THREAD_NUM \in Nat \ {0}
      /\ Positions = 1 .. FILE_NUM /\ FILE_NUM \in Nat \ {0}
      /\ \A s \in Slots : s[2] \in Threads
      /\ \A i \in Positions, t \in Threads : <<i, t>> \in Slots
  BY TaskPhases
<1>a. {0} \in Contents /\ {} \in Contents
      /\ \A b \in SUBSET Positions : b \in Contents
  BY <1>0 DEF Contents
<1> USE DEF TypeInv, TypeOK, Phases, ScriptGoto, NoFault, givenVars,
            mergeVars, tmpVars, pieceVars, scriptVars, ScriptPcs,
            BeforeTasks, BeforeMerge, AfterJoin, Listing
<1>1. CASE MakeDirs
  BY <1>1 DEF MakeDirs
<1>2. CASE ReadEnd
  BY <1>2 DEF ReadEnd
<1>3. CASE Pick
  <2>1. /\ list' \in Seq(Names)
        /\ spc' # "lost" => Len(list') \in Positions
    <3>1. CASE Len(list) <= FILE_NUM
      BY <1>0, <1>3, <3>1 DEF Pick
    <3>2. CASE ~(Len(list) <= FILE_NUM)
      <4>1. PICK drawn \in Injection(Positions, 1 .. Len(list)) :
                list' = [i \in Positions |-> list[drawn[i]]]
        BY <1>3, <3>2 DEF Pick
      <4> QED
        BY <1>0, <4>1, DrawnList
    <3> QED
      BY <3>1, <3>2
  <2> QED
    BY <1>3, <2>1 DEF Pick
<1>4. CASE Derive
  BY <1>4 DEF Derive
<1>5. CASE Await
  BY <1>5 DEF Await
<1>6. CASE Merge
  BY <1>6 DEF Merge
<1>7. CASE Join
  BY <1>7 DEF Join
<1>8. CASE RemoveTmp
  BY <1>0, <1>8 DEF RemoveTmp
<1>9. CASE Assemble
  BY <1>0, <1>9, <1>a DEF Assemble
<1>10. CASE Write
  BY <1>10 DEF Write
<1>11. CASE Waiting
  BY <1>11 DEF Waiting
<1>12. CASE Publish
  BY <1>12 DEF Publish
<1>13. ASSUME NEW f \in Names, ReadEntry(f) PROVE TypeInv'
  BY <1>13 DEF ReadEntry
<1>14. ASSUME NEW s \in Slots,
              TmpOpen(s) \/ TmpWrite(s) \/ TmpOpenFails(s) \/ TmpWriteFails(s)
       PROVE TypeInv'
  <2>1. spc = "await"
    <3>1. spc # "lost" /\ task[s] \in {"open", "write"}
      BY <1>14, Zenon
         DEF TmpOpen, TmpWrite, TmpOpenFails, TmpWriteFails, TaskGoto
    <3> QED
      BY <3>1, TaskPhases
  <2>2. CASE TmpOpen(s)
    BY <2>1, <2>2 DEF TmpOpen, TaskGoto
  <2>3. CASE TmpWrite(s)
    BY <2>1, <2>3 DEF TmpWrite, TaskGoto
  <2>4. CASE TmpOpenFails(s)
    <3>1. hit' \subseteq Threads /\ faults' \in 0 .. MaxFaults
      BY <2>4, FailureTypes DEF Failure
    <3> QED
      BY <2>1, <2>4, <3>1 DEF TmpOpenFails, TaskGoto
  <2>5. CASE TmpWriteFails(s)
    <3>1. hit' \subseteq Threads /\ faults' \in 0 .. MaxFaults
      BY <2>5, FailureTypes DEF Failure
    <3> QED
      BY <2>1, <2>5, <3>1 DEF TmpWriteFails, TaskGoto
  <2> QED
    BY <1>14, <2>2, <2>3, <2>4, <2>5
<1>15. ASSUME NEW t \in Threads,
              \/ MergeRead(t) \/ MergeXor(t) \/ MergeCrash(t)
              \/ MergeReadFails(t) \/ MergeWriteFails(t)
       PROVE TypeInv'
  <2>1. spc = "join" /\ Len(list) \in Positions
    <3>1. MergeStep(t)
      BY <1>15, Zenon DEF MergeRead, MergeXor, MergeCrash, MergeReadFails,
                          MergeWriteFails
    <3> QED
      BY <3>1, TaskPhases
  <2>2. CASE MergeRead(t)
    BY <1>0, <2>1, <2>2 DEF MergeRead, MergeStep
  <2>3. CASE MergeXor(t)
    BY <1>0, <1>a, <2>1, <2>3 DEF MergeXor, MergeStep
  <2>4. CASE MergeCrash(t)
    BY <2>1, <2>4 DEF MergeCrash, MergeStep
  <2>5. CASE MergeReadFails(t)
    <3>1. hit' \subseteq Threads /\ faults' \in 0 .. MaxFaults
      BY <2>5, FailureTypes DEF Failure
    <3> QED
      <4>1. /\ pos' \in [Threads -> 1 .. (FILE_NUM + 1)]
            /\ buf' \in [Threads -> SUBSET Positions]
        BY <1>0, <2>1, <2>5 DEF MergeReadFails
      <4>2. UNCHANGED <<givenVars, scriptVars, task, tmpDir, tmpVars, pieceVars,
                        slice, waiting, cut, merge>>
        BY <2>5 DEF MergeReadFails, MergeStep
      <4> QED
        BY <2>1, <3>1, <4>1, <4>2
  <2>6. CASE MergeWriteFails(t)
    <3>1. hit' \subseteq Threads /\ faults' \in 0 .. MaxFaults
      BY <2>6, FailureTypes DEF Failure
    <3>2. pieces' \subseteq Threads /\ piece' \in [Threads -> Contents]
      <4>1. CASE UNCHANGED pieceVars
        BY <4>1
      <4>2. CASE /\ pieces' = pieces \cup {t}
                 /\ piece' = [piece EXCEPT ![t] = {0}]
        BY <1>a, <4>2
      <4> QED
        BY <2>6, <4>1, <4>2 DEF MergeWriteFails
    <3>3. /\ merge' \in [Threads -> {"idle", "read", "done"}]
          /\ \A u \in Threads : merge[u] # "idle" => merge'[u] # "idle"
      BY <2>6 DEF MergeWriteFails
    <3>4. UNCHANGED <<givenVars, scriptVars, task, tmpDir, tmpVars, slice,
                      waiting, cut, pos, buf>>
      BY <2>6 DEF MergeWriteFails, MergeStep
    <3> QED
      BY <2>1, <3>1, <3>2, <3>3, <3>4
  <2> QED
    BY <1>15, <2>2, <2>3, <2>4, <2>5, <2>6
<1>16. CASE ReadCut
  <2>1. hit' \subseteq Threads /\ faults' \in 0 .. MaxFaults
    BY <1>16, FailureTypes DEF Failure
  <2> QED
    BY <1>16, <2>1 DEF ReadCut
<1>17. CASE AssembleFails
  <2>1. hit' \subseteq Threads /\ faults' \in 0 .. MaxFaults
    BY <1>17, FailureTypes DEF Failure
  <2> QED
    <3>1. /\ at' \in 1 .. (THREAD_NUM + 1)
          /\ spc = "assemble" /\ at \in Threads
          /\ \/ spc' = "assemble" /\ at' \in Threads
             \/ spc' = "write" /\ at' = THREAD_NUM + 1
      <4>1. spc = "assemble" /\ at \in Threads /\ at' = at + 1
        BY <1>17 DEF AssembleFails
      <4> QED
        BY <1>0, <1>17, <4>1 DEF AssembleFails
    <3>2. slice' \in [Threads -> Contents]
      <4>1. \/ UNCHANGED slice
            \/ at \in Threads /\ slice' = [slice EXCEPT ![at] = piece[at]]
        BY <1>17 DEF AssembleFails
      <4> QED
        BY <4>1
    <3>3. UNCHANGED <<givenVars, unread, list, task, mergeVars, tmpDir, tmpVars,
                      pieceVars, waiting, cut>>
      BY <1>17 DEF AssembleFails
    <3> QED
      BY <2>1, <3>1, <3>2, <3>3
<1>18. CASE WriteShort
  <2>1. hit' \subseteq Threads /\ faults' \in 0 .. MaxFaults
    BY <1>18, FailureTypes DEF Failure
  <2> QED
    BY <1>0, <1>a, <1>18, <2>1 DEF WriteShort
<1>19. CASE WaitingFails
  <2>1. hit' \subseteq Threads /\ faults' \in 0 .. MaxFaults
    BY <1>19, FailureTypes DEF Failure
  <2> QED
    BY <1>19, <2>1 DEF WaitingFails
<1>20. CASE GivesUp
  <2>1. hit' \subseteq Threads /\ faults' \in 0 .. MaxFaults
    BY <1>20, FailureTypes DEF Failure
  <2> QED
    BY <1>20, <2>1 DEF GivesUp
<1>21. CASE ScriptStops
  <2>1. hit' \subseteq Threads /\ faults' \in 0 .. MaxFaults
    BY <1>21, FailureTypes DEF Failure
  <2> QED
    BY <1>21, <2>1 DEF ScriptStops
<1>22. CASE UNCHANGED vars
  BY <1>22 DEF vars
<1> QED
  BY <1>1, <1>2, <1>3, <1>4, <1>5, <1>6, <1>7, <1>8, <1>9, <1>10, <1>11,
     <1>12, <1>13, <1>14, <1>15, <1>16, <1>17, <1>18, <1>19, <1>20, <1>21,
     <1>22, StepKinds

\* The variables keep their types.
THEOREM TypeCorrect == Spec => []TypeOK
<1>1. Init => TypeInv
  BY InvInit DEF IndInv
<1>2. TypeInv => TypeOK
  BY DEF TypeInv
<1> QED
  BY <1>1, <1>2, TypeStep, PTL DEF Spec

-----------------------------------------------------------------------------
(* The rest of the invariant, part by part.                                *)

\* Nothing happens after the script is gone.
LEMMA NotLost == [Next]_vars /\ spc' # "lost" => spc # "lost"
<1> SUFFICES ASSUME [Next]_vars, spc = "lost" PROVE spc' = "lost"
  OBVIOUS
<1> QED
  BY StepKinds, Zenon
     DEF MakeDirs, ReadEnd, Pick, Derive, Await, Merge, Join, RemoveTmp,
         Assemble, Write, Waiting, Publish, ReadEntry, TmpOpen, TmpWrite,
         TmpOpenFails, TmpWriteFails, MergeRead, MergeXor, MergeCrash,
         MergeReadFails, MergeWriteFails, ReadCut, AssembleFails, WriteShort,
         WaitingFails, GivesUp, ScriptStops, vars, ScriptGoto, TaskGoto,
         MergeStep, scriptVars

\* The list is made while the directory is read, and cut once.
LEMMA ListedStep ==
  IndInv /\ [Next]_vars /\ spc' # "lost" => Listed'
<1> SUFFICES ASSUME IndInv, [Next]_vars, spc' # "lost" PROVE Listed'
  OBVIOUS
<1>0. TypeOK /\ Listed /\ list \in Seq(Names) /\ FILE_NUM \in Nat \ {0}
  BY NotLost, DerivationAssumption DEF IndInv, TypeInv, TypeOK
<1>1. ASSUME UNCHANGED <<usable, unread, list, cut>>, spc \notin Listing,
             spc' \notin Listing
      PROVE  Listed'
  BY <1>0, <1>1 DEF Listed, Used, Listing
<1>2. CASE MakeDirs
  BY <1>0, <1>2 DEF MakeDirs, ScriptGoto, givenVars, Listed, Used, Listing
<1>3. ASSUME NEW f \in Names, ReadEntry(f) PROVE Listed'
  <2>1. CASE f \in usable
    BY <1>0, <1>3, <2>1, AppendProperties
       DEF ReadEntry, ScriptGoto, givenVars, Listed, Used, Listing
  <2>2. CASE f \notin usable
    BY <1>0, <1>3, <2>2
       DEF ReadEntry, ScriptGoto, givenVars, Listed, Used, Listing
  <2> QED
    BY <2>1, <2>2
<1>4. CASE ReadEnd
  BY <1>0, <1>4 DEF ReadEnd, ScriptGoto, givenVars, Listed, Used, Listing
<1>5. CASE ReadCut
  BY <1>0, <1>5 DEF ReadCut, ScriptGoto, givenVars, Listed, Used, Listing
<1>6. CASE Pick
  <2>1. CASE Len(list) <= FILE_NUM
    BY <1>0, <1>6, <2>1
       DEF Pick, ScriptGoto, givenVars, Listed, Used, Listing
  <2>2. CASE ~(Len(list) <= FILE_NUM)
    <3>1. PICK drawn \in Injection(Positions, 1 .. Len(list)) :
              list' = [i \in Positions |-> list[drawn[i]]]
      BY <1>6, <2>2 DEF Pick
    <3>2. /\ Len(list') = FILE_NUM
          /\ \A i \in 1 .. FILE_NUM : /\ drawn[i] \in 1 .. Len(list)
                                      /\ list'[i] = list[drawn[i]]
          /\ \A i, j \in 1 .. FILE_NUM : drawn[i] = drawn[j] => i = j
      BY <1>0, <3>1, DrawnList
    <3>3. spc' = "derive" /\ UNCHANGED <<usable, unread, cut>>
      BY <1>6 DEF Pick, ScriptGoto, givenVars
    <3>4. \A i \in 1 .. FILE_NUM : list'[i] \in usable
      BY <1>0, <3>2 DEF Listed, Used
    <3>5. ASSUME NEW i \in 1 .. FILE_NUM, NEW j \in 1 .. FILE_NUM,
                 list'[i] = list'[j]
          PROVE  i = j
      <4>1. drawn[i] = drawn[j]
        BY <1>0, <3>2, <3>5 DEF Listed, Used
      <4> QED
        BY <3>2, <4>1
    <3>6. Used' = 1 .. FILE_NUM
      BY <3>2 DEF Used
    <3> QED
      BY <3>2, <3>3, <3>4, <3>5, <3>6 DEF Listed, Listing
  <2> QED
    BY <2>1, <2>2
<1>7. CASE \/ Derive \/ Await \/ Merge \/ Join \/ RemoveTmp \/ Assemble \/ Write
           \/ Waiting \/ Publish \/ AssembleFails \/ WriteShort \/ WaitingFails
  BY <1>1, <1>7
     DEF Derive, Await, Merge, Join, RemoveTmp, Assemble, Write, Waiting,
         Publish, AssembleFails, WriteShort, WaitingFails, ScriptGoto,
         givenVars, Listing
<1>8. ASSUME NEW s \in Slots,
             TmpOpen(s) \/ TmpWrite(s) \/ TmpOpenFails(s) \/ TmpWriteFails(s)
      PROVE  Listed'
  <2>1. /\ UNCHANGED <<spc, usable, unread, list, cut>>
        /\ spc # "lost" /\ task[s] \in {"open", "write"}
    BY <1>8, Zenon DEF TmpOpen, TmpWrite, TmpOpenFails, TmpWriteFails, TaskGoto,
                       givenVars, scriptVars
  <2>2. spc \notin Listing
    BY <2>1, TaskPhases DEF IndInv, Listing
  <2> QED
    BY <1>1, <2>1, <2>2
<1>9. ASSUME NEW t \in Threads,
             \/ MergeRead(t) \/ MergeXor(t) \/ MergeCrash(t)
             \/ MergeReadFails(t) \/ MergeWriteFails(t)
      PROVE  Listed'
  <2>1. MergeStep(t) /\ UNCHANGED <<usable, unread, list, cut>>
    BY <1>9, Zenon DEF MergeRead, MergeXor, MergeCrash, MergeReadFails,
                       MergeWriteFails, MergeStep, givenVars
  <2>2. spc' = spc
    BY <1>9 DEF MergeRead, MergeXor, MergeCrash, MergeReadFails,
                MergeWriteFails
  <2>3. spc \notin Listing
    BY <2>1, TaskPhases DEF IndInv, Listing
  <2> QED
    BY <1>1, <2>1, <2>2, <2>3
<1>10. CASE GivesUp \/ ScriptStops
  BY <1>10 DEF GivesUp, ScriptStops, ScriptGoto
<1>11. CASE UNCHANGED vars
  BY <1>0, <1>11 DEF vars, givenVars, scriptVars, Listed, Used
<1> QED
  BY <1>2, <1>3, <1>4, <1>5, <1>6, <1>7, <1>8, <1>9, <1>10, <1>11, StepKinds

\* A temporary file appears with its task and goes with its merge.
LEMMA TemporariesStep ==
  IndInv /\ [Next]_vars /\ spc' # "lost" => Temporaries'
<1> SUFFICES ASSUME IndInv, [Next]_vars, spc' # "lost" PROVE Temporaries'
  OBVIOUS
<1>0. TypeOK /\ TypeInv /\ Phases /\ Temporaries /\ Merging
  BY NotLost DEF IndInv, TypeInv
<1>a. \A t \in Threads : pos[t] \in Nat
  BY <1>0, DerivationAssumption DEF TypeOK
<1>1. ASSUME UNCHANGED <<task, tmpVars, list, pos>>, hit \subseteq hit',
             spc \in BeforeTasks <=> spc' \in BeforeTasks
      PROVE  Temporaries'
  BY <1>0, <1>1 DEF Temporaries, Used, tmpVars
<1>2. CASE \/ MakeDirs \/ ReadEnd \/ Await \/ Merge \/ Join \/ RemoveTmp
           \/ Assemble \/ Write \/ Waiting \/ Publish \/ ReadCut
           \/ AssembleFails \/ WriteShort \/ WaitingFails
  BY <1>1, <1>2
     DEF MakeDirs, ReadEnd, Await, Merge, Join, RemoveTmp, Assemble, Write,
         Waiting, Publish, ReadCut, AssembleFails, WriteShort, WaitingFails,
         ScriptGoto, mergeVars, NoFault, Fault, BeforeTasks, Listing
<1>3. ASSUME Pick \/ \E f \in Names : ReadEntry(f) PROVE Temporaries'
  <2>1. /\ spc \in BeforeTasks /\ spc' \in BeforeTasks
        /\ UNCHANGED <<task, tmpVars, pos, hit>>
    BY <1>3 DEF Pick, ReadEntry, ScriptGoto, mergeVars, NoFault, BeforeTasks,
                Listing
  <2>2. \A s \in Slots : task[s] = "idle"
    BY <1>0, <2>1 DEF Phases
  <2> QED
    BY <1>0, <2>1, <2>2 DEF Temporaries, tmpVars
<1>4. CASE Derive
  <2>1. /\ spc = "derive" /\ spc' = "await"
        /\ UNCHANGED <<list, pos, hit, tmps, full>>
        /\ task' = [s \in Slots |-> IF s[1] \in Used THEN "open" ELSE "idle"]
    BY <1>4 DEF Derive, ScriptGoto, mergeVars, tmpVars, NoFault
  <2>2. tmps \cap Slots = {}
    BY <1>0, <2>1 DEF Phases, Temporaries, BeforeTasks
  <2>3. Used' = Used
    BY <2>1 DEF Used
  <2> QED
    BY <2>1, <2>2, <2>3 DEF Temporaries
<1>5. ASSUME NEW s \in Slots,
             TmpOpen(s) \/ TmpWrite(s) \/ TmpOpenFails(s) \/ TmpWriteFails(s)
      PROVE  Temporaries'
  <2>1. /\ UNCHANGED <<spc, list, pos>>
        /\ spc # "lost" /\ task[s] \in {"open", "write"}
        /\ \A r \in Slots \ {s} : task'[r] = task[r]
        /\ hit \subseteq hit'
    BY <1>0, <1>5 DEF TmpOpen, TmpWrite, TmpOpenFails, TmpWriteFails, TaskGoto,
                      scriptVars, mergeVars, TypeOK, NoFault, Fault
  <2>2. spc = "await"
    BY <1>0, <2>1, TaskPhases
  <2>3. pos[s[2]] = 1 /\ s[1] \in Nat /\ 1 <= s[1] /\ s[2] \in Threads
    BY <1>0, <2>2, TaskPhases
       DEF Phases, Merging, MergedBy, BeforeMerge
  <2>4. Used' = Used
    BY <2>1 DEF Used
  <2>5. CASE TmpOpen(s)
    <3>1. tmps' = tmps \cup {s} /\ task'[s] = "write" /\ UNCHANGED <<full, hit>>
      BY <1>0, <2>5 DEF TmpOpen, TaskGoto, TypeOK, NoFault
    <3> QED
      BY <1>0, <2>1, <2>2, <2>3, <2>4, <3>1 DEF Temporaries
  <2>6. CASE TmpWrite(s)
    <3>1. /\ full' = full \cup {s} /\ task[s] = "write" /\ task'[s] = "done"
          /\ UNCHANGED <<tmps, hit>>
      BY <1>0, <2>6 DEF TmpWrite, TaskGoto, TypeOK, NoFault
    <3> QED
      BY <1>0, <2>1, <2>2, <2>3, <2>4, <3>1 DEF Temporaries
  <2>7. CASE TmpOpenFails(s) \/ TmpWriteFails(s)
    <3>1. task'[s] = "done" /\ s[2] \in hit' /\ UNCHANGED <<tmps, full>>
      BY <1>0, <2>7
         DEF TmpOpenFails, TmpWriteFails, TaskGoto, TypeOK, Fault, tmpVars
    <3> QED
      BY <1>0, <2>1, <2>2, <2>3, <2>4, <3>1 DEF Temporaries
  <2> QED
    BY <1>5, <2>5, <2>6, <2>7
<1>6. ASSUME NEW t \in Threads, MergeRead(t) PROVE Temporaries'
  <2>1. /\ spc = "join" /\ UNCHANGED <<spc, list, task, full, hit>>
        /\ pos'[t] = pos[t] + 1 /\ \A u \in Threads \ {t} : pos'[u] = pos[u]
        /\ tmps' = tmps \ {<<pos[t], t>>}
    BY <1>0, <1>6, TaskPhases DEF MergeRead, MergeStep, NoFault, TypeOK
  <2>2. \A s \in Slots : s = <<s[1], s[2]>> /\ s[1] \in Nat /\ s[2] \in Threads
    BY <1>0, TaskPhases
  <2>3. Used' = Used
    BY <2>1 DEF Used
  <2>4. \A s \in Slots : s[2] = t => (s \in tmps' <=> s \in tmps /\ s[1] # pos[t])
    BY <2>1, <2>2
  <2>5. \A s \in Slots : s[2] # t => (s \in tmps' <=> s \in tmps)
    BY <2>1, <2>2
  <2> QED
    BY <1>0, <1>a, <2>1, <2>2, <2>3, <2>4, <2>5 DEF Temporaries
<1>7. ASSUME NEW t \in Threads, MergeReadFails(t) PROVE Temporaries'
  <2>1. /\ UNCHANGED <<spc, list, task, full, tmps>>
        /\ \A u \in Threads \ {t} : pos'[u] = pos[u]
        /\ hit' = hit \cup {t}
    BY <1>0, <1>7, TaskPhases DEF MergeReadFails, MergeStep, Fault, TypeOK
  <2>2. \A s \in Slots : s[2] \in Threads
    BY <1>0, TaskPhases
  <2> QED
    BY <1>0, <2>1, <2>2 DEF Temporaries, Used
<1>8. ASSUME NEW t \in Threads,
             MergeXor(t) \/ MergeCrash(t) \/ MergeWriteFails(t)
      PROVE  Temporaries'
  <2>1. UNCHANGED <<task, tmpVars, list, pos, spc>> /\ hit \subseteq hit'
    BY <1>8 DEF MergeXor, MergeCrash, MergeWriteFails, MergeStep, NoFault,
                Fault, tmpVars, mergeVars
  <2> QED
    BY <1>1, <2>1
<1>9. CASE GivesUp \/ ScriptStops
  BY <1>9 DEF GivesUp, ScriptStops, ScriptGoto
<1>10. CASE UNCHANGED vars
  BY <1>1, <1>10 DEF vars, scriptVars, mergeVars
<1> QED
  BY <1>2, <1>3, <1>4, <1>5, <1>6, <1>7, <1>8, <1>9, <1>10, StepKinds

\* A piece without a fault is the XOR of the whole list, and in its place.
LEMMA MergingStep ==
  IndInv /\ [Next]_vars /\ spc' # "lost" => Merging'
<1> SUFFICES ASSUME IndInv, [Next]_vars, spc' # "lost" PROVE Merging'
  OBVIOUS
<1>0. TypeOK /\ TypeInv /\ Phases /\ Temporaries /\ Merging
  BY NotLost DEF IndInv, TypeInv
<1>a. /\ \A t \in Threads : pos[t] \in Nat \ {0} /\ t \in Nat \ {0}
      /\ at \in Nat /\ Len(list) \in Nat
  BY <1>0, DerivationAssumption DEF TypeOK, Threads
<1>1. ASSUME UNCHANGED <<mergeVars, pieceVars, slice, list, at>>,
             hit \subseteq hit'
      PROVE  Merging'
  BY <1>0, <1>1 DEF Merging, MergedBy, Used, mergeVars, pieceVars
<1>2. CASE \/ MakeDirs \/ ReadEnd \/ Derive \/ Await \/ Join \/ RemoveTmp
           \/ Write \/ Waiting \/ Publish \/ ReadCut \/ WaitingFails
  BY <1>1, <1>2
     DEF MakeDirs, ReadEnd, Derive, Await, Join, RemoveTmp, Write, Waiting,
         Publish, ReadCut, WaitingFails, NoFault, Fault
<1>3. ASSUME Pick \/ \E f \in Names : ReadEntry(f) PROVE Merging'
  <2>1. /\ spc \in BeforeMerge /\ Len(list') \in Nat
        /\ UNCHANGED <<merge, pos, buf, pieces, slice, at, hit>>
    <3>1. list' \in Seq(Names)
      BY <1>0, <1>3, TypeStep DEF TypeInv, TypeOK
    <3> QED
      BY <1>3, <3>1 DEF Pick, ReadEntry, ScriptGoto, mergeVars, pieceVars,
                NoFault, BeforeMerge, BeforeTasks, Listing
  <2>2. at = 1 /\ \A t \in Threads : merge[t] = "idle"
    BY <1>0, <2>1 DEF Phases
  <2> QED
    BY <1>0, <1>a, <2>1, <2>2 DEF Merging, MergedBy
<1>4. CASE Merge
  <2>1. /\ at = 1 /\ \A t \in Threads : merge[t] = "idle"
        /\ merge' = [t \in Threads |-> "read"]
        /\ UNCHANGED <<list, at, pos, buf, pieces, piece, slice, hit>>
    BY <1>0, <1>4 DEF Merge, ScriptGoto, Phases, BeforeMerge, pieceVars, NoFault
  <2> QED
    BY <1>0, <1>a, <2>1 DEF Merging, MergedBy, Used
<1>5. CASE Assemble \/ AssembleFails
  <2>1. /\ spc = "assemble" /\ at \in Threads
        /\ \A t \in Threads : merge[t] = "done"
    BY <1>0, <1>5 DEF Assemble, AssembleFails, ScriptGoto, Phases, AfterJoin
  <2>2. CASE Assemble
    <3>1. /\ at' = at + 1 /\ pieces' = pieces \ {at}
          /\ slice' = [slice EXCEPT ![at] = IF at \in pieces THEN piece[at] ELSE {}]
          /\ UNCHANGED <<list, merge, pos, buf, piece, hit>>
      BY <2>2 DEF Assemble, mergeVars, NoFault
    <3>2. /\ slice'[at] = IF at \in pieces THEN piece[at] ELSE {}
          /\ \A t \in Threads \ {at} : slice'[t] = slice[t]
      BY <1>0, <2>1, <3>1 DEF TypeOK
    <3> QED
      BY <1>0, <1>a, <2>1, <3>1, <3>2 DEF Merging, MergedBy, Used
  <2>3. CASE AssembleFails
    <3>1. /\ at' = at + 1 /\ hit' = hit \cup {at}
          /\ \A t \in Threads \ {at} : slice'[t] = slice[t]
          /\ UNCHANGED <<list, merge, pos, buf, pieces, piece>>
      BY <1>0, <2>3 DEF AssembleFails, mergeVars, pieceVars, Fault, TypeOK
    <3>2. ASSUME NEW u \in Threads PROVE MergedBy(u)'
      <4>1. CASE u = at
        BY <1>0, <1>a, <2>1, <3>1, <4>1 DEF Merging, MergedBy, Used
      <4>2. CASE u # at
        BY <1>0, <1>a, <2>1, <3>1, <4>2 DEF Merging, MergedBy, Used
      <4> QED
        BY <4>1, <4>2
    <3> QED
      BY <3>2 DEF Merging
  <2> QED
    BY <1>5, <2>2, <2>3
<1>6. CASE WriteShort
  <2>1. hit' = hit \cup Threads /\ UNCHANGED <<list, at, mergeVars, pieceVars>>
    BY <1>6 DEF WriteShort, Fault
  <2> QED
    BY <1>0, <2>1 DEF Merging, MergedBy, mergeVars, pieceVars
<1>7. ASSUME NEW t \in Threads, MergeRead(t) PROVE Merging'
  <2>1. /\ spc = "join" /\ Len(list) \in Positions /\ merge[t] = "read"
        /\ pos[t] <= Len(list)
        /\ UNCHANGED <<list, at, merge, pieces, piece, slice, hit>>
        /\ pos'[t] = pos[t] + 1
        /\ \A u \in Threads \ {t} : pos'[u] = pos[u] /\ buf'[u] = buf[u]
        /\ buf'[t] = buf[t] \cup {i \in {pos[t]} : <<i, t>> \in tmps}
    BY <1>0, <1>7, TaskPhases DEF MergeRead, MergeStep, pieceVars, NoFault, TypeOK
  <2>2. ASSUME t \notin hit PROVE buf'[t] = 1 .. (pos'[t] - 1)
    <3>1. <<pos[t], t>> \in Slots /\ pos[t] \in Used
      BY <1>0, <1>a, <2>1, TaskPhases DEF Used
    <3>2. task[<<pos[t], t>>] = "done"
      BY <1>0, <2>1, <3>1
         DEF Temporaries, Phases, BeforeTasks, Listing
    <3>3. <<pos[t], t>> \in tmps
      BY <1>0, <1>a, <2>2, <3>1, <3>2 DEF Temporaries
    <3>4. buf[t] = 1 .. (pos[t] - 1)
      BY <1>0, <2>2 DEF Merging, MergedBy
    <3> QED
      BY <1>a, <2>1, <3>3, <3>4
  <2>3. MergedBy(t)'
    BY <1>0, <1>a, <2>1, <2>2 DEF Merging, MergedBy, Used
  <2>4. ASSUME NEW u \in Threads \ {t} PROVE MergedBy(u)'
    BY <1>0, <1>a, <2>1 DEF Merging, MergedBy, Used
  <2> QED
    BY <2>3, <2>4 DEF Merging
<1>8. ASSUME NEW t \in Threads, MergeReadFails(t) PROVE Merging'
  <2>1. /\ merge[t] = "read" /\ pos[t] <= Len(list)
        /\ UNCHANGED <<list, at, merge, pieces, piece, slice>>
        /\ hit' = hit \cup {t}
        /\ pos'[t] = pos[t] + 1
        /\ \A u \in Threads \ {t} : pos'[u] = pos[u] /\ buf'[u] = buf[u]
    BY <1>0, <1>8 DEF MergeReadFails, MergeStep, pieceVars, Fault, TypeOK
  <2> QED
    BY <1>0, <1>a, <2>1 DEF Merging, MergedBy, Used
<1>9. ASSUME NEW t \in Threads, MergeXor(t) PROVE Merging'
  <2>1. /\ spc = "join" /\ Len(list) \in Positions /\ merge[t] = "read"
        /\ pos[t] > Len(list)
        /\ UNCHANGED <<list, at, pos, buf, slice, hit>>
        /\ merge'[t] = "done" /\ \A u \in Threads \ {t} : merge'[u] = merge[u]
        /\ pieces' = pieces \cup {t}
        /\ piece'[t] = (IF Whole(t) THEN buf[t] ELSE {0})
        /\ \A u \in Threads \ {t} : piece'[u] = piece[u]
    BY <1>0, <1>9, TaskPhases DEF MergeXor, MergeStep, NoFault, TypeOK
  <2>2. at = 1 /\ pos[t] = Len(list) + 1
    BY <1>0, <1>a, <2>1 DEF Phases, Merging, MergedBy
  <2>3. ASSUME t \notin hit PROVE piece'[t] = Used
    <3>1. buf[t] = Used
      BY <1>0, <1>a, <2>2, <2>3 DEF Merging, MergedBy, Used
    <3>2. ASSUME NEW i \in Used PROVE <<i, t>> \in full
      <4>1. <<i, t>> \in Slots
        BY <1>0, <2>1, TaskPhases DEF Used
      <4>2. task[<<i, t>>] = "done"
        BY <1>0, <2>1, <4>1
           DEF Temporaries, Phases, BeforeTasks, Listing
      <4> QED
        BY <1>0, <2>3, <4>1, <4>2 DEF Temporaries
    <3> QED
      BY <2>1, <3>1, <3>2 DEF Whole
  <2>4. Used' = Used
    BY <2>1 DEF Used
  <2>5. MergedBy(t)'
    BY <1>0, <1>a, <2>1, <2>2, <2>3, <2>4 DEF Merging, MergedBy
  <2>6. ASSUME NEW u \in Threads \ {t} PROVE MergedBy(u)'
    BY <1>0, <2>1, <2>4 DEF Merging, MergedBy
  <2> QED
    BY <2>5, <2>6 DEF Merging
<1>10. ASSUME NEW t \in Threads, MergeWriteFails(t) PROVE Merging'
  <2>1. /\ spc = "join" /\ merge[t] = "read" /\ pos[t] > Len(list)
        /\ UNCHANGED <<list, at, pos, buf, slice>>
        /\ merge'[t] = "done" /\ \A u \in Threads \ {t} : merge'[u] = merge[u]
        /\ hit' = hit \cup {t}
        /\ pieces \subseteq pieces' /\ pieces' \subseteq pieces \cup {t}
        /\ \A u \in Threads \ {t} : piece'[u] = piece[u]
    BY <1>0, <1>10, TaskPhases
       DEF MergeWriteFails, MergeStep, pieceVars, Fault, TypeOK
  <2>2. Used' = Used
    BY <2>1 DEF Used
  <2> QED
    BY <1>0, <1>a, <2>1, <2>2 DEF Merging, MergedBy
<1>11. ASSUME NEW t \in Threads, MergeCrash(t) PROVE Merging'
  BY <1>11 DEF MergeCrash
<1>12. ASSUME NEW s \in Slots,
              TmpOpen(s) \/ TmpWrite(s) \/ TmpOpenFails(s) \/ TmpWriteFails(s)
       PROVE  Merging'
  BY <1>1, <1>12
     DEF TmpOpen, TmpWrite, TmpOpenFails, TmpWriteFails, TaskGoto, scriptVars,
         NoFault, Fault
<1>13. CASE GivesUp \/ ScriptStops
  BY <1>13 DEF GivesUp, ScriptStops, ScriptGoto
<1>14. CASE UNCHANGED vars
  BY <1>1, <1>14 DEF vars, scriptVars
<1> QED
  BY <1>2, <1>3, <1>4, <1>5, <1>6, <1>7, <1>8, <1>9, <1>10, <1>11, <1>12,
     <1>13, <1>14, StepKinds

\* The tmp directory and the waiting file.
LEMMA EndingStep ==
  IndInv /\ [Next]_vars /\ spc' # "lost" => Ending'
<1> SUFFICES ASSUME IndInv, [Next]_vars, spc' # "lost" PROVE Ending'
  OBVIOUS
<1>0. TypeOK /\ TypeInv /\ Ending
  BY NotLost DEF IndInv, TypeInv
<1>1. CASE \/ MakeDirs \/ ReadEnd \/ Pick \/ Derive \/ Await \/ Merge \/ Join
           \/ ReadCut \/ \E f \in Names : ReadEntry(f)
  BY <1>1 DEF MakeDirs, ReadEnd, Pick, Derive, Await, Merge, Join, ReadCut,
              ReadEntry, ScriptGoto, Ending, AfterJoin
<1>2. CASE RemoveTmp
  BY <1>2 DEF RemoveTmp, ScriptGoto, Ending, tmpVars
<1>3. CASE Assemble \/ AssembleFails
  BY <1>0, <1>3 DEF Assemble, AssembleFails, ScriptGoto, Ending, AfterJoin, tmpVars
<1>4. CASE Write \/ WriteShort
  BY <1>0, <1>4 DEF Write, WriteShort, ScriptGoto, Ending, AfterJoin, tmpVars,
                    givenVars
<1>5. CASE Waiting
  BY <1>0, <1>5 DEF Waiting, ScriptGoto, Ending, AfterJoin, tmpVars, givenVars
<1>6. CASE WaitingFails
  BY <1>0, <1>6
     DEF WaitingFails, ScriptGoto, Ending, AfterJoin, tmpVars, Fault, TypeOK
<1>7. CASE Publish
  BY <1>0, <1>7
     DEF Publish, ScriptGoto, Ending, AfterJoin, tmpVars, givenVars, NoFault
<1>8. ASSUME NEW s \in Slots,
             TmpOpen(s) \/ TmpWrite(s) \/ TmpOpenFails(s) \/ TmpWriteFails(s)
      PROVE  Ending'
  <2>1. spc' = spc /\ spc # "lost" /\ task[s] \in {"open", "write"}
    BY <1>8, Zenon DEF TmpOpen, TmpWrite, TmpOpenFails, TmpWriteFails, TaskGoto,
                       scriptVars
  <2>2. spc = "await"
    BY <1>0, <2>1, TaskPhases
  <2> QED
    BY <2>1, <2>2 DEF Ending, AfterJoin
<1>9. ASSUME NEW t \in Threads,
             \/ MergeRead(t) \/ MergeXor(t) \/ MergeCrash(t)
             \/ MergeReadFails(t) \/ MergeWriteFails(t)
      PROVE  Ending'
  <2>1. MergeStep(t) /\ (spc' = spc \/ spc' = "lost")
    BY <1>9, Zenon DEF MergeRead, MergeXor, MergeCrash, MergeReadFails,
                       MergeWriteFails
  <2>2. spc = "join"
    BY <1>0, <2>1, TaskPhases
  <2> QED
    BY <2>1, <2>2 DEF Ending, AfterJoin
<1>10. CASE GivesUp \/ ScriptStops
  BY <1>10 DEF GivesUp, ScriptStops, ScriptGoto
<1>11. CASE UNCHANGED vars
  BY <1>0, <1>11 DEF vars, scriptVars, tmpVars, givenVars, Ending
<1> QED
  BY <1>1, <1>2, <1>3, <1>4, <1>5, <1>6, <1>7, <1>8, <1>9, <1>10, <1>11,
     StepKinds

-----------------------------------------------------------------------------
(* The theorems.                                                           *)

LEMMA Invariance == Spec => []IndInv
<1>1. IndInv /\ [Next]_vars => IndInv'
  BY TypeStep, NotLost, ListedStep, TemporariesStep, MergingStep, EndingStep
     DEF IndInv
<1> QED
  BY <1>1, InvInit, PTL DEF Spec

\* What is published was derived, where no fault has struck, from all files of
\* a list of different usable files, however the tasks ran.
THEOREM PublishedMatrixHolds == Spec => []PublishedMatrix
<1>1. ASSUME IndInv, spc = "published"
      PROVE  /\ \A i \in Used : list[i] \in usable
             /\ \A i, j \in Used : list[i] = list[j] => i = j
             /\ ~cut /\ Len(list) < FILE_NUM =>
                    \A f \in usable : \E i \in Used : list[i] = f
             /\ \A t \in Threads \ hit : slice[t] = Used
  <2>1. Listed /\ Merging
    BY <1>1 DEF IndInv
  <2>2. Len(list) \in Nat /\ FILE_NUM \in Nat
    BY <1>1, DerivationAssumption DEF IndInv, TypeInv, TypeOK
  <2>3. \A t \in Threads : t < at
    BY <1>1, DerivationAssumption
       DEF IndInv, TypeInv, Phases, AfterJoin, Threads
  <2> QED
    BY <1>1, <2>1, <2>2, <2>3 DEF Listed, Merging, MergedBy, Listing
<1>2. IndInv => PublishedMatrix
  BY <1>1 DEF PublishedMatrix
<1> QED
  BY <1>2, Invariance, PTL

\* A publication leaves no temporary file, no piece and no tmp directory that a
\* fault did not keep it from removing, and the server's waiting file is there.
THEOREM LeftoversAreFaultsHolds == Spec => []LeftoversAreFaults
<1>1. ASSUME IndInv, spc = "published"
      PROVE  /\ \A t \in Threads \ hit : t \notin pieces
             /\ \A s \in tmps : s[2] \in hit
  <2>1. Temporaries /\ Merging /\ TypeOK /\ Phases /\ TypeInv
    BY <1>1 DEF IndInv, TypeInv
  <2>2. \A t \in Threads : t < at /\ pos[t] = Len(list) + 1
    BY <1>1, <2>1, DerivationAssumption
       DEF Phases, Merging, MergedBy, AfterJoin, Threads
  <2>3. ASSUME NEW s \in tmps, s[2] \notin hit PROVE FALSE
    <3>1. s \in Slots /\ s[2] \in Threads
      BY <2>1, TaskPhases DEF TypeOK
    <3>2. task[s] = "done" /\ s[1] \in Used
      BY <1>1, <2>1, <3>1 DEF Temporaries, Phases, AfterJoin
    <3>3. pos[s[2]] <= s[1]
      BY <2>1, <2>3, <3>1, <3>2 DEF Temporaries
    <3> QED
      BY <2>1, <2>2, <3>1, <3>2, <3>3 DEF Used, TypeOK
  <2> QED
    BY <2>1, <2>2, <2>3 DEF Merging, MergedBy
<1>2. IndInv => LeftoversAreFaults
  BY <1>1 DEF LeftoversAreFaults, IndInv, Ending, AfterJoin
<1> QED
  BY <1>2, Invariance, PTL

-----------------------------------------------------------------------------
(* What MessageEnds rests on. First, without a fault and with a file to    *)
(* use a message is never lost: the list has a file, and every merge finds *)
(* all its temporary files, complete, so that it reads no byte outside a   *)
(* buffer.                                                                 *)

Untouched ==
    faults = 0 => hit = {} /\ ~cut /\ (usable # {} => spc # "lost")

\* What is given stays so, and only a fault touches files or cuts the list.
LEMMA GivenStep == [Next]_vars => UNCHANGED usable
<1> SUFFICES ASSUME [Next]_vars PROVE UNCHANGED usable
  OBVIOUS
<1> USE DEF givenVars
<1>1. CASE Script
  BY <1>1, Zenon
     DEF Script, MakeDirs, ReadEntry, ReadEnd, Pick, Derive, Await, Merge,
         Join, RemoveTmp, Assemble, Write, Waiting, Publish, ScriptGoto
<1>2. CASE Task
  BY <1>2, Zenon DEF Task, TmpOpen, TmpWrite, TaskGoto, MergeRead, MergeXor,
              MergeCrash, MergeStep
<1>3. CASE Failure
  BY <1>3, Zenon DEF Failure, ReadCut, AssembleFails, WriteShort, WaitingFails,
              GivesUp, ScriptStops, TmpOpenFails, TmpWriteFails,
              MergeReadFails, MergeWriteFails, ScriptGoto, TaskGoto, MergeStep
<1>4. CASE UNCHANGED vars
  BY <1>4 DEF vars
<1> QED
  BY <1>1, <1>2, <1>3, <1>4 DEF Next

LEMMA FailureCounts == Failure => \E touched : Fault(touched)
<1> SUFFICES ASSUME Failure PROVE \E touched : Fault(touched)
  OBVIOUS
<1>1. CASE ReadCut \/ AssembleFails \/ WriteShort \/ WaitingFails \/ GivesUp
           \/ ScriptStops
  BY <1>1, Zenon DEF ReadCut, AssembleFails, WriteShort, WaitingFails,
              GivesUp, ScriptStops
<1>2. CASE \E s \in Slots : TmpOpenFails(s) \/ TmpWriteFails(s)
  BY <1>2, Zenon DEF TmpOpenFails, TmpWriteFails
<1>3. CASE \E t \in Threads : MergeReadFails(t) \/ MergeWriteFails(t)
  BY <1>3, Zenon DEF MergeReadFails, MergeWriteFails
<1> QED
  BY <1>1, <1>2, <1>3 DEF Failure

\* A merge that no fault has touched has all it needs when it has read.
LEMMA NoOverrun ==
  ASSUME IndInv, NEW t \in Threads, t \notin hit, MergeStep(t),
         pos[t] > Len(list)
  PROVE  ~Overrun(t)
<1>1. /\ spc = "join" /\ Len(list) \in Positions
      /\ \A i \in Positions, u \in Threads : <<i, u>> \in Slots
      /\ Positions = 1 .. FILE_NUM /\ FILE_NUM \in Nat \ {0}
  BY TaskPhases DEF IndInv
<1>2. Temporaries /\ MergedBy(t) /\ Phases /\ TypeOK
  BY <1>1 DEF IndInv, Merging, TypeInv
<1>3. pos[t] \in Nat /\ pos[t] = Len(list) + 1
  BY <1>1, <1>2 DEF MergedBy, TypeOK
<1>4. buf[t] = Used
  BY <1>1, <1>2, <1>3 DEF MergedBy, Used
<1>5. ASSUME NEW i \in Used PROVE <<i, t>> \in full
  <2>1. i \in Positions /\ <<i, t>> \in Slots
    BY <1>1 DEF Used
  <2>2. task[<<i, t>>] = "done"
    BY <1>1, <1>2, <2>1
       DEF Temporaries, Phases, BeforeTasks, Listing
  <2> QED
    BY <1>2, <2>1, <2>2 DEF Temporaries
<1> QED
  BY <1>4, <1>5 DEF Overrun

LEMMA UntouchedStep ==
  ASSUME IndInv, Untouched, [Next]_vars
  PROVE  Untouched'
<1> SUFFICES ASSUME faults' = 0
             PROVE  hit' = {} /\ ~cut' /\ (usable # {} => spc' # "lost")
  BY GivenStep DEF Untouched
<1> faults \in Nat
  BY DerivationAssumption DEF IndInv, TypeInv, TypeOK
<1>1. ~Failure
  BY FailureCounts DEF Fault
<1>2. CASE Pick
  <2>1. faults = 0 /\ UNCHANGED <<hit, cut>> /\ spc = "pick"
    BY <1>2 DEF Pick, NoFault, ScriptGoto
  <2>2. usable # {} => list # <<>>
    BY <2>1 DEF Untouched, IndInv, Listed, Listing, Used
  <2> QED
    BY <1>2, <2>1, <2>2 DEF Pick, ScriptGoto, Untouched
<1>3. CASE Script /\ ~Pick
  <2>1. UNCHANGED <<hit, cut, faults>> /\ spc' # "lost"
    BY <1>3, Zenon
       DEF Script, MakeDirs, ReadEntry, ReadEnd, Derive, Await, Merge, Join,
           RemoveTmp, Assemble, Write, Waiting, Publish, ScriptGoto, NoFault
  <2> QED
    BY <2>1 DEF Untouched
<1>4. ASSUME NEW t \in Threads, MergeCrash(t) PROVE FALSE
  <2>1. faults = 0 /\ MergeStep(t) /\ pos[t] > Len(list) /\ Overrun(t)
    BY <1>4 DEF MergeCrash, NoFault
  <2> QED
    BY <2>1, NoOverrun DEF Untouched
<1>5. CASE Task
  <2>1. UNCHANGED <<hit, cut, faults, spc>>
    BY <1>4, <1>5, Zenon
       DEF Task, TmpOpen, TmpWrite, TaskGoto, MergeRead, MergeXor, MergeStep,
           NoFault, scriptVars
  <2> QED
    BY <2>1 DEF Untouched
<1>6. CASE UNCHANGED vars
  BY <1>6 DEF vars, scriptVars, Untouched
<1> QED
  BY <1>1, <1>2, <1>3, <1>5, <1>6 DEF Next

LEMMA UntouchedInvariance == Spec => []Untouched
<1>1. Init => Untouched
  BY DEF Init, Untouched
<1>2. IndInv /\ Untouched /\ [Next]_vars => Untouched'
  BY UntouchedStep
<1> QED
  BY <1>1, <1>2, Invariance, PTL DEF Spec

\* A script that is done with its message some day, as the first half of
\* MessageEnds says, has published it if nothing failed: the second half.
THEOREM EndedMessagePublishes ==
  Spec => (<>(spc \in {"published", "lost"}) => MessageEnds)
<1>1. usable # {} /\ [Next]_vars => (usable # {})'
  BY GivenStep
<1>2. Untouched /\ usable # {} /\ faults = 0 /\ spc \in {"published", "lost"}
        => spc = "published"
  BY DEF Untouched
<1> QED
  BY <1>1, <1>2, UntouchedInvariance, PTL DEF Spec, MessageEnds

-----------------------------------------------------------------------------
(* Second, the script is never stuck.                                      *)

ScriptCan ==
    \/ spc \in {"dirs", "list", "derive", "merge", "rmtmp", "assemble",
                "write", "waiting", "publish"}
    \/ /\ spc = "pick"
       /\ \/ Len(list) <= FILE_NUM
          \/ Injection(Positions, 1 .. Len(list)) # {}
    \/ spc = "await" /\ \A s \in Slots : task[s] \in {"idle", "done"}
    \/ spc = "join" /\ \A t \in Threads : merge[t] = "done"

TaskCan == \E s \in Slots : task[s] \in {"open", "write"}

MergeCan(t) ==
    /\ merge[t] = "read"
    /\ pos[t] <= Len(list) \/ buf[t] # {} \/ Overrun(t)

\* A merge that has read nothing of a list that is not empty overruns it.
LEMMA MergeGoesOn ==
  ASSUME TypeInv, spc = "join", NEW t \in Threads, merge[t] = "read"
  PROVE  MergeCan(t)
<1>1. 1 \in Used
  <2>1. Len(list) \in Positions /\ Positions = 1 .. FILE_NUM
        /\ FILE_NUM \in Nat \ {0}
    BY TaskPhases DEF Listing
  <2> QED
    BY <2>1 DEF Used
<1> QED
  BY <1>1 DEF MergeCan, Overrun

\* Until the message is published or lost, the script can take its next step,
\* or a task that it waits for can.
THEOREM MessageNotStuck ==
  Spec => [](spc \notin {"published", "lost"} =>
                ScriptCan \/ TaskCan \/ \E t \in Threads : MergeCan(t))
<1>1. ASSUME TypeInv, spc \notin {"published", "lost"}
      PROVE  ScriptCan \/ TaskCan \/ \E t \in Threads : MergeCan(t)
  <2> TypeOK /\ Phases
    BY <1>1 DEF TypeInv
  <2>1. CASE spc = "pick"
    <3>1. Len(list) \in Nat /\ Positions = 1 .. FILE_NUM /\ FILE_NUM \in Nat
      BY DerivationAssumption DEF Positions, TypeOK
    <3>2. CASE Len(list) > FILE_NUM
      <4>1. [i \in Positions |-> i] \in Injection(Positions, 1 .. Len(list))
        BY <3>1, <3>2 DEF Injection, IsInjective
      <4> QED
        BY <2>1, <4>1 DEF ScriptCan
    <3> QED
      BY <2>1, <3>1, <3>2 DEF ScriptCan
  <2>2. CASE spc = "await"
    BY <2>2 DEF ScriptCan, TaskCan, TypeOK
  <2>3. CASE spc = "join"
    <3>1. \A t \in Threads : merge[t] \in {"read", "done"}
      BY <2>3 DEF Phases, TypeOK
    <3>2. CASE \A t \in Threads : merge[t] = "done"
      BY <2>3, <3>2 DEF ScriptCan
    <3>3. CASE \E t \in Threads : merge[t] = "read"
      BY <1>1, <2>3, <3>3, MergeGoesOn
    <3> QED
      BY <3>1, <3>2, <3>3
  <2> QED
    BY <1>1, <2>1, <2>2, <2>3 DEF ScriptCan, TypeOK, ScriptPcs
<1>2. IndInv => (spc \notin {"published", "lost"} =>
                    ScriptCan \/ TaskCan \/ \E t \in Threads : MergeCan(t))
  BY <1>1 DEF IndInv
<1> QED
  BY <1>2, Invariance, PTL
=============================================================================
