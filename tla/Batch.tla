------------------------------- MODULE Batch -------------------------------
(***************************************************************************)
(* The blocks of one chunk: RUNNING_THREAD_NUM threads of the server       *)
(* encrypt EACH_NUM blocks of S_LEN bytes (encryptSecretsGPU), as many     *)
(* threads of the client decrypt them (decryptSecretsGPU), and both sides  *)
(* collect the threads' results in the order of their futures              *)
(* (Encrypt::process, Decrypt::process). The two sides split the blocks    *)
(* with different arithmetic.                                              *)
(***************************************************************************)
EXTENDS Naturals, Sequences

CONSTANTS
    EACH_NUM,          \* blocks of a chunk (config.h)
    RUNNING_THREAD_NUM \* threads of each side (config.h)

ASSUME BatchAssumption ==
    /\ EACH_NUM \in Nat
    /\ RUNNING_THREAD_NUM \in Nat \ {0}

Threads == 0 .. (RUNNING_THREAD_NUM - 1)
Last == RUNNING_THREAD_NUM - 1

-----------------------------------------------------------------------------
(* The split.                                                              *)

Share == EACH_NUM \div RUNNING_THREAD_NUM

\* Where a thread of either side starts.
offset(t) == Share * t

\* Mutant of EncryptEnd: every thread takes its share and no more.
EncryptEndShare(t) == offset(t) + Share

\* The server's last thread takes what is left.
EncryptEnd(t) == IF t # Last THEN offset(t) + Share ELSE EACH_NUM

\* Mutant of DecryptNum: every thread takes its share and no more.
DecryptNumShare(t) == Share

\* How many blocks a thread of the client decrypts: the last one what is left
\* after t * EACH_NUM / RUNNING_THREAD_NUM, which need not be offset(t).
DecryptNum(t) ==
    IF t # Last THEN Share
    ELSE EACH_NUM - (t * EACH_NUM) \div RUNNING_THREAD_NUM

-----------------------------------------------------------------------------

VARIABLES
    encrypted, \* [thread of the server]: the blocks it has done
    joined,    \* futures the server has got
    data,      \* the answer: the encrypted blocks in order
    decrypted, \* [thread of the client]: the blocks it has done
    written,   \* futures the client has got
    file       \* the chunk file

vars == <<encrypted, joined, data, decrypted, written, file>>

TypeOK ==
    /\ encrypted \in [Threads -> Seq(0 .. (EACH_NUM - 1))]
    /\ joined \in 0 .. RUNNING_THREAD_NUM
    /\ data \in Seq(0 .. (EACH_NUM - 1))
    /\ decrypted \in [Threads -> Seq(0 .. (EACH_NUM - 1))]
    /\ written \in 0 .. RUNNING_THREAD_NUM
    /\ file \in Seq(0 .. (EACH_NUM - 1))

Init ==
    /\ encrypted = [t \in Threads |-> <<>>]
    /\ joined = 0
    /\ data = <<>>
    /\ decrypted = [t \in Threads |-> <<>>]
    /\ written = 0
    /\ file = <<>>

\* Mutant of EncryptBlock: the bound of the loop is included.
EncryptBlockPast(t) ==
    LET i == offset(t) + Len(encrypted[t])
    IN  /\ i <= EncryptEnd(t)
        /\ encrypted' = [encrypted EXCEPT ![t] = Append(@, i)]
        /\ UNCHANGED <<joined, data, decrypted, written, file>>

\* encryptSecretsGPU: the next block of thread t.
EncryptBlock(t) ==
    LET i == offset(t) + Len(encrypted[t])
    IN  /\ i < EncryptEnd(t)
        /\ encrypted' = [encrypted EXCEPT ![t] = Append(@, i)]
        /\ UNCHANGED <<joined, data, decrypted, written, file>>

\* The server gets the next future and appends its blocks to the answer.
EncryptGet ==
    /\ joined < RUNNING_THREAD_NUM
    /\ offset(joined) + Len(encrypted[joined]) >= EncryptEnd(joined)
    /\ data' = data \o encrypted[joined]
    /\ joined' = joined + 1
    /\ UNCHANGED <<encrypted, decrypted, written, file>>

\* decryptSecretsGPU: the next block of thread t, once the answer is there.
DecryptBlock(t) ==
    /\ joined = RUNNING_THREAD_NUM
    /\ Len(decrypted[t]) < DecryptNum(t)
    /\ decrypted' = [decrypted EXCEPT ![t] =
                        Append(@, data[offset(t) + Len(@) + 1])]
    /\ UNCHANGED <<encrypted, joined, data, written, file>>

\* Mutant of DecryptGet: the results are written as the threads end.
DecryptGetAny ==
    /\ joined = RUNNING_THREAD_NUM
    /\ written < RUNNING_THREAD_NUM
    /\ \E t \in Threads :
          /\ Len(decrypted[t]) = DecryptNum(t)
          /\ file' = file \o decrypted[t]
    /\ written' = written + 1
    /\ UNCHANGED <<encrypted, joined, data, decrypted>>

\* The client gets the next future and writes its blocks.
DecryptGet ==
    /\ joined = RUNNING_THREAD_NUM
    /\ written < RUNNING_THREAD_NUM
    /\ Len(decrypted[written]) = DecryptNum(written)
    /\ file' = file \o decrypted[written]
    /\ written' = written + 1
    /\ UNCHANGED <<encrypted, joined, data, decrypted>>

Next ==
    \/ \E t \in Threads : EncryptBlock(t) \/ DecryptBlock(t)
    \/ EncryptGet
    \/ DecryptGet

Spec == Init /\ [][Next]_vars

-----------------------------------------------------------------------------

\* The client's iterators stay inside the answer: begin + offset + currentNum
\* is at most its end, for whatever thread.
IteratorsInside ==
    joined = RUNNING_THREAD_NUM =>
        \A t \in Threads : offset(t) + DecryptNum(t) <= Len(data)

\* The file is a beginning of the chunk: no block is missing in the middle,
\* doubled or out of place, in whatever order the threads end.
FileIsPrefix == \A k \in 1 .. Len(file) : file[k] = k - 1

\* It is the whole chunk if the threads divide the blocks, or one block more.
\* (With two blocks more or a greater remainder the client drops the rest.)
FileComplete ==
    (written = RUNNING_THREAD_NUM /\ EACH_NUM % RUNNING_THREAD_NUM <= 1)
        => Len(file) = EACH_NUM
=============================================================================
