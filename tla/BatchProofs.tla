---------------------------- MODULE BatchProofs ----------------------------
(***************************************************************************)
(* Proofs about Batch, for every number of blocks and threads: first the   *)
(* arithmetic of the split, then that the chunk file is a beginning of the *)
(* chunk, and all of it if the remainder is at most 1.                     *)
(***************************************************************************)
EXTENDS Batch, Integers, SequenceTheorems, TLAPS

-----------------------------------------------------------------------------
(* The split.                                                              *)

\* The threads, seen from the last one.
LEMMA Split ==
    /\ Share \in Nat
    /\ Last \in Threads
    /\ EACH_NUM % RUNNING_THREAD_NUM \in 0 .. Last
    /\ EACH_NUM = Share * Last + Share + (EACH_NUM % RUNNING_THREAD_NUM)
<1>1. /\ EACH_NUM \in Nat
      /\ RUNNING_THREAD_NUM \in Nat
      /\ RUNNING_THREAD_NUM > 0
  BY BatchAssumption, SMT
<1>2. /\ Share \in Nat
      /\ EACH_NUM % RUNNING_THREAD_NUM \in 0 .. Last
      /\ EACH_NUM = RUNNING_THREAD_NUM * Share
                        + (EACH_NUM % RUNNING_THREAD_NUM)
  BY <1>1, SMT DEF Share, Last
<1>3. RUNNING_THREAD_NUM * Share = Share * Last + Share
  BY <1>1, <1>2, SMT DEF Last
<1>. QED
  BY <1>1, <1>2, <1>3, SMT DEF Last, Threads

\* A quotient is determined by a remainder below the divisor.
LEMMA Quotient ==
    ASSUME NEW n \in Nat, NEW d \in Nat, d > 0,
           NEW q \in Int, NEW r \in Int, 0 <= r, r < d,
           n = d * q + r
    PROVE  n \div d = q
<1> DEFINE p == n \div d
           s == n % d
<1>1. /\ p \in Int
      /\ s \in Int /\ 0 <= s /\ s < d
      /\ n = d * p + s
  BY SMT
<1>. HIDE DEF p, s
<1>2. d * (p - q) = r - s
  BY <1>1, SMT
<1>3. ~(p - q >= 1)
  <2>. SUFFICES ASSUME p - q >= 1 PROVE FALSE
    OBVIOUS
  <2>1. d * (p - q) >= d
    BY <1>1, SMT
  <2>. QED
    BY <1>1, <1>2, <2>1, SMT
<1>4. ~(p - q <= -1)
  <2>. SUFFICES ASSUME p - q <= -1 PROVE FALSE
    OBVIOUS
  <2>1. d * (p - q) <= -d
    BY <1>1, SMT
  <2>. QED
    BY <1>1, <1>2, <2>1, SMT
<1>5. p = q
  BY <1>1, <1>3, <1>4, SMT
<1>. QED
  BY <1>5 DEF p

\* The last thread of the client decrypts one block more than its share,
\* whatever the remainder is, unless there is none.
LEMMA LastNum ==
    LET r == EACH_NUM % RUNNING_THREAD_NUM
    IN  DecryptNum(Last) = IF r = 0 THEN Share ELSE Share + 1
<1> DEFINE r == EACH_NUM % RUNNING_THREAD_NUM
           R == RUNNING_THREAD_NUM
           z == IF r = 0 THEN 0 ELSE r - 1
           w == IF r = 0 THEN 0 ELSE R - r
<1>1. /\ R \in Nat /\ R > 0 /\ Last = R - 1 /\ Last \in Nat
      /\ EACH_NUM \in Nat
  BY BatchAssumption, SMT DEF Last
<1>2. /\ Share \in Nat
      /\ r \in 0 .. Last
      /\ EACH_NUM = Share * Last + Share + r
  BY Split
<1>. HIDE DEF r, R
<1>3. Last * EACH_NUM = R * (Share * Last + z) + w
  <2>1. EACH_NUM = Share * R + r
    BY <1>1, <1>2, SMT
  <2>2. Last * EACH_NUM = Last * (Share * R) + Last * r
    BY <1>1, <1>2, <2>1, SMT
  <2>3. Last * r = R * z + w
    <3>1. CASE r = 0
      BY <1>1, <3>1, SMT
    <3>2. CASE r # 0
      <4>1. Last * r = R * r - r
        BY <1>1, <1>2, SMT
      <4>2. R * z = R * r - R
        BY <1>1, <1>2, <3>2, SMT
      <4>. QED
        BY <1>1, <1>2, <3>2, <4>1, <4>2, SMT
    <3>. QED
      BY <3>1, <3>2
  <2>4. Last * (Share * R) = R * (Share * Last)
    BY <1>1, <1>2, SMT
  <2>5. R * (Share * Last + z) = R * (Share * Last) + R * z
    BY <1>1, <1>2, SMT
  <2>. QED
    BY <1>1, <1>2, <2>2, <2>3, <2>4, <2>5, SMT
<1>4. /\ Share * Last + z \in Int
      /\ w \in Int /\ 0 <= w /\ w < R
      /\ Last * EACH_NUM \in Nat
  BY <1>1, <1>2, SMT
<1>5. (Last * EACH_NUM) \div R = Share * Last + z
  <2> DEFINE n == Last * EACH_NUM
             q == Share * Last + z
  <2>. HIDE DEF n, q, w
  <2>1. /\ n \in Nat /\ q \in Int
        /\ w \in Int /\ 0 <= w /\ w < R
        /\ n = R * q + w
    BY <1>3, <1>4 DEF n, q
  <2>2. n \div R = q
    BY <1>1, <2>1, Quotient
  <2>. QED
    BY <2>2 DEF n, q
<1>6. DecryptNum(Last) = EACH_NUM - (Share * Last + z)
  BY <1>5 DEF DecryptNum, R
<1>7. DecryptNum(Last) = Share + r - z
  <2> DEFINE k == Share * Last
  <2>1. k \in Nat
    BY <1>1, <1>2, SMT
  <2>. HIDE DEF k
  <2>2. EACH_NUM = k + Share + r /\ DecryptNum(Last) = EACH_NUM - (k + z)
    BY <1>2, <1>6 DEF k
  <2>. QED
    BY <1>1, <1>2, <2>1, <2>2, SMT
<1>8. r - z = IF r = 0 THEN 0 ELSE 1
  BY <1>1, <1>2, SMT
<1>. QED
  BY <1>1, <1>2, <1>7, <1>8, SMT DEF r

\* The server's threads cut the chunk into consecutive pieces that cover it.
\* The client's pieces are consecutive too and never pass the end; they reach
\* it exactly when the remainder is at most 1.
THEOREM SplitCovers ==
    /\ offset(0) = 0
    /\ EncryptEnd(Last) = EACH_NUM
    /\ \A t \in Threads \ {Last} :
          /\ EncryptEnd(t) = offset(t + 1)
          /\ offset(t) + DecryptNum(t) = offset(t + 1)
    /\ offset(Last) + DecryptNum(Last) <= EACH_NUM
    /\ (offset(Last) + DecryptNum(Last) = EACH_NUM)
            <=> EACH_NUM % RUNNING_THREAD_NUM <= 1
<1> DEFINE r == EACH_NUM % RUNNING_THREAD_NUM
           k == Share * Last
<1>1. /\ Share \in Nat /\ Last \in Nat /\ r \in 0 .. Last /\ k \in Nat
      /\ EACH_NUM = k + Share + r
  BY Split, SMT DEF Threads
<1>2. offset(0) = 0
  BY <1>1, SMT DEF offset
<1>3. EncryptEnd(Last) = EACH_NUM
  BY DEF EncryptEnd
<1>4. ASSUME NEW t \in Threads \ {Last}
      PROVE  /\ EncryptEnd(t) = offset(t + 1)
             /\ offset(t) + DecryptNum(t) = offset(t + 1)
  <2>1. t \in Nat
    BY DEF Threads
  <2>2. Share * (t + 1) = Share * t + Share
    BY <1>1, <2>1, SMT
  <2>. QED
    BY <2>2 DEF EncryptEnd, DecryptNum, offset
<1>5. offset(Last) + DecryptNum(Last) = k + (IF r = 0 THEN Share ELSE Share + 1)
  BY LastNum DEF offset
<1>6. /\ offset(Last) + DecryptNum(Last) <= EACH_NUM
      /\ (offset(Last) + DecryptNum(Last) = EACH_NUM) <=> r <= 1
  <2> DEFINE c == offset(Last) + DecryptNum(Last)
  <2>1. c = k + (IF r = 0 THEN Share ELSE Share + 1)
    BY <1>5
  <2>. HIDE DEF c, k, r
  <2>2. c <= EACH_NUM /\ ((c = EACH_NUM) <=> r <= 1)
    BY <1>1, <2>1, SMT
  <2>. QED
    BY <2>2 DEF c
<1>. QED
  BY <1>2, <1>3, <1>4, <1>6

-----------------------------------------------------------------------------
(* Runs of consecutive blocks.                                             *)

Blocks == 0 .. (EACH_NUM - 1)

\* The blocks from a on, in order.
IsRun(s, a) == \A k \in 1 .. Len(s) : s[k] = a + k - 1

LEMMA RunAppend ==
    ASSUME NEW s \in Seq(Blocks), NEW a \in Nat, IsRun(s, a),
           a + Len(s) \in Blocks
    PROVE  /\ Append(s, a + Len(s)) \in Seq(Blocks)
           /\ Len(Append(s, a + Len(s))) = Len(s) + 1
           /\ IsRun(Append(s, a + Len(s)), a)
<1> DEFINE u == Append(s, a + Len(s))
<1>1. /\ u \in Seq(Blocks)
      /\ Len(u) = Len(s) + 1
      /\ \A i \in 1 .. Len(s) : u[i] = s[i]
      /\ u[Len(s) + 1] = a + Len(s)
  BY AppendProperties
<1>2. Len(s) \in Nat
  BY LenProperties
<1>. HIDE DEF u
<1>3. IsRun(u, a)
  BY <1>1, <1>2 DEF IsRun
<1>. QED
  BY <1>1, <1>3 DEF u

LEMMA RunConcat ==
    ASSUME NEW s \in Seq(Blocks), NEW u \in Seq(Blocks),
           IsRun(s, 0), IsRun(u, Len(s))
    PROVE  /\ s \o u \in Seq(Blocks)
           /\ Len(s \o u) = Len(s) + Len(u)
           /\ IsRun(s \o u, 0)
<1> DEFINE v == s \o u
<1>1. /\ v \in Seq(Blocks)
      /\ Len(v) = Len(s) + Len(u)
      /\ \A i \in 1 .. Len(s) + Len(u) :
            v[i] = IF i <= Len(s) THEN s[i] ELSE u[i - Len(s)]
  BY ConcatProperties
<1>2. Len(s) \in Nat /\ Len(u) \in Nat
  BY LenProperties
<1>. HIDE DEF v
<1>3. ASSUME NEW k \in 1 .. Len(v) PROVE v[k] = 0 + k - 1
  <2>1. CASE k <= Len(s)
    BY <1>1, <1>2, <2>1 DEF IsRun
  <2>2. CASE k > Len(s)
    <3>1. k - Len(s) \in 1 .. Len(u)
      BY <1>1, <1>2, <2>2
    <3>2. v[k] = u[k - Len(s)]
      BY <1>1, <1>2, <2>2
    <3>3. u[k - Len(s)] = Len(s) + (k - Len(s)) - 1
      BY <3>1 DEF IsRun
    <3>. QED
      BY <1>2, <3>1, <3>2, <3>3
  <2>. QED
    BY <1>2, <1>1, <2>1, <2>2
<1>. QED
  BY <1>1, <1>3 DEF v, IsRun

\* How far the first j threads of the server, and of the client, get.
Sent(j) == IF j < RUNNING_THREAD_NUM THEN offset(j) ELSE EACH_NUM
Reached(j) ==
    IF j < RUNNING_THREAD_NUM THEN offset(j)
    ELSE offset(Last) + DecryptNum(Last)

\* SplitCovers, thread by thread.
LEMMA Bounds ==
    /\ Sent(0) = 0 /\ Reached(0) = 0
    /\ \A t \in Threads :
          /\ offset(t) \in Nat /\ EncryptEnd(t) \in Nat /\ DecryptNum(t) \in Nat
          /\ offset(t) <= EncryptEnd(t) /\ EncryptEnd(t) <= EACH_NUM
          /\ offset(t) + DecryptNum(t) <= EACH_NUM
          /\ Sent(t) = offset(t) /\ Sent(t + 1) = EncryptEnd(t)
          /\ Reached(t) = offset(t)
          /\ Reached(t + 1) = offset(t) + DecryptNum(t)
<1>1. /\ RUNNING_THREAD_NUM \in Nat /\ RUNNING_THREAD_NUM > 0
      /\ Last = RUNNING_THREAD_NUM - 1 /\ Last \in Threads
      /\ EACH_NUM \in Nat /\ Share \in Nat
  BY BatchAssumption, Split DEF Last
<1>2. Sent(0) = 0 /\ Reached(0) = 0
  BY <1>1, SplitCovers DEF Sent, Reached
<1>3. ASSUME NEW t \in Threads
      PROVE  /\ offset(t) \in Nat /\ EncryptEnd(t) \in Nat
             /\ DecryptNum(t) \in Nat
             /\ offset(t) <= EncryptEnd(t) /\ EncryptEnd(t) <= EACH_NUM
             /\ offset(t) + DecryptNum(t) <= EACH_NUM
  <2>1. t \in Nat /\ t <= Last
    BY <1>1 DEF Threads
  <2>2. Share * t \in Nat
    BY <1>1, <2>1
  <2>3. CASE t = Last
    <3>1. DecryptNum(Last) \in Nat
      BY LastNum, <1>1
    <3>2. Share * Last + Share <= EACH_NUM
      <4>1. Share * Last \in Nat
        BY <2>2, <2>3
      <4>. QED
        BY <4>1, <1>1, Split
    <3>. QED
      BY <1>1, <2>2, <2>3, <3>1, <3>2, SplitCovers DEF offset, EncryptEnd
  <2>4. CASE t # Last
    <3>1. Share * t + Share <= Share * Last
      <4>1. Last - t - 1 \in Nat
        BY <1>1, <2>1, <2>4
      <4>2. Share * (Last - t - 1) \in Nat
        BY <1>1, <4>1
      <4>3. Share * (Last - t - 1) = Share * Last - Share * t - Share
        BY <1>1, <2>1
      <4>4. Share * Last \in Nat
        BY <1>1
      <4>. QED
        BY <4>2, <4>3, <4>4, <2>2, <1>1
    <3>2. Share * Last <= EACH_NUM
      <4>1. Share * Last \in Nat
        BY <1>1
      <4>. QED
        BY <4>1, <1>1, Split
    <3>3. EncryptEnd(t) = Share * t + Share /\ DecryptNum(t) = Share
      BY <2>4 DEF EncryptEnd, DecryptNum, offset
    <3>4. Share * Last \in Nat
      BY <1>1
    <3>. QED
      BY <1>1, <2>2, <3>1, <3>2, <3>3, <3>4 DEF offset
  <2>. QED
    BY <2>3, <2>4
<1>4. ASSUME NEW t \in Threads
      PROVE  /\ Sent(t) = offset(t) /\ Sent(t + 1) = EncryptEnd(t)
             /\ Reached(t) = offset(t)
             /\ Reached(t + 1) = offset(t) + DecryptNum(t)
  <2>1. t \in Nat /\ t < RUNNING_THREAD_NUM
        /\ (t # Last <=> t + 1 < RUNNING_THREAD_NUM)
    BY <1>1 DEF Threads
  <2>2. t # Last => t \in Threads \ {Last}
    OBVIOUS
  <2>. QED
    BY <2>1, <2>2, SplitCovers DEF Sent, Reached
<1>. QED
  BY <1>2, <1>3, <1>4

-----------------------------------------------------------------------------
(* The inductive invariant.                                                *)

\* The server's threads do their blocks in order, and the answer is what the
\* threads before joined have done.
Encrypting ==
    /\ encrypted \in [Threads -> Seq(Blocks)]
    /\ \A t \in Threads :
          /\ IsRun(encrypted[t], offset(t))
          /\ offset(t) + Len(encrypted[t]) <= EncryptEnd(t)
    /\ joined \in 0 .. RUNNING_THREAD_NUM
    /\ data \in Seq(Blocks)
    /\ IsRun(data, 0)
    /\ Len(data) = Sent(joined)

\* The same of the client's threads and its file.
Decrypting ==
    /\ decrypted \in [Threads -> Seq(Blocks)]
    /\ \A t \in Threads :
          /\ IsRun(decrypted[t], offset(t))
          /\ Len(decrypted[t]) <= DecryptNum(t)
    /\ written \in 0 .. RUNNING_THREAD_NUM
    /\ file \in Seq(Blocks)
    /\ IsRun(file, 0)
    /\ Len(file) = Reached(written)

IndInv == Encrypting /\ Decrypting

LEMMA InvInit == Init => IndInv
<1> SUFFICES ASSUME Init PROVE IndInv
  OBVIOUS
<1>1. <<>> \in Seq(Blocks) /\ Len(<<>>) = 0
  BY EmptySeq
<1>2. \A a : IsRun(<<>>, a)
  BY <1>1 DEF IsRun
<1>. QED
  BY <1>1, <1>2, Bounds, BatchAssumption
     DEF Init, IndInv, Encrypting, Decrypting

\* One step of the server's threads, or of its loop over the futures.
LEMMA EncryptingStep == Encrypting /\ [Next]_vars => Encrypting'
<1> SUFFICES ASSUME Encrypting, [Next]_vars PROVE Encrypting'
  OBVIOUS
<1> USE DEF Encrypting
<1>0. EACH_NUM \in Nat /\ RUNNING_THREAD_NUM \in Nat
  BY BatchAssumption
<1>1. ASSUME NEW t \in Threads, EncryptBlock(t) PROVE Encrypting'
  <2> DEFINE i == offset(t) + Len(encrypted[t])
  <2>1. Len(encrypted[t]) \in Nat
    BY LenProperties
  <2>2. i \in Blocks /\ i < EncryptEnd(t)
    BY <1>0, <1>1, <2>1, Bounds DEF EncryptBlock, Blocks
  <2>3. /\ Append(encrypted[t], i) \in Seq(Blocks)
        /\ Len(Append(encrypted[t], i)) = Len(encrypted[t]) + 1
        /\ IsRun(Append(encrypted[t], i), offset(t))
    BY <2>2, RunAppend, Bounds
  <2>4. encrypted' = [encrypted EXCEPT ![t] = Append(encrypted[t], i)]
        /\ UNCHANGED <<joined, data>>
    BY <1>1 DEF EncryptBlock
  <2>5. offset(t) + (Len(encrypted[t]) + 1) <= EncryptEnd(t)
    BY <2>1, <2>2, Bounds
  <2>. HIDE DEF i
  <2>6. ASSUME NEW v \in Threads
        PROVE  /\ IsRun(encrypted'[v], offset(v))
               /\ offset(v) + Len(encrypted'[v]) <= EncryptEnd(v)
    BY <2>3, <2>4, <2>5
  <2>7. encrypted' \in [Threads -> Seq(Blocks)]
    BY <2>3, <2>4
  <2>. QED
    BY <2>4, <2>6, <2>7
<1>2. CASE EncryptGet
  <2>1. joined \in Threads
    BY <1>0, <1>2 DEF EncryptGet, Threads
  <2>2. Len(encrypted[joined]) \in Nat
    BY <2>1, LenProperties
  <2>3. offset(joined) + Len(encrypted[joined]) = EncryptEnd(joined)
    BY <1>2, <2>1, <2>2, Bounds DEF EncryptGet
  <2>4. Len(data) = offset(joined) /\ IsRun(encrypted[joined], Len(data))
    BY <2>1, Bounds
  <2>5. /\ data \o encrypted[joined] \in Seq(Blocks)
        /\ Len(data \o encrypted[joined]) = Len(data) + Len(encrypted[joined])
        /\ IsRun(data \o encrypted[joined], 0)
    BY <2>1, <2>4, RunConcat
  <2>6. Len(data \o encrypted[joined]) = Sent(joined + 1)
    BY <2>1, <2>3, <2>4, <2>5, Bounds
  <2>7. joined + 1 \in 0 .. RUNNING_THREAD_NUM
    BY <1>0, <2>1 DEF Threads
  <2>. QED
    BY <1>2, <2>5, <2>6, <2>7 DEF EncryptGet
<1>3. CASE DecryptGet \/ UNCHANGED vars
  BY <1>3 DEF DecryptGet, vars
<1>4. ASSUME NEW t \in Threads, DecryptBlock(t) PROVE Encrypting'
  BY <1>4 DEF DecryptBlock
<1>. QED
  BY <1>1, <1>2, <1>3, <1>4 DEF Next

\* One step of the client's threads, or of its loop over the futures. The
\* answer is complete by then.
LEMMA DecryptingStep == IndInv /\ [Next]_vars => Decrypting'
<1> SUFFICES ASSUME Encrypting, Decrypting, [Next]_vars PROVE Decrypting'
  BY DEF IndInv
<1> USE DEF Decrypting
<1>0. EACH_NUM \in Nat /\ RUNNING_THREAD_NUM \in Nat
  BY BatchAssumption
<1>1. ASSUME NEW t \in Threads, DecryptBlock(t) PROVE Decrypting'
  <2> DEFINE l == Len(decrypted[t])
             i == offset(t) + l
  <2>1. l \in Nat
    BY LenProperties
  <2>2. l < DecryptNum(t) /\ Len(data) = EACH_NUM
    BY <1>0, <1>1 DEF DecryptBlock, Encrypting, Sent
  <2>3. i \in Blocks /\ i + 1 \in 1 .. Len(data)
    BY <1>0, <2>1, <2>2, Bounds DEF Blocks
  <2>4. data[i + 1] = i
    <3>1. data[i + 1] = 0 + (i + 1) - 1
      BY <2>3 DEF Encrypting, IsRun
    <3>. QED
      BY <2>1, <2>3, <3>1, Bounds
  <2>5. decrypted' = [decrypted EXCEPT ![t] = Append(decrypted[t], i)]
        /\ UNCHANGED <<written, file>>
    BY <1>1, <2>4 DEF DecryptBlock
  <2>6. /\ Append(decrypted[t], i) \in Seq(Blocks)
        /\ Len(Append(decrypted[t], i)) = l + 1
        /\ IsRun(Append(decrypted[t], i), offset(t))
    BY <2>3, RunAppend, Bounds
  <2>7. l + 1 <= DecryptNum(t)
    BY <2>1, <2>2, Bounds
  <2>. HIDE DEF i, l
  <2>8. ASSUME NEW v \in Threads
        PROVE  /\ IsRun(decrypted'[v], offset(v))
               /\ Len(decrypted'[v]) <= DecryptNum(v)
    BY <2>5, <2>6, <2>7
  <2>9. decrypted' \in [Threads -> Seq(Blocks)]
    BY <2>5, <2>6
  <2>. QED
    BY <2>5, <2>8, <2>9
<1>2. CASE DecryptGet
  <2>1. written \in Threads
    BY <1>0, <1>2 DEF DecryptGet, Threads
  <2>2. Len(decrypted[written]) = DecryptNum(written)
    BY <1>2 DEF DecryptGet
  <2>3. Len(file) = offset(written) /\ IsRun(decrypted[written], Len(file))
    BY <2>1, Bounds
  <2>4. /\ file \o decrypted[written] \in Seq(Blocks)
        /\ Len(file \o decrypted[written]) = Len(file) + DecryptNum(written)
        /\ IsRun(file \o decrypted[written], 0)
    BY <2>1, <2>2, <2>3, RunConcat
  <2>5. Len(file \o decrypted[written]) = Reached(written + 1)
    BY <2>1, <2>3, <2>4, Bounds
  <2>6. written + 1 \in 0 .. RUNNING_THREAD_NUM
    BY <1>0, <2>1 DEF Threads
  <2>. QED
    BY <1>2, <2>4, <2>5, <2>6 DEF DecryptGet
<1>3. CASE EncryptGet \/ UNCHANGED vars
  BY <1>3 DEF EncryptGet, vars
<1>4. ASSUME NEW t \in Threads, EncryptBlock(t) PROVE Decrypting'
  BY <1>4 DEF EncryptBlock
<1>. QED
  BY <1>1, <1>2, <1>3, <1>4 DEF Next

LEMMA Inductive == Spec => []IndInv
<1>1. IndInv /\ [Next]_vars => IndInv'
  BY EncryptingStep, DecryptingStep DEF IndInv
<1>. QED
  BY InvInit, <1>1, PTL DEF Spec

-----------------------------------------------------------------------------
(* The theorems.                                                           *)

\* Every index the threads of either side compute is one of a block of the
\* chunk.
THEOREM TypeCorrect == Spec => []TypeOK
<1>1. IndInv => TypeOK
  BY DEF IndInv, Encrypting, Decrypting, TypeOK, Blocks
<1>. QED
  BY <1>1, Inductive, PTL

\* decryptSecretsGPU never reads past the answer, for whatever remainder.
THEOREM IteratorsInsideHolds == Spec => []IteratorsInside
<1>1. IndInv => IteratorsInside
  <2>1. IndInv /\ joined = RUNNING_THREAD_NUM => Len(data) = EACH_NUM
    BY BatchAssumption DEF IndInv, Encrypting, Sent
  <2>. QED
    BY <2>1, Bounds DEF IteratorsInside
<1>. QED
  BY <1>1, Inductive, PTL

\* The chunk file is a beginning of the chunk, in whatever order the threads
\* of the two sides run and end.
THEOREM FileIsPrefixHolds == Spec => []FileIsPrefix
<1>1. IndInv => FileIsPrefix
  <2> SUFFICES ASSUME IndInv, NEW k \in 1 .. Len(file) PROVE file[k] = k - 1
    BY DEF FileIsPrefix
  <2>1. file[k] = 0 + k - 1
    BY DEF IndInv, Decrypting, IsRun
  <2>. QED
    BY <2>1
<1>. QED
  BY <1>1, Inductive, PTL

\* It is all of the chunk for a remainder of at most 1.
THEOREM FileCompleteHolds == Spec => []FileComplete
<1>1. IndInv => FileComplete
  <2> SUFFICES ASSUME IndInv, written = RUNNING_THREAD_NUM,
                      EACH_NUM % RUNNING_THREAD_NUM <= 1
               PROVE  Len(file) = EACH_NUM
    BY DEF FileComplete
  <2>1. Len(file) = offset(Last) + DecryptNum(Last)
    BY BatchAssumption DEF IndInv, Decrypting, Reached
  <2>. QED
    BY <2>1, SplitCovers
<1>. QED
  BY <1>1, Inductive, PTL
=============================================================================
