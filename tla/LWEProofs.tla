----------------------------- MODULE LWEProofs -----------------------------
(* One row of the cipher is inverted by the decryption, for every modulus, *)
(* sum and error; a character follows bit by bit.                          *)
EXTENDS LWE, TLAPS

\* Modulo Q within one turn below and above.
LEMMA Residue ==
    ASSUME NEW n \in Int
    PROVE  /\ n % Q \in 0 .. (Q - 1)
           /\ 0 <= n /\ n < Q => n % Q = n
           /\ Q <= n /\ n < 2 * Q => n % Q = n - Q
           /\ n < 0 /\ n + Q >= 0 => n % Q = n + Q
<1>1. Q \in Nat /\ Q > 0
  BY LWEAssumption, SMT DEF HalfQ
<1>. QED
  BY <1>1, SMT

\* A value that fits the element type is not changed by it.
LEMMA Fits ==
    ASSUME NEW n \in 0 .. (Word - 1)
    PROVE  Wrap(n) = n
BY LWEAssumption, SMT DEF Wrap

\* Halves of the modulus.
LEMMA Halves ==
    /\ HalfQ \in Nat
    /\ HalfQ >= 2
    /\ 2 * HalfQ <= Q
    /\ Q <= 2 * HalfQ + 1
BY LWEAssumption, SMT DEF HalfQ

-----------------------------------------------------------------------------
(* One row.                                                                *)

\* What is sent for a row, in one case split: nothing of the element type's
\* width shows in it.
LEMMA Sent ==
    ASSUME NEW d \in Devices, NEW x \in Nat,
           NEW e \in 0 .. (HalfQ - 1), NEW m \in {0, 1}
    PROVE  LET r == x % Q
               t == r + e + m * HalfQ
           IN  /\ r \in 0 .. (Q - 1)
               /\ EncryptRow(d, x, e, m) = IF t < Q THEN t ELSE t - Q
               /\ EncryptRow(d, x, e, m) \in 0 .. (Q - 1)
<1> DEFINE r == x % Q
           h == m * HalfQ
           t == r + e + h
<1>1. Q \in Nat /\ Q >= 4 /\ Word \in Nat /\ Word >= 2 * Q
  BY LWEAssumption, Halves, SMT
<1>2. r \in 0 .. (Q - 1)
  BY Residue
<1>3. h \in Nat /\ h <= HalfQ
  <2>1. CASE m = 0
    BY <2>1, Halves, SMT
  <2>2. CASE m = 1
    BY <2>2, Halves, SMT
  <2>. QED
    BY <2>1, <2>2
<1>4. r \in Int /\ e \in Int /\ t \in Int /\ 0 <= t /\ t < 2 * Q
  BY <1>1, <1>2, <1>3, Halves, SMT
<1>5. t % Q = IF t < Q THEN t ELSE t - Q
  <2>. HIDE DEF t
  <2>. QED
    BY <1>1, <1>4, Residue, SMT
<1>6. Wrap(Wrap(Wrap(r) + e) + Wrap(h)) = t
  <2>1. Wrap(r) = r
    BY <1>1, <1>2, Fits, SMT
  <2>2. Wrap(h) = h
    BY <1>1, <1>3, Halves, Fits, SMT
  <2>3. Wrap(r + e) = r + e
    BY <1>1, <1>2, Halves, Fits, SMT
  <2>4. Wrap(t) = t
    <3>. HIDE DEF t
    <3>. QED
      BY <1>1, <1>4, Fits, SMT
  <2>. QED
    BY <2>1, <2>2, <2>3, <2>4
<1>7. EncryptRow(d, x, e, m) = t % Q
  <2>1. CASE d = "cpu"
    BY <2>1, <1>6 DEF EncryptRow
  <2>2. CASE d = "gpu"
    BY <2>2 DEF EncryptRow
  <2>. QED
    BY <2>1, <2>2 DEF Devices
<1>. HIDE DEF t
<1>8. EncryptRow(d, x, e, m) \in 0 .. (Q - 1)
  BY <1>4, <1>7, Residue
<1>. QED
  BY <1>2, <1>5, <1>7, <1>8 DEF t

\* A quotient and a remainder are the ones.
LEMMA Remainder ==
    ASSUME NEW p \in Int, NEW w \in 0 .. (Q - 1)
    PROVE  (Q * p + w) % Q = w
<1>1. Q \in Nat /\ Q > 0
  BY LWEAssumption, Halves, SMT
<1> DEFINE n == Q * p + w
<1>2. n \in Int
  BY <1>1, SMT
<1>3. n = Q * (n \div Q) + (n % Q) /\ n \div Q \in Int /\ n % Q \in 0 .. (Q - 1)
  <2>. HIDE DEF n
  <2>. QED
    BY <1>1, <1>2, SMT
<1>4. ASSUME NEW q \in Int, NEW v \in 0 .. (Q - 1), Q * p + w = Q * q + v
      PROVE  v = w
  <2>1. Q * (p - q) = v - w
    BY <1>1, <1>4, SMT
  <2>2. p - q = 0
    <3>1. ASSUME p - q >= 1 PROVE FALSE
      <4>1. Q * (p - q) >= Q
        BY <1>1, <3>1, SMT
      <4>. QED
        BY <1>1, <2>1, <4>1, SMT
    <3>2. ASSUME p - q <= -1 PROVE FALSE
      <4>1. Q * (p - q) <= -Q
        BY <1>1, <3>2, SMT
      <4>. QED
        BY <1>1, <2>1, <4>1, SMT
    <3>. QED
      BY <3>1, <3>2, SMT
  <2>. QED
    BY <1>1, <2>1, <2>2, SMT
<1>. QED
  BY <1>3, <1>4

\* Adding before or after the remainder is taken.
LEMMA ResidueAdd ==
    ASSUME NEW x \in Int, NEW g \in Int
    PROVE  (x + g) % Q = ((x % Q) + g) % Q
<1>1. Q \in Nat /\ Q > 0
  BY LWEAssumption, Halves, SMT
<1>2. PICK k \in Int : x = Q * k + (x % Q)
  BY <1>1, SMT
<1> DEFINE r == x % Q
           w == (r + g) % Q
<1>3. r \in Int
  BY Residue
<1>4. PICK j \in Int : r + g = Q * j + w
  <2> DEFINE n == r + g
  <2>1. n \in Int
    BY <1>3
  <2>2. \E j \in Int : n = Q * j + (n % Q)
    <3>. HIDE DEF n
    <3>. QED
      BY <1>1, <2>1, SMT
  <2>. QED
    BY <2>2
<1>5. w \in 0 .. (Q - 1)
  BY <1>3, Residue
<1>6. x + g = Q * (k + j) + w
  <2>1. Q * (k + j) = Q * k + Q * j
    BY <1>1, SMT
  <2>2. x = Q * k + r
    BY <1>2
  <2>. HIDE DEF r, w
  <2>. QED
    BY <1>1, <1>3, <1>4, <1>5, <2>1, <2>2, SMT
<1>7. (Q * (k + j) + w) % Q = w
  <2>. HIDE DEF w
  <2>. QED
    BY <1>5, Remainder
<1>. QED
  BY <1>6, <1>7

\* What the client is left with: the bit, plus the error less the drift.
LEMMA Left ==
    ASSUME NEW d \in Devices, NEW x \in Nat,
           NEW e \in 0 .. (HalfQ - 1), NEW m \in {0, 1},
           NEW g \in Int, d = "cpu" => g = 0,
           e - g \in 0 .. (HalfQ - 1)
    PROVE  Noise(d, x + g, EncryptRow(d, x, e, m)) = (e - g) + m * HalfQ
<1> DEFINE r == x % Q
           h == m * HalfQ
           c == EncryptRow(d, x, e, m)
           y == (x + g) % Q
           t == r + e + h
           v == (e - g) + h
<1>1. Q \in Nat /\ Q >= 4 /\ Word \in Nat /\ Word >= 2 * Q
  BY LWEAssumption, Halves, SMT
<1>2. /\ r \in 0 .. (Q - 1)
      /\ c = IF t < Q THEN t ELSE t - Q
      /\ c \in 0 .. (Q - 1)
  BY Sent
<1>3. h \in Nat /\ h <= HalfQ
  <2>1. CASE m = 0
    BY <2>1, Halves, SMT
  <2>2. CASE m = 1
    BY <2>2, Halves, SMT
  <2>. QED
    BY <2>1, <2>2
<1>4. v \in 0 .. (Q - 1)
  BY <1>1, <1>3, Halves, SMT
<1>5. y = (r + g) % Q
  BY ResidueAdd
<1>6. /\ y \in 0 .. (Q - 1)
      /\ y \in {r + g, r + g - Q, r + g + Q}
  <2>1. r + g \in Int /\ r + g + Q >= 0 /\ r + g < 2 * Q
    <3>. HIDE DEF r
    <3>. QED
      BY <1>1, <1>2, Halves, SMT
  <2> DEFINE n == r + g
  <2>2. n % Q \in 0 .. (Q - 1) /\ n % Q \in {n, n - Q, n + Q}
    <3>1. n \in Int /\ n + Q >= 0 /\ n < 2 * Q
      BY <2>1
    <3>. HIDE DEF n
    <3>. QED
      BY <1>1, <3>1, Residue, SMT
  <2>3. y = n % Q
    BY <1>5
  <2>. HIDE DEF y, r
  <2>. QED
    BY <1>1, <1>2, <2>2, <2>3, SMT
<1>7. c - y \in {v, v - Q}
  <2>. HIDE DEF r, y, c, h
  <2>. QED
    BY <1>1, <1>2, <1>3, <1>4, <1>6, Halves, SMT
<1>8. (c - y) % Q = v
  <2>. HIDE DEF r, y, c, v
  <2>. QED
    BY <1>1, <1>2, <1>4, <1>6, <1>7, Residue, SMT
<1>9. d = "cpu" => Wrap(Wrap(c + Q) - y) % Q = v
  <2>. HIDE DEF r, y, c, v
  <2>1. Wrap(c + Q) = c + Q
    BY <1>1, <1>2, Fits, SMT
  <2>2. c + Q - y \in 0 .. (2 * Q - 1)
    BY <1>1, <1>2, <1>6, SMT
  <2>3. Wrap(c + Q - y) = c + Q - y
    BY <1>1, <2>2, Fits, SMT
  <2>4. (c + Q - y) % Q = v
    <3> DEFINE n == c + Q - y
    <3>1. n \in {v, v + Q}
      BY <1>1, <1>2, <1>4, <1>6, <1>7, SMT
    <3>2. n \in Int
      BY <2>2
    <3>3. n % Q = v
      <4>. HIDE DEF n
      <4>. QED
        BY <1>1, <1>4, <3>1, <3>2, Residue, SMT
    <3>. QED
      BY <3>3
  <2>5. Wrap(c + Q) - y = c + Q - y
    BY <1>1, <1>2, <1>6, <2>1, SMT
  <2>6. Wrap(Wrap(c + Q) - y) = c + Q - y
    BY <2>3, <2>5, Zenon
  <2>. QED
    BY <2>4, <2>6, Zenon
<1>10. Noise(d, x + g, c) = v
  <2>1. CASE d = "cpu"
    BY <1>9, <2>1 DEF Noise
  <2>2. CASE d = "gpu"
    BY <1>8, <2>2 DEF Noise
  <2>. QED
    BY <2>1, <2>2 DEF Devices
<1>. QED
  BY <1>10

\* The bit comes back whenever error and drift stay in the window.
THEOREM RowDecrypts ==
    ASSUME NEW d \in Devices, NEW x \in Nat,
           NEW e \in 0 .. (HalfQ - 1), NEW m \in {0, 1},
           NEW g \in Int, d = "cpu" => g = 0,
           e - g \in 0 .. (HalfQ - 1)
    PROVE  DecryptRow(d, x + g, EncryptRow(d, x, e, m)) = m
<1> DEFINE z == Noise(d, x + g, EncryptRow(d, x, e, m))
<1>1. z = (e - g) + m * HalfQ
  BY Left
<1>2. m = IF z < HalfQ THEN 0 ELSE 1
  <2>. HIDE DEF z
  <2>1. CASE m = 0
    BY <1>1, <2>1, Halves, SMT
  <2>2. CASE m = 1
    BY <1>1, <2>2, Halves, SMT
  <2>. QED
    BY <2>1, <2>2
<1>. QED
  BY <1>2 DEF DecryptRow

-----------------------------------------------------------------------------
(* The two functions one after the other.                                  *)

\* What b and out stand for.
Encrypted ==
    pc # "encrypt" =>
        \A i \in Rows :
            b[i] = EncryptRow(device, sum[i], error[i], message[BIT - i])

Decrypted ==
    pc = "done" =>
        /\ device = "cpu" => \A i \in Rows : drift[i] = 0
        /\ \A p \in Positions :
              out[p] = DecryptRow(device, sum[BIT - p] + drift[BIT - p],
                                  b[BIT - p])

IndInv == TypeOK /\ Encrypted /\ Decrypted

\* Rows and positions number the same bits.
LEMMA Numbering ==
    /\ \A p \in Positions : BIT - p \in Rows
    /\ \A i \in Rows : BIT - i \in Positions /\ BIT - (BIT - i) = i
BY LWEAssumption, SMT DEF Rows, Positions

LEMMA Start == Init => IndInv
<1>. SUFFICES ASSUME Init PROVE IndInv
  OBVIOUS
<1>1. TypeOK
  <2>1. 0 \in 0 .. (HalfQ - 1) /\ 0 \in 0 .. (Q - 1)
    BY LWEAssumption, Halves, SMT
  <2>. QED
    BY <2>1 DEF Init, TypeOK, Blank
<1>. QED
  BY <1>1 DEF Init, IndInv, Encrypted, Decrypted

LEMMA Step == IndInv /\ [Next]_vars => IndInv'
<1>. SUFFICES ASSUME IndInv, [Next]_vars PROVE IndInv'
  OBVIOUS
<1>. USE DEF IndInv
<1>1. CASE Encrypt
  <2>. USE <1>1
  <2>1. /\ sum' \in [Rows -> Nat]
        /\ error' \in [Rows -> 0 .. (HalfQ - 1)]
    <3>1. Sums \subseteq Nat
      BY LWEAssumption, SMT
    <3>2. Errors(device) \subseteq 0 .. (HalfQ - 1)
      BY Halves, SMT DEF Errors, ErrorMax
    <3>3. sum' \in [Rows -> Sums] /\ error' \in [Rows -> Errors(device)]
      BY DEF Encrypt
    <3>. HIDE DEF IndInv
    <3>4. sum' \in [Rows -> Nat]
      BY <3>1, <3>3
    <3>5. error' \in [Rows -> 0 .. (HalfQ - 1)]
      BY <3>2, <3>3
    <3>. QED
      BY <3>4, <3>5
  <2>2. \A i \in Rows : message2bin(message)[i] = message[BIT - i]
    BY DEF message2bin
  <2>3. \A i \in Rows : message[BIT - i] \in {0, 1}
    BY Numbering DEF TypeOK
  <2>4. \A i \in Rows :
            b'[i] = EncryptRow(device, sum'[i], error'[i], message[BIT - i])
    BY <2>2 DEF Encrypt
  <2>5. \A i \in Rows : b'[i] \in 0 .. (Q - 1)
    <3>. SUFFICES ASSUME NEW i \in Rows PROVE b'[i] \in 0 .. (Q - 1)
      OBVIOUS
    <3> DEFINE x == sum'[i]
               e == error'[i]
               m == message[BIT - i]
    <3>1. /\ device \in Devices
          /\ x \in Nat /\ e \in 0 .. (HalfQ - 1) /\ m \in {0, 1}
      BY <2>1, <2>3 DEF TypeOK
    <3>2. EncryptRow(device, x, e, m) \in 0 .. (Q - 1)
      <4>. HIDE DEF x, e, m
      <4>. QED
        BY <3>1, Sent
    <3>. QED
      BY <2>4, <3>2
  <2>6. b' \in [Rows -> 0 .. (Q - 1)]
    BY <2>5 DEF Encrypt
  <2>7. TypeOK'
    BY <2>1, <2>6 DEF TypeOK, Encrypt
  <2>8. Encrypted'
    BY <2>4 DEF Encrypted, Encrypt
  <2>9. Decrypted'
    BY DEF Decrypted, Encrypt
  <2>. QED
    BY <2>7, <2>8, <2>9
<1>2. CASE Decrypt
  <2>. USE <1>2
  <2>1. drift' \in [Rows -> Int]
    <3>1. CASE device = "gpu"
      BY <3>1, LWEAssumption DEF Decrypt
    <3>2. CASE device # "gpu"
      <4>1. drift' \in [Rows -> {0}]
        BY <3>2 DEF Decrypt
      <4>. QED
        BY <4>1
    <3>. QED
      BY <3>1, <3>2
  <2>2. \A p \in Positions :
            out'[p] = DecryptRow(device, sum[BIT - p] + drift'[BIT - p],
                                 b[BIT - p])
    BY Numbering DEF Decrypt, bitset
  <2>3. out' \in [Positions -> {0, 1}]
    BY <2>2 DEF Decrypt, bitset, DecryptRow
  <2>4. device = "cpu" => \A i \in Rows : drift'[i] = 0
    BY DEF Decrypt
  <2>5. TypeOK'
    BY <2>1, <2>3 DEF TypeOK, Decrypt
  <2>6. Encrypted'
    BY DEF Encrypted, Decrypt
  <2>7. Decrypted'
    BY <2>2, <2>4 DEF Decrypted, Decrypt
  <2>. QED
    BY <2>5, <2>6, <2>7
<1>3. CASE UNCHANGED vars
  BY <1>3 DEF vars, TypeOK, Encrypted, Decrypted
<1>. QED
  BY <1>1, <1>2, <1>3 DEF Next

LEMMA Inductive == Spec => []IndInv
BY Start, Step, PTL DEF Spec

\* The state stays well typed; in particular every value sent is a residue,
\* below Q, whatever the sums and the errors were.
THEOREM TypeCorrect == Spec => []TypeOK
<1>1. IndInv => TypeOK
  BY DEF IndInv
<1>. QED
  BY <1>1, Inductive, PTL

\* For every modulus, word size, width of a character, error and drift.
THEOREM WindowToleratesHolds == Spec => []WindowTolerates
<1>1. IndInv => WindowTolerates
  <2>. SUFFICES ASSUME IndInv, pc = "done", NEW i \in Rows,
                       error[i] - drift[i] \in 0 .. (HalfQ - 1)
                PROVE  out[BIT - i] = message[BIT - i]
    BY DEF WindowTolerates
  <2>1. BIT - i \in Positions /\ BIT - (BIT - i) = i
    BY Numbering
  <2>2. out[BIT - i] = DecryptRow(device, sum[i] + drift[i], b[i])
    BY <2>1, Zenon DEF IndInv, Decrypted
  <2>3. b[i] = EncryptRow(device, sum[i], error[i], message[BIT - i])
    BY DEF IndInv, Encrypted
  <2>4. /\ device \in Devices
        /\ sum[i] \in Nat
        /\ error[i] \in 0 .. (HalfQ - 1)
        /\ message[BIT - i] \in {0, 1}
        /\ drift[i] \in Int
        /\ device = "cpu" => drift[i] = 0
    BY <2>1 DEF IndInv, TypeOK, Decrypted
  <2> DEFINE x == sum[i]
             e == error[i]
             m == message[BIT - i]
             g == drift[i]
  <2>5. DecryptRow(device, x + g, EncryptRow(device, x, e, m)) = m
    <3>1. e - g \in 0 .. (HalfQ - 1)
      OBVIOUS
    <3>. HIDE DEF x, e, m, g
    <3>. QED
      BY <2>4, <3>1, RowDecrypts DEF x, e, m, g
  <2>. QED
    BY <2>2, <2>3, <2>5
<1>. QED
  BY <1>1, Inductive, PTL

\* Equal sums: the drift is zero, and every error is in the window.
THEOREM DecryptsExactlyHolds == Spec => []DecryptsExactly
<1>1. IndInv /\ WindowTolerates => DecryptsExactly
  <2>. SUFFICES ASSUME IndInv, WindowTolerates, pc = "done",
                       \A i \in Rows : drift[i] = 0
                PROVE  out = message
    BY DEF DecryptsExactly
  <2>1. ASSUME NEW p \in Positions PROVE out[p] = message[p]
    <3>1. BIT - p \in Rows /\ BIT - (BIT - p) = p
      BY LWEAssumption, SMT DEF Rows, Positions
    <3>2. error[BIT - p] \in 0 .. (HalfQ - 1) /\ drift[BIT - p] = 0
      BY <3>1 DEF IndInv, TypeOK
    <3>3. error[BIT - p] - drift[BIT - p] \in 0 .. (HalfQ - 1)
      BY <3>2, Halves, SMT
    <3>. QED
      BY <3>1, <3>3, Zenon DEF WindowTolerates
  <2>. QED
    BY <2>1 DEF IndInv, TypeOK
<1>. QED
  BY <1>1, Inductive, WindowToleratesHolds, PTL
=============================================================================
