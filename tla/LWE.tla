-------------------------------- MODULE LWE --------------------------------
(***************************************************************************)
(* One character through LWE.hpp: the server encrypts it bit by bit, one   *)
(* row of the matrix A per bit, and the client decrypts it with its own    *)
(* copy of A. A message is S_LEN characters, each done the same way.       *)
(*                                                                         *)
(* There are two implementations, encrypt/decrypt on the CPU and           *)
(* encryptGPU/decryptGPU; the two sides run the same one. What they share  *)
(* of A and s is, per row, the inner product A*s. The CPU computes it in   *)
(* the element type, which wraps the same way on both sides. The GPU       *)
(* computes it in float32, which is not exact above 2^24 (a row has 8192   *)
(* products of up to 96*96), so two kernels that add in different orders   *)
(* may differ by a few units.                                              *)
(***************************************************************************)
EXTENDS Integers

CONSTANTS
    Q,      \* the modulus (config.h)
    Word,   \* number of values of the element type; the code has 2^16
    Sums,   \* the values of A*s the server may get for a row
    Drifts, \* what a GPU client's A*s may differ from the server's by
    BIT     \* bits of a character

Rows == 1 .. BIT

HalfQ == Q \div 2

ASSUME LWEAssumption ==
    /\ Q \in Nat /\ HalfQ >= 2
    /\ Word \in Nat /\ Word >= 2 * Q
    /\ Sums \subseteq 0 .. (Word - 1)
    /\ Drifts \subseteq Int
    /\ BIT \in Nat

Devices == {"cpu", "gpu"}

VARIABLES
    device,  \* which implementation
    message, \* [position]: the bits of the character to send
    sum,     \* [row]: the server's A*s
    error,   \* [row]: the error e
    b,       \* [row]: what is sent
    drift,   \* [row]: how much the client's A*s differs
    out,     \* [position]: the bits of the character read
    pc

vars == <<device, message, sum, error, b, drift, out, pc>>

-----------------------------------------------------------------------------
(* Arithmetic of the element type, and one row of each function.           *)

Wrap(n) == n % Word

\* Mutant of ErrorMax: the bound of the uniform distribution, taken as HalfQ.
ErrorMaxHalf(d) == IF d = "cpu" THEN HalfQ ELSE HalfQ - 2

\* The largest e: uniform_int_distribution includes its upper bound, randint
\* does not.
ErrorMax(d) == IF d = "cpu" THEN HalfQ - 1 ELSE HalfQ - 2

Errors(d) == 0 .. ErrorMax(d)

\* Mutant of EncryptRow: the error is left out of the modulus.
EncryptRowNoMod(d, x, e, m) ==
    IF d = "cpu"
    THEN Wrap(Wrap(Wrap(x % Q) + e) + Wrap(m * HalfQ))
    ELSE (x % Q) + e + m * HalfQ

EncryptRow(d, x, e, m) ==
    IF d = "cpu"
    THEN Wrap(Wrap(Wrap(x % Q) + e) + Wrap(m * HalfQ)) % Q
    ELSE ((x % Q) + e + m * HalfQ) % Q

\* Mutant of Noise: q_ is not added, and the element type is unsigned.
NoiseUnsigned(d, y, c) ==
    IF d = "cpu" THEN Wrap(c - (y % Q)) % Q
    ELSE (c - (y % Q)) % Q

\* What is left of a row without A*s. torch's % has the sign of the modulus.
Noise(d, y, c) ==
    IF d = "cpu" THEN Wrap(Wrap(c + Q) - (y % Q)) % Q
    ELSE (c - (y % Q)) % Q

DecryptRow(d, y, c) == IF Noise(d, y, c) < HalfQ THEN 0 ELSE 1

-----------------------------------------------------------------------------
(* A character's bits are numbered from the least significant one, its rows *)
(* and the digits of a bitset's string start at the most significant.      *)

Positions == 0 .. (BIT - 1)

message2bin(c) == [k \in Rows |-> c[BIT - k]]

bitset(digits) == [p \in Positions |-> digits[BIT - p]]

-----------------------------------------------------------------------------

Blank == [i \in Rows |-> 0]

Init ==
    /\ device \in Devices
    /\ message \in [Positions -> {0, 1}]
    /\ sum = Blank
    /\ error = Blank
    /\ b = Blank
    /\ drift = Blank
    /\ out = [p \in Positions |-> 0]
    /\ pc = "encrypt"

\* encrypt, encryptGPU
Encrypt ==
    /\ pc = "encrypt"
    /\ sum' \in [Rows -> Sums]
    /\ error' \in [Rows -> Errors(device)]
    /\ b' = [i \in Rows |->
               EncryptRow(device, sum'[i], error'[i],
                          message2bin(message)[i])]
    /\ pc' = "decrypt"
    /\ UNCHANGED <<device, message, drift, out>>

\* decrypt, decryptGPU
Decrypt ==
    /\ pc = "decrypt"
    /\ drift' \in [Rows -> IF device = "gpu" THEN Drifts ELSE {0}]
    /\ out' = bitset([i \in Rows |->
                        DecryptRow(device, sum[i] + drift'[i], b[i])])
    /\ pc' = "done"
    /\ UNCHANGED <<device, message, sum, error, b>>

Next == Encrypt \/ Decrypt

Spec == Init /\ [][Next]_vars

-----------------------------------------------------------------------------

TypeOK ==
    /\ device \in Devices
    /\ message \in [Positions -> {0, 1}]
    /\ sum \in [Rows -> Nat]
    /\ error \in [Rows -> 0 .. (HalfQ - 1)]
    /\ b \in [Rows -> 0 .. (Q - 1)]
    /\ drift \in [Rows -> Int]
    /\ out \in [Positions -> {0, 1}]
    /\ pc \in {"encrypt", "decrypt", "done"}

\* Where the two sides compute the same A*s, the character is read as it
\* was sent: for every error the server may draw, with the sums wrapped at the
\* element type, in both implementations (lwe_test.cc asserts it for the
\* messages it tries).
DecryptsExactly ==
    (pc = "done" /\ \A i \in Rows : drift[i] = 0) => out = message

\* How far apart the two GPUs' sums may be: the error and the drift together
\* must stay in the window of HalfQ values around a bit. The GPU's errors
\* leave room for a client whose sum is one lower, and none for one higher.
WindowTolerates ==
    pc = "done" =>
        \A i \in Rows :
            error[i] - drift[i] \in 0 .. (HalfQ - 1) =>
                out[BIT - i] = message[BIT - i]
=============================================================================
