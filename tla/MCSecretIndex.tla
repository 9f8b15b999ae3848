--------------------------- MODULE MCSecretIndex ---------------------------
(* Two requests and two strings over three seconds: the string of the first *)
(* second comes back, when its index is locked or already published.       *)
EXTENDS SecretIndex

CONSTANTS h1, h2, a, b

MCRequests == {h1, h2}
MCIndexes == {a, b}
MCStringAt == [t \in 0 .. MaxTime |-> IF t = 1 THEN b ELSE a]
=============================================================================
