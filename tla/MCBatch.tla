------------------------------ MODULE MCBatch ------------------------------
(* The modulus is not 0, so the two sides' last threads take more than     *)
(* their share, by different arithmetic.                                   *)
EXTENDS Batch
=============================================================================
