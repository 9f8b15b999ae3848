---------------------------- MODULE MCDerivation ----------------------------
(***************************************************************************)
(* Instances of Derivation for TLC. The constants are given in the         *)
(* configuration; nothing is redefined here.                               *)
(***************************************************************************)
EXTENDS Derivation
=============================================================================
