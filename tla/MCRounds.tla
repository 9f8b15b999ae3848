------------------------------ MODULE MCRounds ------------------------------
(***************************************************************************)
(* Instances of Rounds for TLC. The constants are given in the             *)
(* configuration; nothing is redefined here.                               *)
(***************************************************************************)
EXTENDS Rounds
=============================================================================
