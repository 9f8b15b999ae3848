----------------------------- MODULE MCTransfer -----------------------------
(***************************************************************************)
(* Instances of Transfer for TLC. The constants are given in the           *)
(* configurations; nothing is redefined here.                              *)
(***************************************************************************)
EXTENDS Transfer
=============================================================================
