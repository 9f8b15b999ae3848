------------------------------- MODULE MCLWE -------------------------------
(* Two bits; the sums cover every residue and wrap at the word's end.      *)
EXTENDS LWE

MCSums == 0 .. (Word - 1)
MCDrifts == {-1, 0, 1}
=============================================================================
