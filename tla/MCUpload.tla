------------------------------ MODULE MCUpload ------------------------------
(* Upload with sessions that are interchangeable: what the safety runs      *)
(* check does not tell two transfer identifiers apart.                      *)
EXTENDS Upload, TLC

Symmetry == Permutations(Tids)
=============================================================================
