----------------------------- MODULE MCDownload -----------------------------
(* Download with sessions that are interchangeable: what the safety runs    *)
(* check does not tell two transfer identifiers apart.                      *)
EXTENDS Download, TLC

Symmetry == Permutations(Tids)
=============================================================================
