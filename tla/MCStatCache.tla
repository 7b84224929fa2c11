---------------------------- MODULE MCStatCache ----------------------------
(* Contents are interchangeable; paths are not, they are ordered.           *)
EXTENDS StatCache, TLC

MCSymmetry == Permutations(Contents)
=============================================================================
