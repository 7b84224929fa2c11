-------------------------- MODULE MCSyncProtocol --------------------------
(* SyncProtocol with clones that start in step with a remote in which the  *)
(* line-merge files exist and the others do not.                           *)
EXTENDS SyncProtocol, TLC

CONSTANT Old    \* what every region of a published file holds at first
MCSeed == [p \in Paths |-> IF p \in LineMerge THEN [h \in Hunks |-> Old] ELSE Absent]
MCSymmetry == Permutations(Clones)
===========================================================================
