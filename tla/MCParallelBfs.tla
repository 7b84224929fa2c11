--------------------------- MODULE MCParallelBfs ---------------------------
(* A small object graph for ParallelBfs: one tree reached from two roots,   *)
(* a blob shared by two parents, and a manifest that repeats a chunk.       *)
EXTENDS ParallelBfs, TLC

CONSTANTS tree, dir, blob

MCNodes == {tree, dir, blob}
MCRoots == <<tree, blob>>
MCChildren == (tree :> <<dir, blob>>) @@ (dir :> <<blob, blob>>) @@ (blob :> <<>>)
MCAll == MCNodes
MCNone == {}
MCDir == {dir}
MCSymmetry == Permutations(Workers)
=============================================================================
