--------------------------- MODULE MCRemoteIndex ---------------------------
(* Two root trees that share a subtree, which has been a root itself; one   *)
(* object of each size class.                                               *)
EXTENDS RemoteIndex, TLC

CONSTANTS ra, rb, x, y

MCHashes == {ra, rb, x, y}
MCRoots == {ra, rb, x}
MCChildren == (ra :> {x}) @@ (rb :> {x, y}) @@ (x :> {}) @@ (y :> {})
MCKind == (ra :> "inline") @@ (rb :> "standalone") @@ (x :> "pack") @@ (y :> "pack")
MCPrefix == (ra :> 0) @@ (rb :> 0) @@ (x :> 1) @@ (y :> 1)
MCPrefixes == {0, 1}
MCSymmetry == Permutations(Clients)
=============================================================================
