---------------------------- MODULE MCObjectsDir ----------------------------
(* Symmetry sets are unsound with liveness; but the names of the processes do *)
(* not matter, so the first thread may be given one of them.                  *)
EXTENDS ObjectsDir

MCInit ==
    /\ Init
    /\ process[CHOOSE a \in Actors : TRUE] = CHOOSE p \in Processes : TRUE
MCSpec == MCInit /\ [][Next]_vars /\ \A a \in Actors : WF_vars(Step(a))
=============================================================================
