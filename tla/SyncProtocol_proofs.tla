------------------------ MODULE SyncProtocol_proofs ------------------------
(***************************************************************************)
(* Proofs about SyncProtocol, for any number of clones, paths, contents,   *)
(* edits and crashes: its type invariant and its four action properties.   *)
(***************************************************************************)
EXTENDS SyncProtocol, TLAPS

-----------------------------------------------------------------------------
(* The inductive invariant, one part per kind of command.                  *)

\* An accept-* command works on paths whose helpers exist, and clone_root has
\* been advanced before the first helper goes.
AcceptInv(c) ==
    /\ pc[c] = "acceptApply" =>
         /\ todo[c] \subseteq scope[c]
         /\ \A p \in scope[c] : helpers[c][p] # NoHelpers
         /\ \A p \in scope[c] \ todo[c] : p \in mine[c]
    /\ pc[c] = "acceptClean" =>
         \A p \in todo[c] : helpers[c][p] # NoHelpers /\ cr[c][p] = helpers[c][p]["remote"]

\* Everything a clone holds, it has had or been shown.
KnownInv(c) ==
    \A p \in Paths :
        /\ Absent \in known[c][p]
        /\ cr[c][p] \in known[c][p] /\ wt[c][p] \in known[c][p]
        /\ seen[c][p] \in known[c][p] /\ newClone[c][p] \in known[c][p]
        /\ helpers[c][p] # NoHelpers => \A s \in Sides : helpers[c][p][s] \in known[c][p]

\* A working file that differs from clone_root has a reason to.
Explained(c, p) == p \in mine[c] \cup partial[c]
DriftInv(c) == \A p \in Paths : wt[c][p] # cr[c][p] => Explained(c, p)

\* What a push scanned, and what it is about to publish and record.
PushInv(c) ==
    /\ (pc[c] = "pushScan" /\ kind[c] = "full") => scope[c] = Paths
    /\ pc[c] = "pushScan" =>
         \A p \in scope[c] \ todo[c] :
            /\ wt[c][p] = seen[c][p] \/ p \in mine[c]
            /\ seen[c][p] # cr[c][p] => Explained(c, p)
    /\ pc[c] = "pushCommit" =>
         \A p \in Paths :
            newRemote[c][p] = snap[c][p] \/ (snap[c][p] \in known[c][p] /\ Explained(c, p))
    /\ pc[c] \in {"pushCommit", "pushRecord"} =>
         \A p \in Paths :
            \/ newClone[c][p] = cr[c][p]
            \/ newClone[c][p] = wt[c][p]
            \/ p \in mine[c]

\* What a pull scanned, and the paths it has and has not written yet.
PullInv(c) ==
    /\ pc[c] = "pullScan" =>
         \A p \in scope[c] \ todo[c] :
            /\ wt[c][p] = seen[c][p] \/ p \in touched[c]
            /\ seen[c][p] # cr[c][p] => Explained(c, p)
    /\ pc[c] = "pullVerify" => todo[c] = scope[c]
    /\ pc[c] \in {"pullVerify", "pullApply"} =>
         /\ todo[c] \subseteq scope[c]
         /\ \A p \in todo[c] :
              /\ wt[c][p] = seen[c][p] \/ p \in touched[c]
              /\ merged[c][p] = NoMerge => seen[c][p] \in {cr[c][p], snap[c][p]}
              /\ merged[c][p] # NoMerge => Explained(c, p)
    /\ pc[c] = "pullApply" =>
         \A p \in scope[c] \ todo[c] : snap[c][p] \in known[c][p] /\ Explained(c, p)

CloneInv(c) == AcceptInv(c) /\ KnownInv(c) /\ DriftInv(c) /\ PushInv(c) /\ PullInv(c)
IndInv == TypeOK /\ \A c \in Clones : CloneInv(c)

-----------------------------------------------------------------------------
(* Helpers.                                                                *)

\* A line merge of two files is a file, or there is none.
LEMMA MergeType ==
    ASSUME NEW base \in MaybeFile, NEW ours \in Contents, NEW theirs \in Contents
    PROVE  merge(base, ours, theirs) \in Contents \cup {NoMerge}
BY DEF merge, Contents

\* The line merge a pull tries on one path yields a file or nothing.
LEMMA TryMergeType ==
    ASSUME TypeOK, NEW c \in Clones, NEW p \in Paths
    PROVE  try_line_merge_one(c, p) \in Contents \cup {NoMerge}
<1>1. cr[c][p] \in MaybeFile /\ wt[c][p] \in MaybeFile /\ snap[c][p] \in MaybeFile
  BY DEF TypeOK, Trees
<1>2. CASE snap[c][p] # Absent /\ wt[c][p] # Absent
  BY <1>1, <1>2, MergeType DEF try_line_merge_one, MaybeFile
<1>3. CASE ~(snap[c][p] # Absent /\ wt[c][p] # Absent)
  BY <1>3 DEF try_line_merge_one
<1> QED BY <1>2, <1>3

\* Splicing two trees gives a tree.
LEMMA SpliceType ==
    ASSUME NEW t \in Trees, NEW u \in Trees, NEW S \in SUBSET Paths
    PROVE  Splice(t, S, u) \in Trees
BY DEF Splice, Trees

\* The state a command leaves behind is well typed.
LEMMA StopType ==
    ASSUME TypeOK, NEW c \in Clones, Stop(c)
    PROVE  /\ pc' \in [Clones -> PCs] /\ kind' \in [Clones -> {"full", "scoped"}]
           /\ scope' \in [Clones -> SUBSET Paths] /\ todo' \in [Clones -> SUBSET Paths]
           /\ snap' \in [Clones -> Trees] /\ seen' \in [Clones -> Trees]
           /\ touched' \in [Clones -> SUBSET Paths]
           /\ merged' \in [Clones -> [Paths -> Contents \cup {NoMerge}]]
           /\ newRemote' \in [Clones -> Trees] /\ newClone' \in [Clones -> Trees]
           /\ side' \in [Clones -> Sides]
<1>1. EmptyTree \in Trees BY DEF EmptyTree, Trees, MaybeFile
<1>2. NoMerges \in [Paths -> Contents \cup {NoMerge}] BY DEF NoMerges
<1>3. "idle" \in PCs /\ "local" \in Sides BY DEF PCs, Sides
<1> QED BY <1>1, <1>2, <1>3 DEF TypeOK, Stop

\* Replacing clone_root keeps it, mine and partial well typed.
LEMMA RecordType ==
    ASSUME TypeOK, NEW c \in Clones, NEW t \in Trees, Record(c, t)
    PROVE  /\ cr' \in [Clones -> Trees]
           /\ mine' \in [Clones -> SUBSET Paths] /\ partial' \in [Clones -> SUBSET Paths]
BY DEF TypeOK, Record

\* Fresh clones of an empty remote are well typed.
LEMMA InitType == Init => TypeOK
<1> SUFFICES ASSUME Init PROVE TypeOK OBVIOUS
<1>1. EmptyTree \in Trees BY DEF EmptyTree, Trees, MaybeFile
<1>2. NoMerges \in [Paths -> Contents \cup {NoMerge}] BY DEF NoMerges
<1>3. Absent \in MaybeFile BY DEF MaybeFile
<1>4. "idle" \in PCs /\ "local" \in Sides BY DEF PCs, Sides
<1>5. 0 \in 0..MaxEdits /\ 0 \in 0..MaxCrashes BY ConstantsAssumption
<1>6. Seed \in Trees BY ConstantsAssumption
<1>7. [p \in Paths |-> {Absent, Seed[p]}] \in [Paths -> SUBSET MaybeFile] BY <1>3, <1>6 DEF Trees
<1> QED BY <1>1, <1>2, <1>3, <1>4, <1>5, <1>6, <1>7 DEF Init, TypeOK

-----------------------------------------------------------------------------
(* Every step preserves the type invariant.                                *)

\* Every step of every command, of the user and of a crash keeps the types.
LEMMA TypeStep ==
    ASSUME TypeOK, \A c \in Clones : AcceptInv(c), [Next]_vars
    PROVE  TypeOK'
<1>u. CASE UNCHANGED vars
  BY <1>u DEF vars, TypeOK
<1>n. SUFFICES ASSUME NEW c \in Clones,
                      \/ \E p \in Paths, v \in MaybeFile : Edit(c, p, v)
                      \/ \E p \in Paths : Scan(c, p)
                      \/ PushStep(c) \/ PullStep(c) \/ AcceptStep(c) \/ Crash(c)
               PROVE  TypeOK'
  BY <1>u DEF Next
<1> USE DEF TypeOK
<1>1. ASSUME NEW p \in Paths, NEW v \in MaybeFile, Edit(c, p, v) PROVE TypeOK'
  BY <1>1, ConstantsAssumption DEF Edit, Write, Learn, command, Trees
<1>2. ASSUME NEW p \in Paths, Scan(c, p) PROVE TypeOK'
  BY <1>2 DEF Scan, Trees
<1>3. CASE Crash(c)
  BY <1>3, StopType, ConstantsAssumption DEF Crash
<1>4. CASE PushStep(c)
  <2>1. CASE PushFull(c) BY <2>1 DEF PushFull, Start, PCs
  <2>2. ASSUME NEW S \in SUBSET Paths, PushScoped(c, S) PROVE TypeOK'
    BY <2>2 DEF PushScoped, Start, PCs
  <2>3. CASE PushFullPrepare(c) BY <2>3 DEF PushFullPrepare, PCs
  <2>4. CASE PushScopedPrepare(c)
    <3>1. Effective(c) \in SUBSET Paths BY DEF Effective, Changed
    <3>2. Splice(snap[c], Effective(c), seen[c]) \in Trees BY <3>1, SpliceType
    <3>3. Splice(cr[c], Effective(c), seen[c]) \in Trees BY <3>1, SpliceType
    <3> QED BY <2>4, <3>2, <3>3 DEF PushScopedPrepare, PCs
  <2>5. CASE PushRefused(c) BY <2>5, StopType DEF PushRefused
  <2>6. CASE PushCommit(c) BY <2>6 DEF PushCommit, PCs
  <2>7. CASE PushCasFailed(c) BY <2>7, StopType DEF PushCasFailed
  <2>8. CASE PushRecord(c)
    BY <2>8, StopType, RecordType DEF PushRecord
  <2> QED BY <1>4, <2>1, <2>2, <2>3, <2>4, <2>5, <2>6, <2>7, <2>8 DEF PushStep
<1>5. CASE PullStep(c)
  <2>1. ASSUME NEW k \in {"full", "scoped"}, NEW S \in SUBSET Paths, PullBegin(c, k, S)
        PROVE  TypeOK'
    BY <2>1 DEF PullBegin, Start, PCs
  <2>2. CASE PullConflict(c)
    <3>1. Remaining(c) \in SUBSET Paths BY DEF Remaining, Conflicting
    <3> QED BY <2>2, <3>1 DEF PullConflict, PCs
  <2>3. CASE PullConflictEnd(c) BY <2>3, StopType DEF PullConflictEnd
  <2>4. CASE PullResolve(c)
    <3>1. [p \in Paths |-> IF p \in Conflicting(c) THEN try_line_merge_one(c, p) ELSE NoMerge]
            \in [Paths -> Contents \cup {NoMerge}]
      BY TryMergeType
    <3> QED BY <2>4, <3>1 DEF PullResolve, PCs
  <2>5. CASE PullVerify(c) BY <2>5 DEF PullVerify, PCs
  <2>6. CASE PullAbort(c) BY <2>6, StopType DEF PullAbort
  <2>7. CASE PullRecord(c)
    <3>1. Splice(cr[c], scope[c], snap[c]) \in Trees BY SpliceType
    <3> QED BY <2>7, <3>1, StopType, RecordType DEF PullRecord
  <2>8. ASSUME NEW p \in Paths, WriteHelpers(c, p) PROVE TypeOK'
    <3>1. cr[c][p] \in MaybeFile /\ wt[c][p] \in MaybeFile /\ snap[c][p] \in MaybeFile
      BY DEF Trees
    <3>2. [s \in Sides |-> CASE s = "base" -> cr[c][p]
                             [] s = "local" -> wt[c][p]
                             [] s = "remote" -> snap[c][p]] \in HelperSets
      BY <3>1 DEF HelperSets, Sides
    <3> QED BY <2>8, <3>1, <3>2 DEF WriteHelpers, Learn
  <2>9. ASSUME NEW p \in Paths, PullApply(c, p) PROVE TypeOK'
    BY <2>9 DEF PullApply, Write, Learn, Trees
  <2>10. ASSUME NEW p \in Paths, PullWriteMerge(c, p) PROVE TypeOK'
    BY <2>10 DEF PullWriteMerge, Write, Trees, MaybeFile
  <2> QED BY <1>5, <2>1, <2>2, <2>3, <2>4, <2>5, <2>6, <2>7, <2>8, <2>9, <2>10
          DEF PullStep
<1>6. CASE AcceptStep(c)
  <2>1. ASSUME NEW s \in Sides, NEW S \in SUBSET Paths, AcceptBegin(c, s, S) PROVE TypeOK'
    BY <2>1 DEF AcceptBegin, Start, PCs
  <2>2. ASSUME NEW p \in Paths, AcceptApply(c, p) PROVE TypeOK'
    <3>1. helpers[c][p][side[c]] \in MaybeFile
      BY <2>2 DEF AcceptApply, AcceptInv, HelperSets
    <3> QED BY <2>2, <3>1 DEF AcceptApply, Write, Trees
  <2>3. ASSUME NEW p \in Paths, AcceptClean(c, p) PROVE TypeOK'
    BY <2>3 DEF AcceptClean
  <2>4. CASE AcceptRecord(c)
    <3> DEFINE t == [p \in Paths |-> IF p \in scope[c] THEN helpers[c][p]["remote"]
                                      ELSE cr[c][p]]
    <3>1. t \in Trees BY <2>4 DEF AcceptRecord, AcceptInv, HelperSets, Trees, Sides
    <3> HIDE DEF t
    <3>2. Record(c, t) BY <2>4 DEF AcceptRecord, t
    <3> QED BY <2>4, <3>1, <3>2, RecordType DEF AcceptRecord, PCs
  <2>5. CASE AcceptEnd(c) BY <2>5, StopType DEF AcceptEnd
  <2>6. ASSUME NEW S \in SUBSET Paths, ConflictClean(c, S) PROVE TypeOK'
    BY <2>6 DEF ConflictClean, command
  <2> QED BY <1>6, <2>1, <2>2, <2>3, <2>4, <2>5, <2>6 DEF AcceptStep
<1> QED BY <1>n, <1>1, <1>2, <1>3, <1>4, <1>5, <1>6

-----------------------------------------------------------------------------
(* A step of one clone leaves the state of the others alone.               *)

Frame(d) ==
    /\ wt'[d] = wt[d] /\ cr'[d] = cr[d] /\ helpers'[d] = helpers[d]
    /\ pc'[d] = pc[d] /\ kind'[d] = kind[d] /\ scope'[d] = scope[d] /\ todo'[d] = todo[d]
    /\ snap'[d] = snap[d] /\ seen'[d] = seen[d] /\ touched'[d] = touched[d]
    /\ merged'[d] = merged[d] /\ newRemote'[d] = newRemote[d] /\ newClone'[d] = newClone[d]
    /\ side'[d] = side[d] /\ known'[d] = known[d] /\ mine'[d] = mine[d]
    /\ partial'[d] = partial[d]

\* A step that leaves a clone's variables alone keeps what holds of that clone.
LEMMA FrameKeepsInv ==
    ASSUME NEW d \in Clones, CloneInv(d), Frame(d)
    PROVE  CloneInv(d)'
BY DEF Frame, CloneInv, AcceptInv, KnownInv, DriftInv, PushInv, PullInv, Explained

StepOf(c) ==
    \/ \E p \in Paths, v \in MaybeFile : Edit(c, p, v)
    \/ \E p \in Paths : Scan(c, p)
    \/ PushStep(c) \/ PullStep(c) \/ AcceptStep(c) \/ Crash(c)

\* A step of one clone leaves the other clones' variables alone.
LEMMA StepFrame ==
    ASSUME TypeOK, NEW c \in Clones, NEW d \in Clones, d # c, StepOf(c)
    PROVE  Frame(d)
<1> USE DEF TypeOK, Frame
<1>1. ASSUME NEW p \in Paths, NEW v \in MaybeFile, Edit(c, p, v) PROVE Frame(d)
  BY <1>1 DEF Edit, Write, Learn, command
<1>2. ASSUME NEW p \in Paths, Scan(c, p) PROVE Frame(d)
  BY <1>2 DEF Scan
<1>3. CASE Crash(c)
  BY <1>3 DEF Crash, Stop
<1>4. CASE PushStep(c)
  BY <1>4 DEF PushStep, PushFull, PushScoped, PushFullPrepare, PushScopedPrepare, PushRefused,
              PushCommit, PushCasFailed, PushRecord, Start, Stop, Record
<1>5. CASE PullStep(c)
  <2>1. ASSUME NEW p \in Paths, WriteHelpers(c, p) \/ PullApply(c, p) \/ PullWriteMerge(c, p)
        PROVE  Frame(d)
    BY <2>1 DEF WriteHelpers, PullApply, PullWriteMerge, Write, Learn
  <2>2. ASSUME NEW k \in {"full", "scoped"}, NEW S \in SUBSET Paths, PullBegin(c, k, S)
        PROVE  Frame(d)
    BY <2>2 DEF PullBegin, Start
  <2>3. CASE \/ PullConflict(c) \/ PullConflictEnd(c) \/ PullResolve(c) \/ PullVerify(c)
             \/ PullAbort(c) \/ PullRecord(c)
    BY <2>3 DEF PullConflict, PullConflictEnd, PullResolve, PullVerify, PullAbort, PullRecord,
                Stop, Record
  <2> QED BY <1>5, <2>1, <2>2, <2>3 DEF PullStep
<1>6. CASE AcceptStep(c)
  <2>1. ASSUME NEW p \in Paths, AcceptApply(c, p) \/ AcceptClean(c, p) PROVE Frame(d)
    BY <2>1 DEF AcceptApply, AcceptClean, Write
  <2>2. ASSUME NEW s \in Sides, NEW S \in SUBSET Paths, AcceptBegin(c, s, S) PROVE Frame(d)
    BY <2>2 DEF AcceptBegin, Start
  <2>3. ASSUME NEW S \in SUBSET Paths, ConflictClean(c, S) PROVE Frame(d)
    BY <2>3 DEF ConflictClean, command
  <2>4. CASE AcceptRecord(c) \/ AcceptEnd(c)
    BY <2>4 DEF AcceptRecord, AcceptEnd, Record, Stop
  <2> QED BY <1>6, <2>1, <2>2, <2>3, <2>4 DEF AcceptStep
<1> QED BY <1>1, <1>2, <1>3, <1>4, <1>5, <1>6 DEF StepOf

-----------------------------------------------------------------------------
(* A clone's own steps keep its part of the invariant.                     *)

\* A command that is over, or was never begun, promises nothing.
LEMMA IdleInv ==
    ASSUME NEW c \in Clones, pc'[c] = "idle"
    PROVE  AcceptInv(c)' /\ PushInv(c)' /\ PullInv(c)'
BY DEF AcceptInv, PushInv, PullInv

\* Stopping, with the trees left as they are.
LEMMA StopInv ==
    ASSUME TypeOK, NEW c \in Clones, CloneInv(c), Stop(c),
           UNCHANGED <<wt, cr, helpers, known, mine, partial>>
    PROVE  CloneInv(c)'
<1>1. pc'[c] = "idle" BY DEF TypeOK, Stop
<1>2. seen'[c] = EmptyTree /\ newClone'[c] = EmptyTree BY DEF TypeOK, Stop
<1>3. KnownInv(c)' BY <1>2 DEF CloneInv, KnownInv, EmptyTree
<1>4. DriftInv(c)' BY DEF CloneInv, DriftInv, Explained
<1> QED BY <1>1, <1>3, <1>4, IdleInv DEF CloneInv

\* The user's edits, the scan and a crash keep the clone's invariant.
LEMMA UserKeepsInv ==
    ASSUME TypeOK, TypeOK', NEW c \in Clones, CloneInv(c),
           \/ \E p \in Paths, v \in MaybeFile : Edit(c, p, v)
           \/ \E p \in Paths : Scan(c, p)
           \/ Crash(c)
    PROVE  CloneInv(c)'
<1> USE DEF TypeOK, CloneInv, Explained
<1>1. ASSUME NEW p \in Paths, NEW v \in MaybeFile, Edit(c, p, v) PROVE CloneInv(c)'
  <2> USE <1>1 DEF Edit, Write, Learn, command
  <2>1. AcceptInv(c)' BY DEF AcceptInv
  <2>2. KnownInv(c)' BY DEF KnownInv
  <2>3. DriftInv(c)' BY DEF DriftInv
  <2>4. PushInv(c)' BY DEF PushInv, KnownInv
  <2>5. PullInv(c)' BY DEF PullInv, KnownInv
  <2> QED BY <2>1, <2>2, <2>3, <2>4, <2>5
<1>2. ASSUME NEW p \in Paths, Scan(c, p) PROVE CloneInv(c)'
  <2> USE <1>2 DEF Scan
  <2>1. AcceptInv(c)' BY DEF AcceptInv
  <2>2. KnownInv(c)' BY DEF KnownInv
  <2>3. DriftInv(c)' BY DEF DriftInv
  <2>4. /\ todo'[c] = todo[c] \ {p} /\ touched'[c] = touched[c] \ {p}
        /\ \A q \in Paths : seen'[c][q] = IF q = p THEN wt[c][p] ELSE seen[c][q]
    BY DEF Trees
  <2>5. \A q \in Paths : q \in scope'[c] \ todo'[c] => q = p \/ q \in scope[c] \ todo[c]
    BY <2>4
  <2>6. PushInv(c)'
    <3> HIDE <1>2 DEF Scan
    <3>1. /\ pc[c] \in {"pushScan", "pullScan"} /\ pc' = pc /\ kind' = kind /\ scope' = scope
          /\ wt' = wt /\ cr' = cr /\ mine' = mine /\ partial' = partial
      BY <1>2 DEF Scan
    <3> QED BY <2>4, <2>5, <3>1 DEF PushInv, DriftInv
  <2>7. PullInv(c)'
    <3> HIDE <1>2 DEF Scan
    <3>1. /\ pc[c] \in {"pushScan", "pullScan"} /\ pc' = pc /\ kind' = kind /\ scope' = scope
          /\ wt' = wt /\ cr' = cr /\ mine' = mine /\ partial' = partial
      BY <1>2 DEF Scan
    <3> QED BY <2>4, <2>5, <3>1 DEF PullInv, DriftInv
  <2> QED BY <2>1, <2>2, <2>3, <2>6, <2>7
<1>3. CASE Crash(c)
  BY <1>3, StopInv DEF Crash
<1> QED BY <1>1, <1>2, <1>3

\* Every step of a push keeps it.
LEMMA PushKeepsInv ==
    ASSUME TypeOK, TypeOK', NEW c \in Clones, CloneInv(c), PushStep(c)
    PROVE  CloneInv(c)'
<1> USE DEF TypeOK, CloneInv, Explained
<1>1. CASE PushFull(c)
  <2> USE <1>1 DEF PushFull, Start
  <2>1. AcceptInv(c)' /\ PullInv(c)' BY DEF AcceptInv, PullInv
  <2>2. KnownInv(c)' /\ DriftInv(c)' BY DEF KnownInv, DriftInv
  <2>3. PushInv(c)' BY DEF PushInv
  <2> QED BY <2>1, <2>2, <2>3
<1>2. ASSUME NEW S \in SUBSET Paths, PushScoped(c, S) PROVE CloneInv(c)'
  <2> USE <1>2 DEF PushScoped, Start
  <2>1. AcceptInv(c)' /\ PullInv(c)' BY DEF AcceptInv, PullInv
  <2>2. KnownInv(c)' /\ DriftInv(c)' BY DEF KnownInv, DriftInv
  <2>3. PushInv(c)' BY DEF PushInv
  <2> QED BY <2>1, <2>2, <2>3
<1>3. CASE PushFullPrepare(c)
  <2> USE <1>3 DEF PushFullPrepare
  <2>1. AcceptInv(c)' /\ PullInv(c)' BY DEF AcceptInv, PullInv
  <2>2. KnownInv(c)' /\ DriftInv(c)' BY DEF KnownInv, DriftInv
  <2>3. \A p \in Paths : /\ wt[c][p] = seen[c][p] \/ p \in mine[c]
                         /\ seen[c][p] # cr[c][p] => Explained(c, p)
    BY DEF PushInv
  <2>4. remote = seen[c] \/ cr[c] = remote
    BY DEF FullPushable, require_remote_not_advanced
  <2>5. PushInv(c)' BY <2>3, <2>4 DEF PushInv, KnownInv
  <2> QED BY <2>1, <2>2, <2>5
<1>4. CASE PushScopedPrepare(c)
  <2> USE <1>4 DEF PushScopedPrepare
  <2>1. AcceptInv(c)' /\ PullInv(c)' BY DEF AcceptInv, PullInv
  <2>2. KnownInv(c)' /\ DriftInv(c)' BY DEF KnownInv, DriftInv, Splice
  <2>3. \A p \in Effective(c) : /\ wt[c][p] = seen[c][p] \/ p \in mine[c]
                                /\ seen[c][p] # cr[c][p] => Explained(c, p)
                                /\ snap[c][p] = seen[c][p] \/ snap[c][p] = cr[c][p]
    BY DEF PushInv, Effective, Changed, ScopedPushable, NotDiverged
  <2>4. \A p \in Paths : \/ newRemote'[c][p] = snap[c][p] /\ newClone'[c][p] = cr[c][p]
                         \/ p \in Effective(c) /\ newRemote'[c][p] = seen[c][p]
                                               /\ newClone'[c][p] = seen[c][p]
    BY DEF Splice
  <2>5. PushInv(c)' BY <2>3, <2>4 DEF PushInv, KnownInv
  <2> QED BY <2>1, <2>2, <2>5
<1>5. CASE PushRefused(c) BY <1>5, StopInv DEF PushRefused
<1>6. CASE PushCommit(c)
  <2> USE <1>6 DEF PushCommit
  <2>1. AcceptInv(c)' /\ PullInv(c)' BY DEF AcceptInv, PullInv
  <2>2. KnownInv(c)' /\ DriftInv(c)' BY DEF KnownInv, DriftInv
  <2>3. PushInv(c)' BY DEF PushInv
  <2> QED BY <2>1, <2>2, <2>3
<1>7. CASE PushCasFailed(c) BY <1>7, StopInv DEF PushCasFailed
<1>8. CASE PushRecord(c)
  <2> USE <1>8 DEF PushRecord, Record
  <2>1. pc'[c] = "idle" /\ seen'[c] = EmptyTree /\ newClone'[c] = EmptyTree BY DEF Stop
  <2>2. KnownInv(c)' BY <2>1 DEF KnownInv, EmptyTree
  <2>3. DriftInv(c)' BY DEF DriftInv, PushInv
  <2> QED BY <2>1, <2>2, <2>3, IdleInv
<1> QED BY <1>1, <1>2, <1>3, <1>4, <1>5, <1>6, <1>7, <1>8 DEF PushStep

\* Every step of a pull keeps it.
LEMMA PullKeepsInv ==
    ASSUME TypeOK, TypeOK', NEW c \in Clones, CloneInv(c), PullStep(c)
    PROVE  CloneInv(c)'
<1> USE DEF TypeOK, CloneInv, Explained
<1>1. ASSUME NEW k \in {"full", "scoped"}, NEW S \in SUBSET Paths, PullBegin(c, k, S)
      PROVE  CloneInv(c)'
  <2> USE <1>1 DEF PullBegin, Start
  <2>1. AcceptInv(c)' /\ PushInv(c)' BY DEF AcceptInv, PushInv
  <2>2. KnownInv(c)' /\ DriftInv(c)' BY DEF KnownInv, DriftInv
  <2>3. PullInv(c)' BY DEF PullInv
  <2> QED BY <2>1, <2>2, <2>3
<1>2. CASE PullConflict(c)
  <2> USE <1>2 DEF PullConflict
  <2>1. AcceptInv(c)' /\ PushInv(c)' /\ PullInv(c)' BY DEF AcceptInv, PushInv, PullInv
  <2>2. KnownInv(c)' /\ DriftInv(c)' BY DEF KnownInv, DriftInv
  <2> QED BY <2>1, <2>2
<1>3. CASE PullConflictEnd(c) BY <1>3, StopInv DEF PullConflictEnd
<1>4. CASE PullResolve(c)
  <2> USE <1>4 DEF PullResolve
  <2>1. AcceptInv(c)' /\ PushInv(c)' BY DEF AcceptInv, PushInv
  <2>2. KnownInv(c)' /\ DriftInv(c)' BY DEF KnownInv, DriftInv
  <2>3. \A p \in scope[c] :
          /\ merged'[c][p] = NoMerge => seen[c][p] \in {cr[c][p], snap[c][p]}
          /\ merged'[c][p] # NoMerge => seen[c][p] # cr[c][p]
    BY DEF Remaining, Conflicting
  <2>4. PullInv(c)' BY <2>3 DEF PullInv
  <2> QED BY <2>1, <2>2, <2>4
<1>5. CASE PullVerify(c)
  <2> USE <1>5 DEF PullVerify
  <2>1. AcceptInv(c)' /\ PushInv(c)' BY DEF AcceptInv, PushInv
  <2>2. KnownInv(c)' /\ DriftInv(c)' BY DEF KnownInv, DriftInv
  <2>3. PullInv(c)' BY DEF PullInv
  <2> QED BY <2>1, <2>2, <2>3
<1>6. CASE PullAbort(c) BY <1>6, StopInv DEF PullAbort
<1>7. CASE PullRecord(c)
  <2> USE <1>7 DEF PullRecord, Record
  <2>1. pc'[c] = "idle" /\ seen'[c] = EmptyTree /\ newClone'[c] = EmptyTree BY DEF Stop
  <2>2. \A p \in Paths : \/ p \notin scope[c] /\ cr'[c][p] = cr[c][p]
                         \/ p \in scope[c] /\ cr'[c][p] = snap[c][p]
    BY DEF Splice
  <2>3. \A p \in scope[c] : snap[c][p] \in known[c][p] BY DEF PullInv
  <2>4. KnownInv(c)'
    <3> HIDE <1>7 DEF PullRecord, Record
    <3>1. UNCHANGED <<wt, helpers, known>> BY <1>7 DEF PullRecord
    <3>2. \A p \in Paths : cr'[c][p] \in known[c][p] BY <2>2, <2>3 DEF KnownInv
    <3> QED BY <2>1, <3>1, <3>2 DEF KnownInv, EmptyTree
  <2>5. DriftInv(c)' BY <2>2 DEF DriftInv, PullInv
  <2> QED BY <2>1, <2>4, <2>5, IdleInv
<1>8. ASSUME NEW p \in Paths, WriteHelpers(c, p) PROVE CloneInv(c)'
  <2> USE <1>8 DEF WriteHelpers, Learn
  <2>1. AcceptInv(c)' /\ PushInv(c)' /\ PullInv(c)' BY DEF AcceptInv, PushInv, PullInv
  <2>2. KnownInv(c)' BY DEF KnownInv, Sides
  <2>3. DriftInv(c)' BY DEF DriftInv
  <2> QED BY <2>1, <2>2, <2>3
<1>9. ASSUME NEW p \in Paths, PullApply(c, p) PROVE CloneInv(c)'
  <2> USE <1>9 DEF PullApply, Write, Learn, Pending
  <2>1. AcceptInv(c)' /\ PushInv(c)' BY DEF AcceptInv, PushInv
  <2>2. KnownInv(c)' BY DEF KnownInv
  <2>3. DriftInv(c)' BY DEF DriftInv
  <2>4. PullInv(c)' BY DEF PullInv
  <2> QED BY <2>1, <2>2, <2>3, <2>4
<1>10. ASSUME NEW p \in Paths, PullWriteMerge(c, p) PROVE CloneInv(c)'
  <2> USE <1>10 DEF PullWriteMerge, Write
  <2>1. AcceptInv(c)' /\ PushInv(c)' BY DEF AcceptInv, PushInv
  <2>2. KnownInv(c)' BY DEF KnownInv
  <2>3. DriftInv(c)' BY DEF DriftInv, PullInv
  <2>4. PullInv(c)' BY DEF PullInv
  <2> QED BY <2>1, <2>2, <2>3, <2>4
<1> QED BY <1>1, <1>2, <1>3, <1>4, <1>5, <1>6, <1>7, <1>8, <1>9, <1>10 DEF PullStep

\* Every step of accept-* and of conflict clean keeps it.
LEMMA AcceptKeepsInv ==
    ASSUME TypeOK, TypeOK', NEW c \in Clones, CloneInv(c), AcceptStep(c)
    PROVE  CloneInv(c)'
<1> USE DEF TypeOK, CloneInv, Explained
<1>1. ASSUME NEW s \in Sides, NEW S \in SUBSET Paths, AcceptBegin(c, s, S)
      PROVE  CloneInv(c)'
  <2> USE <1>1 DEF AcceptBegin, Start
  <2>1. PullInv(c)' /\ PushInv(c)' BY DEF PullInv, PushInv
  <2>2. KnownInv(c)' /\ DriftInv(c)' BY DEF KnownInv, DriftInv
  <2>3. AcceptInv(c)' BY DEF AcceptInv, OpenConflicts
  <2> QED BY <2>1, <2>2, <2>3
<1>2. ASSUME NEW p \in Paths, AcceptApply(c, p) PROVE CloneInv(c)'
  <2> USE <1>2 DEF AcceptApply, Write
  <2>1. PullInv(c)' /\ PushInv(c)' BY DEF PullInv, PushInv
  <2>2. KnownInv(c)' BY DEF KnownInv, AcceptInv
  <2>3. DriftInv(c)' BY DEF DriftInv
  <2>4. AcceptInv(c)' BY DEF AcceptInv
  <2> QED BY <2>1, <2>2, <2>3, <2>4
<1>3. ASSUME NEW p \in Paths, AcceptClean(c, p) PROVE CloneInv(c)'
  <2> USE <1>3 DEF AcceptClean
  <2>1. PullInv(c)' /\ PushInv(c)' BY DEF PullInv, PushInv
  <2>2. KnownInv(c)' /\ DriftInv(c)' BY DEF KnownInv, DriftInv
  <2>3. AcceptInv(c)' BY DEF AcceptInv
  <2> QED BY <2>1, <2>2, <2>3
<1>4. CASE AcceptRecord(c)
  <2> USE <1>4 DEF AcceptRecord, Record
  <2>1. PullInv(c)' /\ PushInv(c)' BY DEF PullInv, PushInv
  <2>2. \A p \in Paths :
          \/ p \notin scope[c] /\ cr'[c][p] = cr[c][p]
          \/ p \in scope[c] /\ cr'[c][p] = helpers[c][p]["remote"]
                            /\ helpers[c][p] # NoHelpers /\ p \in mine[c]
    BY DEF AcceptInv
  <2>3. KnownInv(c)' BY <2>2 DEF KnownInv, Sides
  <2>4. DriftInv(c)' BY <2>2 DEF DriftInv
  <2>5. AcceptInv(c)' BY <2>2 DEF AcceptInv
  <2> QED BY <2>1, <2>3, <2>4, <2>5
<1>5. CASE AcceptEnd(c) BY <1>5, StopInv DEF AcceptEnd
<1>6. ASSUME NEW S \in SUBSET Paths, ConflictClean(c, S) PROVE CloneInv(c)'
  <2> USE <1>6 DEF ConflictClean, command
  <2>1. AcceptInv(c)' /\ PushInv(c)' /\ PullInv(c)' BY DEF AcceptInv, PushInv, PullInv
  <2>2. KnownInv(c)' /\ DriftInv(c)' BY DEF KnownInv, DriftInv
  <2> QED BY <2>1, <2>2
<1> QED BY <1>1, <1>2, <1>3, <1>4, <1>5, <1>6 DEF AcceptStep

-----------------------------------------------------------------------------
(* The theorems.                                                           *)

\* The inductive invariant holds of fresh clones.
LEMMA InitInv == Init => IndInv
<1> SUFFICES ASSUME Init PROVE IndInv OBVIOUS
<1>1. TypeOK BY InitType
<1>2. ASSUME NEW c \in Clones PROVE CloneInv(c)
  BY DEF Init, CloneInv, AcceptInv, KnownInv, DriftInv, PushInv, PullInv, Explained, EmptyTree
<1> QED BY <1>1, <1>2 DEF IndInv

\* The inductive invariant is kept by every step.
LEMMA StepInv ==
    ASSUME IndInv, [Next]_vars
    PROVE  IndInv'
<1>1. TypeOK /\ TypeOK' BY TypeStep DEF IndInv, CloneInv
<1>2. CASE UNCHANGED vars
  <2>1. ASSUME NEW d \in Clones PROVE CloneInv(d)'
    <3>1. Frame(d) BY <1>2 DEF vars, Frame
    <3> QED BY <3>1, FrameKeepsInv DEF IndInv
  <2> QED BY <1>1, <2>1 DEF IndInv
<1>3. ASSUME NEW c \in Clones, StepOf(c) PROVE IndInv'
  <2>1. ASSUME NEW d \in Clones PROVE CloneInv(d)'
    <3>1. CASE d = c
      BY <1>1, <1>3, <3>1, UserKeepsInv, PushKeepsInv, PullKeepsInv, AcceptKeepsInv
      DEF IndInv, StepOf
    <3>2. CASE d # c
      BY <1>1, <1>3, <3>2, StepFrame, FrameKeepsInv DEF IndInv
    <3> QED BY <3>1, <3>2
  <2> QED BY <1>1, <2>1 DEF IndInv
<1> QED BY <1>2, <1>3 DEF Next, StepOf

\* The inductive invariant holds throughout.
LEMMA Invariance == Spec => []IndInv
BY InitInv, StepInv, PTL DEF Spec

\* The type invariant of the sync protocol.
THEOREM TypeCorrect == Spec => []TypeOK
<1>1. IndInv => TypeOK BY DEF IndInv
<1> QED BY <1>1, Invariance, PTL

\* A push never replaces a version of a file that the pushing clone has not
\* had or been shown: require_remote_not_advanced, the scoped divergence check
\* and the compare-and-swap together rule it out, whatever the commands of the
\* other clones, the user's edits and the crashes in between.
THEOREM PushLosesNothing == Spec => NoLostUpdate
<1>1. ASSUME IndInv, NEW c \in Clones, NEW p \in Paths, PushCommit(c), remote'[p] # remote[p]
      PROVE  remote[p] \in known[c][p]
  BY <1>1 DEF IndInv, CloneInv, PushInv, PushCommit
<1>2. IndInv => [\A c \in Clones, p \in Paths :
          (PushCommit(c) /\ remote'[p] # remote[p]) => remote[p] \in known[c][p]]_vars
  BY <1>1
<1> QED BY <1>2, Invariance, PTL DEF NoLostUpdate

\* A push changes only paths its own user changed, or that an interrupted pull
\* had begun to write: clone_root is never ahead of the working tree.
THEOREM PushPublishesEdits == Spec => PushOnlyEdits
<1>1. ASSUME IndInv, NEW c \in Clones, NEW p \in Paths, PushCommit(c), remote'[p] # remote[p]
      PROVE  p \in mine[c] \cup partial[c]
  BY <1>1 DEF IndInv, CloneInv, PushInv, PushCommit, Explained
<1>2. IndInv => [\A c \in Clones, p \in Paths :
          (PushCommit(c) /\ remote'[p] # remote[p]) => p \in mine[c] \cup partial[c]]_vars
  BY <1>1
<1> QED BY <1>2, Invariance, PTL DEF PushOnlyEdits

\* apply_diff never overwrites an edit, whether the scan saw it or it was made
\* after the scan.
THEOREM PullOverwritesNoEdit == Spec => PullKeepsEdits
<1>1. ASSUME IndInv, NEW c \in Clones, NEW p \in Paths, PullApply(c, p)
      PROVE  wt[c][p] \in {cr[c][p], wt'[c][p]}
  <2>1. wt'[c][p] = snap[c][p] BY <1>1 DEF IndInv, TypeOK, Trees, PullApply, Write
  <2>2. wt[c][p] = seen[c][p]
    BY <1>1 DEF IndInv, CloneInv, PullInv, PullApply, changed_since_scan, Pending
  <2>3. seen[c][p] \in {cr[c][p], snap[c][p]}
    BY <1>1 DEF IndInv, CloneInv, PullInv, PullApply, Pending
  <2> QED BY <2>1, <2>2, <2>3
<1>2. IndInv => [\A c \in Clones, p \in Paths :
          PullApply(c, p) => wt[c][p] \in {cr[c][p], wt'[c][p]}]_vars
  BY <1>1
<1> QED BY <1>2, Invariance, PTL DEF PullKeepsEdits

\* accept-* removes a conflict's helpers only once clone_root holds the remote
\* version they recorded.
THEOREM AcceptRecordsFirst == Spec => ResolutionRecorded
<1>1. ASSUME IndInv, NEW c \in Clones, NEW p \in Paths, AcceptClean(c, p)
      PROVE  cr[c][p] = helpers[c][p]["remote"]
  BY <1>1 DEF IndInv, CloneInv, AcceptInv, AcceptClean
<1>2. IndInv => [\A c \in Clones, p \in Paths :
          AcceptClean(c, p) => cr[c][p] = helpers[c][p]["remote"]]_vars
  BY <1>1
<1> QED BY <1>2, Invariance, PTL DEF ResolutionRecorded
=============================================================================
