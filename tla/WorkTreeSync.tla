---- MODULE WorkTreeSync ----
(***************************************************************************)
(* pull, push and restore on the working tree of WorkTree, and the whole   *)
(* specification.                                                          *)
(***************************************************************************)
EXTENDS WorkTree

----------------------------------------------------------------------------
(* diff_trees between two roots, as the kind of change at every path.      *)
(* Directories that a diff adds whole (AddedTree) hide their children.     *)

AddedWhole(b, t, threshold) ==
    threshold /\ t.kind = "tree" /\ b.kind # "tree" /\ BigTree(Children(t))

DiffAtP(b, t, threshold) ==
    CASE t.kind = "blob" -> IF b.kind # "blob" THEN "added"
                            ELSE IF b.c[P] # t.c[P] THEN "modified" ELSE "same"
      [] t.kind = "link" -> IF b.kind = "link" THEN "same" ELSE "link"
      [] t.kind = "tree" /\ b.kind = "tree" -> "same"
      [] t.kind = "tree" /\ b.kind # "tree" ->
            IF AddedWhole(b, t, threshold) THEN "tree"
            ELSE IF Children(t) = NoNames THEN "emptydir"
            ELSE IF b.kind = "absent" THEN "same" ELSE "deleted"
      [] t.kind = "absent" -> IF b.kind \in {"blob", "link"} THEN "deleted" ELSE "same"

DiffAtChild(b, t, n) ==
    CASE b.c[n] = t.c[n] -> "same"
      [] b.c[n] = None /\ t.c[n] # None -> "added"
      [] b.c[n] # None /\ t.c[n] = None -> "deleted"
      [] OTHER -> "modified"

Diff(b, t, threshold) ==
    [x \in Paths |-> IF x = P THEN DiffAtP(b, t, threshold)
                     ELSE IF AddedWhole(b, t, threshold) THEN "same"
                     ELSE DiffAtChild(b, t, x)]
NoDiff == [x \in Paths |-> "same"]

\* classify_conflicts and same_content; l and r are the trees diffed.
SameContent(rd, ld, r, l, x) ==
    \/ {rd[x], ld[x]} \subseteq {"added", "modified"} /\ r.c[x] = l.c[x]
    \/ rd[x] = ld[x] /\ rd[x] \in {"deleted", "emptydir", "link"}

Conflicts(rd, ld, r, l) ==
    {x \in Paths :
        /\ rd[x] # "same"
        /\ \/ ld[x] # "same" /\ ~SameContent(rd, ld, r, l, x)
           \/ rd[x] = "tree" /\ ld[x] = "same" /\ \E n \in Names : ld[n] # "same"}

----------------------------------------------------------------------------
(* omemfs pull                                                             *)

\* A pull whose diff is empty only moves clone_root.  Otherwise it scans,
\* and stops at conflicts.
PullStart ==
    /\ cmd.name = "idle" /\ repo # "none" /\ (remote # cr \/ repo = "init")
    /\ LET rd == Diff(cr, remote, TRUE)
           ld == Diff(cr, Logical(disk), FALSE)
       IN \/ /\ rd = NoDiff
             /\ cr' = remote /\ repo' = "rooted"
             /\ UNCHANGED <<disk, remote, git, cmd, edits, publishes, dirty, torn, lost>>
          \/ /\ rd # NoDiff /\ Conflicts(rd, ld, remote, Logical(disk)) = {}
             /\ cmd' = [Idle EXCEPT !.name = "pull", !.pc = "verify", !.seen = disk,
                                    !.goal = remote, !.plan = rd, !.from = cr]
             /\ UNCHANGED disk /\ Quiet

Planned(kinds) == {x \in Paths : cmd.plan[x] \in kinds}

\* changed_since_scan, for what the scan saw at x: nothing, a file, or a
\* directory or symlink.
ChangedSinceScan(x) ==
    LET saw == cmd.seen IN
    IF x \in cmd.removed \/ ~Exists(saw, x) THEN Exists(disk, x)
    ELSE IF IsFile(saw, x)
    THEN ~(IsFile(disk, x) /\ x \notin cmd.touched)
    ELSE IsFile(disk, x) \/ ~Exists(disk, x)

PullVerify ==
    /\ Running("pull", "verify")
    /\ IF \E x \in Planned({"added", "modified", "deleted", "link"}) : ChangedSinceScan(x)
       THEN StopCmd
       ELSE cmd' = [cmd EXCEPT !.pc = "deletes", !.todo = Planned({"deleted"})]
    /\ UNCHANGED disk /\ Quiet

\* Mutant: the delete pass trusts the check made before it.
PullDeleteBlind(x) ==
    /\ Running("pull", "deletes") /\ x \in cmd.todo
    /\ IF disk.stub[x] # None
       THEN cmd' = [cmd EXCEPT !.todo = @ \ {x}] /\ UNCHANGED disk /\ Quiet
       ELSE IF ~CanDropReal(disk, x) THEN Fail
       ELSE /\ disk' = DropStub(DropReal(disk, x), x)
            /\ cmd' = [cmd EXCEPT !.todo = @ \ {x}, !.removed = @ \cup {x}]
            /\ Quiet

\* The delete pass leaves stubbed paths to the reconciliation.
PullDelete(x) ==
    /\ Running("pull", "deletes") /\ x \in cmd.todo
    /\ IF disk.stub[x] # None
       THEN cmd' = [cmd EXCEPT !.todo = @ \ {x}] /\ UNCHANGED disk /\ Quiet
       ELSE IF ChangedSinceScan(x) \/ ~CanDropReal(disk, x) THEN Fail
       ELSE /\ disk' = DropStub(DropReal(disk, x), x)
            /\ cmd' = [cmd EXCEPT !.todo = @ \ {x}, !.removed = @ \cup {x}]
            /\ Quiet

PullPrune ==
    /\ Running("pull", "deletes") /\ cmd.todo = {}
    /\ LET prune == cmd.removed \cap Names # {} /\ EmptyDir(disk)
       IN /\ disk' = IF prune THEN DropDir(disk) ELSE disk
          /\ cmd' = [cmd EXCEPT !.pc = "writes",
                                !.todo = Planned({"added", "modified", "emptydir",
                                                  "link", "tree"}),
                                !.removed = IF prune THEN @ \cup {P} ELSE @]
    /\ Quiet

\* The write pass leaves what is under a stub to the reconciliation.
LeftToReconcile(x) ==
    \/ disk.dirstub # None
    \/ x \in Names /\ disk.stub[P] # None

\* A file that goes without a check, as the verification covers neither
\* AddedTree nor the moment of writing a stub.
Unverified(x) == Exists(disk, x) /\ ChangedSinceScan(x)

WriteStub(x) ==
    IF ~ParentOk(disk, x) \/ (Exists(disk, x) /\ ~CanDropReal(disk, x)) THEN Fail
    ELSE /\ disk' = IF Exists(disk, x) THEN DropReal(PutStub(disk, x, cmd.goal.c[x]), x)
                    ELSE PutStub(disk, x, cmd.goal.c[x])
         /\ cmd' = [cmd EXCEPT !.todo = @ \ {x}]
         /\ MayLose("unverified", Unverified(x))

\* materialise_blob.
WriteFile(x) ==
    IF ChangedSinceScan(x) \/ ~CanPutReal(disk, x) THEN Fail
    ELSE /\ disk' = DropStub(PutReal(disk, x, cmd.goal.c[x]), x)
         /\ cmd' = [cmd EXCEPT !.todo = @ \ {x}]
         /\ Quiet

WriteModified(x) ==
    IF disk.stub[x] # None /\ ~Exists(disk, x)
    THEN /\ disk' = PutStub(disk, x, cmd.goal.c[x])
         /\ cmd' = [cmd EXCEPT !.todo = @ \ {x}]
         /\ Quiet
    ELSE WriteFile(x)

WriteEmptyDir ==
    IF ~CanMakeDir(disk) THEN Fail
    ELSE disk' = MakeDir(disk) /\ cmd' = [cmd EXCEPT !.todo = @ \ {P}] /\ Quiet

\* The stub goes first, so a failing check leaves the path without one.
WriteLink ==
    LET d == DropStub(disk, P) IN
    IF ChangedSinceScan(P) \/ ~CanPutLink(d)
    THEN Abort(d)
    ELSE disk' = PutLink(d) /\ cmd' = [cmd EXCEPT !.todo = @ \ {P}] /\ Quiet

\* AddedTree: a directory stub, or the whole tree where Git would see it.
WriteTree ==
    LET d == DropStub(IF disk.kind = "dir" THEN disk ELSE DropReal(disk, P), P)
        ch == Children(cmd.goal)
    IN /\ disk' = IF git THEN [MakeDir(d) EXCEPT !.real = [t \in Paths |->
                                   IF t \in StubNames(ch) THEN ch[t] ELSE @[t]]]
                  ELSE PutDirStub(d, ch)
       /\ cmd' = [cmd EXCEPT !.todo = @ \ {P}]
       /\ MayLose("unverified",
                  \/ Unverified(P)
                  \/ git /\ \E n \in StubNames(ch) : Replaces(n, ch[n]))

PullWrite(x) ==
    /\ Running("pull", "writes") /\ x \in cmd.todo
    /\ \/ /\ LeftToReconcile(x)
          /\ cmd' = [cmd EXCEPT !.todo = @ \ {x}] /\ UNCHANGED disk /\ Quiet
       \/ /\ ~LeftToReconcile(x)
          /\ \/ cmd.plan[x] = "added" /\ cmd.goal.c[x] \in Big /\ ~git /\ WriteStub(x)
             \/ cmd.plan[x] = "added" /\ ~(cmd.goal.c[x] \in Big /\ ~git) /\ WriteFile(x)
             \/ cmd.plan[x] = "modified" /\ WriteModified(x)
             \/ cmd.plan[x] = "emptydir" /\ WriteEmptyDir
             \/ cmd.plan[x] = "link" /\ WriteLink
             \/ cmd.plan[x] = "tree" /\ WriteTree

\* write_clone_root, then reconcile_stubs over the stubs now on disk.
PullRoot ==
    /\ Running("pull", "writes") /\ cmd.todo = {}
    /\ cr' = cmd.goal /\ repo' = "rooted"
    /\ cmd' = [cmd EXCEPT !.pc = "reconcile", !.todo = Listed(disk)]
    /\ UNCHANGED <<disk, remote, git, edits, publishes, dirty, torn, lost>>

----------------------------------------------------------------------------
(* reconcile_stubs: every stub is brought to the clone root just written.  *)

Reconciling == cmd.name \in {"pull", "push"} /\ cmd.pc = "reconcile"
Done(id) == cmd' = [cmd EXCEPT !.todo = @ \ {id}]

ReconcileFileStub ==
    LET e == cmd.goal  d == DropStub(disk, P) IN
    CASE e.kind = "absent" -> disk' = d /\ Done(P) /\ Quiet
      [] e.kind = "blob" -> disk' = PutStub(disk, P, e.c[P]) /\ Done(P) /\ Quiet
      [] e.kind = "tree" ->
            IF CanMakeDir(d) THEN disk' = PutDirStub(d, Children(e)) /\ Done(P) /\ Quiet
            ELSE Abort(d)
      [] e.kind = "link" ->
            IF CanPutLink(d)
            THEN disk' = PutLink(d) /\ Done(P) /\ MayLose("reconcile", d.kind = "file")
            ELSE Abort(d)

\* Mutant: a directory stub that became a file is only renamed.
ReconcileDirStubKeepsDir ==
    /\ disk' = [disk EXCEPT !.dirstub = None] /\ Done(DirStub) /\ Quiet

\* A change of kind removes the directory with everything in it.
ReconcileDirStub ==
    LET e == cmd.goal  d == [disk EXCEPT !.dirstub = None] IN
    IF ~ParentOk(disk, DirStub) THEN Fail
    ELSE CASE e.kind = "absent" -> disk' = PruneDir(d) /\ Done(DirStub) /\ Quiet
           [] e.kind = "tree" -> /\ disk' = PutDirStub(disk, Children(e))
                                 /\ Done(DirStub) /\ Quiet
           [] e.kind \in {"blob", "link"} ->
                /\ disk' = IF e.kind = "blob" THEN PutStub(DropDir(d), P, e.c[P])
                           ELSE PutLink(DropDir(d))
                /\ Done(DirStub)
                /\ MayLose("reconcile", \E n \in Names : d.real[n] # None)

\* Below a blob the lookup fails, or finds the blob and is an error.
ReconcileChildStub(n) ==
    \/ /\ cmd.goal.kind = "blob"
       /\ \/ UNCHANGED disk /\ Done(n) /\ Quiet
          \/ Fail
    \/ /\ cmd.goal.kind # "blob"
       /\ IF ~ParentOk(disk, n) THEN Fail
          ELSE /\ disk' = IF cmd.goal.c[n] = None THEN DropStub(disk, n)
                          ELSE PutStub(disk, n, cmd.goal.c[n])
               /\ Done(n) /\ Quiet

\* The markers beside P come before those inside it.
Reconcile ==
    /\ Reconciling
    /\ \/ P \in cmd.todo /\ ReconcileFileStub
       \/ P \notin cmd.todo /\ DirStub \in cmd.todo /\ ReconcileDirStub
       \/ P \notin cmd.todo /\ \E n \in Names \cap cmd.todo : ReconcileChildStub(n)

\* Files with a marker beside them when the command began; pull leaves them
\* to the user wherever it leaves the marker to the reconciliation.
Beside == {t \in Paths : /\ IsFile(cmd.seen, t)
                         /\ cmd.seen.stub[t] # None \/ (t # P /\ cmd.seen.dirstub # None)}

\* The command ends: every path it found in step with the new root is clean.
OutOfStep == {t \in Paths : Scanned(disk)[t] # Files(cr)[t]}
SyncEnd ==
    /\ Reconciling /\ cmd.todo = {}
    /\ StopCmd
    /\ dirty' = (dirty \cup Beside) \cap OutOfStep
    /\ torn' = (torn /\ ~(OutOfStep \subseteq dirty \cup Beside))
    /\ UNCHANGED <<disk, cr, remote, git, repo, edits, publishes, lost>>

Pull == \/ PullStart \/ PullVerify \/ PullPrune \/ PullRoot
        \/ \E x \in Paths : PullDelete(x) \/ PullWrite(x)

----------------------------------------------------------------------------
(* omemfs push: scan, publish if the remote root is still the clone root,  *)
(* write clone_root, reconcile.                                            *)

PushStart ==
    /\ cmd.name = "idle" /\ repo # "none" /\ (Logical(disk) # cr \/ repo = "init")
    /\ cmd' = [Idle EXCEPT !.name = "push", !.pc = "publish", !.goal = Logical(disk),
                           !.from = cr]
    /\ UNCHANGED disk /\ Quiet
\* require_remote_not_advanced; a clone without clone_root may only publish
\* what is there already.
NotAdvanced == remote = cmd.goal \/ (repo = "rooted" /\ remote = cr)
PushPublish ==
    /\ Running("push", "publish")
    /\ IF ~NotAdvanced THEN StopCmd /\ UNCHANGED remote
       ELSE remote' = cmd.goal /\ Goto("root")
    /\ UNCHANGED <<disk, cr, git, repo, edits, publishes, dirty, torn, lost>>
PushRoot ==
    /\ Running("push", "root")
    /\ cr' = cmd.goal /\ repo' = "rooted"
    /\ cmd' = [cmd EXCEPT !.pc = "reconcile", !.todo = Listed(disk)]
    /\ UNCHANGED <<disk, remote, git, edits, publishes, dirty, torn, lost>>
Push == PushStart \/ PushPublish \/ PushRoot

----------------------------------------------------------------------------
(* omemfs restore: a plan made from one look at the tree, then its actions *)
(* one by one; an action that fails is counted and the rest goes on.       *)

\* plan_restore_blob_action and the stub reconciliations of a blob entry.
PlanBlob(d, t, x) ==
    IF d.stub[t] # None THEN IF d.stub[t] # x THEN {<<"stub_to_blob", t>>} ELSE {}
    ELSE IF t = P /\ d.dirstub # None THEN {<<"dirstub_to_blob", P>>}
    ELSE IF IsFile(d, t) /\ d.real[t] = x THEN {} ELSE {<<"blob", t>>}

\* Mutant: the stubs of files the clone root lacks are not looked for.
PlanAddedFilesOnly(d, e) ==
    {<<"file", n>> : n \in {n \in Names : e.c[n] = None /\ d.real[n] # None}}

\* plan_remove_added_files inside the directory.
PlanAdded(d, e) ==
    {<<"file", n>> : n \in {n \in Names : e.c[n] = None /\ d.real[n] # None}}
    \cup {<<"orphan_stub", n>> : n \in {n \in Names : e.c[n] = None /\ d.stub[n] # None}}

PlanTree(d, e) ==
    IF d.dirstub # None
    THEN IF d.dirstub # Children(e) THEN {<<"dirstub_to_tree", P>>} ELSE {}
    ELSE IF d.stub[P] # None THEN {<<"stub_to_tree", P>>}
    ELSE {<<"ensure_dir", P>>} \cup PlanAdded(d, e)
         \cup (UNION {PlanBlob(d, n, e.c[n]) : n \in StubNames(Children(e))})

PlanLink(d) == IF d.kind = "link" THEN {} ELSE {<<"link", P>>}

\* plan_path for a path, plan_tree and plan_remove_added_files for the root.
RestorePlan(d, e, scope) ==
    IF scope \in Names
    THEN IF e.c[scope] # None THEN PlanBlob(d, scope, e.c[scope])
         ELSE {<<"absent", scope>>}
    ELSE CASE e.kind = "blob" -> PlanBlob(d, P, e.c[P])
           [] e.kind = "link" -> PlanLink(d)
           [] e.kind = "tree" ->
                PlanTree(d, e)
                \cup (IF scope = Root /\ d.dirstub = None THEN PlanAdded(d, e) ELSE {})
           [] e.kind = "absent" ->
                IF scope = P THEN {<<"absent", P>>}
                ELSE (IF d.kind \in {"file", "link"} THEN {<<"file", P>>} ELSE {})
                     \cup (IF d.kind = "dir" THEN {<<"added_dir", P>>} ELSE {})
                     \cup (IF d.stub[P] # None THEN {<<"orphan_stub", P>>} ELSE {})

\* Planning stops with an error where a listed directory is none, and for a
\* path below a file.
Plannable(d, e, scope) ==
    /\ scope = P /\ e.kind = "tree" /\ d.dirstub = None /\ d.stub[P] = None
       => d.kind \in {"absent", "dir"}
    /\ scope \in Names => e.kind # "blob"

\* The directory's tree object is read only where no marker stands for it.
NeedsTree(d, e, scope) ==
    e.kind = "tree" /\ (scope \in Names \/ (d.dirstub = None /\ d.stub[P] = None))

\* The plan is made again after every round of fetching missing trees; this
\* is the last time.  listed says whether the directory's tree could be had
\* (if not, nothing in it is planned and the directory is reported), fetched
\* whether the missing blobs could.
RestoreStart(scope) ==
    /\ cmd.name = "idle" /\ repo = "rooted" /\ Plannable(disk, cr, scope)
    /\ \E fetched, listed \in BOOLEAN :
         /\ fetched => listed
         /\ ~fetched => \/ ~listed /\ NeedsTree(disk, cr, scope)
                        \/ \E t \in Paths : <<"blob", t>> \in RestorePlan(disk, cr, scope)
         /\ cmd' = [Idle EXCEPT !.name = "restore", !.at = scope, !.seen = disk,
                                !.pc = IF fetched THEN "apply" ELSE "offline",
                                !.todo = IF ~listed /\ NeedsTree(disk, cr, scope) THEN {}
                                         ELSE RestorePlan(disk, cr, scope)]
    /\ UNCHANGED disk /\ Quiet

\* What an action leaves on disk, and whether it succeeds.  DeleteAbsent
\* decides again, at its turn, whether there is a file to delete.
AbsentDeletesFile(d, t) ==
    IsFile(cmd.seen, t) \/ cmd.seen.stub[t] # None \/ IsFile(d, t) \/ d.stub[t] # None
RemoveAbsent(d, t) ==
    LET d1 == IF AbsentDeletesFile(d, t) THEN DropStub(d, t) ELSE d
        stuck == AbsentDeletesFile(d, t) /\ t = P /\ d.kind = "dir" /\ ~EmptyDir(d)
        d2 == IF AbsentDeletesFile(d, t)
              THEN IF t = P /\ d.kind = "dir" THEN PruneDir(d1) ELSE DropReal(d1, t)
              ELSE d1
        d3 == IF t = P /\ cmd.seen.dirstub # None
              THEN PruneDir([d2 EXCEPT !.dirstub = None]) ELSE d2
    IN IF stuck THEN [after |-> d1, ok |-> FALSE] ELSE [after |-> d3, ok |-> TRUE]

WhenOk(possible, after, otherwise) ==
    IF possible THEN [after |-> after, ok |-> TRUE] ELSE [after |-> otherwise, ok |-> FALSE]

\* apply_action.
Applied(d, a, t) ==
    CASE a = "blob" -> WhenOk(CanPutReal(d, t) /\ cmd.pc # "offline",
                              DropStub(PutReal(d, t, cr.c[t]), t), d)
      [] a = "link" -> LET e == [DropStub(d, P) EXCEPT !.dirstub = None]
                       IN WhenOk(CanPutLink(e), PutLink(e), e)
      [] a = "absent" -> IF ParentOk(d, t) THEN RemoveAbsent(d, t)
                         ELSE WhenOk(FALSE, d, d)
      [] a = "file" -> WhenOk(CanDropReal(d, t), DropStub(DropReal(d, t), t), d)
      [] a = "added_dir" -> WhenOk(CanMakeDir(d), DropDir(d), d)
      [] a = "ensure_dir" -> WhenOk(CanMakeDir(d), MakeDir(d), d)
      [] a = "orphan_stub" -> WhenOk(CanDropStub(d, t), DropStub(d, t), d)
      [] a = "stub_to_blob" -> WhenOk(ParentOk(d, t), PutStub(d, t, cr.c[t]), d)
      [] a = "dirstub_to_tree" -> WhenOk(CanPutDirStub(d), PutDirStub(d, Children(cr)), d)
      [] a = "dirstub_to_blob" -> WhenOk(CanPutDirStub(d),
                                         PutStub(DropDir(d), P, cr.c[P]), d)
      [] a = "stub_to_tree" -> LET e == DropStub(d, P)
                               IN WhenOk(CanPutDirStub(e), PutDirStub(e, Children(cr)), e)

\* EnsureDir comes first in the plan; the other actions are on paths of
\* their own.
RestoreApply ==
    /\ cmd.name = "restore"
    /\ \E act \in cmd.todo :
         /\ act[1] = "ensure_dir" \/ <<"ensure_dir", P>> \notin cmd.todo
         /\ LET r == Applied(disk, act[1], act[2]) IN
              /\ disk' = r.after
              /\ cmd' = [cmd EXCEPT !.todo = @ \ {act}]
    /\ Quiet
RestoreEnd ==
    /\ cmd.name = "restore" /\ cmd.todo = {}
    /\ StopCmd
    /\ dirty' = dirty \cap OutOfStep
    /\ torn' = (torn /\ (Logical(disk) # cr \/ Listed(disk) # {}))
    /\ UNCHANGED <<disk, cr, remote, git, repo, edits, publishes, lost>>
Restore == (\E scope \in Paths \cup {Root} : RestoreStart(scope))
           \/ RestoreApply \/ RestoreEnd

----------------------------------------------------------------------------
User == UserWrite \/ UserRemove \/ UserMakeDir
Next == \/ Clone \/ Stub \/ Expand \/ Pull \/ Push \/ Reconcile \/ SyncEnd \/ Restore
        \/ User \/ OtherPublishes \/ Crash
Spec == Init /\ [][Next]_vars

----------------------------------------------------------------------------
(* Properties.                                                             *)

Places == {"idle", "entry", "children", "root", "verify", "mark", "check", "changed", "delete",
           "items", "lower", "tree", "deletes", "writes", "publish", "reconcile", "apply",
           "offline"}
Changes == {"same", "added", "modified", "deleted", "link", "emptydir", "tree", None}

\* Every reachable disk is one a file system can hold, and the command's
\* progress is that of a command.
TypeOK ==
    /\ disk \in Disks /\ cr \in Entries /\ remote \in Entries /\ git \in BOOLEAN
    /\ repo \in {"none", "init", "rooted"} /\ (repo = "none" => Listed(disk) = {})
    /\ cmd \in [name : {"idle", "clone", "stub", "expand", "pull", "push", "restore"},
                pc : Places, at : Paths \cup {Root}, todo : {cmd.todo}, seen : Disks,
                goal : Entries, plan : [Paths -> Changes], removed : SUBSET Paths,
                from : Entries, touched : SUBSET Paths]
    /\ edits \in 0..MaxEdits /\ publishes \in 0..MaxPublishes
    /\ dirty \subseteq Paths /\ torn \in BOOLEAN
    /\ lost \subseteq {"clone", "expand", "reconcile", "unverified"}

\* Outside restore no command's step, in whatever state a crash has left the
\* tree, replaces or removes a real file that is not what the clone root, the
\* root the command started from or the one it works towards has at that
\* path, unless it does so in the way named for that part of the command.
Way == IF cmd.pc = "reconcile" THEN "reconcile"
       ELSE IF cmd.name = "pull" THEN "unverified" ELSE cmd.name
EditsSurvive ==
    [][\A t \in Paths :
         IsFile(disk, t) /\ disk'.real[t] # disk.real[t] /\ edits' = edits
           => \/ disk.real[t] \in {cr.c[t], cmd.from.c[t], cmd.goal.c[t]}
              \/ cmd.name = "restore"
              \/ Way \in lost']_vars

\* A restore of everything, with the remote in reach and nobody editing,
\* leaves exactly the clone root, from any tree in which no marker has a
\* real entry beside it and no entry of another kind is in the way (restore
\* then reports the path as failed).
Plain(d) == /\ d.stub[P] # None => d.kind = "absent"
            /\ d.dirstub # None => InDir(d) = {}
            /\ \A n \in Names : d.stub[n] = None \/ d.real[n] = None
InTheWay(d, e) == \/ e.kind = "tree" /\ d.kind \in {"file", "link"}
                  \/ e.kind \in {"blob", "link"} /\ d.kind = "dir" /\ d.dirstub = None
RestoreIsExact ==
    /\ cmd.name = "restore" /\ cmd.todo = {} /\ cmd.at = Root /\ cmd.pc = "apply"
    /\ cmd.touched = {} /\ Plain(cmd.seen) /\ ~InTheWay(cmd.seen, cr)
    => Logical(disk) = cr

\* What is on disk wins over what a record says (expand.rs 702): expand leaves
\* a real file beside a marker alone, as a push does.
RealFileWins == "expand" \notin lost

\* The files a scan would record; while stubs are being reconciled the tree
\* still belongs to the root the command started from.
base == IF Reconciling THEN cmd.from ELSE cr
doing == CASE cmd.name = "idle" -> "none" [] cmd.name = "clone" -> "pull"
           [] OTHER -> cmd.name
goal == CASE cmd.name \in {"clone", "pull", "push"} -> Files(cmd.goal)
          [] cmd.name \in {"stub", "expand"} -> Scanned(cmd.seen)
          [] cmd.name = "restore" -> Files(cr)
          [] cmd.name = "idle" -> Nowhere
FileOrLink == Maybe \cup {"link"}
Abstract == INSTANCE LogicalTree WITH
    File <- FileOrLink, Nothing <- None,
    tree <- Scanned(disk), base <- Files(base), remote <- Files(remote),
    doing <- doing, goal <- goal, beside <- Beside

\* With no command running, no pull or push interrupted and nothing lost,
\* every path the user has not edited is what clone_root says, however it is
\* stubbed.
CleanTreeIsSynced == Abstract!CleanMeansSynced

\* Whatever stubs, real files and markers lie on disk, the commands act on
\* the files a scan sees as LogicalTree says.
StubsAreInvisible == Abstract!Spec
====
