---- MODULE WorkTree ----
(***************************************************************************)
(* The commands that change a working tree: clone, stub, expand, pull,     *)
(* push and restore, on the one entry of WorkTreeDisk.  Commands hold the  *)
(* repository lock, so at most one runs; the user edits files at any       *)
(* moment, another clone publishes new remote roots, and a command can be  *)
(* killed between any two of its steps.  A step is one file-system effect  *)
(* on one path (fsguard's renames and unlinks are atomic).                 *)
(*                                                                         *)
(* An edit is always seen by a later (mtime, size) comparison, and the     *)
(* user does not edit a path between the check that precedes its removal   *)
(* or replacement and that effect (design/03_sync_model.md accepts that    *)
(* window).                                                                *)
(***************************************************************************)
EXTENDS WorkTreeDisk, Naturals, FiniteSets

CONSTANTS
    MaxEdits,       \* bound on user edits
    MaxPublishes    \* bound on roots published by other clones

ASSUME BoundAssumption == MaxEdits \in Nat /\ MaxPublishes \in Nat
ASSUME RootAssumption == "root" \notin Paths

VARIABLES
    disk,       \* the entry in the working tree
    cr,         \* its entry in clone_root
    remote,     \* its entry in the published remote root
    git,        \* markers here would be visible to Git
    repo,       \* "none" before .omemfs exists, "init" before clone_root does,
                \* then "rooted"
    cmd,        \* the running command
    edits, publishes,
    dirty,      \* paths the user has edited since they were last in sync
    torn,       \* an interrupted pull has left the tree between two roots
    lost        \* the code paths that have destroyed a user's file
vars == <<disk, cr, remote, git, repo, cmd, edits, publishes, dirty, torn, lost>>

\* The command's progress: where it is, its argument, what is left to do,
\* what its scan saw, the root it works towards, its plan, what it removed
\* itself, the clone root it started from, and the paths the user has touched
\* meanwhile, which their (mtime, size) gives away.
Root == "root"
Idle == [name |-> "idle", pc |-> "idle", at |-> Root, todo |-> {}, seen |-> EmptyDisk,
         goal |-> AbsentEntry, plan |-> Nowhere, removed |-> {}, from |-> AbsentEntry,
         touched |-> {}]
Running(name, pc) == cmd.name = name /\ cmd.pc = pc
StopCmd == cmd' = Idle
Goto(pc) == cmd' = [cmd EXCEPT !.pc = pc]

\* Path-wise view of an entry: content of each file, directories left out.
Files(e) == [t \in Paths |-> IF t = P /\ e.kind = "link" THEN "link" ELSE e.c[t]]
\* The same for what a scan of the disk records: Files(Logical(d)).
Scanned(d) == [t \in Paths |->
    IF t = P THEN CASE d.kind = "absent" -> d.stub[P]
                    [] d.kind = "link" -> "link"
                    [] OTHER -> d.real[P]
    ELSE IF d.kind = "dir" THEN ChildContent(d, t) ELSE None]

\* The paths a file, link or directory already in the way of a clone decides.
InPlace(d) == CASE d.kind = "absent" -> {}
                [] d.kind = "dir" -> {P} \cup {n \in Names : d.real[n] # None}
                [] OTHER -> Paths

\* Either a clone in step with its remote, or a directory, with or without
\* files of the user's, that nothing has been cloned into.
Init ==
    /\ git \in BOOLEAN
    /\ remote \in Entries
    /\ disk \in {d \in Disks : Listed(d) = {}}
    /\ \/ /\ repo = "rooted" /\ cr = remote /\ Logical(disk) = cr
          /\ edits = 0 /\ publishes = 0 /\ dirty = {}
       \/ /\ repo = "none" /\ cr = AbsentEntry
          /\ edits \in 0..MaxEdits /\ edits >= Cardinality({n \in {P} : Exists(disk, n)})
          /\ publishes = MaxPublishes
          /\ dirty = InPlace(disk)
    /\ cmd = Idle /\ torn = FALSE /\ lost = {}

----------------------------------------------------------------------------
(* The environment.                                                        *)

\* The paths an edit from d to e touches, whether or not a scan can tell.
Touched(d, e) == {t \in Paths : \/ Scanned(d)[t] # Scanned(e)[t]
                                \/ d.real[t] # e.real[t] \/ d.stub[t] # e.stub[t]
                                \/ /\ d.kind # e.kind
                                   /\ t = P \/ d.kind = "dir" \/ e.kind # "absent"}

UserEdits(d) ==
    /\ edits < MaxEdits
    /\ cmd.pc # "delete"
    /\ d # disk
    /\ disk' = d
    /\ edits' = edits + 1
    /\ dirty' = dirty \cup Touched(disk, d)
    /\ cmd' = IF cmd.name = "idle" THEN cmd
              ELSE [cmd EXCEPT !.touched = @ \cup Touched(disk, d)]
    /\ UNCHANGED <<cr, remote, git, repo, publishes, torn, lost>>

UserWrite == \E t \in Paths, x \in Content :
    /\ CanPutReal(disk, t) /\ (t # P => disk.kind = "dir")
    /\ UserEdits(PutReal(disk, t, x))
\* Single markers are removed only while no command runs.
UserRemove == \E t \in Paths :
    \/ Exists(disk, t) /\ CanDropReal(disk, t) /\ UserEdits(DropReal(disk, t))
    \/ cmd.name = "idle" /\ disk.stub[t] # None /\ UserEdits(DropStub(disk, t))
    \/ t = P /\ disk.kind = "dir" /\ UserEdits(DropDir(disk))
UserMakeDir == disk.kind = "absent" /\ UserEdits(MakeDir(disk))

\* Stub, expand and restore never read the remote root, so a publication
\* while one of them runs is the same as one before it.
OtherPublishes ==
    /\ publishes < MaxPublishes /\ cmd.name \notin {"stub", "expand", "restore"}
    /\ \E e \in Entries \ {remote} : remote' = e
    /\ publishes' = publishes + 1
    /\ UNCHANGED <<disk, cr, git, repo, cmd, edits, dirty, torn, lost>>

\* A clone, a pull that has begun to write, or a command that has moved
\* clone_root and not finished its stubs, leaves a torn tree when it stops.
LeavesTorn == \/ cmd.pc = "reconcile" \/ cmd.name = "clone"
              \/ cmd.name = "pull" /\ cmd.pc # "verify"
Abort(d) ==
    /\ disk' = d
    /\ StopCmd
    /\ torn' = (torn \/ LeavesTorn)
    /\ UNCHANGED <<cr, remote, git, repo, edits, publishes, dirty, lost>>
Fail == Abort(disk)

\* The process dies between two steps.
Crash == cmd.name # "idle" /\ Abort(disk)

\* A command step that changes nothing but the disk and its own progress.
Quiet == UNCHANGED <<cr, remote, git, repo, edits, publishes, dirty, torn, lost>>
\* The same for a step that may have destroyed a user's file, in way w.
MayLose(w, destroys) ==
    /\ lost' = IF destroys THEN lost \cup {w} ELSE lost
    /\ UNCHANGED <<cr, remote, git, repo, edits, publishes, dirty, torn>>

----------------------------------------------------------------------------
(* omemfs stub                                                             *)

IsFile(d, t) == IF t = P THEN d.kind = "file" ELSE d.real[t] # None

\* A directory is stubbed as a whole only from a clean start; a file only
\* if clone_root has it.  Otherwise the command fails or skips the path.
StubDirOk == disk.dirstub = None /\ ~git /\ cr.kind = "tree"
StubFileOk(t) == disk.stub[t] = None /\ ~git /\ cr.c[t] # None

StubStart(t) ==
    /\ cmd.name = "idle" /\ repo = "rooted"
    /\ \/ t = P /\ disk.kind = "dir" /\ StubDirOk
       \/ IsFile(disk, t) /\ StubFileOk(t)
    /\ cmd' = [Idle EXCEPT !.name = "stub", !.pc = "verify", !.at = t, !.seen = disk]
    /\ UNCHANGED disk /\ Quiet

WholeDir == cmd.at = P /\ cmd.seen.kind = "dir"

\* The content is read after the snapshot was taken.
StubVerified == IF WholeDir THEN Logical(disk) = cr
                ELSE disk.real[cmd.at] = cr.c[cmd.at]

StubVerify ==
    /\ Running("stub", "verify")
    /\ IF StubVerified THEN Goto("mark") ELSE StopCmd
    /\ UNCHANGED disk /\ Quiet

\* The marker comes first: a crash after it leaves the content and the stub.
StubMark ==
    /\ Running("stub", "mark")
    /\ IF WholeDir
       THEN IF CanPutDirStub(disk)
            THEN disk' = PutDirStub(disk, Children(cr)) /\ Goto("check")
            ELSE UNCHANGED disk /\ StopCmd
       ELSE IF ParentOk(disk, cmd.at)
            THEN disk' = PutStub(disk, cmd.at, cr.c[cmd.at]) /\ Goto("check")
            ELSE UNCHANGED disk /\ StopCmd
    /\ Quiet

\* DirSnapshot::check and Snapshot::check_file.
SnapshotHolds ==
    IF WholeDir
    THEN /\ disk.kind = "dir" /\ cmd.touched = {}
         /\ \A n \in Names : /\ disk.real[n] = cmd.seen.real[n]
                             /\ disk.stub[n] = cmd.seen.stub[n]
    ELSE IsFile(disk, cmd.at) /\ cmd.at \notin cmd.touched

\* Mutant: the deletion trusts the verification.
StubCheckBlind ==
    /\ Running("stub", "check")
    /\ Goto("delete")
    /\ UNCHANGED disk
    /\ Quiet

StubCheck ==
    /\ Running("stub", "check")
    /\ IF SnapshotHolds THEN Goto("delete") /\ UNCHANGED disk
       ELSE /\ Goto("changed")
            /\ disk' = IF WholeDir THEN [disk EXCEPT !.dirstub = None]
                       ELSE DropStub(disk, cmd.at)
    /\ Quiet

\* remove_file, or remove_dir_all keeping the marker, one child at a time.
InDir(d) == {n \in Names : d.real[n] # None \/ d.stub[n] # None}
StubDelete ==
    /\ Running("stub", "delete")
    /\ IF ~WholeDir THEN disk' = DropReal(disk, cmd.at) /\ StopCmd
       ELSE IF InDir(disk) = {} THEN UNCHANGED disk /\ StopCmd
       ELSE \E n \in InDir(disk) :
              /\ UNCHANGED cmd
              /\ \/ disk.real[n] # None /\ disk' = DropReal(disk, n)
                 \/ disk.stub[n] # None /\ disk' = DropStub(disk, n)
    /\ Quiet

\* The command reports that the path changed while being stubbed.
StubChanged == Running("stub", "changed") /\ Fail

Stub == \/ \E t \in Paths : StubStart(t)
        \/ StubVerify \/ StubMark \/ StubCheck \/ StubChanged \/ StubDelete

----------------------------------------------------------------------------
(* omemfs expand                                                           *)

\* A stub is in scope when it is the named path or below it.
InScope(id, scope) == scope \in {Root, P} \/ id = scope
SizeIsBig(d, id) == IF id = DirStub THEN BigTree(d.dirstub) ELSE d.stub[id] \in Big
NamedExactly(id, scope) == scope # Root /\ (id = scope \/ (id = DirStub /\ scope = P))

\* partition_stubs: stubs at or above the threshold stay unless named.
ToExpand(d, scope) ==
    {id \in Listed(d) : /\ InScope(id, scope)
                        /\ ~SizeIsBig(d, id) \/ NamedExactly(id, scope)}

\* What remains to be materialised: file stubs by path, directory stub
\* children as <<n>>, and the directory stub itself once they are done.
StubNames(ch) == {n \in Names : ch[n] # None}

ExpandStart(scope) ==
    /\ cmd.name = "idle" /\ repo # "none"
    /\ LET lower == scope \in Names /\ disk.stub[scope] = None /\ disk.dirstub # None
       IN \/ /\ ~lower /\ ToExpand(disk, scope) # {}
             /\ cmd' = [Idle EXCEPT !.name = "expand", !.pc = "items", !.at = Root,
                                    !.seen = disk, !.todo = ToExpand(disk, scope)]
          \/ /\ lower
             /\ cmd' = [Idle EXCEPT !.name = "expand", !.pc = "lower", !.at = scope,
                                    !.seen = disk, !.todo = StubNames(disk.dirstub)]
    /\ UNCHANGED disk /\ Quiet

\* lower_one_child: a child that is already on disk is left alone.
ExpandLower(n) ==
    /\ Running("expand", "lower") /\ n \in cmd.todo
    /\ IF ~ParentOk(disk, n) THEN Fail
       ELSE /\ disk' = IF disk.real[n] # None THEN disk
                       ELSE IF git THEN PutReal(disk, n, cmd.seen.dirstub[n])
                       ELSE PutStub(disk, n, cmd.seen.dirstub[n])
            /\ cmd' = [cmd EXCEPT !.todo = @ \ {n}]
            /\ Quiet

\* Mutant: the directory stub is removed before its children are written.
ExpandLowerStartEarly ==
    /\ Running("expand", "lower") /\ disk.dirstub # None
    /\ disk' = [disk EXCEPT !.dirstub = None]
    /\ UNCHANGED cmd /\ Quiet

\* lower_one_level ends by removing the directory stub; the named child is
\* then listed, if the directory had it.
ExpandLowerEnd ==
    /\ Running("expand", "lower") /\ cmd.todo = {}
    /\ IF ~ParentOk(disk, DirStub) THEN Fail
       ELSE /\ disk' = [disk EXCEPT !.dirstub = None]
            /\ cmd' = IF /\ cmd.at \in StubNames(cmd.seen.dirstub)
                         /\ disk'.stub[cmd.at] # None
                      THEN [cmd EXCEPT !.pc = "items", !.todo = {cmd.at}]
                      ELSE [cmd EXCEPT !.pc = "items"]
            /\ Quiet

\* A user's file at t that expand is about to replace by other content.
Replaces(t, x) == Exists(disk, t) /\ disk.real[t] # x

\* materialise_to_file, which renames over whatever file is there.
ExpandFile(t) ==
    /\ Running("expand", "items") /\ t \in cmd.todo \cap Paths
    /\ LET x == IF cmd.seen.stub[t] # None THEN cmd.seen.stub[t] ELSE cmd.seen.dirstub[t] IN
       IF ~CanPutReal(disk, t) THEN Fail
       ELSE /\ disk' = DropStub(PutReal(disk, t, x), t)
            /\ cmd' = [cmd EXCEPT !.todo = @ \ {t}]
            /\ MayLose("expand", Replaces(t, x))

\* expand_tree_materialise: each child becomes a stub or a file.
ExpandDirStart ==
    /\ Running("expand", "items") /\ DirStub \in cmd.todo
    /\ IF ~CanMakeDir(disk) THEN Fail
       ELSE /\ disk' = MakeDir(disk)
            /\ cmd' = [cmd EXCEPT !.pc = "tree", !.removed = StubNames(cmd.seen.dirstub)]
            /\ Quiet
KeepStubbed(x) == x \in Big /\ ~git
ExpandDirChild(n) ==
    /\ Running("expand", "tree") /\ n \in cmd.removed
    /\ LET x == cmd.seen.dirstub[n] IN
       IF ~ParentOk(disk, n) THEN Fail
       ELSE /\ cmd' = [cmd EXCEPT !.removed = @ \ {n}]
            /\ disk' = IF KeepStubbed(x) THEN PutStub(disk, n, x) ELSE PutReal(disk, n, x)
            /\ MayLose("expand", ~KeepStubbed(x) /\ Replaces(n, x))
ExpandDirEnd ==
    /\ Running("expand", "tree") /\ cmd.removed = {}
    /\ IF ~ParentOk(disk, DirStub) THEN Fail
       ELSE /\ disk' = [disk EXCEPT !.dirstub = None]
            /\ cmd' = [cmd EXCEPT !.pc = "items", !.todo = @ \ {DirStub}]
            /\ Quiet
ExpandEnd == Running("expand", "items") /\ cmd.todo = {} /\ StopCmd
             /\ UNCHANGED disk /\ Quiet

Expand == \/ \E scope \in Paths \cup {Root} : ExpandStart(scope)
          \/ \E n \in Names : ExpandLower(n) \/ ExpandDirChild(n)
          \/ \E t \in Paths : ExpandFile(t)
          \/ ExpandLowerEnd \/ ExpandDirStart \/ ExpandDirEnd \/ ExpandEnd

----------------------------------------------------------------------------
(* omemfs clone: .omemfs first, then every entry of the remote root, then  *)
(* clone_root.  It takes no lock; the model lets no other command run.     *)

\* The directory is empty, or --force lets what is there stay.
CloneStart(force) ==
    /\ cmd.name = "idle" /\ repo = "none"
    /\ force \/ disk.kind = "absent"
    /\ repo' = "init"
    /\ cmd' = [Idle EXCEPT !.name = "clone", !.pc = "entry", !.goal = remote,
                           !.at = IF force THEN P ELSE Root]
    /\ UNCHANGED <<disk, cr, remote, git, edits, publishes, dirty, torn, lost>>
Forced == cmd.at = P

\* Path::exists and is_dir follow a symlink: it may lead nowhere, to a file
\* or to a directory.
SeenThere(t, leads) ==
    Exists(disk, t) /\ (t = P /\ disk.kind = "link" => leads # "nowhere")
SeenFile(leads) == disk.kind = "file" \/ (disk.kind = "link" /\ leads = "file")

ClonePutBlob(t, pc, leads) ==
    LET x == cmd.goal.c[t]
        done == cmd' = [cmd EXCEPT !.pc = pc, !.todo = @ \ {t}]
    IN IF Forced /\ SeenThere(t, leads) THEN UNCHANGED disk /\ done /\ Quiet
       ELSE IF x \in Big /\ ~git
       THEN IF ~ParentOk(disk, t) THEN Fail
            ELSE disk' = PutStub(disk, t, x) /\ done /\ Quiet
       ELSE IF ~CanPutReal(disk, t) THEN Fail
            ELSE disk' = PutReal(disk, t, x) /\ done /\ MayLose("clone", Exists(disk, t))

\* A symlink is made whatever is there, --force or not.
ClonePutLink ==
    IF ~CanPutLink(disk) THEN Fail
    ELSE disk' = PutLink(disk) /\ Goto("root")
         /\ MayLose("clone", disk.kind \in {"file", "link"})

ClonePutTree(leads) ==
    IF Forced /\ SeenFile(leads) THEN UNCHANGED disk /\ Goto("root") /\ Quiet
    ELSE IF ~CanMakeDir(disk) THEN Fail
    ELSE IF BigTree(Children(cmd.goal)) /\ ~git
    THEN disk' = PutDirStub(disk, Children(cmd.goal)) /\ Goto("root") /\ Quiet
    ELSE /\ disk' = MakeDir(disk)
         /\ cmd' = [cmd EXCEPT !.pc = "children", !.todo = StubNames(Children(cmd.goal))]
         /\ Quiet

\* expand_or_stub.
CloneEntry ==
    /\ Running("clone", "entry")
    /\ \E leads \in {"nowhere", "file", "dir"} :
         CASE cmd.goal.kind = "absent" -> UNCHANGED disk /\ Goto("root") /\ Quiet
           [] cmd.goal.kind = "blob" -> ClonePutBlob(P, "root", leads)
           [] cmd.goal.kind = "link" -> ClonePutLink
           [] cmd.goal.kind = "tree" -> ClonePutTree(leads)
CloneChild(n) ==
    Running("clone", "children") /\ n \in cmd.todo /\ ClonePutBlob(n, "children", "nowhere")

CloneRoot ==
    /\ Running("clone", "root") \/ (Running("clone", "children") /\ cmd.todo = {})
    /\ cr' = cmd.goal /\ repo' = "rooted"
    /\ StopCmd
    /\ dirty' = {t \in dirty : Scanned(disk)[t] # Files(cmd.goal)[t]}
    /\ UNCHANGED <<disk, remote, git, edits, publishes, torn, lost>>

Clone == \/ \E force \in BOOLEAN : CloneStart(force)
         \/ CloneEntry \/ (\E n \in Names : CloneChild(n)) \/ CloneRoot
====
