---- MODULE WorkTree_proofs ----
(***************************************************************************)
(* Proofs about the working tree of WorkTreeSync, for any names, contents, *)
(* thresholds, edits and publications.                                     *)
(***************************************************************************)
EXTENDS WorkTreeSync, TLAPS

----------------------------------------------------------------------------
(* Disks and entries.                                                      *)

\* The parts of a disk.
LEMMA DiskParts ==
    ASSUME NEW d \in Disks
    PROVE  /\ d.kind \in {"absent", "file", "link", "dir"}
           /\ d.real \in [Paths -> Maybe] /\ d.stub \in [Paths -> Maybe]
           /\ d.dirstub \in [Names -> Maybe] \cup {None}
           /\ (d.real[P] # None) <=> (d.kind = "file")
           /\ d.kind # "dir" => /\ d.dirstub = None
                                /\ \A n \in Names : d.real[n] = None /\ d.stub[n] = None
  BY DEF Disks, Disk, WellFormed

\* The parts of an entry of a root.
LEMMA EntryParts ==
    ASSUME NEW e \in Entries
    PROVE  /\ e.kind \in {"absent", "blob", "link", "tree"} /\ e.c \in [Paths -> Maybe]
           /\ (e.c[P] # None) <=> (e.kind = "blob")
           /\ e.kind # "tree" => \A n \in Names : e.c[n] = None
           /\ Children(e) \in [Names -> Maybe]
           /\ \A n \in Names : Children(e)[n] = e.c[n]
  BY DEF Entries, Entry, WellFormedEntry, Children, Paths

\* The constants.
LEMMA Constants ==
    /\ P \in Paths /\ Names \subseteq Paths /\ P \notin Names /\ Paths = Names \cup {P}
    /\ None \in Maybe /\ Content \subseteq Maybe /\ None \notin Content
    /\ \A x \in Maybe : x # None => x \in Content
    /\ Root \notin Paths /\ DirStub \notin Paths /\ None \notin [Names -> Maybe]
    /\ Nowhere \in [Paths -> Maybe] /\ \A t \in Paths : Nowhere[t] = None
  BY DiskAssumption, RootAssumption DEF Paths, Maybe, Root, DirStub, Nowhere

\* A file is written.
LEMMA PutRealDisk ==
    ASSUME NEW d \in Disks, NEW t \in Paths, NEW x \in Content, CanPutReal(d, t)
    PROVE  LET q == PutReal(d, t, x)
           IN  /\ q \in Disks /\ q.real = [d.real EXCEPT ![t] = x] /\ q.stub = d.stub
               /\ q.dirstub = d.dirstub /\ q.kind = IF t = P THEN "file" ELSE "dir"
<1>1. CASE t = P
  BY <1>1, DiskParts, Constants DEF PutReal, CanPutReal, Disks, Disk, WellFormed
<1>2. CASE t # P
  <2>1. d.kind \in {"absent", "dir"} /\ t \in Names
    BY <1>2, Constants DEF CanPutReal, ParentOk
  <2> QED  BY <1>2, <2>1, DiskParts, Constants DEF PutReal, InParent, Disks, Disk, WellFormed
<1> QED  BY <1>1, <1>2

\* A file stub is written.
LEMMA PutStubDisk ==
    ASSUME NEW d \in Disks, NEW t \in Paths, NEW x \in Maybe, ParentOk(d, t)
    PROVE  LET q == PutStub(d, t, x)
           IN  /\ q \in Disks /\ q.real = d.real /\ q.stub = [d.stub EXCEPT ![t] = x]
               /\ q.dirstub = d.dirstub /\ q.kind = IF t = P THEN d.kind ELSE "dir"
<1>1. CASE t = P
  BY <1>1, DiskParts, Constants DEF PutStub, InParent, Disks, Disk, WellFormed
<1>2. CASE t # P
  <2>1. d.kind \in {"absent", "dir"} /\ t \in Names
    BY <1>2, Constants DEF ParentOk
  <2> QED  BY <1>2, <2>1, DiskParts, Constants DEF PutStub, InParent, Disks, Disk, WellFormed
<1> QED  BY <1>1, <1>2

\* A directory stub is written.
LEMMA PutDirStubDisk ==
    ASSUME NEW d \in Disks, NEW ch \in [Names -> Maybe], d.kind \in {"absent", "dir"}
    PROVE  LET q == PutDirStub(d, ch)
           IN  /\ q \in Disks /\ q.real = d.real /\ q.stub = d.stub
               /\ q.dirstub = ch /\ q.kind = "dir"
  BY DiskParts, Constants DEF PutDirStub, Disks, Disk, WellFormed

\* A directory stub is removed.
LEMMA DropDirStubDisk ==
    ASSUME NEW d \in Disks
    PROVE  LET q == [d EXCEPT !.dirstub = None]
           IN  /\ q \in Disks /\ q.real = d.real /\ q.stub = d.stub
               /\ q.dirstub = None /\ q.kind = d.kind
  BY DiskParts, Constants DEF Disks, Disk, WellFormed

\* A directory is made.
LEMMA MakeDirDisk ==
    ASSUME NEW d \in Disks, CanMakeDir(d)
    PROVE  LET q == MakeDir(d)
           IN  /\ q \in Disks /\ q.real = d.real /\ q.stub = d.stub
               /\ q.dirstub = d.dirstub /\ q.kind = "dir"
  BY DiskParts, Constants DEF MakeDir, CanMakeDir, Disks, Disk, WellFormed

\* A file or a link is removed.
LEMMA DropRealDisk ==
    ASSUME NEW d \in Disks, NEW t \in Paths, t = P => d.kind # "dir"
    PROVE  LET q == DropReal(d, t)
           IN  /\ q \in Disks /\ q.real = [d.real EXCEPT ![t] = None] /\ q.stub = d.stub
               /\ q.dirstub = d.dirstub /\ q.kind = IF t = P THEN "absent" ELSE d.kind
  BY DiskParts, Constants DEF DropReal, Disks, Disk, WellFormed

\* A file stub is removed.
LEMMA DropStubDisk ==
    ASSUME NEW d \in Disks, NEW t \in Paths
    PROVE  LET q == DropStub(d, t)
           IN  /\ q \in Disks /\ q.real = d.real /\ q.stub = [d.stub EXCEPT ![t] = None]
               /\ q.dirstub = d.dirstub /\ q.kind = d.kind
  BY DiskParts, Constants DEF DropStub, Disks, Disk, WellFormed

\* A directory is removed with everything in it.
LEMMA DropDirDisk ==
    ASSUME NEW d \in Disks
    PROVE  LET q == DropDir(d)
           IN  /\ q \in Disks /\ q.real = Nowhere /\ q.stub = [Nowhere EXCEPT ![P] = d.stub[P]]
               /\ q.dirstub = None /\ q.kind = "absent"
  BY DiskParts, Constants DEF DropDir, EmptyDisk, Disks, Disk, WellFormed

\* An empty directory is removed.
LEMMA PruneDirDisk ==
    ASSUME NEW d \in Disks
    PROVE  /\ PruneDir(d) \in Disks
           /\ \A t \in Paths : PruneDir(d).real[t] = d.real[t] /\ PruneDir(d).stub[t] = d.stub[t]
<1>1. CASE EmptyDir(d)
  <2>1. PruneDir(d) = DropDir(d) /\ d.kind = "dir" /\ \A n \in Names : d.real[n] = None /\ d.stub[n] = None
    BY <1>1 DEF PruneDir, EmptyDir
  <2>2. d.real[P] = None /\ d.stub \in [Paths -> Maybe]
    BY <2>1, DiskParts
  <2>3. DropDir(d) \in Disks /\ DropDir(d).real = Nowhere
        /\ DropDir(d).stub = [Nowhere EXCEPT ![P] = d.stub[P]]
    BY DropDirDisk
  <2>4. ASSUME NEW t \in Paths
        PROVE  DropDir(d).real[t] = d.real[t] /\ DropDir(d).stub[t] = d.stub[t]
    <3>1. CASE t = P
      BY <2>2, <2>3, <3>1, Constants
    <3>2. CASE t \in Names
      BY <2>1, <2>3, <3>2, Constants
    <3> QED  BY <3>1, <3>2, Constants
  <2> QED  BY <2>1, <2>3, <2>4
<1>2. CASE ~EmptyDir(d)
  BY <1>2 DEF PruneDir
<1> QED  BY <1>1, <1>2

\* A symlink is made.
LEMMA PutLinkDisk ==
    ASSUME NEW d \in Disks
    PROVE  LET q == PutLink(d)
           IN  /\ q \in Disks /\ q.real = Nowhere /\ q.stub = [Nowhere EXCEPT ![P] = d.stub[P]]
               /\ q.dirstub = None /\ q.kind = "link"
  BY DropDirDisk, DiskParts, Constants DEF PutLink, Disks, Disk, WellFormed

\* What a scan reads is an entry.
LEMMA LogicalEntry ==
    ASSUME NEW d \in Disks
    PROVE  /\ Logical(d) \in Entries
           /\ Logical(d).kind = "tree" <=> d.kind = "dir"
           /\ Logical(d).kind = "link" <=> d.kind = "link"
           /\ d.kind = "file" => Logical(d).kind = "blob"
           /\ Logical(d).c[P] = IF d.kind = "absent" THEN d.stub[P] ELSE d.real[P]
           /\ \A n \in Names : Logical(d).c[n] = IF d.kind = "dir" THEN ChildContent(d, n) ELSE None
<1> USE DiskParts, Constants DEF Entries, Entry, WellFormedEntry
<1>1. CASE d.kind = "absent" /\ d.stub[P] = None
  BY <1>1 DEF Logical, AbsentEntry
<1>2. CASE d.kind = "absent" /\ d.stub[P] # None
  BY <1>2 DEF Logical, Blob
<1>3. CASE d.kind = "file"
  BY <1>3 DEF Logical, Blob
<1>4. CASE d.kind = "link"
  BY <1>4 DEF Logical, LinkEntry
<1>5. CASE d.kind = "dir"
  <2>1. \A n \in Names : ChildContent(d, n) \in Maybe
    BY DEF ChildContent
  <2>2. Logical(d) = TreeOf([n \in Names |-> ChildContent(d, n)])
    BY <1>5 DEF Logical
  <2> DEFINE c == [t \in Paths |-> IF t = P THEN None ELSE [n \in Names |-> ChildContent(d, n)][t]]
  <2>3. Logical(d) = [kind |-> "tree", c |-> c]
    BY <2>2 DEF TreeOf
  <2>4. c \in [Paths -> Maybe] /\ c[P] = None /\ \A n \in Names : c[n] = ChildContent(d, n)
    BY <2>1
  <2> HIDE DEF c
  <2> QED  BY <1>5, <2>3, <2>4
<1> QED  BY <1>1, <1>2, <1>3, <1>4, <1>5

\* Two entries of the same kind with the same contents are the same.
LEMMA EntryEqual ==
    ASSUME NEW d \in Entries, NEW e \in Entries, d.kind = e.kind, \A t \in Paths : d.c[t] = e.c[t]
    PROVE  d = e
<1>1. d.c = e.c
  BY EntryParts
<1> QED  BY <1>1 DEF Entries, Entry

\* A diff names a change for every path.
LEMMA DiffType ==
    ASSUME NEW b \in Entries, NEW t \in Entries, NEW th \in BOOLEAN
    PROVE  Diff(b, t, th) \in [Paths -> Changes]
<1>1. DiffAtP(b, t, th) \in Changes
  BY EntryParts DEF DiffAtP, Changes
<1>2. \A n \in Paths : DiffAtChild(b, t, n) \in Changes
  BY DEF DiffAtChild, Changes
<1> QED  BY <1>1, <1>2 DEF Diff, Changes

\* A file is at a path exactly when there is content.
LEMMA IsFileReal ==
    ASSUME NEW d \in Disks, NEW t \in Paths
    PROVE  IsFile(d, t) <=> d.real[t] # None
  BY DiskParts, Constants DEF IsFile

\* The path-wise view of the disk is that of the entry a scan records.
LEMMA ScannedFiles ==
    ASSUME NEW d \in Disks
    PROVE  Scanned(d) = Files(Logical(d))
<1>0. Paths = Names \cup {P} /\ P \notin Names /\ None \notin Content
  BY DiskAssumption DEF Paths
<1>1. /\ d.kind \in {"absent", "file", "link", "dir"}
      /\ (d.real[P] # None) <=> (d.kind = "file")
  BY DEF Disks, Disk, WellFormed
<1> SUFFICES ASSUME NEW t \in Paths PROVE Scanned(d)[t] = Files(Logical(d))[t]
  BY DEF Scanned, Files
<1>2. CASE d.kind = "absent"
  <2>1. Scanned(d)[t] = IF t = P THEN d.stub[P] ELSE None
    BY <1>0, <1>2 DEF Scanned
  <2>2. Logical(d) = IF d.stub[P] # None THEN Blob(d.stub[P]) ELSE AbsentEntry
    BY <1>2 DEF Logical
  <2> QED  BY <1>0, <2>1, <2>2 DEF Files, Blob, AbsentEntry, Nowhere
<1>3. CASE d.kind = "file"
  BY <1>0, <1>3 DEF Scanned, Files, Logical, Blob, Nowhere
<1>4. CASE d.kind = "link"
  BY <1>0, <1>4 DEF Scanned, Files, Logical, LinkEntry, Nowhere
<1>5. CASE d.kind = "dir"
  <2>1. Scanned(d)[t] = IF t = P THEN None ELSE ChildContent(d, t)
    BY <1>0, <1>1, <1>5 DEF Scanned
  <2>2. Logical(d) = TreeOf([n \in Names |-> ChildContent(d, n)])
    BY <1>5 DEF Logical
  <2> QED  BY <1>0, <2>1, <2>2 DEF Files, TreeOf
<1> QED  BY <1>1, <1>2, <1>3, <1>4, <1>5

----------------------------------------------------------------------------
(* The inductive invariant: what each command knows at each of its places. *)

PlaceInv ==
    /\ \/ cmd = Idle
       \/ cmd.name = "clone" /\ cmd.pc \in {"entry", "children", "root"}
       \/ cmd.name = "stub" /\ cmd.pc \in {"verify", "mark", "check", "changed", "delete"}
       \/ cmd.name = "expand" /\ cmd.pc \in {"items", "lower", "tree"}
       \/ cmd.name = "pull" /\ cmd.pc \in {"verify", "deletes", "writes", "reconcile"}
       \/ cmd.name = "push" /\ cmd.pc \in {"publish", "root", "reconcile"}
       \/ cmd.name = "restore" /\ cmd.pc \in {"apply", "offline"}
    /\ cmd.name # "idle" => repo # "none"
    /\ cmd.name # "restore" => cmd.todo \subseteq Paths \cup {DirStub}

\* A clone writes only what the remote root has.
CloneInv == cmd.name = "clone" /\ cmd.pc = "children" =>
    cmd.todo \subseteq {n \in Names : cmd.goal.c[n] # None}

\* What a stub is about to delete is still what clone_root has, or the user's
\* edit will be noticed.
StubInv == cmd.name = "stub" =>
    /\ cmd.at \in Paths
    /\ cmd.pc = "delete" /\ ~WholeDir => IsFile(disk, cmd.at)
    /\ cmd.pc \in {"mark", "check", "delete"} /\ ~WholeDir =>
         disk.real[cmd.at] = cr.c[cmd.at] \/ (cmd.pc # "delete" /\ cmd.at \in cmd.touched)
    /\ cmd.pc \in {"mark", "check", "delete"} /\ WholeDir =>
         \/ \A n \in Names : disk.real[n] \in {None, cr.c[n]}
         \/ cmd.pc # "delete" /\ cmd.touched # {}

\* An expansion writes only what the stubs it found record.
Recorded(d) == IF d.dirstub = None THEN {} ELSE StubNames(d.dirstub)
ExpandInv == cmd.name = "expand" =>
    /\ cmd.todo \cap Paths \subseteq Recorded(cmd.seen) \cup {t \in Paths : cmd.seen.stub[t] # None}
    /\ cmd.pc = "lower" => cmd.todo \subseteq Recorded(cmd.seen) /\ cmd.seen.dirstub # None
    /\ DirStub \in cmd.todo => cmd.seen.dirstub # None
    /\ cmd.pc = "tree" => cmd.removed \subseteq Recorded(cmd.seen) /\ DirStub \in cmd.todo

\* The scan found no conflict, so at a path a pull is to change the scan saw the
\* clone root's file or already the remote's; and a file that is there and was
\* not touched is the one it saw, or the one it has written.
PullInv == cmd.name = "pull" =>
    /\ cmd.plan = Diff(cmd.from, cmd.goal, TRUE)
    /\ cmd.pc = "deletes" => cmd.todo \subseteq Planned({"deleted"})
    /\ \A x \in Paths : cmd.plan[x] # "same" /\ IsFile(cmd.seen, x) =>
         cmd.seen.real[x] \in {cmd.from.c[x], cmd.goal.c[x]}
    /\ cmd.pc # "reconcile" =>
         \A x \in Paths \ cmd.touched : IsFile(cmd.seen, x) /\ IsFile(disk, x) =>
           disk.real[x] \in {cmd.seen.real[x], cmd.goal.c[x]}

\* What is left of a restore is part of its plan.
RestoreInv == cmd.name = "restore" => cmd.todo \subseteq RestorePlan(cmd.seen, cr, cmd.at)

IInv == TypeOK /\ PlaceInv /\ CloneInv /\ StubInv /\ ExpandInv /\ PullInv /\ RestoreInv

\* What a step of a command may do to the user's files.
Spared(t) == \/ disk'.real[t] = disk.real[t] \/ disk.real[t] = None
             \/ disk.real[t] \in {cr.c[t], cmd.from.c[t], cmd.goal.c[t]}
             \/ Way \in lost'
Careful == disk' \in Disks /\ \A t \in Paths : Spared(t)

----------------------------------------------------------------------------
(* Stub.                                                                   *)

\* A step that leaves the real files alone is careful.
LEMMA Untouched ==
    ASSUME disk' \in Disks, \A t \in Paths : disk'.real[t] = disk.real[t]
    PROVE  Careful
  BY DEF Careful, Spared

\* Stubbing deletes only what clone_root has.
LEMMA StubCareful ==
    ASSUME TypeOK, StubInv, Stub
    PROVE  Careful
<1>0. disk \in Disks /\ cr \in Entries /\ cmd.seen \in Disks
  BY DEF TypeOK
<1>1. CASE disk' = disk
  BY <1>0, <1>1, Untouched
<1>2. CASE StubMark
  <2>0. cmd.at \in Paths /\ cr.c[cmd.at] \in Maybe /\ Children(cr) \in [Names -> Maybe]
    BY <1>0, <1>2, EntryParts DEF StubMark, Running, StubInv
  <2>1. CASE WholeDir /\ CanPutDirStub(disk)
    BY <1>0, <1>2, <2>0, <2>1, PutDirStubDisk, Untouched DEF StubMark, CanPutDirStub
  <2>2. CASE ~WholeDir /\ ParentOk(disk, cmd.at)
    <3>1. disk' = PutStub(disk, cmd.at, cr.c[cmd.at])
      BY <1>2, <2>2 DEF StubMark
    <3>2. disk' \in Disks /\ disk'.real = disk.real
      BY <1>0, <2>0, <2>2, <3>1, PutStubDisk
    <3> QED  BY <3>2, Untouched
  <2> QED  BY <1>1, <1>2, <2>1, <2>2 DEF StubMark
<1>3. CASE StubCheck
  <2>1. disk' = disk \/ disk' = [disk EXCEPT !.dirstub = None]
        \/ (cmd.at \in Paths /\ disk' = DropStub(disk, cmd.at))
    BY <1>3 DEF StubCheck, StubInv, Running
  <2>2. CASE disk' = [disk EXCEPT !.dirstub = None]
    BY <1>0, <2>2, DropDirStubDisk, Untouched
  <2>3. CASE cmd.at \in Paths /\ disk' = DropStub(disk, cmd.at)
    <3>1. disk' \in Disks /\ disk'.real = disk.real
      BY <1>0, <2>3, DropStubDisk
    <3> QED  BY <3>1, Untouched
  <2> QED  BY <1>1, <2>1, <2>2, <2>3
<1>4. CASE StubDelete
  <2>1. CASE ~WholeDir
    <3>1. /\ disk' = DropReal(disk, cmd.at) /\ cmd.at \in Paths /\ IsFile(disk, cmd.at)
          /\ disk.real[cmd.at] = cr.c[cmd.at]
      BY <1>4, <2>1 DEF StubDelete, StubInv, Running
    <3>2. cmd.at = P => disk.kind # "dir"
      BY <1>0, <3>1 DEF IsFile
    <3>3. disk' \in Disks /\ disk'.real = [disk.real EXCEPT ![cmd.at] = None]
      BY <1>0, <3>1, <3>2, DropRealDisk
    <3>4. ASSUME NEW t \in Paths PROVE Spared(t)
      BY <1>0, <3>1, <3>3, DiskParts DEF Spared
    <3> QED  BY <3>3, <3>4 DEF Careful
  <2>2. CASE WholeDir /\ disk' # disk
    <3>1. PICK n \in Names : disk' = DropReal(disk, n) \/ disk' = DropStub(disk, n)
      BY <1>4, <2>2 DEF StubDelete, InDir
    <3>2. n \in Paths /\ n # P /\ disk.real[n] \in {None, cr.c[n]}
      BY <1>4, <2>2, Constants DEF StubDelete, StubInv, Running
    <3>3. CASE disk' = DropStub(disk, n)
      BY <1>0, <3>2, <3>3, DropStubDisk, Untouched
    <3>4. CASE disk' = DropReal(disk, n)
      <4>1. disk' \in Disks /\ disk'.real = [disk.real EXCEPT ![n] = None]
        BY <1>0, <3>2, <3>4, DropRealDisk
      <4>2. ASSUME NEW t \in Paths PROVE Spared(t)
        BY <1>0, <3>2, <4>1, DiskParts DEF Spared
      <4> QED  BY <4>1, <4>2 DEF Careful
    <3> QED  BY <3>1, <3>3, <3>4
  <2> QED  BY <1>1, <2>1, <2>2
<1>5. (\E t \in Paths : StubStart(t)) \/ StubVerify \/ StubChanged => disk' = disk
  BY DEF StubStart, StubVerify, StubChanged, Fail, Abort
<1> QED  BY <1>1, <1>2, <1>3, <1>4, <1>5 DEF Stub

----------------------------------------------------------------------------
(* Expand and clone.                                                       *)

\* Only one file is at stake.
LEMMA OneFile ==
    ASSUME disk' \in Disks, NEW t \in Paths, Spared(t),
           \A u \in Paths \ {t} : disk'.real[u] = disk.real[u]
    PROVE  Careful
  BY DEF Careful, Spared

\* A file is written where none was, or with its loss recorded.
LEMMA FileWritten ==
    ASSUME disk \in Disks, NEW t \in Paths, NEW x \in Content, CanPutReal(disk, t),
           disk' = PutReal(disk, t, x) \/ disk' = DropStub(PutReal(disk, t, x), t),
           Spared(t)
    PROVE  Careful
<1> DEFINE q == PutReal(disk, t, x)
<1>1. q \in Disks /\ q.real = [disk.real EXCEPT ![t] = x]
  BY PutRealDisk
<1> HIDE DEF q
<1>2. disk' \in Disks /\ disk'.real = q.real
  <2>1. CASE disk' = q
    BY <1>1, <2>1
  <2>2. CASE disk' = DropStub(q, t)
    BY <1>1, <2>2, DropStubDisk
  <2> QED  BY <2>1, <2>2 DEF q
<1>3. \A u \in Paths \ {t} : disk'.real[u] = disk.real[u]
  BY <1>1, <1>2, DiskParts
<1> QED  BY <1>2, <1>3, OneFile

\* What an expansion would write at a path it has found.
LEMMA ExpandedContent ==
    ASSUME TypeOK, NEW t \in Paths
    PROVE  /\ t \in Recorded(cmd.seen) => /\ t \in Names /\ cmd.seen.dirstub \in [Names -> Maybe]
                                          /\ cmd.seen.dirstub[t] \in Content
           /\ cmd.seen.stub[t] # None => cmd.seen.stub[t] \in Content
<1>1. cmd.seen \in Disks
  BY DEF TypeOK
<1>2. cmd.seen.stub[t] \in Maybe /\ cmd.seen.dirstub \in [Names -> Maybe] \cup {None}
  BY <1>1, DiskParts
<1> QED  BY <1>2, Constants DEF Recorded, StubNames

\* Expanding replaces no file, but for the known loss.
LEMMA ExpandCareful ==
    ASSUME TypeOK, PlaceInv, ExpandInv, Expand
    PROVE  Careful
<1>0. disk \in Disks /\ cmd.seen \in Disks /\ lost \subseteq {"clone", "expand", "reconcile", "unverified"}
  BY DEF TypeOK
<1>1. CASE disk' = disk
  BY <1>0, <1>1, Untouched
<1>2. ASSUME NEW n \in Names, ExpandLower(n), disk' # disk
      PROVE  Careful
  <2>1. /\ n \in Paths /\ n \in Recorded(cmd.seen) /\ ParentOk(disk, n) /\ disk.real[n] = None
        /\ disk' \in {PutReal(disk, n, cmd.seen.dirstub[n]), PutStub(disk, n, cmd.seen.dirstub[n])}
    BY <1>2, Constants DEF ExpandLower, Running, ExpandInv, Fail, Abort
  <2>2. cmd.seen.dirstub[n] \in Content /\ cmd.seen.dirstub[n] \in Maybe
    BY <2>1, ExpandedContent, Constants
  <2>3. CASE disk' = PutReal(disk, n, cmd.seen.dirstub[n])
    <3>1. CanPutReal(disk, n) /\ Spared(n)
      BY <2>1, Constants DEF CanPutReal, Spared
    <3> QED  BY <1>0, <2>1, <2>2, <2>3, <3>1, FileWritten
  <2>4. CASE disk' = PutStub(disk, n, cmd.seen.dirstub[n])
    <3> DEFINE x == cmd.seen.dirstub[n]
    <3>1. x \in Maybe /\ disk' = PutStub(disk, n, x) /\ n \in Paths /\ ParentOk(disk, n)
      BY <2>1, <2>2, <2>4
    <3> HIDE DEF x
    <3>2. PutStub(disk, n, x) \in Disks /\ PutStub(disk, n, x).real = disk.real
      BY <1>0, <3>1, PutStubDisk
    <3> QED  BY <3>1, <3>2, Untouched
  <2> QED  BY <2>1, <2>3, <2>4
<1>3. CASE ExpandLowerEnd \/ ExpandDirEnd
  <2>1. disk' = disk \/ disk' = [disk EXCEPT !.dirstub = None]
    BY <1>3 DEF ExpandLowerEnd, ExpandDirEnd, Fail, Abort
  <2> QED  BY <1>0, <1>1, <2>1, DropDirStubDisk, Untouched
<1>4. ASSUME NEW t \in Paths, ExpandFile(t), disk' # disk
      PROVE  Careful
  <2> DEFINE x == IF cmd.seen.stub[t] # None THEN cmd.seen.stub[t] ELSE cmd.seen.dirstub[t]
  <2>1. /\ t \in cmd.todo /\ CanPutReal(disk, t) /\ Running("expand", "items")
        /\ disk' = DropStub(PutReal(disk, t, x), t) /\ MayLose("expand", Replaces(t, x))
    BY <1>4 DEF ExpandFile, Fail, Abort
  <2>2. t \in Recorded(cmd.seen) \/ cmd.seen.stub[t] # None
    BY <2>1 DEF ExpandInv, Running
  <2>3. x \in Content
    BY <2>2, ExpandedContent
  <2> HIDE DEF x
  <2>4. Spared(t)
    <3>1. DropStub(PutReal(disk, t, x), t).real[t] = x
      <4> DEFINE q == PutReal(disk, t, x)
      <4>1. q \in Disks /\ q.real = [disk.real EXCEPT ![t] = x]
        BY <1>0, <2>1, <2>3, PutRealDisk
      <4> HIDE DEF q
      <4>2. DropStub(q, t).real = q.real
        BY <4>1, DropStubDisk
      <4> QED  BY <1>0, <4>1, <4>2, DiskParts DEF q
    <3>2. CASE Replaces(t, x)
      <4>1. "expand" \in lost'
        BY <2>1, <3>2 DEF MayLose
      <4>2. Way = "expand"
        BY <2>1 DEF Way, Running
      <4> QED  BY <4>1, <4>2 DEF Spared
    <3>3. CASE ~Replaces(t, x)
      <4>1. disk.real[t] = x \/ disk.real[t] = None
        <5>1. ~Exists(disk, t) \/ disk.real[t] = x
          BY <3>3 DEF Replaces
        <5>2. ~Exists(disk, t) => disk.real[t] = None
          BY <1>0, DiskParts, Constants DEF Exists
        <5> QED  BY <5>1, <5>2
      <4> QED  BY <2>1, <3>1, <4>1 DEF Spared
    <3> QED  BY <3>2, <3>3
  <2> QED  BY <1>0, <2>1, <2>3, <2>4, FileWritten
<1>5. CASE ExpandDirStart
  <2>1. disk' = disk \/ (CanMakeDir(disk) /\ disk' = MakeDir(disk))
    BY <1>5 DEF ExpandDirStart, Fail, Abort
  <2> QED  BY <1>0, <1>1, <2>1, MakeDirDisk, Untouched
<1>6. ASSUME NEW n \in Names, ExpandDirChild(n), disk' # disk
      PROVE  Careful
  <2> DEFINE x == cmd.seen.dirstub[n]
  <2>1. /\ n \in Paths /\ n \in Recorded(cmd.seen) /\ ParentOk(disk, n) /\ Running("expand", "tree")
        /\ disk' = IF KeepStubbed(x) THEN PutStub(disk, n, x) ELSE PutReal(disk, n, x)
        /\ MayLose("expand", ~KeepStubbed(x) /\ Replaces(n, x))
    BY <1>6, Constants DEF ExpandDirChild, Running, ExpandInv, Fail, Abort
  <2>2. x \in Content /\ x \in Maybe
    BY <2>1, ExpandedContent, Constants
  <2> HIDE DEF x
  <2>3. CASE KeepStubbed(x)
    <3>1. disk' \in Disks /\ disk'.real = disk.real
      BY <1>0, <2>1, <2>2, <2>3, PutStubDisk
    <3> QED  BY <3>1, Untouched
  <2>4. CASE ~KeepStubbed(x)
    <3>1. CanPutReal(disk, n) /\ disk' = PutReal(disk, n, x)
      BY <2>1, <2>4, Constants DEF CanPutReal
    <3>2. disk'.real = [disk.real EXCEPT ![n] = x]
      BY <1>0, <2>1, <2>2, <3>1, PutRealDisk
    <3>3. Spared(n)
      BY <1>0, <2>1, <2>4, <3>2, DiskParts, Constants DEF Spared, MayLose, Way, Running, Replaces, Exists
    <3> QED  BY <1>0, <2>1, <2>2, <3>1, <3>3, FileWritten
  <2> QED  BY <2>3, <2>4
<1>7. (\E s \in Paths \cup {Root} : ExpandStart(s)) \/ ExpandEnd => disk' = disk
  BY DEF ExpandStart, ExpandEnd
<1> QED  BY <1>1, <1>2, <1>3, <1>4, <1>5, <1>6, <1>7 DEF Expand

\* Cloning writes over no file, but for the known loss.
LEMMA ClonePutBlobCareful ==
    ASSUME TypeOK, NEW t \in Paths, NEW pc, NEW leads, cmd.goal.c[t] # None,
           cmd.name = "clone", cmd.pc # "reconcile", ClonePutBlob(t, pc, leads)
    PROVE  Careful
<1>0. disk \in Disks /\ cmd.goal \in Entries /\ cmd.goal.c[t] \in Content /\ cmd.goal.c[t] \in Maybe
  BY EntryParts, Constants DEF TypeOK
<1>1. CASE disk' = disk
  BY <1>0, <1>1, Untouched
<1>2. CASE ParentOk(disk, t) /\ disk' = PutStub(disk, t, cmd.goal.c[t])
  <2>1. disk' \in Disks /\ disk'.real = disk.real
    BY <1>0, <1>2, PutStubDisk
  <2> QED  BY <2>1, Untouched
<1>3. CASE CanPutReal(disk, t) /\ disk' = PutReal(disk, t, cmd.goal.c[t]) /\ MayLose("clone", Exists(disk, t))
  <2>1. Spared(t)
    BY <1>0, <1>3, DiskParts DEF Spared, MayLose, Way, Exists
  <2> QED  BY <1>0, <1>3, <2>1, FileWritten
<1> QED  BY <1>1, <1>2, <1>3 DEF ClonePutBlob, Fail, Abort

\* A clone replaces files only where it says so.
LEMMA CloneCareful ==
    ASSUME TypeOK, PlaceInv, CloneInv, Clone
    PROVE  Careful
<1>0. disk \in Disks /\ cmd.goal \in Entries
  BY DEF TypeOK
<1>1. CASE disk' = disk
  BY <1>0, <1>1, Untouched
<1>2. CASE CloneEntry
  <2>0. cmd.name = "clone" /\ cmd.pc = "entry"
    BY <1>2 DEF CloneEntry, Running
  <2>1. PICK leads : CASE cmd.goal.kind = "absent" -> UNCHANGED disk /\ Goto("root") /\ Quiet
           [] cmd.goal.kind = "blob" -> ClonePutBlob(P, "root", leads)
           [] cmd.goal.kind = "link" -> ClonePutLink
           [] cmd.goal.kind = "tree" -> ClonePutTree(leads)
    BY <1>2 DEF CloneEntry
  <2>2. CASE cmd.goal.kind = "absent"
    BY <1>1, <2>1, <2>2
  <2>3. CASE cmd.goal.kind = "blob"
    <3>1. ClonePutBlob(P, "root", leads) /\ cmd.goal.c[P] # None
      BY <1>0, <2>1, <2>3, EntryParts
    <3> QED  BY <2>0, <3>1, ClonePutBlobCareful, Constants
  <2>4. CASE cmd.goal.kind = "link" /\ disk' # disk
    <3>1. CanPutLink(disk) /\ disk' = PutLink(disk) /\ MayLose("clone", disk.kind \in {"file", "link"})
      BY <2>1, <2>4 DEF ClonePutLink, Fail, Abort
    <3>2. disk' \in Disks
      BY <1>0, <3>1, PutLinkDisk
    <3>3. ASSUME NEW t \in Paths PROVE Spared(t)
      <4>1. CASE disk.kind = "file"
        BY <2>0, <3>1, <4>1 DEF Spared, MayLose, Way
      <4>2. CASE disk.kind # "file"
        BY <1>0, <3>1, <4>2, DiskParts, Constants DEF Spared, CanPutLink, EmptyDir
      <4> QED  BY <4>1, <4>2
    <3> QED  BY <3>2, <3>3 DEF Careful
  <2>5. CASE cmd.goal.kind = "tree"
    <3>1. \/ disk' = disk
          \/ CanMakeDir(disk) /\ disk' \in {MakeDir(disk), PutDirStub(disk, Children(cmd.goal))}
      BY <2>1, <2>5 DEF ClonePutTree, Fail, Abort
    <3>2. CASE CanMakeDir(disk) /\ disk' = MakeDir(disk)
      BY <1>0, <3>2, MakeDirDisk, Untouched
    <3>3. CASE CanMakeDir(disk) /\ disk' = PutDirStub(disk, Children(cmd.goal))
      <4>1. disk' \in Disks /\ disk'.real = disk.real
        BY <1>0, <3>3, EntryParts, PutDirStubDisk DEF CanMakeDir
      <4> QED  BY <4>1, Untouched
    <3> QED  BY <1>1, <3>1, <3>2, <3>3
  <2> QED  BY <1>0, <1>1, <2>2, <2>3, <2>4, <2>5, EntryParts
<1>3. ASSUME NEW n \in Names, CloneChild(n)
      PROVE  Careful
  <2>1. n \in Paths /\ cmd.goal.c[n] # None /\ cmd.name = "clone" /\ cmd.pc = "children"
        /\ ClonePutBlob(n, "children", "nowhere")
    BY <1>3, Constants DEF CloneChild, CloneInv, Running
  <2> QED  BY <2>1, ClonePutBlobCareful
<1>4. (\E force \in BOOLEAN : CloneStart(force)) \/ CloneRoot => disk' = disk
  BY DEF CloneStart, CloneRoot
<1> QED  BY <1>1, <1>2, <1>3, <1>4 DEF Clone

----------------------------------------------------------------------------
(* Pull and reconcile_stubs.                                               *)

\* A failing step removes at most a marker.
LEMMA AbortCareful ==
    ASSUME TypeOK, Abort(disk) \/ Abort(DropStub(disk, P))
    PROVE  Careful
<1>0. disk \in Disks /\ P \in Paths
  BY Constants DEF TypeOK
<1>1. CASE Abort(disk)
  BY <1>0, <1>1, Untouched DEF Abort
<1>2. CASE Abort(DropStub(disk, P))
  <2>1. disk' \in Disks /\ disk'.real = disk.real
    BY <1>0, <1>2, DropStubDisk DEF Abort
  <2> QED  BY <2>1, Untouched
<1> QED  BY <1>1, <1>2

\* A link takes the place of a file, or of an empty directory.
LEMMA LinkCareful ==
    ASSUME TypeOK, CanPutLink(DropStub(disk, P)), disk' = PutLink(DropStub(disk, P)), Spared(P)
    PROVE  Careful
<1> DEFINE d == DropStub(disk, P)
<1>0. disk \in Disks /\ P \in Paths
  BY Constants DEF TypeOK
<1>1. d \in Disks /\ d.real = disk.real /\ d.kind = disk.kind
  BY <1>0, DropStubDisk
<1>2. CanPutLink(d) /\ disk' = PutLink(d)
  OBVIOUS
<1> HIDE DEF d
<1>3. disk' \in Disks /\ disk'.real = Nowhere
  BY <1>1, <1>2, PutLinkDisk
<1>4. \A n \in Names : d.real[n] = None
  BY <1>1, <1>2, DiskParts DEF CanPutLink, EmptyDir
<1> QED  BY <1>0, <1>1, <1>3, <1>4, OneFile, Constants

\* A file that is gone unless it was changed meanwhile is one of the roots'.
LEMMA Unchanged ==
    ASSUME TypeOK, PullInv, cmd.name = "pull", cmd.pc # "reconcile", NEW x \in Paths,
           cmd.plan[x] # "same", ~ChangedSinceScan(x)
    PROVE  Spared(x)
<1>0. disk \in Disks /\ cmd.seen \in Disks
  BY DEF TypeOK
<1>1. CASE disk.real[x] = None
  BY <1>1 DEF Spared
<1>2. CASE disk.real[x] # None
  <2>1. IsFile(disk, x) /\ Exists(disk, x)
    BY <1>0, <1>2, DiskParts, Constants DEF IsFile, Exists
  <2>2. IsFile(cmd.seen, x) /\ x \notin cmd.touched
    BY <2>1 DEF ChangedSinceScan
  <2> QED  BY <2>1, <2>2 DEF PullInv, Spared
<1> QED  BY <1>1, <1>2

\* A file is written only over the file that was expected.
LEMMA WriteFileCareful ==
    ASSUME TypeOK, PullInv, Running("pull", "writes"), NEW x \in Paths,
           cmd.plan[x] \in {"added", "modified"}, WriteFile(x)
    PROVE  Careful
<1>0. disk \in Disks /\ cmd.goal \in Entries /\ cmd.from \in Entries
      /\ cmd.name = "pull" /\ cmd.pc = "writes" /\ cmd.plan[x] # "same"
  BY DEF TypeOK, Running
<1>1. cmd.plan[x] = Diff(cmd.from, cmd.goal, TRUE)[x]
  BY <1>0 DEF PullInv
<1>2. cmd.goal.c[x] # None
  <2>1. CASE x = P
    BY <1>0, <1>1, <2>1, EntryParts DEF Diff, DiffAtP
  <2>2. CASE x # P
    BY <1>0, <1>1, <2>2, EntryParts DEF Diff, DiffAtChild
  <2> QED  BY <2>1, <2>2
<1>3. cmd.goal.c[x] \in Content
  BY <1>0, <1>2, EntryParts, Constants
<1>4. CASE Fail
  BY <1>4, AbortCareful DEF Fail
<1>5. CASE ~Fail
  <2> DEFINE c == cmd.goal.c[x]
  <2>1. ~ChangedSinceScan(x) /\ CanPutReal(disk, x) /\ disk' = DropStub(PutReal(disk, x, c), x)
    BY <1>5 DEF WriteFile
  <2>2. Spared(x)
    BY <1>0, <2>1, Unchanged
  <2>3. c \in Content
    BY <1>3
  <2> HIDE DEF c
  <2> QED  BY <1>0, <2>1, <2>2, <2>3, FileWritten
<1> QED  BY <1>4, <1>5

\* A stub takes the place of a file that was expected, or unverified.
LEMMA WriteStubCareful ==
    ASSUME TypeOK, PullInv, Running("pull", "writes"), NEW x \in Paths,
           cmd.plan[x] = "added", WriteStub(x)
    PROVE  Careful
<1>0. disk \in Disks /\ cmd.goal \in Entries /\ cmd.goal.c[x] \in Maybe
      /\ cmd.name = "pull" /\ cmd.pc = "writes" /\ cmd.plan[x] # "same"
  BY EntryParts DEF TypeOK, Running
<1>1. CASE Fail
  BY <1>1, AbortCareful DEF Fail
<1>2. CASE ~Fail
  <2> DEFINE c == cmd.goal.c[x]
             q == PutStub(disk, x, c)
  <2>1. /\ ParentOk(disk, x)
        /\ Exists(disk, x) => CanDropReal(disk, x)
        /\ disk' = IF Exists(disk, x) THEN DropReal(q, x) ELSE q
        /\ MayLose("unverified", Unverified(x))
    BY <1>2 DEF WriteStub
  <2>2. c \in Maybe /\ ParentOk(disk, x)
    BY <1>0, <2>1
  <2> HIDE DEF c
  <2>3. q \in Disks /\ q.real = disk.real /\ q.kind = IF x = P THEN disk.kind ELSE "dir"
    BY <1>0, <2>2, PutStubDisk
  <2> HIDE DEF q
  <2>4. CASE ~Exists(disk, x)
    BY <2>1, <2>3, <2>4, Untouched
  <2>5. CASE Exists(disk, x)
    <3>1. x = P => q.kind # "dir"
      BY <2>1, <2>3, <2>5 DEF CanDropReal
    <3>2. disk' \in Disks /\ disk'.real = [disk.real EXCEPT ![x] = None]
      BY <2>1, <2>3, <2>5, <3>1, DropRealDisk
    <3>3. Spared(x)
      <4>1. CASE ChangedSinceScan(x)
        <5>1. "unverified" \in lost'
          BY <2>1, <2>5, <4>1 DEF MayLose, Unverified
        <5> QED  BY <1>0, <5>1 DEF Spared, Way
      <4>2. CASE ~ChangedSinceScan(x)
        BY <1>0, <4>2, Unchanged
      <4> QED  BY <4>1, <4>2
    <3>4. \A u \in Paths \ {x} : disk'.real[u] = disk.real[u]
      BY <1>0, <3>2, DiskParts
    <3> QED  BY <3>2, <3>3, <3>4, OneFile
  <2> QED  BY <2>4, <2>5
<1> QED  BY <1>1, <1>2

\* A whole directory arrives as a directory stub, or as files where Git would see one.
LEMMA WriteTreeDisk ==
    ASSUME TypeOK, WriteTree
    PROVE  /\ disk' \in Disks
           /\ \A t \in Paths : disk'.real[t] = IF git /\ t \in StubNames(Children(cmd.goal))
                                               THEN Children(cmd.goal)[t]
                                               ELSE IF t = P THEN None ELSE disk.real[t]
<1> DEFINE ch == Children(cmd.goal)
           r == IF disk.kind = "dir" THEN disk ELSE DropReal(disk, P)
           d == DropStub(r, P)
           q == IF git THEN [MakeDir(d) EXCEPT !.real = [t \in Paths |->
                              IF t \in StubNames(ch) THEN ch[t] ELSE @[t]]]
                ELSE PutDirStub(d, ch)
<1>0. disk \in Disks /\ cmd.goal \in Entries /\ P \in Paths /\ ch \in [Names -> Maybe]
  BY EntryParts, Constants DEF TypeOK
<1>1. disk' = q
  BY DEF WriteTree
<1> HIDE DEF ch
<1>2. /\ r \in Disks /\ r.kind \in {"absent", "dir"}
      /\ \A t \in Paths : r.real[t] = IF t = P THEN None ELSE disk.real[t]
  <2>1. CASE disk.kind = "dir"
    BY <1>0, <2>1, DiskParts
  <2>2. CASE disk.kind # "dir"
    <3>1. r = DropReal(disk, P)
      BY <2>2
    <3>2. r \in Disks /\ r.kind = "absent" /\ r.real = [disk.real EXCEPT ![P] = None]
      BY <1>0, <2>2, <3>1, DropRealDisk
    <3> QED  BY <1>0, <3>2, DiskParts
  <2> QED  BY <2>1, <2>2
<1> HIDE DEF r
<1>3. /\ d \in Disks /\ d.kind \in {"absent", "dir"} /\ d.real = r.real
  BY <1>0, <1>2, DropStubDisk
<1> HIDE DEF d
<1>4. q \in Disks /\ \A t \in Paths : q.real[t] = IF git /\ t \in StubNames(ch) THEN ch[t] ELSE d.real[t]
  <2>1. CASE git
    <3> DEFINE m == MakeDir(d)
               f == [t \in Paths |-> IF t \in StubNames(ch) THEN ch[t] ELSE m.real[t]]
    <3>1. m \in Disks /\ m.real = d.real /\ m.kind = "dir" /\ CanMakeDir(d)
      BY <1>3, MakeDirDisk DEF CanMakeDir
    <3>2. q = [m EXCEPT !.real = f]
      BY <2>1
    <3> HIDE DEF m, q
    <3>3. f \in [Paths -> Maybe] /\ f[P] = None
      BY <1>0, <3>1, DiskParts, Constants DEF StubNames
    <3>4. \A t \in Paths : f[t] = IF t \in StubNames(ch) THEN ch[t] ELSE d.real[t]
      BY <3>1
    <3> HIDE DEF f
    <3>5. q.real = f /\ q.kind = "dir" /\ q \in Disk
      BY <3>1, <3>2, <3>3 DEF Disks, Disk
    <3>6. WellFormed(q)
      BY <3>3, <3>5 DEF WellFormed
    <3> QED  BY <2>1, <3>4, <3>5, <3>6 DEF Disks
  <2>2. CASE ~git
    <3>1. q = PutDirStub(d, ch)
      BY <2>2
    <3> HIDE DEF q
    <3>2. q \in Disks /\ q.real = d.real
      BY <1>0, <1>3, <3>1, PutDirStubDisk
    <3> QED  BY <2>2, <3>2
  <2> QED  BY <2>1, <2>2
<1> HIDE DEF q
<1> QED  BY <1>1, <1>2, <1>3, <1>4 DEF ch

\* A whole directory replaces only what was expected, or unverified.
LEMMA WriteTreeCareful ==
    ASSUME TypeOK, PullInv, Running("pull", "writes"), cmd.plan[P] = "tree", WriteTree
    PROVE  Careful
<1> DEFINE ch == Children(cmd.goal)
<1>0. disk \in Disks /\ cmd.goal \in Entries /\ P \in Paths /\ cmd.plan[P] # "same"
      /\ cmd.name = "pull" /\ cmd.pc = "writes" /\ ch \in [Names -> Maybe]
  BY EntryParts, Constants DEF TypeOK, Running
<1>1. MayLose("unverified", Unverified(P) \/ (git /\ \E n \in StubNames(ch) : Replaces(n, ch[n])))
  BY DEF WriteTree
<1>4. /\ disk' \in Disks
      /\ \A t \in Paths : disk'.real[t] = IF git /\ t \in StubNames(ch) THEN ch[t]
                                          ELSE IF t = P THEN None ELSE disk.real[t]
  BY WriteTreeDisk
<1> HIDE DEF ch
<1>5. ASSUME NEW t \in Paths PROVE Spared(t)
  <2>1. CASE t = P
    <3>1. CASE ChangedSinceScan(P)
      <4>1. CASE disk.real[P] = None
        BY <2>1, <4>1 DEF Spared
      <4>2. CASE disk.real[P] # None
        <5>1. Unverified(P)
          BY <1>0, <3>1, <4>2, DiskParts DEF Unverified, Exists
        <5>2. "unverified" \in lost'
          BY <1>1, <5>1 DEF MayLose
        <5> QED  BY <1>0, <5>2 DEF Spared, Way
      <4> QED  BY <4>1, <4>2
    <3>2. CASE ~ChangedSinceScan(P)
      BY <1>0, <2>1, <3>2, Unchanged
    <3> QED  BY <3>1, <3>2
  <2>2. CASE t # P /\ ~(git /\ t \in StubNames(ch))
    BY <1>4, <2>2 DEF Spared
  <2>3. CASE t # P /\ git /\ t \in StubNames(ch)
    <3>1. CASE Replaces(t, ch[t])
      <4>1. "unverified" \in lost'
        BY <1>1, <2>3, <3>1 DEF MayLose
      <4> QED  BY <1>0, <4>1 DEF Spared, Way
    <3>2. CASE ~Replaces(t, ch[t])
      BY <1>4, <2>3, <3>2 DEF Spared, Replaces, Exists
    <3> QED  BY <3>1, <3>2
  <2> QED  BY <2>1, <2>2, <2>3
<1> QED  BY <1>4, <1>5 DEF Careful

\* A pull removes or replaces only what it saw, but for the known losses.
LEMMA PullCareful ==
    ASSUME TypeOK, PullInv, Pull
    PROVE  Careful
<1>0. disk \in Disks /\ cmd.goal \in Entries /\ P \in Paths
  BY Constants DEF TypeOK
<1>1. CASE disk' = disk
  BY <1>0, <1>1, Untouched
<1>2. PullStart \/ PullVerify \/ PullRoot => disk' = disk
  BY DEF PullStart, PullVerify, PullRoot
<1>3. CASE PullPrune
  <2>1. disk' = disk \/ (EmptyDir(disk) /\ disk' = DropDir(disk))
    BY <1>3 DEF PullPrune
  <2>2. CASE EmptyDir(disk) /\ disk' = DropDir(disk)
    <3>1. disk' = PruneDir(disk)
      BY <2>2 DEF PruneDir
    <3> QED  BY <1>0, <3>1, PruneDirDisk, Untouched
  <2> QED  BY <1>1, <2>1, <2>2
<1>4. ASSUME NEW x \in Paths, PullDelete(x), disk' # disk
      PROVE  Careful
  <2>1. /\ cmd.name = "pull" /\ cmd.pc = "deletes" /\ x \in cmd.todo /\ ~ChangedSinceScan(x)
        /\ CanDropReal(disk, x) /\ disk' = DropStub(DropReal(disk, x), x)
    BY <1>4 DEF PullDelete, Running, Fail, Abort
  <2>2. cmd.plan[x] = "deleted"
    BY <2>1 DEF PullInv, Planned
  <2>3. Spared(x)
    BY <2>1, <2>2, Unchanged
  <2> DEFINE q == DropReal(disk, x)
  <2>4. q \in Disks /\ q.real = [disk.real EXCEPT ![x] = None]
    BY <1>0, <2>1, DropRealDisk DEF CanDropReal
  <2>5. disk' = DropStub(q, x)
    BY <2>1
  <2> HIDE DEF q
  <2>6. DropStub(q, x) \in Disks /\ DropStub(q, x).real = q.real
    BY <2>4, DropStubDisk
  <2>7. disk' \in Disks /\ \A u \in Paths \ {x} : disk'.real[u] = disk.real[u]
    BY <1>0, <2>4, <2>5, <2>6, DiskParts
  <2> QED  BY <2>3, <2>7, OneFile
<1>5. ASSUME NEW x \in Paths, PullWrite(x), disk' # disk
      PROVE  Careful
  <2>0. Running("pull", "writes") /\ cmd.name = "pull" /\ cmd.pc = "writes"
    BY <1>5 DEF PullWrite, Running
  <2>1. \/ cmd.plan[x] = "added" /\ (WriteStub(x) \/ WriteFile(x))
        \/ cmd.plan[x] = "modified" /\ WriteModified(x)
        \/ cmd.plan[x] = "emptydir" /\ WriteEmptyDir
        \/ cmd.plan[x] = "link" /\ WriteLink
        \/ cmd.plan[x] = "tree" /\ WriteTree
    BY <1>5 DEF PullWrite
  <2>2. CASE cmd.plan[x] = "added" /\ (WriteStub(x) \/ WriteFile(x))
    BY <2>0, <2>2, WriteStubCareful, WriteFileCareful
  <2>3. CASE cmd.plan[x] = "modified" /\ WriteModified(x)
    <3>1. CASE disk' = PutStub(disk, x, cmd.goal.c[x]) /\ ~WriteFile(x)
      <4> DEFINE c == cmd.goal.c[x]
      <4>1. ~Exists(disk, x) /\ disk.stub[x] # None /\ c \in Maybe
        BY <1>0, <2>3, <3>1, EntryParts DEF WriteModified
      <4>2. ParentOk(disk, x)
        BY <1>0, <4>1, DiskParts, Constants DEF ParentOk
      <4>3. disk' = PutStub(disk, x, c)
        BY <3>1
      <4> HIDE DEF c
      <4>4. PutStub(disk, x, c) \in Disks /\ PutStub(disk, x, c).real = disk.real
        BY <1>0, <4>1, <4>2, PutStubDisk
      <4> QED  BY <4>3, <4>4, Untouched
    <3>2. CASE WriteFile(x)
      BY <2>0, <2>3, <3>2, WriteFileCareful
    <3> QED  BY <2>3, <3>1, <3>2 DEF WriteModified
  <2>4. CASE WriteEmptyDir
    BY <1>0, <1>1, <2>4, MakeDirDisk, Untouched DEF WriteEmptyDir, Fail, Abort
  <2>5. CASE cmd.plan[x] = "link" /\ WriteLink
    <3>1. CASE Abort(DropStub(disk, P))
      BY <3>1, AbortCareful
    <3>2. CASE ~Abort(DropStub(disk, P))
      <4>1. ~ChangedSinceScan(P) /\ CanPutLink(DropStub(disk, P)) /\ disk' = PutLink(DropStub(disk, P))
        BY <2>5, <3>2 DEF WriteLink
      <4>2. cmd.plan[P] # "same"
        <5>1. cmd.from \in Entries /\ cmd.plan = Diff(cmd.from, cmd.goal, TRUE)
          BY <2>0 DEF TypeOK, PullInv
        <5>2. x = P
          BY <2>5, <5>1, EntryParts DEF Diff, DiffAtChild
        <5> QED  BY <2>5, <5>2
      <4>3. Spared(P)
        BY <1>0, <2>0, <4>1, <4>2, Unchanged
      <4> QED  BY <4>1, <4>3, LinkCareful
    <3> QED  BY <3>1, <3>2
  <2>6. CASE cmd.plan[x] = "tree" /\ WriteTree
    <3>1. cmd.from \in Entries /\ cmd.plan = Diff(cmd.from, cmd.goal, TRUE)
      BY <2>0 DEF TypeOK, PullInv
    <3>2. x = P
      BY <2>6, <3>1, EntryParts DEF Diff, DiffAtChild
    <3> QED  BY <2>0, <2>6, <3>2, WriteTreeCareful
  <2> QED  BY <2>1, <2>2, <2>3, <2>4, <2>5, <2>6
<1> QED  BY <1>1, <1>2, <1>3, <1>4, <1>5 DEF Pull

\* The reconciliation replaces files only where it says so.
LEMMA ReconcileCareful ==
    ASSUME TypeOK, Reconcile
    PROVE  Careful
<1>0. disk \in Disks /\ cmd.goal \in Entries /\ P \in Paths /\ cmd.pc = "reconcile"
  BY Constants DEF TypeOK, Reconcile, Reconciling
<1>w. Way = "reconcile"
  BY <1>0 DEF Way
<1>1. CASE disk' = disk
  BY <1>0, <1>1, Untouched
<1>2. CASE ReconcileFileStub
  <2> DEFINE d == DropStub(disk, P)
  <2>1. d \in Disks /\ d.real = disk.real /\ d.kind = disk.kind
    BY <1>0, DropStubDisk
  <2>2. CASE disk' = d
    BY <2>1, <2>2, Untouched
  <2>3. CASE disk' = PutStub(disk, P, cmd.goal.c[P])
    <3> DEFINE c == cmd.goal.c[P]
    <3>1. c \in Maybe /\ ParentOk(disk, P) /\ disk' = PutStub(disk, P, c)
      BY <1>0, <2>3, EntryParts DEF ParentOk
    <3> HIDE DEF c
    <3>2. PutStub(disk, P, c) \in Disks /\ PutStub(disk, P, c).real = disk.real
      BY <1>0, <3>1, PutStubDisk
    <3> QED  BY <3>1, <3>2, Untouched
  <2>4. CASE CanMakeDir(d) /\ disk' = PutDirStub(d, Children(cmd.goal))
    <3> HIDE DEF d
    <3>1. PutDirStub(d, Children(cmd.goal)) \in Disks /\ PutDirStub(d, Children(cmd.goal)).real = d.real
      BY <1>0, <2>1, <2>4, EntryParts, PutDirStubDisk DEF CanMakeDir
    <3> QED  BY <2>1, <2>4, <3>1, Untouched
  <2>5. CASE CanPutLink(d) /\ disk' = PutLink(d) /\ MayLose("reconcile", d.kind = "file")
    <3>1. Spared(P)
      <4>1. CASE d.kind = "file"
        <5>1. "reconcile" \in lost'
          BY <2>5, <4>1 DEF MayLose
        <5> QED  BY <1>w, <5>1 DEF Spared
      <4>2. CASE d.kind # "file"
        BY <1>0, <2>1, <4>2, DiskParts DEF Spared
      <4> QED  BY <4>1, <4>2
    <3> QED  BY <2>5, <3>1, LinkCareful
  <2>6. cmd.goal.kind \in {"absent", "blob", "tree", "link"}
    BY <1>0, EntryParts
  <2>7. disk' = d \/ disk' = PutStub(disk, P, cmd.goal.c[P])
        \/ (CanMakeDir(d) /\ disk' = PutDirStub(d, Children(cmd.goal)))
        \/ (CanPutLink(d) /\ disk' = PutLink(d) /\ MayLose("reconcile", d.kind = "file"))
    BY <1>2, <2>6 DEF ReconcileFileStub, Abort
  <2> QED  BY <2>2, <2>3, <2>4, <2>5, <2>7
<1>3. CASE ReconcileDirStub
  <2> DEFINE d == [disk EXCEPT !.dirstub = None]
             e == cmd.goal
  <2>1. d \in Disks /\ d.real = disk.real /\ d.kind = disk.kind
    BY <1>0, DropDirStubDisk
  <2>2. cmd.goal.kind \in {"absent", "blob", "tree", "link"} /\ Children(e) \in [Names -> Maybe]
        /\ e.c[P] \in Maybe
    BY <1>0, EntryParts
  <2>3. CASE disk' # disk
    <3>1. disk.kind \in {"absent", "dir"}
      BY <1>3, <2>3, Constants DEF ReconcileDirStub, Fail, Abort, ParentOk
    <3>2. \/ disk' = PruneDir(d) \/ disk' = PutDirStub(disk, Children(e))
          \/ /\ disk' = PutStub(DropDir(d), P, e.c[P]) \/ disk' = PutLink(DropDir(d))
             /\ MayLose("reconcile", \E n \in Names : d.real[n] # None)
      BY <1>3, <2>2, <2>3 DEF ReconcileDirStub, Fail, Abort
    <3> HIDE DEF d, e
    <3>3. CASE disk' = PruneDir(d)
      BY <2>1, <3>3, PruneDirDisk, Untouched
    <3>4. CASE disk' = PutDirStub(disk, Children(e))
      <4>1. PutDirStub(disk, Children(e)) \in Disks /\ PutDirStub(disk, Children(e)).real = disk.real
        BY <1>0, <2>2, <3>1, PutDirStubDisk
      <4> QED  BY <3>4, <4>1, Untouched
    <3>5. CASE /\ disk' = PutStub(DropDir(d), P, e.c[P]) \/ disk' = PutLink(DropDir(d))
               /\ MayLose("reconcile", \E n \in Names : d.real[n] # None)
      <4> DEFINE m == DropDir(d)
                 c == e.c[P]
      <4>1. m \in Disks /\ c \in Maybe /\ ParentOk(m, P)
        BY <2>1, <2>2, DropDirDisk DEF ParentOk
      <4> HIDE DEF m, c
      <4>2. PutStub(m, P, c) \in Disks /\ PutLink(m) \in Disks
        BY <1>0, <4>1, PutStubDisk, PutLinkDisk
      <4>3. disk' \in Disks
        BY <3>5, <4>2 DEF m, c
      <4>4. ASSUME NEW t \in Paths PROVE Spared(t)
        <5>1. CASE \E n \in Names : d.real[n] # None
          <6>1. "reconcile" \in lost'
            BY <3>5, <5>1 DEF MayLose
          <6> QED  BY <1>w, <6>1 DEF Spared
        <5>2. CASE ~\E n \in Names : d.real[n] # None
          <6>1. disk.real[t] = None
            BY <1>0, <2>1, <3>1, <5>2, DiskParts, Constants
          <6> QED  BY <6>1 DEF Spared
        <5> QED  BY <5>1, <5>2
      <4> QED  BY <4>3, <4>4 DEF Careful
    <3> QED  BY <3>2, <3>3, <3>4, <3>5
  <2> QED  BY <1>1, <2>3
<1>4. ASSUME NEW n \in Names, ReconcileChildStub(n), disk' # disk
      PROVE  Careful
  <2> DEFINE c == cmd.goal.c[n]
  <2>1. ParentOk(disk, n) /\ n \in Paths /\ c \in Maybe
        /\ (disk' = DropStub(disk, n) \/ disk' = PutStub(disk, n, c))
    BY <1>0, <1>4, Constants, EntryParts DEF ReconcileChildStub, Fail, Abort
  <2> HIDE DEF c
  <2>2. /\ DropStub(disk, n) \in Disks /\ DropStub(disk, n).real = disk.real
    BY <1>0, <2>1, DropStubDisk
  <2>3. PutStub(disk, n, c) \in Disks /\ PutStub(disk, n, c).real = disk.real
    BY <1>0, <2>1, PutStubDisk
  <2> QED  BY <2>1, <2>2, <2>3, Untouched
<1> QED  BY <1>1, <1>2, <1>3, <1>4 DEF Reconcile

----------------------------------------------------------------------------
(* Restore and the user.                                                   *)

\* Every action of a plan is about a path, and writes only what clone_root has.
Acts == {"blob", "link", "absent", "file", "added_dir", "ensure_dir", "orphan_stub",
         "stub_to_blob", "dirstub_to_tree", "dirstub_to_blob", "stub_to_tree"}
WellPlanned(e, act) ==
    \E a \in Acts, t \in Paths :
      /\ act = <<a, t>>
      /\ a \in {"blob", "stub_to_blob", "dirstub_to_blob"} => e.c[t] # None

\* The plan for a file.
LEMMA BlobPlanned ==
    ASSUME NEW d, NEW e, NEW t \in Paths, e.c[t] # None, NEW act \in PlanBlob(d, t, e.c[t])
    PROVE  WellPlanned(e, act)
  BY DEF PlanBlob, WellPlanned, Acts

\* The plan for what clone_root lacks.
LEMMA AddedPlanned ==
    ASSUME NEW d, NEW e, NEW act \in PlanAdded(d, e)
    PROVE  WellPlanned(e, act)
  BY Constants DEF PlanAdded, WellPlanned, Acts

\* The plan of a restore.
LEMMA PlanShape ==
    ASSUME NEW d \in Disks, NEW e \in Entries, NEW scope, NEW act \in RestorePlan(d, e, scope)
    PROVE  WellPlanned(e, act)
<1> USE Constants
<1>1. CASE scope \in Names
  <2>1. CASE e.c[scope] # None
    BY <1>1, <2>1, BlobPlanned DEF RestorePlan
  <2>2. CASE e.c[scope] = None
    BY <1>1, <2>2 DEF RestorePlan, WellPlanned, Acts
  <2> QED  BY <2>1, <2>2
<1>2. CASE scope \notin Names /\ e.kind = "blob"
  <2>1. act \in PlanBlob(d, P, e.c[P]) /\ e.c[P] # None
    BY <1>2, EntryParts DEF RestorePlan
  <2> QED  BY <2>1, BlobPlanned
<1>3. CASE scope \notin Names /\ e.kind = "link"
  BY <1>3 DEF RestorePlan, PlanLink, WellPlanned, Acts
<1>4. CASE scope \notin Names /\ e.kind = "tree"
  <2>1. act \in PlanTree(d, e) \/ act \in PlanAdded(d, e)
    BY <1>4 DEF RestorePlan
  <2>2. CASE act \in PlanAdded(d, e)
    BY <2>2, AddedPlanned
  <2>3. CASE act \in PlanTree(d, e)
    <3>1. \/ act \in {<<"dirstub_to_tree", P>>, <<"stub_to_tree", P>>, <<"ensure_dir", P>>}
          \/ act \in PlanAdded(d, e)
          \/ \E n \in StubNames(Children(e)) : act \in PlanBlob(d, n, e.c[n])
      <4> DEFINE B == UNION {PlanBlob(d, n, e.c[n]) : n \in StubNames(Children(e))}
      <4>1. act \in B => \E n \in StubNames(Children(e)) : act \in PlanBlob(d, n, e.c[n])
        OBVIOUS
      <4>2. act \in {<<"dirstub_to_tree", P>>, <<"stub_to_tree", P>>, <<"ensure_dir", P>>}
                    \cup PlanAdded(d, e) \cup B
        <5> HIDE DEF B
        <5>1. PlanTree(d, e) \subseteq {<<"dirstub_to_tree", P>>, <<"stub_to_tree", P>>, <<"ensure_dir", P>>}
                                      \cup PlanAdded(d, e) \cup B
          BY DEF PlanTree, B
        <5> QED  BY <2>3, <5>1
      <4> QED  BY <4>1, <4>2
    <3>2. CASE act \in {<<"dirstub_to_tree", P>>, <<"stub_to_tree", P>>, <<"ensure_dir", P>>}
      BY <3>2 DEF WellPlanned, Acts
    <3>3. ASSUME NEW n \in StubNames(Children(e)), act \in PlanBlob(d, n, e.c[n])
          PROVE  WellPlanned(e, act)
      <4>1. n \in Names /\ Children(e)[n] # None
        BY DEF StubNames
      <4>2. n \in Paths /\ e.c[n] # None
        BY <4>1, EntryParts
      <4> QED  BY <3>3, <4>2, BlobPlanned
    <3> QED  BY <2>2, <3>1, <3>2, <3>3
  <2> QED  BY <2>1, <2>2, <2>3
<1>5. CASE scope \notin Names /\ e.kind = "absent"
  BY <1>5 DEF RestorePlan, WellPlanned, Acts
<1> QED  BY <1>1, <1>2, <1>3, <1>4, <1>5, EntryParts

\* DeleteAbsent leaves a disk.
LEMMA RemoveAbsentDisk ==
    ASSUME NEW d \in Disks, NEW t \in Paths
    PROVE  RemoveAbsent(d, t).after \in Disks
<1> DEFINE del == AbsentDeletesFile(d, t)
           d1 == IF del THEN DropStub(d, t) ELSE d
           d2 == IF del
                 THEN IF t = P /\ d.kind = "dir" THEN PruneDir(d1) ELSE DropReal(d1, t)
                 ELSE d1
           d3 == IF t = P /\ cmd.seen.dirstub # None
                 THEN PruneDir([d2 EXCEPT !.dirstub = None]) ELSE d2
<1>1. d1 \in Disks /\ d1.kind = d.kind
  BY DropStubDisk
<1>2. RemoveAbsent(d, t).after \in {d1, d3}
  BY DEF RemoveAbsent
<1> HIDE DEF d1, del
<1>3. d2 \in Disks
  <2>1. PruneDir(d1) \in Disks
    BY <1>1, PruneDirDisk
  <2>2. ~(t = P /\ d.kind = "dir") => DropReal(d1, t) \in Disks
    BY <1>1, DropRealDisk
  <2> QED  BY <1>1, <2>1, <2>2
<1> HIDE DEF d2
<1>4. d3 \in Disks
  <2>1. [d2 EXCEPT !.dirstub = None] \in Disks
    BY <1>3, DropDirStubDisk
  <2>2. PruneDir([d2 EXCEPT !.dirstub = None]) \in Disks
    BY <2>1, PruneDirDisk
  <2> QED  BY <1>3, <2>2
<1> HIDE DEF d3
<1> QED  BY <1>1, <1>2, <1>4

\* Every action of a restore leaves a disk.
LEMMA AppliedDisk ==
    ASSUME NEW d \in Disks, cr \in Entries, NEW a \in Acts, NEW t \in Paths,
           a \in {"blob", "stub_to_blob", "dirstub_to_blob"} => cr.c[t] # None
    PROVE  Applied(d, a, t).after \in Disks
<1>0. /\ P \in Paths /\ cr.c[t] \in Maybe /\ Children(cr) \in [Names -> Maybe] /\ cr.c[P] \in Maybe
      /\ cr.c[t] # None => cr.c[t] \in Content
  BY Constants, EntryParts
<1>1. CASE a = "blob"
  <2> DEFINE x == cr.c[t]
             q == PutReal(d, t, x)
  <2>1. x \in Content
    BY <1>0, <1>1
  <2>2. Applied(d, a, t).after \in {d, DropStub(q, t)} /\ (Applied(d, a, t).after # d => CanPutReal(d, t))
    BY <1>1 DEF Applied, WhenOk
  <2> HIDE DEF x
  <2>3. CanPutReal(d, t) => q \in Disks
    BY <2>1, PutRealDisk
  <2> HIDE DEF q
  <2>4. CanPutReal(d, t) => DropStub(q, t) \in Disks
    BY <2>3, DropStubDisk
  <2> QED  BY <2>2, <2>4
<1>2. CASE a = "link"
  <2> DEFINE s == DropStub(d, P)
             e == [s EXCEPT !.dirstub = None]
  <2>1. Applied(d, a, t).after \in {e, PutLink(e)}
    BY <1>2 DEF Applied, WhenOk
  <2>2. s \in Disks
    BY <1>0, DropStubDisk
  <2> HIDE DEF s
  <2>3. e \in Disks
    BY <2>2, DropDirStubDisk
  <2> HIDE DEF e
  <2>4. PutLink(e) \in Disks
    BY <2>3, PutLinkDisk
  <2> QED  BY <2>1, <2>3, <2>4
<1>3. CASE a = "absent"
  <2>1. Applied(d, a, t).after \in {d, RemoveAbsent(d, t).after}
    BY <1>3 DEF Applied, WhenOk
  <2> QED  BY <2>1, RemoveAbsentDisk
<1>4. CASE a = "file"
  <2> DEFINE q == DropReal(d, t)
  <2>1. Applied(d, a, t).after \in {d, DropStub(q, t)} /\ (Applied(d, a, t).after # d => CanDropReal(d, t))
    BY <1>4 DEF Applied, WhenOk
  <2>2. CanDropReal(d, t) => q \in Disks
    BY DropRealDisk DEF CanDropReal
  <2> HIDE DEF q
  <2>3. CanDropReal(d, t) => DropStub(q, t) \in Disks
    BY <2>2, DropStubDisk
  <2> QED  BY <2>1, <2>3
<1>5. CASE a = "added_dir" \/ a = "ensure_dir" \/ a = "orphan_stub"
  <2>1. /\ Applied(d, a, t).after \in {d, DropDir(d), MakeDir(d), DropStub(d, t)}
        /\ Applied(d, a, t).after \in {d, DropDir(d), DropStub(d, t)} \/ CanMakeDir(d)
    BY <1>5 DEF Applied, WhenOk
  <2>2. DropDir(d) \in Disks /\ DropStub(d, t) \in Disks
    BY DropDirDisk, DropStubDisk
  <2>3. CanMakeDir(d) => MakeDir(d) \in Disks
    BY MakeDirDisk
  <2> QED  BY <2>1, <2>2, <2>3
<1>6. CASE a = "stub_to_blob"
  <2> DEFINE x == cr.c[t]
  <2>1. Applied(d, a, t).after = d \/ (ParentOk(d, t) /\ Applied(d, a, t).after = PutStub(d, t, x))
    BY <1>6 DEF Applied, WhenOk
  <2>2. x \in Maybe
    BY <1>0
  <2> HIDE DEF x
  <2>3. ParentOk(d, t) => PutStub(d, t, x) \in Disks
    BY <2>2, PutStubDisk
  <2> QED  BY <2>1, <2>3
<1>7. CASE a = "dirstub_to_tree" \/ a = "stub_to_tree"
  <2> DEFINE e == IF a = "dirstub_to_tree" THEN d ELSE DropStub(d, P)
             ch == Children(cr)
  <2>1. \/ Applied(d, a, t).after = e
        \/ CanPutDirStub(e) /\ Applied(d, a, t).after = PutDirStub(e, ch)
    BY <1>7 DEF Applied, WhenOk
  <2>2. e \in Disks /\ ch \in [Names -> Maybe]
    BY <1>0, DropStubDisk
  <2> HIDE DEF e, ch
  <2> QED  BY <2>1, <2>2, PutDirStubDisk DEF CanPutDirStub
<1>8. CASE a = "dirstub_to_blob"
  <2> DEFINE m == DropDir(d)
             x == cr.c[P]
  <2>1. Applied(d, a, t).after \in {d, PutStub(m, P, x)}
    BY <1>8 DEF Applied, WhenOk
  <2>2. m \in Disks /\ x \in Maybe /\ ParentOk(m, P)
    BY <1>0, DropDirDisk DEF ParentOk
  <2> HIDE DEF m, x
  <2>3. PutStub(m, P, x) \in Disks
    BY <1>0, <2>2, PutStubDisk
  <2> QED  BY <2>1, <2>3
<1> QED  BY <1>1, <1>2, <1>3, <1>4, <1>5, <1>6, <1>7, <1>8 DEF Acts

\* A restore leaves a disk.
LEMMA RestoreDisk ==
    ASSUME TypeOK, RestoreInv, Restore
    PROVE  disk' \in Disks
<1>0. disk \in Disks /\ cr \in Entries /\ cmd.seen \in Disks
  BY DEF TypeOK
<1>1. CASE RestoreApply
  <2>1. PICK act \in cmd.todo : disk' = Applied(disk, act[1], act[2]).after /\ cmd.name = "restore"
    BY <1>1 DEF RestoreApply
  <2>2. WellPlanned(cr, act)
    BY <1>0, <2>1, PlanShape DEF RestoreInv
  <2>3. PICK a \in Acts, t \in Paths :
          act = <<a, t>> /\ (a \in {"blob", "stub_to_blob", "dirstub_to_blob"} => cr.c[t] # None)
    BY <2>2 DEF WellPlanned
  <2>4. Applied(disk, a, t).after \in Disks
    BY <1>0, <2>3, AppliedDisk
  <2> QED  BY <2>1, <2>3, <2>4
<1>2. (\E scope \in Paths \cup {Root} : RestoreStart(scope)) \/ RestoreEnd => disk' = disk
  BY DEF RestoreStart, RestoreEnd
<1> QED  BY <1>0, <1>1, <1>2 DEF Restore

\* The user leaves a disk, makes no stubs, and touches something.
LEMMA UserDisk ==
    ASSUME TypeOK, User
    PROVE  /\ disk' \in Disks /\ UserEdits(disk') /\ Listed(disk') \subseteq Listed(disk)
           /\ Touched(disk, disk') # {}
<1>0. disk \in Disks /\ P \in Paths
  BY Constants DEF TypeOK
<1> DEFINE Goal == /\ disk' \in Disks /\ UserEdits(disk') /\ Listed(disk') \subseteq Listed(disk)
                   /\ Touched(disk, disk') # {}
<1>1. ASSUME NEW t \in Paths, NEW x \in Content, CanPutReal(disk, t), UserEdits(PutReal(disk, t, x))
      PROVE  Goal
  <2> DEFINE q == PutReal(disk, t, x)
  <2>1. /\ q \in Disks /\ q.real = [disk.real EXCEPT ![t] = x] /\ q.stub = disk.stub
        /\ q.dirstub = disk.dirstub /\ q.kind = IF t = P THEN "file" ELSE "dir"
    BY <1>0, <1>1, PutRealDisk
  <2>2. disk' = q /\ UserEdits(q) /\ q # disk
    BY <1>1 DEF UserEdits
  <2> HIDE DEF q
  <2>3. Listed(q) = Listed(disk)
    BY <2>1 DEF Listed
  <2>4. q.real[t] # disk.real[t] \/ q.kind # disk.kind
    <3>1. ASSUME q.real[t] = disk.real[t], q.kind = disk.kind PROVE FALSE
      <4>1. q.real = disk.real
        BY <1>0, <2>1, <3>1, DiskParts
      <4> QED  BY <1>0, <2>1, <2>2, <3>1, <4>1 DEF Disks, Disk
    <3> QED  BY <3>1
  <2>5. Touched(disk, q) # {}
    <3>1. CASE q.real[t] # disk.real[t]
      BY <3>1 DEF Touched
    <3>2. CASE q.kind # disk.kind
      BY <1>0, <3>2 DEF Touched
    <3> QED  BY <2>4, <3>1, <3>2
  <2> QED  BY <2>1, <2>2, <2>3, <2>5
<1>2. ASSUME NEW t \in Paths, Exists(disk, t), CanDropReal(disk, t), UserEdits(DropReal(disk, t))
      PROVE  Goal
  <2> DEFINE q == DropReal(disk, t)
  <2>1. /\ q \in Disks /\ q.real = [disk.real EXCEPT ![t] = None] /\ q.stub = disk.stub
        /\ q.dirstub = disk.dirstub /\ q.kind = IF t = P THEN "absent" ELSE disk.kind
    BY <1>0, <1>2, DropRealDisk DEF CanDropReal
  <2>2. disk' = q /\ UserEdits(q)
    BY <1>2 DEF UserEdits
  <2> HIDE DEF q
  <2>3. Listed(q) = Listed(disk)
    BY <2>1 DEF Listed
  <2>4. q.real[t] # disk.real[t] \/ (t = P /\ q.kind # disk.kind)
    BY <1>0, <1>2, <2>1, DiskParts DEF Exists
  <2>5. t \in Touched(disk, q)
    BY <2>4 DEF Touched
  <2> QED  BY <2>1, <2>2, <2>3, <2>5
<1>3. ASSUME NEW t \in Paths, disk.stub[t] # None, UserEdits(DropStub(disk, t))
      PROVE  Goal
  <2> DEFINE q == DropStub(disk, t)
  <2>1. /\ q \in Disks /\ q.stub = [disk.stub EXCEPT ![t] = None] /\ q.dirstub = disk.dirstub
    BY <1>0, DropStubDisk
  <2>2. disk' = q /\ UserEdits(q)
    BY <1>3 DEF UserEdits
  <2> HIDE DEF q
  <2>3. Listed(q) \subseteq Listed(disk)
    BY <1>0, <2>1, DiskParts DEF Listed
  <2>4. q.stub[t] # disk.stub[t]
    BY <1>0, <1>3, <2>1, DiskParts
  <2>5. t \in Touched(disk, q)
    BY <2>4 DEF Touched
  <2> QED  BY <2>1, <2>2, <2>3, <2>5
<1>4. ASSUME disk.kind = "dir", UserEdits(DropDir(disk))
      PROVE  Goal
  <2> DEFINE q == DropDir(disk)
  <2>1. /\ q \in Disks /\ q.stub = [Nowhere EXCEPT ![P] = disk.stub[P]] /\ q.dirstub = None
        /\ q.kind = "absent"
    BY <1>0, DropDirDisk
  <2>2. disk' = q /\ UserEdits(q)
    BY <1>4 DEF UserEdits
  <2> HIDE DEF q
  <2>3. Listed(q) \subseteq Listed(disk)
    BY <1>0, <2>1, Constants DEF Listed
  <2>5. P \in Touched(disk, q)
    BY <1>0, <1>4, <2>1 DEF Touched
  <2> QED  BY <2>1, <2>2, <2>3, <2>5
<1>5. ASSUME disk.kind = "absent", UserEdits(MakeDir(disk))
      PROVE  Goal
  <2> DEFINE q == MakeDir(disk)
  <2>1. /\ q \in Disks /\ q.stub = disk.stub /\ q.dirstub = disk.dirstub /\ q.kind = "dir"
    BY <1>0, <1>5, MakeDirDisk DEF CanMakeDir
  <2>2. disk' = q /\ UserEdits(q)
    BY <1>5 DEF UserEdits
  <2> HIDE DEF q
  <2>3. Listed(q) = Listed(disk)
    BY <2>1 DEF Listed
  <2>5. P \in Touched(disk, q)
    BY <1>0, <1>5, <2>1 DEF Touched
  <2> QED  BY <2>1, <2>2, <2>3, <2>5
<1>6. CASE UserWrite
  <2>1. PICK t \in Paths, x \in Content : CanPutReal(disk, t) /\ UserEdits(PutReal(disk, t, x))
    BY <1>6 DEF UserWrite
  <2> QED  BY <1>1, <2>1
<1>7. CASE UserRemove
  <2>1. PICK t \in Paths :
          \/ Exists(disk, t) /\ CanDropReal(disk, t) /\ UserEdits(DropReal(disk, t))
          \/ disk.stub[t] # None /\ UserEdits(DropStub(disk, t))
          \/ disk.kind = "dir" /\ UserEdits(DropDir(disk))
    BY <1>7 DEF UserRemove
  <2>2. CASE Exists(disk, t) /\ CanDropReal(disk, t) /\ UserEdits(DropReal(disk, t))
    BY <1>2, <2>2
  <2>3. CASE disk.stub[t] # None /\ UserEdits(DropStub(disk, t))
    BY <1>3, <2>3
  <2>4. CASE disk.kind = "dir" /\ UserEdits(DropDir(disk))
    BY <1>4, <2>4
  <2> QED  BY <2>1, <2>2, <2>3, <2>4
<1>8. CASE UserMakeDir
  BY <1>5, <1>8 DEF UserMakeDir
<1> QED  BY <1>6, <1>7, <1>8 DEF User

\* Every step leaves a disk a file system can hold.
LEMMA DiskStep ==
    ASSUME IInv, Next
    PROVE  disk' \in Disks
<1>0. disk \in Disks
  BY DEF IInv, TypeOK
<1>1. CASE Clone \/ Stub \/ Expand \/ Pull \/ Reconcile
  BY <1>1, CloneCareful, StubCareful, ExpandCareful, PullCareful, ReconcileCareful DEF IInv, Careful
<1>2. CASE Push \/ SyncEnd \/ OtherPublishes \/ Crash
  BY <1>0, <1>2 DEF Push, PushStart, PushPublish, PushRoot, SyncEnd, OtherPublishes, Crash, Abort
<1>3. CASE Restore
  BY <1>3, RestoreDisk DEF IInv
<1>4. CASE User
  BY <1>4, UserDisk DEF IInv
<1> QED  BY <1>1, <1>2, <1>3, <1>4 DEF Next

----------------------------------------------------------------------------
(* The progress of a command.                                              *)

CmdOK(c) ==
    c \in [name : {"idle", "clone", "stub", "expand", "pull", "push", "restore"},
           pc : Places, at : Paths \cup {Root}, todo : {c.todo}, seen : Disks,
           goal : Entries, plan : [Paths -> Changes], removed : SUBSET Paths,
           from : Entries, touched : SUBSET Paths]

\* With no command running there is no progress.
LEMMA IdleOK ==
    /\ CmdOK(Idle) /\ Idle.name = "idle" /\ Idle.todo = {} /\ Idle.touched = {}
    /\ EmptyDisk \in Disks /\ AbsentEntry \in Entries
<1>1. EmptyDisk \in Disks
  BY Constants DEF EmptyDisk, Disks, Disk, WellFormed
<1>2. AbsentEntry \in Entries
  BY Constants DEF AbsentEntry, Entries, Entry, WellFormedEntry
<1>3. Nowhere \in [Paths -> Changes]
  BY DEF Nowhere, Changes
<1> QED  BY <1>1, <1>2, <1>3 DEF Idle, CmdOK, Places

\* The ways in which a command advances.
LEMMA CmdUpdates ==
    ASSUME NEW c, CmdOK(c), NEW p \in Places, NEW td, NEW rm \in SUBSET Paths
    PROVE  /\ CmdOK([c EXCEPT !.pc = p]) /\ CmdOK([c EXCEPT !.todo = td])
           /\ CmdOK([c EXCEPT !.removed = rm]) /\ CmdOK([c EXCEPT !.touched = rm])
           /\ CmdOK([c EXCEPT !.pc = p, !.todo = td])
           /\ CmdOK([c EXCEPT !.pc = p, !.removed = rm])
           /\ CmdOK([c EXCEPT !.todo = td, !.removed = rm])
           /\ CmdOK([c EXCEPT !.pc = p, !.todo = td, !.removed = rm])
  BY DEF CmdOK

Known == PlaceInv /\ CloneInv /\ StubInv /\ ExpandInv /\ PullInv /\ RestoreInv

\* Stopping loses nothing that is known.
LEMMA StopKnown ==
    ASSUME cmd' = Idle
    PROVE  CmdOK(cmd') /\ Known'
  BY IdleOK DEF Known, PlaceInv, CloneInv, StubInv, ExpandInv, PullInv, RestoreInv

\* A command that stops does so by Abort or StopCmd.
LEMMA StoppedKnown ==
    ASSUME Fail \/ StopCmd \/ \E d : Abort(d)
    PROVE  CmdOK(cmd') /\ Known'
  BY StopKnown DEF Fail, Abort, StopCmd

\* With no command running, cmd is Idle.
LEMMA IdleCmd ==
    ASSUME PlaceInv, cmd.name = "idle"
    PROVE  cmd = Idle
  BY DEF PlaceInv

\* What is known while a stub runs.
LEMMA StubKnown ==
    ASSUME TypeOK, Known, Stub
    PROVE  CmdOK(cmd') /\ Known'
<1>0. disk \in Disks /\ cr \in Entries /\ cmd.seen \in Disks /\ CmdOK(cmd)
  BY DEF TypeOK, CmdOK
<1>1. ASSUME NEW t \in Paths, StubStart(t) PROVE CmdOK(cmd') /\ Known'
  <2>1. /\ cmd' = [Idle EXCEPT !.name = "stub", !.pc = "verify", !.at = t, !.seen = disk]
        /\ repo' = repo /\ repo = "rooted"
    BY <1>1 DEF StubStart, Quiet
  <2>2. CmdOK(cmd')
    BY <1>0, <2>1, IdleOK DEF CmdOK, Places
  <2>3. cmd'.name = "stub" /\ cmd'.pc = "verify" /\ cmd'.at = t /\ cmd'.todo = {}
    BY <2>1 DEF Idle
  <2> QED  BY <2>1, <2>2, <2>3 DEF Known, PlaceInv, CloneInv, StubInv, ExpandInv, PullInv, RestoreInv
<1>2. ASSUME NEW p \in {"mark", "check", "changed"}, Goto(p), cmd.name = "stub", Quiet,
             p \in {"mark", "check"} => StubInv'
      PROVE  CmdOK(cmd') /\ Known'
  <2>1. cmd' = [cmd EXCEPT !.pc = p] /\ repo' = repo
    BY <1>2 DEF Goto, Quiet
  <2>2. CmdOK(cmd')
    BY <1>0, <2>1, CmdUpdates DEF Places
  <2>3. cmd'.name = "stub" /\ cmd'.pc = p /\ cmd'.at = cmd.at /\ cmd'.todo = cmd.todo
    BY <1>0, <1>2, <2>1 DEF CmdOK
  <2>4. StubInv'
    BY <1>2, <2>3 DEF StubInv, Known
  <2> QED  BY <1>2, <2>1, <2>2, <2>3, <2>4 DEF Known, PlaceInv, CloneInv, ExpandInv, PullInv, RestoreInv
<1>3. CASE StubVerify
  <2>1. CASE StubVerified
    <3>1. /\ cmd' = [cmd EXCEPT !.pc = "mark"] /\ disk' = disk /\ cr' = cr /\ cmd.name = "stub"
          /\ Goto("mark") /\ Quiet
      BY <1>3, <2>1 DEF StubVerify, Goto, Quiet, Running
    <3>2. cmd'.at = cmd.at /\ cmd'.seen = cmd.seen /\ cmd'.pc = "mark"
      BY <1>0, <3>1 DEF CmdOK
    <3>3. CASE WholeDir
      <4>1. ASSUME NEW n \in Names PROVE disk.real[n] \in {None, cr.c[n]}
        <5>1. Logical(disk) = cr
          BY <2>1, <3>3 DEF StubVerified
        <5>2. cr.c[n] = IF disk.kind = "dir" THEN ChildContent(disk, n) ELSE None
          BY <1>0, <5>1, LogicalEntry
        <5>3. disk.kind # "dir" => disk.real[n] = None
          BY <1>0, DiskParts
        <5> QED  BY <5>2, <5>3 DEF ChildContent
      <4>2. StubInv'
        BY <3>1, <3>2, <3>3, <4>1 DEF StubInv, WholeDir, Known
      <4> QED  BY <1>2, <3>1, <4>2
    <3>4. CASE ~WholeDir
      <4>1. disk.real[cmd.at] = cr.c[cmd.at]
        BY <2>1, <3>4 DEF StubVerified
      <4>2. StubInv'
        BY <3>1, <3>2, <3>4, <4>1 DEF StubInv, WholeDir, Known
      <4> QED  BY <1>2, <3>1, <4>2
    <3> QED  BY <3>3, <3>4
  <2>2. CASE ~StubVerified
    BY <1>3, <2>2, StoppedKnown DEF StubVerify
  <2> QED  BY <2>1, <2>2
<1>4. CASE StubMark
  <2>1. CASE StopCmd
    BY <2>1, StoppedKnown
  <2>2. CASE Goto("check")
    <3>0. cmd.at \in Paths /\ cr.c[cmd.at] \in Maybe /\ Children(cr) \in [Names -> Maybe]
      BY <1>0, <1>4, EntryParts DEF StubMark, Running, StubInv, Known
    <3>1. /\ cmd' = [cmd EXCEPT !.pc = "check"] /\ cr' = cr /\ cmd.name = "stub" /\ cmd.pc = "mark"
          /\ Quiet
      BY <1>4, <2>2 DEF StubMark, Goto, Quiet, Running
    <3>2. /\ cmd'.at = cmd.at /\ cmd'.seen = cmd.seen /\ cmd'.pc = "check"
          /\ cmd'.touched = cmd.touched
      BY <1>0, <3>1 DEF CmdOK
    <3>3. disk'.real = disk.real
      <4>1. CASE WholeDir
        <5>1. disk' = disk \/ (CanPutDirStub(disk) /\ disk' = PutDirStub(disk, Children(cr)))
          BY <1>4, <4>1 DEF StubMark
        <5> QED  BY <1>0, <3>0, <5>1, PutDirStubDisk DEF CanPutDirStub
      <4>2. CASE ~WholeDir
        <5> DEFINE x == cr.c[cmd.at]
                   a == cmd.at
        <5>1. disk' = disk \/ (ParentOk(disk, a) /\ disk' = PutStub(disk, a, x))
          BY <1>4, <4>2 DEF StubMark
        <5>2. x \in Maybe /\ a \in Paths
          BY <3>0
        <5> HIDE DEF x, a
        <5>3. ParentOk(disk, a) => PutStub(disk, a, x).real = disk.real
          BY <1>0, <5>2, PutStubDisk
        <5> QED  BY <5>1, <5>3
      <4> QED  BY <4>1, <4>2
    <3>4. StubInv'
      BY <3>1, <3>2, <3>3 DEF StubInv, WholeDir, Known
    <3> QED  BY <1>2, <2>2, <3>1, <3>4
  <2> QED  BY <1>4, <2>1, <2>2 DEF StubMark
<1>5. CASE StubCheck
  <2>1. CASE SnapshotHolds
    <3>1. /\ cmd' = [cmd EXCEPT !.pc = "delete"] /\ disk' = disk /\ cr' = cr /\ cmd.name = "stub"
          /\ cmd.pc = "check" /\ repo' = repo
      BY <1>5, <2>1 DEF StubCheck, Goto, Quiet, Running
    <3>2. /\ cmd'.at = cmd.at /\ cmd'.seen = cmd.seen /\ cmd'.pc = "delete" /\ cmd'.name = "stub"
          /\ cmd'.touched = cmd.touched /\ cmd'.todo = cmd.todo
      BY <1>0, <3>1 DEF CmdOK
    <3>3. StubInv'
      <4>1. WholeDir' <=> WholeDir
        BY <3>2 DEF WholeDir
      <4>2. CASE WholeDir
        BY <2>1, <3>1, <3>2, <4>1, <4>2 DEF StubInv, SnapshotHolds, Known
      <4>3. CASE ~WholeDir
        BY <2>1, <3>1, <3>2, <4>1, <4>3 DEF StubInv, SnapshotHolds, Known, IsFile
      <4> QED  BY <4>2, <4>3
    <3>4. CmdOK(cmd')
      BY <1>0, <3>1, CmdUpdates DEF Places
    <3> QED  BY <3>1, <3>2, <3>3, <3>4 DEF Known, PlaceInv, CloneInv, ExpandInv, PullInv, RestoreInv
  <2>2. CASE ~SnapshotHolds
    <3>1. Goto("changed") /\ Quiet /\ cmd.name = "stub"
      BY <1>5, <2>2 DEF StubCheck, Running
    <3> QED  BY <1>2, <3>1
  <2> QED  BY <2>1, <2>2
<1>6. CASE StubDelete
  <2>1. CASE StopCmd
    BY <2>1, StoppedKnown
  <2>2. CASE ~StopCmd
    <3>1. PICK n \in Names : disk' = DropReal(disk, n) \/ disk' = DropStub(disk, n)
      BY <1>6, <2>2 DEF StubDelete, InDir
    <3>2. WholeDir /\ cmd' = cmd /\ cr' = cr /\ repo' = repo /\ cmd.name = "stub" /\ cmd.pc = "delete"
      BY <1>6, <2>2 DEF StubDelete, Quiet, Running
    <3>3. n \in Paths /\ n # P
      BY Constants
    <3>4. disk'.real = disk.real \/ disk'.real = [disk.real EXCEPT ![n] = None]
      <4>1. DropReal(disk, n).real = [disk.real EXCEPT ![n] = None] /\ DropStub(disk, n).real = disk.real
        BY <1>0, <3>3, DropRealDisk, DropStubDisk
      <4> QED  BY <3>1, <4>1
    <3>5. \A m \in Names : disk'.real[m] \in {None, cr.c[m]}
      BY <1>0, <3>2, <3>4, DiskParts, Constants DEF Known, StubInv
    <3>6. StubInv'
      BY <3>2, <3>5 DEF StubInv, Known, WholeDir
    <3> QED  BY <1>0, <3>2, <3>6 DEF Known, PlaceInv, CloneInv, ExpandInv, PullInv, RestoreInv
  <2> QED  BY <2>1, <2>2
<1>7. CASE StubChanged
  BY <1>7, StoppedKnown DEF StubChanged
<1> QED  BY <1>1, <1>3, <1>4, <1>5, <1>6, <1>7 DEF Stub

\* What is known while a clone runs.
LEMMA CloneKnown ==
    ASSUME TypeOK, Known, Clone
    PROVE  CmdOK(cmd') /\ Known'
<1>0. disk \in Disks /\ remote \in Entries /\ cmd.goal \in Entries /\ CmdOK(cmd)
  BY DEF TypeOK, CmdOK
<1>1. ASSUME NEW force \in BOOLEAN, CloneStart(force) PROVE CmdOK(cmd') /\ Known'
  <2>1. /\ cmd' = [Idle EXCEPT !.name = "clone", !.pc = "entry", !.goal = remote,
                               !.at = IF force THEN P ELSE Root]
        /\ repo' = "init"
    BY <1>1 DEF CloneStart
  <2>2. CmdOK(cmd')
    <3> DEFINE a == IF force THEN P ELSE Root
    <3>1. a \in Paths \cup {Root}
      BY Constants
    <3>2. cmd' = [Idle EXCEPT !.name = "clone", !.pc = "entry", !.goal = remote, !.at = a]
      BY <2>1
    <3> HIDE DEF a
    <3> QED  BY <1>0, <3>1, <3>2, IdleOK DEF CmdOK, Places
  <2>3. cmd'.name = "clone" /\ cmd'.pc = "entry" /\ cmd'.todo = {}
    BY <2>1 DEF Idle
  <2> QED  BY <2>1, <2>2, <2>3 DEF Known, PlaceInv, CloneInv, StubInv, ExpandInv, PullInv, RestoreInv
<1>2. ASSUME NEW p \in {"children", "root"}, NEW td \in SUBSET (Paths \cup {DirStub}),
             cmd' = [cmd EXCEPT !.pc = p, !.todo = td] \/ (cmd' = [cmd EXCEPT !.pc = p] /\ td = cmd.todo),
             cmd.name = "clone", repo' = repo,
             p = "children" => td \subseteq {n \in Names : cmd.goal.c[n] # None}
      PROVE  CmdOK(cmd') /\ Known'
  <2>1. CmdOK(cmd')
    <3>1. p \in Places
      BY DEF Places
    <3>2. CmdOK([cmd EXCEPT !.pc = p, !.todo = td]) /\ CmdOK([cmd EXCEPT !.pc = p])
      BY <1>0, <3>1, CmdUpdates
    <3> QED  BY <1>2, <3>2
  <2>2. cmd'.name = "clone" /\ cmd'.pc = p /\ cmd'.goal = cmd.goal /\ cmd'.todo = td
    BY <1>0, <1>2 DEF CmdOK
  <2> QED  BY <1>2, <2>1, <2>2 DEF Known, PlaceInv, CloneInv, StubInv, ExpandInv, PullInv, RestoreInv
<1>3. ASSUME NEW t \in Paths, NEW p \in {"children", "root"}, NEW leads, ClonePutBlob(t, p, leads),
             cmd.name = "clone", p = "children" => cmd.pc = "children"
      PROVE  CmdOK(cmd') /\ Known'
  <2>1. CASE Fail
    BY <2>1, StoppedKnown
  <2>2. CASE cmd' = [cmd EXCEPT !.pc = p, !.todo = @ \ {t}] /\ repo' = repo
    <3>1. cmd' = [cmd EXCEPT !.pc = p, !.todo = cmd.todo \ {t}]
      BY <2>2
    <3>2. cmd.todo \ {t} \in SUBSET (Paths \cup {DirStub})
      BY <1>3 DEF Known, PlaceInv
    <3>3. p = "children" => cmd.todo \ {t} \subseteq {n \in Names : cmd.goal.c[n] # None}
      BY <1>3 DEF Known, CloneInv
    <3> QED  BY <1>2, <1>3, <2>2, <3>1, <3>2, <3>3
  <2> QED  BY <1>3, <2>1, <2>2 DEF ClonePutBlob, Quiet, MayLose
<1>4. CASE CloneEntry
  <2>0. cmd.name = "clone" /\ P \in Paths /\ cmd.todo \in SUBSET (Paths \cup {DirStub})
    BY <1>4, Constants DEF CloneEntry, Running, Known, PlaceInv
  <2>1. CASE Goto("root") /\ repo' = repo
    BY <1>2, <2>0, <2>1 DEF Goto
  <2>2. CASE Fail
    BY <2>2, StoppedKnown
  <2>3. PICK leads \in {"nowhere", "file", "dir"} :
          \/ Goto("root") /\ repo' = repo
          \/ ClonePutBlob(P, "root", leads) \/ ClonePutLink \/ ClonePutTree(leads)
    BY <1>0, <1>4, EntryParts DEF CloneEntry, Quiet
  <2>4. CASE ClonePutBlob(P, "root", leads)
    BY <1>3, <2>0, <2>4
  <2>5. CASE ClonePutLink
    BY <2>1, <2>2, <2>5 DEF ClonePutLink, MayLose
  <2>6. CASE ClonePutTree(leads)
    <3>1. CASE cmd' = [cmd EXCEPT !.pc = "children", !.todo = StubNames(Children(cmd.goal))] /\ repo' = repo
      <4>1. StubNames(Children(cmd.goal)) \subseteq {n \in Names : cmd.goal.c[n] # None}
        BY <1>0, EntryParts DEF StubNames
      <4>2. StubNames(Children(cmd.goal)) \in SUBSET (Paths \cup {DirStub})
        BY Constants DEF StubNames
      <4> QED  BY <1>2, <2>0, <3>1, <4>1, <4>2
    <3> QED  BY <2>1, <2>2, <2>6, <3>1 DEF ClonePutTree, Quiet
  <2> QED  BY <2>1, <2>3, <2>4, <2>5, <2>6
<1>5. ASSUME NEW n \in Names, CloneChild(n) PROVE CmdOK(cmd') /\ Known'
  BY <1>3, <1>5, Constants DEF CloneChild, Running
<1>6. CASE CloneRoot
  BY <1>6, StoppedKnown DEF CloneRoot
<1> QED  BY <1>1, <1>4, <1>5, <1>6 DEF Clone

\* What is known while an expansion runs.
LEMMA ExpandKnown ==
    ASSUME TypeOK, Known, Expand
    PROVE  CmdOK(cmd') /\ Known'
<1>0. disk \in Disks /\ cmd.seen \in Disks /\ CmdOK(cmd)
  BY DEF TypeOK, CmdOK
<1> DEFINE Own(s, td) == /\ td \in SUBSET (Paths \cup {DirStub})
                         /\ td \cap Paths \subseteq Recorded(s) \cup {t \in Paths : s.stub[t] # None}
                         /\ DirStub \in td => s.dirstub # None
<1>1. ASSUME cmd'.name = "expand", cmd'.pc \in {"items", "lower", "tree"}, repo' # "none",
             Own(cmd'.seen, cmd'.todo),
             cmd'.pc = "lower" => cmd'.todo \subseteq Recorded(cmd'.seen) /\ cmd'.seen.dirstub # None,
             cmd'.pc = "tree" => cmd'.removed \subseteq Recorded(cmd'.seen) /\ DirStub \in cmd'.todo
      PROVE  Known'
  BY <1>1 DEF Known, PlaceInv, CloneInv, StubInv, ExpandInv, PullInv, RestoreInv, Recorded
<1>2. ASSUME NEW scope \in Paths \cup {Root}, ExpandStart(scope) PROVE CmdOK(cmd') /\ Known'
  <2>1. PICK p \in {"items", "lower"}, t \in Paths \cup {Root},
             td \in {ToExpand(disk, scope), StubNames(disk.dirstub)} :
          /\ cmd' = [Idle EXCEPT !.name = "expand", !.pc = p, !.at = t, !.seen = disk, !.todo = td]
          /\ p = "items" => td = ToExpand(disk, scope)
          /\ p = "lower" => td = StubNames(disk.dirstub) /\ disk.dirstub # None
    BY <1>2 DEF ExpandStart
  <2>2. repo' # "none"
    BY <1>2 DEF ExpandStart, Quiet
  <2>3. CmdOK(cmd')
    BY <1>0, <2>1, IdleOK DEF CmdOK, Places
  <2>4. cmd'.name = "expand" /\ cmd'.pc = p /\ cmd'.seen = disk /\ cmd'.todo = td
    BY <2>1 DEF Idle
  <2>5. Own(disk, td)
    <3>1. CASE p = "items"
      BY <2>1, <3>1, Constants DEF ToExpand, Listed
    <3>2. CASE p = "lower"
      BY <2>1, <3>2, Constants DEF StubNames, Recorded
    <3> QED  BY <3>1, <3>2
  <2> HIDE DEF Own
  <2>6. p = "lower" => td \subseteq Recorded(disk)
    BY <2>1 DEF Recorded
  <2> QED  BY <1>1, <2>1, <2>2, <2>3, <2>4, <2>5, <2>6
<1>3. (Own(cmd.seen, cmd.todo) /\ repo # "none") \/ cmd.name # "expand"
  BY DEF Known, PlaceInv, ExpandInv
<1>4. ASSUME NEW x \in Paths \cup {DirStub}, cmd.name = "expand", Quiet \/ \E b : MayLose("expand", b),
             \/ cmd.pc \in {"lower", "items"} /\ x # DirStub /\ cmd' = [cmd EXCEPT !.todo = @ \ {x}]
             \/ cmd.pc = "tree" /\ cmd' = [cmd EXCEPT !.removed = @ \ {x}]
             \/ cmd.pc = "tree" /\ cmd' = [cmd EXCEPT !.pc = "items", !.todo = @ \ {x}]
      PROVE  CmdOK(cmd') /\ Known'
  <2>0. repo' = repo /\ repo # "none"
    BY <1>3, <1>4 DEF Quiet, MayLose
  <2>1. CASE cmd.pc \in {"lower", "items"} /\ cmd' = [cmd EXCEPT !.todo = cmd.todo \ {x}]
    <3>1. CmdOK(cmd')
      BY <1>0, <2>1, CmdUpdates DEF Places
    <3>2. cmd'.name = "expand" /\ cmd'.pc = cmd.pc /\ cmd'.seen = cmd.seen /\ cmd'.todo = cmd.todo \ {x}
      BY <1>0, <1>4, <2>1 DEF CmdOK
    <3>3. Own(cmd.seen, cmd.todo \ {x})
      BY <1>3, <1>4
    <3>4. cmd.pc = "lower" => cmd.todo \ {x} \subseteq Recorded(cmd.seen) /\ cmd.seen.dirstub # None
      BY <1>4 DEF Known, ExpandInv
    <3> HIDE DEF Own
    <3> QED  BY <1>1, <2>0, <2>1, <3>1, <3>2, <3>3, <3>4
  <2>2. CASE cmd.pc = "tree" /\ cmd' = [cmd EXCEPT !.removed = cmd.removed \ {x}]
    <3>1. CmdOK(cmd') /\ cmd.removed \in SUBSET Paths
      <4>1. cmd.removed \in SUBSET Paths
        BY <1>0 DEF CmdOK
      <4> QED  BY <1>0, <2>2, <4>1, CmdUpdates DEF Places
    <3>2. /\ cmd'.name = "expand" /\ cmd'.pc = cmd.pc /\ cmd'.seen = cmd.seen /\ cmd'.todo = cmd.todo
          /\ cmd'.removed = cmd.removed \ {x}
      BY <1>0, <1>4, <2>2 DEF CmdOK
    <3>3. Own(cmd.seen, cmd.todo)
      BY <1>3, <1>4
    <3>4. cmd.removed \ {x} \subseteq Recorded(cmd.seen) /\ DirStub \in cmd.todo
      BY <1>4, <2>2 DEF Known, ExpandInv
    <3> HIDE DEF Own
    <3> QED  BY <1>1, <2>0, <2>2, <3>1, <3>2, <3>3, <3>4
  <2>3. CASE cmd' = [cmd EXCEPT !.pc = "items", !.todo = cmd.todo \ {x}]
    <3>1. CmdOK(cmd')
      BY <1>0, <2>3, CmdUpdates DEF Places
    <3>2. cmd'.name = "expand" /\ cmd'.pc = "items" /\ cmd'.seen = cmd.seen /\ cmd'.todo = cmd.todo \ {x}
      BY <1>0, <1>4, <2>3 DEF CmdOK
    <3>3. Own(cmd.seen, cmd.todo \ {x})
      BY <1>3, <1>4
    <3> HIDE DEF Own
    <3> QED  BY <1>1, <2>0, <3>1, <3>2, <3>3
  <2> QED  BY <1>4, <2>1, <2>2, <2>3
<1>5. ASSUME NEW n \in Names, ExpandLower(n) PROVE CmdOK(cmd') /\ Known'
  <2>1. n \in Paths /\ n # DirStub
    BY Constants
  <2> QED  BY <1>4, <1>5, <2>1, StoppedKnown DEF ExpandLower, Running
<1>6. ASSUME NEW n \in Names, ExpandDirChild(n) PROVE CmdOK(cmd') /\ Known'
  <2>1. n \in Paths /\ n # DirStub
    BY Constants
  <2>2. cmd.name = "expand" /\ cmd.pc = "tree"
    BY <1>6 DEF ExpandDirChild, Running
  <2>3. CASE Fail
    BY <2>3, StoppedKnown
  <2>4. CASE cmd' = [cmd EXCEPT !.removed = @ \ {n}] /\ \E b : MayLose("expand", b)
    BY <1>4, <2>1, <2>2, <2>4
  <2> QED  BY <1>6, <2>3, <2>4 DEF ExpandDirChild
<1>7. ASSUME NEW t \in Paths, ExpandFile(t) PROVE CmdOK(cmd') /\ Known'
  <2>1. t # DirStub
    BY Constants
  <2>2. cmd.name = "expand" /\ cmd.pc = "items"
    BY <1>7 DEF ExpandFile, Running
  <2>3. CASE Fail
    BY <2>3, StoppedKnown
  <2>4. CASE cmd' = [cmd EXCEPT !.todo = @ \ {t}] /\ \E b : MayLose("expand", b)
    BY <1>4, <2>1, <2>2, <2>4
  <2> QED  BY <1>7, <2>3, <2>4 DEF ExpandFile
<1>8. CASE ExpandLowerEnd
  <2>1. CASE Fail
    BY <2>1, StoppedKnown
  <2>2. CASE ~Fail
    <3>1. PICK td : /\ \/ cmd' = [cmd EXCEPT !.pc = "items", !.todo = td]
                       \/ cmd' = [cmd EXCEPT !.pc = "items"] /\ td = cmd.todo
                    /\ td \subseteq StubNames(cmd.seen.dirstub)
      <4>1. CASE cmd.at \in StubNames(cmd.seen.dirstub) /\ disk'.stub[cmd.at] # None
        <5>1. /\ cmd' = [cmd EXCEPT !.pc = "items", !.todo = {cmd.at}]
              /\ {cmd.at} \subseteq StubNames(cmd.seen.dirstub)
          BY <1>8, <2>2, <4>1 DEF ExpandLowerEnd
        <5> QED  BY <5>1
      <4>2. CASE ~(cmd.at \in StubNames(cmd.seen.dirstub) /\ disk'.stub[cmd.at] # None)
        <5>1. cmd' = [cmd EXCEPT !.pc = "items"] /\ cmd.todo = {}
          BY <1>8, <2>2, <4>2 DEF ExpandLowerEnd
        <5> QED  BY <5>1
      <4> QED  BY <4>1, <4>2
    <3>2. cmd.name = "expand" /\ cmd.pc = "lower" /\ repo' = repo
      BY <1>8, <2>2 DEF ExpandLowerEnd, Running, Quiet
    <3>3. CmdOK(cmd')
      <4>1. "items" \in Places
        BY DEF Places
      <4>2. CmdOK([cmd EXCEPT !.pc = "items", !.todo = td]) /\ CmdOK([cmd EXCEPT !.pc = "items"])
        BY <1>0, <4>1, CmdUpdates
      <4> QED  BY <3>1, <4>2
    <3>4. cmd'.name = "expand" /\ cmd'.pc = "items" /\ cmd'.seen = cmd.seen /\ cmd'.todo = td
      BY <1>0, <3>1, <3>2 DEF CmdOK
    <3>5. Own(cmd.seen, td)
      BY <3>1, <3>2, Constants DEF Known, ExpandInv, Recorded, StubNames
    <3> HIDE DEF Own
    <3> QED  BY <1>1, <1>3, <3>2, <3>3, <3>4, <3>5
  <2> QED  BY <2>1, <2>2
<1>9. CASE ExpandDirStart
  <2>1. CASE Fail
    BY <2>1, StoppedKnown
  <2>2. CASE ~Fail
    <3> DEFINE rm == StubNames(cmd.seen.dirstub)
    <3>1. /\ cmd' = [cmd EXCEPT !.pc = "tree", !.removed = rm]
          /\ cmd.name = "expand" /\ repo' = repo /\ DirStub \in cmd.todo
      BY <1>9, <2>2 DEF ExpandDirStart, Running, Quiet
    <3>2. rm \in SUBSET Paths /\ rm \subseteq Recorded(cmd.seen)
      BY <3>1, Constants DEF Known, ExpandInv, Recorded, StubNames
    <3> HIDE DEF rm
    <3>3. CmdOK(cmd')
      BY <1>0, <3>1, <3>2, CmdUpdates DEF Places
    <3>4. /\ cmd'.name = "expand" /\ cmd'.pc = "tree" /\ cmd'.seen = cmd.seen /\ cmd'.todo = cmd.todo
          /\ cmd'.removed = rm
      BY <1>0, <3>1 DEF CmdOK
    <3> HIDE DEF Own
    <3> QED  BY <1>1, <1>3, <3>1, <3>2, <3>3, <3>4
  <2> QED  BY <2>1, <2>2
<1>10. CASE ExpandDirEnd
  BY <1>4, <1>10, StoppedKnown DEF ExpandDirEnd, Running
<1>11. CASE ExpandEnd
  BY <1>11, StoppedKnown DEF ExpandEnd
<1> QED  BY <1>2, <1>5, <1>6, <1>7, <1>8, <1>9, <1>10, <1>11 DEF Expand

\* A pull that finds no conflict saw, wherever it is to change a file, the
\* file of the clone root or already the one of the remote root.
LEMMA NoConflict ==
    ASSUME NEW d \in Disks, NEW b \in Entries, NEW r \in Entries, NEW x \in Paths,
           Conflicts(Diff(b, r, TRUE), Diff(b, Logical(d), FALSE), r, Logical(d)) = {},
           Diff(b, r, TRUE)[x] # "same", IsFile(d, x)
    PROVE  d.real[x] \in {b.c[x], r.c[x]}
<1> DEFINE l == Logical(d)
           rd == Diff(b, r, TRUE)
           ld == Diff(b, l, FALSE)
<1>0. d.real[x] # None
  BY IsFileReal
<1>1. l \in Entries /\ l.c[x] = d.real[x] /\ (x = P => l.kind = "blob")
  <2>1. CASE x = P
    <3>1. d.kind = "file"
      BY <2>1 DEF IsFile
    <3> QED  BY <2>1, <3>1, LogicalEntry
  <2>2. CASE x # P
    <3>1. x \in Names /\ d.kind = "dir"
      BY <1>0, <2>2, DiskParts, Constants
    <3>2. ChildContent(d, x) = d.real[x]
      BY <1>0 DEF ChildContent
    <3> QED  BY <2>2, <3>1, <3>2, LogicalEntry
  <2> QED  BY <2>1, <2>2
<1>2. rd[x] # "same" /\ x \notin Conflicts(rd, ld, r, l)
  OBVIOUS
<1> HIDE DEF l
<1>3. ld[x] = IF x = P THEN DiffAtP(b, l, FALSE) ELSE DiffAtChild(b, l, x)
  BY DEF Diff, AddedWhole
<1> HIDE DEF rd, ld
<1>4. CASE ld[x] = "same"
  <2>1. CASE x = P
    BY <1>1, <1>3, <1>4, <2>1 DEF DiffAtP
  <2>2. CASE x # P
    BY <1>1, <1>3, <1>4, <2>2 DEF DiffAtChild
  <2> QED  BY <2>1, <2>2
<1>5. CASE ld[x] # "same"
  <2>1. SameContent(rd, ld, r, l, x)
    BY <1>2, <1>5 DEF Conflicts
  <2>2. ld[x] \notin {"deleted", "emptydir", "link"}
    <3>1. CASE x = P
      BY <1>1, <1>3, <3>1 DEF DiffAtP
    <3>2. CASE x # P
      BY <1>0, <1>1, <1>3, <3>2 DEF DiffAtChild
    <3> QED  BY <3>1, <3>2
  <2> QED  BY <1>1, <2>1, <2>2 DEF SameContent
<1> QED  BY <1>4, <1>5

\* A pull writes only files of the root it works towards.
LEMMA PullKept ==
    ASSUME TypeOK, PullInv, Pull, cmd' # Idle
    PROVE  \A t \in Paths : disk'.real[t] \in {disk.real[t], None, cmd.goal.c[t]}
<1>0. disk \in Disks /\ cmd.goal \in Entries /\ P \in Paths /\ disk.real \in [Paths -> Maybe]
  BY DiskParts, Constants DEF TypeOK
<1>1. CASE disk' = disk
  BY <1>1
<1>2. PullStart \/ PullVerify \/ PullRoot => disk' = disk
  BY DEF PullStart, PullVerify, PullRoot
<1>3. CASE PullPrune
  <2>1. disk' = disk \/ disk' = DropDir(disk)
    BY <1>3 DEF PullPrune
  <2> QED  BY <1>0, <1>1, <2>1, DropDirDisk, Constants
<1>4. ASSUME NEW x \in Paths, PullDelete(x), disk' # disk
      PROVE  \A t \in Paths : disk'.real[t] \in {disk.real[t], None, cmd.goal.c[t]}
  <2> DEFINE q == DropReal(disk, x)
  <2>1. CanDropReal(disk, x) /\ disk' = DropStub(q, x)
    BY <1>4 DEF PullDelete, Fail, Abort
  <2>2. q \in Disks /\ q.real = [disk.real EXCEPT ![x] = None]
    BY <1>0, <2>1, DropRealDisk DEF CanDropReal
  <2> HIDE DEF q
  <2>3. DropStub(q, x).real = q.real
    BY <2>2, DropStubDisk
  <2> QED  BY <1>0, <2>1, <2>2, <2>3
<1>5. ASSUME NEW x \in Paths, PullWrite(x), disk' # disk
      PROVE  \A t \in Paths : disk'.real[t] \in {disk.real[t], None, cmd.goal.c[t]}
  <2> DEFINE c == cmd.goal.c[x]
             s == PutStub(disk, x, c)
             w == PutReal(disk, x, c)
  <2>0. c \in Maybe /\ ~Fail
    BY <1>0, EntryParts DEF Fail, Abort, StopCmd
  <2>1. \/ ParentOk(disk, x) /\ disk' = s
        \/ ParentOk(disk, x) /\ CanDropReal(disk, x) /\ disk' = DropReal(s, x)
        \/ disk.stub[x] # None /\ ~Exists(disk, x) /\ disk' = s
        \/ c # None /\ CanPutReal(disk, x) /\ disk' = DropStub(w, x)
        \/ CanMakeDir(disk) /\ disk' = MakeDir(disk)
        \/ disk' = PutLink(DropStub(disk, P))
        \/ WriteTree
    <3>0. cmd.plan[x] \in {"added", "modified"} => c # None
      <4>1. cmd.from \in Entries /\ cmd.plan[x] = Diff(cmd.from, cmd.goal, TRUE)[x]
        BY <1>5 DEF TypeOK, PullInv, PullWrite, Running
      <4>2. CASE x = P
        BY <1>0, <4>1, <4>2, EntryParts DEF Diff, DiffAtP
      <4>3. CASE x # P
        BY <1>0, <4>1, <4>3, EntryParts DEF Diff, DiffAtChild
      <4> QED  BY <4>2, <4>3
    <3>1. \/ cmd.plan[x] = "added" /\ (WriteStub(x) \/ WriteFile(x))
          \/ cmd.plan[x] = "modified" /\ WriteModified(x)
          \/ WriteEmptyDir \/ WriteLink \/ WriteTree
      BY <1>5 DEF PullWrite
    <3>2. CASE cmd.plan[x] = "added" /\ WriteStub(x)
      BY <2>0, <3>2 DEF WriteStub
    <3>3. CASE cmd.plan[x] \in {"added", "modified"} /\ WriteFile(x)
      BY <2>0, <3>0, <3>3 DEF WriteFile
    <3>4. CASE cmd.plan[x] = "modified" /\ WriteModified(x)
      BY <2>0, <3>3, <3>4 DEF WriteModified
    <3>5. CASE WriteEmptyDir
      BY <2>0, <3>5 DEF WriteEmptyDir
    <3>6. CASE WriteLink
      BY <3>6 DEF WriteLink, Abort, StopCmd
    <3> QED  BY <3>1, <3>2, <3>3, <3>4, <3>5, <3>6
  <2> HIDE DEF c
  <2>2. ParentOk(disk, x) => s \in Disks /\ s.real = disk.real /\ s.kind = IF x = P THEN disk.kind ELSE "dir"
    BY <1>0, <2>0, PutStubDisk
  <2>3. c # None /\ CanPutReal(disk, x) => w \in Disks /\ w.real = [disk.real EXCEPT ![x] = c]
    <3>1. c # None => c \in Content
      BY <2>0, Constants
    <3> QED  BY <1>0, <3>1, PutRealDisk
  <2> HIDE DEF s, w
  <2>4. CASE ParentOk(disk, x) /\ disk' = s
    BY <2>2, <2>4
  <2>5. CASE ParentOk(disk, x) /\ CanDropReal(disk, x) /\ disk' = DropReal(s, x)
    <3>1. DropReal(s, x).real = [disk.real EXCEPT ![x] = None]
      BY <2>2, <2>5, DropRealDisk DEF CanDropReal
    <3> QED  BY <1>0, <2>5, <3>1
  <2>6. CASE disk.stub[x] # None /\ ~Exists(disk, x) /\ disk' = s
    <3>1. ParentOk(disk, x)
      BY <1>0, <2>6, DiskParts, Constants DEF ParentOk
    <3> QED  BY <2>2, <2>6, <3>1
  <2>7. CASE c # None /\ CanPutReal(disk, x) /\ disk' = DropStub(w, x)
    <3>1. DropStub(w, x).real = [disk.real EXCEPT ![x] = c]
      BY <2>3, <2>7, DropStubDisk
    <3> QED  BY <1>0, <2>7, <3>1 DEF c
  <2>8. CASE CanMakeDir(disk) /\ disk' = MakeDir(disk)
    BY <1>0, <2>8, MakeDirDisk
  <2>9. CASE disk' = PutLink(DropStub(disk, P))
    <3> DEFINE m == DropStub(disk, P)
    <3>1. m \in Disks
      BY <1>0, DropStubDisk
    <3> HIDE DEF m
    <3>2. PutLink(m).real = Nowhere
      BY <3>1, PutLinkDisk
    <3> QED  BY <2>9, <3>2, Constants DEF m
  <2>10. CASE WriteTree
    <3>1. \A t \in Paths : t \in StubNames(Children(cmd.goal)) => Children(cmd.goal)[t] = cmd.goal.c[t]
      BY <1>0, EntryParts DEF StubNames
    <3> QED  BY <2>10, <3>1, WriteTreeDisk
  <2> QED  BY <2>1, <2>4, <2>5, <2>6, <2>7, <2>8, <2>9, <2>10
<1> QED  BY <1>1, <1>2, <1>3, <1>4, <1>5 DEF Pull

\* The file a scan saw is there still, or the file of the goal, once a pull
\* has gone on.
LEMMA PullGoesOn ==
    ASSUME TypeOK, Known, Pull, cmd.name = "pull", cmd' # Idle, disk' \in Disks,
           NEW p \in {"verify", "deletes", "writes", "reconcile"}, NEW td, NEW rm \in SUBSET Paths,
           cmd' = [cmd EXCEPT !.pc = p, !.todo = td, !.removed = rm],
           p # "reconcile" => cmd.pc # "reconcile",
           td \in SUBSET (Paths \cup {DirStub}), p = "deletes" => td \subseteq Planned({"deleted"}),
           repo' # "none"
    PROVE  CmdOK(cmd') /\ Known'
<1>0. CmdOK(cmd) /\ disk \in Disks /\ cmd.seen \in Disks
  BY DEF TypeOK, CmdOK
<1>1. CmdOK(cmd')
  <2>1. p \in Places
    BY DEF Places
  <2> QED  BY <1>0, <2>1, CmdUpdates
<1>2. /\ cmd'.name = "pull" /\ cmd'.pc = p /\ cmd'.todo = td /\ cmd'.plan = cmd.plan
      /\ cmd'.seen = cmd.seen /\ cmd'.goal = cmd.goal /\ cmd'.from = cmd.from
      /\ cmd'.touched = cmd.touched
  BY <1>0 DEF CmdOK
<1>3. p # "reconcile" =>
        \A x \in Paths \ cmd.touched : IsFile(cmd.seen, x) /\ IsFile(disk', x) =>
          disk'.real[x] \in {cmd.seen.real[x], cmd.goal.c[x]}
  <2> SUFFICES ASSUME p # "reconcile", NEW x \in Paths \ cmd.touched, IsFile(cmd.seen, x), IsFile(disk', x)
               PROVE  disk'.real[x] \in {cmd.seen.real[x], cmd.goal.c[x]}
    OBVIOUS
  <2>1. disk'.real[x] # None
    BY IsFileReal
  <2>2. disk'.real[x] \in {disk.real[x], cmd.goal.c[x]}
    BY <2>1, PullKept DEF Known
  <2>3. disk'.real[x] = disk.real[x] => IsFile(disk, x)
    BY <1>0, <2>1, IsFileReal
  <2> QED  BY <2>2, <2>3 DEF Known, PullInv
<1>4. PullInv'
  <2>1. Planned({"deleted"})' = Planned({"deleted"})
    BY <1>2 DEF Planned
  <2>2. (cmd'.pc = "deletes" => cmd'.todo \subseteq Planned({"deleted"})')
    BY <1>2, <2>1
  <2>3. cmd'.plan = Diff(cmd'.from, cmd'.goal, TRUE)
    BY <1>2 DEF Known, PullInv
  <2>4. \A x \in Paths : cmd'.plan[x] # "same" /\ IsFile(cmd'.seen, x) =>
          cmd'.seen.real[x] \in {cmd'.from.c[x], cmd'.goal.c[x]}
    BY <1>2 DEF Known, PullInv
  <2>5. cmd'.pc # "reconcile" =>
          \A x \in Paths \ cmd'.touched : IsFile(cmd'.seen, x) /\ IsFile(disk', x) =>
            disk'.real[x] \in {cmd'.seen.real[x], cmd'.goal.c[x]}
    BY <1>2, <1>3
  <2> QED  BY <2>2, <2>3, <2>4, <2>5 DEF PullInv
<1> QED  BY <1>1, <1>2, <1>4 DEF Known, PlaceInv, CloneInv, StubInv, ExpandInv, RestoreInv

\* What is known while a pull runs.
LEMMA PullKnown ==
    ASSUME TypeOK, Known, Pull
    PROVE  CmdOK(cmd') /\ Known'
<1>0. /\ CmdOK(cmd) /\ disk \in Disks /\ cr \in Entries /\ remote \in Entries
      /\ cmd.removed \in SUBSET Paths /\ cmd.todo = cmd.todo
  BY DEF TypeOK, CmdOK
<1>1. disk' \in Disks
  BY PullCareful DEF Careful, Known
<1>2. CASE PullStart
  <2> DEFINE rd == Diff(cr, remote, TRUE)
             ld == Diff(cr, Logical(disk), FALSE)
  <2>1. CASE cmd' = cmd
    BY <1>2, <2>1, IdleCmd, StopKnown DEF PullStart, Known
  <2>2. CASE cmd' # cmd
    <3>1. /\ Conflicts(rd, ld, remote, Logical(disk)) = {}
          /\ cmd' = [Idle EXCEPT !.name = "pull", !.pc = "verify", !.seen = disk,
                                 !.goal = remote, !.plan = rd, !.from = cr]
          /\ disk' = disk /\ repo' = repo /\ repo # "none"
      BY <1>2, <2>2 DEF PullStart, Quiet
    <3>2. \A x \in Paths : rd[x] # "same" /\ IsFile(disk, x) => disk.real[x] \in {cr.c[x], remote.c[x]}
      BY <1>0, <3>1, NoConflict
    <3>3. rd \in [Paths -> Changes] /\ rd = Diff(cr, remote, TRUE)
      BY <1>0, DiffType
    <3> HIDE DEF rd, ld
    <3>4. CmdOK(cmd')
      BY <1>0, <3>1, <3>3, IdleOK DEF CmdOK, Places
    <3>5. /\ cmd'.name = "pull" /\ cmd'.pc = "verify" /\ cmd'.seen = disk /\ cmd'.goal = remote
          /\ cmd'.plan = rd /\ cmd'.from = cr /\ cmd'.todo = {}
      BY <3>1 DEF Idle
    <3>6. PullInv'
      BY <3>1, <3>2, <3>3, <3>5 DEF PullInv
    <3> QED  BY <3>1, <3>4, <3>5, <3>6 DEF Known, PlaceInv, CloneInv, StubInv, ExpandInv, RestoreInv
  <2> QED  BY <2>1, <2>2
<1>3. CASE cmd' = Idle
  BY <1>3, StopKnown
<1>4. CASE PullVerify /\ cmd' # Idle
  <2> DEFINE td == Planned({"deleted"})
  <2>1. /\ cmd' = [cmd EXCEPT !.pc = "deletes", !.todo = td] /\ cmd.name = "pull" /\ cmd.pc = "verify"
        /\ repo' = repo
    BY <1>4 DEF PullVerify, StopCmd, Running, Quiet
  <2>2. td \in SUBSET (Paths \cup {DirStub}) /\ td \subseteq Planned({"deleted"})
    BY DEF Planned
  <2> HIDE DEF td
  <2>3. cmd' = [cmd EXCEPT !.pc = "deletes", !.todo = td, !.removed = cmd.removed]
    BY <1>0, <2>1 DEF CmdOK
  <2>4. repo' # "none"
    BY <2>1 DEF Known, PlaceInv
  <2> QED  BY <1>0, <1>1, <1>4, <2>1, <2>2, <2>3, <2>4, PullGoesOn
<1>5. ASSUME NEW x \in Paths, PullDelete(x), cmd' # Idle
      PROVE  CmdOK(cmd') /\ Known'
  <2> DEFINE td == cmd.todo \ {x}
  <2>1. cmd.name = "pull" /\ cmd.pc = "deletes" /\ repo' = repo
    BY <1>5 DEF PullDelete, Running, Quiet, Fail, Abort
  <2>2. td \in SUBSET (Paths \cup {DirStub}) /\ td \subseteq Planned({"deleted"}) /\ repo' # "none"
    BY <2>1 DEF Known, PlaceInv, PullInv
  <2>3. \E rm \in SUBSET Paths : cmd' = [cmd EXCEPT !.pc = "deletes", !.todo = td, !.removed = rm]
    <3>1. CASE cmd' = [cmd EXCEPT !.todo = td]
      <4>1. cmd' = [cmd EXCEPT !.pc = "deletes", !.todo = td, !.removed = cmd.removed]
        BY <1>0, <2>1, <3>1 DEF CmdOK
      <4> QED  BY <1>0, <4>1
    <3>2. CASE cmd' = [cmd EXCEPT !.todo = td, !.removed = @ \cup {x}]
      <4>1. cmd' = [cmd EXCEPT !.pc = "deletes", !.todo = td, !.removed = cmd.removed \cup {x}]
        BY <1>0, <2>1, <3>2 DEF CmdOK
      <4>2. cmd.removed \cup {x} \in SUBSET Paths
        BY <1>0
      <4> QED  BY <4>1, <4>2
    <3> QED  BY <1>5, <3>1, <3>2 DEF PullDelete, Fail, Abort, StopCmd
  <2> HIDE DEF td
  <2> QED  BY <1>1, <1>5, <2>1, <2>2, <2>3, PullGoesOn DEF Pull
<1>6. CASE PullPrune /\ cmd' # Idle
  <2> DEFINE td == Planned({"added", "modified", "emptydir", "link", "tree"})
             prune == cmd.removed \cap Names # {} /\ EmptyDir(disk)
             rm == IF prune THEN cmd.removed \cup {P} ELSE cmd.removed
  <2>1. /\ cmd' = [cmd EXCEPT !.pc = "writes", !.todo = td, !.removed = rm] /\ cmd.name = "pull"
        /\ cmd.pc = "deletes" /\ repo' = repo
    BY <1>6 DEF PullPrune, Running, Quiet
  <2>2. td \in SUBSET (Paths \cup {DirStub}) /\ rm \in SUBSET Paths
    BY <1>0, Constants DEF Planned
  <2> HIDE DEF td, rm
  <2>3. repo' # "none"
    BY <2>1 DEF Known, PlaceInv
  <2> QED  BY <1>1, <1>6, <2>1, <2>2, <2>3, PullGoesOn
<1>7. ASSUME NEW x \in Paths, PullWrite(x), cmd' # Idle
      PROVE  CmdOK(cmd') /\ Known'
  <2>0. cmd.name = "pull" /\ cmd.pc = "writes" /\ ~Fail
    BY <1>7 DEF PullWrite, Running, Fail, Abort, StopCmd
  <2>1. repo' = repo /\ \E y \in Paths : cmd' = [cmd EXCEPT !.todo = cmd.todo \ {y}]
    <3>1. \/ cmd' = [cmd EXCEPT !.todo = cmd.todo \ {x}] /\ repo' = repo
          \/ WriteStub(x) \/ WriteFile(x) \/ WriteModified(x) \/ WriteEmptyDir \/ WriteLink \/ WriteTree
      BY <1>7 DEF PullWrite, Quiet
    <3>2. WriteStub(x) \/ WriteFile(x) \/ WriteModified(x) =>
            cmd' = [cmd EXCEPT !.todo = cmd.todo \ {x}] /\ repo' = repo
      BY <2>0 DEF WriteStub, WriteFile, WriteModified, Quiet, MayLose
    <3>3. WriteEmptyDir \/ WriteLink \/ WriteTree =>
            cmd' = [cmd EXCEPT !.todo = cmd.todo \ {P}] /\ repo' = repo
      BY <1>7, <2>0 DEF WriteEmptyDir, WriteLink, WriteTree, Quiet, MayLose, Abort, StopCmd
    <3> QED  BY <3>1, <3>2, <3>3, Constants
  <2>2. PICK y \in Paths : cmd' = [cmd EXCEPT !.todo = cmd.todo \ {y}]
    BY <2>1
  <2> DEFINE td == cmd.todo \ {y}
  <2>3. cmd' = [cmd EXCEPT !.pc = "writes", !.todo = td, !.removed = cmd.removed]
    BY <1>0, <2>0, <2>2 DEF CmdOK
  <2>4. td \in SUBSET (Paths \cup {DirStub}) /\ repo' # "none"
    BY <2>0, <2>1 DEF Known, PlaceInv
  <2> HIDE DEF td
  <2> QED  BY <1>0, <1>1, <1>7, <2>0, <2>3, <2>4, PullGoesOn DEF Pull
<1>8. CASE PullRoot /\ cmd' # Idle
  <2> DEFINE td == Listed(disk)
  <2>1. /\ cmd' = [cmd EXCEPT !.pc = "reconcile", !.todo = td] /\ cmd.name = "pull" /\ repo' = "rooted"
    BY <1>8 DEF PullRoot, Running
  <2>2. td \in SUBSET (Paths \cup {DirStub})
    BY DEF Listed
  <2> HIDE DEF td
  <2>3. cmd' = [cmd EXCEPT !.pc = "reconcile", !.todo = td, !.removed = cmd.removed]
    BY <1>0, <2>1 DEF CmdOK
  <2> QED  BY <1>0, <1>1, <1>8, <2>1, <2>2, <2>3, PullGoesOn
<1> QED  BY <1>2, <1>3, <1>4, <1>5, <1>6, <1>7, <1>8 DEF Pull

\* What is known while a push runs.
LEMMA PushKnown ==
    ASSUME TypeOK, Known, Push
    PROVE  CmdOK(cmd') /\ Known'
<1>0. CmdOK(cmd) /\ disk \in Disks /\ cr \in Entries /\ Logical(disk) \in Entries
  BY LogicalEntry DEF TypeOK, CmdOK
<1>1. CASE PushStart
  <2> DEFINE l == Logical(disk)
  <2>1. /\ cmd' = [Idle EXCEPT !.name = "push", !.pc = "publish", !.goal = l, !.from = cr]
        /\ repo' = repo /\ repo # "none"
    BY <1>1 DEF PushStart, Quiet
  <2>2. l \in Entries
    BY <1>0
  <2> HIDE DEF l
  <2>3. CmdOK(cmd')
    BY <1>0, <2>1, <2>2, IdleOK DEF CmdOK, Places
  <2>4. cmd'.name = "push" /\ cmd'.pc = "publish" /\ cmd'.todo = {}
    BY <2>1 DEF Idle
  <2> QED  BY <2>1, <2>3, <2>4 DEF Known, PlaceInv, CloneInv, StubInv, ExpandInv, PullInv, RestoreInv
<1>2. CASE PushPublish
  <2>1. CASE StopCmd
    BY <2>1, StoppedKnown
  <2>2. CASE Goto("root")
    <3>1. cmd' = [cmd EXCEPT !.pc = "root"] /\ cmd.name = "push" /\ repo' = repo
      BY <1>2, <2>2 DEF PushPublish, Goto, Running
    <3>2. CmdOK(cmd')
      BY <1>0, <3>1, CmdUpdates DEF Places
    <3>3. cmd'.name = "push" /\ cmd'.pc = "root" /\ cmd'.todo = cmd.todo
      BY <1>0, <3>1 DEF CmdOK
    <3> QED  BY <3>1, <3>2, <3>3 DEF Known, PlaceInv, CloneInv, StubInv, ExpandInv, PullInv, RestoreInv
  <2> QED  BY <1>2, <2>1, <2>2 DEF PushPublish
<1>3. CASE PushRoot
  <2>1. /\ cmd' = [cmd EXCEPT !.pc = "reconcile", !.todo = Listed(disk)] /\ cmd.name = "push"
        /\ repo' = "rooted"
    BY <1>3 DEF PushRoot, Running
  <2>2. CmdOK(cmd')
    BY <1>0, <2>1, CmdUpdates DEF Places
  <2>3. cmd'.name = "push" /\ cmd'.pc = "reconcile" /\ cmd'.todo = Listed(disk)
    BY <1>0, <2>1 DEF CmdOK
  <2>4. Listed(disk) \subseteq Paths \cup {DirStub}
    BY DEF Listed
  <2> QED  BY <2>1, <2>2, <2>3, <2>4 DEF Known, PlaceInv, CloneInv, StubInv, ExpandInv, PullInv, RestoreInv
<1> QED  BY <1>1, <1>2, <1>3 DEF Push

\* What is known while stubs are reconciled.
LEMMA ReconcileKnown ==
    ASSUME TypeOK, Known, Reconcile
    PROVE  CmdOK(cmd') /\ Known'
<1>0. CmdOK(cmd) /\ cmd.goal \in Entries
  BY DEF TypeOK, CmdOK
<1>1. CASE cmd' = Idle
  BY <1>1, StopKnown
<1>2. CASE cmd' # Idle
  <2>1. PICK id : cmd' = [cmd EXCEPT !.todo = cmd.todo \ {id}] /\ repo' = repo
    <3>0. ~Fail /\ \A d : ~Abort(d)
      BY <1>2 DEF Fail, Abort, StopCmd
    <3>1. CASE ReconcileFileStub
      BY <1>0, <3>0, <3>1, EntryParts DEF ReconcileFileStub, Done, Quiet, MayLose
    <3>2. CASE ReconcileDirStub
      BY <1>0, <3>0, <3>2, EntryParts DEF ReconcileDirStub, Done, Quiet, MayLose
    <3>3. ASSUME NEW n \in Names, ReconcileChildStub(n)
          PROVE  cmd' = [cmd EXCEPT !.todo = cmd.todo \ {n}] /\ repo' = repo
      BY <3>0, <3>3 DEF ReconcileChildStub, Done, Quiet
    <3> QED  BY <3>1, <3>2, <3>3 DEF Reconcile
  <2>2. CmdOK(cmd')
    BY <1>0, <2>1, CmdUpdates DEF Places
  <2>3. /\ cmd'.name = cmd.name /\ cmd'.pc = cmd.pc /\ cmd'.todo = cmd.todo \ {id} /\ cmd'.plan = cmd.plan
        /\ cmd'.seen = cmd.seen /\ cmd'.goal = cmd.goal /\ cmd'.from = cmd.from
        /\ cmd'.touched = cmd.touched
    BY <1>0, <2>1 DEF CmdOK
  <2>4. cmd.name \in {"pull", "push"} /\ cmd.pc = "reconcile"
    BY DEF Reconcile, Reconciling
  <2>5. PullInv'
    BY <2>3, <2>4 DEF Known, PullInv, IsFile
  <2>6. PlaceInv'
    BY <2>1, <2>3, <2>4 DEF Known, PlaceInv
  <2> QED  BY <2>2, <2>3, <2>4, <2>5, <2>6 DEF Known, CloneInv, StubInv, ExpandInv, RestoreInv
<1> QED  BY <1>1, <1>2

\* What is known while a restore runs.
LEMMA RestoreKnown ==
    ASSUME TypeOK, Known, Restore
    PROVE  CmdOK(cmd') /\ Known'
<1>0. CmdOK(cmd) /\ disk \in Disks
  BY DEF TypeOK, CmdOK
<1>1. ASSUME NEW scope \in Paths \cup {Root}, RestoreStart(scope)
      PROVE  CmdOK(cmd') /\ Known'
  <2>1. PICK p \in {"apply", "offline"}, td \in {{}, RestorePlan(disk, cr, scope)} :
          cmd' = [Idle EXCEPT !.name = "restore", !.at = scope, !.seen = disk, !.pc = p, !.todo = td]
    <3>1. PICK fetched \in BOOLEAN, listed \in BOOLEAN :
            cmd' = [Idle EXCEPT !.name = "restore", !.at = scope, !.seen = disk,
                                !.pc = IF fetched THEN "apply" ELSE "offline",
                                !.todo = IF ~listed /\ NeedsTree(disk, cr, scope) THEN {}
                                         ELSE RestorePlan(disk, cr, scope)]
      BY <1>1 DEF RestoreStart
    <3> QED  BY <3>1
  <2>2. cr' = cr /\ repo' = repo /\ repo = "rooted"
    BY <1>1 DEF RestoreStart, Quiet
  <2>3. CmdOK(cmd')
    BY <1>0, <2>1, IdleOK DEF CmdOK, Places
  <2>4. cmd'.name = "restore" /\ cmd'.pc = p /\ cmd'.at = scope /\ cmd'.seen = disk /\ cmd'.todo = td
    BY <2>1 DEF Idle
  <2>5. RestoreInv'
    BY <2>1, <2>2, <2>4 DEF RestoreInv
  <2> QED  BY <2>2, <2>3, <2>4, <2>5 DEF Known, PlaceInv, CloneInv, StubInv, ExpandInv, PullInv
<1>2. CASE RestoreApply
  <2>1. PICK act : cmd' = [cmd EXCEPT !.todo = cmd.todo \ {act}]
    BY <1>2 DEF RestoreApply
  <2>2. cr' = cr /\ repo' = repo /\ cmd.name = "restore"
    BY <1>2 DEF RestoreApply, Quiet
  <2>3. CmdOK(cmd')
    BY <1>0, <2>1, CmdUpdates DEF Places
  <2>4. /\ cmd'.name = "restore" /\ cmd'.pc = cmd.pc /\ cmd'.at = cmd.at /\ cmd'.seen = cmd.seen
        /\ cmd'.todo = cmd.todo \ {act}
    BY <1>0, <2>1, <2>2 DEF CmdOK
  <2>5. RestoreInv'
    BY <2>2, <2>4 DEF RestoreInv, Known
  <2>6. PlaceInv'
    BY <2>2, <2>4, IdleOK DEF PlaceInv, Known
  <2> QED  BY <2>3, <2>4, <2>5, <2>6 DEF Known, CloneInv, StubInv, ExpandInv, PullInv
<1>3. CASE RestoreEnd
  BY <1>3, StoppedKnown DEF RestoreEnd
<1> QED  BY <1>1, <1>2, <1>3 DEF Restore

\* The user touches what the user changes.
LEMMA UserKnown ==
    ASSUME TypeOK, Known, User
    PROVE  CmdOK(cmd') /\ Known'
<1>0. CmdOK(cmd) /\ disk \in Disks /\ disk' \in Disks /\ UserEdits(disk') /\ Touched(disk, disk') # {}
  BY UserDisk DEF TypeOK, CmdOK
<1>1. CASE cmd.name = "idle"
  <2>1. cmd' = Idle
    BY <1>0, <1>1, IdleCmd DEF UserEdits, Known
  <2> QED  BY <2>1, StopKnown
<1>2. CASE cmd.name # "idle"
  <2> DEFINE tc == cmd.touched \cup Touched(disk, disk')
  <2>1. /\ cmd' = [cmd EXCEPT !.touched = tc] /\ cr' = cr /\ repo' = repo /\ cmd.pc # "delete"
    BY <1>0, <1>2 DEF UserEdits
  <2>2. tc \in SUBSET Paths /\ tc # {} /\ cmd.touched \subseteq tc
    BY <1>0 DEF CmdOK, Touched
  <2>3. \A t \in Paths \ tc : disk'.real[t] = disk.real[t]
    BY DEF Touched
  <2> HIDE DEF tc
  <2>4. CmdOK(cmd')
    BY <1>0, <2>1, <2>2, CmdUpdates DEF Places
  <2>5. /\ cmd'.name = cmd.name /\ cmd'.pc = cmd.pc /\ cmd'.at = cmd.at /\ cmd'.todo = cmd.todo
        /\ cmd'.seen = cmd.seen /\ cmd'.goal = cmd.goal /\ cmd'.plan = cmd.plan
        /\ cmd'.removed = cmd.removed /\ cmd'.from = cmd.from /\ cmd'.touched = tc
    BY <1>0, <2>1 DEF CmdOK
  <2>6. PlaceInv'
    BY <1>2, <2>1, <2>5 DEF Known, PlaceInv, Idle
  <2>7. CloneInv' /\ RestoreInv'
    BY <2>1, <2>5 DEF Known, CloneInv, RestoreInv
  <2>8. ExpandInv'
    BY <2>5 DEF Known, ExpandInv
  <2>9. StubInv'
    <3>1. WholeDir' <=> WholeDir
      BY <2>5 DEF WholeDir
    <3> SUFFICES ASSUME cmd.name = "stub" PROVE StubInv'
      BY <2>5 DEF StubInv
    <3>2. cmd.at \in Paths
      BY DEF Known, StubInv
    <3>3. CASE WholeDir
      BY <2>1, <2>2, <2>5, <3>1, <3>2, <3>3 DEF StubInv
    <3>4. CASE ~WholeDir
      <4>1. cmd.pc \in {"mark", "check", "delete"} =>
              disk'.real[cmd.at] = cr.c[cmd.at] \/ cmd.at \in tc
        BY <2>2, <2>3, <3>2, <3>4 DEF Known, StubInv
      <4> QED  BY <2>1, <2>5, <3>1, <3>2, <3>4, <4>1 DEF StubInv
    <3> QED  BY <3>3, <3>4
  <2>10. PullInv'
    <3> SUFFICES ASSUME cmd.name = "pull" PROVE PullInv'
      BY <2>5 DEF PullInv
    <3>1. Planned({"deleted"})' = Planned({"deleted"})
      BY <2>5 DEF Planned
    <3>2. /\ cmd'.plan = Diff(cmd'.from, cmd'.goal, TRUE)
          /\ (cmd'.pc = "deletes" => cmd'.todo \subseteq Planned({"deleted"})')
          /\ \A x \in Paths : cmd'.plan[x] # "same" /\ IsFile(cmd'.seen, x) =>
               cmd'.seen.real[x] \in {cmd'.from.c[x], cmd'.goal.c[x]}
      BY <2>5, <3>1 DEF Known, PullInv
    <3>3. ASSUME cmd.pc # "reconcile", NEW x \in Paths \ tc, IsFile(cmd.seen, x), IsFile(disk', x)
          PROVE  disk'.real[x] \in {cmd.seen.real[x], cmd.goal.c[x]}
      <4>1. disk'.real[x] = disk.real[x] /\ x \in Paths \ cmd.touched
        BY <2>2, <2>3
      <4>2. IsFile(disk, x)
        BY <1>0, <3>3, <4>1, IsFileReal
      <4> QED  BY <3>3, <4>1, <4>2 DEF Known, PullInv
    <3> QED  BY <2>5, <3>2, <3>3 DEF PullInv
  <2> QED  BY <2>4, <2>6, <2>7, <2>8, <2>9, <2>10 DEF Known
<1> QED  BY <1>1, <1>2

\* Every step keeps what is known.
LEMMA KnownStep ==
    ASSUME TypeOK, Known, Next
    PROVE  CmdOK(cmd') /\ Known'
<1>1. CASE OtherPublishes
  <2>1. disk' = disk /\ cr' = cr /\ repo' = repo /\ cmd' = cmd
    BY <1>1 DEF OtherPublishes
  <2>2. CmdOK(cmd)
    BY DEF TypeOK, CmdOK
  <2>3. PlaceInv' /\ CloneInv' /\ RestoreInv' /\ ExpandInv'
    BY <2>1 DEF Known, PlaceInv, CloneInv, RestoreInv, ExpandInv
  <2>4. StubInv' /\ PullInv'
    BY <2>1 DEF Known, StubInv, PullInv, WholeDir, Planned
  <2> QED  BY <2>1, <2>2, <2>3, <2>4 DEF Known
<1>2. CASE Crash \/ SyncEnd
  BY <1>2, StoppedKnown DEF Crash, SyncEnd
<1> QED  BY <1>1, <1>2, CloneKnown, StubKnown, ExpandKnown, PullKnown, PushKnown, ReconcileKnown,
            RestoreKnown, UserKnown DEF Next

\* The disk and the roots keep their types.
LEMMA TypeStep ==
    ASSUME IInv, Next
    PROVE  TypeOK'
<1>0. /\ disk \in Disks /\ cr \in Entries /\ remote \in Entries /\ git \in BOOLEAN
      /\ repo \in {"none", "init", "rooted"} /\ (repo = "none" => Listed(disk) = {})
      /\ edits \in 0..MaxEdits /\ publishes \in 0..MaxPublishes
      /\ dirty \subseteq Paths /\ torn \in BOOLEAN
      /\ lost \subseteq {"clone", "expand", "reconcile", "unverified"}
      /\ cmd.goal \in Entries /\ MaxEdits \in Nat /\ MaxPublishes \in Nat
  BY BoundAssumption DEF IInv, TypeOK
<1>1. disk' \in Disks
  BY DiskStep
<1>2. CmdOK(cmd')
  BY KnownStep DEF IInv, Known
<1> DEFINE Rest == /\ cr' \in Entries /\ remote' \in Entries /\ git' = git
                   /\ repo' \in {repo, "init", "rooted"} /\ (repo' = "none" => Listed(disk') = {})
                   /\ edits' \in 0..MaxEdits /\ publishes' \in 0..MaxPublishes
                   /\ dirty' \subseteq Paths /\ torn' \in BOOLEAN
                   /\ lost' \subseteq {"clone", "expand", "reconcile", "unverified"}
<1> SUFFICES Rest
  BY <1>0, <1>1, <1>2 DEF TypeOK, CmdOK
<1>3. ASSUME Quiet \/ (\E w \in {"clone", "expand", "reconcile", "unverified"} : \E b : MayLose(w, b))
                   \/ (\E d : Abort(d)),
             repo # "none"
      PROVE  Rest
  <2>1. CASE Quiet \/ (\E d : Abort(d))
    BY <1>0, <1>3, <2>1 DEF Quiet, Abort
  <2>2. CASE \E w \in {"clone", "expand", "reconcile", "unverified"} : \E b : MayLose(w, b)
    BY <1>0, <1>3, <2>2 DEF MayLose
  <2> QED  BY <1>3, <2>1, <2>2
<1>4. cmd.name # "idle" => repo # "none"
  BY DEF IInv, PlaceInv
<1> USE <1>0
<1> HIDE DEF Rest
<1>5. CASE Clone
  <2>1. CASE \E force \in BOOLEAN : CloneStart(force)
    BY <2>1 DEF CloneStart, Rest
  <2>2. CASE CloneRoot
    BY <2>2 DEF CloneRoot, Rest
  <2>3. CASE CloneEntry
    BY <1>3, <1>4, <2>3, EntryParts DEF CloneEntry, Running, ClonePutBlob, ClonePutLink, ClonePutTree, Fail
  <2>4. ASSUME NEW n \in Names, CloneChild(n) PROVE Rest
    BY <1>3, <1>4, <2>4 DEF CloneChild, Running, ClonePutBlob, Fail
  <2> QED  BY <1>5, <2>1, <2>2, <2>3, <2>4 DEF Clone
<1>6. CASE Stub
  <2>1. repo # "none"
    BY <1>4, <1>6 DEF Stub, StubStart, StubVerify, StubMark, StubCheck, StubChanged, StubDelete, Running
  <2>2. Quiet \/ Fail
    BY <1>6 DEF Stub, StubStart, StubVerify, StubMark, StubCheck, StubChanged, StubDelete
  <2> QED  BY <1>3, <2>1, <2>2 DEF Fail
<1>7. CASE Expand
  <2>1. repo # "none"
    BY <1>4, <1>7 DEF Expand, ExpandStart, ExpandLower, ExpandLowerEnd, ExpandFile, ExpandDirStart,
                      ExpandDirChild, ExpandDirEnd, ExpandEnd, Running
  <2>2. Quiet \/ Fail \/ \E b : MayLose("expand", b)
    BY <1>7 DEF Expand, ExpandStart, ExpandLower, ExpandLowerEnd, ExpandFile, ExpandDirStart,
                ExpandDirChild, ExpandDirEnd, ExpandEnd
  <2> QED  BY <1>3, <2>1, <2>2 DEF Fail
<1>8. CASE Pull
  <2>1. CASE PullStart
    BY <2>1 DEF PullStart, Quiet, Rest
  <2>2. CASE PullRoot
    BY <2>2 DEF PullRoot, Rest
  <2>3. CASE PullVerify \/ PullPrune
    BY <1>3, <1>4, <2>3 DEF PullVerify, PullPrune, Running
  <2>4. ASSUME NEW x \in Paths, PullDelete(x) PROVE Rest
    BY <1>3, <1>4, <2>4 DEF PullDelete, Running, Fail
  <2>5. ASSUME NEW x \in Paths, PullWrite(x) PROVE Rest
    <3>1. repo # "none"
      BY <1>4, <2>5 DEF PullWrite, Running
    <3>2. Quiet \/ (\E b : MayLose("unverified", b)) \/ (\E d : Abort(d))
      BY <2>5 DEF PullWrite, WriteStub, WriteFile, WriteModified, WriteEmptyDir, WriteLink, WriteTree, Fail
    <3> QED  BY <1>3, <3>1, <3>2
  <2> QED  BY <1>8, <2>1, <2>2, <2>3, <2>4, <2>5 DEF Pull
<1>9. CASE Push
  <2>1. CASE PushStart
    BY <1>3, <2>1 DEF PushStart
  <2>2. CASE PushPublish
    BY <1>4, <2>2 DEF PushPublish, Running, Rest
  <2>3. CASE PushRoot
    BY <2>3 DEF PushRoot, Rest
  <2> QED  BY <1>9, <2>1, <2>2, <2>3 DEF Push
<1>10. CASE Reconcile
  <2>1. repo # "none"
    BY <1>4, <1>10 DEF Reconcile, Reconciling
  <2>2. Quiet \/ (\E b : MayLose("reconcile", b)) \/ (\E d : Abort(d))
    <3>1. CASE ReconcileFileStub
      BY <3>1, EntryParts DEF ReconcileFileStub
    <3>2. CASE ReconcileDirStub
      BY <3>2, EntryParts DEF ReconcileDirStub, Fail
    <3>3. ASSUME NEW n \in Names, ReconcileChildStub(n) PROVE Quiet \/ Fail
      BY <3>3 DEF ReconcileChildStub
    <3> QED  BY <1>10, <3>1, <3>2, <3>3 DEF Reconcile, Fail
  <2> QED  BY <1>3, <2>1, <2>2
<1>11. CASE SyncEnd
  BY <1>4, <1>11 DEF SyncEnd, Reconciling, Rest, OutOfStep
<1>12. CASE Restore
  <2>1. CASE \E scope \in Paths \cup {Root} : RestoreStart(scope)
    BY <1>3, <2>1 DEF RestoreStart
  <2>2. CASE RestoreApply
    BY <1>3, <1>4, <2>2 DEF RestoreApply
  <2>3. CASE RestoreEnd
    BY <1>4, <2>3 DEF RestoreEnd, Rest
  <2> QED  BY <1>12, <2>1, <2>2, <2>3 DEF Restore
<1>13. CASE User
  <2>1. UserEdits(disk') /\ Listed(disk') \subseteq Listed(disk)
    BY <1>13, UserDisk DEF IInv
  <2> QED  BY <2>1 DEF UserEdits, Rest, Touched
<1>14. CASE OtherPublishes
  BY <1>14 DEF OtherPublishes, Rest
<1>15. CASE Crash
  BY <1>3, <1>4, <1>15 DEF Crash
<1> QED  BY <1>5, <1>6, <1>7, <1>8, <1>9, <1>10, <1>11, <1>12, <1>13, <1>14, <1>15 DEF Next

----------------------------------------------------------------------------
(* The theorems.                                                           *)

\* Initially no command runs and no stub is there.
LEMMA Initially == Init => IInv
<1> SUFFICES ASSUME Init PROVE IInv
  OBVIOUS
<1>1. cmd = Idle /\ lost = {} /\ torn = FALSE
  BY DEF Init
<1>2. disk \in Disks /\ Listed(disk) = {}
  BY DEF Init
<1>3. remote \in Entries /\ cr \in Entries /\ git \in BOOLEAN
  BY IdleOK DEF Init
<1>4. /\ repo \in {"none", "rooted"} /\ edits \in 0..MaxEdits /\ publishes \in 0..MaxPublishes
      /\ dirty \subseteq Paths
  <2>1. InPlace(disk) \subseteq Paths
    BY <1>2, DiskParts, Constants DEF InPlace
  <2> QED  BY <2>1, BoundAssumption DEF Init
<1>5. TypeOK
  BY <1>1, <1>2, <1>3, <1>4, IdleOK DEF TypeOK, CmdOK
<1>6. Known
  BY <1>1, IdleOK DEF Known, PlaceInv, CloneInv, StubInv, ExpandInv, PullInv, RestoreInv
<1> QED  BY <1>5, <1>6 DEF IInv, Known

\* Every step keeps the invariant.
LEMMA Inductive == IInv /\ [Next]_vars => IInv'
<1> SUFFICES ASSUME IInv, [Next]_vars PROVE IInv'
  OBVIOUS
<1>1. CASE Next
  <2>1. TypeOK'
    BY <1>1, TypeStep
  <2>2. Known'
    BY <1>1, KnownStep DEF IInv, Known
  <2> QED  BY <2>1, <2>2 DEF IInv, Known
<1>2. CASE UNCHANGED vars
  <2>1. /\ disk' = disk /\ cr' = cr /\ remote' = remote /\ git' = git /\ repo' = repo /\ cmd' = cmd
        /\ edits' = edits /\ publishes' = publishes /\ dirty' = dirty /\ torn' = torn /\ lost' = lost
    BY <1>2 DEF vars
  <2>2. TypeOK'
    BY <2>1 DEF IInv, TypeOK
  <2>3. PlaceInv' /\ CloneInv' /\ RestoreInv' /\ ExpandInv'
    BY <2>1 DEF IInv, PlaceInv, CloneInv, RestoreInv, ExpandInv
  <2>4. StubInv' /\ PullInv'
    BY <2>1 DEF IInv, StubInv, PullInv, WholeDir, Planned
  <2> QED  BY <2>2, <2>3, <2>4 DEF IInv
<1> QED  BY <1>1, <1>2

\* Whatever the commands, the user, other clones and crashes do, the disk is one
\* a file system can hold (no child without its directory, no content without a
\* file), a directory that was never cloned into has no markers, and the
\* progress of a command is that of a command.
THEOREM TypeCorrect == Spec => []TypeOK
<1>1. IInv => TypeOK
  BY DEF IInv
<1> QED  BY <1>1, Initially, Inductive, PTL DEF Spec

\* No step of a command but restore replaces or removes a real file that is not
\* what the clone root, the root the command started from or the root it works
\* towards has there, except in the ways the model records as losses: a file in
\* the way of a clone, a file beside the marker that expand replaces, the writes
\* of a pull that its verification does not cover, and the reconciliation of a
\* stub whose entry has changed its kind.
THEOREM UserFilesSurvive == Spec => EditsSurvive
<1> DEFINE Step == \A t \in Paths :
         IsFile(disk, t) /\ disk'.real[t] # disk.real[t] /\ edits' = edits
           => \/ disk.real[t] \in {cr.c[t], cmd.from.c[t], cmd.goal.c[t]}
              \/ cmd.name = "restore"
              \/ Way \in lost'
<1>1. ASSUME IInv, Next PROVE Step
  <2>0. disk \in Disks /\ edits \in Nat
    BY <1>1, BoundAssumption DEF IInv, TypeOK
  <2>1. ASSUME Careful PROVE Step
    BY <2>0, <2>1, IsFileReal DEF Careful, Spared
  <2>2. CASE Clone \/ Stub \/ Expand \/ Pull \/ Reconcile
    <3>1. Careful
      BY <1>1, <2>2, CloneCareful, StubCareful, ExpandCareful, PullCareful, ReconcileCareful DEF IInv
    <3> QED  BY <2>1, <3>1
  <2>3. CASE disk' = disk
    BY <2>3
  <2>4. CASE Push \/ SyncEnd \/ OtherPublishes \/ Crash
    <3>1. disk' = disk
      BY <2>4 DEF Push, PushStart, PushPublish, PushRoot, SyncEnd, OtherPublishes, Crash, Abort
    <3> QED  BY <2>3, <3>1
  <2>5. CASE Restore
    <3>1. disk' = disk \/ cmd.name = "restore"
      BY <2>5 DEF Restore, RestoreStart, RestoreApply, RestoreEnd
    <3> QED  BY <3>1
  <2>6. CASE User
    <3>1. edits' # edits
      BY <1>1, <2>0, <2>6, UserDisk DEF IInv, UserEdits
    <3> QED  BY <3>1
  <2> QED  BY <1>1, <2>2, <2>4, <2>5, <2>6 DEF Next
<1>2. IInv /\ [Next]_vars => [Step]_vars
  BY <1>1
<1>3. EditsSurvive <=> [][Step]_vars
  BY DEF EditsSurvive
<1> HIDE DEF Step
<1> QED  BY <1>2, <1>3, Initially, Inductive, PTL DEF Spec

----------------------------------------------------------------------------
(* A restore of everything is exact.                                       *)

\* A restore that has nothing in its way.
Exact == /\ cmd.name = "restore" /\ cmd.at = Root /\ cmd.pc = "apply" /\ cmd.touched = {}
         /\ Plain(cmd.seen) /\ ~InTheWay(cmd.seen, cr)

\* Inside a directory the plan has at most one action for each name.
Due(d, e, n) == IF e.c[n] = None THEN d.real[n] # None \/ d.stub[n] # None
                ELSE IF d.stub[n] # None THEN d.stub[n] # e.c[n] ELSE d.real[n] # e.c[n]
ActionFor(d, e, n) ==
    IF e.c[n] = None THEN IF d.real[n] # None THEN "file" ELSE "orphan_stub"
    ELSE IF d.stub[n] # None THEN "stub_to_blob" ELSE "blob"

\* The directory exists, and every name with no action left is as clone_root says.
Listing(d, e) == e.kind = "tree" /\ d.dirstub = None /\ d.stub[P] = None
Filling ==
    /\ Listing(cmd.seen, cr) /\ disk.kind = "dir" /\ disk.dirstub = None
    /\ <<"ensure_dir", P>> \notin cmd.todo
    /\ \A n \in Names : IF <<ActionFor(cmd.seen, cr, n), n>> \in cmd.todo
                        THEN disk.real[n] = cmd.seen.real[n] /\ disk.stub[n] = cmd.seen.stub[n]
                        ELSE ChildContent(disk, n) = cr.c[n]

\* Such a restore has its whole plan before it, or fills the directory, or is done.
ExactInv == Exact => \/ disk = cmd.seen /\ cmd.todo = RestorePlan(cmd.seen, cr, Root)
                     \/ Filling
                     \/ cmd.todo = {} /\ Logical(disk) = cr

\* The plan for a directory that is listed name by name.
LEMMA ListingPlan ==
    ASSUME NEW d \in Disks, NEW e \in Entries, Plain(d), Listing(d, e)
    PROVE  /\ \A act \in RestorePlan(d, e, Root) :
                \/ act = <<"ensure_dir", P>>
                \/ \E n \in Names : act = <<ActionFor(d, e, n), n>> /\ Due(d, e, n)
           /\ \A n \in Names : Due(d, e, n) => <<ActionFor(d, e, n), n>> \in RestorePlan(d, e, Root)
           /\ <<"ensure_dir", P>> \in RestorePlan(d, e, Root)
<1>0. /\ Root \notin Names /\ e.kind = "tree" /\ d.dirstub = None /\ d.stub[P] = None
      /\ \A n \in Names : n # P /\ (d.stub[n] = None \/ d.real[n] = None)
      /\ d.real \in [Paths -> Maybe] /\ e.c \in [Paths -> Maybe]
  BY Constants, DiskParts, EntryParts DEF Plain, Listing
<1> DEFINE B == UNION {PlanBlob(d, n, e.c[n]) : n \in StubNames(Children(e))}
<1>1. RestorePlan(d, e, Root) = {<<"ensure_dir", P>>} \cup PlanAdded(d, e) \cup B
  <2> HIDE DEF B
  <2>1. PlanTree(d, e) = {<<"ensure_dir", P>>} \cup PlanAdded(d, e) \cup B
    BY <1>0 DEF PlanTree, B
  <2> QED  BY <1>0, <2>1 DEF RestorePlan
<1>2. ASSUME NEW act \in B
      PROVE  \E n \in Names : act = <<ActionFor(d, e, n), n>> /\ Due(d, e, n)
  <2>1. PICK n \in StubNames(Children(e)) : act \in PlanBlob(d, n, e.c[n])
    OBVIOUS
  <2>2. n \in Names /\ e.c[n] # None
    BY EntryParts DEF StubNames
  <2>3. act = <<ActionFor(d, e, n), n>> /\ Due(d, e, n)
    BY <1>0, <2>1, <2>2 DEF PlanBlob, ActionFor, Due, IsFile
  <2> QED  BY <2>2, <2>3
<1>3. ASSUME NEW act \in PlanAdded(d, e)
      PROVE  \E n \in Names : act = <<ActionFor(d, e, n), n>> /\ Due(d, e, n)
  <2>1. PICK n \in Names : /\ e.c[n] = None
                           /\ \/ act = <<"file", n>> /\ d.real[n] # None
                              \/ act = <<"orphan_stub", n>> /\ d.stub[n] # None
    BY DEF PlanAdded
  <2> QED  BY <1>0, <2>1 DEF ActionFor, Due
<1>4. ASSUME NEW n \in Names, Due(d, e, n)
      PROVE  <<ActionFor(d, e, n), n>> \in PlanAdded(d, e) \cup B
  <2>1. CASE e.c[n] = None
    <3>1. <<ActionFor(d, e, n), n>> \in PlanAdded(d, e)
      BY <1>4, <2>1 DEF PlanAdded, ActionFor, Due
    <3> QED  BY <3>1
  <2>2. CASE e.c[n] # None
    <3>1. <<ActionFor(d, e, n), n>> \in PlanBlob(d, n, e.c[n])
      BY <1>0, <1>4, <2>2 DEF PlanBlob, ActionFor, Due, IsFile
    <3>2. n \in StubNames(Children(e))
      BY <2>2, EntryParts DEF StubNames
    <3> QED  BY <3>1, <3>2
  <2> QED  BY <2>1, <2>2
<1> HIDE DEF B
<1> QED  BY <1>1, <1>2, <1>3, <1>4

\* A name that is not due is as the entry says.
LEMMA NotDue ==
    ASSUME NEW d \in Disks, NEW e, NEW n \in Names, d.dirstub = None,
           d.stub[n] = None \/ d.real[n] = None, ~Due(d, e, n)
    PROVE  ChildContent(d, n) = e.c[n]
  BY DEF Due, ChildContent

\* A directory whose names are as a tree entry says is that entry.
LEMMA WholeTree ==
    ASSUME NEW d \in Disks, NEW e \in Entries, e.kind = "tree", d.kind = "dir",
           \A n \in Names : ChildContent(d, n) = e.c[n]
    PROVE  Logical(d) = e
<1>1. Logical(d) \in Entries /\ Logical(d).kind = "tree" /\ Logical(d).c[P] = d.real[P]
      /\ \A n \in Names : Logical(d).c[n] = e.c[n]
  BY LogicalEntry
<1>2. d.real[P] = None /\ e.c[P] = None
  BY DiskParts, EntryParts
<1> QED  BY <1>1, <1>2, EntryEqual, Constants

\* A plan of one action that makes the entry what it should be.
LEMMA Single ==
    ASSUME NEW a, NEW t, RestorePlan(disk, cr, Root) = {<<a, t>>},
           Logical(Applied(disk, a, t).after) = cr
    PROVE  /\ RestorePlan(disk, cr, Root) = {} => Logical(disk) = cr
           /\ \A act \in RestorePlan(disk, cr, Root) :
                /\ RestorePlan(disk, cr, Root) \subseteq {act}
                /\ Logical(Applied(disk, act[1], act[2]).after) = cr
<1>1. ASSUME NEW act \in RestorePlan(disk, cr, Root)
      PROVE  /\ RestorePlan(disk, cr, Root) \subseteq {act}
             /\ Logical(Applied(disk, act[1], act[2]).after) = cr
  <2>1. act = <<a, t>>
    OBVIOUS
  <2>2. act[1] = a /\ act[2] = t
    BY <2>1
  <2> QED  BY <2>1, <2>2
<1> QED  BY <1>1

\* Any other plan has at most one action, and it makes the entry what it should be.
LEMMA OneAction ==
    ASSUME TypeOK, Exact, ~Listing(cmd.seen, cr), disk = cmd.seen
    PROVE  /\ RestorePlan(disk, cr, Root) = {} => Logical(disk) = cr
           /\ \A act \in RestorePlan(disk, cr, Root) :
                /\ RestorePlan(disk, cr, Root) \subseteq {act}
                /\ Logical(Applied(disk, act[1], act[2]).after) = cr
<1>0. /\ disk \in Disks /\ cr \in Entries /\ Root \notin Names /\ Root # P
      /\ Plain(disk) /\ ~InTheWay(disk, cr) /\ P \in Paths /\ cmd.pc # "offline"
  BY Constants DEF TypeOK, Exact
<1> DEFINE plan == RestorePlan(disk, cr, Root)
<1>1. CASE cr.kind = "blob"
  <2> DEFINE x == cr.c[P]
  <2>0. plan = PlanBlob(disk, P, x) /\ x \in Content /\ x \in Maybe /\ \A n \in Names : cr.c[n] = None
    <3>1. x # None /\ x \in Maybe
      BY <1>0, <1>1, EntryParts, Constants
    <3> QED  BY <1>0, <1>1, <3>1, EntryParts, Constants DEF RestorePlan
  <2>1. ASSUME NEW d \in Disks, d.kind # "dir", d.kind # "link",
               IF d.kind = "absent" THEN d.stub[P] = x ELSE d.real[P] = x
        PROVE  Logical(d) = cr
    <3>1. /\ Logical(d) \in Entries /\ Logical(d).c[P] = x /\ Logical(d).c[P] # None
          /\ \A n \in Names : Logical(d).c[n] = cr.c[n]
      BY <1>0, <2>0, <2>1, LogicalEntry, Constants
    <3>2. Logical(d).kind = "blob"
      BY <3>1, EntryParts
    <3> QED  BY <1>0, <1>1, <3>1, <3>2, EntryEqual, Constants
  <2>2. CASE disk.stub[P] # None
    <3>1. disk.kind = "absent" /\ ParentOk(disk, P)
      BY <1>0, <2>2 DEF Plain, ParentOk
    <3>2. CASE disk.stub[P] = x
      BY <1>0, <2>0, <2>1, <2>2, <3>1, <3>2 DEF PlanBlob
    <3>3. CASE disk.stub[P] # x
      <4>1. plan = {<<"stub_to_blob", P>>}
        BY <2>0, <2>2, <3>3 DEF PlanBlob
      <4>2. Applied(disk, "stub_to_blob", P).after = PutStub(disk, P, x)
        BY <3>1 DEF Applied, WhenOk
      <4> HIDE DEF x
      <4> DEFINE q == PutStub(disk, P, x)
      <4>3. q \in Disks /\ q.kind = "absent" /\ q.stub = [disk.stub EXCEPT ![P] = x]
        BY <1>0, <2>0, <3>1, PutStubDisk
      <4> HIDE DEF q
      <4>4. q.stub[P] = x
        BY <1>0, <4>3, DiskParts
      <4>5. Logical(q) = cr
        BY <2>1, <4>3, <4>4
      <4> HIDE DEF plan
      <4> QED  BY <4>1, <4>2, <4>5, Single DEF plan, q
    <3> QED  BY <3>2, <3>3
  <2>3. CASE disk.stub[P] = None /\ disk.dirstub # None
    <3>1. disk.kind = "dir"
      BY <1>0, <2>3, DiskParts
    <3>2. plan = {<<"dirstub_to_blob", P>>}
      BY <2>0, <2>3 DEF PlanBlob
    <3>3. Applied(disk, "dirstub_to_blob", P).after = PutStub(DropDir(disk), P, x)
      BY <3>1 DEF Applied, WhenOk, CanPutDirStub
    <3> HIDE DEF x
    <3> DEFINE m == DropDir(disk)
               q == PutStub(m, P, x)
    <3>4. m \in Disks /\ m.kind = "absent" /\ ParentOk(m, P)
      BY <1>0, DropDirDisk DEF ParentOk
    <3> HIDE DEF m
    <3>5. q \in Disks /\ q.kind = "absent" /\ q.stub = [m.stub EXCEPT ![P] = x]
      BY <1>0, <2>0, <3>4, PutStubDisk
    <3> HIDE DEF q
    <3>6. q.stub[P] = x
      BY <1>0, <3>4, <3>5, DiskParts
    <3>7. Logical(q) = cr
      BY <2>1, <3>5, <3>6
    <3> HIDE DEF plan
    <3> QED  BY <3>2, <3>3, <3>7, Single DEF plan, q, m
  <2>4. CASE disk.stub[P] = None /\ disk.dirstub = None
    <3>1. disk.kind # "dir"
      BY <1>0, <1>1, <2>4 DEF InTheWay
    <3>2. CASE disk.kind = "file" /\ disk.real[P] = x
      BY <1>0, <2>0, <2>1, <2>4, <3>2 DEF PlanBlob, IsFile
    <3>3. CASE ~(disk.kind = "file" /\ disk.real[P] = x)
      <4>1. plan = {<<"blob", P>>}
        BY <2>0, <2>4, <3>3 DEF PlanBlob, IsFile
      <4>2. CanPutReal(disk, P)
        BY <3>1 DEF CanPutReal, ParentOk
      <4>3. Applied(disk, "blob", P).after = DropStub(PutReal(disk, P, x), P)
        BY <1>0, <4>2 DEF Applied, WhenOk
      <4> HIDE DEF x
      <4> DEFINE m == PutReal(disk, P, x)
                 q == DropStub(m, P)
      <4>4. m \in Disks /\ m.kind = "file" /\ m.real = [disk.real EXCEPT ![P] = x]
        BY <1>0, <2>0, <4>2, PutRealDisk
      <4> HIDE DEF m
      <4>5. q \in Disks /\ q.kind = "file" /\ q.real = m.real
        BY <1>0, <4>4, DropStubDisk
      <4> HIDE DEF q
      <4>6. q.real[P] = x
        BY <1>0, <4>4, <4>5, DiskParts
      <4>7. Logical(q) = cr
        BY <2>1, <4>5, <4>6
      <4> HIDE DEF plan
      <4> QED  BY <4>1, <4>3, <4>7, Single DEF plan, q, m
    <3> QED  BY <3>2, <3>3
  <2> QED  BY <2>2, <2>3, <2>4
<1>2. CASE cr.kind = "link"
  <2>0. \A t \in Paths : cr.c[t] = None
    BY <1>0, <1>2, EntryParts, Constants
  <2>1. ASSUME NEW d \in Disks, d.kind = "link" PROVE Logical(d) = cr
    <3>1. Logical(d) \in Entries /\ Logical(d).kind = "link"
      BY <2>1, LogicalEntry
    <3>2. \A t \in Paths : Logical(d).c[t] = None
      BY <3>1, EntryParts, Constants
    <3> QED  BY <1>0, <1>2, <2>0, <3>1, <3>2, EntryEqual
  <2>2. CASE disk.kind = "link"
    BY <1>0, <1>2, <2>1, <2>2 DEF RestorePlan, PlanLink
  <2>3. CASE disk.kind # "link"
    <3>1. plan = {<<"link", P>>}
      BY <1>0, <1>2, <2>3 DEF RestorePlan, PlanLink
    <3> DEFINE m == DropStub(disk, P)
               e == [m EXCEPT !.dirstub = None]
    <3>2. m \in Disks /\ m.kind = disk.kind /\ m.real = disk.real /\ m.stub = [disk.stub EXCEPT ![P] = None]
      BY <1>0, DropStubDisk
    <3>3. Applied(disk, "link", P).after = IF CanPutLink(e) THEN PutLink(e) ELSE e
      BY DEF Applied, WhenOk
    <3> HIDE DEF m
    <3>4. e \in Disks /\ e.kind = disk.kind /\ e.real = disk.real /\ e.stub = m.stub /\ e.dirstub = None
      BY <3>2, DropDirStubDisk
    <3> HIDE DEF e
    <3>5. CanPutLink(e)
      <4>1. CASE disk.kind = "dir"
        <5>1. \A n \in Names : disk.real[n] = None /\ disk.stub[n] = None
          BY <1>0, <1>2, <4>1 DEF InTheWay, Plain, InDir
        <5>2. \A n \in Names : e.real[n] = None /\ e.stub[n] = None
          BY <1>0, <3>2, <3>4, <5>1, DiskParts, Constants
        <5> QED  BY <3>4, <4>1, <5>2 DEF CanPutLink, EmptyDir
      <4>2. CASE disk.kind # "dir"
        BY <3>4, <4>2 DEF CanPutLink
      <4> QED  BY <4>1, <4>2
    <3>6. PutLink(e) \in Disks /\ PutLink(e).kind = "link"
      BY <3>4, PutLinkDisk
    <3>7. Logical(PutLink(e)) = cr
      BY <2>1, <3>6
    <3> HIDE DEF plan
    <3> QED  BY <3>1, <3>3, <3>5, <3>7, Single DEF plan
  <2> QED  BY <2>2, <2>3
<1>3. CASE cr.kind = "tree"
  <2> DEFINE ch == Children(cr)
  <2>0. ch \in [Names -> Maybe] /\ \A n \in Names : ch[n] = cr.c[n]
    BY <1>0, EntryParts
  <2>1. ASSUME NEW d \in Disks, d.kind = "dir", d.dirstub = ch,
               \A n \in Names : d.real[n] = None /\ d.stub[n] = None
        PROVE  Logical(d) = cr
    <3>1. \A n \in Names : ChildContent(d, n) = cr.c[n]
      BY <2>0, <2>1, Constants DEF ChildContent
    <3> QED  BY <1>0, <1>3, <2>1, <3>1, WholeTree
  <2>2. CASE disk.dirstub # None
    <3>1. disk.kind = "dir" /\ \A n \in Names : disk.real[n] = None /\ disk.stub[n] = None
      BY <1>0, <2>2, DiskParts DEF Plain, InDir
    <3>2. plan = IF disk.dirstub # ch THEN {<<"dirstub_to_tree", P>>} ELSE {}
      BY <1>0, <1>3, <2>2 DEF RestorePlan, PlanTree
    <3>3. disk.dirstub = ch => Logical(disk) = cr
      BY <1>0, <2>1, <3>1
    <3>4. Applied(disk, "dirstub_to_tree", P).after = PutDirStub(disk, ch)
      BY <3>1 DEF Applied, WhenOk, CanPutDirStub
    <3> HIDE DEF ch
    <3> DEFINE q == PutDirStub(disk, ch)
    <3>5. q \in Disks /\ q.kind = "dir" /\ q.dirstub = ch /\ q.real = disk.real /\ q.stub = disk.stub
      BY <1>0, <2>0, <3>1, PutDirStubDisk
    <3> HIDE DEF q
    <3>6. Logical(q) = cr
      BY <2>1, <3>1, <3>5
    <3> HIDE DEF plan
    <3> QED  BY <3>2, <3>3, <3>4, <3>6, Single DEF plan, q
  <2>3. CASE disk.dirstub = None /\ disk.stub[P] # None
    <3>1. disk.kind = "absent" /\ \A n \in Names : disk.real[n] = None /\ disk.stub[n] = None
      BY <1>0, <2>3, DiskParts DEF Plain
    <3>2. plan = {<<"stub_to_tree", P>>}
      <4>1. PlanAdded(disk, cr) = {}
        BY <3>1 DEF PlanAdded
      <4>2. PlanTree(disk, cr) = {<<"stub_to_tree", P>>}
        BY <2>3 DEF PlanTree
      <4> QED  BY <1>0, <1>3, <4>1, <4>2 DEF RestorePlan
    <3> DEFINE m == DropStub(disk, P)
    <3>3. m \in Disks /\ m.kind = "absent" /\ m.real = disk.real /\ m.stub = [disk.stub EXCEPT ![P] = None]
      BY <1>0, <3>1, DropStubDisk
    <3>4. Applied(disk, "stub_to_tree", P).after = PutDirStub(m, ch)
      BY <3>3 DEF Applied, WhenOk, CanPutDirStub
    <3> HIDE DEF m, ch
    <3> DEFINE q == PutDirStub(m, ch)
    <3>5. q \in Disks /\ q.kind = "dir" /\ q.dirstub = ch /\ q.real = m.real /\ q.stub = m.stub
      BY <2>0, <3>3, PutDirStubDisk
    <3> HIDE DEF q
    <3>6. \A n \in Names : q.real[n] = None /\ q.stub[n] = None
      BY <1>0, <3>1, <3>3, <3>5, DiskParts, Constants
    <3>7. Logical(q) = cr
      BY <2>1, <3>5, <3>6
    <3> HIDE DEF plan
    <3> QED  BY <3>2, <3>4, <3>7, Single DEF plan, q
  <2> QED  BY <1>3, <2>2, <2>3 DEF Listing
<1>4. CASE cr.kind = "absent"
  <2>0. \A t \in Paths : cr.c[t] = None
    BY <1>0, <1>4, EntryParts, Constants
  <2>1. ASSUME NEW d \in Disks, d.kind = "absent", d.stub[P] = None PROVE Logical(d) = cr
    <3>1. /\ Logical(d) \in Entries /\ Logical(d).kind # "tree" /\ Logical(d).kind # "link"
          /\ \A t \in Paths : Logical(d).c[t] = None
      BY <2>1, LogicalEntry, Constants
    <3>2. Logical(d).kind = "absent"
      BY <3>1, EntryParts, Constants
    <3> QED  BY <1>0, <1>4, <2>0, <3>1, <3>2, EntryEqual
  <2>2. plan = (IF disk.kind \in {"file", "link"} THEN {<<"file", P>>} ELSE {})
               \cup (IF disk.kind = "dir" THEN {<<"added_dir", P>>} ELSE {})
               \cup (IF disk.stub[P] # None THEN {<<"orphan_stub", P>>} ELSE {})
    BY <1>0, <1>4 DEF RestorePlan
  <2>3. CASE disk.kind = "absent" /\ disk.stub[P] = None
    BY <1>0, <2>1, <2>2, <2>3
  <2>4. CASE disk.kind = "absent" /\ disk.stub[P] # None
    <3>1. plan = {<<"orphan_stub", P>>}
      BY <2>2, <2>4
    <3> DEFINE q == DropStub(disk, P)
    <3>2. Applied(disk, "orphan_stub", P).after = q
      BY DEF Applied, WhenOk, CanDropStub, ParentOk
    <3>3. q \in Disks /\ q.kind = "absent" /\ q.stub = [disk.stub EXCEPT ![P] = None]
      BY <1>0, <2>4, DropStubDisk
    <3> HIDE DEF q
    <3>4. Logical(q) = cr
      BY <1>0, <2>1, <3>3, DiskParts
    <3> HIDE DEF plan
    <3> QED  BY <3>1, <3>2, <3>4, Single DEF plan
  <2>5. CASE disk.kind \in {"file", "link"}
    <3>0. disk.stub[P] = None
      BY <1>0, <2>5 DEF Plain
    <3>1. plan = {<<"file", P>>}
      BY <2>2, <2>5, <3>0
    <3> DEFINE m == DropReal(disk, P)
               q == DropStub(m, P)
    <3>2. Applied(disk, "file", P).after = q
      BY <2>5 DEF Applied, WhenOk, CanDropReal
    <3>3. m \in Disks /\ m.kind = "absent"
      BY <1>0, <2>5, DropRealDisk
    <3> HIDE DEF m
    <3>4. q \in Disks /\ q.kind = "absent" /\ q.stub = [m.stub EXCEPT ![P] = None]
      BY <1>0, <3>3, DropStubDisk
    <3> HIDE DEF q
    <3>5. Logical(q) = cr
      BY <1>0, <2>1, <3>3, <3>4, DiskParts
    <3> HIDE DEF plan
    <3> QED  BY <3>1, <3>2, <3>5, Single DEF plan
  <2>6. CASE disk.kind = "dir"
    <3>0. disk.stub[P] = None
      BY <1>0, <2>6 DEF Plain
    <3>1. plan = {<<"added_dir", P>>}
      BY <2>2, <2>6, <3>0
    <3> DEFINE q == DropDir(disk)
    <3>2. Applied(disk, "added_dir", P).after = q
      BY <2>6 DEF Applied, WhenOk, CanMakeDir
    <3>3. q \in Disks /\ q.kind = "absent" /\ q.stub = [Nowhere EXCEPT ![P] = disk.stub[P]]
      BY <1>0, DropDirDisk
    <3> HIDE DEF q
    <3>4. Logical(q) = cr
      BY <1>0, <2>1, <3>0, <3>3, Constants
    <3> HIDE DEF plan
    <3> QED  BY <3>1, <3>2, <3>4, Single DEF plan
  <2> QED  BY <1>0, <2>3, <2>4, <2>5, <2>6, DiskParts
<1> QED  BY <1>0, <1>1, <1>2, <1>3, <1>4, EntryParts

\* A command that is not a restore does not become one.
LEMMA NotRestore ==
    ASSUME TypeOK, PlaceInv, Clone \/ Stub \/ Expand \/ Pull \/ Push \/ Reconcile \/ SyncEnd \/ Crash
    PROVE  cmd'.name # "restore"
<1>0. CmdOK(cmd) /\ cmd.goal \in Entries
  BY DEF TypeOK, CmdOK
<1>2. ASSUME cmd' = Idle PROVE cmd'.name # "restore"
  BY <1>2, IdleOK
<1>3. ASSUME Fail \/ StopCmd \/ (\E d : Abort(d)) PROVE cmd'.name # "restore"
  BY <1>2, <1>3 DEF Fail, StopCmd, Abort
<1>4. CASE Clone
  <2>1. CASE \E force \in BOOLEAN : CloneStart(force)
    BY <2>1 DEF CloneStart, Idle
  <2>2. CASE CloneRoot
    BY <1>3, <2>2 DEF CloneRoot
  <2>3. CASE CloneEntry
    BY <1>0, <1>3, <2>3, EntryParts
       DEF CmdOK, CloneEntry, Running, ClonePutBlob, ClonePutLink, ClonePutTree, Goto
  <2>4. ASSUME NEW n \in Names, CloneChild(n) PROVE cmd'.name # "restore"
    BY <1>0, <1>3, <2>4 DEF CmdOK, CloneChild, Running, ClonePutBlob
  <2> QED  BY <1>4, <2>1, <2>2, <2>3, <2>4 DEF Clone
<1>5. CASE Stub
  <2>1. CASE \E t \in Paths : StubStart(t)
    BY <2>1 DEF StubStart, Idle
  <2>2. CASE StubVerify \/ StubMark \/ StubCheck \/ StubChanged \/ StubDelete
    BY <1>0, <1>3, <2>2 DEF CmdOK, StubVerify, StubMark, StubCheck, StubChanged, StubDelete, Running, Goto
  <2> QED  BY <1>5, <2>1, <2>2 DEF Stub
<1>6. CASE Expand
  <2>1. CASE \E scope \in Paths \cup {Root} : ExpandStart(scope)
    BY <2>1 DEF ExpandStart, Idle
  <2>2. CASE ExpandLowerEnd \/ ExpandDirStart \/ ExpandDirEnd \/ ExpandEnd
    BY <1>0, <1>3, <2>2 DEF CmdOK, ExpandLowerEnd, ExpandDirStart, ExpandDirEnd, ExpandEnd, Running
  <2>3. ASSUME NEW n \in Names, ExpandLower(n) \/ ExpandDirChild(n) PROVE cmd'.name # "restore"
    BY <1>0, <1>3, <2>3 DEF CmdOK, ExpandLower, ExpandDirChild, Running
  <2>4. ASSUME NEW t \in Paths, ExpandFile(t) PROVE cmd'.name # "restore"
    BY <1>0, <1>3, <2>4 DEF CmdOK, ExpandFile, Running
  <2> QED  BY <1>6, <2>1, <2>2, <2>3, <2>4 DEF Expand
<1>7. CASE Pull
  <2>1. CASE PullStart
    BY <2>1 DEF PullStart, Idle
  <2>2. CASE PullVerify \/ PullPrune \/ PullRoot
    BY <1>0, <1>3, <2>2 DEF CmdOK, PullVerify, PullPrune, PullRoot, Running
  <2>3. ASSUME NEW x \in Paths, PullDelete(x) PROVE cmd'.name # "restore"
    BY <1>0, <1>3, <2>3 DEF CmdOK, PullDelete, Running
  <2>4. ASSUME NEW x \in Paths, PullWrite(x) PROVE cmd'.name # "restore"
    BY <1>0, <1>3, <2>4 DEF CmdOK, PullWrite, Running, WriteStub, WriteFile, WriteModified, WriteEmptyDir,
                            WriteLink, WriteTree
  <2> QED  BY <1>7, <2>1, <2>2, <2>3, <2>4 DEF Pull
<1>8. CASE Push
  <2>1. CASE PushStart
    BY <2>1 DEF PushStart, Idle
  <2>2. CASE PushPublish \/ PushRoot
    BY <1>0, <1>3, <2>2 DEF CmdOK, PushPublish, PushRoot, Running, Goto
  <2> QED  BY <1>8, <2>1, <2>2 DEF Push
<1>9. CASE Reconcile
  <2>0. cmd.name \in {"pull", "push"}
    BY <1>9 DEF Reconcile, Reconciling
  <2>1. CASE ReconcileFileStub
    BY <1>0, <1>3, <2>0, <2>1, EntryParts DEF CmdOK, ReconcileFileStub, Done
  <2>2. CASE ReconcileDirStub
    BY <1>0, <1>3, <2>0, <2>2, EntryParts DEF CmdOK, ReconcileDirStub, Done
  <2>3. ASSUME NEW n \in Names, ReconcileChildStub(n) PROVE cmd'.name # "restore"
    BY <1>0, <1>3, <2>0, <2>3 DEF CmdOK, ReconcileChildStub, Done
  <2> QED  BY <1>9, <2>1, <2>2, <2>3 DEF Reconcile
<1>10. CASE SyncEnd \/ Crash
  BY <1>3, <1>10 DEF SyncEnd, Crash
<1> QED  BY <1>4, <1>5, <1>6, <1>7, <1>8, <1>9, <1>10

\* The directory is made first, and then the names are as the restore saw them.
LEMMA FirstAction ==
    ASSUME TypeOK, Exact, Listing(cmd.seen, cr), disk = cmd.seen,
           cmd.todo = RestorePlan(cmd.seen, cr, Root), NEW act \in cmd.todo,
           act[1] = "ensure_dir" \/ <<"ensure_dir", P>> \notin cmd.todo,
           disk' = Applied(disk, act[1], act[2]).after, cr' = cr,
           cmd'.seen = cmd.seen, cmd'.todo = cmd.todo \ {act}
    PROVE  Filling'
<1>0. /\ disk \in Disks /\ cr \in Entries /\ Plain(disk) /\ ~InTheWay(disk, cr)
      /\ cr.kind = "tree" /\ disk.dirstub = None
      /\ \A n \in Names : n # P /\ (disk.stub[n] = None \/ disk.real[n] = None)
  BY Constants DEF TypeOK, Exact, Listing, Plain
<1> DEFINE Make == <<"ensure_dir", P>>
<1>1. act = Make
  <2>1. act[1] = "ensure_dir"
    BY <1>0, ListingPlan
  <2>2. act = Make \/ \E n \in Names : act = <<ActionFor(disk, cr, n), n>>
    BY <1>0, ListingPlan
  <2>3. \A n \in Names : <<ActionFor(disk, cr, n), n>>[1] # "ensure_dir"
    BY DEF ActionFor
  <2> QED  BY <2>1, <2>2, <2>3
<1>2. CanMakeDir(disk)
  BY <1>0, DiskParts DEF InTheWay, CanMakeDir
<1>3. disk' = MakeDir(disk)
  <2>1. act[1] = "ensure_dir"
    BY <1>1
  <2>2. Applied(disk, "ensure_dir", act[2]).after = MakeDir(disk)
    BY <1>2 DEF Applied, WhenOk
  <2> QED  BY <2>1, <2>2
<1>4. /\ disk' \in Disks /\ disk'.kind = "dir" /\ disk'.real = disk.real /\ disk'.stub = disk.stub
      /\ disk'.dirstub = None
  BY <1>0, <1>2, <1>3, MakeDirDisk
<1>5. ASSUME NEW n \in Names, <<ActionFor(disk, cr, n), n>> \notin cmd.todo \ {act}
      PROVE  ChildContent(disk', n) = cr.c[n]
  <2>1. <<ActionFor(disk, cr, n), n>> # act
    BY <1>0, <1>1
  <2>2. ~Due(disk, cr, n)
    BY <1>0, <1>5, <2>1, ListingPlan
  <2>3. ~Due(disk', cr, n)
    BY <1>4, <2>2 DEF Due
  <2> QED  BY <1>0, <1>4, <2>3, NotDue
<1>6. Make \notin cmd'.todo
  BY <1>1
<1> QED  BY <1>0, <1>4, <1>5, <1>6 DEF Filling

\* Each action then brings its name to clone_root and leaves the others alone.
LEMMA NextAction ==
    ASSUME TypeOK, RestoreInv, Exact, Filling, NEW act \in cmd.todo,
           disk' = Applied(disk, act[1], act[2]).after, cr' = cr,
           cmd'.seen = cmd.seen, cmd'.todo = cmd.todo \ {act}
    PROVE  Filling'
<1> DEFINE s == cmd.seen
<1>0. /\ disk \in Disks /\ s \in Disks /\ cr \in Entries /\ Plain(s) /\ Listing(s, cr)
      /\ disk.kind = "dir" /\ disk.dirstub = None /\ <<"ensure_dir", P>> \notin cmd.todo
      /\ act \in RestorePlan(s, cr, Root) /\ cmd.pc # "offline"
  BY DEF TypeOK, Exact, Filling, RestoreInv
<1> HIDE DEF s
<1>1. PICK n \in Names : act = <<ActionFor(s, cr, n), n>> /\ Due(s, cr, n)
  BY <1>0, ListingPlan
<1>2. /\ disk.real[n] = s.real[n] /\ disk.stub[n] = s.stub[n] /\ n \in Paths /\ n # P
      /\ s.stub[n] = None \/ s.real[n] = None
      /\ cr.c[n] \in Maybe /\ (cr.c[n] # None => cr.c[n] \in Content)
  BY <1>0, <1>1, Constants, EntryParts DEF Filling, Plain, s
<1>3. ParentOk(disk, n) /\ CanPutReal(disk, n) /\ CanDropReal(disk, n) /\ CanDropStub(disk, n)
  BY <1>0, <1>2 DEF ParentOk, CanPutReal, CanDropReal, CanDropStub
<1> DEFINE a == ActionFor(s, cr, n)
           x == cr.c[n]
<1>4. disk' = Applied(disk, a, n).after
  BY <1>1
<1>5. /\ disk' \in Disks /\ disk'.kind = "dir" /\ disk'.dirstub = None
      /\ \A m \in Names \ {n} : disk'.real[m] = disk.real[m] /\ disk'.stub[m] = disk.stub[m]
      /\ ChildContent(disk', n) = x
  <2>0. disk.real \in [Paths -> Maybe] /\ disk.stub \in [Paths -> Maybe] /\ Names \subseteq Paths
    BY <1>0, DiskParts, Constants
  <2>1. CASE a = "file"
    <3> DEFINE p == DropReal(disk, n)
    <3>1. disk' = DropStub(p, n) /\ x = None
      BY <1>3, <1>4, <2>1 DEF Applied, WhenOk, ActionFor
    <3>2. p \in Disks /\ p.real = [disk.real EXCEPT ![n] = None] /\ p.stub = disk.stub /\ p.dirstub = None
          /\ p.kind = "dir"
      BY <1>0, <1>2, DropRealDisk
    <3> HIDE DEF p
    <3>3. disk' \in Disks /\ disk'.real = p.real /\ disk'.stub = [p.stub EXCEPT ![n] = None]
          /\ disk'.dirstub = None /\ disk'.kind = "dir"
      <4>1. DropStub(p, n) \in Disks /\ DropStub(p, n).real = p.real
            /\ DropStub(p, n).stub = [p.stub EXCEPT ![n] = None]
            /\ DropStub(p, n).dirstub = None /\ DropStub(p, n).kind = "dir"
        BY <1>2, <3>2, DropStubDisk
      <4> QED  BY <3>1, <4>1
    <3>4. disk'.real[n] = None /\ disk'.stub[n] = None
      BY <1>2, <2>0, <3>2, <3>3
    <3>5. \A m \in Names \ {n} : disk'.real[m] = disk.real[m] /\ disk'.stub[m] = disk.stub[m]
      BY <1>2, <2>0, <3>2, <3>3
    <3> QED  BY <3>1, <3>3, <3>4, <3>5 DEF ChildContent
  <2>2. CASE a = "orphan_stub"
    <3>1. disk' = DropStub(disk, n) /\ x = None /\ disk.real[n] = None
      BY <1>2, <1>3, <1>4, <2>2 DEF Applied, WhenOk, ActionFor
    <3>2. disk' \in Disks /\ disk'.real = disk.real /\ disk'.stub = [disk.stub EXCEPT ![n] = None]
          /\ disk'.dirstub = None /\ disk'.kind = "dir"
      <4>1. DropStub(disk, n) \in Disks /\ DropStub(disk, n).real = disk.real
            /\ DropStub(disk, n).stub = [disk.stub EXCEPT ![n] = None]
            /\ DropStub(disk, n).dirstub = None /\ DropStub(disk, n).kind = "dir"
        BY <1>0, <1>2, DropStubDisk
      <4> QED  BY <3>1, <4>1
    <3>3. disk'.real[n] = None /\ disk'.stub[n] = None
      BY <1>2, <2>0, <3>1, <3>2
    <3>4. \A m \in Names \ {n} : disk'.real[m] = disk.real[m] /\ disk'.stub[m] = disk.stub[m]
      BY <1>2, <2>0, <3>2
    <3> QED  BY <3>1, <3>2, <3>3, <3>4 DEF ChildContent
  <2>3. CASE a = "stub_to_blob"
    <3>1. disk' = PutStub(disk, n, x) /\ x # None /\ disk.real[n] = None
      BY <1>2, <1>3, <1>4, <2>3 DEF Applied, WhenOk, ActionFor
    <3>0. x \in Maybe
      BY <1>2
    <3> HIDE DEF x
    <3>2. disk' \in Disks /\ disk'.real = disk.real /\ disk'.stub = [disk.stub EXCEPT ![n] = x]
          /\ disk'.dirstub = None /\ disk'.kind = "dir"
      <4>1. PutStub(disk, n, x) \in Disks /\ PutStub(disk, n, x).real = disk.real
            /\ PutStub(disk, n, x).stub = [disk.stub EXCEPT ![n] = x]
            /\ PutStub(disk, n, x).dirstub = None /\ PutStub(disk, n, x).kind = "dir"
        BY <1>0, <1>2, <1>3, <3>0, PutStubDisk
      <4> QED  BY <3>1, <4>1
    <3>3. disk'.real[n] = None /\ disk'.stub[n] = x
      BY <1>2, <2>0, <3>1, <3>2
    <3>4. \A m \in Names \ {n} : disk'.real[m] = disk.real[m] /\ disk'.stub[m] = disk.stub[m]
      BY <1>2, <2>0, <3>2
    <3> QED  BY <3>1, <3>2, <3>3, <3>4 DEF ChildContent
  <2>4. CASE a = "blob"
    <3> DEFINE p == PutReal(disk, n, x)
    <3>1. disk' = DropStub(p, n) /\ x # None
      <4>1. x # None
        BY <2>4 DEF ActionFor
      <4>2. Applied(disk, "blob", n).after = DropStub(p, n)
        BY <1>0, <1>3 DEF Applied, WhenOk
      <4> QED  BY <1>4, <2>4, <4>1, <4>2
    <3>0. x \in Content
      BY <1>2, <3>1
    <3> HIDE DEF x
    <3>2. p \in Disks /\ p.real = [disk.real EXCEPT ![n] = x] /\ p.stub = disk.stub /\ p.dirstub = None
          /\ p.kind = "dir"
      BY <1>0, <1>2, <1>3, <3>0, PutRealDisk
    <3> HIDE DEF p
    <3>3. disk' \in Disks /\ disk'.real = p.real /\ disk'.stub = [p.stub EXCEPT ![n] = None]
          /\ disk'.dirstub = None /\ disk'.kind = "dir"
      <4>1. DropStub(p, n) \in Disks /\ DropStub(p, n).real = p.real
            /\ DropStub(p, n).stub = [p.stub EXCEPT ![n] = None]
            /\ DropStub(p, n).dirstub = None /\ DropStub(p, n).kind = "dir"
        BY <1>2, <3>2, DropStubDisk
      <4> QED  BY <3>1, <4>1
    <3>4. disk'.real[n] = x
      BY <1>2, <2>0, <3>2, <3>3
    <3>5. \A m \in Names \ {n} : disk'.real[m] = disk.real[m] /\ disk'.stub[m] = disk.stub[m]
      BY <1>2, <2>0, <3>2, <3>3
    <3> QED  BY <3>1, <3>3, <3>4, <3>5 DEF ChildContent
  <2> QED  BY <2>1, <2>2, <2>3, <2>4 DEF ActionFor
<1>6. ASSUME NEW m \in Names
      PROVE  IF <<ActionFor(s, cr, m), m>> \in cmd.todo \ {act}
             THEN disk'.real[m] = s.real[m] /\ disk'.stub[m] = s.stub[m]
             ELSE ChildContent(disk', m) = cr.c[m]
  <2>1. CASE m = n
    BY <1>1, <1>5, <2>1
  <2>2. CASE m # n
    <3>1. <<ActionFor(s, cr, m), m>> # act
      BY <1>1, <2>2
    <3>2. IF <<ActionFor(s, cr, m), m>> \in cmd.todo
          THEN disk.real[m] = s.real[m] /\ disk.stub[m] = s.stub[m]
          ELSE ChildContent(disk, m) = cr.c[m]
      BY DEF Filling, s
    <3>3. ChildContent(disk', m) = ChildContent(disk, m)
      BY <1>0, <1>5, <2>2 DEF ChildContent
    <3> QED  BY <1>5, <2>2, <3>1, <3>2, <3>3
  <2> QED  BY <2>1, <2>2
<1> QED  BY <1>0, <1>5, <1>6 DEF Filling, s

\* Every step keeps a restore exact.
LEMMA ExactStep ==
    ASSUME IInv, ExactInv, Next
    PROVE  ExactInv'
<1> SUFFICES ASSUME Exact' PROVE ExactInv'
  BY DEF ExactInv
<1>0. TypeOK /\ PlaceInv /\ RestoreInv /\ CmdOK(cmd) /\ cmd'.name = "restore"
  BY DEF IInv, TypeOK, CmdOK, Exact
<1>1. CASE Clone \/ Stub \/ Expand \/ Pull \/ Push \/ Reconcile \/ SyncEnd \/ Crash
  BY <1>0, <1>1, NotRestore
<1>2. ASSUME NEW scope \in Paths \cup {Root}, RestoreStart(scope)
      PROVE  ExactInv'
  <2>1. PICK fetched \in BOOLEAN, listed \in BOOLEAN :
          /\ fetched => listed
          /\ cmd' = [Idle EXCEPT !.name = "restore", !.at = scope, !.seen = disk,
                                 !.pc = IF fetched THEN "apply" ELSE "offline",
                                 !.todo = IF ~listed /\ NeedsTree(disk, cr, scope) THEN {}
                                          ELSE RestorePlan(disk, cr, scope)]
    BY <1>2 DEF RestoreStart
  <2>2. disk' = disk /\ cr' = cr
    BY <1>2 DEF RestoreStart, Quiet
  <2>3. fetched /\ scope = Root
    BY <2>1 DEF Exact, Idle
  <2>4. cmd'.seen = disk /\ cmd'.todo = RestorePlan(disk, cr, Root)
    BY <2>1, <2>3 DEF Idle
  <2> QED  BY <2>2, <2>4 DEF ExactInv
<1>3. CASE RestoreApply
  <2>1. PICK act \in cmd.todo :
          /\ act[1] = "ensure_dir" \/ <<"ensure_dir", P>> \notin cmd.todo
          /\ disk' = Applied(disk, act[1], act[2]).after
          /\ cmd' = [cmd EXCEPT !.todo = cmd.todo \ {act}]
    BY <1>3 DEF RestoreApply
  <2>2. cr' = cr
    BY <1>3 DEF RestoreApply, Quiet
  <2>3. /\ cmd'.name = cmd.name /\ cmd'.at = cmd.at /\ cmd'.pc = cmd.pc /\ cmd'.seen = cmd.seen
        /\ cmd'.touched = cmd.touched /\ cmd'.todo = cmd.todo \ {act}
    BY <1>0, <2>1 DEF CmdOK
  <2>4. Exact
    BY <2>2, <2>3 DEF Exact
  <2>5. CASE disk = cmd.seen /\ cmd.todo = RestorePlan(cmd.seen, cr, Root) /\ Listing(cmd.seen, cr)
    <3>1. Filling'
      BY <1>0, <2>1, <2>2, <2>3, <2>4, <2>5, FirstAction
    <3> QED  BY <3>1 DEF ExactInv
  <2>6. CASE disk = cmd.seen /\ cmd.todo = RestorePlan(cmd.seen, cr, Root) /\ ~Listing(cmd.seen, cr)
    <3>1. cmd.todo \subseteq {act} /\ Logical(Applied(disk, act[1], act[2]).after) = cr
      BY <1>0, <2>4, <2>6, OneAction
    <3>2. cmd'.todo = {} /\ Logical(disk') = cr'
      BY <2>1, <2>2, <2>3, <3>1
    <3> QED  BY <3>2 DEF ExactInv
  <2>7. CASE Filling
    <3>1. Filling'
      BY <1>0, <2>1, <2>2, <2>3, <2>4, <2>7, NextAction
    <3> QED  BY <3>1 DEF ExactInv
  <2> QED  BY <2>4, <2>5, <2>6, <2>7 DEF ExactInv
<1>4. CASE RestoreEnd
  BY <1>0, <1>4, IdleOK DEF RestoreEnd, StopCmd
<1>5. CASE User
  <2>1. UserEdits(disk') /\ Touched(disk, disk') # {}
    BY <1>0, <1>5, UserDisk
  <2>2. cmd.name # "idle"
    BY <1>0, <2>1 DEF UserEdits
  <2>3. cmd' = [cmd EXCEPT !.touched = cmd.touched \cup Touched(disk, disk')]
    BY <2>1, <2>2 DEF UserEdits
  <2>4. cmd'.touched # {}
    BY <1>0, <2>1, <2>3 DEF CmdOK
  <2> QED  BY <2>4 DEF Exact
<1>6. CASE OtherPublishes
  <2>1. disk' = disk /\ cr' = cr /\ cmd' = cmd
    BY <1>6 DEF OtherPublishes
  <2> QED  BY <2>1 DEF ExactInv, Exact, Filling
<1> QED  BY <1>1, <1>2, <1>3, <1>4, <1>5, <1>6 DEF Next, Restore

\* A restore that is done has restored.
LEMMA ExactEnd ==
    ASSUME TypeOK, ExactInv, Exact, cmd.todo = {}
    PROVE  Logical(disk) = cr
<1>0. disk \in Disks /\ cmd.seen \in Disks /\ cr \in Entries /\ Plain(cmd.seen)
  BY DEF TypeOK, Exact
<1>1. CASE disk = cmd.seen /\ cmd.todo = RestorePlan(cmd.seen, cr, Root)
  <2>1. ~Listing(cmd.seen, cr)
    BY <1>0, <1>1, ListingPlan
  <2> QED  BY <1>1, <2>1, OneAction
<1>2. CASE Filling
  BY <1>0, <1>2, WholeTree DEF Filling, Listing
<1> QED  BY <1>1, <1>2 DEF ExactInv

\* A restore of everything with the remote in reach and nobody editing leaves
\* exactly the clone root, in whatever order its actions run and whatever
\* stubs, files and directories it found, provided no marker had a real entry
\* beside it and no entry of another kind was in the way.
THEOREM RestoreExact == Spec => []RestoreIsExact
<1>1. Init => ExactInv
  BY IdleOK DEF Init, ExactInv, Exact
<1>2. IInv /\ ExactInv /\ [Next]_vars => ExactInv'
  <2>1. ASSUME UNCHANGED vars, ExactInv PROVE ExactInv'
    <3>1. disk' = disk /\ cr' = cr /\ cmd' = cmd
      BY <2>1 DEF vars
    <3> QED  BY <2>1, <3>1 DEF ExactInv, Exact, Filling
  <2> QED  BY <2>1, ExactStep
<1>3. IInv /\ ExactInv => RestoreIsExact
  BY ExactEnd DEF IInv, RestoreIsExact, Exact
<1> QED  BY <1>1, <1>2, <1>3, Initially, Inductive, PTL DEF Spec
=============================================================================
