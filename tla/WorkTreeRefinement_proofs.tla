---- MODULE WorkTreeRefinement_proofs ----
(***************************************************************************)
(* The commands of WorkTreeSync act on the files a scan sees as            *)
(* LogicalTree says, for any names, contents, thresholds, edits and        *)
(* publications, and every crash.                                          *)
(*                                                                         *)
(* What makes a step on markers invisible is that every marker stands for  *)
(* a file of a known root: of clone_root while the tree is at rest, of the *)
(* two roots it moves between while a pull or a push runs.  The rest of    *)
(* the invariant says how far each command has come, for the paths that    *)
(* nobody has edited.                                                      *)
(***************************************************************************)
EXTENDS WorkTree_proofs

----------------------------------------------------------------------------
(* What a scan reads.                                                      *)

\* The parts of what a scan reads.
LEMMA Reads ==
    ASSUME NEW d \in Disks
    PROVE  /\ Scanned(d) \in [Paths -> FileOrLink]
           /\ Scanned(d)[P] = IF d.kind = "absent" THEN d.stub[P]
                              ELSE IF d.kind = "link" THEN "link" ELSE d.real[P]
           /\ \A n \in Names : Scanned(d)[n] = IF d.real[n] # None THEN d.real[n]
                                               ELSE IF d.stub[n] # None THEN d.stub[n]
                                               ELSE IF d.dirstub # None THEN d.dirstub[n]
                                               ELSE None
  BY DiskParts, Constants DEF Scanned, ChildContent, FileOrLink

\* The parts of the files of a root.
LEMMA FilesParts ==
    ASSUME NEW e \in Entries
    PROVE  /\ Files(e) \in [Paths -> FileOrLink]
           /\ Files(e)[P] = IF e.kind = "link" THEN "link" ELSE e.c[P]
           /\ \A n \in Names : Files(e)[n] = e.c[n]
           /\ \A t \in Paths : e.c[t] # None => Files(e)[t] = e.c[t]
           /\ e.kind \in {"tree", "absent"} => \A t \in Paths : Files(e)[t] = e.c[t]
  BY EntryParts, Constants DEF Files, FileOrLink

\* A file or a stub is seen at t; what stands behind it there.
Behind(d, t) == IF t # P /\ d.dirstub # None THEN d.dirstub[t] ELSE None
Seen(d, q, u) == Scanned(q)[u] = Scanned(d)[u]
\* Nothing but the file and the stub at t differ; if t is inside the directory,
\* the directory may be new.
OnlyAt(d, q, t) ==
    /\ q \in Disks /\ q.dirstub = d.dirstub
    /\ \A u \in Paths \ {t} : q.real[u] = d.real[u] /\ q.stub[u] = d.stub[u]
    /\ \A u \in Paths \ {t} : (t # P => d.stub[P] = None) => Seen(d, q, u)

\* What a scan reads of a path depends on nothing but these.
LEMMA SameName ==
    ASSUME NEW d \in Disks, NEW q \in Disks, NEW n \in Names,
           q.real[n] = d.real[n], q.stub[n] = d.stub[n], q.dirstub = d.dirstub
    PROVE  Seen(d, q, n)
<1>1. Scanned(d)[n] = IF d.real[n] # None THEN d.real[n] ELSE IF d.stub[n] # None THEN d.stub[n]
                      ELSE IF d.dirstub # None THEN d.dirstub[n] ELSE None
  BY Reads
<1>2. Scanned(q)[n] = IF q.real[n] # None THEN q.real[n] ELSE IF q.stub[n] # None THEN q.stub[n]
                      ELSE IF q.dirstub # None THEN q.dirstub[n] ELSE None
  BY Reads
<1> QED  BY <1>1, <1>2 DEF Seen

\* A change that leaves P's kind, file and marker alone leaves what a scan reads at P alone.
LEMMA SameP ==
    ASSUME NEW d \in Disks, NEW q \in Disks, q.kind = d.kind,
           q.real[P] = d.real[P], q.stub[P] = d.stub[P]
    PROVE  Seen(d, q, P)
<1>1. Scanned(d)[P] = IF d.kind = "absent" THEN d.stub[P]
                      ELSE IF d.kind = "link" THEN "link" ELSE d.real[P]
  BY Reads
<1>2. Scanned(q)[P] = IF q.kind = "absent" THEN q.stub[P]
                      ELSE IF q.kind = "link" THEN "link" ELSE q.real[P]
  BY Reads
<1> QED  BY <1>1, <1>2 DEF Seen

\* What a scan reads at a name, by what is there.
LEMMA ReadsName ==
    ASSUME NEW d \in Disks, NEW n \in Names
    PROVE  /\ d.real[n] # None => Scanned(d)[n] = d.real[n]
           /\ d.real[n] = None /\ d.stub[n] # None => Scanned(d)[n] = d.stub[n]
           /\ d.real[n] = None /\ d.stub[n] = None /\ d.dirstub # None => Scanned(d)[n] = d.dirstub[n]
           /\ d.real[n] = None /\ d.stub[n] = None /\ d.dirstub = None => Scanned(d)[n] = None
<1>1. Scanned(d)[n] = IF d.real[n] # None THEN d.real[n] ELSE IF d.stub[n] # None THEN d.stub[n]
                      ELSE IF d.dirstub # None THEN d.dirstub[n] ELSE None
  BY Reads
<1> QED  BY <1>1

\* What a scan reads at a path: the real file wins, then the file's marker, then the directory's.
LEMMA ReadsAt ==
    ASSUME NEW d \in Disks, NEW t \in Paths
    PROVE  /\ ~Exists(d, t) => Scanned(d)[t] = IF d.stub[t] # None THEN d.stub[t] ELSE Behind(d, t)
           /\ Exists(d, t) /\ d.real[t] # None => Scanned(d)[t] = d.real[t]
           /\ IsFile(d, t) => Exists(d, t) /\ d.real[t] # None
           /\ d.kind = "link" => Scanned(d)[P] = "link"
           /\ d.kind = "dir" => Scanned(d)[P] = None
           /\ t \in Names /\ ~IsFile(d, t) => ~Exists(d, t)
           /\ Exists(d, P) <=> d.kind # "absent"
<1>1. IsFile(d, t) <=> d.real[t] # None
  BY IsFileReal
<1>2. Exists(d, t) <=> IF t = P THEN d.kind # "absent" ELSE d.real[t] # None
  BY DEF Exists
<1>3. Exists(d, P) <=> d.kind # "absent"
  BY Constants DEF Exists
<1>4. CASE t = P
  BY <1>1, <1>2, <1>3, <1>4, Reads, DiskParts, Constants DEF Behind
<1>5. CASE t # P
  <2>1. t \in Names
    BY <1>5, Constants
  <2> QED  BY <1>1, <1>2, <1>3, <1>5, <2>1, Reads, DiskParts, Constants DEF Behind
<1> QED  BY <1>4, <1>5

\* Writing a file makes the scan read it there, and read every other path as before.
LEMMA PutRealScan ==
    ASSUME NEW d \in Disks, NEW t \in Paths, NEW x \in Content, CanPutReal(d, t),
           NEW q, q = PutReal(d, t, x)
    PROVE  /\ OnlyAt(d, q, t) /\ q.real[t] = x /\ q.stub = d.stub
           /\ q.kind = IF t = P THEN "file" ELSE "dir"
           /\ Scanned(q)[t] = x
<1>1. /\ q \in Disks /\ q.real = [d.real EXCEPT ![t] = x] /\ q.stub = d.stub
      /\ q.dirstub = d.dirstub /\ q.kind = IF t = P THEN "file" ELSE "dir"
  BY PutRealDisk
<1>2. q.real[t] = x /\ \A u \in Paths \ {t} : q.real[u] = d.real[u]
  BY <1>1, DiskParts
<1>3. x # None
  BY Constants
<1>4. \A n \in Names \ {t} : Seen(d, q, n)
  BY <1>1, <1>2, SameName, Constants
<1>5. CASE t = P
  <2>2. Scanned(q)[t] = x
    BY <1>1, <1>2, <1>5, Reads
  <2> QED  BY <1>1, <1>2, <1>4, <1>5, <2>2, Constants DEF OnlyAt
<1>6. CASE t # P
  <2>1. t \in Names /\ d.kind \in {"absent", "dir"}
    BY <1>6, Constants DEF CanPutReal, ParentOk
  <2>3. d.stub[P] = None => Seen(d, q, P)
    <3>1. q.real[P] = d.real[P] /\ d.real[P] = None /\ q.kind = "dir"
      BY <1>1, <1>2, <1>6, <2>1, DiskParts, Constants
    <3> QED  BY <1>1, <2>1, <3>1, Reads DEF Seen
  <2>4. Scanned(q)[t] = x
    BY <1>1, <1>2, <1>3, <2>1, ReadsName
  <2> QED  BY <1>1, <1>2, <1>4, <2>1, <2>3, <2>4, Constants DEF OnlyAt
<1> QED  BY <1>5, <1>6

\* Writing a marker changes only the path of the marker, and nothing where a real file shadows it.
LEMMA PutStubScan ==
    ASSUME NEW d \in Disks, NEW t \in Paths, NEW x \in Maybe, ParentOk(d, t),
           NEW q, q = PutStub(d, t, x)
    PROVE  /\ OnlyAt(d, q, t) /\ q.real = d.real /\ q.stub[t] = x
           /\ q.kind = IF t = P THEN d.kind ELSE "dir"
           /\ Exists(d, t) => Seen(d, q, t)
           /\ ~Exists(d, t) /\ x # None => Scanned(q)[t] = x
<1>1. /\ q \in Disks /\ q.real = d.real /\ q.stub = [d.stub EXCEPT ![t] = x]
      /\ q.dirstub = d.dirstub /\ q.kind = IF t = P THEN d.kind ELSE "dir"
  BY PutStubDisk
<1>2. q.stub[t] = x /\ \A u \in Paths \ {t} : q.stub[u] = d.stub[u]
  BY <1>1, DiskParts
<1>3. \A n \in Names \ {t} : Seen(d, q, n)
  BY <1>1, <1>2, SameName, Constants
<1>4. CASE t = P
  <2>1. d.kind # "absent" => Seen(d, q, P)
    BY <1>1, <1>4, Reads DEF Seen
  <2>2. d.kind = "absent" => Scanned(q)[t] = x
    BY <1>1, <1>2, <1>4, Reads
  <2> QED  BY <1>1, <1>2, <1>3, <1>4, <2>1, <2>2, Constants DEF OnlyAt, Exists
<1>5. CASE t # P
  <2>1. t \in Names /\ d.kind \in {"absent", "dir"}
    BY <1>5, Constants DEF ParentOk
  <2>3. d.stub[P] = None => Seen(d, q, P)
    <3>1. q.real[P] = d.real[P] /\ d.real[P] = None /\ q.kind = "dir"
      BY <1>1, <1>2, <1>5, <2>1, DiskParts, Constants
    <3> QED  BY <1>1, <2>1, <3>1, Reads DEF Seen
  <2>4. d.real[t] # None => Seen(d, q, t)
    BY <1>1, <2>1, ReadsName DEF Seen
  <2>5. d.real[t] = None /\ x # None => Scanned(q)[t] = x
    BY <1>1, <1>2, <2>1, ReadsName
  <2> QED  BY <1>1, <1>2, <1>3, <1>5, <2>1, <2>3, <2>4, <2>5, Constants DEF OnlyAt, Exists
<1> QED  BY <1>4, <1>5

\* Removing a marker changes only its own path.
LEMMA DropStubScan ==
    ASSUME NEW d \in Disks, NEW t \in Paths, NEW q, q = DropStub(d, t)
    PROVE  /\ q \in Disks /\ q.real = d.real /\ q.dirstub = d.dirstub /\ q.kind = d.kind
           /\ q.stub[t] = None /\ \A u \in Paths \ {t} : q.stub[u] = d.stub[u] /\ Seen(d, q, u)
           /\ Scanned(q)[t] = IF Exists(d, t) THEN Scanned(d)[t] ELSE Behind(d, t)
<1>1. /\ q \in Disks /\ q.real = d.real /\ q.stub = [d.stub EXCEPT ![t] = None]
      /\ q.dirstub = d.dirstub /\ q.kind = d.kind
  BY DropStubDisk
<1>2. q.stub[t] = None /\ \A u \in Paths \ {t} : q.stub[u] = d.stub[u]
  BY <1>1, DiskParts
<1>3. \A u \in Paths \ {t} : Seen(d, q, u)
  <2>1. ASSUME NEW u \in Names \ {t} PROVE Seen(d, q, u)
    BY <1>1, <1>2, SameName, Constants
  <2>2. P # t => Seen(d, q, P)
    BY <1>1, <1>2, SameP, Constants
  <2> QED  BY <2>1, <2>2, Constants
<1>4. Scanned(q)[t] = IF Exists(d, t) THEN Scanned(d)[t] ELSE Behind(d, t)
  <2>1. CASE t = P
    <3>1. d.kind = "absent" => Scanned(q)[P] = None
      BY <1>1, <1>2, <2>1, Reads
    <3>2. d.kind # "absent" => Scanned(q)[P] = Scanned(d)[P]
      BY <1>1, Reads
    <3> QED  BY <2>1, <3>1, <3>2 DEF Exists, Behind
  <2>2. CASE t # P
    <3>1. t \in Names
      BY <2>2, Constants
    <3>2. d.real[t] # None => Scanned(q)[t] = Scanned(d)[t]
      BY <1>1, <3>1, ReadsName
    <3>3. d.real[t] = None => Scanned(q)[t] = IF d.dirstub # None THEN d.dirstub[t] ELSE None
      <4>1. q.real[t] = d.real[t] /\ q.stub[t] = None /\ q.dirstub = d.dirstub
        BY <1>1, <1>2
      <4>2. q \in Disks
        BY <1>1
      <4> QED  BY <3>1, <4>1, <4>2, ReadsName
    <3> QED  BY <2>2, <3>2, <3>3 DEF Exists, Behind
  <2> QED  BY <2>1, <2>2
<1> QED  BY <1>1, <1>2, <1>3, <1>4

\* Removing a file changes only its own path.
LEMMA DropRealScan ==
    ASSUME NEW d \in Disks, NEW t \in Paths, t = P => d.kind # "dir", NEW q, q = DropReal(d, t)
    PROVE  /\ q \in Disks /\ q.stub = d.stub /\ q.dirstub = d.dirstub
           /\ q.kind = (IF t = P THEN "absent" ELSE d.kind)
           /\ q.real[t] = None /\ \A u \in Paths \ {t} : q.real[u] = d.real[u] /\ Seen(d, q, u)
           /\ Scanned(q)[t] = IF d.stub[t] # None THEN d.stub[t]
                              ELSE IF t # P THEN Behind(d, t) ELSE None
<1>1. /\ q \in Disks /\ q.real = [d.real EXCEPT ![t] = None] /\ q.stub = d.stub
      /\ q.dirstub = d.dirstub /\ q.kind = IF t = P THEN "absent" ELSE d.kind
  BY DropRealDisk
<1>2. q.real[t] = None /\ \A u \in Paths \ {t} : q.real[u] = d.real[u]
  BY <1>1, DiskParts
<1>3. \A u \in Paths \ {t} : Seen(d, q, u)
  <2>1. ASSUME NEW u \in Names \ {t} PROVE Seen(d, q, u)
    BY <1>1, <1>2, SameName, Constants
  <2>2. P # t => Seen(d, q, P)
    BY <1>1, <1>2, SameP, Constants
  <2> QED  BY <2>1, <2>2, Constants
<1>4. CASE t = P
  <2>1. Scanned(q)[t] = d.stub[t]
    BY <1>1, <1>4, Reads
  <2> QED  BY <1>1, <1>2, <1>3, <1>4, <2>1
<1>5. CASE t # P
  <2>1. t \in Names
    BY <1>5, Constants
  <2>2. Scanned(q)[t] = IF d.stub[t] # None THEN d.stub[t]
                        ELSE IF d.dirstub # None THEN d.dirstub[t] ELSE None
    <3>1. q.real[t] = None /\ q.stub[t] = d.stub[t] /\ q.dirstub = d.dirstub /\ q \in Disks
      BY <1>1, <1>2
    <3> QED  BY <2>1, <3>1, ReadsName
  <2> QED  BY <1>1, <1>2, <1>3, <1>5, <2>2 DEF Behind
<1> QED  BY <1>4, <1>5

\* A directory marker adds its children only where no file and no child marker is.
LEMMA PutDirStubScan ==
    ASSUME NEW d \in Disks, NEW ch \in [Names -> Maybe], d.kind \in {"absent", "dir"},
           NEW q, q = PutDirStub(d, ch)
    PROVE  /\ q \in Disks /\ q.real = d.real /\ q.stub = d.stub /\ q.dirstub = ch
           /\ q.kind = "dir" /\ Scanned(q)[P] = None
           /\ \A n \in Names : Scanned(q)[n] = IF d.real[n] # None THEN d.real[n]
                                               ELSE IF d.stub[n] # None THEN d.stub[n]
                                               ELSE ch[n]
<1>1. /\ q \in Disks /\ q.real = d.real /\ q.stub = d.stub
      /\ q.dirstub = ch /\ q.kind = "dir"
  BY PutDirStubDisk
<1>2. ch # None
  BY Constants
<1> QED  BY <1>1, <1>2, Reads, DiskParts

\* Removing the directory marker takes away only the paths it alone stood for.
LEMMA DropDirStubScan ==
    ASSUME NEW d \in Disks, NEW q, q = [d EXCEPT !.dirstub = None]
    PROVE  /\ q \in Disks /\ q.real = d.real /\ q.stub = d.stub
           /\ q.dirstub = None /\ q.kind = d.kind /\ Seen(d, q, P)
           /\ \A n \in Names : Scanned(q)[n] = IF d.real[n] # None THEN d.real[n]
                                               ELSE d.stub[n]
<1>1. /\ q \in Disks /\ q.real = d.real /\ q.stub = d.stub
      /\ q.dirstub = None /\ q.kind = d.kind
  BY DropDirStubDisk
<1>2. Seen(d, q, P)
  BY <1>1, SameP
<1>3. ASSUME NEW n \in Names PROVE Scanned(q)[n] = IF d.real[n] # None THEN d.real[n] ELSE d.stub[n]
  BY <1>1, ReadsName
<1> QED  BY <1>1, <1>2, <1>3

\* Creating the directory changes only what the scan reads at P.
LEMMA MakeDirScan ==
    ASSUME NEW d \in Disks, CanMakeDir(d), NEW q, q = MakeDir(d)
    PROVE  /\ q \in Disks /\ q.real = d.real /\ q.stub = d.stub
           /\ q.dirstub = d.dirstub /\ q.kind = "dir"
           /\ Scanned(q)[P] = None /\ \A n \in Names : Seen(d, q, n)
           /\ Scanned(d)[P] = IF d.kind = "absent" THEN d.stub[P] ELSE None
<1>1. /\ q \in Disks /\ q.real = d.real /\ q.stub = d.stub
      /\ q.dirstub = d.dirstub /\ q.kind = "dir"
  BY MakeDirDisk
<1>2. d.kind \in {"absent", "dir"} /\ d.real[P] = None
  BY DiskParts DEF CanMakeDir
<1>3. \A n \in Names : Seen(d, q, n)
  BY <1>1, SameName
<1> QED  BY <1>1, <1>2, <1>3, Reads

\* Removing the directory with its contents leaves only P's own marker.
LEMMA DropDirScan ==
    ASSUME NEW d \in Disks, NEW q, q = DropDir(d)
    PROVE  /\ q \in Disks /\ q.real = Nowhere /\ q.dirstub = None /\ q.kind = "absent"
           /\ q.stub[P] = d.stub[P] /\ Scanned(q)[P] = d.stub[P]
           /\ \A n \in Names : q.stub[n] = None /\ q.real[n] = None /\ Scanned(q)[n] = None
<1> DEFINE r == DropDir(d)
<1>1. /\ r \in Disks /\ r.real = Nowhere /\ r.stub = [Nowhere EXCEPT ![P] = d.stub[P]]
      /\ r.dirstub = None /\ r.kind = "absent"
  BY DropDirDisk
<1>2. q = r
  OBVIOUS
<1> HIDE DEF r
<1>3. q.stub[P] = d.stub[P] /\ \A n \in Names : q.stub[n] = None /\ q.real[n] = None
  BY <1>1, <1>2, Constants
<1>4. \A n \in Names : Scanned(q)[n] = None
  BY <1>1, <1>2, <1>3, ReadsName
<1> QED  BY <1>1, <1>2, <1>3, <1>4, Reads

\* A symbolic link at P takes the place of everything below it.
LEMMA PutLinkScan ==
    ASSUME NEW d \in Disks, NEW q, q = PutLink(d)
    PROVE  /\ q \in Disks /\ q.real = Nowhere /\ q.dirstub = None /\ q.kind = "link"
           /\ q.stub[P] = d.stub[P] /\ Scanned(q)[P] = "link"
           /\ \A n \in Names : q.stub[n] = None /\ q.real[n] = None /\ Scanned(q)[n] = None
<1> DEFINE r == PutLink(d)
<1>1. /\ r \in Disks /\ r.real = Nowhere /\ r.stub = [Nowhere EXCEPT ![P] = d.stub[P]]
      /\ r.dirstub = None /\ r.kind = "link"
  BY PutLinkDisk
<1>2. q = r
  OBVIOUS
<1> HIDE DEF r
<1>3. q.stub[P] = d.stub[P] /\ \A n \in Names : q.stub[n] = None /\ q.real[n] = None
  BY <1>1, <1>2, Constants
<1>4. \A n \in Names : Scanned(q)[n] = None
  BY <1>1, <1>2, <1>3, ReadsName
<1> QED  BY <1>1, <1>2, <1>3, <1>4, Reads

\* Pruning removes only what is empty; what it uncovers is P's own stub.
LEMMA PruneDirScan ==
    ASSUME NEW d \in Disks, NEW q, q = PruneDir(d)
    PROVE  /\ q \in Disks /\ \A t \in Paths : q.real[t] = d.real[t] /\ q.stub[t] = d.stub[t]
           /\ q.dirstub = d.dirstub /\ \A n \in Names : Seen(d, q, n)
           /\ q = d \/ (EmptyDir(d) /\ d.kind = "dir" /\ q.kind = "absent"
                        /\ Scanned(q)[P] = d.stub[P] /\ Scanned(d)[P] = None)
<1>1. CASE EmptyDir(d)
  <2>1. q = DropDir(d)
    BY <1>1 DEF PruneDir
  <2>2. d.kind = "dir" /\ d.dirstub = None /\ \A n \in Names : d.real[n] = None /\ d.stub[n] = None
    BY <1>1 DEF EmptyDir
  <2>3. q.dirstub = None /\ q.kind = "absent" /\ Scanned(q)[P] = d.stub[P]
        /\ \A n \in Names : Scanned(q)[n] = None
    BY <2>1, DropDirScan
  <2>4. \A n \in Names : Scanned(d)[n] = None
    BY <2>2, Reads
  <2>5. Scanned(d)[P] = None
    BY <2>2, ReadsAt, Constants
  <2> QED  BY <1>1, <2>2, <2>3, <2>4, <2>5, PruneDirDisk DEF Seen
<1>2. CASE ~EmptyDir(d)
  BY <1>2 DEF PruneDir, Seen
<1> QED  BY <1>1, <1>2

----------------------------------------------------------------------------
(* The invariant.                                                          *)

Calm == lost = {} /\ ~torn

\* Every marker on d stands for what e has, or for what b or g has.
Follows(d, e) ==
    /\ \A t \in Paths : d.stub[t] \in {None, e.c[t]}
    /\ d.dirstub # None => d.dirstub = Children(e) /\ e.kind \in {"tree", "absent"}
Between(d, b, g) ==
    /\ \A t \in Paths : d.stub[t] \in {None, b.c[t], g.c[t]}
    /\ d.dirstub # None => \/ d.dirstub = Children(b) /\ b.kind \in {"tree", "absent"}
                           \/ d.dirstub = Children(g) /\ g.kind = "tree"
InStep(e) == \A t \in Paths \ dirty : Scanned(disk)[t] = Files(e)[t]
NoInner(d) == \A n \in Names : d.stub[n] = None

\* What holds whatever has been torn or lost.
FromInv == /\ cmd.name \in {"push", "pull"} /\ ~Reconciling => cmd.from = cr
           /\ cmd.name = "clone" => cmd.seen = EmptyDisk
RecInv == Reconciling =>
    /\ cr = cmd.goal
    /\ P \in cmd.todo => disk.stub[P] # None
    /\ P \notin cmd.todo => disk.stub[P] \in {None, cmd.goal.c[P]}
    /\ DirStub \notin cmd.todo /\ disk.dirstub # None =>
          disk.dirstub = Children(cmd.goal) /\ cmd.goal.kind = "tree"
    /\ \A n \in Names \ cmd.todo : \/ disk.stub[n] \in {None, cmd.goal.c[n]}
                                   \/ cmd.goal.kind = "blob"
BlobInv == cmd.goal.kind = "blob" =>
    /\ cmd.name = "push" => NoInner(disk) \/ disk.dirstub # None
    /\ cmd.name = "push" /\ ~Reconciling => NoInner(disk) /\ disk.dirstub = None
    /\ cmd.name = "pull" => cmd.plan[P] \in {"added", "modified"}
    /\ cmd.name = "pull" /\ (Reconciling \/ (cmd.pc = "writes" /\ P \notin cmd.todo))
         => NoInner(disk) \/ disk.dirstub # None

\* Outside the phases that move the tree, it is in step with clone_root.
Resting == \/ cmd.name \in {"idle", "stub", "expand", "restore"}
           \/ cmd.name = "push" /\ cmd.pc # "reconcile"
           \/ cmd.name = "pull" /\ cmd.pc = "verify"
RestC == /\ cmd.touched \subseteq dirty
         /\ Resting => Follows(disk, cr) /\ InStep(cr)
         /\ repo = "none" => cr = AbsentEntry /\ InPlace(disk) \subseteq dirty
         /\ cmd.name = "clone" => cr = AbsentEntry

\* What a marker is to hide is there to be hidden.
StubC == cmd.name = "stub" =>
    /\ WholeDir => /\ cr.kind = "tree"
                   /\ cmd.pc \in {"verify", "mark"} => disk.dirstub = None
                   /\ cmd.pc = "check" => /\ disk.dirstub = Children(cr) \/ cmd.touched # {}
                                          /\ \A n \in Names \ dirty : cr.c[n] # None =>
                                                disk.real[n] # None \/ disk.stub[n] # None
                   /\ cmd.pc = "delete" => disk.dirstub = Children(cr)
    /\ ~WholeDir => /\ cr.c[cmd.at] # None
                    /\ cmd.pc = "check" => \/ disk.stub[cmd.at] = cr.c[cmd.at]
                                           \/ cmd.at \in cmd.touched
                    /\ cmd.pc = "delete" => disk.stub[cmd.at] = cr.c[cmd.at]

\* A directory stub goes once everything in it is there.
Written(left) == \A n \in StubNames(cmd.seen.dirstub) \ (dirty \cup left) :
                    disk.real[n] # None \/ disk.stub[n] # None
ExpandC == cmd.name = "expand" =>
    /\ Follows(cmd.seen, cr)
    /\ cmd.pc = "lower" => Written(cmd.todo)
    /\ cmd.pc = "tree" => Written(cmd.removed)

CloneC == cmd.name = "clone" =>
    /\ Follows(disk, cmd.goal)
    /\ cmd.pc = "entry" => Listed(disk) = {} /\ InPlace(disk) \subseteq dirty
    /\ cmd.pc = "children" =>
         /\ cmd.goal.kind = "tree" /\ disk.dirstub = None
         /\ \A t \in Paths \ (dirty \cup cmd.todo) : Scanned(disk)[t] = Files(cmd.goal)[t]
         /\ \A n \in cmd.todo \ dirty : disk.real[n] = None
    /\ cmd.pc = "root" => InStep(cmd.goal)

PushC == cmd.name = "push" =>
    /\ \A t \in Paths \ dirty : Files(cmd.goal)[t] = Files(cmd.from)[t]
    /\ Reconciling => Between(disk, cmd.from, cmd.goal) /\ InStep(cmd.from)
RecC == Reconciling =>
    /\ P \in cmd.todo => cmd.from.c[P] # None \/ cmd.goal.c[P] # None
    /\ DirStub \in cmd.todo => cmd.from.kind \in {"tree", "absent"} \/ cmd.goal.kind = "tree"
    /\ DirStub \in cmd.todo /\ disk.dirstub = None => Paths \subseteq dirty

\* The paths a pull may move, and those it has left to the reconciliation.
Mine == Paths \ (dirty \cup Beside)
Pend(t) == \/ disk.stub[P] # None /\ (t = P => disk.kind = "absent")
           \/ disk.dirstub # None
           \/ disk.stub[t] # None /\ t # P
PendR(t) == \/ disk.stub[P] # None /\ (t = P => disk.kind = "absent") /\ P \in cmd.todo
            \/ disk.dirstub # None /\ DirStub \in cmd.todo
            \/ t # P /\ disk.stub[t] # None /\ t \in cmd.todo
At(e, t) == Scanned(disk)[t] = Files(e)[t]

\* No file of Mine lies under a marker.
Apart == \A t \in Mine : IsFile(disk, t) =>
    disk.stub[t] = None /\ (t \in Names => disk.dirstub = None /\ disk.stub[P] = None)
Deleted(t) == cmd.plan[t] = "deleted" /\ t \notin cmd.todo
DeletesC ==
    /\ cmd.removed \subseteq Planned({"deleted"})
    /\ \A t \in Mine : /\ At(cmd.from, t) \/ (Deleted(t) /\ At(cmd.goal, t))
                       /\ Deleted(t) => At(cmd.goal, t) \/ Pend(t)
AddsTree == P \in cmd.todo /\ cmd.plan[P] = "tree"
WritesC ==
    /\ cmd.todo \subseteq Planned({"added", "modified", "emptydir", "link", "tree"})
    /\ AddsTree => \A n \in Names \cap Mine : Scanned(disk)[n] = None
    /\ \A t \in Mine : At(cmd.goal, t) \/ Pend(t) \/ t \in cmd.todo \/ AddsTree
MovedC ==
    /\ \A t \in Mine : At(cmd.goal, t) \/ PendR(t)
    /\ \A n \in Names \cap Mine : n \in cmd.todo => disk.real[n] = None
\* A symlink on disk is the root's.
LinkC ==
    /\ cmd.seen.kind = "link" /\ cmd.plan[P] \notin {"same", "link"} => cmd.from.kind = "link"
    /\ cmd.pc # "reconcile" /\ disk.kind = "link" =>
         cmd.seen.kind = "link" \/ cmd.goal.kind = "link"
    /\ cmd.plan[P] = "link" /\ cmd.pc # "reconcile" /\ (cmd.pc = "writes" => P \in cmd.todo)
         => (Exists(cmd.seen, P) /\ ~Exists(disk, P) => P \in dirty \cup cmd.removed)
PullC == cmd.name = "pull" =>
    /\ Follows(cmd.seen, cmd.from) /\ Apart /\ LinkC
    /\ cmd.pc = "verify" => cmd.removed = {}
    /\ cmd.pc = "deletes" => Follows(disk, cmd.from) /\ DeletesC
    /\ cmd.pc = "writes" => Between(disk, cmd.from, cmd.goal) /\ WritesC
    /\ cmd.pc = "reconcile" => Between(disk, cmd.from, cmd.goal) /\ MovedC

Always == IInv /\ FromInv /\ RecInv /\ BlobInv
CalmC == RestC /\ StubC /\ ExpandC /\ CloneC /\ PushC /\ RecC /\ PullC
RInv == Always /\ (Calm => CalmC)

----------------------------------------------------------------------------
(* Steps of LogicalTree.                                                   *)

\* A command goes on: only its progress and the disk change.
Moves ==
    /\ cmd.name \in {"clone", "stub", "expand", "pull", "push", "restore"}
    /\ disk' \in Disks
    /\ cmd'.name = cmd.name /\ cmd'.at = cmd.at /\ cmd'.seen = cmd.seen
    /\ cmd'.goal = cmd.goal /\ cmd'.plan = cmd.plan /\ cmd'.from = cmd.from
    /\ cmd'.touched = cmd.touched /\ (cmd'.pc = "reconcile" <=> cmd.pc = "reconcile")
    /\ UNCHANGED <<cr, remote, git, repo, edits, publishes, dirty, torn>>
    /\ lost \subseteq lost'
LSTEP == [Abstract!Next]_(Abstract!vars)

\* The view of the command that LogicalTree has does not change.
LEMMA MovesView ==
    ASSUME Moves
    PROVE  /\ base' = base /\ doing' = doing /\ goal' = goal /\ Beside' = Beside
           /\ doing # "none" /\ cmd'.name # "idle" /\ Reconciling' = Reconciling
<1>1. Reconciling' = Reconciling
  BY DEF Moves, Reconciling
<1>2. base' = base
  BY <1>1 DEF Moves, base
<1>3. doing' = doing /\ doing # "none"
  BY DEF Moves, doing
<1>4. goal' = goal
  BY DEF Moves, goal
<1>5. Beside' = Beside
  BY DEF Moves, Beside
<1> QED  BY <1>1, <1>2, <1>3, <1>4, <1>5 DEF Moves

\* A step that the files do not show.
LEMMA MapStutter ==
    ASSUME Moves, lost' = lost, Scanned(disk') = Scanned(disk)
    PROVE  LSTEP
  BY MovesView DEF Moves, LSTEP, Abstract!vars

\* A step that shows again, at paths the user removed, what a root has there is LogicalTree's Reappear.
LEMMA MapReappear ==
    ASSUME Moves, lost' = lost, disk \in Disks,
           \A t \in Paths : \/ Scanned(disk')[t] = Scanned(disk)[t]
                            \/ /\ t \in dirty /\ Scanned(disk)[t] \in {None, Files(base)[t]}
                               /\ Scanned(disk')[t] \in {Files(base)[t], goal[t]}
    PROVE  LSTEP
<1>1. Scanned(disk)' \in Abstract!Trees
  BY Reads DEF Abstract!Trees, Moves
<1>2. Abstract!Reappear
  BY <1>1, MovesView DEF Abstract!Reappear, Moves
<1> QED  BY <1>2 DEF Abstract!Next, LSTEP

\* A step of stub or expand that drops a marker hiding the user's removal is LogicalTree's Unmark.
LEMMA MapUnmark ==
    ASSUME Moves, lost' = lost, disk \in Disks, cmd.name \in {"stub", "expand"},
           \A t \in Paths : \/ Scanned(disk')[t] = Scanned(disk)[t]
                            \/ /\ t \in dirty /\ Scanned(disk)[t] = Files(base)[t]
                               /\ Scanned(disk')[t] = None
    PROVE  LSTEP
<1>1. Scanned(disk)' \in Abstract!Trees
  BY Reads DEF Abstract!Trees, Moves
<1>2. doing \in {"stub", "expand"}
  BY DEF doing
<1>3. Abstract!Unmark
  BY <1>1, <1>2, MovesView DEF Abstract!Unmark, Moves
<1> QED  BY <1>3 DEF Abstract!Next, LSTEP

\* A step of restore that moves paths to clone_root's files is LogicalTree's Discard.
LEMMA MapDiscard ==
    ASSUME Moves, lost' = lost, disk \in Disks, cmd.name = "restore",
           \A t \in Paths : Scanned(disk')[t] \in {Scanned(disk)[t], Files(cr)[t]}
    PROVE  LSTEP
<1>1. Scanned(disk)' \in Abstract!Trees
  BY Reads DEF Abstract!Trees, Moves
<1>2. doing = "restore" /\ goal = Files(cr)
  BY DEF doing, goal
<1>3. Abstract!Discard
  BY <1>1, <1>2, MovesView DEF Abstract!Discard, Moves
<1> QED  BY <1>3 DEF Abstract!Next, LSTEP

\* A step of pull or clone that moves unedited paths to the new root's files is LogicalTree's Adopt.
LEMMA MapAdopt ==
    ASSUME Moves, lost' = lost, disk \in Disks, cmd.name \in {"pull", "clone"},
           \A t \in Paths : \/ Scanned(disk')[t] = Scanned(disk)[t]
                            \/ /\ t \notin dirty \/ Scanned(disk)[t] = Files(base)[t]
                               /\ Scanned(disk')[t] = Files(cmd.goal)[t]
    PROVE  LSTEP
<1>1. Scanned(disk)' \in Abstract!Trees
  BY Reads DEF Abstract!Trees, Moves
<1>2. doing = "pull" /\ goal = Files(cmd.goal)
  BY DEF doing, goal
<1>3. Abstract!Adopt
  BY <1>1, <1>2, MovesView DEF Abstract!Adopt, Moves
<1> QED  BY <1>3 DEF Abstract!Next, LSTEP

\* In a torn tree any change a command makes is LogicalTree's Uncover.
LEMMA MapUncover ==
    ASSUME Moves, lost' = lost, disk \in Disks, torn
    PROVE  LSTEP
<1>1. Scanned(disk)' \in Abstract!Trees
  BY Reads DEF Abstract!Trees, Moves
<1>2. Abstract!Uncover
  BY <1>1, MovesView DEF Abstract!Uncover, Moves
<1> QED  BY <1>2 DEF Abstract!Next, LSTEP

\* A step that destroys an edited file is LogicalTree's Destroy.
LEMMA MapDestroy ==
    ASSUME Moves, lost' # {}, disk \in Disks
    PROVE  LSTEP
<1>1. Scanned(disk)' \in Abstract!Trees
  BY Reads DEF Abstract!Trees, Moves
<1>2. Abstract!Destroy
  BY <1>1, MovesView DEF Abstract!Destroy, Moves
<1> QED  BY <1>2 DEF Abstract!Next, LSTEP

\* After a destroyed file LogicalTree promises nothing.
LEMMA MapUndefined ==
    ASSUME lost # {}, lost \subseteq lost'
    PROVE  LSTEP
  BY DEF Abstract!Next, LSTEP, Abstract!Undefined

\* A command that stops without finishing.
LEMMA MapAbandon ==
    ASSUME Abort(disk'), disk \in Disks, disk' \in Disks, IInv, cmd.name # "idle",
           torn \in BOOLEAN, FromInv, RecInv,
           torn \/ LeavesTorn \/ InStep(cr),
           \A t \in Paths : \/ torn \/ Scanned(disk')[t] = Scanned(disk)[t]
                            \/ /\ t \in dirty /\ Scanned(disk)[t] \in {Files(base)[t], goal[t]}
                               /\ Scanned(disk')[t] = None
    PROVE  LSTEP
<1>1. Scanned(disk)' \in Abstract!Trees
  BY Reads DEF Abstract!Trees
<1>2. /\ cmd' = Idle /\ torn' = (torn \/ LeavesTorn)
      /\ UNCHANGED <<cr, remote, git, repo, edits, publishes, dirty, lost>>
  BY DEF Abort, StopCmd
<1>3. doing # "none" /\ doing' = "none"
  BY <1>2 DEF doing, Idle, IInv, TypeOK
<1>4. base' = cr /\ (~Reconciling => base = cr)
      /\ (Reconciling => cr = cmd.goal /\ goal = Files(cr) /\ LeavesTorn)
  BY <1>2 DEF base, Reconciling, Idle, RecInv, goal, LeavesTorn
<1>5. Beside' = {} /\ goal' = Nowhere
  <2>1. cmd'.seen = EmptyDisk /\ cmd'.name = "idle"
    BY <1>2 DEF Idle
  <2>2. \A t \in Paths : EmptyDisk.stub[t] = None /\ EmptyDisk.dirstub = None
    BY Constants DEF EmptyDisk
  <2> QED  BY <2>1, <2>2 DEF Beside, goal
<1>6. Nowhere = Abstract!NoGoal
  BY DEF Nowhere, Abstract!NoGoal
<1>7. Files(base)' \in {Files(base), goal}
  BY <1>2, <1>4 DEF base, Reconciling
<1>8. torn' \/ (Files(base)' = Files(base) /\ InStep(base))
  <2>1. CASE torn \/ LeavesTorn
    BY <1>2, <2>1
  <2>2. CASE ~LeavesTorn /\ ~torn
    <3>1. base = cr /\ base' = cr
      BY <1>4, <2>2
    <3> QED  BY <2>2, <3>1
  <2> QED  BY <2>1, <2>2
<1>9. Abstract!Abandon
  BY <1>1, <1>2, <1>3, <1>5, <1>6, <1>7, <1>8 DEF Abstract!Abandon, InStep
<1> QED  BY <1>9 DEF Abstract!Next, LSTEP

----------------------------------------------------------------------------
(* A step of a running command either goes on or stops the command.        *)

Stops == Abort(disk') /\ cmd.name # "idle"
Kept == /\ cmd'.name = cmd.name /\ cmd'.at = cmd.at /\ cmd'.seen = cmd.seen
        /\ cmd'.goal = cmd.goal /\ cmd'.plan = cmd.plan /\ cmd'.from = cmd.from
        /\ cmd'.touched = cmd.touched

\* cmd is a record of known fields.
LEMMA CmdRecord ==
    ASSUME IInv
    PROVE  CmdOK(cmd)
  BY DEF IInv, TypeOK, CmdOK

\* The steps at the beginning and the end of a command, which the shapes below
\* leave out.
Starts == \/ \E t \in Paths : StubStart(t)
          \/ \E scope \in Paths \cup {Root} : ExpandStart(scope) \/ RestoreStart(scope)
          \/ \E force \in BOOLEAN : CloneStart(force)
          \/ PushStart \/ PullStart

\* A command that stops quietly with the tree as it is ends as LogicalTree's commands end.
LEMMA StopShape ==
    ASSUME cmd.name # "idle", StopCmd, Quiet, disk' = disk, ~LeavesTorn, torn \in BOOLEAN
    PROVE  Stops
  BY DEF Stops, Abort, Quiet

\* Every later step of stub works on the tree or stops; it starts and publishes nothing.
LEMMA StubShape ==
    ASSUME IInv, Stub, ~Starts
    PROVE  Moves \/ Stops
<1>0. TypeOK /\ Next /\ disk' \in Disks /\ torn \in BOOLEAN
  BY DiskStep DEF IInv, TypeOK, Next
<1>1. CASE StubVerify
  <2>1. CASE Goto("mark")
    BY <1>0, <1>1, <2>1, CmdRecord DEF CmdOK, StubVerify, Running, Goto, Kept, Moves, Quiet
  <2>2. CASE StopCmd
    BY <1>0, <1>1, <2>2, StopShape DEF StubVerify, Running, LeavesTorn
  <2> QED  BY <1>1, <2>1, <2>2 DEF StubVerify
<1>2. CASE StubMark
  <2>1. CASE Goto("check")
    BY <1>0, <1>2, <2>1, CmdRecord DEF CmdOK, StubMark, Running, Goto, Kept, Moves, Quiet
  <2>2. CASE StopCmd /\ UNCHANGED disk
    BY <1>0, <1>2, <2>2, StopShape DEF StubMark, Running, LeavesTorn
  <2> QED  BY <1>2, <2>1, <2>2 DEF StubMark
<1>3. CASE StubCheck
  <2>1. Goto("delete") \/ Goto("changed")
    BY <1>3 DEF StubCheck
  <2> QED
    BY <1>0, <1>3, <2>1, CmdRecord DEF CmdOK, StubCheck, Running, Goto, Kept, Moves, Quiet
<1>4. CASE StubChanged
  BY <1>4 DEF StubChanged, Running, Fail, Stops, Abort
<1>5. CASE StubDelete
  <2>1. CASE StopCmd
    BY <1>0, <1>5, <2>1 DEF StubDelete, Running, LeavesTorn, Stops, Abort, Quiet
  <2>2. CASE UNCHANGED cmd
    BY <1>0, <1>5, <2>2, CmdRecord DEF CmdOK, StubDelete, Running, Kept, Moves, Quiet
  <2> QED  BY <1>5, <2>1, <2>2 DEF StubDelete
<1> QED  BY <1>1, <1>2, <1>3, <1>4, <1>5 DEF Stub, Starts

\* Every later step of expand works on the tree or stops.
LEMMA ExpandShape ==
    ASSUME IInv, Expand, ~Starts
    PROVE  Moves \/ Stops
<1>0. TypeOK /\ Next /\ disk' \in Disks /\ torn \in BOOLEAN
  BY DiskStep DEF IInv, TypeOK, Next
<1> USE DEF Running, Kept, Moves, Quiet, MayLose
<1>1. ASSUME NEW n \in Names, ExpandLower(n) PROVE Moves \/ Stops
  <2>1. CASE Fail
    BY <1>1, <2>1 DEF ExpandLower, Fail, Stops, Abort
  <2>2. CASE ~Fail
    BY <1>0, <1>1, <2>2, CmdRecord DEF CmdOK, ExpandLower
  <2> QED  BY <2>1, <2>2
<1>2. CASE ExpandLowerEnd
  <2>1. CASE Fail
    BY <1>2, <2>1 DEF ExpandLowerEnd, Fail, Stops, Abort
  <2>2. CASE ~Fail
    BY <1>0, <1>2, <2>2, CmdRecord DEF CmdOK, ExpandLowerEnd
  <2> QED  BY <2>1, <2>2
<1>3. ASSUME NEW t \in Paths, ExpandFile(t) PROVE Moves \/ Stops
  <2>1. CASE Fail
    BY <1>3, <2>1 DEF ExpandFile, Fail, Stops, Abort
  <2>2. CASE ~Fail
    BY <1>0, <1>3, <2>2, CmdRecord DEF CmdOK, ExpandFile
  <2> QED  BY <2>1, <2>2
<1>4. CASE ExpandDirStart
  <2>1. CASE Fail
    BY <1>4, <2>1 DEF ExpandDirStart, Fail, Stops, Abort
  <2>2. CASE ~Fail
    BY <1>0, <1>4, <2>2, CmdRecord DEF CmdOK, ExpandDirStart
  <2> QED  BY <2>1, <2>2
<1>5. ASSUME NEW n \in Names, ExpandDirChild(n) PROVE Moves \/ Stops
  <2>1. CASE Fail
    BY <1>5, <2>1 DEF ExpandDirChild, Fail, Stops, Abort
  <2>2. CASE ~Fail
    BY <1>0, <1>5, <2>2, CmdRecord DEF CmdOK, ExpandDirChild
  <2> QED  BY <2>1, <2>2
<1>6. CASE ExpandDirEnd
  <2>1. CASE Fail
    BY <1>6, <2>1 DEF ExpandDirEnd, Fail, Stops, Abort
  <2>2. CASE ~Fail
    BY <1>0, <1>6, <2>2, CmdRecord DEF CmdOK, ExpandDirEnd
  <2> QED  BY <2>1, <2>2
<1>7. CASE ExpandEnd
  BY <1>0, <1>7, StopShape DEF ExpandEnd, LeavesTorn
<1> QED  BY <1>1, <1>2, <1>3, <1>4, <1>5, <1>6, <1>7 DEF Expand, Starts

\* Every step of clone's materialisation works on the tree or stops.
LEMMA CloneShape ==
    ASSUME IInv, CloneEntry \/ \E n \in Names : CloneChild(n)
    PROVE  Moves \/ Stops
<1>0. TypeOK /\ disk' \in Disks /\ torn \in BOOLEAN
  <2>1. Next
    BY DEF Clone, Next
  <2> QED  BY <2>1, DiskStep DEF IInv, TypeOK
<1>1. ASSUME cmd.name = "clone", cmd.pc # "reconcile", Fail PROVE Moves \/ Stops
  BY <1>1 DEF Fail, Stops, Abort
<1>2. ASSUME cmd.name = "clone", cmd.pc # "reconcile",
             NEW t, NEW pc, pc # "reconcile", NEW leads, ClonePutBlob(t, pc, leads)
      PROVE  Moves \/ Stops
  <2>1. CASE Fail
    BY <1>1, <1>2, <2>1
  <2>2. CASE ~Fail
    BY <1>0, <1>2, <2>2, CmdRecord DEF CmdOK, ClonePutBlob, Moves, Kept, Quiet, MayLose
  <2> QED  BY <2>1, <2>2
<1>3. ASSUME cmd.name = "clone", cmd.pc # "reconcile", ClonePutLink PROVE Moves \/ Stops
  <2>1. CASE Fail
    BY <1>1, <1>3, <2>1
  <2>2. CASE ~Fail
    BY <1>0, <1>3, <2>2, CmdRecord DEF CmdOK, ClonePutLink, Moves, Kept, Quiet, MayLose, Goto
  <2> QED  BY <2>1, <2>2
<1>4. ASSUME cmd.name = "clone", cmd.pc # "reconcile", NEW leads, ClonePutTree(leads)
      PROVE  Moves \/ Stops
  <2>1. CASE Fail
    BY <1>1, <1>4, <2>1
  <2>2. CASE ~Fail
    BY <1>0, <1>4, <2>2, CmdRecord DEF CmdOK, ClonePutTree, Moves, Kept, Quiet, MayLose, Goto
  <2> QED  BY <2>1, <2>2
<1>5. CASE CloneEntry
  <2>1. cmd.name = "clone" /\ cmd.pc = "entry"
    BY <1>5 DEF CloneEntry, Running
  <2>2. CASE UNCHANGED disk /\ Goto("root") /\ Quiet
    BY <1>0, <2>1, <2>2, CmdRecord DEF CmdOK, Moves, Kept, Quiet, Goto
  <2> QED
    BY <1>2, <1>3, <1>4, <1>5, <2>1, <2>2, EntryParts, <1>0 DEF CloneEntry, TypeOK
<1>6. ASSUME NEW n \in Names, CloneChild(n) PROVE Moves \/ Stops
  BY <1>2, <1>6 DEF CloneChild, Running
<1> QED  BY <1>5, <1>6

PullMiddle == \/ PullVerify \/ PullPrune
              \/ \E x \in Paths : PullDelete(x) \/ PullWrite(x)

\* Every step of pull between its start and its root works on the tree or stops.
LEMMA PullShape ==
    ASSUME IInv, PullMiddle
    PROVE  Moves \/ Stops
<1>0. TypeOK /\ disk' \in Disks /\ torn \in BOOLEAN
  <2>1. Next
    BY DEF PullMiddle, Pull, Next
  <2> QED  BY <2>1, DiskStep DEF IInv, TypeOK
<1>a. ASSUME NEW d, cmd.name = "pull", Abort(d) PROVE Stops
  BY <1>a DEF Stops, Abort
<1> DEFINE Going == cmd.name = "pull" /\ cmd.pc # "reconcile"
<1>1. CASE PullVerify
  <2>1. CASE StopCmd
    BY <1>0, <1>1, <2>1, StopShape DEF PullVerify, Running, LeavesTorn
  <2>2. CASE ~StopCmd
    BY <1>0, <1>1, <2>2, CmdRecord DEF CmdOK, PullVerify, Running, Moves, Quiet
  <2> QED  BY <2>1, <2>2
<1>2. CASE PullPrune
  BY <1>0, <1>2, CmdRecord DEF CmdOK, PullPrune, Running, Moves, Quiet
<1>3. ASSUME NEW x \in Paths, PullDelete(x) PROVE Moves \/ Stops
  <2>1. cmd.name = "pull" /\ cmd.pc = "deletes"
    BY <1>3 DEF PullDelete, Running
  <2>2. CASE Fail
    BY <1>a, <2>1, <2>2 DEF Fail
  <2>3. CASE Quiet /\ cmd' = [cmd EXCEPT !.todo = @ \ {x}]
    BY <1>0, <2>1, <2>3, CmdRecord DEF CmdOK, Moves, Quiet
  <2>4. CASE Quiet /\ cmd' = [cmd EXCEPT !.todo = @ \ {x}, !.removed = @ \cup {x}]
    BY <1>0, <2>1, <2>4, CmdRecord DEF CmdOK, Moves, Quiet
  <2> QED  BY <1>3, <2>2, <2>3, <2>4 DEF PullDelete
<1>4. ASSUME NEW x \in Paths, PullWrite(x) PROVE Moves \/ Stops
  <2>0. Going
    BY <1>4 DEF PullWrite, Running
  <2>1. CASE \E d : Abort(d)
    BY <1>a, <2>0, <2>1
  <2>2. CASE cmd' = [cmd EXCEPT !.todo = @ \ {x}] /\ Quiet
    BY <1>0, <2>0, <2>2, CmdRecord DEF CmdOK, Moves, Quiet
  <2>3. CASE WriteStub(x) /\ ~Fail
    BY <1>0, <2>0, <2>3, CmdRecord DEF CmdOK, WriteStub, Moves, MayLose
  <2>4. CASE WriteFile(x) \/ WriteModified(x)
    BY <2>1, <2>2, <2>4 DEF WriteFile, WriteModified, Fail
  <2>5. CASE x = P /\ WriteEmptyDir
    BY <2>1, <2>2, <2>5 DEF WriteEmptyDir, Fail
  <2>6. CASE x = P /\ WriteLink
    BY <2>1, <2>2, <2>6 DEF WriteLink
  <2>7. CASE x = P /\ WriteTree
    <3>1. cmd' = [cmd EXCEPT !.todo = @ \ {P}] /\ lost \subseteq lost'
          /\ UNCHANGED <<cr, remote, git, repo, edits, publishes, dirty, torn>>
      BY <2>7 DEF WriteTree, MayLose
    <3> QED  BY <1>0, <2>0, <3>1, CmdRecord DEF CmdOK, Moves
  <2>8. \/ \E d : Abort(d)
        \/ cmd' = [cmd EXCEPT !.todo = @ \ {x}] /\ Quiet
        \/ WriteStub(x) /\ ~Fail
        \/ WriteFile(x) \/ WriteModified(x)
        \/ cmd.plan[x] \in {"emptydir", "link", "tree"} /\ (WriteEmptyDir \/ WriteLink \/ WriteTree)
    BY <1>4 DEF PullWrite, Fail
  <2>9. cmd.plan[x] \in {"emptydir", "link", "tree"} => x = P
    <3>1. cmd.plan = Diff(cmd.from, cmd.goal, TRUE)
      BY <2>0 DEF IInv, PullInv
    <3>2. DiffAtChild(cmd.from, cmd.goal, x) \notin {"emptydir", "link", "tree"}
      BY DEF DiffAtChild
    <3> QED  BY <3>1, <3>2 DEF Diff
  <2> QED  BY <2>1, <2>2, <2>3, <2>4, <2>5, <2>6, <2>7, <2>8, <2>9
<1> QED  BY <1>1, <1>2, <1>3, <1>4 DEF PullMiddle

\* Every step of the stub reconciliation works on the tree or stops.
LEMMA ReconcileShape ==
    ASSUME IInv, Reconcile
    PROVE  Moves \/ Stops
<1>0. TypeOK /\ disk' \in Disks /\ torn \in BOOLEAN /\ cmd.goal \in Entries
  <2>1. Next
    BY DEF Next
  <2> QED  BY <2>1, DiskStep DEF IInv, TypeOK
<1>1. cmd.name \in {"pull", "push"}
  BY DEF Reconcile, Reconciling
<1>2. ASSUME NEW d, Abort(d) PROVE Stops
  BY <1>1, <1>2 DEF Stops, Abort
<1>3. ASSUME NEW id, Done(id), lost \subseteq lost',
             UNCHANGED <<cr, remote, git, repo, edits, publishes, dirty, torn>>
      PROVE  Moves
  BY <1>0, <1>1, <1>3, CmdRecord DEF CmdOK, Done, Moves
<1>4. CASE ReconcileFileStub
  BY <1>0, <1>2, <1>3, <1>4, EntryParts DEF ReconcileFileStub, Quiet, MayLose
<1>5. CASE ReconcileDirStub
  BY <1>0, <1>2, <1>3, <1>5, EntryParts DEF ReconcileDirStub, Quiet, MayLose, Fail
<1>6. ASSUME NEW n \in Names, ReconcileChildStub(n) PROVE Moves \/ Stops
  BY <1>2, <1>3, <1>6 DEF ReconcileChildStub, Quiet, Fail
<1> QED  BY <1>4, <1>5, <1>6 DEF Reconcile

\* Every application of a planned restore works on the tree.
LEMMA RestoreShape ==
    ASSUME IInv, RestoreApply
    PROVE  Moves
<1>0. TypeOK /\ disk' \in Disks
  <2>1. Next
    BY DEF Restore, Next
  <2> QED  BY <2>1, DiskStep DEF IInv
<1> QED  BY <1>0, CmdRecord DEF CmdOK, RestoreApply, Moves, Quiet

\* A crash stops the command and changes no file.
LEMMA CrashShape ==
    ASSUME IInv, Crash
    PROVE  Stops
  BY DEF Crash, Stops, Abort

\* The steps of a running command, but for those that begin it, publish, move
\* clone_root or end it.
Middle == \/ (Stub /\ ~Starts) \/ (Expand /\ ~Starts)
          \/ CloneEntry \/ (\E n \in Names : CloneChild(n))
          \/ PullMiddle \/ Reconcile \/ RestoreApply \/ Crash
Ends == CloneRoot \/ PullRoot \/ PushPublish \/ PushRoot \/ SyncEnd \/ RestoreEnd

\* Every step in the middle of a command works on the tree or stops.
LEMMA MiddleShape ==
    ASSUME IInv, Middle
    PROVE  Moves \/ Stops
  BY StubShape, ExpandShape, CloneShape, PullShape, ReconcileShape, RestoreShape, CrashShape
     DEF Middle

\* Every step is one of these, or the user's, or another clone's.
LEMMA NextShape ==
    ASSUME Next
    PROVE  Starts \/ Middle \/ Ends \/ User \/ OtherPublishes
  BY DEF Next, Starts, Middle, Ends, Clone, Stub, Expand, Pull, PullMiddle, Push, Restore

\* What is lost stays lost.
LEMMA LostGrows ==
    ASSUME IInv, Next
    PROVE  /\ lost \subseteq lost'
           /\ lost' # lost => Moves
<1>1. CASE Moves
  BY <1>1 DEF Moves
<1>2. CASE Stops
  BY <1>2 DEF Stops, Abort
<1>3. CASE Starts
  <2>1. lost' = lost
    <3>1. CASE PullStart
      BY <3>1 DEF PullStart, Quiet
    <3>2. CASE \E t \in Paths : StubStart(t)
      BY <3>2 DEF StubStart, Quiet
    <3>3. CASE \E scope \in Paths \cup {Root} : ExpandStart(scope)
      BY <3>3 DEF ExpandStart, Quiet
    <3>4. CASE \E scope \in Paths \cup {Root} : RestoreStart(scope)
      BY <3>4 DEF RestoreStart, Quiet
    <3>5. CASE \E force \in BOOLEAN : CloneStart(force)
      BY <3>5 DEF CloneStart
    <3>6. CASE PushStart
      BY <3>6 DEF PushStart, Quiet
    <3> QED  BY <1>3, <3>1, <3>2, <3>3, <3>4, <3>5, <3>6 DEF Starts
  <2> QED  BY <2>1
<1>4. CASE Ends
  BY <1>4 DEF Ends, CloneRoot, PullRoot, PushPublish, PushRoot, SyncEnd, RestoreEnd
<1>5. CASE User
  BY <1>5, UserDisk DEF UserEdits, IInv
<1>6. CASE OtherPublishes
  BY <1>6 DEF OtherPublishes
<1> QED  BY <1>1, <1>2, <1>3, <1>4, <1>5, <1>6, NextShape, MiddleShape

----------------------------------------------------------------------------
(* The user.                                                               *)

\* What an edit may do, with T for the paths it touches.
Edits(d, e, T) ==
    /\ \A t \in Paths : e.stub[t] \in {d.stub[t], None}
    /\ e.dirstub \in {d.dirstub, None}
    /\ e.dirstub # d.dirstub => T = Paths /\ e.kind = "absent"
    /\ \A t \in Paths \ T : /\ Scanned(e)[t] = Scanned(d)[t]
                            /\ e.real[t] = d.real[t] /\ e.stub[t] = d.stub[t]
    /\ P \notin T => e.kind = d.kind
    /\ e.kind # d.kind /\ (e.kind # "absent" \/ d.kind = "dir") => T = Paths
    /\ e.kind = "link" => d.kind = "link"

\* What the touched paths leave alone.
LEMMA TouchedParts ==
    ASSUME NEW d \in Disks, NEW e \in Disks
    PROVE  LET T == Touched(d, e)
           IN  /\ T \subseteq Paths
               /\ \A t \in Paths \ T : /\ Scanned(e)[t] = Scanned(d)[t]
                                       /\ e.real[t] = d.real[t] /\ e.stub[t] = d.stub[t]
               /\ P \notin T => e.kind = d.kind
               /\ e.kind # d.kind /\ (e.kind # "absent" \/ d.kind = "dir") => T = Paths
  BY Constants DEF Touched

\* An edit of the user changes only the paths counted as touched, and never P's marker under a command.
LEMMA UserEffect ==
    ASSUME IInv, User
    PROVE  /\ UserEdits(disk') /\ disk' \in Disks
           /\ Edits(disk, disk', Touched(disk, disk'))
           /\ cmd.name # "idle" => disk'.stub[P] = disk.stub[P]
<1>0. /\ disk \in Disks /\ disk' \in Disks /\ UserEdits(disk') /\ P \in Paths
      /\ disk.stub \in [Paths -> Maybe]
  BY UserDisk, DiskParts, Constants DEF IInv, TypeOK
<1> DEFINE Marks == /\ \A t \in Paths : disk'.stub[t] \in {disk.stub[t], None}
                    /\ disk'.dirstub = disk.dirstub
                       \/ (disk'.dirstub = None /\ disk.kind = "dir" /\ disk'.kind = "absent")
                    /\ disk'.kind = "link" => disk.kind = "link"
                    /\ cmd.name # "idle" => disk'.stub[P] = disk.stub[P]
<1>1. ASSUME UserWrite PROVE Marks
  <2>1. PICK t \in Paths : \E x \in Content : CanPutReal(disk, t) /\ disk' = PutReal(disk, t, x)
    BY <1>1 DEF UserWrite, UserEdits
  <2>2. PICK x \in Content : CanPutReal(disk, t) /\ disk' = PutReal(disk, t, x)
    BY <2>1
  <2> DEFINE q == PutReal(disk, t, x)
  <2>3. /\ q \in Disks /\ q.real = [disk.real EXCEPT ![t] = x] /\ q.stub = disk.stub
        /\ q.dirstub = disk.dirstub /\ q.kind = IF t = P THEN "file" ELSE "dir"
    BY <1>0, <2>2, PutRealDisk
  <2>4. disk' = q
    BY <2>2
  <2> HIDE DEF q
  <2> QED  BY <2>3, <2>4
<1>2. ASSUME UserRemove PROVE Marks
  <2>1. PICK t \in Paths :
          \/ CanDropReal(disk, t) /\ disk' = DropReal(disk, t)
          \/ cmd.name = "idle" /\ disk' = DropStub(disk, t)
          \/ t = P /\ disk.kind = "dir" /\ disk' = DropDir(disk)
    BY <1>2 DEF UserRemove, UserEdits
  <2>2. CASE CanDropReal(disk, t) /\ disk' = DropReal(disk, t)
    BY <1>0, <2>2, DropRealDisk DEF CanDropReal
  <2>3. CASE cmd.name = "idle" /\ disk' = DropStub(disk, t)
    <3>1. disk'.stub = [disk.stub EXCEPT ![t] = None] /\ disk'.dirstub = disk.dirstub
          /\ disk'.kind = disk.kind
      BY <1>0, <2>3, DropStubDisk
    <3> QED  BY <1>0, <2>3, <3>1
  <2>4. CASE disk.kind = "dir" /\ disk' = DropDir(disk)
    <3>1. disk'.stub = [Nowhere EXCEPT ![P] = disk.stub[P]] /\ disk'.dirstub = None
          /\ disk'.kind = "absent"
      BY <1>0, <2>4, DropDirDisk
    <3> QED  BY <1>0, <2>4, <3>1, Constants
  <2> QED  BY <2>1, <2>2, <2>3, <2>4
<1>3. ASSUME UserMakeDir PROVE Marks
  <2>1. disk' = MakeDir(disk) /\ CanMakeDir(disk)
    BY <1>3 DEF UserMakeDir, UserEdits, CanMakeDir
  <2>2. disk'.stub = disk.stub /\ disk'.dirstub = disk.dirstub /\ disk'.kind = "dir"
    BY <1>0, <2>1, MakeDirDisk
  <2> QED  BY <2>2
<1>4. Marks
  BY <1>1, <1>2, <1>3 DEF User
<1> QED  BY <1>0, <1>4, TouchedParts DEF Edits

\* How an edit changes what is known of a running command: not at all, but for
\* the paths it has touched.
LEMMA UserCmd ==
    ASSUME IInv, UserEdits(disk')
    PROVE  /\ cmd'.name = cmd.name /\ cmd'.pc = cmd.pc /\ cmd'.at = cmd.at
           /\ cmd'.todo = cmd.todo /\ cmd'.seen = cmd.seen /\ cmd'.goal = cmd.goal
           /\ cmd'.plan = cmd.plan /\ cmd'.removed = cmd.removed /\ cmd'.from = cmd.from
           /\ cmd.name # "idle" => cmd'.touched = cmd.touched \cup Touched(disk, disk')
           /\ cmd.name = "idle" => cmd'.touched = {}
           /\ dirty' = dirty \cup Touched(disk, disk') /\ cmd.pc # "delete"
           /\ UNCHANGED <<cr, remote, git, repo, publishes, torn, lost>>
<1>1. cmd.name = "idle" => cmd.touched = {}
  BY IdleCmd, IdleOK DEF IInv
<1> QED  BY <1>1, CmdRecord DEF UserEdits, CmdOK

\* An edit of the user is LogicalTree's Edit.
LEMMA UserMap ==
    ASSUME IInv, User
    PROVE  LSTEP
<1>0. /\ UserEdits(disk') /\ disk' \in Disks /\ disk \in Disks
      /\ Edits(disk, disk', Touched(disk, disk'))
  BY UserEffect DEF IInv, TypeOK
<1> DEFINE T == Touched(disk, disk')
<1>1. T \subseteq Paths /\ dirty' = dirty \cup T /\ edits' = edits + 1
  BY <1>0, TouchedParts DEF UserEdits
<1>2. Scanned(disk)' \in Abstract!Trees
  BY <1>0, Reads DEF Abstract!Trees
<1>3. {t \in Paths : Scanned(disk)'[t] # Scanned(disk)[t]} \subseteq T
  BY <1>0 DEF Edits
<1>4. UNCHANGED <<cr, remote, publishes, torn, lost>>
  BY <1>0, UserCmd
<1>5. base' = base /\ doing' = doing /\ goal' = goal /\ Beside' = Beside
  <2>1. Reconciling' = Reconciling /\ doing' = doing
    BY <1>0, UserCmd DEF Reconciling, doing
  <2>2. base' = base
    BY <1>0, <2>1, UserCmd DEF base
  <2>3. goal' = goal
    BY <1>0, UserCmd DEF goal
  <2>4. Beside' = Beside
    BY <1>0, UserCmd DEF Beside
  <2> QED  BY <2>1, <2>2, <2>3, <2>4
<1> HIDE DEF T
<1>6. Abstract!Edit
  BY <1>1, <1>2, <1>3, <1>4, <1>5 DEF Abstract!Edit
<1> QED  BY <1>6 DEF Abstract!Next, LSTEP

----------------------------------------------------------------------------
(* A tree at rest: stub, expand and restore.                               *)

\* Everything there is to show of a step.
Good == LSTEP /\ (Calm' => CalmC')
Quietly == IInv /\ FromInv /\ RecInv /\ BlobInv /\ Calm /\ CalmC /\ lost' = {}

\* At rest after a step, with no command or none that moves the tree.
AtRest(d) == Follows(d, cr) /\ \A t \in Paths \ dirty : Scanned(d)[t] = Files(cr)[t]

\* Once the command is gone only this matters.
LEMMA IdleCalm ==
    ASSUME cmd' = Idle, UNCHANGED <<cr, dirty>>, repo' # "none", AtRest(disk')
    PROVE  CalmC'
<1>1. cmd'.name = "idle" /\ cmd'.touched = {} /\ cmd'.pc = "idle"
  BY DEF Idle
<1>2. RestC'
  BY <1>1 DEF RestC, AtRest, InStep
<1>3. StubC' /\ ExpandC' /\ CloneC' /\ PushC' /\ PullC' /\ RecC'
  BY <1>1 DEF StubC, ExpandC, CloneC, PushC, PullC, RecC, Reconciling
<1> QED  BY <1>2, <1>3 DEF CalmC

\* A command that stops and leaves the disk alone.
LEMMA StopGood ==
    ASSUME Quietly, Stops, disk' = disk
    PROVE  Good
<1>0. /\ disk \in Disks /\ torn \in BOOLEAN /\ cmd.name # "idle" /\ Abort(disk') /\ repo # "none"
      /\ RestC
  BY DEF Quietly, IInv, TypeOK, PlaceInv, Stops, CalmC
<1>1. LeavesTorn \/ Resting
  <2>1. PlaceInv /\ cmd # Idle
    BY <1>0 DEF Quietly, IInv, Idle
  <2> QED  BY <2>1 DEF LeavesTorn, Resting, PlaceInv
<1>2. LeavesTorn \/ InStep(cr)
  BY <1>0, <1>1 DEF RestC
<1>3. LSTEP
  BY <1>0, <1>2, MapAbandon DEF Quietly
<1>4. ASSUME Calm' PROVE CalmC'
  <2>1. cmd' = Idle /\ ~LeavesTorn /\ UNCHANGED <<cr, dirty, repo>>
    BY <1>0, <1>4 DEF Abort, StopCmd, Calm
  <2>2. AtRest(disk')
    BY <1>0, <1>1, <2>1 DEF RestC, AtRest, InStep
  <2> QED  BY <1>0, <2>1, <2>2, IdleCalm
<1> QED  BY <1>3, <1>4 DEF Good

\* A command that goes on in a tree at rest.
LEMMA RestingGoesOn ==
    ASSUME Quietly, Moves, cmd.name \in {"stub", "expand", "restore"},
           Follows(disk', cr), \A t \in Paths \ dirty : Seen(disk, disk', t), StubC', ExpandC'
    PROVE  CalmC'
<1>0. RestC /\ repo # "none" /\ Resting
  BY DEF Quietly, CalmC, IInv, PlaceInv, Resting
<1>1. cmd'.name = cmd.name /\ cmd'.touched = cmd.touched /\ UNCHANGED <<cr, dirty, repo>>
  BY DEF Moves
<1>2. RestC'
  BY <1>0, <1>1 DEF RestC, InStep, Seen
<1>3. CloneC' /\ PushC' /\ PullC' /\ RecC'
  BY <1>1 DEF CloneC, PushC, PullC, RecC, Reconciling
<1> QED  BY <1>2, <1>3 DEF CalmC

\* Writing clone_root's file or its stub where there is none, or the same.
WritesCr(d, q, t) ==
    \/ ParentOk(d, t) /\ q = PutStub(d, t, cr.c[t])
    \/ /\ CanPutReal(d, t) /\ (~Exists(d, t) \/ d.real[t] = cr.c[t])
       /\ \/ q = PutReal(d, t, cr.c[t])
          \/ q = DropStub(PutReal(d, t, cr.c[t]), t)

\* Under clone_root's marks a scan sees nothing but its files.
LEMMA Hidden ==
    ASSUME NEW d \in Disks, NEW e \in Entries, Follows(d, e), NEW t \in Paths, ~Exists(d, t)
    PROVE  Scanned(d)[t] \in {None, e.c[t]} /\ Behind(d, t) \in {None, e.c[t]}
<1>1. d.stub[t] \in {None, e.c[t]}
  BY DEF Follows
<1>2. Behind(d, t) \in {None, e.c[t]}
  <2>1. CASE t # P /\ d.dirstub # None
    BY <2>1, EntryParts, Constants DEF Follows, Behind
  <2>2. CASE ~(t # P /\ d.dirstub # None)
    BY <2>2 DEF Behind
  <2> QED  BY <2>1, <2>2
<1> QED  BY <1>1, <1>2, ReadsAt

\* Writing clone_root's own file or marker changes at most a path whose file the user removed.
LEMMA WriteCr ==
    ASSUME disk \in Disks, cr \in Entries, Follows(disk, cr), InStep(cr),
           NEW t \in Paths, cr.c[t] # None, NEW q, WritesCr(disk, q, t)
    PROVE  /\ q \in Disks /\ Follows(q, cr) /\ q.dirstub = disk.dirstub
           /\ q.real[t] # None \/ q.stub[t] # None
           /\ \A u \in Paths \ {t} : /\ q.real[u] = disk.real[u] /\ q.stub[u] = disk.stub[u]
                                     /\ Seen(disk, q, u)
           /\ \/ Seen(disk, q, t)
              \/ /\ t \in dirty /\ Scanned(disk)[t] = None
                 /\ Scanned(q)[t] = Files(cr)[t]
<1>0. cr.c[t] \in Content /\ Files(cr)[t] = cr.c[t] /\ cr.c[t] \in Maybe
  BY EntryParts, FilesParts, Constants
<1>1. t # P => disk.stub[P] = None
  <2>1. t # P => cr.c[P] = None
    BY EntryParts, Constants
  <2> QED  BY <2>1, Constants DEF Follows
<1>2. /\ OnlyAt(disk, q, t) /\ q.stub[t] \in {None, cr.c[t], disk.stub[t]}
      /\ q.real[t] # None \/ q.stub[t] # None
      /\ \/ Seen(disk, q, t)
         \/ ~Exists(disk, t) /\ Scanned(q)[t] = cr.c[t]
  <2>1. CASE ParentOk(disk, t) /\ q = PutStub(disk, t, cr.c[t])
    BY <1>0, <2>1, PutStubScan
  <2> DEFINE r == PutReal(disk, t, cr.c[t])
  <2>2. ASSUME CanPutReal(disk, t), ~Exists(disk, t) \/ disk.real[t] = cr.c[t]
        PROVE  /\ OnlyAt(disk, r, t) /\ r.real[t] = cr.c[t] /\ r.stub = disk.stub
               /\ Scanned(r)[t] = cr.c[t] /\ r \in Disks
               /\ Seen(disk, r, t) \/ ~Exists(disk, t)
    <3>1. OnlyAt(disk, r, t) /\ r.real[t] = cr.c[t] /\ r.stub = disk.stub /\ Scanned(r)[t] = cr.c[t]
      BY <1>0, <2>2, PutRealScan
    <3>2. Exists(disk, t) => Seen(disk, r, t)
      BY <1>0, <2>2, <3>1, ReadsAt DEF Seen
    <3> QED  BY <3>1, <3>2 DEF OnlyAt
  <2>3. CASE CanPutReal(disk, t) /\ (~Exists(disk, t) \/ disk.real[t] = cr.c[t]) /\ q = r
    BY <1>0, <2>2, <2>3
  <2>4. CASE /\ CanPutReal(disk, t) /\ (~Exists(disk, t) \/ disk.real[t] = cr.c[t])
             /\ q = DropStub(r, t)
    <3> HIDE DEF r
    <3>1. /\ q \in Disks /\ q.real = r.real /\ q.dirstub = r.dirstub
          /\ q.stub[t] = None /\ \A u \in Paths \ {t} : q.stub[u] = r.stub[u] /\ Seen(r, q, u)
          /\ Scanned(q)[t] = IF Exists(r, t) THEN Scanned(r)[t] ELSE Behind(r, t)
      BY <2>2, <2>4, DropStubScan
    <3>2. Exists(r, t)
      BY <1>0, <2>2, <2>4, DiskParts, Constants DEF Exists
    <3> QED  BY <1>0, <2>2, <2>4, <3>1, <3>2 DEF OnlyAt, Seen
  <2> QED  BY <2>1, <2>3, <2>4 DEF WritesCr
<1>3. q \in Disks /\ q.dirstub = disk.dirstub
      /\ \A u \in Paths \ {t} : /\ q.real[u] = disk.real[u] /\ q.stub[u] = disk.stub[u]
                                /\ Seen(disk, q, u)
  BY <1>1, <1>2 DEF OnlyAt
<1>4. Follows(q, cr)
  BY <1>2, <1>3 DEF Follows
<1>5. ~Exists(disk, t) => Scanned(disk)[t] \in {None, cr.c[t]}
  BY Hidden
<1>6. t \notin dirty => Scanned(disk)[t] = cr.c[t]
  BY <1>0 DEF InStep
<1> QED  BY <1>0, <1>2, <1>3, <1>4, <1>5, <1>6 DEF Seen

\* Removing a directory stub that everything in it outlives.
LEMMA DropMark ==
    ASSUME disk \in Disks, cr \in Entries, Follows(disk, cr),
           NEW q, q = [disk EXCEPT !.dirstub = None],
           disk.dirstub # None => \A n \in Names \ dirty :
             cr.c[n] # None => disk.real[n] # None \/ disk.stub[n] # None
    PROVE  /\ q \in Disks /\ Follows(q, cr) /\ q.real = disk.real /\ q.stub = disk.stub
           /\ q.dirstub = None
           /\ \A u \in Paths : \/ Seen(disk, q, u)
                               \/ /\ u \in dirty /\ Scanned(disk)[u] = Files(cr)[u]
                                  /\ Scanned(q)[u] = None
<1>1. /\ q \in Disks /\ q.real = disk.real /\ q.stub = disk.stub
      /\ q.dirstub = None /\ q.kind = disk.kind /\ Seen(disk, q, P)
      /\ \A n \in Names : Scanned(q)[n] = IF disk.real[n] # None THEN disk.real[n]
                                          ELSE disk.stub[n]
  BY DropDirStubScan
<1>2. Follows(q, cr)
  BY <1>1 DEF Follows
<1>3. ASSUME NEW n \in Names
      PROVE  \/ Seen(disk, q, n)
             \/ n \in dirty /\ Scanned(disk)[n] = Files(cr)[n] /\ Scanned(q)[n] = None
  <2>1. CASE disk.real[n] # None \/ disk.stub[n] # None \/ disk.dirstub = None
    BY <1>1, <2>1, ReadsName DEF Seen
  <2>2. CASE disk.real[n] = None /\ disk.stub[n] = None /\ disk.dirstub # None
    <3>1. Scanned(disk)[n] = cr.c[n] /\ Files(cr)[n] = cr.c[n]
      BY <2>2, ReadsName, EntryParts, FilesParts DEF Follows
    <3>2. Scanned(q)[n] = None
      BY <1>1, <2>2
    <3> QED  BY <2>2, <3>1, <3>2 DEF Seen
  <2> QED  BY <2>1, <2>2
<1>4. \A u \in Paths : u = P \/ u \in Names
  BY Constants
<1> QED  BY <1>1, <1>2, <1>3, <1>4

\* A step of stub, expand or restore that changes the files like this.
LEMMA WriteGood ==
    ASSUME Quietly, Moves, cmd.name \in {"stub", "expand"}, NEW t \in Paths,
           Follows(disk', cr), \A u \in Paths \ {t} : Seen(disk, disk', u),
           \/ Seen(disk, disk', t)
           \/ t \in dirty /\ Scanned(disk)[t] = None /\ Scanned(disk')[t] = Files(cr)[t],
           StubC', ExpandC'
    PROVE  Good
<1>1. disk \in Disks /\ base = cr /\ lost' = lost
  BY DEF Quietly, IInv, TypeOK, Calm, base, Reconciling
<1>2. LSTEP
  BY <1>1, MapReappear DEF Seen
<1>3. CalmC'
  BY RestingGoesOn
<1> QED  BY <1>2, <1>3 DEF Good

\* A step of stub or expand that hides no path but ones the user removed maps and keeps the invariant.
LEMMA UnmarkGood ==
    ASSUME Quietly, Moves, cmd.name \in {"stub", "expand"}, Follows(disk', cr),
           \A u \in Paths : \/ Seen(disk, disk', u)
                            \/ /\ u \in dirty /\ Scanned(disk)[u] = Files(cr)[u]
                               /\ Scanned(disk')[u] = None,
           StubC', ExpandC'
    PROVE  Good
<1>1. disk \in Disks /\ base = cr /\ lost' = lost
  BY DEF Quietly, IInv, TypeOK, Calm, base, Reconciling
<1>2. LSTEP
  BY <1>1, MapUnmark DEF Seen
<1>3. CalmC'
  BY RestingGoesOn
<1> QED  BY <1>2, <1>3 DEF Good

\* A step that changes no more than the command's progress.
LEMMA StutterGood ==
    ASSUME Quietly, Moves, cmd.name \in {"stub", "expand", "restore"}, Follows(disk', cr),
           \A u \in Paths : Seen(disk, disk', u), StubC', ExpandC'
    PROVE  Good
<1>1. disk \in Disks /\ disk' \in Disks /\ lost' = lost
  BY DEF Quietly, IInv, TypeOK, Calm, Moves
<1>2. Scanned(disk') = Scanned(disk)
  <2>1. Scanned(disk) \in [Paths -> FileOrLink] /\ Scanned(disk') \in [Paths -> FileOrLink]
    BY <1>1, Reads
  <2> QED  BY <2>1 DEF Seen
<1>3. LSTEP
  BY <1>1, <1>2, MapStutter
<1>4. CalmC'
  BY RestingGoesOn
<1> QED  BY <1>3, <1>4 DEF Good

----------------------------------------------------------------------------
(* Stub.                                                                   *)

\* A whole directory is marked: what its stub brings back, the user removed.
LEMMA MarkDir ==
    ASSUME disk \in Disks, cr \in Entries, Follows(disk, cr), InStep(cr), cr.kind = "tree",
           disk.dirstub = None, CanPutDirStub(disk), NEW q, q = PutDirStub(disk, Children(cr))
    PROVE  /\ q \in Disks /\ Follows(q, cr) /\ q.dirstub = Children(cr)
           /\ q.real = disk.real /\ q.stub = disk.stub
           /\ \A u \in Paths : \/ Seen(disk, q, u)
                               \/ /\ u \in dirty /\ Scanned(disk)[u] = None
                                  /\ Scanned(q)[u] = Files(cr)[u]
           /\ \A n \in Names \ dirty : cr.c[n] # None => q.real[n] # None \/ q.stub[n] # None
<1>a. Children(cr) \in [Names -> Maybe]
  BY EntryParts
<1>b. disk.kind \in {"absent", "dir"}
  BY DEF CanPutDirStub
<1>c. cr.c[P] = None
  BY EntryParts
<1>0. \A n \in Names : Children(cr)[n] = cr.c[n]
  BY EntryParts
<1>1. /\ q \in Disks /\ q.real = disk.real /\ q.stub = disk.stub /\ q.dirstub = Children(cr)
      /\ q.kind = "dir" /\ Scanned(q)[P] = None
      /\ \A n \in Names : Scanned(q)[n] = IF disk.real[n] # None THEN disk.real[n]
                                          ELSE IF disk.stub[n] # None THEN disk.stub[n]
                                          ELSE Children(cr)[n]
  BY <1>a, <1>b, PutDirStubScan
<1>2. Follows(q, cr)
  BY <1>1 DEF Follows
<1>3. Seen(disk, q, P)
  <2>1. disk.stub[P] = None
    BY <1>c, Constants DEF Follows
  <2>2. Scanned(disk)[P] = None
    BY <1>b, <2>1, Reads, DiskParts
  <2> QED  BY <1>1, <2>2 DEF Seen
<1>4. ASSUME NEW n \in Names
      PROVE  /\ \/ Seen(disk, q, n)
                \/ n \in dirty /\ Scanned(disk)[n] = None /\ Scanned(q)[n] = Files(cr)[n]
             /\ n \notin dirty /\ cr.c[n] # None => disk.real[n] # None \/ disk.stub[n] # None
  <2>1. Files(cr)[n] = cr.c[n] /\ (n \notin dirty => Scanned(disk)[n] = cr.c[n])
    BY FilesParts, Constants DEF InStep
  <2>2. CASE disk.real[n] # None \/ disk.stub[n] # None
    BY <1>1, <2>2, ReadsName DEF Seen
  <2>3. CASE disk.real[n] = None /\ disk.stub[n] = None
    <3>1. Scanned(disk)[n] = None
      BY <2>3, ReadsName
    <3>2. Scanned(q)[n] = cr.c[n]
      BY <1>0, <1>1, <2>3
    <3> QED  BY <2>1, <3>1, <3>2 DEF Seen
  <2> QED  BY <2>2, <2>3
<1>5. \A u \in Paths : u = P \/ u \in Names
  BY Constants
<1> QED  BY <1>1, <1>2, <1>3, <1>4, <1>5

\* Removing the stub of a file brings back what stands behind it.
LEMMA UnmarkFile ==
    ASSUME disk \in Disks, cr \in Entries, Follows(disk, cr), NEW t \in Paths, cr.c[t] # None,
           t \in dirty \/ Exists(disk, t), NEW q, q = DropStub(disk, t)
    PROVE  /\ q \in Disks /\ Follows(q, cr)
           /\ \A u \in Paths : \/ Seen(disk, q, u)
                               \/ /\ u \in dirty /\ Scanned(disk)[u] = Files(cr)[u]
                                  /\ Scanned(q)[u] = None
<1>1. /\ q \in Disks /\ q.real = disk.real /\ q.dirstub = disk.dirstub /\ q.kind = disk.kind
      /\ q.stub[t] = None
      /\ \A u \in Paths \ {t} : q.stub[u] = disk.stub[u] /\ Seen(disk, q, u)
      /\ Scanned(q)[t] = IF Exists(disk, t) THEN Scanned(disk)[t] ELSE Behind(disk, t)
  BY DropStubScan
<1>2. Follows(q, cr)
  BY <1>1 DEF Follows
<1>3. Files(cr)[t] = cr.c[t]
  BY FilesParts
<1>4. CASE Exists(disk, t)
  BY <1>1, <1>2, <1>4 DEF Seen
<1>5. CASE ~Exists(disk, t)
  <2>1. Scanned(disk)[t] \in {None, cr.c[t]} /\ Behind(disk, t) \in {None, cr.c[t]}
    BY <1>5, Hidden
  <2>2. Scanned(disk)[t] = IF disk.stub[t] # None THEN disk.stub[t] ELSE Behind(disk, t)
    BY <1>5, ReadsAt
  <2>3. disk.stub[t] \in {None, cr.c[t]}
    BY DEF Follows
  <2> QED  BY <1>1, <1>2, <1>3, <1>5, <2>1, <2>2, <2>3 DEF Seen
<1> QED  BY <1>4, <1>5

\* Deleting what a marker stands for, or a marker behind which another stands.
LEMMA DeleteMarked ==
    ASSUME disk \in Disks, cr \in Entries, Follows(disk, cr), NEW t \in Paths, NEW q,
           \/ /\ q = DropReal(disk, t) /\ (t = P => disk.kind # "dir")
              /\ disk.real[t] = cr.c[t] /\ cr.c[t] # None
              /\ disk.stub[t] = cr.c[t] \/ (t # P /\ disk.dirstub = Children(cr))
           \/ q = DropStub(disk, t) /\ t # P /\ disk.dirstub = Children(cr) /\ disk.stub[t] # None
    PROVE  q \in Disks /\ Follows(q, cr) /\ q.dirstub = disk.dirstub /\ \A u \in Paths : Seen(disk, q, u)
<1>0. disk.stub[t] \in {None, cr.c[t]}
      /\ (t # P /\ disk.dirstub = Children(cr) => Behind(disk, t) = cr.c[t])
  <2>1. t # P => t \in Names /\ Children(cr)[t] = cr.c[t] /\ Children(cr) # None
    BY EntryParts, Constants
  <2> QED  BY <2>1 DEF Follows, Behind
<1>1. CASE /\ q = DropReal(disk, t) /\ (t = P => disk.kind # "dir")
           /\ disk.real[t] = cr.c[t] /\ cr.c[t] # None
           /\ disk.stub[t] = cr.c[t] \/ (t # P /\ disk.dirstub = Children(cr))
  <2>1. /\ q \in Disks /\ q.stub = disk.stub /\ q.dirstub = disk.dirstub
        /\ q.real[t] = None /\ \A u \in Paths \ {t} : q.real[u] = disk.real[u] /\ Seen(disk, q, u)
        /\ Scanned(q)[t] = IF disk.stub[t] # None THEN disk.stub[t]
                           ELSE IF t # P THEN Behind(disk, t) ELSE None
    BY <1>1, DropRealScan
  <2>2. Scanned(disk)[t] = cr.c[t]
    <3>1. IsFile(disk, t)
      BY <1>1, IsFileReal
    <3> QED  BY <1>1, <3>1, ReadsAt
  <2>3. Scanned(q)[t] = cr.c[t]
    BY <1>0, <1>1, <2>1
  <2> QED  BY <2>1, <2>2, <2>3 DEF Follows, Seen
<1>2. CASE q = DropStub(disk, t) /\ t # P /\ disk.dirstub = Children(cr) /\ disk.stub[t] # None
  <2>1. /\ q \in Disks /\ q.real = disk.real /\ q.dirstub = disk.dirstub /\ q.kind = disk.kind
        /\ q.stub[t] = None
        /\ \A u \in Paths \ {t} : q.stub[u] = disk.stub[u] /\ Seen(disk, q, u)
        /\ Scanned(q)[t] = IF Exists(disk, t) THEN Scanned(disk)[t] ELSE Behind(disk, t)
    BY <1>2, DropStubScan
  <2>2. ~Exists(disk, t) => Scanned(disk)[t] = cr.c[t]
    BY <1>0, <1>2, ReadsAt
  <2>3. Seen(disk, q, t)
    BY <1>0, <1>2, <2>1, <2>2 DEF Seen
  <2> QED  BY <2>1, <2>3 DEF Follows
<1> QED  BY <1>1, <1>2

\* What is known when a stub command goes on.
LEMMA StubKnows ==
    ASSUME Quietly, cmd.name = "stub"
    PROVE  /\ disk \in Disks /\ cr \in Entries /\ Follows(disk, cr) /\ InStep(cr)
           /\ cmd.at \in Paths /\ cmd.touched \subseteq dirty /\ repo # "none"
           /\ CmdOK(cmd)
  BY CmdRecord DEF Quietly, IInv, TypeOK, CalmC, RestC, Resting, StubInv, PlaceInv

\* The command's progress after a step of stub.
LEMMA StubCmd ==
    ASSUME IInv, cmd.name = "stub", NEW pc, Goto(pc)
    PROVE  /\ cmd'.name = "stub" /\ cmd'.pc = pc /\ cmd'.at = cmd.at /\ WholeDir' = WholeDir
           /\ cmd'.touched = cmd.touched /\ ExpandC'
  BY CmdRecord DEF Goto, CmdOK, WholeDir, ExpandC

\* Every later step of stub maps to LogicalTree and keeps the invariant.
LEMMA StubGood ==
    ASSUME Quietly, Stub, ~Starts
    PROVE  Good
<1>0. IInv /\ StubC /\ StubInv /\ cmd.name = "stub" /\ lost' = lost
  BY DEF Quietly, CalmC, IInv, Stub, Starts, StubVerify, StubMark, StubCheck, StubChanged,
         StubDelete, Running, Calm
<1>1. /\ disk \in Disks /\ cr \in Entries /\ Follows(disk, cr) /\ InStep(cr)
      /\ cmd.at \in Paths /\ cmd.touched \subseteq dirty /\ repo # "none"
  BY <1>0, StubKnows
<1>2. Moves \/ Stops
  BY <1>0, StubShape
<1>3. Stops /\ disk' = disk => Good
  BY StopGood
<1>4. cr' = cr /\ dirty' = dirty
  BY <1>2 DEF Moves, Stops, Abort
<1>5. CASE StubVerify
  <2>1. CASE Goto("mark")
    <3>1. cmd.pc = "verify" /\ disk' = disk
      BY <1>5 DEF StubVerify, Running
    <3>2. StubC'
      BY <1>0, <1>4, <2>1, <3>1, StubCmd DEF StubC
    <3>3. Moves
      BY <1>0, <1>2, <2>1, StubCmd DEF Stops, Abort, StopCmd, Idle
    <3> QED  BY <1>0, <1>1, <2>1, <3>1, <3>2, <3>3, StubCmd, StutterGood DEF Seen
  <2>2. CASE StopCmd
    <3>1. Stops
      BY <1>0, <1>5, <2>2, StopShape
         DEF StubVerify, Running, LeavesTorn, IInv, TypeOK
    <3> QED  BY <1>3, <1>5, <3>1 DEF StubVerify
  <2> QED  BY <1>5, <2>1, <2>2 DEF StubVerify
<1>6. CASE StubMark
  <2>0. cmd.pc = "mark"
    BY <1>6 DEF StubMark, Running
  <2>1. CASE StopCmd /\ UNCHANGED disk
    <3>1. Stops
      BY <1>0, <1>6, <2>1, StopShape DEF StubMark, Running, LeavesTorn, IInv, TypeOK
    <3> QED  BY <1>3, <2>1, <3>1
  <2>2. CASE WholeDir /\ CanPutDirStub(disk) /\ disk' = PutDirStub(disk, Children(cr)) /\ Goto("check")
    <3>1. cr.kind = "tree" /\ disk.dirstub = None
      BY <1>0, <2>0, <2>2 DEF StubC
    <3>2. /\ disk' \in Disks /\ Follows(disk', cr) /\ disk'.dirstub = Children(cr)
          /\ \A u \in Paths : \/ Seen(disk, disk', u)
                              \/ /\ u \in dirty /\ Scanned(disk)[u] = None
                                 /\ Scanned(disk')[u] = Files(cr)[u]
          /\ \A n \in Names \ dirty : cr.c[n] # None => disk'.real[n] # None \/ disk'.stub[n] # None
      BY <1>1, <2>2, <3>1, MarkDir
    <3>3. StubC'
      <4>1. Children(cr)' = Children(cr)
        BY <1>4
      <4>2. Goto("check") /\ WholeDir
        BY <2>2
      <4>3. cmd'.pc = "check" /\ WholeDir' /\ cr'.kind = "tree"
        BY <1>0, <1>4, <3>1, <4>2, StubCmd
      <4>4. disk'.dirstub = Children(cr)'
        BY <3>2, <4>1
      <4>5. \A n \in Names \ dirty' : cr'.c[n] # None => disk'.real[n] # None \/ disk'.stub[n] # None
        BY <1>4, <3>2
      <4> QED  BY <4>3, <4>4, <4>5 DEF StubC
    <3>4. Moves
      <4>1. Goto("check")
        BY <2>2
      <4> QED  BY <1>0, <1>2, <4>1, StubCmd DEF Stops, Abort, StopCmd, Idle
    <3>5. base = cr
      BY <1>0 DEF base, Reconciling
    <3>6. LSTEP
      BY <1>0, <1>1, <3>2, <3>4, <3>5, MapReappear DEF Seen
    <3>7. CalmC'
      BY <1>0, <1>1, <2>2, <3>2, <3>3, <3>4, StubCmd, RestingGoesOn DEF InStep, Seen
    <3> QED  BY <3>6, <3>7 DEF Good
  <2>3. CASE ~WholeDir /\ ParentOk(disk, cmd.at) /\ disk' = PutStub(disk, cmd.at, cr.c[cmd.at])
             /\ Goto("check")
    <3>1. cr.c[cmd.at] # None
      BY <1>0, <2>3 DEF StubC
    <3>2. WritesCr(disk, disk', cmd.at)
      BY <2>3 DEF WritesCr
    <3>3. /\ disk' \in Disks /\ Follows(disk', cr)
          /\ \A u \in Paths \ {cmd.at} : Seen(disk, disk', u)
          /\ \/ Seen(disk, disk', cmd.at)
             \/ /\ cmd.at \in dirty /\ Scanned(disk)[cmd.at] = None
                /\ Scanned(disk')[cmd.at] = Files(cr)[cmd.at]
      BY <1>1, <3>1, <3>2, WriteCr
    <3>4. disk'.stub[cmd.at] = cr.c[cmd.at]
      BY <1>1, <2>3, PutStubScan, EntryParts
    <3>5. StubC'
      BY <1>0, <1>4, <2>3, <3>1, <3>4, StubCmd DEF StubC
    <3>6. Moves
      BY <1>0, <1>2, <2>3, StubCmd DEF Stops, Abort, StopCmd, Idle
    <3> QED  BY <1>0, <1>1, <2>3, <3>3, <3>5, <3>6, StubCmd, WriteGood
  <2> QED  BY <1>6, <2>1, <2>2, <2>3 DEF StubMark
<1>7. CASE StubCheck
  <2>0. cmd.pc = "check"
    BY <1>7 DEF StubCheck, Running
  <2>1. Moves
    <3>1. \E pc : Goto(pc)
      BY <1>7 DEF StubCheck
    <3> QED  BY <1>0, <1>2, <3>1, StubCmd DEF Stops, Abort, StopCmd, Idle
  <2>2. CASE SnapshotHolds /\ Goto("delete") /\ UNCHANGED disk
    <3>1. StubC'
      BY <1>0, <1>4, <2>0, <2>2, StubCmd DEF StubC, SnapshotHolds
    <3> QED  BY <1>0, <1>1, <2>1, <2>2, <3>1, StubCmd, StutterGood DEF Seen
  <2>3. CASE WholeDir /\ Goto("changed") /\ disk' = [disk EXCEPT !.dirstub = None]
    <3>1. StubC'
      <4>1. Goto("changed") /\ WholeDir
        BY <2>3
      <4>2. cr'.kind = "tree"
        BY <1>0, <1>4, <4>1 DEF StubC
      <4>3. cmd'.pc = "changed" /\ WholeDir'
        BY <1>0, <4>1, StubCmd
      <4> QED  BY <4>2, <4>3 DEF StubC
    <3>2. \A n \in Names \ dirty : cr.c[n] # None => disk.real[n] # None \/ disk.stub[n] # None
      BY <1>0, <2>0, <2>3 DEF StubC
    <3>3. /\ Follows(disk', cr)
          /\ \A u \in Paths : \/ Seen(disk, disk', u)
                              \/ /\ u \in dirty /\ Scanned(disk)[u] = Files(cr)[u]
                                 /\ Scanned(disk')[u] = None
      BY <1>1, <2>3, <3>2, DropMark
    <3> QED  BY <1>0, <1>1, <2>1, <2>3, <3>1, <3>3, StubCmd, UnmarkGood
  <2>4. CASE ~WholeDir /\ ~SnapshotHolds /\ Goto("changed") /\ disk' = DropStub(disk, cmd.at)
    <3>1. StubC'
      BY <1>0, <1>4, <2>0, <2>4, StubCmd DEF StubC
    <3>2. cr.c[cmd.at] # None
      BY <1>0, <2>4 DEF StubC
    <3>3. cmd.at \in dirty \/ Exists(disk, cmd.at)
      <4>1. ~IsFile(disk, cmd.at) \/ cmd.at \in cmd.touched
        BY <2>4 DEF SnapshotHolds
      <4>2. disk.real[cmd.at] = cr.c[cmd.at] \/ cmd.at \in cmd.touched
        BY <1>0, <2>0, <2>4 DEF StubInv
      <4> QED  BY <1>1, <3>2, <4>1, <4>2, IsFileReal
    <3>4. /\ Follows(disk', cr)
          /\ \A u \in Paths : \/ Seen(disk, disk', u)
                              \/ /\ u \in dirty /\ Scanned(disk)[u] = Files(cr)[u]
                                 /\ Scanned(disk')[u] = None
      BY <1>1, <2>4, <3>2, <3>3, UnmarkFile
    <3> QED  BY <1>0, <1>1, <2>1, <2>4, <3>1, <3>4, StubCmd, UnmarkGood
  <2> QED  BY <1>7, <2>2, <2>3, <2>4 DEF StubCheck
<1>8. CASE StubChanged
  BY <1>0, <1>3, <1>8 DEF StubChanged, Running, Fail, Stops, Abort
<1>9. CASE StubDelete
  <2>0. cmd.pc = "delete"
    BY <1>9 DEF StubDelete, Running
  <2>1. CASE ~WholeDir
    <3>1. /\ disk' = DropReal(disk, cmd.at) /\ StopCmd /\ Quiet
          /\ disk.stub[cmd.at] = cr.c[cmd.at] /\ cr.c[cmd.at] # None
          /\ disk.real[cmd.at] = cr.c[cmd.at] /\ IsFile(disk, cmd.at)
      BY <1>0, <1>9, <2>0, <2>1 DEF StubDelete, StubC, StubInv
    <3>2. cmd.at = P => disk.kind # "dir"
      BY <3>1 DEF IsFile
    <3>3. disk' \in Disks /\ Follows(disk', cr) /\ \A u \in Paths : Seen(disk, disk', u)
      BY <1>1, <3>1, <3>2, DeleteMarked
    <3>4. Abort(disk') /\ ~LeavesTorn
      BY <1>0, <2>0, <3>1 DEF Abort, Quiet, LeavesTorn, IInv, TypeOK
    <3>5. LSTEP
      BY <1>0, <1>1, <3>3, <3>4, MapAbandon DEF Quietly, IInv, TypeOK, Seen
    <3>6. CalmC'
      <4>1. AtRest(disk') /\ cmd' = Idle /\ repo' # "none" /\ UNCHANGED <<cr, dirty>>
        BY <1>1, <3>1, <3>3 DEF AtRest, InStep, Seen, StopCmd, Quiet
      <4> QED  BY <4>1, IdleCalm
    <3> QED  BY <3>5, <3>6 DEF Good
  <2>2. CASE WholeDir /\ InDir(disk) = {}
    <3>1. Stops /\ disk' = disk
      BY <1>0, <1>9, <2>0, <2>2 DEF StubDelete, Stops, Abort, Quiet, LeavesTorn, IInv, TypeOK
    <3> QED  BY <1>3, <3>1
  <2>3. CASE WholeDir /\ InDir(disk) # {}
    <3>1. cmd' = cmd
      BY <1>9, <2>3 DEF StubDelete
    <3>2. PICK n \in Names : \/ disk.real[n] # None /\ disk' = DropReal(disk, n)
                             \/ disk.stub[n] # None /\ disk' = DropStub(disk, n)
      BY <1>9, <2>3 DEF StubDelete, InDir
    <3>3. disk.dirstub = Children(cr) /\ disk.real[n] \in {None, cr.c[n]} /\ n \in Paths /\ n # P
      BY <1>0, <2>0, <2>3, Constants DEF StubC, StubInv
    <3>4. /\ disk' \in Disks /\ Follows(disk', cr) /\ disk'.dirstub = disk.dirstub
          /\ \A u \in Paths : Seen(disk, disk', u)
      BY <1>1, <3>2, <3>3, DeleteMarked
    <3>5. StubC' /\ ExpandC'
      <4>1. WholeDir' = WholeDir
        BY <3>1 DEF WholeDir
      <4> QED  BY <1>0, <1>4, <2>0, <2>3, <3>1, <3>3, <3>4, <4>1 DEF StubC, ExpandC
    <3>6. Moves
      BY <1>0, <1>2, <3>1 DEF Stops, Abort, StopCmd, Idle
    <3> QED  BY <1>0, <3>4, <3>5, <3>6, StutterGood
  <2> QED  BY <2>1, <2>2, <2>3
<1> QED  BY <1>0, <1>5, <1>6, <1>7, <1>8, <1>9 DEF Stub, Starts

----------------------------------------------------------------------------
(* Expand.                                                                 *)

\* What is known when an expansion goes on, and its progress after a step.
LEMMA ExpandKnows ==
    ASSUME Quietly, cmd.name = "expand"
    PROVE  /\ disk \in Disks /\ cr \in Entries /\ Follows(disk, cr) /\ InStep(cr)
           /\ cmd.seen \in Disks /\ Follows(cmd.seen, cr) /\ base = cr
  BY DEF Quietly, IInv, TypeOK, CalmC, RestC, Resting, ExpandC, base, Reconciling

\* What an expansion writes is clone_root's.
LEMMA ExpandedCr ==
    ASSUME Quietly, cmd.name = "expand", NEW t \in Paths
    PROVE  /\ t \in Recorded(cmd.seen) => cmd.seen.dirstub[t] = cr.c[t] /\ cr.c[t] # None
           /\ cmd.seen.stub[t] # None => cmd.seen.stub[t] = cr.c[t] /\ cr.c[t] # None
<1>1. Follows(cmd.seen, cr) /\ cr \in Entries
  BY ExpandKnows
<1>2. ASSUME t \in Recorded(cmd.seen) PROVE cmd.seen.dirstub[t] = cr.c[t] /\ cr.c[t] # None
  <2>1. cmd.seen.dirstub # None /\ t \in Names /\ cmd.seen.dirstub[t] # None
    BY <1>2 DEF Recorded, StubNames
  <2>2. cmd.seen.dirstub = Children(cr)
    BY <1>1, <2>1 DEF Follows
  <2> QED  BY <1>1, <2>1, <2>2, EntryParts
<1>3. cmd.seen.stub[t] # None => cmd.seen.stub[t] = cr.c[t] /\ cr.c[t] # None
  BY <1>1 DEF Follows
<1> QED  BY <1>2, <1>3

\* One file or stub is written.
LEMMA ExpandWrite ==
    ASSUME Quietly, Moves, cmd.name = "expand", NEW t \in Paths, cr.c[t] # None,
           WritesCr(disk, disk', t), ExpandC'
    PROVE  Good
<1>1. disk \in Disks /\ cr \in Entries /\ Follows(disk, cr) /\ InStep(cr)
  BY ExpandKnows
<1>2. /\ Follows(disk', cr) /\ \A u \in Paths \ {t} : Seen(disk, disk', u)
      /\ \/ Seen(disk, disk', t)
         \/ /\ t \in dirty /\ Scanned(disk)[t] = None
            /\ Scanned(disk')[t] = Files(cr)[t]
  BY <1>1, WriteCr
<1>3. StubC'
  BY DEF Moves, StubC
<1> QED  BY <1>2, <1>3, WriteGood

\* The directory stub goes when all of it has been written.
LEMMA ExpandUnmark ==
    ASSUME Quietly, Moves, cmd.name = "expand", disk' = [disk EXCEPT !.dirstub = None],
           cmd.seen.dirstub # None, Written({}), ExpandC'
    PROVE  Good
<1>1. disk \in Disks /\ cr \in Entries /\ Follows(disk, cr) /\ InStep(cr)
      /\ cmd.seen \in Disks /\ Follows(cmd.seen, cr)
  BY ExpandKnows
<1>2. ASSUME NEW n \in Names \ dirty, cr.c[n] # None PROVE disk.real[n] # None \/ disk.stub[n] # None
  <2>1. cmd.seen.dirstub[n] = cr.c[n]
    BY <1>1, EntryParts DEF Follows
  <2>2. n \in StubNames(cmd.seen.dirstub) \ (dirty \cup {})
    BY <1>2, <2>1 DEF StubNames
  <2> QED  BY <2>2 DEF Written
<1>3. /\ Follows(disk', cr)
      /\ \A u \in Paths : \/ Seen(disk, disk', u)
                          \/ /\ u \in dirty /\ Scanned(disk)[u] = Files(cr)[u]
                             /\ Scanned(disk')[u] = None
  BY <1>1, <1>2, DropMark
<1>4. StubC'
  BY DEF Moves, StubC
<1> QED  BY <1>3, <1>4, UnmarkGood

\* What was written stays.
LEMMA WrittenOn ==
    ASSUME Quietly, cmd.name = "expand", NEW t \in Names, cr.c[t] # None,
           disk' = disk \/ WritesCr(disk, disk', t),
           disk'.real[t] # None \/ disk'.stub[t] # None,
           NEW left, NEW left1, left \ {t} \subseteq left1, Written(left),
           cmd'.seen = cmd.seen, dirty' = dirty
    PROVE  \A n \in StubNames(cmd'.seen.dirstub) \ (dirty' \cup left1) :
             disk'.real[n] # None \/ disk'.stub[n] # None
<1>1. disk \in Disks /\ cr \in Entries /\ Follows(disk, cr) /\ InStep(cr) /\ t \in Paths
  BY ExpandKnows, Constants
<1>2. \A u \in Paths \ {t} : disk'.real[u] = disk.real[u] /\ disk'.stub[u] = disk.stub[u]
  BY <1>1, WriteCr
<1>3. ASSUME NEW n \in StubNames(cmd.seen.dirstub) \ (dirty \cup left1)
      PROVE  disk'.real[n] # None \/ disk'.stub[n] # None
  <2>1. CASE n = t
    BY <2>1
  <2>2. CASE n # t
    <3>1. n \in StubNames(cmd.seen.dirstub) \ (dirty \cup left) /\ n \in Paths
      BY <1>3, <2>2, Constants DEF StubNames
    <3> QED  BY <1>2, <2>2, <3>1 DEF Written
  <2> QED  BY <2>1, <2>2
<1> QED  BY <1>3 DEF Written

\* Every later step of expand maps to LogicalTree and keeps the invariant.
LEMMA ExpandGood ==
    ASSUME Quietly, Expand, ~Starts
    PROVE  Good
<1>0. IInv /\ ExpandC /\ ExpandInv /\ cmd.name = "expand" /\ CmdOK(cmd) /\ lost' = {} /\ lost = {}
      /\ torn \in BOOLEAN
  BY CmdRecord DEF Quietly, CalmC, IInv, TypeOK, Expand, Starts, ExpandLower, ExpandLowerEnd,
         ExpandFile, ExpandDirStart, ExpandDirChild, ExpandDirEnd, ExpandEnd, Running, Calm
<1>1. /\ disk \in Disks /\ cr \in Entries /\ Follows(disk, cr) /\ InStep(cr)
      /\ cmd.seen \in Disks /\ Follows(cmd.seen, cr)
  BY <1>0, ExpandKnows
<1>2. Moves \/ Stops
  BY <1>0, ExpandShape
<1>3. Stops /\ disk' = disk => Good
  BY StopGood
<1>4. cr' = cr /\ dirty' = dirty
  BY <1>2 DEF Moves, Stops, Abort
<1>5. Fail => Good
  BY <1>0, <1>3 DEF Fail, Stops, Abort
<1>6. cmd'.name = "expand" => Moves /\ cmd'.seen = cmd.seen /\ StubC'
  BY <1>2 DEF Stops, Abort, StopCmd, Idle, Moves, StubC
<1>7. ASSUME NEW n \in Names, ExpandLower(n) PROVE Good
  <2>1. /\ n \in Paths /\ n \in Recorded(cmd.seen) /\ cmd.pc = "lower" /\ n \in cmd.todo
        /\ cr.c[n] # None /\ cmd.seen.dirstub[n] = cr.c[n]
    BY <1>0, <1>7, Constants, ExpandedCr DEF ExpandLower, Running, ExpandInv
  <2>2. CASE Fail
    BY <1>5, <2>2
  <2>3. CASE ParentOk(disk, n) /\ ~Fail
    <3>1. cmd' = [cmd EXCEPT !.todo = @ \ {n}]
      BY <1>7, <2>3 DEF ExpandLower
    <3>2. cmd'.name = "expand" /\ cmd'.pc = "lower" /\ cmd'.todo = cmd.todo \ {n}
      BY <1>0, <2>1, <3>1 DEF CmdOK
    <3>3. (disk' = disk /\ disk.real[n] # None) \/ WritesCr(disk, disk', n)
      <4>1. CASE disk.real[n] # None
        BY <1>7, <2>3, <4>1 DEF ExpandLower
      <4>2. CASE disk.real[n] = None
        <5>1. ~Exists(disk, n) /\ CanPutReal(disk, n)
          BY <2>1, <2>3, <4>2, Constants DEF Exists, CanPutReal
        <5> QED  BY <1>7, <2>1, <2>3, <4>2, <5>1 DEF ExpandLower, WritesCr
      <4> QED  BY <4>1, <4>2
    <3>4. disk'.real[n] # None \/ disk'.stub[n] # None
      BY <1>1, <2>1, <3>3, WriteCr
    <3>5. Written(cmd.todo) /\ cmd'.seen = cmd.seen
      BY <1>0, <1>6, <2>1, <3>2 DEF ExpandC
    <3>6. \A m \in StubNames(cmd'.seen.dirstub) \ (dirty' \cup cmd'.todo) :
            disk'.real[m] # None \/ disk'.stub[m] # None
      BY <1>0, <1>4, <2>1, <3>2, <3>3, <3>4, <3>5, WrittenOn
    <3>7. ExpandC'
      BY <1>1, <1>4, <3>2, <3>5, <3>6 DEF ExpandC, Written
    <3>8. Moves /\ StubC'
      BY <1>6, <3>2
    <3>9. CASE disk' = disk
      BY <1>0, <1>1, <3>7, <3>8, <3>9, StutterGood DEF Seen
    <3>10. CASE WritesCr(disk, disk', n)
      BY <1>0, <2>1, <3>7, <3>8, <3>10, ExpandWrite
    <3> QED  BY <3>3, <3>9, <3>10
  <2> QED  BY <1>7, <2>2, <2>3 DEF ExpandLower
<1>8. CASE ExpandLowerEnd
  <2>1. CASE Fail
    BY <1>5, <2>1
  <2>2. CASE ~Fail
    <3>1. cmd.pc = "lower" /\ cmd.todo = {} /\ disk' = [disk EXCEPT !.dirstub = None]
      BY <1>8, <2>2 DEF ExpandLowerEnd, Running
    <3>2. cmd'.name = "expand" /\ cmd'.pc = "items"
      BY <1>0, <1>8, <2>2 DEF ExpandLowerEnd, CmdOK
    <3>3. cmd.seen.dirstub # None /\ Written({})
      BY <1>0, <3>1 DEF ExpandInv, ExpandC
    <3>4. ExpandC'
      BY <1>1, <1>4, <1>6, <3>2 DEF ExpandC
    <3> QED  BY <1>0, <1>6, <3>1, <3>2, <3>3, <3>4, ExpandUnmark
  <2> QED  BY <2>1, <2>2
<1>9. ASSUME NEW t \in Paths, ExpandFile(t) PROVE Good
  <2> DEFINE x == IF cmd.seen.stub[t] # None THEN cmd.seen.stub[t] ELSE cmd.seen.dirstub[t]
  <2>1. cr.c[t] # None /\ x = cr.c[t] /\ t \in cmd.todo
    <3>1. t \in cmd.todo \cap Paths
      BY <1>9 DEF ExpandFile
    <3>2. t \in Recorded(cmd.seen) \/ cmd.seen.stub[t] # None
      BY <1>0, <3>1 DEF ExpandInv
    <3> QED  BY <1>0, <3>1, <3>2, ExpandedCr
  <2>2. CASE Fail
    BY <1>5, <2>2
  <2>3. CASE CanPutReal(disk, t) /\ ~Fail
    <3>1. disk' = DropStub(PutReal(disk, t, x), t) /\ cmd' = [cmd EXCEPT !.todo = @ \ {t}]
          /\ MayLose("expand", Replaces(t, x)) /\ cmd.pc = "items"
      BY <1>9, <2>3 DEF ExpandFile, Running
    <3> HIDE DEF x
    <3>2. cmd'.name = "expand" /\ cmd'.pc = "items"
      BY <1>0, <3>1 DEF CmdOK
    <3>3. ~Replaces(t, x)
      BY <1>0, <3>1 DEF MayLose
    <3>4. WritesCr(disk, disk', t)
      BY <2>1, <2>3, <3>1, <3>3 DEF WritesCr, Replaces
    <3>5. ExpandC'
      BY <1>1, <1>4, <1>6, <3>2 DEF ExpandC
    <3> QED  BY <1>0, <1>6, <2>1, <3>2, <3>4, <3>5, ExpandWrite
  <2> QED  BY <1>9, <2>2, <2>3 DEF ExpandFile
<1>10. CASE ExpandDirStart
  <2>1. CASE Fail
    BY <1>5, <2>1
  <2>2. CASE ~Fail
    <3>1. CanMakeDir(disk) /\ disk' = MakeDir(disk)
          /\ cmd' = [cmd EXCEPT !.pc = "tree", !.removed = StubNames(cmd.seen.dirstub)]
          /\ DirStub \in cmd.todo
      BY <1>10, <2>2 DEF ExpandDirStart
    <3>2. cmd'.name = "expand" /\ cmd'.pc = "tree" /\ cmd'.removed = StubNames(cmd.seen.dirstub)
      BY <1>0, <3>1 DEF CmdOK
    <3>3. /\ disk'.real = disk.real /\ disk'.stub = disk.stub /\ disk'.dirstub = disk.dirstub
          /\ Scanned(disk')[P] = None /\ \A n \in Names : Seen(disk, disk', n)
          /\ Scanned(disk)[P] = IF disk.kind = "absent" THEN disk.stub[P] ELSE None
      BY <1>1, <3>1, MakeDirScan
    <3>4. disk.stub[P] = None
      <4>1. cr.kind \in {"tree", "absent"}
        BY <1>0, <1>1, <3>1 DEF ExpandInv, Follows
      <4>2. cr.c[P] = None
        BY <1>1, <4>1, EntryParts
      <4> QED  BY <1>1, <4>2, Constants DEF Follows
    <3>5. Follows(disk', cr) /\ \A u \in Paths : Seen(disk, disk', u)
      BY <1>1, <3>3, <3>4, Constants DEF Follows, Seen
    <3>6. ExpandC'
      <4>1. cmd'.seen = cmd.seen
        BY <1>6, <3>2
      <4>2. StubNames(cmd'.seen.dirstub) \ (dirty' \cup cmd'.removed) = {}
        BY <3>2, <4>1
      <4> QED  BY <1>1, <1>4, <3>2, <4>1, <4>2 DEF ExpandC, Written
    <3> QED  BY <1>0, <1>6, <3>2, <3>5, <3>6, StutterGood
  <2> QED  BY <2>1, <2>2
<1>11. ASSUME NEW n \in Names, ExpandDirChild(n) PROVE Good
  <2>1. /\ n \in Paths /\ n \in Recorded(cmd.seen) /\ cmd.pc = "tree" /\ n \in cmd.removed
        /\ cr.c[n] # None /\ cmd.seen.dirstub[n] = cr.c[n]
    BY <1>0, <1>11, Constants, ExpandedCr DEF ExpandDirChild, Running, ExpandInv
  <2>2. CASE Fail
    BY <1>5, <2>2
  <2>3. CASE ParentOk(disk, n) /\ ~Fail
    <3>1. /\ cmd' = [cmd EXCEPT !.removed = @ \ {n}]
          /\ disk' = IF KeepStubbed(cr.c[n]) THEN PutStub(disk, n, cr.c[n]) ELSE PutReal(disk, n, cr.c[n])
          /\ MayLose("expand", ~KeepStubbed(cr.c[n]) /\ Replaces(n, cr.c[n]))
      BY <1>11, <2>1, <2>3 DEF ExpandDirChild
    <3>2. cmd'.name = "expand" /\ cmd'.pc = "tree" /\ cmd'.removed = cmd.removed \ {n}
      BY <1>0, <2>1, <3>1 DEF CmdOK
    <3>3. KeepStubbed(cr.c[n]) \/ ~Replaces(n, cr.c[n])
      BY <1>0, <3>1 DEF MayLose
    <3>4. CanPutReal(disk, n)
      BY <2>3, Constants DEF CanPutReal
    <3>5. WritesCr(disk, disk', n)
      BY <2>3, <3>1, <3>3, <3>4 DEF WritesCr, Replaces
    <3>6. disk'.real[n] # None \/ disk'.stub[n] # None
      BY <1>1, <2>1, <3>5, WriteCr
    <3>7. Written(cmd.removed) /\ cmd'.seen = cmd.seen
      BY <1>0, <1>6, <2>1, <3>2 DEF ExpandC
    <3>8. \A m \in StubNames(cmd'.seen.dirstub) \ (dirty' \cup cmd'.removed) :
            disk'.real[m] # None \/ disk'.stub[m] # None
      BY <1>0, <1>4, <2>1, <3>2, <3>5, <3>6, <3>7, WrittenOn
    <3>9. ExpandC'
      BY <1>1, <1>4, <3>2, <3>7, <3>8 DEF ExpandC, Written
    <3> QED  BY <1>0, <1>6, <2>1, <3>2, <3>5, <3>9, ExpandWrite
  <2> QED  BY <1>11, <2>2, <2>3 DEF ExpandDirChild
<1>12. CASE ExpandDirEnd
  <2>1. CASE Fail
    BY <1>5, <2>1
  <2>2. CASE ~Fail
    <3>1. cmd.pc = "tree" /\ cmd.removed = {} /\ disk' = [disk EXCEPT !.dirstub = None]
      BY <1>12, <2>2 DEF ExpandDirEnd, Running
    <3>2. cmd'.name = "expand" /\ cmd'.pc = "items"
      BY <1>0, <1>12, <2>2 DEF ExpandDirEnd, CmdOK
    <3>3. cmd.seen.dirstub # None /\ Written({})
      BY <1>0, <3>1 DEF ExpandInv, ExpandC
    <3>4. ExpandC'
      BY <1>1, <1>4, <1>6, <3>2 DEF ExpandC
    <3> QED  BY <1>0, <1>6, <3>1, <3>2, <3>3, <3>4, ExpandUnmark
  <2> QED  BY <2>1, <2>2
<1>13. CASE ExpandEnd
  <2>1. Stops /\ disk' = disk
    BY <1>0, <1>13, StopShape DEF ExpandEnd, LeavesTorn, Running
  <2> QED  BY <1>3, <2>1
<1> QED  BY <1>7, <1>8, <1>9, <1>10, <1>11, <1>12, <1>13 DEF Expand, Starts

----------------------------------------------------------------------------
(* Restore.                                                                *)

\* An action of a plan fits what clone_root has at its path.
Fits(e, a, t) ==
    /\ a \in {"blob", "stub_to_blob"} => e.c[t] # None
    /\ a = "link" => e.kind = "link"
    /\ a \in {"absent", "file", "orphan_stub"} => e.c[t] = None /\ (t = P => e.kind = "absent")
    /\ a = "added_dir" => e.kind = "absent"
    /\ a \in {"ensure_dir", "dirstub_to_tree", "stub_to_tree"} => e.kind = "tree"
    /\ a = "dirstub_to_blob" => e.kind = "blob"
Fitting(e, act) == \E a \in Acts, t \in Paths : act = <<a, t>> /\ Fits(e, a, t)

\* What restore plans for one file is an action on that file's content in the goal.
LEMMA BlobFits ==
    ASSUME NEW d, NEW e \in Entries, NEW t \in Paths, e.c[t] # None, NEW act \in PlanBlob(d, t, e.c[t])
    PROVE  Fitting(e, act)
<1>1. act \in {<<"stub_to_blob", t>>, <<"blob", t>>} \/ (t = P /\ act = <<"dirstub_to_blob", P>>)
  BY DEF PlanBlob
<1>2. t = P => e.kind = "blob"
  BY EntryParts
<1> QED  BY <1>1, <1>2 DEF Fitting, Fits, Acts

\* What restore plans for an entry that is not in the tree is an action on the goal's entries.
LEMMA AddedFits ==
    ASSUME NEW d, NEW e \in Entries, NEW act \in PlanAdded(d, e)
    PROVE  Fitting(e, act)
<1>1. PICK n \in Names : e.c[n] = None /\ act \in {<<"file", n>>, <<"orphan_stub", n>>}
  BY DEF PlanAdded
<1>2. n \in Paths /\ n # P
  BY Constants
<1> QED  BY <1>1, <1>2 DEF Fitting, Fits, Acts

\* Every planned restore action writes the goal's content or removes what the goal does not have.
LEMMA PlanFits ==
    ASSUME NEW d \in Disks, NEW e \in Entries, NEW scope, NEW act \in RestorePlan(d, e, scope)
    PROVE  Fitting(e, act)
<1> USE Constants
<1>1. CASE scope \in Names
  <2>1. CASE e.c[scope] # None
    BY <1>1, <2>1, BlobFits DEF RestorePlan
  <2>2. CASE e.c[scope] = None
    BY <1>1, <2>2 DEF RestorePlan, Fitting, Fits, Acts
  <2> QED  BY <2>1, <2>2
<1>2. CASE scope \notin Names /\ e.kind = "blob"
  <2>1. act \in PlanBlob(d, P, e.c[P]) /\ e.c[P] # None
    BY <1>2, EntryParts DEF RestorePlan
  <2> QED  BY <2>1, BlobFits
<1>3. CASE scope \notin Names /\ e.kind = "link"
  BY <1>3 DEF RestorePlan, PlanLink, Fitting, Fits, Acts
<1>4. CASE scope \notin Names /\ e.kind = "tree"
  <2>1. act \in PlanTree(d, e) \/ act \in PlanAdded(d, e)
    BY <1>4 DEF RestorePlan
  <2>2. CASE act \in PlanAdded(d, e)
    BY <2>2, AddedFits
  <2>3. CASE act \in PlanTree(d, e)
    <3> DEFINE B == UNION {PlanBlob(d, n, e.c[n]) : n \in StubNames(Children(e))}
               S == {<<"dirstub_to_tree", P>>, <<"stub_to_tree", P>>, <<"ensure_dir", P>>}
    <3>1. act \in B => \E n \in StubNames(Children(e)) : act \in PlanBlob(d, n, e.c[n])
      OBVIOUS
    <3>2. act \in S \cup PlanAdded(d, e) \cup B
      <4> HIDE DEF B
      <4>1. PlanTree(d, e) \subseteq S \cup PlanAdded(d, e) \cup B
        BY DEF PlanTree, B
      <4> QED  BY <2>3, <4>1
    <3> HIDE DEF B
    <3>3. CASE act \in S
      BY <1>4, <3>3 DEF Fitting, Fits, Acts
    <3>4. ASSUME NEW n \in StubNames(Children(e)), act \in PlanBlob(d, n, e.c[n])
          PROVE  Fitting(e, act)
      <4>1. n \in Names /\ Children(e)[n] # None
        BY DEF StubNames
      <4>2. n \in Paths /\ e.c[n] # None
        BY <4>1, EntryParts
      <4> QED  BY <3>4, <4>2, BlobFits
    <3> QED  BY <2>2, <3>1, <3>2, <3>3, <3>4
  <2> QED  BY <2>1, <2>2, <2>3
<1>5. CASE scope \notin Names /\ e.kind = "absent"
  <2>1. \/ act \in {<<"absent", P>>, <<"file", P>>, <<"added_dir", P>>, <<"orphan_stub", P>>}
    BY <1>5 DEF RestorePlan
  <2>2. e.c[P] = None
    BY <1>5, EntryParts
  <2> QED  BY <1>5, <2>1, <2>2 DEF Fitting, Fits, Acts
<1> QED  BY <1>1, <1>2, <1>3, <1>4, <1>5, EntryParts

\* From d to q the files change only towards clone_root's.
Toward(d, q) == /\ q \in Disks /\ Follows(q, cr)
                /\ \A u \in Paths : Scanned(q)[u] \in {Scanned(d)[u], Files(cr)[u]}

\* Moving toward clone_root composes.
LEMMA TowardSteps ==
    ASSUME NEW d, NEW q, NEW r, Toward(d, q), Toward(q, r)
    PROVE  Toward(d, r)
  BY DEF Toward

\* Doing nothing moves toward clone_root.
LEMMA TowardSame ==
    ASSUME NEW d \in Disks, Follows(d, cr)
    PROVE  Toward(d, d)
  BY DEF Toward

\* Removing the marker of a path clone_root does not have moves toward clone_root.
LEMMA TowardNoStub ==
    ASSUME cr \in Entries, NEW d \in Disks, Follows(d, cr), NEW t \in Paths, cr.c[t] = None
    PROVE  Toward(d, DropStub(d, t)) /\ DropStub(d, t).kind = d.kind
<1> DEFINE q == DropStub(d, t)
<1>1. /\ q \in Disks /\ q.real = d.real /\ q.dirstub = d.dirstub /\ q.kind = d.kind
      /\ q.stub[t] = None
      /\ \A u \in Paths \ {t} : q.stub[u] = d.stub[u] /\ Seen(d, q, u)
      /\ Scanned(q)[t] = IF Exists(d, t) THEN Scanned(d)[t] ELSE Behind(d, t)
  BY DropStubScan
<1> HIDE DEF q
<1>2. Follows(q, cr)
  BY <1>1 DEF Follows
<1>3. Seen(d, q, t)
  <2>1. d.stub[t] = None
    BY DEF Follows
  <2>2. ~Exists(d, t) => Scanned(d)[t] = Behind(d, t)
    BY <2>1, ReadsAt
  <2> QED  BY <1>1, <2>2 DEF Seen
<1> QED  BY <1>1, <1>2, <1>3 DEF Toward, Seen, q

\* Removing a file clone_root does not have moves toward clone_root.
LEMMA TowardNoFile ==
    ASSUME cr \in Entries, NEW d \in Disks, Follows(d, cr), NEW t \in Paths, cr.c[t] = None,
           t = P => cr.kind = "absent" /\ d.kind # "dir"
    PROVE  Toward(d, DropReal(d, t)) /\ (t = P => DropReal(d, t).kind = "absent")
<1> DEFINE q == DropReal(d, t)
<1>1. /\ q \in Disks /\ q.stub = d.stub /\ q.dirstub = d.dirstub
      /\ q.kind = (IF t = P THEN "absent" ELSE d.kind)
      /\ q.real[t] = None /\ \A u \in Paths \ {t} : q.real[u] = d.real[u] /\ Seen(d, q, u)
      /\ Scanned(q)[t] = IF d.stub[t] # None THEN d.stub[t]
                         ELSE IF t # P THEN Behind(d, t) ELSE None
  BY DropRealScan
<1> HIDE DEF q
<1>2. Follows(q, cr)
  BY <1>1 DEF Follows
<1>3. Scanned(q)[t] = Files(cr)[t]
  <2>1. d.stub[t] = None
    BY DEF Follows
  <2>2. t # P => Behind(d, t) = None
    <3>1. CASE t # P /\ d.dirstub # None
      <4>1. t \in Names /\ d.dirstub = Children(cr)
        BY <3>1, Constants DEF Follows
      <4>2. Children(cr)[t] = None
        BY <4>1, EntryParts
      <4> QED  BY <4>1, <4>2 DEF Behind
    <3>2. CASE d.dirstub = None
      BY <3>2 DEF Behind
    <3> QED  BY <3>1, <3>2
  <2>3. Files(cr)[t] = None
    BY FilesParts, Constants
  <2> QED  BY <1>1, <2>1, <2>2, <2>3
<1> QED  BY <1>1, <1>2, <1>3 DEF Toward, Seen, q

\* Removing a directory marker where clone_root has no directory moves toward clone_root.
LEMMA TowardNoMark ==
    ASSUME cr \in Entries, NEW d \in Disks, Follows(d, cr), cr.kind # "tree",
           NEW q, q = [d EXCEPT !.dirstub = None]
    PROVE  Toward(d, q)
<1>1. /\ q \in Disks /\ q.real = d.real /\ q.stub = d.stub
      /\ q.dirstub = None /\ q.kind = d.kind /\ Seen(d, q, P)
      /\ \A n \in Names : Scanned(q)[n] = IF d.real[n] # None THEN d.real[n]
                                          ELSE d.stub[n]
  BY DropDirStubScan
<1>2. Follows(q, cr)
  BY <1>1 DEF Follows
<1>3. ASSUME NEW n \in Names PROVE Seen(d, q, n)
  <2>1. d.dirstub # None => d.dirstub[n] = None
    BY EntryParts DEF Follows
  <2>2. Scanned(q)[n] = IF d.real[n] # None THEN d.real[n] ELSE d.stub[n]
    BY <1>1
  <2>3. Scanned(d)[n] = IF d.real[n] # None THEN d.real[n] ELSE d.stub[n]
    BY <2>1, ReadsName
  <2> QED  BY <2>2, <2>3 DEF Seen
<1>4. \A u \in Paths : u = P \/ u \in Names
  BY Constants
<1> QED  BY <1>1, <1>2, <1>3, <1>4 DEF Toward, Seen

\* Removing the directory where clone_root has nothing moves toward clone_root.
LEMMA TowardNoDir ==
    ASSUME cr \in Entries, NEW d \in Disks, Follows(d, cr), cr.kind = "absent"
    PROVE  Toward(d, PruneDir(d)) /\ Toward(d, DropDir(d))
<1>0. cr.c[P] = None /\ d.stub[P] = None /\ \A u \in Paths : Files(cr)[u] = None
  <2>1. cr.c[P] = None /\ \A n \in Names : cr.c[n] = None
    BY EntryParts
  <2>2. \A u \in Paths : Files(cr)[u] = None
    BY <2>1, FilesParts, Constants
  <2> QED  BY <2>1, <2>2, Constants DEF Follows
<1>1. Toward(d, PruneDir(d))
  <2> DEFINE q == PruneDir(d)
  <2>1. /\ q \in Disks /\ \A t \in Paths : q.real[t] = d.real[t] /\ q.stub[t] = d.stub[t]
        /\ q.dirstub = d.dirstub /\ \A n \in Names : Seen(d, q, n)
        /\ q = d \/ (EmptyDir(d) /\ d.kind = "dir" /\ q.kind = "absent"
                        /\ Scanned(q)[P] = d.stub[P] /\ Scanned(d)[P] = None)
    BY PruneDirScan
  <2> HIDE DEF q
  <2>2. Seen(d, q, P)
    BY <1>0, <2>1 DEF Seen
  <2>3. Follows(q, cr)
    BY <2>1 DEF Follows
  <2>4. \A u \in Paths : Seen(d, q, u)
    BY <2>1, <2>2, Constants
  <2> QED  BY <2>1, <2>3, <2>4 DEF Toward, Seen, q
<1>2. Toward(d, DropDir(d))
  <2> DEFINE q == DropDir(d)
  <2>1. /\ q \in Disks /\ q.real = Nowhere /\ q.dirstub = None /\ q.kind = "absent"
        /\ q.stub[P] = d.stub[P] /\ Scanned(q)[P] = d.stub[P]
        /\ \A n \in Names : q.stub[n] = None /\ q.real[n] = None /\ Scanned(q)[n] = None
    BY DropDirScan
  <2> HIDE DEF q
  <2>2. \A u \in Paths : q.stub[u] = None /\ Scanned(q)[u] = None
    BY <1>0, <2>1, Constants
  <2> QED  BY <1>0, <2>1, <2>2 DEF Toward, Follows, q
<1> QED  BY <1>1, <1>2

\* DeleteAbsent.
LEMMA TowardAbsent ==
    ASSUME cr \in Entries, NEW d \in Disks, Follows(d, cr), NEW t \in Paths, cr.c[t] = None,
           t = P => cr.kind = "absent"
    PROVE  Toward(d, RemoveAbsent(d, t).after)
<1> DEFINE del == AbsentDeletesFile(d, t)
           d1 == IF del THEN DropStub(d, t) ELSE d
           d2 == IF del
                 THEN IF t = P /\ d.kind = "dir" THEN PruneDir(d1) ELSE DropReal(d1, t)
                 ELSE d1
           m == [d2 EXCEPT !.dirstub = None]
           d3 == IF t = P /\ cmd.seen.dirstub # None THEN PruneDir(m) ELSE d2
<1>1. Toward(d, d1) /\ d1.kind = d.kind
  BY TowardNoStub, TowardSame
<1>2. RemoveAbsent(d, t).after \in {d1, d3}
  BY DEF RemoveAbsent
<1> HIDE DEF d1, del
<1>3. d1 \in Disks /\ Follows(d1, cr)
  BY <1>1 DEF Toward
<1>4. Toward(d1, d2)
  <2>1. t = P => Toward(d1, PruneDir(d1))
    BY <1>3, TowardNoDir
  <2>2. ~(t = P /\ d.kind = "dir") => Toward(d1, DropReal(d1, t))
    BY <1>1, <1>3, TowardNoFile
  <2> QED  BY <1>3, <2>1, <2>2, TowardSame
<1>5. Toward(d, d2)
  BY <1>1, <1>4, TowardSteps
<1> HIDE DEF d2
<1>6. d2 \in Disks /\ Follows(d2, cr)
  BY <1>5 DEF Toward
<1>7. t = P => Toward(d2, m)
  BY <1>6, TowardNoMark
<1> HIDE DEF m
<1>8. t = P => Toward(m, PruneDir(m))
  BY <1>7, TowardNoDir DEF Toward
<1>9. Toward(d, d3)
  BY <1>5, <1>7, <1>8, TowardSteps
<1> QED  BY <1>1, <1>2, <1>9

\* Writing what clone_root has.
LEMMA TowardFile ==
    ASSUME cr \in Entries, NEW d \in Disks, Follows(d, cr), NEW t \in Paths, cr.c[t] # None,
           CanPutReal(d, t)
    PROVE  Toward(d, DropStub(PutReal(d, t, cr.c[t]), t))
<1> DEFINE r == PutReal(d, t, cr.c[t])
           q == DropStub(r, t)
<1>0. /\ cr.c[t] \in Content /\ Files(cr)[t] = cr.c[t]
      /\ t # P => d.stub[P] = None
  <2>1. cr.c[t] \in Content /\ Files(cr)[t] = cr.c[t]
    BY EntryParts, FilesParts DEF Maybe
  <2>2. t # P => cr.c[P] = None
    BY EntryParts, Constants
  <2> QED  BY <2>1, <2>2, Constants DEF Follows
<1>1. /\ OnlyAt(d, r, t) /\ r.real[t] = cr.c[t] /\ r.stub = d.stub
      /\ r.kind = IF t = P THEN "file" ELSE "dir"
      /\ Scanned(r)[t] = cr.c[t]
  BY <1>0, PutRealScan
<1> HIDE DEF r
<1>2. r \in Disks /\ r.dirstub = d.dirstub /\ \A u \in Paths \ {t} : Seen(d, r, u)
  BY <1>0, <1>1 DEF OnlyAt
<1>3. /\ q \in Disks /\ q.real = r.real /\ q.dirstub = r.dirstub /\ q.kind = r.kind
      /\ q.stub[t] = None /\ \A u \in Paths \ {t} : q.stub[u] = r.stub[u] /\ Seen(r, q, u)
      /\ Scanned(q)[t] = IF Exists(r, t) THEN Scanned(r)[t] ELSE Behind(r, t)
  BY <1>2, DropStubScan
<1>4. Exists(r, t)
  BY <1>0, <1>1, Constants DEF Exists
<1> HIDE DEF q
<1>5. Scanned(q)[t] = Files(cr)[t]
  BY <1>0, <1>1, <1>3, <1>4
<1>6. \A u \in Paths \ {t} : Scanned(q)[u] = Scanned(d)[u]
  BY <1>2, <1>3 DEF Seen
<1>7. Follows(q, cr)
  BY <1>1, <1>2, <1>3 DEF Follows
<1> QED  BY <1>3, <1>5, <1>6, <1>7 DEF Toward, q, r

\* Writing the marker of a file of clone_root moves toward clone_root.
LEMMA TowardStub ==
    ASSUME cr \in Entries, NEW d \in Disks, Follows(d, cr), NEW t \in Paths, cr.c[t] # None,
           ParentOk(d, t)
    PROVE  Toward(d, PutStub(d, t, cr.c[t]))
<1> DEFINE q == PutStub(d, t, cr.c[t])
<1>0. /\ cr.c[t] \in Maybe /\ Files(cr)[t] = cr.c[t]
      /\ t # P => d.stub[P] = None
  <2>1. cr.c[t] \in Maybe /\ Files(cr)[t] = cr.c[t]
    BY EntryParts, FilesParts DEF Maybe
  <2>2. t # P => cr.c[P] = None
    BY EntryParts, Constants
  <2> QED  BY <2>1, <2>2, Constants DEF Follows
<1>1. /\ OnlyAt(d, q, t) /\ q.real = d.real /\ q.stub[t] = cr.c[t]
      /\ q.kind = IF t = P THEN d.kind ELSE "dir"
      /\ Exists(d, t) => Seen(d, q, t)
      /\ ~Exists(d, t) /\ cr.c[t] # None => Scanned(q)[t] = cr.c[t]
  BY <1>0, PutStubScan
<1> HIDE DEF q
<1>2. /\ q \in Disks /\ q.dirstub = d.dirstub
      /\ \A u \in Paths \ {t} : q.stub[u] = d.stub[u] /\ Seen(d, q, u)
  BY <1>0, <1>1 DEF OnlyAt
<1>3. Follows(q, cr)
  BY <1>1, <1>2 DEF Follows
<1>4. Scanned(q)[t] \in {Scanned(d)[t], Files(cr)[t]}
  BY <1>0, <1>1 DEF Seen
<1>5. \A u \in Paths \ {t} : Scanned(q)[u] = Scanned(d)[u]
  BY <1>2 DEF Seen
<1> QED  BY <1>2, <1>3, <1>4, <1>5 DEF Toward, q

\* Writing the marker of clone_root's directory moves toward clone_root.
LEMMA TowardDirStub ==
    ASSUME cr \in Entries, cr.kind = "tree", NEW d \in Disks, Follows(d, cr), CanPutDirStub(d)
    PROVE  Toward(d, PutDirStub(d, Children(cr)))
<1> DEFINE ch == Children(cr)
           q == PutDirStub(d, ch)
<1>0. /\ ch \in [Names -> Maybe] /\ \A n \in Names : ch[n] = Files(cr)[n]
      /\ Files(cr)[P] = None
  <2>1. ch \in [Names -> Maybe] /\ \A n \in Names : ch[n] = cr.c[n]
    BY EntryParts DEF Children
  <2> QED  BY <2>1, EntryParts, FilesParts
<1> HIDE DEF ch
<1>1. /\ q \in Disks /\ q.real = d.real /\ q.stub = d.stub /\ q.dirstub = ch
      /\ q.kind = "dir" /\ Scanned(q)[P] = None
      /\ \A n \in Names : Scanned(q)[n] = IF d.real[n] # None THEN d.real[n]
                                          ELSE IF d.stub[n] # None THEN d.stub[n]
                                          ELSE ch[n]
  BY <1>0, PutDirStubScan DEF CanPutDirStub
<1> HIDE DEF q
<1>2. Follows(q, cr)
  BY <1>1 DEF Follows, ch
<1>3. \A n \in Names : Scanned(q)[n] \in {Scanned(d)[n], Files(cr)[n]}
  BY <1>0, <1>1, ReadsName
<1>4. \A u \in Paths : u = P \/ u \in Names
  BY Constants
<1> QED  BY <1>0, <1>1, <1>2, <1>3, <1>4 DEF Toward, q, ch

\* Creating clone_root's directory moves toward clone_root.
LEMMA TowardMakeDir ==
    ASSUME cr \in Entries, cr.kind = "tree", NEW d \in Disks, Follows(d, cr), CanMakeDir(d)
    PROVE  Toward(d, MakeDir(d))
<1> DEFINE q == MakeDir(d)
<1>1. /\ q \in Disks /\ q.real = d.real /\ q.stub = d.stub
      /\ q.dirstub = d.dirstub /\ q.kind = "dir"
      /\ Scanned(q)[P] = None /\ \A n \in Names : Seen(d, q, n)
  BY MakeDirScan
<1> HIDE DEF q
<1>2. Files(cr)[P] = None
  BY EntryParts, FilesParts
<1>3. Follows(q, cr)
  BY <1>1 DEF Follows
<1>4. \A u \in Paths : u = P \/ u \in Names
  BY Constants
<1> QED  BY <1>1, <1>2, <1>3, <1>4 DEF Toward, Seen, q

\* Creating clone_root's symbolic link moves toward clone_root.
LEMMA TowardLink ==
    ASSUME cr \in Entries, cr.kind = "link", NEW d \in Disks, Follows(d, cr)
    PROVE  Toward(d, PutLink(d))
<1> DEFINE q == PutLink(d)
<1>1. /\ q \in Disks /\ q.dirstub = None
      /\ q.stub[P] = d.stub[P] /\ Scanned(q)[P] = "link"
      /\ \A n \in Names : q.stub[n] = None /\ Scanned(q)[n] = None
  BY PutLinkScan
<1> HIDE DEF q
<1>2. Files(cr)[P] = "link" /\ \A n \in Names : Files(cr)[n] = None
  BY EntryParts, FilesParts
<1>3. Follows(q, cr)
  BY <1>1, Constants DEF Follows
<1>4. \A u \in Paths : u = P \/ u \in Names
  BY Constants
<1> QED  BY <1>1, <1>2, <1>3, <1>4 DEF Toward, q

\* Replacing the directory by clone_root's file, marked, moves toward clone_root.
LEMMA TowardBlob ==
    ASSUME cr \in Entries, cr.kind = "blob", NEW d \in Disks, Follows(d, cr)
    PROVE  Toward(d, PutStub(DropDir(d), P, cr.c[P]))
<1> DEFINE r == DropDir(d)
           q == PutStub(r, P, cr.c[P])
<1>0. /\ P \in Paths /\ cr.c[P] \in Maybe /\ cr.c[P] # None
      /\ Files(cr)[P] = cr.c[P] /\ \A n \in Names : Files(cr)[n] = None
  BY Constants, EntryParts, FilesParts
<1>1. /\ r \in Disks /\ r.dirstub = None /\ r.kind = "absent"
      /\ \A n \in Names : r.stub[n] = None /\ r.real[n] = None /\ Scanned(r)[n] = None
  BY DropDirScan
<1> HIDE DEF r
<1>2. ParentOk(r, P) /\ ~Exists(r, P)
  BY <1>1 DEF ParentOk, Exists
<1>3. /\ OnlyAt(r, q, P) /\ q.stub[P] = cr.c[P]
      /\ ~Exists(r, P) /\ cr.c[P] # None => Scanned(q)[P] = cr.c[P]
  BY <1>0, <1>1, <1>2, PutStubScan
<1> HIDE DEF q
<1>4. /\ q \in Disks /\ q.dirstub = None
      /\ \A n \in Names : q.stub[n] = None /\ Scanned(q)[n] = None
  <2>1. q \in Disks /\ q.dirstub = r.dirstub
    BY <1>3 DEF OnlyAt
  <2>2. \A n \in Names : n \in Paths \ {P}
    BY Constants
  <2>3. \A u \in Paths \ {P} : q.stub[u] = r.stub[u] /\ Scanned(q)[u] = Scanned(r)[u]
    BY <1>3 DEF OnlyAt, Seen
  <2> QED  BY <1>1, <2>1, <2>2, <2>3
<1>5. \A u \in Paths : u = P \/ u \in Names
  BY Constants
<1>6. Follows(q, cr)
  BY <1>3, <1>4, <1>5 DEF Follows
<1>7. \A u \in Paths : Scanned(q)[u] = Files(cr)[u]
  BY <1>0, <1>2, <1>3, <1>4, <1>5
<1> QED  BY <1>4, <1>6, <1>7 DEF Toward, q, r

\* Whether it succeeds or not, an action goes only that way.
LEMMA AppliedToward ==
    ASSUME cr \in Entries, NEW d \in Disks, Follows(d, cr), NEW a \in Acts, NEW t \in Paths,
           Fits(cr, a, t)
    PROVE  Toward(d, Applied(d, a, t).after)
<1>0. Toward(d, d)
  BY TowardSame
<1>1. CASE a = "blob"
  <2> DEFINE q == DropStub(PutReal(d, t, cr.c[t]), t)
  <2>1. Applied(d, a, t).after \in {d, q} /\ (Applied(d, a, t).after # d => CanPutReal(d, t))
    BY <1>1 DEF Applied, WhenOk
  <2>2. cr.c[t] # None
    BY <1>1 DEF Fits
  <2>3. CanPutReal(d, t) => Toward(d, q)
    BY <2>2, TowardFile
  <2> QED  BY <1>0, <2>1, <2>3
<1>2. CASE a = "link"
  <2> DEFINE s == DropStub(d, P)
             e == [s EXCEPT !.dirstub = None]
  <2>1. Applied(d, a, t).after \in {e, PutLink(e)}
    BY <1>2 DEF Applied, WhenOk
  <2>2. cr.kind = "link" /\ cr.c[P] = None
    BY <1>2, EntryParts DEF Fits
  <2>3. Toward(d, s)
    BY <2>2, TowardNoStub, Constants
  <2> HIDE DEF s
  <2>4. Toward(s, e)
    BY <2>2, <2>3, TowardNoMark DEF Toward
  <2> HIDE DEF e
  <2>5. Toward(e, PutLink(e))
    BY <2>2, <2>4, TowardLink DEF Toward
  <2>6. Toward(d, e)
    BY <2>3, <2>4, TowardSteps
  <2>7. Toward(d, PutLink(e))
    BY <2>5, <2>6, TowardSteps
  <2> QED  BY <2>1, <2>6, <2>7
<1>3. CASE a = "absent"
  <2>1. Applied(d, a, t).after \in {d, RemoveAbsent(d, t).after}
    BY <1>3 DEF Applied, WhenOk
  <2>2. cr.c[t] = None /\ (t = P => cr.kind = "absent")
    BY <1>3 DEF Fits
  <2> QED  BY <1>0, <2>1, <2>2, TowardAbsent
<1>4. CASE a = "file"
  <2> DEFINE q == DropReal(d, t)
  <2>1. Applied(d, a, t).after \in {d, DropStub(q, t)} /\ (Applied(d, a, t).after # d => CanDropReal(d, t))
    BY <1>4 DEF Applied, WhenOk
  <2>2. cr.c[t] = None /\ (t = P => cr.kind = "absent")
    BY <1>4 DEF Fits
  <2>3. CanDropReal(d, t) => Toward(d, q)
    BY <2>2, TowardNoFile DEF CanDropReal
  <2> HIDE DEF q
  <2>4. CanDropReal(d, t) => Toward(q, DropStub(q, t))
    BY <2>2, <2>3, TowardNoStub DEF Toward
  <2>5. CanDropReal(d, t) => Toward(d, DropStub(q, t))
    BY <2>3, <2>4, TowardSteps
  <2> QED  BY <1>0, <2>1, <2>5
<1>5. CASE a = "added_dir"
  <2>1. Applied(d, a, t).after \in {d, DropDir(d)}
    BY <1>5 DEF Applied, WhenOk
  <2>2. Toward(d, DropDir(d))
    BY <1>5, TowardNoDir DEF Fits
  <2> QED  BY <1>0, <2>1, <2>2
<1>6. CASE a = "ensure_dir"
  <2>1. Applied(d, a, t).after \in {d, MakeDir(d)} /\ (Applied(d, a, t).after # d => CanMakeDir(d))
    BY <1>6 DEF Applied, WhenOk
  <2>2. CanMakeDir(d) => Toward(d, MakeDir(d))
    BY <1>6, TowardMakeDir DEF Fits
  <2> QED  BY <1>0, <2>1, <2>2
<1>7. CASE a = "orphan_stub"
  <2>1. Applied(d, a, t).after \in {d, DropStub(d, t)}
    BY <1>7 DEF Applied, WhenOk
  <2>2. Toward(d, DropStub(d, t))
    BY <1>7, TowardNoStub DEF Fits
  <2> QED  BY <1>0, <2>1, <2>2
<1>8. CASE a = "stub_to_blob"
  <2> DEFINE q == PutStub(d, t, cr.c[t])
  <2>1. Applied(d, a, t).after \in {d, q} /\ (Applied(d, a, t).after # d => ParentOk(d, t))
    BY <1>8 DEF Applied, WhenOk
  <2>2. cr.c[t] # None
    BY <1>8 DEF Fits
  <2>3. ParentOk(d, t) => Toward(d, q)
    BY <2>2, TowardStub
  <2> QED  BY <1>0, <2>1, <2>3
<1>9. CASE a = "dirstub_to_tree"
  <2> DEFINE q == PutDirStub(d, Children(cr))
  <2>1. Applied(d, a, t).after \in {d, q} /\ (Applied(d, a, t).after # d => CanPutDirStub(d))
    BY <1>9 DEF Applied, WhenOk
  <2>2. CanPutDirStub(d) => Toward(d, q)
    BY <1>9, TowardDirStub DEF Fits
  <2> QED  BY <1>0, <2>1, <2>2
<1>10. CASE a = "dirstub_to_blob"
  <2> DEFINE q == PutStub(DropDir(d), P, cr.c[P])
  <2>1. Applied(d, a, t).after \in {d, q}
    BY <1>10 DEF Applied, WhenOk
  <2>2. Toward(d, q)
    BY <1>10, TowardBlob DEF Fits
  <2> QED  BY <1>0, <2>1, <2>2
<1>11. CASE a = "stub_to_tree"
  <2> DEFINE s == DropStub(d, P)
             q == PutDirStub(s, Children(cr))
  <2>1. Applied(d, a, t).after \in {s, q} /\ (Applied(d, a, t).after # s => CanPutDirStub(s))
    BY <1>11 DEF Applied, WhenOk
  <2>2. cr.kind = "tree" /\ cr.c[P] = None
    BY <1>11, EntryParts DEF Fits
  <2>3. Toward(d, s)
    BY <2>2, TowardNoStub, Constants
  <2> HIDE DEF s
  <2>4. CanPutDirStub(s) => Toward(s, q)
    BY <2>2, <2>3, TowardDirStub DEF Toward
  <2>5. CanPutDirStub(s) => Toward(d, q)
    BY <2>3, <2>4, TowardSteps
  <2> QED  BY <2>1, <2>3, <2>5
<1> QED  BY <1>1, <1>2, <1>3, <1>4, <1>5, <1>6, <1>7, <1>8, <1>9, <1>10, <1>11 DEF Acts

\* Every application of a planned restore maps to LogicalTree and keeps the invariant.
LEMMA RestoreGood ==
    ASSUME Quietly, RestoreApply
    PROVE  Good
<1>1. Moves /\ cmd.name = "restore"
  BY RestoreShape DEF Quietly, RestoreApply
<1>2. disk \in Disks /\ cr \in Entries /\ cmd.seen \in Disks
  BY DEF Quietly, IInv, TypeOK
<1>3. Follows(disk, cr) /\ InStep(cr)
  BY <1>1 DEF Quietly, CalmC, RestC, Resting
<1>4. PICK act \in cmd.todo : disk' = Applied(disk, act[1], act[2]).after
  BY DEF RestoreApply
<1>5. Fitting(cr, act)
  <2>1. act \in RestorePlan(cmd.seen, cr, cmd.at)
    BY <1>1, <1>4 DEF Quietly, IInv, RestoreInv
  <2> QED  BY <1>2, <2>1, PlanFits
<1>6. Toward(disk, disk')
  <2>1. PICK a \in Acts, t \in Paths : act = <<a, t>> /\ Fits(cr, a, t)
    BY <1>5 DEF Fitting
  <2> QED  BY <1>2, <1>3, <1>4, <2>1, AppliedToward
<1>7. LSTEP
  <2>1. \A t \in Paths : Scanned(disk')[t] \in {Scanned(disk)[t], Files(cr)[t]}
    BY <1>6 DEF Toward
  <2>2. lost' = lost
    BY DEF Quietly, Calm
  <2> QED  BY <1>1, <1>2, <2>1, <2>2, MapDiscard
<1>8. CalmC'
  <2>1. \A t \in Paths \ dirty : Seen(disk, disk', t)
    BY <1>3, <1>6 DEF Toward, InStep, Seen
  <2>2. StubC' /\ ExpandC'
    <3>1. cmd'.name = "restore"
      BY <1>1 DEF Moves
    <3> QED  BY <3>1 DEF StubC, ExpandC
  <2>3. Follows(disk', cr)
    BY <1>6 DEF Toward
  <2> QED  BY <1>1, <2>1, <2>2, <2>3, RestingGoesOn
<1> QED  BY <1>7, <1>8 DEF Good

----------------------------------------------------------------------------
(* Clone.                                                                  *)

\* What is known when a clone goes on.
LEMMA CloneKnows ==
    ASSUME Quietly, cmd.name = "clone"
    PROVE  /\ disk \in Disks /\ cr = AbsentEntry /\ base = cr /\ cmd.goal \in Entries
           /\ Follows(disk, cmd.goal) /\ \A t \in Paths : Files(base)[t] = None
           /\ CmdOK(cmd) /\ repo # "none" /\ cmd.touched \subseteq dirty /\ lost' = lost
<1>1. disk \in Disks /\ CmdOK(cmd) /\ repo # "none" /\ lost' = lost /\ cmd.goal \in Entries
  BY CmdRecord DEF Quietly, IInv, TypeOK, PlaceInv, Calm, CmdOK
<1>2. cr = AbsentEntry /\ Follows(disk, cmd.goal) /\ cmd.touched \subseteq dirty
  BY DEF Quietly, CalmC, RestC, CloneC
<1>3. base = cr
  BY DEF base, Reconciling
<1>4. \A t \in Paths : Files(AbsentEntry)[t] = None
  BY DEF Files, AbsentEntry, Nowhere
<1> QED  BY <1>1, <1>2, <1>3, <1>4

\* Clone's own progress is what the invariant asks while a clone runs.
LEMMA CloneGoesOn ==
    ASSUME Quietly, Moves, cmd.name = "clone", CloneC'
    PROVE  CalmC'
<1>1. cr = AbsentEntry /\ repo # "none" /\ cmd.touched \subseteq dirty
  BY CloneKnows
<1>2. /\ cmd'.name = "clone" /\ cmd'.touched = cmd.touched /\ UNCHANGED <<cr, repo, dirty>>
  BY DEF Moves
<1>3. RestC'
  BY <1>1, <1>2 DEF RestC, Resting
<1>4. StubC' /\ ExpandC' /\ PushC' /\ PullC' /\ RecC'
  BY <1>2 DEF StubC, ExpandC, PushC, PullC, RecC, Reconciling
<1> QED  BY <1>3, <1>4 DEF CalmC

\* A file or a stub is put where the clone finds nothing.
CloneWrites(t) ==
    \/ ParentOk(disk, t) /\ disk' = PutStub(disk, t, cmd.goal.c[t])
    \/ CanPutReal(disk, t) /\ ~Exists(disk, t) /\ disk' = PutReal(disk, t, cmd.goal.c[t])

\* Writing one entry of the goal, as a file or a marker, maps to LogicalTree and is progress of clone.
LEMMA CloneWrite ==
    ASSUME Quietly, Moves, cmd.name = "clone", NEW t \in Paths, cmd.goal.c[t] # None,
           disk' = disk \/ CloneWrites(t)
    PROVE  /\ LSTEP /\ Follows(disk', cmd.goal) /\ disk'.dirstub = disk.dirstub
           /\ \A u \in Paths \ {t} : Seen(disk, disk', u) /\ disk'.real[u] = disk.real[u]
           /\ CloneWrites(t) /\ ~Exists(disk, t) => Scanned(disk')[t] = Files(cmd.goal)[t]
<1>0. /\ disk \in Disks /\ base = cr /\ cmd.goal \in Entries
      /\ Follows(disk, cmd.goal) /\ \A u \in Paths : Files(base)[u] = None /\ lost' = lost
  BY CloneKnows
<1>1. /\ cmd.goal.c[t] \in Content /\ cmd.goal.c[t] \in Maybe
      /\ Files(cmd.goal)[t] = cmd.goal.c[t]
      /\ t # P => disk.stub[P] = None
  <2>1. cmd.goal.c[t] \in Content /\ cmd.goal.c[t] \in Maybe /\ Files(cmd.goal)[t] = cmd.goal.c[t]
    BY <1>0, EntryParts, FilesParts DEF Maybe
  <2>2. t # P => cmd.goal.c[P] = None
    BY <1>0, EntryParts, Constants
  <2> QED  BY <1>0, <2>1, <2>2, Constants DEF Follows
<1>2. ~Exists(disk, t) => Scanned(disk)[t] \in {None, cmd.goal.c[t]}
  BY <1>0, Hidden
<1>3. /\ Follows(disk', cmd.goal) /\ disk'.dirstub = disk.dirstub
      /\ \A u \in Paths \ {t} : Seen(disk, disk', u) /\ disk'.real[u] = disk.real[u]
      /\ CloneWrites(t) /\ ~Exists(disk, t) => Scanned(disk')[t] = Files(cmd.goal)[t]
      /\ Exists(disk, t) => Seen(disk, disk', t)
  <2>1. CASE disk' = disk /\ ~CloneWrites(t)
    BY <1>0, <2>1 DEF Seen
  <2>2. CASE ParentOk(disk, t) /\ disk' = PutStub(disk, t, cmd.goal.c[t])
    <3>1. /\ OnlyAt(disk, disk', t) /\ disk'.real = disk.real /\ disk'.stub[t] = cmd.goal.c[t]
          /\ disk'.kind = IF t = P THEN disk.kind ELSE "dir"
          /\ Exists(disk, t) => Seen(disk, disk', t)
          /\ ~Exists(disk, t) /\ cmd.goal.c[t] # None => Scanned(disk')[t] = cmd.goal.c[t]
      BY <1>0, <1>1, <2>2, PutStubScan
    <3>2. /\ disk' \in Disks /\ disk'.dirstub = disk.dirstub
          /\ \A u \in Paths \ {t} : disk'.stub[u] = disk.stub[u] /\ Seen(disk, disk', u)
      BY <1>1, <3>1 DEF OnlyAt
    <3>3. Follows(disk', cmd.goal)
      BY <1>0, <3>1, <3>2 DEF Follows
    <3> QED  BY <1>1, <3>1, <3>2, <3>3
  <2>3. CASE CanPutReal(disk, t) /\ ~Exists(disk, t) /\ disk' = PutReal(disk, t, cmd.goal.c[t])
    <3>1. /\ OnlyAt(disk, disk', t) /\ disk'.stub = disk.stub
          /\ Scanned(disk')[t] = cmd.goal.c[t]
      BY <1>0, <1>1, <2>3, PutRealScan
    <3>2. /\ disk' \in Disks /\ disk'.dirstub = disk.dirstub
          /\ \A u \in Paths \ {t} : disk'.real[u] = disk.real[u] /\ Seen(disk, disk', u)
      BY <1>1, <3>1 DEF OnlyAt
    <3>3. Follows(disk', cmd.goal)
      BY <1>0, <3>1, <3>2 DEF Follows
    <3> QED  BY <1>1, <2>3, <3>1, <3>2, <3>3
  <2> QED  BY <2>1, <2>2, <2>3 DEF CloneWrites
<1>4. LSTEP
  <2>1. \A u \in Paths : \/ Scanned(disk')[u] = Scanned(disk)[u]
                         \/ /\ u \notin dirty \/ Scanned(disk)[u] = Files(base)[u]
                            /\ Scanned(disk')[u] = Files(cmd.goal)[u]
    <3>1. Seen(disk, disk', t) \/ (Scanned(disk)[t] = None /\ Scanned(disk')[t] = Files(cmd.goal)[t])
      BY <1>1, <1>2, <1>3 DEF Seen
    <3> QED  BY <1>0, <1>3, <3>1 DEF Seen
  <2> QED  BY <1>0, <2>1, MapAdopt
<1> QED  BY <1>3, <1>4

\* What expand_or_stub does with one blob.
LEMMA CloneBlob ==
    ASSUME Quietly, cmd.name = "clone", NEW t \in Paths, NEW pc \in {"root", "children"}, NEW leads,
           ClonePutBlob(t, pc, leads)
    PROVE  \/ Fail
           \/ /\ cmd'.pc = pc /\ cmd'.todo = cmd.todo \ {t}
              /\ (disk' = disk /\ Exists(disk, t)) \/ CloneWrites(t)
<1>0. CmdOK(cmd) /\ lost = {} /\ lost' = {}
  BY CmdRecord DEF Quietly, Calm
<1>1. CASE Fail
  BY <1>1
<1>2. CASE ~Fail
  <2>1. cmd' = [cmd EXCEPT !.pc = pc, !.todo = @ \ {t}]
    BY <1>2 DEF ClonePutBlob
  <2>2. cmd'.pc = pc /\ cmd'.todo = cmd.todo \ {t}
    BY <1>0, <2>1 DEF CmdOK
  <2>3. (disk' = disk /\ Exists(disk, t)) \/ CloneWrites(t)
    BY <1>0, <1>2 DEF ClonePutBlob, CloneWrites, SeenThere, MayLose
  <2> QED  BY <2>2, <2>3
<1> QED  BY <1>1, <1>2

\* Nothing the user did not put there is in the way of a clone.
LEMMA CloneEmpty ==
    ASSUME disk \in Disks, Listed(disk) = {}, InPlace(disk) \subseteq dirty
    PROVE  /\ disk.dirstub = None /\ \A t \in Paths : disk.stub[t] = None
           /\ \A t \in Paths \ dirty : Scanned(disk)[t] = None /\ disk.real[t] = None
           /\ Exists(disk, P) => P \in dirty
           /\ disk.kind \in {"file", "link"} => Paths \subseteq dirty
           /\ \A n \in Names : disk.real[n] = None => Scanned(disk)[n] = None
           /\ disk.kind \in {"absent", "dir"} => Scanned(disk)[P] = None
<1>1. disk.dirstub = None /\ \A t \in Paths : disk.stub[t] = None
  BY Constants DEF Listed
<1>2. /\ disk.kind = "dir" => P \in dirty /\ \A n \in Names : disk.real[n] # None => n \in dirty
      /\ disk.kind \in {"file", "link"} => Paths \subseteq dirty
  BY Constants DEF InPlace
<1>3. disk.kind \in {"absent", "file", "link", "dir"}
  BY DiskParts
<1>4. disk.kind \in {"absent", "dir"} => disk.real[P] = None /\ Scanned(disk)[P] = None
  BY <1>1, DiskParts, Reads, Constants
<1>5. \A n \in Names : disk.real[n] = None => Scanned(disk)[n] = None
  BY <1>1, ReadsName, Constants
<1>6. disk.kind # "dir" => \A n \in Names : disk.real[n] = None
  BY DiskParts
<1>7. \A t \in Paths : t = P \/ t \in Names
  BY Constants
<1>8. Exists(disk, P) => P \in dirty
  BY <1>2, <1>3, Constants DEF Exists
<1>9. ASSUME NEW t \in Paths \ dirty PROVE Scanned(disk)[t] = None /\ disk.real[t] = None
  <2>1. disk.kind \in {"absent", "dir"}
    BY <1>2, <1>3, <1>9
  <2>2. t \in Names => disk.real[t] = None
    BY <1>2, <1>6, <1>9
  <2> QED  BY <1>4, <1>5, <1>7, <1>9, <2>1, <2>2
<1> QED  BY <1>1, <1>2, <1>4, <1>5, <1>8, <1>9

\* Materialising P in a clone maps to LogicalTree and keeps the invariant.
LEMMA CloneEntryGood ==
    ASSUME Quietly, CloneEntry
    PROVE  Good
<1> DEFINE g == cmd.goal
<1>0. IInv /\ cmd.name = "clone" /\ cmd.pc = "entry"
  BY DEF Quietly, CloneEntry, Running
<1>1. /\ disk \in Disks /\ base = cr /\ g \in Entries
      /\ Follows(disk, g) /\ \A t \in Paths : Files(base)[t] = None
      /\ CmdOK(cmd) /\ lost = {} /\ lost' = lost
  BY <1>0, CloneKnows DEF Quietly, Calm
<1>2. /\ disk.dirstub = None /\ \A t \in Paths : disk.stub[t] = None
      /\ \A t \in Paths \ dirty : Scanned(disk)[t] = None /\ disk.real[t] = None
      /\ Exists(disk, P) => P \in dirty
      /\ disk.kind \in {"file", "link"} => Paths \subseteq dirty
      /\ \A n \in Names : disk.real[n] = None => Scanned(disk)[n] = None
      /\ disk.kind \in {"absent", "dir"} => Scanned(disk)[P] = None
  <2>1. Listed(disk) = {} /\ InPlace(disk) \subseteq dirty
    BY <1>0 DEF Quietly, CalmC, CloneC
  <2> QED  BY <1>1, <2>1, CloneEmpty
<1>3. Moves \/ Stops
  BY <1>0, CloneShape
<1>4. Fail => Good
  BY <1>0, StopGood DEF Fail, Stops, Abort
<1>5. cmd'.pc # "idle" => Moves
  BY <1>3 DEF Stops, Abort, StopCmd, Idle
<1>6. \A pc \in {"root", "children"} : Goto(pc) => cmd'.pc = pc
  BY <1>1 DEF Goto, CmdOK
<1>7. \A t \in Paths : t = P \/ t \in Names
  BY Constants
<1>p. P \in Paths /\ \A n \in Names : n \in Paths /\ n # P
  BY Constants
\* Reaching the root: what is left to show.
<1>8. ASSUME Moves, cmd'.pc = "root", LSTEP, Follows(disk', g),
             \A t \in Paths \ dirty : Scanned(disk')[t] = Files(g)[t]
      PROVE  Good
  <2>1. cmd'.name = "clone" /\ cmd'.goal = g /\ dirty' = dirty
    BY <1>0, <1>8 DEF Moves
  <2>2. CloneC'
    BY <1>8, <2>1 DEF CloneC, InStep
  <2>3. CalmC'
    BY <1>0, <1>8, <2>2, CloneGoesOn
  <2> QED  BY <1>8, <2>3 DEF Good
<1>9. CASE g.kind = "absent"
  <2>1. disk' = disk /\ Goto("root")
    BY <1>9 DEF CloneEntry
  <2>2. Moves /\ cmd'.pc = "root"
    BY <1>5, <1>6, <2>1
  <2>3. \A t \in Paths \ dirty : Scanned(disk')[t] = Files(g)[t]
    <3>1. \A t \in Paths : Files(g)[t] = None
      BY <1>1, <1>7, <1>9, EntryParts, FilesParts
    <3> QED  BY <1>2, <2>1, <3>1
  <2>4. LSTEP
    BY <1>1, <2>1, <2>2, MapStutter
  <2> QED  BY <1>1, <1>8, <2>1, <2>2, <2>3, <2>4
<1>10. CASE g.kind = "blob"
  <2>1. PICK leads \in {"nowhere", "file", "dir"} : ClonePutBlob(P, "root", leads)
    BY <1>10 DEF CloneEntry
  <2>2. CASE Fail
    BY <1>4, <2>2
  <2>3. CASE ~Fail
    <3>1. cmd'.pc = "root" /\ ((disk' = disk /\ Exists(disk, P)) \/ CloneWrites(P))
      BY <1>0, <1>p, <2>1, <2>3, CloneBlob
    <3>2. Moves /\ g.c[P] # None
      BY <1>1, <1>5, <1>10, <3>1, EntryParts
    <3>3. /\ LSTEP /\ Follows(disk', g)
          /\ \A u \in Paths \ {P} : Seen(disk, disk', u)
          /\ CloneWrites(P) /\ ~Exists(disk, P) => Scanned(disk')[P] = Files(g)[P]
      BY <1>0, <1>p, <3>1, <3>2, CloneWrite
    <3>4. \A n \in Names : Files(g)[n] = None
      BY <1>1, <1>10, EntryParts, FilesParts
    <3>5. P \notin dirty => Scanned(disk')[P] = Files(g)[P]
      BY <1>2, <3>1, <3>3
    <3>6. \A n \in Names \ dirty : Scanned(disk')[n] = Files(g)[n]
      BY <1>2, <1>p, <3>3, <3>4 DEF Seen
    <3>7. \A t \in Paths \ dirty : Scanned(disk')[t] = Files(g)[t]
      BY <1>7, <3>5, <3>6
    <3> QED  BY <1>8, <3>1, <3>2, <3>3, <3>7
  <2> QED  BY <2>2, <2>3
<1>11. CASE g.kind = "link"
  <2>1. ClonePutLink
    BY <1>11 DEF CloneEntry
  <2>2. CASE Fail
    BY <1>4, <2>2
  <2>3. CASE ~Fail
    <3>1. CanPutLink(disk) /\ disk' = PutLink(disk) /\ Goto("root") /\ disk.kind \notin {"file", "link"}
      BY <1>1, <2>1, <2>3 DEF ClonePutLink, MayLose
    <3>2. Moves /\ cmd'.pc = "root"
      BY <1>5, <1>6, <3>1
    <3>3. /\ disk' \in Disks /\ disk'.dirstub = None /\ disk'.stub[P] = disk.stub[P]
          /\ Scanned(disk')[P] = "link"
          /\ \A n \in Names : disk'.stub[n] = None /\ Scanned(disk')[n] = None
      BY <1>1, <3>1, PutLinkScan
    <3>4. Files(g)[P] = "link" /\ \A n \in Names : Files(g)[n] = None
      BY <1>1, <1>11, EntryParts, FilesParts
    <3>5. \A n \in Names : Scanned(disk)[n] = None
      <4>1. \A n \in Names : disk.real[n] = None
        BY <1>1, <3>1, DiskParts DEF CanPutLink, EmptyDir
      <4> QED  BY <1>2, <4>1
    <3>6. Scanned(disk)[P] = None
      BY <1>1, <1>2, <3>1, DiskParts
    <3>7. Follows(disk', g)
      BY <1>2, <1>7, <1>p, <3>3 DEF Follows
    <3>8. LSTEP
      <4>1. \A t \in Paths : \/ Scanned(disk')[t] = Scanned(disk)[t]
                             \/ /\ t \notin dirty \/ Scanned(disk)[t] = Files(base)[t]
                                /\ Scanned(disk')[t] = Files(cmd.goal)[t]
        BY <1>1, <1>7, <1>p, <3>3, <3>4, <3>5, <3>6
      <4> QED  BY <1>0, <1>1, <3>2, <4>1, MapAdopt
    <3>9. \A t \in Paths \ dirty : Scanned(disk')[t] = Files(g)[t]
      BY <1>7, <3>3, <3>4
    <3> QED  BY <1>8, <3>2, <3>7, <3>8, <3>9
  <2> QED  BY <2>2, <2>3
<1>12. CASE g.kind = "tree"
  <2>1. PICK leads \in {"nowhere", "file", "dir"} : ClonePutTree(leads)
    BY <1>12 DEF CloneEntry
  <2> DEFINE ch == Children(g)
  <2>0. /\ ch \in [Names -> Maybe] /\ \A n \in Names : ch[n] = Files(g)[n]
        /\ Files(g)[P] = None
    <3>1. ch \in [Names -> Maybe] /\ \A n \in Names : ch[n] = g.c[n]
      BY <1>1, EntryParts DEF Children
    <3> QED  BY <1>1, <1>12, <3>1, EntryParts, FilesParts
  <2> HIDE DEF ch
  <2>2. CASE Fail
    BY <1>4, <2>2
  <2>3. CASE disk.kind \in {"file", "link"} /\ disk' = disk /\ Goto("root")
    <3>1. Moves /\ cmd'.pc = "root"
      BY <1>5, <1>6, <2>3
    <3>2. LSTEP
      BY <1>1, <2>3, <3>1, MapStutter
    <3> QED  BY <1>1, <1>2, <1>8, <2>3, <3>1, <3>2
  <2>4. CASE CanMakeDir(disk) /\ disk' = PutDirStub(disk, ch) /\ Goto("root")
    <3>1. Moves /\ cmd'.pc = "root"
      BY <1>5, <1>6, <2>4
    <3>2. /\ disk' \in Disks /\ disk'.stub = disk.stub /\ disk'.dirstub = ch
          /\ Scanned(disk')[P] = None
          /\ \A n \in Names : Scanned(disk')[n] = IF disk.real[n] # None THEN disk.real[n]
                                               ELSE IF disk.stub[n] # None THEN disk.stub[n]
                                               ELSE ch[n]
      BY <1>1, <2>0, <2>4, PutDirStubScan DEF CanMakeDir
    <3>3. Follows(disk', g)
      BY <1>2, <1>12, <3>2 DEF Follows, ch
    <3>4. Scanned(disk)[P] = None
      BY <1>2, <2>4 DEF CanMakeDir
    <3>5. \A n \in Names : \/ Seen(disk, disk', n)
                           \/ Scanned(disk)[n] = None /\ Scanned(disk')[n] = Files(g)[n]
      BY <1>1, <1>2, <1>p, <2>0, <3>2, ReadsName DEF Seen
    <3>6. LSTEP
      <4>1. \A t \in Paths : \/ Scanned(disk')[t] = Scanned(disk)[t]
                             \/ /\ t \notin dirty \/ Scanned(disk)[t] = Files(base)[t]
                                /\ Scanned(disk')[t] = Files(cmd.goal)[t]
        BY <1>1, <1>7, <1>p, <3>2, <3>4, <3>5 DEF Seen
      <4> QED  BY <1>0, <1>1, <3>1, <4>1, MapAdopt
    <3>7. \A t \in Paths \ dirty : Scanned(disk')[t] = Files(g)[t]
      BY <1>2, <1>7, <1>p, <2>0, <3>2
    <3> QED  BY <1>8, <3>1, <3>3, <3>6, <3>7
  <2>5. CASE /\ CanMakeDir(disk) /\ disk' = MakeDir(disk)
             /\ cmd' = [cmd EXCEPT !.pc = "children", !.todo = StubNames(ch)]
    <3>1. cmd'.pc = "children" /\ cmd'.todo = StubNames(ch)
      BY <1>1, <2>5 DEF CmdOK
    <3>2. Moves
      BY <1>5, <3>1
    <3>3. /\ disk' \in Disks /\ disk'.real = disk.real /\ disk'.stub = disk.stub
          /\ disk'.dirstub = disk.dirstub
          /\ Scanned(disk')[P] = None /\ \A n \in Names : Seen(disk, disk', n)
      BY <1>1, <2>5, MakeDirScan
    <3>4. Scanned(disk)[P] = None
      BY <1>2, <2>5 DEF CanMakeDir
    <3>5. \A t \in Paths : Seen(disk, disk', t)
      BY <1>7, <3>3, <3>4 DEF Seen
    <3>6. LSTEP
      <4>1. \A t \in Paths : Scanned(disk')[t] = Scanned(disk)[t]
        BY <3>5 DEF Seen
      <4> QED  BY <1>0, <1>1, <3>2, <4>1, MapAdopt
    <3>7. /\ cmd'.name = "clone" /\ cmd'.goal = g /\ dirty' = dirty
      BY <1>0, <3>2 DEF Moves
    <3>8. Follows(disk', g)
      BY <1>2, <3>3 DEF Follows
    <3>9. \A t \in Paths \ (dirty \cup cmd'.todo) : Scanned(disk')[t] = Files(g)[t]
      <4>1. \A t \in Paths \ dirty : Scanned(disk')[t] = None
        BY <1>2, <3>5 DEF Seen
      <4>2. \A n \in Names \ cmd'.todo : Files(g)[n] = None
        BY <2>0, <3>1 DEF StubNames
      <4> QED  BY <1>7, <2>0, <4>1, <4>2
    <3>10. \A n \in cmd'.todo \ dirty : disk'.real[n] = None
      BY <1>2, <1>p, <3>1, <3>3 DEF StubNames
    <3>11. CloneC'
      BY <1>2, <1>12, <3>1, <3>3, <3>7, <3>8, <3>9, <3>10 DEF CloneC
    <3> QED  BY <1>0, <3>2, <3>6, <3>11, CloneGoesOn DEF Good
  <2> QED
    BY <2>1, <2>2, <2>3, <2>4, <2>5 DEF ClonePutTree, SeenFile, ch
<1> QED  BY <1>1, <1>9, <1>10, <1>11, <1>12, EntryParts

\* Materialising a child of P in a clone maps to LogicalTree and keeps the invariant.
LEMMA CloneChildGood ==
    ASSUME Quietly, NEW n \in Names, CloneChild(n)
    PROVE  Good
<1> DEFINE g == cmd.goal
<1>0. IInv /\ cmd.name = "clone" /\ cmd.pc = "children" /\ n \in cmd.todo
  BY DEF Quietly, CloneChild, Running
<1>1. n \in Paths /\ g.c[n] # None /\ ClonePutBlob(n, "children", "nowhere")
  BY <1>0, Constants DEF IInv, CloneInv, CloneChild
<1>2. CASE Fail
  BY <1>0, <1>2, StopGood DEF Fail, Stops, Abort
<1>3. CASE ~Fail
  <2>1. /\ cmd'.pc = "children" /\ cmd'.todo = cmd.todo \ {n}
        /\ (disk' = disk /\ Exists(disk, n)) \/ CloneWrites(n)
    BY <1>0, <1>1, <1>3, CloneBlob
  <2>2. Moves
    BY <1>0, <2>1, CloneShape DEF Stops, Abort, StopCmd, Idle
  <2>3. /\ LSTEP /\ Follows(disk', g) /\ disk'.dirstub = disk.dirstub
        /\ \A u \in Paths \ {n} : Seen(disk, disk', u) /\ disk'.real[u] = disk.real[u]
        /\ CloneWrites(n) /\ ~Exists(disk, n) => Scanned(disk')[n] = Files(g)[n]
    BY <1>0, <1>1, <2>1, <2>2, CloneWrite
  <2>4. /\ g.kind = "tree" /\ disk.dirstub = None
        /\ \A t \in Paths \ (dirty \cup cmd.todo) : Scanned(disk)[t] = Files(g)[t]
        /\ \A m \in cmd.todo \ dirty : disk.real[m] = None
    BY <1>0 DEF Quietly, CalmC, CloneC
  <2>5. cmd'.name = "clone" /\ cmd'.goal = g /\ dirty' = dirty
    BY <1>0, <2>2 DEF Moves
  <2>6. n \notin dirty => ~Exists(disk, n)
    BY <1>0, <2>4, Constants DEF Exists
  <2>7. \A t \in Paths \ (dirty \cup cmd'.todo) : Scanned(disk')[t] = Files(g)[t]
    BY <2>1, <2>3, <2>4, <2>6 DEF Seen
  <2>8. \A m \in cmd'.todo \ dirty : disk'.real[m] = None
    <3>1. cmd.todo \subseteq Names
      BY <1>0 DEF IInv, CloneInv
    <3> QED  BY <2>1, <2>3, <2>4, <3>1, Constants
  <2>9. CloneC'
    BY <2>1, <2>3, <2>4, <2>5, <2>7, <2>8 DEF CloneC
  <2> QED  BY <1>0, <2>2, <2>3, <2>9, CloneGoesOn DEF Good
<1> QED  BY <1>2, <1>3

----------------------------------------------------------------------------
(* Reconciliation.                                                         *)

\* What bringing the file stub, the directory stub or the stub at n to g
\* makes of d.
FileStubTo(d, q, g) ==
    LET s == DropStub(d, P) IN
    \/ g.kind = "absent" /\ q = s
    \/ g.kind = "blob" /\ q = PutStub(d, P, g.c[P])
    \/ g.kind = "tree" /\ CanMakeDir(s) /\ q = PutDirStub(s, Children(g))
    \/ g.kind = "link" /\ CanPutLink(s) /\ q = PutLink(s)
DirStubTo(d, q, g) ==
    LET s == [d EXCEPT !.dirstub = None] IN
    /\ d.kind \in {"absent", "dir"}
    /\ \/ g.kind = "absent" /\ q = PruneDir(s)
       \/ g.kind = "tree" /\ q = PutDirStub(d, Children(g))
       \/ g.kind = "blob" /\ q = PutStub(DropDir(s), P, g.c[P])
       \/ g.kind = "link" /\ q = PutLink(DropDir(s))
ChildStubTo(d, q, g, n) ==
    \/ g.kind = "blob" /\ q = d
    \/ /\ g.kind # "blob" /\ ParentOk(d, n)
       /\ q = IF g.c[n] = None THEN DropStub(d, n) ELSE PutStub(d, n, g.c[n])

\* One step is one of these, or stops the command.
FileStubStep == /\ P \in cmd.todo /\ cmd'.todo = cmd.todo \ {P}
                /\ FileStubTo(disk, disk', cmd.goal)
                /\ lost' = {} /\ cmd.goal.kind = "link" => disk.kind # "file"
DirStubStep == /\ P \notin cmd.todo /\ DirStub \in cmd.todo /\ cmd'.todo = cmd.todo \ {DirStub}
               /\ DirStubTo(disk, disk', cmd.goal)
               /\ lost' = {} /\ cmd.goal.kind \in {"blob", "link"} =>
                    \A n \in Names : disk.real[n] = None
ChildStubStep(n) == /\ P \notin cmd.todo /\ n \in cmd.todo /\ cmd'.todo = cmd.todo \ {n}
                    /\ ChildStubTo(disk, disk', cmd.goal, n)

\* A step of the reconciliation stops, or works on P's marker, on the directory's or on a child's.
LEMMA ReconcileCases ==
    ASSUME IInv, Reconcile
    PROVE  /\ Reconciling /\ disk \in Disks /\ cmd.goal \in Entries
           /\ \/ Stops /\ (disk' = disk \/ (disk' = DropStub(disk, P) /\ Exists(disk, P)))
              \/ Moves /\ (FileStubStep \/ DirStubStep \/ \E n \in Names : ChildStubStep(n))
<1>0. /\ Reconciling /\ disk \in Disks /\ cmd.goal \in Entries /\ CmdOK(cmd)
      /\ cmd.name # "idle"
  BY CmdRecord DEF Reconcile, Reconciling, IInv, TypeOK
<1>1. Moves \/ Stops
  BY ReconcileShape
<1>2. ASSUME NEW id, Done(id) PROVE Moves /\ cmd'.todo = cmd.todo \ {id}
  <2>1. cmd'.name = cmd.name /\ cmd'.todo = cmd.todo \ {id}
    BY <1>0, <1>2 DEF Done, CmdOK
  <2> QED  BY <1>0, <1>1, <2>1 DEF Stops, Abort, StopCmd, Idle
<1>3. ASSUME NEW d, Abort(d) PROVE Stops /\ disk' = d
  BY <1>0, <1>3 DEF Stops, Abort
<1>4. DropStub(disk, P).kind = disk.kind /\ DropStub(disk, P).dirstub = disk.dirstub
  BY <1>0, DropStubScan, Constants
<1>5. CASE P \in cmd.todo /\ ReconcileFileStub
  <2>1. CASE \E d : Abort(d)
    <3>1. Abort(DropStub(disk, P)) /\ Exists(disk, P)
      <4>1. ~CanMakeDir(DropStub(disk, P)) \/ ~CanPutLink(DropStub(disk, P)) => Exists(disk, P)
        BY <1>0, <1>4, DiskParts, Constants DEF Exists, CanMakeDir, CanPutLink
      <4>2. ~Done(P)
        BY <1>0, <1>2, <2>1 DEF Moves, Abort, StopCmd, Idle
      <4> QED  BY <1>0, <1>5, <4>1, <4>2, EntryParts DEF ReconcileFileStub
    <3> QED  BY <1>0, <1>3, <3>1
  <2>2. CASE ~ \E d : Abort(d)
    <3>1. Done(P) /\ FileStubTo(disk, disk', cmd.goal)
      BY <1>0, <1>5, <2>2, EntryParts DEF ReconcileFileStub, FileStubTo
    <3>2. lost' = {} /\ cmd.goal.kind = "link" => disk.kind # "file"
      BY <1>4, <1>5, <2>2 DEF ReconcileFileStub, MayLose
    <3> QED  BY <1>0, <1>2, <1>5, <3>1, <3>2 DEF FileStubStep
  <2> QED  BY <2>1, <2>2
<1>6. CASE P \notin cmd.todo /\ DirStub \in cmd.todo /\ ReconcileDirStub
  <2>1. CASE Fail
    BY <1>0, <1>3, <2>1 DEF Fail
  <2>2. CASE ~Fail
    <3>1. disk.kind \in {"absent", "dir"}
      BY <1>6, <2>2, Constants DEF ReconcileDirStub, ParentOk
    <3>2. Done(DirStub) /\ DirStubTo(disk, disk', cmd.goal)
      BY <1>0, <1>6, <2>2, <3>1, EntryParts DEF ReconcileDirStub, DirStubTo
    <3>3. lost' = {} /\ cmd.goal.kind \in {"blob", "link"} => \A n \in Names : disk.real[n] = None
      <4>1. [disk EXCEPT !.dirstub = None].real = disk.real
        BY <1>0, DropDirStubScan
      <4> QED  BY <1>6, <2>2, <4>1 DEF ReconcileDirStub, MayLose
    <3> QED  BY <1>0, <1>2, <1>6, <3>2, <3>3 DEF DirStubStep
  <2> QED  BY <2>1, <2>2
<1>7. ASSUME NEW n \in Names \cap cmd.todo, P \notin cmd.todo, ReconcileChildStub(n)
      PROVE  \/ Stops /\ disk' = disk
             \/ Moves /\ ChildStubStep(n)
  <2>1. CASE Fail
    BY <1>3, <2>1 DEF Fail
  <2>2. CASE ~Fail
    <3>1. Done(n) /\ ChildStubTo(disk, disk', cmd.goal, n)
      BY <1>7, <2>2 DEF ReconcileChildStub, ChildStubTo
    <3> QED  BY <1>2, <1>7, <3>1 DEF ChildStubStep
  <2> QED  BY <2>1, <2>2
<1> QED  BY <1>0, <1>5, <1>6, <1>7 DEF Reconcile

\* What reconciling P's own marker does to every path the scan reads.
LEMMA FileStubScan ==
    ASSUME NEW d \in Disks, NEW g \in Entries, NEW q, FileStubTo(d, q, g)
    PROVE  /\ q \in Disks /\ q.stub[P] \in {None, g.c[P]}
           /\ \A n \in Names : q.stub[n] = d.stub[n] /\ q.real[n] = d.real[n]
           /\ q.dirstub = IF g.kind = "tree" THEN Children(g) ELSE d.dirstub
           /\ d.kind = "absent" => Scanned(q)[P] = Files(g)[P]
           /\ Seen(d, q, P) \/ Scanned(q)[P] = Files(g)[P]
           /\ g.kind = "tree" => \A n \in Names :
                Scanned(q)[n] = IF d.real[n] # None THEN d.real[n]
                                ELSE IF d.stub[n] # None THEN d.stub[n] ELSE g.c[n]
           /\ g.kind # "tree" => \A n \in Names : Seen(d, q, n)
           /\ q.kind = "file" => d.kind = "file"
           /\ d.kind # "absent" /\ g.kind # "link" => Seen(d, q, P)
           /\ g.kind \in {"absent", "blob"} => q.kind = d.kind
           /\ g.kind = "link" => d.dirstub = None
<1> DEFINE s == DropStub(d, P)
<1>0. /\ P \in Paths /\ \A n \in Names : n \in Paths \ {P}
      /\ \A n \in Names : n \in Paths
  BY Constants
<1>1. /\ s \in Disks /\ s.real = d.real /\ s.dirstub = d.dirstub /\ s.kind = d.kind
      /\ s.stub[P] = None /\ \A u \in Paths \ {P} : s.stub[u] = d.stub[u] /\ Seen(d, s, u)
      /\ Scanned(s)[P] = IF Exists(d, P) THEN Scanned(d)[P] ELSE Behind(d, P)
  BY <1>0, DropStubScan
<1> HIDE DEF s
<1>2. Behind(d, P) = None /\ (Exists(d, P) <=> d.kind # "absent")
  BY DEF Behind, Exists
<1>3. CASE g.kind = "absent" /\ q = s
  <2>1. Files(g)[P] = None
    BY <1>3, EntryParts, FilesParts
  <2> QED  BY <1>0, <1>1, <1>2, <1>3, <2>1 DEF Seen
<1>4. CASE g.kind = "blob" /\ q = PutStub(d, P, g.c[P])
  <2>1. g.c[P] \in Maybe /\ g.c[P] # None /\ Files(g)[P] = g.c[P] /\ ParentOk(d, P)
    BY <1>0, <1>4, EntryParts, FilesParts DEF ParentOk
  <2>2. /\ OnlyAt(d, q, P) /\ q.real = d.real /\ q.stub[P] = g.c[P]
        /\ q.kind = IF P = P THEN d.kind ELSE "dir"
        /\ Exists(d, P) => Seen(d, q, P)
        /\ ~Exists(d, P) /\ g.c[P] # None => Scanned(q)[P] = g.c[P]
    BY <1>0, <1>4, <2>1, PutStubScan
  <2>3. /\ q \in Disks /\ q.dirstub = d.dirstub
        /\ \A u \in Paths \ {P} : q.stub[u] = d.stub[u] /\ Seen(d, q, u)
    BY <2>2 DEF OnlyAt
  <2> QED  BY <1>0, <1>2, <1>4, <2>1, <2>2, <2>3
<1>5. CASE g.kind = "tree" /\ CanMakeDir(s) /\ q = PutDirStub(s, Children(g))
  <2>1. /\ Children(g) \in [Names -> Maybe] /\ \A n \in Names : Children(g)[n] = g.c[n]
        /\ Files(g)[P] = None
    BY <1>5, EntryParts, FilesParts
  <2>2. /\ q \in Disks /\ q.real = s.real /\ q.stub = s.stub /\ q.dirstub = Children(g)
        /\ q.kind = "dir" /\ Scanned(q)[P] = None
        /\ \A n \in Names : Scanned(q)[n] = IF s.real[n] # None THEN s.real[n]
                                            ELSE IF s.stub[n] # None THEN s.stub[n]
                                            ELSE Children(g)[n]
    BY <1>1, <1>5, <2>1, PutDirStubScan DEF CanMakeDir
  <2>3. \A n \in Names : Scanned(q)[n] = IF d.real[n] # None THEN d.real[n]
                                ELSE IF d.stub[n] # None THEN d.stub[n] ELSE g.c[n]
    BY <1>0, <1>1, <2>1, <2>2
  <2>4. d.kind # "absent" => Seen(d, q, P)
    BY <1>1, <1>5, <2>2, ReadsAt, <1>0 DEF Seen, CanMakeDir
  <2> QED  BY <1>0, <1>1, <1>5, <2>1, <2>2, <2>3, <2>4
<1>6. CASE g.kind = "link" /\ CanPutLink(s) /\ q = PutLink(s)
  <2>1. /\ q \in Disks /\ q.real = Nowhere /\ q.dirstub = None /\ q.kind = "link"
        /\ q.stub[P] = s.stub[P] /\ Scanned(q)[P] = "link"
        /\ \A n \in Names : q.stub[n] = None /\ q.real[n] = None /\ Scanned(q)[n] = None
    BY <1>1, <1>6, PutLinkScan
  <2>2. /\ d.dirstub = None
        /\ \A n \in Names : d.stub[n] = None /\ d.real[n] = None
    <3>1. s.dirstub = None /\ \A n \in Names : s.stub[n] = None /\ s.real[n] = None
      BY <1>1, <1>6, DiskParts DEF CanPutLink, EmptyDir
    <3> QED  BY <1>0, <1>1, <3>1
  <2>3. \A n \in Names : Scanned(d)[n] = None
    BY <2>2, ReadsName
  <2>4. Files(g)[P] = "link"
    BY <1>6, FilesParts
  <2> QED  BY <1>1, <1>6, <2>1, <2>2, <2>3, <2>4 DEF Seen
<1> QED  BY <1>3, <1>4, <1>5, <1>6 DEF FileStubTo, s

\* What reconciling the directory marker does to every path the scan reads.
LEMMA DirStubScan ==
    ASSUME NEW d \in Disks, NEW g \in Entries, NEW q, DirStubTo(d, q, g),
           d.stub[P] \in {None, g.c[P]}
    PROVE  /\ q \in Disks /\ q.stub[P] \in {None, g.c[P]} /\ q.kind # "file"
           /\ q.dirstub = IF g.kind = "tree" THEN Children(g) ELSE None
           /\ g.kind \in {"absent", "tree"} =>
                \A n \in Names : q.stub[n] = d.stub[n] /\ q.real[n] = d.real[n]
           /\ g.kind \in {"blob", "link"} =>
                \A n \in Names : q.stub[n] = None /\ q.real[n] = None
           /\ Scanned(q)[P] = Files(g)[P]
           /\ \A n \in Names : Scanned(q)[n] =
                IF g.kind \in {"blob", "link"} THEN None
                ELSE IF d.real[n] # None THEN d.real[n]
                ELSE IF d.stub[n] # None THEN d.stub[n] ELSE g.c[n]
<1> DEFINE s == [d EXCEPT !.dirstub = None]
<1>0. /\ P \in Paths /\ \A n \in Names : n \in Paths \ {P}
      /\ \A n \in Names : n \in Paths
  BY Constants
<1>1. /\ s \in Disks /\ s.real = d.real /\ s.stub = d.stub
      /\ s.dirstub = None /\ s.kind = d.kind /\ Seen(d, s, P)
      /\ \A n \in Names : Scanned(s)[n] = IF d.real[n] # None THEN d.real[n]
                                          ELSE d.stub[n]
  BY DropDirStubScan
<1> HIDE DEF s
<1>2. d.kind \in {"absent", "dir"}
  BY DEF DirStubTo
<1>3. CASE g.kind = "absent" /\ q = PruneDir(s)
  <2>1. /\ q \in Disks /\ \A t \in Paths : q.real[t] = s.real[t] /\ q.stub[t] = s.stub[t]
        /\ q.dirstub = s.dirstub /\ \A n \in Names : Seen(s, q, n)
        /\ q = s \/ (EmptyDir(s) /\ s.kind = "dir" /\ q.kind = "absent"
                     /\ Scanned(q)[P] = s.stub[P] /\ Scanned(s)[P] = None)
    BY <1>1, <1>3, PruneDirScan
  <2>2. g.c[P] = None /\ Files(g)[P] = None /\ \A n \in Names : g.c[n] = None
    BY <1>3, EntryParts, FilesParts
  <2>3. Scanned(q)[P] = None
    <3>1. Scanned(s)[P] = IF s.kind = "absent" THEN s.stub[P] ELSE None
      BY <1>0, <1>1, <1>2, ReadsAt, Reads
    <3> QED  BY <1>1, <2>1, <2>2, <3>1
  <2>4. q.kind # "file"
    BY <1>1, <1>2, <2>1
  <2>5. \A n \in Names : Scanned(q)[n] = IF d.real[n] # None THEN d.real[n]
                                ELSE IF d.stub[n] # None THEN d.stub[n] ELSE g.c[n]
    BY <1>1, <2>1, <2>2 DEF Seen
  <2> QED  BY <1>0, <1>1, <1>3, <2>1, <2>2, <2>3, <2>4, <2>5
<1>4. CASE g.kind = "tree" /\ q = PutDirStub(d, Children(g))
  <2>1. /\ Children(g) \in [Names -> Maybe] /\ \A n \in Names : Children(g)[n] = g.c[n]
        /\ Files(g)[P] = None
    BY <1>4, EntryParts, FilesParts
  <2>2. /\ q \in Disks /\ q.real = d.real /\ q.stub = d.stub /\ q.dirstub = Children(g)
        /\ q.kind = "dir" /\ Scanned(q)[P] = None
        /\ \A n \in Names : Scanned(q)[n] = IF d.real[n] # None THEN d.real[n]
                                            ELSE IF d.stub[n] # None THEN d.stub[n]
                                            ELSE Children(g)[n]
    BY <1>2, <1>4, <2>1, PutDirStubScan
  <2> QED  BY <1>4, <2>1, <2>2
<1>5. CASE g.kind \in {"blob", "link"}
  <2> DEFINE r == DropDir(s)
  <2>1. /\ r \in Disks /\ r.real = Nowhere /\ r.dirstub = None /\ r.kind = "absent"
        /\ r.stub[P] = s.stub[P]
        /\ \A n \in Names : r.stub[n] = None /\ r.real[n] = None /\ Scanned(r)[n] = None
    BY <1>1, DropDirScan
  <2> HIDE DEF r
  <2>2. CASE g.kind = "blob" /\ q = PutStub(r, P, g.c[P])
    <3>1. g.c[P] \in Maybe /\ g.c[P] # None /\ Files(g)[P] = g.c[P] /\ ParentOk(r, P) /\ ~Exists(r, P)
      BY <1>0, <2>1, <2>2, EntryParts, FilesParts DEF ParentOk, Exists
    <3>2. /\ OnlyAt(r, q, P) /\ q.real = r.real /\ q.stub[P] = g.c[P]
          /\ q.kind = IF P = P THEN r.kind ELSE "dir"
          /\ ~Exists(r, P) /\ g.c[P] # None => Scanned(q)[P] = g.c[P]
      BY <1>0, <2>1, <2>2, <3>1, PutStubScan
    <3>3. /\ q \in Disks /\ q.dirstub = r.dirstub
          /\ \A u \in Paths \ {P} : q.stub[u] = r.stub[u] /\ Scanned(q)[u] = Scanned(r)[u]
      BY <3>2 DEF OnlyAt, Seen
    <3> QED  BY <1>0, <2>1, <2>2, <3>1, <3>2, <3>3
  <2>3. CASE g.kind = "link" /\ q = PutLink(r)
    <3>1. /\ q \in Disks /\ q.real = Nowhere /\ q.dirstub = None /\ q.kind = "link"
          /\ q.stub[P] = r.stub[P] /\ Scanned(q)[P] = "link"
          /\ \A n \in Names : q.stub[n] = None /\ q.real[n] = None /\ Scanned(q)[n] = None
      BY <2>1, <2>3, PutLinkScan
    <3>2. Files(g)[P] = "link"
      BY <2>3, FilesParts
    <3> QED  BY <1>1, <2>1, <2>3, <3>1, <3>2
  <2> QED  BY <1>5, <2>2, <2>3 DEF DirStubTo, r, s
<1> QED  BY <1>3, <1>4, <1>5 DEF DirStubTo, s

\* What reconciling a child's marker does to every path the scan reads.
LEMMA ChildStubScan ==
    ASSUME NEW n \in Names, NEW d \in Disks, NEW g \in Entries, NEW q, ChildStubTo(d, q, g, n),
           d.stub[P] \in {None, g.c[P]}
    PROVE  /\ q \in Disks /\ q.real = d.real /\ q.dirstub = d.dirstub
           /\ \A u \in Paths \ {n} : q.stub[u] = d.stub[u] /\ Seen(d, q, u)
           /\ g.kind # "blob" => q.stub[n] = g.c[n]
           /\ g.kind = "blob" => q = d
           /\ d.real[n] # None => Seen(d, q, n)
           /\ g.kind # "blob" /\ d.real[n] = None =>
                Scanned(q)[n] = IF g.c[n] # None THEN g.c[n] ELSE Behind(d, n)
           /\ q.kind = d.kind \/ q.kind = "dir"
<1>0. n \in Paths /\ n # P /\ P \in Paths
  BY Constants
<1>1. Exists(d, n) <=> d.real[n] # None
  BY <1>0 DEF Exists
<1>2. CASE g.kind = "blob" /\ q = d
  BY <1>2 DEF Seen
<1>3. CASE g.kind # "blob" /\ g.c[n] = None /\ q = DropStub(d, n)
  <2>0. n \in Paths /\ q = DropStub(d, n)
    BY <1>0, <1>3
  <2>1. /\ q \in Disks /\ q.real = d.real /\ q.dirstub = d.dirstub /\ q.kind = d.kind
        /\ q.stub[n] = None /\ \A u \in Paths \ {n} : q.stub[u] = d.stub[u] /\ Seen(d, q, u)
        /\ Scanned(q)[n] = IF Exists(d, n) THEN Scanned(d)[n] ELSE Behind(d, n)
    BY <2>0, DropStubScan
  <2> QED  BY <1>1, <1>3, <2>1 DEF Seen
<1>4. CASE g.kind # "blob" /\ g.c[n] # None /\ ParentOk(d, n) /\ q = PutStub(d, n, g.c[n])
  <2>1. g.c[n] \in Maybe /\ d.stub[P] = None
    BY <1>0, <1>4, EntryParts
  <2>2. /\ OnlyAt(d, q, n) /\ q.real = d.real /\ q.stub[n] = g.c[n]
        /\ q.kind = IF n = P THEN d.kind ELSE "dir"
        /\ Exists(d, n) => Seen(d, q, n)
        /\ ~Exists(d, n) /\ g.c[n] # None => Scanned(q)[n] = g.c[n]
    BY <1>0, <1>4, <2>1, PutStubScan
  <2>3. /\ q \in Disks /\ q.dirstub = d.dirstub
        /\ \A u \in Paths \ {n} : q.stub[u] = d.stub[u] /\ Seen(d, q, u)
    BY <2>1, <2>2 DEF OnlyAt
  <2> QED  BY <1>1, <1>4, <2>2, <2>3
<1> QED  BY <1>2, <1>3, <1>4 DEF ChildStubTo

\* What reconciliation has left behind it on d, with td to go towards g.
RecOn(d, td, g) ==
    /\ P \in td => d.stub[P] # None
    /\ P \notin td => d.stub[P] \in {None, g.c[P]}
    /\ DirStub \notin td /\ d.dirstub # None => d.dirstub = Children(g) /\ g.kind = "tree"
    /\ \A n \in Names \ td : d.stub[n] \in {None, g.c[n]} \/ g.kind = "blob"
BlobOn(d, g) == g.kind = "blob" => NoInner(d) \/ d.dirstub # None

\* What each of the three steps does to the markers and the files.
LEMMA ReconcileOn ==
    ASSUME IInv, RecInv, Reconcile, Moves
    PROVE  /\ RecOn(disk, cmd.todo, cmd.goal) /\ RecOn(disk', cmd'.todo, cmd.goal)
           /\ BlobOn(disk, cmd.goal) => BlobOn(disk', cmd.goal)
           /\ P \notin cmd'.todo /\ cmd'.todo \subseteq cmd.todo
           /\ \A t \in Paths : disk'.stub[t] \in {disk.stub[t], None, cmd.goal.c[t]}
           /\ \A n \in Names : disk'.real[n] \in {disk.real[n], None}
           /\ disk'.kind = "file" => disk.kind = "file"
           /\ disk'.dirstub \in {disk.dirstub, None} \/
                (disk'.dirstub = Children(cmd.goal) /\ cmd.goal.kind = "tree")
           /\ DirStub \in cmd'.todo /\ disk'.dirstub = None => disk.dirstub = None
<1> DEFINE g == cmd.goal
<1>0. /\ Reconciling /\ disk \in Disks /\ g \in Entries
      /\ FileStubStep \/ DirStubStep \/ \E n \in Names : ChildStubStep(n)
  BY ReconcileCases DEF Moves, Stops, Abort, StopCmd, Idle
<1>1. RecOn(disk, cmd.todo, g)
  BY <1>0 DEF RecInv, RecOn
<1>p. /\ P \in Paths /\ P \notin Names /\ DirStub \notin Paths /\ \A n \in Names : n \in Paths \ {P}
      /\ \A t \in Paths : t = P \/ t \in Names
      /\ None \notin [Names -> Maybe] /\ Children(g) \in [Names -> Maybe]
  BY <1>0, Constants, EntryParts
<1>2. CASE FileStubStep
  <2>1. cmd'.todo = cmd.todo \ {P} /\ FileStubTo(disk, disk', g)
    BY <1>2 DEF FileStubStep
  <2>2. /\ disk'.stub[P] \in {None, g.c[P]}
        /\ \A n \in Names : disk'.stub[n] = disk.stub[n] /\ disk'.real[n] = disk.real[n]
        /\ disk'.dirstub = IF g.kind = "tree" THEN Children(g) ELSE disk.dirstub
        /\ disk'.kind = "file" => disk.kind = "file"
    BY <1>0, <2>1, FileStubScan
  <2>3. \A n \in Names : n \in cmd'.todo <=> n \in cmd.todo
    BY <1>p, <2>1
  <2>4. DirStub \in cmd'.todo <=> DirStub \in cmd.todo
    BY <1>p, <2>1
  <2>5. RecOn(disk', cmd'.todo, g)
    BY <1>1, <2>1, <2>2, <2>3, <2>4 DEF RecOn
  <2>6. BlobOn(disk, g) => BlobOn(disk', g)
    BY <2>2 DEF BlobOn, NoInner
  <2>7. \A t \in Paths : disk'.stub[t] \in {disk.stub[t], None, g.c[t]}
    BY <1>p, <2>2
  <2> QED  BY <1>1, <1>p, <2>1, <2>2, <2>5, <2>6, <2>7
<1>3. CASE DirStubStep
  <2>1. cmd'.todo = cmd.todo \ {DirStub} /\ DirStubTo(disk, disk', g) /\ P \notin cmd.todo
    BY <1>3 DEF DirStubStep
  <2>2. disk.stub[P] \in {None, g.c[P]}
    BY <1>1, <2>1 DEF RecOn
  <2>3. /\ disk'.stub[P] \in {None, g.c[P]} /\ disk'.kind # "file"
        /\ disk'.dirstub = IF g.kind = "tree" THEN Children(g) ELSE None
        /\ g.kind \in {"absent", "tree"} =>
                \A n \in Names : disk'.stub[n] = disk.stub[n] /\ disk'.real[n] = disk.real[n]
        /\ g.kind \in {"blob", "link"} =>
                \A n \in Names : disk'.stub[n] = None /\ disk'.real[n] = None
    BY <1>0, <2>1, <2>2, DirStubScan
  <2>4. \A n \in Names : n \in cmd'.todo <=> n \in cmd.todo
    BY <1>p, <2>1
  <2>5. g.kind \in {"absent", "blob", "link", "tree"}
    BY <1>0, EntryParts
  <2>6. \A n \in Names : /\ disk'.stub[n] \in {disk.stub[n], None}
                         /\ disk'.real[n] \in {disk.real[n], None}
    BY <2>3, <2>5
  <2>7. RecOn(disk', cmd'.todo, g)
    BY <1>1, <1>p, <2>1, <2>3, <2>4, <2>6 DEF RecOn
  <2>8. BlobOn(disk', g)
    BY <2>3 DEF BlobOn, NoInner
  <2>9. \A t \in Paths : disk'.stub[t] \in {disk.stub[t], None, g.c[t]}
    BY <1>p, <2>3, <2>6
  <2> QED  BY <1>1, <1>p, <2>1, <2>3, <2>6, <2>7, <2>8, <2>9
<1>4. CASE \E n \in Names : ChildStubStep(n)
  <2>0. PICK n \in Names : ChildStubStep(n)
    BY <1>4
  <2>1. cmd'.todo = cmd.todo \ {n} /\ ChildStubTo(disk, disk', g, n) /\ P \notin cmd.todo
    BY <2>0 DEF ChildStubStep
  <2>2. disk.stub[P] \in {None, g.c[P]}
    BY <1>1, <2>1 DEF RecOn
  <2>3. /\ disk'.real = disk.real /\ disk'.dirstub = disk.dirstub
        /\ \A u \in Paths \ {n} : disk'.stub[u] = disk.stub[u]
        /\ g.kind # "blob" => disk'.stub[n] = g.c[n]
        /\ g.kind = "blob" => disk' = disk
        /\ disk'.kind = disk.kind \/ disk'.kind = "dir"
    BY <1>0, <2>1, <2>2, ChildStubScan
  <2>4. DirStub \in cmd'.todo <=> DirStub \in cmd.todo
    BY <1>p, <2>1
  <2>5. \A m \in Names \ cmd'.todo : disk'.stub[m] \in {None, g.c[m]} \/ g.kind = "blob"
    <3>1. \A m \in Names \ {n} : disk'.stub[m] = disk.stub[m]
      BY <1>p, <2>3
    <3>2. \A m \in Names \ cmd.todo : disk.stub[m] \in {None, g.c[m]} \/ g.kind = "blob"
      BY <1>1 DEF RecOn
    <3> QED  BY <2>1, <2>3, <3>1, <3>2
  <2>6. RecOn(disk', cmd'.todo, g)
    BY <1>1, <1>p, <2>1, <2>2, <2>3, <2>4, <2>5 DEF RecOn
  <2>7. BlobOn(disk, g) => BlobOn(disk', g)
    BY <2>3 DEF BlobOn
  <2>8. \A t \in Paths : disk'.stub[t] \in {disk.stub[t], None, g.c[t]}
    BY <2>3
  <2> QED  BY <1>1, <1>p, <2>1, <2>3, <2>6, <2>7, <2>8
<1> QED  BY <1>0, <1>2, <1>3, <1>4

\* The files a step of the reconciliation brings to the new root: those that
\* were the old root's or that nobody edited, or else edited ones alone.
Brings(d, q, b, g) ==
    \/ \A t \in Paths : \/ Seen(d, q, t)
                        \/ /\ t \notin dirty \/ Scanned(d)[t] = Files(b)[t]
                           /\ Scanned(q)[t] = Files(g)[t]
    \/ \A t \in Paths : \/ Seen(d, q, t)
                        \/ /\ t \in dirty /\ Scanned(d)[t] \in {None, Files(b)[t]}
                           /\ Scanned(q)[t] = Files(g)[t]

\* A step that brings one path to the new root's file and leaves the others brings the tree toward it.
LEMMA BringsOne ==
    ASSUME NEW d, NEW q, NEW b, NEW g, NEW t \in Paths, \A u \in Paths \ {t} : Seen(d, q, u),
           Seen(d, q, t) \/ (Scanned(d)[t] \in {None, Files(b)[t]} /\ Scanned(q)[t] = Files(g)[t])
    PROVE  Brings(d, q, b, g)
<1>1. CASE Seen(d, q, t)
  BY <1>1 DEF Brings
<1>2. CASE ~Seen(d, q, t) /\ t \in dirty
  BY <1>2 DEF Brings
<1>3. CASE ~Seen(d, q, t) /\ t \notin dirty
  BY <1>3 DEF Brings
<1> QED  BY <1>1, <1>2, <1>3

\* What a stub says, while the tree is between two roots.
LEMMA BetweenReads ==
    ASSUME NEW d \in Disks, NEW b \in Entries, NEW g \in Entries, Between(d, b, g), NEW t \in Paths
    PROVE  /\ d.stub[t] # None => d.stub[t] \in {Files(b)[t], Files(g)[t]}
           /\ Behind(d, t) \in {None, Files(b)[t], Files(g)[t]}
           /\ Behind(d, t) # None => b.kind \in {"tree", "absent"} \/ g.kind = "tree"
           /\ ~Exists(d, t) => Scanned(d)[t] \in {None, Files(b)[t], Files(g)[t]}
<1>1. d.stub[t] # None => d.stub[t] \in {Files(b)[t], Files(g)[t]}
  BY FilesParts DEF Between
<1>2. /\ Behind(d, t) \in {None, Files(b)[t], Files(g)[t]}
      /\ Behind(d, t) # None => b.kind \in {"tree", "absent"} \/ g.kind = "tree"
  <2>1. CASE t # P /\ d.dirstub # None
    <3>1. t \in Names /\ Behind(d, t) = d.dirstub[t]
      BY <2>1, Constants DEF Behind
    <3>2. Children(b)[t] = Files(b)[t] /\ Children(g)[t] = Files(g)[t]
      BY <3>1, EntryParts, FilesParts
    <3> QED  BY <2>1, <3>1, <3>2 DEF Between
  <2>2. CASE ~(t # P /\ d.dirstub # None)
    BY <2>2 DEF Behind
  <2> QED  BY <2>1, <2>2
<1> QED  BY <1>1, <1>2, ReadsAt

\* Reconciling P's own marker only brings to the new root paths nobody edited, or whose file the user removed.
LEMMA FileStubBrings ==
    ASSUME NEW d \in Disks, NEW b \in Entries, NEW g \in Entries, Between(d, b, g),
           d.stub[P] # None, NEW q, FileStubTo(d, q, g), g.kind = "link" => d.kind # "file"
    PROVE  Brings(d, q, b, g)
<1>p. /\ P \in Paths /\ P \notin Names /\ \A n \in Names : n \in Paths \ {P}
      /\ \A t \in Paths : t = P \/ t \in Names
  BY Constants
<1>1. /\ d.kind = "absent" => Scanned(q)[P] = Files(g)[P]
      /\ Seen(d, q, P) \/ Scanned(q)[P] = Files(g)[P]
      /\ g.kind = "tree" => \A n \in Names :
           Scanned(q)[n] = IF d.real[n] # None THEN d.real[n]
                           ELSE IF d.stub[n] # None THEN d.stub[n] ELSE g.c[n]
      /\ g.kind # "tree" => \A n \in Names : Seen(d, q, n)
      /\ d.kind # "absent" /\ g.kind # "link" => Seen(d, q, P)
  BY FileStubScan
<1>2. d.stub[P] \in {Files(b)[P], Files(g)[P]}
  BY <1>p, BetweenReads
<1>3. /\ d.kind = "absent" => Scanned(d)[P] = d.stub[P]
      /\ d.kind = "link" => Scanned(d)[P] = "link"
      /\ d.kind = "dir" => Scanned(d)[P] = None
      /\ d.kind \in {"absent", "file", "link", "dir"}
  BY <1>p, Reads, ReadsAt, DiskParts
<1>4. Seen(d, q, P) \/ (Scanned(d)[P] \in {None, Files(b)[P]} /\ Scanned(q)[P] = Files(g)[P])
  <2>1. CASE d.kind = "absent"
    BY <1>1, <1>2, <1>3, <2>1 DEF Seen
  <2>2. CASE d.kind # "absent" /\ g.kind # "link"
    BY <1>1, <2>2
  <2>3. CASE d.kind # "absent" /\ g.kind = "link"
    <3>1. Files(g)[P] = "link"
      BY <2>3, FilesParts
    <3> QED  BY <1>1, <1>3, <2>3, <3>1 DEF Seen
  <2> QED  BY <2>1, <2>2, <2>3
<1>5. CASE g.kind # "tree"
  BY <1>p, <1>1, <1>4, <1>5, BringsOne
<1>6. CASE g.kind = "tree"
  <2>1. Files(g)[P] = None /\ b.kind = "blob"
    <3>1. g.c[P] = None /\ Files(g)[P] = None
      BY <1>6, EntryParts, FilesParts
    <3>2. b.c[P] # None
      BY <1>p, <3>1 DEF Between
    <3> QED  BY <3>1, <3>2, EntryParts
  <2>2. \A n \in Names : Files(b)[n] = None /\ Files(g)[n] = g.c[n]
    BY <2>1, EntryParts, FilesParts
  <2>3. Seen(d, q, P) \/ (Scanned(d)[P] = Files(b)[P] /\ Scanned(q)[P] = Files(g)[P])
    <3>1. d.kind = "absent" => Scanned(d)[P] = Files(b)[P] /\ Scanned(q)[P] = Files(g)[P]
      <4>1. d.kind = "absent" => Scanned(d)[P] # Files(g)[P]
        BY <1>3, <2>1
      <4> QED  BY <1>1, <1>2, <1>3, <4>1
    <3> QED  BY <1>1, <1>6, <3>1
  <2>4. ASSUME NEW n \in Names
        PROVE  Seen(d, q, n) \/ (Scanned(d)[n] = Files(b)[n] /\ Scanned(q)[n] = Files(g)[n])
    <3>1. Scanned(q)[n] = IF d.real[n] # None THEN d.real[n]
                          ELSE IF d.stub[n] # None THEN d.stub[n] ELSE g.c[n]
      BY <1>1, <1>6
    <3>2. CASE d.real[n] # None \/ d.stub[n] # None
      BY <3>1, <3>2, ReadsName DEF Seen
    <3>3. CASE d.real[n] = None /\ d.stub[n] = None /\ d.dirstub # None
      <4>1. d.dirstub = Children(g)
        BY <2>1, <3>3 DEF Between
      <4>2. Scanned(d)[n] = g.c[n]
        BY <3>3, <4>1, ReadsName, EntryParts
      <4> QED  BY <3>1, <3>3, <4>2 DEF Seen
    <3>4. CASE d.real[n] = None /\ d.stub[n] = None /\ d.dirstub = None
      BY <2>2, <3>1, <3>4, ReadsName
    <3> QED  BY <3>2, <3>3, <3>4
  <2> QED  BY <1>p, <2>3, <2>4 DEF Brings
<1> QED  BY <1>5, <1>6

\* Reconciling a child's marker only brings to the new root paths nobody edited, or whose file the user removed.
LEMMA ChildStubBrings ==
    ASSUME NEW n \in Names, NEW d \in Disks, NEW b \in Entries, NEW g \in Entries, Between(d, b, g),
           NEW q, ChildStubTo(d, q, g, n), d.stub[P] \in {None, g.c[P]}
    PROVE  Brings(d, q, b, g)
<1>0. n \in Paths /\ n # P
  BY Constants
<1>1. /\ \A u \in Paths \ {n} : Seen(d, q, u)
      /\ g.kind = "blob" => q = d
      /\ d.real[n] # None => Seen(d, q, n)
      /\ g.kind # "blob" /\ d.real[n] = None =>
           Scanned(q)[n] = IF g.c[n] # None THEN g.c[n] ELSE Behind(d, n)
  BY ChildStubScan
<1>2. Seen(d, q, n) \/ (Scanned(d)[n] \in {None, Files(b)[n]} /\ Scanned(q)[n] = Files(g)[n])
  <2>1. CASE g.kind = "blob" \/ d.real[n] # None
    BY <1>1, <2>1 DEF Seen
  <2>2. CASE g.kind # "blob" /\ d.real[n] = None
    <3>1. Files(g)[n] = g.c[n] /\ Files(b)[n] = b.c[n]
      BY FilesParts
    <3>2. /\ Scanned(d)[n] \in {None, Files(b)[n], Files(g)[n]}
          /\ Behind(d, n) \in {None, Files(b)[n], Files(g)[n]}
          /\ d.stub[n] # None => d.stub[n] \in {Files(b)[n], Files(g)[n]}
      BY <1>0, <2>2, BetweenReads DEF Exists
    <3>3. Scanned(d)[n] = IF d.stub[n] # None THEN d.stub[n] ELSE Behind(d, n)
      BY <1>0, <2>2, ReadsAt DEF Exists
    <3>4. CASE g.c[n] # None
      BY <1>1, <2>2, <3>1, <3>2, <3>4 DEF Seen
    <3>5. CASE g.c[n] = None
      <4>1. Scanned(q)[n] = Behind(d, n)
        BY <1>1, <2>2, <3>5
      <4>2. CASE Behind(d, n) = None
        BY <3>1, <3>2, <3>5, <4>1, <4>2
      <4>3. CASE Behind(d, n) # None
        BY <3>1, <3>2, <3>3, <3>5, <4>1, <4>3 DEF Seen
      <4> QED  BY <4>2, <4>3
    <3> QED  BY <3>4, <3>5
  <2> QED  BY <2>1, <2>2
<1> QED  BY <1>0, <1>1, <1>2, BringsOne

\* Reconciling the directory marker only brings to the new root paths nobody edited, or whose file the user removed.
LEMMA DirStubBrings ==
    ASSUME NEW d \in Disks, NEW b \in Entries, NEW g \in Entries, Between(d, b, g), BlobOn(d, g),
           d.stub[P] \in {None, g.c[P]}, NEW q, DirStubTo(d, q, g),
           d.dirstub = None => Paths \subseteq dirty,
           g.kind \in {"blob", "link"} => \A n \in Names : d.real[n] = None
    PROVE  Brings(d, q, b, g)
<1>p. /\ P \in Paths /\ P \notin Names /\ \A n \in Names : n \in Paths \ {P}
      /\ \A t \in Paths : t = P \/ t \in Names
  BY Constants
<1>1. /\ Scanned(q)[P] = Files(g)[P]
      /\ \A n \in Names : Scanned(q)[n] =
                IF g.kind \in {"blob", "link"} THEN None
                ELSE IF d.real[n] # None THEN d.real[n]
                ELSE IF d.stub[n] # None THEN d.stub[n] ELSE g.c[n]
  BY DirStubScan
<1>2. \A n \in Names : Files(g)[n] = g.c[n] /\ (g.kind \in {"blob", "link"} => g.c[n] = None)
  BY EntryParts, FilesParts
<1>3. Scanned(d)[P] \in {None, Files(g)[P]} /\ d.kind \in {"absent", "dir"}
  <2>1. d.stub[P] \in {None, Files(g)[P]} /\ d.kind \in {"absent", "dir"}
    BY <1>p, FilesParts DEF DirStubTo
  <2> QED  BY <1>p, <2>1, Reads, ReadsAt
<1>4. \A n \in Names :
        \/ Seen(d, q, n)
        \/ /\ Scanned(d)[n] \in {None, Files(b)[n]} /\ Scanned(q)[n] = Files(g)[n]
           /\ d.dirstub # None => Scanned(d)[n] = Files(b)[n]
  <2> TAKE n \in Names
  <2>0. /\ Scanned(q)[n] =
                IF g.kind \in {"blob", "link"} THEN None
                ELSE IF d.real[n] # None THEN d.real[n]
                ELSE IF d.stub[n] # None THEN d.stub[n] ELSE g.c[n]
        /\ Files(g)[n] = g.c[n] /\ (g.kind \in {"blob", "link"} => g.c[n] = None)
    BY <1>1, <1>2
  <2>1. CASE d.real[n] # None
    BY <2>0, <2>1, ReadsName DEF Seen
  <2>2. CASE d.real[n] = None /\ d.stub[n] # None
    <3>1. Scanned(d)[n] = d.stub[n] /\ d.stub[n] \in {Files(b)[n], Files(g)[n]}
      BY <1>p, <2>2, ReadsName, BetweenReads
    <3> QED  BY <2>0, <2>2, <3>1 DEF Seen
  <2>3. CASE d.real[n] = None /\ d.stub[n] = None /\ d.dirstub # None
    <3>1. Scanned(d)[n] = Behind(d, n) /\ Scanned(d)[n] = d.dirstub[n]
      BY <1>p, <2>3, ReadsName DEF Behind
    <3>2. d.dirstub[n] \in {Files(b)[n], Files(g)[n]}
      <4>1. Children(b)[n] = Files(b)[n] /\ Children(g)[n] = Files(g)[n]
        BY EntryParts, FilesParts
      <4> QED  BY <2>3, <4>1 DEF Between
    <3> QED  BY <2>0, <2>3, <3>1, <3>2 DEF Seen
  <2>4. CASE d.real[n] = None /\ d.stub[n] = None /\ d.dirstub = None
    BY <2>0, <2>4, ReadsName
  <2> QED  BY <2>1, <2>2, <2>3, <2>4
<1>5. CASE d.dirstub = None
  BY <1>p, <1>1, <1>3, <1>4, <1>5 DEF Brings, Seen
<1>6. CASE d.dirstub # None
  <2>1. Seen(d, q, P) \/ Scanned(d)[P] = Files(b)[P]
    <3>1. d.kind = "dir" /\ Scanned(d)[P] = None
      BY <1>p, <1>6, DiskParts, ReadsAt
    <3>2. b.kind \in {"tree", "absent"} => Files(b)[P] = None
      BY EntryParts, FilesParts
    <3>3. g.kind = "tree" => Files(g)[P] = None
      BY EntryParts, FilesParts
    <3>4. b.kind \in {"tree", "absent"} \/ g.kind = "tree"
      BY <1>6 DEF Between
    <3> QED  BY <1>1, <3>1, <3>2, <3>3, <3>4 DEF Seen
  <2> QED  BY <1>p, <1>1, <1>4, <1>6, <2>1 DEF Brings
<1> QED  BY <1>5, <1>6

\* Where nobody's file is in the way, what has been reconciled is the new root's.
LEMMA Reconciled ==
    ASSUME NEW d \in Disks, NEW td, NEW g \in Entries, RecOn(d, td, g), BlobOn(d, g),
           NEW n \in Names, d.real[n] = None
    PROVE  \/ Scanned(d)[n] = Files(g)[n]
           \/ d.dirstub # None /\ DirStub \in td
           \/ d.stub[n] # None /\ n \in td
           \/ d.stub[n] = None /\ d.dirstub = None /\ g.kind = "tree" /\ g.c[n] # None
<1>0. Files(g)[n] = g.c[n] /\ Children(g)[n] = g.c[n] /\ (g.kind # "tree" => g.c[n] = None)
  BY FilesParts, EntryParts
<1>1. CASE d.stub[n] # None
  <2>1. Scanned(d)[n] = d.stub[n]
    BY <1>1, ReadsName
  <2>2. n \notin td => d.stub[n] = g.c[n] \/ g.kind = "blob"
    BY <1>1 DEF RecOn
  <2>3. g.kind = "blob" => d.dirstub # None /\ DirStub \in td
    BY <1>1 DEF RecOn, BlobOn, NoInner
  <2> QED  BY <1>0, <1>1, <2>1, <2>2, <2>3
<1>2. CASE d.stub[n] = None /\ d.dirstub # None
  <2>1. Scanned(d)[n] = d.dirstub[n]
    BY <1>2, ReadsName
  <2>2. DirStub \notin td => d.dirstub = Children(g)
    BY <1>2 DEF RecOn
  <2> QED  BY <1>0, <1>2, <2>1, <2>2
<1>3. CASE d.stub[n] = None /\ d.dirstub = None
  BY <1>0, <1>3, ReadsName
<1> QED  BY <1>1, <1>2, <1>3

\* A pull's reconciliation leaves every path that nobody touched at the new root, or still to come.
LEMMA ReconcileMine ==
    ASSUME Quietly, Reconcile, Moves, cmd.name = "pull"
    PROVE  MovedC' /\ Apart'
<1> DEFINE g == cmd.goal
<1>0. /\ Reconciling /\ disk \in Disks /\ disk' \in Disks /\ g \in Entries
      /\ FileStubStep \/ DirStubStep \/ \E n \in Names : ChildStubStep(n)
  BY ReconcileCases DEF Moves, Stops, Abort, StopCmd, Idle, Quietly
<1>1. /\ RecOn(disk, cmd.todo, g) /\ RecOn(disk', cmd'.todo, g) /\ BlobOn(disk', g)
      /\ P \notin cmd'.todo /\ cmd'.todo \subseteq cmd.todo
      /\ \A n \in Names : disk'.real[n] \in {disk.real[n], None}
      /\ disk'.kind = "file" => disk.kind = "file"
  <2>1. IInv /\ RecInv /\ BlobOn(disk, g)
    BY <1>0 DEF Quietly, BlobInv, BlobOn, Reconciling
  <2> QED  BY <2>1, ReconcileOn
<1>2. /\ Apart /\ MovedC
  BY <1>0 DEF Quietly, CalmC, PullC, Reconciling
<1>3. DirStub \in cmd.todo /\ disk.dirstub = None => Mine = {}
  BY <1>0 DEF Quietly, CalmC, RecC, Mine
<1>4. Mine' = Mine /\ cmd'.goal = g
  BY MovesView DEF Mine, Moves
<1>p. /\ P \in Paths /\ P \notin Names /\ \A n \in Names : n \in Paths /\ n # P /\ n # DirStub
      /\ \A t \in Paths : t = P \/ t \in Names
      /\ DirStub # P /\ None \notin [Names -> Maybe] /\ Children(g) \in [Names -> Maybe]
  BY <1>0, Constants, EntryParts
<1>i. \A n \in Names : (IsFile(disk, n) <=> disk.real[n] # None)
                       /\ (IsFile(disk', n) <=> disk'.real[n] # None)
  BY <1>p DEF IsFile
<1>j. (IsFile(disk, P) <=> disk.kind = "file") /\ (IsFile(disk', P) <=> disk'.kind = "file")
  BY DEF IsFile
<1>k. Mine \subseteq Paths
  BY DEF Mine
\* It is enough to say where each path of Mine is.
<1>5. ASSUME \A t \in Mine : \/ Scanned(disk')[t] = Files(g)[t]
                             \/ disk'.dirstub # None /\ DirStub \in cmd'.todo
                             \/ t # P /\ disk'.stub[t] # None /\ t \in cmd'.todo
      PROVE  MovedC'
  <2>1. \A t \in Mine : Scanned(disk')[t] = Files(cmd'.goal)[t] \/ PendR(t)'
    BY <1>4, <1>5 DEF PendR
  <2>2. \A n \in Names \cap Mine : n \in cmd'.todo => disk'.real[n] = None
    BY <1>1, <1>2 DEF MovedC
  <2> QED  BY <1>4, <2>1, <2>2 DEF MovedC, At
<1>6. ASSUME \A n \in Names \cap Mine : disk'.real[n] = None, P \in Mine => disk'.kind # "file"
      PROVE  Apart'
  <2>1. \A t \in Mine : ~IsFile(disk', t)
    BY <1>6, <1>i, <1>j, <1>k, <1>p
  <2> QED  BY <1>4, <2>1 DEF Apart
<1>7. CASE FileStubStep
  <2>1. /\ P \in cmd.todo /\ cmd'.todo = cmd.todo \ {P} /\ FileStubTo(disk, disk', g)
        /\ disk.stub[P] # None
    BY <1>1, <1>7 DEF FileStubStep, RecOn
  <2>2. /\ disk'.dirstub = IF g.kind = "tree" THEN Children(g) ELSE disk.dirstub
        /\ disk.kind = "absent" => Scanned(disk')[P] = Files(g)[P]
        /\ Seen(disk, disk', P) \/ Scanned(disk')[P] = Files(g)[P]
        /\ g.kind = "link" => disk.dirstub = None
    BY <1>0, <2>1, FileStubScan
  <2>3. \A n \in Names \cap Mine : disk.real[n] = None
    BY <1>2, <1>i, <1>p, <2>1 DEF Apart
  <2>4. \A n \in Names \cap Mine : disk'.real[n] = None
    BY <1>1, <2>3
  <2>5. P \in Mine => disk.kind # "file"
    BY <1>2, <1>j, <2>1 DEF Apart
  <2>6. ASSUME NEW n \in Names \cap Mine
        PROVE  \/ Scanned(disk')[n] = Files(g)[n]
               \/ disk'.dirstub # None /\ DirStub \in cmd'.todo
               \/ n # P /\ disk'.stub[n] # None /\ n \in cmd'.todo
    <3>1. \/ Scanned(disk')[n] = Files(g)[n]
          \/ disk'.dirstub # None /\ DirStub \in cmd'.todo
          \/ disk'.stub[n] # None /\ n \in cmd'.todo
          \/ disk'.stub[n] = None /\ disk'.dirstub = None /\ g.kind = "tree" /\ g.c[n] # None
      BY <1>0, <1>1, <2>4, Reconciled
    <3> QED  BY <1>p, <2>2, <3>1
  <2>7. ASSUME P \in Mine
        PROVE  \/ Scanned(disk')[P] = Files(g)[P]
               \/ disk'.dirstub # None /\ DirStub \in cmd'.todo
    <3>1. \/ Scanned(disk)[P] = Files(g)[P] \/ disk.kind = "absent"
          \/ disk.dirstub # None /\ DirStub \in cmd.todo
      BY <1>2, <2>7 DEF MovedC, At, PendR
    <3>2. disk.dirstub # None => disk'.dirstub # None
      BY <1>p, <2>2
    <3> QED  BY <1>p, <2>1, <2>2, <3>1, <3>2 DEF Seen
  <2>8. MovedC'
    BY <1>5, <1>k, <1>p, <2>6, <2>7
  <2>9. Apart'
    BY <1>1, <1>6, <2>4, <2>5
  <2> QED  BY <2>8, <2>9
<1>8. CASE DirStubStep
  <2>1. /\ P \notin cmd.todo /\ DirStub \in cmd.todo /\ cmd'.todo = cmd.todo \ {DirStub}
        /\ DirStubTo(disk, disk', g) /\ disk.stub[P] \in {None, g.c[P]}
    BY <1>1, <1>8 DEF DirStubStep, RecOn
  <2>2. CASE disk.dirstub = None
    <3>1. Mine = {}
      BY <1>3, <2>1, <2>2
    <3> QED  BY <1>5, <1>6, <3>1
  <2>3. CASE disk.dirstub # None
    <3>1. /\ disk'.kind # "file" /\ Scanned(disk')[P] = Files(g)[P]
          /\ disk'.dirstub = IF g.kind = "tree" THEN Children(g) ELSE None
      BY <1>0, <2>1, DirStubScan
    <3>2. \A n \in Names \cap Mine : disk.real[n] = None
      BY <1>2, <1>i, <1>p, <2>3 DEF Apart
    <3>3. \A n \in Names \cap Mine : disk'.real[n] = None
      BY <1>1, <3>2
    <3>4. ASSUME NEW n \in Names \cap Mine
          PROVE  \/ Scanned(disk')[n] = Files(g)[n]
                 \/ disk'.dirstub # None /\ DirStub \in cmd'.todo
                 \/ n # P /\ disk'.stub[n] # None /\ n \in cmd'.todo
      <4>1. \/ Scanned(disk')[n] = Files(g)[n]
            \/ disk'.dirstub # None /\ DirStub \in cmd'.todo
            \/ disk'.stub[n] # None /\ n \in cmd'.todo
            \/ disk'.stub[n] = None /\ disk'.dirstub = None /\ g.kind = "tree" /\ g.c[n] # None
        BY <1>0, <1>1, <3>3, Reconciled
      <4> QED  BY <1>p, <3>1, <4>1
    <3>5. MovedC'
      BY <1>5, <1>k, <1>p, <3>1, <3>4
    <3>6. Apart'
      BY <1>6, <3>1, <3>3
    <3> QED  BY <3>5, <3>6
  <2> QED  BY <2>2, <2>3
<1>9. CASE \E n \in Names : ChildStubStep(n)
  <2>0. PICK n \in Names : ChildStubStep(n)
    BY <1>9
  <2>1. /\ P \notin cmd.todo /\ n \in cmd.todo /\ cmd'.todo = cmd.todo \ {n}
        /\ ChildStubTo(disk, disk', g, n) /\ disk.stub[P] \in {None, g.c[P]}
    BY <1>1, <2>0 DEF ChildStubStep, RecOn
  <2>2. /\ disk'.real = disk.real /\ disk'.dirstub = disk.dirstub
        /\ \A u \in Paths \ {n} : disk'.stub[u] = disk.stub[u] /\ Seen(disk, disk', u)
        /\ g.kind # "blob" => disk'.stub[n] = g.c[n]
    BY <1>0, <2>1, ChildStubScan
  <2>3. n \in Mine => disk.real[n] = None
    BY <1>2, <2>1 DEF MovedC
  <2>4. ASSUME n \in Mine
        PROVE  \/ Scanned(disk')[n] = Files(g)[n]
               \/ disk'.dirstub # None /\ DirStub \in cmd'.todo
    <3>1. disk'.real[n] = None
      BY <2>2, <2>3, <2>4
    <3>2. \/ Scanned(disk')[n] = Files(g)[n]
          \/ disk'.dirstub # None /\ DirStub \in cmd'.todo
          \/ disk'.stub[n] # None /\ n \in cmd'.todo
          \/ disk'.stub[n] = None /\ disk'.dirstub = None /\ g.kind = "tree" /\ g.c[n] # None
      BY <1>0, <1>1, <3>1, Reconciled
    <3> QED  BY <2>1, <2>2, <3>2
  <2>5. ASSUME NEW t \in Mine \ {n}
        PROVE  \/ Scanned(disk')[t] = Files(g)[t]
               \/ disk'.dirstub # None /\ DirStub \in cmd'.todo
               \/ t # P /\ disk'.stub[t] # None /\ t \in cmd'.todo
    <3>1. t \in Paths \ {n}
      BY <1>k
    <3>2. \/ Scanned(disk)[t] = Files(g)[t]
          \/ disk.dirstub # None /\ DirStub \in cmd.todo
          \/ t # P /\ disk.stub[t] # None /\ t \in cmd.todo
      BY <1>2, <2>1 DEF MovedC, At, PendR
    <3> QED  BY <1>p, <2>1, <2>2, <3>1, <3>2 DEF Seen
  <2>6. MovedC'
    BY <1>5, <2>4, <2>5
  <2>7. Apart'
    <3>1. ASSUME NEW t \in Mine, IsFile(disk', t)
          PROVE  disk'.stub[t] = None /\ (t \in Names => disk'.dirstub = None /\ disk'.stub[P] = None)
      <4>1. IsFile(disk, t)
        BY <1>1, <1>i, <1>j, <1>k, <1>p, <2>2, <3>1
      <4>2. disk.stub[t] = None /\ (t \in Names => disk.dirstub = None /\ disk.stub[P] = None)
        BY <1>2, <4>1 DEF Apart
      <4>3. t # n
        BY <1>i, <2>3, <3>1, <4>1
      <4> QED  BY <1>k, <1>p, <2>2, <4>2, <4>3
    <3> QED  BY <1>4, <3>1 DEF Apart
  <2> QED  BY <2>6, <2>7
<1> QED  BY <1>0, <1>7, <1>8, <1>9

\* Every step of the stub reconciliation maps to LogicalTree and keeps the invariant.
LEMMA ReconcileGood ==
    ASSUME Quietly, Reconcile
    PROVE  Good
<1> DEFINE g == cmd.goal
           b == cmd.from
<1>0. /\ IInv /\ RecInv /\ FromInv /\ Reconciling /\ disk \in Disks /\ g \in Entries /\ b \in Entries
      /\ torn \in BOOLEAN /\ cmd.name \in {"pull", "push"} /\ lost' = lost /\ base = b
  BY ReconcileCases DEF Quietly, Reconciling, IInv, TypeOK, Calm, base
<1>1. CASE Stops /\ disk' = disk
  BY <1>1, StopGood
<1>2. CASE Stops /\ disk' = DropStub(disk, P) /\ Exists(disk, P)
  <2>1. Abort(disk') /\ LeavesTorn
    BY <1>0, <1>2 DEF Stops, LeavesTorn, Reconciling
  <2>2. /\ disk' \in Disks /\ \A u \in Paths \ {P} : Seen(disk, disk', u)
        /\ Scanned(disk')[P] = IF Exists(disk, P) THEN Scanned(disk)[P] ELSE Behind(disk, P)
    BY <1>0, <1>2, DropStubScan, Constants
  <2>3. \A t \in Paths : Scanned(disk')[t] = Scanned(disk)[t]
    BY <1>2, <2>2 DEF Seen
  <2>4. LSTEP
    BY <1>0, <1>2, <2>1, <2>2, <2>3, MapAbandon DEF Stops
  <2>5. ~Calm'
    BY <2>1 DEF Abort, Calm
  <2> QED  BY <2>4, <2>5 DEF Good
<1>3. CASE Moves /\ (FileStubStep \/ DirStubStep \/ \E n \in Names : ChildStubStep(n))
  <2>1. BlobOn(disk, g)
    BY <1>0 DEF Quietly, BlobInv, BlobOn
  <2>2. /\ RecOn(disk, cmd.todo, g)
        /\ P \notin cmd'.todo /\ cmd'.todo \subseteq cmd.todo
        /\ \A t \in Paths : disk'.stub[t] \in {disk.stub[t], None, g.c[t]}
        /\ disk'.dirstub \in {disk.dirstub, None} \/
                (disk'.dirstub = Children(g) /\ g.kind = "tree")
        /\ DirStub \in cmd'.todo /\ disk'.dirstub = None => disk.dirstub = None
    BY <1>0, <1>3, ReconcileOn
  <2>3. Between(disk, b, g) /\ RecC /\ RestC /\ PushC /\ PullC
    BY <1>0 DEF Quietly, CalmC, PushC, PullC, Reconciling
  <2>4. DirStub \in cmd.todo /\ disk.dirstub = None => Paths \subseteq dirty
    BY <1>0, <2>3 DEF RecC
  <2>5. Brings(disk, disk', b, g)
    <3>1. CASE FileStubStep
      <4>1. FileStubTo(disk, disk', g) /\ disk.stub[P] # None
        BY <2>2, <3>1 DEF FileStubStep, RecOn
      <4>2. g.kind = "link" => disk.kind # "file"
        BY <3>1 DEF FileStubStep, Quietly
      <4> QED  BY <1>0, <2>3, <4>1, <4>2, FileStubBrings
    <3>2. CASE DirStubStep
      <4>1. /\ DirStubTo(disk, disk', g) /\ disk.stub[P] \in {None, g.c[P]}
            /\ disk.dirstub = None => Paths \subseteq dirty
        BY <2>2, <2>4, <3>2 DEF DirStubStep, RecOn
      <4>2. g.kind \in {"blob", "link"} => \A n \in Names : disk.real[n] = None
        BY <3>2 DEF DirStubStep, Quietly
      <4> QED  BY <1>0, <2>1, <2>3, <4>1, <4>2, DirStubBrings
    <3>3. ASSUME NEW n \in Names, ChildStubStep(n) PROVE Brings(disk, disk', b, g)
      <4>1. ChildStubTo(disk, disk', g, n) /\ disk.stub[P] \in {None, g.c[P]}
        BY <2>2, <3>3 DEF ChildStubStep, RecOn
      <4> QED  BY <1>0, <2>3, <4>1, ChildStubBrings
    <3> QED  BY <1>3, <3>1, <3>2, <3>3
  <2>6. CASE cmd.name = "push"
    <3>1. /\ \A t \in Paths \ dirty : Files(g)[t] = Files(b)[t]
          /\ \A t \in Paths \ dirty : Scanned(disk)[t] = Files(b)[t]
      BY <1>0, <2>3, <2>6 DEF PushC, InStep
    <3>2. \A t \in Paths : \/ Seen(disk, disk', t)
                           \/ /\ t \in dirty /\ Scanned(disk)[t] \in {None, Files(b)[t]}
                              /\ Scanned(disk')[t] = Files(g)[t]
      BY <2>5, <3>1 DEF Brings, Seen
    <3>3. LSTEP
      <4>1. goal = Files(g)
        BY <2>6 DEF goal
      <4> QED  BY <1>0, <1>3, <3>2, <4>1, MapReappear DEF Seen
    <3>4. \A t \in Paths \ dirty : Scanned(disk')[t] = Files(b)[t]
      BY <3>1, <3>2 DEF Seen
    <3>5. Between(disk', b, g)
      BY <2>2, <2>3 DEF Between
    <3>6. /\ cmd'.name = "push" /\ cmd'.pc = "reconcile" /\ cmd'.goal = g /\ cmd'.from = b
          /\ dirty' = dirty /\ cmd'.touched = cmd.touched /\ cr' = cr /\ repo' = repo
          /\ Reconciling'
      BY <1>0, <1>3, <2>6 DEF Moves, Reconciling
    <3>7. PushC'
      BY <3>1, <3>4, <3>5, <3>6 DEF PushC, InStep
    <3>8. RecC'
      BY <2>2, <2>3, <2>4, <3>6, <1>0 DEF RecC
    <3>9. RestC'
      BY <2>3, <3>6, <1>0 DEF RestC, Resting, IInv, PlaceInv
    <3>10. StubC' /\ ExpandC' /\ CloneC' /\ PullC'
      BY <3>6 DEF StubC, ExpandC, CloneC, PullC
    <3> QED  BY <3>3, <3>7, <3>8, <3>9, <3>10 DEF Good, CalmC
  <2>7. CASE cmd.name = "pull"
    <3>3. LSTEP
      <4>1. goal = Files(g)
        BY <2>7 DEF goal
      <4>2. CASE \A t \in Paths : \/ Seen(disk, disk', t)
                                  \/ /\ t \notin dirty \/ Scanned(disk)[t] = Files(b)[t]
                                     /\ Scanned(disk')[t] = Files(g)[t]
        BY <1>0, <1>3, <2>7, <4>2, MapAdopt DEF Seen
      <4>3. CASE \A t \in Paths : \/ Seen(disk, disk', t)
                                  \/ /\ t \in dirty /\ Scanned(disk)[t] \in {None, Files(b)[t]}
                                     /\ Scanned(disk')[t] = Files(g)[t]
        BY <1>0, <1>3, <4>1, <4>3, MapReappear DEF Seen
      <4> QED  BY <2>5, <4>2, <4>3 DEF Brings
    <3>5. Between(disk', b, g)
      BY <2>2, <2>3 DEF Between
    <3>6. /\ cmd'.name = "pull" /\ cmd'.pc = "reconcile" /\ cmd'.goal = g /\ cmd'.from = b
          /\ dirty' = dirty /\ cmd'.touched = cmd.touched /\ cr' = cr /\ repo' = repo
          /\ cmd'.seen = cmd.seen /\ cmd'.plan = cmd.plan /\ Reconciling'
      BY <1>0, <1>3, <2>7 DEF Moves, Reconciling
    <3>7. MovedC' /\ Apart'
      BY <1>3, <2>7, ReconcileMine
    <3>8. LinkC'
      BY <2>3, <2>7, <3>6 DEF PullC, LinkC
    <3>9. PullC'
      BY <2>3, <2>7, <3>5, <3>6, <3>7, <3>8 DEF PullC
    <3>10. RecC'
      BY <2>2, <2>3, <2>4, <3>6, <1>0 DEF RecC
    <3>11. RestC'
      BY <2>3, <3>6, <1>0 DEF RestC, Resting, IInv, PlaceInv
    <3>12. StubC' /\ ExpandC' /\ CloneC' /\ PushC'
      BY <3>6 DEF StubC, ExpandC, CloneC, PushC
    <3> QED  BY <3>3, <3>9, <3>10, <3>11, <3>12 DEF Good, CalmC
  <2> QED  BY <1>0, <2>6, <2>7
<1> QED  BY <1>0, <1>1, <1>2, <1>3, ReconcileCases

----------------------------------------------------------------------------
(* Pull.                                                                   *)

\* What each kind of change says of the two roots.
PlanFacts(b, g, p) ==
    /\ \A x \in Paths : p[x] \in {"same", "added", "modified", "deleted", "link", "emptydir", "tree"}
    /\ \A n \in Names : p[n] \in {"same", "added", "modified", "deleted"}
    /\ \A x \in Paths : p[x] \in {"added", "modified"} =>
          g.c[x] # None /\ (x = P => g.kind = "blob") /\ (x \in Names => g.kind = "tree")
    /\ \A n \in Names : p[n] = "deleted" => g.c[n] = None /\ b.kind = "tree"
    /\ p[P] = "deleted" => g.kind \in {"absent", "tree"} /\ g.c[P] = None
    /\ p[P] = "link" => g.kind = "link" /\ b.kind # "link"
    /\ p[P] \in {"emptydir", "tree"} => g.kind = "tree" /\ b.kind # "tree"
    /\ p[P] = "emptydir" => \A n \in Names : g.c[n] = None
    /\ p[P] = "tree" => \A n \in Names : p[n] = "same"
    /\ \A x \in Paths : p[x] = "same" /\ p[P] # "tree" => Files(b)[x] = Files(g)[x]
    /\ g.kind = "blob" => p[P] = "same" \/ p[P] \in {"added", "modified"}

\* What the plan of a pull says of the two roots it was computed from.
LEMMA PlanSays ==
    ASSUME NEW b \in Entries, NEW g \in Entries, NEW p, p = Diff(b, g, TRUE)
    PROVE  PlanFacts(b, g, p)
<1>0. /\ P \in Paths /\ P \notin Names /\ \A n \in Names : n \in Paths /\ n # P
      /\ \A x \in Paths : x = P \/ x \in Names
  BY Constants
<1>e. /\ b.kind \in {"absent", "blob", "link", "tree"} /\ g.kind \in {"absent", "blob", "link", "tree"}
      /\ (b.c[P] # None) <=> (b.kind = "blob")
      /\ (g.c[P] # None) <=> (g.kind = "blob")
      /\ b.kind # "tree" => \A n \in Names : b.c[n] = None
      /\ g.kind # "tree" => \A n \in Names : g.c[n] = None
  BY EntryParts
<1>f. /\ Files(b)[P] = IF b.kind = "link" THEN "link" ELSE b.c[P]
      /\ Files(g)[P] = IF g.kind = "link" THEN "link" ELSE g.c[P]
      /\ \A n \in Names : Files(b)[n] = b.c[n] /\ Files(g)[n] = g.c[n]
  BY FilesParts
<1>1. p[P] = DiffAtP(b, g, TRUE)
  BY <1>0 DEF Diff
<1>2. \A n \in Names : p[n] = IF AddedWhole(b, g, TRUE) THEN "same" ELSE DiffAtChild(b, g, n)
  BY <1>0 DEF Diff
<1>3. /\ p[P] \in {"same", "added", "modified", "deleted", "link", "emptydir", "tree"}
      /\ p[P] \in {"added", "modified"} => g.kind = "blob"
      /\ p[P] = "deleted" => g.kind \in {"absent", "tree"}
      /\ p[P] = "link" => g.kind = "link" /\ b.kind # "link"
      /\ p[P] \in {"emptydir", "tree"} => g.kind = "tree" /\ b.kind # "tree"
      /\ p[P] = "emptydir" => Children(g) = NoNames
      /\ p[P] = "tree" <=> AddedWhole(b, g, TRUE)
      /\ g.kind = "blob" => p[P] = "same" \/ p[P] \in {"added", "modified"}
  BY <1>1, <1>e DEF DiffAtP, AddedWhole
<1>4. \A n \in Names :
        /\ p[n] \in {"same", "added", "modified", "deleted"}
        /\ p[n] \in {"added", "modified"} => g.c[n] # None
        /\ p[n] = "deleted" => g.c[n] = None /\ b.c[n] # None
        /\ p[n] = "same" /\ ~AddedWhole(b, g, TRUE) => b.c[n] = g.c[n]
        /\ AddedWhole(b, g, TRUE) => p[n] = "same"
  BY <1>2 DEF DiffAtChild
<1>5. p[P] = "same" => Files(b)[P] = Files(g)[P]
  BY <1>1, <1>e, <1>f DEF DiffAtP
<1>6. p[P] = "emptydir" => \A n \in Names : g.c[n] = None
  BY <1>3, EntryParts DEF NoNames
<1>7. \A x \in Paths : p[x] \in {"added", "modified"} =>
        g.c[x] # None /\ (x = P => g.kind = "blob") /\ (x \in Names => g.kind = "tree")
  BY <1>0, <1>3, <1>4, <1>e
<1>8. \A n \in Names : p[n] = "deleted" => g.c[n] = None /\ b.kind = "tree"
  BY <1>4, <1>e
<1>9. \A x \in Paths : p[x] = "same" /\ p[P] # "tree" => Files(b)[x] = Files(g)[x]
  BY <1>0, <1>3, <1>4, <1>5, <1>f
<1>10. p[P] = "tree" => \A n \in Names : p[n] = "same"
  BY <1>3, <1>4
<1>11. p[P] = "deleted" => g.kind \in {"absent", "tree"} /\ g.c[P] = None
  BY <1>3, <1>e
<1>12. \A x \in Paths : p[x] \in {"same", "added", "modified", "deleted", "link", "emptydir", "tree"}
  BY <1>0, <1>3, <1>4
<1> QED  BY <1>3, <1>4, <1>6, <1>7, <1>8, <1>9, <1>10, <1>11, <1>12 DEF PlanFacts

\* What is known before a pull moves clone_root.
LEMMA PullKnows ==
    ASSUME Quietly, cmd.name = "pull", cmd.pc # "reconcile"
    PROVE  /\ disk \in Disks /\ cmd.from \in Entries /\ cmd.goal \in Entries /\ cmd.seen \in Disks
           /\ base = cmd.from /\ cr = cmd.from /\ goal = Files(cmd.goal) /\ lost' = lost
           /\ CmdOK(cmd) /\ repo # "none" /\ cmd.touched \subseteq dirty
           /\ cmd.plan = Diff(cmd.from, cmd.goal, TRUE)
           /\ Apart /\ LinkC /\ Follows(cmd.seen, cmd.from)
<1>1. ~Reconciling
  BY DEF Reconciling
<1>2. cr = cmd.from /\ base = cr
  BY <1>1 DEF Quietly, FromInv, base
<1> QED
  BY <1>2, CmdRecord DEF Quietly, IInv, TypeOK, PlaceInv, PullInv, Calm, CalmC, RestC, PullC, goal

\* The same of the plan of a running pull.
LEMMA PullPlan ==
    ASSUME Quietly, cmd.name = "pull", cmd.pc # "reconcile"
    PROVE  PlanFacts(cmd.from, cmd.goal, cmd.plan)
  BY PullKnows, PlanSays

\* Pull's own progress is what the invariant asks while it deletes and writes.
LEMMA PullGoes ==
    ASSUME Quietly, Moves, cmd.name = "pull", cmd'.pc \in {"deletes", "writes"}, PullC'
    PROVE  CalmC'
<1>1. repo # "none" /\ cmd.touched \subseteq dirty
  BY DEF Quietly, IInv, PlaceInv, CalmC, RestC
<1>2. cmd'.name = "pull" /\ cmd'.touched = cmd.touched /\ UNCHANGED <<cr, repo, dirty>>
  BY DEF Moves
<1>3. RestC'
  BY <1>1, <1>2 DEF RestC, Resting
<1>4. StubC' /\ ExpandC' /\ CloneC' /\ PushC' /\ RecC'
  BY <1>2 DEF StubC, ExpandC, CloneC, PushC, RecC, Reconciling
<1> QED  BY <1>3, <1>4 DEF CalmC

\* A file that has not changed since the scan is the old root's or the new
\* one's, and a symlink under it is the old root's.
LEMMA Verified ==
    ASSUME Quietly, cmd.name = "pull", cmd.pc # "reconcile", NEW x \in Paths,
           ~ChangedSinceScan(x), Exists(disk, x), x = P => disk.kind # "dir",
           cmd.plan[x] \notin {"same", "link"}
    PROVE  Scanned(disk)[x] \in {Files(cmd.from)[x], Files(cmd.goal)[x]}
<1>0. /\ disk \in Disks /\ cmd.from \in Entries /\ cmd.goal \in Entries /\ cmd.seen \in Disks
      /\ cmd.plan = Diff(cmd.from, cmd.goal, TRUE) /\ LinkC /\ cmd.touched \subseteq dirty
  BY PullKnows
<1>p. /\ P \in Paths /\ P \notin Names /\ \A t \in Paths : t = P \/ t \in Names
  BY Constants
<1>1. Exists(cmd.seen, x) /\ x \notin cmd.removed
  BY DEF ChangedSinceScan
<1>2. CASE IsFile(cmd.seen, x)
  <2>1. IsFile(disk, x) /\ x \notin cmd.touched
    BY <1>1, <1>2 DEF ChangedSinceScan
  <2>2. disk.real[x] \in {cmd.seen.real[x], cmd.goal.c[x]}
    BY <1>2, <2>1 DEF Quietly, IInv, PullInv
  <2>3. cmd.seen.real[x] \in {cmd.from.c[x], cmd.goal.c[x]}
    BY <1>2 DEF Quietly, IInv, PullInv
  <2>4. disk.real[x] # None /\ Scanned(disk)[x] = disk.real[x]
    BY <1>0, <2>1, ReadsAt
  <2> QED  BY <1>0, <2>2, <2>3, <2>4, FilesParts
<1>3. CASE ~IsFile(cmd.seen, x)
  <2>1. ~IsFile(disk, x)
    BY <1>1, <1>3 DEF ChangedSinceScan
  <2>2. x = P /\ disk.kind = "link"
    BY <1>0, <1>p, <2>1, DiskParts DEF IsFile, Exists
  <2>3. Scanned(disk)[P] = "link"
    BY <1>0, <2>2, ReadsAt, <1>p
  <2>4. cmd.seen.kind = "link" \/ cmd.goal.kind = "link"
    BY <1>0, <2>2 DEF LinkC
  <2>5. cmd.from.kind = "link" \/ cmd.goal.kind = "link"
    BY <1>0, <2>2, <2>4 DEF LinkC
  <2> QED  BY <1>0, <2>2, <2>3, <2>5, FilesParts
<1> QED  BY <1>2, <1>3

\* A pull that has only checked.
LEMMA PullVerifyGood ==
    ASSUME Quietly, PullVerify
    PROVE  Good
<1>0. cmd.name = "pull" /\ cmd.pc = "verify" /\ disk' = disk /\ Quiet
  BY DEF PullVerify, Running
<1>1. /\ disk \in Disks /\ cr = cmd.from /\ lost' = lost /\ CmdOK(cmd) /\ IInv /\ torn \in BOOLEAN
      /\ Apart /\ LinkC /\ Follows(cmd.seen, cmd.from)
  BY <1>0, PullKnows DEF Quietly, IInv, TypeOK
<1>2. CASE StopCmd
  <2>1. Stops
    BY <1>0, <1>1, <1>2, StopShape DEF LeavesTorn
  <2> QED  BY <1>0, <2>1, StopGood
<1>3. CASE cmd' = [cmd EXCEPT !.pc = "deletes", !.todo = Planned({"deleted"})]
  <2>1. /\ cmd'.pc = "deletes" /\ cmd'.todo = Planned({"deleted"}) /\ cmd'.removed = cmd.removed
        /\ cmd'.name = "pull"
    BY <1>0, <1>1, <1>3 DEF CmdOK
  <2>2. Moves
    BY <1>1, <2>1, PullShape DEF PullMiddle, Stops, Abort, StopCmd, Idle
  <2>3. /\ cmd'.seen = cmd.seen /\ cmd'.plan = cmd.plan /\ cmd'.from = cmd.from /\ cmd'.goal = cmd.goal
        /\ dirty' = dirty /\ Mine' = Mine
    BY <2>2, MovesView DEF Moves, Mine
  <2>4. LSTEP
    BY <1>0, <1>1, <2>2, MapStutter
  <2>5. Follows(disk, cr) /\ InStep(cr) /\ cmd.removed = {}
    BY <1>0 DEF Quietly, CalmC, RestC, Resting, PullC
  <2>6. \A t \in Mine : Scanned(disk)[t] = Files(cmd.from)[t]
    BY <1>1, <2>5 DEF Mine, InStep
  <2>7. \A t \in Mine : ~Deleted(t)'
    BY <2>1, <2>3 DEF Deleted, Planned, Mine
  <2>8. DeletesC'
    BY <1>0, <2>1, <2>3, <2>5, <2>6, <2>7 DEF DeletesC, At
  <2>9. LinkC' /\ Apart'
    BY <1>0, <1>1, <2>1, <2>3 DEF LinkC, Apart
  <2>10. PullC'
    BY <1>0, <1>1, <2>1, <2>3, <2>5, <2>8, <2>9 DEF PullC
  <2> QED  BY <1>0, <2>1, <2>2, <2>4, <2>10, PullGoes DEF Good
<1> QED  BY <1>2, <1>3 DEF PullVerify

\* A step of the delete pass, from what it does to the path it is on.
LEMMA DeletesGoOn ==
    ASSUME Quietly, Moves, cmd.name = "pull", cmd.pc = "deletes", cmd'.pc = "deletes", LSTEP,
           NEW x \in Paths, cmd.plan[x] = "deleted", cmd'.todo = cmd.todo \ {x},
           cmd'.removed \in {cmd.removed, cmd.removed \cup {x}},
           Follows(disk', cmd.from), Apart', LinkC',
           \A t \in Paths \ {x} : Seen(disk, disk', t) /\ (Pend(t) => Pend(t)'),
           x \in Mine => /\ At(cmd.from, x)' \/ At(cmd.goal, x)'
                         /\ At(cmd.goal, x)' \/ Pend(x)'
    PROVE  Good
<1>1. /\ cmd'.name = "pull" /\ cmd'.seen = cmd.seen /\ cmd'.plan = cmd.plan
      /\ cmd'.from = cmd.from /\ cmd'.goal = cmd.goal /\ dirty' = dirty /\ Mine' = Mine
  BY MovesView DEF Moves, Mine
<1>2. Follows(cmd.seen, cmd.from) /\ DeletesC
  BY DEF Quietly, CalmC, PullC
<1>3. ASSUME NEW t \in Mine, t # x
      PROVE  /\ At(cmd.from, t)' \/ (Deleted(t)' /\ At(cmd.goal, t)')
             /\ Deleted(t)' => At(cmd.goal, t)' \/ Pend(t)'
  <2>1. Deleted(t)' <=> Deleted(t)
    BY <1>1, <1>3 DEF Deleted
  <2>2. Seen(disk, disk', t) /\ (Pend(t) => Pend(t)')
    BY <1>3 DEF Mine
  <2>3. (At(cmd.from, t) => At(cmd.from, t)') /\ (At(cmd.goal, t) => At(cmd.goal, t)')
    BY <1>1, <2>2 DEF At, Seen
  <2>4. /\ At(cmd.from, t) \/ (Deleted(t) /\ At(cmd.goal, t))
        /\ Deleted(t) => At(cmd.goal, t) \/ Pend(t)
    BY <1>2 DEF DeletesC
  <2> QED  BY <2>1, <2>2, <2>3, <2>4
<1>4. x \in Mine => Deleted(x)'
  BY <1>1 DEF Deleted
<1>5. cmd'.removed \subseteq {t \in Paths : cmd'.plan[t] \in {"deleted"}}
  BY <1>1, <1>2 DEF DeletesC, Planned
<1>6. DeletesC'
  BY <1>1, <1>3, <1>4, <1>5 DEF DeletesC, Planned
<1>7. PullC'
  BY <1>1, <1>2, <1>6 DEF PullC
<1> QED  BY <1>7, PullGoes DEF Good

\* Every planned deletion of a pull maps to LogicalTree and keeps the invariant.
LEMMA PullDeleteGood ==
    ASSUME Quietly, NEW x \in Paths, PullDelete(x)
    PROVE  Good
<1> DEFINE g == cmd.goal
           b == cmd.from
<1>0. cmd.name = "pull" /\ cmd.pc = "deletes" /\ x \in cmd.todo
  BY DEF PullDelete, Running
<1>k. /\ disk \in Disks /\ b \in Entries /\ g \in Entries /\ base = b /\ lost' = lost /\ CmdOK(cmd)
      /\ cmd.plan = Diff(b, g, TRUE) /\ Apart /\ LinkC
  BY <1>0, PullKnows
<1>d. cmd.plan[x] = "deleted" /\ DeletesC /\ Follows(disk, b) /\ IInv
  BY <1>0 DEF Quietly, IInv, PullInv, Planned, CalmC, PullC
<1>p. /\ P \in Paths /\ P \notin Names /\ \A n \in Names : n \in Paths /\ n # P
      /\ \A t \in Paths : t = P \/ t \in Names
  BY Constants
<1>g. Files(g)[x] = None /\ (x = P => g.kind \in {"absent", "tree"})
  <2>0. /\ \A n \in Names : cmd.plan[n] = "deleted" => g.c[n] = None
        /\ cmd.plan[P] = "deleted" => g.kind \in {"absent", "tree"} /\ g.c[P] = None
    BY <1>0, PullPlan DEF PlanFacts
  <2>1. x \in Names => g.c[x] = None
    BY <1>d, <2>0
  <2>2. x = P => g.kind \in {"absent", "tree"} /\ g.c[P] = None
    BY <1>d, <2>0
  <2> QED  BY <1>k, <1>p, <2>1, <2>2, FilesParts
<1>f. x \in Mine => At(b, x)
  BY <1>0, <1>d DEF DeletesC, Deleted
<1>1. CASE Fail
  <2>1. Stops /\ disk' = disk
    BY <1>0, <1>1 DEF Fail, Abort, Stops
  <2> QED  BY <2>1, StopGood
<1>2. CASE disk.stub[x] # None /\ cmd' = [cmd EXCEPT !.todo = @ \ {x}] /\ disk' = disk /\ Quiet
  <2>1. cmd'.pc = "deletes" /\ cmd'.todo = cmd.todo \ {x} /\ cmd'.removed = cmd.removed
        /\ cmd'.name = "pull"
    BY <1>0, <1>k, <1>2 DEF CmdOK
  <2>2. Moves
    BY <1>d, <2>1, PullShape DEF PullMiddle, Stops, Abort, StopCmd, Idle
  <2>3. /\ cmd'.seen = cmd.seen /\ cmd'.plan = cmd.plan /\ cmd'.from = cmd.from /\ cmd'.goal = cmd.goal
        /\ dirty' = dirty /\ Mine' = Mine
    BY <2>2, MovesView DEF Moves, Mine
  <2>4. LSTEP
    BY <1>2, <1>k, <2>2, MapStutter
  <2>5. LinkC' /\ Apart'
    BY <1>0, <1>2, <1>k, <2>1, <2>3 DEF LinkC, Apart
  <2>6. \A t \in Paths \ {x} : Seen(disk, disk', t) /\ (Pend(t) => Pend(t)')
    BY <1>2 DEF Seen, Pend
  <2>7. ASSUME x \in Mine PROVE At(b, x) /\ (At(g, x) \/ Pend(x))
    <3>1. CASE x \in Names
      BY <1>2, <1>f, <1>p, <2>7, <3>1 DEF Pend
    <3>2. CASE x = P /\ disk.kind = "absent"
      BY <1>2, <1>f, <2>7, <3>2 DEF Pend
    <3>3. CASE x = P /\ disk.kind = "file"
      <4>1. IsFile(disk, x)
        BY <3>3 DEF IsFile
      <4> QED  BY <1>2, <1>k, <2>7, <4>1 DEF Apart
    <3>4. CASE x = P /\ disk.kind = "dir"
      BY <1>f, <1>g, <1>k, <2>7, <3>4, ReadsAt DEF At
    <3>5. CASE x = P /\ disk.kind = "link"
      <4>1. b.kind = "link"
        BY <1>0, <1>d, <1>g, <1>k, <3>5 DEF LinkC
      <4>2. b.c[P] = None
        BY <1>k, <4>1, EntryParts
      <4> QED  BY <1>2, <1>d, <3>5, <4>2 DEF Follows
    <3> QED  BY <1>k, <1>p, <3>1, <3>2, <3>3, <3>4, <3>5, DiskParts
  <2>8. x \in Mine => /\ At(cmd.from, x)' \/ At(cmd.goal, x)'
                      /\ At(cmd.goal, x)' \/ Pend(x)'
    BY <1>2, <2>3, <2>7 DEF At, Pend
  <2>9. Follows(disk', b)
    BY <1>2, <1>d
  <2> QED  BY <1>0, <1>d, <2>1, <2>2, <2>4, <2>5, <2>6, <2>8, <2>9, DeletesGoOn
<1>3. CASE /\ disk.stub[x] = None /\ ~ChangedSinceScan(x) /\ CanDropReal(disk, x)
           /\ disk' = DropStub(DropReal(disk, x), x) /\ Quiet
           /\ cmd' = [cmd EXCEPT !.todo = @ \ {x}, !.removed = @ \cup {x}]
  <2>1. cmd'.pc = "deletes" /\ cmd'.todo = cmd.todo \ {x} /\ cmd'.removed = cmd.removed \cup {x}
        /\ cmd'.name = "pull"
    BY <1>0, <1>k, <1>3 DEF CmdOK
  <2>2. Moves
    BY <1>d, <2>1, PullShape DEF PullMiddle, Stops, Abort, StopCmd, Idle
  <2>3. /\ cmd'.seen = cmd.seen /\ cmd'.plan = cmd.plan /\ cmd'.from = cmd.from /\ cmd'.goal = cmd.goal
        /\ dirty' = dirty /\ Mine' = Mine
    BY <2>2, MovesView DEF Moves, Mine
  <2>4. x = P => disk.kind # "dir"
    BY <1>3 DEF CanDropReal
  <2> DEFINE q == DropReal(disk, x)
  <2>5. /\ q \in Disks /\ q.stub = disk.stub /\ q.dirstub = disk.dirstub
        /\ q.kind = (IF x = P THEN "absent" ELSE disk.kind)
        /\ q.real[x] = None /\ \A u \in Paths \ {x} : q.real[u] = disk.real[u] /\ Seen(disk, q, u)
    BY <1>k, <2>4, DropRealScan
  <2>6. disk' = DropStub(q, x)
    BY <1>3
  <2> HIDE DEF q
  <2>7. /\ disk' \in Disks /\ disk'.real = q.real /\ disk'.dirstub = q.dirstub /\ disk'.kind = q.kind
        /\ disk'.stub[x] = None
        /\ \A u \in Paths \ {x} : disk'.stub[u] = q.stub[u] /\ Seen(q, disk', u)
        /\ Scanned(disk')[x] = IF Exists(q, x) THEN Scanned(q)[x] ELSE Behind(q, x)
    BY <2>5, <2>6, DropStubScan
  <2>8. ~Exists(q, x)
    BY <2>5 DEF Exists
  <2>9. Scanned(disk')[x] = Behind(disk, x)
    BY <2>5, <2>7, <2>8 DEF Behind
  <2>10. \A u \in Paths \ {x} : /\ disk'.stub[u] = disk.stub[u] /\ disk'.real[u] = disk.real[u]
                                /\ Seen(disk, disk', u)
    BY <2>5, <2>7 DEF Seen
  <2>11. /\ disk'.dirstub = disk.dirstub /\ disk'.real[x] = None /\ disk'.stub[x] = None
         /\ disk'.kind = (IF x = P THEN "absent" ELSE disk.kind)
         /\ \A u \in Paths : disk'.stub[u] = disk.stub[u]
    BY <1>3, <2>5, <2>7, <2>10
  <2>12. Follows(disk', b)
    BY <1>d, <2>11 DEF Follows
  <2>13. ~Exists(disk, x) => Seen(disk, disk', x)
    BY <1>3, <1>k, <2>9, ReadsAt DEF Seen
  <2>14. Exists(disk, x) => Scanned(disk)[x] = Files(b)[x]
    <3>1. ASSUME Exists(disk, x) PROVE Scanned(disk)[x] \in {Files(b)[x], Files(g)[x]}
      BY <1>0, <1>3, <1>d, <2>4, <3>1, Verified
    <3>2. Exists(disk, x) => disk.real[x] # None \/ (x = P /\ disk.kind = "link")
      BY <1>k, <1>p, <2>4, DiskParts DEF Exists
    <3>3. Exists(disk, x) /\ disk.real[x] # None => Scanned(disk)[x] # None
      BY <1>k, ReadsAt
    <3>4. ASSUME x = P, disk.kind = "link" PROVE Scanned(disk)[x] = Files(b)[x]
      <4>1. b.kind = "link"
        BY <1>0, <1>d, <1>g, <1>k, <3>4 DEF LinkC
      <4> QED  BY <1>k, <3>4, <4>1, FilesParts, ReadsAt
    <3> QED  BY <1>g, <3>1, <3>2, <3>3, <3>4
  <2>15. Behind(disk, x) \in {None, Files(b)[x]}
    <3>1. x \in Names => Files(b)[x] = Children(b)[x]
      BY <1>k, EntryParts, FilesParts
    <3> QED  BY <1>d, <1>p, <3>1 DEF Behind, Follows
  <2>16. LSTEP
    <3>1. Seen(disk, disk', x) \/ (Scanned(disk)[x] = Files(b)[x] /\ Scanned(disk')[x] = Files(g)[x])
      BY <1>g, <2>9, <2>13, <2>14, <2>15 DEF Seen
    <3>2. \A t \in Paths : \/ Scanned(disk')[t] = Scanned(disk)[t]
                           \/ /\ t \notin dirty \/ Scanned(disk)[t] = Files(base)[t]
                              /\ Scanned(disk')[t] = Files(cmd.goal)[t]
      BY <1>k, <2>10, <3>1 DEF Seen
    <3> QED  BY <1>0, <1>k, <2>2, <3>2, MapAdopt
  <2>17. Apart'
    <3>1. ASSUME NEW t \in Mine, IsFile(disk', t)
          PROVE  disk'.stub[t] = None /\ (t \in Names => disk'.dirstub = None /\ disk'.stub[P] = None)
      <4>1. t \in Paths /\ disk'.real[t] # None
        BY <2>7, <3>1, IsFileReal DEF Mine
      <4>2. t # x /\ disk.real[t] # None
        BY <2>10, <2>11, <4>1
      <4>3. IsFile(disk, t)
        BY <1>k, <4>1, <4>2, IsFileReal
      <4> QED  BY <1>k, <1>p, <2>11, <3>1, <4>1, <4>3 DEF Apart
    <3> QED  BY <2>3, <3>1 DEF Apart
  <2>18. LinkC'
    <3>1. disk'.kind = "link" => disk.kind = "link"
      BY <2>11
    <3>2. cmd.plan[P] = "link" => (Exists(disk', P) <=> Exists(disk, P))
      BY <1>d, <2>11 DEF Exists
    <3> QED  BY <1>0, <1>k, <2>1, <2>3, <3>1, <3>2 DEF LinkC
  <2>19. \A t \in Paths \ {x} : Seen(disk, disk', t) /\ (Pend(t) => Pend(t)')
    <3>1. ASSUME NEW t \in Paths \ {x}, Pend(t) PROVE Pend(t)'
      <4>1. t = P => disk'.kind = disk.kind
        BY <2>11, <3>1
      <4> QED  BY <1>p, <2>11, <3>1, <4>1 DEF Pend
    <3> QED  BY <2>10, <3>1
  <2>20. x \in Mine => /\ At(cmd.from, x)' \/ At(cmd.goal, x)'
                       /\ At(cmd.goal, x)' \/ Pend(x)'
    <3>1. CASE Behind(disk, x) = None
      BY <1>g, <2>3, <2>9, <3>1 DEF At
    <3>2. CASE Behind(disk, x) # None
      <4>1. x \in Names /\ disk.dirstub # None
        BY <1>p, <3>2 DEF Behind
      <4>2. Pend(x)'
        BY <2>11, <4>1 DEF Pend
      <4>3. ASSUME x \in Mine PROVE At(cmd.from, x)'
        <5>1. ~IsFile(disk, x)
          BY <1>k, <4>1, <4>3 DEF Apart
        <5>2. ~Exists(disk, x)
          BY <1>k, <4>1, <5>1, ReadsAt
        <5> QED  BY <1>f, <2>3, <2>13, <4>3, <5>2 DEF At, Seen
      <4> QED  BY <4>2, <4>3
    <3> QED  BY <3>1, <3>2
  <2> QED  BY <1>0, <1>d, <2>1, <2>2, <2>12, <2>16, <2>17, <2>18, <2>19, <2>20, DeletesGoOn
<1> QED  BY <1>0, <1>1, <1>2, <1>3 DEF PullDelete

\* The delete pass ends; what it may remove is an empty directory.
LEMMA PullPruneGood ==
    ASSUME Quietly, PullPrune
    PROVE  Good
<1> DEFINE g == cmd.goal
           b == cmd.from
           prune == cmd.removed \cap Names # {} /\ EmptyDir(disk)
<1>0. cmd.name = "pull" /\ cmd.pc = "deletes" /\ cmd.todo = {}
  BY DEF PullPrune, Running
<1>k. /\ disk \in Disks /\ b \in Entries /\ g \in Entries /\ base = b /\ lost' = lost /\ CmdOK(cmd)
      /\ Apart /\ LinkC /\ Follows(cmd.seen, b)
  BY <1>0, PullKnows
<1>d. DeletesC /\ Follows(disk, b) /\ IInv
  BY <1>0 DEF Quietly, CalmC, PullC
<1>p. /\ P \in Paths /\ P \notin Names /\ \A n \in Names : n \in Paths /\ n # P
      /\ \A t \in Paths : t = P \/ t \in Names
  BY Constants
<1>s. PlanFacts(b, g, cmd.plan)
  BY <1>0, PullPlan
<1>1. /\ disk' = IF prune THEN DropDir(disk) ELSE disk
      /\ cmd' = [cmd EXCEPT !.pc = "writes",
                            !.todo = Planned({"added", "modified", "emptydir", "link", "tree"}),
                            !.removed = IF prune THEN @ \cup {P} ELSE @]
      /\ Quiet
  BY DEF PullPrune
<1>2. /\ cmd'.pc = "writes" /\ cmd'.name = "pull"
      /\ cmd'.todo = Planned({"added", "modified", "emptydir", "link", "tree"})
      /\ cmd'.removed = IF prune THEN cmd.removed \cup {P} ELSE cmd.removed
  BY <1>0, <1>1, <1>k DEF CmdOK
<1>3. Moves
  BY <1>d, <1>2, PullShape DEF PullMiddle, Stops, Abort, StopCmd, Idle
<1>4. /\ cmd'.seen = cmd.seen /\ cmd'.plan = cmd.plan /\ cmd'.from = b /\ cmd'.goal = g
      /\ dirty' = dirty /\ Mine' = Mine
  BY <1>3, MovesView DEF Moves, Mine
<1>5. prune => disk.stub[P] = None
  <2>1. ASSUME prune PROVE b.kind = "tree"
    BY <1>d, <1>s, <2>1 DEF DeletesC, Planned, PlanFacts
  <2> QED  BY <1>d, <1>k, <1>p, <2>1, EntryParts DEF Follows
<1>6. /\ disk' \in Disks /\ \A t \in Paths : disk'.real[t] = disk.real[t] /\ disk'.stub[t] = disk.stub[t]
      /\ disk'.dirstub = disk.dirstub /\ \A t \in Paths : Seen(disk, disk', t)
      /\ disk'.kind = IF prune THEN "absent" ELSE disk.kind
  <2>1. CASE prune
    <3>1. disk' = PruneDir(disk) /\ EmptyDir(disk)
      BY <1>1, <2>1 DEF PruneDir
    <3>2. /\ disk' \in Disks
          /\ \A t \in Paths : disk'.real[t] = disk.real[t] /\ disk'.stub[t] = disk.stub[t]
          /\ disk'.dirstub = disk.dirstub /\ \A n \in Names : Seen(disk, disk', n)
      BY <1>k, <3>1, PruneDirScan
    <3>3. disk' = DropDir(disk)
      BY <1>1, <2>1
    <3>4. disk'.kind = "absent" /\ Scanned(disk')[P] = disk.stub[P]
      BY <1>k, <3>3, DropDirScan
    <3>5. Scanned(disk)[P] = None
      BY <1>k, <1>p, <3>1, ReadsAt DEF EmptyDir
    <3> QED  BY <1>5, <1>p, <2>1, <3>2, <3>4, <3>5 DEF Seen
  <2>2. CASE ~prune
    <3>1. disk' = disk
      BY <1>1, <2>2
    <3> QED  BY <1>k, <2>2, <3>1 DEF Seen
  <2> QED  BY <2>1, <2>2
<1>7. prune => disk.kind = "dir"
  BY DEF EmptyDir
<1> HIDE DEF prune
<1>8. LSTEP
  <2>1. \A t \in Paths : \/ Scanned(disk')[t] = Scanned(disk)[t]
                         \/ /\ t \notin dirty \/ Scanned(disk)[t] = Files(base)[t]
                            /\ Scanned(disk')[t] = Files(cmd.goal)[t]
    BY <1>6 DEF Seen
  <2> QED  BY <1>0, <1>3, <1>k, <2>1, MapAdopt
<1>9. Between(disk', b, g)
  BY <1>d, <1>6 DEF Follows, Between
<1>10. WritesC'
  <2>0. /\ \A t \in Paths : Scanned(disk')[t] = Scanned(disk)[t]
        /\ \A t \in Paths : Deleted(t) <=> cmd.plan[t] = "deleted"
    BY <1>0, <1>6 DEF Seen, Deleted
  <2>1. ASSUME cmd.plan[P] = "tree", NEW n \in Names \cap Mine PROVE Scanned(disk')[n] = None
    <3>1. cmd.plan[n] = "same" /\ b.kind # "tree"
      BY <1>s, <2>1 DEF PlanFacts
    <3>2. Files(b)[n] = None
      BY <1>k, <3>1, EntryParts, FilesParts
    <3>3. At(b, n)
      BY <1>d, <1>p, <2>0, <2>1, <3>1 DEF DeletesC
    <3> QED  BY <1>p, <2>0, <3>2, <3>3 DEF At
  <2>2. ASSUME NEW t \in Mine, cmd.plan[t] = "same", cmd.plan[P] # "tree" PROVE At(g, t)'
    <3>1. t \in Paths
      BY DEF Mine
    <3>2. At(b, t) /\ Files(b)[t] = Files(g)[t]
      BY <1>d, <1>s, <2>0, <2>2, <3>1 DEF DeletesC, PlanFacts
    <3> QED  BY <1>4, <2>0, <3>1, <3>2 DEF At
  <2>3. ASSUME NEW t \in Mine, cmd.plan[t] = "deleted" PROVE At(g, t)' \/ Pend(t)'
    <3>1. t \in Paths
      BY DEF Mine
    <3>2. At(g, t) \/ Pend(t)
      BY <1>d, <2>0, <2>3, <3>1 DEF DeletesC
    <3>3. Pend(t) => Pend(t)'
      BY <1>6, <1>7, <1>p, <3>1 DEF Pend
    <3> QED  BY <1>4, <2>0, <3>1, <3>2, <3>3 DEF At
  <2>4. cmd.plan[P] = "tree" => AddsTree'
    BY <1>2, <1>4, <1>p DEF AddsTree, Planned
  <2>5. ASSUME NEW t \in Mine, cmd.plan[t] \notin {"same", "deleted"} PROVE t \in cmd'.todo
    BY <1>2, <1>s, <2>5 DEF Mine, Planned, PlanFacts
  <2>6. \A t \in Mine : At(g, t)' \/ Pend(t)' \/ t \in cmd'.todo \/ AddsTree'
    BY <2>2, <2>3, <2>4, <2>5
  <2>7. AddsTree' => cmd.plan[P] = "tree"
    BY <1>4 DEF AddsTree
  <2> QED  BY <1>2, <1>4, <2>1, <2>6, <2>7 DEF WritesC, Planned
<1>11. Apart'
  <2>1. ASSUME NEW t \in Mine, IsFile(disk', t)
        PROVE  disk'.stub[t] = None /\ (t \in Names => disk'.dirstub = None /\ disk'.stub[P] = None)
    <3>1. t \in Paths
      BY DEF Mine
    <3>2. IsFile(disk, t)
      BY <1>6, <1>k, <2>1, <3>1, IsFileReal
    <3> QED  BY <1>6, <1>k, <1>p, <2>1, <3>1, <3>2 DEF Apart
  <2> QED  BY <1>4, <2>1 DEF Apart
<1>12. LinkC'
  <2>1. disk'.kind = "link" => disk.kind = "link"
    BY <1>6
  <2>2. Exists(disk, P) /\ ~Exists(disk', P) => P \in cmd'.removed
    BY <1>2, <1>6 DEF Exists
  <2>3. cmd.removed \subseteq cmd'.removed
    BY <1>2
  <2> QED  BY <1>0, <1>2, <1>4, <1>k, <2>1, <2>2, <2>3 DEF LinkC
<1>13. PullC'
  BY <1>2, <1>4, <1>9, <1>10, <1>11, <1>12, <1>k DEF PullC
<1> QED  BY <1>0, <1>2, <1>3, <1>8, <1>13, PullGoes DEF Good

\* A file that has not changed since the scan is the old root's or the new one's.
LEMMA VerifiedFile ==
    ASSUME Quietly, cmd.name = "pull", cmd.pc # "reconcile", NEW x \in Paths,
           ~ChangedSinceScan(x), IsFile(disk, x), cmd.plan[x] # "same"
    PROVE  Scanned(disk)[x] \in {Files(cmd.from)[x], Files(cmd.goal)[x]}
<1>0. /\ disk \in Disks /\ cmd.from \in Entries /\ cmd.goal \in Entries /\ cmd.touched \subseteq dirty
  BY PullKnows
<1>1. disk.real[x] # None /\ Exists(disk, x) /\ Scanned(disk)[x] = disk.real[x]
  BY <1>0, ReadsAt
<1>2. IsFile(cmd.seen, x) /\ x \notin cmd.touched
  BY <1>1 DEF ChangedSinceScan
<1>3. disk.real[x] \in {cmd.seen.real[x], cmd.goal.c[x]}
  BY <1>2 DEF Quietly, IInv, PullInv
<1>4. cmd.seen.real[x] \in {cmd.from.c[x], cmd.goal.c[x]}
  BY <1>2 DEF Quietly, IInv, PullInv
<1> QED  BY <1>0, <1>1, <1>3, <1>4, FilesParts

\* A step of the write pass on one path, from what it leaves there.
LEMMA WritesOne ==
    ASSUME Quietly, Moves, cmd.name = "pull", cmd.pc = "writes", cmd'.pc = "writes",
           NEW x \in Paths, x \in cmd.todo, cmd.plan[x] # "tree", cmd'.todo = cmd.todo \ {x},
           cmd'.removed = cmd.removed, ~LeftToReconcile(x),
           disk'.dirstub = None,
           \A u \in Paths \ {x} : /\ disk'.stub[u] = disk.stub[u] /\ disk'.real[u] = disk.real[u]
                                  /\ Seen(disk, disk', u),
           Scanned(disk')[x] = Files(cmd.goal)[x],
           Scanned(disk)[x] \in {None, Files(cmd.from)[x], Files(cmd.goal)[x]},
           disk'.stub[x] \in {None, cmd.from.c[x], cmd.goal.c[x]},
           IsFile(disk', x) => disk'.stub[x] = None,
           disk'.kind = "link" => cmd.goal.kind = "link",
           x = P => \/ disk'.stub[P] = disk.stub[P]
                    \/ \A n \in Names : disk'.real[n] = None /\ Scanned(disk')[n] = Files(cmd.goal)[n]
    PROVE  Good
<1> DEFINE g == cmd.goal
           b == cmd.from
<1>k. /\ disk \in Disks /\ disk' \in Disks /\ b \in Entries /\ g \in Entries /\ base = b
      /\ goal = Files(g) /\ lost' = lost /\ Apart /\ LinkC /\ Follows(cmd.seen, b)
  BY PullKnows DEF Moves
<1>d. Between(disk, b, g) /\ WritesC
  BY DEF Quietly, CalmC, PullC
<1>p. /\ P \in Paths /\ P \notin Names /\ \A n \in Names : n \in Paths /\ n # P
      /\ \A t \in Paths : t = P \/ t \in Names
  BY Constants
<1>s. PlanFacts(b, g, cmd.plan)
  BY PullPlan
<1>1. /\ cmd'.name = "pull" /\ cmd'.seen = cmd.seen /\ cmd'.plan = cmd.plan
      /\ cmd'.from = b /\ cmd'.goal = g /\ dirty' = dirty /\ Mine' = Mine
  BY MovesView DEF Moves, Mine
<1>2. /\ disk.dirstub = None
      /\ x \in Names => disk.stub[P] = None
      /\ x \in Names => g.kind = "tree"
  BY <1>d, <1>s DEF LeftToReconcile, WritesC, Planned, PlanFacts
<1>3. ~AddsTree /\ ~AddsTree'
  <2>1. cmd.plan[P] = "tree" => x = P
    BY <1>d, <1>p, <1>s DEF WritesC, Planned, PlanFacts
  <2>2. ~(cmd.plan[P] = "tree")
    BY <2>1
  <2> QED  BY <1>1, <2>2 DEF AddsTree
<1>4. LSTEP
  <2>1. CASE Seen(disk, disk', x)
    <3>1. Scanned(disk') = Scanned(disk)
      BY <1>k, <2>1, Reads DEF Seen
    <3> QED  BY <1>k, <3>1, MapStutter
  <2>2. CASE ~Seen(disk, disk', x) /\ x \notin dirty
    <3>1. \A t \in Paths : \/ Scanned(disk')[t] = Scanned(disk)[t]
                           \/ /\ t \notin dirty \/ Scanned(disk)[t] = Files(base)[t]
                              /\ Scanned(disk')[t] = Files(cmd.goal)[t]
      BY <2>2 DEF Seen
    <3> QED  BY <1>k, <3>1, MapAdopt
  <2>3. CASE ~Seen(disk, disk', x) /\ x \in dirty
    <3>1. Scanned(disk)[x] \in {None, Files(b)[x]}
      BY <2>3 DEF Seen
    <3>2. \A t \in Paths : \/ Scanned(disk')[t] = Scanned(disk)[t]
                           \/ /\ t \in dirty /\ Scanned(disk)[t] \in {None, Files(base)[t]}
                              /\ Scanned(disk')[t] \in {Files(base)[t], goal[t]}
      BY <1>k, <2>3, <3>1 DEF Seen
    <3> QED  BY <1>k, <3>2, MapReappear
  <2> QED  BY <2>1, <2>2, <2>3
<1>5. Between(disk', b, g)
  BY <1>d DEF Between
<1>6. WritesC'
  <2>1. ASSUME NEW t \in Mine PROVE At(g, t)' \/ Pend(t)' \/ t \in cmd'.todo
    <3>0. t \in Paths
      BY DEF Mine
    <3>1. CASE t = x
      BY <1>1, <3>1 DEF At
    <3>2. CASE t # x /\ At(g, t)
      <4>1. Seen(disk, disk', t)
        BY <3>0, <3>2
      <4> QED  BY <1>1, <3>2, <4>1 DEF At, Seen
    <3>3. CASE t # x /\ t \in cmd.todo
      BY <3>3
    <3>4. CASE t # x /\ Pend(t)
      <4>1. CASE t # P /\ disk.stub[t] # None
        BY <3>0, <3>4, <4>1 DEF Pend
      <4>2. CASE disk.stub[P] # None /\ x = P
        <5>1. t \in Names
          BY <1>p, <3>0, <3>4, <4>2
        <5>2. CASE disk'.stub[P] = disk.stub[P]
          BY <1>p, <4>2, <5>1, <5>2 DEF Pend
        <5>3. CASE Scanned(disk')[t] = Files(g)[t]
          BY <1>1, <5>3 DEF At
        <5> QED  BY <4>2, <5>1, <5>2, <5>3
      <4>3. CASE disk.stub[P] # None /\ x # P
        BY <1>2, <1>p, <4>3
      <4> QED  BY <1>2, <3>4, <4>1, <4>2, <4>3 DEF Pend
    <3> QED  BY <1>3, <1>d, <3>1, <3>2, <3>3, <3>4 DEF WritesC
  <2>2. cmd'.todo \subseteq {t \in Paths : cmd'.plan[t] \in
                                {"added", "modified", "emptydir", "link", "tree"}}
    BY <1>1, <1>d DEF WritesC, Planned
  <2> QED  BY <1>1, <1>3, <2>1, <2>2 DEF WritesC, Planned
<1>7. Apart'
  <2>1. ASSUME NEW t \in Mine, IsFile(disk', t)
        PROVE  disk'.stub[t] = None /\ (t \in Names => disk'.dirstub = None /\ disk'.stub[P] = None)
    <3>1. t \in Paths /\ disk'.real[t] # None
      BY <1>k, <2>1, IsFileReal DEF Mine
    <3>2. CASE t = x
      BY <1>2, <1>p, <2>1, <3>2
    <3>3. CASE t # x
      <4>1. disk.real[t] # None /\ disk'.stub[t] = disk.stub[t]
        BY <3>1, <3>3
      <4>2. IsFile(disk, t)
        BY <1>k, <3>1, <4>1, IsFileReal
      <4>3. disk.stub[t] = None /\ (t \in Names => disk.stub[P] = None)
        BY <1>k, <2>1, <4>2 DEF Apart
      <4>4. t \in Names => disk'.stub[P] = disk.stub[P]
        BY <1>p, <3>1
      <4> QED  BY <4>1, <4>3, <4>4
    <3> QED  BY <3>2, <3>3
  <2> QED  BY <1>1, <2>1 DEF Apart
<1>8. LinkC'
  <2>1. cmd.plan[P] = "link" => x = P
    BY <1>2, <1>p, <1>s DEF PlanFacts
  <2> QED  BY <1>1, <1>k, <2>1 DEF LinkC
<1>9. PullC'
  BY <1>1, <1>5, <1>6, <1>7, <1>8, <1>k DEF PullC
<1> QED  BY <1>4, <1>9, PullGoes DEF Good

\* What a write is given.
LEMMA WriteKnows ==
    ASSUME Quietly, NEW x \in Paths, PullWrite(x), ~LeftToReconcile(x)
    PROVE  /\ cmd.name = "pull" /\ cmd.pc = "writes" /\ x \in cmd.todo /\ IInv
           /\ disk \in Disks /\ cmd.from \in Entries /\ cmd.goal \in Entries
           /\ Between(disk, cmd.from, cmd.goal) /\ disk.dirstub = None
           /\ x \in Names => disk.stub[P] = None
           /\ ~Exists(disk, x) => Scanned(disk)[x] \in {None, Files(cmd.from)[x], Files(cmd.goal)[x]}
           /\ \A n \in Names : disk.kind # "dir" => /\ disk.real[n] = None /\ disk.stub[n] = None
                                                    /\ Scanned(disk)[n] = None
<1>0. cmd.name = "pull" /\ cmd.pc = "writes" /\ x \in cmd.todo /\ IInv
  BY DEF PullWrite, Running, Quietly
<1>1. /\ disk \in Disks /\ cmd.from \in Entries /\ cmd.goal \in Entries
  BY <1>0, PullKnows
<1>2. Between(disk, cmd.from, cmd.goal)
  BY <1>0 DEF Quietly, CalmC, PullC
<1>3. ~Exists(disk, x) => Scanned(disk)[x] \in {None, Files(cmd.from)[x], Files(cmd.goal)[x]}
  BY <1>1, <1>2, BetweenReads
<1>4. disk.dirstub = None /\ (x \in Names => disk.stub[P] = None)
  BY DEF LeftToReconcile
<1>5. ASSUME NEW n \in Names, disk.kind # "dir"
      PROVE  disk.real[n] = None /\ disk.stub[n] = None /\ Scanned(disk)[n] = None
  <2>1. disk.real[n] = None /\ disk.stub[n] = None
    BY <1>1, <1>5, DiskParts
  <2> QED  BY <1>1, <1>4, <2>1, ReadsName
<1> QED  BY <1>0, <1>1, <1>2, <1>3, <1>4, <1>5

\* A planned write of a pull that succeeds takes its path off the list and changes only the tree.
LEMMA WriteMoves ==
    ASSUME Quietly, NEW x \in Paths, PullWrite(x), cmd' = [cmd EXCEPT !.todo = @ \ {x}]
    PROVE  /\ Moves /\ cmd'.pc = "writes" /\ cmd'.todo = cmd.todo \ {x} /\ cmd'.removed = cmd.removed
           /\ cmd'.name = "pull"
<1>0. cmd.name = "pull" /\ cmd.pc = "writes" /\ IInv /\ CmdOK(cmd)
  BY CmdRecord DEF PullWrite, Running, Quietly
<1>1. /\ cmd'.pc = "writes" /\ cmd'.todo = cmd.todo \ {x} /\ cmd'.removed = cmd.removed
      /\ cmd'.name = "pull"
  BY <1>0 DEF CmdOK
<1> QED  BY <1>0, <1>1, PullShape DEF PullMiddle, Stops, Abort, StopCmd, Idle

\* The names in a path that is no directory are those of the new root, if that
\* has none either.
LEMMA NoNamesLeft ==
    ASSUME NEW g \in Entries, g.kind # "tree", NEW q \in Disks,
           \A n \in Names : q.real[n] = None /\ Scanned(q)[n] = None
    PROVE  \A n \in Names : q.real[n] = None /\ Scanned(q)[n] = Files(g)[n]
  BY EntryParts, FilesParts

\* A stub is written: where there is none, or in the place of the file.
LEMMA PutStubGood ==
    ASSUME Quietly, NEW x \in Paths, PullWrite(x), ~LeftToReconcile(x),
           cmd.plan[x] \in {"added", "modified"}, cmd' = [cmd EXCEPT !.todo = @ \ {x}],
           ParentOk(disk, x), NEW q, q = PutStub(disk, x, cmd.goal.c[x]),
           \/ ~Exists(disk, x) /\ disk' = q
           \/ Exists(disk, x) /\ CanDropReal(disk, x) /\ ~ChangedSinceScan(x)
              /\ disk' = DropReal(q, x)
    PROVE  Good
<1> DEFINE g == cmd.goal
           b == cmd.from
<1>k. /\ cmd.name = "pull" /\ cmd.pc = "writes" /\ x \in cmd.todo /\ IInv
      /\ disk \in Disks /\ b \in Entries /\ g \in Entries
      /\ Between(disk, b, g) /\ disk.dirstub = None
      /\ x \in Names => disk.stub[P] = None
      /\ ~Exists(disk, x) => Scanned(disk)[x] \in {None, Files(b)[x], Files(g)[x]}
      /\ \A n \in Names : disk.kind # "dir" => /\ disk.real[n] = None /\ disk.stub[n] = None
                                               /\ Scanned(disk)[n] = None
  BY WriteKnows
<1>m. /\ Moves /\ cmd'.pc = "writes" /\ cmd'.todo = cmd.todo \ {x} /\ cmd'.removed = cmd.removed
      /\ cmd'.name = "pull"
  BY WriteMoves
<1>p. /\ P \in Paths /\ P \notin Names /\ \A n \in Names : n \in Paths /\ n # P
      /\ \A t \in Paths : t = P \/ t \in Names
  BY Constants
<1>s. g.c[x] # None /\ (x = P => g.kind = "blob")
  BY <1>k, PullPlan DEF PlanFacts
<1>v. g.c[x] \in Maybe /\ Files(g)[x] = g.c[x]
  BY <1>k, <1>s, EntryParts, FilesParts
<1>1. /\ OnlyAt(disk, q, x) /\ q.real = disk.real /\ q.stub[x] = g.c[x]
      /\ q.kind = IF x = P THEN disk.kind ELSE "dir"
      /\ ~Exists(disk, x) /\ g.c[x] # None => Scanned(q)[x] = g.c[x]
  BY <1>k, <1>v, PutStubScan
<1>2. /\ q \in Disks /\ q.dirstub = None
      /\ \A u \in Paths \ {x} : /\ q.stub[u] = disk.stub[u] /\ q.real[u] = disk.real[u]
                                /\ Seen(disk, q, u)
  BY <1>1, <1>k, <1>p DEF OnlyAt
<1>3. CASE ~Exists(disk, x)
  <2>1. disk' = q /\ Scanned(disk')[x] = Files(g)[x]
    BY <1>1, <1>s, <1>v, <1>3
  <2>2. Scanned(disk)[x] \in {None, Files(b)[x], Files(g)[x]}
    BY <1>k, <1>3
  <2>3. ~IsFile(disk', x)
    <3>1. disk.real[x] = None
      BY <1>3, <1>k, ReadsAt, IsFileReal
    <3> QED  BY <1>1, <1>2, <2>1, <3>1, IsFileReal
  <2>4. x = P => \A n \in Names : disk'.real[n] = None /\ Scanned(disk')[n] = Files(g)[n]
    <3>1. ASSUME x = P, NEW n \in Names PROVE disk'.real[n] = None /\ Scanned(disk')[n] = None
      <4>1. disk.kind # "dir" /\ n \in Paths \ {x}
        BY <1>3, <1>p, <3>1 DEF Exists
      <4> QED  BY <1>2, <1>k, <2>1, <3>1, <4>1 DEF Seen
    <3> QED  BY <1>2, <1>k, <1>s, <2>1, <3>1, NoNamesLeft
  <2>5. disk'.kind # "link"
    BY <1>1, <1>3, <2>1 DEF Exists
  <2>6. disk'.stub[x] \in {None, b.c[x], g.c[x]} /\ disk'.dirstub = None
    BY <1>1, <1>2, <2>1
  <2>7. cmd.plan[x] # "tree"
    OBVIOUS
  <2> QED  BY <1>2, <1>k, <1>m, <2>1, <2>2, <2>3, <2>4, <2>5, <2>6, <2>7, WritesOne
<1>4. CASE Exists(disk, x)
  <2>0. CanDropReal(disk, x) /\ ~ChangedSinceScan(x) /\ disk' = DropReal(q, x)
    BY <1>4
  <2>k. x = P => disk.kind # "dir"
    BY <2>0 DEF CanDropReal
  <2>1. /\ disk' \in Disks /\ disk'.stub = q.stub /\ disk'.dirstub = q.dirstub
        /\ disk'.kind = (IF x = P THEN "absent" ELSE q.kind)
        /\ disk'.real[x] = None
        /\ \A u \in Paths \ {x} : disk'.real[u] = q.real[u] /\ Seen(q, disk', u)
        /\ Scanned(disk')[x] = IF q.stub[x] # None THEN q.stub[x]
                               ELSE IF x # P THEN Behind(q, x) ELSE None
    BY <1>1, <1>2, <2>0, <2>k, DropRealScan
  <2>2. Scanned(disk)[x] \in {None, Files(b)[x], Files(g)[x]}
    <3>1. cmd.plan[x] \notin {"same", "link"} /\ cmd.pc # "reconcile"
      BY <1>k
    <3> QED  BY <1>k, <1>4, <2>0, <2>k, <3>1, Verified
  <2>3. ~IsFile(disk', x)
    BY <2>1, IsFileReal
  <2>4. x = P => \A n \in Names : disk'.real[n] = None /\ Scanned(disk')[n] = Files(g)[n]
    <3>1. ASSUME x = P, NEW n \in Names PROVE disk'.real[n] = None /\ Scanned(disk')[n] = None
      <4>1. n \in Paths \ {x} /\ disk.kind # "dir"
        BY <1>p, <2>k, <3>1
      <4> QED  BY <1>2, <1>k, <2>1, <3>1, <4>1 DEF Seen
    <3> QED  BY <1>k, <1>s, <2>1, <3>1, NoNamesLeft
  <2>5. disk'.kind # "link"
    BY <1>1, <2>1
  <2>6. disk'.stub[x] \in {None, b.c[x], g.c[x]} /\ disk'.dirstub = None
    BY <1>1, <1>2, <2>1
  <2>7. Scanned(disk')[x] = Files(g)[x]
    BY <1>1, <1>s, <1>v, <2>1
  <2>8. \A u \in Paths \ {x} : /\ disk'.stub[u] = disk.stub[u] /\ disk'.real[u] = disk.real[u]
                               /\ Seen(disk, disk', u)
    BY <1>2, <2>1 DEF Seen
  <2>9. cmd.plan[x] # "tree"
    OBVIOUS
  <2> QED  BY <1>k, <1>m, <2>2, <2>3, <2>4, <2>5, <2>6, <2>7, <2>8, <2>9, WritesOne
<1> QED  BY <1>3, <1>4

\* Writing a pulled file maps to LogicalTree and keeps the invariant.
LEMMA WriteFileGood ==
    ASSUME Quietly, NEW x \in Paths, PullWrite(x), ~LeftToReconcile(x),
           cmd.plan[x] \in {"added", "modified"}, WriteFile(x)
    PROVE  Good
<1> DEFINE g == cmd.goal
           b == cmd.from
           c == cmd.goal.c[x]
<1>k. /\ cmd.name = "pull" /\ cmd.pc = "writes" /\ x \in cmd.todo /\ IInv
      /\ disk \in Disks /\ b \in Entries /\ g \in Entries
      /\ Between(disk, b, g) /\ disk.dirstub = None
      /\ x \in Names => disk.stub[P] = None
      /\ ~Exists(disk, x) => Scanned(disk)[x] \in {None, Files(b)[x], Files(g)[x]}
      /\ \A n \in Names : disk.kind # "dir" => /\ disk.real[n] = None /\ disk.stub[n] = None
                                               /\ Scanned(disk)[n] = None
  BY WriteKnows
<1>p. /\ P \in Paths /\ P \notin Names /\ \A n \in Names : n \in Paths /\ n # P
      /\ \A t \in Paths : t = P \/ t \in Names
  BY Constants
<1>s. c # None /\ (x = P => g.kind = "blob")
  BY <1>k, PullPlan DEF PlanFacts
<1>v. c \in Content /\ Files(g)[x] = c
  BY <1>k, <1>s, EntryParts, FilesParts, Constants
<1>1. CASE Fail
  <2>1. Stops /\ disk' = disk
    BY <1>k, <1>1 DEF Fail, Abort, Stops
  <2> QED  BY <2>1, StopGood
<1>2. CASE ~Fail
  <2> DEFINE q == PutReal(disk, x, c)
  <2>0. /\ ~ChangedSinceScan(x) /\ CanPutReal(disk, x) /\ disk' = DropStub(q, x)
        /\ cmd' = [cmd EXCEPT !.todo = @ \ {x}]
    BY <1>2 DEF WriteFile
  <2>m. /\ Moves /\ cmd'.pc = "writes" /\ cmd'.todo = cmd.todo \ {x} /\ cmd'.removed = cmd.removed
        /\ cmd'.name = "pull"
    BY <2>0, WriteMoves
  <2>k. x = P => disk.kind # "dir"
    BY <2>0 DEF CanPutReal
  <2>1. /\ OnlyAt(disk, q, x) /\ q.real[x] = c /\ q.stub = disk.stub
        /\ q.kind = IF x = P THEN "file" ELSE "dir"
        /\ Scanned(q)[x] = c
    BY <1>k, <1>v, <2>0, PutRealScan
  <2> HIDE DEF q
  <2>2. /\ q \in Disks /\ q.dirstub = None
        /\ \A u \in Paths \ {x} : /\ q.stub[u] = disk.stub[u] /\ q.real[u] = disk.real[u]
                                  /\ Seen(disk, q, u)
    BY <1>k, <1>p, <2>1 DEF OnlyAt
  <2>3. /\ disk' \in Disks /\ disk'.real = q.real /\ disk'.dirstub = q.dirstub /\ disk'.kind = q.kind
        /\ disk'.stub[x] = None
        /\ \A u \in Paths \ {x} : disk'.stub[u] = q.stub[u] /\ Seen(q, disk', u)
        /\ Scanned(disk')[x] = IF Exists(q, x) THEN Scanned(q)[x] ELSE Behind(q, x)
    BY <2>0, <2>2, DropStubScan
  <2>4. Scanned(disk')[x] = Files(g)[x]
    <3>1. Exists(q, x)
      BY <1>s, <2>1 DEF Exists
    <3> QED  BY <1>v, <2>1, <2>3, <3>1
  <2>5. Scanned(disk)[x] \in {None, Files(b)[x], Files(g)[x]}
    <3>1. cmd.plan[x] \notin {"same", "link"} /\ cmd.pc # "reconcile"
      BY <1>k
    <3>2. ASSUME Exists(disk, x) PROVE Scanned(disk)[x] \in {Files(b)[x], Files(g)[x]}
      BY <1>k, <2>0, <2>k, <3>1, <3>2, Verified
    <3> QED  BY <1>k, <3>2
  <2>6. \A u \in Paths \ {x} : /\ disk'.stub[u] = disk.stub[u] /\ disk'.real[u] = disk.real[u]
                               /\ Seen(disk, disk', u)
    BY <2>2, <2>3 DEF Seen
  <2>7. x = P => \A n \in Names : disk'.real[n] = None /\ Scanned(disk')[n] = Files(g)[n]
    <3>1. ASSUME x = P, NEW n \in Names PROVE disk'.real[n] = None /\ Scanned(disk')[n] = None
      <4>1. n \in Paths \ {x} /\ disk.kind # "dir"
        BY <1>p, <2>k, <3>1
      <4> QED  BY <1>k, <2>6, <3>1, <4>1 DEF Seen
    <3> QED  BY <1>k, <1>s, <2>3, <3>1, NoNamesLeft
  <2>8. disk'.kind # "link" /\ disk'.dirstub = None /\ disk'.stub[x] \in {None, b.c[x], g.c[x]}
    BY <2>1, <2>2, <2>3
  <2>9. cmd.plan[x] # "tree"
    OBVIOUS
  <2> QED  BY <1>k, <2>m, <2>3, <2>4, <2>5, <2>6, <2>7, <2>8, <2>9, WritesOne
<1> QED  BY <1>1, <1>2

\* Creating a pulled empty directory maps to LogicalTree and keeps the invariant.
LEMMA WriteEmptyDirGood ==
    ASSUME Quietly, PullWrite(P), ~LeftToReconcile(P), cmd.plan[P] = "emptydir", WriteEmptyDir
    PROVE  Good
<1> DEFINE g == cmd.goal
           b == cmd.from
<1>p. /\ P \in Paths /\ P \notin Names /\ \A n \in Names : n \in Paths /\ n # P
      /\ \A t \in Paths : t = P \/ t \in Names
  BY Constants
<1>k. /\ cmd.name = "pull" /\ cmd.pc = "writes" /\ P \in cmd.todo /\ IInv
      /\ disk \in Disks /\ b \in Entries /\ g \in Entries
      /\ Between(disk, b, g) /\ disk.dirstub = None
      /\ ~Exists(disk, P) => Scanned(disk)[P] \in {None, Files(b)[P], Files(g)[P]}
  BY <1>p, WriteKnows
<1>s. g.kind = "tree" /\ Files(g)[P] = None
  <2>1. g.kind = "tree"
    BY <1>k, PullPlan DEF PlanFacts
  <2> QED  BY <1>k, <2>1, EntryParts, FilesParts
<1>1. CASE Fail
  <2>1. Stops /\ disk' = disk
    BY <1>k, <1>1 DEF Fail, Abort, Stops
  <2> QED  BY <2>1, StopGood
<1>2. CASE ~Fail
  <2>0. CanMakeDir(disk) /\ disk' = MakeDir(disk) /\ cmd' = [cmd EXCEPT !.todo = @ \ {P}]
    BY <1>2 DEF WriteEmptyDir
  <2>m. /\ Moves /\ cmd'.pc = "writes" /\ cmd'.todo = cmd.todo \ {P} /\ cmd'.removed = cmd.removed
        /\ cmd'.name = "pull"
    BY <1>p, <2>0, WriteMoves
  <2>1. /\ disk' \in Disks /\ disk'.real = disk.real /\ disk'.stub = disk.stub
        /\ disk'.dirstub = disk.dirstub /\ disk'.kind = "dir"
        /\ Scanned(disk')[P] = None /\ \A n \in Names : Seen(disk, disk', n)
        /\ Scanned(disk)[P] = IF disk.kind = "absent" THEN disk.stub[P] ELSE None
    BY <1>k, <2>0, MakeDirScan
  <2>2. Scanned(disk)[P] \in {None, Files(b)[P], Files(g)[P]}
    BY <1>k, <2>1 DEF Exists
  <2>3. ~IsFile(disk', P)
    BY <2>1 DEF IsFile
  <2>4. \A u \in Paths \ {P} : /\ disk'.stub[u] = disk.stub[u] /\ disk'.real[u] = disk.real[u]
                               /\ Seen(disk, disk', u)
    BY <1>p, <2>1
  <2>5. disk'.stub[P] = disk.stub[P] /\ disk'.stub[P] \in {None, b.c[P], g.c[P]}
    BY <1>k, <1>p, <2>1 DEF Between
  <2>6. disk'.kind # "link" /\ disk'.dirstub = None /\ Scanned(disk')[P] = Files(g)[P]
    BY <1>k, <1>s, <2>1
  <2>7. cmd.plan[P] # "tree"
    OBVIOUS
  <2> QED  BY <1>k, <1>p, <2>m, <2>2, <2>3, <2>4, <2>5, <2>6, <2>7, WritesOne
<1> QED  BY <1>1, <1>2

\* Before a symlink is made the stub goes: if the check then fails, that is
\* all that has happened.
LEMMA WriteLinkStops ==
    ASSUME Quietly, PullWrite(P), ~LeftToReconcile(P), cmd.plan[P] = "link",
           ChangedSinceScan(P) \/ ~CanPutLink(DropStub(disk, P)), Abort(DropStub(disk, P))
    PROVE  Good
<1> DEFINE g == cmd.goal
           b == cmd.from
           d == DropStub(disk, P)
<1>p. P \in Paths
  BY Constants
<1>k. /\ cmd.name = "pull" /\ cmd.pc = "writes" /\ P \in cmd.todo /\ IInv
      /\ disk \in Disks /\ b \in Entries /\ g \in Entries
      /\ Between(disk, b, g)
      /\ ~Exists(disk, P) => Scanned(disk)[P] \in {None, Files(b)[P], Files(g)[P]}
  BY <1>p, WriteKnows
<1>l. LinkC /\ base = b /\ goal = Files(g) /\ torn \in BOOLEAN /\ FromInv /\ RecInv
  BY <1>k, PullKnows DEF Quietly, IInv, TypeOK
<1>1. /\ d \in Disks /\ d.kind = disk.kind
      /\ \A u \in Paths \ {P} : Seen(disk, d, u)
      /\ Scanned(d)[P] = IF Exists(disk, P) THEN Scanned(disk)[P] ELSE Behind(disk, P)
  BY <1>k, <1>p, DropStubScan
<1>2. disk' = d
  BY DEF Abort
<1>3. d.kind = "absent" => CanPutLink(d)
  BY DEF CanPutLink
<1> HIDE DEF d
<1>4. ~Exists(disk, P) => P \in dirty
  <2>1. ASSUME ~Exists(disk, P) PROVE ChangedSinceScan(P)
    BY <1>1, <1>2, <1>3, <2>1 DEF Exists, d
  <2>2. ASSUME ~Exists(disk, P) PROVE Exists(cmd.seen, P) /\ P \notin cmd.removed
    BY <2>1, <2>2 DEF ChangedSinceScan
  <2> QED  BY <1>k, <1>l, <2>2 DEF LinkC
<1>5. LeavesTorn /\ Stops
  BY <1>2, <1>k DEF LeavesTorn, Stops, Abort, d
<1>6. \A t \in Paths : \/ torn \/ Scanned(disk')[t] = Scanned(disk)[t]
                       \/ /\ t \in dirty /\ Scanned(disk)[t] \in {Files(base)[t], goal[t]}
                          /\ Scanned(disk')[t] = None
  <2>1. Behind(disk, P) = None
    BY DEF Behind
  <2>2. \/ Scanned(disk')[P] = Scanned(disk)[P]
        \/ /\ P \in dirty /\ Scanned(disk)[P] \in {Files(base)[P], goal[P]}
           /\ Scanned(disk')[P] = None
    BY <1>1, <1>2, <1>4, <1>k, <1>l, <2>1
  <2>3. \A u \in Paths \ {P} : Scanned(disk')[u] = Scanned(disk)[u]
    BY <1>1, <1>2 DEF Seen
  <2> QED  BY <2>2, <2>3
<1>7. Abort(disk') /\ disk' \in Disks
  BY <1>1, <1>2, <1>5 DEF Stops
<1>8. LSTEP
  BY <1>5, <1>6, <1>7, <1>k, <1>l, MapAbandon
<1>9. ~Calm'
  BY <1>5, <1>7 DEF Abort, Calm
<1> QED  BY <1>8, <1>9 DEF Good

\* Creating a pulled symbolic link maps to LogicalTree and keeps the invariant.
LEMMA WriteLinkGood ==
    ASSUME Quietly, PullWrite(P), ~LeftToReconcile(P), cmd.plan[P] = "link", WriteLink
    PROVE  Good
<1> DEFINE g == cmd.goal
           b == cmd.from
           d == DropStub(disk, P)
<1>1. CASE ChangedSinceScan(P) \/ ~CanPutLink(d)
  BY <1>1, WriteLinkStops DEF WriteLink
<1>2. CASE ~ChangedSinceScan(P) /\ CanPutLink(d)
  <2>p. /\ P \in Paths /\ P \notin Names /\ \A n \in Names : n \in Paths /\ n # P
        /\ \A t \in Paths : t = P \/ t \in Names
    BY Constants
  <2>k. /\ cmd.name = "pull" /\ cmd.pc = "writes" /\ P \in cmd.todo /\ IInv
        /\ disk \in Disks /\ b \in Entries /\ g \in Entries
        /\ disk.dirstub = None
        /\ ~Exists(disk, P) => Scanned(disk)[P] \in {None, Files(b)[P], Files(g)[P]}
        /\ \A n \in Names : disk.kind # "dir" => /\ disk.real[n] = None /\ disk.stub[n] = None
                                                 /\ Scanned(disk)[n] = None
    BY <2>p, WriteKnows
  <2>s. g.kind = "link" /\ Files(g)[P] = "link"
    <3>1. g.kind = "link"
      BY <2>k, PullPlan DEF PlanFacts
    <3> QED  BY <2>k, <3>1, FilesParts
  <2>0. disk' = PutLink(d) /\ cmd' = [cmd EXCEPT !.todo = @ \ {P}]
    BY <1>2 DEF WriteLink
  <2>m. /\ Moves /\ cmd'.pc = "writes" /\ cmd'.todo = cmd.todo \ {P} /\ cmd'.removed = cmd.removed
        /\ cmd'.name = "pull"
    BY <2>p, <2>0, WriteMoves
  <2>1. /\ d \in Disks /\ d.real = disk.real /\ d.dirstub = disk.dirstub /\ d.kind = disk.kind
        /\ d.stub[P] = None /\ \A u \in Paths \ {P} : d.stub[u] = disk.stub[u]
    BY <2>k, <2>p, DropStubScan
  <2>2. /\ disk' \in Disks /\ disk'.real = Nowhere /\ disk'.dirstub = None /\ disk'.kind = "link"
        /\ disk'.stub[P] = d.stub[P] /\ Scanned(disk')[P] = "link"
        /\ \A n \in Names : disk'.stub[n] = None /\ disk'.real[n] = None /\ Scanned(disk')[n] = None
    BY <2>0, <2>1, PutLinkScan
  <2>3. disk.kind = "dir" => \A n \in Names : d.real[n] = None /\ d.stub[n] = None
    BY <1>2, <2>1 DEF CanPutLink, EmptyDir
  <2> HIDE DEF d
  <2>4. \A n \in Names : disk.real[n] = None /\ disk.stub[n] = None /\ Scanned(disk)[n] = None
    <3>1. ASSUME NEW n \in Names, disk.kind = "dir"
          PROVE  disk.real[n] = None /\ disk.stub[n] = None /\ Scanned(disk)[n] = None
      <4>1. disk.real[n] = None /\ disk.stub[n] = None
        BY <2>1, <2>3, <2>p, <3>1
      <4> QED  BY <2>k, <3>1, <4>1, ReadsName
    <3> QED  BY <2>k, <3>1
  <2>5. \A u \in Paths \ {P} : /\ disk'.stub[u] = disk.stub[u] /\ disk'.real[u] = disk.real[u]
                               /\ Seen(disk, disk', u)
    BY <2>2, <2>4, <2>p DEF Seen
  <2>6. Scanned(disk)[P] \in {None, Files(b)[P], Files(g)[P]}
    <3>1. CASE disk.kind = "file"
      <4>1. IsFile(disk, P) /\ cmd.plan[P] # "same" /\ cmd.pc # "reconcile"
        BY <2>k, <3>1 DEF IsFile
      <4>2. ~ChangedSinceScan(P)
        BY <1>2
      <4> QED  BY <2>k, <2>p, <4>1, <4>2, VerifiedFile
    <3>2. CASE disk.kind = "link"
      BY <2>k, <2>p, <2>s, <3>2, ReadsAt
    <3>3. CASE disk.kind = "dir"
      BY <2>k, <2>p, <3>3, ReadsAt
    <3>4. CASE disk.kind = "absent"
      BY <2>k, <3>4 DEF Exists
    <3> QED  BY <2>k, <3>1, <3>2, <3>3, <3>4, DiskParts
  <2>7. ~IsFile(disk', P)
    BY <2>2 DEF IsFile
  <2>8. \A n \in Names : disk'.real[n] = None /\ Scanned(disk')[n] = Files(g)[n]
    BY <2>k, <2>s, <2>2, NoNamesLeft
  <2>9. disk'.dirstub = None /\ disk'.stub[P] \in {None, b.c[P], g.c[P]}
        /\ Scanned(disk')[P] = Files(g)[P] /\ cmd.plan[P] # "tree"
    BY <2>s, <2>1, <2>2
  <2> QED  BY <2>k, <2>m, <2>p, <2>s, <2>5, <2>6, <2>7, <2>8, <2>9, WritesOne
<1> QED  BY <1>1, <1>2

\* What a write of a whole directory leaves for a scan to see.
LEMMA WriteTreeScan ==
    ASSUME TypeOK, WriteTree, cmd.goal.kind = "tree", disk.dirstub = None
    PROVE  LET ch == Children(cmd.goal)
           IN  /\ disk' \in Disks /\ disk'.kind = "dir" /\ disk'.stub[P] = None
               /\ disk'.dirstub \in {None, ch} /\ Scanned(disk')[P] = None
               /\ \A n \in Names : disk'.stub[n] = disk.stub[n]
               /\ \A n \in Names :
                    Scanned(disk')[n] = IF git /\ ch[n] # None THEN ch[n]
                                        ELSE IF disk.real[n] # None THEN disk.real[n]
                                        ELSE IF disk.stub[n] # None THEN disk.stub[n] ELSE ch[n]
<1> DEFINE ch == Children(cmd.goal)
           r == IF disk.kind = "dir" THEN disk ELSE DropReal(disk, P)
           d == DropStub(r, P)
           m == MakeDir(d)
           f == [t \in Paths |-> IF t \in StubNames(ch) THEN ch[t] ELSE m.real[t]]
<1>p. /\ P \in Paths /\ P \notin Names /\ \A n \in Names : n \in Paths /\ n # P
  BY Constants
<1>0. disk \in Disks /\ cmd.goal \in Entries /\ ch \in [Names -> Maybe] /\ ch # None
  BY EntryParts, Constants DEF TypeOK
<1>1. disk' = IF git THEN [m EXCEPT !.real = f] ELSE PutDirStub(d, ch)
  BY DEF WriteTree
<1>2. /\ disk' \in Disks
      /\ \A t \in Paths : disk'.real[t] = IF git /\ t \in StubNames(ch) THEN ch[t]
                                          ELSE IF t = P THEN None ELSE disk.real[t]
  BY WriteTreeDisk
<1>n. \A n \in Names : n \in StubNames(ch) <=> ch[n] # None
  BY DEF StubNames
<1> HIDE DEF ch, f
<1>3. /\ r \in Disks /\ r.kind \in {"absent", "dir"} /\ r.stub = disk.stub /\ r.dirstub = None
  <2>1. CASE disk.kind = "dir"
    BY <1>0, <2>1
  <2>2. CASE disk.kind # "dir"
    <3>1. r = DropReal(disk, P)
      BY <2>2
    <3> QED  BY <1>0, <1>p, <2>2, <3>1, DropRealScan
  <2> QED  BY <2>1, <2>2
<1> HIDE DEF r
<1>4. /\ d \in Disks /\ d.kind \in {"absent", "dir"} /\ d.dirstub = None /\ d.stub[P] = None
      /\ \A n \in Names : d.stub[n] = disk.stub[n]
  BY <1>3, <1>p, DropStubScan
<1> HIDE DEF d
<1>5. /\ disk'.kind = "dir" /\ disk'.stub = d.stub
      /\ disk'.dirstub = IF git THEN None ELSE ch
  <2>1. CASE git
    <3>1. m \in Disks /\ m.stub = d.stub /\ m.dirstub = d.dirstub /\ m.kind = "dir"
      BY <1>4, MakeDirScan DEF CanMakeDir
    <3> HIDE DEF m
    <3>2. disk' = [m EXCEPT !.real = f]
      BY <1>1, <2>1
    <3> QED  BY <1>4, <2>1, <3>1, <3>2 DEF Disks, Disk
  <2>2. CASE ~git
    <3>1. disk' = PutDirStub(d, ch)
      BY <1>1, <2>2
    <3> QED  BY <1>0, <1>4, <2>2, <3>1, PutDirStubScan
  <2> QED  BY <2>1, <2>2
<1>6. Scanned(disk')[P] = None
  BY <1>2, <1>5, <1>p, ReadsAt
<1>7. ASSUME NEW n \in Names
      PROVE  Scanned(disk')[n] = IF git /\ ch[n] # None THEN ch[n]
                                 ELSE IF disk.real[n] # None THEN disk.real[n]
                                 ELSE IF disk.stub[n] # None THEN disk.stub[n] ELSE ch[n]
  <2>1. /\ disk'.real[n] = IF git /\ ch[n] # None THEN ch[n] ELSE disk.real[n]
        /\ disk'.stub[n] = disk.stub[n]
        /\ disk'.dirstub = IF git THEN None ELSE ch
    BY <1>2, <1>4, <1>5, <1>n, <1>p
  <2>2. /\ disk'.real[n] # None => Scanned(disk')[n] = disk'.real[n]
        /\ disk'.real[n] = None /\ disk'.stub[n] # None => Scanned(disk')[n] = disk'.stub[n]
        /\ disk'.real[n] = None /\ disk'.stub[n] = None /\ disk'.dirstub # None =>
              Scanned(disk')[n] = disk'.dirstub[n]
        /\ disk'.real[n] = None /\ disk'.stub[n] = None /\ disk'.dirstub = None =>
              Scanned(disk')[n] = None
    BY <1>2, ReadsName
  <2>3. CASE git /\ ch[n] # None
    BY <2>1, <2>2, <2>3
  <2>4. CASE git /\ ch[n] = None
    BY <2>1, <2>2, <2>4
  <2>5. CASE ~git
    BY <1>0, <2>1, <2>2, <2>5
  <2> QED  BY <2>3, <2>4, <2>5
<1> QED  BY <1>2, <1>4, <1>5, <1>6, <1>7 DEF ch

\* Replacing a file by a pulled directory maps to LogicalTree and keeps the invariant.
LEMMA WriteTreeGood ==
    ASSUME Quietly, PullWrite(P), ~LeftToReconcile(P), cmd.plan[P] = "tree", WriteTree
    PROVE  Good
<1> DEFINE g == cmd.goal
           b == cmd.from
           ch == Children(cmd.goal)
<1>p. /\ P \in Paths /\ P \notin Names /\ \A n \in Names : n \in Paths /\ n # P
      /\ \A t \in Paths : t = P \/ t \in Names
  BY Constants
<1>k. /\ cmd.name = "pull" /\ cmd.pc = "writes" /\ P \in cmd.todo /\ IInv
      /\ disk \in Disks /\ b \in Entries /\ g \in Entries
      /\ Between(disk, b, g) /\ disk.dirstub = None
      /\ ~Exists(disk, P) => Scanned(disk)[P] \in {None, Files(b)[P], Files(g)[P]}
  BY <1>p, WriteKnows
<1>l. /\ base = b /\ lost' = lost /\ Apart /\ LinkC /\ Follows(cmd.seen, b) /\ WritesC /\ lost' = {}
  BY <1>k, PullKnows DEF Quietly, CalmC, PullC
<1>m. /\ Moves /\ cmd'.pc = "writes" /\ cmd'.todo = cmd.todo \ {P} /\ cmd'.removed = cmd.removed
      /\ cmd'.name = "pull"
  <2>1. cmd' = [cmd EXCEPT !.todo = @ \ {P}]
    BY DEF WriteTree
  <2> QED  BY <1>p, <2>1, WriteMoves
<1>1. /\ cmd'.seen = cmd.seen /\ cmd'.plan = cmd.plan /\ cmd'.from = b /\ cmd'.goal = g
      /\ dirty' = dirty /\ Mine' = Mine
  BY <1>m, MovesView DEF Moves, Mine
<1>s. g.kind = "tree" /\ b.kind # "tree"
  BY <1>k, PullPlan DEF PlanFacts
<1>f. /\ Files(g)[P] = None /\ \A n \in Names : Files(g)[n] = g.c[n] /\ Files(b)[n] = None
      /\ \A n \in Names : g.c[n] = ch[n] /\ b.c[n] = None
  BY <1>k, <1>s, EntryParts, FilesParts
<1>2. /\ disk' \in Disks /\ disk'.kind = "dir" /\ disk'.stub[P] = None
      /\ disk'.dirstub \in {None, ch} /\ Scanned(disk')[P] = None
      /\ \A n \in Names : disk'.stub[n] = disk.stub[n]
      /\ \A n \in Names :
           Scanned(disk')[n] = IF git /\ ch[n] # None THEN ch[n]
                               ELSE IF disk.real[n] # None THEN disk.real[n]
                               ELSE IF disk.stub[n] # None THEN disk.stub[n] ELSE ch[n]
  <2>1. TypeOK
    BY <1>k DEF IInv
  <2> QED  BY <1>k, <1>s, <2>1, WriteTreeScan
<1>3. ~Unverified(P) /\ (git => \A n \in StubNames(ch) : ~Replaces(n, ch[n]))
  BY <1>l DEF WriteTree, MayLose
<1>4. \A n \in Names : disk'.real[n] = IF git /\ ch[n] # None THEN ch[n] ELSE disk.real[n]
  <2>1. TypeOK
    BY <1>k DEF IInv
  <2>2. \A n \in Names : n \in StubNames(ch) <=> ch[n] # None
    BY DEF StubNames
  <2>3. \A t \in Paths : disk'.real[t] = IF git /\ t \in StubNames(ch) THEN ch[t]
                                         ELSE IF t = P THEN None ELSE disk.real[t]
    BY <2>1, WriteTreeDisk
  <2> QED  BY <1>p, <2>2, <2>3
<1>5. \A n \in Names : git /\ ch[n] # None /\ disk.real[n] # None => disk.real[n] = ch[n]
  BY <1>3, <1>p DEF Replaces, Exists, StubNames
<1> HIDE DEF ch
<1>6. ASSUME NEW n \in Names
      PROVE  Seen(disk, disk', n) \/ (Scanned(disk)[n] = Files(b)[n] /\ Scanned(disk')[n] = Files(g)[n])
  <2>1. CASE disk.real[n] # None
    <3>1. Scanned(disk)[n] = disk.real[n]
      BY <1>k, <2>1, ReadsName
    <3> QED  BY <1>2, <1>5, <2>1, <3>1 DEF Seen
  <2>2. CASE disk.real[n] = None /\ disk.stub[n] # None
    <3>1. Scanned(disk)[n] = disk.stub[n]
      BY <1>k, <2>2, ReadsName
    <3>2. disk.stub[n] = g.c[n]
      BY <1>f, <1>k, <1>p, <2>2 DEF Between
    <3> QED  BY <1>2, <1>f, <2>2, <3>1, <3>2 DEF Seen
  <2>3. CASE disk.real[n] = None /\ disk.stub[n] = None
    <3>1. Scanned(disk)[n] = None
      BY <1>k, <2>3, ReadsName
    <3> QED  BY <1>2, <1>f, <2>3, <3>1
  <2> QED  BY <2>1, <2>2, <2>3
<1>7. Seen(disk, disk', P) \/ (Scanned(disk)[P] = Files(b)[P] /\ Scanned(disk')[P] = Files(g)[P])
  <2>1. Scanned(disk')[P] = None /\ Files(g)[P] = None
    BY <1>2, <1>f
  <2>2. CASE disk.kind = "dir"
    <3>1. Scanned(disk)[P] = None
      BY <1>k, <1>p, <2>2, ReadsAt
    <3> QED  BY <2>1, <3>1 DEF Seen
  <2>3. CASE disk.kind # "dir" /\ Exists(disk, P)
    <3>1. ~ChangedSinceScan(P) /\ cmd.plan[P] \notin {"same", "link"} /\ cmd.pc # "reconcile"
      BY <1>3, <1>k, <2>3 DEF Unverified
    <3>2. Scanned(disk)[P] \in {Files(b)[P], Files(g)[P]}
      BY <1>k, <1>p, <2>3, <3>1, Verified
    <3> QED  BY <2>1, <3>2 DEF Seen
  <2>4. CASE ~Exists(disk, P)
    BY <1>k, <2>1, <2>4 DEF Seen
  <2> QED  BY <2>2, <2>3, <2>4
<1>8. LSTEP
  <2>1. \A t \in Paths : \/ Scanned(disk')[t] = Scanned(disk)[t]
                         \/ /\ t \notin dirty \/ Scanned(disk)[t] = Files(base)[t]
                            /\ Scanned(disk')[t] = Files(cmd.goal)[t]
    BY <1>6, <1>7, <1>l, <1>p DEF Seen
  <2>2. lost' = lost
    BY <1>l
  <2> QED  BY <1>k, <1>m, <2>1, <2>2, MapAdopt
<1>9. Between(disk', b, g)
  <2>1. \A t \in Paths : disk'.stub[t] \in {None, b.c[t], g.c[t]}
    BY <1>2, <1>k, <1>p DEF Between
  <2>2. disk'.dirstub # None => disk'.dirstub = Children(g) /\ g.kind = "tree"
    BY <1>2, <1>s DEF ch
  <2> QED  BY <2>1, <2>2 DEF Between
<1>10. \A n \in Names \cap Mine : /\ disk.real[n] = None /\ disk.stub[n] = None
                                  /\ Scanned(disk')[n] = Files(g)[n]
  <2>1. \A n \in Names \cap Mine : Scanned(disk)[n] = None
    BY <1>k, <1>l DEF WritesC, AddsTree
  <2>2. ASSUME NEW n \in Names \cap Mine PROVE disk.real[n] = None /\ disk.stub[n] = None
    BY <1>k, <2>1, <2>2, ReadsName
  <2> QED  BY <1>2, <1>f, <2>2
<1>11. WritesC'
  <2>1. cmd'.todo \subseteq {t \in Paths : cmd'.plan[t] \in
                                {"added", "modified", "emptydir", "link", "tree"}}
    BY <1>1, <1>l, <1>m DEF WritesC, Planned
  <2>2. ~AddsTree'
    BY <1>m DEF AddsTree
  <2>3. \A t \in Mine : At(g, t)'
    BY <1>1, <1>2, <1>10, <1>f, <1>p DEF At, Mine
  <2> QED  BY <1>1, <2>1, <2>2, <2>3 DEF WritesC, Planned
<1>12. Apart'
  <2>1. ASSUME NEW t \in Mine, IsFile(disk', t)
        PROVE  disk'.stub[t] = None /\ (t \in Names => disk'.dirstub = None /\ disk'.stub[P] = None)
    <3>1. t \in Names
      BY <1>2, <1>p, <2>1 DEF IsFile, Mine
    <3>2. disk'.real[t] # None
      BY <1>2, <1>p, <2>1, <3>1 DEF IsFile
    <3>3. git
      BY <1>10, <1>4, <2>1, <3>1, <3>2
    <3>4. disk'.dirstub = None
      <4> DEFINE d == DropStub(IF disk.kind = "dir" THEN disk ELSE DropReal(disk, P), P)
      <4>1. disk' = [MakeDir(d) EXCEPT !.real = [x \in Paths |->
                         IF x \in StubNames(Children(g)) THEN Children(g)[x] ELSE @[x]]]
        BY <3>3 DEF WriteTree
      <4>2. d.dirstub = None
        BY <1>k DEF DropStub, DropReal, Disks, Disk
      <4>3. d \in Disks
        BY <1>k, <1>p, DropRealScan, DropStubScan
      <4> HIDE DEF d
      <4>4. MakeDir(d).dirstub = None /\ MakeDir(d) \in Disk
        BY <4>2, <4>3 DEF MakeDir, Disks, Disk
      <4> QED  BY <4>1, <4>4 DEF Disk
    <3> QED  BY <1>2, <1>10, <2>1, <3>1, <3>4
  <2> QED  BY <1>1, <2>1 DEF Apart
<1>13. LinkC'
  BY <1>1, <1>2, <1>l, <1>m DEF LinkC
<1>14. PullC'
  BY <1>1, <1>9, <1>11, <1>12, <1>13, <1>l, <1>m DEF PullC
<1> QED  BY <1>8, <1>14, <1>k, <1>m, PullGoes DEF Good

\* A write that leaves its path to the reconciliation.
LEMMA WriteLeftGood ==
    ASSUME Quietly, NEW x \in Paths, PullWrite(x), LeftToReconcile(x),
           cmd' = [cmd EXCEPT !.todo = @ \ {x}], disk' = disk
    PROVE  Good
<1> DEFINE g == cmd.goal
           b == cmd.from
<1>0. cmd.name = "pull" /\ cmd.pc = "writes" /\ x \in cmd.todo
  BY DEF PullWrite, Running
<1>k. /\ disk \in Disks /\ lost' = lost /\ Apart /\ LinkC /\ Follows(cmd.seen, b)
      /\ Between(disk, b, g) /\ WritesC
  BY <1>0, PullKnows DEF Quietly, CalmC, PullC
<1>m. /\ Moves /\ cmd'.pc = "writes" /\ cmd'.todo = cmd.todo \ {x} /\ cmd'.removed = cmd.removed
      /\ cmd'.name = "pull"
  BY WriteMoves
<1>1. /\ cmd'.seen = cmd.seen /\ cmd'.plan = cmd.plan /\ cmd'.from = b /\ cmd'.goal = g
      /\ dirty' = dirty /\ Mine' = Mine
  BY <1>m, MovesView DEF Moves, Mine
<1>p. /\ P \in Paths /\ P \notin Names /\ \A n \in Names : n \in Paths /\ n # P
      /\ \A t \in Paths : t = P \/ t \in Names
  BY Constants
<1>2. LSTEP
  BY <1>k, <1>m, MapStutter
<1>3. Pend(x) /\ (x = P => \A t \in Paths : Pend(t))
  BY <1>p DEF LeftToReconcile, Pend
<1>4. WritesC'
  <2>1. cmd'.todo \subseteq {t \in Paths : cmd'.plan[t] \in
                                {"added", "modified", "emptydir", "link", "tree"}}
    BY <1>1, <1>k, <1>m DEF WritesC, Planned
  <2>2. AddsTree' => AddsTree
    BY <1>1, <1>m DEF AddsTree
  <2>3. ASSUME NEW t \in Mine PROVE At(g, t) \/ Pend(t) \/ t \in cmd'.todo \/ AddsTree'
    <3>0. t \in Paths
      BY DEF Mine
    <3>1. At(g, t) \/ Pend(t) \/ t \in cmd.todo \/ AddsTree
      BY <1>k DEF WritesC
    <3>2. t \in cmd.todo => t \in cmd'.todo \/ Pend(t)
      BY <1>3, <1>m
    <3>3. AddsTree => AddsTree' \/ Pend(t)
      BY <1>1, <1>3, <1>m, <1>p, <3>0 DEF AddsTree
    <3> QED  BY <3>1, <3>2, <3>3
  <2>4. \A t \in Mine : At(g, t)' \/ Pend(t)' \/ t \in cmd'.todo \/ AddsTree'
    BY <1>1, <2>3 DEF At, Pend
  <2>5. AddsTree => \A n \in Names \cap Mine : Scanned(disk)[n] = None
    BY <1>k DEF WritesC
  <2> QED  BY <1>1, <2>1, <2>2, <2>4, <2>5 DEF WritesC, Planned
<1>5. Apart'
  BY <1>1, <1>k DEF Apart
<1>6. LinkC'
  BY <1>0, <1>1, <1>k, <1>m DEF LinkC
<1>7. PullC'
  BY <1>1, <1>4, <1>5, <1>6, <1>k, <1>m DEF PullC
<1> QED  BY <1>0, <1>2, <1>7, <1>m, PullGoes DEF Good

\* Every planned write of a pull maps to LogicalTree and keeps the invariant.
LEMMA PullWriteGood ==
    ASSUME Quietly, NEW x \in Paths, PullWrite(x)
    PROVE  Good
<1>0. cmd.name = "pull" /\ cmd.pc = "writes" /\ x \in cmd.todo /\ lost' = {}
  BY DEF PullWrite, Running, Quietly
<1>k. disk \in Disks /\ cmd.goal \in Entries
  BY <1>0, PullKnows
<1>p. /\ P \in Paths /\ \A t \in Paths : t = P \/ t \in Names
  BY Constants
<1>s. cmd.plan[x] \in {"emptydir", "link", "tree"} => x = P
  <2>1. \A n \in Names : cmd.plan[n] \in {"same", "added", "modified", "deleted"}
    BY <1>0, PullPlan DEF PlanFacts
  <2> QED  BY <1>p, <2>1
<1>f. ASSUME Fail PROVE Good
  <2>1. Stops /\ disk' = disk
    BY <1>0, <1>f DEF Fail, Abort, Stops
  <2> QED  BY <2>1, StopGood
<1>1. CASE LeftToReconcile(x)
  <2>1. cmd' = [cmd EXCEPT !.todo = @ \ {x}] /\ disk' = disk
    BY <1>1 DEF PullWrite
  <2> QED  BY <1>1, <2>1, WriteLeftGood
<1>2. CASE ~LeftToReconcile(x) /\ cmd.plan[x] = "added" /\ WriteStub(x)
  <2> DEFINE q == PutStub(disk, x, cmd.goal.c[x])
  <2>1. CASE ~Fail
    <3>1. /\ ParentOk(disk, x) /\ (Exists(disk, x) => CanDropReal(disk, x))
          /\ disk' = IF Exists(disk, x) THEN DropReal(q, x) ELSE q
          /\ cmd' = [cmd EXCEPT !.todo = @ \ {x}] /\ ~Unverified(x)
      BY <1>0, <1>2, <2>1 DEF WriteStub, MayLose
    <3>2. Exists(disk, x) => ~ChangedSinceScan(x)
      BY <3>1 DEF Unverified
    <3>3. cmd.plan[x] \in {"added", "modified"} /\ ~LeftToReconcile(x)
      BY <1>2
    <3>4. \/ ~Exists(disk, x) /\ disk' = q
          \/ Exists(disk, x) /\ CanDropReal(disk, x) /\ ~ChangedSinceScan(x) /\ disk' = DropReal(q, x)
      BY <3>1, <3>2
    <3> QED  BY <3>1, <3>3, <3>4, PutStubGood
  <2> QED  BY <1>f, <2>1
<1>3. CASE ~LeftToReconcile(x) /\ cmd.plan[x] \in {"added", "modified"} /\ WriteFile(x)
  BY <1>3, WriteFileGood
<1>4. CASE ~LeftToReconcile(x) /\ cmd.plan[x] = "modified" /\ WriteModified(x)
  <2>1. CASE disk.stub[x] # None /\ ~Exists(disk, x)
    <3> DEFINE q == PutStub(disk, x, cmd.goal.c[x])
    <3>1. disk' = q /\ cmd' = [cmd EXCEPT !.todo = @ \ {x}]
      BY <1>4, <2>1 DEF WriteModified
    <3>2. ParentOk(disk, x)
      BY <1>k, <1>p, <2>1, DiskParts DEF ParentOk
    <3>3. cmd.plan[x] \in {"added", "modified"} /\ ~LeftToReconcile(x)
      BY <1>4
    <3> QED  BY <2>1, <3>1, <3>2, <3>3, PutStubGood
  <2>2. CASE ~(disk.stub[x] # None /\ ~Exists(disk, x))
    BY <1>3, <1>4, <2>2 DEF WriteModified
  <2> QED  BY <2>1, <2>2
<1>5. CASE ~LeftToReconcile(x) /\ cmd.plan[x] = "emptydir" /\ WriteEmptyDir
  BY <1>5, <1>s, WriteEmptyDirGood
<1>6. CASE ~LeftToReconcile(x) /\ cmd.plan[x] = "link" /\ WriteLink
  BY <1>6, <1>s, WriteLinkGood
<1>7. CASE ~LeftToReconcile(x) /\ cmd.plan[x] = "tree" /\ WriteTree
  BY <1>7, <1>s, WriteTreeGood
<1> QED  BY <1>1, <1>2, <1>3, <1>4, <1>5, <1>6, <1>7 DEF PullWrite

----------------------------------------------------------------------------
(* The beginning of a command.                                             *)

\* The command takes its goal from the tree or from a root.
LEMMA StartMap ==
    ASSUME IInv, cmd.name = "idle", cmd'.pc # "reconcile", disk' = disk,
           UNCHANGED <<cr, remote, edits, publishes, dirty, torn, lost>>,
           \/ cmd'.name \in {"pull", "clone"} /\ cmd'.goal = remote
           \/ cmd'.name = "push" /\ cmd'.goal = Logical(disk)
           \/ cmd'.name \in {"stub", "expand"} /\ cmd'.seen = disk
           \/ cmd'.name = "restore"
    PROVE  LSTEP
<1>0. disk \in Disks
  BY DEF IInv, TypeOK
<1>1. doing = "none" /\ base = cr /\ base' = cr
  BY DEF doing, base, Reconciling
<1>2. Scanned(disk) = Files(Logical(disk))
  BY <1>0, ScannedFiles
<1>3. \/ doing' = "pull" /\ goal' = Files(remote)
      \/ doing' \in {"push", "stub", "expand"} /\ goal' = Scanned(disk)
      \/ doing' = "restore" /\ goal' = Files(base)
  <2>1. CASE cmd'.name \in {"pull", "clone"} /\ cmd'.goal = remote
    BY <2>1 DEF doing, goal
  <2>2. CASE cmd'.name = "push" /\ cmd'.goal = Logical(disk)
    BY <1>2, <2>2 DEF doing, goal
  <2>3. CASE cmd'.name \in {"stub", "expand"} /\ cmd'.seen = disk
    BY <2>3 DEF doing, goal
  <2>4. CASE cmd'.name = "restore"
    BY <1>1, <2>4 DEF doing, goal
  <2> QED  BY <2>1, <2>2, <2>3, <2>4
<1>4. Beside' \in SUBSET Paths
  BY DEF Beside
<1>5. Abstract!Begin
  BY <1>1, <1>3, <1>4 DEF Abstract!Begin
<1> QED  BY <1>5 DEF Abstract!Next, LSTEP

\* What is known when a command begins.
LEMMA StartKnows ==
    ASSUME IInv, CalmC, cmd.name = "idle"
    PROVE  /\ disk \in Disks /\ cr \in Entries /\ remote \in Entries
           /\ Follows(disk, cr) /\ InStep(cr)
           /\ repo = "none" => /\ cr = AbsentEntry /\ InPlace(disk) \subseteq dirty /\ Listed(disk) = {}
  BY DEF IInv, TypeOK, CalmC, RestC, Resting

\* A command that starts on an unchanged tree finds the invariant its own part asks for.
LEMMA StartCalm ==
    ASSUME IInv, CalmC, cmd.name = "idle", cmd'.pc # "reconcile", cmd'.touched = {},
           UNCHANGED <<disk, cr, dirty>>, repo' \in {repo, "init"},
           cmd'.name = "clone" => cr = AbsentEntry,
           StubC', ExpandC', CloneC', PushC', PullC'
    PROVE  CalmC'
<1>1. Follows(disk, cr) /\ InStep(cr)
      /\ (repo = "none" => cr = AbsentEntry /\ InPlace(disk) \subseteq dirty)
  BY StartKnows
<1>2. RestC'
  BY <1>1 DEF RestC, InStep
<1>3. RecC'
  BY DEF RecC, Reconciling
<1> QED  BY <1>2, <1>3 DEF CalmC

\* The record a command begins with.
LEMMA BeginsWith ==
    ASSUME NEW n, NEW p, NEW a, NEW s, NEW td, NEW g, NEW pl, NEW f
    PROVE  /\ LET c == [Idle EXCEPT !.name = n, !.pc = p, !.at = a, !.seen = s]
              IN  /\ c.name = n /\ c.pc = p /\ c.at = a /\ c.seen = s /\ c.touched = {}
           /\ LET c == [Idle EXCEPT !.name = n, !.pc = p, !.at = a, !.seen = s, !.todo = td]
              IN  /\ c.name = n /\ c.pc = p /\ c.at = a /\ c.seen = s /\ c.todo = td /\ c.touched = {}
           /\ LET c == [Idle EXCEPT !.name = n, !.at = a, !.seen = s, !.pc = p, !.todo = td]
              IN  /\ c.name = n /\ c.pc = p /\ c.at = a /\ c.seen = s /\ c.todo = td /\ c.touched = {}
           /\ LET c == [Idle EXCEPT !.name = n, !.pc = p, !.goal = g, !.at = a]
              IN  /\ c.name = n /\ c.pc = p /\ c.at = a /\ c.goal = g /\ c.touched = {}
                  /\ c.seen = EmptyDisk
           /\ LET c == [Idle EXCEPT !.name = n, !.pc = p, !.seen = s, !.goal = g, !.plan = pl,
                                    !.from = f]
              IN  /\ c.name = n /\ c.pc = p /\ c.seen = s /\ c.goal = g /\ c.plan = pl /\ c.from = f
                  /\ c.touched = {} /\ c.removed = {}
           /\ LET c == [Idle EXCEPT !.name = n, !.pc = p, !.goal = g, !.from = f]
              IN  /\ c.name = n /\ c.pc = p /\ c.goal = g /\ c.from = f /\ c.touched = {}
                  /\ c.seen = EmptyDisk
  BY DEF Idle

\* Stub's start is LogicalTree's Begin and keeps the invariant.
LEMMA StubStartGood ==
    ASSUME IInv, NEW t \in Paths, StubStart(t)
    PROVE  LSTEP /\ (CalmC => CalmC')
<1>0. cmd.name = "idle" /\ disk' = disk /\ Quiet
  BY DEF StubStart
<1>1. /\ cmd'.name = "stub" /\ cmd'.pc = "verify" /\ cmd'.at = t /\ cmd'.seen = disk
      /\ cmd'.touched = {}
  BY BeginsWith DEF StubStart
<1>2. LSTEP
  BY <1>0, <1>1, StartMap DEF Quiet
<1>3. ASSUME CalmC PROVE CalmC'
  <2>1. \/ t = P /\ disk.kind = "dir" /\ StubDirOk
        \/ IsFile(disk, t) /\ StubFileOk(t)
    BY DEF StubStart
  <2>2. StubC'
    BY <1>0, <1>1, <2>1, Constants DEF StubC, WholeDir, StubDirOk, StubFileOk, IsFile, Quiet
  <2>3. ExpandC' /\ CloneC' /\ PushC' /\ PullC'
    BY <1>1 DEF ExpandC, CloneC, PushC, PullC
  <2> QED  BY <1>0, <1>1, <1>3, <2>2, <2>3, StartCalm DEF Quiet
<1> QED  BY <1>2, <1>3

\* Expand's start is LogicalTree's Begin and keeps the invariant.
LEMMA ExpandStartGood ==
    ASSUME IInv, NEW scope \in Paths \cup {Root}, ExpandStart(scope)
    PROVE  LSTEP /\ (CalmC => CalmC')
<1>0. cmd.name = "idle" /\ disk' = disk /\ Quiet
  BY DEF ExpandStart
<1>1. /\ cmd'.name = "expand" /\ cmd'.pc \in {"items", "lower"} /\ cmd'.seen = disk
      /\ cmd'.pc = "lower" => cmd'.todo = StubNames(disk.dirstub)
      /\ cmd'.touched = {}
  <2>1. CASE cmd' = [Idle EXCEPT !.name = "expand", !.pc = "items", !.at = Root,
                                 !.seen = disk, !.todo = ToExpand(disk, scope)]
    BY <2>1, BeginsWith
  <2>2. CASE cmd' = [Idle EXCEPT !.name = "expand", !.pc = "lower", !.at = scope,
                                 !.seen = disk, !.todo = StubNames(disk.dirstub)]
    BY <2>2, BeginsWith
  <2> QED  BY <2>1, <2>2 DEF ExpandStart
<1>2. LSTEP
  BY <1>0, <1>1, StartMap DEF Quiet
<1>3. ASSUME CalmC PROVE CalmC'
  <2>1. Follows(disk, cr)
    BY <1>0, <1>3, StartKnows
  <2>2. ExpandC'
    BY <1>0, <1>1, <2>1 DEF ExpandC, Written, Quiet
  <2>3. StubC' /\ CloneC' /\ PushC' /\ PullC'
    BY <1>1 DEF StubC, CloneC, PushC, PullC
  <2> QED  BY <1>0, <1>1, <1>3, <2>2, <2>3, StartCalm DEF Quiet
<1> QED  BY <1>2, <1>3

\* Restore's start is LogicalTree's Begin and keeps the invariant.
LEMMA RestoreStartGood ==
    ASSUME IInv, NEW scope \in Paths \cup {Root}, RestoreStart(scope)
    PROVE  LSTEP /\ (CalmC => CalmC')
<1>0. cmd.name = "idle" /\ disk' = disk /\ Quiet
  BY DEF RestoreStart
<1>1. cmd'.name = "restore" /\ cmd'.pc \in {"apply", "offline"} /\ cmd'.touched = {}
  BY BeginsWith DEF RestoreStart
<1>2. LSTEP
  BY <1>0, <1>1, StartMap DEF Quiet
<1>3. ASSUME CalmC PROVE CalmC'
  <2>1. StubC' /\ ExpandC' /\ CloneC' /\ PushC' /\ PullC'
    BY <1>1 DEF StubC, ExpandC, CloneC, PushC, PullC
  <2> QED  BY <1>0, <1>1, <1>3, <2>1, StartCalm DEF Quiet
<1> QED  BY <1>2, <1>3

\* Clone's start is LogicalTree's Begin and keeps the invariant.
LEMMA CloneStartGood ==
    ASSUME IInv, NEW force \in BOOLEAN, CloneStart(force)
    PROVE  LSTEP /\ (CalmC => CalmC')
<1>0. cmd.name = "idle" /\ disk' = disk /\ repo' = "init" /\ repo = "none"
      /\ UNCHANGED <<cr, remote, edits, publishes, dirty, torn, lost>>
  BY DEF CloneStart
<1>1. cmd'.name = "clone" /\ cmd'.pc = "entry" /\ cmd'.goal = remote /\ cmd'.touched = {}
  BY BeginsWith DEF CloneStart
<1>2. LSTEP
  BY <1>0, <1>1, StartMap
<1>3. ASSUME CalmC PROVE CalmC'
  <2>1. /\ cr = AbsentEntry /\ InPlace(disk) \subseteq dirty /\ Listed(disk) = {} /\ disk \in Disks
    BY <1>0, <1>3, StartKnows
  <2>2. \A t \in Paths : disk.stub[t] = None /\ disk.dirstub = None
    BY <2>1 DEF Listed
  <2>3. Follows(disk, remote)
    BY <2>2, Constants DEF Follows
  <2>4. CloneC'
    BY <1>0, <1>1, <2>1, <2>3 DEF CloneC
  <2>5. StubC' /\ ExpandC' /\ PushC' /\ PullC'
    BY <1>1 DEF StubC, ExpandC, PushC, PullC
  <2> QED  BY <1>0, <1>1, <1>3, <2>1, <2>4, <2>5, StartCalm
<1> QED  BY <1>2, <1>3

\* Push's start, the scan of the tree included, is LogicalTree's Begin and keeps the invariant.
LEMMA PushStartGood ==
    ASSUME IInv, PushStart
    PROVE  LSTEP /\ (CalmC => CalmC')
<1>0. cmd.name = "idle" /\ disk' = disk /\ Quiet
  BY DEF PushStart
<1>1. /\ cmd'.name = "push" /\ cmd'.pc = "publish" /\ cmd'.goal = Logical(disk) /\ cmd'.from = cr
      /\ cmd'.touched = {}
  BY BeginsWith DEF PushStart
<1>2. LSTEP
  BY <1>0, <1>1, StartMap DEF Quiet
<1>3. ASSUME CalmC PROVE CalmC'
  <2>1. InStep(cr) /\ disk \in Disks
    BY <1>0, <1>3, StartKnows
  <2>2. Scanned(disk) = Files(Logical(disk))
    BY <2>1, ScannedFiles
  <2>3. dirty' = dirty
    BY <1>0 DEF Quiet
  <2>4. PushC'
    BY <1>1, <2>1, <2>2, <2>3 DEF PushC, InStep, Reconciling
  <2>5. StubC' /\ ExpandC' /\ CloneC' /\ PullC'
    BY <1>1 DEF StubC, ExpandC, CloneC, PullC
  <2> QED  BY <1>0, <1>1, <1>3, <2>4, <2>5, StartCalm DEF Quiet
<1> QED  BY <1>2, <1>3

\* Two roots with nothing to pull between them differ in no file and no stub.
LEMMA NothingToPull ==
    ASSUME NEW b \in Entries, NEW g \in Entries, Diff(b, g, TRUE) = NoDiff
    PROVE  /\ Files(b) = Files(g) /\ \A t \in Paths : b.c[t] = g.c[t]
           /\ Children(b) = Children(g)
           /\ b.kind \in {"tree", "absent"} => g.kind \in {"tree", "absent"}
<1> DEFINE p == Diff(b, g, TRUE)
<1>p. /\ P \in Paths /\ P \notin Names /\ \A n \in Names : n \in Paths /\ n # P
      /\ \A x \in Paths : x = P \/ x \in Names
  BY Constants
<1>e. /\ b.kind \in {"absent", "blob", "link", "tree"} /\ g.kind \in {"absent", "blob", "link", "tree"}
      /\ (b.c[P] # None) <=> (b.kind = "blob")
      /\ (g.c[P] # None) <=> (g.kind = "blob")
  BY EntryParts
<1>1. \A x \in Paths : p[x] = "same"
  BY DEF NoDiff
<1>2. PlanFacts(b, g, p)
  BY PlanSays
<1>3. DiffAtP(b, g, TRUE) = "same"
  BY <1>1, <1>p DEF Diff
<1> HIDE DEF p
<1>4. \A x \in Paths : Files(b)[x] = Files(g)[x]
  BY <1>1, <1>2, <1>p DEF PlanFacts
<1>5. Files(b) = Files(g)
  BY <1>4 DEF Files
<1>6. \A n \in Names : b.c[n] = g.c[n]
  BY <1>4, <1>p, FilesParts
<1>7. b.c[P] = g.c[P]
  BY <1>3, <1>e DEF DiffAtP, AddedWhole
<1>8. b.kind \in {"tree", "absent"} => g.kind \in {"tree", "absent"}
  BY <1>3, <1>e DEF DiffAtP, AddedWhole
<1>9. Children(b) = Children(g)
  BY <1>6 DEF Children
<1> QED  BY <1>5, <1>6, <1>7, <1>8, <1>9, <1>p

\* A symlink in the way of a pull is the old root's.
LEMMA NoLinkConflict ==
    ASSUME NEW d \in Disks, NEW b \in Entries, NEW r \in Entries, d.kind = "link",
           Conflicts(Diff(b, r, TRUE), Diff(b, Logical(d), FALSE), r, Logical(d)) = {},
           Diff(b, r, TRUE)[P] \notin {"same", "link"}
    PROVE  b.kind = "link"
<1> DEFINE l == Logical(d)
           rd == Diff(b, r, TRUE)
           ld == Diff(b, l, FALSE)
<1>1. l.kind = "link"
  BY DEF Logical, LinkEntry
<1>2. ld[P] = IF b.kind = "link" THEN "same" ELSE "link"
  BY <1>1, Constants DEF Diff, DiffAtP
<1>3. P \notin Conflicts(rd, ld, r, l)
  OBVIOUS
<1>4. rd[P] \notin {"same", "link"} /\ P \in Paths
  BY Constants
<1> HIDE DEF rd, ld, l
<1>5. ld[P] = "same" \/ SameContent(rd, ld, r, l, P)
  BY <1>3, <1>4 DEF Conflicts
<1> QED  BY <1>2, <1>4, <1>5 DEF SameContent

\* Pull's start, the plan included, is LogicalTree's Begin and keeps the invariant.
LEMMA PullStartGood ==
    ASSUME IInv, PullStart
    PROVE  LSTEP /\ (CalmC => CalmC')
<1>0. cmd.name = "idle" /\ disk' = disk /\ repo # "none" /\ IInv /\ disk \in Disks
      /\ cr \in Entries /\ remote \in Entries /\ UNCHANGED <<remote, edits, publishes, dirty, torn, lost>>
  BY DEF PullStart, Quiet, IInv, TypeOK
<1>p. /\ P \in Paths /\ P \notin Names /\ \A n \in Names : n \in Paths /\ n # P
      /\ \A x \in Paths : x = P \/ x \in Names
  BY Constants
<1> DEFINE rd == Diff(cr, remote, TRUE)
           ld == Diff(cr, Logical(disk), FALSE)
<1>1. CASE rd = NoDiff /\ cr' = remote /\ repo' = "rooted" /\ cmd' = cmd
  <2>1. /\ Files(cr) = Files(remote) /\ \A t \in Paths : cr.c[t] = remote.c[t]
        /\ Children(cr) = Children(remote)
        /\ cr.kind \in {"tree", "absent"} => remote.kind \in {"tree", "absent"}
    BY <1>0, <1>1, NothingToPull
  <2>2. Files(base)' = Files(base) /\ doing' = doing /\ goal' = goal /\ Beside' = Beside
    <3>1. ~Reconciling /\ ~Reconciling'
      BY <1>0, <1>1 DEF Reconciling
    <3>2. base = cr /\ base' = remote
      BY <1>1, <3>1 DEF base
    <3>3. doing' = doing /\ goal' = goal /\ Beside' = Beside
      BY <1>0, <1>1 DEF doing, goal, Beside
    <3> QED  BY <2>1, <3>2, <3>3
  <2>3. LSTEP
    BY <1>0, <2>2 DEF LSTEP, Abstract!vars
  <2>4. ASSUME CalmC PROVE CalmC'
    <3>1. Follows(disk, cr) /\ InStep(cr)
      BY <1>0, <2>4, StartKnows
    <3>2. Follows(disk, remote)
      BY <2>1, <3>1 DEF Follows
    <3>3. InStep(cr)'
      BY <1>0, <1>1, <2>1, <3>1 DEF InStep
    <3>4. RestC'
      BY <1>0, <1>1, <2>4, <3>2, <3>3 DEF RestC, CalmC
    <3>5. StubC' /\ ExpandC' /\ CloneC' /\ PushC' /\ PullC' /\ RecC'
      BY <1>0, <1>1 DEF StubC, ExpandC, CloneC, PushC, PullC, RecC, Reconciling
    <3> QED  BY <3>4, <3>5 DEF CalmC
  <2> QED  BY <2>3, <2>4
<1>2. CASE /\ rd # NoDiff /\ Conflicts(rd, ld, remote, Logical(disk)) = {}
           /\ cmd' = [Idle EXCEPT !.name = "pull", !.pc = "verify", !.seen = disk,
                                  !.goal = remote, !.plan = rd, !.from = cr]
           /\ Quiet
  <2>1. /\ cmd'.name = "pull" /\ cmd'.pc = "verify" /\ cmd'.seen = disk /\ cmd'.goal = remote
        /\ cmd'.plan = rd /\ cmd'.from = cr /\ cmd'.touched = {} /\ cmd'.removed = {}
    BY <1>2, BeginsWith
  <2>2. UNCHANGED <<cr, repo>>
    BY <1>2 DEF Quiet
  <2>3. LSTEP
    BY <1>0, <2>1, <2>2, StartMap
  <2>4. disk.kind = "link" /\ rd[P] \notin {"same", "link"} => cr.kind = "link"
    BY <1>0, <1>2, NoLinkConflict
  <2> HIDE DEF rd
  <2>5. ASSUME CalmC PROVE CalmC'
    <3>1. Follows(disk, cr) /\ InStep(cr)
      BY <1>0, <2>5, StartKnows
    <3>2. Mine' = {t \in Paths \ dirty :
                     ~(IsFile(disk, t) /\ (disk.stub[t] # None \/ (t # P /\ disk.dirstub # None)))}
      BY <1>0, <2>1 DEF Mine, Beside
    <3>3. Apart'
      <4>1. ASSUME NEW t \in Mine', IsFile(disk, t)
            PROVE  disk.stub[t] = None /\ (t \in Names => disk.dirstub = None /\ disk.stub[P] = None)
        <5>1. t \in Paths \ dirty /\ disk.stub[t] = None /\ (t # P => disk.dirstub = None)
          BY <3>2, <4>1
        <5>2. ASSUME t \in Names PROVE disk.stub[P] = None
          <6>1. disk.real[t] # None /\ Scanned(disk)[t] = disk.real[t]
            BY <1>0, <4>1, <5>1, ReadsAt
          <6>2. cr.c[t] # None
            BY <1>0, <3>1, <5>1, <5>2, <6>1, FilesParts DEF InStep
          <6>3. cr.c[P] = None
            BY <1>0, <5>2, <6>2, EntryParts
          <6> QED  BY <1>p, <3>1, <6>3 DEF Follows
        <5> QED  BY <1>p, <5>1, <5>2
      <4> QED  BY <1>0, <4>1 DEF Apart
    <3>4. LinkC'
      BY <1>0, <2>1, <2>4 DEF LinkC
    <3>5. PullC'
      BY <1>0, <2>1, <3>1, <3>3, <3>4 DEF PullC
    <3>6. StubC' /\ ExpandC' /\ CloneC' /\ PushC'
      BY <2>1 DEF StubC, ExpandC, CloneC, PushC
    <3> QED  BY <1>0, <2>1, <2>2, <2>5, <3>5, <3>6, StartCalm
  <2> QED  BY <2>3, <2>5
<1> QED  BY <1>1, <1>2 DEF PullStart

\* Every command begins as LogicalTree says, whatever has been torn or lost.
LEMMA StartsGood ==
    ASSUME IInv, Starts
    PROVE  LSTEP /\ (CalmC => CalmC')
  BY StubStartGood, ExpandStartGood, RestoreStartGood, CloneStartGood, PushStartGood, PullStartGood
     DEF Starts

----------------------------------------------------------------------------
(* The end of a command.                                                   *)

\* What an idle command leaves to LogicalTree.
LEMMA EndsView ==
    ASSUME cmd' = Idle
    PROVE  /\ doing' = "none" /\ goal' = Abstract!NoGoal /\ Beside' = {}
           /\ base' = cr' /\ ~Reconciling'
<1>1. cmd'.seen = EmptyDisk /\ cmd'.name = "idle"
  BY DEF Idle
<1>2. ~Reconciling'
  BY <1>1 DEF Reconciling
<1>3. base' = cr'
  BY <1>2 DEF base
<1>4. Beside' = {}
  <2>1. \A t \in Paths : EmptyDisk.stub[t] = None /\ EmptyDisk.dirstub = None
    BY Constants DEF EmptyDisk
  <2> QED  BY <1>1, <2>1 DEF Beside
<1>5. goal' = Nowhere /\ doing' = "none"
  BY <1>1 DEF goal, doing
<1> QED  BY <1>2, <1>3, <1>4, <1>5 DEF Nowhere, Abstract!NoGoal

\* A tree that shows a root's files at every unedited path is at rest once that root is clone_root.
LEMMA EndCalm ==
    ASSUME cmd' = Idle, disk' = disk, repo' # "none", Follows(disk, cr'),
           \A t \in Paths \ dirty' : Scanned(disk)[t] = Files(cr')[t]
    PROVE  CalmC'
<1>1. cmd'.name = "idle" /\ cmd'.touched = {} /\ cmd'.pc = "idle"
  BY DEF Idle
<1>2. InStep(cr)'
  BY DEF InStep
<1>3. RestC'
  BY <1>1, <1>2 DEF RestC
<1>4. StubC' /\ ExpandC' /\ CloneC' /\ PushC' /\ PullC' /\ RecC'
  BY <1>1 DEF StubC, ExpandC, CloneC, PushC, PullC, RecC, Reconciling
<1> QED  BY <1>3, <1>4 DEF CalmC

\* Clone's saving of clone_root maps to LogicalTree and leaves the tree at rest.
LEMMA CloneRootGood ==
    ASSUME IInv, FromInv, CloneRoot, lost = {}, Calm => CalmC
    PROVE  Good
<1> DEFINE g == cmd.goal
<1>0. /\ cmd.name = "clone" /\ cmd.pc \in {"root", "children"} /\ cmd' = Idle /\ disk' = disk
      /\ cr' = g /\ repo' = "rooted" /\ dirty' = {t \in dirty : Scanned(disk)[t] # Files(g)[t]}
      /\ UNCHANGED <<remote, edits, publishes, torn, lost>> /\ disk \in Disks /\ torn \in BOOLEAN
      /\ dirty \subseteq Paths
  BY DEF CloneRoot, Running, StopCmd, IInv, TypeOK
<1>1. Calm => /\ Follows(disk, g)
              /\ \A t \in Paths \ dirty : Scanned(disk)[t] = Files(g)[t]
  <2>1. ASSUME Calm, cmd.pc = "root" PROVE InStep(g)
    BY <1>0, <2>1 DEF CalmC, CloneC
  <2>2. ASSUME Calm, cmd.pc = "children"
        PROVE  \A t \in Paths \ dirty : Scanned(disk)[t] = Files(g)[t]
    <3>1. cmd.todo = {}
      BY <2>2 DEF CloneRoot, Running
    <3> QED  BY <1>0, <2>2, <3>1 DEF CalmC, CloneC
  <2>3. Calm => Follows(disk, g)
    BY <1>0 DEF CalmC, CloneC
  <2> QED  BY <1>0, <2>1, <2>2, <2>3 DEF InStep
<1>2. /\ doing' = "none" /\ goal' = Abstract!NoGoal /\ Beside' = {} /\ base' = g
  BY <1>0, EndsView
<1>3. doing = "pull" /\ goal = Files(g) /\ Beside = {}
  <2>1. cmd.seen = EmptyDisk
    BY <1>0 DEF FromInv
  <2>2. \A t \in Paths : EmptyDisk.stub[t] = None /\ EmptyDisk.dirstub = None
    BY Constants DEF EmptyDisk
  <2> QED  BY <1>0, <2>1, <2>2 DEF doing, goal, Beside
<1>4. torn \/ \A t \in Paths \ dirty : Scanned(disk)[t] = Files(g)[t]
  BY <1>1 DEF Calm
<1>5. Abstract!Finish
  BY <1>0, <1>2, <1>3, <1>4 DEF Abstract!Finish
<1>6. LSTEP
  BY <1>5 DEF LSTEP, Abstract!Next
<1>7. ASSUME Calm' PROVE CalmC'
  <2>1. Calm
    BY <1>0, <1>7 DEF Calm
  <2> QED  BY <1>0, <1>1, <2>1, EndCalm
<1> QED  BY <1>6, <1>7 DEF Good

\* The end of restore maps to LogicalTree and leaves the tree at rest.
LEMMA RestoreEndGood ==
    ASSUME IInv, RestoreEnd, lost = {}, Calm => CalmC
    PROVE  Good
<1>0. /\ cmd.name = "restore" /\ cmd' = Idle /\ disk' = disk /\ repo # "none"
      /\ dirty' = dirty \cap OutOfStep /\ torn' = (torn /\ (Logical(disk) # cr \/ Listed(disk) # {}))
      /\ UNCHANGED <<cr, remote, repo, edits, publishes, lost>> /\ disk \in Disks /\ torn \in BOOLEAN
      /\ dirty \subseteq Paths
  BY DEF RestoreEnd, StopCmd, IInv, TypeOK, PlaceInv
<1>s. Scanned(disk) = Files(Logical(disk))
  BY <1>0, ScannedFiles
<1>2. doing' = "none" /\ goal' = Abstract!NoGoal /\ Beside' = {} /\ base' = cr
  BY <1>0, EndsView
<1>3. doing = "restore" /\ base = cr
  BY <1>0 DEF doing, base, Reconciling
<1>4. torn /\ Scanned(disk) # Files(cr) => torn'
  BY <1>0, <1>s
<1>5. Abstract!FinishRestore
  <2>1. dirty' = {t \in dirty : Scanned(disk)[t] # Files(cr)[t]}
    BY <1>0 DEF OutOfStep
  <2>2. torn' \in {torn, FALSE}
    BY <1>0
  <2> QED  BY <1>0, <1>2, <1>3, <1>4, <2>1, <2>2 DEF Abstract!FinishRestore
<1>6. LSTEP
  BY <1>5 DEF LSTEP, Abstract!Next
<1>7. ASSUME Calm' PROVE CalmC'
  <2>1. CASE torn
    <3>1. Logical(disk) = cr /\ Listed(disk) = {}
      BY <1>0, <1>7, <2>1 DEF Calm
    <3>2. \A t \in Paths : disk.stub[t] = None /\ disk.dirstub = None
      BY <3>1 DEF Listed
    <3>3. Follows(disk, cr)
      BY <3>2, Constants DEF Follows
    <3> QED  BY <1>0, <1>s, <3>1, <3>3, EndCalm
  <2>2. CASE ~torn
    <3>1. Follows(disk, cr) /\ InStep(cr)
      BY <1>0, <2>2 DEF CalmC, RestC, Resting, Calm
    <3>2. \A t \in Paths \ dirty' : Scanned(disk)[t] = Files(cr)[t]
      BY <1>0, <3>1 DEF InStep, OutOfStep
    <3> QED  BY <1>0, <3>1, <3>2, EndCalm
  <2> QED  BY <2>1, <2>2
<1> QED  BY <1>6, <1>7 DEF Good

\* The stubs now listed are those to be reconciled.
LEMMA ListedStubs ==
    ASSUME NEW d \in Disks
    PROVE  /\ \A t \in Paths : t \in Listed(d) <=> d.stub[t] # None
           /\ DirStub \in Listed(d) <=> d.dirstub # None
  BY Constants DEF Listed

\* Moving clone_root is nothing to LogicalTree, which moves it at the end.
LEMMA RootMoves ==
    ASSUME IInv, FromInv, PullRoot \/ PushRoot
    PROVE  /\ LSTEP /\ cmd'.name = cmd.name /\ cmd'.pc = "reconcile" /\ cmd'.todo = Listed(disk)
           /\ cmd'.seen = cmd.seen /\ cmd'.goal = cmd.goal /\ cmd'.plan = cmd.plan
           /\ cmd'.from = cmd.from /\ cmd'.touched = cmd.touched /\ cmd'.removed = cmd.removed
           /\ cr' = cmd.goal /\ repo' = "rooted" /\ cr = cmd.from /\ Reconciling' /\ ~Reconciling
           /\ UNCHANGED <<disk, dirty, torn, lost>> /\ cmd.name \in {"pull", "push"}
           /\ cmd.name = "pull" => cmd.pc = "writes" /\ cmd.todo = {}
           /\ cmd.name = "push" => cmd.pc = "root"
<1>0. /\ cmd.name \in {"pull", "push"} /\ cmd.pc \in {"writes", "root"} /\ CmdOK(cmd)
      /\ cmd' = [cmd EXCEPT !.pc = "reconcile", !.todo = Listed(disk)]
      /\ cr' = cmd.goal /\ repo' = "rooted"
      /\ UNCHANGED <<disk, remote, git, edits, publishes, dirty, torn, lost>>
      /\ cmd.name = "pull" => cmd.pc = "writes" /\ cmd.todo = {}
      /\ cmd.name = "push" => cmd.pc = "root"
  BY CmdRecord DEF PullRoot, PushRoot, Running
<1>1. /\ cmd'.name = cmd.name /\ cmd'.pc = "reconcile" /\ cmd'.todo = Listed(disk)
      /\ cmd'.seen = cmd.seen /\ cmd'.goal = cmd.goal /\ cmd'.plan = cmd.plan
      /\ cmd'.from = cmd.from /\ cmd'.touched = cmd.touched /\ cmd'.removed = cmd.removed
  BY <1>0 DEF CmdOK
<1>2. ~Reconciling /\ Reconciling'
  BY <1>0, <1>1 DEF Reconciling
<1>3. cr = cmd.from
  BY <1>0, <1>2 DEF FromInv
<1>4. base' = base /\ doing' = doing /\ goal' = goal /\ Beside' = Beside
  <2>1. base = cmd.from /\ base' = cmd'.from
    BY <1>2, <1>3 DEF base
  <2>2. doing' = doing /\ goal' = goal
    BY <1>0, <1>1 DEF doing, goal
  <2>3. Beside' = Beside
    BY <1>1 DEF Beside
  <2> QED  BY <1>1, <2>1, <2>2, <2>3
<1>5. LSTEP
  BY <1>0, <1>4 DEF LSTEP, Abstract!vars
<1> QED  BY <1>0, <1>1, <1>2, <1>3, <1>5

\* What the reconciliation begins with.
LEMMA RecBegins ==
    ASSUME NEW d \in Disks, NEW b, NEW g, Between(d, b, g)
    PROVE  /\ P \in Listed(d) => b.c[P] # None \/ g.c[P] # None
           /\ DirStub \in Listed(d) => b.kind \in {"tree", "absent"} \/ g.kind = "tree"
           /\ DirStub \in Listed(d) => d.dirstub # None
  BY ListedStubs, Constants DEF Between

\* Pull's saving of clone_root maps to LogicalTree and keeps the invariant.
LEMMA PullRootGood ==
    ASSUME IInv, FromInv, PullRoot, Calm => CalmC
    PROVE  Good
<1> DEFINE g == cmd.goal
           b == cmd.from
<1>0. /\ LSTEP /\ cmd'.name = cmd.name /\ cmd'.pc = "reconcile" /\ cmd'.todo = Listed(disk)
      /\ cmd'.seen = cmd.seen /\ cmd'.goal = cmd.goal /\ cmd'.plan = cmd.plan
      /\ cmd'.from = cmd.from /\ cmd'.touched = cmd.touched /\ cmd'.removed = cmd.removed
      /\ cr' = cmd.goal /\ repo' = "rooted" /\ cr = cmd.from /\ Reconciling' /\ ~Reconciling
      /\ UNCHANGED <<disk, dirty, torn, lost>>
      /\ cmd.name = "pull" => cmd.pc = "writes" /\ cmd.todo = {}
  BY RootMoves
<1>1. cmd.name = "pull" /\ cmd.pc = "writes" /\ cmd.todo = {}
  BY DEF PullRoot, Running
<1>2. ASSUME Calm' PROVE CalmC'
  <2>0. Calm /\ CalmC /\ disk \in Disks
    BY <1>0, <1>2 DEF Calm, IInv, TypeOK
  <2>1. /\ Between(disk, b, g) /\ WritesC /\ Apart /\ LinkC /\ Follows(cmd.seen, b)
        /\ cmd.touched \subseteq dirty
    BY <1>1, <2>0 DEF CalmC, PullC, RestC
  <2>2. /\ \A t \in Paths : t \in Listed(disk) <=> disk.stub[t] # None
        /\ DirStub \in Listed(disk) <=> disk.dirstub # None
    BY <2>0, ListedStubs
  <2>3. Mine' = Mine
    BY <1>0 DEF Mine, Beside
  <2>4. \A t \in Mine : At(g, t) \/ Pend(t)
    BY <1>1, <2>1 DEF WritesC, AddsTree
  <2>5. \A t \in Mine : At(g, t)' \/ PendR(t)'
    <3>1. ASSUME NEW t \in Mine, At(g, t) PROVE At(g, t)'
      BY <1>0, <3>1 DEF At
    <3>2. ASSUME NEW t \in Mine, Pend(t) PROVE PendR(t)'
      BY <1>0, <2>2, <3>2, Constants DEF Pend, PendR, Mine
    <3> QED  BY <2>4, <3>1, <3>2
  <2>6. \A n \in Names \cap Mine : n \in cmd'.todo => disk.real[n] = None
    <3>1. ASSUME NEW n \in Names \cap Mine, n \in Listed(disk) PROVE disk.real[n] = None
      <4>1. disk.stub[n] # None /\ n \in Paths
        BY <2>2, <3>1 DEF Mine
      <4>2. ~IsFile(disk, n)
        BY <2>1, <3>1, <4>1 DEF Apart
      <4> QED  BY <2>0, <4>1, <4>2, IsFileReal
    <3> QED  BY <1>0, <3>1
  <2>7. MovedC'
    BY <1>0, <2>3, <2>5, <2>6 DEF MovedC
  <2>8. LinkC' /\ Apart'
    BY <1>0, <2>1, <2>3 DEF LinkC, Apart
  <2>9. PullC'
    BY <1>0, <2>1, <2>7, <2>8 DEF PullC
  <2>10. RecC'
    BY <1>0, <2>0, <2>1, RecBegins DEF RecC
  <2>11. RestC'
    BY <1>0, <1>1, <2>1 DEF RestC, Resting
  <2>12. StubC' /\ ExpandC' /\ CloneC' /\ PushC'
    BY <1>0, <1>1 DEF StubC, ExpandC, CloneC, PushC
  <2> QED  BY <2>9, <2>10, <2>11, <2>12 DEF CalmC
<1> QED  BY <1>0, <1>2 DEF Good

\* Push's saving of clone_root maps to LogicalTree and keeps the invariant.
LEMMA PushRootGood ==
    ASSUME IInv, FromInv, PushRoot, Calm => CalmC
    PROVE  Good
<1> DEFINE g == cmd.goal
           b == cmd.from
<1>0. /\ LSTEP /\ cmd'.name = cmd.name /\ cmd'.pc = "reconcile" /\ cmd'.todo = Listed(disk)
      /\ cmd'.seen = cmd.seen /\ cmd'.goal = cmd.goal /\ cmd'.plan = cmd.plan
      /\ cmd'.from = cmd.from /\ cmd'.touched = cmd.touched /\ cmd'.removed = cmd.removed
      /\ cr' = cmd.goal /\ repo' = "rooted" /\ cr = cmd.from /\ Reconciling' /\ ~Reconciling
      /\ UNCHANGED <<disk, dirty, torn, lost>>
  BY RootMoves
<1>1. cmd.name = "push" /\ cmd.pc = "root"
  BY DEF PushRoot, Running
<1>2. ASSUME Calm' PROVE CalmC'
  <2>0. Calm /\ CalmC /\ disk \in Disks
    BY <1>0, <1>2 DEF Calm, IInv, TypeOK
  <2>1. /\ Follows(disk, b) /\ InStep(b) /\ cmd.touched \subseteq dirty
        /\ \A t \in Paths \ dirty : Files(g)[t] = Files(b)[t]
    BY <1>0, <1>1, <2>0 DEF CalmC, PushC, RestC, Resting
  <2>2. Between(disk, b, g)
    BY <2>1 DEF Follows, Between
  <2>3. InStep(b)'
    BY <1>0, <2>1 DEF InStep
  <2>4. PushC'
    BY <1>0, <2>1, <2>2, <2>3 DEF PushC, InStep
  <2>5. RecC'
    BY <1>0, <2>0, <2>2, RecBegins DEF RecC
  <2>6. RestC'
    BY <1>0, <1>1, <2>1 DEF RestC, Resting
  <2>7. StubC' /\ ExpandC' /\ CloneC' /\ PullC'
    BY <1>0, <1>1 DEF StubC, ExpandC, CloneC, PullC
  <2> QED  BY <2>4, <2>5, <2>6, <2>7 DEF CalmC
<1> QED  BY <1>0, <1>2 DEF Good

\* Push's publication of its root maps to LogicalTree and keeps the invariant.
LEMMA PushPublishGood ==
    ASSUME IInv, FromInv, RecInv, BlobInv, PushPublish, lost = {}, Calm => CalmC
    PROVE  Good
<1>0. /\ cmd.name = "push" /\ cmd.pc = "publish" /\ disk' = disk /\ disk \in Disks
      /\ UNCHANGED <<disk, cr, git, repo, edits, publishes, dirty, torn, lost>>
      /\ torn \in BOOLEAN /\ CmdOK(cmd)
  BY CmdRecord DEF PushPublish, Running, IInv, TypeOK
<1>1. cr = cmd.from /\ ~Reconciling
  BY <1>0 DEF FromInv, Reconciling
<1>2. CASE StopCmd /\ remote' = remote
  <2>1. ~LeavesTorn /\ Quiet
    BY <1>0, <1>2 DEF LeavesTorn, Quiet
  <2>2. Stops
    BY <1>0, <1>2, <2>1, StopShape
  <2>3. CASE Calm
    <3>1. Quietly
      BY <1>0, <2>3 DEF Quietly
    <3> QED  BY <1>0, <2>2, <3>1, StopGood
  <2>4. CASE ~Calm
    <3>1. torn /\ ~Calm'
      BY <1>0, <2>4 DEF Calm
    <3>2. Abort(disk') /\ cmd.name # "idle"
      BY <2>2 DEF Stops
    <3>3. LSTEP
      BY <1>0, <3>1, <3>2, MapAbandon
    <3> QED  BY <3>1, <3>3 DEF Good
  <2> QED  BY <2>3, <2>4
<1>3. CASE NotAdvanced /\ remote' = cmd.goal /\ Goto("root")
  <2>1. /\ cmd'.name = "push" /\ cmd'.pc = "root" /\ cmd'.seen = cmd.seen /\ cmd'.goal = cmd.goal
        /\ cmd'.from = cmd.from /\ cmd'.touched = cmd.touched
    BY <1>0, <1>3 DEF Goto, CmdOK
  <2>2. base = cr /\ base' = cr /\ doing = "push" /\ doing' = "push" /\ goal = Files(cmd.goal)
        /\ goal' = goal /\ Beside' = Beside
    <3>1. ~Reconciling'
      BY <2>1 DEF Reconciling
    <3>2. base = cr /\ base' = cr
      BY <1>0, <1>1, <3>1 DEF base
    <3>3. doing = "push" /\ doing' = "push" /\ goal = Files(cmd.goal) /\ goal' = goal
      BY <1>0, <2>1 DEF doing, goal
    <3>4. Beside' = Beside
      BY <2>1 DEF Beside
    <3> QED  BY <3>2, <3>3, <3>4
  <2>3. LSTEP
    <3>1. CASE remote = cmd.goal
      BY <1>0, <1>3, <2>2, <3>1 DEF LSTEP, Abstract!vars
    <3>2. CASE remote = cr
      <4>1. \A t \in Paths \ dirty : torn \/ Files(cmd.goal)[t] = Files(cr)[t]
        BY <1>0, <1>1 DEF CalmC, PushC, Calm
      <4>2. Abstract!Publish
        BY <1>0, <1>3, <2>2, <3>2, <4>1 DEF Abstract!Publish
      <4> QED  BY <4>2 DEF LSTEP, Abstract!Next
    <3> QED  BY <1>3, <3>1, <3>2 DEF NotAdvanced
  <2>4. ASSUME Calm' PROVE CalmC'
    <3>1. Calm /\ CalmC
      BY <1>0, <2>4 DEF Calm
    <3>2. /\ Follows(disk, cr) /\ InStep(cr) /\ cmd.touched \subseteq dirty
          /\ repo = "none" => cr = AbsentEntry /\ InPlace(disk) \subseteq dirty
          /\ \A t \in Paths \ dirty : Files(cmd.goal)[t] = Files(cmd.from)[t]
      BY <1>0, <3>1 DEF CalmC, RestC, Resting, PushC
    <3>3. RestC'
      BY <1>0, <2>1, <3>2 DEF RestC, InStep
    <3>4. PushC'
      BY <1>0, <2>1, <3>2 DEF PushC, Reconciling
    <3>5. StubC' /\ ExpandC' /\ CloneC' /\ PullC' /\ RecC'
      BY <2>1 DEF StubC, ExpandC, CloneC, PullC, RecC, Reconciling
    <3> QED  BY <3>3, <3>4, <3>5 DEF CalmC
  <2> QED  BY <2>3, <2>4 DEF Good
<1> QED  BY <1>2, <1>3 DEF PushPublish

\* What reconciliation leaves when it is done: every marker left stands for a
\* file of the new root, whatever had been torn before.
LEMMA RecDone ==
    ASSUME IInv, RecInv, BlobInv, Reconciling, cmd.todo = {}
    PROVE  Follows(disk, cr)
<1> DEFINE g == cmd.goal
<1>0. /\ disk \in Disks /\ cr = g /\ g \in Entries /\ cmd.name \in {"pull", "push"}
      /\ disk.stub[P] \in {None, g.c[P]}
      /\ disk.dirstub # None => disk.dirstub = Children(g) /\ g.kind = "tree"
      /\ \A n \in Names : disk.stub[n] \in {None, g.c[n]} \/ g.kind = "blob"
  BY DEF RecInv, Reconciling, IInv, TypeOK
<1>1. g.kind = "blob" => NoInner(disk)
  BY <1>0 DEF BlobInv
<1>2. \A n \in Names : disk.stub[n] \in {None, g.c[n]}
  BY <1>0, <1>1 DEF NoInner
<1>3. \A t \in Paths : t = P \/ t \in Names
  BY Constants
<1> QED  BY <1>0, <1>2, <1>3 DEF Follows

\* The end of a push or a pull maps to LogicalTree and leaves the tree at rest, also a torn one.
LEMMA SyncEndGood ==
    ASSUME IInv, RecInv, BlobInv, SyncEnd, lost = {}, Calm => CalmC
    PROVE  Good
<1> DEFINE g == cmd.goal
<1>0. /\ Reconciling /\ cmd.todo = {} /\ cmd' = Idle /\ disk' = disk /\ repo # "none"
      /\ dirty' = (dirty \cup Beside) \cap OutOfStep
      /\ torn' = (torn /\ ~(OutOfStep \subseteq dirty \cup Beside))
      /\ UNCHANGED <<cr, remote, repo, edits, publishes, lost>>
      /\ disk \in Disks /\ torn \in BOOLEAN /\ dirty \subseteq Paths /\ Beside \subseteq Paths
      /\ cmd.name \in {"pull", "push"} /\ cr = g
  BY DEF SyncEnd, StopCmd, IInv, TypeOK, PlaceInv, Reconciling, Beside, RecInv
<1>1. Calm => OutOfStep \subseteq dirty \cup Beside
  <2>1. ASSUME Calm, NEW t \in Paths \ (dirty \cup Beside) PROVE Scanned(disk)[t] = Files(cr)[t]
    <3>1. CASE cmd.name = "pull"
      <4>1. At(g, t) \/ PendR(t)
        BY <1>0, <2>1, <3>1 DEF CalmC, PullC, MovedC, Mine, Reconciling
      <4> QED  BY <1>0, <4>1 DEF PendR, At
    <3>2. CASE cmd.name = "push"
      <4>1. InStep(cmd.from) /\ Files(g)[t] = Files(cmd.from)[t]
        BY <1>0, <2>1, <3>2 DEF CalmC, PushC
      <4> QED  BY <1>0, <2>1, <4>1 DEF InStep
    <3> QED  BY <1>0, <3>1, <3>2
  <2> QED  BY <2>1 DEF OutOfStep
<1>2. doing' = "none" /\ goal' = Abstract!NoGoal /\ Beside' = {} /\ base' = cr
  BY <1>0, EndsView
<1>3. doing \in {"pull", "push"} /\ goal = Files(cr)
  BY <1>0 DEF doing, goal
<1>4. torn' \/ OutOfStep \subseteq dirty \cup Beside
  BY <1>0, <1>1 DEF Calm
<1>5. torn' \/ \A t \in Paths \ (dirty \cup Beside) : Scanned(disk)[t] = Files(cr)[t]
  BY <1>4 DEF OutOfStep
<1>6. dirty' = {t \in dirty \cup Beside : Scanned(disk)[t] # Files(cr)[t]}
  BY <1>0 DEF OutOfStep
<1>7. torn' \in {torn, FALSE}
  BY <1>0
<1>8. Abstract!Finish
  BY <1>0, <1>2, <1>3, <1>5, <1>6, <1>7 DEF Abstract!Finish
<1>9. LSTEP
  BY <1>8 DEF LSTEP, Abstract!Next
<1>10. ASSUME Calm' PROVE CalmC'
  <2>1. OutOfStep \subseteq dirty \cup Beside
    BY <1>4, <1>10 DEF Calm
  <2>2. \A t \in Paths \ dirty' : Scanned(disk)[t] = Files(cr)[t]
    BY <1>0, <2>1 DEF OutOfStep
  <2>3. Follows(disk, cr)
    BY <1>0, RecDone
  <2> QED  BY <1>0, <2>2, <2>3, EndCalm
<1> QED  BY <1>9, <1>10 DEF Good

\* Another clone publishes.
LEMMA OtherPublishesGood ==
    ASSUME IInv, OtherPublishes
    PROVE  LSTEP /\ (CalmC => CalmC')
<1>1. /\ UNCHANGED <<disk, cr, git, repo, cmd, edits, dirty, torn, lost>>
      /\ publishes' = publishes + 1 /\ remote' \in Entries
  BY DEF OtherPublishes
<1>2. base' = base /\ doing' = doing /\ goal' = goal /\ Beside' = Beside
  <2>1. Reconciling' = Reconciling
    BY <1>1 DEF Reconciling
  <2> QED  BY <1>1, <2>1 DEF base, doing, goal, Beside
<1>3. Files(remote)' \in Abstract!Trees
  BY <1>1, FilesParts DEF Abstract!Trees
<1>4. Abstract!OtherPublishes
  BY <1>1, <1>2, <1>3 DEF Abstract!OtherPublishes
<1>5. LSTEP
  BY <1>4 DEF LSTEP, Abstract!Next
<1>6. ASSUME CalmC PROVE CalmC'
  <2>1. Reconciling' = Reconciling /\ Resting' = Resting /\ WholeDir' = WholeDir
    BY <1>1 DEF Reconciling, Resting, WholeDir
  <2>2. RestC'
    BY <1>1, <1>6, <2>1 DEF CalmC, RestC, InStep
  <2>3. StubC' /\ CloneC' /\ RecC'
    BY <1>1, <1>6, <2>1 DEF CalmC, StubC, CloneC, RecC, InStep
  <2>4. ExpandC' /\ PushC'
    BY <1>1, <1>6, <2>1 DEF CalmC, ExpandC, Written, PushC, InStep
  <2>5. PullC'
    <3>1. Mine' = Mine /\ Apart' = Apart /\ LinkC' = LinkC
      BY <1>1 DEF Mine, Apart, LinkC, Beside
    <3>2. DeletesC' = DeletesC /\ WritesC' = WritesC /\ MovedC' = MovedC
      BY <1>1 DEF DeletesC, WritesC, MovedC, Mine, Beside, At, Pend, PendR, Deleted, AddsTree, Planned
    <3> QED  BY <1>1, <1>6, <3>1, <3>2 DEF CalmC, PullC
  <2> QED  BY <2>2, <2>3, <2>4, <2>5 DEF CalmC
<1> QED  BY <1>5, <1>6

----------------------------------------------------------------------------
(* The user again: what is known of a running command survives an edit.    *)

\* What an edit leaves of the tree, and of the command that runs.
Leaves ==
    /\ disk \in Disks /\ disk' \in Disks /\ dirty \subseteq dirty'
    /\ \A t \in Paths : disk'.stub[t] \in {disk.stub[t], None}
    /\ disk'.dirstub \in {disk.dirstub, None}
    /\ disk'.dirstub # disk.dirstub => Paths \subseteq dirty' /\ (cmd.name # "idle" => cmd'.touched # {})
    /\ \A t \in Paths \ dirty' :
         /\ Scanned(disk')[t] = Scanned(disk)[t]
         /\ disk'.real[t] = disk.real[t] /\ disk'.stub[t] = disk.stub[t]
    /\ P \notin dirty' => disk'.kind = disk.kind
    /\ disk'.kind # disk.kind /\ disk'.kind # "absent" => Paths \subseteq dirty'
    /\ disk'.kind = "link" => disk.kind = "link"
    /\ cmd.name # "idle" =>
         /\ disk'.stub[P] = disk.stub[P] /\ cmd.touched \subseteq cmd'.touched
         /\ \A t \in Paths : t \in cmd'.touched \/ disk'.stub[t] = disk.stub[t]
    /\ cmd.touched \subseteq dirty => cmd'.touched \subseteq dirty'
Same ==
    /\ cmd'.name = cmd.name /\ cmd'.pc = cmd.pc /\ cmd'.at = cmd.at
    /\ cmd'.todo = cmd.todo /\ cmd'.seen = cmd.seen /\ cmd'.goal = cmd.goal
    /\ cmd'.plan = cmd.plan /\ cmd'.removed = cmd.removed /\ cmd'.from = cmd.from
    /\ UNCHANGED <<cr, repo>> /\ cmd.pc # "delete"

\* An edit of the user writes no marker and leaves every unedited path as it is.
LEMMA UserLeaves ==
    ASSUME IInv, User
    PROVE  Leaves /\ Same /\ UNCHANGED <<lost, torn>>
<1> DEFINE T == Touched(disk, disk')
<1>1. /\ UserEdits(disk') /\ disk' \in Disks /\ disk \in Disks /\ Edits(disk, disk', T)
      /\ cmd.name # "idle" => disk'.stub[P] = disk.stub[P]
      /\ T \subseteq Paths
  BY UserEffect, TouchedParts DEF IInv, TypeOK
<1>2. /\ cmd.name # "idle" => cmd'.touched = cmd.touched \cup T
      /\ cmd.name = "idle" => cmd'.touched = {}
      /\ dirty' = dirty \cup T
  BY <1>1, UserCmd
<1>3. Same /\ UNCHANGED <<lost, torn>>
  BY <1>1, UserCmd DEF Same
<1> HIDE DEF T
<1>4. Leaves
  <2>1. /\ \A t \in Paths : disk'.stub[t] \in {disk.stub[t], None}
        /\ disk'.dirstub \in {disk.dirstub, None}
        /\ disk'.kind = "link" => disk.kind = "link"
    BY <1>1 DEF Edits
  <2>2. disk'.dirstub # disk.dirstub => Paths \subseteq dirty' /\ (cmd.name # "idle" => cmd'.touched # {})
    BY <1>1, <1>2, Constants DEF Edits
  <2>3. \A t \in Paths \ dirty' :
          /\ Scanned(disk')[t] = Scanned(disk)[t]
          /\ disk'.real[t] = disk.real[t] /\ disk'.stub[t] = disk.stub[t]
    BY <1>1, <1>2 DEF Edits
  <2>4. P \notin dirty' => disk'.kind = disk.kind
    BY <1>1, <1>2 DEF Edits
  <2>5. disk'.kind # disk.kind /\ disk'.kind # "absent" => Paths \subseteq dirty'
    BY <1>1, <1>2 DEF Edits
  <2>6. cmd.name # "idle" => \A t \in Paths : t \in cmd'.touched \/ disk'.stub[t] = disk.stub[t]
    BY <1>1, <1>2 DEF Edits
  <2>7. cmd.touched \subseteq dirty => cmd'.touched \subseteq dirty'
    BY <1>2
  <2>8. dirty \subseteq dirty' /\ (cmd.name # "idle" => cmd.touched \subseteq cmd'.touched)
    BY <1>2
  <2> QED  BY <1>1, <2>1, <2>2, <2>3, <2>4, <2>5, <2>6, <2>7, <2>8 DEF Leaves
<1> QED  BY <1>3, <1>4

\* The paths in place stay the user's.
LEMMA LeavesInPlace ==
    ASSUME Leaves, InPlace(disk) \subseteq dirty
    PROVE  InPlace(disk') \subseteq dirty'
<1>1. ASSUME NEW t \in InPlace(disk'), t \notin dirty' PROVE FALSE
  <2>1. t \in Paths /\ disk'.kind # "absent"
    BY <1>1, Constants DEF InPlace
  <2>2. disk'.kind = disk.kind
    BY <1>1, <2>1 DEF Leaves
  <2>3. disk'.real[t] = disk.real[t] /\ t \notin dirty
    BY <1>1, <2>1 DEF Leaves
  <2>4. t \in InPlace(disk)
    BY <1>1, <2>2, <2>3 DEF InPlace
  <2> QED  BY <2>3, <2>4
<1> QED  BY <1>1

\* Such an edit leaves every marker standing for a file of the same root.
LEMMA LeavesFollows ==
    ASSUME Leaves, NEW e
    PROVE  Follows(disk, e) => Follows(disk', e)
  BY DEF Leaves, Follows

\* Such an edit leaves every marker standing for a file of the same two roots.
LEMMA LeavesBetween ==
    ASSUME Leaves, NEW b, NEW g
    PROVE  Between(disk, b, g) => Between(disk', b, g)
  BY DEF Leaves, Between

\* An edit takes paths from a pull, and changes nothing of those it leaves it.
LEMMA LeavesMine ==
    ASSUME Leaves, Same
    PROVE  /\ Mine' \subseteq Mine
           /\ \A t \in Mine' : /\ Scanned(disk')[t] = Scanned(disk)[t]
                               /\ disk'.real[t] = disk.real[t] /\ disk'.stub[t] = disk.stub[t]
                               /\ disk'.dirstub = disk.dirstub /\ t \in Paths
                               /\ t = P => disk'.kind = disk.kind
                               /\ IsFile(disk', t) = IsFile(disk, t)
<1>1. Beside' = Beside
  BY DEF Same, Beside
<1>2. Mine' = Paths \ (dirty' \cup Beside)
  BY <1>1 DEF Mine
<1>3. Mine' \subseteq Mine
  BY <1>2 DEF Mine, Leaves
<1>4. ASSUME NEW t \in Mine'
      PROVE  /\ Scanned(disk')[t] = Scanned(disk)[t]
             /\ disk'.real[t] = disk.real[t] /\ disk'.stub[t] = disk.stub[t]
             /\ disk'.dirstub = disk.dirstub /\ t \in Paths
             /\ t = P => disk'.kind = disk.kind
  <2>1. t \in Paths /\ t \notin dirty'
    BY <1>2, <1>4
  <2>2. disk'.dirstub = disk.dirstub
    BY <2>1 DEF Leaves
  <2> QED  BY <2>1, <2>2 DEF Leaves
<1>5. ASSUME NEW t \in Mine' PROVE IsFile(disk', t) = IsFile(disk, t)
  <2>1. disk'.real[t] = disk.real[t] /\ (t = P => disk'.kind = disk.kind)
    BY <1>4, <1>5
  <2> QED  BY <2>1 DEF IsFile
<1> QED  BY <1>3, <1>4, <1>5

\* Such an edit takes nothing from the progress of a pull.
LEMMA UserPull ==
    ASSUME Leaves, Same, PullC, cmd.name = "pull"
    PROVE  PullC'
<1>1. /\ Mine' \subseteq Mine
      /\ \A t \in Mine' : /\ Scanned(disk')[t] = Scanned(disk)[t]
                          /\ disk'.real[t] = disk.real[t] /\ disk'.stub[t] = disk.stub[t]
                          /\ disk'.dirstub = disk.dirstub /\ t \in Paths
                          /\ t = P => disk'.kind = disk.kind
                          /\ IsFile(disk', t) = IsFile(disk, t)
  BY LeavesMine
<1>2. disk'.stub[P] = disk.stub[P] /\ dirty \subseteq dirty'
  BY DEF Leaves
<1>3. /\ Follows(cmd.seen, cmd.from) /\ Apart /\ LinkC
  BY DEF PullC
<1>4. Apart'
  BY <1>1, <1>2, <1>3 DEF Apart
<1>5. LinkC'
  <2>1. /\ cmd.seen.kind = "link" /\ cmd.plan[P] \notin {"same", "link"} => cmd.from.kind = "link"
        /\ cmd.pc # "reconcile" /\ disk'.kind = "link" =>
              cmd.seen.kind = "link" \/ cmd.goal.kind = "link"
    BY <1>3 DEF LinkC, Leaves
  <2>2. cmd.plan[P] = "link" /\ cmd.pc # "reconcile" /\ (cmd.pc = "writes" => P \in cmd.todo)
         => (Exists(cmd.seen, P) /\ ~Exists(disk', P) => P \in dirty' \cup cmd.removed)
    <3>1. P \notin dirty' => disk'.kind = disk.kind
      BY DEF Leaves
    <3>2. P \notin dirty' /\ ~Exists(disk', P) => ~Exists(disk, P)
      BY <3>1 DEF Exists
    <3> QED  BY <1>2, <1>3, <3>2 DEF LinkC
  <2> QED  BY <2>1, <2>2 DEF LinkC, Same
<1>6. \A e : \A t \in Mine' : Scanned(disk)[t] = Files(e)[t] => Scanned(disk')[t] = Files(e)[t]
  BY <1>1
<1>7. \A t \in Mine' : Pend(t) => Pend(t)'
  BY <1>1, <1>2 DEF Pend
<1>8. \A t \in Mine' : PendR(t) => PendR(t)'
  BY <1>1, <1>2 DEF PendR, Same
<1>9. \A t \in Mine' : /\ At(cmd.from, t) => At(cmd.from, t)'
                       /\ At(cmd.goal, t) => At(cmd.goal, t)'
  BY <1>6 DEF At, Same
<1>10. ASSUME cmd.pc = "deletes" PROVE Follows(disk, cmd.from)' /\ DeletesC'
  <2>1. Follows(disk, cmd.from) /\ DeletesC
    BY <1>10 DEF PullC
  <2>2. \A t \in Paths : Deleted(t)' = Deleted(t)
    BY DEF Deleted, Same
  <2>3. Planned({"deleted"})' = Planned({"deleted"})
    BY DEF Planned, Same
  <2>4. Follows(disk, cmd.from)'
    BY <2>1, LeavesFollows DEF Same
  <2>5. cmd'.removed \subseteq Planned({"deleted"})'
    BY <2>1, <2>3 DEF DeletesC, Same
  <2>6. ASSUME NEW t \in Mine'
        PROVE  /\ At(cmd.from, t)' \/ (Deleted(t)' /\ At(cmd.goal, t)')
               /\ Deleted(t)' => At(cmd.goal, t)' \/ Pend(t)'
    <3>1. t \in Mine /\ t \in Paths
      BY <1>1, <2>6
    <3>2. /\ At(cmd.from, t) \/ (Deleted(t) /\ At(cmd.goal, t))
          /\ Deleted(t) => At(cmd.goal, t) \/ Pend(t)
      BY <2>1, <3>1 DEF DeletesC
    <3> QED  BY <1>7, <1>9, <2>2, <2>6, <3>1, <3>2
  <2> QED  BY <2>4, <2>5, <2>6 DEF DeletesC
<1>11. ASSUME cmd.pc = "writes" PROVE Between(disk, cmd.from, cmd.goal)' /\ WritesC'
  <2>1. Between(disk, cmd.from, cmd.goal) /\ WritesC
    BY <1>11 DEF PullC
  <2>2. Between(disk, cmd.from, cmd.goal)'
    BY <2>1, LeavesBetween DEF Same
  <2>3. AddsTree' = AddsTree
    BY DEF AddsTree, Same
  <2>4. cmd'.todo \subseteq Planned({"added", "modified", "emptydir", "link", "tree"})'
    BY <2>1 DEF WritesC, Planned, Same
  <2>5. AddsTree' => \A n \in Names \cap Mine' : Scanned(disk')[n] = None
    BY <1>1, <2>1, <2>3 DEF WritesC
  <2>6. \A t \in Mine' : At(cmd.goal, t)' \/ Pend(t)' \/ t \in cmd'.todo \/ AddsTree'
    <3>1. ASSUME NEW t \in Mine' PROVE At(cmd.goal, t)' \/ Pend(t)' \/ t \in cmd'.todo \/ AddsTree'
      <4>1. At(cmd.goal, t) \/ Pend(t) \/ t \in cmd.todo \/ AddsTree
        BY <1>1, <2>1, <3>1 DEF WritesC
      <4>2. cmd'.todo = cmd.todo
        BY DEF Same
      <4> QED  BY <1>7, <1>9, <2>3, <3>1, <4>1, <4>2
    <3> QED  BY <3>1
  <2> QED  BY <2>2, <2>4, <2>5, <2>6 DEF WritesC
<1>12. ASSUME cmd.pc = "reconcile" PROVE Between(disk, cmd.from, cmd.goal)' /\ MovedC'
  <2>1. Between(disk, cmd.from, cmd.goal) /\ MovedC
    BY <1>12 DEF PullC
  <2>2. Between(disk, cmd.from, cmd.goal)'
    BY <2>1, LeavesBetween DEF Same
  <2>3. cmd'.todo = cmd.todo
    BY DEF Same
  <2>4. \A t \in Mine' : At(cmd.goal, t)' \/ PendR(t)'
    BY <1>1, <1>8, <1>9, <2>1 DEF MovedC
  <2>5. \A n \in Names \cap Mine' : n \in cmd'.todo => disk'.real[n] = None
    BY <1>1, <2>1, <2>3 DEF MovedC
  <2> QED  BY <2>2, <2>4, <2>5 DEF MovedC
<1>13. cmd.pc = "verify" => cmd'.removed = {}
  BY DEF PullC, Same
<1>14. Follows(cmd.seen, cmd.from)'
  BY <1>3 DEF Same
<1>15. cmd'.pc = cmd.pc
  BY DEF Same
<1> QED  BY <1>4, <1>5, <1>10, <1>11, <1>12, <1>13, <1>14, <1>15 DEF PullC

\* An edit of the user keeps the invariant, whatever command is running.
LEMMA UserCalm ==
    ASSUME IInv, CalmC, User
    PROVE  CalmC'
<1>0. Leaves /\ Same
  BY UserLeaves
<1>s. Reconciling' = Reconciling /\ Resting' = Resting /\ WholeDir' = WholeDir
  BY <1>0 DEF Same, Reconciling, Resting, WholeDir
<1>e. \A e : InStep(e) => \A t \in Paths \ dirty' : Scanned(disk')[t] = Files(e)[t]
  BY <1>0 DEF Leaves, InStep
<1>n. P \in Paths /\ \A n \in Names : n \in Paths
  BY Constants
<1>1. RestC'
  <2>1. cmd'.touched \subseteq dirty'
    BY <1>0 DEF CalmC, RestC, Leaves
  <2>2. Resting => Follows(disk, cr)' /\ InStep(cr)'
    <3>1. Resting => Follows(disk, cr) /\ InStep(cr)
      BY DEF CalmC, RestC
    <3>2. Follows(disk, cr) => Follows(disk, cr)'
      BY <1>0, LeavesFollows DEF Same
    <3>3. InStep(cr) => InStep(cr)'
      BY <1>0, <1>e DEF Same, InStep
    <3> QED  BY <3>1, <3>2, <3>3
  <2>3. repo = "none" => cr = AbsentEntry /\ InPlace(disk)' \subseteq dirty'
    BY <1>0, LeavesInPlace DEF CalmC, RestC
  <2>4. cmd.name = "clone" => cr = AbsentEntry
    BY DEF CalmC, RestC
  <2> QED  BY <1>0, <1>s, <2>1, <2>2, <2>3, <2>4 DEF RestC, Same
<1>2. StubC'
  <2>1. ASSUME cmd.name = "stub", WholeDir
        PROVE  /\ cr.kind = "tree"
               /\ cmd.pc \in {"verify", "mark"} => disk'.dirstub = None
               /\ cmd.pc = "check" => /\ disk'.dirstub = Children(cr) \/ cmd'.touched # {}
                                      /\ \A n \in Names \ dirty' : cr.c[n] # None =>
                                            disk'.real[n] # None \/ disk'.stub[n] # None
    <3>1. /\ cr.kind = "tree"
          /\ cmd.pc \in {"verify", "mark"} => disk.dirstub = None
          /\ cmd.pc = "check" => /\ disk.dirstub = Children(cr) \/ cmd.touched # {}
                                 /\ \A n \in Names \ dirty : cr.c[n] # None =>
                                       disk.real[n] # None \/ disk.stub[n] # None
      BY <2>1 DEF CalmC, StubC
    <3>2. cmd.touched # {} => cmd'.touched # {}
      BY <1>0, <2>1 DEF Leaves
    <3>3. disk'.dirstub = disk.dirstub \/ (disk'.dirstub = None /\ cmd'.touched # {})
      BY <1>0, <2>1 DEF Leaves
    <3>4. \A n \in Names \ dirty' : n \notin dirty /\ disk'.real[n] = disk.real[n]
                                    /\ disk'.stub[n] = disk.stub[n]
      BY <1>0, <1>n DEF Leaves
    <3> QED  BY <3>1, <3>2, <3>3, <3>4
  <2>2. ASSUME cmd.name = "stub", ~WholeDir
        PROVE  /\ cr.c[cmd.at] # None
               /\ cmd.pc = "check" => \/ disk'.stub[cmd.at] = cr.c[cmd.at]
                                      \/ cmd.at \in cmd'.touched
    <3>1. /\ cr.c[cmd.at] # None
          /\ cmd.pc = "check" => \/ disk.stub[cmd.at] = cr.c[cmd.at]
                                 \/ cmd.at \in cmd.touched
      BY <2>2 DEF CalmC, StubC
    <3>2. cmd.at \in Paths
      BY <2>2 DEF IInv, StubInv
    <3> QED  BY <1>0, <2>2, <3>1, <3>2 DEF Leaves
  <2>3. cmd.pc # "delete" /\ cmd'.pc = cmd.pc /\ cmd'.name = cmd.name /\ cmd'.at = cmd.at /\ cr' = cr
    BY <1>0 DEF Same
  <2> QED  BY <1>s, <2>1, <2>2, <2>3 DEF StubC
<1>3. ExpandC'
  <2>1. \A left : Written(left) => \A n \in StubNames(cmd.seen.dirstub) \ (dirty' \cup left) :
                                      disk'.real[n] # None \/ disk'.stub[n] # None
    <3>1. \A n \in Names \ dirty' : n \notin dirty /\ disk'.real[n] = disk.real[n]
                                    /\ disk'.stub[n] = disk.stub[n]
      BY <1>0, <1>n DEF Leaves
    <3> QED  BY <3>1 DEF Written, StubNames
  <2>2. /\ Written(cmd.todo) => Written(cmd.todo)'
        /\ Written(cmd.removed) => Written(cmd.removed)'
    BY <1>0, <2>1 DEF Written, Same
  <2> QED  BY <1>0, <2>2 DEF CalmC, ExpandC, Same
<1>4. CloneC'
  <2>1. ASSUME cmd.name = "clone", cmd.pc = "entry"
        PROVE  Listed(disk)' = {} /\ InPlace(disk)' \subseteq dirty'
    <3>1. Listed(disk) = {} /\ InPlace(disk) \subseteq dirty
      BY <2>1 DEF CalmC, CloneC
    <3>2. \A t \in Paths : disk.stub[t] = None /\ disk.dirstub = None
      BY <3>1 DEF Listed
    <3>3. \A t \in Paths : disk'.stub[t] = None /\ disk'.dirstub = None
      BY <1>0, <3>2 DEF Leaves
    <3>4. Listed(disk') = {}
      BY <1>n, <3>3 DEF Listed
    <3> QED  BY <1>0, <3>1, <3>4, LeavesInPlace
  <2>2. ASSUME cmd.name = "clone", cmd.pc = "children"
        PROVE  /\ cmd.goal.kind = "tree" /\ disk'.dirstub = None
               /\ \A t \in Paths \ (dirty' \cup cmd.todo) : Scanned(disk')[t] = Files(cmd.goal)[t]
               /\ \A n \in cmd.todo \ dirty' : disk'.real[n] = None
    <3>1. /\ cmd.goal.kind = "tree" /\ disk.dirstub = None
          /\ \A t \in Paths \ (dirty \cup cmd.todo) : Scanned(disk)[t] = Files(cmd.goal)[t]
          /\ \A n \in cmd.todo \ dirty : disk.real[n] = None
      BY <2>2 DEF CalmC, CloneC
    <3>2. cmd.todo \subseteq Paths
      BY <1>n, <2>2 DEF IInv, CloneInv
    <3>3. \A t \in Paths \ dirty' : t \notin dirty /\ Scanned(disk')[t] = Scanned(disk)[t]
                                    /\ disk'.real[t] = disk.real[t]
      BY <1>0 DEF Leaves
    <3>4. disk'.dirstub = None
      BY <1>0, <3>1 DEF Leaves
    <3> QED  BY <3>1, <3>2, <3>3, <3>4
  <2>3. ASSUME cmd.name = "clone", cmd.pc = "root" PROVE InStep(cmd.goal)'
    <3>1. InStep(cmd.goal)
      BY <2>3 DEF CalmC, CloneC
    <3> QED  BY <1>0, <1>e, <3>1 DEF Same, InStep
  <2>4. cmd.name = "clone" => Follows(disk, cmd.goal)'
    BY <1>0, LeavesFollows DEF CalmC, CloneC, Same
  <2>5. cmd'.name = cmd.name /\ cmd'.pc = cmd.pc /\ cmd'.goal = cmd.goal /\ cmd'.todo = cmd.todo
    BY <1>0 DEF Same
  <2> QED  BY <2>1, <2>2, <2>3, <2>4, <2>5 DEF CloneC
<1>5. PushC'
  <2>1. ASSUME cmd.name = "push"
        PROVE  /\ \A t \in Paths \ dirty' : Files(cmd.goal)[t] = Files(cmd.from)[t]
               /\ Reconciling => Between(disk, cmd.from, cmd.goal)' /\ InStep(cmd.from)'
    <3>1. /\ \A t \in Paths \ dirty : Files(cmd.goal)[t] = Files(cmd.from)[t]
          /\ Reconciling => Between(disk, cmd.from, cmd.goal) /\ InStep(cmd.from)
      BY <2>1 DEF CalmC, PushC
    <3>2. Between(disk, cmd.from, cmd.goal) => Between(disk, cmd.from, cmd.goal)'
      BY <1>0, LeavesBetween DEF Same
    <3>3. InStep(cmd.from) => InStep(cmd.from)'
      BY <1>0, <1>e DEF Same, InStep
    <3>4. dirty \subseteq dirty'
      BY <1>0 DEF Leaves
    <3> QED  BY <3>1, <3>2, <3>3, <3>4
  <2>2. cmd'.name = cmd.name /\ cmd'.goal = cmd.goal /\ cmd'.from = cmd.from
    BY <1>0 DEF Same
  <2> QED  BY <1>s, <2>1, <2>2 DEF PushC
<1>6. RecC'
  <2>1. /\ disk'.dirstub = disk.dirstub \/ Paths \subseteq dirty'
        /\ dirty \subseteq dirty'
    BY <1>0 DEF Leaves
  <2> QED  BY <1>0, <1>s, <2>1 DEF CalmC, RecC, Same
<1>7. PullC'
  <2>1. CASE cmd.name = "pull"
    BY <1>0, <2>1, UserPull DEF CalmC
  <2>2. CASE cmd.name # "pull"
    BY <1>0, <2>2 DEF PullC, Same
  <2> QED  BY <2>1, <2>2
<1> QED  BY <1>1, <1>2, <1>3, <1>4, <1>5, <1>6, <1>7 DEF CalmC

----------------------------------------------------------------------------
(* What holds whatever has been torn or lost, step by step.                *)

\* Only the reconciliation itself goes on with a reconciliation.
LEMMA ReconcileGoesOn ==
    ASSUME IInv, Middle, Moves
    PROVE  /\ Reconciling => Reconcile
           /\ cmd.name = "push" => Reconcile
           /\ cmd.name = "pull" => Reconcile \/ PullMiddle
<1>1. (Stub /\ ~Starts) => cmd.name = "stub"
  BY DEF Stub, Starts, StubVerify, StubMark, StubCheck, StubChanged, StubDelete, Running
<1>2. (Expand /\ ~Starts) => cmd.name = "expand"
  BY DEF Expand, Starts, ExpandLower, ExpandDirChild, ExpandFile, ExpandLowerEnd, ExpandDirStart,
         ExpandDirEnd, ExpandEnd, Running
<1>3. CloneEntry \/ (\E n \in Names : CloneChild(n)) => cmd.name = "clone"
  BY DEF CloneEntry, CloneChild, Running
<1>4. PullMiddle => cmd.name = "pull" /\ cmd.pc # "reconcile"
  BY DEF PullMiddle, PullVerify, PullPrune, PullDelete, PullWrite, Running
<1>5. RestoreApply => cmd.name = "restore"
  BY DEF RestoreApply
<1>6. ~Crash
  <2>1. cmd'.name # "idle"
    BY DEF Moves
  <2> QED  BY <2>1 DEF Crash, Abort, StopCmd, Idle
<1> QED  BY <1>1, <1>2, <1>3, <1>4, <1>5, <1>6 DEF Middle, Reconciling

\* What the end of a command or of one of its parts leaves.
LEMMA EndShape ==
    ASSUME IInv, Ends
    PROVE  \/ cmd' = Idle
           \/ PullRoot \/ PushRoot
           \/ /\ PushPublish /\ cmd.name = "push" /\ cmd.pc = "publish" /\ cmd'.name = "push"
              /\ cmd'.pc = "root" /\ cmd'.goal = cmd.goal /\ cmd'.from = cmd.from
              /\ UNCHANGED <<disk, cr>>
  BY CmdRecord DEF Ends, CloneRoot, PushPublish, SyncEnd, RestoreEnd, StopCmd, Running, Goto, CmdOK

\* What begins a push or a pull, and nothing else does.
LEMMA StartShape ==
    ASSUME IInv, Starts
    PROVE  /\ cmd'.pc # "reconcile" /\ disk' = disk /\ cmd.name = "idle"
           /\ cmd'.name \in {"push", "pull"} =>
                cr' = cr /\ cmd'.from = cr /\ (PushStart \/ PullStart)
           /\ cmd'.name = "clone" => cmd'.seen = EmptyDisk
           /\ cmd'.name = "push" => cmd'.goal = Logical(disk)
           /\ cmd'.name = "pull" => /\ cmd'.pc = "verify" /\ cmd'.goal = remote
                                    /\ cmd'.plan = Diff(cr, remote, TRUE) /\ cmd'.plan # NoDiff
<1>1. ASSUME NEW t \in Paths, StubStart(t)
      PROVE  cmd'.pc = "verify" /\ disk' = disk /\ cmd.name = "idle" /\ cmd'.name = "stub"
  BY <1>1, BeginsWith DEF StubStart
<1>2. ASSUME NEW scope \in Paths \cup {Root}, ExpandStart(scope)
      PROVE  cmd'.pc \in {"items", "lower"} /\ disk' = disk /\ cmd.name = "idle" /\ cmd'.name = "expand"
  <2>1. CASE cmd' = [Idle EXCEPT !.name = "expand", !.pc = "items", !.at = Root,
                                 !.seen = disk, !.todo = ToExpand(disk, scope)]
    BY <1>2, <2>1, BeginsWith DEF ExpandStart
  <2>2. CASE cmd' = [Idle EXCEPT !.name = "expand", !.pc = "lower", !.at = scope,
                                 !.seen = disk, !.todo = StubNames(disk.dirstub)]
    BY <1>2, <2>2, BeginsWith DEF ExpandStart
  <2> QED  BY <1>2, <2>1, <2>2 DEF ExpandStart
<1>3. ASSUME NEW scope \in Paths \cup {Root}, RestoreStart(scope)
      PROVE  cmd'.pc \in {"apply", "offline"} /\ disk' = disk /\ cmd.name = "idle"
             /\ cmd'.name = "restore"
  BY <1>3, BeginsWith DEF RestoreStart
<1>4. ASSUME NEW force \in BOOLEAN, CloneStart(force)
      PROVE  cmd'.pc = "entry" /\ disk' = disk /\ cmd.name = "idle" /\ cmd'.name = "clone"
             /\ cmd'.seen = EmptyDisk
  BY <1>4, BeginsWith DEF CloneStart
<1>5. ASSUME PushStart
      PROVE  /\ cmd'.pc = "publish" /\ disk' = disk /\ cmd.name = "idle" /\ cmd'.name = "push"
             /\ cr' = cr /\ cmd'.from = cr /\ cmd'.goal = Logical(disk)
  BY <1>5, BeginsWith DEF PushStart, Quiet
<1>6. ASSUME PullStart
      PROVE  /\ disk' = disk /\ cmd.name = "idle"
             /\ \/ cmd' = cmd
                \/ /\ cmd'.name = "pull" /\ cmd'.pc = "verify" /\ cr' = cr /\ cmd'.from = cr
                   /\ cmd'.goal = remote /\ cmd'.plan = Diff(cr, remote, TRUE) /\ cmd'.plan # NoDiff
  <2>1. CASE cmd' = cmd /\ disk' = disk
    BY <1>6, <2>1 DEF PullStart
  <2>2. CASE /\ Diff(cr, remote, TRUE) # NoDiff /\ disk' = disk /\ Quiet
             /\ cmd' = [Idle EXCEPT !.name = "pull", !.pc = "verify", !.seen = disk,
                                    !.goal = remote, !.plan = Diff(cr, remote, TRUE), !.from = cr]
    <3>1. cmd'.name = "pull" /\ cmd'.pc = "verify" /\ cmd'.from = cr
          /\ cmd'.goal = remote /\ cmd'.plan = Diff(cr, remote, TRUE)
      BY <2>2, BeginsWith
    <3>2. cr' = cr /\ cmd.name = "idle"
      BY <1>6, <2>2 DEF Quiet, PullStart
    <3> QED  BY <2>2, <3>1, <3>2
  <2> QED  BY <1>6, <2>1, <2>2 DEF PullStart
<1>7. cmd' = cmd /\ cmd.name = "idle" => cmd'.pc = "idle" /\ cmd'.name = "idle"
  BY DEF IInv, PlaceInv, Idle
<1> QED  BY <1>1, <1>2, <1>3, <1>4, <1>5, <1>6, <1>7 DEF Starts

\* Every step keeps this: a push or pull works from clone_root until it has saved the new one.
LEMMA FromOn ==
    ASSUME IInv, FromInv, Next
    PROVE  FromInv'
<1>1. CASE Moves
  <2>1. cmd'.name = cmd.name /\ cmd'.from = cmd.from /\ cmd'.seen = cmd.seen /\ cr' = cr
        /\ Reconciling' = Reconciling
    BY <1>1, MovesView DEF Moves
  <2> QED  BY <2>1 DEF FromInv
<1>2. CASE cmd' = Idle
  BY <1>2 DEF FromInv, Idle
<1>3. CASE Stops
  BY <1>2, <1>3 DEF Stops, Abort, StopCmd
<1>4. CASE Starts
  <2>1. /\ cmd'.name \in {"push", "pull"} => cmd'.from = cr' /\ cr' = cr
        /\ cmd'.name = "clone" => cmd'.seen = EmptyDisk
    BY <1>4, StartShape
  <2> QED  BY <2>1 DEF FromInv
<1>5. CASE Ends
  <2>1. CASE PullRoot \/ PushRoot
    <3>1. Reconciling' /\ cmd'.name = cmd.name /\ cmd.name \in {"pull", "push"}
      BY <2>1, RootMoves
    <3> QED  BY <3>1 DEF FromInv
  <2>2. CASE cmd.name = "push" /\ cmd.pc = "publish" /\ cmd'.name = "push" /\ cmd'.pc = "root"
             /\ cmd'.goal = cmd.goal /\ cmd'.from = cmd.from /\ UNCHANGED <<disk, cr>>
    BY <2>2 DEF FromInv, Reconciling
  <2> QED  BY <1>2, <1>5, <2>1, <2>2, EndShape
<1>6. CASE User
  <2>1. Same
    BY <1>6, UserLeaves
  <2> QED  BY <2>1 DEF FromInv, Same, Reconciling
<1>7. CASE OtherPublishes
  BY <1>7 DEF OtherPublishes, FromInv, Reconciling
<1> QED  BY <1>1, <1>3, <1>4, <1>5, <1>6, <1>7, NextShape, MiddleShape

\* Every step keeps what a reconciliation has settled, in a torn tree too.
LEMMA RecOnStep ==
    ASSUME IInv, FromInv, RecInv, Next
    PROVE  RecInv'
<1>1. CASE Moves /\ Middle
  <2>1. CASE ~Reconciling
    <3>1. ~Reconciling'
      BY <1>1, <2>1, MovesView
    <3> QED  BY <3>1 DEF RecInv
  <2>2. CASE Reconciling
    <3>1. Reconcile
      BY <1>1, <2>2, ReconcileGoesOn
    <3>2. RecOn(disk', cmd'.todo, cmd.goal)
      BY <1>1, <3>1, ReconcileOn
    <3>3. cr' = cmd'.goal /\ cmd'.goal = cmd.goal
      BY <1>1, <2>2 DEF RecInv, Moves
    <3> QED  BY <3>2, <3>3 DEF RecInv, RecOn
  <2> QED  BY <2>1, <2>2
<1>2. CASE cmd' = Idle
  BY <1>2 DEF RecInv, Reconciling, Idle
<1>3. CASE Stops
  BY <1>2, <1>3 DEF Stops, Abort, StopCmd
<1>4. CASE Starts
  <2>1. cmd'.pc # "reconcile"
    BY <1>4, StartShape
  <2> QED  BY <2>1 DEF RecInv, Reconciling
<1>5. CASE Ends
  <2>1. CASE PullRoot \/ PushRoot
    <3>1. cmd'.todo = Listed(disk) /\ cmd'.goal = cmd.goal /\ cr' = cmd.goal /\ disk' = disk
      BY <2>1, RootMoves
    <3>2. /\ \A t \in Paths : t \in Listed(disk) <=> disk.stub[t] # None
          /\ DirStub \in Listed(disk) <=> disk.dirstub # None
      BY ListedStubs DEF IInv, TypeOK
    <3> QED  BY <3>1, <3>2, Constants DEF RecInv
  <2>2. CASE cmd'.pc = "root"
    BY <2>2 DEF RecInv, Reconciling
  <2> QED  BY <1>2, <1>5, <2>1, <2>2, EndShape
<1>6. CASE User
  <2>1. Leaves /\ Same
    BY <1>6, UserLeaves
  <2>2. ASSUME Reconciling'
        PROVE  /\ cr' = cmd'.goal
               /\ P \in cmd'.todo => disk'.stub[P] # None
               /\ P \notin cmd'.todo => disk'.stub[P] \in {None, cmd'.goal.c[P]}
               /\ DirStub \notin cmd'.todo /\ disk'.dirstub # None =>
                     disk'.dirstub = Children(cmd'.goal) /\ cmd'.goal.kind = "tree"
               /\ \A n \in Names \ cmd'.todo : \/ disk'.stub[n] \in {None, cmd'.goal.c[n]}
                                               \/ cmd'.goal.kind = "blob"
    <3>1. /\ cr' = cr /\ cmd'.goal = cmd.goal /\ cmd'.todo = cmd.todo /\ Reconciling
          /\ cmd.name # "idle"
      BY <2>1, <2>2 DEF Same, Reconciling
    <3>2. disk'.stub[P] = disk.stub[P] /\ disk'.dirstub \in {disk.dirstub, None}
          /\ \A n \in Names : disk'.stub[n] \in {disk.stub[n], None}
      BY <2>1, <3>1, Constants DEF Leaves
    <3> QED  BY <3>1, <3>2 DEF RecInv
  <2> QED  BY <2>2 DEF RecInv
<1>7. CASE OtherPublishes
  BY <1>7 DEF OtherPublishes, RecInv, Reconciling
<1> QED  BY <1>1, <1>3, <1>4, <1>5, <1>6, <1>7, NextShape, MiddleShape

\* Where there is no directory there is no marker in one.
LEMMA NoDirNoInner ==
    ASSUME NEW d \in Disks, d.kind # "dir"
    PROVE  NoInner(d) /\ d.dirstub = None
  BY DiskParts DEF NoInner

\* A file that becomes P's meets no directory.
LEMMA BlobWrite ==
    ASSUME IInv, Moves, cmd.name = "pull", cmd.pc = "writes", cmd.goal.kind = "blob",
           cmd.plan[P] \in {"added", "modified"}, PullWrite(P)
    PROVE  NoInner(disk') \/ disk'.dirstub # None
<1>0. disk \in Disks /\ P \in Paths /\ cmd.goal.c[P] \in Content
  BY EntryParts, Constants DEF IInv, TypeOK
<1>f. ~Fail
  BY DEF Moves, Fail, Abort, StopCmd, Idle
<1>1. CASE LeftToReconcile(P) /\ disk' = disk
  BY <1>0, <1>1, Constants DEF LeftToReconcile
<1>2. CASE disk.kind # "dir" /\ disk' \in {PutStub(disk, P, cmd.goal.c[P]),
                                           DropReal(PutStub(disk, P, cmd.goal.c[P]), P),
                                           DropStub(PutReal(disk, P, cmd.goal.c[P]), P)}
  <2>1. NoInner(disk)
    BY <1>0, <1>2, NoDirNoInner
  <2>2. \A n \in Names : n # P
    BY Constants
  <2>3. \A n \in Names : disk'.stub[n] = disk.stub[n]
    <3>1. CASE disk' = PutStub(disk, P, cmd.goal.c[P])
      BY <2>2, <3>1 DEF PutStub, InParent
    <3>2. CASE disk' = DropReal(PutStub(disk, P, cmd.goal.c[P]), P)
      BY <2>2, <3>2 DEF PutStub, InParent, DropReal
    <3>3. CASE disk' = DropStub(PutReal(disk, P, cmd.goal.c[P]), P)
      BY <2>2, <3>3 DEF PutReal, DropStub
    <3> QED  BY <1>2, <3>1, <3>2, <3>3
  <2> QED  BY <2>1, <2>3 DEF NoInner
<1>3. CASE WriteStub(P)
  BY <1>f, <1>2, <1>3, <1>0 DEF WriteStub, Exists, CanDropReal
<1>4. CASE WriteFile(P)
  BY <1>f, <1>2, <1>4 DEF WriteFile, CanPutReal
<1>5. CASE WriteModified(P)
  BY <1>2, <1>4, <1>5 DEF WriteModified, Exists
<1> QED  BY <1>1, <1>3, <1>4, <1>5 DEF PullWrite

\* Every step keeps what a reconciliation has settled where the goal has a file at P, in a torn tree too.
LEMMA BlobOnStep ==
    ASSUME IInv, FromInv, RecInv, BlobInv, Next
    PROVE  BlobInv'
<1>d. disk \in Disks /\ disk' \in Disks /\ cr \in Entries /\ remote \in Entries
      /\ cmd.from \in Entries /\ cmd.goal \in Entries
  BY DiskStep DEF IInv, TypeOK
<1>n. cmd'.name \notin {"push", "pull"} => BlobInv'
  BY DEF BlobInv
<1>1. CASE Moves /\ Middle
  <2>1. /\ cmd'.name = cmd.name /\ cmd'.goal = cmd.goal /\ cmd'.plan = cmd.plan
        /\ Reconciling' = Reconciling
    BY <1>1, MovesView DEF Moves
  <2>2. CASE Reconcile
    <3>1. BlobOn(disk, cmd.goal) => BlobOn(disk', cmd.goal)
      BY <1>1, <2>2, ReconcileOn
    <3>2. Reconciling
      BY <2>2 DEF Reconcile
    <3>3. BlobOn(disk, cmd.goal)
      BY <3>2 DEF BlobInv, BlobOn, Reconciling
    <3> QED  BY <2>1, <3>1, <3>2, <3>3 DEF BlobInv, BlobOn, Reconciling
  <2>3. CASE PullMiddle /\ cmd.goal.kind = "blob" /\ cmd.name = "pull"
    <3>1. cmd.plan[P] \in {"added", "modified"} /\ cmd.pc # "reconcile" /\ ~Reconciling
      BY <2>3 DEF BlobInv, PullMiddle, PullVerify, PullPrune, PullDelete, PullWrite, Running,
                  Reconciling
    <3>2. PlanFacts(cmd.from, cmd.goal, cmd.plan)
      BY <1>d, <2>3, <3>1, PlanSays DEF IInv, PullInv
    <3>3. cmd'.pc = "writes" /\ P \notin cmd'.todo => NoInner(disk') \/ disk'.dirstub # None
      <4>1. CASE PullVerify
        <5>1. cmd'.pc # "writes"
          <6>1. CASE StopCmd
            BY <6>1 DEF StopCmd, Idle
          <6>2. CASE ~StopCmd
            <7>1. cmd' = [cmd EXCEPT !.pc = "deletes", !.todo = Planned({"deleted"})]
              BY <4>1, <6>2 DEF PullVerify
            <7>2. cmd'.pc = "deletes"
              BY <7>1, CmdRecord DEF CmdOK
            <7> QED  BY <7>2
          <6> QED  BY <6>1, <6>2
        <5> QED  BY <5>1
      <4>2. CASE PullPrune
        <5>1. cmd'.todo = Planned({"added", "modified", "emptydir", "link", "tree"})
          BY <4>2, CmdRecord DEF CmdOK, PullPrune
        <5>2. P \in cmd'.todo
          BY <3>1, <5>1, Constants DEF Planned
        <5> QED  BY <5>2
      <4>3. ASSUME NEW x \in Paths, PullDelete(x) PROVE cmd'.pc # "writes"
        <5>1. cmd'.pc = "deletes" \/ Fail
          BY <4>3, CmdRecord DEF CmdOK, PullDelete, Running
        <5> QED  BY <1>1, <2>1, <2>3, <5>1 DEF Fail, Abort, StopCmd, Idle
      <4>4. ASSUME NEW x \in Paths, PullWrite(x), P \notin cmd'.todo
            PROVE  NoInner(disk') \/ disk'.dirstub # None
        <5>1. cmd.pc = "writes"
          BY <4>4 DEF PullWrite, Running
        <5>2. CASE x = P
          BY <1>1, <2>3, <3>1, <4>4, <5>1, <5>2, BlobWrite
        <5>3. CASE x # P
          <6>1. x \in Names
            BY <5>3, Constants
          <6>2. cmd.plan[x] \in {"same", "deleted"}
            <7>1. cmd.plan[x] \in {"same", "added", "modified", "deleted"}
              BY <3>2, <6>1 DEF PlanFacts
            <7>2. cmd.plan[x] \in {"added", "modified"} => cmd.goal.kind = "tree"
              BY <3>2, <6>1, Constants DEF PlanFacts
            <7> QED  BY <2>3, <7>1, <7>2
          <6>3. disk' = disk /\ cmd' = [cmd EXCEPT !.todo = @ \ {x}]
            BY <4>4, <6>2 DEF PullWrite
          <6>4. P \notin cmd.todo
            BY <4>4, <5>3, <6>3, CmdRecord DEF CmdOK
          <6>5. NoInner(disk) \/ disk.dirstub # None
            BY <2>3, <5>1, <6>4 DEF BlobInv
          <6> QED  BY <6>3, <6>5
        <5> QED  BY <5>2, <5>3
      <4> QED  BY <2>3, <4>1, <4>2, <4>3, <4>4 DEF PullMiddle
    <3> QED  BY <2>1, <2>3, <3>1, <3>3 DEF BlobInv
  <2>4. CASE cmd.goal.kind # "blob"
    BY <2>1, <2>4 DEF BlobInv
  <2>5. CASE cmd.name \notin {"push", "pull"}
    BY <1>n, <2>1, <2>5
  <2> QED  BY <1>1, <2>2, <2>3, <2>4, <2>5, ReconcileGoesOn
<1>2. CASE cmd' = Idle
  BY <1>n, <1>2 DEF Idle
<1>3. CASE Stops
  BY <1>2, <1>3 DEF Stops, Abort, StopCmd
<1>4. CASE Starts
  <2>1. /\ cmd'.pc # "reconcile" /\ disk' = disk
        /\ cmd'.name = "push" => cmd'.goal = Logical(disk)
        /\ cmd'.name = "pull" => /\ cmd'.pc = "verify" /\ cmd'.goal = remote
                                 /\ cmd'.plan = Diff(cr, remote, TRUE) /\ cmd'.plan # NoDiff
    BY <1>4, StartShape
  <2>2. CASE cmd'.name = "push"
    <3>1. cmd'.goal.kind = "blob" => disk.kind # "dir"
      BY <2>1, <2>2 DEF Logical, TreeOf
    <3>2. cmd'.goal.kind = "blob" => NoInner(disk) /\ disk.dirstub = None
      BY <1>d, <3>1, NoDirNoInner
    <3> QED  BY <2>1, <2>2, <3>2 DEF BlobInv, Reconciling
  <2>3. CASE cmd'.name = "pull"
    <3> DEFINE p == Diff(cr, remote, TRUE)
    <3>1. ASSUME remote.kind = "blob", p[P] = "same" PROVE p = NoDiff
      <4>1. DiffAtP(cr, remote, TRUE) = "same"
        BY <3>1, Constants DEF Diff
      <4>2. cr.kind = "blob"
        BY <3>1, <4>1 DEF DiffAtP
      <4>3. \A n \in Names : cr.c[n] = remote.c[n]
        BY <1>d, <3>1, <4>2, EntryParts
      <4>4. ~AddedWhole(cr, remote, TRUE)
        BY <3>1 DEF AddedWhole
      <4>5. \A n \in Names : DiffAtChild(cr, remote, n) = "same"
        BY <4>3 DEF DiffAtChild
      <4>6. \A x \in Paths : x = P \/ x \in Names
        BY Constants
      <4> QED  BY <4>1, <4>4, <4>5, <4>6 DEF Diff, NoDiff
    <3>2. PlanFacts(cr, remote, p)
      BY <1>d, PlanSays
    <3>3. remote.kind = "blob" => p[P] = "same" \/ p[P] \in {"added", "modified"}
      BY <3>2 DEF PlanFacts
    <3>4. cmd'.plan = p /\ p # NoDiff /\ cmd'.goal = remote
      BY <2>1, <2>3
    <3> HIDE DEF p
    <3>5. remote.kind = "blob" => cmd'.plan[P] \in {"added", "modified"}
      BY <3>1, <3>3, <3>4
    <3> QED  BY <2>1, <2>3, <3>4, <3>5 DEF BlobInv, Reconciling
  <2> QED  BY <1>n, <2>2, <2>3
<1>5. CASE Ends
  <2>1. CASE PullRoot \/ PushRoot
    <3>1. /\ cmd'.name = cmd.name /\ cmd'.goal = cmd.goal /\ cmd'.plan = cmd.plan /\ disk' = disk
          /\ Reconciling' /\ ~Reconciling /\ cmd.name \in {"pull", "push"}
          /\ cmd.name = "pull" => cmd.pc = "writes" /\ cmd.todo = {}
      BY <2>1, RootMoves
    <3>2. cmd.goal.kind = "blob" => NoInner(disk) \/ disk.dirstub # None
      BY <3>1 DEF BlobInv
    <3> QED  BY <3>1, <3>2 DEF BlobInv
  <2>2. CASE /\ cmd.name = "push" /\ cmd.pc = "publish" /\ cmd'.name = "push" /\ cmd'.pc = "root"
             /\ cmd'.goal = cmd.goal /\ cmd'.from = cmd.from /\ UNCHANGED <<disk, cr>>
    BY <2>2 DEF BlobInv, Reconciling
  <2> QED  BY <1>2, <1>5, <2>1, <2>2, EndShape
<1>6. CASE User
  <2>1. Leaves /\ Same
    BY <1>6, UserLeaves
  <2>2. disk'.dirstub # disk.dirstub => disk'.kind = "absent"
    BY <1>6, UserEffect DEF Edits
  <2>3. NoInner(disk) => NoInner(disk')
    BY <2>1, Constants DEF NoInner, Leaves
  <2>4. disk'.dirstub # disk.dirstub => NoInner(disk')
    BY <1>d, <2>2, NoDirNoInner
  <2>5. NoInner(disk) \/ disk.dirstub # None => NoInner(disk') \/ disk'.dirstub # None
    BY <2>3, <2>4
  <2>6. disk.dirstub = None => disk'.dirstub = None
    BY <2>1 DEF Leaves
  <2>7. /\ cmd'.name = cmd.name /\ cmd'.pc = cmd.pc /\ cmd'.goal = cmd.goal /\ cmd'.plan = cmd.plan
        /\ cmd'.todo = cmd.todo /\ Reconciling' = Reconciling
    BY <2>1 DEF Same, Reconciling
  <2> QED  BY <2>3, <2>5, <2>6, <2>7 DEF BlobInv
<1>7. CASE OtherPublishes
  BY <1>7 DEF OtherPublishes, BlobInv, Reconciling
<1> QED  BY <1>1, <1>3, <1>4, <1>5, <1>6, <1>7, NextShape, MiddleShape

----------------------------------------------------------------------------
(* Every step.                                                             *)

\* The beginning of a command tears nothing.
LEMMA StartsKeep ==
    ASSUME Starts
    PROVE  torn' = torn
<1>1. CASE PullStart
  BY <1>1 DEF PullStart, Quiet
<1>2. CASE \E t \in Paths : StubStart(t)
  BY <1>2 DEF StubStart, Quiet
<1>3. CASE \E scope \in Paths \cup {Root} : ExpandStart(scope)
  BY <1>3 DEF ExpandStart, Quiet
<1>4. CASE \E scope \in Paths \cup {Root} : RestoreStart(scope)
  BY <1>4 DEF RestoreStart, Quiet
<1>5. CASE \E force \in BOOLEAN : CloneStart(force)
  BY <1>5 DEF CloneStart
<1>6. CASE PushStart
  BY <1>6 DEF PushStart, Quiet
<1> QED  BY <1>1, <1>2, <1>3, <1>4, <1>5, <1>6 DEF Starts

\* A step of a running command in a tree that is not torn.
LEMMA MiddleGood ==
    ASSUME Quietly, Middle
    PROVE  Good
<1>1. CASE Crash
  <2>1. Stops /\ disk' = disk
    BY <1>1, CrashShape DEF Quietly, Crash, Abort
  <2> QED  BY <2>1, StopGood
<1>2. CASE PullMiddle
  BY <1>2, PullVerifyGood, PullDeleteGood, PullPruneGood, PullWriteGood DEF PullMiddle
<1>3. CASE Stub /\ ~Starts
  BY <1>3, StubGood
<1>4. CASE Expand /\ ~Starts
  BY <1>4, ExpandGood
<1>5. CASE CloneEntry \/ \E n \in Names : CloneChild(n)
  BY <1>5, CloneEntryGood, CloneChildGood
<1>6. CASE Reconcile
  BY <1>6, ReconcileGood
<1>7. CASE RestoreApply
  BY <1>7, RestoreGood
<1> QED  BY <1>1, <1>2, <1>3, <1>4, <1>5, <1>6, <1>7 DEF Middle

\* A step of a running command in a torn tree may change any file: what it
\* uncovers depends on the root a marker comes from.
LEMMA TornMiddle ==
    ASSUME IInv, FromInv, RecInv, Middle, Next, torn, lost' = lost
    PROVE  Good
<1>0. disk \in Disks /\ disk' \in Disks /\ torn \in BOOLEAN
  BY DiskStep DEF IInv, TypeOK
<1>1. CASE Moves
  <2>1. ~Calm'
    BY <1>1 DEF Moves, Calm
  <2> QED  BY <1>0, <1>1, <2>1, MapUncover DEF Good
<1>2. CASE Stops
  <2>1. Abort(disk') /\ cmd.name # "idle"
    BY <1>2 DEF Stops
  <2>2. LSTEP
    BY <1>0, <2>1, MapAbandon
  <2>3. ~Calm'
    BY <2>1 DEF Abort, Calm
  <2> QED  BY <2>2, <2>3 DEF Good
<1> QED  BY <1>1, <1>2, MiddleShape

\* Every step of the commands is one of LogicalTree, and what is known of the
\* command that runs stays known.
LEMMA StepGood ==
    ASSUME RInv, Next
    PROVE  Good
<1>0. /\ IInv /\ FromInv /\ RecInv /\ BlobInv /\ (Calm => CalmC)
      /\ disk \in Disks /\ disk' \in Disks /\ torn \in BOOLEAN
      /\ lost \subseteq lost' /\ (lost' # lost => Moves)
  BY DiskStep, LostGrows DEF RInv, Always, IInv, TypeOK
<1>1. CASE lost # {}
  <2>1. ~Calm'
    BY <1>0, <1>1 DEF Calm
  <2> QED  BY <1>0, <1>1, <2>1, MapUndefined DEF Good
<1>2. CASE lost = {} /\ lost' # {}
  <2>1. ~Calm'
    BY <1>2 DEF Calm
  <2> QED  BY <1>0, <1>2, <2>1, MapDestroy DEF Good
<1>3. CASE lost = {} /\ lost' = {}
  <2>1. torn' = torn /\ Calm' => CalmC
    BY <1>0, <1>3 DEF Calm
  <2>2. CASE Starts
    BY <1>0, <2>1, <2>2, StartsGood, StartsKeep DEF Good
  <2>3. CASE User
    BY <1>0, <2>1, <2>3, UserMap, UserCalm, UserLeaves DEF Good
  <2>4. CASE OtherPublishes
    <3>1. torn' = torn
      BY <2>4 DEF OtherPublishes
    <3> QED  BY <1>0, <2>1, <2>4, <3>1, OtherPublishesGood DEF Good
  <2>5. CASE Ends
    BY <1>0, <1>3, <2>5, CloneRootGood, PullRootGood, PushPublishGood, PushRootGood, SyncEndGood,
       RestoreEndGood DEF Ends
  <2>6. CASE Middle
    <3>1. CASE torn
      BY <1>0, <1>3, <2>6, <3>1, TornMiddle
    <3>2. CASE ~torn
      <4>1. Quietly
        BY <1>0, <1>3, <3>2 DEF Quietly, Calm
      <4> QED  BY <2>6, <4>1, MiddleGood
    <3> QED  BY <3>1, <3>2
  <2> QED  BY <2>2, <2>3, <2>4, <2>5, <2>6, NextShape
<1> QED  BY <1>1, <1>2, <1>3

\* The invariant and what it is for.
LEMMA Refines ==
    ASSUME RInv, [Next]_vars
    PROVE  RInv' /\ LSTEP
<1>1. CASE Next
  <2>1. Good
    BY <1>1, StepGood
  <2>2. IInv /\ FromInv /\ RecInv /\ BlobInv
    BY DEF RInv, Always
  <2>3. IInv'
    BY <2>2, Inductive
  <2>4. FromInv' /\ RecInv' /\ BlobInv'
    BY <1>1, <2>2, FromOn, RecOnStep, BlobOnStep
  <2> QED  BY <2>1, <2>3, <2>4 DEF Good, RInv, Always
<1>2. CASE UNCHANGED vars
  <2>1. /\ disk' = disk /\ cr' = cr /\ remote' = remote /\ repo' = repo /\ cmd' = cmd
        /\ edits' = edits /\ publishes' = publishes /\ dirty' = dirty /\ torn' = torn /\ lost' = lost
    BY <1>2 DEF vars
  <2>2. base' = base /\ doing' = doing /\ goal' = goal /\ Beside' = Beside /\ Reconciling' = Reconciling
    BY <2>1 DEF base, doing, goal, Beside, Reconciling
  <2>3. LSTEP
    BY <2>1, <2>2 DEF LSTEP, Abstract!vars
  <2>4. IInv'
    BY <1>2, Inductive DEF RInv, Always
  <2>5. FromInv' /\ RecInv' /\ BlobInv'
    BY <2>1, <2>2 DEF RInv, Always, FromInv, RecInv, BlobInv
  <2>6. ASSUME Calm' PROVE CalmC'
    <3>1. CalmC
      BY <2>1, <2>6 DEF RInv, Calm
    <3>2. Resting' = Resting /\ WholeDir' = WholeDir /\ Mine' = Mine
      BY <2>1, <2>2 DEF Resting, WholeDir, Mine
    <3>3. RestC'
      BY <2>1, <3>1, <3>2 DEF CalmC, RestC, InStep
    <3>4. StubC' /\ CloneC' /\ RecC'
      BY <2>1, <2>2, <3>1, <3>2 DEF CalmC, StubC, CloneC, RecC, InStep
    <3>5. ExpandC' /\ PushC'
      BY <2>1, <2>2, <3>1 DEF CalmC, ExpandC, Written, PushC, InStep
    <3>6. PullC'
      <4>1. Apart' = Apart /\ LinkC' = LinkC
        BY <2>1, <3>2 DEF Apart, LinkC
      <4>2. DeletesC' = DeletesC /\ WritesC' = WritesC /\ MovedC' = MovedC
        BY <2>1, <3>2 DEF DeletesC, WritesC, MovedC, At, Pend, PendR, Deleted, AddsTree, Planned
      <4> QED  BY <2>1, <3>1, <4>1, <4>2 DEF CalmC, PullC
    <3> QED  BY <3>3, <3>4, <3>5, <3>6 DEF CalmC
  <2> QED  BY <2>3, <2>4, <2>5, <2>6 DEF RInv, Always
<1> QED  BY <1>1, <1>2

\* The tree a repository begins with.
LEMMA RefinesInit ==
    ASSUME Init
    PROVE  RInv /\ Abstract!Init
<1>0. /\ IInv /\ TypeOK /\ cmd = Idle /\ torn = FALSE /\ lost = {} /\ disk \in Disks
      /\ Listed(disk) = {} /\ remote \in Entries /\ cr \in Entries /\ dirty \subseteq Paths
  BY Initially DEF Init, IInv, TypeOK
<1>1. cmd.name = "idle" /\ cmd.touched = {} /\ cmd.goal = AbsentEntry /\ cmd.seen = EmptyDisk
  BY <1>0 DEF Idle
<1>2. /\ \A t \in Paths : disk.stub[t] = None
      /\ disk.dirstub = None
  BY <1>0 DEF Listed
<1>3. Follows(disk, cr)
  BY <1>2 DEF Follows
<1>4. InStep(cr) /\ (repo = "none" => cr = AbsentEntry /\ InPlace(disk) \subseteq dirty)
  <2>1. CASE repo = "rooted" /\ Logical(disk) = cr
    <3>1. Scanned(disk) = Files(cr)
      BY <1>0, <2>1, ScannedFiles
    <3> QED  BY <2>1, <3>1 DEF InStep
  <2>2. CASE repo = "none" /\ cr = AbsentEntry /\ dirty = InPlace(disk)
    <3>1. \A t \in Paths : Files(cr)[t] = None
      BY <2>2, Constants DEF Files, AbsentEntry
    <3>2. ASSUME NEW t \in Paths \ dirty PROVE Scanned(disk)[t] = None
      <4>1. CASE t = P
        <5>1. disk.kind = "absent"
          BY <1>0, <2>2, <3>2, <4>1, DiskParts DEF InPlace
        <5> QED  BY <1>0, <1>2, <4>1, <5>1, Reads
      <4>2. CASE t # P
        <5>1. t \in Names
          BY <4>2, Constants
        <5>2. disk.real[t] = None
          BY <1>0, <2>2, <3>2, <5>1, DiskParts DEF InPlace
        <5> QED  BY <1>0, <1>2, <5>1, <5>2, Reads, Constants
      <4> QED  BY <4>1, <4>2
    <3> QED  BY <2>2, <3>1, <3>2 DEF InStep
  <2> QED  BY <2>1, <2>2 DEF Init
<1>5. FromInv /\ RecInv /\ BlobInv
  BY <1>1 DEF FromInv, RecInv, BlobInv, Reconciling
<1>6. CalmC
  <2>1. RestC
    BY <1>1, <1>3, <1>4 DEF RestC
  <2>2. StubC /\ ExpandC /\ CloneC /\ PushC /\ PullC /\ RecC
    BY <1>1 DEF StubC, ExpandC, CloneC, PushC, PullC, RecC, Reconciling
  <2> QED  BY <2>1, <2>2 DEF CalmC
<1>7. base = cr /\ doing = "none" /\ goal = Nowhere /\ Beside = {}
  <2>1. \A t \in Paths : EmptyDisk.stub[t] = None /\ EmptyDisk.dirstub = None
    BY Constants DEF EmptyDisk
  <2> QED  BY <1>1, <2>1 DEF base, doing, goal, Beside, Reconciling
<1>8. Scanned(disk) \in Abstract!Trees /\ Files(cr) \in Abstract!Trees /\ Files(remote) \in Abstract!Trees
  BY <1>0, Reads, FilesParts DEF Abstract!Trees
<1>9. edits \in Nat /\ publishes \in Nat
  BY <1>0, BoundAssumption DEF TypeOK
<1>10. Nowhere = Abstract!NoGoal
  BY DEF Nowhere, Abstract!NoGoal
<1>11. Abstract!Init
  BY <1>0, <1>4, <1>7, <1>8, <1>9, <1>10 DEF Abstract!Init, InStep
<1> QED  BY <1>0, <1>5, <1>6, <1>11 DEF RInv, Always

\* Whatever stubs, real files and markers lie on disk, and wherever a command
\* of clone.rs, stub.rs, expand.rs, pull.rs, push.rs or restore.rs is
\* interrupted, the files a scan records change only as LogicalTree lets them:
\* through the user, through a pull or clone bringing what the remote has to
\* paths nobody edited, through a restore.  Stubbing and expanding change none,
\* unless a file the user removed comes back or goes with its marker; after a
\* death between two roots, or a destroyed file, less is promised.
THEOREM StubsInvisible == Spec => StubsAreInvisible
<1>1. Init => RInv /\ Abstract!Init
  BY RefinesInit
<1>2. RInv /\ [Next]_vars => RInv' /\ [Abstract!Next]_(Abstract!vars)
  BY Refines DEF LSTEP
<1> QED  BY <1>1, <1>2, PTL DEF Spec, StubsAreInvisible, Abstract!Spec

----------------------------------------------------------------------------
(* LogicalTree keeps clean paths in step.  That is not inductive: a restore *)
(* changes paths nobody edited, and only the fact that it works towards the *)
(* clone root itself keeps them in step.  A pull or push may leave paths    *)
(* anywhere while it runs; what matters is how it may end.                  *)

TreeInStep == \A t \in Paths \ dirty : Scanned(disk)[t] = Files(base)[t]
Settled == doing \in {"none", "restore"}
CleanInv == /\ doing = "restore" /\ lost = {} => goal = Files(base)
            /\ Settled /\ ~torn /\ lost = {} => TreeInStep

\* Every step of a command, of the user and of the other clones keeps it.
LEMMA CleanStep ==
    ASSUME CleanInv, Abstract!Next
    PROVE  CleanInv'
<1>1. CASE Abstract!Edit
  BY <1>1 DEF Abstract!Edit, CleanInv, TreeInStep, Settled
<1>2. CASE Abstract!OtherPublishes
  BY <1>2 DEF Abstract!OtherPublishes, CleanInv, TreeInStep, Settled
<1>3. CASE Abstract!Begin
  BY <1>3 DEF Abstract!Begin, CleanInv, TreeInStep, Settled
<1>4. CASE Abstract!Adopt
  BY <1>4 DEF Abstract!Adopt, CleanInv, TreeInStep, Settled
<1>5. CASE Abstract!Reappear
  BY <1>5 DEF Abstract!Reappear, CleanInv, TreeInStep, Settled
<1>6. CASE Abstract!Unmark
  BY <1>6 DEF Abstract!Unmark, CleanInv, TreeInStep, Settled
<1>7. CASE Abstract!Discard
  BY <1>7 DEF Abstract!Discard, CleanInv, TreeInStep, Settled
<1>8. CASE Abstract!Uncover
  BY <1>8 DEF Abstract!Uncover, CleanInv, TreeInStep, Settled
<1>9. CASE Abstract!Publish
  BY <1>9 DEF Abstract!Publish, CleanInv, TreeInStep, Settled
<1>10. CASE Abstract!Finish
  <2>1. doing' = "none"
    BY <1>10 DEF Abstract!Finish
  <2>2. ASSUME ~torn' PROVE TreeInStep'
    <3>1. \A t \in Paths \ (dirty \cup Beside) : Scanned(disk)[t] = goal[t]
      BY <1>10, <2>2 DEF Abstract!Finish
    <3>2. \A t \in Paths \ dirty' : Scanned(disk)[t] = goal[t]
      BY <1>10, <3>1 DEF Abstract!Finish
    <3> QED  BY <1>10, <3>2 DEF Abstract!Finish, TreeInStep
  <2> QED  BY <2>1, <2>2 DEF CleanInv, Settled
<1>11. CASE Abstract!FinishRestore
  <2>1. doing' = "none"
    BY <1>11 DEF Abstract!FinishRestore
  <2>2. ASSUME ~torn', lost' = {} PROVE TreeInStep'
    <3>1. CASE ~torn
      <4>1. TreeInStep
        BY <1>11, <2>2, <3>1 DEF Abstract!FinishRestore, CleanInv, Settled
      <4> QED  BY <1>11, <4>1 DEF Abstract!FinishRestore, TreeInStep
    <3>2. CASE torn
      <4>1. Scanned(disk) = Files(base)
        BY <1>11, <2>2, <3>2 DEF Abstract!FinishRestore
      <4> QED  BY <1>11, <4>1 DEF Abstract!FinishRestore, TreeInStep
    <3> QED  BY <3>1, <3>2
  <2> QED  BY <2>1, <2>2 DEF CleanInv, Settled
<1>12. CASE Abstract!Abandon
  <2>1. doing' = "none"
    BY <1>12 DEF Abstract!Abandon
  <2>2. ASSUME ~torn' PROVE TreeInStep'
    <3>1. ~torn
      BY <1>12, <2>2 DEF Abstract!Abandon
    <3>2. Files(base)' = Files(base) /\ \A t \in Paths \ dirty : Scanned(disk)[t] = Files(base)[t]
      BY <1>12, <2>2 DEF Abstract!Abandon
    <3>3. \A t \in Paths \ dirty : Scanned(disk)'[t] = Scanned(disk)[t]
      BY <1>12, <3>1 DEF Abstract!Abandon
    <3>4. dirty' = dirty
      BY <1>12 DEF Abstract!Abandon
    <3> QED  BY <3>2, <3>3, <3>4 DEF TreeInStep
  <2> QED  BY <2>1, <2>2 DEF CleanInv, Settled
<1>13. CASE Abstract!Destroy
  BY <1>13 DEF Abstract!Destroy, CleanInv, TreeInStep, Settled
<1>14. CASE Abstract!Undefined
  BY <1>14 DEF Abstract!Undefined, CleanInv
<1> QED  BY <1>1, <1>2, <1>3, <1>4, <1>5, <1>6, <1>7, <1>8, <1>9, <1>10, <1>11,
            <1>12, <1>13, <1>14 DEF Abstract!Next

\* In whatever behaves as LogicalTree says of the commands, with no command
\* running and nothing torn or destroyed, every path the user has not edited is
\* what clone_root says: push, pull and restore end in step, and an interrupted
\* command either changed nothing or is known to have torn the tree.
THEOREM LogicalClean == Abstract!Spec => []Abstract!CleanMeansSynced
<1>1. Abstract!Init => CleanInv
  BY DEF Abstract!Init, CleanInv, TreeInStep, Settled
<1>2. CleanInv /\ [Abstract!Next]_(Abstract!vars) => CleanInv'
  <2>1. ASSUME CleanInv, UNCHANGED Abstract!vars PROVE CleanInv'
    BY <2>1 DEF CleanInv, TreeInStep, Settled, Abstract!vars
  <2> QED  BY <2>1, CleanStep
<1>3. CleanInv => Abstract!CleanMeansSynced
  BY DEF CleanInv, TreeInStep, Settled, Abstract!CleanMeansSynced
<1> QED  BY <1>1, <1>2, <1>3, PTL DEF Abstract!Spec

\* So with no command running, no pull, clone or push interrupted and nothing
\* lost, every path the user has not edited reads, for scan.rs, as clone_root
\* has it, as a file or as a stub and whatever else lies beside it: a push then
\* publishes nothing but what the user did.
THEOREM CleanTree == Spec => []CleanTreeIsSynced
  BY StubsInvisible, LogicalClean, PTL DEF StubsAreInvisible, CleanTreeIsSynced
====
