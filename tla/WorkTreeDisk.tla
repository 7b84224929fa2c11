---- MODULE WorkTreeDisk ----
(***************************************************************************)
(* One entry of a working tree, its stub markers, and how scan.rs reads    *)
(* them.  The entry at path P may be absent, a file, a symlink or a        *)
(* directory of files called Names.  A file can stand on disk as a file    *)
(* stub (P.omemfs-stub, P/n.omemfs-stub) and the directory as a directory  *)
(* stub (P/.omemfs-stub); real files and stubs may be side by side.        *)
(*                                                                         *)
(* A stub record keeps the hash of what it stands for: here the content    *)
(* itself, or the directory's contents.  Big says which contents reach the *)
(* stub threshold.                                                         *)
(***************************************************************************)
CONSTANTS
    P,          \* the entry
    Names,      \* names of files inside it when it is a directory
    Content,    \* file contents
    Big,        \* contents whose size is at least --stub-threshold
    None

ASSUME DiskAssumption ==
    /\ P \notin Names
    /\ Big \subseteq Content
    /\ None \notin Content
    /\ None \notin [Names -> Content \cup {None}]
    /\ "dirstub" \notin Names \cup {P}

Paths == Names \cup {P}
Maybe == Content \cup {None}
Nowhere == [t \in Paths |-> None]
NoNames == [n \in Names |-> None]

\* A tree entry of a clone_root or remote root: kind and contents.
Entry == [kind : {"absent", "blob", "link", "tree"}, c : [Paths -> Maybe]]
WellFormedEntry(e) ==
    /\ (e.c[P] # None) <=> (e.kind = "blob")
    /\ e.kind # "tree" => \A n \in Names : e.c[n] = None
Entries == {e \in Entry : WellFormedEntry(e)}
AbsentEntry == [kind |-> "absent", c |-> Nowhere]
LinkEntry == [kind |-> "link", c |-> Nowhere]
Blob(x) == [kind |-> "blob", c |-> [Nowhere EXCEPT ![P] = x]]
TreeOf(ch) == [kind |-> "tree",
               c |-> [t \in Paths |-> IF t = P THEN None ELSE ch[t]]]
Children(e) == [n \in Names |-> e.c[n]]

\* The disk: kind of P, real file contents, file stubs and directory stub.
Disk == [kind : {"absent", "file", "link", "dir"},
         real : [Paths -> Maybe],
         stub : [Paths -> Maybe],
         dirstub : [Names -> Maybe] \cup {None}]
WellFormed(d) ==
    /\ (d.real[P] # None) <=> (d.kind = "file")
    /\ d.kind # "dir" => /\ d.dirstub = None
                         /\ \A n \in Names : d.real[n] = None /\ d.stub[n] = None
Disks == {d \in Disk : WellFormed(d)}
EmptyDisk == [kind |-> "absent", real |-> Nowhere, stub |-> Nowhere, dirstub |-> None]

\* A real entry of any kind is at path t.
Exists(d, t) == IF t = P THEN d.kind # "absent" ELSE d.real[t] # None
EmptyDir(d) == /\ d.kind = "dir" /\ d.dirstub = None
               /\ \A n \in Names : d.real[n] = None /\ d.stub[n] = None
BigTree(ch) == \E n \in Names : ch[n] \in Big

----------------------------------------------------------------------------
\* Mutant: the directory stub wins over what lies beside it.
ChildContentStubFirst(d, n) ==
    IF d.dirstub # None /\ d.dirstub[n] # None THEN d.dirstub[n]
    ELSE IF d.real[n] # None THEN d.real[n] ELSE d.stub[n]

\* scan_dir's logical names and merge_partial_expansion: a real child wins
\* over its stub, and both over the directory stub's record.
ChildContent(d, n) ==
    IF d.real[n] # None THEN d.real[n]
    ELSE IF d.stub[n] # None THEN d.stub[n]
    ELSE IF d.dirstub # None THEN d.dirstub[n]
    ELSE None

\* What a scan records for P.
Logical(d) ==
    CASE d.kind = "absent" -> IF d.stub[P] # None THEN Blob(d.stub[P]) ELSE AbsentEntry
      [] d.kind = "file"   -> Blob(d.real[P])
      [] d.kind = "link"   -> LinkEntry
      [] d.kind = "dir"    -> TreeOf([n \in Names |-> ChildContent(d, n)])

\* The stubs stub::list finds: paths of file stubs, and DirStub.
DirStub == "dirstub"
Listed(d) == {t \in Paths : d.stub[t] # None}
             \cup (IF d.dirstub # None THEN {DirStub} ELSE {})

----------------------------------------------------------------------------
(* Writes.  fsguard opens every path below the work dir component by       *)
(* component and creates missing parents; a file or a symlink where a      *)
(* directory is needed is an error, and a rename never replaces a          *)
(* directory by a file.                                                    *)
ParentOk(d, t) == t = P \/ d.kind \in {"absent", "dir"}
InParent(d, t) == IF t = P THEN d ELSE [d EXCEPT !.kind = "dir"]

CanPutReal(d, t) == ParentOk(d, t) /\ (t = P => d.kind # "dir")
PutReal(d, t, x) ==
    IF t = P THEN [d EXCEPT !.kind = "file", !.real[P] = x]
    ELSE [InParent(d, t) EXCEPT !.real[t] = x]

PutStub(d, t, x) == [InParent(d, t) EXCEPT !.stub[t] = x]

CanPutDirStub(d) == d.kind \in {"absent", "dir"}
PutDirStub(d, ch) == [d EXCEPT !.kind = "dir", !.dirstub = ch]

\* create_dir_all(P).
CanMakeDir(d) == d.kind \in {"absent", "dir"}
MakeDir(d) == [d EXCEPT !.kind = "dir"]

\* remove_file_tolerant of a real file or symlink.
CanDropReal(d, t) == IF t = P THEN d.kind # "dir" ELSE ParentOk(d, t)
DropReal(d, t) ==
    IF t = P THEN [d EXCEPT !.kind = "absent", !.real[P] = None]
    ELSE [d EXCEPT !.real[t] = None]

CanDropStub(d, t) == ParentOk(d, t)
DropStub(d, t) == [d EXCEPT !.stub[t] = None]

\* remove_dir_all of P, its markers included; P's own file stub is outside it.
DropDir(d) == [EmptyDisk EXCEPT !.stub[P] = d.stub[P]]
\* remove_dir, which only an empty directory obeys.
PruneDir(d) == IF EmptyDir(d) THEN DropDir(d) ELSE d

\* replace_symlink: an empty directory makes room, any other stays.
CanPutLink(d) == d.kind # "dir" \/ EmptyDir(d)
PutLink(d) == [DropDir(d) EXCEPT !.kind = "link"]
====
