---- MODULE Listing ----
(***************************************************************************)
(* omemfs ls (src/src/commands/ls.rs): the working tree is scanned into a  *)
(* tree object, compared with clone_root and with the remote's root, and   *)
(* printed as one row per path.  Listing fetches what it needs: a tree the *)
(* comparison cannot read is downloaded and the comparison starts again.   *)
(***************************************************************************)
EXTENDS TreeOps

IsPrefixOf(q, p) == Len(q) <= Len(p) /\ SubSeq(p, 1, Len(q)) = q

\* ScopeFilter: no prefix means everything.
in_scope(scope, p) == scope = {} \/ \E q \in scope : IsPrefixOf(q, p)
should_descend(scope, p) == in_scope(scope, p) \/ \E q \in scope : IsPrefixOf(p, q)

Row(s) == [k |-> s]
Single(p, r) == [q \in {p} |-> r]

(***************************************************************************)
(* diff_recursive and mark_deleted: [map, unknown, missing], the changed   *)
(* paths, the directories that could not be compared and the trees that    *)
(* were asked for in vain.  A directory over anything else starts from     *)
(* nothing; a leaf over anything else is Modified.                         *)
(***************************************************************************)
Diff(map, unknown, missing) == [map |-> map, unknown |-> unknown, missing |-> missing]
NoDiff == Diff(NoTree, {}, {})
DiffsOf(D) == Diff(Gather({d.map : d \in D}), UNION {d.unknown : d \in D},
                   UNION {d.missing : d \in D})

\* The first tree of a list that cannot be read, as a set.
FirstMissing(have, need) ==
    {need[i] : i \in {j \in DOMAIN need : need[j] \notin have /\ \A h \in 1 .. j - 1 : need[h] \in have}}

\* The caller of a failed comparison records its directory as unknown.
Contained(scope, p, have, need, d) ==
    IF FirstMissing(have, need) = {} THEN d
    ELSE Diff(NoTree, IF in_scope(scope, p) THEN {p} ELSE {}, FirstMissing(have, need))

RECURSIVE mark_deleted(_, _, _, _)
mark_deleted(have, scope, t, prefix) ==
    LET one(n) ==
          LET p == Append(prefix, n) IN
          IF IsLeaf(t[n]) THEN IF in_scope(scope, p) THEN Diff(Single(p, Row("D")), {}, {}) ELSE NoDiff
          ELSE IF ~should_descend(scope, p) THEN NoDiff
          ELSE Contained(scope, p, have, <<t[n].sub>>,
                         IF t[n].sub \in have THEN mark_deleted(have, scope, t[n].sub, p) ELSE NoDiff)
    IN  DiffsOf({one(n) : n \in DOMAIN t})

LeafDiff(scope, base, target, p) ==
    IF base = target \/ ~in_scope(scope, p) THEN NoDiff
    ELSE Diff(Single(p, Row(IF base.k = "none" THEN "A" ELSE "M")), {}, {})

EmptyDirDiff(scope, base, p, d) ==
    IF base.k # "dir" /\ DOMAIN d.map = {} /\ in_scope(scope, p)
    THEN Diff(Single(p, Row("E")), d.unknown, d.missing) ELSE d

Needed(base, target) ==
    IF base.k # "dir" THEN <<target>>
    ELSE IF base.sub = target THEN <<>> ELSE <<target, base.sub>>

RECURSIVE diff_recursive(_, _, _, _, _)
diff_recursive(have, scope, base, target, prefix) ==
    IF base.k = "dir" /\ base.sub = target THEN NoDiff
    ELSE
    LET basemap == IF base.k = "dir" THEN base.sub ELSE NoTree
        child(n) ==
          LET p == Append(prefix, n)
              b == Entry(basemap, n)
              t == Entry(target, n)
          IN  IF IsLeaf(t) THEN LeafDiff(scope, b, t, p)
              ELSE IF t.k = "dir"
              THEN IF ~should_descend(scope, p) THEN NoDiff
                   ELSE Contained(scope, p, have, Needed(b, t.sub),
                          IF FirstMissing(have, Needed(b, t.sub)) = {}
                          THEN EmptyDirDiff(scope, b, p,
                                 diff_recursive(have, scope, b, t.sub, p))
                          ELSE NoDiff)
              ELSE IF IsLeaf(b)
              THEN IF in_scope(scope, p) THEN Diff(Single(p, Row("D")), {}, {}) ELSE NoDiff
              ELSE IF ~should_descend(scope, p) THEN NoDiff
              ELSE Contained(scope, p, have, <<b.sub>>,
                     IF b.sub \in have THEN mark_deleted(have, scope, b.sub, p) ELSE NoDiff)
    IN  DiffsOf({child(n) : n \in DOMAIN basemap \cup DOMAIN target})

\* diff_trees: what even the roots cannot be read for is unknown at ".".
diff_trees(have, scope, base, target) ==
    LET missing == FirstMissing(have, Needed(base, target)) IN
    IF missing = {} THEN diff_recursive(have, scope, base, target, <<>>)
    ELSE Diff(NoTree, {<<>>}, missing)

(***************************************************************************)
(* diff_trees_with_heal and fetch_required_trees: compare, download every  *)
(* tree that was missing, compare again; the first tree the remote cannot  *)
(* deliver fails the listing.                                              *)
(***************************************************************************)
Failed == [p \in {<<>>} |-> Row("failed")]

\* Mutant: a tree that cannot be fetched is left out of the comparison.
GiveUpPartial(d) == d.map
GiveUp(d) == Failed

RECURSIVE diff_trees_with_heal(_, _, _, _, _)
diff_trees_with_heal(have, fetchable, scope, base, target) ==
    LET d == diff_trees(have, scope, base, target) IN
    IF base.k # "dir" THEN d.map
    ELSE IF d.missing = {} THEN IF d.unknown = {} THEN d.map ELSE Failed
    ELSE IF ~(d.missing \subseteq fetchable) THEN GiveUp(d)
    ELSE diff_trees_with_heal(have \cup d.missing, fetchable, scope, base, target)

(***************************************************************************)
(* scan_scoped_for_ls: the requested paths are scanned one by one and put  *)
(* into clone_root; everything else keeps the entry clone_root has.  disk  *)
(* is what a scan of the whole tree finds, a stub already read as the tree *)
(* it records.  A path below a stub is refused, an ignored path keeps what *)
(* clone_root has, a path that is gone is removed.                         *)
(***************************************************************************)
\* lstat_path: a file or a symlink on the way is refused.
RECURSIVE At(_, _)
At(t, p) == LET e == Entry(t, p[1]) IN
            IF Len(p) = 1 \/ e.k = "none" THEN e
            ELSE IF e.k = "dir" THEN At(e.sub, Tail(p)) ELSE Error

Ignored(ignored, p) == \E q \in ignored : IsPrefixOf(q, p)

\* Mutant: a path that is gone keeps its old entry.
ScanOneKeepsGone(have, root, disk, p) ==
    IF At(disk, p).k = "none" THEN Dir(root) ELSE splice_entry(have, root, p, At(disk, p))
ScanOne(have, root, disk, p) ==
    IF At(disk, p).k = "none"
    THEN LET r == remove_entry(have, root, p) IN IF r.k = "none" THEN Dir(root) ELSE r
    ELSE IF At(disk, p).k = "error" THEN Error
    ELSE splice_entry(have, root, p, At(disk, p))

RECURSIVE scan_scoped_for_ls(_, _, _, _, _, _)
scan_scoped_for_ls(have, root, disk, stubs, ignored, paths) ==
    IF paths = <<>> THEN Dir(root)
    ELSE LET p == Head(paths)
             step == IF \E q \in stubs : IsPrefixOf(q, p) /\ q # p THEN Error
                     ELSE IF Ignored(ignored, p) THEN Dir(root)
                     ELSE ScanOne(have, root, disk, p)
         IN  IF step.k = "error" THEN Error
             ELSE scan_scoped_for_ls(have \cup TreesIn(step.sub), step.sub, disk, stubs, ignored, Tail(paths))

(***************************************************************************)
(* remote_diff_recursive: what the remote's root changes against           *)
(* clone_root, by displayed path.  A remote tree that cannot be read hides *)
(* what is below it; a clone tree that is not local counts as empty.       *)
(***************************************************************************)
File(p) == [path |-> p, dir |-> FALSE]
Directory(p) == [path |-> p, dir |-> TRUE]

\* Mutant: only the names the remote still has are compared.
GoneSilent(scope, p) == NoTree
Gone(scope, p) == IF in_scope(scope, p) THEN Single(File(p), "D") ELSE NoTree

RECURSIVE remote_diff_recursive(_, _, _, _, _, _)
remote_diff_recursive(have, fetchable, scope, base, remote, prefix) ==
    IF (base.k = "dir" /\ base.sub = remote) \/ remote \notin have \cup fetchable THEN NoTree
    ELSE
    LET basemap == IF base.k = "dir" /\ base.sub \in have THEN base.sub ELSE NoTree
        child(n) ==
          LET p == Append(prefix, n)
              b == Entry(basemap, n)
              r == Entry(remote, n)
              verdict == IF b.k = "none" THEN "A" ELSE "M"
          IN  IF r.k = "none" THEN Gone(scope, p)
              ELSE IF b = r THEN NoTree
              ELSE IF IsLeaf(r)
              THEN IF in_scope(scope, p) THEN Single(File(p), verdict) ELSE NoTree
              ELSE IF ~should_descend(scope, p) THEN NoTree
              ELSE Join(IF in_scope(scope, p) THEN Single(Directory(p), verdict) ELSE NoTree,
                        remote_diff_recursive(have, fetchable, scope, b, r.sub, p))
    IN  Gather({child(n) : n \in DOMAIN basemap \cup DOMAIN remote})

(* fetch_remote_status_map: no origin, an unreadable or a late root pointer *)
(* (read_root_with_timeout), or a remote at clone_root: no marks at all.    *)
fetch_remote_status_map(answered, have, fetchable, scope, base, remote) ==
    IF ~answered THEN NoTree ELSE remote_diff_recursive(have, fetchable, scope, base, remote, <<>>)

(***************************************************************************)
(* The rows.  status_char marks a leaf by the local comparison; a          *)
(* directory's row gets its own mark later, from what changed below it.    *)
(***************************************************************************)
LsRow(status, remote) == [status |-> status, remote |-> remote, z |-> " "]
status_char(diff, p) ==
    IF p \notin DOMAIN diff THEN " " ELSE IF diff[p].k = "E" THEN "A" ELSE diff[p].k
Marked(map, key) == IF key \in DOMAIN map THEN map[key] ELSE " "

RECURSIVE collect_tree_rows(_, _, _, _, _, _, _, _)
collect_tree_rows(have, t, prefix, recursive, diff, remote, force, ignored) ==
    LET status(p) == IF force = " " THEN status_char(diff, p) ELSE force
        one(n) ==
          LET p == Append(prefix, n) IN
          IF IsLeaf(t[n]) THEN Single(File(p), LsRow(status(p), Marked(remote, File(p))))
          ELSE Join(Single(Directory(p), LsRow(force, Marked(remote, Directory(p)))),
                    IF recursive /\ p \notin ignored /\ t[n].sub \in have
                    THEN collect_tree_rows(have, t[n].sub, p, recursive, diff, remote, force, ignored)
                    ELSE NoTree)
    IN  Gather({one(n) : n \in DOMAIN t})

Below(p, q) == IsPrefixOf(p, q) /\ q # p

(* A listing L: what is local (have), clone_root (root), the working tree, *)
(* the remote's root (rtree), the requested path (target), -r, the local   *)
(* comparison (diff), the remote marks (remote), the paths the filters     *)
(* ignore, and what the scan met: ignored paths (found), reserved names of *)
(* a newer version (unknown), stubs, and files with conflict helpers.      *)

(* The row of the target itself, then the rows below it.  A target that    *)
(* clone_root does not have is looked up among what the remote added, then *)
(* in the working tree, and everything under it counts as added.           *)
RemoteAdded(L, p) ==
    IF \E key \in {File(p), Directory(p)} : Marked(L.remote, key) = "A" THEN At(L.rtree, p) ELSE None
target_rows(L) ==
    LET inClone == navigate_entry(L.have, L.root, L.target)
        elsewhere == IF RemoteAdded(L, L.target).k # "none" THEN RemoteAdded(L, L.target)
                     ELSE navigate_entry(L.have, L.working, L.target)
        e == IF L.target = <<>> THEN Dir(L.root)
             ELSE IF inClone.k # "none" THEN inClone ELSE elsewhere
        force == IF L.target # <<>> /\ inClone.k = "none" THEN "A" ELSE " "
        self == IF L.target = <<>>
                THEN LsRow(IF L.diff = NoTree THEN " " ELSE "M", IF L.remote = NoTree THEN " " ELSE "M")
                ELSE LsRow(IF force # " " THEN force
                           ELSE IF \E q \in DOMAIN L.diff : Below(L.target, q) THEN "M" ELSE " ",
                           Marked(L.remote, Directory(L.target)))
    IN  IF e.k \in {"none", "error"} THEN NoTree
        ELSE IF IsLeaf(e)
        THEN Single(File(L.target), LsRow(IF force = " " THEN status_char(L.diff, L.target) ELSE force,
                                          Marked(L.remote, File(L.target))))
        ELSE Join(Single(Directory(L.target), self),
                  IF e.sub \notin L.have THEN NoTree
                  ELSE collect_tree_rows(L.have, e.sub, L.target, L.recursive, L.diff, L.remote, force, L.ignored))

(* What changed locally: what is new has its own row when it is directly   *)
(* listed; what is further down marks the directory that leads to it, or   *)
(* makes a row for that directory when it is new.  The requested path is   *)
(* not its own direct child: when it is itself new, the directory made for *)
(* it is its first component under itself.                                 *)
Direct(L, p) == L.recursive \/ (IsPrefixOf(L.target, p) /\ Len(p) = Len(L.target) + 1)
AddedKey(diff, p) == IF diff[p].k = "E" THEN Directory(p) ELSE File(p)
TopDir(L, p) == Directory(IF p = L.target THEN Append(p, p[1]) ELSE SubSeq(p, 1, Len(L.target) + 1))
New(diff, p) == diff[p].k \in {"A", "E"}

\* Mutant: a directory is marked only for what was added below it.
MarksAddedOnly(L, rows, p) == TopDir(L, p) \in DOMAIN rows /\ New(L.diff, p)
Marks(L, rows, p) == TopDir(L, p) \in DOMAIN rows

added_rows(L, rows) ==
    LET direct == {p \in DOMAIN L.diff : Direct(L, p) /\ New(L.diff, p)}
        far == {p \in DOMAIN L.diff : ~Direct(L, p)}
        own == [key \in {AddedKey(L.diff, p) : p \in direct} |-> LsRow("A", " ")]
        dirs == [key \in {TopDir(L, p) : p \in {q \in far : New(L.diff, q)}} |-> LsRow("A", " ")]
        marks == {TopDir(L, p) : p \in {q \in far : Marks(L, rows, q)}}
        marked == [key \in DOMAIN rows |->
                     IF key \in marks /\ rows[key].status = " "
                     THEN [rows[key] EXCEPT !.status = "M"] ELSE rows[key]]
    IN  Join(marked, Join(own, dirs))

\* What only the remote has, and what the scan ignored.
remote_added_rows(L, rows) ==
    Join(rows, [key \in {x \in DOMAIN L.remote : L.remote[x] = "A" /\ Direct(L, x.path)} |-> LsRow(" ", "A")])
InScope(L, p) == IsPrefixOf(L.target, p) /\ Direct(L, p)
ignored_rows(L, rows) ==
    Join(rows, [key \in {x \in L.found : InScope(L, x.path)} |-> LsRow(" ", " ")])
unknown_rows(L, rows) ==
    Join(rows, [key \in {File(p) : p \in {q \in L.unknown : InScope(L, q)}} |->
                  [LsRow(" ", " ") EXCEPT !.z = "?"]])

\* An ignored path is a deletion if clone_root has it.
IgnoredMark(L, key, row) ==
    LET p == key.path
        inClone == p # <<>> /\ navigate_entry(L.have, L.root, p).k \notin {"none", "error"}
    IN  IF p \notin L.ignored THEN row
        ELSE [row EXCEPT !.z = IF inClone THEN "i" ELSE "I", !.status = IF inClone THEN "D" ELSE " "]

(* The last column: a conflict (on its file and every directory above it)  *)
(* wins over the marks a row already has; otherwise a deferred path is S,  *)
(* a directory above one is s.                                             *)
ZMark(L, key, row) ==
    LET p == key.path
    IN  IF (~key.dir /\ p \in L.conflicts) \/ (key.dir /\ \E q \in L.conflicts : Below(p, q))
        THEN [row EXCEPT !.z = "!"]
        ELSE IF row.z # " " THEN row
        ELSE IF \E s \in L.stubs : ~s.partial /\ ((s.path = p /\ s.dir = key.dir) \/ (s.dir /\ Below(s.path, p)))
        THEN [row EXCEPT !.z = "S"]
        ELSE IF key.dir /\ \E s \in L.stubs : Below(p, s.path) \/ (s.partial /\ s.path = p)
        THEN [row EXCEPT !.z = "s"] ELSE row

(* ls of one path or of the whole tree; before the first push or pull there *)
(* is no clone_root and everything is new.                                  *)
ls_rows(L) ==
    LET known == ignored_rows(L, remote_added_rows(L, added_rows(L, target_rows(L))))
        all == unknown_rows(L, [key \in DOMAIN known |-> IgnoredMark(L, key, known[key])])
    IN  [key \in DOMAIN all |-> ZMark(L, key, all[key])]
unrooted_rows(L) == added_rows(L, NoTree)

\* ls --dirty: the comparison itself, one row per changed path.
dirty_rows(diff) == [key \in {AddedKey(diff, p) : p \in DOMAIN diff} |-> status_char(diff, key.path)]
====
