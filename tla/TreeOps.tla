---- MODULE TreeOps ----
(***************************************************************************)
(* The operations on trees every command uses (src/src/tree_ops.rs).  A    *)
(* tree object is the function from its names to its entries, so two trees *)
(* are equal exactly when their hashes are; the set `have' holds the trees *)
(* a store can read.  A blob's value v stands for its hash and mode, a     *)
(* link's for its target; times, sizes and counts are aggregates and left  *)
(* out.  Reading a tree that is not in the store, and reading a blob as a  *)
(* tree, are errors, which the Result-valued operators return.             *)
(***************************************************************************)
EXTENDS Naturals, Sequences, FiniteSets

\* TreeEntry: Blob, Symlink and Tree, and the absent entry
NoTree == [n \in {} |-> n]
Blob(c) == [k |-> "blob", v |-> c, sub |-> NoTree]
Link(c) == [k |-> "link", v |-> c, sub |-> NoTree]
Dir(t) == [k |-> "dir", v |-> "-", sub |-> t]
None == [k |-> "none", v |-> "-", sub |-> NoTree]
Error == [k |-> "error", v |-> "-", sub |-> NoTree]

Entry(t, n) == IF n \in DOMAIN t THEN t[n] ELSE None
With(t, n, e) == [m \in DOMAIN t \cup {n} |-> IF m = n THEN e ELSE t[m]]
Without(t, n) == [m \in DOMAIN t \ {n} |-> t[m]]
IsLeaf(e) == e.k \in {"blob", "link"}

\* The trees a tree object reaches, itself included.
RECURSIVE TreesIn(_)
TreesIn(t) ==
    {t} \cup UNION {TreesIn(t[n].sub) : n \in {m \in DOMAIN t : t[m].k = "dir"}}

(* find_entry_in_tree and navigate_entry: a symlink on the way ends the    *)
(* search, a blob on the way is read as a tree and fails.                  *)
RECURSIVE navigate_entry(_, _, _)
navigate_entry(have, t, p) ==
    IF p = <<>> THEN None
    ELSE IF t \notin have THEN Error
    ELSE LET e == Entry(t, Head(p)) IN
         IF Len(p) = 1 \/ e.k \in {"none", "link"}
         THEN IF Len(p) = 1 THEN e ELSE None
         ELSE IF e.k = "blob" THEN Error
         ELSE navigate_entry(have, e.sub, Tail(p))

\* splice_entry: the missing directories of the path are made, a symlink in
\* the way is replaced by a directory, a blob in the way is an error.
RECURSIVE splice_entry(_, _, _, _)
splice_entry(have, t, p, new) ==
    IF t \notin have THEN Error
    ELSE IF Len(p) = 1 THEN Dir(With(t, p[1], new))
    ELSE LET e == Entry(t, p[1])
             below == IF e.k = "dir" THEN splice_entry(have, e.sub, Tail(p), new)
                      ELSE IF e.k = "blob" THEN Error
                      ELSE splice_entry({NoTree}, NoTree, Tail(p), new)
         IN  IF below.k = "error" THEN Error ELSE Dir(With(t, p[1], below))

(* remove_entry: None when the path leads to nothing; the directories on   *)
(* the way stay, empty if need be.                                         *)
RECURSIVE remove_entry(_, _, _)
remove_entry(have, t, p) ==
    IF t \notin have THEN Error
    ELSE LET e == Entry(t, p[1]) IN
         IF Len(p) = 1
         THEN IF e.k = "none" THEN None ELSE Dir(Without(t, p[1]))
         ELSE IF e.k \in {"none", "link"} THEN None
         ELSE IF e.k = "blob" THEN Error
         ELSE LET below == remove_entry(have, e.sub, Tail(p))
              IN  IF below.k = "dir" THEN Dir(With(t, p[1], below)) ELSE below

(* flatten_tree_entries: every leaf under its path; one unreadable tree    *)
(* fails the whole flattening, which the sentinel reports.                 *)
Unreadable == [p \in {<<>>} |-> Error]
Under(prefix, f) ==
    [p \in {prefix \o q : q \in DOMAIN f} |-> f[SubSeq(p, Len(prefix) + 1, Len(p))]]
Join(f, g) == [p \in DOMAIN f \cup DOMAIN g |-> IF p \in DOMAIN f THEN f[p] ELSE g[p]]
Gather(F) == [p \in UNION {DOMAIN f : f \in F} |-> (CHOOSE f \in F : p \in DOMAIN f)[p]]

RECURSIVE flatten_into(_, _)
flatten_into(have, t) ==
    IF t \notin have THEN Unreadable
    ELSE LET part(n) == IF t[n].k # "dir" THEN [p \in {<<n>>} |-> t[n]]
                        ELSE LET f == flatten_into(have, t[n].sub)
                             IN  IF f = Unreadable THEN f ELSE Under(<<n>>, f)
             parts == {part(n) : n \in DOMAIN t}
         IN  IF Unreadable \in parts THEN Unreadable ELSE Gather(parts)

(* flatten_local_into leaves out what cannot be read, and                  *)
(* flatten_into_for_push keeps the directory's own entry beside it.        *)
RECURSIVE flatten_local_into(_, _, _)
flatten_local_into(have, t, dirs) ==
    LET part(n) ==
          IF t[n].k # "dir" THEN [p \in {<<n>>} |-> t[n]]
          ELSE Join([p \in {<<n>> : x \in IF dirs THEN {1} ELSE {}} |-> t[n]],
                    IF t[n].sub \notin have THEN NoTree
                    ELSE Under(<<n>>, flatten_local_into(have, t[n].sub, dirs)))
    IN  Gather({part(n) : n \in DOMAIN t})

\* flatten_tree_entries_scoped: the leaves at and below one path.
flatten_scoped(have, t, p) ==
    LET e == navigate_entry(have, t, p) IN
    CASE e.k = "error" -> Unreadable
      [] e.k = "none" -> NoTree
      [] e.k = "dir" -> LET f == flatten_into(have, e.sub)
                        IN  IF f = Unreadable THEN f ELSE Under(p, f)
      [] OTHER -> [q \in {p} |-> e]

(* ensure_path_in_store: the trees copied from one store to another so     *)
(* that a path can be walked there; the blob at its end is not needed.     *)
RECURSIVE ensure_path_in_store(_, _, _)
ensure_path_in_store(have, t, p) ==
    have \cup {t} \cup
    IF Len(p) <= 1 \/ Entry(t, p[1]).k # "dir" THEN {}
    ELSE ensure_path_in_store(have, t[p[1]].sub, Tail(p))
====
