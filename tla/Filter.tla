---- MODULE Filter ----
(***************************************************************************)
(* .omemfs-filter files (src/src/filter.rs).  A path is a sequence of      *)
(* names; a pattern's text is a sequence of names in which "*" stands for  *)
(* any one name (the glob's `*' never crosses a `/').  A line of a filter  *)
(* file is a section header or a pattern; comments, blank lines and the    *)
(* forms parse drops (`?' and `[') are lines of kind "dropped".            *)
(***************************************************************************)
EXTENDS Naturals, Sequences, FiniteSets, SequencesExt

Header(s) == [k |-> "header", section |-> s]
Pattern(text, anchored, negated) ==
    [k |-> "pattern", text |-> text, anchored |-> anchored, negated |-> negated]
Dropped == [k |-> "dropped"]

\* FilterFile::parse: patterns belong to the last header, [ignore] at first.
SectionAt(lines, i) ==
    LET headers == {j \in 1 .. i : lines[j].k = "header"} IN
    IF headers = {} THEN "ignore" ELSE lines[CHOOSE j \in headers : \A h \in headers : h <= j].section
parse(lines, section) ==
    LET mine == {i \in DOMAIN lines : lines[i].k = "pattern" /\ SectionAt(lines, i) = section}
    IN  [n \in 1 .. Cardinality(mine) |->
           lines[CHOOSE i \in mine : Cardinality({j \in mine : j < i}) = n - 1]]

\* glob_match and Pattern::matches
glob_match(text, p) == Len(text) = Len(p) /\ \A i \in DOMAIN p : text[i] \in {"*", p[i]}
matches(pattern, p) ==
    IF pattern.anchored THEN glob_match(pattern.text, p)
    ELSE \E i \in 1 .. Len(p) : glob_match(pattern.text, SubSeq(p, i, Len(p)))

\* Section::matches: the last pattern that matches decides.
SectionMatches(patterns, p) ==
    LET hits == {i \in DOMAIN patterns : matches(patterns[i], p)} IN
    hits # {} /\ ~patterns[CHOOSE i \in hits : \A j \in hits : j <= i].negated

(* FilterSet::test: each loaded file sees the path relative to its own     *)
(* directory, and one match in any file is enough.                         *)
test(disk, loaded, section, p) ==
    \E d \in loaded : /\ IsStrictPrefix(d, p)
                      /\ SectionMatches(parse(disk.filter[d], section), SubSeq(p, Len(d) + 1, Len(p)))
is_ignored(disk, loaded, p) == test(disk, loaded, "ignore", p)

(* load and collect_filter_files: a directory that the files loaded so far *)
(* ignore is not entered.  A file only speaks of what is below it, so the  *)
(* order of siblings does not matter: the directories entered are those    *)
(* that no filter above them ignores, on the whole way down.               *)
RECURSIVE collect_filter_files(_, _, _)
collect_filter_files(disk, dirs, loaded) ==
    LET next == {d \in dirs \ loaded : Front(d) \in loaded /\ ~is_ignored(disk, loaded, d)}
    IN  IF next = {} THEN loaded ELSE collect_filter_files(disk, dirs, loaded \cup next)
load(disk) == collect_filter_files(disk, disk.dirs, {<<>>})

(* load_scoped: the files on the way down to the scope, then those below   *)
(* it; nothing further once a directory on the way is ignored.             *)
\* Mutant: the filters above the scope are not read.
OnTheWayScopeOnly(disk, scope) == {scope} \cap disk.dirs
RECURSIVE OnTheWay(_, _)
OnTheWay(disk, scope) ==
    IF scope = <<>> THEN {<<>>}
    ELSE LET above == OnTheWay(disk, Front(scope))
         IN  IF Front(scope) \notin above \/ is_ignored(disk, above, scope) THEN above
             ELSE above \cup ({scope} \cap disk.dirs)
load_scoped(disk, scope) ==
    IF scope = <<>> THEN load(disk)
    ELSE LET way == OnTheWay(disk, scope)
         IN  IF scope \notin way THEN way
             ELSE collect_filter_files(disk, {d \in disk.dirs : IsPrefix(scope, d)}, way)

(* What the scan and a scoped push or listing leave out: a path that is    *)
(* ignored or lies below an ignored directory (is_scoped_path_ignored).    *)
Excluded(disk, loaded, p) == \E i \in 1 .. Len(p) : is_ignored(disk, loaded, SubSeq(p, 1, i))
====
