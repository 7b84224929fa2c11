---- MODULE PathNames ----
(***************************************************************************)
(* What a path on the command line means and which names may appear in a   *)
(* tree: repo.rs (normalize_path), object.rs (reserved names, names of     *)
(* tree entries), fsguard.rs (components below the working tree).          *)
(*                                                                         *)
(* A path is a sequence of names.  A name is a sequence of pieces: a stem, *)
(* and the reserved suffixes .omemfs-<kind> that follow it.                *)
(***************************************************************************)
EXTENDS Naturals, Sequences, SequencesExt

CONSTANTS
    Links,       \* Links[p]: absolute paths that are symbolic links, and where they lead
    Existing     \* absolute paths that exist

Dot == <<".">>
DotDot == <<"..">>
Malformed == {<<"">>, Dot, DotDot, <<"a/b">>, <<"nul">>}
Metadata == <<".omemfs">>
FilterName == <<"", "filter">>
DIR_STUB_NAME == <<"", "stub">>
CONFLICT_ARTIFACT_SUFFIXES == {"conflict-base", "conflict-local", "conflict-remote", "conflict-meta"}

is_metadata_dir_name(n) == n = Metadata
is_reserved_name(n) == Len(n) > 1
is_conflict_artifact(n) == Last(n) \in CONFLICT_ARTIFACT_SUFFIXES
is_working_tree_tmp(n) == Len(n) > 1 /\ n[1] = "" /\ n[2] = "tmp"
is_stub_filename(n) == Last(n) = "stub"
logical_name(n) == Front(n)
is_unknown_reserved_name(n) ==
    /\ is_reserved_name(n)
    /\ ~(is_stub_filename(n) \/ is_conflict_artifact(n) \/ is_working_tree_tmp(n) \/ n = FilterName)

-----------------------------------------------------------------------------
(* Names in trees.                                                         *)

\* fsguard's validate_component and object.rs' validate_entry_name.
validate_component(n) == n \notin Malformed
validate_entry_name(n) ==
    validate_component(n) /\ ~is_metadata_dir_name(n) /\ (n = FilterName \/ ~is_reserved_name(n))

\* A tree is read back only if all its names are acceptable.
TreeError == {<<"error">>}
deserialise(names) == IF \A n \in names : validate_entry_name(n) THEN names ELSE TreeError

\* The scan of a directory: the names on disk it passes over, and the names
\* its entries get.
Skipped(n) ==
    \/ is_metadata_dir_name(n) \/ is_conflict_artifact(n) \/ is_working_tree_tmp(n)
    \/ is_unknown_reserved_name(n) \/ n = DIR_STUB_NAME
scan_names(disk) == {IF is_stub_filename(n) THEN logical_name(n) ELSE n : n \in {x \in disk : ~Skipped(x)}}

-----------------------------------------------------------------------------
(* Paths on the command line.                                              *)

\* lexically_normalize of an absolute path: "." goes, ".." takes the name
\* before it, and is dropped at the root.
lexically_normalize(path) ==
    FoldLeft(LAMBDA out, c : IF c = Dot THEN out
                             ELSE IF c # DotDot THEN Append(out, c)
                             ELSE IF out = <<>> THEN out ELSE Front(out),
             <<>>, path)

\* canonicalize of the longest prefix that exists, the rest appended.
canonicalize(path) ==
    LET at == {n \in 1 .. Len(path) : SubSeq(path, 1, n) \in DOMAIN Links}
    IN  IF at = {} THEN path
        ELSE LET n == CHOOSE n \in at : \A m \in at : m <= n
             IN  Links[SubSeq(path, 1, n)] \o SubSeq(path, n + 1, Len(path))
canonical_abs(path) ==
    LET p == lexically_normalize(path)
        ok == {n \in 0 .. Len(p) : canonicalize(SubSeq(p, 1, n)) \in Existing}
        n == CHOOSE n \in ok : \A m \in ok : m <= n
    IN  canonicalize(SubSeq(p, 1, n)) \o SubSeq(p, n + 1, Len(p))

Outside == <<"outside">>
normalize_path(root, cwd, path) ==
    LET abs == IF path.absolute THEN canonical_abs(path.parts) ELSE lexically_normalize(cwd \o path.parts)
    IN  IF IsPrefix(root, abs) THEN SubSeq(abs, Len(root) + 1, Len(abs)) ELSE Outside

\* Mutant: the last name is all that is looked at.
ReservedLast(rel) ==
    rel # <<>> /\ LET n == Last(rel) IN is_metadata_dir_name(n) \/ (n # FilterName /\ is_reserved_name(n))
Reserved(rel) ==
    \E i \in DOMAIN rel : is_metadata_dir_name(rel[i]) \/ (rel[i] # FilterName /\ is_reserved_name(rel[i]))
normalize_addressable_path(root, cwd, path) ==
    LET rel == normalize_path(root, cwd, path)
    IN  IF rel = Outside \/ Reserved(rel) THEN Outside ELSE rel

\* Repo::discover: the nearest directory with metadata, going up.
discover(repos, start) ==
    LET ups == {n \in 0 .. Len(start) : SubSeq(start, 1, n) \in repos}
    IN  IF ups = {} THEN Outside ELSE SubSeq(start, 1, CHOOSE n \in ups : \A m \in ups : m <= n)
====
