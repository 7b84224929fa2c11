---- MODULE Inspect ----
(***************************************************************************)
(* What stats --remote counts (commands/stats.rs) and what cat finds       *)
(* (commands/cat.rs) at a remote laid out as PackFormat says.              *)
(***************************************************************************)
EXTENDS PackFormat

-----------------------------------------------------------------------------
(* stats: the names INDEX_ROOT leads to, and a class for every file.       *)

Tiers(root) ==
    {i \in Range(root.deltas) \cup {root.hot} \cup Range(root.cold) : i # NoIndex}
Absorbed(root, tag) == UNION {{[hash |-> h, pack |-> i[h].pack] : h \in {x \in DOMAIN i : i[x].tag = tag}} : i \in Tiers(root)}
collect_known_keys(root) ==
    [pack |-> {<<"pack", e.pack>> : e \in Absorbed(root, "pack")},
     index |-> {<<"index", i>> : i \in Tiers(root)},
     bloom |-> {<<"bloom", root.filter>>},
     standalone |-> {<<"object", e.hash>> : e \in Absorbed(root, "standalone")}]

\* Mutant: files the index no longer leads to are not told apart.
class_by_kind(known, key) ==
    CASE key[1] = "pack" -> "pack" [] key[1] = "index" -> "index" [] key[1] = "bloom" -> "bloom" [] OTHER -> "standalone"
class(known, key) ==
    CASE key \in known.pack -> "pack"
      [] key \in known.index -> "index"
      [] key \in known.bloom -> "bloom"
      [] key \in known.standalone -> "standalone"
      [] OTHER -> "orphan"
\* INDEX_ROOT is counted on its own; without one there is nothing to show.
classify_remote(root, remote) ==
    IF root = NoRoot THEN [k \in {} |-> ""]
    ELSE LET known == collect_known_keys(root) IN [key \in DOMAIN remote |-> class(known, key)]

-----------------------------------------------------------------------------
(* cat: a target is a full hash or the leading bits of one.                *)

MIN_HASH_PREFIX_LEN == 1
\* What cat answers in place of a hash.
Absent == <<>>
Ambiguous == <<0>>
TooShort == <<1>>
PackFile == <<2>>
Full(h) == [full |-> TRUE, hash |-> h, bits |-> WordBits, value |-> h[1]]
Short(bits, value) == [full |-> FALSE, hash |-> Absent, bits |-> bits, value |-> value]
Says(what) == [hash |-> what, bytes |-> NotFound, warned |-> FALSE]

Unique(matches) ==
    IF matches = {} THEN Absent ELSE IF Cardinality(matches) = 1 THEN CHOOSE h \in matches : TRUE ELSE Ambiguous
resolve_hash(local, t) ==
    IF t.full THEN (IF t.hash \in local THEN t.hash ELSE Absent)
    ELSE IF t.bits < MIN_HASH_PREFIX_LEN THEN TooShort
    ELSE Unique({h \in local : hash_prefix(h, t.bits) = t.value})
resolve_prefix_on_remote(root, t) == Unique(resolve_prefix(root, t.value, t.bits))

\* LiveFallback: what the index misses is looked for under its own name.
resolve_diagnostic(root, remote, cached, h) ==
    LET found == resolve(root, remote, cached, h)
    IN  IF found # NotFound THEN [bytes |-> found, outside |-> FALSE]
        ELSE [bytes |-> fetch_from_remote_direct(remote, <<"object", h>>), outside |-> TRUE]
(* Index files and filters are told by their magic, logical objects are    *)
(* decoded.  A logical object under its own name is standalone, so it is   *)
(* never too short, and the bytes its writer made decode; the hash of a    *)
(* container (pack, index file, filter) is not among the questions.        *)
print_pack_object(root, remote, cached, h) ==
    LET raw == resolve_diagnostic(root, remote, cached, h)
    IN  IF raw.bytes = NotFound THEN Says(Absent)
        ELSE IF raw.bytes[1].mark = EscapeMagic THEN Says(PackFile)
        ELSE [hash |-> h, bytes |-> raw.bytes, warned |-> raw.outside]

\* cat <hash or prefix>: the local cache, the snapshot, then for a full hash the
\* remote file itself.  local: the hashes that are cached.
cat(local, content, root, remote, cached, t) ==
    LET here == resolve_hash(local, t)
        there == IF t.full THEN t.hash ELSE resolve_prefix_on_remote(root, t)
    IN  IF here \in local THEN [hash |-> here, bytes |-> content[here], warned |-> FALSE]
        ELSE IF here # Absent THEN Says(here)
        ELSE IF there \in {Absent, Ambiguous} THEN Says(there)
        ELSE IF resolve(root, remote, cached, there) # NotFound
        THEN [hash |-> there, bytes |-> resolve(root, remote, cached, there), warned |-> FALSE]
        ELSE IF t.full THEN print_pack_object(root, remote, cached, there)
        ELSE Says(Absent)
====
