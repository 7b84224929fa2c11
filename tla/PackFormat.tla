---- MODULE PackFormat ----
(***************************************************************************)
(* Where the bytes of an object end up at the remote and how they are read *)
(* back: the routing of PackWriter (codec/pack/writer.rs), index files     *)
(* (index.rs), INDEX_ROOT (index_root.rs), the Bloom filter (bloom.rs) and *)
(* PackReader's lookup and slices (reader.rs).                             *)
(*                                                                         *)
(* Bytes are sequences of chunks with lengths: the two leading bytes are   *)
(* one chunk (Mark(b): 0xED and b; Mark(0): anything else), the rest of an *)
(* object another.  A hash is a pair of numbers below Word: the prefix     *)
(* bits and the two halves the filter mixes come from it.                  *)
(***************************************************************************)
EXTENDS Naturals, Sequences, SequencesExt, FiniteSets

INLINE_THRESHOLD == 256
PACK_THRESHOLD == 1048576
PACK_TARGET == 4 * 1048576
PACK_MAX == 16 * 1048576
PackMagic == 225
IndexMagic == 226
BloomMagic == 228
EscapeMagic == 224
Word == 8
WordBits == 3

Mark(b) == [mark |-> b, of |-> <<>>, size |-> 2]
Rest(h, n) == [mark |-> 0, of |-> h, size |-> n]
Bytes(o) == IF o.size < 2 THEN <<Rest(o.hash, o.size)>> ELSE <<Mark(o.mark), Rest(o.hash, o.size - 2)>>
NotFound == <<>>
Garbage == <<Mark(255)>>
RECURSIVE Size(_)
Size(bytes) == IF bytes = <<>> THEN 0 ELSE Head(bytes).size + Size(Tail(bytes))

-----------------------------------------------------------------------------
(* Index files: sorted by hash, the last entry pushed for a hash wins; a   *)
(* function here.  Lengths of inline data are stored in one byte.          *)

NoIndex == [h \in {} |-> {}]
push(idx, h, entry) == [x \in DOMAIN idx \cup {h} |-> IF x = h THEN entry ELSE idx[x]]
serialise(idx) ==
    [h \in DOMAIN idx |-> IF idx[h].tag = "inline" THEN [idx[h] EXCEPT !.len = @ % 256] ELSE idx[h]]

-----------------------------------------------------------------------------
(* The Bloom filter.                                                       *)

\* No filter, one the reader cannot use, and one of no bits are alike.
EmptyFilter(bits, functions) == [bits |-> bits, functions |-> functions, set |-> {}]
bit_index(h, k, bits) == ((h[1] + k * h[2]) % Word) % bits
insert(f, h) ==
    IF f.bits = 0 THEN f
    ELSE [f EXCEPT !.set = @ \cup {bit_index(h, k, f.bits) : k \in 0 .. f.functions - 1}]
may_contain(f, h) == f.bits = 0 \/ \A k \in 0 .. f.functions - 1 : bit_index(h, k, f.bits) \in f.set
structural_defect(f) == f.bits = 0 \/ f.functions = 0
NoFilter == EmptyFilter(0, 0)

-----------------------------------------------------------------------------
(* A writer session.                                                       *)

\* INDEX_ROOT: the tiers of the index and the filter; a pack run fills cold.
NoRoot == [deltas |-> <<>>, hot |-> NoIndex, bits |-> 0, cold |-> <<NoIndex>>, filter |-> NoFilter]
load_remote_bloom(root, fresh) == IF structural_defect(root.filter) THEN fresh ELSE root.filter
PackWriterNew(root, remote, fresh) ==
    [delta |-> NoIndex, buf |-> <<>>, pending |-> <<>>, filter |-> load_remote_bloom(root, fresh),
     remote |-> remote, root |-> root]

Put(remote, key, bytes) == [k \in DOMAIN remote \cup {key} |-> IF k = key THEN bytes ELSE remote[k]]

\* A pack is named by its content.
flush_pack(s) ==
    IF s.pending = <<>> THEN s
    ELSE LET pack == <<Mark(PackMagic)>> \o s.buf
             entries == FoldLeft(LAMBDA idx, e : push(idx, e.hash,
                                   [tag |-> "pack", pack |-> pack, offset |-> e.offset, len |-> e.len, data |-> <<>>]),
                                 s.delta, s.pending)
         IN  [s EXCEPT !.remote = Put(@, <<"pack", pack>>, pack), !.delta = entries, !.pending = <<>>, !.buf = <<>>]

\* Mutant: a leading ED E0 is not escaped.
needs_escape_magics(bytes) == bytes[1].mark \in PackMagic .. 239
\* A standalone object that begins like a container file gets a prefix.
needs_escape(bytes) == bytes[1].mark \in 224 .. 239

route(s, o) ==
    LET bytes == Bytes(o)
        known == [s EXCEPT !.filter = insert(@, o.hash)]
        entry(tag, data, len) == [tag |-> tag, pack |-> <<>>, offset |-> 0, len |-> len, data |-> data]
    IN  IF o.size < INLINE_THRESHOLD
        THEN [known EXCEPT !.delta = push(@, o.hash, entry("inline", bytes, o.size))]
        ELSE IF o.size < PACK_THRESHOLD
        THEN LET t == [known EXCEPT !.buf = @ \o bytes,
                                    !.pending = Append(@, [hash |-> o.hash, offset |-> Size(s.buf), len |-> o.size])]
             IN  IF Size(t.buf) >= PACK_TARGET \/ Size(t.buf) >= PACK_MAX THEN flush_pack(t) ELSE t
        ELSE [known EXCEPT !.delta = push(@, o.hash, entry("standalone", <<>>, o.size)),
                           !.remote = Put(@, <<"object", o.hash>>, IF needs_escape(bytes) THEN <<Mark(EscapeMagic)>> \o bytes ELSE bytes)]

hash_prefix(h, bits) == h[1] \div 2 ^ (WordBits - bits)
cold_shard_hash_for(root, h) == root.cold[hash_prefix(h, root.bits) + 1]

index_contains(root, h) ==
    \/ \E i \in DOMAIN root.deltas : h \in DOMAIN root.deltas[i]
    \/ h \in DOMAIN root.hot
    \/ h \in DOMAIN cold_shard_hash_for(root, h)
exists(s, h) ==
    \/ h \in DOMAIN s.delta
    \/ \E i \in DOMAIN s.pending : s.pending[i].hash = h
    \/ may_contain(s.filter, h) /\ index_contains(s.root, h)

write_from(s, o) == IF exists(s, o.hash) THEN s ELSE route(s, o)

\* finish: the last pack, the session's index as the newest delta, the filter,
\* then the new root.  Files other than standalone objects are named by what
\* they hold.
finish(s) ==
    LET t == flush_pack(s)
        delta == serialise(t.delta)
        indexed == IF t.delta = NoIndex THEN t.remote ELSE Put(t.remote, <<"index", delta>>, <<Mark(IndexMagic)>>)
    IN  [remote |-> Put(indexed, <<"bloom", t.filter>>, <<Mark(BloomMagic)>>),
         root |-> [t.root EXCEPT !.deltas = IF t.delta = NoIndex THEN @ ELSE <<delta>> \o @, !.filter = t.filter]]

\* A push: the objects that are missing, one by one.
upload(root, remote, fresh, objects) == finish(FoldLeft(write_from, PackWriterNew(root, remote, fresh), objects))

-----------------------------------------------------------------------------
(* The reader.                                                             *)

\* locate: deltas, the hot tier, a cold shard that is cached, then the
\* filter before a shard is downloaded.
locate(root, cached, h) ==
    LET hits == SelectSeq(root.deltas, LAMBDA d : h \in DOMAIN d)
        shard == cold_shard_hash_for(root, h)
        ruledOut == ~cached /\ ~structural_defect(root.filter) /\ ~may_contain(root.filter, h)
    IN  IF hits # <<>> THEN hits[1][h]
        ELSE IF h \in DOMAIN root.hot THEN root.hot[h]
        ELSE IF h \in DOMAIN shard /\ ~ruledOut THEN shard[h]
        ELSE [tag |-> "not found"]

Start(bytes, i) == Size(SubSeq(bytes, 1, i - 1))
\* fetch_pack_slice: length bytes from offset on, after the magic.
fetch_pack_slice(pack, offset, len) ==
    LET from == 2 + offset
        firsts == {i \in DOMAIN pack : Start(pack, i) = from}
        lasts == {i \in DOMAIN pack : Start(pack, i + 1) = from + len}
    IN  IF firsts = {} \/ lasts = {} THEN Garbage
        ELSE SubSeq(pack, CHOOSE i \in firsts : TRUE, CHOOSE i \in lasts : TRUE)

unescape_standalone(bytes) == IF bytes[1].mark = EscapeMagic THEN Tail(bytes) ELSE bytes

resolve_entry(e, remote, h) ==
    CASE e.tag = "inline" -> IF e.len = Size(e.data) THEN e.data ELSE Garbage
      [] e.tag = "pack" -> fetch_pack_slice(remote[<<"pack", e.pack>>], e.offset, e.len)
      [] e.tag = "standalone" -> unescape_standalone(remote[<<"object", h>>])

fetch_from_remote_direct(remote, key) == IF key \in DOMAIN remote THEN unescape_standalone(remote[key]) ELSE NotFound
\* Without an INDEX_ROOT every object is looked for under its own name.
resolve(root, remote, cached, h) ==
    LET e == locate(root, cached, h)
    IN  IF root = NoRoot THEN fetch_from_remote_direct(remote, <<"object", h>>)
        ELSE IF e.tag = "not found" THEN NotFound ELSE resolve_entry(e, remote, h)

\* resolve_prefix: every hash of any tier that begins with the given bits.
resolve_prefix(root, prefix, bits) ==
    LET tiers == {root.deltas[i] : i \in DOMAIN root.deltas} \cup {root.hot} \cup {root.cold[i] : i \in DOMAIN root.cold}
    IN  {h \in UNION {DOMAIN t : t \in tiers} : hash_prefix(h, bits) = prefix}
====
