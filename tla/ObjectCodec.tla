---- MODULE ObjectCodec ----
(***************************************************************************)
(* Objects and their stored form (src/src/object.rs, src/src/codec).  A    *)
(* byte is a number; what the code tells apart are the tags, so contents   *)
(* are drawn from the tag bytes and one plain byte.  A hash is one symbol  *)
(* above 1000, injective on the byte strings of the instance.  zstd, the   *)
(* cipher and the chunker's cut points are external.                       *)
(***************************************************************************)
EXTENDS Naturals, Sequences, SequencesExt, FiniteSets

ED == 237
TYPE_TAG_BLOB == <<ED, 240>>
TYPE_TAG_TREE == <<ED, 241>>
TYPE_TAG_MANIFEST == <<ED, 242>>
TYPE_TAG_CHUNK == <<ED, 243>>

Starts(s, tag) == Len(s) >= 2 /\ SubSeq(s, 1, 2) = tag
Payload(s) == SubSeq(s, 3, Len(s))

Symbols == <<ED, 240, 241, 242, 243, 222, 223, 208, 7>>
Code(b) == IF b >= 1000 THEN 10 ELSE CHOOSE i \in DOMAIN Symbols : Symbols[i] = b
\* SHA-256, injective on what one evaluation hashes.
Hash(s) == 1000 + FoldLeft(LAMBDA acc, b : 11 * acc + Code(b), 0, s)

blob_needs_escape(s) == Len(s) >= 2 /\ s[1] = ED /\ s[2] >= 240
serialise_blob(content) == IF blob_needs_escape(content) THEN TYPE_TAG_BLOB \o content ELSE content
deserialise_blob(stored) == IF Starts(stored, TYPE_TAG_BLOB) THEN Payload(stored) ELSE stored
serialise_chunk(bytes) == TYPE_TAG_CHUNK \o bytes
deserialise_chunk(stored) == Payload(stored)
chunk_hash(bytes) == Hash(TYPE_TAG_CHUNK \o bytes)
blob_hash(content) == Hash(TYPE_TAG_BLOB \o content)
serialise_manifest(hashes) == TYPE_TAG_MANIFEST \o hashes
\* A manifest is the tag and whole hashes.
IsManifest(stored) == Starts(stored, TYPE_TAG_MANIFEST) /\ \A i \in 3 .. Len(stored) : stored[i] >= 1000

(***************************************************************************)
(* compress and decompress: the shortest of two zstd frames and the raw    *)
(* bytes, which is any of the three; raw bytes that look like a frame are  *)
(* escaped.                                                                *)
(***************************************************************************)
Zstd(s, dict) == IF dict THEN Reverse(s) \o <<1>> ELSE <<2>> \o s
Unzstd(s, dict) == IF dict THEN Reverse(SubSeq(s, 1, Len(s) - 1)) ELSE SubSeq(s, 2, Len(s))

\* Mutant: only what looks like a zstd frame is escaped, not the escape itself.
needs_escape_frames(s) == Len(s) >= 2 /\ s[1] = ED /\ s[2] \in {222, 223}
needs_escape(s) == Len(s) >= 2 /\ s[1] = ED /\ s[2] \in 208 .. 223
compress(s, best) ==
    CASE best = "dict" -> <<ED, 222>> \o Zstd(s, TRUE)
      [] best = "plain" -> <<ED, 223>> \o Zstd(s, FALSE)
      [] OTHER -> IF needs_escape(s) THEN <<ED, 208>> \o s ELSE s
decompress(s) ==
    IF Len(s) < 2 \/ s[1] # ED THEN s
    ELSE CASE s[2] = 222 -> Unzstd(Payload(s), TRUE)
           [] s[2] = 223 -> Unzstd(Payload(s), FALSE)
           [] s[2] = 208 -> Payload(s)
           [] OTHER -> s

\* encrypt and decrypt: the cipher authenticates, so a wrong key is noticed.
NoKey == 0
Mismatch == <<9999>>
encrypt(s, key) == [key |-> key, bytes |-> s]
decrypt(stored, key) == IF stored.key = key THEN stored.bytes ELSE Mismatch
encode(s, key, best) == encrypt(compress(s, best), key)
decode(stored, key) ==
    IF decrypt(stored, key) = Mismatch THEN Mismatch ELSE decompress(decrypt(stored, key))

\* A store maps hashes to stored objects; store_write keeps what is there.
EmptyStore == [h \in {} |-> h]
store_write(store, h, s, key, best) ==
    IF h \in DOMAIN store THEN store
    ELSE [g \in DOMAIN store \cup {h} |-> IF g = h THEN encode(s, key, best) ELSE store[g]]
store_read(store, h, key) == decode(store[h], key)

(***************************************************************************)
(* store_chunked: two chunks or more are stored one by one, the logical    *)
(* hash naming their manifest; a single chunk is the object itself.  cuts  *)
(* are the positions the chunker ends a chunk at.                          *)
(***************************************************************************)
Chunks(s, cuts) ==
    LET ends == SetToSortSeq(cuts \cup {Len(s)}, <)
    IN  [i \in DOMAIN ends |-> SubSeq(s, IF i = 1 THEN 1 ELSE ends[i - 1] + 1, ends[i])]
StoreChunks(store, chunks, key, best) ==
    FoldLeft(LAMBDA st, c : store_write(st, chunk_hash(c), serialise_chunk(c), key, best), store, chunks)
StoreUnder(store, logical, chunks, key, best) ==
    IF Len(chunks) < 2 THEN store_write(store, logical, IF chunks = <<>> THEN <<>> ELSE chunks[1], key, best)
    ELSE store_write(StoreChunks(store, chunks, key, best), logical,
                     serialise_manifest([i \in DOMAIN chunks |-> chunk_hash(chunks[i])]), key, best)
store_file(store, content, cuts, key, best) ==
    StoreUnder(store, blob_hash(content), Chunks(serialise_blob(content), cuts), key, best)

(* stream_file_once and finish_streamed_file: a large file is hashed and   *)
(* chunked in one pass, the escape put in front of the stream and taken    *)
(* off the first chunk before it is hashed.                                *)
StreamedRaw(content, cuts) ==
    LET chunks == Chunks(serialise_blob(content), cuts)
        raw(i) == IF i = 1 /\ blob_needs_escape(content) THEN Payload(chunks[i]) ELSE chunks[i]
    IN  FoldLeft(LAMBDA acc, c : acc \o c, <<>>, [i \in DOMAIN chunks |-> raw(i)])
stream_file(store, content, cuts, key, best) ==
    StoreUnder(store, Hash(TYPE_TAG_BLOB \o StreamedRaw(content, cuts)),
               Chunks(serialise_blob(content), cuts), key, best)

\* for_each_blob_chunk: the escape is taken off the first chunk only.
load_blob(store, logical, key) ==
    LET raw == store_read(store, logical, key) IN
    IF ~IsManifest(raw) THEN deserialise_blob(raw)
    ELSE LET part(i) == deserialise_chunk(store_read(store, raw[i + 2], key))
         IN  FoldLeft(LAMBDA acc, c : acc \o c, <<>>,
                      [i \in 1 .. Len(raw) - 2 |-> IF i = 1 THEN deserialise_blob(part(i)) ELSE part(i)])

(* blob_fully_cached: a blob is complete when its object is there and, if  *)
(* that is a manifest, its chunks are.  peek_rules_out_manifest looks at   *)
(* the first two stored bytes only.                                        *)
\* Mutant: a compressed frame counts as no manifest.
peek_rules_out_frames(bytes) == ~Starts(bytes, TYPE_TAG_MANIFEST)
peek_rules_out_manifest(bytes) ==
    Len(bytes) < 2 \/ ~(bytes[1] = ED /\ bytes[2] \in {242, 222, 223})
blob_fully_cached(store, logical) ==
    /\ logical \in DOMAIN store
    /\ \/ peek_rules_out_manifest(store[logical].bytes)
       \/ LET raw == store_read(store, logical, NoKey)
          IN  IsManifest(raw) => \A i \in 3 .. Len(raw) : raw[i] \in DOMAIN store
====
