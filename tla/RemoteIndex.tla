---------------------------- MODULE RemoteIndex ----------------------------
(***************************************************************************)
(* The pack layer's index on the remote, shared by every clone: INDEX_ROOT *)
(* replaced by compare-and-swap (codec/pack/root_pointer.rs), push         *)
(* sessions that upload the objects a new root needs and append one delta  *)
(* index (codec/pack/writer.rs, commands/push.rs), and `omemfs pack`,      *)
(* which folds the deltas into the hot index, moves entries to the cold    *)
(* shards, consolidates small packs and splits an oversized shard          *)
(* (commands/pack.rs).  The lookup is the one of codec/pack/reader.rs.     *)
(*                                                                         *)
(* An index file, a pack file and a Bloom filter are stored under the hash *)
(* of their content and never change, so each is represented by its        *)
(* content: an index file is a function from object hashes to locations, a *)
(* pack the set of hashes whose bytes it holds, a filter the set of hashes *)
(* inserted into it.  The all-zero slot and the empty index file are       *)
(* looked up alike and never occur in one root; both are EmptyIndex.       *)
(***************************************************************************)
EXTENDS Integers, Sequences, FiniteSets

CONSTANTS
    Clients,        \* the clones, each running one command at a time
    Hashes,         \* the logical objects: trees, blobs, manifests, chunks
    Roots,          \* the root trees a push may publish
    Children,       \* Children[h]: the objects h refers to
    Kind,           \* Kind[h]: the route the object's stored size selects
    Prefix,         \* Prefix[h]: the first byte of the hash
    Prefixes,       \* the byte values, i.e. the slots of cold_shards at 8 bits
    NoRoot,         \* INDEX_ROOT is absent
    PackTarget,     \* entries at which a buffered pack is flushed
    SmallPack,      \* CONSOLIDATION_THRESHOLD, in entries
    ShardLimit,     \* COLD_SHARD_SPLIT_THRESHOLD, in entries
    MaxDeltas,      \* delta_count is a u16
    MaxCommits      \* bound on successful replacements of INDEX_ROOT

ASSUME HashAssumption ==
    /\ Roots \subseteq Hashes /\ Roots # {}
    /\ Children \in [Hashes -> SUBSET Hashes]
    /\ Kind \in [Hashes -> {"inline", "pack", "standalone"}]
    /\ 0 \in Prefixes
    /\ Prefix \in [Hashes -> Prefixes]
ASSUME BoundAssumption ==
    /\ PackTarget \in Nat /\ SmallPack \in Nat /\ ShardLimit \in Nat
    /\ MaxDeltas \in Nat /\ MaxCommits \in Nat

\* Where the bytes of an object are: in the index itself, in a pack, or in
\* an object of their own.
NoLoc == [kind |-> "none", pack |-> {}]
Inline == [kind |-> "inline", pack |-> {}]
Standalone == [kind |-> "standalone", pack |-> {}]
InPack(p) == [kind |-> "pack", pack |-> p]
Locations == [kind : {"none", "inline", "standalone", "pack"}, pack : SUBSET Hashes]

IndexFiles == [Hashes -> Locations]
EmptyIndex == [h \in Hashes |-> NoLoc]
Entries(idx) == {h \in Hashes : idx[h] # NoLoc}

IndexRoots == [remote_root : Hashes,
               hot : IndexFiles,
               delta_hashes : {d \in Seq(IndexFiles) : Len(d) <= MaxDeltas},
               cold_prefix_bits : {0, 8},
               cold_shards : [Prefixes -> IndexFiles],
               bloom : SUBSET Hashes]
MaybeRoot == IndexRoots \cup {NoRoot}

ASSUME NoRootAssumption == NoRoot \notin IndexRoots

VARIABLES
    root,       \* INDEX_ROOT
    packs,      \* the pack files on the remote
    loose,      \* the standalone objects on the remote
    mode,       \* mode[c]: what clone c is doing
    snap,       \* snap[c]: the INDEX_ROOT its command read (also the CAS token)
    target,     \* target[c]: the root its push publishes
    queue,      \* queue[c]: hashes the upload walk has still to visit
    delta,      \* delta[c]: PackWriter.delta
    pending,    \* pending[c]: the objects in PackWriter.pack_buf
    filter,     \* filter[c]: PackWriter.bloom
    draft,      \* draft[c]: the INDEX_ROOT it is about to write
    astray,     \* astray[c]: entries its pack run filed under a shard no lookup of them reads
    ever,       \* every hash some INDEX_ROOT has covered (history)
    misfiled,   \* every hash a committed pack run filed astray (history)
    commits     \* successful replacements of INDEX_ROOT

session == <<mode, snap, target, queue, delta, pending, filter, draft, astray>>
history == <<ever, misfiled, commits>>
vars == <<root, packs, loose, session, history>>

TypeOK ==
    /\ root \in MaybeRoot
    /\ packs \subseteq SUBSET Hashes
    /\ loose \subseteq Hashes
    /\ mode \in [Clients -> {"idle", "push", "pushCommit", "pack", "packCommit"}]
    /\ snap \in [Clients -> MaybeRoot]
    /\ target \in [Clients -> Roots]
    /\ queue \in [Clients -> SUBSET Hashes]
    /\ delta \in [Clients -> IndexFiles]
    /\ pending \in [Clients -> SUBSET Hashes]
    /\ filter \in [Clients -> SUBSET Hashes]
    /\ draft \in [Clients -> MaybeRoot]
    /\ astray \in [Clients -> SUBSET Hashes]
    /\ ever \subseteq Hashes
    /\ misfiled \subseteq Hashes
    /\ commits \in Nat

-----------------------------------------------------------------------------
(* Lookup.                                                                 *)

\* The shard slot that covers h; at 0 bits the one slot covers everything.
cold_shard_hash_for(h, r) ==
    r.cold_shards[IF r.cold_prefix_bits > 0 THEN Prefix[h] ELSE 0]

\* Found in a delta or in the hot index.
InDeltaOrHot(r, h) ==
    \/ \E i \in DOMAIN r.delta_hashes : r.delta_hashes[i][h] # NoLoc
    \/ r.hot[h] # NoLoc

InCold(r, h) == cold_shard_hash_for(h, r)[h] # NoLoc

\* PackWriter.index_contains.
index_contains(r, h) == r # NoRoot /\ (InDeltaOrHot(r, h) \/ InCold(r, h))

\* PackReader.locate by a clone that has not cached the covering shard: the
\* Bloom filter decides whether the shard is looked at.
locate(r, h) == InDeltaOrHot(r, h) \/ (h \in r.bloom /\ InCold(r, h))

\* Every location the index files of r record for h.
Recorded(r, h) ==
    {r.delta_hashes[i][h] : i \in DOMAIN r.delta_hashes}
        \cup {r.hot[h], cold_shard_hash_for(h, r)[h]}

\* The bytes the location promises are on the remote.
HasBytes(loc, h) ==
    /\ loc.kind = "pack" => loc.pack \in packs /\ h \in loc.pack
    /\ loc.kind = "standalone" => h \in loose

\* A reader of r gets the bytes of h.
Resolvable(r, h) ==
    locate(r, h) /\ \A loc \in Recorded(r, h) : HasBytes(loc, h)

\* Everything reachable from h.
Closed(S) == \A h \in S : Children[h] \subseteq S
Reachable(h) == {x \in Hashes : \A S \in SUBSET Hashes : (h \in S /\ Closed(S)) => x \in S}

Covered(r) == {h \in Hashes : index_contains(r, h)}

-----------------------------------------------------------------------------
(* The push session: PackWriter.                                           *)

\* What target[c] holds when no push is under way; never read.
NoTarget == CHOOSE t \in Roots : TRUE

IdleSession(c) ==
    /\ mode' = [mode EXCEPT ![c] = "idle"]
    /\ snap' = [snap EXCEPT ![c] = NoRoot]
    /\ queue' = [queue EXCEPT ![c] = {}]
    /\ delta' = [delta EXCEPT ![c] = EmptyIndex]
    /\ pending' = [pending EXCEPT ![c] = {}]
    /\ filter' = [filter EXCEPT ![c] = {}]
    /\ draft' = [draft EXCEPT ![c] = NoRoot]
    /\ astray' = [astray EXCEPT ![c] = {}]
    /\ target' = [target EXCEPT ![c] = NoTarget]

\* PackWriter::new reads INDEX_ROOT once; its value is the CAS token too.
PushBegin(c, t) ==
    /\ mode[c] = "idle" /\ commits < MaxCommits
    /\ mode' = [mode EXCEPT ![c] = "push"]
    /\ snap' = [snap EXCEPT ![c] = root]
    /\ target' = [target EXCEPT ![c] = t]
    /\ queue' = [queue EXCEPT ![c] = {t}]
    /\ filter' = [filter EXCEPT ![c] = IF root = NoRoot THEN {} ELSE root.bloom]
    /\ UNCHANGED <<root, packs, loose, delta, pending, draft, astray, history>>

\* Mutant: bytes an interrupted push left behind count as existing.
exists_bytes(c, h) ==
    \/ delta[c][h] # NoLoc
    \/ h \in pending[c]
    \/ h \in filter[c] /\ index_contains(snap[c], h)
    \/ h \in loose

\* PackWriter.exists: an index miss is "absent" even when an interrupted push
\* left the bytes on the remote.
exists(c, h) ==
    \/ delta[c][h] # NoLoc
    \/ h \in pending[c]
    \/ h \in filter[c] /\ index_contains(snap[c], h)

\* The walk meets an object the remote already has: its subtree is skipped.
UploadSkip(c, h) ==
    /\ mode[c] = "push" /\ h \in queue[c] /\ exists(c, h)
    /\ queue' = [queue EXCEPT ![c] = @ \ {h}]
    /\ UNCHANGED <<root, packs, loose, mode, snap, target, delta, pending, filter,
                   draft, astray, history>>

Uploaded(c, h) ==
    /\ mode[c] = "push" /\ h \in queue[c] /\ ~exists(c, h)
    /\ queue' = [queue EXCEPT ![c] = (@ \ {h}) \cup Children[h]]
    /\ filter' = [filter EXCEPT ![c] = @ \cup {h}]

\* delta with the buffered objects moved into the pack p.
FlushedInto(idx, p) == [h \in Hashes |-> IF h \in p THEN InPack(p) ELSE idx[h]]

\* PackWriter.route, one action per size class.
RouteInline(c, h) ==
    /\ Kind[h] = "inline" /\ Uploaded(c, h)
    /\ delta' = [delta EXCEPT ![c][h] = Inline]
    /\ UNCHANGED <<root, packs, loose, mode, snap, target, pending, draft, astray, history>>

RoutePack(c, h) ==
    /\ Kind[h] = "pack" /\ Uploaded(c, h)
    /\ LET buf == pending[c] \cup {h} IN
         IF Cardinality(buf) >= PackTarget
         THEN /\ packs' = packs \cup {buf}
              /\ delta' = [delta EXCEPT ![c] = FlushedInto(@, buf)]
              /\ pending' = [pending EXCEPT ![c] = {}]
         ELSE /\ pending' = [pending EXCEPT ![c] = buf]
              /\ UNCHANGED <<packs, delta>>
    /\ UNCHANGED <<root, loose, mode, snap, target, draft, astray, history>>

RouteStandalone(c, h) ==
    /\ Kind[h] = "standalone" /\ Uploaded(c, h)
    /\ loose' = loose \cup {h}
    /\ delta' = [delta EXCEPT ![c][h] = Standalone]
    /\ UNCHANGED <<root, packs, mode, snap, target, pending, draft, astray, history>>

EmptyRoot(t) == [remote_root |-> t, hot |-> EmptyIndex, delta_hashes |-> <<>>,
                 cold_prefix_bits |-> 0,
                 cold_shards |-> [p \in Prefixes |-> EmptyIndex], bloom |-> {}]

\* The INDEX_ROOT a push writes: the snapshot with its delta in front, unless
\* the delta is empty, and the new root and filter.
PushedRoot(c, d) ==
    LET base == IF snap[c] = NoRoot THEN EmptyRoot(target[c]) ELSE snap[c] IN
      [base EXCEPT !.remote_root = target[c],
                   !.delta_hashes = IF d = EmptyIndex THEN @ ELSE <<d>> \o @,
                   !.bloom = filter[c]]

\* Mutant: serialise does not check that delta_count fits its field.
FinishUnchecked(c) ==
    /\ mode[c] = "push" /\ queue[c] = {}
    /\ LET d == IF pending[c] = {} THEN delta[c] ELSE FlushedInto(delta[c], pending[c]) IN
         /\ packs' = IF pending[c] = {} THEN packs ELSE packs \cup {pending[c]}
         /\ draft' = [draft EXCEPT ![c] = PushedRoot(c, d)]
    /\ mode' = [mode EXCEPT ![c] = "pushCommit"]
    /\ pending' = [pending EXCEPT ![c] = {}]
    /\ delta' = [delta EXCEPT ![c] = EmptyIndex]
    /\ UNCHANGED <<root, loose, snap, target, queue, filter, astray, history>>

\* PackWriter.finish up to the compare-and-swap: flush the last pack, write
\* the delta index and the filter, build the new INDEX_ROOT.
FinishPrepare(c) ==
    /\ mode[c] = "push" /\ queue[c] = {}
    /\ LET d == IF pending[c] = {} THEN delta[c] ELSE FlushedInto(delta[c], pending[c]) IN
         /\ packs' = IF pending[c] = {} THEN packs ELSE packs \cup {pending[c]}
         /\ Len(PushedRoot(c, d).delta_hashes) <= MaxDeltas
         /\ draft' = [draft EXCEPT ![c] = PushedRoot(c, d)]
    /\ mode' = [mode EXCEPT ![c] = "pushCommit"]
    /\ pending' = [pending EXCEPT ![c] = {}]
    /\ delta' = [delta EXCEPT ![c] = EmptyIndex]
    /\ UNCHANGED <<root, loose, snap, target, queue, filter, astray, history>>

\* cas_write: replace INDEX_ROOT if it is still the one that was read.
CasOk(c) == mode[c] \in {"pushCommit", "packCommit"} /\ root = snap[c]

Commit(c) ==
    /\ CasOk(c)
    /\ root' = draft[c]
    /\ ever' = ever \cup Covered(draft[c])
    /\ misfiled' = misfiled \cup astray[c]
    /\ commits' = commits + 1
    /\ IdleSession(c)
    /\ UNCHANGED <<packs, loose>>

CasFailed(c) ==
    /\ mode[c] \in {"pushCommit", "packCommit"} /\ root # snap[c]
    /\ IdleSession(c)
    /\ UNCHANGED <<root, packs, loose, history>>

\* The process dies or gives up (a missing local object, an I/O error, a full
\* delta list): what it wrote to the remote stays, the session is gone.
Abandon(c) ==
    /\ mode[c] # "idle"
    /\ IdleSession(c)
    /\ UNCHANGED <<root, packs, loose, history>>

-----------------------------------------------------------------------------
(* `omemfs pack`.                                                          *)

PackBegin(c) ==
    /\ mode[c] = "idle" /\ root # NoRoot /\ commits < MaxCommits
    /\ mode' = [mode EXCEPT ![c] = "pack"]
    /\ snap' = [snap EXCEPT ![c] = root]
    /\ UNCHANGED <<root, packs, loose, target, queue, delta, pending, filter, draft,
                   astray, history>>

\* merge_deltas_into_hot: the newest delta that knows h wins, then the hot index.
merge_deltas_into_hot(r) ==
    [h \in Hashes |->
        LET knowing == {i \in DOMAIN r.delta_hashes : r.delta_hashes[i][h] # NoLoc} IN
          IF knowing = {} THEN r.hot[h]
          ELSE r.delta_hashes[CHOOSE i \in knowing : \A j \in knowing : i <= j][h]]

\* split_hot_cold: standalone entries stay hot; the others stay hot when this
\* clone's own walk of its trees met them.
StaysHot(merged, walked) ==
    {h \in Entries(merged) : merged[h].kind = "standalone" \/ h \in walked}
Restricted(idx, S) == [h \in Hashes |-> IF h \in S THEN idx[h] ELSE NoLoc]

\* consolidate_pack_files: the hot entries of small packs go to one new pack.
Consolidated(idx) ==
    {h \in Hashes : idx[h].kind = "pack" /\ Cardinality(idx[h].pack) < SmallPack}
consolidate_pack_files(idx) ==
    LET moved == Consolidated(idx) IN
      IF moved = {} THEN idx ELSE FlushedInto(idx, moved)

Overlay(idx, extra) == [h \in Hashes |-> IF extra[h] # NoLoc THEN extra[h] ELSE idx[h]]

\* Mutant: entries that age out of the hot index are dropped.
drop_cold_entries(shards, cold) == shards

\* apply_cold_entries: append to the shard of slot 0 and repoint the slots
\* that shared it; a slot with a shard of its own keeps it.
apply_cold_entries(shards, cold) ==
    IF cold = EmptyIndex THEN shards
    ELSE [p \in Prefixes |-> IF shards[p] = shards[0] THEN Overlay(shards[0], cold)
                             ELSE shards[p]]

OfPrefix(idx, q) == {h \in Entries(idx) : Prefix[h] = q}

\* The oversized shards of largest size; at most one is split per run.
Splittable(shards) ==
    {p \in Prefixes :
        /\ Cardinality(Entries(shards[p])) > ShardLimit
        /\ \A o \in Prefixes : Cardinality(Entries(shards[o])) <= Cardinality(Entries(shards[p]))}

\* The most populous first byte of a shard.
Populous(idx) ==
    {q \in Prefixes : \A o \in Prefixes :
        Cardinality(OfPrefix(idx, o)) <= Cardinality(OfPrefix(idx, q))}

\* split_cold_shards on the shard of slot s: byte q gets a shard of its own,
\* the other slots that pointed there get the remainder.
split_cold_shards(shards, s, q) ==
    [p \in Prefixes |->
        IF shards[p] # shards[s] THEN shards[p]
        ELSE IF p = q THEN Restricted(shards[s], OfPrefix(shards[s], q))
        ELSE Restricted(shards[s], Hashes \ OfPrefix(shards[s], q))]

\* Mutant: the new filter is built from the hot index alone.
regenerate_bloom_hot(hot, shards) == Entries(hot)

regenerate_bloom(hot, shards) == Entries(hot) \cup UNION {Entries(shards[p]) : p \in Prefixes}

PackedRoot(r, hot, shards, bits) ==
    [r EXCEPT !.hot = hot, !.delta_hashes = <<>>, !.cold_prefix_bits = bits,
              !.cold_shards = shards, !.bloom = regenerate_bloom(hot, shards)]

\* Cold entries that go to the shard of slot 0 although another shard is the
\* one a lookup of them reads.
Astray(r, cold) ==
    {h \in Entries(cold) :
        r.cold_prefix_bits > 0 /\ r.cold_shards[Prefix[h]] # r.cold_shards[0]}

\* One pack run up to the compare-and-swap.  Which hashes the clone's walk
\* met depends on its trees and local cache: any set.
PackPrepare(c, walked) ==
    /\ mode[c] = "pack"
    /\ LET r      == snap[c]
           merged == merge_deltas_into_hot(r)
           stay   == StaysHot(merged, walked)
           kept   == Restricted(merged, stay)
           hot    == consolidate_pack_files(kept)
           cold   == Restricted(merged, Entries(merged) \ stay)
           shards == apply_cold_entries(r.cold_shards, cold)
       IN /\ packs' = IF Consolidated(kept) = {} THEN packs
                      ELSE packs \cup {Consolidated(kept)}
          /\ astray' = [astray EXCEPT ![c] = Astray(r, cold)]
          /\ \/ /\ Splittable(shards) = {}
                /\ draft' = [draft EXCEPT ![c] =
                               PackedRoot(r, hot, shards, r.cold_prefix_bits)]
             \/ \E s \in Splittable(shards) : \E q \in Populous(shards[s]) :
                  draft' = [draft EXCEPT ![c] =
                              PackedRoot(r, hot, split_cold_shards(shards, s, q), 8)]
    /\ mode' = [mode EXCEPT ![c] = "packCommit"]
    /\ UNCHANGED <<root, loose, snap, target, queue, delta, pending, filter, history>>

-----------------------------------------------------------------------------
Init ==
    /\ root = NoRoot /\ packs = {} /\ loose = {}
    /\ mode = [c \in Clients |-> "idle"]
    /\ snap = [c \in Clients |-> NoRoot]
    /\ target = [c \in Clients |-> NoTarget]
    /\ queue = [c \in Clients |-> {}]
    /\ delta = [c \in Clients |-> EmptyIndex]
    /\ pending = [c \in Clients |-> {}]
    /\ filter = [c \in Clients |-> {}]
    /\ draft = [c \in Clients |-> NoRoot]
    /\ astray = [c \in Clients |-> {}]
    /\ ever = {} /\ misfiled = {} /\ commits = 0

Step(c) ==
    \/ \E t \in Roots : PushBegin(c, t)
    \/ \E h \in Hashes : UploadSkip(c, h) \/ RouteInline(c, h) \/ RoutePack(c, h)
                           \/ RouteStandalone(c, h)
    \/ FinishPrepare(c) \/ Commit(c) \/ CasFailed(c) \/ Abandon(c)
    \/ PackBegin(c)
    \/ \E walked \in SUBSET Hashes : PackPrepare(c, walked)

Next == \E c \in Clients : Step(c)
Spec == Init /\ [][Next]_vars

-----------------------------------------------------------------------------
(* Properties.                                                             *)

\* "Every object reachable from a pushed root is resolvable through the
\* snapshot index": a reader of the current INDEX_ROOT, even one with cold
\* caches, finds the bytes of everything under remote_root, whatever other
\* pushes, pack runs and interrupted sessions happened in between.  The only
\* exception is what a pack run after a shard split filed astray.
ReachableResolvable ==
    root # NoRoot =>
        \A h \in Reachable(root.remote_root) \ misfiled : Resolvable(root, h)

\* Nothing that was ever published is forgotten: it stays resolvable after
\* the root moved on, so an older clone_root can still be restored.  Same
\* exception.
PublishedStaysResolvable ==
    root # NoRoot => \A h \in ever \ misfiled : Resolvable(root, h)

\* The published filter has no false negatives: every indexed hash was
\* inserted, over any mixture of pushes and pack runs.
BloomCoversIndex == root # NoRoot => Covered(root) \subseteq root.bloom

\* The same promise without the exception, as design/02_storage_format.md
\* states it.
AlwaysResolvable ==
    root # NoRoot => \A h \in Reachable(root.remote_root) : Resolvable(root, h)
=============================================================================
