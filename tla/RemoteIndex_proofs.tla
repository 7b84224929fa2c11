------------------------- MODULE RemoteIndex_proofs -------------------------
(***************************************************************************)
(* Proofs about RemoteIndex, for any clones, objects, size classes, hash   *)
(* prefixes and thresholds: the type invariant, that the filter covers the *)
(* index, and that what was published stays resolvable.                    *)
(***************************************************************************)
EXTENDS RemoteIndex, WellFoundedInduction, SequenceTheorems, TLAPS

-----------------------------------------------------------------------------
(* Facts about index files.  None of them mentions a variable.             *)

\* The location loc has its bytes among the packs P and the loose objects L.
BytesIn(loc, h, P, L) ==
    /\ loc.kind = "pack" => loc.pack \in P /\ h \in loc.pack
    /\ loc.kind = "standalone" => h \in L

\* Every entry of an index file has its bytes.
Backed(idx, P, L) == \A h \in Hashes : BytesIn(idx[h], h, P, L)

\* Every index file an INDEX_ROOT names has.
RootBacked(r, P, L) ==
    /\ \A i \in DOMAIN r.delta_hashes : Backed(r.delta_hashes[i], P, L)
    /\ Backed(r.hot, P, L)
    /\ \A p \in Prefixes : Backed(r.cold_shards[p], P, L)

\* An index file whose bytes are on the remote stays so: nothing is ever deleted there.
LEMMA BackedGrows ==
    ASSUME NEW idx, NEW P, NEW P2, NEW L, NEW L2, P \subseteq P2, L \subseteq L2,
           Backed(idx, P, L)
    PROVE  Backed(idx, P2, L2)
BY DEF Backed, BytesIn

\* The same for all the index files of an INDEX_ROOT.
LEMMA RootBackedGrows ==
    ASSUME NEW r, NEW P, NEW P2, NEW L, NEW L2, P \subseteq P2, L \subseteq L2,
           RootBacked(r, P, L)
    PROVE  RootBacked(r, P2, L2)
BY BackedGrows DEF RootBacked

\* The four locations an entry may name are locations, and only one of them is "none".
LEMMA LocTypes ==
    /\ NoLoc \in Locations /\ Inline \in Locations /\ Standalone \in Locations
    /\ \A p \in SUBSET Hashes : InPack(p) \in Locations
    /\ Inline # NoLoc /\ Standalone # NoLoc /\ \A p \in SUBSET Hashes : InPack(p) # NoLoc
BY DEF NoLoc, Inline, Standalone, InPack, Locations

\* The empty index file promises nothing.
LEMMA EmptyBacked ==
    ASSUME NEW P, NEW L
    PROVE  EmptyIndex \in IndexFiles /\ Entries(EmptyIndex) = {} /\ Backed(EmptyIndex, P, L)
BY LocTypes DEF EmptyIndex, IndexFiles, Entries, Backed, BytesIn, NoLoc

\* Moving the set p of objects into one pack.
LEMMA Flushed ==
    ASSUME NEW idx \in IndexFiles, NEW p \in SUBSET Hashes
    PROVE  /\ FlushedInto(idx, p) \in IndexFiles
           /\ Entries(FlushedInto(idx, p)) = Entries(idx) \cup p
           /\ \A P, L : Backed(idx, P, L) /\ p \in P => Backed(FlushedInto(idx, p), P, L)
<1>1. FlushedInto(idx, p) \in IndexFiles BY LocTypes DEF FlushedInto, IndexFiles
<1>2. \A h \in Hashes : FlushedInto(idx, p)[h] = IF h \in p THEN InPack(p) ELSE idx[h]
  BY DEF FlushedInto
<1>3. Entries(FlushedInto(idx, p)) = Entries(idx) \cup p
  BY <1>2, LocTypes DEF Entries
<1>4. ASSUME NEW P, NEW L, Backed(idx, P, L), p \in P
      PROVE  Backed(FlushedInto(idx, p), P, L)
  BY <1>2, <1>4 DEF Backed, BytesIn, InPack
<1> QED BY <1>1, <1>3, <1>4

\* Keeping the entries of S.
LEMMA Restriction ==
    ASSUME NEW idx \in IndexFiles, NEW S \in SUBSET Hashes
    PROVE  /\ Restricted(idx, S) \in IndexFiles
           /\ Entries(Restricted(idx, S)) = Entries(idx) \cap S
           /\ \A P, L : Backed(idx, P, L) => Backed(Restricted(idx, S), P, L)
<1>1. Restricted(idx, S) \in IndexFiles BY LocTypes DEF Restricted, IndexFiles
<1>2. Entries(Restricted(idx, S)) = Entries(idx) \cap S BY DEF Restricted, Entries
<1>3. ASSUME NEW P, NEW L, Backed(idx, P, L) PROVE Backed(Restricted(idx, S), P, L)
  BY <1>3 DEF Restricted, Backed, BytesIn, NoLoc
<1> QED BY <1>1, <1>2, <1>3

\* Putting one index file over another.
LEMMA Overlaid ==
    ASSUME NEW idx \in IndexFiles, NEW extra \in IndexFiles
    PROVE  /\ Overlay(idx, extra) \in IndexFiles
           /\ Entries(Overlay(idx, extra)) = Entries(idx) \cup Entries(extra)
           /\ \A P, L : Backed(idx, P, L) /\ Backed(extra, P, L) =>
                          Backed(Overlay(idx, extra), P, L)
<1>1. Overlay(idx, extra) \in IndexFiles BY DEF Overlay, IndexFiles
<1>2. Entries(Overlay(idx, extra)) = Entries(idx) \cup Entries(extra)
  BY DEF Overlay, Entries
<1>3. ASSUME NEW P, NEW L, Backed(idx, P, L), Backed(extra, P, L)
      PROVE  Backed(Overlay(idx, extra), P, L)
  BY <1>3 DEF Overlay, Backed
<1> QED BY <1>1, <1>2, <1>3

\* A non-empty set of naturals has a least element.
LEMMA LeastExists ==
    ASSUME NEW T \in SUBSET Nat, T # {}
    PROVE  \E i \in T : \A j \in T : i <= j
<1>1. PICK i \in T : \A j \in T : ~(<<j, i>> \in OpToRel(<, Nat))
  BY NatLessThanWellFounded, WFMin
<1>2. \A j \in T : ~(j < i) BY <1>1 DEF OpToRel
<1> QED BY <1>2

\* merge_deltas_into_hot keeps every entry of the deltas and the hot index and
\* adds none.
LEMMA Merged ==
    ASSUME NEW r \in IndexRoots
    PROVE  /\ merge_deltas_into_hot(r) \in IndexFiles
           /\ Entries(merge_deltas_into_hot(r)) = {h \in Hashes : InDeltaOrHot(r, h)}
           /\ \A P, L : RootBacked(r, P, L) => Backed(merge_deltas_into_hot(r), P, L)
<1> DEFINE m == merge_deltas_into_hot(r)
           knowing(h) == {i \in DOMAIN r.delta_hashes : r.delta_hashes[i][h] # NoLoc}
<1>1. /\ r.delta_hashes \in Seq(IndexFiles) /\ r.hot \in IndexFiles
      /\ DOMAIN r.delta_hashes \subseteq Nat
      /\ \A i \in DOMAIN r.delta_hashes : r.delta_hashes[i] \in IndexFiles
  BY DEF IndexRoots
<1>2. ASSUME NEW h \in Hashes
      PROVE  \/ knowing(h) = {} /\ m[h] = r.hot[h]
             \/ \E i \in knowing(h) : m[h] = r.delta_hashes[i][h]
  <2>1. CASE knowing(h) = {} BY <2>1 DEF merge_deltas_into_hot
  <2>2. CASE knowing(h) # {}
    <3> DEFINE i == CHOOSE i \in knowing(h) : \A j \in knowing(h) : i <= j
    <3>1. knowing(h) \in SUBSET Nat BY <1>1
    <3>2. i \in knowing(h) BY <2>2, <3>1, LeastExists
    <3>3. m[h] = r.delta_hashes[i][h] BY <2>2 DEF merge_deltas_into_hot
    <3> QED BY <3>2, <3>3
  <2> QED BY <2>1, <2>2
<1> HIDE DEF m
<1>3. m \in IndexFiles
  <2>1. m = [h \in Hashes |-> m[h]] BY DEF m, merge_deltas_into_hot
  <2>2. \A h \in Hashes : m[h] \in Locations BY <1>1, <1>2 DEF IndexFiles
  <2> QED BY <2>1, <2>2 DEF IndexFiles
<1>4. Entries(m) = {h \in Hashes : InDeltaOrHot(r, h)}
  BY <1>2 DEF Entries, InDeltaOrHot
<1>5. ASSUME NEW P, NEW L, RootBacked(r, P, L) PROVE Backed(m, P, L)
  BY <1>2, <1>5 DEF RootBacked, Backed
<1> QED BY <1>3, <1>4, <1>5 DEF m

\* Appending cold entries changes the slots that share the shard of slot 0
\* and only those.
LEMMA ColdApplied ==
    ASSUME NEW shards \in [Prefixes -> IndexFiles], NEW cold \in IndexFiles
    PROVE  LET ac == apply_cold_entries(shards, cold) IN
           /\ ac \in [Prefixes -> IndexFiles]
           /\ \A p \in Prefixes :
                /\ shards[p] = shards[0] =>
                     Entries(ac[p]) = Entries(shards[p]) \cup Entries(cold)
                /\ shards[p] # shards[0] => ac[p] = shards[p]
                /\ shards[p] = shards[0] => ac[p] = ac[0]
           /\ \A P, L : Backed(cold, P, L) /\ (\A p \in Prefixes : Backed(shards[p], P, L)) =>
                          \A p \in Prefixes : Backed(ac[p], P, L)
<1> DEFINE ac == apply_cold_entries(shards, cold)
<1>0. 0 \in Prefixes /\ shards[0] \in IndexFiles BY HashAssumption
<1>1. CASE cold = EmptyIndex
  <2>1. ac = shards BY <1>1 DEF apply_cold_entries
  <2>2. Entries(cold) = {} BY <1>1, EmptyBacked
  <2> QED BY <2>1, <2>2
<1>2. CASE cold # EmptyIndex
  <2>1. ac = [p \in Prefixes |-> IF shards[p] = shards[0] THEN Overlay(shards[0], cold)
                                 ELSE shards[p]]
    BY <1>2 DEF apply_cold_entries
  <2>2. Overlay(shards[0], cold) \in IndexFiles BY <1>0, Overlaid
  <2>3. Entries(Overlay(shards[0], cold)) = Entries(shards[0]) \cup Entries(cold)
    BY <1>0, Overlaid
  <2>4. ac \in [Prefixes -> IndexFiles] BY <2>1, <2>2
  <2>5. ASSUME NEW p \in Prefixes
        PROVE  /\ shards[p] = shards[0] =>
                    Entries(ac[p]) = Entries(shards[p]) \cup Entries(cold)
               /\ shards[p] # shards[0] => ac[p] = shards[p]
               /\ shards[p] = shards[0] => ac[p] = ac[0]
    BY <2>1, <2>3, <1>0
  <2>6. ASSUME NEW P, NEW L, Backed(cold, P, L), \A p \in Prefixes : Backed(shards[p], P, L),
               NEW p \in Prefixes
        PROVE  Backed(ac[p], P, L)
    <3>1. Backed(Overlay(shards[0], cold), P, L) BY <1>0, <2>6, Overlaid
    <3> QED BY <3>1, <2>6, <2>1
  <2> QED BY <2>4, <2>5, <2>6
<1> QED BY <1>1, <1>2

\* Splitting a shard leaves every hash under the slot of its own first byte
\* exactly when it was there before.
LEMMA ShardSplit ==
    ASSUME NEW shards \in [Prefixes -> IndexFiles], NEW s \in Prefixes, NEW q \in Prefixes
    PROVE  LET sp == split_cold_shards(shards, s, q) IN
           /\ sp \in [Prefixes -> IndexFiles]
           /\ \A h \in Hashes : h \in Entries(sp[Prefix[h]]) <=> h \in Entries(shards[Prefix[h]])
           /\ \A P, L : (\A p \in Prefixes : Backed(shards[p], P, L)) =>
                          \A p \in Prefixes : Backed(sp[p], P, L)
<1> DEFINE sp == split_cold_shards(shards, s, q)
           own == OfPrefix(shards[s], q)
<1>0. /\ shards[s] \in IndexFiles /\ own \in SUBSET Hashes /\ Hashes \ own \in SUBSET Hashes
      /\ \A h \in Hashes : Prefix[h] \in Prefixes
  BY HashAssumption DEF OfPrefix, Entries
<1>1. sp = [p \in Prefixes |->
              IF shards[p] # shards[s] THEN shards[p]
              ELSE IF p = q THEN Restricted(shards[s], own)
              ELSE Restricted(shards[s], Hashes \ own)]
  BY DEF split_cold_shards
<1>2. /\ Restricted(shards[s], own) \in IndexFiles
      /\ Restricted(shards[s], Hashes \ own) \in IndexFiles
      /\ Entries(Restricted(shards[s], own)) = Entries(shards[s]) \cap own
      /\ Entries(Restricted(shards[s], Hashes \ own)) = Entries(shards[s]) \cap (Hashes \ own)
  BY <1>0, Restriction
<1>3. sp \in [Prefixes -> IndexFiles] BY <1>1, <1>2
<1>4. ASSUME NEW h \in Hashes
      PROVE  h \in Entries(sp[Prefix[h]]) <=> h \in Entries(shards[Prefix[h]])
  <2>1. h \in own <=> h \in Entries(shards[s]) /\ Prefix[h] = q BY DEF OfPrefix
  <2> HIDE DEF own
  <2> QED BY <1>0, <1>1, <1>2, <2>1
<1>5. ASSUME NEW P, NEW L, \A p \in Prefixes : Backed(shards[p], P, L), NEW p \in Prefixes
      PROVE  Backed(sp[p], P, L)
  <2>1. /\ Backed(Restricted(shards[s], own), P, L)
        /\ Backed(Restricted(shards[s], Hashes \ own), P, L)
    BY <1>0, <1>5, Restriction
  <2> QED BY <1>1, <1>5, <2>1
<1> QED BY <1>3, <1>4, <1>5

\* What holds of an INDEX_ROOT that was written or is about to be: the bytes
\* of its entries are on the remote, an unsplit table has one shard, and its
\* filter has no false negatives.
GoodRoot(r, P, L) ==
    r # NoRoot =>
        /\ RootBacked(r, P, L)
        /\ r.cold_prefix_bits = 0 => \A p \in Prefixes : r.cold_shards[p] = r.cold_shards[0]
        /\ Covered(r) \subseteq r.bloom

\* A good INDEX_ROOT stays good while packs and standalone objects are added.
LEMMA GoodRootGrows ==
    ASSUME NEW r, NEW P, NEW P2, NEW L, NEW L2, P \subseteq P2, L \subseteq L2,
           GoodRoot(r, P, L)
    PROVE  GoodRoot(r, P2, L2)
BY RootBackedGrows DEF GoodRoot

\* What it means for an INDEX_ROOT to cover a hash, file by file.
LEMMA CoveredFacts ==
    /\ Covered(NoRoot) = {}
    /\ \A r : Covered(r) \subseteq Hashes
    /\ \A r \in IndexRoots : Covered(r) =
         {h \in Hashes : InDeltaOrHot(r, h) \/ h \in Entries(cold_shard_hash_for(h, r))}
BY NoRootAssumption DEF Covered, index_contains, InCold, Entries

\* The drafts one pack run of r may produce, as PackPrepare builds them.
PackDraft(r, walked, d) ==
    LET merged == merge_deltas_into_hot(r)
        stay   == StaysHot(merged, walked)
        hot    == consolidate_pack_files(Restricted(merged, stay))
        shards == apply_cold_entries(r.cold_shards, Restricted(merged, Entries(merged) \ stay))
    IN \/ d = PackedRoot(r, hot, shards, r.cold_prefix_bits)
       \/ \E s \in Splittable(shards) : \E q \in Populous(shards[s]) :
            d = PackedRoot(r, hot, split_cold_shards(shards, s, q), 8)

\* The pack consolidation writes, and the entries the run files astray.
NewPack(r, walked) ==
    LET merged == merge_deltas_into_hot(r) IN
      Consolidated(Restricted(merged, StaysHot(merged, walked)))
PackAstray(r, walked) ==
    LET merged == merge_deltas_into_hot(r) IN
      Astray(r, Restricted(merged, Entries(merged) \ StaysHot(merged, walked)))

\* Consolidation moves entries to the new pack and neither adds nor drops one.
LEMMA Consolidation ==
    ASSUME NEW idx \in IndexFiles
    PROVE  /\ consolidate_pack_files(idx) \in IndexFiles
           /\ Entries(consolidate_pack_files(idx)) = Entries(idx)
           /\ \A P, L : Backed(idx, P, L) /\ (Consolidated(idx) = {} \/ Consolidated(idx) \in P)
                          => Backed(consolidate_pack_files(idx), P, L)
<1>1. Consolidated(idx) \in SUBSET Hashes BY DEF Consolidated
<1>2. Consolidated(idx) \subseteq Entries(idx) BY DEF Consolidated, Entries, NoLoc
<1>3. CASE Consolidated(idx) = {} BY <1>3 DEF consolidate_pack_files
<1>4. CASE Consolidated(idx) # {}
  <2>1. consolidate_pack_files(idx) = FlushedInto(idx, Consolidated(idx))
    BY <1>4 DEF consolidate_pack_files
  <2> QED BY <2>1, <1>1, <1>2, <1>4, Flushed
<1> QED BY <1>3, <1>4

\* The INDEX_ROOT built from a hot index and a table of shards.
LEMMA PackedRootFacts ==
    ASSUME NEW r \in IndexRoots, NEW hot \in IndexFiles,
           NEW shards \in [Prefixes -> IndexFiles], NEW bits \in {0, 8}, NEW P, NEW L,
           Backed(hot, P, L), \A p \in Prefixes : Backed(shards[p], P, L),
           bits = 0 => \A p \in Prefixes : shards[p] = shards[0]
    PROVE  LET d == PackedRoot(r, hot, shards, bits) IN
           /\ d \in IndexRoots
           /\ d.remote_root = r.remote_root
           /\ GoodRoot(d, P, L)
           /\ Covered(d) = {h \in Hashes : h \in Entries(hot) \/ h \in Entries(shards[Prefix[h]])}
<1> DEFINE d == PackedRoot(r, hot, shards, bits)
<1>1. /\ d.remote_root = r.remote_root /\ d.hot = hot /\ d.delta_hashes = <<>>
      /\ d.cold_prefix_bits = bits /\ d.cold_shards = shards
      /\ d.bloom = regenerate_bloom(hot, shards)
  BY DEF PackedRoot, IndexRoots
<1>2. regenerate_bloom(hot, shards) \in SUBSET Hashes BY DEF regenerate_bloom, Entries
<1>3. <<>> \in {x \in Seq(IndexFiles) : Len(x) <= MaxDeltas} BY BoundAssumption
<1>4. d \in IndexRoots BY <1>2, <1>3 DEF PackedRoot, IndexRoots
<1> HIDE DEF d
<1>5. /\ \A h \in Hashes : Prefix[h] \in Prefixes
      /\ 0 \in Prefixes
  BY HashAssumption
<1>6. \A h \in Hashes : cold_shard_hash_for(h, d) = shards[Prefix[h]]
  BY <1>1, <1>5 DEF cold_shard_hash_for
<1>7. \A h \in Hashes : InDeltaOrHot(d, h) <=> h \in Entries(hot)
  BY <1>1 DEF InDeltaOrHot, Entries
<1>8. Covered(d) = {h \in Hashes : h \in Entries(hot) \/ h \in Entries(shards[Prefix[h]])}
  BY <1>4, <1>6, <1>7, CoveredFacts
<1>9. Covered(d) \subseteq d.bloom
  BY <1>1, <1>8, <1>5 DEF regenerate_bloom
<1>10. RootBacked(d, P, L) BY <1>1 DEF RootBacked
<1>11. GoodRoot(d, P, L) BY <1>1, <1>9, <1>10 DEF GoodRoot
<1> QED BY <1>1, <1>4, <1>8, <1>11 DEF d

\* A pack run keeps everything but what it files astray, adds nothing, and
\* its INDEX_ROOT is good once its new pack is on the remote.
LEMMA PackRun ==
    ASSUME NEW r \in IndexRoots, NEW walked \in SUBSET Hashes, NEW d,
           PackDraft(r, walked, d), NEW P, NEW L, GoodRoot(r, P, L),
           NewPack(r, walked) = {} \/ NewPack(r, walked) \in P
    PROVE  /\ d \in IndexRoots
           /\ GoodRoot(d, P, L)
           /\ d.remote_root = r.remote_root
           /\ Covered(r) \ PackAstray(r, walked) \subseteq Covered(d)
           /\ Covered(d) \subseteq Covered(r)
<1> DEFINE merged == merge_deltas_into_hot(r)
           stay   == StaysHot(merged, walked)
           kept   == Restricted(merged, stay)
           hot    == consolidate_pack_files(kept)
           cold   == Restricted(merged, Entries(merged) \ stay)
           shards == apply_cold_entries(r.cold_shards, cold)
           Filed(h) == h \in Entries(hot) \/ h \in Entries(shards[Prefix[h]])
<1>1. /\ r # NoRoot /\ RootBacked(r, P, L)
      /\ r.cold_prefix_bits = 0 => \A p \in Prefixes : r.cold_shards[p] = r.cold_shards[0]
      /\ r.cold_prefix_bits \in {0, 8} /\ r.cold_shards \in [Prefixes -> IndexFiles]
      /\ 0 \in Prefixes /\ \A h \in Hashes : Prefix[h] \in Prefixes
  BY NoRootAssumption, HashAssumption DEF GoodRoot, IndexRoots
<1>2. /\ merged \in IndexFiles /\ Backed(merged, P, L)
      /\ Entries(merged) = {h \in Hashes : InDeltaOrHot(r, h)}
  BY <1>1, Merged
<1>3. stay \in SUBSET Hashes /\ stay \subseteq Entries(merged)
      /\ Entries(merged) \ stay \in SUBSET Hashes
  BY DEF StaysHot, Entries
<1>4. kept \in IndexFiles /\ Backed(kept, P, L) /\ Entries(kept) = stay
  BY <1>2, <1>3, Restriction
<1>5. cold \in IndexFiles /\ Backed(cold, P, L) /\ Entries(cold) = Entries(merged) \ stay
  BY <1>2, <1>3, Restriction
<1>6. Consolidated(kept) = {} \/ Consolidated(kept) \in P BY DEF NewPack
<1>7. hot \in IndexFiles /\ Backed(hot, P, L) /\ Entries(hot) = stay
  BY <1>4, <1>6, Consolidation
<1>8. PackAstray(r, walked) =
        {h \in Entries(cold) : r.cold_prefix_bits > 0 /\ r.cold_shards[Prefix[h]] # r.cold_shards[0]}
  BY DEF PackAstray, Astray
<1>9. \/ d = PackedRoot(r, hot, shards, r.cold_prefix_bits)
      \/ \E s \in Splittable(shards) : \E q \in Populous(shards[s]) :
            d = PackedRoot(r, hot, split_cold_shards(shards, s, q), 8)
  BY DEF PackDraft
<1> HIDE DEF merged, stay, kept, hot, cold
<1>10. /\ shards \in [Prefixes -> IndexFiles]
       /\ \A p \in Prefixes :
            /\ r.cold_shards[p] = r.cold_shards[0] =>
                 Entries(shards[p]) = Entries(r.cold_shards[p]) \cup Entries(cold)
            /\ r.cold_shards[p] # r.cold_shards[0] => shards[p] = r.cold_shards[p]
            /\ r.cold_shards[p] = r.cold_shards[0] => shards[p] = shards[0]
  BY <1>1, <1>5, ColdApplied
<1>11. \A p \in Prefixes : Backed(shards[p], P, L)
  BY <1>1, <1>5, ColdApplied DEF RootBacked
<1> HIDE DEF shards
<1>12. ASSUME NEW h \in Hashes
       PROVE  h \in Covered(r) <=> h \in Entries(merged) \/ h \in Entries(r.cold_shards[Prefix[h]])
  <2>1. cold_shard_hash_for(h, r) = r.cold_shards[Prefix[h]]
    BY <1>1 DEF cold_shard_hash_for
  <2> QED BY <1>2, <2>1, CoveredFacts
<1>13. ASSUME NEW h \in Hashes, Filed(h) PROVE h \in Covered(r)
  BY <1>13, <1>12, <1>10, <1>7, <1>5, <1>3, <1>1
<1>14. ASSUME NEW h \in Hashes, h \in Covered(r), h \notin PackAstray(r, walked) PROVE Filed(h)
  <2>1. CASE h \in Entries(r.cold_shards[Prefix[h]]) BY <2>1, <1>10, <1>1
  <2>2. CASE h \in stay BY <2>2, <1>7
  <2>3. CASE h \in Entries(merged) \ stay
    <3>1. r.cold_shards[Prefix[h]] = r.cold_shards[0] BY <2>3, <1>14, <1>8, <1>5, <1>1
    <3> QED BY <3>1, <2>3, <1>5, <1>10, <1>1
  <2> QED BY <2>1, <2>2, <2>3, <1>14, <1>12
<1>15. CASE d = PackedRoot(r, hot, shards, r.cold_prefix_bits)
  <2>1. r.cold_prefix_bits = 0 => \A p \in Prefixes : shards[p] = shards[0] BY <1>1, <1>10
  <2>2. /\ d \in IndexRoots /\ d.remote_root = r.remote_root /\ GoodRoot(d, P, L)
        /\ Covered(d) = {h \in Hashes : Filed(h)}
    BY <1>15, <2>1, <1>1, <1>7, <1>10, <1>11, PackedRootFacts
  <2> QED BY <2>2, <1>13, <1>14, CoveredFacts
<1>16. ASSUME NEW s \in Splittable(shards), NEW q \in Populous(shards[s]),
              d = PackedRoot(r, hot, split_cold_shards(shards, s, q), 8)
       PROVE  /\ d \in IndexRoots /\ d.remote_root = r.remote_root /\ GoodRoot(d, P, L)
              /\ Covered(d) = {h \in Hashes : Filed(h)}
  <2> DEFINE sp == split_cold_shards(shards, s, q)
  <2>1. s \in Prefixes /\ q \in Prefixes BY DEF Splittable, Populous
  <2>2. /\ sp \in [Prefixes -> IndexFiles] /\ \A p \in Prefixes : Backed(sp[p], P, L)
        /\ \A h \in Hashes : h \in Entries(sp[Prefix[h]]) <=> h \in Entries(shards[Prefix[h]])
    BY <2>1, <1>10, <1>11, ShardSplit
  <2> HIDE DEF sp
  <2>3. d = PackedRoot(r, hot, sp, 8) BY <1>16 DEF sp
  <2>4. /\ d \in IndexRoots /\ d.remote_root = r.remote_root /\ GoodRoot(d, P, L)
        /\ Covered(d) = {h \in Hashes : h \in Entries(hot) \/ h \in Entries(sp[Prefix[h]])}
    BY <2>2, <2>3, <1>7, PackedRootFacts
  <2> QED BY <2>2, <2>4
<1>17. CASE \E s \in Splittable(shards) : \E q \in Populous(shards[s]) :
              d = PackedRoot(r, hot, split_cold_shards(shards, s, q), 8)
  <2>1. /\ d \in IndexRoots /\ d.remote_root = r.remote_root /\ GoodRoot(d, P, L)
        /\ Covered(d) = {h \in Hashes : Filed(h)}
    BY <1>17, <1>16
  <2> QED BY <2>1, <1>13, <1>14, CoveredFacts
<1> QED BY <1>9, <1>15, <1>17

\* The INDEX_ROOT a push builds from its snapshot r: Pushed(r, t, d, f) is
\* PushedRoot with the session's fields as arguments.
Pushed(r, t, d, f) ==
    LET base == IF r = NoRoot THEN EmptyRoot(t) ELSE r IN
      [base EXCEPT !.remote_root = t,
                   !.delta_hashes = IF d = EmptyIndex THEN @ ELSE <<d>> \o @,
                   !.bloom = f]

\* It covers the snapshot and the delta, and nothing else.
LEMMA PushRun ==
    ASSUME NEW r \in MaybeRoot, NEW t \in Hashes, NEW d \in IndexFiles, NEW f \in SUBSET Hashes,
           NEW P, NEW L, GoodRoot(r, P, L), Backed(d, P, L),
           Entries(d) \subseteq f, r # NoRoot => r.bloom \subseteq f,
           Len(Pushed(r, t, d, f).delta_hashes) <= MaxDeltas
    PROVE  LET n == Pushed(r, t, d, f) IN
           /\ n \in IndexRoots
           /\ GoodRoot(n, P, L)
           /\ n.remote_root = t
           /\ Covered(n) = Covered(r) \cup Entries(d)
<1> DEFINE base == IF r = NoRoot THEN EmptyRoot(t) ELSE r
           n == Pushed(r, t, d, f)
           ds == IF d = EmptyIndex THEN base.delta_hashes ELSE <<d>> \o base.delta_hashes
<1>1. /\ EmptyRoot(t) \in IndexRoots /\ EmptyRoot(t).delta_hashes = <<>>
      /\ EmptyRoot(t).hot = EmptyIndex /\ EmptyRoot(t).cold_prefix_bits = 0
      /\ \A p \in Prefixes : EmptyRoot(t).cold_shards[p] = EmptyIndex
      /\ 0 \in Prefixes /\ \A h \in Hashes : Prefix[h] \in Prefixes
  BY EmptyBacked, BoundAssumption, HashAssumption DEF EmptyRoot, IndexRoots
<1>2. Covered(EmptyRoot(t)) = {}
  <2>1. \A h \in Hashes : ~InDeltaOrHot(EmptyRoot(t), h)
    BY <1>1 DEF InDeltaOrHot, EmptyIndex
  <2>2. \A h \in Hashes : cold_shard_hash_for(h, EmptyRoot(t)) = EmptyIndex
    BY <1>1 DEF cold_shard_hash_for
  <2> QED BY <2>1, <2>2, <1>1, CoveredFacts, EmptyBacked
<1>3. /\ base \in IndexRoots /\ RootBacked(base, P, L) /\ Covered(base) = Covered(r)
      /\ base.cold_prefix_bits = 0 =>
           \A p \in Prefixes : base.cold_shards[p] = base.cold_shards[0]
  <2>1. CASE r = NoRoot
    <3>1. RootBacked(EmptyRoot(t), P, L) BY <1>1, EmptyBacked DEF RootBacked
    <3> QED BY <2>1, <3>1, <1>1, <1>2, CoveredFacts
  <2>2. CASE r # NoRoot BY <2>2 DEF MaybeRoot, GoodRoot
  <2> QED BY <2>1, <2>2
<1>4. Covered(r) \cup Entries(d) \subseteq f
  BY CoveredFacts DEF GoodRoot
<1>5. n = [base EXCEPT !.remote_root = t,
                       !.delta_hashes = IF d = EmptyIndex THEN @ ELSE <<d>> \o @, !.bloom = f]
  BY DEF Pushed
<1> HIDE DEF base
<1>6. /\ n.remote_root = t /\ n.hot = base.hot /\ n.delta_hashes = ds /\ n.bloom = f
      /\ n.cold_prefix_bits = base.cold_prefix_bits /\ n.cold_shards = base.cold_shards
  BY <1>3, <1>5 DEF IndexRoots
<1>7. base.delta_hashes \in Seq(IndexFiles) /\ ds \in Seq(IndexFiles)
  BY <1>3 DEF IndexRoots
<1>8. /\ \A i \in DOMAIN ds : ds[i] = d \/ \E j \in DOMAIN base.delta_hashes : ds[i] = base.delta_hashes[j]
      /\ \A j \in DOMAIN base.delta_hashes : \E i \in DOMAIN ds : ds[i] = base.delta_hashes[j]
      /\ d # EmptyIndex => \E i \in DOMAIN ds : ds[i] = d
  <2>1. CASE d = EmptyIndex BY <2>1
  <2>2. CASE d # EmptyIndex
    <3>1. /\ Len(ds) = Len(base.delta_hashes) + 1 /\ ds[1] = d
          /\ \A j \in 1..Len(base.delta_hashes) : ds[j + 1] = base.delta_hashes[j]
      BY <1>7, <2>2
    <3>2. DOMAIN ds = 1..Len(ds) /\ DOMAIN base.delta_hashes = 1..Len(base.delta_hashes)
          /\ Len(base.delta_hashes) \in Nat
      BY <1>7
    <3> HIDE DEF ds
    <3>3. ASSUME NEW i \in DOMAIN ds, i # 1
          PROVE  \E j \in DOMAIN base.delta_hashes : ds[i] = base.delta_hashes[j]
      <4>1. i - 1 \in 1..Len(base.delta_hashes) /\ (i - 1) + 1 = i BY <3>1, <3>2, <3>3
      <4> QED BY <4>1, <3>1, <3>2
    <3>4. ASSUME NEW j \in DOMAIN base.delta_hashes
          PROVE  \E i \in DOMAIN ds : ds[i] = base.delta_hashes[j]
      <4>1. j + 1 \in DOMAIN ds BY <3>1, <3>2
      <4> QED BY <4>1, <3>1, <3>2
    <3>5. 1 \in DOMAIN ds BY <3>1, <3>2
    <3> QED BY <3>1, <3>3, <3>4, <3>5
  <2> QED BY <2>1, <2>2
<1>9. n \in IndexRoots
  <2>1. ds \in {x \in Seq(IndexFiles) : Len(x) <= MaxDeltas} BY <1>6, <1>7
  <2>2. n = [base EXCEPT !.remote_root = t, !.delta_hashes = ds, !.bloom = f] BY <1>5
  <2> HIDE DEF ds, n
  <2> QED BY <2>1, <2>2, <1>3 DEF IndexRoots
<1> HIDE DEF ds, n
<1>10. \A h \in Hashes : InDeltaOrHot(n, h) <=> InDeltaOrHot(base, h) \/ h \in Entries(d)
  <2>1. d = EmptyIndex => Entries(d) = {} BY EmptyBacked
  <2> QED BY <2>1, <1>6, <1>8 DEF InDeltaOrHot, Entries
<1>11. \A h \in Hashes : cold_shard_hash_for(h, n) = cold_shard_hash_for(h, base)
  BY <1>6 DEF cold_shard_hash_for
<1>12. Covered(n) = Covered(r) \cup Entries(d)
  <2>1. Entries(d) \subseteq Hashes BY DEF Entries
  <2> QED BY <2>1, <1>3, <1>9, <1>10, <1>11, CoveredFacts
<1>13. RootBacked(n, P, L) BY <1>3, <1>6, <1>8 DEF RootBacked
<1>14. GoodRoot(n, P, L) BY <1>3, <1>4, <1>6, <1>12, <1>13 DEF GoodRoot
<1> QED BY <1>6, <1>9, <1>12, <1>14 DEF n

-----------------------------------------------------------------------------
(* The inductive invariant.                                                *)

\* What the push session of c has or will have once it commits.
Have(c) == Entries(delta[c]) \cup pending[c] \cup Covered(snap[c])

\* The INDEX_ROOT a command read is good and was published.
SnapInv(c) ==
    /\ GoodRoot(snap[c], packs, loose)
    /\ Covered(snap[c]) \subseteq ever
    /\ snap[c] # NoRoot => snap[c].remote_root \in ever

\* Outside a push the writer is empty; only a finished pack run has entries
\* astray; a pack run has an INDEX_ROOT.
RestInv(c) ==
    /\ mode[c] # "push" => delta[c] = EmptyIndex /\ pending[c] = {}
    /\ mode[c] # "packCommit" => astray[c] = {}
    /\ mode[c] = "pack" => snap[c] # NoRoot

\* The upload walk: whatever it still has to visit is queued, for the target
\* and below everything it has written; the filter knows all of it.
PushInv(c) ==
    mode[c] = "push" =>
        /\ Backed(delta[c], packs, loose)
        /\ Entries(delta[c]) \cup pending[c] \subseteq filter[c]
        /\ snap[c] # NoRoot => snap[c].bloom \subseteq filter[c]
        /\ target[c] \in Have(c) \cup queue[c]
        /\ \A h \in Entries(delta[c]) \cup pending[c] : Children[h] \subseteq Have(c) \cup queue[c]

\* The INDEX_ROOT about to be written is good, keeps what its snapshot covers
\* and refers to nothing that is neither covered nor published.
CommitInv(c) ==
    mode[c] \in {"pushCommit", "packCommit"} =>
        /\ draft[c] # NoRoot
        /\ GoodRoot(draft[c], packs, loose)
        /\ Covered(snap[c]) \ astray[c] \subseteq Covered(draft[c])
        /\ draft[c].remote_root \in Covered(draft[c]) \cup ever
        /\ \A h \in Covered(draft[c]) : Children[h] \subseteq Covered(draft[c]) \cup ever

ClientInv(c) == SnapInv(c) /\ RestInv(c) /\ PushInv(c) /\ CommitInv(c)

\* The published INDEX_ROOT covers what was ever covered, except what was
\* misfiled, and what was ever covered is closed under references.
RootInv ==
    /\ GoodRoot(root, packs, loose)
    /\ ever \ misfiled \subseteq Covered(root)
    /\ Covered(root) \subseteq ever
    /\ Closed(ever)
    /\ root # NoRoot => root.remote_root \in ever

IndInv == TypeOK /\ RootInv /\ \A c \in Clients : ClientInv(c)

-----------------------------------------------------------------------------
(* One lemma per group of actions.                                         *)

\* What a step of c leaves alone: the sessions of the others.
Frame(c) ==
    \A o \in Clients \ {c} :
        /\ mode'[o] = mode[o] /\ snap'[o] = snap[o] /\ target'[o] = target[o]
        /\ queue'[o] = queue[o] /\ delta'[o] = delta[o] /\ pending'[o] = pending[o]
        /\ filter'[o] = filter[o] /\ draft'[o] = draft[o] /\ astray'[o] = astray[o]

\* Packs, loose objects and the history only grow.
Grows == packs \subseteq packs' /\ loose \subseteq loose' /\ ever \subseteq ever'

\* The placeholder of an idle session is a root.
LEMMA NoTargetType == NoTarget \in Roots
BY HashAssumption DEF NoTarget

\* Another clone's step keeps a session's invariant.
LEMMA OthersKept ==
    ASSUME NEW c \in Clients, NEW o \in Clients \ {c}, ClientInv(o), Frame(c), Grows
    PROVE  ClientInv(o)'
<1>1. /\ mode'[o] = mode[o] /\ snap'[o] = snap[o] /\ target'[o] = target[o]
      /\ queue'[o] = queue[o] /\ delta'[o] = delta[o] /\ pending'[o] = pending[o]
      /\ filter'[o] = filter[o] /\ draft'[o] = draft[o] /\ astray'[o] = astray[o]
  BY DEF Frame
<1>2. GoodRoot(snap[o], packs', loose')
  BY GoodRootGrows DEF ClientInv, SnapInv, Grows
<1>3. SnapInv(o)' BY <1>1, <1>2 DEF ClientInv, SnapInv, Grows
<1>4. RestInv(o)' BY <1>1 DEF ClientInv, RestInv
<1>5. PushInv(o)'
  <2>1. Backed(delta[o], packs, loose) => Backed(delta[o], packs', loose')
    BY BackedGrows DEF Grows
  <2>2. Have(o)' = Have(o) BY <1>1 DEF Have
  <2> QED BY <1>1, <2>1, <2>2 DEF ClientInv, PushInv
<1>6. CommitInv(o)'
  <2>1. GoodRoot(draft[o], packs, loose) => GoodRoot(draft[o], packs', loose')
    BY GoodRootGrows DEF Grows
  <2> QED BY <1>1, <2>1 DEF ClientInv, CommitInv, Grows
<1> QED BY <1>3, <1>4, <1>5, <1>6 DEF ClientInv

\* A step that leaves INDEX_ROOT and the history alone keeps RootInv.
LEMMA RootKept ==
    ASSUME RootInv, Grows, UNCHANGED <<root, ever, misfiled>>
    PROVE  RootInv'
<1>1. GoodRoot(root, packs', loose') BY GoodRootGrows DEF RootInv, Grows
<1> QED BY <1>1 DEF RootInv

\* A session that ends leaves nothing behind.
LEMMA IdleKept ==
    ASSUME NEW c \in Clients, TypeOK, IdleSession(c)
    PROVE  /\ Frame(c) /\ ClientInv(c)'
           /\ mode' \in [Clients -> {"idle", "push", "pushCommit", "pack", "packCommit"}]
           /\ snap' \in [Clients -> MaybeRoot] /\ target' \in [Clients -> Roots]
           /\ queue' \in [Clients -> SUBSET Hashes] /\ delta' \in [Clients -> IndexFiles]
           /\ pending' \in [Clients -> SUBSET Hashes] /\ filter' \in [Clients -> SUBSET Hashes]
           /\ draft' \in [Clients -> MaybeRoot] /\ astray' \in [Clients -> SUBSET Hashes]
<1>1. Frame(c) BY DEF Frame, IdleSession, TypeOK
<1>2. /\ mode'[c] = "idle" /\ snap'[c] = NoRoot /\ delta'[c] = EmptyIndex
      /\ pending'[c] = {} /\ astray'[c] = {}
  BY DEF IdleSession, TypeOK
<1>3. ClientInv(c)'
  BY <1>2, CoveredFacts DEF ClientInv, SnapInv, RestInv, PushInv, CommitInv, GoodRoot
<1>4. EmptyIndex \in IndexFiles /\ NoRoot \in MaybeRoot /\ NoTarget \in Roots
  BY EmptyBacked, NoTargetType DEF MaybeRoot
<1> QED BY <1>1, <1>3, <1>4 DEF IdleSession, TypeOK

\* PackWriter::new and the start of a pack run.
LEMMA BeginKept ==
    ASSUME NEW c \in Clients, IndInv,
           (\E t \in Roots : PushBegin(c, t)) \/ PackBegin(c)
    PROVE  IndInv'
<1> USE DEF IndInv
<1>1. Grows /\ UNCHANGED <<root, ever, misfiled>> BY DEF PushBegin, PackBegin, history, Grows
<1>2. CASE \E t \in Roots : PushBegin(c, t)
  <2>1. PICK t \in Roots : PushBegin(c, t) BY <1>2
  <2>2. t \in Hashes BY HashAssumption
  <2>3. TypeOK'
    <3>1. root # NoRoot => root.bloom \in SUBSET Hashes BY DEF TypeOK, MaybeRoot, IndexRoots
    <3> QED BY <2>1, <2>2, <3>1 DEF TypeOK, PushBegin, history
  <2>4. Frame(c) BY <2>1 DEF Frame, PushBegin, TypeOK
  <2>5. /\ mode'[c] = "push" /\ snap'[c] = root /\ target'[c] = t /\ queue'[c] = {t}
        /\ filter'[c] = IF root = NoRoot THEN {} ELSE root.bloom
        /\ delta'[c] = EmptyIndex /\ pending'[c] = {} /\ astray'[c] = {}
    BY <2>1 DEF PushBegin, TypeOK, ClientInv, RestInv
  <2>6. GoodRoot(root, packs', loose') BY GoodRootGrows, <1>1 DEF RootInv, Grows
  <2>7. SnapInv(c)' BY <2>5, <2>6, <1>1 DEF SnapInv, RootInv
  <2>8. PushInv(c)' BY <2>5, EmptyBacked DEF PushInv
  <2>9. RestInv(c)' /\ CommitInv(c)' BY <2>5 DEF RestInv, CommitInv
  <2> QED BY <1>1, <2>3, <2>4, <2>7, <2>8, <2>9, OthersKept, RootKept DEF ClientInv
<1>3. CASE PackBegin(c)
  <2>1. TypeOK' BY <1>3 DEF TypeOK, PackBegin, history
  <2>2. Frame(c) BY <1>3 DEF Frame, PackBegin, TypeOK
  <2>3. /\ mode'[c] = "pack" /\ snap'[c] = root /\ root # NoRoot
        /\ delta'[c] = EmptyIndex /\ pending'[c] = {} /\ astray'[c] = {}
    BY <1>3 DEF PackBegin, TypeOK, ClientInv, RestInv
  <2>4. GoodRoot(root, packs', loose') BY GoodRootGrows, <1>1 DEF RootInv, Grows
  <2>5. SnapInv(c)' BY <2>3, <2>4, <1>1 DEF SnapInv, RootInv
  <2>6. RestInv(c)' /\ PushInv(c)' /\ CommitInv(c)' BY <2>3 DEF RestInv, PushInv, CommitInv
  <2> QED BY <1>1, <2>1, <2>2, <2>5, <2>6, OthersKept, RootKept DEF ClientInv
<1> QED BY <1>2, <1>3

\* Commit, a failed compare-and-swap and an abandoned command.
LEMMA EndKept ==
    ASSUME NEW c \in Clients, IndInv, Commit(c) \/ CasFailed(c) \/ Abandon(c)
    PROVE  IndInv'
<1> USE DEF IndInv
<1>1. IdleSession(c) /\ packs' = packs /\ loose' = loose
  BY DEF Commit, CasFailed, Abandon
<1>2. CASE Commit(c)
  <2>1. /\ root = snap[c] /\ mode[c] \in {"pushCommit", "packCommit"} /\ root' = draft[c]
        /\ ever' = ever \cup Covered(draft[c]) /\ misfiled' = misfiled \cup astray[c]
        /\ commits' = commits + 1
    BY <1>2 DEF Commit, CasOk
  <2>2. TypeOK' BY <1>1, <2>1, IdleKept, CoveredFacts DEF TypeOK
  <2>3. CommitInv(c) /\ draft[c] # NoRoot /\ GoodRoot(draft[c], packs, loose)
    BY <2>1 DEF ClientInv, CommitInv
  <2>4. ever' \ misfiled' \subseteq Covered(draft[c])
    BY <2>1 DEF RootInv, ClientInv, CommitInv
  <2>5. Closed(ever') BY <2>1 DEF RootInv, ClientInv, CommitInv, Closed
  <2>6. RootInv' BY <1>1, <2>1, <2>3, <2>4, <2>5 DEF RootInv, CommitInv
  <2>7. Grows BY <1>1, <2>1 DEF Grows
  <2> QED BY <1>1, <2>2, <2>6, <2>7, IdleKept, OthersKept
<1>3. CASE CasFailed(c) \/ Abandon(c)
  <2>1. Grows /\ UNCHANGED <<root, ever, misfiled, commits>>
    BY <1>3 DEF CasFailed, Abandon, history, Grows
  <2>2. TypeOK' BY <1>1, <2>1, IdleKept DEF TypeOK
  <2> QED BY <1>1, <2>1, <2>2, IdleKept, OthersKept, RootKept
<1> QED BY <1>2, <1>3

\* The walk skips an object the writer has or the snapshot covers.
LEMMA SkipKept ==
    ASSUME NEW c \in Clients, IndInv, NEW h \in Hashes, UploadSkip(c, h)
    PROVE  IndInv'
<1> USE DEF IndInv
<1>1. Grows /\ UNCHANGED <<root, ever, misfiled>> BY DEF UploadSkip, history, Grows
<1>2. TypeOK' BY DEF TypeOK, UploadSkip, history
<1>3. Frame(c) BY DEF Frame, UploadSkip, TypeOK
<1>4. h \in Have(c)
  BY DEF UploadSkip, exists, Have, Entries, Covered
<1>5. queue'[c] = queue[c] \ {h} /\ Have(c)' = Have(c)
  BY DEF UploadSkip, TypeOK, Have
<1>6. PushInv(c)' BY <1>4, <1>5 DEF PushInv, UploadSkip, ClientInv
<1>7. SnapInv(c)' /\ RestInv(c)' /\ CommitInv(c)'
  BY DEF UploadSkip, ClientInv, SnapInv, RestInv, CommitInv, history
<1> QED BY <1>1, <1>2, <1>3, <1>6, <1>7, OthersKept, RootKept DEF ClientInv

\* What every route does to the session's invariant: h is written or buffered,
\* its children are queued.
LEMMA RouteKept ==
    ASSUME NEW c \in Clients, IndInv, NEW h \in Hashes, Uploaded(c, h), TypeOK', Grows,
           UNCHANGED <<root, mode, snap, target, draft, astray, history>>,
           \A o \in Clients \ {c} : delta'[o] = delta[o] /\ pending'[o] = pending[o],
           Entries(delta'[c]) \cup pending'[c] = Entries(delta[c]) \cup pending[c] \cup {h},
           Backed(delta'[c], packs', loose')
    PROVE  IndInv'
<1> USE DEF IndInv
<1>1. /\ mode[c] = "push" /\ queue'[c] = (queue[c] \ {h}) \cup Children[h]
      /\ filter'[c] = filter[c] \cup {h}
  BY DEF Uploaded, TypeOK
<1>2. Frame(c) BY DEF Frame, Uploaded, TypeOK
<1>3. Have(c)' = Have(c) \cup {h} BY DEF Have
<1>4. PushInv(c)
  BY DEF ClientInv
<1>5. PushInv(c)'
  <2>1. Entries(delta'[c]) \cup pending'[c] \subseteq filter'[c]
    BY <1>1, <1>4 DEF PushInv
  <2>2. target[c] \in Have(c)' \cup queue'[c] BY <1>1, <1>3, <1>4 DEF PushInv
  <2>3. ASSUME NEW x \in Entries(delta'[c]) \cup pending'[c]
        PROVE  Children[x] \subseteq Have(c)' \cup queue'[c]
    <3>1. CASE x = h BY <3>1, <1>1
    <3>2. CASE x # h
      <4>1. x \in Entries(delta[c]) \cup pending[c] BY <3>2, <2>3
      <4>2. Children[x] \subseteq Have(c) \cup queue[c] BY <4>1, <1>1, <1>4 DEF PushInv
      <4> QED BY <4>2, <1>1, <1>3
    <3> QED BY <3>1, <3>2
  <2>4. snap[c] # NoRoot => snap[c].bloom \subseteq filter'[c] BY <1>1, <1>4 DEF PushInv
  <2> QED BY <2>1, <2>2, <2>3, <2>4 DEF PushInv
<1>6. GoodRoot(snap[c], packs', loose') BY GoodRootGrows DEF ClientInv, SnapInv, Grows
<1>7. SnapInv(c)' BY <1>6 DEF SnapInv, ClientInv, history
<1>8. RestInv(c)' /\ CommitInv(c)' BY <1>1 DEF RestInv, CommitInv, ClientInv
<1>9. UNCHANGED <<root, ever, misfiled>> BY DEF history
<1> QED BY <1>2, <1>5, <1>7, <1>8, <1>9, OthersKept, RootKept DEF ClientInv

\* A hash the upload walk visits keeps the queue and the filter well typed.
LEMMA UploadedTypes ==
    ASSUME NEW c \in Clients, TypeOK, NEW h \in Hashes, Uploaded(c, h)
    PROVE  /\ queue' \in [Clients -> SUBSET Hashes] /\ filter' \in [Clients -> SUBSET Hashes]
           /\ delta[c] \in IndexFiles /\ pending[c] \in SUBSET Hashes
           /\ mode[c] = "push"
<1>1. Children[h] \in SUBSET Hashes BY HashAssumption
<1> QED BY <1>1 DEF Uploaded, TypeOK

\* Setting one entry of an index file.
LEMMA EntrySet ==
    ASSUME NEW idx \in IndexFiles, NEW h \in Hashes, NEW loc \in Locations, loc # NoLoc
    PROVE  /\ [idx EXCEPT ![h] = loc] \in IndexFiles
           /\ Entries([idx EXCEPT ![h] = loc]) = Entries(idx) \cup {h}
BY DEF IndexFiles, Entries

\* Setting an entry whose bytes are on the remote keeps an index file backed.
LEMMA EntryBacked ==
    ASSUME NEW idx \in IndexFiles, NEW h \in Hashes, NEW loc, NEW P, NEW L,
           Backed(idx, P, L), BytesIn(loc, h, P, L)
    PROVE  Backed([idx EXCEPT ![h] = loc], P, L)
BY DEF IndexFiles, Backed

\* Routing an object inline keeps the invariant.
LEMMA InlineKept ==
    ASSUME NEW c \in Clients, IndInv, NEW h \in Hashes, RouteInline(c, h)
    PROVE  IndInv'
<1>1. Uploaded(c, h) /\ TypeOK BY DEF RouteInline, IndInv
<1>2. delta'[c] = [delta[c] EXCEPT ![h] = Inline] /\ pending'[c] = pending[c]
  BY <1>1 DEF RouteInline, TypeOK
<1>3. TypeOK'
  <2>1. delta' \in [Clients -> IndexFiles]
    BY <1>1, EntrySet, LocTypes, UploadedTypes DEF RouteInline, TypeOK
  <2> QED BY <2>1, <1>1, UploadedTypes DEF TypeOK, RouteInline, history
<1>4. Grows /\ \A o \in Clients \ {c} : delta'[o] = delta[o] /\ pending'[o] = pending[o]
  BY <1>1 DEF Grows, RouteInline, TypeOK, history
<1>5. Backed(delta[c], packs, loose) BY <1>1 DEF Uploaded, IndInv, ClientInv, PushInv
<1>6. /\ Entries(delta'[c]) = Entries(delta[c]) \cup {h}
      /\ Backed(delta'[c], packs', loose')
  <2>1. BytesIn(Inline, h, packs, loose) BY DEF BytesIn, Inline
  <2>2. delta[c] \in IndexFiles BY <1>1, UploadedTypes
  <2>3. Backed(delta'[c], packs, loose) BY <2>1, <2>2, <1>2, <1>5, EntryBacked
  <2>4. Entries(delta'[c]) = Entries(delta[c]) \cup {h} BY <2>2, <1>2, EntrySet, LocTypes
  <2> QED BY <2>3, <2>4 DEF RouteInline
<1> QED BY <1>1, <1>2, <1>3, <1>4, <1>6, RouteKept DEF RouteInline

\* Routing an object to a standalone object keeps the invariant.
LEMMA StandaloneKept ==
    ASSUME NEW c \in Clients, IndInv, NEW h \in Hashes, RouteStandalone(c, h)
    PROVE  IndInv'
<1>1. Uploaded(c, h) /\ TypeOK BY DEF RouteStandalone, IndInv
<1>2. delta'[c] = [delta[c] EXCEPT ![h] = Standalone] /\ pending'[c] = pending[c]
  BY <1>1 DEF RouteStandalone, TypeOK
<1>3. TypeOK'
  <2>1. delta' \in [Clients -> IndexFiles]
    BY <1>1, EntrySet, LocTypes, UploadedTypes DEF RouteStandalone, TypeOK
  <2> QED BY <2>1, <1>1, UploadedTypes DEF TypeOK, RouteStandalone, history
<1>4. Grows /\ \A o \in Clients \ {c} : delta'[o] = delta[o] /\ pending'[o] = pending[o]
  BY <1>1 DEF Grows, RouteStandalone, TypeOK, history
<1>5. Backed(delta[c], packs', loose')
  BY <1>1, <1>4, BackedGrows DEF Uploaded, IndInv, ClientInv, PushInv, Grows
<1>6. /\ Entries(delta'[c]) = Entries(delta[c]) \cup {h}
      /\ Backed(delta'[c], packs', loose')
  <2>1. BytesIn(Standalone, h, packs', loose') BY DEF BytesIn, Standalone, RouteStandalone
  <2>2. delta[c] \in IndexFiles BY <1>1, UploadedTypes
  <2>3. Backed(delta'[c], packs', loose') BY <2>1, <2>2, <1>2, <1>5, EntryBacked
  <2>4. Entries(delta'[c]) = Entries(delta[c]) \cup {h} BY <2>2, <1>2, EntrySet, LocTypes
  <2> QED BY <2>3, <2>4
<1> QED BY <1>1, <1>2, <1>3, <1>4, <1>6, RouteKept DEF RouteStandalone

\* Routing an object to the pack buffer, flushing it or not, keeps the invariant.
LEMMA PackedKept ==
    ASSUME NEW c \in Clients, IndInv, NEW h \in Hashes, RoutePack(c, h)
    PROVE  IndInv'
<1> DEFINE buf == pending[c] \cup {h}
<1>1. Uploaded(c, h) /\ TypeOK BY DEF RoutePack, IndInv
<1>2. buf \in SUBSET Hashes BY <1>1, UploadedTypes
<1>3. Backed(delta[c], packs, loose) BY <1>1 DEF Uploaded, IndInv, ClientInv, PushInv
<1>4. UNCHANGED <<root, mode, snap, target, draft, astray, history>> /\ loose' = loose
  BY DEF RoutePack
<1>5. CASE Cardinality(buf) >= PackTarget
  <2>1. /\ packs' = packs \cup {buf} /\ delta' = [delta EXCEPT ![c] = FlushedInto(@, buf)]
        /\ pending' = [pending EXCEPT ![c] = {}]
    BY <1>5 DEF RoutePack
  <2>2. /\ FlushedInto(delta[c], buf) \in IndexFiles
        /\ Entries(FlushedInto(delta[c], buf)) = Entries(delta[c]) \cup buf
    BY <1>1, <1>2, Flushed, UploadedTypes
  <2>3. Backed(FlushedInto(delta[c], buf), packs', loose')
    <3>1. Backed(delta[c], packs', loose') BY <1>3, <1>4, <2>1, BackedGrows
    <3> QED BY <3>1, <2>1, <1>1, <1>2, Flushed, UploadedTypes
  <2> HIDE DEF buf
  <2>4. TypeOK' BY <1>1, <1>2, <1>4, <2>1, <2>2, UploadedTypes DEF TypeOK, history
  <2>5. delta'[c] = FlushedInto(delta[c], buf) /\ pending'[c] = {} BY <1>1, <2>1 DEF TypeOK
  <2>6. Grows /\ \A o \in Clients \ {c} : delta'[o] = delta[o] /\ pending'[o] = pending[o]
    BY <1>1, <1>4, <2>1 DEF Grows, TypeOK, history
  <2>7. Entries(delta'[c]) \cup pending'[c] = Entries(delta[c]) \cup pending[c] \cup {h}
    BY <2>2, <2>5 DEF buf
  <2> QED BY <1>1, <1>4, <2>3, <2>4, <2>5, <2>6, <2>7, RouteKept
<1>6. CASE ~(Cardinality(buf) >= PackTarget)
  <2>1. pending' = [pending EXCEPT ![c] = buf] /\ packs' = packs /\ delta' = delta
    BY <1>6 DEF RoutePack
  <2> HIDE DEF buf
  <2>2. TypeOK' BY <1>1, <1>2, <1>4, <2>1, UploadedTypes DEF TypeOK, history
  <2>3. Grows /\ \A o \in Clients \ {c} : delta'[o] = delta[o] /\ pending'[o] = pending[o]
    BY <1>1, <1>4, <2>1 DEF Grows, TypeOK, history
  <2>4. Entries(delta'[c]) \cup pending'[c] = Entries(delta[c]) \cup pending[c] \cup {h}
    BY <1>1, <2>1 DEF buf, TypeOK
  <2> QED BY <1>1, <1>3, <1>4, <2>1, <2>2, <2>3, <2>4, RouteKept
<1> QED BY <1>5, <1>6

\* PackWriter.finish builds a good INDEX_ROOT.
LEMMA FinishKept ==
    ASSUME NEW c \in Clients, IndInv, FinishPrepare(c)
    PROVE  IndInv'
<1> USE DEF IndInv
<1> DEFINE d == IF pending[c] = {} THEN delta[c] ELSE FlushedInto(delta[c], pending[c])
           n == Pushed(snap[c], target[c], d, filter[c])
<1>1. /\ mode[c] = "push" /\ queue[c] = {} /\ PushInv(c) /\ SnapInv(c)
      /\ delta[c] \in IndexFiles /\ pending[c] \in SUBSET Hashes /\ filter[c] \in SUBSET Hashes
      /\ snap[c] \in MaybeRoot /\ target[c] \in Hashes /\ astray[c] = {}
  BY HashAssumption DEF FinishPrepare, TypeOK, ClientInv, RestInv
<1>2. /\ packs' = IF pending[c] = {} THEN packs ELSE packs \cup {pending[c]}
      /\ Len(n.delta_hashes) <= MaxDeltas
      /\ draft' = [draft EXCEPT ![c] = n]
  BY DEF FinishPrepare, PushedRoot, Pushed
<1>3. Grows /\ UNCHANGED <<root, loose, snap, target, queue, filter, astray, ever, misfiled, commits>>
  BY <1>2 DEF Grows, FinishPrepare, history
<1>4. /\ d \in IndexFiles /\ Entries(d) = Entries(delta[c]) \cup pending[c]
      /\ Backed(d, packs', loose')
  <2>1. Backed(delta[c], packs', loose') BY <1>1, <1>3, BackedGrows DEF PushInv, Grows
  <2>2. CASE pending[c] = {} BY <2>1, <2>2, <1>1
  <2>3. CASE pending[c] # {} BY <2>1, <2>3, <1>1, <1>2, Flushed
  <2> QED BY <2>2, <2>3
<1>5. GoodRoot(snap[c], packs', loose') BY <1>1, <1>3, GoodRootGrows DEF SnapInv, Grows
<1>6. /\ Entries(d) \subseteq filter[c]
      /\ snap[c] # NoRoot => snap[c].bloom \subseteq filter[c]
  BY <1>1, <1>4 DEF PushInv
<1> HIDE DEF d
<1>7. /\ n \in IndexRoots /\ GoodRoot(n, packs', loose') /\ n.remote_root = target[c]
      /\ Covered(n) = Covered(snap[c]) \cup Entries(d)
  BY <1>1, <1>2, <1>4, <1>5, <1>6, PushRun
<1> HIDE DEF n
<1>8. TypeOK'
  <2>1. EmptyIndex \in IndexFiles /\ n \in MaybeRoot BY <1>7, EmptyBacked DEF MaybeRoot
  <2> QED BY <1>1, <1>2, <1>3, <2>1 DEF TypeOK, FinishPrepare
<1>9. Frame(c) BY DEF Frame, FinishPrepare, TypeOK
<1>10. /\ mode'[c] = "pushCommit" /\ draft'[c] = n /\ delta'[c] = EmptyIndex /\ pending'[c] = {}
  BY <1>2 DEF FinishPrepare, TypeOK
<1>11. SnapInv(c)' /\ RestInv(c)' /\ PushInv(c)'
  BY <1>1, <1>3, <1>5, <1>10 DEF SnapInv, RestInv, PushInv
<1>12. CommitInv(c)'
  <2>1. Covered(n) = Have(c) BY <1>4, <1>7 DEF Have
  <2>2. target[c] \in Covered(n) BY <2>1, <1>1 DEF PushInv
  <2>3. ASSUME NEW h \in Covered(n) PROVE Children[h] \subseteq Covered(n) \cup ever
    <3>1. CASE h \in Covered(snap[c])
      BY <3>1, <1>1 DEF SnapInv, RootInv, Closed
    <3>2. CASE h \in Entries(delta[c]) \cup pending[c]
      BY <3>2, <2>1, <1>1 DEF PushInv
    <3> QED BY <3>1, <3>2, <2>1, <2>3 DEF Have
  <2>4. n # NoRoot BY <1>7, NoRootAssumption
  <2> QED BY <2>2, <2>3, <2>4, <1>3, <1>7, <1>10 DEF CommitInv
<1> QED BY <1>3, <1>8, <1>9, <1>11, <1>12, OthersKept, RootKept DEF ClientInv

\* A pack run builds a good INDEX_ROOT.
LEMMA PackPrepareKept ==
    ASSUME NEW c \in Clients, IndInv, NEW walked \in SUBSET Hashes, PackPrepare(c, walked)
    PROVE  IndInv'
<1> USE DEF IndInv
<1> DEFINE r == snap[c]
           new == NewPack(r, walked)
           d == draft'[c]
<1>1. /\ mode[c] = "pack" /\ r \in IndexRoots /\ SnapInv(c) /\ RestInv(c)
  BY DEF PackPrepare, TypeOK, ClientInv, RestInv, MaybeRoot
<1>2. packs' = IF new = {} THEN packs ELSE packs \cup {new}
  BY DEF PackPrepare, NewPack
<1>3. astray' = [astray EXCEPT ![c] = PackAstray(r, walked)]
  BY DEF PackPrepare, PackAstray
<1>4. draft' = [draft EXCEPT ![c] = d] /\ PackDraft(r, walked, d)
  BY DEF PackPrepare, PackDraft, TypeOK
<1>5. /\ mode' = [mode EXCEPT ![c] = "packCommit"]
      /\ UNCHANGED <<root, loose, snap, target, queue, delta, pending, filter, ever, misfiled, commits>>
  BY DEF PackPrepare, history
<1>6. Grows BY <1>2, <1>5 DEF Grows
<1>7. GoodRoot(r, packs', loose') BY <1>1, <1>6, GoodRootGrows DEF SnapInv, Grows
<1>8. /\ d \in IndexRoots /\ GoodRoot(d, packs', loose') /\ d.remote_root = r.remote_root
      /\ Covered(r) \ PackAstray(r, walked) \subseteq Covered(d) /\ Covered(d) \subseteq Covered(r)
  BY <1>1, <1>2, <1>4, <1>7, PackRun
<1>9. TypeOK'
  <2>1. new \in SUBSET Hashes BY DEF NewPack, Consolidated
  <2>2. PackAstray(r, walked) \in SUBSET Hashes BY DEF PackAstray, Astray, Entries
  <2>3. d \in MaybeRoot BY <1>8 DEF MaybeRoot
  <2> HIDE DEF new, d, r
  <2> QED BY <1>2, <1>3, <1>4, <1>5, <2>1, <2>2, <2>3 DEF TypeOK
<1>10. Frame(c) BY <1>3, <1>4, <1>5 DEF Frame, TypeOK
<1>11. mode'[c] = "packCommit" /\ astray'[c] = PackAstray(r, walked)
  BY <1>3, <1>5 DEF TypeOK
<1>12. SnapInv(c)' /\ RestInv(c)' /\ PushInv(c)'
  BY <1>1, <1>5, <1>7, <1>11 DEF SnapInv, RestInv, PushInv
<1>13. CommitInv(c)'
  <2>1. d # NoRoot /\ r # NoRoot BY <1>1, <1>8, NoRootAssumption
  <2>2. d.remote_root \in ever BY <1>1, <1>8, <2>1 DEF SnapInv
  <2>3. \A h \in Covered(d) : Children[h] \subseteq ever
    BY <1>1, <1>8 DEF SnapInv, RootInv, Closed
  <2> QED BY <2>1, <2>2, <2>3, <1>5, <1>8, <1>11 DEF CommitInv
<1> QED BY <1>5, <1>6, <1>9, <1>10, <1>12, <1>13, OthersKept, RootKept DEF ClientInv

-----------------------------------------------------------------------------
\* The inductive invariant holds of an empty remote.
LEMMA InitInv == Init => IndInv
<1> SUFFICES ASSUME Init PROVE IndInv OBVIOUS
<1>1. TypeOK
  BY EmptyBacked, NoTargetType DEF Init, TypeOK, MaybeRoot
<1>2. RootInv BY CoveredFacts DEF Init, RootInv, GoodRoot, Closed
<1>3. ASSUME NEW c \in Clients PROVE ClientInv(c)
  BY CoveredFacts DEF Init, ClientInv, SnapInv, RestInv, PushInv, CommitInv, GoodRoot
<1> QED BY <1>1, <1>2, <1>3 DEF IndInv

\* The inductive invariant is kept by every step.
LEMMA StepInv == IndInv /\ [Next]_vars => IndInv'
<1> SUFFICES ASSUME IndInv, [Next]_vars PROVE IndInv' OBVIOUS
<1>1. ASSUME NEW c \in Clients, Step(c) PROVE IndInv'
  BY <1>1, BeginKept, EndKept, SkipKept, InlineKept, StandaloneKept, PackedKept, FinishKept,
     PackPrepareKept DEF Step
<1>2. CASE UNCHANGED vars
  BY <1>2 DEF vars, session, history, IndInv, TypeOK, RootInv, ClientInv, SnapInv, RestInv,
              PushInv, CommitInv, Have
<1> QED BY <1>1, <1>2 DEF Next

\* The inductive invariant holds throughout.
LEMMA Invariance == Spec => []IndInv
BY InitInv, StepInv, PTL DEF Spec

\* What a good INDEX_ROOT covers, a reader with cold caches resolves.
LEMMA CoveredResolves ==
    ASSUME root \in IndexRoots, GoodRoot(root, packs, loose), NEW h \in Covered(root)
    PROVE  Resolvable(root, h)
<1>1. h \in Hashes /\ root # NoRoot /\ Prefix[h] \in Prefixes /\ 0 \in Prefixes
  BY CoveredFacts, NoRootAssumption, HashAssumption
<1>2. locate(root, h) BY <1>1 DEF Covered, index_contains, locate, GoodRoot
<1>3. RootBacked(root, packs, loose) BY <1>1 DEF GoodRoot
<1>4. \A loc \in Recorded(root, h) : BytesIn(loc, h, packs, loose)
  BY <1>1, <1>3 DEF Recorded, RootBacked, Backed, cold_shard_hash_for
<1> QED BY <1>2, <1>4 DEF Resolvable, HasBytes, BytesIn

\* The type invariant, with the u16 bound on the delta list (index_root.rs).
THEOREM TypeCorrect == Spec => []TypeOK
BY Invariance, PTL DEF IndInv

\* The published Bloom filter has no false negatives over any mixture of
\* concurrent pushes, pack runs and interrupted sessions.
THEOREM FilterCovers == Spec => []BloomCoversIndex
<1>1. IndInv => BloomCoversIndex BY DEF IndInv, RootInv, GoodRoot, BloomCoversIndex
<1> QED BY <1>1, Invariance, PTL

\* What an INDEX_ROOT ever covered stays resolvable through every later one,
\* except what a pack run filed under a shard its lookup does not read.
THEOREM PublishedResolves == Spec => []PublishedStaysResolvable
<1>1. IndInv => PublishedStaysResolvable
  BY CoveredResolves DEF IndInv, TypeOK, MaybeRoot, RootInv, PublishedStaysResolvable
<1> QED BY <1>1, Invariance, PTL

\* Everything reachable from the published root is resolvable, same exception:
\* the push-completion invariant of design/02_storage_format.md.
THEOREM ReachableResolves == Spec => []ReachableResolvable
<1>1. ASSUME IndInv, root # NoRoot, NEW h \in Reachable(root.remote_root) \ misfiled
      PROVE  Resolvable(root, h)
  <2>1. ever \in SUBSET Hashes /\ Closed(ever) /\ root.remote_root \in ever
    BY <1>1 DEF IndInv, TypeOK, RootInv
  <2>2. h \in ever BY <1>1, <2>1 DEF Reachable
  <2> QED BY <1>1, <2>2, CoveredResolves DEF IndInv, TypeOK, MaybeRoot, RootInv
<1>2. IndInv => ReachableResolvable BY <1>1 DEF ReachableResolvable
<1> QED BY <1>2, Invariance, PTL
=============================================================================
