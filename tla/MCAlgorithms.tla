---- MODULE MCAlgorithms ----
(***************************************************************************)
(* The pure algorithms, evaluated on every input of a bounded set: a       *)
(* behaviour picks an input and evaluates it, the sessions that fill a     *)
(* remote one by one.                                                      *)
(***************************************************************************)
EXTENDS Listing

VARIABLES
    in,      \* the input
    stage,   \* "start", sessions in between, "done"
    pub      \* the remote: INDEX_ROOT and its files
vars == <<in, stage, pub>>

F == INSTANCE Filter
O == INSTANCE ObjectCodec
StampOf(line) == IF line = "t1" THEN 1 ELSE IF line = "t2" THEN 2 ELSE 0
P == INSTANCE Inspect
M == INSTANCE LineMerge WITH Stamp <- StampOf
Setup == INSTANCE RemoteSetup
N == INSTANCE PathNames WITH
       Links <- [p \in {<<<<"l">>>>} |-> <<<<"r">>>>],
       Existing <- {<<>>, <<<<"q">>>>, <<<<"r">>>>, <<<<"r">>, <<"a">>>>, <<<<"r">>, <<"a">>, <<"a">>>>}

(* Trees: two names, two levels below the root's single name where the     *)
(* depth matters, two contents and a symlink.                              *)
Leaves == {Blob("a"), Blob("b"), Link("a")}
TreesOver(names, entries) == UNION {[D -> entries] : D \in SUBSET names}
Shallow == TreesOver({"x", "y"}, Leaves \cup {Dir(t) : t \in TreesOver({"x"}, Leaves)})
Small == {Blob("a"), Blob("b")}
Deep == TreesOver({"x"}, Small \cup {Dir(t) : t \in TreesOver({"x", "y"},
          Small \cup {Dir(t) : t \in TreesOver({"x"}, {Blob("a")})})})

Paths == {<<"x">>, <<"y">>, <<"x", "x">>, <<"x", "y">>, <<"x", "x", "x">>}

InitHeal ==
    \E b, t \in Deep, f \in BOOLEAN, s \in {{}, {<<"x", "x">>}} :
    \E m \in SUBSET TreesIn(b) :
       in = [alg |-> "heal", base |-> b, target |-> t, missing |-> m,
             unfetchable |-> IF f THEN {} ELSE m \ {b}, scope |-> s]
InitRows ==
    \E b, t \in Shallow, r \in BOOLEAN, p \in {<<>>, <<"x">>}, i \in {{}, {<<"x">>}, {<<"x", "x">>}} :
       in = [alg |-> "rows", base |-> b, target |-> t, recursive |-> r, path |-> p, ignored |-> i]
InitRemote ==
    \E b, t \in Shallow, r \in BOOLEAN, m \in BOOLEAN :
       in = [alg |-> "remote", base |-> b, target |-> t, recursive |-> r, missing |-> m]
InitScope ==
    \E b, t \in Deep, p, q \in Paths :
       in = [alg |-> "scope", base |-> b, target |-> t, paths |-> IF p = q THEN <<p>> ELSE <<p, q>>]

(* Filters: a root filter of at most two lines over two nested ones.       *)
Texts == {<<"x">>, <<"y">>, <<"x", "y">>, <<"*">>}
Lines == {F!Pattern(t, a, n) : t \in Texts, a, n \in BOOLEAN} \cup {F!Header("line_merge")}
NestedLines == {F!Pattern(t, a, n) : t \in {<<"y">>, <<"*">>}, a, n \in BOOLEAN}
UpTo(n, S) == UNION {[1 .. m -> S] : m \in 0 .. n}
FilterDirs == {<<>>, <<"x">>, <<"x", "y">>}
InitFilter ==
    \E top \in UpTo(2, Lines), mid \in UpTo(1, NestedLines), low \in {<<>>, <<F!Pattern(<<"*">>, FALSE, TRUE)>>} :
       in = [alg |-> "filter",
             disk |-> [dirs |-> FilterDirs,
                       filter |-> [d \in FilterDirs |-> IF d = <<>> THEN top ELSE IF Len(d) = 1 THEN mid ELSE low]]]

\* Line merge: a base of at most two lines, one side of three, one of two.
InitMerge ==
    \E b \in UpTo(2, {"a", "t1"}), l \in UpTo(3, {"a", "b", "t1", "t2"}), r \in UpTo(2, {"a", "b", "t1", "t2"}) :
       in = [alg |-> "merge", base |-> b, local |-> l, remote |-> r]

\* Objects: contents of the tag bytes, every way to cut and to compress them.
Bytes == {237, 240, 242, 222, 208, 7}
InitObject ==
    \E c \in UpTo(3, Bytes), cuts \in SUBSET (2 .. 4), key \in {O!NoKey, 1}, best \in {"dict", "plain", "raw"} :
       /\ \A i \in cuts : i < Len(O!serialise_blob(c))
       /\ in = [alg |-> "object", content |-> c, cuts |-> cuts, key |-> key, best |-> best]

\* Packs: three objects of boundary sizes, the first four filling a pack up to
\* the target or not; two sessions, the first moved to cold shards or not.
Hashes == <<<<0, 1>>, <<5, 3>>, <<6, 5>>, <<1, 1>>, <<2, 3>>, <<3, 5>>, <<4, 7>>, <<7, 1>>, <<7, 5>>>>
Sizes == {1, 255, 256, 1048575, 1048576}
Object(i, size, mark) == [hash |-> Hashes[i], size |-> size, mark |-> mark]
InitPack ==
    \E sizes \in Sizes \X {1, 256, 1048576}, mark \in {0, 223, 224, 225, 239, 240}, full \in BOOLEAN, cut \in {0, 1, 5},
       bits \in 0 .. 2, cold, cached, stray \in BOOLEAN, filter \in {1, 5} :
       /\ (cold \/ bits = 0) /\ (mark = 0 \/ sizes[1] >= P!PACK_THRESHOLD)
       /\ in = [alg |-> "pack", cut |-> cut, bits |-> bits, cold |-> cold, cached |-> cached, stray |-> stray, filter |-> filter,
                objects |-> (IF full THEN [i \in 1 .. 4 |-> Object(3 + i, 1048575, 0)] ELSE <<>>)
                              \o <<Object(1, sizes[1], mark), Object(2, sizes[2], 224), Object(3, 300, 0)>>]

\* Setting up a remote: whatever it holds, whatever is asked and answered.  A
\* prefix with an INDEX_ROOT holds index files too.
Remotes == {[roots |-> r, objects |-> o, listable |-> TRUE] : r \in SUBSET {Setup!NoKey, 1}, o \in BOOLEAN}
Flags == [new : BOOLEAN, existing : BOOLEAN, encrypt : BOOLEAN, force : BOOLEAN]
Exported == {Setup!RemoteConfig(k, p, key) : k \in {"local", "azure"}, p \in {"o", "b"}, key \in {0, 2}}
Url(scheme, container) == [scheme |-> scheme, container |-> container, place |-> "p", string |-> <<>>]
Import(config) == [Url("omemfs_repo_", TRUE) EXCEPT !.string = Setup!encode_connection_string(config)]
Urls == {Url(s, c) : s \in {"", "/", "local", "s3", "gs", "azure", "ftp"}, c \in BOOLEAN} \cup {Import(c) : c \in Exported}
NoAnswers == [url |-> Url("", TRUE), choices |-> <<>>, place |-> "", intent |-> "", encrypted |-> "", dek |-> 1]
Answers == [url : {Url(s, TRUE) : s \in {"", "s3", "gs"}} \cup {Import(Setup!RemoteConfig("s3", "b", 1))}, choices : {<<>>, <<7, 4>>}, place : {"", "p"},
            intent : {"", "new", "existing"}, encrypted : {"", "y", "n"}, dek : {1, 2}]
InitSetup ==
    \E r \in {x \in Remotes : x.roots = {} \/ x.objects}, f \in Flags, has \in BOOLEAN :
    \E url \in Urls, a \in Answers :
       /\ url.scheme = "" \/ a = NoAnswers
       /\ in = [alg |-> "setup", remote |-> r, flags |-> f, url |-> url, answers |-> a, has |-> has]

\* Paths: a repository inside another, reached through a link as well, from
\* every directory, and every spelling of a place.
a1 == <<"a">>
Segments == {a1, <<"", "filter">>, N!Metadata, <<"a", "stub">>, <<"a", "new">>}
Top == <<<<"r">>>>
Dirs == {<<>>, <<<<"q">>>>, Top, Top \o <<a1>>, Top \o <<a1, a1>>}
Places == {Top \o p : p \in UNION {[1 .. n -> Segments] : n \in 0 .. 3}} \cup {<<<<"q">>, a1>>}
InitPaths ==
    \E cwd \in Dirs, place \in Places, spelling \in {"absolute", "link", "relative", "dots"},
       repos \in SUBSET {Top, Top \o <<a1>>} :
       in = [alg |-> "paths", cwd |-> cwd, place |-> place, spelling |-> spelling, repos |-> repos]

\* Names met on disk: contents, and what omemfs itself leaves there.
DiskNames == {a1, N!Metadata, <<"", "filter">>, <<"", "filter", "stub">>, <<"", "stub">>, <<"a", "stub">>,
              <<"a", "conflict-base">>, <<"a", "stub", "conflict-local">>, <<"a", "conflict-meta">>, <<"", "tmp">>,
              <<"", "tmp", "stub">>, <<"a", "filter">>, <<"a", "new">>}
InitNames == \E disk \in SUBSET DiskNames : in = [alg |-> "names", disk |-> disk]

NothingPublished == [root |-> P!NoRoot, remote |-> [k \in {} |-> <<>>]]
Algorithms == {"heal", "rows", "remote", "scope", "filter", "merge", "object", "pack", "setup", "paths", "names"}
Init ==
    /\ stage = "start" /\ pub = NothingPublished
    /\ \/ InitHeal \/ InitRows \/ InitRemote \/ InitScope \/ InitFilter \/ InitMerge \/ InitObject \/ InitPack
       \/ InitSetup \/ InitPaths \/ InitNames

Evaluate(alg) == stage = "start" /\ in.alg = alg /\ stage' = "done" /\ UNCHANGED <<in, pub>>

\* What comes of a remote: a session that never published leaves files behind,
\* a push, a pack run that moves its delta to cold shards, and a second push.
Session(objects) == P!upload(pub.root, pub.remote, P!EmptyFilter(in.filter, 2), objects)
Shards(root) ==
    [i \in 1 .. 2 ^ in.bits |->
       LET d == root.deltas[1] IN [h \in {x \in DOMAIN d : P!hash_prefix(x, in.bits) = i - 1} |-> d[h]]]
ToCold(cold) ==
    [root |-> [pub.root EXCEPT !.deltas = <<>>, !.bits = in.bits, !.cold = cold],
     remote |-> P!FoldLeft(LAMBDA r, i : P!Put(r, <<"index", i>>, <<P!Mark(P!IndexMagic)>>), pub.remote, cold)]
Stray == <<Object(8, 1048576, 226), Object(9, 300, 0)>>
Smaller(a, b) == IF a < b THEN a ELSE b
Goes(from, to) == in.alg = "pack" /\ stage = from /\ stage' = to /\ UNCHANGED in

LeaveStray ==
    /\ Goes("start", "first")
    /\ pub' = IF in.stray THEN [pub EXCEPT !.remote = Session(Stray).remote] ELSE pub
FirstPush == Goes("first", "cold") /\ pub' = Session(SubSeq(in.objects, 1, Smaller(in.cut, Len(in.objects))))
MoveToCold ==
    /\ Goes("cold", "second")
    /\ pub' = IF in.cold /\ pub.root.deltas # <<>> THEN ToCold(Shards(pub.root)) ELSE pub
SecondPush == Goes("second", "done") /\ pub' = Session(in.objects)

Next ==
    \/ \E alg \in Algorithms \ {"pack"} : Evaluate(alg)
    \/ LeaveStray \/ FirstPush \/ MoveToCold \/ SecondPush
Spec == Init /\ [][Next]_vars

Is(alg) == stage = "done" /\ in.alg = alg
AllTrees == TreesIn(in.base) \cup TreesIn(in.target)

(* A listing that downloads missing trees as it goes either fails or shows *)
(* what it would show if every tree were local, and it fails only over a   *)
(* tree the remote cannot deliver (diff_trees_with_heal).                  *)
HealIsExact ==
    Is("heal") =>
      LET have == AllTrees \ in.missing
          healed == diff_trees_with_heal(have, in.missing \ in.unfetchable, in.scope, Dir(in.base), in.target)
          full == diff_trees(AllTrees, in.scope, Dir(in.base), in.target).map
      IN  /\ healed \in {full, Failed}
          /\ in.unfetchable = {} => healed = full

(* Listing some paths shows of them what listing everything shows: scanned *)
(* one by one into clone_root, compared inside their scope                 *)
(* (scan_scoped_for_ls, ScopeFilter).                                      *)
ScopedAgrees ==
    Is("scope") =>
      LET scope == {in.paths[i] : i \in DOMAIN in.paths}
          root == scan_scoped_for_ls(AllTrees, in.base, in.target, {}, {}, in.paths)
          all == AllTrees \cup TreesIn(root.sub)
          part == diff_trees(all, scope, Dir(in.base), root.sub).map
          whole == diff_trees(all, {}, Dir(in.base), in.target).map
      IN  root.k = "error" \/
          part = [p \in {q \in DOMAIN whole : in_scope(scope, q)} |-> whole[p]]

Leaf(flat, p) == IF p \in DOMAIN flat THEN flat[p] ELSE None

\* What the scan finds on disk and what it leaves out.
RECURSIVE Scanned(_, _, _)
Scanned(t, prefix, ignored) ==
    LET kept == {n \in DOMAIN t : Append(prefix, n) \notin ignored}
    IN  [n \in kept |-> IF t[n].k = "dir" THEN Dir(Scanned(t[n].sub, Append(prefix, n), ignored)) ELSE t[n]]
Met == {key \in {[path |-> p, dir |-> d] : p \in in.ignored, d \in BOOLEAN} :
          /\ At(in.target, key.path).k \notin {"none", "error"}
          /\ key.dir <=> At(in.target, key.path).k = "dir"}

\* The listing of in.path, in.target being what is on disk.
Listed ==
    LET disk == Scanned(in.target, <<>>, in.ignored)
        scoped == scan_scoped_for_ls(AllTrees \cup TreesIn(disk), in.base, disk, {}, in.ignored, <<in.path>>)
        working == IF in.path = <<>> THEN Dir(disk) ELSE scoped
        scope == IF in.path = <<>> THEN {} ELSE {in.path}
        have == AllTrees \cup TreesIn(working.sub)
    IN  [have |-> have, root |-> in.base, working |-> working.sub, rtree |-> in.base, target |-> in.path,
         recursive |-> in.recursive, diff |-> diff_trees(have, scope, Dir(in.base), working.sub).map,
         remote |-> NoTree, ignored |-> in.ignored, found |-> Met, unknown |-> {},
         stubs |-> {}, conflicts |-> {}, ok |-> working.k # "error"]

\* A name that is a directory on one side and a leaf on the other.
KindChange(new, p) ==
    \E i \in 1 .. Len(p) : LET q == SubSeq(p, 1, i)
                               kinds == {At(in.base, q).k, At(new, q).k}
                           IN  "none" \notin kinds /\ "dir" \in kinds /\ kinds # {"dir"}

(* Every file the working tree changes is marked in the listing, with the  *)
(* right letter on its own row, or on the row of the directory that leads  *)
(* to it; and every mark stands for such a change or for a new empty       *)
(* directory.  Two kinds of row fall outside: a name that changed its kind *)
(* and the row made for a requested path that is itself new.               *)
RowsShowChanges ==
    Is("rows") =>
      LET L == Listed
          rows == ls_rows(L)
          old == flatten_into(L.have, in.base)
          new == flatten_into(L.have, L.working)
          changed == {p \in DOMAIN old \cup DOMAIN new : Leaf(old, p) # Leaf(new, p) /\ IsPrefixOf(in.path, p)}
          letter(p) == IF p \notin DOMAIN old THEN "A" ELSE IF p \notin DOMAIN new THEN "D" ELSE "M"
          status(key) == IF key \in DOMAIN rows THEN rows[key].status ELSE " "
          top(p) == Directory(SubSeq(p, 1, Len(in.path) + 1))
      IN  L.ok =>
          /\ \A p \in changed : ~KindChange(L.working, p) =>
               \/ status(File(p)) = letter(p)
               \/ ~in.recursive /\ Len(p) > Len(in.path) + 1 /\ status(top(p)) # " "
               \/ \E q \in in.ignored : IsPrefixOf(q, p) /\ "D" \in {status(File(q)), status(Directory(q))}
          /\ \A key \in DOMAIN rows : rows[key].status # " " =>
               \/ \E p \in changed : IsPrefixOf(key.path, p)
               \/ key.path \in in.ignored
               \/ \E q \in Paths : IsPrefixOf(key.path, q) /\ At(L.working, q) = Dir(NoTree)
               \/ in.path \in DOMAIN L.diff /\ key = TopDir(L, in.path)

(* The remote column: unless the remote could not be read, every file that *)
(* the remote's root changes against clone_root is marked, itself or as    *)
(* part of a name that is gone or changed its kind; and a mark on a file   *)
(* stands for a change.                                                    *)
RemoteMarksChanges ==
    Is("remote") =>
      LET have == IF in.missing THEN {in.base} ELSE AllTrees
          marks == fetch_remote_status_map(TRUE, have, AllTrees, {}, Dir(in.base), in.target)
          old == flatten_into(AllTrees, in.base)
          new == flatten_into(AllTrees, in.target)
          changed == {p \in DOMAIN old \cup DOMAIN new : Leaf(old, p) # Leaf(new, p)}
          prefixes(p) == {SubSeq(p, 1, i) : i \in 1 .. Len(p)}
      IN  /\ \A p \in changed : \E q \in prefixes(p) : File(q) \in DOMAIN marks \/ Directory(q) \in DOMAIN marks
          /\ ~in.missing => \A key \in DOMAIN marks :
               ~key.dir => \/ \E p \in changed : IsPrefixOf(key.path, p)
                           \/ At(in.base, key.path).k = "dir"

(* Loading the filters of one directory only decides as loading all of     *)
(* them does, for every path at and below that directory (load_scoped).    *)
ScopedFiltersAgree ==
    Is("filter") =>
      LET all == F!load(in.disk)
      IN  \A scope \in FilterDirs :
            LET part == F!load_scoped(in.disk, scope)
            IN  \A p \in Paths \cup {<<"x", "y", "x">>, <<"x", "y", "y">>} : IsPrefixOf(scope, p) =>
                  /\ F!Excluded(in.disk, part, p) <=> F!Excluded(in.disk, all, p)
                  /\ ~F!Excluded(in.disk, all, p) =>
                       (F!test(in.disk, part, "line_merge", p) <=> F!test(in.disk, all, "line_merge", p))

Count(s, x) == Cardinality({i \in DOMAIN s : s[i] = x})

(* A clean merge discards nothing that either side still holds, invents    *)
(* nothing, and independent appends never conflict: whichever alignments   *)
(* the differ picks (merge, policy_a_survivors).                           *)
MergeKeepsEveryLine ==
    Is("merge") =>
      \A L \in M!capture_diff_slices(in.base, in.local), R \in M!capture_diff_slices(in.base, in.remote) :
        LET out == M!merge(in.base, in.local, in.remote, L, R)
            appends == \A s \in {in.local, in.remote} : IsPrefixOf(in.base, s)
        IN  /\ appends => out # M!Conflict
            /\ out # M!Conflict =>
                 \A x \in {"a", "b", "t1", "t2"} :
                   /\ Count(out, x) >= Count(in.local, x)
                   /\ Count(out, x) >= Count(in.remote, x)
                   /\ Count(out, x) <= Count(in.base, x) + Count(in.local, x) + Count(in.remote, x)

(* What is stored of a file reads back as the file, whatever tag bytes it  *)
(* starts with, however it is cut and compressed, and streaming a large    *)
(* file stores what storing it whole stores (store_chunked, stream_file).  *)
BlobsReadBack ==
    Is("object") =>
      LET store == O!store_file(O!EmptyStore, in.content, in.cuts, in.key, in.best)
          h == O!blob_hash(in.content)
      IN  /\ O!load_blob(store, h, in.key) = in.content
          /\ O!stream_file(O!EmptyStore, in.content, in.cuts, in.key, in.best) = store

(* A blob is taken for fully cached exactly when every object needed to    *)
(* write the file is local (blob_fully_cached, peek_rules_out_manifest).   *)
CachedMeansComplete ==
    Is("object") /\ in.key = O!NoKey =>
      LET store == O!store_file(O!EmptyStore, in.content, in.cuts, in.key, in.best)
          h == O!blob_hash(in.content)
      IN  \A kept \in SUBSET DOMAIN store :
            O!blob_fully_cached([g \in kept |-> store[g]], h) <=> kept = DOMAIN store

\* What the sessions were given.
Contents == [h \in {in.objects[i].hash : i \in DOMAIN in.objects} |->
               P!Bytes(in.objects[CHOOSE i \in DOMAIN in.objects : in.objects[i].hash = h])]

(* What a push routes to the index, a pack or a file of its own is found   *)
(* and read back byte for byte, through the filter and every tier; no      *)
(* other hash is found, and a standalone file is never taken for a         *)
(* container (route, flush_pack, locate, fetch_pack_slice,                 *)
(* unescape_standalone).                                                   *)
PacksReadBack ==
    Is("pack") =>
      LET contents == Contents
      IN  /\ \A h \in DOMAIN contents : P!resolve(pub.root, pub.remote, in.cached, h) = contents[h]
          /\ P!resolve(pub.root, pub.remote, in.cached, <<7, 3>>) = P!NotFound
          /\ \A key \in DOMAIN pub.remote : key[1] = "object" => pub.remote[key][1].mark \notin 225 .. 239

\* The files of the remote a lookup reads.
ReadBy(h) ==
    LET e == P!locate(pub.root, in.cached, h)
    IN  CASE e.tag = "pack" -> {<<"pack", e.pack>>} [] e.tag = "standalone" -> {<<"object", h>>} [] OTHER -> {}

(* stats calls a file an orphan exactly when no lookup reads it, whatever  *)
(* earlier and unfinished sessions left behind; and cat, given a hash or   *)
(* any leading part of one, shows that object and no other, says so when   *)
(* several match, and warns exactly when the object is outside the         *)
(* snapshot (classify_remote, resolve_hash, resolve_diagnostic).           *)
InspectionIsExact ==
    Is("pack") =>
      LET classes == P!classify_remote(pub.root, pub.remote)
          used == UNION {ReadBy(h) : h \in DOMAIN Contents}
                    \cup {<<"index", i>> : i \in P!Tiers(pub.root)} \cup {<<"bloom", pub.root.filter>>}
          local == IF in.cached THEN {in.objects[1].hash} ELSE {}
          shown(t) == P!cat(local, Contents, pub.root, pub.remote, in.cached, t)
          stray == Stray[1].hash
      IN  /\ {key \in DOMAIN classes : classes[key] # "orphan"} = used
          /\ \A key \in used : classes[key] = IF key[1] = "object" THEN "standalone" ELSE key[1]
          /\ \A h \in DOMAIN Contents : shown(P!Full(h)) = [hash |-> h, bytes |-> Contents[h], warned |-> FALSE]
          /\ shown(P!Full(stray)) =
               IF in.stray THEN [hash |-> stray, bytes |-> P!Bytes(Stray[1]), warned |-> TRUE] ELSE P!Says(P!Absent)
          /\ \A b \in 1 .. 2 : \A x \in 0 .. 2 ^ b - 1 :
               LET there == {h \in DOMAIN Contents : P!hash_prefix(h, b) = x}
                   here == there \cap local
                   one == P!Unique(IF here # {} THEN here ELSE there)
               IN  shown(P!Short(b, x)).hash = one

\* The configuration before a backup is added.
Before == [origin |-> Setup!RemoteConfig("s3", "o", 1), backup |-> IF in.has THEN Setup!RemoteConfig("s3", "b", 1) ELSE Setup!Error]

\* The connection string that was given, if one was.
Given == IF Setup!IsConnectionString(in.url) THEN in.url ELSE in.answers.url

(* Whatever is asked and answered, a remote that is taken as existing can  *)
(* be read with the key that was given, one taken as new holds nothing of  *)
(* anyone, and the flags are obeyed; a connection string yields what was   *)
(* exported; and a refused or unforced setup leaves the configuration      *)
(* alone (validate_remote_state, resolve_intent, base32, run_add_backup).  *)
SetupMatchesRemote ==
    Is("setup") =>
      LET c == Setup!clone(in.remote, in.flags, in.url, in.answers)
          readable == c.key \in in.remote.roots
          empty == in.remote.roots = {} /\ ~in.remote.objects
          imported == Setup!IsConnectionString(in.url) \/ (in.url.scheme = "" /\ Setup!IsConnectionString(in.answers.url))
          after == Setup!run_add_backup(Before, in.remote, in.flags, in.url, in.answers)
      IN  /\ after.origin = Before.origin
          /\ in.has /\ ~in.flags.force => after = Before
          /\ ~Setup!IsError(c) =>
               /\ ~imported => /\ readable \/ empty
                               /\ in.flags.existing => readable
                               /\ in.flags.new \/ in.flags.encrypt => empty
                               /\ in.flags.encrypt => c.key # Setup!NoKey
               /\ imported => Setup!encode_connection_string(c) = Given.string /\ c \in Exported \cup {Setup!RemoteConfig("s3", "b", 1)}
               /\ in.flags.force \/ ~in.has => after.backup = c
          /\ imported /\ ~in.flags.encrypt /\ ~in.flags.existing => ~Setup!IsError(c)

\* One way to write the place, seen from in.cwd.
Common(p, q) == CHOOSE n \in 0 .. Smaller(Len(p), Len(q)) :
                  /\ SubSeq(p, 1, n) = SubSeq(q, 1, n)
                  /\ n = Smaller(Len(p), Len(q)) \/ p[n + 1] # q[n + 1]
Spelled ==
    LET p == in.place
        n == Common(in.cwd, p)
        parts == [i \in 1 .. Len(in.cwd) - n |-> N!DotDot] \o SubSeq(p, n + 1, Len(p))
    IN  CASE in.spelling = "absolute" -> [absolute |-> TRUE, parts |-> p]
          [] in.spelling = "link" -> [absolute |-> TRUE, parts |-> IF p[1] = <<"r">> THEN <<<<"l">>>> \o Tail(p) ELSE p]
          [] in.spelling = "relative" -> [absolute |-> FALSE, parts |-> parts]
          [] in.spelling = "dots" -> [absolute |-> FALSE, parts |-> <<a1, N!Dot, N!DotDot>> \o parts]

(* However a place is written and from wherever, it means the same path of *)
(* the nearest repository, and it is accepted exactly when a tree can hold *)
(* it; and the scan gives entries only names that the tree read back       *)
(* accepts, while no acceptable name on disk is passed over                *)
(* (normalize_addressable_path, Repo::discover, scan_names, deserialise).  *)
NamesAgree ==
    /\ Is("paths") =>
         LET root == N!discover(in.repos, in.cwd)
             rel == SubSeq(in.place, Len(root) + 1, Len(in.place))
             accepted == IsPrefixOf(root, in.place) /\ \A i \in DOMAIN rel : N!validate_entry_name(rel[i])
         IN  root # N!Outside =>
               N!normalize_addressable_path(root, in.cwd, Spelled) = IF accepted THEN rel ELSE N!Outside
    /\ Is("names") =>
         LET names == N!scan_names(in.disk)
         IN  /\ N!deserialise(names) = names
             /\ \A n \in in.disk : N!validate_entry_name(n) => n \in names
====
