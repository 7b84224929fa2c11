----------------------------- MODULE StatCache -----------------------------
(***************************************************************************)
(* STAT_CACHE (stat_cache.rs) and the part of a working-tree scan that     *)
(* uses it (scan.rs): for every file a scan either takes the cached hash,  *)
(* takes the hash of the clone root, or reads the file.                    *)
(*                                                                         *)
(* "push" holds the repository lock, stages blobs and seals their entries; *)
(* "ls" does neither and runs beside it.  A user edits files, a clock whose *)
(* file timestamps are coarse goes on, and local objects may be lost, one  *)
(* at a time or with the whole directory.                                  *)
(*                                                                         *)
(* Every content has the same size, so that only the timestamp tells two   *)
(* versions apart.  A blob is one object: blob_fully_cached is membership. *)
(***************************************************************************)
EXTENDS Integers, FiniteSets

CONSTANTS
    Paths,        \* files, numbered in the order of their names
    Contents,     \* file contents; a content stands for its hash
    None,         \* no entry, no version
    Pending,      \* a file the scan has still to resolve
    Granularity,  \* the resolution of file timestamps, in seconds
    Racy,         \* RACY_THRESHOLD_SECS
    Sample,       \* OMEMFS_SEAL_SAMPLE
    PushScopes,   \* the sets of files a push may scan
    ListScopes,   \* the sets of files an ls may scan
    MaxTime, MaxEdits, MaxPushes, MaxLists, MaxLosses   \* bounds

ASSUME PathsAssumption == Paths \subseteq Nat /\ IsFiniteSet(Paths)
ASSUME ScopesAssumption ==
    PushScopes \subseteq SUBSET Paths /\ ListScopes \subseteq SUBSET Paths
ASSUME NoneAssumption ==
    /\ None # Pending
    /\ \A r \in [c : Contents, m : 0..MaxTime, hit : BOOLEAN] : r # None /\ r # Pending
    /\ \A e \in [c : Contents, m : 0..MaxTime, racy : BOOLEAN, sealed : BOOLEAN] : e # None
    /\ \A v \in [c : Contents, m : 0..MaxTime] : v # None
ASSUME ClockAssumption ==
    /\ Granularity \in Nat \ {0} /\ Racy \in Nat
    /\ Granularity <= Racy
    /\ Racy <= MaxTime   \* the clock runs long enough for an entry to become safe
ASSUME BoundsAssumption ==
    /\ Sample \in Nat /\ MaxTime \in Nat /\ MaxEdits \in Nat
    /\ MaxPushes \in Nat /\ MaxLists \in Nat /\ MaxLosses \in Nat

VARIABLES
    now,       \* the clock, in seconds
    file,      \* file[p]: content and timestamp in the working tree
    clone,     \* clone[p]: the clone root's entry
    ents,      \* STAT_CACHE on disk: its entries
    epoch,     \* and its seal_epoch (0: none)
    marker,    \* objects/.seal_epoch (0: none)
    objects,   \* the local objects
    uploaded,  \* the objects the remote has
    pc,        \* pc[a]: where the scan of a is
    start,     \* start[a]: the scan's `now`
    stat,      \* stat[a][p]: the timestamp the directory listing gave
    mem,       \* mem[a]: the entries in memory
    res,       \* res[a][p]: the ScannedFile, Pending, or None
    push,      \* what only a push keeps: what it loaded and its seal state
    ls,        \* what only an ls keeps: its flattened clone root, the paths it
               \* changed, and the copy write_readonly_merge has read
    epochs,    \* epochs drawn so far: random_seal_epoch never repeats one
    count,     \* edits, pushes, lists and losses so far
    misled,    \* files for which the clone root's hash was wrong (history)
    reverted,  \* an ls has put back a seal (history)
    unguarded, \* a loss the epoch cannot show (history)
    retries    \* pushes that failed since the last loss (history)

world == <<now, file, clone, objects, uploaded, count>>
disk == <<ents, epoch, marker, epochs>>
hist == <<misled, reverted, unguarded, retries>>
vars == <<world, disk, pc, start, stat, mem, res, push, ls, hist>>

Actors == {"push", "ls"}
Times == 0..MaxTime
Versions == [c : Contents, m : Times]
Entries == [c : Contents, m : Times, racy : BOOLEAN, sealed : BOOLEAN]
Scanned == [c : Contents, m : Times, hit : BOOLEAN]
PushStates == [loaded : SUBSET Paths, epoch : Nat, trusted : BOOLEAN, needsNew : BOOLEAN,
               dirty : BOOLEAN]
ListStates == [base : [Paths -> Versions \cup {None}], changed : SUBSET Paths,
               ents : [Paths -> Entries \cup {None}], epoch : Nat]
Counts == [edits : 0..MaxEdits, pushes : 0..MaxPushes, lists : 0..MaxLists,
           losses : 0..MaxLosses]
PCs == {"idle", "list", "scan", "write", "upload"}

TypeOK ==
    /\ now \in Times
    /\ file \in [Paths -> Versions]
    /\ clone \in [Paths -> Versions \cup {None}]
    /\ ents \in [Paths -> Entries \cup {None}]
    /\ epoch \in Nat /\ marker \in Nat /\ epochs \in Nat
    /\ objects \subseteq Contents /\ uploaded \subseteq Contents
    /\ pc \in [Actors -> PCs]
    /\ start \in [Actors -> Times]
    /\ stat \in [Actors -> [Paths -> Times]]
    /\ mem \in [Actors -> [Paths -> Entries \cup {None}]]
    /\ res \in [Actors -> [Paths -> Scanned \cup {None, Pending}]]
    /\ push \in PushStates /\ ls \in ListStates /\ count \in Counts
    /\ misled \subseteq Paths /\ reverted \in BOOLEAN
    /\ unguarded \in BOOLEAN /\ retries \in Nat

NoEntries == [p \in Paths |-> None]
NoStat == [p \in Paths |-> 0]
NoPush == [loaded |-> {}, epoch |-> 0, trusted |-> FALSE, needsNew |-> FALSE,
           dirty |-> FALSE]
NoList == [base |-> NoEntries, changed |-> {}, ents |-> NoEntries, epoch |-> 0]

\* A repository nobody has pushed yet, or one whose first push has staged and
\* sealed everything and was interrupted before the upload.
Init ==
    /\ file \in [Paths -> [c : Contents, m : {0}]]
    /\ \/ /\ now = 0
          /\ ents = NoEntries /\ epoch = 0 /\ marker = 0 /\ epochs = 0
          /\ objects = {}
       \/ /\ now = Racy
          /\ ents = [p \in Paths |-> [c |-> file[p].c, m |-> 0, racy |-> FALSE,
                                      sealed |-> TRUE]]
          /\ epoch = 1 /\ marker = 1 /\ epochs = 1
          /\ objects = {file[p].c : p \in Paths}
    /\ clone = NoEntries /\ uploaded = {}
    /\ pc = [a \in Actors |-> "idle"]
    /\ start = [a \in Actors |-> 0] /\ stat = [a \in Actors |-> NoStat]
    /\ mem = [a \in Actors |-> NoEntries] /\ res = [a \in Actors |-> NoEntries]
    /\ push = NoPush /\ ls = NoList
    /\ count = [edits |-> 0, pushes |-> 0, lists |-> 0, losses |-> 0]
    /\ misled = {} /\ reverted = FALSE /\ unguarded = FALSE /\ retries = 0

Goto(a, l) == pc' = [pc EXCEPT ![a] = l]
Sealed(es) == {p \in Paths : es[p] # None /\ es[p].sealed}

SealedAs(p, c) == p \in Sealed(ents) /\ ents[p].c = c

\* clear_all_sealed.
Unseal(e) == IF e = None THEN None ELSE [e EXCEPT !.sealed = FALSE]
ClearAllSealed(es) == [p \in Paths |-> Unseal(es[p])]

\* The locals of a scan are gone once its result has been applied.
EndScan(a) ==
    /\ start' = [start EXCEPT ![a] = 0]
    /\ stat' = [stat EXCEPT ![a] = NoStat]

\* The process ends, and with it what it kept in memory.
Exit(a) ==
    /\ Goto(a, "idle")
    /\ EndScan(a)
    /\ mem' = [mem EXCEPT ![a] = NoEntries]
    /\ res' = [res EXCEPT ![a] = NoEntries]
    /\ push' = IF a = "push" THEN NoPush ELSE push
    /\ ls' = IF a = "ls" THEN NoList ELSE ls

-----------------------------------------------------------------------------
(* The user, the clock and the disk.                                       *)

Tick ==
    /\ now < MaxTime
    /\ now' = now + 1
    /\ UNCHANGED <<file, clone, objects, uploaded, count, disk, pc, start, stat, mem, res,
                   push, ls, hist>>

\* An edit; the file system rounds the timestamp down.
Edit(p, c) ==
    /\ count.edits < MaxEdits /\ c # file[p].c
    /\ file' = [file EXCEPT ![p] = [c |-> c, m |-> now - (now % Granularity)]]
    /\ count' = [count EXCEPT !.edits = @ + 1]
    /\ UNCHANGED <<now, clone, objects, uploaded, disk, pc, start, stat, mem, res, push,
                   ls, hist>>

\* One object disappears: no epoch shows that.
Lose(c) ==
    /\ count.losses < MaxLosses /\ c \in objects
    /\ objects' = objects \ {c}
    /\ count' = [count EXCEPT !.losses = @ + 1]
    /\ unguarded' = TRUE /\ retries' = 0
    /\ UNCHANGED <<now, file, clone, uploaded, disk, pc, start, stat, mem, res, push, ls,
                   misled, reverted>>

\* The whole objects directory goes, and the marker with it.
LoseAll ==
    /\ count.losses < MaxLosses
    /\ objects' = {} /\ marker' = 0
    /\ count' = [count EXCEPT !.losses = @ + 1]
    /\ unguarded' = (unguarded \/ pc["push"] # "idle") /\ retries' = 0
    /\ UNCHANGED <<now, file, clone, uploaded, ents, epoch, epochs, pc, start, stat, mem,
                   res, push, ls, misled, reverted>>

-----------------------------------------------------------------------------
(* Loading the cache.                                                      *)

\* The i-th of a set of paths, counted from 0 in their order.
Nth(S, i) == CHOOSE p \in S : Cardinality({q \in S : q < p}) = i

\* sample_verify's choice: evenly spaced, the first and the last included.
Sampled(S) ==
    LET n == Cardinality(S)
        k == IF Sample < n THEN Sample ELSE n
    IN  {Nth(S, IF k = 1 THEN 0 ELSE (i * (n - 1)) \div (k - 1)) : i \in 0..(k - 1)}

\* The paths a scan of S still has to resolve.
ToScan(S) == [p \in Paths |-> IF p \in S THEN Pending ELSE None]

\* read or read_scoped, then compute_seals_trusted, then scan_impl reads the
\* clock.  push <dir> loads what it scans; a push of everything, or of several
\* paths, loads the whole cache.
PushLoad(S, L) ==
    LET loaded == [p \in Paths |-> IF p \in L THEN ents[p] ELSE None]
        matches == epoch # 0 /\ marker = epoch
        trusted == matches /\ \A p \in Sampled(Sealed(loaded)) : loaded[p].c \in objects
    IN  /\ pc["push"] = "idle" /\ count.pushes < MaxPushes
        /\ mem' = [mem EXCEPT !["push"] = IF trusted THEN loaded ELSE ClearAllSealed(loaded)]
        /\ push' = [loaded |-> L, epoch |-> epoch, trusted |-> trusted,
                    needsNew |-> ~matches, dirty |-> ~trusted /\ Sealed(loaded) # {}]
        /\ res' = [res EXCEPT !["push"] = ToScan(S)]
        /\ start' = [start EXCEPT !["push"] = now]
        /\ count' = [count EXCEPT !.pushes = @ + 1]
        /\ Goto("push", "list")
        /\ UNCHANGED <<now, file, clone, objects, uploaded, disk, stat, ls, hist>>

\* ls (and the scan of pull): no seals are computed.
ListLoad(S) ==
    /\ pc["ls"] = "idle" /\ count.lists < MaxLists
    /\ mem' = [mem EXCEPT !["ls"] = [p \in Paths |-> IF p \in S THEN ents[p] ELSE None]]
    /\ ls' = [ls EXCEPT !.base = clone]
    /\ res' = [res EXCEPT !["ls"] = ToScan(S)]
    /\ start' = [start EXCEPT !["ls"] = now]
    /\ count' = [count EXCEPT !.lists = @ + 1]
    /\ Goto("ls", "list")
    /\ UNCHANGED <<now, file, clone, objects, uploaded, disk, stat, push, hist>>

-----------------------------------------------------------------------------
(* Scanning.                                                               *)

\* scan_dir lists the directory with every file's timestamp.
List(a) ==
    /\ pc[a] = "list"
    /\ stat' = [stat EXCEPT ![a] = [p \in Paths |-> file[p].m]]
    /\ Goto(a, "scan")
    /\ UNCHANGED <<world, disk, start, mem, res, push, ls, hist>>

\* lookup_current_entry, and the blob is known to be there if it is needed.
CacheHit(a, p) ==
    LET e == mem[a][p] IN
      /\ e # None /\ ~e.racy /\ e.m = stat[a][p]
      /\ a = "ls" \/ (e.sealed /\ push.trusted) \/ e.c \in objects

\* can_skip_hash.  A push holds the lock, so the clone root it flattened is
\* still the clone root.
Base(a) == IF a = "push" THEN clone ELSE ls.base
BaseHit(a, p) ==
    LET b == Base(a)[p] IN
      /\ b # None /\ b.m = stat[a][p] /\ start[a] - b.m >= Racy
      /\ a = "ls" \/ b.c \in objects

Resolved(a, p, r) ==
    /\ pc[a] = "scan" /\ res[a][p] = Pending
    /\ res' = [res EXCEPT ![a][p] = r]
    /\ UNCHANGED <<now, file, clone, uploaded, count, disk, pc, start, stat, mem, push, ls,
                   reverted, unguarded, retries>>

\* process_file_job, first stage: the cached hash.
TakeCached(a, p) ==
    /\ CacheHit(a, p)
    /\ Resolved(a, p, [c |-> mem[a][p].c, m |-> stat[a][p], hit |-> TRUE])
    /\ UNCHANGED <<objects, misled>>

\* Second stage: the clone root's hash.
TakeBase(a, p) ==
    /\ ~CacheHit(a, p) /\ BaseHit(a, p)
    /\ Resolved(a, p, [c |-> Base(a)[p].c, m |-> stat[a][p], hit |-> FALSE])
    /\ misled' = IF file[p].m = stat[a][p] /\ file[p].c # Base(a)[p].c
                 THEN misled \cup {p} ELSE misled
    /\ UNCHANGED objects

\* Third stage: a push stages the file with the timestamp it had while it was
\* read; ls hashes what is there now under the timestamp of the listing.
ReadFile(a, p) ==
    /\ ~CacheHit(a, p) /\ ~BaseHit(a, p)
    /\ Resolved(a, p, [c |-> file[p].c, hit |-> FALSE,
                       m |-> IF a = "push" THEN file[p].m ELSE stat[a][p]])
    /\ objects' = IF a = "push" THEN objects \cup {file[p].c} ELSE objects
    /\ UNCHANGED misled

\* SourceChanged: the file kept changing while a push read it.
Unstable(p) ==
    /\ ~CacheHit("push", p) /\ ~BaseHit("push", p)
    /\ file[p].m # stat["push"][p]
    /\ Resolved("push", p, None)
    /\ UNCHANGED <<objects, misled>>

\* Mutant: the age of a file is taken when the cache is updated, not when the
\* scan began.
UpdatedLate(a, p) ==
    LET r == res[a][p] IN
      IF r = None THEN mem[a][p]
      ELSE IF r.hit THEN [mem[a][p] EXCEPT !.sealed = @ \/ a = "push"]
      ELSE [c |-> r.c, m |-> r.m, racy |-> now - r.m < Racy, sealed |-> a = "push"]

\* update and mark_sealed.
Updated(a, p) ==
    LET r == res[a][p] IN
      IF r = None THEN mem[a][p]
      ELSE IF r.hit THEN [mem[a][p] EXCEPT !.sealed = @ \/ a = "push"]
      ELSE [c |-> r.c, m |-> r.m, racy |-> start[a] - r.m < Racy, sealed |-> a = "push"]

\* apply_scanned, once everything is resolved.
Applied(a) == [p \in Paths |-> Updated(a, p)]
Changed(a) == {p \in Paths : Applied(a)[p] # mem[a][p]}
ScanDone(a) == pc[a] = "scan" /\ \A p \in Paths : res[a][p] # Pending

-----------------------------------------------------------------------------
(* Writing the cache back.                                                 *)

\* finalize_seal_epoch; writing the marker is best effort.
Finalize ==
    /\ ScanDone("push")
    /\ mem' = [mem EXCEPT !["push"] = Applied("push")]
    /\ IF push.needsNew
       THEN /\ epochs' = epochs + 1
            /\ push' = [push EXCEPT !.epoch = epochs + 1, !.dirty = TRUE]
            /\ marker' \in {marker, epochs + 1}
       ELSE /\ push' = [push EXCEPT !.dirty = @ \/ Changed("push") # {}]
            /\ UNCHANGED <<epochs, marker>>
    /\ Goto("push", "write") /\ EndScan("push")
    /\ UNCHANGED <<world, ents, epoch, res, ls, hist>>

\* Mutant: a scoped push adopts the new epoch and clears only the seals of the
\* entries it loaded.
WriteCacheScoped ==
    /\ pc["push"] = "write"
    /\ IF ~push.dirty THEN UNCHANGED <<ents, epoch>>
       ELSE IF push.loaded = Paths
       THEN ents' = mem["push"] /\ epoch' = push.epoch
       ELSE /\ ents' = [p \in Paths |-> IF mem["push"][p] # None THEN mem["push"][p]
                                       ELSE ents[p]]
            /\ epoch' = IF push.trusted THEN epoch ELSE push.epoch
    /\ mem' = [mem EXCEPT !["push"] = NoEntries] /\ push' = NoPush
    /\ Goto("push", "upload")
    /\ UNCHANGED <<world, marker, epochs, start, stat, res, ls, hist>>

\* write_scoped_merge and write_if_dirty.
WriteCache ==
    /\ pc["push"] = "write"
    /\ IF ~push.dirty THEN UNCHANGED <<ents, epoch>>
       ELSE IF push.loaded = Paths
       THEN ents' = mem["push"] /\ epoch' = push.epoch
       ELSE LET full == IF push.trusted THEN ents ELSE ClearAllSealed(ents) IN
              /\ ents' = [p \in Paths |-> IF mem["push"][p] # None THEN mem["push"][p]
                                         ELSE full[p]]
              /\ epoch' = IF push.trusted THEN epoch ELSE push.epoch
    /\ mem' = [mem EXCEPT !["push"] = NoEntries] /\ push' = NoPush
    /\ Goto("push", "upload")
    /\ UNCHANGED <<world, marker, epochs, start, stat, res, ls, hist>>

\* write_readonly_merge: with nothing to say the cache is left alone,
Unchanged ==
    /\ ScanDone("ls") /\ Changed("ls") = {}
    /\ Exit("ls")
    /\ UNCHANGED <<world, disk, hist>>

\* otherwise the file is read again,
Reread ==
    /\ ScanDone("ls") /\ Changed("ls") # {}
    /\ mem' = [mem EXCEPT !["ls"] = Applied("ls")]
    /\ ls' = [base |-> NoEntries, changed |-> Changed("ls"), ents |-> ents, epoch |-> epoch]
    /\ res' = [res EXCEPT !["ls"] = NoEntries]
    /\ Goto("ls", "write") /\ EndScan("ls")
    /\ UNCHANGED <<world, disk, push, hist>>

\* overlay what the scan changed, and replace the file.
MergeBack ==
    LET merged == [p \in Paths |-> IF p \in ls.changed THEN mem["ls"][p] ELSE ls.ents[p]]
    IN  /\ pc["ls"] = "write"
        /\ ents' = merged /\ epoch' = ls.epoch
        /\ reverted' = (reverted \/ \E p \in Sealed(merged) : ~SealedAs(p, merged[p].c))
        /\ Exit("ls")
        /\ UNCHANGED <<world, marker, epochs, misled, unguarded, retries>>

-----------------------------------------------------------------------------
(* The rest of a push, as far as it concerns the cache.                    *)

\* The new tree; a file whose hash is the clone root's keeps its timestamp,
\* and an unstable or unscanned one its whole entry.
TreeEntry(p) ==
    LET r == res["push"][p] IN
      IF r = None \/ (clone[p] # None /\ clone[p].c = r.c) THEN clone[p]
      ELSE [c |-> r.c, m |-> r.m]
NewTree == [p \in Paths |-> TreeEntry(p)]
Needed == {NewTree[p].c : p \in {q \in Paths : NewTree[q] # None}} \ uploaded

\* Every object the remote lacks is read from the local store; the clone root
\* advances.  With nothing new this is "Nothing to push".
Upload ==
    /\ pc["push"] = "upload" /\ Needed \subseteq objects
    /\ uploaded' = uploaded \cup Needed
    /\ clone' = NewTree
    /\ retries' = 0
    /\ Exit("push")
    /\ UNCHANGED <<now, file, objects, count, disk, misled, reverted, unguarded>>

\* Mutant: the push fails and leaves the seals.
RecoverNot ==
    /\ pc["push"] = "upload" /\ ~(Needed \subseteq objects)
    /\ retries' = retries + 1
    /\ Exit("push")
    /\ UNCHANGED <<world, disk, misled, reverted, unguarded>>

\* recover_from_missing_object_if_applicable: the seals are cleared and the
\* push fails.
Recover ==
    /\ pc["push"] = "upload" /\ ~(Needed \subseteq objects)
    /\ ents' = ClearAllSealed(ents)
    /\ retries' = retries + 1
    /\ Exit("push")
    /\ UNCHANGED <<world, epoch, marker, epochs, misled, reverted, unguarded>>

\* A crash, or a lost compare-and-swap.  (An ls that is interrupted leaves the
\* disk like one that goes no further.)
Abort ==
    /\ pc["push"] # "idle"
    /\ Exit("push")
    /\ UNCHANGED <<world, disk, hist>>

-----------------------------------------------------------------------------
Next ==
    \/ Tick \/ LoseAll
    \/ \E c \in Contents : Lose(c) \/ \E p \in Paths : Edit(p, c)
    \/ \E S \in PushScopes : \E L \in {S, Paths} : PushLoad(S, L)
    \/ \E S \in ListScopes : ListLoad(S)
    \/ \E a \in Actors :
         \/ List(a)
         \/ \E p \in Paths : TakeCached(a, p) \/ TakeBase(a, p) \/ ReadFile(a, p)
    \/ \E p \in Paths : Unstable(p)
    \/ Finalize \/ WriteCache \/ Upload \/ Recover \/ Abort
    \/ Unchanged \/ Reread \/ MergeBack

Spec == Init /\ [][Next]_vars

-----------------------------------------------------------------------------
(* Properties.                                                             *)

\* What lookup_current_entry would return for a file as it is now is the
\* file's hash.
Usable(p) == ents[p] # None /\ ~ents[p].racy /\ ents[p].m = file[p].m
HitIsTrue == \A p \in Paths : Usable(p) => ents[p].c = file[p].c

\* A cached hash that came from reading the file is never wrong, however the
\* edits, the scans, the writebacks and the coarse timestamps interleave.
ReadHitIsTrue == \A p \in Paths \ misled : Usable(p) => ents[p].c = file[p].c

\* Under a matching epoch a SEALED entry has its blob in the local store, as
\* long as objects were only lost all together and between pushes: neither a
\* rotation by a scoped push nor a late ls lets an unverified seal through.
SealsHonest ==
    (~unguarded /\ epoch # 0 /\ epoch = marker) =>
        \A p \in Sealed(ents) : ents[p].c \in objects

\* After a push failed on a missing object the next one succeeds, unless more
\* is lost meanwhile or an ls put back a seal that the cache no longer had.
RetrySucceeds == reverted \/ retries <= 1
=============================================================================
