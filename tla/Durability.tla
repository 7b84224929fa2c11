---- MODULE Durability ----
(***************************************************************************)
(* What a power loss or a killed process leaves behind: the order in which *)
(* push, pull, stub and expand write objects, STAT_CACHE, clone_root, the  *)
(* working tree and the remote (store/local.rs, store/remote_objects_dir.rs,*)
(* repo.rs, design/11_crash_safety.md).                                    *)
(*                                                                         *)
(* A disk is the state programs see and the set of states a power loss may *)
(* leave.  A rename without fsync adds to that set, an fsync or syncfs     *)
(* removes from it.  The clone's file system may make renames durable in   *)
(* any order; the remote's is journalled: one fsync makes everything       *)
(* before it durable.  With Torn, a file whose data was not synced may     *)
(* come back empty under its new name.                                     *)
(*                                                                         *)
(* A path is a file, or a directory taken as one unit; a tree maps paths   *)
(* to contents, and a content is one object.                               *)
(***************************************************************************)
EXTENDS Naturals, FiniteSets

CONSTANTS
    Paths,       \* files and directories
    Dirs,        \* the directories among them
    Contents,    \* what a path may hold
    Absent,      \* no file, no stub, no seal
    Broken,      \* an empty file where content should be
    Torn,        \* whether unsynced data may be lost under a durable name
    MaxEdits, MaxKills, MaxLosses

Remotes == {"origin", "backup"}
Maybe == Contents \cup {Absent}
Trees == [Paths -> Maybe]

ASSUME ConstantsAssumption ==
    /\ Dirs \subseteq Paths /\ Torn \in BOOLEAN
    /\ Absent \notin Contents /\ Broken \notin Maybe
    /\ MaxEdits \in Nat /\ MaxKills \in Nat /\ MaxLosses \in Nat

VARIABLES
    here,        \* the clone's file system as programs see it
    hereMay,     \* what a power loss may leave of it
    there,       \* there[r]: a remote as programs see it
    thereMay,    \* thereMay[r]: what a power loss may leave of it
    pc,          \* where the running command is
    target,      \* the remote it writes to
    snap,        \* the tree it works on
    entries,     \* the STAT_CACHE entries it holds in memory
    token,       \* the INDEX_ROOT its compare-and-swap expects
    todo,        \* what its current loop has left
    edited,      \* paths the user changed since they were last in step (history)
    begun,       \* paths a pull wrote without recording it yet (history)
    owed,        \* paths whose working-tree change is behind clone_root or unsynced (history)
    count        \* edits, kills and power losses so far

vars == <<here, hereMay, there, thereMay, pc, target, snap, entries, token, todo, edited, begun, owed, count>>
command == <<pc, target, snap, entries, token, todo>>
remotes == <<there, thereMay>>
clone == <<here, hereMay>>

NoTree == [p \in Paths |-> Absent]
Objects(t) == {t[p] : p \in Paths} \ {Absent}

Locals == [obj : [Contents -> {"none", "intact", "torn"}], root : Trees, seal : Trees,
           file : [Paths -> Maybe \cup {Broken}], stub : Trees]
Shared == [obj : [Contents -> {"none", "intact", "torn"}], index : Trees,
           listed : SUBSET Contents]   \* what the pack index lists, ever growing
Stages == {"idle", "scan", "cache", "check", "upload", "uploadSync", "finish", "finishSync",
           "record", "recordRoot", "reconcile", "fetch", "apply"}

TypeOK ==
    /\ here \in Locals /\ hereMay \subseteq Locals /\ here \in hereMay
    /\ there \in [Remotes -> Shared] /\ thereMay \in [Remotes -> SUBSET Shared]
    /\ \A r \in Remotes : there[r] \in thereMay[r]
    /\ pc \in Stages /\ target \in Remotes /\ snap \in Trees /\ entries \in Trees /\ token \in Trees
    /\ todo \subseteq Paths \cup Contents
    /\ edited \subseteq Paths /\ begun \subseteq Paths /\ owed \subseteq Paths
    /\ count \in [edits : 0 .. MaxEdits, kills : 0 .. MaxKills, losses : 0 .. MaxLosses]

Empty == [c \in Contents |-> "none"]
Init ==
    /\ here = [obj |-> Empty, root |-> NoTree, seal |-> NoTree, file |-> NoTree, stub |-> NoTree]
    /\ hereMay = {here}
    /\ there = [r \in Remotes |-> [obj |-> Empty, index |-> NoTree, listed |-> {}]]
    /\ thereMay = [r \in Remotes |-> {there[r]}]
    /\ pc = "idle" /\ target = "origin" /\ snap = NoTree /\ entries = NoTree
    /\ token = NoTree /\ todo = {}
    /\ edited = {} /\ begun = {} /\ owed = {}
    /\ count = [edits |-> 0, kills |-> 0, losses |-> 0]

-----------------------------------------------------------------------------
(* The file systems.                                                       *)

\* What follows takes the effect of a write as a function on the states the
\* disk may be in; the state programs see is one of them.

\* atomic_write_no_fsync and its kin: a rename that any later loss may undo,
\* or, with Torn, keep without its data.
Rename(write, tear) ==
    /\ here' = write[here]
    /\ hereMay' = hereMay \cup {write[s] : s \in hereMay} \cup
                  (IF Torn THEN {tear[s] : s \in hereMay} ELSE {})

\* atomic_write: data synced, renamed, directory synced.
Durable(write) ==
    /\ here' = write[here]
    /\ hereMay' = {write[s] : s \in hereMay}

\* Mutant: no barrier.
sync_nothing == UNCHANGED hereMay

\* sync_local_objects_fs: syncfs of the whole file system.
sync_local_objects_fs == hereMay' = {here}

\* RemoteObjectsDir::write_stream and the CAS of INDEX_ROOT up to the rename.
RemoteRename(r, s) ==
    /\ there' = [there EXCEPT ![r] = s]
    /\ thereMay' = [thereMay EXCEPT ![r] = @ \cup {s}]
\* Their last step: the directory is synced, and with it the journal.
RemoteSync(r) ==
    /\ thereMay' = [thereMay EXCEPT ![r] = {there[r]}]
    /\ UNCHANGED there

PutObject(s, c, v) == [s EXCEPT !.obj[c] = v]
PutFile(s, p, c) == [s EXCEPT !.file[p] = c]
PutStub(s, p, c) == [s EXCEPT !.stub[p] = c]
PutSeals(s, t) == [s EXCEPT !.seal = t]
PutRoot(s, t) == [s EXCEPT !.root = t]

\* What a path counts as: the real file, or the content its stub records.
ContentIn(s, p) == IF s.file[p] # Absent THEN s.file[p] ELSE s.stub[p]
Content(p) == ContentIn(here, p)
\* A path is in step with the command's tree whatever a power loss leaves.
InStep(p) == \A s \in hereMay : ContentIn(s, p) = snap[p]

-----------------------------------------------------------------------------
(* Faults, the user, and other clones.                                     *)

Stop ==
    /\ pc' = "idle" /\ target' = "origin" /\ snap' = NoTree /\ entries' = NoTree
    /\ token' = NoTree /\ todo' = {}

Edit(p, c) ==
    /\ count.edits < MaxEdits /\ Content(p) # c
    /\ count' = [count EXCEPT !.edits = @ + 1]
    /\ Rename([s \in hereMay |-> PutFile(s, p, c)],
              [s \in hereMay |-> PutFile(s, p, IF c = Absent THEN c ELSE Broken)])
    /\ edited' = edited \cup {p}
    /\ UNCHANGED <<remotes, command, begun, owed>>

Kill ==
    /\ pc # "idle" /\ count.kills < MaxKills
    /\ count' = [count EXCEPT !.kills = @ + 1]
    /\ Stop
    /\ UNCHANGED <<clone, remotes, edited, begun, owed>>

PowerLoss ==
    /\ count.losses < MaxLosses
    /\ count' = [count EXCEPT !.losses = @ + 1]
    /\ \E s \in hereMay : here' = s /\ hereMay' = {s}
    /\ Stop
    /\ UNCHANGED <<remotes, edited, begun, owed>>

\* A command that was talking to the remote ends with an I/O error.
RemotePowerLoss(r) ==
    /\ count.losses < MaxLosses
    /\ count' = [count EXCEPT !.losses = @ + 1]
    /\ \E s \in thereMay[r] :
         there' = [there EXCEPT ![r] = s] /\ thereMay' = [thereMay EXCEPT ![r] = {s}]
    /\ Stop
    /\ UNCHANGED <<clone, edited, begun, owed>>

\* Another clone of origin publishes a change.
Elsewhere(p, c) ==
    /\ count.edits < MaxEdits /\ there["origin"].index[p] # c
    /\ c # Absent => there["origin"].obj[c] # "torn"
    /\ count' = [count EXCEPT !.edits = @ + 1]
    /\ LET s == [there["origin"] EXCEPT !.index[p] = c, !.listed = @ \cup ({c} \ {Absent}),
                      !.obj = [o \in Contents |-> IF o = c THEN "intact" ELSE @[o]]]
       IN  there' = [there EXCEPT !["origin"] = s] /\ thereMay' = [thereMay EXCEPT !["origin"] = {s}]
    /\ UNCHANGED <<clone, command, edited, begun, owed>>

-----------------------------------------------------------------------------
(* push; the scan of pull stores objects and writes STAT_CACHE likewise.   *)

PushBegin ==
    /\ pc = "idle"
    /\ pc' = "scan" /\ todo' = Paths /\ snap' = NoTree /\ entries' = here.seal
    /\ UNCHANGED <<clone, remotes, target, token, edited, begun, owed, count>>

\* One path is read and its object stored, unless a seal or the object's own
\* file says that it is there (store_write, sealed blobs); a stub counts as
\* the content it records.
PushScan(p) ==
    /\ pc = "scan" /\ p \in todo /\ Content(p) # Broken
    /\ todo' = todo \ {p}
    /\ snap' = [snap EXCEPT ![p] = Content(p)]
    /\ LET c == here.file[p] IN
       /\ entries' = IF c = Absent THEN entries ELSE [entries EXCEPT ![p] = c]
       /\ IF c = Absent \/ entries[p] = c \/ here.obj[c] # "none" THEN UNCHANGED clone
          ELSE Rename([s \in hereMay |-> PutObject(s, c, "intact")], [s \in hereMay |-> PutObject(s, c, "torn")])
    /\ UNCHANGED <<remotes, pc, target, token, edited, begun, owed, count>>

\* StatCache::write_if_dirty: the barrier, then STAT_CACHE; neither if no
\* entry changed.  An entry of a path that was not read stays as it was.
Dirty == entries # here.seal
PushBarrier ==
    /\ pc = "scan" /\ todo = {}
    /\ pc' = IF Dirty THEN "cache" ELSE "check"
    /\ IF Dirty THEN sync_local_objects_fs ELSE UNCHANGED hereMay
    /\ entries' = IF Dirty THEN entries ELSE NoTree
    /\ UNCHANGED <<here, remotes, target, snap, token, todo, edited, begun, owed, count>>
PushCache ==
    /\ pc = "cache"
    /\ pc' = "check"
    /\ Rename([s \in hereMay |-> PutSeals(s, entries)], [s \in hereMay |-> PutSeals(s, NoTree)])
    /\ entries' = NoTree
    /\ UNCHANGED <<remotes, target, snap, token, todo, edited, begun, owed, count>>

\* Objects that upload_missing sends: those the published index does not list.
Missing(r, t) == Objects(t) \ there[r].listed

\* PackWriter::new reads INDEX_ROOT; a remote that advanced refuses the push.
PushCheck ==
    /\ pc = "check" /\ snap # here.root
    /\ there["origin"].index \in {here.root, snap}
    /\ pc' = "upload" /\ token' = there["origin"].index /\ todo' = Missing("origin", snap)
    /\ UNCHANGED <<clone, remotes, target, snap, entries, edited, begun, owed, count>>
\* There is nothing to push, or the remote advanced.
PushNothing ==
    /\ pc = "check" /\ (snap = here.root \/ there["origin"].index \notin {here.root, snap})
    /\ Stop
    /\ UNCHANGED <<clone, remotes, edited, begun, owed, count>>

\* Mutant: an object is taken for uploaded when the local store has it.
UploadedLocally == \A c \in todo : here.obj[c] # "none"
Uploaded == todo = {}

\* One object is read from the local store and written to the remote; a file
\* that exists there is left alone.
Upload(c) ==
    /\ pc = "upload" /\ c \in todo /\ here.obj[c] # "none"
    /\ IF there[target].obj[c] # "none"
       THEN pc' = pc /\ todo' = todo \ {c} /\ UNCHANGED remotes
       ELSE pc' = "uploadSync" /\ todo' = todo \ {c} /\ RemoteRename(target, PutObject(there[target], c, here.obj[c]))
    /\ UNCHANGED <<clone, target, snap, entries, token, edited, begun, owed, count>>
UploadSync ==
    /\ pc = "uploadSync"
    /\ pc' = "upload"
    /\ RemoteSync(target)
    /\ UNCHANGED <<clone, target, snap, entries, token, todo, edited, begun, owed, count>>

\* recover_from_missing_object_if_applicable: the seals go, behind a barrier.
UploadMissing(c) ==
    /\ pc = "upload" /\ c \in todo /\ here.obj[c] = "none"
    /\ LET cleared == PutSeals(here, NoTree)
       IN  here' = cleared /\ hereMay' = {here, cleared}
    /\ Stop
    /\ UNCHANGED <<remotes, edited, begun, owed, count>>

\* finish: the compare-and-swap of INDEX_ROOT.
PushFinish ==
    /\ pc = "upload" /\ Uploaded
    /\ there[target].index = token
    /\ pc' = "finishSync"
    /\ RemoteRename(target, [there[target] EXCEPT !.index = snap, !.listed = @ \cup Objects(snap)])
    /\ UNCHANGED <<clone, target, snap, entries, token, todo, edited, begun, owed, count>>
PushCasFailed ==
    /\ pc = "upload" /\ Uploaded /\ there[target].index # token
    /\ Stop
    /\ UNCHANGED <<clone, remotes, edited, begun, owed, count>>
PushFinished ==
    /\ pc = "finishSync"
    /\ RemoteSync(target)
    /\ IF target = "origin" THEN pc' = "record" /\ UNCHANGED <<target, snap, entries, token, todo>> ELSE Stop
    /\ UNCHANGED <<clone, edited, begun, owed, count>>

-----------------------------------------------------------------------------
(* clone_root, for push and pull, and what follows it.                     *)

\* write_clone_root: the barrier, then the durable write.
RecordBarrier ==
    /\ pc = "record"
    /\ pc' = "recordRoot"
    /\ sync_local_objects_fs
    /\ UNCHANGED <<here, remotes, target, snap, entries, token, todo, edited, begun, owed, count>>

\* A directory stub is left to reconcile_stubs.
Late(p) == p \in Dirs /\ here.stub[p] # Absent /\ here.file[p] = Absent

write_clone_root ==
    /\ pc = "recordRoot"
    /\ pc' = "reconcile"
    /\ Durable([s \in hereMay |-> PutRoot(s, snap)])
    /\ edited' = {p \in edited : ~InStep(p)}
    /\ begun' = {p \in begun : ~InStep(p)}
    /\ owed' = {p \in owed \cup {q \in Paths : Late(q)} : ~InStep(p)}
    /\ todo' = {p \in Paths : here.stub[p] # Absent /\ here.stub[p] # snap[p]}
    /\ UNCHANGED <<remotes, target, snap, entries, token, count>>

\* reconcile_stubs: every stub follows clone_root; beside a real file too.
\* The removal of a stub is not synced.
Reconcile(p) ==
    /\ pc = "reconcile" /\ p \in todo
    /\ todo' = todo \ {p}
    /\ IF snap[p] = Absent
       THEN Rename([s \in hereMay |-> PutStub(s, p, Absent)], [s \in hereMay |-> PutStub(s, p, Absent)])
       ELSE Durable([s \in hereMay |-> PutStub(s, p, snap[p])])
    /\ owed' = IF snap[p] = Absent THEN owed \cup {p}
               ELSE {q \in owed : q = p => \E s \in hereMay : s.file[p] \notin {Absent, snap[p]}}
    /\ UNCHANGED <<remotes, pc, target, snap, entries, token, edited, begun, count>>

\* push --with-backup: the same upload and INDEX_ROOT, to the backup remote; also
\* when there was nothing to push (maybe_backup_push_on_no_op).
push_to_backup ==
    /\ pc = "reconcile" \/ (pc = "check" /\ snap = here.root)
    /\ todo = {} /\ there["backup"].index # here.root
    /\ pc' = "upload" /\ target' = "backup" /\ token' = there["backup"].index
    /\ todo' = Missing("backup", here.root)
    /\ UNCHANGED <<clone, remotes, snap, entries, edited, begun, owed, count>>
CommandEnd ==
    /\ pc = "reconcile" /\ todo = {}
    /\ Stop
    /\ UNCHANGED <<clone, remotes, edited, begun, owed, count>>

-----------------------------------------------------------------------------
(* pull                                                                    *)

\* Both sides changed it, to different contents: helper files and an error.
Conflicting(p) ==
    /\ here.root[p] # there["origin"].index[p]
    /\ Content(p) \notin {here.root[p], there["origin"].index[p]}
PullBegin ==
    /\ pc = "idle" /\ there["origin"].index # here.root /\ \A p \in Paths : ~Conflicting(p)
    /\ pc' = "fetch" /\ snap' = there["origin"].index
    /\ todo' = {p \in Paths : there["origin"].index[p] \notin {here.root[p], Content(p)}}
    /\ UNCHANGED <<clone, remotes, target, entries, token, edited, begun, owed, count>>

\* A download keeps what the cache already has.
PullFetch(p) ==
    /\ pc = "fetch" /\ p \in todo
    /\ LET c == snap[p] IN
       /\ c # Absent /\ here.obj[c] = "none"
       /\ Rename([s \in hereMay |-> PutObject(s, c, there["origin"].obj[c])],
                 [s \in hereMay |-> PutObject(s, c, "torn")])
    /\ UNCHANGED <<remotes, command, edited, begun, owed, count>>
PullFetched ==
    /\ pc = "fetch" /\ \A p \in todo : snap[p] # Absent => here.obj[snap[p]] # "none"
    /\ pc' = "apply"
    /\ UNCHANGED <<clone, remotes, target, snap, entries, token, todo, edited, begun, owed, count>>

\* apply_diff: a directory stub is skipped, a file stub rewritten, anything
\* else written or removed; not what the user has changed meanwhile.
PullApply(p) ==
    /\ pc = "apply" /\ p \in todo /\ Content(p) = here.root[p]
    /\ todo' = todo \ {p}
    /\ IF Late(p) THEN UNCHANGED clone
       ELSE IF here.stub[p] # Absent /\ here.file[p] = Absent
       THEN Durable([s \in hereMay |-> PutStub(s, p, snap[p])])
       ELSE LET c == IF snap[p] # Absent /\ here.obj[snap[p]] = "torn" THEN Broken ELSE snap[p]
            IN  Rename([s \in hereMay |-> PutFile(s, p, c)],
                       [s \in hereMay |-> PutFile(s, p, IF c = Absent THEN c ELSE Broken)])
    /\ begun' = IF Late(p) THEN begun ELSE begun \cup {p}
    /\ UNCHANGED <<remotes, pc, target, snap, entries, token, edited, owed, count>>
PullAbort ==
    /\ pc = "apply" /\ \E p \in todo : Content(p) # here.root[p]
    /\ Stop
    /\ UNCHANGED <<clone, remotes, edited, begun, owed, count>>
PullRecord ==
    /\ pc = "apply" /\ todo = {}
    /\ pc' = "record"
    /\ UNCHANGED <<clone, remotes, target, snap, entries, token, todo, edited, begun, owed, count>>

-----------------------------------------------------------------------------
(* stub and expand                                                         *)

\* Mutant: the stub is not synced before the content goes.
StubUnsynced(p) ==
    Rename([s \in hereMay |-> PutStub(s, p, here.root[p])], [s \in hereMay |-> PutStub(s, p, here.root[p])])
StubWrite(p) == Durable([s \in hereMay |-> PutStub(s, p, here.root[p])])

\* omemfs stub, of a path in step: the record first, durably, then the content.
Stub(p) ==
    /\ pc = "idle" /\ here.file[p] = here.root[p] /\ here.root[p] # Absent
    /\ here.stub[p] = Absent
    /\ StubWrite(p)
    /\ UNCHANGED <<remotes, command, edited, begun, owed, count>>
StubRemove(p) ==
    /\ pc = "idle" /\ here.stub[p] = here.root[p] /\ here.file[p] = here.root[p] /\ here.root[p] # Absent
    /\ Rename([s \in hereMay |-> PutFile(s, p, Absent)], [s \in hereMay |-> PutFile(s, p, Absent)])
    /\ UNCHANGED <<remotes, command, edited, begun, owed, count>>

\* omemfs expand: the content, then the removal of the stub, neither synced.
Expand(p) ==
    /\ pc = "idle" /\ here.stub[p] # Absent /\ here.file[p] = Absent
    /\ here.obj[here.stub[p]] = "intact" \/ there["origin"].obj[here.stub[p]] = "intact"
    /\ LET c == here.stub[p]
       IN  Rename([s \in hereMay |-> PutFile(s, p, c)], [s \in hereMay |-> PutFile(s, p, Broken)])
    /\ owed' = owed \cup {p}
    /\ UNCHANGED <<remotes, command, edited, begun, count>>
ExpandRemove(p) ==
    /\ pc = "idle" /\ here.stub[p] # Absent /\ here.file[p] = here.stub[p] /\ p \in owed
    /\ Rename([s \in hereMay |-> PutStub(s, p, Absent)], [s \in hereMay |-> PutStub(s, p, Absent)])
    /\ UNCHANGED <<remotes, command, edited, begun, owed, count>>

-----------------------------------------------------------------------------
Next ==
    \/ \E p \in Paths, c \in Maybe : Edit(p, c)
    \/ \E p \in Paths, c \in Maybe : Elsewhere(p, c)
    \/ Kill \/ PowerLoss \/ \E r \in Remotes : RemotePowerLoss(r)
    \/ PushBegin \/ PushBarrier \/ PushCache \/ PushCheck \/ PushNothing
    \/ \E p \in Paths : PushScan(p)
    \/ \E c \in Contents : Upload(c) \/ UploadMissing(c)
    \/ UploadSync \/ PushFinish \/ PushCasFailed \/ PushFinished
    \/ RecordBarrier \/ write_clone_root \/ push_to_backup \/ CommandEnd
    \/ PullBegin \/ PullFetched \/ PullAbort \/ PullRecord
    \/ \E p \in Paths : Reconcile(p) \/ PullFetch(p) \/ PullApply(p)
    \/ \E p \in Paths : Stub(p) \/ StubRemove(p) \/ Expand(p) \/ ExpandRemove(p)

Spec == Init /\ [][Next]_vars

-----------------------------------------------------------------------------
(* Whatever was lost: the objects that STAT_CACHE vouches for are in the   *)
(* local store, so a push that trusts a seal finds what it uploads.        *)
SealsAreStored == \A p \in Paths : here.seal[p] # Absent => here.obj[here.seal[p]] # "none"

(* Whatever an INDEX_ROOT refers to is listed and intact at its remote,    *)
(* after any number of kills and power losses on either side, so what a    *)
(* push does not upload again is there; and after up to two of them so are *)
(* the objects that clone_root refers to: what is not local can be fetched *)
(* again.  A third can undo the latter: a push killed before the fsync of  *)
(* an object, a push killed before the fsync of INDEX_ROOT, a pull of that *)
(* root, and a power loss of the remote.                                   *)
RootsReadable ==
    /\ \A r \in Remotes : Objects(there[r].index) \subseteq there[r].listed
    /\ \A r \in Remotes : \A c \in there[r].listed : there[r].obj[c] = "intact"
    /\ count.kills + count.losses <= 2 =>
         \A c \in Objects(here.root) : there["origin"].obj[c] = "intact"

(* What a push publishes differs from what was published before only at   *)
(* paths the user changed: after any kill and any power loss clone_root    *)
(* is not ahead of the working tree, so a push reverts nothing that others *)
(* did.  Excepted are directory stubs not reconciled yet, expansions and   *)
(* removals of stubs not synced yet, and what a killed pull had written    *)
(* when the remote came back to the tree of clone_root.                    *)
Publishing == pc = "finishSync" /\ target = "origin"
PushesOnlyEdits == Publishing => \A p \in Paths \ (edited \cup begun \cup owed) : snap[p] = token[p]

(* The same without the exceptions for stubs, when nothing but a command   *)
(* was killed: clone_root is written only after all working-tree changes   *)
(* have been applied, says design/11_crash_safety.md, but pull rewrites    *)
(* directory stubs after it.                                               *)
RevertsNothing == Publishing /\ count.losses = 0 => \A p \in Paths \ (edited \cup begun) : snap[p] = token[p]
====
