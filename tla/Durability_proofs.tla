------------------------- MODULE Durability_proofs -------------------------
(***************************************************************************)
(* Proofs about Durability, for any set of paths, directories and contents *)
(* and any number of edits, kills and power losses.                        *)
(*                                                                         *)
(* What must survive a power loss has to hold in every state that the loss *)
(* may leave, so the invariants speak of all s \in hereMay and of all      *)
(* t \in thereMay[r], not of here and there[r].                            *)
(***************************************************************************)
EXTENDS Durability, TLAPS

-----------------------------------------------------------------------------
(* Objects.                                                                *)

\* The objects that a tree refers to have a file in a local store or remote.
Has(s, t) == \A c \in Objects(t) : s.obj[c] # "none"

\* A scan vouches only for objects it found or stored; the barrier makes them
\* durable before STAT_CACHE is renamed.
SealInv ==
    /\ \A s \in hereMay : Has(s, s.seal)
    /\ pc = "scan" => Has(here, entries)
    /\ pc = "cache" => \A s \in hereMay : Has(s, entries)

\* A remote lists what its INDEX_ROOT refers to, and has what it lists; an
\* upload has left only what is in todo.
RemoteInv ==
    /\ \A r \in Remotes : \A t \in thereMay[r] :
         Objects(t.index) \subseteq t.listed /\ \A c \in t.listed : t.obj[c] # "none"
    /\ pc \in {"upload", "uploadSync"} =>
         \A c \in Objects(snap) : c \in todo \/ there[target].obj[c] # "none"
    /\ pc = "finishSync" => Has(there[target], snap)
    /\ pc \in {"fetch", "apply", "record", "recordRoot"} => Has(there["origin"], snap)
    /\ pc = "reconcile" => snap = here.root
    /\ pc \notin {"upload", "uploadSync", "finishSync"} => target = "origin"

\* Without torn writes every file is whole.
WholeInv ==
    ~Torn => /\ \A s \in hereMay, c \in Contents : s.obj[c] # "torn"
             /\ \A r \in Remotes : \A t \in thereMay[r], c \in Contents : t.obj[c] # "torn"

\* clone_root is written durably, so every state has the same.
RootInv == \A s \in hereMay : s.root = here.root

\* What clone_root refers to is at origin: whatever the remote may lose, up to
\* one fault; in the state programs see, up to two.
Faults == count.kills + count.losses
AtOrigin == pc = "finishSync" /\ target = "origin"
OriginInv ==
    /\ Faults <= 1 => \A t \in thereMay["origin"] : Has(t, here.root)
    /\ Faults <= 2 => Has(there["origin"], here.root)
    /\ Faults = 0 /\ ~(pc = "uploadSync" /\ target = "origin") /\ ~AtOrigin =>
         thereMay["origin"] = {there["origin"]}
    /\ Faults = 0 /\ AtOrigin => \A t \in thereMay["origin"] : Has(t, snap)
    /\ Faults = 0 \/ (Faults = 1 /\ ~AtOrigin) =>
         \A t \in thereMay["origin"] : Has(t, there["origin"].index)
    /\ Faults <= 1 /\ pc \in {"fetch", "apply", "record", "recordRoot"} =>
         \A t \in thereMay["origin"] : Has(t, snap)

-----------------------------------------------------------------------------
(* The working tree.                                                       *)

Excepted == edited \cup begun \cup owed

\* A path that is not excepted is in step with clone_root in every state, and
\* a stub that exists is the same in every state.
StepInv ==
    /\ \A s \in hereMay, p \in Paths \ Excepted : ContentIn(s, p) = s.root[p]
    /\ \A s \in hereMay, p \in Paths : here.stub[p] # Absent => s.stub[p] = here.stub[p]

\* What the running command works on differs from clone_root only where the
\* user changed something, or where it has still to bring clone_root along.
WorkInv ==
    /\ pc = "scan" => \A p \in Paths \ (Excepted \cup todo) : snap[p] = here.root[p]
    /\ pc \in {"cache", "check"} => \A p \in Paths \ Excepted : snap[p] = here.root[p]
    /\ pc \in {"upload", "uploadSync", "finishSync"} /\ target = "origin" =>
         \A p \in Paths \ Excepted : snap[p] = here.root[p] /\ snap[p] = token[p]
    /\ pc \in {"fetch", "apply"} =>
         \A p \in Paths \ Excepted : snap[p] = here.root[p] \/ p \in todo \/ Late(p)
    /\ pc \in {"record", "recordRoot"} =>
         \A p \in Paths \ Excepted : snap[p] = here.root[p] \/ Late(p)

ObjInv == SealInv /\ RemoteInv /\ WholeInv /\ RootInv /\ OriginInv
TreeInv == StepInv /\ WorkInv
IInv == TypeOK /\ ObjInv /\ TreeInv

-----------------------------------------------------------------------------
(* What a write does to one state of a disk.                               *)

Marks == {"none", "intact", "torn"}
Found == Maybe \cup {Broken}

\* An object is written: everything else stays.
LEMMA PutObjectLocal ==
    ASSUME NEW s \in Locals, NEW c \in Contents, NEW v \in Marks
    PROVE  LET q == PutObject(s, c, v)
           IN  /\ q \in Locals /\ q.obj = [s.obj EXCEPT ![c] = v]
               /\ q.root = s.root /\ q.seal = s.seal /\ q.file = s.file /\ q.stub = s.stub
  BY DEF PutObject, Locals, Marks

\* An object is put at a remote: its index and listing stay.
LEMMA PutObjectShared ==
    ASSUME NEW s \in Shared, NEW c \in Contents, NEW v \in Marks
    PROVE  LET q == PutObject(s, c, v)
           IN  /\ q \in Shared /\ q.obj = [s.obj EXCEPT ![c] = v]
               /\ q.index = s.index /\ q.listed = s.listed
  BY DEF PutObject, Shared, Marks

\* A file, a stub, STAT_CACHE or clone_root is written: everything else stays.
LEMMA PutFileLocal ==
    ASSUME NEW s \in Locals, NEW p \in Paths, NEW c \in Found
    PROVE  LET q == PutFile(s, p, c)
           IN  /\ q \in Locals /\ q.file = [s.file EXCEPT ![p] = c]
               /\ q.obj = s.obj /\ q.root = s.root /\ q.seal = s.seal /\ q.stub = s.stub
  BY DEF PutFile, Locals, Found, Trees

\* A stub is written or removed.
LEMMA PutStubLocal ==
    ASSUME NEW s \in Locals, NEW p \in Paths, NEW c \in Maybe
    PROVE  LET q == PutStub(s, p, c)
           IN  /\ q \in Locals /\ q.stub = [s.stub EXCEPT ![p] = c]
               /\ q.obj = s.obj /\ q.root = s.root /\ q.seal = s.seal /\ q.file = s.file
  BY DEF PutStub, Locals, Trees

\* STAT_CACHE is written.
LEMMA PutSealsLocal ==
    ASSUME NEW s \in Locals, NEW t \in Trees
    PROVE  LET q == PutSeals(s, t)
           IN  /\ q \in Locals /\ q.seal = t
               /\ q.obj = s.obj /\ q.root = s.root /\ q.file = s.file /\ q.stub = s.stub
  BY DEF PutSeals, Locals

\* clone_root is written.
LEMMA PutRootLocal ==
    ASSUME NEW s \in Locals, NEW t \in Trees
    PROVE  LET q == PutRoot(s, t)
           IN  /\ q \in Locals /\ q.root = t
               /\ q.obj = s.obj /\ q.seal = s.seal /\ q.file = s.file /\ q.stub = s.stub
  BY DEF PutRoot, Locals

\* INDEX_ROOT is written, and with it what the index lists.
LEMMA PublishShared ==
    ASSUME NEW s \in Shared, NEW t \in Trees
    PROVE  LET q == [s EXCEPT !.index = t, !.listed = @ \cup Objects(t)]
           IN  /\ q \in Shared /\ q.index = t /\ q.listed = s.listed \cup Objects(t) /\ q.obj = s.obj
<1>1. Objects(t) \subseteq Contents
  BY DEF Objects, Trees, Maybe
<1> QED  BY <1>1 DEF Shared

\* What a rename or a durable write leaves.
LEMMA RenameEffect ==
    ASSUME here \in hereMay, NEW write, NEW tear, Rename(write, tear)
    PROVE  /\ here' = write[here] /\ here' \in hereMay'
           /\ \A s \in hereMay' : \E u \in hereMay : s = u \/ s = write[u] \/ (Torn /\ s = tear[u])
  BY DEF Rename

\* A synced write is in every state a power loss may leave.
LEMMA DurableEffect ==
    ASSUME here \in hereMay, NEW write, Durable(write)
    PROVE  /\ here' = write[here] /\ here' \in hereMay'
           /\ \A s \in hereMay' : \E u \in hereMay : s = write[u]
  BY DEF Durable

\* The parts of the type invariant.
LEMMA TreeType ==
    /\ NoTree \in Trees /\ Objects(NoTree) = {}
    /\ \A t \in Trees : Objects(t) \subseteq Contents /\ \A p \in Paths : t[p] \in Maybe
    /\ \A t \in Trees, p \in Paths : t[p] # Absent => t[p] \in Contents /\ t[p] \in Objects(t)
  BY DEF NoTree, Trees, Objects, Maybe

\* The components of a clone's disk.
LEMMA LocalType ==
    ASSUME NEW s \in Locals
    PROVE  /\ s.root \in Trees /\ s.seal \in Trees /\ s.stub \in Trees
           /\ s.obj \in [Contents -> Marks] /\ s.file \in [Paths -> Found]
           /\ \A p \in Paths : ContentIn(s, p) \in Found
  BY DEF Locals, Marks, Found, ContentIn, Trees

-----------------------------------------------------------------------------
(* The type invariant.                                                     *)

\* The clone's disk.
CloneOK == here \in Locals /\ hereMay \subseteq Locals /\ here \in hereMay

\* Every step keeps the type of the clone's disk.
LEMMA CloneTypeStep ==
    ASSUME TypeOK, Next
    PROVE  CloneOK'
<1> USE DEF CloneOK
<1>0. here \in Locals /\ hereMay \subseteq Locals /\ here \in hereMay
  BY DEF TypeOK
<1>t. snap \in Trees /\ entries \in Trees /\ NoTree \in Trees /\ Absent \in Maybe
      /\ \A p \in Paths : snap[p] \in Maybe /\ here.root[p] \in Maybe /\ here.stub[p] \in Maybe
  BY <1>0, TreeType, LocalType DEF TypeOK, Maybe
<1>a. ASSUME NEW write, NEW tear, Rename(write, tear),
             \A u \in hereMay : write[u] \in Locals /\ tear[u] \in Locals
      PROVE  CloneOK'
  BY <1>0, <1>a, RenameEffect
<1>b. ASSUME NEW write, Durable(write), \A u \in hereMay : write[u] \in Locals
      PROVE  CloneOK'
  BY <1>0, <1>b, DurableEffect
<1>1. CASE UNCHANGED clone
  BY <1>0, <1>1 DEF clone
<1>2. CASE here' = here /\ hereMay' \in {hereMay, {here}}
  BY <1>0, <1>2
<1>3. CASE PowerLoss
  BY <1>0, <1>3 DEF PowerLoss
<1>4. ASSUME NEW p \in Paths, NEW c \in Maybe, Edit(p, c)
      PROVE  CloneOK'
  <2>1. \A u \in hereMay : PutFile(u, p, c) \in Locals
                          /\ PutFile(u, p, IF c = Absent THEN c ELSE Broken) \in Locals
    BY <1>0, PutFileLocal DEF Found
  <2> QED  BY <1>4, <1>a, <2>1 DEF Edit
<1>5. ASSUME NEW p \in Paths, PushScan(p)
      PROVE  CloneOK'
  <2> DEFINE c == here.file[p]
  <2>1. CASE c = Absent \/ entries[p] = c \/ here.obj[c] # "none"
    BY <1>0, <1>5, <2>1 DEF PushScan, clone
  <2>2. CASE ~(c = Absent \/ entries[p] = c \/ here.obj[c] # "none")
    <3>1. c \in Contents
      BY <1>0, <1>5, <2>2, LocalType DEF PushScan, Content, ContentIn, Found, Maybe
    <3>2. \A u \in hereMay : PutObject(u, c, "intact") \in Locals /\ PutObject(u, c, "torn") \in Locals
      BY <1>0, <3>1, PutObjectLocal DEF Marks
    <3> QED  BY <1>5, <1>a, <2>2, <3>2 DEF PushScan
  <2> QED  BY <2>1, <2>2
<1>6. CASE PushCache
  <2>1. \A u \in hereMay : PutSeals(u, entries) \in Locals /\ PutSeals(u, NoTree) \in Locals
    BY <1>0, <1>t, PutSealsLocal
  <2> QED  BY <1>6, <1>a, <2>1 DEF PushCache
<1>7. ASSUME NEW c \in Contents, UploadMissing(c)
      PROVE  CloneOK'
  BY <1>0, <1>t, <1>7, PutSealsLocal DEF UploadMissing
<1>8. CASE write_clone_root
  <2>1. \A u \in hereMay : PutRoot(u, snap) \in Locals
    BY <1>0, <1>t, PutRootLocal
  <2> QED  BY <1>8, <1>b, <2>1 DEF write_clone_root
<1>9. ASSUME NEW p \in Paths, Reconcile(p)
      PROVE  CloneOK'
  <2>1. \A u \in hereMay : PutStub(u, p, Absent) \in Locals /\ PutStub(u, p, snap[p]) \in Locals
    BY <1>0, <1>t, PutStubLocal
  <2>2. CASE snap[p] = Absent
    BY <1>9, <1>a, <2>1, <2>2 DEF Reconcile
  <2>3. CASE snap[p] # Absent
    BY <1>9, <1>b, <2>1, <2>3 DEF Reconcile
  <2> QED  BY <2>2, <2>3
<1>10. ASSUME NEW p \in Paths, PullFetch(p)
       PROVE  CloneOK'
  <2>1. snap[p] \in Contents /\ there["origin"].obj[snap[p]] \in Marks
    BY <1>t, <1>10 DEF PullFetch, TypeOK, Shared, Maybe, Marks, Remotes
  <2>2. \A u \in hereMay : PutObject(u, snap[p], there["origin"].obj[snap[p]]) \in Locals
                          /\ PutObject(u, snap[p], "torn") \in Locals
    BY <1>0, <2>1, PutObjectLocal DEF Marks
  <2> QED  BY <1>10, <1>a, <2>2 DEF PullFetch
<1>11. ASSUME NEW p \in Paths, PullApply(p)
       PROVE  CloneOK'
  <2>1. CASE Late(p)
    BY <1>0, <1>11, <2>1 DEF PullApply, clone
  <2>2. CASE ~Late(p) /\ here.stub[p] # Absent /\ here.file[p] = Absent
    <3>1. \A u \in hereMay : PutStub(u, p, snap[p]) \in Locals
      BY <1>0, <1>t, PutStubLocal
    <3> QED  BY <1>11, <1>b, <2>2, <3>1 DEF PullApply
  <2>3. CASE ~Late(p) /\ ~(here.stub[p] # Absent /\ here.file[p] = Absent)
    <3> DEFINE c == IF snap[p] # Absent /\ here.obj[snap[p]] = "torn" THEN Broken ELSE snap[p]
    <3>1. c \in Found /\ (IF c = Absent THEN c ELSE Broken) \in Found
      BY <1>t DEF Found
    <3>2. \A u \in hereMay : PutFile(u, p, c) \in Locals
                            /\ PutFile(u, p, IF c = Absent THEN c ELSE Broken) \in Locals
      <4> HIDE DEF c
      <4> QED  BY <1>0, <3>1, PutFileLocal
    <3>3. Rename([s \in hereMay |-> PutFile(s, p, c)],
                 [s \in hereMay |-> PutFile(s, p, IF c = Absent THEN c ELSE Broken)])
      BY <1>11, <2>3 DEF PullApply
    <3> HIDE DEF c
    <3> QED  BY <1>a, <3>2, <3>3
  <2> QED  BY <2>1, <2>2, <2>3
<1>12. ASSUME NEW p \in Paths, Stub(p) \/ StubRemove(p) \/ Expand(p) \/ ExpandRemove(p)
       PROVE  CloneOK'
  <2>1. \A u \in hereMay : /\ PutStub(u, p, here.root[p]) \in Locals /\ PutStub(u, p, Absent) \in Locals
                           /\ PutFile(u, p, Absent) \in Locals /\ PutFile(u, p, here.stub[p]) \in Locals
                           /\ PutFile(u, p, Broken) \in Locals
    BY <1>0, <1>t, PutStubLocal, PutFileLocal DEF Found
  <2>2. CASE Stub(p)
    BY <1>b, <2>1, <2>2 DEF Stub, StubWrite
  <2>3. CASE StubRemove(p)
    BY <1>a, <2>1, <2>3 DEF StubRemove
  <2>4. CASE Expand(p)
    BY <1>a, <2>1, <2>4 DEF Expand
  <2>5. CASE ExpandRemove(p)
    BY <1>a, <2>1, <2>5 DEF ExpandRemove
  <2> QED  BY <1>12, <2>2, <2>3, <2>4, <2>5
<1>13. CASE PushBarrier \/ RecordBarrier
  BY <1>2, <1>13 DEF PushBarrier, RecordBarrier, sync_local_objects_fs
<1>14. CASE \/ Kill \/ PushBegin \/ PushCheck \/ PushNothing \/ UploadSync \/ PushFinish
            \/ PushCasFailed \/ PushFinished \/ push_to_backup \/ CommandEnd
            \/ PullBegin \/ PullFetched \/ PullAbort \/ PullRecord
  BY <1>1, <1>14 DEF Kill, PushBegin, PushCheck, PushNothing, UploadSync, PushFinish, PushCasFailed,
     PushFinished, push_to_backup, CommandEnd, PullBegin, PullFetched, PullAbort, PullRecord
<1>15. ASSUME NEW r \in Remotes, RemotePowerLoss(r)
       PROVE  CloneOK'
  BY <1>1, <1>15 DEF RemotePowerLoss
<1>16. ASSUME NEW p \in Paths, NEW c \in Maybe, Elsewhere(p, c)
       PROVE  CloneOK'
  BY <1>1, <1>16 DEF Elsewhere
<1>17. ASSUME NEW c \in Contents, Upload(c)
       PROVE  CloneOK'
  BY <1>1, <1>17 DEF Upload
<1> QED  BY <1>3, <1>4, <1>5, <1>6, <1>7, <1>8, <1>9, <1>10, <1>11, <1>12, <1>13, <1>14, <1>15,
            <1>16, <1>17 DEF Next

\* The remotes' disks.
RemotesOK ==
    /\ there \in [Remotes -> Shared] /\ thereMay \in [Remotes -> SUBSET Shared]
    /\ \A r \in Remotes : there[r] \in thereMay[r]

\* Another clone's publication, and what it leaves alone.
Published(s, p, c) == [s EXCEPT !.index[p] = c, !.listed = @ \cup ({c} \ {Absent}),
                                !.obj = [o \in Contents |-> IF o = c THEN "intact" ELSE @[o]]]

\* What a push of another clone leaves at origin.
LEMMA PublishedShared ==
    ASSUME NEW s \in Shared, NEW p \in Paths, NEW c \in Maybe
    PROVE  LET q == Published(s, p, c)
           IN  /\ q \in Shared /\ q.index = [s.index EXCEPT ![p] = c]
               /\ q.listed = s.listed \cup ({c} \ {Absent})
               /\ \A o \in Contents : q.obj[o] = IF o = c THEN "intact" ELSE s.obj[o]
  BY DEF Published, Shared, Trees, Maybe

\* It is durable at once.
LEMMA ElsewhereEffect ==
    ASSUME NEW p \in Paths, NEW c \in Maybe, Elsewhere(p, c)
    PROVE  LET q == Published(there["origin"], p, c)
           IN  /\ there' = [there EXCEPT !["origin"] = q]
               /\ thereMay' = [thereMay EXCEPT !["origin"] = {q}]
  BY DEF Elsewhere, Published

\* A remote is written, or synced, by the command's target.
LEMMA RemoteRenameType ==
    ASSUME RemotesOK, NEW r \in Remotes, NEW s \in Shared, RemoteRename(r, s)
    PROVE  /\ RemotesOK' /\ there'[r] = s /\ thereMay'[r] = thereMay[r] \cup {s}
           /\ \A q \in Remotes \ {r} : there'[q] = there[q] /\ thereMay'[q] = thereMay[q]
  BY DEF RemotesOK, RemoteRename

\* fsync at a remote leaves a power loss one outcome.
LEMMA RemoteSyncType ==
    ASSUME RemotesOK, NEW r \in Remotes, RemoteSync(r)
    PROVE  /\ RemotesOK' /\ there' = there /\ thereMay'[r] = {there[r]}
           /\ \A q \in Remotes \ {r} : thereMay'[q] = thereMay[q]
  BY DEF RemotesOK, RemoteSync

\* Every step keeps the types of the remotes.
LEMMA RemoteTypeStep ==
    ASSUME TypeOK, Next
    PROVE  RemotesOK'
<1>0. RemotesOK /\ target \in Remotes /\ "origin" \in Remotes /\ snap \in Trees
  BY DEF TypeOK, RemotesOK, Remotes
<1>1. CASE UNCHANGED remotes
  BY <1>0, <1>1 DEF RemotesOK, remotes
<1>2. ASSUME NEW r \in Remotes, RemotePowerLoss(r)
      PROVE  RemotesOK'
  BY <1>0, <1>2 DEF RemotePowerLoss, RemotesOK
<1>3. ASSUME NEW p \in Paths, NEW c \in Maybe, Elsewhere(p, c)
      PROVE  RemotesOK'
  <2>1. Published(there["origin"], p, c) \in Shared
    BY <1>0, PublishedShared DEF RemotesOK
  <2> QED  BY <1>0, <1>3, <2>1, ElsewhereEffect DEF RemotesOK
<1>4. ASSUME NEW c \in Contents, Upload(c)
      PROVE  RemotesOK'
  <2>1. PutObject(there[target], c, here.obj[c]) \in Shared
    <3>1. here.obj[c] \in Marks /\ there[target] \in Shared
      BY <1>0, LocalType DEF TypeOK, RemotesOK
    <3> QED  BY <3>1, PutObjectShared
  <2> QED  BY <1>0, <1>1, <1>4, <2>1, RemoteRenameType DEF Upload
<1>5. CASE UploadSync \/ PushFinished
  BY <1>0, <1>5, RemoteSyncType DEF UploadSync, PushFinished
<1>6. CASE PushFinish
  <2>1. [there[target] EXCEPT !.index = snap, !.listed = @ \cup Objects(snap)] \in Shared
    BY <1>0, PublishShared DEF RemotesOK
  <2> QED  BY <1>0, <1>6, <2>1, RemoteRenameType DEF PushFinish
<1>7. ASSUME NEW p \in Paths, NEW c \in Maybe, Edit(p, c)
      PROVE  RemotesOK'
  BY <1>1, <1>7 DEF Edit
<1>8. ASSUME NEW p \in Paths,
             \/ PushScan(p) \/ Reconcile(p) \/ PullFetch(p) \/ PullApply(p)
             \/ Stub(p) \/ StubRemove(p) \/ Expand(p) \/ ExpandRemove(p)
      PROVE  RemotesOK'
  BY <1>1, <1>8 DEF PushScan, Reconcile, PullFetch, PullApply, Stub, StubRemove, Expand, ExpandRemove
<1>9. CASE \/ Kill \/ PowerLoss \/ PushBegin \/ PushBarrier \/ PushCache \/ PushCheck \/ PushNothing
           \/ PushCasFailed \/ RecordBarrier \/ write_clone_root \/ push_to_backup \/ CommandEnd
           \/ PullBegin \/ PullFetched \/ PullAbort \/ PullRecord
           \/ \E c \in Contents : UploadMissing(c)
  BY <1>1, <1>9 DEF Kill, PowerLoss, PushBegin, PushBarrier, PushCache, PushCheck, PushNothing,
     PushCasFailed, RecordBarrier, write_clone_root, push_to_backup, CommandEnd,
     PullBegin, PullFetched, PullAbort, PullRecord, UploadMissing
<1> QED  BY <1>2, <1>3, <1>4, <1>5, <1>6, <1>7, <1>8, <1>9 DEF Next

\* The running command, the history and the counters.
Counts == [edits : 0 .. MaxEdits, kills : 0 .. MaxKills, losses : 0 .. MaxLosses]
CommandOK ==
    /\ pc \in Stages /\ target \in Remotes /\ snap \in Trees /\ entries \in Trees /\ token \in Trees
    /\ todo \subseteq Paths \cup Contents
    /\ edited \subseteq Paths /\ begun \subseteq Paths /\ owed \subseteq Paths
    /\ count \in Counts

\* The bounded counters stay within their bounds.
LEMMA CountStep ==
    ASSUME count \in Counts
    PROVE  /\ count.edits \in Nat /\ count.kills \in Nat /\ count.losses \in Nat
           /\ count.edits < MaxEdits => [count EXCEPT !.edits = @ + 1] \in Counts
           /\ count.kills < MaxKills => [count EXCEPT !.kills = @ + 1] \in Counts
           /\ count.losses < MaxLosses => [count EXCEPT !.losses = @ + 1] \in Counts
<1>1. /\ count.edits \in 0 .. MaxEdits /\ count.kills \in 0 .. MaxKills /\ count.losses \in 0 .. MaxLosses
  BY DEF Counts
<1>2. /\ count.edits < MaxEdits => count.edits + 1 \in 0 .. MaxEdits
      /\ count.kills < MaxKills => count.kills + 1 \in 0 .. MaxKills
      /\ count.losses < MaxLosses => count.losses + 1 \in 0 .. MaxLosses
  BY <1>1, ConstantsAssumption
<1> QED  BY <1>1, <1>2 DEF Counts

\* Every step keeps the type of the running command and of the history.
LEMMA CommandTypeStep ==
    ASSUME TypeOK, Next
    PROVE  CommandOK'
<1> USE DEF CommandOK
<1>0. CommandOK /\ RemotesOK /\ here \in Locals
  BY DEF TypeOK, RemotesOK, Counts
<1>t. NoTree \in Trees /\ here.seal \in Trees /\ here.root \in Trees
      /\ \A r \in Remotes : there[r].index \in Trees
      /\ "origin" \in Remotes /\ "backup" \in Remotes
  BY <1>0, TreeType, LocalType DEF RemotesOK, Remotes, Shared
<1>s. ASSUME Stop, edited' \subseteq Paths, begun' \subseteq Paths, owed' \subseteq Paths,
             count' \in Counts
      PROVE  CommandOK'
  BY <1>s, <1>t DEF Stop, Stages, Remotes
<1>1. CASE \E p \in Paths, c \in Maybe : Edit(p, c) \/ Elsewhere(p, c)
  <2>1. count' \in Counts
    BY <1>0, <1>1, CountStep DEF Edit, Elsewhere
  <2>2. UNCHANGED command /\ UNCHANGED <<begun, owed>> /\ edited' \subseteq Paths
    BY <1>0, <1>1 DEF Edit, Elsewhere
  <2> QED  BY <1>0, <2>1, <2>2 DEF command
<1>2. CASE Kill \/ PowerLoss \/ \E r \in Remotes : RemotePowerLoss(r)
  BY <1>0, <1>2, <1>s, CountStep DEF Kill, PowerLoss, RemotePowerLoss
<1>3. CASE PushBegin \/ PushBarrier \/ PushCache \/ PushFinish \/ RecordBarrier \/ UploadSync
           \/ PullFetched \/ PullRecord
  BY <1>0, <1>3, <1>t DEF PushBegin, PushBarrier, PushCache, PushFinish, RecordBarrier, UploadSync,
     PullFetched, PullRecord, Stages
<1>4. CASE \/ PushNothing \/ PushCasFailed \/ CommandEnd \/ PullAbort
           \/ \E c \in Contents : UploadMissing(c)
  BY <1>0, <1>4, <1>s DEF PushNothing, PushCasFailed, CommandEnd, PullAbort, UploadMissing
<1>5. CASE PushFinished
  BY <1>0, <1>5, <1>s DEF PushFinished, Stages
<1>6. CASE PushCheck \/ push_to_backup
  <2>1. \A r \in Remotes, t \in Trees : Missing(r, t) \subseteq Contents
    BY TreeType DEF Missing
  <2> QED  BY <1>0, <1>6, <1>t, <2>1 DEF PushCheck, push_to_backup, Stages
<1>7. ASSUME NEW p \in Paths, PushScan(p)
      PROVE  CommandOK'
  <2>1. Content(p) \in Maybe
    BY <1>0, <1>7, LocalType DEF PushScan, Content, Found
  <2>2. here.file[p] # Absent => here.file[p] \in Maybe
    BY <2>1 DEF Content, ContentIn
  <2>3. snap' \in Trees /\ entries' \in Trees
    BY <1>0, <1>7, <2>1, <2>2 DEF PushScan, Trees
  <2> QED  BY <1>0, <1>7, <2>3 DEF PushScan
<1>8. CASE \E c \in Contents : Upload(c)
  BY <1>0, <1>8 DEF Upload, Stages
<1>9. CASE write_clone_root
  BY <1>0, <1>9 DEF write_clone_root, Stages
<1>10. CASE PullBegin
  BY <1>0, <1>10, <1>t DEF PullBegin, Stages
<1>11. CASE \E p \in Paths : Reconcile(p) \/ PullFetch(p) \/ PullApply(p)
  BY <1>0, <1>11 DEF Reconcile, PullFetch, PullApply, command
<1>12. CASE \E p \in Paths : Stub(p) \/ StubRemove(p) \/ Expand(p) \/ ExpandRemove(p)
  BY <1>0, <1>12 DEF Stub, StubRemove, Expand, ExpandRemove, command
<1> QED  BY <1>1, <1>2, <1>3, <1>4, <1>5, <1>6, <1>7, <1>8, <1>9, <1>10, <1>11, <1>12 DEF Next

\* The type invariant is inductive.
LEMMA TypeStep ==
    ASSUME TypeOK, [Next]_vars
    PROVE  TypeOK'
<1>1. CASE Next
  BY <1>1, CloneTypeStep, RemoteTypeStep, CommandTypeStep DEF TypeOK, CloneOK, RemotesOK, CommandOK, Counts
<1>2. CASE UNCHANGED vars
  BY <1>2 DEF TypeOK, vars
<1> QED  BY <1>1, <1>2

-----------------------------------------------------------------------------
(* Objects are never lost: every state a step may leave has, of the        *)
(* objects, at least those of a state that could have been left before.    *)

\* From u to s no object disappears, and none is torn unless writes may tear.
Grows(u, s) == \A c \in Contents : /\ u.obj[c] # "none" => s.obj[c] # "none"
                                   /\ ~Torn /\ s.obj[c] = "torn" => u.obj[c] = "torn"

\* From u to s clone_root is kept unless it is being written, and STAT_CACHE
\* is kept, cleared, or being written.
Recording == pc = "recordRoot" /\ pc' = "reconcile"
Kept(u, s) ==
    /\ Grows(u, s)
    /\ s.root = IF Recording THEN snap ELSE u.root
    /\ s.seal \in {u.seal, NoTree} \/ (pc = "cache" /\ s.seal = entries)

\* Every state a power loss may leave after a step keeps what one before it
\* had, and so does what programs see, unless the step is a power loss.
LEMMA CloneKept ==
    ASSUME TypeOK, RemoteInv, WholeInv, Next
    PROVE  /\ \A s \in hereMay' : \E u \in hereMay : Kept(u, s)
           /\ Kept(here, here') \/ PowerLoss
<1> DEFINE Goal == /\ \A s \in hereMay' : \E u \in hereMay : Kept(u, s)
                   /\ Kept(here, here') \/ PowerLoss
<1>0. here \in Locals /\ hereMay \subseteq Locals /\ here \in hereMay
  BY DEF TypeOK
<1>t. snap \in Trees /\ entries \in Trees /\ NoTree \in Trees /\ Absent \in Maybe
      /\ \A p \in Paths : snap[p] \in Maybe /\ here.root[p] \in Maybe /\ here.stub[p] \in Maybe
  BY <1>0, TreeType, LocalType DEF TypeOK, Maybe
<1>k. ~Recording => \A u : Kept(u, u)
  BY DEF Kept, Grows
<1>a. ASSUME NEW write, NEW tear, Rename(write, tear), ~Recording,
             \A u \in hereMay : Kept(u, write[u]) /\ (Torn => Kept(u, tear[u]))
      PROVE  Goal
  BY <1>0, <1>a, <1>k, RenameEffect
<1>b. ASSUME NEW write, Durable(write), \A u \in hereMay : Kept(u, write[u])
      PROVE  Goal
  BY <1>0, <1>b, DurableEffect
<1>f. ASSUME ~Recording, NEW p \in Paths, NEW c \in Found, NEW u \in hereMay
      PROVE  Kept(u, PutFile(u, p, c))
  BY <1>0, <1>f, PutFileLocal DEF Kept, Grows
<1>s. ASSUME ~Recording, NEW p \in Paths, NEW c \in Maybe, NEW u \in hereMay
      PROVE  Kept(u, PutStub(u, p, c))
  BY <1>0, <1>s, PutStubLocal DEF Kept, Grows
<1>o. ASSUME ~Recording, NEW c \in Contents, NEW v \in {"intact", "torn"}, v = "torn" => Torn,
             NEW u \in hereMay
      PROVE  Kept(u, PutObject(u, c, v))
  <2>1. /\ PutObject(u, c, v).obj = [u.obj EXCEPT ![c] = v]
        /\ PutObject(u, c, v).root = u.root /\ PutObject(u, c, v).seal = u.seal
    <3>1. v \in Marks /\ u \in Locals
      BY <1>0 DEF Marks
    <3> QED  BY <3>1, PutObjectLocal
  <2>2. u.obj \in [Contents -> Marks]
    BY <1>0, LocalType
  <2> QED  BY <1>o, <2>1, <2>2 DEF Kept, Grows
<1>1. CASE UNCHANGED clone /\ ~Recording
  BY <1>1, <1>k DEF clone
<1>2. CASE PushBarrier \/ RecordBarrier
  <2>1. here' = here /\ hereMay' \in {hereMay, {here}} /\ ~Recording
    BY <1>2 DEF PushBarrier, RecordBarrier, sync_local_objects_fs, Recording
  <2> QED  BY <1>0, <1>k, <2>1
<1>3. CASE PowerLoss
  <2>1. ~Recording
    BY <1>3 DEF PowerLoss, Stop, Recording
  <2> QED  BY <1>3, <1>k, <2>1 DEF PowerLoss
<1>4. ASSUME NEW p \in Paths, NEW c \in Maybe, Edit(p, c)
      PROVE  Goal
  <2>1. ~Recording
    BY <1>4 DEF Edit, command, Recording
  <2>2. c \in Found /\ (IF c = Absent THEN c ELSE Broken) \in Found
    BY DEF Found
  <2> QED  BY <1>4, <1>a, <1>f, <2>1, <2>2 DEF Edit
<1>5. ASSUME NEW p \in Paths, PushScan(p)
      PROVE  Goal
  <2> DEFINE c == here.file[p]
  <2>0. ~Recording
    BY <1>5 DEF PushScan, Recording
  <2>1. CASE c = Absent \/ entries[p] = c \/ here.obj[c] # "none"
    BY <1>5, <1>1, <2>0, <2>1 DEF PushScan
  <2>2. CASE ~(c = Absent \/ entries[p] = c \/ here.obj[c] # "none")
    <3>1. c \in Contents
      BY <1>0, <1>5, <2>2, LocalType DEF PushScan, Content, ContentIn, Found, Maybe
    <3>2. \A u \in hereMay : Kept(u, PutObject(u, c, "intact"))
                            /\ (Torn => Kept(u, PutObject(u, c, "torn")))
      BY <1>o, <2>0, <3>1
    <3> QED  BY <1>5, <1>a, <2>0, <2>2, <3>2 DEF PushScan
  <2> QED  BY <2>1, <2>2
<1>6. CASE PushCache
  <2>1. ~Recording /\ pc = "cache"
    BY <1>6 DEF PushCache, Recording
  <2>2. \A u \in hereMay : Kept(u, PutSeals(u, entries)) /\ Kept(u, PutSeals(u, NoTree))
    BY <1>0, <1>t, <2>1, PutSealsLocal DEF Kept, Grows
  <2> QED  BY <1>6, <1>a, <2>1, <2>2 DEF PushCache
<1>7. ASSUME NEW c \in Contents, UploadMissing(c)
      PROVE  Goal
  <2>1. ~Recording
    BY <1>7 DEF UploadMissing, Stop, Recording
  <2>2. Kept(here, PutSeals(here, NoTree))
    BY <1>0, <1>t, <2>1, PutSealsLocal DEF Kept, Grows
  <2> QED  BY <1>0, <1>7, <1>k, <2>1, <2>2 DEF UploadMissing
<1>8. CASE write_clone_root
  <2>1. Recording
    BY <1>8 DEF write_clone_root, Recording
  <2>2. \A u \in hereMay : Kept(u, PutRoot(u, snap))
    BY <1>0, <1>t, <2>1, PutRootLocal DEF Kept, Grows
  <2> QED  BY <1>8, <1>b, <2>2 DEF write_clone_root
<1>9. ASSUME NEW p \in Paths, Reconcile(p)
      PROVE  Goal
  <2>0. ~Recording
    BY <1>9 DEF Reconcile, Recording
  <2>1. CASE snap[p] = Absent
    BY <1>9, <1>a, <1>s, <1>t, <2>0, <2>1 DEF Reconcile
  <2>2. CASE snap[p] # Absent
    BY <1>9, <1>b, <1>s, <1>t, <2>0, <2>2 DEF Reconcile
  <2> QED  BY <2>1, <2>2
<1>10. ASSUME NEW p \in Paths, PullFetch(p)
       PROVE  Goal
  <2> DEFINE v == there["origin"].obj[snap[p]]
  <2>0. ~Recording
    BY <1>10 DEF PullFetch, Recording
  <2>1. snap[p] \in Contents /\ snap[p] \in Objects(snap)
    BY <1>t, <1>10, TreeType DEF PullFetch
  <2>2. v \in Marks /\ v # "none"
    BY <1>10, <2>1 DEF PullFetch, RemoteInv, Has, TypeOK, Shared, Marks, Remotes
  <2>3. v = "torn" => Torn
    BY <2>1 DEF WholeInv, TypeOK, Remotes
  <2>4. v \in {"intact", "torn"}
    BY <2>2 DEF Marks
  <2>5. \A u \in hereMay : Kept(u, PutObject(u, snap[p], v))
                          /\ (Torn => Kept(u, PutObject(u, snap[p], "torn")))
    <3> HIDE DEF v
    <3> QED  BY <1>o, <2>0, <2>1, <2>3, <2>4
  <2> QED  BY <1>10, <1>a, <2>0, <2>5 DEF PullFetch
<1>11. ASSUME NEW p \in Paths, PullApply(p)
       PROVE  Goal
  <2>0. ~Recording
    BY <1>11 DEF PullApply, Recording
  <2>1. CASE Late(p)
    BY <1>11, <1>1, <2>0, <2>1 DEF PullApply
  <2>2. CASE ~Late(p) /\ here.stub[p] # Absent /\ here.file[p] = Absent
    BY <1>11, <1>b, <1>s, <1>t, <2>0, <2>2 DEF PullApply
  <2>3. CASE ~Late(p) /\ ~(here.stub[p] # Absent /\ here.file[p] = Absent)
    <3> DEFINE c == IF snap[p] # Absent /\ here.obj[snap[p]] = "torn" THEN Broken ELSE snap[p]
    <3>1. c \in Found /\ (IF c = Absent THEN c ELSE Broken) \in Found
      BY <1>t DEF Found
    <3>3. Rename([s \in hereMay |-> PutFile(s, p, c)],
                 [s \in hereMay |-> PutFile(s, p, IF c = Absent THEN c ELSE Broken)])
      BY <1>11, <2>3 DEF PullApply
    <3> HIDE DEF c
    <3> QED  BY <1>a, <1>f, <2>0, <3>1, <3>3
  <2> QED  BY <2>1, <2>2, <2>3
<1>12. ASSUME NEW p \in Paths, Stub(p) \/ StubRemove(p) \/ Expand(p) \/ ExpandRemove(p)
       PROVE  Goal
  <2>0. ~Recording
    BY <1>12 DEF Stub, StubRemove, Expand, ExpandRemove, Recording
  <2>1. \A u \in hereMay : /\ Kept(u, PutStub(u, p, here.root[p])) /\ Kept(u, PutStub(u, p, Absent))
                           /\ Kept(u, PutFile(u, p, Absent)) /\ Kept(u, PutFile(u, p, here.stub[p]))
                           /\ Kept(u, PutFile(u, p, Broken))
    BY <1>s, <1>f, <1>t, <2>0 DEF Found
  <2>2. CASE Stub(p)
    BY <1>b, <2>1, <2>2 DEF Stub, StubWrite
  <2>3. CASE StubRemove(p)
    BY <1>a, <2>0, <2>1, <2>3 DEF StubRemove
  <2>4. CASE Expand(p)
    BY <1>a, <2>0, <2>1, <2>4 DEF Expand
  <2>5. CASE ExpandRemove(p)
    BY <1>a, <2>0, <2>1, <2>5 DEF ExpandRemove
  <2> QED  BY <1>12, <2>2, <2>3, <2>4, <2>5
<1>13. CASE \/ Kill \/ PushBegin \/ PushCheck \/ PushNothing \/ UploadSync \/ PushFinish
            \/ PushCasFailed \/ PushFinished \/ push_to_backup \/ CommandEnd
            \/ PullBegin \/ PullFetched \/ PullAbort \/ PullRecord
  <2>1. UNCHANGED clone /\ ~Recording
    BY <1>13 DEF Kill, PushBegin, PushCheck, PushNothing, UploadSync, PushFinish, PushCasFailed,
       PushFinished, push_to_backup, CommandEnd, PullBegin, PullFetched, PullAbort, PullRecord,
       Recording, Stop
  <2> QED  BY <1>1, <2>1
<1>14. ASSUME NEW r \in Remotes, RemotePowerLoss(r)
       PROVE  Goal
  BY <1>1, <1>14 DEF RemotePowerLoss, Recording, Stop
<1>15. ASSUME NEW p \in Paths, NEW c \in Maybe, Elsewhere(p, c)
       PROVE  Goal
  BY <1>1, <1>15 DEF Elsewhere, Recording, command
<1>16. ASSUME NEW c \in Contents, Upload(c)
       PROVE  Goal
  BY <1>1, <1>16 DEF Upload, Recording
<1> QED  BY <1>2, <1>3, <1>4, <1>5, <1>6, <1>7, <1>8, <1>9, <1>10, <1>11, <1>12, <1>13, <1>14, <1>15,
            <1>16 DEF Next

\* A push of another clone takes nothing away.
LEMMA PublishedGrows ==
    ASSUME NEW s \in Shared, NEW p \in Paths, NEW c \in Maybe
    PROVE  Grows(s, Published(s, p, c))
<1>1. \A o \in Contents : Published(s, p, c).obj[o] = IF o = c THEN "intact" ELSE s.obj[o]
  BY DEF Published, Shared, Trees, Maybe
<1> QED  BY <1>1 DEF Grows

\* The same of the remotes; only a power loss of a remote takes anything away
\* from what programs see of it.
LEMMA RemoteKept ==
    ASSUME TypeOK, WholeInv, Next
    PROVE  \A r \in Remotes :
             /\ \A t \in thereMay'[r] : \E u \in thereMay[r] : Grows(u, t)
             /\ Grows(there[r], there'[r]) \/ RemotePowerLoss(r)
<1> DEFINE Goal(r) == /\ \A t \in thereMay'[r] : \E u \in thereMay[r] : Grows(u, t)
                      /\ Grows(there[r], there'[r]) \/ RemotePowerLoss(r)
<1> SUFFICES \A r \in Remotes : Goal(r)
  OBVIOUS
<1>0. RemotesOK /\ target \in Remotes /\ "origin" \in Remotes /\ snap \in Trees
  BY DEF TypeOK, RemotesOK, Remotes
<1>k. \A u : Grows(u, u)
  BY DEF Grows
<1>1. CASE UNCHANGED remotes
  BY <1>0, <1>1, <1>k DEF RemotesOK, remotes
<1>a. ASSUME NEW s \in Shared, RemoteRename(target, s), Grows(there[target], s)
      PROVE  \A r \in Remotes : Goal(r)
  BY <1>0, <1>a, <1>k, RemoteRenameType DEF RemotesOK
<1>2. ASSUME NEW q \in Remotes, RemotePowerLoss(q)
      PROVE  \A r \in Remotes : Goal(r)
  <2>1. PICK s \in thereMay[q] :
          there' = [there EXCEPT ![q] = s] /\ thereMay' = [thereMay EXCEPT ![q] = {s}]
    BY <1>2 DEF RemotePowerLoss
  <2>2. \A r \in Remotes \ {q} : there'[r] = there[r] /\ thereMay'[r] = thereMay[r]
    BY <1>0, <2>1 DEF RemotesOK
  <2>3. thereMay'[q] = {s}
    BY <1>0, <2>1 DEF RemotesOK
  <2> QED  BY <1>0, <1>2, <1>k, <2>2, <2>3 DEF RemotesOK
<1>3. ASSUME NEW p \in Paths, NEW c \in Maybe, Elsewhere(p, c)
      PROVE  \A r \in Remotes : Goal(r)
  <2> DEFINE q == Published(there["origin"], p, c)
  <2>0. there["origin"] \in Shared
    BY <1>0 DEF RemotesOK
  <2>2. Grows(there["origin"], q)
    BY <2>0, PublishedGrows
  <2>3. /\ there' = [there EXCEPT !["origin"] = q]
        /\ thereMay' = [thereMay EXCEPT !["origin"] = {q}]
    BY <1>3, ElsewhereEffect
  <2> HIDE DEF q
  <2> QED  BY <1>0, <1>k, <2>2, <2>3 DEF RemotesOK
<1>4. ASSUME NEW c \in Contents, Upload(c)
      PROVE  \A r \in Remotes : Goal(r)
  <2> DEFINE v == here.obj[c]
             q == PutObject(there[target], c, v)
  <2>1. v \in Marks /\ v # "none" /\ there[target] \in Shared
    BY <1>0, <1>4, LocalType DEF TypeOK, RemotesOK, Upload
  <2>2. v = "torn" => Torn
    BY DEF WholeInv, TypeOK
  <2>3. q \in Shared /\ q.obj = [there[target].obj EXCEPT ![c] = v]
    <3> HIDE DEF v
    <3> QED  BY <2>1, PutObjectShared
  <2>4. there[target].obj \in [Contents -> Marks]
    BY <2>1 DEF Shared, Marks
  <2>5. Grows(there[target], q)
    <3> HIDE DEF q, v
    <3> QED  BY <2>1, <2>2, <2>3, <2>4 DEF Grows
  <2>6. CASE there[target].obj[c] # "none"
    BY <1>1, <1>4, <2>6 DEF Upload
  <2>7. CASE there[target].obj[c] = "none"
    <3>1. RemoteRename(target, q)
      BY <1>4, <2>7 DEF Upload
    <3> HIDE DEF q
    <3> QED  BY <1>a, <2>3, <2>5, <3>1
  <2> QED  BY <2>6, <2>7
<1>5. CASE UploadSync \/ PushFinished
  <2>1. RemoteSync(target)
    BY <1>5 DEF UploadSync, PushFinished
  <2> QED  BY <1>0, <1>k, <2>1, RemoteSyncType DEF RemotesOK
<1>6. CASE PushFinish
  <2> DEFINE q == [there[target] EXCEPT !.index = snap, !.listed = @ \cup Objects(snap)]
  <2>1. q \in Shared /\ q.obj = there[target].obj
    BY <1>0, PublishShared DEF RemotesOK
  <2>2. RemoteRename(target, q)
    BY <1>6 DEF PushFinish
  <2> HIDE DEF q
  <2>3. Grows(there[target], q)
    BY <2>1 DEF Grows
  <2> QED  BY <1>a, <2>1, <2>2, <2>3
<1>7. ASSUME NEW p \in Paths, NEW c \in Maybe, Edit(p, c)
      PROVE  \A r \in Remotes : Goal(r)
  BY <1>1, <1>7 DEF Edit
<1>8. ASSUME NEW p \in Paths,
             \/ PushScan(p) \/ Reconcile(p) \/ PullFetch(p) \/ PullApply(p)
             \/ Stub(p) \/ StubRemove(p) \/ Expand(p) \/ ExpandRemove(p)
      PROVE  \A r \in Remotes : Goal(r)
  BY <1>1, <1>8 DEF PushScan, Reconcile, PullFetch, PullApply, Stub, StubRemove, Expand, ExpandRemove
<1>9. CASE \/ Kill \/ PowerLoss \/ PushBegin \/ PushBarrier \/ PushCache \/ PushCheck \/ PushNothing
           \/ PushCasFailed \/ RecordBarrier \/ write_clone_root \/ push_to_backup \/ CommandEnd
           \/ PullBegin \/ PullFetched \/ PullAbort \/ PullRecord
           \/ \E c \in Contents : UploadMissing(c)
  BY <1>1, <1>9 DEF Kill, PowerLoss, PushBegin, PushBarrier, PushCache, PushCheck, PushNothing,
     PushCasFailed, RecordBarrier, write_clone_root, push_to_backup, CommandEnd,
     PullBegin, PullFetched, PullAbort, PullRecord, UploadMissing
<1> QED  BY <1>2, <1>3, <1>4, <1>5, <1>6, <1>7, <1>8, <1>9 DEF Next

\* What a tree refers to stays where it was.
LEMMA HasGrows ==
    ASSUME NEW u, NEW s, Grows(u, s), NEW t \in Trees, Has(u, t)
    PROVE  Has(s, t)
<1>1. Objects(t) \subseteq Contents
  BY TreeType
<1> QED  BY <1>1 DEF Has, Grows

\* clone_root is the same in every state, and no file is torn.
LEMMA RootWholeStep ==
    ASSUME TypeOK, RemoteInv, WholeInv, RootInv, Next
    PROVE  RootInv' /\ WholeInv'
<1>1. /\ \A s \in hereMay' : \E u \in hereMay : Kept(u, s)
      /\ \A r \in Remotes : \A t \in thereMay'[r] : \E u \in thereMay[r] : Grows(u, t)
  BY CloneKept, RemoteKept
<1>2. here' \in hereMay'
  BY CloneTypeStep DEF CloneOK
<1>3. RootInv'
  BY <1>1, <1>2 DEF RootInv, Kept
<1>4. WholeInv'
  <2>1. ASSUME ~Torn, NEW s \in hereMay', NEW c \in Contents
        PROVE  s.obj[c] # "torn"
    BY <1>1, <2>1 DEF WholeInv, Kept, Grows
  <2>2. ASSUME ~Torn, NEW r \in Remotes, NEW t \in thereMay'[r], NEW c \in Contents
        PROVE  t.obj[c] # "torn"
    BY <1>1, <2>2 DEF WholeInv, Grows
  <2> QED  BY <2>1, <2>2 DEF WholeInv
<1> QED  BY <1>3, <1>4

-----------------------------------------------------------------------------
(* What a step does to the command.                                        *)

\* The command is not affected, and nothing is lost meanwhile.
Quiet ==
    /\ UNCHANGED command /\ Kept(here, here')
    /\ \A r \in Remotes : Grows(there[r], there'[r])

\* A step leaves the command alone, ends it, or is one of its own.
LEMMA Moves ==
    ASSUME TypeOK, RemoteInv, WholeInv, Next
    PROVE  \/ Quiet \/ Stop
           \/ PushBegin \/ (\E p \in Paths : PushScan(p)) \/ PushBarrier \/ PushCache \/ PushCheck
           \/ (\E c \in Contents : Upload(c)) \/ UploadSync \/ PushFinish
           \/ (PushFinished /\ target = "origin") \/ RecordBarrier \/ write_clone_root
           \/ (\E p \in Paths : Reconcile(p)) \/ push_to_backup
           \/ PullBegin \/ PullFetched \/ (\E p \in Paths : PullApply(p)) \/ PullRecord
<1>1. PowerLoss \/ (\E r \in Remotes : RemotePowerLoss(r)) => Stop
  BY DEF PowerLoss, RemotePowerLoss
<1>2. Stop \/ (Kept(here, here') /\ \A r \in Remotes : Grows(there[r], there'[r]))
  BY <1>1, CloneKept, RemoteKept
<1>3. CASE \E p \in Paths, c \in Maybe : Edit(p, c) \/ Elsewhere(p, c)
  BY <1>2, <1>3 DEF Quiet, Edit, Elsewhere
<1>4. CASE \E p \in Paths : PullFetch(p) \/ Stub(p) \/ StubRemove(p) \/ Expand(p) \/ ExpandRemove(p)
  BY <1>2, <1>4 DEF Quiet, PullFetch, Stub, StubRemove, Expand, ExpandRemove
<1>5. CASE \/ Kill \/ PushNothing \/ PushCasFailed \/ CommandEnd \/ PullAbort
           \/ (\E c \in Contents : UploadMissing(c))
  BY <1>5 DEF Kill, PushNothing, PushCasFailed, CommandEnd, PullAbort, UploadMissing
<1>6. CASE PushFinished /\ target # "origin"
  BY <1>6 DEF PushFinished
<1> QED  BY <1>1, <1>3, <1>4, <1>5, <1>6 DEF Next

\* The seals are stored in every state that a power loss may leave.
LEMMA SealStep ==
    ASSUME TypeOK, SealInv, RemoteInv, WholeInv, Next
    PROVE  SealInv'
<1>0. here \in Locals /\ hereMay \subseteq Locals /\ here \in hereMay
  BY DEF TypeOK
<1>t. entries \in Trees /\ NoTree \in Trees /\ \A u \in hereMay : u.seal \in Trees
  BY <1>0, TreeType, LocalType DEF TypeOK
<1>n. \A s : Has(s, NoTree)
  BY TreeType DEF Has
<1>1. ASSUME NEW s \in hereMay'
      PROVE  Has(s, s.seal)
  <2>1. PICK u \in hereMay : Kept(u, s)
    BY CloneKept
  <2>2. Has(u, u.seal) /\ Grows(u, s)
    BY <2>1 DEF SealInv, Kept
  <2>3. Has(s, u.seal)
    BY <1>t, <2>2, HasGrows
  <2>4. pc = "cache" => Has(s, entries)
    BY <1>t, <2>2, HasGrows DEF SealInv
  <2> QED  BY <1>n, <2>1, <2>3, <2>4 DEF Kept
<1>2. ASSUME pc' = "scan"
      PROVE  Has(here', entries')
  <2>1. CASE Quiet
    <3>1. pc = "scan" /\ entries' = entries /\ Grows(here, here')
      BY <1>2, <2>1 DEF Quiet, command, Kept
    <3> QED  BY <1>t, <3>1, HasGrows DEF SealInv
  <2>2. CASE PushBegin
    BY <1>0, <2>2 DEF PushBegin, SealInv, clone
  <2>3. ASSUME NEW p \in Paths, PushScan(p)
        PROVE  Has(here', entries')
    <3> DEFINE c == here.file[p]
    <3>1. pc = "scan" /\ Has(here, entries)
      BY <2>3 DEF PushScan, SealInv
    <3>2. CASE c = Absent
      BY <2>3, <3>1, <3>2 DEF PushScan, clone
    <3>3. CASE c # Absent
      <4>1. c \in Contents
        BY <1>0, <2>3, <3>3, LocalType DEF PushScan, Content, ContentIn, Found, Maybe
      <4>2. entries' = [entries EXCEPT ![p] = c]
        BY <2>3, <3>3 DEF PushScan
      <4>3. Objects(entries') \subseteq Objects(entries) \cup {c}
        BY <1>t, <4>2 DEF Objects, Trees
      <4>4. CASE entries[p] = c \/ here.obj[c] # "none"
        <5>1. here' = here
          BY <2>3, <4>4 DEF PushScan, clone
        <5>2. here.obj[c] # "none"
          BY <1>t, <3>1, <3>3, <4>4, TreeType DEF Has
        <5> QED  BY <3>1, <4>3, <5>1, <5>2 DEF Has
      <4>5. CASE ~(entries[p] = c \/ here.obj[c] # "none")
        <5>1. here' = PutObject(here, c, "intact")
          BY <1>0, <2>3, <3>3, <4>5 DEF PushScan, Rename
        <5>2. here'.obj = [here.obj EXCEPT ![c] = "intact"]
          BY <1>0, <4>1, <5>1, PutObjectLocal DEF Marks
        <5>3. here.obj \in [Contents -> Marks] /\ Objects(entries) \subseteq Contents
          BY <1>0, <1>t, LocalType, TreeType
        <5> HIDE DEF c
        <5> QED  BY <3>1, <4>1, <4>3, <5>2, <5>3 DEF Has
      <4> QED  BY <4>4, <4>5
    <3> QED  BY <3>2, <3>3
  <2> QED  BY <1>2, <2>1, <2>2, <2>3, Moves DEF Stop, PushBarrier, PushCache, PushCheck, Upload,
              UploadSync, PushFinish, PushFinished, RecordBarrier, write_clone_root, Reconcile,
              push_to_backup, PullBegin, PullFetched, PullApply, PullRecord
<1>3. ASSUME pc' = "cache", NEW s \in hereMay'
      PROVE  Has(s, entries')
  <2>1. CASE Quiet
    <3>1. PICK u \in hereMay : Kept(u, s)
      BY CloneKept
    <3>2. pc = "cache" /\ entries' = entries /\ Grows(u, s)
      BY <1>3, <2>1, <3>1 DEF Quiet, command, Kept
    <3> QED  BY <1>t, <3>2, HasGrows DEF SealInv
  <2>2. CASE PushBarrier
    BY <1>3, <2>2 DEF PushBarrier, SealInv, sync_local_objects_fs
  <2> QED  BY <1>3, <2>1, <2>2, Moves DEF Stop, PushBegin, PushScan, PushCache, PushCheck, Upload,
              UploadSync, PushFinish, PushFinished, RecordBarrier, write_clone_root, Reconcile,
              push_to_backup, PullBegin, PullFetched, PullApply, PullRecord
<1> QED  BY <1>1, <1>2, <1>3 DEF SealInv

\* A remote comes to a state it could not be left in before by an upload, by
\* INDEX_ROOT, or by another clone.
LEMMA RemoteWrites ==
    ASSUME TypeOK, Next
    PROVE  \/ \A r \in Remotes : thereMay'[r] \subseteq thereMay[r]
           \/ \E c \in Contents : Upload(c) /\ there[target].obj[c] = "none"
           \/ PushFinish
           \/ \E p \in Paths, c \in Maybe : Elsewhere(p, c)
<1>0. RemotesOK /\ target \in Remotes
  BY DEF TypeOK, RemotesOK
<1>1. CASE UNCHANGED remotes
  BY <1>1 DEF remotes
<1>2. ASSUME NEW q \in Remotes, RemotePowerLoss(q)
      PROVE  \A r \in Remotes : thereMay'[r] \subseteq thereMay[r]
  BY <1>0, <1>2 DEF RemotePowerLoss, RemotesOK
<1>3. CASE UploadSync \/ PushFinished
  BY <1>0, <1>3, RemoteSyncType DEF UploadSync, PushFinished, RemotesOK
<1>4. CASE \E c \in Contents : Upload(c)
  BY <1>1, <1>4 DEF Upload
<1>5. CASE \/ \E p \in Paths, c \in Maybe : Edit(p, c)
           \/ \E p \in Paths :
                \/ PushScan(p) \/ Reconcile(p) \/ PullFetch(p) \/ PullApply(p)
                \/ Stub(p) \/ StubRemove(p) \/ Expand(p) \/ ExpandRemove(p)
  BY <1>1, <1>5 DEF Edit, PushScan, Reconcile, PullFetch, PullApply, Stub, StubRemove, Expand, ExpandRemove
<1>6. CASE \/ Kill \/ PowerLoss \/ PushBegin \/ PushBarrier \/ PushCache \/ PushCheck \/ PushNothing
           \/ PushCasFailed \/ RecordBarrier \/ write_clone_root \/ push_to_backup \/ CommandEnd
           \/ PullBegin \/ PullFetched \/ PullAbort \/ PullRecord
           \/ \E c \in Contents : UploadMissing(c)
  BY <1>1, <1>6 DEF Kill, PowerLoss, PushBegin, PushBarrier, PushCache, PushCheck, PushNothing,
     PushCasFailed, RecordBarrier, write_clone_root, push_to_backup, CommandEnd,
     PullBegin, PullFetched, PullAbort, PullRecord, UploadMissing
<1> QED  BY <1>2, <1>3, <1>4, <1>5, <1>6 DEF Next

\* A state of a remote whose INDEX_ROOT refers to what it lists, and has it.
Backed(t) == Objects(t.index) \subseteq t.listed /\ \A c \in t.listed : t.obj[c] # "none"

\* In every state a remote may be left in, what its index lists is stored.
LEMMA BackedStep ==
    ASSUME TypeOK, RemoteInv, WholeInv, Next
    PROVE  \A r \in Remotes : \A t \in thereMay'[r] : Backed(t)
<1>0. RemotesOK /\ target \in Remotes /\ "origin" \in Remotes /\ snap \in Trees
  BY DEF TypeOK, RemotesOK, Remotes
<1>1. \A r \in Remotes : \A t \in thereMay[r] : Backed(t)
  BY DEF RemoteInv, Backed
<1>2. CASE \A r \in Remotes : thereMay'[r] \subseteq thereMay[r]
  BY <1>1, <1>2
<1>3. ASSUME NEW c \in Contents, Upload(c), there[target].obj[c] = "none"
      PROVE  \A r \in Remotes : \A t \in thereMay'[r] : Backed(t)
  <2> DEFINE v == here.obj[c]
             s == there[target]
             q == PutObject(s, c, v)
  <2>1. v \in Marks /\ v # "none" /\ s \in Shared /\ Backed(s)
    BY <1>0, <1>1, <1>3, LocalType DEF TypeOK, RemotesOK, Upload
  <2>2. s.obj \in [Contents -> Marks] /\ s.listed \subseteq Contents
    BY <2>1 DEF Shared, Marks
  <2>3. RemoteRename(target, q)
    BY <1>3 DEF Upload
  <2> HIDE DEF v, s
  <2>4. q \in Shared /\ q.obj = [s.obj EXCEPT ![c] = v] /\ q.index = s.index /\ q.listed = s.listed
    BY <2>1, PutObjectShared
  <2> HIDE DEF q
  <2>5. Backed(q)
    BY <2>1, <2>2, <2>4 DEF Backed
  <2> QED  BY <1>0, <1>1, <2>3, <2>4, <2>5, RemoteRenameType
<1>4. CASE PushFinish
  <2> DEFINE s == there[target]
             q == [s EXCEPT !.index = snap, !.listed = @ \cup Objects(snap)]
  <2>1. s \in Shared /\ Backed(s) /\ Has(s, snap)
    BY <1>0, <1>1, <1>4 DEF RemotesOK, PushFinish, Uploaded, RemoteInv, Has
  <2>2. RemoteRename(target, q)
    BY <1>4 DEF PushFinish
  <2> HIDE DEF s
  <2>3. q \in Shared /\ q.index = snap /\ q.listed = s.listed \cup Objects(snap) /\ q.obj = s.obj
    BY <1>0, <2>1, PublishShared
  <2> HIDE DEF q
  <2>4. Backed(q)
    BY <2>1, <2>3 DEF Backed, Has
  <2> QED  BY <1>0, <1>1, <2>2, <2>3, <2>4, RemoteRenameType
<1>5. ASSUME NEW p \in Paths, NEW c \in Maybe, Elsewhere(p, c)
      PROVE  \A r \in Remotes : \A t \in thereMay'[r] : Backed(t)
  <2> DEFINE s == there["origin"]
             q == Published(s, p, c)
  <2>1. s \in Shared /\ Backed(s)
    BY <1>0, <1>1 DEF RemotesOK
  <2>2. thereMay' = [thereMay EXCEPT !["origin"] = {q}]
    BY <1>5, ElsewhereEffect
  <2> HIDE DEF s
  <2>3. /\ q.index = [s.index EXCEPT ![p] = c]
        /\ q.listed = s.listed \cup ({c} \ {Absent})
        /\ \A o \in Contents : q.obj[o] = IF o = c THEN "intact" ELSE s.obj[o]
    BY <2>1, PublishedShared
  <2> HIDE DEF q
  <2>4. Objects(q.index) \subseteq Objects(s.index) \cup ({c} \ {Absent})
    BY <2>1, <2>3 DEF Objects, Shared, Trees
  <2>5. s.listed \subseteq Contents /\ {c} \ {Absent} \subseteq Contents
    BY <2>1 DEF Shared, Maybe
  <2>6. Backed(q)
    BY <2>1, <2>3, <2>4, <2>5 DEF Backed
  <2> QED  BY <1>0, <1>1, <2>2, <2>6 DEF RemotesOK
<1> QED  BY <1>2, <1>3, <1>4, <1>5, RemoteWrites

\* The remotes stay backed, and a command knows what its remote has.
LEMMA RemoteStep ==
    ASSUME TypeOK, RemoteInv, WholeInv, Next
    PROVE  RemoteInv'
<1>0. RemotesOK /\ target \in Remotes /\ "origin" \in Remotes /\ "backup" \in Remotes /\ snap \in Trees
  BY DEF TypeOK, RemotesOK, Remotes
<1>1. \A r \in Remotes : \A t \in thereMay'[r] :
         Objects(t.index) \subseteq t.listed /\ \A c \in t.listed : t.obj[c] # "none"
  BY BackedStep DEF Backed
<1>m. \A r \in Remotes : Has(there[r], there[r].index)
      /\ \A t \in Trees : \A c \in Objects(t) : c \in Missing(r, t) \/ there[r].obj[c] # "none"
  BY <1>0 DEF RemoteInv, Missing, RemotesOK, Has
<1>2. ASSUME pc' \in {"upload", "uploadSync"}
      PROVE  \A c \in Objects(snap') : c \in todo' \/ there'[target'].obj[c] # "none"
  <2>1. CASE Quiet
    <3>1. /\ pc \in {"upload", "uploadSync"} /\ todo' = todo /\ snap' = snap /\ target' = target
          /\ Grows(there[target], there'[target])
      BY <1>0, <1>2, <2>1 DEF Quiet, command
    <3> QED  BY <1>0, <3>1, TreeType DEF RemoteInv, Grows
  <2>2. CASE PushCheck
    <3>1. target = "origin" /\ target' = "origin" /\ there' = there /\ snap' = snap /\ todo' = Missing("origin", snap)
      BY <2>2 DEF PushCheck, RemoteInv, remotes
    <3> QED  BY <1>0, <1>m, <3>1
  <2>3. CASE push_to_backup
    <3>1. target' = "backup" /\ there' = there /\ snap' = snap /\ snap = here.root /\ todo' = Missing("backup", here.root)
      BY <2>3 DEF push_to_backup, RemoteInv, remotes
    <3> QED  BY <1>0, <1>m, <3>1
  <2>4. ASSUME NEW c \in Contents, Upload(c)
        PROVE  \A o \in Objects(snap') : o \in todo' \/ there'[target'].obj[o] # "none"
    <3>1. /\ todo' = todo \ {c} /\ snap' = snap /\ target' = target
          /\ \A o \in Objects(snap) : o \in todo \/ there[target].obj[o] # "none"
      BY <2>4 DEF Upload, RemoteInv
    <3>2. Grows(there[target], there'[target])
      <4>1. ~RemotePowerLoss(target)
        BY <1>2 DEF RemotePowerLoss, Stop
      <4> QED  BY <1>0, <4>1, RemoteKept
    <3>3. there'[target].obj[c] # "none"
      <4>1. CASE there[target].obj[c] # "none"
        BY <3>2, <4>1 DEF Grows
      <4>2. CASE there[target].obj[c] = "none"
        <5> DEFINE v == here.obj[c]
                   q == PutObject(there[target], c, v)
        <5>1. RemoteRename(target, q)
          BY <2>4, <4>2 DEF Upload
        <5>2. v \in Marks /\ v # "none" /\ there[target] \in Shared
          BY <1>0, <2>4, LocalType DEF TypeOK, RemotesOK, Upload
        <5>3. there[target].obj \in [Contents -> Marks]
          BY <5>2 DEF Shared, Marks
        <5> HIDE DEF v
        <5>4. q \in Shared /\ q.obj = [there[target].obj EXCEPT ![c] = v]
          BY <5>2, PutObjectShared
        <5>5. q.obj[c] # "none"
          <6> HIDE DEF q
          <6> QED  BY <5>2, <5>3, <5>4
        <5> HIDE DEF q
        <5> QED  BY <1>0, <5>1, <5>4, <5>5, RemoteRenameType
      <4> QED  BY <4>1, <4>2
    <3> QED  BY <1>0, <3>1, <3>2, <3>3, TreeType DEF Grows
  <2>5. CASE UploadSync
    <3>1. pc = "uploadSync" /\ there' = there /\ snap' = snap /\ todo' = todo /\ target' = target
      BY <2>5 DEF UploadSync, RemoteSync
    <3> QED  BY <3>1 DEF RemoteInv
  <2> QED  BY <1>2, <2>1, <2>2, <2>3, <2>4, <2>5, Moves DEF Stop, PushBegin, PushScan, PushBarrier, PushCache,
              PushFinish, PushFinished, RecordBarrier, write_clone_root, Reconcile,
              PullBegin, PullFetched, PullApply, PullRecord
<1>3. ASSUME pc' = "finishSync"
      PROVE  Has(there'[target'], snap')
  <2>1. CASE Quiet
    <3>1. pc = "finishSync" /\ snap' = snap /\ target' = target /\ Grows(there[target], there'[target])
      BY <1>0, <1>3, <2>1 DEF Quiet, command
    <3> QED  BY <1>0, <3>1, HasGrows DEF RemoteInv
  <2>2. CASE PushFinish
    <3>1. Has(there[target], snap) /\ snap' = snap /\ target' = target
      BY <2>2 DEF PushFinish, Uploaded, RemoteInv, Has
    <3>2. Grows(there[target], there'[target])
      <4>1. ~RemotePowerLoss(target)
        BY <1>3 DEF RemotePowerLoss, Stop
      <4> QED  BY <1>0, <4>1, RemoteKept
    <3> QED  BY <1>0, <3>1, <3>2, HasGrows
  <2> QED  BY <1>3, <2>1, <2>2, Moves DEF Stop, PushBegin, PushScan, PushBarrier, PushCache, PushCheck, Upload,
              UploadSync, PushFinished, RecordBarrier, write_clone_root, Reconcile,
              push_to_backup, PullBegin, PullFetched, PullApply, PullRecord
<1>4. ASSUME pc' \in {"fetch", "apply", "record", "recordRoot"}
      PROVE  Has(there'["origin"], snap')
  <2>1. CASE Quiet
    <3>1. pc \in {"fetch", "apply", "record", "recordRoot"} /\ snap' = snap
          /\ Grows(there["origin"], there'["origin"])
      BY <1>0, <1>4, <2>1 DEF Quiet, command
    <3> QED  BY <1>0, <3>1, HasGrows DEF RemoteInv
  <2>2. CASE PullBegin
    BY <1>0, <1>m, <2>2 DEF PullBegin, remotes
  <2>3. CASE PushFinished /\ target = "origin"
    BY <2>3 DEF PushFinished, RemoteSync, RemoteInv
  <2>4. CASE RecordBarrier \/ PullFetched \/ PullRecord \/ \E p \in Paths : PullApply(p)
    BY <2>4 DEF RecordBarrier, PullFetched, PullRecord, PullApply, RemoteInv, remotes
  <2> QED  BY <1>4, <2>1, <2>2, <2>3, <2>4, Moves DEF Stop, PushBegin, PushScan, PushBarrier, PushCache, PushCheck,
              Upload, UploadSync, PushFinish, write_clone_root, Reconcile, push_to_backup
<1>5. ASSUME pc' = "reconcile"
      PROVE  snap' = here'.root
  <2>1. here' \in hereMay' /\ here \in hereMay /\ ~PowerLoss /\ Kept(here, here')
    BY <1>5, CloneKept, CloneTypeStep DEF CloneOK, TypeOK, PowerLoss, Stop
  <2>2. CASE Quiet
    BY <1>5, <2>1, <2>2 DEF Quiet, command, RemoteInv, Kept, Recording
  <2>3. CASE write_clone_root
    BY <1>5, <2>1, <2>3 DEF write_clone_root, Kept, Recording
  <2>4. CASE \E p \in Paths : Reconcile(p)
    BY <2>1, <2>4 DEF Reconcile, RemoteInv, Kept, Recording
  <2> QED  BY <1>5, <2>2, <2>3, <2>4, Moves DEF Stop, PushBegin, PushScan, PushBarrier, PushCache, PushCheck,
              Upload, UploadSync, PushFinish, PushFinished, RecordBarrier,
              push_to_backup, PullBegin, PullFetched, PullApply, PullRecord
<1>6. ASSUME pc' \notin {"upload", "uploadSync", "finishSync"}
      PROVE  target' = "origin"
  <2>1. CASE Quiet
    BY <1>6, <2>1 DEF Quiet, command, RemoteInv
  <2> QED  BY <1>6, <2>1, Moves DEF RemoteInv, Stop, PushBegin, PushScan, PushBarrier, PushCache, PushCheck,
              Upload, UploadSync, PushFinish, PushFinished, RecordBarrier, write_clone_root, Reconcile,
              push_to_backup, PullBegin, PullFetched, PullApply, PullRecord
<1> QED  BY <1>1, <1>2, <1>3, <1>4, <1>5, <1>6 DEF RemoteInv

-----------------------------------------------------------------------------
(* What clone_root refers to, at origin.                                   *)

Fault == Kill \/ PowerLoss \/ \E r \in Remotes : RemotePowerLoss(r)

\* Faults counts the faults.
LEMMA FaultStep ==
    ASSUME TypeOK, Next
    PROVE  /\ Faults \in Nat
           /\ Faults' = IF Fault THEN Faults + 1 ELSE Faults
<1>0. count \in Counts /\ count.kills \in Nat /\ count.losses \in Nat
  BY CountStep DEF TypeOK, Counts
<1>1. CASE Kill
  BY <1>0, <1>1 DEF Faults, Fault, Kill, Counts
<1>2. CASE PowerLoss \/ \E r \in Remotes : RemotePowerLoss(r)
  <2>1. count' = [count EXCEPT !.losses = @ + 1]
    BY <1>2 DEF PowerLoss, RemotePowerLoss
  <2> QED  BY <1>0, <1>2, <2>1 DEF Faults, Fault, Counts
<1>3. CASE \E p \in Paths, c \in Maybe : Edit(p, c) \/ Elsewhere(p, c)
  <2>1. count' = [count EXCEPT !.edits = @ + 1]
    BY <1>3 DEF Edit, Elsewhere
  <2>2. count'.kills = count.kills /\ count'.losses = count.losses
    BY <1>0, <2>1 DEF Counts
  <2> QED  BY <1>0, <1>1, <1>2, <2>2 DEF Faults, Fault
<1>4. CASE UNCHANGED count
  BY <1>0, <1>1, <1>2, <1>4 DEF Faults, Fault
<1>5. CASE \E p \in Paths :
             \/ PushScan(p) \/ Reconcile(p) \/ PullFetch(p) \/ PullApply(p)
             \/ Stub(p) \/ StubRemove(p) \/ Expand(p) \/ ExpandRemove(p)
  BY <1>4, <1>5 DEF PushScan, Reconcile, PullFetch, PullApply, Stub, StubRemove, Expand, ExpandRemove
<1>6. CASE \/ PushBegin \/ PushBarrier \/ PushCache \/ PushCheck \/ PushNothing
           \/ UploadSync \/ PushFinish \/ PushCasFailed \/ PushFinished
           \/ RecordBarrier \/ write_clone_root \/ push_to_backup \/ CommandEnd
           \/ PullBegin \/ PullFetched \/ PullAbort \/ PullRecord
           \/ \E c \in Contents : Upload(c) \/ UploadMissing(c)
  BY <1>4, <1>6 DEF PushBegin, PushBarrier, PushCache, PushCheck, PushNothing, UploadSync, PushFinish,
     PushCasFailed, PushFinished, RecordBarrier, write_clone_root, push_to_backup, CommandEnd,
     PullBegin, PullFetched, PullAbort, PullRecord, Upload, UploadMissing
<1> QED  BY <1>1, <1>2, <1>3, <1>5, <1>6 DEF Next

\* How origin changes: it is synced or lost or published to by others, an
\* object or INDEX_ROOT is renamed there, or nothing happens to it.
SyncsOrigin == target = "origin" /\ (UploadSync \/ PushFinished)

\* Who changes origin, and when the change is durable.
LEMMA OriginWrites ==
    ASSUME TypeOK, Next
    PROVE  \/ thereMay'["origin"] = {there'["origin"]}
           \/ PushFinish /\ target = "origin" /\ there'["origin"].index = snap
           \/ /\ pc = "upload" /\ pc' = "uploadSync" /\ target = "origin" /\ target' = "origin"
              /\ there'["origin"].index = there["origin"].index
           \/ /\ there'["origin"] = there["origin"] /\ thereMay'["origin"] = thereMay["origin"]
              /\ ~SyncsOrigin
<1> DEFINE Goal == \/ thereMay'["origin"] = {there'["origin"]}
                   \/ PushFinish /\ target = "origin" /\ there'["origin"].index = snap
                   \/ /\ pc = "upload" /\ pc' = "uploadSync" /\ target = "origin" /\ target' = "origin"
                      /\ there'["origin"].index = there["origin"].index
                   \/ /\ there'["origin"] = there["origin"] /\ thereMay'["origin"] = thereMay["origin"]
                      /\ ~SyncsOrigin
<1>0. RemotesOK /\ target \in Remotes /\ "origin" \in Remotes /\ snap \in Trees
  BY DEF TypeOK, RemotesOK, Remotes
<1>1. CASE UploadSync \/ PushFinished
  <2>1. RemoteSync(target)
    BY <1>1 DEF UploadSync, PushFinished
  <2>2. CASE target = "origin"
    BY <1>0, <2>1, <2>2, RemoteSyncType
  <2>3. CASE target # "origin"
    BY <1>0, <2>1, <2>3, RemoteSyncType DEF SyncsOrigin
  <2> QED  BY <2>2, <2>3
<1>u. CASE UNCHANGED remotes
  BY <1>1, <1>u DEF remotes, SyncsOrigin
<1>2. ASSUME NEW r \in Remotes, RemotePowerLoss(r)
      PROVE  Goal
  <2>1. CASE r = "origin"
    BY <1>0, <1>2, <2>1 DEF RemotePowerLoss, RemotesOK
  <2>2. CASE r # "origin"
    BY <1>0, <1>1, <1>2, <2>2 DEF RemotePowerLoss, RemotesOK, SyncsOrigin
  <2> QED  BY <2>1, <2>2
<1>3. ASSUME NEW p \in Paths, NEW c \in Maybe, Elsewhere(p, c)
      PROVE  Goal
  BY <1>0, <1>3, ElsewhereEffect DEF RemotesOK
<1>4. ASSUME NEW c \in Contents, Upload(c)
      PROVE  Goal
  <2>1. CASE there[target].obj[c] # "none"
    BY <1>4, <1>u, <2>1 DEF Upload
  <2>2. CASE there[target].obj[c] = "none"
    <3> DEFINE v == here.obj[c]
               q == PutObject(there[target], c, v)
    <3>1. v \in Marks /\ there[target] \in Shared
      BY <1>0, LocalType DEF TypeOK, RemotesOK
    <3>2. RemoteRename(target, q) /\ pc = "upload" /\ pc' = "uploadSync" /\ target' = target
      BY <1>4, <2>2 DEF Upload
    <3> HIDE DEF v
    <3>3. q \in Shared /\ q.index = there[target].index
      BY <3>1, PutObjectShared
    <3> HIDE DEF q
    <3>4. CASE target = "origin"
      BY <1>0, <3>2, <3>3, <3>4, RemoteRenameType
    <3>5. CASE target # "origin"
      BY <1>0, <3>2, <3>3, <3>5, RemoteRenameType DEF SyncsOrigin
    <3> QED  BY <3>4, <3>5
  <2> QED  BY <2>1, <2>2
<1>5. CASE PushFinish
  <2> DEFINE q == [there[target] EXCEPT !.index = snap, !.listed = @ \cup Objects(snap)]
  <2>1. q \in Shared /\ q.index = snap
    BY <1>0, PublishShared DEF RemotesOK
  <2>2. RemoteRename(target, q)
    BY <1>5 DEF PushFinish
  <2> HIDE DEF q
  <2>3. CASE target = "origin"
    BY <1>0, <1>5, <2>1, <2>2, <2>3, RemoteRenameType
  <2>4. CASE target # "origin"
    BY <1>0, <2>1, <2>2, <2>4, RemoteRenameType DEF SyncsOrigin
  <2> QED  BY <2>3, <2>4
<1>6. CASE \/ \E p \in Paths, c \in Maybe : Edit(p, c)
           \/ \E p \in Paths :
                \/ PushScan(p) \/ Reconcile(p) \/ PullFetch(p) \/ PullApply(p)
                \/ Stub(p) \/ StubRemove(p) \/ Expand(p) \/ ExpandRemove(p)
  BY <1>u, <1>6 DEF Edit, PushScan, Reconcile, PullFetch, PullApply, Stub, StubRemove, Expand, ExpandRemove
<1>7. CASE \/ Kill \/ PowerLoss \/ PushBegin \/ PushBarrier \/ PushCache \/ PushCheck \/ PushNothing
           \/ PushCasFailed \/ RecordBarrier \/ write_clone_root \/ push_to_backup \/ CommandEnd
           \/ PullBegin \/ PullFetched \/ PullAbort \/ PullRecord
           \/ \E c \in Contents : UploadMissing(c)
  BY <1>u, <1>7 DEF Kill, PowerLoss, PushBegin, PushBarrier, PushCache, PushCheck, PushNothing,
     PushCasFailed, RecordBarrier, write_clone_root, push_to_backup, CommandEnd,
     PullBegin, PullFetched, PullAbort, PullRecord, UploadMissing
<1> QED  BY <1>1, <1>2, <1>3, <1>4, <1>5, <1>6, <1>7 DEF Next

\* Only a sync or a fault ends the wait for one.
Waiting == pc \in {"uploadSync", "finishSync"} /\ target = "origin"

\* A command that waits for origin's fsync goes on only after it.
LEMMA WaitEnds ==
    ASSUME TypeOK, Next, Waiting, ~SyncsOrigin, ~Fault
    PROVE  pc' = pc /\ target' = target
<1>1. ~(UploadSync \/ PushFinished)
  BY DEF SyncsOrigin, Waiting
<1>2. ~(Kill \/ PowerLoss \/ \E r \in Remotes : RemotePowerLoss(r))
  BY DEF Fault
<1>3. CASE \E p \in Paths, c \in Maybe : Edit(p, c) \/ Elsewhere(p, c)
  BY <1>3 DEF Edit, Elsewhere, command
<1>4. ~\E p \in Paths :
         \/ PushScan(p) \/ Reconcile(p) \/ PullFetch(p) \/ PullApply(p)
         \/ Stub(p) \/ StubRemove(p) \/ Expand(p) \/ ExpandRemove(p)
  BY DEF Waiting, PushScan, Reconcile, PullFetch, PullApply, Stub, StubRemove, Expand, ExpandRemove
<1>5. ~(\/ PushBegin \/ PushBarrier \/ PushCache \/ PushCheck \/ PushNothing
        \/ PushFinish \/ PushCasFailed
        \/ RecordBarrier \/ write_clone_root \/ push_to_backup \/ CommandEnd
        \/ PullBegin \/ PullFetched \/ PullAbort \/ PullRecord
        \/ \E c \in Contents : Upload(c) \/ UploadMissing(c))
  BY DEF Waiting, PushBegin, PushBarrier, PushCache, PushCheck, PushNothing, PushFinish, PushCasFailed,
     RecordBarrier, write_clone_root, push_to_backup, CommandEnd,
     PullBegin, PullFetched, PullAbort, PullRecord, Upload, UploadMissing
<1> QED  BY <1>1, <1>2, <1>3, <1>4, <1>5 DEF Next

\* Every state that the clone's disk may be left in has one clone_root.
LEMMA RootMoves ==
    ASSUME TypeOK, RemoteInv, WholeInv, RootInv, Next
    PROVE  here'.root = IF Recording THEN snap ELSE here.root
  BY CloneKept, CloneTypeStep DEF CloneOK, RootInv, Kept

\* What clone_root refers to stays at origin, through up to two faults.
LEMMA OriginStep ==
    ASSUME TypeOK, RemoteInv, WholeInv, RootInv, OriginInv, Next
    PROVE  OriginInv'
<1>0. RemotesOK /\ target \in Remotes /\ "origin" \in Remotes /\ snap \in Trees /\ here.root \in Trees
  BY LocalType DEF TypeOK, RemotesOK, Remotes
<1>f. Faults \in Nat /\ Faults' = IF Fault THEN Faults + 1 ELSE Faults
  BY FaultStep
<1>f1. Faults' <= 1 => Faults <= 1
  BY <1>f
<1>f2. Faults' <= 2 => Faults <= 2 /\ (Fault => Faults <= 1)
  BY <1>f
<1>f3. /\ Faults' = 0 => Faults = 0 /\ ~Fault
       /\ Faults' = 1 => Faults = 0 \/ (Faults = 1 /\ ~Fault)
       /\ Faults = 0 \/ Faults = 1 => Faults <= 1
       /\ Faults' = 0 \/ Faults' = 1 <=> Faults' <= 1
  BY <1>f
<1>g. \A t \in thereMay'["origin"] : \E u \in thereMay["origin"] : Grows(u, t)
  BY <1>0, RemoteKept
<1>s. there["origin"] \in Shared /\ there["origin"] \in thereMay["origin"] /\ there["origin"].index \in Trees
  BY <1>0 DEF RemotesOK, Shared
<1>w. \A t \in Trees : (\A u \in thereMay["origin"] : Has(u, t)) => \A u \in thereMay'["origin"] : Has(u, t)
  BY <1>g, HasGrows
<1>m. Has(there'["origin"], there'["origin"].index)
  BY <1>0, BackedStep, RemoteTypeStep DEF RemotesOK, Backed, Has
<1>1. ASSUME Faults' <= 1
      PROVE  \A t \in thereMay'["origin"] : Has(t, here'.root)
  <2>1. CASE Recording
    <3>1. \A u \in thereMay["origin"] : Has(u, snap)
      BY <1>1, <1>f1, <2>1 DEF OriginInv, Recording
    <3> QED  BY <1>0, <1>w, <2>1, <3>1, RootMoves
  <2>2. CASE ~Recording
    <3>1. \A u \in thereMay["origin"] : Has(u, here.root)
      BY <1>1, <1>f1 DEF OriginInv
    <3> QED  BY <1>0, <1>w, <2>2, <3>1, RootMoves
  <2> QED  BY <2>1, <2>2
<1>2. ASSUME Faults' <= 2
      PROVE  Has(there'["origin"], here'.root)
  <2>1. CASE RemotePowerLoss("origin")
    <3>1. Fault /\ ~Recording /\ there'["origin"] \in thereMay["origin"]
      BY <1>0, <2>1 DEF RemotePowerLoss, Fault, Recording, Stop, RemotesOK
    <3> QED  BY <1>2, <1>f2, <3>1, RootMoves DEF OriginInv
  <2>2. CASE Grows(there["origin"], there'["origin"])
    <3>1. Has(there["origin"], here.root) /\ (Recording => Has(there["origin"], snap))
      BY <1>2, <1>f2 DEF OriginInv, RemoteInv, Recording
    <3> QED  BY <1>0, <2>2, <3>1, HasGrows, RootMoves
  <2> QED  BY <1>0, <2>1, <2>2, RemoteKept
<1>3. ASSUME Faults' = 0, ~(pc' = "uploadSync" /\ target' = "origin"), ~AtOrigin'
      PROVE  thereMay'["origin"] = {there'["origin"]}
  <2>1. Faults = 0 /\ ~Fault /\ ~Waiting'
    BY <1>3, <1>f3 DEF AtOrigin, Waiting
  <2>2. ~(PushFinish /\ target = "origin")
    BY <1>3 DEF PushFinish, AtOrigin
  <2>3. CASE there'["origin"] = there["origin"] /\ thereMay'["origin"] = thereMay["origin"] /\ ~SyncsOrigin
    <3>1. ~Waiting
      BY <2>1, <2>3, WaitEnds DEF Waiting
    <3> QED  BY <2>1, <2>3, <3>1 DEF OriginInv, Waiting, AtOrigin
  <2> QED  BY <1>3, <2>2, <2>3, OriginWrites
<1>4. ASSUME Faults' = 0, AtOrigin'
      PROVE  \A t \in thereMay'["origin"] : Has(t, snap')
  <2>1. Faults = 0
    BY <1>4, <1>f3
  <2>2. CASE Quiet
    <3>1. AtOrigin /\ snap' = snap
      BY <1>4, <2>2 DEF AtOrigin, Quiet, command
    <3>2. \A u \in thereMay["origin"] : Has(u, snap)
      BY <2>1, <3>1 DEF OriginInv
    <3> QED  BY <1>0, <1>w, <3>1, <3>2
  <2>3. CASE PushFinish
    <3>1. /\ target = "origin" /\ snap' = snap /\ pc = "upload"
          /\ Has(there["origin"], snap)
      BY <1>4, <2>3 DEF PushFinish, AtOrigin, Uploaded, RemoteInv, Has
    <3>2. thereMay["origin"] = {there["origin"]}
      BY <2>1, <3>1 DEF OriginInv, AtOrigin
    <3> QED  BY <1>0, <1>w, <3>1, <3>2
  <2> QED  BY <1>4, <2>2, <2>3, Moves DEF AtOrigin, Stop, PushBegin, PushScan, PushBarrier, PushCache, PushCheck,
              Upload, UploadSync, PushFinished, RecordBarrier, write_clone_root, Reconcile,
              push_to_backup, PullBegin, PullFetched, PullApply, PullRecord
<1>5. ASSUME Faults' = 0 \/ (Faults' = 1 /\ ~AtOrigin')
      PROVE  \A t \in thereMay'["origin"] : Has(t, there'["origin"].index)
  <2>1. CASE thereMay'["origin"] = {there'["origin"]}
    BY <1>m, <2>1
  <2>2. CASE PushFinish /\ target = "origin" /\ there'["origin"].index = snap
    <3>1. AtOrigin' /\ snap' = snap
      BY <2>2 DEF PushFinish, AtOrigin
    <3> QED  BY <1>4, <1>5, <2>2, <3>1
  <2>3. CASE Faults = 0 \/ (Faults = 1 /\ ~AtOrigin)
    <3>1. \A u \in thereMay["origin"] : Has(u, there["origin"].index)
      BY <2>3 DEF OriginInv
    <3>2. ASSUME there'["origin"].index = there["origin"].index
          PROVE  \A t \in thereMay'["origin"] : Has(t, there'["origin"].index)
      BY <1>s, <1>w, <3>1, <3>2
    <3> QED  BY <2>1, <2>2, <3>2, OriginWrites
  <2>4. CASE Faults = 1 /\ AtOrigin
    <3>1. ~Fault /\ ~AtOrigin' /\ Waiting
      BY <1>5, <1>f, <2>4 DEF AtOrigin, Waiting
    <3>2. SyncsOrigin
      BY <2>4, <3>1, WaitEnds DEF AtOrigin
    <3>3. PushFinished \/ UploadSync
      BY <3>2 DEF SyncsOrigin
    <3>4. ~PushFinish /\ pc # "upload"
      BY <2>4 DEF AtOrigin, PushFinish
    <3> QED  BY <2>1, <3>2, <3>4, OriginWrites
  <2> QED  BY <1>5, <1>f3, <2>3, <2>4
<1>6. ASSUME Faults' <= 1, pc' \in {"fetch", "apply", "record", "recordRoot"}
      PROVE  \A t \in thereMay'["origin"] : Has(t, snap')
  <2>0. Faults <= 1 /\ (Faults = 0 \/ Faults = 1)
    BY <1>6, <1>f, <1>f1
  <2>1. ASSUME snap' = snap, pc \in {"fetch", "apply", "record", "recordRoot"}
        PROVE  \A t \in thereMay'["origin"] : Has(t, snap')
    <3>1. \A u \in thereMay["origin"] : Has(u, snap)
      BY <2>0, <2>1 DEF OriginInv
    <3> QED  BY <1>0, <1>w, <2>1, <3>1
  <2>2. CASE Quiet
    BY <1>6, <2>1, <2>2 DEF Quiet, command
  <2>3. CASE PullBegin
    <3>1. ~AtOrigin /\ snap' = there["origin"].index /\ thereMay' = thereMay
      BY <2>3 DEF PullBegin, AtOrigin, remotes
    <3> QED  BY <2>0, <3>1 DEF OriginInv
  <2>4. CASE PushFinished /\ target = "origin"
    <3>1. RemoteSync("origin") /\ snap' = snap /\ Has(there["origin"], snap)
      BY <2>4 DEF PushFinished, RemoteInv
    <3>2. thereMay'["origin"] = {there["origin"]}
      BY <1>0, <3>1, RemoteSyncType
    <3> QED  BY <3>1, <3>2
  <2>5. CASE RecordBarrier \/ PullFetched \/ PullRecord \/ \E p \in Paths : PullApply(p)
    BY <2>1, <2>5 DEF RecordBarrier, PullFetched, PullRecord, PullApply
  <2> QED  BY <1>6, <2>2, <2>3, <2>4, <2>5, Moves DEF Stop, PushBegin, PushScan, PushBarrier, PushCache, PushCheck,
              Upload, UploadSync, PushFinish, write_clone_root, Reconcile, push_to_backup
<1> QED  BY <1>1, <1>2, <1>3, <1>4, <1>5, <1>6 DEF OriginInv

-----------------------------------------------------------------------------
(* The working tree stays in step with clone_root.                         *)

\* From u to s only what concerns path q changes, of the tree and clone_root.
Touches(u, s, q) ==
    /\ s.root = u.root
    /\ \A p \in Paths \ {q} : s.file[p] = u.file[p] /\ s.stub[p] = u.stub[p]
Same(u, s) == s.root = u.root /\ s.file = u.file /\ s.stub = u.stub

\* A step at path q keeps StepInv if q is excepted or in step afterwards.
LEMMA TouchStep ==
    ASSUME StepInv, NEW q \in Paths, Touches(here, here', q),
           \A s \in hereMay' : \E u \in hereMay : Touches(u, s, q),
           \A p \in Paths \ {q} : p \in Excepted => p \in Excepted',
           q \in Excepted' \/ \A s \in hereMay' : ContentIn(s, q) = s.root[q],
           here'.stub[q] # Absent => \A s \in hereMay' : s.stub[q] = here'.stub[q]
    PROVE  StepInv'
<1>1. ASSUME NEW s \in hereMay', NEW p \in Paths \ Excepted'
      PROVE  ContentIn(s, p) = s.root[p]
  <2>1. CASE p = q
    BY <2>1
  <2>2. CASE p # q
    <3>1. PICK u \in hereMay : Touches(u, s, q)
      OBVIOUS
    <3>2. ContentIn(u, p) = u.root[p]
      BY <2>2 DEF StepInv
    <3> QED  BY <2>2, <3>1, <3>2 DEF Touches, ContentIn
  <2> QED  BY <2>1, <2>2
<1>2. ASSUME NEW s \in hereMay', NEW p \in Paths, here'.stub[p] # Absent
      PROVE  s.stub[p] = here'.stub[p]
  <2>1. CASE p = q
    BY <1>2, <2>1
  <2>2. CASE p # q
    <3>1. PICK u \in hereMay : Touches(u, s, q)
      OBVIOUS
    <3> QED  BY <1>2, <2>2, <3>1 DEF Touches, StepInv
  <2> QED  BY <2>1, <2>2
<1> QED  BY <1>1, <1>2 DEF StepInv

\* A step that writes only objects or STAT_CACHE keeps it.
LEMMA SameStep ==
    ASSUME StepInv, Same(here, here'), \A s \in hereMay' : \E u \in hereMay : Same(u, s),
           Excepted \subseteq Excepted'
    PROVE  StepInv'
<1>1. ASSUME NEW s \in hereMay', NEW p \in Paths \ Excepted'
      PROVE  ContentIn(s, p) = s.root[p]
  <2>1. PICK u \in hereMay : Same(u, s)
    OBVIOUS
  <2>2. ContentIn(u, p) = u.root[p]
    BY DEF StepInv
  <2> QED  BY <2>1, <2>2 DEF Same, ContentIn
<1>2. ASSUME NEW s \in hereMay', NEW p \in Paths, here'.stub[p] # Absent
      PROVE  s.stub[p] = here'.stub[p]
  <2>1. PICK u \in hereMay : Same(u, s)
    OBVIOUS
  <2> QED  BY <1>2, <2>1 DEF Same, StepInv
<1> QED  BY <1>1, <1>2 DEF StepInv

\* What a file or a stub that is written touches.
LEMMA PutTouches ==
    ASSUME NEW s \in Locals, NEW p \in Paths
    PROVE  /\ Touches(s, s, p)
           /\ \A c \in Found : /\ Touches(s, PutFile(s, p, c), p)
                               /\ PutFile(s, p, c).file[p] = c /\ PutFile(s, p, c).stub = s.stub
                               /\ PutFile(s, p, c).root = s.root
           /\ \A c \in Maybe : /\ Touches(s, PutStub(s, p, c), p)
                               /\ PutStub(s, p, c).stub[p] = c /\ PutStub(s, p, c).file = s.file
                               /\ PutStub(s, p, c).root = s.root
<1>0. s.file \in [Paths -> Found] /\ s.stub \in [Paths -> Maybe]
  BY LocalType DEF Trees
<1>1. Touches(s, s, p)
  BY DEF Touches
<1>2. ASSUME NEW c \in Found
      PROVE  /\ Touches(s, PutFile(s, p, c), p)
             /\ PutFile(s, p, c).file[p] = c /\ PutFile(s, p, c).stub = s.stub
             /\ PutFile(s, p, c).root = s.root
  <2> DEFINE q == PutFile(s, p, c)
  <2>1. q.file = [s.file EXCEPT ![p] = c] /\ q.root = s.root /\ q.stub = s.stub
    BY PutFileLocal
  <2> HIDE DEF q
  <2>2. Touches(s, q, p) /\ q.file[p] = c /\ q.stub = s.stub /\ q.root = s.root
    BY <1>0, <2>1 DEF Touches
  <2> QED  BY <2>2 DEF q
<1>3. ASSUME NEW c \in Maybe
      PROVE  /\ Touches(s, PutStub(s, p, c), p)
             /\ PutStub(s, p, c).stub[p] = c /\ PutStub(s, p, c).file = s.file
             /\ PutStub(s, p, c).root = s.root
  <2> DEFINE q == PutStub(s, p, c)
  <2>1. q.stub = [s.stub EXCEPT ![p] = c] /\ q.root = s.root /\ q.file = s.file
    BY PutStubLocal
  <2> HIDE DEF q
  <2>2. Touches(s, q, p) /\ q.stub[p] = c /\ q.file = s.file /\ q.root = s.root
    BY <1>0, <2>1 DEF Touches
  <2> QED  BY <2>2 DEF q
<1> QED  BY <1>1, <1>2, <1>3

\* A rename of a file at a path that is excepted from then on.
LEMMA FileStep ==
    ASSUME TypeOK, StepInv, NEW p \in Paths, NEW c \in Found, NEW d \in Found,
           Rename([s \in hereMay |-> PutFile(s, p, c)], [s \in hereMay |-> PutFile(s, p, d)]),
           Excepted \subseteq Excepted', p \in Excepted'
    PROVE  StepInv'
<1>0. here \in hereMay /\ hereMay \subseteq Locals
  BY DEF TypeOK
<1>1. /\ here' = PutFile(here, p, c)
      /\ \A s \in hereMay' : \E u \in hereMay : s = u \/ s = PutFile(u, p, c) \/ s = PutFile(u, p, d)
  BY <1>0, RenameEffect
<1>2. \A u \in hereMay : /\ Touches(u, u, p) /\ Touches(u, PutFile(u, p, c), p) /\ Touches(u, PutFile(u, p, d), p)
                         /\ PutFile(u, p, c).stub = u.stub /\ PutFile(u, p, d).stub = u.stub
  BY <1>0, PutTouches
<1>3. \A s \in hereMay' : \E u \in hereMay : Touches(u, s, p) /\ s.stub = u.stub
  BY <1>1, <1>2
<1>4. here'.stub[p] # Absent => \A s \in hereMay' : s.stub[p] = here'.stub[p]
  BY <1>0, <1>1, <1>2, <1>3 DEF StepInv
<1>5. Touches(here, here', p)
  BY <1>0, <1>1, <1>2
<1> QED  BY <1>3, <1>4, <1>5, TouchStep

\* A stub is removed without a sync, at a path that is excepted from then on.
LEMMA UnstubStep ==
    ASSUME TypeOK, StepInv, NEW p \in Paths,
           Rename([s \in hereMay |-> PutStub(s, p, Absent)], [s \in hereMay |-> PutStub(s, p, Absent)]),
           Excepted \subseteq Excepted', p \in Excepted'
    PROVE  StepInv'
<1>0. here \in hereMay /\ hereMay \subseteq Locals /\ Absent \in Maybe
  BY DEF TypeOK, Maybe
<1>1. /\ here' = PutStub(here, p, Absent)
      /\ \A s \in hereMay' : \E u \in hereMay : s = u \/ s = PutStub(u, p, Absent)
  BY <1>0, RenameEffect
<1>2. \A u \in hereMay : /\ Touches(u, u, p) /\ Touches(u, PutStub(u, p, Absent), p)
                         /\ PutStub(u, p, Absent).stub[p] = Absent
  BY <1>0, PutTouches
<1>3. \A s \in hereMay' : \E u \in hereMay : Touches(u, s, p)
  BY <1>1, <1>2
<1>4. here'.stub[p] = Absent /\ Touches(here, here', p)
  BY <1>0, <1>1, <1>2
<1> QED  BY <1>3, <1>4, TouchStep

\* A stub is written durably, at a path that is excepted from then on or where
\* every state has no file, or the content of clone_root.
LEMMA StubStep ==
    ASSUME TypeOK, StepInv, NEW p \in Paths, NEW c \in Maybe,
           Durable([s \in hereMay |-> PutStub(s, p, c)]),
           \A q \in Paths \ {p} : q \in Excepted => q \in Excepted',
           p \in Excepted' \/ \A u \in hereMay : u.root[p] = c /\ u.file[p] \in {Absent, c}
    PROVE  StepInv'
<1>0. here \in hereMay /\ hereMay \subseteq Locals
  BY DEF TypeOK
<1>1. here' = PutStub(here, p, c) /\ \A s \in hereMay' : \E u \in hereMay : s = PutStub(u, p, c)
  BY <1>0, DurableEffect
<1>2. \A u \in hereMay : /\ Touches(u, PutStub(u, p, c), p)
                         /\ PutStub(u, p, c).stub[p] = c /\ PutStub(u, p, c).file = u.file
                         /\ PutStub(u, p, c).root = u.root
  BY <1>0, PutTouches
<1>3. \A s \in hereMay' : \E u \in hereMay : Touches(u, s, p) /\ s.file = u.file /\ s.root = u.root
  BY <1>1, <1>2
<1>4. \A s \in hereMay' : s.stub[p] = c
  BY <1>1, <1>2
<1>5. p \in Excepted' \/ \A s \in hereMay' : ContentIn(s, p) = s.root[p]
  BY <1>3, <1>4 DEF ContentIn
<1>6. here'.stub[p] = c /\ Touches(here, here', p)
  BY <1>0, <1>1, <1>2
<1> QED  BY <1>3, <1>4, <1>5, <1>6, TouchStep

\* The exceptions only grow, except when clone_root is written and the stubs
\* follow it.
LEMMA ExceptedGrows ==
    ASSUME Next, ~write_clone_root, ~\E p \in Paths : Reconcile(p)
    PROVE  Excepted \subseteq Excepted'
<1>1. CASE \E p \in Paths, c \in Maybe : Edit(p, c) \/ Elsewhere(p, c)
  BY <1>1 DEF Excepted, Edit, Elsewhere
<1>2. CASE \E p \in Paths : \/ PushScan(p) \/ PullFetch(p) \/ PullApply(p)
                            \/ Stub(p) \/ StubRemove(p) \/ Expand(p) \/ ExpandRemove(p)
  BY <1>2 DEF Excepted, PushScan, PullFetch, PullApply, Stub, StubRemove, Expand, ExpandRemove
<1>3. CASE Kill \/ PowerLoss \/ \E r \in Remotes : RemotePowerLoss(r)
  BY <1>3 DEF Excepted, Kill, PowerLoss, RemotePowerLoss
<1>4. CASE \/ PushBegin \/ PushBarrier \/ PushCache \/ PushCheck \/ PushNothing
           \/ UploadSync \/ PushFinish \/ PushCasFailed \/ PushFinished
           \/ RecordBarrier \/ push_to_backup \/ CommandEnd
           \/ PullBegin \/ PullFetched \/ PullAbort \/ PullRecord
           \/ \E c \in Contents : Upload(c) \/ UploadMissing(c)
  BY <1>4 DEF Excepted, PushBegin, PushBarrier, PushCache, PushCheck, PushNothing, UploadSync, PushFinish,
     PushCasFailed, PushFinished, RecordBarrier, push_to_backup, CommandEnd,
     PullBegin, PullFetched, PullAbort, PullRecord, Upload, UploadMissing
<1> QED  BY <1>1, <1>2, <1>3, <1>4 DEF Next

\* Outside the exceptions the tree is in step with clone_root in every state.
LEMMA StepStep ==
    ASSUME TypeOK, RemoteInv, RootInv, StepInv, WorkInv, Next
    PROVE  StepInv'
<1>0. here \in Locals /\ hereMay \subseteq Locals /\ here \in hereMay
  BY DEF TypeOK
<1>t. snap \in Trees /\ Absent \in Maybe /\ Absent \in Found /\ Broken \in Found
      /\ \A p \in Paths : /\ snap[p] \in Maybe /\ here.root[p] \in Maybe /\ here.stub[p] \in Maybe
                          /\ snap[p] \in Found /\ here.stub[p] \in Found
  BY <1>0, TreeType, LocalType DEF TypeOK, Maybe, Found
<1>k. \A u : Same(u, u)
  BY DEF Same
<1>1. CASE /\ here' = here /\ hereMay' \in {hereMay, {here}}
           /\ Excepted \subseteq Excepted'
  BY <1>0, <1>1, <1>k, SameStep
<1>2. CASE PowerLoss
  <2>1. PICK s \in hereMay : here' = s /\ hereMay' = {s}
    BY <1>2 DEF PowerLoss
  <2>2. Excepted' = Excepted
    BY <1>2 DEF PowerLoss, Excepted
  <2> QED  BY <2>1, <2>2 DEF StepInv
<1>3. ASSUME NEW p \in Paths, NEW c \in Maybe, Edit(p, c)
      PROVE  StepInv'
  <2> DEFINE d == IF c = Absent THEN c ELSE Broken
  <2>1. c \in Found /\ d \in Found
    BY DEF Found
  <2>2. Rename([s \in hereMay |-> PutFile(s, p, c)], [s \in hereMay |-> PutFile(s, p, d)])
    BY <1>3 DEF Edit
  <2>3. Excepted \subseteq Excepted' /\ p \in Excepted'
    BY <1>3 DEF Edit, Excepted
  <2> HIDE DEF d
  <2> QED  BY <2>1, <2>2, <2>3, FileStep
<1>o. ASSUME NEW c \in Contents, NEW v \in Marks, Excepted \subseteq Excepted',
             Rename([s \in hereMay |-> PutObject(s, c, v)], [s \in hereMay |-> PutObject(s, c, "torn")])
      PROVE  StepInv'
  <2>1. \A u \in hereMay : Same(u, PutObject(u, c, v)) /\ Same(u, PutObject(u, c, "torn"))
    <3>1. "torn" \in Marks
      BY DEF Marks
    <3>2. ASSUME NEW u \in hereMay, NEW w \in Marks
          PROVE  Same(u, PutObject(u, c, w))
      BY <1>0, PutObjectLocal DEF Same
    <3> QED  BY <3>1, <3>2
  <2>2. /\ here' = PutObject(here, c, v)
        /\ \A s \in hereMay' : \E u \in hereMay : s = u \/ s = PutObject(u, c, v) \/ s = PutObject(u, c, "torn")
    BY <1>0, <1>o, RenameEffect
  <2>3. Same(here, here') /\ \A s \in hereMay' : \E u \in hereMay : Same(u, s)
    BY <1>0, <1>k, <2>1, <2>2
  <2> QED  BY <1>o, <2>3, SameStep
<1>4. ASSUME NEW p \in Paths, PushScan(p)
      PROVE  StepInv'
  <2> DEFINE c == here.file[p]
  <2>0. Excepted' = Excepted
    BY <1>4 DEF PushScan, Excepted
  <2>1. CASE c = Absent \/ entries[p] = c \/ here.obj[c] # "none"
    BY <1>1, <1>4, <2>0, <2>1 DEF PushScan, clone
  <2>2. CASE ~(c = Absent \/ entries[p] = c \/ here.obj[c] # "none")
    <3>1. c \in Contents
      BY <1>0, <1>4, <2>2, LocalType DEF PushScan, Content, ContentIn, Found, Maybe
    <3>2. "intact" \in Marks
      BY DEF Marks
    <3> QED  BY <1>4, <1>o, <2>0, <2>2, <3>1, <3>2 DEF PushScan
  <2> QED  BY <2>1, <2>2
<1>5. ASSUME NEW p \in Paths, PullFetch(p)
      PROVE  StepInv'
  <2>1. snap[p] \in Contents /\ there["origin"].obj[snap[p]] \in Marks
    BY <1>t, <1>5 DEF PullFetch, TypeOK, Shared, Maybe, Marks, Remotes
  <2>2. Excepted' = Excepted
    BY <1>5 DEF PullFetch, Excepted
  <2> QED  BY <1>5, <1>o, <2>1, <2>2 DEF PullFetch
<1>6. CASE PushCache
  <2>1. \A u \in hereMay : Same(u, PutSeals(u, entries)) /\ Same(u, PutSeals(u, NoTree))
    BY <1>0, TreeType, PutSealsLocal DEF Same, TypeOK
  <2>2. /\ here' = PutSeals(here, entries)
        /\ \A s \in hereMay' : \E u \in hereMay : s = u \/ s = PutSeals(u, entries) \/ s = PutSeals(u, NoTree)
    BY <1>0, <1>6, RenameEffect DEF PushCache
  <2>3. Same(here, here') /\ \A s \in hereMay' : \E u \in hereMay : Same(u, s)
    BY <1>0, <1>k, <2>1, <2>2
  <2>4. Excepted' = Excepted
    BY <1>6 DEF PushCache, Excepted
  <2> QED  BY <2>3, <2>4, SameStep
<1>7. ASSUME NEW c \in Contents, UploadMissing(c)
      PROVE  StepInv'
  <2>1. Same(here, PutSeals(here, NoTree))
    BY <1>0, TreeType, PutSealsLocal DEF Same
  <2>2. Same(here, here') /\ \A s \in hereMay' : \E u \in hereMay : Same(u, s)
    BY <1>0, <1>7, <1>k, <2>1 DEF UploadMissing
  <2>3. Excepted' = Excepted
    BY <1>7 DEF UploadMissing, Excepted
  <2> QED  BY <2>2, <2>3, SameStep
<1>8. CASE write_clone_root
  <2>1. here' = PutRoot(here, snap) /\ \A s \in hereMay' : \E u \in hereMay : s = PutRoot(u, snap)
    BY <1>0, <1>8, DurableEffect DEF write_clone_root
  <2>2. \A u \in hereMay : /\ PutRoot(u, snap).root = snap
                           /\ PutRoot(u, snap).file = u.file /\ PutRoot(u, snap).stub = u.stub
    BY <1>0, <1>t, PutRootLocal
  <2>3. \A s \in hereMay' : \E u \in hereMay : s.root = snap /\ s.file = u.file /\ s.stub = u.stub
    BY <2>1, <2>2
  <2>4. here'.stub = here.stub
    BY <1>0, <2>1, <2>2
  <2>5. ASSUME NEW p \in Paths \ Excepted'
        PROVE  InStep(p)
    <3> SUFFICES ASSUME ~InStep(p) PROVE FALSE
      OBVIOUS
    <3>1. p \notin Excepted /\ ~Late(p)
      BY <1>8 DEF write_clone_root, Excepted
    <3>2. snap[p] = here.root[p]
      BY <1>8, <3>1 DEF write_clone_root, WorkInv
    <3> QED  BY <3>1, <3>2 DEF InStep, StepInv, RootInv
  <2>6. ASSUME NEW s \in hereMay', NEW p \in Paths \ Excepted'
        PROVE  ContentIn(s, p) = s.root[p]
    <3>1. PICK u \in hereMay : s.root = snap /\ s.file = u.file /\ s.stub = u.stub
      BY <2>3
    <3>2. ContentIn(u, p) = snap[p]
      BY <2>5 DEF InStep
    <3> QED  BY <3>1, <3>2 DEF ContentIn
  <2>7. ASSUME NEW s \in hereMay', NEW p \in Paths, here'.stub[p] # Absent
        PROVE  s.stub[p] = here'.stub[p]
    BY <2>3, <2>4, <2>7 DEF StepInv
  <2> QED  BY <2>6, <2>7 DEF StepInv
<1>9. ASSUME NEW p \in Paths, Reconcile(p)
      PROVE  StepInv'
  <2>0. snap = here.root
    BY <1>9 DEF Reconcile, RemoteInv
  <2>1. CASE snap[p] = Absent
    <3>1. Excepted \subseteq Excepted' /\ p \in Excepted'
      BY <1>9, <2>1 DEF Reconcile, Excepted
    <3> QED  BY <1>9, <2>1, <3>1, UnstubStep DEF Reconcile
  <2>2. CASE snap[p] # Absent
    <3>1. /\ edited' = edited /\ begun' = begun
          /\ owed' = {q \in owed : q = p => \E s \in hereMay : s.file[p] \notin {Absent, snap[p]}}
      BY <1>9, <2>2 DEF Reconcile
    <3>2. \A q \in Paths \ {p} : q \in Excepted => q \in Excepted'
      BY <3>1 DEF Excepted
    <3>3. ASSUME p \notin Excepted', NEW u \in hereMay
          PROVE  u.root[p] = snap[p] /\ u.file[p] \in {Absent, snap[p]}
      <4>1. u.root[p] = snap[p]
        BY <2>0 DEF RootInv
      <4>2. CASE p \in owed
        BY <3>1, <3>3, <4>1, <4>2 DEF Excepted
      <4>3. CASE p \notin owed
        <5>1. p \notin Excepted
          BY <3>1, <3>3, <4>3 DEF Excepted
        <5> QED  BY <4>1, <5>1 DEF StepInv, ContentIn
      <4> QED  BY <4>2, <4>3
    <3> QED  BY <1>9, <1>t, <2>2, <3>2, <3>3, StubStep DEF Reconcile
  <2> QED  BY <2>1, <2>2
<1>10. ASSUME NEW p \in Paths, PullApply(p)
       PROVE  StepInv'
  <2>1. CASE Late(p)
    BY <1>1, <1>10, <2>1 DEF PullApply, clone, Excepted
  <2>2. CASE ~Late(p)
    <3>0. Excepted \subseteq Excepted' /\ p \in Excepted'
      BY <1>10, <2>2 DEF PullApply, Excepted
    <3>1. CASE here.stub[p] # Absent /\ here.file[p] = Absent
      BY <1>10, <1>t, <2>2, <3>0, <3>1, StubStep DEF PullApply
    <3>2. CASE ~(here.stub[p] # Absent /\ here.file[p] = Absent)
      <4> DEFINE c == IF snap[p] # Absent /\ here.obj[snap[p]] = "torn" THEN Broken ELSE snap[p]
                 d == IF c = Absent THEN c ELSE Broken
      <4>1. c \in Found /\ d \in Found
        BY <1>t
      <4>2. Rename([s \in hereMay |-> PutFile(s, p, c)], [s \in hereMay |-> PutFile(s, p, d)])
        BY <1>10, <2>2, <3>2 DEF PullApply
      <4> HIDE DEF c, d
      <4> QED  BY <3>0, <4>1, <4>2, FileStep
    <3> QED  BY <3>1, <3>2
  <2> QED  BY <2>1, <2>2
<1>11. ASSUME NEW p \in Paths, Stub(p)
       PROVE  StepInv'
  <2>0. Excepted' = Excepted
    BY <1>11 DEF Stub, Excepted
  <2>1. ASSUME p \notin Excepted', NEW u \in hereMay
        PROVE  u.root[p] = here.root[p] /\ u.file[p] \in {Absent, here.root[p]}
    BY <2>0, <2>1 DEF StepInv, RootInv, ContentIn
  <2> QED  BY <1>11, <1>t, <2>0, <2>1, StubStep DEF Stub, StubWrite
<1>12. ASSUME NEW p \in Paths, StubRemove(p)
       PROVE  StepInv'
  <2>0. Excepted' = Excepted
    BY <1>12 DEF StubRemove, Excepted
  <2>1. /\ here' = PutFile(here, p, Absent)
        /\ \A s \in hereMay' : \E u \in hereMay : s = u \/ s = PutFile(u, p, Absent)
    BY <1>0, <1>12, RenameEffect DEF StubRemove
  <2>2. \A u \in hereMay : /\ Touches(u, u, p) /\ Touches(u, PutFile(u, p, Absent), p)
                           /\ PutFile(u, p, Absent).stub = u.stub /\ PutFile(u, p, Absent).file[p] = Absent
                           /\ PutFile(u, p, Absent).root = u.root
    BY <1>0, <1>t, PutTouches
  <2>3. \A s \in hereMay' : \E u \in hereMay :
          Touches(u, s, p) /\ s.stub = u.stub /\ s.root = u.root /\ (s = u \/ s.file[p] = Absent)
    BY <2>1, <2>2
  <2>4. here'.stub = here.stub /\ Touches(here, here', p)
    BY <1>0, <2>1, <2>2
  <2>5. \A u \in hereMay : u.stub[p] = u.root[p]
    BY <1>12 DEF StubRemove, StepInv, RootInv
  <2>6. p \in Excepted' \/ \A s \in hereMay' : ContentIn(s, p) = s.root[p]
    <3> SUFFICES ASSUME p \notin Excepted', NEW s \in hereMay'
                 PROVE  ContentIn(s, p) = s.root[p]
      OBVIOUS
    <3>1. PICK u \in hereMay : s.stub = u.stub /\ s.root = u.root /\ (s = u \/ s.file[p] = Absent)
      BY <2>3
    <3>2. ContentIn(u, p) = u.root[p]
      BY <2>0 DEF StepInv
    <3> QED  BY <2>5, <3>1, <3>2 DEF ContentIn
  <2>7. here'.stub[p] # Absent => \A s \in hereMay' : s.stub[p] = here'.stub[p]
    BY <2>3, <2>4 DEF StepInv
  <2> QED  BY <2>0, <2>3, <2>4, <2>6, <2>7, TouchStep
<1>13. ASSUME NEW p \in Paths, Expand(p)
       PROVE  StepInv'
  <2>1. Excepted \subseteq Excepted' /\ p \in Excepted'
    BY <1>13 DEF Expand, Excepted
  <2> QED  BY <1>13, <1>t, <2>1, FileStep DEF Expand
<1>14. ASSUME NEW p \in Paths, ExpandRemove(p)
       PROVE  StepInv'
  <2>1. Excepted' = Excepted /\ p \in Excepted
    BY <1>14 DEF ExpandRemove, Excepted
  <2> QED  BY <1>14, <2>1, UnstubStep DEF ExpandRemove
<1>15. CASE \/ Kill \/ PushBegin \/ PushBarrier \/ PushCheck \/ PushNothing
            \/ UploadSync \/ PushFinish \/ PushCasFailed \/ PushFinished
            \/ RecordBarrier \/ push_to_backup \/ CommandEnd
            \/ PullBegin \/ PullFetched \/ PullAbort \/ PullRecord
            \/ (\E c \in Contents : Upload(c)) \/ (\E r \in Remotes : RemotePowerLoss(r))
            \/ \E p \in Paths, c \in Maybe : Elsewhere(p, c)
  <2>1. here' = here /\ hereMay' \in {hereMay, {here}}
    BY <1>15 DEF Kill, PushBegin, PushBarrier, PushCheck, PushNothing, UploadSync, PushFinish,
       PushCasFailed, PushFinished, RecordBarrier, push_to_backup, CommandEnd,
       PullBegin, PullFetched, PullAbort, PullRecord, Upload, RemotePowerLoss, Elsewhere,
       clone, sync_local_objects_fs
  <2>2. edited' = edited /\ begun' = begun /\ owed' = owed
    BY <1>15 DEF Kill, PushBegin, PushBarrier, PushCheck, PushNothing, UploadSync, PushFinish,
       PushCasFailed, PushFinished, RecordBarrier, push_to_backup, CommandEnd,
       PullBegin, PullFetched, PullAbort, PullRecord, Upload, RemotePowerLoss, Elsewhere
  <2> QED  BY <1>1, <2>1, <2>2 DEF Excepted
<1> QED  BY <1>2, <1>3, <1>4, <1>5, <1>6, <1>7, <1>8, <1>9, <1>10, <1>11, <1>12, <1>13, <1>14, <1>15 DEF Next

\* A directory stub that a pull has left to reconcile_stubs stays one.
Pulling == {"fetch", "apply", "record", "recordRoot"}

\* A path that a pull leaves to reconcile_stubs stays so until it is recorded.
LEMMA LateStays ==
    ASSUME TypeOK, Next, pc \in Pulling, pc' \in Pulling, NEW p \in Paths \ Excepted', Late(p)
    PROVE  Late(p)'
<1>0. here \in Locals /\ hereMay \subseteq Locals /\ here \in hereMay
  BY DEF TypeOK
<1>1. CASE here'.file[p] = here.file[p] /\ here'.stub[p] = here.stub[p]
  BY <1>1 DEF Late
<1>2. CASE here' = here
  BY <1>1, <1>2
<1>3. ASSUME NEW q \in Paths, NEW c \in Maybe, Edit(q, c)
      PROVE  Late(p)'
  <2>1. here' = PutFile(here, q, c) /\ p # q /\ c \in Found
    BY <1>0, <1>3, RenameEffect DEF Edit, Excepted, Found
  <2>2. Touches(here, here', q)
    BY <1>0, <2>1, PutTouches
  <2> QED  BY <1>1, <2>1, <2>2 DEF Touches
<1>4. ASSUME NEW q \in Paths, PullFetch(q)
      PROVE  Late(p)'
  <2> DEFINE v == there["origin"].obj[snap[q]]
  <2>1. snap[q] \in Contents /\ v \in Marks
    BY <1>4 DEF PullFetch, TypeOK, Shared, Trees, Maybe, Marks, Remotes
  <2>2. here' = PutObject(here, snap[q], v)
    BY <1>0, <1>4, RenameEffect DEF PullFetch
  <2> HIDE DEF v
  <2>3. here'.file = here.file /\ here'.stub = here.stub
    BY <1>0, <2>1, <2>2, PutObjectLocal
  <2> QED  BY <1>1, <2>3
<1>5. ASSUME NEW q \in Paths, PullApply(q)
      PROVE  Late(p)'
  <2>1. CASE Late(q)
    BY <1>2, <1>5, <2>1 DEF PullApply, clone
  <2>2. CASE ~Late(q)
    <3>0. p # q /\ snap[q] \in Maybe /\ snap[q] \in Found
      BY <1>5, <2>2, TreeType DEF PullApply, Excepted, TypeOK, Found
    <3>1. CASE here.stub[q] # Absent /\ here.file[q] = Absent
      <4>1. here' = PutStub(here, q, snap[q])
        BY <1>0, <1>5, <2>2, <3>1, DurableEffect DEF PullApply
      <4>2. Touches(here, here', q)
        BY <1>0, <3>0, <4>1, PutTouches
      <4> QED  BY <1>1, <3>0, <4>2 DEF Touches
    <3>2. CASE ~(here.stub[q] # Absent /\ here.file[q] = Absent)
      <4> DEFINE c == IF snap[q] # Absent /\ here.obj[snap[q]] = "torn" THEN Broken ELSE snap[q]
      <4>1. c \in Found
        BY <3>0 DEF Found
      <4>2. here' = PutFile(here, q, c)
        BY <1>0, <1>5, <2>2, <3>2, RenameEffect DEF PullApply
      <4> HIDE DEF c
      <4>3. Touches(here, here', q)
        BY <1>0, <4>1, <4>2, PutTouches
      <4> QED  BY <1>1, <3>0, <4>3 DEF Touches
    <3> QED  BY <3>1, <3>2
  <2> QED  BY <2>1, <2>2
<1>6. CASE PullFetched \/ PullRecord \/ RecordBarrier \/ \E q \in Paths, c \in Maybe : Elsewhere(q, c)
  BY <1>2, <1>6 DEF PullFetched, PullRecord, RecordBarrier, Elsewhere, clone
<1>7. ~(Kill \/ PowerLoss \/ PullAbort \/ write_clone_root \/ \E r \in Remotes : RemotePowerLoss(r))
  BY DEF Pulling, Kill, PowerLoss, PullAbort, write_clone_root, RemotePowerLoss, Stop
<1>8. ~(\/ PushBegin \/ PushBarrier \/ PushCache \/ PushCheck \/ PushNothing
        \/ UploadSync \/ PushFinish \/ PushCasFailed \/ PushFinished
        \/ push_to_backup \/ CommandEnd \/ PullBegin
        \/ \E c \in Contents : Upload(c) \/ UploadMissing(c))
  BY DEF Pulling, PushBegin, PushBarrier, PushCache, PushCheck, PushNothing, UploadSync, PushFinish,
     PushCasFailed, PushFinished, push_to_backup, CommandEnd, PullBegin, Upload, UploadMissing
<1>9. ~\E q \in Paths : \/ PushScan(q) \/ Reconcile(q)
                        \/ Stub(q) \/ StubRemove(q) \/ Expand(q) \/ ExpandRemove(q)
  BY DEF Pulling, PushScan, Reconcile, Stub, StubRemove, Expand, ExpandRemove
<1> QED  BY <1>3, <1>4, <1>5, <1>6, <1>7, <1>8, <1>9 DEF Next

\* What the command works on differs from clone_root only where it may.
LEMMA WorkStep ==
    ASSUME TypeOK, RemoteInv, WholeInv, RootInv, StepInv, WorkInv, Next
    PROVE  WorkInv'
<1>0. here \in hereMay /\ snap \in Trees /\ "origin" \in Remotes
  BY DEF TypeOK, Remotes
<1>r. pc' # "reconcile" => here'.root = here.root
  BY RootMoves DEF Recording
<1>e. pc' # "reconcile" => Excepted \subseteq Excepted'
  <2>1. write_clone_root \/ (\E p \in Paths : Reconcile(p)) => pc' = "reconcile"
    BY DEF write_clone_root, Reconcile
  <2> QED  BY <2>1, ExceptedGrows
<1>c. \A p \in Paths \ Excepted : Content(p) = here.root[p]
  BY <1>0 DEF StepInv, Content
<1>1. ASSUME pc' = "scan", NEW p \in Paths \ (Excepted' \cup todo')
      PROVE  snap'[p] = here'.root[p]
  <2>0. here'.root = here.root /\ p \notin Excepted
    BY <1>1, <1>e, <1>r
  <2>1. CASE Quiet
    BY <1>1, <2>0, <2>1 DEF Quiet, command, WorkInv
  <2>2. CASE PushBegin
    BY <1>1, <2>2 DEF PushBegin
  <2>3. ASSUME NEW q \in Paths, PushScan(q)
        PROVE  snap'[p] = here'.root[p]
    <3>1. pc = "scan" /\ todo' = todo \ {q} /\ snap' = [snap EXCEPT ![q] = Content(q)]
      BY <2>3 DEF PushScan
    <3>2. CASE p = q
      BY <1>0, <1>c, <2>0, <3>1, <3>2 DEF Trees
    <3>3. CASE p # q
      BY <1>0, <1>1, <2>0, <3>1, <3>3 DEF Trees, WorkInv
    <3> QED  BY <3>2, <3>3
  <2> QED  BY <1>1, <2>1, <2>2, <2>3, Moves DEF Stop, PushBarrier, PushCache, PushCheck, Upload,
              UploadSync, PushFinish, PushFinished, RecordBarrier, write_clone_root, Reconcile,
              push_to_backup, PullBegin, PullFetched, PullApply, PullRecord
<1>2. ASSUME pc' \in {"cache", "check"}, NEW p \in Paths \ Excepted'
      PROVE  snap'[p] = here'.root[p]
  <2>0. here'.root = here.root /\ p \notin Excepted
    BY <1>2, <1>e, <1>r
  <2>1. CASE Quiet
    BY <1>2, <2>0, <2>1 DEF Quiet, command, WorkInv
  <2>2. CASE PushBarrier \/ PushCache
    BY <2>0, <2>2 DEF PushBarrier, PushCache, WorkInv
  <2> QED  BY <1>2, <2>1, <2>2, Moves DEF Stop, PushBegin, PushScan, PushCheck, Upload,
              UploadSync, PushFinish, PushFinished, RecordBarrier, write_clone_root, Reconcile,
              push_to_backup, PullBegin, PullFetched, PullApply, PullRecord
<1>3. ASSUME pc' \in {"upload", "uploadSync", "finishSync"}, target' = "origin", NEW p \in Paths \ Excepted'
      PROVE  snap'[p] = here'.root[p] /\ snap'[p] = token'[p]
  <2>0. here'.root = here.root /\ p \notin Excepted
    BY <1>3, <1>e, <1>r
  <2>1. CASE Quiet
    BY <1>3, <2>0, <2>1 DEF Quiet, command, WorkInv
  <2>2. CASE PushCheck
    BY <2>0, <2>2 DEF PushCheck, WorkInv
  <2>3. CASE (\E c \in Contents : Upload(c)) \/ UploadSync \/ PushFinish
    BY <1>3, <2>0, <2>3 DEF Upload, UploadSync, PushFinish, WorkInv
  <2> QED  BY <1>3, <2>1, <2>2, <2>3, Moves DEF Stop, PushBegin, PushScan, PushBarrier, PushCache,
              PushFinished, RecordBarrier, write_clone_root, Reconcile,
              push_to_backup, PullBegin, PullFetched, PullApply, PullRecord
<1>4. ASSUME pc' \in {"fetch", "apply"}, NEW p \in Paths \ Excepted'
      PROVE  snap'[p] = here'.root[p] \/ p \in todo' \/ Late(p)'
  <2>0. here'.root = here.root /\ p \notin Excepted
    BY <1>4, <1>e, <1>r
  <2>1. ASSUME pc \in {"fetch", "apply"}, snap' = snap, p \in todo => p \in todo' \/ Late(p)
        PROVE  snap'[p] = here'.root[p] \/ p \in todo' \/ Late(p)'
    BY <1>4, <2>0, <2>1, LateStays DEF Pulling, WorkInv
  <2>2. CASE Quiet
    BY <1>4, <2>1, <2>2 DEF Quiet, command
  <2>3. CASE PullFetched
    BY <2>1, <2>3 DEF PullFetched
  <2>4. ASSUME NEW q \in Paths, PullApply(q)
        PROVE  snap'[p] = here'.root[p] \/ p \in todo' \/ Late(p)'
    <3>1. p = q => Late(p)
      BY <1>4, <2>4 DEF PullApply, Excepted
    <3> QED  BY <2>1, <2>4, <3>1 DEF PullApply
  <2>5. CASE PullBegin
    <3>1. snap'[p] \in {here.root[p], Content(p)} \/ p \in todo'
      BY <2>5 DEF PullBegin
    <3> QED  BY <1>c, <2>0, <3>1
  <2> QED  BY <1>4, <2>2, <2>3, <2>4, <2>5, Moves DEF Stop, PushBegin, PushScan, PushBarrier, PushCache, PushCheck,
              Upload, UploadSync, PushFinish, PushFinished, RecordBarrier, write_clone_root, Reconcile,
              push_to_backup, PullRecord
<1>5. ASSUME pc' \in {"record", "recordRoot"}, NEW p \in Paths \ Excepted'
      PROVE  snap'[p] = here'.root[p] \/ Late(p)'
  <2>0. here'.root = here.root /\ p \notin Excepted
    BY <1>5, <1>e, <1>r
  <2>1. ASSUME pc \in Pulling, snap' = snap, snap[p] = here.root[p] \/ Late(p)
        PROVE  snap'[p] = here'.root[p] \/ Late(p)'
    BY <1>5, <2>0, <2>1, LateStays DEF Pulling
  <2>2. CASE Quiet
    BY <1>5, <2>0, <2>1, <2>2 DEF Quiet, command, WorkInv, Pulling
  <2>3. CASE PullRecord \/ RecordBarrier
    BY <2>0, <2>1, <2>3 DEF PullRecord, RecordBarrier, WorkInv, Pulling
  <2>4. CASE PushFinished /\ target = "origin"
    BY <2>0, <2>4 DEF PushFinished, WorkInv
  <2> QED  BY <1>5, <2>2, <2>3, <2>4, Moves DEF Stop, PushBegin, PushScan, PushBarrier, PushCache, PushCheck,
              Upload, UploadSync, PushFinish, write_clone_root, Reconcile,
              push_to_backup, PullBegin, PullFetched, PullApply
<1> QED  BY <1>1, <1>2, <1>3, <1>4, <1>5 DEF WorkInv

-----------------------------------------------------------------------------
(* The theorems.                                                           *)

\* A fresh repository and an empty remote.
LEMMA Initially == Init => IInv
<1> SUFFICES ASSUME Init PROVE IInv
  OBVIOUS
<1>0. NoTree \in Trees /\ Objects(NoTree) = {} /\ Empty \in [Contents -> Marks]
      /\ \A p \in Paths : NoTree[p] = Absent
  BY TreeType DEF NoTree, Empty, Marks
<1>1. here \in Locals
  BY <1>0 DEF Init, Locals, Marks, Trees
<1>2. \A r \in Remotes : there[r] = [obj |-> Empty, index |-> NoTree, listed |-> {}] /\ thereMay[r] = {there[r]}
  BY DEF Init
<1>3. [obj |-> Empty, index |-> NoTree, listed |-> {}] \in Shared
  BY <1>0 DEF Shared, Marks
<1>4. there \in [Remotes -> Shared] /\ thereMay \in [Remotes -> SUBSET Shared]
  BY <1>2, <1>3 DEF Init
<1>5. count \in [edits : 0 .. MaxEdits, kills : 0 .. MaxKills, losses : 0 .. MaxLosses]
  BY ConstantsAssumption DEF Init
<1>6. TypeOK
  BY <1>0, <1>1, <1>2, <1>4, <1>5 DEF Init, TypeOK, Stages, Remotes
<1>n. \A s : Has(s, NoTree)
  BY <1>0 DEF Has
<1>7. SealInv /\ RootInv
  BY <1>n DEF Init, SealInv, RootInv
<1>8. RemoteInv
  BY <1>0, <1>2 DEF Init, RemoteInv
<1>9. WholeInv
  BY <1>2 DEF Init, WholeInv, Empty
<1>10. OriginInv
  <2>1. "origin" \in Remotes /\ here.root = NoTree /\ there["origin"].index = NoTree /\ pc = "idle"
    BY <1>2 DEF Init, Remotes
  <2> QED  BY <1>2, <1>n, <2>1 DEF OriginInv, AtOrigin
<1>11. StepInv /\ WorkInv
  BY <1>0 DEF Init, StepInv, WorkInv, ContentIn
<1> QED  BY <1>6, <1>7, <1>8, <1>9, <1>10, <1>11 DEF IInv, ObjInv, TreeInv

\* Every step keeps every part of the invariant.
LEMMA Inductively == IInv /\ [Next]_vars => IInv'
<1> SUFFICES ASSUME IInv, [Next]_vars PROVE IInv'
  OBVIOUS
<1>0. /\ TypeOK /\ SealInv /\ RemoteInv /\ WholeInv /\ RootInv /\ OriginInv
      /\ StepInv /\ WorkInv
  BY DEF IInv, ObjInv, TreeInv
<1>1. CASE Next
  BY <1>0, <1>1, TypeStep, SealStep, RemoteStep, RootWholeStep, OriginStep, StepStep, WorkStep
     DEF IInv, ObjInv, TreeInv
<1>2. CASE UNCHANGED vars
  <2>1. TypeOK'
    BY <1>0, TypeStep
  <2>2. SealInv' /\ RemoteInv' /\ WholeInv' /\ RootInv'
    BY <1>0, <1>2 DEF vars, SealInv, RemoteInv, WholeInv, RootInv, Has
  <2>3. OriginInv'
    BY <1>0, <1>2 DEF vars, OriginInv, Faults, AtOrigin, Has
  <2>4. StepInv' /\ WorkInv'
    BY <1>0, <1>2 DEF vars, StepInv, WorkInv, Excepted, ContentIn, Late
  <2> QED  BY <2>1, <2>2, <2>3, <2>4 DEF IInv, ObjInv, TreeInv
<1> QED  BY <1>1, <1>2

\* The inductive invariant holds whatever dies or is lost.
THEOREM Inductive == Spec => []IInv
  BY Initially, Inductively, PTL DEF Spec

\* The type invariant.
THEOREM TypeCorrect == Spec => []TypeOK
<1>1. IInv => TypeOK
  BY DEF IInv
<1> QED  BY <1>1, Inductive, PTL

\* Whatever is lost, with torn writes or without: every object that STAT_CACHE
\* vouches for is in the local store (the barrier of StatCache::write).
THEOREM SealsStored == Spec => []SealsAreStored
<1>1. IInv => SealsAreStored
  <2> SUFFICES ASSUME IInv, NEW p \in Paths, here.seal[p] # Absent
               PROVE  here.obj[here.seal[p]] # "none"
    BY DEF SealsAreStored
  <2>1. Has(here, here.seal) /\ here.seal \in Trees
    BY LocalType DEF IInv, ObjInv, TypeOK, SealInv
  <2> QED  BY <2>1, TreeType DEF Has
<1> QED  BY <1>1, Inductive, PTL

\* Where a rename never keeps a name without its data: what an INDEX_ROOT
\* refers to is listed and whole at its remote after any number of faults, and
\* what clone_root refers to is at origin after up to two.
THEOREM RootsStayReadable == ~Torn => (Spec => []RootsReadable)
<1>1. IInv /\ ~Torn => RootsReadable
  <2> SUFFICES ASSUME IInv, ~Torn PROVE RootsReadable
    OBVIOUS
  <2>0. TypeOK /\ RemoteInv /\ WholeInv /\ OriginInv
    BY DEF IInv, ObjInv
  <2>1. RemotesOK /\ "origin" \in Remotes /\ here.root \in Trees
    BY <2>0, LocalType DEF TypeOK, RemotesOK, Remotes
  <2>2. ASSUME NEW r \in Remotes, NEW c \in Contents, there[r].obj[c] # "none"
        PROVE  there[r].obj[c] = "intact"
    <3>1. there[r].obj[c] \in Marks /\ there[r].obj[c] # "torn"
      BY <2>0, <2>1 DEF RemotesOK, Shared, Marks, WholeInv
    <3> QED  BY <2>2, <3>1 DEF Marks
  <2>3. \A r \in Remotes : there[r] \in thereMay[r] /\ there[r].listed \subseteq Contents
    BY <2>1 DEF RemotesOK, Shared
  <2>4. \A r \in Remotes : Objects(there[r].index) \subseteq there[r].listed
    BY <2>0, <2>3 DEF RemoteInv
  <2>5. \A r \in Remotes : \A c \in there[r].listed : there[r].obj[c] = "intact"
    BY <2>0, <2>2, <2>3 DEF RemoteInv
  <2>6. ASSUME count.kills + count.losses <= 2, NEW c \in Objects(here.root)
        PROVE  there["origin"].obj[c] = "intact"
    <3>1. Has(there["origin"], here.root) /\ c \in Contents
      BY <2>0, <2>1, <2>6, TreeType DEF OriginInv, Faults
    <3> QED  BY <2>1, <2>2, <3>1 DEF Has
  <2> QED  BY <2>4, <2>5, <2>6 DEF RootsReadable
<1>2. ASSUME ~Torn PROVE Spec => []RootsReadable
  <2>1. IInv => RootsReadable
    BY <1>1, <1>2
  <2> QED  BY <2>1, Inductive, PTL
<1> QED  BY <1>2

\* Whatever is killed or lost, with torn writes or without: what a push
\* publishes differs from what it replaces only at the excepted paths.
THEOREM OnlyEditsPushed == Spec => []PushesOnlyEdits
<1>1. IInv => PushesOnlyEdits
  <2> SUFFICES ASSUME IInv, Publishing, NEW p \in Paths \ (edited \cup begun \cup owed)
               PROVE  snap[p] = token[p]
    BY DEF PushesOnlyEdits
  <2> QED  BY DEF IInv, TreeInv, WorkInv, Publishing, Excepted
<1> QED  BY <1>1, Inductive, PTL
=============================================================================
