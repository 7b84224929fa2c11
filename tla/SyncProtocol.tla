---------------------------- MODULE SyncProtocol ----------------------------
(***************************************************************************)
(* How clones and their remote stay in step: full and path-scoped push     *)
(* (commands/push.rs), full and scoped pull (commands/pull.rs), conflict   *)
(* helpers and their resolution (commands/conflict.rs), while users keep   *)
(* editing the working trees and any command may die between two steps.    *)
(*                                                                         *)
(* A tree is a function from paths to contents.  A tree hash is the hash   *)
(* of its content, so comparing two root hashes is comparing two trees;    *)
(* an absent clone_root, an absent INDEX_ROOT and the empty tree are one   *)
(* state, as is_empty_root makes them.  A command holds the repository     *)
(* lock (lock.rs), so each clone runs one command at a time; the user's    *)
(* editor does not take it.                                                *)
(***************************************************************************)
EXTENDS Naturals, FiniteSets

CONSTANTS
    Clones,       \* the clones of one remote
    Paths,        \* the files
    Hunks,        \* independent regions of a file
    Vals,         \* what a region may hold
    LineMerge,    \* the paths .omemfs-filter marks line-merge
    Absent,       \* no file
    NoMerge,      \* no line-merge result
    NoHelpers,    \* no conflict helper files
    Seed,         \* the published tree every clone starts in step with
    MaxEdits,     \* bound on user edits
    MaxCrashes    \* bound on commands that die

Contents == [Hunks -> Vals]
MaybeFile == Contents \cup {Absent}
Trees == [Paths -> MaybeFile]
Sides == {"base", "local", "remote"}
HelperSets == [Sides -> MaybeFile]

ASSUME ConstantsAssumption ==
    /\ LineMerge \subseteq Paths
    /\ Absent \notin Contents /\ NoMerge \notin MaybeFile
    /\ NoHelpers \notin HelperSets
    /\ Seed \in Trees
    /\ MaxEdits \in Nat /\ MaxCrashes \in Nat

VARIABLES
    remote,     \* the tree INDEX_ROOT publishes
    wt,         \* wt[c]: the working tree
    cr,         \* cr[c]: clone_root, the tree of the last sync
    helpers,    \* helpers[c][p]: the .omemfs-conflict-* files beside p
    pc,         \* pc[c]: where the running command is
    kind,       \* kind[c]: whole tree or named paths
    scope,      \* scope[c]: the paths the command works on
    todo,       \* todo[c]: the paths the current loop has still to visit
    snap,       \* snap[c]: the remote tree the command read (and its CAS token)
    seen,       \* seen[c]: what the scan saw
    touched,    \* touched[c]: paths whose (mtime, size) changed since the scan saw them
    merged,     \* merged[c]: line-merge results not written yet
    newRemote,  \* newRemote[c]: the tree a push publishes
    newClone,   \* newClone[c]: the clone_root it records afterwards
    side,       \* side[c]: the side an accept-* command adopts
    known,      \* known[c][p]: the contents of p that clone c has had or been shown (history)
    mine,       \* mine[c]: paths its user changed since they were last in step (history)
    partial,    \* partial[c]: paths written by a pull that has not recorded them (history)
    edits, crashes

command == <<pc, kind, scope, todo, snap, seen, merged, newRemote, newClone, side>>
vars == <<remote, wt, cr, helpers, pc, kind, scope, todo, snap, seen, touched, merged,
          newRemote, newClone, side, known, mine, partial, edits, crashes>>

PCs == {"idle", "pushScan", "pushCommit", "pushRecord",
        "pullScan", "pullConflict", "pullVerify", "pullApply",
        "acceptApply", "acceptClean"}

EmptyTree == [p \in Paths |-> Absent]
NoMerges == [p \in Paths |-> NoMerge]

TypeOK ==
    /\ remote \in Trees
    /\ wt \in [Clones -> Trees] /\ cr \in [Clones -> Trees]
    /\ helpers \in [Clones -> [Paths -> HelperSets \cup {NoHelpers}]]
    /\ pc \in [Clones -> PCs]
    /\ kind \in [Clones -> {"full", "scoped"}]
    /\ scope \in [Clones -> SUBSET Paths] /\ todo \in [Clones -> SUBSET Paths]
    /\ snap \in [Clones -> Trees] /\ seen \in [Clones -> Trees]
    /\ touched \in [Clones -> SUBSET Paths]
    /\ merged \in [Clones -> [Paths -> Contents \cup {NoMerge}]]
    /\ newRemote \in [Clones -> Trees] /\ newClone \in [Clones -> Trees]
    /\ side \in [Clones -> Sides]
    /\ known \in [Clones -> [Paths -> SUBSET MaybeFile]]
    /\ mine \in [Clones -> SUBSET Paths] /\ partial \in [Clones -> SUBSET Paths]
    /\ edits \in 0..MaxEdits /\ crashes \in 0..MaxCrashes

Init ==
    /\ remote = Seed
    /\ wt = [c \in Clones |-> Seed] /\ cr = [c \in Clones |-> Seed]
    /\ helpers = [c \in Clones |-> [p \in Paths |-> NoHelpers]]
    /\ pc = [c \in Clones |-> "idle"]
    /\ kind = [c \in Clones |-> "full"]
    /\ scope = [c \in Clones |-> {}] /\ todo = [c \in Clones |-> {}]
    /\ snap = [c \in Clones |-> EmptyTree] /\ seen = [c \in Clones |-> EmptyTree]
    /\ touched = [c \in Clones |-> {}]
    /\ merged = [c \in Clones |-> NoMerges]
    /\ newRemote = [c \in Clones |-> EmptyTree] /\ newClone = [c \in Clones |-> EmptyTree]
    /\ side = [c \in Clones |-> "local"]
    /\ known = [c \in Clones |-> [p \in Paths |-> {Absent, Seed[p]}]]
    /\ mine = [c \in Clones |-> {}] /\ partial = [c \in Clones |-> {}]
    /\ edits = 0 /\ crashes = 0

-----------------------------------------------------------------------------
(* The command's own state, which the process takes with it.               *)

\* A command begins, on the paths S, visiting the paths T first.
Start(c, at, k, S, T) ==
    /\ pc[c] = "idle"
    /\ pc' = [pc EXCEPT ![c] = at]
    /\ kind' = [kind EXCEPT ![c] = k]
    /\ scope' = [scope EXCEPT ![c] = S]
    /\ todo' = [todo EXCEPT ![c] = T]

\* It is over, whichever way.
Stop(c) ==
    /\ pc' = [pc EXCEPT ![c] = "idle"]
    /\ kind' = [kind EXCEPT ![c] = "full"]
    /\ scope' = [scope EXCEPT ![c] = {}] /\ todo' = [todo EXCEPT ![c] = {}]
    /\ snap' = [snap EXCEPT ![c] = EmptyTree] /\ seen' = [seen EXCEPT ![c] = EmptyTree]
    /\ touched' = [touched EXCEPT ![c] = {}]
    /\ merged' = [merged EXCEPT ![c] = NoMerges]
    /\ newRemote' = [newRemote EXCEPT ![c] = EmptyTree]
    /\ newClone' = [newClone EXCEPT ![c] = EmptyTree]
    /\ side' = [side EXCEPT ![c] = "local"]

\* One file of the working tree changes, on behalf of the user or a command.
Write(c, p, v) == wt' = [wt EXCEPT ![c][p] = v]
Learn(c, p, v) == known' = [known EXCEPT ![c][p] = @ \cup {v}]

\* clone_root is replaced; paths that are in step again are nobody's edits.
Record(c, tree) ==
    /\ cr' = [cr EXCEPT ![c] = tree]
    /\ mine' = [mine EXCEPT ![c] = {p \in @ : wt[c][p] # tree[p]}]
    /\ partial' = [partial EXCEPT ![c] = {p \in @ : wt[c][p] # tree[p]}]

\* Mutant: a splice that keeps only the spliced paths.
SpliceOnly(t, S, u) == [p \in S |-> u[p]]

\* The tree t with the paths S taken from u.
Splice(t, S, u) == [p \in Paths |-> IF p \in S THEN u[p] ELSE t[p]]

\* The user creates, changes or removes a file, at any moment.
Edit(c, p, v) ==
    /\ edits < MaxEdits /\ v # wt[c][p]
    /\ edits' = edits + 1
    /\ Write(c, p, v)
    /\ Learn(c, p, v)
    /\ mine' = [mine EXCEPT ![c] = @ \cup {p}]
    /\ touched' = [touched EXCEPT ![c] = IF pc[c] = "idle" THEN {} ELSE @ \cup {p}]
    /\ UNCHANGED <<remote, cr, helpers, command, partial, crashes>>

\* The process is killed or an I/O error ends it.
Crash(c) ==
    /\ pc[c] # "idle" /\ crashes < MaxCrashes
    /\ crashes' = crashes + 1
    /\ Stop(c)
    /\ UNCHANGED <<remote, wt, cr, helpers, known, mine, partial, edits>>

\* The scan reads one path; push and pull share it.
Scan(c, p) ==
    /\ pc[c] \in {"pushScan", "pullScan"} /\ p \in todo[c]
    /\ seen' = [seen EXCEPT ![c][p] = wt[c][p]]
    /\ touched' = [touched EXCEPT ![c] = @ \ {p}]
    /\ todo' = [todo EXCEPT ![c] = @ \ {p}]
    /\ UNCHANGED <<remote, wt, cr, helpers, pc, kind, scope, snap, merged, newRemote,
                   newClone, side, known, mine, partial, edits, crashes>>

-----------------------------------------------------------------------------
(* Push.                                                                   *)

\* push_full scans before it reads the remote.
PushFull(c) ==
    /\ Start(c, "pushScan", "full", Paths, Paths)
    /\ UNCHANGED <<remote, wt, cr, helpers, snap, seen, touched, merged, newRemote,
                   newClone, side, known, mine, partial, edits, crashes>>

\* push_scoped reads it first.
PushScoped(c, S) ==
    /\ Start(c, "pushScan", "scoped", S, S)
    /\ snap' = [snap EXCEPT ![c] = remote]
    /\ UNCHANGED <<remote, wt, cr, helpers, seen, touched, merged, newRemote, newClone,
                   side, known, mine, partial, edits, crashes>>

\* Mutant: push trusts the CAS alone, which only guards the snapshot it read.
remote_not_checked(clone_root, remote_root, new_root) == TRUE

\* require_remote_not_advanced.
require_remote_not_advanced(clone_root, remote_root, new_root) ==
    remote_root = new_root \/ clone_root = remote_root

\* A full push goes on when no conflict is open, there is something to push
\* and the remote is where this clone left it.
FullPushable(c) ==
    /\ \A p \in Paths : helpers[c][p] = NoHelpers
    /\ seen[c] # cr[c]
    /\ require_remote_not_advanced(cr[c], remote, seen[c])

\* The scoped paths with something to push: changed ones, and every absent one.
Changed(c) == {p \in scope[c] : seen[c][p] = Absent \/ seen[c][p] # cr[c][p]}
AlreadyAbsent(c, p) == seen[c][p] = Absent /\ snap[c][p] = Absent
\* What the splices really change.
Effective(c) == {p \in Changed(c) : ~AlreadyAbsent(c, p)}

\* The divergence check for one scoped path.
NotDiverged(c, p) ==
    \/ AlreadyAbsent(c, p)
    \/ seen[c][p] # Absent /\ snap[c][p] = seen[c][p]
    \/ snap[c][p] = cr[c][p]

ScopedPushable(c) ==
    Effective(c) # {} /\ \A p \in Changed(c) : NotDiverged(c, p)

PushFullPrepare(c) ==
    /\ pc[c] = "pushScan" /\ kind[c] = "full" /\ todo[c] = {} /\ FullPushable(c)
    /\ snap' = [snap EXCEPT ![c] = remote]
    /\ newRemote' = [newRemote EXCEPT ![c] = seen[c]]
    /\ newClone' = [newClone EXCEPT ![c] = seen[c]]
    /\ pc' = [pc EXCEPT ![c] = "pushCommit"]
    /\ UNCHANGED <<remote, wt, cr, helpers, kind, scope, todo, seen, touched, merged,
                   side, known, mine, partial, edits, crashes>>

PushScopedPrepare(c) ==
    /\ pc[c] = "pushScan" /\ kind[c] = "scoped" /\ todo[c] = {} /\ ScopedPushable(c)
    /\ newRemote' = [newRemote EXCEPT ![c] = Splice(snap[c], Effective(c), seen[c])]
    /\ newClone' = [newClone EXCEPT ![c] = Splice(cr[c], Effective(c), seen[c])]
    /\ pc' = [pc EXCEPT ![c] = "pushCommit"]
    /\ UNCHANGED <<remote, wt, cr, helpers, kind, scope, todo, snap, seen, touched,
                   merged, side, known, mine, partial, edits, crashes>>

\* Open conflicts, nothing to push, or the remote has moved on.
PushRefused(c) ==
    /\ pc[c] = "pushScan" /\ todo[c] = {}
    /\ IF kind[c] = "full" THEN ~FullPushable(c) ELSE ~ScopedPushable(c)
    /\ Stop(c)
    /\ UNCHANGED <<remote, wt, cr, helpers, known, mine, partial, edits, crashes>>

\* upload_and_finalize ends in the compare-and-swap of INDEX_ROOT.
PushCommit(c) ==
    /\ pc[c] = "pushCommit" /\ remote = snap[c]
    /\ remote' = newRemote[c]
    /\ pc' = [pc EXCEPT ![c] = "pushRecord"]
    /\ UNCHANGED <<wt, cr, helpers, kind, scope, todo, snap, seen, touched, merged,
                   newRemote, newClone, side, known, mine, partial, edits, crashes>>

PushCasFailed(c) ==
    /\ pc[c] = "pushCommit" /\ remote # snap[c]
    /\ Stop(c)
    /\ UNCHANGED <<remote, wt, cr, helpers, known, mine, partial, edits, crashes>>

PushRecord(c) ==
    /\ pc[c] = "pushRecord"
    /\ Record(c, newClone[c])
    /\ Stop(c)
    /\ UNCHANGED <<remote, wt, helpers, known, edits, crashes>>

-----------------------------------------------------------------------------
(* Pull.                                                                   *)

\* Reads the remote; only the paths that differ from clone_root are diffed.
PullBegin(c, k, S) ==
    /\ k = "full" => S = Paths
    /\ LET diff == {p \in S : cr[c][p] # remote[p]} IN
         diff # {} /\ Start(c, "pullScan", k, diff, diff)
    /\ snap' = [snap EXCEPT ![c] = remote]
    /\ UNCHANGED <<remote, wt, cr, helpers, seen, touched, merged, newRemote, newClone,
                   side, known, mine, partial, edits, crashes>>

\* classify_conflicts: changed on both sides, to different contents.
Conflicting(c) ==
    {p \in scope[c] : seen[c][p] # cr[c][p] /\ seen[c][p] # snap[c][p]}

\* line_merge::merge, a region at a time; base is empty for a new file.
merge(base, mine_, theirs) ==
    LET unchanged(side_, h) == base # Absent /\ side_[h] = base[h]
        clean(h) == mine_[h] = theirs[h] \/ unchanged(mine_, h) \/ unchanged(theirs, h)
    IN IF \A h \in Hunks : clean(h)
       THEN [h \in Hunks |-> IF unchanged(mine_, h) THEN theirs[h] ELSE mine_[h]]
       ELSE NoMerge

\* try_line_merge_one, for a path whose conflict is blob against blob: the
\* local side is the working file as it is now, not as the scan saw it.
try_line_merge_one(c, p) ==
    IF /\ p \in LineMerge /\ snap[c][p] # Absent
       /\ seen[c][p] # Absent /\ wt[c][p] # Absent
    THEN merge(cr[c][p], wt[c][p], snap[c][p])
    ELSE NoMerge

\* resolve_line_merges: what is left is a real conflict.
Remaining(c) == {p \in Conflicting(c) : try_line_merge_one(c, p) = NoMerge}

PullConflict(c) ==
    /\ pc[c] = "pullScan" /\ todo[c] = {} /\ Remaining(c) # {}
    /\ pc' = [pc EXCEPT ![c] = "pullConflict"]
    /\ todo' = [todo EXCEPT ![c] = Remaining(c)]
    /\ UNCHANGED <<remote, wt, cr, helpers, kind, scope, snap, seen, touched, merged,
                   newRemote, newClone, side, known, mine, partial, edits, crashes>>

\* write_conflict_for_path: replaces what an earlier pull left there.
WriteHelpers(c, p) ==
    /\ pc[c] = "pullConflict" /\ p \in todo[c]
    /\ helpers' = [helpers EXCEPT ![c][p] =
                     [s \in Sides |-> CASE s = "base" -> cr[c][p]
                                        [] s = "local" -> wt[c][p]
                                        [] s = "remote" -> snap[c][p]]]
    /\ Learn(c, p, snap[c][p])
    /\ todo' = [todo EXCEPT ![c] = @ \ {p}]
    /\ UNCHANGED <<remote, wt, cr, pc, kind, scope, snap, seen, touched, merged,
                   newRemote, newClone, side, mine, partial, edits, crashes>>

\* Error::Conflict: nothing is applied, clone_root stays.
PullConflictEnd(c) ==
    /\ pc[c] = "pullConflict" /\ todo[c] = {}
    /\ Stop(c)
    /\ UNCHANGED <<remote, wt, cr, helpers, known, mine, partial, edits, crashes>>

\* A full pull checks every path before the first write; a scoped one goes
\* path by path.
PullResolve(c) ==
    /\ pc[c] = "pullScan" /\ todo[c] = {} /\ Remaining(c) = {}
    /\ merged' = [merged EXCEPT ![c] =
                    [p \in Paths |-> IF p \in Conflicting(c) THEN try_line_merge_one(c, p)
                                     ELSE NoMerge]]
    /\ todo' = [todo EXCEPT ![c] = scope[c]]
    /\ pc' = [pc EXCEPT ![c] = IF kind[c] = "full" THEN "pullVerify" ELSE "pullApply"]
    /\ UNCHANGED <<remote, wt, cr, helpers, kind, scope, snap, seen, touched, newRemote,
                   newClone, side, known, mine, partial, edits, crashes>>

\* Mutant: only files that appeared or vanished are noticed, not rewritten ones.
changed_existence(c, p) == (seen[c][p] = Absent) # (wt[c][p] = Absent)

\* changed_since_scan, from the recorded (mtime, size) or the recorded absence.
changed_since_scan(c, p) ==
    IF seen[c][p] = Absent THEN wt[c][p] # Absent ELSE p \in touched[c]

\* The paths apply_diff is about to write or delete; line merges are apart.
Pending(c) == {p \in todo[c] : merged[c][p] = NoMerge}

\* verify_unchanged_since_scan.
PullVerify(c) ==
    /\ pc[c] = "pullVerify" /\ \A p \in Pending(c) : ~changed_since_scan(c, p)
    /\ pc' = [pc EXCEPT ![c] = "pullApply"]
    /\ UNCHANGED <<remote, wt, cr, helpers, kind, scope, todo, snap, seen, touched, merged,
                   newRemote, newClone, side, known, mine, partial, edits, crashes>>

\* changed_since_scan_error: the pull gives up and writes nothing more.
PullAbort(c) ==
    /\ \/ pc[c] = "pullVerify" /\ \E p \in Pending(c) : changed_since_scan(c, p)
       \/ pc[c] = "pullApply" /\ \E p \in Pending(c) : changed_since_scan(c, p)
    /\ Stop(c)
    /\ UNCHANGED <<remote, wt, cr, helpers, known, mine, partial, edits, crashes>>

\* apply_diff on one path, its check and its write or removal together.  A
\* full pull deletes before it writes.
PullApply(c, p) ==
    /\ pc[c] = "pullApply" /\ p \in Pending(c) /\ ~changed_since_scan(c, p)
    /\ (kind[c] = "full" /\ snap[c][p] # Absent) => \A q \in Pending(c) : snap[c][q] # Absent
    /\ Write(c, p, snap[c][p])
    /\ Learn(c, p, snap[c][p])
    /\ mine' = [mine EXCEPT ![c] = @ \ {p}]
    /\ partial' = [partial EXCEPT ![c] = @ \cup {p}]
    /\ todo' = [todo EXCEPT ![c] = @ \ {p}]
    /\ UNCHANGED <<remote, cr, helpers, pc, kind, scope, snap, seen, touched, merged,
                   newRemote, newClone, side, edits, crashes>>

\* write_resolved_line_merges on one path: no check.  A full pull does this
\* after everything else.
PullWriteMerge(c, p) ==
    /\ pc[c] = "pullApply" /\ p \in todo[c] /\ merged[c][p] # NoMerge
    /\ kind[c] = "full" => Pending(c) = {}
    /\ Write(c, p, merged[c][p])
    /\ known' = [known EXCEPT ![c][p] = @ \cup {snap[c][p], merged[c][p]}]
    /\ todo' = [todo EXCEPT ![c] = @ \ {p}]
    /\ UNCHANGED <<remote, cr, helpers, pc, kind, scope, snap, seen, touched, merged,
                   newRemote, newClone, side, mine, partial, edits, crashes>>

\* Mutant: a scoped pull records the whole remote tree.
PullRecordWhole(c) ==
    /\ pc[c] = "pullApply" /\ todo[c] = {}
    /\ Record(c, snap[c])
    /\ Stop(c)
    /\ UNCHANGED <<remote, wt, helpers, known, edits, crashes>>

PullRecord(c) ==
    /\ pc[c] = "pullApply" /\ todo[c] = {}
    /\ Record(c, Splice(cr[c], scope[c], snap[c]))
    /\ Stop(c)
    /\ UNCHANGED <<remote, wt, helpers, known, edits, crashes>>

-----------------------------------------------------------------------------
(* Resolving conflicts.                                                    *)

OpenConflicts(c) == {p \in Paths : helpers[c][p] # NoHelpers}

\* accept-local, accept-remote or accept-base on some of the open conflicts.
AcceptBegin(c, s, S) ==
    /\ S # {} /\ S \subseteq OpenConflicts(c)
    /\ Start(c, "acceptApply", "scoped", S, S)
    /\ side' = [side EXCEPT ![c] = s]
    /\ UNCHANGED <<remote, wt, cr, helpers, snap, seen, touched, merged, newRemote,
                   newClone, known, mine, partial, edits, crashes>>

\* The chosen side's helper replaces the working file; no helper removes it.
AcceptApply(c, p) ==
    /\ pc[c] = "acceptApply" /\ p \in todo[c]
    /\ Write(c, p, helpers[c][p][side[c]])
    /\ mine' = [mine EXCEPT ![c] = @ \cup {p}]
    /\ todo' = [todo EXCEPT ![c] = @ \ {p}]
    /\ UNCHANGED <<remote, cr, helpers, pc, kind, scope, snap, seen, touched, merged,
                   newRemote, newClone, side, known, partial, edits, crashes>>

\* Mutant: the helpers are removed before clone_root is advanced.
AcceptRecordLate(c) ==
    /\ pc[c] = "acceptApply" /\ todo[c] = {}
    /\ pc' = [pc EXCEPT ![c] = "acceptClean"]
    /\ todo' = [todo EXCEPT ![c] = scope[c]]
    /\ UNCHANGED <<remote, wt, cr, helpers, kind, scope, snap, seen, touched, merged,
                   newRemote, newClone, side, known, mine, partial, edits, crashes>>

\* clone_root advances to what the pull saw on the remote, before any helper goes.
AcceptRecord(c) ==
    /\ pc[c] = "acceptApply" /\ todo[c] = {}
    /\ Record(c, [p \in Paths |-> IF p \in scope[c] THEN helpers[c][p]["remote"]
                                  ELSE cr[c][p]])
    /\ pc' = [pc EXCEPT ![c] = "acceptClean"]
    /\ todo' = [todo EXCEPT ![c] = scope[c]]
    /\ UNCHANGED <<remote, wt, helpers, kind, scope, snap, seen, touched, merged, newRemote,
                   newClone, side, known, edits, crashes>>

AcceptClean(c, p) ==
    /\ pc[c] = "acceptClean" /\ p \in todo[c]
    /\ helpers' = [helpers EXCEPT ![c][p] = NoHelpers]
    /\ todo' = [todo EXCEPT ![c] = @ \ {p}]
    /\ UNCHANGED <<remote, wt, cr, pc, kind, scope, snap, seen, touched, merged, newRemote,
                   newClone, side, known, mine, partial, edits, crashes>>

AcceptEnd(c) ==
    /\ pc[c] = "acceptClean" /\ todo[c] = {}
    /\ Stop(c)
    /\ UNCHANGED <<remote, wt, cr, helpers, known, mine, partial, edits, crashes>>

\* conflict clean: the helpers go, nothing else changes.
ConflictClean(c, S) ==
    /\ pc[c] = "idle" /\ S # {} /\ S \subseteq OpenConflicts(c)
    /\ helpers' = [helpers EXCEPT ![c] =
                     [p \in Paths |-> IF p \in S THEN NoHelpers ELSE @[p]]]
    /\ UNCHANGED <<remote, wt, cr, command, touched, known, mine, partial, edits, crashes>>

-----------------------------------------------------------------------------
PushStep(c) ==
    \/ PushFull(c)
    \/ \E S \in SUBSET Paths \ {{}} : PushScoped(c, S)
    \/ PushFullPrepare(c) \/ PushScopedPrepare(c) \/ PushRefused(c)
    \/ PushCommit(c) \/ PushCasFailed(c) \/ PushRecord(c)

PullStep(c) ==
    \/ \E k \in {"full", "scoped"}, S \in SUBSET Paths : PullBegin(c, k, S)
    \/ PullConflict(c) \/ PullConflictEnd(c) \/ PullResolve(c) \/ PullVerify(c)
    \/ PullAbort(c) \/ PullRecord(c)
    \/ \E p \in Paths : WriteHelpers(c, p) \/ PullApply(c, p) \/ PullWriteMerge(c, p)

AcceptStep(c) ==
    \/ \E s \in Sides, S \in SUBSET Paths : AcceptBegin(c, s, S)
    \/ \E p \in Paths : AcceptApply(c, p) \/ AcceptClean(c, p)
    \/ AcceptRecord(c) \/ AcceptEnd(c)
    \/ \E S \in SUBSET Paths : ConflictClean(c, S)

Next ==
    \E c \in Clones :
        \/ \E p \in Paths, v \in MaybeFile : Edit(c, p, v)
        \/ \E p \in Paths : Scan(c, p)
        \/ PushStep(c) \/ PullStep(c) \/ AcceptStep(c) \/ Crash(c)

Spec == Init /\ [][Next]_vars

-----------------------------------------------------------------------------
(* Properties.                                                             *)

\* Every push is a response to the version it replaces: when the remote's p
\* changes, the old content is one the pushing clone has had in its working
\* tree or been shown as a conflict.  A stale scan, a clone_root spliced by
\* accept-* or a scoped command, or a crash before clone_root was written
\* never lets a push replace a version this clone has not seen.
NoLostUpdate ==
    [][\A c \in Clones, p \in Paths :
          (PushCommit(c) /\ remote'[p] # remote[p]) => remote[p] \in known[c][p]]_vars

\* A push publishes only what its user did: a path changes on the remote only
\* if this clone's user changed it, or an interrupted pull had begun to write
\* it.  A clone_root ahead of the working tree would make the next push undo
\* other people's work.
PushOnlyEdits ==
    [][\A c \in Clones, p \in Paths :
          (PushCommit(c) /\ remote'[p] # remote[p]) => p \in mine[c] \cup partial[c]]_vars

\* apply_diff replaces or removes a file only if it still has the content of
\* the last sync (or already has the new content): no edit, before the scan or
\* after it, is overwritten.
PullKeepsEdits ==
    [][\A c \in Clones, p \in Paths :
          PullApply(c, p) => wt[c][p] \in {cr[c][p], wt'[c][p]}]_vars

\* The helpers of a resolved conflict go only after clone_root has been
\* advanced to the remote version they recorded, whenever accept-* is
\* interrupted: otherwise a push would fail with no conflict to explain it.
ResolutionRecorded ==
    [][\A c \in Clones, p \in Paths :
          AcceptClean(c, p) => cr[c][p] = helpers[c][p]["remote"]]_vars

\* The same promise for a line-merge result: the file it replaces is still
\* the one that was merged.
MergeKeepsEdits ==
    [][\A c \in Clones, p \in Paths :
          PullWriteMerge(c, p) =>
             \/ wt[c][p] # Absent /\ merge(cr[c][p], wt[c][p], snap[c][p]) = wt'[c][p]
             \/ wt[c][p] = wt'[c][p]]_vars
=============================================================================
