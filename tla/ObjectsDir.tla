----------------------------- MODULE ObjectsDir -----------------------------
(***************************************************************************)
(* One directory of the local object cache (store/objects_dir.rs).  It     *)
(* starts flat; when a write makes it exceed its threshold every flat file *)
(* is moved into a two-character subdirectory, `.depth` is set and the     *)
(* `.migrating` marker removed.  Threads of one process serialise their    *)
(* migrations on a mutex; other processes (ls, cat and restore write       *)
(* objects without the repository lock) do not share it.  Every actor may  *)
(* be killed, or meet an I/O error, between any two file system calls.     *)
(* Readers take no lock at all: a lookup (find_in) is a series of calls    *)
(* that a migration may overtake.                                          *)
(*                                                                         *)
(* A subdirectory is a directory of the same kind; here it stays flat.     *)
(***************************************************************************)
EXTENDS Naturals, FiniteSets

CONSTANTS
    Actors,       \* the threads that write and read objects
    Processes,    \* the processes they belong to
    Objects,      \* object hashes
    Threshold,    \* THRESHOLD
    NoActor,      \* the migration mutex is free
    NoObject,     \* an actor that is not writing or moving anything
    MaxFailures   \* bound on kills and I/O errors

ASSUME ActorsAssumption ==
    NoActor \notin Actors /\ NoObject \notin Objects
ASSUME LimitsAssumption == Threshold \in Nat /\ MaxFailures \in Nat

VARIABLES
    flat,       \* the object files directly in the directory
    sub,        \* the object files in its subdirectories
    depth,      \* the `.depth` file
    migrating,  \* the `.migrating` marker is there
    process,    \* process[a]: the process of thread a; never changes
    lock,       \* lock[p]: who holds process p's migration_lock for this directory
    pc,         \* pc[a]: the next file system call of a
    obj,        \* obj[a]: the object a is writing or looking for
    listing,    \* listing[a]: the directory entries its migration has still to move
    cur,        \* cur[a]: the entry it is moving
    written,    \* objects a write_stream put or found in place (history)
    late,       \* objects put in the flat directory after a migration began (history)
    due,        \* readers whose object had been written when they began (history)
    crossed,    \* those of them that a migration overtook between two calls (history)
    failures

disk == <<flat, sub, depth, migrating>>
rest == <<process, written, late, due, crossed, failures>>
vars == <<flat, sub, depth, migrating, process, lock, pc, obj, listing, cur, written, late, due, crossed,
          failures>>

\* The calls of do_migration; the second set is after the directory was read.
Moving == {"move", "rename", "remove"}
Migrating == {"list", "clearMarker"} \cup Moving
\* The calls of find_in and of the open that follows it: findFlat if no marker
\* was seen, findEither if one was; at absent it has come back empty-handed.
Reading == {"findMarker", "findFlat", "findEither", "findSub", "openFlat", "absent"}
PCs == {"idle", "resume", "readDepth", "probe", "persist", "count",
        "start", "intoSub"} \cup Migrating \cup Reading

TypeOK ==
    /\ flat \subseteq Objects /\ sub \subseteq Objects
    /\ depth \in {0, 1} /\ migrating \in BOOLEAN
    /\ process \in [Actors -> Processes]
    /\ lock \in [Processes -> Actors \cup {NoActor}]
    /\ pc \in [Actors -> PCs]
    /\ obj \in [Actors -> Objects \cup {NoObject}]
    /\ listing \in [Actors -> SUBSET Objects]
    /\ cur \in [Actors -> Objects \cup {NoObject}]
    /\ written \subseteq Objects /\ late \subseteq Objects
    /\ due \subseteq Actors /\ crossed \subseteq Actors
    /\ failures \in 0..MaxFailures

Init ==
    /\ flat = {} /\ sub = {} /\ depth = 0 /\ migrating = FALSE
    /\ process \in [Actors -> Processes]
    /\ lock = [p \in Processes |-> NoActor]
    /\ pc = [a \in Actors |-> "idle"]
    /\ obj = [a \in Actors |-> NoObject]
    /\ listing = [a \in Actors |-> {}]
    /\ cur = [a \in Actors |-> NoObject]
    /\ written = {} /\ late = {} /\ due = {} /\ crossed = {} /\ failures = 0

Goto(a, l) == pc' = [pc EXCEPT ![a] = l]
Free(a) == lock[process[a]] = NoActor
Take(a) == lock' = [lock EXCEPT ![process[a]] = a]
\* Dropping the guard, if a holds it.
Released(a) == [lock EXCEPT ![process[a]] = IF @ = a THEN NoActor ELSE @]

\* A call returns, whichever way.
Return(a) ==
    /\ Goto(a, "idle")
    /\ obj' = [obj EXCEPT ![a] = NoObject]

\* A lookup is over.
Forget(a) == due' = due \ {a} /\ crossed' = crossed \ {a}

-----------------------------------------------------------------------------
(* find_in, and the open of the file it found.                             *)

\* A lookup reads `.depth` first.
Find(a, o) ==
    /\ pc[a] = "idle"
    /\ obj' = [obj EXCEPT ![a] = o]
    /\ due' = IF o \in written THEN due \cup {a} ELSE due
    /\ Goto(a, IF depth = 0 THEN "findMarker" ELSE "findSub")
    /\ UNCHANGED <<disk, process, lock, listing, cur, written, late, crossed, failures>>

\* At depth 0 it matters whether a migration is under way.
FindMarker(a) ==
    /\ pc[a] = "findMarker"
    /\ Goto(a, IF migrating THEN "findEither" ELSE "findFlat")
    /\ UNCHANGED <<disk, lock, obj, listing, cur, rest>>

\* The flat file, then with the marker the one in the subdirectory.  exists is
\* content with the path; open_read goes on to open it.
FindFlat(a) ==
    /\ pc[a] \in {"findFlat", "findEither"}
    /\ \/ /\ obj[a] \in flat
          /\ \/ Return(a) /\ Forget(a)
             \/ Goto(a, "openFlat") /\ UNCHANGED <<obj, due, crossed>>
       \/ /\ obj[a] \notin flat
          /\ Goto(a, IF pc[a] = "findEither" THEN "findSub" ELSE "absent")
          /\ UNCHANGED <<obj, due, crossed>>
    /\ UNCHANGED <<disk, process, lock, listing, cur, written, late, failures>>

\* find_in on the subdirectory; no file there ever moves again.
FindSub(a) ==
    /\ pc[a] = "findSub"
    /\ IF obj[a] \in sub THEN Return(a) /\ Forget(a)
       ELSE Goto(a, "absent") /\ UNCHANGED <<obj, due, crossed>>
    /\ UNCHANGED <<disk, process, lock, listing, cur, written, late, failures>>

\* The file is opened under the path that was found.
OpenRead(a) ==
    /\ pc[a] = "openFlat"
    /\ IF obj[a] \in flat THEN Return(a) /\ Forget(a)
       ELSE Goto(a, "absent") /\ UNCHANGED <<obj, due, crossed>>
    /\ UNCHANGED <<disk, process, lock, listing, cur, written, late, failures>>

\* The caller learns that the object is not there.
NotFound(a) ==
    /\ pc[a] = "absent"
    /\ Return(a) /\ Forget(a)
    /\ UNCHANGED <<disk, process, lock, listing, cur, written, late, failures>>

-----------------------------------------------------------------------------
(* write_stream_in.                                                        *)

\* The write begins by looking for a migration to resume.
WriteStream(a, o) ==
    /\ pc[a] = "idle"
    /\ obj' = [obj EXCEPT ![a] = o]
    /\ Goto(a, IF migrating THEN "resume" ELSE "readDepth")
    /\ UNCHANGED <<disk, lock, listing, cur, rest>>

\* Under the mutex the marker is looked at again.
Resume(a) ==
    /\ pc[a] = "resume" /\ Free(a)
    /\ IF migrating THEN Take(a) /\ Goto(a, "list")
       ELSE UNCHANGED lock /\ Goto(a, "readDepth")
    /\ UNCHANGED <<disk, obj, listing, cur, rest>>

ReadDepth(a) ==
    /\ pc[a] = "readDepth"
    /\ Goto(a, IF depth = 0 THEN "probe" ELSE "intoSub")
    /\ UNCHANGED <<disk, lock, obj, listing, cur, rest>>

\* The flat file is already there, or it has to be written.
Probe(a) ==
    /\ pc[a] = "probe"
    /\ IF obj[a] \in flat
       THEN Return(a) /\ written' = written \cup {obj[a]}
       ELSE Goto(a, "persist") /\ UNCHANGED <<obj, written>>
    /\ UNCHANGED <<disk, lock, listing, cur, late, due, crossed, failures, process>>

\* The temporary file, filled from the reader, is renamed into place; the
\* depth that was read may be out of date by now.
Persist(a) ==
    /\ pc[a] = "persist"
    /\ flat' = flat \cup {obj[a]}
    /\ written' = written \cup {obj[a]}
    /\ late' = IF migrating \/ depth = 1 THEN late \cup {obj[a]} ELSE late
    /\ Goto(a, "count")
    /\ UNCHANGED <<process, sub, depth, migrating, lock, obj, listing, cur, due, crossed, failures>>

\* count_objects decides whether to migrate.
Count(a) ==
    /\ pc[a] = "count"
    /\ IF Cardinality(flat) > Threshold THEN Goto(a, "start") /\ UNCHANGED obj
       ELSE Return(a)
    /\ UNCHANGED <<disk, lock, listing, cur, rest>>

\* The write into the subdirectory, itself a flat directory.
IntoSub(a) ==
    /\ pc[a] = "intoSub"
    /\ sub' = sub \cup {obj[a]}
    /\ written' = written \cup {obj[a]}
    /\ Return(a)
    /\ UNCHANGED <<process, flat, depth, migrating, lock, listing, cur, late, due, crossed, failures>>

-----------------------------------------------------------------------------
(* Migration.                                                              *)

\* Mutant: files are moved before the marker is written.
StartUnmarked(a) ==
    /\ pc[a] = "start" /\ Free(a)
    /\ Take(a)
    /\ obj' = [obj EXCEPT ![a] = NoObject]
    /\ Goto(a, "list")
    /\ UNCHANGED <<disk, listing, cur, rest>>

\* start_migration: the marker is written unless it is there.  The write
\* itself is done; nothing is left to write when the migration ends.
StartMigration(a) ==
    /\ pc[a] = "start" /\ Free(a)
    /\ Take(a)
    /\ migrating' = TRUE
    /\ obj' = [obj EXCEPT ![a] = NoObject]
    /\ Goto(a, "list")
    /\ UNCHANGED <<flat, sub, depth, listing, cur, rest>>

\* do_migration reads the directory once.
List(a) ==
    /\ pc[a] = "list"
    /\ listing' = [listing EXCEPT ![a] = flat]
    /\ Goto(a, "move")
    /\ UNCHANGED <<disk, lock, obj, cur, rest>>

\* Mutant: the check of the subdirectory is inverted.
MoveInverted(a, o) ==
    /\ pc[a] = "move" /\ o \in listing[a]
    /\ listing' = [listing EXCEPT ![a] = @ \ {o}]
    /\ cur' = [cur EXCEPT ![a] = o]
    /\ Goto(a, IF o \in sub THEN "rename" ELSE "remove")
    /\ UNCHANGED <<disk, lock, obj, rest>>

\* One entry: does the subdirectory have the file already?
Move(a, o) ==
    /\ pc[a] = "move" /\ o \in listing[a]
    /\ listing' = [listing EXCEPT ![a] = @ \ {o}]
    /\ cur' = [cur EXCEPT ![a] = o]
    /\ Goto(a, IF o \in sub THEN "remove" ELSE "rename")
    /\ UNCHANGED <<disk, lock, obj, rest>>

\* Readers that rely on the flat copy of o: it was there, or nothing but a
\* migration they have not seen can have taken it away.
RelyOnFlat(o) == {b \in due : obj[b] = o /\ pc[b] \in {"findFlat", "openFlat"}}

\* The flat copy is moved; another actor may have moved it meanwhile.
Rename(a) ==
    /\ pc[a] = "rename"
    /\ flat' = flat \ {cur[a]}
    /\ sub' = IF cur[a] \in flat THEN sub \cup {cur[a]} ELSE sub
    /\ cur' = [cur EXCEPT ![a] = NoObject]
    /\ crossed' = crossed \cup RelyOnFlat(cur[a])
    /\ Goto(a, "move")
    /\ UNCHANGED <<depth, migrating, process, lock, obj, listing, written, late, due, failures>>

\* The stale flat copy is removed.
Remove(a) ==
    /\ pc[a] = "remove"
    /\ flat' = flat \ {cur[a]}
    /\ cur' = [cur EXCEPT ![a] = NoObject]
    /\ crossed' = crossed \cup RelyOnFlat(cur[a])
    /\ Goto(a, "move")
    /\ UNCHANGED <<sub, depth, migrating, process, lock, obj, listing, written, late, due, failures>>

\* Mutant: every migration increments the depth.
SetDepthNext(a) ==
    /\ pc[a] = "move" /\ listing[a] = {}
    /\ depth' = depth + 1
    /\ Goto(a, "clearMarker")
    /\ UNCHANGED <<flat, sub, migrating, lock, obj, listing, cur, rest>>

\* A reader that has read depth 0 and not yet the marker may find it gone.
SetDepth(a) ==
    /\ pc[a] = "move" /\ listing[a] = {}
    /\ depth' = 1
    /\ crossed' = crossed \cup {b \in due : pc[b] = "findMarker"}
    /\ Goto(a, "clearMarker")
    /\ UNCHANGED <<flat, sub, migrating, process, lock, obj, listing, cur, written, late, due, failures>>

\* Mutant: the migration ends without giving the mutex back.
ClearKeepsLock(a) ==
    /\ pc[a] = "clearMarker"
    /\ migrating' = FALSE
    /\ Goto(a, IF obj[a] = NoObject THEN "idle" ELSE "readDepth")
    /\ UNCHANGED <<flat, sub, depth, lock, obj, listing, cur, rest>>

\* The last call of do_migration; a resumed write goes on, a finished one returns.
ClearMarker(a) ==
    /\ pc[a] = "clearMarker"
    /\ migrating' = FALSE
    /\ lock' = Released(a)
    /\ Goto(a, IF obj[a] = NoObject THEN "idle" ELSE "readDepth")
    /\ UNCHANGED <<flat, sub, depth, obj, listing, cur, rest>>

\* Killed, or an I/O error: what is on disk stays, the guard is dropped.
Fail(a) ==
    /\ pc[a] # "idle" /\ failures < MaxFailures
    /\ failures' = failures + 1
    /\ lock' = Released(a)
    /\ listing' = [listing EXCEPT ![a] = {}]
    /\ cur' = [cur EXCEPT ![a] = NoObject]
    /\ Return(a) /\ Forget(a)
    /\ UNCHANGED <<process, disk, written, late>>

-----------------------------------------------------------------------------
Step(a) ==
    \/ Resume(a) \/ ReadDepth(a) \/ Probe(a) \/ Persist(a) \/ Count(a)
    \/ IntoSub(a) \/ StartMigration(a) \/ List(a) \/ (\E o \in Objects : Move(a, o))
    \/ Rename(a) \/ Remove(a) \/ SetDepth(a) \/ ClearMarker(a)
    \/ FindMarker(a) \/ FindFlat(a) \/ FindSub(a) \/ OpenRead(a) \/ NotFound(a)

Next == \E a \in Actors :
    Step(a) \/ Fail(a) \/ (\E o \in Objects : WriteStream(a, o) \/ Find(a, o))

Spec == Init /\ [][Next]_vars

\* The operating system keeps every running command going; nobody has to
\* begin a write or a lookup, and nothing has to fail.
FairSpec == Spec /\ \A a \in Actors : WF_vars(Step(a))

-----------------------------------------------------------------------------
(* Properties.                                                             *)

\* No migration, resumed, doubled by another process or killed half-way, ever
\* removes the last copy of an object.
NothingVanishes == written \subseteq flat \cup sub

\* A lookup, or a read, of an object that had been written when it began comes
\* back empty-handed in two cases only.  A migration overtook it in one of the
\* windows of find_in and open_read (`.depth` was written between its reads of
\* `.depth` and `.migrating`, or the flat file it relied on was moved); or the
\* object was put in the flat directory after a migration began.  So a reader
\* that works while files are being moved, half moved, left half-way by a crash
\* or moved twice finds them all.
FoundUnlessMoved ==
    \A a \in due \ crossed : pc[a] = "absent" => obj[a] \in late

\* The same without the second exception, and without the first; neither holds.
WrittenIsFound == \A a \in due \ crossed : pc[a] # "absent"
MigrationIsInvisible == \A a \in due : pc[a] = "absent" => obj[a] \in late

\* A write never waits for ever on migration_lock, and a lookup always ends.
WriteReturns == \A a \in Actors : pc[a] # "idle" ~> pc[a] = "idle"
=============================================================================
