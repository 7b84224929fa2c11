------------------------- MODULE ObjectsDir_proofs -------------------------
(***************************************************************************)
(* Proofs about ObjectsDir, for any threads, processes, objects, threshold *)
(* and number of failures.                                                 *)
(***************************************************************************)
EXTENDS ObjectsDir, TLAPS

\* Files are in subdirectories only once a migration has begun, and `.depth`
\* never goes back.
BegunInv ==
    /\ sub # {} => migrating \/ depth = 1
    /\ \A a \in Actors :
         /\ pc[a] \in Migrating => migrating \/ depth = 1
         /\ pc[a] \in {"intoSub", "clearMarker"} => depth = 1

\* A migration that has read the directory still has every file on its list
\* that was there before it began and is not in a subdirectory yet.
ListInv ==
    /\ \A a \in Actors :
         /\ pc[a] = "move" => flat \ late \subseteq sub \cup listing[a]
         /\ pc[a] \in {"rename", "remove"} =>
              /\ flat \ late \subseteq sub \cup listing[a] \cup {cur[a]}
              /\ cur[a] \in Objects
         /\ pc[a] = "remove" => cur[a] \in sub
    /\ depth = 1 => flat \ late \subseteq sub

\* A thread that has something to write or to find knows what.
ObjInv ==
    \A a \in Actors :
        pc[a] \in {"resume", "readDepth", "probe", "persist", "count", "start", "intoSub"} \cup Reading
            => obj[a] \in Objects

\* A lookup that no migration overtook still sees the directory as it has to:
\* having read depth 0 before the marker, no depth 1; having found the flat file
\* or no marker, the flat file; with nothing left but the subdirectory, the file
\* there, unless it was put in the flat directory too late.
ReadInv ==
    /\ \A a \in due : pc[a] \in Reading /\ obj[a] \in written
    /\ \A a \in due \ crossed :
         /\ pc[a] = "findMarker" => depth = 0
         /\ pc[a] \in {"findFlat", "openFlat"} => obj[a] \in flat
         /\ pc[a] \in {"findSub", "absent"} => obj[a] \in sub \cup late
         /\ pc[a] = "absent" => obj[a] \in late

IndInv == TypeOK /\ BegunInv /\ ListInv /\ ObjInv /\ NothingVanishes /\ ReadInv

\* The empty directory.
LEMMA InitInv == Init => IndInv
<1> SUFFICES ASSUME Init PROVE IndInv OBVIOUS
<1>1. TypeOK
  <2>1. failures \in 0..MaxFailures BY LimitsAssumption DEF Init
  <2>2. depth \in {0, 1} /\ migrating \in BOOLEAN BY DEF Init
  <2>3. pc \in [Actors -> PCs] BY DEF Init, PCs
  <2>4. /\ process \in [Actors -> Processes] /\ lock \in [Processes -> Actors \cup {NoActor}]
        /\ obj \in [Actors -> Objects \cup {NoObject}]
        /\ cur \in [Actors -> Objects \cup {NoObject}]
        /\ listing \in [Actors -> SUBSET Objects]
    BY DEF Init
  <2> QED BY <2>1, <2>2, <2>3, <2>4 DEF Init, TypeOK
<1>2. \A a \in Actors : pc[a] = "idle" BY DEF Init
<1>3. BegunInv /\ ObjInv /\ ReadInv BY <1>2 DEF Init, BegunInv, ObjInv, ReadInv, Migrating, Moving, Reading
<1>4. ListInv BY <1>2 DEF Init, ListInv
<1>5. NothingVanishes BY DEF Init, NothingVanishes
<1> QED BY <1>1, <1>3, <1>4, <1>5 DEF IndInv

\* Every step keeps the types.
LEMMA TypeStep == TypeOK /\ ObjInv /\ [Next]_vars => TypeOK'
<1> SUFFICES ASSUME TypeOK, ObjInv, [Next]_vars PROVE TypeOK' OBVIOUS
<1> USE DEF TypeOK, ObjInv, PCs, Migrating, Moving, Reading, Goto, Return, Forget, Take, Released, disk, rest
<1>1. CASE UNCHANGED vars BY <1>1 DEF vars
<1>2. ASSUME NEW a \in Actors, NEW o \in Objects, WriteStream(a, o) PROVE TypeOK'
  BY <1>2 DEF WriteStream
<1>5. ASSUME NEW a \in Actors, NEW o \in Objects, Find(a, o) PROVE TypeOK' BY <1>5 DEF Find
<1>3. ASSUME NEW a \in Actors, Fail(a) PROVE TypeOK' BY <1>3, LimitsAssumption DEF Fail
<1>4. ASSUME NEW a \in Actors, Step(a) PROVE TypeOK'
  <2>1. CASE Resume(a) BY <2>1 DEF Resume
  <2>2. CASE ReadDepth(a) BY <2>2 DEF ReadDepth
  <2>3. CASE Probe(a) BY <2>3 DEF Probe
  <2>4. CASE Persist(a) BY <2>4 DEF Persist
  <2>5. CASE Count(a) BY <2>5 DEF Count
  <2>6. CASE IntoSub(a) BY <2>6 DEF IntoSub
  <2>7. CASE StartMigration(a) BY <2>7 DEF StartMigration
  <2>8. CASE List(a) BY <2>8 DEF List
  <2>9. ASSUME NEW o \in Objects, Move(a, o) PROVE TypeOK' BY <2>9 DEF Move
  <2>10. CASE Rename(a) BY <2>10 DEF Rename, RelyOnFlat
  <2>11. CASE Remove(a) BY <2>11 DEF Remove, RelyOnFlat
  <2>12. CASE SetDepth(a) BY <2>12 DEF SetDepth
  <2>13. CASE ClearMarker(a) BY <2>13 DEF ClearMarker
  <2>14. CASE FindMarker(a) BY <2>14 DEF FindMarker
  <2>15. CASE FindFlat(a) BY <2>15 DEF FindFlat
  <2>16. CASE FindSub(a) BY <2>16 DEF FindSub
  <2>17. CASE OpenRead(a) BY <2>17 DEF OpenRead
  <2>18. CASE NotFound(a) BY <2>18 DEF NotFound
  <2> QED BY <1>4, <2>1, <2>2, <2>3, <2>4, <2>5, <2>6, <2>7, <2>8, <2>9, <2>10, <2>11,
             <2>12, <2>13, <2>14, <2>15, <2>16, <2>17, <2>18 DEF Step
<1> QED BY <1>1, <1>2, <1>3, <1>4, <1>5 DEF Next

\* Every step keeps the rest of the invariant.
LEMMA StepInv == IndInv /\ [Next]_vars => IndInv'
<1> SUFFICES ASSUME IndInv, [Next]_vars PROVE IndInv' OBVIOUS
<1>0. TypeOK' BY TypeStep DEF IndInv
<1> DEFINE Kept == BegunInv' /\ ListInv' /\ ObjInv' /\ NothingVanishes' /\ ReadInv'
<1> USE DEF IndInv, TypeOK, BegunInv, ListInv, ObjInv, NothingVanishes, ReadInv, PCs, Migrating, Moving,
        Reading, Goto, Return, Forget, Take, Released, disk, rest
<1>1. CASE UNCHANGED vars BY <1>1 DEF vars
<1>2. ASSUME NEW a \in Actors, NEW o \in Objects, WriteStream(a, o) PROVE Kept
  BY <1>2 DEF WriteStream
<1>5. ASSUME NEW a \in Actors, NEW o \in Objects, Find(a, o) PROVE Kept BY <1>5 DEF Find
<1>3. ASSUME NEW a \in Actors, Fail(a) PROVE Kept BY <1>3 DEF Fail
<1>4. ASSUME NEW a \in Actors, Step(a) PROVE Kept
  <2>1. CASE Resume(a) BY <2>1 DEF Resume
  <2>2. CASE ReadDepth(a) BY <2>2 DEF ReadDepth
  <2>3. CASE Probe(a) BY <2>3 DEF Probe
  <2>4. CASE Persist(a) BY <2>4 DEF Persist
  <2>5. CASE Count(a) BY <2>5 DEF Count
  <2>6. CASE IntoSub(a) BY <2>6 DEF IntoSub
  <2>7. CASE StartMigration(a) BY <2>7, ActorsAssumption DEF StartMigration
  <2>8. CASE List(a) BY <2>8 DEF List
  <2>9. ASSUME NEW o \in Objects, Move(a, o) PROVE Kept BY <2>9 DEF Move
  <2>10. CASE Rename(a) BY <2>10 DEF Rename, RelyOnFlat
  <2>11. CASE Remove(a) BY <2>11 DEF Remove, RelyOnFlat
  <2>12. CASE SetDepth(a) BY <2>12 DEF SetDepth
  <2>13. CASE ClearMarker(a) BY <2>13 DEF ClearMarker
  <2>14. CASE FindMarker(a) BY <2>14 DEF FindMarker
  <2>15. CASE FindFlat(a) BY <2>15 DEF FindFlat
  <2>16. CASE FindSub(a) BY <2>16 DEF FindSub
  <2>17. CASE OpenRead(a) BY <2>17 DEF OpenRead
  <2>18. CASE NotFound(a) BY <2>18 DEF NotFound
  <2> QED BY <1>4, <2>1, <2>2, <2>3, <2>4, <2>5, <2>6, <2>7, <2>8, <2>9, <2>10, <2>11,
             <2>12, <2>13, <2>14, <2>15, <2>16, <2>17, <2>18 DEF Step
<1> QED BY <1>0, <1>1, <1>2, <1>3, <1>4, <1>5 DEF Next

\* The inductive invariant holds throughout.
LEMMA Invariance == Spec => []IndInv
BY InitInv, StepInv, PTL DEF Spec

\* The type invariant: `.depth` is 0 or 1 however often a directory is migrated.
THEOREM TypeCorrect == Spec => []TypeOK
<1>1. IndInv => TypeOK BY DEF IndInv
<1> QED BY <1>1, Invariance, PTL

\* do_migration, run by any number of threads and processes at once and killed
\* anywhere, never removes the last copy of an object.
THEOREM NoCopyLost == Spec => []NothingVanishes
<1>1. IndInv => NothingVanishes BY DEF IndInv
<1> QED BY <1>1, Invariance, PTL

\* find_in and open_read, as separate calls beside any number of threads and
\* processes that write, migrate, crash and resume, miss an object written
\* before they began only if a migration moved it, or ended, between two of
\* their calls, or if it was put in the flat directory too late.
THEOREM ReadersMissOnlyMoves == Spec => []FoundUnlessMoved
<1>1. IndInv => FoundUnlessMoved BY DEF IndInv, ReadInv, FoundUnlessMoved
<1> QED BY <1>1, Invariance, PTL
=============================================================================
