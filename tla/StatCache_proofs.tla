-------------------------- MODULE StatCache_proofs --------------------------
(***************************************************************************)
(* Proofs about StatCache, for any files, contents, scopes, timestamp      *)
(* granularity, racy window, sample size and bounds.                       *)
(***************************************************************************)
EXTENDS StatCache, TLAPS

\* An entry that lookup_current_entry may return for p is old enough that no
\* edit can take its timestamp again, and true of the file as it is.
Safe(p, e) ==
    (e # None /\ ~e.racy) =>
        /\ e.m + Racy <= now
        /\ file[p].m = e.m => file[p].c = e.c

\* Every copy of the cache is safe, and so is what a scan is going to record
\* as safe.
SafeInv ==
    /\ \A a \in Actors : start[a] <= now
    /\ \A p \in Paths \ misled :
         /\ Safe(p, ents[p]) /\ Safe(p, ls.ents[p])
         /\ \A a \in Actors :
              /\ Safe(p, mem[a][p])
              /\ (res[a][p] \in Scanned /\ start[a] - res[a][p].m >= Racy) =>
                    (file[p].m = res[a][p].m => file[p].c = res[a][p].c)

\* A result taken from the cache is the entry's.
HitInv ==
    \A a \in Actors, p \in Paths :
        (pc[a] = "scan" /\ res[a][p] \in Scanned /\ res[a][p].hit) =>
            mem[a][p] # None /\ mem[a][p].c = res[a][p].c

\* Epochs are drawn once.
EpochInv ==
    /\ epoch <= epochs /\ marker <= epochs
    /\ push.epoch <= epochs /\ ls.epoch <= epochs

\* What a running push has sealed or is going to seal is there.
Stocked ==
    /\ \A p \in Sealed(mem["push"]) : mem["push"][p].c \in objects
    /\ pc["push"] = "scan" =>
         \A p \in Paths : res["push"][p] \in Scanned => res["push"][p].c \in objects
PushInv == ~unguarded => Stocked

\* What ls is going to write seals nothing new: the copy it has read is as
\* honest as the cache was, under the epoch it read with it.
ListInv ==
    /\ \A p \in ls.changed : mem["ls"][p] # None => ~mem["ls"][p].sealed
    /\ (~unguarded /\ ls.epoch # 0 /\ ls.epoch = marker) =>
          \A p \in Sealed(ls.ents) : ls.ents[p].c \in objects

\* Nothing is left in memory by a push that is not running, one that uploads
\* has resolved every file, a scan resolves none before the listing, and an ls
\* has changed nothing before it is done.
PhaseInv ==
    /\ pc["push"] = "idle" => mem["push"] = NoEntries
    /\ pc["push"] \in {"write", "upload"} => \A p \in Paths : res["push"][p] # Pending
    /\ \A a \in Actors : pc[a] = "list" => \A p \in Paths : res[a][p] \in {None, Pending}
    /\ pc["ls"] # "write" => ls.changed = {}

\* Once a push has failed and cleared the seals, and no ls has put one back,
\* whatever a push may trust is there: it will not fail for want of an object.
\* What the clone root refers to has been uploaded.
Held ==
    /\ \A p \in Sealed(ents) : ents[p].c \in objects
    /\ \A p \in Sealed(mem["push"]) : mem["push"][p].c \in objects
    /\ \A p \in Paths : res["push"][p] \in Scanned => res["push"][p].c \in objects
RetryInv ==
    /\ \A p \in Paths : clone[p] # None => clone[p].c \in uploaded
    /\ (retries > 0 /\ ~reverted) => retries = 1 /\ Held

IndInv ==
    RetryInv /\ TypeOK /\ PhaseInv /\ SafeInv /\ HitInv /\ EpochInv /\ PushInv /\ ListInv /\ SealsHonest

-----------------------------------------------------------------------------
(* Operators.                                                              *)

\* What `%` returns.
LEMMA Remainder ==
    ASSUME NEW n \in Nat, NEW g \in Nat \ {0}
    PROVE  n % g \in 0..(g - 1) /\ n % g <= n
<1>1. n % g \in 0..(g - 1) OBVIOUS
<1>2. CASE n < g
  <2>1. n % g = n BY <1>2
  <2> QED BY <1>1, <2>1
<1>3. CASE n >= g BY <1>1, <1>3
<1> QED BY <1>2, <1>3

\* The timestamp of an edit is one, and newer than any that is safe by now.
LEMMA Stamp ==
    ASSUME now \in Times
    PROVE  /\ now - (now % Granularity) \in Times
           /\ \A m \in Times : m + Racy <= now => now - (now % Granularity) # m
<1>1. now \in Nat /\ now <= MaxTime BY BoundsAssumption DEF Times
<1>2. now % Granularity \in 0..(Granularity - 1) /\ now % Granularity <= now
  BY <1>1, Remainder, ClockAssumption
<1> DEFINE k == now % Granularity
<1>3. k \in 0..(Granularity - 1) /\ k <= now BY <1>2
<1> HIDE DEF k
<1>4. /\ now - k \in Times
      /\ \A m \in Times : m + Racy <= now => now - k # m
  BY <1>1, <1>3, ClockAssumption, BoundsAssumption DEF Times
<1> QED BY <1>4 DEF k

\* Records are not the markers for their absence.
LEMMA NotNone ==
    /\ \A e \in Entries : e # None
    /\ \A r \in Scanned : r # None /\ r # Pending
    /\ \A v \in Versions : v # None
    /\ None # Pending
BY NoneAssumption DEF Entries, Scanned, Versions, Times

\* clear_all_sealed changes nothing but the SEALED bit.
LEMMA Cleared ==
    ASSUME NEW es \in [Paths -> Entries \cup {None}]
    PROVE  /\ ClearAllSealed(es) \in [Paths -> Entries \cup {None}]
           /\ Sealed(ClearAllSealed(es)) = {}
           /\ \A p \in Paths : Safe(p, es[p]) => Safe(p, ClearAllSealed(es)[p])
<1>1. ASSUME NEW p \in Paths
      PROVE  /\ Unseal(es[p]) \in Entries \cup {None}
             /\ Unseal(es[p]) # None => ~Unseal(es[p]).sealed
             /\ Safe(p, es[p]) => Safe(p, Unseal(es[p]))
  <2>1. CASE es[p] = None BY <2>1 DEF Unseal
  <2>2. CASE es[p] \in Entries
    <3>1. Unseal(es[p]) = [es[p] EXCEPT !.sealed = FALSE] BY <2>2, NotNone DEF Unseal
    <3>2. /\ Unseal(es[p]) \in Entries /\ ~Unseal(es[p]).sealed
          /\ Unseal(es[p]).m = es[p].m /\ Unseal(es[p]).c = es[p].c
          /\ Unseal(es[p]).racy = es[p].racy
      BY <2>2, <3>1 DEF Entries
    <3> QED BY <2>2, <3>2, NotNone DEF Safe
  <2> QED BY <2>1, <2>2
<1>2. \A p \in Paths : ClearAllSealed(es)[p] = Unseal(es[p]) BY DEF ClearAllSealed
<1>3. ClearAllSealed(es) \in [Paths -> Entries \cup {None}] BY <1>1 DEF ClearAllSealed
<1>4. Sealed(ClearAllSealed(es)) = {} BY <1>1, <1>2 DEF Sealed
<1> QED BY <1>1, <1>2, <1>3, <1>4

\* update and mark_sealed, for a scan that is done: the entry is safe if the
\* result is, an ls seals nothing it changes, and what a push seals it has.
LEMMA UpdatedEntry ==
    ASSUME TypeOK, SafeInv, HitInv, NEW a \in Actors, ScanDone(a), NEW p \in Paths
    PROVE  /\ Updated(a, p) \in Entries \cup {None}
           /\ p \notin misled => Safe(p, Updated(a, p))
           /\ (a = "ls" /\ Updated(a, p) # mem[a][p]) => ~Updated(a, p).sealed
           /\ (a = "push" /\ Stocked /\ Updated(a, p) # None /\ Updated(a, p).sealed) =>
                Updated(a, p).c \in objects
<1> DEFINE r == res[a][p]
           e == mem[a][p]
<1>0. /\ r \in Scanned \cup {None} /\ e \in Entries \cup {None}
      /\ pc[a] = "scan" /\ start[a] \in Times /\ now \in Times
  BY DEF TypeOK, ScanDone
<1>1. CASE r = None
  <2>1. Updated(a, p) = e BY <1>1 DEF Updated
  <2>2. p \notin misled => Safe(p, e) BY DEF SafeInv
  <2>3. (a = "push" /\ Stocked /\ e # None /\ e.sealed) => e.c \in objects
    BY DEF Stocked, Sealed
  <2> QED BY <1>0, <2>1, <2>2, <2>3
<1>2. CASE r \in Scanned /\ r.hit
  <2>1. e \in Entries /\ e.c = r.c BY <1>0, <1>2 DEF HitInv
  <2>2. Updated(a, p) = [e EXCEPT !.sealed = @ \/ a = "push"]
    BY <1>2, NotNone DEF Updated
  <2>3. /\ Updated(a, p) \in Entries /\ Updated(a, p).c = e.c /\ Updated(a, p).m = e.m
        /\ Updated(a, p).racy = e.racy
        /\ a = "ls" => Updated(a, p) = e
    BY <2>1, <2>2 DEF Entries
  <2>4. p \notin misled => Safe(p, Updated(a, p))
    <3>1. p \notin misled => Safe(p, e) BY DEF SafeInv
    <3> QED BY <2>1, <2>3, <3>1, NotNone DEF Safe
  <2>5. (a = "push" /\ Stocked) => r.c \in objects
    BY <1>0, <1>2 DEF Stocked
  <2> QED BY <2>1, <2>3, <2>4, <2>5
<1>3. CASE r \in Scanned /\ ~r.hit
  <2>1. Updated(a, p) = [c |-> r.c, m |-> r.m, racy |-> start[a] - r.m < Racy,
                         sealed |-> a = "push"]
    BY <1>3, NotNone DEF Updated
  <2>2. /\ Updated(a, p) \in Entries /\ Updated(a, p).c = r.c /\ Updated(a, p).m = r.m
        /\ Updated(a, p).racy = (start[a] - r.m < Racy)
        /\ Updated(a, p).sealed = (a = "push")
    BY <1>3, <2>1 DEF Entries, Scanned
  <2>3. p \notin misled => Safe(p, Updated(a, p))
    <3>1. ASSUME p \notin misled, start[a] - r.m >= Racy
          PROVE  r.m + Racy <= now /\ (file[p].m = r.m => file[p].c = r.c)
      <4>1. r.m \in Times BY <1>3 DEF Scanned
      <4>2. start[a] <= now BY DEF SafeInv
      <4>3. r.m + Racy <= now
        BY <1>0, <3>1, <4>1, <4>2, ClockAssumption, BoundsAssumption DEF Times
      <4> QED BY <1>3, <3>1, <4>3 DEF SafeInv
    <3>2. r.m \in Times BY <1>3 DEF Scanned
    <3>3. start[a] - r.m < Racy \/ start[a] - r.m >= Racy
      BY <1>0, <3>2, ClockAssumption, BoundsAssumption DEF Times
    <3> QED BY <2>2, <3>1, <3>3 DEF Safe
  <2>4. (a = "push" /\ Stocked) => r.c \in objects
    BY <1>0, <1>3 DEF Stocked
  <2> QED BY <2>2, <2>3, <2>4 DEF Actors
<1> QED BY <1>0, <1>1, <1>2, <1>3
-----------------------------------------------------------------------------
(* The invariant.                                                          *)

\* A bounded counter that may still be raised.
LEMMA Counting ==
    ASSUME count \in Counts
    PROVE  /\ count.edits < MaxEdits => [count EXCEPT !.edits = @ + 1] \in Counts
           /\ count.pushes < MaxPushes => [count EXCEPT !.pushes = @ + 1] \in Counts
           /\ count.lists < MaxLists => [count EXCEPT !.lists = @ + 1] \in Counts
           /\ count.losses < MaxLosses => [count EXCEPT !.losses = @ + 1] \in Counts
<1>1. /\ count.edits \in 0..MaxEdits /\ count.pushes \in 0..MaxPushes
      /\ count.lists \in 0..MaxLists /\ count.losses \in 0..MaxLosses
  BY DEF Counts
<1>2. /\ count.edits < MaxEdits => count.edits + 1 \in 0..MaxEdits
      /\ count.pushes < MaxPushes => count.pushes + 1 \in 0..MaxPushes
      /\ count.lists < MaxLists => count.lists + 1 \in 0..MaxLists
      /\ count.losses < MaxLosses => count.losses + 1 \in 0..MaxLosses
  BY <1>1, BoundsAssumption
<1> QED BY <1>2 DEF Counts

\* Before anything has happened, or after the first push.
LEMMA InitInv == Init => IndInv
<1> SUFFICES ASSUME Init PROVE IndInv OBVIOUS
<1>1. /\ NoEntries \in [Paths -> Entries \cup {None}]
      /\ NoEntries \in [Paths -> Versions \cup {None}]
      /\ NoEntries \in [Paths -> Scanned \cup {None, Pending}]
      /\ NoStat \in [Paths -> Times]
      /\ 0 \in Times /\ Racy \in Times
  BY BoundsAssumption, ClockAssumption DEF NoEntries, NoStat, Times
<1>2. file \in [Paths -> Versions] /\ \A p \in Paths : file[p].m = 0
  BY <1>1 DEF Init, Versions
<1>3. ents \in [Paths -> Entries \cup {None}]
  <2>1. \A p \in Paths : [c |-> file[p].c, m |-> 0, racy |-> FALSE, sealed |-> TRUE] \in Entries
    BY <1>1, <1>2 DEF Entries, Versions
  <2> QED BY <1>1, <2>1 DEF Init
<1>4. now \in Times /\ epoch \in Nat /\ marker \in Nat /\ epochs \in Nat
  BY <1>1 DEF Init
<1>5. objects \subseteq Contents BY <1>2 DEF Init, Versions
<1>6. push \in PushStates BY DEF Init, NoPush, PushStates
<1>7. ls \in ListStates BY <1>1 DEF Init, NoList, ListStates
<1>8. count \in Counts BY BoundsAssumption DEF Init, Counts
<1>9. TypeOK
  BY <1>1, <1>2, <1>3, <1>4, <1>5, <1>6, <1>7, <1>8 DEF Init, TypeOK, PCs
<1>10. PhaseInv /\ HitInv BY DEF Init, PhaseInv, HitInv, Actors, NoEntries, NoList
<1>11. \A p \in Paths : Safe(p, ents[p])
  BY <1>2, <1>3, ClockAssumption DEF Init, Safe, NoEntries
<1>12. \A p \in Paths : NoEntries[p] = None BY DEF NoEntries
<1>13. SafeInv
  BY <1>1, <1>4, <1>11, <1>12, NotNone, BoundsAssumption DEF Init, SafeInv, Safe, NoList, Times, Actors
<1>14. EpochInv BY DEF Init, EpochInv, NoPush, NoList
<1>15. PushInv /\ ListInv BY <1>12 DEF Init, PushInv, Stocked, ListInv, Sealed, NoList, Actors
<1>16. SealsHonest BY <1>12 DEF Init, SealsHonest, Sealed
<1>17. RetryInv BY <1>12 DEF Init, RetryInv
<1> QED BY <1>9, <1>10, <1>13, <1>14, <1>15, <1>16, <1>17 DEF IndInv

\* Every step keeps the types.
LEMMA TypeStep == IndInv /\ [Next]_vars => TypeOK'
<1> SUFFICES ASSUME IndInv, [Next]_vars PROVE TypeOK' OBVIOUS
<1> USE DEF IndInv, TypeOK, PCs, Goto, world, disk, hist
<1>0. /\ NoEntries \in [Paths -> Entries \cup {None}]
      /\ NoEntries \in [Paths -> Versions \cup {None}]
      /\ NoEntries \in [Paths -> Scanned \cup {None, Pending}]
      /\ NoStat \in [Paths -> Times] /\ 0 \in Times
      /\ NoPush \in PushStates
      /\ NoList \in ListStates
  BY BoundsAssumption DEF NoEntries, NoStat, NoPush, NoList, Times, PushStates, ListStates
<1>1. CASE UNCHANGED vars
  BY <1>1 DEF vars
<1>2. CASE Tick
  BY <1>2, BoundsAssumption DEF Tick, Times
<1>3. ASSUME NEW p \in Paths, NEW c \in Contents, Edit(p, c)
       PROVE  TypeOK'
  BY <1>3, Stamp, Counting DEF Edit, Versions
<1>4. ASSUME NEW c \in Contents, Lose(c)
       PROVE  TypeOK'
  BY <1>4, Counting DEF Lose
<1>5. CASE LoseAll
  BY <1>5, Counting DEF LoseAll
<1>6. ASSUME NEW S \in PushScopes, NEW L \in {S, Paths}, PushLoad(S, L)
       PROVE  TypeOK'
  <2> DEFINE loaded == [p \in Paths |-> IF p \in L THEN ents[p] ELSE None]
  <2>1. loaded \in [Paths -> Entries \cup {None}] OBVIOUS
  <2>2. ClearAllSealed(loaded) \in [Paths -> Entries \cup {None}] BY <2>1, Cleared
  <2>3. ToScan(S) \in [Paths -> Scanned \cup {None, Pending}] BY DEF ToScan
  <2>4. mem' \in [Actors -> [Paths -> Entries \cup {None}]] BY <1>6, <2>1, <2>2 DEF PushLoad
  <2>5. res' \in [Actors -> [Paths -> Scanned \cup {None, Pending}]] BY <1>6, <2>3 DEF PushLoad
  <2>6. count' \in Counts
    BY <1>6, Counting DEF PushLoad
  <2>7. push' \in PushStates
    BY <1>6, ScopesAssumption DEF PushLoad, PushStates
  <2> QED BY <1>6, <2>4, <2>5, <2>6, <2>7 DEF PushLoad
<1>7. ASSUME NEW S \in ListScopes, ListLoad(S)
       PROVE  TypeOK'
  <2>1. ToScan(S) \in [Paths -> Scanned \cup {None, Pending}] BY DEF ToScan
  <2>2. mem' \in [Actors -> [Paths -> Entries \cup {None}]] BY <1>7 DEF ListLoad
  <2>3. res' \in [Actors -> [Paths -> Scanned \cup {None, Pending}]] BY <1>7, <2>1 DEF ListLoad
  <2>4. count' \in Counts
    BY <1>7, Counting DEF ListLoad
  <2>5. ls' \in ListStates BY <1>7 DEF ListLoad, ListStates
  <2> QED BY <1>7, <2>2, <2>3, <2>4, <2>5 DEF ListLoad
<1>8. ASSUME NEW a \in Actors, List(a)
       PROVE  TypeOK'
  BY <1>8 DEF List, Versions
<1>9. ASSUME NEW a \in Actors, NEW p \in Paths, TakeCached(a, p)
       PROVE  TypeOK'
  <2>1. [c |-> mem[a][p].c, m |-> stat[a][p], hit |-> TRUE] \in Scanned
    BY <1>9 DEF TakeCached, CacheHit, Entries, Scanned
  <2> QED BY <1>9, <2>1 DEF TakeCached, Resolved
<1>10. ASSUME NEW a \in Actors, NEW p \in Paths, TakeBase(a, p)
       PROVE  TypeOK'
  <2>1. Base(a)[p] \in Versions BY <1>10 DEF TakeBase, BaseHit, Base, ListStates
  <2>2. [c |-> Base(a)[p].c, m |-> stat[a][p], hit |-> FALSE] \in Scanned
    BY <2>1 DEF Versions, Scanned
  <2> QED BY <1>10, <2>2 DEF TakeBase, Resolved
<1>11. ASSUME NEW a \in Actors, NEW p \in Paths, ReadFile(a, p)
       PROVE  TypeOK'
  <2>1. [c |-> file[p].c, hit |-> FALSE, m |-> IF a = "push" THEN file[p].m ELSE stat[a][p]]
          \in Scanned
    BY DEF Versions, Scanned
  <2>2. objects' \subseteq Contents BY <1>11 DEF ReadFile, Versions
  <2> QED BY <1>11, <2>1, <2>2 DEF ReadFile, Resolved
<1>12. ASSUME NEW p \in Paths, Unstable(p)
       PROVE  TypeOK'
  BY <1>12 DEF Unstable, Resolved, Actors
<1>13. CASE Finalize
  <2>1. Applied("push") \in [Paths -> Entries \cup {None}]
    BY <1>13, UpdatedEntry DEF Finalize, Applied, Actors
  <2>2. mem' \in [Actors -> [Paths -> Entries \cup {None}]] BY <1>13, <2>1 DEF Finalize
  <2>3. push' \in PushStates
    <3>1. CASE push.needsNew
      <4>1. push' = [push EXCEPT !.epoch = epochs + 1, !.dirty = TRUE] BY <1>13, <3>1 DEF Finalize
      <4>2. epochs + 1 \in Nat OBVIOUS
      <4> QED BY <4>1, <4>2 DEF PushStates
    <3>2. CASE ~push.needsNew
      <4>1. push' = [push EXCEPT !.dirty = push.dirty \/ Changed("push") # {}]
        BY <1>13, <3>2 DEF Finalize
      <4>2. push.dirty \in BOOLEAN BY DEF PushStates
      <4>3. (push.dirty \/ Changed("push") # {}) \in BOOLEAN OBVIOUS
      <4> QED BY <4>1, <4>3 DEF PushStates
    <3> QED BY <3>1, <3>2
  <2> QED BY <1>13, <1>0, <2>2, <2>3 DEF Finalize, EndScan
<1>14. CASE WriteCache
  <2>1. mem["push"] \in [Paths -> Entries \cup {None}] BY DEF Actors
  <2>2. ClearAllSealed(ents) \in [Paths -> Entries \cup {None}] BY Cleared
  <2>3. ents' \in [Paths -> Entries \cup {None}] /\ epoch' \in Nat
    BY <1>14, <2>1, <2>2 DEF WriteCache, PushStates
  <2> QED BY <1>14, <1>0, <2>3 DEF WriteCache
<1>15. CASE Unchanged
  BY <1>15, <1>0 DEF Unchanged, Exit, EndScan
<1>16. CASE Reread
  <2>1. Applied("ls") \in [Paths -> Entries \cup {None}]
    BY <1>16, UpdatedEntry DEF Reread, Applied, Actors
  <2>2. mem' \in [Actors -> [Paths -> Entries \cup {None}]] BY <1>16, <2>1 DEF Reread
  <2>3. ls' \in ListStates
    BY <1>16, <1>0 DEF Reread, Changed, ListStates
  <2> QED BY <1>16, <1>0, <2>2, <2>3 DEF Reread, EndScan
<1>17. CASE MergeBack
  <2>1. mem["ls"] \in [Paths -> Entries \cup {None}] BY DEF Actors
  <2>2. ents' \in [Paths -> Entries \cup {None}] /\ epoch' \in Nat
    BY <1>17, <2>1 DEF MergeBack, ListStates
  <2>3. reverted' \in BOOLEAN BY <1>17 DEF MergeBack
  <2> QED BY <1>17, <1>0, <2>2, <2>3 DEF MergeBack, Exit, EndScan
<1>18. CASE Upload
  <2>1. \A p \in Paths : res["push"][p] \in Scanned \cup {None}
    BY <1>18 DEF Upload, PhaseInv, Actors
  <2>2. \A p \in Paths : TreeEntry(p) \in Versions \cup {None}
    BY <2>1 DEF TreeEntry, Scanned, Versions
  <2>3. NewTree \in [Paths -> Versions \cup {None}] BY <2>2 DEF NewTree
  <2>4. Needed \subseteq Contents BY <2>3 DEF Needed, Versions
  <2> QED BY <1>18, <1>0, <2>3, <2>4 DEF Upload, Exit, EndScan
<1>19. CASE Recover
  <2>1. ClearAllSealed(ents) \in [Paths -> Entries \cup {None}] BY Cleared
  <2>2. retries' \in Nat BY <1>19 DEF Recover
  <2> QED BY <1>19, <1>0, <2>1, <2>2 DEF Recover, Exit, EndScan
<1>20. CASE Abort
  BY <1>20, <1>0 DEF Abort, Exit, EndScan
<1> QED
  BY <1>1, <1>2, <1>3, <1>4, <1>5, <1>6, <1>7, <1>8, <1>9, <1>10, <1>11, <1>12, <1>13,
     <1>14, <1>15, <1>16, <1>17, <1>18, <1>19, <1>20 DEF Next

\* Every step keeps the bookkeeping.
LEMMA BookStep == IndInv /\ [Next]_vars => PhaseInv' /\ HitInv' /\ EpochInv'
<1> SUFFICES ASSUME IndInv, [Next]_vars PROVE PhaseInv' /\ HitInv' /\ EpochInv' OBVIOUS
<1> DEFINE Kept == PhaseInv' /\ HitInv' /\ EpochInv'
<1> USE DEF IndInv, TypeOK, PhaseInv, HitInv, EpochInv, PCs, Actors, Goto, world, disk, hist
<1>0. \A p \in Paths : NoEntries[p] = None BY DEF NoEntries
<1>1. CASE UNCHANGED vars
  BY <1>1 DEF vars
<1>2. CASE Tick
  BY <1>2 DEF Tick
<1>3. ASSUME NEW p \in Paths, NEW c \in Contents, Edit(p, c)
       PROVE  Kept
  BY <1>3 DEF Edit
<1>4. ASSUME NEW c \in Contents, Lose(c)
       PROVE  Kept
  BY <1>4 DEF Lose
<1>5. CASE LoseAll
  BY <1>5 DEF LoseAll
<1>6. ASSUME NEW S \in PushScopes, NEW L \in {S, Paths}, PushLoad(S, L)
       PROVE  Kept
  BY <1>6, NotNone DEF PushLoad, ToScan
<1>7. ASSUME NEW S \in ListScopes, ListLoad(S)
       PROVE  Kept
  BY <1>7, NotNone DEF ListLoad, ToScan
<1>8. ASSUME NEW a \in Actors, List(a)
       PROVE  Kept
  BY <1>8, NotNone DEF List
<1>9. ASSUME NEW a \in Actors, NEW p \in Paths, TakeCached(a, p)
       PROVE  Kept
  BY <1>9 DEF TakeCached, CacheHit, Resolved
<1>10. ASSUME NEW a \in Actors, NEW p \in Paths, TakeBase(a, p)
       PROVE  Kept
  BY <1>10 DEF TakeBase, Resolved
<1>11. ASSUME NEW a \in Actors, NEW p \in Paths, ReadFile(a, p)
       PROVE  Kept
  BY <1>11 DEF ReadFile, Resolved
<1>12. ASSUME NEW p \in Paths, Unstable(p)
       PROVE  Kept
  BY <1>12, NotNone DEF Unstable, Resolved
<1>13. CASE Finalize
  <2>1. PhaseInv' /\ HitInv' BY <1>13 DEF Finalize, ScanDone
  <2>2. epochs' \in {epochs, epochs + 1} /\ marker' <= epochs' BY <1>13 DEF Finalize
  <2>3. push'.epoch <= epochs'
    <3>1. CASE push.needsNew
      <4>1. push' = [push EXCEPT !.epoch = epochs + 1, !.dirty = TRUE] /\ epochs' = epochs + 1
        BY <1>13, <3>1 DEF Finalize
      <4>2. push'.epoch = epochs + 1 BY <4>1 DEF PushStates
      <4> QED BY <4>1, <4>2
    <3>2. CASE ~push.needsNew BY <1>13, <3>2 DEF Finalize, PushStates
    <3> QED BY <3>1, <3>2
  <2>4. epoch' <= epochs' /\ ls'.epoch <= epochs' BY <1>13, <2>2 DEF Finalize, ListStates
  <2> QED BY <2>1, <2>2, <2>3, <2>4
<1>14. CASE WriteCache
  BY <1>14 DEF WriteCache, NoPush, PushStates
<1>15. CASE Unchanged
  BY <1>15 DEF Unchanged, Exit, EndScan, NoList
<1>16. CASE Reread
  BY <1>16 DEF Reread, ScanDone, EndScan
<1>17. CASE MergeBack
  BY <1>17 DEF MergeBack, Exit, EndScan, NoList
<1>18. CASE Upload
  BY <1>18 DEF Upload, Exit, EndScan, NoPush
<1>19. CASE Recover
  BY <1>19 DEF Recover, Exit, EndScan, NoPush
<1>20. CASE Abort
  BY <1>20 DEF Abort, Exit, EndScan, NoPush
<1> QED
  BY <1>1, <1>2, <1>3, <1>4, <1>5, <1>6, <1>7, <1>8, <1>9, <1>10, <1>11, <1>12, <1>13,
     <1>14, <1>15, <1>16, <1>17, <1>18, <1>19, <1>20 DEF Next

\* The clock does not go back, and a file changes only by an edit.
LEMMA WorldStep ==
    ASSUME TypeOK, [Next]_vars
    PROVE  /\ now <= now' /\ misled \subseteq misled'
           /\ \A b \in Actors : start'[b] \in {start[b], now, 0}
           /\ file' = file \/ \E p \in Paths, c \in Contents : Edit(p, c)
<1> DEFINE Kept == /\ now <= now' /\ misled \subseteq misled'
                   /\ \A b \in Actors : start'[b] \in {start[b], now, 0}
                   /\ file' = file \/ \E p \in Paths, c \in Contents : Edit(p, c)
<1>0. now \in Int /\ start \in [Actors -> Times] BY BoundsAssumption DEF TypeOK, Times
<1> USE <1>0 DEF world, disk, hist, Exit, EndScan
<1>1. CASE UNCHANGED vars
  BY <1>1 DEF vars
<1>2. CASE Tick
  BY <1>2 DEF Tick
<1>3. ASSUME NEW p \in Paths, NEW c \in Contents, Edit(p, c)
       PROVE  Kept
  <2>1. \E q \in Paths, d \in Contents : Edit(q, d) BY <1>3
  <2>2. now' = now /\ misled' = misled /\ start' = start BY <1>3 DEF Edit
  <2> QED BY <2>1, <2>2
<1>4. ASSUME NEW c \in Contents, Lose(c)
       PROVE  Kept
  BY <1>4 DEF Lose
<1>5. CASE LoseAll
  BY <1>5 DEF LoseAll
<1>6. ASSUME NEW S \in PushScopes, NEW L \in {S, Paths}, PushLoad(S, L)
       PROVE  Kept
  BY <1>6 DEF PushLoad
<1>7. ASSUME NEW S \in ListScopes, ListLoad(S)
       PROVE  Kept
  BY <1>7 DEF ListLoad
<1>8. ASSUME NEW a \in Actors, List(a)
       PROVE  Kept
  BY <1>8 DEF List
<1>9. ASSUME NEW a \in Actors, NEW p \in Paths, TakeCached(a, p)
       PROVE  Kept
  BY <1>9 DEF TakeCached, Resolved
<1>10. ASSUME NEW a \in Actors, NEW p \in Paths, TakeBase(a, p)
       PROVE  Kept
  BY <1>10 DEF TakeBase, Resolved
<1>11. ASSUME NEW a \in Actors, NEW p \in Paths, ReadFile(a, p)
       PROVE  Kept
  BY <1>11 DEF ReadFile, Resolved
<1>12. ASSUME NEW p \in Paths, Unstable(p)
       PROVE  Kept
  BY <1>12 DEF Unstable, Resolved
<1>13. CASE Finalize
  BY <1>13 DEF Finalize
<1>14. CASE WriteCache
  BY <1>14 DEF WriteCache
<1>15. CASE Unchanged
  BY <1>15 DEF Unchanged
<1>16. CASE Reread
  BY <1>16 DEF Reread
<1>17. CASE MergeBack
  BY <1>17 DEF MergeBack
<1>18. CASE Upload
  BY <1>18 DEF Upload
<1>19. CASE Recover
  BY <1>19 DEF Recover
<1>20. CASE Abort
  BY <1>20 DEF Abort
<1> QED
  BY <1>1, <1>2, <1>3, <1>4, <1>5, <1>6, <1>7, <1>8, <1>9, <1>10, <1>11, <1>12, <1>13,
     <1>14, <1>15, <1>16, <1>17, <1>18, <1>19, <1>20 DEF Next

\* Safe, and a true result, of the next state.
NextSafe(p, e) ==
    (e # None /\ ~e.racy) =>
        /\ e.m + Racy <= now'
        /\ file'[p].m = e.m => file'[p].c = e.c
NextTrue(p, r, s) ==
    (r \in Scanned /\ s - r.m >= Racy) => (file'[p].m = r.m => file'[p].c = r.c)

\* What is safe of an entry, or of a result old enough, stays so: the stamp of
\* an edit is newer.
LEMMA SafeStays ==
    ASSUME TypeOK, TypeOK', [Next]_vars, NEW p \in Paths
    PROVE  /\ \A e \in Entries \cup {None} : Safe(p, e) => NextSafe(p, e)
           /\ \A r \in Scanned, s \in Times :
                (s <= now /\ (s - r.m >= Racy => (file[p].m = r.m => file[p].c = r.c))) =>
                    NextTrue(p, r, s)
<1>0. /\ now \in Times /\ now' \in Times /\ now <= now' /\ file \in [Paths -> Versions]
  BY WorldStep DEF TypeOK
<1>1. CASE file' = file
  <2>1. ASSUME NEW e \in Entries \cup {None}, Safe(p, e) PROVE NextSafe(p, e)
    <3>1. e # None => e.m \in Times BY DEF Entries
    <3> QED BY <1>0, <1>1, <2>1, <3>1, BoundsAssumption, ClockAssumption
            DEF Safe, NextSafe, Times
  <2> QED BY <1>1, <2>1 DEF NextTrue
<1>2. ASSUME NEW q \in Paths, NEW c \in Contents, Edit(q, c)
      PROVE  /\ \A e \in Entries \cup {None} : Safe(p, e) => NextSafe(p, e)
             /\ \A r \in Scanned, s \in Times :
                  (s <= now /\ (s - r.m >= Racy => (file[p].m = r.m => file[p].c = r.c))) =>
                      NextTrue(p, r, s)
  <2>1. now' = now BY <1>2 DEF Edit
  <2>2. file'[p] = file[p] \/ file'[p].m = now - (now % Granularity)
    BY <1>0, <1>2 DEF Edit
  <2>3. \A m \in Times : m + Racy <= now => now - (now % Granularity) # m
    BY <1>0, Stamp
  <2>4. ASSUME NEW e \in Entries \cup {None}, Safe(p, e) PROVE NextSafe(p, e)
    <3>1. e # None => e.m \in Times BY DEF Entries
    <3> QED BY <2>1, <2>2, <2>3, <2>4, <3>1 DEF Safe, NextSafe
  <2>5. ASSUME NEW r \in Scanned, NEW s \in Times, s <= now,
               s - r.m >= Racy => (file[p].m = r.m => file[p].c = r.c)
        PROVE  NextTrue(p, r, s)
    <3> SUFFICES ASSUME s - r.m >= Racy, file'[p].m = r.m PROVE file'[p].c = r.c
      BY DEF NextTrue
    <3>1. r.m \in Times BY DEF Scanned
    <3>2. r.m + Racy <= now BY <1>0, <2>5, <3>1, BoundsAssumption, ClockAssumption DEF Times
    <3> QED BY <2>2, <2>3, <2>5, <3>1, <3>2
  <2> QED BY <2>4, <2>5
<1> QED BY <1>1, <1>2, WorldStep

\* Every step keeps SafeInv.
LEMMA SafeStep == IndInv /\ [Next]_vars => SafeInv'
<1> SUFFICES ASSUME IndInv, [Next]_vars PROVE SafeInv' OBVIOUS
<1>a. /\ TypeOK /\ TypeOK' /\ SafeInv /\ HitInv /\ now <= now' /\ misled \subseteq misled'
      /\ now \in Times /\ now' \in Times /\ 0 <= now'
  <2>1. TypeOK /\ TypeOK' /\ SafeInv /\ HitInv /\ now <= now' /\ misled \subseteq misled'
    BY TypeStep, WorldStep DEF IndInv
  <2>2. now \in Times /\ now' \in Times BY <2>1 DEF TypeOK
  <2> QED BY <2>1, <2>2, BoundsAssumption DEF Times
<1>b. \A a \in Actors : start'[a] \in {start[a], now, 0} BY <1>a, WorldStep
<1>c. \A a \in Actors : start'[a] <= now'
  <2>1. \A a \in Actors : start[a] \in Times /\ start[a] <= now BY <1>a DEF TypeOK, SafeInv
  <2> QED BY <1>a, <1>b, <2>1, BoundsAssumption DEF Times
<1> SUFFICES ASSUME NEW q \in Paths \ misled'
             PROVE  /\ NextSafe(q, ents'[q]) /\ NextSafe(q, ls'.ents[q])
                    /\ \A b \in Actors : /\ NextSafe(q, mem'[b][q])
                                         /\ NextTrue(q, res'[b][q], start'[b])
  BY <1>c DEF SafeInv, Safe, NextSafe, NextTrue
<1> DEFINE Kept == /\ NextSafe(q, ents'[q]) /\ NextSafe(q, ls'.ents[q])
                   /\ \A b \in Actors : /\ NextSafe(q, mem'[b][q])
                                        /\ NextTrue(q, res'[b][q], start'[b])
<1>d. q \in Paths /\ q \notin misled /\ q \notin misled' BY <1>a
<1>e. \A e \in Entries \cup {None} : Safe(q, e) => NextSafe(q, e) BY <1>a, <1>d, SafeStays
<1>f. /\ NextSafe(q, ents[q]) /\ NextSafe(q, ls.ents[q]) /\ NextSafe(q, None)
      /\ \A b \in Actors : NextSafe(q, mem[b][q])
  <2>1. /\ ents[q] \in Entries \cup {None} /\ ls.ents[q] \in Entries \cup {None}
        /\ \A b \in Actors : mem[b][q] \in Entries \cup {None}
    BY <1>a, <1>d DEF TypeOK, ListStates
  <2>2. /\ Safe(q, ents[q]) /\ Safe(q, ls.ents[q]) /\ Safe(q, None)
        /\ \A b \in Actors : Safe(q, mem[b][q])
    BY <1>a, <1>d DEF SafeInv, Safe
  <2> QED BY <1>e, <2>1, <2>2
<1>g. \A b \in Actors : NextTrue(q, res[b][q], start[b])
  <2> SUFFICES ASSUME NEW b \in Actors, res[b][q] \in Scanned
               PROVE  NextTrue(q, res[b][q], start[b])
    BY DEF NextTrue
  <2>1. /\ start[b] \in Times /\ start[b] <= now
        /\ start[b] - res[b][q].m >= Racy => (file[q].m = res[b][q].m => file[q].c = res[b][q].c)
    BY <1>a, <1>d DEF TypeOK, SafeInv
  <2> QED BY <1>a, <1>d, <2>1, SafeStays
<1>h. /\ \A s : NextTrue(q, None, s) /\ NextTrue(q, Pending, s)
      /\ \A r : NextTrue(q, r, 0)
  <2>1. None \notin Scanned /\ Pending \notin Scanned BY NotNone
  <2>2. \A r \in Scanned : ~(0 - r.m >= Racy)
    <3>1. \A r \in Scanned : r.m \in Times BY DEF Scanned
    <3> QED BY <3>1, ClockAssumption, BoundsAssumption DEF Times
  <2> QED BY <2>1, <2>2 DEF NextTrue
<1>i. NextSafe(q, NoEntries[q]) /\ \A b \in Actors : NextTrue(q, NoEntries[q], start'[b])
  BY <1>d, <1>f, <1>h DEF NoEntries
<1>t. \A b \in Actors : mem[b] \in [Paths -> Entries \cup {None}]
  BY <1>a DEF TypeOK
<1>u. ASSUME NEW es \in [Paths -> Entries \cup {None}], Safe(q, es[q])
      PROVE  NextSafe(q, ClearAllSealed(es)[q])
  <2>1. Safe(q, ClearAllSealed(es)[q]) /\ ClearAllSealed(es)[q] \in Entries \cup {None}
    BY <1>d, <1>u, Cleared
  <2> QED BY <1>e, <2>1
<1>v. Safe(q, ents[q]) /\ ents \in [Paths -> Entries \cup {None}] BY <1>a, <1>d DEF SafeInv, TypeOK
<1> USE <1>d, <1>f, <1>g, <1>h, <1>i DEF Goto, world, disk, hist
<1>1. CASE UNCHANGED vars
  BY <1>1 DEF vars
<1>2. CASE Tick
  BY <1>2 DEF Tick
<1>3. ASSUME NEW p \in Paths, NEW c \in Contents, Edit(p, c)
       PROVE  Kept
  BY <1>3 DEF Edit
<1>4. ASSUME NEW c \in Contents, Lose(c)
       PROVE  Kept
  BY <1>4 DEF Lose
<1>5. CASE LoseAll
  BY <1>5 DEF LoseAll
<1>6. ASSUME NEW S \in PushScopes, NEW L \in {S, Paths}, PushLoad(S, L)
       PROVE  Kept
  <2> DEFINE loaded == [p \in Paths |-> IF p \in L THEN ents[p] ELSE None]
  <2>1. loaded \in [Paths -> Entries \cup {None}] /\ loaded[q] \in {ents[q], None} BY <1>v
  <2>2. Safe(q, loaded[q]) BY <1>v, <2>1 DEF Safe
  <2>3. NextSafe(q, loaded[q]) /\ NextSafe(q, ClearAllSealed(loaded)[q]) BY <1>u, <2>1, <2>2
  <2>4. \A b \in Actors : mem'[b] \in {mem[b], loaded, ClearAllSealed(loaded)}
    BY <1>6, <1>a DEF PushLoad, TypeOK
  <2>5. \A b \in Actors : res'[b][q] \in {None, Pending} \/ (res'[b] = res[b] /\ start'[b] = start[b])
    BY <1>6, <1>a DEF PushLoad, TypeOK, ToScan
  <2> QED BY <1>6, <2>3, <2>4, <2>5 DEF PushLoad
<1>7. ASSUME NEW S \in ListScopes, ListLoad(S)
       PROVE  Kept
  <2>1. \A b \in Actors : mem'[b][q] \in {mem[b][q], ents[q], None}
    BY <1>7, <1>a DEF ListLoad, TypeOK
  <2>2. \A b \in Actors : res'[b][q] \in {None, Pending} \/ (res'[b] = res[b] /\ start'[b] = start[b])
    BY <1>7, <1>a DEF ListLoad, TypeOK, ToScan
  <2>3. ls'.ents = ls.ents /\ ents' = ents BY <1>7, <1>a DEF ListLoad, TypeOK, ListStates
  <2> QED BY <2>1, <2>2, <2>3
<1>8. ASSUME NEW a \in Actors, List(a)
       PROVE  Kept
  BY <1>8 DEF List
<1>9. ASSUME NEW a \in Actors, NEW p \in Paths, TakeCached(a, p)
       PROVE  Kept
  <2>1. CASE p = q
    <3> DEFINE r == [c |-> mem[a][q].c, m |-> stat[a][q], hit |-> TRUE]
    <3>1. mem[a][q] \in Entries /\ ~mem[a][q].racy /\ mem[a][q].m = stat[a][q]
      BY <1>9, <2>1, <1>t DEF TakeCached, CacheHit
    <3>2. r \in Scanned BY <3>1 DEF Entries, Scanned
    <3>3. NextTrue(q, r, start[a])
      BY <3>1, <3>2, NotNone DEF NextSafe, NextTrue
    <3>4. \A b \in Actors : res'[b][q] \in {res[b][q]} \/ (b = a /\ res'[b][q] = r)
      BY <1>9, <1>a, <2>1 DEF TakeCached, Resolved, TypeOK
    <3> QED BY <1>9, <3>3, <3>4 DEF TakeCached, Resolved
  <2>2. CASE p # q
    <3>1. \A b \in Actors : res'[b][q] = res[b][q]
      BY <1>9, <1>a, <2>2 DEF TakeCached, Resolved, TypeOK
    <3> QED BY <1>9, <3>1 DEF TakeCached, Resolved
  <2> QED BY <2>1, <2>2
<1>10. ASSUME NEW a \in Actors, NEW p \in Paths, TakeBase(a, p)
       PROVE  Kept
  <2>1. CASE p = q
    <3> DEFINE r == [c |-> Base(a)[q].c, m |-> stat[a][q], hit |-> FALSE]
    <3>1. file[q].m = stat[a][q] => file[q].c = Base(a)[q].c BY <1>10, <2>1 DEF TakeBase
    <3>2. file' = file BY <1>10 DEF TakeBase, Resolved
    <3>3. NextTrue(q, r, start[a]) BY <3>1, <3>2 DEF NextTrue
    <3>4. \A b \in Actors : res'[b][q] \in {res[b][q]} \/ (b = a /\ res'[b][q] = r)
      BY <1>10, <1>a, <2>1 DEF TakeBase, Resolved, TypeOK
    <3> QED BY <1>10, <3>3, <3>4 DEF TakeBase, Resolved
  <2>2. CASE p # q
    <3>1. \A b \in Actors : res'[b][q] = res[b][q]
      BY <1>10, <1>a, <2>2 DEF TakeBase, Resolved, TypeOK
    <3> QED BY <1>10, <3>1 DEF TakeBase, Resolved
  <2> QED BY <2>1, <2>2
<1>11. ASSUME NEW a \in Actors, NEW p \in Paths, ReadFile(a, p)
       PROVE  Kept
  <2>1. CASE p = q
    <3> DEFINE r == [c |-> file[q].c, hit |-> FALSE,
                     m |-> IF a = "push" THEN file[q].m ELSE stat[a][q]]
    <3>1. file' = file BY <1>11 DEF ReadFile, Resolved
    <3>2. NextTrue(q, r, start[a]) BY <3>1 DEF NextTrue
    <3>3. \A b \in Actors : res'[b][q] \in {res[b][q]} \/ (b = a /\ res'[b][q] = r)
      BY <1>11, <1>a, <2>1 DEF ReadFile, Resolved, TypeOK
    <3> QED BY <1>11, <3>2, <3>3 DEF ReadFile, Resolved
  <2>2. CASE p # q
    <3>1. \A b \in Actors : res'[b][q] = res[b][q]
      BY <1>11, <1>a, <2>2 DEF ReadFile, Resolved, TypeOK
    <3> QED BY <1>11, <3>1 DEF ReadFile, Resolved
  <2> QED BY <2>1, <2>2
<1>12. ASSUME NEW p \in Paths, Unstable(p)
       PROVE  Kept
  <2>1. \A b \in Actors : res'[b][q] \in {res[b][q], None}
    BY <1>12, <1>a DEF Unstable, Resolved, TypeOK
  <2> QED BY <1>12, <2>1 DEF Unstable, Resolved
<1>13. CASE Finalize
  <2>1. Safe(q, Updated("push", q)) /\ Updated("push", q) \in Entries \cup {None}
    BY <1>13, <1>a, UpdatedEntry DEF Finalize, Actors
  <2>2. NextSafe(q, Applied("push")[q]) BY <1>e, <2>1 DEF Applied
  <2>3. \A b \in Actors : mem'[b][q] \in {mem[b][q], Applied("push")[q]}
    BY <1>13, <1>a DEF Finalize, TypeOK
  <2>4. \A b \in Actors : start'[b] \in {start[b], 0} BY <1>13, <1>a DEF Finalize, EndScan, TypeOK
  <2> QED BY <1>13, <2>2, <2>3, <2>4 DEF Finalize
<1>14. CASE WriteCache
  <2>1. NextSafe(q, ClearAllSealed(ents)[q]) BY <1>u, <1>v
  <2>2. ents'[q] \in {ents[q], mem["push"][q], ClearAllSealed(ents)[q]}
    BY <1>14 DEF WriteCache
  <2>3. "push" \in Actors BY DEF Actors
  <2>4. \A b \in Actors : mem'[b][q] \in {mem[b][q], NoEntries[q]}
    BY <1>14, <1>a DEF WriteCache, TypeOK
  <2> QED BY <1>14, <2>1, <2>2, <2>3, <2>4 DEF WriteCache
<1>15. CASE Unchanged
  <2>1. \A b \in Actors : /\ mem'[b][q] \in {mem[b][q], NoEntries[q]}
                          /\ (res'[b][q] = res[b][q] /\ start'[b] = start[b]) \/ res'[b][q] = NoEntries[q]
    BY <1>15, <1>a DEF Unchanged, Exit, EndScan, TypeOK
  <2> QED BY <1>15, <2>1 DEF Unchanged, Exit, NoList
<1>16. CASE Reread
  <2>1. Safe(q, Updated("ls", q)) /\ Updated("ls", q) \in Entries \cup {None}
    BY <1>16, <1>a, UpdatedEntry DEF Reread, Actors
  <2>2. NextSafe(q, Applied("ls")[q]) BY <1>e, <2>1 DEF Applied
  <2>3. \A b \in Actors : mem'[b][q] \in {mem[b][q], Applied("ls")[q]}
    BY <1>16, <1>a DEF Reread, TypeOK
  <2>4. \A b \in Actors : (res'[b][q] = res[b][q] /\ start'[b] = start[b]) \/ res'[b][q] = NoEntries[q]
    BY <1>16, <1>a DEF Reread, EndScan, TypeOK
  <2> QED BY <1>16, <2>2, <2>3, <2>4 DEF Reread
<1>17. CASE MergeBack
  <2>1. \A b \in Actors : /\ mem'[b][q] \in {mem[b][q], NoEntries[q]}
                          /\ (res'[b][q] = res[b][q] /\ start'[b] = start[b]) \/ res'[b][q] = NoEntries[q]
    BY <1>17, <1>a DEF MergeBack, Exit, EndScan, TypeOK
  <2>2. ents'[q] \in {mem["ls"][q], ls.ents[q]} /\ "ls" \in Actors BY <1>17 DEF MergeBack, Actors
  <2> QED BY <1>17, <2>1, <2>2 DEF MergeBack, Exit, NoList
<1>18. CASE Upload
  <2>1. \A b \in Actors : /\ mem'[b][q] \in {mem[b][q], NoEntries[q]}
                          /\ (res'[b][q] = res[b][q] /\ start'[b] = start[b]) \/ res'[b][q] = NoEntries[q]
    BY <1>18, <1>a DEF Upload, Exit, EndScan, TypeOK
  <2> QED BY <1>18, <2>1 DEF Upload, Exit
<1>19. CASE Recover
  <2>1. \A b \in Actors : /\ mem'[b][q] \in {mem[b][q], NoEntries[q]}
                          /\ (res'[b][q] = res[b][q] /\ start'[b] = start[b]) \/ res'[b][q] = NoEntries[q]
    BY <1>19, <1>a DEF Recover, Exit, EndScan, TypeOK
  <2>2. NextSafe(q, ClearAllSealed(ents)[q]) BY <1>u, <1>v
  <2> QED BY <1>19, <2>1, <2>2 DEF Recover, Exit
<1>20. CASE Abort
  <2>1. \A b \in Actors : /\ mem'[b][q] \in {mem[b][q], NoEntries[q]}
                          /\ (res'[b][q] = res[b][q] /\ start'[b] = start[b]) \/ res'[b][q] = NoEntries[q]
    BY <1>20, <1>a DEF Abort, Exit, EndScan, TypeOK
  <2> QED BY <1>20, <2>1 DEF Abort, Exit
<1> QED
  BY <1>1, <1>2, <1>3, <1>4, <1>5, <1>6, <1>7, <1>8, <1>9, <1>10, <1>11, <1>12, <1>13,
     <1>14, <1>15, <1>16, <1>17, <1>18, <1>19, <1>20 DEF Next

\* Every step keeps the seals honest, in the cache and in every copy of it.
LEMMA SealStep == IndInv /\ [Next]_vars => PushInv' /\ ListInv' /\ SealsHonest'
<1> SUFFICES ASSUME IndInv, [Next]_vars PROVE PushInv' /\ ListInv' /\ SealsHonest' OBVIOUS
<1> DEFINE Kept == PushInv' /\ ListInv' /\ SealsHonest'
<1>a. /\ TypeOK /\ TypeOK' /\ PhaseInv /\ SafeInv /\ HitInv /\ EpochInv
      /\ PushInv /\ ListInv /\ SealsHonest
  BY TypeStep DEF IndInv
<1>b. Sealed(NoEntries) = {} BY DEF Sealed, NoEntries
<1>c. /\ epoch \in Nat /\ marker \in Nat /\ epochs \in Nat /\ ls.epoch \in Nat
      /\ mem \in [Actors -> [Paths -> Entries \cup {None}]] /\ pc \in [Actors -> PCs]
      /\ res \in [Actors -> [Paths -> Scanned \cup {None, Pending}]]
      /\ "push" \in Actors /\ "ls" \in Actors /\ "push" # "ls"
      /\ ents \in [Paths -> Entries \cup {None}] /\ ls \in ListStates /\ push \in PushStates
  BY <1>a DEF TypeOK, Actors, ListStates
<1> USE <1>a, <1>b, <1>c DEF PushInv, Stocked, ListInv, SealsHonest, Goto, world, disk, hist
<1>1. CASE UNCHANGED vars
  BY <1>1 DEF vars
<1>2. CASE Tick
  BY <1>2 DEF Tick
<1>3. ASSUME NEW p \in Paths, NEW c \in Contents, Edit(p, c)
       PROVE  Kept
  BY <1>3 DEF Edit
<1>4. ASSUME NEW c \in Contents, Lose(c)
       PROVE  Kept
  BY <1>4 DEF Lose
<1>5. CASE LoseAll
  BY <1>5 DEF LoseAll, PhaseInv
<1>6. ASSUME NEW S \in PushScopes, NEW L \in {S, Paths}, PushLoad(S, L)
       PROVE  Kept
  <2> DEFINE loaded == [p \in Paths |-> IF p \in L THEN ents[p] ELSE None]
             matches == epoch # 0 /\ marker = epoch
  <2>1. loaded \in [Paths -> Entries \cup {None}] OBVIOUS
  <2>2. Sealed(ClearAllSealed(loaded)) = {} BY <2>1, Cleared
  <2>3. Sealed(loaded) \subseteq Sealed(ents) /\ \A p \in Sealed(loaded) : loaded[p] = ents[p]
    BY DEF Sealed
  <2>4. mem'["ls"] = mem["ls"] /\ (mem'["push"] = ClearAllSealed(loaded)
                                    \/ (matches /\ mem'["push"] = loaded))
    BY <1>6 DEF PushLoad
  <2>5. /\ UNCHANGED <<ents, epoch, marker, objects, ls, unguarded>>
        /\ pc' = [pc EXCEPT !["push"] = "list"]
    BY <1>6 DEF PushLoad
  <2> QED BY <2>2, <2>3, <2>4, <2>5
<1>7. ASSUME NEW S \in ListScopes, ListLoad(S)
       PROVE  Kept
  <2>1. /\ UNCHANGED <<ents, epoch, marker, objects, unguarded>> /\ mem'["push"] = mem["push"]
        /\ pc'["push"] = pc["push"] /\ res'["push"] = res["push"]
        /\ ls'.changed = ls.changed /\ ls'.ents = ls.ents /\ ls'.epoch = ls.epoch
    BY <1>7 DEF ListLoad, ListStates
  <2>2. ls.changed = {} BY <1>7 DEF PhaseInv, ListLoad
  <2> QED BY <2>1, <2>2
<1>8. ASSUME NEW a \in Actors, List(a)
       PROVE  Kept
  BY <1>8, NotNone DEF List, PhaseInv
<1>9. ASSUME NEW a \in Actors, NEW p \in Paths, TakeCached(a, p)
       PROVE  Kept
  BY <1>9 DEF TakeCached, Resolved, CacheHit, Sealed
<1>10. ASSUME NEW a \in Actors, NEW p \in Paths, TakeBase(a, p)
       PROVE  Kept
  BY <1>10 DEF TakeBase, Resolved, BaseHit
<1>11. ASSUME NEW a \in Actors, NEW p \in Paths, ReadFile(a, p)
       PROVE  Kept
  BY <1>11 DEF ReadFile, Resolved
<1>12. ASSUME NEW p \in Paths, Unstable(p)
       PROVE  Kept
  BY <1>12, NotNone DEF Unstable, Resolved
<1>13. CASE Finalize
  <2>1. \A p \in Sealed(Applied("push")) : ~unguarded => Applied("push")[p].c \in objects
    BY <1>13, UpdatedEntry DEF Finalize, Applied, Sealed
  <2>2. mem'["push"] = Applied("push") /\ mem'["ls"] = mem["ls"] BY <1>13 DEF Finalize
  <2>3. marker' = marker \/ marker' = epochs + 1 BY <1>13 DEF Finalize
  <2>4. marker' # marker => epoch # marker' /\ ls.epoch # marker' BY <2>3 DEF EpochInv
  <2> QED BY <1>13, <2>1, <2>2, <2>4 DEF Finalize
<1>14. CASE WriteCache
  <2>1. Sealed(ClearAllSealed(ents)) = {} BY Cleared
  <2>2. SealsHonest'
    <3> SUFFICES ASSUME ~unguarded, epoch' # 0, epoch' = marker, NEW p \in Sealed(ents)'
                 PROVE  ents'[p].c \in objects
      BY <1>14 DEF WriteCache
    <3>1. CASE ~push.dirty BY <1>14, <3>1 DEF WriteCache
    <3>2. CASE push.dirty /\ push.loaded = Paths BY <1>14, <3>2 DEF WriteCache
    <3>3. CASE push.dirty /\ push.loaded # Paths /\ push.trusted
      BY <1>14, <3>3 DEF WriteCache, Sealed
    <3>4. CASE push.dirty /\ push.loaded # Paths /\ ~push.trusted
      <4>1. ents' = [r \in Paths |-> IF mem["push"][r] # None THEN mem["push"][r]
                                     ELSE ClearAllSealed(ents)[r]]
        BY <1>14, <3>4 DEF WriteCache
      <4>2. p \in Paths /\ ents'[p] # None /\ ents'[p].sealed BY DEF Sealed
      <4>3. p \in Sealed(mem["push"]) /\ ents'[p] = mem["push"][p]
        BY <2>1, <4>1, <4>2 DEF Sealed
      <4> QED BY <4>3
    <3> QED BY <3>1, <3>2, <3>3, <3>4
  <2>3. PushInv' /\ ListInv' BY <1>14 DEF WriteCache
  <2> QED BY <2>2, <2>3
<1>15. CASE Unchanged
  BY <1>15 DEF Unchanged, Exit, NoList
<1>16. CASE Reread
  <2>1. \A p \in Changed("ls") : Applied("ls")[p] # None => ~Applied("ls")[p].sealed
    BY <1>16, UpdatedEntry DEF Reread, Applied, Changed
  <2>2. /\ mem'["ls"] = Applied("ls") /\ mem'["push"] = mem["push"]
        /\ ls'.changed = Changed("ls") /\ ls'.ents = ents /\ ls'.epoch = epoch
        /\ UNCHANGED <<ents, epoch, marker, objects, unguarded>>
        /\ pc'["push"] = pc["push"] /\ res'["push"] = res["push"]
    BY <1>16 DEF Reread
  <2> QED BY <2>1, <2>2
<1>17. CASE MergeBack
  <2>1. \A p \in Paths : ents'[p] = IF p \in ls.changed THEN mem["ls"][p] ELSE ls.ents[p]
    BY <1>17 DEF MergeBack
  <2>2. ents' \in [Paths -> Entries \cup {None}] BY DEF TypeOK
  <2>3. Sealed(ents)' \subseteq Sealed(ls.ents) /\ \A p \in Sealed(ents)' : ents'[p] = ls.ents[p]
    BY <2>1, <2>2 DEF Sealed
  <2>4. /\ UNCHANGED <<marker, objects, unguarded>> /\ epoch' = ls.epoch
        /\ mem'["push"] = mem["push"] /\ pc'["push"] = pc["push"] /\ res'["push"] = res["push"]
        /\ ls' = NoList
    BY <1>17 DEF MergeBack, Exit
  <2>5. ls'.changed = {} /\ Sealed(ls'.ents) = {} BY <2>4 DEF NoList
  <2> QED BY <2>3, <2>4, <2>5
<1>18. CASE Upload
  BY <1>18 DEF Upload, Exit
<1>19. CASE Recover
  <2>1. Sealed(ClearAllSealed(ents)) = {} BY Cleared
  <2> QED BY <1>19, <2>1 DEF Recover, Exit
<1>20. CASE Abort
  BY <1>20 DEF Abort, Exit
<1> QED
  BY <1>1, <1>2, <1>3, <1>4, <1>5, <1>6, <1>7, <1>8, <1>9, <1>10, <1>11, <1>12, <1>13,
     <1>14, <1>15, <1>16, <1>17, <1>18, <1>19, <1>20 DEF Next

\* Every step keeps what a retry relies on.
LEMMA RetryStep == IndInv /\ [Next]_vars => RetryInv'
<1> SUFFICES ASSUME IndInv, [Next]_vars PROVE RetryInv' OBVIOUS
<1>a. /\ TypeOK /\ TypeOK' /\ PhaseInv /\ SafeInv /\ HitInv /\ RetryInv
  BY TypeStep DEF IndInv
<1>b. Sealed(NoEntries) = {} /\ \A p \in Paths : NoEntries[p] \notin Scanned
  BY NotNone DEF Sealed, NoEntries
<1>c. /\ mem \in [Actors -> [Paths -> Entries \cup {None}]] /\ pc \in [Actors -> PCs]
      /\ res \in [Actors -> [Paths -> Scanned \cup {None, Pending}]]
      /\ "push" \in Actors /\ "ls" \in Actors /\ "push" # "ls"
      /\ ents \in [Paths -> Entries \cup {None}] /\ retries \in Nat
  BY <1>a DEF TypeOK, Actors
<1>d. None \notin Scanned /\ Pending \notin Scanned BY NotNone
<1> USE <1>a, <1>b, <1>c, <1>d DEF RetryInv, Held, Goto, world, disk, hist
<1>1. CASE UNCHANGED vars
  BY <1>1 DEF vars
<1>2. CASE Tick
  BY <1>2 DEF Tick
<1>3. ASSUME NEW p \in Paths, NEW c \in Contents, Edit(p, c)
       PROVE  RetryInv'
  BY <1>3 DEF Edit
<1>4. ASSUME NEW c \in Contents, Lose(c)
       PROVE  RetryInv'
  BY <1>4 DEF Lose
<1>5. CASE LoseAll
  BY <1>5 DEF LoseAll
<1>6. ASSUME NEW S \in PushScopes, NEW L \in {S, Paths}, PushLoad(S, L)
       PROVE  RetryInv'
  <2> DEFINE loaded == [p \in Paths |-> IF p \in L THEN ents[p] ELSE None]
  <2>1. loaded \in [Paths -> Entries \cup {None}] OBVIOUS
  <2>2. Sealed(ClearAllSealed(loaded)) = {} BY <2>1, Cleared
  <2>3. Sealed(loaded) \subseteq Sealed(ents) /\ \A p \in Sealed(loaded) : loaded[p] = ents[p]
    BY DEF Sealed
  <2>4. mem'["push"] \in {loaded, ClearAllSealed(loaded)} BY <1>6 DEF PushLoad
  <2>5. /\ UNCHANGED <<ents, objects, clone, uploaded, retries, reverted>>
        /\ \A p \in Paths : res'["push"][p] \in {None, Pending}
    BY <1>6 DEF PushLoad, ToScan
  <2> HIDE DEF loaded
  <2> QED BY <2>2, <2>3, <2>4, <2>5
<1>7. ASSUME NEW S \in ListScopes, ListLoad(S)
       PROVE  RetryInv'
  BY <1>7 DEF ListLoad
<1>8. ASSUME NEW a \in Actors, List(a)
       PROVE  RetryInv'
  BY <1>8 DEF List
<1>9. ASSUME NEW a \in Actors, NEW p \in Paths, TakeCached(a, p)
       PROVE  RetryInv'
  BY <1>9 DEF TakeCached, Resolved, CacheHit, Sealed
<1>10. ASSUME NEW a \in Actors, NEW p \in Paths, TakeBase(a, p)
       PROVE  RetryInv'
  BY <1>10 DEF TakeBase, Resolved, BaseHit
<1>11. ASSUME NEW a \in Actors, NEW p \in Paths, ReadFile(a, p)
       PROVE  RetryInv'
  BY <1>11 DEF ReadFile, Resolved
<1>12. ASSUME NEW p \in Paths, Unstable(p)
       PROVE  RetryInv'
  BY <1>12 DEF Unstable, Resolved
<1>13. CASE Finalize
  <2>1. \A p \in Sealed(Applied("push")) : Stocked => Applied("push")[p].c \in objects
    BY <1>13, UpdatedEntry DEF Finalize, Applied, Sealed
  <2>2. Held => Stocked BY DEF Stocked
  <2>3. mem'["push"] = Applied("push") BY <1>13 DEF Finalize
  <2>4. UNCHANGED <<ents, objects, clone, uploaded, res, retries, reverted>> BY <1>13 DEF Finalize
  <2> QED BY <2>1, <2>2, <2>3, <2>4
<1>14. CASE WriteCache
  <2>1. Sealed(ClearAllSealed(ents)) = {} BY Cleared
  <2>2. \A p \in Sealed(ents)' : \/ p \in Sealed(ents) /\ ents'[p] = ents[p]
                                 \/ p \in Sealed(mem["push"]) /\ ents'[p] = mem["push"][p]
    <3> SUFFICES ASSUME NEW p \in Paths, ents'[p] # None, ents'[p].sealed
                 PROVE  \/ p \in Sealed(ents) /\ ents'[p] = ents[p]
                        \/ p \in Sealed(mem["push"]) /\ ents'[p] = mem["push"][p]
      BY DEF Sealed
    <3>1. ents'[p] \in {ents[p], mem["push"][p], ClearAllSealed(ents)[p]}
      BY <1>14 DEF WriteCache
    <3> QED BY <2>1, <3>1 DEF Sealed
  <2> QED BY <1>14, <2>2 DEF WriteCache
<1>15. CASE Unchanged
  BY <1>15 DEF Unchanged, Exit
<1>16. CASE Reread
  BY <1>16 DEF Reread
<1>17. CASE MergeBack
  <2>1. /\ UNCHANGED <<objects, clone, uploaded, retries>>
        /\ mem'["push"] = mem["push"] /\ res'["push"] = res["push"]
    BY <1>17 DEF MergeBack, Exit
  <2>2. reverted' \/ (~reverted /\ \A p \in Sealed(ents)' : p \in Sealed(ents) /\ ents'[p].c = ents[p].c)
    BY <1>17 DEF MergeBack, Sealed, SealedAs
  <2> QED BY <2>1, <2>2
<1>18. CASE Upload
  <2>1. \A p \in Paths : NewTree[p] # None => NewTree[p].c \in uploaded'
    BY <1>18 DEF Upload, Needed
  <2> QED BY <1>18, <2>1 DEF Upload
<1>19. CASE Recover
  <2>1. Sealed(ents') = {}
    BY <1>19, Cleared DEF Recover
  <2>2. mem'["push"] = NoEntries /\ res'["push"] = NoEntries /\ UNCHANGED <<clone, uploaded, objects, reverted>>
    BY <1>19 DEF Recover, Exit
  <2>3. retries' = retries + 1 BY <1>19 DEF Recover
  <2>4. ~(retries > 0 /\ ~reverted)
    <3> SUFFICES ASSUME Held PROVE FALSE OBVIOUS
    <3>1. PICK c \in Needed : c \notin objects BY <1>19 DEF Recover
    <3>2. PICK p \in Paths : NewTree[p] # None /\ c = NewTree[p].c /\ c \notin uploaded
      BY <3>1 DEF Needed
    <3>3. NewTree[p] = TreeEntry(p) BY DEF NewTree
    <3>4. res["push"][p] \in Scanned /\ c = res["push"][p].c
      BY <1>19, <3>2, <3>3 DEF TreeEntry, Recover, PhaseInv
    <3> QED BY <3>1, <3>4
  <2> QED BY <2>1, <2>2, <2>3, <2>4
<1>20. CASE Abort
  BY <1>20 DEF Abort, Exit
<1> QED
  BY <1>1, <1>2, <1>3, <1>4, <1>5, <1>6, <1>7, <1>8, <1>9, <1>10, <1>11, <1>12, <1>13,
     <1>14, <1>15, <1>16, <1>17, <1>18, <1>19, <1>20 DEF Next

\* The inductive invariant holds throughout.
LEMMA Invariance == Spec => []IndInv
<1>1. IndInv /\ [Next]_vars => IndInv'
  BY TypeStep, BookStep, SafeStep, SealStep, RetryStep DEF IndInv
<1> QED BY <1>1, InitInv, PTL DEF Spec

\* The type invariant of the cache, of both kinds of scan and of the history.
THEOREM TypeCorrect == Spec => []TypeOK
<1>1. IndInv => TypeOK BY DEF IndInv
<1> QED BY <1>1, Invariance, PTL

\* lookup_current_entry never returns, for a file as it is, the hash of another
\* content, unless that hash came from the clone root: for any racy window that
\* covers the granularity of timestamps, any edits and any writebacks.
THEOREM CachedHashIsTrue == Spec => []ReadHitIsTrue
<1>1. IndInv => ReadHitIsTrue
  BY DEF IndInv, SafeInv, Safe, ReadHitIsTrue, Usable
<1> QED BY <1>1, Invariance, PTL

\* The seal epoch does its work: no rotation, scoped writeback or unlocked merge
\* leaves a SEALED entry without its blob under a matching epoch, unless objects
\* were lost in a way the epoch cannot show.
THEOREM SealsCanBeTrusted == Spec => []SealsHonest
<1>1. IndInv => SealsHonest BY DEF IndInv
<1> QED BY <1>1, Invariance, PTL

\* A push that failed for want of an object leaves a cache with which the next
\* one succeeds: recover_from_missing_object_if_applicable clears every seal,
\* and without seals an object that is not there is staged again.
THEOREM NoSecondFailure == Spec => []RetrySucceeds
<1>1. IndInv => RetrySucceeds
  BY DEF IndInv, RetryInv, RetrySucceeds, TypeOK
<1> QED BY <1>1, Invariance, PTL
=============================================================================
