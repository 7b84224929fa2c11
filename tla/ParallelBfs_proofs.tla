------------------------ MODULE ParallelBfs_proofs ------------------------
(***************************************************************************)
(* Proofs about ParallelBfs, for any number of threads, any object graph,  *)
(* any set of failing or pruned hashes and any number of spurious wakeups. *)
(***************************************************************************)
EXTENDS ParallelBfs, FiniteSetTheorems, TLAPS

\* A thread in the wait set is parked.
ParkedInv == \A w \in waiting : pc[w] = "waiting"

\* The places at which a thread holds a hash it took from the queue.
Held == {"claim", "process", "account", "publish", "announce", "finish",
         "error", "errorSignal", "errorFinish"}
ItemInv == \A w \in Workers : pc[w] \in Held => item[w] \in Nodes

\* The places after the error has been recorded.
AfterError == {"errorSignal", "errorFinish", "errorDone"}
ErrorInv == \A w \in Workers : pc[w] \in AfterError => failed

\* The count is exact where OutstandingCounts says so, and never too small:
\* parallel_walk leaves the item of a failing thread in it.
CountInv ==
    /\ IsFiniteSet(Unpublished)
    /\ outstanding >= Len(queue) + Cardinality(InFlight) + Cardinality(Unpublished)
    /\ OutstandingCounts

\* A claimed hash is in the hands of one thread until node_fn has run.
ClaimInv ==
    /\ \A w \in Workers : pc[w] = "process" => item[w] \in visited /\ processed[item[w]] = 0
    /\ \A v, w \in Workers : pc[v] = "process" /\ pc[w] = "process" /\ v # w => item[v] # item[w]
    /\ \A n \in Nodes : processed[n] > 0 => n \in visited
    /\ ExactlyOnce

\* A hash the walk has met: claimed, queued, or taken from the queue.
Met(n) == \/ n \in visited \/ n \in SeqRange(queue)
          \/ \E w \in Workers : pc[w] = "claim" /\ item[w] = n

\* As long as nothing failed, nothing is forgotten: roots and children are met,
\* unless a thread still has to publish them, and what is claimed is processed,
\* unless a thread still has to do it.
WorkInv ==
    ~failed =>
      /\ \A n \in SeqRange(Roots) : Met(n)
      /\ \A n \in visited : \/ processed[n] > 0
                            \/ \E w \in Workers : pc[w] \in {"process", "error"} /\ item[w] = n
      /\ \A n \in Nodes \ pruned : processed[n] > 0 =>
           \/ \A m \in SeqRange(Children[n]) : Met(m)
           \/ \E w \in Workers : pc[w] \in {"account", "publish"} /\ item[w] = n

\* A thread that has left without an error left nothing behind.
ExitInv ==
    ~failed /\ (\E w \in Workers : pc[w] = "exited") => queue = <<>> /\ InFlight = {}

IInv == TypeOK /\ ParkedInv /\ ItemInv /\ ErrorInv /\ CountInv /\ ClaimInv /\ WorkInv /\ ExitInv

-----------------------------------------------------------------------------
(* What a step leaves alone.                                               *)

\* A thread that does not move keeps its hash and its place, unless it was
\* parked and is woken.
StaysPut(t) ==
    /\ item'[t] = item[t]
    /\ pc'[t] = pc[t] \/ (pc[t] = "waiting" /\ pc'[t] = "lock")

\* Whatever one thread does, the others stay put (notify_all moves only the
\* threads parked in cv.wait).
LEMMA OthersStay ==
    ASSUME TypeOK, ParkedInv, NEW w \in Workers, Step(w) \/ SpuriousWakeup(w)
    PROVE  \A t \in Workers \ {w} : StaysPut(t)
<1> USE DEF TypeOK, ParkedInv, StaysPut, Goto, NotifyAll, shared
<1>1. CASE Lock(w) \/ ExitFailed(w) \/ Pop(w) \/ ExitDone(w) \/ DecideToWait(w) \/ Wait(w)
  BY <1>1 DEF Lock, ExitFailed, Pop, ExitDone, DecideToWait, Wait
<1>2. CASE Claim(w) \/ ProcessExpand(w) \/ ProcessPrune(w) \/ ProcessFail(w)
  BY <1>2 DEF Claim, ProcessExpand, ProcessPrune, ProcessFail
<1>3. CASE Account(w) \/ Publish(w) \/ Announce(w) \/ Finish(w) \/ FinishSignal(w)
  BY <1>3 DEF Account, Publish, Announce, Finish, FetchSub, FinishSignal, Signal
<1>4. CASE RecordError(w) \/ ErrorSignal(w) \/ ErrorFinish(w) \/ ErrorDone(w)
  BY <1>4 DEF RecordError, ErrorSignal, ErrorFinish, ErrorDone, FetchSub, Signal
<1>5. CASE SpuriousWakeup(w)
  BY <1>5 DEF SpuriousWakeup
<1> QED  BY <1>1, <1>2, <1>3, <1>4, <1>5 DEF Step

\* The mover keeps its hash too, except when it takes one from the queue.
LEMMA ItemStep ==
    ASSUME IInv, [Next]_vars
    PROVE  ItemInv' /\ ErrorInv' /\ ParkedInv'
<1> USE DEF IInv, TypeOK, ParkedInv, ItemInv, ErrorInv, Held, AfterError, Goto, NotifyAll, shared
<1>1. ASSUME NEW w \in Workers, Step(w) \/ SpuriousWakeup(w)
      PROVE  ItemInv' /\ ErrorInv' /\ ParkedInv'
  <2>0. \A t \in Workers \ {w} : StaysPut(t)
    BY <1>1, OthersStay
  <2> USE DEF StaysPut
  <2>1. CASE Lock(w) \/ ExitFailed(w) \/ DecideToWait(w) \/ Wait(w)
    BY <2>0, <2>1 DEF Lock, ExitFailed, DecideToWait, Wait
  <2>2. CASE Pop(w)
    <3>1. Head(queue) \in Nodes
      BY <2>2 DEF Pop
    <3> QED  BY <2>0, <2>2, <3>1 DEF Pop
  <2>3. CASE ExitDone(w)
    BY <2>0, <2>3 DEF ExitDone
  <2>4. CASE Claim(w) \/ ProcessExpand(w) \/ ProcessPrune(w) \/ ProcessFail(w)
    BY <2>0, <2>4 DEF Claim, ProcessExpand, ProcessPrune, ProcessFail
  <2>5. CASE Account(w) \/ Publish(w) \/ Announce(w) \/ Finish(w) \/ FinishSignal(w)
    BY <2>0, <2>5 DEF Account, Publish, Announce, Finish, FetchSub, FinishSignal, Signal
  <2>6. CASE RecordError(w) \/ ErrorSignal(w) \/ ErrorFinish(w) \/ ErrorDone(w)
    BY <2>0, <2>6 DEF RecordError, ErrorSignal, ErrorFinish, ErrorDone, FetchSub, Signal
  <2>7. CASE SpuriousWakeup(w)
    BY <2>0, <2>7 DEF SpuriousWakeup
  <2> QED  BY <1>1, <2>1, <2>2, <2>3, <2>4, <2>5, <2>6, <2>7 DEF Step
<1>2. CASE UNCHANGED vars
  BY <1>2 DEF vars
<1> QED  BY <1>1, <1>2 DEF Next, Returned

-----------------------------------------------------------------------------
(* Counting.                                                               *)

\* The items in flight after a step of thread w.
LEMMA InFlightStep ==
    ASSUME TypeOK, NEW w \in Workers, \A t \in Workers \ {w} : StaysPut(t)
    PROVE  /\ pc'[w] \in Held => InFlight' = InFlight \cup {w}
           /\ pc'[w] \notin Held => InFlight' = InFlight \ {w}
  BY DEF TypeOK, StaysPut, InFlight, Held

\* Their number: the mover enters, leaves, or neither.
LEMMA InFlightCard ==
    ASSUME TypeOK, NEW w \in Workers, \A t \in Workers \ {w} : StaysPut(t)
    PROVE  /\ Cardinality(InFlight) \in Nat /\ Cardinality(InFlight)' \in Nat
           /\ pc[w] \in Held <=> pc'[w] \in Held =>
                Cardinality(InFlight)' = Cardinality(InFlight)
           /\ pc[w] \notin Held /\ pc'[w] \in Held =>
                Cardinality(InFlight)' = Cardinality(InFlight) + 1
           /\ pc[w] \in Held /\ pc'[w] \notin Held =>
                Cardinality(InFlight)' = Cardinality(InFlight) - 1
           /\ pc[w] \in Held => Cardinality(InFlight) >= 1
<1>1. IsFiniteSet(InFlight)
  BY FS_Subset, WorkersAssumption DEF InFlight
<1>2. pc[w] \in Held <=> w \in InFlight
  BY DEF InFlight, Held
<1>3. /\ pc'[w] \in Held => InFlight' = InFlight \cup {w}
      /\ pc'[w] \notin Held => InFlight' = InFlight \ {w}
  BY InFlightStep
<1>4. Cardinality(InFlight) \in Nat
  BY <1>1, FS_CardinalityType
<1>5. /\ IsFiniteSet(InFlight \cup {w})
      /\ Cardinality(InFlight \cup {w}) =
           IF w \in InFlight THEN Cardinality(InFlight) ELSE Cardinality(InFlight) + 1
  BY <1>1, FS_AddElement
<1>6. /\ IsFiniteSet(InFlight \ {w})
      /\ Cardinality(InFlight \ {w}) =
           IF w \in InFlight THEN Cardinality(InFlight) - 1 ELSE Cardinality(InFlight)
  BY <1>1, FS_RemoveElement
<1>7. Cardinality(InFlight \ {w}) \in Nat
  BY <1>6, FS_CardinalityType
<1>8. CASE pc'[w] \in Held
  BY <1>2, <1>3, <1>4, <1>5, <1>6, <1>7, <1>8
<1>9. CASE pc'[w] \notin Held
  BY <1>2, <1>3, <1>4, <1>6, <1>7, <1>9
<1> QED  BY <1>8, <1>9

\* What is unpublished, by the thread that holds it.
PairsOf(w) == {w} \X DOMAIN Children[item[w]]

\* A thread about to publish has as many pairs as its item has children.
LEMMA PairsCard ==
    ASSUME NEW w, item[w] \in Nodes
    PROVE  IsFiniteSet(PairsOf(w)) /\ Cardinality(PairsOf(w)) = Len(Children[item[w]])
<1> DEFINE c == Children[item[w]]
<1>1. c \in Seq(Nodes)
  BY GraphAssumption
<1>2. DOMAIN c = 1 .. Len(c) /\ Len(c) \in Nat
  BY <1>1
<1>3. IsFiniteSet(DOMAIN c) /\ Cardinality(DOMAIN c) = Len(c)
  BY <1>2, FS_Interval
<1>4. IsFiniteSet({w}) /\ Cardinality({w}) = 1
  BY FS_Singleton
<1>5. IsFiniteSet({w} \X DOMAIN c) /\ Cardinality({w} \X DOMAIN c) = 1 * Len(c)
  BY <1>3, <1>4, FS_Product
<1> QED  BY <1>2, <1>5 DEF PairsOf

\* What a thread has added to the count and not yet queued.
LEMMA UnpublishedMember ==
    \A x : x \in Unpublished <=> \E v \in Workers : pc[v] = "publish" /\ x \in PairsOf(v)
  BY DEF Unpublished, Accounted, PairsOf

\* The same in the next state.
LEMMA UnpublishedMemberPrime ==
    \A x : x \in Unpublished' <=> \E v \in Workers : pc'[v] = "publish" /\ x \in PairsOf(v)'
  BY DEF Unpublished, Accounted, PairsOf

\* A step that does not touch a thread about to publish changes nothing.
LEMMA UnpublishedSame ==
    ASSUME TypeOK, NEW w \in Workers, \A t \in Workers \ {w} : StaysPut(t),
           pc[w] # "publish", pc'[w] # "publish"
    PROVE  Unpublished' = Unpublished
<1>1. \A v \in Workers : pc[v] = "publish" <=> pc'[v] = "publish"
  BY DEF StaysPut
<1>2. \A v \in Workers : pc[v] = "publish" => PairsOf(v)' = PairsOf(v)
  BY DEF StaysPut, PairsOf
<1> QED  BY <1>1, <1>2, UnpublishedMember, UnpublishedMemberPrime

\* fetch_add makes the children of w's hash unpublished, ...
LEMMA UnpublishedAdd ==
    ASSUME TypeOK, NEW w \in Workers, \A t \in Workers \ {w} : StaysPut(t),
           pc[w] # "publish", pc'[w] = "publish", item'[w] = item[w], item[w] \in Nodes,
           IsFiniteSet(Unpublished)
    PROVE  /\ IsFiniteSet(Unpublished')
           /\ Cardinality(Unpublished') = Cardinality(Unpublished) + Len(Children[item[w]])
<1>1. \A v \in Workers \ {w} : pc[v] = "publish" <=> pc'[v] = "publish"
  BY DEF StaysPut
<1>2. \A v \in Workers : pc'[v] = "publish" => PairsOf(v)' = PairsOf(v)
  BY DEF StaysPut, PairsOf
<1>3. Unpublished' = Unpublished \cup PairsOf(w)
  BY <1>1, <1>2, UnpublishedMember, UnpublishedMemberPrime
<1>4. Unpublished \cap PairsOf(w) = {}
  BY UnpublishedMember DEF PairsOf
<1>5. IsFiniteSet(PairsOf(w)) /\ Cardinality(PairsOf(w)) = Len(Children[item[w]])
  BY PairsCard
<1>6. Cardinality(Unpublished \cap PairsOf(w)) = 0
  BY <1>4, FS_EmptySet
<1>7. Cardinality(Unpublished) \in Nat /\ Cardinality(PairsOf(w)) \in Nat
  BY <1>5, FS_CardinalityType
<1>8. /\ IsFiniteSet(Unpublished \cup PairsOf(w))
      /\ Cardinality(Unpublished \cup PairsOf(w)) = 
           Cardinality(Unpublished) + Cardinality(PairsOf(w)) - Cardinality(Unpublished \cap PairsOf(w))
  BY <1>5, FS_Union
<1> QED  BY <1>3, <1>5, <1>6, <1>7, <1>8

\* ... and the extension of the queue takes them away again.
LEMMA UnpublishedRemove ==
    ASSUME TypeOK, NEW w \in Workers, \A t \in Workers \ {w} : StaysPut(t),
           pc[w] = "publish", pc'[w] # "publish", item[w] \in Nodes,
           IsFiniteSet(Unpublished)
    PROVE  /\ IsFiniteSet(Unpublished')
           /\ Cardinality(Unpublished') = Cardinality(Unpublished) - Len(Children[item[w]])
<1>1. \A v \in Workers \ {w} : pc[v] = "publish" <=> pc'[v] = "publish"
  BY DEF StaysPut
<1>2. \A v \in Workers \ {w} : pc[v] = "publish" => PairsOf(v)' = PairsOf(v)
  BY DEF StaysPut, PairsOf
<1>3. Unpublished' = Unpublished \ PairsOf(w)
  <2>1. \A v \in Workers \ {w} : PairsOf(v) \cap PairsOf(w) = {}
    BY DEF PairsOf
  <2> QED  BY <1>1, <1>2, <2>1, UnpublishedMember, UnpublishedMemberPrime
<1>4. Unpublished \cap PairsOf(w) = PairsOf(w)
  BY UnpublishedMember
<1>5. Cardinality(PairsOf(w)) = Len(Children[item[w]])
  BY PairsCard
<1>6. /\ IsFiniteSet(Unpublished \ PairsOf(w))
      /\ Cardinality(Unpublished \ PairsOf(w)) = 
           Cardinality(Unpublished) - Cardinality(Unpublished \cap PairsOf(w))
  BY FS_Difference
<1> QED  BY <1>3, <1>4, <1>5, <1>6

\* A thread in flight is counted.
LEMMA CountPositive ==
    ASSUME TypeOK, CountInv, NEW w \in Workers, pc[w] \in Held
    PROVE  outstanding >= 1
<1>1. IsFiniteSet(InFlight) /\ w \in InFlight
  BY FS_Subset, WorkersAssumption DEF InFlight, Held
<1>2. Cardinality(InFlight) \in Nat /\ Cardinality(InFlight) # 0
  BY <1>1, FS_CardinalityType, FS_EmptySet
<1>3. Cardinality(Unpublished) \in Nat /\ Len(queue) \in Nat
  BY FS_CardinalityType DEF CountInv, TypeOK
<1> QED  BY <1>2, <1>3 DEF CountInv, TypeOK

\* Every step of worker_loop and child_worker_loop keeps the types.
LEMMA TypeStep ==
    ASSUME IInv, [Next]_vars
    PROVE  TypeOK'
<1> USE DEF IInv, TypeOK, Goto, NotifyAll, shared, PCs
<1>1. ASSUME NEW w \in Workers, Step(w) \/ SpuriousWakeup(w)
      PROVE  TypeOK'
  <2>1. CASE Lock(w) \/ ExitFailed(w) \/ DecideToWait(w) \/ Wait(w)
    BY <2>1 DEF Lock, ExitFailed, DecideToWait, Wait
  <2>2. CASE Pop(w)
    <3>1. Head(queue) \in Nodes /\ Tail(queue) \in Seq(Nodes)
      BY <2>2 DEF Pop
    <3> QED  BY <2>2, <3>1 DEF Pop
  <2>3. CASE ExitDone(w)
    BY <2>3 DEF ExitDone
  <2>4. CASE Claim(w) \/ ProcessFail(w)
    BY <2>4 DEF Claim, ProcessFail, ItemInv, Held
  <2>5. CASE ProcessExpand(w) \/ ProcessPrune(w)
    <3>1. item[w] \in Nodes
      BY <2>5 DEF ProcessExpand, ProcessPrune, ItemInv, Held
    <3>2. processed' \in [Nodes -> Nat]
      BY <2>5, <3>1 DEF ProcessExpand, ProcessPrune, NodeDone
    <3> QED  BY <2>5, <3>1, <3>2 DEF ProcessExpand, ProcessPrune
  <2>6. CASE Account(w) \/ Publish(w)
    <3>1. Children[item[w]] \in Seq(Nodes)
      BY <2>6, GraphAssumption DEF Account, Publish, ItemInv, Held
    <3>2. Len(Children[item[w]]) \in Nat /\ queue \o Children[item[w]] \in Seq(Nodes)
      BY <3>1
    <3> PICK k \in Nat : k = Len(Children[item[w]])
      BY <3>2
    <3>3. queue' \in Seq(Nodes) /\ outstanding' \in Nat
      <4>1. CASE Account(w)
        <5>1. outstanding' = outstanding + k /\ queue' = queue
          BY <4>1 DEF Account
        <5> QED  BY <5>1
      <4>2. CASE Publish(w)
        BY <3>2, <4>2 DEF Publish
      <4> QED  BY <2>6, <4>1, <4>2
    <3> QED  BY <2>6, <3>3 DEF Account, Publish
  <2>7. CASE Announce(w) \/ FinishSignal(w) \/ RecordError(w) \/ ErrorSignal(w) \/ ErrorDone(w)
    BY <2>7 DEF Announce, FinishSignal, RecordError, ErrorSignal, ErrorDone, Signal
  <2>8. CASE Finish(w) \/ ErrorFinish(w)
    <3>1. pc[w] \in Held
      BY <2>8 DEF Finish, ErrorFinish, FetchSub, Held
    <3>2. outstanding >= 1
      BY <3>1, CountPositive
    <3>3. outstanding' \in Nat
      BY <2>8, <3>2 DEF Finish, ErrorFinish, FetchSub
    <3>4. pc' \in [Workers -> PCs]
      BY <2>8 DEF Finish, ErrorFinish, FetchSub
    <3>5. UNCHANGED <<loop, queue, mutex, visited, failed, waiting, item, pruned, processed, spurious>>
      BY <2>8 DEF Finish, ErrorFinish, FetchSub
    <3> QED  BY <3>3, <3>4, <3>5
  <2>9. CASE SpuriousWakeup(w)
    BY <2>9, LoopAssumption DEF SpuriousWakeup
  <2> QED  BY <1>1, <2>1, <2>2, <2>3, <2>4, <2>5, <2>6, <2>7, <2>8, <2>9 DEF Step
<1>2. CASE UNCHANGED vars
  BY <1>2 DEF vars
<1> QED  BY <1>1, <1>2 DEF Next, Returned

\* The count stays exact: every fetch_add, fetch_sub, push and pop is matched.
LEMMA CountStep ==
    ASSUME IInv, [Next]_vars
    PROVE  CountInv'
<1>1. ASSUME NEW w \in Workers, Step(w) \/ SpuriousWakeup(w)
      PROVE  CountInv'
  <2> USE DEF IInv, Goto, NotifyAll, shared
  <2>0. \A t \in Workers \ {w} : StaysPut(t)
    BY <1>1, OthersStay
  <2>a. /\ Cardinality(InFlight) \in Nat /\ Cardinality(InFlight)' \in Nat
        /\ (pc[w] \in Held <=> pc'[w] \in Held) =>
             Cardinality(InFlight)' = Cardinality(InFlight)
        /\ pc[w] \notin Held /\ pc'[w] \in Held =>
             Cardinality(InFlight)' = Cardinality(InFlight) + 1
        /\ pc[w] \in Held /\ pc'[w] \notin Held =>
             Cardinality(InFlight)' = Cardinality(InFlight) - 1
        /\ pc[w] \in Held => Cardinality(InFlight) >= 1
    BY <2>0, InFlightCard
  <2>b. pc[w] # "publish" /\ pc'[w] # "publish" => Unpublished' = Unpublished
    BY <2>0, UnpublishedSame
  <2>c. IsFiniteSet(Unpublished) /\ Cardinality(Unpublished) \in Nat
    BY FS_CardinalityType DEF CountInv
  <2>d. Len(queue) \in Nat /\ outstanding \in Nat /\ failed \in BOOLEAN
    BY DEF TypeOK
  <2>e. outstanding >= Len(queue) + Cardinality(InFlight) + Cardinality(Unpublished)
    BY DEF CountInv
  <2>f. loop = "worker_loop" \/ ~failed =>
          outstanding = Len(queue) + Cardinality(InFlight) + Cardinality(Unpublished)
    BY DEF CountInv, OutstandingCounts
  <2> DEFINE Exact == /\ outstanding' >= Len(queue') + Cardinality(InFlight)' + Cardinality(Unpublished')
                      /\ (loop' = "worker_loop" \/ ~failed') =>
                           outstanding' = Len(queue') + Cardinality(InFlight)' + Cardinality(Unpublished')
  <2>g. IsFiniteSet(Unpublished') /\ Exact => CountInv'
    BY DEF CountInv, OutstandingCounts
  <2>1. ASSUME (pc[w] \in Held <=> pc'[w] \in Held), pc[w] # "publish", pc'[w] # "publish",
               UNCHANGED <<loop, queue, outstanding>>, failed => failed'
        PROVE  CountInv'
    BY <2>1, <2>a, <2>b, <2>c, <2>d, <2>e, <2>f, <2>g
  <2>2. CASE Lock(w) \/ ExitFailed(w) \/ DecideToWait(w) \/ Wait(w)
    BY <2>1, <2>2 DEF Lock, ExitFailed, DecideToWait, Wait, TypeOK, Held
  <2>3. CASE ExitDone(w)
    BY <2>1, <2>3 DEF ExitDone, TypeOK, ParkedInv, Held
  <2>4. CASE Claim(w) \/ ProcessFail(w) \/ ProcessPrune(w) \/ RecordError(w) \/ SpuriousWakeup(w)
    BY <2>1, <2>4 DEF Claim, ProcessFail, ProcessPrune, RecordError, SpuriousWakeup, TypeOK, Held
  <2>5. CASE ProcessExpand(w)
    BY <2>1, <2>5 DEF ProcessExpand, TypeOK, Held
  <2>6. CASE Announce(w) \/ FinishSignal(w) \/ ErrorDone(w)
    BY <2>1, <2>6 DEF Announce, FinishSignal, ErrorDone, Signal, TypeOK, ParkedInv, Held
  <2>7. CASE Pop(w)
    <3>1. Len(queue') = Len(queue) - 1
      BY <2>7 DEF Pop, TypeOK
    <3>2. pc[w] \notin Held /\ pc'[w] \in Held /\ pc[w] # "publish" /\ pc'[w] # "publish"
      BY <2>7 DEF Pop, TypeOK, Held
    <3>3. UNCHANGED <<loop, outstanding, failed>>
      BY <2>7 DEF Pop
    <3> HIDE DEF IInv, Goto, NotifyAll, shared
    <3>4. Unpublished' = Unpublished /\ Cardinality(InFlight)' = Cardinality(InFlight) + 1
      BY <3>2, <2>a, <2>b
    <3>5. Len(queue') + Cardinality(InFlight)' + Cardinality(Unpublished')
            = Len(queue) + Cardinality(InFlight) + Cardinality(Unpublished)
      BY <3>1, <3>4, <2>a, <2>c, <2>d
    <3>6. Exact
      BY <3>3, <3>5, <2>e, <2>f
    <3> QED  BY <3>4, <3>6, <2>c, <2>g
  <2>8. CASE Account(w)
    <3>1. pc[w] \in Held /\ pc'[w] \in Held /\ pc[w] # "publish" /\ pc'[w] = "publish"
      BY <2>8 DEF Account, TypeOK, Held
    <3>2. item'[w] = item[w] /\ item[w] \in Nodes
      BY <2>8, <3>1 DEF Account, ItemInv
    <3>3. /\ IsFiniteSet(Unpublished')
          /\ Cardinality(Unpublished') = Cardinality(Unpublished) + Len(Children[item[w]])
      BY <2>0, <2>c, <3>1, <3>2, UnpublishedAdd
    <3>4. PICK k \in Nat : k = Len(Children[item[w]])
      BY <3>2, GraphAssumption
    <3>5. outstanding' = outstanding + k /\ UNCHANGED <<loop, queue, failed>>
      BY <2>8, <3>4 DEF Account
    <3>6. Cardinality(InFlight)' = Cardinality(InFlight)
      BY <2>a, <3>1
    <3>7. Cardinality(Unpublished') = Cardinality(Unpublished) + k
      BY <3>3, <3>4
    <3> HIDE DEF IInv, Goto, NotifyAll, shared
    <3>8. Exact
      BY <3>5, <3>6, <3>7, <2>a, <2>c, <2>d, <2>e, <2>f
    <3> QED  BY <3>3, <3>8, <2>g
  <2>9. CASE Publish(w)
    <3>1. pc[w] \in Held /\ pc'[w] \in Held /\ pc[w] = "publish" /\ pc'[w] # "publish"
      BY <2>9 DEF Publish, TypeOK, Held
    <3>2. item[w] \in Nodes
      BY <3>1 DEF ItemInv
    <3>3. /\ IsFiniteSet(Unpublished')
          /\ Cardinality(Unpublished') = Cardinality(Unpublished) - Len(Children[item[w]])
      BY <2>0, <2>c, <3>1, <3>2, UnpublishedRemove
    <3>4. queue' = queue \o Children[item[w]] /\ UNCHANGED <<loop, outstanding, failed>>
      BY <2>9 DEF Publish
    <3>5. Children[item[w]] \in Seq(Nodes)
      BY <3>2, GraphAssumption
    <3>6. Len(queue') = Len(queue) + Len(Children[item[w]]) /\ Len(Children[item[w]]) \in Nat
      BY <3>4, <3>5 DEF TypeOK
    <3>7. Cardinality(Unpublished') \in Nat
      BY <3>3, FS_CardinalityType
    <3>8. Cardinality(InFlight)' = Cardinality(InFlight)
      BY <2>a, <3>1
    <3> HIDE DEF IInv, Goto, NotifyAll, shared
    <3>9. Len(queue') + Cardinality(InFlight)' + Cardinality(Unpublished')
            = Len(queue) + Cardinality(InFlight) + Cardinality(Unpublished)
      BY <3>3, <3>6, <3>7, <3>8, <2>a, <2>c, <2>d
    <3>10. Exact
      BY <3>4, <3>9, <2>e, <2>f
    <3> QED  BY <3>3, <3>10, <2>g
  <2>10. CASE Finish(w) \/ ErrorFinish(w)
    <3>1. pc[w] \in Held /\ pc'[w] \notin Held /\ pc[w] # "publish" /\ pc'[w] # "publish"
      BY <2>10 DEF Finish, ErrorFinish, FetchSub, TypeOK, Held
    <3>2. outstanding' = outstanding - 1 /\ UNCHANGED <<loop, queue, failed>>
      BY <2>10 DEF Finish, ErrorFinish, FetchSub
    <3> HIDE DEF IInv, Goto, NotifyAll, shared
    <3>3. Unpublished' = Unpublished /\ Cardinality(InFlight)' = Cardinality(InFlight) - 1
      BY <3>1, <2>a, <2>b
    <3>4. Len(queue') + Cardinality(InFlight)' + Cardinality(Unpublished')
            = (Len(queue) + Cardinality(InFlight) + Cardinality(Unpublished)) - 1
      BY <3>2, <3>3, <2>a, <2>c, <2>d
    <3>5. Exact
      BY <3>2, <3>4, <2>a, <2>c, <2>d, <2>e, <2>f
    <3> QED  BY <3>3, <3>5, <2>c, <2>g
  <2>11. CASE ErrorSignal(w)
    <3>1. /\ pc[w] = "errorSignal" /\ UNCHANGED <<loop, queue, outstanding, failed>>
          /\ pc'[w] = IF loop = "worker_loop" THEN "errorFinish" ELSE "exited"
      BY <2>11 DEF ErrorSignal, Signal, TypeOK, ParkedInv
    <3>2. pc[w] \in Held /\ pc[w] # "publish" /\ pc'[w] # "publish"
          /\ (pc'[w] \in Held <=> loop = "worker_loop")
      BY <3>1 DEF Held
    <3>3. failed
      BY <3>1 DEF ErrorInv, AfterError
    <3> HIDE DEF IInv, Goto, NotifyAll, shared
    <3>4. Unpublished' = Unpublished
      BY <3>2, <2>b
    <3>5. CASE loop = "worker_loop"
      <4>1. Cardinality(InFlight)' = Cardinality(InFlight)
        BY <3>2, <3>5, <2>a
      <4>2. Exact
        BY <3>1, <3>4, <4>1, <2>e, <2>f
      <4> QED  BY <3>4, <4>2, <2>c, <2>g
    <3>6. CASE loop # "worker_loop"
      <4>1. Cardinality(InFlight)' = Cardinality(InFlight) - 1
        BY <3>2, <3>6, <2>a
      <4>2. Len(queue') + Cardinality(InFlight)' + Cardinality(Unpublished')
              = (Len(queue) + Cardinality(InFlight) + Cardinality(Unpublished)) - 1
        BY <3>1, <3>4, <4>1, <2>a, <2>c, <2>d
      <4>3. outstanding' >= Len(queue') + Cardinality(InFlight)' + Cardinality(Unpublished')
        BY <3>1, <4>2, <2>a, <2>c, <2>d, <2>e
      <4>4. Exact
        BY <3>1, <3>3, <3>6, <4>3
      <4> QED  BY <3>4, <4>4, <2>c, <2>g
    <3> QED  BY <3>5, <3>6
  <2> QED  BY <1>1, <2>2, <2>3, <2>4, <2>5, <2>6, <2>7, <2>8, <2>9, <2>10, <2>11 DEF Step
<1>2. CASE UNCHANGED vars
  BY <1>2 DEF IInv, CountInv, OutstandingCounts, Unpublished, Accounted, InFlight, vars
<1> QED  BY <1>1, <1>2 DEF Next, Returned

-----------------------------------------------------------------------------
(* Claiming.                                                               *)

\* visited.insert lets one thread through: no two process the same hash, and
\* none processes a hash again.
LEMMA ClaimStep ==
    ASSUME IInv, [Next]_vars
    PROVE  ClaimInv'
<1> USE DEF IInv, ClaimInv, ExactlyOnce
<1>1. ASSUME NEW w \in Workers, Step(w) \/ SpuriousWakeup(w)
      PROVE  ClaimInv'
  <2> USE DEF TypeOK, Goto, NotifyAll, shared, StaysPut
  <2>0. \A t \in Workers \ {w} : StaysPut(t)
    BY <1>1, OthersStay
  <2>1. ASSUME pc'[w] # "process", UNCHANGED <<visited, processed>>
        PROVE  ClaimInv'
    <3>1. \A t \in Workers : pc'[t] = "process" => pc[t] = "process" /\ item'[t] = item[t]
      BY <2>0, <2>1
    <3> QED  BY <2>1, <3>1
  <2>2. CASE Lock(w) \/ ExitFailed(w) \/ DecideToWait(w) \/ Wait(w) \/ Pop(w)
    BY <2>1, <2>2 DEF Lock, ExitFailed, DecideToWait, Wait, Pop
  <2>3. CASE ExitDone(w)
    BY <2>1, <2>3 DEF ExitDone, ParkedInv
  <2>4. CASE Claim(w)
    <3>1. item[w] \in Nodes /\ item' = item /\ processed' = processed
          /\ visited' = visited \cup {item[w]}
          /\ pc'[w] = IF item[w] \in visited THEN "finish" ELSE "process"
      BY <2>4 DEF Claim, ItemInv, Held
    <3> QED  BY <2>0, <3>1
  <2>5. CASE ProcessExpand(w) \/ ProcessPrune(w)
    <3>1. /\ item[w] \in Nodes /\ item' = item /\ visited' = visited
          /\ pc[w] = "process" /\ pc'[w] # "process"
          /\ processed' = [processed EXCEPT ![item[w]] = @ + 1]
      BY <2>5 DEF ProcessExpand, ProcessPrune, NodeDone, ItemInv, Held
    <3>2. item[w] \in visited /\ processed[item[w]] = 0
      BY <3>1
    <3>3. /\ processed'[item[w]] = 1
          /\ \A n \in Nodes \ {item[w]} : processed'[n] = processed[n]
      BY <3>1, <3>2
    <3>4. \A t \in Workers \ {w} : pc'[t] = "process" =>
             pc[t] = "process" /\ item[t] # item[w] /\ item[t] \in Nodes
      BY <2>0, <3>1 DEF ItemInv, Held
    <3>5. (\A v \in Workers : pc[v] = "process" => item[v] \in visited /\ processed[item[v]] = 0)'
      BY <3>1, <3>3, <3>4
    <3>6. (\A u, v \in Workers : pc[u] = "process" /\ pc[v] = "process" /\ u # v => item[u] # item[v])'
      BY <3>1, <3>4
    <3>7. (\A n \in Nodes : processed[n] > 0 => n \in visited)'
      BY <3>1, <3>2, <3>3
    <3>8. ExactlyOnce'
      BY <3>3
    <3> QED  BY <3>5, <3>6, <3>7, <3>8
  <2>6. CASE ProcessFail(w) \/ Account(w) \/ Publish(w) \/ RecordError(w) \/ SpuriousWakeup(w)
    BY <2>1, <2>6 DEF ProcessFail, Account, Publish, RecordError, SpuriousWakeup
  <2>7. CASE Announce(w) \/ FinishSignal(w) \/ ErrorSignal(w) \/ ErrorDone(w)
    BY <2>1, <2>7 DEF Announce, FinishSignal, ErrorSignal, ErrorDone, Signal, ParkedInv
  <2>8. CASE Finish(w) \/ ErrorFinish(w)
    BY <2>1, <2>8 DEF Finish, ErrorFinish, FetchSub
  <2> QED  BY <1>1, <2>2, <2>3, <2>4, <2>5, <2>6, <2>7, <2>8 DEF Step
<1>2. CASE UNCHANGED vars
  BY <1>2 DEF vars
<1> QED  BY <1>1, <1>2 DEF Next, Returned

-----------------------------------------------------------------------------
(* Nothing is forgotten.                                                   *)

\* Popping the front of the queue takes nothing else out of it.
LEMMA RangeTail ==
    ASSUME NEW q \in Seq(Nodes), q # <<>>, NEW n \in SeqRange(q), n # Head(q)
    PROVE  n \in SeqRange(Tail(q))
<1>1. PICK i \in 1 .. Len(q) : q[i] = n
  BY DEF SeqRange
<1>2. i # 1
  BY <1>1
<1>3. i - 1 \in 1 .. Len(Tail(q)) /\ Tail(q)[i - 1] = n
  BY <1>1, <1>2
<1>4. i - 1 \in DOMAIN Tail(q)
  BY <1>3
<1> QED  BY <1>3, <1>4 DEF SeqRange

\* Extending the queue keeps what is there and adds all that is new.
LEMMA RangeConcat ==
    ASSUME NEW a \in Seq(Nodes), NEW b \in Seq(Nodes)
    PROVE  SeqRange(a) \subseteq SeqRange(a \o b) /\ SeqRange(b) \subseteq SeqRange(a \o b)
<1>1. ASSUME NEW i \in 1 .. Len(a)
      PROVE  a[i] \in SeqRange(a \o b)
  <2>1. i \in 1 .. Len(a \o b) /\ (a \o b)[i] = a[i]
    OBVIOUS
  <2>2. i \in DOMAIN (a \o b)
    BY <2>1
  <2> QED  BY <2>1, <2>2 DEF SeqRange
<1>2. ASSUME NEW i \in 1 .. Len(b)
      PROVE  b[i] \in SeqRange(a \o b)
  <2>1. Len(a) + i \in 1 .. Len(a \o b) /\ (a \o b)[Len(a) + i] = b[i]
    OBVIOUS
  <2>2. Len(a) + i \in DOMAIN (a \o b)
    BY <2>1
  <2> QED  BY <2>1, <2>2 DEF SeqRange
<1>3. DOMAIN a = 1 .. Len(a) /\ DOMAIN b = 1 .. Len(b)
  OBVIOUS
<1> QED  BY <1>1, <1>2, <1>3 DEF SeqRange

\* A step that takes nothing out of the visited set or the queue, and does
\* not drop a hash that was about to be claimed, keeps what was met.
LEMMA MetStays ==
    ASSUME NEW w \in Workers, \A t \in Workers \ {w} : StaysPut(t),
           visited \subseteq visited', SeqRange(queue) \subseteq SeqRange(queue'),
           pc[w] = "claim" => item[w] \in visited'
    PROVE  \A n : Met(n) => Met(n)'
  BY DEF Met, StaysPut

\* Roots and children stay met, claimed hashes stay in hand until processed.
LEMMA WorkStep ==
    ASSUME IInv, [Next]_vars
    PROVE  WorkInv'
<1>1. ASSUME NEW w \in Workers, Step(w) \/ SpuriousWakeup(w)
      PROVE  WorkInv'
  <2> SUFFICES ASSUME ~failed' PROVE WorkInv'
    BY DEF WorkInv
  <2> USE DEF IInv, Goto, NotifyAll, shared
  <2>0. \A t \in Workers \ {w} : StaysPut(t)
    BY <1>1, OthersStay
  <2>nf. ~failed
    BY <1>1 DEF Step, Lock, ExitFailed, Pop, ExitDone, DecideToWait, Wait, Claim, ProcessExpand,
          ProcessPrune, ProcessFail, Account, Publish, Announce, Finish, FinishSignal, FetchSub,
          Signal, RecordError, ErrorSignal, ErrorFinish, ErrorDone, SpuriousWakeup
  <2> DEFINE Claimed(n) == \/ processed[n] > 0
                           \/ \E v \in Workers : pc[v] \in {"process", "error"} /\ item[v] = n
             Walked(n) == \/ \A m \in SeqRange(Children[n]) : Met(m)
                          \/ \E v \in Workers : pc[v] \in {"account", "publish"} /\ item[v] = n
  <2>a. \A n \in SeqRange(Roots) : Met(n)
    BY <2>nf DEF WorkInv
  <2>b. \A n \in visited : Claimed(n)
    BY <2>nf DEF WorkInv
  <2>c. \A n \in Nodes \ pruned : processed[n] > 0 => Walked(n)
    BY <2>nf DEF WorkInv
  <2>d. /\ \A n \in SeqRange(Roots) : Met(n)'
        /\ \A n \in visited' : Claimed(n)'
        /\ \A n \in Nodes \ pruned' : processed'[n] > 0 => Walked(n)'
        => WorkInv'
    BY DEF WorkInv
  \* Steps that neither move a hash nor change what its holder owes.
  <2>1. ASSUME UNCHANGED <<queue, visited, processed, pruned>>, item'[w] = item[w],
               pc[w] # "claim",
               pc[w] \in {"process", "error"} => pc'[w] \in {"process", "error"},
               pc[w] \in {"account", "publish"} => pc'[w] \in {"account", "publish"}
        PROVE  WorkInv'
    <3>1. \A n : Met(n) => Met(n)'
      BY <2>0, <2>1, MetStays
    <3>2. \A n : Claimed(n) => Claimed(n)'
      BY <2>0, <2>1 DEF StaysPut
    <3>3. \A n : Walked(n) => Walked(n)'
      BY <2>0, <2>1, <3>1 DEF StaysPut
    <3> QED  BY <2>1, <2>a, <2>b, <2>c, <2>d, <3>1, <3>2, <3>3
  <2>2. CASE Lock(w) \/ ExitFailed(w) \/ DecideToWait(w) \/ Wait(w) \/ SpuriousWakeup(w)
    BY <2>1, <2>2 DEF Lock, ExitFailed, DecideToWait, Wait, SpuriousWakeup
  <2>3. CASE ExitDone(w)
    BY <2>1, <2>3 DEF ExitDone
  <2>4. CASE ProcessFail(w) \/ Account(w)
    BY <2>1, <2>4 DEF ProcessFail, Account, TypeOK
  <2>5. CASE Announce(w) \/ FinishSignal(w) \/ ErrorDone(w) \/ ErrorSignal(w)
    BY <2>1, <2>5 DEF Announce, FinishSignal, ErrorDone, ErrorSignal, Signal
  <2>6. CASE Finish(w) \/ ErrorFinish(w)
    BY <2>1, <2>6 DEF Finish, ErrorFinish, FetchSub
  <2>7. CASE RecordError(w)
    BY <2>7 DEF RecordError
  <2>8. CASE Pop(w)
    <3>1. /\ queue # <<>> /\ queue \in Seq(Nodes) /\ queue' = Tail(queue)
          /\ item'[w] = Head(queue) /\ pc[w] = "check" /\ pc'[w] = "claim"
          /\ UNCHANGED <<visited, processed, pruned>>
      BY <2>8 DEF Pop, TypeOK
    <3>2. ASSUME NEW n, Met(n)
          PROVE  Met(n)'
      <4>1. CASE n \in visited
        BY <3>1, <4>1 DEF Met
      <4>2. CASE n \in SeqRange(queue) /\ n # Head(queue)
        BY <3>1, <4>2, RangeTail DEF Met
      <4>3. CASE n = Head(queue)
        BY <3>1, <4>3 DEF Met
      <4>4. CASE \E v \in Workers : pc[v] = "claim" /\ item[v] = n
        BY <2>0, <3>1, <4>4 DEF Met, StaysPut
      <4> QED  BY <3>2, <4>1, <4>2, <4>3, <4>4 DEF Met
    <3>3. \A n : Claimed(n) => Claimed(n)'
      BY <2>0, <3>1 DEF StaysPut
    <3>4. \A n : Walked(n) => Walked(n)'
      BY <2>0, <3>1, <3>2 DEF StaysPut
    <3> QED  BY <3>1, <3>2, <3>3, <3>4, <2>a, <2>b, <2>c, <2>d
  <2>9. CASE Claim(w)
    <3>1. /\ pc[w] = "claim" /\ visited' = visited \cup {item[w]}
          /\ pc'[w] = IF item[w] \in visited THEN "finish" ELSE "process"
          /\ UNCHANGED <<queue, item, processed, pruned>>
      BY <2>9 DEF Claim, TypeOK
    <3>2. \A n : Met(n) => Met(n)'
      BY <2>0, <3>1, MetStays
    <3>3. \A n : Claimed(n) => Claimed(n)'
      BY <2>0, <3>1 DEF StaysPut
    <3>4. item[w] \notin visited => Claimed(item[w])'
      BY <3>1
    <3>5. \A n : Walked(n) => Walked(n)'
      BY <2>0, <3>1, <3>2 DEF StaysPut
    <3> QED  BY <3>1, <3>2, <3>3, <3>4, <3>5, <2>a, <2>b, <2>c, <2>d
  <2>10. CASE ProcessExpand(w) \/ ProcessPrune(w)
    <3>1. /\ pc[w] = "process" /\ item[w] \in Nodes
          /\ pc'[w] \in {"finish", "account"}
          /\ processed' = [processed EXCEPT ![item[w]] = @ + 1]
          /\ UNCHANGED <<queue, visited, item>>
          /\ \/ pruned' = pruned \cup {item[w]}
             \/ pruned' = pruned /\ (pc'[w] = "account" \/ Children[item[w]] = <<>>)
      BY <2>10 DEF ProcessExpand, ProcessPrune, NodeDone, TypeOK, ItemInv, Held
    <3>2. \A n : Met(n) => Met(n)'
      BY <2>0, <3>1, MetStays
    <3>3. processed'[item[w]] > 0 /\ \A n \in Nodes \ {item[w]} : processed'[n] = processed[n]
      BY <3>1 DEF TypeOK
    <3>4. \A n \in Nodes : Claimed(n) => Claimed(n)'
      BY <2>0, <3>1, <3>3 DEF StaysPut
    <3>5. \A n \in Nodes : Walked(n) => Walked(n)'
      BY <2>0, <3>1, <3>2 DEF StaysPut
    <3>6. \A n : n = item[w] /\ n \notin pruned' => Walked(n)'
      BY <3>1 DEF SeqRange
    <3>7. \A n \in visited' : Claimed(n)'
      BY <3>1, <3>4, <2>b DEF TypeOK
    <3>8. ASSUME NEW n \in Nodes \ pruned', processed'[n] > 0
          PROVE  Walked(n)'
      <4>1. CASE n = item[w]
        BY <3>6, <3>8, <4>1
      <4>2. CASE n # item[w]
        BY <3>1, <3>3, <3>5, <3>8, <4>2, <2>c
      <4> QED  BY <4>1, <4>2
    <3> QED  BY <3>2, <3>7, <3>8, <2>a, <2>d
  <2>11. CASE Publish(w)
    <3>1. /\ pc[w] = "publish" /\ item[w] \in Nodes /\ pc'[w] = "announce"
          /\ queue \in Seq(Nodes) /\ queue' = queue \o Children[item[w]]
          /\ UNCHANGED <<visited, item, processed, pruned>>
      BY <2>11 DEF Publish, TypeOK, ItemInv, Held
    <3>2. Children[item[w]] \in Seq(Nodes)
      BY <3>1, GraphAssumption
    <3>3. SeqRange(queue) \subseteq SeqRange(queue') /\ SeqRange(Children[item[w]]) \subseteq SeqRange(queue')
      BY <3>1, <3>2, RangeConcat
    <3>4. \A n : Met(n) => Met(n)'
      BY <2>0, <3>1, <3>3, MetStays
    <3>5. \A m \in SeqRange(Children[item[w]]) : Met(m)'
      BY <3>3 DEF Met
    <3>6. \A n : Claimed(n) => Claimed(n)'
      BY <2>0, <3>1 DEF StaysPut
    <3>7. \A n : Walked(n) => Walked(n)'
      BY <2>0, <3>1, <3>4, <3>5 DEF StaysPut
    <3> QED  BY <3>1, <3>4, <3>6, <3>7, <2>a, <2>b, <2>c, <2>d
  <2> QED  BY <1>1, <2>2, <2>3, <2>4, <2>5, <2>6, <2>7, <2>8, <2>9, <2>10, <2>11 DEF Step
<1>2. CASE UNCHANGED vars
  BY <1>2 DEF IInv, WorkInv, Met, vars
<1> QED  BY <1>1, <1>2 DEF Next, Returned

-----------------------------------------------------------------------------
(* Leaving.                                                                *)

\* A thread leaves without an error only when the count is zero, and then
\* there is nothing left that could give anyone more work.
LEMMA ExitStep ==
    ASSUME IInv, [Next]_vars
    PROVE  ExitInv'
<1>1. ASSUME NEW w \in Workers, Step(w) \/ SpuriousWakeup(w)
      PROVE  ExitInv'
  <2> SUFFICES ASSUME ~failed', NEW x \in Workers, pc'[x] = "exited"
               PROVE  queue' = <<>> /\ InFlight' = {}
    BY DEF ExitInv
  <2> USE DEF IInv, Goto, NotifyAll, shared
  <2>0. \A t \in Workers \ {w} : StaysPut(t)
    BY <1>1, OthersStay
  <2>nf. ~failed
    BY <1>1 DEF Step, Lock, ExitFailed, Pop, ExitDone, DecideToWait, Wait, Claim, ProcessExpand,
          ProcessPrune, ProcessFail, Account, Publish, Announce, Finish, FinishSignal, FetchSub,
          Signal, RecordError, ErrorSignal, ErrorFinish, ErrorDone, SpuriousWakeup
  <2>1. CASE ExitDone(w)
    <3>1. queue = <<>> /\ outstanding = 0 /\ queue' = queue /\ pc[w] = "check" /\ pc'[w] = "exited"
      BY <2>1 DEF ExitDone, TypeOK, ParkedInv
    <3>2. \A t \in Workers : pc[t] \notin Held
      BY <3>1, CountPositive
    <3>3. InFlight = {}
      BY <3>2 DEF InFlight, Held
    <3>4. pc'[w] \notin Held
      BY <3>1 DEF Held
    <3> QED  BY <2>0, <3>1, <3>3, <3>4, InFlightStep
  <2>2. CASE ~ExitDone(w)
    <3>1. pc'[w] # "exited" /\ pc[w] # "exited"
      BY <1>1, <2>2, <2>nf DEF Step, Lock, ExitFailed, Pop, DecideToWait, Wait, Claim, ProcessExpand,
          ProcessPrune, ProcessFail, Account, Publish, Announce, Finish, FinishSignal, FetchSub,
          Signal, RecordError, ErrorSignal, ErrorFinish, ErrorDone, SpuriousWakeup,
          TypeOK, ParkedInv, ErrorInv, AfterError
    <3>2. x # w /\ pc[x] = "exited"
      BY <2>0, <3>1 DEF StaysPut
    <3>3. queue = <<>> /\ InFlight = {}
      BY <2>nf, <3>2 DEF ExitInv
    <3>4. pc[w] \notin Held
      BY <3>3 DEF InFlight, Held
    <3>5. queue' = queue /\ pc'[w] \notin Held
      BY <1>1, <2>2, <3>3, <3>4 DEF Step, Lock, ExitFailed, Pop, DecideToWait, Wait, Claim, ProcessExpand,
          ProcessPrune, ProcessFail, Account, Publish, Announce, Finish, FinishSignal, FetchSub,
          Signal, RecordError, ErrorSignal, ErrorFinish, ErrorDone, SpuriousWakeup,
          TypeOK, ParkedInv, Held
    <3> QED  BY <2>0, <3>3, <3>5, InFlightStep
  <2> QED  BY <2>1, <2>2
<1>2. CASE UNCHANGED vars
  BY <1>2 DEF IInv, ExitInv, InFlight, vars
<1> QED  BY <1>1, <1>2 DEF Next, Returned

-----------------------------------------------------------------------------
(* The theorems.                                                           *)

\* parallel_bfs starts with its roots queued and counted.
LEMMA Initially == Init => IInv
<1> SUFFICES ASSUME Init PROVE IInv
  OBVIOUS
<1> USE DEF Init
<1>1. TypeOK
  <2>1. Roots \in Seq(Nodes) /\ Len(Roots) \in Nat /\ 0 \in 0 .. MaxSpurious
    BY GraphAssumption, LoopAssumption
  <2> QED  BY <2>1 DEF TypeOK, PCs
<1>2. ParkedInv /\ ItemInv /\ ErrorInv
  BY DEF ParkedInv, ItemInv, Held, ErrorInv, AfterError
<1>3. CountInv
  <2>1. InFlight = {} /\ Unpublished = {}
    BY DEF InFlight, Unpublished, Accounted
  <2>2. Len(Roots) \in Nat
    BY GraphAssumption
  <2>3. Cardinality({}) = 0 /\ IsFiniteSet({})
    BY FS_EmptySet
  <2>4. outstanding = Len(queue) + 0 + 0
    BY <2>2
  <2> QED  BY <2>1, <2>2, <2>3, <2>4 DEF CountInv, OutstandingCounts
<1>4. ClaimInv
  <2>1. \A n \in Nodes : processed[n] = 0
    OBVIOUS
  <2>2. \A w \in Workers : pc[w] # "process"
    OBVIOUS
  <2> HIDE DEF Init
  <2> QED  BY <2>1, <2>2 DEF ClaimInv, ExactlyOnce
<1>5. WorkInv
  BY DEF WorkInv, Met
<1>6. ExitInv
  BY DEF ExitInv
<1> QED  BY <1>1, <1>2, <1>3, <1>4, <1>5, <1>6 DEF IInv

\* The inductive invariant holds whenever the pool runs.
THEOREM Inductive == Spec => []IInv
<1>1. ASSUME IInv, [Next]_vars
      PROVE  IInv'
  BY <1>1, TypeStep, ItemStep, CountStep, ClaimStep, WorkStep, ExitStep DEF IInv
<1> QED  BY Initially, <1>1, PTL DEF Spec

\* Every variable keeps its type; in particular `outstanding`, an AtomicUsize,
\* never wraps below zero.
THEOREM TypeCorrect == Spec => []TypeOK
<1>1. IInv => TypeOK
  BY DEF IInv
<1> QED  BY Inductive, <1>1, PTL

\* However many threads race for however many occurrences of a hash, node_fn
\* runs at most once on it.
THEOREM ClaimedOnce == Spec => []ExactlyOnce
<1>1. IInv => ExactlyOnce
  BY DEF IInv, ClaimInv
<1> QED  BY Inductive, <1>1, PTL

\* The termination count is the number of items that are queued, in flight or
\* about to be published, at every instant.
THEOREM CountIsExact == Spec => []OutstandingCounts
<1>1. IInv => OutstandingCounts
  BY DEF IInv, CountInv
<1> QED  BY Inductive, <1>1, PTL

\* When a thread has left and nothing failed, every hash that is reachable
\* without passing a pruned one has been processed.
LEMMA ExitIsComplete ==
    ASSUME IInv, ~failed, NEW x \in Workers, pc[x] = "exited"
    PROVE  Complete
<1>1. queue = <<>> /\ InFlight = {}
  BY DEF IInv, ExitInv
<1>2. \A w \in Workers : pc[w] \notin Held
  BY <1>1 DEF InFlight, Held
<1>3. \A n : Met(n) => n \in visited
  BY <1>1, <1>2 DEF Met, Held, SeqRange
<1>4. \A n \in visited : n \in Nodes /\ processed[n] > 0
  BY <1>2 DEF IInv, WorkInv, TypeOK, Held
<1>5. SeqRange(Roots) \subseteq {n \in Nodes : processed[n] > 0}
  BY <1>3, <1>4 DEF IInv, WorkInv
<1>6. ASSUME NEW n \in Nodes \ pruned, processed[n] > 0
      PROVE  SeqRange(Children[n]) \subseteq {m \in Nodes : processed[m] > 0}
  BY <1>2, <1>3, <1>4, <1>6 DEF IInv, WorkInv, Held
<1> QED  BY <1>5, <1>6 DEF Complete

\* A thread that leaves the loop because the count is zero leaves nothing
\* behind: every object reachable from the roots has been processed.
THEOREM NoEarlyExit == Spec => []ExitMeansComplete
<1>1. IInv => ExitMeansComplete
  BY ExitIsComplete DEF ExitMeansComplete
<1> QED  BY Inductive, <1>1, PTL
===========================================================================
