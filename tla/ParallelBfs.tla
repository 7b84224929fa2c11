---------------------------- MODULE ParallelBfs ----------------------------
(***************************************************************************)
(* The worker pool of commands/transfer.rs: a dynamic breadth-first walk   *)
(* of the object graph by several threads that share a work queue behind a *)
(* mutex, a condition variable, a visited set, an atomic count of          *)
(* outstanding items and a first-error-wins flag.                          *)
(*                                                                         *)
(* Every access to state shared between threads is a step of its own,      *)
(* because none of the counters is read under the mutex its readers wait   *)
(* with.  node_fn, the work done per object, is one step that either       *)
(* fails, asks for nothing more to be walked, or yields the children.      *)
(***************************************************************************)
EXTENDS Naturals, Sequences, FiniteSets

CONSTANTS
    Workers,      \* the threads spawned in one scope
    Nodes,        \* the object hashes of the graph
    Roots,        \* the sequence of hashes that seeds the queue
    Children,     \* Children[n]: the sequence child_hashes yields for n
    MayFail,      \* the hashes whose node_fn may return an error
    MayPrune,     \* the hashes whose node_fn may return None
    Loops,        \* the loops considered: "worker_loop", "child_worker_loop"
    NoThread,     \* the queue mutex is free
    NoItem,       \* a thread that has not taken a hash yet
    MaxSpurious   \* bound on spurious returns from Condvar::wait

ASSUME WorkersAssumption ==
    IsFiniteSet(Workers) /\ Workers # {} /\ NoThread \notin Workers
ASSUME GraphAssumption ==
    /\ IsFiniteSet(Nodes) /\ NoItem \notin Nodes
    /\ Roots \in Seq(Nodes)
    /\ \A n \in Nodes : Children[n] \in Seq(Nodes)
    /\ DOMAIN Children = Nodes
    /\ MayFail \subseteq Nodes /\ MayPrune \subseteq Nodes
ASSUME LoopAssumption ==
    Loops \subseteq {"worker_loop", "child_worker_loop"} /\ MaxSpurious \in Nat

VARIABLES
    loop,         \* "worker_loop" (parallel_bfs) or "child_worker_loop"
                  \* (parallel_walk); never changes
    queue,        \* Shared.queue, a FIFO of hashes
    mutex,        \* the holder of the queue mutex, or NoThread
    visited,      \* Shared.visited
    outstanding,  \* Shared.outstanding
    failed,       \* Shared.failed (set together with Shared.error)
    waiting,      \* the threads parked in cv.wait
    pc,           \* pc[w]: where thread w is in its loop
    item,         \* item[w]: the hash thread w took from the queue
    pruned,       \* the hashes whose node_fn returned None (history)
    processed,    \* processed[n]: times node_fn ran to completion on n (history)
    spurious      \* spurious wakeups so far

shared == <<loop, queue, mutex, visited, outstanding, failed, waiting>>
vars == <<loop, queue, mutex, visited, outstanding, failed, waiting, pc, item,
          pruned, processed, spurious>>

PCs == {"lock", "check", "wait", "waiting", "claim", "process",
        "account", "publish", "announce", "finish", "signal",
        "error", "errorSignal", "errorFinish", "errorDone", "exited"}

TypeOK ==
    /\ loop \in Loops
    /\ queue \in Seq(Nodes)
    /\ mutex \in Workers \cup {NoThread}
    /\ visited \subseteq Nodes
    /\ outstanding \in Nat
    /\ failed \in BOOLEAN
    /\ waiting \subseteq Workers
    /\ pc \in [Workers -> PCs]
    /\ item \in [Workers -> Nodes \cup {NoItem}]
    /\ pruned \subseteq Nodes
    /\ processed \in [Nodes -> Nat]
    /\ spurious \in 0..MaxSpurious

\* parallel_bfs / parallel_walk: the shared state before the scope spawns.
Init ==
    /\ loop \in Loops
    /\ queue = Roots
    /\ mutex = NoThread
    /\ visited = {}
    /\ outstanding = Len(Roots)
    /\ failed = FALSE
    /\ waiting = {}
    /\ pc = [w \in Workers |-> "lock"]
    /\ item = [w \in Workers |-> NoItem]
    /\ pruned = {}
    /\ processed = [n \in Nodes |-> 0]
    /\ spurious = 0

Goto(w, l) == pc' = [pc EXCEPT ![w] = l]

\* cv.notify_all(): every parked thread goes back to re-acquire the mutex.
NotifyAll(base) ==
    /\ waiting' = {}
    /\ pc' = [t \in Workers |-> IF t \in waiting THEN "lock" ELSE base[t]]

-----------------------------------------------------------------------------
(* Taking the next hash, under the queue mutex.                            *)

Lock(w) ==
    /\ pc[w] = "lock" /\ mutex = NoThread
    /\ mutex' = w
    /\ Goto(w, "check")
    /\ UNCHANGED <<loop, queue, visited, outstanding, failed, waiting, item, pruned,
                   processed, spurious>>

\* failed is set: return, dropping the guard.
ExitFailed(w) ==
    /\ pc[w] = "check" /\ failed
    /\ mutex' = NoThread
    /\ Goto(w, "exited")
    /\ UNCHANGED <<loop, queue, visited, outstanding, failed, waiting, item, pruned,
                   processed, spurious>>

Pop(w) ==
    /\ pc[w] = "check" /\ ~failed /\ queue # <<>>
    /\ item' = [item EXCEPT ![w] = Head(queue)]
    /\ queue' = Tail(queue)
    /\ mutex' = NoThread
    /\ Goto(w, "claim")
    /\ UNCHANGED <<loop, visited, outstanding, failed, waiting, pruned, processed, spurious>>

\* Mutant: an empty queue alone ends the run.
ExitEmpty(w) ==
    /\ pc[w] = "check" /\ ~failed /\ queue = <<>>
    /\ mutex' = NoThread
    /\ NotifyAll([pc EXCEPT ![w] = "exited"])
    /\ UNCHANGED <<loop, queue, visited, outstanding, failed, item, pruned, processed, spurious>>

\* Mutant: the last thread leaves without waking the parked ones.
ExitSilently(w) ==
    /\ pc[w] = "check" /\ ~failed /\ queue = <<>> /\ outstanding = 0
    /\ mutex' = NoThread
    /\ Goto(w, "exited")
    /\ UNCHANGED <<loop, queue, visited, outstanding, failed, waiting, item, pruned,
                   processed, spurious>>

\* Nothing queued and nothing outstanding: the run is complete.  worker_loop
\* notifies before it returns, child_worker_loop just returns.
ExitDone(w) ==
    /\ pc[w] = "check" /\ ~failed /\ queue = <<>> /\ outstanding = 0
    /\ mutex' = NoThread
    /\ LET left == [pc EXCEPT ![w] = "exited"] IN
         IF loop = "worker_loop"
         THEN NotifyAll(left)
         ELSE pc' = left /\ UNCHANGED waiting
    /\ UNCHANGED <<loop, queue, visited, outstanding, failed, item, pruned, processed, spurious>>

\* outstanding was read as non-zero; the thread is about to call cv.wait and
\* still holds the mutex.
DecideToWait(w) ==
    /\ pc[w] = "check" /\ ~failed /\ queue = <<>> /\ outstanding # 0
    /\ Goto(w, "wait")
    /\ UNCHANGED <<shared, item, pruned, processed, spurious>>

\* cv.wait: release the mutex and park, in one step.
Wait(w) ==
    /\ pc[w] = "wait"
    /\ mutex' = NoThread
    /\ waiting' = waiting \cup {w}
    /\ Goto(w, "waiting")
    /\ UNCHANGED <<loop, queue, visited, outstanding, failed, item, pruned, processed, spurious>>

SpuriousWakeup(w) ==
    /\ pc[w] = "waiting" /\ spurious < MaxSpurious
    /\ spurious' = spurious + 1
    /\ waiting' = waiting \ {w}
    /\ Goto(w, "lock")
    /\ UNCHANGED <<loop, queue, mutex, visited, outstanding, failed, item, pruned, processed>>

-----------------------------------------------------------------------------
(* Claiming and processing it, outside the queue mutex.                    *)

\* Mutant: the claim's outcome is ignored.
ClaimAnyway(w) ==
    /\ pc[w] = "claim"
    /\ visited' = visited \cup {item[w]}
    /\ Goto(w, "process")
    /\ UNCHANGED <<loop, queue, mutex, outstanding, failed, waiting, item, pruned,
                   processed, spurious>>

\* visited.insert: a hash somebody claimed before is dropped.
Claim(w) ==
    /\ pc[w] = "claim"
    /\ visited' = visited \cup {item[w]}
    /\ Goto(w, IF item[w] \in visited THEN "finish" ELSE "process")
    /\ UNCHANGED <<loop, queue, mutex, outstanding, failed, waiting, item, pruned,
                   processed, spurious>>

NodeDone(w) == processed' = [processed EXCEPT ![item[w]] = @ + 1]

\* node_fn returned Ok with children to walk.
ProcessExpand(w) ==
    /\ pc[w] = "process"
    /\ NodeDone(w)
    /\ Goto(w, IF Children[item[w]] = <<>> THEN "finish" ELSE "account")
    /\ UNCHANGED <<shared, item, pruned, spurious>>

\* node_fn returned Ok(None): already present, its subtree is not walked.
\* parallel_walk's visit has no such answer.
ProcessPrune(w) ==
    /\ pc[w] = "process" /\ loop = "worker_loop" /\ item[w] \in MayPrune
    /\ NodeDone(w)
    /\ pruned' = pruned \cup {item[w]}
    /\ Goto(w, "finish")
    /\ UNCHANGED <<shared, item, spurious>>

ProcessFail(w) ==
    /\ pc[w] = "process" /\ item[w] \in MayFail
    /\ Goto(w, "error")
    /\ UNCHANGED <<shared, item, pruned, processed, spurious>>

\* fetch_add before the children are visible.
Account(w) ==
    /\ pc[w] = "account"
    /\ outstanding' = outstanding + Len(Children[item[w]])
    /\ Goto(w, "publish")
    /\ UNCHANGED <<loop, queue, mutex, visited, failed, waiting, item, pruned, processed, spurious>>

\* lock, extend, unlock: atomic, since nothing else is read or written meanwhile.
Publish(w) ==
    /\ pc[w] = "publish" /\ mutex = NoThread
    /\ queue' = queue \o Children[item[w]]
    /\ Goto(w, "announce")
    /\ UNCHANGED <<loop, mutex, visited, outstanding, failed, waiting, item, pruned,
                   processed, spurious>>

Announce(w) ==
    /\ pc[w] = "announce"
    /\ NotifyAll([pc EXCEPT ![w] = "finish"])
    /\ UNCHANGED <<loop, queue, mutex, visited, outstanding, failed, item, pruned,
                   processed, spurious>>

\* decrement_outstanding, first half: fetch_sub, without the queue mutex.
FetchSub(w, from, signal, onward) ==
    /\ pc[w] = from
    /\ outstanding' = outstanding - 1
    /\ Goto(w, IF outstanding = 1 THEN signal ELSE onward)
    /\ UNCHANGED <<loop, queue, mutex, visited, failed, waiting, item, pruned,
                   processed, spurious>>

\* decrement_outstanding, second half: notify_all, without the queue mutex.
Signal(w, from, onward) ==
    /\ pc[w] = from
    /\ NotifyAll([pc EXCEPT ![w] = onward])
    /\ UNCHANGED <<loop, queue, mutex, visited, outstanding, failed, item, pruned,
                   processed, spurious>>

Finish(w) == FetchSub(w, "finish", "signal", "lock")
FinishSignal(w) == Signal(w, "signal", "lock")

-----------------------------------------------------------------------------
(* The error path: record_error, then (worker_loop only) the decrement.    *)

\* Mutant: the error of node_fn is swallowed.
ErrorSwallowed(w) ==
    /\ pc[w] = "error"
    /\ Goto(w, "errorSignal")
    /\ UNCHANGED <<loop, queue, mutex, visited, outstanding, failed, waiting, item, pruned,
                   processed, spurious>>

RecordError(w) ==
    /\ pc[w] = "error"
    /\ failed' = TRUE
    /\ Goto(w, "errorSignal")
    /\ UNCHANGED <<loop, queue, mutex, visited, outstanding, waiting, item, pruned,
                   processed, spurious>>

\* Mutant: a failing item is never subtracted.
ErrorSignalOnly(w) == Signal(w, "errorSignal", "exited")

ErrorSignal(w) ==
    Signal(w, "errorSignal", IF loop = "worker_loop" THEN "errorFinish" ELSE "exited")
ErrorFinish(w) == FetchSub(w, "errorFinish", "errorDone", "exited")
ErrorDone(w) == Signal(w, "errorDone", "exited")

-----------------------------------------------------------------------------
Step(w) ==
    \/ Lock(w) \/ ExitFailed(w) \/ Pop(w) \/ ExitDone(w)
    \/ DecideToWait(w) \/ Wait(w)
    \/ Claim(w) \/ ProcessExpand(w) \/ ProcessPrune(w) \/ ProcessFail(w)
    \/ Account(w) \/ Publish(w) \/ Announce(w)
    \/ Finish(w) \/ FinishSignal(w)
    \/ RecordError(w) \/ ErrorSignal(w) \/ ErrorFinish(w) \/ ErrorDone(w)

\* The scope has joined every thread: parallel_bfs returns.
Joined == \A w \in Workers : pc[w] = "exited"
Returned == Joined /\ UNCHANGED vars

Next == (\E w \in Workers : Step(w) \/ SpuriousWakeup(w)) \/ Returned

Spec == Init /\ [][Next]_vars

\* The operating system keeps scheduling every runnable thread; nothing makes
\* a spurious wakeup happen.
FairSpec == Spec /\ \A w \in Workers : WF_vars(Step(w))

-----------------------------------------------------------------------------
(* Properties.                                                             *)

\* The walk is complete: the roots, and the children of every walked hash
\* whose node_fn did not return None, were all processed.
SeqRange(s) == {s[i] : i \in DOMAIN s}
Complete ==
    LET done == {n \in Nodes : processed[n] > 0} IN
      /\ SeqRange(Roots) \subseteq done
      /\ \A n \in done \ pruned : SeqRange(Children[n]) \subseteq done

\* Claim-before-process: node_fn runs at most once per hash, however many
\* parents and roots name it and however many threads race for it.
ExactlyOnce == \A n \in Nodes : processed[n] <= 1

\* The threads whose item is still counted.
InFlight == {w \in Workers : pc[w] \in {"claim", "process", "account", "publish",
                                        "announce", "finish", "error", "errorSignal",
                                        "errorFinish"}}
\* Children added to the count that are not in the queue yet, by thread and place.
Accounted == {w \in Workers : pc[w] = "publish"}
Unpublished == UNION {{w} \X DOMAIN Children[item[w]] : w \in Accounted}

\* `outstanding` counts the queued and the in-flight items, and the children
\* already accounted for but not published: it cannot reach zero while there
\* is work ("outstanding never transiently hits zero while work remains").
OutstandingCounts ==
    (loop = "worker_loop" \/ ~failed) =>
        outstanding = Len(queue) + Cardinality(InFlight) + Cardinality(Unpublished)

\* A thread that leaves without an error leaves a finished walk behind:
\* nothing queued, nothing in flight, every reachable hash processed.
ExitMeansComplete ==
    (~failed /\ \E w \in Workers : pc[w] = "exited") => Complete

\* The work itself always gets done or fails, whatever the wakeups do.
WorkFinishes == <>(failed \/ Complete)

\* parallel_bfs returns: every thread is joined.
Terminates == <>Joined

\* Unless a node fails, every thread of parallel_bfs is joined, although
\* decrement_outstanding notifies without the queue mutex and a thread about
\* to park may miss it: the first thread to leave notifies again under it.
TerminatesUnlessFailed == (loop = "worker_loop") => <>(failed \/ Joined)
=============================================================================
