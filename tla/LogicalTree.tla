---- MODULE LogicalTree ----
(***************************************************************************)
(* What the working-tree commands promise, without stubs: the tree is a    *)
(* map from paths to files.  The user edits it; a pull moves the paths the *)
(* user left alone, in any number of steps, from the clone root to the     *)
(* remote root, and a clone does so from an empty one; a push publishes    *)
(* the tree it scanned; a restore returns paths to the clone root.         *)
(* Stubbing, expanding and a crash change nothing.                         *)
(***************************************************************************)
EXTENDS Naturals

CONSTANTS Paths, File, Nothing

VARIABLES
    tree,       \* the file at every path
    base,       \* the same in clone_root
    remote,     \* the same in the remote root
    doing, goal,    \* the command running and the root it works towards
    beside,     \* files that stood beside a marker when the command began
    edits, publishes,
    dirty,      \* paths edited since they were in sync
    torn,       \* a command stopped halfway between two roots
    lost        \* the ways in which a user's file has been destroyed
vars == <<tree, base, remote, doing, goal, beside, edits, publishes, dirty, torn, lost>>

Trees == [Paths -> File]
NoGoal == [t \in Paths |-> Nothing]

Init ==
    /\ tree \in Trees /\ base \in Trees /\ remote \in Trees
    /\ dirty \subseteq Paths /\ \A t \in Paths \ dirty : tree[t] = base[t]
    /\ doing = "none" /\ goal = NoGoal /\ beside = {}
    /\ edits \in Nat /\ publishes \in Nat /\ torn = FALSE /\ lost = {}

\* The user touches paths, whether or not a scan can tell.
Edit ==
    /\ edits' = edits + 1
    /\ tree' \in Trees
    /\ \E touched \in SUBSET Paths :
         /\ {t \in Paths : tree'[t] # tree[t]} \subseteq touched
         /\ dirty' = dirty \cup touched
    /\ UNCHANGED <<base, remote, doing, goal, beside, publishes, torn, lost>>

OtherPublishes ==
    /\ publishes' = publishes + 1
    /\ remote' \in Trees
    /\ UNCHANGED <<tree, base, doing, goal, beside, edits, dirty, torn, lost>>

Begin ==
    /\ doing = "none"
    /\ \/ doing' = "pull" /\ goal' = remote
       \/ doing' \in {"push", "stub", "expand"} /\ goal' = tree
       \/ doing' = "restore" /\ goal' = base
    /\ beside' \in SUBSET Paths
    /\ UNCHANGED <<tree, base, remote, edits, publishes, dirty, torn, lost>>

\* A pull replaces what the user has not changed, and only by the remote's.
Adopt ==
    /\ doing = "pull"
    /\ UNCHANGED <<doing, dirty, torn, lost, edits, publishes, base, remote, goal, beside>>
    /\ tree' \in Trees
    /\ \A t \in Paths : \/ tree'[t] = tree[t]
                        \/ tree'[t] = goal[t] /\ (t \notin dirty \/ tree[t] = base[t])

\* A file the user removes while a command runs may come back from a stub
\* the command had already listed or was about to write, and so may one
\* whose removal uncovered an older stub that follows the root.
Reappear ==
    /\ doing # "none"
    /\ UNCHANGED <<doing, dirty, torn, lost, edits, publishes, base, remote, goal, beside>>
    /\ tree' \in Trees
    /\ \A t \in Paths : \/ tree'[t] = tree[t]
                        \/ /\ t \in dirty /\ tree[t] \in {Nothing, base[t]}
                           /\ tree'[t] \in {base[t], goal[t]}

\* A marker that hid the user's removal of a file goes.
Unmark ==
    /\ doing \in {"stub", "expand"}
    /\ UNCHANGED <<doing, dirty, torn, lost, edits, publishes, base, remote, goal, beside>>
    /\ tree' \in Trees
    /\ \A t \in Paths : \/ tree'[t] = tree[t]
                        \/ t \in dirty /\ tree[t] \in {base[t], goal[t]} /\ tree'[t] = Nothing

\* A restore gives up edits, and only for the clone root's files.
Discard ==
    /\ doing = "restore"
    /\ UNCHANGED <<doing, dirty, torn, lost, edits, publishes, base, remote, goal, beside>>
    /\ tree' \in Trees
    /\ \A t \in Paths : tree'[t] \in {tree[t], goal[t]}

\* In a torn tree a command may uncover what a stub of another root says.
Uncover ==
    /\ torn /\ doing # "none"
    /\ UNCHANGED <<doing, dirty, torn, lost, edits, publishes, base, remote, goal, beside>>
    /\ tree' \in Trees

\* A push publishes nothing the user did not do, unless the tree is torn.
Publish ==
    /\ doing = "push" /\ remote = base
    /\ \A t \in Paths \ dirty : torn \/ goal[t] = base[t]
    /\ remote' = goal
    /\ UNCHANGED <<tree, base, doing, goal, beside, edits, publishes, dirty, torn, lost>>

\* The clone root moves only to a root that every untouched path has reached.
\* A pull takes a file beside a marker for the user's: it keeps it, and from
\* then on it counts as an edit.  A torn tree stays torn until all have.
Finish ==
    /\ doing \in {"pull", "push"}
    /\ torn' \/ \A t \in Paths \ (dirty \cup beside) : tree[t] = goal[t]
    /\ torn' \in {torn, FALSE}
    /\ base' = goal
    /\ doing' = "none" /\ goal' = NoGoal /\ beside' = {}
    /\ dirty' = {t \in dirty \cup beside : tree[t] # goal[t]}
    /\ UNCHANGED <<tree, remote, edits, publishes, lost>>

FinishRestore ==
    /\ doing = "restore" /\ doing' = "none" /\ goal' = NoGoal /\ beside' = {}
    /\ dirty' = {t \in dirty : tree[t] # base[t]}
    /\ torn' \in {torn, FALSE} /\ (torn /\ tree # base => torn')
    /\ UNCHANGED <<tree, base, remote, edits, publishes, lost>>

\* A command that fails or dies.  If it leaves paths the user did not touch
\* between two roots, or the clone root ahead of them, the tree is torn.  A
\* marker that hid the user's removal of a file may go with it.
Abandon ==
    /\ doing # "none" /\ doing' = "none" /\ goal' = NoGoal /\ beside' = {}
    /\ UNCHANGED <<remote, edits, publishes, dirty, lost>>
    /\ base' \in {base, goal}
    /\ torn' \in BOOLEAN /\ (torn => torn')
    /\ \/ torn'
       \/ base' = base /\ \A t \in Paths \ dirty : tree[t] = base[t]
    /\ tree' \in Trees
    /\ \A t \in Paths : \/ torn \/ tree'[t] = tree[t]
                        \/ t \in dirty /\ tree[t] \in {base[t], goal[t]} /\ tree'[t] = Nothing

\* The ways the code does destroy a file the user has put beside a stub.
Destroy ==
    /\ lost' # {} /\ lost \subseteq lost'
    /\ tree' \in Trees
    /\ UNCHANGED <<base, remote, doing, goal, beside, edits, publishes, dirty, torn>>

\* After that nothing is promised.
Undefined == lost # {} /\ lost \subseteq lost'

Next == \/ Edit \/ OtherPublishes \/ Begin \/ Discard \/ Adopt \/ Reappear \/ Unmark
        \/ Uncover \/ Publish
        \/ Finish \/ FinishRestore \/ Abandon \/ Destroy \/ Undefined
Spec == Init /\ [][Next]_vars

\* With no command running, and nothing torn or destroyed, every path the
\* user has not edited is what clone_root says.
CleanMeansSynced ==
    doing = "none" /\ ~torn /\ lost = {} => \A t \in Paths \ dirty : tree[t] = base[t]
====
