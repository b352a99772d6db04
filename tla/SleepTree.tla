------------------------------ MODULE SleepTree ------------------------------
(***************************************************************************)
(* One timer tree of the scheduler driven by scheduler_addsleep,           *)
(* scheduler_remsleep and RB_MIN (scheduler.c), over the pointer-level     *)
(* red-black tree of tree.h.  It implements TimerSet.                      *)
(***************************************************************************)
EXTENDS RBTree

CONSTANTS
  Time,       \* the keys each node may ask for
  MaxTries    \* MAX_TRIES

ASSUME SleepTreeAssumption == 
  /\ Time \in [Node -> SUBSET (Nat \ {0})]
  /\ MaxTries \in Nat

VARIABLES
  tree,   \* sched->sleep.RB
  key,    \* sleep_us of each node
  min     \* the value of the last RB_MIN, NULL before it and after a change

treeVars == <<tree, key, min>>

\* The links of an unlinked node are dead: RB_INSERT sets them all.
Unlinked(t, n) ==
  [t EXCEPT !.kid.left[n] = NULL, !.kid.right[n] = NULL, !.parent[n] = NULL,
            !.color[n] = "BLACK"]

TreeInit ==
  /\ tree = RB_INIT
  /\ key = [n \in Node |-> 0]
  /\ min = NULL

\* scheduler_addsleep for a wake-up time t: every collision increments the key.
\* Running out of tries is the business of module Scheduler.
addsleep(n, t) ==
  \E k \in 0..MaxTries :
    /\ n \notin Linked(tree)
    /\ ~RB_Collides(tree, key, t + k)
    /\ \A j \in 0..k - 1 : RB_Collides(tree, key, t + j)
    /\ key' = [key EXCEPT ![n] = t + k]
    /\ tree' = RB_INSERT(tree, key', n)
    /\ min' = NULL

\* scheduler_remsleep, scheduler_remaltsleep
remsleep(n) ==
  /\ n \in Linked(tree)
  /\ tree' = Unlinked(RB_REMOVE(tree, n), n)
  /\ key' = [key EXCEPT ![n] = 0]
  /\ min' = NULL

\* RB_MIN in _scheduler_wakeup and _scheduler_checkQs
findmin ==
  /\ tree.root # NULL
  /\ min' = RB_MIN(tree)
  /\ UNCHANGED <<tree, key>>

TreeNext ==
  \/ \E n \in Node : \E t \in Time[n] : addsleep(n, t)
  \/ \E n \in Node : remsleep(n)
  \/ findmin

TreeSpec == TreeInit /\ [][TreeNext]_treeVars

-----------------------------------------------------------------------------
(* Properties *)

\* RB_ROTATE, RB_REMOVE and RB_INSERT keep the two directions of every link in
\* step: a child's parent pointer leads back, and the root has none.
LinksAgree ==
  /\ tree \in Tree
  /\ tree.root # NULL => tree.parent[tree.root] = NULL
  /\ \A n \in Linked(tree), s \in Side :
       tree.kid[s][n] # NULL => tree.parent[tree.kid[s][n]] = n

\* Every subtree is on its side of the node above it, so that RB_MIN and the
\* descent of RB_INSERT find what they look for.
Ordered ==
  \A n \in Linked(tree) :
    /\ \A m \in Below(tree, tree.kid.left[n]) : key[m] < key[n]
    /\ \A m \in Below(tree, tree.kid.right[n]) : key[n] < key[m]

\* The number of black nodes from the root down to n.
BlackDepth(n) ==
  Cardinality({m \in Linked(tree) :
                 n \in Below(tree, m) /\ tree.color[m] = "BLACK"})

\* The recolouring of RB_INSERT_COLOR and RB_REMOVE_COLOR keeps the tree
\* balanced: no red node has a red child, and every way down to a missing
\* child passes the same number of black nodes.
Balanced ==
  /\ IsBlack(tree, tree.root)
  /\ \A n \in Linked(tree), s \in Side :
       tree.color[n] = "RED" => IsBlack(tree, tree.kid[s][n])
  /\ \A n, m \in Linked(tree) :
       (NULL \in {tree.kid[s][n] : s \in Side} /\
        NULL \in {tree.kid[s][m] : s \in Side}) => BlackDepth(n) = BlackDepth(m)

\* The abstract timers: what is linked is armed.
Timers == INSTANCE TimerSet
            WITH armed <- Linked(tree), first <- min, TryLimit <- MaxTries

\* The pointer tree implements the set of timers: no operation drops, invents
\* or re-keys another timer, and RB_MIN is the earliest one.
ImplementsTimerSet == Timers!TimerSpec
=============================================================================
