------------------------------- MODULE PickNode -------------------------------
(***************************************************************************)
(* PickNode (pkg/cluster/scheduler.go) as the loop it is: one pass over the *)
(* slice of nodes that keeps the best candidate of four kinds, then a       *)
(* choice among the four.  One action per branch of the loop body.          *)
(* Pointers into the slice are positions; nil is 0.                         *)
(***************************************************************************)
EXTENDS Integers, Scheduler

CONSTANTS
  MaxNodes,       \* the longest slice considered
  MaxLoad,        \* the highest load considered
  LoadThreshold   \* the loadThreshold argument

ASSUME BoundsAssumption ==
  MaxNodes \in Nat /\ MaxLoad \in Nat /\ LoadThreshold \in Int

VARIABLES
  nodes,          \* the slice
  i,              \* the position the loop looks at
  bestActive,     \* least loaded active node below the threshold
  bestIdleActive, \* least loaded active node at or above it
  bestSleeping,   \* first sleeping node
  fallback,       \* first node of any other kind
  picked,         \* what is returned
  returned        \* whether it has been

bestVars == <<bestActive, bestIdleActive, bestSleeping, fallback>>
vars == <<nodes, i, bestVars, picked, returned>>

NodeRecord == [status : NodeStatus, load : 0..MaxLoad, dispatchOnly : BOOLEAN]

\* Any slice: ListNodes fills it in the order of a Go map.
Init ==
  /\ \E len \in 0..MaxNodes : nodes \in [1..len -> NodeRecord]
  /\ i = 1
  /\ bestActive = 0 /\ bestIdleActive = 0 /\ bestSleeping = 0 /\ fallback = 0
  /\ picked = 0 /\ returned = FALSE

\* The loop is at a node of the slice that is neither dead nor dispatch-only.
Looking(s) ==
  /\ i \in DOMAIN nodes
  /\ nodes[i].status = s /\ ~nodes[i].dispatchOnly
  /\ i' = i + 1

Skip ==
  /\ i \in DOMAIN nodes
  /\ nodes[i].status = "dead" \/ nodes[i].dispatchOnly
  /\ i' = i + 1
  /\ UNCHANGED <<nodes, bestVars, picked, returned>>

\* Mutant: equally loaded nodes replace the best one.
BetterOrEqual(best) == best = 0 \/ nodes[i].load <= nodes[best].load

\* Position i is a better choice than the best one so far.
Better(best) == best = 0 \/ nodes[i].load < nodes[best].load

ConsiderSpare ==
  /\ Looking("active") /\ nodes[i].load < LoadThreshold
  /\ bestActive' = IF Better(bestActive) THEN i ELSE bestActive
  /\ UNCHANGED <<nodes, bestIdleActive, bestSleeping, fallback, picked, returned>>

ConsiderSaturated ==
  /\ Looking("active") /\ nodes[i].load >= LoadThreshold
  /\ bestIdleActive' = IF Better(bestIdleActive) THEN i ELSE bestIdleActive
  /\ UNCHANGED <<nodes, bestActive, bestSleeping, fallback, picked, returned>>

ConsiderSleeping ==
  /\ Looking("sleeping")
  /\ bestSleeping' = IF bestSleeping = 0 THEN i ELSE bestSleeping
  /\ UNCHANGED <<nodes, bestActive, bestIdleActive, fallback, picked, returned>>

ConsiderOther ==
  /\ Looking("waking")
  /\ fallback' = IF fallback = 0 THEN i ELSE fallback
  /\ UNCHANGED <<nodes, bestActive, bestIdleActive, bestSleeping, picked, returned>>

\* An active node with capacity to spare; else a node to wake; else a loaded
\* node; else the fallback; else none.
Return ==
  /\ i \notin DOMAIN nodes /\ ~returned
  /\ picked' = IF bestActive # 0 THEN bestActive
               ELSE IF bestSleeping # 0 THEN bestSleeping
               ELSE IF bestIdleActive # 0 THEN bestIdleActive
               ELSE fallback
  /\ returned' = TRUE
  /\ UNCHANGED <<nodes, i, bestVars>>

Next ==
  \/ Skip \/ ConsiderSpare \/ ConsiderSaturated
  \/ ConsiderSleeping \/ ConsiderOther \/ Return

Spec == Init /\ [][Next]_vars

-------------------------------------------------------------------------------
Candidates == {k \in DOMAIN nodes : ~nodes[k].dispatchOnly}
Status == [k \in DOMAIN nodes |-> nodes[k].status]
Load   == [k \in DOMAIN nodes |-> nodes[k].load]

\* k is the first position of S, or nil when there is none.
IsFirst(k, S) ==
  \/ S = {} /\ k = 0
  \/ k \in S /\ \A m \in S : k <= m

\* PickNode returns the first of the nodes the scheduler may choose, whatever
\* the order of the slice, and no node only when there is none to choose.
PicksFirstPickable ==
  returned => IsFirst(picked, Pickable(Candidates, Status, Load, LoadThreshold))
===============================================================================
