------------------------------ MODULE Scheduler ------------------------------
(***************************************************************************)
(* What PickNode (pkg/cluster/scheduler.go) promises about the node it      *)
(* chooses, as a set: the nodes it may return for a given state of the      *)
(* cluster.  PickNode walks a slice that ListNodes fills in the random      *)
(* order of a Go map and keeps the first of several equally good nodes, so  *)
(* each member of the set is returned for some order.  PickNode.tla shows   *)
(* that the loop of the code returns a member of this set for every order.  *)
(***************************************************************************)
EXTENDS Naturals

\* The lifecycle states of a node (type NodeStatus).
NodeStatus == {"sleeping", "waking", "active", "dead"}

\* The members of S that carry the least load.
LeastLoaded(S, load) == {n \in S : \A m \in S : load[n] <= load[m]}

\* The nodes of N that are in state s.
InState(N, status, s) == {n \in N : status[n] = s}

\* Active nodes with capacity to spare, and active nodes without.
Spare(N, status, load, threshold) ==
  {n \in InState(N, status, "active") : load[n] < threshold}
Saturated(N, status, load, threshold) ==
  InState(N, status, "active") \ Spare(N, status, load, threshold)

(***************************************************************************)
(* The nodes of N (the nodes that are not dispatch-only) PickNode may       *)
(* return: the least loaded node with capacity to spare; else a sleeping    *)
(* one, in preference to a saturated one; else the least loaded saturated   *)
(* one; else one that is waking.  A dead node is never returned.            *)
(***************************************************************************)
Pickable(N, status, load, threshold) ==
  LET spare     == Spare(N, status, load, threshold)
      asleep    == InState(N, status, "sleeping")
      saturated == Saturated(N, status, load, threshold)
  IN  CASE spare # {}                                        -> LeastLoaded(spare, load)
        [] spare = {} /\ asleep # {}                         -> asleep
        [] spare = {} /\ asleep = {} /\ saturated # {}       -> LeastLoaded(saturated, load)
        [] spare = {} /\ asleep = {} /\ saturated = {}       -> InState(N, status, "waking")
==============================================================================
