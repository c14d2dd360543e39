------------------------------ MODULE MCTopology ------------------------------
(* Three nodes: the leader and two workers, the least that can share a relay  *)
(* channel.  The names of nodes are interchangeable.                          *)
EXTENDS Topology, TLC

Symmetry == Permutations(ID)
===============================================================================
