--------------------------- MODULE MCRegistryHistory ---------------------------
(***************************************************************************)
(* Small clusters for TLC, with the history of what happened to each node.  *)
(* Requests and workers are interchangeable.                                *)
(***************************************************************************)
EXTENDS RegistryHistory, TLC

\* One relay has all the workers, two channels being enough for those there are.
OneRelay == [n \in Worker |-> Worker \ {n}]

Symmetry == Permutations(Handler) \cup Permutations(Worker)
===============================================================================
