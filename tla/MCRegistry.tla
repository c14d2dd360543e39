------------------------------ MODULE MCRegistry ------------------------------
(***************************************************************************)
(* Small clusters for TLC.  Requests and workers are interchangeable.       *)
(***************************************************************************)
EXTENDS RegistryProperties, TLC

\* One relay has all the workers, two channels being enough for those there are.
OneRelay == [n \in Worker |-> Worker \ {n}]

Symmetry == Permutations(Handler) \cup Permutations(Worker)
===============================================================================
