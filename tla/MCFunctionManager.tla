--------------------------- MODULE MCFunctionManager ---------------------------
(***************************************************************************)
(* One node for TLC.  Names, requests and the deployments that have         *)
(* containers are interchangeable.                                          *)
(***************************************************************************)
EXTENDS FunctionManager, TLC

Symmetry == Permutations(Name) \cup Permutations(Request) \cup Permutations(Deployment \ NoThreads)
===============================================================================
