------------------------------- MODULE MCWiring -------------------------------
(* The leader and two workers, the least that can be mixed up, and a third    *)
(* machine that no outlet of theirs feeds.  Names and machines are             *)
(* interchangeable.                                                           *)
EXTENDS WiringCheck, TLC

Symmetry == Permutations(ID) \cup Permutations(Machine)
===============================================================================
