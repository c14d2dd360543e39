------------------------------- MODULE MCRelay -------------------------------
(* Two callers and two relays: both channels of each, the one of a node that  *)
(* names no relay included, and a channel that no relay has.                  *)
EXTENDS Relay

CONSTANTS r1, r2

MCDemanded ==
  {[uid |-> target[1], channel |-> target[2], on |-> position] :
     target \in {<<NoUID, 0>>, <<r1, 1>>, <<r2, 0>>, <<r2, 1>>, <<r2, 2>>}, position \in BOOLEAN}
==============================================================================
