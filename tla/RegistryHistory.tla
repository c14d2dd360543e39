--------------------------- MODULE RegistryHistory ---------------------------
(***************************************************************************)
(* In power-aware mode a node can be woken by two processes at once, and an *)
(* active node can lack its functions or its power (WakeExclusive and       *)
(* ActiveReady hold in the baseline only).  This module adds two history    *)
(* variables to Registry that record the steps of the code which can lead   *)
(* there, and states that nothing else does.  They restrict no behaviour:   *)
(* each step of Registry determines their next values.                      *)
(*                                                                          *)
(* Source: pkg/cluster/registry.go (RecoverDead, DeactivateNode,            *)
(* EnforceSleeping) and pkg/cluster/controller.go.                          *)
(***************************************************************************)
EXTENDS RegistryProperties

VARIABLES
  overwritten,  \* workers whose status RecoverDead has overwritten
  degraded      \* workers that became active, or lost their power, unnoticed

history     == <<overwritten, degraded>>
historyVars == <<vars, history>>

Scanning == {"scan", "cut", "mark"}

-------------------------------------------------------------------------------
(* What a step records.                                                       *)

\* RecoverDead sets the status of n, which is not dead any more.
Overwrites(n) ==
  cpc = "restore" /\ cpc' = "recover" /\ cnode = n /\ status[n] # "dead"

\* RecoverDead makes n active, and nothing was deployed to it.
Revives(n) ==
  cpc = "restore" /\ cpc' = "recover" /\ cnode = n /\ cstatus = "active"

\* EnforceSleeping switches n off, which is not sleeping any more.
SweepsAwake(n) == n \in etodo \ etodo' /\ status[n] # "sleeping"

\* DeactivateNode switches n off and is told that it did not.
CutsUnnoticed(n) ==
  cpc = "cut" /\ cpc' = "scan" /\ cnode = n /\ machine'[n] # machine[n]

\* A wake of n begins, and no other is in progress.
WakesAlone(n) == Wakers(n) = {} /\ Wakers(n)' # {}

HistoryInit == Init /\ overwritten = {} /\ degraded = {}

\* A wake that begins alone clears what had happened to the machine; it clears an
\* overwritten status unless a scan still relies on the one before.
HistoryNext ==
  /\ Next
  /\ overwritten' = {n \in Worker : \/ n \in overwritten /\ ~(WakesAlone(n) /\ cpc \notin Scanning)
                                    \/ Overwrites(n)}
  /\ degraded' = {n \in Worker : \/ n \in degraded /\ ~WakesAlone(n)
                                 \/ Revives(n) \/ SweepsAwake(n) \/ CutsUnnoticed(n)}

HistorySpec == HistoryInit /\ [][HistoryNext]_historyVars

-------------------------------------------------------------------------------
(* Properties.                                                                *)

\* With power management on, too, a node is woken by one process at a time,
\* unless RecoverDead has overwritten a status that had changed since its
\* snapshot; neither the scan, nor EnforceSleeping, nor relays that fail, nor
\* stale picks lead to a second wake beside the first.
WakeExclusiveUnlessOverwritten ==
  \A n \in Worker \ overwritten : \A p \in Wakers(n) : \A q \in Wakers(n) : p = q

\* An active worker is up with every function, unless a named event has
\* happened to it since it was last woken: RecoverDead revived it or overwrote
\* its status, EnforceSleeping cut it after it had left sleeping, or a relay
\* switched it off and reported an error.  While the controller switches a node
\* off the relay comes first and the status after it.
ActiveReadyUnlessDegraded ==
  \A n \in Worker \ (overwritten \cup degraded) :
    status[n] = "active" => machine[n] = "ready" \/ (cpc = "mark" /\ cnode = n)

\* The scale-down scan counts once and then acts for as long as it takes.  All
\* the same, whenever it switches a node off more than MinActiveNodes executors
\* are active, apart from nodes whose status RecoverDead has overwritten.
FloorHolds ==
  cpc \in {"cut", "mark"} =>
    Cardinality(ActiveExecutors \cup (overwritten \cap Executors)) > MinActiveNodes
===============================================================================
