-------------------------- MODULE RegistryHistoryProofs --------------------------
(***************************************************************************)
(* What the registry keeps in power-aware mode: the named events of         *)
(* RegistryHistory are the only ways to a second wake of a node, to an      *)
(* active node that is not ready, and below the controller's floor.  For    *)
(* any workers and requests, floor and threshold, in both modes.            *)
(***************************************************************************)
EXTENDS RegistryHistory, RegistryProofs

-------------------------------------------------------------------------------
(* The invariant, node by node.                                               *)

\* A wake of n keeps its label, which keeps everyone else from starting another.
Alone(n) ==
  \A p \in Proc : pc[p] \in InWake /\ target[p] = n =>
    /\ status[n] = "waking"
    /\ \A q \in Proc : pc[q] \in InWake /\ target[q] = n => p = q

\* The scan has n still to visit, or is switching it off.
InScan(n) ==
  \/ cpc \in Scanning /\ n \in ctodo
  \/ cpc \in {"cut", "mark"} /\ cnode = n

\* What the scan has read of n is still so.
SnapshotHolds(n) == InScan(n) => status[n] = "active"

\* A wake decides for active on a ready machine only, and an active machine stays:
\* commands to its sibling do not move its relay.
Equipped(n) ==
  /\ \A p \in Proc : pc[p] = "setfinal" /\ verdict[p] = "active" /\ target[p] = n =>
       machine[n] = "ready"
  /\ \A p \in Proc : Relying(p) /\ target[p] = n => n \notin astray
  /\ status[n] = "active" =>
       n \notin astray /\ (machine[n] = "ready" \/ (cpc = "mark" /\ cnode = n))

\* Those the controller may count on.
Counted == ActiveExecutors \cup (overwritten \cap Executors)

\* What the scan may count on.
Floor ==
  /\ cpc \in {"cut", "mark"} => cnode \notin ctodo
  /\ cpc \in Scanning => Cardinality(Counted) >= ccount
  /\ cpc \in {"cut", "mark"} => ccount > MinActiveNodes

HistoryInv ==
  /\ overwritten \subseteq Worker
  /\ \A n \in Worker \ overwritten : Alone(n) /\ SnapshotHolds(n)
  /\ \A n \in Worker \ (overwritten \cup degraded) : Equipped(n)
  /\ Floor

-------------------------------------------------------------------------------
(* The steps, by what they do to wakes, statuses and machines.                *)

\* No wake begins or moves, and nothing it is about changes.
Quiet ==
  /\ UNCHANGED <<status, machine, astray, cpc, ctodo, cnode, ccount>>
  /\ \A q \in Proc : pc'[q] \in InWake =>
       pc[q] = pc'[q] /\ target'[q] = target[q] /\ verdict'[q] = verdict[q]

\* The wake of p moves on, to its SetStatus only with a machine that fits.
WakeMoves(p) ==
  /\ pc[p] \in InWake
  /\ \E s \in InWake :
       /\ pc' = [pc EXCEPT ![p] = s]
       /\ s = "setfinal" /\ verdict'[p] = "active" => machine'[target[p]] = "ready"
  /\ \A q \in Proc \ {p} : verdict'[q] = verdict[q]
  /\ \A m \in Worker \ {target[p]} :
       m \notin astray => machine'[m] = machine[m] /\ m \notin astray'
  /\ (Relying(p) => target[p] \notin astray) => (Relying(p)' => target[p] \notin astray')
  /\ UNCHANGED <<status, target, cpc, ctodo, cnode, ccount>>

\* The controller decides, or looks around.
Decides ==
  /\ UNCHANGED <<status, machine, astray, pc, target, verdict>>
  /\ \/ CtlTick \/ CtlSnapshot \/ CtlEnd
     \/ \E n \in Worker : CtlHealthy(n) \/ CtlRetry(n) \/ CtlLeave(n) \/ CtlKeep(n) \/ CtlChoose(n)

\* A relay or a status changes outside of a wake.
Interferes ==
  \/ CtlRestore \/ CtlCut \/ CtlMark
  \/ \E n \in Worker : EnforceOff(n) \/ Boot(n)

\* The steps of requests, of followers and of processes that return.
LEMMA QuietProcess ==
  ASSUME TypeInv, NEW p \in Proc,
         \/ \E n \in Executors : Pick(p, n)
         \/ \E ok \in BOOLEAN : Serve(p, ok)
         \/ IncLoad(p) \/ TouchNode(p) \/ DecLoad(p) \/ Follow(p) \/ DropActivation(p)
  PROVE  Quiet
<1>1. UNCHANGED <<status, machine, astray, cpc, ctodo, cnode, ccount>>
  BY DEF Pick, Serve, IncLoad, TouchNode, DecLoad, Follow, DropActivation, registryVars,
         powerVars, controllerVars
<1>2. \E s \in Pc \ InWake : pc' = [pc EXCEPT ![p] = s]
  BY DEF Pick, Serve, IncLoad, TouchNode, DecLoad, Follow, DropActivation, Pc, InFlight,
         Attempt, Owning, InWake
<1>3. \A q \in Proc \ {p} : target'[q] = target[q] /\ verdict'[q] = verdict[q]
  BY DEF Pick, Serve, IncLoad, TouchNode, DecLoad, Follow, DropActivation, TypeInv, TypeOK
<1>4. \A q \in Proc : pc'[q] \in InWake => q # p /\ pc'[q] = pc[q]
  BY <1>2 DEF TypeInv, TypeOK
<1> QED
  BY <1>1, <1>3, <1>4 DEF Quiet

LEMMA QuietReturn ==
  ASSUME TypeInv, NEW p \in Proc,
         AlreadyActive(p) \/ NilActivation(p) \/ CloseActivation(p) \/ TimeOut(p)
  PROVE  Quiet
<1>1. PICK S \in SUBSET Proc, ok \in BOOLEAN : Return(S, ok)
  BY DEF AlreadyActive, NilActivation, TimeOut, CloseActivation
<1>2. UNCHANGED <<status, machine, astray, cpc, ctodo, cnode, ccount>>
  BY DEF AlreadyActive, NilActivation, TimeOut, CloseActivation, registryVars, powerVars,
         controllerVars
<1>3. \A q \in S : pc'[q] \in {"done", "inc", "idle"}
  BY <1>1 DEF Return, AfterActivation, Proc
<1>4. \A q \in Proc \ S : pc'[q] = pc[q] /\ target'[q] = target[q] /\ verdict'[q] = verdict[q]
  BY <1>1 DEF Return
<1> QED
  BY <1>2, <1>3, <1>4 DEF Quiet, InWake

LEMMA WakeStepMoves ==
  ASSUME TypeInv, NEW p \in Proc,
         \/ PowerOn(p) \/ PowerOffFailed(p)
         \/ \E answers \in BOOLEAN : NodeReady(p, answers)
         \/ \E ok \in BOOLEAN : DeployFunctions(p, ok)
  PROVE  WakeMoves(p)
<1>1. pc[p] \in InWake
  BY DEF PowerOn, PowerOffFailed, NodeReady, DeployFunctions, At, InWake
<1>2. target[p] \in Worker
  BY <1>1 DEF TypeInv, Attempt, Owning
<1>3. \E s \in InWake :
        /\ pc' = [pc EXCEPT ![p] = s]
        /\ s = "setfinal" /\ verdict'[p] = "active" => machine'[target[p]] = "ready"
  BY <1>2 DEF PowerOn, PowerOffFailed, NodeReady, DeployFunctions, InWake, TypeInv, TypeOK
<1>4. UNCHANGED <<status, target, cpc, ctodo, cnode, ccount>>
  BY DEF PowerOn, PowerOffFailed, NodeReady, DeployFunctions, registryVars, controllerVars
<1>5. \A q \in Proc \ {p} : verdict'[q] = verdict[q]
  BY DEF PowerOn, PowerOffFailed, NodeReady, DeployFunctions, TypeInv, TypeOK
<1>6. /\ \A m \in Worker \ {target[p]} :
           m \notin astray => machine'[m] = machine[m] /\ m \notin astray'
      /\ (Relying(p) => target[p] \notin astray) => (Relying(p)' => target[p] \notin astray')
  BY <1>2, WakeStrays
<1> QED
  BY <1>1, <1>3, <1>4, <1>5, <1>6 DEF WakeMoves

\* Every step is of one of these kinds.
LEMMA StepKinds ==
  ASSUME TypeInv, [Next]_vars
  PROVE  \/ Quiet \/ Decides \/ Interferes
         \/ \E p \in Proc : WakeMoves(p) \/ BeginWake(p) \/ SetFinal(p)
<1>1. ASSUME NEW h \in Handler, Arrive(h) \/ Serving(h) \/ Account(h)
      PROVE  Quiet
  <2>1. h \in Proc
    BY DEF Proc
  <2>2. CASE Unavailable(h)
    BY <2>2 DEF Unavailable, Quiet, vars, registryVars, powerVars, procVars, controllerVars
  <2> QED
    BY <1>1, <2>1, <2>2, QuietProcess DEF Arrive, Serving, Account
<1>2. ASSUME NEW p \in Proc, Activation(p) \/ TimeOut(p)
      PROVE  Quiet \/ WakeMoves(p) \/ BeginWake(p) \/ SetFinal(p)
  BY <1>2, QuietProcess, QuietReturn, WakeStepMoves DEF Activation
<1>3. CASE Controller
  <2>1. CASE \/ CtlTick \/ CtlSnapshot \/ CtlEnd
             \/ \E n \in Worker : CtlHealthy(n) \/ CtlRetry(n) \/ CtlLeave(n) \/ CtlKeep(n)
                                  \/ CtlChoose(n)
    BY <2>1 DEF Decides, CtlTick, CtlSnapshot, CtlEnd, CtlHealthy, CtlRetry, CtlRestoreAs,
                CtlLeave, CtlKeep, CtlChoose, registryVars, powerVars, procVars
  <2> QED
    BY <1>3, <2>1 DEF Controller, Recovery, ScaleDownScan, Interferes
<1>4. CASE Enforce
  <2>1. CASE EnforceStart
    BY <2>1 DEF EnforceStart, Quiet, registryVars, powerVars, procVars, controllerVars
  <2> QED
    BY <1>4, <2>1 DEF Enforce, Interferes
<1>5. CASE Environment
  <2>1. ASSUME NEW n \in Worker, IdlePasses(n) \/ SnapshotAges(n) PROVE Quiet
    BY <2>1 DEF IdlePasses, SnapshotAges, Quiet, registryVars, powerVars, procVars, controllerVars
  <2> QED
    BY <1>5, <2>1 DEF Environment, Interferes
<1>6. CASE UNCHANGED vars
  BY <1>6 DEF Quiet, vars, registryVars, powerVars, procVars, controllerVars
<1> QED
  BY <1>1, <1>2, <1>3, <1>4, <1>5, <1>6 DEF Next, Crashed

-------------------------------------------------------------------------------
(* One node at a time: its wakes and what the scan knows of it.               *)

LEMMA AloneQuiet ==
  ASSUME Quiet, NEW n \in Worker, Alone(n), SnapshotHolds(n)
  PROVE  Alone(n)' /\ SnapshotHolds(n)'
  BY DEF Quiet, Alone, SnapshotHolds, InScan

LEMMA AloneWakeMoves ==
  ASSUME TypeInv, NEW p \in Proc, WakeMoves(p), NEW n \in Worker, Alone(n), SnapshotHolds(n)
  PROVE  Alone(n)' /\ SnapshotHolds(n)'
<1>1. \A q \in Proc : pc'[q] \in InWake <=> pc[q] \in InWake
  BY DEF WakeMoves, TypeInv, TypeOK
<1> QED
  BY <1>1 DEF WakeMoves, Alone, SnapshotHolds, InScan

\* A wake of n begins where none is in progress, and nobody counts on n.
LEMMA AloneBeginWake ==
  ASSUME TypeInv, NEW p \in Proc, BeginWake(p), NEW n \in Worker, Alone(n), SnapshotHolds(n)
  PROVE  Alone(n)' /\ SnapshotHolds(n)'
<1>1. /\ pc[p] = "activate" /\ status[target[p]] \in {"sleeping", "dead"}
      /\ pc' = [pc EXCEPT ![p] = "poweron"] /\ status' = [status EXCEPT ![target[p]] = "waking"]
      /\ UNCHANGED <<target, cpc, ctodo, cnode>>
  BY DEF BeginWake, At, controllerVars
<1>2. \A q \in Proc : pc'[q] \in InWake => q = p \/ pc[q] \in InWake
  BY <1>1 DEF TypeInv, TypeOK
<1>3. InScan(n)' = InScan(n)
  BY <1>1 DEF InScan
<1>4. n \in Node
  BY DEF Node
<1>5. CASE target[p] = n
  <2>1. \A q \in Proc : ~(pc[q] \in InWake /\ target[q] = n)
    BY <1>1, <1>5 DEF Alone
  <2>2. status'[n] = "waking" /\ ~InScan(n)
    BY <1>1, <1>4, <1>5 DEF SnapshotHolds, TypeInv, TypeOK
  <2> QED
    BY <1>1, <1>2, <1>3, <2>1, <2>2 DEF Alone, SnapshotHolds
<1>6. CASE target[p] # n
  <2>1. status'[n] = status[n]
    BY <1>1, <1>4, <1>6 DEF TypeInv, TypeOK
  <2> QED
    BY <1>1, <1>2, <1>3, <1>6, <2>1 DEF Alone, SnapshotHolds
<1> QED
  BY <1>5, <1>6

LEMMA AloneSetFinal ==
  ASSUME TypeInv, NEW p \in Proc, SetFinal(p), NEW n \in Worker, Alone(n), SnapshotHolds(n)
  PROVE  Alone(n)' /\ SnapshotHolds(n)'
<1>1. /\ pc[p] = "setfinal" /\ pc' = [pc EXCEPT ![p] = "delact"]
      /\ status' = [status EXCEPT ![target[p]] = verdict[p]]
      /\ UNCHANGED <<target, cpc, ctodo, cnode>>
  BY DEF SetFinal, At, controllerVars
<1>2. \A q \in Proc : pc'[q] \in InWake => q # p /\ pc[q] \in InWake
  BY <1>1 DEF TypeInv, TypeOK, InWake
<1>3. InScan(n)' = InScan(n)
  BY <1>1 DEF InScan
<1>4. n \in Node /\ pc[p] \in InWake
  BY <1>1 DEF Node, InWake
<1>5. CASE target[p] = n
  <2>1. status[n] = "waking" /\ \A q \in Proc : pc[q] \in InWake /\ target[q] = n => p = q
    BY <1>4, <1>5 DEF Alone
  <2>2. ~InScan(n)
    BY <2>1 DEF SnapshotHolds
  <2> QED
    BY <1>1, <1>2, <1>3, <2>1, <2>2 DEF Alone, SnapshotHolds
<1>6. CASE target[p] # n
  <2>1. status'[n] = status[n]
    BY <1>1, <1>4, <1>6 DEF TypeInv, TypeOK
  <2> QED
    BY <1>1, <1>2, <1>3, <2>1 DEF Alone, SnapshotHolds
<1> QED
  BY <1>5, <1>6

\* The second snapshot takes active workers, and the scan only loses nodes.
LEMMA AloneDecides ==
  ASSUME TypeInv, Decides, NEW n \in Worker, Alone(n), SnapshotHolds(n)
  PROVE  Alone(n)' /\ SnapshotHolds(n)'
<1>1. Alone(n)'
  BY DEF Decides, Alone
<1>2. InScan(n)' => InScan(n) \/ status[n] = "active"
  <2>1. CASE CtlTick \/ CtlEnd \/ \E m \in Worker : CtlHealthy(m) \/ CtlRetry(m) \/ CtlLeave(m)
    BY <2>1 DEF CtlTick, CtlEnd, CtlHealthy, CtlRetry, CtlRestoreAs, CtlLeave, CtlAt, InScan,
                Scanning
  <2>2. CASE CtlSnapshot
    BY <2>2 DEF CtlSnapshot, InScan, Scanning
  <2>3. ASSUME NEW m \in Worker, CtlKeep(m) \/ CtlChoose(m)
        PROVE  InScan(n)' => InScan(n) \/ status[n] = "active"
    BY <2>3 DEF CtlKeep, CtlChoose, CtlAt, InScan, Scanning
  <2> QED
    BY <2>1, <2>2, <2>3 DEF Decides
<1>3. status'[n] = status[n]
  BY DEF Decides
<1> QED
  BY <1>1, <1>2, <1>3 DEF SnapshotHolds

\* RecoverDead gives a status to a node that is still dead, so to one nobody
\* wakes; the scan marks a node that is still active.
LEMMA AloneInterferes ==
  ASSUME TypeInv, Interferes, NEW n \in Worker, Alone(n), SnapshotHolds(n), ~Overwrites(n),
         cpc \in {"cut", "mark"} => cnode \notin ctodo
  PROVE  Alone(n)' /\ SnapshotHolds(n)'
<1>1. UNCHANGED <<pc, target>>
  BY DEF Interferes, CtlRestore, CtlCut, CtlMark, EnforceOff, Boot, procVars
<1>2. n \in Node
  BY DEF Node
<1>3. CASE CtlRestore
  <2>1. /\ cpc = "restore" /\ cpc' = "recover"
        /\ status' = [status EXCEPT ![cnode] = cstatus]
    BY <1>3 DEF CtlRestore, CtlAt
  <2>2. ~InScan(n)'
    BY <2>1 DEF InScan, Scanning
  <2>3. CASE cnode = n
    <3>1. status[n] = "dead"
      BY <2>1, <2>3 DEF Overwrites
    <3>2. \A q \in Proc : ~(pc[q] \in InWake /\ target[q] = n)
      BY <3>1 DEF Alone
    <3> QED
      BY <1>1, <2>2, <3>2 DEF Alone, SnapshotHolds
  <2>4. CASE cnode # n
    <3>1. status'[n] = status[n]
      BY <1>2, <2>1, <2>4 DEF TypeInv, TypeOK
    <3> QED
      BY <1>1, <2>2, <3>1 DEF Alone, SnapshotHolds
  <2> QED
    BY <2>3, <2>4
<1>4. CASE CtlMark
  <2>1. /\ cpc = "mark" /\ cpc' = "scan" /\ ctodo' = ctodo
        /\ status' = [status EXCEPT ![cnode] = "sleeping"]
    BY <1>4 DEF CtlMark, CtlAt
  <2>2. CASE cnode = n
    <3>1. status[n] = "active" /\ n \notin ctodo
      BY <2>1, <2>2 DEF SnapshotHolds, InScan
    <3>2. \A q \in Proc : ~(pc[q] \in InWake /\ target[q] = n)
      BY <3>1 DEF Alone
    <3>3. ~InScan(n)'
      BY <2>1, <3>1 DEF InScan
    <3> QED
      BY <1>1, <3>2, <3>3 DEF Alone, SnapshotHolds
  <2>3. CASE cnode # n
    <3>1. status'[n] = status[n]
      BY <1>2, <2>1, <2>3 DEF TypeInv, TypeOK
    <3>2. InScan(n)' => InScan(n)
      BY <2>1 DEF InScan, Scanning
    <3> QED
      BY <1>1, <3>1, <3>2 DEF Alone, SnapshotHolds
  <2> QED
    BY <2>2, <2>3
<1>5. CASE CtlCut
  <2>1. /\ cpc = "cut" /\ ctodo' = ctodo /\ status' = status
        /\ cpc' = "scan" \/ (cpc' = "mark" /\ cnode' = cnode)
    BY <1>5 DEF CtlCut, CtlAt, registryVars
  <2>2. InScan(n)' => InScan(n)
    BY <2>1 DEF InScan, Scanning
  <2> QED
    BY <1>1, <2>1, <2>2 DEF Alone, SnapshotHolds
<1>6. ASSUME NEW m \in Worker, EnforceOff(m) \/ Boot(m)
      PROVE  Alone(n)' /\ SnapshotHolds(n)'
  <2>1. UNCHANGED <<status, cpc, ctodo, cnode>>
    BY <1>6 DEF EnforceOff, Boot, registryVars, controllerVars
  <2> QED
    BY <1>1, <2>1 DEF Alone, SnapshotHolds, InScan
<1> QED
  BY <1>3, <1>4, <1>5, <1>6 DEF Interferes

LEMMA AloneNext ==
  ASSUME TypeInv, [Next]_vars, NEW n \in Worker, Alone(n), SnapshotHolds(n), ~Overwrites(n),
         cpc \in {"cut", "mark"} => cnode \notin ctodo
  PROVE  Alone(n)' /\ SnapshotHolds(n)'
  BY StepKinds, AloneQuiet, AloneWakeMoves, AloneBeginWake, AloneSetFinal, AloneDecides,
     AloneInterferes

-------------------------------------------------------------------------------
(* One node at a time: its functions and its power.                           *)

LEMMA EquippedQuiet ==
  ASSUME Quiet, NEW n \in Worker, Equipped(n)
  PROVE  Equipped(n)'
  BY DEF Quiet, Equipped, Relying, InWake

\* A wake touches its own machine only, which no other wake relies on.
LEMMA EquippedWakeMoves ==
  ASSUME TypeInv, NEW p \in Proc, WakeMoves(p), NEW n \in Worker, Alone(n), Equipped(n)
  PROVE  Equipped(n)'
<1>1. PICK s \in InWake :
        /\ pc' = [pc EXCEPT ![p] = s]
        /\ s = "setfinal" /\ verdict'[p] = "active" => machine'[target[p]] = "ready"
  BY DEF WakeMoves
<1>2. pc[p] \in InWake /\ UNCHANGED <<status, target, cpc, cnode>>
  BY DEF WakeMoves
<1>3. ASSUME NEW q \in Proc, q # p, pc'[q] = "setfinal", verdict'[q] = "active", target'[q] = n
      PROVE  machine'[n] = "ready"
  <2>1. pc[q] = "setfinal" /\ verdict[q] = "active" /\ target[q] = n
    BY <1>1, <1>2, <1>3 DEF WakeMoves, TypeInv, TypeOK
  <2>2. target[p] # n
    BY <1>2, <1>3, <2>1 DEF Alone, InWake
  <2>3. n \notin astray /\ machine[n] = "ready"
    BY <2>1 DEF Equipped, Relying
  <2> QED
    BY <2>2, <2>3 DEF WakeMoves
<1>4. ASSUME pc'[p] = "setfinal", verdict'[p] = "active", target'[p] = n
      PROVE  machine'[n] = "ready"
  BY <1>1, <1>2, <1>4 DEF TypeInv, TypeOK
<1>5. ASSUME status'[n] = "active"
      PROVE  n \notin astray' /\ (machine'[n] = "ready" \/ (cpc' = "mark" /\ cnode' = n))
  <2>1. target[p] # n
    BY <1>2, <1>5 DEF Alone
  <2> QED
    BY <1>2, <1>5, <2>1 DEF WakeMoves, Equipped
<1>6. ASSUME NEW q \in Proc, Relying(q)', target'[q] = n
      PROVE  n \notin astray'
  <2>1. CASE q = p
    BY <1>2, <1>6, <2>1 DEF WakeMoves, Equipped
  <2>2. CASE q # p
    <3>1. Relying(q) /\ target[q] = n
      BY <1>1, <1>2, <1>6, <2>2 DEF WakeMoves, Relying, TypeInv, TypeOK
    <3>2. target[p] # n
      BY <1>2, <2>2, <3>1 DEF Alone, Relying, InWake
    <3> QED
      BY <3>1, <3>2 DEF WakeMoves, Equipped
  <2> QED
    BY <2>1, <2>2
<1> QED
  BY <1>3, <1>4, <1>5, <1>6 DEF Equipped

LEMMA EquippedBeginWake ==
  ASSUME TypeInv, NEW p \in Proc, BeginWake(p), NEW n \in Worker, Equipped(n)
  PROVE  Equipped(n)'
<1>1. /\ pc' = [pc EXCEPT ![p] = "poweron"] /\ status' = [status EXCEPT ![target[p]] = "waking"]
      /\ UNCHANGED <<machine, astray, target, verdict, cpc, cnode>>
  BY DEF BeginWake, powerVars, controllerVars
<1>2. \A q \in Proc : /\ pc'[q] = "setfinal" => pc[q] = "setfinal"
                      /\ Relying(q)' => Relying(q)
  BY <1>1 DEF Relying, TypeInv, TypeOK
<1>3. n \in Node
  BY DEF Node
<1>4. status'[n] = "active" => status[n] = "active"
  BY <1>1, <1>3 DEF TypeInv, TypeOK
<1> QED
  BY <1>1, <1>2, <1>4 DEF Equipped

LEMMA EquippedSetFinal ==
  ASSUME TypeInv, NEW p \in Proc, SetFinal(p), NEW n \in Worker, Equipped(n)
  PROVE  Equipped(n)'
<1>1. /\ pc[p] = "setfinal" /\ pc' = [pc EXCEPT ![p] = "delact"]
      /\ status' = [status EXCEPT ![target[p]] = verdict[p]]
      /\ UNCHANGED <<machine, astray, target, verdict, cpc, cnode>>
  BY DEF SetFinal, At, powerVars, controllerVars
<1>2. \A q \in Proc : /\ pc'[q] = "setfinal" => pc[q] = "setfinal"
                      /\ Relying(q)' => Relying(q)
  BY <1>1 DEF Relying, TypeInv, TypeOK
<1>3. n \in Node
  BY DEF Node
<1>4. CASE target[p] = n
  <2>1. status'[n] = verdict[p]
    BY <1>1, <1>3, <1>4 DEF TypeInv, TypeOK
  <2>2. verdict[p] = "active" => machine[n] = "ready" /\ n \notin astray
    BY <1>1, <1>4 DEF Equipped, Relying
  <2> QED
    BY <1>1, <1>2, <2>1, <2>2 DEF Equipped
<1>5. CASE target[p] # n
  <2>1. status'[n] = status[n]
    BY <1>1, <1>3, <1>5 DEF TypeInv, TypeOK
  <2> QED
    BY <1>1, <1>2, <2>1 DEF Equipped
<1> QED
  BY <1>4, <1>5

LEMMA EquippedDecides ==
  ASSUME Decides, NEW n \in Worker, Equipped(n)
  PROVE  Equipped(n)'
<1>1. cpc # "mark"
  BY DEF Decides, CtlTick, CtlSnapshot, CtlEnd, CtlHealthy, CtlRetry, CtlRestoreAs, CtlLeave,
         CtlKeep, CtlChoose, CtlAt
<1> QED
  BY <1>1 DEF Decides, Equipped, Relying

\* A relay that opens takes the power of a node that is not being woken and not
\* recorded as active, or the controller marks it next.
LEMMA EquippedInterferes ==
  ASSUME TypeInv, Interferes, NEW n \in Worker, Alone(n), SnapshotHolds(n), Equipped(n),
         ~Revives(n), ~SweepsAwake(n), ~CutsUnnoticed(n)
  PROVE  Equipped(n)'
<1>1. UNCHANGED <<pc, target, verdict>>
  BY DEF Interferes, CtlRestore, CtlCut, CtlMark, EnforceOff, Boot, procVars
<1>2. n \in Node /\ \A q \in Proc : Relying(q)' <=> Relying(q)
  BY <1>1 DEF Node, Relying
<1>3. CASE CtlRestore
  <2>1. /\ cpc = "restore" /\ cpc' = "recover" /\ machine' = machine /\ astray' = astray
        /\ status' = [status EXCEPT ![cnode] = cstatus]
    BY <1>3 DEF CtlRestore, CtlAt, powerVars
  <2>2. status'[n] = "active" => status[n] = "active"
    BY <1>2, <2>1 DEF Revives, TypeInv, TypeOK
  <2> QED
    BY <1>1, <1>2, <2>1, <2>2 DEF Equipped
<1>4. CASE CtlMark
  <2>1. /\ machine' = machine /\ astray' = astray
        /\ status' = [status EXCEPT ![cnode] = "sleeping"]
    BY <1>4 DEF CtlMark, powerVars
  <2>2. status'[n] = "active" => status[n] = "active" /\ cnode # n
    BY <1>2, <2>1 DEF TypeInv, TypeOK
  <2> QED
    BY <1>1, <1>2, <2>1, <2>2 DEF Equipped
<1>5. CASE CtlCut
  <2>1. PICK err \in RelayError :
          /\ Switch(cnode, FALSE, err)
          /\ cpc' = (IF err THEN "scan" ELSE "mark")
          /\ cnode' = (IF err THEN NoOne ELSE cnode)
    BY <1>5 DEF CtlCut, SwitchOff
  <2>2. cpc = "cut" /\ status' = status /\ cnode \in Worker /\ err \in BOOLEAN
    BY <1>5 DEF CtlCut, CtlAt, registryVars, TypeInv, RelayError
  <2>3. /\ ~err => cnode \notin astray'
        /\ cnode # n /\ n \notin astray => machine'[n] = machine[n] /\ n \notin astray'
    BY <2>1, <2>2, SwitchReach DEF TypeInv
  <2>4. CASE cnode # n
    BY <1>1, <1>2, <2>1, <2>2, <2>3, <2>4 DEF Equipped, Relying
  <2>5. CASE cnode = n
    <3>1. status[n] = "active"
      BY <2>2, <2>5 DEF SnapshotHolds, InScan
    <3>2. \A q \in Proc : target[q] = n => ~Relying(q)
      BY <3>1 DEF Alone, Relying, InWake
    <3>3. n \notin astray' /\ (machine'[n] = "ready" \/ (cpc' = "mark" /\ cnode' = n))
      <4>1. CASE ~err
        BY <2>1, <2>3, <2>5, <4>1
      <4>2. CASE err
        <5>1. machine'[n] = machine[n]
          BY <2>1, <2>2, <2>5, <4>2 DEF CutsUnnoticed
        <5>2. machine[n] = "ready" /\ n \notin astray
          BY <2>2, <3>1 DEF Equipped
        <5>3. ~Reaches(n, FALSE)
          BY <5>1, <5>2 DEF Reaches, Powered
        <5> QED
          BY <2>1, <2>5, <5>1, <5>2, <5>3 DEF Switch, powerVars
      <4> QED
        BY <4>1, <4>2
    <3> QED
      BY <1>1, <1>2, <3>2, <3>3 DEF Equipped, Relying
  <2> QED
    BY <2>4, <2>5
<1>6. ASSUME NEW m \in Worker, EnforceOff(m)
      PROVE  Equipped(n)'
  <2>1. UNCHANGED <<status, cpc, cnode>> /\ m \in etodo /\ etodo' = etodo \ {m}
    BY <1>6 DEF EnforceOff, registryVars, controllerVars
  <2>2. CASE m = n
    <3>1. status[n] = "sleeping"
      BY <2>1, <2>2 DEF SweepsAwake
    <3>2. \A q \in Proc : target[q] = n => pc[q] # "setfinal" /\ ~Relying(q)
      BY <3>1 DEF Alone, Relying, InWake
    <3> QED
      BY <1>1, <1>2, <2>1, <3>1, <3>2 DEF Equipped
  <2>3. CASE m # n
    <3>1. PICK err \in BOOLEAN : Switch(m, FALSE, err)
      BY <1>6 DEF EnforceOff, SwitchOff, RelayError
    <3>2. n \notin astray => machine'[n] = machine[n] /\ n \notin astray'
      BY <2>3, <3>1, SwitchReach DEF TypeInv
    <3> QED
      BY <1>1, <1>2, <2>1, <3>2 DEF Equipped, Relying
  <2> QED
    BY <2>2, <2>3
<1>7. ASSUME NEW m \in Worker, Boot(m)
      PROVE  Equipped(n)'
  <2>1. UNCHANGED <<status, astray, cpc, cnode>> /\ machine[m] = "booting"
        /\ machine' = [machine EXCEPT ![m] = "bare"]
    BY <1>7 DEF Boot, registryVars, controllerVars
  <2>2. machine[n] = "ready" => machine'[n] = "ready"
    BY <2>1 DEF TypeInv, TypeOK
  <2> QED
    BY <1>1, <1>2, <2>1, <2>2 DEF Equipped
<1> QED
  BY <1>3, <1>4, <1>5, <1>6, <1>7 DEF Interferes

LEMMA EquippedNext ==
  ASSUME TypeInv, [Next]_vars, NEW n \in Worker, Alone(n), SnapshotHolds(n), Equipped(n),
         ~Revives(n), ~SweepsAwake(n), ~CutsUnnoticed(n)
  PROVE  Equipped(n)'
  BY StepKinds, EquippedQuiet, EquippedWakeMoves, EquippedBeginWake, EquippedSetFinal,
     EquippedDecides, EquippedInterferes

-------------------------------------------------------------------------------
(* A wake that begins alone starts afresh.                                    *)

LEMMA Healed ==
  ASSUME TypeInv, [Next]_vars, NEW n \in Worker, WakesAlone(n)
  PROVE  /\ Alone(n)' /\ Equipped(n)'
         /\ cpc \notin Scanning => SnapshotHolds(n)'
<1>1. PICK p \in Proc : BeginWake(p) /\ target[p] = n
  <2>1. PICK q \in Proc : pc'[q] \in InWake /\ target'[q] = n
    BY DEF WakesAlone, Wakers
  <2>2. ~(pc[q] \in InWake /\ target[q] = n)
    BY DEF WakesAlone, Wakers
  <2>3. ~Quiet
    BY <2>1, <2>2 DEF Quiet
  <2>4. ~Decides /\ ~Interferes
    BY <2>1, <2>2 DEF Decides, Interferes, CtlRestore, CtlCut, CtlMark, EnforceOff, Boot, procVars
  <2>5. ASSUME NEW p \in Proc, WakeMoves(p) PROVE FALSE
    BY <2>1, <2>2, <2>5 DEF WakeMoves, TypeInv, TypeOK
  <2>6. ASSUME NEW p \in Proc, SetFinal(p) PROVE FALSE
    BY <2>1, <2>2, <2>6 DEF SetFinal, At, InWake, TypeInv, TypeOK
  <2>7. ASSUME NEW p \in Proc, BeginWake(p) PROVE target[p] = n
    BY <2>1, <2>2, <2>7 DEF BeginWake, TypeInv, TypeOK
  <2> QED
    BY <2>3, <2>4, <2>5, <2>6, <2>7, StepKinds
<1>2. /\ pc' = [pc EXCEPT ![p] = "poweron"] /\ status' = [status EXCEPT ![n] = "waking"]
      /\ UNCHANGED <<target, cpc, ctodo, cnode>>
  BY <1>1 DEF BeginWake, controllerVars
<1>3. status'[n] = "waking"
  BY <1>2 DEF Node, TypeInv, TypeOK
<1>4. \A q \in Proc : pc'[q] \in InWake /\ target'[q] = n => q = p
  BY <1>2 DEF WakesAlone, Wakers, TypeInv, TypeOK
<1>5. Alone(n)'
  BY <1>3, <1>4 DEF Alone
<1>6. Equipped(n)'
  <2>1. \A q \in Proc : target'[q] = n => pc'[q] # "setfinal" /\ ~Relying(q)'
    BY <1>2, <1>4 DEF Relying, InWake, TypeInv, TypeOK
  <2> QED
    BY <1>3, <2>1 DEF Equipped
<1>7. cpc \notin Scanning => SnapshotHolds(n)'
  BY <1>2 DEF SnapshotHolds, InScan, Scanning
<1> QED
  BY <1>5, <1>6, <1>7

-------------------------------------------------------------------------------
(* The floor.                                                                 *)

LEMMA NodesFinite ==
  ASSUME NEW S \in SUBSET Node
  PROVE  IsFiniteSet(S) /\ Cardinality(S) \in Nat
<1>1. IsFiniteSet(Node)
  BY FiniteAssumption, FS_AddElement DEF Node
<1> QED
  BY <1>1, FS_Subset, FS_CardinalityType

\* A set that loses at most one node loses at most one of its count.
LEMMA LosesOne ==
  ASSUME NEW S \in SUBSET Node, NEW T \in SUBSET Node, NEW n, S \ {n} \subseteq T
  PROVE  Cardinality(S) - 1 <= Cardinality(T)
<1>1. Cardinality(S \ {n}) <= Cardinality(T)
  BY NodesFinite, FS_Subset
<1>2. Cardinality(S \ {n}) = IF n \in S THEN Cardinality(S) - 1 ELSE Cardinality(S)
  BY NodesFinite, FS_RemoveElement
<1> QED
  BY <1>1, <1>2, NodesFinite

\* The scan visits a node once.
LEMMA VisitedOnce ==
  ASSUME TypeInv, [Next]_vars, cpc \in {"cut", "mark"} => cnode \notin ctodo
  PROVE  cpc' \in {"cut", "mark"} => cnode' \notin ctodo'
<1>1. CASE Decides
  BY <1>1 DEF Decides, CtlTick, CtlSnapshot, CtlEnd, CtlHealthy, CtlRetry, CtlRestoreAs, CtlLeave,
              CtlKeep, CtlChoose, CtlAt
<1>2. CASE Interferes
  BY <1>2 DEF Interferes, CtlRestore, CtlCut, CtlMark, EnforceOff, Boot, CtlAt, controllerVars
<1>3. ASSUME NEW p \in Proc, WakeMoves(p) \/ BeginWake(p) \/ SetFinal(p)
      PROVE  UNCHANGED <<cpc, ctodo, cnode>>
  BY <1>3 DEF WakeMoves, BeginWake, SetFinal, controllerVars
<1> QED
  BY <1>1, <1>2, <1>3, StepKinds DEF Quiet

\* While the scan lasts, only its own marks take an active node away: a wake
\* ends on a node that is not active, unless that status was overwritten.
LEMMA StaysActive ==
  ASSUME TypeInv, [Next]_vars, cpc \in Scanning, ~CtlMark,
         NEW n \in Node, status[n] = "active", n \notin Worker \/ Alone(n)
  PROVE  status'[n] = "active"
<1>1. CASE Quiet \/ Decides
  BY <1>1 DEF Quiet, Decides
<1>2. CASE Interferes
  BY <1>2 DEF Interferes, CtlRestore, CtlCut, EnforceOff, Boot, CtlAt, registryVars, Scanning
<1>3. ASSUME NEW p \in Proc, WakeMoves(p)
      PROVE  status'[n] = "active"
  BY <1>3 DEF WakeMoves
<1>4. ASSUME NEW p \in Proc, BeginWake(p)
      PROVE  status'[n] = "active"
  BY <1>4 DEF BeginWake, TypeInv, TypeOK
<1>5. ASSUME NEW p \in Proc, SetFinal(p)
      PROVE  status'[n] = "active"
  <2>1. pc[p] \in InWake /\ pc[p] \in Attempt
    BY <1>5 DEF SetFinal, At, InWake, Attempt, Owning
  <2>2. target[p] # n
    BY <2>1 DEF Alone, TypeInv
  <2> QED
    BY <1>5, <2>2 DEF SetFinal, TypeInv, TypeOK
<1> QED
  BY <1>1, <1>2, <1>3, <1>4, <1>5, StepKinds

LEMMA FloorNext ==
  ASSUME TypeInv, [Next]_vars, Floor, \A n \in Worker \ overwritten : Alone(n),
         cpc \in Scanning => overwritten \subseteq overwritten'
  PROVE  Floor'
<1> DEFINE T == Counted'
<1>1. Counted \in SUBSET Node /\ T \in SUBSET Node
  BY DEF Counted, ActiveExecutors, Executors
<1>2. Cardinality(Counted) \in Nat /\ Cardinality(T) \in Nat
  BY <1>1, NodesFinite
<1>3. Cardinality(ActiveExecutors) \in Nat /\ ccount \in Int /\ MinActiveNodes \in Int
  BY ActiveExecutorsFinite, ConfigAssumption DEF TypeInv, TypeOK
<1>4. ASSUME cpc \in Scanning, ~CtlMark
      PROVE  Cardinality(Counted) <= Cardinality(T)
  <2>1. \A n \in Executors : n \in Counted => n \in T
    BY <1>4, StaysActive DEF Counted, ActiveExecutors, Executors
  <2>2. Counted \subseteq T
    BY <2>1 DEF Counted, ActiveExecutors
  <2> QED
    BY <1>1, <2>2, NodesFinite, FS_Subset
<1>5. CASE CtlMark
  <2>1. /\ cpc = "mark" /\ cpc' = "scan" /\ ccount' = ccount - 1
        /\ status' = [status EXCEPT ![cnode] = "sleeping"]
    BY <1>5 DEF CtlMark, CtlAt
  <2>2. \A m \in Node \ {cnode} : status'[m] = status[m]
    BY <2>1 DEF TypeInv, TypeOK
  <2>3. Counted \ {cnode} \subseteq T
    BY <2>1, <2>2 DEF Counted, ActiveExecutors, Executors, Scanning
  <2>4. Cardinality(Counted) - 1 <= Cardinality(T)
    BY <1>1, <2>3, LosesOne
  <2>5. Cardinality(Counted) >= ccount
    BY <2>1 DEF Floor, Scanning
  <2>6. Cardinality(T) >= ccount'
    BY <1>2, <1>3, <2>1, <2>4, <2>5
  <2> QED
    BY <2>1, <2>6, VisitedOnce DEF Floor
<1>6. CASE CtlSnapshot
  <2>1. cpc' = "scan" /\ ccount' = Cardinality(ActiveExecutors) /\ status' = status
    BY <1>6 DEF CtlSnapshot, registryVars
  <2>2. ActiveExecutors \subseteq T
    BY <2>1 DEF Counted, ActiveExecutors
  <2>3. Cardinality(ActiveExecutors) <= Cardinality(T)
    BY <1>1, <2>2, NodesFinite, FS_Subset
  <2>4. Cardinality(T) >= ccount'
    BY <1>2, <1>3, <2>1, <2>3
  <2> QED
    BY <2>1, <2>4 DEF Floor
<1>7. ASSUME NEW n \in Worker, CtlChoose(n)
      PROVE  Floor'
  <2>1. cpc \in Scanning /\ cpc' = "cut" /\ ccount' = ccount /\ ccount > MinActiveNodes /\ ~CtlMark
    BY <1>7 DEF CtlChoose, ScaleDown, CtlMark, CtlAt, Scanning
  <2>2. Cardinality(T) >= ccount'
    BY <1>2, <1>3, <1>4, <2>1 DEF Floor
  <2> QED
    BY <2>1, <2>2, VisitedOnce DEF Floor
<1>8. CASE cpc' \notin Scanning
  BY <1>8 DEF Floor, Scanning
<1>9. CASE /\ cpc \in Scanning /\ ccount' = ccount /\ ~CtlMark
           /\ cpc' \in {"cut", "mark"} => cpc \in {"cut", "mark"}
  <2>1. Cardinality(T) >= ccount'
    BY <1>2, <1>3, <1>4, <1>9 DEF Floor
  <2> QED
    BY <1>9, <2>1, VisitedOnce DEF Floor
<1>10. CASE Decides
  <2>1. ASSUME NEW n \in Worker, CtlKeep(n)
        PROVE  cpc = "scan" /\ cpc' = "scan" /\ ccount' = ccount /\ ~CtlMark
    BY <2>1 DEF CtlKeep, CtlMark, CtlAt
  <2>2. ASSUME NEW n \in Worker, CtlHealthy(n) \/ CtlRetry(n) \/ CtlLeave(n)
        PROVE  cpc' \in {"recover", "restore"}
    BY <2>2 DEF CtlHealthy, CtlRetry, CtlRestoreAs, CtlLeave, CtlAt
  <2>3. CtlTick \/ CtlEnd => cpc' \in {"recover", "sleep"}
    BY DEF CtlTick, CtlEnd
  <2> QED
    BY <1>6, <1>7, <1>8, <1>9, <1>10, <2>1, <2>2, <2>3 DEF Decides, Scanning
<1>11. CASE Interferes
  <2>1. CtlRestore => cpc' = "recover"
    BY DEF CtlRestore
  <2>2. CtlCut => cpc = "cut" /\ ccount' = ccount /\ ~CtlMark
    BY DEF CtlCut, CtlMark, CtlAt
  <2>3. ASSUME NEW n \in Worker, EnforceOff(n) \/ Boot(n)
        PROVE  cpc' = cpc /\ ccount' = ccount
    BY <2>3 DEF EnforceOff, Boot, controllerVars
  <2> QED
    BY <1>5, <1>8, <1>9, <1>11, <2>1, <2>2, <2>3 DEF Interferes, Scanning
<1>12. CASE Quiet \/ \E p \in Proc : WakeMoves(p) \/ BeginWake(p) \/ SetFinal(p)
  <2>1. UNCHANGED <<cpc, ccount>>
    BY <1>12 DEF Quiet, WakeMoves, BeginWake, SetFinal, controllerVars
  <2> QED
    BY <1>5, <1>8, <1>9, <2>1
<1> QED
  BY <1>10, <1>11, <1>12, StepKinds

-------------------------------------------------------------------------------
(* The invariant, and what it shows.                                          *)

\* The history only watches: with it, the registry does what it does without.
LEMMA HistoryWatches == HistorySpec => Spec
<1>1. [HistoryNext]_historyVars => [Next]_vars
  BY DEF HistoryNext, historyVars
<1> QED
  BY <1>1, PTL DEF HistorySpec, HistoryInit, Spec

LEMMA HistoryInvInit == HistoryInit => HistoryInv
<1> SUFFICES ASSUME HistoryInit PROVE HistoryInv
  OBVIOUS
<1>1. /\ overwritten = {} /\ cpc = "sleep"
      /\ status = [n \in Node |-> IF n = Leader THEN "active" ELSE "sleeping"]
      /\ pc = [p \in Proc |-> IF p \in Handler THEN "idle" ELSE IF Enabled THEN "done" ELSE "activate"]
  BY DEF HistoryInit, Init
<1>2. \A p \in Proc : pc[p] \notin InWake
  BY <1>1 DEF InWake
<1>3. ASSUME NEW n \in Worker PROVE Alone(n) /\ SnapshotHolds(n) /\ Equipped(n)
  <2>1. n \in Node /\ status[n] # "active"
    BY <1>1, NamesAssumption DEF Node
  <2> QED
    BY <1>1, <1>2, <2>1 DEF Alone, SnapshotHolds, InScan, Scanning, Equipped, Relying, InWake
<1> QED
  BY <1>1, <1>3 DEF HistoryInv, Floor, Scanning

LEMMA HistoryInvNext == TypeInv /\ HistoryInv /\ [HistoryNext]_historyVars => HistoryInv'
<1> SUFFICES ASSUME TypeInv, HistoryInv, [HistoryNext]_historyVars PROVE HistoryInv'
  OBVIOUS
<1>1. CASE UNCHANGED historyVars
  BY <1>1 DEF historyVars, history, vars, registryVars, powerVars, procVars, controllerVars,
              HistoryInv, Alone, SnapshotHolds, InScan, Equipped, Relying, Floor, Counted, ActiveExecutors
<1>2. CASE HistoryNext
  <2>1. [Next]_vars
    BY <1>2 DEF HistoryNext
  <2>2. /\ overwritten' = {n \in Worker : \/ n \in overwritten /\ ~(WakesAlone(n) /\ cpc \notin Scanning)
                                         \/ Overwrites(n)}
        /\ degraded' = {n \in Worker : \/ n \in degraded /\ ~WakesAlone(n)
                                       \/ Revives(n) \/ SweepsAwake(n) \/ CutsUnnoticed(n)}
    BY <1>2 DEF HistoryNext
  <2>3. ASSUME NEW n \in Worker \ overwritten'
        PROVE  Alone(n)' /\ SnapshotHolds(n)'
    <3>1. CASE n \in overwritten
      BY <2>1, <2>2, <3>1, Healed
    <3>2. CASE n \notin overwritten
      <4>1. Alone(n) /\ SnapshotHolds(n) /\ ~Overwrites(n)
        BY <2>2, <3>2 DEF HistoryInv
      <4> QED
        BY <2>1, <4>1, AloneNext DEF HistoryInv, Floor
    <3> QED
      BY <3>1, <3>2
  <2>4. ASSUME NEW n \in Worker \ (overwritten' \cup degraded')
        PROVE  Equipped(n)'
    <3>1. CASE WakesAlone(n)
      BY <2>1, <3>1, Healed
    <3>2. CASE ~WakesAlone(n)
      <4>1. n \notin overwritten /\ n \notin degraded
        BY <2>2, <3>2
      <4>2. ~Revives(n) /\ ~SweepsAwake(n) /\ ~CutsUnnoticed(n)
        BY <2>2
      <4>3. Alone(n) /\ SnapshotHolds(n) /\ Equipped(n)
        BY <4>1 DEF HistoryInv
      <4> QED
        BY <2>1, <4>2, <4>3, EquippedNext
    <3> QED
      BY <3>1, <3>2
  <2>5. Floor'
    <3>1. cpc \in Scanning => overwritten \subseteq overwritten'
      BY <2>2 DEF HistoryInv
    <3> QED
      BY <2>1, <3>1, FloorNext DEF HistoryInv
  <2> QED
    BY <2>2, <2>3, <2>4, <2>5 DEF HistoryInv
<1> QED
  BY <1>1, <1>2

LEMMA HistoryAlways == HistorySpec => [](TypeInv /\ HistoryInv)
<1>1. HistoryInit => TypeInv
  BY TypeInvInit DEF HistoryInit
<1>2. [HistoryNext]_historyVars => [Next]_vars
  BY DEF HistoryNext, historyVars
<1> QED
  BY <1>1, <1>2, TypeInvNext, HistoryInvInit, HistoryInvNext, PTL DEF HistorySpec

\* In power-aware mode, with relays that fail, recovery, scale-down and the
\* start-up sweep beside any number of requests: two processes wake one node
\* only after RecoverDead has overwritten its status.
THEOREM PowerAwareWakes == HistorySpec => []WakeExclusiveUnlessOverwritten
<1>1. HistoryInv => WakeExclusiveUnlessOverwritten
  BY DEF HistoryInv, WakeExclusiveUnlessOverwritten, Alone, Wakers
<1> QED
  BY <1>1, HistoryAlways, PTL

\* In the same mode an active worker is up and has every function, unless one of
\* the four named steps of the controller and the sweep has happened to it since
\* it was last woken.
THEOREM PowerAwareReady == HistorySpec => []ActiveReadyUnlessDegraded
<1>1. HistoryInv => ActiveReadyUnlessDegraded
  BY DEF HistoryInv, ActiveReadyUnlessDegraded, Equipped
<1> QED
  BY <1>1, HistoryAlways, PTL

\* The count a scan starts from holds through the scan: a node is switched off
\* only while more than MinActiveNodes executors are active or have had their
\* status overwritten by RecoverDead.
THEOREM FloorIsKept == HistorySpec => []FloorHolds
<1>1. TypeInv /\ HistoryInv => FloorHolds
  <2> SUFFICES ASSUME TypeInv, HistoryInv, cpc \in {"cut", "mark"}
               PROVE  Cardinality(Counted) > MinActiveNodes
    BY DEF FloorHolds, Counted
  <2>1. Cardinality(Counted) >= ccount /\ ccount > MinActiveNodes
    BY DEF HistoryInv, Floor, Scanning
  <2>2. Counted \in SUBSET Node
    BY DEF Counted, ActiveExecutors, Executors
  <2>3. Cardinality(Counted) \in Nat /\ ccount \in Int /\ MinActiveNodes \in Int
    BY <2>2, NodesFinite, ConfigAssumption DEF TypeInv, TypeOK
  <2> QED
    BY <2>1, <2>3
<1> QED
  BY <1>1, HistoryAlways, PTL
===============================================================================
