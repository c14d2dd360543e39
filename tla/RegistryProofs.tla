---------------------------- MODULE RegistryProofs ----------------------------
(***************************************************************************)
(* Proofs about the registry, for any number of workers and requests.       *)
(***************************************************************************)
EXTENDS RegistryProperties, FiniteSetTheorems, TLAPS

(***************************************************************************)
(* Type correctness is inductive together with who may hold which node: a   *)
(* process inside ActivateNode has a target, only workers are woken, a wake *)
(* that reaches its SetStatus has decided on a status, and the controller   *)
(* acts on workers.  The leader's own status therefore never changes.       *)
(***************************************************************************)
TypeInv ==
  /\ TypeOK
  /\ status[Leader] = "active"
  /\ \A p \in Proc : pc[p] \notin {"idle", "done"} => target[p] \in Node
  /\ \A p \in Proc : pc[p] \in Attempt => target[p] \in Worker
  /\ \A p \in Proc : pc[p] \in {"setfinal", "delact", "close"} => verdict[p] # "none"
  /\ \A p \in Proc : waitsOn[p] # NoOne => pc[p] = "wait"
  /\ cpc \in {"restore", "cut", "mark"} => cnode \in Worker
  /\ cpc = "restore" => cstatus # "none"

\* The number of active executors is a number: there are finitely many nodes.
LEMMA ActiveExecutorsFinite ==
  /\ IsFiniteSet(ActiveExecutors)
  /\ Cardinality(ActiveExecutors) \in Nat
<1>1. IsFiniteSet(Node)
  BY FiniteAssumption, FS_AddElement DEF Node
<1>2. ActiveExecutors \subseteq Node
  BY DEF ActiveExecutors, Executors
<1> QED
  BY <1>1, <1>2, FS_Subset, FS_CardinalityType

\* Processes that return from ActivateNode keep the types: a request that goes
\* on to IncLoad keeps its target, all others give it up.
LEMMA ReturnKeepsTypes ==
  ASSUME TypeInv, NEW S \in SUBSET Proc, NEW ok \in BOOLEAN, Return(S, ok),
         \A q \in S : pc[q] \notin {"idle", "done"}
  PROVE  /\ pc' \in [Proc -> Pc]
         /\ target' \in [Proc -> Node \cup {NoOne}]
         /\ waitsOn' \in [Proc -> Proc \cup {NoOne}]
         /\ verdict' \in [Proc -> Verdict]
         /\ \A p \in Proc : pc'[p] \notin {"idle", "done"} => target'[p] \in Node
         /\ \A p \in Proc : pc'[p] \in Attempt => target'[p] \in Worker
         /\ \A p \in Proc : pc'[p] \in {"setfinal", "delact", "close"} => verdict'[p] # "none"
         /\ \A p \in Proc : waitsOn'[p] # NoOne => pc'[p] = "wait"
<1>1. \A q \in Proc : AfterActivation(q, ok) \in {"done", "inc", "idle"}
                      /\ (AfterActivation(q, ok) = "inc" <=> ok /\ q \in Handler)
  BY NamesAssumption DEF AfterActivation, Proc, Node
<1>2. pc' \in [Proc -> Pc]
  BY <1>1 DEF Return, TypeInv, TypeOK, Pc
<1>3. target' \in [Proc -> Node \cup {NoOne}] /\ verdict' \in [Proc -> Verdict]
  BY DEF Return, TypeInv, TypeOK, Verdict
<1>4. waitsOn' \in [Proc -> Proc \cup {NoOne}]
  BY DEF Return, TypeInv, TypeOK
<1>5. \A p \in Proc : p \in S => pc'[p] = AfterActivation(p, ok)
  BY DEF Return
<1>6. \A p \in Proc : p \notin S =>
        pc'[p] = pc[p] /\ target'[p] = target[p] /\ verdict'[p] = verdict[p] /\ waitsOn'[p] = waitsOn[p]
  BY DEF Return
<1>7. \A p \in Proc : /\ p \in S => waitsOn'[p] = NoOne
                      /\ p \in S /\ ok /\ p \in Handler => target'[p] = target[p]
  BY DEF Return
<1>8. ASSUME NEW p \in Proc
      PROVE  /\ pc'[p] \notin {"idle", "done"} => target'[p] \in Node
             /\ pc'[p] \in Attempt => target'[p] \in Worker
             /\ pc'[p] \in {"setfinal", "delact", "close"} => verdict'[p] # "none"
             /\ waitsOn'[p] # NoOne => pc'[p] = "wait"
  <2>1. CASE p \in S
    <3>1. /\ pc'[p] \in {"done", "inc", "idle"}
          /\ pc'[p] = "inc" => ok /\ p \in Handler
      BY <2>1, <1>1, <1>5
    <3>2. /\ waitsOn'[p] = NoOne
          /\ ok /\ p \in Handler => target'[p] = target[p]
      BY <2>1, <1>7
    <3>3. pc[p] \notin {"idle", "done"}
      BY <2>1
    <3>4. target[p] \in Node
      BY <3>3 DEF TypeInv
    <3> QED
      BY <3>1, <3>2, <3>4 DEF Attempt, Owning, InWake
  <2>2. CASE p \notin S
    BY <2>2, <1>6 DEF TypeInv
  <2> QED
    BY <2>1, <2>2
<1> QED
  BY <1>2, <1>3, <1>4, <1>8

\* A step that only makes processes return keeps the invariant.
LEMMA ReturnKeepsTypeInv ==
  ASSUME TypeInv, NEW S \in SUBSET Proc, NEW ok \in BOOLEAN, Return(S, ok),
         \A q \in S : pc[q] \notin {"idle", "done"},
         UNCHANGED <<registryVars, powerVars, controllerVars, enforceVars>>,
         alive' \in BOOLEAN
  PROVE  TypeInv'
<1>1. UNCHANGED <<status, load, idle, activations, machine, astray, cpc, ctodo, cidle, cnode,
                  cstatus, ccount, epc, etodo>>
  BY DEF registryVars, powerVars, controllerVars, enforceVars
<1>2. TypeOK'
  <2>1. /\ pc' \in [Proc -> Pc] /\ target' \in [Proc -> Node \cup {NoOne}]
        /\ waitsOn' \in [Proc -> Proc \cup {NoOne}] /\ verdict' \in [Proc -> Verdict]
    BY ReturnKeepsTypes
  <2> QED
    BY <1>1, <2>1 DEF TypeInv, TypeOK
<1> QED
  BY <1>1, <1>2, ReturnKeepsTypes DEF TypeInv

\* A relay command keeps the types.
LEMMA SwitchTypes ==
  ASSUME TypeOK, NEW n \in Worker, NEW on \in BOOLEAN, NEW err \in BOOLEAN, Switch(n, on, err)
  PROVE  machine' \in [Worker -> Machine] /\ astray' \in SUBSET Worker
<1>1. \A m \in Worker, b \in BOOLEAN : Powered(m, b) \in Machine
  BY DEF Powered, Machine, TypeOK
<1>2. CASE err /\ UNCHANGED powerVars
  BY <1>2 DEF powerVars, TypeOK
<1>3. CASE Reaches(n, on) /\ astray' \subseteq astray \cup {n}
  <2>1. \A m \in Worker : Closed(m) \in BOOLEAN
    BY DEF Closed
  <2>2. machine' \in [Worker -> Machine]
    BY <1>1, <1>3, <2>1 DEF Reaches, TypeOK
  <2> QED
    BY <1>3, <2>2 DEF TypeOK
<1> QED
  BY <1>2, <1>3 DEF Switch

\* A command that reports success leaves its relay where its controller believes
\* it, and no command moves the machine of another worker that is not astray.
LEMMA SwitchReach ==
  ASSUME TypeOK, NEW n \in Worker, NEW on \in BOOLEAN, NEW err \in BOOLEAN, Switch(n, on, err)
  PROVE  /\ ~err => n \notin astray' /\ machine'[n] = Powered(n, on)
         /\ \A m \in Worker \ {n} :
              m \notin astray => machine'[m] = machine[m] /\ m \notin astray'
<1>1. CASE err /\ UNCHANGED powerVars
  BY <1>1 DEF powerVars
<1>2. CASE /\ Reaches(n, on)
           /\ astray' = (astray \ ({n} \cup Sibling[n])) \cup
                          IF err /\ Sibling[n] # {} /\ Believed(n) # on THEN {n} ELSE {}
  BY <1>2 DEF Reaches
<1> QED
  BY <1>1, <1>2 DEF Switch

\* A wake that relies on the power it has asked for.
Relying(p) == pc[p] \in {"ready", "deploy"} \/ (pc[p] = "setfinal" /\ verdict[p] = "active")

LEMMA TypeInvInit == Init => TypeInv
<1> SUFFICES ASSUME Init PROVE TypeInv
  OBVIOUS
<1>1. TypeOK
  BY NamesAssumption, ConfigAssumption
  DEF Init, TypeOK, Node, Proc, NodeStatus, Machine, Pc, Verdict
<1>2. status[Leader] = "active"
  BY DEF Init, Node
<1>3. \A p \in Proc : pc[p] \notin {"idle", "done"} => target[p] \in Node
  BY DEF Init, Proc, Node
<1> QED
  BY <1>1, <1>2, <1>3, NamesAssumption DEF Init, TypeInv, Attempt, Owning, InWake, Proc

(***************************************************************************)
(* One step per action; Types is what a step that leaves a group of         *)
(* variables alone keeps.                                                   *)
(***************************************************************************)
LEMMA TypeInvNext == TypeInv /\ [Next]_vars => TypeInv'
<1> SUFFICES ASSUME TypeInv, [Next]_vars PROVE TypeInv'
  OBVIOUS
<1>1. ASSUME NEW h \in Handler, NEW n \in Executors, Pick(h, n) PROVE TypeInv'
  BY <1>1, NamesAssumption
  DEF TypeInv, TypeOK, Pick, Executors, Pc, Attempt, Owning, InWake, InFlight, Proc, At, CtlAt, registryVars, powerVars, procVars, controllerVars, enforceVars
<1>2. ASSUME NEW h \in Handler, Unavailable(h) PROVE TypeInv'
  BY <1>2, NamesAssumption
  DEF TypeInv, TypeOK, Unavailable, vars, At, CtlAt, registryVars, powerVars, procVars, controllerVars, enforceVars
<1>3. ASSUME NEW h \in Handler, NEW ok \in BOOLEAN, Serve(h, ok) PROVE TypeInv'
  BY <1>3, NamesAssumption
  DEF TypeInv, TypeOK, Serve, Pc, Attempt, Owning, InWake, InFlight, Proc, At, CtlAt, registryVars, powerVars, procVars, controllerVars, enforceVars
<1>4. ASSUME NEW h \in Handler, IncLoad(h) PROVE TypeInv'
  BY <1>4, NamesAssumption
  DEF TypeInv, TypeOK, IncLoad, Pc, Attempt, Owning, InWake, InFlight, Proc, At, CtlAt, registryVars, powerVars, procVars, controllerVars, enforceVars
<1>5. ASSUME NEW h \in Handler, TouchNode(h) PROVE TypeInv'
  BY <1>5, NamesAssumption
  DEF TypeInv, TypeOK, TouchNode, Pc, Attempt, Owning, InWake, InFlight, Proc, At, CtlAt, registryVars, powerVars, procVars, controllerVars, enforceVars
<1>6. ASSUME NEW h \in Handler, DecLoad(h) PROVE TypeInv'
  BY <1>6, NamesAssumption
  DEF TypeInv, TypeOK, DecLoad, Pc, Attempt, Owning, InWake, InFlight, Proc, At, CtlAt, registryVars, powerVars, procVars, controllerVars, enforceVars
<1>7. ASSUME NEW p \in Proc, AlreadyActive(p) PROVE TypeInv'
  <2>1. /\ Return({p}, TRUE) /\ pc[p] \notin {"idle", "done"}
        /\ UNCHANGED <<registryVars, powerVars, controllerVars, enforceVars>>
        /\ alive' \in BOOLEAN
    BY <1>7 DEF AlreadyActive, At, TypeInv, TypeOK
  <2>2. {p} \in SUBSET Proc
    OBVIOUS
  <2> QED
    BY <2>1, <2>2, ReturnKeepsTypeInv
<1>8. ASSUME NEW p \in Proc, Follow(p) PROVE TypeInv'
  BY <1>8, NamesAssumption
  DEF TypeInv, TypeOK, Follow, Pc, Attempt, Owning, InWake, InFlight, At, CtlAt, registryVars, powerVars, procVars, controllerVars, enforceVars
<1>9. ASSUME NEW p \in Proc, NilActivation(p) PROVE TypeInv'
  <2>1. /\ Return({p}, FALSE) /\ pc[p] \notin {"idle", "done"}
        /\ UNCHANGED <<registryVars, powerVars, controllerVars, enforceVars>>
    BY <1>9 DEF NilActivation, At
  <2>2. {p} \in SUBSET Proc
    OBVIOUS
  <2>3. alive' \in BOOLEAN
    <3>1. alive' = (p \in Handler)
      BY <1>9 DEF NilActivation
    <3>2. (p \in Handler) \in BOOLEAN
      OBVIOUS
    <3> QED
      BY <3>1, <3>2
  <2> QED
    BY <2>1, <2>2, <2>3, ReturnKeepsTypeInv
<1>10. ASSUME NEW p \in Proc, BeginWake(p) PROVE TypeInv'
  BY <1>10, NamesAssumption
  DEF TypeInv, TypeOK, BeginWake, Pc, Attempt, Owning, InWake, InFlight, NodeStatus, Node, At, CtlAt, registryVars, powerVars, procVars, controllerVars, enforceVars
<1>11. ASSUME NEW p \in Proc, PowerOn(p) PROVE TypeInv'
  <2>1. PICK err \in RelayError : Switch(target[p], TRUE, err)
    BY <1>11 DEF PowerOn, SwitchOn
  <2>2. target[p] \in Worker /\ RelayError \subseteq BOOLEAN
    BY <1>11 DEF PowerOn, At, TypeInv, Attempt, Owning, InWake, RelayError
  <2>3. machine' \in [Worker -> Machine] /\ astray' \in SUBSET Worker
    BY <2>1, <2>2, SwitchTypes DEF TypeInv
  <2> QED
    BY <1>11, <2>3, NamesAssumption
    DEF TypeInv, TypeOK, PowerOn, RelayError, Pc, Attempt, Owning, InWake, InFlight, Machine, Verdict, At, CtlAt, registryVars, powerVars, procVars, controllerVars, enforceVars
<1>12. ASSUME NEW p \in Proc, NEW answers \in BOOLEAN, NodeReady(p, answers) PROVE TypeInv'
  BY <1>12, NamesAssumption
  DEF TypeInv, TypeOK, NodeReady, Pc, Attempt, Owning, InWake, InFlight, Verdict, At, CtlAt, registryVars, powerVars, procVars, controllerVars, enforceVars
<1>13. ASSUME NEW p \in Proc, NEW ok \in BOOLEAN, DeployFunctions(p, ok) PROVE TypeInv'
  BY <1>13, NamesAssumption
  DEF TypeInv, TypeOK, DeployFunctions, Pc, Attempt, Owning, InWake, InFlight, Machine, Verdict, At, CtlAt, registryVars, powerVars, procVars, controllerVars, enforceVars
<1>14. ASSUME NEW p \in Proc, PowerOffFailed(p) PROVE TypeInv'
  <2>1. PICK err \in RelayError : Switch(target[p], FALSE, err)
    BY <1>14 DEF PowerOffFailed, SwitchOff
  <2>2. target[p] \in Worker /\ RelayError \subseteq BOOLEAN
    BY <1>14 DEF PowerOffFailed, At, TypeInv, Attempt, Owning, InWake, RelayError
  <2>3. machine' \in [Worker -> Machine] /\ astray' \in SUBSET Worker
    BY <2>1, <2>2, SwitchTypes DEF TypeInv
  <2> QED
    BY <1>14, <2>3, NamesAssumption
    DEF TypeInv, TypeOK, PowerOffFailed, RelayError, Pc, Attempt, Owning, InWake, InFlight, Machine, Verdict, At, CtlAt, registryVars, powerVars, procVars, controllerVars, enforceVars
<1>15. ASSUME NEW p \in Proc, SetFinal(p) PROVE TypeInv'
  BY <1>15, NamesAssumption
  DEF TypeInv, TypeOK, SetFinal, Pc, Attempt, Owning, InWake, InFlight, NodeStatus, Verdict, At, CtlAt, registryVars, powerVars, procVars, controllerVars, enforceVars
<1>16. ASSUME NEW p \in Proc, DropActivation(p) PROVE TypeInv'
  BY <1>16, NamesAssumption
  DEF TypeInv, TypeOK, DropActivation, Pc, Attempt, Owning, InWake, InFlight, At, CtlAt, registryVars, powerVars, procVars, controllerVars, enforceVars
<1>17. ASSUME NEW p \in Proc, CloseActivation(p) PROVE TypeInv'
  <2> DEFINE S == {p} \cup {q \in Proc : waitsOn[q] = p}
  <2>1. /\ Return(S, verdict[p] = "active")
        /\ \A q \in S : pc[q] \notin {"idle", "done"}
        /\ UNCHANGED <<registryVars, powerVars, controllerVars, enforceVars, alive>>
    BY <1>17, NamesAssumption DEF CloseActivation, At, Proc, Node, TypeInv, TypeOK
  <2>2. S \in SUBSET Proc /\ (verdict[p] = "active") \in BOOLEAN
    OBVIOUS
  <2>3. alive' \in BOOLEAN
    BY <2>1 DEF TypeInv, TypeOK
  <2> QED
    BY <2>1, <2>2, <2>3, ReturnKeepsTypeInv
<1>18. ASSUME NEW p \in Proc, TimeOut(p) PROVE TypeInv'
  <2>1. /\ Return({p}, FALSE) /\ pc[p] \notin {"idle", "done"}
        /\ UNCHANGED <<registryVars, powerVars, controllerVars, enforceVars>>
        /\ alive' \in BOOLEAN
    BY <1>18 DEF TimeOut, At, TypeInv, TypeOK
  <2>2. {p} \in SUBSET Proc
    OBVIOUS
  <2> QED
    BY <2>1, <2>2, ReturnKeepsTypeInv
<1>19. ASSUME CtlTick PROVE TypeInv'
  BY <1>19, NamesAssumption
  DEF TypeInv, TypeOK, CtlTick, InState, Node, At, CtlAt, registryVars, powerVars, procVars, controllerVars, enforceVars
<1>20. ASSUME NEW n \in Worker, CtlHealthy(n) PROVE TypeInv'
  BY <1>20, NamesAssumption
  DEF TypeInv, TypeOK, CtlHealthy, CtlRestoreAs, At, CtlAt, registryVars, powerVars, procVars, controllerVars, enforceVars
<1>21. ASSUME NEW n \in Worker, CtlRetry(n) PROVE TypeInv'
  BY <1>21, NamesAssumption
  DEF TypeInv, TypeOK, CtlRetry, CtlRestoreAs, At, CtlAt, registryVars, powerVars, procVars, controllerVars, enforceVars
<1>22. ASSUME NEW n \in Worker, CtlLeave(n) PROVE TypeInv'
  BY <1>22, NamesAssumption
  DEF TypeInv, TypeOK, CtlLeave, At, CtlAt, registryVars, powerVars, procVars, controllerVars, enforceVars
<1>23. ASSUME CtlRestore PROVE TypeInv'
  BY <1>23, NamesAssumption
  DEF TypeInv, TypeOK, CtlRestore, NodeStatus, Node, At, CtlAt, registryVars, powerVars, procVars, controllerVars, enforceVars
<1>24. ASSUME CtlSnapshot PROVE TypeInv'
  BY <1>24, NamesAssumption, ActiveExecutorsFinite
  DEF TypeInv, TypeOK, CtlSnapshot, At, CtlAt, registryVars, powerVars, procVars, controllerVars, enforceVars
<1>25. ASSUME NEW n \in Worker, CtlKeep(n) PROVE TypeInv'
  BY <1>25, NamesAssumption
  DEF TypeInv, TypeOK, CtlKeep, At, CtlAt, registryVars, powerVars, procVars, controllerVars, enforceVars
<1>26. ASSUME NEW n \in Worker, CtlChoose(n) PROVE TypeInv'
  BY <1>26, NamesAssumption
  DEF TypeInv, TypeOK, CtlChoose, At, CtlAt, registryVars, powerVars, procVars, controllerVars, enforceVars
<1>27. ASSUME CtlCut PROVE TypeInv'
  <2>1. PICK err \in RelayError : Switch(cnode, FALSE, err)
    BY <1>27 DEF CtlCut, SwitchOff
  <2>2. cnode \in Worker /\ RelayError \subseteq BOOLEAN
    BY <1>27 DEF CtlCut, CtlAt, TypeInv, RelayError
  <2>3. machine' \in [Worker -> Machine] /\ astray' \in SUBSET Worker
    BY <2>1, <2>2, SwitchTypes DEF TypeInv
  <2> QED
    BY <1>27, <2>3, NamesAssumption
    DEF TypeInv, TypeOK, CtlCut, RelayError, Machine, At, CtlAt, registryVars, powerVars, procVars, controllerVars, enforceVars
<1>28. ASSUME CtlMark PROVE TypeInv'
  BY <1>28, NamesAssumption
  DEF TypeInv, TypeOK, CtlMark, NodeStatus, Node, At, CtlAt, registryVars, powerVars, procVars, controllerVars, enforceVars
<1>29. ASSUME CtlEnd PROVE TypeInv'
  BY <1>29, NamesAssumption
  DEF TypeInv, TypeOK, CtlEnd, At, CtlAt, registryVars, powerVars, procVars, controllerVars, enforceVars
<1>30. ASSUME EnforceStart PROVE TypeInv'
  BY <1>30, NamesAssumption
  DEF TypeInv, TypeOK, EnforceStart, InState, At, CtlAt, registryVars, powerVars, procVars, controllerVars, enforceVars
<1>31. ASSUME NEW n \in Worker, EnforceOff(n) PROVE TypeInv'
  <2>1. PICK err \in RelayError : Switch(n, FALSE, err)
    BY <1>31 DEF EnforceOff, SwitchOff
  <2>2. n \in Worker /\ RelayError \subseteq BOOLEAN
    BY DEF RelayError
  <2>3. machine' \in [Worker -> Machine] /\ astray' \in SUBSET Worker
    BY <2>1, <2>2, SwitchTypes DEF TypeInv
  <2> QED
    BY <1>31, <2>3, NamesAssumption
    DEF TypeInv, TypeOK, EnforceOff, RelayError, Machine, At, CtlAt, registryVars, powerVars, procVars, controllerVars, enforceVars
<1>32. ASSUME NEW n \in Worker, Boot(n) PROVE TypeInv'
  BY <1>32, NamesAssumption
  DEF TypeInv, TypeOK, Boot, Machine, At, CtlAt, registryVars, powerVars, procVars, controllerVars, enforceVars
<1>33. ASSUME NEW n \in Worker, IdlePasses(n) PROVE TypeInv'
  BY <1>33, NamesAssumption
  DEF TypeInv, TypeOK, IdlePasses, At, CtlAt, registryVars, powerVars, procVars, controllerVars, enforceVars
<1>34. ASSUME NEW n \in Worker, SnapshotAges(n) PROVE TypeInv'
  BY <1>34, NamesAssumption
  DEF TypeInv, TypeOK, SnapshotAges, At, CtlAt, registryVars, powerVars, procVars, controllerVars, enforceVars
<1>35. CASE UNCHANGED vars
  BY <1>35 DEF TypeInv, TypeOK, vars, At, CtlAt, registryVars, powerVars, procVars, controllerVars, enforceVars, Pc, Attempt, Owning, InWake, InFlight
<1> QED
  BY <1>1, <1>2, <1>3, <1>4, <1>5, <1>6, <1>7, <1>8, <1>9, <1>10, <1>11, <1>12, <1>13, <1>14, <1>15, <1>16, <1>17, <1>18, <1>19, <1>20, <1>21, <1>22, <1>23, <1>24, <1>25, <1>26, <1>27, <1>28, <1>29, <1>30, <1>31, <1>32, <1>33, <1>34, <1>35
  DEF Next, Arrive, Serving, Account, Activation, Controller, Recovery, ScaleDownScan,
      Enforce, Environment, Crashed

\* A step of a wake moves no other machine, unless that is astray, and goes on
\* with the wake only while its own is not.
LEMMA WakeStrays ==
  ASSUME TypeInv, NEW p \in Proc, target[p] \in Worker,
         \/ PowerOn(p) \/ PowerOffFailed(p)
         \/ \E answers \in BOOLEAN : NodeReady(p, answers)
         \/ \E ok \in BOOLEAN : DeployFunctions(p, ok)
  PROVE  /\ \A n \in Worker \ {target[p]} :
              n \notin astray => machine'[n] = machine[n] /\ n \notin astray'
         /\ (Relying(p) => target[p] \notin astray)
              => (Relying(p)' => target[p] \notin astray')
<1> TypeOK
  BY DEF TypeInv
<1>1. CASE PowerOn(p)
  <2>1. PICK err \in RelayError :
          /\ Switch(target[p], TRUE, err)
          /\ pc' = [pc EXCEPT ![p] = IF err THEN "setfinal" ELSE "ready"]
          /\ verdict' = [verdict EXCEPT ![p] = IF err THEN "dead" ELSE @]
    BY <1>1 DEF PowerOn, SwitchOn
  <2>2. err \in BOOLEAN
    BY DEF RelayError
  <2>3. /\ ~err => target[p] \notin astray'
        /\ \A n \in Worker \ {target[p]} :
             n \notin astray => machine'[n] = machine[n] /\ n \notin astray'
    BY <2>1, <2>2, SwitchReach
  <2>4. Relying(p)' => ~err
    BY <2>1 DEF Relying, TypeOK
  <2> QED
    BY <2>3, <2>4
<1>2. CASE PowerOffFailed(p)
  <2>1. PICK err \in RelayError :
          /\ Switch(target[p], FALSE, err)
          /\ verdict' = [verdict EXCEPT ![p] = IF err THEN "dead" ELSE "sleeping"]
    BY <1>2 DEF PowerOffFailed, SwitchOff
  <2>2. err \in BOOLEAN
    BY DEF RelayError
  <2>3. \A n \in Worker \ {target[p]} :
          n \notin astray => machine'[n] = machine[n] /\ n \notin astray'
    BY <2>1, <2>2, SwitchReach
  <2>4. ~Relying(p)'
    BY <1>2, <2>1 DEF PowerOffFailed, Relying, TypeOK
  <2> QED
    BY <2>3, <2>4
<1>3. CASE \E answers \in BOOLEAN : NodeReady(p, answers)
  BY <1>3 DEF NodeReady, At, Relying, powerVars, TypeOK
<1>4. CASE \E ok \in BOOLEAN : DeployFunctions(p, ok)
  BY <1>4 DEF DeployFunctions, At, Relying, TypeOK
<1> QED
  BY <1>1, <1>2, <1>3, <1>4

\* Every state of the registry is well typed, whatever the cluster.
THEOREM TypeCorrect == Spec => []TypeOK
<1>1. Spec => []TypeInv
  BY TypeInvInit, TypeInvNext, PTL DEF Spec
<1>2. TypeInv => TypeOK
  BY DEF TypeInv
<1> QED
  BY <1>1, <1>2, PTL

-------------------------------------------------------------------------------
(***************************************************************************)
(* The single-flight activation.  What r.activations holds is an attempt    *)
(* for that node which has not yet reached its delete; the converse fails,  *)
(* because delete drops whatever the map holds (see FollowersFindActivation *)
(* in RegistryProperties).  Followers are safe all the same: they hold the  *)
(* attempt itself, which its owner closes.                                  *)
(***************************************************************************)
ActivationsOwned ==
  \A n \in Node : activations[n] # NoOne =>
    pc[activations[n]] \in Owning /\ target[activations[n]] = n

FlightInv == ActivationsOwned /\ FollowersHaveWaker /\ WakingHasWaker

LEMMA FlightInvInit == Init => FlightInv
  BY NamesAssumption
  DEF Init, FlightInv, ActivationsOwned, FollowersHaveWaker, WakingHasWaker, Proc

\* A node is being woken when some process is in one of the phases of a wake.
LEMMA WakersExist ==
  ASSUME NEW n \in Node
  PROVE  Wakers(n) # {} <=> \E p \in Proc : pc[p] \in InWake /\ target[p] = n
  BY DEF Wakers

\* The steps that leave alone whatever a wake is about.
LEMMA FlightInvStutter ==
  ASSUME FlightInv, UNCHANGED <<status, activations, pc, target, waitsOn>>
  PROVE  FlightInv'
  BY DEF FlightInv, ActivationsOwned, FollowersHaveWaker, WakingHasWaker, Wakers

\* The steps of requests that are not waking, waiting or waited for.
LEMMA FlightInvBystander ==
  ASSUME TypeInv, FlightInv, NEW h \in Proc,
         pc[h] \notin Attempt, pc'[h] \notin Attempt \cup {"wait"},
         pc' \in [Proc -> Pc],
         \A q \in Proc \ {h} : /\ pc'[q] = pc[q] /\ target'[q] = target[q]
                               /\ waitsOn'[q] = waitsOn[q],
         UNCHANGED <<status, activations>>
  PROVE  FlightInv'
<1> USE NamesAssumption DEF TypeInv, TypeOK
<1>1. ActivationsOwned'
  BY DEF FlightInv, ActivationsOwned, Attempt
<1>2. FollowersHaveWaker'
  BY DEF FlightInv, FollowersHaveWaker
<1>3. WakingHasWaker'
  <2> SUFFICES ASSUME NEW n \in Node, status'[n] = "waking" PROVE Wakers(n)' # {}
    BY DEF WakingHasWaker
  <2>1. PICK p \in Proc : pc[p] \in InWake /\ target[p] = n
    BY WakersExist DEF FlightInv, WakingHasWaker
  <2>2. p # h
    BY <2>1 DEF Attempt, Owning
  <2> QED
    BY <2>1, <2>2 DEF Wakers
<1> QED
  BY <1>1, <1>2, <1>3 DEF FlightInv

\* A wake that goes on to its next phase.
LEMMA FlightInvWakeMove ==
  ASSUME TypeInv, FlightInv, NEW p \in Proc, NEW s \in InWake,
         pc[p] \in InWake, pc' = [pc EXCEPT ![p] = s],
         UNCHANGED <<status, activations, target, waitsOn>>
  PROVE  FlightInv'
<1> USE NamesAssumption DEF TypeInv, TypeOK
<1>1. ActivationsOwned'
  BY DEF FlightInv, ActivationsOwned, Owning
<1>2. FollowersHaveWaker'
  BY DEF FlightInv, FollowersHaveWaker, Attempt, Owning, InWake
<1>3. WakingHasWaker'
  <2> SUFFICES ASSUME NEW n \in Node, status'[n] = "waking" PROVE Wakers(n)' # {}
    BY DEF WakingHasWaker
  <2>1. PICK q \in Proc : pc[q] \in InWake /\ target[q] = n
    BY WakersExist DEF FlightInv, WakingHasWaker
  <2>2. pc'[q] \in InWake /\ target'[q] = n
    BY <2>1
  <2> QED
    BY <2>2 DEF Wakers
<1> QED
  BY <1>1, <1>2, <1>3 DEF FlightInv

\* The controller may take the label "waking" away, never put it there.
LEMMA FlightInvRelabel ==
  ASSUME TypeInv, FlightInv, NEW n \in Worker, NEW s \in NodeStatus \ {"waking"},
         status' = [status EXCEPT ![n] = s],
         UNCHANGED <<activations, pc, target, waitsOn>>
  PROVE  FlightInv'
<1> USE DEF TypeInv, TypeOK, FlightInv
<1>1. ActivationsOwned' /\ FollowersHaveWaker'
  BY DEF ActivationsOwned, FollowersHaveWaker
<1>2. \A m \in Node : status'[m] = "waking" => status[m] = "waking"
  OBVIOUS
<1>3. \A m \in Node : Wakers(m)' = Wakers(m)
  BY DEF Wakers
<1>4. WakingHasWaker'
  BY <1>2, <1>3 DEF WakingHasWaker
<1> QED
  BY <1>1, <1>4

\* BeginWake overwrites what r.activations holds for the node, which loses an
\* attempt only from the map: its followers keep it.
LEMMA FlightInvBeginWake ==
  ASSUME TypeInv, FlightInv, NEW p \in Proc, BeginWake(p)
  PROVE  FlightInv'
<1> USE NamesAssumption DEF TypeInv, TypeOK, BeginWake, At
<1>1. ActivationsOwned'
  BY DEF FlightInv, ActivationsOwned, Attempt, Owning, InWake
<1>2. FollowersHaveWaker'
  BY DEF FlightInv, FollowersHaveWaker, Attempt, Owning, InWake
<1>3. ASSUME NEW n \in Node, status'[n] = "waking" PROVE Wakers(n)' # {}
  <2>1. CASE n = target[p]
    <3>1. pc'[p] \in InWake /\ target'[p] = n
      BY <2>1 DEF InWake
    <3> QED
      BY <3>1 DEF Wakers
  <2>2. CASE n # target[p]
    <3>1. PICK q \in Proc : pc[q] \in InWake /\ target[q] = n
      BY <1>3, <2>2, WakersExist DEF FlightInv, WakingHasWaker
    <3>2. pc'[q] \in InWake /\ target'[q] = n
      BY <3>1 DEF InWake
    <3> QED
      BY <3>2 DEF Wakers
  <2> QED
    BY <2>1, <2>2
<1> QED
  BY <1>1, <1>2, <1>3 DEF FlightInv, WakingHasWaker

\* SetStatus at the end of wakeNode takes the label away with the waker.
LEMMA FlightInvSetFinal ==
  ASSUME TypeInv, FlightInv, NEW p \in Proc, SetFinal(p)
  PROVE  FlightInv'
<1> USE NamesAssumption DEF TypeInv, TypeOK, SetFinal, At
<1>1. ActivationsOwned'
  BY DEF FlightInv, ActivationsOwned, Attempt, Owning, InWake
<1>2. FollowersHaveWaker'
  BY DEF FlightInv, FollowersHaveWaker, Attempt, Owning, InWake
<1>3. ASSUME NEW n \in Node, status'[n] = "waking" PROVE Wakers(n)' # {}
  <2>1. n # target[p]
    BY <1>3 DEF Verdict
  <2>2. PICK q \in Proc : pc[q] \in InWake /\ target[q] = n
    BY <1>3, <2>1, WakersExist DEF FlightInv, WakingHasWaker
  <2>3. pc'[q] \in InWake /\ target'[q] = n
    BY <2>1, <2>2
  <2> QED
    BY <2>3 DEF Wakers
<1> QED
  BY <1>1, <1>2, <1>3 DEF FlightInv, WakingHasWaker

\* delete(r.activations, id): the owner has still to close its attempt.
LEMMA FlightInvDrop ==
  ASSUME TypeInv, FlightInv, NEW p \in Proc, DropActivation(p)
  PROVE  FlightInv'
<1> USE NamesAssumption DEF TypeInv, TypeOK, DropActivation, At
<1>1. ActivationsOwned'
  BY DEF FlightInv, ActivationsOwned, Attempt, Owning, InWake
<1>2. FollowersHaveWaker'
  BY DEF FlightInv, FollowersHaveWaker, Attempt, Owning, InWake
<1>3. \A n \in Node : Wakers(n)' = Wakers(n)
  BY DEF Wakers, InWake
<1> QED
  BY <1>1, <1>2, <1>3 DEF FlightInv, WakingHasWaker

\* close(act.done): the owner and all of its followers return together.
LEMMA FlightInvClose ==
  ASSUME TypeInv, FlightInv, NEW p \in Proc, CloseActivation(p)
  PROVE  FlightInv'
<1> USE NamesAssumption DEF TypeInv, TypeOK
<1> DEFINE S == {p} \cup {q \in Proc : waitsOn[q] = p}
<1>1. \A q \in S : pc[q] \in {"close", "wait"}
  BY DEF CloseActivation, At, Proc, Node
<1>2. \A q \in Proc \ S : pc'[q] = pc[q] /\ target'[q] = target[q] /\ waitsOn'[q] = waitsOn[q]
  BY DEF CloseActivation, Return
<1>3. \A q \in S : pc'[q] \in {"done", "inc", "idle"}
  BY DEF CloseActivation, Return, AfterActivation, Proc
<1>4. UNCHANGED <<status, activations>>
  BY DEF CloseActivation, registryVars
<1>5. ActivationsOwned'
  BY <1>1, <1>2, <1>4 DEF FlightInv, ActivationsOwned, Owning, InWake
<1>6. FollowersHaveWaker'
  <2> SUFFICES ASSUME NEW f \in Proc, pc'[f] = "wait"
               PROVE  /\ waitsOn'[f] \in Proc
                      /\ pc'[waitsOn'[f]] \in Attempt
                      /\ target'[waitsOn'[f]] = target'[f]
    BY DEF FollowersHaveWaker
  <2>1. f \notin S
    BY <1>3
  <2>2. /\ pc[f] = "wait" /\ waitsOn'[f] = waitsOn[f] /\ target'[f] = target[f]
        /\ waitsOn[f] # p
    BY <1>2, <2>1
  <2>3. /\ waitsOn[f] \in Proc /\ pc[waitsOn[f]] \in Attempt
        /\ target[waitsOn[f]] = target[f]
    BY <2>2 DEF FlightInv, FollowersHaveWaker
  <2>4. waitsOn[f] \notin S
    BY <2>2, <2>3, NamesAssumption DEF Attempt, Owning, InWake, Proc, Node
  <2> QED
    BY <1>2, <2>2, <2>3, <2>4
<1>7. \A n \in Node : Wakers(n) \subseteq Wakers(n)'
  BY <1>1, <1>2 DEF Wakers, InWake
<1> QED
  BY <1>4, <1>5, <1>6, <1>7 DEF FlightInv, WakingHasWaker

\* A request that finds its node waking joins the attempt the map holds.
LEMMA FlightInvFollow ==
  ASSUME TypeInv, FlightInv, NEW p \in Proc, Follow(p)
  PROVE  FlightInv'
<1> USE NamesAssumption DEF TypeInv, TypeOK, Follow, At, registryVars
<1>1. ActivationsOwned'
  BY DEF FlightInv, ActivationsOwned, Owning, InWake
<1>2. FollowersHaveWaker'
  BY DEF FlightInv, FollowersHaveWaker, ActivationsOwned, Attempt, Owning, InWake
<1>3. \A n \in Node : Wakers(n)' = Wakers(n)
  BY DEF Wakers, InWake
<1> QED
  BY <1>1, <1>2, <1>3 DEF FlightInv, WakingHasWaker

LEMMA FlightInvNext == TypeInv /\ TypeInv' /\ FlightInv /\ [Next]_vars => FlightInv'
<1> SUFFICES ASSUME TypeInv, TypeInv', FlightInv, [Next]_vars PROVE FlightInv'
  OBVIOUS
<1>1. ASSUME NEW h \in Handler,
             \/ \E n \in Executors : Pick(h, n)
             \/ IncLoad(h) \/ TouchNode(h) \/ DecLoad(h)
             \/ \E ok \in BOOLEAN : Serve(h, ok)
      PROVE  FlightInv'
  <2>1. /\ h \in Proc /\ pc' \in [Proc -> Pc]
        /\ UNCHANGED <<status, activations>>
    BY <1>1 DEF Pick, IncLoad, TouchNode, DecLoad, Serve, registryVars, Proc, TypeInv, TypeOK
  <2>2. pc[h] \notin Attempt /\ pc'[h] \notin Attempt \cup {"wait"}
    BY <1>1, <2>1 DEF Pick, IncLoad, TouchNode, DecLoad, Serve, At, Attempt, Owning,
                      InWake, TypeInv, TypeOK
  <2>3. \A q \in Proc \ {h} : pc'[q] = pc[q] /\ target'[q] = target[q] /\ waitsOn'[q] = waitsOn[q]
    BY <1>1 DEF Pick, IncLoad, TouchNode, DecLoad, Serve, TypeInv, TypeOK
  <2> QED
    BY <2>1, <2>2, <2>3, FlightInvBystander
<1>2. ASSUME NEW p \in Proc, AlreadyActive(p) \/ NilActivation(p) \/ TimeOut(p)
      PROVE  FlightInv'
  <2>1. PICK ok \in BOOLEAN : Return({p}, ok)
    BY <1>2 DEF AlreadyActive, NilActivation, TimeOut
  <2>2. pc[p] \in {"activate", "wait"} /\ UNCHANGED <<status, activations>>
    BY <1>2 DEF AlreadyActive, NilActivation, TimeOut, At, registryVars
  <2>3. pc'[p] \in {"done", "inc", "idle"}
    BY <2>1 DEF Return, AfterActivation, Proc
  <2>4. \A q \in Proc \ {p} : pc'[q] = pc[q] /\ target'[q] = target[q] /\ waitsOn'[q] = waitsOn[q]
    BY <2>1 DEF Return
  <2>5. pc[p] \notin Attempt /\ pc'[p] \notin Attempt \cup {"wait"} /\ pc' \in [Proc -> Pc]
    BY <2>2, <2>3 DEF Attempt, Owning, InWake, TypeInv, TypeOK
  <2> QED
    BY <2>2, <2>4, <2>5, FlightInvBystander
<1>3. ASSUME NEW p \in Proc,
             \/ PowerOn(p) \/ PowerOffFailed(p)
             \/ \E answers \in BOOLEAN : NodeReady(p, answers)
             \/ \E ok \in BOOLEAN : DeployFunctions(p, ok)
      PROVE  FlightInv'
  <2>1. /\ pc[p] \in InWake
        /\ \E s \in InWake : pc' = [pc EXCEPT ![p] = s]
        /\ UNCHANGED <<status, activations, target, waitsOn>>
    BY <1>3 DEF PowerOn, PowerOffFailed, NodeReady, DeployFunctions, At, InWake, registryVars
  <2> QED
    BY <2>1, FlightInvWakeMove
<1>4. ASSUME NEW p \in Proc,
             \/ BeginWake(p) \/ SetFinal(p) \/ DropActivation(p)
             \/ CloseActivation(p) \/ Follow(p)
      PROVE  FlightInv'
  BY <1>4, FlightInvBeginWake, FlightInvSetFinal, FlightInvDrop, FlightInvClose, FlightInvFollow
<1>5. CASE CtlRestore \/ CtlMark
  <2>1. /\ cnode \in Worker
        /\ \E s \in NodeStatus \ {"waking"} : status' = [status EXCEPT ![cnode] = s]
        /\ UNCHANGED <<activations, pc, target, waitsOn>>
    BY <1>5 DEF CtlRestore, CtlMark, CtlAt, TypeInv, TypeOK, NodeStatus, procVars
  <2> QED
    BY <2>1, FlightInvRelabel
<1>6. CASE CtlTick \/ CtlSnapshot \/ CtlCut \/ CtlEnd \/ Enforce \/ Environment
  BY <1>6, FlightInvStutter
  DEF CtlTick, CtlSnapshot, CtlCut, CtlEnd, Enforce, EnforceStart, EnforceOff, Environment,
      Boot, IdlePasses, SnapshotAges, registryVars, powerVars, procVars
<1>7. ASSUME NEW n \in Worker,
             CtlHealthy(n) \/ CtlRetry(n) \/ CtlLeave(n) \/ CtlKeep(n) \/ CtlChoose(n)
      PROVE  FlightInv'
  BY <1>7, FlightInvStutter
  DEF CtlHealthy, CtlRetry, CtlRestoreAs, CtlLeave, CtlKeep, CtlChoose, registryVars, powerVars, procVars
<1>8. CASE UNCHANGED vars
  BY <1>8, FlightInvStutter DEF vars, registryVars, powerVars, procVars
<1> QED
  BY <1>1, <1>2, <1>3, <1>4, <1>5, <1>6, <1>7, <1>8
  DEF Next, Arrive, Unavailable, Serving, Account, Activation, Controller, Recovery,
      ScaleDownScan, Crashed

\* The single-flight invariant holds throughout, whatever relays, machines and
\* the controller do.
LEMMA FlightAlways == Spec => []FlightInv
<1>1. Init => TypeInv /\ FlightInv
  BY TypeInvInit, FlightInvInit
<1>2. TypeInv /\ FlightInv /\ [Next]_vars => TypeInv' /\ FlightInv'
  BY TypeInvNext, FlightInvNext
<1> QED
  BY <1>1, <1>2, PTL DEF Spec

\* A request that waits in ActivateNode waits for an attempt that is still
\* going to close the channel, on the node it wants.
THEOREM SingleFlight == Spec => []FollowersHaveWaker
<1>1. FlightInv => FollowersHaveWaker
  BY DEF FlightInv
<1> QED
  BY FlightAlways, <1>1, PTL

\* A node recorded as waking is being woken by someone, whatever the
\* controller and EnforceSleeping write into its status meanwhile.
THEOREM WakingIsDriven == Spec => []WakingHasWaker
<1>1. FlightInv => WakingHasWaker
  BY DEF FlightInv
<1> QED
  BY FlightAlways, <1>1, PTL

-------------------------------------------------------------------------------
(***************************************************************************)
(* Load accounting: the load of a node is the number of requests on it.     *)
(***************************************************************************)
LEMMA LoadInvInit == Init => LoadMatchesInFlight
<1> SUFFICES ASSUME Init, NEW n \in Node PROVE load[n] = Cardinality(InFlightOn(n))
  BY DEF LoadMatchesInFlight
<1>1. InFlightOn(n) = {}
  BY DEF Init, InFlightOn, InFlight, Proc
<1> QED
  BY <1>1, FS_EmptySet DEF Init

\* A step after which the same requests are in flight, for each node.
LEMMA LoadInvSame ==
  ASSUME LoadMatchesInFlight, load' = load,
         \A h \in Handler : \/ pc'[h] = pc[h] /\ target'[h] = target[h]
                            \/ pc[h] \notin InFlight /\ pc'[h] \notin InFlight
                            \/ /\ pc[h] \in InFlight /\ pc'[h] \in InFlight
                               /\ target'[h] = target[h]
  PROVE  LoadMatchesInFlight'
<1>1. \A n \in Node : InFlightOn(n)' = InFlightOn(n)
  BY DEF InFlightOn
<1> QED
  BY <1>1 DEF LoadMatchesInFlight

LEMMA InFlightFinite == ASSUME NEW n \in Node PROVE IsFiniteSet(InFlightOn(n))
  BY FiniteAssumption, FS_Subset DEF InFlightOn

LEMMA LoadInvIncLoad ==
  ASSUME TypeInv, LoadMatchesInFlight, NEW h \in Handler, IncLoad(h)
  PROVE  LoadMatchesInFlight'
<1> SUFFICES ASSUME NEW n \in Node PROVE load'[n] = Cardinality(InFlightOn(n)')
  BY DEF LoadMatchesInFlight
<1>1. h \in Proc /\ pc[h] = "inc" /\ pc' = [pc EXCEPT ![h] = "serve"] /\ target' = target
  BY DEF IncLoad, At, Proc
<1>2. CASE n = target[h]
  <2>1. h \notin InFlightOn(n) /\ InFlightOn(n)' = InFlightOn(n) \cup {h}
    BY <1>1, <1>2 DEF InFlightOn, InFlight, TypeInv, TypeOK, Proc
  <2>2. Cardinality(InFlightOn(n) \cup {h}) = Cardinality(InFlightOn(n)) + 1
    BY <2>1, InFlightFinite, FS_AddElement
  <2> QED
    BY <1>2, <2>1, <2>2 DEF IncLoad, LoadMatchesInFlight, TypeInv, TypeOK
<1>3. CASE n # target[h]
  <2>1. InFlightOn(n)' = InFlightOn(n)
    BY <1>1, <1>3 DEF InFlightOn, InFlight, TypeInv, TypeOK, Proc
  <2> QED
    BY <1>3, <2>1 DEF IncLoad, LoadMatchesInFlight, TypeInv, TypeOK
<1> QED
  BY <1>2, <1>3

\* DecLoad finds a load of at least one: the request itself.
LEMMA LoadInvDecLoad ==
  ASSUME TypeInv, LoadMatchesInFlight, NEW h \in Handler, DecLoad(h)
  PROVE  LoadMatchesInFlight'
<1> SUFFICES ASSUME NEW n \in Node PROVE load'[n] = Cardinality(InFlightOn(n)')
  BY DEF LoadMatchesInFlight
<1>1. /\ h \in Proc /\ pc[h] = "dec" /\ pc' = [pc EXCEPT ![h] = "idle"]
      /\ target' = [target EXCEPT ![h] = NoOne]
  BY DEF DecLoad, At, Proc
<1>2. CASE n = target[h]
  <2>1. h \in InFlightOn(n) /\ InFlightOn(n)' = InFlightOn(n) \ {h}
    BY <1>1, <1>2 DEF InFlightOn, InFlight, TypeInv, TypeOK, Proc
  <2>2. /\ Cardinality(InFlightOn(n) \ {h}) = Cardinality(InFlightOn(n)) - 1
        /\ Cardinality(InFlightOn(n)) > 0
    <3>1. IsFiniteSet(InFlightOn(n)) /\ Cardinality(InFlightOn(n)) \in Nat
      BY InFlightFinite, FS_CardinalityType
    <3>2. Cardinality(InFlightOn(n)) # 0
      BY <2>1, <3>1, FS_EmptySet
    <3> QED
      BY <2>1, <3>1, <3>2, FS_RemoveElement
  <2> QED
    BY <1>2, <2>1, <2>2 DEF DecLoad, LoadMatchesInFlight, TypeInv, TypeOK
<1>3. CASE n # target[h]
  <2>1. InFlightOn(n)' = InFlightOn(n)
    BY <1>1, <1>3, NamesAssumption DEF InFlightOn, InFlight, TypeInv, TypeOK, Proc
  <2> QED
    BY <1>3, <2>1 DEF DecLoad, LoadMatchesInFlight, TypeInv, TypeOK
<1> QED
  BY <1>2, <1>3

LEMMA LoadInvNext == TypeInv /\ LoadMatchesInFlight /\ [Next]_vars => LoadMatchesInFlight'
<1> SUFFICES ASSUME TypeInv, LoadMatchesInFlight, [Next]_vars PROVE LoadMatchesInFlight'
  OBVIOUS
<1>1. ASSUME NEW h \in Handler,
             \/ \E n \in Executors : Pick(h, n)
             \/ \E ok \in BOOLEAN : Serve(h, ok)
             \/ TouchNode(h)
      PROVE  LoadMatchesInFlight'
  <2>1. /\ h \in Proc /\ load' = load
        /\ \/ pc[h] \notin InFlight /\ pc'[h] \notin InFlight
           \/ pc[h] \in InFlight /\ pc'[h] \in InFlight /\ target'[h] = target[h]
    BY <1>1 DEF Pick, Serve, TouchNode, At, InFlight, registryVars, TypeInv, TypeOK, Proc
  <2>2. \A g \in Handler \ {h} : pc'[g] = pc[g] /\ target'[g] = target[g]
    BY <1>1 DEF Pick, Serve, TouchNode, TypeInv, TypeOK, Proc
  <2> QED
    BY <2>1, <2>2, LoadInvSame
<1>2. ASSUME NEW h \in Handler, IncLoad(h) \/ DecLoad(h)
      PROVE  LoadMatchesInFlight'
  BY <1>2, LoadInvIncLoad, LoadInvDecLoad
<1>3. ASSUME NEW p \in Proc,
             AlreadyActive(p) \/ NilActivation(p) \/ TimeOut(p) \/ CloseActivation(p)
      PROVE  LoadMatchesInFlight'
  <2>1. PICK S \in SUBSET Proc, ok \in BOOLEAN :
          Return(S, ok) /\ (S = {p} \/ S = {p} \cup {q \in Proc : waitsOn[q] = p})
    BY <1>3 DEF AlreadyActive, NilActivation, TimeOut, CloseActivation
  <2>2. load' = load /\ pc[p] \in {"activate", "wait", "close"}
    BY <1>3 DEF AlreadyActive, NilActivation, TimeOut, CloseActivation, At, registryVars
  <2>3. \A q \in S : pc[q] \notin InFlight
    BY <2>1, <2>2, NamesAssumption DEF TypeInv, InFlight, Proc, Node
  <2>4. \A q \in Proc : q \in S => pc'[q] \in {"done", "inc", "idle"}
    BY <2>1 DEF Return, AfterActivation, Proc
  <2>5. \A q \in Proc : q \notin S => pc'[q] = pc[q] /\ target'[q] = target[q]
    BY <2>1 DEF Return
  <2> QED
    BY <2>2, <2>3, <2>4, <2>5, LoadInvSame DEF InFlight, Proc
<1>4. ASSUME NEW p \in Proc,
             \/ Follow(p) \/ BeginWake(p) \/ PowerOn(p) \/ PowerOffFailed(p)
             \/ SetFinal(p) \/ DropActivation(p)
             \/ \E answers \in BOOLEAN : NodeReady(p, answers)
             \/ \E ok \in BOOLEAN : DeployFunctions(p, ok)
      PROVE  LoadMatchesInFlight'
  <2>1. /\ load' = load /\ target' = target /\ pc[p] \notin InFlight
        /\ \E s \in Pc \ InFlight : pc' = [pc EXCEPT ![p] = s]
    BY <1>4 DEF Follow, BeginWake, PowerOn, PowerOffFailed, SetFinal, DropActivation, NodeReady,
                DeployFunctions, At, Pc, InFlight, Attempt, Owning, InWake, registryVars
  <2>2. PICK s \in Pc \ InFlight : pc' = [pc EXCEPT ![p] = s]
    BY <2>1
  <2>3. \A q \in Proc : pc'[q] = IF q = p THEN s ELSE pc[q]
    BY <2>2 DEF TypeInv, TypeOK
  <2> QED
    BY <2>1, <2>3, LoadInvSame DEF Proc
<1>5. CASE \/ CtlTick \/ CtlRestore \/ CtlSnapshot \/ CtlCut \/ CtlMark \/ CtlEnd
           \/ Enforce \/ Environment
  BY <1>5, LoadInvSame
  DEF CtlTick, CtlRestore, CtlSnapshot, CtlCut, CtlMark, CtlEnd, Enforce, EnforceStart,
      EnforceOff, Environment, Boot, IdlePasses, SnapshotAges, registryVars, powerVars, procVars
<1>6. ASSUME NEW n \in Worker,
             CtlHealthy(n) \/ CtlRetry(n) \/ CtlLeave(n) \/ CtlKeep(n) \/ CtlChoose(n)
      PROVE  LoadMatchesInFlight'
  BY <1>6, LoadInvSame
  DEF CtlHealthy, CtlRetry, CtlRestoreAs, CtlLeave, CtlKeep, CtlChoose, registryVars, powerVars, procVars
<1>7. CASE UNCHANGED vars
  BY <1>7, LoadInvSame DEF vars, registryVars, powerVars, procVars
<1>8. ASSUME NEW h \in Handler, Arrive(h) \/ Serving(h) \/ Account(h)
      PROVE  LoadMatchesInFlight'
  <2>1. CASE Arrive(h)
    BY <2>1, <1>1, <1>7 DEF Arrive, Unavailable
  <2>2. CASE Serving(h)
    BY <2>2, <1>1 DEF Serving
  <2>3. CASE Account(h)
    BY <2>3, <1>1, <1>2 DEF Account
  <2> QED
    BY <1>8, <2>1, <2>2, <2>3
<1>9. ASSUME NEW p \in Proc, Activation(p) \/ TimeOut(p)
      PROVE  LoadMatchesInFlight'
  BY <1>9, <1>3, <1>4 DEF Activation
<1>10. CASE Controller
  BY <1>10, <1>5, <1>6 DEF Controller, Recovery, ScaleDownScan
<1> QED
  BY <1>5, <1>7, <1>8, <1>9, <1>10 DEF Next, Crashed

\* The load of a node is exactly the number of requests being served on it,
\* for any number of requests and however they end.
THEOREM LoadIsExact == Spec => []LoadMatchesInFlight
<1>1. Init => TypeInv /\ LoadMatchesInFlight
  BY TypeInvInit, LoadInvInit
<1>2. TypeInv /\ LoadMatchesInFlight /\ [Next]_vars => TypeInv' /\ LoadMatchesInFlight'
  BY TypeInvNext, LoadInvNext
<1> QED
  BY <1>1, <1>2, PTL DEF Spec
===============================================================================
