------------------------ MODULE RegistryBaselineProofs ------------------------
(***************************************************************************)
(* With power management disabled (the always-on baseline) nothing but      *)
(* wakeNode gives a node a status or moves a relay, so a node is woken by   *)
(* one process at a time and an active node has every function.             *)
(***************************************************************************)
EXTENDS RegistryProofs

(***************************************************************************)
(* A wake in progress keeps its node labelled waking, which keeps everyone  *)
(* else from starting another one; so nobody touches the machine between a  *)
(* successful deploy and the SetStatus that makes the node active, nor      *)
(* while it is active: not even a command for the other channel of its      *)
(* relay, which moves it only when it is astray.                            *)
(***************************************************************************)
BaselineInv ==
  /\ cpc = "sleep" /\ epc = "start"
  /\ \A p \in Proc : pc[p] \in InWake => status[target[p]] = "waking"
  /\ \A p \in Proc : \A q \in Proc :
       pc[p] \in InWake /\ pc[q] \in InWake /\ target[p] = target[q] => p = q
  /\ \A p \in Proc :
       pc[p] = "setfinal" /\ verdict[p] = "active" => machine[target[p]] = "ready"
  /\ \A p \in Proc : Relying(p) => target[p] \notin astray
  /\ \A n \in Worker : status[n] = "active" => n \notin astray
  /\ ActiveReady

LEMMA BaselineInvInit == Init => BaselineInv
  BY NamesAssumption DEF Init, BaselineInv, ActiveReady, Relying, InWake, Proc, Node

\* A process that is in no phase of a wake, before or after, and touches
\* neither a status nor a machine.
LEMMA BaselineBystanders ==
  ASSUME TypeInv, BaselineInv, NEW S \in SUBSET Proc,
         \A q \in S : pc'[q] \notin InWake,
         \A q \in Proc \ S : pc'[q] = pc[q] /\ target'[q] = target[q] /\ verdict'[q] = verdict[q],
         UNCHANGED <<status, machine, astray, cpc, epc>>
  PROVE  BaselineInv'
<1>1. \A q \in Proc : pc'[q] \in InWake => q \notin S /\ pc[q] \in InWake
  OBVIOUS
<1>2. \A p \in Proc : pc'[p] \in InWake => status'[target'[p]] = "waking"
  BY <1>1 DEF BaselineInv
<1>3. \A p \in Proc : \A q \in Proc :
        pc'[p] \in InWake /\ pc'[q] \in InWake /\ target'[p] = target'[q] => p = q
  BY <1>1 DEF BaselineInv
<1>4. \A p \in Proc :
        pc'[p] = "setfinal" /\ verdict'[p] = "active" => machine'[target'[p]] = "ready"
  BY <1>1 DEF BaselineInv, InWake
<1>5. ActiveReady'
  BY DEF BaselineInv, ActiveReady
<1>6. \A p \in Proc : Relying(p)' => target'[p] \notin astray'
  BY <1>1 DEF BaselineInv, Relying, InWake
<1>7. \A n \in Worker : status'[n] = "active" => n \notin astray'
  BY DEF BaselineInv
<1> QED
  BY <1>2, <1>3, <1>4, <1>5, <1>6, <1>7 DEF BaselineInv

\* A wake of p that goes on, to SetStatus only with a machine that fits its
\* verdict, and moves no machine but that of its own node and those astray.
LEMMA BaselineWakeMove ==
  ASSUME TypeInv, TypeInv', BaselineInv, NEW p \in Proc, NEW s \in InWake,
         pc[p] \in InWake, pc' = [pc EXCEPT ![p] = s],
         \A q \in Proc \ {p} : verdict'[q] = verdict[q],
         \A n \in Worker \ {target[p]} :
           n \notin astray => machine'[n] = machine[n] /\ n \notin astray',
         s = "setfinal" /\ verdict'[p] = "active" => machine'[target[p]] = "ready",
         Relying(p)' => target[p] \notin astray',
         UNCHANGED <<status, target, cpc, epc>>
  PROVE  BaselineInv'
<1> USE DEF TypeInv, TypeOK
<1>1. \A q \in Proc : pc'[q] \in InWake <=> pc[q] \in InWake
  OBVIOUS
<1>2. ASSUME NEW q \in Proc, pc'[q] = "setfinal", verdict'[q] = "active"
      PROVE  machine'[target'[q]] = "ready"
  <2>1. CASE q = p
    BY <1>2, <2>1
  <2>2. CASE q # p
    <3>1. target[q] # target[p]
      BY <1>2, <2>2 DEF BaselineInv, InWake
    <3>2. target[q] \in Worker
      BY <1>2, <2>2 DEF Attempt, Owning, InWake
    <3>3. target[q] \notin astray /\ machine[target[q]] = "ready"
      BY <1>2, <2>2 DEF BaselineInv, Relying
    <3> QED
      BY <1>2, <2>2, <3>1, <3>2, <3>3
  <2> QED
    BY <2>1, <2>2
<1>3. ActiveReady'
  <2>1. status[target[p]] = "waking"
    BY DEF BaselineInv
  <2> QED
    BY <2>1 DEF BaselineInv, ActiveReady
<1>6. \A n \in Worker : status'[n] = "active" => n \notin astray'
  <2>1. status[target[p]] = "waking"
    BY DEF BaselineInv
  <2> QED
    BY <2>1 DEF BaselineInv
<1>7. ASSUME NEW q \in Proc, Relying(q)' PROVE target'[q] \notin astray'
  <2>1. CASE q = p
    BY <1>7, <2>1
  <2>2. CASE q # p
    <3>1. Relying(q) /\ pc[q] \in InWake
      BY <1>7, <2>2 DEF Relying, InWake
    <3>2. target[q] # target[p] /\ target[q] \in Worker /\ target[q] \notin astray
      BY <2>2, <3>1 DEF BaselineInv, Attempt, Owning
    <3> QED
      BY <3>2
  <2> QED
    BY <2>1, <2>2
<1>4. \A q \in Proc : pc'[q] \in InWake => status'[target'[q]] = "waking"
  BY <1>1 DEF BaselineInv
<1>5. \A q \in Proc : \A r \in Proc :
        pc'[q] \in InWake /\ pc'[r] \in InWake /\ target'[q] = target'[r] => q = r
  BY <1>1 DEF BaselineInv
<1> QED
  BY <1>2, <1>3, <1>4, <1>5, <1>6, <1>7 DEF BaselineInv

\* A wake starts only where none is in progress.
LEMMA BaselineBeginWake ==
  ASSUME TypeInv, BaselineInv, NEW p \in Proc, BeginWake(p)
  PROVE  BaselineInv'
<1> USE DEF TypeInv, TypeOK, BeginWake, At
<1>1. pc[p] = "activate" /\ pc' = [pc EXCEPT ![p] = "poweron"]
  OBVIOUS
<1>2. \A q \in Proc : pc[q] \in InWake => target[q] # target[p]
  BY DEF BaselineInv
<1>3. \A q \in Proc : pc'[q] \in InWake => q = p \/ pc[q] \in InWake
  OBVIOUS
<1>4. \A q \in Proc : pc'[q] \in InWake => status'[target'[q]] = "waking"
  BY <1>2, <1>3, NamesAssumption DEF BaselineInv, Attempt, Owning
<1>5. \A q \in Proc : \A r \in Proc :
        pc'[q] \in InWake /\ pc'[r] \in InWake /\ target'[q] = target'[r] => q = r
  BY <1>2, <1>3 DEF BaselineInv
<1>6. ActiveReady'
  BY DEF BaselineInv, ActiveReady, powerVars
<1>7. \A q \in Proc :
        pc'[q] = "setfinal" /\ verdict'[q] = "active" => machine'[target'[q]] = "ready"
  BY <1>1 DEF BaselineInv, powerVars
<1>8. \A q \in Proc : Relying(q)' => target'[q] \notin astray'
  BY <1>1 DEF BaselineInv, Relying, powerVars
<1>9. \A n \in Worker : status'[n] = "active" => n \notin astray'
  BY DEF BaselineInv, powerVars
<1> QED
  BY <1>4, <1>5, <1>6, <1>7, <1>8, <1>9 DEF BaselineInv, controllerVars, enforceVars

\* A wake ends: its node becomes active only with every function on it.
LEMMA BaselineSetFinal ==
  ASSUME TypeInv, TypeInv', BaselineInv, NEW p \in Proc, SetFinal(p)
  PROVE  BaselineInv'
<1> USE DEF TypeInv, TypeOK, SetFinal, At
<1>1. pc[p] = "setfinal" /\ pc' = [pc EXCEPT ![p] = "delact"]
  OBVIOUS
<1>2. \A q \in Proc : pc'[q] \in InWake => q # p /\ pc[q] \in InWake
  BY <1>1 DEF InWake
<1>3. \A q \in Proc : pc'[q] \in InWake => target[q] # target[p]
  BY <1>1, <1>2 DEF BaselineInv, InWake
<1>4. \A q \in Proc : pc'[q] \in InWake => status'[target'[q]] = "waking"
  BY <1>2, <1>3 DEF BaselineInv
<1>5. \A q \in Proc : \A r \in Proc :
        pc'[q] \in InWake /\ pc'[r] \in InWake /\ target'[q] = target'[r] => q = r
  BY <1>2 DEF BaselineInv
<1>6. ASSUME NEW n \in Worker, status'[n] = "active"
      PROVE  machine'[n] = "ready" /\ n \notin astray'
  <2>1. CASE n = target[p]
    BY <1>6, <2>1, <1>1 DEF BaselineInv, Relying, Node, powerVars
  <2>2. CASE n # target[p]
    BY <1>6, <2>2 DEF BaselineInv, ActiveReady, Node, powerVars
  <2> QED
    BY <2>1, <2>2
<1>7. \A q \in Proc :
        pc'[q] = "setfinal" /\ verdict'[q] = "active" => machine'[target'[q]] = "ready"
  BY <1>1 DEF BaselineInv, powerVars
<1>8. \A q \in Proc : Relying(q)' => target'[q] \notin astray'
  BY <1>1 DEF BaselineInv, Relying, powerVars
<1> QED
  BY <1>4, <1>5, <1>6, <1>7, <1>8 DEF BaselineInv, ActiveReady, controllerVars, enforceVars

\* The machine of a node comes up, which no wake has yet relied on.
LEMMA BaselineBoot ==
  ASSUME TypeInv, BaselineInv, NEW n \in Worker, Boot(n)
  PROVE  BaselineInv'
<1> USE DEF TypeInv, TypeOK, Boot
<1>1. \A m \in Worker : machine[m] = "ready" => machine'[m] = "ready"
  OBVIOUS
<1>2. \A q \in Proc : pc[q] = "setfinal" => target[q] \in Worker
  BY DEF Attempt, Owning, InWake
<1> QED
  BY <1>1, <1>2 DEF BaselineInv, ActiveReady, Relying, registryVars, procVars, controllerVars, enforceVars

LEMMA BaselineInvNext ==
  ~Enabled /\ TypeInv /\ TypeInv' /\ BaselineInv /\ [Next]_vars => BaselineInv'
<1> SUFFICES ASSUME ~Enabled, TypeInv, TypeInv', BaselineInv, [Next]_vars PROVE BaselineInv'
  OBVIOUS
<1>1. ASSUME NEW h \in Proc,
             \/ \E n \in Executors : Pick(h, n)
             \/ \E ok \in BOOLEAN : Serve(h, ok)
             \/ IncLoad(h) \/ TouchNode(h) \/ DecLoad(h)
             \/ Follow(h) \/ DropActivation(h)
      PROVE  BaselineInv'
  <2>1. /\ \E s \in Pc \ InWake : pc' = [pc EXCEPT ![h] = s]
        /\ \A q \in Proc \ {h} : target'[q] = target[q] /\ verdict'[q] = verdict[q]
        /\ UNCHANGED <<status, machine, astray, cpc, epc>>
    BY <1>1 DEF Pick, Serve, IncLoad, TouchNode, DecLoad, Follow, DropActivation, Pc, InFlight,
                Attempt, Owning, InWake, registryVars, powerVars, controllerVars,
                enforceVars, TypeInv, TypeOK
  <2>2. \A q \in {h} : pc'[q] \notin InWake
    BY <2>1 DEF TypeInv, TypeOK
  <2>3. \A q \in Proc \ {h} : pc'[q] = pc[q] /\ target'[q] = target[q] /\ verdict'[q] = verdict[q]
    BY <2>1 DEF TypeInv, TypeOK
  <2>4. {h} \in SUBSET Proc /\ UNCHANGED <<status, machine, astray, cpc, epc>>
    BY <2>1
  <2> QED
    BY <2>2, <2>3, <2>4, BaselineBystanders
<1>2. ASSUME NEW p \in Proc,
             AlreadyActive(p) \/ NilActivation(p) \/ TimeOut(p) \/ CloseActivation(p)
      PROVE  BaselineInv'
  <2>1. PICK S \in SUBSET Proc, ok \in BOOLEAN : Return(S, ok)
    BY <1>2 DEF AlreadyActive, NilActivation, TimeOut, CloseActivation
  <2>2. UNCHANGED <<status, machine, astray, cpc, epc>>
    BY <1>2 DEF AlreadyActive, NilActivation, TimeOut, CloseActivation, registryVars,
                powerVars, controllerVars, enforceVars
  <2>3. \A q \in S : pc'[q] \in {"done", "inc", "idle"}
    BY <2>1 DEF Return, AfterActivation, Proc
  <2>4. \A q \in Proc \ S : pc'[q] = pc[q] /\ target'[q] = target[q] /\ verdict'[q] = verdict[q]
    BY <2>1 DEF Return
  <2> QED
    BY <2>2, <2>3, <2>4, BaselineBystanders DEF InWake
<1>3. ASSUME NEW p \in Proc,
             \/ PowerOn(p) \/ PowerOffFailed(p)
             \/ \E answers \in BOOLEAN : NodeReady(p, answers)
             \/ \E ok \in BOOLEAN : DeployFunctions(p, ok)
      PROVE  BaselineInv'
  <2>1. /\ pc[p] \in InWake
        /\ UNCHANGED <<status, target, cpc, epc>>
        /\ \A q \in Proc \ {p} : verdict'[q] = verdict[q]
    BY <1>3 DEF PowerOn, PowerOffFailed, NodeReady, DeployFunctions, At,
                InWake, registryVars, controllerVars, enforceVars, TypeInv, TypeOK
  <2>2. target[p] \in Worker
    BY <2>1 DEF TypeInv, Attempt, Owning
  <2>3. /\ \A n \in Worker \ {target[p]} :
             n \notin astray => machine'[n] = machine[n] /\ n \notin astray'
        /\ Relying(p)' => target[p] \notin astray'
    BY <1>3, <2>2, WakeStrays DEF BaselineInv
  <2>4. PICK s \in InWake :
          /\ pc' = [pc EXCEPT ![p] = s]
          /\ s = "setfinal" /\ verdict'[p] = "active" => machine'[target[p]] = "ready"
    BY <1>3, <2>2 DEF PowerOn, PowerOffFailed, NodeReady, DeployFunctions, InWake, TypeInv, TypeOK
  <2> QED
    BY <2>1, <2>3, <2>4, BaselineWakeMove
<1>4. ASSUME NEW p \in Proc, BeginWake(p) \/ SetFinal(p)
      PROVE  BaselineInv'
  BY <1>4, BaselineBeginWake, BaselineSetFinal
<1>5. ASSUME NEW n \in Worker, Boot(n) \/ IdlePasses(n) \/ SnapshotAges(n)
      PROVE  BaselineInv'
  <2>1. CASE Boot(n)
    BY <2>1, BaselineBoot
  <2>2. CASE IdlePasses(n) \/ SnapshotAges(n)
    BY <2>2 DEF IdlePasses, SnapshotAges, BaselineInv, ActiveReady, Relying, registryVars,
                powerVars, procVars, controllerVars, enforceVars
  <2> QED
    BY <1>5, <2>1, <2>2
<1>6. CASE Controller \/ Enforce
  BY <1>6 DEF BaselineInv, Controller, Recovery, ScaleDownScan, CtlTick, CtlHealthy, CtlRetry,
              CtlRestoreAs, CtlLeave, CtlRestore, CtlSnapshot, CtlKeep, CtlChoose, CtlCut,
              CtlMark, CtlEnd, CtlAt, Enforce, EnforceStart, EnforceOff
<1>7. CASE UNCHANGED vars
  BY <1>7 DEF BaselineInv, ActiveReady, Relying, vars, registryVars, powerVars, procVars, controllerVars, enforceVars
<1>8. ASSUME NEW h \in Handler, Arrive(h) \/ Serving(h) \/ Account(h)
      PROVE  BaselineInv'
  <2>1. h \in Proc
    BY DEF Proc
  <2>2. CASE Arrive(h)
    BY <2>1, <2>2, <1>1, <1>7 DEF Arrive, Unavailable
  <2>3. CASE Serving(h) \/ Account(h)
    BY <2>1, <2>3, <1>1 DEF Serving, Account
  <2> QED
    BY <1>8, <2>2, <2>3
<1>9. ASSUME NEW p \in Proc, Activation(p) \/ TimeOut(p)
      PROVE  BaselineInv'
  BY <1>9, <1>1, <1>2, <1>3, <1>4 DEF Activation
<1> QED
  BY <1>5, <1>6, <1>7, <1>8, <1>9 DEF Next, Crashed, Environment

LEMMA BaselineAlways ==
  ASSUME ~Enabled
  PROVE  Spec => []BaselineInv
<1>1. Init => TypeInv /\ BaselineInv
  BY TypeInvInit, BaselineInvInit
<1>2. TypeInv /\ BaselineInv /\ [Next]_vars => TypeInv' /\ BaselineInv'
  BY TypeInvNext, BaselineInvNext
<1> QED
  BY <1>1, <1>2, PTL DEF Spec

\* In the baseline a node is woken by one process at a time, whatever fails
\* and however often.
THEOREM BaselineSafe ==
  ASSUME ~Enabled
  PROVE  Spec => []WakeExclusive
<1>1. BaselineInv => WakeExclusive
  BY DEF BaselineInv, WakeExclusive, Wakers
<1> QED
  BY BaselineAlways, <1>1, PTL

\* In the baseline an active worker is up with every function.
THEOREM ActiveIsReady ==
  ASSUME ~Enabled
  PROVE  Spec => []ActiveReady
<1>1. BaselineInv => ActiveReady
  BY DEF BaselineInv
<1> QED
  BY BaselineAlways, <1>1, PTL
===============================================================================
