------------------------------- MODULE Registry -------------------------------
(***************************************************************************)
(* The leader's cluster registry: HTTP requests that pick a node and wake   *)
(* it when it sleeps, the scale-down controller with its recovery of dead   *)
(* nodes, and the two start-up sweeps (EnforceSleeping, PrewarmAll).        *)
(*                                                                          *)
(* Source: pkg/cluster/{registry,controller,types}.go, pkg/http/http.go,    *)
(* cmd/rproxy/main.go.  Each action is one critical section of r.mu, one    *)
(* relay command or one exchange with a node; everything between two        *)
(* critical sections can interleave with everything else.                   *)
(*                                                                          *)
(* Abstractions: function definitions are not named here (a machine either  *)
(* has the functions the leader knows or it has not, and the leader knows   *)
(* at least one); time is the truth of "idle long enough" and the choice of *)
(* when a timeout or a cooldown has run out.                                *)
(***************************************************************************)
EXTENDS Integers, FiniteSets, Scheduler

CONSTANTS
  Worker,          \* the nodes behind a relay
  Leader,          \* the node this process runs on (Local)
  DispatchOnly,    \* nodes that schedule requests but never execute one
  Handler,         \* concurrent HTTP requests
  NoOne,           \* the absence of a process or of a node
  Enabled,         \* POWER_AWARE: controller and EnforceSleeping, or the baseline
  MinActiveNodes,  \* ControllerConfig.MinActiveNodes
  LoadThreshold,   \* ControllerConfig.LoadThreshold
  RelayFaults,     \* whether a relay command can return an error
  Sibling          \* [Worker -> the workers on the other channel of its relay]

Node == Worker \cup {Leader}

\* PrewarmAll runs one goroutine per worker; it goes by the worker's name.
Proc == Handler \cup Worker

ASSUME FiniteAssumption == IsFiniteSet(Worker) /\ IsFiniteSet(Handler)
ASSUME NamesAssumption ==
  /\ Leader \notin Worker
  /\ Handler \cap Node = {}
  /\ NoOne \notin Node \cup Handler
  /\ DispatchOnly \subseteq Node
ASSUME ConfigAssumption ==
  /\ Enabled \in BOOLEAN /\ RelayFaults \in BOOLEAN
  /\ MinActiveNodes \in Int /\ LoadThreshold \in Int
ASSUME SiblingAssumption ==
  /\ Sibling \in [Worker -> SUBSET Worker]
  /\ \A n \in Worker : n \notin Sibling[n]

VARIABLES
  status,       \* [Node -> NodeStatus]: Node.Status
  load,         \* [Node -> Nat]: Node.Load
  idle,         \* [Worker -> BOOLEAN]: time.Since(LastUsed) >= IdleTimeout
  activations,  \* [Node -> Proc or NoOne]: whose attempt r.activations holds
  machine,      \* [Worker -> Machine]: the computer itself
  astray,       \* the workers whose relay is not where its controller believes it
  pc,           \* [Proc -> Pc]: where a request or a prewarm goroutine is
  target,       \* [Proc -> Node or NoOne]: the node it is about
  waitsOn,      \* [Proc -> Proc or NoOne]: whose attempt it waits for
  verdict,      \* [Proc -> Verdict]: the final status its own attempt sets
  cpc,          \* where the controller loop is
  ctodo,        \* the nodes of the controller's snapshot still to visit
  cidle,        \* those of them whose snapshot has been idle long enough
  cnode,        \* the node the controller is acting on
  cstatus,      \* the status RecoverDead is about to give it
  ccount,       \* activeCount
  epc,          \* where EnforceSleeping is
  etodo,        \* the nodes of its snapshot still to switch off
  alive         \* FALSE once a panic outside net/http has ended the process

registryVars   == <<status, load, idle, activations>>
powerVars      == <<machine, astray>>
procVars       == <<pc, target, waitsOn, verdict>>
controllerVars == <<cpc, ctodo, cidle, cnode, cstatus, ccount>>
enforceVars    == <<epc, etodo>>
vars == <<registryVars, powerVars, procVars, controllerVars, enforceVars, alive>>

(***************************************************************************)
(* off: the relay is open. booting: powered, /health does not answer yet.   *)
(* bare: answers, but lacks some function. ready: has every function.       *)
(***************************************************************************)
Machine == {"off", "booting", "bare", "ready"}

\* The phases of ActivateNode and wakeNode in the process that wakes the node:
\* while it may still touch the machine, while its attempt is (or was) in
\* r.activations, and until its followers have been told.
InWake  == {"poweron", "ready", "deploy", "poweroff", "setfinal"}
Owning  == InWake \cup {"delact"}
Attempt == Owning \cup {"close"}

\* The phases in which a request counts as load on its node.
InFlight == {"serve", "touch", "dec"}

Pc      == {"idle", "activate", "wait", "inc", "done"} \cup Attempt \cup InFlight
Verdict == {"none", "active", "sleeping", "dead"}

Executors == Node \ DispatchOnly

ActiveExecutors == {n \in Executors : status[n] = "active"}

(***************************************************************************)
(* Workers are recorded as sleeping whatever position their relays were     *)
(* left in, so a machine may be up when the leader starts.                  *)
(***************************************************************************)
Init ==
  /\ status = [n \in Node |-> IF n = Leader THEN "active" ELSE "sleeping"]
  /\ load = [n \in Node |-> 0]
  /\ idle = [n \in Worker |-> TRUE]          \* LastUsed is the zero time
  /\ activations = [n \in Node |-> NoOne]
  /\ machine \in [Worker -> {"off", "bare"}] /\ astray = {}
  /\ pc = [p \in Proc |-> IF p \in Handler THEN "idle"
                          ELSE IF Enabled THEN "done" ELSE "activate"]
  /\ target = [p \in Proc |-> IF p \in Handler \/ Enabled THEN NoOne ELSE p]
  /\ waitsOn = [p \in Proc |-> NoOne]
  /\ verdict = [p \in Proc |-> "none"]
  /\ cpc = "sleep" /\ ctodo = {} /\ cidle = {}
  /\ cnode = NoOne /\ cstatus = "none" /\ ccount = 0
  /\ epc = "start" /\ etodo = {}
  /\ alive = TRUE

-------------------------------------------------------------------------------
\* Process p, or the controller, is at phase s of a process that runs.
At(p, s) == alive /\ pc[p] = s
CtlAt(s) == alive /\ cpc = s

-------------------------------------------------------------------------------
(* The machines.                                                              *)

\* The machine of n after its relay has been set to a position.
Powered(n, on) ==
  IF ~on THEN "off" ELSE IF machine[n] = "off" THEN "booting" ELSE machine[n]

\* Where the relay of n is, and where its controller believes it to be.
Closed(n)   == machine[n] # "off"
Believed(n) == IF n \in astray THEN ~Closed(n) ELSE Closed(n)

\* The relay of n receives the command, and what its controller believes of the
\* sibling with it, which takes back what is astray there.
Reaches(n, on) ==
  machine' = [m \in Worker |-> IF m = n THEN Powered(n, on)
                              ELSE IF m \in astray \cap Sibling[n] THEN Powered(m, ~Closed(m))
                              ELSE machine[m]]

\* PowerOn and PowerOff of node n.  A command that returns an error may have
\* taken effect all the same: the answer to it can be what was lost.  Then the
\* relay is astray, which matters if somebody else's commands reach it too.
Switch(n, on, err) ==
  \/ /\ Reaches(n, on)
     /\ astray' = (astray \ ({n} \cup Sibling[n])) \cup
                    IF err /\ Sibling[n] # {} /\ Believed(n) # on THEN {n} ELSE {}
  \/ err /\ UNCHANGED powerVars
SwitchOn(n, err)  == Switch(n, TRUE, err)
SwitchOff(n, err) == Switch(n, FALSE, err)

RelayError == IF RelayFaults THEN BOOLEAN ELSE {FALSE}

Up(n) == machine[n] \in {"bare", "ready"}

Boot(n) ==
  /\ alive /\ machine[n] = "booting"
  /\ machine' = [machine EXCEPT ![n] = "bare"]
  /\ UNCHANGED <<registryVars, astray, procVars, controllerVars, enforceVars, alive>>

\* NodeIdleTimeout has passed since the node was last used.
IdlePasses(n) ==
  /\ alive /\ ~idle[n]
  /\ idle' = [idle EXCEPT ![n] = TRUE]
  /\ UNCHANGED <<status, load, activations, powerVars, procVars, controllerVars,
                 enforceVars, alive>>

\* It has passed since the last use the controller's snapshot knows of, which
\* a later request does not move.
SnapshotAges(n) ==
  /\ alive /\ cpc \in {"scan", "cut", "mark"} /\ n \in ctodo \ cidle
  /\ cidle' = cidle \cup {n}
  /\ UNCHANGED <<registryVars, powerVars, procVars, cpc, ctodo, cnode, cstatus,
                 ccount, enforceVars, alive>>

-------------------------------------------------------------------------------
(* A request: ListNodes and PickNode, ActivateNode, IncLoad, the call itself, *)
(* TouchNode and DecLoad.                                                     *)

\* PickNode decides from a snapshot; ActivateNode looks at the node later.
Pick(h, n) ==
  /\ At(h, "idle")
  /\ n \in Pickable(Executors, status, load, LoadThreshold)
  /\ pc' = [pc EXCEPT ![h] = "activate"]
  /\ target' = [target EXCEPT ![h] = n]
  /\ UNCHANGED <<registryVars, powerVars, waitsOn, verdict, controllerVars,
                 enforceVars, alive>>

\* 503: every executor is dead.
Unavailable(h) ==
  /\ At(h, "idle")
  /\ Pickable(Executors, status, load, LoadThreshold) = {}
  /\ UNCHANGED vars

IncLoad(h) ==
  /\ At(h, "inc")
  /\ load' = [load EXCEPT ![target[h]] = @ + 1]
  /\ pc' = [pc EXCEPT ![h] = "serve"]
  /\ UNCHANGED <<status, idle, activations, powerVars, target, waitsOn, verdict,
                 controllerVars, enforceVars, alive>>

\* Mutant: a failed call returns without the deferred DecLoad.
ServeLeaksLoad(h, ok) ==
  /\ At(h, "serve")
  /\ ok => target[h] = Leader \/ Up(target[h])
  /\ pc' = [pc EXCEPT ![h] = IF ok THEN "touch" ELSE "idle"]
  /\ target' = [target EXCEPT ![h] = IF ok THEN @ ELSE NoOne]
  /\ UNCHANGED <<registryVars, powerVars, waitsOn, verdict, controllerVars,
                 enforceVars, alive>>

\* The call on the leader, or the forwarded request.  A machine that is not up
\* cannot answer 200 or 202; any call can fail.
Serve(h, ok) ==
  /\ At(h, "serve")
  /\ ok => target[h] = Leader \/ Up(target[h])
  /\ pc' = [pc EXCEPT ![h] = IF ok THEN "touch" ELSE "dec"]
  /\ UNCHANGED <<registryVars, powerVars, target, waitsOn, verdict,
                 controllerVars, enforceVars, alive>>

TouchNode(h) ==
  /\ At(h, "touch")
  /\ idle' = [n \in Worker |-> idle[n] /\ n # target[h]]
  /\ pc' = [pc EXCEPT ![h] = "dec"]
  /\ UNCHANGED <<status, load, activations, powerVars, target, waitsOn, verdict,
                 controllerVars, enforceVars, alive>>

DecLoad(h) ==
  /\ At(h, "dec")
  /\ load' = [load EXCEPT ![target[h]] = IF @ > 0 THEN @ - 1 ELSE @]
  /\ pc' = [pc EXCEPT ![h] = "idle"]
  /\ target' = [target EXCEPT ![h] = NoOne]
  /\ UNCHANGED <<status, idle, activations, powerVars, waitsOn, verdict,
                 controllerVars, enforceVars, alive>>

-------------------------------------------------------------------------------
(* ActivateNode and wakeNode.  p is a request or a prewarm goroutine.         *)

\* Where p goes when its activation ended with or without an error: a request
\* goes on to IncLoad or answers 500, a prewarm goroutine logs and ends.
AfterActivation(p, ok) ==
  CASE p \in Worker          -> "done"
    [] p \in Handler /\ ok   -> "inc"
    [] p \in Handler /\ ~ok  -> "idle"

\* The processes of S return from ActivateNode.
Return(S, ok) ==
  /\ pc' = [q \in Proc |-> IF q \in S THEN AfterActivation(q, ok) ELSE pc[q]]
  /\ target' = [q \in Proc |-> IF q \in S /\ ~(ok /\ q \in Handler)
                               THEN NoOne ELSE target[q]]
  /\ waitsOn' = [q \in Proc |-> IF q \in S THEN NoOne ELSE waitsOn[q]]
  /\ verdict' = [q \in Proc |-> IF q \in S THEN "none" ELSE verdict[q]]

AlreadyActive(p) ==
  /\ At(p, "activate") /\ status[target[p]] = "active"
  /\ Return({p}, TRUE)
  /\ UNCHANGED <<registryVars, powerVars, controllerVars, enforceVars, alive>>

\* The node is waking: wait for the attempt r.activations holds.
Follow(p) ==
  /\ At(p, "activate") /\ status[target[p]] = "waking"
  /\ activations[target[p]] # NoOne
  /\ pc' = [pc EXCEPT ![p] = "wait"]
  /\ waitsOn' = [waitsOn EXCEPT ![p] = activations[target[p]]]
  /\ UNCHANGED <<registryVars, powerVars, target, verdict, controllerVars,
                 enforceVars, alive>>

\* The node is waking and r.activations holds nothing: act is nil and act.wait
\* panics.  net/http recovers the panic of a request; that of a prewarm
\* goroutine ends the process.
NilActivation(p) ==
  /\ At(p, "activate") /\ status[target[p]] = "waking"
  /\ activations[target[p]] = NoOne
  /\ Return({p}, FALSE)
  /\ alive' = (p \in Handler)
  /\ UNCHANGED <<registryVars, powerVars, controllerVars, enforceVars>>

\* Mutant: the attempt starts without marking the node as waking.
BeginWakeUnmarked(p) ==
  /\ At(p, "activate") /\ status[target[p]] \in {"sleeping", "dead"}
  /\ activations' = [activations EXCEPT ![target[p]] = p]
  /\ pc' = [pc EXCEPT ![p] = "poweron"]
  /\ UNCHANGED <<status, load, idle, powerVars, target, waitsOn, verdict,
                 controllerVars, enforceVars, alive>>

\* The node is sleeping or dead: start an attempt.
BeginWake(p) ==
  /\ At(p, "activate") /\ status[target[p]] \in {"sleeping", "dead"}
  /\ activations' = [activations EXCEPT ![target[p]] = p]
  /\ status' = [status EXCEPT ![target[p]] = "waking"]
  /\ pc' = [pc EXCEPT ![p] = "poweron"]
  /\ UNCHANGED <<load, idle, powerVars, target, waitsOn, verdict, controllerVars,
                 enforceVars, alive>>

PowerOn(p) ==
  /\ At(p, "poweron")
  /\ \E err \in RelayError :
       /\ SwitchOn(target[p], err)
       /\ pc' = [pc EXCEPT ![p] = IF err THEN "setfinal" ELSE "ready"]
       /\ verdict' = [verdict EXCEPT ![p] = IF err THEN "dead" ELSE @]
  /\ UNCHANGED <<registryVars, target, waitsOn, controllerVars, enforceVars, alive>>

\* Mutant: a node that does not answer is not given the status dead.
NodeReadyForgetsDead(p, answers) ==
  /\ At(p, "ready")
  /\ answers => Up(target[p])
  /\ pc' = [pc EXCEPT ![p] = IF answers THEN "deploy" ELSE "setfinal"]
  /\ UNCHANGED <<registryVars, powerVars, target, waitsOn, verdict, controllerVars,
                 enforceVars, alive>>

\* waitForNodeReady: the node answers within NODE_BOOT_TIMEOUT or it does not.
NodeReady(p, answers) ==
  /\ At(p, "ready")
  /\ answers => Up(target[p])
  /\ pc' = [pc EXCEPT ![p] = IF answers THEN "deploy" ELSE "setfinal"]
  /\ verdict' = [verdict EXCEPT ![p] = IF answers THEN @ ELSE "dead"]
  /\ UNCHANGED <<registryVars, powerVars, target, waitsOn, controllerVars,
                 enforceVars, alive>>

\* Mutant: failed deploys are logged and the node is marked active all the same.
DeployIgnoresFailure(p, ok) ==
  /\ At(p, "deploy")
  /\ \/ ok /\ Up(target[p]) /\ machine' = [machine EXCEPT ![target[p]] = "ready"]
     \/ ~ok /\ UNCHANGED machine
  /\ pc' = [pc EXCEPT ![p] = "setfinal"]
  /\ verdict' = [verdict EXCEPT ![p] = "active"]
  /\ UNCHANGED <<registryVars, astray, target, waitsOn, controllerVars, enforceVars, alive>>

\* Every function reaches the node, or at least one does not: a function that
\* replaces its old version and fails leaves the node without it.
DeployFunctions(p, ok) ==
  /\ At(p, "deploy")
  /\ \/ ok /\ Up(target[p]) /\ machine' = [machine EXCEPT ![target[p]] = "ready"]
     \/ ~ok /\ UNCHANGED machine
     \/ ~ok /\ Up(target[p]) /\ machine' = [machine EXCEPT ![target[p]] = "bare"]
  /\ pc' = [pc EXCEPT ![p] = IF ok THEN "setfinal" ELSE "poweroff"]
  /\ verdict' = [verdict EXCEPT ![p] = IF ok THEN "active" ELSE @]
  /\ UNCHANGED <<registryVars, astray, target, waitsOn, controllerVars, enforceVars, alive>>

PowerOffFailed(p) ==
  /\ At(p, "poweroff")
  /\ \E err \in RelayError :
       /\ SwitchOff(target[p], err)
       /\ verdict' = [verdict EXCEPT ![p] = IF err THEN "dead" ELSE "sleeping"]
  /\ pc' = [pc EXCEPT ![p] = "setfinal"]
  /\ UNCHANGED <<registryVars, target, waitsOn, controllerVars, enforceVars, alive>>

\* Mutant: a failed wake returns its error and leaves the status alone.
SetFinalKeepsWaking(p) ==
  /\ At(p, "setfinal")
  /\ status' = [status EXCEPT ![target[p]] = IF verdict[p] = "dead" THEN @ ELSE verdict[p]]
  /\ pc' = [pc EXCEPT ![p] = "delact"]
  /\ UNCHANGED <<load, idle, activations, powerVars, target, waitsOn, verdict,
                 controllerVars, enforceVars, alive>>

\* The SetStatus that ends wakeNode, whatever the status has become meanwhile.
SetFinal(p) ==
  /\ At(p, "setfinal")
  /\ status' = [status EXCEPT ![target[p]] = verdict[p]]
  /\ pc' = [pc EXCEPT ![p] = "delact"]
  /\ UNCHANGED <<load, idle, activations, powerVars, target, waitsOn, verdict,
                 controllerVars, enforceVars, alive>>

\* delete(r.activations, id), whoever's attempt the map holds.
DropActivation(p) ==
  /\ At(p, "delact")
  /\ activations' = [activations EXCEPT ![target[p]] = NoOne]
  /\ pc' = [pc EXCEPT ![p] = "close"]
  /\ UNCHANGED <<status, load, idle, powerVars, target, waitsOn, verdict,
                 controllerVars, enforceVars, alive>>

\* Mutant: the channel is closed only when the wake succeeded.
CloseOnSuccess(p) ==
  /\ At(p, "close")
  /\ Return({p} \cup {q \in Proc : waitsOn[q] = p /\ verdict[p] = "active"},
            verdict[p] = "active")
  /\ UNCHANGED <<registryVars, powerVars, controllerVars, enforceVars, alive>>

\* act.err = err; close(act.done): p and everyone who waits on it return.
CloseActivation(p) ==
  /\ At(p, "close")
  /\ Return({p} \cup {q \in Proc : waitsOn[q] = p}, verdict[p] = "active")
  /\ UNCHANGED <<registryVars, powerVars, controllerVars, enforceVars, alive>>

\* activationSafetyTimeout.
TimeOut(p) ==
  /\ At(p, "wait")
  /\ Return({p}, FALSE)
  /\ UNCHANGED <<registryVars, powerVars, controllerVars, enforceVars, alive>>

-------------------------------------------------------------------------------
(* StartController: RecoverDead, then the scale-down scan, each over a        *)
(* snapshot.  cpc: sleep -> recover (-> restore) -> scan (-> cut -> mark).    *)

CtlTick ==
  /\ Enabled /\ CtlAt("sleep")
  /\ cpc' = "recover"
  /\ ctodo' = InState(Node, status, "dead")
  /\ UNCHANGED <<registryVars, powerVars, procVars, cidle, cnode, cstatus, ccount,
                 enforceVars, alive>>

\* RecoverDead on node n, which the snapshot has as dead, decides for status s.
CtlRestoreAs(n, s) ==
  /\ CtlAt("recover") /\ n \in ctodo
  /\ cpc' = "restore"
  /\ ctodo' = ctodo \ {n}
  /\ cnode' = n /\ cstatus' = s
  /\ UNCHANGED <<registryVars, powerVars, procVars, cidle, ccount, enforceVars, alive>>

\* It answers its health check.
CtlHealthy(n) == n \in Worker /\ Up(n) /\ CtlRestoreAs(n, "active")

\* It does not answer, and the cooldown has not passed.
CtlLeave(n) ==
  /\ CtlAt("recover") /\ n \in ctodo
  /\ ctodo' = ctodo \ {n}
  /\ UNCHANGED <<registryVars, powerVars, procVars, cpc, cidle, cnode, cstatus,
                 ccount, enforceVars, alive>>

\* Mutant: the cooldown never counts as passed.
CtlRetryLeaves(n) == CtlLeave(n)

\* It does not answer, and the cooldown has passed.
CtlRetry(n) == CtlRestoreAs(n, "sleeping")

\* SetStatus, whatever the status has become since the snapshot.
CtlRestore ==
  /\ CtlAt("restore")
  /\ status' = [status EXCEPT ![cnode] = cstatus]
  /\ cpc' = "recover"
  /\ cnode' = NoOne /\ cstatus' = "none"
  /\ UNCHANGED <<load, idle, activations, powerVars, procVars, ctodo, cidle,
                 ccount, enforceVars, alive>>

\* Mutant: nodes that are not sleeping count as active.
CtlSnapshotAwake ==
  /\ CtlAt("recover") /\ ctodo = {}
  /\ cpc' = "scan"
  /\ ctodo' = {n \in Worker : status[n] # "sleeping" /\ load[n] = 0}
  /\ cidle' = {n \in ctodo' : idle[n]}
  /\ ccount' = Cardinality({n \in Executors : status[n] # "sleeping"})
  /\ UNCHANGED <<registryVars, powerVars, procVars, cnode, cstatus, enforceVars, alive>>

\* The second snapshot: the active workers without load, and how many nodes
\* that execute functions are active.
CtlSnapshot ==
  /\ CtlAt("recover") /\ ctodo = {}
  /\ cpc' = "scan"
  /\ ctodo' = {n \in Worker : status[n] = "active" /\ load[n] = 0}
  /\ cidle' = {n \in ctodo' : idle[n]}
  /\ ccount' = Cardinality(ActiveExecutors)
  /\ UNCHANGED <<registryVars, powerVars, procVars, cnode, cstatus, enforceVars, alive>>

\* Mutant: the floor is one too high.
ScaleDownLate(n) == ccount > MinActiveNodes + 1 /\ n \in cidle

ScaleDown(n) == ccount > MinActiveNodes /\ n \in cidle

\* Keep n: the floor is reached, or it has not been idle long enough.
CtlKeep(n) ==
  /\ CtlAt("scan") /\ n \in ctodo
  /\ ~ScaleDown(n)
  /\ ctodo' = ctodo \ {n} /\ cidle' = cidle \ {n}
  /\ UNCHANGED <<registryVars, powerVars, procVars, cpc, cnode, cstatus, ccount,
                 enforceVars, alive>>

CtlChoose(n) ==
  /\ CtlAt("scan") /\ n \in ctodo
  /\ ScaleDown(n)
  /\ ctodo' = ctodo \ {n} /\ cidle' = cidle \ {n}
  /\ cpc' = "cut" /\ cnode' = n
  /\ UNCHANGED <<registryVars, powerVars, procVars, cstatus, ccount, enforceVars, alive>>

\* DeactivateNode: the relay first, the status after it.
CtlCut ==
  /\ CtlAt("cut")
  /\ \E err \in RelayError :
       /\ SwitchOff(cnode, err)
       /\ cpc' = IF err THEN "scan" ELSE "mark"
       /\ cnode' = IF err THEN NoOne ELSE cnode
  /\ UNCHANGED <<registryVars, procVars, ctodo, cidle, cstatus, ccount,
                 enforceVars, alive>>

CtlMark ==
  /\ CtlAt("mark")
  /\ status' = [status EXCEPT ![cnode] = "sleeping"]
  /\ ccount' = ccount - 1
  /\ cpc' = "scan" /\ cnode' = NoOne
  /\ UNCHANGED <<load, idle, activations, powerVars, procVars, ctodo, cidle,
                 cstatus, enforceVars, alive>>

CtlEnd ==
  /\ CtlAt("scan") /\ ctodo = {}
  /\ cpc' = "sleep" /\ ccount' = 0
  /\ UNCHANGED <<registryVars, powerVars, procVars, ctodo, cidle, cnode, cstatus,
                 enforceVars, alive>>

-------------------------------------------------------------------------------
(* EnforceSleeping, which main starts beside the front ends.                  *)

EnforceStart ==
  /\ alive /\ Enabled /\ epc = "start"
  /\ epc' = "run"
  /\ etodo' = InState(Worker, status, "sleeping")
  /\ UNCHANGED <<registryVars, powerVars, procVars, controllerVars, alive>>

EnforceOff(n) ==
  /\ alive /\ epc = "run" /\ n \in etodo
  /\ \E err \in RelayError : SwitchOff(n, err)
  /\ etodo' = etodo \ {n}
  /\ UNCHANGED <<registryVars, procVars, controllerVars, epc, alive>>

-------------------------------------------------------------------------------
Arrive(h) == Unavailable(h) \/ \E n \in Executors : Pick(h, n)

Serving(h) == \E ok \in BOOLEAN : Serve(h, ok)

Account(h) == IncLoad(h) \/ TouchNode(h) \/ DecLoad(h)

\* The steps of ActivateNode that are not waiting.
Activation(p) ==
  \/ AlreadyActive(p) \/ Follow(p) \/ NilActivation(p)
  \/ BeginWake(p) \/ PowerOn(p)
  \/ \E answers \in BOOLEAN : NodeReady(p, answers)
  \/ \E ok \in BOOLEAN : DeployFunctions(p, ok)
  \/ PowerOffFailed(p) \/ SetFinal(p) \/ DropActivation(p) \/ CloseActivation(p)

Recovery ==
  \/ CtlTick \/ CtlRestore \/ CtlSnapshot
  \/ \E n \in Worker : CtlHealthy(n) \/ CtlRetry(n) \/ CtlLeave(n)

ScaleDownScan ==
  \/ CtlCut \/ CtlMark \/ CtlEnd
  \/ \E n \in Worker : CtlKeep(n) \/ CtlChoose(n)

Controller == Recovery \/ ScaleDownScan

Enforce == EnforceStart \/ \E n \in Worker : EnforceOff(n)

Environment == \E n \in Worker : Boot(n) \/ IdlePasses(n) \/ SnapshotAges(n)

Crashed == ~alive /\ UNCHANGED vars

Next ==
  \/ \E h \in Handler : Arrive(h) \/ Serving(h) \/ Account(h)
  \/ \E p \in Proc : Activation(p) \/ TimeOut(p)
  \/ Controller \/ Enforce \/ Environment
  \/ Crashed

Spec == Init /\ [][Next]_vars

(***************************************************************************)
(* The goroutines of the process make progress, and every step of a wake    *)
(* ends: PowerOn, waitForNodeReady and the deploys have timeouts.  Nothing  *)
(* is assumed of Serving (the forwarding client has no timeout), of         *)
(* arrivals, or of TimeOut.  A cooldown passes: a node found dead in cycle  *)
(* after cycle is not left dead in all of them.                             *)
(***************************************************************************)
Fairness ==
  /\ \A p \in Proc : WF_vars(Activation(p))
  /\ \A h \in Handler : WF_vars(Account(h))
  /\ WF_vars(Controller)
  /\ \A n \in Worker : SF_vars(CtlRetry(n))

LiveSpec == Spec /\ Fairness
===============================================================================
