----------------------------- MODULE FunctionSync -----------------------------
(***************************************************************************)
(* How the functions known to the leader reach the workers: the add/delete  *)
(* endpoint changes the function store and tells the nodes that are active; *)
(* a node that wakes is given the functions of a copy of the store.         *)
(*                                                                          *)
(* Source: pkg/cluster/functions.go, the broadcasts, deployFunctions and    *)
(* wakeNode of pkg/cluster/registry.go, and the endpoint of                 *)
(* cmd/rproxy/main.go.  An action is a read or write of the store or of     *)
(* the statuses, a relay command, or an event of one call to a node.        *)
(*                                                                          *)
(* Failures covered: a call that fails, or that its caller gives up while   *)
(* the node still works on it; relays that fail; a wake that fails; a       *)
(* worker or the leader that crashes and restarts; EnforceSleeping and the  *)
(* scale-down controller cutting a node at any moment; RecoverDead setting  *)
(* a status it has read long ago, also of a node that is being woken by     *)
(* now, which can start a second wake beside the first.                     *)
(*                                                                          *)
(* Abstractions: a version stands for a definition; loads and idle times    *)
(* are left out, so the controller may choose any active node; uploads at   *)
(* the leader come one after the other, since its management service holds  *)
(* functionHandlersMutex until the endpoint has answered (FunctionManager); *)
(* workers run with FUNCTION_IDLE_TIMEOUT=0, as manager.go asks for in a    *)
(* cluster.                                                                 *)
(***************************************************************************)
EXTENDS Naturals

CONSTANTS
  Worker,      \* the nodes other than the leader
  Function,    \* function names
  Waker,       \* bound: the goroutines that can be in wakeNode at once
  None,        \* no function, and no worker
  MaxVersion   \* bound: how many definitions are ever uploaded

ASSUME SyncAssumption ==
  /\ None \notin Function \cup Worker /\ MaxVersion \in Nat
  /\ Waker \cap {"broadcast", "nobody"} = {}

VARIABLES
  store,     \* [Function -> Version]: FunctionStore.funcs
  made,      \* how many definitions have been uploaded
  endpoint,  \* where the request at the endpoint is
  current,   \* the function it is about
  status,    \* [Worker -> Status]: Node.Status
  wake,      \* [Waker -> Phase]: where a call of wakeNode is
  target,    \* [Waker -> Worker]: the node it wakes
  failed,    \* the wakers for which deployFunctions has counted a failure
  calls,     \* the calls of deployClient that a caller or a node is busy with
  running,   \* the workers whose tinyFaaS runs
  held,      \* [Worker -> [Function -> Version]]: what its proxy routes to
  decided,   \* [Worker -> Decision]: what the controller is about to do
  sweep,     \* the nodes EnforceSleeping may still switch off
  gap,       \* history: <<worker, function>> the leader has lost track of
  covered,   \* history: the wakes that copied the store after the last change
  overwritten  \* history: nodes whose status the controller set during a wake

leader  == <<store, made, endpoint, current, covered>>
power   == <<running, held, calls>>
control == <<decided, sweep>>
waking  == <<status, wake, target, failed, overwritten>>
vars == <<store, made, endpoint, current, status, wake, target, failed, calls,
          running, held, decided, sweep, gap, covered, overwritten>>

Absent == 0
Version == 0 .. MaxVersion
Status == {"sleeping", "waking", "active", "dead"}

\* "on": PowerOn is next; "boot": waitForNodeReady; "deploy": deployFunctions.
Phase == {"none", "on", "boot", "deploy"}

\* "dead": dead in the list RecoverDead goes through; "healthy": and it has just
\* answered; "idle": the scan has chosen it; "off": its power is off by now.
Decision == {"nothing", "dead", "healthy", "idle", "off"}

\* by "nobody": the caller is gone and the node is still at it.  Whether the
\* node has a request somebody waits for is decided when it makes a difference.
CallType ==
  [node : Worker, fn : Function, ver : Version, by : {"broadcast", "nobody"} \cup Waker]

Nothing == [f \in Function |-> Absent]

\* The leader starts.  That EnforceSleeping skips a node or fails to switch it
\* off, or does not run at all in the baseline, are behaviours in which its step
\* is never taken.
Init ==
  /\ store = Nothing /\ made = 0 /\ endpoint = "idle" /\ current = None
  /\ status = [n \in Worker |-> "sleeping"]
  /\ wake = [w \in Waker |-> "none"] /\ target = [w \in Waker |-> None]
  /\ failed = {} /\ calls = {}
  /\ running \in SUBSET Worker /\ held = [n \in Worker |-> Nothing]
  /\ decided = [n \in Worker |-> "nothing"] /\ sweep = Worker
  /\ gap = {} /\ covered = {} /\ overwritten = {}

-------------------------------------------------------------------------------
(* Calls of deployFunction and deleteFunction.                                *)

Upload(n, f, by) ==
  [node |-> n, fn |-> f, ver |-> store[f], by |-> by]

\* The calls of a caller, or of a waker.
Waiting(by) == {c \in calls : c.by = by}

About(n, f) == {c \in calls : c.node = n /\ c.fn = f}

WakesOf(n) == {w \in Waker : target[w] = n}

\* What the leader has told node n counts.
Relied(n) == status[n] = "active" \/ \E w \in WakesOf(n) : wake[w] = "deploy"

\* The pairs of node n are as in G from now on, if they still count.
Track(n, G) == gap' = IF Relied(n)' THEN G ELSE {g \in gap : g[1] # n}

\* What the caller does about an error: a broadcast logs it, a wake counts it.
CountFailure(c) == failed' = failed \cup ({c.by} \cap Waker)

\* The node has done it and says so.  A delete of a function it has not is
\* refused.
Succeed(c) ==
  /\ c.node \in running
  /\ c.ver = Absent => held[c.node][c.fn] # Absent
  /\ held' = [held EXCEPT ![c.node][c.fn] = c.ver]
  /\ calls' = calls \ {c}
  /\ gap' = IF c.by = "broadcast" /\ About(c.node, c.fn) = {c}
            THEN gap \ {<<c.node, c.fn>>} ELSE gap
  /\ UNCHANGED <<leader, control, waking, running>>

\* The node answers with an error, which can come after the route was switched.
Fail(c) ==
  /\ c.node \in running
  /\ \E v \in {held[c.node][c.fn], c.ver} : held' = [held EXCEPT ![c.node][c.fn] = v]
  /\ calls' = calls \ {c}
  /\ CountFailure(c)
  /\ UNCHANGED <<leader, control, status, wake, target, overwritten, running>>
  /\ Track(c.node, IF c.by = "broadcast" THEN gap \cup {<<c.node, c.fn>>} ELSE gap)

\* The calls that a node goes on with when their callers are gone.
Abandoned(C) == {[c EXCEPT !.by = "nobody"] : c \in C}

\* Mutant: without a timeout only a node that is there can refuse a call.
Refusable(c) == c.by # "nobody" /\ c.node \in running

\* deployClient waits for DEPLOY_TIMEOUT, whatever has become of the node.
TimesOut(c) == c.by # "nobody"

\* The caller gets an error of the network or reaches its timeout.  A node that
\* has the whole request does not notice.
NoAnswer(c) ==
  /\ TimesOut(c)
  /\ \/ calls' = calls \ {c}
     \/ c.node \in running /\ calls' = (calls \ {c}) \cup Abandoned({c})
  /\ CountFailure(c)
  /\ UNCHANGED <<leader, control, status, wake, target, overwritten, running, held>>
  /\ Track(c.node, gap \cup {<<c.node, c.fn>>})

-------------------------------------------------------------------------------
(* The endpoint.                                                              *)

Change(f, v) ==
  /\ endpoint = "idle"
  /\ store' = [store EXCEPT ![f] = v]
  /\ endpoint' = "set" /\ current' = f /\ covered' = {}
  /\ UNCHANGED <<power, control, waking, gap>>

Set(f) ==
  /\ made < MaxVersion /\ made' = made + 1
  /\ Change(f, made + 1)

Remove(f) ==
  /\ store[f] # Absent
  /\ Change(f, Absent)
  /\ UNCHANGED made

\* BroadcastFunction or BroadcastDelete.  A node whose wake copied the store
\* before the change may learn of it from neither, or be told before the wake
\* deploys what it has copied.
Broadcast ==
  /\ endpoint = "set" /\ endpoint' = "sent"
  /\ calls' = calls \cup
       {Upload(n, current, "broadcast") : n \in {w \in Worker : status[w] = "active"}}
  /\ gap' = gap \cup
       ({target[w] : w \in {v \in Waker \ covered : wake[v] = "deploy"}} \X {current})
  /\ covered' = {}
  /\ UNCHANGED <<store, made, current, control, waking, running, held>>

\* Mutant: the endpoint does not wait for the broadcast.
AnswerAtOnce ==
  /\ endpoint = "sent"
  /\ endpoint' = "idle" /\ current' = None
  /\ UNCHANGED <<store, made, covered, power, control, waking, gap>>

\* Mutant: the request is not forgotten.
AnswerKeepsCurrent ==
  /\ endpoint = "sent" /\ Waiting("broadcast") = {}
  /\ endpoint' = "idle"
  /\ UNCHANGED <<store, made, current, covered, power, control, waking, gap>>

\* wg.Wait, and the answer.
Answer ==
  /\ endpoint = "sent" /\ Waiting("broadcast") = {}
  /\ endpoint' = "idle" /\ current' = None
  /\ UNCHANGED <<store, made, covered, power, control, waking, gap>>

-------------------------------------------------------------------------------
(* The computers.                                                             *)

\* Node n loses its containers and the calls it works on.
Lose(n) ==
  /\ held' = [held EXCEPT ![n] = Nothing]
  /\ calls' = {c \in calls : c.node # n \/ c.by # "nobody"}

SwitchOff(n) ==
  /\ Lose(n) /\ running' = running \ {n}
  /\ gap' = {g \in gap : g[1] # n}

\* A computer that gets power boots with no functions, whatever the leader has
\* told it.
CloseRelay(n) ==
  /\ running' = running \cup {n}
  /\ Track(n, IF n \in running THEN gap ELSE gap \cup ({n} \X Function))

\* A node or its tinyFaaS restarts under the leader, which does not notice.
Crash(n) ==
  /\ n \in running /\ Lose(n)
  /\ UNCHANGED <<leader, control, waking, running>>
  /\ Track(n, gap \cup ({n} \X Function))

\* A command to another outlet of the relay takes back a switch that reported
\* an error (Relay); any outlet may be one of those.
SwitchBack(n) ==
  /\ UNCHANGED <<leader, control, waking>>
  /\ SwitchOff(n) \/ (CloseRelay(n) /\ UNCHANGED <<held, calls>>)

-------------------------------------------------------------------------------
(* Waking a node: w runs wakeNode.  Another goroutine does when the status has *)
(* been overwritten meanwhile.                                                *)

BeginWake(w, n) ==
  /\ wake[w] = "none" /\ status[n] \in {"sleeping", "dead"}
  /\ status' = [status EXCEPT ![n] = "waking"]
  /\ wake' = [wake EXCEPT ![w] = "on"] /\ target' = [target EXCEPT ![w] = n]
  /\ UNCHANGED <<leader, power, control, failed, gap, overwritten>>

\* w is in the wake of n, at phase p.
At(w, n, p) == target[w] = n /\ wake[w] = p

\* wakeNode returns with the status it gives the node, whatever that is by now.
WakeReturns(w, n, s) ==
  /\ status' = [status EXCEPT ![n] = s]
  /\ wake' = [wake EXCEPT ![w] = "none"] /\ target' = [target EXCEPT ![w] = None]
  /\ failed' = failed \ {w} /\ covered' = covered \ {w}
  /\ overwritten' = IF WakesOf(n) = {w} THEN overwritten \ {n} ELSE overwritten
  /\ UNCHANGED <<store, made, endpoint, current, control>>

\* How long the node takes to boot is the choice between NeverReady and
\* DeployFunctions.
PowerOn(w, n) ==
  /\ At(w, n, "on") /\ wake' = [wake EXCEPT ![w] = "boot"]
  /\ UNCHANGED <<leader, held, calls, control, status, target, failed, overwritten>>
  /\ CloseRelay(n)

PowerOnFails(w, n) ==
  /\ At(w, n, "on") /\ WakeReturns(w, n, "dead")
  /\ UNCHANGED <<held, calls>>
  /\ CloseRelay(n) \/ (UNCHANGED running /\ Track(n, gap))

NeverReady(w, n) ==
  /\ At(w, n, "boot") /\ WakeReturns(w, n, "dead")
  /\ UNCHANGED power /\ Track(n, gap)

\* /health answers, and deployFunctions copies the store.  What the leader
\* cannot know of: functions the node kept that it has not got, and requests
\* for something else that the node still has, or gets from another wake.
DeployFunctions(w, n) ==
  /\ At(w, n, "boot") /\ n \in running
  /\ wake' = [wake EXCEPT ![w] = "deploy"]
  /\ calls' = calls \cup {Upload(n, f, w) : f \in {g \in Function : store[g] # Absent}}
  /\ gap' = gap \cup {<<n, f>> : f \in {g \in Function :
       \/ store[g] = Absent /\ held[n][g] # Absent
       \/ \E c \in About(n, g) : c.by = "nobody" \/ c.ver # store[g]}}
  /\ covered' = IF endpoint = "set" THEN covered \cup {w} ELSE covered
  /\ UNCHANGED <<store, made, endpoint, current, running, held, control, status, target,
                 failed, overwritten>>

\* wg.Wait is over.
Deployed(w, n) == At(w, n, "deploy") /\ Waiting(w) = {}

\* Mutant: a node is active whatever deployFunctions counted.
WakesAnyhow(w, n) ==
  /\ Deployed(w, n) /\ WakeReturns(w, n, "active")
  /\ UNCHANGED <<power, gap>>

Wakes(w, n) ==
  /\ Deployed(w, n) /\ w \notin failed /\ WakeReturns(w, n, "active")
  /\ UNCHANGED <<power, gap>>

\* A function failed: the node is switched off again.
TakeBack(w, n) ==
  /\ Deployed(w, n) /\ w \in failed
  /\ \/ WakeReturns(w, n, "sleeping") /\ SwitchOff(n)
     \/ /\ WakeReturns(w, n, "dead")
        /\ SwitchOff(n) \/ (UNCHANGED power /\ Track(n, gap))

-------------------------------------------------------------------------------
(* Scaling down, recovery and start-up.  The controller decides from a list it *)
(* has read before, and sets a status whatever it has become.                 *)

Decide(n, d) ==
  /\ decided' = [decided EXCEPT ![n] = d]
  /\ UNCHANGED <<leader, waking, sweep>>

Overwrite(n, s) ==
  /\ status' = [status EXCEPT ![n] = s]
  /\ overwritten' = IF WakesOf(n) = {} THEN overwritten ELSE overwritten \cup {n}
  /\ decided' = [decided EXCEPT ![n] = "nothing"]
  /\ UNCHANGED <<leader, power, wake, target, failed, sweep>>

\* ListNodes, in RecoverDead and in the scan.
ListNode(n) ==
  /\ decided[n] = "nothing"
  /\ \/ status[n] = "dead" /\ Decide(n, "dead")
     \/ status[n] = "active" /\ Decide(n, "idle")
  /\ UNCHANGED <<power, gap>>

\* No answer and no cooldown yet; the scan keeps the node, or its relay reports
\* an error and switches nothing.
LeaveNode(n) ==
  /\ decided[n] \in {"dead", "idle"} /\ Decide(n, "nothing")
  /\ UNCHANGED <<power, gap>>

Healthy(n) ==
  /\ decided[n] = "dead" /\ n \in running /\ Decide(n, "healthy")
  /\ UNCHANGED <<power, gap>>

\* RecoverDead: a node that answers is trusted as it is, and deployed nothing.
RestoreDead(n) ==
  /\ decided[n] = "healthy" /\ Overwrite(n, "active")
  /\ gap' = gap \cup ({n} \X Function)

RetireDead(n) ==
  /\ decided[n] = "dead" /\ Overwrite(n, "sleeping")
  /\ Track(n, gap)

\* DeactivateNode: the relay, then the status, unless the relay has reported an
\* error.
CutOff(n) ==
  /\ decided[n] = "idle" /\ SwitchOff(n)
  /\ Decide(n, "off") \/ Decide(n, "nothing")

MarkSleeping(n) ==
  /\ decided[n] = "off" /\ Overwrite(n, "sleeping")
  /\ Track(n, gap)

\* EnforceSleeping acts on what it read, whatever the node is by now.
EnforceSleeping(n) ==
  /\ n \in sweep /\ sweep' = sweep \ {n} /\ SwitchOff(n)
  /\ UNCHANGED <<leader, waking, decided>>

\* The leader's process starts anew, with an empty store; the workers do not
\* notice.
LeaderRestarts ==
  /\ store' = Nothing /\ endpoint' = "idle" /\ current' = None /\ covered' = {}
  /\ status' = [n \in Worker |-> "sleeping"]
  /\ wake' = [w \in Waker |-> "none"] /\ target' = [w \in Waker |-> None]
  /\ failed' = {} /\ overwritten' = {}
  /\ \E C \in SUBSET {c \in calls : c.node \in running} :
       calls' = Waiting("nobody") \cup Abandoned(C)
  /\ decided' = [n \in Worker |-> "nothing"] /\ sweep' = Worker
  /\ gap' = {}
  /\ UNCHANGED <<made, running, held>>

-------------------------------------------------------------------------------
CallStep(c) == Succeed(c) \/ Fail(c) \/ NoAnswer(c)

WakeStep(w, n) ==
  \/ BeginWake(w, n) \/ PowerOn(w, n) \/ PowerOnFails(w, n) \/ NeverReady(w, n)
  \/ DeployFunctions(w, n) \/ Wakes(w, n) \/ TakeBack(w, n)

ControlStep(n) ==
  \/ ListNode(n) \/ LeaveNode(n)
  \/ Healthy(n) \/ RestoreDead(n) \/ RetireDead(n)
  \/ CutOff(n) \/ MarkSleeping(n)
  \/ EnforceSleeping(n)

Next ==
  \/ \E f \in Function : Set(f) \/ Remove(f)
  \/ Broadcast \/ Answer
  \/ \E c \in calls : CallStep(c)
  \/ \E w \in Waker, n \in Worker : WakeStep(w, n)
  \/ \E n \in Worker : ControlStep(n) \/ Crash(n) \/ SwitchBack(n)
  \/ LeaderRestarts

\* The end of a call somebody waits for: an answer, or the timeout.
Ends(c) == Succeed(c) \/ Fail(c) \/ NoAnswer(c)

\* The endpoint's goroutine runs, and so do those of the broadcast, whose calls
\* end by DEPLOY_TIMEOUT at the latest.
Fairness ==
  /\ WF_vars(Broadcast) /\ WF_vars(Answer)
  /\ WF_vars(\E c \in calls : c.by = "broadcast" /\ Ends(c))

Spec == Init /\ [][Next]_vars /\ Fairness

-------------------------------------------------------------------------------
TypeOK ==
  /\ store \in [Function -> Version] /\ made \in Version
  /\ endpoint \in {"idle", "set", "sent"} /\ current \in Function \cup {None}
  /\ endpoint = "idle" <=> current = None
  /\ status \in [Worker -> Status] /\ wake \in [Waker -> Phase]
  /\ target \in [Waker -> Worker \cup {None}]
  /\ \A w \in Waker : target[w] = None <=> wake[w] = "none"
  /\ failed \subseteq Waker /\ calls \subseteq CallType
  /\ running \subseteq Worker
  /\ held \in [Worker -> [Function -> Version]]
  /\ decided \in [Worker -> Decision] /\ sweep \subseteq Worker
  /\ gap \subseteq Worker \X Function /\ covered \subseteq Waker
  /\ overwritten \subseteq Worker

\* An active worker serves, of every function, what the store says or a broadcast
\* is about to bring it, unless it was told and the telling failed, it crashed or
\* was cut and booted again as active, RecoverDead made it active, it kept what an
\* earlier run of the leader gave it, or the change fell between the copy a wake
\* took and the end of that wake.
InSync ==
  \A n \in Worker, f \in Function :
    /\ status[n] = "active" /\ n \in running
    /\ <<n, f>> \notin gap
    /\ ~(endpoint = "set" /\ current = f)
    => held[n][f] = store[f] \/ \E c \in About(n, f) : c.by = "broadcast"

\* An active node leaves what it serves for something else than the store's
\* version only when it goes down, for a request whose caller gave up, or for one
\* of a wake during which the controller has overwritten its status.
StaleOnlyLate ==
  [][\A n \in Worker, f \in Function :
       status[n] = "active" /\ held'[n][f] \notin {held[n][f], store[f]}
         => \/ n \notin running' \/ Crash(n)
            \/ \E c \in About(n, f) \ calls' :
                 c.by = "nobody" \/ (c.by \in Waker /\ n \in overwritten)]_vars

\* Every change is answered, whatever the workers do.
ChangeAnswered == endpoint = "set" ~> endpoint = "idle"
===============================================================================
