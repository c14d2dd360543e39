# TLA+ models of the power-aware tinyFaaS cluster

tinyFaaS-ext runs functions on a small cluster of Raspberry Pis. One node, the
leader, schedules the requests, switches the other nodes (the workers) on and
off through Tinkerforge relays, and deploys the functions to them when they
wake. This directory models the part of that system whose correctness depends
on the order of events: the leader's registry, its scheduler, its scale-down
controller, the relay controller underneath, the management of functions on one
node and their distribution to the others, and the tool that checks the wiring
before an experiment. TLC checks the models on small instances; TLAPS proves the
central invariants for any number of nodes, requests and functions.

Paths below are relative to `src/tinyFaaS-ext/`.

## 1. The system

| Component | State | Operations | Model |
|---|---|---|---|
| Registry (`pkg/cluster/registry.go`, `types.go`) | status, load, last use of each node; `activations` | `ActivateNode`/`wakeNode`, `IncLoad`, `DecLoad`, `TouchNode`, `SetStatus`, `RecoverDead`, `DeactivateNode`, `EnforceSleeping`, `PrewarmAll`, broadcasts | `Registry`, `RegistryHistory`; deploys and broadcasts call by call: `FunctionSync` |
| Scheduler (`pkg/cluster/scheduler.go`) | none | `PickNode` | `Scheduler`, `PickNode` |
| Controller (`pkg/cluster/controller.go`) | a snapshot and a count per cycle | one cycle: recover, snapshot, scan | `Registry`, `RegistryHistory` |
| HTTP front end (`pkg/http/http.go`) | one goroutine per request | pick, activate, account, call or forward | `Registry` |
| Leader process (`cmd/rproxy/main.go`) | wires the above | start-up; the add/delete endpoint | start-up in `Registry`; endpoint in `FunctionManager` and `FunctionSync` |
| Relay controller (`tinkerforgefunc/main.go`) | the cached positions, a mutex | `PowerOn`, `PowerOff` | `PowerSwitch`, `Relay` |
| Configuration (`pkg/cluster/config.go`) | none | `LoadNodes`, `ValidateNodes`, environment | `Topology` |
| Function store (`pkg/cluster/functions.go`) | the known functions | `Set`, `Remove`, `All` | `FunctionManager`, `FunctionSync` |
| Management service (`pkg/manager`, `cmd/manager`) | handlers by name, a mutex | upload, delete, wipe, reaper, interrupt | `Rollout`, `FunctionManager` |
| Reverse proxy table (`pkg/rproxy`) | hosts and last uses by name | `Add`, `Del`, `Call` | `Rollout`, `FunctionManager` |
| Docker backend (`pkg/docker`) | containers, networks | create, start, destroy, remove orphans | `FunctionManager` |
| CoAP and gRPC front ends | none | one `Call` per request | not modelled |
| Wiring check (`cmd/verify-wiring`) | one result per worker | power all off, verify each worker, report | `WiringCheck` |
| Runtimes, `pkg/util` | none of the cluster's | serving inside a container, file handling | not modelled |

How they interact. A request goes through `ListNodes`, `PickNode`,
`ActivateNode`, `IncLoad`, the call itself, `TouchNode` and `DecLoad`; each of
these takes `r.mu` by itself and nothing is held between them. `ActivateNode`
on a sleeping or dead node marks it `waking`, records an attempt in
`r.activations`, and calls the relay and the node outside the lock; others who
find the node waking wait for that attempt. The controller works on snapshots
and rewrites statuses at the same time, and so do the start-up sweeps.

An upload or delete goes to the management service, which reads its table,
takes `functionHandlersMutex`, calls Docker, and posts the change to the
endpoint of the reverse proxy, a child process; the endpoint changes the host
table, then the function store, then tells the active nodes, and answers. The
mutex is held from the first call of Docker to that answer. On the leader this
proxy is also the process that runs the registry. Each worker runs the same two
processes, and the leader's broadcasts and deploys are uploads and deletes to
them. `verify-wiring` runs on its own, before the leader is started.

What is hard here:

- every decision is made on a snapshot and carried out later (scheduler,
  recovery, scan, `EnforceSleeping`);
- a wake takes minutes, and four parties may rewrite the node's status in that
  time;
- the single-flight entry and the status are updated in two critical sections;
- every exchange with a relay or a node can fail, and a relay command that
  reports an error may have worked;
- the leader restarts with empty memory while relays keep their positions;
- one upload changes four places in three processes (the management service's
  table, Docker, the host table, the store), each step can fail, and both
  upload and delete act on a handler they read before they took the mutex;
- the two processes of a node end independently, and the containers outlive
  both;
- a worker learns of a function either when it wakes or by one broadcast that is
  never repeated, and goes on with a request whose sender has given up;
- a relay has two channels which are written together.

What correctness means, per component: the registry accounts load exactly, wakes
a node by one process at a time, never strands a waiter, and calls a node active
only when it can serve; the controller never cuts a busy node, never goes below
its floor, and does switch off what is idle; the scheduler's choice does not
depend on the order of a Go map; the relay controller switches one outlet per
call; what a node's proxy routes to runs, is listed by its management service
and is the version in the store; an active worker has the functions the leader
knows; the configuration accepts exactly the topologies the rest can work with;
the wiring check calls a wiring right when it is.
The list of hazards with the line each one bites at is in `PROJECT.json`.

## 2. The modules

### `Scheduler` and `PickNode`

`Scheduler` says which nodes `PickNode` may return, as a set (`Pickable`): ties
are broken by the order of a slice that `ListNodes` fills from a Go map, so any
member of the set may come out. `PickNode` is the loop of the code, one action
per branch of its body, over an arbitrary slice. `PicksFirstPickable` says that
the loop returns the first position of the slice that belongs to `Pickable`,
and none only if that set is empty. `Registry` therefore uses `Pickable`.

### `Registry`

One action is one critical section of `r.mu`, one relay command or one exchange
with a node, since everything else is local to a goroutine. The processes are:

- a *request* (`Handler`), `idle -> activate -> ... -> inc -> serve -> touch ->
  dec -> idle`; when it ends the same process stands for the next request;
- a *prewarm goroutine* per worker, which calls `ActivateNode` and ends. It
  shares every action of `ActivateNode` with the requests;
- the *controller*, `sleep -> recover (-> restore)* -> scan (-> cut -> mark)* ->
  sleep`. Its two snapshots are `ctodo` and `cidle`, its count is `ccount`;
- *EnforceSleeping*, a snapshot and one relay command per node;
- the *environment*: machines boot, time passes.

`ActivateNode` is `AlreadyActive`, `Follow` (or `NilActivation`, the nil
dereference) and `BeginWake`; `wakeNode` is `PowerOn`, `NodeReady`,
`DeployFunctions`, `PowerOffFailed`, `SetFinal`; then `DropActivation` deletes
the entry and `CloseActivation` closes the channel, at which point the owner and
all its followers return. `verdict` is the final status the attempt has decided
on, between the decision and the `SetStatus`.

| Code | Model |
|---|---|
| `Node.Status`, `Node.Load` | `status`, `load` |
| `time.Since(LastUsed) >= IdleTimeout` | `idle` (cleared by `TouchNode`, set by `IdlePasses`), and `cidle` for the snapshot's copy |
| `r.activations[id]` | `activations[n]`: the owner of the attempt |
| waiting in `activation.wait` | `pc = "wait"`, `waitsOn` |
| the goroutine's stack | `pc`, `target`, `verdict` |
| the computer | `machine`: off, booting, up without functions, ready |
| a relay channel that is not where the relay controller's cache has it | `astray` |
| two nodes with one `relay_uid` | `Sibling` |

Abstractions. Functions are not named: a machine has all of them or it has not,
and the leader is taken to know at least one. Deploying them concurrently is one
step with two outcomes. Timeouts and cooldowns are nondeterministic choices, so
every relation between them is covered, also configurations in which a follower
gives up first. A machine's power changes only by commands to its relay:
its own (`Switch`), and those to the other channel, which take back what a command
that reported an error has left `astray` there (`Reaches`). This is the rule
`PowerSwitch` states for any board and `Relay` is proved to follow. Only machines
that are up answer `/health` and accept functions. A forwarded call may fail at
any time, and succeeds only on a machine that is up; a machine without the
function answers 404, which the handler treats like every other answer but 200
and 202. The topology is fixed while the process runs, as in the code, and its
statuses are those `LoadNodes` fills in.

### `RegistryHistory`

`WakeExclusive` and `ActiveReady` hold in the baseline; with power management on
the code breaks both. `RegistryHistory` says how much of them is left. It adds two
history variables to `Registry` which every step determines and no step reads:

| Variable | A worker enters by | and leaves by |
|---|---|---|
| `overwritten` | `Overwrites`: `RecoverDead` sets the status of a node that is not dead any more (`registry.go:234-243`) | `WakesAlone` while no scan is under way |
| `degraded` | `Revives`: `RecoverDead` makes a node active; `SweepsAwake`: `EnforceSleeping` cuts a node that has left sleeping (`registry.go:433`); `CutsUnnoticed`: `DeactivateNode` cuts a node and is told that it did not (`registry.go:458`) | `WakesAlone` |

`WakesAlone` is a wake of the node that begins while no other is in progress.
`WakeExclusiveUnlessOverwritten`, `ActiveReadyUnlessDegraded` and `FloorHolds` are
the three promises outside these events. Nothing else that overlaps a wake, such
as a stale pick, the scan, a relay that fails within a wake or a sibling's
commands, can break them.

### `PowerSwitch` and `Relay`

`PowerSwitch` is what the registry can expect of a `PowerController`: a successful
call has switched its own outlet and no other, a failed one has switched nothing.
The exception are `Faulty` outlets, whose call may report an error after it has
switched (`FailLate`, the answer of `SetValue` is lost). Such an outlet is `astray`:
the next switch of an outlet on the same `Board` takes it back to where it was,
unless a call of its own comes first.

`Relay` is `setChannel`: the default relay, the channel check, the mutex, the
adoption of the positions on first use, the write of both channels, the update of
the cache, and the restart of the process at any point. `Flaky` are the relays
that may switch and still report an error, `Demanded` the arguments that occur.
`ImplementsPowerSwitch` is the refinement, with `INSTANCE PowerSwitch WITH` the
relay contacts as outlets, the moment of `SetValue` as the switch, the two channels
of a relay as its board, and `Differs`, the outlets that are not where the cache
has them, as `astray`. `DesiredIsReal` is the part of the mapping a reader of the
code would state: only flaky relays have such outlets.

### `Topology`

The loop of `ValidateNodes` with its two maps and its counter, one action per
fate of a node. `Valid` says what a topology should be, of the list as a whole;
`AcceptsExactlyValid` compares the two.

### `WiringCheck`

`cmd/verify-wiring`, on top of `Topology`: the tool loads the nodes with
`LoadNodes`, and goes on when they are valid. How the laboratory is cabled is
chosen when it starts and is unknown to it: `feeds` (the machine behind an
outlet), `host` (the machine that has an address), `meter` (the machine a
bricklet measures). `on` are the machines that have power.

| Code | Model |
|---|---|
| the first loop of `main`, `log.Fatalf` | `PowerAllOff`, `GiveUp` |
| `setRelay`: both channels read, both written | `SetRelay`, in `Lit` and `AfterOff`; in the loops `SwitchedOff` with the workers `TakenBack` |
| `verifyWorker` | `VerifyWorker`, and `PowerOnFails` for its early return |
| `healthy`, `readAll`, `roseAbove` | `Answers`, `Rising` with the choice of `saw` |
| the second loop of `main`, `report` | `Report`; `problem` is the verdict so far |

Watts and seconds are abstracted: the bricklet of a machine just powered on
rises (`Missed` is the fault that it does not), and the bricklet of one that was
on before may rise too, when the machine gets busier or the baseline could not
be read (`Misled`). `failed` remembers whether there has been any fault.

`setRelay` keeps no state of its own: it reads both channels of the relay and
writes both, so it writes the other channel as it has read it. What it reads may
be from before the write just made to that relay, as the comment in
`tinkerforgefunc/main.go:24-35` says of the code it replaced. The two loops over
all workers switch two siblings one right after the other, so of a pair the one
switched off first may be switched on again, with no error (`TakenBack`: of two
siblings at most one, since the later call writes its own channel as asked).
Between the calls of `verifyWorker` the tool pauses (`settleAfterOff` after a
power-off, at least one poll after a power-on), and a write is assumed visible
after a pause; the one path without a pause, a failed power-on, may leave the
machine on or off in any case (`PowerOnFails`). `stuck` are the machines behind
outlets that are or were on and that the tool takes to be off: those an ignored
relay error left on, and those taken back in the first loop.

`VerifiedIsWired` says what a good report is worth, `AlarmIsReal` what a bad one
is. Both name the read-back as an exception, because it is one: the machine
taken back can answer or rise for another worker, and when its own turn comes it
does not rise, so a right wiring is reported as a mismatch with no fault
anywhere. Without a worker that shares its relay with another the alarm has no
exception.

### `FunctionSync`

How functions reach the workers. A version stands for a definition
(`FunctionDef`), `Absent` for none.

| Code | Model |
|---|---|
| `FunctionStore.funcs` | `store` |
| the endpoint between the change of the store and its answer | `endpoint`, `current`: `Change`, `Broadcast`, `Answer` |
| a goroutine in `wakeNode` | a member of `Waker`, with its phase `wake` and its node `target`: `BeginWake`, `PowerOn` or `PowerOnFails`, `NeverReady` or `DeployFunctions`, then `Wakes` or `TakeBack`; `failed` are those that counted a failure |
| one call of `deployFunction` or `deleteFunction` | a member of `calls`: `Succeed`, `Fail`, `NoAnswer` |
| a request the node still works on after `DEPLOY_TIMEOUT` or after the leader died | the same, `by = "nobody"` |
| what the worker's proxy routes to | `held` (lost when it goes down) |
| what the controller has read or done about a node and not acted on yet | `decided`: `ListNode` (the snapshot), `Healthy` (an answered health check), `LeaveNode` |
| `RecoverDead`, `DeactivateNode`, `EnforceSleeping` | `RestoreDead`/`RetireDead` from that decision, `CutOff` and `MarkSleeping`, `EnforceSleeping` with `sweep` |
| `SetStatus` by the controller, whatever the status is by now | `Overwrite`; `overwritten` remembers the nodes it has hit during a wake |

`calls` are individual, so those of one broadcast end in any order and between
the steps of wakes; the deploy of a wake and a broadcast may overlap on a node.
`gap` is a history variable: the pairs of a worker and a function the leader
relies on and may be wrong about. It grows only at seven events, each of which
is in the code: a call that fails or gets no answer; a change that falls between
a wake's copy of the store and the end of that wake; a crash; a boot of a node
the leader relies on (the node was cut while it was, or was made, active, and
gets power again from a wake that is late or a command to its sibling); the restoring of a dead node without
a deploy; a function the woken node kept that the store has not; a request for
something else than the store's version that the node still works on, of an
earlier leader, an earlier wake or another wake under way. A broadcast that is
answered, with no other call about the function under way, closes a gap. `InSync`
says that no other sequence of events makes an active worker serve something
else than the store says, unless a broadcast is about to put it right.

`RecoverDead` is where this is hard. It decides from a list of nodes, asks the
node for up to two seconds, and then sets the status whatever the node has
become: it can be waking, with a deploy under way, or active, or be cut by the
scan of the same cycle while the wake goes on to power it up. A node set back to
sleeping can be woken a second time beside the first wake. Then a node can be
active while a wake still deploys an older copy of the store: it takes a
broadcast and then that older version. This is the third case of
`StaleOnlyLate`, and `overwritten` says that nothing but an overwrite opens it.

Abstractions. The controller's steps about different nodes may interleave,
although its goroutine takes one node after the other, and it may choose any
active node, since loads and idle times are left out. An outlet whose switch
reported an error can be switched by a later command to its sibling; which
outlets those are is not tracked, so any may be switched at any moment
(`SwitchBack`). Changes come one after the other, since the management service
holds `functionHandlersMutex` until the endpoint answers (`FunctionManager`).
The workers' own reapers are off (`FUNCTION_IDLE_TIMEOUT=0`, which
`manager.go:399-411` asks for in a cluster). How long a machine boots is the
choice between `NeverReady` and `DeployFunctions`. Whether a call that its sender
gave up had reached the node is decided when it is given up. Equal abandoned
calls are one. A relay error that switches nothing changes nothing here and is
no step. In the baseline `EnforceSleeping` and `CutOff` are not taken; the runs
and proofs cover those behaviours with the others.

### `FunctionManager`

The functions of one node. A *deployment* is one `dockerHandler` with its
containers, created by one upload, and stands for the version of the function it
was built from; `NoThreads` are those uploaded with `threads = 0`, which have no
container and whose message to the proxy therefore reads as a delete. The
processes are the *requests* (goroutines of the management service's HTTP
server), the *reaper* of `StartController`, and the *stopper* that waits for an
interrupt.

- An upload: `UploadBegins` (the read of the old handler), `Create` or
  `CreateFails`, `Start` or `StartFails`, the endpoint, then `Uploaded` or
  `DestroyOld`.
- A delete, also each one of a wipe, of the reaper and of the interrupt:
  `NextName`, `Look` (the read of the handler) or `NotFound`, `DestroyHandler`
  or `DestroyFails`, the endpoint, `Deleted`.
- The endpoint: `AddHost`, or `DelHost`/`DelUnknown`, then `SetStore`;
  `PostFails` when the proxy is gone.
- `CallBegins` and `CallEnds` are calls through the proxy, which keep
  `functionLastUsed`; `MapRace` is the unlocked read of the host table, after
  which the Go runtime may end the proxy; nobody restarts it.
- `Halt` is every end of the service (exit after an interrupt, a panic, power),
  `Boot` its next start: systemd restarts it (`deploy/tinyfaas.service`), and
  `RemoveOrphans` runs before it serves.

| Code | Model |
|---|---|
| `functionHandlers`, `functionHandlersMutex` | `handlers`, `mu` |
| `RProxy.hosts`, `FunctionStore.funcs` | `hosts`, `store` |
| `RProxy.functionLastUsed` against `functionIdleTimeout` | `lastUsed`: never, recent, old |
| the containers and network of a handler, `dockerHandler.name` | `docker`, `named` |
| `fh`, `oldHandler`, the names left to delete | `fh`, `old`, `todo` |

`Rollout` is what all this promises to a caller of the functions: `routed`, the
version under each name; `stock`, the versions an upload can still bring in; and
per actor the one change it is about. A change of the routes is one request taking
effect, once, for its own function: an upload brings in its own new version, a
delete takes the name away, and a version that left the routes does not come
back before the next start. The reaper and the interrupt are actors as requests
are. `ImplementsRollout` is the refinement; `routed` is the host table, and an
actor's change is its target and deployment from the moment it begins until the
table is changed.

Taking the mutex and the first call of Docker under it are one step: what lies
between them is local to the holder. `Destroy` is one step with the outcomes
its error paths leave: nothing done, some of it done (`broken`), all done. The
same deployment cannot be uploaded twice, so deployments bound the number of
uploads between two starts; a start frees those it has removed.

### Properties, model-checking and proof modules

`RegistryProperties` states what must hold of `Registry`; `MCRegistry`,
`MCRegistryHistory`, `MCRelay`, `MCTopology`, `MCWiring` and `MCFunctionManager`
add what TLC needs. `RegistryProofs`, `RegistryBaselineProofs`,
`RegistryHistoryProofs`, `PickNodeProofs`, `RelayProofs`, `FunctionManagerProofs`
(also about `Rollout`), `FunctionSyncProofs` and `WiringProofs` (also about
`Topology`) hold the proofs.
Definitions that a comment introduces as mutants are variants with a plausible
bug; they are not part of any specification.

## 3. What is checked

| Run | Instance | Shows |
|---|---|---|
| `registry_power` | 1 worker, 3 requests, power management on, failing relays | load is exact; nobody waits for an attempt without an owner; `waking` is never stale; one waker, and active nodes ready, outside the named events |
| `registry_baseline` | 2 workers on one relay, 2 requests, prewarming, failing relays | one waker per node; active nodes have their functions |
| `registry_live` | 1 worker, 2 requests, fair scheduling | wakes end, waiters are answered, dead nodes return, idle nodes are switched off |
| `pick_node` | slices of up to 3 nodes, loads 0 to 3, threshold 2 | the loop implements `Pickable` |
| `relay` | 2 relays (4 outlets), one of them flaky, 2 callers, restarts | refinement of `PowerSwitch`; only a flaky relay differs from the cache; calls return |
| `functions` | 1 name, 3 deployments (one without containers), 2 requests, reaper, interrupt, failing Docker, restarts | routes serve, are listed and match the store; changes are atomic; the mutex comes back; refinement of `Rollout` |
| `function_sync` | 1 worker, 2 wakes at once, 1 function, 2 uploads and any deletes, overwritten statuses, crashes, late calls, leader restarts | an active worker has what the store says, outside the named gaps; only a late call, a crash or a power-off takes it away; every change is answered |
| `topology` | up to 3 nodes, 1 relay named or left to the default; 3 machines cabled in any way, all faults and read-backs | the validator accepts exactly the valid lists; the wiring check's verdicts are right |
| `nil_activation` | 1 worker, 2 requests, baseline | *violated*: a waking node without an attempt |
| `kills_busy` | 2 workers, 2 requests, floor 1 | *violated*: the scan cuts a node under a request |
| `active_lacks_functions` | 1 worker, 1 request | *violated*: a revived node is active without functions |
| `outlet_alias` | 3 nodes, default relay also named | *violated*: two workers on one outlet |

Bounds. With one worker `registry_power` has the owner of an attempt, the owner
of the next one (started after a recovery) and a follower of either, together
with the controller: a fourth request could only be another follower. Two
workers matter where decisions relate nodes, so the baseline run has two, and
the runs on the scan have two and the default floor of one. The load threshold
of one makes a single request saturate a node, which is what makes the scheduler
wake a second. The leader is dispatch-only, as in `deploy/nodes.json`; otherwise
it would absorb the requests. Loads are bounded by the number of requests, no
other counter grows. Two callers are enough for the
relay controller: the mutex admits one at a time. Of the two relays one is named by
default and reliable, the other is flaky, so that what one does to its sibling
outlet can be told from what the other does; a call with a channel that no relay
has is among the requests. In `registry_baseline` the two workers are siblings.
With one worker `registry_power` has none; the proofs are for any sharing of
relays. What a scan may count on (`FloorHolds`) needs more workers than a run in
power-aware mode can have beside three requests, and is proved instead. Three nodes are the leader and two workers, the least that can share
a channel. Requests, workers and node names are interchangeable, and symmetry
is used in safety runs only.

In `function_sync` one worker is enough for the safety properties: each speaks of
one worker, the store is all that workers share, and the broadcast is under way
while the calls of its one worker are late, lost or overtaken. What matters is
how many goroutines wake that worker: a second wake needs an overwrite during
the first, and a third one only adds calls of the same kinds. Variants with
three wakes and, with one upload, with two workers or two functions keep the
safety properties as well, and the proofs are for any number of each. With two workers a broadcast would
wait for the slower; `ChangeAnswered` rests on each call ending by itself. The
restarts of the leader are unbounded. Two uploads are a version, a newer one that
replaces it and, with a delete between them, an upload under an old name; a
third would only be another newer one. Functions do not interact in this code
except that one failure undoes a wake. In `topology` the
third machine is one that no worker's outlet feeds, such as the leader's. One
relay has two channels, enough for two workers, and an empty UID is a second
key; two named relays are in `outlet_alias`.

In `functions` one name is enough: functions meet only in the mutex and in the
list of a wipe. Two requests, the reaper and the interrupt are four processes
that may hold a handler read too early. Two deployments with containers are a version and
the one that replaces it, and starts free them for more; the third covers
`threads = 0`. A third with containers, so that one request holds the last
version and another the one before it, passes as well but takes too long for a run
beside the refinement; the proofs are for any number.

Fairness. `registry_live` assumes that the goroutines run: weak fairness of the
steps of `ActivateNode` that are not waiting (all end by a timeout), of the
accounting steps and of the controller; and strong fairness of the retry of a
dead node, because a cooldown that is measured from a fixed moment runs out if
cycles go on. Nothing is assumed of arrivals, of the forwarded call (its client
has no timeout), of the safety timeout, or of machines: a machine may never
boot. `relay` assumes that a caller proceeds, and that Go's mutex does not
starve a waiter. `function_sync` assumes that the endpoint's goroutine goes on
(`Broadcast`, `Answer`) and that the calls of a broadcast end, which
`deployClient` ensures by its timeout, whatever becomes of the node; nothing is
assumed of wakes, of workers or of the power.

Deadlock is checked everywhere but in `pick_node`, `topology` and
`outlet_alias`, where the function returns.

### What the code does otherwise than it says

- **A waking node without an attempt.** `SetStatus(dead)` ends a failed wake
  before `delete(r.activations, id)` runs. A request or prewarm goroutine that
  had picked the node earlier starts the next attempt in between, and the delete
  removes the entry of that one. Whoever comes next finds `waking` and a nil
  activation and panics; in a prewarm goroutine that ends the leader.
- **A busy node is cut.** Load is read in the snapshot, and `DeactivateNode`
  does not look again.
- **An active node without functions.** `RecoverDead` restores a node that
  answers `/health`, although its wake failed before the deploy.
- **Two workers on one outlet.** `ValidateNodes` compares `relay_uid` as
  written, `setChannel` resolves the empty one to the default.

## 4. What is proved

For the registry: any finite sets of workers and requests, any floor and
threshold. For the management service: any sets of names, deployments and
requests, with and without failures of Docker. For the distribution of
functions: any workers, functions and number of uploads. For the configuration
and the wiring check: lists of any length, any machines, any cabling.

- `TypeCorrect`: `TypeOK` is an invariant of `Registry`. The inductive invariant
  `TypeInv` adds which phases have a target, and that prewarm goroutines are
  about workers.
- `SingleFlight` and `WakingIsDriven`: `FollowersHaveWaker` and
  `WakingHasWaker`. Neither is
  inductive alone. `FlightInv` adds `ActivationsOwned`, that the entry of
  `r.activations` belongs to a process that has begun an attempt on that node
  and not yet deleted its entry; a follower reads that entry. It holds although
  an attempt may delete the entry of another, because that only empties it.
- `LoadIsExact`: `LoadMatchesInFlight`, by the change of one element of the set
  of requests in flight, with the cardinality lemmas of `FiniteSetTheorems`.
- `BaselineSafe` and `ActiveIsReady` (for `Enabled = FALSE`): `WakeExclusive` and
  `ActiveReady`. The
  strengthening `BaselineInv` says that the controller and `EnforceSleeping`
  never leave their first state, that a node with a waker is `waking`, that
  an attempt decides for `active` only on a ready machine, and that a machine
  which is active, or which a wake relies on (`Relying`), is not astray, so that no
  command to its sibling moves it.
- `PowerAwareWakes`, `PowerAwareReady`, `FloorIsKept` (in both modes, for
  `HistorySpec`). `HistoryInv` speaks of one node at a time, and only of nodes
  outside `overwritten` (and `degraded`, for the third part): `Alone`, a wake of the
  node has the label `waking`, which keeps everyone else from starting another;
  `SnapshotHolds`, what the scan has read of the node is still so; `Equipped`, a
  wake decides for `active` on a ready machine that is not astray, and an active
  machine stays. `Floor` adds that the scan has counted no more than there are.
  Steps are sorted by what they do (`StepKinds`): nothing to wakes, one step of a
  wake, a decision of the controller, or an interference. `Healed` is why a wake
  that begins alone restores a node, whatever had happened to it.
- `PickNodeCorrect`: for slices of any length, by an invariant that says of each
  of the four candidates that it is the first of the best among the positions
  already seen.
- `RelayTypes`, `CacheIsReal`, `RelayRefines`, without assumptions on the relays.
  The invariant adds to the types `Exclusive` (who talks to a relay holds the
  mutex), `Prepared` (a relay that is written is a known one) and `Written` (after
  the write the contacts are what the commit will record). A write sets the
  caller's own outlet and the outlets of its relay that differ from the cache, and
  no others (`SetValueSets`), which is the abstract `Switch`, or `FailLate` when the
  error comes after it; `BelievedIsSettled` says that the cache has an outlet where
  `PowerSwitch` says it would be without the calls that failed late. Every other
  step is an abstract failure, return, restart or a stutter.
- `ManagerTypes`, `RoutedFunctionsServe`, `RoutedFunctionsAreListed`,
  `StoreFollowsTable`, `ChangesAreAtomic`, `MutexComesBack`: the six properties
  of the run `functions`. The inductive invariant `ManagerInv` adds to the types:
  `Exclusive`, the processes past the lock are exactly the holder of the mutex;
  `Referenced`, every handler in a table or in a goroutine was created, for the
  name it is used for, which is what keeps a late destroy of one function away
  from another; `Reserved`, an upload's own deployment is nobody else's and never
  its old handler, so `DestroyOld` cannot take the routed one; `Progress`, what
  the holder has done so far is still so; and `Ended`, a process that does not
  run has empty tables. The cases that leave the mutex share one lemma
  (`Leaving`), the steps outside it another (`OwnFrame`).
- `RolloutRefined`: `FunctionManager` implements `Rollout`, from the same invariant.
  The steps that change no route and no request are stutters although Docker, the
  store, the mutex and the table move; `Reserved` is needed where a failed upload
  gives its version back, `Referenced` where a destroy must leave the unused ones
  alone.
- `SyncTypeOK`, `ActiveInSync`, `StaleOnlyByLate`: the safety properties of the
  run `function_sync`, with any number of wakes of one node at once. `InSync` is
  not inductive: it says nothing of a node that is still waking, nor of what is
  under way. The invariant of `FunctionSyncProofs` adds `Deployers` (only a wake
  that deploys has failures or has seen a change), `Callers` (a broadcast call
  belongs to the change being announced and carries the store's version; a wake
  has calls only while it deploys, to its own node) and, of each node, `Strays` (a
  call of nobody to a node the leader relies on is about a pair in `gap`), `Fresh`
  (a wake's call carries the store's version, or the leader knows that it may
  not), `ActiveSynced` (`InSync` itself) and `WakeSynced`, the same for each wake
  that may still make the node active, with its own calls in place of the
  broadcast's. The steps share three lemmas: a step that adds no claim keeps the
  invariant of a node (`KeptNode`), nothing is claimed of a node the leader does
  not rely on or that has no power (`QuietNode`), nor of one it has lost track of
  (`LostNode`). `StaleOnlyByLate` needs one more invariant, `Owned`: a node with a
  wake is waking and has no other wake, unless the controller has overwritten its
  status. So a wake's call that reaches an active node is of an overwritten wake.
- `VerdictSound`, `AlarmSound`: the invariant of `WiringProofs` says that among
  the machines behind outlets only the stuck ones are on between two workers
  (`OthersOff`); `OnAndOff` shows that `setRelay` after a pause changes only the
  outlet it is called for, and the first loop leaves on only what it puts in
  `stuck`. So whatever answers or rises is the machine just powered on, or is in
  `Standing`; and when there has been no fault, a problem is a worker whose
  mappings differ, or one whose machine was taken back, which has a sibling. That
  each outlet feeds its own machine is used for the alarm only.
- `ValidationExact`: the loop invariant `LoopInv` ties the maps to the nodes seen
  so far and says that the counter tells no local node, one and several apart.

Assumptions are the named `ASSUME`s of the modules: the sets of processes and
nodes are finite and disjoint, thresholds are integers, the default relay is a
relay. Only model-checked: everything temporal beyond invariants and the
refinement's safety part (`WakeResolves`, `ActivationAnswered`, `DeadReturns`,
`NoIdleSurplus`, `CallsReturn`, `ChangeAnswered`), because the proof system does
not reason about fairness.

## 5. What is not modelled

- Asynchronous work, which the leader does not count, and requests that hang on
  a node cut under them; in `Registry`, crashes of a machine while it is active
  (they are in `FunctionSync`).
- The content of requests, headers and functions; archives and files
  (`pkg/util`); parsing of the environment and of `nodes.json`.
- The CoAP and gRPC front ends, which bypass the cluster and make one `Call` per
  request; the runtimes inside the containers; generated code (`pkg/grpc/tinyfaas`).
- The Docker daemon behind the four operations of the backend.
- `RemoveNode`, which nothing calls.
- Of the management service, what is leaked. Two overlapping uploads of one
  name, a failed start and a failed `Create` leave containers or a network that
  nothing but the next start removes, also when the service was stopped in order;
  a delete that the proxy answers with 500 leaves an entry that cannot be deleted;
  and the reaper deletes a function that was uploaded again under an old name,
  since `functionLastUsed` is never cleared. All three are behaviours of
  `FunctionManager`; no property speaks of them.

Promises of the repository that are known not to hold and have no run of their
own: in power-aware mode a recovery that uses an old snapshot can let a second
wake start beside the first (`registry.go:263-264`), and only that can
(`WakeExclusiveUnlessOverwritten`); the floor can be undercut because `activeCount`
is counted once per scan (`config.go:27-28`), but only by nodes whose status
`RecoverDead` overwrote during that scan (`FloorHolds`); a node that
goes from dead to sleeping keeps its power (`registry.go:242`, `types.go:9`); and
`verify-wiring` does not leave every worker off (line 27 of its `main.go`) when a
power-off fails, or when the read-back for a sibling switches a worker on again.

What `gap` stands for are not errors of the model either: each of its events
leaves an active node with the wrong functions until its next wake or the next
change of that function, and nothing in the code repairs it earlier. The
sharpest is a late upload. A first image build takes longer than
`DEPLOY_TIMEOUT`, the user deletes the function, and the build then finishes on
the worker, which keeps a function the leader does not know.

## 6. What could follow

1. `FunctionManager`: the reaper against `manager.go:399-400` ("how long a function
   may go unused before this node tears it down").
2. `FunctionSync` with one `FunctionManager`, or one `Rollout`, per worker in place
   of `held`.
3. `Registry` with a call of `PowerSwitch` in two steps, call and return, in place
   of one step per command.
