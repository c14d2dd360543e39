-------------------------- MODULE RegistryProperties --------------------------
(***************************************************************************)
(* What must hold of the registry of Registry.tla.  Properties whose names  *)
(* appear under "findings" in PROJECT.json are stated by the repository and *)
(* refuted by its code.                                                     *)
(***************************************************************************)
EXTENDS Registry

TypeOK ==
  /\ status \in [Node -> NodeStatus]
  /\ load \in [Node -> Nat]
  /\ idle \in [Worker -> BOOLEAN]
  /\ activations \in [Node -> Proc \cup {NoOne}]
  /\ machine \in [Worker -> Machine] /\ astray \in SUBSET Worker
  /\ pc \in [Proc -> Pc]
  /\ target \in [Proc -> Node \cup {NoOne}]
  /\ waitsOn \in [Proc -> Proc \cup {NoOne}]
  /\ verdict \in [Proc -> Verdict]
  /\ cpc \in {"sleep", "recover", "restore", "scan", "cut", "mark"}
  /\ ctodo \in SUBSET Worker /\ cidle \in SUBSET Worker
  /\ cnode \in Worker \cup {NoOne}
  /\ cstatus \in {"none", "active", "sleeping"}
  /\ ccount \in Int
  /\ epc \in {"start", "run"} /\ etodo \in SUBSET Worker
  /\ alive \in BOOLEAN

-------------------------------------------------------------------------------
(* Requests and their load.                                                   *)

\* The requests that have done IncLoad on n and not yet DecLoad.
InFlightOn(n) == {h \in Handler : pc[h] \in InFlight /\ target[h] = n}

\* However requests fail, time out or are refused, the load of a node is the
\* number of requests being served on it: IncLoad and the deferred DecLoad of
\* the HTTP handler pair up.
LoadMatchesInFlight == \A n \in Node : load[n] = Cardinality(InFlightOn(n))

-------------------------------------------------------------------------------
(* The single-flight activation.                                              *)

\* A request that waits for an attempt waits for one whose owner is still
\* going to close it, and for the node the request wants.  No one waits on a
\* channel nobody will close.
FollowersHaveWaker ==
  \A p \in Proc : pc[p] = "wait" =>
    /\ waitsOn[p] \in Proc
    /\ pc[waitsOn[p]] \in Attempt
    /\ target[waitsOn[p]] = target[p]

\* The processes that may be driving the machine of n.
Wakers(n) == {p \in Proc : pc[p] \in InWake /\ target[p] = n}

\* A node recorded as waking is being woken: whatever the controller does to
\* its status meanwhile, the label never outlives the last attempt.
WakingHasWaker == \A n \in Node : status[n] = "waking" => Wakers(n) # {}

\* A node is woken by one process at a time.
WakeExclusive ==
  \A n \in Node : \A p \in Wakers(n) : \A q \in Wakers(n) : p = q

\* An active worker is up and has every function, so a request the scheduler
\* sends there finds it.
ActiveReady == \A n \in Worker : status[n] = "active" => machine[n] = "ready"

\* A request that finds its node waking finds an attempt to wait on.
FollowersFindActivation ==
  \A p \in Proc : pc[p] = "activate" /\ status[target[p]] = "waking" =>
    activations[target[p]] # NoOne

-------------------------------------------------------------------------------
(* The controller.                                                            *)

\* The controller never cuts the power of a node with requests on it.
NeverKillBusy == [][cpc = "cut" /\ cpc' = "mark" => load[cnode] = 0]_vars

\* A node becomes "active" only when it has every function.
ActiveHasFunctions ==
  [][\A n \in Worker : status[n] # "active" /\ status'[n] = "active" =>
       machine'[n] = "ready"]_vars

-------------------------------------------------------------------------------
(* Liveness.                                                                  *)

\* No node stays waking for ever.
WakeResolves == \A n \in Worker : status[n] = "waking" ~> status[n] # "waking"

\* A request learns the outcome of its activation without its safety timeout
\* ever having to fire.
ActivationAnswered ==
  \A h \in Handler : pc[h] = "activate" ~> pc[h] \in {"inc", "idle"}

\* A node marked dead does not stay dead for ever.
DeadReturns == \A n \in Worker : status[n] = "dead" ~> status[n] # "dead"

\* No worker stays switched on, idle and above the floor for ever.
NoIdleSurplus ==
  \A n \in Worker :
    []<>~(/\ status[n] = "active" /\ load[n] = 0 /\ idle[n]
          /\ Cardinality(ActiveExecutors) > MinActiveNodes)
===============================================================================
