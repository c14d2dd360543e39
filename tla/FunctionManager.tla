---------------------------- MODULE FunctionManager ----------------------------
(***************************************************************************)
(* The functions of one node: the management service that uploads, replaces *)
(* and deletes them, its idle reaper, the host table and the function store *)
(* of the reverse proxy it runs as a child process, and the containers that *)
(* outlive both.                                                            *)
(*                                                                          *)
(* Source: pkg/manager/manager.go, cmd/manager/main.go, pkg/docker/         *)
(* handler.go, pkg/rproxy/rproxy.go, pkg/cluster/functions.go and the       *)
(* add/delete endpoint of cmd/rproxy/main.go.  An action is a read of       *)
(* functionHandlers, a stretch under its mutex that ends in a visible       *)
(* effect, or one effect of the endpoint.                                   *)
(*                                                                          *)
(* Abstractions: a deployment is one dockerHandler with its containers, and *)
(* stands for the version of the function it was built from; time is the    *)
(* truth of "not used for functionIdleTimeout".                             *)
(***************************************************************************)
EXTENDS FiniteSets

CONSTANTS
  Name,          \* function names
  Deployment,    \* dockerHandlers: one per upload
  NoThreads,     \* those uploaded with threads = 0, which have no container
  Request,       \* concurrent requests to the management API
  Reaper,        \* the goroutine of StartController
  Stopper,       \* the goroutine that waits for an interrupt
  None,          \* the absence of a deployment, a name or a process
  IdleTeardown,  \* FUNCTION_IDLE_TIMEOUT is positive
  DockerFaults   \* whether removing containers and networks can fail

Proc == Request \cup {Reaper, Stopper}

ASSUME ManagerAssumption ==
  /\ Request \cap {Reaper, Stopper} = {} /\ Reaper # Stopper
  /\ None \notin Proc \cup Name \cup Deployment
  /\ NoThreads \subseteq Deployment
  /\ IdleTeardown \in BOOLEAN /\ DockerFaults \in BOOLEAN

VARIABLES
  handlers,  \* [Name -> Deployment or None]: functionHandlers
  mu,        \* who holds functionHandlersMutex
  hosts,     \* [Name -> Deployment or None]: RProxy.hosts
  store,     \* [Name -> Deployment or None]: FunctionStore.funcs
  lastUsed,  \* [Name -> Age]: RProxy.functionLastUsed
  calls,     \* the deployments with a call of the proxy in flight
  docker,    \* [Deployment -> DockerState]: what Docker has of it
  named,     \* [Deployment -> Name or None]: dockerHandler.name
  up,        \* the management service runs
  proxy,     \* the reverse proxy runs
  pc, name,  \* [Proc -> ...]: where a process is and which function it is about
  fh, old,   \* [Proc -> Deployment or None]: its fh and its oldHandler
  todo       \* [Proc -> SUBSET Name]: what a delete, a wipe or the reaper has left

service == <<handlers, mu>>
tables  == <<hosts, store, lastUsed, calls>>
locals  == <<pc, name, fh, old, todo>>
vars    == <<handlers, mu, hosts, store, lastUsed, calls, docker, named, up, proxy,
             pc, name, fh, old, todo>>

Age == {"never", "recent", "old"}

\* "broken": a Destroy of it has failed halfway.
DockerState == {"none", "created", "running", "broken", "removed"}

Uploading == {"lock", "start", "post", "set", "reply"}
Deleting  == {"next", "look", "dlock", "dpost", "dset", "dreply"}

\* Where the holder of the mutex can be.
Locked == {"start", "post", "set", "reply", "dpost", "dset", "dreply"}

Nothing == [n \in Name |-> None]
Unused  == [n \in Name |-> "never"]

Init ==
  /\ handlers = Nothing /\ hosts = Nothing /\ store = Nothing
  /\ lastUsed = Unused /\ calls = {}
  /\ docker = [d \in Deployment |-> "none"] /\ named = [d \in Deployment |-> None]
  /\ mu = None /\ up = TRUE /\ proxy = TRUE
  /\ pc = [p \in Proc |-> "idle"] /\ name = [p \in Proc |-> None]
  /\ fh = [p \in Proc |-> None] /\ old = [p \in Proc |-> None]
  /\ todo = [p \in Proc |-> {}]

-------------------------------------------------------------------------------
(* Moving on.                                                                 *)

Goto(p, s) == pc' = [pc EXCEPT ![p] = s]

\* A process is through with one function: an upload returns, a delete, a wipe
\* or the reaper goes on with the names it has left.
Leave(p) ==
  /\ Goto(p, IF todo[p] = {} THEN "idle" ELSE "next")
  /\ name' = [name EXCEPT ![p] = None]
  /\ fh' = [fh EXCEPT ![p] = None] /\ old' = [old EXCEPT ![p] = None]
  /\ UNCHANGED todo

\* The deferred Unlock.
LeaveLocked(p) == mu' = None /\ Leave(p)

\* A deployment no upload has taken yet.
Fresh == {d \in Deployment : docker[d] = "none" /\ \A p \in Proc : fh[p] # d}

-------------------------------------------------------------------------------
(* The backend.                                                               *)

\* Destroy stops and removes the containers, whose errors are only logged, then
\* the network and the image, whose errors it returns: of a deployment that is
\* already removed there is no network.
Destroy(d, ok) ==
  \/ /\ ok /\ docker[d] \in {"created", "running", "broken"}
     /\ docker' = [docker EXCEPT ![d] = "removed"]
  \/ /\ ~ok /\ docker[d] = "removed" /\ UNCHANGED docker
  \/ /\ ~ok /\ DockerFaults /\ docker[d] # "removed"
     /\ \E s \in {docker[d], "broken"} : docker' = [docker EXCEPT ![d] = s]

-------------------------------------------------------------------------------
(* Upload: createFunction.                                                    *)

\* The old handler is read before the mutex is taken.
UploadBegins(p, n, d) ==
  /\ up /\ pc[p] = "idle" /\ p \in Request /\ d \in Fresh
  /\ Goto(p, "lock")
  /\ name' = [name EXCEPT ![p] = n] /\ fh' = [fh EXCEPT ![p] = d]
  /\ old' = [old EXCEPT ![p] = handlers[n]]
  /\ UNCHANGED <<service, tables, docker, named, up, proxy, todo>>

\* Backend.Create succeeds, and the deployment is in the table before it starts.
Create(p) ==
  /\ pc[p] = "lock" /\ mu = None
  /\ mu' = p
  /\ docker' = [docker EXCEPT ![fh[p]] = "created"]
  /\ named' = [named EXCEPT ![fh[p]] = name[p]]
  /\ handlers' = [handlers EXCEPT ![name[p]] = fh[p]]
  /\ Goto(p, "start")
  /\ UNCHANGED <<tables, up, proxy, name, fh, old, todo>>

\* Create fails, and may leave a network and containers that are not started.
CreateFails(p) ==
  /\ pc[p] = "lock" /\ mu = None
  /\ \/ UNCHANGED <<docker, named>>
     \/ /\ docker' = [docker EXCEPT ![fh[p]] = "created"]
        /\ named' = [named EXCEPT ![fh[p]] = name[p]]
  /\ Leave(p)
  /\ UNCHANGED <<service, tables, up, proxy>>

\* Mutant: the mutex is released once the containers run.
StartUnlocks(p) ==
  /\ pc[p] = "start"
  /\ docker' = [docker EXCEPT ![fh[p]] = "running"]
  /\ mu' = None /\ Goto(p, "post")
  /\ UNCHANGED <<handlers, tables, named, up, proxy, name, fh, old, todo>>

Start(p) ==
  /\ pc[p] = "start"
  /\ docker' = [docker EXCEPT ![fh[p]] = "running"]
  /\ Goto(p, "post")
  /\ UNCHANGED <<service, tables, named, up, proxy, name, fh, old, todo>>

\* Mutant: an error of Start is only logged.
StartFailsUnnoticed(p) ==
  /\ pc[p] = "start" /\ fh[p] \notin NoThreads
  /\ Goto(p, "post")
  /\ UNCHANGED <<service, tables, docker, named, up, proxy, name, fh, old, todo>>

\* Mutant: the error return keeps the mutex.
StartFailsLocked(p) ==
  /\ pc[p] = "start" /\ fh[p] \notin NoThreads
  /\ UNCHANGED docker \/ docker' = [docker EXCEPT ![fh[p]] = "running"]
  /\ Leave(p)
  /\ UNCHANGED <<service, tables, named, up, proxy>>

\* Mutant: a failed start puts the old handler back, table and route.
StartFailsRollsBack(p) ==
  /\ pc[p] = "start" /\ fh[p] \notin NoThreads
  /\ UNCHANGED docker \/ docker' = [docker EXCEPT ![fh[p]] = "running"]
  /\ IF old[p] # None /\ proxy
       THEN handlers' = [handlers EXCEPT ![name[p]] = old[p]] /\ hosts' = [hosts EXCEPT ![name[p]] = old[p]]
       ELSE UNCHANGED <<handlers, hosts>>
  /\ LeaveLocked(p)
  /\ UNCHANGED <<store, lastUsed, calls, named, up, proxy>>

\* A container does not become ready: the new deployment stays in the table,
\* the old one keeps running.
StartFails(p) ==
  /\ pc[p] = "start" /\ fh[p] \notin NoThreads
  /\ UNCHANGED docker \/ docker' = [docker EXCEPT ![fh[p]] = "running"]
  /\ LeaveLocked(p)
  /\ UNCHANGED <<handlers, tables, named, up, proxy>>

Uploaded(p) ==
  /\ pc[p] = "reply" /\ proxy /\ old[p] = None
  /\ LeaveLocked(p)
  /\ UNCHANGED <<handlers, tables, docker, named, up, proxy>>

\* The proxy uses the new deployment; an error is returned to the caller.
DestroyOld(p, ok) ==
  /\ pc[p] = "reply" /\ proxy /\ old[p] # None
  /\ Destroy(old[p], ok)
  /\ LeaveLocked(p)
  /\ UNCHANGED <<handlers, tables, named, up, proxy>>

-------------------------------------------------------------------------------
(* The endpoint of the reverse proxy, called under the mutex.                 *)

\* A message with container addresses adds, one without deletes.
Adds(p) == pc[p] \in {"post", "set"} /\ fh[p] \notin NoThreads

AddHost(p) ==
  /\ pc[p] = "post" /\ proxy /\ Adds(p)
  /\ hosts' = [hosts EXCEPT ![name[p]] = fh[p]]
  /\ Goto(p, "set")
  /\ UNCHANGED <<service, store, lastUsed, calls, docker, named, up, proxy, name, fh, old, todo>>

DelHost(p) ==
  /\ pc[p] \in {"post", "dpost"} /\ proxy /\ ~Adds(p) /\ hosts[name[p]] # None
  /\ hosts' = [hosts EXCEPT ![name[p]] = None]
  /\ Goto(p, IF pc[p] = "post" THEN "set" ELSE "dset")
  /\ UNCHANGED <<service, store, lastUsed, calls, docker, named, up, proxy, name, fh, old, todo>>

\* The proxy does not know the function: status 500, and the caller returns an
\* error.  A delete has destroyed the deployment and keeps it in the table.
DelUnknown(p) ==
  /\ pc[p] \in {"post", "dpost"} /\ proxy /\ ~Adds(p) /\ hosts[name[p]] = None
  /\ LeaveLocked(p)
  /\ UNCHANGED <<handlers, tables, docker, named, up, proxy>>

\* Mutant: a deleted function stays in the store.
SetOnly(p) ==
  /\ pc[p] \in {"set", "dset"} /\ proxy
  /\ store' = IF Adds(p) THEN [store EXCEPT ![name[p]] = fh[p]] ELSE store
  /\ Goto(p, IF pc[p] = "set" THEN "reply" ELSE "dreply")
  /\ UNCHANGED <<service, hosts, lastUsed, calls, docker, named, up, proxy, name, fh, old, todo>>

\* FunctionStore.Set or Remove; the broadcast and the answer follow.
SetStore(p) ==
  /\ pc[p] \in {"set", "dset"} /\ proxy
  /\ store' = [store EXCEPT ![name[p]] = IF Adds(p) THEN fh[p] ELSE None]
  /\ Goto(p, IF pc[p] = "set" THEN "reply" ELSE "dreply")
  /\ UNCHANGED <<service, hosts, lastUsed, calls, docker, named, up, proxy, name, fh, old, todo>>

\* The proxy is gone: the post returns an error, or panics on a nil response
\* when the connection was closed, which the HTTP server recovers.
PostFails(p) ==
  /\ pc[p] \in Locked \ {"start"} /\ ~proxy
  /\ LeaveLocked(p)
  /\ UNCHANGED <<handlers, tables, docker, named, up, proxy>>

-------------------------------------------------------------------------------
(* Delete, Wipe and the reaper.                                               *)

DeleteBegins(p, n) ==
  /\ up /\ pc[p] = "idle" /\ p \in Request
  /\ Goto(p, "next") /\ todo' = [todo EXCEPT ![p] = {n}]
  /\ UNCHANGED <<service, tables, docker, named, up, proxy, name, fh, old>>

\* The iteration over the table meets every function that is there, and may
\* meet those that are added while it runs.
WipeBegins(p, S) ==
  /\ up /\ pc[p] = "idle" /\ {n \in Name : handlers[n] # None} \subseteq S /\ S # {}
  /\ Goto(p, "next") /\ todo' = [todo EXCEPT ![p] = S]
  /\ UNCHANGED <<service, docker, named, up, name, fh, old>>

\* The reaper fetches the last uses; without a proxy it sleeps again.
Reap ==
  LET idle == {n \in Name : lastUsed[n] = "old"} IN
  /\ up /\ IdleTeardown /\ proxy /\ pc[Reaper] = "idle" /\ idle # {}
  /\ Goto(Reaper, "next") /\ todo' = [todo EXCEPT ![Reaper] = idle]
  /\ UNCHANGED <<service, tables, docker, named, up, proxy, name, fh, old>>

\* The next name.  The reaper looks under the mutex whether it still exists.
NextName(p, n) ==
  /\ pc[p] = "next" /\ n \in todo[p]
  /\ p = Reaper => mu = None
  /\ todo' = [todo EXCEPT ![p] = @ \ {n}]
  /\ IF p = Reaper /\ handlers[n] = None
       THEN Goto(p, IF todo[p] = {n} THEN "idle" ELSE "next") /\ UNCHANGED name
       ELSE Goto(p, "look") /\ name' = [name EXCEPT ![p] = n]
  /\ UNCHANGED <<service, tables, docker, named, up, proxy, fh, old>>

\* Mutant: an unknown name is not refused.
LookUnchecked(p) ==
  /\ pc[p] = "look"
  /\ fh' = [fh EXCEPT ![p] = handlers[name[p]]]
  /\ Goto(p, "dlock")
  /\ UNCHANGED <<service, tables, docker, named, up, proxy, name, old, todo>>

\* Delete reads its handler before it takes the mutex.
Look(p) ==
  /\ pc[p] = "look" /\ handlers[name[p]] # None
  /\ fh' = [fh EXCEPT ![p] = handlers[name[p]]]
  /\ Goto(p, "dlock")
  /\ UNCHANGED <<service, tables, docker, named, up, proxy, name, old, todo>>

NotFound(p) ==
  /\ pc[p] = "look" /\ handlers[name[p]] = None
  /\ Leave(p)
  /\ UNCHANGED <<service, tables, docker, named, up, proxy>>

\* Mutant: the function leaves the table before the proxy is told.
DestroyAndForget(p) ==
  /\ pc[p] = "dlock" /\ mu = None
  /\ Destroy(fh[p], TRUE)
  /\ mu' = p /\ Goto(p, "dpost")
  /\ handlers' = [handlers EXCEPT ![name[p]] = None]
  /\ UNCHANGED <<tables, named, up, proxy, name, fh, old, todo>>

DestroyHandler(p) ==
  /\ pc[p] = "dlock" /\ mu = None
  /\ Destroy(fh[p], TRUE)
  /\ mu' = p /\ Goto(p, "dpost")
  /\ UNCHANGED <<handlers, tables, named, up, proxy, name, fh, old, todo>>

DestroyFails(p) ==
  /\ pc[p] = "dlock" /\ mu = None
  /\ Destroy(fh[p], FALSE)
  /\ Leave(p)
  /\ UNCHANGED <<service, tables, named, up, proxy>>

Deleted(p) ==
  /\ pc[p] = "dreply" /\ proxy
  /\ handlers' = [handlers EXCEPT ![name[p]] = None]
  /\ LeaveLocked(p)
  /\ UNCHANGED <<tables, docker, named, up, proxy>>

-------------------------------------------------------------------------------
(* Calls, time, and the ends of the two processes.                            *)

CallBegins(n) ==
  /\ proxy /\ hosts[n] # None
  /\ calls' = calls \cup {hosts[n]}
  /\ UNCHANGED <<service, hosts, store, lastUsed, docker, named, up, proxy, locals>>

\* An answer, unless the container is gone, is a use of the name.
CallEnds(d) ==
  /\ d \in calls
  /\ calls' \in {calls, calls \ {d}}
  /\ lastUsed' = [lastUsed EXCEPT ![named[d]] = IF docker[d] = "running" THEN "recent" ELSE @]
  /\ UNCHANGED <<service, hosts, store, docker, named, up, proxy, locals>>

TimePasses(n) ==
  /\ lastUsed[n] = "recent"
  /\ lastUsed' = [lastUsed EXCEPT ![n] = "old"]
  /\ UNCHANGED <<service, hosts, store, calls, docker, named, up, proxy, locals>>

ProxyEnds ==
  /\ proxy' = FALSE
  /\ hosts' = Nothing /\ store' = Nothing /\ lastUsed' = Unused /\ calls' = {}

\* A call reads the host table without its lock while the endpoint writes it:
\* the Go runtime may end the proxy, and nobody starts it again.
MapRace(p) ==
  /\ pc[p] \in {"post", "dpost"} /\ proxy /\ (Adds(p) \/ hosts[name[p]] # None)
  /\ ProxyEnds
  /\ UNCHANGED <<service, docker, named, up, locals>>

\* An interrupt kills the proxy and wipes the functions.
Interrupt(S) == ProxyEnds /\ WipeBegins(Stopper, S)

\* The service and everything in it ends: the exit after the wipe, a panic of
\* the reaper on a lost answer, a race on functionHandlers that the runtime
\* detects, a stray signal, or the node loses power (then power is FALSE, and
\* the containers stop).
Halt(power) ==
  /\ up /\ up' = FALSE /\ ProxyEnds
  /\ handlers' = Nothing /\ mu' = None
  /\ pc' = [p \in Proc |-> "idle"] /\ name' = [p \in Proc |-> None]
  /\ fh' = [p \in Proc |-> None] /\ old' = [p \in Proc |-> None]
  /\ todo' = [p \in Proc |-> {}]
  /\ docker' = [d \in Deployment |->
                  IF ~power /\ docker[d] = "running" THEN "created" ELSE docker[d]]
  /\ UNCHANGED named

\* RemoveOrphans, before the service serves.  Deployments get new identities.
Boot ==
  /\ ~up /\ up' = TRUE /\ proxy' = TRUE
  /\ \E kept \in SUBSET {d \in Deployment : DockerFaults /\ docker[d] \notin {"none", "removed"}} :
       /\ docker' = [d \in Deployment |-> IF d \in kept THEN docker[d] ELSE "none"]
       /\ named' = [d \in Deployment |-> IF d \in kept THEN named[d] ELSE None]
  /\ UNCHANGED <<service, tables, locals>>

-------------------------------------------------------------------------------

Upload(p) ==
  \/ Create(p) \/ CreateFails(p) \/ Start(p) \/ StartFails(p)
  \/ Uploaded(p) \/ \E ok \in BOOLEAN : DestroyOld(p, ok)

Endpoint(p) == AddHost(p) \/ DelHost(p) \/ DelUnknown(p) \/ SetStore(p) \/ PostFails(p)

Delete(p) ==
  \/ \E n \in Name : NextName(p, n)
  \/ Look(p) \/ NotFound(p) \/ DestroyHandler(p) \/ DestroyFails(p) \/ Deleted(p)

Step(p) == Upload(p) \/ Endpoint(p) \/ Delete(p)

Next ==
  \/ \E p \in Proc : Step(p) \/ MapRace(p)
  \/ \E p \in Request : \/ \E n \in Name : DeleteBegins(p, n)
                        \/ \E n \in Name, d \in Deployment : UploadBegins(p, n, d)
                        \/ \E S \in SUBSET Name : WipeBegins(p, S) /\ UNCHANGED <<tables, proxy>>
  \/ Reap
  \/ \E S \in SUBSET Name : Interrupt(S)
  \/ \E n \in Name : CallBegins(n) \/ TimePasses(n)
  \/ \E d \in Deployment : CallEnds(d)
  \/ \E power \in BOOLEAN : Halt(power)
  \/ Boot

Spec == Init /\ [][Next]_vars

-------------------------------------------------------------------------------
(* Properties.                                                                *)

TypeOK ==
  /\ handlers \in [Name -> Deployment \cup {None}]
  /\ mu \in Proc \cup {None}
  /\ hosts \in [Name -> Deployment \cup {None}]
  /\ store \in [Name -> Deployment \cup {None}]
  /\ lastUsed \in [Name -> Age]
  /\ calls \in SUBSET Deployment
  /\ docker \in [Deployment -> DockerState]
  /\ named \in [Deployment -> Name \cup {None}]
  /\ up \in BOOLEAN /\ proxy \in BOOLEAN
  /\ pc \in [Proc -> {"idle"} \cup Uploading \cup Deleting]
  /\ name \in [Proc -> Name \cup {None}]
  /\ fh \in [Proc -> Deployment \cup {None}]
  /\ old \in [Proc -> Deployment \cup {None}]
  /\ todo \in [Proc -> SUBSET Name]
  /\ \A p \in Proc : pc[p] \notin {"idle", "next"} => name[p] \in Name
  /\ \A p \in Proc : pc[p] \notin {"idle", "next", "look"} => fh[p] \in Deployment

\* The proxy routes a function to a deployment that was started and has not
\* been destroyed, however uploads, deletes and the reaper overlap, with old
\* handlers read before the mutex was taken.  The exceptions are the code's: a
\* delete destroys before it tells the proxy, and a Destroy may fail halfway.
RoutesServe ==
  \A n \in Name : hosts[n] # None =>
    \/ docker[hosts[n]] \in {"running", "broken"}
    \/ \E p \in Proc : pc[p] = "dpost" /\ name[p] = n

\* A function that is routed is in the management service's table, so that it
\* can be listed, deleted and wiped.
RoutedIsListed == \A n \in Name : hosts[n] # None => handlers[n] # None

\* The store a waking node is deployed from has the version the host table
\* routes to, except while the endpoint is between the two.
StoreMatchesTable ==
  \A n \in Name :
    \/ store[n] = hosts[n]
    \/ \E p \in Proc : pc[p] \in {"set", "dset"} /\ name[p] = n

\* When the endpoint has answered, the change is in effect everywhere: no
\* other upload, delete or wipe has come between its three parts.
ChangesTakeEffect ==
  \A p \in Proc : proxy =>
    /\ pc[p] = "reply" /\ fh[p] \notin NoThreads =>
         /\ handlers[name[p]] = fh[p]
         /\ hosts[name[p]] = fh[p] /\ store[name[p]] = fh[p]
    /\ pc[p] = "dreply" => hosts[name[p]] = None /\ store[name[p]] = None

\* functionHandlersMutex is held only by a process that is still going to return
\* it: no error path, and no panic on a lost answer, keeps it and with it every
\* later upload, delete and wipe.
MutexIsReturned == mu # None => pc[mu] \in Locked

-------------------------------------------------------------------------------
(* The changes as their clients see them.                                     *)

\* An upload asks from its first line until the proxy has the new addresses, a
\* delete from its look at the table until the proxy has none.
AsksUpload(p) == pc[p] \in {"lock", "start", "post"}
AsksDelete(p) == pc[p] \in {"look", "dlock", "dpost"}

\* Whose change is under way, what for, and the deployments nobody has taken.
AskedOf(p)   == IF AsksUpload(p) \/ AsksDelete(p) THEN name[p] ELSE None
BroughtOf(p) == IF AsksUpload(p) THEN fh[p] ELSE None
Stock == {d \in Deployment : docker[d] = "none"} \ {fh[p] : p \in {q \in Proc : pc[q] = "lock"}}

R == INSTANCE Rollout WITH
       Version <- Deployment, Empty <- NoThreads, Client <- Proc, routed <- hosts, stock <- Stock,
       about   <- [p \in Proc |-> AskedOf(p)],
       version <- [p \in Proc |-> BroughtOf(p)]

\* However uploads, deletes, wipes and the reaper overlap and fail, each change
\* of the routes is one that was asked for, for its own function and with its own
\* version; it is made once, and a version that left the routes never comes back.
ImplementsRollout == R!Spec
===============================================================================
