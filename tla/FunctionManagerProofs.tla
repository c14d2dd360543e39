------------------------- MODULE FunctionManagerProofs -------------------------
(***************************************************************************)
(* Proofs about the management service, for any number of functions,        *)
(* deployments and requests, with and without failures of Docker.           *)
(***************************************************************************)
EXTENDS FunctionManager, TLAPS

\* Where the new deployment of p is in the table, and where fh[p] is a handler.
Deployed == {"start", "post", "set", "reply"}
Handling == Deployed \cup {"dlock", "dpost", "dset", "dreply"}

\* Who is past the lock holds the mutex, and nobody else does.
Exclusive == \A p \in Proc : pc[p] \in Locked <=> mu = p

\* Whatever is referred to exists, and belongs to the function it is used for.
Referenced ==
  /\ \A n \in Name : handlers[n] # None =>
       docker[handlers[n]] # "none" /\ named[handlers[n]] = n
  /\ \A n \in Name : hosts[n] # None => docker[hosts[n]] # "none" /\ named[hosts[n]] = n
  /\ \A p \in Proc : old[p] # None => docker[old[p]] # "none" /\ named[old[p]] = name[p]
  /\ \A p \in Proc : pc[p] \in Handling => docker[fh[p]] # "none" /\ named[fh[p]] = name[p]

\* What an upload is going to create belongs to it alone.
Reserved ==
  /\ \A p \in Proc : pc[p] = "lock" => docker[fh[p]] = "none"
  /\ \A p, q \in Proc : pc[p] = "lock" /\ q # p => fh[q] # fh[p]
  /\ \A p \in Proc : IF pc[p] \in Uploading THEN old[p] # fh[p] ELSE old[p] = None

\* The host an upload leaves behind.
Route(p) == IF fh[p] \in NoThreads THEN None ELSE fh[p]

\* What the holder of the mutex has done so far is still so.
Progress ==
  \A p \in Proc :
    /\ pc[p] \in Deployed => handlers[name[p]] = fh[p]
    /\ pc[p] = "post" => docker[fh[p]] = "running"
    /\ pc[p] \in {"set", "reply"} /\ proxy => hosts[name[p]] = Route(p)
    /\ pc[p] = "reply" /\ proxy => store[name[p]] = Route(p)
    /\ pc[p] \in {"dset", "dreply"} => hosts[name[p]] = None
    /\ pc[p] = "dreply" => store[name[p]] = None

\* Nothing is left in a process that does not run.
Ended ==
  /\ ~proxy => hosts = Nothing /\ store = Nothing
  /\ ~up => /\ ~proxy /\ handlers = Nothing
            /\ \A p \in Proc : pc[p] = "idle"

Tables == RoutesServe /\ RoutedIsListed /\ StoreMatchesTable

Core == Exclusive /\ Referenced /\ Reserved /\ Progress /\ Ended /\ Tables

ManagerInv == TypeOK /\ Core

LEMMA InitManagerInv == Init => ManagerInv
  BY ManagerAssumption DEF Init, ManagerInv, Core, TypeOK, Exclusive, Referenced, Reserved,
     Progress, Ended, Tables, RoutesServe, RoutedIsListed, StoreMatchesTable, Nothing, Unused,
     Age, DockerState, Proc, Locked, Handling, Deployed, Uploading, Deleting

-------------------------------------------------------------------------------
(* Types.                                                                     *)

\* Leaving keeps the types of the locals.
LEMMA LeaveTypes ==
  ASSUME TypeOK, NEW p \in Proc, Leave(p)
  PROVE  /\ pc' \in [Proc -> {"idle"} \cup Uploading \cup Deleting]
         /\ name' \in [Proc -> Name \cup {None}]
         /\ fh' \in [Proc -> Deployment \cup {None}]
         /\ old' \in [Proc -> Deployment \cup {None}]
         /\ todo' \in [Proc -> SUBSET Name]
         /\ \A q \in Proc : pc'[q] \notin {"idle", "next"} => name'[q] \in Name
         /\ \A q \in Proc : pc'[q] \notin {"idle", "next", "look"} => fh'[q] \in Deployment
  BY DEF TypeOK, Leave, Goto, Uploading, Deleting

LEMMA DestroyTypes ==
  ASSUME TypeOK, NEW d, NEW ok \in BOOLEAN, Destroy(d, ok)
  PROVE  docker' \in [Deployment -> DockerState]
  BY DEF TypeOK, Destroy, DockerState

LEMMA ProxyEndsTypes ==
  ASSUME TypeOK, ProxyEnds
  PROVE  /\ proxy' \in BOOLEAN /\ calls' \in SUBSET Deployment
         /\ hosts' \in [Name -> Deployment \cup {None}]
         /\ store' \in [Name -> Deployment \cup {None}]
         /\ lastUsed' \in [Name -> Age]
  BY DEF TypeOK, ProxyEnds, Nothing, Unused, Age

\* Every step keeps the types.
LEMMA NextTypeOK ==
  ASSUME TypeOK, [Next]_vars
  PROVE  TypeOK'
<1> USE DEF Uploading, Deleting
<1>1. ASSUME NEW p \in Proc, Upload(p) PROVE TypeOK'
  <2>1. CASE Create(p)
    BY <2>1 DEF TypeOK, Create, Goto, tables, DockerState
  <2>2. CASE CreateFails(p)
    <3>1. docker' \in [Deployment -> DockerState] /\ named' \in [Deployment -> Name \cup {None}]
      BY <2>2 DEF TypeOK, CreateFails, DockerState
    <3> QED
      BY <2>2, <3>1, LeaveTypes DEF TypeOK, CreateFails, service, tables
  <2>3. CASE Start(p)
    BY <2>3 DEF TypeOK, Start, Goto, service, tables, DockerState
  <2>4. CASE StartFails(p)
    <3>1. docker' \in [Deployment -> DockerState]
      BY <2>4 DEF TypeOK, StartFails, DockerState
    <3> QED
      BY <2>4, <3>1, LeaveTypes DEF TypeOK, StartFails, LeaveLocked, tables
  <2>5. CASE Uploaded(p)
    BY <2>5, LeaveTypes DEF TypeOK, Uploaded, LeaveLocked, tables
  <2>6. ASSUME NEW ok \in BOOLEAN, DestroyOld(p, ok) PROVE TypeOK'
    BY <2>6, LeaveTypes, DestroyTypes DEF TypeOK, DestroyOld, LeaveLocked, tables
  <2> QED
    BY <1>1, <2>1, <2>2, <2>3, <2>4, <2>5, <2>6 DEF Upload
<1>2. ASSUME NEW p \in Proc, Endpoint(p) PROVE TypeOK'
  <2>1. CASE AddHost(p)
    BY <2>1 DEF TypeOK, AddHost, Goto, service
  <2>2. CASE DelHost(p)
    BY <2>2 DEF TypeOK, DelHost, Goto, service
  <2>3. CASE DelUnknown(p)
    BY <2>3, LeaveTypes DEF TypeOK, DelUnknown, LeaveLocked, tables
  <2>4. CASE SetStore(p)
    BY <2>4 DEF TypeOK, SetStore, Goto, service
  <2>5. CASE PostFails(p)
    BY <2>5, LeaveTypes DEF TypeOK, PostFails, LeaveLocked, tables
  <2> QED
    BY <1>2, <2>1, <2>2, <2>3, <2>4, <2>5 DEF Endpoint
<1>3. ASSUME NEW p \in Proc, Delete(p) PROVE TypeOK'
  <2>1. ASSUME NEW n \in Name, NextName(p, n) PROVE TypeOK'
    BY <2>1 DEF TypeOK, NextName, Goto, service, tables
  <2>2. CASE Look(p)
    BY <2>2 DEF TypeOK, Look, Goto, service, tables
  <2>3. CASE NotFound(p)
    BY <2>3, LeaveTypes DEF TypeOK, NotFound, service, tables
  <2>4. CASE DestroyHandler(p)
    BY <2>4, DestroyTypes DEF TypeOK, DestroyHandler, Goto, tables
  <2>5. CASE DestroyFails(p)
    BY <2>5, LeaveTypes, DestroyTypes DEF TypeOK, DestroyFails, service, tables
  <2>6. CASE Deleted(p)
    BY <2>6, LeaveTypes DEF TypeOK, Deleted, LeaveLocked, tables
  <2> QED
    BY <1>3, <2>1, <2>2, <2>3, <2>4, <2>5, <2>6 DEF Delete
<1>4. ASSUME NEW p \in Proc, NEW n \in Name, NEW d \in Deployment, UploadBegins(p, n, d)
      PROVE  TypeOK'
  BY <1>4 DEF TypeOK, UploadBegins, Goto, service, tables
<1>5. ASSUME NEW p \in Proc, NEW n \in Name, DeleteBegins(p, n) PROVE TypeOK'
  BY <1>5 DEF TypeOK, DeleteBegins, Goto, service, tables
<1>6. ASSUME NEW p \in Proc, NEW S \in SUBSET Name, WipeBegins(p, S),
             ProxyEnds \/ UNCHANGED <<tables, proxy>>
      PROVE  TypeOK'
  <2>1. /\ proxy' \in BOOLEAN /\ calls' \in SUBSET Deployment
        /\ hosts' \in [Name -> Deployment \cup {None}]
        /\ store' \in [Name -> Deployment \cup {None}]
        /\ lastUsed' \in [Name -> Age]
    BY <1>6, ProxyEndsTypes DEF TypeOK, tables
  <2> QED
    BY <1>6, <2>1 DEF TypeOK, WipeBegins, Goto, service
<1>7. CASE Reap
  <2>1. Reaper \in Proc
    BY DEF Proc
  <2> QED
    BY <1>7, <2>1 DEF TypeOK, Reap, Goto, service, tables
<1>8. ASSUME NEW n \in Name, CallBegins(n) \/ TimePasses(n) PROVE TypeOK'
  BY <1>8 DEF TypeOK, CallBegins, TimePasses, service, locals, Age
<1>9. ASSUME NEW d \in Deployment, CallEnds(d) PROVE TypeOK'
  BY <1>9 DEF TypeOK, CallEnds, service, locals, Age
<1>10. ASSUME NEW p \in Proc, MapRace(p) PROVE TypeOK'
  BY <1>10, ProxyEndsTypes DEF TypeOK, MapRace, service, locals
<1>11. ASSUME NEW power \in BOOLEAN, Halt(power) PROVE TypeOK'
  <2>1. docker' \in [Deployment -> DockerState] /\ handlers' \in [Name -> Deployment \cup {None}]
    BY <1>11 DEF TypeOK, Halt, DockerState, Nothing
  <2> QED
    BY <1>11, <2>1, ProxyEndsTypes DEF TypeOK, Halt
<1>12. CASE Boot
  <2>1. docker' \in [Deployment -> DockerState] /\ named' \in [Deployment -> Name \cup {None}]
    BY <1>12 DEF TypeOK, Boot, DockerState
  <2> QED
    BY <1>12, <2>1 DEF TypeOK, Boot, service, tables, locals
<1>13. CASE UNCHANGED vars
  BY <1>13 DEF TypeOK, vars
<1>14. Request \subseteq Proc /\ Stopper \in Proc
  BY DEF Proc
<1> QED
  BY <1>1, <1>2, <1>3, <1>4, <1>5, <1>6, <1>7, <1>8, <1>9, <1>10, <1>11, <1>12, <1>13, <1>14
  DEF Next, Step, Interrupt

-------------------------------------------------------------------------------
(* The invariant, action by action.                                           *)

\* Steps of a process that holds nothing, and that touch its own frame only:
\* where it stands, what it is about and which handler it has read.
LEMMA OwnFrame ==
  ASSUME ManagerInv, NEW p \in Proc,
         UNCHANGED <<handlers, mu, hosts, store, docker, named, up, proxy>>,
         \A q \in Proc \ {p} : /\ pc'[q] = pc[q] /\ name'[q] = name[q]
                               /\ fh'[q] = fh[q] /\ old'[q] = old[q],
         pc[p] \notin Locked, pc'[p] \in {"idle", "next", "look", "dlock"},
         up \/ pc'[p] = "idle",
         old'[p] = None,
         fh'[p] \in {None, fh[p]} \/ docker[fh'[p]] # "none",
         pc'[p] = "dlock" => docker[fh'[p]] # "none" /\ named[fh'[p]] = name'[p]
  PROVE  Core'
<1> USE DEF ManagerInv, Core
<1>1. Exclusive'
  BY DEF Exclusive, Locked
<1>2. Referenced'
  BY DEF Referenced, Handling, Deployed
<1>3. Reserved'
  BY ManagerAssumption DEF Reserved, Uploading, TypeOK
<1>4. Progress'
  BY DEF Progress, Route, Deployed
<1>5. Ended'
  BY DEF Ended
<1>6. Tables'
  BY DEF Tables, RoutesServe, RoutedIsListed, StoreMatchesTable, Locked
<1> QED
  BY <1>1, <1>2, <1>3, <1>4, <1>5, <1>6

\* Steps after which p is through with its function and the mutex is free.
\* Docker may have changed for deployments that are not routed to, for better
\* for those that are, and for the one p was going to create.
LEMMA Leaving ==
  ASSUME ManagerInv, NEW p \in Proc, Leave(p), pc[p] # "idle",
         mu \in {None, p}, mu' = None,
         UNCHANGED <<hosts, store, up, proxy>>,
         \/ UNCHANGED handlers
         \/ (hosts[name[p]] = None /\ handlers' = [handlers EXCEPT ![name[p]] = None]),
         pc[p] = "dpost" => hosts[name[p]] = None,
         pc[p] \in {"set", "dset"} => store[name[p]] = hosts[name[p]],
         docker' \in [Deployment -> DockerState],
         \A d \in Deployment : docker[d] # "none" => docker'[d] # "none" /\ named'[d] = named[d],
         \A d \in Deployment : docker[d] = "none" => docker'[d] = "none" \/ (pc[p] = "lock" /\ d = fh[p]),
         \A n \in Name : hosts[n] # None =>
           docker'[hosts[n]] \in {"running", "broken", docker[hosts[n]]}
  PROVE  Core'
<1> USE DEF ManagerInv, Core
<1>1. \A q \in Proc \ {p} : /\ pc'[q] = pc[q] /\ name'[q] = name[q]
                            /\ fh'[q] = fh[q] /\ old'[q] = old[q]
                            /\ pc[q] \notin Locked
  BY ManagerAssumption DEF Leave, Goto, TypeOK, Exclusive
<1>2. pc'[p] \in {"idle", "next"} /\ name'[p] = None /\ fh'[p] = None /\ old'[p] = None
  BY DEF Leave, Goto, TypeOK
<1>3. Exclusive'
  BY <1>1, <1>2, ManagerAssumption DEF Exclusive, Locked, Proc
<1>4. Referenced'
  <2>1. \A n \in Name : handlers'[n] \in {None, handlers[n]}
    BY DEF TypeOK
  <2> QED
    BY <1>1, <1>2, <2>1 DEF Referenced, Handling, Deployed, TypeOK
<1>5. Reserved'
  <2>1. ASSUME NEW q \in Proc, pc'[q] = "lock" PROVE docker'[fh'[q]] = "none"
    BY <1>1, <1>2, <2>1 DEF Reserved, TypeOK
  <2>2. ASSUME NEW q \in Proc, NEW r \in Proc, pc'[q] = "lock", r # q PROVE fh'[r] # fh'[q]
    BY <1>1, <1>2, <2>2, ManagerAssumption DEF Reserved, TypeOK
  <2>3. ASSUME NEW q \in Proc
        PROVE  IF pc'[q] \in Uploading THEN old'[q] # fh'[q] ELSE old'[q] = None
    BY <1>1, <1>2 DEF Reserved, Uploading
  <2> QED
    BY <2>1, <2>2, <2>3 DEF Reserved
<1>6. Progress'
  BY <1>1, <1>2 DEF Progress, Route, Deployed, Locked
<1>7. Ended'
  BY <1>1, <1>2 DEF Ended, Nothing
<1>8. RoutesServe'
  BY <1>1, <1>2 DEF Tables, RoutesServe, TypeOK
<1>9. RoutedIsListed' /\ StoreMatchesTable'
  BY <1>1, <1>2 DEF Tables, RoutedIsListed, StoreMatchesTable, TypeOK
<1> QED
  BY <1>3, <1>4, <1>5, <1>6, <1>7, <1>8, <1>9 DEF Tables

\* Who is past the lock is the only one there.
LEMMA OthersOutside ==
  ASSUME ManagerInv, NEW p \in Proc, mu \in {None, p}, NEW q \in Proc, q # p
  PROVE  pc[q] \notin Locked
  BY ManagerAssumption DEF ManagerInv, Core, Exclusive

\* Uploads.
LEMMA UploadKeepsCore ==
  ASSUME ManagerInv, TypeOK', NEW p \in Proc, Upload(p)
  PROVE  Core'
<1> USE DEF ManagerInv, Core
<1>1. CASE Create(p)
  <2> USE <1>1 DEF Create, tables
  <2>1. fh[p] \in Deployment /\ docker[fh[p]] = "none" /\ name[p] \in Name /\ old[p] # fh[p]
    BY DEF TypeOK, Reserved, Uploading
  <2>2. \A q \in Proc \ {p} : pc[q] \notin Locked /\ pc'[q] = pc[q]
    BY OthersOutside DEF Goto, TypeOK
  <2>3. \A d \in Deployment : d # fh[p] => docker'[d] = docker[d] /\ named'[d] = named[d]
    BY DEF TypeOK
  <2>4. pc'[p] = "start" /\ docker'[fh[p]] = "created" /\ named'[fh[p]] = name[p]
    BY <2>1 DEF Goto, TypeOK
  <2>5. Exclusive'
    BY <2>2, <2>4 DEF Exclusive, Locked
  <2>6. \A n \in Name : handlers'[n] = IF n = name[p] THEN fh[p] ELSE handlers[n]
    BY <2>1 DEF TypeOK
  <2>7. Referenced'
    BY <2>1, <2>2, <2>3, <2>4, <2>6 DEF Referenced, Handling, Deployed, TypeOK
  <2>8. Reserved'
    BY <2>1, <2>2, <2>3, <2>4 DEF Reserved, Uploading, TypeOK
  <2>9. Progress'
    BY <2>1, <2>2, <2>4, <2>6 DEF Progress, Route, Deployed, Locked
  <2>10. Ended'
    BY DEF Ended, Nothing
  <2>11. \A n \in Name : hosts[n] # None => hosts[n] \in Deployment /\ hosts[n] # fh[p]
    BY <2>1 DEF Referenced, TypeOK
  <2>12. RoutesServe'
    BY <2>2, <2>3, <2>11 DEF Tables, RoutesServe
  <2>13. RoutedIsListed' /\ StoreMatchesTable'
    BY <2>1, <2>2, <2>6, ManagerAssumption DEF Tables, RoutedIsListed, StoreMatchesTable
  <2> QED
    BY <2>5, <2>7, <2>8, <2>9, <2>10, <2>12, <2>13 DEF Tables
<1>2. CASE CreateFails(p)
  <2>1. fh[p] \in Deployment /\ docker[fh[p]] = "none"
    BY <1>2 DEF CreateFails, TypeOK, Reserved
  <2>2. \A n \in Name : hosts[n] # None => hosts[n] \in Deployment /\ hosts[n] # fh[p]
    BY <2>1 DEF Referenced, TypeOK
  <2>3. \A d \in Deployment : d # fh[p] => docker'[d] = docker[d] /\ named'[d] = named[d]
    BY <1>2 DEF CreateFails, TypeOK
  <2> QED
    BY <1>2, <2>1, <2>2, <2>3, Leaving DEF CreateFails, service, tables, TypeOK
<1>3. CASE Start(p)
  <2> USE <1>3 DEF Start, service, tables
  <2>1. fh[p] \in Deployment /\ mu = p /\ docker[fh[p]] # "none"
    BY DEF TypeOK, Exclusive, Locked, Referenced, Handling, Deployed
  <2>2. \A q \in Proc \ {p} : pc[q] \notin Locked /\ pc'[q] = pc[q]
    BY <2>1, OthersOutside DEF Goto, TypeOK
  <2>3. \A d \in Deployment : docker'[d] = IF d = fh[p] THEN "running" ELSE docker[d]
    BY <2>1 DEF TypeOK
  <2>4. pc'[p] = "post"
    BY DEF Goto, TypeOK
  <2>5. Exclusive'
    BY <2>1, <2>2, <2>4 DEF Exclusive, Locked
  <2>6. Referenced'
    BY <2>1, <2>2, <2>3, <2>4 DEF Referenced, Handling, Deployed, TypeOK
  <2>7. Reserved'
    BY <2>1, <2>2, <2>3, <2>4 DEF Reserved, Uploading, TypeOK
  <2>8. Progress'
    BY <2>1, <2>2, <2>3, <2>4 DEF Progress, Route, Deployed, Locked
  <2>9. Ended'
    BY DEF Ended, Nothing
  <2>10. Tables'
    BY <2>2, <2>3, <2>4 DEF Tables, RoutesServe, RoutedIsListed, StoreMatchesTable, TypeOK
  <2> QED
    BY <2>5, <2>6, <2>7, <2>8, <2>9, <2>10
<1>4. CASE StartFails(p)
  <2>1. fh[p] \in Deployment /\ mu = p /\ docker[fh[p]] # "none"
    BY <1>4 DEF StartFails, TypeOK, Exclusive, Locked, Referenced, Handling, Deployed
  <2>2. \A d \in Deployment : docker'[d] = docker[d] \/ (d = fh[p] /\ docker'[d] = "running")
    BY <1>4, <2>1 DEF StartFails, TypeOK
  <2>3. /\ Leave(p) /\ pc[p] = "start" /\ mu' = None
        /\ UNCHANGED <<handlers, hosts, store, named, up, proxy>>
    BY <1>4 DEF StartFails, LeaveLocked, tables
  <2>4. docker' \in [Deployment -> DockerState]
    BY <1>4, <2>1 DEF StartFails, TypeOK
  <2>5. \A n \in Name : hosts[n] # None =>
          docker'[hosts[n]] \in {"running", "broken", docker[hosts[n]]}
    BY <2>2 DEF TypeOK
  <2> QED
    BY <2>1, <2>2, <2>3, <2>4, <2>5, Leaving
<1>5. CASE Uploaded(p)
  <2>1. mu = p
    BY <1>5 DEF Uploaded, Exclusive, Locked
  <2> QED
    BY <1>5, <2>1, Leaving DEF Uploaded, LeaveLocked, tables, TypeOK
<1>6. ASSUME NEW ok \in BOOLEAN, DestroyOld(p, ok) PROVE Core'
  <2> USE <1>6 DEF DestroyOld, tables
  <2>1. mu = p /\ old[p] \in Deployment /\ docker[old[p]] # "none" /\ named[old[p]] = name[p]
    BY DEF Exclusive, Locked, TypeOK, Referenced
  <2>2. old[p] # fh[p] /\ hosts[name[p]] = Route(p)
    BY DEF Reserved, Uploading, Progress
  <2>3. \A n \in Name : hosts[n] # None => hosts[n] \in Deployment /\ hosts[n] # old[p]
    BY <2>1, <2>2 DEF Route, Referenced, TypeOK
  <2>4. \A d \in Deployment : d # old[p] => docker'[d] = docker[d]
    BY DEF Destroy, TypeOK
  <2>5. docker'[old[p]] # "none"
    BY <2>1 DEF Destroy, TypeOK
  <2>6. docker' \in [Deployment -> DockerState]
    BY <2>1 DEF Destroy, TypeOK
  <2>7. /\ Leave(p) /\ pc[p] = "reply" /\ mu' = None
        /\ UNCHANGED <<handlers, hosts, store, named, up, proxy>>
    BY DEF LeaveLocked
  <2> QED
    BY <2>1, <2>3, <2>4, <2>5, <2>6, <2>7, Leaving
<1> QED
  BY <1>1, <1>2, <1>3, <1>4, <1>5, <1>6 DEF Upload

\* The three steps of the endpoint that go on change one table, for the
\* function of the holder, and nothing the others rely on.
LEMMA EndpointStep ==
  ASSUME ManagerInv, NEW p \in Proc, mu = p, proxy, name[p] \in Name,
         UNCHANGED <<handlers, mu, docker, named, up, proxy, name, fh, old, todo>>,
         NEW s \in {"set", "reply", "dset", "dreply"}, pc' = [pc EXCEPT ![p] = s],
         s \in {"set", "reply"} => pc[p] \in {"post", "set"},
         s \in {"dset", "dreply"} => pc[p] \in {"dpost", "dset"}
  PROVE  /\ \A q \in Proc \ {p} : pc[q] \notin Locked /\ pc'[q] = pc[q]
         /\ Exclusive' /\ Reserved'
<1> USE DEF ManagerInv, Core
<1>1. pc'[p] = s
  BY DEF TypeOK
<1>2. \A q \in Proc \ {p} : pc[q] \notin Locked /\ pc'[q] = pc[q]
  BY OthersOutside DEF TypeOK
<1>3. Exclusive'
  BY <1>1, <1>2 DEF Exclusive, Locked
<1>4. Reserved'
  BY <1>1, <1>2 DEF Reserved, Uploading
<1> QED
  BY <1>2, <1>3, <1>4

LEMMA EndpointKeepsCore ==
  ASSUME ManagerInv, NEW p \in Proc, Endpoint(p)
  PROVE  Core'
<1> USE DEF ManagerInv, Core
<1>1. pc[p] \in Locked /\ mu = p /\ name[p] \in Name /\ fh[p] \in Deployment
  BY DEF Endpoint, AddHost, DelHost, DelUnknown, SetStore, PostFails, Locked, Exclusive, TypeOK
<1>2. docker[fh[p]] # "none" /\ named[fh[p]] = name[p]
  BY <1>1 DEF Referenced, Handling, Deployed, Locked
<1>3. CASE AddHost(p)
  <2> USE <1>3 DEF AddHost, Goto, service, Adds
  <2>1. /\ \A q \in Proc \ {p} : pc[q] \notin Locked /\ pc'[q] = pc[q]
        /\ Exclusive' /\ Reserved' /\ pc'[p] = "set"
    BY <1>1, EndpointStep DEF TypeOK
  <2>2. \A n \in Name : hosts'[n] = IF n = name[p] THEN fh[p] ELSE hosts[n]
    BY <1>1 DEF TypeOK
  <2>3. Referenced'
    BY <1>2, <2>1, <2>2 DEF Referenced, Handling, Deployed, TypeOK
  <2>4. Progress'
    BY <1>1, <2>1, <2>2 DEF Progress, Route, Deployed, Locked
  <2>5. Ended'
    BY DEF Ended
  <2>6. handlers[name[p]] = fh[p] /\ docker[fh[p]] = "running"
    BY DEF Progress, Deployed
  <2>7. RoutesServe' /\ RoutedIsListed'
    BY <1>1, <2>1, <2>2, <2>6, ManagerAssumption DEF Tables, RoutesServe, RoutedIsListed
  <2>8. StoreMatchesTable'
    BY <2>1, <2>2 DEF Tables, StoreMatchesTable, Locked
  <2> QED
    BY <2>1, <2>3, <2>4, <2>5, <2>7, <2>8 DEF Tables
<1>4. CASE DelHost(p)
  <2> USE <1>4 DEF DelHost, Goto, service, Adds
  <2>1. /\ \A q \in Proc \ {p} : pc[q] \notin Locked /\ pc'[q] = pc[q]
        /\ Exclusive' /\ Reserved' /\ pc'[p] = IF pc[p] = "post" THEN "set" ELSE "dset"
    BY <1>1, EndpointStep DEF TypeOK
  <2>2. \A n \in Name : hosts'[n] = IF n = name[p] THEN None ELSE hosts[n]
    BY <1>1 DEF TypeOK
  <2>3. Referenced'
    BY <1>2, <2>1, <2>2 DEF Referenced, Handling, Deployed, TypeOK
  <2>4. Progress'
    BY <1>1, <2>1, <2>2 DEF Progress, Route, Deployed, Locked
  <2>5. Ended'
    BY DEF Ended
  <2>6. RoutesServe' /\ RoutedIsListed'
    BY <1>1, <2>1, <2>2 DEF Tables, RoutesServe, RoutedIsListed
  <2>7. StoreMatchesTable'
    BY <2>1, <2>2 DEF Tables, StoreMatchesTable, Locked
  <2> QED
    BY <2>1, <2>3, <2>4, <2>5, <2>6, <2>7 DEF Tables
<1>5. CASE SetStore(p)
  <2> USE <1>5 DEF SetStore, Goto, service
  <2>1. /\ \A q \in Proc \ {p} : pc[q] \notin Locked /\ pc'[q] = pc[q]
        /\ Exclusive' /\ Reserved' /\ pc'[p] = IF pc[p] = "set" THEN "reply" ELSE "dreply"
    BY <1>1, EndpointStep DEF TypeOK
  <2>2. \A n \in Name : store'[n] = IF n # name[p] THEN store[n] ELSE
                                    IF Adds(p) THEN fh[p] ELSE None
    BY <1>1 DEF TypeOK
  <2>3. hosts[name[p]] = IF Adds(p) THEN fh[p] ELSE None
    BY DEF Progress, Route, Adds
  <2>4. Referenced'
    BY <1>2, <2>1 DEF Referenced, Handling, Deployed
  <2>5. Progress'
    BY <1>1, <2>1, <2>2, <2>3 DEF Progress, Route, Deployed, Locked, Adds
  <2>6. Ended'
    BY DEF Ended
  <2>7. RoutesServe' /\ RoutedIsListed'
    BY <1>1, <2>1 DEF Tables, RoutesServe, RoutedIsListed
  <2>8. StoreMatchesTable'
    BY <2>1, <2>2, <2>3 DEF Tables, StoreMatchesTable, Locked
  <2> QED
    BY <2>1, <2>4, <2>5, <2>6, <2>7, <2>8 DEF Tables
<1>6. CASE DelUnknown(p)
  BY <1>1, <1>6, Leaving DEF DelUnknown, LeaveLocked, tables, Locked, TypeOK
<1>7. CASE PostFails(p)
  <2>1. \A n \in Name : hosts[n] = None /\ store[n] = None
    BY <1>7 DEF PostFails, Ended, Nothing
  <2> QED
    BY <1>1, <1>7, <2>1, Leaving DEF PostFails, LeaveLocked, tables, Locked, TypeOK
<1> QED
  BY <1>3, <1>4, <1>5, <1>6, <1>7 DEF Endpoint

\* Deletes, wipes and the reaper.
LEMMA DeleteKeepsCore ==
  ASSUME ManagerInv, NEW p \in Proc, Delete(p)
  PROVE  Core'
<1> USE DEF ManagerInv, Core
<1>1. up
  BY DEF Delete, NextName, Look, NotFound, DestroyHandler, DestroyFails, Deleted, Ended
<1>2. ASSUME NEW n \in Name, NextName(p, n) PROVE Core'
  <2>1. old[p] = None
    BY <1>2 DEF NextName, Reserved, Uploading
  <2> QED
    BY <1>1, <1>2, <2>1, OwnFrame DEF NextName, Goto, service, tables, TypeOK, Locked
<1>3. CASE Look(p)
  BY <1>1, <1>3, OwnFrame DEF Look, Goto, service, tables, TypeOK, Locked, Referenced,
     Reserved, Uploading
<1>4. CASE NotFound(p)
  BY <1>1, <1>4, OwnFrame DEF NotFound, Leave, Goto, service, tables, TypeOK, Locked
<1>5. CASE DestroyHandler(p)
  <2> USE <1>5 DEF DestroyHandler, tables
  <2>1. /\ fh[p] \in Deployment /\ name[p] \in Name
        /\ docker[fh[p]] # "none" /\ named[fh[p]] = name[p]
    BY DEF TypeOK, Referenced, Handling, Deployed
  <2>2. \A q \in Proc \ {p} : pc[q] \notin Locked /\ pc'[q] = pc[q]
    BY OthersOutside DEF Goto, TypeOK
  <2>3. \A d \in Deployment : docker'[d] = IF d = fh[p] THEN "removed" ELSE docker[d]
    BY <2>1 DEF Destroy, TypeOK
  <2>4. pc'[p] = "dpost"
    BY DEF Goto, TypeOK
  <2>5. Exclusive'
    BY <2>2, <2>4 DEF Exclusive, Locked
  <2>6. Referenced'
    BY <2>1, <2>2, <2>3, <2>4 DEF Referenced, Handling, Deployed, TypeOK
  <2>7. Reserved'
    BY <2>1, <2>2, <2>3, <2>4 DEF Reserved, Uploading, TypeOK
  <2>8. Progress'
    BY <2>2, <2>4 DEF Progress, Route, Deployed, Locked
  <2>9. Ended'
    BY DEF Ended
  <2>10. \A n \in Name : hosts[n] # None => hosts[n] \in Deployment /\ named[hosts[n]] = n
    BY DEF Referenced, TypeOK
  <2>11. Tables'
    BY <2>1, <2>2, <2>3, <2>4, <2>10 DEF Tables, RoutesServe, RoutedIsListed, StoreMatchesTable, Locked
  <2> QED
    BY <2>5, <2>6, <2>7, <2>8, <2>9, <2>11
<1>6. CASE DestroyFails(p)
  <2>1. fh[p] \in Deployment /\ docker[fh[p]] # "none"
    BY <1>6 DEF DestroyFails, TypeOK, Referenced, Handling, Deployed
  <2>2. \A d \in Deployment : docker'[d] = docker[d] \/ (d = fh[p] /\ docker'[d] = "broken")
    BY <1>6 DEF DestroyFails, Destroy, TypeOK
  <2> QED
    BY <1>6, <2>1, <2>2, DestroyTypes, Leaving DEF DestroyFails, service, tables, TypeOK
<1>7. CASE Deleted(p)
  <2>1. mu = p /\ hosts[name[p]] = None
    BY <1>7 DEF Deleted, Exclusive, Locked, Progress
  <2> QED
    BY <1>7, <2>1, Leaving DEF Deleted, LeaveLocked, tables, TypeOK
<1> QED
  BY <1>2, <1>3, <1>4, <1>5, <1>6, <1>7 DEF Delete

-------------------------------------------------------------------------------
(* The other steps.                                                           *)

\* A request to upload reserves a deployment that nobody has.
LEMMA UploadBeginsKeepsCore ==
  ASSUME ManagerInv, NEW p \in Proc, NEW n \in Name, NEW d \in Deployment, UploadBegins(p, n, d)
  PROVE  Core'
<1> USE DEF ManagerInv, Core, UploadBegins, service, tables
<1>1. docker[d] = "none" /\ \A q \in Proc : fh[q] # d
  BY DEF Fresh
<1>2. \A q \in Proc \ {p} : /\ pc'[q] = pc[q] /\ name'[q] = name[q]
                            /\ fh'[q] = fh[q] /\ old'[q] = old[q]
  BY DEF Goto, TypeOK
<1>3. pc'[p] = "lock" /\ name'[p] = n /\ fh'[p] = d /\ old'[p] = handlers[n]
  BY DEF Goto, TypeOK
<1>4. Exclusive'
  BY <1>2, <1>3 DEF Exclusive, Locked
<1>5. Referenced'
  BY <1>2, <1>3 DEF Referenced, Handling, Deployed
<1>6. Reserved'
  <2>1. handlers[n] # d
    BY <1>1, ManagerAssumption DEF Referenced
  <2> QED
    BY <1>1, <1>2, <1>3, <2>1 DEF Reserved, Uploading
<1>7. Progress'
  BY <1>2, <1>3 DEF Progress, Route, Deployed
<1>8. Ended'
  BY DEF Ended
<1>9. Tables'
  BY <1>2, <1>3 DEF Tables, RoutesServe, RoutedIsListed, StoreMatchesTable
<1> QED
  BY <1>4, <1>5, <1>6, <1>7, <1>8, <1>9

\* Requests to delete and to wipe, and the reaper: their list is all they set.
LEMMA ListKeepsCore ==
  ASSUME ManagerInv, NEW p \in Proc, up, pc[p] = "idle", Goto(p, "next"),
         UNCHANGED <<service, hosts, store, docker, named, up, proxy, name, fh, old>>
  PROVE  Core'
<1>1. old[p] = None
  BY DEF ManagerInv, Core, Reserved, Uploading
<1> QED
  BY <1>1, OwnFrame DEF ManagerInv, TypeOK, Goto, service, Locked

\* The end of the proxy empties what the tables say, and breaks nothing.
LEMMA ProxyEndsKeepsCore ==
  ASSUME ManagerInv, ProxyEnds, UNCHANGED <<service, docker, named, up, pc, name, fh, old>>
  PROVE  Core'
<1> USE DEF ManagerInv, Core, ProxyEnds, service, Nothing
<1>1. Exclusive' /\ Referenced' /\ Reserved'
  BY DEF Exclusive, Referenced, Reserved
<1>2. Progress'
  BY DEF Progress, Route, Deployed, TypeOK, Uploading, Deleting
<1>3. Ended'
  BY DEF Ended
<1>4. Tables'
  BY DEF Tables, RoutesServe, RoutedIsListed, StoreMatchesTable
<1> QED
  BY <1>1, <1>2, <1>3, <1>4

\* An interrupt: the proxy ends and a wipe begins.
LEMMA InterruptKeepsCore ==
  ASSUME ManagerInv, NEW S \in SUBSET Name, Interrupt(S)
  PROVE  Core'
<1> USE DEF ManagerInv, Core, Interrupt, WipeBegins, ProxyEnds, service, Nothing, Goto
<1>1. Stopper \in Proc /\ old[Stopper] = None
  BY DEF Proc, Reserved, Uploading
<1>2. /\ pc'[Stopper] = "next" /\ pc[Stopper] = "idle"
      /\ \A q \in Proc \ {Stopper} : pc'[q] = pc[q]
  BY <1>1 DEF TypeOK
<1>3. Exclusive'
  BY <1>2 DEF Exclusive, Locked
<1>4. Referenced'
  BY <1>2 DEF Referenced, Handling, Deployed
<1>5. Reserved'
  BY <1>1, <1>2 DEF Reserved, Uploading
<1>6. Progress'
  BY <1>2 DEF Progress, Route, Deployed, TypeOK, Uploading, Deleting
<1>7. Ended'
  BY DEF Ended
<1>8. Tables'
  BY DEF Tables, RoutesServe, RoutedIsListed, StoreMatchesTable
<1> QED
  BY <1>3, <1>4, <1>5, <1>6, <1>7, <1>8

\* The end of the service and its next start.
LEMMA RestartKeepsCore ==
  ASSUME ManagerInv, (\E power \in BOOLEAN : Halt(power)) \/ Boot
  PROVE  Core'
<1> USE DEF ManagerInv, Core, Nothing
<1>1. CASE \E power \in BOOLEAN : Halt(power)
  <2>1. /\ \A p \in Proc : pc'[p] = "idle" /\ fh'[p] = None /\ old'[p] = None
        /\ mu' = None /\ ~up' /\ ~proxy'
        /\ handlers' = [n \in Name |-> None]
        /\ hosts' = [n \in Name |-> None] /\ store' = [n \in Name |-> None]
    BY <1>1 DEF Halt, ProxyEnds
  <2>2. Exclusive' /\ Referenced' /\ Reserved' /\ Progress' /\ Ended'
    BY <2>1, ManagerAssumption DEF Exclusive, Locked, Referenced, Handling, Deployed, Reserved,
       Uploading, Progress, Ended
  <2>3. Tables'
    BY <2>1 DEF Tables, RoutesServe, RoutedIsListed, StoreMatchesTable
  <2> QED
    BY <2>2, <2>3
<1>2. CASE Boot
  <2>1. /\ \A p \in Proc : pc'[p] = "idle"
        /\ handlers' = [n \in Name |-> None]
        /\ hosts' = [n \in Name |-> None] /\ store' = [n \in Name |-> None]
        /\ up' /\ proxy' /\ UNCHANGED <<mu, fh, old>>
    BY <1>2 DEF Boot, Ended, service, tables, locals
  <2>2. \A p \in Proc : pc[p] = "idle"
    BY <1>2 DEF Boot, Ended
  <2>3. Exclusive' /\ Referenced' /\ Reserved' /\ Progress' /\ Ended'
    BY <2>1, <2>2, ManagerAssumption DEF Exclusive, Locked, Referenced, Handling, Deployed,
       Reserved, Uploading, Progress, Ended
  <2>4. Tables'
    BY <2>1 DEF Tables, RoutesServe, RoutedIsListed, StoreMatchesTable
  <2> QED
    BY <2>3, <2>4
<1> QED
  BY <1>1, <1>2

\* A step that changes none of the variables the invariant speaks of.
LEMMA OutsideKeepsCore ==
  ASSUME ManagerInv,
         UNCHANGED <<handlers, mu, hosts, store, docker, named, up, proxy, pc, name, fh, old>>
  PROVE  Core'
  BY DEF ManagerInv, Core, Exclusive, Referenced, Reserved, Progress, Route, Ended, Tables,
     RoutesServe, RoutedIsListed, StoreMatchesTable

\* The invariant is inductive.
LEMMA NextManagerInv ==
  ASSUME ManagerInv, [Next]_vars
  PROVE  ManagerInv'
<1>1. TypeOK'
  BY NextTypeOK DEF ManagerInv
<1> SUFFICES Core'
  BY <1>1 DEF ManagerInv
<1>2. ASSUME NEW p \in Proc, Step(p) PROVE Core'
  BY <1>1, <1>2, UploadKeepsCore, EndpointKeepsCore, DeleteKeepsCore DEF Step
<1>3. ASSUME NEW p \in Proc, MapRace(p) PROVE Core'
  BY <1>3, ProxyEndsKeepsCore DEF MapRace, locals
<1>4. ASSUME NEW p \in Proc, NEW n \in Name, DeleteBegins(p, n) PROVE Core'
  BY <1>4, ListKeepsCore DEF DeleteBegins, tables
<1>5. ASSUME NEW p \in Proc, NEW S \in SUBSET Name, WipeBegins(p, S), UNCHANGED <<tables, proxy>>
      PROVE  Core'
  BY <1>5, ListKeepsCore DEF WipeBegins, tables
<1>6. CASE Reap
  <2>1. Reaper \in Proc
    BY DEF Proc
  <2> QED
    BY <1>6, <2>1, ListKeepsCore DEF Reap, tables
<1>7. ASSUME NEW n \in Name, CallBegins(n) \/ TimePasses(n) PROVE Core'
  BY <1>7, OutsideKeepsCore DEF CallBegins, TimePasses, service, locals
<1>8. ASSUME NEW d \in Deployment, CallEnds(d) PROVE Core'
  BY <1>8, OutsideKeepsCore DEF CallEnds, service, locals
<1>9. CASE UNCHANGED vars
  BY <1>9, OutsideKeepsCore DEF vars
<1>10. Request \subseteq Proc
  BY DEF Proc
<1> QED
  BY <1>2, <1>3, <1>4, <1>5, <1>6, <1>7, <1>8, <1>9, <1>10, UploadBeginsKeepsCore,
     InterruptKeepsCore, RestartKeepsCore DEF Next

LEMMA SpecManagerInv == Spec => []ManagerInv
<1>1. Init => ManagerInv
  BY InitManagerInv
<1>2. ManagerInv /\ [Next]_vars => ManagerInv'
  BY NextManagerInv
<1> QED
  BY <1>1, <1>2, PTL DEF Spec

-------------------------------------------------------------------------------
(* The results.                                                               *)

\* Whatever the management service, the proxy and Docker hold is well typed,
\* and a process that works on a function has its name and its handler:
\* createFunction and Delete never use a nil oldHandler or fh.
THEOREM ManagerTypes == Spec => []TypeOK
<1>1. ManagerInv => TypeOK
  BY DEF ManagerInv
<1> QED
  BY <1>1, SpecManagerInv, PTL

\* A name in RProxy.hosts has a deployment that was started and has not been
\* removed, except while the delete that removed it talks to the proxy.
THEOREM RoutedFunctionsServe == Spec => []RoutesServe
<1>1. ManagerInv => RoutesServe
  BY DEF ManagerInv, Core, Tables
<1> QED
  BY <1>1, SpecManagerInv, PTL

\* A name in RProxy.hosts is a key of functionHandlers.
THEOREM RoutedFunctionsAreListed == Spec => []RoutedIsListed
<1>1. ManagerInv => RoutedIsListed
  BY DEF ManagerInv, Core, Tables
<1> QED
  BY <1>1, SpecManagerInv, PTL

\* FunctionStore.funcs has what RProxy.hosts routes to, except between the two
\* statements of the endpoint that set them.
THEOREM StoreFollowsTable == Spec => []StoreMatchesTable
<1>1. ManagerInv => StoreMatchesTable
  BY DEF ManagerInv, Core, Tables
<1> QED
  BY <1>1, SpecManagerInv, PTL

\* Between Create and the answer of the endpoint, and between Destroy and it,
\* nobody else changes the three tables for that function.
THEOREM ChangesAreAtomic == Spec => []ChangesTakeEffect
<1>1. ManagerInv => ChangesTakeEffect
  BY DEF ManagerInv, Core, Progress, Route, Deployed, ChangesTakeEffect
<1> QED
  BY <1>1, SpecManagerInv, PTL

\* Every error path of createFunction and Delete returns the mutex.
THEOREM MutexComesBack == Spec => []MutexIsReturned
<1>1. ManagerInv => MutexIsReturned
  BY DEF ManagerInv, TypeOK, Core, Exclusive, MutexIsReturned
<1> QED
  BY <1>1, SpecManagerInv, PTL

-------------------------------------------------------------------------------
(* The refinement of Rollout.                                                 *)

\* A step of p leaves the changes of everyone else as they are.
Others(p) == \A q \in Proc \ {p} : pc'[q] = pc[q] /\ name'[q] = name[q] /\ fh'[q] = fh[q]

\* No deployment comes or goes, and nobody takes one or gives one up.
Takes == \/ \E d \in Deployment : docker'[d] = "none" /\ docker[d] # "none"
         \/ \E d \in Deployment : docker'[d] # "none" /\ docker[d] = "none"
         \/ \E q \in Proc : pc'[q] = "lock" /\ (pc[q] # "lock" \/ fh'[q] # fh[q])
         \/ \E q \in Proc : pc[q] = "lock" /\ pc'[q] # "lock"

LEMMA StockStays == ~Takes => Stock' = Stock
  BY DEF Takes, Stock

\* Destroying a deployment that exists does not take it back to nothing.
LEMMA DestroyKeeps ==
  ASSUME TypeOK, NEW d, NEW ok \in BOOLEAN, Destroy(d, ok), d \in Deployment => docker[d] # "none",
         NEW e \in Deployment
  PROVE  docker'[e] = "none" <=> docker[e] = "none"
  BY DEF Destroy, TypeOK

LEMMA AsksChange ==
  ASSUME NEW p \in Proc, Others(p)
  PROVE  /\ [q \in Proc |-> AskedOf(q)]' = [[q \in Proc |-> AskedOf(q)] EXCEPT ![p] = AskedOf(p)']
         /\ [q \in Proc |-> BroughtOf(q)]' = [[q \in Proc |-> BroughtOf(q)] EXCEPT ![p] = BroughtOf(p)']
<1>1. \A q \in Proc \ {p} : AskedOf(q)' = AskedOf(q) /\ BroughtOf(q)' = BroughtOf(q)
  BY DEF Others, AskedOf, BroughtOf, AsksUpload, AsksDelete
<1> QED
  BY <1>1

\* A step inside a change, or outside of all of them.
LEMMA Unnoticed ==
  ASSUME NEW p \in Proc, Others(p), AskedOf(p)' = AskedOf(p), BroughtOf(p)' = BroughtOf(p),
         hosts' = hosts, Stock' = Stock
  PROVE  UNCHANGED R!vars
<1>1. \A q \in Proc : AskedOf(q)' = AskedOf(q) /\ BroughtOf(q)' = BroughtOf(q)
  BY DEF Others, AskedOf, BroughtOf, AsksUpload, AsksDelete
<1>2. /\ [q \in Proc |-> AskedOf(q)]' = [q \in Proc |-> AskedOf(q)]
      /\ [q \in Proc |-> BroughtOf(q)]' = [q \in Proc |-> BroughtOf(q)]
  BY <1>1
<1> QED
  BY <1>2 DEF R!vars

\* A change is settled when its process goes on to something else.
LEMMA Settles ==
  ASSUME NEW p \in Proc, Others(p), AskedOf(p) # None, AskedOf(p)' = None, BroughtOf(p)' = None
  PROVE  R!Settle(p)
  BY AsksChange DEF R!Settle

LEMMA GivesUp ==
  ASSUME NEW p \in Proc, Others(p), AskedOf(p) # None, AskedOf(p)' = None, BroughtOf(p)' = None,
         hosts' = hosts, Stock' \in {Stock, Stock \cup ({BroughtOf(p)} \ {None})}
  PROVE  R!Next
<1>1. R!GiveUp(p)
  BY Settles DEF R!GiveUp
<1> QED
  BY <1>1 DEF R!Next

LEMMA TakesEffect ==
  ASSUME NEW p \in Proc, Others(p), AskedOf(p) # None, AskedOf(p)' = None, BroughtOf(p)' = None,
         Stock' = Stock,
         hosts' = [hosts EXCEPT ![AskedOf(p)] = IF BroughtOf(p) \in NoThreads THEN None ELSE BroughtOf(p)]
  PROVE  R!Next
<1>1. R!TakeEffect(p)
  BY Settles DEF R!TakeEffect
<1> QED
  BY <1>1 DEF R!Next

LEMMA AsksFor ==
  ASSUME NEW p \in Proc, Others(p), AskedOf(p) = None, AskedOf(p)' \in Name,
         BroughtOf(p)' \in Stock \cup {None}, Stock' = Stock \ {BroughtOf(p)'}, hosts' = hosts
  PROVE  R!Next
<1>1. AskedOf(p)' # None
  BY ManagerAssumption
<1>2. R!Ask(p)
  BY <1>1, AsksChange DEF R!Ask
<1> QED
  BY <1>2 DEF R!Next

\* Whoever leaves asks for nothing any more, and takes no deployment.
LEMMA LeavesUnasked ==
  ASSUME TypeOK, NEW p \in Proc, Leave(p)
  PROVE  /\ Others(p) /\ AskedOf(p)' = None /\ BroughtOf(p)' = None
         /\ \A q \in Proc : pc'[q] = "lock" => q # p /\ pc[q] = "lock" /\ fh'[q] = fh[q]
         /\ \A q \in Proc : pc[q] = "lock" => q = p \/ pc'[q] = "lock"
<1>1. pc'[p] \in {"idle", "next"}
  BY DEF Leave, Goto, TypeOK
<1>2. Others(p)
  BY DEF Others, Leave, Goto, TypeOK
<1> QED
  BY <1>1, <1>2 DEF Others, AskedOf, BroughtOf, AsksUpload, AsksDelete

\* A change that is refused gives its deployment back unless Docker knows it.
LEMMA Refused ==
  ASSUME ManagerInv, NEW p \in Proc, Leave(p), AsksUpload(p) \/ AsksDelete(p), pc[p] # "lock",
         hosts' = hosts, \A d \in Deployment : docker'[d] = "none" <=> docker[d] = "none"
  PROVE  R!Next
<1>1. AskedOf(p) # None
  BY ManagerAssumption DEF ManagerInv, TypeOK, AskedOf, AsksUpload, AsksDelete
<1>2. Stock' = Stock
  BY LeavesUnasked, StockStays DEF ManagerInv, Takes
<1> QED
  BY <1>1, <1>2, LeavesUnasked, GivesUp DEF ManagerInv

\* The ends of processes whose change is made already.
LEMMA Done ==
  ASSUME ManagerInv, NEW p \in Proc, Leave(p), ~AsksUpload(p), ~AsksDelete(p),
         hosts' = hosts, \A d \in Deployment : docker'[d] = "none" <=> docker[d] = "none"
  PROVE  UNCHANGED R!vars
<1>1. AskedOf(p) = None /\ BroughtOf(p) = None /\ pc[p] # "lock"
  BY DEF AskedOf, BroughtOf, AsksUpload
<1>2. Stock' = Stock
  BY <1>1, LeavesUnasked, StockStays DEF ManagerInv, Takes
<1> QED
  BY <1>1, <1>2, LeavesUnasked, Unnoticed DEF ManagerInv

LEMMA UploadRefines ==
  ASSUME ManagerInv, NEW p \in Proc, Upload(p)
  PROVE  R!Next \/ UNCHANGED R!vars
<1> USE DEF ManagerInv, Core
<1>1. CASE Create(p)
  <2>1. pc[p] = "lock" /\ pc'[p] = "start" /\ Others(p) /\ UNCHANGED <<hosts, name, fh>>
    BY <1>1 DEF Create, Goto, Others, TypeOK, tables
  <2>2. AskedOf(p)' = AskedOf(p) /\ BroughtOf(p)' = BroughtOf(p)
    BY <2>1 DEF AskedOf, BroughtOf, AsksUpload
  <2>3. fh[p] \in Deployment /\ docker' = [docker EXCEPT ![fh[p]] = "created"]
    BY <1>1, <2>1 DEF Create, TypeOK
  <2>4. \A d \in Deployment : d \in Stock' <=> d \in Stock
    <3>1. \A q \in Proc \ {p} : pc'[q] = pc[q] /\ fh'[q] = fh[q]
      BY <2>1 DEF Others
    <3>2. ASSUME NEW d \in Deployment, d # fh[p] PROVE docker'[d] = docker[d]
      BY <2>3, <3>2 DEF TypeOK
    <3>3. docker'[fh[p]] # "none"
      BY <2>3 DEF TypeOK
    <3> QED
      BY <2>1, <2>3, <3>1, <3>2, <3>3 DEF Stock
  <2>5. Stock' = Stock
    BY <2>4 DEF Stock
  <2> QED
    BY <2>1, <2>2, <2>5, Unnoticed
<1>2. CASE CreateFails(p)
  <2>1. pc[p] = "lock" /\ Leave(p) /\ hosts' = hosts
    BY <1>2 DEF CreateFails, tables
  <2>2. fh[p] \in Deployment /\ BroughtOf(p) = fh[p] /\ fh[p] # None
    BY <2>1, ManagerAssumption DEF TypeOK, BroughtOf, AsksUpload
  <2>3. AskedOf(p) # None
    BY <2>1, ManagerAssumption DEF TypeOK, AskedOf, AsksUpload
  <2>4. /\ \A q \in Proc \ {p} : pc'[q] = pc[q] /\ fh'[q] = fh[q]
        /\ pc'[p] # "lock"
    BY <2>1, LeavesUnasked DEF Others
  <2>5. CASE docker' = docker
    <3>1. docker[fh[p]] = "none" /\ \A q \in Proc \ {p} : fh[q] # fh[p]
      BY <2>1 DEF Reserved
    <3>2. \A d \in Deployment : d \in Stock' <=> d \in Stock \/ d = fh[p]
      BY <2>1, <2>4, <2>5, <3>1 DEF Stock
    <3>3. Stock' = Stock \cup ({BroughtOf(p)} \ {None})
      BY <2>2, <3>2 DEF Stock
    <3> QED
      BY <2>1, <2>3, <3>3, LeavesUnasked, GivesUp
  <2>6. CASE docker' = [docker EXCEPT ![fh[p]] = "created"]
    <3>1. docker'[fh[p]] # "none" /\ \A d \in Deployment \ {fh[p]} : docker'[d] = docker[d]
      BY <2>2, <2>6 DEF TypeOK
    <3>2. \A d \in Deployment : d \in Stock' <=> d \in Stock
      BY <2>1, <2>2, <2>4, <3>1 DEF Stock
    <3>3. Stock' = Stock
      BY <3>2 DEF Stock
    <3> QED
      BY <2>1, <2>3, <3>3, LeavesUnasked, GivesUp
  <2> QED
    BY <1>2, <2>5, <2>6 DEF CreateFails
<1>3. ASSUME pc[p] = "start" PROVE fh[p] \in Deployment /\ docker[fh[p]] # "none"
  BY <1>3 DEF TypeOK, Referenced, Handling, Deployed
<1>4. CASE Start(p)
  <2>1. pc[p] = "start" /\ pc'[p] = "post" /\ Others(p) /\ UNCHANGED <<hosts, name, fh>>
    BY <1>4 DEF Start, Goto, Others, TypeOK, tables
  <2>2. \A d \in Deployment : docker'[d] = "none" <=> docker[d] = "none"
    BY <1>3, <1>4, <2>1 DEF Start, TypeOK
  <2>3. Stock' = Stock
    BY <2>1, <2>2, StockStays DEF Takes, Others
  <2> QED
    BY <2>1, <2>3, Unnoticed DEF AskedOf, BroughtOf, AsksUpload
<1>5. CASE StartFails(p)
  <2>1. pc[p] = "start" /\ Leave(p) /\ hosts' = hosts
    BY <1>5 DEF StartFails, LeaveLocked, tables
  <2>2. \A d \in Deployment : docker'[d] = "none" <=> docker[d] = "none"
    BY <1>3, <1>5, <2>1 DEF StartFails, TypeOK
  <2> QED
    BY <2>1, <2>2, Refused DEF AsksUpload
<1>6. CASE Uploaded(p)
  BY <1>6, Done DEF Uploaded, LeaveLocked, tables, AsksUpload, AsksDelete
<1>7. ASSUME NEW ok \in BOOLEAN, DestroyOld(p, ok)
      PROVE  UNCHANGED R!vars
  <2>1. pc[p] = "reply" /\ Leave(p) /\ hosts' = hosts /\ Destroy(old[p], ok)
    BY <1>7 DEF DestroyOld, LeaveLocked, tables
  <2>2. old[p] # None /\ docker[old[p]] # "none"
    BY <1>7 DEF DestroyOld, Referenced
  <2>3. \A d \in Deployment : docker'[d] = "none" <=> docker[d] = "none"
    BY <2>1, <2>2, DestroyKeeps
  <2> QED
    BY <2>1, <2>3, Done DEF AsksUpload, AsksDelete
<1> QED
  BY <1>1, <1>2, <1>4, <1>5, <1>6, <1>7 DEF Upload

LEMMA EndpointRefines ==
  ASSUME ManagerInv, NEW p \in Proc, Endpoint(p)
  PROVE  R!Next \/ UNCHANGED R!vars
<1> USE DEF ManagerInv, Core
<1>1. ASSUME NEW s \in {"set", "dset", "reply", "dreply"}, Goto(p, s), UNCHANGED <<docker, name, fh>>,
             pc[p] # "lock"
      PROVE  /\ Others(p) /\ AskedOf(p)' = None /\ BroughtOf(p)' = None
             /\ Stock' = Stock
  <2>1. Others(p) /\ pc'[p] = s
    BY <1>1 DEF Others, Goto, TypeOK
  <2>2. AskedOf(p)' = None /\ BroughtOf(p)' = None
    BY <2>1 DEF AskedOf, BroughtOf, AsksUpload, AsksDelete
  <2>3. Stock' = Stock
    BY <1>1, <2>1, StockStays DEF Takes, Others
  <2> QED
    BY <2>1, <2>2, <2>3
<1>2. ASSUME pc[p] \in {"post", "dpost"}
      PROVE  AskedOf(p) = name[p] /\ AskedOf(p) # None /\ name[p] \in Name
  BY <1>2, ManagerAssumption DEF AskedOf, AsksUpload, AsksDelete, TypeOK
<1>3. CASE AddHost(p)
  <2>1. /\ pc[p] = "post" /\ fh[p] \notin NoThreads /\ Goto(p, "set")
        /\ hosts' = [hosts EXCEPT ![name[p]] = fh[p]] /\ UNCHANGED <<docker, name, fh>>
    BY <1>3 DEF AddHost, Adds
  <2>2. BroughtOf(p) = fh[p]
    BY <2>1 DEF BroughtOf, AsksUpload
  <2> QED
    BY <1>1, <1>2, <2>1, <2>2, TakesEffect
<1>4. CASE DelHost(p)
  <2>1. /\ pc[p] \in {"post", "dpost"} /\ (pc[p] = "post" => fh[p] \in NoThreads)
        /\ \E s \in {"set", "dset"} : Goto(p, s)
        /\ hosts' = [hosts EXCEPT ![name[p]] = None] /\ UNCHANGED <<docker, name, fh>>
    BY <1>4 DEF DelHost, Adds
  <2>2. BroughtOf(p) \in NoThreads \/ BroughtOf(p) = None
    BY <2>1 DEF BroughtOf, AsksUpload
  <2>3. hosts' = [hosts EXCEPT ![AskedOf(p)] =
                    IF BroughtOf(p) \in NoThreads THEN None ELSE BroughtOf(p)]
    BY <1>2, <2>1, <2>2
  <2> QED
    BY <1>1, <1>2, <2>1, <2>3, TakesEffect
<1>5. CASE DelUnknown(p)
  BY <1>5, Refused DEF DelUnknown, LeaveLocked, tables, AsksUpload, AsksDelete
<1>6. CASE SetStore(p)
  <2>1. /\ pc[p] \in {"set", "dset"} /\ \E s \in {"reply", "dreply"} : Goto(p, s)
        /\ UNCHANGED <<hosts, docker, name, fh>>
    BY <1>6 DEF SetStore
  <2>2. AskedOf(p) = None /\ BroughtOf(p) = None
    BY <2>1 DEF AskedOf, BroughtOf, AsksUpload, AsksDelete
  <2> QED
    BY <1>1, <2>1, <2>2, Unnoticed
<1>7. CASE PostFails(p)
  <2>1. pc[p] \in Locked \ {"start"} /\ Leave(p) /\ UNCHANGED <<hosts, docker>>
    BY <1>7 DEF PostFails, LeaveLocked, tables
  <2>2. CASE AsksUpload(p) \/ AsksDelete(p)
    BY <2>1, <2>2, Refused DEF Locked
  <2> QED
    BY <2>1, <2>2, Done
<1> QED
  BY <1>3, <1>4, <1>5, <1>6, <1>7 DEF Endpoint

LEMMA DeleteRefines ==
  ASSUME ManagerInv, NEW p \in Proc, Delete(p)
  PROVE  R!Next \/ UNCHANGED R!vars
<1> USE DEF ManagerInv, Core
<1>1. ASSUME pc[p] = "dlock" PROVE fh[p] \in Deployment /\ docker[fh[p]] # "none"
  BY <1>1 DEF TypeOK, Referenced, Handling
<1>2. ASSUME NEW n \in Name, NextName(p, n)
      PROVE  R!Next \/ UNCHANGED R!vars
  <2>1. /\ pc[p] = "next" /\ Others(p) /\ pc'[p] \in {"idle", "next", "look"}
        /\ UNCHANGED <<hosts, docker, fh>>
        /\ pc'[p] = "look" => name'[p] = n
    BY <1>2 DEF NextName, Goto, Others, TypeOK, tables
  <2>2. AskedOf(p) = None /\ BroughtOf(p) = None /\ BroughtOf(p)' = None
    BY <2>1 DEF AskedOf, BroughtOf, AsksUpload, AsksDelete
  <2>3. Stock' = Stock
    BY <2>1, StockStays DEF Takes, Others
  <2>4. CASE pc'[p] = "look"
    <3>1. AskedOf(p)' \in Name
      BY <2>1, <2>4 DEF AskedOf, AsksDelete
    <3>2. Stock' = Stock \ {BroughtOf(p)'}
      BY <2>2, <2>3, ManagerAssumption DEF Stock
    <3> QED
      BY <2>1, <2>2, <3>1, <3>2, AsksFor
  <2>5. CASE pc'[p] # "look"
    <3>1. AskedOf(p)' = None
      BY <2>1, <2>5 DEF AskedOf, AsksUpload, AsksDelete
    <3> QED
      BY <2>1, <2>2, <2>3, <3>1, Unnoticed
  <2> QED
    BY <2>4, <2>5
<1>3. CASE Look(p)
  <2>1. pc[p] = "look" /\ pc'[p] = "dlock" /\ Others(p) /\ UNCHANGED <<hosts, docker, name>>
    BY <1>3 DEF Look, Goto, Others, TypeOK, tables
  <2>2. Stock' = Stock
    BY <2>1, StockStays DEF Takes, Others
  <2> QED
    BY <2>1, <2>2, Unnoticed DEF AskedOf, BroughtOf, AsksUpload, AsksDelete
<1>4. CASE NotFound(p)
  BY <1>4, Refused DEF NotFound, tables, AsksUpload, AsksDelete
<1>5. CASE DestroyHandler(p)
  <2>1. /\ pc[p] = "dlock" /\ pc'[p] = "dpost" /\ Others(p) /\ UNCHANGED <<hosts, name, fh>>
        /\ Destroy(fh[p], TRUE)
    BY <1>5 DEF DestroyHandler, Goto, Others, TypeOK, tables
  <2>2. \A d \in Deployment : docker'[d] = "none" <=> docker[d] = "none"
    BY <1>1, <2>1, DestroyKeeps
  <2>3. Stock' = Stock
    BY <2>1, <2>2, StockStays DEF Takes, Others
  <2> QED
    BY <2>1, <2>3, Unnoticed DEF AskedOf, BroughtOf, AsksUpload, AsksDelete
<1>6. CASE DestroyFails(p)
  <2>1. pc[p] = "dlock" /\ Leave(p) /\ hosts' = hosts /\ Destroy(fh[p], FALSE)
    BY <1>6 DEF DestroyFails, tables
  <2>2. \A d \in Deployment : docker'[d] = "none" <=> docker[d] = "none"
    BY <1>1, <2>1, DestroyKeeps
  <2> QED
    BY <2>1, <2>2, Refused DEF AsksUpload, AsksDelete
<1>7. CASE Deleted(p)
  BY <1>7, Done DEF Deleted, LeaveLocked, tables, AsksUpload, AsksDelete
<1> QED
  BY <1>2, <1>3, <1>4, <1>5, <1>6, <1>7 DEF Delete

\* An upload begins with a deployment of its own.
LEMMA UploadBeginsRefines ==
  ASSUME ManagerInv, NEW p \in Proc, NEW n \in Name, NEW d \in Deployment, UploadBegins(p, n, d)
  PROVE  R!Next
<1>1. /\ pc[p] = "idle" /\ pc'[p] = "lock" /\ name'[p] = n /\ fh'[p] = d /\ Others(p)
      /\ UNCHANGED <<hosts, docker>>
  BY DEF UploadBegins, Goto, Others, ManagerInv, TypeOK, tables
<1>2. docker[d] = "none" /\ \A q \in Proc : fh[q] # d
  BY DEF UploadBegins, Fresh
<1>3. AskedOf(p) = None /\ AskedOf(p)' = n /\ BroughtOf(p)' = d
  BY <1>1 DEF AskedOf, BroughtOf, AsksUpload, AsksDelete
<1>4. d \in Stock
  BY <1>2 DEF Stock
<1>5. \A e \in Deployment : e \in Stock' <=> e \in Stock /\ e # d
  BY <1>1, <1>2 DEF Stock, Others
<1>6. Stock' = Stock \ {d}
  BY <1>5 DEF Stock
<1> QED
  BY <1>1, <1>3, <1>4, <1>6, AsksFor

\* The changes of all processes, when none of them moves in or out of one.
LEMMA NobodyMoves ==
  ASSUME NEW p \in Proc, Others(p), UNCHANGED <<docker, name, fh>>,
         pc'[p] = pc[p] \/ {pc[p], pc'[p]} \subseteq {"idle", "next"}
  PROVE  /\ Stock' = Stock
         /\ [q \in Proc |-> AskedOf(q)]' = [q \in Proc |-> AskedOf(q)]
         /\ [q \in Proc |-> BroughtOf(q)]' = [q \in Proc |-> BroughtOf(q)]
<1>1. \A q \in Proc : AskedOf(q)' = AskedOf(q) /\ BroughtOf(q)' = BroughtOf(q)
  BY DEF Others, AskedOf, BroughtOf, AsksUpload, AsksDelete
<1>2. Stock' = Stock
  BY StockStays DEF Takes, Others
<1> QED
  BY <1>1, <1>2

\* The end of the service, and the start of the next one.
LEMMA RestartRefines ==
  ASSUME ManagerInv, (\E power \in BOOLEAN : Halt(power)) \/ Boot
  PROVE  R!Next
<1>1. hosts' = [n \in Name |-> None] /\ \A p \in Proc : pc'[p] = "idle"
  <2>1. CASE Boot
    BY <2>1 DEF Boot, ManagerInv, Core, Ended, Nothing, tables, locals
  <2>2. CASE \E power \in BOOLEAN : Halt(power)
    BY <2>2 DEF Halt, ProxyEnds, Nothing
  <2> QED
    BY <2>1, <2>2
<1>2. \A p \in Proc : AskedOf(p)' = None /\ BroughtOf(p)' = None
  BY <1>1 DEF AskedOf, BroughtOf, AsksUpload, AsksDelete
<1>3. Stock' \in SUBSET Deployment
  BY DEF Stock
<1>4. R!Restart
  BY <1>1, <1>2, <1>3 DEF R!Restart, R!Nothing, R!Nobody
<1> QED
  BY <1>4 DEF R!Next

LEMMA StepRefines ==
  ASSUME ManagerInv, [Next]_vars
  PROVE  R!Next \/ UNCHANGED R!vars
<1>1. ASSUME NEW p \in Proc, Step(p) PROVE R!Next \/ UNCHANGED R!vars
  BY <1>1, UploadRefines, EndpointRefines, DeleteRefines DEF Step
<1>2. ASSUME NEW p \in Proc, hosts' = Nothing, Others(p), UNCHANGED <<docker, name, fh>>,
             pc'[p] = pc[p] \/ {pc[p], pc'[p]} \subseteq {"idle", "next"}
      PROVE  R!Next
  <2>1. R!Lose
    BY <1>2, NobodyMoves DEF R!Lose, R!Nothing, Nothing
  <2> QED
    BY <2>1 DEF R!Next
<1>3. ASSUME NEW p \in Proc, hosts' = hosts, Others(p), UNCHANGED <<docker, name, fh>>,
             pc'[p] = pc[p] \/ {pc[p], pc'[p]} \subseteq {"idle", "next"}
      PROVE  UNCHANGED R!vars
  BY <1>3, NobodyMoves DEF R!vars
<1>4. ASSUME NEW p \in Proc, pc[p] = "idle", Goto(p, "next"), UNCHANGED <<name, fh>>
      PROVE  Others(p) /\ {pc[p], pc'[p]} \subseteq {"idle", "next"}
  BY <1>4 DEF Goto, Others, ManagerInv, TypeOK
<1>5. Request \subseteq Proc /\ Reaper \in Proc /\ Stopper \in Proc
  BY DEF Proc
<1>6. ASSUME NEW p \in Proc, MapRace(p) PROVE R!Next
  BY <1>2, <1>6 DEF MapRace, ProxyEnds, locals, Others
<1>7. ASSUME NEW S \in SUBSET Name, Interrupt(S) PROVE R!Next
  BY <1>2, <1>4, <1>5, <1>7 DEF Interrupt, WipeBegins, ProxyEnds
<1>8. ASSUME NEW p \in Request, NEW n \in Name, DeleteBegins(p, n) PROVE UNCHANGED R!vars
  BY <1>3, <1>4, <1>5, <1>8 DEF DeleteBegins, tables
<1>9. ASSUME NEW p \in Request, NEW S \in SUBSET Name, WipeBegins(p, S), UNCHANGED <<tables, proxy>>
      PROVE  UNCHANGED R!vars
  BY <1>3, <1>4, <1>5, <1>9 DEF WipeBegins, tables
<1>10. CASE Reap
  BY <1>3, <1>4, <1>5, <1>10 DEF Reap, tables
<1>11. ASSUME hosts' = hosts, UNCHANGED <<docker, locals>>
       PROVE  UNCHANGED R!vars
  BY <1>3, <1>5, <1>11 DEF locals, Others
<1>12. ASSUME NEW n \in Name, CallBegins(n) \/ TimePasses(n) PROVE UNCHANGED R!vars
  BY <1>11, <1>12 DEF CallBegins, TimePasses
<1>13. ASSUME NEW d \in Deployment, CallEnds(d) PROVE UNCHANGED R!vars
  BY <1>11, <1>13 DEF CallEnds
<1>14. CASE UNCHANGED vars
  BY <1>11, <1>14 DEF vars, locals
<1> QED
  BY <1>1, <1>5, <1>6, <1>7, <1>8, <1>9, <1>10, <1>12, <1>13, <1>14, UploadBeginsRefines,
     RestartRefines DEF Next

\* The management service, the proxy and Docker together implement the rollout of
\* versions: every change of RProxy.hosts is one upload or delete taking effect,
\* once and for its own function, or the end of the proxy.
THEOREM RolloutRefined == Spec => ImplementsRollout
<1>1. Init => R!Init
  <2> SUFFICES ASSUME Init PROVE R!Init
    OBVIOUS
  <2>1. \A p \in Proc : AskedOf(p) = None /\ BroughtOf(p) = None /\ pc[p] = "idle"
    BY DEF Init, AskedOf, BroughtOf, AsksUpload, AsksDelete
  <2>2. Stock = Deployment
    BY <2>1 DEF Init, Stock
  <2> QED
    BY <2>1, <2>2 DEF Init, R!Init, R!Nothing, R!Nobody, Nothing
<1>2. ManagerInv /\ [Next]_vars => [R!Next]_(R!vars)
  BY StepRefines
<1> QED
  BY <1>1, <1>2, SpecManagerInv, PTL DEF Spec, R!Spec, ImplementsRollout
===============================================================================
