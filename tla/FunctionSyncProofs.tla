-------------------------- MODULE FunctionSyncProofs --------------------------
(***************************************************************************)
(* Proofs about the distribution of functions: what an active worker serves *)
(* is what the store says, except for the listed causes, and it goes back   *)
(* to something else only for a request that is late.  Any number of wakes  *)
(* may overlap, on one node too.                                            *)
(***************************************************************************)
EXTENDS FunctionSync, TLAPS

\* Only a wake that deploys has failures, or has seen a change.
Deployers == \A w \in failed \cup covered : wake[w] = "deploy"

\* Whose call it is: the broadcast in progress is about the last change, and a
\* wake has calls only while it deploys, to its own node.
Callers ==
  \A c \in calls :
    /\ c.by = "broadcast" => endpoint = "sent" /\ c.fn = current /\ c.ver = store[c.fn]
    /\ c.by \in Waker => wake[c.by] = "deploy" /\ target[c.by] = c.node

\* A request without a caller is one of the things the leader has lost track of.
Strays(n) ==
  \A c \in calls : c.node = n /\ c.by = "nobody" /\ Relied(n) => <<n, c.fn>> \in gap

\* The change of f is not announced yet, and no wake of n has it in its copy.
Unseen(n, f) == endpoint = "set" /\ current = f /\ \A w \in covered : target[w] # n

\* What a wake deploys is what the store says, or it is known not to be.
Fresh(n) ==
  \A c \in calls : c.node = n /\ c.by \in Waker /\ n \in running =>
    c.ver = store[c.fn] \/ <<n, c.fn>> \in gap \/ Unseen(n, c.fn)

\* InSync, of node n.
ActiveSynced(n) ==
  \A f \in Function :
    /\ status[n] = "active" /\ n \in running /\ <<n, f>> \notin gap
    /\ ~(endpoint = "set" /\ current = f)
    => held[n][f] = store[f] \/ \E c \in About(n, f) : c.by = "broadcast"

\* The same of a wake of n that may make it active: its own calls are pending.
WakeSynced(n) ==
  \A w \in WakesOf(n), f \in Function :
    /\ wake[w] = "deploy" /\ w \notin failed /\ n \in running /\ <<n, f>> \notin gap
    /\ ~(endpoint = "set" /\ current = f /\ w \notin covered)
    => held[n][f] = store[f] \/ \E c \in About(n, f) : c.by = w

NodeInv(n) == Strays(n) /\ Fresh(n) /\ ActiveSynced(n) /\ WakeSynced(n)

Inv == Deployers /\ Callers /\ \A n \in Worker : NodeInv(n)

\* A node with a wake is waking, and has one only, unless the controller has
\* overwritten its status.
Owned ==
  \A w \in Waker, n \in Worker : target[w] = n =>
    /\ status[n] = "waking" \/ n \in overwritten
    /\ \A v \in Waker \ {w} : target[v] = n => n \in overwritten

-------------------------------------------------------------------------------
\* A call about to be made is a call.
LEMMA UploadType ==
  ASSUME TypeOK, NEW n \in Worker, NEW f \in Function, NEW by \in {"broadcast"} \cup Waker
  PROVE  Upload(n, f, by) \in CallType
  BY DEF TypeOK, Upload, CallType

LEMMA AbandonedType ==
  ASSUME TypeOK, NEW C \in SUBSET calls
  PROVE  Abandoned(C) \subseteq CallType
  BY DEF TypeOK, Abandoned, CallType

\* The fields of a call.
LEMMA CallFields ==
  ASSUME TypeOK, NEW c \in calls
  PROVE  /\ c.node \in Worker /\ c.fn \in Function /\ c.ver \in Version
         /\ c.by \in {"broadcast", "nobody"} \cup Waker /\ c \in About(c.node, c.fn)
  BY DEF TypeOK, CallType, About

LEMMA InitTypeOK == Init => TypeOK
<1> SUFFICES ASSUME Init PROVE TypeOK
  OBVIOUS
<1>1. 0 \in Version /\ Nothing \in [Function -> Version]
  BY SyncAssumption DEF Nothing, Absent, Version
<1>2. \A w \in Waker : target[w] = None <=> wake[w] = "none"
  BY DEF Init
<1>3. /\ status \in [Worker -> Status] /\ wake \in [Waker -> Phase]
      /\ decided \in [Worker -> Decision] /\ target \in [Waker -> Worker \cup {None}]
      /\ held \in [Worker -> [Function -> Version]] /\ running \subseteq Worker
  BY <1>1 DEF Init, Status, Phase, Decision
<1>4. store \in [Function -> Version] /\ made \in Version /\ endpoint = "idle" /\ current = None
  BY <1>1 DEF Init
<1>5. /\ failed = {} /\ calls = {} /\ gap = {} /\ covered = {} /\ overwritten = {}
      /\ sweep = Worker
  BY DEF Init
<1> QED
  BY <1>2, <1>3, <1>4, <1>5 DEF TypeOK

LEMMA SetTypeOK ==
  ASSUME TypeOK, NEW f \in Function, Set(f) \/ Remove(f)
  PROVE  TypeOK'
<1>1. PICK v \in Version : store' = [store EXCEPT ![f] = v] /\ made' \in Version
  BY SyncAssumption DEF TypeOK, Set, Remove, Change, Version, Absent
<1>2. /\ endpoint' = "set" /\ current' = f /\ covered' = {}
      /\ UNCHANGED <<power, control, waking, gap>>
  BY DEF Set, Remove, Change
<1>3. store' \in [Function -> Version] /\ current' # None
  BY <1>1, <1>2, SyncAssumption DEF TypeOK
<1> QED
  BY <1>1, <1>2, <1>3 DEF TypeOK, power, control, waking

LEMMA EndpointTypeOK ==
  ASSUME TypeOK, Broadcast \/ Answer
  PROVE  TypeOK'
<1>1. CASE Broadcast
  <2>1. current \in Function
    BY <1>1, SyncAssumption DEF TypeOK, Broadcast
  <2>2. calls' \subseteq CallType
    BY <1>1, <2>1, UploadType DEF TypeOK, Broadcast
  <2>3. \A w \in Waker : wake[w] = "deploy" => target[w] \in Worker
    BY DEF TypeOK
  <2>4. gap' \subseteq Worker \X Function
    BY <1>1, <2>1, <2>3 DEF TypeOK, Broadcast
  <2> QED
    BY <1>1, <2>1, <2>2, <2>4 DEF TypeOK, Broadcast, control, waking
<1>2. CASE Answer
  BY <1>2 DEF TypeOK, Answer, power, control, waking
<1> QED
  BY <1>1, <1>2

LEMMA TrackType ==
  ASSUME TypeOK, NEW n \in Worker, NEW G \in SUBSET (Worker \X Function), Track(n, G)
  PROVE  gap' \subseteq Worker \X Function
  BY DEF TypeOK, Track

LEMMA CallTypeOK ==
  ASSUME TypeOK, NEW c \in calls, CallStep(c)
  PROVE  TypeOK'
<1> USE DEF leader, control
<1>1. c.node \in Worker /\ c.fn \in Function /\ c.ver \in Version
  BY CallFields
<1>2. gap \cup {<<c.node, c.fn>>} \subseteq Worker \X Function /\ gap \subseteq Worker \X Function
  BY <1>1 DEF TypeOK
<1>3. CASE Succeed(c)
  BY <1>1, <1>3 DEF TypeOK, Succeed, waking
<1>4. CASE Fail(c)
  <2>1. gap' \subseteq Worker \X Function
    BY <1>1, <1>2, <1>4, TrackType DEF Fail
  <2> QED
    BY <1>1, <1>4, <2>1 DEF TypeOK, Fail, CountFailure
<1>5. CASE NoAnswer(c)
  <2>1. Abandoned({c}) \subseteq CallType
    BY AbandonedType
  <2>2. gap' \subseteq Worker \X Function
    BY <1>1, <1>2, <1>5, TrackType DEF NoAnswer
  <2>3. calls' \subseteq CallType
    BY <1>5, <2>1 DEF TypeOK, NoAnswer
  <2> QED
    BY <1>1, <1>5, <2>2, <2>3 DEF TypeOK, NoAnswer, CountFailure
<1> QED
  BY <1>3, <1>4, <1>5 DEF CallStep

LEMMA SwitchOffType ==
  ASSUME TypeOK, NEW n \in Worker, SwitchOff(n)
  PROVE  /\ running' \subseteq Worker /\ calls' \subseteq CallType
         /\ held' \in [Worker -> [Function -> Version]]
         /\ gap' \subseteq Worker \X Function
  BY SyncAssumption DEF TypeOK, SwitchOff, Lose, Nothing, Version, Absent

LEMMA CloseRelayType ==
  ASSUME TypeOK, NEW n \in Worker, CloseRelay(n)
  PROVE  running' \subseteq Worker /\ gap' \subseteq Worker \X Function
<1>1. gap \cup ({n} \X Function) \subseteq Worker \X Function
  BY DEF TypeOK
<1>2. (IF n \in running THEN gap ELSE gap \cup ({n} \X Function)) \in SUBSET (Worker \X Function)
  BY <1>1
<1>3. gap' \subseteq Worker \X Function
  BY <1>2, TrackType DEF CloseRelay
<1> QED
  BY <1>3 DEF CloseRelay, TypeOK

\* What a wake is about.
LEMMA AtType ==
  ASSUME TypeOK, NEW w \in Waker, NEW n \in Worker, NEW p, At(w, n, p)
  PROVE  target[w] = n /\ wake[w] = p /\ n # None
  BY SyncAssumption DEF At

LEMMA WakeReturnsType ==
  ASSUME TypeOK, NEW w \in Waker, NEW n \in Worker, NEW s \in Status, WakeReturns(w, n, s),
         running' \subseteq Worker, calls' \subseteq CallType,
         held' \in [Worker -> [Function -> Version]], gap' \subseteq Worker \X Function
  PROVE  TypeOK'
  BY DEF TypeOK, WakeReturns, control, Phase

LEMMA WakeTypeOK ==
  ASSUME TypeOK, NEW w \in Waker, NEW n \in Worker, WakeStep(w, n)
  PROVE  TypeOK'
<1> USE DEF leader, power, control
<1>0. /\ gap \in SUBSET (Worker \X Function) /\ running \subseteq Worker /\ calls \subseteq CallType
      /\ held \in [Worker -> [Function -> Version]]
      /\ {"active", "dead", "sleeping"} \subseteq Status
  BY DEF TypeOK, Status
<1>1. CASE BeginWake(w, n)
  BY <1>1, SyncAssumption DEF TypeOK, BeginWake, Status, Phase
<1>2. CASE PowerOn(w, n)
  BY <1>2, AtType, CloseRelayType DEF TypeOK, PowerOn, Phase
<1>3. CASE PowerOnFails(w, n)
  <2>1. running' \subseteq Worker /\ gap' \subseteq Worker \X Function
    BY <1>0, <1>3, CloseRelayType, TrackType DEF PowerOnFails
  <2> QED
    BY <1>0, <1>3, <2>1, WakeReturnsType DEF PowerOnFails
<1>4. CASE NeverReady(w, n)
  <2>1. gap' \subseteq Worker \X Function
    BY <1>0, <1>4, TrackType DEF NeverReady
  <2> QED
    BY <1>0, <1>4, <2>1, WakeReturnsType DEF NeverReady
<1>5. CASE DeployFunctions(w, n)
  <2>1. calls' \subseteq CallType
    BY <1>0, <1>5, UploadType DEF DeployFunctions
  <2>2. gap' \subseteq Worker \X Function
    BY <1>0, <1>5 DEF DeployFunctions
  <2>3. wake' = [wake EXCEPT ![w] = "deploy"] /\ target' = target /\ target[w] = n
    BY <1>5, AtType DEF DeployFunctions
  <2>4. covered' \subseteq Waker
    BY <1>5 DEF DeployFunctions, TypeOK
  <2> QED
    BY <1>5, <2>1, <2>2, <2>3, <2>4, SyncAssumption DEF TypeOK, DeployFunctions, Phase
<1>6. CASE Wakes(w, n)
  BY <1>0, <1>6, WakeReturnsType DEF Wakes
<1>7. CASE TakeBack(w, n)
  <2>1. CASE SwitchOff(n)
    BY <1>0, <1>7, <2>1, SwitchOffType, WakeReturnsType DEF TakeBack
  <2>2. CASE UNCHANGED power /\ Track(n, gap) /\ WakeReturns(w, n, "dead")
    <3>1. gap' \subseteq Worker \X Function
      BY <1>0, <2>2, TrackType
    <3> QED
      BY <1>0, <2>2, <3>1, WakeReturnsType
  <2> QED
    BY <1>7, <2>1, <2>2 DEF TakeBack
<1> QED
  BY <1>1, <1>2, <1>3, <1>4, <1>5, <1>6, <1>7 DEF WakeStep

LEMMA DecideType ==
  ASSUME TypeOK, NEW n \in Worker, NEW d \in Decision, Decide(n, d),
         running' \subseteq Worker, calls' \subseteq CallType,
         held' \in [Worker -> [Function -> Version]], gap' \subseteq Worker \X Function
  PROVE  TypeOK'
  BY DEF TypeOK, Decide, leader, waking

LEMMA OverwriteType ==
  ASSUME TypeOK, NEW n \in Worker, NEW s \in Status, Overwrite(n, s),
         gap' \subseteq Worker \X Function
  PROVE  TypeOK'
  BY DEF TypeOK, Overwrite, leader, power, Decision

LEMMA ControlTypeOK ==
  ASSUME TypeOK, NEW n \in Worker, ControlStep(n) \/ Crash(n) \/ SwitchBack(n)
  PROVE  TypeOK'
<1> USE DEF leader, power, control, waking
<1>0. /\ gap \in SUBSET (Worker \X Function) /\ gap \cup ({n} \X Function) \in SUBSET (Worker \X Function)
      /\ running \subseteq Worker /\ calls \subseteq CallType
      /\ held \in [Worker -> [Function -> Version]]
      /\ {"active", "sleeping"} \subseteq Status
      /\ {"nothing", "dead", "healthy", "idle", "off"} \subseteq Decision
  BY DEF TypeOK, Status, Decision
<1>1. CASE ListNode(n) \/ LeaveNode(n) \/ Healthy(n)
  BY <1>0, <1>1, DecideType DEF ListNode, LeaveNode, Healthy
<1>2. CASE RestoreDead(n)
  BY <1>0, <1>2, OverwriteType DEF RestoreDead
<1>3. CASE RetireDead(n) \/ MarkSleeping(n)
  <2>1. gap' \subseteq Worker \X Function
    BY <1>0, <1>3, TrackType DEF RetireDead, MarkSleeping
  <2> QED
    BY <1>0, <1>3, <2>1, OverwriteType DEF RetireDead, MarkSleeping
<1>4. CASE CutOff(n)
  BY <1>0, <1>4, SwitchOffType, DecideType DEF CutOff
<1>5. CASE EnforceSleeping(n)
  BY <1>5, SwitchOffType DEF TypeOK, EnforceSleeping
<1>6. CASE Crash(n)
  <2>1. gap' \subseteq Worker \X Function
    BY <1>0, <1>6, TrackType DEF Crash
  <2> QED
    BY <1>6, <2>1, SyncAssumption DEF TypeOK, Crash, Lose, Nothing, Version, Absent
<1>7. CASE SwitchBack(n)
  BY <1>7, SwitchOffType, CloseRelayType DEF TypeOK, SwitchBack
<1> QED
  BY <1>1, <1>2, <1>3, <1>4, <1>5, <1>6, <1>7 DEF ControlStep

LEMMA RestartTypeOK ==
  ASSUME TypeOK, LeaderRestarts
  PROVE  TypeOK'
<1>1. PICK C \in SUBSET {c \in calls : c.node \in running} :
        calls' = Waiting("nobody") \cup Abandoned(C)
  BY DEF LeaderRestarts
<1>2. calls' \subseteq CallType
  BY <1>1, AbandonedType DEF Waiting, TypeOK
<1> QED
  BY <1>2, SyncAssumption
  DEF TypeOK, LeaderRestarts, Nothing, Version, Absent, Status, Phase, Decision

\* Every step keeps the types.
LEMMA NextTypeOK ==
  ASSUME TypeOK, [Next]_vars
  PROVE  TypeOK'
<1>1. CASE UNCHANGED vars
  BY <1>1 DEF TypeOK, vars
<1> QED
  BY <1>1, SetTypeOK, EndpointTypeOK, CallTypeOK, WakeTypeOK, ControlTypeOK, RestartTypeOK
  DEF Next

-------------------------------------------------------------------------------
LEMMA InitInv == Init => Inv
  BY DEF Init, Inv, Deployers, Callers, NodeInv, Strays, Fresh, ActiveSynced, WakeSynced, WakesOf

\* The leader claims nothing new of node n, and relies on no wake of it that it
\* has not relied on before.
KeptWakes(n) ==
  /\ UNCHANGED <<store, endpoint, current>>
  /\ status'[n] = "active" => status[n] = "active"
  /\ \A w \in Waker : target'[w] = n =>
       /\ wake'[w] = "deploy" => target[w] = n /\ wake[w] = "deploy" /\ (w \in failed => w \in failed')
       /\ w \in covered' => target[w] = n /\ w \in covered

\* Node n holds what it held and has the calls it had.
KeptPower(n) ==
  /\ held'[n] = held[n]
  /\ n \in running' => n \in running
  /\ \A c \in calls \cup calls' : c.node = n => (c \in calls' <=> c \in calls)
  /\ \A f \in Function : Relied(n)' /\ <<n, f>> \in gap => <<n, f>> \in gap'

Kept(n) == KeptWakes(n) /\ KeptPower(n)

LEMMA KeptNode ==
  ASSUME TypeOK, TypeOK', Callers', NEW n \in Worker, Kept(n), NodeInv(n)
  PROVE  NodeInv(n)'
<1> USE DEF NodeInv, Kept, KeptWakes, KeptPower
<1>1. Relied(n)' => Relied(n)
  BY DEF Relied, WakesOf
<1>2. Strays(n)'
  BY <1>1, CallFields DEF Strays, TypeOK, CallType
<1>3. \A f \in Function : Unseen(n, f) => Unseen(n, f)'
  BY DEF Unseen, TypeOK
<1>4. Fresh(n)'
  <2> SUFFICES ASSUME NEW c \in calls', c.node = n, c.by \in Waker, n \in running'
               PROVE  c.ver = store[c.fn] \/ <<n, c.fn>> \in gap' \/ Unseen(n, c.fn)'
    BY DEF Fresh, Unseen
  <2>1. c \in calls /\ c.fn \in Function
    BY DEF TypeOK, CallType
  <2>2. Relied(n)'
    BY DEF Callers, Relied, WakesOf
  <2>3. c.ver = store[c.fn] \/ <<n, c.fn>> \in gap \/ Unseen(n, c.fn)
    BY <2>1 DEF Fresh
  <2> QED
    BY <2>1, <2>2, <2>3, <1>3
<1>5. \A f \in Function : About(n, f)' = About(n, f)
  BY DEF About
<1>6. ActiveSynced(n)'
  <2> SUFFICES ASSUME NEW f \in Function,
                      status'[n] = "active", n \in running', <<n, f>> \notin gap',
                      ~(endpoint' = "set" /\ current' = f)
               PROVE  held'[n][f] = store'[f] \/ \E c \in About(n, f)' : c.by = "broadcast"
    BY DEF ActiveSynced
  <2>1. Relied(n)'
    BY DEF Relied
  <2>2. held[n][f] = store[f] \/ \E c \in About(n, f) : c.by = "broadcast"
    BY <2>1 DEF ActiveSynced
  <2> QED
    BY <2>2, <1>5
<1>7. WakeSynced(n)'
  <2> SUFFICES ASSUME NEW w \in Waker, target'[w] = n, NEW f \in Function,
                      wake'[w] = "deploy", w \notin failed', n \in running', <<n, f>> \notin gap',
                      ~(endpoint' = "set" /\ current' = f /\ w \notin covered')
               PROVE  held'[n][f] = store'[f] \/ \E c \in About(n, f)' : c.by = w
    BY DEF WakeSynced, WakesOf
  <2>1. Relied(n)' /\ w \in WakesOf(n)
    BY DEF Relied, WakesOf
  <2>2. held[n][f] = store[f] \/ \E c \in About(n, f) : c.by = w
    BY <2>1 DEF WakeSynced
  <2> QED
    BY <2>2, <1>5
<1> QED
  BY <1>2, <1>4, <1>6, <1>7

\* A node the leader does not rely on, or that has no power, is in sync with
\* nothing.
LEMMA QuietNode ==
  ASSUME TypeOK', Callers', NEW n \in Worker,
         \/ ~Relied(n)'
         \/ n \notin running' /\ \A c \in calls' : c.node = n => c.by # "nobody"
  PROVE  NodeInv(n)'
<1>1. Strays(n)'
  BY DEF Strays
<1>2. ASSUME NEW c \in calls', c.by \in Waker, c.node = n PROVE Relied(n)'
  BY <1>2 DEF Callers, Relied, WakesOf
<1>3. Fresh(n)'
  BY <1>2 DEF Fresh
<1>4. ActiveSynced(n)'
  BY DEF ActiveSynced, Relied
<1>5. WakeSynced(n)'
  BY DEF WakeSynced, Relied, WakesOf
<1> QED
  BY <1>1, <1>3, <1>4, <1>5 DEF NodeInv

\* Nothing is claimed of a node the leader has lost track of altogether.
LEMMA LostNode ==
  ASSUME TypeOK', NEW n \in Worker, \A f \in Function : <<n, f>> \in gap'
  PROVE  NodeInv(n)'
<1>1. \A c \in calls' : c.fn \in Function
  BY DEF TypeOK, CallType
<1> QED
  BY <1>1 DEF NodeInv, Strays, Fresh, ActiveSynced, WakeSynced

\* A step about node n keeps the invariant if it does at that node.
LEMMA OneNode ==
  ASSUME TypeOK, TypeOK', Inv, NEW n \in Worker, Deployers', Callers', NodeInv(n)',
         \A m \in Worker \ {n} : Kept(m)
  PROVE  Inv'
<1>1. ASSUME NEW m \in Worker PROVE NodeInv(m)'
  <2>1. CASE m = n
    BY <2>1
  <2>2. CASE m # n
    BY <2>2, KeptNode DEF Inv
  <2> QED
    BY <2>1, <2>2
<1> QED
  BY <1>1 DEF Inv

-------------------------------------------------------------------------------
\* A change: nobody knows of it yet, and no broadcast is on its way.
LEMMA SetInv ==
  ASSUME TypeOK, TypeOK', Inv, NEW f \in Function, Set(f) \/ Remove(f)
  PROVE  Inv'
<1>1. /\ endpoint = "idle" /\ endpoint' = "set" /\ current' = f /\ covered' = {}
      /\ \A g \in Function \ {f} : store'[g] = store[g]
      /\ UNCHANGED <<calls, running, held, status, wake, target, failed, gap>>
  BY DEF TypeOK, Set, Remove, Change, power, control, waking
<1>2. Deployers'
  BY <1>1 DEF Inv, Deployers
<1>3. Callers'
  BY <1>1 DEF Inv, Callers
<1>4. ASSUME NEW n \in Worker PROVE NodeInv(n)'
  <2>1. NodeInv(n) /\ \A c \in calls : c.fn \in Function
    BY CallFields DEF Inv
  <2>2. Strays(n)'
    BY <1>1, <2>1 DEF NodeInv, Strays, Relied, WakesOf
  <2>3. Fresh(n)'
    BY <1>1, <2>1 DEF NodeInv, Fresh, Unseen
  <2>4. ActiveSynced(n)'
    BY <1>1, <2>1 DEF NodeInv, ActiveSynced, About
  <2>5. WakeSynced(n)'
    BY <1>1, <2>1 DEF NodeInv, WakeSynced, About, WakesOf
  <2> QED
    BY <2>2, <2>3, <2>4, <2>5 DEF NodeInv
<1> QED
  BY <1>2, <1>3, <1>4 DEF Inv

\* The broadcast calls every active node; a wake that deploys has seen the change
\* or its node is in the gap.
LEMMA BroadcastInv ==
  ASSUME TypeOK, TypeOK', Inv, Broadcast
  PROVE  Inv'
<1> DEFINE New == {Upload(n, current, "broadcast") : n \in {w \in Worker : status[w] = "active"}}
<1>1. /\ endpoint = "set" /\ endpoint' = "sent" /\ covered' = {} /\ calls' = calls \cup New
      /\ UNCHANGED <<store, current, running, held, status, wake, target, failed>>
      /\ gap \subseteq gap'
  BY DEF Broadcast, control, waking
<1>2. \A c \in New : c.by = "broadcast" /\ c.fn = current /\ c.ver = store[c.fn]
  BY DEF Upload
<1>3. \A w \in Waker : wake[w] = "deploy" /\ w \notin covered => <<target[w], current>> \in gap'
  BY DEF Broadcast
<1>4. current \in Function
  BY <1>1, SyncAssumption DEF TypeOK
<1>5. Deployers'
  BY <1>1 DEF Inv, Deployers
<1>6. Callers'
  BY <1>1, <1>2, SyncAssumption DEF Inv, Callers
<1>7. ASSUME NEW n \in Worker PROVE NodeInv(n)'
  <2>1. NodeInv(n)
    BY DEF Inv
  <2>2. Strays(n)'
    BY <1>1, <1>2, <2>1 DEF NodeInv, Strays, Relied, WakesOf
  <2>3. Fresh(n)'
    <3> SUFFICES ASSUME NEW c \in calls', c.node = n, c.by \in Waker, n \in running'
                 PROVE  c.ver = store[c.fn] \/ <<n, c.fn>> \in gap'
      BY <1>1 DEF Fresh
    <3>1. c \in calls
      BY <1>1, <1>2, SyncAssumption
    <3>2. wake[c.by] = "deploy" /\ target[c.by] = n
      BY <3>1 DEF Inv, Callers
    <3>3. Unseen(n, c.fn) => <<n, c.fn>> \in gap'
      BY <1>3, <3>2 DEF Unseen
    <3> QED
      BY <1>1, <2>1, <3>1, <3>3 DEF NodeInv, Fresh
  <2>4. ActiveSynced(n)'
    <3> SUFFICES ASSUME NEW f \in Function,
                        status[n] = "active", n \in running, <<n, f>> \notin gap'
                 PROVE  held[n][f] = store[f] \/ \E c \in About(n, f)' : c.by = "broadcast"
      BY <1>1 DEF ActiveSynced
    <3>1. CASE f = current
      <4>1. Upload(n, current, "broadcast") \in About(n, f)'
        BY <1>1, <3>1 DEF About, Upload
      <4> QED
        BY <4>1 DEF Upload
    <3>2. CASE f # current
      BY <1>1, <2>1, <3>2 DEF NodeInv, ActiveSynced, About
    <3> QED
      BY <3>1, <3>2
  <2>5. WakeSynced(n)'
    BY <1>1, <1>3, <2>1 DEF NodeInv, WakeSynced, About, WakesOf
  <2> QED
    BY <2>2, <2>3, <2>4, <2>5 DEF NodeInv
<1> QED
  BY <1>5, <1>6, <1>7 DEF Inv

LEMMA AnswerInv ==
  ASSUME TypeOK, TypeOK', Inv, Answer
  PROVE  Inv'
<1>1. /\ endpoint = "sent" /\ endpoint' = "idle" /\ \A c \in calls : c.by # "broadcast"
      /\ UNCHANGED <<store, covered, calls, running, held, status, wake, target, failed, gap>>
  BY DEF Answer, Waiting, power, control, waking
<1>2. Deployers'
  BY <1>1 DEF Inv, Deployers
<1>3. Callers'
  BY <1>1 DEF Inv, Callers
<1>4. ASSUME NEW n \in Worker PROVE NodeInv(n)'
  <2>1. NodeInv(n)
    BY DEF Inv
  <2>2. Strays(n)'
    BY <1>1, <2>1 DEF NodeInv, Strays, Relied, WakesOf
  <2>3. Fresh(n)'
    BY <1>1, <2>1 DEF NodeInv, Fresh, Unseen
  <2>4. ActiveSynced(n)'
    BY <1>1, <2>1 DEF NodeInv, ActiveSynced, About
  <2>5. WakeSynced(n)'
    BY <1>1, <2>1 DEF NodeInv, WakeSynced, About, WakesOf
  <2> QED
    BY <2>2, <2>3, <2>4, <2>5 DEF NodeInv
<1> QED
  BY <1>2, <1>3, <1>4 DEF Inv

-------------------------------------------------------------------------------
\* What a call asks for is what the store says, or the leader has lost track of
\* it, or the change is not announced yet.
LEMMA CallVersion ==
  ASSUME TypeOK, Inv, NEW c \in calls, c.node \in running, Relied(c.node)
  PROVE  c.ver = store[c.fn] \/ <<c.node, c.fn>> \in gap \/ Unseen(c.node, c.fn)
<1>1. c.node \in Worker /\ c.by \in {"broadcast", "nobody"} \cup Waker
  BY CallFields
<1> QED
  BY <1>1 DEF Inv, Callers, NodeInv, Strays, Fresh

\* A node that has done what it was asked serves the version of the store, or
\* the leader has lost track of it already.
LEMMA SucceedInv ==
  ASSUME TypeOK, TypeOK', Inv, NEW c \in calls, Succeed(c)
  PROVE  Inv'
<1> DEFINE n == c.node
           f == c.fn
<1>0. n \in Worker /\ f \in Function
  BY CallFields
<1>1. /\ n \in running /\ calls' = calls \ {c} /\ held' = [held EXCEPT ![n][f] = c.ver]
      /\ UNCHANGED <<store, endpoint, current, covered, status, wake, target, failed, running>>
      /\ \A g \in gap : g # <<n, f>> => g \in gap'
      /\ gap' \subseteq gap
  BY DEF Succeed, leader, control, waking
<1>2. \/ \A g \in gap : g \in gap'
      \/ c.by = "broadcast" /\ About(n, f) = {c}
  BY DEF Succeed
<1>3. Deployers' /\ Callers'
  BY <1>1 DEF Inv, Deployers, Callers
<1>4. \A m \in Worker \ {n} : Kept(m)
  BY <1>0, <1>1 DEF Kept, KeptWakes, KeptPower, TypeOK
<1>5. NodeInv(n)
  BY <1>0 DEF Inv
<1>6. \A d \in calls' : d.node = n /\ <<n, d.fn>> \in gap => <<n, d.fn>> \in gap'
  BY <1>1, <1>2 DEF About
<1>7. Strays(n)'
  BY <1>1, <1>5, <1>6 DEF NodeInv, Strays, Relied, WakesOf
<1>8. Fresh(n)'
  BY <1>1, <1>5, <1>6 DEF NodeInv, Fresh, Unseen
<1>9. held'[n][f] = c.ver /\ \A g \in Function \ {f} : held'[n][g] = held[n][g]
  BY <1>0, <1>1 DEF TypeOK
<1>10. ASSUME Relied(n) PROVE c.ver = store[f] \/ <<n, f>> \in gap' \/ Unseen(n, f)
  <2>1. CASE c.by = "broadcast"
    BY <2>1 DEF Inv, Callers
  <2>2. CASE c.by # "broadcast"
    BY <1>1, <1>2, <1>10, <2>2, CallVersion
  <2> QED
    BY <2>1, <2>2
<1>11. \A g \in Function \ {f} : About(n, g)' = About(n, g)
  BY <1>1 DEF About
<1>12. ActiveSynced(n)'
  <2> SUFFICES ASSUME NEW g \in Function,
                      status[n] = "active", <<n, g>> \notin gap', ~(endpoint = "set" /\ current = g)
               PROVE  held'[n][g] = store[g] \/ \E d \in About(n, g)' : d.by = "broadcast"
    BY <1>1 DEF ActiveSynced
  <2>1. CASE g = f
    BY <1>9, <1>10, <2>1 DEF Relied, Unseen
  <2>2. CASE g # f
    <3>1. <<n, g>> \notin gap
      BY <1>1, <2>2
    <3> QED
      BY <1>1, <1>5, <1>9, <1>11, <2>2, <3>1 DEF NodeInv, ActiveSynced
  <2> QED
    BY <2>1, <2>2
<1>13. WakeSynced(n)'
  <2> SUFFICES ASSUME NEW w \in WakesOf(n), NEW g \in Function,
                      wake[w] = "deploy", w \notin failed, <<n, g>> \notin gap',
                      ~(endpoint = "set" /\ current = g /\ w \notin covered)
               PROVE  held'[n][g] = store[g] \/ \E d \in About(n, g)' : d.by = w
    BY <1>1 DEF WakeSynced, WakesOf
  <2>1. CASE g = f
    <3>1. Unseen(n, f) => w \notin covered
      BY DEF Unseen, WakesOf
    <3> QED
      BY <1>9, <1>10, <2>1, <3>1 DEF Relied, Unseen
  <2>2. CASE g # f
    <3>1. <<n, g>> \notin gap
      BY <1>1, <2>2
    <3> QED
      BY <1>1, <1>5, <1>9, <1>11, <2>2, <3>1 DEF NodeInv, WakeSynced
  <2> QED
    BY <2>1, <2>2
<1>14. NodeInv(n)'
  BY <1>7, <1>8, <1>12, <1>13 DEF NodeInv
<1> QED
  BY <1>0, <1>3, <1>4, <1>14, OneNode

\* A call that ends badly leaves a mark, if the leader relies on the node: the
\* failure of the wake that made it, or the gap.
LEMMA BadEnd ==
  ASSUME TypeOK, NEW c \in calls, Fail(c) \/ NoAnswer(c)
  PROVE  /\ UNCHANGED <<store, endpoint, current, covered, status, wake, target, running>>
         /\ failed' = failed \cup ({c.by} \cap Waker)
         /\ calls \ {c} \subseteq calls'
         /\ \A d \in calls' : d \in calls \/ (d.by = "nobody" /\ d.node = c.node /\ d.fn = c.fn)
         /\ Relied(c.node) => gap \subseteq gap'
         /\ Relied(c.node) /\ c.by = "broadcast" => <<c.node, c.fn>> \in gap'
         /\ Relied(c.node) /\ ~(calls' \subseteq calls) => <<c.node, c.fn>> \in gap'
         /\ \A g \in gap : g[1] # c.node => g \in gap'
         /\ \A m \in Worker \ {c.node} : held'[m] = held[m]
         /\ \A g \in Function \ {c.fn} : held'[c.node][g] = held[c.node][g]
         /\ held'[c.node][c.fn] \in {held[c.node][c.fn], c.ver}
<1>0. c.node \in Worker /\ c.fn \in Function
  BY CallFields
<1>1. CASE Fail(c)
  <2>1. /\ UNCHANGED <<store, endpoint, current, covered, status, wake, target, running>>
        /\ failed' = failed \cup ({c.by} \cap Waker) /\ calls' = calls \ {c}
    BY <1>1 DEF Fail, CountFailure, leader, control
  <2>2. Track(c.node, IF c.by = "broadcast" THEN gap \cup {<<c.node, c.fn>>} ELSE gap)
    BY <1>1 DEF Fail
  <2>3. Relied(c.node)' <=> Relied(c.node)
    BY <2>1 DEF Relied, WakesOf
  <2>4. PICK v \in {held[c.node][c.fn], c.ver} : held' = [held EXCEPT ![c.node][c.fn] = v]
    BY <1>1 DEF Fail
  <2> QED
    BY <1>0, <2>1, <2>2, <2>3, <2>4 DEF Track, TypeOK
<1>2. CASE NoAnswer(c)
  <2>1. /\ UNCHANGED <<store, endpoint, current, covered, status, wake, target, running, held>>
        /\ failed' = failed \cup ({c.by} \cap Waker)
    BY <1>2 DEF NoAnswer, CountFailure, leader, control
  <2>2. Track(c.node, gap \cup {<<c.node, c.fn>>})
    BY <1>2 DEF NoAnswer
  <2>3. Relied(c.node)' <=> Relied(c.node)
    BY <2>1 DEF Relied, WakesOf
  <2>4. calls \ {c} \subseteq calls' /\ calls' \subseteq calls \cup Abandoned({c})
    BY <1>2 DEF NoAnswer
  <2>5. \A d \in Abandoned({c}) : d.by = "nobody" /\ d.node = c.node /\ d.fn = c.fn
    BY DEF Abandoned, TypeOK, CallType
  <2> QED
    BY <1>0, <2>1, <2>2, <2>3, <2>4, <2>5 DEF Track
<1> QED
  BY <1>1, <1>2

LEMMA BadEndInv ==
  ASSUME TypeOK, TypeOK', Inv, NEW c \in calls, Fail(c) \/ NoAnswer(c)
  PROVE  Inv'
<1> DEFINE n == c.node
           f == c.fn
<1>0. n \in Worker /\ f \in Function /\ c.by \in {"broadcast", "nobody"} \cup Waker
  BY CallFields
<1>1. /\ UNCHANGED <<store, endpoint, current, covered, status, wake, target, running>>
      /\ failed' = failed \cup ({c.by} \cap Waker) /\ calls \ {c} \subseteq calls'
      /\ \A d \in calls' : d \in calls \/ (d.by = "nobody" /\ d.node = n /\ d.fn = f)
      /\ \A g \in gap : g[1] # n => g \in gap'
      /\ \A m \in Worker \ {n} : held'[m] = held[m]
      /\ \A g \in Function \ {f} : held'[n][g] = held[n][g]
      /\ held'[n][f] \in {held[n][f], c.ver}
  BY BadEnd
<1>2. Deployers'
  <2>1. c.by \in Waker => wake[c.by] = "deploy"
    BY DEF Inv, Callers
  <2> QED
    BY <1>1, <2>1 DEF Inv, Deployers
<1>3. Callers'
  BY <1>1, SyncAssumption DEF Inv, Callers
<1>4. \A m \in Worker \ {n} : Kept(m)
  BY <1>1 DEF Kept, KeptWakes, KeptPower
<1>5. CASE ~Relied(n)
  <2>1. ~Relied(n)'
    BY <1>1, <1>5 DEF Relied, WakesOf
  <2> QED
    BY <1>0, <1>2, <1>3, <1>4, <2>1, QuietNode, OneNode
<1>6. CASE Relied(n)
  <2>0. NodeInv(n)
    BY <1>0 DEF Inv
  <2>1. /\ gap \subseteq gap' /\ (c.by = "broadcast" => <<n, f>> \in gap')
        /\ ~(calls' \subseteq calls) => <<n, f>> \in gap'
    BY <1>6, BadEnd
  <2>2. Strays(n)'
    BY <1>1, <1>6, <2>0, <2>1 DEF NodeInv, Strays
  <2>3. Fresh(n)'
    BY <1>1, <2>0, <2>1, SyncAssumption DEF NodeInv, Fresh, Unseen
  <2>4. n \in running => c.ver = store[f] \/ <<n, f>> \in gap' \/ Unseen(n, f)
    BY <1>6, <2>1, CallVersion
  <2>5. ActiveSynced(n)'
    <3> SUFFICES ASSUME NEW g \in Function, status[n] = "active", n \in running,
                        <<n, g>> \notin gap', ~(endpoint = "set" /\ current = g)
                 PROVE  held'[n][g] = store[g] \/ \E d \in About(n, g)' : d.by = "broadcast"
      BY <1>1 DEF ActiveSynced
    <3>1. held[n][g] = store[g] \/ \E d \in About(n, g) : d.by = "broadcast"
      BY <2>0, <2>1 DEF NodeInv, ActiveSynced
    <3>2. ASSUME NEW d \in About(n, g), d.by = "broadcast" PROVE d \in About(n, g)'
      BY <1>1, <2>1, <3>2 DEF About
    <3>3. CASE g = f
      BY <1>1, <2>4, <3>1, <3>2, <3>3 DEF Unseen
    <3>4. CASE g # f
      BY <1>1, <3>1, <3>2, <3>4
    <3> QED
      BY <3>3, <3>4
  <2>6. WakeSynced(n)'
    <3> SUFFICES ASSUME NEW w \in WakesOf(n), NEW g \in Function,
                        wake[w] = "deploy", w \notin failed', n \in running, <<n, g>> \notin gap',
                        ~(endpoint = "set" /\ current = g /\ w \notin covered)
                 PROVE  held'[n][g] = store[g] \/ \E d \in About(n, g)' : d.by = w
      BY <1>1 DEF WakeSynced, WakesOf
    <3>1. held[n][g] = store[g] \/ \E d \in About(n, g) : d.by = w
      BY <1>1, <2>0, <2>1 DEF NodeInv, WakeSynced
    <3>2. ASSUME NEW d \in About(n, g), d.by = w PROVE d \in About(n, g)'
      BY <1>1, <3>2 DEF About, WakesOf
    <3>3. CASE g = f
      BY <1>1, <2>4, <3>1, <3>2, <3>3 DEF Unseen, WakesOf
    <3>4. CASE g # f
      BY <1>1, <3>1, <3>2, <3>4
    <3> QED
      BY <3>3, <3>4
  <2>7. NodeInv(n)'
    BY <2>2, <2>3, <2>5, <2>6 DEF NodeInv
  <2> QED
    BY <1>0, <1>2, <1>3, <1>4, <2>7, OneNode
<1> QED
  BY <1>5, <1>6

-------------------------------------------------------------------------------
\* A step of the leader alone, that claims nothing new.
LEMMA QuietStep ==
  ASSUME TypeOK, TypeOK', Inv, Deployers', Callers',
         \A m \in Worker : KeptWakes(m), UNCHANGED power,
         \A m \in Worker, f \in Function : Relied(m)' /\ <<m, f>> \in gap => <<m, f>> \in gap'
  PROVE  Inv'
<1>1. \A m \in Worker : Kept(m)
  BY DEF Kept, KeptPower, power
<1> QED
  BY <1>1, KeptNode DEF Inv

LEMMA TrackKeeps ==
  ASSUME NEW n \in Worker, Track(n, gap)
  PROVE  \A m \in Worker, f \in Function : Relied(m)' /\ <<m, f>> \in gap => <<m, f>> \in gap'
  BY DEF Track

\* A node that is switched off is in sync with nothing.
LEMMA SwitchOffStep ==
  ASSUME TypeOK, TypeOK', Inv, NEW n \in Worker, SwitchOff(n), Deployers', Callers',
         \A m \in Worker \ {n} : KeptWakes(m)
  PROVE  Inv'
<1>1. \A m \in Worker \ {n} : Kept(m)
  BY DEF Kept, KeptPower, SwitchOff, Lose, TypeOK
<1>2. n \notin running' /\ \A c \in calls' : c.node = n => c.by # "nobody"
  BY DEF SwitchOff, Lose
<1>3. NodeInv(n)'
  BY <1>2, QuietNode
<1> QED
  BY <1>1, <1>3, OneNode

\* A node that gets power has nothing the leader knows of.
LEMMA CloseRelayStep ==
  ASSUME TypeOK, TypeOK', Inv, NEW n \in Worker, CloseRelay(n), UNCHANGED <<held, calls>>,
         Deployers', Callers', \A m \in Worker : KeptWakes(m)
  PROVE  Inv'
<1>1. \A m \in Worker \ {n} : Kept(m)
  BY DEF Kept, KeptPower, CloseRelay, Track
<1>2. NodeInv(n)'
  <2>1. CASE ~Relied(n)'
    BY <2>1, QuietNode
  <2>2. CASE Relied(n)' /\ n \in running
    <3>1. Kept(n)
      BY <2>2 DEF Kept, KeptPower, CloseRelay, Track
    <3> QED
      BY <3>1, KeptNode DEF Inv
  <2>3. CASE Relied(n)' /\ n \notin running
    BY <2>3, LostNode DEF CloseRelay, Track
  <2> QED
    BY <2>1, <2>2, <2>3
<1> QED
  BY <1>1, <1>2, OneNode

\* wakeNode returns: its call is over, and it claims nothing unless the node is
\* active.
LEMMA ReturnStep ==
  ASSUME TypeOK, Inv, NEW w \in Waker, NEW n \in Worker, NEW p, NEW s,
         At(w, n, p), WakeReturns(w, n, s), calls' \subseteq calls, w \notin {c.by : c \in calls'}
  PROVE  /\ Deployers' /\ Callers'
         /\ \A m \in Worker \ {n} : KeptWakes(m)
         /\ s # "active" => KeptWakes(n)
<1>1. /\ wake' = [wake EXCEPT ![w] = "none"] /\ target' = [target EXCEPT ![w] = None]
      /\ failed' = failed \ {w} /\ covered' = covered \ {w} /\ status' = [status EXCEPT ![n] = s]
      /\ UNCHANGED <<store, endpoint, current>> /\ n # None
  BY AtType DEF WakeReturns
<1>2. \A v \in Waker \ {w} : wake'[v] = wake[v] /\ target'[v] = target[v]
  BY <1>1 DEF TypeOK
<1>3. Deployers'
  BY <1>1, <1>2 DEF Inv, Deployers, TypeOK
<1>4. Callers'
  BY <1>1, <1>2 DEF Inv, Callers
<1>5. target'[w] = None /\ wake'[w] = "none"
  BY <1>1 DEF TypeOK
<1>6. \A m \in Worker : m # n \/ s # "active" => KeptWakes(m)
  BY <1>1, <1>2, <1>5 DEF KeptWakes, TypeOK
<1> QED
  BY <1>3, <1>4, <1>6

\* Up to deployFunctions a wake has no call, and nothing to be in sync.
LEMMA EarlyWakeInv ==
  ASSUME TypeOK, TypeOK', Inv, NEW w \in Waker, NEW n \in Worker,
         BeginWake(w, n) \/ PowerOn(w, n) \/ PowerOnFails(w, n) \/ NeverReady(w, n)
  PROVE  Inv'
<1>1. CASE BeginWake(w, n)
  <2>1. /\ wake[w] = "none" /\ UNCHANGED <<store, endpoint, current, covered, failed, power, gap>>
        /\ wake' = [wake EXCEPT ![w] = "on"] /\ target' = [target EXCEPT ![w] = n]
        /\ status' = [status EXCEPT ![n] = "waking"]
    BY <1>1 DEF BeginWake, leader
  <2>2. w \notin failed \cup covered
    BY <2>1 DEF Inv, Deployers
  <2>3. Deployers'
    BY <2>1, <2>2 DEF Inv, Deployers, TypeOK
  <2>4. Callers'
    BY <2>1 DEF Inv, Callers, TypeOK, power
  <2>5. \A m \in Worker : KeptWakes(m)
    BY <2>1, <2>2 DEF KeptWakes, TypeOK
  <2> QED
    BY <2>1, <2>3, <2>4, <2>5, QuietStep
<1>2. CASE PowerOn(w, n)
  <2>1. /\ wake[w] = "on" /\ UNCHANGED <<store, endpoint, current, covered, failed, held, calls>>
        /\ wake' = [wake EXCEPT ![w] = "boot"] /\ UNCHANGED <<target, status>> /\ CloseRelay(n)
    BY <1>2 DEF PowerOn, leader, At
  <2>2. w \notin failed \cup covered
    BY <2>1 DEF Inv, Deployers
  <2>3. Deployers'
    BY <2>1, <2>2 DEF Inv, Deployers, TypeOK
  <2>4. Callers'
    BY <2>1 DEF Inv, Callers, TypeOK
  <2>5. \A m \in Worker : KeptWakes(m)
    BY <2>1, <2>2 DEF KeptWakes, TypeOK
  <2> QED
    BY <2>1, <2>3, <2>4, <2>5, CloseRelayStep
<1>3. CASE PowerOnFails(w, n) \/ NeverReady(w, n)
  <2>1. PICK p \in {"on", "boot"} : At(w, n, p)
    BY <1>3 DEF PowerOnFails, NeverReady
  <2>2. WakeReturns(w, n, "dead") /\ UNCHANGED <<held, calls>>
    BY <1>3 DEF PowerOnFails, NeverReady, power
  <2>3. w \notin {c.by : c \in calls'}
    BY <2>1, <2>2, AtType DEF Inv, Callers
  <2>4. Deployers' /\ Callers' /\ \A m \in Worker : KeptWakes(m)
    BY <2>1, <2>2, <2>3, ReturnStep
  <2>5. CASE CloseRelay(n)
    BY <2>2, <2>4, <2>5, CloseRelayStep
  <2>6. CASE UNCHANGED running /\ Track(n, gap)
    BY <2>2, <2>4, <2>6, TrackKeeps, QuietStep DEF power
  <2> QED
    BY <1>3, <2>5, <2>6 DEF PowerOnFails, NeverReady, power
<1> QED
  BY <1>1, <1>2, <1>3

\* deployFunctions starts from the store of this moment: what the store has is on
\* its way, and the rest the node may hold or get is in the gap.
LEMMA DeployInv ==
  ASSUME TypeOK, TypeOK', Inv, NEW w \in Waker, NEW n \in Worker, DeployFunctions(w, n)
  PROVE  Inv'
<1> DEFINE New == {Upload(n, f, w) : f \in {g \in Function : store[g] # Absent}}
<1>1. /\ target[w] = n /\ wake[w] = "boot" /\ n \in running
      /\ wake' = [wake EXCEPT ![w] = "deploy"] /\ calls' = calls \cup New
      /\ UNCHANGED <<store, endpoint, current, running, held, status, target, failed>>
  BY AtType DEF DeployFunctions
<1>2. wake'[w] = "deploy" /\ \A v \in Waker \ {w} : wake'[v] = wake[v]
  BY <1>1 DEF TypeOK
<1>3. /\ gap \subseteq gap' /\ \A g \in gap' : g[1] # n => g \in gap
      /\ \A f \in Function : store[f] = Absent /\ held[n][f] # Absent => <<n, f>> \in gap'
      /\ \A c \in calls : c.node = n /\ (c.by = "nobody" \/ c.ver # store[c.fn]) => <<n, c.fn>> \in gap'
  BY CallFields DEF DeployFunctions, About
<1>4. covered' = IF endpoint = "set" THEN covered \cup {w} ELSE covered
  BY DEF DeployFunctions
<1>5. \A c \in New : c.node = n /\ c.fn \in Function /\ c.by = w /\ c.ver = store[c.fn]
  BY DEF Upload
<1>6. w \notin {"broadcast", "nobody"}
  BY SyncAssumption
<1>7. Deployers'
  BY <1>1, <1>2, <1>4 DEF Inv, Deployers
<1>8. Callers'
  BY <1>1, <1>2, <1>5, <1>6 DEF Inv, Callers
<1>9. \A m \in Worker \ {n} : Kept(m)
  <2> SUFFICES ASSUME NEW m \in Worker, m # n PROVE KeptWakes(m) /\ KeptPower(m)
    BY DEF Kept
  <2>1. KeptWakes(m)
    BY <1>1, <1>2, <1>4 DEF KeptWakes
  <2>2. KeptPower(m)
    BY <1>1, <1>3, <1>5 DEF KeptPower
  <2> QED
    BY <2>1, <2>2
<1>10. NodeInv(n)
  BY DEF Inv
<1>11. Strays(n)'
  BY <1>1, <1>3, <1>5, <1>6 DEF Strays
<1>12. Fresh(n)'
  BY <1>1, <1>3, <1>5 DEF Fresh
<1>13. \A f \in Function : About(n, f) \subseteq About(n, f)'
  BY <1>1 DEF About
<1>14. ActiveSynced(n)'
  BY <1>1, <1>3, <1>10, <1>13 DEF NodeInv, ActiveSynced
<1>15. WakeSynced(n)'
  <2> SUFFICES ASSUME NEW v \in WakesOf(n), NEW f \in Function,
                      wake'[v] = "deploy", v \notin failed, <<n, f>> \notin gap',
                      ~(endpoint = "set" /\ current = f /\ v \notin covered')
               PROVE  held[n][f] = store[f] \/ \E c \in About(n, f)' : c.by = v
    BY <1>1 DEF WakeSynced, WakesOf
  <2>1. CASE v = w
    <3>1. CASE store[f] = Absent
      BY <1>3, <3>1
    <3>2. CASE store[f] # Absent
      <4>1. Upload(n, f, w) \in About(n, f)' /\ Upload(n, f, w).by = w
        BY <1>1, <3>2 DEF About, Upload
      <4> QED
        BY <2>1, <4>1
    <3> QED
      BY <3>1, <3>2
  <2>2. CASE v # w
    <3>1. wake[v] = "deploy" /\ (v \in covered' => v \in covered) /\ <<n, f>> \notin gap
      BY <1>2, <1>3, <1>4, <2>2 DEF WakesOf
    <3>2. held[n][f] = store[f] \/ \E c \in About(n, f) : c.by = v
      BY <1>1, <1>10, <3>1 DEF NodeInv, WakeSynced
    <3> QED
      BY <1>13, <3>2
  <2> QED
    BY <2>1, <2>2
<1>16. NodeInv(n)'
  BY <1>11, <1>12, <1>14, <1>15 DEF NodeInv
<1> QED
  BY <1>7, <1>8, <1>9, <1>16, OneNode

\* A node is marked active when nothing about it has failed: what its wake has
\* brought it is what the store says.
LEMMA WakesInv ==
  ASSUME TypeOK, TypeOK', Inv, NEW w \in Waker, NEW n \in Worker, Wakes(w, n)
  PROVE  Inv'
<1>1. /\ At(w, n, "deploy") /\ \A c \in calls : c.by # w
      /\ w \notin failed /\ WakeReturns(w, n, "active") /\ UNCHANGED <<running, held, calls, gap>>
  BY DEF Wakes, Deployed, Waiting, power
<1>2. Deployers' /\ Callers' /\ \A m \in Worker \ {n} : KeptWakes(m)
  BY <1>1, ReturnStep
<1>3. \A m \in Worker \ {n} : Kept(m)
  BY <1>1, <1>2 DEF Kept, KeptPower
<1>4. /\ wake' = [wake EXCEPT ![w] = "none"] /\ target' = [target EXCEPT ![w] = None]
      /\ failed' = failed \ {w} /\ covered' = covered \ {w}
      /\ UNCHANGED <<store, endpoint, current>> /\ n # None /\ target[w] = n /\ wake[w] = "deploy"
  BY <1>1, AtType DEF WakeReturns
<1>5. target'[w] = None /\ \A v \in Waker \ {w} : wake'[v] = wake[v] /\ target'[v] = target[v]
  BY <1>4 DEF TypeOK
<1>6. NodeInv(n) /\ Relied(n)
  BY <1>4 DEF Inv, Relied, WakesOf
<1>7. Strays(n)'
  BY <1>1, <1>6 DEF NodeInv, Strays
<1>8. Fresh(n)'
  BY <1>1, <1>4, <1>5, <1>6 DEF NodeInv, Fresh, Unseen
<1>9. ActiveSynced(n)'
  <2> SUFFICES ASSUME NEW f \in Function, n \in running, <<n, f>> \notin gap,
                      ~(endpoint = "set" /\ current = f)
               PROVE  held[n][f] = store[f]
    BY <1>1, <1>4 DEF ActiveSynced
  <2> QED
    BY <1>1, <1>4, <1>6 DEF NodeInv, WakeSynced, WakesOf, About
<1>10. WakeSynced(n)'
  <2> SUFFICES ASSUME NEW v \in Waker, v # w, target[v] = n, NEW f \in Function,
                      wake[v] = "deploy", v \notin failed, n \in running, <<n, f>> \notin gap,
                      ~(endpoint = "set" /\ current = f /\ v \notin covered)
               PROVE  held[n][f] = store[f] \/ \E c \in About(n, f) : c.by = v
    BY <1>1, <1>4, <1>5 DEF WakeSynced, WakesOf, About
  <2> QED
    BY <1>6 DEF NodeInv, WakeSynced, WakesOf
<1>11. NodeInv(n)'
  BY <1>7, <1>8, <1>9, <1>10 DEF NodeInv
<1> QED
  BY <1>2, <1>3, <1>11, OneNode

LEMMA TakeBackInv ==
  ASSUME TypeOK, TypeOK', Inv, NEW w \in Waker, NEW n \in Worker, TakeBack(w, n)
  PROVE  Inv'
<1>1. PICK s \in {"sleeping", "dead"} :
        /\ At(w, n, "deploy") /\ WakeReturns(w, n, s) /\ \A c \in calls : c.by # w
        /\ SwitchOff(n) \/ (UNCHANGED power /\ Track(n, gap))
  BY DEF TakeBack, Deployed, Waiting
<1>2. calls' \subseteq calls
  BY <1>1 DEF SwitchOff, Lose, power
<1>3. Deployers' /\ Callers' /\ \A m \in Worker : KeptWakes(m)
  BY <1>1, <1>2, ReturnStep
<1>4. CASE SwitchOff(n)
  BY <1>3, <1>4, SwitchOffStep
<1>5. CASE UNCHANGED power /\ Track(n, gap)
  BY <1>3, <1>5, TrackKeeps, QuietStep
<1> QED
  BY <1>1, <1>4, <1>5

-------------------------------------------------------------------------------
\* Whoever decides what, the wakes go on.
LEMMA SameWakes ==
  ASSUME TypeOK, Inv, calls' \subseteq calls,
         UNCHANGED <<store, endpoint, current, covered, wake, target, failed>>
  PROVE  /\ Deployers' /\ Callers'
         /\ \A m \in Worker : (status'[m] = "active" => status[m] = "active") => KeptWakes(m)
BY DEF Inv, Deployers, Callers, KeptWakes

LEMMA ControlInv ==
  ASSUME TypeOK, TypeOK', Inv, NEW n \in Worker, ControlStep(n)
  PROVE  Inv'
<1> USE DEF leader, power, waking, control
<1>1. CASE ListNode(n) \/ LeaveNode(n) \/ Healthy(n)
  <2>1. UNCHANGED <<leader, power, waking, gap>>
    BY <1>1 DEF ListNode, LeaveNode, Healthy, Decide
  <2> QED
    BY <2>1, SameWakes, QuietStep
<1>2. CASE RestoreDead(n)
  <2>1. /\ UNCHANGED <<leader, power, wake, target, failed>>
        /\ status' = [status EXCEPT ![n] = "active"]
        /\ gap' = gap \cup ({n} \X Function)
    BY <1>2 DEF RestoreDead, Overwrite
  <2>2. Deployers' /\ Callers' /\ \A m \in Worker \ {n} : KeptWakes(m)
    BY <2>1, SameWakes DEF TypeOK
  <2>3. \A m \in Worker \ {n} : Kept(m)
    BY <2>1, <2>2 DEF Kept, KeptPower
  <2>4. NodeInv(n)'
    BY <2>1, LostNode
  <2> QED
    BY <2>2, <2>3, <2>4, OneNode
<1>3. CASE RetireDead(n) \/ MarkSleeping(n)
  <2>1. /\ UNCHANGED <<leader, power, wake, target, failed>> /\ Track(n, gap)
        /\ status' = [status EXCEPT ![n] = "sleeping"]
    BY <1>3 DEF RetireDead, MarkSleeping, Overwrite
  <2>2. Deployers' /\ Callers' /\ \A m \in Worker : KeptWakes(m)
    BY <2>1, SameWakes DEF TypeOK
  <2> QED
    BY <2>1, <2>2, TrackKeeps, QuietStep
<1>4. CASE CutOff(n) \/ EnforceSleeping(n)
  <2>1. SwitchOff(n) /\ UNCHANGED <<leader, waking>>
    BY <1>4 DEF CutOff, EnforceSleeping, Decide
  <2>2. Deployers' /\ Callers' /\ \A m \in Worker : KeptWakes(m)
    BY <2>1, SameWakes DEF SwitchOff, Lose
  <2> QED
    BY <2>1, <2>2, SwitchOffStep
<1> QED
  BY <1>1, <1>2, <1>3, <1>4 DEF ControlStep

\* The computers do what they like.
LEMMA ComputerInv ==
  ASSUME TypeOK, TypeOK', Inv, NEW n \in Worker, Crash(n) \/ SwitchBack(n)
  PROVE  Inv'
<1>1. UNCHANGED <<leader, waking>> /\ calls' \subseteq calls
  BY DEF Crash, SwitchBack, SwitchOff, Lose
<1>2. Deployers' /\ Callers' /\ \A m \in Worker : KeptWakes(m)
  BY <1>1, SameWakes DEF leader, waking
<1>3. CASE Crash(n)
  <2>1. \A m \in Worker \ {n} : Kept(m)
    BY <1>2, <1>3 DEF Kept, KeptPower, Crash, Lose, Track, TypeOK
  <2>2. NodeInv(n)'
    <3>1. CASE Relied(n)'
      BY <1>3, <3>1, LostNode DEF Crash, Track
    <3>2. CASE ~Relied(n)'
      BY <1>2, <3>2, QuietNode
    <3> QED
      BY <3>1, <3>2
  <2> QED
    BY <1>2, <2>1, <2>2, OneNode
<1>4. CASE SwitchBack(n)
  BY <1>2, <1>4, SwitchOffStep, CloseRelayStep DEF SwitchBack
<1> QED
  BY <1>3, <1>4

\* A new leader relies on nobody.
LEMMA RestartInv ==
  ASSUME TypeOK, TypeOK', Inv, LeaderRestarts
  PROVE  Inv'
<1>1. PICK C \in SUBSET {c \in calls : c.node \in running} :
        calls' = Waiting("nobody") \cup Abandoned(C)
  BY DEF LeaderRestarts
<1>2. \A c \in Abandoned(C) : c.by = "nobody"
  BY DEF Abandoned, TypeOK, CallType
<1>3. \A c \in calls' : c.by = "nobody"
  BY <1>1, <1>2 DEF Waiting
<1>4. Deployers'
  BY DEF Deployers, LeaderRestarts
<1>5. Callers'
  BY <1>3, SyncAssumption DEF Callers
<1>6. ASSUME NEW n \in Worker PROVE NodeInv(n)'
  <2>1. ~Relied(n)'
    BY DEF Relied, WakesOf, LeaderRestarts
  <2> QED
    BY <1>5, <2>1, QuietNode
<1> QED
  BY <1>4, <1>5, <1>6 DEF Inv

\* Every step keeps the invariant.
LEMMA NextInv ==
  ASSUME TypeOK, Inv, [Next]_vars
  PROVE  Inv'
<1>0. TypeOK'
  BY NextTypeOK
<1>1. CASE UNCHANGED vars
  <2>1. Deployers' /\ Callers' /\ \A m \in Worker : KeptWakes(m)
    BY <1>1, SameWakes DEF vars
  <2> QED
    BY <1>0, <1>1, <2>1, QuietStep DEF vars, power
<1>2. ASSUME NEW c \in calls, CallStep(c) PROVE Inv'
  BY <1>0, <1>2, SucceedInv, BadEndInv DEF CallStep
<1>3. ASSUME NEW w \in Waker, NEW n \in Worker, WakeStep(w, n) PROVE Inv'
  BY <1>0, <1>3, EarlyWakeInv, DeployInv, WakesInv, TakeBackInv DEF WakeStep
<1> QED
  BY <1>0, <1>1, <1>2, <1>3, SetInv, BroadcastInv, AnswerInv, ControlInv, ComputerInv, RestartInv
  DEF Next

LEMMA InvImpliesInSync == Inv => InSync
  BY DEF Inv, NodeInv, ActiveSynced, InSync

-------------------------------------------------------------------------------
\* The wakes of a node are its only one while it is waking, or the controller has
\* overwritten its status since the first.
LEMMA NextOwned ==
  ASSUME TypeOK, TypeOK', Owned, [Next]_vars
  PROVE  Owned'
<1>1. CASE UNCHANGED <<status, target, overwritten>>
  BY <1>1 DEF Owned
<1>2. ASSUME NEW w \in Waker, NEW n \in Worker, BeginWake(w, n) PROVE Owned'
  <2>1. /\ target[w] = None /\ target' = [target EXCEPT ![w] = n] /\ overwritten' = overwritten
        /\ status[n] # "waking" /\ status' = [status EXCEPT ![n] = "waking"]
    BY <1>2 DEF BeginWake, TypeOK
  <2> QED
    BY <2>1, SyncAssumption DEF Owned, TypeOK
<1>3. ASSUME NEW w \in Waker, NEW n \in Worker, NEW p, NEW s, At(w, n, p), WakeReturns(w, n, s)
      PROVE  Owned'
  <2>1. /\ target[w] = n /\ target' = [target EXCEPT ![w] = None]
        /\ status' = [status EXCEPT ![n] = s]
        /\ overwritten' = IF WakesOf(n) = {w} THEN overwritten \ {n} ELSE overwritten
    BY <1>3, AtType DEF WakeReturns
  <2>2. target'[w] = None /\ \A v \in Waker \ {w} : target'[v] = target[v]
    BY <2>1 DEF TypeOK
  <2>3. ASSUME NEW v \in Waker \ {w}, target[v] = n PROVE n \in overwritten /\ overwritten' = overwritten
    BY <2>1, <2>3 DEF Owned, WakesOf
  <2>4. ASSUME NEW v \in Waker, NEW m \in Worker, target'[v] = m
        PROVE  /\ status'[m] = "waking" \/ m \in overwritten'
               /\ \A u \in Waker \ {v} : target'[u] = m => m \in overwritten'
    <3>1. v # w /\ target[v] = m
      BY <2>2, <2>4, SyncAssumption
    <3>2. CASE m = n
      BY <2>3, <3>1, <3>2
    <3>3. CASE m # n
      <4>1. status'[m] = status[m] /\ (m \in overwritten' <=> m \in overwritten)
        BY <2>1, <3>3 DEF TypeOK
      <4> QED
        BY <2>2, <3>1, <4>1, SyncAssumption DEF Owned
    <3> QED
      BY <3>2, <3>3
  <2> QED
    BY <2>4 DEF Owned
<1>4. ASSUME NEW n \in Worker, NEW s, Overwrite(n, s) PROVE Owned'
  <2>1. /\ target' = target /\ status' = [status EXCEPT ![n] = s]
        /\ overwritten' = IF WakesOf(n) = {} THEN overwritten ELSE overwritten \cup {n}
    BY <1>4 DEF Overwrite
  <2> QED
    BY <2>1 DEF Owned, WakesOf, TypeOK
<1>5. CASE LeaderRestarts
  BY <1>5, SyncAssumption DEF LeaderRestarts, Owned
<1>6. ASSUME NEW w \in Waker, NEW n \in Worker, WakeStep(w, n) PROVE Owned'
  BY <1>1, <1>2, <1>3, <1>6
  DEF WakeStep, PowerOn, PowerOnFails, NeverReady, DeployFunctions, Wakes, TakeBack, Deployed
<1>7. ASSUME NEW n \in Worker, ControlStep(n) \/ Crash(n) \/ SwitchBack(n) PROVE Owned'
  BY <1>1, <1>4, <1>7
  DEF ControlStep, ListNode, LeaveNode, Healthy, Decide, RestoreDead, RetireDead, CutOff,
      MarkSleeping, EnforceSleeping, Crash, SwitchBack, waking
<1>8. ASSUME NEW c \in calls, CallStep(c) PROVE Owned'
  BY <1>1, <1>8 DEF CallStep, Succeed, Fail, NoAnswer, waking
<1>9. CASE (\E f \in Function : Set(f) \/ Remove(f)) \/ Broadcast \/ Answer
  BY <1>1, <1>9 DEF Set, Remove, Change, Broadcast, Answer, waking
<1> QED
  BY <1>1, <1>5, <1>6, <1>7, <1>8, <1>9 DEF Next, vars

\* Who changes what an active node serves: it loses its memory, or does what a
\* call asks for; and a call in time asks for the store's version.
LEMMA StaleStep ==
  ASSUME TypeOK, Inv, Owned, [Next]_vars, NEW n \in Worker, NEW f \in Function,
         status[n] = "active", held'[n][f] \notin {held[n][f], store[f]}
  PROVE  \/ n \notin running' \/ Crash(n)
         \/ \E c \in About(n, f) \ calls' :
              c.by = "nobody" \/ (c.by \in Waker /\ n \in overwritten)
<1>1. held' # held
  OBVIOUS
<1>2. PICK m \in Worker : \/ Crash(m) \/ SwitchOff(m)
                         \/ \E c \in calls : Succeed(c) \/ Fail(c)
  BY <1>1 DEF Next, vars, CallStep, WakeStep, ControlStep, Set, Remove, Change, Broadcast, Answer,
     NoAnswer, BeginWake, PowerOn, PowerOnFails, NeverReady, DeployFunctions, Wakes, TakeBack,
     ListNode, LeaveNode, Healthy, RestoreDead, RetireDead, CutOff, MarkSleeping,
     EnforceSleeping, Overwrite, SwitchBack, LeaderRestarts, power
<1>3. ASSUME Crash(m) \/ SwitchOff(m) PROVE n = m
  BY <1>3 DEF Crash, SwitchOff, Lose, TypeOK
<1>4. ASSUME NEW c \in calls, Succeed(c) \/ Fail(c)
      PROVE  c \in About(n, f) \ calls' /\ (c.by = "nobody" \/ (c.by \in Waker /\ n \in overwritten))
  <2>1. c.node = n /\ c.fn = f /\ held'[n][f] = c.ver /\ c \notin calls'
    BY <1>4, CallFields DEF Succeed, Fail, TypeOK
  <2>2. c.by # "broadcast"
    BY <2>1 DEF Inv, Callers
  <2>3. c.by \in Waker => n \in overwritten
    BY <2>1 DEF Inv, Callers, Owned
  <2> QED
    BY <2>1, <2>2, <2>3, CallFields
<1> QED
  BY <1>2, <1>3, <1>4 DEF SwitchOff

-------------------------------------------------------------------------------
\* The variables keep their types.
THEOREM SyncTypeOK == Spec => []TypeOK
  BY InitTypeOK, NextTypeOK, PTL DEF Spec

\* The parts of the invariant hold in every behaviour.
LEMMA SpecInv == Spec => [](TypeOK /\ Inv /\ Owned)
<1>1. Init => TypeOK /\ Inv /\ Owned
  BY InitTypeOK, InitInv, SyncAssumption DEF Init, Owned
<1>2. TypeOK /\ Inv /\ Owned /\ [Next]_vars => (TypeOK /\ Inv /\ Owned)'
  BY NextTypeOK, NextInv, NextOwned
<1> QED
  BY <1>1, <1>2, PTL DEF Spec

\* An active worker that runs serves, of every function, what the store says or
\* a broadcast is about to bring it, unless the telling failed, it crashed or was
\* cut and booted again as active, it was restored without a wake, it kept what
\* it had from before, or the change fell into the end of its wake; however many
\* wakes the controller has let overlap.
THEOREM ActiveInSync == Spec => []InSync
  BY SpecInv, InvImpliesInSync, PTL

\* An active node goes back to something older only when it goes down, for a
\* request whose caller gave up, or for one of a wake during which the controller
\* has overwritten its status.
THEOREM StaleOnlyByLate == Spec => StaleOnlyLate
<1>1. TypeOK /\ Inv /\ Owned /\ [Next]_vars =>
        [\A n \in Worker, f \in Function :
           status[n] = "active" /\ held'[n][f] \notin {held[n][f], store[f]}
             => \/ n \notin running' \/ Crash(n)
                \/ \E c \in About(n, f) \ calls' :
                     c.by = "nobody" \/ (c.by \in Waker /\ n \in overwritten)]_vars
  BY StaleStep
<1> QED
  BY <1>1, SpecInv, PTL DEF StaleOnlyLate, Spec
===============================================================================
