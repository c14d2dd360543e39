------------------------------- MODULE Topology -------------------------------
(***************************************************************************)
(* ValidateNodes (pkg/cluster/config.go): the list of nodes of nodes.json   *)
(* is accepted or rejected.  The loop over the list is the loop of the      *)
(* code, with its maps seenID and seenChannel and its counter; the list is  *)
(* revealed node by node, so each action chooses the node the loop looks at *)
(* next.  Which of several errors is reported is left out.                  *)
(***************************************************************************)
EXTENDS Integers, Sequences

CONSTANTS
  ID, NoID,            \* node names, and the empty one
  UID, NoUID,          \* relay UIDs, and the empty one
  DefaultUID,          \* TINKERFORGE_UID: the relay of nodes that name none
  MaxNodes             \* the longest list considered

ASSUME TopologyAssumption ==
  /\ NoID \notin ID /\ NoUID \notin UID /\ DefaultUID \in UID
  /\ MaxNodes \in Nat

ChannelsPerRelay == 2
Channel == 0 .. ChannelsPerRelay - 1

\* A node of the list.  addressed: it has an address and a manager_address.
\* What the leader's own entry says about addresses and relays is not read.
LocalEntry == [id : ID \cup {NoID}, local : {TRUE}, dispatchOnly : BOOLEAN]
WorkerEntry ==
  [id : ID \cup {NoID}, local : {FALSE}, dispatchOnly : BOOLEAN,
   addressed : BOOLEAN, relayUID : UID \cup {NoUID},
   channel : -1 .. ChannelsPerRelay]

VARIABLES
  nodes,        \* the nodes the loop has looked at
  seenID,       \* the keys of seenID
  seenChannel,  \* the keys of seenChannel
  locals,       \* how many local nodes there were
  outcome       \* "checking", then "accepted" or "rejected"

vars == <<nodes, seenID, seenChannel, locals, outcome>>

Init ==
  /\ nodes = <<>>
  /\ seenID = {} /\ seenChannel = {} /\ locals = 0
  /\ outcome = "checking"

\* The loop looks at node n.
Look(n) ==
  /\ outcome = "checking" /\ Len(nodes) < MaxNodes
  /\ nodes' = Append(nodes, n)

\* The checks every node must pass.
NewID(n) == n.id # NoID /\ n.id \notin seenID

\* Mutant: the channel alone is the key, whatever the relay.
ChannelOnly(n) == <<NoUID, n.channel>>

RelayChannel(n) == <<n.relayUID, n.channel>>

\* The checks a worker must pass besides.
Switchable(n) ==
  n.addressed /\ n.channel \in Channel /\ RelayChannel(n) \notin seenChannel

KeepLocal(n) ==
  /\ Look(n) /\ NewID(n)
  /\ locals' = locals + 1
  /\ seenID' = seenID \cup {n.id}
  /\ UNCHANGED <<seenChannel, outcome>>

KeepWorker(n) ==
  /\ Look(n) /\ NewID(n) /\ Switchable(n)
  /\ seenID' = seenID \cup {n.id}
  /\ seenChannel' = seenChannel \cup {RelayChannel(n)}
  /\ UNCHANGED <<locals, outcome>>

RejectNode(n) ==
  /\ Look(n)
  /\ ~NewID(n) \/ (~n.local /\ ~Switchable(n))
  /\ outcome' = "rejected"
  /\ UNCHANGED <<seenID, seenChannel, locals>>

\* The end of the list: one leader, and someone to execute functions.
Finish ==
  /\ outcome = "checking"
  /\ outcome' = IF locals = 1 /\ \E k \in DOMAIN nodes : ~nodes[k].dispatchOnly
                THEN "accepted" ELSE "rejected"
  /\ UNCHANGED <<nodes, seenID, seenChannel, locals>>

Next ==
  \/ \E n \in LocalEntry : KeepLocal(n) \/ RejectNode(n)
  \/ \E n \in WorkerEntry : KeepWorker(n) \/ RejectNode(n)
  \/ Finish

Spec == Init /\ [][Next]_vars

-------------------------------------------------------------------------------
Workers == {k \in DOMAIN nodes : ~nodes[k].local}

\* A topology a leader can run: what the comments of ValidateNodes ask for,
\* said about the list as a whole.
Valid ==
  /\ \A k, m \in DOMAIN nodes : nodes[k].id = nodes[m].id => k = m
  /\ \A k \in DOMAIN nodes : nodes[k].id # NoID
  /\ \E k \in DOMAIN nodes : Workers = DOMAIN nodes \ {k} /\ nodes[k].local
  /\ \E k \in DOMAIN nodes : ~nodes[k].dispatchOnly
  /\ \A k \in Workers : nodes[k].addressed /\ nodes[k].channel \in Channel
  /\ \A k, m \in Workers :
       nodes[k].relayUID = nodes[m].relayUID /\ nodes[k].channel = nodes[m].channel
         => k = m

\* The one pass over the list accepts the valid topologies and no others.
AcceptsExactlyValid ==
  /\ outcome = "accepted" => Valid
  /\ outcome = "rejected" => ~Valid

\* The outlet of the worker at position k: setChannel resolves an empty UID.
Outlet(k) ==
  <<IF nodes[k].relayUID = NoUID THEN DefaultUID ELSE nodes[k].relayUID, nodes[k].channel>>

\* In an accepted topology no relay channel switches two nodes.
OneOutletPerWorker ==
  outcome = "accepted" => \A k, m \in Workers : Outlet(k) = Outlet(m) => k = m
===============================================================================
