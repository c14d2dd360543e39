-------------------------------- MODULE Relay --------------------------------
(***************************************************************************)
(* TinkerforgeController (tinkerforgefunc/main.go): relays with two         *)
(* channels each, written as a pair.  The controller keeps the state it     *)
(* wants of every relay it has touched, reads the hardware only the first   *)
(* time, and serialises its calls with one mutex.  One action per exchange  *)
(* with the hardware.                                                       *)
(***************************************************************************)
EXTENDS Integers

CONSTANTS
  UID,            \* the UIDs of the relays
  DefaultUID,     \* the relay of a request that names none
  NoUID,          \* the empty relay_uid
  Caller,         \* goroutines that call PowerOn and PowerOff
  NoOne,
  Flaky,          \* relays whose SetValue may take effect and still report an error
  Demanded        \* the calls that the nodes' configurations give rise to

\* The arguments of PowerOn and PowerOff.
Arguments == [uid : UID \cup {NoUID}, channel : Int, on : BOOLEAN]

ASSUME RelayAssumption ==
  /\ DefaultUID \in UID /\ NoUID \notin UID /\ NoOne \notin Caller
  /\ Flaky \subseteq UID /\ Demanded \subseteq Arguments

ChannelsPerRelay == 2
Channel == 0 .. ChannelsPerRelay - 1

\* One physical outlet: a channel of a relay.
Outlet == UID \X Channel

VARIABLES
  hw,        \* [Outlet -> BOOLEAN]: the contacts of the relays
  known,     \* the relays in the map t.state
  desired,   \* [Outlet -> BOOLEAN]: t.state, for the known relays
  mu,        \* who holds t.mu
  pc,        \* [Caller -> where the call is]
  req        \* [Caller -> Arguments]

vars == <<hw, known, desired, mu, pc, req>>

Off == [o \in Outlet |-> FALSE]

Init ==
  /\ hw \in [Outlet -> BOOLEAN]      \* relays hold their last position
  /\ known = {} /\ desired = Off
  /\ mu = NoOne
  /\ pc = [c \in Caller |-> "idle"]
  /\ req = [c \in Caller |-> [uid |-> NoUID, channel |-> 0, on |-> FALSE]]

\* Mutant: the relay a node does not name stays unnamed.
NoDefault(c) == req[c].uid

\* The relay and the outlet the request of c is about.
RelayOf(c) == IF req[c].uid = NoUID THEN DefaultUID ELSE req[c].uid
OutletOf(c) == <<RelayOf(c), req[c].channel>>

Call(c, r) ==
  /\ pc[c] = "idle"
  /\ pc' = [pc EXCEPT ![c] = "called"]
  /\ req' = [req EXCEPT ![c] = r]
  /\ UNCHANGED <<hw, known, desired, mu>>

RejectChannel(c) ==
  /\ pc[c] = "called" /\ req[c].channel \notin Channel
  /\ pc' = [pc EXCEPT ![c] = "err"]
  /\ UNCHANGED <<hw, known, desired, mu, req>>

\* Mutant: no mutex.
LockNothing(c) ==
  /\ pc[c] = "called" /\ req[c].channel \in Channel
  /\ mu' = c
  /\ pc' = [pc EXCEPT ![c] = IF RelayOf(c) \in known THEN "write" ELSE "read"]
  /\ UNCHANGED <<hw, known, desired, req>>

Lock(c) ==
  /\ pc[c] = "called" /\ req[c].channel \in Channel
  /\ mu = NoOne /\ mu' = c
  /\ pc' = [pc EXCEPT ![c] = IF RelayOf(c) \in known THEN "write" ELSE "read"]
  /\ UNCHANGED <<hw, known, desired, req>>

\* The first touch of a relay adopts the positions it has.
ReadState(c, ok) ==
  /\ pc[c] = "read"
  /\ pc' = [pc EXCEPT ![c] = IF ok THEN "write" ELSE "err"]
  /\ known' = IF ok THEN known \cup {RelayOf(c)} ELSE known
  /\ desired' = [o \in Outlet |-> IF ok /\ o[1] = RelayOf(c) THEN hw[o] ELSE desired[o]]
  /\ mu' = IF ok THEN mu ELSE NoOne
  /\ UNCHANGED <<hw, req>>

\* next: the desired state with the one channel changed.
NextState(c) == [desired EXCEPT ![OutletOf(c)] = req[c].on]

\* SetValue writes both channels of the relay.
SetValue(c) == hw' = [o \in Outlet |-> IF o[1] = RelayOf(c) THEN NextState(c)[o] ELSE hw[o]]

WriteState(c) ==
  /\ pc[c] = "write"
  /\ SetValue(c)
  /\ pc' = [pc EXCEPT ![c] = "commit"]
  /\ UNCHANGED <<known, desired, mu, req>>

\* Mutant: the error return forgets the mutex.
WriteFailsLocked(c) ==
  /\ pc[c] = "write"
  /\ UNCHANGED hw \/ (RelayOf(c) \in Flaky /\ SetValue(c))
  /\ pc' = [pc EXCEPT ![c] = "err"]
  /\ UNCHANGED <<known, desired, mu, req>>

\* An error returns before the desired state is updated.
WriteFails(c) ==
  /\ pc[c] = "write"
  /\ UNCHANGED hw \/ (RelayOf(c) \in Flaky /\ SetValue(c))
  /\ pc' = [pc EXCEPT ![c] = "err"]
  /\ mu' = NoOne
  /\ UNCHANGED <<known, desired, req>>

\* Mutant: the desired state is not updated after the write.
CommitNothing(c) ==
  /\ pc[c] = "commit"
  /\ pc' = [pc EXCEPT ![c] = "ok"]
  /\ mu' = NoOne
  /\ UNCHANGED <<hw, known, desired, req>>

Commit(c) ==
  /\ pc[c] = "commit"
  /\ desired' = NextState(c)
  /\ pc' = [pc EXCEPT ![c] = "ok"]
  /\ mu' = NoOne
  /\ UNCHANGED <<hw, known, req>>

Return(c) ==
  /\ pc[c] \in {"ok", "err"}
  /\ pc' = [pc EXCEPT ![c] = "idle"]
  /\ UNCHANGED <<hw, known, desired, mu, req>>

\* The leader process ends at any point and starts again: t.state is empty.
Restart ==
  /\ known' = {} /\ desired' = Off
  /\ mu' = NoOne
  /\ pc' = [c \in Caller |-> "idle"]
  /\ UNCHANGED <<hw, req>>

SetChannel(c) ==
  \/ RejectChannel(c) \/ Lock(c) \/ (\E ok \in BOOLEAN : ReadState(c, ok))
  \/ WriteState(c) \/ WriteFails(c) \/ Commit(c) \/ Return(c)

Next ==
  \/ \E c \in Caller : SetChannel(c) \/ \E r \in Demanded : Call(c, r)
  \/ Restart

Spec == Init /\ [][Next]_vars

\* A call makes progress once it holds the mutex, and Go's mutex does not starve
\* a waiter (its starvation mode hands the lock to the longest waiter).
LiveSpec == Spec /\ \A c \in Caller : SF_vars(SetChannel(c))

-------------------------------------------------------------------------------
TypeOK ==
  /\ hw \in [Outlet -> BOOLEAN]
  /\ known \in SUBSET UID /\ desired \in [Outlet -> BOOLEAN]
  /\ mu \in Caller \cup {NoOne}
  /\ pc \in [Caller -> {"idle", "called", "read", "write", "commit", "ok", "err"}]
  /\ req \in [Caller -> Arguments]

\* A write of this outlet has been made and its commit is still to come.
Committing(o) == \E c \in Caller : mu = c /\ pc[c] = "commit" /\ OutletOf(c) = o

\* The outlets that are not where the controller believes them to be.
Differs == {o \in Outlet : o[1] \in known /\ desired[o] # hw[o] /\ ~Committing(o)}

\* The desired state of a relay is its real state, except between the write and
\* the update of the desired state, which only the holder of the mutex sees, and
\* unless the relay can report an error for a switch that it has made.
DesiredIsReal == \A o \in Differs : o[1] \in Flaky

\* The interface the registry relies on: one outlet per call, all or nothing, but
\* for what an outlet of a flaky relay leaves behind.
Abstract == INSTANCE PowerSwitch WITH
  NoOutlet <- NoUID,
  Faulty <- Flaky \X Channel,
  Board <- [o \in Outlet |-> {o[1]} \X Channel],
  outlets <- hw,
  astray <- Differs,
  call <- [c \in Caller |->
             [outlet |-> IF req[c].channel \in Channel THEN OutletOf(c) ELSE NoUID,
              on |-> req[c].on]],
  phase <- [c \in Caller |->
              CASE pc[c] \in {"called", "read", "write"} -> "called"
                [] pc[c] \in {"commit", "ok"}            -> "ok"
                [] pc[c] \in {"idle", "err"}             -> pc[c]]

ImplementsPowerSwitch == Abstract!Spec

\* Every call returns.
CallsReturn == \A c \in Caller : pc[c] = "called" ~> pc[c] = "idle"
==============================================================================
