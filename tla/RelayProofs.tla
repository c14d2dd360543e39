----------------------------- MODULE RelayProofs -----------------------------
(***************************************************************************)
(* Proofs about the relay controller: its desired state is the real one     *)
(* whenever nobody is between a write and its commit, but for relays that   *)
(* report errors for switches they have made; and it implements             *)
(* PowerSwitch, what such a relay leaves behind included.                   *)
(***************************************************************************)
EXTENDS Relay, TLAPS

\* Who exchanges messages with a relay holds the mutex.
Exclusive == \A c \in Caller : pc[c] \in {"read", "write", "commit"} => mu = c

\* The checks before the exchange hold during it: a valid channel of a relay
\* whose desired state is read once, and known by the time it is written.
Prepared ==
  \A c \in Caller :
    /\ pc[c] \in {"read", "write", "commit", "ok"} => req[c].channel \in Channel
    /\ pc[c] = "read" => RelayOf(c) \notin known
    /\ pc[c] \in {"write", "commit"} => RelayOf(c) \in known

\* After the write the relay has the positions the commit will record.
Written ==
  \A c \in Caller : pc[c] = "commit" =>
    \A o \in Outlet : o[1] = RelayOf(c) => hw[o] = NextState(c)[o]

Protocol == Exclusive /\ Prepared /\ Written

RelayInv == TypeOK /\ Protocol /\ DesiredIsReal

\* The outlets that a message to the relay of c sets.
BoardOf(c) == {RelayOf(c)} \X Channel

\* The relay of a request exists, and its outlet when the channel is valid.
LEMMA RelayExists ==
  ASSUME TypeOK, NEW c \in Caller
  PROVE  /\ RelayOf(c) \in UID
         /\ req[c].channel \in Channel => OutletOf(c) \in Outlet
  BY RelayAssumption DEF TypeOK, Arguments, RelayOf, OutletOf, Outlet

\* The initial states satisfy the invariant.
LEMMA InitRelayInv == Init => RelayInv
  BY RelayAssumption DEF Init, RelayInv, Protocol, TypeOK, Exclusive, Prepared, Written,
     DesiredIsReal, Differs, Off, Arguments, Channel, ChannelsPerRelay

\* Every step keeps the types.
LEMMA NextTypeOK ==
  ASSUME TypeOK, [Next]_vars
  PROVE  TypeOK'
<1> USE DEF TypeOK
<1>1. ASSUME NEW c \in Caller, NEW r \in Demanded, Call(c, r) PROVE TypeOK'
  BY <1>1, RelayAssumption DEF Call
<1>2. ASSUME NEW c \in Caller, RejectChannel(c) PROVE TypeOK'
  BY <1>2 DEF RejectChannel
<1>3. ASSUME NEW c \in Caller, Lock(c) PROVE TypeOK'
  BY <1>3 DEF Lock
<1>4. ASSUME NEW c \in Caller, NEW ok \in BOOLEAN, ReadState(c, ok) PROVE TypeOK'
  <2>1. RelayOf(c) \in UID
    BY RelayExists
  <2>2. desired' \in [Outlet -> BOOLEAN]
    BY <1>4 DEF ReadState
  <2> QED
    BY <1>4, <2>1, <2>2 DEF ReadState
<1>5. ASSUME NEW c \in Caller, SetValue(c) PROVE hw' \in [Outlet -> BOOLEAN]
  <2>1. NextState(c) \in [Outlet -> BOOLEAN]
    BY DEF NextState, Arguments
  <2> QED
    BY <1>5, <2>1 DEF SetValue
<1>6. ASSUME NEW c \in Caller, WriteState(c) PROVE TypeOK'
  BY <1>5, <1>6 DEF WriteState
<1>7. ASSUME NEW c \in Caller, WriteFails(c) PROVE TypeOK'
  BY <1>5, <1>7 DEF WriteFails
<1>8. ASSUME NEW c \in Caller, Commit(c) PROVE TypeOK'
  BY <1>8 DEF Commit, NextState, Arguments
<1>9. ASSUME NEW c \in Caller, Return(c) PROVE TypeOK'
  BY <1>9 DEF Return
<1>10. CASE Restart
  BY <1>10 DEF Restart, Off
<1>11. CASE UNCHANGED vars
  BY <1>11 DEF vars
<1> QED
  BY <1>1, <1>2, <1>3, <1>4, <1>6, <1>7, <1>8, <1>9, <1>10, <1>11 DEF Next, SetChannel

\* Who exchanges messages with a relay is the only one who does.
LEMMA OneExchange ==
  ASSUME Exclusive, NEW c \in Caller, pc[c] \in {"read", "write", "commit"}
  PROVE  mu = c /\ \A d \in Caller : d # c => pc[d] \notin {"read", "write", "commit"}
  BY DEF Exclusive

\* A request that stays the same is about the same outlet.
LEMMA SameRequest ==
  ASSUME NEW c \in Caller, req' = req
  PROVE  /\ RelayOf(c)' = RelayOf(c) /\ OutletOf(c)' = OutletOf(c)
         /\ BoardOf(c)' = BoardOf(c)
  BY DEF RelayOf, OutletOf, BoardOf

\* While nobody is to commit, the outlets that differ are those whose position
\* is not the desired one.
LEMMA PlainDiffers ==
  ASSUME \A c \in Caller : mu = c => pc[c] # "commit"
  PROVE  Differs = {o \in Outlet : o[1] \in known /\ desired[o] # hw[o]}
  BY DEF Differs, Committing

\* A new call touches only a caller that holds nothing.
LEMMA CallRelayInv ==
  ASSUME RelayInv, NEW c \in Caller, NEW r \in Demanded, Call(c, r)
  PROVE  Protocol' /\ Differs' = Differs
<1>1. \A d \in Caller : d # c => /\ pc'[d] = pc[d] /\ req'[d] = req[d]
                                 /\ RelayOf(d)' = RelayOf(d)
                                 /\ OutletOf(d)' = OutletOf(d)
                                 /\ NextState(d)' = NextState(d)
  BY DEF Call, RelayInv, TypeOK, RelayOf, OutletOf, NextState
<1>2. pc[c] = "idle" /\ pc'[c] = "called" /\ mu' = mu /\ hw' = hw
      /\ known' = known /\ desired' = desired
  BY DEF Call, RelayInv, TypeOK
<1>3. Exclusive'
  BY <1>1, <1>2 DEF RelayInv, Protocol, Exclusive
<1>4. Prepared'
  BY <1>1, <1>2 DEF RelayInv, Protocol, Prepared
<1>5. Written'
  BY <1>1, <1>2 DEF RelayInv, Protocol, Written
<1>6. \A o \in Outlet : Committing(o)' <=> Committing(o)
  BY <1>1, <1>2 DEF Committing
<1>7. Differs' = Differs
  BY <1>2, <1>6 DEF Differs
<1> QED
  BY <1>3, <1>4, <1>5, <1>7 DEF Protocol

\* Steps that change no position, wanted or real, and leave "commit" alone.
LEMMA QuietRelayInv ==
  ASSUME RelayInv, NEW c \in Caller,
         hw' = hw, desired' = desired, known' = known, req' = req,
         NEW s \in {"called", "read", "write", "ok", "err", "idle"},
         pc' = [pc EXCEPT ![c] = s], pc[c] # "commit",
         s \in {"read", "write"} => mu' = c /\ mu = NoOne /\ req[c].channel \in Channel,
         s = "read" => RelayOf(c) \notin known,
         s = "write" => RelayOf(c) \in known,
         s = "ok" => pc[c] = "ok",
         s \notin {"read", "write"} =>
           \/ mu' = mu
           \/ mu = c /\ mu' = NoOne
  PROVE  Protocol' /\ Differs' = Differs
<1>1. \A d \in Caller : pc'[d] = IF d = c THEN s ELSE pc[d]
  BY DEF RelayInv, Protocol, TypeOK
<1>2. \A d \in Caller : /\ RelayOf(d)' = RelayOf(d) /\ OutletOf(d)' = OutletOf(d)
                        /\ NextState(d)' = NextState(d)
  BY DEF RelayOf, OutletOf, NextState
<1>3. Exclusive'
  BY <1>1, RelayAssumption DEF RelayInv, Protocol, Exclusive
<1>4. Prepared'
  BY <1>1, <1>2 DEF RelayInv, Protocol, Prepared
<1>5. Written'
  BY <1>1, <1>2 DEF RelayInv, Protocol, Written
<1>6. \A o \in Outlet : Committing(o)' <=> Committing(o)
  <2>1. \A d \in Caller : mu' = d /\ pc'[d] = "commit" <=> mu = d /\ pc[d] = "commit"
    BY <1>1, RelayAssumption DEF RelayInv, Protocol, Exclusive
  <2> QED
    BY <1>2, <2>1 DEF Committing
<1>7. Differs' = Differs
  BY <1>6 DEF Differs
<1> QED
  BY <1>3, <1>4, <1>5, <1>7 DEF Protocol

\* Reading a relay for the first time adopts its positions.
LEMMA ReadRelayInv ==
  ASSUME RelayInv, NEW c \in Caller, NEW ok \in BOOLEAN, ReadState(c, ok)
  PROVE  Protocol' /\ Differs' = Differs
<1>1. mu = c /\ \A d \in Caller : d # c => pc[d] \notin {"read", "write", "commit"}
  BY OneExchange DEF RelayInv, Protocol, ReadState
<1>2. \A d \in Caller : RelayOf(d)' = RelayOf(d)
  BY SameRequest DEF ReadState
<1>3. \A d \in Caller : pc'[d] = IF d # c THEN pc[d] ELSE IF ok THEN "write" ELSE "err"
  BY DEF ReadState, RelayInv, TypeOK
<1>4. Exclusive'
  BY <1>1, <1>3 DEF Exclusive, ReadState
<1>5. Prepared'
  <2>1. known \subseteq known' /\ req' = req /\ (ok => RelayOf(c) \in known')
    BY DEF ReadState
  <2>2. req[c].channel \in Channel
    BY DEF RelayInv, Protocol, Prepared, ReadState
  <2> QED
    BY <1>1, <1>2, <1>3, <2>1, <2>2 DEF RelayInv, Protocol, Prepared
<1>6. Written'
  BY <1>1, <1>3 DEF Written
<1>7. Differs' = Differs
  <2>1. Differs = {o \in Outlet : o[1] \in known /\ desired[o] # hw[o]}
    BY <1>1, PlainDiffers DEF ReadState
  <2>2. Differs' = {o \in Outlet : o[1] \in known' /\ desired'[o] # hw'[o]}
    BY <1>1, <1>3 DEF Differs, Committing
  <2>3. ASSUME NEW o \in Outlet
        PROVE  o[1] \in known' /\ desired'[o] # hw'[o] <=> o[1] \in known /\ desired[o] # hw[o]
    <3>1. desired'[o] = (IF ok /\ o[1] = RelayOf(c) THEN hw[o] ELSE desired[o]) /\ hw' = hw
      BY DEF ReadState
    <3>2. known' = IF ok THEN known \cup {RelayOf(c)} ELSE known
      BY DEF ReadState
    <3>3. RelayOf(c) \notin known
      BY DEF ReadState, RelayInv, Protocol, Prepared
    <3> QED
      BY <3>1, <3>2, <3>3
  <2> QED
    BY <2>1, <2>2, <2>3
<1> QED
  BY <1>4, <1>5, <1>6, <1>7 DEF Protocol

\* What a message to the relay does, whatever is answered: the outlet of the
\* call takes its position, those of the same relay that differ go back, and
\* no other outlet moves.
LEMMA SetValueSets ==
  ASSUME RelayInv, NEW c \in Caller, pc[c] = "write", SetValue(c)
  PROVE  /\ OutletOf(c) \in Outlet
         /\ hw' = [o \in Outlet |->
                    IF o = OutletOf(c) THEN req[c].on
                    ELSE IF o \in Differs \cap BoardOf(c) THEN ~hw[o] ELSE hw[o]]
<1>1. OutletOf(c) \in Outlet /\ RelayOf(c) \in known
  BY RelayExists DEF RelayInv, Protocol, Prepared
<1>2. Differs = {o \in Outlet : o[1] \in known /\ desired[o] # hw[o]}
  BY OneExchange, PlainDiffers DEF RelayInv, Protocol
<1>3. desired \in [Outlet -> BOOLEAN] /\ hw \in [Outlet -> BOOLEAN]
  BY DEF RelayInv, TypeOK
<1>4. OutletOf(c)[1] = RelayOf(c)
  BY DEF OutletOf
<1>5. ASSUME NEW o \in Outlet
      PROVE  hw'[o] = IF o = OutletOf(c) THEN req[c].on
                      ELSE IF o \in Differs \cap BoardOf(c) THEN ~hw[o] ELSE hw[o]
  <2>1. hw'[o] = IF o[1] = RelayOf(c) THEN NextState(c)[o] ELSE hw[o]
    BY DEF SetValue
  <2>2. NextState(c)[o] = IF o = OutletOf(c) THEN req[c].on ELSE desired[o]
    BY <1>1, <1>3 DEF NextState
  <2>3. o \in BoardOf(c) <=> o[1] = RelayOf(c)
    BY DEF BoardOf, Outlet
  <2>4. o[1] = RelayOf(c) => (o \in Differs <=> desired[o] # hw[o])
    BY <1>1, <1>2
  <2>5. desired[o] \in BOOLEAN /\ hw[o] \in BOOLEAN
    BY <1>3
  <2>6. CASE o = OutletOf(c)
    BY <2>1, <2>2, <2>6, <1>4
  <2>7. CASE o # OutletOf(c) /\ o \in Differs \cap BoardOf(c)
    <3>1. hw'[o] = desired[o] /\ desired[o] # hw[o]
      BY <2>1, <2>2, <2>3, <2>4, <2>7
    <3>2. hw'[o] = ~hw[o]
      BY <2>5, <3>1
    <3> QED
      BY <2>7, <3>2
  <2>8. CASE o # OutletOf(c) /\ o \notin Differs \cap BoardOf(c)
    BY <2>1, <2>2, <2>3, <2>4, <2>8
  <2> QED
    BY <2>6, <2>7, <2>8
<1>6. hw' = [o \in Outlet |-> hw'[o]]
  BY DEF SetValue
<1> QED
  BY <1>1, <1>5, <1>6

\* The write puts one outlet ahead of its desired state, until the commit.
LEMMA WriteRelayInv ==
  ASSUME RelayInv, NEW c \in Caller, WriteState(c)
  PROVE  Protocol' /\ Differs' = Differs \ BoardOf(c)
<1>1. mu = c /\ \A d \in Caller : d # c => pc[d] \notin {"read", "write", "commit"}
  BY OneExchange DEF RelayInv, Protocol, WriteState
<1>2. \A d \in Caller : /\ RelayOf(d)' = RelayOf(d) /\ OutletOf(d)' = OutletOf(d)
                        /\ NextState(d)' = NextState(d)
  BY DEF WriteState, RelayOf, OutletOf, NextState
<1>3. \A d \in Caller : pc'[d] = IF d = c THEN "commit" ELSE pc[d]
  BY DEF WriteState, RelayInv, TypeOK
<1>4. Exclusive'
  BY <1>1, <1>3 DEF Exclusive, WriteState
<1>5. Prepared'
  <2>1. known' = known /\ req' = req /\ pc[c] = "write"
    BY DEF WriteState
  <2> QED
    BY <1>2, <1>3, <2>1 DEF RelayInv, Protocol, Prepared
<1>6. \A o \in Outlet : hw'[o] = IF o[1] = RelayOf(c) THEN NextState(c)[o] ELSE hw[o]
  BY DEF WriteState, SetValue
<1>7. Written'
  <2>1. ASSUME NEW d \in Caller, pc'[d] = "commit" PROVE d = c
    BY <2>1, <1>1, <1>3
  <2> QED
    BY <1>2, <1>6, <2>1 DEF Written
<1>8. ASSUME NEW o \in Outlet PROVE o \in Differs' <=> o \in Differs \ BoardOf(c)
  <2>1. o \in BoardOf(c) <=> o[1] = RelayOf(c)
    BY DEF BoardOf, Outlet
  <2>2. Committing(o)' <=> o = OutletOf(c)
    BY <1>1, <1>2, <1>3 DEF Committing, WriteState
  <2>3. o \in Differs' <=> o[1] \in known /\ desired[o] # hw'[o] /\ o # OutletOf(c)
    BY <2>2 DEF Differs, WriteState
  <2>4. o \in Differs <=> o[1] \in known /\ desired[o] # hw[o]
    BY <1>1, PlainDiffers DEF WriteState
  <2>5. NextState(c)[o] = IF o = OutletOf(c) THEN req[c].on ELSE desired[o]
    BY DEF NextState, RelayInv, TypeOK
  <2>6. OutletOf(c)[1] = RelayOf(c)
    BY DEF OutletOf
  <2> QED
    BY <1>6, <2>1, <2>3, <2>4, <2>5, <2>6
<1>9. Differs' \subseteq Outlet /\ Differs \subseteq Outlet
  BY DEF Differs
<1>10. Differs' = Differs \ BoardOf(c)
  BY <1>8, <1>9
<1> QED
  BY <1>4, <1>5, <1>7, <1>10 DEF Protocol

\* A write that takes effect and reports an error leaves its outlet away from
\* the desired state, unless it was there already or is now.
LEMMA LateRelayInv ==
  ASSUME RelayInv, NEW c \in Caller, WriteFails(c), SetValue(c)
  PROVE  /\ Protocol'
         /\ Differs' = (Differs \ BoardOf(c)) \cup
                         IF req[c].on # desired[OutletOf(c)] THEN {OutletOf(c)} ELSE {}
<1>1. mu = c /\ \A d \in Caller : d # c => pc[d] \notin {"read", "write", "commit"}
  BY OneExchange DEF RelayInv, Protocol, WriteFails
<1>2. \A d \in Caller : RelayOf(d)' = RelayOf(d) /\ OutletOf(d)' = OutletOf(d)
  BY DEF WriteFails, RelayOf, OutletOf
<1>3. \A d \in Caller : pc'[d] = IF d = c THEN "err" ELSE pc[d]
  BY DEF WriteFails, RelayInv, TypeOK
<1>4. Exclusive' /\ Written'
  BY <1>1, <1>3 DEF Exclusive, Written
<1>5. Prepared'
  <2>1. known' = known /\ req' = req
    BY DEF WriteFails
  <2> QED
    BY <1>2, <1>3, <2>1 DEF RelayInv, Protocol, Prepared
<1>6. \A o \in Outlet : hw'[o] = IF o[1] = RelayOf(c) THEN NextState(c)[o] ELSE hw[o]
  BY DEF SetValue
<1>7. OutletOf(c) \in Outlet /\ OutletOf(c)[1] = RelayOf(c) /\ RelayOf(c) \in known
  BY RelayExists DEF OutletOf, RelayInv, Protocol, Prepared, WriteFails
<1>8. ASSUME NEW o \in Outlet
      PROVE  o \in Differs' <=> \/ o \in Differs \ BoardOf(c)
                                \/ o = OutletOf(c) /\ req[c].on # desired[o]
  <2>1. o \in BoardOf(c) <=> o[1] = RelayOf(c)
    BY DEF BoardOf, Outlet
  <2>2. ~Committing(o)'
    BY <1>1, <1>3 DEF Committing
  <2>3. o \in Differs' <=> o[1] \in known /\ desired[o] # hw'[o]
    BY <2>2 DEF Differs, WriteFails
  <2>4. o \in Differs <=> o[1] \in known /\ desired[o] # hw[o]
    BY <1>1, PlainDiffers DEF WriteFails
  <2>5. NextState(c)[o] = IF o = OutletOf(c) THEN req[c].on ELSE desired[o]
    BY DEF NextState, RelayInv, TypeOK
  <2> QED
    BY <1>6, <1>7, <2>1, <2>3, <2>4, <2>5
<1>9. Differs' \subseteq Outlet /\ Differs \subseteq Outlet
  BY DEF Differs
<1>10. Differs' = (Differs \ BoardOf(c)) \cup
                    IF req[c].on # desired[OutletOf(c)] THEN {OutletOf(c)} ELSE {}
  BY <1>7, <1>8, <1>9
<1> QED
  BY <1>4, <1>5, <1>10 DEF Protocol

\* The commit records what the write has done.
LEMMA CommitRelayInv ==
  ASSUME RelayInv, NEW c \in Caller, Commit(c)
  PROVE  Protocol' /\ Differs' = Differs
<1>1. mu = c /\ \A d \in Caller : d # c => pc[d] \notin {"read", "write", "commit"}
  BY OneExchange DEF RelayInv, Protocol, Commit
<1>2. \A d \in Caller : RelayOf(d)' = RelayOf(d) /\ OutletOf(d)' = OutletOf(d)
  BY SameRequest DEF Commit
<1>3. \A d \in Caller : pc'[d] = IF d = c THEN "ok" ELSE pc[d]
  BY DEF Commit, RelayInv, TypeOK
<1>4. Exclusive' /\ Written'
  BY <1>1, <1>3 DEF Exclusive, Written
<1>5. Prepared'
  <2>1. known' = known /\ req' = req /\ pc[c] = "commit"
    BY DEF Commit
  <2> QED
    BY <1>2, <1>3, <2>1 DEF RelayInv, Protocol, Prepared
<1>6. ASSUME NEW o \in Outlet PROVE o \in Differs' <=> o \in Differs
  <2>1. desired' = NextState(c) /\ hw' = hw /\ known' = known
    BY DEF Commit
  <2>2. o \in Differs' <=> o[1] \in known /\ NextState(c)[o] # hw[o]
    BY <1>1, <1>3, <2>1 DEF Differs, Committing
  <2>3. Committing(o) <=> o = OutletOf(c)
    BY <1>1 DEF Committing, Commit
  <2>4. o \in Differs <=> o[1] \in known /\ desired[o] # hw[o] /\ o # OutletOf(c)
    BY <2>3 DEF Differs
  <2>5. o[1] = RelayOf(c) => hw[o] = NextState(c)[o]
    BY DEF RelayInv, Protocol, Written, Commit
  <2>6. NextState(c)[o] = IF o = OutletOf(c) THEN req[c].on ELSE desired[o]
    BY DEF NextState, RelayInv, TypeOK
  <2>7. OutletOf(c)[1] = RelayOf(c)
    BY DEF OutletOf
  <2> QED
    BY <2>2, <2>4, <2>5, <2>6, <2>7
<1>7. Differs' = Differs
  <2>1. Differs' \subseteq Outlet /\ Differs \subseteq Outlet
    BY DEF Differs
  <2> QED
    BY <1>6, <2>1
<1> QED
  BY <1>4, <1>5, <1>7 DEF Protocol

\* After a restart nothing is remembered, so nothing differs.
LEMMA RestartRelayInv ==
  ASSUME Restart
  PROVE  Protocol' /\ Differs' = {}
<1>1. known' = {} /\ \A c \in Caller : pc'[c] = "idle"
  BY DEF Restart
<1>2. Exclusive' /\ Prepared' /\ Written'
  BY <1>1 DEF Exclusive, Prepared, Written
<1>3. Differs' = {}
  BY <1>1 DEF Differs
<1> QED
  BY <1>2, <1>3 DEF Protocol

\* Nothing happens.
LEMMA StutterRelayInv ==
  ASSUME RelayInv, UNCHANGED vars
  PROVE  Protocol' /\ Differs' = Differs
<1>1. /\ hw' = hw /\ known' = known /\ desired' = desired
      /\ mu' = mu /\ pc' = pc /\ req' = req
  BY DEF vars
<1>2. \A d \in Caller : /\ RelayOf(d)' = RelayOf(d) /\ OutletOf(d)' = OutletOf(d)
                        /\ NextState(d)' = NextState(d)
  BY <1>1 DEF RelayOf, OutletOf, NextState
<1>3. Exclusive' /\ Prepared'
  BY <1>1, <1>2 DEF RelayInv, Protocol, Exclusive, Prepared
<1>4. Written'
  BY <1>1, <1>2 DEF RelayInv, Protocol, Written
<1>5. \A o \in Outlet : Committing(o)' <=> Committing(o)
  BY <1>1, <1>2 DEF Committing
<1>6. Differs' = Differs
  BY <1>1, <1>5 DEF Differs
<1> QED
  BY <1>3, <1>4, <1>6 DEF Protocol

\* What each step of a call means for the protocol and the outlets that differ.
LEMMA StepOfCall ==
  ASSUME RelayInv, NEW c \in Caller,
         \/ RejectChannel(c) \/ Lock(c) \/ Return(c)
         \/ WriteFails(c) /\ hw' = hw
  PROVE  Protocol' /\ Differs' = Differs
<1>1. CASE RejectChannel(c)
  BY <1>1, QuietRelayInv DEF RejectChannel
<1>2. CASE Lock(c)
  <2>1. CASE RelayOf(c) \in known
    BY <1>2, <2>1, QuietRelayInv DEF Lock
  <2>2. CASE RelayOf(c) \notin known
    BY <1>2, <2>2, QuietRelayInv DEF Lock
  <2> QED
    BY <2>1, <2>2
<1>3. CASE Return(c)
  <2>1. pc[c] # "commit"
    BY <1>3 DEF Return
  <2> QED
    BY <1>3, <2>1, QuietRelayInv DEF Return
<1>4. CASE WriteFails(c) /\ hw' = hw
  <2>1. mu = c /\ mu' = NoOne /\ pc[c] = "write"
    BY <1>4 DEF WriteFails, RelayInv, Protocol, Exclusive
  <2> QED
    BY <1>4, <2>1, QuietRelayInv DEF WriteFails
<1> QED
  BY <1>1, <1>2, <1>3, <1>4

\* Every step keeps the invariant: an outlet that comes to differ is one of a
\* flaky relay.
LEMMA NextRelayInv ==
  ASSUME RelayInv, [Next]_vars
  PROVE  RelayInv'
<1> DEFINE Kept == Protocol' /\ \A o \in Differs' : o \in Differs \/ o[1] \in Flaky
<1>1. ASSUME NEW c \in Caller, NEW r \in Demanded, Call(c, r) PROVE Kept
  BY <1>1, CallRelayInv
<1>2. ASSUME NEW c \in Caller, RejectChannel(c) \/ Lock(c) \/ Return(c) PROVE Kept
  BY <1>2, StepOfCall
<1>3. ASSUME NEW c \in Caller, NEW ok \in BOOLEAN, ReadState(c, ok) PROVE Kept
  BY <1>3, ReadRelayInv
<1>4. ASSUME NEW c \in Caller, WriteState(c) PROVE Kept
  BY <1>4, WriteRelayInv
<1>5. ASSUME NEW c \in Caller, WriteFails(c) PROVE Kept
  <2>1. CASE hw' = hw
    BY <1>5, <2>1, StepOfCall
  <2>2. CASE RelayOf(c) \in Flaky /\ SetValue(c)
    <3>1. OutletOf(c)[1] = RelayOf(c)
      BY DEF OutletOf
    <3> QED
      BY <1>5, <2>2, <3>1, LateRelayInv
  <2> QED
    BY <1>5, <2>1, <2>2 DEF WriteFails
<1>6. ASSUME NEW c \in Caller, Commit(c) PROVE Kept
  BY <1>6, CommitRelayInv
<1>7. ASSUME Restart PROVE Kept
  BY <1>7, RestartRelayInv
<1>8. ASSUME UNCHANGED vars PROVE Kept
  BY <1>8, StutterRelayInv
<1>9. Kept
  BY <1>1, <1>2, <1>3, <1>4, <1>5, <1>6, <1>7, <1>8 DEF Next, SetChannel
<1>10. TypeOK'
  BY NextTypeOK DEF RelayInv
<1>11. DesiredIsReal'
  BY <1>9 DEF RelayInv, DesiredIsReal
<1> QED
  BY <1>9, <1>10, <1>11 DEF RelayInv

\* Whatever the relays answer, the state keeps its types.
THEOREM RelayTypes == Spec => []TypeOK
<1>1. Init => TypeOK
  BY InitRelayInv DEF RelayInv
<1>2. TypeOK /\ [Next]_vars => TypeOK'
  BY NextTypeOK
<1> QED
  BY <1>1, <1>2, PTL DEF Spec

\* The cached positions of a relay are its real ones, except between a write
\* and its commit and on relays that report errors for switches they have made,
\* for any number of relays and callers.
THEOREM CacheIsReal == Spec => []DesiredIsReal
<1>1. RelayInv /\ [Next]_vars => RelayInv'
  BY NextRelayInv
<1>2. RelayInv => DesiredIsReal
  BY DEF RelayInv
<1> QED
  BY InitRelayInv, <1>1, <1>2, PTL DEF Spec

-------------------------------------------------------------------------------
(* The refinement.                                                            *)

\* The call a request maps to is a request of PowerSwitch.
LEMMA MappedRequest ==
  ASSUME NEW r \in Arguments
  PROVE  [outlet |-> IF r.channel \in Channel
                     THEN <<IF r.uid = NoUID THEN DefaultUID ELSE r.uid, r.channel>>
                     ELSE NoUID,
          on |-> r.on] \in Abstract!Request
<1>1. r.on \in BOOLEAN /\ r.uid \in UID \cup {NoUID}
  BY DEF Arguments
<1>2. (IF r.uid = NoUID THEN DefaultUID ELSE r.uid) \in UID
  BY <1>1, RelayAssumption
<1> QED
  BY <1>1, <1>2 DEF Abstract!Request, Outlet

\* The two functions of the mapping, for the proofs below.
MapCall ==
  [c \in Caller |->
     [outlet |-> IF req[c].channel \in Channel THEN OutletOf(c) ELSE NoUID,
      on |-> req[c].on]]
PhaseOf(s) ==
  CASE s \in {"called", "read", "write"} -> "called"
    [] s \in {"commit", "ok"}            -> "ok"
    [] s \in {"idle", "err"}             -> s
MapPhase == [c \in Caller |-> PhaseOf(pc[c])]

\* What the phases are.
LEMMA Phases ==
  /\ PhaseOf("called") = "called" /\ PhaseOf("read") = "called"
  /\ PhaseOf("write") = "called" /\ PhaseOf("commit") = "ok" /\ PhaseOf("ok") = "ok"
  /\ PhaseOf("idle") = "idle" /\ PhaseOf("err") = "err"
  BY DEF PhaseOf

\* A request that stays the same maps to the same call.
LEMMA SameCall ==
  ASSUME req' = req
  PROVE  MapCall' = MapCall
  BY DEF MapCall, OutletOf, RelayOf

\* A step of one caller's pc moves that caller's phase and no other.
LEMMA OnePhase ==
  ASSUME TypeOK, NEW c \in Caller, NEW s, pc' = [pc EXCEPT ![c] = s]
  PROVE  /\ MapPhase[c] = PhaseOf(pc[c])
         /\ MapPhase' = [MapPhase EXCEPT ![c] = PhaseOf(s)]
<1>1. \A d \in Caller : pc'[d] = IF d = c THEN s ELSE pc[d]
  BY DEF TypeOK
<1>2. MapPhase' = [d \in Caller |-> PhaseOf(pc'[d])]
  BY DEF MapPhase, PhaseOf
<1>3. \A d \in Caller : PhaseOf(pc'[d]) = IF d = c THEN PhaseOf(s) ELSE PhaseOf(pc[d])
  BY <1>1
<1> QED
  BY <1>2, <1>3 DEF MapPhase

\* A message to a relay that takes effect is a call that reaches its outlet.
LEMMA MessageSets ==
  ASSUME RelayInv, NEW c \in Caller, pc[c] = "write", SetValue(c), req' = req
  PROVE  /\ Abstract!Sets(c)
         /\ Abstract!Elsewhere(c) = Differs \ BoardOf(c)
<1>1. MapPhase[c] = "called"
  BY Phases DEF MapPhase
<1>2. MapCall' = MapCall
  BY SameCall
<1>3. /\ OutletOf(c) \in Outlet
      /\ hw' = [o \in Outlet |->
                 IF o = OutletOf(c) THEN req[c].on
                 ELSE IF o \in Differs \cap BoardOf(c) THEN ~hw[o] ELSE hw[o]]
  BY SetValueSets
<1>4. MapCall[c].outlet = OutletOf(c) /\ MapCall[c].on = req[c].on
  BY DEF MapCall, RelayInv, Protocol, Prepared
<1>5. [o \in Outlet |-> {o[1]} \X Channel][OutletOf(c)] = BoardOf(c)
  BY <1>3 DEF OutletOf, BoardOf
<1>6. Abstract!Sets(c)
  BY <1>1, <1>2, <1>3, <1>4, <1>5 DEF Abstract!Sets, MapCall, MapPhase, PhaseOf
<1>7. Abstract!Elsewhere(c) = Differs \ BoardOf(c)
  BY <1>4, <1>5 DEF Abstract!Elsewhere, MapCall
<1> QED
  BY <1>6, <1>7

\* The position the controller believes an outlet in is where it would be
\* without the calls that failed late.
LEMMA BelievedIsSettled ==
  ASSUME RelayInv, NEW c \in Caller, pc[c] = "write"
  PROVE  Abstract!Settled(c) = desired[OutletOf(c)]
<1>1. OutletOf(c) \in Outlet /\ RelayOf(c) \in known
  BY RelayExists DEF RelayInv, Protocol, Prepared
<1>2. Differs = {o \in Outlet : o[1] \in known /\ desired[o] # hw[o]}
  BY OneExchange, PlainDiffers DEF RelayInv, Protocol
<1>3. OutletOf(c) \in Differs <=> desired[OutletOf(c)] # hw[OutletOf(c)]
  BY <1>1, <1>2 DEF OutletOf
<1>4. hw[OutletOf(c)] \in BOOLEAN /\ desired[OutletOf(c)] \in BOOLEAN
  BY <1>1 DEF RelayInv, TypeOK
<1>5. MapCall[c].outlet = OutletOf(c)
  BY DEF MapCall, RelayInv, Protocol, Prepared
<1> DEFINE own == OutletOf(c)
<1>6. Abstract!Settled(c) = IF own \in Differs THEN ~hw[own] ELSE hw[own]
  BY <1>5 DEF Abstract!Settled, MapCall
<1>7. (IF own \in Differs THEN ~hw[own] ELSE hw[own]) = desired[own]
  BY <1>3, <1>4
<1> QED
  BY <1>6, <1>7

\* Every step is a step of the abstract switch, or leaves it as it is.
LEMMA StepRefines ==
  ASSUME RelayInv, [Next]_vars
  PROVE  [Abstract!Next]_(Abstract!vars)
<1> DEFINE A == [Abstract!Next]_(Abstract!vars)
<1>a. TypeOK
  BY DEF RelayInv
<1>1. ASSUME NEW c \in Caller, NEW r \in Demanded, Call(c, r) PROVE A
  <2>1. MapPhase[c] = "idle" /\ MapPhase' = [MapPhase EXCEPT ![c] = "called"]
    <3>1. pc[c] = "idle" /\ pc' = [pc EXCEPT ![c] = "called"]
      BY <1>1 DEF Call
    <3>2. MapPhase[c] = PhaseOf(pc[c]) /\ MapPhase' = [MapPhase EXCEPT ![c] = PhaseOf("called")]
      BY <3>1, <1>a, OnePhase
    <3> QED
      BY <3>1, <3>2, Phases
  <2>2. MapCall' = [MapCall EXCEPT ![c] = MapCall'[c]]
    BY <1>1, <1>a DEF Call, MapCall, OutletOf, RelayOf, TypeOK
  <2>3. MapCall'[c] \in Abstract!Request
    <3>1. req'[c] = r /\ r \in Arguments
      BY <1>1, <1>a, RelayAssumption DEF Call, TypeOK
    <3> QED
      BY <3>1, MappedRequest DEF MapCall, OutletOf, RelayOf
  <2>4. PICK request \in Abstract!Request : request = MapCall'[c]
    BY <2>3
  <2>6. Differs' = Differs
    BY <1>1, CallRelayInv
  <2>5. Abstract!Call(c, request)
    BY <1>1, <2>6, <2>1, <2>2, <2>4 DEF Abstract!Call, MapCall, MapPhase, PhaseOf, Call
  <2> QED
    BY <2>5 DEF Abstract!Next
<1>2. ASSUME NEW c \in Caller, pc[c] \in {"called", "read", "write"},
             pc' = [pc EXCEPT ![c] = "err"], UNCHANGED <<hw, req>>, Differs' = Differs
      PROVE  A
  <2>1. MapPhase[c] = "called" /\ MapPhase' = [MapPhase EXCEPT ![c] = "err"]
    <3>1. PhaseOf(pc[c]) = "called"
      BY <1>2, Phases
    <3>2. MapPhase[c] = PhaseOf(pc[c]) /\ MapPhase' = [MapPhase EXCEPT ![c] = PhaseOf("err")]
      BY <1>2, <1>a, OnePhase
    <3> QED
      BY <3>1, <3>2, Phases
  <2>2. MapCall' = MapCall
    BY <1>2, SameCall
  <2>3. Abstract!Fail(c)
    BY <1>2, <2>1, <2>2 DEF Abstract!Fail, MapCall, MapPhase, PhaseOf
  <2> QED
    BY <2>3 DEF Abstract!Next
<1>3. ASSUME NEW c \in Caller, UNCHANGED <<hw, req>>, Differs' = Differs,
             NEW s \in {"read", "write", "ok"}, pc' = [pc EXCEPT ![c] = s],
             \/ s # "ok" /\ pc[c] \in {"called", "read"}
             \/ s = "ok" /\ pc[c] = "commit"
      PROVE  A
  <2>1. PhaseOf(s) = PhaseOf(pc[c])
    BY <1>3, Phases
  <2>3. MapPhase' = MapPhase
    <3>1. MapPhase[c] = PhaseOf(s) /\ MapPhase' = [MapPhase EXCEPT ![c] = PhaseOf(s)]
      BY <1>3, <1>a, <2>1, OnePhase
    <3> QED
      BY <3>1 DEF MapPhase
  <2>2. MapCall' = MapCall
    BY <1>3, SameCall
  <2> QED
    BY <1>3, <2>2, <2>3 DEF Abstract!vars, MapCall, MapPhase, PhaseOf
<1>4. ASSUME NEW c \in Caller, RejectChannel(c) PROVE A
  BY <1>2, <1>4, StepOfCall DEF RejectChannel
<1>5. ASSUME NEW c \in Caller, Lock(c) PROVE A
  <2>1. CASE RelayOf(c) \in known
    BY <1>3, <1>5, <2>1, StepOfCall DEF Lock
  <2>2. CASE RelayOf(c) \notin known
    BY <1>3, <1>5, <2>2, StepOfCall DEF Lock
  <2> QED
    BY <2>1, <2>2
<1>6. ASSUME NEW c \in Caller, NEW ok \in BOOLEAN, ReadState(c, ok) PROVE A
  <2>1. CASE ok
    BY <1>3, <1>6, <2>1, ReadRelayInv DEF ReadState
  <2>2. CASE ~ok
    BY <1>2, <1>6, <2>2, ReadRelayInv DEF ReadState
  <2> QED
    BY <2>1, <2>2
<1>7. ASSUME NEW c \in Caller, WriteState(c) PROVE A
  <2>1. MapPhase[c] = "called" /\ MapPhase' = [MapPhase EXCEPT ![c] = "ok"]
    <3>1. pc[c] = "write" /\ pc' = [pc EXCEPT ![c] = "commit"]
      BY <1>7 DEF WriteState
    <3>2. MapPhase[c] = PhaseOf(pc[c]) /\ MapPhase' = [MapPhase EXCEPT ![c] = PhaseOf("commit")]
      BY <3>1, <1>a, OnePhase
    <3> QED
      BY <3>1, <3>2, Phases
  <2>2. Abstract!Sets(c) /\ Abstract!Elsewhere(c) = Differs \ BoardOf(c)
    BY <1>7, MessageSets DEF WriteState
  <2>3. Differs' = Differs \ BoardOf(c)
    BY <1>7, WriteRelayInv
  <2>4. Abstract!Switch(c)
    BY <2>1, <2>2, <2>3 DEF Abstract!Switch, MapPhase, PhaseOf
  <2> QED
    BY <2>4 DEF Abstract!Next
<1>8. ASSUME NEW c \in Caller, WriteFails(c) PROVE A
  <2>1. CASE hw' = hw
    BY <1>2, <1>8, <2>1, StepOfCall DEF WriteFails
  <2>2. CASE RelayOf(c) \in Flaky /\ SetValue(c)
    <3>1. MapPhase' = [MapPhase EXCEPT ![c] = "err"]
      <4>1. pc' = [pc EXCEPT ![c] = "err"]
        BY <1>8 DEF WriteFails
      <4>2. MapPhase' = [MapPhase EXCEPT ![c] = PhaseOf("err")]
        BY <4>1, <1>a, OnePhase
      <4> QED
        BY <4>2, Phases
    <3>2. Abstract!Sets(c) /\ Abstract!Elsewhere(c) = Differs \ BoardOf(c)
      BY <1>8, <2>2, MessageSets DEF WriteFails
    <3>3. MapCall[c].outlet = OutletOf(c) /\ MapCall[c].on = req[c].on
      BY <1>8 DEF MapCall, RelayInv, Protocol, Prepared, WriteFails
    <3>4. OutletOf(c) \in Flaky \X Channel
      BY <1>8, <2>2 DEF OutletOf, RelayInv, Protocol, Prepared, WriteFails
    <3>5. Differs' = Abstract!Elsewhere(c) \cup
                       IF req[c].on # Abstract!Settled(c) THEN {OutletOf(c)} ELSE {}
      BY <1>8, <2>2, <3>2, LateRelayInv, BelievedIsSettled DEF WriteFails
    <3>6. Abstract!FailLate(c)
      BY <3>1, <3>2, <3>3, <3>4, <3>5 DEF Abstract!FailLate, MapCall, MapPhase, PhaseOf
    <3> QED
      BY <3>6 DEF Abstract!Next
  <2> QED
    BY <1>8, <2>1, <2>2 DEF WriteFails
<1>9. ASSUME NEW c \in Caller, Commit(c) PROVE A
  BY <1>3, <1>9, CommitRelayInv DEF Commit
<1>10. ASSUME NEW c \in Caller, Return(c) PROVE A
  <2>1. MapPhase[c] \in {"ok", "err"} /\ MapPhase' = [MapPhase EXCEPT ![c] = "idle"]
    <3>1. pc' = [pc EXCEPT ![c] = "idle"] /\ PhaseOf(pc[c]) \in {"ok", "err"}
      BY <1>10, Phases DEF Return
    <3>2. MapPhase[c] = PhaseOf(pc[c]) /\ MapPhase' = [MapPhase EXCEPT ![c] = PhaseOf("idle")]
      BY <3>1, <1>a, OnePhase
    <3> QED
      BY <3>1, <3>2, Phases
  <2>2. MapCall' = MapCall
    BY <1>10, SameCall DEF Return
  <2>4. Differs' = Differs
    BY <1>10, StepOfCall
  <2>3. Abstract!Return(c)
    BY <1>10, <2>1, <2>2, <2>4 DEF Abstract!Return, MapCall, MapPhase, PhaseOf, Return
  <2> QED
    BY <2>3 DEF Abstract!Next
<1>11. CASE Restart
  <2>1. MapPhase' = [c \in Caller |-> "idle"]
    BY <1>11, Phases DEF MapPhase, Restart
  <2>2. MapCall' = MapCall
    BY <1>11, SameCall DEF Restart
  <2>4. Differs' = {}
    BY <1>11, RestartRelayInv
  <2>3. Abstract!Restart
    BY <1>11, <2>1, <2>2, <2>4 DEF Abstract!Restart, MapCall, MapPhase, PhaseOf, Restart
  <2> QED
    BY <2>3 DEF Abstract!Next
<1>12. CASE UNCHANGED vars
  <2>1. MapCall' = MapCall /\ MapPhase' = MapPhase /\ hw' = hw /\ Differs' = Differs
    BY <1>12, SameCall, StutterRelayInv DEF vars, MapPhase
  <2> QED
    BY <2>1 DEF Abstract!vars, MapCall, MapPhase, PhaseOf
<1> QED
  BY <1>1, <1>4, <1>5, <1>6, <1>7, <1>8, <1>9, <1>10, <1>11, <1>12 DEF Next, SetChannel

\* The controller is a set of outlets that switch one at a time: a call that
\* succeeds switches its own outlet, a call that fails switches none, and only
\* what a flaky relay has switched under an error goes back with a later call.
THEOREM RelayRefines == Spec => ImplementsPowerSwitch
<1>1. Init => Abstract!Init
  <2> SUFFICES ASSUME Init PROVE Abstract!Init
    OBVIOUS
  <2>1. TypeOK
    BY InitRelayInv DEF RelayInv
  <2>2. MapCall \in [Caller -> Abstract!Request]
    BY <2>1, MappedRequest DEF MapCall, OutletOf, RelayOf, TypeOK
  <2>3. MapPhase = [c \in Caller |-> "idle"]
    BY Phases DEF Init, MapPhase
  <2>4. Differs = {}
    BY DEF Init, Differs
  <2> QED
    BY <2>2, <2>3, <2>4 DEF Init, Abstract!Init, MapCall, MapPhase, PhaseOf
<1>2. RelayInv /\ [Next]_vars => RelayInv'
  BY NextRelayInv
<1>3. RelayInv /\ [Next]_vars => [Abstract!Next]_(Abstract!vars)
  BY StepRefines
<1> QED
  BY InitRelayInv, <1>1, <1>2, <1>3, PTL DEF Spec, ImplementsPowerSwitch, Abstract!Spec
==============================================================================
