----------------------------- MODULE WiringProofs -----------------------------
(***************************************************************************)
(* What the report of cmd/verify-wiring is worth, for any list of nodes and *)
(* any cabling.  The argument: while the tool verifies, a machine behind an *)
(* outlet has power only if it is stuck, so what answers and what rises is  *)
(* the machine just powered on, an outsider, or stuck.                      *)
(***************************************************************************)
EXTENDS WiringCheck, TLAPS

\* The verdict ok about worker k, with its excuses.
Shown(k) ==
  /\ host[k] \in {feeds[k]} \cup Standing
  /\ energy => meter[k] \in {feeds[k]} \cup Standing

\* The cabling is chosen once the list is accepted, and the list then stays.
Chosen ==
  stage = "verifying" =>
    /\ outcome = "accepted"
    /\ feeds \in Outlets /\ host \in [Workers -> Machine]
    /\ todo \subseteq Workers
    /\ on \subseteq Machine

\* Of the machines behind outlets only the stuck ones have power.
OthersOff ==
  stage = "verifying" => on \cap Fed(feeds) \subseteq stuck /\ stuck \subseteq Fed(feeds)

\* The workers visited so far are what the verdict says.
VerdictSoFar ==
  stage = "verifying" /\ ~problem => \A k \in Workers \ todo : Shown(k)

\* Without a fault only siblings are stuck, and a problem is in the cabling unless
\* one is.
AlarmSoFar ==
  stage = "verifying" /\ ~failed =>
    /\ \A k \in Workers : feeds[k] \in stuck => Siblings(k) # {}
    /\ problem => \E k \in Workers : ~Wired(k) \/ feeds[k] \in stuck

\* The report has been made about an accepted list.
Reported == stage \in {"verified", "mismatched"} => outcome = "accepted"

Inv ==
  /\ Chosen /\ OthersOff /\ VerdictSoFar /\ AlarmSoFar /\ Reported
  /\ VerifiedIsWired /\ AlarmIsReal
  /\ stage = "loading" => problem = FALSE /\ failed = FALSE

\* An accepted list is never looked at again.
LEMMA LoadingOnly ==
  ASSUME Next
  PROVE  outcome = "checking"
BY DEF Next, KeepLocal, KeepWorker, RejectNode, Look, Finish

LEMMA WiringStart == WiringInit => Inv
BY DEF WiringInit, Init, Inv, Chosen, OthersOff, VerdictSoFar, AlarmSoFar, Reported,
       VerifiedIsWired, AlarmIsReal

LEMMA LoadKeeps ==
  ASSUME Inv, Next, UNCHANGED wiringVars
  PROVE  Inv'
<1>1. outcome = "checking"
  BY LoadingOnly
<1>2. stage \notin {"verifying", "verified", "mismatched"}
  BY <1>1 DEF Inv, Chosen, Reported
<1>3. stage' = stage /\ problem' = problem /\ failed' = failed /\ stuck' = stuck
  BY DEF wiringVars, progress
<1> QED
  BY <1>2, <1>3 DEF Inv, Chosen, OthersOff, VerdictSoFar, AlarmSoFar, Reported,
                    VerifiedIsWired, AlarmIsReal

\* In an accepted list siblings stay siblings.
LEMMA SameSiblings ==
  ASSUME UNCHANGED vars
  PROVE  Workers' = Workers /\ \A k \in Workers : Siblings(k)' = Siblings(k)
BY DEF vars, Workers, Siblings

LEMMA AllOffKeeps ==
  ASSUME Inv, PowerAllOff, UNCHANGED vars
  PROVE  Inv'
<1>1. /\ stage = "loading" /\ stage' = "verifying" /\ outcome' = "accepted"
      /\ todo' = Workers /\ Workers' = Workers
      /\ feeds' \in Outlets /\ host' \in [Workers -> Machine]
      /\ Outlets' = Outlets
  BY DEF PowerAllOff, vars, Workers, Outlets
<1>2. problem' = FALSE /\ failed' = FALSE
  BY <1>1 DEF PowerAllOff, Inv
<1>3. PICK lit \in SUBSET Machine, back \in TakenBack :
         /\ on' = (lit \ Fed(feeds')) \cup (lit \cap {feeds'[k] : k \in back})
         /\ stuck' = lit \cap {feeds'[k] : k \in back}
  BY DEF PowerAllOff, SwitchedOff
<1>4. Fed(feeds)' = Fed(feeds')
  BY DEF Fed
<1>5. back \subseteq Workers /\ \A k \in back : Siblings(k) # {}
  BY DEF TakenBack
<1>6. lit \cap {feeds'[k] : k \in back} \subseteq Fed(feeds')
  BY <1>1, <1>5, WiringAssumption DEF Fed, Outlets
<1>7. on' \subseteq Machine /\ on' \cap Fed(feeds') \subseteq stuck' /\ stuck' \subseteq Fed(feeds')
  BY <1>3, <1>6
<1>8. ASSUME NEW k \in Workers, feeds'[k] \in stuck'
      PROVE  Siblings(k)' # {}
  <2>1. PICK b \in back : feeds'[b] = feeds'[k] /\ feeds'[k] \in Machine
    BY <1>3, <1>8
  <2>2. k = b
    BY <1>1, <1>5, <2>1, WiringAssumption DEF Outlets
  <2> QED
    BY <1>5, <2>2, SameSiblings
<1>9. Chosen' /\ OthersOff'
  BY <1>1, <1>4, <1>7 DEF Chosen, OthersOff
<1>10. AlarmSoFar'
  BY <1>1, <1>2, <1>8 DEF AlarmSoFar
<1>11. VerdictSoFar'
  BY <1>1 DEF VerdictSoFar
<1> QED
  BY <1>1, <1>2, <1>9, <1>10, <1>11 DEF Inv, Reported, VerifiedIsWired, AlarmIsReal

LEMMA GiveUpKeeps ==
  ASSUME Inv, GiveUp, UNCHANGED vars
  PROVE  Inv'
BY DEF GiveUp, Inv, Chosen, OthersOff, VerdictSoFar, AlarmSoFar, Reported,
       VerifiedIsWired, AlarmIsReal

\* What a step of the verification leaves alone.
LEMMA SameCabling ==
  ASSUME UNCHANGED cabling, UNCHANGED vars
  PROVE  /\ feeds' = feeds /\ host' = host /\ meter' = meter /\ energy' = energy
         /\ Workers' = Workers /\ Outlets' = Outlets /\ outcome' = outcome
         /\ Fed(feeds)' = Fed(feeds) /\ \A k \in Workers : Siblings(k)' = Siblings(k)
BY SameSiblings DEF cabling, vars, Workers, Outlets, Fed

\* The outlet of a worker switches a machine that is fed, or nothing.
LEMMA OutletFeeds ==
  ASSUME NEW k \in Workers, feeds \in Outlets
  PROVE  /\ feeds[k] \in Fed(feeds) \cup {Nothing}
         /\ feeds[k] \in Machine \cup {Nothing}
         /\ \A m \in Workers : feeds[k] = feeds[m] /\ feeds[k] # Nothing => k = m
BY DEF Outlets, Fed

\* A setRelay whose read is not stale switches the outlet of its worker and no
\* other.
LEMMA OwnOutlet ==
  ASSUME NEW k \in Workers, feeds \in Outlets, NEW lit \in SUBSET Machine
  PROVE  /\ SetRelay(lit, k, TRUE, lit) = lit \cup ({feeds[k]} \cap Machine)
         /\ SetRelay(lit, k, FALSE, lit) = lit \ {feeds[k]}
<1>1. Behind({k}) = {feeds[k]} \cap Machine
  BY DEF Behind
<1>2. Behind(Siblings(k) \cup {k}) = Behind(Siblings(k)) \cup Behind({k})
  BY DEF Behind
<1>3. Behind(Siblings(k)) \cap Behind({k}) = {}
  BY OutletFeeds, WiringAssumption DEF Behind, Siblings
<1> QED
  BY <1>1, <1>2, <1>3 DEF SetRelay

\* The power-on and the power-off of a worker.
LEMMA OnAndOff ==
  ASSUME NEW k \in Workers, NEW off \in BOOLEAN, feeds \in Outlets, on \subseteq Machine
  PROVE  /\ Lit(k) = on \cup ({feeds[k]} \cap Machine)
         /\ AfterOff(k, off) = IF off THEN Lit(k) \ {feeds[k]} ELSE Lit(k)
<1>1. Lit(k) = on \cup ({feeds[k]} \cap Machine)
  BY OwnOutlet DEF Lit
<1>2. SetRelay(Lit(k), k, FALSE, Lit(k)) = Lit(k) \ {feeds[k]}
  <2>1. Lit(k) \in SUBSET Machine
    BY <1>1
  <2> QED
    BY <2>1, OwnOutlet
<1> QED
  BY <1>1, <1>2 DEF AfterOff

LEMMA VerifyKeeps ==
  ASSUME Inv, UNCHANGED vars,
         NEW k \in Workers, NEW booted \in BOOLEAN, NEW off \in BOOLEAN,
         NEW saw \in Sightings, VerifyWorker(k, booted, off, saw)
  PROVE  Inv'
<1>0. UNCHANGED cabling /\ stage = "verifying" /\ stage' = "verifying" /\ todo' = todo \ {k}
  BY DEF VerifyWorker
<1>1. /\ feeds' = feeds /\ host' = host /\ meter' = meter /\ energy' = energy
      /\ Workers' = Workers /\ Outlets' = Outlets /\ outcome' = outcome
      /\ Fed(feeds)' = Fed(feeds)
  BY <1>0, SameCabling
<1>2. /\ feeds \in Outlets /\ host \in [Workers -> Machine] /\ on \subseteq Machine
      /\ on \cap Fed(feeds) \subseteq stuck /\ stuck \subseteq Fed(feeds)
      /\ outcome = "accepted" /\ todo \subseteq Workers
  BY <1>0 DEF Inv, Chosen, OthersOff
<1>3. /\ feeds[k] \in Fed(feeds) \cup {Nothing}
      /\ feeds[k] \in Machine \cup {Nothing}
      /\ \A m \in Workers : feeds[k] = feeds[m] /\ feeds[k] # Nothing => k = m
  BY <1>2, OutletFeeds
<1>4. /\ Lit(k) = on \cup ({feeds[k]} \cap Machine)
      /\ on' = IF off THEN Lit(k) \ {feeds[k]} ELSE Lit(k)
      /\ stuck' = IF off THEN stuck ELSE stuck \cup ({feeds[k]} \cap Machine)
  <2>1. /\ Lit(k) = on \cup ({feeds[k]} \cap Machine)
        /\ AfterOff(k, off) = IF off THEN Lit(k) \ {feeds[k]} ELSE Lit(k)
    BY <1>2, OnAndOff
  <2>2. /\ on' = AfterOff(k, off)
        /\ stuck' = IF off THEN stuck ELSE stuck \cup Behind({k})
    BY DEF VerifyWorker
  <2> QED
    BY <2>1, <2>2 DEF Behind
<1>5. Chosen'
  BY <1>0, <1>1, <1>2, <1>4 DEF Chosen
<1>6. OthersOff'
  <2>1. stuck' \subseteq Fed(feeds)
    BY <1>2, <1>3, <1>4, WiringAssumption
  <2>2. on' \cap Fed(feeds) \subseteq stuck'
    BY <1>2, <1>3, <1>4
  <2> QED
    BY <2>1, <2>2, <1>1 DEF OthersOff
<1>7. on' \ Fed(feeds) = on \ Fed(feeds)
  BY <1>2, <1>3, <1>4, WiringAssumption
<1>8. VerdictSoFar'
  <2> SUFFICES ASSUME ~problem', NEW j \in Workers \ (todo \ {k})
               PROVE  Shown(j)'
    BY <1>0, <1>1 DEF VerdictSoFar
  <2>1. ~problem /\ (host[k] \in on \cup Lit(k)) /\ (energy => saw = {k})
    BY DEF VerifyWorker, Answers
  <2>2. CASE j # k
    <3>1. Shown(j)
      BY <1>0, <2>1, <2>2 DEF Inv, VerdictSoFar
    <3> QED
      BY <3>1, <1>1, <1>4, <1>7 DEF Shown, Standing
  <2>3. CASE j = k
    <3>1. host[k] \in Machine
      BY <1>2
    <3>2. host[k] \in {feeds[k]} \cup Standing
      BY <2>1, <1>2, <1>4 DEF Standing
    <3>3. energy => meter[k] \in Lit(k)
      BY <2>1 DEF VerifyWorker, Rising
    <3>4. energy => meter[k] \in {feeds[k]} \cup Standing
      BY <3>3, <1>2, <1>4 DEF Standing
    <3> QED
      BY <3>2, <3>4, <2>3, <1>1, <1>4, <1>7 DEF Shown, Standing
  <2> QED
    BY <2>2, <2>3
<1>9. AlarmSoFar'
  <2> SUFFICES ASSUME ~failed'
               PROVE  /\ \A j \in Workers : feeds[j] \in stuck' => Siblings(j) # {}
                      /\ problem' => \E j \in Workers : ~Wired(j)' \/ feeds[j] \in stuck'
    BY <1>0, <1>1, SameCabling DEF AlarmSoFar
  <2>1. ~failed /\ booted /\ off /\ ~Misled(saw) /\ ~Missed(k, saw)
    BY DEF VerifyWorker
  <2>2. /\ \A j \in Workers : feeds[j] \in stuck => Siblings(j) # {}
        /\ problem => \E j \in Workers : ~Wired(j) \/ feeds[j] \in stuck
    BY <1>0, <2>1 DEF Inv, AlarmSoFar
  <2>3. \A j \in Workers : Wired(j)' <=> Wired(j)
    BY <1>1 DEF Wired
  <2>4. stuck' = stuck
    BY <2>1, <1>4
  <2>5. ASSUME \A j \in Workers : Wired(j) /\ feeds[j] \notin stuck
        PROVE  host[k] \in on \cup Lit(k) /\ (energy => saw = {k})
    <3>0. stuck = {}
      BY <2>5, <1>2 DEF Fed, Outlets
    <3>1. host[k] = feeds[k] /\ host[k] \in Machine /\ feeds[k] # Nothing
      BY <2>5, <1>2, WiringAssumption DEF Wired
    <3>2. feeds[k] \in Lit(k) \ on /\ Lit(k) \ on = {feeds[k]}
      BY <3>0, <3>1, <1>2, <1>3, <1>4
    <3>3. ASSUME energy
          PROVE  saw = {k}
      <4>1. meter[k] \in Lit(k) \ on
        BY <3>2, <3>3, <2>5 DEF Wired
      <4>2. PICK j \in Workers : saw = {j}
        BY <4>1, <2>1 DEF Sightings, Missed
      <4>3. meter[j] = feeds[k]
        <5>1. meter[j] \in Lit(k) \ on
          BY <4>2, <2>1 DEF VerifyWorker, Rising, Misled
        <5> QED
          BY <5>1, <3>2
      <4>4. meter[j] = feeds[j]
        BY <3>3, <2>5 DEF Wired
      <4> QED
        BY <4>2, <4>3, <4>4, <3>1, <1>3
    <3> QED
      BY <3>1, <3>2, <3>3
  <2>6. problem' => problem \/ ~(host[k] \in on \cup Lit(k)) \/ (energy /\ saw # {k})
    BY <2>1 DEF VerifyWorker, Answers
  <2>7. problem' => \E j \in Workers : ~Wired(j) \/ feeds[j] \in stuck
    BY <2>2, <2>5, <2>6
  <2> QED
    BY <2>2, <2>3, <2>4, <2>7
<1>10. Reported' /\ VerifiedIsWired' /\ AlarmIsReal'
  BY <1>0 DEF Reported, VerifiedIsWired, AlarmIsReal
<1> QED
  BY <1>0, <1>5, <1>6, <1>8, <1>9, <1>10 DEF Inv

LEMMA PowerOnFailsKeeps ==
  ASSUME Inv, UNCHANGED vars, NEW k \in Workers, PowerOnFails(k)
  PROVE  Inv'
<1>0. /\ UNCHANGED cabling /\ stage = "verifying" /\ stage' = "verifying"
      /\ todo' = todo \ {k} /\ problem' /\ failed'
  BY DEF PowerOnFails
<1>1. /\ feeds' = feeds /\ host' = host /\ Workers' = Workers /\ Outlets' = Outlets
      /\ outcome' = outcome /\ Fed(feeds)' = Fed(feeds)
  BY <1>0, SameCabling
<1>2. /\ feeds \in Outlets /\ on \subseteq Machine /\ host \in [Workers -> Machine]
      /\ on \cap Fed(feeds) \subseteq stuck /\ stuck \subseteq Fed(feeds)
      /\ outcome = "accepted" /\ todo \subseteq Workers
      /\ feeds[k] \in Fed(feeds) \cup {Nothing}
  BY <1>0, OutletFeeds DEF Inv, Chosen, OthersOff
<1>3. \/ on' = on /\ stuck' = stuck
      \/ /\ on' = on \cup ({feeds[k]} \cap Machine)
         /\ stuck' = stuck \cup ({feeds[k]} \cap Machine)
  BY <1>2, OnAndOff DEF PowerOnFails, Behind
<1>4. Chosen' /\ OthersOff'
  BY <1>0, <1>1, <1>2, <1>3, WiringAssumption DEF Chosen, OthersOff
<1> QED
  BY <1>0, <1>4 DEF Inv, VerdictSoFar, AlarmSoFar, Reported, VerifiedIsWired, AlarmIsReal

LEMMA ReportKeeps ==
  ASSUME Inv, Report, UNCHANGED vars
  PROVE  Inv'
<1>0. /\ UNCHANGED cabling /\ stage = "verifying" /\ todo = {}
      /\ UNCHANGED <<problem, stuck, failed>>
      /\ stage' = IF problem THEN "mismatched" ELSE "verified"
  BY DEF Report
<1>1. /\ feeds' = feeds /\ host' = host /\ meter' = meter /\ energy' = energy
      /\ Workers' = Workers /\ outcome' = outcome /\ Fed(feeds)' = Fed(feeds)
  BY <1>0, SameCabling
<1>2. on' \ Fed(feeds) = on \ Fed(feeds)
  BY DEF Report, SwitchedOff
<1>3. ~problem => \A k \in Workers : Shown(k)
  BY <1>0 DEF Inv, VerdictSoFar
<1>4. VerifiedIsWired'
  BY <1>0, <1>1, <1>2, <1>3 DEF VerifiedIsWired, Shown, Standing
<1>5. AlarmIsReal'
  <2> SUFFICES ASSUME problem, ~failed
               PROVE  \E k \in Workers : ~Wired(k)' \/ (feeds[k] \in stuck /\ Siblings(k) # {})
    BY <1>0, <1>1, SameCabling DEF AlarmIsReal
  <2>1. PICK k \in Workers : ~Wired(k) \/ (feeds[k] \in stuck /\ Siblings(k) # {})
    BY <1>0 DEF Inv, AlarmSoFar
  <2>2. Wired(k)' <=> Wired(k)
    BY <1>1 DEF Wired
  <2> QED
    BY <2>1, <2>2
<1>6. Reported'
  BY <1>0, <1>1 DEF Reported, Inv, Chosen
<1> QED
  BY <1>0, <1>4, <1>5, <1>6 DEF Inv, Chosen, OthersOff, VerdictSoFar, AlarmSoFar

LEMMA WiringStutters ==
  ASSUME Inv, UNCHANGED <<vars, wiringVars>>
  PROVE  Inv'
BY DEF Inv, vars, wiringVars, cabling, progress, Chosen, OthersOff, VerdictSoFar, Shown, Standing,
       AlarmSoFar, Reported, VerifiedIsWired, AlarmIsReal, Wired, Fed, Outlets, Workers, Siblings

LEMMA WiringKeeps ==
  ASSUME Inv, [WiringNext]_<<vars, wiringVars>>
  PROVE  Inv'
<1>1. CASE Next /\ UNCHANGED wiringVars
  BY <1>1, LoadKeeps
<1>2. CASE PowerAllOff /\ UNCHANGED vars
  BY <1>2, AllOffKeeps
<1>3. CASE GiveUp /\ UNCHANGED vars
  BY <1>3, GiveUpKeeps
<1>4. CASE Verify /\ UNCHANGED vars
  BY <1>4, VerifyKeeps, PowerOnFailsKeeps DEF Verify
<1>5. CASE Report /\ UNCHANGED vars
  BY <1>5, ReportKeeps
<1>6. CASE UNCHANGED <<vars, wiringVars>>
  BY <1>6, WiringStutters
<1> QED
  BY <1>1, <1>2, <1>3, <1>4, <1>5, <1>6 DEF WiringNext

\* "All mappings verified" is true of every worker, with the exceptions
\* VerifiedIsWired names, for any number of nodes (report, main).
THEOREM VerdictSound == WiringSpec => []VerifiedIsWired
<1>1. Inv => VerifiedIsWired
  BY DEF Inv
<1> QED
  BY WiringStart, WiringKeeps, <1>1, PTL DEF WiringSpec

\* Without a fault, a mismatch that is reported is one, or a relay with two
\* workers has switched one on again.
THEOREM AlarmSound == WiringSpec => []AlarmIsReal
<1>1. Inv => AlarmIsReal
  BY DEF Inv
<1> QED
  BY WiringStart, WiringKeeps, <1>1, PTL DEF WiringSpec

(***************************************************************************)
(* ValidateNodes.  While the loop runs, the maps hold what the nodes seen   *)
(* so far have, those nodes satisfy every condition on a single node and on *)
(* pairs, and the counter tells no local node, one and several apart.       *)
(***************************************************************************)
Locals == {k \in DOMAIN nodes : nodes[k].local}

LoopInv ==
  /\ nodes \in Seq(LocalEntry \cup WorkerEntry)
  /\ locals \in Nat
  /\ outcome = "checking" =>
       /\ seenID = {nodes[k].id : k \in DOMAIN nodes}
       /\ \A k \in DOMAIN nodes : nodes[k].id # NoID
       /\ \A k, m \in DOMAIN nodes : nodes[k].id = nodes[m].id => k = m
       /\ seenChannel = {RelayChannel(nodes[k]) : k \in Workers}
       /\ \A k \in Workers : nodes[k].addressed /\ nodes[k].channel \in Channel
       /\ \A k, m \in Workers : RelayChannel(nodes[k]) = RelayChannel(nodes[m]) => k = m
       /\ locals = 0 <=> Locals = {}
       /\ locals = 1 <=> \E k \in DOMAIN nodes : Locals = {k}
  /\ AcceptsExactlyValid

\* The two forms of "same outlet".
LEMMA SameChannel ==
  ASSUME NEW n, NEW m
  PROVE  RelayChannel(n) = RelayChannel(m) <=> n.relayUID = m.relayUID /\ n.channel = m.channel
BY DEF RelayChannel

\* The nodes after one more has been looked at.
LEMMA Longer ==
  ASSUME nodes \in Seq(LocalEntry \cup WorkerEntry),
         NEW n \in LocalEntry \cup WorkerEntry, nodes' = Append(nodes, n)
  PROVE  /\ nodes' \in Seq(LocalEntry \cup WorkerEntry)
         /\ DOMAIN nodes' = DOMAIN nodes \cup {Len(nodes) + 1}
         /\ Len(nodes) + 1 \notin DOMAIN nodes
         /\ \A k \in DOMAIN nodes : nodes'[k] = nodes[k]
         /\ nodes'[Len(nodes) + 1] = n
OBVIOUS

LEMMA Kinds ==
  /\ \A n \in LocalEntry : n.local = TRUE
  /\ \A n \in WorkerEntry : n.local = FALSE
BY DEF LocalEntry, WorkerEntry

LEMMA LoopStart == Init => LoopInv
BY DEF Init, LoopInv, Workers, Locals, AcceptsExactlyValid

LEMMA KeepLocalKeeps ==
  ASSUME LoopInv, NEW n \in LocalEntry, KeepLocal(n)
  PROVE  LoopInv'
<1> DEFINE e == Len(nodes) + 1
<1>1. /\ outcome = "checking" /\ outcome' = "checking" /\ nodes' = Append(nodes, n)
      /\ n.id # NoID /\ n.id \notin seenID /\ seenID' = seenID \cup {n.id}
      /\ seenChannel' = seenChannel /\ locals' = locals + 1
  BY DEF KeepLocal, Look, NewID
<1>2. /\ nodes' \in Seq(LocalEntry \cup WorkerEntry)
      /\ DOMAIN nodes' = DOMAIN nodes \cup {e} /\ e \notin DOMAIN nodes
      /\ \A k \in DOMAIN nodes : nodes'[k] = nodes[k]
      /\ nodes'[e] = n
  BY <1>1, Longer DEF LoopInv
<1>3. Workers' = Workers /\ Locals' = Locals \cup {e} /\ Workers \subseteq DOMAIN nodes
  BY <1>2, Kinds DEF Workers, Locals
<1>4. \A k \in Workers : nodes'[k] = nodes[k]
  BY <1>2, <1>3
<1>5. /\ seenID' = {nodes'[k].id : k \in DOMAIN nodes'}
      /\ \A k \in DOMAIN nodes' : nodes'[k].id # NoID
      /\ \A k, m \in DOMAIN nodes' : nodes'[k].id = nodes'[m].id => k = m
  BY <1>1, <1>2 DEF LoopInv
<1>6. /\ seenChannel' = {RelayChannel(nodes'[k]) : k \in Workers'}
      /\ \A k \in Workers' : nodes'[k].addressed /\ nodes'[k].channel \in Channel
      /\ \A k, m \in Workers' : RelayChannel(nodes'[k]) = RelayChannel(nodes'[m]) => k = m
  BY <1>1, <1>3, <1>4 DEF LoopInv
<1>7. /\ locals' \in Nat
      /\ locals' = 0 <=> Locals' = {}
      /\ locals' = 1 <=> \E k \in DOMAIN nodes' : Locals' = {k}
  <2>1. locals \in Nat /\ (locals = 0 <=> Locals = {}) /\ Locals \subseteq DOMAIN nodes
    BY <1>1 DEF LoopInv, Locals
  <2>2. (\E k \in DOMAIN nodes' : Locals' = {k}) <=> Locals = {}
    BY <2>1, <1>2, <1>3
  <2> QED
    BY <2>1, <2>2, <1>1, <1>3
<1>8. AcceptsExactlyValid'
  BY <1>1 DEF AcceptsExactlyValid
<1> QED
  BY <1>1, <1>2, <1>5, <1>6, <1>7, <1>8 DEF LoopInv, RelayChannel

LEMMA KeepWorkerKeeps ==
  ASSUME LoopInv, NEW n \in WorkerEntry, KeepWorker(n)
  PROVE  LoopInv'
<1> DEFINE e == Len(nodes) + 1
<1>1. /\ outcome = "checking" /\ outcome' = "checking" /\ nodes' = Append(nodes, n)
      /\ n.id # NoID /\ n.id \notin seenID /\ seenID' = seenID \cup {n.id}
      /\ n.addressed /\ n.channel \in Channel /\ RelayChannel(n) \notin seenChannel
      /\ seenChannel' = seenChannel \cup {RelayChannel(n)} /\ locals' = locals
  BY DEF KeepWorker, Look, NewID, Switchable
<1>2. /\ nodes' \in Seq(LocalEntry \cup WorkerEntry)
      /\ DOMAIN nodes' = DOMAIN nodes \cup {e} /\ e \notin DOMAIN nodes
      /\ \A k \in DOMAIN nodes : nodes'[k] = nodes[k]
      /\ nodes'[e] = n
  BY <1>1, Longer DEF LoopInv
<1>3. Workers' = Workers \cup {e} /\ Locals' = Locals /\ Workers \subseteq DOMAIN nodes
  BY <1>2, Kinds DEF Workers, Locals
<1>4. \A k \in Workers : nodes'[k] = nodes[k]
  BY <1>2, <1>3
<1>5. /\ seenID' = {nodes'[k].id : k \in DOMAIN nodes'}
      /\ \A k \in DOMAIN nodes' : nodes'[k].id # NoID
      /\ \A k, m \in DOMAIN nodes' : nodes'[k].id = nodes'[m].id => k = m
  BY <1>1, <1>2 DEF LoopInv
<1>6. /\ seenChannel' = {RelayChannel(nodes'[k]) : k \in Workers'}
      /\ \A k \in Workers' : nodes'[k].addressed /\ nodes'[k].channel \in Channel
      /\ \A k, m \in Workers' : RelayChannel(nodes'[k]) = RelayChannel(nodes'[m]) => k = m
  BY <1>1, <1>2, <1>3, <1>4 DEF LoopInv
<1>7. /\ locals' \in Nat
      /\ locals' = 0 <=> Locals' = {}
      /\ locals' = 1 <=> \E k \in DOMAIN nodes' : Locals' = {k}
  <2>1. /\ locals \in Nat /\ (locals = 0 <=> Locals = {}) /\ Locals \subseteq DOMAIN nodes
        /\ locals = 1 <=> \E k \in DOMAIN nodes : Locals = {k}
    BY <1>1 DEF LoopInv, Locals
  <2>2. (\E k \in DOMAIN nodes' : Locals = {k}) <=> (\E k \in DOMAIN nodes : Locals = {k})
    BY <2>1, <1>2
  <2> QED
    BY <2>1, <2>2, <1>1, <1>3
<1>8. AcceptsExactlyValid'
  BY <1>1 DEF AcceptsExactlyValid
<1> QED
  BY <1>1, <1>2, <1>5, <1>6, <1>7, <1>8 DEF LoopInv, RelayChannel

\* A rejected node breaks a condition alone or with a node seen before it.
LEMMA RejectKeeps ==
  ASSUME LoopInv, NEW n \in LocalEntry \cup WorkerEntry, RejectNode(n)
  PROVE  LoopInv'
<1> DEFINE e == Len(nodes) + 1
<1>1. /\ outcome = "checking" /\ outcome' = "rejected" /\ nodes' = Append(nodes, n)
      /\ locals' = locals
      /\ ~NewID(n) \/ (~n.local /\ ~Switchable(n))
  BY DEF RejectNode, Look
<1>2. /\ nodes' \in Seq(LocalEntry \cup WorkerEntry)
      /\ DOMAIN nodes' = DOMAIN nodes \cup {e} /\ e \notin DOMAIN nodes
      /\ \A k \in DOMAIN nodes : nodes'[k] = nodes[k]
      /\ nodes'[e] = n
  BY <1>1, Longer DEF LoopInv
<1>3. CASE ~NewID(n)
  <2>1. ASSUME n.id = NoID PROVE ~Valid'
    BY <1>2, <2>1 DEF Valid
  <2>2. ASSUME n.id \in seenID PROVE ~Valid'
    <3>1. PICK k \in DOMAIN nodes : nodes[k].id = n.id
      BY <1>1, <2>2 DEF LoopInv
    <3>2. k \in DOMAIN nodes' /\ e \in DOMAIN nodes' /\ k # e /\ nodes'[k].id = nodes'[e].id
      BY <1>2, <3>1
    <3> QED
      BY <3>2 DEF Valid
  <2>3. ~Valid'
    BY <1>3, <2>1, <2>2 DEF NewID
  <2> QED
    BY <2>3, <1>1, <1>2 DEF LoopInv, AcceptsExactlyValid
<1>4. CASE ~n.local /\ ~Switchable(n)
  <2>0. e \in Workers'
    BY <1>2, <1>4 DEF Workers
  <2>1. ASSUME ~(n.addressed /\ n.channel \in Channel) PROVE ~Valid'
    BY <1>2, <2>0, <2>1 DEF Valid
  <2>2. ASSUME RelayChannel(n) \in seenChannel PROVE ~Valid'
    <3>1. PICK k \in Workers : RelayChannel(nodes[k]) = RelayChannel(n)
      BY <1>1, <2>2 DEF LoopInv
    <3>2. k \in Workers' /\ k # e /\ nodes'[k] = nodes[k]
      BY <1>2 DEF Workers
    <3>3. /\ nodes'[k].relayUID = nodes'[e].relayUID
          /\ nodes'[k].channel = nodes'[e].channel
      BY <3>1, <3>2, <1>2, SameChannel
    <3> QED
      BY <2>0, <3>2, <3>3 DEF Valid
  <2>3. ~Valid'
    BY <1>4, <2>1, <2>2 DEF Switchable
  <2> QED
    BY <2>3, <1>1, <1>2 DEF LoopInv, AcceptsExactlyValid
<1> QED
  BY <1>1, <1>3, <1>4

LEMMA FinishKeeps ==
  ASSUME LoopInv, Finish
  PROVE  LoopInv'
<1>1. /\ outcome = "checking" /\ nodes' = nodes /\ locals' = locals
      /\ outcome' \in {"accepted", "rejected"}
      /\ outcome' = "accepted" <=>
           locals = 1 /\ \E k \in DOMAIN nodes : ~nodes[k].dispatchOnly
  BY DEF Finish
<1>2. (\E k \in DOMAIN nodes : Locals = {k}) <=>
        \E k \in DOMAIN nodes : Workers = DOMAIN nodes \ {k} /\ nodes[k].local
  BY DEF Locals, Workers
<1>3. Valid <=> /\ \E k \in DOMAIN nodes : Locals = {k}
                /\ \E k \in DOMAIN nodes : ~nodes[k].dispatchOnly
  BY <1>1, <1>2, SameChannel DEF LoopInv, Valid, Workers
<1>4. Valid' <=> Valid
  BY <1>1 DEF Valid, Workers
<1>5. AcceptsExactlyValid'
  BY <1>1, <1>3, <1>4 DEF LoopInv, AcceptsExactlyValid
<1> QED
  BY <1>1, <1>5 DEF LoopInv

LEMMA LoopKeeps ==
  ASSUME LoopInv, [Next]_vars
  PROVE  LoopInv'
<1>1. CASE UNCHANGED vars
  BY <1>1 DEF vars, LoopInv, AcceptsExactlyValid, Valid, Workers, Locals
<1>2. CASE Next
  BY <1>2, KeepLocalKeeps, KeepWorkerKeeps, RejectKeeps, FinishKeeps DEF Next
<1> QED
  BY <1>1, <1>2

\* ValidateNodes accepts the valid topologies and no others, for lists of any
\* length and any names and relays; loading the list is the first part of
\* what verify-wiring does.
THEOREM ValidationExact == WiringSpec => []AcceptsExactlyValid
<1>1. WiringInit => LoopInv
  BY LoopStart DEF WiringInit
<1>2. [WiringNext]_<<vars, wiringVars>> => [Next]_vars
  BY DEF WiringNext
<1>3. LoopInv /\ [WiringNext]_<<vars, wiringVars>> => LoopInv'
  BY <1>2, LoopKeeps
<1>4. LoopInv => AcceptsExactlyValid
  BY DEF LoopInv
<1> QED
  BY <1>1, <1>3, <1>4, PTL DEF WiringSpec
===============================================================================
