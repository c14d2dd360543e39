------------------------------ MODULE WiringCheck ------------------------------
(***************************************************************************)
(* cmd/verify-wiring: the tool run before an experiment.  It loads the      *)
(* nodes (module Topology), powers every worker off, then powers each on    *)
(* alone and looks which address answers and which energy bricklet rises.   *)
(*                                                                          *)
(* How the machines are really cabled is chosen when the tool starts and    *)
(* never changes.  A worker is its position in nodes.  The workers are      *)
(* visited in any order (the code sorts them by ID).  A bricklet of a       *)
(* machine that is no worker's is left out: when it rises most, the verdict *)
(* is a mismatch, as when a reading fails and none rises (Missed).          *)
(*                                                                          *)
(* setRelay reads both channels of the relay and writes both, so it writes  *)
(* the other channel as it has read it.  What it reads may be from before   *)
(* the write just made to that relay (the comment in tinkerforgefunc says   *)
(* so), unless the tool has paused since: settleAfterOff or a poll.  The    *)
(* loops over all workers do not pause.                                     *)
(***************************************************************************)
EXTENDS Topology

CONSTANTS
  Machine,             \* the computers of the laboratory
  Nothing              \* what an unused outlet feeds, or an unused bricklet measures

ASSUME WiringAssumption == Nothing \notin Machine

VARIABLES
  stage,     \* "loading", "verifying", "verified", "mismatched", "fatal"
  energy,    \* whether the energy bricklets are checked
  feeds,     \* the machine behind each worker's relay and channel
  host,      \* the machine that has each worker's manager_address
  meter,     \* the machine measured by each worker's bricklet
  on,        \* the machines that have power
  todo,      \* the workers still to verify
  problem,   \* the verdict about some worker is not ok
  stuck,     \* the machines behind outlets that are or were on unknown to the tool
  failed     \* a relay, a reading or a boot has failed

cabling == <<energy, feeds, host, meter>>
progress == <<stage, on, todo, problem, stuck, failed>>
wiringVars == <<cabling, progress>>

Unwired == [k \in {} |-> Nothing]

WiringInit ==
  /\ Init
  /\ stage = "loading" /\ energy = FALSE
  /\ feeds = Unwired /\ host = Unwired /\ meter = Unwired
  /\ on = {} /\ todo = {} /\ stuck = {}
  /\ problem = FALSE /\ failed = FALSE

\* The machines the outlets of workers switch.  An outlet feeds one machine.
Fed(f) == {f[k] : k \in DOMAIN f} \ {Nothing}

Outlets ==
  {f \in [Workers -> Machine \cup {Nothing}] :
     \A k, m \in Workers : f[k] = f[m] /\ f[k] # Nothing => k = m}

\* The workers on the other channel of the relay of k.
Siblings(k) == {m \in Workers \ {k} : nodes[m].relayUID = nodes[k].relayUID}

\* The workers a loop may take back: the one of two siblings it visits later
\* reads the other as it was before its turn.
TakenBack == {back \in SUBSET Workers : \A k \in back : Siblings(k) \ back # {}}

\* Mutant: the machines that were on stay on.
AsFound(lit, f, back) == lit

\* What is on after a loop has switched the outlets of f off, the workers in back
\* being switched on again if they were on.
SwitchedOff(lit, f, back) == (lit \ Fed(f)) \cup (lit \cap {f[k] : k \in back})

\* The nodes are valid and every call to switch an outlet off has succeeded.
\* setRelay does not resolve an empty relay UID: a worker without one is fatal.
PowerAllOff ==
  /\ outcome = "accepted" /\ stage = "loading"
  /\ \A k \in Workers : nodes[k].relayUID # NoUID
  /\ energy' \in BOOLEAN
  /\ feeds' \in Outlets
  /\ host' \in [Workers -> Machine]
  /\ meter' \in [Workers -> IF energy' THEN Machine \cup {Nothing} ELSE {Nothing}]
  /\ \E lit \in SUBSET Machine, back \in TakenBack :
       /\ on' = SwitchedOff(lit, feeds', back)
       /\ stuck' = lit \cap {feeds'[k] : k \in back}
  /\ stage' = "verifying" /\ todo' = Workers
  /\ UNCHANGED <<problem, failed>>

\* The list is rejected, or an outlet cannot be switched off: log.Fatalf.
GiveUp ==
  /\ outcome # "checking" /\ stage = "loading"
  /\ stage' = "fatal"
  /\ UNCHANGED <<cabling, on, todo, problem, stuck, failed>>

\* The machines behind the outlets of the workers in S.
Behind(S) == {feeds[k] : k \in S} \cap Machine

\* setRelay: the channel of k is written as asked, the other as read.
SetRelay(lit, k, up, read) ==
  (lit \ Behind(Siblings(k) \cup {k})) \cup (read \cap Behind(Siblings(k)))
    \cup (IF up THEN Behind({k}) ELSE {})

\* What has power once the outlet of k is on.  The tool has paused.
Lit(k) == SetRelay(on, k, TRUE, on)

\* The bricklets that may read more than in the baseline.
Rising(k) == {j \in Workers : meter[j] \in Lit(k)}

\* A bricklet that has risen for a machine that was on before: the machine got
\* busier, or the bricklet gave no baseline, which counts as zero.
Misled(saw) == \E j \in saw : meter[j] \in on

\* The bricklet of the machine just powered on has not risen most.
Missed(k, saw) == saw = {} /\ \E j \in Workers : meter[j] \in Lit(k) \ on

\* Something answers at the address of k: it has been on, or has booted now.
Answers(k, booted) == host[k] \in on \cup (IF booted THEN Lit(k) ELSE {})

\* Mutant: the next worker is powered on beside this one.
KeepOn(k, off) == Lit(k)

\* What has power after the power-off of k, whose error is ignored.  The tool has
\* polled since the power-on.
AfterOff(k, off) == IF off THEN SetRelay(Lit(k), k, FALSE, Lit(k)) ELSE Lit(k)

\* verifyWorker(k): saw holds the bricklet that rose most (it is empty when none
\* did or none could be read).
VerifyWorker(k, booted, off, saw) ==
  /\ stage = "verifying" /\ k \in todo
  /\ saw \subseteq Rising(k)
  /\ todo' = todo \ {k}
  /\ problem' = (problem \/ ~Answers(k, booted) \/ (energy /\ saw # {k}))
  /\ on' = AfterOff(k, off)
  /\ stuck' = IF off THEN stuck ELSE stuck \cup Behind({k})
  /\ failed' = (failed \/ ~booted \/ ~off \/ Misled(saw) \/ Missed(k, saw))
  /\ UNCHANGED <<cabling, stage>>

\* setRelay fails, before or after the bricklet has switched: verifyWorker
\* returns at once and powers nothing off.  That the call for its sibling follows
\* without a pause and takes the switch back is as if it had not switched.
PowerOnFails(k) ==
  /\ stage = "verifying" /\ k \in todo
  /\ todo' = todo \ {k} /\ problem' = TRUE
  /\ \/ UNCHANGED <<on, stuck>>
     \/ on' = Lit(k) /\ stuck' = stuck \cup Behind({k})
  /\ failed' = TRUE
  /\ UNCHANGED <<cabling, stage>>

\* Every outlet is switched off again, with errors ignored and machines taken
\* back, and the report decides.
Report ==
  /\ stage = "verifying" /\ todo = {}
  /\ \E left \in SUBSET (on \cap Fed(feeds)) : on' = SwitchedOff(on, feeds, {}) \cup left
  /\ stage' = IF problem THEN "mismatched" ELSE "verified"
  /\ UNCHANGED <<cabling, todo, problem, stuck, failed>>

\* One bricklet, or none.
Sightings == {{}} \cup {{j} : j \in Workers}

Verify ==
  \E k \in Workers :
    \/ \E booted, off \in BOOLEAN, saw \in Sightings : VerifyWorker(k, booted, off, saw)
    \/ PowerOnFails(k)

WiringNext ==
  \/ Next /\ UNCHANGED wiringVars
  \/ (PowerAllOff \/ GiveUp \/ Verify \/ Report) /\ UNCHANGED vars

WiringSpec == WiringInit /\ [][WiringNext]_<<vars, wiringVars>>

-------------------------------------------------------------------------------
\* The three mappings agree for worker k.
Wired(k) == host[k] = feeds[k] /\ (energy => meter[k] = feeds[k])

\* The machines the tool takes to be off and that are, or were, not: one no
\* outlet of a worker switches, one an ignored relay error has left on, and one
\* that a stale read-back has switched on again.
Standing == (on \ Fed(feeds)) \cup stuck

\* "All mappings verified" (report) is true, but for what the tool cannot see:
\* it never asks whether an address was silent or a bricklet read, so a machine
\* that is on anyway can answer for the one powered on, or rise in its place.
VerifiedIsWired ==
  stage = "verified" =>
    \A k \in Workers :
      /\ host[k] \in {feeds[k]} \cup Standing
      /\ energy => meter[k] \in {feeds[k]} \cup Standing

\* Without a failing relay, reading or boot, a reported mismatch is one, or two
\* workers share a relay and one of their machines was taken back: powering off
\* first, and each worker alone, hides no other rise.
AlarmIsReal ==
  stage = "mismatched" /\ ~failed =>
    \E k \in Workers : ~Wired(k) \/ (feeds[k] \in stuck /\ Siblings(k) # {})
===============================================================================
