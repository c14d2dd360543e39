---------------------------- MODULE PickNodeProofs ----------------------------
(***************************************************************************)
(* PickNode returns the first node the scheduler may choose, for slices of  *)
(* any length, any loads and any threshold.                                 *)
(***************************************************************************)
EXTENDS PickNode, TLAPS

\* The candidates among the positions the loop has passed, by kind.
Passed == {k \in Candidates : k < i}
PassedSpare == {k \in Passed : nodes[k].status = "active" /\ nodes[k].load < LoadThreshold}
PassedSaturated ==
  {k \in Passed : nodes[k].status = "active" /\ nodes[k].load >= LoadThreshold}
PassedIn(s) == {k \in Passed : nodes[k].status = s}

\* k is the first of the least loaded positions of S, or nil.
IsFirstLeast(k, S) ==
  \/ S = {} /\ k = 0
  \/ /\ k \in S
     /\ \A m \in S : \/ nodes[k].load < nodes[m].load
                     \/ nodes[k].load = nodes[m].load /\ k <= m

TypeInv ==
  /\ \E len \in 0..MaxNodes : /\ nodes \in [1..len -> NodeRecord]
                              /\ i \in 1..(len + 1)
                              /\ returned => i = len + 1
  /\ returned \in BOOLEAN

(***************************************************************************)
(* The loop invariant: each of the four candidates is the best one of its   *)
(* kind among the positions passed.  It needs the strict comparison of the  *)
(* loop, which keeps the earlier of two equally loaded nodes.               *)
(***************************************************************************)
LoopInv ==
  /\ TypeInv
  /\ IsFirstLeast(bestActive, PassedSpare)
  /\ IsFirstLeast(bestIdleActive, PassedSaturated)
  /\ IsFirst(bestSleeping, PassedIn("sleeping"))
  /\ IsFirst(fallback, PassedIn("waking"))
  /\ PicksFirstPickable

LEMMA LoopInvInit == Init => LoopInv
<1> SUFFICES ASSUME Init PROVE LoopInv
  OBVIOUS
<1>1. TypeInv /\ Passed = {}
  <2>1. PICK len \in 0..MaxNodes : nodes \in [1..len -> NodeRecord]
    BY DEF Init
  <2>2. i \in 1..(len + 1)
    BY BoundsAssumption DEF Init
  <2>3. Passed = {}
    BY <2>1, BoundsAssumption DEF Init, Passed, Candidates
  <2> QED
    BY <2>1, <2>2, <2>3 DEF TypeInv, Init
<1> QED
  BY <1>1 DEF Init, LoopInv, PassedSpare, PassedSaturated, PassedIn, IsFirst, IsFirstLeast,
              PicksFirstPickable

\* A step of the loop passes position i and no other.
LEMMA PassedNext ==
  ASSUME TypeInv, i \in DOMAIN nodes, i' = i + 1, nodes' = nodes, returned' = returned
  PROVE  /\ TypeInv' /\ ~returned
         /\ Passed' = IF nodes[i].dispatchOnly THEN Passed ELSE Passed \cup {i}
         /\ i \in Nat \ {0} /\ \A k \in Passed : k \in Nat /\ k < i /\ nodes[k].load \in Nat
         /\ nodes[i].load \in Nat /\ nodes[i].status \in NodeStatus
<1>1. PICK len \in 0..MaxNodes : /\ nodes \in [1..len -> NodeRecord]
                                 /\ i \in 1..(len + 1)
                                 /\ returned => i = len + 1
  BY DEF TypeInv
<1>2. DOMAIN nodes = 1..len /\ i \in 1..len /\ i' \in 1..(len + 1) /\ ~returned
  BY <1>1, BoundsAssumption
<1>3. TypeInv'
  BY <1>1, <1>2 DEF TypeInv
<1>4. \A k \in 1..len : nodes[k].load \in Nat /\ nodes[k].status \in NodeStatus
  BY <1>1, BoundsAssumption DEF NodeRecord
<1>5. Passed' = {k \in Candidates : k < i + 1}
  BY DEF Passed, Candidates
<1>6. Candidates \subseteq 1..len
  BY <1>2 DEF Candidates
<1>7. Passed' = IF nodes[i].dispatchOnly THEN Passed ELSE Passed \cup {i}
  <2>1. \A k \in 1..len : k < i + 1 <=> k < i \/ k = i
    BY <1>2, BoundsAssumption
  <2>2. i \in Candidates <=> ~nodes[i].dispatchOnly
    BY DEF Candidates
  <2> QED
    BY <1>2, <1>5, <1>6, <2>1, <2>2 DEF Passed
<1>8. \A k \in Passed : k \in 1..len /\ k < i
  BY <1>6 DEF Passed
<1>9. i \in Nat \ {0} /\ 1..len \subseteq Nat
  BY <1>2, BoundsAssumption
<1>10. \A k \in Passed : k \in Nat /\ k < i /\ nodes[k].load \in Nat
  BY <1>4, <1>8, <1>9
<1> QED
  BY <1>2, <1>3, <1>4, <1>7, <1>9, <1>10

\* Passing a position that is of no interest to a kind leaves its best alone.
LEMMA LoopInvSkip == LoopInv /\ Skip => LoopInv'
<1> SUFFICES ASSUME LoopInv, Skip PROVE LoopInv'
  OBVIOUS
<1>1. /\ TypeInv' /\ ~returned /\ nodes' = nodes /\ UNCHANGED bestVars
      /\ Passed' = Passed \/ (Passed' = Passed \cup {i} /\ nodes[i].status = "dead")
  BY PassedNext DEF LoopInv, Skip
<1>2. /\ PassedSpare' = PassedSpare /\ PassedSaturated' = PassedSaturated
      /\ \A s \in {"sleeping", "waking"} : PassedIn(s)' = PassedIn(s)
  BY <1>1 DEF PassedSpare, PassedSaturated, PassedIn
<1>3. ~returned'
  BY <1>1 DEF Skip
<1> QED
  BY <1>1, <1>2, <1>3 DEF LoopInv, IsFirst, IsFirstLeast, PicksFirstPickable, bestVars

\* The comparison of the loop keeps the first of the least loaded positions.
LEMMA BetterKeepsFirstLeast ==
  ASSUME TypeInv, i \in Nat \ {0}, nodes[i].load \in Nat,
         NEW S, \A k \in S : k \in Nat /\ k < i /\ nodes[k].load \in Nat,
         NEW best, IsFirstLeast(best, S), 0 \notin S
  PROVE  IsFirstLeast(IF Better(best) THEN i ELSE best, S \cup {i})
<1>1. CASE Better(best)
  <2>1. CASE best = 0
    BY <2>1, <1>1 DEF IsFirstLeast
  <2>2. CASE best # 0
    BY <2>2, <1>1 DEF IsFirstLeast, Better
  <2> QED
    BY <2>1, <2>2
<1>2. CASE ~Better(best)
  <2>1. best \in S /\ nodes[best].load <= nodes[i].load
    BY <1>2 DEF IsFirstLeast, Better
  <2> QED
    BY <1>2, <2>1 DEF IsFirstLeast
<1> QED
  BY <1>1, <1>2

LEMMA LoopInvSpare == LoopInv /\ ConsiderSpare => LoopInv'
<1> SUFFICES ASSUME LoopInv, ConsiderSpare PROVE LoopInv'
  OBVIOUS
<1>1. /\ TypeInv' /\ ~returned /\ nodes' = nodes /\ Passed' = Passed \cup {i}
      /\ i \in Nat \ {0} /\ nodes[i].load \in Nat
      /\ \A k \in Passed : k \in Nat /\ k < i /\ nodes[k].load \in Nat
      /\ nodes[i].status = "active" /\ nodes[i].load < LoadThreshold
  BY PassedNext DEF LoopInv, ConsiderSpare, Looking
<1>2. /\ PassedSpare' = PassedSpare \cup {i}
      /\ PassedSaturated' = PassedSaturated
      /\ \A s \in {"sleeping", "waking"} : PassedIn(s)' = PassedIn(s)
  BY <1>1, BoundsAssumption DEF PassedSpare, PassedSaturated, PassedIn
<1>3. 0 \notin PassedSpare /\ \A k \in PassedSpare : k \in Nat /\ k < i /\ nodes[k].load \in Nat
  <2>1. PassedSpare \subseteq Passed
    BY DEF PassedSpare
  <2>2. 0 \notin Passed
    BY DEF LoopInv, TypeInv, Passed, Candidates
  <2> QED
    BY <1>1, <2>1, <2>2
<1>4. IsFirstLeast(bestActive, PassedSpare)'
  <2>1. IsFirstLeast(IF Better(bestActive) THEN i ELSE bestActive, PassedSpare \cup {i})
    BY <1>1, <1>3, BetterKeepsFirstLeast DEF LoopInv
  <2> QED
    BY <1>1, <1>2, <2>1 DEF ConsiderSpare, IsFirstLeast
<1> QED
  BY <1>1, <1>2, <1>4 DEF LoopInv, ConsiderSpare, IsFirst, IsFirstLeast, PicksFirstPickable

LEMMA LoopInvSaturated == LoopInv /\ ConsiderSaturated => LoopInv'
<1> SUFFICES ASSUME LoopInv, ConsiderSaturated PROVE LoopInv'
  OBVIOUS
<1>1. /\ TypeInv' /\ ~returned /\ nodes' = nodes /\ Passed' = Passed \cup {i}
      /\ i \in Nat \ {0} /\ nodes[i].load \in Nat
      /\ \A k \in Passed : k \in Nat /\ k < i /\ nodes[k].load \in Nat
      /\ nodes[i].status = "active" /\ nodes[i].load >= LoadThreshold
  BY PassedNext DEF LoopInv, ConsiderSaturated, Looking
<1>2. /\ PassedSaturated' = PassedSaturated \cup {i}
      /\ PassedSpare' = PassedSpare
      /\ \A s \in {"sleeping", "waking"} : PassedIn(s)' = PassedIn(s)
  BY <1>1, BoundsAssumption DEF PassedSpare, PassedSaturated, PassedIn
<1>3. /\ 0 \notin PassedSaturated
      /\ \A k \in PassedSaturated : k \in Nat /\ k < i /\ nodes[k].load \in Nat
  <2>1. PassedSaturated \subseteq Passed
    BY DEF PassedSaturated
  <2>2. 0 \notin Passed
    BY DEF LoopInv, TypeInv, Passed, Candidates
  <2> QED
    BY <1>1, <2>1, <2>2
<1>4. IsFirstLeast(bestIdleActive, PassedSaturated)'
  <2>1. IsFirstLeast(IF Better(bestIdleActive) THEN i ELSE bestIdleActive,
                     PassedSaturated \cup {i})
    BY <1>1, <1>3, BetterKeepsFirstLeast DEF LoopInv
  <2> QED
    BY <1>1, <1>2, <2>1 DEF ConsiderSaturated, IsFirstLeast
<1> QED
  BY <1>1, <1>2, <1>4 DEF LoopInv, ConsiderSaturated, IsFirst, IsFirstLeast, PicksFirstPickable

LEMMA LoopInvSleeping == LoopInv /\ ConsiderSleeping => LoopInv'
<1> SUFFICES ASSUME LoopInv, ConsiderSleeping PROVE LoopInv'
  OBVIOUS
<1>1. /\ TypeInv' /\ ~returned /\ nodes' = nodes /\ Passed' = Passed \cup {i}
      /\ i \in Nat \ {0} /\ nodes[i].status = "sleeping"
      /\ \A k \in Passed : k \in Nat /\ k < i
  BY PassedNext DEF LoopInv, ConsiderSleeping, Looking
<1>2. /\ PassedIn("sleeping")' = PassedIn("sleeping") \cup {i}
      /\ PassedIn("waking")' = PassedIn("waking")
      /\ PassedSpare' = PassedSpare /\ PassedSaturated' = PassedSaturated
  BY <1>1 DEF PassedSpare, PassedSaturated, PassedIn
<1>3. 0 \notin PassedIn("sleeping") /\ \A k \in PassedIn("sleeping") : k \in Nat /\ k < i
  BY <1>1 DEF PassedIn, LoopInv, TypeInv, Passed, Candidates
<1>4. IsFirst(bestSleeping, PassedIn("sleeping"))'
  BY <1>1, <1>2, <1>3 DEF LoopInv, ConsiderSleeping, IsFirst
<1> QED
  BY <1>1, <1>2, <1>4 DEF LoopInv, ConsiderSleeping, IsFirst, IsFirstLeast, PicksFirstPickable

LEMMA LoopInvOther == LoopInv /\ ConsiderOther => LoopInv'
<1> SUFFICES ASSUME LoopInv, ConsiderOther PROVE LoopInv'
  OBVIOUS
<1>1. /\ TypeInv' /\ ~returned /\ nodes' = nodes /\ Passed' = Passed \cup {i}
      /\ i \in Nat \ {0} /\ nodes[i].status = "waking"
      /\ \A k \in Passed : k \in Nat /\ k < i
  BY PassedNext DEF LoopInv, ConsiderOther, Looking
<1>2. /\ PassedIn("waking")' = PassedIn("waking") \cup {i}
      /\ PassedIn("sleeping")' = PassedIn("sleeping")
      /\ PassedSpare' = PassedSpare /\ PassedSaturated' = PassedSaturated
  BY <1>1 DEF PassedSpare, PassedSaturated, PassedIn
<1>3. 0 \notin PassedIn("waking") /\ \A k \in PassedIn("waking") : k \in Nat /\ k < i
  BY <1>1 DEF PassedIn, LoopInv, TypeInv, Passed, Candidates
<1>4. IsFirst(fallback, PassedIn("waking"))'
  BY <1>1, <1>2, <1>3 DEF LoopInv, ConsiderOther, IsFirst
<1> QED
  BY <1>1, <1>2, <1>4 DEF LoopInv, ConsiderOther, IsFirst, IsFirstLeast, PicksFirstPickable

\* When the loop is over, the candidates of each kind are those of the slice.
LEMMA PassedAll ==
  ASSUME TypeInv, i \notin DOMAIN nodes
  PROVE  /\ PassedSpare = Spare(Candidates, Status, Load, LoadThreshold)
         /\ PassedSaturated = Saturated(Candidates, Status, Load, LoadThreshold)
         /\ \A s \in NodeStatus : PassedIn(s) = InState(Candidates, Status, s)
         /\ \A k \in Candidates : k \in Nat \ {0} /\ nodes[k].load \in Nat /\ Load[k] = nodes[k].load
<1>1. PICK len \in 0..MaxNodes : nodes \in [1..len -> NodeRecord] /\ i \in 1..(len + 1)
  BY DEF TypeInv
<1>2. i = len + 1 /\ DOMAIN nodes = 1..len
  BY <1>1, BoundsAssumption
<1>3. Passed = Candidates
  BY <1>1, <1>2, BoundsAssumption DEF Passed, Candidates
<1>4. \A k \in Candidates : /\ k \in Nat \ {0} /\ nodes[k].load \in Nat
                            /\ Load[k] = nodes[k].load /\ Status[k] = nodes[k].status
  BY <1>1, <1>2, BoundsAssumption DEF Candidates, Load, Status, NodeRecord
<1> QED
  BY <1>3, <1>4, BoundsAssumption
  DEF PassedSpare, PassedSaturated, PassedIn, Spare, Saturated, InState

LEMMA LoopInvReturn == LoopInv /\ Return => LoopInv'
<1> SUFFICES ASSUME LoopInv, Return PROVE LoopInv'
  OBVIOUS
<1>1. UNCHANGED <<nodes, i, bestVars>> /\ i \notin DOMAIN nodes
  BY DEF Return
<1>2. TypeInv'
  <2>1. PICK len \in 0..MaxNodes : nodes \in [1..len -> NodeRecord] /\ i \in 1..(len + 1)
    BY DEF LoopInv, TypeInv
  <2>2. i = len + 1
    BY <1>1, <2>1, BoundsAssumption
  <2> QED
    BY <1>1, <2>1, <2>2 DEF TypeInv, Return
<1> DEFINE spare == Spare(Candidates, Status, Load, LoadThreshold)
           saturated == Saturated(Candidates, Status, Load, LoadThreshold)
           asleep == InState(Candidates, Status, "sleeping")
           waking == InState(Candidates, Status, "waking")
<1>3. /\ IsFirstLeast(bestActive, spare) /\ IsFirstLeast(bestIdleActive, saturated)
      /\ IsFirst(bestSleeping, asleep) /\ IsFirst(fallback, waking)
  BY <1>1, PassedAll DEF LoopInv, NodeStatus
<1>4. \A k \in Candidates : k \in Nat \ {0} /\ nodes[k].load \in Nat /\ Load[k] = nodes[k].load
  BY <1>1, PassedAll DEF LoopInv
<1>5. /\ spare \subseteq Candidates /\ saturated \subseteq Candidates
      /\ asleep \subseteq Candidates /\ waking \subseteq Candidates
  BY DEF Spare, Saturated, InState
<1>6. /\ bestActive = 0 <=> spare = {}
      /\ bestIdleActive = 0 <=> saturated = {}
      /\ bestSleeping = 0 <=> asleep = {}
  BY <1>3, <1>4, <1>5 DEF IsFirst, IsFirstLeast
<1>7. ASSUME NEW k, NEW S, S \subseteq Candidates, S # {}, IsFirstLeast(k, S)
      PROVE  IsFirst(k, LeastLoaded(S, Load))
  BY <1>4, <1>7 DEF IsFirst, IsFirstLeast, LeastLoaded
<1>8. IsFirst(picked', Pickable(Candidates, Status, Load, LoadThreshold))
  <2>1. CASE spare # {}
    <3>1. picked' = bestActive
      BY <2>1, <1>6 DEF Return
    <3>2. Pickable(Candidates, Status, Load, LoadThreshold) = LeastLoaded(spare, Load)
      BY <2>1 DEF Pickable
    <3> QED
      BY <3>1, <3>2, <2>1, <1>3, <1>5, <1>7
  <2>2. CASE spare = {} /\ asleep # {}
    <3>1. picked' = bestSleeping
      BY <2>2, <1>6 DEF Return
    <3>2. Pickable(Candidates, Status, Load, LoadThreshold) = asleep
      BY <2>2 DEF Pickable
    <3> QED
      BY <3>1, <3>2, <1>3
  <2>3. CASE spare = {} /\ asleep = {} /\ saturated # {}
    <3>1. picked' = bestIdleActive
      BY <2>3, <1>6 DEF Return
    <3>2. Pickable(Candidates, Status, Load, LoadThreshold) = LeastLoaded(saturated, Load)
      BY <2>3 DEF Pickable
    <3> QED
      BY <3>1, <3>2, <2>3, <1>3, <1>5, <1>7
  <2>4. CASE spare = {} /\ asleep = {} /\ saturated = {}
    <3>1. picked' = fallback
      BY <2>4, <1>6 DEF Return
    <3>2. Pickable(Candidates, Status, Load, LoadThreshold) = waking
      BY <2>4 DEF Pickable
    <3> QED
      BY <3>1, <3>2, <1>3
  <2> QED
    BY <2>1, <2>2, <2>3, <2>4
<1>9. PicksFirstPickable'
  BY <1>1, <1>8 DEF PicksFirstPickable, Candidates, Status, Load
<1> QED
  BY <1>1, <1>2, <1>9
  DEF LoopInv, bestVars, IsFirstLeast, IsFirst, PassedSpare, PassedSaturated, PassedIn, Passed,
      Candidates

\* PickNode returns the first node that its rules allow, for every slice, load
\* and threshold.
THEOREM PickNodeCorrect == Spec => []PicksFirstPickable
<1>1. LoopInv /\ [Next]_vars => LoopInv'
  <2>1. ASSUME LoopInv, UNCHANGED vars PROVE LoopInv'
    <3>1. /\ UNCHANGED <<nodes, i, returned, picked, bestVars>>
          /\ Candidates' = Candidates /\ Status' = Status /\ Load' = Load
      BY <2>1 DEF vars, bestVars, Candidates, Status, Load
    <3>2. Passed' = Passed
      BY <3>1 DEF Passed
    <3>3. TypeInv'
      BY <2>1, <3>1 DEF LoopInv, TypeInv, bestVars
    <3>4. PicksFirstPickable'
      BY <2>1, <3>1 DEF LoopInv, PicksFirstPickable
    <3> QED
      BY <2>1, <3>1, <3>2, <3>3, <3>4 DEF LoopInv, bestVars, IsFirstLeast, IsFirst,
         PassedSpare, PassedSaturated, PassedIn
  <2> QED
    BY <2>1, LoopInvSkip, LoopInvSpare, LoopInvSaturated, LoopInvSleeping, LoopInvOther,
       LoopInvReturn DEF Next
<1>2. LoopInv => PicksFirstPickable
  BY DEF LoopInv
<1> QED
  BY <1>1, <1>2, LoopInvInit, PTL DEF Spec
===============================================================================
