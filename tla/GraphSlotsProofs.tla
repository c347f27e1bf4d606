-------------------------- MODULE GraphSlotsProofs --------------------------
(***************************************************************************)
(* Proofs about GraphSlots, for any number of callers and scans and any    *)
(* limits: the counters count, the limits hold, and a low request is       *)
(* admitted only when no sync is in progress.                              *)
(***************************************************************************)
EXTENDS GraphSlots, FiniteSetTheorems, TLAPS

Safe == TypeOK /\ Counted /\ Limits

\* The sets that are counted are finite.
LEMMA HoldingFinite ==
  ASSUME NEW p
  PROVE  IsFiniteSet(Holding(p)) /\ Cardinality(Holding(p)) \in Nat
<1>1. IsFiniteSet(Callers \cup Syncs) BY GraphSlotsConstants, FS_Union
<1>2. IsFiniteSet((Callers \cup Syncs) \cup Rotations) BY <1>1, GraphSlotsConstants, FS_Union
<1>3. Holding(p) \in SUBSET ((Callers \cup Syncs) \cup Rotations)
  BY DEF Holding, Actors, Scans
<1> QED BY <1>2, <1>3, FS_Subset, FS_CardinalityType

LEMMA InScanFinite == IsFiniteSet(InScan) /\ Cardinality(InScan) \in Nat
<1>1. IsFiniteSet(Syncs \cup Rotations) BY GraphSlotsConstants, FS_Union
<1>2. InScan \in SUBSET (Syncs \cup Rotations) BY DEF InScan, Scans
<1> QED BY <1>1, <1>2, FS_Subset, FS_CardinalityType

\* A step that neither takes nor gives back a slot.
LEMMA SlotsKept ==
  ASSUME Counted, Limits, UNCHANGED <<high, low>>,
         \A a \in Actors : pc'[a] = "hold" <=> pc[a] = "hold",
         \A a \in Actors : pc[a] = "hold" => prio'[a] = prio[a]
  PROVE  /\ high' = Cardinality(Holding("high")')
         /\ low' = Cardinality(Holding("low")')
         /\ Limits'
<1>1. Holding("high")' = Holding("high") /\ Holding("low")' = Holding("low")
  BY DEF Holding
<1> QED BY <1>1 DEF Counted, Limits

\* A step at which no scan begins or ends.
LEMMA ScansKept ==
  ASSUME Counted, UNCHANGED depth,
         \A s \in Scans : pc'[s] \in ScanPcs <=> pc[s] \in ScanPcs
  PROVE  depth' = Cardinality(InScan')
<1>1. InScan' = InScan BY DEF InScan
<1> QED BY <1>1 DEF Counted

\* One actor moves between places where it holds no slot.
LEMMA Moves ==
  ASSUME Safe, NEW a \in Actors, NEW v, pc' = [pc EXCEPT ![a] = v],
         pc[a] # "hold", v # "hold",
         UNCHANGED <<high, low>>,
         prio' = prio \/ (\E p \in Priorities : prio' = [prio EXCEPT ![a] = p])
  PROVE  /\ high' = Cardinality(Holding("high")')
         /\ low' = Cardinality(Holding("low")')
         /\ Limits'
<1>1. \A b \in Actors : pc'[b] = "hold" <=> pc[b] = "hold" BY DEF Safe, TypeOK
<1>2. \A b \in Actors : pc[b] = "hold" => prio'[b] = prio[b] BY DEF Safe, TypeOK
<1> QED BY <1>1, <1>2, SlotsKept DEF Safe

\* The same, outside or inside a scan.
LEMMA MovesScan ==
  ASSUME Safe, NEW a \in Actors, NEW v, pc' = [pc EXCEPT ![a] = v],
         a \in Scans => (v \in ScanPcs <=> pc[a] \in ScanPcs),
         UNCHANGED depth
  PROVE  depth' = Cardinality(InScan')
<1>1. \A s \in Scans : pc'[s] \in ScanPcs <=> pc[s] \in ScanPcs
  BY DEF Safe, TypeOK, Actors
<1> QED BY <1>1, ScansKept DEF Safe

-----------------------------------------------------------------------------
\* Type correctness, for every value of the constants.
LEMMA TypeStep == TypeOK /\ [Next]_vars => TypeOK'
<1> SUFFICES ASSUME TypeOK, [Next]_vars PROVE TypeOK'
  OBVIOUS
<1> USE DEF ScanPcs, RequestPcs
<1>0. Scans \subseteq Actors /\ Callers \subseteq Actors /\ Syncs \subseteq Scans
      /\ Rotations \subseteq Scans /\ Callers \cap Scans = {} /\ Syncs \cap Rotations = {}
  BY GraphSlotsConstants DEF Actors, Scans
<1>1. ASSUME NEW c \in Callers, Request(c) PROVE TypeOK'
  <2>1. PICK p \in Priorities : Ask(c, p) BY <1>1 DEF Request
  <2> QED BY <1>0, <1>1, <2>1 DEF Request, Ask, TypeOK, Priorities
<1>2. ASSUME NEW a \in Actors, YieldEnds(a) PROVE TypeOK'
  BY <1>0, <1>2 DEF YieldEnds, TypeOK
<1>3. ASSUME NEW a \in Actors, Acquire(a) PROVE TypeOK'
  BY <1>0, <1>3 DEF Acquire, TypeOK
<1>4. ASSUME NEW a \in Actors, Release(a) PROVE TypeOK'
  BY <1>0, <1>4 DEF Release, Dec, TypeOK, Actors, Scans
<1>5. ASSUME NEW s \in Syncs, SyncBegin(s) PROVE TypeOK'
  BY <1>0, <1>5, GraphSlotsConstants DEF SyncBegin, TypeOK
<1>6. ASSUME NEW r \in Rotations,
             RotationCheck(r) \/ RotationAsk(r) \/ RotationSkips(r) \/ RotationBegin(r)
      PROVE TypeOK'
  <2>1. CASE RotationCheck(r) BY <1>0, <2>1 DEF RotationCheck, TypeOK
  <2>2. CASE RotationAsk(r) BY <1>0, <2>2 DEF RotationAsk, TypeOK
  <2>3. CASE RotationSkips(r) BY <1>0, <2>3 DEF RotationSkips, TypeOK
  <2>4. CASE RotationBegin(r) BY <1>0, <2>4 DEF RotationBegin, TypeOK
  <2> QED BY <1>6, <2>1, <2>2, <2>3, <2>4
<1>7. ASSUME NEW s \in Scans, ScanStep(s) PROVE TypeOK'
  <2>1. CASE Mark(s) BY <1>0, <2>1 DEF Mark, TypeOK
  <2>2. CASE PageRequest(s)
    <3>1. PICK p \in Priorities : Ask(s, p) BY <2>2 DEF PageRequest
    <3> QED BY <1>0, <2>2, <3>1 DEF PageRequest, Ask, TypeOK, Priorities
  <2>3. CASE NextPage(s) BY <1>0, <2>3 DEF NextPage, TypeOK
  <2>4. CASE ScanEnds(s) BY <1>0, <2>4 DEF ScanEnds, Dec, TypeOK
  <2>5. CASE Clear(s) BY <1>0, <2>5 DEF Clear, TypeOK
  <2> QED BY <1>7, <2>1, <2>2, <2>3, <2>4, <2>5 DEF ScanStep
<1>8. CASE WriteAges BY <1>8 DEF WriteAges, TypeOK
<1>9. CASE SignalExpires BY <1>9 DEF SignalExpires, TypeOK
<1>10. CASE UNCHANGED vars BY <1>10 DEF vars, TypeOK
<1> QED BY <1>1, <1>2, <1>3, <1>4, <1>5, <1>6, <1>7, <1>8, <1>9, <1>10 DEF Next, Slot

-----------------------------------------------------------------------------
\* Admission adds the actor to those of its class and stays in the limits.
LEMMA AcquireStep ==
  ASSUME Safe, NEW a \in Actors, Acquire(a)
  PROVE  Counted' /\ Limits'
<1> DEFINE p == prio[a]
           q == IF p = "high" THEN "low" ELSE "high"
<1>1. p \in Priorities BY DEF Safe, TypeOK
<1>2. Holding(p)' = Holding(p) \cup {a} /\ a \notin Holding(p)
  BY DEF Acquire, Holding, Safe, TypeOK
<1>3. Holding(q)' = Holding(q)
  BY <1>1 DEF Acquire, Holding, Safe, TypeOK, Priorities
<1>4. Cardinality(Holding(p)') = Cardinality(Holding(p)) + 1
  BY <1>2, HoldingFinite, FS_AddElement
<1>5. depth' = Cardinality(InScan')
  BY MovesScan DEF Acquire, ScanPcs, RequestPcs
<1>6. /\ Cardinality(Holding("high")) \in Nat
      /\ Cardinality(Holding("low")) \in Nat
  BY HoldingFinite
<1>7. CASE p = "high"
  <2>1. high' = Cardinality(Holding("high")') /\ low' = Cardinality(Holding("low")')
    BY <1>3, <1>4, <1>7 DEF Acquire, Safe, Counted
  <2>2. high + low < MaxTotal /\ high < MaxHigh
    BY <1>7 DEF Acquire, CanAcquire
  <2>3. Limits'
    <3>1. /\ Cardinality(Holding("high")') = Cardinality(Holding("high")) + 1
          /\ Cardinality(Holding("low")') = Cardinality(Holding("low"))
      BY <1>3, <1>4, <1>7 DEF Acquire
    <3>2. /\ Cardinality(Holding("high")) < MaxHigh
          /\ Cardinality(Holding("high")) + Cardinality(Holding("low")) < MaxTotal
      BY <2>2 DEF Safe, Counted
    <3>3. Cardinality(Holding("low")) <= MaxLow BY DEF Safe, Limits
    <3> QED BY <3>1, <3>2, <3>3, <1>6, GraphSlotsConstants DEF Limits
  <2> QED BY <1>5, <2>1, <2>3 DEF Counted
<1>8. CASE p = "low"
  <2>1. high' = Cardinality(Holding("high")') /\ low' = Cardinality(Holding("low")')
    BY <1>3, <1>4, <1>8 DEF Acquire, Safe, Counted
  <2>2. high + low < MaxTotal /\ low < MaxLow
    BY <1>8, GraphSlotsConstants DEF Acquire, CanAcquire, MaxLowNow, Safe, TypeOK
  <2>3. Limits'
    <3>1. /\ Cardinality(Holding("low")') = Cardinality(Holding("low")) + 1
          /\ Cardinality(Holding("high")') = Cardinality(Holding("high"))
      BY <1>3, <1>4, <1>8 DEF Acquire
    <3>2. /\ Cardinality(Holding("low")) < MaxLow
          /\ Cardinality(Holding("high")) + Cardinality(Holding("low")) < MaxTotal
      BY <2>2 DEF Safe, Counted
    <3>3. Cardinality(Holding("high")) <= MaxHigh BY DEF Safe, Limits
    <3> QED BY <3>1, <3>2, <3>3, <1>6, GraphSlotsConstants DEF Limits
  <2> QED BY <1>5, <2>1, <2>3 DEF Counted
<1> QED BY <1>1, <1>7, <1>8 DEF Priorities

\* Giving a slot back removes the actor from those of its class.
LEMMA ReleaseStep ==
  ASSUME Safe, NEW a \in Actors, Release(a)
  PROVE  Counted' /\ Limits'
<1> DEFINE p == prio[a]
           q == IF p = "high" THEN "low" ELSE "high"
<1>1. p \in Priorities BY DEF Safe, TypeOK
<1>2. Holding(p)' = Holding(p) \ {a} /\ a \in Holding(p)
  BY DEF Release, Holding, Safe, TypeOK
<1>3. Holding(q)' = Holding(q)
  BY <1>1 DEF Release, Holding, Safe, TypeOK, Priorities
<1>4. Cardinality(Holding(p)') = Cardinality(Holding(p)) - 1
  BY <1>2, HoldingFinite, FS_RemoveElement
<1>5. depth' = Cardinality(InScan')
  <2>1. a \in Scans => a \notin Callers BY GraphSlotsConstants DEF Scans
  <2> QED BY <2>1, MovesScan DEF Release, ScanPcs, RequestPcs
<1>6. /\ Cardinality(Holding("high")) \in Nat
      /\ Cardinality(Holding("low")) \in Nat
      /\ Cardinality(Holding(p)') \in Nat
  BY HoldingFinite, <1>2, FS_RemoveElement, FS_CardinalityType
<1>7. CASE p = "high"
  BY <1>3, <1>4, <1>5, <1>6, <1>7, GraphSlotsConstants
  DEF Release, Dec, Safe, Counted, Limits
<1>8. CASE p = "low"
  BY <1>3, <1>4, <1>5, <1>6, <1>8, GraphSlotsConstants
  DEF Release, Dec, Safe, Counted, Limits
<1> QED BY <1>1, <1>7, <1>8 DEF Priorities

\* A scan that begins is counted in.
LEMMA BeginStep ==
  ASSUME Safe, NEW s \in Scans, pc[s] \in {"idle", "list"}, pc' = [pc EXCEPT ![s] = "mark"],
         depth' = depth + 1, UNCHANGED <<prio, high, low>>
  PROVE  Counted' /\ Limits'
<1>0. s \in Actors BY DEF Actors
<1>1. InScan' = InScan \cup {s} /\ s \notin InScan
  BY DEF InScan, ScanPcs, RequestPcs, Safe, TypeOK, Actors
<1>2. depth' = Cardinality(InScan')
  BY <1>1, InScanFinite, FS_AddElement DEF Safe, Counted
<1>3. /\ high' = Cardinality(Holding("high")')
      /\ low' = Cardinality(Holding("low")')
      /\ Limits'
  BY <1>0, Moves
<1> QED BY <1>2, <1>3 DEF Counted

\* A scan that ends is counted out, once.
LEMMA EndStep ==
  ASSUME Safe, NEW s \in Scans, ScanEnds(s)
  PROVE  Counted' /\ Limits'
<1>0. s \in Actors BY DEF Actors
<1>1. InScan' = InScan \ {s} /\ s \in InScan
  BY DEF ScanEnds, InScan, ScanPcs, RequestPcs, Safe, TypeOK, Actors
<1>2. Cardinality(InScan') = Cardinality(InScan) - 1 /\ Cardinality(InScan') \in Nat
  BY <1>1, InScanFinite, FS_RemoveElement, FS_CardinalityType
<1>3. depth' = Cardinality(InScan')
  BY <1>2, InScanFinite DEF ScanEnds, Dec, Safe, Counted
<1>4. /\ high' = Cardinality(Holding("high")')
      /\ low' = Cardinality(Holding("low")')
      /\ Limits'
  BY <1>0, Moves DEF ScanEnds
<1> QED BY <1>3, <1>4 DEF Counted

-----------------------------------------------------------------------------
LEMMA InitSafe == Init => Safe
<1> SUFFICES ASSUME Init PROVE Safe
  OBVIOUS
<1>1. TypeOK
  BY GraphSlotsConstants
  DEF Init, TypeOK, Priorities, ScanPcs, RequestPcs, Actors, Scans
<1>2. Holding("high") = {} /\ Holding("low") = {} /\ InScan = {}
  BY DEF Init, Holding, InScan, ScanPcs, RequestPcs, Actors
<1>3. Cardinality({}) = 0 BY FS_EmptySet
<1> QED BY <1>1, <1>2, <1>3, GraphSlotsConstants DEF Init, Safe, Counted, Limits

LEMMA SafeStep == Safe /\ [Next]_vars => Safe'
<1> SUFFICES ASSUME Safe, [Next]_vars PROVE Safe'
  OBVIOUS
<1>0. TypeOK' BY TypeStep DEF Safe
<1> SUFFICES Counted' /\ Limits'
  BY <1>0 DEF Safe
<1>a. Scans \subseteq Actors /\ Callers \subseteq Actors /\ Syncs \subseteq Scans
      /\ Rotations \subseteq Scans /\ Callers \cap Scans = {}
  BY GraphSlotsConstants DEF Actors, Scans
<1> USE DEF ScanPcs, RequestPcs
<1>1. ASSUME NEW c \in Callers, Request(c) PROVE Counted' /\ Limits'
  <2>1. PICK p \in Priorities : Ask(c, p) BY <1>1 DEF Request
  <2> QED BY <1>a, <1>1, <2>1, Moves, MovesScan DEF Request, Ask, Counted
<1>2. ASSUME NEW a \in Actors, YieldEnds(a) PROVE Counted' /\ Limits'
  BY <1>2, Moves, MovesScan DEF YieldEnds, Counted
<1>3. ASSUME NEW a \in Actors, Acquire(a) PROVE Counted' /\ Limits'
  BY <1>3, AcquireStep
<1>4. ASSUME NEW a \in Actors, Release(a) PROVE Counted' /\ Limits'
  BY <1>4, ReleaseStep
<1>5. ASSUME NEW s \in Syncs, SyncBegin(s) PROVE Counted' /\ Limits'
  BY <1>a, <1>5, BeginStep DEF SyncBegin
<1>6. ASSUME NEW r \in Rotations, RotationCheck(r) PROVE Counted' /\ Limits'
  BY <1>a, <1>6, Moves, MovesScan DEF RotationCheck, Counted
<1>7. ASSUME NEW r \in Rotations, RotationAsk(r) PROVE Counted' /\ Limits'
  BY <1>a, <1>7, Moves, MovesScan DEF RotationAsk, Counted
<1>8. ASSUME NEW r \in Rotations, RotationSkips(r) PROVE Counted' /\ Limits'
  BY <1>a, <1>8, Moves, MovesScan DEF RotationSkips, Counted
<1>9. ASSUME NEW r \in Rotations, RotationBegin(r) PROVE Counted' /\ Limits'
  BY <1>a, <1>9, BeginStep DEF RotationBegin
<1>10. ASSUME NEW s \in Scans, Mark(s) PROVE Counted' /\ Limits'
  BY <1>a, <1>10, Moves, MovesScan DEF Mark, Counted
<1>11. ASSUME NEW s \in Scans, PageRequest(s) PROVE Counted' /\ Limits'
  <2>1. PICK p \in Priorities : Ask(s, p) BY <1>11 DEF PageRequest
  <2> QED BY <1>a, <1>11, <2>1, Moves, MovesScan DEF PageRequest, Ask, Counted
<1>12. ASSUME NEW s \in Scans, NextPage(s) PROVE Counted' /\ Limits'
  BY <1>a, <1>12, Moves, MovesScan DEF NextPage, Counted
<1>13. ASSUME NEW s \in Scans, ScanEnds(s) PROVE Counted' /\ Limits'
  BY <1>13, EndStep
<1>14. ASSUME NEW s \in Scans, Clear(s) PROVE Counted' /\ Limits'
  BY <1>a, <1>14, Moves, MovesScan DEF Clear, Counted
<1>15. CASE UNCHANGED <<pc, prio, high, low, depth>>
  <2>1. /\ high' = Cardinality(Holding("high")')
        /\ low' = Cardinality(Holding("low")')
        /\ Limits'
    BY <1>15, SlotsKept DEF Safe
  <2>2. depth' = Cardinality(InScan') BY <1>15, ScansKept DEF Safe
  <2> QED BY <2>1, <2>2 DEF Counted
<1> QED
  BY <1>1, <1>2, <1>3, <1>4, <1>5, <1>6, <1>7, <1>8, <1>9, <1>10, <1>11, <1>12, <1>13,
     <1>14, <1>15
  DEF Next, Slot, ScanStep, WriteAges, SignalExpires, vars

THEOREM SafeAlways == Spec => []Safe
BY InitSafe, SafeStep, PTL DEF Spec

\* The types of all variables, for any callers, scans and limits.
THEOREM TypeCorrect == Spec => []TypeOK
<1>1. Safe => TypeOK BY DEF Safe
<1> QED BY <1>1, SafeAlways, PTL

\* activeHigh, activeLow and inboxSyncDepth count the requests and syncs
\* under way: acquire and its release, begin and end always match.
THEOREM CountersCount == Spec => []Counted
<1>1. Safe => Counted BY DEF Safe
<1> QED BY <1>1, SafeAlways, PTL

\* maxHigh, maxLow and maxTotal are never exceeded.
THEOREM LimitsHold == Spec => []Limits
<1>1. Safe => Limits BY DEF Safe
<1> QED BY <1>1, SafeAlways, PTL

\* With maxHigh + maxLow <= maxTotal (the defaults), a high request never
\* waits for a low one.
THEOREM HighNeverWaitsForLow == Spec => []HighWaitsForHigh
<1>1. Safe => HighWaitsForHigh
  <2> SUFFICES ASSUME Safe, MaxHigh + MaxLow <= MaxTotal, ~ CanAcquire("high")
               PROVE  Cardinality(Holding("high")) >= MaxHigh
    BY DEF HighWaitsForHigh
  <2>1. high \in Nat /\ low \in Nat /\ low <= MaxLow
    BY DEF Safe, TypeOK, Counted, Limits
  <2>2. high + low >= MaxTotal \/ high >= MaxHigh
    BY <2>1, GraphSlotsConstants DEF CanAcquire
  <2> QED BY <2>1, <2>2, GraphSlotsConstants DEF Safe, Counted
<1> QED BY <1>1, SafeAlways, PTL

\* A low request is admitted only when no sync is in progress, however many
\* syncs and rotations overlap.
THEOREM LowYieldsToSyncs == Spec => LowYields
<1> DEFINE A == \A a \in Actors :
                  prio[a] = "low" /\ pc[a] = "acquire" /\ pc'[a] = "hold" => InScan = {}
<1>1. Safe /\ [Next]_vars => [A]_vars
  <2> SUFFICES ASSUME Safe, Next, NEW a \in Actors,
                      prio[a] = "low", pc[a] = "acquire", pc'[a] = "hold"
               PROVE  InScan = {}
    BY DEF vars
  <2> USE DEF ScanPcs, RequestPcs
  <2>0. Scans \subseteq Actors /\ Callers \subseteq Actors /\ Syncs \subseteq Scans
        /\ Rotations \subseteq Scans
    BY DEF Actors, Scans
  <2>1. ASSUME NEW b \in Actors, Acquire(b) PROVE b = a
    BY <2>1 DEF Acquire, Safe, TypeOK
  <2>2. \E b \in Actors : Acquire(b)
    <3>1. ASSUME NEW c \in Callers, Request(c) PROVE FALSE
      BY <2>0, <3>1 DEF Request, Ask, Safe, TypeOK
    <3>2. ASSUME NEW b \in Actors, YieldEnds(b) PROVE FALSE
      BY <3>2 DEF YieldEnds, Safe, TypeOK
    <3>3. ASSUME NEW b \in Actors, Release(b) PROVE FALSE
      BY <3>3 DEF Release, Safe, TypeOK
    <3>4. ASSUME NEW s \in Syncs, SyncBegin(s) PROVE FALSE
      BY <2>0, <3>4 DEF SyncBegin, Safe, TypeOK
    <3>5. ASSUME NEW r \in Rotations,
                 RotationCheck(r) \/ RotationAsk(r) \/ RotationSkips(r) \/ RotationBegin(r)
          PROVE FALSE
      BY <2>0, <3>5 DEF RotationCheck, RotationAsk, RotationSkips, RotationBegin, Safe, TypeOK
    <3>6. ASSUME NEW s \in Scans, ScanStep(s) PROVE FALSE
      BY <2>0, <3>6 DEF ScanStep, Mark, PageRequest, NextPage, ScanEnds, Clear, Ask, Safe, TypeOK
    <3>7. CASE WriteAges \/ SignalExpires
      BY <3>7 DEF WriteAges, SignalExpires
    <3> QED BY <3>1, <3>2, <3>3, <3>4, <3>5, <3>6, <3>7 DEF Next, Slot
  <2>3. Acquire(a) BY <2>1, <2>2
  <2>4. low < MaxLowNow BY <2>3 DEF Acquire, CanAcquire
  <2>5. Cardinality(InScan) = 0
    BY <2>4 DEF MaxLowNow, Safe, TypeOK, Counted
  <2> QED BY <2>5, InScanFinite, FS_EmptySet
<1>2. Spec => [][Next]_vars BY DEF Spec
<1> QED BY <1>1, <1>2, SafeAlways, PTL DEF LowYields

=============================================================================
