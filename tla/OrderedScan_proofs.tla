------------------------- MODULE OrderedScan_proofs -------------------------
(***************************************************************************)
(* Proofs about the memory gate, for any finite set of callers and any     *)
(* memory the host may report, and about the ordered scan, for any number  *)
(* of lanes and paths.  The scan is shown to be a use of the gate, which   *)
(* carries the gate's theorems over to it; then the paths, the counters    *)
(* and the events are shown to agree.                                      *)
(***************************************************************************)
EXTENDS OrderedScan, FiniteSetTheorems, SequenceTheorems,
        NaturalsInduction, WellFoundedInduction, TLAPS

-----------------------------------------------------------------------------
(* The gate. *)

\* The limits fixed by admission_limits are numbers, whatever was unknown.
LEMMA LimitsType == Budget \in Nat /\ FreeFloor \in Nat
<1>1. Capacity = Unknown \/ Capacity \in Nat
  BY GateAssumption DEF Capacity, KnownTotal, AtMost
<1>2. FreeFloor \in Nat
  BY <1>1, GateAssumption DEF FreeFloor, AtLeast
<1>3. QED
  BY <1>1, <1>2, GateAssumption DEF Budget, AtLeast, SatSub

\* An estimate is a number, at most the budget and, for a flat image, at most
\* the plain estimate.
LEMMA FootprintType ==
  ASSUME NEW size \in Sizes, NEW hint \in Hints
  PROVE  /\ Footprint(size, hint) \in Nat
         /\ Footprint(size, hint) <= Budget
         /\ Footprint(size, hint) <= estimate(size)
<1>1. size * Expansion \in Nat /\ size * FlatExpansion \in Nat
  BY GateAssumption
<1>2. estimate(size) \in Nat /\ estimate(size) <= Budget
  BY <1>1, LimitsType, GateAssumption DEF estimate, AtMost, AtLeast, SatMul
<1>3. /\ estimate_flat(size) \in Nat
      /\ estimate_flat(size) <= estimate(size)
  BY <1>1, <1>2, GateAssumption DEF estimate_flat, AtMost, AtLeast, SatMul
<1>4. QED
  BY <1>2, <1>3, LimitsType DEF Footprint

\* What `est` may hold: a number, at most the budget and small enough that
\* all callers' estimates fit in a word.
LEMMA EstimateType ==
  ASSUME NEW x \in Footprints \cup {0}
  PROVE  x \in Nat /\ x <= Budget /\ x <= WordMax
<1>1. CASE x = 0
  BY <1>1, LimitsType, GateAssumption
<1>2. CASE x \in Footprints
  <2>1. PICK size \in Sizes, hint \in Hints : x = Footprint(size, hint)
    BY <1>2 DEF Footprints
  <2>2. PICK most \in 0..WordMax : \A s \in Sizes : estimate(s) <= most
    BY NoOverflow
  <2>3. estimate(size) \in Nat
    BY LimitsType, GateAssumption DEF estimate, AtMost, AtLeast, SatMul
  <2>4. QED
    BY <2>1, <2>2, <2>3, FootprintType, LimitsType, GateAssumption
<1>3. QED
  BY <1>1, <1>2

\* The type invariant holds in every reachable state of the gate.
THEOREM GateTypeCorrect == GateSpec => []GateTypeOK
<1> USE GateAssumption
<1>1. GateInit => GateTypeOK
  BY DEF GateInit, GateTypeOK
<1>2. ASSUME GateTypeOK, [GateNext]_gateVars
      PROVE  GateTypeOK'
  <2> USE GateTypeOK DEF GateTypeOK
  <2>0. ASSUME NEW c \in Callers PROVE est[c] \in Nat
    <3>1. est[c] \in Footprints \cup {0}
      OBVIOUS
    <3>2. QED
      BY <3>1, EstimateType
  <2>1. ASSUME NEW c \in Callers, NEW size \in Sizes, NEW hint \in Hints,
               Request(c, size, hint)
        PROVE  GateTypeOK'
    <3>1. Footprint(size, hint) \in Footprints
      BY DEF Footprints
    <3>2. QED
      BY <2>1, <3>1 DEF Request
  <2>2. ASSUME NEW c \in Callers, Read(c)
        PROVE  GateTypeOK'
    BY <2>2 DEF Read
  <2>3. ASSUME NEW c \in Callers, Admit(c)
        PROVE  GateTypeOK'
    <3>1. est[c] \in Nat /\ est[c] <= WordMax
      BY EstimateType
    <3>3. WrapAdd(reserved, est[c]) \in 0..WordMax
      BY <3>1 DEF WrapAdd
    <3>4. QED
      BY <2>3, <3>3 DEF Admit
  <2>4. ASSUME NEW c \in Callers, Refuse(c)
        PROVE  GateTypeOK'
    BY <2>4 DEF Refuse
  <2>5. ASSUME NEW c \in Callers, Resume(c) \/ Park(c) \/ Wake(c)
        PROVE  GateTypeOK'
    BY <2>5 DEF Resume, Park, Wake
  <2>6. ASSUME NEW c \in Callers, Release(c)
        PROVE  GateTypeOK'
    <3>1. SatSub(reserved, est[c]) \in 0..WordMax
      BY <2>0 DEF SatSub
    <3>2. QED
      BY <2>6, <3>1 DEF Release
  <2>7. ASSUME NEW c \in Callers, TimePasses(c)
        PROVE  GateTypeOK'
    BY <2>7 DEF TimePasses
  <2>8. CASE MemoryChanges
    BY <2>8 DEF MemoryChanges
  <2>9. CASE UNCHANGED gateVars
    BY <2>9 DEF gateVars
  <2>10. QED
    BY <1>2, <2>1, <2>2, <2>3, <2>4, <2>5, <2>6, <2>7, <2>8, <2>9
       DEF GateNext, GateStep
<1>3. QED
  BY <1>1, <1>2, PTL DEF GateSpec

-----------------------------------------------------------------------------
(* Counting units. *)

\* The units of one caller number as many as its estimate.
LEMMA OneCallersUnits ==
  ASSUME NEW c, NEW n \in Nat
  PROVE  /\ IsFiniteSet({c} \X (1..n))
         /\ Cardinality({c} \X (1..n)) = n
<1>1. IsFiniteSet({c}) /\ Cardinality({c}) = 1
  BY FS_Singleton
<1>2. IsFiniteSet(1..n) /\ Cardinality(1..n) = n
  BY FS_Interval
<1>3. /\ IsFiniteSet({c} \X (1..n))
      /\ Cardinality({c} \X (1..n)) = Cardinality({c}) * Cardinality(1..n)
  BY <1>1, <1>2, FS_Product
<1>4. 1 * n = n
  OBVIOUS
<1>5. QED
  BY <1>1, <1>2, <1>3, <1>4

UnitsBounded ==
    /\ IsFiniteSet(UnitsOf(Callers))
    /\ Cardinality(UnitsOf(Callers)) \in Nat
    /\ Cardinality(UnitsOf(Callers)) <= WordMax

\* All units together fit in a word, in any state with well-typed estimates.
LEMMA UnitsFit == GateTypeOK => UnitsBounded
<1> SUFFICES ASSUME GateTypeOK PROVE UnitsBounded
  OBVIOUS
<1>1. PICK most \in 0..WordMax :
        /\ Cardinality(Callers) * most <= WordMax
        /\ \A s \in Sizes : estimate(s) <= most
  BY NoOverflow
<1>2. ASSUME NEW c \in Callers PROVE est[c] \in Nat /\ est[c] <= most
  <2>1. est[c] \in Footprints \cup {0}
    BY DEF GateTypeOK
  <2>2. CASE est[c] = 0
    BY <2>2
  <2>3. CASE est[c] \in Footprints
    <3>1. PICK size \in Sizes, hint \in Hints : est[c] = Footprint(size, hint)
      BY <2>3 DEF Footprints
    <3>2. estimate(size) \in Nat
      BY LimitsType, GateAssumption DEF estimate, AtMost, AtLeast, SatMul
    <3>3. QED
      BY <3>1, <3>2, <1>1, FootprintType
  <2>4. QED
    BY <2>1, <2>2, <2>3
<1>3. UnitsOf(Callers) \subseteq Callers \X (1..most)
  BY <1>2, LimitsType DEF UnitsOf
<1>4. IsFiniteSet(1..most) /\ Cardinality(1..most) = most
  BY FS_Interval
<1>5. /\ IsFiniteSet(Callers \X (1..most))
      /\ Cardinality(Callers \X (1..most)) = Cardinality(Callers) * most
  BY <1>4, FS_Product, GateAssumption
<1>6. /\ IsFiniteSet(UnitsOf(Callers))
      /\ Cardinality(UnitsOf(Callers)) <= Cardinality(Callers \X (1..most))
  BY <1>3, <1>5, FS_Subset
<1>7. Cardinality(UnitsOf(Callers)) \in Nat
  BY <1>6, FS_CardinalityType
<1>8. Cardinality(Callers) \in Nat
  BY FS_CardinalityType, GateAssumption
<1>9. QED
  BY <1>1, <1>5, <1>6, <1>7, <1>8, GateAssumption DEF UnitsBounded

\* Admitting c adds its units, all new.
LEMMA AdmitAddsUnits ==
  ASSUME GateTypeOK, NEW c \in Callers, Admit(c)
  PROVE  /\ UnitsOf(Callers)' = UnitsOf(Callers) \cup ({c} \X (1..est[c]))
         /\ Cardinality(UnitsOf(Callers)') =
                Cardinality(UnitsOf(Callers)) + est[c]
<1>1. est[c] \in Nat /\ est[c] <= Budget
  BY EstimateType DEF GateTypeOK
<1>2. pc[c] = "lock" /\ pc' = [pc EXCEPT ![c] = "holding"] /\ est' = est
  BY DEF Admit
<1>3. UnitsOf(Callers)' = UnitsOf(Callers) \cup ({c} \X (1..est[c]))
  BY <1>1, <1>2, LimitsType DEF UnitsOf, Holding, GateTypeOK
<1>4. UnitsOf(Callers) \cap ({c} \X (1..est[c])) = {}
  BY <1>2 DEF UnitsOf, Holding
<1>5. /\ IsFiniteSet({c} \X (1..est[c]))
      /\ Cardinality({c} \X (1..est[c])) = est[c]
  BY <1>1, OneCallersUnits
<1>6. /\ IsFiniteSet(UnitsOf(Callers))
      /\ Cardinality(UnitsOf(Callers)) \in Nat
  BY UnitsFit DEF UnitsBounded
<1>7. Cardinality(UnitsOf(Callers) \cup ({c} \X (1..est[c]))) =
        Cardinality(UnitsOf(Callers)) + Cardinality({c} \X (1..est[c]))
            - Cardinality(UnitsOf(Callers) \cap ({c} \X (1..est[c])))
  BY <1>5, <1>6, FS_Union
<1>8. Cardinality(UnitsOf(Callers) \cap ({c} \X (1..est[c]))) = 0
  BY <1>4, FS_EmptySet
<1>9. QED
  BY <1>1, <1>3, <1>5, <1>6, <1>7, <1>8

\* Releasing c removes exactly its units.
LEMMA ReleaseRemovesUnits ==
  ASSUME GateTypeOK, NEW c \in Callers, Release(c)
  PROVE  /\ Cardinality(UnitsOf(Callers)') =
                Cardinality(UnitsOf(Callers)) - est[c]
         /\ est[c] <= Cardinality(UnitsOf(Callers))
<1>1. est[c] \in Nat /\ est[c] <= Budget
  BY EstimateType DEF GateTypeOK
<1>2. /\ pc[c] = "holding"
      /\ pc' = [pc EXCEPT ![c] = "idle"]
      /\ est' = [est EXCEPT ![c] = 0]
  BY DEF Release
<1>3. UnitsOf(Callers)' = UnitsOf(Callers) \ ({c} \X (1..est[c]))
  BY <1>1, <1>2, LimitsType DEF UnitsOf, Holding, GateTypeOK
<1>4. UnitsOf(Callers) \cap ({c} \X (1..est[c])) = {c} \X (1..est[c])
  BY <1>1, <1>2, LimitsType DEF UnitsOf, Holding
<1>5. /\ IsFiniteSet({c} \X (1..est[c]))
      /\ Cardinality({c} \X (1..est[c])) = est[c]
  BY <1>1, OneCallersUnits
<1>6. /\ IsFiniteSet(UnitsOf(Callers))
      /\ Cardinality(UnitsOf(Callers)) \in Nat
  BY UnitsFit DEF UnitsBounded
<1>7. ({c} \X (1..est[c])) \subseteq UnitsOf(Callers)
  BY <1>4
<1>8. Cardinality(UnitsOf(Callers) \ ({c} \X (1..est[c]))) =
        Cardinality(UnitsOf(Callers))
            - Cardinality(UnitsOf(Callers) \cap ({c} \X (1..est[c])))
  BY <1>6, FS_Difference
<1>9. Cardinality({c} \X (1..est[c])) <= Cardinality(UnitsOf(Callers))
  BY <1>6, <1>7, FS_Subset
<1>10. QED
  BY <1>3, <1>4, <1>5, <1>8, <1>9

\* A step that touches neither `reserved` nor a permit alive.
KeepsPermits ==
    /\ reserved' = reserved
    /\ \A c \in Callers : Holding(c)' <=> Holding(c)
    /\ \A c \in Callers :
        Holding(c) => est'[c] = est[c] /\ force'[c] = force[c]

\* Every step is an admission, a release, or leaves the permits alone.
LEMMA StepsOfTheGate ==
  ASSUME GateTypeOK, [GateNext]_gateVars
  PROVE  \/ \E c \in Callers : Admit(c) \/ Release(c)
         \/ KeepsPermits
<1> USE DEF GateTypeOK, Holding, KeepsPermits
<1>1. ASSUME NEW c \in Callers, NEW size \in Sizes, NEW hint \in Hints,
             Request(c, size, hint)
      PROVE  KeepsPermits
  BY <1>1 DEF Request
<1>2. ASSUME NEW c \in Callers, Read(c)
      PROVE  KeepsPermits
  BY <1>2 DEF Read
<1>3. ASSUME NEW c \in Callers,
             Refuse(c) \/ Resume(c) \/ Park(c) \/ Wake(c) \/ TimePasses(c)
      PROVE  KeepsPermits
  BY <1>3 DEF Refuse, Resume, Park, Wake, TimePasses
<1>4. CASE MemoryChanges
  BY <1>4 DEF MemoryChanges
<1>5. CASE UNCHANGED gateVars
  BY <1>5 DEF gateVars
<1>6. QED
  BY <1>1, <1>2, <1>3, <1>4, <1>5 DEF GateNext, GateStep

\* `reserved` is the sum of the estimates of the permits alive, in every
\* reachable state, for any number of callers and any order of acquires and
\* releases (acquire_hinted and release never drift apart).
THEOREM GateAccounting == GateSpec => []Accounting
<1>1. GateInit => Accounting
  <2> SUFFICES ASSUME GateInit PROVE Accounting
    OBVIOUS
  <2>1. UnitsOf(Callers) = {}
    BY DEF GateInit, UnitsOf, Holding
  <2>2. QED
    BY <2>1, FS_EmptySet DEF GateInit, Accounting
<1>2. ASSUME GateTypeOK, GateTypeOK', Accounting, [GateNext]_gateVars
      PROVE  Accounting'
  <2>1. CASE KeepsPermits
    <3>1. UnitsOf(Callers)' = UnitsOf(Callers)
      BY <2>1 DEF KeepsPermits, UnitsOf
    <3>2. QED
      BY <1>2, <2>1, <3>1 DEF KeepsPermits, Accounting
  <2>2. ASSUME NEW c \in Callers, Admit(c)
        PROVE  Accounting'
    <3>1. Cardinality(UnitsOf(Callers)') = reserved + est[c]
      BY <1>2, <2>2, AdmitAddsUnits DEF Accounting
    <3>2. UnitsBounded'
      BY <1>2, UnitsFit, PTL
    <3>3. reserved' = WrapAdd(reserved, est[c])
      BY <2>2 DEF Admit
    <3>4. est[c] \in Nat /\ reserved \in Nat
      BY <1>2, EstimateType DEF GateTypeOK
    <3>5. QED
      BY <3>1, <3>2, <3>3, <3>4, GateAssumption
         DEF WrapAdd, Accounting, UnitsBounded
  <2>3. ASSUME NEW c \in Callers, Release(c)
        PROVE  Accounting'
    <3>1. /\ Cardinality(UnitsOf(Callers)') = reserved - est[c]
          /\ est[c] <= reserved
      BY <1>2, <2>3, ReleaseRemovesUnits DEF Accounting
    <3>2. reserved' = SatSub(reserved, est[c])
      BY <2>3 DEF Release
    <3>3. est[c] \in Nat /\ reserved \in Nat
      BY <1>2, EstimateType DEF GateTypeOK
    <3>4. QED
      BY <3>1, <3>2, <3>3 DEF SatSub, Accounting
  <2>4. QED
    BY <1>2, <2>1, <2>2, <2>3, StepsOfTheGate
<1>3. QED
  BY <1>1, <1>2, GateTypeCorrect, PTL DEF GateSpec

\* Permits granted without the timed escape never exceed the aggregate
\* budget together, even when admissions decide on stale memory readings:
\* the ceiling of fits() is decided on `reserved` under the lock.
THEOREM GateCeiling == GateSpec => []CeilingHolds
<1> DEFINE Free == {c \in Callers : ~force[c]}
<1>1. GateInit => CeilingHolds
  <2> SUFFICES ASSUME GateInit PROVE CeilingHolds
    OBVIOUS
  <2>1. UnitsOf(Free) = {}
    BY DEF GateInit, UnitsOf, Holding
  <2>2. QED
    BY <2>1, FS_EmptySet, LimitsType DEF CeilingHolds
<1>2. ASSUME GateTypeOK, GateTypeOK', Accounting, Accounting', CeilingHolds,
             [GateNext]_gateVars
      PROVE  CeilingHolds'
  <2>1. /\ IsFiniteSet(UnitsOf(Callers)) /\ IsFiniteSet(UnitsOf(Callers)')
        /\ reserved \in 0..WordMax /\ reserved' \in 0..WordMax
    <3>1. UnitsBounded'
      BY <1>2, UnitsFit, PTL
    <3>2. QED
      BY <1>2, <3>1, UnitsFit DEF UnitsBounded, GateTypeOK
  <2>2. ASSUME UnitsOf(Free)' \subseteq UnitsOf(Free) PROVE CeilingHolds'
    <3>1. UnitsOf(Free) \subseteq UnitsOf(Callers)
      BY DEF UnitsOf
    <3>2. IsFiniteSet(UnitsOf(Free))
      BY <2>1, <3>1, FS_Subset
    <3>3. Cardinality(UnitsOf(Free)') <= Cardinality(UnitsOf(Free))
      BY <2>2, <3>2, FS_Subset
    <3>4. /\ Cardinality(UnitsOf(Free)) \in Nat
          /\ Cardinality(UnitsOf(Free)') \in Nat
      BY <2>2, <3>2, FS_Subset, FS_CardinalityType
    <3>5. QED
      BY <1>2, <3>3, <3>4, LimitsType DEF CeilingHolds
  <2>3. CASE KeepsPermits
    <3>1. UnitsOf(Free)' \subseteq UnitsOf(Free)
      BY <2>3 DEF KeepsPermits, UnitsOf
    <3>2. QED
      BY <2>2, <3>1
  <2>4. ASSUME NEW c \in Callers, Release(c)
        PROVE  CeilingHolds'
    <3>1. UnitsOf(Free)' \subseteq UnitsOf(Free)
      BY <1>2, <2>4 DEF Release, UnitsOf, Holding, GateTypeOK
    <3>2. QED
      BY <2>2, <3>1
  <2>5. ASSUME NEW c \in Callers, Admit(c), force[c]
        PROVE  CeilingHolds'
    <3>1. UnitsOf(Free)' \subseteq UnitsOf(Free)
      BY <1>2, <2>5 DEF Admit, UnitsOf, Holding, GateTypeOK
    <3>2. QED
      BY <2>2, <3>1
  <2>6. ASSUME NEW c \in Callers, Admit(c), ~force[c]
        PROVE  CeilingHolds'
    <3>1. est[c] \in Nat /\ est[c] <= Budget
      BY <1>2, EstimateType DEF GateTypeOK
    <3>2. reserved' = reserved + est[c]
      BY <1>2, <2>6, AdmitAddsUnits DEF Accounting
    <3>3. reserved' <= Budget
      <4>1. CASE reserved = 0
        BY <3>1, <3>2, <4>1, LimitsType
      <4>2. CASE reserved # 0
        <5>1. SatAdd(reserved, est[c]) <= Budget
          BY <2>6, <4>2 DEF Admit, fits
        <5>2. QED
          BY <2>1, <3>1, <3>2, <5>1, LimitsType, GateAssumption DEF SatAdd
      <4>3. QED
        BY <4>1, <4>2
    <3>4. UnitsOf(Free)' \subseteq UnitsOf(Callers)'
      BY DEF UnitsOf
    <3>5. /\ Cardinality(UnitsOf(Free)') <= Cardinality(UnitsOf(Callers)')
          /\ IsFiniteSet(UnitsOf(Free)')
      BY <2>1, <3>4, FS_Subset
    <3>6. Cardinality(UnitsOf(Callers)') = reserved'
      BY <1>2 DEF Accounting
    <3>7. Cardinality(UnitsOf(Free)') \in Nat
      BY <3>5, FS_CardinalityType
    <3>8. QED
      BY <2>1, <3>3, <3>5, <3>6, <3>7, LimitsType DEF CeilingHolds
  <2>7. QED
    BY <1>2, <2>3, <2>4, <2>5, <2>6, StepsOfTheGate
<1>3. QED
  BY <1>1, <1>2, GateTypeCorrect, GateAccounting, PTL DEF GateSpec

-----------------------------------------------------------------------------
(* The scan. *)

\* The types of the scan's own variables and of the callers' places in the gate.
ScanShape ==
    /\ pc \in [Callers ->
                {"idle", "read", "lock", "refused", "parked", "holding"}]
    /\ beneath \in [Callers -> SUBSET Callers]
    /\ nested \in SUBSET Lanes
    /\ next \in 1..NumFiles + 1
    /\ pending \in Int
    /\ lane \in [Lanes -> {"start", "loop", "done"}]
    /\ job \in [Callers -> 0..NumFiles]
    /\ stage \in [Callers -> Stages]
    /\ analyzed \in Nat /\ skipped \in Nat /\ errors \in Nat
    /\ events \in [Files -> Seq({"ok", "err"})]
    /\ cancelled \in BOOLEAN
    /\ finished \in BOOLEAN

\* A frame has a path exactly while it is in analyze_one_path, and the stage
\* says what the frame has asked of the gate.
FrameInv ==
    \A f \in Callers :
        /\ stage[f] = "none" <=> job[f] = 0
        /\ job[f] < next
        /\ pc[f] = "idle" <=> stage[f] \in {"none", "pulled", "check"}
        /\ pc[f] = "holding" <=>
             stage[f] \in {"filter", "run", "reportOk", "reportErr", "panicked", "leave"}

\* A frame that can hold others up: a lane that has started and not ended, or a
\* pulled path; and one that can be held up: a lane, or a path under analysis.
Active(f) == \/ f = Own(f[1]) /\ lane[f[1]] = "loop"
             \/ f = Pulled(f[1]) /\ stage[f] # "none"
Held(f) == \/ f = Own(f[1]) /\ lane[f[1]] = "loop"
           \/ stage[f] = "run"

\* A pulled path holds up its lane.  A frame holds up others only while it is
\* active, never itself, and with a frame all that this frame holds up: so no
\* frames hold each other up in a circle.
StackInv ==
    /\ \A l \in Lanes : stage[Pulled(l)] # "none" => Own(l) \in beneath[Pulled(l)]
    /\ \A f, g \in Callers :
          g \in beneath[f] => /\ Active(f) /\ Held(g) /\ g # f
                             /\ beneath[g] \subseteq beneath[f]

\* A lane analyses between its start and its end, and ends when the list is used
\* up.
LaneInv ==
    /\ \A l \in Lanes : lane[l] # "loop" => stage[Own(l)] = "none"
    /\ \A l \in Lanes : lane[l] = "done" => next = NumFiles + 1
    /\ finished => \A l \in Lanes : lane[l] = "done"

ScanInv == ScanShape /\ FrameInv /\ StackInv /\ LaneInv /\ OneFramePerPath

\* Every frame belongs to a lane, and a lane has the two frames.
LEMMA FramesOfLanes ==
  /\ \A l \in Lanes : Own(l) \in Callers /\ Pulled(l) \in Callers /\ Own(l) # Pulled(l)
  /\ \A l, m \in Lanes : Own(l) # Pulled(m)
  /\ \A l, m \in Lanes : Own(l) = Own(m) => l = m
  /\ \A l, m \in Lanes : Pulled(l) = Pulled(m) => l = m
  /\ \A f \in Callers : f[1] \in Lanes /\ (f = Own(f[1]) \/ f = Pulled(f[1]))
BY ScanAssumption DEF Own, Pulled

LEMMA ScanInvInit == ScanInit => ScanInv
<1> SUFFICES ASSUME ScanInit PROVE ScanInv
  OBVIOUS
<1> USE ScanAssumption DEF ScanInit, GateInit
<1>1. ScanShape
  <2>1. events \in [Files -> Seq({"ok", "err"})]
    BY DEF Files
  <2>2. next \in 1..NumFiles + 1 /\ pending \in Int
    OBVIOUS
  <2>3. /\ pc \in [Callers ->
                    {"idle", "read", "lock", "refused", "parked", "holding"}]
        /\ job \in [Callers -> 0..NumFiles]
    OBVIOUS
  <2>4. /\ lane \in [Lanes -> {"start", "loop", "done"}]
        /\ stage \in [Callers -> Stages]
    BY DEF Stages
  <2>5. beneath \in [Callers -> SUBSET Callers] /\ nested \in SUBSET Lanes
    OBVIOUS
  <2>6. QED
    BY <2>1, <2>2, <2>3, <2>4, <2>5 DEF ScanShape
<1>2. FrameInv /\ OneFramePerPath
  BY DEF FrameInv, OneFramePerPath
<1>3. LaneInv /\ StackInv
  BY FramesOfLanes DEF LaneInv, StackInv
<1>4. QED
  BY <1>1, <1>2, <1>3 DEF ScanInv

-----------------------------------------------------------------------------
(* What a step does to frames and lanes: a frame takes a path, moves on in   *)
(* analyze_one_path, or drops its path; or a lane starts or ends.           *)

LaneVars == <<lane, finished>>

\* A lane pulls a path on top of its own frame, and of what it helps with.
Piles(f, l) ==
    /\ f = Pulled(l)
    /\ \E helped \in SUBSET Analysing : PutOn(f, {Own(l)} \cup helped)

Takes(f) ==
    /\ stage[f] = "none" /\ next <= NumFiles
    /\ next' = next + 1
    /\ job' = [job EXCEPT ![f] = next]
    /\ stage' = [stage EXCEPT ![f] = "pulled"]
    /\ UNCHANGED LaneVars
    /\ \E l \in Lanes :
          /\ lane[l] = "loop"
          /\ \/ f = Own(l) /\ UNCHANGED <<pc, beneath>>
             \/ Piles(f, l) /\ UNCHANGED pc
             \/ /\ Piles(f, l) /\ pc[Own(l)] = "refused"
                /\ pc' = [pc EXCEPT ![Own(l)] = "read"]

\* The stage of an active frame agrees with its place in the gate.
Agree(s, p) ==
    /\ p = "idle" <=> s \in {"pulled", "check"}
    /\ p = "holding" <=>
         s \in {"filter", "run", "reportOk", "reportErr", "panicked", "leave"}

Moves(f) ==
    /\ stage[f] # "none"
    /\ stage[f] = "run" => Running(f)
    /\ \E s \in Stages \ {"none"}, p \in {"idle", "read", "lock", "refused", "parked", "holding"} :
        /\ Agree(s, p)
        /\ stage' = [stage EXCEPT ![f] = s]
        /\ pc' = [pc EXCEPT ![f] = p]
    /\ UNCHANGED <<beneath, next, job, LaneVars>>

Drops(f) ==
    /\ stage[f] \in {"check", "leave"}
    /\ stage' = [stage EXCEPT ![f] = "none"]
    /\ job' = [job EXCEPT ![f] = 0]
    /\ pc' = [pc EXCEPT ![f] = "idle"]
    /\ PopPulled(f)
    /\ UNCHANGED <<next, LaneVars>>

Turns(l) ==
    /\ \/ /\ lane[l] = "start"
          /\ lane' = [lane EXCEPT ![l] = "loop"]
          /\ \E B \in SUBSET Analysing : PutOn(Own(l), B)
       \/ /\ lane[l] = "loop"
          /\ lane' = [lane EXCEPT ![l] = "done"]
          /\ stage[Own(l)] = "none" /\ next = NumFiles + 1 /\ Running(Own(l))
          /\ beneath' = [beneath EXCEPT ![Own(l)] = {}]
    /\ UNCHANGED <<next, job, stage, pc, finished>>

Returns ==
    /\ \A l \in Lanes : lane[l] = "done"
    /\ UNCHANGED <<beneath, next, job, stage, pc, lane>>

Rests == UNCHANGED <<beneath, next, job, stage, pc, LaneVars>>

\* A frame that is not held up by any starts on top of others that are: the order
\* of who holds up whom stays.
LEMMA PutOnKeeps ==
  ASSUME ScanShape, StackInv, NEW f \in Callers, NEW B \in SUBSET Callers,
         \A g \in Callers : f \notin beneath[g],
         f \notin B, PutOn(f, B)
  PROVE  /\ B \subseteq beneath'[f]
         /\ \A g \in Callers : g # f => beneath'[g] = beneath[g]
         /\ \A g \in beneath'[f] : g \in B \/ \E b \in B : g \in beneath[b]
         /\ \A g, h \in Callers :
              h \in beneath'[g] => h # g /\ beneath'[h] \subseteq beneath'[g]
<1>1. /\ beneath'[f] = B \cup UNION {beneath[g] : g \in B}
      /\ \A g \in Callers : g # f => beneath'[g] = beneath[g]
  BY DEF PutOn, ScanShape
<1>2. f \notin beneath'[f]
  BY <1>1
<1>3. ASSUME NEW g \in Callers, NEW h \in Callers, h \in beneath'[g]
      PROVE  h # g /\ beneath'[h] \subseteq beneath'[g]
  <2>1. CASE g = f
    <3>1. h # f
      BY <1>2, <1>3, <2>1
    <3>2. beneath'[h] = beneath[h]
      BY <1>1, <3>1
    <3>3. CASE h \in B
      BY <1>1, <2>1, <3>1, <3>2, <3>3
    <3>4. CASE \E b \in B : h \in beneath[b]
      <4>1. PICK b \in B : h \in beneath[b]
        BY <3>4
      <4>2. beneath[h] \subseteq beneath[b]
        BY <4>1 DEF StackInv
      <4>3. QED
        BY <1>1, <2>1, <3>1, <3>2, <4>1, <4>2
    <3>5. QED
      BY <1>1, <1>3, <2>1, <3>3, <3>4
  <2>2. CASE g # f
    <3>1. h \in beneath[g]
      BY <1>1, <1>3, <2>2
    <3>2. h # f
      BY <3>1
    <3>3. QED
      BY <1>1, <2>2, <3>1, <3>2 DEF StackInv
  <2>3. QED
    BY <2>1, <2>2
<1>4. QED
  BY <1>1, <1>3

\* A frame that takes the next path keeps the frames consistent: the path was
\* nobody's, and the frame below stands still.
LEMMA TakesKeeps ==
  ASSUME ScanInv, NEW f \in Callers, Takes(f)
  PROVE  FrameInv' /\ StackInv' /\ LaneInv' /\ OneFramePerPath'
<1> USE ScanAssumption
<1>1. ScanShape /\ FrameInv /\ StackInv /\ LaneInv /\ OneFramePerPath
  BY DEF ScanInv
<1>2. /\ stage'[f] = "pulled" /\ job'[f] = next /\ stage[f] = "none" /\ job[f] = 0
      /\ pc'[f] = "idle"
      /\ next \in Nat /\ next > 0 /\ next <= NumFiles /\ next' = next + 1
      /\ \A g \in Callers : g # f => stage'[g] = stage[g] /\ job'[g] = job[g]
  <2>1. /\ stage'[f] = "pulled" /\ job'[f] = next /\ stage[f] = "none" /\ job[f] = 0
        /\ \A g \in Callers : g # f => stage'[g] = stage[g] /\ job'[g] = job[g]
    BY <1>1 DEF Takes, ScanShape, FrameInv
  <2>2. next \in Nat /\ next > 0 /\ next <= NumFiles /\ next' = next + 1
    BY <1>1 DEF Takes, ScanShape
  <2>3. pc[f] = "idle"
    BY <1>1, <2>1 DEF FrameInv
  <2>4. pc' = pc \/ \E l \in Lanes : /\ f = Pulled(l)
                                   /\ pc' = [pc EXCEPT ![Own(l)] = "read"]
    BY DEF Takes, Piles
  <2>5. pc'[f] = "idle"
    BY <1>1, <2>3, <2>4, FramesOfLanes DEF ScanShape
  <2>6. QED
    BY <2>1, <2>2, <2>5
<1>3. \A g \in Callers : \/ pc'[g] = pc[g]
                         \/ pc[g] = "refused" /\ pc'[g] = "read" /\ g # f
  <2>1. CASE pc' = pc
    BY <2>1
  <2>2. CASE \E l \in Lanes : /\ f = Pulled(l) /\ pc[Own(l)] = "refused"
                              /\ pc' = [pc EXCEPT ![Own(l)] = "read"]
    <3>1. PICK l \in Lanes : /\ f = Pulled(l) /\ pc[Own(l)] = "refused"
                             /\ pc' = [pc EXCEPT ![Own(l)] = "read"]
      BY <2>2
    <3>2. Own(l) # f
      BY <3>1, FramesOfLanes
    <3>3. pc'[Own(l)] = "read" /\ \A g \in Callers : g # Own(l) => pc'[g] = pc[g]
      BY <1>1, <3>1, FramesOfLanes DEF ScanShape
    <3>4. QED
      BY <3>1, <3>2, <3>3
  <2>3. QED
    BY <2>1, <2>2 DEF Takes, Piles
<1>4. \A g \in Callers : job[g] \in 0..NumFiles /\ job[g] < next
  BY <1>1 DEF ScanShape, FrameInv
<1>5. FrameInv'
  <2> SUFFICES ASSUME NEW g \in Callers
               PROVE  /\ stage'[g] = "none" <=> job'[g] = 0
                      /\ job'[g] < next'
                      /\ pc'[g] = "idle" <=> stage'[g] \in {"none", "pulled", "check"}
                      /\ pc'[g] = "holding" <=>
                           stage'[g] \in {"filter", "run", "reportOk", "reportErr",
                                          "panicked", "leave"}
    BY DEF FrameInv
  <2>1. CASE g = f
    BY <1>2, <2>1
  <2>2. CASE g # f
    BY <1>1, <1>2, <1>3, <1>4, <2>2 DEF FrameInv
  <2>3. QED
    BY <2>1, <2>2
<1>6. OneFramePerPath'
  BY <1>1, <1>2, <1>4 DEF OneFramePerPath
<1>7. PICK l \in Lanes :
           /\ lane[l] = "loop"
           /\ \/ f = Own(l) /\ UNCHANGED beneath
              \/ Piles(f, l)
  BY DEF Takes
<1>8. LaneInv'
  <2>1. lane' = lane /\ finished' = finished
    BY DEF Takes, LaneVars
  <2>2. ~finished /\ \A m \in Lanes : lane[m] # "done"
    BY <1>1, <1>2, <1>7 DEF LaneInv
  <2>3. \A m \in Lanes : Own(m) \in Callers /\ (Own(m) = f => m = l)
    BY <1>7, FramesOfLanes DEF Piles
  <2>4. \A m \in Lanes : lane[m] # "loop" => stage'[Own(m)] = "none"
    BY <1>1, <1>2, <1>7, <2>3 DEF LaneInv
  <2>5. QED
    BY <2>1, <2>2, <2>4 DEF LaneInv
<1>9. StackInv'
  <2>1. lane' = lane
    BY DEF Takes, LaneVars
  <2>2. CASE f = Own(l) /\ UNCHANGED beneath
    <3>1. \A g \in Callers : (Active(g) => Active(g)') /\ (Held(g) => Held(g)')
      BY <1>2, <1>7, <2>1, <2>2, FramesOfLanes DEF Active, Held
    <3>2. \A m \in Lanes : Pulled(m) \in Callers /\ Pulled(m) # f
      BY <2>2, FramesOfLanes
    <3>3. \A m \in Lanes : stage'[Pulled(m)] = stage[Pulled(m)]
      BY <1>2, <3>2
    <3>4. QED
      BY <1>1, <2>2, <3>1, <3>3 DEF StackInv
  <2>3. CASE Piles(f, l)
    <3>1. PICK helped \in SUBSET Analysing : PutOn(f, {Own(l)} \cup helped)
      BY <2>3 DEF Piles
    <3> DEFINE B == {Own(l)} \cup helped
    <3>2. f = Pulled(l) /\ Own(l) # f /\ Own(l) \in Callers /\ f # Own(f[1]) /\ f[1] = l
      BY <2>3, FramesOfLanes DEF Piles, Pulled
    <3>3. B \in SUBSET Callers /\ f \notin B
      BY <1>2, <3>2 DEF Analysing
    <3>4. ~Held(f)
      BY <1>2, <3>2 DEF Held
    <3>5. \A g \in Callers : f \notin beneath[g]
      BY <1>1, <3>4 DEF StackInv
    <3>6. PutOn(f, B)
      BY <3>1
    <3>7. \A b \in B : Held(b)
      <4>1. Own(l)[1] = l
        BY DEF Own
      <4>2. Held(Own(l))
        BY <1>7, <4>1 DEF Held
      <4>3. \A b \in helped : Held(b)
        BY DEF Analysing, Held
      <4>4. QED
        BY <4>2, <4>3
    <3> HIDE DEF B
    <3>8. /\ B \subseteq beneath'[f]
          /\ \A g \in Callers : g # f => beneath'[g] = beneath[g]
          /\ \A g \in beneath'[f] : g \in B \/ \E b \in B : g \in beneath[b]
          /\ \A g, h \in Callers :
               h \in beneath'[g] => h # g /\ beneath'[h] \subseteq beneath'[g]
      BY <1>1, <3>3, <3>5, <3>6, PutOnKeeps
    <3>9. \A g \in Callers : g # f => (Active(g) => Active(g)') /\ (Held(g) => Held(g)')
      BY <1>2, <2>1 DEF Active, Held
    <3>10. Active(f)'
      BY <1>2, <3>2 DEF Active
    <3>11. ASSUME NEW g \in Callers, NEW h \in Callers, h \in beneath'[g]
           PROVE  Active(g)' /\ Held(h)'
      <4>1. h # f
        BY <3>5, <3>3, <3>8, <3>11
      <4>2. CASE g = f
        <5>1. Held(h)
          BY <1>1, <3>3, <3>7, <3>8, <3>11, <4>2 DEF StackInv
        <5>2. QED
          BY <3>9, <3>10, <4>1, <4>2, <5>1
      <4>3. CASE g # f
        BY <1>1, <3>8, <3>9, <3>11, <4>1, <4>3 DEF StackInv
      <4>4. QED
        BY <4>2, <4>3
    <3>12. \A m \in Lanes : stage'[Pulled(m)] # "none" => Own(m) \in beneath'[Pulled(m)]
      <4>1. Own(l) \in B
        BY DEF B
      <4>2. \A m \in Lanes : Pulled(m) \in Callers /\ (Pulled(m) = f => m = l)
        BY <3>2, FramesOfLanes
      <4>3. QED
        BY <1>1, <1>2, <3>2, <3>8, <4>1, <4>2 DEF StackInv
    <3>13. QED
      BY <3>8, <3>11, <3>12 DEF StackInv
  <2>4. QED
    BY <1>7, <2>2, <2>3
<1>10. QED
  BY <1>5, <1>6, <1>8, <1>9

\* A frame that moves on keeps them consistent: it is not below another one.
LEMMA MovesKeeps ==
  ASSUME ScanInv, NEW f \in Callers, Moves(f)
  PROVE  FrameInv' /\ StackInv' /\ LaneInv' /\ OneFramePerPath'
<1>1. ScanShape /\ FrameInv /\ StackInv /\ LaneInv /\ OneFramePerPath
  BY DEF ScanInv
<1>2. PICK s \in Stages \ {"none"},
           p \in {"idle", "read", "lock", "refused", "parked", "holding"} :
        /\ Agree(s, p)
        /\ stage' = [stage EXCEPT ![f] = s]
        /\ pc' = [pc EXCEPT ![f] = p]
  BY DEF Moves
<1>3. /\ stage'[f] = s /\ pc'[f] = p
      /\ \A g \in Callers : g # f => stage'[g] = stage[g] /\ pc'[g] = pc[g]
      /\ job' = job /\ next' = next /\ lane' = lane /\ finished' = finished
  BY <1>1, <1>2 DEF Moves, LaneVars, ScanShape
<1>4. FrameInv'
  <2> SUFFICES ASSUME NEW g \in Callers
               PROVE  /\ stage'[g] = "none" <=> job'[g] = 0
                      /\ job'[g] < next'
                      /\ pc'[g] = "idle" <=> stage'[g] \in {"none", "pulled", "check"}
                      /\ pc'[g] = "holding" <=>
                           stage'[g] \in {"filter", "run", "reportOk", "reportErr",
                                          "panicked", "leave"}
    BY DEF FrameInv
  <2>1. CASE g = f
    BY <1>1, <1>2, <1>3, <2>1 DEF FrameInv, Agree, Moves
  <2>2. CASE g # f
    BY <1>1, <1>3, <2>2 DEF FrameInv
  <2>3. QED
    BY <2>1, <2>2
<1>5. OneFramePerPath'
  BY <1>1, <1>3 DEF OneFramePerPath
<1>6. LaneInv'
  BY <1>1, <1>3, FramesOfLanes DEF LaneInv, Moves
<1>7. StackInv'
  <2>1. beneath' = beneath /\ stage[f] # "none" /\ s # "none"
    BY DEF Moves
  <2>2. \A g \in Callers : Active(g) => Active(g)'
    BY <1>3, <2>1 DEF Active
  <2>3. ASSUME NEW g \in Callers, NEW h \in Callers, h \in beneath[g] PROVE Held(h)'
    <3>1. Held(h)
      BY <1>1, <2>3 DEF StackInv
    <3>2. CASE h = f
      <4>1. stage[f] # "run"
        BY <2>3, <3>2 DEF Moves, Running
      <4>2. QED
        BY <1>3, <3>1, <3>2, <4>1 DEF Held
    <3>3. CASE h # f
      BY <1>3, <3>1, <3>3 DEF Held
    <3>4. QED
      BY <3>2, <3>3
  <2>4. \A l \in Lanes : Pulled(l) \in Callers /\ (stage'[Pulled(l)] # "none" => stage[Pulled(l)] # "none")
    BY <1>3, <2>1, FramesOfLanes
  <2>5. QED
    BY <1>1, <2>1, <2>2, <2>3, <2>4 DEF StackInv
<1>8. QED
  BY <1>4, <1>5, <1>6, <1>7

\* A frame that drops its path keeps them consistent.
LEMMA DropsKeeps ==
  ASSUME ScanInv, NEW f \in Callers, Drops(f)
  PROVE  FrameInv' /\ StackInv' /\ LaneInv' /\ OneFramePerPath'
<1>1. ScanShape /\ FrameInv /\ StackInv /\ LaneInv /\ OneFramePerPath
  BY DEF ScanInv
<1>2. /\ stage'[f] = "none" /\ pc'[f] = "idle" /\ job'[f] = 0
      /\ \A g \in Callers :
            g # f => stage'[g] = stage[g] /\ pc'[g] = pc[g] /\ job'[g] = job[g]
      /\ next' = next /\ lane' = lane /\ finished' = finished
  BY <1>1 DEF Drops, LaneVars, ScanShape
<1>3. FrameInv'
  <2> SUFFICES ASSUME NEW g \in Callers
               PROVE  /\ stage'[g] = "none" <=> job'[g] = 0
                      /\ job'[g] < next'
                      /\ pc'[g] = "idle" <=> stage'[g] \in {"none", "pulled", "check"}
                      /\ pc'[g] = "holding" <=>
                           stage'[g] \in {"filter", "run", "reportOk", "reportErr",
                                          "panicked", "leave"}
    BY DEF FrameInv
  <2>1. CASE g = f
    BY <1>1, <1>2, <2>1 DEF ScanShape
  <2>2. CASE g # f
    BY <1>1, <1>2, <2>2 DEF FrameInv
  <2>3. QED
    BY <2>1, <2>2
<1>4. OneFramePerPath'
  BY <1>1, <1>2 DEF OneFramePerPath
<1>5. LaneInv'
  BY <1>1, <1>2, FramesOfLanes DEF LaneInv
<1>6. StackInv'
  <2>1. /\ stage[f] # "none" /\ stage[f] # "run"
        /\ beneath' = [beneath EXCEPT ![f] = IF f = Own(f[1]) THEN @ ELSE {}]
    BY DEF Drops, PopPulled
  <2>2. CASE f = Own(f[1])
    <3>1. beneath' = beneath
      BY <1>1, <2>1, <2>2 DEF ScanShape
    <3>2. \A g \in Callers : (Active(g) => Active(g)') /\ (Held(g) => Held(g)')
      BY <1>2, <2>1, <2>2, FramesOfLanes DEF Active, Held
    <3>3. \A l \in Lanes : Pulled(l) \in Callers /\ Pulled(l) # f
      BY <2>2, FramesOfLanes
    <3>4. \A l \in Lanes : stage'[Pulled(l)] = stage[Pulled(l)]
      BY <1>2, <3>3
    <3>5. QED
      BY <1>1, <3>1, <3>2, <3>4 DEF StackInv
  <2>3. CASE f # Own(f[1])
    <3>1. ~Held(f)
      BY <2>1, <2>3 DEF Held
    <3>2. \A g \in Callers : f \notin beneath[g]
      BY <1>1, <3>1 DEF StackInv
    <3>3. beneath'[f] = {} /\ \A g \in Callers : g # f => beneath'[g] = beneath[g]
      BY <1>1, <2>1, <2>3 DEF ScanShape
    <3>4. \A g \in Callers : g # f => (Active(g) => Active(g)') /\ (Held(g) => Held(g)')
      BY <1>2 DEF Active, Held
    <3>5. ASSUME NEW g \in Callers, NEW h \in Callers, h \in beneath'[g]
          PROVE  /\ Active(g)' /\ Held(h)' /\ h # g
                 /\ beneath'[h] \subseteq beneath'[g]
      <4>1. g # f /\ h \in beneath[g]
        BY <3>3, <3>5
      <4>2. h # f
        BY <3>2, <4>1
      <4>3. QED
        BY <1>1, <3>3, <3>4, <4>1, <4>2 DEF StackInv
    <3>6. ASSUME NEW l \in Lanes, stage'[Pulled(l)] # "none"
          PROVE  Own(l) \in beneath'[Pulled(l)]
      BY <1>1, <1>2, <3>3, <3>6, FramesOfLanes DEF StackInv
    <3>7. QED
      BY <3>5, <3>6 DEF StackInv
  <2>4. QED
    BY <2>2, <2>3
<1>7. QED
  BY <1>3, <1>4, <1>5, <1>6

\* Lanes that start, end or return, and steps that touch no frame.
LEMMA TurnsKeeps ==
  ASSUME ScanInv, (\E l \in Lanes : Turns(l)) \/ Returns \/ Rests
  PROVE  FrameInv' /\ StackInv' /\ LaneInv' /\ OneFramePerPath'
<1>1. ScanShape /\ FrameInv /\ StackInv /\ LaneInv /\ OneFramePerPath
  BY DEF ScanInv
<1>2. /\ stage' = stage /\ job' = job /\ pc' = pc /\ next' = next
  BY DEF Turns, Returns, Rests, LaneVars
<1>3. FrameInv' /\ OneFramePerPath'
  BY <1>1, <1>2 DEF FrameInv, OneFramePerPath
<1>4. ASSUME NEW l \in Lanes, Turns(l) PROVE LaneInv' /\ StackInv'
  <2> DEFINE f == Own(l)
  <2>0. /\ f \in Callers /\ f[1] = l /\ stage[f] # "run" /\ f # Pulled(f[1])
        /\ \A m \in Lanes : Pulled(m) \in Callers /\ Pulled(m) # f
    <3>1. stage[f] = "none"
      BY <1>1, <1>4 DEF LaneInv, Turns
    <3>2. QED
      BY <3>1, FramesOfLanes DEF Own
  <2>1. \A g \in Callers : g # f => (Active(g) => Active(g)') /\ (Held(g) => Held(g)')
    <3>1. ASSUME NEW g \in Callers, g # f, g = Own(g[1]) PROVE g[1] # l
      BY <3>1
    <3>2. \A m \in Lanes : m # l => lane'[m] = lane[m]
      BY <1>1, <1>4 DEF Turns, ScanShape
    <3>3. \A g \in Callers : g[1] \in Lanes
      BY FramesOfLanes
    <3>4. QED
      BY <1>2, <3>1, <3>2, <3>3 DEF Active, Held
  <2>2. CASE lane[l] = "start"
    <3>1. /\ lane' = [lane EXCEPT ![l] = "loop"] /\ finished' = finished
      BY <1>4, <2>2 DEF Turns
    <3>2. PICK B \in SUBSET Analysing : PutOn(f, B)
      BY <1>4, <2>2 DEF Turns
    <3>3. LaneInv'
      BY <1>1, <1>2, <2>2, <3>1 DEF LaneInv, ScanShape
    <3>4. ~Held(f)
      BY <2>0, <2>2 DEF Held
    <3>5. \A g \in Callers : f \notin beneath[g]
      BY <1>1, <2>0, <3>4 DEF StackInv
    <3>6. B \in SUBSET Callers /\ f \notin B /\ \A b \in B : Held(b)
      BY <2>0 DEF Analysing, Held
    <3> HIDE DEF f
    <3>7. /\ \A g \in Callers : g # f => beneath'[g] = beneath[g]
          /\ \A g \in beneath'[f] : g \in B \/ \E b \in B : g \in beneath[b]
          /\ \A g, h \in Callers :
               h \in beneath'[g] => h # g /\ beneath'[h] \subseteq beneath'[g]
      BY <1>1, <2>0, <3>2, <3>5, <3>6, PutOnKeeps
    <3>8. Active(f)'
      <4>1. lane'[l] = "loop"
        BY <1>1, <3>1 DEF ScanShape
      <4>2. QED
        BY <2>0, <4>1 DEF Active, f
    <3>9. ASSUME NEW g \in Callers, NEW h \in Callers, h \in beneath'[g]
          PROVE  Active(g)' /\ Held(h)'
      <4>1. h # f
        BY <3>5, <3>6, <3>7, <3>9
      <4>2. CASE g = f
        <5>1. Held(h)
          BY <1>1, <3>6, <3>7, <3>9, <4>2 DEF StackInv
        <5>2. QED
          BY <2>1, <3>8, <4>1, <4>2, <5>1
      <4>3. CASE g # f
        BY <1>1, <2>1, <3>7, <3>9, <4>1, <4>3 DEF StackInv
      <4>4. QED
        BY <4>2, <4>3
    <3>10. \A m \in Lanes : stage'[Pulled(m)] # "none" => Own(m) \in beneath'[Pulled(m)]
      BY <1>1, <1>2, <2>0, <3>7 DEF StackInv
    <3>11. StackInv'
      BY <3>7, <3>9, <3>10 DEF StackInv
    <3>12. QED
      BY <3>3, <3>11
  <2>3. CASE lane[l] = "loop"
    <3>1. /\ lane' = [lane EXCEPT ![l] = "done"] /\ finished' = finished
          /\ stage[f] = "none" /\ next = NumFiles + 1 /\ Running(f)
          /\ beneath' = [beneath EXCEPT ![f] = {}]
      BY <1>4, <2>3 DEF Turns
    <3>2. LaneInv'
      BY <1>1, <1>2, <2>3, <3>1 DEF LaneInv, ScanShape
    <3> HIDE DEF f
    <3>3. beneath'[f] = {} /\ \A g \in Callers : g # f => beneath'[g] = beneath[g]
      BY <1>1, <2>0, <3>1 DEF ScanShape
    <3>4. \A g \in Callers : f \notin beneath[g]
      BY <3>1 DEF Running
    <3>5. ASSUME NEW g \in Callers, NEW h \in Callers, h \in beneath'[g]
          PROVE  /\ Active(g)' /\ Held(h)' /\ h # g
                 /\ beneath'[h] \subseteq beneath'[g]
      <4>1. g # f /\ h \in beneath[g]
        BY <3>3, <3>5
      <4>2. h # f
        BY <3>4, <4>1
      <4>3. QED
        BY <1>1, <2>1, <3>3, <4>1, <4>2 DEF StackInv
    <3>6. \A m \in Lanes : stage'[Pulled(m)] # "none" => Own(m) \in beneath'[Pulled(m)]
      BY <1>1, <1>2, <2>0, <3>3 DEF StackInv
    <3>7. StackInv'
      BY <3>5, <3>6 DEF StackInv
    <3>8. QED
      BY <3>2, <3>7
  <2>4. QED
    BY <1>4, <2>2, <2>3 DEF Turns
<1>5. ASSUME Returns \/ Rests PROVE StackInv'
  <2>1. lane' = lane /\ beneath' = beneath
    BY <1>5 DEF Returns, Rests, LaneVars
  <2>2. QED
    BY <1>1, <1>2, <2>1 DEF StackInv, Active, Held
<1>6. CASE Returns
  BY <1>1, <1>2, <1>3, <1>5, <1>6 DEF LaneInv, Returns
<1>7. CASE Rests
  BY <1>1, <1>2, <1>3, <1>5, <1>7 DEF LaneInv, Rests, LaneVars
<1>8. QED
  BY <1>3, <1>4, <1>6, <1>7

-----------------------------------------------------------------------------
(* Every step of the scan is one of these; and what it does to the books.    *)

BookVars == <<pending, analyzed, skipped, errors, events>>

\* A frame goes from one stage to the next without an entry in the books.
Passes(f) ==
    /\ \/ stage[f] = "check" /\ stage' = [stage EXCEPT ![f] = "gate"]
       \/ stage[f] = "gate" /\ stage' = [stage EXCEPT ![f] = "filter"]
       \/ stage[f] = "filter" /\ stage' = [stage EXCEPT ![f] = "run"]
       \/ stage[f] = "filter" /\ stage' = [stage EXCEPT ![f] = "panicked"]
    /\ UNCHANGED <<job, next, finished, BookVars>>

\* analyze_one_path returns.
Departs(f) ==
    /\ stage[f] = "leave"
    /\ stage' = [stage EXCEPT ![f] = "none"]
    /\ job' = [job EXCEPT ![f] = 0]
    /\ UNCHANGED <<next, finished, BookVars>>

Still == UNCHANGED <<stage, job, next, finished, BookVars>>

FrameKinds == \/ \E f \in Callers : Takes(f) \/ Moves(f) \/ Drops(f)
              \/ \E l \in Lanes : Turns(l)
              \/ Returns \/ Rests

BookKinds ==
    \/ \E f \in Callers :
        \/ Takes(f) /\ UNCHANGED BookVars
        \/ AdmitPath(f) \/ SkipCancelled(f) \/ FilterOut(f)
        \/ AnalysisOk(f) \/ AnalysisErr(f)
        \/ Callback(f) \/ CallbackPanic(f) \/ CatchPanic(f)
        \/ Passes(f) \/ Departs(f)
    \/ Finish
    \/ Still

\* Every variable of the scan keeps its type.
LEMMA ShapeNext == ASSUME ScanInv, [ScanNext]_vars PROVE ScanShape'
<1>0. ScanShape /\ FrameInv
  BY DEF ScanInv
<1> USE <1>0, ScanAssumption
<1> DEFINE ScanRest ==
      /\ stage \in [Callers -> Stages] /\ job \in [Callers -> 0..NumFiles]
      /\ next \in 1..NumFiles + 1
<1>a. \A l \in Lanes : Own(l) \in Callers /\ Pulled(l) \in Callers
  BY FramesOfLanes
<1>b. ASSUME NEW f \in Callers, NEW B \in SUBSET Callers, PutOn(f, B)
      PROVE  beneath' \in [Callers -> SUBSET Callers]
  BY <1>b DEF PutOn, ScanShape
<1>c. ASSUME NEW f \in Callers, PopPulled(f)
      PROVE  beneath' \in [Callers -> SUBSET Callers]
  BY <1>c DEF PopPulled, ScanShape
<1>d. ASSUME NEW f \in Callers, TakeNext(f) PROVE ScanRest'
  BY <1>d DEF ScanShape, Stages, Goto, TakeNext
<1>e. Analysing \subseteq Callers
  BY DEF Analysing
<1>1. ASSUME NEW l \in Lanes, StartLane(l) PROVE ScanShape'
  <2>1. beneath' \in [Callers -> SUBSET Callers]
    <3>1. PICK helped \in SUBSET Analysing : PutOn(Own(l), helped)
      BY <1>1 DEF StartLane
    <3>2. QED
      BY <1>a, <1>b, <1>e, <3>1
  <2>2. QED
    BY <1>1, <2>1 DEF ScanShape, gateVars, StartLane
<1>27. ASSUME NEW l \in Lanes, NEW f \in Callers, StealLane(l, f) PROVE ScanShape'
  <2>1. beneath' \in [Callers -> SUBSET Callers]
    <3>1. PICK helped \in SUBSET Analysing : PutOn(Own(l), {f} \cup helped)
      BY <1>27 DEF StealLane
    <3>2. QED
      BY <1>a, <1>b, <1>e, <3>1
  <2>2. nested' \in SUBSET Lanes
    BY <1>27 DEF ScanShape, StealLane
  <2>3. QED
    BY <1>27, <2>1, <2>2 DEF ScanShape, gateVars, StealLane
<1>2. ASSUME NEW l \in Lanes, LanePull(l) PROVE ScanShape'
  <2>1. ScanRest'
    BY <1>2, <1>a, <1>d DEF LanePull
  <2>2. QED
    BY <1>2, <2>1 DEF ScanShape, LanePull, TakeNext, gateVars, stackVars
<1>3. ASSUME NEW l \in Lanes, LaneEnds(l) PROVE ScanShape'
  <2>1. beneath' \in [Callers -> SUBSET Callers]
    BY <1>3 DEF ScanShape, LaneEnds
  <2>2. QED
    BY <1>3, <2>1 DEF ScanShape, Stages, gateVars, LaneEnds
<1>4. ASSUME NEW l \in Lanes, GatePull(l) PROVE ScanShape'
  <2>1. ScanRest' /\ beneath' \in [Callers -> SUBSET Callers]
    BY <1>4, <1>a, <1>b, <1>d DEF GatePull
  <2>2. pc' = [pc EXCEPT ![Own(l)] = "read"]
    BY <1>4 DEF GatePull, Resume
  <2>3. QED
    BY <1>4, <1>a, <2>1, <2>2 DEF ScanShape, GatePull, TakeNext
<1>5. ASSUME NEW l \in Lanes, FlightPull(l) PROVE ScanShape'
  <2>1. ScanRest'
    BY <1>5, <1>a, <1>d DEF FlightPull
  <2>2. beneath' \in [Callers -> SUBSET Callers]
    <3>1. PICK helped \in SUBSET Analysing : PutOn(Pulled(l), {Own(l)} \cup helped)
      BY <1>5 DEF FlightPull
    <3>2. QED
      BY <1>a, <1>b, <1>e, <3>1
  <2>3. QED
    BY <1>5, <2>1, <2>2 DEF ScanShape, FlightPull, TakeNext, gateVars
<1>6. ASSUME NEW f \in Callers, AdmitPath(f) PROVE ScanShape'
  BY <1>6 DEF ScanShape, Stages, gateVars, stackVars, Goto, AdmitPath
<1>7. ASSUME NEW f \in Callers, SkipCancelled(f) PROVE ScanShape'
  <2>1. beneath' \in [Callers -> SUBSET Callers]
    BY <1>7, <1>c DEF SkipCancelled
  <2>2. QED
    BY <1>7, <2>1 DEF ScanShape, Stages, gateVars, stackVars, Goto, SkipCancelled
<1>8. ASSUME NEW f \in Callers, EnterGate(f) PROVE ScanShape'
  BY <1>8 DEF ScanShape, Stages, gateVars, stackVars, Goto, EnterGate, Request
<1>9. ASSUME NEW f \in Callers, GatePark(f) PROVE ScanShape'
  BY <1>9 DEF ScanShape, Stages, gateVars, stackVars, Goto, GatePark, Park, scanVars
<1>10. ASSUME NEW f \in Callers, GateAdmit(f) PROVE ScanShape'
  BY <1>10 DEF ScanShape, Stages, gateVars, stackVars, Goto, GateAdmit, Admit
<1>11. ASSUME NEW f \in Callers, GateLoop(f) PROVE ScanShape'
  <2>1. CASE Read(f)
    BY <1>11, <2>1 DEF ScanShape, GateLoop, scanVars, stackVars, Read
  <2>2. CASE Refuse(f)
    BY <1>11, <2>2 DEF ScanShape, GateLoop, scanVars, stackVars, Refuse
  <2>3. CASE Wake(f)
    BY <1>11, <2>3 DEF ScanShape, GateLoop, scanVars, stackVars, Wake
  <2>4. QED
    BY <1>11, <2>1, <2>2, <2>3 DEF GateLoop
<1>12. ASSUME NEW f \in Callers, FilterOut(f) PROVE ScanShape'
  BY <1>12 DEF ScanShape, Stages, gateVars, stackVars, Goto, FilterOut
<1>13. ASSUME NEW f \in Callers, FilterPass(f) PROVE ScanShape'
  BY <1>13 DEF ScanShape, Stages, gateVars, stackVars, Goto, FilterPass
<1>14. ASSUME NEW f \in Callers, FilterPanics(f) PROVE ScanShape'
  BY <1>14 DEF ScanShape, Stages, gateVars, stackVars, Goto, FilterPanics
<1>15. ASSUME NEW f \in Callers, AnalysisOk(f) PROVE ScanShape'
  BY <1>15 DEF ScanShape, Stages, gateVars, stackVars, Goto, AnalysisOk
<1>16. ASSUME NEW f \in Callers, AnalysisErr(f) PROVE ScanShape'
  BY <1>16 DEF ScanShape, Stages, gateVars, stackVars, Goto, AnalysisErr
<1>17. ASSUME NEW f \in Callers, Callback(f) PROVE ScanShape'
  BY <1>17 DEF ScanShape, Stages, gateVars, stackVars, Goto, Callback, Deliver, FrameInv, Files
<1>18. ASSUME NEW f \in Callers, CallbackPanic(f) PROVE ScanShape'
  BY <1>18 DEF ScanShape, Stages, gateVars, stackVars, Goto, CallbackPanic, Deliver, FrameInv, Files
<1>19. ASSUME NEW f \in Callers, CatchPanic(f) PROVE ScanShape'
  BY <1>19 DEF ScanShape, Stages, gateVars, stackVars, Goto, CatchPanic, Deliver, FrameInv, Files
<1>20. ASSUME NEW f \in Callers, Leave(f) PROVE ScanShape'
  <2>1. beneath' \in [Callers -> SUBSET Callers]
    BY <1>20, <1>c DEF Leave
  <2>2. QED
    BY <1>20, <2>1 DEF ScanShape, Stages, gateVars, stackVars, Goto, Leave, Release
<1>21. CASE Finish
  BY <1>21 DEF ScanShape, Stages, gateVars, stackVars, Goto, Finish
<1>22. CASE Cancel
  BY <1>22 DEF ScanShape, Stages, gateVars, stackVars, Goto, Cancel
<1>23. ASSUME NEW f \in Callers, GateTime(f) PROVE ScanShape'
  BY <1>23 DEF ScanShape, Stages, gateVars, stackVars, Goto, GateTime, TimePasses, scanVars
<1>24. CASE HostMemory
  BY <1>24 DEF ScanShape, Stages, gateVars, stackVars, Goto, HostMemory, MemoryChanges, scanVars
<1>25. CASE UNCHANGED vars
  BY <1>25 DEF ScanShape, Stages, gateVars, stackVars, Goto, vars, scanVars
<1>26. QED
  BY <1>1, <1>27, <1>2, <1>3, <1>4, <1>5, <1>6, <1>7, <1>8, <1>9, <1>10, <1>11, <1>12, <1>13, <1>14, <1>15, <1>16, <1>17, <1>18, <1>19, <1>20, <1>21, <1>22, <1>23, <1>24, <1>25
     DEF ScanNext, LaneStep, FrameStep

\* A way to show that a frame moves: name its next stage and place.
LEMMA MoveIntro ==
  ASSUME ScanShape, NEW f \in Callers, NEW s \in Stages \ {"none"},
         NEW p \in {"idle", "read", "lock", "refused", "parked", "holding"},
         stage[f] # "none", stage[f] = "run" => Running(f), Agree(s, p),
         stage' = [stage EXCEPT ![f] = s], pc' = [pc EXCEPT ![f] = p],
         UNCHANGED <<beneath, next, job, LaneVars>>
  PROVE  FrameKinds
BY DEF FrameKinds, Moves

\* A wait-time pull takes a path: the lane runs, and its pulled frame is free.
LEMMA PullsTake ==
  ASSUME ScanInv, NEW l \in Lanes, GatePull(l) \/ FlightPull(l)
  PROVE  Pulled(l) \in Callers /\ Takes(Pulled(l)) /\ UNCHANGED BookVars
<1>0. ScanShape /\ FrameInv /\ StackInv /\ LaneInv
  BY DEF ScanInv
<1>1. /\ Pulled(l) \in Callers /\ Own(l) \in Callers
  BY FramesOfLanes
<1>2. Running(Own(l)) /\ TakeNext(Pulled(l))
  BY DEF GatePull, FlightPull
<1>3. stage[Pulled(l)] = "none"
  BY <1>0, <1>1, <1>2 DEF StackInv, Running
<1>4. /\ next <= NumFiles /\ next' = next + 1
      /\ job' = [job EXCEPT ![Pulled(l)] = next]
      /\ stage' = [stage EXCEPT ![Pulled(l)] = "pulled"]
      /\ UNCHANGED LaneVars /\ UNCHANGED BookVars
  BY <1>2 DEF TakeNext, Goto, LaneVars, BookVars
<1>5. CASE GatePull(l)
  <2>1. PutOn(Pulled(l), {Own(l)} \cup {}) /\ {} \in SUBSET Analysing
    BY <1>5 DEF GatePull
  <2>2. pc[Own(l)] = "refused" /\ pc' = [pc EXCEPT ![Own(l)] = "read"]
    BY <1>5 DEF GatePull, Resume
  <2>3. stage[Own(l)] # "none"
    BY <1>0, <1>1, <2>2 DEF FrameInv
  <2>4. lane[l] = "loop"
    BY <1>0, <2>3 DEF LaneInv
  <2>5. Piles(Pulled(l), l)
    BY <2>1 DEF Piles
  <2>6. QED
    BY <1>1, <1>3, <1>4, <2>2, <2>4, <2>5 DEF Takes
<1>6. CASE FlightPull(l)
  <2>1. PICK helped \in SUBSET Analysing :
              /\ Own(l) \in Analysing \/ Draining(l)
              /\ PutOn(Pulled(l), {Own(l)} \cup helped)
    BY <1>6 DEF FlightPull
  <2>2. lane[l] = "loop"
    BY <1>0, <2>1 DEF LaneInv, Analysing, Draining
  <2>3. Piles(Pulled(l), l)
    BY <2>1 DEF Piles
  <2>4. UNCHANGED pc
    BY <1>6 DEF FlightPull, gateVars
  <2>5. QED
    BY <1>1, <1>3, <1>4, <2>2, <2>3, <2>4 DEF Takes
<1>7. QED
  BY <1>5, <1>6

\* Every step is of one of the kinds above, for frames and lanes ...
LEMMA FrameSteps == ASSUME ScanInv, [ScanNext]_vars PROVE FrameKinds
<1>0. ScanShape /\ FrameInv /\ LaneInv
  BY DEF ScanInv
<1> USE <1>0, ScanAssumption
<1>1. ASSUME NEW l \in Lanes, StartLane(l) PROVE FrameKinds
  <2>1. Turns(l)
    BY <1>1 DEF Turns, gateVars, StartLane
  <2>2. QED
    BY <2>1 DEF FrameKinds
<1>27. ASSUME NEW l \in Lanes, NEW f \in Callers, StealLane(l, f) PROVE FrameKinds
  <2>1. PICK helped \in SUBSET Analysing : PutOn(Own(l), {f} \cup helped)
    BY <1>27 DEF StealLane
  <2>2. {f} \cup helped \in SUBSET Analysing
    BY <1>27 DEF StealLane
  <2>3. Turns(l)
    BY <1>27, <2>1, <2>2 DEF Turns, gateVars, StealLane
  <2>4. QED
    BY <2>3 DEF FrameKinds
<1>2. ASSUME NEW l \in Lanes, LanePull(l) PROVE FrameKinds
  <2>1. Own(l) \in Callers /\ Takes(Own(l))
    BY <1>2, FramesOfLanes DEF Takes, LaneVars, gateVars, stackVars, Goto, LanePull, TakeNext
  <2>2. QED
    BY <2>1 DEF FrameKinds
<1>3. ASSUME NEW l \in Lanes, LaneEnds(l) PROVE FrameKinds
  <2>1. next = NumFiles + 1
    BY <1>3 DEF LaneEnds, ScanShape
  <2>2. Turns(l)
    BY <1>3, <2>1 DEF Turns, gateVars, LaneEnds
  <2>3. QED
    BY <2>2 DEF FrameKinds
<1>4. ASSUME NEW l \in Lanes, GatePull(l) PROVE FrameKinds
  BY <1>4, PullsTake DEF FrameKinds
<1>5. ASSUME NEW l \in Lanes, FlightPull(l) PROVE FrameKinds
  BY <1>5, PullsTake DEF FrameKinds
<1>6. ASSUME NEW f \in Callers, AdmitPath(f) PROVE FrameKinds
  <2>1. stage[f] # "none" /\ (stage[f] = "run" => Running(f))
    BY <1>6 DEF AdmitPath
  <2>2. stage' = [stage EXCEPT ![f] = "check"] /\ pc' = [pc EXCEPT ![f] = "idle"]
    BY <1>6 DEF gateVars, Goto, ScanShape, FrameInv, Stages, AdmitPath
  <2>3. UNCHANGED <<beneath, next, job, LaneVars>>
    BY <1>6 DEF LaneVars, stackVars, AdmitPath
  <2>4. QED
    BY <2>1, <2>2, <2>3, MoveIntro DEF Stages, Agree
<1>7. ASSUME NEW f \in Callers, SkipCancelled(f) PROVE FrameKinds
  <2>1. pc[f] = "idle" /\ pc' = [pc EXCEPT ![f] = "idle"]
    BY <1>7 DEF gateVars, ScanShape, FrameInv, SkipCancelled
  <2>2. Drops(f)
    BY <1>7, <2>1 DEF Drops, LaneVars, Goto, SkipCancelled
  <2>3. QED
    BY <2>2 DEF FrameKinds
<1>8. ASSUME NEW f \in Callers, EnterGate(f) PROVE FrameKinds
  <2>1. stage[f] # "none" /\ (stage[f] = "run" => Running(f))
    BY <1>8 DEF EnterGate, Request
  <2>2. stage' = [stage EXCEPT ![f] = "gate"] /\ pc' = [pc EXCEPT ![f] = "read"]
    BY <1>8 DEF gateVars, Goto, ScanShape, FrameInv, Stages, EnterGate, Request
  <2>3. UNCHANGED <<beneath, next, job, LaneVars>>
    BY <1>8 DEF LaneVars, stackVars, EnterGate, Request
  <2>4. QED
    BY <2>1, <2>2, <2>3, MoveIntro DEF Stages, Agree
<1>9. ASSUME NEW f \in Callers, GatePark(f) PROVE FrameKinds
  <2>1. stage[f] # "none" /\ (stage[f] = "run" => Running(f))
    BY <1>9 DEF GatePark, Park, scanVars, FrameInv, ScanShape, Stages
  <2>2. stage' = [stage EXCEPT ![f] = "gate"] /\ pc' = [pc EXCEPT ![f] = "parked"]
    BY <1>9 DEF gateVars, Goto, ScanShape, FrameInv, Stages, GatePark, Park, scanVars, FrameInv, ScanShape, Stages
  <2>3. UNCHANGED <<beneath, next, job, LaneVars>>
    BY <1>9 DEF LaneVars, stackVars, GatePark, Park, scanVars, FrameInv, ScanShape, Stages
  <2>4. QED
    BY <2>1, <2>2, <2>3, MoveIntro DEF Stages, Agree
<1>10. ASSUME NEW f \in Callers, GateAdmit(f) PROVE FrameKinds
  <2>1. stage[f] # "none" /\ (stage[f] = "run" => Running(f))
    BY <1>10 DEF GateAdmit, Admit, FrameInv, ScanShape, Stages
  <2>2. stage' = [stage EXCEPT ![f] = "filter"] /\ pc' = [pc EXCEPT ![f] = "holding"]
    BY <1>10 DEF gateVars, Goto, ScanShape, FrameInv, Stages, GateAdmit, Admit, FrameInv, ScanShape, Stages
  <2>3. UNCHANGED <<beneath, next, job, LaneVars>>
    BY <1>10 DEF LaneVars, stackVars, GateAdmit, Admit, FrameInv, ScanShape, Stages
  <2>4. QED
    BY <2>1, <2>2, <2>3, MoveIntro DEF Stages, Agree
<1>11. ASSUME NEW f \in Callers, GateLoop(f) PROVE FrameKinds
  <2>1. CASE Read(f)
    <3>1. stage[f] # "none" /\ (stage[f] = "run" => Running(f))
      BY <1>11, <2>1 DEF GateLoop, scanVars, FrameInv, ScanShape, Stages, Read
    <3>2. stage' = [stage EXCEPT ![f] = "gate"] /\ pc' = [pc EXCEPT ![f] = "lock"]
      BY <1>11, <2>1 DEF gateVars, Goto, ScanShape, FrameInv, Stages, GateLoop, scanVars, FrameInv, ScanShape, Stages, Read
    <3>3. UNCHANGED <<beneath, next, job, LaneVars>>
      BY <1>11, <2>1 DEF LaneVars, stackVars, GateLoop, scanVars, FrameInv, ScanShape, Stages, Read
    <3>4. QED
      BY <3>1, <3>2, <3>3, MoveIntro DEF Stages, Agree
  <2>2. CASE Refuse(f)
    <3>1. stage[f] # "none" /\ (stage[f] = "run" => Running(f))
      BY <1>11, <2>2 DEF GateLoop, scanVars, FrameInv, ScanShape, Stages, Refuse
    <3>2. stage' = [stage EXCEPT ![f] = "gate"] /\ pc' = [pc EXCEPT ![f] = "refused"]
      BY <1>11, <2>2 DEF gateVars, Goto, ScanShape, FrameInv, Stages, GateLoop, scanVars, FrameInv, ScanShape, Stages, Refuse
    <3>3. UNCHANGED <<beneath, next, job, LaneVars>>
      BY <1>11, <2>2 DEF LaneVars, stackVars, GateLoop, scanVars, FrameInv, ScanShape, Stages, Refuse
    <3>4. QED
      BY <3>1, <3>2, <3>3, MoveIntro DEF Stages, Agree
  <2>3. CASE Wake(f)
    <3>1. stage[f] # "none" /\ (stage[f] = "run" => Running(f))
      BY <1>11, <2>3 DEF GateLoop, scanVars, FrameInv, ScanShape, Stages, Wake
    <3>2. stage' = [stage EXCEPT ![f] = "gate"] /\ pc' = [pc EXCEPT ![f] = "read"]
      BY <1>11, <2>3 DEF gateVars, Goto, ScanShape, FrameInv, Stages, GateLoop, scanVars, FrameInv, ScanShape, Stages, Wake
    <3>3. UNCHANGED <<beneath, next, job, LaneVars>>
      BY <1>11, <2>3 DEF LaneVars, stackVars, GateLoop, scanVars, FrameInv, ScanShape, Stages, Wake
    <3>4. QED
      BY <3>1, <3>2, <3>3, MoveIntro DEF Stages, Agree
  <2>4. QED
    BY <1>11, <2>1, <2>2, <2>3 DEF GateLoop
<1>12. ASSUME NEW f \in Callers, FilterOut(f) PROVE FrameKinds
  <2>1. stage[f] # "none" /\ (stage[f] = "run" => Running(f))
    BY <1>12 DEF FilterOut
  <2>2. stage' = [stage EXCEPT ![f] = "leave"] /\ pc' = [pc EXCEPT ![f] = "holding"]
    BY <1>12 DEF gateVars, Goto, ScanShape, FrameInv, Stages, FilterOut
  <2>3. UNCHANGED <<beneath, next, job, LaneVars>>
    BY <1>12 DEF LaneVars, stackVars, FilterOut
  <2>4. QED
    BY <2>1, <2>2, <2>3, MoveIntro DEF Stages, Agree
<1>13. ASSUME NEW f \in Callers, FilterPass(f) PROVE FrameKinds
  <2>1. stage[f] # "none" /\ (stage[f] = "run" => Running(f))
    BY <1>13 DEF FilterPass
  <2>2. stage' = [stage EXCEPT ![f] = "run"] /\ pc' = [pc EXCEPT ![f] = "holding"]
    BY <1>13 DEF gateVars, Goto, ScanShape, FrameInv, Stages, FilterPass
  <2>3. UNCHANGED <<beneath, next, job, LaneVars>>
    BY <1>13 DEF LaneVars, stackVars, FilterPass
  <2>4. QED
    BY <2>1, <2>2, <2>3, MoveIntro DEF Stages, Agree
<1>14. ASSUME NEW f \in Callers, FilterPanics(f) PROVE FrameKinds
  <2>1. stage[f] # "none" /\ (stage[f] = "run" => Running(f))
    BY <1>14 DEF FilterPanics
  <2>2. stage' = [stage EXCEPT ![f] = "panicked"] /\ pc' = [pc EXCEPT ![f] = "holding"]
    BY <1>14 DEF gateVars, Goto, ScanShape, FrameInv, Stages, FilterPanics
  <2>3. UNCHANGED <<beneath, next, job, LaneVars>>
    BY <1>14 DEF LaneVars, stackVars, FilterPanics
  <2>4. QED
    BY <2>1, <2>2, <2>3, MoveIntro DEF Stages, Agree
<1>15. ASSUME NEW f \in Callers, AnalysisOk(f) PROVE FrameKinds
  <2>1. stage[f] # "none" /\ (stage[f] = "run" => Running(f))
    BY <1>15 DEF AnalysisOk
  <2>2. stage' = [stage EXCEPT ![f] = "reportOk"] /\ pc' = [pc EXCEPT ![f] = "holding"]
    BY <1>15 DEF gateVars, Goto, ScanShape, FrameInv, Stages, AnalysisOk
  <2>3. UNCHANGED <<beneath, next, job, LaneVars>>
    BY <1>15 DEF LaneVars, stackVars, AnalysisOk
  <2>4. QED
    BY <2>1, <2>2, <2>3, MoveIntro DEF Stages, Agree
<1>16. ASSUME NEW f \in Callers, AnalysisErr(f) PROVE FrameKinds
  <2>1. stage[f] # "none" /\ (stage[f] = "run" => Running(f))
    BY <1>16 DEF AnalysisErr
  <2>2. stage' = [stage EXCEPT ![f] = "reportErr"] /\ pc' = [pc EXCEPT ![f] = "holding"]
    BY <1>16 DEF gateVars, Goto, ScanShape, FrameInv, Stages, AnalysisErr
  <2>3. UNCHANGED <<beneath, next, job, LaneVars>>
    BY <1>16 DEF LaneVars, stackVars, AnalysisErr
  <2>4. QED
    BY <2>1, <2>2, <2>3, MoveIntro DEF Stages, Agree
<1>17. ASSUME NEW f \in Callers, Callback(f) PROVE FrameKinds
  <2>1. stage[f] # "none" /\ (stage[f] = "run" => Running(f))
    BY <1>17 DEF Callback, Deliver
  <2>2. stage' = [stage EXCEPT ![f] = "leave"] /\ pc' = [pc EXCEPT ![f] = "holding"]
    BY <1>17 DEF gateVars, Goto, ScanShape, FrameInv, Stages, Callback, Deliver
  <2>3. UNCHANGED <<beneath, next, job, LaneVars>>
    BY <1>17 DEF LaneVars, stackVars, Callback, Deliver
  <2>4. QED
    BY <2>1, <2>2, <2>3, MoveIntro DEF Stages, Agree
<1>18. ASSUME NEW f \in Callers, CallbackPanic(f) PROVE FrameKinds
  <2>1. stage[f] # "none" /\ (stage[f] = "run" => Running(f))
    BY <1>18 DEF CallbackPanic, Deliver
  <2>2. stage' = [stage EXCEPT ![f] = "panicked"] /\ pc' = [pc EXCEPT ![f] = "holding"]
    BY <1>18 DEF gateVars, Goto, ScanShape, FrameInv, Stages, CallbackPanic, Deliver
  <2>3. UNCHANGED <<beneath, next, job, LaneVars>>
    BY <1>18 DEF LaneVars, stackVars, CallbackPanic, Deliver
  <2>4. QED
    BY <2>1, <2>2, <2>3, MoveIntro DEF Stages, Agree
<1>19. ASSUME NEW f \in Callers, CatchPanic(f) PROVE FrameKinds
  <2>1. stage[f] # "none" /\ (stage[f] = "run" => Running(f))
    BY <1>19 DEF CatchPanic, Deliver
  <2>2. stage' = [stage EXCEPT ![f] = "leave"] /\ pc' = [pc EXCEPT ![f] = "holding"]
    BY <1>19 DEF gateVars, Goto, ScanShape, FrameInv, Stages, CatchPanic, Deliver
  <2>3. UNCHANGED <<beneath, next, job, LaneVars>>
    BY <1>19 DEF LaneVars, stackVars, CatchPanic, Deliver
  <2>4. QED
    BY <2>1, <2>2, <2>3, MoveIntro DEF Stages, Agree
<1>20. ASSUME NEW f \in Callers, Leave(f) PROVE FrameKinds
  BY <1>20 DEF FrameKinds, Drops, LaneVars, gateVars, Goto, ScanShape, FrameInv, Leave, Release
<1>21. CASE Finish
  BY <1>21 DEF FrameKinds, Returns, stackVars, gateVars, Finish
<1>22. CASE Cancel
  BY <1>22 DEF FrameKinds, Rests, stackVars, LaneVars, gateVars, Cancel
<1>23. ASSUME NEW f \in Callers, GateTime(f) PROVE FrameKinds
  BY <1>23 DEF FrameKinds, Rests, stackVars, LaneVars, gateVars, GateTime, TimePasses, scanVars
<1>24. CASE HostMemory
  BY <1>24 DEF FrameKinds, Rests, stackVars, LaneVars, gateVars, HostMemory, MemoryChanges, scanVars
<1>25. CASE UNCHANGED vars
  BY <1>25 DEF FrameKinds, Rests, stackVars, LaneVars, gateVars, vars, scanVars
<1>26. QED
  BY <1>1, <1>27, <1>2, <1>3, <1>4, <1>5, <1>6, <1>7, <1>8, <1>9, <1>10, <1>11, <1>12, <1>13, <1>14, <1>15, <1>16, <1>17, <1>18, <1>19, <1>20, <1>21, <1>22, <1>23, <1>24, <1>25
     DEF ScanNext, LaneStep, FrameStep

\* ... and for the books.
LEMMA BookSteps == ASSUME ScanInv, [ScanNext]_vars PROVE BookKinds
<1>0. ScanShape /\ FrameInv /\ LaneInv
  BY DEF ScanInv
<1> USE <1>0, ScanAssumption DEF BookKinds
<1>1. ASSUME NEW l \in Lanes, StartLane(l) PROVE BookKinds
  BY <1>1 DEF Still, BookVars, gateVars, StartLane
<1>27. ASSUME NEW l \in Lanes, NEW f \in Callers, StealLane(l, f) PROVE BookKinds
  BY <1>27 DEF Still, BookVars, gateVars, StealLane
<1>2. ASSUME NEW l \in Lanes, LanePull(l) PROVE BookKinds
  <2>1. Own(l) \in Callers /\ Takes(Own(l)) /\ UNCHANGED BookVars
    BY <1>2, FramesOfLanes DEF Takes, BookVars, LaneVars, gateVars, stackVars, Goto, LanePull, TakeNext
  <2>2. QED
    BY <2>1
<1>3. ASSUME NEW l \in Lanes, LaneEnds(l) PROVE BookKinds
  BY <1>3 DEF Still, BookVars, gateVars, LaneEnds
<1>4. ASSUME NEW l \in Lanes, GatePull(l) PROVE BookKinds
  BY <1>4, PullsTake
<1>5. ASSUME NEW l \in Lanes, FlightPull(l) PROVE BookKinds
  BY <1>5, PullsTake
<1>6. ASSUME NEW f \in Callers, AdmitPath(f) PROVE BookKinds
  BY <1>6
<1>7. ASSUME NEW f \in Callers, SkipCancelled(f) PROVE BookKinds
  BY <1>7
<1>8. ASSUME NEW f \in Callers, EnterGate(f) PROVE BookKinds
  BY <1>8 DEF Passes, BookVars, gateVars, Goto, ScanShape, FrameInv, Stages, EnterGate, Request
<1>9. ASSUME NEW f \in Callers, GatePark(f) PROVE BookKinds
  BY <1>9 DEF Still, BookVars, gateVars, GatePark, Park, scanVars
<1>10. ASSUME NEW f \in Callers, GateAdmit(f) PROVE BookKinds
  BY <1>10 DEF Passes, BookVars, gateVars, Goto, ScanShape, FrameInv, Stages, GateAdmit, Admit
<1>11. ASSUME NEW f \in Callers, GateLoop(f) PROVE BookKinds
  BY <1>11 DEF Still, BookVars, gateVars, GateLoop, Read, Refuse, Wake, scanVars
<1>12. ASSUME NEW f \in Callers, FilterOut(f) PROVE BookKinds
  BY <1>12
<1>13. ASSUME NEW f \in Callers, FilterPass(f) PROVE BookKinds
  BY <1>13 DEF Passes, BookVars, gateVars, Goto, ScanShape, FrameInv, Stages, FilterPass
<1>14. ASSUME NEW f \in Callers, FilterPanics(f) PROVE BookKinds
  BY <1>14 DEF Passes, BookVars, gateVars, Goto, ScanShape, FrameInv, Stages, FilterPanics
<1>15. ASSUME NEW f \in Callers, AnalysisOk(f) PROVE BookKinds
  BY <1>15
<1>16. ASSUME NEW f \in Callers, AnalysisErr(f) PROVE BookKinds
  BY <1>16
<1>17. ASSUME NEW f \in Callers, Callback(f) PROVE BookKinds
  BY <1>17
<1>18. ASSUME NEW f \in Callers, CallbackPanic(f) PROVE BookKinds
  BY <1>18
<1>19. ASSUME NEW f \in Callers, CatchPanic(f) PROVE BookKinds
  BY <1>19
<1>20. ASSUME NEW f \in Callers, Leave(f) PROVE BookKinds
  BY <1>20 DEF Departs, BookVars, gateVars, Goto, Leave, Release
<1>21. CASE Finish
  BY <1>21
<1>22. CASE Cancel
  BY <1>22 DEF Still, BookVars, gateVars, Cancel
<1>23. ASSUME NEW f \in Callers, GateTime(f) PROVE BookKinds
  BY <1>23 DEF Still, BookVars, gateVars, GateTime, TimePasses, scanVars
<1>24. CASE HostMemory
  BY <1>24 DEF Still, BookVars, gateVars, HostMemory, MemoryChanges, scanVars
<1>25. CASE UNCHANGED vars
  BY <1>25 DEF Still, BookVars, gateVars, vars, scanVars
<1>26. QED
  BY <1>1, <1>27, <1>2, <1>3, <1>4, <1>5, <1>6, <1>7, <1>8, <1>9, <1>10, <1>11, <1>12, <1>13, <1>14, <1>15, <1>16, <1>17, <1>18, <1>19, <1>20, <1>21, <1>22, <1>23, <1>24, <1>25
     DEF ScanNext, LaneStep, FrameStep

\* Frames and lanes are consistent in every reachable state.
THEOREM ScanInvariant == ScanSpec => []ScanInv
<1>1. ASSUME ScanInv, [ScanNext]_vars PROVE ScanInv'
  BY <1>1, ShapeNext, FrameSteps, TakesKeeps, MovesKeeps, DropsKeeps, TurnsKeeps
     DEF FrameKinds, ScanInv
<1>2. QED
  BY <1>1, ScanInvInit, PTL DEF ScanSpec

\* When every lane has ended, no frame is left on any stack.
LEMMA NoFrameLeft ==
  ASSUME ScanInv, \A l \in Lanes : lane[l] = "done"
  PROVE  \A f \in Callers : stage[f] = "none"
<1>1. StackInv /\ LaneInv
  BY DEF ScanInv
<1>2. \A l \in Lanes : lane[l] = "done" /\ stage[Own(l)] = "none"
  BY <1>1 DEF LaneInv
<1>3. ASSUME NEW l \in Lanes PROVE stage[Pulled(l)] = "none"
  <2>1. Own(l) \in Callers /\ Pulled(l) \in Callers /\ Own(l)[1] = l
    BY FramesOfLanes DEF Own
  <2>2. ~Held(Own(l))
    BY <1>2, <2>1 DEF Held
  <2>3. QED
    BY <1>1, <2>1, <2>2 DEF StackInv
<1>4. QED
  BY <1>2, <1>3, FramesOfLanes

-----------------------------------------------------------------------------
(* The scan uses the gate as the gate expects to be used. *)

\* Every step of the scan is a step of the gate or leaves it alone: frames
\* request, wait and release in the order acquire_hinted and the permit's drop
\* have, and with the length and hint of a file of the list.
LEMMA ScanStepsGate == ASSUME ScanInv, [ScanNext]_vars PROVE [GateNext]_gateVars
<1>0. ScanShape /\ FrameInv
  BY DEF ScanInv
<1>1. ASSUME NEW l \in Lanes, LaneStep(l) \/ FlightPull(l) \/ \E f \in Callers : StealLane(l, f)
      PROVE  UNCHANGED gateVars
  BY <1>1 DEF LaneStep, StartLane, StealLane, LanePull, LaneEnds, FlightPull
<1>2. ASSUME NEW l \in Lanes, GatePull(l) PROVE GateNext
  BY <1>2, FramesOfLanes DEF GatePull, GateNext
<1>3. ASSUME NEW f \in Callers, EnterGate(f) PROVE GateNext
  <2>1. job[f] \in Files
    BY <1>0, <1>3, ScanAssumption DEF EnterGate, ScanShape, FrameInv, Files
  <2>2. FileSize[job[f]] \in Sizes /\ FileHint[job[f]] \in Hints
    BY <2>1, ScanAssumption
  <2>3. Request(f, FileSize[job[f]], FileHint[job[f]])
    BY <1>3 DEF EnterGate
  <2>4. QED
    BY <2>2, <2>3 DEF GateNext
<1>4. ASSUME NEW f \in Callers, GatePark(f) \/ GateAdmit(f) \/ GateLoop(f) \/ Leave(f) \/ GateTime(f)
      PROVE  GateNext
  BY <1>4 DEF GatePark, GateAdmit, GateLoop, Leave, GateTime, GateNext, GateStep
<1>5. ASSUME NEW f \in Callers,
             \/ AdmitPath(f) \/ SkipCancelled(f) \/ FilterOut(f) \/ FilterPass(f)
             \/ FilterPanics(f) \/ AnalysisOk(f) \/ AnalysisErr(f) \/ Callback(f)
             \/ CallbackPanic(f) \/ CatchPanic(f)
      PROVE  UNCHANGED gateVars
  BY <1>5 DEF AdmitPath, SkipCancelled, FilterOut, FilterPass, FilterPanics,
              AnalysisOk, AnalysisErr, Callback, CallbackPanic, CatchPanic
<1>6. CASE Finish \/ Cancel
  BY <1>6 DEF Finish, Cancel
<1>7. CASE HostMemory
  BY <1>7 DEF HostMemory, GateNext
<1>8. CASE UNCHANGED vars
  BY <1>8 DEF vars
<1>9. QED
  BY <1>1, <1>2, <1>3, <1>4, <1>5, <1>6, <1>7, <1>8 DEF ScanNext, FrameStep

\* The composed scan implements the gate's specification, so that what is proved
\* of the gate by itself holds of the gate inside a scan.
THEOREM ScanImplementsGate == ScanSpec => GateSpec
<1>1. ScanInit => GateInit
  BY DEF ScanInit
<1>2. QED
  BY <1>1, ScanInvariant, ScanStepsGate, PTL DEF ScanSpec, GateSpec

\* During a scan, `reserved` is the sum of the permits alive and the permits
\* granted without the timed escape stay within the budget.
THEOREM ScanKeepsGate == ScanSpec => [](Accounting /\ CeilingHolds)
BY ScanImplementsGate, GateAccounting, GateCeiling, PTL

-----------------------------------------------------------------------------
(* Counting frames and paths. *)

LEMMA Gains ==
  ASSUME NEW S, NEW T, NEW x, IsFiniteSet(S), x \notin S, T = S \cup {x}
  PROVE  Cardinality(T) = Cardinality(S) + 1
BY FS_AddElement

LEMMA Loses ==
  ASSUME NEW S, NEW T, NEW x, IsFiniteSet(S), x \in S, T = S \ {x}
  PROVE  Cardinality(T) = Cardinality(S) - 1
BY FS_RemoveElement

Pulling == {f \in Callers : stage[f] = "pulled"}

\* TOPLEVEL_PENDING is, at every moment, the number of paths that are not
\* admitted yet, for any number of lanes that pull at once, own paths and
\* wait-time ones.
THEOREM PendingExact == ScanSpec => []PendingCounts
<1>1. ScanInit => PendingCounts
  <2> SUFFICES ASSUME ScanInit PROVE PendingCounts
    OBVIOUS
  <2>1. {f \in Callers : stage[f] = "pulled"} = {}
    BY DEF ScanInit
  <2>2. Cardinality({f \in Callers : stage[f] = "pulled"}) = 0
    BY <2>1, FS_EmptySet
  <2>3. QED
    BY <2>2, ScanAssumption DEF ScanInit, PendingCounts
<1>2. ASSUME ScanInv, PendingCounts, [ScanNext]_vars PROVE PendingCounts'
  <2>0. /\ ScanShape /\ FrameInv /\ LaneInv
        /\ pending = (NumFiles + 1 - next) + Cardinality(Pulling)
    BY <1>2 DEF ScanInv, PendingCounts, Pulling
  <2>1. IsFiniteSet(Pulling) /\ Cardinality(Pulling) \in Nat
    BY GateAssumption, FS_Subset, FS_CardinalityType DEF Pulling
  <2>2. SUFFICES pending' = (NumFiles + 1 - next') + Cardinality(Pulling')
    BY DEF PendingCounts, Pulling
  <2>3. next \in Int /\ NumFiles \in Int /\ pending \in Int
    BY <2>0, ScanAssumption DEF ScanShape
  <2>4. ASSUME NEW f \in Callers, Takes(f) /\ UNCHANGED BookVars
        PROVE  pending' = (NumFiles + 1 - next') + Cardinality(Pulling')
    <3>1. f \notin Pulling /\ Pulling' = Pulling \cup {f}
      BY <2>0, <2>4 DEF Pulling, Takes, ScanShape
    <3>2. Cardinality(Pulling') = Cardinality(Pulling) + 1
      BY <2>1, <3>1, Gains
    <3>3. next' = next + 1 /\ pending' = pending
      BY <2>4 DEF Takes, BookVars
    <3>4. QED
      BY <2>0, <2>1, <2>3, <3>2, <3>3
  <2>5. ASSUME NEW f \in Callers, AdmitPath(f)
        PROVE  pending' = (NumFiles + 1 - next') + Cardinality(Pulling')
    <3>1. f \in Pulling /\ Pulling' = Pulling \ {f}
      BY <2>0, <2>5 DEF Pulling, AdmitPath, Goto, ScanShape
    <3>2. Cardinality(Pulling') = Cardinality(Pulling) - 1
      BY <2>1, <3>1, Loses
    <3>3. next' = next /\ pending' = pending - 1
      BY <2>5 DEF AdmitPath
    <3>4. QED
      BY <2>0, <2>1, <2>3, <3>2, <3>3
  <2>6. ASSUME NEW f \in Callers,
               \/ SkipCancelled(f) \/ FilterOut(f) \/ AnalysisOk(f) \/ AnalysisErr(f)
               \/ Callback(f) \/ CallbackPanic(f) \/ CatchPanic(f)
               \/ Passes(f) \/ Departs(f)
        PROVE  pending' = (NumFiles + 1 - next') + Cardinality(Pulling')
    <3>1. \E s \in Stages \ {"pulled"} :
            stage[f] # "pulled" /\ stage' = [stage EXCEPT ![f] = s]
      BY <2>6 DEF SkipCancelled, FilterOut, AnalysisOk, AnalysisErr, Callback,
                  CallbackPanic, CatchPanic, Passes, Departs, Goto, Stages
    <3>2. Pulling' = Pulling
      BY <2>0, <3>1 DEF Pulling, ScanShape
    <3>3. next' = next /\ pending' = pending
      BY <2>6 DEF SkipCancelled, FilterOut, AnalysisOk, AnalysisErr, Callback,
                  CallbackPanic, CatchPanic, Passes, Departs, BookVars
    <3>4. QED
      BY <2>0, <3>2, <3>3
  <2>7. CASE Finish
    <3>1. \A l \in Lanes : stage[Own(l)] = "none" /\ stage[Pulled(l)] = "none"
      BY <1>2, <2>7, NoFrameLeft, FramesOfLanes DEF Finish
    <3>2. Pulling' = {} /\ pending' = 0 /\ next' = next
      <4>1. \A f \in Callers : stage'[f] = "none"
        BY <2>7, <3>1, FramesOfLanes DEF Finish
      <4>2. QED
        BY <2>7, <4>1 DEF Finish, Pulling
    <3>3. next = NumFiles + 1
      BY <2>0, <2>7, ScanAssumption DEF Finish, LaneInv
    <3>4. QED
      BY <2>3, <3>2, <3>3, FS_EmptySet
  <2>8. CASE Still
    BY <2>0, <2>8 DEF Still, BookVars, Pulling
  <2>9. QED
    BY <1>2, <2>4, <2>5, <2>6, <2>7, <2>8, BookSteps DEF BookKinds
<1>3. QED
  BY <1>1, <1>2, ScanInvariant, PTL DEF ScanSpec

-----------------------------------------------------------------------------
(* The events of each path, and the ledger. *)

\* What the callback may have been given for one path.
Logs == {<<>>, <<"ok">>, <<"err">>, <<"ok", "err">>, <<"err", "err">>}

\* A path has no event before its analysis has returned, one at most unless its
\* callback panicked, and never more than two.
LogInv ==
    /\ \A i \in Files : events[i] \in Logs
    /\ \A i \in Files : Len(events[i]) = 2 => CallbackPanics
    /\ \A i \in Files : i >= next => events[i] = <<>>
    /\ \A f \in Callers :
        /\ stage[f] \in {"pulled", "check", "gate", "filter", "run",
                         "reportOk", "reportErr"} => events[job[f]] = <<>>
        /\ stage[f] = "panicked" =>
             \/ events[job[f]] = <<>>
             \/ CallbackPanics /\ events[job[f]] \in {<<"ok">>, <<"err">>}

\* The five logs told apart.
LEMMA LogFacts ==
  ASSUME NEW a \in {"ok", "err"}, NEW b \in {"ok", "err"}
  PROVE  /\ Len(<<>>) = 0 /\ Len(<<a>>) = 1 /\ Len(<<a, b>>) = 2
         /\ <<a>> # <<>> /\ <<a, b>> # <<>>
         /\ Append(<<>>, a) = <<a>> /\ Append(<<a>>, b) = <<a, b>>
         /\ <<a>>[1] = a /\ <<a, b>>[1] = a /\ <<a, b>>[2] = b
<1>1. Len(<<>>) = 0 /\ Len(<<a>>) = 1 /\ Len(<<a, b>>) = 2
  OBVIOUS
<1>2. <<a>> # <<>> /\ <<a, b>> # <<>>
  OBVIOUS
<1>3. <<a>>[1] = a /\ <<a, b>>[1] = a /\ <<a, b>>[2] = b
  OBVIOUS
<1>4. Append(<<>>, a) = <<a>>
  OBVIOUS
<1>5. Append(<<a>>, b) = <<a, b>>
  <2>1. Append(<<a>>, b) \in Seq({"ok", "err"}) /\ <<a, b>> \in Seq({"ok", "err"})
    OBVIOUS
  <2>2. Len(Append(<<a>>, b)) = 2 /\ Append(<<a>>, b)[1] = a /\ Append(<<a>>, b)[2] = b
    OBVIOUS
  <2>3. \A i \in 1..2 : i = 1 \/ i = 2
    OBVIOUS
  <2>4. \A i \in 1..2 : Append(<<a>>, b)[i] = <<a, b>>[i]
    BY <1>3, <2>2, <2>3
  <2>5. QED
    BY <1>1, <2>1, <2>2, <2>4, SeqEqual
<1>6. QED
  BY <1>1, <1>2, <1>3, <1>4, <1>5

\* A frame that works on a path works on one of the list.
LEMMA JobsAreFiles ==
  ASSUME ScanInv, NEW f \in Callers, stage[f] # "none"
  PROVE  job[f] \in Files /\ job[f] < next
BY ScanAssumption DEF ScanInv, ScanShape, FrameInv, Files

\* A delivery appends to the log of one path, which no other frame has.
LEMMA DeliverOne ==
  ASSUME ScanInv, NEW f \in Callers, NEW r \in {"ok", "err"},
         stage[f] # "none", Deliver(f, r)
  PROVE  /\ events'[job[f]] = Append(events[job[f]], r)
         /\ \A i \in Files : i # job[f] => events'[i] = events[i]
         /\ \A g \in Callers : g # f /\ stage[g] # "none" => events'[job[g]] = events[job[g]]
<1>1. job[f] \in Files
  BY JobsAreFiles
<1>2. events' = [events EXCEPT ![job[f]] = Append(@, r)]
  BY DEF Deliver
<1>3. /\ events'[job[f]] = Append(events[job[f]], r)
      /\ \A i \in Files : i # job[f] => events'[i] = events[i]
  BY <1>1, <1>2 DEF ScanInv, ScanShape
<1>4. ASSUME NEW g \in Callers, g # f, stage[g] # "none"
      PROVE  events'[job[g]] = events[job[g]]
  <2>1. job[g] \in Files
    BY <1>4, JobsAreFiles
  <2>2. job[f] # 0
    BY DEF ScanInv, FrameInv
  <2>3. job[g] # job[f]
    BY <1>4, <2>2 DEF ScanInv, OneFramePerPath
  <2>4. QED
    BY <1>3, <2>1, <2>3
<1>5. QED
  BY <1>3, <1>4

\* The stages and events of a path stay in step.
LEMMA LogInvariant == ScanSpec => []LogInv
<1>1. ScanInit => LogInv
  BY LogFacts DEF ScanInit, LogInv, Logs
<1>2. ASSUME ScanInv, LogInv, [ScanNext]_vars PROVE LogInv'
  <2>0. /\ ScanShape /\ FrameInv /\ LaneInv /\ OneFramePerPath
    BY <1>2 DEF ScanInv
  <2>1. ASSUME NEW f \in Callers, Takes(f) /\ UNCHANGED BookVars PROVE LogInv'
    <3>1. /\ next \in Files /\ next' = next + 1 /\ events' = events
          /\ stage'[f] = "pulled" /\ job'[f] = next
          /\ \A g \in Callers : g # f => stage'[g] = stage[g] /\ job'[g] = job[g]
      BY <2>0, <2>1, ScanAssumption DEF Takes, BookVars, ScanShape, Files
    <3>2. next \in Nat /\ \A i \in Files : i \in Nat
      BY <3>1, ScanAssumption DEF Files
    <3>3. /\ events[next] = <<>> /\ \A i \in Files : events'[i] \in Logs
          /\ \A i \in Files : Len(events'[i]) = 2 => CallbackPanics
          /\ \A i \in Files : i >= next' => events'[i] = <<>>
      BY <1>2, <3>1, <3>2 DEF LogInv
    <3>4. ASSUME NEW g \in Callers
          PROVE  /\ stage'[g] \in {"pulled", "check", "gate", "filter", "run",
                              "reportOk", "reportErr"} => events'[job'[g]] = <<>>
                 /\ stage'[g] = "panicked" =>
                     \/ events'[job'[g]] = <<>>
                     \/ CallbackPanics /\ events'[job'[g]] \in {<<"ok">>, <<"err">>}
      <4>1. CASE g = f
        BY <3>1, <3>3, <4>1
      <4>2. CASE g # f
        BY <1>2, <3>1, <4>2 DEF LogInv
      <4>3. QED
        BY <4>1, <4>2
    <3>5. QED
      BY <3>3, <3>4 DEF LogInv
  <2>2. ASSUME NEW f \in Callers, NEW s \in Stages, stage' = [stage EXCEPT ![f] = s],
               events' = events, next' = next,
               \/ job' = job
               \/ s = "none" /\ job' = [job EXCEPT ![f] = 0],
               s \in {"none", "leave"} \/
                 (stage[f] \in {"pulled", "check", "gate", "filter", "run"} /\
                  s \in {"check", "gate", "filter", "run", "reportOk", "reportErr", "panicked"})
        PROVE  LogInv'
    <3>1. /\ stage'[f] = s
          /\ \A g \in Callers : g # f => stage'[g] = stage[g] /\ job'[g] = job[g]
          /\ s # "none" => job' = job
      BY <2>0, <2>2 DEF ScanShape
    <3>2. ASSUME NEW g \in Callers
          PROVE  /\ stage'[g] \in {"pulled", "check", "gate", "filter", "run",
                              "reportOk", "reportErr"} => events'[job'[g]] = <<>>
                 /\ stage'[g] = "panicked" =>
                     \/ events'[job'[g]] = <<>>
                     \/ CallbackPanics /\ events'[job'[g]] \in {<<"ok">>, <<"err">>}
      <4>1. CASE g = f
        BY <1>2, <2>2, <3>1, <4>1 DEF LogInv
      <4>2. CASE g # f
        BY <1>2, <2>2, <3>1, <4>2 DEF LogInv
      <4>3. QED
        BY <4>1, <4>2
    <3>3. QED
      BY <1>2, <2>2, <3>2 DEF LogInv
  <2>3. ASSUME NEW f \in Callers,
               \/ AdmitPath(f) \/ SkipCancelled(f) \/ FilterOut(f)
               \/ AnalysisOk(f) \/ AnalysisErr(f) \/ Passes(f) \/ Departs(f)
        PROVE  LogInv'
    <3>1. events' = events /\ next' = next
      BY <2>3 DEF AdmitPath, SkipCancelled, FilterOut, AnalysisOk, AnalysisErr,
                  Passes, Departs, BookVars
    <3>2. \E s \in Stages :
            /\ stage' = [stage EXCEPT ![f] = s]
            /\ job' = job \/ (s = "none" /\ job' = [job EXCEPT ![f] = 0])
            /\ s \in {"none", "leave"} \/
                (stage[f] \in {"pulled", "check", "gate", "filter", "run"} /\
                 s \in {"check", "gate", "filter", "run", "reportOk", "reportErr", "panicked"})
      <4>1. CASE AdmitPath(f) \/ AnalysisOk(f) \/ AnalysisErr(f)
        BY <4>1 DEF AdmitPath, AnalysisOk, AnalysisErr, Goto, Stages
      <4>2. CASE SkipCancelled(f) \/ FilterOut(f) \/ Departs(f)
        BY <4>2 DEF SkipCancelled, FilterOut, Departs, Goto, Stages
      <4>3. CASE Passes(f)
        BY <4>3 DEF Passes, Stages
      <4>4. QED
        BY <2>3, <4>1, <4>2, <4>3
    <3>3. QED
      BY <2>2, <3>1, <3>2
  <2>4. ASSUME NEW f \in Callers, NEW r \in {"ok", "err"}, Deliver(f, r),
               stage[f] # "none", job' = job, next' = next,
               \/ /\ stage[f] \in {"reportOk", "reportErr"}
                  /\ \/ stage' = [stage EXCEPT ![f] = "leave"]
                     \/ CallbackPanics /\ stage' = [stage EXCEPT ![f] = "panicked"]
               \/ /\ stage[f] = "panicked" /\ r = "err"
                  /\ stage' = [stage EXCEPT ![f] = "leave"]
        PROVE  LogInv'
    <3>1. /\ job[f] \in Files /\ job[f] < next
          /\ events'[job[f]] = Append(events[job[f]], r)
          /\ \A i \in Files : i # job[f] => events'[i] = events[i]
      BY <1>2, <2>4, JobsAreFiles, DeliverOne
    <3>2. \A g \in Callers : g # f /\ stage[g] # "none" =>
            events'[job[g]] = events[job[g]]
      BY <1>2, <2>4, DeliverOne
    <3>3. /\ stage'[f] \in {"leave", "panicked"}
          /\ stage'[f] = "panicked" =>
               CallbackPanics /\ stage[f] \in {"reportOk", "reportErr"}
          /\ \A g \in Callers : g # f => stage'[g] = stage[g]
      BY <2>0, <2>4 DEF ScanShape
    <3>4. /\ stage[f] \in {"reportOk", "reportErr"} =>
               events'[job[f]] \in {<<"ok">>, <<"err">>}
          /\ events'[job[f]] \in Logs
          /\ Len(events'[job[f]]) = 2 => CallbackPanics
      <4>1. CASE events[job[f]] = <<>>
        BY <2>4, <3>1, <4>1, LogFacts DEF Logs
      <4>2. CASE events[job[f]] # <<>>
        <5>1. /\ CallbackPanics /\ stage[f] = "panicked" /\ r = "err"
              /\ events[job[f]] \in {<<"ok">>, <<"err">>}
          BY <1>2, <2>4, <4>2 DEF LogInv
        <5>2. PICK a \in {"ok", "err"} : events[job[f]] = <<a>>
          BY <5>1
        <5>3. events'[job[f]] = <<a, "err">>
          BY <3>1, <5>1, <5>2, LogFacts
        <5>4. QED
          BY <5>1, <5>3 DEF Logs
      <4>3. QED
        BY <4>1, <4>2
    <3>5. ASSUME NEW g \in Callers
          PROVE  /\ stage'[g] \in {"pulled", "check", "gate", "filter", "run",
                              "reportOk", "reportErr"} => events'[job'[g]] = <<>>
                 /\ stage'[g] = "panicked" =>
                     \/ events'[job'[g]] = <<>>
                     \/ CallbackPanics /\ events'[job'[g]] \in {<<"ok">>, <<"err">>}
      <4>1. CASE g = f
        BY <2>4, <3>3, <3>4, <4>1
      <4>2. CASE g # f
        BY <1>2, <2>4, <3>2, <3>3, <4>2 DEF LogInv
      <4>3. QED
        BY <4>1, <4>2
    <3>6. ASSUME NEW i \in Files
          PROVE  /\ events'[i] \in Logs
                 /\ Len(events'[i]) = 2 => CallbackPanics
                 /\ i >= next' => events'[i] = <<>>
      <4>1. CASE i = job[f]
        <5>1. ~(i >= next')
          BY <2>0, <2>4, <3>1, <4>1, ScanAssumption DEF ScanShape, Files
        <5>2. QED
          BY <3>4, <4>1, <5>1
      <4>2. CASE i # job[f]
        BY <1>2, <2>4, <3>1, <4>2 DEF LogInv
      <4>3. QED
        BY <4>1, <4>2
    <3>7. QED
      BY <3>5, <3>6 DEF LogInv
  <2>5. ASSUME NEW f \in Callers, Callback(f) \/ CallbackPanic(f) PROVE LogInv'
    <3>1. PICK r \in {"ok", "err"} : Deliver(f, r)
      BY <2>5 DEF Callback, CallbackPanic
    <3>2. QED
      BY <2>4, <2>5, <3>1 DEF Callback, CallbackPanic, Goto
  <2>6. ASSUME NEW f \in Callers, CatchPanic(f) PROVE LogInv'
    BY <2>4, <2>6 DEF CatchPanic, Goto
  <2>7. CASE Finish \/ Still
    BY <1>2, <2>7 DEF Finish, Still, BookVars, LogInv
  <2>8. QED
    BY <1>2, <2>1, <2>3, <2>5, <2>6, <2>7, BookSteps DEF BookKinds
<1>3. QED
  BY <1>1, <1>2, ScanInvariant, PTL DEF ScanSpec

-----------------------------------------------------------------------------
(* The ledger of paths. *)

Uncounted == {f \in Callers : Untallied(f)}

Balanced ==
    NumFiles + Cardinality(Recounted)
      = (NumFiles + 1 - next) + Cardinality(Uncounted) + analyzed + skipped + errors

\* A step keeps the balance when the two sides change by as much.
LEMMA BalanceMoves ==
  ASSUME ScanShape, Balanced,
         Cardinality(Uncounted') \in Nat, Cardinality(Recounted') \in Nat,
         next' \in Nat, analyzed' \in Nat, skipped' \in Nat, errors' \in Nat,
         Cardinality(Recounted') + next' + Cardinality(Uncounted)
             + analyzed + skipped + errors
           = Cardinality(Recounted) + next + Cardinality(Uncounted')
             + analyzed' + skipped' + errors'
  PROVE  Balanced'
<1>1. IsFiniteSet(Uncounted) /\ IsFiniteSet(Recounted)
  <2>1. IsFiniteSet(Files)
    BY ScanAssumption, FS_Interval DEF Files
  <2>2. QED
    BY <2>1, GateAssumption, FS_Subset DEF Uncounted, Recounted
<1>2. Cardinality(Uncounted) \in Nat /\ Cardinality(Recounted) \in Nat
  BY <1>1, FS_CardinalityType
<1>3. next \in Nat /\ analyzed \in Nat /\ skipped \in Nat /\ errors \in Nat /\ NumFiles \in Nat
  BY ScanAssumption DEF ScanShape
<1>4. NumFiles + Cardinality(Recounted)
        = (NumFiles + 1 - next) + Cardinality(Uncounted) + analyzed + skipped + errors
  BY DEF Balanced
<1>5. NumFiles + Cardinality(Recounted')
        = (NumFiles + 1 - next') + Cardinality(Uncounted') + analyzed' + skipped' + errors'
  BY <1>2, <1>3, <1>4
<1>6. QED
  BY <1>5 DEF Balanced

\* The counters of analyze_one_path, the paths under way and the paths to come
\* always add up to the list, for any number of lanes, wherever a path is
\* skipped, fails or panics; only a path whose callback panicked counts twice.
THEOREM LedgerHolds == ScanSpec => []Ledger
<1>1. ScanInit => Balanced
  <2> SUFFICES ASSUME ScanInit PROVE Balanced
    OBVIOUS
  <2>1. Uncounted = {} /\ Recounted = {}
    BY DEF ScanInit, Uncounted, Untallied, Recounted
  <2>2. QED
    BY <2>1, FS_EmptySet, ScanAssumption DEF ScanInit, Balanced
<1>2. ASSUME ScanInv, ScanInv', LogInv, Balanced, [ScanNext]_vars PROVE Balanced'
  <2>0. /\ ScanShape /\ FrameInv /\ OneFramePerPath
        /\ IsFiniteSet(Uncounted) /\ IsFiniteSet(Recounted)
        /\ Cardinality(Uncounted) \in Nat /\ Cardinality(Recounted) \in Nat
        /\ Cardinality(Uncounted') \in Nat /\ Cardinality(Recounted') \in Nat
    <3>1. IsFiniteSet(Files)
      BY ScanAssumption, FS_Interval DEF Files
    <3>2. IsFiniteSet(Uncounted) /\ IsFiniteSet(Recounted)
      BY <3>1, GateAssumption, FS_Subset DEF Uncounted, Recounted
    <3>3. IsFiniteSet(Uncounted') /\ IsFiniteSet(Recounted')
      BY <3>1, GateAssumption, FS_Subset DEF Uncounted, Recounted
    <3>4. QED
      BY <1>2, <3>2, <3>3, FS_CardinalityType DEF ScanInv
  <2>1. /\ next \in Nat /\ analyzed \in Nat /\ skipped \in Nat /\ errors \in Nat
        /\ next' \in Nat /\ analyzed' \in Nat /\ skipped' \in Nat /\ errors' \in Nat
    BY <1>2, ScanAssumption DEF ScanInv, ScanShape
  <2>2. ASSUME NEW f \in Callers, Takes(f) /\ UNCHANGED BookVars PROVE Balanced'
    <3>1. /\ stage[f] = "none" /\ stage'[f] = "pulled" /\ events' = events
          /\ \A g \in Callers : g # f => stage'[g] = stage[g] /\ job'[g] = job[g]
      BY <2>0, <2>2 DEF Takes, BookVars, ScanShape
    <3>2. f \notin Uncounted /\ Uncounted' = Uncounted \cup {f} /\ Recounted' = Recounted
      BY <3>1 DEF Uncounted, Untallied, Recounted
    <3>3. Cardinality(Uncounted') = Cardinality(Uncounted) + 1
      BY <2>0, <3>2, Gains
    <3>4. /\ next' = next + 1 /\ analyzed' = analyzed /\ skipped' = skipped
          /\ errors' = errors
      BY <2>2 DEF Takes, BookVars
    <3>5. Cardinality(Recounted') + next' + Cardinality(Uncounted)
              + analyzed + skipped + errors
            = Cardinality(Recounted) + next + Cardinality(Uncounted')
              + analyzed' + skipped' + errors'
      BY <2>0, <2>1, <3>2, <3>3, <3>4
    <3>6. QED
      BY <1>2, <2>0, <2>1, <3>5, BalanceMoves
  <2>3. ASSUME NEW f \in Callers, AdmitPath(f) \/ Passes(f) \/ Departs(f)
        PROVE  Balanced'
    <3>1. /\ events' = events /\ next' = next /\ analyzed' = analyzed
          /\ skipped' = skipped /\ errors' = errors
      BY <2>3 DEF AdmitPath, Passes, Departs, BookVars
    <3>2. \A g \in Callers : g # f => stage'[g] = stage[g] /\ job'[g] = job[g]
      BY <2>0, <2>3 DEF AdmitPath, Passes, Departs, ScanShape, Goto
    <3>3. \/ /\ stage[f] \in {"pulled", "check", "gate", "filter"} /\ job' = job
             /\ stage'[f] \in {"check", "gate", "filter", "run"}
          \/ stage[f] = "filter" /\ stage'[f] = "panicked" /\ job' = job
          \/ stage[f] = "leave" /\ stage'[f] = "none"
      BY <2>0, <2>3 DEF AdmitPath, Passes, Departs, ScanShape, Goto
    <3>4. stage[f] = "filter" => events[job[f]] = <<>>
      BY <1>2 DEF LogInv
    <3>5. Untallied(f)' <=> Untallied(f)
      BY <3>1, <3>3, <3>4 DEF Untallied
    <3>6. Uncounted' = Uncounted /\ Recounted' = Recounted
      BY <3>1, <3>2, <3>5 DEF Uncounted, Untallied, Recounted
    <3>7. QED
      BY <1>2, <3>1, <3>6 DEF Balanced
  <2>4. ASSUME NEW f \in Callers,
               \/ SkipCancelled(f) \/ FilterOut(f) \/ AnalysisOk(f) \/ AnalysisErr(f)
        PROVE  Balanced'
    <3>1. /\ events' = events /\ next' = next
          /\ \/ analyzed' = analyzed + 1 /\ skipped' = skipped /\ errors' = errors
             \/ analyzed' = analyzed /\ skipped' = skipped + 1 /\ errors' = errors
             \/ analyzed' = analyzed /\ skipped' = skipped /\ errors' = errors + 1
      BY <2>4 DEF SkipCancelled, FilterOut, AnalysisOk, AnalysisErr
    <3>2. \A g \in Callers : g # f => stage'[g] = stage[g] /\ job'[g] = job[g]
      BY <2>0, <2>4 DEF SkipCancelled, FilterOut, AnalysisOk, AnalysisErr, ScanShape, Goto
    <3>3. /\ stage[f] \in {"check", "filter", "run"}
          /\ stage'[f] \in {"none", "leave", "reportOk", "reportErr"}
      BY <2>0, <2>4 DEF SkipCancelled, FilterOut, AnalysisOk, AnalysisErr, ScanShape, Goto
    <3>4. f \in Uncounted /\ Uncounted' = Uncounted \ {f} /\ Recounted' = Recounted
      BY <3>1, <3>2, <3>3 DEF Uncounted, Untallied, Recounted
    <3>5. Cardinality(Uncounted') = Cardinality(Uncounted) - 1
      BY <2>0, <3>4, Loses
    <3>6. analyzed' + skipped' + errors' = analyzed + skipped + errors + 1
      <4>1. CASE analyzed' = analyzed + 1 /\ skipped' = skipped /\ errors' = errors
        BY <2>1, <4>1
      <4>2. CASE analyzed' = analyzed /\ skipped' = skipped + 1 /\ errors' = errors
        BY <2>1, <4>2
      <4>3. CASE analyzed' = analyzed /\ skipped' = skipped /\ errors' = errors + 1
        BY <2>1, <4>3
      <4>4. QED
        BY <3>1, <4>1, <4>2, <4>3
    <3>7. Cardinality(Recounted') + next' + Cardinality(Uncounted)
              + analyzed + skipped + errors
            = Cardinality(Recounted) + next + Cardinality(Uncounted')
              + analyzed' + skipped' + errors'
      BY <2>0, <2>1, <3>1, <3>4, <3>5, <3>6
    <3>8. QED
      BY <1>2, <2>0, <2>1, <3>5, <3>7, BalanceMoves
  <2>5. ASSUME NEW f \in Callers, Callback(f) \/ CallbackPanic(f) PROVE Balanced'
    <3>1. PICK r \in {"ok", "err"} : Deliver(f, r)
      BY <2>5 DEF Callback, CallbackPanic
    <3>2. stage[f] \in {"reportOk", "reportErr"} /\ stage'[f] \in {"leave", "panicked"}
      BY <2>0, <2>5 DEF Callback, CallbackPanic, Goto, ScanShape
    <3>3. /\ next' = next /\ analyzed' = analyzed /\ skipped' = skipped
          /\ errors' = errors /\ job' = job
          /\ \A g \in Callers : g # f => stage'[g] = stage[g]
      BY <2>0, <2>5 DEF Callback, CallbackPanic, Goto, ScanShape
    <3>4. /\ job[f] \in Files /\ events[job[f]] = <<>>
          /\ events'[job[f]] = <<r>>
          /\ \A i \in Files : i # job[f] => events'[i] = events[i]
      <4>1. events[job[f]] = <<>>
        BY <1>2, <3>2 DEF LogInv
      <4>2. /\ job[f] \in Files /\ events'[job[f]] = Append(events[job[f]], r)
            /\ \A i \in Files : i # job[f] => events'[i] = events[i]
        BY <1>2, <3>1, <3>2, JobsAreFiles, DeliverOne
      <4>3. QED
        BY <4>1, <4>2, LogFacts
    <3>5. \A g \in Callers : g # f /\ stage[g] # "none" => events'[job[g]] = events[job[g]]
      BY <1>2, <3>1, <3>2, DeliverOne
    <3>6. \A g \in Callers : Untallied(g)' <=> Untallied(g)
      <4>1. ~Untallied(f) /\ ~Untallied(f)'
        BY <3>2, <3>3, <3>4, LogFacts DEF Untallied
      <4>2. ASSUME NEW g \in Callers, g # f PROVE Untallied(g)' <=> Untallied(g)
        BY <3>3, <3>5, <4>2 DEF Untallied
      <4>3. QED
        BY <4>1, <4>2
    <3>7. Uncounted' = Uncounted
      BY <3>6 DEF Uncounted
    <3>8. Recounted' = Recounted
      BY <3>4, LogFacts DEF Recounted
    <3>9. QED
      BY <1>2, <3>3, <3>7, <3>8 DEF Balanced
  <2>6. ASSUME NEW f \in Callers, CatchPanic(f) PROVE Balanced'
    <3>1. /\ Deliver(f, "err") /\ stage[f] = "panicked" /\ stage'[f] = "leave"
          /\ next' = next /\ analyzed' = analyzed /\ skipped' = skipped
          /\ errors' = errors + 1 /\ job' = job
          /\ \A g \in Callers : g # f => stage'[g] = stage[g]
      BY <2>0, <2>6 DEF CatchPanic, Goto, ScanShape
    <3>2. /\ job[f] \in Files /\ events'[job[f]] = Append(events[job[f]], "err")
          /\ \A i \in Files : i # job[f] => events'[i] = events[i]
      BY <1>2, <3>1, JobsAreFiles, DeliverOne
    <3>3. \A g \in Callers : g # f /\ stage[g] # "none" => events'[job[g]] = events[job[g]]
      BY <1>2, <3>1, DeliverOne
    <3>4. \A g \in Callers : g # f => (Untallied(g)' <=> Untallied(g))
      BY <3>1, <3>3 DEF Untallied
    <3>5. ~Untallied(f)'
      BY <3>1 DEF Untallied
    <3>6. CASE events[job[f]] = <<>>
      <4>1. f \in Uncounted /\ Uncounted' = Uncounted \ {f}
        BY <3>1, <3>4, <3>5, <3>6 DEF Uncounted, Untallied
      <4>2. events'[job[f]] = <<"err">>
        BY <3>2, <3>6, LogFacts
      <4>3. Recounted' = Recounted
        BY <3>2, <3>6, <4>2, LogFacts DEF Recounted
      <4>4. Cardinality(Uncounted') = Cardinality(Uncounted) - 1
        BY <2>0, <4>1, Loses
      <4>5. Cardinality(Recounted') + next' + Cardinality(Uncounted)
                + analyzed + skipped + errors
              = Cardinality(Recounted) + next + Cardinality(Uncounted')
                + analyzed' + skipped' + errors'
        BY <2>0, <2>1, <3>1, <4>3, <4>4
      <4>6. QED
        BY <1>2, <2>0, <2>1, <4>4, <4>5, BalanceMoves
    <3>7. CASE events[job[f]] # <<>>
      <4>1. PICK a \in {"ok", "err"} : events[job[f]] = <<a>>
        BY <1>2, <3>1, <3>7 DEF LogInv
      <4>2. events'[job[f]] = <<a, "err">>
        BY <3>2, <4>1, LogFacts
      <4>3. Len(events[job[f]]) = 1 /\ Len(events'[job[f]]) = 2
        BY <4>1, <4>2, LogFacts
      <4>4. job[f] \notin Recounted /\ Recounted' = Recounted \cup {job[f]}
        <5>1. job[f] \notin Recounted
          BY <4>3 DEF Recounted
        <5>2. \A i \in Files : i \in Recounted' <=> (i \in Recounted \/ i = job[f])
          BY <3>2, <4>3 DEF Recounted
        <5>3. QED
          BY <3>2, <5>1, <5>2 DEF Recounted
      <4>5. ~Untallied(f)
        BY <3>1, <3>7 DEF Untallied
      <4>6. Uncounted' = Uncounted
        BY <3>4, <3>5, <4>5 DEF Uncounted
      <4>7. Cardinality(Recounted') = Cardinality(Recounted) + 1
        BY <2>0, <4>4, Gains
      <4>8. Cardinality(Recounted') + next' + Cardinality(Uncounted)
                + analyzed + skipped + errors
              = Cardinality(Recounted) + next + Cardinality(Uncounted')
                + analyzed' + skipped' + errors'
        <5>1. Cardinality(Uncounted') = Cardinality(Uncounted)
          BY <4>6
        <5>2. /\ next' = next /\ analyzed' = analyzed /\ skipped' = skipped
              /\ errors' = errors + 1
          BY <3>1
        <5>3. QED
          BY <2>0, <2>1, <4>7, <5>1, <5>2
      <4>9. QED
        BY <1>2, <2>0, <2>1, <4>7, <4>8, BalanceMoves
    <3>8. QED
      BY <3>6, <3>7
  <2>7. CASE Finish
    BY <1>2, <2>7 DEF Finish, Balanced, Uncounted, Untallied, Recounted
  <2>8. CASE Still
    BY <1>2, <2>8 DEF Still, BookVars, Balanced, Uncounted, Untallied, Recounted
  <2>9. QED
    BY <1>2, <2>2, <2>3, <2>4, <2>5, <2>6, <2>7, <2>8, BookSteps DEF BookKinds
<1>3. ScanInv /\ Balanced => Ledger
  BY DEF ScanInv, Balanced, Ledger, Uncounted
<1>4. QED
  BY <1>1, <1>2, <1>3, ScanInvariant, LogInvariant, PTL DEF ScanSpec

-----------------------------------------------------------------------------
(* The events and the summary. *)

\* A delivery of an error is one error event more, and of a success none.
LEMMA ErrDelivered ==
  ASSUME ScanInv, NEW f \in Callers, NEW r \in {"ok", "err"},
         stage[f] # "none", Deliver(f, r),
         NEW n \in {0, 1}, Len(events[job[f]]) = n
  PROVE  /\ r = "ok" => ErrEvents' = ErrEvents
         /\ r = "err" => /\ <<job[f], n + 1>> \notin ErrEvents
                         /\ ErrEvents' = ErrEvents \cup {<<job[f], n + 1>>}
<1>1. /\ job[f] \in Files
      /\ events[job[f]] \in Seq({"ok", "err"})
      /\ events'[job[f]] = Append(events[job[f]], r)
      /\ \A i \in Files : i # job[f] => events'[i] = events[i]
  BY JobsAreFiles, DeliverOne DEF ScanInv, ScanShape
<1>2. /\ Len(events'[job[f]]) = n + 1
      /\ events'[job[f]][n + 1] = r
      /\ n = 1 => events'[job[f]][1] = events[job[f]][1]
  BY <1>1
<1> DEFINE Err(e) == e[2] <= Len(events[e[1]]) /\ events[e[1]][e[2]] = "err"
           Err1(e) == e[2] <= Len(events'[e[1]]) /\ events'[e[1]][e[2]] = "err"
<1>3. ASSUME NEW e \in Files \X {1, 2}
      PROVE  Err1(e) <=> (Err(e) \/ (r = "err" /\ e = <<job[f], n + 1>>))
  <2>1. CASE e[1] # job[f]
    BY <1>1, <2>1
  <2>2. CASE e[1] = job[f] /\ e[2] = n + 1
    <3>1. Err1(e) <=> r = "err"
      BY <1>2, <2>2
    <3>2. ~Err(e) /\ e = <<job[f], n + 1>>
      BY <2>2
    <3>3. QED
      BY <3>1, <3>2
  <2>3. CASE e[1] = job[f] /\ e[2] # n + 1
    <3>1. e # <<job[f], n + 1>>
      BY <2>3
    <3>2. Err1(e) <=> Err(e)
      <4>1. CASE n = 0
        <5>1. e[2] = 2
          BY <2>3, <4>1
        <5>2. QED
          BY <1>2, <2>3, <4>1, <5>1
      <4>2. CASE n = 1
        <5>1. e[2] = 1
          BY <2>3, <4>2
        <5>2. QED
          BY <1>2, <2>3, <4>2, <5>1
      <4>3. QED
        BY <4>1, <4>2
    <3>3. QED
      BY <3>1, <3>2
  <2>4. QED
    BY <2>1, <2>2, <2>3
<1>4. /\ ErrEvents = {e \in Files \X {1, 2} : Err(e)}
      /\ ErrEvents' = {e \in Files \X {1, 2} : Err1(e)}
  BY DEF ErrEvents
<1>5. <<job[f], n + 1>> \in Files \X {1, 2} /\ ~Err(<<job[f], n + 1>>)
  BY <1>1
<1> HIDE DEF Err, Err1
<1>6. QED
  BY <1>3, <1>4, <1>5

\* Only the first result of a path makes it one that was analysed.
LEMMA OkDelivered ==
  ASSUME ScanInv, NEW f \in Callers, NEW r \in {"ok", "err"},
         stage[f] # "none", Deliver(f, r)
  PROVE  /\ events[job[f]] # <<>> \/ r = "err" => OkPaths' = OkPaths
         /\ events[job[f]] = <<>> /\ r = "ok" =>
              job[f] \notin OkPaths /\ OkPaths' = OkPaths \cup {job[f]}
<1>1. /\ job[f] \in Files
      /\ events[job[f]] \in Seq({"ok", "err"})
      /\ events'[job[f]] = Append(events[job[f]], r)
      /\ \A i \in Files : i # job[f] => events'[i] = events[i]
  BY JobsAreFiles, DeliverOne DEF ScanInv, ScanShape
<1>2. events'[job[f]] # <<>>
  BY <1>1
<1>3. events[job[f]] # <<>> => events'[job[f]][1] = events[job[f]][1]
  BY <1>1
<1>4. events[job[f]] = <<>> => events'[job[f]][1] = r
  BY <1>1
<1>5. CASE events[job[f]] # <<>>
  BY <1>1, <1>2, <1>3, <1>5 DEF OkPaths
<1>6. CASE events[job[f]] = <<>> /\ r = "err"
  BY <1>1, <1>2, <1>4, <1>6 DEF OkPaths
<1>7. CASE events[job[f]] = <<>> /\ r = "ok"
  <2>1. job[f] \notin OkPaths
    BY <1>7 DEF OkPaths
  <2>2. \A i \in Files : i \in OkPaths' <=> (i \in OkPaths \/ i = job[f])
    BY <1>1, <1>2, <1>4, <1>7 DEF OkPaths
  <2>3. QED
    BY <1>1, <1>7, <2>1, <2>2 DEF OkPaths
<1>8. QED
  BY <1>5, <1>6, <1>7

\* Results counted and not delivered yet.
OkDue == {f \in Callers : stage[f] = "reportOk"}
ErrDue == {f \in Callers : stage[f] = "reportErr"}

Reported ==
    /\ analyzed = Cardinality(OkPaths) + Cardinality(OkDue)
    /\ errors = Cardinality(ErrEvents) + Cardinality(ErrDue)

LEMMA ReportSets ==
  /\ IsFiniteSet(OkPaths) /\ IsFiniteSet(ErrEvents)
  /\ IsFiniteSet(OkDue) /\ IsFiniteSet(ErrDue)
<1>1. IsFiniteSet(Files)
  BY ScanAssumption, FS_Interval DEF Files
<1>2. IsFiniteSet({1, 2})
  <2>1. IsFiniteSet({1}) /\ {1, 2} = {1} \cup {2}
    BY FS_Singleton
  <2>2. QED
    BY <2>1, FS_AddElement
<1>3. IsFiniteSet(Files \X {1, 2})
  BY <1>1, <1>2, FS_Product
<1>4. /\ OkPaths \subseteq Files /\ ErrEvents \subseteq Files \X {1, 2}
      /\ OkDue \subseteq Callers /\ ErrDue \subseteq Callers
  BY DEF OkPaths, ErrEvents, OkDue, ErrDue
<1>5. QED
  BY <1>1, <1>3, <1>4, GateAssumption, FS_Subset

\* Every counted result is delivered or due, step by step.
LEMMA ReportedInvariant == ScanSpec => []Reported
<1>1. ScanInit => Reported
  <2> SUFFICES ASSUME ScanInit PROVE Reported
    OBVIOUS
  <2>1. OkPaths = {} /\ ErrEvents = {} /\ OkDue = {} /\ ErrDue = {}
    BY DEF ScanInit, OkPaths, ErrEvents, OkDue, ErrDue
  <2>2. QED
    BY <2>1, FS_EmptySet DEF ScanInit, Reported
<1>2. ASSUME ScanInv, LogInv, Reported, [ScanNext]_vars PROVE Reported'
  <2>0. ScanShape /\ FrameInv /\ LaneInv
    BY <1>2 DEF ScanInv
  <2>1. /\ Cardinality(OkPaths) \in Nat /\ Cardinality(ErrEvents) \in Nat
        /\ Cardinality(OkDue) \in Nat /\ Cardinality(ErrDue) \in Nat
        /\ analyzed = Cardinality(OkPaths) + Cardinality(OkDue)
        /\ errors = Cardinality(ErrEvents) + Cardinality(ErrDue)
    BY <1>2, ReportSets, FS_CardinalityType DEF Reported
  <2>2. ASSUME NEW f \in Callers, events' = events,
               analyzed' = analyzed, errors' = errors,
               \A g \in Callers : g # f => stage'[g] = stage[g],
               stage[f] \notin {"reportOk", "reportErr"},
               stage'[f] \notin {"reportOk", "reportErr"}
        PROVE  Reported'
    <3>1. OkDue' = OkDue /\ ErrDue' = ErrDue
      BY <2>2 DEF OkDue, ErrDue
    <3>2. OkPaths' = OkPaths /\ ErrEvents' = ErrEvents
      BY <2>2 DEF OkPaths, ErrEvents
    <3>3. QED
      BY <1>2, <2>2, <3>1, <3>2 DEF Reported
  <2>3. ASSUME NEW f \in Callers,
               \/ Takes(f) /\ UNCHANGED BookVars
               \/ AdmitPath(f) \/ SkipCancelled(f) \/ FilterOut(f)
               \/ Passes(f) \/ Departs(f)
        PROVE  Reported'
    <3>1. /\ events' = events /\ analyzed' = analyzed /\ errors' = errors
      BY <2>3 DEF AdmitPath, SkipCancelled, FilterOut, Passes, Departs, BookVars
    <3>2. /\ \A g \in Callers : g # f => stage'[g] = stage[g]
          /\ stage[f] \notin {"reportOk", "reportErr"}
          /\ stage'[f] \notin {"reportOk", "reportErr"}
      BY <2>0, <2>3
         DEF Takes, AdmitPath, SkipCancelled, FilterOut, Passes, Departs, Goto, ScanShape
    <3>3. QED
      BY <2>2, <3>1, <3>2
  <2>4. ASSUME NEW f \in Callers, AnalysisOk(f) PROVE Reported'
    <3>1. /\ stage[f] = "run" /\ stage'[f] = "reportOk"
          /\ \A g \in Callers : g # f => stage'[g] = stage[g]
          /\ events' = events /\ errors' = errors /\ analyzed' = analyzed + 1
      BY <2>0, <2>4 DEF AnalysisOk, Goto, ScanShape
    <3>2. /\ f \notin OkDue /\ OkDue' = OkDue \cup {f} /\ ErrDue' = ErrDue
      BY <3>1 DEF OkDue, ErrDue
    <3>3. OkPaths' = OkPaths /\ ErrEvents' = ErrEvents
      BY <3>1 DEF OkPaths, ErrEvents
    <3>4. Cardinality(OkDue') = Cardinality(OkDue) + 1
      BY <3>2, ReportSets, Gains
    <3>5. QED
      BY <2>1, <3>1, <3>2, <3>3, <3>4 DEF Reported
  <2>5. ASSUME NEW f \in Callers, AnalysisErr(f) PROVE Reported'
    <3>1. /\ stage[f] = "run" /\ stage'[f] = "reportErr"
          /\ \A g \in Callers : g # f => stage'[g] = stage[g]
          /\ events' = events /\ analyzed' = analyzed /\ errors' = errors + 1
      BY <2>0, <2>5 DEF AnalysisErr, Goto, ScanShape
    <3>2. /\ f \notin ErrDue /\ ErrDue' = ErrDue \cup {f} /\ OkDue' = OkDue
      BY <3>1 DEF OkDue, ErrDue
    <3>3. OkPaths' = OkPaths /\ ErrEvents' = ErrEvents
      BY <3>1 DEF OkPaths, ErrEvents
    <3>4. Cardinality(ErrDue') = Cardinality(ErrDue) + 1
      BY <3>2, ReportSets, Gains
    <3>5. QED
      BY <2>1, <3>1, <3>2, <3>3, <3>4 DEF Reported
  <2>6. ASSUME NEW f \in Callers, Callback(f) \/ CallbackPanic(f) PROVE Reported'
    <3>1. /\ stage[f] \in {"reportOk", "reportErr"}
          /\ stage'[f] \in {"leave", "panicked"}
          /\ \A g \in Callers : g # f => stage'[g] = stage[g]
          /\ analyzed' = analyzed /\ errors' = errors
      BY <2>0, <2>6 DEF Callback, CallbackPanic, Goto, ScanShape
    <3>2. events[job[f]] = <<>> /\ Len(events[job[f]]) = 0
      BY <1>2, <3>1, LogFacts DEF LogInv
    <3>3. CASE stage[f] = "reportOk"
      <4>1. Deliver(f, "ok")
        BY <2>6, <3>3 DEF Callback, CallbackPanic
      <4>2. f \in OkDue /\ OkDue' = OkDue \ {f} /\ ErrDue' = ErrDue
        BY <3>1, <3>3 DEF OkDue, ErrDue
      <4>3. job[f] \notin OkPaths /\ OkPaths' = OkPaths \cup {job[f]}
        BY <1>2, <3>1, <3>2, <4>1, OkDelivered
      <4>4. ErrEvents' = ErrEvents
        BY <1>2, <3>1, <3>2, <4>1, ErrDelivered
      <4>5. Cardinality(OkDue') = Cardinality(OkDue) - 1
        BY <4>2, ReportSets, Loses
      <4>6. Cardinality(OkPaths') = Cardinality(OkPaths) + 1
        BY <4>3, ReportSets, Gains
      <4>7. QED
        BY <2>1, <3>1, <4>2, <4>4, <4>5, <4>6 DEF Reported
    <3>4. CASE stage[f] = "reportErr"
      <4>1. Deliver(f, "err")
        BY <2>6, <3>4 DEF Callback, CallbackPanic
      <4>2. f \in ErrDue /\ ErrDue' = ErrDue \ {f} /\ OkDue' = OkDue
        BY <3>1, <3>4 DEF OkDue, ErrDue
      <4>3. OkPaths' = OkPaths
        BY <1>2, <3>1, <4>1, OkDelivered
      <4>4. /\ <<job[f], 0 + 1>> \notin ErrEvents
            /\ ErrEvents' = ErrEvents \cup {<<job[f], 0 + 1>>}
        BY <1>2, <3>1, <3>2, <4>1, ErrDelivered
      <4>5. Cardinality(ErrDue') = Cardinality(ErrDue) - 1
        BY <4>2, ReportSets, Loses
      <4>6. Cardinality(ErrEvents') = Cardinality(ErrEvents) + 1
        BY <4>4, ReportSets, Gains
      <4>7. QED
        BY <2>1, <3>1, <4>2, <4>3, <4>5, <4>6 DEF Reported
    <3>5. QED
      BY <3>1, <3>3, <3>4
  <2>7. ASSUME NEW f \in Callers, CatchPanic(f) PROVE Reported'
    <3>1. /\ Deliver(f, "err") /\ stage[f] = "panicked" /\ stage'[f] = "leave"
          /\ \A g \in Callers : g # f => stage'[g] = stage[g]
          /\ analyzed' = analyzed /\ errors' = errors + 1
      BY <2>0, <2>7 DEF CatchPanic, Goto, ScanShape
    <3>2. OkDue' = OkDue /\ ErrDue' = ErrDue
      BY <3>1 DEF OkDue, ErrDue
    <3>3. OkPaths' = OkPaths
      BY <1>2, <3>1, OkDelivered
    <3>4. Len(events[job[f]]) \in {0, 1}
      BY <1>2, <3>1, LogFacts DEF LogInv
    <3>5. PICK n \in {0, 1} : Len(events[job[f]]) = n
      BY <3>4
    <3>6. /\ <<job[f], n + 1>> \notin ErrEvents
          /\ ErrEvents' = ErrEvents \cup {<<job[f], n + 1>>}
      BY <1>2, <3>1, <3>5, ErrDelivered
    <3>7. Cardinality(ErrEvents') = Cardinality(ErrEvents) + 1
      BY <3>6, ReportSets, Gains
    <3>8. QED
      BY <2>1, <3>1, <3>2, <3>3, <3>7 DEF Reported
  <2>8. CASE Finish \/ Still
    BY <1>2, <2>8
       DEF Finish, Still, BookVars, Reported, OkPaths, ErrEvents, OkDue, ErrDue
  <2>9. QED
    BY <1>2, <2>3, <2>4, <2>5, <2>6, <2>7, <2>8, BookSteps DEF BookKinds
<1>3. QED
  BY <1>1, <1>2, ScanInvariant, LogInvariant, PTL DEF ScanSpec

\* When the scan returns, no frame is left, and the events the callback was
\* given agree with the summary: one per path, a second only after a panic.
THEOREM EventsAgreeHolds == ScanSpec => []EventsAgree
<1>1. ASSUME ScanInv, LogInv, Reported, finished PROVE EventsAgree
  <2>1. \A f \in Callers : stage[f] = "none"
    BY <1>1, NoFrameLeft DEF ScanInv, LaneInv
  <2>2. OkDue = {} /\ ErrDue = {}
    BY <2>1 DEF OkDue, ErrDue
  <2>3. Cardinality(OkDue) = 0 /\ Cardinality(ErrDue) = 0
    BY <2>2, FS_EmptySet
  <2>4. Cardinality(OkPaths) = analyzed /\ Cardinality(ErrEvents) = errors
    BY <1>1, <2>3, ReportSets, FS_CardinalityType DEF Reported
  <2>5. ASSUME NEW i \in Files
        PROVE  \/ events[i] \in {<<>>, <<"ok">>, <<"err">>}
               \/ CallbackPanics /\ events[i] \in {<<"ok", "err">>, <<"err", "err">>}
    <3>1. CASE events[i] \in {<<>>, <<"ok">>, <<"err">>}
      BY <3>1
    <3>2. CASE events[i] \in {<<"ok", "err">>, <<"err", "err">>}
      <4>1. Len(events[i]) = 2
        BY <3>2, LogFacts
      <4>2. QED
        BY <1>1, <3>2, <4>1 DEF LogInv
    <3>3. QED
      BY <1>1, <3>1, <3>2 DEF LogInv, Logs
  <2>6. QED
    BY <2>4, <2>5 DEF EventsAgree
<1>2. ScanInv /\ LogInv /\ Reported => EventsAgree
  BY <1>1 DEF EventsAgree
<1>3. QED
  BY <1>2, ScanInvariant, LogInvariant, ReportedInvariant, PTL

-----------------------------------------------------------------------------
(* The types of the scan.                                                  *)

\* Paths that frames have pulled are paths that were taken.
LEMMA PullingFits ==
  ASSUME ScanInv
  PROVE  Cardinality(Pulling) \in Nat /\ Cardinality(Pulling) <= next - 1
<1> DEFINE path == [f \in Pulling |-> job[f]]
<1>0. ScanShape /\ FrameInv /\ OneFramePerPath /\ next \in Nat \ {0}
  BY ScanAssumption DEF ScanInv, ScanShape
<1>1. IsFiniteSet(Pulling) /\ Cardinality(Pulling) \in Nat
  BY GateAssumption, FS_Subset, FS_CardinalityType DEF Pulling
<1>2. \A f \in Pulling : job[f] \in 1..(next - 1)
  BY <1>0, ScanAssumption DEF Pulling, FrameInv, ScanShape
<1>3. \A f, g \in Pulling : job[f] = job[g] => f = g
  BY <1>0, <1>2 DEF OneFramePerPath, Pulling
<1>4. path \in Injection(Pulling, 1..(next - 1))
  BY <1>2, <1>3 DEF Injection, IsInjective
<1>5. IsFiniteSet(1..(next - 1)) /\ Cardinality(1..(next - 1)) = next - 1
  BY <1>0, FS_Interval
<1>6. Cardinality(Pulling) <= Cardinality(1..(next - 1))
  BY <1>4, <1>5, FS_Injection
<1>7. QED
  BY <1>1, <1>5, <1>6

\* The variables of the gate and of the scan have their types in every reachable
\* state; TOPLEVEL_PENDING, which only subtracts, never falls below zero nor
\* rises above the length of the list.
THEOREM ScanTypes == ScanSpec => []ScanTypeOK
<1>1. ScanInv /\ PendingCounts /\ GateTypeOK => ScanTypeOK
  <2> SUFFICES ASSUME ScanInv, PendingCounts, GateTypeOK PROVE ScanTypeOK
    OBVIOUS
  <2>1. pending = (NumFiles + 1 - next) + Cardinality(Pulling)
    BY DEF PendingCounts, Pulling
  <2>2. next \in 1..NumFiles + 1 /\ NumFiles \in Nat
    BY ScanAssumption DEF ScanInv, ScanShape
  <2>3. pending \in 0..NumFiles
    BY <2>1, <2>2, PullingFits
  <2>4. QED
    BY <2>3 DEF ScanInv, ScanShape, ScanTypeOK
<1>2. QED
  BY <1>1, ScanInvariant, PendingExact, ScanImplementsGate, GateTypeCorrect, PTL

-----------------------------------------------------------------------------
(* Why a scan may stand still.                                             *)

\* Every frame that nothing holds up waits in the gate.
AllWait == \A f \in Callers : Active(f) /\ Running(f) => Waiting(f)

\* A file is refused although FORCE_ADMIT_AFTER has passed for it.
RefusedInTime(f) == pc[f] = "lock" /\ force[f] /\ ~fits(reserved, est[f], force[f], reading[f])

GridlockHasCause ==
    AllWait /\ (\E f \in Callers : RefusedInTime(f)) => \E f \in Callers : WaitsOverPermit(f)

\* Where nothing is held, nothing is reserved.
LEMMA ReservedIsHeld ==
  ASSUME Accounting, reserved # 0
  PROVE  \E c \in Callers : Holding(c)
<1>1. UnitsOf(Callers) # {}
  BY FS_EmptySet DEF Accounting
<1>2. QED
  BY <1>1 DEF UnitsOf

\* Of the frames that hold up c, one is held up by none.
LEMMA TopOfStack ==
  ASSUME ScanShape, StackInv, NEW c \in Callers, ~Running(c)
  PROVE  \E f \in Callers : c \in beneath[f] /\ Active(f) /\ Running(f)
<1> DEFINE S == {f \in Callers : c \in beneath[f]}
           rest(f) == Cardinality(Callers) - Cardinality(beneath[f])
           M == {rest(f) : f \in S}
<1>1. S # {}
  BY DEF Running
<1>2. \A f \in Callers : /\ IsFiniteSet(beneath[f])
                          /\ Cardinality(beneath[f]) \in Nat
                          /\ Cardinality(beneath[f]) <= Cardinality(Callers)
                          /\ Cardinality(Callers) \in Nat
  BY GateAssumption, FS_Subset, FS_CardinalityType DEF ScanShape
<1>3. M \subseteq Nat /\ M # {}
  BY <1>1, <1>2
<1>4. PICK n \in M : \A k \in M : ~(k < n)
  <2>1. IsWellFoundedOn(OpToRel(<, Nat), Nat)
    BY NatLessThanWellFounded
  <2>2. PICK n \in M : \A k \in M : ~(<<k, n>> \in OpToRel(<, Nat))
    BY <1>3, <2>1, WFMin
  <2>3. QED
    BY <1>3, <2>2 DEF OpToRel
<1>5. PICK f \in S : n = rest(f)
  OBVIOUS
<1>6. Active(f)
  BY <1>5 DEF StackInv
<1>7. ASSUME ~Running(f) PROVE FALSE
  <2>1. PICK g \in Callers : f \in beneath[g]
    BY <1>7 DEF Running
  <2>2. beneath[f] \subseteq beneath[g] /\ f \notin beneath[f]
    BY <1>5, <2>1 DEF StackInv
  <2>3. g \in S
    BY <1>5, <2>1, <2>2
  <2>4. Cardinality(beneath[f]) < Cardinality(beneath[g])
    <3>1. Cardinality(beneath[f]) <= Cardinality(beneath[g])
      BY <1>2, <2>2, FS_Subset
    <3>2. Cardinality(beneath[f]) # Cardinality(beneath[g])
      <4>1. beneath[f] # beneath[g]
        BY <2>1, <2>2
      <4>2. QED
        BY <1>2, <2>2, <4>1, FS_Subset
    <3>3. QED
      BY <1>2, <3>1, <3>2
  <2>5. rest(g) < rest(f)
    <3> HIDE DEF S
    <3>1. f \in Callers
      BY <1>5 DEF S
    <3>2. QED
      BY <1>2, <2>4, <3>1
  <2>6. QED
    BY <1>4, <1>5, <2>3, <2>5
<1>8. QED
  BY <1>5, <1>6, <1>7

\* The timed escape refuses a file only while something is reserved; so when
\* everything that could go on waits in the gate and it still refuses, some path
\* waits while an analysis it holds up keeps a permit.  This is what
\* OnlyStuckOverPermit rests on, for any number of lanes, any files, any memory
\* and any stealing; fairness alone is missing.
THEOREM GridlockCause == ScanSpec => []GridlockHasCause
<1>1. ScanInv /\ Accounting => GridlockHasCause
  <2> SUFFICES ASSUME ScanInv, Accounting, AllWait, NEW r \in Callers, RefusedInTime(r)
               PROVE  \E f \in Callers : WaitsOverPermit(f)
    BY DEF GridlockHasCause
  <2>0. ScanShape /\ FrameInv /\ StackInv /\ LaneInv
    BY DEF ScanInv
  <2>1. reserved # 0
    BY DEF RefusedInTime, fits
  <2>2. PICK c \in Callers : Holding(c)
    BY <2>1, ReservedIsHeld
  <2>3. stage[c] # "none" /\ ~Waiting(c)
    BY <2>0, <2>2 DEF FrameInv, Holding, Waiting
  <2>4. Active(c)
    BY <2>0, <2>3, FramesOfLanes DEF Active, LaneInv
  <2>5. ~Running(c)
    BY <2>3, <2>4 DEF AllWait
  <2>6. PICK f \in Callers : c \in beneath[f] /\ Active(f) /\ Running(f)
    BY <2>0, <2>5, TopOfStack
  <2>7. Waiting(f)
    BY <2>6 DEF AllWait
  <2>8. QED
    BY <2>2, <2>6, <2>7 DEF WaitsOverPermit
<1>2. QED
  BY <1>1, ScanInvariant, ScanKeepsGate, PTL

=============================================================================
