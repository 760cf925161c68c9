------------------------- MODULE SingleFlight_proofs -------------------------
(***************************************************************************)
(* Proofs about the single flight of archive members, for any threads,     *)
(* members, archives and keys: the flight map, the followers and the       *)
(* waiter cap.                                                              *)
(***************************************************************************)
EXTENDS SingleFlight, FiniteSetTheorems, SequenceTheorems,
        WellFoundedInduction, TLAPS

Following == Waits \cup {"follow", "uncount"}

\* The inductive invariant behind the flight map: an owner refers to its own
\* flight and is in the map under its key until it has taken itself out, the
\* map holds nothing else, and a follower's flight is done or will be.
OwnersHold == \A j \in Jobs : at[j] \in Owning => handle[j] = j
OwnersMapped == \A j \in Jobs : at[j] \in Owning => inFlight[KeyOf[j]] = j
MapHoldsOwners ==
    \A k \in Keys :
        inFlight[k] # None => KeyOf[inFlight[k]] = k /\ at[inFlight[k]] \in Owning
FollowersServed ==
    \A j \in Jobs :
        at[j] \in Following =>
            /\ handle[j] \in Jobs
            /\ done[handle[j]] \/ at[handle[j]] \in Owning \ {"remove"}
RemovedDone == \A j \in Jobs : at[j] = "remove" => done[j]

FlightInv ==
    /\ OwnersHold
    /\ OwnersMapped
    /\ MapHoldsOwners
    /\ FollowersServed
    /\ RemovedDone

\* WAITERS is the number of jobs that count themselves in, and at most the cap
\* of them stay.
InLine == {j \in Jobs : at[j] \in {"counted", "uncount"}}
Counted == {j \in Jobs : at[j] = "counted"}
WaitersInv ==
    /\ waiters = Cardinality(InLine)
    /\ Cardinality(Counted) <= WaiterCap

LEMMA FlightConstants ==
    None \notin Jobs /\ KeyOf \in [Jobs -> Keys] /\ WaiterCap \in Nat
    /\ IsFiniteSet(Jobs)
<1>1. /\ None \notin Jobs /\ KeyOf \in [Jobs -> Keys]
      /\ IsFiniteSet(Jobs) /\ Cardinality(Pool) \in Nat
  BY FlightAssumption, FS_CardinalityType
<1>2. WaiterCap \in Nat
  BY <1>1 DEF WaiterCap
<1>3. QED
  BY <1>1, <1>2

-----------------------------------------------------------------------------
(* Types *)

\* All of TypeOK but the range of waiters, which WaitersInv gives.
Shape ==
    /\ fanned \in Fanouts
    /\ stack \in [Threads -> Seq(Jobs)]
    /\ at \in [Jobs -> States]
    /\ handle \in [Jobs -> Jobs \cup {None}]
    /\ inFlight \in [Keys -> Jobs \cup {None}]
    /\ done \in [Jobs -> BOOLEAN]
    /\ report \in [Jobs -> BOOLEAN]
    /\ isolated \in [Jobs -> BOOLEAN]
    /\ owned \in [Threads -> Nat]
    /\ depth \in [Threads -> Nat]

\* A thread that runs a job has a stack, and taking its top off leaves one.
LEMMA PopType ==
  ASSUME Shape, NEW t \in Threads, NEW j \in Jobs, Runs(t, j)
  PROVE  SubSeq(stack[t], 1, Len(stack[t]) - 1) \in Seq(Jobs)
<1>1. stack[t] \in Seq(Jobs) /\ stack[t] # <<>>
  BY DEF Shape, Runs, Idle
<1>2. Len(stack[t]) \in Nat /\ Len(stack[t]) # 0
  BY <1>1, EmptySeq, LenProperties
<1>3. QED
  BY <1>1, <1>2, SubSeqProperties

LEMMA StartShape ==
  ASSUME Shape, NEW t \in Threads, NEW j \in Jobs, Push(t, j)
  PROVE  Shape'
<1>1. Append(stack[t], j) \in Seq(Jobs)
  BY AppendProperties DEF Shape
<1>2. QED
  BY <1>1 DEF Push, Goto, Shape, States

LEMMA LessType == ASSUME NEW n \in Nat PROVE Less(n) \in Nat
  BY DEF Less

\* Independently leaves every variable it touches in its range.
LEMMA IndependentShape ==
  ASSUME Shape, NEW t \in Threads, NEW j \in Jobs, Independently(t, j),
         UNCHANGED <<fanned, stack, inFlight, done, report, isolated, owned>>
  PROVE  Shape'
  BY DEF Independently, Goto, Shape, States

\* A step that only moves the job and counts depth down, and perhaps returns.
LEMMA EndShape ==
  ASSUME Shape, NEW t \in Threads, NEW j \in Jobs, Runs(t, j),
         NEW s \in States, Goto(j, s), UNCHANGED stack \/ Return(t, j),
         depth' = [depth EXCEPT ![t] = Less(@)],
         UNCHANGED <<fanned, handle, inFlight, done, report, isolated, owned>>
  PROVE  Shape'
<1>1. depth[t] \in Nat /\ Less(depth[t]) \in Nat
  BY LessType DEF Shape
<1>2. depth' \in [Threads -> Nat]
  BY <1>1 DEF Shape
<1>3. at' \in [Jobs -> States]
  BY DEF Goto, Shape
<1>4. stack' \in [Threads -> Seq(Jobs)]
  BY PopType DEF Return, Shape
<1>5. QED
  BY <1>2, <1>3, <1>4 DEF Shape

LEMMA StepShape ==
  ASSUME Shape, NEW t \in Threads, NEW j \in Jobs, Step(t, j) \/ GiveUp(t, j)
  PROVE  Shape'
<1> DEFINE pop == SubSeq(stack[t], 1, Len(stack[t]) - 1)
<1> USE FlightConstants
<1>a. UNCHANGED fanned
  BY DEF Step, GiveUp
<1>0. Runs(t, j) /\ pop \in Seq(Jobs)
  <2>1. Runs(t, j)
    BY DEF Step, CacheHit, Join, BecomeOwner, DeclineToWait, Block, CountIn,
           WaitExempt, OverCap, Adopt, PathBound, Retry, GiveUp, MarkIsolated,
           EndIndependent, EndOwned, Retire, KeepForWaiters, Publish, Remove
  <2>2. QED
    BY <2>1, PopType
<1>1. CASE CacheHit(t, j)
  BY <1>a, <1>0, <1>1 DEF CacheHit, Return, Goto, Shape, States, Finished
<1>2. CASE Join(t, j)
  BY <1>a, <1>2 DEF Join, Goto, Shape, States
<1>3. CASE BecomeOwner(t, j)
  BY <1>a, <1>3 DEF BecomeOwner, Goto, Shape, States, Owning
<1>4. CASE DeclineToWait(t, j) \/ OverCap(t, j) \/ PathBound(t, j) \/ GiveUp(t, j)
  <2>1. /\ Independently(t, j)
        /\ UNCHANGED <<fanned, stack, inFlight, done, report, isolated, owned>>
    BY <1>a, <1>4 DEF DeclineToWait, OverCap, PathBound, GiveUp
  <2>2. QED
    BY <2>1, IndependentShape
<1>5. CASE Block(t, j) \/ CountIn(t, j) \/ WaitExempt(t, j)
  BY <1>a, <1>5 DEF Block, CountIn, WaitExempt, Goto, Shape, States, Waits, Yielding
<1>6. CASE Adopt(t, j)
  BY <1>a, <1>0, <1>6 DEF Adopt, Return, Goto, Shape, States, Finished
<1>7. CASE Retry(t, j)
  BY <1>a, <1>7 DEF Retry, Goto, Shape, States
<1>8. CASE MarkIsolated(t, j)
  BY <1>a, <1>8 DEF MarkIsolated, Shape
<1>9. CASE EndIndependent(t, j)
  <2>1. Return(t, j) /\ Goto(j, "ended")
    BY <1>9 DEF EndIndependent, Return
  <2>2. "ended" \in States
    BY DEF States, Finished
  <2>3. QED
    BY <1>a, <1>0, <1>9, <2>1, <2>2, EndShape DEF EndIndependent
<1>10. CASE EndOwned(t, j)
  <2>1. PICK s \in {"okDone", "errDone", "unwind"} : Goto(j, s)
    BY <1>10 DEF EndOwned
  <2>2. s \in States
    BY <2>1 DEF States, Owning
  <2>3. QED
    BY <1>a, <1>0, <1>10, <2>1, <2>2, EndShape DEF EndOwned
<1>11. CASE Retire(t, j) \/ Remove(t, j)
  <2>1. Return(t, j)
    BY <1>11 DEF Retire, Remove
  <2>2. at' \in [Jobs -> States] /\ stack' \in [Threads -> Seq(Jobs)]
    BY <1>0, <2>1 DEF Return, Goto, Shape, States, Finished
  <2>3. owned' \in [Threads -> Nat]
    <3>1. owned' = [owned EXCEPT ![t] = Less(owned[t])]
      BY <1>11 DEF Retire, Remove
    <3>2. owned \in [Threads -> Nat] /\ Less(owned[t]) \in Nat
      BY LessType DEF Shape
    <3>3. QED
      BY <3>1, <3>2
  <2>4. inFlight' \in [Keys -> Jobs \cup {None}] /\ handle' \in [Jobs -> Jobs \cup {None}]
    BY <1>11 DEF Retire, Remove, Shape
  <2>5. QED
    BY <1>a, <1>11, <2>2, <2>3, <2>4 DEF Retire, Remove, Shape
<1>12. CASE KeepForWaiters(t, j) \/ Publish(t, j)
  BY <1>a, <1>12 DEF KeepForWaiters, Publish, Goto, Shape, States, Owning
<1>13. QED
  BY <1>1, <1>2, <1>3, <1>4, <1>5, <1>6, <1>7, <1>8, <1>9, <1>10, <1>11, <1>12
  DEF Step

-----------------------------------------------------------------------------
(* The flight map *)

LEMMA FlightInit == Init => FlightInv
  BY FlightConstants
  DEF Init, FlightInv, OwnersHold, OwnersMapped, MapHoldsOwners,
      FollowersServed, RemovedDone, Owning, Following, Waits, Yielding

LEMMA FlightStart ==
  ASSUME Shape, FlightInv, NEW t \in Threads, NEW j \in Jobs, Push(t, j)
  PROVE  FlightInv'
  BY FlightConstants
  DEF Push, Goto, Shape, FlightInv, OwnersHold, OwnersMapped, MapHoldsOwners,
      FollowersServed, RemovedDone, Owning, Following, Waits, Yielding

\* A follower that drops its handle takes nothing from anyone.
LEMMA FlightLeave ==
  ASSUME Shape, FlightInv, NEW j \in Jobs, at[j] \in Following,
         NEW s, s \notin Owning \cup Following, Goto(j, s),
         handle' = [handle EXCEPT ![j] = None], UNCHANGED <<inFlight, done>>
  PROVE  FlightInv'
  BY FlightConstants
  DEF Goto, Shape, FlightInv, OwnersHold, OwnersMapped, MapHoldsOwners,
      FollowersServed, RemovedDone, Owning, Following, Waits, Yielding

\* Nor does a job that stays an owner short of removal, a follower, or neither.
LEMMA FlightMove ==
  ASSUME Shape, FlightInv, NEW j \in Jobs, NEW s, Goto(j, s),
         \/ at[j] \in Owning \ {"remove"} /\ s \in Owning \ {"remove"}
         \/ at[j] \in Following /\ s \in Following
         \/ at[j] \notin Owning \cup Following /\ s \notin Owning \cup Following,
         UNCHANGED <<handle, inFlight, done>>
  PROVE  FlightInv'
<1> USE FlightConstants
    DEF Goto, Shape, FlightInv, OwnersHold, OwnersMapped, MapHoldsOwners,
        FollowersServed, RemovedDone
<1>0. Owning \cap Following = {} /\ "remove" \in Owning
  BY DEF Owning, Following, Waits, Yielding
<1>1. CASE at[j] \in Owning \ {"remove"} /\ s \in Owning \ {"remove"}
  BY <1>0, <1>1
<1>2. CASE at[j] \in Following /\ s \in Following
  BY <1>0, <1>2
<1>3. CASE at[j] \notin Owning \cup Following /\ s \notin Owning \cup Following
  BY <1>0, <1>3
<1>4. QED
  BY <1>1, <1>2, <1>3

LEMMA FlightStep ==
  ASSUME Shape, FlightInv, NEW t \in Threads, NEW j \in Jobs,
         Step(t, j) \/ GiveUp(t, j)
  PROVE  FlightInv'
<1> USE FlightConstants
    DEF Shape, FlightInv, OwnersHold, OwnersMapped, MapHoldsOwners,
        FollowersServed, RemovedDone, Owning, Following, Waits, Yielding, Goto
<1>1. CASE CacheHit(t, j)
  BY <1>1 DEF CacheHit, Return, Finished
<1>2. CASE Join(t, j)
  <2> DEFINE f == inFlight[KeyOf[j]]
  <2>1. f \in Jobs /\ at[f] \in Owning /\ f # j
    BY <1>2 DEF Join
  <2>2. done[f] \/ at[f] \in Owning \ {"remove"}
    BY <2>1
  <2>3. /\ handle' = [handle EXCEPT ![j] = f]
        /\ at' = [at EXCEPT ![j] = "follow"]
        /\ UNCHANGED <<inFlight, done>>
        /\ at[j] = "lookup"
    BY <1>2 DEF Join
  <2> HIDE DEF f
  <2>4. OwnersHold' /\ OwnersMapped' /\ RemovedDone'
    BY <2>1, <2>3
  <2>5. MapHoldsOwners'
    BY <2>1, <2>3
  <2>6. FollowersServed'
    BY <2>1, <2>2, <2>3
  <2>7. QED
    BY <2>4, <2>5, <2>6
<1>3. CASE BecomeOwner(t, j)
  \* What is in the map is alive, so there is nothing under this key.
  <2>1. inFlight[KeyOf[j]] = None
    BY <1>3 DEF BecomeOwner, Refs
  <2>2. /\ handle' = [handle EXCEPT ![j] = j]
        /\ inFlight' = [inFlight EXCEPT ![KeyOf[j]] = j]
        /\ at' = [at EXCEPT ![j] = "own"]
        /\ UNCHANGED done
        /\ at[j] = "lookup"
    BY <1>3 DEF BecomeOwner
  <2>3. OwnersHold' /\ RemovedDone'
    BY <2>2
  <2>4. OwnersMapped'
    BY <2>1, <2>2
  <2>5. MapHoldsOwners'
    BY <2>2
  <2>6. FollowersServed'
    BY <2>2
  <2>7. QED
    BY <2>3, <2>4, <2>5, <2>6
<1>4. CASE DeclineToWait(t, j) \/ OverCap(t, j) \/ PathBound(t, j) \/ GiveUp(t, j)
  <2>1. /\ at[j] \in Following
        /\ Goto(j, "indep")
        /\ handle' = [handle EXCEPT ![j] = None]
        /\ UNCHANGED <<inFlight, done>>
    BY <1>4 DEF DeclineToWait, OverCap, PathBound, GiveUp, Independently
  <2>2. QED
    BY <2>1, FlightLeave
<1>5. CASE Block(t, j) \/ CountIn(t, j) \/ WaitExempt(t, j)
  <2>1. PICK s \in {"blocked", "counted", "exempt", "uncount"} : Goto(j, s)
    BY <1>5 DEF Block, CountIn, WaitExempt
  <2>2. at[j] = "follow" /\ UNCHANGED <<handle, inFlight, done>>
    BY <1>5 DEF Block, CountIn, WaitExempt
  <2>3. QED
    BY <2>1, <2>2, FlightMove
<1>6. CASE Adopt(t, j)
  BY <1>6, FlightLeave DEF Adopt, Return
<1>7. CASE Retry(t, j)
  BY <1>7, FlightLeave DEF Retry
<1>8. CASE MarkIsolated(t, j)
  BY <1>8 DEF MarkIsolated
<1>9. CASE EndIndependent(t, j)
  <2>1. Goto(j, "ended")
    BY <1>9 DEF EndIndependent, Return
  <2>2. at[j] = "indep" /\ UNCHANGED <<handle, inFlight, done>>
    BY <1>9 DEF EndIndependent
  <2>3. QED
    BY <2>1, <2>2, FlightMove
<1>10. CASE EndOwned(t, j)
  <2>1. PICK s \in {"okDone", "errDone", "unwind"} : Goto(j, s)
    BY <1>10 DEF EndOwned
  <2>2. at[j] = "own" /\ UNCHANGED <<handle, inFlight, done>>
    BY <1>10 DEF EndOwned
  <2>3. QED
    BY <2>1, <2>2, FlightMove
<1>11. CASE Retire(t, j)
  BY <1>11 DEF Retire, Observed, Refs, Return
<1>12. CASE Remove(t, j)
  BY <1>12 DEF Remove, Return
<1>13. CASE KeepForWaiters(t, j)
  BY <1>13 DEF KeepForWaiters
<1>14. CASE Publish(t, j)
  BY <1>14 DEF Publish
<1>15. QED
  BY <1>1, <1>2, <1>3, <1>4, <1>5, <1>6, <1>7, <1>8, <1>9, <1>10, <1>11, <1>12,
     <1>13, <1>14
  DEF Step

-----------------------------------------------------------------------------
(* The waiters *)

\* Adding a job to, or taking one from, a finite set of jobs.
LEMMA JobSets ==
  ASSUME NEW S \in SUBSET Jobs, NEW j \in Jobs
  PROVE  /\ IsFiniteSet(S)
         /\ Cardinality(S) \in Nat
         /\ j \notin S => Cardinality(S \cup {j}) = Cardinality(S) + 1
         /\ j \in S => Cardinality(S \ {j}) = Cardinality(S) - 1
<1>1. IsFiniteSet(S)
  BY FlightConstants, FS_Subset
<1>2. QED
  BY <1>1, FS_CardinalityType, FS_AddElement, FS_RemoveElement

LEMMA WaitersType == WaitersInv => waiters \in Nat
<1>1. IsFiniteSet(InLine)
  BY FlightConstants, FS_Subset DEF InLine
<1>2. QED
  BY <1>1, FS_CardinalityType DEF WaitersInv

LEMMA CountedInLine == Cardinality(Counted) <= Cardinality(InLine)
<1>1. IsFiniteSet(InLine) /\ Counted \subseteq InLine
  BY FlightConstants, FS_Subset DEF InLine, Counted
<1>2. QED
  BY <1>1, FS_Subset

LEMMA WaitersInit == Init => WaitersInv
<1>1. SUFFICES ASSUME Init PROVE WaitersInv
  OBVIOUS
<1>2. InLine = {} /\ Counted = {}
  BY <1>1 DEF Init, InLine, Counted
<1>3. QED
  BY <1>1, <1>2, FS_EmptySet, FlightConstants DEF Init, WaitersInv

\* A step outside the line.
LEMMA WaitersAside ==
  ASSUME Shape, WaitersInv, NEW j \in Jobs, NEW s, Goto(j, s),
         at[j] \notin {"counted", "uncount"}, s \notin {"counted", "uncount"},
         UNCHANGED waiters
  PROVE  WaitersInv'
<1>1. InLine' = InLine /\ Counted' = Counted
  BY DEF Goto, Shape, InLine, Counted
<1>2. QED
  BY <1>1 DEF WaitersInv

\* A job leaves the line.
LEMMA WaitersLeave ==
  ASSUME Shape, WaitersInv, NEW j \in Jobs, NEW s, Goto(j, s),
         at[j] \in {"counted", "uncount"}, s \notin {"counted", "uncount"},
         waiters' = waiters - 1
  PROVE  WaitersInv'
<1>1. InLine' = InLine \ {j} /\ Counted' = Counted \ {j}
  BY DEF Goto, Shape, InLine, Counted
<1>2. j \in InLine /\ InLine \in SUBSET Jobs /\ Counted \in SUBSET Jobs
  BY DEF InLine, Counted
<1>3. Cardinality(InLine') = Cardinality(InLine) - 1
  BY <1>1, <1>2, JobSets
<1>4. Cardinality(Counted') <= Cardinality(Counted)
  <2>1. IsFiniteSet(Counted) /\ Counted' \subseteq Counted
    BY <1>1, <1>2, JobSets
  <2>2. QED
    BY <2>1, FS_Subset
<1>5. Cardinality(Counted) \in Nat /\ Cardinality(Counted') \in Nat
  <2>1. Counted' \in SUBSET Jobs
    BY <1>1, <1>2
  <2>2. QED
    BY <1>2, <2>1, JobSets
<1>6. QED
  BY <1>3, <1>4, <1>5, FlightConstants DEF WaitersInv

\* A job joins the line, to stay only below the cap.
LEMMA WaitersEnter ==
  ASSUME Shape, WaitersInv, NEW j \in Jobs, at[j] = "follow",
         Goto(j, IF waiters >= WaiterCap THEN "uncount" ELSE "counted"),
         waiters' = waiters + 1
  PROVE  WaitersInv'
<1>1. InLine' = InLine \cup {j} /\ j \notin InLine /\ InLine \in SUBSET Jobs
  BY DEF Goto, Shape, InLine
<1>2. Cardinality(InLine') = Cardinality(InLine) + 1
  BY <1>1, JobSets
<1>3. Counted \in SUBSET Jobs /\ j \notin Counted
  BY DEF Counted
<1>4. Cardinality(Counted) \in Nat /\ waiters \in Nat
  BY <1>3, JobSets, WaitersType
<1>5. CASE waiters >= WaiterCap
  <2>1. Counted' = Counted
    BY <1>5 DEF Goto, Shape, Counted
  <2>2. QED
    BY <1>2, <2>1 DEF WaitersInv
<1>6. CASE ~(waiters >= WaiterCap)
  <2>1. Counted' = Counted \cup {j}
    BY <1>6 DEF Goto, Shape, Counted
  <2>2. Cardinality(Counted') = Cardinality(Counted) + 1
    BY <1>3, <2>1, JobSets
  <2>3. Cardinality(Counted) <= waiters
    BY CountedInLine DEF WaitersInv
  <2>4. QED
    BY <1>2, <1>4, <1>6, <2>2, <2>3, FlightConstants DEF WaitersInv
<1>7. QED
  BY <1>5, <1>6

LEMMA WaitersStep ==
  ASSUME Shape, WaitersInv, NEW t \in Threads, NEW j \in Jobs,
         Step(t, j) \/ GiveUp(t, j)
  PROVE  WaitersInv'
<1>1. CASE CountIn(t, j)
  BY <1>1, WaitersEnter DEF CountIn
<1>2. CASE OverCap(t, j)
  BY <1>2, WaitersLeave DEF OverCap, Independently
<1>3. CASE Adopt(t, j) \/ PathBound(t, j) \/ Retry(t, j) \/ GiveUp(t, j)
  <2>1. PICK s \in {"ended", "indep", "lookup"} : Goto(j, s)
    BY <1>3 DEF Adopt, PathBound, Retry, GiveUp, Independently, Return
  <2>2. EndWait(j) /\ at[j] \in Waits
    BY <1>3 DEF Adopt, PathBound, Retry, GiveUp
  <2>3. CASE at[j] = "counted"
    BY <2>1, <2>2, <2>3, WaitersLeave DEF EndWait
  <2>4. CASE at[j] # "counted"
    BY <2>1, <2>2, <2>4, WaitersAside DEF EndWait, Waits, Yielding
  <2>5. QED
    BY <2>3, <2>4
<1>4. CASE MarkIsolated(t, j)
  BY <1>4 DEF MarkIsolated, WaitersInv, InLine, Counted
<1>5. CASE CacheHit(t, j) \/ Join(t, j) \/ BecomeOwner(t, j)
  BY <1>5, WaitersAside DEF CacheHit, Join, BecomeOwner, Return
<1>6. CASE DeclineToWait(t, j) \/ Block(t, j) \/ WaitExempt(t, j)
  BY <1>6, WaitersAside DEF DeclineToWait, Block, WaitExempt, Independently
<1>7. CASE EndIndependent(t, j) \/ EndOwned(t, j)
  <2>1. PICK s \in {"ended", "okDone", "errDone", "unwind"} : Goto(j, s)
    BY <1>7 DEF EndIndependent, EndOwned, Return
  <2>2. at[j] \in {"indep", "own"} /\ UNCHANGED waiters
    BY <1>7 DEF EndIndependent, EndOwned
  <2>3. QED
    BY <2>1, <2>2, WaitersAside
<1>8. CASE Retire(t, j) \/ KeepForWaiters(t, j) \/ Publish(t, j) \/ Remove(t, j)
  <2>1. PICK s \in {"ended", "publishOk", "publishErr", "remove"} : Goto(j, s)
    BY <1>8 DEF Retire, KeepForWaiters, Publish, Remove, Return
  <2>2. /\ at[j] \in {"okDone", "errDone", "publishOk", "publishErr", "unwind", "remove"}
        /\ UNCHANGED waiters
    BY <1>8 DEF Retire, KeepForWaiters, Publish, Remove
  <2>3. QED
    BY <2>1, <2>2, WaitersAside
<1>9. QED
  BY <1>1, <1>2, <1>3, <1>4, <1>5, <1>6, <1>7, <1>8 DEF Step

-----------------------------------------------------------------------------
(* The stacks and the thread-local counts *)

\* A job is on one stack, once, from its start to its end.
OnceOnStacks ==
    \A t, u \in Threads :
        \A m \in 1..Len(stack[t]), n \in 1..Len(stack[u]) :
            stack[t][m] = stack[u][n] => t = u /\ m = n
StacksRun ==
    \A t \in Threads : \A j \in OnStack(t) : at[j] \notin {"new"} \cup Finished

\* The jobs of a thread that are in one of the states of X.
Held(t, X) == {j \in OnStack(t) : at[j] \in X}
CountsInv ==
    \A t \in Threads :
        /\ owned[t] = Cardinality(Held(t, Owning))
        /\ depth[t] = Cardinality(Held(t, Working))

LEMMA OnStackJobs ==
  ASSUME Shape, NEW t \in Threads
  PROVE  OnStack(t) \in SUBSET Jobs
<1>1. stack[t] \in Seq(Jobs)
  BY DEF Shape
<1>2. Len(stack[t]) \in Nat /\ \A n \in 1..Len(stack[t]) : stack[t][n] \in Jobs
  BY <1>1, LenProperties, ElementOfSeq
<1>3. QED
  BY <1>2 DEF OnStack

\* The running job is the last one of its stack.
LEMMA TopOnStack ==
  ASSUME Shape, NEW t \in Threads, NEW j \in Jobs, Runs(t, j)
  PROVE  /\ Len(stack[t]) \in Nat \ {0}
         /\ stack[t][Len(stack[t])] = j
         /\ j \in OnStack(t)
<1>1. stack[t] \in Seq(Jobs) /\ stack[t] # <<>>
  BY DEF Shape, Runs, Idle
<1>2. Len(stack[t]) \in Nat /\ Len(stack[t]) # 0
  BY <1>1, EmptySeq, LenProperties
<1>3. QED
  BY <1>2 DEF Runs, Top, OnStack

\* No other stack holds it.
LEMMA RunsAlone ==
  ASSUME Shape, OnceOnStacks, NEW t \in Threads, NEW j \in Jobs, Runs(t, j),
         NEW u \in Threads, u # t
  PROVE  j \notin OnStack(u)
  BY TopOnStack DEF OnceOnStacks, OnStack

\* A start puts one job on top of one stack ...
LEMMA PushSeq ==
  ASSUME Shape, NEW t \in Threads, NEW j \in Jobs, Push(t, j)
  PROVE  /\ Len(stack[t]) \in Nat
         /\ Len(stack'[t]) = Len(stack[t]) + 1
         /\ \A n \in 1..Len(stack[t]) : stack'[t][n] = stack[t][n]
         /\ stack'[t][Len(stack[t]) + 1] = j
         /\ \A u \in Threads \ {t} : stack'[u] = stack[u]
<1>1. /\ stack' = [stack EXCEPT ![t] = Append(stack[t], j)]
      /\ stack \in [Threads -> Seq(Jobs)]
      /\ stack[t] \in Seq(Jobs)
  BY DEF Push, Shape
<1>2. stack'[t] = Append(stack[t], j)
  BY <1>1
<1>3. \A u \in Threads \ {t} : stack'[u] = stack[u]
  BY <1>1
<1>4. QED
  BY <1>1, <1>2, <1>3, AppendProperties, LenProperties

\* ... and a return takes the running one off.
LEMMA PopSeq ==
  ASSUME Shape, NEW t \in Threads, NEW j \in Jobs, Runs(t, j), Return(t, j)
  PROVE  /\ Len(stack'[t]) = Len(stack[t]) - 1
         /\ \A n \in 1..(Len(stack[t]) - 1) : stack'[t][n] = stack[t][n]
         /\ \A u \in Threads \ {t} : stack'[u] = stack[u]
<1> DEFINE len == Len(stack[t])
<1>1. /\ stack' = [stack EXCEPT ![t] = SubSeq(stack[t], 1, len - 1)]
      /\ stack \in [Threads -> Seq(Jobs)]
      /\ stack[t] \in Seq(Jobs)
  BY DEF Return, Shape
<1>2. len \in Nat \ {0}
  BY TopOnStack
<1>3. stack'[t] = SubSeq(stack[t], 1, len - 1)
  BY <1>1
<1>4. \A n \in 1..(len - 1) : stack[t][n] \in Jobs
  BY <1>1, <1>2, ElementOfSeq
<1>5. /\ Len(SubSeq(stack[t], 1, len - 1)) = len - 1
      /\ \A n \in 1..(len - 1) : SubSeq(stack[t], 1, len - 1)[n] = stack[t][n]
  BY <1>2, <1>4, SubSeqProperties
<1>6. \A u \in Threads \ {t} : stack'[u] = stack[u]
  BY <1>1
<1>7. QED
  BY <1>3, <1>5, <1>6

\* What a start puts on a stack.
LEMMA PushStack ==
  ASSUME Shape, OnceOnStacks, StacksRun, NEW t \in Threads, NEW j \in Jobs,
         Push(t, j)
  PROVE  /\ OnceOnStacks' /\ StacksRun'
         /\ \A u \in Threads : j \notin OnStack(u)
         /\ OnStack(t)' = OnStack(t) \cup {j}
         /\ \A u \in Threads \ {t} : OnStack(u)' = OnStack(u)
<1> DEFINE len == Len(stack[t])
<1>1. /\ at[j] = "new"
      /\ at' = [at EXCEPT ![j] = "lookup"]
      /\ stack' = [stack EXCEPT ![t] = Append(stack[t], j)]
  BY DEF Push, Goto
<1>2. /\ stack \in [Threads -> Seq(Jobs)]
      /\ stack[t] \in Seq(Jobs)
      /\ at \in [Jobs -> States]
  BY DEF Shape
<1>3. \A u \in Threads : j \notin OnStack(u)
  BY <1>1 DEF StacksRun
<1>4. len \in Nat
  BY <1>2, LenProperties
<1>5. /\ Len(stack'[t]) = len + 1
      /\ \A n \in 1..len : stack'[t][n] = stack[t][n]
      /\ stack'[t][len + 1] = j
  BY PushSeq
<1>6. \A u \in Threads \ {t} : stack'[u] = stack[u]
  BY PushSeq
<1>7. \A n \in 1..(len + 1) : n \in 1..len \/ n = len + 1
  BY <1>4
<1>8. OnStack(t)' = OnStack(t) \cup {j}
  <2>1. \A x \in OnStack(t)' : x \in OnStack(t) \cup {j}
    BY <1>5, <1>7 DEF OnStack
  <2>2. \A n \in 1..len : n \in 1..(len + 1)
    BY <1>4
  <2>3. len + 1 \in 1..(len + 1)
    BY <1>4
  <2>4. \A x \in OnStack(t) : x \in OnStack(t)'
    BY <1>5, <2>2 DEF OnStack
  <2>5. j \in OnStack(t)'
    BY <1>5, <2>3 DEF OnStack
  <2>6. QED
    BY <2>1, <2>4, <2>5
<1>9. \A u \in Threads \ {t} : OnStack(u)' = OnStack(u)
  BY <1>6 DEF OnStack
<1>10. OnceOnStacks'
  <2>1. SUFFICES ASSUME NEW u \in Threads, NEW w \in Threads,
                        NEW m \in 1..Len(stack'[u]), NEW n \in 1..Len(stack'[w]),
                        stack'[u][m] = stack'[w][n]
                 PROVE  u = w /\ m = n
    BY DEF OnceOnStacks
  <2>2. \/ m \in 1..Len(stack[u]) /\ stack'[u][m] = stack[u][m]
        \/ u = t /\ m = len + 1 /\ stack'[u][m] = j
    BY <1>5, <1>6, <1>7
  <2>3. \/ n \in 1..Len(stack[w]) /\ stack'[w][n] = stack[w][n]
        \/ w = t /\ n = len + 1 /\ stack'[w][n] = j
    BY <1>5, <1>6, <1>7
  <2>4. m \in 1..Len(stack[u]) => stack[u][m] # j
    BY <1>3 DEF OnStack
  <2>5. n \in 1..Len(stack[w]) => stack[w][n] # j
    BY <1>3 DEF OnStack
  <2>6. QED
    BY <2>1, <2>2, <2>3, <2>4, <2>5 DEF OnceOnStacks
<1>11. StacksRun'
  <2>1. SUFFICES ASSUME NEW u \in Threads, NEW i \in OnStack(u)'
                 PROVE  at'[i] \notin {"new"} \cup Finished
    BY DEF StacksRun
  <2>2. i = j \/ i \in OnStack(u)
    BY <1>8, <1>9
  <2>3. i \in OnStack(u) => i # j /\ i \in Jobs
    BY <1>3, OnStackJobs
  <2>4. CASE i = j
    BY <1>1, <1>2, <2>4 DEF Finished
  <2>5. CASE i \in OnStack(u)
    BY <1>1, <1>2, <2>3, <2>5 DEF StacksRun
  <2>6. QED
    BY <2>2, <2>4, <2>5
<1>12. QED
  BY <1>3, <1>8, <1>9, <1>10, <1>11

\* A running job that moves on stays where it is.
LEMMA MoveStack ==
  ASSUME Shape, OnceOnStacks, StacksRun, NEW j \in Jobs,
         NEW s, s \notin {"new"} \cup Finished, Goto(j, s), UNCHANGED stack
  PROVE  /\ OnceOnStacks' /\ StacksRun'
         /\ \A u \in Threads : OnStack(u)' = OnStack(u)
<1>1. \A u \in Threads : OnStack(u)' = OnStack(u)
  BY DEF OnStack
<1>2. OnceOnStacks'
  BY DEF OnceOnStacks
<1>3. StacksRun'
  BY <1>1, OnStackJobs DEF StacksRun, Goto, Shape
<1>4. QED
  BY <1>1, <1>2, <1>3

\* A return takes the job off its stack, and off all stacks.
LEMMA PopStack ==
  ASSUME Shape, OnceOnStacks, StacksRun, NEW t \in Threads, NEW j \in Jobs,
         Runs(t, j), Return(t, j)
  PROVE  /\ OnceOnStacks' /\ StacksRun'
         /\ OnStack(t)' = OnStack(t) \ {j}
         /\ \A u \in Threads \ {t} : OnStack(u)' = OnStack(u)
<1> DEFINE len == Len(stack[t])
<1>1. /\ at' = [at EXCEPT ![j] = "ended"]
      /\ stack' = [stack EXCEPT ![t] = SubSeq(stack[t], 1, len - 1)]
  BY DEF Return, Goto
<1>2. /\ stack \in [Threads -> Seq(Jobs)]
      /\ stack[t] \in Seq(Jobs)
      /\ at \in [Jobs -> States]
  BY DEF Shape
<1>3. len \in Nat \ {0} /\ stack[t][len] = j
  BY TopOnStack
<1>4. /\ Len(stack'[t]) = len - 1
      /\ \A n \in 1..(len - 1) : stack'[t][n] = stack[t][n]
  BY PopSeq
<1>5. \A u \in Threads \ {t} : stack'[u] = stack[u]
  BY PopSeq
<1>6. \A n \in 1..len : n \in 1..(len - 1) \/ n = len
  BY <1>3
<1>7. \A n \in 1..(len - 1) : n \in 1..len /\ n # len
  BY <1>3
<1>8. OnStack(t)' = OnStack(t) \ {j}
  <2>1. \A n \in 1..(len - 1) : stack[t][n] # j
    <3>1. len \in 1..len
      BY <1>3
    <3>2. QED
      BY <1>3, <1>7, <3>1 DEF OnceOnStacks
  <2>2. \A x \in OnStack(t)' : x \in OnStack(t) \ {j}
    BY <1>4, <1>7, <2>1 DEF OnStack
  <2>3. \A x \in OnStack(t) \ {j} : x \in OnStack(t)'
    BY <1>3, <1>4, <1>6 DEF OnStack
  <2>4. QED
    BY <2>2, <2>3
<1>9. \A u \in Threads \ {t} : OnStack(u)' = OnStack(u)
  BY <1>5 DEF OnStack
<1>10. OnceOnStacks'
  <2>1. \A u \in Threads : \A n \in 1..Len(stack'[u]) :
          n \in 1..Len(stack[u]) /\ stack'[u][n] = stack[u][n]
    BY <1>4, <1>5, <1>7
  <2>2. SUFFICES ASSUME NEW u \in Threads, NEW w \in Threads,
                        NEW m \in 1..Len(stack'[u]), NEW n \in 1..Len(stack'[w]),
                        stack'[u][m] = stack'[w][n]
                 PROVE  u = w /\ m = n
    BY DEF OnceOnStacks
  <2>3. /\ m \in 1..Len(stack[u]) /\ n \in 1..Len(stack[w])
        /\ stack[u][m] = stack[w][n]
    BY <2>1, <2>2
  <2>4. QED
    BY <2>3 DEF OnceOnStacks
<1>11. StacksRun'
  <2>1. SUFFICES ASSUME NEW u \in Threads, NEW i \in OnStack(u)'
                 PROVE  at'[i] \notin {"new"} \cup Finished
    BY DEF StacksRun
  <2>2. i \in OnStack(u) /\ i \in Jobs
    BY <1>8, <1>9, OnStackJobs
  <2>3. i # j
    BY <1>8, <1>9, <2>2, RunsAlone
  <2>4. QED
    BY <1>1, <1>2, <2>2, <2>3 DEF StacksRun
<1>12. QED
  BY <1>8, <1>9, <1>10, <1>11

\* A running job that moves on, or returns, changes what its own thread holds
\* by at most itself, and what the others hold not at all.
LEMMA HeldMove ==
  ASSUME Shape, OnceOnStacks, NEW t \in Threads, NEW j \in Jobs, Runs(t, j),
         NEW s, Goto(j, s),
         \/ OnStack(t)' = OnStack(t)
         \/ OnStack(t)' = OnStack(t) \ {j} /\ s \in Finished,
         \A u \in Threads \ {t} : OnStack(u)' = OnStack(u),
         NEW X \in {Owning, Working}
  PROVE  /\ \A u \in Threads \ {t} : Held(u, X)' = Held(u, X)
         /\ at[j] \in X /\ s \in X => Held(t, X)' = Held(t, X)
         /\ at[j] \notin X /\ s \notin X => Held(t, X)' = Held(t, X)
         /\ at[j] \notin X /\ s \in X =>
                Held(t, X)' = Held(t, X) \cup {j} /\ j \notin Held(t, X)
         /\ at[j] \in X /\ s \notin X =>
                Held(t, X)' = Held(t, X) \ {j} /\ j \in Held(t, X)
<1>1. j \in OnStack(t) /\ OnStack(t) \in SUBSET Jobs
  BY TopOnStack, OnStackJobs
<1>2. \A u \in Threads \ {t} : j \notin OnStack(u) /\ OnStack(u) \in SUBSET Jobs
  BY RunsAlone, OnStackJobs
<1>3. \A i \in Jobs : at'[i] = IF i = j THEN s ELSE at[i]
  BY DEF Goto, Shape
<1>4. s \in Finished => s \notin X
  BY DEF Finished, Owning, Working
<1>5. \A u \in Threads \ {t} : Held(u, X)' = Held(u, X)
  BY <1>2, <1>3 DEF Held
<1>6. \A i \in OnStack(t) \ {j} : i \in Held(t, X)' <=> i \in Held(t, X)
  BY <1>1, <1>3 DEF Held
<1>7. j \in Held(t, X)' <=> s \in X
  BY <1>1, <1>3, <1>4 DEF Held
<1>8. j \in Held(t, X) <=> at[j] \in X
  BY <1>1 DEF Held
<1>9. Held(t, X) \subseteq OnStack(t) /\ Held(t, X)' \subseteq OnStack(t)
  BY DEF Held
<1>10. QED
  BY <1>1, <1>5, <1>6, <1>7, <1>8, <1>9

\* The counts of such a step.
LEMMA HeldCount ==
  ASSUME Shape, OnceOnStacks, NEW t \in Threads, NEW j \in Jobs, Runs(t, j),
         NEW s, Goto(j, s),
         \/ OnStack(t)' = OnStack(t)
         \/ OnStack(t)' = OnStack(t) \ {j} /\ s \in Finished,
         \A u \in Threads \ {t} : OnStack(u)' = OnStack(u),
         NEW X \in {Owning, Working}
  PROVE  /\ \A u \in Threads \ {t} : Cardinality(Held(u, X)') = Cardinality(Held(u, X))
         /\ (at[j] \in X <=> s \in X) =>
                Cardinality(Held(t, X)') = Cardinality(Held(t, X))
         /\ at[j] \notin X /\ s \in X =>
                Cardinality(Held(t, X)') = Cardinality(Held(t, X)) + 1
         /\ at[j] \in X /\ s \notin X =>
                Cardinality(Held(t, X)') = Less(Cardinality(Held(t, X)))
<1>1. Held(t, X) \in SUBSET Jobs
  BY OnStackJobs DEF Held
<1>2. /\ \A u \in Threads \ {t} : Held(u, X)' = Held(u, X)
      /\ at[j] \in X /\ s \in X => Held(t, X)' = Held(t, X)
      /\ at[j] \notin X /\ s \notin X => Held(t, X)' = Held(t, X)
      /\ at[j] \notin X /\ s \in X =>
            Held(t, X)' = Held(t, X) \cup {j} /\ j \notin Held(t, X)
      /\ at[j] \in X /\ s \notin X =>
            Held(t, X)' = Held(t, X) \ {j} /\ j \in Held(t, X)
  BY HeldMove
<1>3. \A u \in Threads \ {t} : Cardinality(Held(u, X)') = Cardinality(Held(u, X))
  BY <1>2
<1>4. ASSUME at[j] \in X <=> s \in X
      PROVE  Cardinality(Held(t, X)') = Cardinality(Held(t, X))
  BY <1>2, <1>4
<1>5. ASSUME at[j] \notin X, s \in X
      PROVE  Cardinality(Held(t, X)') = Cardinality(Held(t, X)) + 1
  BY <1>1, <1>2, <1>5, JobSets
<1>6. ASSUME at[j] \in X, s \notin X
      PROVE  Cardinality(Held(t, X)') = Less(Cardinality(Held(t, X)))
  <2>1. /\ Held(t, X) \ {j} \in SUBSET Jobs /\ j \in Held(t, X)
        /\ Held(t, X)' = Held(t, X) \ {j}
    BY <1>1, <1>2, <1>6
  <2>2. Cardinality(Held(t, X)) \in Nat /\ Cardinality(Held(t, X) \ {j}) \in Nat
    BY <1>1, <2>1, JobSets
  <2>3. Cardinality(Held(t, X) \ {j}) = Cardinality(Held(t, X)) - 1
    BY <1>1, <2>1, JobSets
  <2>4. QED
    BY <2>1, <2>2, <2>3 DEF Less
<1>7. QED
  BY <1>3, <1>4, <1>5, <1>6

\* A step that counts what it changes keeps the thread-local counts.
LEMMA CountsMove ==
  ASSUME Shape, OnceOnStacks, CountsInv,
         NEW t \in Threads, NEW j \in Jobs, Runs(t, j),
         NEW s, Goto(j, s),
         \/ OnStack(t)' = OnStack(t)
         \/ OnStack(t)' = OnStack(t) \ {j} /\ s \in Finished,
         \A u \in Threads \ {t} : OnStack(u)' = OnStack(u),
         \A u \in Threads \ {t} : owned'[u] = owned[u] /\ depth'[u] = depth[u],
         (at[j] \in Owning <=> s \in Owning) => owned'[t] = owned[t],
         at[j] \notin Owning /\ s \in Owning => owned'[t] = owned[t] + 1,
         at[j] \in Owning /\ s \notin Owning => owned'[t] = Less(owned[t]),
         (at[j] \in Working <=> s \in Working) => depth'[t] = depth[t],
         at[j] \notin Working /\ s \in Working => depth'[t] = depth[t] + 1,
         at[j] \in Working /\ s \notin Working => depth'[t] = Less(depth[t])
  PROVE  CountsInv'
<1>1. /\ \A u \in Threads \ {t} :
            Cardinality(Held(u, Owning)') = Cardinality(Held(u, Owning))
      /\ (at[j] \in Owning <=> s \in Owning) =>
            Cardinality(Held(t, Owning)') = Cardinality(Held(t, Owning))
      /\ at[j] \notin Owning /\ s \in Owning =>
            Cardinality(Held(t, Owning)') = Cardinality(Held(t, Owning)) + 1
      /\ at[j] \in Owning /\ s \notin Owning =>
            Cardinality(Held(t, Owning)') = Less(Cardinality(Held(t, Owning)))
  BY HeldCount
<1>2. /\ \A u \in Threads \ {t} :
            Cardinality(Held(u, Working)') = Cardinality(Held(u, Working))
      /\ (at[j] \in Working <=> s \in Working) =>
            Cardinality(Held(t, Working)') = Cardinality(Held(t, Working))
      /\ at[j] \notin Working /\ s \in Working =>
            Cardinality(Held(t, Working)') = Cardinality(Held(t, Working)) + 1
      /\ at[j] \in Working /\ s \notin Working =>
            Cardinality(Held(t, Working)') = Less(Cardinality(Held(t, Working)))
  BY HeldCount
<1>3. \A u \in Threads : /\ owned[u] = Cardinality(Held(u, Owning))
                         /\ depth[u] = Cardinality(Held(u, Working))
  BY DEF CountsInv
<1>4. owned'[t] = Cardinality(Held(t, Owning)')
  BY <1>1, <1>3
<1>5. depth'[t] = Cardinality(Held(t, Working)')
  BY <1>2, <1>3
<1>6. \A u \in Threads \ {t} : /\ owned'[u] = Cardinality(Held(u, Owning)')
                               /\ depth'[u] = Cardinality(Held(u, Working)')
  BY <1>1, <1>2, <1>3
<1>7. QED
  BY <1>4, <1>5, <1>6 DEF CountsInv

StackInv == OnceOnStacks /\ StacksRun /\ CountsInv

LEMMA StackInit == Init => StackInv
<1>1. SUFFICES ASSUME Init PROVE StackInv
  OBVIOUS
<1>2. \A t \in Threads : Len(stack[t]) = 0 /\ owned[t] = 0 /\ depth[t] = 0
  BY <1>1, EmptySeq DEF Init
<1>3. \A t \in Threads : OnStack(t) = {} /\ Held(t, Owning) = {} /\ Held(t, Working) = {}
  BY <1>2 DEF OnStack, Held
<1>4. OnceOnStacks /\ StacksRun
  BY <1>2, <1>3 DEF OnceOnStacks, StacksRun
<1>5. CountsInv
  BY <1>2, <1>3, FS_EmptySet DEF CountsInv
<1>6. QED
  BY <1>4, <1>5 DEF StackInv

\* A step that touches neither stacks nor counts.
LEMMA StackSame ==
  ASSUME StackInv, UNCHANGED <<stack, at, owned, depth>>
  PROVE  StackInv'
<1>1. OnceOnStacks'
  BY DEF StackInv, OnceOnStacks
<1>2. StacksRun'
  BY DEF StackInv, StacksRun, OnStack
<1>3. CountsInv'
  <2>1. \A t \in Threads : OnStack(t)' = OnStack(t)
    BY DEF OnStack
  <2>2. \A t \in Threads : /\ Held(t, Owning)' = Held(t, Owning)
                            /\ Held(t, Working)' = Held(t, Working)
    BY <2>1 DEF Held
  <2>3. QED
    BY <2>2 DEF StackInv, CountsInv
<1>4. QED
  BY <1>1, <1>2, <1>3 DEF StackInv

\* A start: the job owns nothing and works on nothing yet.
LEMMA StackStart ==
  ASSUME Shape, StackInv, NEW t \in Threads, NEW j \in Jobs, Push(t, j)
  PROVE  StackInv'
<1>1. /\ OnceOnStacks' /\ StacksRun'
      /\ \A u \in Threads : j \notin OnStack(u)
      /\ OnStack(t)' = OnStack(t) \cup {j}
      /\ \A u \in Threads \ {t} : OnStack(u)' = OnStack(u)
  BY PushStack DEF StackInv
<1>2. /\ at' = [at EXCEPT ![j] = "lookup"] /\ at \in [Jobs -> States]
      /\ UNCHANGED <<owned, depth>>
  BY DEF Push, Goto, Shape
<1>3. \A u \in Threads : Held(u, Owning)' = Held(u, Owning)
  BY <1>1, <1>2, OnStackJobs DEF Held, Owning
<1>4. \A u \in Threads : Held(u, Working)' = Held(u, Working)
  BY <1>1, <1>2, OnStackJobs DEF Held, Working
<1>5. CountsInv'
  BY <1>2, <1>3, <1>4 DEF CountsInv, StackInv
<1>6. QED
  BY <1>1, <1>5 DEF StackInv

\* A step that moves the running job on, with its counts.
LEMMA StackMove ==
  ASSUME Shape, StackInv, NEW t \in Threads, NEW j \in Jobs, Runs(t, j),
         NEW s, s \notin {"new"} \cup Finished, Goto(j, s), UNCHANGED stack,
         \A u \in Threads \ {t} : owned'[u] = owned[u] /\ depth'[u] = depth[u],
         (at[j] \in Owning <=> s \in Owning) => owned'[t] = owned[t],
         at[j] \notin Owning /\ s \in Owning => owned'[t] = owned[t] + 1,
         at[j] \in Owning /\ s \notin Owning => owned'[t] = Less(owned[t]),
         (at[j] \in Working <=> s \in Working) => depth'[t] = depth[t],
         at[j] \notin Working /\ s \in Working => depth'[t] = depth[t] + 1,
         at[j] \in Working /\ s \notin Working => depth'[t] = Less(depth[t])
  PROVE  StackInv'
<1>1. /\ OnceOnStacks' /\ StacksRun'
      /\ \A u \in Threads : OnStack(u)' = OnStack(u)
  BY MoveStack DEF StackInv
<1>2. CountsInv'
  BY <1>1, CountsMove DEF StackInv
<1>3. QED
  BY <1>1, <1>2 DEF StackInv

\* A step with which the running job returns, with its counts.
LEMMA StackReturn ==
  ASSUME Shape, StackInv, NEW t \in Threads, NEW j \in Jobs, Runs(t, j),
         Return(t, j),
         \A u \in Threads \ {t} : owned'[u] = owned[u] /\ depth'[u] = depth[u],
         owned'[t] = IF at[j] \in Owning THEN Less(owned[t]) ELSE owned[t],
         depth'[t] = IF at[j] \in Working THEN Less(depth[t]) ELSE depth[t]
  PROVE  StackInv'
<1>1. /\ OnceOnStacks' /\ StacksRun'
      /\ OnStack(t)' = OnStack(t) \ {j}
      /\ \A u \in Threads \ {t} : OnStack(u)' = OnStack(u)
  BY PopStack DEF StackInv
<1>2. "ended" \in Finished /\ "ended" \notin Owning /\ "ended" \notin Working
  BY DEF Finished, Owning, Working
<1>3. Goto(j, "ended")
  BY DEF Return
<1>4. CountsInv'
  BY <1>1, <1>2, <1>3, CountsMove DEF StackInv
<1>5. QED
  BY <1>1, <1>4 DEF StackInv

LEMMA StackStep ==
  ASSUME Shape, StackInv, NEW t \in Threads, NEW j \in Jobs,
         Step(t, j) \/ GiveUp(t, j)
  PROVE  StackInv'
<1>0. Runs(t, j) /\ owned \in [Threads -> Nat] /\ depth \in [Threads -> Nat]
  BY DEF Step, CacheHit, Join, BecomeOwner, DeclineToWait, Block, CountIn,
         WaitExempt, OverCap, Adopt, PathBound, Retry, GiveUp, MarkIsolated,
         EndIndependent, EndOwned, Retire, KeepForWaiters, Publish, Remove, Shape
<1>1. CASE CacheHit(t, j)
  <2>1. /\ Return(t, j) /\ at[j] \notin Owning \cup Working
        /\ UNCHANGED <<owned, depth>>
    BY <1>1 DEF CacheHit, Owning, Working
  <2>2. QED
    BY <1>0, <2>1, StackReturn
<1>2. CASE Join(t, j) \/ Block(t, j) \/ CountIn(t, j) \/ WaitExempt(t, j)
  <2>1. PICK s \in {"follow", "blocked", "counted", "exempt", "uncount"} : Goto(j, s)
    BY <1>2 DEF Join, Block, CountIn, WaitExempt
  <2>2. at[j] \in {"lookup", "follow"} /\ UNCHANGED <<stack, owned, depth>>
    BY <1>2 DEF Join, Block, CountIn, WaitExempt
  <2>3. /\ s \notin {"new"} \cup Finished \cup Owning \cup Working
        /\ at[j] \notin Owning \cup Working
    BY <2>1, <2>2 DEF Finished, Owning, Working
  <2>4. QED
    BY <1>0, <2>1, <2>2, <2>3, StackMove
<1>3. CASE BecomeOwner(t, j)
  <2>1. /\ Goto(j, "own") /\ at[j] = "lookup" /\ UNCHANGED stack
        /\ owned' = [owned EXCEPT ![t] = owned[t] + 1]
        /\ depth' = [depth EXCEPT ![t] = depth[t] + 1]
    BY <1>3 DEF BecomeOwner
  <2>2. /\ at[j] \notin Owning \cup Working
        /\ "own" \in Owning /\ "own" \in Working
        /\ "own" \notin {"new"} \cup Finished
    BY <2>1 DEF Finished, Owning, Working
  <2>3. /\ owned'[t] = owned[t] + 1 /\ depth'[t] = depth[t] + 1
        /\ \A u \in Threads \ {t} : owned'[u] = owned[u] /\ depth'[u] = depth[u]
    BY <1>0, <2>1
  <2>4. QED
    BY <1>0, <2>1, <2>2, <2>3, StackMove
<1>4. CASE DeclineToWait(t, j) \/ OverCap(t, j) \/ PathBound(t, j) \/ GiveUp(t, j)
  <2>1. /\ Goto(j, "indep") /\ at[j] \in Waits \cup {"follow", "uncount"}
        /\ UNCHANGED <<stack, owned>>
        /\ depth' = [depth EXCEPT ![t] = depth[t] + 1]
    BY <1>4 DEF DeclineToWait, OverCap, PathBound, GiveUp, Independently
  <2>2. /\ at[j] \notin Owning \cup Working
        /\ "indep" \notin Owning /\ "indep" \in Working
        /\ "indep" \notin {"new"} \cup Finished
    BY <2>1 DEF Finished, Owning, Working, Waits, Yielding
  <2>3. /\ owned'[t] = owned[t] /\ depth'[t] = depth[t] + 1
        /\ \A u \in Threads \ {t} : owned'[u] = owned[u] /\ depth'[u] = depth[u]
    BY <1>0, <2>1
  <2>4. QED
    BY <1>0, <2>1, <2>2, <2>3, StackMove
<1>5. CASE Adopt(t, j)
  <2>1. /\ Return(t, j) /\ at[j] \in Waits
        /\ UNCHANGED <<owned, depth>>
    BY <1>5 DEF Adopt
  <2>2. at[j] \notin Owning \cup Working
    BY <2>1 DEF Waits, Yielding, Owning, Working
  <2>3. QED
    BY <1>0, <2>1, <2>2, StackReturn
<1>6. CASE Retry(t, j)
  <2>1. /\ Goto(j, "lookup") /\ at[j] \in Waits
        /\ UNCHANGED <<stack, owned, depth>>
    BY <1>6 DEF Retry
  <2>2. /\ "lookup" \notin {"new"} \cup Finished \cup Owning \cup Working
        /\ at[j] \notin Owning \cup Working
    BY <2>1 DEF Finished, Waits, Yielding, Owning, Working
  <2>3. QED
    BY <1>0, <2>1, <2>2, StackMove
<1>7. CASE MarkIsolated(t, j)
  BY <1>7, StackSame DEF MarkIsolated
<1>8. CASE EndIndependent(t, j)
  <2>1. /\ at[j] = "indep" /\ UNCHANGED owned
        /\ depth' = [depth EXCEPT ![t] = Less(depth[t])]
    BY <1>8 DEF EndIndependent
  <2>2. Return(t, j)
    BY <1>8 DEF EndIndependent
  <2>3. at[j] \notin Owning /\ at[j] \in Working
    BY <2>1 DEF Owning, Working
  <2>4. /\ depth'[t] = Less(depth[t]) /\ owned'[t] = owned[t]
        /\ \A u \in Threads \ {t} : owned'[u] = owned[u] /\ depth'[u] = depth[u]
    BY <1>0, <2>1
  <2>5. QED
    BY <1>0, <2>2, <2>3, <2>4, StackReturn
<1>9. CASE EndOwned(t, j)
  <2>1. /\ at[j] = "own" /\ UNCHANGED <<stack, owned>>
        /\ depth' = [depth EXCEPT ![t] = Less(depth[t])]
    BY <1>9 DEF EndOwned
  <2>2. PICK s \in {"okDone", "errDone", "unwind"} : Goto(j, s)
    BY <1>9 DEF EndOwned
  <2>3. /\ at[j] \in Owning /\ at[j] \in Working
        /\ s \in Owning /\ s \notin Working /\ s \notin {"new"} \cup Finished
    BY <2>1, <2>2 DEF Owning, Working, Finished
  <2>4. /\ depth'[t] = Less(depth[t]) /\ owned'[t] = owned[t]
        /\ \A u \in Threads \ {t} : owned'[u] = owned[u] /\ depth'[u] = depth[u]
    BY <1>0, <2>1
  <2>5. QED
    BY <1>0, <2>1, <2>2, <2>3, <2>4, StackMove
<1>10. CASE Retire(t, j) \/ Remove(t, j)
  <2>1. /\ at[j] \in {"okDone", "errDone", "remove"} /\ UNCHANGED depth
        /\ owned' = [owned EXCEPT ![t] = Less(owned[t])]
    BY <1>10 DEF Retire, Remove
  <2>2. Return(t, j)
    BY <1>10 DEF Retire, Remove
  <2>3. at[j] \in Owning /\ at[j] \notin Working
    BY <2>1 DEF Owning, Working
  <2>4. /\ depth'[t] = depth[t] /\ owned'[t] = Less(owned[t])
        /\ \A u \in Threads \ {t} : owned'[u] = owned[u] /\ depth'[u] = depth[u]
    BY <1>0, <2>1
  <2>5. QED
    BY <1>0, <2>2, <2>3, <2>4, StackReturn
<1>11. CASE KeepForWaiters(t, j) \/ Publish(t, j)
  <2>1. /\ at[j] \in {"okDone", "errDone", "publishOk", "publishErr", "unwind"}
        /\ UNCHANGED <<stack, owned, depth>>
    BY <1>11 DEF KeepForWaiters, Publish
  <2>2. PICK s \in {"publishOk", "publishErr", "remove"} : Goto(j, s)
    BY <1>11 DEF KeepForWaiters, Publish
  <2>3. /\ at[j] \in Owning /\ at[j] \notin Working
        /\ s \in Owning /\ s \notin Working /\ s \notin {"new"} \cup Finished
    BY <2>1, <2>2 DEF Owning, Working, Finished
  <2>4. QED
    BY <1>0, <2>1, <2>2, <2>3, StackMove
<1>12. QED
  BY <1>1, <1>2, <1>3, <1>4, <1>5, <1>6, <1>7, <1>8, <1>9, <1>10, <1>11 DEF Step

-----------------------------------------------------------------------------
(* Who is on top of whom *)

Active(j) == at[j] \notin {"new"} \cup Finished
OnPool(j) == \E t \in Pool : j \in OnStack(t)

\* A job that has something on top of it yields while it waits, or analyses a
\* member that may hand work out.
BelowWorks ==
    \A t \in Threads : \A n \in 1..(Len(stack[t]) - 1) :
        \/ at[stack[t][n]] \in Yielding
        \/ at[stack[t][n]] \in Working /\ KeyOf[stack[t][n]] \notin Isolated

\* Off the pool a job runs on top of nothing but the analysis that unpacks it.
LaneNests ==
    \A t \in Threads \ Pool : \A n \in 1..(Len(stack[t]) - 1) :
        Parent[stack[t][n + 1]] = stack[t][n]

\* A job that yields is a top-level member, on a thread of the pool, and has
\* nothing below it but others that yield.
YieldersTop ==
    \A t \in Threads : \A n \in 1..Len(stack[t]) :
        at[stack[t][n]] \in Yielding =>
            /\ t \in Pool
            /\ Parent[stack[t][n]] = None
            /\ \A m \in 1..(n - 1) : at[stack[t][m]] \in Yielding

ActiveOnStack == \A j \in Jobs : Active(j) => \E t \in Threads : j \in OnStack(t)
ParentsWork ==
    \A j \in Jobs : Active(j) /\ Parent[j] # None => at[Parent[j]] \in Working
\* What the pool analyses, it unpacks on the pool.
PoolFamilies ==
    \A j \in Jobs :
        Active(j) /\ Parent[j] # None /\ OnPool(Parent[j]) => OnPool(j)

\* There is an order in which whatever runs on top of a job, or for it, comes
\* after it: that of their starts.
Orders(r) ==
    /\ \A t \in Threads : \A n \in 1..(Len(stack[t]) - 1) :
        r[stack[t][n]] < r[stack[t][n + 1]]
    /\ \A j \in Jobs : Active(j) /\ Parent[j] # None => r[Parent[j]] < r[j]
Ordered ==
    \E r \in [Jobs -> Nat], b \in Nat :
        (\A j \in Jobs : r[j] <= b) /\ Orders(r)

\* On the pool a job blocks only for an owner on a leaf pool, and a follower
\* waits for an owner of its own key.
BlockedIsolated ==
    \A t \in Pool : \A j \in OnStack(t) : at[j] = "blocked" => isolated[handle[j]]
IsolatedKeys == \A j \in Jobs : isolated[j] => KeyOf[j] \in Isolated
SameKey == \A j \in Jobs : at[j] \in Following => KeyOf[handle[j]] = KeyOf[j]

NestInv ==
    /\ BelowWorks
    /\ LaneNests
    /\ YieldersTop
    /\ ActiveOnStack
    /\ ParentsWork
    /\ PoolFamilies
    /\ Ordered
    /\ BlockedIsolated
    /\ IsolatedKeys
    /\ SameKey

LEMMA FamilyConstants ==
  /\ Parent \in [Jobs -> Jobs \cup {None}] /\ None \notin Jobs
  /\ Pool \subseteq Threads /\ Pulled \subseteq Jobs
  /\ \A j \in Pulled : Parent[j] = None
  /\ \A j \in Jobs : KeyOf[j] \in Isolated => \A c \in Jobs : Parent[c] # j
  BY FlightAssumption DEF Children

LEMMA ElementJobs ==
  ASSUME Shape, NEW t \in Threads, NEW n \in 1..Len(stack[t])
  PROVE  stack[t][n] \in Jobs /\ stack[t][n] \in OnStack(t)
  BY OnStackJobs DEF OnStack

\* A thread with a stack has a top on it.
LEMMA TopElement ==
  ASSUME Shape, NEW t \in Threads, ~Idle(t)
  PROVE  /\ Len(stack[t]) \in Nat \ {0}
         /\ Len(stack[t]) \in 1..Len(stack[t])
         /\ Top(t) = stack[t][Len(stack[t])]
         /\ Top(t) \in OnStack(t) /\ Top(t) \in Jobs
<1>1. stack[t] \in Seq(Jobs) /\ stack[t] # <<>>
  BY DEF Shape, Idle
<1>2. Len(stack[t]) \in Nat \ {0}
  BY <1>1, EmptySeq
<1>3. Len(stack[t]) \in 1..Len(stack[t])
  BY <1>2
<1>4. QED
  BY <1>2, <1>3, ElementJobs DEF Top

\* Where a job may be started.
LEMMA StartGuard ==
  ASSUME Shape, StackInv, NestInv, NEW t \in Threads, NEW j \in Jobs, Starts(t, j)
  PROVE  /\ Push(t, j)
         /\ at[j] = "new"
         /\ Parent[j] # None => at[Parent[j]] \in Working
         /\ ~Idle(t) =>
                \/ at[Top(t)] \in Yielding
                \/ at[Top(t)] \in Working /\ KeyOf[Top(t)] \notin Isolated
         /\ t \notin Pool /\ ~Idle(t) => Parent[j] = Top(t)
         /\ t \notin Pool /\ Parent[j] # None => Parent[j] \in OnStack(t)
<1> USE FamilyConstants
<1>1. Push(t, j) /\ at[j] = "new"
  BY DEF Starts, RunOwn, Steal, YieldLocal, PullPath, Push
<1>2. ~Idle(t) /\ at[Top(t)] \in Yielding => t \in Pool
  <2>1. SUFFICES ASSUME ~Idle(t), at[Top(t)] \in Yielding PROVE t \in Pool
    OBVIOUS
  <2>2. Len(stack[t]) \in 1..Len(stack[t]) /\ Top(t) = stack[t][Len(stack[t])]
    BY <2>1, TopElement
  <2>3. QED
    BY <2>1, <2>2 DEF NestInv, YieldersTop
<1>3. CASE RunOwn(t, j)
  <2>1. CASE Parent[j] = None
    BY <1>1, <1>3, <2>1 DEF RunOwn
  <2>2. CASE Parent[j] # None
    <3>1. /\ ~Idle(t) /\ Top(t) = Parent[j] /\ at[Parent[j]] \in Working
      BY <1>3, <2>2 DEF RunOwn, Runs, Pending
    <3>2. Parent[j] \in OnStack(t) /\ Parent[j] \in Jobs
      BY <3>1, TopElement
    <3>3. KeyOf[Top(t)] \notin Isolated
      BY <3>1, <3>2
    <3>4. QED
      BY <1>1, <3>1, <3>2, <3>3
  <2>3. QED
    BY <2>1, <2>2
<1>4. CASE Steal(t, j)
  BY <1>1, <1>4 DEF Steal, Pending
<1>5. CASE YieldLocal(t, j)
  BY <1>1, <1>2, <1>5 DEF YieldLocal
<1>6. CASE PullPath(t, j)
  BY <1>1, <1>2, <1>6 DEF PullPath
<1>7. QED
  BY <1>3, <1>4, <1>5, <1>6 DEF Starts

\* The running job goes to s, and off its stack if that ends it.  It yields
\* only as a top-level member with no analysis below it, and leaves its own
\* analysis only when no member of it is under way.
Moves(t, j, s) ==
    /\ Runs(t, j)
    /\ at' = [at EXCEPT ![j] = s]
    /\ \/ UNCHANGED stack /\ s \notin {"new"} \cup Finished
       \/ Return(t, j) /\ s \in Finished
    /\ s \in Yielding => t \in Pool /\ Parent[j] = None /\ depth[t] = 0
    /\ at[j] \in Working /\ s \notin Working => NoChildRuns(j)

LEMMA ChildrenRun == \A j \in Jobs : ChildrenDone(j) => NoChildRuns(j)
  BY DEF ChildrenDone, NoChildRuns

LEMMA StepMoves ==
  ASSUME Shape, NEW t \in Threads, NEW j \in Jobs, Step(t, j) \/ GiveUp(t, j)
  PROVE  \E s \in States : Moves(t, j, s)
<1> USE DEF Moves
<1>0. Runs(t, j) /\ at \in [Jobs -> States]
  BY DEF Step, CacheHit, Join, BecomeOwner, DeclineToWait, Block, CountIn,
         WaitExempt, OverCap, Adopt, PathBound, Retry, GiveUp, MarkIsolated,
         EndIndependent, EndOwned, Retire, KeepForWaiters, Publish, Remove, Shape
<1>1. CASE CacheHit(t, j) \/ Adopt(t, j)
  <2>1. at[j] \notin Working /\ Return(t, j) /\ at' = [at EXCEPT ![j] = "ended"]
    BY <1>1 DEF CacheHit, Adopt, Return, Goto, Working, Waits, Yielding
  <2>2. "ended" \in Finished /\ "ended" \in States /\ "ended" \notin Yielding
    BY DEF Finished, States, Yielding
  <2>3. QED
    BY <1>0, <2>1, <2>2
<1>2. CASE Join(t, j) \/ Block(t, j) \/ Retry(t, j)
  <2>1. PICK s \in {"follow", "blocked", "lookup"} : Goto(j, s)
    BY <1>2 DEF Join, Block, Retry
  <2>2. at[j] \notin Working /\ UNCHANGED stack
    BY <1>2 DEF Join, Block, Retry, Working, Waits, Yielding
  <2>3. s \in States /\ s \notin Yielding \cup {"new"} \cup Finished
    BY <2>1 DEF States, Waits, Yielding, Finished
  <2>4. QED
    BY <1>0, <2>1, <2>2, <2>3 DEF Goto
<1>3. CASE CountIn(t, j) \/ WaitExempt(t, j)
  <2>1. PICK s \in {"counted", "exempt", "uncount"} : Goto(j, s)
    BY <1>3 DEF CountIn, WaitExempt
  <2>2. at[j] \notin Working /\ UNCHANGED stack /\ PoolMayWait(t, j)
    BY <1>3 DEF CountIn, WaitExempt, Working
  <2>3. t \in Pool /\ Parent[j] = None /\ depth[t] = 0
    BY <2>2 DEF PoolMayWait, MayWait
  <2>4. s \in States /\ s \notin {"new"} \cup Finished
    BY <2>1 DEF States, Waits, Yielding, Finished
  <2>5. QED
    BY <1>0, <2>1, <2>2, <2>3, <2>4 DEF Goto
<1>4. CASE BecomeOwner(t, j)
  <2>1. at[j] \notin Working /\ UNCHANGED stack /\ Goto(j, "own")
    BY <1>4 DEF BecomeOwner, Working
  <2>2. "own" \in States /\ "own" \notin Yielding \cup {"new"} \cup Finished
    BY DEF States, Owning, Yielding, Finished
  <2>3. QED
    BY <1>0, <2>1, <2>2 DEF Goto
<1>5. CASE DeclineToWait(t, j) \/ OverCap(t, j) \/ PathBound(t, j) \/ GiveUp(t, j)
  <2>1. UNCHANGED stack /\ Goto(j, "indep")
    BY <1>5 DEF DeclineToWait, OverCap, PathBound, GiveUp, Independently
  <2>2. "indep" \in States /\ "indep" \in Working
        /\ "indep" \notin Yielding \cup {"new"} \cup Finished
    BY DEF States, Working, Yielding, Finished
  <2>3. QED
    BY <1>0, <2>1, <2>2 DEF Goto
<1>6. CASE MarkIsolated(t, j)
  <2>1. at[j] = "own" /\ UNCHANGED <<stack, at>>
    BY <1>6 DEF MarkIsolated
  <2>2. at' = [at EXCEPT ![j] = "own"]
    BY <1>0, <2>1
  <2>3. "own" \in States /\ "own" \in Working
        /\ "own" \notin Yielding \cup {"new"} \cup Finished
    BY DEF States, Owning, Yielding, Finished, Working
  <2>4. QED
    BY <1>0, <2>1, <2>2, <2>3
<1>7. CASE EndIndependent(t, j)
  <2>1. Return(t, j) /\ NoChildRuns(j)
    BY <1>7 DEF EndIndependent
  <2>2. "ended" \in Finished /\ "ended" \in States /\ "ended" \notin Yielding
    BY DEF Finished, States, Yielding
  <2>3. QED
    BY <1>0, <2>1, <2>2 DEF Return, Goto
<1>8. CASE EndOwned(t, j)
  <2>1. PICK s \in {"okDone", "errDone", "unwind"} : Goto(j, s) /\ NoChildRuns(j)
    BY <1>8, ChildrenRun DEF EndOwned
  <2>2. s \in States /\ s \notin Yielding \cup {"new"} \cup Finished
    BY <2>1 DEF States, Owning, Yielding, Finished
  <2>3. UNCHANGED stack
    BY <1>8 DEF EndOwned
  <2>4. QED
    BY <1>0, <2>1, <2>2, <2>3 DEF Goto
<1>9. CASE Retire(t, j) \/ Remove(t, j)
  <2>1. Return(t, j)
    BY <1>9 DEF Retire, Remove
  <2>2. at[j] \notin Working
    BY <1>9 DEF Retire, Remove, Working
  <2>3. "ended" \in Finished /\ "ended" \in States /\ "ended" \notin Yielding
    BY DEF Finished, States, Yielding
  <2>4. QED
    BY <1>0, <2>1, <2>2, <2>3 DEF Return, Goto
<1>10. CASE KeepForWaiters(t, j) \/ Publish(t, j)
  <2>1. PICK s \in {"publishOk", "publishErr", "remove"} : Goto(j, s)
    BY <1>10 DEF KeepForWaiters, Publish
  <2>2. at[j] \notin Working /\ UNCHANGED stack
    BY <1>10 DEF KeepForWaiters, Publish, Working
  <2>3. s \in States /\ s \notin Yielding \cup {"new"} \cup Finished
    BY <2>1 DEF States, Owning, Yielding, Finished
  <2>4. QED
    BY <1>0, <2>1, <2>2, <2>3 DEF Goto
<1>11. QED
  BY <1>1, <1>2, <1>3, <1>4, <1>5, <1>6, <1>7, <1>8, <1>9, <1>10 DEF Step

\* What a step of the running job leaves of the stacks.
Around(t, j, s) ==
    /\ \A i \in Jobs : at'[i] = IF i = j THEN s ELSE at[i]
    /\ \A u \in Threads : \A n \in 1..Len(stack'[u]) :
        n \in 1..Len(stack[u]) /\ stack'[u][n] = stack[u][n]
    /\ \A u \in Threads : \A n \in 1..Len(stack[u]) :
        stack[u][n] = j => u = t /\ n = Len(stack[t])
    /\ \A u \in Threads : \A n \in 1..(Len(stack'[u]) - 1) :
        /\ n \in 1..(Len(stack[u]) - 1)
        /\ n \in 1..Len(stack'[u]) /\ n + 1 \in 1..Len(stack'[u])
        /\ stack[u][n] # j
    /\ \A u \in Threads : \A i \in Jobs \ {j} : i \in OnStack(u)' <=> i \in OnStack(u)
    /\ s \notin Finished => \A u \in Threads : OnStack(u)' = OnStack(u)
    /\ j \in OnStack(t) /\ Active(j) /\ s # "new"
    /\ \A i \in Jobs : Active(i)' => Active(i)
    /\ Active(j)' => s \notin Finished

LEMMA MovesAround ==
  ASSUME Shape, StackInv, NEW t \in Threads, NEW j \in Jobs, NEW s \in States,
         Moves(t, j, s)
  PROVE  Around(t, j, s)
<1>1. /\ Runs(t, j) /\ at' = [at EXCEPT ![j] = s] /\ at \in [Jobs -> States]
      /\ OnceOnStacks /\ StacksRun
  BY DEF Moves, Shape, StackInv
<1>2. \A i \in Jobs : at'[i] = IF i = j THEN s ELSE at[i]
  BY <1>1
<1>3. /\ Len(stack[t]) \in Nat \ {0}
      /\ stack[t][Len(stack[t])] = j
      /\ j \in OnStack(t)
  BY <1>1, TopOnStack
<1>4. Len(stack[t]) \in 1..Len(stack[t])
  BY <1>3
<1>5. \A u \in Threads : Len(stack[u]) \in Nat
  BY LenProperties DEF Shape
<1>6. \A u \in Threads : \A n \in 1..Len(stack[u]) :
        stack[u][n] = j => u = t /\ n = Len(stack[t])
  BY <1>1, <1>3, <1>4 DEF OnceOnStacks
<1>7. Active(j)
  BY <1>1, <1>3 DEF StacksRun, Active
<1>8. CASE UNCHANGED stack /\ s \notin {"new"} \cup Finished
  <2>1. \A u \in Threads : OnStack(u)' = OnStack(u)
    BY <1>8 DEF OnStack
  <2>2. \A u \in Threads : \A n \in 1..(Len(stack[u]) - 1) :
          n \in 1..Len(stack[u]) /\ n + 1 \in 1..Len(stack[u]) /\ n # Len(stack[u])
    BY <1>5
  <2>3. \A u \in Threads : \A n \in 1..(Len(stack[u]) - 1) : stack[u][n] # j
    BY <1>6, <2>2
  <2>4. \A i \in Jobs : Active(i)' => Active(i)
    BY <1>2, <1>7 DEF Active
  <2>5. QED
    BY <1>2, <1>3, <1>6, <1>7, <1>8, <2>1, <2>2, <2>3, <2>4 DEF Around
<1>9. CASE Return(t, j) /\ s \in Finished
  <2>1. /\ Len(stack'[t]) = Len(stack[t]) - 1
        /\ \A n \in 1..(Len(stack[t]) - 1) : stack'[t][n] = stack[t][n]
        /\ \A u \in Threads \ {t} : stack'[u] = stack[u]
    BY <1>1, <1>9, PopSeq
  <2>2. /\ OnStack(t)' = OnStack(t) \ {j}
        /\ \A u \in Threads \ {t} : OnStack(u)' = OnStack(u)
    BY <1>1, <1>9, PopStack
  <2>3. \A u \in Threads : Len(stack'[u]) \in Nat /\ Len(stack'[u]) <= Len(stack[u])
    BY <1>3, <1>5, <2>1
  <2>4. \A u \in Threads : \A n \in 1..Len(stack'[u]) :
          n \in 1..Len(stack[u]) /\ stack'[u][n] = stack[u][n]
    BY <1>5, <2>1, <2>3
  <2>5. \A u \in Threads : \A n \in 1..(Len(stack'[u]) - 1) :
          /\ n \in 1..(Len(stack[u]) - 1)
          /\ n \in 1..Len(stack'[u]) /\ n + 1 \in 1..Len(stack'[u])
          /\ n # Len(stack[u])
    BY <1>5, <2>3
  <2>6. \A u \in Threads : \A n \in 1..(Len(stack'[u]) - 1) : stack[u][n] # j
    BY <1>6, <2>4, <2>5
  <2>7. \A u \in Threads : \A i \in Jobs \ {j} : i \in OnStack(u)' <=> i \in OnStack(u)
    BY <2>2
  <2>8. ~Active(j)' /\ s # "new"
    BY <1>2, <1>9 DEF Active, Finished
  <2>9. \A i \in Jobs : Active(i)' => Active(i)
    BY <1>2, <1>7 DEF Active
  <2>10. QED
    BY <1>2, <1>3, <1>6, <1>7, <1>9, <2>4, <2>5, <2>6, <2>7, <2>8, <2>9 DEF Around
<1>10. QED
  BY <1>8, <1>9 DEF Moves

LEMMA BelowWorksStep ==
  ASSUME Shape, BelowWorks, NEW t \in Threads, NEW j \in Jobs, NEW s,
         Around(t, j, s)
  PROVE  BelowWorks'
<1>1. SUFFICES ASSUME NEW u \in Threads, NEW n \in 1..(Len(stack'[u]) - 1)
               PROVE  \/ at'[stack'[u][n]] \in Yielding
                      \/ /\ at'[stack'[u][n]] \in Working
                         /\ KeyOf[stack'[u][n]] \notin Isolated
  BY DEF BelowWorks
<1>2. /\ n \in 1..(Len(stack[u]) - 1) /\ n \in 1..Len(stack[u])
      /\ stack'[u][n] = stack[u][n] /\ stack[u][n] # j
  BY DEF Around
<1>3. stack[u][n] \in Jobs
  BY <1>2, ElementJobs
<1>4. at'[stack'[u][n]] = at[stack[u][n]]
  BY <1>2, <1>3 DEF Around
<1>5. QED
  BY <1>2, <1>4 DEF BelowWorks

LEMMA LaneNestsStep ==
  ASSUME LaneNests, NEW t \in Threads, NEW j \in Jobs, NEW s, Around(t, j, s)
  PROVE  LaneNests'
<1>1. SUFFICES ASSUME NEW u \in Threads \ Pool, NEW n \in 1..(Len(stack'[u]) - 1)
               PROVE  Parent[stack'[u][n + 1]] = stack'[u][n]
  BY DEF LaneNests
<1>2. /\ n \in 1..(Len(stack[u]) - 1)
      /\ stack'[u][n] = stack[u][n] /\ stack'[u][n + 1] = stack[u][n + 1]
  BY DEF Around
<1>3. QED
  BY <1>2 DEF LaneNests

\* No analysis lies below a job that begins to yield: depth says so.
LEMMA YieldersTopStep ==
  ASSUME Shape, StackInv, BelowWorks, YieldersTop,
         NEW t \in Threads, NEW j \in Jobs, NEW s, Moves(t, j, s), Around(t, j, s)
  PROVE  YieldersTop'
<1>1. SUFFICES ASSUME NEW u \in Threads, NEW n \in 1..Len(stack'[u]),
                      at'[stack'[u][n]] \in Yielding
               PROVE  /\ u \in Pool
                      /\ Parent[stack'[u][n]] = None
                      /\ \A m \in 1..(n - 1) : at'[stack'[u][m]] \in Yielding
  BY DEF YieldersTop
<1>2. /\ n \in 1..Len(stack[u]) /\ stack'[u][n] = stack[u][n]
      /\ Len(stack[u]) \in Nat
  BY LenProperties DEF Around, Shape
<1>3. stack[u][n] \in Jobs
  BY <1>2, ElementJobs
<1>4. ASSUME NEW m \in 1..(n - 1), at[stack[u][m]] \in Yielding
      PROVE  at'[stack'[u][m]] \in Yielding
  <2>1. m \in 1..Len(stack'[u]) /\ m \in 1..Len(stack[u]) /\ m # Len(stack[u])
    <3>1. Len(stack'[u]) \in Nat
      <4>1. stack' = stack \/ Return(t, j)
        BY DEF Moves
      <4>2. CASE stack' = stack
        BY <1>2, <4>2
      <4>3. CASE Return(t, j)
        <5>1. Runs(t, j)
          BY DEF Moves
        <5>2. /\ Len(stack'[t]) = Len(stack[t]) - 1
              /\ \A w \in Threads \ {t} : stack'[w] = stack[w]
          BY <4>3, <5>1, PopSeq
        <5>3. Len(stack[t]) \in Nat \ {0}
          BY <5>1, TopOnStack
        <5>4. QED
          BY <1>2, <5>2, <5>3
      <4>4. QED
        BY <4>1, <4>2, <4>3
    <3>2. QED
      BY <1>2, <3>1
  <2>2. stack'[u][m] = stack[u][m] /\ stack[u][m] \in Jobs
    BY <2>1, ElementJobs DEF Around
  <2>3. stack[u][m] # j
    BY <2>1 DEF Around
  <2>4. QED
    BY <1>4, <2>2, <2>3 DEF Around
<1>5. CASE stack[u][n] = j
  <2>1. u = t /\ n = Len(stack[t]) /\ s \in Yielding
    BY <1>1, <1>2, <1>5 DEF Around
  <2>2. t \in Pool /\ Parent[j] = None /\ depth[t] = 0
    BY <2>1 DEF Moves
  <2>3. Held(t, Working) = {}
    <3>1. Cardinality(Held(t, Working)) = 0
      BY <2>2 DEF StackInv, CountsInv
    <3>2. IsFiniteSet(Held(t, Working))
      <4>1. Held(t, Working) \in SUBSET Jobs
        BY OnStackJobs DEF Held
      <4>2. QED
        BY <4>1, FlightConstants, FS_Subset
    <3>3. QED
      BY <3>1, <3>2, FS_EmptySet
  <2>4. ASSUME NEW m \in 1..(n - 1) PROVE at[stack[u][m]] \in Yielding
    <3>1. m \in 1..(Len(stack[t]) - 1) /\ m \in 1..Len(stack[t])
      BY <1>2, <2>1
    <3>2. stack[t][m] \in OnStack(t)
      BY <3>1, ElementJobs
    <3>3. at[stack[t][m]] \notin Working
      BY <2>3, <3>2 DEF Held
    <3>4. QED
      BY <2>1, <3>1, <3>3 DEF BelowWorks
  <2>5. QED
    BY <1>2, <1>4, <1>5, <2>1, <2>2, <2>4
<1>6. CASE stack[u][n] # j
  <2>1. at[stack[u][n]] \in Yielding
    BY <1>1, <1>2, <1>3, <1>6 DEF Around
  <2>2. /\ u \in Pool
        /\ Parent[stack[u][n]] = None
        /\ \A m \in 1..(n - 1) : at[stack[u][m]] \in Yielding
    BY <1>2, <2>1 DEF YieldersTop
  <2>3. QED
    BY <1>2, <1>4, <2>2
<1>7. QED
  BY <1>5, <1>6

LEMMA FamiliesStep ==
  ASSUME Shape, ActiveOnStack, ParentsWork, PoolFamilies,
         NEW t \in Threads, NEW j \in Jobs, NEW s, Moves(t, j, s), Around(t, j, s)
  PROVE  ActiveOnStack' /\ ParentsWork' /\ PoolFamilies'
<1> USE FamilyConstants
<1>1. ActiveOnStack'
  <2>1. SUFFICES ASSUME NEW i \in Jobs, Active(i)'
                 PROVE  \E u \in Threads : i \in OnStack(u)'
    BY DEF ActiveOnStack
  <2>2. PICK u \in Threads : i \in OnStack(u)
    BY <2>1 DEF ActiveOnStack, Around
  <2>3. i \in OnStack(u)'
    BY <2>1, <2>2 DEF Around
  <2>4. QED
    BY <2>3
<1>2. ParentsWork'
  <2>1. SUFFICES ASSUME NEW i \in Jobs, Active(i)', Parent[i] # None
                 PROVE  at'[Parent[i]] \in Working
    BY DEF ParentsWork
  <2>2. Active(i) /\ Parent[i] \in Jobs
    BY <2>1 DEF Around
  <2>3. at[Parent[i]] \in Working
    BY <2>1, <2>2 DEF ParentsWork
  <2>4. CASE Parent[i] # j
    BY <2>2, <2>3, <2>4 DEF Around
  <2>5. CASE Parent[i] = j /\ s \in Working
    BY <2>2, <2>5 DEF Around
  <2>6. CASE Parent[i] = j /\ s \notin Working
    <3>1. NoChildRuns(j)
      BY <2>3, <2>6 DEF Moves
    <3>2. at[i] \in Finished \cup {"new"}
      BY <2>6, <3>1 DEF NoChildRuns, Children
    <3>3. QED
      BY <2>2, <3>2 DEF Active
  <2>7. QED
    BY <2>4, <2>5, <2>6
<1>3. PoolFamilies'
  <2>1. SUFFICES ASSUME NEW i \in Jobs, Active(i)', Parent[i] # None, OnPool(Parent[i])'
                 PROVE  OnPool(i)'
    BY DEF PoolFamilies
  <2>2. Active(i) /\ Parent[i] \in Jobs
    BY <2>1 DEF Around
  <2>3. PICK u \in Pool : Parent[i] \in OnStack(u)'
    BY <2>1 DEF OnPool
  <2>4. Parent[i] \in OnStack(u)
    <3>1. PICK n \in 1..Len(stack'[u]) : stack'[u][n] = Parent[i]
      BY <2>3 DEF OnStack
    <3>2. n \in 1..Len(stack[u]) /\ stack[u][n] = Parent[i]
      BY <2>3, <3>1 DEF Around
    <3>3. QED
      BY <2>3, <3>2, ElementJobs
  <2>5. OnPool(i)
    BY <2>1, <2>2, <2>4 DEF PoolFamilies, OnPool
  <2>6. PICK w \in Pool : i \in OnStack(w)
    BY <2>5 DEF OnPool
  <2>7. i \in OnStack(w)'
    BY <2>1, <2>6 DEF Around
  <2>8. QED
    BY <2>7 DEF OnPool
<1>4. QED
  BY <1>1, <1>2, <1>3

LEMMA OrderedStep ==
  ASSUME Shape, Ordered, NEW t \in Threads, NEW j \in Jobs, NEW s, Around(t, j, s)
  PROVE  Ordered'
<1>1. PICK r \in [Jobs -> Nat], b \in Nat : (\A i \in Jobs : r[i] <= b) /\ Orders(r)
  BY DEF Ordered
<1>2. \A u \in Threads : \A n \in 1..(Len(stack'[u]) - 1) :
        r[stack'[u][n]] < r[stack'[u][n + 1]]
  <2>1. SUFFICES ASSUME NEW u \in Threads, NEW n \in 1..(Len(stack'[u]) - 1)
                 PROVE  r[stack'[u][n]] < r[stack'[u][n + 1]]
    OBVIOUS
  <2>2. /\ n \in 1..(Len(stack[u]) - 1)
        /\ stack'[u][n] = stack[u][n] /\ stack'[u][n + 1] = stack[u][n + 1]
    BY DEF Around
  <2>3. r[stack[u][n]] < r[stack[u][n + 1]]
    BY <1>1, <2>2 DEF Orders
  <2>4. QED
    BY <2>2, <2>3
<1>3. \A i \in Jobs : Active(i)' /\ Parent[i] # None => r[Parent[i]] < r[i]
  BY <1>1 DEF Orders, Around
<1>4. Orders(r)'
  BY <1>2, <1>3 DEF Orders
<1>5. QED
  BY <1>1, <1>4 DEF Ordered

\* What a start leaves of the stacks.
Placed(t, j) ==
    /\ \A i \in Jobs : at'[i] = IF i = j THEN "lookup" ELSE at[i]
    /\ at[j] = "new"
    /\ \A u \in Threads : \A n \in 1..Len(stack[u]) : stack[u][n] # j
    /\ Len(stack[t]) \in Nat
    /\ Len(stack'[t]) = Len(stack[t]) + 1
    /\ \A n \in 1..Len(stack[t]) : stack'[t][n] = stack[t][n]
    /\ stack'[t][Len(stack[t]) + 1] = j
    /\ \A u \in Threads \ {t} : stack'[u] = stack[u]
    /\ OnStack(t)' = OnStack(t) \cup {j}
    /\ \A u \in Threads \ {t} : OnStack(u)' = OnStack(u)
    /\ \A i \in Jobs : Active(i)' <=> Active(i) \/ i = j

LEMMA PushPlaced ==
  ASSUME Shape, StackInv, NEW t \in Threads, NEW j \in Jobs, Push(t, j)
  PROVE  Placed(t, j)
<1>1. /\ \A u \in Threads : j \notin OnStack(u)
      /\ OnStack(t)' = OnStack(t) \cup {j}
      /\ \A u \in Threads \ {t} : OnStack(u)' = OnStack(u)
  BY PushStack DEF StackInv
<1>2. /\ at[j] = "new"
      /\ \A i \in Jobs : at'[i] = IF i = j THEN "lookup" ELSE at[i]
  BY DEF Push, Goto, Shape
<1>3. \A u \in Threads : \A n \in 1..Len(stack[u]) : stack[u][n] # j
  BY <1>1 DEF OnStack
<1>4. \A i \in Jobs : Active(i)' <=> Active(i) \/ i = j
  BY <1>2 DEF Active, Finished
<1>5. QED
  BY <1>1, <1>2, <1>3, <1>4, PushSeq DEF Placed

\* A place below the top of a stack after a start was below the top before, or
\* is what was the top.
LEMMA PlacedBelow ==
  ASSUME Shape, NEW t \in Threads, NEW j \in Jobs, Placed(t, j),
         NEW u \in Threads, NEW n \in 1..(Len(stack'[u]) - 1)
  PROVE  \/ /\ n \in 1..(Len(stack[u]) - 1)
            /\ stack'[u][n] = stack[u][n] /\ stack'[u][n + 1] = stack[u][n + 1]
            /\ stack[u][n] \in Jobs /\ stack[u][n] # j
         \/ /\ u = t /\ ~Idle(t) /\ n = Len(stack[t])
            /\ stack'[u][n] = Top(t) /\ stack'[u][n + 1] = j
            /\ Top(t) \in Jobs /\ Top(t) # j /\ Top(t) \in OnStack(t)
<1>1. Len(stack[u]) \in Nat /\ Len(stack[t]) \in Nat
  BY LenProperties DEF Shape
<1>2. CASE u # t
  <2>1. stack'[u] = stack[u] /\ n \in 1..Len(stack[u])
    BY <1>1, <1>2 DEF Placed
  <2>2. QED
    BY <1>2, <2>1, ElementJobs DEF Placed
<1>3. CASE u = t /\ n # Len(stack[t])
  <2>1. n \in 1..(Len(stack[u]) - 1) /\ n \in 1..Len(stack[u]) /\ n + 1 \in 1..Len(stack[u])
    BY <1>1, <1>3 DEF Placed
  <2>2. QED
    BY <1>3, <2>1, ElementJobs DEF Placed
<1>4. CASE u = t /\ n = Len(stack[t])
  <2>1. n \in 1..Len(stack[t]) /\ stack[t] # <<>>
    BY <1>1, <1>4, EmptySeq DEF Placed
  <2>2. ~Idle(t) /\ Top(t) = stack[t][n]
    BY <1>4, <2>1 DEF Idle, Top
  <2>3. stack[t][n] \in Jobs /\ stack[t][n] \in OnStack(t) /\ stack[t][n] # j
    BY <2>1, ElementJobs DEF Placed
  <2>4. stack'[t][n] = stack[t][n] /\ stack'[t][n + 1] = j
    BY <1>4, <2>1 DEF Placed
  <2>5. QED
    BY <1>4, <2>2, <2>3, <2>4
<1>5. QED
  BY <1>2, <1>3, <1>4

LEMMA NestStart ==
  ASSUME Shape, StackInv, NestInv, NEW t \in Threads, NEW j \in Jobs, Starts(t, j)
  PROVE  NestInv'
<1> USE FamilyConstants
<1>1. /\ Push(t, j)
      /\ Parent[j] # None => at[Parent[j]] \in Working
      /\ ~Idle(t) => \/ at[Top(t)] \in Yielding
                     \/ at[Top(t)] \in Working /\ KeyOf[Top(t)] \notin Isolated
      /\ t \notin Pool /\ ~Idle(t) => Parent[j] = Top(t)
      /\ t \notin Pool /\ Parent[j] # None => Parent[j] \in OnStack(t)
  BY StartGuard
<1>2. Placed(t, j)
  BY <1>1, PushPlaced
<1>3. BelowWorks'
  <2>1. SUFFICES ASSUME NEW u \in Threads, NEW n \in 1..(Len(stack'[u]) - 1)
                 PROVE  \/ at'[stack'[u][n]] \in Yielding
                        \/ /\ at'[stack'[u][n]] \in Working
                           /\ KeyOf[stack'[u][n]] \notin Isolated
    BY DEF BelowWorks
  <2>2. CASE /\ n \in 1..(Len(stack[u]) - 1)
             /\ stack'[u][n] = stack[u][n]
             /\ stack[u][n] \in Jobs /\ stack[u][n] # j
    <3>1. at'[stack'[u][n]] = at[stack[u][n]]
      BY <1>2, <2>2 DEF Placed
    <3>2. QED
      BY <2>2, <3>1 DEF NestInv, BelowWorks
  <2>3. CASE /\ ~Idle(t) /\ stack'[u][n] = Top(t)
             /\ Top(t) \in Jobs /\ Top(t) # j
    <3>1. at'[stack'[u][n]] = at[Top(t)]
      BY <1>2, <2>3 DEF Placed
    <3>2. QED
      BY <1>1, <2>3, <3>1
  <2>4. QED
    BY <1>2, <2>2, <2>3, PlacedBelow
<1>4. LaneNests'
  <2>1. SUFFICES ASSUME NEW u \in Threads \ Pool, NEW n \in 1..(Len(stack'[u]) - 1)
                 PROVE  Parent[stack'[u][n + 1]] = stack'[u][n]
    BY DEF LaneNests
  <2>2. CASE /\ n \in 1..(Len(stack[u]) - 1)
             /\ stack'[u][n] = stack[u][n] /\ stack'[u][n + 1] = stack[u][n + 1]
    BY <2>2 DEF NestInv, LaneNests
  <2>3. CASE /\ u = t /\ ~Idle(t)
             /\ stack'[u][n] = Top(t) /\ stack'[u][n + 1] = j
    BY <1>1, <2>3
  <2>4. QED
    BY <1>2, <2>2, <2>3, PlacedBelow
<1>5. YieldersTop'
  <2>1. SUFFICES ASSUME NEW u \in Threads, NEW n \in 1..Len(stack'[u]),
                        at'[stack'[u][n]] \in Yielding
                 PROVE  /\ u \in Pool
                        /\ Parent[stack'[u][n]] = None
                        /\ \A m \in 1..(n - 1) : at'[stack'[u][m]] \in Yielding
    BY DEF YieldersTop
  <2>2. Len(stack[u]) \in Nat /\ Len(stack[t]) \in Nat
    BY LenProperties DEF Shape
  <2>3. n \in 1..Len(stack[u])
    <3>1. CASE u # t
      BY <1>2, <3>1 DEF Placed
    <3>2. CASE u = t /\ n = Len(stack[t]) + 1
      <4>1. at'[stack'[u][n]] = "lookup"
        BY <1>2, <3>2 DEF Placed
      <4>2. QED
        BY <2>1, <4>1 DEF Yielding
    <3>3. CASE u = t /\ n # Len(stack[t]) + 1
      BY <1>2, <2>2, <3>3 DEF Placed
    <3>4. QED
      BY <3>1, <3>2, <3>3
  <2>4. \A m \in 1..n : /\ m \in 1..Len(stack[u])
                        /\ at'[stack'[u][m]] = at[stack[u][m]]
                        /\ stack'[u][m] = stack[u][m]
    <3>1. SUFFICES ASSUME NEW m \in 1..n
                   PROVE  /\ m \in 1..Len(stack[u])
                          /\ at'[stack'[u][m]] = at[stack[u][m]]
                          /\ stack'[u][m] = stack[u][m]
      OBVIOUS
    <3>2. m \in 1..Len(stack[u])
      BY <2>2, <2>3
    <3>3. stack'[u][m] = stack[u][m]
      BY <1>2, <3>2 DEF Placed
    <3>4. stack[u][m] \in Jobs /\ stack[u][m] # j
      BY <1>2, <3>2, ElementJobs DEF Placed
    <3>5. QED
      BY <1>2, <3>2, <3>3, <3>4 DEF Placed
  <2>5. n \in 1..n /\ \A m \in 1..(n - 1) : m \in 1..n
    BY <2>2, <2>3
  <2>6. /\ u \in Pool
        /\ Parent[stack[u][n]] = None
        /\ \A m \in 1..(n - 1) : at[stack[u][m]] \in Yielding
    BY <2>1, <2>3, <2>4, <2>5 DEF NestInv, YieldersTop
  <2>7. QED
    BY <2>4, <2>5, <2>6
<1>6. ActiveOnStack'
  BY <1>2 DEF NestInv, ActiveOnStack, Placed
<1>7. ParentsWork'
  <2>1. SUFFICES ASSUME NEW i \in Jobs, Active(i)', Parent[i] # None
                 PROVE  at'[Parent[i]] \in Working
    BY DEF ParentsWork
  <2>2. Parent[i] \in Jobs /\ (Active(i) \/ i = j)
    BY <1>2, <2>1 DEF Placed
  <2>3. at[Parent[i]] \in Working
    BY <1>1, <2>1, <2>2 DEF NestInv, ParentsWork
  <2>4. Parent[i] # j
    BY <1>2, <2>3 DEF Placed, Working
  <2>5. QED
    BY <1>2, <2>2, <2>3, <2>4 DEF Placed
<1>8. PoolFamilies'
  <2>1. SUFFICES ASSUME NEW i \in Jobs, Active(i)', Parent[i] # None, OnPool(Parent[i])'
                 PROVE  OnPool(i)'
    BY DEF PoolFamilies
  <2>2. Parent[i] \in Jobs /\ (Active(i) \/ i = j)
    BY <1>2, <2>1 DEF Placed
  <2>3. at[Parent[i]] \in Working
    BY <1>1, <2>1, <2>2 DEF NestInv, ParentsWork
  <2>4. Parent[i] # j
    BY <1>2, <2>3 DEF Placed, Working
  <2>5. PICK u \in Pool : Parent[i] \in OnStack(u)'
    BY <2>1 DEF OnPool
  <2>6. Parent[i] \in OnStack(u)
    BY <1>2, <2>4, <2>5 DEF Placed
  <2>7. CASE i = j
    <3>1. t \in Pool
      <4>1. SUFFICES ASSUME t \notin Pool PROVE FALSE
        OBVIOUS
      <4>2. Parent[i] \in OnStack(t)
        BY <1>1, <2>1, <2>7, <4>1
      <4>3. PICK m \in 1..Len(stack[t]) : stack[t][m] = Parent[i]
        BY <4>2 DEF OnStack
      <4>4. PICK n \in 1..Len(stack[u]) : stack[u][n] = Parent[i]
        BY <2>6 DEF OnStack
      <4>5. t = u
        BY <4>3, <4>4 DEF StackInv, OnceOnStacks
      <4>6. QED
        BY <4>1, <4>5
    <3>2. QED
      BY <1>2, <2>7, <3>1 DEF OnPool, Placed
  <2>8. CASE i # j
    <3>1. OnPool(i)
      BY <2>1, <2>2, <2>6, <2>8 DEF NestInv, PoolFamilies, OnPool
    <3>2. QED
      BY <1>2, <3>1 DEF OnPool, Placed
  <2>9. QED
    BY <2>7, <2>8
<1>9. Ordered'
  <2>1. PICK r \in [Jobs -> Nat], b \in Nat : (\A i \in Jobs : r[i] <= b) /\ Orders(r)
    BY DEF NestInv, Ordered
  <2> DEFINE q == [r EXCEPT ![j] = b + 1]
  <2>2. /\ q \in [Jobs -> Nat] /\ b + 1 \in Nat
        /\ q[j] = b + 1
        /\ \A i \in Jobs \ {j} : q[i] = r[i]
        /\ \A i \in Jobs : q[i] <= b + 1
        /\ \A i \in Jobs \ {j} : q[i] < q[j]
    BY <2>1
  <2> HIDE DEF q
  <2>3. \A u \in Threads : \A n \in 1..(Len(stack'[u]) - 1) :
          q[stack'[u][n]] < q[stack'[u][n + 1]]
    <3>1. SUFFICES ASSUME NEW u \in Threads, NEW n \in 1..(Len(stack'[u]) - 1)
                   PROVE  q[stack'[u][n]] < q[stack'[u][n + 1]]
      OBVIOUS
    <3>2. CASE /\ n \in 1..(Len(stack[u]) - 1)
               /\ stack'[u][n] = stack[u][n] /\ stack'[u][n + 1] = stack[u][n + 1]
               /\ stack[u][n] \in Jobs /\ stack[u][n] # j
      <4>1. r[stack[u][n]] < r[stack[u][n + 1]]
        BY <2>1, <3>2 DEF Orders
      <4>2. Len(stack[u]) \in Nat
        BY LenProperties DEF Shape
      <4>3. n + 1 \in 1..Len(stack[u])
        BY <3>2, <4>2
      <4>4. stack[u][n + 1] \in Jobs /\ stack[u][n + 1] # j
        BY <1>2, <4>3, ElementJobs DEF Placed
      <4>5. QED
        BY <2>2, <3>2, <4>1, <4>4
    <3>3. CASE /\ stack'[u][n] = Top(t) /\ stack'[u][n + 1] = j
               /\ Top(t) \in Jobs /\ Top(t) # j
      BY <2>2, <3>3
    <3>4. \/ /\ n \in 1..(Len(stack[u]) - 1)
             /\ stack'[u][n] = stack[u][n] /\ stack'[u][n + 1] = stack[u][n + 1]
             /\ stack[u][n] \in Jobs /\ stack[u][n] # j
          \/ /\ stack'[u][n] = Top(t) /\ stack'[u][n + 1] = j
             /\ Top(t) \in Jobs /\ Top(t) # j
      <4>1. Placed(t, j)
        BY <1>2
      <4>2. \/ /\ n \in 1..(Len(stack[u]) - 1)
               /\ stack'[u][n] = stack[u][n] /\ stack'[u][n + 1] = stack[u][n + 1]
               /\ stack[u][n] \in Jobs /\ stack[u][n] # j
            \/ /\ u = t /\ ~Idle(t) /\ n = Len(stack[t])
               /\ stack'[u][n] = Top(t) /\ stack'[u][n + 1] = j
               /\ Top(t) \in Jobs /\ Top(t) # j /\ Top(t) \in OnStack(t)
        BY <4>1, PlacedBelow, Zenon
      <4>3. QED
        BY <4>2
    <3>5. QED
      BY <3>2, <3>3, <3>4
  <2>4. \A i \in Jobs : Active(i)' /\ Parent[i] # None => q[Parent[i]] < q[i]
    <3>1. SUFFICES ASSUME NEW i \in Jobs, Active(i)', Parent[i] # None
                   PROVE  q[Parent[i]] < q[i]
      OBVIOUS
    <3>2. Parent[i] \in Jobs /\ (Active(i) \/ i = j)
      BY <1>2, <3>1 DEF Placed
    <3>3. at[Parent[i]] \in Working
      BY <1>1, <3>1, <3>2 DEF NestInv, ParentsWork
    <3>4. Parent[i] # j
      BY <1>2, <3>3 DEF Placed, Working
    <3>5. CASE i = j
      BY <2>2, <3>2, <3>4, <3>5
    <3>6. CASE i # j
      <4>1. r[Parent[i]] < r[i]
        BY <2>1, <3>1, <3>2, <3>6 DEF Orders
      <4>2. QED
        BY <2>2, <3>2, <3>4, <3>6, <4>1
    <3>7. QED
      BY <3>5, <3>6
  <2>5. Orders(q)'
    BY <2>3, <2>4 DEF Orders
  <2>6. QED
    BY <2>2, <2>5 DEF Ordered
<1>10. BlockedIsolated' /\ IsolatedKeys' /\ SameKey'
  <2>1. UNCHANGED <<handle, isolated>>
    BY <1>1 DEF Push
  <2>2. BlockedIsolated'
    <3>1. SUFFICES ASSUME NEW u \in Pool, NEW i \in OnStack(u)', at'[i] = "blocked"
                   PROVE  isolated'[handle'[i]]
      BY DEF BlockedIsolated
    <3>2. i \in OnStack(u) /\ i \in Jobs /\ i # j
      <4>1. i \in OnStack(u) \/ i = j
        BY <1>2 DEF Placed
      <4>2. i # j
        BY <1>2, <3>1 DEF Placed
      <4>3. QED
        BY <4>1, <4>2, OnStackJobs
    <3>3. at[i] = "blocked"
      BY <1>2, <3>1, <3>2 DEF Placed
    <3>4. QED
      BY <2>1, <3>2, <3>3 DEF NestInv, BlockedIsolated
  <2>3. IsolatedKeys'
    BY <2>1 DEF NestInv, IsolatedKeys
  <2>4. SameKey'
    BY <1>2, <2>1 DEF NestInv, SameKey, Placed, Following, Waits, Yielding
  <2>5. QED
    BY <2>2, <2>3, <2>4
<1>11. QED
  BY <1>3, <1>4, <1>5, <1>6, <1>7, <1>8, <1>9, <1>10 DEF NestInv

\* What a step does to handles and marks: another job's handle stays, a mark is
\* set only for a key of the leaf pools, a follower keeps its flight, and one
\* that joins takes the flight the map has for its key.
LEMMA StepHandles ==
  ASSUME Shape, FlightInv, NEW t \in Threads, NEW j \in Jobs,
         Step(t, j) \/ GiveUp(t, j)
  PROVE  /\ \A i \in Jobs \ {j} : handle'[i] = handle[i]
         /\ \A i \in Jobs : isolated[i] => isolated'[i]
         /\ \A i \in Jobs : isolated'[i] => isolated[i] \/ KeyOf[i] \in Isolated
         /\ at'[j] \in Following =>
                \/ at[j] \in Following /\ handle'[j] = handle[j]
                \/ /\ handle'[j] = inFlight[KeyOf[j]]
                   /\ inFlight[KeyOf[j]] \in Jobs
         /\ at'[j] = "blocked" /\ t \in Pool =>
                isolated[handle[j]] /\ handle'[j] = handle[j]
<1> USE DEF Following, Waits, Yielding
<1>0. /\ at \in [Jobs -> States] /\ handle \in [Jobs -> Jobs \cup {None}]
      /\ isolated \in [Jobs -> BOOLEAN] /\ inFlight \in [Keys -> Jobs \cup {None}]
      /\ KeyOf[j] \in Keys
  BY FlightConstants DEF Shape
<1>1. CASE CacheHit(t, j) \/ Adopt(t, j) \/ Retry(t, j)
  <2>1. PICK s \in {"ended", "lookup"} : at' = [at EXCEPT ![j] = s]
    BY <1>1 DEF CacheHit, Adopt, Retry, Return, Goto
  <2>2. UNCHANGED isolated /\ \A i \in Jobs \ {j} : handle'[i] = handle[i]
    BY <1>0, <1>1 DEF CacheHit, Adopt, Retry
  <2>3. QED
    BY <1>0, <2>1, <2>2
<1>2. CASE Join(t, j)
  BY <1>0, <1>2 DEF Join, Goto
<1>3. CASE BecomeOwner(t, j)
  BY <1>0, <1>3 DEF BecomeOwner, Goto
<1>4. CASE DeclineToWait(t, j) \/ OverCap(t, j) \/ PathBound(t, j) \/ GiveUp(t, j)
  <2>1. /\ at' = [at EXCEPT ![j] = "indep"]
        /\ handle' = [handle EXCEPT ![j] = None]
        /\ UNCHANGED isolated
    BY <1>4 DEF DeclineToWait, OverCap, PathBound, GiveUp, Independently, Goto
  <2>2. QED
    BY <1>0, <2>1
<1>5. CASE Block(t, j)
  BY <1>0, <1>5 DEF Block, Goto, IsolatedWait
<1>6. CASE CountIn(t, j) \/ WaitExempt(t, j)
  <2>1. PICK s \in {"counted", "exempt", "uncount"} : at' = [at EXCEPT ![j] = s]
    BY <1>6 DEF CountIn, WaitExempt, Goto
  <2>2. UNCHANGED <<handle, isolated>> /\ at[j] = "follow"
    BY <1>6 DEF CountIn, WaitExempt
  <2>3. QED
    BY <1>0, <2>1, <2>2
<1>7. CASE MarkIsolated(t, j)
  BY <1>0, <1>7 DEF MarkIsolated
<1>8. CASE EndIndependent(t, j) \/ EndOwned(t, j)
  <2>1. PICK s \in {"ended", "okDone", "errDone", "unwind"} :
            at' = [at EXCEPT ![j] = s]
    BY <1>8 DEF EndIndependent, EndOwned, Return, Goto
  <2>2. UNCHANGED <<handle, isolated>>
    BY <1>8 DEF EndIndependent, EndOwned
  <2>3. QED
    BY <1>0, <2>1, <2>2
<1>9. CASE Retire(t, j) \/ Remove(t, j)
  <2>1. at' = [at EXCEPT ![j] = "ended"]
    BY <1>9 DEF Retire, Remove, Return, Goto
  <2>2. UNCHANGED isolated /\ handle' = [handle EXCEPT ![j] = None]
    BY <1>9 DEF Retire, Remove
  <2>3. QED
    BY <1>0, <2>1, <2>2
<1>10. CASE KeepForWaiters(t, j) \/ Publish(t, j)
  <2>1. PICK s \in {"publishOk", "publishErr", "remove"} : at' = [at EXCEPT ![j] = s]
    BY <1>10 DEF KeepForWaiters, Publish, Goto
  <2>2. UNCHANGED <<handle, isolated>>
    BY <1>10 DEF KeepForWaiters, Publish
  <2>3. QED
    BY <1>0, <2>1, <2>2
<1>11. QED
  BY <1>1, <1>2, <1>3, <1>4, <1>5, <1>6, <1>7, <1>8, <1>9, <1>10 DEF Step

LEMMA HandlesStep ==
  ASSUME Shape, FlightInv, BlockedIsolated, IsolatedKeys, SameKey,
         NEW t \in Threads, NEW j \in Jobs, NEW s, Around(t, j, s),
         Step(t, j) \/ GiveUp(t, j)
  PROVE  BlockedIsolated' /\ IsolatedKeys' /\ SameKey'
<1> USE FamilyConstants
<1>1. /\ \A i \in Jobs \ {j} : handle'[i] = handle[i]
      /\ \A i \in Jobs : isolated[i] => isolated'[i]
      /\ \A i \in Jobs : isolated'[i] => isolated[i] \/ KeyOf[i] \in Isolated
      /\ at'[j] \in Following =>
             \/ at[j] \in Following /\ handle'[j] = handle[j]
             \/ handle'[j] = inFlight[KeyOf[j]] /\ inFlight[KeyOf[j]] \in Jobs
      /\ at'[j] = "blocked" /\ t \in Pool =>
             isolated[handle[j]] /\ handle'[j] = handle[j]
  BY StepHandles
<1>2. \A i \in Jobs : at[i] = "blocked" => handle[i] \in Jobs
  BY DEF FlightInv, FollowersServed, Following, Waits
<1>3. BlockedIsolated'
  <2>1. SUFFICES ASSUME NEW u \in Pool, NEW i \in OnStack(u)', at'[i] = "blocked"
                 PROVE  isolated'[handle'[i]]
    BY DEF BlockedIsolated
  <2>2. i \in OnStack(u) /\ i \in Jobs
    <3>1. PICK n \in 1..Len(stack'[u]) : stack'[u][n] = i
      BY DEF OnStack
    <3>2. n \in 1..Len(stack[u]) /\ stack[u][n] = i
      BY <3>1 DEF Around
    <3>3. QED
      BY <3>2, ElementJobs
  <2>3. CASE i # j
    <3>1. at[i] = "blocked" /\ handle'[i] = handle[i] /\ handle[i] \in Jobs
      BY <1>1, <1>2, <2>1, <2>2, <2>3 DEF Around
    <3>2. isolated[handle[i]]
      BY <2>2, <3>1 DEF BlockedIsolated
    <3>3. QED
      BY <1>1, <3>1, <3>2
  <2>4. CASE i = j
    <3>1. u = t
      <4>1. PICK n \in 1..Len(stack[u]) : stack[u][n] = i
        BY <2>2 DEF OnStack
      <4>2. QED
        BY <2>4, <4>1 DEF Around
    <3>2. isolated[handle[j]] /\ handle'[j] = handle[j]
      BY <1>1, <2>1, <2>4, <3>1
    <3>3. handle[j] \in Jobs
      <4>1. at'[j] \in Following
        BY <2>1, <2>4 DEF Following, Waits
      <4>2. CASE at[j] \in Following
        BY <4>2 DEF FlightInv, FollowersServed
      <4>3. CASE at[j] \notin Following
        BY <1>1, <3>2, <4>1, <4>3
      <4>4. QED
        BY <4>2, <4>3
    <3>4. QED
      BY <1>1, <2>4, <3>2, <3>3
  <2>5. QED
    BY <2>3, <2>4
<1>4. IsolatedKeys'
  BY <1>1 DEF IsolatedKeys
<1>5. SameKey'
  <2>1. SUFFICES ASSUME NEW i \in Jobs, at'[i] \in Following
                 PROVE  KeyOf[handle'[i]] = KeyOf[i]
    BY DEF SameKey
  <2>2. CASE i # j
    <3>1. at[i] \in Following /\ handle'[i] = handle[i]
      BY <1>1, <2>1, <2>2 DEF Around
    <3>2. QED
      BY <3>1 DEF SameKey
  <2>3. CASE i = j /\ at[j] \in Following /\ handle'[j] = handle[j]
    BY <2>3 DEF SameKey
  <2>4. CASE i = j /\ handle'[j] = inFlight[KeyOf[j]] /\ inFlight[KeyOf[j]] \in Jobs
    <3>1. KeyOf[j] \in Keys
      BY FlightConstants
    <3>2. KeyOf[inFlight[KeyOf[j]]] = KeyOf[j]
      BY <2>4, <3>1 DEF FlightInv, MapHoldsOwners
    <3>3. QED
      BY <2>4, <3>2
  <2>5. QED
    BY <1>1, <2>1, <2>2, <2>3, <2>4
<1>6. QED
  BY <1>3, <1>4, <1>5

LEMMA NestStep ==
  ASSUME Shape, FlightInv, StackInv, NestInv, NEW t \in Threads, NEW j \in Jobs,
         Step(t, j) \/ GiveUp(t, j)
  PROVE  NestInv'
<1>1. PICK s \in States : Moves(t, j, s)
  BY StepMoves
<1>2. Around(t, j, s)
  BY <1>1, MovesAround
<1>3. /\ BelowWorks /\ LaneNests /\ YieldersTop /\ ActiveOnStack /\ ParentsWork
      /\ PoolFamilies /\ Ordered /\ BlockedIsolated /\ IsolatedKeys /\ SameKey
  BY DEF NestInv
<1>4. BelowWorks' /\ LaneNests' /\ Ordered'
  BY <1>2, <1>3, BelowWorksStep, LaneNestsStep, OrderedStep
<1>5. YieldersTop'
  BY <1>1, <1>2, <1>3, YieldersTopStep
<1>6. ActiveOnStack' /\ ParentsWork' /\ PoolFamilies'
  BY <1>1, <1>2, <1>3, FamiliesStep
<1>7. BlockedIsolated' /\ IsolatedKeys' /\ SameKey'
  BY <1>2, <1>3, HandlesStep
<1>8. QED
  BY <1>4, <1>5, <1>6, <1>7 DEF NestInv

LEMMA NestInit == Init => NestInv
<1>1. SUFFICES ASSUME Init PROVE NestInv
  OBVIOUS
<1>2. /\ \A t \in Threads : stack[t] = <<>> /\ Len(stack[t]) = 0
      /\ \A j \in Jobs : at[j] = "new" /\ ~isolated[j]
  BY <1>1, EmptySeq DEF Init
<1>3. BelowWorks /\ LaneNests /\ YieldersTop
  BY <1>2 DEF BelowWorks, LaneNests, YieldersTop
<1>4. \A j \in Jobs : ~Active(j)
  BY <1>2 DEF Active
<1>5. ActiveOnStack /\ ParentsWork /\ PoolFamilies
  BY <1>4 DEF ActiveOnStack, ParentsWork, PoolFamilies
<1>6. Ordered
  <2> DEFINE r == [j \in Jobs |-> 0]
  <2>1. r \in [Jobs -> Nat] /\ \A j \in Jobs : r[j] <= 0
    OBVIOUS
  <2>2. Orders(r)
    BY <1>2, <1>4 DEF Orders
  <2> HIDE DEF r
  <2>3. QED
    BY <2>1, <2>2 DEF Ordered
<1>7. BlockedIsolated /\ IsolatedKeys /\ SameKey
  <2>1. \A t \in Threads : OnStack(t) = {}
    BY <1>2 DEF OnStack
  <2>2. QED
    BY <1>2, <2>1, FamilyConstants
    DEF BlockedIsolated, IsolatedKeys, SameKey, Following, Waits, Yielding
<1>8. QED
  BY <1>3, <1>5, <1>6, <1>7 DEF NestInv

LEMMA NestSame ==
  ASSUME NestInv, UNCHANGED vars
  PROVE  NestInv'
<1> USE DEF vars
<1>1. BelowWorks' /\ LaneNests'
  BY DEF NestInv, BelowWorks, LaneNests
<1>2. YieldersTop'
  BY DEF NestInv, YieldersTop
<1>3. ActiveOnStack' /\ ParentsWork' /\ PoolFamilies'
  BY DEF NestInv, ActiveOnStack, ParentsWork, PoolFamilies, Active, OnPool, OnStack
<1>4. Ordered'
  <2>1. PICK r \in [Jobs -> Nat], b \in Nat : (\A i \in Jobs : r[i] <= b) /\ Orders(r)
    BY DEF NestInv, Ordered
  <2>2. Orders(r)'
    BY <2>1 DEF Orders, Active
  <2>3. QED
    BY <2>1, <2>2 DEF Ordered
<1>5. BlockedIsolated' /\ IsolatedKeys' /\ SameKey'
  BY DEF NestInv, BlockedIsolated, IsolatedKeys, SameKey, OnStack
<1>6. QED
  BY <1>1, <1>2, <1>3, <1>4, <1>5 DEF NestInv

-----------------------------------------------------------------------------
(* The theorems *)

IInv == Shape /\ FlightInv /\ WaitersInv /\ StackInv /\ NestInv

LEMMA IInvInit == Init => IInv
<1>1. Init => Shape
  BY FlightConstants, EmptySeq DEF Init, Shape, States
<1>2. QED
  BY <1>1, FlightInit, WaitersInit, StackInit, NestInit DEF IInv

LEMMA IInvStep == IInv /\ [Next]_vars => IInv'
<1>1. SUFFICES ASSUME IInv, [Next]_vars PROVE IInv'
  OBVIOUS
<1>2. Shape /\ FlightInv /\ WaitersInv /\ StackInv /\ NestInv
  BY <1>1 DEF IInv
<1>3. CASE UNCHANGED vars
  <2>1. StackInv'
    BY <1>2, <1>3, StackSame DEF vars
  <2>2. Shape'
    BY <1>2, <1>3 DEF vars, Shape
  <2>3. FlightInv' /\ WaitersInv'
    BY <1>2, <1>3
    DEF vars, FlightInv, OwnersHold, OwnersMapped, MapHoldsOwners,
        FollowersServed, RemovedDone, WaitersInv, InLine, Counted
  <2>4. NestInv'
    BY <1>2, <1>3, NestSame
  <2>5. QED
    BY <2>1, <2>2, <2>3, <2>4 DEF IInv
<1>4. ASSUME NEW t \in Threads, NEW j \in Jobs, Starts(t, j)
      PROVE  IInv'
  <2>1. Push(t, j)
    BY <1>4 DEF Starts, RunOwn, Steal, YieldLocal, PullPath
  <2>2. WaitersInv'
    BY <1>2, <2>1, WaitersAside DEF Push
  <2>3. QED
    BY <1>2, <1>4, <2>1, <2>2, StartShape, FlightStart, StackStart, NestStart DEF IInv
<1>5. ASSUME NEW t \in Threads, NEW j \in Jobs, Step(t, j) \/ GiveUp(t, j)
      PROVE  IInv'
  BY <1>2, <1>5, StepShape, FlightStep, WaitersStep, StackStep, NestStep DEF IInv
<1>6. QED
  BY <1>1, <1>3, <1>4, <1>5 DEF Next

LEMMA Invariance == Spec => []IInv
  BY IInvInit, IInvStep, PTL DEF Spec

\* Every variable stays in its range; WAITERS never goes below zero.
THEOREM FlightTypeCorrect == Spec => []TypeOK
<1>1. IInv => TypeOK
  BY WaitersType DEF IInv, Shape, TypeOK
<1>2. QED
  BY <1>1, Invariance, PTL

\* Whatever a caller finds in the map is a flight whose owner is at work: no
\* stale entry outlives complete() or the unwinding of a panic.
THEOREM FlightMapLive == Spec => []MapHoldsLiveFlights
<1>1. IInv => MapHoldsLiveFlights
  BY FlightConstants
  DEF IInv, Shape, FlightInv, OwnersHold, MapHoldsOwners, MapHoldsLiveFlights
<1>2. QED
  BY <1>1, Invariance, PTL

\* The retirement of an unobserved flight and the publish-then-remove path
\* leave no follower behind without a result.
THEOREM FlightNoOrphan == Spec => []NoOrphanFollower
<1>1. IInv => NoOrphanFollower
  BY DEF IInv, FlightInv, FollowersServed, NoOrphanFollower, Following
<1>2. QED
  BY <1>1, Invariance, PTL

\* No two callers own the same key at the same time.
THEOREM FlightSingle == Spec => []OneOwnerPerKey
<1>1. IInv => OneOwnerPerKey
  BY DEF IInv, FlightInv, OwnersMapped, OneOwnerPerKey
<1>2. QED
  BY <1>1, Invariance, PTL

\* The fetch_add and its undoing keep the counted waiters within the cap.
THEOREM FlightWaitersCapped == Spec => []WaitersCapped
<1>1. IInv => WaitersCapped
  BY DEF IInv, WaitersInv, Counted, WaitersCapped
<1>2. QED
  BY <1>1, Invariance, PTL

\* The thread-local counts a thread decides on before it waits, and the shared
\* WAITERS, are those of the jobs on its stack and of the jobs in line, after
\* every publish, retirement, panic, retry and early return.
THEOREM FlightCounts == Spec => []CountsExact
<1>1. IInv => CountsExact
  BY DEF IInv, WaitersInv, InLine, StackInv, CountsInv, Held, CountsExact
<1>2. QED
  BY <1>1, Invariance, PTL

-----------------------------------------------------------------------------
(* Nothing waits for itself *)

\* In a set of jobs that is not empty one is least.
LEMMA LeastJob ==
  ASSUME NEW S \in SUBSET Jobs, S # {}, NEW f \in [Jobs -> Nat]
  PROVE  \E i \in S : \A k \in S : ~(f[k] < f[i])
<1> DEFINE T == {f[i] : i \in S}
           R == OpToRel(<, Nat)
<1>1. T # {} /\ T \subseteq Nat
  OBVIOUS
<1>2. PICK m \in T : \A k \in T : ~(<<k, m>> \in R)
  <2> HIDE DEF T
  <2>1. QED
    BY <1>1, NatLessThanWellFounded, WFMin
<1>3. \A k \in T : ~(k < m)
  <2>1. m \in Nat /\ \A k \in T : k \in Nat
    BY <1>1
  <2> HIDE DEF T
  <2>2. QED
    BY <1>2, <2>1 DEF OpToRel
<1>4. PICK i \in S : m = f[i]
  OBVIOUS
<1>5. \A k \in S : f[k] \in T
  OBVIOUS
<1> HIDE DEF T
<1>6. QED
  BY <1>3, <1>4, <1>5

\* An owner on a leaf pool needs nobody.
LEMMA IsolatedNeeds ==
  ASSUME IInv, NEW i \in Jobs, NEW j \in Jobs,
         at[i] \in Owning, KeyOf[i] \in Isolated
  PROVE  ~Needs(i, j)
<1> USE FamilyConstants
<1>1. at[i] \notin Waits
  BY DEF Owning, Waits, Yielding
<1>2. Parent[j] # i
  OBVIOUS
<1>3. ~ \E t \in Threads : \E n \in 1..Len(stack[t]) - 1 :
        stack[t][n] = i /\ stack[t][n + 1] = j
  BY <1>1 DEF IInv, NestInv, BelowWorks, Waits
<1>4. QED
  BY <1>1, <1>2, <1>3 DEF Needs

\* What a waiting job needs is an owner, of its own key, that has not published.
LEMMA WaitNeeds ==
  ASSUME IInv, NEW i \in Jobs, at[i] \in Waits, ~done[handle[i]]
  PROVE  /\ handle[i] \in Jobs
         /\ at[handle[i]] \in Owning
         /\ KeyOf[handle[i]] = KeyOf[i]
         /\ OnPool(i) /\ at[i] \notin Yielding => KeyOf[handle[i]] \in Isolated
<1>1. at[i] \in Following
  BY DEF Following
<1>2. handle[i] \in Jobs /\ at[handle[i]] \in Owning /\ KeyOf[handle[i]] = KeyOf[i]
  BY <1>1 DEF IInv, FlightInv, FollowersServed, NestInv, SameKey
<1>3. ASSUME OnPool(i), at[i] \notin Yielding
      PROVE  KeyOf[handle[i]] \in Isolated
  <2>1. at[i] = "blocked"
    BY <1>3 DEF Waits
  <2>2. isolated[handle[i]]
    BY <1>3, <2>1 DEF OnPool, IInv, NestInv, BlockedIsolated
  <2>3. QED
    BY <1>2, <2>2 DEF IInv, NestInv, IsolatedKeys
<1>4. QED
  BY <1>2, <1>3

\* What lies on a job that does not yield does not yield either.
LEMMA AboveNotYielding ==
  ASSUME IInv, NEW t \in Threads, NEW n \in 1..(Len(stack[t]) - 1),
         at[stack[t][n]] \notin Yielding
  PROVE  /\ at[stack[t][n + 1]] \notin Yielding
         /\ stack[t][n] \in OnStack(t) /\ stack[t][n + 1] \in OnStack(t)
<1>1. Len(stack[t]) \in Nat
  BY LenProperties DEF IInv, Shape
<1>2. n \in 1..Len(stack[t]) /\ n + 1 \in 1..Len(stack[t]) /\ n \in 1..((n + 1) - 1)
  BY <1>1
<1>3. at[stack[t][n + 1]] \notin Yielding
  BY <1>2 DEF IInv, NestInv, YieldersTop
<1>4. QED
  BY <1>2, <1>3 DEF OnStack

\* A nested member never yields.
LEMMA NestedNotYielding ==
  ASSUME IInv, NEW j \in Jobs, Parent[j] # None
  PROVE  at[j] \notin Yielding
<1>1. SUFFICES ASSUME at[j] \in Yielding PROVE FALSE
  OBVIOUS
<1>2. Active(j)
  BY <1>1 DEF Active, Yielding, Finished
<1>3. PICK t \in Threads : j \in OnStack(t)
  BY <1>2 DEF IInv, NestInv, ActiveOnStack
<1>4. PICK n \in 1..Len(stack[t]) : stack[t][n] = j
  BY <1>3 DEF OnStack
<1>5. QED
  BY <1>1, <1>4 DEF IInv, NestInv, YieldersTop

\* On the pool, a job that does not yield needs a leaf-pool owner, or another
\* such job that started after it.
LEMMA PoolNeeds ==
  ASSUME IInv, NEW r, Orders(r), NEW i \in Jobs, NEW j \in Jobs,
         OnPool(i), at[i] \notin Yielding, Needs(i, j)
  PROVE  \/ at[j] \in Owning /\ KeyOf[j] \in Isolated
         \/ OnPool(j) /\ at[j] \notin Yielding /\ r[i] < r[j]
<1> USE FamilyConstants
<1>1. CASE at[i] \in Waits /\ ~done[handle[i]] /\ j = handle[i]
  BY <1>1, WaitNeeds
<1>2. CASE at[i] \in Working /\ Parent[j] = i /\ at[j] \notin Finished \cup {"new"}
  <2>1. Active(j) /\ Parent[j] # None
    BY <1>2 DEF Active
  <2>2. OnPool(j)
    BY <1>2, <2>1 DEF IInv, NestInv, PoolFamilies
  <2>3. r[i] < r[j]
    BY <1>2, <2>1 DEF Orders
  <2>4. QED
    BY <2>1, <2>2, <2>3, NestedNotYielding
<1>3. CASE \E t \in Threads : \E n \in 1..Len(stack[t]) - 1 :
              stack[t][n] = i /\ stack[t][n + 1] = j
  <2>0. PICK t \in Threads :
            \E n \in 1..(Len(stack[t]) - 1) : stack[t][n] = i /\ stack[t][n + 1] = j
    BY <1>3
  <2>1. PICK n \in 1..(Len(stack[t]) - 1) : stack[t][n] = i /\ stack[t][n + 1] = j
    BY <2>0
  <2>2. at[j] \notin Yielding /\ i \in OnStack(t) /\ j \in OnStack(t)
    BY <2>1, AboveNotYielding
  <2>3. r[i] < r[j]
    BY <2>1 DEF Orders
  <2>4. PICK u \in Pool : i \in OnStack(u)
    BY DEF OnPool
  <2>5. t = u
    <3>1. PICK m \in 1..Len(stack[t]) : stack[t][m] = i
      BY <2>2 DEF OnStack
    <3>2. PICK k \in 1..Len(stack[u]) : stack[u][k] = i
      BY <2>4 DEF OnStack
    <3>3. QED
      BY <2>4, <3>1, <3>2 DEF IInv, StackInv, OnceOnStacks
  <2>6. QED
    BY <2>2, <2>3, <2>5 DEF OnPool
<1>4. QED
  BY <1>1, <1>2, <1>3 DEF Needs

\* What needs anything is on a stack.
LEMMA NeedyOnStack ==
  ASSUME IInv, NEW i \in Jobs, NEW j \in Jobs, Needs(i, j)
  PROVE  OnPool(i) \/ OffPool(i)
<1>1. \E t \in Threads : i \in OnStack(t)
  <2>1. CASE at[i] \in Waits \cup Working
    <3>1. Active(i)
      BY <2>1 DEF Active, Waits, Yielding, Working, Finished
    <3>2. QED
      BY <3>1 DEF IInv, NestInv, ActiveOnStack
  <2>2. CASE \E t \in Threads : \E n \in 1..Len(stack[t]) - 1 :
                stack[t][n] = i /\ stack[t][n + 1] = j
    <3>1. PICK t \in Threads :
              \E n \in 1..(Len(stack[t]) - 1) : stack[t][n] = i /\ stack[t][n + 1] = j
      BY <2>2
    <3>2. PICK n \in 1..(Len(stack[t]) - 1) : stack[t][n] = i
      BY <3>1
    <3>3. Len(stack[t]) \in Nat
      BY LenProperties DEF IInv, Shape
    <3>4. n \in 1..Len(stack[t])
      BY <3>2, <3>3
    <3>5. QED
      BY <3>2, <3>4 DEF OnStack
  <2>3. QED
    BY <2>1, <2>2 DEF Needs
<1>2. QED
  BY <1>1 DEF OnPool, OffPool

\* Off the pool, a job blocks for an owner of its own key, or needs a member of
\* its archive, which started after it.
LEMMA LaneNeeds ==
  ASSUME IInv, NEW r, Orders(r), NEW i \in Jobs, NEW j \in Jobs,
         ~OnPool(i), at[i] \notin Yielding, Needs(i, j)
  PROVE  /\ at[j] \notin Yielding
         /\ \/ at[i] = "blocked" /\ at[j] \notin Waits /\ KeyOf[j] = KeyOf[i]
            \/ at[i] \notin Waits /\ Parent[j] = i /\ r[i] < r[j]
<1> USE FamilyConstants
<1>1. CASE at[i] \in Waits /\ ~done[handle[i]] /\ j = handle[i]
  <2>1. at[j] \in Owning /\ KeyOf[j] = KeyOf[i]
    BY <1>1, WaitNeeds
  <2>2. QED
    BY <1>1, <2>1 DEF Owning, Waits, Yielding
<1>2. CASE at[i] \in Working /\ Parent[j] = i /\ at[j] \notin Finished \cup {"new"}
  <2>1. Active(j) /\ Parent[j] # None /\ at[i] \notin Waits
    BY <1>2 DEF Active, Working, Waits, Yielding
  <2>2. r[i] < r[j]
    BY <1>2, <2>1 DEF Orders
  <2>3. QED
    BY <1>2, <2>1, <2>2, NestedNotYielding
<1>3. CASE \E t \in Threads : \E n \in 1..Len(stack[t]) - 1 :
              stack[t][n] = i /\ stack[t][n + 1] = j
  <2>0. PICK t \in Threads :
            \E n \in 1..(Len(stack[t]) - 1) : stack[t][n] = i /\ stack[t][n + 1] = j
    BY <1>3
  <2>1. PICK n \in 1..(Len(stack[t]) - 1) : stack[t][n] = i /\ stack[t][n + 1] = j
    BY <2>0
  <2>2. at[j] \notin Yielding /\ i \in OnStack(t)
    BY <2>1, AboveNotYielding
  <2>3. t \notin Pool
    BY <2>2 DEF OnPool
  <2>4. Parent[j] = i
    BY <2>1, <2>3 DEF IInv, NestInv, LaneNests
  <2>5. at[i] \in Working
    BY <2>1 DEF IInv, NestInv, BelowWorks
  <2>6. at[i] \notin Waits
    BY <2>5 DEF Working, Waits, Yielding
  <2>7. r[i] < r[j]
    BY <2>1 DEF Orders
  <2>8. QED
    BY <2>2, <2>4, <2>6, <2>7
<1>4. QED
  BY <1>1, <1>2, <1>3 DEF Needs

\* A job that yields needs an owner, or what started on top of it.
LEMMA YielderNeeds ==
  ASSUME IInv, NEW r, Orders(r), NEW i \in Jobs, NEW j \in Jobs,
         at[i] \in Yielding, Needs(i, j)
  PROVE  at[j] \in Owning \/ r[i] < r[j]
<1>1. at[i] \notin Working
  BY DEF Yielding, Working
<1>2. CASE at[i] \in Waits /\ ~done[handle[i]] /\ j = handle[i]
  BY <1>2, WaitNeeds
<1>3. CASE \E t \in Threads : \E n \in 1..Len(stack[t]) - 1 :
              stack[t][n] = i /\ stack[t][n + 1] = j
  BY <1>3 DEF Orders
<1>4. QED
  BY <1>1, <1>2, <1>3 DEF Needs

\* A set of jobs each of which needs one of the set: no leaf-pool owner is in
\* it; so no job of the pool that does not yield, the one that started last
\* needing none of them; nor do all of them yield, again by the last to start.
\* So jobs off the pool are in it; not each of them waits for a member of its
\* archive, by the last to start; and going from a blocked one to its owner,
\* and from that to a member, leads through archives that hold one another.
LEMMA CyclesAreQuines == IInv => OnlyQuinesCycle
<1>1. SUFFICES ASSUME IInv, NEW S \in SUBSET Jobs, S # {},
                      \A i \in S : \E j \in S : Needs(i, j)
               PROVE  /\ \E i \in S : OffPool(i) /\ at[i] = "blocked"
                      /\ \E K \in SUBSET {KeyOf[i] : i \in {x \in S : OffPool(x)}} :
                            Quines(K)
  BY DEF OnlyQuinesCycle, WaitsForItself, Needy
<1>2. PICK r \in [Jobs -> Nat], b \in Nat : (\A j \in Jobs : r[j] <= b) /\ Orders(r)
  BY <1>1 DEF IInv, NestInv, Ordered
<1>3. \A i \in S : ~(at[i] \in Owning /\ KeyOf[i] \in Isolated)
  BY <1>1, IsolatedNeeds
<1> DEFINE before == [i \in Jobs |-> b - r[i]]
<1>4. before \in [Jobs -> Nat] /\ \A i, j \in Jobs : r[i] < r[j] => before[j] < before[i]
  BY <1>2
<1> HIDE DEF before
<1>5. \A i \in S : OnPool(i) => at[i] \in Yielding
  <2> DEFINE P == {i \in S : OnPool(i) /\ at[i] \notin Yielding}
  <2>1. SUFFICES ASSUME P # {} PROVE FALSE
    OBVIOUS
  <2>2. P \in SUBSET Jobs
    OBVIOUS
  <2>3. PICK i \in P : \A k \in P : ~(before[k] < before[i])
    <3> HIDE DEF P
    <3>1. QED
      BY <1>4, <2>1, <2>2, LeastJob
  <2>4. i \in S /\ i \in Jobs /\ OnPool(i) /\ at[i] \notin Yielding
    OBVIOUS
  <2>5. PICK j \in S : Needs(i, j)
    BY <1>1, <2>4
  <2>6. j \in Jobs /\ OnPool(j) /\ at[j] \notin Yielding /\ r[i] < r[j]
    BY <1>1, <1>2, <1>3, <2>4, <2>5, PoolNeeds
  <2>7. j \in P
    BY <2>6
  <2>8. QED
    BY <1>4, <2>3, <2>4, <2>6, <2>7
<1> DEFINE A == {i \in S : at[i] \notin Yielding}
<1>6. A # {}
  <2>1. SUFFICES ASSUME \A i \in S : at[i] \in Yielding PROVE FALSE
    OBVIOUS
  <2>2. PICK i \in S : \A k \in S : ~(before[k] < before[i])
    BY <1>1, <1>4, LeastJob
  <2>3. PICK j \in S : Needs(i, j)
    BY <1>1
  <2>4. at[j] \notin Owning /\ at[i] \in Yielding
    BY <2>1 DEF Yielding, Owning
  <2>5. r[i] < r[j]
    BY <1>1, <1>2, <2>3, <2>4, YielderNeeds
  <2>6. QED
    BY <1>4, <2>2, <2>5
\* A job of A is off the pool, and needs another one of A.
<1>7. \A i \in A : i \in Jobs /\ i \in S /\ ~OnPool(i) /\ OffPool(i)
  BY <1>1, <1>5, NeedyOnStack
<1>8. \A i \in A : \E j \in A :
        \/ at[i] = "blocked" /\ at[j] \notin Waits /\ KeyOf[j] = KeyOf[i]
        \/ at[i] \notin Waits /\ Parent[j] = i /\ r[i] < r[j]
  <2>1. SUFFICES ASSUME NEW i \in A
                 PROVE  \E j \in A :
                          \/ at[i] = "blocked" /\ at[j] \notin Waits /\ KeyOf[j] = KeyOf[i]
                          \/ at[i] \notin Waits /\ Parent[j] = i /\ r[i] < r[j]
    OBVIOUS
  <2>2. i \in S /\ i \in Jobs /\ ~OnPool(i) /\ at[i] \notin Yielding
    BY <1>7
  <2>3. PICK j \in S : Needs(i, j)
    BY <1>1, <2>2
  <2>4. /\ at[j] \notin Yielding
        /\ \/ at[i] = "blocked" /\ at[j] \notin Waits /\ KeyOf[j] = KeyOf[i]
           \/ at[i] \notin Waits /\ Parent[j] = i /\ r[i] < r[j]
    BY <1>1, <1>2, <2>2, <2>3, LaneNeeds
  <2>5. QED
    BY <2>4
<1>9. PICK w \in A : at[w] = "blocked"
  <2>1. A \in SUBSET Jobs
    BY <1>7
  <2>2. PICK i \in A : \A k \in A : ~(before[k] < before[i])
    <3> HIDE DEF A
    <3>1. QED
      BY <1>4, <1>6, <2>1, LeastJob
  <2>3. PICK j \in A : at[i] = "blocked" \/ r[i] < r[j]
    BY <1>8
  <2>4. ~(r[i] < r[j])
    BY <1>4, <1>7, <2>2
  <2>5. QED
    BY <2>3, <2>4
<1> DEFINE W == {i \in A : at[i] \notin Waits}
           K == {KeyOf[i] : i \in W}
<1>10. K # {}
  <2>1. "blocked" \in Waits
    BY DEF Waits
  <2>2. PICK j \in A : at[j] \notin Waits
    BY <1>8, <1>9, <2>1
  <2>3. QED
    BY <2>2
<1>11. \A k \in K : \E l \in K : Holds(k, l)
  <2>1. SUFFICES ASSUME NEW i \in W PROVE \E l \in K : Holds(KeyOf[i], l)
    OBVIOUS
  <2>2. PICK j \in A : Parent[j] = i
    <3>1. at[i] # "blocked"
      BY DEF Waits
    <3>2. QED
      BY <1>8, <3>1
  <2>3. i \in Jobs /\ j \in Jobs
    BY <1>7
  <2>4. Holds(KeyOf[i], KeyOf[j])
    BY <2>2, <2>3, FamilyConstants DEF Holds
  <2>5. CASE at[j] \notin Waits
    BY <2>4, <2>5
  <2>6. CASE at[j] \in Waits
    <3>1. PICK m \in A : at[m] \notin Waits /\ KeyOf[m] = KeyOf[j]
      BY <1>8, <2>6
    <3>2. QED
      BY <2>4, <3>1
  <2>7. QED
    BY <2>5, <2>6
<1>12. K \subseteq {KeyOf[i] : i \in {x \in S : OffPool(x)}}
  BY <1>7
<1>13. OffPool(w) /\ w \in S
  BY <1>7
<1>14. QED
  <2> HIDE DEF K
  <2>1. QED
    BY <1>9, <1>10, <1>11, <1>12, <1>13 DEF Quines

\* A set of jobs waits for itself through flights, joins and stacks only where
\* a thread off the pool, which may block whatever it owns, follows a flight
\* from within an archive that holds, however deep, a copy of itself: for any
\* threads, jobs and archives, and whatever the walks hand to the pool.  The
\* rules of who may wait on the pool are enough there.
THEOREM FlightCycles == Spec => []OnlyQuinesCycle
<1>1. QED
  BY CyclesAreQuines, Invariance, PTL

=============================================================================
