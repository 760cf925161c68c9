---------------------------- MODULE SingleFlight ----------------------------
(***************************************************************************)
(* In-process single flight of identical archive members                   *)
(* (src/analysis_cache.rs, ReportFlight; used by analyze_extracted_member  *)
(* in src/analyzers/archive/analyzers/member.rs).                          *)
(*                                                                         *)
(* A job analyses one member.  The first job with a key becomes the owner  *)
(* of a flight; later ones follow it: they wait for the owner's report or  *)
(* analyse on their own.  Threads run jobs on a stack: a pool thread that  *)
(* waits for a join steals any pending job and runs it on top of the one   *)
(* it is in, and so a wait may sit on top of the very analysis that could  *)
(* end it.  The rules about who may wait are there to prevent that.        *)
(*                                                                         *)
(* A job owns at most one flight, so the flight is named after it.         *)
(***************************************************************************)
EXTENDS Integers, Sequences, FiniteSets

CONSTANTS
    Threads,     \* threads that run jobs
    Pool,        \* those that are workers of the scan pool
    Jobs,        \* member analyses
    Keys,        \* flight keys: kind, hash, options and rules revision
    KeyOf,       \* the key of each job
    Parent,      \* the job whose analysis unpacks this one, or None
    Lane,        \* the thread the job's archive is analysed on
    Pulled,      \* jobs of paths a lane pulls while it waits
    Fanouts,     \* the sets of members that walks may hand to the pool
    Small,       \* keys below FLIGHT_WAIT_MIN_BYTES
    Isolated,    \* keys analysed on an exclusive leaf pool
    None         \* no job

Children(j) == {c \in Jobs : Parent[c] = j}

\* An archive of the one key holds a member of the other.
Holds(k, l) == \E j \in Jobs :
    Parent[j] # None /\ KeyOf[Parent[j]] = k /\ KeyOf[j] = l

\* cap: half the pool, and never its last two workers.
WaiterCap ==
    LET workers == Cardinality(Pool)
        half == workers \div 2
    IN  IF workers < 2 THEN 0 ELSE IF half < workers - 2 THEN half ELSE workers - 2

ASSUME FlightAssumption ==
    /\ Pool \subseteq Threads
    /\ IsFiniteSet(Pool)
    /\ IsFiniteSet(Jobs)
    /\ None \notin Jobs
    /\ KeyOf \in [Jobs -> Keys]
    /\ Parent \in [Jobs -> Jobs \cup {None}]
    /\ Lane \in [Jobs -> Threads]
    /\ Pulled \subseteq Jobs
    \* A lane pulls a whole path, and so its top-level members.
    /\ \A j \in Pulled : Parent[j] = None
    \* A walk hands over all its members, some of them or none, as the load of
    \* the scan, the memory and their number tell it.
    /\ Fanouts \subseteq SUBSET (Jobs \ Pulled)
    /\ Small \subseteq Keys
    /\ Isolated \subseteq Keys
    \* A source file on a leaf pool has no members.
    /\ \A j \in Jobs : KeyOf[j] \in Isolated => Children(j) = {}

VARIABLES
    fanned,     \* the members that are handed to the pool, chosen once
    stack,      \* the jobs on each thread's stack, the running one last
    at,         \* where each job is
    handle,     \* the flight its ReportFlight refers to (an Arc), or None
    inFlight,   \* IN_FLIGHT: for each key a Weak reference to a flight
    done,       \* FlightResult.done of each flight
    report,     \* FlightResult.report.is_some()
    isolated,   \* FlightState.isolated_owner
    owned,      \* OWNED_FLIGHTS of each thread
    depth,      \* MEMBER_ANALYSIS_DEPTH of each thread
    waiters     \* WAITERS

vars == <<fanned, stack, at, handle, inFlight, done, report, isolated, owned, depth,
          waiters>>

(* new        not started                                                  *)
(* lookup     about to look into the caches and acquire the flight          *)
(* follow     follower, deciding what to do                                 *)
(* counted    waiting in wait_yielding, counted in WAITERS                  *)
(* exempt     waiting in wait_yielding inside a pulled path, not counted    *)
(* blocked    waiting on the condition variable                             *)
(* uncount    over the waiter cap: about to take its count back             *)
(* indep      analysing on its own                                          *)
(* own        analysing as owner                                            *)
(* okDone     owner, analysed: about to complete() with a report            *)
(* errDone    owner, analysed: about to complete() without                  *)
(* unwind     owner whose analysis panicked: about to drop the flight       *)
(* publishOk  complete(): waiters exist, about to publish the report        *)
(* publishErr complete(): waiters exist, about to publish that there is none*)
(* remove     published: about to remove the flight from the map            *)
Yielding == {"counted", "exempt"}
Waits == Yielding \cup {"blocked"}
Owning == {"own", "okDone", "errDone", "unwind", "publishOk", "publishErr",
           "remove"}
Working == {"own", "indep"}
Finished == {"ended"}
States == {"new", "lookup", "follow", "uncount", "indep"}
            \cup Waits \cup Owning \cup Finished

TypeOK ==
    /\ fanned \in Fanouts
    /\ stack \in [Threads -> Seq(Jobs)]
    /\ at \in [Jobs -> States]
    /\ handle \in [Jobs -> Jobs \cup {None}]
    /\ inFlight \in [Keys -> Jobs \cup {None}]
    /\ done \in [Jobs -> BOOLEAN]
    /\ report \in [Jobs -> BOOLEAN]
    /\ isolated \in [Jobs -> BOOLEAN]
    /\ owned \in [Threads -> Nat]
    /\ depth \in [Threads -> Nat]
    /\ waiters \in Nat

Init ==
    /\ fanned \in Fanouts
    /\ stack = [t \in Threads |-> <<>>]
    /\ at = [j \in Jobs |-> "new"]
    /\ handle = [j \in Jobs |-> None]
    /\ inFlight = [k \in Keys |-> None]
    /\ done = [j \in Jobs |-> FALSE]
    /\ report = [j \in Jobs |-> FALSE]
    /\ isolated = [j \in Jobs |-> FALSE]
    /\ owned = [t \in Threads |-> 0]
    /\ depth = [t \in Threads |-> 0]
    /\ waiters = 0

-----------------------------------------------------------------------------
(* The stack of a thread. *)

Idle(t) == stack[t] = <<>>
Top(t) == stack[t][Len(stack[t])]
Runs(t, j) == ~Idle(t) /\ Top(t) = j
OnStack(t) == {stack[t][i] : i \in 1..Len(stack[t])}

\* The strong references to a flight (Arc::strong_count).
Refs(f) == {j \in Jobs : handle[j] = f}

\* saturating_sub(1) on the thread-local counts.
Less(n) == IF n > 0 THEN n - 1 ELSE 0

\* The job moves on; a return takes it off the stack.
Goto(j, s) == at' = [at EXCEPT ![j] = s]
Return(t, j) ==
    /\ Goto(j, "ended")
    /\ stack' = [stack EXCEPT ![t] = SubSeq(@, 1, Len(@) - 1)]

Push(t, j) ==
    /\ at[j] = "new"
    /\ Goto(j, "lookup")
    /\ stack' = [stack EXCEPT ![t] = Append(@, j)]
    /\ UNCHANGED <<fanned, handle, inFlight, done, report, isolated, owned,
                   depth, waiters>>

\* A job can be taken once the analysis that unpacks it runs.
Pending(j) == Parent[j] # None => at[Parent[j]] \in Working

\* The members the walk of j's archive, or of j's path, has in hand besides j.
InHand(j) ==
    {c \in Jobs \ {j} :
        /\ Parent[c] = Parent[j] /\ Lane[c] = Lane[j]
        /\ c \in Pulled <=> j \in Pulled
        /\ at[c] \notin {"new"} \cup Finished}

\* A lane analyses its own paths, and any lane may take a path that none pulled.
Lanes == {Lane[j] : j \in Jobs}
OnLane(t, j) == IF j \in Pulled THEN t \in Lanes ELSE Lane[j] = t

\* The serial walk: a lane analyses the members of its archive one by one, and
\* those of the next path of the scan once it is idle; a member that is an
\* archive is walked the same way, on top of its analysis.
RunOwn(t, j) ==
    /\ j \notin fanned
    /\ Pending(j)
    /\ IF Parent[j] = None THEN Idle(t) /\ OnLane(t, j)
                           ELSE Runs(t, Parent[j])
    /\ InHand(j) = {}
    /\ Push(t, j)

\* The fan-out, over rayon::join and par_iter: only workers of the pool run the
\* members.  A worker takes one when it has nothing else to do, or from within
\* a join: over its own archive's members, or inside an analysis on the scan
\* pool.  A thread off the pool that fans out blocks until they are done.
Steal(t, j) ==
    /\ t \in Pool
    /\ j \in fanned
    /\ Pending(j)
    /\ InHand(j) \subseteq fanned
    /\ ~Idle(t) => at[Top(t)] \in Working /\ KeyOf[Top(t)] \notin Isolated
    /\ Push(t, j)

\* rayon::yield_local in wait_yielding: another member of the lane's archive.
YieldLocal(t, j) ==
    /\ ~Idle(t)
    /\ at[Top(t)] \in Yielding
    /\ j \in fanned
    /\ Parent[j] = None
    /\ Lane[j] = t
    /\ Push(t, j)

\* Whether the thread is inside a path it pulled: in_wait_work().
InWaitWork(t) == \E i \in 2..Len(stack[t]) : stack[t][i] \in Pulled

\* run_wait_work in wait_yielding: a member of the path this lane pulls.
PullPath(t, j) ==
    /\ ~Idle(t)
    /\ at[Top(t)] \in Yielding
    /\ ~InWaitWork(t)
    /\ j \in Pulled
    /\ Push(t, j)

-----------------------------------------------------------------------------
(* analyze_extracted_member *)

\* A cached report ends the job before it touches a flight; reports of archives
\* are not kept.
CacheHit(t, j) ==
    /\ Runs(t, j)
    /\ at[j] = "lookup"
    /\ \A l \in Keys : ~Holds(KeyOf[j], l)
    /\ Return(t, j)
    /\ UNCHANGED <<handle, inFlight, done, report, isolated, owned, depth,
                   waiters>>

\* acquire_flight, under the map lock.  The entry counts only if its Weak
\* reference still upgrades.
Join(t, j) ==
    /\ Runs(t, j)
    /\ at[j] = "lookup"
    /\ inFlight[KeyOf[j]] # None
    /\ Refs(inFlight[KeyOf[j]]) # {}
    /\ handle' = [handle EXCEPT ![j] = inFlight[KeyOf[j]]]
    /\ Goto(j, "follow")
    /\ UNCHANGED <<stack, inFlight, done, report, isolated, owned, depth,
                   waiters>>

\* Mutant: the owner is inserted without looking for a flight first.
BecomeOwnerBlindly(t, j) ==
    /\ Runs(t, j)
    /\ at[j] = "lookup"
    /\ inFlight' = [inFlight EXCEPT ![KeyOf[j]] = j]
    /\ handle' = [handle EXCEPT ![j] = j]
    /\ owned' = [owned EXCEPT ![t] = @ + 1]
    /\ depth' = [depth EXCEPT ![t] = @ + 1]
    /\ Goto(j, "own")
    /\ UNCHANGED <<stack, done, report, isolated, waiters>>

BecomeOwner(t, j) ==
    /\ Runs(t, j)
    /\ at[j] = "lookup"
    /\ inFlight[KeyOf[j]] # None => Refs(inFlight[KeyOf[j]]) = {}
    /\ inFlight' = [inFlight EXCEPT ![KeyOf[j]] = j]
    /\ handle' = [handle EXCEPT ![j] = j]
    /\ owned' = [owned EXCEPT ![t] = @ + 1]
    /\ depth' = [depth EXCEPT ![t] = @ + 1]
    /\ Goto(j, "own")
    /\ UNCHANGED <<stack, done, report, isolated, waiters>>

\* member_may_wait: a top-level member, on its archive's lane, with no member
\* analysis below it on the stack.
MayWait(t, j) ==
    /\ Parent[j] = None
    /\ depth[t] = 0
    /\ Lane[j] = t \/ j \in Pulled

\* can_wait_for_isolated_owner
IsolatedWait(t, j) == owned[t] = 0 /\ isolated[handle[j]]

\* run_independently: give the handle back first, then analyse.
Independently(t, j) ==
    /\ handle' = [handle EXCEPT ![j] = None]
    /\ depth' = [depth EXCEPT ![t] = @ + 1]
    /\ Goto(j, "indep")

\* A follower on the pool that must not wait, or whose member is too small to.
DeclineToWait(t, j) ==
    /\ Runs(t, j)
    /\ at[j] = "follow"
    /\ t \in Pool
    /\ \/ ~IsolatedWait(t, j) /\ (owned[t] > 0 \/ ~MayWait(t, j))
       \/ KeyOf[j] \in Small
    /\ Independently(t, j)
    /\ UNCHANGED <<stack, inFlight, done, report, isolated, owned, waiters>>

\* wait_isolated and, off the pool, wait_bounded block on the condition.
Block(t, j) ==
    /\ Runs(t, j)
    /\ at[j] = "follow"
    /\ t \in Pool => IsolatedWait(t, j) /\ KeyOf[j] \notin Small
    /\ Goto(j, "blocked")
    /\ UNCHANGED <<stack, handle, inFlight, done, report, isolated, owned,
                   depth, waiters>>

\* Mutant: any follower on the pool may wait, whatever its thread holds.
PoolMayWaitAlways(t, j) ==
    /\ t \in Pool
    /\ ~IsolatedWait(t, j)
    /\ KeyOf[j] \notin Small

PoolMayWait(t, j) ==
    /\ t \in Pool
    /\ ~IsolatedWait(t, j)
    /\ owned[t] = 0
    /\ MayWait(t, j)
    /\ KeyOf[j] \notin Small

\* Mutant: one waiter too many.
CountInLate(t, j) ==
    /\ Runs(t, j)
    /\ at[j] = "follow"
    /\ PoolMayWait(t, j)
    /\ ~InWaitWork(t)
    /\ waiters' = waiters + 1
    /\ Goto(j, IF waiters > WaiterCap THEN "uncount" ELSE "counted")
    /\ UNCHANGED <<stack, handle, inFlight, done, report, isolated, owned,
                   depth>>

\* The fetch_add on WAITERS: counted in, or over the cap.
CountIn(t, j) ==
    /\ Runs(t, j)
    /\ at[j] = "follow"
    /\ PoolMayWait(t, j)
    /\ ~InWaitWork(t)
    /\ waiters' = waiters + 1
    /\ Goto(j, IF waiters >= WaiterCap THEN "uncount" ELSE "counted")
    /\ UNCHANGED <<stack, handle, inFlight, done, report, isolated, owned,
                   depth>>

\* A job of a pulled path waits without being counted.
WaitExempt(t, j) ==
    /\ Runs(t, j)
    /\ at[j] = "follow"
    /\ PoolMayWait(t, j)
    /\ InWaitWork(t)
    /\ Goto(j, "exempt")
    /\ UNCHANGED <<stack, handle, inFlight, done, report, isolated, owned,
                   depth, waiters>>

\* Over the cap: take the count back and analyse independently.
OverCap(t, j) ==
    /\ Runs(t, j)
    /\ at[j] = "uncount"
    /\ waiters' = waiters - 1
    /\ Independently(t, j)
    /\ UNCHANGED <<stack, inFlight, done, report, isolated, owned>>

\* The end of a wait takes the job out of WAITERS if it was counted there.
EndWait(j) == waiters' = IF at[j] = "counted" THEN waiters - 1 ELSE waiters

\* The wait sees the owner's report and adopts it ...
Adopt(t, j) ==
    /\ Runs(t, j)
    /\ at[j] \in Waits
    /\ done[handle[j]] /\ report[handle[j]]
    /\ EndWait(j)
    /\ handle' = [handle EXCEPT ![j] = None]
    /\ Return(t, j)
    /\ UNCHANGED <<inFlight, done, report, isolated, owned, depth>>

\* ... or finds it bound to the owner's path, ...
PathBound(t, j) ==
    /\ Runs(t, j)
    /\ at[j] \in Waits
    /\ done[handle[j]] /\ report[handle[j]]
    /\ EndWait(j)
    /\ Independently(t, j)
    /\ UNCHANGED <<stack, inFlight, done, report, isolated, owned>>

\* ... or learns that the owner failed, and starts over.
Retry(t, j) ==
    /\ Runs(t, j)
    /\ at[j] \in Waits
    /\ done[handle[j]] /\ ~report[handle[j]]
    /\ EndWait(j)
    /\ handle' = [handle EXCEPT ![j] = None]
    /\ Goto(j, "lookup")
    /\ UNCHANGED <<stack, inFlight, done, report, isolated, owned, depth>>

\* The deadline passes first.
GiveUp(t, j) ==
    /\ Runs(t, j)
    /\ at[j] \in Waits
    /\ ~done[handle[j]]
    /\ EndWait(j)
    /\ Independently(t, j)
    /\ UNCHANGED <<fanned, stack, inFlight, done, report, isolated, owned>>

\* The owner marks its flight once it runs on the leaf pool.
MarkIsolated(t, j) ==
    /\ Runs(t, j)
    /\ at[j] = "own"
    /\ KeyOf[j] \in Isolated
    /\ ~isolated[j]
    /\ isolated' = [isolated EXCEPT ![j] = TRUE]
    /\ UNCHANGED <<stack, at, handle, inFlight, done, report, owned, depth,
                   waiters>>

\* An analysis ends when the members it unpacked are done.  One that fails may
\* not have come to all of them.
ChildrenDone(j) == \A c \in Children(j) : at[c] \in Finished
NoChildRuns(j) == \A c \in Children(j) : at[c] \in Finished \cup {"new"}

EndIndependent(t, j) ==
    /\ Runs(t, j)
    /\ at[j] = "indep"
    /\ depth' = [depth EXCEPT ![t] = Less(@)]
    /\ NoChildRuns(j)
    /\ Return(t, j)
    /\ UNCHANGED <<handle, inFlight, done, report, isolated, owned, waiters>>

\* ... with a report, an error, or a panic that unwinds through the flight.
EndOwned(t, j) ==
    /\ Runs(t, j)
    /\ at[j] = "own"
    /\ depth' = [depth EXCEPT ![t] = Less(@)]
    /\ \/ ChildrenDone(j) /\ Goto(j, "okDone")
       \/ NoChildRuns(j) /\ \E s \in {"errDone", "unwind"} : Goto(j, s)
    /\ UNCHANGED <<stack, handle, inFlight, done, report, isolated, owned,
                   waiters>>

-----------------------------------------------------------------------------
(* ReportFlight::complete and Drop for ReportFlight *)

Observed(j) == Refs(j) # {j} \/ inFlight[KeyOf[j]] # j

\* Mutant: the strong count was read before the map lock was taken.
RetireRacing(t, j) ==
    /\ Runs(t, j)
    /\ at[j] \in {"okDone", "errDone"}
    /\ inFlight[KeyOf[j]] = j
    /\ inFlight' = [inFlight EXCEPT ![KeyOf[j]] = None]
    /\ handle' = [handle EXCEPT ![j] = None]
    /\ owned' = [owned EXCEPT ![t] = Less(@)]
    /\ Return(t, j)
    /\ UNCHANGED <<done, report, isolated, depth, waiters>>

\* release_unobserved_flight, under the map lock: nobody can read a result.
Retire(t, j) ==
    /\ Runs(t, j)
    /\ at[j] \in {"okDone", "errDone"}
    /\ ~Observed(j)
    /\ inFlight' = [inFlight EXCEPT ![KeyOf[j]] = None]
    /\ handle' = [handle EXCEPT ![j] = None]
    /\ owned' = [owned EXCEPT ![t] = Less(@)]
    /\ Return(t, j)
    /\ UNCHANGED <<done, report, isolated, depth, waiters>>

\* Someone follows the flight: take the publishing path.
KeepForWaiters(t, j) ==
    /\ Runs(t, j)
    /\ at[j] \in {"okDone", "errDone"}
    /\ Observed(j)
    /\ Goto(j, IF at[j] = "okDone" THEN "publishOk" ELSE "publishErr")
    /\ UNCHANGED <<stack, handle, inFlight, done, report, isolated, owned,
                   depth, waiters>>

\* Mutant: a flight that is dropped in a panic sets no result.
PublishNoPanic(t, j) ==
    /\ Runs(t, j)
    /\ at[j] \in {"publishOk", "publishErr", "unwind"}
    /\ done' = [done EXCEPT ![j] = (at[j] # "unwind")]
    /\ report' = [report EXCEPT ![j] = (at[j] = "publishOk")]
    /\ Goto(j, "remove")
    /\ UNCHANGED <<stack, handle, inFlight, isolated, owned, depth, waiters>>

\* Under the result lock: set the result and wake the waiters.  A flight that
\* is dropped in a panic publishes that there is no report.
Publish(t, j) ==
    /\ Runs(t, j)
    /\ at[j] \in {"publishOk", "publishErr", "unwind"}
    /\ done' = [done EXCEPT ![j] = TRUE]
    /\ report' = [report EXCEPT ![j] = (at[j] = "publishOk")]
    /\ Goto(j, "remove")
    /\ UNCHANGED <<stack, handle, inFlight, isolated, owned, depth, waiters>>

\* Mutant: the flight stays in the map.
RemoveNothing(t, j) ==
    /\ Runs(t, j)
    /\ at[j] = "remove"
    /\ handle' = [handle EXCEPT ![j] = None]
    /\ owned' = [owned EXCEPT ![t] = Less(@)]
    /\ Return(t, j)
    /\ UNCHANGED <<inFlight, done, report, isolated, depth, waiters>>

\* Mutant: a flight that published keeps its thread marked as an owner.
RemoveStillOwning(t, j) ==
    /\ Runs(t, j)
    /\ at[j] = "remove"
    /\ inFlight' = IF inFlight[KeyOf[j]] = j
                   THEN [inFlight EXCEPT ![KeyOf[j]] = None]
                   ELSE inFlight
    /\ handle' = [handle EXCEPT ![j] = None]
    /\ Return(t, j)
    /\ UNCHANGED <<owned, done, report, isolated, depth, waiters>>

\* remove_flight, under the map lock, then the owner drops its handle.
Remove(t, j) ==
    /\ Runs(t, j)
    /\ at[j] = "remove"
    /\ inFlight' = IF inFlight[KeyOf[j]] = j
                   THEN [inFlight EXCEPT ![KeyOf[j]] = None]
                   ELSE inFlight
    /\ handle' = [handle EXCEPT ![j] = None]
    /\ owned' = [owned EXCEPT ![t] = Less(@)]
    /\ Return(t, j)
    /\ UNCHANGED <<done, report, isolated, depth, waiters>>

-----------------------------------------------------------------------------
Starts(t, j) == RunOwn(t, j) \/ Steal(t, j) \/ YieldLocal(t, j) \/ PullPath(t, j)

Step(t, j) ==
    /\ UNCHANGED fanned
    /\ \/ CacheHit(t, j) \/ Join(t, j) \/ BecomeOwner(t, j)
       \/ DeclineToWait(t, j) \/ Block(t, j) \/ CountIn(t, j)
       \/ WaitExempt(t, j) \/ OverCap(t, j)
       \/ Adopt(t, j) \/ PathBound(t, j) \/ Retry(t, j)
       \/ MarkIsolated(t, j)
       \/ EndIndependent(t, j) \/ EndOwned(t, j)
       \/ Retire(t, j) \/ KeepForWaiters(t, j) \/ Publish(t, j) \/ Remove(t, j)

\* All is done when nothing runs and the top-level members are finished.  A
\* nested one stays new when its archive was cached, adopted or failed.
AllDone ==
    \A j \in Jobs : at[j] \in Finished \/ (at[j] = "new" /\ Parent[j] # None)

Next ==
    \/ \E t \in Threads, j \in Jobs :
        Starts(t, j) \/ Step(t, j) \/ GiveUp(t, j)
    \/ AllDone /\ UNCHANGED vars

Spec == Init /\ [][Next]_vars

(* A thread goes on with what it runs and with its serial walk, and a worker *)
(* of the pool that has nothing to do takes up what is handed over (rayon     *)
(* wakes it).  Nothing is assumed of a worker in a join or in a wait: it may  *)
(* never take up another member.  GiveUp is not fair: the waits must end      *)
(* through the owners, not through their deadlines.                           *)
GoesOn(t, j) ==
    \/ Runs(t, j) /\ Step(t, j)
    \/ RunOwn(t, j)
    \/ Idle(t) /\ Steal(t, j)

Fairness == \A t \in Threads : WF_vars(\E j \in Jobs : GoesOn(t, j))

FairSpec == Spec /\ Fairness

-----------------------------------------------------------------------------
(* Properties *)

\* A flight that a caller could join is alive: the Weak reference in the map
\* upgrades, and its owner has not returned.
MapHoldsLiveFlights ==
    \A k \in Keys :
        inFlight[k] # None =>
            /\ handle[inFlight[k]] = inFlight[k]
            /\ at[inFlight[k]] \in Owning

\* Nobody waits for a result that will never come: the owner of a flight with
\* a follower has published, or is still on its way to publish.  In particular
\* complete() never retires a flight somebody has joined.
NoOrphanFollower ==
    \A j \in Jobs :
        at[j] \in Waits \cup {"follow", "uncount"} =>
            \/ done[handle[j]]
            \/ at[handle[j]] \in Owning \ {"remove"}

\* Single flight: a key has at most one owner at a time, from the moment it
\* finds no flight in the map until it has taken its own out.
OneOwnerPerKey ==
    \A i, j \in Jobs :
        KeyOf[i] = KeyOf[j] /\ at[i] \in Owning /\ at[j] \in Owning => i = j

\* The thread-local count of owned flights and the member depth, on which the
\* decision to wait rests, are those of the thread's stack; WAITERS is the
\* number of jobs that count themselves in.
CountsExact ==
    /\ \A t \in Threads :
        /\ owned[t] = Cardinality({j \in OnStack(t) : at[j] \in Owning})
        /\ depth[t] = Cardinality({j \in OnStack(t) : at[j] \in Working})
    /\ waiters = Cardinality({j \in Jobs : at[j] \in {"counted", "uncount"}})

\* At most WaiterCap pool threads sit in a counted wait, so that an owner's
\* nested work finds a free worker.
WaitersCapped == Cardinality({j \in Jobs : at[j] = "counted"}) <= WaiterCap

\* What has to happen before job i can go on: a follower needs the owner of
\* its flight, an analysis needs the members it unpacked, and every job needs
\* the one that runs on top of it.
Needs(i, j) ==
    \/ at[i] \in Waits /\ ~done[handle[i]] /\ j = handle[i]
    \/ at[i] \in Working /\ Parent[j] = i /\ at[j] \notin Finished \cup {"new"}
    \/ \E t \in Threads : \E n \in 1..Len(stack[t]) - 1 :
        stack[t][n] = i /\ stack[t][n + 1] = j

\* A set of jobs that waits for itself, through flights, joins and stacks.
WaitsForItself(S) == S # {} /\ \A i \in S : \E j \in S : Needs(i, j)
Needy == {i \in Jobs : \E j \in Jobs : Needs(i, j)}

OffPool(i) == \E t \in Threads \ Pool : i \in OnStack(t)

\* Archives each of which holds one of them, so that one holds itself.
Quines(K) == K # {} /\ \A k \in K : \E l \in K : Holds(k, l)

\* "Any wait cycle this design has not foreseen": there is one.  A thread off
\* the pool may wait whatever it owns, and so an archive that holds a copy of
\* itself, analysed off the pool, waits for its own flight until the deadline.
\* No set of jobs waits for itself in any other way.
OnlyQuinesCycle ==
    \A S \in SUBSET Needy :
        WaitsForItself(S) =>
            /\ \E i \in S : OffPool(i) /\ at[i] = "blocked"
            /\ \E K \in SUBSET {KeyOf[i] : i \in {x \in S : OffPool(x)}} : Quines(K)

\* Every job ends although no deadline ever passes, unless a thread off the
\* pool waits for a flight of its own.
OwnWait ==
    \E t \in Threads \ Pool :
        ~Idle(t) /\ at[Top(t)] = "blocked" /\ handle[Top(t)] \in OnStack(t)
EveryJobEnds == <>(AllDone \/ OwnWait)
=============================================================================
