---------------------------- MODULE ScanMemGate ----------------------------
(***************************************************************************)
(* The memory admission gate of a parallel scan (src/scan_mem_gate.rs).    *)
(* A caller reserves an estimate of the memory its file will need before   *)
(* it analyses the file and gives the reservation back when its permit is  *)
(* dropped.  Amounts are in an arbitrary unit.                             *)
(*                                                                         *)
(* One critical section of the `reserved` mutex is one action.  The live   *)
(* memory reading and the clock are read before the mutex is taken, so the *)
(* value a caller decides on may be out of date: Read and Admit/Refuse are *)
(* separate actions and memory may change in between.                      *)
(***************************************************************************)
EXTENDS Integers, FiniteSets

CONSTANTS
    Callers,        \* the call frames that may ask for a reservation
    Sizes,          \* the file lengths that occur
    MemLevels,      \* the amounts of available memory the host may report
    Unknown,        \* the reading on a host that reports none (Option::None)
    TotalMemory,    \* total_memory() when the gate was built, or Unknown
    StartMemory,    \* available_memory() when the gate was built, or Unknown
    Expansion,      \* expansion(): multiplier of an archive's length
    FlatExpansion,  \* FLAT_EXPANSION: multiplier of a flat image's length
    MinEstimate,    \* MIN_ESTIMATE_BYTES
    LoneHeadroom,   \* LONE_HEADROOM_BYTES
    WordMax         \* usize::MAX

Hints == {"Unknown", "Flat"}

-----------------------------------------------------------------------------
(* Word arithmetic: usize and u64 have the same width here. *)

SatAdd(a, b) == IF a + b > WordMax THEN WordMax ELSE a + b
SatSub(a, b) == IF b > a THEN 0 ELSE a - b
SatMul(a, b) == IF a * b > WordMax THEN WordMax ELSE a * b
\* `*reserved += est` in a release build wraps.
WrapAdd(a, b) == IF a + b > WordMax THEN a + b - (WordMax + 1) ELSE a + b

AtLeast(a, b) == IF a >= b THEN a ELSE b    \* a.max(b)
AtMost(a, b)  == IF a <= b THEN a ELSE b    \* a.min(b)

-----------------------------------------------------------------------------
(* The limits fixed when the gate is built, and the estimate of a file. *)

\* A total of zero is treated as no answer.
KnownTotal == IF TotalMemory = 0 THEN Unknown ELSE TotalMemory

Capacity ==
    IF KnownTotal = Unknown THEN StartMemory
    ELSE IF StartMemory = Unknown THEN KnownTotal
    ELSE AtMost(KnownTotal, StartMemory)

FreeFloor ==
    IF Capacity = Unknown THEN 0 ELSE AtLeast(Capacity \div 4, LoneHeadroom)

Budget ==
    IF Capacity = Unknown THEN WordMax
    ELSE AtLeast(SatSub(Capacity, FreeFloor), MinEstimate)

estimate(size) ==
    AtMost(AtLeast(SatMul(size, Expansion), MinEstimate), Budget)

estimate_flat(size) ==
    AtMost(AtLeast(SatMul(size, FlatExpansion), MinEstimate), estimate(size))

Footprint(size, hint) ==
    IF hint = "Flat" THEN estimate_flat(size) ELSE estimate(size)

\* Whether `amount` of memory is available above the amount to keep free.
LeavesFree(amount, keep, mem) == mem # Unknown => SatAdd(amount, keep) <= mem

\* Wrong variants of fits, for the mutants: the aggregate ceiling left out,
\* the timed escape left out of the lone-file branch, and out of the ceiling.
fitsNoCeiling(resv, amount, forced, mem) ==
    IF resv = 0
    THEN LeavesFree(amount, LoneHeadroom, mem) \/ forced
    ELSE LeavesFree(amount, FreeFloor, mem)

fitsNoEscape(resv, amount, forced, mem) ==
    IF resv = 0
    THEN LeavesFree(amount, LoneHeadroom, mem)
    ELSE /\ LeavesFree(amount, FreeFloor, mem)
         /\ SatAdd(resv, amount) <= Budget \/ forced

fitsNoCeilingEscape(resv, amount, forced, mem) ==
    IF resv = 0
    THEN LeavesFree(amount, LoneHeadroom, mem) \/ forced
    ELSE /\ LeavesFree(amount, FreeFloor, mem)
         /\ SatAdd(resv, amount) <= Budget

fits(resv, amount, forced, mem) ==
    IF resv = 0
    THEN LeavesFree(amount, LoneHeadroom, mem) \/ forced
    ELSE /\ LeavesFree(amount, FreeFloor, mem)
         /\ SatAdd(resv, amount) <= Budget \/ forced

-----------------------------------------------------------------------------
ASSUME GateAssumption ==
    /\ IsFiniteSet(Callers)
    /\ Sizes \subseteq Nat
    /\ MemLevels \subseteq Nat \cup {Unknown}
    /\ MemLevels # {}
    /\ Unknown \notin Nat
    /\ TotalMemory \in Nat \cup {Unknown}
    /\ StartMemory \in Nat \cup {Unknown}
    /\ Expansion \in Nat \ {0}
    /\ FlatExpansion \in Nat \ {0}
    /\ MinEstimate \in Nat \ {0}
    /\ LoneHeadroom \in Nat
    /\ WordMax \in Nat
    /\ MinEstimate <= WordMax

\* Every caller can hold its largest estimate at once without `reserved`
\* overflowing.  A budget taken from real memory keeps the sum far below 2^64.
ASSUME NoOverflow ==
    \E most \in 0..WordMax :
        /\ Cardinality(Callers) * most <= WordMax
        /\ \A size \in Sizes : estimate(size) <= most

-----------------------------------------------------------------------------
VARIABLES
    reserved,   \* the Mutex<usize>
    available,  \* what available_memory() would return now
    pc,         \* where each caller is in acquire_hinted, or "holding"
    est,        \* its estimate
    overdue,    \* started.elapsed() >= FORCE_ADMIT_AFTER
    reading,    \* the memory reading of its current round, else Unknown
    force       \* the `force` of its current round; kept while it holds
                \* (locals that are dead are reset, to merge equal states)

gateVars == <<reserved, available, pc, est, overdue, reading, force>>

Waiting(c) == pc[c] \in {"read", "lock", "refused", "parked"}
Holding(c) == pc[c] = "holding"

Footprints == {Footprint(s, h) : s \in Sizes, h \in Hints}

GateTypeOK ==
    /\ reserved \in 0..WordMax
    /\ available \in MemLevels
    /\ pc \in [Callers ->
                {"idle", "read", "lock", "refused", "parked", "holding"}]
    /\ est \in [Callers -> Footprints \cup {0}]
    /\ overdue \in [Callers -> BOOLEAN]
    /\ reading \in [Callers -> MemLevels \cup {Unknown}]
    /\ force \in [Callers -> BOOLEAN]

GateInit ==
    /\ reserved = 0
    /\ available \in MemLevels
    /\ pc = [c \in Callers |-> "idle"]
    /\ est = [c \in Callers |-> 0]
    /\ overdue = [c \in Callers |-> FALSE]
    /\ reading = [c \in Callers |-> Unknown]
    /\ force = [c \in Callers |-> FALSE]

\* Enter acquire_hinted: the estimate is fixed and the clock starts.
Request(c, size, hint) ==
    /\ pc[c] = "idle"
    /\ pc' = [pc EXCEPT ![c] = "read"]
    /\ est' = [est EXCEPT ![c] = Footprint(size, hint)]
    /\ UNCHANGED <<reserved, available, overdue, reading, force>>

\* Top of the loop: read memory and the clock, before taking the lock.
Read(c) ==
    /\ pc[c] = "read"
    /\ pc' = [pc EXCEPT ![c] = "lock"]
    /\ reading' = [reading EXCEPT ![c] = available]
    /\ force' = [force EXCEPT ![c] = overdue[c]]
    /\ UNCHANGED <<reserved, available, est, overdue>>

\* Mutant: a forced admission is not counted, but will be released.
AdmitUncounted(c) ==
    /\ pc[c] = "lock"
    /\ fits(reserved, est[c], force[c], reading[c])
    /\ reserved' = IF force[c] THEN reserved ELSE WrapAdd(reserved, est[c])
    /\ pc' = [pc EXCEPT ![c] = "holding"]
    /\ reading' = [reading EXCEPT ![c] = Unknown]
    /\ overdue' = [overdue EXCEPT ![c] = FALSE]
    /\ UNCHANGED <<available, est, force>>

\* Under the lock, the estimate fits: reserve it and return a permit.
Admit(c) ==
    /\ pc[c] = "lock"
    /\ fits(reserved, est[c], force[c], reading[c])
    /\ reserved' = WrapAdd(reserved, est[c])
    /\ pc' = [pc EXCEPT ![c] = "holding"]
    /\ reading' = [reading EXCEPT ![c] = Unknown]
    /\ overdue' = [overdue EXCEPT ![c] = FALSE]
    /\ UNCHANGED <<available, est, force>>

\* Under the lock, it does not fit: drop the lock and look for other work.
Refuse(c) ==
    /\ pc[c] = "lock"
    /\ ~fits(reserved, est[c], force[c], reading[c])
    /\ pc' = [pc EXCEPT ![c] = "refused"]
    /\ reading' = [reading EXCEPT ![c] = Unknown]
    /\ force' = [force EXCEPT ![c] = FALSE]
    /\ UNCHANGED <<reserved, available, est, overdue>>

\* run_wait_work() ran a queued path on this thread: start the next round.
Resume(c) ==
    /\ pc[c] = "refused"
    /\ pc' = [pc EXCEPT ![c] = "read"]
    /\ UNCHANGED <<reserved, available, est, overdue, reading, force>>

\* run_wait_work() found nothing to run: wait on the condition variable.
Park(c) ==
    /\ pc[c] = "refused"
    /\ pc' = [pc EXCEPT ![c] = "parked"]
    /\ UNCHANGED <<reserved, available, est, overdue, reading, force>>

\* wait_timeout returns: a notification, POLL_INTERVAL passed, or spuriously.
Wake(c) ==
    /\ pc[c] = "parked"
    /\ pc' = [pc EXCEPT ![c] = "read"]
    /\ UNCHANGED <<reserved, available, est, overdue, reading, force>>

\* The permit is dropped.  notify_all needs no step: see Wake.
Release(c) ==
    /\ pc[c] = "holding"
    /\ reserved' = SatSub(reserved, est[c])
    /\ pc' = [pc EXCEPT ![c] = "idle"]
    /\ est' = [est EXCEPT ![c] = 0]
    /\ force' = [force EXCEPT ![c] = FALSE]
    /\ UNCHANGED <<available, overdue, reading>>

\* FORCE_ADMIT_AFTER has passed since the caller entered.
TimePasses(c) ==
    /\ Waiting(c)
    /\ ~overdue[c]
    /\ overdue' = [overdue EXCEPT ![c] = TRUE]
    /\ UNCHANGED <<reserved, available, pc, est, reading, force>>

\* The host's available memory changes: other processes, and our own.
MemoryChanges ==
    /\ \E level \in MemLevels \ {available} : available' = level
    /\ UNCHANGED <<reserved, pc, est, overdue, reading, force>>

GateStep(c) ==
    \/ Read(c) \/ Admit(c) \/ Refuse(c) \/ Wake(c)

GateNext ==
    \/ \E c \in Callers :
        \/ \E size \in Sizes, hint \in Hints : Request(c, size, hint)
        \/ GateStep(c)
        \/ Resume(c)
        \/ Park(c)
        \/ Release(c)
        \/ TimePasses(c)
    \/ MemoryChanges

GateSpec == GateInit /\ [][GateNext]_gateVars

-----------------------------------------------------------------------------
(* Properties.  A reservation is counted in units, one element per unit, so *)
(* that totals are cardinalities.                                           *)

UnitsOf(S) ==
    {u \in S \X (1..Budget) : Holding(u[1]) /\ u[2] <= est[u[1]]}

\* `reserved` is exactly the sum of the estimates of the permits alive: a
\* release gives back what its acquire took, in whatever order they happen,
\* and the saturating subtraction of release() never truncates.
Accounting == reserved = Cardinality(UnitsOf(Callers))

\* The aggregate ceiling: permits granted without the timed escape never
\* amount to more than the budget, whatever memory readings they were
\* granted on.
CeilingHolds ==
    Cardinality(UnitsOf({c \in Callers : ~force[c]})) <= Budget

=============================================================================
