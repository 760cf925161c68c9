---------------------------- MODULE OrderedScan ----------------------------
(***************************************************************************)
(* A parallel scan of a list of paths (src/scan.rs, with the wait-time     *)
(* work of src/rayon_nest.rs), composed with the memory gate.              *)
(*                                                                         *)
(* Lanes take paths from the list in order.  A lane that would idle, in    *)
(* the gate or in a single-flight wait inside an analysis, may analyse one *)
(* more path on top of its stack, never a second one.  A lane therefore    *)
(* has two call frames, "own" and "pulled", and each is a caller of the    *)
(* gate.                                                                   *)
(*                                                                         *)
(* Lanes are jobs of the rayon pool, not threads.  A thread that waits in  *)
(* a join of an analysis may take up any job: a lane that has not started, *)
(* or a piece of another analysis.  A frame can therefore hold up others:  *)
(* those suspended below it on its thread, and analyses of which its       *)
(* thread was executing a piece.  `beneath` records them; they keep their  *)
(* permits meanwhile.                                                      *)
(***************************************************************************)
EXTENDS ScanMemGate, Sequences

CONSTANTS
    Lanes,           \* the pull loops: min(pool threads, paths), or one
    NumFiles,        \* items.len()
    FileSize,        \* length of each file, in list order
    FileHint,        \* footprint_hint of each file
    Filtered,        \* files the size and program-type filters skip
    CallbackPanics   \* whether the caller's callback may panic

Files == 1..NumFiles

ASSUME ScanAssumption ==
    /\ NumFiles \in Nat
    /\ Lanes # {}
    /\ Callers = Lanes \X {"own", "pulled"}
    /\ FileSize \in [Files -> Sizes]
    /\ FileHint \in [Files -> Hints]
    /\ Filtered \subseteq Files
    /\ CallbackPanics \in BOOLEAN

VARIABLES
    beneath,     \* for each frame, those that cannot go on before it is done
    nested,      \* lanes started on a thread that is inside a pulled path
                 \* (WAIT_WORK_DEPTH > 0)
    next,        \* the shared index; every value past the list is NumFiles + 1
    pending,     \* TOPLEVEL_PENDING, to which this scan alone contributes
    lane,        \* each lane: "start", "loop" or "done"
    job,         \* the file each frame analyses, or 0
    stage,       \* where the frame is in analyze_one_path
    analyzed,    \* the three counters
    skipped,
    errors,
    events,      \* results delivered to the callback for each file
    cancelled,   \* options.cancellation
    finished     \* for_each_ordered has returned

stackVars == <<beneath, nested>>
scanVars == <<stackVars, next, pending, lane, job, stage, analyzed, skipped, errors,
              events, cancelled, finished>>
vars == <<gateVars, scanVars>>

Own(l) == <<l, "own">>
Pulled(l) == <<l, "pulled">>

Stages == {"none", "pulled", "check", "gate", "filter", "run",
           "reportOk", "reportErr", "panicked", "leave"}

ScanTypeOK ==
    /\ GateTypeOK
    /\ beneath \in [Callers -> SUBSET Callers]
    /\ nested \in SUBSET Lanes
    /\ next \in 1..NumFiles + 1
    /\ pending \in 0..NumFiles
    /\ lane \in [Lanes -> {"start", "loop", "done"}]
    /\ job \in [Callers -> 0..NumFiles]
    /\ stage \in [Callers -> Stages]
    /\ analyzed \in Nat /\ skipped \in Nat /\ errors \in Nat
    /\ events \in [Files -> Seq({"ok", "err"})]
    /\ cancelled \in BOOLEAN
    /\ finished \in BOOLEAN

ScanInit ==
    /\ GateInit
    /\ beneath = [f \in Callers |-> {}]
    /\ nested = {}
    /\ next = 1
    /\ pending = NumFiles
    /\ lane = [l \in Lanes |-> "start"]
    /\ job = [f \in Callers |-> 0]
    /\ stage = [f \in Callers |-> "none"]
    /\ analyzed = 0 /\ skipped = 0 /\ errors = 0
    /\ events = [i \in Files |-> <<>>]
    /\ cancelled = FALSE
    /\ finished = FALSE

-----------------------------------------------------------------------------
(* Stacks and helpers.                                                      *)

\* Nothing holds frame f up: it is the top of its thread's stack, and no piece
\* of it is left on another thread below a frame that has yet to finish.
Running(f) == \A g \in Callers : f \notin beneath[g]

\* The analyses that may have handed pieces of themselves to the pool.
Analysing == {g \in Callers : stage[g] = "run"}

\* Frame f starts on top of the frames in B.
PutOn(f, B) ==
    beneath' = [beneath EXCEPT ![f] = B \cup UNION {beneath[g] : g \in B}]

\* A pulled frame is done with its path; a lane's own frame stays for the next.
PopPulled(f) ==
    beneath' = [beneath EXCEPT ![f] = IF f = Own(f[1]) THEN @ ELSE {}]

\* Move frame f of analyze_one_path to stage s.
Goto(f, s) == stage' = [stage EXCEPT ![f] = s]

\* A lane job starts on a thread that is idle, or that was executing pieces of
\* some analyses and no lane.
StartLane(l) ==
    /\ lane[l] = "start"
    /\ lane' = [lane EXCEPT ![l] = "loop"]
    /\ \E helped \in SUBSET Analysing : PutOn(Own(l), helped)
    /\ UNCHANGED <<gateVars, nested, next, pending, job, stage, analyzed,
                   skipped, errors, events, cancelled, finished>>

\* Frame f, in a join of its analysis or of pieces it helps with meanwhile, takes
\* up a lane job that has not started.
StealLane(l, f) ==
    /\ lane[l] = "start"
    /\ f \in Analysing /\ Running(f)
    /\ lane' = [lane EXCEPT ![l] = "loop"]
    /\ \E helped \in SUBSET Analysing : PutOn(Own(l), {f} \cup helped)
    /\ nested' = IF f = Pulled(f[1]) \/ f[1] \in nested
                 THEN nested \cup {l} ELSE nested
    /\ UNCHANGED <<gateVars, next, pending, job, stage, analyzed, skipped,
                   errors, events, cancelled, finished>>

\* Mutant: a pulled path is looked at but not taken from the list.
TakeNextPeeks(f) ==
    /\ next <= NumFiles
    /\ next' = IF f = Pulled(f[1]) THEN next ELSE next + 1
    /\ job' = [job EXCEPT ![f] = next]
    /\ Goto(f, "pulled")
    /\ UNCHANGED <<pending, lane, analyzed, skipped, errors, events,
                   cancelled, finished>>

\* The fetch_add of pull(): frame f gets the next path.
TakeNext(f) ==
    /\ next <= NumFiles
    /\ next' = next + 1
    /\ job' = [job EXCEPT ![f] = next]
    /\ Goto(f, "pulled")
    /\ UNCHANGED <<pending, lane, analyzed, skipped, errors, events,
                   cancelled, finished>>

LanePull(l) ==
    /\ lane[l] = "loop"
    /\ Running(Own(l))
    /\ stage[Own(l)] = "none"
    /\ TakeNext(Own(l))
    /\ UNCHANGED <<gateVars, stackVars>>

LaneEnds(l) ==
    /\ lane[l] = "loop"
    /\ Running(Own(l))
    /\ stage[Own(l)] = "none"
    /\ next > NumFiles
    /\ lane' = [lane EXCEPT ![l] = "done"]
    /\ beneath' = [beneath EXCEPT ![Own(l)] = {}]
    /\ UNCHANGED <<gateVars, nested, next, pending, job, stage, analyzed,
                   skipped, errors, events, cancelled, finished>>

(* run_wait_work: the hook is installed only when for_each_ordered starts   *)
(* lanes, and a thread that is inside a pulled path never pulls.            *)
CanPull(f) ==
    /\ f = Own(f[1]) /\ f[1] \notin nested
    /\ NumFiles > 1 /\ next <= NumFiles

\* ... called by a caller of the gate that was refused.  Its next round starts
\* when the pulled path is done.
GatePull(l) ==
    /\ Running(Own(l))
    /\ CanPull(Own(l))
    /\ TakeNext(Pulled(l))
    /\ PutOn(Pulled(l), {Own(l)})
    /\ Resume(Own(l))
    /\ UNCHANGED nested

\* Between two paths, once every lane runs, a lane works off pieces of the
\* analyses in flight (rayon::yield_now).
Draining(l) ==
    /\ lane[l] = "loop" /\ stage[Own(l)] = "none"
    /\ \A m \in Lanes : lane[m] # "start"

\* ... called by a member's single-flight wait (ReportFlight::wait_yielding),
\* inside the lane's own analysis or in pieces of others that the lane's thread
\* executes, in a join or while draining.
FlightPull(l) ==
    /\ Running(Own(l))
    /\ CanPull(Own(l))
    /\ TakeNext(Pulled(l))
    /\ \E helped \in SUBSET Analysing :
          /\ Own(l) \in Analysing \/ (Draining(l) /\ helped # {})
          /\ PutOn(Pulled(l), {Own(l)} \cup helped)
    /\ UNCHANGED <<gateVars, nested>>

\* Mutant: the wait-time hook does not admit the path it takes.
AdmitOwnOnly(f) ==
    /\ stage[f] = "pulled"
    /\ pending' = IF f = Own(f[1]) THEN pending - 1 ELSE pending
    /\ Goto(f, "check")
    /\ UNCHANGED <<gateVars, stackVars, next, lane, job, analyzed, skipped, errors,
                   events, cancelled, finished>>

\* pending.admit()
AdmitPath(f) ==
    /\ stage[f] = "pulled"
    /\ pending' = pending - 1
    /\ Goto(f, "check")
    /\ UNCHANGED <<gateVars, stackVars, next, lane, job, analyzed, skipped, errors,
                   events, cancelled, finished>>

\* Mutant: a cancelled path is dropped without being counted.
SkipUncounted(f) ==
    /\ stage[f] = "check"
    /\ cancelled
    /\ Goto(f, "none")
    /\ job' = [job EXCEPT ![f] = 0]
    /\ PopPulled(f)
    /\ UNCHANGED <<gateVars, nested, next, pending, lane, analyzed, skipped, errors,
                   events, cancelled, finished>>

\* The cancellation fast path: no permit is taken.
SkipCancelled(f) ==
    /\ stage[f] = "check"
    /\ cancelled
    /\ skipped' = skipped + 1
    /\ Goto(f, "none")
    /\ job' = [job EXCEPT ![f] = 0]
    /\ PopPulled(f)
    /\ UNCHANGED <<gateVars, nested, next, pending, lane, analyzed, errors, events,
                   cancelled, finished>>

EnterGate(f) ==
    /\ stage[f] = "check"
    /\ ~cancelled
    /\ Request(f, FileSize[job[f]], FileHint[job[f]])
    /\ Goto(f, "gate")
    /\ UNCHANGED <<stackVars, next, pending, lane, job, analyzed, skipped, errors,
                   events, cancelled, finished>>

\* A refused frame with nothing to pull waits for a release or the poll.
GatePark(f) ==
    /\ Running(f)
    /\ ~CanPull(f)
    /\ Park(f)
    /\ UNCHANGED scanVars

GateAdmit(f) ==
    /\ Admit(f)
    /\ Goto(f, "filter")
    /\ UNCHANGED <<stackVars, next, pending, lane, job, analyzed, skipped, errors,
                   events, cancelled, finished>>

GateLoop(f) ==
    /\ Running(f)
    /\ Read(f) \/ Refuse(f) \/ Wake(f)
    /\ UNCHANGED scanVars

\* The size limit, an unreadable file, or a type that is not analysed.
FilterOut(f) ==
    /\ stage[f] = "filter"
    /\ job[f] \in Filtered
    /\ skipped' = skipped + 1
    /\ Goto(f, "leave")
    /\ UNCHANGED <<gateVars, stackVars, next, pending, lane, job, analyzed, errors,
                   events, cancelled, finished>>

FilterPass(f) ==
    /\ stage[f] = "filter"
    /\ job[f] \notin Filtered
    /\ Goto(f, "run")
    /\ UNCHANGED <<gateVars, stackVars, next, pending, lane, job, analyzed, skipped,
                   errors, events, cancelled, finished>>

\* Reading the file or detecting its type panics; analyze_file_with_engine
\* turns panics of its own into an Err.
FilterPanics(f) ==
    /\ stage[f] = "filter"
    /\ Goto(f, "panicked")
    /\ UNCHANGED <<gateVars, stackVars, next, pending, lane, job, analyzed, skipped,
                   errors, events, cancelled, finished>>

\* The analysis returns; a cancelled one returns an error or what it has.
AnalysisOk(f) ==
    /\ Running(f)
    /\ stage[f] = "run"
    /\ analyzed' = analyzed + 1
    /\ Goto(f, "reportOk")
    /\ UNCHANGED <<gateVars, stackVars, next, pending, lane, job, skipped, errors,
                   events, cancelled, finished>>

AnalysisErr(f) ==
    /\ Running(f)
    /\ stage[f] = "run"
    /\ errors' = errors + 1
    /\ Goto(f, "reportErr")
    /\ UNCHANGED <<gateVars, stackVars, next, pending, lane, job, analyzed, skipped,
                   events, cancelled, finished>>

Deliver(f, result) ==
    events' = [events EXCEPT ![job[f]] = Append(@, result)]

\* callback(ScanEvent::File)
Callback(f) ==
    /\ stage[f] \in {"reportOk", "reportErr"}
    /\ Deliver(f, IF stage[f] = "reportOk" THEN "ok" ELSE "err")
    /\ Goto(f, "leave")
    /\ UNCHANGED <<gateVars, stackVars, next, pending, lane, job, analyzed, skipped,
                   errors, cancelled, finished>>

\* The caller's callback takes the event and panics, after the result was
\* counted.
CallbackPanic(f) ==
    /\ CallbackPanics
    /\ stage[f] \in {"reportOk", "reportErr"}
    /\ Deliver(f, IF stage[f] = "reportOk" THEN "ok" ELSE "err")
    /\ Goto(f, "panicked")
    /\ UNCHANGED <<gateVars, stackVars, next, pending, lane, job, analyzed, skipped,
                   errors, cancelled, finished>>

\* Mutant: a panic is counted but not reported.
CatchSilently(f) ==
    /\ stage[f] = "panicked"
    /\ errors' = errors + 1
    /\ Goto(f, "leave")
    /\ UNCHANGED <<gateVars, stackVars, next, pending, lane, job, analyzed, skipped,
                   events, cancelled, finished>>

\* panic_result.is_err(): count the file as failed and report that.
CatchPanic(f) ==
    /\ stage[f] = "panicked"
    /\ errors' = errors + 1
    /\ Deliver(f, "err")
    /\ Goto(f, "leave")
    /\ UNCHANGED <<gateVars, stackVars, next, pending, lane, job, analyzed, skipped,
                   cancelled, finished>>

\* analyze_one_path returns: the permit is dropped.
Leave(f) ==
    /\ stage[f] = "leave"
    /\ Release(f)
    /\ Goto(f, "none")
    /\ job' = [job EXCEPT ![f] = 0]
    /\ PopPulled(f)
    /\ UNCHANGED <<nested, next, pending, lane, analyzed, skipped, errors, events,
                   cancelled, finished>>

\* Every lane has returned; PendingPaths gives back what it never admitted,
\* which is this scan's whole share of the count.
Finish ==
    /\ ~finished
    /\ \A l \in Lanes : lane[l] = "done"
    /\ finished' = TRUE
    /\ pending' = 0
    /\ UNCHANGED <<gateVars, stackVars, next, lane, job, stage, analyzed, skipped,
                   errors, events, cancelled>>

\* SIGINT sets the cancellation flag.
Cancel ==
    /\ ~cancelled
    /\ cancelled' = TRUE
    /\ UNCHANGED <<gateVars, stackVars, next, pending, lane, job, stage, analyzed,
                   skipped, errors, events, finished>>

GateTime(f) ==
    /\ TimePasses(f)
    /\ UNCHANGED scanVars

HostMemory ==
    /\ MemoryChanges
    /\ UNCHANGED scanVars

-----------------------------------------------------------------------------
LaneStep(l) == StartLane(l) \/ LanePull(l) \/ LaneEnds(l)

FrameStep(f) ==
    \/ AdmitPath(f) \/ SkipCancelled(f) \/ EnterGate(f)
    \/ GatePark(f) \/ GateAdmit(f) \/ GateLoop(f)
    \/ FilterOut(f) \/ FilterPass(f) \/ FilterPanics(f)
    \/ AnalysisOk(f) \/ AnalysisErr(f)
    \/ Callback(f) \/ CallbackPanic(f) \/ CatchPanic(f)
    \/ Leave(f)

ScanNext ==
    \/ \E l \in Lanes :
        \/ LaneStep(l) \/ GatePull(l) \/ FlightPull(l)
        \/ \E f \in Callers : StealLane(l, f)
    \/ \E f \in Callers : FrameStep(f) \/ GateTime(f)
    \/ Finish
    \/ Cancel
    \/ HostMemory

ScanSpec == ScanInit /\ [][ScanNext]_vars

(* A lane job is taken up by an idle worker (there are as many as lanes), a *)
(* lane that nothing holds up is scheduled and its analysis ends, the poll  *)
(* interval and the clock run.  Nothing is assumed of cancellation, of the  *)
(* host's memory, of stealing, or that a waiting analysis finds work to     *)
(* pull.                                                                    *)
ScanFairness ==
    /\ \A l \in Lanes : WF_vars(LaneStep(l)) /\ WF_vars(GatePull(l))
    /\ \A f \in Callers : WF_vars(FrameStep(f)) /\ WF_vars(GateTime(f))
    /\ WF_vars(Finish)

ScanFairSpec == ScanSpec /\ ScanFairness

-----------------------------------------------------------------------------
Untallied(f) ==
    \/ stage[f] \in {"pulled", "check", "gate", "filter", "run"}
    \/ stage[f] = "panicked" /\ events[job[f]] = <<>>

Recounted == {i \in Files : Len(events[i]) = 2}

OneFramePerPath ==
    \A f, g \in Callers : f # g /\ job[f] # 0 => job[f] # job[g]

\* No two frames work on the same path, and every path of the list is, at every
\* moment, in exactly one of: not yet taken, on some frame and not yet counted,
\* or counted once in exactly one of the three counters of analyze_one_path;
\* only a path whose callback panicked is counted a second time.
Ledger ==
    /\ OneFramePerPath
    /\ NumFiles + Cardinality(Recounted)
         = (NumFiles + 1 - next)
             + Cardinality({f \in Callers : Untallied(f)})
             + analyzed + skipped + errors

\* TOPLEVEL_PENDING counts the paths no lane has admitted, whoever takes them
\* and also between the two atomic operations of pull(): the draining rule of
\* rayon_nest never sees a path twice or forgets one.
PendingCounts ==
    pending = (NumFiles + 1 - next)
                + Cardinality({f \in Callers : stage[f] = "pulled"})

\* The paths whose first event is a result, and the events that are errors.
OkPaths == {i \in Files : events[i] # <<>> /\ events[i][1] = "ok"}
ErrEvents == {e \in Files \X {1, 2} :
                e[2] <= Len(events[e[1]]) /\ events[e[1]][e[2]] = "err"}

\* The event contract: when the scan returns, the File events agree with the
\* summary, and a path has had one at most; a second one, an error, comes
\* only after a callback that panicked.
EventsAgree ==
    finished =>
        /\ \A i \in Files :
              \/ events[i] \in {<<>>, <<"ok">>, <<"err">>}
              \/ CallbackPanics /\ events[i] \in {<<"ok", "err">>, <<"err", "err">>}
        /\ Cardinality(OkPaths) = analyzed
        /\ Cardinality(ErrEvents) = errors

\* A frame asks for a permit while an analysis that cannot end before it holds
\* one.
WaitsOverPermit(f) == Waiting(f) /\ \E g \in beneath[f] : Holding(g)

\* The scan returns, or is stuck for good on a path that waits in the gate while
\* an analysis it holds up, below it on its thread or one its thread was helping,
\* keeps a permit: no other wait lasts forever, whatever memory the host
\* reports, however lanes and pieces of analyses are stolen.
OnlyStuckOverPermit ==
    <>finished \/ <>[](\E f \in Callers : WaitsOverPermit(f))

\* The scan returns, whatever memory the host reports: FORCE_ADMIT_AFTER is
\* there "so the scan can't wedge forever on one oversized file".
ScanReturns == <>finished

\* With ample memory from some point on, the scan returns.
CompletesWithMemory ==
    <>[](\A size \in Sizes : LeavesFree(estimate(size), FreeFloor, available))
        => <>finished

=============================================================================
