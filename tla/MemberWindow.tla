---------------------------- MODULE MemberWindow ----------------------------
(***************************************************************************)
(* The members of an archive: read by a producer, cut into windows,        *)
(* analysed on the pool and folded in order (src/analyzers/archive/        *)
(* analyzers.rs, MemberWindow and par_filter_fold_members; the producers   *)
(* are in analyzers/formats.rs).                                           *)
(*                                                                         *)
(* Inline, the producer analyses each window before it reads on.           *)
(* Pipelined, it hands windows through a channel of one place to a         *)
(* consumer thread of its own.  The consumer is no worker of the pool: a   *)
(* window it fans out is run by pool workers, and each producer is one     *)
(* that runs nothing while it reads, sends or joins.                       *)
(*                                                                         *)
(* Members are numbered in archive order; a window is an interval of them. *)
(***************************************************************************)
EXTENDS Naturals, Sequences, FiniteSets

CONSTANTS
    Archives,        \* archives analysed at the same time
    Sizes,           \* of each archive, the sizes of its members
    Workers,         \* threads of the pool; every archive has one of them
    Pipelined,       \* pipeline_member_windows()
    BudgetBytes,     \* member_window_bytes()
    MaxCount,        \* member_window_count()
    PressuredChunk,  \* PRESSURED_CHUNK
    HeavyBytes,      \* FLIGHT_WAIT_MIN_BYTES
    HeavyParallel,   \* heavy_member_parallelism()
    MaxPanics        \* bound: folds that panic

ASSUME WindowAssumption ==
    /\ IsFiniteSet(Archives)
    /\ Sizes \in [Archives -> Seq(Nat)]
    /\ Workers \in Nat /\ Cardinality(Archives) <= Workers
    /\ Pipelined \in BOOLEAN
    \* The kill switch: a pool of one thread is never pipelined.
    /\ Pipelined => Workers >= 2
    /\ {BudgetBytes, MaxCount, PressuredChunk, HeavyBytes, HeavyParallel}
         \subseteq Nat \ {0}
    /\ MaxPanics \in Nat

Count(a) == Len(Sizes[a])
Heavy(a, i) == Sizes[a][i] >= HeavyBytes
Interval == [lo : Nat, hi : Nat]
In(w) == w.lo..w.hi
NoBatch == [lo |-> 1, hi |-> 0]

VARIABLES
    cancelled,  \* the cancellation flag
    panics,     \* folds that have panicked
    read,       \* members the producer has pushed
    first,      \* MemberWindow.window holds first..read
    bytes,      \* MemberWindow.window_bytes
    prod,       \* where the producer is
    final,      \* it is in finalize
    link,       \* MemberWindow.pipeline: "none", "up", "dropped"
    chan,       \* the channel of windows
    cons,       \* where the consumer is
    batch,      \* the window being walked
    walk,       \* how it is walked
    pos,        \* its first member that no chunk has reached
    chunk,      \* the last member of the chunk that fans out
    running,    \* members being analysed on the pool
    pending,    \* Ordered.pending: results that wait for a predecessor
    next,       \* Ordered.next
    unwinding,  \* a fold of this walk has panicked
    none,       \* members whose analysis gave None
    consAcc,    \* members the consumer has folded
    ownAcc,     \* members folded inline
    result      \* what the analysis of the archive returned

producer == <<read, first, bytes, prod, final, link>>
walker == <<batch, walk, pos, chunk, running, pending, next, unwinding, none,
            consAcc, ownAcc>>
vars == <<cancelled, panics, producer, chan, cons, walker, result>>

(* prod:  read    reading members                                          *)
(*        flush   has a window to hand over or to analyse                   *)
(*        walk    analysing it inline                                       *)
(*        join    finalize: waiting for the consumer, whose channel is shut *)
(*        scope   leaving thread::scope, which waits for the consumer       *)
(*        ended   has returned or unwound                                   *)
(* cons:  none, recv, walk, returned, dead (panicked)                       *)
(* walk:  idle, serial, decide, pressured, fan                              *)
(* result: none, ok, err, panic                                             *)

ProdStates == {"read", "flush", "walk", "join", "scope", "ended"}
ConsStates == {"none", "recv", "walk", "returned", "dead"}
WalkStates == {"idle", "serial", "decide", "pressured", "fan"}

TypeOK ==
    /\ cancelled \in BOOLEAN
    /\ panics \in 0..MaxPanics
    /\ {read, first, bytes, pos, chunk, next} \subseteq [Archives -> Nat]
    /\ {running, pending, none} \subseteq [Archives -> SUBSET Nat]
    /\ {consAcc, ownAcc} \subseteq [Archives -> Seq(Nat)]
    /\ {final, unwinding} \subseteq [Archives -> BOOLEAN]
    /\ prod \in [Archives -> ProdStates]
    /\ link \in [Archives -> {"none", "up", "dropped"}]
    /\ chan \in [Archives -> Seq(Interval)]
    /\ cons \in [Archives -> ConsStates]
    /\ batch \in [Archives -> Interval]
    /\ walk \in [Archives -> WalkStates]
    /\ result \in [Archives -> {"none", "ok", "err", "panic"}]
    /\ \A a \in Archives :
         /\ read[a] <= Count(a) /\ first[a] \in 1..read[a] + 1
         /\ Len(chan[a]) <= 1
         /\ pos[a] <= Count(a) + 1 /\ chunk[a] <= Count(a)
         /\ running[a] \cup pending[a] \cup none[a] \subseteq 1..read[a]

Each(v) == [a \in Archives |-> v]

\* MemberWindow::new_in: the consumer is spawned with the window.
Init ==
    /\ cancelled = FALSE /\ panics = 0
    /\ read = Each(0) /\ first = Each(1) /\ bytes = Each(0)
    /\ prod = Each("read") /\ final = Each(FALSE)
    /\ link = Each(IF Pipelined THEN "up" ELSE "none")
    /\ chan = Each(<<>>)
    /\ cons = Each(IF Pipelined THEN "recv" ELSE "none")
    /\ batch = Each(NoBatch) /\ walk = Each("idle")
    /\ pos = Each(1) /\ chunk = Each(0)
    /\ running = Each({}) /\ pending = Each({}) /\ next = Each(1)
    /\ unwinding = Each(FALSE) /\ none = Each({})
    /\ consAcc = Each(<<>>) /\ ownAcc = Each(<<>>)
    /\ result = Each("none")

-----------------------------------------------------------------------------
(* The pool. *)

\* A producer's thread is a worker; it runs members only inside the fan-out of
\* an inline window (rayon::join), and after it has ended.
Taken(a) == prod[a] # "ended" /\ (prod[a] = "walk" => walk[a] # "fan")
Running == UNION {{a} \X running[a] : a \in Archives}
FreeWorkers == Workers - Cardinality({a \in Archives : Taken(a)})
WorkerFree == Cardinality(Running) < FreeWorkers

-----------------------------------------------------------------------------
(* The producer. *)

Full(a, b, n) == b >= BudgetBytes \/ n >= MaxCount

\* One member is read and pushed; a full window is flushed.
Push(a) ==
    /\ prod[a] = "read"
    /\ ~cancelled
    /\ read[a] < Count(a)
    /\ read' = [read EXCEPT ![a] = @ + 1]
    /\ bytes' = [bytes EXCEPT ![a] = @ + Sizes[a][read'[a]]]
    /\ prod' = [prod EXCEPT ![a] =
         IF Full(a, bytes'[a], read'[a] + 1 - first[a]) THEN "flush" ELSE "read"]
    /\ UNCHANGED <<cancelled, panics, first, final, link, chan, cons, walker, result>>

\* The end of the archive, a limit, or a damaged stream: what was read counts.
\* Cancellation is looked at before each member and not after the last.
Finish(a) ==
    /\ prod[a] = "read"
    /\ cancelled => read[a] = Count(a)
    /\ prod' = [prod EXCEPT ![a] = "flush"]
    /\ final' = [final EXCEPT ![a] = TRUE]
    /\ UNCHANGED <<cancelled, panics, read, first, bytes, link, chan, cons, walker, result>>

\* Cancelled, or damaged before the first member, or the indexed reader falls
\* back to another one: the window is dropped with what it holds, and with it
\* the sender.
GiveUp(a) ==
    /\ prod[a] = "read"
    /\ prod' = [prod EXCEPT ![a] = "scope"]
    /\ result' = [result EXCEPT ![a] = "err"]
    /\ UNCHANGED <<cancelled, panics, read, first, bytes, final, link, chan, cons, walker>>

Window(a) == [lo |-> first[a], hi |-> read[a]]
Emptied(a) ==
    /\ first' = [first EXCEPT ![a] = read[a] + 1]
    /\ bytes' = [bytes EXCEPT ![a] = 0]

\* Where the producer goes after a flush.
AfterFlush(a) ==
    IF ~final[a] THEN "read"
    ELSE IF link[a] = "up" THEN "join" ELSE "scope"

FlushEmpty(a) ==
    /\ prod[a] = "flush"
    /\ first[a] > read[a]
    /\ prod' = [prod EXCEPT ![a] = AfterFlush(a)]
    /\ UNCHANGED <<cancelled, panics, read, first, bytes, final, link, chan, cons,
                   walker, result>>

\* tx.send, which parks the producer while the channel is full.
Send(a) ==
    /\ prod[a] = "flush" /\ link[a] = "up" /\ cons[a] # "dead"
    /\ first[a] <= read[a]
    /\ Len(chan[a]) < 1
    /\ chan' = [chan EXCEPT ![a] = Append(@, Window(a))]
    /\ Emptied(a)
    /\ prod' = [prod EXCEPT ![a] = AfterFlush(a)]
    /\ UNCHANGED <<cancelled, panics, read, final, link, cons, walker, result>>

\* The consumer has panicked: the window comes back, and the pipeline, with
\* the handle that could be joined, is dropped.
SendFails(a) ==
    /\ prod[a] = "flush" /\ link[a] = "up" /\ cons[a] = "dead"
    /\ first[a] <= read[a]
    /\ link' = [link EXCEPT ![a] = "dropped"]
    /\ bytes' = [bytes EXCEPT ![a] = 0]
    /\ UNCHANGED <<cancelled, panics, read, first, prod, final, chan, cons, walker,
                   result>>

-----------------------------------------------------------------------------
(* par_filter_fold_members.  Whether a walk may fan out (inner_work_parallel) *)
(* and whether the host is short of memory (under_pressure) are questions to  *)
(* the rest of the process: either answer is possible each time.              *)

BeginWalk(a, w) ==
    /\ batch' = [batch EXCEPT ![a] = w]
    /\ pos' = [pos EXCEPT ![a] = w.lo]
    /\ \E parallel \in BOOLEAN :
         walk' = [walk EXCEPT ![a] = IF parallel THEN "decide" ELSE "serial"]
    /\ UNCHANGED <<chunk, running, pending, next, unwinding, none, consAcc, ownAcc>>

\* flush without a pipeline
BeginInline(a) ==
    /\ prod[a] = "flush" /\ link[a] # "up"
    /\ first[a] <= read[a]
    /\ prod' = [prod EXCEPT ![a] = "walk"]
    /\ BeginWalk(a, Window(a))
    /\ UNCHANGED <<cancelled, panics, read, first, bytes, final, link, chan, cons, result>>

\* rx.recv: the next window ...
Receive(a) ==
    /\ cons[a] = "recv"
    /\ chan[a] # <<>>
    /\ cons' = [cons EXCEPT ![a] = "walk"]
    /\ BeginWalk(a, Head(chan[a]))
    /\ chan' = [chan EXCEPT ![a] = Tail(@)]
    /\ UNCHANGED <<cancelled, panics, producer, result>>

\* Mutant: finalize joins the consumer before it drops the sender.
SenderGoneLate(a) == prod[a] \in {"scope", "ended"}

\* ... or the end, once the sender is gone and the channel empty.
SenderGone(a) == prod[a] \in {"join", "scope", "ended"}
Return(a) ==
    /\ cons[a] = "recv"
    /\ chan[a] = <<>> /\ SenderGone(a)
    /\ cons' = [cons EXCEPT ![a] = "returned"]
    /\ UNCHANGED <<cancelled, panics, producer, chan, walker, result>>

Inline(a) == prod[a] = "walk"

\* The members of a set of them, in archive order.
Ascending(S) ==
    CHOOSE s \in [1..Cardinality(S) -> S] :
        \A m, n \in 1..Cardinality(S) : m < n => s[m] < s[n]

\* Members are folded into the accumulator of whoever walks.
FoldIn(a, s) ==
    IF Inline(a)
    THEN ownAcc' = [ownAcc EXCEPT ![a] = @ \o s] /\ UNCHANGED consAcc
    ELSE consAcc' = [consAcc EXCEPT ![a] = @ \o s] /\ UNCHANGED ownAcc

\* The walk of a window ends, by returning or by a panic.
WalkReturns(a) ==
    /\ batch' = [batch EXCEPT ![a] = NoBatch]
    /\ walk' = [walk EXCEPT ![a] = "idle"]
    /\ IF Inline(a)
       THEN Emptied(a) /\ prod' = [prod EXCEPT ![a] = AfterFlush(a)] /\ UNCHANGED cons
       ELSE cons' = [cons EXCEPT ![a] = "recv"] /\ UNCHANGED <<first, bytes, prod>>
    /\ UNCHANGED <<read, final, link, result>>

WalkUnwinds(a) ==
    /\ batch' = [batch EXCEPT ![a] = NoBatch]
    /\ walk' = [walk EXCEPT ![a] = "idle"]
    /\ IF Inline(a)
       THEN /\ prod' = [prod EXCEPT ![a] = "scope"]
            /\ result' = [result EXCEPT ![a] = "panic"]
            /\ UNCHANGED <<cons, chan>>
       ELSE /\ cons' = [cons EXCEPT ![a] = "dead"]
            /\ chan' = [chan EXCEPT ![a] = <<>>]
            /\ UNCHANGED <<prod, result>>
    /\ UNCHANGED <<read, first, bytes, final, link>>

\* The serial walk asks again before each further member and may fan the rest
\* out, unless only one is left.
Upgrade(a) ==
    /\ walk[a] = "serial"
    /\ pos[a] > batch[a].lo
    /\ pos[a] < batch[a].hi
    /\ walk' = [walk EXCEPT ![a] = "decide"]
    /\ UNCHANGED <<cancelled, panics, producer, chan, cons, batch, pos, chunk, running,
                   pending, next, unwinding, none, consAcc, ownAcc, result>>

\* The walking thread analyses one member and folds it: in a serial walk, and
\* in a chunk under memory pressure.
StepSerial(a) ==
    /\ walk[a] \in {"serial", "pressured"}
    /\ walk[a] = "serial" => pos[a] <= batch[a].hi
    /\ walk[a] = "pressured" => pos[a] <= chunk[a]
    /\ pos' = [pos EXCEPT ![a] = @ + 1]
    /\ IF cancelled
       THEN none' = [none EXCEPT ![a] = @ \cup {pos[a]}] /\ UNCHANGED <<consAcc, ownAcc>>
       ELSE FoldIn(a, <<pos[a]>>) /\ UNCHANGED none
    /\ UNCHANGED <<cancelled, panics, producer, chan, cons, batch, walk, chunk, running,
                   pending, next, unwinding, result>>

StepSerialPanics(a) ==
    /\ walk[a] \in {"serial", "pressured"}
    /\ walk[a] = "serial" => pos[a] <= batch[a].hi
    /\ walk[a] = "pressured" => pos[a] <= chunk[a]
    /\ ~cancelled
    /\ panics < MaxPanics
    /\ panics' = panics + 1
    /\ WalkUnwinds(a)
    /\ UNCHANGED <<cancelled, pos, chunk, running, pending, next, unwinding, none,
                   consAcc, ownAcc>>

\* Before each chunk: under pressure a short one on this thread, otherwise up
\* to a window of members on the pool.
Decide(a) ==
    /\ walk[a] = "decide"
    /\ pos[a] <= batch[a].hi
    /\ \E pressured \in BOOLEAN :
         LET len == IF pressured THEN PressuredChunk ELSE MaxCount
             end == pos[a] + len - 1
             last == IF end < batch[a].hi THEN end ELSE batch[a].hi
         IN  /\ walk' = [walk EXCEPT ![a] = IF pressured THEN "pressured" ELSE "fan"]
             /\ chunk' = [chunk EXCEPT ![a] = last]
    /\ next' = [next EXCEPT ![a] = pos[a]]
    /\ UNCHANGED <<cancelled, panics, producer, chan, cons, batch, pos, running, pending,
                   unwinding, none, consAcc, ownAcc, result>>

EndPressured(a) ==
    /\ walk[a] = "pressured"
    /\ pos[a] > chunk[a]
    /\ walk' = [walk EXCEPT ![a] = "decide"]
    /\ UNCHANGED <<cancelled, panics, producer, chan, cons, batch, pos, chunk, running,
                   pending, next, unwinding, none, consAcc, ownAcc, result>>

EndWalk(a) ==
    /\ walk[a] \in {"serial", "decide"}
    /\ pos[a] > batch[a].hi
    /\ WalkReturns(a)
    /\ UNCHANGED <<cancelled, panics, chan, pos, chunk, running, pending, next, unwinding,
                   none, consAcc, ownAcc>>

\* The chunk that fans out is pos..chunk.  A member of it is open until it was
\* started; the heavy ones run in groups, one group after the other.
Delivered(a) == pos[a]..next[a] - 1 \cup pending[a]
Open(a) == (pos[a]..chunk[a]) \ (running[a] \cup Delivered(a))
HeavyOf(a) == {i \in pos[a]..chunk[a] : Heavy(a, i)}
GroupOf(a, i) == Cardinality({h \in HeavyOf(a) : h < i}) \div HeavyParallel

\* Mutant: the groups of heavy members are not waited for.
GroupsDoneAlways(a, i) == TRUE

EarlierGroupsDone(a, i) ==
    Heavy(a, i) => \A h \in HeavyOf(a) :
        GroupOf(a, h) < GroupOf(a, i) => h \in Delivered(a)

\* A free worker takes up a member; a cancelled analysis gives None.
StartMember(a, i) ==
    /\ walk[a] = "fan"
    /\ i \in Open(a)
    /\ EarlierGroupsDone(a, i)
    /\ WorkerFree
    /\ running' = [running EXCEPT ![a] = @ \cup {i}]
    /\ none' = IF cancelled THEN [none EXCEPT ![a] = @ \cup {i}] ELSE none
    /\ UNCHANGED <<cancelled, panics, producer, chan, cons, batch, walk, pos, chunk,
                   pending, next, unwinding, consAcc, ownAcc, result>>

\* deliver: the results that have arrived without a gap after `next`.
Prefix(a, arrived) ==
    CHOOSE n \in next[a]..chunk[a] + 1 :
        next[a]..n - 1 \subseteq arrived /\ n \notin arrived

\* Mutant: a result is folded as it arrives.
DeliverUnordered(a, i) ==
    /\ walk[a] = "fan"
    /\ i \in running[a]
    /\ LET n == Prefix(a, pending[a] \cup {i})
       IN  /\ next' = [next EXCEPT ![a] = n]
           /\ pending' = [pending EXCEPT ![a] = (@ \cup {i}) \ (next[a]..n - 1)]
           /\ FoldIn(a, Ascending({i} \ none[a]))
    /\ running' = [running EXCEPT ![a] = @ \ {i}]
    /\ UNCHANGED <<cancelled, panics, producer, chan, cons, batch, walk, pos, chunk,
                   unwinding, none, result>>

\* A member is done: its result is put down and the gapless prefix folded, all
\* under the lock of the chunk's state.
Deliver(a, i) ==
    /\ walk[a] = "fan"
    /\ i \in running[a]
    /\ LET n == Prefix(a, pending[a] \cup {i})
       IN  /\ next' = [next EXCEPT ![a] = n]
           /\ pending' = [pending EXCEPT ![a] = (@ \cup {i}) \ (next[a]..n - 1)]
           /\ FoldIn(a, Ascending((next[a]..n - 1) \ none[a]))
    /\ running' = [running EXCEPT ![a] = @ \ {i}]
    /\ UNCHANGED <<cancelled, panics, producer, chan, cons, batch, walk, pos, chunk,
                   unwinding, none, result>>

\* One of these folds panics: its entry is gone and `next` past it.  The locks
\* are poisoned, which the others ignore: they go on delivering.
DeliverPanics(a, i) ==
    /\ walk[a] = "fan"
    /\ i \in running[a]
    /\ panics < MaxPanics
    /\ panics' = panics + 1
    /\ LET arrived == pending[a] \cup {i}
           n == Prefix(a, arrived)
       IN  \E k \in (next[a]..n - 1) \ none[a] :
             /\ next' = [next EXCEPT ![a] = k + 1]
             /\ pending' = [pending EXCEPT ![a] = arrived \ (next[a]..k)]
             /\ FoldIn(a, Ascending((next[a]..k - 1) \ none[a]))
    /\ running' = [running EXCEPT ![a] = @ \ {i}]
    /\ unwinding' = [unwinding EXCEPT ![a] = TRUE]
    /\ UNCHANGED <<cancelled, producer, chan, cons, batch, walk, pos, chunk, none, result>>

\* The join over the chunk returns.  A walking producer needs its own thread
\* back from whatever it runs meanwhile.
EndChunk(a) ==
    /\ walk[a] = "fan"
    /\ ~unwinding[a]
    /\ running[a] = {} /\ Open(a) = {}
    /\ Inline(a) => WorkerFree
    /\ walk' = [walk EXCEPT ![a] = "decide"]
    /\ pos' = [pos EXCEPT ![a] = chunk[a] + 1]
    /\ UNCHANGED <<cancelled, panics, producer, chan, cons, batch, chunk, running, pending,
                   next, unwinding, none, consAcc, ownAcc, result>>

\* After a panic it resumes it; members not started may be left out.
UnwindChunk(a) ==
    /\ walk[a] = "fan"
    /\ unwinding[a]
    /\ running[a] = {}
    /\ Inline(a) => WorkerFree
    /\ unwinding' = [unwinding EXCEPT ![a] = FALSE]
    /\ pending' = [pending EXCEPT ![a] = {}]
    /\ WalkUnwinds(a)
    /\ UNCHANGED <<cancelled, panics, pos, chunk, running, next, none, consAcc, ownAcc>>

-----------------------------------------------------------------------------
(* The end of the archive. *)

\* finalize joins the consumer and resumes its panic.
Joined(a) ==
    /\ prod[a] = "join"
    /\ cons[a] \in {"returned", "dead"}
    /\ prod' = [prod EXCEPT ![a] = "ended"]
    /\ result' = [result EXCEPT ![a] = IF cons[a] = "dead" THEN "panic" ELSE "ok"]
    /\ UNCHANGED <<cancelled, panics, read, first, bytes, final, link, chan, cons, walker>>

\* Mutant: the panic of a thread nobody has joined goes unnoticed.
ScopeEndsQuietly(a) ==
    /\ prod[a] = "scope"
    /\ cons[a] \in {"none", "returned", "dead"}
    /\ prod' = [prod EXCEPT ![a] = "ended"]
    /\ result' = [result EXCEPT ![a] = IF @ = "none" THEN "ok" ELSE @]
    /\ UNCHANGED <<cancelled, panics, read, first, bytes, final, link, chan, cons, walker>>

\* thread::scope waits for the consumer, and panics if it did.
ScopeEnds(a) ==
    /\ prod[a] = "scope"
    /\ cons[a] \in {"none", "returned", "dead"}
    /\ prod' = [prod EXCEPT ![a] = "ended"]
    /\ result' = [result EXCEPT ![a] =
         IF cons[a] = "dead" THEN "panic" ELSE IF @ = "none" THEN "ok" ELSE @]
    /\ UNCHANGED <<cancelled, panics, read, first, bytes, final, link, chan, cons, walker>>

Cancel ==
    /\ ~cancelled
    /\ cancelled' = TRUE
    /\ UNCHANGED <<panics, producer, chan, cons, walker, result>>

ProducerStep(a) ==
    \/ Push(a) \/ Finish(a) \/ GiveUp(a)
    \/ FlushEmpty(a) \/ Send(a) \/ SendFails(a) \/ BeginInline(a)
    \/ Joined(a) \/ ScopeEnds(a)

WalkStep(a) ==
    \/ Receive(a) \/ Return(a)
    \/ Upgrade(a) \/ StepSerial(a) \/ StepSerialPanics(a)
    \/ Decide(a) \/ EndPressured(a) \/ EndWalk(a)
    \/ EndChunk(a) \/ UnwindChunk(a)

MemberStep(a) ==
    \E i \in 1..Count(a) : StartMember(a, i) \/ Deliver(a, i) \/ DeliverPanics(a, i)

Next ==
    \/ \E a \in Archives : ProducerStep(a) \/ WalkStep(a) \/ MemberStep(a)
    \/ Cancel

Spec == Init /\ [][Next]_vars

\* Threads run: a producer that is not parked, a walker that is not waiting,
\* and a pool with a free worker and something to do.
FairSpec ==
    /\ Spec
    /\ \A a \in Archives : /\ WF_vars(ProducerStep(a))
                           /\ WF_vars(WalkStep(a))
                           /\ WF_vars(MemberStep(a))

-----------------------------------------------------------------------------
(* Properties *)

\* What the report of the archive is made of: acc.absorb(self.acc).
Folded(a) == consAcc[a] \o ownAcc[a]

\* Whatever the pool, the pipeline and memory pressure do, and although results
\* arrive in any order: members are folded in archive order, none twice.
FoldsInOrder ==
    \A a \in Archives : \A m, n \in 1..Len(Folded(a)) :
        m < n => Folded(a)[m] < Folded(a)[n]

\* An analysis that returns normally has folded every member it has read and
\* analysed: no window is lost with a consumer that died, no result is left
\* behind in a chunk.
OkMeansComplete ==
    \A a \in Archives : result[a] = "ok" /\ prod[a] = "ended" =>
        {Folded(a)[k] : k \in 1..Len(Folded(a))} = (1..read[a]) \ none[a]

\* The members in memory are one window being filled, one in the channel and
\* one under analysis; inline, that one is the window.  No window passes its
\* limits by more than its last member, and of the heavy members of an archive
\* one group is analysed at a time.
ResidentBounded ==
    \A a \in Archives :
        /\ Cardinality({i \in running[a] : Heavy(a, i)}) <= HeavyParallel
        /\ Cardinality({w \in {Window(a), batch[a]} : In(w) # {}}) + Len(chan[a])
             <= IF Pipelined THEN 3 ELSE 1
        /\ read[a] + 1 - first[a] <= MaxCount
        /\ first[a] <= read[a] => bytes[a] < BudgetBytes + Sizes[a][read[a]]

\* Every worker of the pool is a producer parked in a send or a join.
Parked(a) ==
    \/ /\ prod[a] = "flush" /\ link[a] = "up" /\ cons[a] # "dead"
       /\ first[a] <= read[a] /\ chan[a] # <<>>
    \/ prod[a] \in {"join", "scope"} /\ cons[a] \in {"recv", "walk"}
AllParked ==
    Cardinality({a \in Archives : Parked(a)}) = Workers

\* Every archive ends, whatever is cancelled or panics, unless all workers of
\* the pool are parked producers for good: then no one is left to run what
\* their consumers have fanned out.
EndsUnlessAllPark ==
    \A a \in Archives : <>(prod[a] = "ended") \/ <>[]AllParked

=============================================================================
