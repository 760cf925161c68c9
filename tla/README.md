# TLA+ models of cleave

Cleave analyses files, and the members of archives, for capabilities. Much of
its code is sequential: parsers and extractors that turn the bytes of one file
into a report. What is hard to test is what surrounds them. A directory scan
runs on a work-stealing pool, admits files against the host's free memory, lets
identical archive members share one analysis, and has threads pick up other work
while they wait. Archives are read, analysed and folded in windows by several
threads. Results go into a cache that several threads, a writer and other
processes use; rules are replaced while analyses run; rule bundles are installed
by several processes that may crash; and the rules themselves are evaluated in
passes with shortcuts and then partly taken back. The comments argue why each of
these is right. This project states the arguments as properties, checks them
with TLC on small instances, and proves the ones it can for every instance with
TLAPS.

## Inventory

| Component | Source | State | Operations | What makes it correct |
|---|---|---|---|---|
| Memory gate | `src/scan_mem_gate.rs` | bytes reserved (mutex), condition variable, limits fixed at construction | `acquire_hinted`, `fits`, `release`, the poll and the timed escape | the reservation is the sum of the live permits; the ceiling holds; a lone file is admitted |
| Ordered scan | `src/scan.rs` | shared index, three counters, the caller's callback | `for_each_ordered`, `pull`, `analyze_one_path` | every path is taken, counted and reported once; the scan returns |
| Wait-time work | `src/rayon_nest.rs` | thread-local hook and depth, `TOPLEVEL_PENDING` | `with_wait_work`, `run_wait_work`, `PendingPaths` | one extra path per lane at most; the pending count is exact |
| Cancellation | `src/cancellation.rs` | one flag | set on SIGINT | what was begun is accounted for |
| Member single flight | `src/analysis_cache.rs`, `src/analyzers/archive/analyzers/member.rs` | map of weak references, result and condition per flight, thread-local counts, `WAITERS` | `acquire_flight`, the three waits, `complete`, `Drop`, `analyze_extracted_member` | one owner per key; no follower without an answer; no wait cycle but that of an archive that holds itself; waiters capped |
| Parallel owner slots | `src/rayon_nest.rs` | four counters with caps, `TOPLEVEL_IN_FLIGHT`, five thread-locals saved in guards | enter and leave a top-level analysis, `inner_work_parallel`, nested guards, `set_parallel_owner_caps` | no slot leaks or is returned twice; caps hold |
| Archive member windows | `src/analyzers/archive/analyzers.rs`, `.../formats.rs` | window, channel, two accumulators, results out of order | `push`, `flush`, the consumer's loop, `par_filter_fold_members`, `finalize` | members are folded in order and none is lost; memory is bounded; every archive ends |
| Compile claims | `src/composite_rules/compile_claim.rs`, `regex_store.rs`, `condition/regexes.rs` | lock-free slots, a byte-budgeted store, a memo per thread | claim, bounded poll, compile, publish, evict | claims are exclusive; the byte count is exact; a lookup answers with its own pattern |
| Analysis cache | `src/analysis_cache.rs`, `src/analysis_cache/writer.rs` | memo, byte budget, channel, SQLite file, eviction guard, YARA breaker | lookup, store, batch, flush, evict, repair | a hit is a report stored under the same key for an equivalent path |
| Traits reload | `src/shared_resources.rs`, `src/cache.rs`, `src/rule_sources.rs` | mapper slot, three memos of the tree, mapper cache on disk, build lock | shared mapper, reload, override, cache keys of an analysis | the rules used are those the key names; a reload takes effect |
| Rule updates | `src/rule_update.rs`, `src/traits_repo.rs`, `src/enriched.rs` | installed, staging and backup trees per channel, lock file, choice of channel | fetch, retry, install, swap, roll back, fall back | an installed tree is whole; a copy survives; a directory holds its channel; a checkout is kept |
| Rule evaluation | `src/capabilities/mapper/`, `src/composite_rules/traits/` | findings and what each cites, worklists | trait passes, composite passes, merge, retroactive suppression, cascade | what matches is found or given up on purpose; what is suppressed goes with what stood on it, and nothing else |
| Memory pressure | `src/mem_pressure.rs` | time stamp and verdict, relaxed atomics | `under_pressure` | an arbitrary answer in `MemberWindow` |
| Subprocess timeouts | `src/subprocess.rs` | child, reader threads | wait, kill, reap | not modelled |
| Pipeline, parsers, rule parsing, YARA, diff, output, CLI, format crates | `src/pipeline.rs`, `src/analyzers/`, ... | one report at a time | transformations of data | not modelled |

How they interact. A lane of `for_each_ordered` pulls a path, asks the gate for
a permit, and analyses the file while it holds the permit. The analysis takes
the shared mapper and looks its key up in the cache; the key names the revision
of the rules. Inside the analysis of an archive, members come in windows and are
spread over the pool with `join`; each member goes through the single flight. A
thread that is refused by the gate, or that waits for a flight, calls
`run_wait_work`, which analyses one more path of the scan on the same stack, with
its own permit. A thread in a `join` steals any pending job, a lane that has not
started among them. Whether an analysis
may fan out at all is decided by the owner slots. A rule update replaces the
tree on disk and ends in an invalidation of the memos a reload starts from.

The hard behaviours are therefore: decisions on values read before a lock;
waits that sit on top of the very work that would end them; counters and
thread-locals restored by guards on early returns and panics; a map of weak
references whose entry, result and reference count change in three critical
sections; several memos of one fact that are dropped one after the other;
results that arrive out of order and folds that panic half-way; crashes between
two renames; fixed points with shortcuts, and removals that must cascade.
`PROJECT.json` lists them as hazards, each at its line.

## Modules

- **`ScanMemGate`**: the gate by itself. One critical section of the mutex is
  one action; the memory reading and the clock are read before the lock, so
  `Read` is separate from `Admit` and `Refuse` and memory may change in between.
  `available` is the host's and changes at any time. `overdue` abstracts the
  clock to "`FORCE_ADMIT_AFTER` has passed". Arithmetic keeps the word's width:
  saturating where the code saturates, wrapping for the plain `+=`. Callers that
  wait on the condition variable wake up at any time, which stands for the
  notification, the poll interval and spurious wake-ups.
- **`OrderedScan`** extends `ScanMemGate`: the callers of the gate are the call
  frames of the lanes. A lane has two frames, `own` and `pulled`. Lanes are jobs
  of the rayon pool: one starts on an idle thread (`StartLane`), or is stolen by a
  thread that waits in a `join` of an analysis (`StealLane`), and whoever waits in
  a `join` may also execute pieces of other analyses. `beneath` names for each frame
  those that cannot go on before it is done: what is below it on its thread and
  what its thread was helping with. Those keep their permits. `GatePull` and
  `FlightPull` are the two places where `run_wait_work` is called. The analysis
  itself ends with a report, an error or a panic; the caller's callback may panic.
- **`SingleFlight`**: jobs (member analyses) on the stacks of threads. A walk of an
  archive keeps its members or hands some to the pool (`fanned`). `RunOwn` is the
  serial walk of what it keeps. `Steal` is a worker of the pool that takes up what
  was handed over; a thread off the pool hands over and blocks. `YieldLocal` is a
  waiting worker that runs a member from its own queue, and `PullPath` a
  lane that pulls another path. A job owns at most one flight, so flights are named
  after jobs; the strong count of a flight is the number of jobs whose `handle`
  refers to it. `Holds` says which keys are archives that hold which; nothing
  keeps an archive from holding itself.
- **`ParallelOwners`**: guards on the stacks of threads, with the thread-locals
  each guard saves. A claim is a load followed by a compare-and-swap that may
  fail and be tried again.
- **`MemberWindow`**: a producer per archive that reads members into a window;
  its consumer, if windows are pipelined; the walk of a window, which is serial,
  pressured or fanned out; members that run on pool workers and deliver their
  results; `finalize` and the end of the scope. A producer occupies a worker of
  the pool and runs members only inside a fan-out of its own. Whether to fan out
  and whether memory is short are arbitrary answers at every question.
- **`ResultCache`**: the promise of the analysis cache to its callers, in four
  actions: store, forget, hit, miss.
- **`AnalysisCache`**: the cache itself: lookup through memo and table, the
  analysis with a YARA breaker that may trip, the store with its compare-and-swap
  on the byte budget and `try_send`, the writer's batches, evictions, the flush,
  crashes and restarts, files found corrupt and replaced under open connections.
  It implements `ResultCache` under the mapping that takes everything still in
  memory, in a queue or in an open file as what may be answered with
  (`KeepsPromise`).
- **`TraitsReload`**: threads that analyse, reload, or flip the skip override,
  each as a small program with a `pc`: every memo is looked at, built without a
  lock and inserted by the first writer, in separate steps. The tree on disk is
  a version number and may be edited at any time; `calm` says that no load step
  has met an edit that was not announced yet.
- **`RuleUpdate`**: threads of several processes that update two channels with a
  staging tree, a backup and a lock file each. A tree is the set of bundle parts
  it holds and what its sidecar names. Every file operation is a step at which the
  disk may fail or a whole process crash, releasing its locks. `locking` says
  whether the file system has locks: where it has none, `try_lock` answers
  `Unsupported` and the installation goes on without (`rule_update.rs:725`).
  `enabled` is the process's `ENABLED`, which a fall back on one thread clears for
  the others. `overlapped`, `overtaken` and `pinned` are ghosts: two installs have
  been in one directory at once, a process has left the channel that one of its
  threads had chosen, a pin has replaced a directory.
- **`CompileClaim`**: calls of `cached_regex` by several workers: own memo, store,
  claim, compile, publish, release; racers poll. Engines are the patterns they
  were compiled from.
- **`RuleEval`**: the passes over one file. A rule book fixes which content
  conditions and gates hold and how serious each finding is; the findings with what
  each cites, the worklists and the sweeps of the suppression are the state. A pass
  over the traits has the code's shortcuts: it leaves out traits that are doomed
  because every composite which needs them needs another trait that the match
  indexes rule out (`Doomed`, `doomed_skip.rs`), evaluates them after all when
  nothing notable has been found (`Evaluated`), keeps at most `MaxFindings` of what
  no rule refers to (`Presented`), does nothing in a tiny file without facts
  (`IndependentTraits`), and may be cut short by a cancellation or by its deadline
  of 180 seconds, which is recorded as a gap (`PassResult`). All small books of a
  family are initial states.
  Its variables, `Init` and `Next` have names of their own (`step`, `EvalInit`,
  ...), so that one module of proofs can extend it beside `TraitsReload`.
- **`MC*`** give the constants values. **`*_proofs`** hold the theorems, of the
  module of their name, but for two: `OrderedScan_proofs` begins with the theorems
  of the gate, and `Rules_proofs` is about `TraitsReload` and `RuleEval`.

Operators marked "Mutant" in a comment are wrong versions of an operation. They
are not part of any specification; each shows that a property notices the bug it
describes.

## Runs

| Run | Instance | Shows |
|---|---|---|
| `scan` | two lanes, three paths (one filtered, one larger than the budget), memory low or unknown, callback may panic, fair | the gate: `Accounting`, `CeilingHolds`; the scan: `PendingCounts`, `Ledger` (no path twice, none lost), `EventsAgree`, `OnlyStuckOverPermit`, `CompletesWithMemory` |
| `flight` | a pool of three workers, two of them lanes, and a thread off the pool; two copies of an archive, one of which holds another archive or a copy of itself; a path to pull, a member on a leaf pool; fair | `MapHoldsLiveFlights`, `NoOrphanFollower`, `OneOwnerPerKey`, `WaitersCapped`, `CountsExact`, `OnlyQuinesCycle` (no set of jobs waits for itself, unless an archive holds itself), `EveryJobEnds` |
| `owner_slots` | two threads, up to four guards each, the host may set caps | `SlotsMatchGuards` (the count of top-level analyses included), `CapsHold` |
| `windows` | two pipelined archives of six and one members on a pool of two workers, one fold may panic, fair | `FoldsInOrder`, `OkMeansComplete`, `ResidentBounded` (windows and heavy members), `EndsUnlessAllPark` |
| `cache` | two threads, two keys, two paths, a channel of one place, a crash, a corrupt file | `CountersExact` (budget, memo bytes, what a flush means), `TrimKeepsTarget`, the refinement `KeepsPromise` |
| `reload` | a pool worker and another thread; two analyses, two reloads, a flip, an edit; fair | `OneMapperPerEpoch`, `CalmHonest`, `QuietReloadTakes`, `EveryOpEnds` |
| `rule_update` | three threads of two processes, with locks or without, two updates, two faults, one directory installed before, the other a git checkout, fair | `NoPartialTree`, `CopySurvives`, `ChannelsKept` (a directory holds its channel's rules; no quiet downgrade), `CheckoutGoesByPin`, `EveryUpdateEnds` |
| `compile_claim` | three workers, four patterns with collisions, one that does not compile, a panic or a clear, fair | `TablesExact` (claim slots and the store's bytes), `RightEngine`, `CompiledOnce`, `EveryCallReturns` |
| `rule_eval` | 26,880 pairs of a rule book and a file, over four traits, three composites and a YARA rule, cancelled, late or neither | `Complete` (what is missed was given up by a named shortcut), `NothingSuppressedLeft`, `EveryCompositeStands`, `DropsHaveCause` |
| `scan_wedge`, `cache_weak`, `rule_eval_layer` | as above | violated: see Findings |

Every module with a run has a type invariant, and each of them is a theorem
(`ResultCache` is implemented and not run by itself). The runs spend their
properties on what could go wrong, and every safety and action property of a
passing run is a theorem too: see Proofs.

Bounds and why they are enough. `scan`: two lanes are the least with which a
lane can wait for another; with two frames each there are four callers of the
gate, and one lane can be stolen onto the other's stack, from its own path or from
one it has pulled. Files need 4, 1 and 6 units of a budget of 6, so that some pairs fit
together and one file fits only alone; three paths leave one to pull while both
lanes are busy. `flight`: the archive has a job on the pool, one off it and one inside itself, which
gives every kind of wait, the archive that holds itself, and the cycle of three (an
archive, its member, a stack) that the wrong wait decision produces. The walk hands
over the one member or the other. `WaiterCap` is 1, that of a pool of three workers,
one of which has no lane and takes up what is handed over. `Small` is empty: a small follower on
the pool never waits, so that the instance has all the waits there can be; the
theorems hold for every `Small`. `MaxFrames` bounds the guards on a thread: two
top-level analyses with a nested guard each is the deepest nesting the wait-time
rule allows. `windows`: four windows put one in the producer's hand, one in the
channel and one under analysis with one to come; a consumer that dies on an
early window leaves two heavy members to an inline one; two producers on two
workers are the least with which all can park. `cache`: under one path the two
keys overflow the byte budget together; the memo holds one or two entries; an
eviction is due at every store. `reload`: two reloads can overlap an analysis
and each other's memos, and `MaxTree` is 2: one edit. `rule_update`: `MaxFaults`
is 2, the last for which `NoPartialTree` says something (see Findings); two updates
are two that overlap, one that falls back under another, or one that fails and one
that finds what it left; of the three threads two share a process, which holds a
token, and the other is in a process that insists on its channel, so that a race is
within a process or between two, and the threads refresh, ensure and pin; one
channel publishes meanwhile, the other stays; an entry of a bundle that is missing
needs two entries. `compile_claim`: `Polls` is 2 instead
of 40; what matters is a poll before, during and after the owner. `rule_eval`:
the longest chain is a trait on a trait, a composite on it and two more; books of a
second family have a trait that is doomed, the partner that dooms it, a layer that
holds the partner, and a trait that depends on the skipped one; `MaxFindings` is 1
instead of 500, so that two findings are too many; `MaxRounds` is 3 instead of 10,
and `Complete` speaks of evaluations that no bound has cut, of which there are
enough in every shape.

Fairness. `ScanFairSpec`: a lane that has not started is taken up by an idle thread
(there are as many lanes as threads at most, and a thread is idle when its work is
done), lanes that nothing holds up run, an analysis that runs ends, the poll timeout
of `wait_timeout` ends every wait and the clock advances; nothing is assumed of
stealing, of the host's memory, of cancellation or of whether a waiting analysis
finds something to pull. `FairSpec` of `SingleFlight`: threads run their stacks and
their serial walks, and a worker with an empty stack takes up a member that was
handed over, as rayon wakes it to do; nothing is assumed of a worker that is in a
`join` or a wait, and nothing of a thread off the pool that has handed its members
over but that it goes on when they are done. `GiveUp` is not fair either,
so that `EveryJobEnds` shows that waits end through their owners and not through
the deadlines the code has as a safety net. What an analysis itself spreads over the
pool (the traits of a large file) is no job of the model: it ends when its analysis
does. Failing owners do not make a job
retry for ever because every failure uses up a job. `MemberWindow`: producers
that are not parked and walks that are not waiting go on, and a free worker takes
up a member; nothing is assumed of panics or cancellation. In `TraitsReload`,
`RuleUpdate` and `CompileClaim` each thread or process goes on while it can;
edits, faults and upsets are not assumed. A process that crashed does not go on with
its updates.
`AnalysisCache`, `ParallelOwners` and `RuleEval` state safety only.

Deadlock is checked in `scan`, `flight`, `owner_slots`, `cache` and `rule_eval`,
whose models have a final state that stutters or never stop. The others end when
their operations are used up, which their liveness properties describe.

## Findings

- `scan_wedge`: the scan may never return. A lane in a flight wait holds its
  permit and pulls a path; the path is refused by the gate; the timed escape
  admits without the live check only when nothing is reserved, and the lane's
  own permit is. With memory low, it waits for ever, on top of the permit whose
  release would let it in. The permit need not be the lane's own: until all lanes
  have started, a lane can be stolen onto the stack of an analysis of another lane,
  or of one that helps with it (`scan.rs:296`), and then waits on top of that
  permit. `OnlyStuckOverPermit` shows that these are the only
  ways not to return, and `CompletesWithMemory` that enough memory ends it; the
  theorem `GridlockCause` shows for any number of lanes that when all of them
  wait and the escape still refuses, one waits while an analysis that it holds up
  keeps a permit.
- `cache_weak`: whether YARA was degraded is asked when a report is stored. A
  rule load of any engine resets the breaker, so that a report scanned behind the
  tripped breaker can be stored as if it were whole. The theorem
  `OnlyLoadsLetWeakIn` shows that nothing else lets one in: without a second load
  no crash, race or repair does.
- `rule_eval_layer`: as soon as anything in a file is suppressed, a composite
  that fired on a finding of a decoded layer is removed, although nothing it
  cites was: its legs are looked for among the file's own findings only. The
  theorem `OnlyOrphansWithoutLayers` shows that layers and views are the only cause:
  without them, a file loses what is suppressed and what cited something lost.

Further remarks that no run depends on.

- With pipelined windows (opt-in), a pool of two workers does not suffice, as the
  comment on `pipeline_member_windows` suggests, when two archives are analysed:
  both workers may be producers parked in a send, a join or the scope, and their
  consumers' fan-outs wait for a worker. `EndsUnlessAllPark` states that this is
  the only way not to end. The comment on `new_in` says that the scope never
  hangs.
- The resident windows of a pipelined archive are up to three, where the comment
  says one more than inline; `ResidentBounded` states three.
- After a consumer has died, `flush` says that the join in `finalize` propagates
  its panic. The handle is dropped with the pipeline; it is the scope that
  panics, after everything was read, so that the archive's result is lost.
- "Retry once" after a failed owner (`member.rs:355`) is not bounded, and a
  follower can rejoin the failed flight before its owner has removed it. A
  callback that panics makes a file count as analysed and as an error; a path
  that waits in the gate when the scan is cancelled still starts.
  `ScanSummary.total` is documented as files that passed the type filter and
  counts all paths.
- `ToplevelInFlightGuard` records the class of its thread at entry "so the
  release matches the claim", but the claim uses the class at the time of the
  claim; the model marks threads before their first analysis, as the
  documentation of `mark_thread_background` asks, and `SlotsMatchGuards` rests on
  that.
- `analysis_cache.rs` says of a thread that owns a flight that it "must never block
  on another flight". `wait_bounded` in `member.rs` does not ask off the pool. An
  archive that holds a copy of itself, analysed there, waits for its own flight until
  the deadline passes; `OnlyQuinesCycle` says that no other wait is a cycle.
- The swap of a rules directory is called atomic and is two renames; a reader in
  between finds nothing. A whole copy exists at every moment up to the first
  fault and beyond it (`CopySurvives`). Three faults leave half a tree in place:
  a crash between the renames, a removal that deletes part of the only backup,
  and an install that fails and puts that part back. `NoPartialTree` states this
  limit.
- The lock of an installation is "held until the swap is done"
  (`rule_update.rs:711`). On a file system without locks the installation goes on
  without one, and two of them share the staging path and the backup: one can install
  half of what the other extracts, or remove the last copy, without any fault.
  `NoPartialTree` and `CopySurvives` speak of directories in which that has not
  happened, and show that it happens only there.
- "The directory name is the channel" (`traits_repo.rs`). An update chooses its
  directory and asks later which channel's manifest to fetch. When another thread of
  the process falls back in between, the open-source bundle is installed into
  `traits-enriched`. `ChannelsKept` shows that this is the only way, and that the
  open-source directory never gets the other bundle.
- A checkout is called "a dev tree we must never overwrite" (`rule_update.rs:148`).
  `update` looks; `pin` does not and replaces it. A crash between its two renames
  leaves the checkout in the backup only, which the next installation removes.
  `CheckoutGoesByPin` shows that nothing but a pin starts this.
- A load of rules that overlaps an edit of the tree may save, and use, the text
  of one version under the key of another; `CalmHonest` states the condition.
- `doomed_skip.rs` (line 1) skips a trait "whose every consumer composite is already
  unsatisfiable on this file". The composite may be satisfiable: through a directory in
  its `all:` that the trait would be a member of, or because a decoded layer or a view
  holds the partner that the file itself does not. And what refers to the trait in an
  `if:` of its own is not asked, so that such a trait is lost with it. `Complete`
  states these as the price of the skip, and that it has no other.
- Rule evaluation: a trait whose condition names another trait stays when that
  one is suppressed; a composite that was withheld by a suppressor does not
  return when the suppressor goes; the retroactive check counts `crit: exception`
  findings, which evaluation does not, although the comment says that the two
  agree; the doc of the cascade says an `all:` composite that loses a leg is kept
  where the code drops it. The contexts of third-party rules protect a trait neither
  from the skip nor from the limit of a pass. Whether something notable has been
  found is asked before suppressions are taken back.

## Proofs

The first part of `OrderedScan_proofs` proves, for any finite set of callers, any
sizes and any memory levels, `GateTypeOK`, `Accounting` and `CeilingHolds`. Sums are awkward
for the provers, so a reservation is a set with one element per unit
(`UnitsOf`), and `Accounting` says that `reserved` is its cardinality. An
admission adds a disjoint set of units and a release removes one, which are two
facts about finite sets. `GateTypeOK` is inductive by itself and bounds every
estimate by the budget; `Accounting` is inductive given the types, and so is
`CeilingHolds` given both. The ceiling follows
because an unforced admission, unless nothing is reserved, checks the whole
reservation against the budget. The assumption `NoOverflow` says that all
callers together can hold their largest estimate without leaving the machine
word; without it the `+=` could wrap.

`SingleFlight_proofs` proves, for any threads, jobs, keys and nesting, `TypeOK`,
`MapHoldsLiveFlights`, `NoOrphanFollower`, `OneOwnerPerKey` and `WaitersCapped`.
Most of them are not inductive. The invariant `IInv` has three parts: `Shape`
(the types), `FlightInv` (the owner's handle is its own flight; an owner is in
the map under its key until it has taken itself out, and the map holds nothing
else; a follower's flight has published or its owner is on its way to; a flight
that is about to be removed has published), and `WaitersInv` (the counter is the
number of jobs that count themselves in, of which at most the cap stay; this
gives the range of the counter, which is why `TypeOK` needs it). The step that
matters is `Retire`: under the map lock, a reference count of one means that no
follower has this flight, and removing the entry means none ever will.

`CountsExact` and `OnlyQuinesCycle` are about whole stacks. `StackInv` says that a
job is on one stack once, from its start to its end, and that the thread-local
counts are the numbers of its jobs in the states they count. `NestInv` says how
stacks are built: what has something on top of it yields or unpacks; off the
pool a job runs only on top of the analysis that unpacks it; what yields is a
top-level member with nothing but others like it below; and the order of the
starts is one in which whatever runs on top of a job, or for it, comes later.
A set of jobs each of which waits for one of the set has no owner on a leaf pool,
since those need nobody, and no job of the pool that does not yield, since the one of
them that started last needs none of the others. The jobs do not all yield either,
again by the last start. So there are jobs off the pool among them, and each of these
waits for the owner of its flight or, as an archive, for a member. The last of them
to start waits for a flight; and from an archive to its member, and from a member to
the archive that owns its flight, one gets to a set of archives each of which holds
one of the set. `FlightCycles` says so without any hypothesis about which
archive holds which. Where no archive holds itself, however deep, there is no such
set, and no wait is a cycle.

The rest of `OrderedScan_proofs` shows first that the lanes use the gate as its own
specification allows: every step of the scan is a step of the gate or leaves it
alone, because the stage of a frame and its place in the gate agree (`ScanInv`).
`ScanImplementsGate` is the refinement, and `ScanKeepsGate` carries `Accounting`
and `CeilingHolds` over. `PendingExact` says that `TOPLEVEL_PENDING` is the
cardinality of the set of frames that have pulled a path and not been admitted.
`LedgerHolds` counts the files and the frames with an uncounted path and shows
that each step moves one unit between the sides; `EventsAgreeHolds` rests on a
log per path, of which there are five, and on results that are counted and not
yet delivered. `ScanTypes` needs one more fact, that frames which pulled a path map
one-to-one into the paths taken: it keeps `pending` within the length of the
list. `GridlockCause` is the safety half of `OnlyStuckOverPermit`: the timed
escape refuses only while something is reserved; what is reserved is held by a
frame that does not wait in the gate; and when nothing but the gate is left, that
frame is held up by one that does, since `beneath` is transitive and without
circles (`ScanInv`). The
assumption `Lanes # {}` is what `for_each_ordered` ensures when it takes at least
one lane.

`ParallelOwners_proofs` defines from the stack alone which guards hold a slot:
each guard saved what was true of the guards below it, so the innermost top-level
guard holds what the thread-locals say, and the others what the guard above saved
(`StackOK`). A counter is the cardinality of the set of guards, over all threads,
that hold a slot of its kind and class (`Exact`); a push and a pop move one
element. `CapsAlwaysHold` needs that caps do not shrink below a claim that is
under way: the host sets them only before they are fixed, and the first load fixes the
cap of its kind. The number of threads is finite. `OwnersTypes` shows that no
counter leaves the machine word although a guard's drop is a plain `fetch_sub`; its
hypothesis is that the guards which fit on all stacks can be counted in a word.
Owners stay within their caps, a value that a compare-and-swap saw was once there,
and `inFlight` counts guards.

`CompileClaim_proofs`: `ClaimInv` says that a slot is held by the guard of one
worker, that the store has no pattern twice and none that does not compile, and
that its bytes are the cardinality of a set of units, within the budget. The
eviction loop is the least number of entries to drop, which exists by
well-foundedness. `CompiledOnceHolds` adds an invariant for the time in which
everything is smooth: who compiles does not find its pattern stored and is alone
with it; who is about to release, or sees a slot that is no longer its hash's,
finds it in the store; and the number of compilations of a pattern is one exactly
when it is stored or about to be.

`Rules_proofs`, first part (`TraitsReload`): what a thread has read or loaded is of the version on disk
as long as all is calm; a memo is empty or current unless the edit it misses is
still to be announced; and an analysis that took a mapper in this epoch took the one in
the slot (`ReloadInv`). `ReloadsTake` is an action property: a reload that no
other load and no edit overlaps installs the rules of the tree.

`Rules_proofs`, second part (`RuleEval`), for any finite set of rules and any rule
book over it. `EvalInv` is what the place in the evaluation says of the findings.
`Complete` rests on what an interrupted fixed point has still to look at
(`TraitsInv`): after the first pass no trait without references is missing that was
not forgone, and after each later one every trait that matches, is missing and was
not forgone has a neighbour,
something it names, among what that round added, which is why a round need not
look at the others; when nothing was added, nothing is missing. What has been
forgone stays so (`ForgoneStays`): the doom of a trait is the book's, and notable
findings only become more. `SkipCosts` is about the composites: one that matches
with a doomed trait added and not without cites that trait; unless it has a directory
in its `all:`, it cannot do without it, so that it is one of the consumers whose
partner is ruled out; the partner is in sight only if a layer or a view has it.
Composites without
`unless:` are settled before those with one get their turn, and both are when the
rounds end (`CompositesInv`). `NothingSuppressedLeft` needs only `EvalInv` and the
last step of the cascade. The other two are about citations. `Evidence` says that
what a composite cites satisfies its trait legs by itself, when it was found and
when the findings were merged. With it, `CauseInv` says of everything that has gone
or is about to go why it does: something it is suppressed by, something it cited
that went first, or a citation that never was the report's own. `StandInv` says of
every composite that stays that its citations are there and its legs are met,
through every round of a cascade that strikes citations and looks for others.
`EveryConclusionStands` has a hypothesis, `LegsNameRules`: no leg of a composite
names a third-party finding. Validation reports a leg that no rule defines
(`broken_references`, `references.rs:598`), and the run's books satisfy it. It is
needed. A third-party finding with an `unless:` is removed before the sweep and
nothing cascades from it, so that a composite which had cited one would keep a
citation that is gone; TLC finds that behaviour in books with such a leg.

`RuleUpdate_proofs`: `UpdateInv` has a part for each update and a part for each
directory. An update knows in which directory its bundle may go (`Chosen`, `Fits`),
whether its process has locks or not: the enriched channel's into its own, the
open-source one also into the other once a process has been overtaken. A directory
holds only such bundles (`Names`), and a checkout that no pin has replaced stands
where it was (`Stands`), whatever overlaps. The rest holds as long as one install at
a time has been in a directory, which the lock ensures where there is one (`Common`):
an update in the section knows what it has staged, and from the first
rename on what is in its directory (`Progress`); a tree in place is whole until the
third fault, a directory is missing beside a backup only between the two renames
or after a fault, and it takes two faults to spoil that backup (`DiskOK`,
`Kept`). Steps of one update leave alone what the invariant
says of the others because they are in other directories, or outside the section, or
the overlap is on record (`Apart`).

`MemberWindow_proofs`: the members of an archive before a `Front` are settled,
that is folded or without a result, and in order; those behind it are in the
window that is walked, in the channel or in the window being filled. A chunk that
is fanned out moves the front when a delivery closes the gap at `next`. The
invariant of an archive mentions nothing of the others but the number of panics,
so a step of one archive keeps it for the rest. The folds append the ascending
enumeration of a finite set of numbers, which the module proves to exist.
`OnlyParkingStops` is the safety half of `EndsUnlessAllPark`: in a state where no
producer, consumer, walk or member can move (`Stands`: the guards of the steps,
which TLC found to be those for which a step is enabled, inline and pipelined),
everything has ended or every worker is a parked producer. Some group of heavy
members is the first, so that a fan-out with members left has one that may start;
a fan-out that stands therefore has no worker, no member runs, and all workers are
producers.

`AnalysisCache_proofs`: `CacheInv` has a part for each part of the state: the
lookups of the threads, the command, the queue and its budget, the memo, the rows
of the files (a key has one row), the files left for repairs, and the eviction,
which one thread has at a time. A sum of bytes is the cardinality of a set of
units, as for the gate; what the memo drops from its old end is the least number of
entries that makes it fit, which exists by well-foundedness. `CountersExact` is part
of it: the budget is what is charged, queued and batched, through a compare-and-swap
that may fail, a full channel, a batch that fails and a deadline that passes.
`TrimKeepsTarget` is an action property: between the count and the trim other
threads only add rows to that file, so that the trim leaves what it aimed at.
`PromiseKept` is the refinement, step by step: a step of the cache adds nothing
to what is held (`Held`) unless it is a store, answers nobody unless it is a hit or
a miss, and a hit is of a report that is held (`PromiseStep`). The steps that
matter are those that move a report from one place to another (from the channel to
the batch, to a file, to the memo): it was held before and is held after. A trim or
a lost batch forgets. `OnlyLoadsLetWeakIn` adds that a weak report on its way to
the store has the breaker tripped in front of it; its hypothesis, that rules are
loaded once per process, is a value of the constant `Loads`.

What stays with TLC. Every invariant and every action property of the passing
runs is a theorem. Liveness under fairness is out of the prover's reach:
`OnlyStuckOverPermit`, `CompletesWithMemory`, `EveryJobEnds`,
`EndsUnlessAllPark`, `EveryOpEnds`, `EveryUpdateEnds`, `EveryCallReturns`. For two
of them a theorem has the part that needs no fairness (`GridlockCause`,
`OnlyParkingStops`), and for `EveryJobEnds` it is `FlightCycles`. The runs that
expect a violation refute their property on an instance and need no proof.

## Abstractions and limits

Reports, paths and file contents are left out: a report is its key, its path and
whether its scan was whole; in `SingleFlight` a cache hit is a possible outcome
of a lookup, and whether a report is bound to its owner's path is a choice. The
list of an ordered scan (walk, size probes, sort) is a constant. A callback that
panics while the panic of a path is being reported is not modelled. Atomics are
sequentially consistent; every counter that is modelled is a single location
changed by read-modify-write operations, and no property relates two relaxed
locations except `PendingCounts`, whose two are changed by the same thread.
`set_parallel_owner_caps` is one step although it stores four caps one after the
other: they are read independently. Environment overrides
(`CLEAVE_INNER_PARALLEL_OWNERS`, `CLEAVE_SCAN_LANES`, `CLEAVE_SERIAL_TRAITS`,
`CLEAVE_MEMBER_WINDOW_COUNT`, ...) are values of the constants or leave the
modelled code unused. A file that is read while it is edited is read whole in
`TraitsReload`; `RuleUpdate` has file operations that happen or fail, and nothing
in between but a crash. In `RuleEval` the match indexes are right (a trait that they
rule out does not match), downgrades are settled in the book, which findings over the
limit go is arbitrary, the report's limit of 8192 findings is not reached, and a pass
that the deadline cuts short returns any part of what matches: that it could return
more, when the deadline falls into an `unless:` over content, is left out.

## Not modelled

- Report flights (`pipeline.rs`) wait without a deadline and otherwise follow the
  protocol of member flights. `set_override_dir`. Signing in to a channel
  (`connect_device`): a dialogue with a server. Heavy members on isolated pools
  and by priority, and archives within archives, in `MemberWindow`.
- Subprocesses: one thread waits for one child; what may go wrong is in the
  host's process groups.
- Parsers, extractors, decoders, the YARA engine, rule parsing and validation,
  diff, output and the command line, which are most of the repository's lines:
  sequential code whose correctness is about bytes, tables and text. A model of
  it would repeat it.

## Plan

*Done:* the modules above, their runs, and the theorems: the type invariant of
every module with a run, the safety and action properties of every passing run,
and the two refinements.

What would extend it, in this order: report flights (`pipeline.rs`) as a second
instance of `SingleFlight` whose waits have no deadline; heavy members on isolated
pools in `MemberWindow`; the waiting and killing of subprocesses.
