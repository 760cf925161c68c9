---------------------------- MODULE TraitsReload ----------------------------
(***************************************************************************)
(* Rules that are replaced while analyses run (src/shared_resources.rs,    *)
(* src/cache.rs, src/rule_sources.rs, the loader of the capability         *)
(* mapper, and the cache keys of src/pipeline.rs).                         *)
(*                                                                         *)
(* The process memoizes the rule sources it read, the scan of the traits   *)
(* tree every cache key derives from, the traits revision, and the mapper  *)
(* itself.  Each is read under a lock, built with no lock held, and then   *)
(* inserted by the first writer.  A reload drops the memos one after the   *)
(* other, loads, and swaps the mapper.                                     *)
(*                                                                         *)
(* The content of the traits tree is a version; version 0 is "no traits".  *)
(* A mapper has the version of the rules it was built from and the version *)
(* that its pinned traits_revision names; the two should be the same.      *)
(***************************************************************************)
EXTENDS Integers, FiniteSets

CONSTANTS
    Pool,        \* rayon workers: they analyse
    Hosts,       \* other threads: they analyse, reload and set the override
    NoMapper,
    MaxTree,     \* bound: versions of the tree
    Analyses,    \* bound: analyses
    Reloads,     \* bound: reloads
    Flips        \* bound: changes of the skip-traits override

Threads == Pool \cup Hosts
Versions == 0..MaxTree
Mappers == [rules : Versions, pin : Versions, by : Threads]

ASSUME ReloadAssumption ==
    /\ Pool \cap Hosts = {}
    /\ MaxTree \in Nat \ {0}
    /\ {Analyses, Reloads, Flips} \subseteq Nat
    /\ NoMapper \notin Mappers

VARIABLES
    tree,      \* the version of the traits tree on disk
    skip,      \* skip_traits_requested
    sources,   \* SOURCES: version of the snapshot, 0: none
    scan,      \* TRAITS_SCANS: version of the scan, 0: none
    revision,  \* TRAITS_REVISION, 0: none
    slot,      \* CAPABILITY_MAPPER
    saved,     \* the mapper cache on disk: rules saved under each key, 0: none
    lock,      \* threads that hold the mapper build lock
    results,   \* the analysis cache: key and rules of each stored report
    op,        \* what each thread is doing
    pc,        \* where it is
    want,      \* what it needs the scan for
    seen,      \* the version it has read and not yet inserted
    rules,     \* the version of the rules it has loaded
    pin,       \* the revision it has pinned
    mapper,    \* the mapper it analyses with
    epoch,     \* ghost: number of swaps and invalidations of the slot
    since,     \* ghost: the epoch in which a thread took its mapper
    calm,      \* ghost: no load has overlapped an edit and its invalidation
    pending,   \* ghost: an edit that no reload has invalidated yet
    left       \* analyses, reloads and flips still allowed

memos == <<sources, scan, revision>>
locals == <<want, seen, rules, pin>>
ghosts == <<epoch, since, calm, pending>>
vars == <<tree, skip, memos, slot, saved, lock, results, op, pc, locals, mapper,
          ghosts, left>>

\* The steps in which a thread looks at the tree or at a memo of it.
Loading == {"scan", "pushSources", "pushScan", "use", "lock", "sources"}

\* Every variable has its type, and the build lock is held only by a thread
\* that is loading: every way out of a load gives it back.
TypeOK ==
    /\ tree \in 1..MaxTree
    /\ skip \in BOOLEAN
    /\ {sources, scan, revision} \subseteq Versions
    /\ slot \in Mappers \cup {NoMapper}
    /\ saved \in [1..MaxTree -> Versions]
    /\ lock \subseteq {h \in Hosts : pc[h] \in Loading} /\ Cardinality(lock) <= 1
    /\ results \subseteq [key : Versions, rules : Versions]
    /\ op \in [Threads -> {"none", "analyse", "reload", "flip"}]
    /\ pc \in [Threads -> Loading \cup
                 {"idle", "build", "dropSources", "dropScan",
                  "dropRevision", "clear", "publish", "swap", "ambient", "finish"}]
    /\ want \in [Threads -> {"none", "probe", "reprobe", "parse", "save", "pin", "revision"}]
    /\ {seen, rules, pin} \subseteq [Threads -> Versions]
    /\ mapper \in [Threads -> Mappers \cup {NoMapper}]
    /\ epoch \in Nat
    /\ since \in [Threads -> Nat]
    /\ calm \in BOOLEAN
    /\ pending \in BOOLEAN
    /\ left \in [analyse : 0..Analyses, reload : 0..Reloads, flip : 0..Flips]

Init ==
    /\ tree = 1
    /\ skip = FALSE
    /\ sources = 0
    /\ scan = 0
    /\ revision = 0
    /\ slot = NoMapper
    /\ saved = [v \in 1..MaxTree |-> 0]
    /\ lock = {}
    /\ results = {}
    /\ op = [t \in Threads |-> "none"]
    /\ pc = [t \in Threads |-> "idle"]
    /\ want = [t \in Threads |-> "none"]
    /\ seen = [t \in Threads |-> 0]
    /\ rules = [t \in Threads |-> 0]
    /\ pin = [t \in Threads |-> 0]
    /\ mapper = [t \in Threads |-> NoMapper]
    /\ epoch = 0
    /\ since = [t \in Threads |-> 0]
    /\ calm = TRUE
    /\ pending = FALSE
    /\ left = [analyse |-> Analyses, reload |-> Reloads, flip |-> Flips]

Goto(t, l) == pc' = [pc EXCEPT ![t] = l]
Ask(t, w) == Goto(t, "scan") /\ want' = [want EXCEPT ![t] = w]
See(t, v) == seen' = [seen EXCEPT ![t] = v]

\* A load step between an edit and the end of its invalidation ends the calm.
NoteLoad == calm' = (calm /\ ~pending)

-----------------------------------------------------------------------------
(* The memoized scan of the tree: traits_scan_for, on top of               *)
(* rule_sources::shared.  `want` says what the caller needs it for.        *)

\* Read the memo; on a miss, the index kept on disk (which is checked against
\* the tree), the memoized sources, or the tree itself.
ReadScan(t) ==
    /\ pc[t] = "scan"
    /\ \/ scan # 0 /\ See(t, scan) /\ Goto(t, "use")
       \/ scan = 0 /\ See(t, tree) /\ Goto(t, "pushScan")
       \/ scan = 0 /\ sources # 0 /\ See(t, sources) /\ Goto(t, "pushScan")
       \/ scan = 0 /\ sources = 0 /\ See(t, tree) /\ Goto(t, "pushSources")
    /\ NoteLoad
    /\ UNCHANGED <<tree, skip, memos, slot, saved, lock, results, op, want,
                   rules, pin, mapper, epoch, since, pending, left>>

\* rule_sources::shared, read and built with no lock held.
ReadSources(t) ==
    /\ pc[t] = "sources"
    /\ \/ sources # 0 /\ See(t, sources) /\ Goto(t, "use")
       \/ sources = 0 /\ See(t, tree) /\ Goto(t, "pushSources")
    /\ want' = [want EXCEPT ![t] = "parse"]
    /\ NoteLoad
    /\ UNCHANGED <<tree, skip, memos, slot, saved, lock, results, op, rules, pin,
                   mapper, epoch, since, pending, left>>

FirstWriter(memo, v) == IF memo = 0 THEN v ELSE memo

PushSources(t) ==
    /\ pc[t] = "pushSources"
    /\ sources' = FirstWriter(sources, seen[t])
    /\ See(t, sources')
    /\ Goto(t, IF want[t] = "parse" THEN "use" ELSE "pushScan")
    /\ NoteLoad
    /\ UNCHANGED <<tree, skip, scan, revision, slot, saved, lock, results, op,
                   want, rules, pin, mapper, epoch, since, pending, left>>

PushScan(t) ==
    /\ pc[t] = "pushScan"
    /\ scan' = FirstWriter(scan, seen[t])
    /\ See(t, scan')
    /\ Goto(t, "use")
    /\ NoteLoad
    /\ UNCHANGED <<tree, skip, sources, revision, slot, saved, lock, results, op,
                   want, rules, pin, mapper, epoch, since, pending, left>>

-----------------------------------------------------------------------------
(* Loading a mapper: from_directory_exact.                                 *)

\* The mapper cache is keyed by the scan.  A hit goes straight to the pin.
Probe(t) ==
    /\ pc[t] = "use" /\ want[t] \in {"probe", "reprobe"}
    /\ \/ /\ saved[seen[t]] # 0
          /\ rules' = [rules EXCEPT ![t] = saved[seen[t]]]
          /\ Ask(t, "pin")
       \/ /\ saved[seen[t]] = 0
          /\ Goto(t, IF want[t] = "probe" THEN "lock" ELSE "sources")
          /\ UNCHANGED <<want, rules>>
    /\ NoteLoad
    /\ UNCHANGED <<tree, skip, memos, slot, saved, lock, results, op, seen, pin,
                   mapper, epoch, since, pending, left>>

\* Mutant: a worker waits for the build lock like any other thread.
BuildLockAll(t) ==
    /\ pc[t] = "lock"
    /\ lock = {}
    /\ lock' = {t}
    /\ Ask(t, "reprobe")
    /\ NoteLoad
    /\ UNCHANGED <<tree, skip, memos, slot, saved, results, op, seen, rules, pin,
                   mapper, epoch, since, pending, left>>

\* mapper_build_lock: a worker never waits, and builds unlocked.
BuildLock(t) ==
    /\ pc[t] = "lock"
    /\ IF t \in Pool
       THEN Goto(t, "sources") /\ UNCHANGED <<lock, want>>
       ELSE /\ lock = {}
            /\ lock' = {t}
            /\ Ask(t, "reprobe")
    /\ NoteLoad
    /\ UNCHANGED <<tree, skip, memos, slot, saved, results, op, seen, rules, pin,
                   mapper, epoch, since, pending, left>>

\* parse_trait_files runs on the pool: it ends only if some worker is free.
Parse(t) ==
    /\ pc[t] = "use" /\ want[t] = "parse"
    /\ \E w \in Pool : pc[w] # "lock" \/ w = t
    /\ rules' = [rules EXCEPT ![t] = seen[t]]
    /\ Ask(t, "save")
    /\ NoteLoad
    /\ UNCHANGED <<tree, skip, memos, slot, saved, lock, results, op, seen, pin,
                   mapper, epoch, since, pending, left>>

\* save_mapper_cache, under the key of the scan as it is now.
Save(t) ==
    /\ pc[t] = "use" /\ want[t] = "save"
    /\ saved' = [saved EXCEPT ![seen[t]] = rules[t]]
    /\ Ask(t, "pin")
    /\ NoteLoad
    /\ UNCHANGED <<tree, skip, memos, slot, lock, results, op, seen, rules, pin,
                   mapper, epoch, since, pending, left>>

\* What a finished load is for.
AfterLoad(t) == IF op[t] = "reload" THEN "swap" ELSE "publish"

\* from_loaded_rules pins the revision; the load returns and the lock with it.
Pin(t) ==
    /\ pc[t] = "use" /\ want[t] = "pin"
    /\ pin' = [pin EXCEPT ![t] = seen[t]]
    /\ lock' = lock \ {t}
    /\ want' = [want EXCEPT ![t] = "none"]
    /\ See(t, 0)
    /\ Goto(t, AfterLoad(t))
    /\ NoteLoad
    /\ UNCHANGED <<tree, skip, memos, slot, saved, results, op, rules, mapper,
                   epoch, since, pending, left>>

Built(t) == [rules |-> rules[t], pin |-> pin[t], by |-> t]

-----------------------------------------------------------------------------
(* An analysis: shared_mapper, then the lookup and the store.              *)

Take(t, m) ==
    /\ mapper' = [mapper EXCEPT ![t] = m]
    /\ since' = [since EXCEPT ![t] = epoch]

\* The fast path of shared_mapper, or the decision to build.
Analyse(t) ==
    /\ op[t] = "none" /\ left.analyse > 0
    /\ left' = [left EXCEPT !.analyse = @ - 1]
    /\ op' = [op EXCEPT ![t] = "analyse"]
    /\ IF slot # NoMapper
       THEN Take(t, slot) /\ Goto(t, "ambient")
       ELSE Goto(t, "build") /\ UNCHANGED <<mapper, since>>
    /\ UNCHANGED <<tree, skip, memos, slot, saved, lock, results, locals, epoch,
                   calm, pending>>

\* Mutant: the builder that comes second keeps its own mapper.
PublishOwn(t) ==
    /\ pc[t] = "publish"
    /\ slot' = IF slot = NoMapper THEN Built(t) ELSE slot
    /\ Take(t, Built(t))
    /\ Goto(t, "ambient")
    /\ UNCHANGED <<tree, skip, memos, saved, lock, results, op, locals, epoch,
                   calm, pending, left>>

\* The first writer wins; the others use its mapper.
Publish(t) ==
    /\ pc[t] = "publish"
    /\ slot' = IF slot = NoMapper THEN Built(t) ELSE slot
    /\ Take(t, slot')
    /\ Goto(t, "ambient")
    /\ UNCHANGED <<tree, skip, memos, saved, lock, results, op, locals, epoch,
                   calm, pending, left>>

\* ambient_traits_revision, the key of the lookup.
Ambient(t) ==
    /\ pc[t] = "ambient"
    /\ \/ (skip \/ revision # 0) /\ See(t, IF skip THEN 0 ELSE revision)
          /\ Goto(t, "finish") /\ UNCHANGED want
       \/ ~skip /\ revision = 0 /\ Ask(t, "revision") /\ UNCHANGED seen
    /\ UNCHANGED <<tree, skip, memos, slot, saved, lock, results, op, rules, pin,
                   mapper, ghosts, left>>

PushRevision(t) ==
    /\ pc[t] = "use" /\ want[t] = "revision"
    /\ revision' = FirstWriter(revision, seen[t])
    /\ See(t, revision')
    /\ want' = [want EXCEPT ![t] = "none"]
    /\ Goto(t, "finish")
    /\ NoteLoad
    /\ UNCHANGED <<tree, skip, sources, scan, slot, saved, lock, results, op,
                   rules, pin, mapper, epoch, since, pending, left>>

Idle(t) ==
    /\ op' = [op EXCEPT ![t] = "none"]
    /\ pc' = [pc EXCEPT ![t] = "idle"]
    /\ mapper' = [mapper EXCEPT ![t] = NoMapper]
    /\ since' = [since EXCEPT ![t] = 0]
    /\ rules' = [rules EXCEPT ![t] = 0]
    /\ pin' = [pin EXCEPT ![t] = 0]
    /\ seen' = [seen EXCEPT ![t] = 0]

\* Mutant: a report is stored under the ambient revision.
StoreKeyAmbient(t) == seen[t]

\* A report is stored under the revision its mapper pinned.
StoreKey(t) == mapper[t].pin

\* The lookup hits, or the file is analysed and stored.
Finish(t) ==
    /\ pc[t] = "finish"
    /\ \/ /\ \E r \in results : r.key = seen[t]
          /\ UNCHANGED results
       \/ results' = results \cup {[key |-> StoreKey(t), rules |-> mapper[t].rules]}
    /\ Idle(t)
    /\ UNCHANGED <<tree, skip, memos, slot, saved, lock, want, epoch, calm,
                   pending, left>>

-----------------------------------------------------------------------------
(* Reloads and the skip-traits override.                                   *)

\* The traits tree is replaced (rule update, edit).
EditTree ==
    /\ tree < MaxTree /\ left.reload > 0
    /\ tree' = tree + 1
    /\ pending' = TRUE
    /\ calm' = (calm /\ \A t \in Threads : pc[t] \in {"idle", "ambient", "finish"})
    /\ UNCHANGED <<skip, memos, slot, saved, lock, results, op, pc, locals,
                   mapper, epoch, since, left>>

\* reload_capability_mapper
Reload(t) ==
    /\ t \in Hosts /\ op[t] = "none" /\ left.reload > 0
    /\ left' = [left EXCEPT !.reload = @ - 1]
    /\ op' = [op EXCEPT ![t] = "reload"]
    /\ Goto(t, "dropSources")
    /\ UNCHANGED <<tree, skip, memos, slot, saved, lock, results, locals, mapper,
                   ghosts>>

\* set_skip_traits_override with a new value.
Flip(t) ==
    /\ t \in Hosts /\ op[t] = "none" /\ left.flip > 0
    /\ left' = [left EXCEPT !.flip = @ - 1]
    /\ op' = [op EXCEPT ![t] = "flip"]
    /\ skip' = ~skip
    /\ Goto(t, "dropSources")
    /\ UNCHANGED <<tree, memos, slot, saved, lock, results, locals, mapper, ghosts>>

\* Mutant: the sources are kept.
DropSourcesNot(t) ==
    /\ pc[t] = "dropSources"
    /\ Goto(t, "dropScan")
    /\ UNCHANGED <<tree, skip, memos, slot, saved, lock, results, op, locals,
                   mapper, ghosts, left>>

\* invalidate_traits_scan: the memos are dropped one after the other.
DropSources(t) ==
    /\ pc[t] = "dropSources"
    /\ sources' = 0
    /\ Goto(t, "dropScan")
    /\ UNCHANGED <<tree, skip, scan, revision, slot, saved, lock, results, op,
                   locals, mapper, ghosts, left>>

DropScan(t) ==
    /\ pc[t] = "dropScan"
    /\ scan' = 0
    /\ Goto(t, "dropRevision")
    /\ UNCHANGED <<tree, skip, sources, revision, slot, saved, lock, results, op,
                   locals, mapper, ghosts, left>>

DropRevision(t) ==
    /\ pc[t] = "dropRevision"
    /\ revision' = 0
    /\ pending' = FALSE
    /\ Goto(t, IF op[t] = "flip" THEN "clear" ELSE "build")
    /\ UNCHANGED <<tree, skip, sources, scan, slot, saved, lock, results, op,
                   locals, mapper, epoch, since, calm, left>>

\* invalidate_capability_mapper
Clear(t) ==
    /\ pc[t] = "clear"
    /\ slot' = NoMapper
    /\ epoch' = epoch + 1
    /\ Idle(t)
    /\ UNCHANGED <<tree, skip, memos, saved, lock, results, want, calm, pending,
                   left>>

\* The source is resolved: the tree, or no traits.  An empty mapper has no
\* rules and pins revision 0.
Build(t) ==
    /\ pc[t] = "build"
    /\ IF skip
       THEN Goto(t, AfterLoad(t)) /\ UNCHANGED want
       ELSE Ask(t, "probe")
    /\ UNCHANGED <<tree, skip, memos, slot, saved, lock, results, op, seen, rules,
                   pin, mapper, ghosts, left>>

\* reload_mapper_into installs the mapper whatever the slot holds.
Swap(t) ==
    /\ pc[t] = "swap"
    /\ slot' = Built(t)
    /\ epoch' = epoch + 1
    /\ Idle(t)
    /\ UNCHANGED <<tree, skip, memos, saved, lock, results, want, calm, pending,
                   left>>

\* The traits cannot be read or parsed: an analysis fails, a reload keeps the
\* mapper there is.
LoadFails(t) ==
    /\ pc[t] = "use" /\ want[t] = "parse"
    /\ want' = [want EXCEPT ![t] = "none"]
    /\ lock' = lock \ {t}
    /\ Idle(t)
    /\ UNCHANGED <<tree, skip, memos, slot, saved, results, epoch, calm, pending,
                   left>>

Step(t) ==
    \/ ReadScan(t) \/ ReadSources(t) \/ PushSources(t) \/ PushScan(t)
    \/ Probe(t) \/ BuildLock(t) \/ Parse(t) \/ Save(t) \/ Pin(t)
    \/ Publish(t) \/ Ambient(t) \/ PushRevision(t) \/ Finish(t)
    \/ DropSources(t) \/ DropScan(t) \/ DropRevision(t) \/ Clear(t)
    \/ Build(t) \/ Swap(t)

Next ==
    \/ \E t \in Threads :
          Step(t) \/ LoadFails(t) \/ Analyse(t) \/ Reload(t) \/ Flip(t)
    \/ EditTree

Spec == Init /\ [][Next]_vars

\* A thread in the middle of something is scheduled.  Nothing makes anyone
\* start an analysis, a reload or an edit, or makes a load fail.
FairSpec == Spec /\ \A t \in Threads : WF_vars(Step(t))

-----------------------------------------------------------------------------
(* Properties.                                                             *)

Honest(m) == m # NoMapper => m.rules = m.pin

\* shared_mapper: analyses that take the mapper between the same two
\* invalidations take the same mapper, however many of them built one.
OneMapperPerEpoch ==
    \A t, u \in Threads :
        (mapper[t] # NoMapper /\ mapper[u] # NoMapper /\ since[t] = since[u])
            => mapper[t] = mapper[u]

\* "The rules used" and "the key stored under" are the same fact for the mapper
\* in the slot, the mappers in use, the mapper cache and the stored reports, as
\* long as no load step falls between an edit of the tree and the end of the
\* invalidation that announces it.  Reloads, flips of the override and analyses
\* may interleave in every other way.
CalmHonest ==
    calm => /\ Honest(slot)
            /\ \A t \in Threads : Honest(mapper[t])
            /\ \A k \in DOMAIN saved : saved[k] \in {0, k}
            /\ \A r \in results : r.rules = r.key

\* reload_capability_mapper: a reload that starts after an edit and meets no
\* other load installs the rules of the tree as it is, never those of a memo.
QuietReloadTakes ==
    [][\A t \in Threads :
          (calm /\ ~pending /\ Swap(t)) => slot'.rules \in {tree, 0}]_vars

\* mapper_build_lock: whatever is started ends; a worker that misses the mapper
\* cache never waits for a build that needs that worker.
EveryOpEnds ==
    \A t \in Threads : op[t] # "none" ~> op[t] = "none"
=============================================================================
