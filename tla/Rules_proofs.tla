---------------------------- MODULE Rules_proofs ----------------------------
(***************************************************************************)
(* Theorems about the rules: their reload (TraitsReload), for any threads, *)
(* any number of versions of the tree and any number of analyses, reloads  *)
(* and flips; and their evaluation (RuleEval), for any finite set of rules *)
(* and any rule book over it.                                              *)
(*                                                                         *)
(* The invariant of the reload says, of each thread, what it has read and  *)
(* loaded so far is of the version on disk as long as all is calm; of the  *)
(* memos, that they are too unless an edit is pending; and of the slot,    *)
(* that whoever took a mapper in this epoch took the one that is in it.    *)
(*                                                                         *)
(* The invariants of the evaluation say what an interrupted fixed point    *)
(* has still to look at, that a composite's citations satisfy its trait    *)
(* legs by themselves, and why whatever is gone or about to go does so.    *)
(***************************************************************************)
EXTENDS TraitsReload, RuleEval, Functions, FunctionTheorems, FiniteSetTheorems, TLAPS

-----------------------------------------------------------------------------
(* Their reload: TraitsReload. *)

Ops == {"none", "analyse", "reload", "flip"}
Pcs == Loading \cup {"idle", "build", "dropSources", "dropScan", "dropRevision", "clear",
                     "publish", "swap", "ambient", "finish"}
Wants == {"none", "probe", "reprobe", "parse", "save", "pin", "revision"}
Reading == {"use", "pushScan", "pushSources"}
Allowed == [analyse : 0..Analyses, reload : 0..Reloads, flip : 0..Flips]

SharedTypes ==
    /\ tree \in 1..MaxTree /\ skip \in BOOLEAN
    /\ sources \in Versions /\ scan \in Versions /\ revision \in Versions
    /\ slot \in Mappers \cup {NoMapper}
    /\ saved \in [1..MaxTree -> Versions]
    /\ results \subseteq [key : Versions, rules : Versions]
    /\ epoch \in Nat /\ calm \in BOOLEAN /\ pending \in BOOLEAN
    /\ left \in Allowed

ThreadTypes ==
    /\ op \in [Threads -> Ops] /\ pc \in [Threads -> Pcs] /\ want \in [Threads -> Wants]
    /\ seen \in [Threads -> Versions] /\ rules \in [Threads -> Versions]
    /\ pin \in [Threads -> Versions]
    /\ mapper \in [Threads -> Mappers \cup {NoMapper}]
    /\ since \in [Threads -> Nat]

\* One thread at most has the build lock.
LockInv ==
    /\ lock \subseteq Hosts
    /\ \A g, h \in lock : g = h
    /\ \A h \in lock : pc[h] \in Loading /\ want[h] # "revision"

\* What holds of a thread at all times.
Local(t) ==
    /\ op[t] = "none" <=> pc[t] = "idle"
    /\ pc[t] \in {"idle", "build", "dropSources", "dropScan", "dropRevision", "clear"}
          => rules[t] = 0 /\ pin[t] = 0
    /\ pc[t] \in Reading => seen[t] # 0
    /\ pc[t] \in {"ambient", "finish"} => mapper[t] # NoMapper
    /\ pc[t] \in Loading /\ want[t] = "revision" => mapper[t] # NoMapper

\* What holds of it while all is calm: what it has read or loaded is current,
\* and what its invalidation has dropped is gone.
Calm(t) ==
    calm =>
        /\ Honest(mapper[t])
        /\ pc[t] \in Reading => ~pending /\ seen[t] = tree
        /\ pc[t] \in Loading /\ want[t] \in {"save", "pin"} => ~pending /\ rules[t] = tree
        /\ pc[t] \in {"publish", "swap"} => rules[t] = pin[t] /\ rules[t] \in {0, tree}
        /\ pending /\ pc[t] \in {"dropScan", "dropRevision"} => sources = 0
        /\ pending /\ pc[t] = "dropRevision" => scan = 0

Memos ==
    calm /\ ~pending => /\ sources \in {0, tree}
                        /\ scan \in {0, tree}
                        /\ revision \in {0, tree}

Kept ==
    calm => /\ Honest(slot)
            /\ \A k \in 1..MaxTree : saved[k] \in {0, k}
            /\ \A r \in results : r.rules = r.key

Dated(t) ==
    mapper[t] # NoMapper =>
        /\ since[t] <= epoch
        /\ since[t] = epoch => mapper[t] = slot

Epochs == OneMapperPerEpoch /\ \A t \in Threads : Dated(t)

ReloadInv ==
    /\ SharedTypes /\ ThreadTypes /\ LockInv
    /\ Memos /\ Kept /\ Epochs
    /\ \A t \in Threads : Local(t)
    /\ \A t \in Threads : Calm(t)

-----------------------------------------------------------------------------
(* Steps of one thread.                                                    *)

Alone(t) ==
    \A u \in Threads : u # t =>
        /\ op'[u] = op[u] /\ pc'[u] = pc[u] /\ want'[u] = want[u] /\ seen'[u] = seen[u]
        /\ rules'[u] = rules[u] /\ pin'[u] = pin[u]
        /\ mapper'[u] = mapper[u] /\ since'[u] = since[u]

\* What such a step may do to what the others rely on.
Fair(t) ==
    /\ tree' = tree
    /\ calm' => calm
    /\ pending' => pending
    /\ calm' /\ pending' => /\ sources = 0 => sources' = 0
                            /\ scan = 0 => scan' = 0

LEMMA Together ==
  ASSUME ReloadInv, NEW t \in Threads, Alone(t), Fair(t),
         SharedTypes', ThreadTypes', LockInv', Memos', Kept', Epochs', Local(t)', Calm(t)'
  PROVE  ReloadInv'
<1>1. ASSUME NEW u \in Threads, u # t PROVE Local(u)'
  BY <1>1 DEF ReloadInv, Local, Alone
<1>2. ASSUME NEW u \in Threads, u # t PROVE Calm(u)'
  BY <1>2 DEF ReloadInv, Calm, Alone, Fair
<1>3. QED
  BY <1>1, <1>2 DEF ReloadInv

LEMMA EpochsStay ==
  ASSUME ReloadInv, NEW t \in Threads, Alone(t), epoch' = epoch,
         slot' = slot \/ slot = NoMapper,
         \/ mapper'[t] = NoMapper
         \/ mapper'[t] = mapper[t] /\ since'[t] = since[t]
         \/ mapper'[t] = slot' /\ since'[t] = epoch
  PROVE  Epochs'
<1>1. \A u \in Threads : Dated(u)
  BY DEF ReloadInv, Epochs
<1>2. \A u \in Threads : since[u] \in Nat /\ epoch \in Nat
  BY DEF ReloadInv, ThreadTypes, SharedTypes
<1>3. \A u \in Threads : Dated(u)'
  BY <1>1, <1>2 DEF Dated, Alone
<1>4. ASSUME NEW u \in Threads, NEW v \in Threads, mapper'[u] # NoMapper,
             mapper'[v] # NoMapper, since'[u] = since'[v]
      PROVE  mapper'[u] = mapper'[v]
  <2>1. CASE since'[u] = epoch
    BY <1>3, <1>4, <2>1 DEF Dated
  <2>2. CASE since'[u] # epoch
    BY <1>4, <2>2 DEF Alone, ReloadInv, Epochs, OneMapperPerEpoch
  <2>3. QED
    BY <2>1, <2>2
<1>5. QED
  BY <1>3, <1>4 DEF Epochs, OneMapperPerEpoch

LEMMA EpochsMove ==
  ASSUME ReloadInv, NEW t \in Threads, Alone(t), epoch' = epoch + 1,
         mapper'[t] = NoMapper
  PROVE  Epochs'
<1>1. \A u \in Threads : Dated(u) /\ since[u] \in Nat /\ epoch \in Nat
  BY DEF ReloadInv, Epochs, ThreadTypes, SharedTypes
<1>2. \A u \in Threads : Dated(u)'
  BY <1>1 DEF Dated, Alone
<1>3. OneMapperPerEpoch'
  BY DEF ReloadInv, Epochs, OneMapperPerEpoch, Alone
<1>4. QED
  BY <1>2, <1>3 DEF Epochs

LEMMA VersionFacts ==
  /\ 0 \in Versions /\ \A v \in 1..MaxTree : v \in Versions /\ v # 0
  /\ \A v \in Versions : v # 0 => v \in 1..MaxTree
BY ReloadAssumption DEF Versions

LEMMA BuiltFacts ==
  ASSUME ReloadInv, NEW t \in Threads
  PROVE  /\ Built(t) \in Mappers /\ Built(t) # NoMapper
         /\ Built(t).rules = rules[t]
         /\ rules[t] = pin[t] => Honest(Built(t))
BY ReloadAssumption DEF ReloadInv, ThreadTypes, Built, Mappers, Honest

\* A step that leaves the lock as it is, of a thread that does not have it or
\* that goes on loading.
LEMMA LockStays ==
  ASSUME ReloadInv, NEW t \in Threads, Alone(t), lock' = lock,
         t \in lock => pc'[t] \in Loading /\ want'[t] # "revision"
  PROVE  LockInv'
<1>1. \A h \in lock : h \in Threads
  BY DEF ReloadInv, LockInv, Threads
<1>2. QED
  BY <1>1 DEF ReloadInv, LockInv, Alone

LEMMA LockLeft ==
  ASSUME ReloadInv, NEW t \in Threads, Alone(t), lock' = lock \ {t}
  PROVE  LockInv'
<1>1. \A h \in lock : h \in Threads
  BY DEF ReloadInv, LockInv, Threads
<1>2. QED
  BY <1>1 DEF ReloadInv, LockInv, Alone

\* A step within a load.
LoadMoves(t, l, w, s, r) ==
    /\ pc' = [pc EXCEPT ![t] = l]
    /\ want' = [want EXCEPT ![t] = w]
    /\ seen' = [seen EXCEPT ![t] = s]
    /\ rules' = [rules EXCEPT ![t] = r]
    /\ calm' = (calm /\ ~pending)
    /\ UNCHANGED <<tree, skip, slot, results, op, pin, mapper, epoch, since, pending, left>>

LEMMA SameFunction == \A S, T : \A f \in [S -> T], x \in S : [f EXCEPT ![x] = f[x]] = f
OBVIOUS

LEMMA LoadStep ==
  ASSUME ReloadInv, NEW t \in Threads, NEW l \in Loading, NEW w \in Wants,
         NEW s \in Versions, NEW r \in Versions,
         LoadMoves(t, l, w, s, r),
         pc[t] \in Loading,
         w = "revision" => want[t] = "revision",
         l \in Reading => s # 0,
         \/ lock' = lock
         \/ lock' = {t} /\ t \in Hosts /\ w # "revision",
         sources' \in Versions, scan' \in Versions, revision' \in Versions,
         saved' \in [1..MaxTree -> Versions],
         calm /\ ~pending =>
             /\ l \in Reading => s = tree
             /\ w \in {"save", "pin"} => r = tree
             /\ sources' \in {0, tree} /\ scan' \in {0, tree} /\ revision' \in {0, tree}
             /\ \A k \in 1..MaxTree : saved'[k] \in {0, k}
  PROVE  ReloadInv'
<1>1. SharedTypes /\ ThreadTypes /\ LockInv /\ Local(t) /\ Calm(t) /\ Kept /\ Memos
  BY DEF ReloadInv
<1>2. /\ ThreadTypes'
      /\ pc'[t] = l /\ want'[t] = w /\ seen'[t] = s /\ rules'[t] = r
      /\ Alone(t)
  BY <1>1 DEF ThreadTypes, LoadMoves, Alone, Pcs
<1>3. SharedTypes'
  BY <1>1 DEF SharedTypes, LoadMoves
<1>4. LockInv'
  <2>1. CASE lock' = lock
    BY <1>1, <1>2, <2>1, LockStays DEF LockInv
  <2>2. CASE lock' = {t} /\ t \in Hosts /\ w # "revision"
    BY <1>2, <2>2 DEF LockInv
  <2>3. QED
    BY <2>1, <2>2
<1>5. Fair(t) /\ Memos' /\ Kept'
  BY <1>1 DEF Fair, Memos, Kept, LoadMoves
<1>6. Epochs'
  BY <1>1, <1>2, EpochsStay DEF LoadMoves
<1>7. Local(t)'
  BY <1>1, <1>2 DEF Local, LoadMoves, Loading, Reading
<1>8. Calm(t)'
  BY <1>1, <1>2 DEF Calm, LoadMoves, Loading, Reading
<1>9. QED
  BY <1>2, <1>3, <1>4, <1>5, <1>6, <1>7, <1>8, Together

\* What a thread in the middle of a load knows.
LEMMA LoadStart ==
  ASSUME ReloadInv, NEW t \in Threads
  PROVE  /\ SharedTypes /\ ThreadTypes
         /\ want \in [Threads -> Wants] /\ seen \in [Threads -> Versions]
         /\ rules \in [Threads -> Versions] /\ pc \in [Threads -> Pcs]
         /\ want[t] \in Wants /\ seen[t] \in Versions /\ rules[t] \in Versions
         /\ sources \in Versions /\ scan \in Versions /\ revision \in Versions
         /\ saved \in [1..MaxTree -> Versions] /\ tree \in 1..MaxTree
         /\ tree \in Versions /\ tree # 0
         /\ t \in lock => want[t] # "revision" /\ t \in Hosts
         /\ pc[t] \in Reading => seen[t] # 0 /\ seen[t] \in 1..MaxTree
         /\ calm /\ ~pending =>
               /\ sources \in {0, tree} /\ scan \in {0, tree} /\ revision \in {0, tree}
               /\ \A k \in 1..MaxTree : saved[k] \in {0, k}
               /\ pc[t] \in Reading => seen[t] = tree
               /\ pc[t] \in Loading /\ want[t] \in {"save", "pin"} => rules[t] = tree
<1>1. SharedTypes /\ ThreadTypes /\ LockInv /\ Local(t) /\ Calm(t) /\ Memos /\ Kept
  BY DEF ReloadInv
<1>2. tree \in 1..MaxTree /\ tree \in Versions /\ tree # 0
  BY <1>1, VersionFacts DEF SharedTypes
<1>3. pc[t] \in Reading => seen[t] # 0 /\ seen[t] \in 1..MaxTree
  BY <1>1, VersionFacts DEF Local, ThreadTypes
<1>4. calm /\ ~pending =>
         /\ sources \in {0, tree} /\ scan \in {0, tree} /\ revision \in {0, tree}
         /\ \A k \in 1..MaxTree : saved[k] \in {0, k}
         /\ pc[t] \in Reading => seen[t] = tree
         /\ pc[t] \in Loading /\ want[t] \in {"save", "pin"} => rules[t] = tree
  BY <1>1 DEF Memos, Kept, Calm
<1>5. QED
  BY <1>1, <1>2, <1>3, <1>4 DEF SharedTypes, ThreadTypes, LockInv

LEMMA ReadScanKeeps == ASSUME ReloadInv, NEW t \in Threads, ReadScan(t) PROVE ReloadInv'
<1>1. /\ pc[t] = "scan" /\ pc[t] \in Loading
      /\ UNCHANGED <<sources, scan, revision, saved, lock>>
  BY DEF ReadScan, Loading, memos
<1>2. PICK s \in Versions, l \in {"use", "pushScan", "pushSources"} :
         /\ pc' = [pc EXCEPT ![t] = l] /\ seen' = [seen EXCEPT ![t] = s]
         /\ s # 0
         /\ s \in {scan, sources, tree}
  <2>1. /\ \/ scan # 0 /\ See(t, scan) /\ Goto(t, "use")
           \/ scan = 0 /\ See(t, tree) /\ Goto(t, "pushScan")
           \/ scan = 0 /\ sources # 0 /\ See(t, sources) /\ Goto(t, "pushScan")
           \/ scan = 0 /\ sources = 0 /\ See(t, tree) /\ Goto(t, "pushSources")
    BY DEF ReadScan
  <2>2. QED
    BY <2>1, LoadStart DEF See, Goto
<1>3. LoadMoves(t, l, want[t], s, rules[t])
  BY <1>2, LoadStart, SameFunction DEF ReadScan, NoteLoad, LoadMoves
<1>4. calm /\ ~pending => s = tree
  BY <1>2, LoadStart
<1>5. l \in Loading /\ l # "lock"
  BY DEF Loading
<1>6. /\ sources' \in Versions /\ scan' \in Versions /\ revision' \in Versions
      /\ saved' \in [1..MaxTree -> Versions] /\ lock' = lock
      /\ want[t] \in Wants /\ rules[t] \in Versions
      /\ calm /\ ~pending =>
            /\ want[t] \in {"save", "pin"} => rules[t] = tree
            /\ sources' \in {0, tree} /\ scan' \in {0, tree} /\ revision' \in {0, tree}
            /\ \A k \in 1..MaxTree : saved'[k] \in {0, k}
  BY <1>1, LoadStart
<1>7. QED
  BY <1>1, <1>2, <1>3, <1>4, <1>5, <1>6, LoadStep

LEMMA ReadSourcesKeeps == ASSUME ReloadInv, NEW t \in Threads, ReadSources(t) PROVE ReloadInv'
<1>1. /\ pc[t] = "sources" /\ pc[t] \in Loading
      /\ UNCHANGED <<sources, scan, revision, saved, lock>>
  BY DEF ReadSources, Loading, memos
<1>2. PICK s \in Versions, l \in {"use", "pushSources"} :
         /\ pc' = [pc EXCEPT ![t] = l] /\ seen' = [seen EXCEPT ![t] = s]
         /\ s # 0
         /\ s \in {sources, tree}
  BY LoadStart DEF ReadSources, See, Goto
<1>3. LoadMoves(t, l, "parse", s, rules[t])
  BY <1>2, LoadStart, SameFunction DEF ReadSources, NoteLoad, LoadMoves
<1>4. calm /\ ~pending => s = tree
  BY <1>2, LoadStart
<1>5. QED
  BY <1>1, <1>2, <1>3, <1>4, LoadStart, LoadStep DEF Loading, Wants

LEMMA PushSourcesKeeps == ASSUME ReloadInv, NEW t \in Threads, PushSources(t) PROVE ReloadInv'
<1>1. /\ pc[t] = "pushSources" /\ pc[t] \in Loading /\ pc[t] \in Reading
      /\ sources' = FirstWriter(sources, seen[t])
      /\ UNCHANGED <<scan, revision, saved, lock>>
  BY DEF PushSources, Loading, Reading
<1> DEFINE s == FirstWriter(sources, seen[t])
<1>2. s \in Versions /\ s # 0 /\ (calm /\ ~pending => s = tree)
  BY <1>1, LoadStart DEF FirstWriter
<1>3. PICK l \in {"use", "pushScan"} : pc' = [pc EXCEPT ![t] = l]
  BY DEF PushSources, Goto
<1>4. LoadMoves(t, l, want[t], s, rules[t])
  BY <1>1, <1>3, LoadStart, SameFunction DEF PushSources, See, NoteLoad, LoadMoves
<1> HIDE DEF s
<1>5. sources' = s
  BY <1>1 DEF s
<1>6. l \in Loading
  BY DEF Loading
<1>7. /\ sources' \in Versions /\ scan' \in Versions /\ revision' \in Versions
      /\ saved' \in [1..MaxTree -> Versions] /\ lock' = lock
      /\ want[t] \in Wants /\ rules[t] \in Versions
      /\ calm /\ ~pending =>
            /\ want[t] \in {"save", "pin"} => rules[t] = tree
            /\ sources' \in {0, tree} /\ scan' \in {0, tree} /\ revision' \in {0, tree}
            /\ \A k \in 1..MaxTree : saved'[k] \in {0, k}
  BY <1>1, <1>2, <1>5, LoadStart
<1>8. QED
  BY <1>1, <1>2, <1>4, <1>6, <1>7, LoadStep

LEMMA PushScanKeeps == ASSUME ReloadInv, NEW t \in Threads, PushScan(t) PROVE ReloadInv'
<1>1. /\ pc[t] = "pushScan" /\ pc[t] \in Loading /\ pc[t] \in Reading
      /\ scan' = FirstWriter(scan, seen[t])
      /\ UNCHANGED <<sources, revision, saved, lock>>
  BY DEF PushScan, Loading, Reading
<1> DEFINE s == FirstWriter(scan, seen[t])
<1>2. s \in Versions /\ s # 0 /\ (calm /\ ~pending => s = tree)
  BY <1>1, LoadStart DEF FirstWriter
<1>3. LoadMoves(t, "use", want[t], s, rules[t])
  BY <1>1, LoadStart, SameFunction DEF PushScan, Goto, See, NoteLoad, LoadMoves
<1> HIDE DEF s
<1>4. scan' = s
  BY <1>1 DEF s
<1>5. QED
  BY <1>1, <1>2, <1>3, <1>4, LoadStart, LoadStep DEF Loading

LEMMA ProbeKeeps == ASSUME ReloadInv, NEW t \in Threads, Probe(t) PROVE ReloadInv'
<1>1. /\ pc[t] = "use" /\ pc[t] \in Loading /\ pc[t] \in Reading
      /\ want[t] \in {"probe", "reprobe"}
      /\ UNCHANGED <<sources, scan, revision, saved, lock>>
  BY DEF Probe, Loading, Reading, memos
<1>2. CASE saved[seen[t]] # 0
  <2>1. LoadMoves(t, "scan", "pin", seen[t], saved[seen[t]])
    BY <1>1, <1>2, LoadStart, SameFunction DEF Probe, Ask, Goto, NoteLoad, LoadMoves
  <2>2. /\ saved[seen[t]] \in Versions
        /\ calm /\ ~pending => saved[seen[t]] = tree
    BY <1>1, <1>2, LoadStart
  <2>3. QED
    BY <1>1, <2>1, <2>2, LoadStart, LoadStep DEF Loading, Reading, Wants
<1>3. CASE saved[seen[t]] = 0
  <2>1. PICK l \in {"lock", "sources"} : pc' = [pc EXCEPT ![t] = l]
    BY <1>3 DEF Probe, Goto
  <2>2. LoadMoves(t, l, want[t], seen[t], rules[t])
    BY <1>1, <1>3, <2>1, LoadStart, SameFunction DEF Probe, NoteLoad, LoadMoves
  <2>3. QED
    BY <1>1, <2>1, <2>2, LoadStart, LoadStep DEF Loading, Reading
<1>4. QED
  BY <1>2, <1>3

LEMMA BuildLockKeeps == ASSUME ReloadInv, NEW t \in Threads, BuildLock(t) PROVE ReloadInv'
<1>1. /\ pc[t] = "lock" /\ pc[t] \in Loading
      /\ UNCHANGED <<sources, scan, revision, saved>>
  BY DEF BuildLock, Loading, memos
<1>2. CASE t \in Pool
  <2>1. LoadMoves(t, "sources", want[t], seen[t], rules[t]) /\ lock' = lock
    BY <1>1, <1>2, LoadStart, SameFunction DEF BuildLock, Goto, NoteLoad, LoadMoves
  <2>2. QED
    BY <1>1, <2>1, LoadStart, LoadStep DEF Loading, Reading
<1>3. CASE t \notin Pool
  <2>1. t \in Hosts
    BY <1>3 DEF Threads
  <2>2. LoadMoves(t, "scan", "reprobe", seen[t], rules[t]) /\ lock' = {t}
    BY <1>1, <1>3, LoadStart, SameFunction DEF BuildLock, Ask, Goto, NoteLoad, LoadMoves
  <2>3. QED
    BY <1>1, <2>1, <2>2, LoadStart, LoadStep DEF Loading, Reading, Wants
<1>4. QED
  BY <1>2, <1>3

LEMMA ParseKeeps == ASSUME ReloadInv, NEW t \in Threads, Parse(t) PROVE ReloadInv'
<1>1. /\ pc[t] = "use" /\ pc[t] \in Loading /\ pc[t] \in Reading
      /\ UNCHANGED <<sources, scan, revision, saved, lock>>
  BY DEF Parse, Loading, Reading, memos
<1>2. LoadMoves(t, "scan", "save", seen[t], seen[t])
  BY <1>1, LoadStart, SameFunction DEF Parse, Ask, Goto, NoteLoad, LoadMoves
<1>3. QED
  BY <1>1, <1>2, LoadStart, LoadStep DEF Loading, Reading, Wants

LEMMA SaveKeeps == ASSUME ReloadInv, NEW t \in Threads, Save(t) PROVE ReloadInv'
<1>1. /\ pc[t] = "use" /\ pc[t] \in Loading /\ pc[t] \in Reading /\ want[t] = "save"
      /\ saved' = [saved EXCEPT ![seen[t]] = rules[t]]
      /\ UNCHANGED <<sources, scan, revision, lock>>
  BY DEF Save, Loading, Reading, memos
<1>2. LoadMoves(t, "scan", "pin", seen[t], rules[t])
  BY <1>1, LoadStart, SameFunction DEF Save, Ask, Goto, NoteLoad, LoadMoves
<1>3. saved' \in [1..MaxTree -> Versions]
  BY <1>1, LoadStart
<1>4. calm /\ ~pending => \A k \in 1..MaxTree : saved'[k] \in {0, k}
  BY <1>1, LoadStart
<1>5. QED
  BY <1>1, <1>2, <1>3, <1>4, LoadStart, LoadStep DEF Loading, Reading, Wants

-----------------------------------------------------------------------------
(* The steps around a load.                                                *)

\* A move that keeps what the thread has loaded.
Moves(t, o, l, w, s, m, e) ==
    /\ op' = [op EXCEPT ![t] = o]
    /\ pc' = [pc EXCEPT ![t] = l]
    /\ want' = [want EXCEPT ![t] = w]
    /\ seen' = [seen EXCEPT ![t] = s]
    /\ mapper' = [mapper EXCEPT ![t] = m]
    /\ since' = [since EXCEPT ![t] = e]
    /\ UNCHANGED <<rules, pin>>

LEMMA MovesFacts ==
  ASSUME ReloadInv, NEW t \in Threads, NEW o \in Ops, NEW l \in Pcs, NEW w \in Wants,
         NEW s \in Versions, NEW m \in Mappers \cup {NoMapper}, NEW e \in Nat,
         Moves(t, o, l, w, s, m, e)
  PROVE  /\ ThreadTypes' /\ Alone(t)
         /\ op'[t] = o /\ pc'[t] = l /\ want'[t] = w /\ seen'[t] = s
         /\ mapper'[t] = m /\ since'[t] = e
         /\ rules'[t] = rules[t] /\ pin'[t] = pin[t]
<1>1. ThreadTypes
  BY DEF ReloadInv
<1>2. QED
  BY <1>1 DEF ThreadTypes, Moves, Alone

LEMMA MoveStart ==
  ASSUME ReloadInv, NEW t \in Threads
  PROVE  /\ SharedTypes /\ ThreadTypes /\ LockInv /\ Memos /\ Kept /\ Local(t) /\ Calm(t)
         /\ op \in [Threads -> Ops] /\ want \in [Threads -> Wants]
         /\ seen \in [Threads -> Versions] /\ since \in [Threads -> Nat]
         /\ mapper \in [Threads -> Mappers \cup {NoMapper}]
         /\ op[t] \in Ops /\ want[t] \in Wants /\ seen[t] \in Versions
         /\ since[t] \in Nat /\ mapper[t] \in Mappers \cup {NoMapper}
         /\ slot \in Mappers \cup {NoMapper} /\ epoch \in Nat
         /\ rules[t] \in Versions /\ pin[t] \in Versions
         /\ pc[t] \notin Loading => t \notin lock
BY DEF ReloadInv, SharedTypes, ThreadTypes, LockInv

\* The thread keeps the mapper it has, if any.
LEMMA MovesOnFacts ==
  ASSUME ReloadInv, NEW t \in Threads, NEW o \in Ops, NEW l \in Pcs, NEW w \in Wants,
         NEW s \in Versions, Moves(t, o, l, w, s, mapper[t], since[t])
  PROVE  /\ ThreadTypes' /\ Alone(t)
         /\ op'[t] = o /\ pc'[t] = l /\ want'[t] = w /\ seen'[t] = s
         /\ mapper'[t] = mapper[t] /\ since'[t] = since[t]
         /\ rules'[t] = rules[t] /\ pin'[t] = pin[t]
<1>1. mapper[t] \in Mappers \cup {NoMapper} /\ since[t] \in Nat
  BY MoveStart
<1>2. PICK m \in Mappers \cup {NoMapper}, e \in Nat : m = mapper[t] /\ e = since[t]
  BY <1>1
<1>3. Moves(t, o, l, w, s, m, e)
  BY <1>2
<1>4. QED
  BY <1>2, <1>3, MovesFacts

\* Only the program counter moves.
LEMMA GoesFacts ==
  ASSUME ReloadInv, NEW t \in Threads, NEW l \in Pcs,
         Moves(t, op[t], l, want[t], seen[t], mapper[t], since[t])
  PROVE  /\ ThreadTypes' /\ Alone(t)
         /\ op'[t] = op[t] /\ pc'[t] = l /\ want'[t] = want[t]
         /\ mapper'[t] = mapper[t] /\ since'[t] = since[t]
         /\ rules'[t] = rules[t] /\ pin'[t] = pin[t]
<1>1. PICK o \in Ops, w \in Wants, s \in Versions : o = op[t] /\ w = want[t] /\ s = seen[t]
  BY MoveStart
<1>2. Moves(t, o, l, w, s, mapper[t], since[t])
  BY <1>1
<1>3. QED
  BY <1>1, <1>2, MovesOnFacts

LEMMA CountedDown ==
  ASSUME left \in Allowed,
         \/ left.analyse > 0 /\ left' = [left EXCEPT !.analyse = @ - 1]
         \/ left.reload > 0 /\ left' = [left EXCEPT !.reload = @ - 1]
         \/ left.flip > 0 /\ left' = [left EXCEPT !.flip = @ - 1]
  PROVE  left' \in Allowed
<1>1. /\ Analyses \in Nat /\ Reloads \in Nat /\ Flips \in Nat
      /\ left.analyse \in 0..Analyses /\ left.reload \in 0..Reloads /\ left.flip \in 0..Flips
  BY ReloadAssumption DEF Allowed
<1>2. CASE left.analyse > 0 /\ left' = [left EXCEPT !.analyse = @ - 1]
  <2>1. left.analyse - 1 \in 0..Analyses
    BY <1>1, <1>2
  <2>2. QED
    BY <1>2, <2>1 DEF Allowed
<1>3. CASE left.reload > 0 /\ left' = [left EXCEPT !.reload = @ - 1]
  <2>1. left.reload - 1 \in 0..Reloads
    BY <1>1, <1>3
  <2>2. QED
    BY <1>3, <2>1 DEF Allowed
<1>4. CASE left.flip > 0 /\ left' = [left EXCEPT !.flip = @ - 1]
  <2>1. left.flip - 1 \in 0..Flips
    BY <1>1, <1>4
  <2>2. QED
    BY <1>4, <2>1 DEF Allowed
<1>5. QED
  BY <1>2, <1>3, <1>4

LEMMA PinKeeps == ASSUME ReloadInv, NEW t \in Threads, Pin(t) PROVE ReloadInv'
<1>1. /\ pc[t] = "use" /\ want[t] = "pin"
      /\ pin' = [pin EXCEPT ![t] = seen[t]]
      /\ want' = [want EXCEPT ![t] = "none"]
      /\ seen' = [seen EXCEPT ![t] = 0]
      /\ lock' = lock \ {t}
      /\ calm' = (calm /\ ~pending)
      /\ UNCHANGED <<tree, skip, memos, slot, saved, results, op, rules, mapper, epoch,
                     since, pending, left>>
  BY DEF Pin, See, NoteLoad
<1>2. PICK l \in {"swap", "publish"} : pc' = [pc EXCEPT ![t] = l]
  BY DEF Pin, Goto, AfterLoad
<1>3. /\ ThreadTypes' /\ Alone(t)
      /\ pc'[t] = l /\ want'[t] = "none" /\ seen'[t] = 0 /\ pin'[t] = seen[t]
  BY <1>1, <1>2, MoveStart, VersionFacts DEF ThreadTypes, Alone, Pcs, Wants
<1>4. SharedTypes' /\ Fair(t) /\ Memos' /\ Kept'
  BY <1>1, MoveStart DEF SharedTypes, Fair, Memos, Kept, memos
<1>5. LockInv'
  BY <1>1, <1>3, LockLeft
<1>6. Epochs'
  BY <1>1, <1>3, EpochsStay
<1>7. Local(t)'
  BY <1>1, <1>2, <1>3, MoveStart DEF Local, Reading, Loading
<1>8. Calm(t)'
  BY <1>1, <1>2, <1>3, MoveStart DEF Calm, Reading, Loading
<1>9. QED
  BY <1>3, <1>4, <1>5, <1>6, <1>7, <1>8, Together

LEMMA AnalyseKeeps == ASSUME ReloadInv, NEW t \in Threads, Analyse(t) PROVE ReloadInv'
<1>1. /\ op[t] = "none" /\ pc[t] = "idle"
      /\ UNCHANGED <<tree, skip, memos, slot, saved, lock, results, locals, epoch, calm,
                     pending>>
  BY MoveStart DEF Analyse, Local
<1>2. PICK l \in {"ambient", "build"}, m \in Mappers \cup {NoMapper}, e \in Nat :
         /\ Moves(t, "analyse", l, want[t], seen[t], m, e)
         /\ l = "ambient" => m = slot /\ slot # NoMapper /\ e = epoch
         /\ l = "build" => m = mapper[t] /\ e = since[t]
  <2>1. CASE slot # NoMapper
    BY <1>1, <2>1, MoveStart, SameFunction DEF Analyse, Take, Goto, Moves, locals
  <2>2. CASE slot = NoMapper
    BY <1>1, <2>2, MoveStart, SameFunction DEF Analyse, Goto, Moves, locals
  <2>3. QED
    BY <2>1, <2>2
<1>3. /\ ThreadTypes' /\ Alone(t)
      /\ op'[t] = "analyse" /\ pc'[t] = l /\ want'[t] = want[t] /\ seen'[t] = seen[t]
      /\ mapper'[t] = m /\ since'[t] = e
      /\ rules'[t] = rules[t] /\ pin'[t] = pin[t]
  BY <1>2, MovesFacts, MoveStart DEF Ops, Pcs
<1>4. left' \in Allowed
  BY CountedDown, MoveStart DEF Analyse, SharedTypes
<1>5. SharedTypes' /\ Fair(t) /\ Memos' /\ Kept'
  BY <1>1, <1>4, MoveStart DEF SharedTypes, Fair, Memos, Kept, memos
<1>6. LockInv'
  BY <1>1, <1>3, MoveStart, LockStays DEF Loading
<1>7. Epochs'
  BY <1>1, <1>2, <1>3, EpochsStay
<1>8. Local(t)'
  BY <1>1, <1>2, <1>3, MoveStart DEF Local, Reading, Loading
<1>9. Calm(t)'
  BY <1>1, <1>2, <1>3, MoveStart DEF Calm, Kept, Reading, Loading
<1>10. QED
  BY <1>3, <1>5, <1>6, <1>7, <1>8, <1>9, Together

LEMMA PublishKeeps == ASSUME ReloadInv, NEW t \in Threads, Publish(t) PROVE ReloadInv'
<1> DEFINE m == IF slot = NoMapper THEN Built(t) ELSE slot
<1>1. /\ pc[t] = "publish" /\ slot' = m
      /\ UNCHANGED <<tree, skip, memos, saved, lock, results, op, locals, epoch, calm,
                     pending, left>>
  BY DEF Publish
<1>2. m \in Mappers /\ m # NoMapper
  BY MoveStart, BuiltFacts, ReloadAssumption
<1>3. calm => Honest(m)
  BY <1>1, MoveStart, BuiltFacts DEF Calm, Kept
<1>4. Moves(t, op[t], "ambient", want[t], seen[t], m, epoch)
  BY <1>1, MoveStart, SameFunction DEF Publish, Take, Goto, Moves, locals
<1> HIDE DEF m
<1>5. /\ ThreadTypes' /\ Alone(t)
      /\ op'[t] = op[t] /\ pc'[t] = "ambient" /\ want'[t] = want[t] /\ seen'[t] = seen[t]
      /\ mapper'[t] = m /\ since'[t] = epoch
      /\ rules'[t] = rules[t] /\ pin'[t] = pin[t]
  BY <1>2, <1>4, MovesFacts, MoveStart DEF Pcs
<1>6. SharedTypes' /\ Fair(t) /\ Memos' /\ Kept'
  BY <1>1, <1>2, <1>3, MoveStart DEF SharedTypes, Fair, Memos, Kept, memos
<1>7. LockInv'
  BY <1>1, <1>5, MoveStart, LockStays DEF Loading
<1>8. Epochs'
  <2>1. slot' = slot \/ slot = NoMapper
    BY <1>1 DEF m
  <2>2. QED
    BY <1>1, <1>5, <2>1, EpochsStay
<1>9. Local(t)'
  BY <1>1, <1>2, <1>5, MoveStart DEF Local, Reading, Loading
<1>10. Calm(t)'
  BY <1>1, <1>3, <1>5, MoveStart DEF Calm, Reading, Loading
<1>11. QED
  BY <1>5, <1>6, <1>7, <1>8, <1>9, <1>10, Together

LEMMA AmbientKeeps == ASSUME ReloadInv, NEW t \in Threads, Ambient(t) PROVE ReloadInv'
<1>1. /\ pc[t] = "ambient" /\ mapper[t] # NoMapper
      /\ UNCHANGED <<tree, skip, memos, slot, saved, lock, results, op, rules, pin, mapper,
                     ghosts, left>>
  BY MoveStart DEF Ambient, Local
<1>2. PICK l \in {"finish", "scan"}, w \in Wants, s \in Versions :
         Moves(t, op[t], l, w, s, mapper[t], since[t])
  <2>1. \/ pc' = [pc EXCEPT ![t] = "finish"] /\ want' = want
           /\ seen' = [seen EXCEPT ![t] = IF skip THEN 0 ELSE revision]
        \/ /\ pc' = [pc EXCEPT ![t] = "scan"] /\ want' = [want EXCEPT ![t] = "revision"]
           /\ seen' = seen
    BY DEF Ambient, See, Goto, Ask
  <2>2. UNCHANGED <<op, rules, pin, mapper, since>>
    BY <1>1 DEF ghosts
  <2>3. (IF skip THEN 0 ELSE revision) \in Versions
    BY VersionFacts, MoveStart DEF SharedTypes
  <2>4. QED
    BY <2>1, <2>2, <2>3, MoveStart, SameFunction DEF Moves, Wants
<1>3. /\ ThreadTypes' /\ Alone(t)
      /\ op'[t] = op[t] /\ pc'[t] = l /\ want'[t] = w /\ seen'[t] = s
      /\ mapper'[t] = mapper[t] /\ since'[t] = since[t]
      /\ rules'[t] = rules[t] /\ pin'[t] = pin[t]
  BY <1>2, MovesOnFacts, MoveStart DEF Pcs, Loading
<1>4. w \notin {"save", "pin"} \/ l = "finish"
  <2>1. \/ pc' = [pc EXCEPT ![t] = "finish"]
        \/ want' = [want EXCEPT ![t] = "revision"]
    BY DEF Ambient, Goto, Ask
  <2>2. pc \in [Threads -> Pcs] /\ want \in [Threads -> Wants]
    BY LoadStart
  <2>3. QED
    BY <1>3, <2>1, <2>2
<1>5. SharedTypes' /\ Fair(t) /\ Memos' /\ Kept'
  BY <1>1, MoveStart DEF SharedTypes, Fair, Memos, Kept, memos, ghosts
<1>6. LockInv'
  BY <1>1, <1>3, MoveStart, LockStays DEF Loading
<1>7. Epochs'
  BY <1>1, <1>3, EpochsStay DEF ghosts
<1>8. Local(t)'
  BY <1>1, <1>3, MoveStart DEF Local, Reading, Loading
<1>9. Calm(t)'
  BY <1>1, <1>3, <1>4, MoveStart DEF Calm, Reading, Loading, ghosts
<1>10. QED
  BY <1>3, <1>5, <1>6, <1>7, <1>8, <1>9, Together

LEMMA PushRevisionKeeps == ASSUME ReloadInv, NEW t \in Threads, PushRevision(t) PROVE ReloadInv'
<1>1. /\ pc[t] = "use" /\ want[t] = "revision" /\ mapper[t] # NoMapper
      /\ revision' = FirstWriter(revision, seen[t])
      /\ calm' = (calm /\ ~pending)
      /\ UNCHANGED <<tree, skip, sources, scan, slot, saved, lock, results, op, rules, pin,
                     mapper, epoch, since, pending, left>>
  BY MoveStart DEF PushRevision, Local, NoteLoad, Loading
<1>2. pc[t] \in Reading /\ pc[t] \in Loading /\ t \notin lock
  BY <1>1, LoadStart DEF Reading, Loading
<1>3. /\ revision' \in Versions
      /\ calm /\ ~pending => revision' = tree
  BY <1>1, <1>2, LoadStart DEF FirstWriter
<1>4. PICK s \in Versions : s = revision'
  BY <1>3
<1>5. Moves(t, op[t], "finish", "none", s, mapper[t], since[t])
  BY <1>1, <1>4, MoveStart, SameFunction DEF PushRevision, See, Goto, Moves
<1>6. /\ ThreadTypes' /\ Alone(t)
      /\ op'[t] = op[t] /\ pc'[t] = "finish"
      /\ mapper'[t] = mapper[t] /\ since'[t] = since[t]
  BY <1>4, <1>5, MovesOnFacts, MoveStart DEF Pcs, Wants
<1>7. SharedTypes' /\ Fair(t) /\ Memos' /\ Kept'
  BY <1>1, <1>3, MoveStart DEF SharedTypes, Fair, Memos, Kept
<1>8. LockInv'
  BY <1>1, <1>2, <1>6, LockStays
<1>9. Epochs'
  BY <1>1, <1>6, EpochsStay
<1>10. Local(t)'
  BY <1>1, <1>6, MoveStart DEF Local, Reading, Loading
<1>11. Calm(t)'
  BY <1>1, <1>6, MoveStart DEF Calm, Reading, Loading
<1>12. QED
  BY <1>6, <1>7, <1>8, <1>9, <1>10, <1>11, Together

\* A thread that is done forgets everything.
LEMMA IdleFacts ==
  ASSUME ReloadInv, NEW t \in Threads, Idle(t),
         \/ want' = want
         \/ want' = [want EXCEPT ![t] = "none"]
  PROVE  /\ ThreadTypes' /\ Alone(t) /\ Local(t)'
         /\ pc'[t] = "idle" /\ mapper'[t] = NoMapper
         /\ Calm(t)'
<1>1. ThreadTypes /\ Local(t)
  BY DEF ReloadInv
<1>2. /\ op' \in [Threads -> Ops] /\ op'[t] = "none"
      /\ pc' \in [Threads -> Pcs] /\ pc'[t] = "idle"
      /\ want' \in [Threads -> Wants]
      /\ \A u \in Threads : u # t => op'[u] = op[u] /\ pc'[u] = pc[u] /\ want'[u] = want[u]
  BY <1>1 DEF ThreadTypes, Idle, Ops, Pcs, Wants
<1>3. /\ seen' \in [Threads -> Versions]
      /\ rules' \in [Threads -> Versions] /\ rules'[t] = 0
      /\ pin' \in [Threads -> Versions] /\ pin'[t] = 0
      /\ mapper' \in [Threads -> Mappers \cup {NoMapper}] /\ mapper'[t] = NoMapper
      /\ since' \in [Threads -> Nat]
      /\ \A u \in Threads : u # t => /\ seen'[u] = seen[u] /\ rules'[u] = rules[u]
                                     /\ pin'[u] = pin[u] /\ mapper'[u] = mapper[u]
                                     /\ since'[u] = since[u]
  BY <1>1, VersionFacts DEF ThreadTypes, Idle
<1>4. ThreadTypes' /\ Alone(t)
  BY <1>2, <1>3 DEF ThreadTypes, Alone
<1>5. Local(t)'
  BY <1>2, <1>3 DEF Local, Reading, Loading
<1>6. Calm(t)'
  BY <1>2, <1>3 DEF Calm, Honest, Reading, Loading
<1>7. QED
  BY <1>2, <1>3, <1>4, <1>5, <1>6

LEMMA FinishKeeps == ASSUME ReloadInv, NEW t \in Threads, Finish(t) PROVE ReloadInv'
<1>1. /\ pc[t] = "finish" /\ mapper[t] \in Mappers
      /\ Idle(t)
      /\ \/ results' = results
         \/ results' = results \cup {[key |-> mapper[t].pin, rules |-> mapper[t].rules]}
      /\ UNCHANGED <<tree, skip, memos, slot, saved, lock, want, epoch, calm, pending, left>>
  BY MoveStart DEF Finish, StoreKey, Local
<1>2. /\ ThreadTypes' /\ Alone(t) /\ Local(t)' /\ Calm(t)'
      /\ pc'[t] = "idle" /\ mapper'[t] = NoMapper
  BY <1>1, IdleFacts
<1>3. mapper[t].pin \in Versions /\ mapper[t].rules \in Versions
  BY <1>1 DEF Mappers
<1>4. calm => mapper[t].rules = mapper[t].pin
  BY <1>1, MoveStart, ReloadAssumption DEF Calm, Honest
<1>5. SharedTypes' /\ Fair(t) /\ Memos' /\ Kept'
  BY <1>1, <1>3, <1>4, MoveStart DEF SharedTypes, Fair, Memos, Kept, memos
<1>6. LockInv'
  BY <1>1, <1>2, MoveStart, LockStays DEF Loading
<1>7. Epochs'
  BY <1>1, <1>2, EpochsStay
<1>8. QED
  BY <1>2, <1>5, <1>6, <1>7, Together

LEMMA LoadFailsKeeps == ASSUME ReloadInv, NEW t \in Threads, LoadFails(t) PROVE ReloadInv'
<1>1. /\ Idle(t) /\ want' = [want EXCEPT ![t] = "none"] /\ lock' = lock \ {t}
      /\ UNCHANGED <<tree, skip, memos, slot, saved, results, epoch, calm, pending, left>>
  BY DEF LoadFails
<1>2. /\ ThreadTypes' /\ Alone(t) /\ Local(t)' /\ Calm(t)'
      /\ pc'[t] = "idle" /\ mapper'[t] = NoMapper
  BY <1>1, IdleFacts
<1>3. SharedTypes' /\ Fair(t) /\ Memos' /\ Kept'
  BY <1>1, MoveStart DEF SharedTypes, Fair, Memos, Kept, memos
<1>4. LockInv' /\ Epochs'
  BY <1>1, <1>2, LockLeft, EpochsStay
<1>5. QED
  BY <1>2, <1>3, <1>4, Together

LEMMA ClearKeeps == ASSUME ReloadInv, NEW t \in Threads, Clear(t) PROVE ReloadInv'
<1>1. /\ pc[t] = "clear" /\ Idle(t) /\ slot' = NoMapper /\ epoch' = epoch + 1
      /\ UNCHANGED <<tree, skip, memos, saved, lock, results, want, calm, pending, left>>
  BY DEF Clear
<1>2. /\ ThreadTypes' /\ Alone(t) /\ Local(t)' /\ Calm(t)'
      /\ pc'[t] = "idle" /\ mapper'[t] = NoMapper
  BY <1>1, IdleFacts
<1>3. SharedTypes' /\ Fair(t) /\ Memos' /\ Kept'
  BY <1>1, MoveStart DEF SharedTypes, Fair, Memos, Kept, Honest, memos
<1>4. LockInv' /\ Epochs'
  BY <1>1, <1>2, MoveStart, LockStays, EpochsMove DEF Loading
<1>5. QED
  BY <1>2, <1>3, <1>4, Together

LEMMA SwapKeeps == ASSUME ReloadInv, NEW t \in Threads, Swap(t) PROVE ReloadInv'
<1>1. /\ pc[t] = "swap" /\ Idle(t) /\ slot' = Built(t) /\ epoch' = epoch + 1
      /\ UNCHANGED <<tree, skip, memos, saved, lock, results, want, calm, pending, left>>
  BY DEF Swap
<1>2. /\ ThreadTypes' /\ Alone(t) /\ Local(t)' /\ Calm(t)'
      /\ pc'[t] = "idle" /\ mapper'[t] = NoMapper
  BY <1>1, IdleFacts
<1>3. Built(t) \in Mappers /\ (calm => Honest(Built(t)))
  BY <1>1, MoveStart, BuiltFacts DEF Calm
<1>4. SharedTypes' /\ Fair(t) /\ Memos' /\ Kept'
  <2>1. PICK m \in Mappers : m = Built(t)
    BY <1>3
  <2>2. slot' = m /\ (calm => Honest(m))
    BY <1>1, <1>3, <2>1
  <2>3. QED
    BY <1>1, <2>2, MoveStart DEF SharedTypes, Fair, Memos, Kept, memos
<1>5. LockInv' /\ Epochs'
  BY <1>1, <1>2, MoveStart, LockStays, EpochsMove DEF Loading
<1>6. QED
  BY <1>2, <1>4, <1>5, Together

\* A reload and a flip begin, drop the memos one after the other, and build.
LEMMA BeginKeeps ==
  ASSUME ReloadInv, NEW t \in Threads, Reload(t) \/ Flip(t)
  PROVE  ReloadInv'
<1>1. /\ op[t] = "none" /\ pc[t] = "idle" /\ skip' \in BOOLEAN
      /\ UNCHANGED <<tree, memos, slot, saved, lock, results, locals, mapper, ghosts>>
  BY MoveStart DEF Reload, Flip, Local, SharedTypes
<1>2. PICK o \in {"reload", "flip"} :
         Moves(t, o, "dropSources", want[t], seen[t], mapper[t], since[t])
  BY <1>1, MoveStart, SameFunction DEF Reload, Flip, Goto, Moves, locals, ghosts
<1>3. /\ ThreadTypes' /\ Alone(t)
      /\ op'[t] = o /\ pc'[t] = "dropSources" /\ want'[t] = want[t] /\ seen'[t] = seen[t]
      /\ mapper'[t] = mapper[t] /\ since'[t] = since[t]
      /\ rules'[t] = rules[t] /\ pin'[t] = pin[t]
  <2>1. o \in Ops /\ "dropSources" \in Pcs
    BY DEF Ops, Pcs
  <2>2. PICK w \in Wants, s \in Versions : w = want[t] /\ s = seen[t]
    BY MoveStart
  <2>3. Moves(t, o, "dropSources", w, s, mapper[t], since[t])
    BY <1>2, <2>2
  <2>4. QED
    BY <2>1, <2>2, <2>3, MovesOnFacts
<1>4. left' \in Allowed
  BY CountedDown, MoveStart DEF Reload, Flip, SharedTypes
<1>5. SharedTypes' /\ Fair(t) /\ Memos' /\ Kept'
  BY <1>1, <1>4, MoveStart DEF SharedTypes, Fair, Memos, Kept, memos, ghosts
<1>6. LockInv' /\ Epochs'
  BY <1>1, <1>3, MoveStart, LockStays, EpochsStay DEF Loading, ghosts
<1>7. Local(t)'
  BY <1>1, <1>2, <1>3, MoveStart DEF Local, Reading, Loading
<1>8. Calm(t)'
  BY <1>1, <1>3, MoveStart DEF Calm, Reading, Loading, ghosts
<1>9. QED
  BY <1>3, <1>5, <1>6, <1>7, <1>8, Together

LEMMA DropSourcesKeeps == ASSUME ReloadInv, NEW t \in Threads, DropSources(t) PROVE ReloadInv'
<1>1. /\ pc[t] = "dropSources" /\ sources' = 0
      /\ UNCHANGED <<tree, skip, scan, revision, slot, saved, lock, results, op, locals,
                     mapper, ghosts, left>>
  BY DEF DropSources
<1>2. Moves(t, op[t], "dropScan", want[t], seen[t], mapper[t], since[t])
  BY <1>1, MoveStart, SameFunction DEF DropSources, Goto, Moves, locals, ghosts
<1>3. /\ ThreadTypes' /\ Alone(t)
      /\ op'[t] = op[t] /\ pc'[t] = "dropScan" /\ want'[t] = want[t]
      /\ mapper'[t] = mapper[t] /\ since'[t] = since[t]
      /\ rules'[t] = rules[t] /\ pin'[t] = pin[t]
  BY <1>2, GoesFacts DEF Pcs
<1>4. SharedTypes' /\ Fair(t) /\ Memos' /\ Kept'
  BY <1>1, MoveStart, VersionFacts DEF SharedTypes, Fair, Memos, Kept, ghosts
<1>5. LockInv' /\ Epochs'
  BY <1>1, <1>3, MoveStart, LockStays, EpochsStay DEF Loading, ghosts
<1>6. Local(t)'
  BY <1>1, <1>3, MoveStart DEF Local, Reading, Loading
<1>7. Calm(t)'
  BY <1>1, <1>3, MoveStart DEF Calm, Reading, Loading, ghosts
<1>8. QED
  BY <1>3, <1>4, <1>5, <1>6, <1>7, Together

LEMMA DropScanKeeps == ASSUME ReloadInv, NEW t \in Threads, DropScan(t) PROVE ReloadInv'
<1>1. /\ pc[t] = "dropScan" /\ scan' = 0
      /\ UNCHANGED <<tree, skip, sources, revision, slot, saved, lock, results, op, locals,
                     mapper, ghosts, left>>
  BY DEF DropScan
<1>2. Moves(t, op[t], "dropRevision", want[t], seen[t], mapper[t], since[t])
  BY <1>1, MoveStart, SameFunction DEF DropScan, Goto, Moves, locals, ghosts
<1>3. /\ ThreadTypes' /\ Alone(t)
      /\ op'[t] = op[t] /\ pc'[t] = "dropRevision" /\ want'[t] = want[t]
      /\ mapper'[t] = mapper[t] /\ since'[t] = since[t]
      /\ rules'[t] = rules[t] /\ pin'[t] = pin[t]
  BY <1>2, GoesFacts DEF Pcs
<1>4. SharedTypes' /\ Fair(t) /\ Memos' /\ Kept'
  BY <1>1, MoveStart, VersionFacts DEF SharedTypes, Fair, Memos, Kept, ghosts
<1>5. LockInv' /\ Epochs'
  BY <1>1, <1>3, MoveStart, LockStays, EpochsStay DEF Loading, ghosts
<1>6. Local(t)'
  BY <1>1, <1>3, MoveStart DEF Local, Reading, Loading
<1>7. Calm(t)'
  BY <1>1, <1>3, MoveStart DEF Calm, Reading, Loading, ghosts
<1>8. QED
  BY <1>3, <1>4, <1>5, <1>6, <1>7, Together

\* With the last memo the announcement is complete: none of them is old.
LEMMA DropRevisionKeeps ==
  ASSUME ReloadInv, NEW t \in Threads, DropRevision(t) PROVE ReloadInv'
<1>1. /\ pc[t] = "dropRevision" /\ revision' = 0 /\ pending' = FALSE
      /\ UNCHANGED <<tree, skip, sources, scan, slot, saved, lock, results, op, locals,
                     mapper, epoch, since, calm, left>>
  BY DEF DropRevision
<1>2. PICK l \in {"clear", "build"} :
         Moves(t, op[t], l, want[t], seen[t], mapper[t], since[t])
  BY <1>1, MoveStart, SameFunction DEF DropRevision, Goto, Moves, locals
<1>3. /\ ThreadTypes' /\ Alone(t)
      /\ op'[t] = op[t] /\ pc'[t] = l /\ want'[t] = want[t]
      /\ mapper'[t] = mapper[t] /\ since'[t] = since[t]
      /\ rules'[t] = rules[t] /\ pin'[t] = pin[t]
  BY <1>2, GoesFacts DEF Pcs
<1>4. Memos'
  BY <1>1, MoveStart DEF Memos, Calm
<1>5. SharedTypes' /\ Fair(t) /\ Kept'
  BY <1>1, MoveStart, VersionFacts DEF SharedTypes, Fair, Kept
<1>6. LockInv' /\ Epochs'
  BY <1>1, <1>3, MoveStart, LockStays, EpochsStay DEF Loading
<1>7. Local(t)'
  BY <1>1, <1>3, MoveStart DEF Local, Reading, Loading
<1>8. Calm(t)'
  BY <1>1, <1>3, MoveStart DEF Calm, Reading, Loading
<1>9. QED
  BY <1>3, <1>4, <1>5, <1>6, <1>7, <1>8, Together

LEMMA BuildKeeps == ASSUME ReloadInv, NEW t \in Threads, Build(t) PROVE ReloadInv'
<1>1. /\ pc[t] = "build" /\ rules[t] = 0 /\ pin[t] = 0
      /\ UNCHANGED <<tree, skip, memos, slot, saved, lock, results, op, seen, rules, pin,
                     mapper, ghosts, left>>
  BY MoveStart DEF Build, Local
<1>2. PICK l \in {"swap", "publish", "scan"}, w \in Wants :
         /\ Moves(t, op[t], l, w, seen[t], mapper[t], since[t])
         /\ l = "scan" => w = "probe"
  BY <1>1, MoveStart, SameFunction DEF Build, Goto, Ask, AfterLoad, Moves, ghosts, Wants
<1>3. /\ ThreadTypes' /\ Alone(t)
      /\ op'[t] = op[t] /\ pc'[t] = l /\ want'[t] = w
      /\ mapper'[t] = mapper[t] /\ since'[t] = since[t]
      /\ rules'[t] = 0 /\ pin'[t] = 0
  <2>1. l \in Pcs
    BY DEF Pcs, Loading
  <2>2. PICK o \in Ops, s \in Versions : o = op[t] /\ s = seen[t]
    BY MoveStart
  <2>3. Moves(t, o, l, w, s, mapper[t], since[t])
    BY <1>2, <2>2
  <2>4. QED
    BY <1>1, <2>1, <2>2, <2>3, MovesOnFacts
<1>4. SharedTypes' /\ Fair(t) /\ Memos' /\ Kept'
  BY <1>1, MoveStart DEF SharedTypes, Fair, Memos, Kept, memos, ghosts
<1>5. LockInv' /\ Epochs'
  BY <1>1, <1>3, MoveStart, LockStays, EpochsStay DEF Loading, ghosts
<1>6. Local(t)'
  BY <1>1, <1>2, <1>3, MoveStart DEF Local, Reading, Loading
<1>7. Calm(t)'
  BY <1>1, <1>2, <1>3, MoveStart DEF Calm, Reading, Loading, ghosts
<1>8. QED
  BY <1>3, <1>4, <1>5, <1>6, <1>7, Together

-----------------------------------------------------------------------------
(* The invariant.                                                          *)

LEMMA EditKeeps == ASSUME ReloadInv, EditTree PROVE ReloadInv'
<1>1. /\ tree' = tree + 1 /\ tree < MaxTree /\ pending' = TRUE
      /\ calm' = (calm /\ \A t \in Threads : pc[t] \in {"idle", "ambient", "finish"})
      /\ UNCHANGED <<skip, memos, slot, saved, lock, results, op, pc, locals, mapper,
                     epoch, since, left>>
  BY DEF EditTree
<1>2. SharedTypes'
  <2>1. tree' \in 1..MaxTree
    BY <1>1, ReloadAssumption DEF ReloadInv, SharedTypes
  <2>2. QED
    BY <1>1, <2>1 DEF ReloadInv, SharedTypes, memos
<1>3. ThreadTypes' /\ LockInv'
  BY <1>1 DEF ReloadInv, ThreadTypes, LockInv, locals
<1>4. Memos' /\ Kept' /\ Epochs'
  BY <1>1 DEF ReloadInv, Memos, Kept, Epochs, OneMapperPerEpoch, Dated
<1>5. \A t \in Threads : Local(t)'
  BY <1>1 DEF ReloadInv, Local, locals
<1>6. \A t \in Threads : Calm(t)'
  BY <1>1 DEF ReloadInv, Calm, locals, Reading, Loading
<1>7. QED
  BY <1>2, <1>3, <1>4, <1>5, <1>6 DEF ReloadInv

LEMMA ReloadInvInit == Init => ReloadInv
<1> SUFFICES ASSUME Init PROVE ReloadInv
  OBVIOUS
<1>1. SharedTypes
  <2>1. 1 \in 1..MaxTree /\ left \in Allowed
    BY ReloadAssumption DEF Init, Allowed
  <2>2. QED
    BY <2>1, VersionFacts DEF Init, SharedTypes
<1>2. ThreadTypes
  BY VersionFacts DEF Init, ThreadTypes, Ops, Pcs, Wants
<1>3. LockInv /\ Memos /\ Kept
  BY DEF Init, LockInv, Memos, Kept, Honest
<1>4. Epochs
  BY DEF Init, Epochs, OneMapperPerEpoch, Dated
<1>5. \A t \in Threads : Local(t)
  BY DEF Init, Local, Reading, Loading
<1>6. \A t \in Threads : Calm(t)
  BY DEF Init, Calm, Honest, Reading, Loading
<1>7. QED
  BY <1>1, <1>2, <1>3, <1>4, <1>5, <1>6 DEF ReloadInv

LEMMA ReloadInvNext == ReloadInv /\ [Next]_vars => ReloadInv'
<1> SUFFICES ASSUME ReloadInv, [Next]_vars PROVE ReloadInv'
  OBVIOUS
<1>1. CASE UNCHANGED vars
  <2>1. SharedTypes' /\ ThreadTypes' /\ LockInv'
    BY <1>1 DEF ReloadInv, vars, memos, locals, ghosts, SharedTypes, ThreadTypes, LockInv
  <2>2. Memos' /\ Kept' /\ Epochs'
    BY <1>1 DEF ReloadInv, vars, memos, locals, ghosts, Memos, Kept, Epochs,
                OneMapperPerEpoch, Dated
  <2>3. \A t \in Threads : Local(t)' /\ Calm(t)'
    BY <1>1 DEF ReloadInv, vars, memos, locals, ghosts, Local, Calm
  <2>4. QED
    BY <2>1, <2>2, <2>3 DEF ReloadInv
<1>2. ASSUME NEW t \in Threads, Step(t) PROVE ReloadInv'
  BY <1>2, ReadScanKeeps, ReadSourcesKeeps, PushSourcesKeeps, PushScanKeeps, ProbeKeeps,
     BuildLockKeeps, ParseKeeps, SaveKeeps, PinKeeps, PublishKeeps, AmbientKeeps,
     PushRevisionKeeps, FinishKeeps, DropSourcesKeeps, DropScanKeeps, DropRevisionKeeps,
     ClearKeeps, BuildKeeps, SwapKeeps DEF Step
<1>3. QED
  BY <1>1, <1>2, LoadFailsKeeps, AnalyseKeeps, BeginKeeps, EditKeeps DEF Next

\* The inductive invariant of loads, memos, mappers and reports.
THEOREM ReloadInvariant == Spec => []ReloadInv
<1>1. QED
  BY ReloadInvInit, ReloadInvNext, PTL DEF Spec

\* Every variable has its type; one thread at most has the build lock, and only
\* while it loads.
THEOREM ReloadTypes == Spec => []TypeOK
<1>1. ReloadInv => TypeOK
  <2> SUFFICES ASSUME ReloadInv PROVE TypeOK
    OBVIOUS
  <2>1. lock \subseteq {h \in Hosts : pc[h] \in Loading} /\ Cardinality(lock) <= 1
    <3>1. LockInv
      BY DEF ReloadInv
    <3>2. CASE lock = {}
      BY <3>2, FS_EmptySet
    <3>3. CASE \E h \in lock : TRUE
      <4>1. PICK h \in lock : TRUE
        BY <3>3
      <4>2. lock = {h}
        BY <3>1, <4>1 DEF LockInv
      <4>3. Cardinality(lock) = 1
        BY <4>2, FS_Singleton
      <4>4. QED
        BY <3>1, <4>3 DEF LockInv
    <3>4. QED
      BY <3>2, <3>3
  <2>2. /\ {sources, scan, revision} \subseteq Versions
        /\ {seen, rules, pin} \subseteq [Threads -> Versions]
    BY DEF ReloadInv, SharedTypes, ThreadTypes
  <2>3. QED
    BY <2>1, <2>2 DEF ReloadInv, SharedTypes, ThreadTypes, TypeOK, Ops, Pcs, Wants, Allowed
<1>2. QED
  BY <1>1, ReloadInvariant, PTL

\* shared_mapper: analyses that take the mapper between the same two
\* invalidations take the same one, however many threads built one meanwhile.
THEOREM OneMapper == Spec => []OneMapperPerEpoch
<1>1. ReloadInv => OneMapperPerEpoch
  BY DEF ReloadInv, Epochs
<1>2. QED
  BY <1>1, ReloadInvariant, PTL

\* from_loaded_rules and the report keys: as long as no load step falls between
\* an edit of the tree and the end of its invalidation, the mappers, the mapper
\* cache and the stored reports are of the rules that their key names.
THEOREM KeysAreHonest == Spec => []CalmHonest
<1>1. ReloadInv => CalmHonest
  BY DEF ReloadInv, SharedTypes, Kept, Calm, CalmHonest
<1>2. QED
  BY <1>1, ReloadInvariant, PTL

\* reload_capability_mapper: a reload that meets no other load and no edit
\* installs the rules of the tree as it is.
THEOREM ReloadsTake == Spec => QuietReloadTakes
<1>1. ASSUME ReloadInv, NEW t \in Threads, calm, Swap(t)
      PROVE  slot'.rules \in {tree, 0}
  <2>1. pc[t] = "swap" /\ slot' = Built(t)
    BY <1>1 DEF Swap
  <2>2. rules[t] \in {0, tree}
    BY <1>1, <2>1 DEF ReloadInv, Calm
  <2>3. QED
    BY <1>1, <2>1, <2>2, BuiltFacts
<1>2. ReloadInv /\ [Next]_vars
      => [\A t \in Threads : (calm /\ ~pending /\ Swap(t)) => slot'.rules \in {tree, 0}]_vars
  BY <1>1
<1>3. QED
  BY <1>2, ReloadInvariant, PTL DEF Spec, QuietReloadTakes

-----------------------------------------------------------------------------
(* Their evaluation: RuleEval. *)

LoopSteps == {"positive", "negative", "again", "merge"}
LateSteps == {"third_party", "sweep", "cascade"}

\* What the place in the evaluation says of the other variables.
PhaseInv ==
    /\ step = "independent" => report = book.yara
    /\ step \in {"independent", "dependent"} => found = {}
    /\ step \in {"independent", "dependent"} \cup LoopSteps =>
           report \cap Composites = {} /\ merged.ids = {}
    /\ step = "third_party" => found \subseteq report /\ merged.ids = report
    /\ step = "independent" => round = 1
    /\ step \in {"independent", "dependent"} => outer = 1
    /\ step \in {"positive", "negative", "again"} => outer <= MaxRounds
    /\ removed \subseteq report
    /\ report \subseteq merged.ids \/ merged.ids = {}
    /\ step \in LateSteps => report \subseteq merged.ids
    /\ \A i \in Ids \ Composites : refs[i] = {}

EvalInv == EvalTypeOK /\ PhaseInv

\* What remains to be done when a fixed point of the traits is interrupted.
AtomsDone(S) == \A t \in Atoms : TraitMatches(t, S) => t \in S \/ Forgone(t)
Neighbours(t) == book.cond[t] \cup UnlessIds(t)
Known == report \cup book.layer \cup found
Settled(list) == \A c \in list : CompositeMatches(c, Scope) => c \in Known

\* The traits without references are found in the first pass, or forgone; later
\* rounds have left only neighbours of what the last one added.
TraitsInv ==
    ~cancelled /\ ~gap =>
        /\ step \in {"dependent"} \cup LoopSteps =>
               \A t \in Atoms : ~HasTraitDependency(t) /\ t \in book.holds
                                => t \in report \/ Forgone(t)
        /\ step = "dependent" /\ round # 1 =>
               \A t \in Atoms : /\ HasTraitDependency(t) /\ TraitMatches(t, report)
                                /\ t \notin report
                                => Neighbours(t) \cap changed # {} \/ Forgone(t)
        /\ step \in LoopSteps /\ ~capped => AtomsDone(report)

\* The traits that have been found hold; none is among those ruled out.
AtomsHold ==
    step \in {"independent", "dependent"} \cup LoopSteps => report \cap Atoms \subseteq book.holds

\* Composites without `unless:` are settled when those with one get their turn.
CompositesInv ==
    /\ step = "again" /\ outer = MaxRounds => capped
    /\ ~capped =>
        /\ step = "negative" => Settled(Positive)
        /\ step = "merge" => Settled(Composites)

CompleteInv == TraitsInv /\ AtomsHold /\ CompositesInv /\ Complete

\* A composite's citations satisfy its trait legs by themselves.
LegIds(c) == UNION (book.all[c] \cup book.any[c])
Evidence ==
    /\ \A c \in found : step \in LoopSteps =>
           /\ StillMatch(c, refs[c])
           /\ refs[c] \subseteq Scope \cap LegIds(c)
    /\ \A c \in merged.ids \cap Composites :
           /\ StillMatch(c, merged.refs[c])
           /\ merged.refs[c] \subseteq merged.ids \cup book.layer \cup book.view
    /\ \A i \in Ids \ Composites : merged.refs[i] = {}

\* Why a finding goes, of those gone and those about to go.
HasCause(i) ==
    \/ SuppressedItself(i) \/ LostALeg(i) \/ ~(merged.refs[i] \subseteq merged.ids)
CauseInv ==
    /\ Evidence
    /\ step \in LateSteps => \A i \in report : refs[i] = merged.refs[i] \/ LostALeg(i)
    /\ \A i \in Dropped \cup removed : HasCause(i)

\* What a finding may be cited from.
Citable == report \cup book.layer \cup book.view
Standing(c) ==
    /\ refs[c] \subseteq Citable /\ StillMatch(c, Citable)
    /\ refs[c] = {} => StillMatch(c, {})
StandInv ==
    /\ Evidence
    /\ step = "third_party" => \A c \in report \cap Composites : refs[c] \subseteq LegIds(c)
    /\ step \notin LoopSteps =>
           \A c \in (report \ removed) \cap Composites : Standing(c)

-----------------------------------------------------------------------------
(* What the rules say of a set of findings. *)

\* The references of a composite are finite sets of ids.
LEMMA RefsOf ==
  ASSUME IsBook(book), NEW c \in Composites
  PROVE  /\ book.all[c] \subseteq Refs /\ book.any[c] \subseteq Refs
         /\ IsFiniteSet(book.all[c]) /\ IsFiniteSet(book.any[c])
         /\ book.needs[c] \in Nat \ {0}
         /\ book.anyContent[c] \in {"none", "hit", "miss"}
<1>1. book.all[c] \subseteq Refs /\ book.any[c] \subseteq Refs
  BY DEF IsBook
<1>2. IsFiniteSet(SUBSET Ids)
  BY RuleAssumption, FS_SUBSET
<1>3. IsFiniteSet(Refs)
  BY <1>2, FS_Subset DEF Refs
<1>4. QED
  BY <1>1, <1>3, FS_Subset DEF IsBook

LEMMA ReachedFacts ==
  ASSUME NEW i, NEW r, NEW S
  PROVE  Reached(i, r, S) \subseteq r \cap S
BY DEF Reached

\* The pairs that an `any:` counts are finitely many.
Pairs(conds, S) == UNION {{r} \X (r \cap S) : r \in conds}

LEMMA PairsFinite ==
  ASSUME IsBook(book), NEW c \in Composites, NEW S, NEW P,
         P \subseteq Pairs(book.any[c], S)
  PROVE  /\ IsFiniteSet(P) /\ Cardinality(P) \in Nat
         /\ IsFiniteSet(Pairs(book.any[c], S)) /\ Cardinality(Pairs(book.any[c], S)) \in Nat
         /\ Cardinality(P) <= Cardinality(Pairs(book.any[c], S))
<1> DEFINE all == book.any[c] \X Ids
<1>1. IsFiniteSet(all)
  BY RefsOf, RuleAssumption, FS_Product
<1>2. \A r \in book.any[c] : r \subseteq Ids
  BY RefsOf DEF Refs
<1>3. Pairs(book.any[c], S) \subseteq all
  <2>1. ASSUME NEW r \in book.any[c] PROVE {r} \X (r \cap S) \subseteq all
    BY <1>2
  <2>2. QED
    BY <2>1 DEF Pairs
<1> HIDE DEF all
<1>4. IsFiniteSet(Pairs(book.any[c], S))
  BY <1>1, <1>3, FS_Subset
<1>5. QED
  BY <1>4, FS_Subset, FS_CardinalityType

\* More findings do not break what a composite stands on.
LEMMA StillMatchGrows ==
  ASSUME IsBook(book), NEW c \in Composites, NEW S, NEW T, StillMatch(c, S),
         \A r \in book.all[c] \cup book.any[c] : r \cap S \subseteq T
  PROVE  StillMatch(c, T)
<1>1. \A r \in book.all[c] : r \cap T # {}
  BY DEF StillMatch
<1>2. Pairs(book.any[c], S) \subseteq Pairs(book.any[c], T)
  <2>1. ASSUME NEW r \in book.any[c]
        PROVE  {r} \X (r \cap S) \subseteq {r} \X (r \cap T)
    OBVIOUS
  <2>2. QED
    BY <2>1 DEF Pairs
<1>3. /\ Cardinality(Pairs(book.any[c], S)) <= Cardinality(Pairs(book.any[c], T))
      /\ Cardinality(Pairs(book.any[c], S)) \in Nat
      /\ Cardinality(Pairs(book.any[c], T)) \in Nat
  <2>1. Pairs(book.any[c], S) \subseteq Pairs(book.any[c], S)
    OBVIOUS
  <2>2. Cardinality(Pairs(book.any[c], S)) \in Nat
    BY <2>1, PairsFinite
  <2>3. QED
    BY <1>2, <2>2, PairsFinite
<1>4. book.needs[c] \in Nat
  BY RefsOf
<1>5. ASSUME book.any[c] # {}, book.anyContent[c] = "none"
      PROVE  Cardinality(Pairs(book.any[c], T)) >= book.needs[c]
  <2>1. Cardinality(Pairs(book.any[c], S)) >= book.needs[c]
    BY <1>5 DEF StillMatch, Pairs
  <2>2. QED
    BY <1>3, <1>4, <2>1
<1>6. QED
  BY <1>1, <1>5 DEF StillMatch, Pairs

\* What a composite cites when it matches are findings in sight that meet its legs.
LEMMA MatchIsBacked ==
  ASSUME IsBook(book), NEW c \in Composites, NEW S, CompositeMatches(c, S)
  PROVE  /\ StillMatch(c, MatchedTraitIds(c, S))
         /\ MatchedTraitIds(c, S) \subseteq S \cap LegIds(c)
<1> DEFINE M == MatchedTraitIds(c, S)
<1>1. \A r \in book.all[c] \cup book.any[c] : Reached(c, r, S) \subseteq r \cap M
  BY ReachedFacts DEF MatchedTraitIds
<1>2. M \subseteq S \cap LegIds(c)
  BY ReachedFacts DEF MatchedTraitIds, LegIds
<1>3. \A r \in book.all[c] : r \cap M # {}
  BY <1>1 DEF CompositeMatches
<1>4. ASSUME book.any[c] # {}, book.anyContent[c] = "none"
      PROVE  Cardinality(Pairs(book.any[c], M)) >= book.needs[c]
  <2>1. Cardinality(Backing(c, book.any[c], S)) + 0 >= book.needs[c]
    BY <1>4 DEF CompositeMatches, AnyHolds, HasAny
  <2>2. Backing(c, book.any[c], S) \subseteq Pairs(book.any[c], M)
    <3>1. ASSUME NEW r \in book.any[c]
          PROVE  {r} \X Reached(c, r, S) \subseteq {r} \X (r \cap M)
      BY <1>1
    <3>2. QED
      BY <3>1 DEF Backing, Pairs
  <2>3. /\ Cardinality(Backing(c, book.any[c], S)) \in Nat
        /\ Cardinality(Pairs(book.any[c], M)) \in Nat
        /\ Cardinality(Backing(c, book.any[c], S)) <= Cardinality(Pairs(book.any[c], M))
    <3> HIDE DEF M
    <3>1. QED
      BY <2>2, PairsFinite
  <2>4. QED
    BY <2>1, <2>3, RefsOf
<1>5. QED
  BY <1>2, <1>3, <1>4 DEF StillMatch, Pairs

\* required_trait_ids is sound: a composite that matches has all of them in sight.
LEMMA RequiredAreThere ==
  ASSUME IsBook(book), NEW c \in Composites, NEW S, CompositeMatches(c, S)
  PROVE  RequiredTraitIds(c) \subseteq S
<1>1. ASSUME NEW x \in Atoms, {x} \in book.all[c] PROVE x \in S
  BY <1>1, ReachedFacts DEF CompositeMatches
<1>2. ASSUME book.needs[c] >= Legs(c), \A r \in book.any[c] : Cardinality(r) = 1,
             NEW x \in Atoms, {x} \in book.any[c], x \notin S
      PROVE  FALSE
  <2> DEFINE any == book.any[c]
             B == Backing(c, any, S)
             rest == any \ {{x}}
             leg == [q \in B |-> q[1]]
  <2>1. IsFiniteSet(any) /\ Cardinality(any) \in Nat
    BY RefsOf, FS_CardinalityType
  <2>2. /\ IsFiniteSet(rest)
        /\ Cardinality(rest) = Cardinality(any) - 1
    BY <1>2, <2>1, FS_RemoveElement
  <2>3. ASSUME NEW q \in B
        PROVE  /\ q[1] \in rest /\ q = <<q[1], q[2]>>
               /\ q[2] \in q[1] /\ q[2] \in S
    <3>1. PICK r \in any : q \in {r} \X Reached(c, r, S)
      BY DEF Backing
    <3>2. /\ q[1] = r /\ q = <<q[1], q[2]>>
          /\ q[2] \in r /\ q[2] \in S
      BY <3>1, ReachedFacts
    <3>3. r # {x}
      BY <1>2, <3>2
    <3>4. QED
      BY <3>2, <3>3
  <2>4. ASSUME NEW q1 \in B, NEW q2 \in B, q1[1] = q2[1] PROVE q1 = q2
    <3>1. q1[1] \in any
      BY <2>3
    <3>2. IsFiniteSet(q1[1]) /\ Cardinality(q1[1]) = 1
      <4>1. q1[1] \subseteq Ids
        BY <3>1, RefsOf DEF Refs
      <4>2. IsFiniteSet(q1[1])
        BY <4>1, RuleAssumption, FS_Subset
      <4>3. QED
        BY <1>2, <3>1, <4>2
    <3>3. PICK y : q1[1] = {y}
      BY <3>2, FS_Singleton
    <3>4. q1[2] = y /\ q2[2] = y
      BY <2>3, <2>4, <3>3
    <3>5. QED
      BY <2>3, <2>4, <3>4
  <2>5. leg \in Injection(B, rest)
    <3>1. leg \in [B -> rest]
      BY <2>3
    <3>2. \A q1, q2 \in B : leg[q1] = q1[1] /\ leg[q2] = q2[1]
      OBVIOUS
    <3> HIDE DEF leg, B
    <3>3. \A q1, q2 \in B : leg[q1] = leg[q2] => q1 = q2
      BY <2>4, <3>2
    <3>4. QED
      BY <3>1, <3>3 DEF Injection, IsInjective
  <2> HIDE DEF leg, rest, B
  <2>6. /\ Cardinality(B) \in Nat
        /\ Cardinality(B) <= Cardinality(any) - 1
    BY <2>2, <2>5, FS_Injection, FS_CardinalityType
  <2>7. Cardinality(B) + (IF book.anyContent[c] = "hit" THEN 1 ELSE 0) >= book.needs[c]
    BY <1>2 DEF CompositeMatches, AnyHolds, HasAny, B
  <2>8. book.needs[c] >= Cardinality(any) + (IF book.anyContent[c] = "none" THEN 0 ELSE 1)
    BY <1>2 DEF Legs
  <2>9. book.needs[c] \in Nat
    BY RefsOf
  <2> HIDE DEF any
  <2>10. CASE book.anyContent[c] = "hit"
    BY <2>1, <2>6, <2>7, <2>8, <2>9, <2>10
  <2>11. CASE book.anyContent[c] # "hit"
    BY <2>1, <2>6, <2>7, <2>8, <2>9, <2>11
  <2>12. QED
    BY <2>10, <2>11
<1>3. QED
  BY <1>1, <1>2 DEF RequiredTraitIds

\* A trait says the same of two sets that agree on its neighbours.
LEMMA TraitLooksAtNeighbours ==
  ASSUME NEW t \in Atoms, NEW S, NEW T, Neighbours(t) \cap S = Neighbours(t) \cap T
  PROVE  TraitMatches(t, S) <=> TraitMatches(t, T)
<1>1. \A r \in book.unless[t] : r \cap S = r \cap T
  BY DEF Neighbours, UnlessIds
<1>2. \A r \in book.unless[t] : Reached(t, r, S) = Reached(t, r, T)
  BY <1>1 DEF Reached
<1>3. book.cond[t] \cap S = book.cond[t] \cap T
  BY DEF Neighbours
<1>4. Reached(t, book.cond[t], S) = Reached(t, book.cond[t], T)
  BY <1>3 DEF Reached
<1>5. QED
  BY <1>2, <1>4 DEF TraitMatches, Withheld

\* One that refers to nothing looks at the content alone.
LEMMA TraitWithoutReferences ==
  ASSUME NEW t \in Atoms, ~HasTraitDependency(t), NEW S
  PROVE  TraitMatches(t, S) <=> t \in book.holds
BY DEF HasTraitDependency, TraitMatches, Withheld

\* What a pass returns matches; what a pass that is not cut short leaves out has
\* been shed or is doomed beside something notable.
LEMMA PassFacts ==
  ASSUME EvalTypeOK, NEW list \in SUBSET Atoms, NEW out, PassResult(list, out)
  PROVE  /\ out \subseteq Hits(list) /\ out \subseteq Atoms
         /\ cancelled' \in BOOLEAN /\ gap' \in BOOLEAN
         /\ shed' \subseteq Atoms /\ shed \subseteq shed'
         /\ ~cancelled' /\ ~gap' =>
               /\ ~cancelled /\ ~gap
               /\ \A t \in Hits(list) \ out :
                     \/ t \in shed' \ Protected
                     \/ Doomed(t) /\ (report \cup out \cup shed') \cap book.notable # {}
<1> DEFINE rest == Hits({t \in list : ~Doomed(t)})
           notable == (rest \cup report) \cap book.notable # {}
<1>1. /\ Evaluated(list) = IF notable THEN rest ELSE Hits(list)
      /\ rest = {t \in Hits(list) : ~Doomed(t)}
      /\ Hits(list) \subseteq Atoms
  BY DEF Evaluated, Hits
<1> HIDE DEF rest
<1>2. CASE /\ out \in Presented(Evaluated(list))
           /\ shed' = shed \cup (Evaluated(list) \ out)
           /\ UNCHANGED <<cancelled, gap>>
  <2>1. out \subseteq Evaluated(list) /\ Evaluated(list) \cap Protected \subseteq out
    BY <1>2 DEF Presented
  <2>2. Evaluated(list) \subseteq Hits(list)
    BY <1>1
  <2>3. ASSUME NEW t \in Hits(list) \ out
        PROVE  \/ t \in shed' \ Protected
               \/ Doomed(t) /\ (report \cup out \cup shed') \cap book.notable # {}
    <3>1. CASE t \in Evaluated(list)
      BY <1>2, <2>1, <3>1
    <3>2. CASE t \notin Evaluated(list)
      <4>1. notable /\ t \notin rest /\ Evaluated(list) = rest
        BY <1>1, <3>2
      <4>2. rest \subseteq out \cup shed'
        BY <1>2, <4>1
      <4>3. QED
        BY <1>1, <4>1, <4>2
    <3>3. QED
      BY <3>1, <3>2
  <2>4. cancelled' \in BOOLEAN /\ gap' \in BOOLEAN
    BY <1>2 DEF EvalTypeOK
  <2>5. shed' \subseteq Atoms /\ shed \subseteq shed'
    BY <1>1, <1>2, <2>2 DEF EvalTypeOK
  <2>6. QED
    BY <1>1, <1>2, <2>1, <2>2, <2>3, <2>4, <2>5
<1>3. CASE /\ out \in SUBSET Hits(list)
           /\ \/ MayCancel /\ cancelled' = TRUE /\ UNCHANGED gap
              \/ MayRunLate /\ gap' = TRUE /\ UNCHANGED cancelled
           /\ UNCHANGED shed
  <2>1. cancelled' \in BOOLEAN /\ gap' \in BOOLEAN /\ (cancelled' \/ gap')
    BY <1>3 DEF EvalTypeOK
  <2>2. QED
    BY <1>1, <1>3, <2>1 DEF EvalTypeOK
<1>4. QED
  BY <1>2, <1>3 DEF PassResult

\* What is said of the book stays with the book.
LEMMA RequiredStays ==
  ASSUME UNCHANGED book
  PROVE  \A c : RequiredTraitIds(c)' = RequiredTraitIds(c)
BY DEF RequiredTraitIds, Legs

LEMMA DoomedStays ==
  ASSUME UNCHANGED book
  PROVE  \A t : Doomed(t)' = Doomed(t)
<1>1. \A c : RequiredTraitIds(c)' = RequiredTraitIds(c)
  BY RequiredStays
<1>2. \A t : Consumers(t)' = Consumers(t)
  BY <1>1 DEF Consumers
<1>3. \A t : NeverSkip(t)' = NeverSkip(t)
  BY DEF NeverSkip, HasDirectory, UnlessIds, Legs
<1>4. QED
  BY <1>1, <1>2, <1>3 DEF Doomed

LEMMA ProtectedStays ==
  ASSUME UNCHANGED book PROVE Protected' = Protected
BY DEF Protected, Referenced, UnlessIds

LEMMA ExposedStays ==
  ASSUME UNCHANGED book PROVE \A c : Exposed(c)' = Exposed(c)
<1>1. \A c : RequiredTraitIds(c)' = RequiredTraitIds(c)
  BY RequiredStays
<1>2. QED
  BY <1>1 DEF Exposed

LEMMA DependencyStays ==
  ASSUME UNCHANGED book PROVE \A t : HasTraitDependency(t)' = HasTraitDependency(t)
BY DEF HasTraitDependency

\* What has been forgone stays so while findings are only added.
LEMMA ForgoneStays ==
  ASSUME NEW t \in Atoms, Forgone(t), UNCHANGED book, shed \subseteq shed',
         report \ Composites \subseteq report'
  PROVE  Forgone(t)'
<1>1. book' = book
  OBVIOUS
<1>2. Protected' = Protected
  BY ProtectedStays
<1>3. Doomed(t)' = Doomed(t)
  BY DoomedStays
<1>4. HasTraitDependency(t)' = HasTraitDependency(t)
  BY DependencyStays
<1>5. report \ Composites \subseteq report' \ Composites
  OBVIOUS
<1>6. CASE book.tiny /\ ~HasTraitDependency(t)
  BY <1>1, <1>4, <1>6 DEF Forgone
<1>7. CASE Skipped(t)
  BY <1>1, <1>3, <1>5, <1>7 DEF Forgone, Skipped
<1>8. CASE t \in shed \ Protected
  BY <1>2, <1>8 DEF Forgone
<1>9. QED
  BY <1>6, <1>7, <1>8 DEF Forgone

\* doomed_skip: what it may cost are composites that are exposed to it.
LEMMA SkipCosts ==
  ASSUME EvalInv, AtomsHold, step \in LoopSteps,
         NEW K, K \subseteq {t \in Atoms : Doomed(t) /\ t \in book.holds},
         NEW c \in Composites, CompositeMatches(c, Scope \cup K), ~CompositeMatches(c, Scope)
  PROVE  Exposed(c)
<1> SUFFICES ASSUME ~Exposed(c) PROVE FALSE
  OBVIOUS
<1>1. IsBook(book) /\ found \subseteq Composites /\ report \cap Atoms \subseteq book.holds
  BY DEF EvalInv, EvalTypeOK, AtomsHold
<1>2. PICK x \in K : x \in UNION (book.all[c] \cup book.any[c])
  <2> SUFFICES ASSUME \A x \in K : x \notin UNION (book.all[c] \cup book.any[c])
               PROVE  FALSE
    OBVIOUS
  <2>1. \A r \in book.all[c] \cup book.any[c] : r \cap (Scope \cup K) = r \cap Scope
    OBVIOUS
  <2>2. \A r \in book.all[c] \cup book.any[c] :
           Reached(c, r, Scope \cup K) = Reached(c, r, Scope)
    BY <2>1 DEF Reached
  <2>3. \A r : Reached(c, r, Scope) \subseteq Reached(c, r, Scope \cup K)
    BY DEF Reached
  <2>4. ~Withheld(c, Scope)
    BY <2>3 DEF CompositeMatches, Withheld
  <2>5. Backing(c, book.any[c], Scope \cup K) = Backing(c, book.any[c], Scope)
    BY <2>2 DEF Backing
  <2>6. AnyHolds(c, Scope)
    BY <2>5 DEF CompositeMatches, AnyHolds
  <2>7. QED
    BY <2>2, <2>4, <2>6 DEF CompositeMatches
<1>3. x \in Atoms /\ Doomed(x) /\ ~NeverSkip(x)
  BY DEF Doomed
<1>4. ASSUME NEW r \in book.all[c] \cup book.any[c], ~(Cardinality(r) > 1)
      PROVE  Cardinality(r) = 1 /\ \A z \in r : r = {z}
  <2> book.all[c] \subseteq Refs /\ book.any[c] \subseteq Refs
    BY <1>1, RefsOf
  <2>1. r \subseteq Ids /\ r # {}
    BY <1>4 DEF Refs
  <2>2. IsFiniteSet(r) /\ Cardinality(r) \in Nat
    BY <2>1, RuleAssumption, FS_Subset, FS_CardinalityType
  <2>3. Cardinality(r) # 0
    BY <2>1, <2>2, FS_EmptySet
  <2>4. Cardinality(r) = 1
    BY <1>4, <2>2, <2>3
  <2>5. QED
    BY <2>2, <2>4, FS_Singleton
<1>5. x \in RequiredTraitIds(c)
  <2>1. CASE x \in UNION book.all[c]
    <3>1. PICK r \in book.all[c] : x \in r
      BY <2>1
    <3>2. ~(Cardinality(r) > 1)
      BY DEF Exposed
    <3>3. r = {x}
      BY <1>4, <3>1, <3>2
    <3>4. QED
      BY <1>3, <3>3 DEF RequiredTraitIds
  <2>2. CASE x \in UNION book.any[c]
    <3>1. PICK r \in book.any[c] : x \in r
      BY <2>2
    <3>2. ~(book.needs[c] < Legs(c))
      BY <1>3, <2>2 DEF NeverSkip
    <3>3. \A z \in book.any[c] : ~(Cardinality(z) > 1)
      BY <1>2, <1>3 DEF NeverSkip, HasDirectory
    <3>4. \A z \in book.any[c] : Cardinality(z) = 1
      BY <1>4, <3>3
    <3>5. r = {x}
      BY <1>4, <3>1, <3>3
    <3>6. book.needs[c] >= Legs(c)
      <4>1. book.needs[c] \in Nat /\ Cardinality(book.any[c]) \in Nat
        BY <1>1, RefsOf, FS_CardinalityType
      <4>2. Legs(c) \in Nat
        BY <4>1 DEF Legs
      <4>3. QED
        BY <3>2, <4>1, <4>2
    <3>7. QED
      BY <1>3, <3>1, <3>4, <3>5, <3>6 DEF RequiredTraitIds
  <2>3. QED
    BY <1>2, <2>1, <2>2
<1>6. c \in Consumers(x)
  BY <1>1, <1>5 DEF Consumers, CompositeMatches, IsBook
<1>7. PICK p \in RequiredTraitIds(c) : p \in book.cannot
  BY <1>3, <1>6 DEF Doomed
<1>8. p \in Scope \cup K /\ p \in Atoms /\ p \notin book.holds
  BY <1>1, <1>7, RequiredAreThere DEF IsBook
<1>9. p \in book.layer \cup book.view
  BY <1>1, <1>8, RuleAssumption DEF Scope
<1>10. QED
  BY <1>7, <1>9 DEF Exposed

-----------------------------------------------------------------------------
(* Types and phases. *)

\* The book is one of the books.
LEMMA TheBook == EvalSpec => [](book \in Books)
<1>1. EvalInit => book \in Books
  BY DEF EvalInit
<1>2. book \in Books /\ [EvalNext]_evalVars => (book \in Books)'
  BY DEF EvalNext, Evaluate, Cancel, Done, Independent, Dependent, PositiveRound, NegativeRound,
         Merge, DropThirdParty, Sweep, Cascade, evalVars
<1>3. QED
  BY <1>1, <1>2, PTL DEF EvalSpec

LEMMA EvalInvInit == EvalInit => EvalInv
<1> SUFFICES ASSUME EvalInit PROVE EvalInv
  OBVIOUS
<1>1. IsBook(book)
  BY BookAssumption DEF EvalInit
<1>2. book.yara \subseteq ThirdParty
  BY <1>1 DEF IsBook
<1>3. 1 \in 1..MaxRounds /\ 1 \in 1..MaxRounds + 1 /\ 1 <= MaxRounds
  BY BoundAssumption
<1>4. EvalTypeOK
  BY <1>1, <1>2, <1>3 DEF EvalInit, EvalTypeOK, Steps, Ids, Rules
<1>5. PhaseInv
  BY <1>2, <1>3, RuleAssumption
  DEF EvalInit, PhaseInv, LoopSteps, LateSteps, Ids, Rules
<1>6. QED
  BY <1>4, <1>5 DEF EvalInv

\* The rules found in one round, and what they cite.
LEMMA NewFindings ==
  ASSUME EvalTypeOK, NEW list \in SUBSET Composites,
         NEW new, new = EvalRules(list), AddFindings(new)
  PROVE  /\ new \subseteq list /\ found' \subseteq Composites
         /\ refs' \in [Ids -> SUBSET Ids]
         /\ \A i \in Ids \ new : refs'[i] = refs[i]
         /\ \A c \in new : /\ CompositeMatches(c, Scope)
                           /\ refs'[c] = MatchedTraitIds(c, Scope)
<1>1. new \subseteq list /\ \A c \in new : CompositeMatches(c, Scope)
  BY DEF EvalRules
<1>2. Scope \subseteq Ids
  BY DEF EvalTypeOK, IsBook, Scope, Ids, Rules
<1>3. ASSUME NEW c \in Composites PROVE MatchedTraitIds(c, Scope) \subseteq Ids
  BY <1>2, ReachedFacts DEF MatchedTraitIds
<1>4. \A i \in Ids : refs'[i] = IF i \in new THEN MatchedTraitIds(i, Scope) ELSE refs[i]
  BY DEF AddFindings
<1>5. refs' \in [Ids -> SUBSET Ids]
  BY <1>1, <1>3 DEF AddFindings, EvalTypeOK
<1>6. QED
  BY <1>1, <1>4, <1>5 DEF AddFindings, EvalTypeOK, Ids, Rules

LEMMA IndependentTypes ==
  ASSUME EvalInv, Independent PROVE EvalInv'
<1> USE DEF EvalInv, EvalTypeOK, PhaseInv, LoopSteps, LateSteps, Steps
<1>1. CASE cancelled
  BY <1>1 DEF Independent
<1>2. CASE ~cancelled
  <2>1. PICK out \in SUBSET Atoms :
          PassResult(IndependentTraits, out) /\ report' = report \cup out /\ step' = "dependent"
    BY <1>2 DEF Independent
  <2>2. cancelled' \in BOOLEAN /\ gap' \in BOOLEAN /\ shed' \subseteq Atoms
    <3>1. IndependentTraits \in SUBSET Atoms
      BY DEF IndependentTraits
    <3>2. QED
      BY <2>1, <3>1, PassFacts
  <2>3. report' \subseteq Ids /\ report' \cap Composites = {}
    BY <2>1, RuleAssumption DEF Independent, Ids, Rules
  <2>4. QED
    BY <2>1, <2>2, <2>3 DEF Independent
<1>3. QED
  BY <1>1, <1>2

LEMMA DependentTypes ==
  ASSUME EvalInv, Dependent PROVE EvalInv'
<1> USE DEF EvalInv, EvalTypeOK, PhaseInv, LoopSteps, LateSteps, Steps
<1>1. CASE cancelled
  BY <1>1, BoundAssumption DEF Dependent
<1>2. CASE ~cancelled
  <2>1. PICK out \in SUBSET Atoms :
          /\ PassResult(Worklist, out)
          /\ report' = report \cup (out \ report)
          /\ changed' = out \ report
          /\ capped' = (capped \/ (out \ report # {} /\ round = MaxRounds))
          /\ IF out \ report = {} \/ round = MaxRounds
             THEN step' = "positive" /\ round' = 1
             ELSE round' = round + 1 /\ UNCHANGED step
    BY <1>2 DEF Dependent
  <2>2. cancelled' \in BOOLEAN /\ gap' \in BOOLEAN /\ shed' \subseteq Atoms
    <3>1. Worklist \in SUBSET Atoms
      BY DEF Worklist
    <3>2. QED
      BY <2>1, <3>1, PassFacts
  <2>3. report' \subseteq Ids /\ report' \cap Composites = {} /\ changed' \subseteq Atoms
    BY <2>1, RuleAssumption DEF Dependent, Ids, Rules
  <2>4. round' \in 1..MaxRounds /\ step' \in {"dependent", "positive"}
    BY <2>1, BoundAssumption DEF Dependent
  <2>5. outer' <= MaxRounds /\ outer' = 1
    BY BoundAssumption DEF Dependent
  <2>6. QED
    BY <2>1, <2>2, <2>3, <2>4, <2>5 DEF Dependent
<1>3. QED
  BY <1>1, <1>2

LEMMA PositiveTypes ==
  ASSUME EvalInv, PositiveRound PROVE EvalInv'
<1> DEFINE new == EvalRules(Positive)
<1>1. new \subseteq Positive /\ AddFindings(new) /\ Positive \subseteq Composites
  BY DEF PositiveRound, EvalRules, Positive
<1>2. /\ found' \subseteq Composites /\ refs' \in [Ids -> SUBSET Ids]
      /\ \A i \in Ids \ Composites : refs'[i] = refs[i]
  BY <1>1, NewFindings DEF EvalInv
<1>3. /\ step' \in {"positive", "again", "negative", "merge"}
      /\ round' \in 1..MaxRounds /\ outer' \in 1..MaxRounds + 1
      /\ step' # "merge" => outer' <= MaxRounds
      /\ capped' \in BOOLEAN
  <2>1. outer \in 1..MaxRounds /\ round \in 1..MaxRounds /\ capped \in BOOLEAN
    BY BoundAssumption DEF PositiveRound, EvalInv, EvalTypeOK, PhaseInv
  <2>2. CASE new # {} /\ round < MaxRounds
    BY <2>1, <2>2, BoundAssumption DEF PositiveRound
  <2>3. CASE ~(new # {} /\ round < MaxRounds)
    BY <2>1, <2>3, BoundAssumption DEF PositiveRound
  <2>4. QED
    BY <2>2, <2>3
<1> HIDE DEF new
<1>4. /\ step \in {"positive", "again"}
      /\ UNCHANGED <<book, report, changed, removed, cancelled, gap, shed, merged>>
  BY DEF PositiveRound
<1>5. EvalTypeOK'
  BY <1>2, <1>3, <1>4 DEF EvalInv, EvalTypeOK, Steps
<1>6. PhaseInv'
  BY <1>2, <1>3, <1>4 DEF EvalInv, PhaseInv, LoopSteps, LateSteps
<1>7. QED
  BY <1>5, <1>6 DEF EvalInv

LEMMA NegativeTypes ==
  ASSUME EvalInv, NegativeRound PROVE EvalInv'
<1> DEFINE new == EvalRules(Negative)
<1>1. new \subseteq Negative /\ AddFindings(new) /\ Negative \subseteq Composites
  BY DEF NegativeRound, EvalRules, Negative
<1>2. /\ found' \subseteq Composites /\ refs' \in [Ids -> SUBSET Ids]
      /\ \A i \in Ids \ Composites : refs'[i] = refs[i]
  BY <1>1, NewFindings DEF EvalInv
<1>3. /\ step = "negative" /\ step' \in {"again", "merge"} /\ capped' \in BOOLEAN
      /\ UNCHANGED <<book, report, changed, round, outer, removed, cancelled, gap, shed, merged>>
  BY DEF NegativeRound, EvalInv, EvalTypeOK
<1> HIDE DEF new
<1>4. EvalTypeOK'
  BY <1>2, <1>3 DEF EvalInv, EvalTypeOK, Steps
<1>5. PhaseInv'
  BY <1>2, <1>3 DEF EvalInv, PhaseInv, LoopSteps, LateSteps
<1>6. QED
  BY <1>4, <1>5 DEF EvalInv

LEMMA MergeTypes ==
  ASSUME EvalInv, Merge PROVE EvalInv'
<1>1. report' \subseteq Ids /\ merged'.ids = report' /\ merged' = [ids |-> report', refs |-> refs]
  BY DEF Merge, EvalInv, EvalTypeOK, Ids, Rules
<1>2. EvalTypeOK'
  BY <1>1 DEF Merge, EvalInv, EvalTypeOK, Steps
<1>3. PhaseInv'
  BY <1>1 DEF Merge, EvalInv, EvalTypeOK, PhaseInv, LoopSteps, LateSteps
<1>4. QED
  BY <1>2, <1>3 DEF EvalInv

LEMMA DropTypes ==
  ASSUME EvalInv, DropThirdParty PROVE EvalInv'
<1>1. report' \subseteq report /\ removed = {}
  BY DEF DropThirdParty, EvalInv, EvalTypeOK
<1>2. EvalTypeOK'
  BY <1>1 DEF DropThirdParty, EvalInv, EvalTypeOK, Steps
<1>3. PhaseInv'
  BY <1>1 DEF DropThirdParty, EvalInv, EvalTypeOK, PhaseInv, LoopSteps, LateSteps
<1>4. QED
  BY <1>2, <1>3 DEF EvalInv

LEMMA SweepTypes ==
  ASSUME EvalInv, Sweep PROVE EvalInv'
<1>1. removed' \subseteq report /\ removed' \subseteq Rules
  BY DEF Sweep, ShouldSuppress
<1>2. step' \in {"done", "cascade"} /\ (step' # "cascade" => removed' = {})
  BY DEF Sweep
<1>3. EvalTypeOK'
  BY <1>1, <1>2 DEF Sweep, EvalInv, EvalTypeOK, Steps
<1>4. PhaseInv'
  BY <1>1, <1>2 DEF Sweep, EvalInv, EvalTypeOK, PhaseInv, LoopSteps, LateSteps
<1>5. QED
  BY <1>3, <1>4 DEF EvalInv

\* The parts of a round of remove_findings_and_orphaned_dependents.
Remaining == report \ removed
Citing == {i \in Remaining : refs[i] # {}}
Struck(i) == refs[i] \ removed
Orphan(i) == ~StillMatch(i, Remaining) \/ (Struck(i) = {} /\ ~SatisfiedAgain(i, Remaining))
Orphaned == {i \in Citing : Orphan(i)}

LEMMA CascadeFacts ==
  ASSUME EvalInv, Cascade
  PROVE  /\ step = "cascade" /\ report' = Remaining /\ removed' = Orphaned
         /\ Citing \subseteq Composites
         /\ step' = IF Orphaned = {} THEN "sweep" ELSE "cascade"
         /\ \A i \in Ids : refs'[i] = IF i \notin Citing THEN refs[i]
                                      ELSE IF Struck(i) = {} /\ i \notin Orphaned
                                      THEN LegsAgain(i, Remaining) ELSE Struck(i)
         /\ DOMAIN refs' = Ids /\ refs' = [i \in Ids |-> refs'[i]]
         /\ UNCHANGED <<book, changed, found, round, outer, cancelled, gap, shed, merged, capped>>
<1>1. Citing \subseteq Composites
  BY DEF Citing, Remaining, EvalInv, EvalTypeOK, PhaseInv
<1>2. refs' = [i \in Ids |-> IF i \notin Citing THEN refs[i]
                                      ELSE IF Struck(i) = {} /\ i \notin Orphaned
                                      THEN LegsAgain(i, Remaining) ELSE Struck(i)]
  BY DEF Cascade, Remaining, Citing, Struck, Orphan, Orphaned
<1>3. QED
  BY <1>1, <1>2 DEF Cascade, Remaining, Citing, Struck, Orphan, Orphaned

LEMMA CascadeTypes ==
  ASSUME EvalInv, Cascade PROVE EvalInv'
<1>1. Remaining \subseteq report /\ Orphaned \subseteq Remaining /\ Orphaned \subseteq Composites
  BY CascadeFacts DEF Remaining, Orphaned, Citing
<1>2. ASSUME NEW i \in Ids PROVE refs'[i] \subseteq Ids
  <2>1. LegsAgain(i, Remaining) \subseteq Ids
    BY DEF LegsAgain, Remaining, EvalInv, EvalTypeOK
  <2>2. refs[i] \subseteq Ids /\ Struck(i) \subseteq Ids
    BY DEF Struck, EvalInv, EvalTypeOK
  <2>3. QED
    BY <2>1, <2>2, CascadeFacts
<1>3. refs' \in [Ids -> SUBSET Ids]
  BY <1>2, CascadeFacts
<1>4. EvalTypeOK'
  BY <1>1, <1>3, CascadeFacts DEF EvalInv, EvalTypeOK, Steps, Rules
<1>5. ASSUME NEW i \in Ids \ Composites PROVE refs'[i] = {}
  BY <1>5, CascadeFacts DEF EvalInv, PhaseInv
<1>6. PhaseInv'
  BY <1>1, <1>5, CascadeFacts DEF EvalInv, PhaseInv, LoopSteps, LateSteps
<1>7. QED
  BY <1>4, <1>6 DEF EvalInv

LEMMA EvalInvNext == EvalInv /\ [EvalNext]_evalVars => EvalInv'
<1> SUFFICES ASSUME EvalInv, [EvalNext]_evalVars PROVE EvalInv'
  OBVIOUS
<1>1. CASE Cancel
  BY <1>1 DEF Cancel, EvalInv, EvalTypeOK, PhaseInv, LoopSteps, LateSteps
<1>2. CASE UNCHANGED evalVars
  BY <1>2 DEF evalVars, EvalInv, EvalTypeOK, PhaseInv
<1>3. QED
  BY <1>1, <1>2, IndependentTypes, DependentTypes, PositiveTypes, NegativeTypes, MergeTypes,
     DropTypes, SweepTypes, CascadeTypes DEF EvalNext, Evaluate, Done

LEMMA EvalInvariant == EvalSpec => []EvalInv
BY EvalInvInit, EvalInvNext, PTL DEF EvalSpec

\* evaluate_and_merge_findings_with_precomputed: whatever the rule book and the
\* file, every variable keeps its type.
THEOREM EvalTypes == EvalSpec => []EvalTypeOK
<1>1. EvalInv => EvalTypeOK
  BY DEF EvalInv
<1>2. QED
  BY <1>1, EvalInvariant, PTL

-----------------------------------------------------------------------------
(* Suppression. *)

\* apply_retroactive_unless_suppression: no rule book leaves a finding of a rule
\* beside one that its `unless:` names.
THEOREM NothingBesideItsSuppressor == EvalSpec => []NothingSuppressedLeft
<1>1. EvalInit => NothingSuppressedLeft
  BY DEF EvalInit, NothingSuppressedLeft
<1>2. EvalInv /\ NothingSuppressedLeft /\ [EvalNext]_evalVars => NothingSuppressedLeft'
  <2> SUFFICES ASSUME EvalInv, NothingSuppressedLeft, [EvalNext]_evalVars, step' = "done"
               PROVE  (\A i \in report \cap Rules : UnlessIds(i) \cap report = {})'
    BY DEF NothingSuppressedLeft
  <2>1. CASE Independent
    <3>1. report' = book.yara /\ report' \subseteq ThirdParty
      BY <2>1 DEF Independent, EvalInv, EvalTypeOK, PhaseInv, IsBook
    <3>2. QED
      BY <3>1, RuleAssumption
  <2>2. CASE Sweep
    <3>1. {i \in report : ShouldSuppress(i)} = {} /\ UNCHANGED <<report, book>>
      BY <2>2 DEF Sweep
    <3>2. QED
      BY <3>1 DEF ShouldSuppress, UnlessIds
  <2>3. CASE UNCHANGED evalVars
    BY <2>3 DEF evalVars, NothingSuppressedLeft, UnlessIds
  <2>4. step' # "done" \/ Independent \/ Sweep \/ UNCHANGED evalVars
    <3>1. Cancel => step' # "done"
      BY DEF Cancel
    <3>2. Dependent => step' # "done"
      BY DEF Dependent
    <3>3. PositiveRound \/ NegativeRound \/ Merge \/ DropThirdParty => step' # "done"
      BY DEF PositiveRound, NegativeRound, Merge, DropThirdParty
    <3>4. Cascade => step' # "done"
      BY CascadeFacts
    <3>5. QED
      BY <3>1, <3>2, <3>3, <3>4 DEF EvalNext, Evaluate, Done
  <2>5. QED
    BY <2>1, <2>2, <2>3, <2>4
<1>3. QED
  BY <1>1, <1>2, EvalInvariant, PTL DEF EvalSpec

-----------------------------------------------------------------------------
(* Evidence. *)

LEMMA EvidenceInit == EvalInit => Evidence
BY DEF EvalInit, Evidence

\* A round of composites adds findings with their evidence.
LEMMA RoundEvidence ==
  ASSUME EvalInv, Evidence, step \in LoopSteps, NEW list \in SUBSET Composites,
         AddFindings(EvalRules(list)), UNCHANGED <<book, report, merged>>
  PROVE  Evidence'
<1> DEFINE new == EvalRules(list)
<1>1. IsBook(book) /\ IsBook(book)' /\ found \subseteq Composites
  BY DEF EvalInv, EvalTypeOK
<1>2. /\ new \subseteq list /\ \A c \in new : CompositeMatches(c, Scope)
      /\ \A c \in new : refs'[c] = MatchedTraitIds(c, Scope)
      /\ \A i \in Ids \ new : refs'[i] = refs[i]
  BY NewFindings DEF EvalInv
<1>3. found' = found \cup new /\ Scope \subseteq Scope'
  BY DEF AddFindings, Scope
<1> HIDE DEF new
<1>4. ASSUME NEW c \in found'
      PROVE  StillMatch(c, refs'[c]) /\ refs'[c] \subseteq Scope' \cap LegIds(c)
  <2>1. CASE c \in new
    <3>1. CompositeMatches(c, Scope) /\ c \in Composites /\ refs'[c] = MatchedTraitIds(c, Scope)
      BY <1>2, <2>1
    <3>2. QED
      BY <1>1, <1>3, <3>1, MatchIsBacked
  <2>2. CASE c \notin new
    <3>1. c \in found /\ c \in Ids /\ refs'[c] = refs[c]
      BY <1>1, <1>2, <1>3, <1>4, <2>2 DEF Ids
    <3>2. QED
      BY <1>3, <3>1 DEF Evidence
  <2>3. QED
    BY <2>1, <2>2
<1>5. QED
  BY <1>4 DEF Evidence, StillMatch, LegIds

LEMMA EvidenceNext ==
  ASSUME EvalInv, Evidence, [EvalNext]_evalVars PROVE Evidence'
<1>1. CASE Independent \/ Dependent \/ Cancel
  <2>1. found' = {} /\ merged' = merged /\ merged'.ids = {}
    BY <1>1 DEF Independent, Dependent, Cancel, EvalInv, PhaseInv
  <2>2. QED
    BY <2>1 DEF Evidence
<1>2. CASE PositiveRound
  <2>1. /\ step \in LoopSteps /\ Positive \in SUBSET Composites
        /\ AddFindings(EvalRules(Positive)) /\ UNCHANGED <<book, report, merged>>
    BY <1>2 DEF PositiveRound, LoopSteps, Positive
  <2>2. QED
    BY <2>1, RoundEvidence
<1>3. CASE NegativeRound
  <2>1. /\ step \in LoopSteps /\ Negative \in SUBSET Composites
        /\ AddFindings(EvalRules(Negative)) /\ UNCHANGED <<book, report, merged>>
    BY <1>3 DEF NegativeRound, LoopSteps, Negative
  <2>2. QED
    BY <2>1, RoundEvidence
<1>4. CASE Merge
  <2>1. /\ merged' = [ids |-> report \cup found, refs |-> refs] /\ step' = "third_party"
        /\ step = "merge" /\ UNCHANGED <<book, refs>>
    BY <1>4 DEF Merge
  <2>2. report \cap Composites = {}
    BY <2>1 DEF EvalInv, PhaseInv, LoopSteps
  <2>3. \A c \in found : StillMatch(c, refs[c])
    BY <2>1 DEF Evidence, LoopSteps
  <2>4. /\ \A c \in found : refs[c] \subseteq Scope
        /\ Scope = merged'.ids \cup book.layer \cup book.view
    BY <2>1 DEF Evidence, LoopSteps, Scope
  <2>5. \A c \in merged'.ids \cap Composites :
           /\ StillMatch(c, merged'.refs[c])
           /\ merged'.refs[c] \subseteq merged'.ids \cup book'.layer \cup book'.view
    BY <2>1, <2>2, <2>3, <2>4
  <2>6. \A i \in Ids \ Composites : merged'.refs[i] = {}
    BY <2>1 DEF EvalInv, PhaseInv
  <2>7. QED
    BY <2>1, <2>5, <2>6 DEF Evidence, LoopSteps, StillMatch
<1>5. CASE DropThirdParty \/ Sweep \/ Cascade
  <2>1. step' \notin LoopSteps /\ UNCHANGED <<book, merged>>
    BY <1>5, CascadeFacts DEF DropThirdParty, Sweep, LoopSteps
  <2>2. QED
    BY <2>1 DEF Evidence, StillMatch
<1>6. CASE UNCHANGED evalVars
  <2>1. UNCHANGED <<book, step, report, refs, found, merged>>
    BY <1>6 DEF evalVars
  <2>2. \A c \in found : step \in LoopSteps =>
           (StillMatch(c, refs[c]) /\ refs[c] \subseteq Scope \cap LegIds(c))'
    BY <2>1 DEF Evidence, StillMatch, LegIds, Scope
  <2>3. \A c \in merged.ids \cap Composites :
           (/\ StillMatch(c, merged.refs[c])
            /\ merged.refs[c] \subseteq merged.ids \cup book.layer \cup book.view)'
    BY <2>1 DEF Evidence, StillMatch
  <2>4. QED
    BY <2>1, <2>2, <2>3 DEF Evidence
<1>7. QED
  BY <1>1, <1>2, <1>3, <1>4, <1>5, <1>6 DEF EvalNext, Evaluate, Done

\* A cause lasts: what is gone stays gone.
LEMMA CausesLast ==
  ASSUME NEW i, HasCause(i), UNCHANGED <<book, merged>>, report' \subseteq report
  PROVE  HasCause(i)'
BY DEF HasCause, SuppressedItself, LostALeg, Dropped, UnlessIds

LEMMA CauseInit == EvalInit => CauseInv
BY EvidenceInit DEF EvalInit, CauseInv, Dropped, LateSteps

\* A composite that has lost nothing it cites still stands on its citations.
LEMMA OrphansHaveCause ==
  ASSUME EvalInv, CauseInv, Cascade, NEW i \in Orphaned
  PROVE  HasCause(i)'
<1> SUFFICES ASSUME ~LostALeg(i)', merged.refs[i] \subseteq merged.ids
             PROVE  FALSE
  BY CascadeFacts DEF HasCause
<1>1. /\ i \in Composites /\ i \in report /\ i \notin removed
      /\ refs[i] # {} /\ Orphan(i) /\ report \subseteq merged.ids
      /\ step = "cascade" /\ merged' = merged /\ report' = Remaining
  BY CascadeFacts DEF Orphaned, Citing, Remaining, EvalInv, PhaseInv, LateSteps
<1>2. merged.refs[i] \subseteq Remaining
  BY <1>1 DEF LostALeg, Dropped
<1>3. refs[i] = merged.refs[i]
  <2>1. ~LostALeg(i)
    BY <1>1, <1>2 DEF LostALeg, Dropped, Remaining
  <2>2. QED
    BY <1>1, <2>1 DEF CauseInv, LateSteps
<1>4. Struck(i) # {}
  BY <1>1, <1>2, <1>3 DEF Struck, Remaining
<1>5. StillMatch(i, merged.refs[i])
  BY <1>1 DEF CauseInv, Evidence
<1>6. StillMatch(i, Remaining)
  BY <1>1, <1>2, <1>5, StillMatchGrows DEF EvalInv, EvalTypeOK
<1>7. QED
  BY <1>1, <1>4, <1>6 DEF Orphan

LEMMA CauseNext ==
  ASSUME EvalInv, CauseInv, [EvalNext]_evalVars PROVE CauseInv'
<1>1. Evidence'
  BY EvidenceNext DEF CauseInv
<1>2. CASE Independent \/ Dependent \/ Cancel \/ PositiveRound \/ NegativeRound
  <2>1. /\ step' \notin LateSteps /\ merged'.ids = {} /\ removed' = {}
    BY <1>2 DEF Independent, Dependent, Cancel, PositiveRound, NegativeRound, LateSteps,
       EvalInv, EvalTypeOK, PhaseInv, LoopSteps
  <2>2. QED
    BY <1>1, <2>1 DEF CauseInv, Dropped
<1>3. CASE Merge
  <2>1. /\ merged' = [ids |-> report', refs |-> refs] /\ refs' = refs /\ removed' = {}
    BY <1>3 DEF Merge, EvalInv, EvalTypeOK
  <2>2. QED
    BY <1>1, <2>1 DEF CauseInv, Dropped
<1>4. CASE DropThirdParty
  <2>1. /\ report' = {i \in report : i \in ThirdParty => UnlessIds(i) \cap report = {}}
        /\ merged.ids = report /\ removed' = {} /\ step \in LateSteps
        /\ UNCHANGED <<book, merged, refs>>
    BY <1>4 DEF DropThirdParty, EvalInv, EvalTypeOK, PhaseInv, LateSteps
  <2>2. ASSUME NEW i \in report' PROVE refs'[i] = merged'.refs[i] \/ LostALeg(i)'
    BY <2>1, <2>2 DEF CauseInv, LostALeg, Dropped
  <2>3. ASSUME NEW i \in Dropped' PROVE HasCause(i)'
    BY <2>1, <2>3 DEF Dropped, HasCause, SuppressedItself, UnlessIds
  <2>4. QED
    BY <1>1, <2>1, <2>2, <2>3 DEF CauseInv
<1>5. CASE Sweep
  <2>1. /\ removed' = {i \in report : ShouldSuppress(i)} /\ step \in LateSteps
        /\ report \subseteq merged.ids /\ UNCHANGED <<book, merged, refs, report>>
    BY <1>5 DEF Sweep, EvalInv, PhaseInv, LateSteps
  <2>2. ASSUME NEW i \in report' PROVE refs'[i] = merged'.refs[i] \/ LostALeg(i)'
    BY <2>1, <2>2 DEF CauseInv, LostALeg, Dropped
  <2>3. ASSUME NEW i \in removed' PROVE HasCause(i)'
    BY <2>1, <2>3 DEF ShouldSuppress, HasCause, SuppressedItself, UnlessIds
  <2>4. ASSUME NEW i \in Dropped' PROVE HasCause(i)'
    BY <2>1, <2>4, CausesLast DEF Dropped, CauseInv
  <2>5. QED
    BY <1>1, <2>2, <2>3, <2>4 DEF CauseInv
<1>6. CASE Cascade
  <2>1. /\ report' = Remaining /\ Remaining \subseteq report /\ removed' = Orphaned
        /\ UNCHANGED <<book, merged>> /\ step \in LateSteps
        /\ removed \subseteq report /\ report \subseteq merged.ids
    BY <1>6, CascadeFacts DEF Remaining, LateSteps, EvalInv, PhaseInv
  <2>2. ASSUME NEW i \in report' PROVE refs'[i] = merged'.refs[i] \/ LostALeg(i)'
    <3>1. i \in report /\ i \in Ids
      BY <2>1, <2>2 DEF EvalInv, EvalTypeOK
    <3>2. CASE LostALeg(i)
      BY <2>1, <3>2 DEF LostALeg, Dropped
    <3>3. CASE ~LostALeg(i)
      <4>1. refs[i] = merged.refs[i]
        BY <2>1, <3>1, <3>3 DEF CauseInv
      <4>2. CASE refs[i] \cap removed = {}
        BY <1>6, <2>1, <3>1, <4>1, <4>2, CascadeFacts DEF Struck, Citing
      <4>3. CASE refs[i] \cap removed # {}
        BY <2>1, <4>1, <4>3 DEF LostALeg, Dropped, Remaining
      <4>4. QED
        BY <4>2, <4>3
    <3>4. QED
      BY <3>2, <3>3
  <2>3. ASSUME NEW i \in removed' PROVE HasCause(i)'
    BY <1>6, <2>1, <2>3, OrphansHaveCause
  <2>4. ASSUME NEW i \in Dropped' PROVE HasCause(i)'
    <3>1. i \in Dropped \cup removed
      BY <2>1, <2>4 DEF Dropped, Remaining
    <3>2. QED
      BY <2>1, <3>1, CausesLast DEF CauseInv
  <2>5. QED
    BY <1>1, <2>2, <2>3, <2>4 DEF CauseInv
<1>7. CASE UNCHANGED evalVars
  BY <1>1, <1>7 DEF evalVars, CauseInv, HasCause, SuppressedItself, LostALeg, Dropped, UnlessIds
<1>8. QED
  BY <1>2, <1>3, <1>4, <1>5, <1>6, <1>7 DEF EvalNext, Evaluate, Done

\* remove_findings_and_orphaned_dependents: for every rule book, what a
\* suppression takes has an `unless:` that names a finding, has lost a finding
\* that it cited, or cited one that was never the report's own.
THEOREM NothingGoesWithoutCause == EvalSpec => []DropsHaveCause
<1>1. CauseInv => DropsHaveCause
  BY DEF CauseInv, DropsHaveCause, HasCause
<1>2. EvalInv /\ CauseInv /\ [EvalNext]_evalVars => CauseInv'
  BY CauseNext
<1>3. QED
  BY <1>1, <1>2, CauseInit, EvalInvariant, PTL DEF EvalSpec

\* ... so that a file without decoded layers and views loses only findings that
\* were suppressed themselves or have lost one that they cited.
THEOREM OnlyOrphansWithoutLayers ==
  ASSUME \A bk \in Books : bk.layer = {} /\ bk.view = {}
  PROVE  EvalSpec => []DropsOnlyOrphans
<1>1. book \in Books /\ EvalInv /\ CauseInv => DropsOnlyOrphans
  <2> SUFFICES ASSUME book \in Books, EvalInv, CauseInv, NEW i \in Dropped
               PROVE  SuppressedItself(i) \/ LostALeg(i)
    BY DEF DropsOnlyOrphans
  <2>1. i \in merged.ids /\ i \in Ids
    BY DEF Dropped, EvalInv, EvalTypeOK
  <2>2. book.layer = {} /\ book.view = {}
    OBVIOUS
  <2>3. merged.refs[i] \subseteq merged.ids
    BY <2>1, <2>2 DEF CauseInv, Evidence
  <2>4. QED
    BY <2>3 DEF CauseInv, HasCause
<1>2. EvalInv /\ CauseInv /\ [EvalNext]_evalVars => CauseInv'
  BY CauseNext
<1>3. QED
  BY <1>1, <1>2, CauseInit, TheBook, EvalInvariant, PTL DEF EvalSpec

-----------------------------------------------------------------------------
(* Conclusions and their evidence. *)

LEMMA StandInit == EvalInit => StandInv
<1> SUFFICES ASSUME EvalInit PROVE StandInv
  OBVIOUS
<1>1. report \cap Composites = {}
  BY EvalInvInit DEF EvalInv, PhaseInv, EvalInit
<1>2. QED
  BY <1>1, EvidenceInit DEF EvalInit, StandInv, LoopSteps

\* A round of the cascade leaves standing what it does not take.
LEMMA CascadeStands ==
  ASSUME EvalInv, StandInv, Cascade, NEW c \in (report' \ removed') \cap Composites
  PROVE  Standing(c)'
<1>1. /\ step = "cascade" /\ report' = Remaining /\ removed' = Orphaned
      /\ UNCHANGED book /\ IsBook(book)
      /\ c \in Remaining /\ c \in report \ removed /\ c \notin Orphaned /\ c \in Ids
  BY CascadeFacts DEF Remaining, EvalInv, EvalTypeOK
<1>2. Standing(c)
  BY <1>1 DEF StandInv, LoopSteps
<1>3. Citable \ removed \subseteq Citable' /\ Remaining \subseteq Citable'
  BY <1>1 DEF Citable, Remaining
<1>4. CASE c \notin Citing
  <2>1. refs[c] = {} /\ refs'[c] = {}
    BY <1>1, <1>4, CascadeFacts DEF Citing
  <2>2. StillMatch(c, {})
    BY <1>2, <2>1 DEF Standing
  <2>3. StillMatch(c, Citable')
    BY <1>1, <2>2, StillMatchGrows
  <2>4. QED
    BY <1>1, <2>1, <2>2, <2>3 DEF Standing, StillMatch
<1>5. CASE c \in Citing
  <2>1. ~Orphan(c)
    BY <1>1, <1>5 DEF Orphaned
  <2>2. StillMatch(c, Remaining)
    BY <2>1 DEF Orphan
  <2>3. StillMatch(c, Citable')
    BY <1>1, <1>3, <2>2, StillMatchGrows
  <2>4. refs'[c] # {} /\ refs'[c] \subseteq Citable'
    <3>1. CASE Struck(c) = {}
      <4>1. LegsAgain(c, Remaining) # {}
        BY <2>1, <3>1 DEF Orphan, SatisfiedAgain
      <4>2. LegsAgain(c, Remaining) \subseteq Remaining
        BY DEF LegsAgain
      <4>3. refs'[c] = LegsAgain(c, Remaining)
        BY <1>1, <1>5, <3>1, CascadeFacts
      <4>4. QED
        BY <1>3, <4>1, <4>2, <4>3
    <3>2. CASE Struck(c) # {}
      <4>1. refs'[c] = Struck(c)
        BY <1>1, <1>5, <3>2, CascadeFacts
      <4>2. QED
        BY <1>2, <1>3, <3>2, <4>1 DEF Standing, Struck
    <3>3. QED
      BY <3>1, <3>2
  <2>5. QED
    BY <1>1, <2>3, <2>4 DEF Standing, StillMatch
<1>6. QED
  BY <1>4, <1>5

LEMMA StandNext ==
  ASSUME LegsNameRules, book \in Books, EvalInv, StandInv, [EvalNext]_evalVars
  PROVE  StandInv'
<1>1. Evidence'
  BY EvidenceNext DEF StandInv
<1>2. CASE Independent \/ Dependent \/ Cancel
  <2>1. report' \cap Composites = {} /\ step' # "third_party"
    <3>1. report' \cap Composites = {} \/ step' \in {"dependent", "positive", "independent"}
      BY <1>2 DEF Independent, Dependent, Cancel, EvalInv, PhaseInv
    <3>2. step' # "third_party"
      BY <1>2 DEF Independent, Dependent, Cancel
    <3>3. QED
      BY <3>1, <3>2, EvalInvNext DEF EvalInv, PhaseInv, LoopSteps
  <2>2. QED
    BY <1>1, <2>1 DEF StandInv
<1>3. CASE PositiveRound \/ NegativeRound
  <2>1. step' \in LoopSteps /\ step' # "third_party"
    BY <1>3 DEF PositiveRound, NegativeRound, LoopSteps
  <2>2. QED
    BY <1>1, <2>1 DEF StandInv
<1>4. CASE Merge
  <2>1. /\ report' = report \cup found /\ step = "merge" /\ step' = "third_party"
        /\ UNCHANGED <<book, refs>> /\ IsBook(book) /\ found \subseteq Composites
        /\ report \cap Composites = {}
    BY <1>4 DEF Merge, EvalInv, EvalTypeOK, PhaseInv, LoopSteps
  <2>2. Scope = Citable'
    BY <2>1 DEF Scope, Citable
  <2>3. ASSUME NEW c \in report' \cap Composites
        PROVE  Standing(c)' /\ refs'[c] \subseteq LegIds(c)'
    <3>1. c \in found
      BY <2>1
    <3>2. StillMatch(c, refs[c]) /\ refs[c] \subseteq Scope \cap LegIds(c)
      BY <2>1, <3>1 DEF StandInv, Evidence, LoopSteps
    <3>3. StillMatch(c, Citable')
      BY <2>1, <2>2, <3>2, StillMatchGrows
    <3>4. refs[c] = {} => StillMatch(c, {})
      BY <3>2
    <3>5. StillMatch(c, Citable)' /\ (refs[c] = {} => StillMatch(c, {})')
      BY <2>1, <3>3, <3>4 DEF StillMatch
    <3>6. LegIds(c)' = LegIds(c)
      BY <2>1 DEF LegIds
    <3>7. QED
      BY <2>1, <2>2, <3>2, <3>5, <3>6 DEF Standing
  <2>4. QED
    BY <1>1, <2>3 DEF StandInv
<1>5. CASE DropThirdParty
  <2>1. /\ report' = {i \in report : i \in ThirdParty => UnlessIds(i) \cap report = {}}
        /\ removed = {} /\ removed' = {} /\ step = "third_party" /\ step' = "sweep"
        /\ UNCHANGED <<book, refs>> /\ IsBook(book) /\ report \subseteq Ids
    BY <1>5 DEF DropThirdParty, EvalInv, EvalTypeOK
  <2>2. Rules \cap Citable \subseteq Citable'
    BY <2>1, RuleAssumption DEF Citable
  <2>3. ASSUME NEW c \in report' \cap Composites
        PROVE  Standing(c)'
    <3>1. c \in (report \ removed) \cap Composites /\ step \notin LoopSteps
      BY <2>1 DEF LoopSteps
    <3>2. Standing(c) /\ refs[c] \subseteq LegIds(c)
      BY <2>1, <3>1 DEF StandInv
    <3>3. LegIds(c) \subseteq Rules
      BY <3>1 DEF LegsNameRules, LegIds
    <3>4. \A r \in book.all[c] \cup book.any[c] : r \cap Citable \subseteq Citable'
      BY <2>2, <3>3 DEF LegIds
    <3>5. StillMatch(c, Citable')
      BY <2>1, <3>1, <3>2, <3>4, StillMatchGrows DEF Standing
    <3>6. StillMatch(c, Citable)' /\ (refs[c] = {} => StillMatch(c, {})')
      BY <2>1, <3>2, <3>5 DEF StillMatch, Standing
    <3>7. refs'[c] \subseteq Citable'
      BY <2>1, <2>2, <3>2, <3>3 DEF Standing
    <3>8. QED
      BY <2>1, <3>6, <3>7 DEF Standing
  <2>4. QED
    BY <1>1, <2>1, <2>3 DEF StandInv
<1>6. CASE Sweep
  <2>1. /\ removed = {} /\ step = "sweep" /\ step' # "third_party"
        /\ UNCHANGED <<book, report, refs>>
    BY <1>6 DEF Sweep, EvalInv, EvalTypeOK
  <2>2. ASSUME NEW c \in (report' \ removed') \cap Composites PROVE Standing(c)'
    <3>1. Standing(c)
      BY <2>1 DEF StandInv, LoopSteps
    <3>2. QED
      BY <2>1, <3>1 DEF Standing, StillMatch, Citable
  <2>3. QED
    BY <1>1, <2>1, <2>2 DEF StandInv
<1>7. CASE Cascade
  <2>1. step' # "third_party"
    BY <1>7, CascadeFacts
  <2>2. QED
    BY <1>1, <1>7, <2>1, CascadeStands DEF StandInv
<1>8. CASE UNCHANGED evalVars
  <2>1. UNCHANGED <<book, step, report, refs, removed>>
    BY <1>8 DEF evalVars
  <2>2. ASSUME NEW c, Standing(c) PROVE Standing(c)'
    BY <2>1, <2>2 DEF Standing, StillMatch, Citable
  <2>3. QED
    BY <1>1, <2>1, <2>2 DEF StandInv, LegIds
<1>9. QED
  BY <1>2, <1>3, <1>4, <1>5, <1>6, <1>7, <1>8 DEF EvalNext, Evaluate, Done

\* remove_findings_and_orphaned_dependents: with a rule book that validation
\* accepts, a composite that is reported in the end cites only findings that are
\* there, and its legs are met by findings that are there.
THEOREM EveryConclusionStands ==
  ASSUME LegsNameRules
  PROVE  EvalSpec => []EveryCompositeStands
<1>1. EvalInv /\ StandInv => EveryCompositeStands
  <2> SUFFICES ASSUME EvalInv, StandInv, step = "done", NEW c \in report \cap Composites
               PROVE  /\ refs[c] \subseteq Citable
                      /\ \A r \in book.all[c] : r \cap Citable # {}
                      /\ (book.anyContent[c] = "none" /\ book.any[c] # {}) =>
                            book.needs[c] <= Cardinality(Pairs(book.any[c], Citable))
    BY DEF EveryCompositeStands, Citable, Pairs
  <2>1. c \in (report \ removed) \cap Composites
    BY DEF EvalInv, EvalTypeOK
  <2>2. Standing(c)
    BY <2>1 DEF StandInv, LoopSteps
  <2>3. Cardinality(Pairs(book.any[c], Citable)) \in Nat
    <3>1. Pairs(book.any[c], Citable) \subseteq Pairs(book.any[c], Citable)
      OBVIOUS
    <3>2. QED
      BY <3>1, PairsFinite DEF EvalInv, EvalTypeOK
  <2>4. book.needs[c] \in Nat
    BY RefsOf DEF EvalInv, EvalTypeOK
  <2>5. QED
    BY <2>2, <2>3, <2>4 DEF Standing, StillMatch, Pairs
<1>2. book \in Books /\ EvalInv /\ StandInv /\ [EvalNext]_evalVars => StandInv'
  BY StandNext
<1>3. QED
  BY <1>1, <1>2, StandInit, TheBook, EvalInvariant, PTL DEF EvalSpec

-----------------------------------------------------------------------------
(* The fixed points. *)

LEMMA CompleteInit == EvalInit => CompleteInv
<1> SUFFICES ASSUME EvalInit PROVE CompleteInv
  OBVIOUS
<1>1. report \cap Atoms = {}
  <2>1. IsBook(book) /\ report = book.yara
    BY BookAssumption DEF EvalInit
  <2>2. QED
    BY <2>1, RuleAssumption DEF IsBook, Rules
<1>2. QED
  BY <1>1 DEF EvalInit, CompleteInv, AtomsHold, TraitsInv, CompositesInv, Complete, LoopSteps

\* A hit that a pass does not return is forgone.
LEMMA PassForgoes ==
  ASSUME EvalTypeOK, report \cap Composites = {}, NEW list \in SUBSET Atoms, NEW out,
         PassResult(list, out), ~cancelled', ~gap', report' = report \cup out, UNCHANGED book,
         NEW t \in Hits(list) \ out
  PROVE  Forgone(t)'
<1>1. /\ t \in Atoms /\ out \subseteq Atoms
      /\ \/ t \in shed' \ Protected
         \/ Doomed(t) /\ (report \cup out \cup shed') \cap book.notable # {}
  BY PassFacts DEF Hits
<1>2. report' \ Composites = report \cup out
  BY <1>1, RuleAssumption
<1>3. Protected' = Protected
  BY ProtectedStays
<1>4. Doomed(t)' = Doomed(t)
  BY DoomedStays
<1>5. CASE t \in shed' \ Protected
  BY <1>3, <1>5 DEF Forgone
<1>6. CASE Doomed(t) /\ (report \cup out \cup shed') \cap book.notable # {}
  BY <1>2, <1>4, <1>6 DEF Forgone, Skipped
<1>7. QED
  BY <1>1, <1>5, <1>6

\* A round of the dependent traits leaves undone only neighbours of what it added.
LEMMA RoundOfTraits ==
  ASSUME EvalInv, TraitsInv, step = "dependent", UNCHANGED book,
         NEW out, PassResult(Worklist, out), ~cancelled', ~gap', report' = report \cup out,
         NEW t \in Atoms, HasTraitDependency(t), TraitMatches(t, report'), t \notin report'
  PROVE  Neighbours(t) \cap (out \ report) # {} \/ Forgone(t)'
<1> SUFFICES ASSUME Neighbours(t) \cap (out \ report) = {} PROVE Forgone(t)'
  OBVIOUS
<1>1. Neighbours(t) \cap report = Neighbours(t) \cap report'
  OBVIOUS
<1>2. TraitMatches(t, report)
  BY <1>1, TraitLooksAtNeighbours
<1>3. Worklist \in SUBSET Atoms /\ EvalTypeOK /\ report \cap Composites = {}
  BY DEF Worklist, EvalInv, PhaseInv
<1>4. CASE t \in Worklist
  <2>1. t \in Hits(Worklist) \ out
    BY <1>2, <1>4 DEF Hits
  <2>2. QED
    BY <1>3, <2>1, PassForgoes
<1>5. CASE t \notin Worklist
  <2>1. round # 1 /\ Neighbours(t) \cap changed = {} /\ t \notin report
    BY <1>5 DEF Worklist, RescanKeep, Neighbours
  <2>2. ~cancelled /\ ~gap /\ shed \subseteq shed'
    BY <1>3, PassFacts
  <2>3. Forgone(t)
    BY <1>2, <2>1, <2>2 DEF TraitsInv
  <2>4. QED
    BY <2>2, <2>3, ForgoneStays
<1>6. QED
  BY <1>4, <1>5

LEMMA TraitsNext ==
  ASSUME EvalInv, TraitsInv, [EvalNext]_evalVars
  PROVE  TraitsInv'
<1> SUFFICES ASSUME ~cancelled', ~gap' PROVE TraitsInv'
  BY DEF TraitsInv
<1>1. CASE Independent
  <2>1. /\ step = "independent" /\ round' = 1 /\ book' = book
        /\ EvalTypeOK /\ report \cap Composites = {}
    BY <1>1 DEF Independent, EvalInv, PhaseInv
  <2>2. CASE cancelled
    BY <1>1, <2>1, <2>2 DEF Independent
  <2>3. CASE ~cancelled
    <3>1. PICK out \in SUBSET Atoms : /\ PassResult(IndependentTraits, out)
                                      /\ report' = report \cup out /\ step' = "dependent"
      BY <1>1, <2>3 DEF Independent
    <3>2. \A t : HasTraitDependency(t)' = HasTraitDependency(t)
      BY <2>1, DependencyStays
    <3>3. ASSUME NEW t \in Atoms, ~HasTraitDependency(t), t \in book.holds
          PROVE  t \in report' \/ Forgone(t)'
      <4>1. TraitMatches(t, report)
        BY <3>3, TraitWithoutReferences
      <4>2. CASE book.tiny
        BY <2>1, <3>2, <3>3, <4>2 DEF Forgone
      <4>3. CASE ~book.tiny
        <5>1. IndependentTraits \in SUBSET Atoms /\ t \in IndependentTraits
          BY <3>3, <4>3 DEF IndependentTraits
        <5>2. t \in Hits(IndependentTraits)
          BY <4>1, <5>1 DEF Hits
        <5>3. t \in out \/ Forgone(t)'
          BY <2>1, <3>1, <5>1, <5>2, PassForgoes
        <5>4. QED
          BY <3>1, <5>3
      <4>4. QED
        BY <4>2, <4>3
    <3>4. QED
      BY <2>1, <3>1, <3>2, <3>3 DEF TraitsInv, LoopSteps
  <2>4. QED
    BY <2>2, <2>3
<1>2. CASE Dependent
  <2>1. /\ step = "dependent" /\ book' = book
        /\ EvalTypeOK /\ report \cap Composites = {}
    BY <1>2 DEF Dependent, EvalInv, PhaseInv
  <2>2. CASE cancelled
    BY <1>2, <2>1, <2>2 DEF Dependent
  <2>3. CASE ~cancelled
    <3>1. PICK out \in SUBSET Atoms :
            /\ PassResult(Worklist, out)
            /\ report' = report \cup (out \ report) /\ changed' = out \ report
            /\ capped' = (capped \/ (out \ report # {} /\ round = MaxRounds))
            /\ IF out \ report = {} \/ round = MaxRounds
               THEN step' = "positive" /\ round' = 1
               ELSE round' = round + 1 /\ UNCHANGED step
      BY <1>2, <2>3 DEF Dependent
    <3>2. Worklist \in SUBSET Atoms /\ report' = report \cup out
      BY <3>1 DEF Worklist
    <3>3. ~gap /\ shed \subseteq shed'
      BY <2>1, <3>1, <3>2, PassFacts
    <3>4. ASSUME NEW t \in Atoms, HasTraitDependency(t), TraitMatches(t, report'), t \notin report'
          PROVE  Neighbours(t) \cap changed' # {} \/ Forgone(t)'
      BY <2>1, <3>1, <3>2, <3>4, RoundOfTraits
    <3>5. ASSUME NEW t \in Atoms, ~HasTraitDependency(t), t \in book.holds
          PROVE  t \in report' \/ Forgone(t)'
      <4>1. t \in report \/ Forgone(t)
        BY <2>1, <2>3, <3>3, <3>5 DEF TraitsInv
      <4>2. QED
        BY <2>1, <3>2, <3>3, <4>1, ForgoneStays
    <3>6. ASSUME step' \in LoopSteps, ~capped', NEW t \in Atoms, TraitMatches(t, report')
          PROVE  t \in report' \/ Forgone(t)'
      <4>1. changed' = {}
        BY <2>1, <3>1, <3>6 DEF LoopSteps
      <4>2. CASE HasTraitDependency(t)
        BY <3>4, <3>6, <4>1, <4>2
      <4>3. CASE ~HasTraitDependency(t)
        BY <3>5, <3>6, <4>3, TraitWithoutReferences
      <4>4. QED
        BY <4>2, <4>3
    <3>7. \A t \in Atoms : /\ HasTraitDependency(t)' <=> HasTraitDependency(t)
                           /\ TraitMatches(t, report)' <=> TraitMatches(t, report')
                           /\ Neighbours(t)' = Neighbours(t)
      BY <2>1 DEF HasTraitDependency, TraitMatches, Withheld, Reached, Neighbours, UnlessIds
    <3>8. /\ \A t \in Atoms : ~HasTraitDependency(t)' /\ t \in book'.holds
                               => t \in report' \/ Forgone(t)'
          /\ \A t \in Atoms : HasTraitDependency(t)' /\ TraitMatches(t, report)' /\ t \notin report'
                               => Neighbours(t)' \cap changed' # {} \/ Forgone(t)'
          /\ step' \in LoopSteps /\ ~capped' =>
                \A t \in Atoms : TraitMatches(t, report)' => t \in report' \/ Forgone(t)'
      BY <2>1, <3>4, <3>5, <3>6, <3>7
    <3>9. QED
      BY <3>8 DEF TraitsInv, AtomsDone
  <2>4. QED
    BY <2>2, <2>3
<1>3. CASE PositiveRound \/ NegativeRound
  <2>1. /\ step \in LoopSteps /\ step' \in LoopSteps /\ step' # "dependent"
        /\ (~capped' => ~capped) /\ UNCHANGED <<book, report, cancelled, gap, shed>>
    BY <1>3 DEF PositiveRound, NegativeRound, LoopSteps
  <2>2. \A t \in Atoms : Forgone(t) => Forgone(t)'
    BY <2>1, ForgoneStays
  <2>3. \A t \in Atoms : /\ HasTraitDependency(t)' <=> HasTraitDependency(t)
                         /\ TraitMatches(t, report)' <=> TraitMatches(t, report)
    BY <2>1 DEF HasTraitDependency, TraitMatches, Withheld, Reached
  <2>4. QED
    BY <2>1, <2>2, <2>3 DEF TraitsInv, AtomsDone
<1>4. CASE Merge \/ DropThirdParty \/ Sweep \/ Cascade
  <2>1. step' \notin {"dependent"} \cup LoopSteps
    BY <1>4, CascadeFacts DEF Merge, DropThirdParty, Sweep, LoopSteps
  <2>2. QED
    BY <2>1 DEF TraitsInv
<1>5. CASE Cancel
  BY <1>5 DEF Cancel
<1>6. CASE UNCHANGED evalVars
  <2>1. UNCHANGED <<book, step, report, round, changed, cancelled, gap, shed, capped>>
    BY <1>6 DEF evalVars
  <2>2. \A t \in Atoms : Forgone(t) => Forgone(t)'
    BY <2>1, ForgoneStays
  <2>3. \A t \in Atoms : /\ HasTraitDependency(t)' <=> HasTraitDependency(t)
                         /\ TraitMatches(t, report)' <=> TraitMatches(t, report)
                         /\ Neighbours(t)' = Neighbours(t)
    BY <2>1 DEF HasTraitDependency, TraitMatches, Withheld, Reached, Neighbours, UnlessIds
  <2>4. QED
    BY <2>1, <2>2, <2>3 DEF TraitsInv, AtomsDone
<1>7. QED
  BY <1>1, <1>2, <1>3, <1>4, <1>5, <1>6 DEF EvalNext, Evaluate, Done

\* Only traits that hold are found.
LEMMA AtomsHoldNext ==
  ASSUME EvalInv, AtomsHold, [EvalNext]_evalVars
  PROVE  AtomsHold'
<1>1. ASSUME NEW list \in SUBSET Atoms, NEW out, PassResult(list, out)
      PROVE  out \subseteq book.holds
  BY <1>1, PassFacts DEF Hits, TraitMatches, EvalInv
<1>2. CASE Independent
  <2>1. IndependentTraits \in SUBSET Atoms
    BY DEF IndependentTraits
  <2>2. QED
    BY <1>1, <1>2, <2>1 DEF Independent, AtomsHold, LoopSteps
<1>3. CASE Dependent
  <2>1. Worklist \in SUBSET Atoms
    BY DEF Worklist
  <2>2. QED
    BY <1>1, <1>3, <2>1 DEF Dependent, AtomsHold, LoopSteps
<1>4. CASE PositiveRound \/ NegativeRound
  BY <1>4 DEF PositiveRound, NegativeRound, AtomsHold, LoopSteps
<1>5. CASE Merge \/ DropThirdParty \/ Sweep \/ Cascade
  <2>1. step' \notin {"independent", "dependent"} \cup LoopSteps
    BY <1>5, CascadeFacts DEF Merge, DropThirdParty, Sweep, LoopSteps
  <2>2. QED
    BY <2>1 DEF AtomsHold
<1>6. CASE Cancel \/ UNCHANGED evalVars
  <2>1. UNCHANGED <<book, step, report>>
    BY <1>6 DEF Cancel, evalVars
  <2>2. QED
    BY <2>1 DEF AtomsHold
<1>7. QED
  BY <1>2, <1>3, <1>4, <1>5, <1>6 DEF EvalNext, Evaluate, Done

\* A round that finds nothing leaves nothing to find.
LEMMA NothingNew ==
  ASSUME EvalInv, NEW list \in SUBSET Composites, EvalRules(list) = {}
  PROVE  Settled(list)
<1> SUFFICES ASSUME NEW c \in list, CompositeMatches(c, Scope), c \notin Known PROVE FALSE
  BY DEF Settled
<1>1. RequiredTraitIds(c) \subseteq Scope
  BY RequiredAreThere DEF EvalInv, EvalTypeOK
<1>2. c \in EvalRules(list)
  BY <1>1 DEF EvalRules, Known
<1>3. QED
  BY <1>2

LEMMA SettledStays ==
  ASSUME NEW list, Settled(list), UNCHANGED <<book, report, found>>
  PROVE  \A c \in list : CompositeMatches(c, Scope)' => c \in Known'
BY DEF Settled, Known, Scope, CompositeMatches, Withheld, Reached, AnyHolds, HasAny, Backing

LEMMA CompositesNext ==
  ASSUME EvalInv, CompositesInv, [EvalNext]_evalVars
  PROVE  CompositesInv'
<1>1. CASE PositiveRound
  <2> DEFINE new == EvalRules(Positive)
  <2>1. /\ capped' = (capped \/ (new # {} /\ round = MaxRounds))
        /\ IF new # {} /\ round < MaxRounds
           THEN UNCHANGED <<step, outer>>
           ELSE step' = IF step = "again" /\ outer = MaxRounds THEN "merge" ELSE "negative"
        /\ step \in {"positive", "again"} /\ found' = found \cup new
        /\ UNCHANGED <<book, report>> /\ round \in 1..MaxRounds
    BY <1>1 DEF PositiveRound, AddFindings, EvalInv, EvalTypeOK
  <2>2. step' = "again" /\ outer' = MaxRounds => capped'
    BY <2>1 DEF CompositesInv
  <2>3. step' = "merge" => capped'
    BY <2>1 DEF CompositesInv
  <2>4. ASSUME ~capped', step' = "negative"
        PROVE  \A c \in Positive : CompositeMatches(c, Scope)' => c \in Known'
    <3>1. new = {}
      <4>1. round < MaxRounds \/ round = MaxRounds
        BY <2>1, BoundAssumption
      <4> HIDE DEF new
      <4>2. QED
        BY <2>1, <2>4, <4>1
    <3>2. Settled(Positive) /\ found' = found
      BY <2>1, <3>1, NothingNew DEF Positive
    <3>3. QED
      BY <2>1, <3>2, SettledStays
  <2>5. Positive' = Positive
    BY <2>1 DEF Positive, HasNegativeConditions
  <2>6. QED
    BY <2>2, <2>3, <2>4, <2>5 DEF CompositesInv, Settled
<1>2. CASE NegativeRound
  <2> DEFINE new == EvalRules(Negative)
  <2>1. /\ capped' = (capped \/ (new # {} /\ outer = MaxRounds))
        /\ step' = IF new = {} THEN "merge" ELSE "again"
        /\ step = "negative" /\ found' = found \cup new
        /\ UNCHANGED <<book, report, outer>>
    BY <1>2 DEF NegativeRound, AddFindings
  <2>2. step' = "again" /\ outer' = MaxRounds => capped'
    BY <2>1
  <2>3. ASSUME ~capped', step' = "merge"
        PROVE  \A c \in Composites : CompositeMatches(c, Scope)' => c \in Known'
    <3>1. Settled(Negative) /\ found' = found
      BY <2>1, <2>3, NothingNew DEF Negative
    <3>2. Settled(Positive)
      BY <2>1, <2>3 DEF CompositesInv
    <3>3. Settled(Composites)
      BY <3>1, <3>2 DEF Settled, Negative
    <3>4. QED
      BY <2>1, <3>1, <3>3, SettledStays
  <2>4. QED
    BY <2>1, <2>2, <2>3 DEF CompositesInv, Settled
<1>3. CASE Independent \/ Dependent \/ Merge \/ DropThirdParty \/ Sweep \/ Cascade \/ Cancel
  <2>1. step' \notin {"again", "negative", "merge"}
    BY <1>3, CascadeFacts DEF Independent, Dependent, Merge, DropThirdParty, Sweep, Cancel
  <2>2. QED
    BY <2>1 DEF CompositesInv
<1>4. CASE UNCHANGED evalVars
  <2>1. UNCHANGED <<book, step, report, found, outer, capped>>
    BY <1>4 DEF evalVars
  <2>2. Positive' = Positive
    BY <2>1 DEF Positive, HasNegativeConditions
  <2>3. QED
    BY <2>1, <2>2, SettledStays DEF CompositesInv, Settled
<1>5. QED
  BY <1>1, <1>2, <1>3, <1>4 DEF EvalNext, Evaluate, Done

\* What was found, with the matching traits that were skipped.
WithSkipped == Scope \cup {t \in Atoms : Skipped(t) /\ TraitMatches(t, report \ Composites)}

LEMMA CompleteNext ==
  ASSUME EvalInv, CompleteInv, [EvalNext]_evalVars
  PROVE  Complete'
<1>1. CASE Merge
  <2> DEFINE skipped == {t \in Atoms : Skipped(t) /\ TraitMatches(t, report)}
  <2>1. /\ report' = report \cup found /\ UNCHANGED <<book, found, shed>>
        /\ step = "merge" /\ (capped' <=> capped) /\ (cancelled' <=> cancelled) /\ (gap' <=> gap)
        /\ report \cap Composites = {} /\ found \subseteq Composites
    BY <1>1 DEF Merge, EvalInv, EvalTypeOK, PhaseInv, LoopSteps
  <2>2. report' \ Composites = report /\ report \ Composites = report
    BY <2>1
  <2>3. \A t \in Atoms : /\ TraitMatches(t, report \ Composites)' <=> TraitMatches(t, report)
                         /\ Skipped(t)' <=> Skipped(t)
                         /\ Forgone(t) => Forgone(t)'
    <3>1. ASSUME NEW t \in Atoms
          PROVE  TraitMatches(t, report \ Composites)' <=> TraitMatches(t, report)
      BY <2>1, <2>2 DEF TraitMatches, Withheld, Reached
    <3>2. ASSUME NEW t \in Atoms PROVE Skipped(t)' <=> Skipped(t)
      <4>1. Doomed(t)' = Doomed(t)
        BY <2>1, DoomedStays
      <4>2. QED
        BY <2>1, <2>2, <4>1 DEF Skipped
    <3>3. ASSUME NEW t \in Atoms, Forgone(t) PROVE Forgone(t)'
      BY <2>1, <3>3, ForgoneStays
    <3>4. QED
      BY <3>1, <3>2, <3>3
  <2>4. Scope' = Scope
    BY <2>1 DEF Scope
  <2>5. WithSkipped' = Scope \cup skipped
    <3>1. {t \in Atoms : Skipped(t)' /\ TraitMatches(t, report \ Composites)'} = skipped
      BY <2>3
    <3> HIDE DEF skipped
    <3>2. QED
      BY <2>4, <3>1 DEF WithSkipped
  <2> SUFFICES ASSUME ~capped, ~cancelled, ~gap
               PROVE  /\ \A t \in Atoms : TraitMatches(t, report \ Composites)'
                                           => t \in report' \/ Forgone(t)'
                      /\ \A c \in Composites :
                            CompositeMatches(c, Scope)' => c \in report' \cup book'.layer
                      /\ \A c \in Composites :
                            CompositeMatches(c, WithSkipped)'
                               => c \in report' \cup book'.layer \/ Exposed(c)'
    BY <2>1 DEF Complete, WithSkipped
  <2>6. AtomsDone(report) /\ Settled(Composites) /\ AtomsHold
    BY <2>1 DEF CompleteInv, TraitsInv, CompositesInv, LoopSteps
  <2>7. ASSUME NEW t \in Atoms, TraitMatches(t, report \ Composites)'
        PROVE  t \in report' \/ Forgone(t)'
    BY <2>1, <2>3, <2>6, <2>7 DEF AtomsDone
  <2>8. ASSUME NEW c \in Composites, CompositeMatches(c, Scope)
        PROVE  c \in report' \cup book'.layer
    BY <2>1, <2>6, <2>8 DEF Settled, Known
  <2>9. ASSUME NEW c \in Composites, CompositeMatches(c, Scope)'
        PROVE  CompositeMatches(c, Scope)
    BY <2>1, <2>4, <2>9 DEF CompositeMatches, Withheld, Reached, AnyHolds, HasAny, Backing
  <2>10. ASSUME NEW c \in Composites,
                CompositeMatches(c, WithSkipped)'
         PROVE  c \in report' \cup book'.layer \/ Exposed(c)'
    <3>1. CompositeMatches(c, Scope \cup skipped)
      <4> HIDE DEF skipped
      <4>1. QED
        BY <2>1, <2>5, <2>10
        DEF CompositeMatches, Withheld, Reached, AnyHolds, HasAny, Backing
    <3>2. skipped \subseteq {t \in Atoms : Doomed(t) /\ t \in book.holds}
      BY DEF Skipped, TraitMatches
    <3> HIDE DEF skipped
    <3>3. CASE CompositeMatches(c, Scope)
      BY <2>8, <3>3
    <3>4. CASE ~CompositeMatches(c, Scope)
      <4>1. step \in LoopSteps
        BY <2>1 DEF LoopSteps
      <4>2. Exposed(c)
        BY <2>6, <3>1, <3>2, <3>4, <4>1, SkipCosts
      <4>3. Exposed(c)' = Exposed(c)
        BY <2>1, ExposedStays
      <4>4. QED
        BY <4>2, <4>3
    <3>5. QED
      BY <3>3, <3>4
  <2>11. QED
    BY <2>7, <2>8, <2>9, <2>10
<1>2. CASE UNCHANGED evalVars
  <2>1. UNCHANGED <<book, step, report, found, cancelled, gap, shed, capped>>
    BY <1>2 DEF evalVars
  <2>2. Complete
    BY DEF CompleteInv
  <2> DEFINE skipped == {t \in Atoms : Skipped(t) /\ TraitMatches(t, report \ Composites)}
  <2>3. \A t \in Atoms : /\ TraitMatches(t, report \ Composites)'
                               <=> TraitMatches(t, report \ Composites)
                         /\ Skipped(t)' <=> Skipped(t)
                         /\ Forgone(t)' <=> Forgone(t)
    <3>1. ASSUME NEW t \in Atoms
          PROVE  TraitMatches(t, report \ Composites)' <=> TraitMatches(t, report \ Composites)
      BY <2>1 DEF TraitMatches, Withheld, Reached
    <3>2. ASSUME NEW t \in Atoms
          PROVE  (Skipped(t)' <=> Skipped(t)) /\ (Forgone(t)' <=> Forgone(t))
      <4>1. Doomed(t)' = Doomed(t)
        BY <2>1, DoomedStays
      <4>2. Protected' = Protected
        BY <2>1, ProtectedStays
      <4>3. HasTraitDependency(t)' = HasTraitDependency(t)
        BY <2>1, DependencyStays
      <4>4. Skipped(t)' <=> Skipped(t)
        BY <2>1, <4>1 DEF Skipped
      <4>5. QED
        BY <2>1, <4>2, <4>3, <4>4 DEF Forgone
    <3>3. QED
      BY <3>1, <3>2
  <2>4. Scope' = Scope /\ WithSkipped' = WithSkipped
    <3>1. Scope' = Scope
      BY <2>1 DEF Scope
    <3>2. {t \in Atoms : Skipped(t)' /\ TraitMatches(t, report \ Composites)'} = skipped
      BY <2>3
    <3> HIDE DEF skipped
    <3>3. WithSkipped' = Scope \cup skipped
      BY <3>1, <3>2 DEF WithSkipped
    <3>4. QED
      BY <3>1, <3>3 DEF WithSkipped, skipped
  <2> HIDE DEF skipped
  <2>5. \A c \in Composites :
          /\ CompositeMatches(c, Scope)' <=> CompositeMatches(c, Scope)
          /\ CompositeMatches(c, WithSkipped)'
                <=> CompositeMatches(c, WithSkipped)
          /\ Exposed(c)' <=> Exposed(c)
    <3>1. ASSUME NEW c \in Composites
          PROVE  CompositeMatches(c, Scope)' <=> CompositeMatches(c, Scope)
      BY <2>1, <2>4 DEF CompositeMatches, Withheld, Reached, AnyHolds, HasAny, Backing
    <3>2. ASSUME NEW c \in Composites
          PROVE  CompositeMatches(c, WithSkipped)'
                   <=> CompositeMatches(c, WithSkipped)
      BY <2>1, <2>4 DEF CompositeMatches, Withheld, Reached, AnyHolds, HasAny, Backing
    <3>3. ASSUME NEW c \in Composites PROVE Exposed(c)' <=> Exposed(c)
      <4>1. Exposed(c)' = Exposed(c)
        BY <2>1, ExposedStays
      <4>2. QED
        BY <4>1
    <3>4. QED
      BY <3>1, <3>2, <3>3
  <2>6. QED
    BY <2>1, <2>2, <2>3, <2>5 DEF Complete, WithSkipped
<1>3. step' # "third_party" \/ Merge \/ UNCHANGED evalVars
  <2>1. Independent \/ Dependent \/ PositiveRound \/ NegativeRound \/ Cancel
          => step' # "third_party"
    BY DEF Independent, Dependent, PositiveRound, NegativeRound, Cancel
  <2>2. DropThirdParty \/ Sweep \/ Cascade => step' # "third_party"
    BY CascadeFacts DEF DropThirdParty, Sweep
  <2>3. QED
    BY <2>1, <2>2 DEF EvalNext, Evaluate, Done
<1>4. QED
  BY <1>1, <1>2, <1>3 DEF Complete

\* evaluate_and_merge_findings_with_precomputed: for every rule book, when no loop
\* ran into MAX_ITERATIONS and nobody cancelled and no deadline passed, every trait
\* that matches has been found, is one of a tiny file's, was one too many that no
\* rule refers to, or was skipped as doomed; every composite that matches what was
\* found has been found; and the skip costs a composite only if it names a
\* directory in its `all:` or a trait that only a layer has.
THEOREM NothingIsMissed == EvalSpec => []Complete
<1>1. CompleteInv => Complete
  BY DEF CompleteInv
<1>2. EvalInv /\ CompleteInv /\ [EvalNext]_evalVars => CompleteInv'
  BY TraitsNext, AtomsHoldNext, CompositesNext, CompleteNext DEF CompleteInv
<1>3. QED
  BY <1>1, <1>2, CompleteInit, EvalInvariant, PTL DEF EvalSpec

=============================================================================
