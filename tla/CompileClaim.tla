---------------------------- MODULE CompileClaim ----------------------------
(***************************************************************************)
(* Lazy regex compiles (src/composite_rules/compile_claim.rs), the byte    *)
(* budgeted store they fill (regex_store.rs) and the lookup in front of    *)
(* both (cached_regex in condition/regexes.rs; cached_bytes_regex of the   *)
(* raw scans is the same code over another store).                         *)
(*                                                                         *)
(* A worker looks in its own memo, then in the shared store, and on a miss *)
(* claims the slot of the pattern's hash.  Who claims it compiles; the     *)
(* others poll the store for a while and then compile for themselves.      *)
(***************************************************************************)
EXTENDS Integers, Sequences, FiniteSets

CONSTANTS
    Workers,
    Patterns,
    NoEngine,
    Hash,      \* hash_key: the hash of each pattern, never 0
    SlotOf,    \* the claim slot of each pattern
    MemoOf,    \* the slot of each pattern in a worker's memo
    Bad,       \* patterns that do not compile
    Size,      \* heap_bytes of each compiled pattern
    Budget,    \* byte budget of the store
    Cap,       \* entries the store may hold
    Polls,     \* polls of a racer (40 in the code)
    Calls,     \* bound: calls of cached_regex
    Upsets     \* bound: panics, and clears of the store

Slots == {SlotOf[p] : p \in Patterns}
MemoSlots == {MemoOf[p] : p \in Patterns}

ASSUME ClaimAssumption ==
    /\ Hash \in [Patterns -> Nat \ {0}]
    /\ DOMAIN SlotOf = Patterns /\ DOMAIN MemoOf = Patterns
    /\ \A p, q \in Patterns : Hash[p] = Hash[q] => SlotOf[p] = SlotOf[q]
    /\ Bad \subseteq Patterns
    /\ Size \in [Patterns -> Nat]
    /\ {Budget, Calls, Upsets} \subseteq Nat
    /\ {Cap, Polls} \subseteq Nat \ {0}
    /\ NoEngine \notin Patterns

VARIABLES
    store,    \* the compiled patterns, oldest first
    bytes,    \* BudgetedStore::bytes
    slot,     \* the claim slots: 0, or the hash claimed
    memo,     \* LOCAL_REGEX of each worker: a pattern with its engine
    pc,
    want,     \* the pattern of the call under way
    polls,    \* polls made
    got,      \* what the last call returned
    compiles, \* ghost: compiles begun, per pattern
    smooth,   \* ghost: no panic, collision, timeout, eviction or clear so far
    left      \* calls and upsets still allowed

vars == <<store, bytes, slot, memo, pc, want, polls, got, compiles, smooth, left>>

\* The contents of a store, least recently used first.
Stores == {s \in Seq(Patterns) : Len(s) <= Cap}

InStore(p) == \E i \in DOMAIN store : store[i] = p
Holds(w) == pc[w] \in {"recheck", "compile", "put", "release"}

\* Every variable has its type; the store is never over its cap, and a racer
\* never polls more often than it may.
TypeOK ==
    /\ store \in Stores
    /\ bytes \in Int
    /\ slot \in [Slots -> {0} \cup {Hash[p] : p \in Patterns}]
    /\ memo \in [Workers -> [MemoSlots -> Patterns \cup {NoEngine}]]
    /\ pc \in [Workers -> {"idle", "look", "claim", "recheck", "compile", "put",
                           "release", "peek", "slot", "last", "own", "ownPut",
                           "done"}]
    /\ want \in [Workers -> Patterns \cup {NoEngine}]
    /\ polls \in [Workers -> 0..Polls]
    /\ got \in [Workers -> Patterns \cup {NoEngine}]
    /\ compiles \in [Patterns -> Nat]
    /\ smooth \in BOOLEAN
    /\ left \in [calls : 0..Calls, upsets : 0..Upsets]

Init ==
    /\ store = <<>>
    /\ bytes = 0
    /\ slot = [s \in Slots |-> 0]
    /\ memo = [w \in Workers |-> [s \in MemoSlots |-> NoEngine]]
    /\ pc = [w \in Workers |-> "idle"]
    /\ want = [w \in Workers |-> NoEngine]
    /\ polls = [w \in Workers |-> 0]
    /\ got = [w \in Workers |-> NoEngine]
    /\ compiles = [p \in Patterns |-> 0]
    /\ smooth = TRUE
    /\ left = [calls |-> Calls, upsets |-> Upsets]

Goto(w, l) == pc' = [pc EXCEPT ![w] = l]
SlotFor(w) == SlotOf[want[w]]
HashFor(w) == Hash[want[w]]

\* The call has its answer: an engine goes into the worker's memo.
Return(w, e) ==
    /\ got' = [got EXCEPT ![w] = e]
    /\ Goto(w, "done")
    /\ memo' = IF e = NoEngine THEN memo
               ELSE [memo EXCEPT ![w][MemoOf[want[w]]] = e]

-----------------------------------------------------------------------------
(* The store.                                                              *)

Entries(s) == {s[i] : i \in DOMAIN s}

\* What the entries of a set weigh together: one unit for each byte of each.
SizeOf(P) == Cardinality(UNION {{p} \X (1..Size[p]) : p \in P})

\* LruCache::push displaces the entry with the same key, or the oldest at the cap.
Displaced(p) ==
    IF InStore(p) THEN {p}
    ELSE IF Len(store) = Cap THEN {Head(store)} ELSE {}

\* The store without them.
Others(p) ==
    IF InStore(p)
    THEN LET i == CHOOSE i \in DOMAIN store : store[i] = p
         IN  SubSeq(store, 1, i - 1) \o SubSeq(store, i + 1, Len(store))
    ELSE IF Len(store) = Cap THEN Tail(store) ELSE store

\* What a store that counts b bytes counts without its n oldest entries, and
\* whether pop_lru stops there: it goes on over the budget, down to one entry.
After(s, b, n) == b - SizeOf(Entries(SubSeq(s, 1, n)))
Fits(s, b, n) == After(s, b, n) <= Budget \/ n >= Len(s) - 1

Evicted(s, b) ==
    CHOOSE n \in 0..Len(s) : Fits(s, b, n) /\ \A k \in 0..(n - 1) : ~Fits(s, b, k)

\* BudgetedStore::put
Put(p) ==
    LET pushed == Append(Others(p), p)
        counted == bytes - SizeOf(Displaced(p)) + Size[p]
        n == Evicted(pushed, counted)
    IN  /\ store' = SubSeq(pushed, n + 1, Len(pushed))
        /\ bytes' = After(pushed, counted, n)
        /\ smooth' = (smooth /\ n = 0 /\ Displaced(p) = {})

-----------------------------------------------------------------------------
(* cached_regex.                                                           *)

\* Mutant: the memo slot is believed without comparing the pattern.
MemoHitAny(w) == memo[w][MemoOf[want[w]]] # NoEngine

\* local_regex_get: the slot holds this pattern's engine.
MemoHit(w) == memo[w][MemoOf[want[w]]] = want[w]

Call(w, p) ==
    /\ pc[w] = "idle" /\ left.calls > 0
    /\ left' = [left EXCEPT !.calls = @ - 1]
    /\ want' = [want EXCEPT ![w] = p]
    /\ polls' = [polls EXCEPT ![w] = 0]
    /\ Goto(w, "look")
    /\ UNCHANGED <<store, bytes, slot, memo, got, compiles, smooth>>

\* The memo, then the store.
Look(w) ==
    /\ pc[w] = "look"
    /\ \/ MemoHit(w) /\ Return(w, memo[w][MemoOf[want[w]]])
       \/ ~MemoHit(w) /\ InStore(want[w]) /\ Return(w, want[w])
       \/ ~MemoHit(w) /\ ~InStore(want[w]) /\ Goto(w, "claim") /\ UNCHANGED <<memo, got>>
    /\ UNCHANGED <<store, bytes, slot, want, polls, compiles, smooth, left>>

\* The slot is claimed for another pattern.
Collides(w) ==
    \E v \in Workers : Holds(v) /\ SlotFor(v) = SlotFor(w) /\ want[v] # want[w]

\* Mutant: a guard is made and dropped also when the claim fails.
TryClaimEager(w) ==
    /\ pc[w] = "claim"
    /\ IF slot[SlotFor(w)] = 0
       THEN slot' = [slot EXCEPT ![SlotFor(w)] = HashFor(w)] /\ Goto(w, "recheck")
       ELSE slot' = [slot EXCEPT ![SlotFor(w)] = 0] /\ Goto(w, "peek")
    /\ smooth' = (smooth /\ ~Collides(w))
    /\ UNCHANGED <<store, bytes, memo, want, polls, got, compiles, left>>

\* try_claim: one compare-and-swap.  A different hash in the slot sends the
\* worker down the racer's path.
TryClaim(w) ==
    /\ pc[w] = "claim"
    /\ IF slot[SlotFor(w)] = 0
       THEN slot' = [slot EXCEPT ![SlotFor(w)] = HashFor(w)] /\ Goto(w, "recheck")
       ELSE UNCHANGED slot /\ Goto(w, "peek")
    /\ smooth' = (smooth /\ ~Collides(w))
    /\ UNCHANGED <<store, bytes, memo, want, polls, got, compiles, left>>

\* Another compiler may have published between the lookup and the claim.
Recheck(w) ==
    /\ pc[w] = "recheck"
    /\ IF InStore(want[w])
       THEN Return(w, want[w]) /\ slot' = [slot EXCEPT ![SlotFor(w)] = 0]
       ELSE Goto(w, "compile") /\ UNCHANGED <<memo, got, slot>>
    /\ UNCHANGED <<store, bytes, want, polls, compiles, smooth, left>>

\* compile_and_put begins, under the claim or on the worker's own account.
Compile(w) ==
    /\ pc[w] \in {"compile", "own"}
    /\ compiles' = [compiles EXCEPT ![want[w]] = @ + 1]
    /\ Goto(w, IF pc[w] = "own" THEN "ownPut"
               ELSE IF want[w] \in Bad THEN "release" ELSE "put")
    /\ UNCHANGED <<store, bytes, slot, memo, want, polls, got, smooth, left>>

\* The engine is published before the guard goes.
Publish(w) ==
    /\ pc[w] = "put"
    /\ Put(want[w])
    /\ Goto(w, "release")
    /\ UNCHANGED <<slot, memo, want, polls, got, compiles, left>>

\* The guard is dropped and the engine, if there is one, memoized.
Release(w) ==
    /\ pc[w] = "release"
    /\ slot' = [slot EXCEPT ![SlotFor(w)] = 0]
    /\ Return(w, IF want[w] \in Bad THEN NoEngine ELSE want[w])
    /\ UNCHANGED <<store, bytes, want, polls, compiles, smooth, left>>

-----------------------------------------------------------------------------
(* wait_for: look in the store, then at the slot.                          *)

Peek(w) ==
    /\ pc[w] = "peek"
    /\ IF InStore(want[w])
       THEN Return(w, want[w])
       ELSE Goto(w, "slot") /\ UNCHANGED <<memo, got>>
    /\ UNCHANGED <<store, bytes, slot, want, polls, compiles, smooth, left>>

\* Mutant: a racer waits until the engine is there.
LookAtSlotForever(w) ==
    /\ pc[w] = "slot"
    /\ Goto(w, "peek")
    /\ UNCHANGED <<store, bytes, slot, memo, want, polls, got, compiles, smooth, left>>

\* A slot that no longer has the hash ends the polling, as does the last poll.
LookAtSlot(w) ==
    /\ pc[w] = "slot"
    /\ LET moved == slot[SlotFor(w)] # HashFor(w)
           spent == polls[w] + 1 = Polls
       IN  /\ Goto(w, IF moved \/ spent THEN "last" ELSE "peek")
           /\ polls' = IF moved THEN polls ELSE [polls EXCEPT ![w] = @ + 1]
           /\ smooth' = (smooth /\ (moved \/ ~spent))
    /\ UNCHANGED <<store, bytes, slot, memo, want, got, compiles, left>>

\* Mutant: no last look when the slot has moved.
LastPeekNot(w) ==
    /\ pc[w] = "last"
    /\ Goto(w, "own")
    /\ UNCHANGED <<store, bytes, slot, memo, want, polls, got, compiles, smooth, left>>

\* The owner can publish between the lookup and the slot read.
LastPeek(w) ==
    /\ pc[w] = "last"
    /\ IF InStore(want[w])
       THEN Return(w, want[w])
       ELSE Goto(w, "own") /\ UNCHANGED <<memo, got>>
    /\ UNCHANGED <<store, bytes, slot, want, polls, compiles, smooth, left>>

\* A racer that compiled for itself publishes too.
OwnPublish(w) ==
    /\ pc[w] = "ownPut"
    /\ IF want[w] \in Bad
       THEN Return(w, NoEngine) /\ UNCHANGED <<store, bytes, smooth>>
       ELSE Put(want[w]) /\ Return(w, want[w])
    /\ UNCHANGED <<slot, want, polls, compiles, left>>

\* The caller has the answer.
Done(w) ==
    /\ pc[w] = "done"
    /\ Goto(w, "idle")
    /\ got' = [got EXCEPT ![w] = NoEngine]
    /\ want' = [want EXCEPT ![w] = NoEngine]
    /\ UNCHANGED <<store, bytes, slot, memo, polls, compiles, smooth, left>>

-----------------------------------------------------------------------------

\* The compile panics; the guard is dropped on the way out.
Panic(w) ==
    /\ pc[w] \in {"put", "ownPut"} /\ left.upsets > 0
    /\ left' = [left EXCEPT !.upsets = @ - 1]
    /\ slot' = IF Holds(w) THEN [slot EXCEPT ![SlotFor(w)] = 0] ELSE slot
    /\ smooth' = FALSE
    /\ Goto(w, "idle")
    /\ want' = [want EXCEPT ![w] = NoEngine]
    /\ UNCHANGED <<store, bytes, memo, polls, got, compiles>>

\* clear_cached_regex, under memory pressure.
ClearStore ==
    /\ left.upsets > 0
    /\ left' = [left EXCEPT !.upsets = @ - 1]
    /\ store' = <<>>
    /\ bytes' = 0
    /\ smooth' = FALSE
    /\ UNCHANGED <<slot, memo, pc, want, polls, got, compiles>>

Work(w) ==
    \/ Look(w) \/ TryClaim(w) \/ Recheck(w) \/ Compile(w) \/ Publish(w) \/ Release(w)
    \/ Peek(w) \/ LookAtSlot(w) \/ LastPeek(w) \/ OwnPublish(w) \/ Done(w)

Next ==
    \/ \E w \in Workers :
          Work(w) \/ Panic(w) \/ \E p \in Patterns : Call(w, p)
    \/ ClearStore

Spec == Init /\ [][Next]_vars

\* A worker in a call runs on; calls, panics and clears need not happen.
FairSpec == Spec /\ \A w \in Workers : WF_vars(Work(w))

-----------------------------------------------------------------------------
(* Properties.                                                             *)

\* try_claim and ClaimGuard: a worker that holds a guard finds its own hash in
\* the slot, no two workers hold the same slot, and a slot without a holder is
\* free, so that a claim that failed or panicked wedges nobody.
ClaimsExact ==
    /\ \A w \in Workers : Holds(w) => slot[SlotFor(w)] = HashFor(w)
    /\ \A v, w \in Workers :
          (Holds(v) /\ Holds(w) /\ SlotFor(v) = SlotFor(w)) => v = w
    /\ \A s \in Slots : slot[s] # 0 => \E w \in Workers : Holds(w) /\ SlotFor(w) = s

\* BudgetedStore: the byte count is that of the entries, which are within the
\* budget unless there is only one, and no pattern is stored twice, whatever
\* compiles raced, replaced one another or were cleared.
BytesExact ==
    /\ bytes = SizeOf(Entries(store))
    /\ bytes <= Budget \/ Len(store) <= 1
    /\ \A i, j \in DOMAIN store : store[i] = store[j] => i = j

\* What the workers share is exact: the claim slots are those of the guards
\* alive, and the store's byte count is that of its entries.
TablesExact == ClaimsExact /\ BytesExact

\* cached_regex: a call returns the engine of its own pattern, and nothing only
\* for a pattern that does not compile.
RightEngine ==
    \A w \in Workers :
        pc[w] = "done" => got[w] = IF want[w] \in Bad THEN NoEngine ELSE want[w]

\* The point of the claims: as long as nobody panics, times out, collides or is
\* evicted, a pattern is compiled once, whichever way the owner's publication
\* and release fall between a racer's look at the store and at the slot.
CompiledOnce ==
    smooth => \A p \in Patterns \ Bad : compiles[p] <= 1

\* "correctness must never depend on another thread finishing": every call
\* returns.
EveryCallReturns == \A w \in Workers : pc[w] = "look" ~> pc[w] = "idle"
=============================================================================
