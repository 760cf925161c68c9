------------------------ MODULE MemberWindow_proofs -------------------------
(***************************************************************************)
(* Proofs about the windows of archive members: for any number of archives *)
(* and members, whatever their sizes, the pool and the limits are.         *)
(***************************************************************************)
EXTENDS MemberWindow, Functions, FunctionTheorems, FiniteSetTheorems, SequenceTheorems,
        WellFoundedInduction, TLAPS

-----------------------------------------------------------------------------
(* The inductive invariant.                                                *)

Types ==
    /\ cancelled \in BOOLEAN
    /\ panics \in 0..MaxPanics
    /\ {read, first, bytes, pos, chunk, next} \subseteq [Archives -> Nat]
    /\ {running, pending, none} \subseteq [Archives -> SUBSET Nat]
    /\ {consAcc, ownAcc} \subseteq [Archives -> Seq(Nat)]
    /\ {final, unwinding} \subseteq [Archives -> BOOLEAN]
    /\ prod \in [Archives -> ProdStates]
    /\ link \in [Archives -> {"none", "up", "dropped"}]
    /\ chan \in [Archives -> Seq(Interval)]
    /\ cons \in [Archives -> ConsStates]
    /\ batch \in [Archives -> Interval]
    /\ walk \in [Archives -> WalkStates]
    /\ result \in [Archives -> {"none", "ok", "err", "panic"}]

\* The producer and the pipeline: who holds a window, who is gone.
Ends(a) ==
    /\ read[a] <= Count(a)
    /\ first[a] >= 1 /\ first[a] <= read[a] + 1
    /\ (link[a] = "none") <=> ~Pipelined
    /\ (cons[a] = "none") <=> ~Pipelined
    /\ link[a] = "dropped" => cons[a] = "dead"
    /\ prod[a] = "walk" => link[a] # "up" /\ first[a] <= read[a]
    /\ prod[a] = "join" => link[a] = "up" /\ first[a] > read[a]
    /\ prod[a] = "scope" /\ result[a] = "none" => first[a] > read[a] /\ link[a] # "up"
    /\ prod[a] = "ended" => cons[a] \in {"none", "returned", "dead"}
    /\ cons[a] = "returned" => prod[a] \in {"join", "scope", "ended"}
    /\ prod[a] \notin {"scope", "ended"} => result[a] = "none"
    /\ result[a] = "ok" => prod[a] = "ended" /\ first[a] > read[a] /\ cons[a] # "dead"
    /\ result[a] = "panic" => prod[a] \in {"scope", "ended"} /\ cons[a] \in {"none", "dead"}

\* The window in the channel is the one before the one that is being filled.
Channel(a) ==
    /\ Len(chan[a]) <= 1
    /\ chan[a] # <<>> =>
         /\ cons[a] \in {"recv", "walk"}
         /\ chan[a][1].lo >= 1
         /\ chan[a][1].lo <= chan[a][1].hi
         /\ chan[a][1].hi + 1 = first[a]

\* Where the first window begins that nobody has taken up.
Ahead(a) == IF chan[a] = <<>> THEN first[a] ELSE chan[a][1].lo

\* Who walks, and over what.
Walking(a) ==
    /\ (walk[a] # "idle") <=> (prod[a] = "walk" \/ cons[a] = "walk")
    /\ walk[a] = "idle" => batch[a] = NoBatch
    /\ prod[a] = "walk" => batch[a] = Window(a)
    /\ cons[a] = "walk" => batch[a].hi + 1 = Ahead(a)
    /\ walk[a] # "idle" =>
         /\ batch[a].lo >= 1 /\ batch[a].lo <= pos[a]
         /\ pos[a] <= batch[a].hi + 1 /\ batch[a].hi <= read[a]
    /\ walk[a] = "pressured" => pos[a] <= chunk[a] + 1 /\ chunk[a] <= batch[a].hi
    /\ pos[a] <= read[a] + 1 /\ chunk[a] <= read[a]

\* A chunk that fans out: up to `next` its members are folded, after it they
\* run, or wait for a predecessor.
Chunk(a) ==
    /\ walk[a] = "fan" =>
         /\ pos[a] <= chunk[a] /\ chunk[a] <= batch[a].hi
         /\ pos[a] <= next[a] /\ next[a] <= chunk[a] + 1
         /\ running[a] \cup pending[a] \subseteq next[a]..chunk[a]
         /\ running[a] \cap pending[a] = {}
         /\ ~unwinding[a] => next[a] \notin pending[a]
    /\ walk[a] # "fan" => running[a] = {} /\ pending[a] = {} /\ ~unwinding[a]

\* Of the heavy members only those run whose earlier groups are done.
Groups(a) ==
    \A i \in running[a] : Heavy(a, i) => \A h \in HeavyOf(a) :
        GroupOf(a, h) < GroupOf(a, i) => h \in Delivered(a)

\* The first member that is not settled yet.
Front(a) ==
    IF walk[a] = "fan" THEN next[a]
    ELSE IF walk[a] # "idle" THEN pos[a] ELSE Ahead(a)

Ascends(s) == \A m, n \in 1..Len(s) : m < n => s[m] < s[n]
Entries(s) == {s[k] : k \in 1..Len(s)}

\* What is folded is in order and before the front, and what gave None is
\* there too, or in the chunk that fans out.
Order(a) ==
    /\ cons[a] \in {"recv", "walk", "returned"} => ownAcc[a] = <<>>
    /\ Ascends(Folded(a))
    /\ none[a] \subseteq 1..read[a]
    /\ Entries(Folded(a)) \subseteq 1..read[a] \ none[a]
    /\ result[a] # "panic" =>
         /\ \A i \in Entries(Folded(a)) : i < Front(a)
         /\ \A i \in none[a] : i < Front(a) \/ i \in running[a] \cup pending[a]

\* As long as nothing has panicked, all that is before the front is settled.
Whole(a) ==
    cons[a] # "dead" /\ ~unwinding[a] /\ result[a] # "panic" =>
        \A i \in 1..Front(a) - 1 : i \in none[a] \/ i \in Entries(Folded(a))

\* The window is within its limits while the producer adds to it.
Limits(a) ==
    /\ prod[a] = "read" => ~Full(a, bytes[a], read[a] + 1 - first[a])
    /\ read[a] + 1 - first[a] <= MaxCount
    /\ first[a] > read[a] => bytes[a] = 0
    /\ first[a] <= read[a] => bytes[a] < BudgetBytes + Sizes[a][read[a]]

WindowInv ==
    /\ Types
    /\ \A a \in Archives :
         /\ Ends(a) /\ Channel(a) /\ Walking(a) /\ Chunk(a) /\ Groups(a)
         /\ Order(a) /\ Whole(a) /\ Limits(a)

-----------------------------------------------------------------------------
(* The ascending enumeration of a set of members.                          *)

Enumerates(s, S) ==
    /\ s \in [1..Cardinality(S) -> S]
    /\ \A m, n \in 1..Cardinality(S) : m < n => s[m] < s[n]

\* One more member, greater than the others, goes to the end.
LEMMA EnumeratesMore ==
  ASSUME NEW S \in SUBSET Nat, IsFiniteSet(S), NEW x \in Nat, \A y \in S : y < x,
         NEW s, Enumerates(s, S)
  PROVE  \E u : Enumerates(u, S \cup {x})
<1> DEFINE c == Cardinality(S)
           u == [m \in 1..c + 1 |-> IF m = c + 1 THEN x ELSE s[m]]
<1>1. c \in Nat
  BY FS_CardinalityType
<1>2. x \notin S
  BY SMT
<1>3. Cardinality(S \cup {x}) = c + 1
  BY <1>2, FS_AddElement
<1>4. s \in [1..c -> S] /\ \A m, n \in 1..c : m < n => s[m] < s[n]
  BY DEF Enumerates
<1> HIDE DEF c
<1>5. \A m \in 1..c : s[m] \in S /\ s[m] < x
  BY <1>4
<1>6. u \in [1..c + 1 -> S \cup {x}]
  <2>1. \A m \in 1..c + 1 : m = c + 1 \/ m \in 1..c
    BY <1>1
  <2>2. \A m \in 1..c + 1 : (IF m = c + 1 THEN x ELSE s[m]) \in S \cup {x}
    BY <2>1, <1>5
  <2>3. QED
    BY <2>2
<1>7. \A m, n \in 1..c + 1 : m < n => u[m] < u[n]
  <2> SUFFICES ASSUME NEW m \in 1..c + 1, NEW n \in 1..c + 1, m < n
               PROVE  u[m] < u[n]
    OBVIOUS
  <2>1. m \in 1..c /\ m # c + 1 /\ (n = c + 1 \/ n \in 1..c)
    BY <1>1
  <2>2. u[m] = s[m]
    BY <2>1
  <2>3. CASE n = c + 1
    BY <2>1, <2>2, <2>3, <1>5
  <2>4. CASE n \in 1..c
    <3>1. n # c + 1
      BY <1>1, <2>4
    <3>2. u[n] = s[n]
      BY <3>1
    <3>3. QED
      BY <3>2, <2>1, <2>2, <2>4, <1>4
  <2>5. QED
    BY <2>1, <2>3, <2>4
<1>8. Enumerates(u, S \cup {x})
  <2> HIDE DEF u
  <2> QED
    BY <1>3, <1>6, <1>7 DEF Enumerates
<1>9. QED
  BY <1>8

LEMMA CanEnumerate ==
  ASSUME NEW h \in Nat
  PROVE  \A S \in SUBSET (1..h) : \E s : Enumerates(s, S)
<1> DEFINE Bad == {n \in Nat : \E S \in SUBSET (1..n) : \A s : ~Enumerates(s, S)}
           R == OpToRel(<, Nat)
<1>1. SUFFICES ASSUME Bad # {}
               PROVE  FALSE
  OBVIOUS
<1>2. \E n \in Bad : \A k \in Bad : <<k, n>> \notin R
  <2>1. Bad \subseteq Nat
    OBVIOUS
  <2> HIDE DEF Bad
  <2> QED
    BY <1>1, <2>1, NatLessThanWellFounded, WFMin
<1>3. PICK n \in Bad : \A k \in Bad : <<k, n>> \notin R
  BY <1>2
<1>4. n \in Nat /\ \A k \in Nat : k < n => k \notin Bad
  <2>1. n \in Nat /\ \A k \in Bad : k \in Nat
    OBVIOUS
  <2> HIDE DEF Bad
  <2> QED
    BY <1>3, <2>1 DEF OpToRel
<1>5. PICK S \in SUBSET (1..n) : \A s : ~Enumerates(s, S)
  OBVIOUS
<1>6. n # 0
  <2> SUFFICES ASSUME n = 0
               PROVE  FALSE
    OBVIOUS
  <2>1. S = {}
    BY <1>5
  <2>2. Cardinality(S) = 0
    BY <2>1, FS_EmptySet
  <2>3. [m \in 1..0 |-> m] \in [1..0 -> {}]
    BY SMT
  <2>4. Enumerates([m \in 1..0 |-> m], S)
    BY <2>1, <2>2, <2>3 DEF Enumerates
  <2>5. QED
    BY <1>5, <2>4
<1>7. n - 1 \in Nat /\ n - 1 < n
  BY <1>4, <1>6
<1>8. \A T \in SUBSET (1..n - 1) : \E s : Enumerates(s, T)
  BY <1>4, <1>7
<1> HIDE DEF Bad
<1>9. S \ {n} \in SUBSET (1..n - 1)
  BY <1>4, <1>7
<1>10. PICK s : Enumerates(s, S \ {n})
  BY <1>8, <1>9
<1>11. CASE n \notin S
  <2>1. S \ {n} = S
    BY <1>11
  <2>2. QED
    BY <1>5, <1>10, <2>1
<1>12. CASE n \in S
  <2>1. (S \ {n}) \cup {n} = S
    BY <1>12
  <2>2. IsFiniteSet(1..n - 1)
    BY <1>7, FS_Interval
  <2>3. IsFiniteSet(S \ {n})
    BY <1>9, <2>2, FS_Subset
  <2>4. S \ {n} \in SUBSET Nat /\ \A y \in S \ {n} : y < n
    BY <1>4, <1>7, <1>9
  <2>5. \E u : Enumerates(u, (S \ {n}) \cup {n})
    BY <1>4, <1>10, <2>3, <2>4, EnumeratesMore
  <2>6. QED
    BY <1>5, <2>1, <2>5
<1>13. QED
  BY <1>11, <1>12

LEMMA AscendingFacts ==
  ASSUME NEW h \in Nat, NEW S \in SUBSET (1..h)
  PROVE  /\ Ascending(S) \in Seq(Nat)
         /\ Ascends(Ascending(S))
         /\ Entries(Ascending(S)) = S
<1> DEFINE s == Ascending(S)
           c == Cardinality(S)
<1>1. Enumerates(s, S)
  BY CanEnumerate DEF Ascending, Enumerates
<1>2. IsFiniteSet(S)
  <2>1. IsFiniteSet(1..h)
    BY FS_Interval
  <2>2. QED
    BY <2>1, FS_Subset
<1>3. c \in Nat /\ S \subseteq Nat
  BY <1>2, FS_CardinalityType
<1>4. s \in [1..c -> S] /\ \A m, n \in 1..c : m < n => s[m] < s[n]
  BY <1>1 DEF Enumerates
<1> HIDE DEF s
<1>5. s \in Seq(Nat) /\ Len(s) = c
  <2> HIDE DEF c
  <2>1. s \in [1..c -> Nat]
    BY <1>3, <1>4
  <2>2. QED
    BY <1>3, <2>1
<1>6. s \in Injection(1..c, S)
  <2> HIDE DEF c
  <2> SUFFICES ASSUME NEW m \in 1..c, NEW n \in 1..c, s[m] = s[n]
               PROVE  m = n
    BY <1>4 DEF Injection, IsInjective
  <2>1. s[m] \in Nat /\ s[n] \in Nat
    BY <1>3, <1>4
  <2>2. ~(m < n) /\ ~(n < m)
    BY <2>1, <1>4
  <2>3. QED
    BY <2>2, <1>3
<1>7. IsFiniteSet(1..c) /\ Cardinality(1..c) = c
  <2> HIDE DEF c
  <2> QED
    BY <1>3, FS_Interval
<1>8. s \in Surjection(1..c, S)
  BY <1>2, <1>6, <1>7, FS_Injection
<1>9. Entries(s) = S
  <2> HIDE DEF c
  <2>1. \A i \in S : \E k \in 1..c : s[k] = i
    BY <1>8 DEF Surjection
  <2>2. QED
    BY <1>4, <1>5, <2>1 DEF Entries
<1>10. Ascends(s)
  <2> HIDE DEF c
  <2> QED
    BY <1>4, <1>5 DEF Ascends
<1>11. QED
  BY <1>5, <1>9, <1>10 DEF s

\* Later members folded after earlier ones.
LEMMA AscendsOn ==
  ASSUME NEW f \in Seq(Nat), NEW s \in Seq(Nat), Ascends(f), Ascends(s),
         \A x \in Entries(f), y \in Entries(s) : x < y
  PROVE  /\ f \o s \in Seq(Nat)
         /\ Ascends(f \o s)
         /\ Entries(f \o s) = Entries(f) \cup Entries(s)
<1> DEFINE u == f \o s
<1>1. /\ u \in Seq(Nat)
      /\ Len(u) = Len(f) + Len(s)
      /\ \A i \in 1..Len(f) + Len(s) : u[i] = IF i <= Len(f) THEN f[i] ELSE s[i - Len(f)]
  BY ConcatProperties
<1>2. Len(f) \in Nat /\ Len(s) \in Nat
  BY LenProperties
<1> HIDE DEF u
<1>3. \A i \in 1..Len(f) : i \in 1..Len(u) /\ u[i] = f[i]
  BY <1>1, <1>2
<1>4. \A i \in 1..Len(s) : i + Len(f) \in 1..Len(u) /\ u[i + Len(f)] = s[i]
  <2> SUFFICES ASSUME NEW i \in 1..Len(s)
               PROVE  i + Len(f) \in 1..Len(u) /\ u[i + Len(f)] = s[i]
    OBVIOUS
  <2>1. i + Len(f) \in 1..Len(f) + Len(s) /\ ~(i + Len(f) <= Len(f)) /\ (i + Len(f)) - Len(f) = i
    BY <1>2
  <2>2. QED
    BY <1>1, <2>1
<1>5. \A i \in 1..Len(u) : i \in 1..Len(f) \/ \E k \in 1..Len(s) : i = k + Len(f)
  <2> SUFFICES ASSUME NEW i \in 1..Len(u), i \notin 1..Len(f)
               PROVE  \E k \in 1..Len(s) : i = k + Len(f)
    OBVIOUS
  <2>1. i - Len(f) \in 1..Len(s) /\ i = (i - Len(f)) + Len(f)
    BY <1>1, <1>2
  <2>2. QED
    BY <2>1
<1>6. Entries(u) = Entries(f) \cup Entries(s)
  <2>1. \A x \in Entries(f) : x \in Entries(u)
    BY <1>3 DEF Entries
  <2>2. \A x \in Entries(s) : x \in Entries(u)
    BY <1>4 DEF Entries
  <2>3. ASSUME NEW i \in 1..Len(u)
        PROVE  u[i] \in Entries(f) \/ u[i] \in Entries(s)
    BY <1>3, <1>4, <1>5 DEF Entries
  <2>4. \A x \in Entries(u) : x \in Entries(f) \/ x \in Entries(s)
    BY <2>3 DEF Entries
  <2>5. QED
    BY <2>1, <2>2, <2>4
<1>7. Ascends(u)
  <2> SUFFICES ASSUME NEW m \in 1..Len(u), NEW n \in 1..Len(u), m < n
               PROVE  u[m] < u[n]
    BY DEF Ascends
  <2>1. CASE n \in 1..Len(f)
    <3>1. m \in 1..Len(f)
      BY <2>1, <1>2
    <3>2. QED
      BY <3>1, <2>1, <1>3 DEF Ascends
  <2>2. CASE m \in 1..Len(f) /\ n \notin 1..Len(f)
    <3>1. PICK k \in 1..Len(s) : n = k + Len(f)
      BY <1>5, <2>2
    <3>2. u[m] = f[m] /\ u[n] = s[k]
      BY <1>3, <1>4, <2>2, <3>1
    <3>3. f[m] \in Entries(f) /\ s[k] \in Entries(s)
      BY <2>2 DEF Entries
    <3>4. QED
      BY <3>2, <3>3
  <2>3. CASE m \notin 1..Len(f) /\ n \notin 1..Len(f)
    <3>1. PICK k \in 1..Len(s) : n = k + Len(f)
      BY <1>5, <2>3
    <3>2. PICK j \in 1..Len(s) : m = j + Len(f)
      BY <1>5, <2>3
    <3>3. j < k
      BY <1>2, <3>1, <3>2
    <3>4. u[m] = s[j] /\ u[n] = s[k]
      BY <1>4, <3>1, <3>2
    <3>5. QED
      BY <3>3, <3>4 DEF Ascends
  <2>4. QED
    BY <2>1, <2>2, <2>3
<1>8. QED
  BY <1>1, <1>6, <1>7 DEF u

-----------------------------------------------------------------------------
(* Steps change the archive they are about, and keep the types.            *)

StaysReader(b) == read'[b] = read[b] /\ first'[b] = first[b] /\ bytes'[b] = bytes[b]
StaysEnds(b) == /\ prod'[b] = prod[b] /\ final'[b] = final[b] /\ link'[b] = link[b]
                /\ cons'[b] = cons[b] /\ result'[b] = result[b]
StaysWalk(b) == /\ batch'[b] = batch[b] /\ walk'[b] = walk[b]
                /\ pos'[b] = pos[b] /\ chunk'[b] = chunk[b]
StaysPool(b) == /\ running'[b] = running[b] /\ pending'[b] = pending[b]
                /\ next'[b] = next[b] /\ unwinding'[b] = unwinding[b]
StaysFolded(b) == none'[b] = none[b] /\ consAcc'[b] = consAcc[b] /\ ownAcc'[b] = ownAcc[b]
Stays(b) ==
    /\ StaysReader(b) /\ StaysEnds(b) /\ chan'[b] = chan[b]
    /\ StaysWalk(b) /\ StaysPool(b) /\ StaysFolded(b)

Elsewhere(a) == \A b \in Archives : b # a => Stays(b)

Here(a) ==
    /\ Ends(a) /\ Channel(a) /\ Walking(a) /\ Chunk(a) /\ Groups(a)
    /\ Order(a) /\ Whole(a) /\ Limits(a)

\* What an archive is promised depends on nothing of another.
LEMMA StaysHere ==
  ASSUME NEW b, Stays(b), Here(b)
  PROVE  Here(b)'
<1>1. /\ read'[b] = read[b] /\ first'[b] = first[b] /\ bytes'[b] = bytes[b]
      /\ prod'[b] = prod[b] /\ final'[b] = final[b] /\ link'[b] = link[b]
      /\ cons'[b] = cons[b] /\ result'[b] = result[b] /\ chan'[b] = chan[b]
      /\ batch'[b] = batch[b] /\ walk'[b] = walk[b]
      /\ pos'[b] = pos[b] /\ chunk'[b] = chunk[b]
      /\ running'[b] = running[b] /\ pending'[b] = pending[b]
      /\ next'[b] = next[b] /\ unwinding'[b] = unwinding[b]
      /\ none'[b] = none[b] /\ consAcc'[b] = consAcc[b] /\ ownAcc'[b] = ownAcc[b]
  BY DEF Stays, StaysReader, StaysEnds, StaysWalk, StaysPool, StaysFolded
<1>2. /\ Ends(b) /\ Channel(b) /\ Walking(b) /\ Chunk(b) /\ Groups(b)
      /\ Order(b) /\ Whole(b) /\ Limits(b)
  BY DEF Here
<1>3. Ends(b)'
  BY <1>1, <1>2 DEF Ends
<1>4. Channel(b)'
  BY <1>1, <1>2 DEF Channel
<1>5. Walking(b)'
  BY <1>1, <1>2 DEF Walking, Window, Ahead
<1>6. Chunk(b)'
  BY <1>1, <1>2 DEF Chunk
<1>7. Groups(b)'
  <2>1. HeavyOf(b)' = HeavyOf(b) /\ Delivered(b)' = Delivered(b)
    BY <1>1 DEF HeavyOf, Delivered
  <2>2. \A i : GroupOf(b, i)' = GroupOf(b, i)
    BY <2>1 DEF GroupOf
  <2>3. QED
    BY <1>1, <1>2, <2>1, <2>2 DEF Groups
<1>8. Folded(b)' = Folded(b) /\ Front(b)' = Front(b)
  BY <1>1 DEF Folded, Front, Ahead
<1>9. Order(b)'
  BY <1>1, <1>2, <1>8 DEF Order
<1>10. Whole(b)'
  BY <1>1, <1>2, <1>8 DEF Whole
<1>11. Limits(b)'
  BY <1>1, <1>2 DEF Limits
<1>12. QED
  BY <1>3, <1>4, <1>5, <1>6, <1>7, <1>9, <1>10, <1>11 DEF Here

LEMMA TypesAre ==
  ASSUME Types
  PROVE  /\ read \in [Archives -> Nat] /\ first \in [Archives -> Nat]
         /\ bytes \in [Archives -> Nat] /\ pos \in [Archives -> Nat]
         /\ chunk \in [Archives -> Nat] /\ next \in [Archives -> Nat]
         /\ running \in [Archives -> SUBSET Nat] /\ pending \in [Archives -> SUBSET Nat]
         /\ none \in [Archives -> SUBSET Nat]
         /\ consAcc \in [Archives -> Seq(Nat)] /\ ownAcc \in [Archives -> Seq(Nat)]
         /\ final \in [Archives -> BOOLEAN] /\ unwinding \in [Archives -> BOOLEAN]
         /\ prod \in [Archives -> ProdStates] /\ cons \in [Archives -> ConsStates]
         /\ link \in [Archives -> {"none", "up", "dropped"}]
         /\ chan \in [Archives -> Seq(Interval)] /\ batch \in [Archives -> Interval]
         /\ walk \in [Archives -> WalkStates]
         /\ result \in [Archives -> {"none", "ok", "err", "panic"}]
BY DEF Types

LEMMA TypesAt ==
  ASSUME Types, NEW a \in Archives
  PROVE  /\ read[a] \in Nat /\ first[a] \in Nat /\ bytes[a] \in Nat
         /\ pos[a] \in Nat /\ chunk[a] \in Nat /\ next[a] \in Nat
         /\ running[a] \subseteq Nat /\ pending[a] \subseteq Nat /\ none[a] \subseteq Nat
         /\ consAcc[a] \in Seq(Nat) /\ ownAcc[a] \in Seq(Nat)
         /\ final[a] \in BOOLEAN /\ unwinding[a] \in BOOLEAN
         /\ prod[a] \in ProdStates /\ cons[a] \in ConsStates /\ walk[a] \in WalkStates
         /\ link[a] \in {"none", "up", "dropped"}
         /\ chan[a] \in Seq(Interval) /\ batch[a] \in Interval
         /\ batch[a].lo \in Nat /\ batch[a].hi \in Nat
         /\ result[a] \in {"none", "ok", "err", "panic"}
<1>1. batch[a] \in Interval
  BY TypesAre
<1>2. batch[a].lo \in Nat /\ batch[a].hi \in Nat
  BY <1>1 DEF Interval
<1>3. QED
  BY <1>1, <1>2, TypesAre

LEMMA SizesAre ==
  ASSUME NEW a \in Archives
  PROVE  /\ Count(a) \in Nat
         /\ \A i \in 1..Count(a) : Sizes[a][i] \in Nat
<1>1. Sizes[a] \in Seq(Nat)
  BY WindowAssumption
<1>2. QED
  BY <1>1 DEF Count

LEMMA LimitsAre ==
  /\ BudgetBytes \in Nat \ {0} /\ MaxCount \in Nat \ {0}
  /\ PressuredChunk \in Nat \ {0} /\ HeavyBytes \in Nat /\ HeavyParallel \in Nat \ {0}
  /\ Pipelined \in BOOLEAN /\ MaxPanics \in Nat
BY WindowAssumption

-----------------------------------------------------------------------------
(* The steps of a producer. *)

LEMMA ProducerTypes ==
  ASSUME Types, NEW a \in Archives, Here(a), ProducerStep(a)
  PROVE  Types' /\ Elsewhere(a)
<1>1. /\ Count(a) \in Nat /\ \A i \in 1..Count(a) : Sizes[a][i] \in Nat
      /\ read[a] \in Nat /\ first[a] \in Nat /\ bytes[a] \in Nat
  BY SizesAre, TypesAt
<1>2. CASE Push(a)
  <2>1. read[a] + 1 \in 1..Count(a)
    BY <1>1, <1>2 DEF Push
  <2>2. /\ read' = [read EXCEPT ![a] = read[a] + 1]
        /\ bytes' = [bytes EXCEPT ![a] = bytes[a] + Sizes[a][read'[a]]]
        /\ \E s \in ProdStates : prod' = [prod EXCEPT ![a] = s]
    BY <1>2 DEF Push, ProdStates
  <2>3. read'[a] = read[a] + 1
    BY <2>2, TypesAre
  <2>4. read' \in [Archives -> Nat] /\ bytes' \in [Archives -> Nat]
        /\ prod' \in [Archives -> ProdStates]
    <3>1. read[a] + 1 \in Nat /\ Sizes[a][read[a] + 1] \in Nat
      BY <1>1, <2>1
    <3>2. bytes[a] + Sizes[a][read'[a]] \in Nat
      BY <1>1, <2>3, <3>1
    <3>3. QED
      BY <2>2, <3>1, <3>2, TypesAre, SMTT(30)
  <2>5. Types'
    BY <1>2, <2>4, TypesAre DEF Types, Push, walker
  <2>6. Elsewhere(a)
    BY <1>2, <2>2, TypesAre
       DEF Elsewhere, Stays, StaysReader, StaysEnds, StaysWalk, StaysPool, StaysFolded,
           Push, walker
  <2>7. QED
    BY <2>5, <2>6
<1>3. CASE Finish(a)
  BY <1>3, TypesAre
     DEF Types, Elsewhere, Stays, StaysReader, StaysEnds, StaysWalk, StaysPool, StaysFolded,
         Finish, walker, ProdStates
<1>4. CASE GiveUp(a)
  BY <1>4, TypesAre
     DEF Types, Elsewhere, Stays, StaysReader, StaysEnds, StaysWalk, StaysPool, StaysFolded,
         GiveUp, walker, ProdStates
<1>5. AfterFlush(a) \in ProdStates
  BY DEF AfterFlush, ProdStates
<1>6. CASE FlushEmpty(a)
  BY <1>5, <1>6, TypesAre
     DEF Types, Elsewhere, Stays, StaysReader, StaysEnds, StaysWalk, StaysPool, StaysFolded,
         FlushEmpty, walker
<1>7. CASE Send(a)
  <2>1. Window(a) \in Interval /\ chan[a] \in Seq(Interval)
    BY <1>1, TypesAt DEF Window, Interval
  <2>2. Append(chan[a], Window(a)) \in Seq(Interval)
    BY <2>1
  <2>3. /\ chan' = [chan EXCEPT ![a] = Append(chan[a], Window(a))]
        /\ first' = [first EXCEPT ![a] = read[a] + 1]
        /\ bytes' = [bytes EXCEPT ![a] = 0]
        /\ prod' = [prod EXCEPT ![a] = AfterFlush(a)]
    BY <1>7 DEF Send, Emptied
  <2>4. /\ chan' \in [Archives -> Seq(Interval)] /\ first' \in [Archives -> Nat]
        /\ bytes' \in [Archives -> Nat] /\ prod' \in [Archives -> ProdStates]
    BY <1>1, <1>5, <2>2, <2>3, TypesAre
  <2>5. Types'
    BY <1>7, <2>4, TypesAre DEF Types, Send, walker
  <2>6. Elsewhere(a)
    BY <1>7, <2>3, TypesAre
       DEF Elsewhere, Stays, StaysReader, StaysEnds, StaysWalk, StaysPool, StaysFolded,
           Send, walker
  <2>7. QED
    BY <2>5, <2>6
<1>8. CASE SendFails(a)
  <2>1. /\ link' = [link EXCEPT ![a] = "dropped"]
        /\ bytes' = [bytes EXCEPT ![a] = 0]
    BY <1>8 DEF SendFails
  <2>2. Types'
    <3>1. link' \in [Archives -> {"none", "up", "dropped"}] /\ bytes' \in [Archives -> Nat]
      BY <2>1, TypesAre
    <3>2. QED
      BY <1>8, <3>1, TypesAre DEF Types, SendFails, walker
  <2>3. Elsewhere(a)
    BY <1>8, <2>1, TypesAre
       DEF Elsewhere, Stays, StaysReader, StaysEnds, StaysWalk, StaysPool, StaysFolded,
           SendFails, walker
  <2>4. QED
    BY <2>2, <2>3
<1>9. CASE BeginInline(a)
  <2>1. Window(a) \in Interval /\ Window(a).lo \in Nat
    BY <1>1 DEF Window, Interval
  <2>2. /\ batch' = [batch EXCEPT ![a] = Window(a)]
        /\ pos' = [pos EXCEPT ![a] = Window(a).lo]
        /\ \E w \in WalkStates : walk' = [walk EXCEPT ![a] = w]
        /\ prod' = [prod EXCEPT ![a] = "walk"]
    BY <1>9 DEF BeginInline, BeginWalk, WalkStates
  <2>3. /\ batch' \in [Archives -> Interval] /\ pos' \in [Archives -> Nat]
        /\ walk' \in [Archives -> WalkStates] /\ prod' \in [Archives -> ProdStates]
    BY <2>1, <2>2, TypesAre DEF ProdStates
  <2>4. Types'
    BY <1>9, <2>3, TypesAre DEF Types, BeginInline, BeginWalk
  <2>5. Elsewhere(a)
    BY <1>9, <2>2, TypesAre
       DEF Elsewhere, Stays, StaysReader, StaysEnds, StaysWalk, StaysPool, StaysFolded,
           BeginInline, BeginWalk
  <2>6. QED
    BY <2>4, <2>5
<1>10. CASE Joined(a)
  BY <1>10, TypesAre
     DEF Types, Elsewhere, Stays, StaysReader, StaysEnds, StaysWalk, StaysPool, StaysFolded,
         Joined, walker, ProdStates
<1>11. CASE ScopeEnds(a)
  BY <1>11, TypesAre, TypesAt
     DEF Types, Elsewhere, Stays, StaysReader, StaysEnds, StaysWalk, StaysPool, StaysFolded,
         ScopeEnds, walker, ProdStates
<1>12. QED
  BY <1>2, <1>3, <1>4, <1>6, <1>7, <1>8, <1>9, <1>10, <1>11 DEF ProducerStep

LEMMA PoolStays ==
  ASSUME NEW a, StaysPool(a), pos'[a] = pos[a], chunk'[a] = chunk[a], Groups(a)
  PROVE  Groups(a)'
<1>1. HeavyOf(a)' = HeavyOf(a) /\ Delivered(a)' = Delivered(a) /\ running'[a] = running[a]
  BY DEF HeavyOf, Delivered, StaysPool
<1>2. \A i : GroupOf(a, i)' = GroupOf(a, i)
  BY <1>1 DEF GroupOf
<1>3. QED
  BY <1>1, <1>2 DEF Groups

LEMMA ChunkStays ==
  ASSUME NEW a, StaysPool(a), StaysWalk(a), Chunk(a), Groups(a)
  PROVE  Chunk(a)' /\ Groups(a)'
<1>1. Groups(a)'
  BY PoolStays DEF StaysWalk
<1>2. Chunk(a)'
  BY DEF Chunk, StaysPool, StaysWalk
<1>3. QED
  BY <1>1, <1>2

LEMMA FrontIs ==
  ASSUME Types, NEW a \in Archives, Channel(a)
  PROVE  Front(a) \in Nat /\ Ahead(a) \in Nat
<1>1. /\ first[a] \in Nat /\ pos[a] \in Nat /\ next[a] \in Nat /\ chan[a] \in Seq(Interval)
  BY TypesAt
<1>2. chan[a] # <<>> => chan[a][1] \in Interval
  BY <1>1
<1>3. chan[a] # <<>> => chan[a][1].lo \in Nat
  BY <1>2 DEF Interval
<1>4. QED
  BY <1>1, <1>3 DEF Front, Ahead

\* Nothing is folded and the front stays, or something has panicked.
LEMMA NothingFolded ==
  ASSUME NEW a \in Archives, StaysFolded(a), Order(a), Whole(a),
         read[a] \in Nat, read'[a] \in Nat, read[a] <= read'[a],
         Front(a) \in Nat, Front(a)' \in Nat, none[a] \subseteq Nat,
         cons'[a] \in {"recv", "walk", "returned"} => cons[a] \in {"recv", "walk", "returned"},
         result[a] = "panic" => result'[a] = "panic",
         result'[a] # "panic" => /\ Front(a) <= Front(a)'
                                 /\ \A i \in running[a] \cup pending[a] :
                                      i \in running'[a] \cup pending'[a] \/ i < Front(a)',
         cons'[a] # "dead" /\ ~unwinding'[a] /\ result'[a] # "panic" =>
            Front(a)' = Front(a) /\ cons[a] # "dead" /\ ~unwinding[a] /\ result[a] # "panic"
  PROVE  Order(a)' /\ Whole(a)'
<1>1. Folded(a)' = Folded(a) /\ none'[a] = none[a] /\ ownAcc'[a] = ownAcc[a]
  BY DEF Folded, StaysFolded
<1>2. Entries(Folded(a)) \subseteq Nat
  BY DEF Order
<1>3. Order(a)'
  <2>1. cons'[a] \in {"recv", "walk", "returned"} => ownAcc'[a] = <<>>
    BY <1>1 DEF Order
  <2>2. Ascends(Folded(a)')
    BY <1>1 DEF Order
  <2>3. none'[a] \subseteq 1..read'[a] /\ Entries(Folded(a)') \subseteq 1..read'[a] \ none'[a]
    BY <1>1 DEF Order
  <2>4. result'[a] # "panic" => \A i \in Entries(Folded(a)') : i < Front(a)'
    BY <1>1, <1>2 DEF Order
  <2>5. result'[a] # "panic" =>
          \A i \in none'[a] : i < Front(a)' \/ i \in running'[a] \cup pending'[a]
    BY <1>1 DEF Order
  <2>6. QED
    BY <2>1, <2>2, <2>3, <2>4, <2>5 DEF Order
<1>4. Whole(a)'
  BY <1>1 DEF Whole
<1>5. QED
  BY <1>3, <1>4

LEMMA ProducerHere ==
  ASSUME Types, NEW a \in Archives, Here(a), ProducerStep(a), Types'
  PROVE  Here(a)'
<1> USE DEF ProdStates
<1>1. /\ Count(a) \in Nat /\ \A i \in 1..Count(a) : Sizes[a][i] \in Nat
      /\ read[a] \in Nat /\ first[a] \in Nat /\ bytes[a] \in Nat
      /\ final[a] \in BOOLEAN /\ prod[a] \in ProdStates
      /\ cons[a] \in ConsStates /\ link[a] \in {"none", "up", "dropped"}
      /\ chan[a] \in Seq(Interval)
  BY SizesAre, TypesAt
<1>2. /\ Ends(a) /\ Channel(a) /\ Walking(a) /\ Chunk(a) /\ Groups(a)
      /\ Order(a) /\ Whole(a) /\ Limits(a)
  BY DEF Here
<1>3. /\ Front(a) \in Nat /\ Ahead(a) \in Nat /\ none[a] \subseteq Nat
      /\ batch[a].hi \in Nat
  BY <1>2, FrontIs, TypesAt
<1>4. read'[a] \in Nat /\ first'[a] \in Nat /\ bytes'[a] \in Nat
  BY DEF Types
<1>5. CASE Push(a)
  <2>1. /\ prod[a] = "read" /\ read[a] < Count(a)
        /\ read'[a] = read[a] + 1
        /\ bytes'[a] = bytes[a] + Sizes[a][read[a] + 1]
        /\ prod'[a] = IF Full(a, bytes'[a], read'[a] + 1 - first[a]) THEN "flush" ELSE "read"
        /\ first'[a] = first[a] /\ final'[a] = final[a] /\ link'[a] = link[a]
        /\ chan'[a] = chan[a] /\ cons'[a] = cons[a] /\ result'[a] = result[a]
    BY <1>5, TypesAre DEF Push
  <2>2. StaysWalk(a) /\ StaysPool(a) /\ StaysFolded(a)
    BY <1>5 DEF Push, walker, StaysWalk, StaysPool, StaysFolded
  <2>3. Chunk(a)' /\ Groups(a)'
    BY <1>2, <2>2, ChunkStays
  <2>4. Ends(a)'
    BY <1>1, <1>2, <2>1 DEF Ends
  <2>5. Channel(a)'
    BY <1>2, <2>1 DEF Channel
  <2>6. Ahead(a)' = Ahead(a) /\ Front(a)' = Front(a)
    BY <2>1, <2>2 DEF Ahead, Front, StaysWalk, StaysPool
  <2>7. Walking(a)'
    <3>1. prod'[a] # "walk" /\ read'[a] = read[a] + 1
      BY <2>1
    <3>2. batch[a].hi <= read[a] => batch[a].hi <= read[a] + 1
      BY <1>1, <1>3
    <3>3. /\ pos[a] <= read[a] + 1 => pos[a] <= (read[a] + 1) + 1
          /\ chunk[a] <= read[a] => chunk[a] <= read[a] + 1
      BY <1>1, TypesAt
    <3>4. cons'[a] = cons[a] /\ prod[a] # "walk"
      BY <2>1
    <3>5. QED
      BY <1>2, <2>2, <2>6, <3>1, <3>2, <3>3, <3>4 DEF Walking, StaysWalk
  <2>8. Order(a)' /\ Whole(a)'
    <3>1. /\ read[a] <= read'[a] /\ cons'[a] = cons[a] /\ result'[a] = result[a]
          /\ Front(a) <= Front(a)' /\ unwinding'[a] = unwinding[a]
          /\ running'[a] = running[a] /\ pending'[a] = pending[a]
      BY <1>1, <1>3, <2>1, <2>2, <2>6 DEF StaysPool
    <3>2. QED
      BY <1>1, <1>2, <1>3, <1>4, <2>2, <2>6, <3>1, NothingFolded
  <2>9. Limits(a)'
    <3>1. prod'[a] = "read" => ~Full(a, bytes'[a], read'[a] + 1 - first'[a])
      BY <2>1
    <3>2. bytes[a] < BudgetBytes /\ read[a] + 1 - first[a] < MaxCount
      BY <1>1, <1>2, <2>1, LimitsAre DEF Limits, Full
    <3>3. Sizes[a][read[a] + 1] \in Nat /\ Sizes[a][read'[a]] = Sizes[a][read[a] + 1]
      <4>1. read[a] + 1 \in 1..Count(a) /\ read'[a] = read[a] + 1
        BY <1>1, <2>1
      <4>2. QED
        BY <1>1, <4>1
    <3>4. bytes'[a] < BudgetBytes + Sizes[a][read'[a]]
      BY <1>1, <2>1, <3>2, <3>3, LimitsAre
    <3>5. read'[a] + 1 - first'[a] <= MaxCount /\ ~(first'[a] > read'[a])
      BY <1>1, <1>2, <2>1, <3>2, LimitsAre DEF Ends
    <3>6. QED
      BY <3>1, <3>4, <3>5 DEF Limits, Full
  <2>10. QED
    BY <2>3, <2>4, <2>5, <2>7, <2>8, <2>9 DEF Here
<1>6. CASE Finish(a)
  <2>1. /\ prod[a] = "read" /\ prod'[a] = "flush"
        /\ StaysReader(a) /\ link'[a] = link[a]
        /\ chan'[a] = chan[a] /\ cons'[a] = cons[a] /\ result'[a] = result[a]
    BY <1>6, TypesAre DEF Finish, StaysReader
  <2>2. StaysWalk(a) /\ StaysPool(a) /\ StaysFolded(a)
    BY <1>6 DEF Finish, walker, StaysWalk, StaysPool, StaysFolded
  <2>3. Chunk(a)' /\ Groups(a)'
    BY <1>2, <2>2, ChunkStays
  <2>4. Ends(a)'
    BY <1>2, <2>1 DEF Ends, StaysReader
  <2>5. Channel(a)'
    BY <1>2, <2>1 DEF Channel, StaysReader
  <2>6. Ahead(a)' = Ahead(a) /\ Front(a)' = Front(a)
    BY <2>1, <2>2 DEF Ahead, Front, StaysWalk, StaysPool, StaysReader
  <2>7. Walking(a)'
    BY <1>2, <2>1, <2>2, <2>6 DEF Walking, StaysWalk, StaysReader
  <2>8. Order(a)' /\ Whole(a)'
    BY <1>1, <1>2, <1>3, <1>4, <2>1, <2>2, <2>6, NothingFolded DEF StaysPool, StaysReader
  <2>9. Limits(a)'
    BY <1>2, <2>1 DEF Limits, StaysReader
  <2>10. QED
    BY <2>3, <2>4, <2>5, <2>7, <2>8, <2>9 DEF Here
<1>7. CASE GiveUp(a)
  <2>1. /\ prod[a] = "read" /\ prod'[a] = "scope" /\ result'[a] = "err"
        /\ StaysReader(a) /\ link'[a] = link[a]
        /\ chan'[a] = chan[a] /\ cons'[a] = cons[a]
    BY <1>7, TypesAre DEF GiveUp, StaysReader
  <2>2. StaysWalk(a) /\ StaysPool(a) /\ StaysFolded(a)
    BY <1>7 DEF GiveUp, walker, StaysWalk, StaysPool, StaysFolded
  <2>3. Chunk(a)' /\ Groups(a)'
    BY <1>2, <2>2, ChunkStays
  <2>4. Ends(a)'
    BY <1>2, <2>1 DEF Ends, StaysReader
  <2>5. Channel(a)'
    BY <1>2, <2>1 DEF Channel, StaysReader
  <2>6. Ahead(a)' = Ahead(a) /\ Front(a)' = Front(a)
    BY <2>1, <2>2 DEF Ahead, Front, StaysWalk, StaysPool, StaysReader
  <2>7. Walking(a)'
    BY <1>2, <2>1, <2>2, <2>6 DEF Walking, StaysWalk, StaysReader
  <2>8. result[a] = "none"
    BY <1>2, <2>1 DEF Ends
  <2>9. Order(a)' /\ Whole(a)'
    BY <1>1, <1>2, <1>3, <1>4, <2>1, <2>2, <2>6, <2>8, NothingFolded DEF StaysPool, StaysReader
  <2>10. Limits(a)'
    BY <1>2, <2>1 DEF Limits, StaysReader
  <2>11. QED
    BY <2>3, <2>4, <2>5, <2>7, <2>9, <2>10 DEF Here
<1>8. CASE FlushEmpty(a)
  <2>1. /\ prod[a] = "flush" /\ first[a] > read[a] /\ prod'[a] = AfterFlush(a)
        /\ StaysReader(a) /\ link'[a] = link[a]
        /\ chan'[a] = chan[a] /\ cons'[a] = cons[a] /\ result'[a] = result[a]
    BY <1>8, TypesAre DEF FlushEmpty, StaysReader
  <2>2. StaysWalk(a) /\ StaysPool(a) /\ StaysFolded(a)
    BY <1>8 DEF FlushEmpty, walker, StaysWalk, StaysPool, StaysFolded
  <2>3. Chunk(a)' /\ Groups(a)'
    BY <1>2, <2>2, ChunkStays
  <2>4. /\ prod'[a] \in {"read", "join", "scope"}
        /\ prod'[a] = "join" => link[a] = "up"
        /\ prod'[a] = "scope" => link[a] # "up"
    BY <2>1 DEF AfterFlush
  <2>5. Ends(a)'
    BY <1>2, <2>1, <2>4 DEF Ends, StaysReader
  <2>6. Channel(a)'
    BY <1>2, <2>1 DEF Channel, StaysReader
  <2>7. Ahead(a)' = Ahead(a) /\ Front(a)' = Front(a)
    BY <2>1, <2>2 DEF Ahead, Front, StaysWalk, StaysPool, StaysReader
  <2>8. Walking(a)'
    BY <1>2, <2>1, <2>2, <2>4, <2>7 DEF Walking, StaysWalk, StaysReader
  <2>9. Order(a)' /\ Whole(a)'
    BY <1>1, <1>2, <1>3, <1>4, <2>1, <2>2, <2>7, NothingFolded DEF StaysPool, StaysReader
  <2>10. Limits(a)'
    BY <1>1, <1>2, <2>1, LimitsAre DEF Limits, StaysReader, Full, Ends
  <2>11. QED
    BY <2>3, <2>5, <2>6, <2>8, <2>9, <2>10 DEF Here
<1>9. CASE Send(a)
  <2>1. /\ prod[a] = "flush" /\ link[a] = "up" /\ cons[a] # "dead"
        /\ first[a] <= read[a] /\ Len(chan[a]) < 1
        /\ chan'[a] = Append(chan[a], Window(a))
        /\ prod'[a] = AfterFlush(a) /\ first'[a] = read[a] + 1 /\ bytes'[a] = 0
        /\ read'[a] = read[a] /\ link'[a] = link[a]
        /\ cons'[a] = cons[a] /\ result'[a] = result[a]
    BY <1>9, TypesAre DEF Send, Emptied
  <2>2. StaysWalk(a) /\ StaysPool(a) /\ StaysFolded(a)
    BY <1>9 DEF Send, walker, StaysWalk, StaysPool, StaysFolded
  <2>3. Chunk(a)' /\ Groups(a)'
    BY <1>2, <2>2, ChunkStays
  <2>4. /\ prod'[a] \in {"read", "join", "scope"}
        /\ prod'[a] = "join" => link[a] = "up"
        /\ prod'[a] = "scope" => link[a] # "up"
    BY <2>1 DEF AfterFlush
  <2>5. chan[a] = <<>> /\ chan'[a] # <<>> /\ Len(chan'[a]) = 1 /\ chan'[a][1] = Window(a)
    BY <1>1, <2>1
  <2>6. chan'[a][1].lo = first[a] /\ chan'[a][1].hi = read[a]
    BY <2>5 DEF Window
  <2>7. Ends(a)'
    BY <1>1, <1>2, <2>1, <2>4 DEF Ends
  <2>8. Channel(a)'
    BY <1>1, <1>2, <2>1, <2>5, <2>6 DEF Channel, Ends, ConsStates
  <2>9. Ahead(a)' = Ahead(a)
    BY <2>5, <2>6 DEF Ahead
  <2>10. Front(a)' = Front(a)
    BY <2>2, <2>9 DEF Front, StaysWalk, StaysPool
  <2>11. Walking(a)'
    BY <1>2, <2>1, <2>2, <2>4, <2>9 DEF Walking, StaysWalk
  <2>12. Order(a)' /\ Whole(a)'
    BY <1>1, <1>2, <1>3, <1>4, <2>1, <2>2, <2>10, NothingFolded DEF StaysPool
  <2>13. Limits(a)'
    BY <1>1, <2>1, LimitsAre DEF Limits, Full
  <2>14. QED
    BY <2>3, <2>7, <2>8, <2>11, <2>12, <2>13 DEF Here
<1>10. CASE SendFails(a)
  <2>1. /\ prod[a] = "flush" /\ link[a] = "up" /\ cons[a] = "dead"
        /\ first[a] <= read[a] /\ prod'[a] = "flush"
        /\ first'[a] = first[a] /\ bytes'[a] = 0
        /\ read'[a] = read[a] /\ link'[a] = "dropped"
        /\ chan'[a] = chan[a] /\ cons'[a] = cons[a] /\ result'[a] = result[a]
    BY <1>10, TypesAre DEF SendFails
  <2>2. StaysWalk(a) /\ StaysPool(a) /\ StaysFolded(a)
    BY <1>10 DEF SendFails, walker, StaysWalk, StaysPool, StaysFolded
  <2>3. Chunk(a)' /\ Groups(a)'
    BY <1>2, <2>2, ChunkStays
  <2>4. Ends(a)'
    BY <1>2, <2>1 DEF Ends
  <2>5. Channel(a)'
    BY <1>2, <2>1 DEF Channel
  <2>6. Ahead(a)' = Ahead(a) /\ Front(a)' = Front(a)
    BY <2>1, <2>2 DEF Ahead, Front, StaysWalk, StaysPool
  <2>7. Walking(a)'
    BY <1>2, <2>1, <2>2, <2>6 DEF Walking, StaysWalk
  <2>8. Order(a)' /\ Whole(a)'
    BY <1>1, <1>2, <1>3, <1>4, <2>1, <2>2, <2>6, NothingFolded DEF StaysPool
  <2>9. Limits(a)'
    <3>1. Sizes[a][read[a]] \in Nat
      BY <1>1, <1>2, <2>1 DEF Ends
    <3>2. bytes'[a] < BudgetBytes + Sizes[a][read'[a]]
      BY <2>1, <3>1, LimitsAre
    <3>0. read'[a] = read[a] /\ first'[a] = first[a]
      BY <2>1
    <3>a. read[a] + 1 - first[a] <= MaxCount
      BY <1>2 DEF Limits
    <3>3. read'[a] + 1 - first'[a] <= MaxCount
      BY <3>0, <3>a
    <3>4. QED
      BY <2>1, <3>2, <3>3, SMTT(30) DEF Limits
  <2>10. QED
    BY <2>3, <2>4, <2>5, <2>7, <2>8, <2>9 DEF Here
<1>11. CASE BeginInline(a)
  <2>1. /\ prod[a] = "flush" /\ link[a] # "up" /\ first[a] <= read[a]
        /\ prod'[a] = "walk" /\ batch'[a] = Window(a) /\ pos'[a] = Window(a).lo
        /\ walk'[a] \in {"decide", "serial"} /\ chunk'[a] = chunk[a]
        /\ StaysReader(a) /\ link'[a] = link[a]
        /\ chan'[a] = chan[a] /\ cons'[a] = cons[a] /\ result'[a] = result[a]
    BY <1>11, TypesAre DEF BeginInline, BeginWalk, StaysReader
  <2>2. StaysPool(a) /\ StaysFolded(a)
    BY <1>11 DEF BeginInline, BeginWalk, StaysPool, StaysFolded
  <2>3. cons[a] \in {"none", "dead"} /\ chan[a] = <<>> /\ walk[a] = "idle"
    BY <1>1, <1>2, <2>1 DEF Ends, Channel, Walking
  <2>4. Chunk(a)'
    BY <1>2, <2>1, <2>2, <2>3 DEF Chunk, StaysPool
  <2>5. Groups(a)'
    BY <1>2, <2>2, <2>3 DEF Groups, Chunk, StaysPool
  <2>6. Ends(a)'
    BY <1>2, <2>1 DEF Ends, StaysReader
  <2>7. Channel(a)'
    BY <2>1, <2>3 DEF Channel
  <2>8. Window(a).lo = first[a] /\ Window(a).hi = read[a] /\ Window(a)' = Window(a)
    BY <2>1 DEF Window, StaysReader
  <2>9. Front(a)' = Front(a)
    BY <2>1, <2>3, <2>8 DEF Ahead, Front
  <2>10. Walking(a)'
    <3>1. batch'[a] = Window(a)' /\ batch'[a].lo = first[a] /\ batch'[a].hi = read[a]
      BY <2>1, <2>8
    <3>2. QED
      BY <1>1, <1>2, <2>1, <2>3, <2>8, <3>1 DEF Walking, StaysReader, Ends
  <2>11. Order(a)' /\ Whole(a)'
    BY <1>1, <1>2, <1>3, <1>4, <2>1, <2>2, <2>9, NothingFolded DEF StaysPool, StaysReader
  <2>12. Limits(a)'
    BY <1>2, <2>1 DEF Limits, StaysReader
  <2>13. QED
    BY <2>4, <2>5, <2>6, <2>7, <2>10, <2>11, <2>12 DEF Here
<1>12. CASE Joined(a) \/ ScopeEnds(a)
  <2>1. /\ prod[a] \in {"join", "scope"} /\ prod'[a] = "ended"
        /\ cons[a] \in {"none", "returned", "dead"}
        /\ cons[a] = "dead" => result'[a] = "panic"
        /\ cons[a] # "dead" =>
             \/ result'[a] = result[a]
             \/ result[a] = "none" /\ result'[a] = "ok"
        /\ StaysReader(a) /\ link'[a] = link[a]
        /\ chan'[a] = chan[a] /\ cons'[a] = cons[a]
    <3>1. prod[a] = "join" => result[a] = "none"
      BY <1>2 DEF Ends
    <3>2. CASE Joined(a)
      BY <3>1, <3>2, TypesAre DEF Joined, StaysReader
    <3>3. CASE ScopeEnds(a)
      <4>1. result'[a] = IF cons[a] = "dead" THEN "panic"
                         ELSE IF result[a] = "none" THEN "ok" ELSE result[a]
        BY <3>3, TypesAre DEF ScopeEnds
      <4>2. /\ prod[a] = "scope" /\ prod'[a] = "ended"
            /\ cons[a] \in {"none", "returned", "dead"}
            /\ StaysReader(a) /\ link'[a] = link[a]
            /\ chan'[a] = chan[a] /\ cons'[a] = cons[a]
        BY <3>3, TypesAre DEF ScopeEnds, StaysReader
      <4>3. /\ cons[a] = "dead" => result'[a] = "panic"
            /\ cons[a] # "dead" =>
                 \/ result'[a] = result[a]
                 \/ result[a] = "none" /\ result'[a] = "ok"
        BY <4>1
      <4>4. QED
        BY <4>2, <4>3
    <3>4. QED
      BY <1>12, <3>2, <3>3
  <2>2. StaysWalk(a) /\ StaysPool(a) /\ StaysFolded(a)
    BY <1>12 DEF Joined, ScopeEnds, walker, StaysWalk, StaysPool, StaysFolded
  <2>3. Chunk(a)' /\ Groups(a)'
    BY <1>2, <2>2, ChunkStays
  <2>4. Ends(a)'
    BY <1>1, <1>2, <2>1 DEF Ends, StaysReader
  <2>5. Channel(a)'
    BY <1>2, <2>1 DEF Channel, StaysReader
  <2>6. Ahead(a)' = Ahead(a) /\ Front(a)' = Front(a)
    BY <2>1, <2>2 DEF Ahead, Front, StaysWalk, StaysPool, StaysReader
  <2>7. Walking(a)'
    BY <1>2, <2>1, <2>2, <2>6 DEF Walking, StaysWalk, StaysReader
  <2>8. Order(a)' /\ Whole(a)'
    BY <1>1, <1>2, <1>3, <1>4, <2>1, <2>2, <2>6, NothingFolded DEF StaysPool, StaysReader
  <2>9. Limits(a)'
    BY <1>2, <2>1 DEF Limits, StaysReader
  <2>10. QED
    BY <2>3, <2>4, <2>5, <2>7, <2>8, <2>9 DEF Here
<1>13. QED
  BY <1>5, <1>6, <1>7, <1>8, <1>9, <1>10, <1>11, <1>12 DEF ProducerStep

-----------------------------------------------------------------------------
(* The steps of a walk. *)

LEMMA MembersAssociate ==
  ASSUME NEW s \in Seq(Nat), NEW t \in Seq(Nat), NEW u \in Seq(Nat)
  PROVE  (s \o t) \o u = s \o (t \o u)
BY ConcatAssociative, SMTT(40)

\* Whoever walks has one accumulator in use.
LEMMA WalkerFacts ==
  ASSUME Types, NEW a \in Archives, Ends(a), Walking(a), walk[a] # "idle"
  PROVE  /\ result[a] # "panic"
         /\ prod[a] = "walk" => cons[a] \in {"none", "dead"} /\ link[a] # "up"
         /\ prod[a] # "walk" => cons[a] = "walk"
<1>1. cons[a] \in ConsStates /\ link[a] \in {"none", "up", "dropped"}
  BY TypesAt
<1>2. QED
  BY <1>1 DEF Ends, Walking

LEMMA FoldedBy ==
  ASSUME Types, NEW a \in Archives, Ends(a), Walking(a), Order(a), walk[a] # "idle",
         NEW s \in Seq(Nat), FoldIn(a, s)
  PROVE  /\ consAcc' \in [Archives -> Seq(Nat)] /\ ownAcc' \in [Archives -> Seq(Nat)]
         /\ \A b \in Archives : b # a => consAcc'[b] = consAcc[b] /\ ownAcc'[b] = ownAcc[b]
         /\ Folded(a)' = Folded(a) \o s
         /\ cons[a] \in {"recv", "walk", "returned"} => ownAcc'[a] = <<>>
<1>1. /\ consAcc \in [Archives -> Seq(Nat)] /\ ownAcc \in [Archives -> Seq(Nat)]
      /\ consAcc[a] \in Seq(Nat) /\ ownAcc[a] \in Seq(Nat)
  BY TypesAre
<1>2. consAcc[a] \o s \in Seq(Nat) /\ ownAcc[a] \o s \in Seq(Nat)
  BY <1>1, ConcatProperties
<1>3. CASE prod[a] = "walk"
  <2>1. ownAcc' = [ownAcc EXCEPT ![a] = ownAcc[a] \o s] /\ consAcc' = consAcc
    BY <1>3 DEF FoldIn, Inline
  <2>2. (consAcc[a] \o ownAcc[a]) \o s = consAcc[a] \o (ownAcc[a] \o s)
    BY <1>1, MembersAssociate
  <2>3. ownAcc'[a] = ownAcc[a] \o s /\ consAcc'[a] = consAcc[a]
    BY <1>1, <2>1
  <2>4. cons[a] \notin {"recv", "walk", "returned"}
    BY <1>3, WalkerFacts
  <2>5. /\ consAcc' \in [Archives -> Seq(Nat)] /\ ownAcc' \in [Archives -> Seq(Nat)]
        /\ \A b \in Archives : b # a => consAcc'[b] = consAcc[b] /\ ownAcc'[b] = ownAcc[b]
    BY <1>1, <1>2, <2>1
  <2>6. Folded(a)' = Folded(a) \o s
    BY <2>2, <2>3 DEF Folded
  <2>7. QED
    BY <2>4, <2>5, <2>6
<1>4. CASE prod[a] # "walk"
  <2>1. consAcc' = [consAcc EXCEPT ![a] = consAcc[a] \o s] /\ ownAcc' = ownAcc
    BY <1>4 DEF FoldIn, Inline
  <2>2. ownAcc[a] = <<>>
    BY <1>4, WalkerFacts DEF Order
  <2>3. (consAcc[a] \o s) \o <<>> = consAcc[a] \o s /\ consAcc[a] \o <<>> = consAcc[a]
    BY <1>1, <1>2, ConcatEmptySeq
  <2>4. consAcc'[a] = consAcc[a] \o s /\ ownAcc'[a] = <<>>
    BY <1>1, <2>1, <2>2
  <2>5. /\ consAcc' \in [Archives -> Seq(Nat)] /\ ownAcc' \in [Archives -> Seq(Nat)]
        /\ \A b \in Archives : b # a => consAcc'[b] = consAcc[b] /\ ownAcc'[b] = ownAcc[b]
    BY <1>1, <1>2, <2>1
  <2>6. Folded(a)' = Folded(a) \o s
    BY <2>2, <2>3, <2>4 DEF Folded
  <2>7. QED
    BY <2>4, <2>5, <2>6
<1>5. QED
  BY <1>3, <1>4

\* Members from the front on are folded in order, or give None.
LEMMA MoreFolded ==
  ASSUME Types, NEW a \in Archives, Order(a), Whole(a), Channel(a), result[a] # "panic",
         NEW s \in Seq(Nat), Ascends(s), Folded(a)' = Folded(a) \o s,
         cons'[a] = cons[a], result'[a] = result[a], read'[a] = read[a],
         cons[a] \in {"recv", "walk", "returned"} => ownAcc'[a] = <<>>,
         none[a] \subseteq none'[a], none'[a] \subseteq 1..read[a],
         \A i \in none'[a] : i \in none[a] \/ i >= Front(a),
         \A i \in none'[a] : i < Front(a)' \/ i \in running'[a] \cup pending'[a],
         \A i \in Entries(s) : i \in Nat /\ Front(a) <= i /\ i < Front(a)'
                              /\ i \in 1..read[a] /\ i \notin none'[a],
         Front(a)' \in Nat, Front(a) <= Front(a)',
         ~unwinding'[a] => ~unwinding[a] /\
            \A i \in Front(a)..Front(a)' - 1 : i \in none'[a] \/ i \in Entries(s)
  PROVE  Order(a)' /\ Whole(a)'
<1>1. Front(a) \in Nat
  BY FrontIs
<1>2. Folded(a) \in Seq(Nat)
  <2>1. consAcc[a] \in Seq(Nat) /\ ownAcc[a] \in Seq(Nat)
    BY TypesAre
  <2>2. QED
    BY <2>1, ConcatProperties DEF Folded
<1>3. /\ Ascends(Folded(a)) /\ none[a] \subseteq 1..read[a]
      /\ Entries(Folded(a)) \subseteq 1..read[a] \ none[a]
      /\ \A i \in Entries(Folded(a)) : i < Front(a)
  BY DEF Order
<1>4. \A i \in Entries(Folded(a)) : i \in Nat
  BY <1>3
<1>5. \A x \in Entries(Folded(a)), y \in Entries(s) : x < y
  BY <1>1, <1>3, <1>4
<1>6. /\ Ascends(Folded(a) \o s)
      /\ Entries(Folded(a) \o s) = Entries(Folded(a)) \cup Entries(s)
  BY <1>2, <1>3, <1>5, AscendsOn
<1>7. Ascends(Folded(a)') /\ Entries(Folded(a)') = Entries(Folded(a)) \cup Entries(s)
  BY <1>6
<1>8. \A i \in Entries(Folded(a)) : i \notin none'[a]
  BY <1>1, <1>3, <1>4
<1>9. \A i \in Entries(Folded(a)') : i < Front(a)'
  BY <1>1, <1>3, <1>4, <1>7
<1>10. Entries(Folded(a)') \subseteq 1..read'[a] \ none'[a]
  BY <1>3, <1>7, <1>8
<1>11. Order(a)'
  BY <1>7, <1>9, <1>10 DEF Order
<1>12. Whole(a)'
  <2> SUFFICES ASSUME cons'[a] # "dead", ~unwinding'[a], NEW i \in 1..Front(a)' - 1,
                      i \notin none'[a]
               PROVE  i \in Entries(Folded(a)')
    BY DEF Whole
  <2>1. CASE i < Front(a)
    <3>1. i \in 1..Front(a) - 1
      BY <1>1, <2>1
    <3>2. i \in Entries(Folded(a))
      BY <3>1 DEF Whole
    <3>3. QED
      BY <3>2, <1>7
  <2>2. CASE i >= Front(a)
    <3>1. i \in Front(a)..Front(a)' - 1
      BY <1>1, <2>2
    <3>2. i \in Entries(s)
      BY <3>1
    <3>3. QED
      BY <3>2, <1>7
  <2>3. QED
    BY <1>1, <2>1, <2>2
<1>13. QED
  BY <1>11, <1>12

LEMMA NoneFolded ==
  /\ <<>> \in Seq(Nat) /\ Ascends(<<>>) /\ Entries(<<>>) = {}
  /\ \A i \in Nat : <<i>> \in Seq(Nat) /\ Ascends(<<i>>) /\ Entries(<<i>>) = {i}
<1>1. <<>> \in Seq(Nat) /\ Len(<<>>) = 0
  BY EmptySeq
<1>2. Ascends(<<>>) /\ Entries(<<>>) = {}
  BY <1>1 DEF Ascends, Entries
<1>3. ASSUME NEW i \in Nat
      PROVE  <<i>> \in Seq(Nat) /\ Ascends(<<i>>) /\ Entries(<<i>>) = {i}
  <2>1. <<i>> \in Seq(Nat) /\ Len(<<i>>) = 1 /\ <<i>>[1] = i
    OBVIOUS
  <2> DEFINE s == <<i>>
  <2>2. s \in Seq(Nat) /\ Len(s) = 1 /\ s[1] = i
    BY <2>1
  <2> HIDE DEF s
  <2>3. \A k \in 1..Len(s) : k = 1
    BY <2>2
  <2>4. 1 \in 1..Len(s)
    BY <2>2
  <2>5. Entries(s) = {i}
    BY <2>2, <2>3, <2>4 DEF Entries
  <2>6. Ascends(s)
    BY <2>2, <2>3 DEF Ascends
  <2>7. QED
    BY <2>2, <2>5, <2>6 DEF s
<1>4. QED
  BY <1>1, <1>2, <1>3

LEMMA WalkReturnsFacts ==
  ASSUME Types, NEW a \in Archives, WalkReturns(a), UNCHANGED chan
  PROVE  /\ batch' = [batch EXCEPT ![a] = NoBatch] /\ walk' = [walk EXCEPT ![a] = "idle"]
         /\ read' = read /\ final' = final /\ link' = link /\ result' = result
         /\ batch' \in [Archives -> Interval] /\ walk' \in [Archives -> WalkStates]
         /\ first' \in [Archives -> Nat] /\ bytes' \in [Archives -> Nat]
         /\ prod' \in [Archives -> ProdStates] /\ cons' \in [Archives -> ConsStates]
         /\ \A b \in Archives : b # a => StaysReader(b) /\ StaysEnds(b)
         /\ prod[a] = "walk" =>
              /\ first'[a] = read[a] + 1 /\ bytes'[a] = 0 /\ cons'[a] = cons[a]
              /\ prod'[a] = AfterFlush(a)
         /\ prod[a] # "walk" =>
              /\ first'[a] = first[a] /\ bytes'[a] = bytes[a] /\ prod'[a] = prod[a]
              /\ cons'[a] = "recv"
<1>1. batch' \in [Archives -> Interval] /\ walk' \in [Archives -> WalkStates]
  <2>1. batch' = [batch EXCEPT ![a] = NoBatch] /\ walk' = [walk EXCEPT ![a] = "idle"]
    BY DEF WalkReturns
  <2>2. NoBatch \in Interval
    BY DEF NoBatch, Interval
  <2>3. QED
    BY <2>1, <2>2, TypesAre DEF WalkStates
<1>2. /\ batch' = [batch EXCEPT ![a] = NoBatch] /\ walk' = [walk EXCEPT ![a] = "idle"]
      /\ read' = read /\ final' = final /\ link' = link /\ result' = result
  BY DEF WalkReturns
<1>3. AfterFlush(a) \in ProdStates /\ read[a] + 1 \in Nat
  BY TypesAt DEF AfterFlush, ProdStates
<1>4. CASE prod[a] = "walk"
  <2>1. /\ first' = [first EXCEPT ![a] = read[a] + 1]
        /\ bytes' = [bytes EXCEPT ![a] = 0]
        /\ prod' = [prod EXCEPT ![a] = AfterFlush(a)] /\ cons' = cons
    BY <1>4 DEF WalkReturns, Inline, Emptied
  <2>2. QED
    BY <1>1, <1>2, <1>3, <1>4, <2>1, TypesAre DEF StaysReader, StaysEnds
<1>5. CASE prod[a] # "walk"
  <2>1. cons' = [cons EXCEPT ![a] = "recv"] /\ first' = first /\ bytes' = bytes /\ prod' = prod
    BY <1>5 DEF WalkReturns, Inline
  <2>2. QED
    BY <1>1, <1>2, <1>5, <2>1, TypesAre DEF StaysReader, StaysEnds, ConsStates
<1>6. QED
  BY <1>4, <1>5

LEMMA WalkUnwindsFacts ==
  ASSUME Types, NEW a \in Archives, WalkUnwinds(a)
  PROVE  /\ batch' = [batch EXCEPT ![a] = NoBatch] /\ walk' = [walk EXCEPT ![a] = "idle"]
         /\ read' = read /\ first' = first /\ bytes' = bytes /\ final' = final /\ link' = link
         /\ batch' \in [Archives -> Interval] /\ walk' \in [Archives -> WalkStates]
         /\ prod' \in [Archives -> ProdStates] /\ cons' \in [Archives -> ConsStates]
         /\ chan' \in [Archives -> Seq(Interval)]
         /\ result' \in [Archives -> {"none", "ok", "err", "panic"}]
         /\ \A b \in Archives : b # a => StaysReader(b) /\ StaysEnds(b) /\ chan'[b] = chan[b]
         /\ prod[a] = "walk" =>
              /\ prod'[a] = "scope" /\ result'[a] = "panic"
              /\ cons'[a] = cons[a] /\ chan'[a] = chan[a]
         /\ prod[a] # "walk" =>
              /\ prod'[a] = prod[a] /\ result'[a] = result[a]
              /\ cons'[a] = "dead" /\ chan'[a] = <<>>
<1>1. batch' \in [Archives -> Interval] /\ walk' \in [Archives -> WalkStates]
  <2>1. batch' = [batch EXCEPT ![a] = NoBatch] /\ walk' = [walk EXCEPT ![a] = "idle"]
    BY DEF WalkUnwinds
  <2>2. NoBatch \in Interval
    BY DEF NoBatch, Interval
  <2>3. QED
    BY <2>1, <2>2, TypesAre DEF WalkStates
<1>2. /\ batch' = [batch EXCEPT ![a] = NoBatch] /\ walk' = [walk EXCEPT ![a] = "idle"]
      /\ read' = read /\ first' = first /\ bytes' = bytes /\ final' = final /\ link' = link
  BY DEF WalkUnwinds
<1>3. CASE prod[a] = "walk"
  <2>1. /\ prod' = [prod EXCEPT ![a] = "scope"] /\ result' = [result EXCEPT ![a] = "panic"]
        /\ cons' = cons /\ chan' = chan
    BY <1>3 DEF WalkUnwinds, Inline
  <2>2. QED
    BY <1>1, <1>2, <1>3, <2>1, TypesAre DEF StaysReader, StaysEnds, ProdStates
<1>4. CASE prod[a] # "walk"
  <2>1. /\ cons' = [cons EXCEPT ![a] = "dead"] /\ chan' = [chan EXCEPT ![a] = <<>>]
        /\ prod' = prod /\ result' = result
    BY <1>4 DEF WalkUnwinds, Inline
  <2>2. <<>> \in Seq(Interval)
    BY EmptySeq
  <2>3. QED
    BY <1>1, <1>2, <1>4, <2>1, <2>2, TypesAre DEF StaysReader, StaysEnds, ConsStates
<1>5. QED
  BY <1>3, <1>4

LEMMA WalkTypes ==
  ASSUME Types, NEW a \in Archives, Here(a), WalkStep(a)
  PROVE  Types' /\ Elsewhere(a)
<1>1. ASSUME WalkUnwinds(a)
      PROVE  /\ batch' \in [Archives -> Interval] /\ walk' \in [Archives -> WalkStates]
             /\ read' \in [Archives -> Nat] /\ first' \in [Archives -> Nat]
             /\ bytes' \in [Archives -> Nat] /\ final' \in [Archives -> BOOLEAN]
             /\ link' \in [Archives -> {"none", "up", "dropped"}]
             /\ prod' \in [Archives -> ProdStates] /\ cons' \in [Archives -> ConsStates]
             /\ chan' \in [Archives -> Seq(Interval)]
             /\ result' \in [Archives -> {"none", "ok", "err", "panic"}]
  <2>1. /\ read' = read /\ first' = first /\ bytes' = bytes /\ final' = final /\ link' = link
        /\ batch' \in [Archives -> Interval] /\ walk' \in [Archives -> WalkStates]
        /\ prod' \in [Archives -> ProdStates] /\ cons' \in [Archives -> ConsStates]
        /\ chan' \in [Archives -> Seq(Interval)]
        /\ result' \in [Archives -> {"none", "ok", "err", "panic"}]
    BY <1>1, WalkUnwindsFacts
  <2>2. QED
    BY <2>1, TypesAre
<1>2. CASE Receive(a)
  <2>1. chan[a] \in Seq(Interval) /\ chan[a] # <<>>
    BY <1>2, TypesAt DEF Receive
  <2>2. Head(chan[a]) \in Interval /\ Tail(chan[a]) \in Seq(Interval)
    BY <2>1, HeadTailProperties
  <2>3. Head(chan[a]).lo \in Nat
    BY <2>2 DEF Interval
  <2>4. /\ batch' = [batch EXCEPT ![a] = Head(chan[a])]
        /\ pos' = [pos EXCEPT ![a] = Head(chan[a]).lo]
        /\ \E w \in WalkStates : walk' = [walk EXCEPT ![a] = w]
        /\ chan' = [chan EXCEPT ![a] = Tail(chan[a])]
        /\ cons' = [cons EXCEPT ![a] = "walk"]
    BY <1>2 DEF Receive, BeginWalk, WalkStates
  <2>5. /\ batch' \in [Archives -> Interval] /\ pos' \in [Archives -> Nat]
        /\ walk' \in [Archives -> WalkStates] /\ chan' \in [Archives -> Seq(Interval)]
        /\ cons' \in [Archives -> ConsStates]
    BY <2>2, <2>3, <2>4, TypesAre DEF ConsStates
  <2>6. Types'
    BY <1>2, <2>5, TypesAre DEF Types, Receive, BeginWalk, producer
  <2>7. Elsewhere(a)
    BY <1>2, <2>4, TypesAre
       DEF Elsewhere, Stays, StaysReader, StaysEnds, StaysWalk, StaysPool, StaysFolded,
           Receive, BeginWalk, producer
  <2>8. QED
    BY <2>6, <2>7
<1>3. CASE Return(a)
  BY <1>3, TypesAre
     DEF Types, Elsewhere, Stays, StaysReader, StaysEnds, StaysWalk, StaysPool, StaysFolded,
         Return, walker, producer, ConsStates
<1>4. CASE Upgrade(a) \/ EndPressured(a)
  <2>1. /\ walk' = [walk EXCEPT ![a] = "decide"]
        /\ UNCHANGED <<cancelled, panics, producer, chan, cons, batch, pos, chunk, running,
                       pending, next, unwinding, none, consAcc, ownAcc, result>>
    BY <1>4 DEF Upgrade, EndPressured
  <2>2. walk' \in [Archives -> WalkStates]
    BY <2>1, TypesAre DEF WalkStates
  <2>3. Types'
    BY <2>1, <2>2, TypesAre DEF Types, producer
  <2>4. Elsewhere(a)
    BY <2>1, TypesAre
       DEF Elsewhere, Stays, StaysReader, StaysEnds, StaysWalk, StaysPool, StaysFolded,
           producer
  <2>5. QED
    BY <2>3, <2>4
<1>5. CASE StepSerial(a)
  <2>1. walk[a] # "idle" /\ Ends(a) /\ Walking(a) /\ Order(a)
    BY <1>5 DEF StepSerial, Here
  <2>2. pos' = [pos EXCEPT ![a] = pos[a] + 1] /\ pos[a] \in Nat
    BY <1>5, TypesAt DEF StepSerial
  <2>3. <<pos[a]>> \in Seq(Nat)
    BY <2>2
  <2>4. /\ none' \in [Archives -> SUBSET Nat]
        /\ consAcc' \in [Archives -> Seq(Nat)] /\ ownAcc' \in [Archives -> Seq(Nat)]
        /\ \A b \in Archives : b # a => StaysFolded(b)
    <3>1. CASE cancelled
      <4>1. /\ none' = [none EXCEPT ![a] = none[a] \cup {pos[a]}]
            /\ consAcc' = consAcc /\ ownAcc' = ownAcc
        BY <1>5, <3>1 DEF StepSerial
      <4>2. QED
        BY <2>2, <4>1, TypesAre DEF StaysFolded
    <3>2. CASE ~cancelled
      <4>1. FoldIn(a, <<pos[a]>>) /\ none' = none
        BY <1>5, <3>2 DEF StepSerial
      <4>2. QED
        BY <2>1, <2>3, <4>1, FoldedBy, TypesAre DEF StaysFolded
    <3>3. QED
      BY <3>1, <3>2
  <2>5. pos' \in [Archives -> Nat]
    BY <2>2, TypesAre
  <2>6. Types'
    BY <1>5, <2>4, <2>5, TypesAre DEF Types, StepSerial, producer
  <2>7. Elsewhere(a)
    BY <1>5, <2>2, <2>4, TypesAre
       DEF Elsewhere, Stays, StaysReader, StaysEnds, StaysWalk, StaysPool,
           StepSerial, producer
  <2>8. QED
    BY <2>6, <2>7
<1>6. CASE StepSerialPanics(a)
  <2>1. WalkUnwinds(a) /\ panics' = panics + 1 /\ panics < MaxPanics
    BY <1>6 DEF StepSerialPanics
  <2>2. panics' \in 0..MaxPanics
    BY <2>1, LimitsAre DEF Types
  <2>4. Types'
    BY <1>1, <1>6, <2>1, <2>2, TypesAre DEF Types, StepSerialPanics
  <2>5. \A b \in Archives : b # a => batch'[b] = batch[b] /\ walk'[b] = walk[b]
    BY <2>1, WalkUnwindsFacts, TypesAre
  <2>6. Elsewhere(a)
    BY <1>6, <2>1, <2>5, WalkUnwindsFacts
       DEF Elsewhere, Stays, StaysWalk, StaysPool, StaysFolded, StepSerialPanics
  <2>7. QED
    BY <2>4, <2>6
<1>7. CASE Decide(a)
  <2>1. PICK pressured \in BOOLEAN :
         LET len == IF pressured THEN PressuredChunk ELSE MaxCount
             end == pos[a] + len - 1
             last == IF end < batch[a].hi THEN end ELSE batch[a].hi
         IN  /\ walk' = [walk EXCEPT ![a] = IF pressured THEN "pressured" ELSE "fan"]
             /\ chunk' = [chunk EXCEPT ![a] = last]
    BY <1>7 DEF Decide
  <2>2. pos[a] \in Nat /\ batch[a].hi \in Nat
    BY TypesAt
  <2>3. \A len \in Nat \ {0} : pos[a] + len - 1 \in Nat
    BY <2>2
  <2>4. \E last \in Nat : chunk' = [chunk EXCEPT ![a] = last]
    BY <2>1, <2>2, <2>3, LimitsAre
  <2>5. \E w \in WalkStates : walk' = [walk EXCEPT ![a] = w]
    BY <2>1 DEF WalkStates
  <2>6. next' = [next EXCEPT ![a] = pos[a]]
    BY <1>7 DEF Decide
  <2>7. /\ chunk' \in [Archives -> Nat] /\ walk' \in [Archives -> WalkStates]
        /\ next' \in [Archives -> Nat]
        /\ \A b \in Archives : b # a =>
             chunk'[b] = chunk[b] /\ walk'[b] = walk[b] /\ next'[b] = next[b]
    BY <2>2, <2>4, <2>5, <2>6, TypesAre
  <2>8. Types'
    BY <1>7, <2>7, TypesAre DEF Types, Decide, producer
  <2>9. Elsewhere(a)
    BY <1>7, <2>7
       DEF Elsewhere, Stays, StaysReader, StaysEnds, StaysWalk, StaysPool, StaysFolded,
           Decide, producer
  <2>10. QED
    BY <2>8, <2>9
<1>8. CASE EndWalk(a)
  <2>1. WalkReturns(a) /\ UNCHANGED chan
    BY <1>8 DEF EndWalk
  <2>2. /\ read' = read /\ final' = final /\ link' = link /\ result' = result
        /\ batch' \in [Archives -> Interval] /\ walk' \in [Archives -> WalkStates]
        /\ first' \in [Archives -> Nat] /\ bytes' \in [Archives -> Nat]
        /\ prod' \in [Archives -> ProdStates] /\ cons' \in [Archives -> ConsStates]
    BY <2>1, WalkReturnsFacts
  <2>3. Types'
    BY <1>8, <2>2, TypesAre DEF Types, EndWalk
  <2>4. \A b \in Archives : b # a => batch'[b] = batch[b] /\ walk'[b] = walk[b]
    BY <2>1, WalkReturnsFacts, TypesAre
  <2>5. Elsewhere(a)
    BY <1>8, <2>1, <2>4, WalkReturnsFacts
       DEF Elsewhere, Stays, StaysWalk, StaysPool, StaysFolded, EndWalk
  <2>6. QED
    BY <2>3, <2>5
<1>9. CASE EndChunk(a)
  <2>1. /\ walk' = [walk EXCEPT ![a] = "decide"]
        /\ pos' = [pos EXCEPT ![a] = chunk[a] + 1]
    BY <1>9 DEF EndChunk
  <2>2. chunk[a] + 1 \in Nat
    BY TypesAt
  <2>3. walk' \in [Archives -> WalkStates] /\ pos' \in [Archives -> Nat]
    BY <2>1, <2>2, TypesAre DEF WalkStates
  <2>4. Types'
    BY <1>9, <2>3, TypesAre DEF Types, EndChunk, producer
  <2>5. Elsewhere(a)
    BY <1>9, <2>1, TypesAre
       DEF Elsewhere, Stays, StaysReader, StaysEnds, StaysWalk, StaysPool, StaysFolded,
           EndChunk, producer
  <2>6. QED
    BY <2>4, <2>5
<1>10. CASE UnwindChunk(a)
  <2>1. /\ WalkUnwinds(a) /\ unwinding' = [unwinding EXCEPT ![a] = FALSE]
        /\ pending' = [pending EXCEPT ![a] = {}]
    BY <1>10 DEF UnwindChunk
  <2>3. unwinding' \in [Archives -> BOOLEAN] /\ pending' \in [Archives -> SUBSET Nat]
    BY <2>1, TypesAre
  <2>4. Types'
    BY <1>1, <1>10, <2>1, <2>3, TypesAre DEF Types, UnwindChunk
  <2>5. \A b \in Archives : b # a => /\ batch'[b] = batch[b] /\ walk'[b] = walk[b]
                                   /\ unwinding'[b] = unwinding[b] /\ pending'[b] = pending[b]
    BY <2>1, WalkUnwindsFacts, TypesAre
  <2>6. Elsewhere(a)
    BY <1>10, <2>1, <2>5, WalkUnwindsFacts
       DEF Elsewhere, Stays, StaysWalk, StaysPool, StaysFolded, UnwindChunk
  <2>7. QED
    BY <2>4, <2>6
<1>11. QED
  BY <1>2, <1>3, <1>4, <1>5, <1>6, <1>7, <1>8, <1>9, <1>10 DEF WalkStep

\* The front lies in the window that is walked.
LEMMA FrontOfWalk ==
  ASSUME Types, NEW a \in Archives, Here(a), walk[a] # "idle"
  PROVE  /\ Front(a) \in Nat /\ batch[a].lo <= Front(a) /\ Front(a) <= batch[a].hi + 1
         /\ prod[a] # "walk" => Front(a) <= first[a] /\ Ahead(a) <= first[a]
         /\ prod[a] = "walk" => chan[a] = <<>>
<1>1. Ends(a) /\ Channel(a) /\ Walking(a) /\ Chunk(a)
  BY DEF Here
<1>2. /\ pos[a] \in Nat /\ next[a] \in Nat /\ chunk[a] \in Nat /\ first[a] \in Nat
      /\ batch[a].lo \in Nat /\ batch[a].hi \in Nat /\ chan[a] \in Seq(Interval)
  BY TypesAt
<1>3. Front(a) \in Nat /\ Ahead(a) \in Nat
  BY <1>1, FrontIs
<1>4. /\ batch[a].lo <= pos[a] /\ pos[a] <= batch[a].hi + 1
      /\ cons[a] = "walk" => batch[a].hi + 1 = Ahead(a)
  BY <1>1 DEF Walking
<1>5. walk[a] = "fan" => /\ pos[a] <= next[a] /\ next[a] <= chunk[a] + 1
                        /\ chunk[a] <= batch[a].hi
  BY <1>1 DEF Chunk
<1>6. batch[a].lo <= Front(a) /\ Front(a) <= batch[a].hi + 1
  BY <1>2, <1>4, <1>5 DEF Front
<1>7. Ahead(a) <= first[a]
  <2>1. CASE chan[a] = <<>>
    BY <1>2, <2>1 DEF Ahead
  <2>2. CASE chan[a] # <<>>
    <3>1. chan[a][1] \in Interval
      BY <1>2, <2>2
    <3>2. /\ chan[a][1].lo \in Nat /\ chan[a][1].hi \in Nat
          /\ chan[a][1].lo <= chan[a][1].hi /\ chan[a][1].hi + 1 = first[a]
      BY <1>1, <2>2, <3>1 DEF Channel, Interval
    <3>3. Ahead(a) = chan[a][1].lo
      BY <2>2 DEF Ahead
    <3>4. QED
      BY <1>2, <3>2, <3>3
  <2>3. QED
    BY <2>1, <2>2
<1>8. prod[a] # "walk" => Front(a) <= first[a]
  <2> SUFFICES ASSUME prod[a] # "walk"
               PROVE  Front(a) <= first[a]
    OBVIOUS
  <2>1. cons[a] = "walk"
    BY <1>1, WalkerFacts
  <2>2. Front(a) <= Ahead(a)
    BY <1>4, <1>6, <2>1
  <2>3. QED
    BY <1>2, <1>3, <1>7, <2>2
<1>9. prod[a] = "walk" => chan[a] = <<>>
  BY <1>1, WalkerFacts DEF Channel
<1>10. QED
  BY <1>3, <1>6, <1>7, <1>8, <1>9

LEMMA UnwindHere ==
  ASSUME Types, NEW a \in Archives, Here(a), Types', walk[a] # "idle", WalkUnwinds(a),
         StaysFolded(a), pos'[a] = pos[a], chunk'[a] = chunk[a],
         running[a] = {}, running'[a] = {}, pending'[a] = {}, ~unwinding'[a]
  PROVE  Here(a)'
<1>1. /\ Ends(a) /\ Channel(a) /\ Walking(a) /\ Chunk(a) /\ Groups(a)
      /\ Order(a) /\ Whole(a) /\ Limits(a)
  BY DEF Here
<1>2. /\ batch'[a] = NoBatch /\ walk'[a] = "idle"
      /\ read'[a] = read[a] /\ first'[a] = first[a] /\ bytes'[a] = bytes[a]
      /\ link'[a] = link[a]
  BY WalkUnwindsFacts, TypesAre
<1>3. \/ /\ prod[a] = "walk" /\ cons[a] \in {"none", "dead"}
         /\ prod'[a] = "scope" /\ result'[a] = "panic"
         /\ cons'[a] = cons[a] /\ chan'[a] = chan[a]
      \/ /\ prod[a] # "walk" /\ cons[a] = "walk"
         /\ prod'[a] = prod[a] /\ result'[a] = result[a] /\ result[a] # "panic"
         /\ cons'[a] = "dead" /\ chan'[a] = <<>>
  BY <1>1, WalkUnwindsFacts, WalkerFacts
<1>4. prod[a] = "walk" => chan[a] = <<>>
  BY FrontOfWalk
<1>5. chan'[a] = <<>>
  BY <1>3, <1>4
<1>6. Ends(a)'
  BY <1>1, <1>2, <1>3 DEF Ends
<1>7. Channel(a)'
  <2>1. Len(<<>>) = 0
    BY EmptySeq
  <2>2. QED
    BY <1>5, <2>1 DEF Channel
<1>8. Walking(a)'
  BY <1>1, <1>2, <1>3 DEF Walking
<1>9. Chunk(a)' /\ Groups(a)'
  BY <1>2 DEF Chunk, Groups
<1>10. Front(a)' = first[a]
  BY <1>2, <1>5 DEF Front, Ahead
<1>11. read[a] \in Nat /\ first[a] \in Nat /\ none[a] \subseteq Nat
  BY TypesAt
<1>12. Front(a) \in Nat /\ (prod[a] # "walk" => Front(a) <= first[a])
  BY FrontOfWalk
<1>13. Order(a)' /\ Whole(a)'
  <2>1. read'[a] \in Nat /\ read[a] <= read'[a] /\ Front(a)' \in Nat
    BY <1>2, <1>10, <1>11
  <2>2. /\ cons'[a] \in {"none", "dead"}
        /\ result[a] = "panic" => result'[a] = "panic"
        /\ result'[a] # "panic" => Front(a) <= Front(a)'
        /\ cons'[a] = "dead" \/ result'[a] = "panic"
    BY <1>3, <1>10, <1>12
  <2>3. result'[a] # "panic" => \A i \in pending[a] : i < Front(a)'
    <3> SUFFICES ASSUME result'[a] # "panic", NEW i \in pending[a]
                 PROVE  i < Front(a)'
      OBVIOUS
    <3>1. cons[a] = "walk"
      BY <1>3
    <3>2. i \in Nat /\ i <= chunk[a] /\ chunk[a] <= batch[a].hi
      BY <1>1, TypesAt DEF Chunk
    <3>3. batch[a].hi + 1 = Ahead(a) /\ Ahead(a) <= first[a]
      BY <1>1, <1>3, <3>1, FrontOfWalk DEF Walking
    <3>4. QED
      BY <1>10, <1>11, <3>2, <3>3, TypesAt
  <2>4. QED
    BY <1>1, <1>11, <1>12, <2>1, <2>2, <2>3, NothingFolded
<1>14. Limits(a)'
  BY <1>1, <1>2, <1>3 DEF Limits
<1>15. QED
  BY <1>6, <1>7, <1>8, <1>9, <1>13, <1>14 DEF Here

LEMMA WalkHere ==
  ASSUME Types, NEW a \in Archives, Here(a), WalkStep(a), Types'
  PROVE  Here(a)'
<1>1. /\ Ends(a) /\ Channel(a) /\ Walking(a) /\ Chunk(a) /\ Groups(a)
      /\ Order(a) /\ Whole(a) /\ Limits(a)
  BY DEF Here
<1>2. /\ read[a] \in Nat /\ first[a] \in Nat /\ pos[a] \in Nat /\ chunk[a] \in Nat
      /\ next[a] \in Nat /\ batch[a].lo \in Nat /\ batch[a].hi \in Nat
      /\ none[a] \subseteq Nat /\ chan[a] \in Seq(Interval) /\ final[a] \in BOOLEAN
      /\ walk[a] \in WalkStates /\ link[a] \in {"none", "up", "dropped"}
  BY TypesAt
<1>3. Front(a) \in Nat /\ Front(a)' \in Nat /\ Ahead(a) \in Nat
  <2>1. Front(a) \in Nat /\ Ahead(a) \in Nat
    BY <1>1, FrontIs
  <2>2. /\ first'[a] \in Nat /\ pos'[a] \in Nat /\ next'[a] \in Nat
        /\ chan'[a] \in Seq(Interval)
    BY DEF Types
  <2>3. chan'[a] # <<>> => chan'[a][1] \in Interval
    BY <2>2
  <2>4. chan'[a] # <<>> => chan'[a][1].lo \in Nat
    BY <2>3 DEF Interval
  <2>5. QED
    BY <2>1, <2>2, <2>4 DEF Front, Ahead
<1>4. CASE Receive(a)
  <2>1. /\ cons[a] = "recv" /\ chan[a] # <<>>
        /\ batch'[a] = Head(chan[a]) /\ pos'[a] = Head(chan[a]).lo
        /\ walk'[a] \in {"decide", "serial"} /\ chunk'[a] = chunk[a]
        /\ chan'[a] = Tail(chan[a]) /\ cons'[a] = "walk"
        /\ StaysReader(a) /\ prod'[a] = prod[a] /\ link'[a] = link[a] /\ result'[a] = result[a]
    BY <1>4, TypesAre DEF Receive, BeginWalk, producer, StaysReader
  <2>2. StaysPool(a) /\ StaysFolded(a)
    BY <1>4 DEF Receive, BeginWalk, StaysPool, StaysFolded
  <2>3. prod[a] # "walk" /\ walk[a] = "idle"
    BY <1>1, <1>2, <2>1 DEF Ends, Walking
  <2>4. /\ Head(chan[a]) = chan[a][1] /\ chan'[a] = <<>>
        /\ chan[a][1] \in Interval
    BY <1>1, <1>2, <2>1 DEF Channel
  <2>5. /\ chan[a][1].lo \in Nat /\ chan[a][1].hi \in Nat /\ chan[a][1].lo >= 1
        /\ chan[a][1].lo <= chan[a][1].hi /\ chan[a][1].hi + 1 = first[a]
    BY <1>1, <2>1, <2>4 DEF Channel, Interval
  <2>6. Ahead(a) = chan[a][1].lo /\ Ahead(a)' = first[a]
    BY <2>1, <2>4 DEF Ahead, StaysReader
  <2>7. Front(a)' = Front(a)
    BY <2>1, <2>3, <2>4, <2>6 DEF Front
  <2>8. Ends(a)'
    BY <1>1, <2>1, <2>3 DEF Ends, StaysReader
  <2>9. Channel(a)'
    <3>1. Len(<<>>) = 0
      BY EmptySeq
    <3>2. QED
      BY <2>4, <3>1 DEF Channel
  <2>10. Walking(a)'
    <3>1. batch'[a].lo = chan[a][1].lo /\ batch'[a].hi = chan[a][1].hi /\ pos'[a] = chan[a][1].lo
      BY <2>1, <2>4
    <3>2. chan[a][1].hi <= read[a] /\ read'[a] = read[a]
      BY <1>1, <1>2, <2>1, <2>5 DEF Ends, StaysReader
    <3>a. read[a] \in Nat
      BY <1>2
    <3>b. /\ batch'[a].lo >= 1 /\ batch'[a].lo <= pos'[a]
          /\ batch'[a].hi <= read'[a] /\ batch'[a].hi + 1 = Ahead(a)'
      BY <2>5, <2>6, <3>1, <3>2
    <3>3. /\ batch'[a].lo >= 1 /\ batch'[a].lo <= pos'[a] /\ pos'[a] <= batch'[a].hi + 1
          /\ batch'[a].hi <= read'[a] /\ pos'[a] <= read'[a] + 1
          /\ batch'[a].hi + 1 = Ahead(a)'
      BY <2>5, <3>a, <3>b, <3>1, <3>2
    <3>4. chunk'[a] <= read'[a]
      BY <1>1, <2>1, <3>2 DEF Walking
    <3>5. walk'[a] # "idle" /\ walk'[a] # "pressured" /\ prod'[a] # "walk" /\ cons'[a] = "walk"
      BY <2>1, <2>3
    <3>6. QED
      BY <3>3, <3>4, <3>5 DEF Walking
  <2>11. Chunk(a)'
    BY <1>1, <2>1, <2>2, <2>3 DEF Chunk, StaysPool
  <2>12. Groups(a)'
    BY <1>1, <2>2, <2>3 DEF Groups, Chunk, StaysPool
  <2>13. Order(a)' /\ Whole(a)'
    <3>1. read'[a] = read[a] /\ none'[a] = none[a]
      BY <2>1, <2>2 DEF StaysReader, StaysFolded
    <3>2. QED
      BY <1>1, <1>2, <1>3, <2>1, <2>2, <2>7, <3>1, NothingFolded DEF StaysPool
  <2>14. Limits(a)'
    BY <1>1, <2>1 DEF Limits, StaysReader
  <2>15. QED
    BY <2>8, <2>9, <2>10, <2>11, <2>12, <2>13, <2>14 DEF Here
<1>5. CASE Return(a)
  <2>1. /\ cons[a] = "recv" /\ cons'[a] = "returned" /\ chan[a] = <<>>
        /\ prod[a] \in {"join", "scope", "ended"}
        /\ StaysReader(a) /\ prod'[a] = prod[a] /\ link'[a] = link[a]
        /\ result'[a] = result[a] /\ chan'[a] = chan[a]
    BY <1>5, TypesAre DEF Return, SenderGone, producer, StaysReader
  <2>2. StaysWalk(a) /\ StaysPool(a) /\ StaysFolded(a)
    BY <1>5 DEF Return, walker, StaysWalk, StaysPool, StaysFolded
  <2>3. Chunk(a)' /\ Groups(a)'
    BY <1>1, <2>2, ChunkStays
  <2>4. Ends(a)'
    BY <1>1, <2>1 DEF Ends, StaysReader
  <2>5. Channel(a)'
    BY <1>1, <2>1 DEF Channel
  <2>6. Ahead(a)' = Ahead(a) /\ Front(a)' = Front(a)
    BY <2>1, <2>2 DEF Ahead, Front, StaysReader, StaysWalk, StaysPool
  <2>7. Walking(a)'
    BY <1>1, <2>1, <2>2, <2>6 DEF Walking, StaysWalk, StaysReader
  <2>8. Order(a)' /\ Whole(a)'
    BY <1>1, <1>2, <1>3, <2>1, <2>2, <2>6, NothingFolded DEF StaysPool, StaysReader
  <2>9. Limits(a)'
    BY <1>1, <2>1 DEF Limits, StaysReader
  <2>10. QED
    BY <2>3, <2>4, <2>5, <2>7, <2>8, <2>9 DEF Here
<1>6. CASE Upgrade(a) \/ EndPressured(a)
  <2>1. /\ walk[a] \in {"serial", "pressured"} /\ walk'[a] = "decide"
        /\ batch'[a] = batch[a] /\ pos'[a] = pos[a] /\ chunk'[a] = chunk[a]
        /\ chan'[a] = chan[a]
    BY <1>6, TypesAre DEF Upgrade, EndPressured
  <2>2. StaysReader(a) /\ StaysEnds(a) /\ StaysPool(a) /\ StaysFolded(a)
    BY <1>6 DEF Upgrade, EndPressured, producer, StaysReader, StaysEnds, StaysPool, StaysFolded
  <2>3. Ends(a)'
    BY <1>1, <2>2 DEF Ends, StaysReader, StaysEnds
  <2>4. Channel(a)'
    BY <1>1, <2>1, <2>2 DEF Channel, StaysReader, StaysEnds
  <2>5. Ahead(a)' = Ahead(a)
    BY <2>1, <2>2 DEF Ahead, StaysReader
  <2>6. Front(a)' = Front(a)
    BY <2>1 DEF Front
  <2>7. Walking(a)'
    BY <1>1, <2>1, <2>2, <2>5 DEF Walking, Window, StaysReader, StaysEnds
  <2>8. Chunk(a)'
    BY <1>1, <2>1, <2>2 DEF Chunk, StaysPool
  <2>9. Groups(a)'
    BY <1>1, <2>1, <2>2, PoolStays
  <2>10. Order(a)' /\ Whole(a)'
    BY <1>1, <1>2, <1>3, <2>2, <2>6, NothingFolded DEF StaysPool, StaysReader, StaysEnds
  <2>11. Limits(a)'
    BY <1>1, <2>2 DEF Limits, StaysReader, StaysEnds
  <2>12. QED
    BY <2>3, <2>4, <2>7, <2>8, <2>9, <2>10, <2>11 DEF Here
<1>7. CASE StepSerial(a)
  <2>1. /\ walk[a] \in {"serial", "pressured"} /\ walk'[a] = walk[a]
        /\ walk[a] = "serial" => pos[a] <= batch[a].hi
        /\ walk[a] = "pressured" => pos[a] <= chunk[a]
        /\ batch'[a] = batch[a] /\ pos'[a] = pos[a] + 1 /\ chunk'[a] = chunk[a]
        /\ chan'[a] = chan[a]
    BY <1>7, TypesAre DEF StepSerial
  <2>2. StaysReader(a) /\ StaysEnds(a) /\ StaysPool(a)
    BY <1>7 DEF StepSerial, producer, StaysReader, StaysEnds, StaysPool
  <2>3. /\ pos[a] <= batch[a].hi /\ batch[a].lo >= 1 /\ batch[a].lo <= pos[a]
        /\ batch[a].hi <= read[a]
    BY <1>1, <1>2, <2>1 DEF Walking
  <2>4. pos[a] \in 1..read[a]
    BY <1>2, <2>3
  <2>5. Ends(a)'
    BY <1>1, <2>2 DEF Ends, StaysReader, StaysEnds
  <2>6. Channel(a)'
    BY <1>1, <2>1, <2>2 DEF Channel, StaysReader, StaysEnds
  <2>7. Ahead(a)' = Ahead(a)
    BY <2>1, <2>2 DEF Ahead, StaysReader
  <2>8. Front(a) = pos[a] /\ Front(a)' = pos[a] + 1
    BY <2>1 DEF Front
  <2>9. Walking(a)'
    <3>1. /\ batch[a].lo <= pos[a] + 1 /\ pos[a] + 1 <= batch[a].hi + 1
          /\ pos[a] + 1 <= read[a] + 1
          /\ walk[a] = "pressured" => pos[a] + 1 <= chunk[a] + 1
      BY <1>2, <2>1, <2>3
    <3>2. QED
      BY <1>1, <2>1, <2>2, <2>7, <3>1 DEF Walking, Window, StaysReader, StaysEnds
  <2>10. Chunk(a)'
    BY <1>1, <2>1, <2>2 DEF Chunk, StaysPool
  <2>11. Groups(a)'
    BY <1>1, <2>1, <2>2 DEF Chunk, Groups, StaysPool
  <2>12. Limits(a)'
    BY <1>1, <2>2 DEF Limits, StaysReader, StaysEnds
  <2>13. Order(a)' /\ Whole(a)'
    <3>1. /\ result[a] # "panic" /\ cons'[a] = cons[a] /\ result'[a] = result[a]
          /\ read'[a] = read[a] /\ unwinding'[a] = unwinding[a]
      BY <1>1, <2>1, <2>2, WalkerFacts DEF StaysReader, StaysEnds, StaysPool
    <3>2. Front(a) <= Front(a)' /\ \A i \in Front(a)..Front(a)' - 1 : i = pos[a]
      BY <1>2, <2>8
    <3>3. none[a] \subseteq 1..read[a]
      BY <1>1 DEF Order
    <3>4. CASE cancelled
      <4>1. none'[a] = none[a] \cup {pos[a]} /\ consAcc'[a] = consAcc[a] /\ ownAcc'[a] = ownAcc[a]
        BY <1>7, <3>4, TypesAre DEF StepSerial
      <4>2. Folded(a)' = Folded(a) /\ Folded(a) \in Seq(Nat)
        BY <4>1, TypesAt, ConcatProperties DEF Folded
      <4>3. Folded(a)' = Folded(a) \o <<>>
        BY <4>2, ConcatEmptySeq
      <4>4. cons[a] \in {"recv", "walk", "returned"} => ownAcc'[a] = <<>>
        BY <1>1, <4>1 DEF Order
      <4>5. \A i \in none'[a] : i \in none[a] \/ i >= Front(a)
        BY <1>2, <2>8, <4>1
      <4>6. none[a] \subseteq none'[a] /\ none'[a] \subseteq 1..read[a]
        BY <2>4, <3>3, <4>1
      <4>7. \A i \in Front(a)..Front(a)' - 1 : i \in none'[a]
        BY <3>2, <4>1
      <4>8. \A i \in none'[a] : i < Front(a)' \/ i \in running'[a] \cup pending'[a]
        BY <1>1, <1>2, <2>2, <2>8, <3>1, <4>1 DEF Order, StaysPool
      <4>9. QED
        BY <1>1, <1>3, <3>1, <3>2, <4>3, <4>4, <4>5, <4>6, <4>7, <4>8, NoneFolded, MoreFolded
    <3>5. CASE ~cancelled
      <4>1. FoldIn(a, <<pos[a]>>) /\ none' = none
        BY <1>7, <3>5 DEF StepSerial
      <4>2. /\ <<pos[a]>> \in Seq(Nat) /\ Ascends(<<pos[a]>>) /\ Entries(<<pos[a]>>) = {pos[a]}
        BY <1>2, NoneFolded
      <4>3. /\ Folded(a)' = Folded(a) \o <<pos[a]>>
            /\ cons[a] \in {"recv", "walk", "returned"} => ownAcc'[a] = <<>>
        <5>1. walk[a] # "idle"
          BY <2>1
        <5>2. QED
          BY <1>1, <4>1, <4>2, <5>1, FoldedBy
      <4>4. none'[a] = none[a] /\ pos[a] \notin none[a]
        <5>1. running[a] = {} /\ pending[a] = {}
          BY <1>1, <2>1 DEF Chunk
        <5>2. \A i \in none[a] : i < pos[a]
          BY <1>1, <2>8, <3>1, <5>1 DEF Order
        <5>3. QED
          BY <1>2, <4>1, <5>2
      <4>5. \A i \in none'[a] : i < Front(a)' \/ i \in running'[a] \cup pending'[a]
        BY <1>1, <1>2, <2>2, <2>8, <3>1, <4>4 DEF Order, StaysPool
      <4>6. \A i \in Entries(<<pos[a]>>) :
              /\ i \in Nat /\ Front(a) <= i /\ i < Front(a)'
              /\ i \in 1..read[a] /\ i \notin none'[a]
        BY <1>2, <2>4, <2>8, <4>2, <4>4
      <4>7. \A i \in Front(a)..Front(a)' - 1 : i \in Entries(<<pos[a]>>)
        BY <3>2, <4>2
      <4>8. QED
        BY <1>1, <1>3, <3>1, <3>2, <3>3, <4>2, <4>3, <4>4, <4>5, <4>6, <4>7, MoreFolded
    <3>6. QED
      BY <3>4, <3>5
  <2>14. QED
    BY <2>5, <2>6, <2>9, <2>10, <2>11, <2>12, <2>13 DEF Here

<1>8. CASE StepSerialPanics(a)
  <2>1. /\ walk[a] \in {"serial", "pressured"} /\ WalkUnwinds(a)
        /\ pos'[a] = pos[a] /\ chunk'[a] = chunk[a]
        /\ running'[a] = running[a] /\ pending'[a] = pending[a]
        /\ unwinding'[a] = unwinding[a]
    BY <1>8 DEF StepSerialPanics
  <2>2. StaysFolded(a)
    BY <1>8 DEF StepSerialPanics, StaysFolded
  <2>3. running[a] = {} /\ running'[a] = {} /\ pending'[a] = {} /\ ~unwinding'[a]
    BY <1>1, <2>1 DEF Chunk
  <2>4. walk[a] # "idle"
    BY <2>1
  <2>5. QED
    BY <2>1, <2>2, <2>3, <2>4, UnwindHere
<1>9. CASE Decide(a)
  <2>1. PICK pressured \in BOOLEAN :
         LET len == IF pressured THEN PressuredChunk ELSE MaxCount
             end == pos[a] + len - 1
             last == IF end < batch[a].hi THEN end ELSE batch[a].hi
         IN  /\ walk' = [walk EXCEPT ![a] = IF pressured THEN "pressured" ELSE "fan"]
             /\ chunk' = [chunk EXCEPT ![a] = last]
    BY <1>9 DEF Decide
  <2>2. \A len \in Nat \ {0} : pos[a] + len - 1 \in Nat /\ pos[a] <= pos[a] + len - 1
    BY <1>2
  <2>3. /\ walk[a] = "decide" /\ pos[a] <= batch[a].hi
        /\ batch'[a] = batch[a] /\ pos'[a] = pos[a] /\ next'[a] = pos[a]
        /\ running'[a] = running[a] /\ pending'[a] = pending[a]
        /\ unwinding'[a] = unwinding[a] /\ chan'[a] = chan[a]
    BY <1>9, TypesAre DEF Decide
  <2>4. walk'[a] \in {"pressured", "fan"}
    BY <2>1, TypesAre
  <2>5. PICK len \in Nat \ {0} :
          chunk'[a] = IF pos[a] + len - 1 < batch[a].hi THEN pos[a] + len - 1 ELSE batch[a].hi
    BY <2>1, LimitsAre, TypesAre
  <2>6. pos[a] <= chunk'[a] /\ chunk'[a] <= batch[a].hi /\ chunk'[a] \in Nat
    BY <1>2, <2>2, <2>3, <2>5
  <2>7. StaysReader(a) /\ StaysEnds(a) /\ StaysFolded(a)
    BY <1>9 DEF Decide, producer, StaysReader, StaysEnds, StaysFolded
  <2>8. Ends(a)'
    BY <1>1, <2>7 DEF Ends, StaysReader, StaysEnds
  <2>9. Channel(a)'
    BY <1>1, <2>3, <2>7 DEF Channel, StaysReader, StaysEnds
  <2>10. Ahead(a)' = Ahead(a)
    BY <2>3, <2>7 DEF Ahead, StaysReader
  <2>11. Front(a)' = Front(a)
    BY <2>3, <2>4 DEF Front
  <2>12. Walking(a)'
    <3>1. batch[a].hi <= read[a]
      BY <1>1, <2>3 DEF Walking
    <3>2. chunk'[a] <= read[a] /\ pos[a] <= chunk'[a] + 1
      BY <1>2, <2>6, <3>1
    <3>3. QED
      BY <1>1, <2>3, <2>4, <2>6, <2>7, <2>10, <3>2 DEF Walking, Window, StaysReader, StaysEnds
  <2>13. Chunk(a)'
    <3>1. pos[a] <= chunk'[a] + 1
      BY <1>2, <2>6
    <3>2. QED
      BY <1>1, <1>2, <2>3, <2>4, <2>6, <3>1 DEF Chunk
  <2>14. Groups(a)'
    BY <1>1, <2>3 DEF Groups, Chunk
  <2>15. Order(a)' /\ Whole(a)'
    BY <1>1, <1>2, <1>3, <2>3, <2>7, <2>11, NothingFolded DEF StaysReader, StaysEnds
  <2>16. Limits(a)'
    BY <1>1, <2>7 DEF Limits, StaysReader, StaysEnds
  <2>17. QED
    BY <2>8, <2>9, <2>12, <2>13, <2>14, <2>15, <2>16 DEF Here
<1>10. CASE EndWalk(a)
  <2>1. /\ walk[a] \in {"serial", "decide"} /\ pos[a] > batch[a].hi
        /\ WalkReturns(a) /\ UNCHANGED chan /\ pos'[a] = pos[a] /\ chunk'[a] = chunk[a]
    BY <1>10 DEF EndWalk
  <2>2. StaysPool(a) /\ StaysFolded(a)
    BY <1>10 DEF EndWalk, StaysPool, StaysFolded
  <2>3. /\ batch'[a] = NoBatch /\ walk'[a] = "idle" /\ read'[a] = read[a]
        /\ link'[a] = link[a] /\ result'[a] = result[a] /\ chan'[a] = chan[a]
    BY <2>1, WalkReturnsFacts, TypesAre
  <2>4. \/ /\ prod[a] = "walk" /\ cons[a] \in {"none", "dead"} /\ link[a] # "up"
           /\ first'[a] = read[a] + 1 /\ bytes'[a] = 0 /\ cons'[a] = cons[a]
           /\ prod'[a] = AfterFlush(a)
        \/ /\ prod[a] # "walk" /\ cons[a] = "walk"
           /\ first'[a] = first[a] /\ bytes'[a] = bytes[a] /\ prod'[a] = prod[a]
           /\ cons'[a] = "recv"
    BY <1>1, <2>1, WalkReturnsFacts, WalkerFacts
  <2>5. pos[a] = batch[a].hi + 1
    BY <1>1, <1>2, <2>1 DEF Walking
  <2>6. prod[a] = "walk" => chan[a] = <<>> /\ batch[a].hi = read[a]
    BY <1>1, <2>1, FrontOfWalk DEF Walking, Window
  <2>7. Front(a) = pos[a]
    BY <2>1 DEF Front
  <2>8. Front(a)' = Front(a)
    <3>1. Front(a)' = Ahead(a)'
      BY <2>3 DEF Front
    <3>2. CASE prod[a] = "walk"
      BY <2>3, <2>4, <2>5, <2>6, <2>7, <3>1, <3>2 DEF Ahead
    <3>3. CASE prod[a] # "walk"
      <4>1. Ahead(a)' = Ahead(a) /\ cons[a] = "walk"
        BY <2>3, <2>4, <3>3 DEF Ahead
      <4>2. QED
        BY <1>1, <2>5, <2>7, <3>1, <4>1 DEF Walking
    <3>4. QED
      BY <3>2, <3>3
  <2>9. prod[a] = "walk" => prod'[a] \in {"read", "scope"}
    BY <2>4 DEF AfterFlush
  <2>10. Ends(a)'
    <3>1. CASE prod[a] = "walk"
      BY <1>1, <1>2, <2>3, <2>4, <2>9, <3>1 DEF Ends
    <3>2. CASE prod[a] # "walk"
      BY <1>1, <2>3, <2>4, <3>2 DEF Ends
    <3>3. QED
      BY <3>1, <3>2
  <2>11. Channel(a)'
    <3>1. CASE prod[a] = "walk"
      <4>1. Len(<<>>) = 0
        BY EmptySeq
      <4>2. QED
        BY <2>3, <2>6, <3>1, <4>1 DEF Channel
    <3>2. CASE prod[a] # "walk"
      BY <1>1, <2>3, <2>4, <3>2 DEF Channel
    <3>3. QED
      BY <3>1, <3>2
  <2>12. Walking(a)'
    <3>1. prod'[a] # "walk" /\ cons'[a] # "walk"
      BY <2>4, <2>9
    <3>2. QED
      BY <1>1, <2>1, <2>3, <3>1 DEF Walking
  <2>13. Chunk(a)'
    BY <1>1, <2>1, <2>2, <2>3 DEF Chunk, StaysPool
  <2>14. Groups(a)'
    BY <1>1, <2>1, <2>2, PoolStays
  <2>15. Order(a)' /\ Whole(a)'
    <3>1. /\ read[a] <= read'[a] /\ read'[a] \in Nat /\ Front(a) <= Front(a)'
          /\ unwinding'[a] = unwinding[a]
          /\ running'[a] = running[a] /\ pending'[a] = pending[a]
      BY <1>2, <1>3, <2>2, <2>3, <2>8 DEF StaysPool
    <3>2. /\ cons'[a] \in {"recv", "walk", "returned"} => cons[a] \in {"recv", "walk", "returned"}
          /\ cons'[a] # "dead" => cons[a] # "dead"
      BY <2>4
    <3>3. QED
      BY <1>1, <1>2, <1>3, <2>2, <2>3, <2>8, <3>1, <3>2, NothingFolded
  <2>16. Limits(a)'
    <3>1. CASE prod[a] = "walk"
      BY <1>2, <2>3, <2>4, <3>1, LimitsAre DEF Limits, Full
    <3>2. CASE prod[a] # "walk"
      BY <1>1, <2>3, <2>4, <3>2 DEF Limits
    <3>3. QED
      BY <3>1, <3>2
  <2>17. QED
    BY <2>10, <2>11, <2>12, <2>13, <2>14, <2>15, <2>16 DEF Here
<1>11. CASE EndChunk(a)
  <2>1. /\ walk[a] = "fan" /\ ~unwinding[a] /\ running[a] = {} /\ Open(a) = {}
        /\ walk'[a] = "decide" /\ pos'[a] = chunk[a] + 1
        /\ batch'[a] = batch[a] /\ chunk'[a] = chunk[a] /\ chan'[a] = chan[a]
    BY <1>11, TypesAre DEF EndChunk
  <2>2. StaysReader(a) /\ StaysEnds(a) /\ StaysPool(a) /\ StaysFolded(a)
    BY <1>11 DEF EndChunk, producer, StaysReader, StaysEnds, StaysPool, StaysFolded
  <2>3. /\ pos[a] <= chunk[a] /\ chunk[a] <= batch[a].hi
        /\ pos[a] <= next[a] /\ next[a] <= chunk[a] + 1
        /\ pending[a] \subseteq next[a]..chunk[a] /\ next[a] \notin pending[a]
    BY <1>1, <2>1 DEF Chunk
  <2>4. \A i \in pos[a]..chunk[a] : i \in pos[a]..next[a] - 1 \/ i \in pending[a]
    BY <2>1 DEF Open, Delivered
  <2>5. next[a] = chunk[a] + 1
    <3>1. ~(next[a] <= chunk[a])
      <4> SUFFICES ASSUME next[a] <= chunk[a]
                   PROVE  FALSE
        OBVIOUS
      <4>1. next[a] \in pos[a]..chunk[a] /\ next[a] \notin pos[a]..next[a] - 1
        BY <1>2, <2>3
      <4>2. QED
        BY <2>3, <2>4, <4>1
    <3>2. QED
      BY <1>2, <2>3, <3>1
  <2>6. pending[a] = {}
    BY <1>2, <2>3, <2>5
  <2>7. Ends(a)'
    BY <1>1, <2>2 DEF Ends, StaysReader, StaysEnds
  <2>8. Channel(a)'
    BY <1>1, <2>1, <2>2 DEF Channel, StaysReader, StaysEnds
  <2>9. Ahead(a)' = Ahead(a)
    BY <2>1, <2>2 DEF Ahead, StaysReader
  <2>10. Front(a)' = Front(a)
    BY <2>1, <2>5 DEF Front
  <2>11. Walking(a)'
    <3>1. /\ batch[a].lo >= 1 /\ batch[a].lo <= pos[a] /\ batch[a].hi <= read[a]
      BY <1>1, <2>1 DEF Walking
    <3>2. /\ batch[a].lo <= chunk[a] + 1 /\ chunk[a] + 1 <= batch[a].hi + 1
          /\ chunk[a] + 1 <= read[a] + 1
      BY <1>2, <2>3, <3>1
    <3>3. QED
      BY <1>1, <2>1, <2>2, <2>9, <3>1, <3>2, SMTT(30)
         DEF Walking, Window, StaysReader, StaysEnds
  <2>12. Chunk(a)' /\ Groups(a)'
    BY <2>1, <2>2, <2>6 DEF Chunk, Groups, StaysPool
  <2>13. Order(a)' /\ Whole(a)'
    BY <1>1, <1>2, <1>3, <2>2, <2>10, NothingFolded DEF StaysPool, StaysReader, StaysEnds
  <2>14. Limits(a)'
    BY <1>1, <2>2 DEF Limits, StaysReader, StaysEnds
  <2>15. QED
    BY <2>7, <2>8, <2>11, <2>12, <2>13, <2>14 DEF Here
<1>12. CASE UnwindChunk(a)
  <2>1. /\ walk[a] = "fan" /\ WalkUnwinds(a) /\ running[a] = {}
        /\ pos'[a] = pos[a] /\ chunk'[a] = chunk[a]
        /\ running'[a] = running[a] /\ pending'[a] = {} /\ ~unwinding'[a]
    BY <1>12, TypesAre DEF UnwindChunk
  <2>2. StaysFolded(a)
    BY <1>12 DEF UnwindChunk, StaysFolded
  <2>3. walk[a] # "idle"
    BY <2>1
  <2>4. QED
    BY <2>1, <2>2, <2>3, UnwindHere
<1>13. QED
  BY <1>4, <1>5, <1>6, <1>7, <1>8, <1>9, <1>10, <1>11, <1>12 DEF WalkStep

-----------------------------------------------------------------------------
(* The steps of the pool. *)

LEMMA PrefixFacts ==
  ASSUME NEW a, next[a] \in Nat, chunk[a] \in Nat, next[a] <= chunk[a] + 1,
         NEW arrived, arrived \subseteq next[a]..chunk[a]
  PROVE  /\ Prefix(a, arrived) \in next[a]..chunk[a] + 1
         /\ next[a]..Prefix(a, arrived) - 1 \subseteq arrived
         /\ Prefix(a, arrived) \notin arrived
<1> DEFINE T == {n \in next[a]..chunk[a] + 1 : n \notin arrived}
           R == OpToRel(<, Nat)
           P(n) == next[a]..n - 1 \subseteq arrived /\ n \notin arrived
<1>1. chunk[a] + 1 \in T /\ T \subseteq Nat
  BY SMT
<1>2. PICK m \in T : \A k \in T : ~(<<k, m>> \in R)
  <2> HIDE DEF T
  <2>1. T # {}
    BY <1>1
  <2>2. QED
    BY <1>1, <2>1, NatLessThanWellFounded, WFMin
<1>3. \A k \in T : ~(k < m)
  <2>1. m \in Nat /\ \A k \in T : k \in Nat
    BY <1>1
  <2> HIDE DEF T
  <2>2. QED
    BY <1>2, <2>1 DEF OpToRel
<1>4. m \in next[a]..chunk[a] + 1 /\ m \notin arrived
  BY <1>2
<1>5. \A k \in next[a]..m - 1 : k \in arrived
  <2> SUFFICES ASSUME NEW k \in next[a]..m - 1, k \notin arrived
               PROVE  FALSE
    OBVIOUS
  <2>1. k \in next[a]..chunk[a] + 1 /\ k < m
    BY <1>4
  <2>2. QED
    BY <1>3, <2>1
<1>6. P(m)
  BY <1>4, <1>5
<1>7. \E n \in next[a]..chunk[a] + 1 : P(n)
  BY <1>4, <1>6
<1>8. Prefix(a, arrived) = CHOOSE n \in next[a]..chunk[a] + 1 : P(n)
  BY DEF Prefix
<1>9. Prefix(a, arrived) \in next[a]..chunk[a] + 1 /\ P(Prefix(a, arrived))
  <2> HIDE DEF P
  <2> QED
    BY <1>7, <1>8
<1>10. QED
  BY <1>9

LEMMA StartHere ==
  ASSUME Types, NEW a \in Archives, Here(a), NEW i \in Nat, StartMember(a, i)
  PROVE  Types' /\ Elsewhere(a) /\ Here(a)'
<1>1. /\ Ends(a) /\ Channel(a) /\ Walking(a) /\ Chunk(a) /\ Groups(a)
      /\ Order(a) /\ Whole(a) /\ Limits(a)
  BY DEF Here
<1>2. /\ read[a] \in Nat /\ pos[a] \in Nat /\ chunk[a] \in Nat /\ next[a] \in Nat
      /\ batch[a].lo \in Nat /\ batch[a].hi \in Nat
      /\ consAcc[a] \in Seq(Nat) /\ ownAcc[a] \in Seq(Nat)
  BY TypesAt
<1>3. /\ walk[a] = "fan" /\ i \in Open(a) /\ EarlierGroupsDone(a, i)
      /\ running' = [running EXCEPT ![a] = running[a] \cup {i}]
      /\ none' = none \/ none' = [none EXCEPT ![a] = none[a] \cup {i}]
      /\ UNCHANGED <<cancelled, panics, producer, chan, cons, batch, walk, pos, chunk,
                     pending, next, unwinding, consAcc, ownAcc, result>>
  BY DEF StartMember
<1>4. running' \in [Archives -> SUBSET Nat] /\ none' \in [Archives -> SUBSET Nat]
  <2>1. running[a] \cup {i} \in SUBSET Nat /\ none[a] \cup {i} \in SUBSET Nat
    BY TypesAt
  <2>2. running' \in [Archives -> SUBSET Nat]
    BY <1>3, <2>1, TypesAre
  <2>3. none' \in [Archives -> SUBSET Nat]
    <3>1. none \in [Archives -> SUBSET Nat]
      BY TypesAre
    <3>2. CASE none' = none
      BY <3>1, <3>2
    <3>3. CASE none' = [none EXCEPT ![a] = none[a] \cup {i}]
      BY <2>1, <3>1, <3>3
    <3>4. QED
      BY <1>3, <3>2, <3>3
  <2>4. QED
    BY <2>2, <2>3
<1>5. Types'
  BY <1>3, <1>4, TypesAre DEF Types, producer
<1>6. \A b \in Archives : b # a => running'[b] = running[b] /\ none'[b] = none[b]
  BY <1>3, TypesAre
<1>7. Elsewhere(a)
  BY <1>3, <1>6
     DEF Elsewhere, Stays, StaysReader, StaysEnds, StaysWalk, StaysPool, StaysFolded, producer
<1>8. /\ running'[a] = running[a] \cup {i}
      /\ none'[a] = none[a] \/ none'[a] = none[a] \cup {i}
      /\ pending'[a] = pending[a] /\ next'[a] = next[a] /\ unwinding'[a] = unwinding[a]
      /\ chan'[a] = chan[a] /\ consAcc'[a] = consAcc[a] /\ ownAcc'[a] = ownAcc[a]
  BY <1>3, TypesAre
<1>9. StaysReader(a) /\ StaysEnds(a) /\ StaysWalk(a)
  BY <1>3 DEF producer, StaysReader, StaysEnds, StaysWalk
<1>10. /\ pos[a] <= chunk[a] /\ chunk[a] <= batch[a].hi
       /\ pos[a] <= next[a] /\ next[a] <= chunk[a] + 1
       /\ batch[a].lo >= 1 /\ batch[a].lo <= pos[a] /\ batch[a].hi <= read[a]
  BY <1>1, <1>3 DEF Chunk, Walking
<1>11. i \in next[a]..chunk[a] /\ i \notin pending[a]
  BY <1>2, <1>3 DEF Open, Delivered
<1>12. i \in 1..read[a]
  BY <1>2, <1>10, <1>11, SMTT(30)
<1>13. Ends(a)' /\ Channel(a)'
  BY <1>1, <1>8, <1>9 DEF Ends, Channel, StaysReader, StaysEnds
<1>14. Ahead(a)' = Ahead(a)
  BY <1>8, <1>9 DEF Ahead, StaysReader
<1>15. Front(a) = next[a] /\ Front(a)' = next[a]
  BY <1>3, <1>8, <1>9 DEF Front, StaysWalk
<1>16. Walking(a)'
  BY <1>1, <1>9, <1>14 DEF Walking, Window, StaysReader, StaysEnds, StaysWalk
<1>17. Chunk(a)'
  <2>1. /\ running'[a] \cup pending'[a] \subseteq next[a]..chunk[a]
        /\ running'[a] \cap pending'[a] = {}
    BY <1>1, <1>3, <1>8, <1>11 DEF Chunk
  <2>2. QED
    BY <1>1, <1>3, <1>8, <1>9, <1>10, <2>1 DEF Chunk, StaysWalk
<1>18. Groups(a)'
  <2>1. HeavyOf(a)' = HeavyOf(a) /\ Delivered(a)' = Delivered(a)
    BY <1>8, <1>9 DEF HeavyOf, Delivered, StaysWalk
  <2>2. \A j : GroupOf(a, j)' = GroupOf(a, j)
    BY <2>1 DEF GroupOf
  <2>3. ASSUME NEW j \in running'[a], Heavy(a, j), NEW h \in HeavyOf(a),
               GroupOf(a, h) < GroupOf(a, j)
        PROVE  h \in Delivered(a)
    <3>1. CASE j = i
      BY <1>3, <2>3, <3>1 DEF EarlierGroupsDone
    <3>2. CASE j # i
      BY <1>1, <1>8, <2>3, <3>2 DEF Groups
    <3>3. QED
      BY <3>1, <3>2
  <2>4. QED
    BY <2>1, <2>2, <2>3 DEF Groups
<1>19. Order(a)' /\ Whole(a)'
  <2>1. /\ result[a] # "panic" /\ cons'[a] = cons[a] /\ result'[a] = result[a]
        /\ read'[a] = read[a]
    BY <1>1, <1>3, <1>9, WalkerFacts DEF StaysReader, StaysEnds
  <2>2. Folded(a)' = Folded(a) /\ Folded(a) \in Seq(Nat)
    BY <1>2, <1>8, ConcatProperties DEF Folded
  <2>3. Folded(a)' = Folded(a) \o <<>>
    BY <2>2, ConcatEmptySeq
  <2>4. cons[a] \in {"recv", "walk", "returned"} => ownAcc'[a] = <<>>
    BY <1>1, <1>8 DEF Order
  <2>5. none[a] \subseteq none'[a] /\ none'[a] \subseteq 1..read[a]
    BY <1>1, <1>8, <1>12 DEF Order
  <2>6. \A j \in none'[a] : j \in none[a] \/ j >= Front(a)
    BY <1>2, <1>8, <1>11, <1>15
  <2>7. \A j \in none'[a] : j < Front(a)' \/ j \in running'[a] \cup pending'[a]
    BY <1>1, <1>8, <1>15, <2>1 DEF Order
  <2>8. \A j \in Front(a)..Front(a)' - 1 : FALSE
    BY <1>2, <1>15
  <2>9. Front(a)' \in Nat /\ Front(a) <= Front(a)'
    BY <1>2, <1>15
  <2>10. QED
    BY <1>1, <1>8, <2>1, <2>3, <2>4, <2>5, <2>6, <2>7, <2>8, <2>9, NoneFolded, MoreFolded
<1>20. Limits(a)'
  BY <1>1, <1>9 DEF Limits, StaysReader, StaysEnds
<1>21. QED
  BY <1>5, <1>7, <1>13, <1>16, <1>17, <1>18, <1>19, <1>20 DEF Here

LEMMA ChunkBounds ==
  ASSUME Types, NEW a \in Archives, Walking(a), Chunk(a), walk[a] = "fan",
         NEW m \in next[a]..chunk[a] + 1
  PROVE  1 <= next[a] /\ m <= read[a] + 1
<1>1. /\ read[a] \in Nat /\ pos[a] \in Nat /\ chunk[a] \in Nat /\ next[a] \in Nat
      /\ batch[a].lo \in Nat /\ batch[a].hi \in Nat
  BY TypesAt
<1>2. /\ batch[a].lo >= 1 /\ batch[a].lo <= pos[a] /\ batch[a].hi <= read[a]
      /\ pos[a] <= next[a] /\ chunk[a] <= batch[a].hi
  BY DEF Walking, Chunk
<1>3. QED
  BY <1>1, <1>2

\* Results up to m are folded, all of them unless a fold panics.
LEMMA DeliverHere ==
  ASSUME Types, NEW a \in Archives, Here(a), walk[a] = "fan", NEW i \in running[a],
         NEW m \in next[a]..chunk[a] + 1, next[a]..m - 1 \subseteq pending[a] \cup {i},
         next' = [next EXCEPT ![a] = m],
         pending' = [pending EXCEPT ![a] = (pending[a] \cup {i}) \ (next[a]..m - 1)],
         running' = [running EXCEPT ![a] = running[a] \ {i}],
         NEW s \in Seq(Nat), Ascends(s), Entries(s) \subseteq (next[a]..m - 1) \ none[a],
         FoldIn(a, s),
         unwinding' \in [Archives -> BOOLEAN],
         \A b \in Archives : b # a => unwinding'[b] = unwinding[b],
         ~unwinding'[a] => /\ ~unwinding[a] /\ m \notin pending[a] \cup {i}
                           /\ (next[a]..m - 1) \ none[a] \subseteq Entries(s),
         panics' \in 0..MaxPanics,
         UNCHANGED <<cancelled, producer, chan, cons, batch, walk, pos, chunk, none, result>>
  PROVE  Types' /\ Elsewhere(a) /\ Here(a)'
<1>1. /\ Ends(a) /\ Channel(a) /\ Walking(a) /\ Chunk(a) /\ Groups(a)
      /\ Order(a) /\ Whole(a) /\ Limits(a)
  BY DEF Here
<1>2. /\ read[a] \in Nat /\ pos[a] \in Nat /\ chunk[a] \in Nat /\ next[a] \in Nat
      /\ batch[a].lo \in Nat /\ batch[a].hi \in Nat
      /\ running[a] \subseteq Nat /\ pending[a] \subseteq Nat /\ m \in Nat
  BY TypesAt, SMT
<1>3. walk[a] # "idle"
  OBVIOUS
<1>4. /\ consAcc' \in [Archives -> Seq(Nat)] /\ ownAcc' \in [Archives -> Seq(Nat)]
      /\ \A b \in Archives : b # a => consAcc'[b] = consAcc[b] /\ ownAcc'[b] = ownAcc[b]
      /\ Folded(a)' = Folded(a) \o s
      /\ cons[a] \in {"recv", "walk", "returned"} => ownAcc'[a] = <<>>
  BY <1>1, <1>3, FoldedBy
<1>5. /\ next' \in [Archives -> Nat] /\ pending' \in [Archives -> SUBSET Nat]
      /\ running' \in [Archives -> SUBSET Nat]
  <2>1. (pending[a] \cup {i}) \ (next[a]..m - 1) \in SUBSET Nat /\ running[a] \ {i} \in SUBSET Nat
    BY <1>2
  <2>2. QED
    BY <1>2, <2>1, TypesAre
<1>6. Types'
  BY <1>4, <1>5, TypesAre DEF Types, producer
<1>7. \A b \in Archives : b # a =>
        next'[b] = next[b] /\ pending'[b] = pending[b] /\ running'[b] = running[b]
  BY TypesAre
<1>8. Elsewhere(a)
  BY <1>4, <1>7
     DEF Elsewhere, Stays, StaysReader, StaysEnds, StaysWalk, StaysPool, StaysFolded, producer
<1>9. /\ next'[a] = m /\ running'[a] = running[a] \ {i}
      /\ pending'[a] = (pending[a] \cup {i}) \ (next[a]..m - 1)
      /\ none'[a] = none[a] /\ chan'[a] = chan[a] /\ walk'[a] = "fan"
  BY TypesAre
<1>10. StaysReader(a) /\ StaysEnds(a) /\ StaysWalk(a)
  BY DEF producer, StaysReader, StaysEnds, StaysWalk
<1>11. /\ pos[a] <= chunk[a] /\ chunk[a] <= batch[a].hi
       /\ pos[a] <= next[a] /\ next[a] <= chunk[a] + 1
       /\ running[a] \cup pending[a] \subseteq next[a]..chunk[a]
       /\ running[a] \cap pending[a] = {}
       /\ batch[a].lo >= 1 /\ batch[a].lo <= pos[a] /\ batch[a].hi <= read[a]
  BY <1>1 DEF Chunk, Walking
<1>12. Ends(a)' /\ Channel(a)'
  BY <1>1, <1>9, <1>10 DEF Ends, Channel, StaysReader, StaysEnds
<1>13. Ahead(a)' = Ahead(a)
  BY <1>9, <1>10 DEF Ahead, StaysReader
<1>14. Walking(a)'
  BY <1>1, <1>10, <1>13 DEF Walking, Window, StaysReader, StaysEnds, StaysWalk
<1>15. next[a] <= m /\ m <= chunk[a] + 1
  BY <1>2
<1>16. \A j \in running[a] \ {i} : j >= m
  <2> SUFFICES ASSUME NEW j \in running[a], j # i, j < m
               PROVE  FALSE
    BY <1>2
  <2>1. j \in next[a]..m - 1
    BY <1>2, <1>11
  <2>2. QED
    BY <1>11, <2>1
<1>17. Chunk(a)'
  <2>1. running'[a] \cup pending'[a] \subseteq m..chunk[a]
    <3>1. ASSUME NEW j \in running[a] \ {i}
          PROVE  j \in m..chunk[a]
      BY <1>2, <1>11, <1>16
    <3>2. ASSUME NEW j \in pending'[a]
          PROVE  j \in m..chunk[a]
      <4>1. j \in next[a]..chunk[a] /\ j \notin next[a]..m - 1
        BY <1>9, <1>11
      <4>2. QED
        BY <1>2, <4>1
    <3>3. QED
      BY <1>9, <3>1, <3>2
  <2>2. running'[a] \cap pending'[a] = {}
    BY <1>9, <1>11
  <2>3. pos[a] <= m
    BY <1>2, <1>11, <1>15
  <2>4. ~unwinding'[a] => m \notin pending'[a]
    BY <1>9
  <2>5. QED
    BY <1>9, <1>10, <1>11, <1>15, <2>1, <2>2, <2>3, <2>4 DEF Chunk, StaysWalk
<1>18. Groups(a)'
  <2>1. HeavyOf(a)' = HeavyOf(a)
    BY <1>10 DEF HeavyOf, StaysWalk
  <2>2. \A j : GroupOf(a, j)' = GroupOf(a, j)
    BY <2>1 DEF GroupOf
  <2>3. \A j \in Delivered(a) : j \in Delivered(a)'
    <3> SUFFICES ASSUME NEW j \in Delivered(a)
                 PROVE  j \in pos[a]..m - 1 \/ j \in pending'[a]
      BY <1>9, <1>10 DEF Delivered, StaysWalk
    <3>1. CASE j \in pos[a]..next[a] - 1
      BY <1>2, <1>15, <3>1
    <3>2. CASE j \in pending[a]
      <4>1. j \in next[a]..chunk[a]
        BY <1>11, <3>2
      <4>2. CASE j \in next[a]..m - 1
        BY <1>2, <1>11, <4>2
      <4>3. CASE j \notin next[a]..m - 1
        BY <1>9, <3>2, <4>3
      <4>4. QED
        BY <4>2, <4>3
    <3>3. QED
      BY <3>1, <3>2 DEF Delivered
  <2>4. QED
    BY <1>1, <1>9, <2>1, <2>2, <2>3 DEF Groups
<1>19. Front(a) = next[a] /\ Front(a)' = m
  BY <1>9 DEF Front
<1>20. Order(a)' /\ Whole(a)'
  <2>1. /\ result[a] # "panic" /\ cons'[a] = cons[a] /\ result'[a] = result[a]
        /\ read'[a] = read[a]
    BY <1>1, <1>3, <1>10, WalkerFacts DEF StaysReader, StaysEnds
  <2>2. none[a] \subseteq none'[a] /\ none'[a] \subseteq 1..read[a]
    BY <1>1, <1>9 DEF Order
  <2>3. \A j \in none'[a] : j \in none[a] \/ j >= Front(a)
    BY <1>9
  <2>4. \A j \in none'[a] : j < Front(a)' \/ j \in running'[a] \cup pending'[a]
    <3> SUFFICES ASSUME NEW j \in none[a], ~(j < m)
                 PROVE  j \in running'[a] \cup pending'[a]
      BY <1>9, <1>19
    <3>1. j \in Nat /\ (j < next[a] \/ j \in running[a] \cup pending[a])
      BY <1>1, <1>19, <2>1 DEF Order
    <3>2. j \in running[a] \cup pending[a] /\ j \notin next[a]..m - 1
      BY <1>2, <1>15, <3>1
    <3>3. QED
      BY <1>9, <3>2
  <2>5. ASSUME NEW j \in Entries(s)
        PROVE  /\ j \in Nat /\ Front(a) <= j /\ j < Front(a)'
               /\ j \in 1..read[a] /\ j \notin none'[a]
    <3>1. j \in next[a]..m - 1 /\ j \notin none[a]
      OBVIOUS
    <3>2. j \in Nat /\ next[a] <= j /\ j < m
      BY <1>2, <3>1
    <3>3. 1 <= next[a] /\ m <= read[a] + 1
      BY <1>1, ChunkBounds, Zenon
    <3>4. j \in 1..read[a]
      BY <1>2, <3>2, <3>3
    <3>5. QED
      BY <1>9, <1>19, <3>1, <3>2, <3>4
  <2>6. Front(a)' \in Nat /\ Front(a) <= Front(a)'
    BY <1>2, <1>15, <1>19
  <2>7. ~unwinding'[a] =>
          ~unwinding[a] /\ \A j \in Front(a)..Front(a)' - 1 : j \in none'[a] \/ j \in Entries(s)
    BY <1>9, <1>19
  <2>8. QED
    BY <1>1, <1>4, <2>1, <2>2, <2>3, <2>4, <2>5, <2>6, <2>7, MoreFolded
<1>21. Limits(a)'
  BY <1>1, <1>10 DEF Limits, StaysReader, StaysEnds
<1>22. QED
  BY <1>6, <1>8, <1>12, <1>14, <1>17, <1>18, <1>20, <1>21 DEF Here

LEMMA MemberHere ==
  ASSUME Types, NEW a \in Archives, Here(a), MemberStep(a)
  PROVE  Types' /\ Elsewhere(a) /\ Here(a)'
<1>1. PICK i \in 1..Count(a) : StartMember(a, i) \/ Deliver(a, i) \/ DeliverPanics(a, i)
  BY DEF MemberStep
<1>2. i \in Nat
  BY SizesAre
<1>3. Walking(a) /\ Chunk(a)
  BY DEF Here
<1>4. /\ pos[a] \in Nat /\ chunk[a] \in Nat /\ next[a] \in Nat /\ batch[a].lo \in Nat
      /\ panics \in 0..MaxPanics
  BY TypesAt DEF Types
<1>5. CASE StartMember(a, i)
  BY <1>2, <1>5, StartHere
<1> DEFINE arrived == pending[a] \cup {i}
           n == Prefix(a, arrived)
<1>6. ASSUME walk[a] = "fan", i \in running[a]
      PROVE  /\ n \in next[a]..chunk[a] + 1 /\ next[a]..n - 1 \subseteq arrived
             /\ n \notin arrived /\ next[a] >= 1
  <2>1. /\ next[a] <= chunk[a] + 1 /\ arrived \subseteq next[a]..chunk[a]
        /\ pos[a] <= next[a] /\ batch[a].lo >= 1 /\ batch[a].lo <= pos[a]
    BY <1>3, <1>6 DEF Chunk, Walking
  <2>2. next[a] >= 1
    BY <1>4, <2>1
  <2> HIDE DEF arrived
  <2>3. QED
    BY <1>4, <2>1, <2>2, PrefixFacts
<1>7. CASE Deliver(a, i)
  <2> DEFINE D == (next[a]..n - 1) \ none[a]
             s == Ascending(D)
  <2>1. /\ walk[a] = "fan" /\ i \in running[a]
        /\ next' = [next EXCEPT ![a] = n]
        /\ pending' = [pending EXCEPT ![a] = arrived \ (next[a]..n - 1)]
        /\ FoldIn(a, s)
        /\ running' = [running EXCEPT ![a] = running[a] \ {i}]
        /\ UNCHANGED <<cancelled, panics, producer, chan, cons, batch, walk, pos, chunk,
                       unwinding, none, result>>
    BY <1>7 DEF Deliver
  <2>2. /\ n \in next[a]..chunk[a] + 1 /\ next[a]..n - 1 \subseteq arrived
        /\ n \notin arrived /\ next[a] >= 1
    BY <1>6, <2>1
  <2>3. D \in SUBSET (1..chunk[a])
    <3> HIDE DEF n
    <3> QED
      BY <1>4, <2>2
  <2>4. s \in Seq(Nat) /\ Ascends(s) /\ Entries(s) = D
    <3> HIDE DEF D
    <3> QED
      BY <1>4, <2>3, AscendingFacts
  <2>5. unwinding' \in [Archives -> BOOLEAN]
    BY <2>1, TypesAre
  <2>6. Entries(s) \subseteq (next[a]..n - 1) \ none[a] /\ (next[a]..n - 1) \ none[a] \subseteq Entries(s)
    BY <2>4
  <2> HIDE DEF s, n, D
  <2>7. QED
    BY <1>4, <2>1, <2>2, <2>4, <2>5, <2>6, DeliverHere
<1>8. CASE DeliverPanics(a, i)
  <2>1. /\ walk[a] = "fan" /\ i \in running[a]
        /\ panics < MaxPanics /\ panics' = panics + 1
        /\ running' = [running EXCEPT ![a] = running[a] \ {i}]
        /\ unwinding' = [unwinding EXCEPT ![a] = TRUE]
        /\ UNCHANGED <<cancelled, producer, chan, cons, batch, walk, pos, chunk, none, result>>
    BY <1>8 DEF DeliverPanics
  <2>2. /\ n \in next[a]..chunk[a] + 1 /\ next[a]..n - 1 \subseteq arrived
        /\ n \notin arrived /\ next[a] >= 1
    BY <1>6, <2>1
  <2>3. PICK k \in (next[a]..n - 1) \ none[a] :
          /\ next' = [next EXCEPT ![a] = k + 1]
          /\ pending' = [pending EXCEPT ![a] = arrived \ (next[a]..k)]
          /\ FoldIn(a, Ascending((next[a]..k - 1) \ none[a]))
    BY <1>8 DEF DeliverPanics
  <2> DEFINE D == (next[a]..k - 1) \ none[a]
             s == Ascending(D)
             m == k + 1
  <2>4. k \in Nat /\ next[a] <= k /\ k <= n - 1
    <3> HIDE DEF n
    <3> QED
      BY <1>4, <2>2
  <2>5. /\ m \in next[a]..chunk[a] + 1 /\ m - 1 = k
        /\ next[a]..k \subseteq arrived /\ D \in SUBSET (1..chunk[a])
        /\ D \subseteq (next[a]..k) \ none[a]
    <3> HIDE DEF n, arrived
    <3>1. next[a]..k \subseteq next[a]..n - 1
      BY <1>4, <2>2, <2>4
    <3>2. QED
      BY <1>4, <2>2, <2>4, <3>1
  <2>6. s \in Seq(Nat) /\ Ascends(s) /\ Entries(s) = D
    <3> HIDE DEF D
    <3> QED
      BY <1>4, <2>5, AscendingFacts
  <2>7. /\ unwinding' \in [Archives -> BOOLEAN] /\ unwinding'[a] = TRUE
        /\ \A b \in Archives : b # a => unwinding'[b] = unwinding[b]
    BY <2>1, TypesAre
  <2>8. panics' \in 0..MaxPanics
    BY <1>4, <2>1, LimitsAre
  <2>9. Entries(s) \subseteq (next[a]..m - 1) \ none[a]
    <3> HIDE DEF D, s, m
    <3> QED
      BY <2>5, <2>6
  <2>10. /\ next' = [next EXCEPT ![a] = m]
         /\ pending' = [pending EXCEPT ![a] = arrived \ (next[a]..m - 1)]
         /\ next[a]..m - 1 \subseteq arrived
    BY <2>3, <2>5
  <2>11. FoldIn(a, s)
    BY <2>3
  <2> HIDE DEF s, n, D, m
  <2>12. QED
    BY <1>4, <2>1, <2>5, <2>6, <2>7, <2>8, <2>9, <2>10, <2>11, DeliverHere
<1>9. QED
  BY <1>1, <1>5, <1>7, <1>8

-----------------------------------------------------------------------------
(* The theorems. *)

LEMMA WindowInvIs ==
  WindowInv <=> Types /\ \A a \in Archives : Here(a)
BY DEF WindowInv, Here

LEMMA InitHere ==
  ASSUME Init
  PROVE  WindowInv
<1>1. Types
  <2>1. <<>> \in Seq(Nat) /\ <<>> \in Seq(Interval)
    BY EmptySeq
  <2>2. NoBatch \in Interval
    BY DEF NoBatch, Interval
  <2>3. /\ cancelled \in BOOLEAN /\ panics \in 0..MaxPanics
        /\ {read, first, bytes, pos, chunk, next} \subseteq [Archives -> Nat]
        /\ {running, pending, none} \subseteq [Archives -> SUBSET Nat]
    <3>1. /\ read \in [Archives -> Nat] /\ first \in [Archives -> Nat]
          /\ bytes \in [Archives -> Nat] /\ pos \in [Archives -> Nat]
          /\ chunk \in [Archives -> Nat] /\ next \in [Archives -> Nat]
      BY DEF Init, Each
    <3>2. /\ running \in [Archives -> SUBSET Nat] /\ pending \in [Archives -> SUBSET Nat]
          /\ none \in [Archives -> SUBSET Nat]
      <4>1. {} \in SUBSET Nat
        OBVIOUS
      <4>2. Each({}) \in [Archives -> SUBSET Nat]
        BY <4>1 DEF Each
      <4>3. running = Each({}) /\ pending = Each({}) /\ none = Each({})
        BY DEF Init
      <4>4. QED
        BY <4>2, <4>3
    <3>3. cancelled \in BOOLEAN /\ panics \in 0..MaxPanics
      <4>1. cancelled = FALSE /\ panics = 0
        BY DEF Init
      <4>2. 0 \in 0..MaxPanics
        BY LimitsAre
      <4>3. QED
        BY <4>1, <4>2
    <3>4. QED
      BY <3>1, <3>2, <3>3
  <2>4. /\ {consAcc, ownAcc} \subseteq [Archives -> Seq(Nat)]
        /\ {final, unwinding} \subseteq [Archives -> BOOLEAN]
        /\ chan \in [Archives -> Seq(Interval)] /\ batch \in [Archives -> Interval]
    BY <2>1, <2>2 DEF Init, Each
  <2>5. /\ prod \in [Archives -> ProdStates] /\ cons \in [Archives -> ConsStates]
        /\ link \in [Archives -> {"none", "up", "dropped"}]
        /\ walk \in [Archives -> WalkStates]
        /\ result \in [Archives -> {"none", "ok", "err", "panic"}]
    BY DEF Init, Each, ProdStates, ConsStates, WalkStates
  <2>6. QED
    BY <2>3, <2>4, <2>5 DEF Types
<1>2. ASSUME NEW a \in Archives
      PROVE  Here(a)
  <2>1. /\ read[a] = 0 /\ first[a] = 1 /\ bytes[a] = 0 /\ prod[a] = "read"
        /\ final[a] = FALSE /\ link[a] = (IF Pipelined THEN "up" ELSE "none")
        /\ chan[a] = <<>> /\ cons[a] = (IF Pipelined THEN "recv" ELSE "none")
        /\ batch[a] = NoBatch /\ walk[a] = "idle" /\ pos[a] = 1 /\ chunk[a] = 0
        /\ running[a] = {} /\ pending[a] = {} /\ next[a] = 1 /\ unwinding[a] = FALSE
        /\ none[a] = {} /\ consAcc[a] = <<>> /\ ownAcc[a] = <<>> /\ result[a] = "none"
    BY DEF Init, Each
  <2>2. Ends(a)
    BY <2>1, SizesAre, LimitsAre DEF Ends
  <2>3. Channel(a)
    <3>1. Len(<<>>) = 0
      BY EmptySeq
    <3>2. QED
      BY <2>1, <3>1 DEF Channel
  <2>4. Walking(a) /\ Chunk(a) /\ Groups(a)
    BY <2>1 DEF Walking, Chunk, Groups
  <2>5. Folded(a) = <<>>
    <3>1. <<>> \in Seq(Nat)
      BY EmptySeq
    <3>2. <<>> \o <<>> = <<>>
      BY <3>1, ConcatEmptySeq
    <3>3. QED
      BY <2>1, <3>2 DEF Folded
  <2>6. Front(a) = 1
    BY <2>1 DEF Front, Ahead
  <2>7. Order(a) /\ Whole(a)
    BY <2>1, <2>5, <2>6, NoneFolded DEF Order, Whole
  <2>8. Limits(a)
    BY <2>1, LimitsAre DEF Limits, Full
  <2>9. QED
    BY <2>2, <2>3, <2>4, <2>7, <2>8 DEF Here
<1>3. QED
  BY <1>1, <1>2, WindowInvIs

LEMMA NextHere ==
  ASSUME WindowInv, [Next]_vars
  PROVE  WindowInv'
<1>1. Types /\ \A a \in Archives : Here(a)
  BY WindowInvIs
<1>2. ASSUME NEW a \in Archives, Types', Elsewhere(a), Here(a)'
      PROVE  WindowInv'
  <2>1. ASSUME NEW b \in Archives
        PROVE  Here(b)'
    <3>1. CASE b = a
      BY <1>2, <3>1
    <3>2. CASE b # a
      BY <1>1, <1>2, <3>2, StaysHere DEF Elsewhere
    <3>3. QED
      BY <3>1, <3>2
  <2>2. Types' /\ \A b \in Archives : Here(b)'
    BY <1>2, <2>1
  <2>3. QED
    BY <2>2 DEF WindowInv, Here
<1>3. ASSUME NEW a \in Archives, ProducerStep(a)
      PROVE  WindowInv'
  BY <1>1, <1>2, <1>3, ProducerTypes, ProducerHere
<1>4. ASSUME NEW a \in Archives, WalkStep(a)
      PROVE  WindowInv'
  BY <1>1, <1>2, <1>4, WalkTypes, WalkHere
<1>5. ASSUME NEW a \in Archives, MemberStep(a)
      PROVE  WindowInv'
  BY <1>1, <1>2, <1>5, MemberHere
<1>6. ASSUME Cancel \/ UNCHANGED vars
      PROVE  WindowInv'
  <2>1. /\ cancelled' \in BOOLEAN /\ panics' = panics
        /\ UNCHANGED <<producer, chan, cons, walker, result>>
    BY <1>1, <1>6 DEF Cancel, vars, Types
  <2>2. Types'
    BY <1>1, <2>1 DEF Types, producer, walker
  <2>3. \A b : Stays(b)
    BY <2>1 DEF Stays, StaysReader, StaysEnds, StaysWalk, StaysPool, StaysFolded,
                producer, walker
  <2>4. \A b \in Archives : Here(b)'
    BY <1>1, <2>3, StaysHere
  <2>5. QED
    BY <2>2, <2>4 DEF WindowInv, Here
<1>7. QED
  BY <1>3, <1>4, <1>5, <1>6 DEF Next

\* The inductive invariant, of every instance.
THEOREM WindowInvariant == Spec => []WindowInv
<1>1. Init => WindowInv
  BY InitHere
<1>2. WindowInv /\ [Next]_vars => WindowInv'
  BY NextHere
<1>3. QED
  BY <1>1, <1>2, PTL DEF Spec

\* Every variable of MemberWindow has its type, and the bounds that its type
\* invariant states of them hold.
THEOREM WindowTypes == Spec => []TypeOK
<1>1. WindowInv => TypeOK
  <2> SUFFICES ASSUME WindowInv
               PROVE  TypeOK
    OBVIOUS
  <2>1. Types /\ \A a \in Archives : Here(a)
    BY WindowInvIs
  <2>2. ASSUME NEW a \in Archives
        PROVE  /\ read[a] <= Count(a) /\ first[a] \in 1..read[a] + 1
               /\ Len(chan[a]) <= 1
               /\ pos[a] <= Count(a) + 1 /\ chunk[a] <= Count(a)
               /\ running[a] \cup pending[a] \cup none[a] \subseteq 1..read[a]
    <3>1. Ends(a) /\ Channel(a) /\ Walking(a) /\ Chunk(a) /\ Order(a)
      BY <2>1 DEF Here
    <3>2. /\ read[a] \in Nat /\ first[a] \in Nat /\ pos[a] \in Nat /\ chunk[a] \in Nat
          /\ next[a] \in Nat /\ Count(a) \in Nat /\ batch[a].lo \in Nat /\ batch[a].hi \in Nat
      BY <2>1, TypesAt, SizesAre
    <3>3. /\ read[a] <= Count(a) /\ first[a] \in 1..read[a] + 1 /\ Len(chan[a]) <= 1
      BY <3>1, <3>2 DEF Ends, Channel
    <3>4. pos[a] <= Count(a) + 1 /\ chunk[a] <= Count(a)
      BY <3>1, <3>2, <3>3 DEF Walking
    <3>5. running[a] \cup pending[a] \subseteq 1..read[a]
      <4>1. CASE walk[a] = "fan"
        <5>1. /\ pos[a] <= next[a] /\ chunk[a] <= batch[a].hi
              /\ running[a] \cup pending[a] \subseteq next[a]..chunk[a]
              /\ batch[a].lo >= 1 /\ batch[a].lo <= pos[a] /\ batch[a].hi <= read[a]
          BY <3>1, <4>1 DEF Chunk, Walking
        <5>2. QED
          BY <3>2, <5>1
      <4>2. CASE walk[a] # "fan"
        BY <3>1, <4>2 DEF Chunk
      <4>3. QED
        BY <4>1, <4>2
    <3>6. QED
      BY <3>1, <3>3, <3>4, <3>5 DEF Order
  <2>3. QED
    BY <2>1, <2>2 DEF TypeOK, Types
<1>2. QED
  BY <1>1, WindowInvariant, PTL

\* FoldsInOrder: whatever order results arrive in, and whoever analyses them,
\* members are folded in archive order and none twice (Ordered, deliver and
\* MemberWindow::flush of src/analyzers/archive/analyzers.rs).
THEOREM InOrder == Spec => []FoldsInOrder
<1>1. WindowInv => FoldsInOrder
  BY DEF WindowInv, Order, Ascends, FoldsInOrder
<1>2. QED
  BY <1>1, WindowInvariant, PTL

\* OkMeansComplete: an analysis that returns normally has folded all it has
\* read and analysed.
THEOREM CompleteWhenOk == Spec => []OkMeansComplete
<1>1. WindowInv => OkMeansComplete
  <2> SUFFICES ASSUME WindowInv, NEW a \in Archives, result[a] = "ok", prod[a] = "ended"
               PROVE  Entries(Folded(a)) = (1..read[a]) \ none[a]
    BY DEF OkMeansComplete, Entries
  <2>1. Types /\ Ends(a) /\ Channel(a) /\ Walking(a) /\ Chunk(a) /\ Order(a) /\ Whole(a)
    BY DEF WindowInv
  <2>2. /\ cons[a] \in {"none", "returned"} /\ first[a] > read[a]
        /\ first[a] <= read[a] + 1 /\ read[a] \in Nat /\ first[a] \in Nat
    BY <2>1, TypesAt DEF Ends
  <2>3. walk[a] = "idle" /\ chan[a] = <<>> /\ ~unwinding[a]
    BY <2>1, <2>2 DEF Walking, Channel, Chunk
  <2>4. Front(a) = first[a] /\ first[a] = read[a] + 1
    BY <2>2, <2>3 DEF Front, Ahead
  <2>5. \A i \in 1..read[a] : i \in none[a] \/ i \in Entries(Folded(a))
    <3>1. Front(a) - 1 = read[a]
      BY <2>2, <2>4
    <3>2. QED
      BY <2>1, <2>2, <2>3, <3>1 DEF Whole
  <2>6. Entries(Folded(a)) \subseteq 1..read[a] \ none[a]
    BY <2>1 DEF Order
  <2>7. QED
    BY <2>5, <2>6
<1>2. QED
  BY <1>1, WindowInvariant, PTL

\* Of the heavy members of an archive one group is analysed at a time.
LEMMA HeavyBounded ==
  ASSUME Types, NEW a \in Archives, Here(a)
  PROVE  Cardinality({i \in running[a] : Heavy(a, i)}) <= HeavyParallel
<1> DEFINE H == {i \in running[a] : Heavy(a, i)}
           Below(j) == {h \in HeavyOf(a) : h < j}
           Rank(j) == Cardinality(Below(j))
           P == HeavyParallel
<1>1. Chunk(a) /\ Groups(a)
  BY DEF Here
<1>2. P \in Nat \ {0}
  BY LimitsAre
<1>3. pos[a] \in Nat /\ chunk[a] \in Nat /\ next[a] \in Nat
  BY TypesAt
<1>4. CASE H = {}
  <2>1. Cardinality(H) = 0
    BY <1>4, FS_EmptySet
  <2> HIDE DEF H
  <2>2. Cardinality(H) <= P
    BY <1>2, <2>1
  <2>3. QED
    BY <2>2 DEF H
<1>5. CASE H # {}
  <2>1. walk[a] = "fan"
    BY <1>1, <1>5 DEF Chunk
  <2>2. /\ pos[a] <= next[a] /\ running[a] \subseteq next[a]..chunk[a]
        /\ running[a] \cap pending[a] = {}
    BY <1>1, <2>1 DEF Chunk
  <2>3. \A j \in H : /\ j \in Nat /\ j \in HeavyOf(a) /\ j \notin Delivered(a)
                    /\ j \in running[a] /\ Heavy(a, j)
    BY <1>3, <2>2 DEF HeavyOf, Delivered
  <2>4. HeavyOf(a) \subseteq pos[a]..chunk[a] /\ IsFiniteSet(pos[a]..chunk[a])
    <3>1. HeavyOf(a) \subseteq pos[a]..chunk[a]
      BY DEF HeavyOf
    <3>2. pos[a] \in Int /\ chunk[a] \in Int
      BY <1>3
    <3>3. QED
      BY <3>1, <3>2, FS_Interval
  <2>5. IsFiniteSet(HeavyOf(a)) /\ \A h \in HeavyOf(a) : h \in Nat
    BY <1>3, <2>4, FS_Subset
  <2>6. \A j : IsFiniteSet(Below(j)) /\ Rank(j) \in Nat
    <3> SUFFICES ASSUME NEW j
                 PROVE  IsFiniteSet(Below(j)) /\ Rank(j) \in Nat
      OBVIOUS
    <3>1. Below(j) \subseteq HeavyOf(a)
      OBVIOUS
    <3> HIDE DEF Below
    <3>2. IsFiniteSet(Below(j))
      BY <2>5, <3>1, FS_Subset
    <3>3. QED
      BY <3>2, FS_CardinalityType
  <2>7. ASSUME NEW j \in H, NEW k \in H, j < k
        PROVE  Rank(j) < Rank(k)
    <3>1. j \notin Below(j) /\ Below(j) \cup {j} \subseteq Below(k)
      <4>1. \A h \in Below(j) : h \in HeavyOf(a) /\ h < j /\ h \in Nat
        BY <2>5
      <4>2. j \notin Below(j) /\ j \in Below(k)
        BY <2>3, <2>7
      <4>3. \A h \in Below(j) : h \in Below(k)
        <5> SUFFICES ASSUME NEW h \in Below(j)
                     PROVE  h < k
          BY <4>1
        <5>1. h \in Nat /\ j \in Nat /\ k \in Nat /\ h < j /\ j < k
          BY <4>1, <2>3, <2>7
        <5> HIDE DEF Below, H
        <5>2. QED
          BY <5>1
      <4>4. QED
        BY <4>2, <4>3
    <3>2. IsFiniteSet(Below(j)) /\ IsFiniteSet(Below(k)) /\ Rank(j) \in Nat /\ Rank(k) \in Nat
      BY <2>6
    <3> HIDE DEF Below
    <3>3. Cardinality(Below(j) \cup {j}) = Cardinality(Below(j)) + 1
      BY <3>1, <3>2, FS_AddElement
    <3>4. Cardinality(Below(j) \cup {j}) <= Cardinality(Below(k))
      BY <3>1, <3>2, FS_Subset
    <3>5. QED
      BY <3>2, <3>3, <3>4
  <2>8. \A j : GroupOf(a, j) = Rank(j) \div P
    BY DEF GroupOf
  <2>9. \A x \in Nat : /\ x \div P \in Nat /\ (x \div P) * P <= x
                      /\ x < (x \div P) * P + P /\ (x \div P) * P \in Nat
    BY <1>2, SMTT(30)
  <2>10. PICK j0 \in H : TRUE
    BY <1>5
  <2> DEFINE g == GroupOf(a, j0)
  <2>11. ASSUME NEW j \in H
         PROVE  GroupOf(a, j) = g
    <3>1. GroupOf(a, j) \in Nat /\ g \in Nat
      <4>1. Rank(j) \in Nat /\ Rank(j0) \in Nat
        BY <2>6
      <4> HIDE DEF Rank
      <4>2. QED
        BY <2>8, <2>9, <4>1
    <3>2. ~(GroupOf(a, j) < g)
      BY <1>1, <2>3, <2>10 DEF Groups
    <3>3. ~(g < GroupOf(a, j))
      BY <1>1, <2>3, <2>10 DEF Groups
    <3> HIDE DEF g
    <3>4. QED
      BY <3>1, <3>2, <3>3
  <2> DEFINE T == (g * P)..(g * P + P - 1)
             f == [j \in H |-> Rank(j)]
  <2>12. g \in Nat /\ g * P \in Nat
    <3>1. Rank(j0) \in Nat
      BY <2>6
    <3> HIDE DEF Rank
    <3>2. QED
      BY <2>8, <2>9, <3>1
  <2>13. \A j \in H : Rank(j) \in T
    <3> SUFFICES ASSUME NEW j \in H
                 PROVE  Rank(j) \in T
      OBVIOUS
    <3>1. Rank(j) \in Nat /\ Rank(j) \div P = g
      BY <2>6, <2>8, <2>11
    <3> HIDE DEF Rank, g
    <3>2. g * P <= Rank(j) /\ Rank(j) < g * P + P
      BY <2>9, <3>1
    <3>3. QED
      BY <1>2, <2>12, <3>1, <3>2
  <2>14. f \in Injection(H, T)
    <3>1. f \in [H -> T]
      BY <2>13
    <3>2. ASSUME NEW j \in H, NEW k \in H, f[j] = f[k]
          PROVE  j = k
      <4>1. Rank(j) = Rank(k) /\ Rank(j) \in Nat /\ j \in Nat /\ k \in Nat
        BY <2>3, <2>6, <3>2
      <4>2. ~(Rank(j) < Rank(k)) /\ ~(Rank(k) < Rank(j))
        BY <4>1
      <4>3. ~(j < k) /\ ~(k < j)
        BY <2>7, <4>2
      <4> HIDE DEF H
      <4>4. QED
        BY <4>1, <4>3
    <3> HIDE DEF f, H, T
    <3>3. QED
      BY <3>1, <3>2 DEF Injection, IsInjective
  <2>15. IsFiniteSet(T) /\ Cardinality(T) = P
    <3> HIDE DEF g
    <3>1. g * P \in Int /\ g * P + P - 1 \in Int /\ (g * P + P - 1) - (g * P) + 1 = P
          /\ g * P <= g * P + P - 1
      BY <1>2, <2>12
    <3>2. QED
      BY <3>1, FS_Interval
  <2>16. IsFiniteSet(H)
    <3>1. H \subseteq HeavyOf(a)
      BY <2>3
    <3>2. QED
      BY <2>5, <3>1, FS_Subset
  <2>17. Cardinality(H) <= P
    <3> HIDE DEF H, T, f
    <3>1. Cardinality(H) <= Cardinality(T)
      BY <2>14, <2>15, <2>16, FS_Injection
    <3>2. QED
      BY <2>15, <3>1
  <2>18. QED
    BY <2>17
<1>6. QED
  BY <1>4, <1>5

\* ResidentBounded: the members in memory are a window being filled, one in the
\* channel and one under analysis, none past its limits by more than a member,
\* and one group of heavy members is analysed at a time.
THEOREM MemoryBounded == Spec => []ResidentBounded
<1>1. WindowInv => ResidentBounded
  <2> SUFFICES ASSUME WindowInv, NEW a \in Archives
               PROVE  /\ Cardinality({i \in running[a] : Heavy(a, i)}) <= HeavyParallel
                      /\ Cardinality({w \in {Window(a), batch[a]} : In(w) # {}}) + Len(chan[a])
                           <= IF Pipelined THEN 3 ELSE 1
                      /\ read[a] + 1 - first[a] <= MaxCount
                      /\ first[a] <= read[a] => bytes[a] < BudgetBytes + Sizes[a][read[a]]
    BY DEF ResidentBounded
  <2>1. Types /\ Here(a)
    BY WindowInvIs
  <2>2. Ends(a) /\ Channel(a) /\ Walking(a) /\ Limits(a)
    BY <2>1 DEF Here
  <2>3. Cardinality({i \in running[a] : Heavy(a, i)}) <= HeavyParallel
    BY <2>1, HeavyBounded
  <2> DEFINE W == {w \in {Window(a), batch[a]} : In(w) # {}}
  <2>4. Cardinality(W) + Len(chan[a]) <= IF Pipelined THEN 3 ELSE 1
    <3>1. Len(chan[a]) \in Nat /\ Len(chan[a]) <= 1
      BY <2>1, <2>2, TypesAt, LenProperties DEF Channel
    <3>2. CASE Pipelined
      <4>1. /\ IsFiniteSet({Window(a)}) /\ Cardinality({Window(a)}) = 1
            /\ W \subseteq {Window(a)} \cup {batch[a]}
        BY FS_Singleton
      <4>2. /\ IsFiniteSet({Window(a)} \cup {batch[a]})
            /\ Cardinality({Window(a)} \cup {batch[a]}) <= 2
            /\ Cardinality({Window(a)} \cup {batch[a]}) \in Nat
        <5> DEFINE x == Window(a)
                   y == batch[a]
        <5>1. /\ IsFiniteSet({x} \cup {y})
              /\ Cardinality({x} \cup {y}) = IF y \in {x} THEN 1 ELSE 1 + 1
          BY <4>1, FS_AddElement
        <5> HIDE DEF x, y
        <5>2. Cardinality({x} \cup {y}) <= 2 /\ Cardinality({x} \cup {y}) \in Nat
          BY <5>1
        <5>3. QED
          BY <5>1, <5>2 DEF x, y
      <4> HIDE DEF W
      <4>3. Cardinality(W) \in Nat /\ Cardinality(W) <= Cardinality({Window(a)} \cup {batch[a]})
        BY <4>1, <4>2, FS_Subset, FS_CardinalityType
      <4>4. Cardinality(W) + Len(chan[a]) <= 3
        BY <3>1, <4>2, <4>3
      <4>5. QED
        BY <3>2, <4>4
    <3>3. CASE ~Pipelined
      <4>1. cons[a] = "none" /\ chan[a] = <<>>
        BY <2>2, <3>3 DEF Ends, Channel
      <4>2. batch[a] = NoBatch \/ batch[a] = Window(a)
        BY <2>2, <4>1 DEF Walking
      <4>3. In(NoBatch) = {}
        BY DEF In, NoBatch
      <4>4. W \subseteq {Window(a)}
        BY <4>2, <4>3
      <4>5. Len(chan[a]) = 0
        BY <4>1, EmptySeq
      <4>6. IsFiniteSet({Window(a)}) /\ Cardinality({Window(a)}) = 1
        BY FS_Singleton
      <4> HIDE DEF W
      <4>7. Cardinality(W) \in Nat /\ Cardinality(W) <= 1
        BY <4>4, <4>6, FS_Subset, FS_CardinalityType
      <4>8. QED
        BY <3>3, <4>5, <4>7
    <3>4. QED
      BY <3>2, <3>3
  <2>5. QED
    BY <2>2, <2>3, <2>4 DEF Limits
<1>2. QED
  BY <1>1, WindowInvariant, PTL

-----------------------------------------------------------------------------
(* Why archives may stand still.                                           *)

\* What the guards of the producer's steps come to ...
ProducerMoves(a) ==
    \/ prod[a] = "read"
    \/ /\ prod[a] = "flush"
       /\ first[a] <= read[a] /\ link[a] = "up" /\ cons[a] # "dead" => chan[a] = <<>>
    \/ prod[a] = "join" /\ cons[a] \in {"returned", "dead"}
    \/ prod[a] = "scope" /\ cons[a] \in {"none", "returned", "dead"}

\* ... those of the consumer's and of a walk's ...
WalkMoves(a) ==
    \/ cons[a] = "recv" /\ (chan[a] # <<>> \/ SenderGone(a))
    \/ walk[a] \in {"serial", "decide", "pressured"}
    \/ /\ walk[a] = "fan" /\ running[a] = {}
       /\ Inline(a) => WorkerFree
       /\ unwinding[a] \/ Open(a) = {}

\* ... and those of the members' on the pool.
MembersMove(a) ==
    /\ walk[a] = "fan"
    /\ \/ running[a] # {}
       \/ WorkerFree /\ (\E i \in Open(a) : EarlierGroupsDone(a, i))

Stands(a) == ~ProducerMoves(a) /\ ~WalkMoves(a) /\ ~MembersMove(a)

\* Where nothing can move, all is done, or every worker is a parked producer.
GridlockIsParked ==
    (\A a \in Archives : Stands(a)) => (\A a \in Archives : prod[a] = "ended") \/ AllParked

\* Some member that was not started may be: one that is not heavy, or one of the
\* first group that is not done.
LEMMA SomeGroupIsNext ==
  ASSUME Types, NEW a \in Archives, running[a] = {}, Open(a) # {}
  PROVE  \E i \in Open(a) : EarlierGroupsDone(a, i)
<1>1. pos[a] \in Nat /\ chunk[a] \in Nat /\ HeavyParallel \in Nat \ {0}
  BY TypesAt, LimitsAre
<1>2. CASE \E i \in Open(a) : ~Heavy(a, i)
  BY <1>2 DEF EarlierGroupsDone
<1>3. CASE \A i \in Open(a) : Heavy(a, i)
  <2> DEFINE T == {GroupOf(a, i) : i \in Open(a)}
             R == OpToRel(<, Nat)
  <2>1. \A i : GroupOf(a, i) \in Nat
    <3> SUFFICES ASSUME NEW i PROVE GroupOf(a, i) \in Nat
      OBVIOUS
    <3> DEFINE Below == {h \in HeavyOf(a) : h < i}
    <3>0. pos[a] \in Int /\ chunk[a] \in Int
      BY <1>1
    <3>1. Below \subseteq pos[a]..chunk[a] /\ IsFiniteSet(pos[a]..chunk[a])
      BY <3>0, FS_Interval DEF HeavyOf
    <3>2. Cardinality(Below) \in Nat
      BY <3>1, FS_Subset, FS_CardinalityType
    <3>3. GroupOf(a, i) = Cardinality(Below) \div HeavyParallel
      BY DEF GroupOf
    <3> HIDE DEF Below
    <3>4. \A n \in Nat, p \in Nat \ {0} : n \div p \in Nat
      BY SMT
    <3>5. QED
      BY <1>1, <3>2, <3>3, <3>4
  <2>2. T \in SUBSET Nat /\ T # {}
    BY <2>1
  <2>3. PICK m \in T : \A k \in T : ~(<<k, m>> \in R)
    BY <2>2, NatLessThanWellFounded, WFMin
  <2>4. PICK i \in Open(a) : m = GroupOf(a, i)
    BY <2>3
  <2>5. ASSUME NEW h \in HeavyOf(a), GroupOf(a, h) < GroupOf(a, i)
        PROVE  h \in Delivered(a)
    <3>1. <<GroupOf(a, h), m>> \in R
      BY <2>1, <2>4, <2>5 DEF OpToRel
    <3>2. GroupOf(a, h) \notin T
      <4>1. \A k \in T : ~(<<k, m>> \in R)
        BY <2>3
      <4> HIDE DEF T, R
      <4>2. QED
        BY <3>1, <4>1
    <3>3. h \notin Open(a)
      BY <3>2
    <3>4. QED
      BY <3>3 DEF Open, HeavyOf
  <2>6. EarlierGroupsDone(a, i)
    BY <2>5 DEF EarlierGroupsDone
  <2>7. QED
    BY <2>6
<1>4. QED
  BY <1>2, <1>3

\* An archive that stands has ended, or its producer is parked; and if it is
\* parked, its consumer waits for a worker.
LEMMA StandsHere ==
  ASSUME Types, NEW a \in Archives, Here(a), Stands(a)
  PROVE  /\ running[a] = {}
         /\ walk[a] \in {"idle", "fan"}
         /\ walk[a] = "fan" => ~WorkerFree
         /\ prod[a] \in {"ended", "walk"} \/ Parked(a)
         /\ Parked(a) => walk[a] = "fan"
         /\ prod[a] = "walk" => walk[a] = "fan"
<1>1. Ends(a) /\ Channel(a) /\ Walking(a) /\ Chunk(a)
  BY DEF Here
<1>2. ~ProducerMoves(a) /\ ~WalkMoves(a) /\ ~MembersMove(a)
  BY DEF Stands
<1>3. prod[a] \in ProdStates /\ cons[a] \in ConsStates /\ walk[a] \in WalkStates
      /\ link[a] \in {"none", "up", "dropped"}
  BY TypesAt
<1>4. running[a] = {} /\ walk[a] \in {"idle", "fan"}
  BY <1>1, <1>2, <1>3 DEF Chunk, MembersMove, WalkMoves, WalkStates
<1>5. walk[a] = "fan" => ~WorkerFree
  <2> SUFFICES ASSUME walk[a] = "fan", WorkerFree PROVE FALSE
    OBVIOUS
  <2>1. Open(a) # {}
    BY <1>2, <1>4 DEF WalkMoves
  <2>2. \E i \in Open(a) : EarlierGroupsDone(a, i)
    BY <1>4, <2>1, SomeGroupIsNext
  <2>3. QED
    BY <1>2, <2>2 DEF MembersMove
<1>6. prod[a] = "flush" => Parked(a)
  BY <1>2 DEF ProducerMoves, Parked
<1>7. prod[a] \in {"join", "scope"} => Parked(a)
  BY <1>1, <1>2, <1>3 DEF ProducerMoves, Parked, Ends, ConsStates
<1>8. prod[a] \in {"ended", "walk"} \/ Parked(a)
  BY <1>2, <1>3, <1>6, <1>7 DEF ProducerMoves, ProdStates
<1>9. Parked(a) => cons[a] = "walk"
  BY <1>1, <1>2 DEF Parked, Channel, WalkMoves, SenderGone
<1>10. QED
  BY <1>1, <1>4, <1>5, <1>8, <1>9 DEF Walking

\* If nothing can move and something has not ended, every worker is a producer
\* that is parked in a send, a join or the scope, whatever the archives, the
\* windows and the pool are: what EndsUnlessAllPark rests on, where only the
\* fairness of the threads is added.
THEOREM OnlyParkingStops == Spec => []GridlockIsParked
<1>1. WindowInv => GridlockIsParked
  <2> SUFFICES ASSUME WindowInv, \A a \in Archives : Stands(a),
                      NEW b \in Archives, prod[b] # "ended"
               PROVE  AllParked
    BY DEF GridlockIsParked
  <2>1. Types /\ \A a \in Archives : Here(a)
    BY WindowInvIs
  <2>2. \A a \in Archives :
           /\ running[a] = {}
           /\ walk[a] = "fan" => ~WorkerFree
           /\ prod[a] \in {"ended", "walk"} \/ Parked(a)
           /\ Parked(a) => walk[a] = "fan"
           /\ prod[a] = "walk" => walk[a] = "fan"
    BY <2>1, StandsHere
  <2>3. ~WorkerFree
    BY <2>2
  <2> DEFINE Held == {a \in Archives : Taken(a)}
  <2>4. /\ IsFiniteSet(Archives) /\ Workers \in Nat
        /\ Cardinality(Archives) \in Nat /\ Cardinality(Archives) <= Workers
    BY WindowAssumption, FS_CardinalityType
  <2>5. /\ IsFiniteSet(Held) /\ Cardinality(Held) \in Nat
        /\ Cardinality(Held) <= Cardinality(Archives)
        /\ Cardinality(Archives) = Cardinality(Held) => Archives = Held
    BY <2>4, FS_Subset, FS_CardinalityType
  <2>6. Cardinality(Held) = Workers
    <3>1. Running = {}
      BY <2>2 DEF Running
    <3>2. Cardinality(Running) = 0
      BY <3>1, FS_EmptySet
    <3>3. FreeWorkers = Workers - Cardinality(Held)
      BY DEF FreeWorkers
    <3>4. ~(0 < Workers - Cardinality(Held))
      BY <2>3, <3>2, <3>3 DEF WorkerFree
    <3> HIDE DEF Held
    <3>5. QED
      BY <2>4, <2>5, <3>4
  <2>7. Archives = Held /\ Cardinality(Archives) = Workers
    <3> HIDE DEF Held
    <3> QED
      BY <2>4, <2>5, <2>6
  <2>8. \A a \in Archives : Taken(a)
    BY <2>7
  <2>9. \A a \in Archives : Parked(a)
    BY <2>2, <2>8 DEF Taken
  <2>10. {a \in Archives : Parked(a)} = Archives
    BY <2>9
  <2>11. QED
    BY <2>7, <2>10 DEF AllParked
<1>2. QED
  BY <1>1, WindowInvariant, PTL

=============================================================================
