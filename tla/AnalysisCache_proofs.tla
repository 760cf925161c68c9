------------------------ MODULE AnalysisCache_proofs ------------------------
(***************************************************************************)
(* Proofs about the analysis cache: for any number of threads, keys,       *)
(* paths, jobs and restarts, whatever the reports weigh.                   *)
(***************************************************************************)
EXTENDS AnalysisCache, Functions, FunctionTheorems, FiniteSetTheorems, SequenceTheorems,
        WellFoundedInduction, TLAPS

Unique(s) == \A i, j \in DOMAIN s : s[i].key = s[j].key => i = j

-----------------------------------------------------------------------------
(* The inductive invariant, by the part of the state it is about.          *)

\* A thread knows what it is at work on, and what it found is what it asked for.
Lookups ==
    /\ pc \in [Threads -> ThreadSteps]
    /\ job \in [Threads -> Reports \cup {NoReport}]
    /\ seen \in [Threads -> 0..MaxBytes]
    /\ found \in [Threads -> Reports \cup {NoReport}]
    /\ answer \in [Threads -> Answers \cup {NoReport}]
    /\ conn \in [Threads -> 0..Files]
    /\ \A t \in Threads :
         /\ pc[t] # "idle" => job[t] \in Reports
         /\ pc[t] = "put" => found[t] \in Reports /\ found[t].key = job[t].key
         /\ pc[t] = "read" => conn[t] # 0
         /\ phase # "run" => pc[t] = "idle"

Command ==
    /\ breaker \in BOOLEAN
    /\ loads \in 0..Loads
    /\ phase \in {"run", "flush", "over"}
    /\ late \in BOOLEAN
    /\ boots \in 1..Boots
    /\ left \in 0..Jobs

Charged == {t \in Threads : pc[t] = "send"}

\* The writer holds a batch except while it waits, and the budget counts what
\* is on its way to the disk.
Queue ==
    /\ chan \in Seq(Reports) /\ Len(chan) <= ChanCap
    /\ batch \in Seq(Reports) /\ Len(batch) <= BatchCap
    /\ wpc \in {"recv", "persist", "release"}
    /\ wconn \in 0..Files
    /\ (wpc = "recv") <=> (batch = <<>>)
    /\ pending = BytesAt(job, Charged) + TotalBytes(chan) + TotalBytes(batch)
    /\ pending \in 0..MaxBytes
    /\ phase = "over" /\ ~late => chan = <<>> /\ batch = <<>>

Memo ==
    /\ memo \in Seq(Reports)
    /\ memoBytes \in Nat
    /\ Unique(memo)
    /\ memoBytes = TotalBytes(memo)
    /\ memoBytes <= MemoBudget

\* No key has two rows in a file.
Rows == disk \in [1..Files -> Seq(Reports)] /\ \A f \in 1..Files : Unique(disk[f])

Repairing == {t \in Threads : pc[t] = "repair"}

\* The bound on files leaves room for the repairs under way.
FilesLeft ==
    /\ file \in 1..Files
    /\ bad \in BOOLEAN
    /\ bad => file + Cardinality(Threads) <= Files
    /\ file + Cardinality(Repairing) <= Files

\* One eviction at a time, and until it trims, what it counted is there.
Evictions ==
    /\ evict \in [Threads -> [at : EvictSteps, on : 0..Files, rows : Nat]]
    /\ evicting \in BOOLEAN
    /\ count \in 0..(Interval - 1)
    /\ \A t \in Threads : evict[t].at # "off" => evicting
    /\ \A t, u \in Threads : evict[t].at # "off" /\ evict[u].at # "off" => t = u
    /\ \A t \in Threads : evict[t].at \in {"count", "trim", "sum", "shrink"} => evict[t].on \in 1..Files
    /\ \A t \in Threads :
         evict[t].at = "trim" => Len(disk[evict[t].on]) >= evict[t].rows + RowTarget

CacheInv == Lookups /\ Command /\ Queue /\ Memo /\ Rows /\ FilesLeft /\ Evictions

LEMMA LeastExists ==
  ASSUME NEW T \in SUBSET Nat, T # {}
  PROVE  \E m \in T : \A k \in T : ~(k < m)
<1> DEFINE R == OpToRel(<, Nat)
<1>1. PICK m \in T : \A k \in T : ~(<<k, m>> \in R)
  BY NatLessThanWellFounded, WFMin
<1>2. QED
  BY <1>1 DEF OpToRel

-----------------------------------------------------------------------------
(* What reports weigh.                                                     *)

Room(f, I) == UNION {{i} \X (1..Bytes(f[i])) : i \in I}
Holds(f, I) == IsFiniteSet(I) /\ \A i \in I : f[i] \in Reports

LEMMA BytesPositive == \A r \in Reports : Bytes(r) \in Nat \ {0}
<1> SUFFICES ASSUME NEW r \in Reports PROVE Bytes(r) \in Nat \ {0}
  OBVIOUS
<1>1. <<r.key, r.path>> \in Keys \X Paths
  BY DEF Reports
<1>2. QED
  BY <1>1, CacheAssumption DEF Bytes

LEMMA RoomOfOne ==
  ASSUME NEW f, NEW i, f[i] \in Reports
  PROVE  /\ IsFiniteSet({i} \X (1..Bytes(f[i])))
         /\ Cardinality({i} \X (1..Bytes(f[i]))) = Bytes(f[i])
<1> DEFINE n == Bytes(f[i])
<1>1. n \in Nat
  BY BytesPositive
<1> HIDE DEF n
<1>2. IsFiniteSet(1..n) /\ Cardinality(1..n) = n
  BY <1>1, FS_Interval
<1>3. IsFiniteSet({i}) /\ Cardinality({i}) = 1
  BY FS_Singleton
<1>4. IsFiniteSet({i} \X (1..n))
      /\ Cardinality({i} \X (1..n)) = Cardinality({i}) * Cardinality(1..n)
  BY <1>2, <1>3, FS_Product, Zenon
<1>5. Cardinality({i}) * Cardinality(1..n) = n
  BY <1>1, <1>2, <1>3
<1>6. QED
  BY <1>4, <1>5 DEF n

LEMMA RoomFinite ==
  ASSUME NEW f, NEW I, Holds(f, I)
  PROVE  IsFiniteSet(Room(f, I)) /\ BytesAt(f, I) = Cardinality(Room(f, I)) /\ BytesAt(f, I) \in Nat
<1> DEFINE T == {{i} \X (1..Bytes(f[i])) : i \in I}
           g == [i \in I |-> {i} \X (1..Bytes(f[i]))]
<1>1. g \in Surjection(I, T)
  BY DEF Surjection
<1>2. IsFiniteSet(T)
  <2> HIDE DEF T, g
  <2> QED
    BY <1>1, FS_Surjection DEF Holds
<1>3. \A U \in T : IsFiniteSet(U)
  <2>1. \A i \in I : IsFiniteSet({i} \X (1..Bytes(f[i])))
    BY RoomOfOne DEF Holds
  <2>2. QED
    BY <2>1
<1>4. IsFiniteSet(UNION T)
  <2> HIDE DEF T
  <2> QED
    BY <1>2, <1>3, FS_UNION
<1>5. BytesAt(f, I) = Cardinality(Room(f, I))
  BY DEF BytesAt, Room
<1>6. QED
  BY <1>4, <1>5, FS_CardinalityType DEF Room

\* Separate positions weigh together what they weigh each.
LEMMA BytesOfUnion ==
  ASSUME NEW f, NEW I, NEW J, Holds(f, I), Holds(f, J), I \cap J = {}
  PROVE  Holds(f, I \cup J) /\ BytesAt(f, I \cup J) = BytesAt(f, I) + BytesAt(f, J)
<1>1. Holds(f, I \cup J)
  BY FS_Union DEF Holds
<1>2. Room(f, I \cup J) = Room(f, I) \cup Room(f, J)
  BY DEF Room
<1>3. Room(f, I) \cap Room(f, J) = {}
  BY DEF Room
<1>4. Cardinality(Room(f, I) \cap Room(f, J)) = 0
  BY <1>3, FS_EmptySet
<1>5. Cardinality(Room(f, I) \cup Room(f, J)) = Cardinality(Room(f, I)) + Cardinality(Room(f, J)) - 0
  BY <1>4, RoomFinite, FS_Union
<1>6. /\ BytesAt(f, I \cup J) = Cardinality(Room(f, I \cup J))
      /\ BytesAt(f, I) = Cardinality(Room(f, I)) /\ BytesAt(f, I) \in Nat
      /\ BytesAt(f, J) = Cardinality(Room(f, J)) /\ BytesAt(f, J) \in Nat
  BY <1>1, RoomFinite
<1>7. Cardinality(Room(f, I \cup J)) = Cardinality(Room(f, I)) + Cardinality(Room(f, J)) - 0
  BY <1>2, <1>5
<1>8. QED
  BY <1>1, <1>6, <1>7

LEMMA BytesOfNone == \A f : Holds(f, {}) /\ BytesAt(f, {}) = 0
<1> SUFFICES ASSUME NEW f PROVE Holds(f, {}) /\ BytesAt(f, {}) = 0
  OBVIOUS
<1>1. Holds(f, {})
  BY FS_EmptySet DEF Holds
<1>2. Room(f, {}) = {}
  BY DEF Room
<1>3. QED
  BY <1>1, <1>2, RoomFinite, FS_EmptySet

LEMMA BytesOfOne ==
  ASSUME NEW f, NEW i, f[i] \in Reports
  PROVE  Holds(f, {i}) /\ BytesAt(f, {i}) = Bytes(f[i])
<1>1. Holds(f, {i})
  BY FS_Singleton DEF Holds
<1>2. Room(f, {i}) = {i} \X (1..Bytes(f[i]))
  BY DEF Room
<1>3. QED
  BY <1>1, <1>2, RoomFinite, RoomOfOne

\* One position more.
LEMMA BytesOfMore ==
  ASSUME NEW f, NEW I, Holds(f, I), NEW i, i \notin I, f[i] \in Reports
  PROVE  Holds(f, I \cup {i}) /\ BytesAt(f, I \cup {i}) = BytesAt(f, I) + Bytes(f[i])
<1>1. I \cap {i} = {}
  OBVIOUS
<1>2. Holds(f, {i}) /\ BytesAt(f, {i}) = Bytes(f[i])
  BY BytesOfOne
<1>3. QED
  BY <1>1, <1>2, BytesOfUnion

\* What weighs depends on nothing else.
LEMMA SameBytes ==
  ASSUME NEW f, NEW g, NEW I, \A i \in I : f[i] = g[i]
  PROVE  (Holds(f, I) <=> Holds(g, I)) /\ BytesAt(f, I) = BytesAt(g, I)
<1>1. Room(f, I) = Room(g, I)
  BY DEF Room
<1>2. QED
  BY <1>1 DEF Room, BytesAt, Holds

\* Positions may be renamed.
LEMMA Renamed ==
  ASSUME NEW f, NEW I, Holds(f, I), NEW t, NEW J, NEW g \in Bijection(J, I),
         \A j \in J : t[j] = f[g[j]]
  PROVE  Holds(t, J) /\ BytesAt(t, J) = BytesAt(f, I)
<1>1. /\ g \in [J -> I]
      /\ \A j, k \in J : g[j] = g[k] => j = k
      /\ \A i \in I : \E j \in J : g[j] = i
  BY DEF Bijection, Injection, Surjection, IsInjective
<1>2. IsFiniteSet(J)
  <2>1. g \in Injection(J, I) /\ IsFiniteSet(I)
    BY DEF Bijection, Holds
  <2>2. QED
    BY <2>1, FS_Injection
<1>3. Holds(t, J)
  BY <1>1, <1>2 DEF Holds
<1> DEFINE m == [x \in Room(t, J) |-> <<g[x[1]], x[2]>>]
<1>4. \A x \in Room(t, J) : x[1] \in J /\ x[2] \in 1..Bytes(t[x[1]]) /\ x = <<x[1], x[2]>>
  BY DEF Room
<1>5. \A j \in J : \A b \in 1..Bytes(t[j]) : <<j, b>> \in Room(t, J)
  BY DEF Room
<1>6. \A x \in Room(f, I) : x[1] \in I /\ x[2] \in 1..Bytes(f[x[1]]) /\ x = <<x[1], x[2]>>
  BY DEF Room
<1>7. \A i \in I : \A b \in 1..Bytes(f[i]) : <<i, b>> \in Room(f, I)
  BY DEF Room
<1>8. m \in [Room(t, J) -> Room(f, I)]
  <2> SUFFICES ASSUME NEW x \in Room(t, J) PROVE <<g[x[1]], x[2]>> \in Room(f, I)
    OBVIOUS
  <2>1. g[x[1]] \in I /\ t[x[1]] = f[g[x[1]]] /\ x[2] \in 1..Bytes(f[g[x[1]]])
    BY <1>1, <1>4
  <2>2. QED
    BY <2>1, <1>7
<1>9. \A x, y \in Room(t, J) : m[x] = m[y] => x = y
  <2> SUFFICES ASSUME NEW x \in Room(t, J), NEW y \in Room(t, J), m[x] = m[y] PROVE x = y
    OBVIOUS
  <2>1. m[x] = <<g[x[1]], x[2]>> /\ m[y] = <<g[y[1]], y[2]>>
    OBVIOUS
  <2>2. g[x[1]] = g[y[1]] /\ x[2] = y[2]
    BY <2>1
  <2>3. x[1] = y[1]
    BY <2>2, <1>1, <1>4
  <2>4. QED
    BY <2>2, <2>3, <1>4
<1>10. \A z \in Room(f, I) : \E x \in Room(t, J) : m[x] = z
  <2> SUFFICES ASSUME NEW z \in Room(f, I) PROVE \E x \in Room(t, J) : m[x] = z
    OBVIOUS
  <2>1. PICK j \in J : g[j] = z[1]
    BY <1>1, <1>6
  <2>2. t[j] = f[z[1]] /\ z[2] \in 1..Bytes(t[j])
    BY <2>1, <1>6
  <2>3. <<j, z[2]>> \in Room(t, J)
    BY <2>2, <1>5
  <2>4. m[<<j, z[2]>>] = <<g[j], z[2]>>
    BY <2>3
  <2>5. QED
    BY <2>1, <2>3, <2>4, <1>6
<1> HIDE DEF m
<1>11. m \in Bijection(Room(t, J), Room(f, I))
  BY <1>8, <1>9, <1>10 DEF Bijection, Injection, Surjection, IsInjective
<1>12. IsFiniteSet(Room(t, J)) /\ ExistsBijection(Room(t, J), Room(f, I))
  BY <1>3, <1>11, RoomFinite DEF ExistsBijection
<1>13. Cardinality(Room(f, I)) = Cardinality(Room(t, J))
  BY <1>12, FS_Bijection
<1>14. QED
  BY <1>3, <1>13, RoomFinite

-----------------------------------------------------------------------------
(* Sequences of reports.                                                   *)

LEMMA SeqFacts ==
  ASSUME NEW s \in Seq(Reports)
  PROVE  /\ Len(s) \in Nat /\ DOMAIN s = 1..Len(s)
         /\ \A i \in 1..Len(s) : s[i] \in Reports
         /\ Holds(s, DOMAIN s)
         /\ \A I : I \subseteq DOMAIN s => Holds(s, I)
         /\ TotalBytes(s) \in Nat
         /\ Entries(s) \subseteq Reports
<1>1. Len(s) \in Nat /\ DOMAIN s = 1..Len(s) /\ \A i \in 1..Len(s) : s[i] \in Reports
  BY LenProperties
<1>2. IsFiniteSet(DOMAIN s)
  BY <1>1, FS_Interval
<1>3. Holds(s, DOMAIN s)
  BY <1>1, <1>2 DEF Holds
<1>4. \A I : I \subseteq DOMAIN s => Holds(s, I)
  BY <1>3, FS_Subset DEF Holds
<1>5. TotalBytes(s) \in Nat
  BY <1>3, RoomFinite DEF TotalBytes
<1>6. QED
  BY <1>1, <1>3, <1>4, <1>5 DEF Entries

LEMMA NothingWeighsNothing == TotalBytes(<<>>) = 0 /\ Entries(<<>>) = {}
<1>1. DOMAIN <<>> = {}
  OBVIOUS
<1>2. QED
  BY <1>1, BytesOfNone DEF TotalBytes, Entries

\* Every entry weighs something.
LEMMA BytesAtLeast ==
  ASSUME NEW s \in Seq(Reports)
  PROVE  Len(s) <= TotalBytes(s)
<1> DEFINE m == [i \in 1..Len(s) |-> <<i, 1>>]
<1>1. /\ Len(s) \in Nat /\ DOMAIN s = 1..Len(s) /\ Holds(s, 1..Len(s))
      /\ \A i \in 1..Len(s) : Bytes(s[i]) \in Nat \ {0}
  BY SeqFacts, BytesPositive
<1>2. \A i \in 1..Len(s) : 1 \in 1..Bytes(s[i])
  BY <1>1
<1>3. m \in [1..Len(s) -> Room(s, 1..Len(s))]
  BY <1>2 DEF Room
<1>4. \A i, j \in 1..Len(s) : m[i] = m[j] => i = j
  OBVIOUS
<1>5. m \in Injection(1..Len(s), Room(s, 1..Len(s)))
  <2> HIDE DEF m
  <2> QED
    BY <1>3, <1>4 DEF Injection, IsInjective
<1>6. IsFiniteSet(Room(s, 1..Len(s))) /\ TotalBytes(s) = Cardinality(Room(s, 1..Len(s)))
  BY <1>1, RoomFinite DEF TotalBytes
<1> HIDE DEF m
<1>7. Cardinality(1..Len(s)) <= TotalBytes(s)
  BY <1>5, <1>6, FS_Injection
<1>8. Cardinality(1..Len(s)) = Len(s)
  BY <1>1, FS_Interval
<1>9. QED
  BY <1>7, <1>8

LEMMA AppendFacts ==
  ASSUME NEW s \in Seq(Reports), NEW r \in Reports
  PROVE  /\ Append(s, r) \in Seq(Reports)
         /\ Len(Append(s, r)) = Len(s) + 1
         /\ \A i \in 1..Len(s) : Append(s, r)[i] = s[i]
         /\ Append(s, r)[Len(s) + 1] = r
         /\ Entries(Append(s, r)) = Entries(s) \cup {r}
         /\ TotalBytes(Append(s, r)) = TotalBytes(s) + Bytes(r)
<1> DEFINE t == Append(s, r)
           L == Len(s)
<1>1. /\ t \in Seq(Reports) /\ Len(t) = L + 1
      /\ \A i \in 1..L : t[i] = s[i]
      /\ t[L + 1] = r
  BY AppendProperties
<1>2. L \in Nat /\ DOMAIN s = 1..L /\ DOMAIN t = 1..(L + 1)
  BY <1>1, SeqFacts
<1> HIDE DEF t, L
<1>3. 1..(L + 1) = (1..L) \cup {L + 1} /\ L + 1 \notin 1..L
  BY <1>2
<1>4. Entries(t) = Entries(s) \cup {r}
  <2>1. Entries(t) = {t[i] : i \in (1..L) \cup {L + 1}} /\ Entries(s) = {s[i] : i \in 1..L}
    BY <1>2, <1>3 DEF Entries
  <2>2. QED
    BY <2>1, <1>1
<1>5. TotalBytes(t) = TotalBytes(s) + Bytes(r)
  <2>1. Holds(t, 1..L) /\ BytesAt(t, 1..L) = BytesAt(s, 1..L)
    BY <1>1, <1>2, SeqFacts, SameBytes
  <2>2. BytesAt(t, (1..L) \cup {L + 1}) = BytesAt(t, 1..L) + Bytes(t[L + 1])
    BY <2>1, <1>1, <1>3, BytesOfMore
  <2>3. QED
    BY <2>1, <2>2, <1>1, <1>2, <1>3 DEF TotalBytes
<1>6. QED
  BY <1>1, <1>4, <1>5 DEF t, L

\* A sequence and the two halves it is cut into.
LEMMA HalvesFacts ==
  ASSUME NEW s \in Seq(Reports), NEW n \in 0..Len(s)
  PROVE  LET a == SubSeq(s, 1, n)
             b == DropFirst(s, n)
         IN  /\ a \in Seq(Reports) /\ Len(a) = n /\ \A i \in 1..n : a[i] = s[i]
             /\ b \in Seq(Reports) /\ Len(b) = Len(s) - n
             /\ \A i \in 1..(Len(s) - n) : b[i] = s[n + i]
             /\ Entries(a) \subseteq Entries(s) /\ Entries(b) \subseteq Entries(s)
             /\ TotalBytes(a) = BytesAt(s, 1..n)
             /\ TotalBytes(s) = TotalBytes(a) + TotalBytes(b)
<1> DEFINE a == SubSeq(s, 1, n)
           b == DropFirst(s, n)
           L == Len(s)
<1>1. /\ L \in Nat /\ DOMAIN s = 1..L /\ \A i \in 1..L : s[i] \in Reports
      /\ \A I : I \subseteq 1..L => Holds(s, I)
  BY SeqFacts
<1>2. L \in Nat /\ n \in Nat /\ n <= L /\ L - n \in Nat
  BY <1>1
<1>3. a \in Seq(Reports) /\ Len(a) = n /\ \A i \in 1..n : a[i] = s[i]
  <2>1. \A i \in 1..n : s[i] \in Reports
    BY <1>1
  <2>2. n \in Int /\ n - 1 + 1 = n /\ \A i \in 1..n : 1 + i - 1 = i
    BY <1>2
  <2>3. /\ a \in Seq(Reports)
        /\ Len(a) = IF 1 <= n THEN n - 1 + 1 ELSE 0
        /\ \A i \in 1..(n - 1 + 1) : a[i] = s[1 + i - 1]
    BY <2>1, <2>2, SubSeqProperties
  <2> HIDE DEF a
  <2>4. QED
    BY <1>2, <2>2, <2>3
<1>4. b \in Seq(Reports) /\ Len(b) = L - n /\ \A i \in 1..(L - n) : b[i] = s[n + i]
  <2>1. \A i \in (n + 1)..L : s[i] \in Reports
    BY <1>1, <1>2
  <2>2. n + 1 \in Int /\ L \in Int /\ L - (n + 1) + 1 = L - n
        /\ \A i \in 1..(L - n) : (n + 1) + i - 1 = n + i
    BY <1>1, <1>2
  <2>3. b = SubSeq(s, n + 1, L)
    BY DEF DropFirst
  <2>4. /\ b \in Seq(Reports)
        /\ Len(b) = IF n + 1 <= L THEN L - (n + 1) + 1 ELSE 0
        /\ \A i \in 1..(L - (n + 1) + 1) : b[i] = s[(n + 1) + i - 1]
    BY <2>1, <2>2, <2>3, SubSeqProperties
  <2> HIDE DEF b, L
  <2>5. Len(b) = L - n
    <3>1. \A x, y \in Int : ~(x + 1 <= y) /\ x <= y => y - x = 0
      OBVIOUS
    <3>2. QED
      BY <1>2, <2>2, <2>4, <3>1
  <2>6. ASSUME NEW i \in 1..(L - n) PROVE b[i] = s[n + i]
    <3>1. (n + 1) + i - 1 = n + i /\ i \in 1..(L - (n + 1) + 1)
      BY <2>2
    <3>2. QED
      BY <2>4, <3>1
  <2>7. QED
    BY <2>4, <2>5, <2>6
<1> HIDE DEF a, b, L
<1>5. DOMAIN a = 1..n /\ DOMAIN b = 1..(L - n)
  BY <1>3, <1>4, SeqFacts
<1>6. \A i \in 1..n : i \in 1..L
  BY <1>2
<1>7. \A i \in 1..(L - n) : n + i \in 1..L
  BY <1>2
<1>8. Entries(a) \subseteq Entries(s) /\ Entries(b) \subseteq Entries(s)
  BY <1>1, <1>3, <1>4, <1>5, <1>6, <1>7 DEF Entries
<1>9. TotalBytes(a) = BytesAt(s, 1..n)
  BY <1>3, <1>5, SameBytes DEF TotalBytes
<1>10. TotalBytes(b) = BytesAt(s, (n + 1)..L)
  <2> DEFINE g == [i \in 1..(L - n) |-> n + i]
  <2>1. g \in [1..(L - n) -> (n + 1)..L]
    BY <1>2
  <2>2. \A i, j \in 1..(L - n) : g[i] = g[j] => i = j
    BY <1>2
  <2>3. \A k \in (n + 1)..L : k - n \in 1..(L - n) /\ g[k - n] = k
    BY <1>2
  <2>4. \A i \in 1..(L - n) : b[i] = s[g[i]]
    BY <1>4
  <2> HIDE DEF g
  <2>5. g \in Bijection(1..(L - n), (n + 1)..L)
    BY <2>1, <2>2, <2>3 DEF Bijection, Injection, Surjection, IsInjective
  <2>6. Holds(s, (n + 1)..L)
    BY <1>1, <1>2
  <2>7. BytesAt(b, 1..(L - n)) = BytesAt(s, (n + 1)..L)
    <3> DEFINE I == (n + 1)..L
               J == 1..(L - n)
    <3>1. Holds(s, I) /\ g \in Bijection(J, I) /\ \A j \in J : b[j] = s[g[j]]
      BY <2>4, <2>5, <2>6
    <3> HIDE DEF I, J
    <3>2. BytesAt(b, J) = BytesAt(s, I)
      BY <3>1, Renamed
    <3>3. QED
      BY <3>2 DEF I, J
  <2>8. QED
    BY <1>5, <2>7 DEF TotalBytes
<1>11. TotalBytes(s) = TotalBytes(a) + TotalBytes(b)
  <2>1. 1..L = (1..n) \cup ((n + 1)..L) /\ (1..n) \cap ((n + 1)..L) = {}
    BY <1>2
  <2>2. Holds(s, 1..n) /\ Holds(s, (n + 1)..L)
    BY <1>1, <1>2
  <2>3. BytesAt(s, (1..n) \cup ((n + 1)..L)) = BytesAt(s, 1..n) + BytesAt(s, (n + 1)..L)
    BY <2>1, <2>2, BytesOfUnion
  <2>4. QED
    BY <1>1, <1>9, <1>10, <2>1, <2>3 DEF TotalBytes
<1>12. QED
  BY <1>3, <1>4, <1>8, <1>9, <1>11 DEF a, b, L

\* What Pick takes out are the entries at the positions, each once.
LEMMA PickFacts ==
  ASSUME NEW s \in Seq(Reports), NEW I \in SUBSET DOMAIN s
  PROVE  /\ Pick(s, I) \in Seq(Reports)
         /\ Len(Pick(s, I)) = Cardinality(I)
         /\ \E g \in Bijection(1..Cardinality(I), I) :
               \A n \in 1..Cardinality(I) : Pick(s, I)[n] = s[g[n]]
         /\ Entries(Pick(s, I)) = {s[i] : i \in I}
         /\ TotalBytes(Pick(s, I)) = BytesAt(s, I)
<1> DEFINE c == Cardinality(I)
           Upto(i) == {j \in I : j <= i}
           rank == [i \in I |-> Cardinality(Upto(i))]
           g == [n \in 1..c |-> CHOOSE i \in I : Cardinality({j \in I : j <= i}) = n]
           p == [n \in 1..c |-> s[g[n]]]
<1>1. /\ Holds(s, I) /\ IsFiniteSet(I) /\ I \subseteq Nat
      /\ \A i \in I : s[i] \in Reports
  BY SeqFacts DEF Holds
<1>2. c \in Nat
  BY <1>1, FS_CardinalityType
<1>3. Pick(s, I) = p
  <2>1. \A n \in 1..c : g[n] = CHOOSE i \in I : Cardinality({j \in I : j <= i}) = n
    OBVIOUS
  <2>2. Pick(s, I) = [n \in 1..c |-> s[CHOOSE i \in I : Cardinality({j \in I : j <= i}) = n]]
    BY DEF Pick
  <2> HIDE DEF g, c
  <2>3. \A n \in 1..c : s[CHOOSE i \in I : Cardinality({j \in I : j <= i}) = n] = s[g[n]]
    BY <2>1
  <2>4. QED
    BY <2>2, <2>3
<1>4. \A i \in I : Upto(i) \in SUBSET I /\ i \in Upto(i) /\ IsFiniteSet(Upto(i))
  <2> SUFFICES ASSUME NEW i \in I PROVE Upto(i) \in SUBSET I /\ i \in Upto(i) /\ IsFiniteSet(Upto(i))
    OBVIOUS
  <2>1. Upto(i) \in SUBSET I /\ i \in Upto(i)
    BY <1>1
  <2>2. QED
    BY <2>1, <1>1, FS_Subset
<1>5. \A i \in I : rank[i] \in 1..c
  <2> SUFFICES ASSUME NEW i \in I PROVE Cardinality(Upto(i)) \in 1..c
    OBVIOUS
  <2>1. Upto(i) \in SUBSET I /\ i \in Upto(i) /\ IsFiniteSet(Upto(i))
    BY <1>4
  <2> HIDE DEF Upto
  <2>2. Cardinality(Upto(i)) \in Nat /\ Cardinality(Upto(i)) <= Cardinality(I)
    BY <2>1, <1>1, FS_Subset, FS_CardinalityType
  <2>3. Cardinality(Upto(i)) # 0
    BY <2>1, FS_EmptySet
  <2>4. QED
    BY <2>2, <2>3, <1>2
<1>6. ASSUME NEW i \in I, NEW j \in I, i < j
      PROVE  rank[i] # rank[j]
  <2>1. Upto(i) \in SUBSET Upto(j) /\ j \notin Upto(i) /\ j \in Upto(j)
    BY <1>1, <1>6
  <2>2. IsFiniteSet(Upto(j))
    BY <1>4
  <2>3. rank[i] = Cardinality(Upto(i)) /\ rank[j] = Cardinality(Upto(j))
    OBVIOUS
  <2> HIDE DEF Upto, rank
  <2>4. Cardinality(Upto(i)) # Cardinality(Upto(j))
    BY <2>1, <2>2, FS_Subset
  <2>5. QED
    BY <2>3, <2>4
<1>7. rank \in Injection(I, 1..c)
  <2>1. rank \in [I -> 1..c]
    BY <1>5
  <2> HIDE DEF rank, c
  <2>2. ASSUME NEW i \in I, NEW j \in I, rank[i] = rank[j] PROVE i = j
    <3>1. i \in Nat /\ j \in Nat /\ ~(i < j) /\ ~(j < i)
      BY <1>1, <1>6, <2>2
    <3>2. QED
      BY <3>1
  <2>3. QED
    BY <2>1, <2>2 DEF Injection, IsInjective
<1>8. rank \in Surjection(I, 1..c)
  <2>1. IsFiniteSet(1..c) /\ Cardinality(1..c) = c
    <3> HIDE DEF c
    <3> QED
      BY <1>2, FS_Interval
  <2>2. Cardinality(I) = Cardinality(1..c)
    BY <2>1
  <2> HIDE DEF rank, c
  <2>3. QED
    BY <1>7, <2>1, <2>2, FS_Injection
<1>18. \A i \in I : rank[i] = Cardinality({j \in I : j <= i})
  OBVIOUS
<1> HIDE DEF rank, c
<1>9. \A n \in 1..c : g[n] \in I /\ rank[g[n]] = n
  <2> SUFFICES ASSUME NEW n \in 1..c PROVE g[n] \in I /\ rank[g[n]] = n
    OBVIOUS
  <2>1. \E i \in I : rank[i] = n
    BY <1>8 DEF Surjection
  <2>2. \E i \in I : Cardinality({j \in I : j <= i}) = n
    BY <2>1, <1>18
  <2>3. g[n] = CHOOSE i \in I : Cardinality({j \in I : j <= i}) = n
    OBVIOUS
  <2> HIDE DEF g
  <2>4. g[n] \in I /\ Cardinality({j \in I : j <= g[n]}) = n
    BY <2>2, <2>3
  <2>5. QED
    BY <2>4, <1>18
<1>10. g \in [1..c -> I]
  BY <1>9
<1> HIDE DEF g
<1>11. \A i \in I : rank[i] \in 1..c /\ g[rank[i]] = i
  BY <1>7, <1>9 DEF Injection, IsInjective
<1>12. g \in Bijection(1..c, I)
  BY <1>9, <1>10, <1>11 DEF Bijection, Injection, Surjection, IsInjective
<1>13. p \in [1..c -> Reports] /\ \A n \in 1..c : p[n] = s[g[n]]
  BY <1>1, <1>10
<1> HIDE DEF p
<1>14. p \in Seq(Reports) /\ Len(p) = c /\ DOMAIN p = 1..c
  <2>1. p \in Seq(Reports) /\ DOMAIN p = 1..c
    BY <1>2, <1>13
  <2>2. QED
    BY <2>1, <1>2, LenProperties
<1>15. Entries(p) = {s[i] : i \in I}
  <2>1. Entries(p) = {s[g[n]] : n \in 1..c}
    BY <1>13, <1>14 DEF Entries
  <2>2. QED
    BY <2>1, <1>10, <1>11
<1>16. TotalBytes(p) = BytesAt(s, I)
  <2> DEFINE J == 1..c
  <2>0. g \in Bijection(J, I) /\ \A n \in J : p[n] = s[g[n]]
    BY <1>12, <1>13
  <2> HIDE DEF J
  <2>1. BytesAt(p, J) = BytesAt(s, I)
    BY <1>1, <2>0, Renamed
  <2> USE DEF J
  <2>2. QED
    BY <2>1, <1>14 DEF TotalBytes
<1>17. QED
  BY <1>3, <1>12, <1>13, <1>14, <1>15, <1>16 DEF c

-----------------------------------------------------------------------------
(* Rows with a primary key.                                                *)

LEMMA LastExists ==
  ASSUME NEW s \in Seq(Reports), NEW i \in DOMAIN s
  PROVE  \E l \in LastIn(s) : s[l].key = s[i].key
<1> DEFINE T == {n \in Nat : Len(s) - n \in DOMAIN s /\ s[Len(s) - n].key = s[i].key}
<1>1. Len(s) \in Nat /\ DOMAIN s = 1..Len(s)
  BY SeqFacts
<1>2. Len(s) - i \in T
  <2>1. Len(s) - i \in Nat /\ Len(s) - (Len(s) - i) = i
    BY <1>1
  <2>2. QED
    BY <2>1
<1>9. T \subseteq Nat
  OBVIOUS
<1>4. PICK m \in T : \A k \in T : ~(k < m)
  <2> HIDE DEF T
  <2>1. QED
    BY <1>2, <1>9, LeastExists
<1>5. m \in Nat /\ Len(s) - m \in DOMAIN s /\ s[Len(s) - m].key = s[i].key
  OBVIOUS
<1>6. ASSUME NEW j \in DOMAIN s, j > Len(s) - m PROVE s[j].key # s[i].key
  <2> SUFFICES ASSUME s[j].key = s[i].key PROVE FALSE
    OBVIOUS
  <2>1. Len(s) - j \in Nat /\ Len(s) - (Len(s) - j) = j /\ Len(s) - j < m
    BY <1>1, <1>5, <1>6
  <2>2. Len(s) - j \in T
    BY <2>1
  <2>3. QED
    BY <1>4, <2>1, <2>2
<1>7. Len(s) - m \in LastIn(s)
  BY <1>5, <1>6 DEF LastIn
<1>8. QED
  BY <1>5, <1>7

LEMMA LatestFacts ==
  ASSUME NEW s \in Seq(Reports)
  PROVE  /\ Latest(s) \in Seq(Reports) /\ Unique(Latest(s))
         /\ Len(Latest(s)) = Cardinality(LastIn(s))
         /\ Entries(Latest(s)) \subseteq Entries(s)
         /\ TotalBytes(Latest(s)) = BytesAt(s, LastIn(s))
<1> DEFINE I == LastIn(s)
           c == Cardinality(I)
<1>1. Len(s) \in Nat /\ DOMAIN s = 1..Len(s)
  BY SeqFacts
<1>2. I \in SUBSET DOMAIN s
  BY DEF LastIn
<1>3. \A i, j \in I : s[i].key = s[j].key => i = j
  <2> SUFFICES ASSUME NEW i \in I, NEW j \in I, s[i].key = s[j].key PROVE i = j
    OBVIOUS
  <2>1. i \in 1..Len(s) /\ j \in 1..Len(s)
    BY <1>1, <1>2
  <2>2. ~(i < j) /\ ~(j < i)
    BY <1>1, <2>1 DEF LastIn
  <2>3. QED
    BY <2>1, <2>2
<1> HIDE DEF I
<1>4. /\ Pick(s, I) \in Seq(Reports) /\ Len(Pick(s, I)) = c
      /\ Entries(Pick(s, I)) = {s[i] : i \in I}
      /\ TotalBytes(Pick(s, I)) = BytesAt(s, I)
  BY <1>2, PickFacts
<1>5. \E g \in Bijection(1..c, I) : \A n \in 1..c : Pick(s, I)[n] = s[g[n]]
  BY <1>2, PickFacts
<1>6. PICK g \in Bijection(1..c, I) : \A n \in 1..c : Pick(s, I)[n] = s[g[n]]
  BY <1>5
<1>7. DOMAIN Pick(s, I) = 1..c
  BY <1>4, SeqFacts
<1>8. g \in [1..c -> I] /\ \A m, n \in 1..c : g[m] = g[n] => m = n
  BY DEF Bijection, Injection, IsInjective
<1> HIDE DEF c
<1>9. Unique(Pick(s, I))
  BY <1>3, <1>6, <1>7, <1>8 DEF Unique
<1>10. {s[i] : i \in I} \subseteq Entries(s)
  BY <1>2 DEF Entries
<1>11. QED
  BY <1>4, <1>9, <1>10 DEF I, c, Latest

\* No key is lost where rows are added to rows with different keys.
LEMMA LatestKeeps ==
  ASSUME NEW s \in Seq(Reports), Unique(s), NEW w \in Seq(Reports), Len(s) <= Len(w),
         \A i \in 1..Len(s) : w[i] = s[i]
  PROVE  Len(Latest(w)) >= Len(s)
<1> DEFINE L == Len(s)
           f == [i \in 1..L |-> CHOOSE l \in LastIn(w) : w[l].key = s[i].key]
<1>1. L \in Nat /\ DOMAIN s = 1..L /\ Len(w) \in Nat /\ DOMAIN w = 1..Len(w) /\ L <= Len(w)
  BY SeqFacts
<1>2. \A i \in 1..L : f[i] \in LastIn(w) /\ w[f[i]].key = s[i].key
  <2> SUFFICES ASSUME NEW i \in 1..L PROVE f[i] \in LastIn(w) /\ w[f[i]].key = s[i].key
    OBVIOUS
  <2>1. i \in DOMAIN w /\ w[i] = s[i]
    BY <1>1
  <2>2. \E l \in LastIn(w) : w[l].key = s[i].key
    BY <2>1, LastExists
  <2>3. f[i] = CHOOSE l \in LastIn(w) : w[l].key = s[i].key
    OBVIOUS
  <2> HIDE DEF f
  <2>4. QED
    BY <2>2, <2>3
<1>3. f \in [1..L -> LastIn(w)]
  BY <1>2
<1> HIDE DEF f, L
<1>4. f \in Injection(1..L, LastIn(w))
  BY <1>1, <1>2, <1>3 DEF Injection, IsInjective, Unique
<1>5. LastIn(w) \subseteq DOMAIN w
  BY DEF LastIn
<1>6. IsFiniteSet(LastIn(w))
  BY <1>5, SeqFacts DEF Holds
<1>7. Cardinality(1..L) <= Cardinality(LastIn(w)) /\ Cardinality(1..L) = L
  <2>1. Cardinality(1..L) <= Cardinality(LastIn(w))
    BY <1>4, <1>6, FS_Injection
  <2>2. QED
    BY <2>1, <1>1, FS_Interval
<1>8. Len(Latest(w)) = Cardinality(LastIn(w)) /\ Cardinality(LastIn(w)) \in Nat
  BY <1>6, LatestFacts, FS_CardinalityType
<1>9. QED
  BY <1>1, <1>7, <1>8 DEF L

LEMMA UpsertFacts ==
  ASSUME NEW s \in Seq(Reports), Unique(s), NEW r \in Reports
  PROVE  /\ Upsert(s, r) \in Seq(Reports) /\ Unique(Upsert(s, r))
         /\ Len(Upsert(s, r)) >= Len(s)
         /\ Entries(Upsert(s, r)) \subseteq Entries(s) \cup {r}
         /\ RowsFor(s, r.key) = {} => TotalBytes(Upsert(s, r)) = TotalBytes(s) + Bytes(r)
         /\ \A o \in RowsFor(s, r.key) :
               TotalBytes(Upsert(s, r)) = TotalBytes(s) - Bytes(o) + Bytes(r)
<1> DEFINE w == Append(s, r)
           L == Len(s)
           Out == {i \in 1..L : s[i].key = r.key}
<1>1. /\ w \in Seq(Reports) /\ Len(w) = L + 1
      /\ \A i \in 1..L : w[i] = s[i]
      /\ w[L + 1] = r
      /\ Entries(w) = Entries(s) \cup {r}
      /\ TotalBytes(w) = TotalBytes(s) + Bytes(r)
  BY AppendFacts
<1>2. /\ L \in Nat /\ DOMAIN s = 1..L
      /\ DOMAIN w = 1..(L + 1)
  BY <1>1, SeqFacts
<1>3. Upsert(s, r) = Latest(w)
  BY DEF Upsert
<1> HIDE DEF w
<1>4. /\ Latest(w) \in Seq(Reports) /\ Unique(Latest(w))
      /\ Entries(Latest(w)) \subseteq Entries(s) \cup {r}
      /\ TotalBytes(Latest(w)) = BytesAt(w, LastIn(w))
  BY <1>1, LatestFacts
<1>5. Len(Latest(w)) >= Len(s)
  BY <1>1, <1>2, LatestKeeps
<1>6. LastIn(w) = (1..(L + 1)) \ Out
  <2> HIDE DEF L
  <2>1. ASSUME NEW i \in 1..(L + 1), i \notin Out PROVE i \in LastIn(w)
    <3>1. ASSUME NEW j \in 1..(L + 1), j > i, w[j].key = w[i].key PROVE FALSE
      <4>1. i \in 1..L /\ (j = L + 1 \/ j \in 1..L)
        BY <1>2, <3>1
      <4>2. CASE j = L + 1
        BY <4>1, <4>2, <3>1, <2>1, <1>1
      <4>3. CASE j \in 1..L
        <5>1. s[j].key = s[i].key
          BY <4>1, <4>3, <3>1, <1>1
        <5>2. i = j
          BY <5>1, <4>1, <4>3, <1>2 DEF Unique
        <5>3. QED
          BY <5>2, <3>1, <1>2
      <4>4. QED
        BY <4>1, <4>2, <4>3
    <3>2. QED
      BY <3>1, <1>2 DEF LastIn
  <2>2. ASSUME NEW i \in LastIn(w) PROVE i \in (1..(L + 1)) \ Out
    <3>1. i \in 1..(L + 1)
      BY <1>2 DEF LastIn
    <3>2. ASSUME i \in Out PROVE FALSE
      <4>1. L + 1 \in DOMAIN w /\ L + 1 > i /\ w[L + 1].key = w[i].key
        BY <1>1, <1>2, <3>2
      <4>2. QED
        BY <4>1 DEF LastIn
    <3>3. QED
      BY <3>1, <3>2
  <2>3. QED
    BY <2>1, <2>2
<1>7. BytesAt(w, LastIn(w)) + BytesAt(w, Out) = TotalBytes(w) /\ Holds(w, Out)
  <2>1. LastIn(w) \cup Out = DOMAIN w /\ LastIn(w) \cap Out = {}
    BY <1>2, <1>6
  <2>2. Holds(w, LastIn(w)) /\ Holds(w, Out)
    BY <1>1, <2>1, SeqFacts
  <2>3. BytesAt(w, LastIn(w) \cup Out) = BytesAt(w, LastIn(w)) + BytesAt(w, Out)
    BY <2>1, <2>2, BytesOfUnion
  <2>4. QED
    BY <2>1, <2>2, <2>3 DEF TotalBytes
<1>8. BytesAt(w, LastIn(w)) \in Nat /\ BytesAt(w, Out) \in Nat /\ TotalBytes(s) \in Nat
      /\ Bytes(r) \in Nat /\ \A o \in Reports : Bytes(o) \in Nat
  <2>1. Holds(w, LastIn(w))
    BY <1>1, <1>2, <1>6, SeqFacts
  <2>2. QED
    BY <1>7, <2>1, RoomFinite, SeqFacts, BytesPositive
<1>9. RowsFor(s, r.key) = {} => TotalBytes(Latest(w)) = TotalBytes(s) + Bytes(r)
  <2> SUFFICES ASSUME RowsFor(s, r.key) = {} PROVE TotalBytes(Latest(w)) = TotalBytes(s) + Bytes(r)
    OBVIOUS
  <2>1. Out = {}
    BY <1>2 DEF RowsFor, Entries
  <2>2. BytesAt(w, Out) = 0
    BY <2>1, BytesOfNone
  <2> HIDE DEF Out
  <2>3. QED
    BY <2>2, <1>1, <1>4, <1>7, <1>8
<1>10. ASSUME NEW o \in RowsFor(s, r.key)
       PROVE  TotalBytes(Latest(w)) = TotalBytes(s) - Bytes(o) + Bytes(r)
  <2>1. PICK i \in 1..L : s[i] = o /\ o.key = r.key
    BY <1>2 DEF RowsFor, Entries
  <2>2. Out = {i}
    BY <2>1, <1>2 DEF Unique
  <2>3. w[i] = o /\ o \in Reports
    BY <2>1, <1>1, <1>2, SeqFacts
  <2>4. BytesAt(w, Out) = Bytes(o)
    BY <2>2, <2>3, BytesOfOne
  <2> HIDE DEF Out
  <2>5. Bytes(o) \in Nat /\ Bytes(r) \in Nat /\ TotalBytes(s) \in Nat /\ TotalBytes(Latest(w)) \in Nat
    BY <2>3, <1>4, <1>8
  <2>6. TotalBytes(Latest(w)) + Bytes(o) = TotalBytes(s) + Bytes(r)
    BY <2>4, <1>1, <1>4, <1>7
  <2>7. QED
    BY <2>5, <2>6
<1>11. QED
  BY <1>3, <1>4, <1>5, <1>9, <1>10

LEMMA DropFacts ==
  ASSUME NEW s \in Seq(Reports), Unique(s), NEW n \in Nat
  PROVE  /\ DropFirst(s, n) \in Seq(Reports) /\ Unique(DropFirst(s, n))
         /\ Entries(DropFirst(s, n)) \subseteq Entries(s)
         /\ n <= Len(s) => Len(DropFirst(s, n)) = Len(s) - n
<1> DEFINE b == DropFirst(s, n)
           L == Len(s)
<1>1. L \in Nat /\ DOMAIN s = 1..L
  BY SeqFacts
<1>2. CASE n \in 0..L
  <2>1. b \in Seq(Reports) /\ Len(b) = L - n /\ \A i \in 1..(L - n) : b[i] = s[n + i]
    BY <1>2, HalvesFacts
  <2>2. Entries(b) \subseteq Entries(s)
    BY <1>2, HalvesFacts
  <2>3. DOMAIN b = 1..(L - n)
    BY <2>1, SeqFacts
  <2> HIDE DEF b, L
  <2>4. \A i \in 1..(L - n) : n + i \in 1..L
    BY <1>1
  <2>5. \A i, j \in 1..(L - n) : n + i = n + j => i = j
    BY <1>1
  <2>6. Unique(b)
    <3> SUFFICES ASSUME NEW i \in 1..(L - n), NEW j \in 1..(L - n), b[i].key = b[j].key
                 PROVE  i = j
      BY <2>3 DEF Unique
    <3>1. s[n + i].key = s[n + j].key /\ n + i \in DOMAIN s /\ n + j \in DOMAIN s
      BY <1>1, <2>1, <2>4
    <3>2. n + i = n + j
      BY <3>1 DEF Unique
    <3>3. QED
      BY <2>5, <3>2
  <2>7. QED
    BY <2>1, <2>2, <2>6 DEF b, L
<1>3. CASE n \notin 0..L
  <2>1. n + 1 > L /\ n + 1 \in Int /\ L \in Int /\ ~(n <= L)
    BY <1>1, <1>3
  <2>2. b = <<>>
    BY <2>1, SubSeqEmpty DEF DropFirst
  <2> HIDE DEF b
  <2>3. b \in Seq(Reports) /\ DOMAIN b = {}
    BY <2>2
  <2>4. Unique(b) /\ Entries(b) = {}
    BY <2>3 DEF Unique, Entries
  <2>5. QED
    BY <2>1, <2>3, <2>4 DEF b
<1>4. QED
  BY <1>2, <1>3

-----------------------------------------------------------------------------
(* What the operations do to the memo and to the files.                    *)

\* A hit changes the order and nothing else.
LEMMA TouchFacts ==
  ASSUME Memo, NEW r \in Entries(memo), memo' = Upsert(memo, r), memoBytes' = memoBytes
  PROVE  Memo' /\ Entries(memo)' \subseteq Entries(memo)
<1>1. memo \in Seq(Reports) /\ Unique(memo) /\ r \in Reports
  BY SeqFacts DEF Memo
<1>2. /\ memo' \in Seq(Reports) /\ Unique(memo')
      /\ Entries(memo') \subseteq Entries(memo) \cup {r}
  BY <1>1, UpsertFacts
<1>3. r \in RowsFor(memo, r.key)
  BY DEF RowsFor
<1>4. TotalBytes(memo') = TotalBytes(memo) - Bytes(r) + Bytes(r)
  BY <1>1, <1>3, UpsertFacts
<1>5. TotalBytes(memo) \in Nat /\ Bytes(r) \in Nat
  BY <1>1, SeqFacts, BytesPositive
<1>6. TotalBytes(memo') = TotalBytes(memo)
  BY <1>4, <1>5
<1>7. QED
  BY <1>2, <1>6 DEF Memo, Unique, Entries, TotalBytes

Popped(s, b, n) == SatSub(b, BytesAt(s, 1..n))

\* Memo::insert pops the oldest entries until what is left fits.
LEMMA MemoInsertFacts ==
  ASSUME Memo, NEW r \in Reports, MemoInsert(r)
  PROVE  Memo' /\ Entries(memo)' \subseteq Entries(memo) \cup {r}
<1>1. CASE Bytes(r) > MemoItem
  BY <1>1 DEF MemoInsert, memoVars, Memo, Unique, Entries, TotalBytes
<1>2. CASE ~(Bytes(r) > MemoItem)
  <2> DEFINE old == RowsFor(memo, r.key)
             pushed == Upsert(memo, r)
             b == (IF old = {} THEN memoBytes
                   ELSE SatSub(memoBytes, Bytes(CHOOSE o \in old : TRUE))) + Bytes(r)
             Fits(n) == n = Len(pushed) \/ Popped(pushed, b, n) <= MemoBudget
             First(n) == Fits(n) /\ \A m \in 0..(n - 1) : Popped(pushed, b, m) > MemoBudget
             popped == CHOOSE n \in 0..Len(pushed) : First(n)
  <2>1. memo' = DropFirst(pushed, popped) /\ memoBytes' = Popped(pushed, b, popped)
    BY <1>2 DEF MemoInsert, Popped
  <2>2. memo \in Seq(Reports) /\ Unique(memo) /\ memoBytes = TotalBytes(memo)
    BY DEF Memo
  <2>3. /\ pushed \in Seq(Reports) /\ Unique(pushed)
        /\ Entries(pushed) \subseteq Entries(memo) \cup {r}
    BY <2>2, UpsertFacts
  <2>4. Bytes(r) \in Nat /\ TotalBytes(memo) \in Nat /\ MemoBudget \in Nat
        /\ \A o \in Reports : Bytes(o) \in Nat
    BY <2>2, SeqFacts, BytesPositive, CacheAssumption
  <2>5. b = TotalBytes(pushed)
    <3>1. CASE old = {}
      BY <2>2, <3>1, UpsertFacts
    <3>2. CASE old # {}
      <4> DEFINE o == CHOOSE x \in old : TRUE
      <4>1. o \in old
        BY <3>2
      <4>2. b = SatSub(memoBytes, Bytes(o)) + Bytes(r)
        BY <3>2
      <4> HIDE DEF o, b
      <4>3. TotalBytes(pushed) = TotalBytes(memo) - Bytes(o) + Bytes(r)
        BY <2>2, <4>1, UpsertFacts
      <4>4. TotalBytes(memo) >= Bytes(o) /\ Bytes(o) \in Nat
        <5>1. PICK i \in DOMAIN memo : memo[i] = o
          BY <4>1 DEF RowsFor, Entries
        <5>2. /\ {i} \cup (DOMAIN memo \ {i}) = DOMAIN memo
              /\ {i} \cap (DOMAIN memo \ {i}) = {}
          OBVIOUS
        <5>3. Holds(memo, {i}) /\ Holds(memo, DOMAIN memo \ {i}) /\ memo[i] \in Reports
          BY <2>2, <5>2, SeqFacts
        <5>4. TotalBytes(memo) = BytesAt(memo, {i}) + BytesAt(memo, DOMAIN memo \ {i})
          BY <5>2, <5>3, BytesOfUnion DEF TotalBytes
        <5>5. BytesAt(memo, {i}) = Bytes(o) /\ BytesAt(memo, DOMAIN memo \ {i}) \in Nat
          BY <5>1, <5>3, BytesOfOne, RoomFinite
        <5>6. Bytes(o) \in Nat
          BY <5>1, <5>3, <2>4
        <5>7. QED
          BY <5>4, <5>5, <5>6
      <4>5. SatSub(memoBytes, Bytes(o)) = TotalBytes(memo) - Bytes(o)
        BY <2>2, <2>4, <4>4 DEF SatSub
      <4>6. QED
        BY <4>2, <4>3, <4>5
    <3>3. QED
      BY <3>1, <3>2
  <2> HIDE DEF b, pushed
  <2>6. Len(pushed) \in Nat
    BY <2>3, SeqFacts
  <2>7. \A n \in 0..Len(pushed) : /\ Popped(pushed, b, n) = TotalBytes(DropFirst(pushed, n))
                                  /\ DropFirst(pushed, n) \in Seq(Reports)
                                  /\ Unique(DropFirst(pushed, n))
                                  /\ Entries(DropFirst(pushed, n)) \subseteq Entries(pushed)
    <3> SUFFICES ASSUME NEW n \in 0..Len(pushed)
                 PROVE  /\ Popped(pushed, b, n) = TotalBytes(DropFirst(pushed, n))
                        /\ DropFirst(pushed, n) \in Seq(Reports)
                        /\ Unique(DropFirst(pushed, n))
                        /\ Entries(DropFirst(pushed, n)) \subseteq Entries(pushed)
      OBVIOUS
    <3>1. /\ SubSeq(pushed, 1, n) \in Seq(Reports)
          /\ TotalBytes(SubSeq(pushed, 1, n)) = BytesAt(pushed, 1..n)
          /\ TotalBytes(pushed) = TotalBytes(SubSeq(pushed, 1, n)) + TotalBytes(DropFirst(pushed, n))
      BY <2>3, HalvesFacts
    <3>2. n \in Nat
      BY <2>6
    <3>3. /\ DropFirst(pushed, n) \in Seq(Reports) /\ Unique(DropFirst(pushed, n))
          /\ Entries(DropFirst(pushed, n)) \subseteq Entries(pushed)
      BY <2>3, <3>2, DropFacts
    <3>4. TotalBytes(SubSeq(pushed, 1, n)) \in Nat /\ TotalBytes(DropFirst(pushed, n)) \in Nat
      BY <3>1, <3>3, SeqFacts
    <3>5. Popped(pushed, b, n) = TotalBytes(DropFirst(pushed, n))
      BY <2>5, <3>1, <3>4 DEF Popped, SatSub
    <3>6. QED
      BY <3>3, <3>5
  <2>8. \E n \in 0..Len(pushed) : First(n)
    <3> DEFINE T == {n \in 0..Len(pushed) : Fits(n)}
    <3>1. T \subseteq Nat /\ Len(pushed) \in T
      BY <2>6
    <3>3. PICK n \in T : \A k \in T : ~(k < n)
      <4> HIDE DEF T
      <4>1. T # {}
        BY <3>1
      <4>2. QED
        BY <3>1, <4>1, LeastExists
    <3>4. \A m \in 0..(n - 1) : m \in 0..Len(pushed) /\ m < n
      BY <2>6
    <3>5. \A m \in 0..Len(pushed) : Popped(pushed, b, m) \in Nat
      BY <2>7, SeqFacts
    <3>6. \A m \in 0..(n - 1) : Popped(pushed, b, m) > MemoBudget
      BY <2>4, <3>3, <3>4, <3>5
    <3>7. QED
      BY <3>6
  <2>9. popped \in 0..Len(pushed) /\ Fits(popped)
    BY <2>8
  <2> HIDE DEF popped
  <2>10. /\ memo' \in Seq(Reports) /\ Unique(memo') /\ memoBytes' = TotalBytes(memo')
         /\ Entries(memo') \subseteq Entries(pushed)
    BY <2>1, <2>7, <2>9
  <2>11. memoBytes' \in Nat
    BY <2>10, SeqFacts
  <2>12. memoBytes' <= MemoBudget
    <3>1. CASE popped = Len(pushed)
      <4>1. DropFirst(pushed, popped) = <<>>
        BY <2>6, <3>1, SubSeqEmpty DEF DropFirst
      <4>2. TotalBytes(DropFirst(pushed, popped)) = 0
        BY <4>1, NothingWeighsNothing
      <4>3. QED
        BY <2>1, <2>4, <2>10, <4>2
    <3>2. CASE Popped(pushed, b, popped) <= MemoBudget
      BY <2>1, <3>2
    <3>3. QED
      BY <2>9, <3>1, <3>2
  <2>13. QED
    BY <2>3, <2>10, <2>11, <2>12 DEF Memo, Unique, Entries, TotalBytes
<1>3. QED
  BY <1>1, <1>2

\* One file is given other rows, with different keys.
LEMMA FileFacts ==
  ASSUME Rows, NEW c \in 1..Files, NEW rows \in Seq(Reports), Unique(rows),
         disk' = [disk EXCEPT ![c] = rows]
  PROVE  Rows' /\ disk'[c] = rows /\ \A f \in 1..Files : f # c => disk'[f] = disk[f]
<1>1. disk' \in [1..Files -> Seq(Reports)] /\ disk'[c] = rows
      /\ \A f \in 1..Files : f # c => disk'[f] = disk[f]
  BY DEF Rows
<1>2. \A f \in 1..Files : Unique(disk'[f])
  BY <1>1 DEF Rows
<1>3. QED
  BY <1>1, <1>2 DEF Rows, Unique

LEMMA DeleteFacts ==
  ASSUME Rows, NEW c \in 1..Files, NEW n \in Nat, Delete(c, n)
  PROVE  /\ Rows'
         /\ \A f \in 1..Files : Entries(disk'[f]) \subseteq Entries(disk[f])
         /\ n <= Len(disk[c]) => Len(disk'[c]) >= Len(disk[c]) - n
<1>1. disk[c] \in Seq(Reports) /\ Unique(disk[c]) /\ Len(disk[c]) \in Nat
  BY SeqFacts DEF Rows
<1>2. CASE disk' = [disk EXCEPT ![c] = DropFirst(@, n)]
  <2>1. /\ DropFirst(disk[c], n) \in Seq(Reports) /\ Unique(DropFirst(disk[c], n))
        /\ Entries(DropFirst(disk[c], n)) \subseteq Entries(disk[c])
        /\ n <= Len(disk[c]) => Len(DropFirst(disk[c], n)) = Len(disk[c]) - n
    BY <1>1, DropFacts
  <2>2. /\ Rows' /\ disk'[c] = DropFirst(disk[c], n)
        /\ \A f \in 1..Files : f # c => disk'[f] = disk[f]
    BY <1>2, <2>1, FileFacts
  <2>3. QED
    BY <1>1, <2>1, <2>2
<1>3. CASE disk' = disk
  BY <1>1, <1>3 DEF Rows, Unique
<1>4. QED
  BY <1>2, <1>3 DEF Delete

\* A transaction of the writer, or a row that is touched: the file loses no key.
LEMMA MergeFacts ==
  ASSUME Rows, NEW c \in 1..Files, NEW more \in Seq(Reports),
         disk' = [disk EXCEPT ![c] = Latest(@ \o more)]
  PROVE  /\ Rows'
         /\ \A f \in 1..Files : /\ Entries(disk'[f]) \subseteq Entries(disk[f]) \cup Entries(more)
                                /\ Len(disk'[f]) >= Len(disk[f])
<1> DEFINE s == disk[c]
           w == s \o more
<1>1. s \in Seq(Reports) /\ Unique(s) /\ \A f \in 1..Files : Len(disk[f]) \in Nat
  BY SeqFacts DEF Rows
<1>2. /\ w \in Seq(Reports) /\ Len(w) = Len(s) + Len(more)
      /\ \A i \in 1..Len(s) + Len(more) : w[i] = IF i <= Len(s) THEN s[i] ELSE more[i - Len(s)]
  BY <1>1, ConcatProperties
<1>3. /\ Len(s) \in Nat /\ Len(more) \in Nat /\ DOMAIN more = 1..Len(more) /\ DOMAIN s = 1..Len(s)
      /\ DOMAIN w = 1..(Len(s) + Len(more))
  BY <1>1, <1>2, SeqFacts
<1> HIDE DEF s, w
<1>4. \A i \in 1..Len(s) : w[i] = s[i]
  BY <1>2, <1>3
<1>5. Entries(w) \subseteq Entries(s) \cup Entries(more)
  <2> SUFFICES ASSUME NEW i \in 1..(Len(s) + Len(more))
               PROVE  w[i] \in Entries(s) \cup Entries(more)
    BY <1>3 DEF Entries
  <2>1. CASE i <= Len(s)
    <3>1. i \in DOMAIN s /\ w[i] = s[i]
      BY <1>2, <1>3, <2>1
    <3>2. QED
      BY <3>1 DEF Entries
  <2>2. CASE ~(i <= Len(s))
    <3>1. i - Len(s) \in DOMAIN more /\ w[i] = more[i - Len(s)]
      BY <1>2, <1>3, <2>2
    <3>2. QED
      BY <3>1 DEF Entries
  <2>3. QED
    BY <2>1, <2>2
<1>6. /\ Latest(w) \in Seq(Reports) /\ Unique(Latest(w))
      /\ Entries(Latest(w)) \subseteq Entries(w)
  BY <1>2, LatestFacts
<1>7. Len(Latest(w)) >= Len(s)
  BY <1>1, <1>2, <1>3, <1>4, LatestKeeps
<1>8. /\ Rows' /\ disk'[c] = Latest(w)
      /\ \A f \in 1..Files : f # c => disk'[f] = disk[f]
  BY <1>6, FileFacts DEF s, w
<1>9. ASSUME NEW f \in 1..Files
      PROVE  /\ Entries(disk'[f]) \subseteq Entries(disk[f]) \cup Entries(more)
             /\ Len(disk'[f]) >= Len(disk[f])
  <2>1. CASE f = c
    BY <2>1, <1>5, <1>6, <1>7, <1>8 DEF s
  <2>2. CASE f # c
    BY <2>2, <1>1, <1>8
  <2>3. QED
    BY <2>1, <2>2
<1>10. QED
  BY <1>8, <1>9

-----------------------------------------------------------------------------
(* Steps of an analysis thread concern that thread.                        *)

Others(t) == \A u \in Threads : u # t => /\ pc'[u] = pc[u] /\ job'[u] = job[u]
                                         /\ found'[u] = found[u] /\ conn'[u] = conn[u]

LEMMA LimitFacts ==
  /\ {MaxBytes, MaxItemBytes, MemoBudget, MemoItem, MaxRows, RowTarget, ByteTarget, Jobs} \subseteq Nat
  /\ {ChanCap, BatchCap, Interval, Boots, Files} \subseteq Nat \ {0} /\ Loads \in Nat
  /\ RowTarget <= MaxRows /\ IsFiniteSet(Threads) /\ Cardinality(Threads) \in Nat
BY CacheAssumption, FS_CardinalityType

LEMMA LookupsAt ==
  ASSUME Lookups, NEW t \in Threads, Others(t), phase' = phase,
         pc' \in [Threads -> ThreadSteps],
         job' \in [Threads -> Reports \cup {NoReport}],
         seen' \in [Threads -> 0..MaxBytes],
         found' \in [Threads -> Reports \cup {NoReport}],
         answer' \in [Threads -> Answers \cup {NoReport}],
         conn' \in [Threads -> 0..Files],
         pc'[t] # "idle" => job'[t] \in Reports /\ phase = "run",
         pc'[t] = "put" => found'[t] \in Reports /\ found'[t].key = job'[t].key,
         pc'[t] = "read" => conn'[t] # 0
  PROVE  Lookups'
<1>1. ASSUME NEW u \in Threads
      PROVE  /\ pc'[u] # "idle" => job'[u] \in Reports
             /\ pc'[u] = "put" => found'[u] \in Reports /\ found'[u].key = job'[u].key
             /\ pc'[u] = "read" => conn'[u] # 0
             /\ phase' # "run" => pc'[u] = "idle"
  <2>1. CASE u = t
    BY <2>1
  <2>2. CASE u # t
    BY <2>2 DEF Lookups, Others
  <2>3. QED
    BY <2>1, <2>2
<1>2. QED
  BY <1>1 DEF Lookups

\* A step that sends nothing leaves the budget alone.
LEMMA QueueKept ==
  ASSUME Queue, Lookups, NEW t \in Threads, Others(t), UNCHANGED <<writerVars, phase, late>>,
         pc[t] # "send", pc'[t] # "send"
  PROVE  Queue'
<1>1. Charged' = Charged
  BY DEF Charged, Others
<1>2. \A u \in Charged : job'[u] = job[u]
  BY DEF Charged, Others
<1>3. BytesAt(job', Charged') = BytesAt(job, Charged)
  BY <1>1, <1>2, SameBytes
<1>4. /\ pending' = pending /\ chan' = chan /\ batch' = batch /\ wpc' = wpc /\ wconn' = wconn
      /\ TotalBytes(chan') = TotalBytes(chan) /\ TotalBytes(batch') = TotalBytes(batch)
  BY DEF writerVars
<1>5. pending' = BytesAt(job', Charged') + TotalBytes(chan') + TotalBytes(batch')
  BY <1>3, <1>4 DEF Queue
<1>6. QED
  BY <1>4, <1>5 DEF Queue, Charged, BytesAt, TotalBytes

LEMMA MemoKept == ASSUME Memo, UNCHANGED memoVars PROVE Memo'
BY DEF Memo, memoVars, Unique, TotalBytes, BytesAt

LEMMA RowsKept == ASSUME Rows, disk' = disk PROVE Rows'
BY DEF Rows, Unique

LEMMA CommandKept == ASSUME Command, UNCHANGED <<breaker, loads, phase, late, boots, left>> PROVE Command'
BY DEF Command

LEMMA RepairingFinite ==
  ASSUME Lookups
  PROVE  IsFiniteSet(Repairing) /\ Cardinality(Repairing) \in Nat
         /\ Cardinality(Repairing) <= Cardinality(Threads)
BY LimitFacts, FS_Subset, FS_CardinalityType DEF Repairing

LEMMA FilesKept ==
  ASSUME FilesLeft, Lookups, NEW t \in Threads, Others(t), UNCHANGED <<file, bad>>,
         pc'[t] # "repair"
  PROVE  FilesLeft'
<1>1. Repairing' \in SUBSET Repairing
  BY DEF Repairing, Others
<1>2. /\ Cardinality(Repairing') <= Cardinality(Repairing) /\ Cardinality(Repairing') \in Nat
      /\ Cardinality(Repairing) \in Nat
  BY <1>1, RepairingFinite, FS_Subset, FS_CardinalityType
<1>3. file \in Nat /\ Files \in Nat /\ file + Cardinality(Repairing) <= Files
  BY LimitFacts DEF FilesLeft
<1>4. file + Cardinality(Repairing') <= Files
  BY <1>2, <1>3
<1>5. QED
  BY <1>4 DEF FilesLeft, Repairing

\* What an eviction counted stays as long as no file loses rows.
LEMMA EvictionsKept ==
  ASSUME Evictions, Rows, UNCHANGED evictVars,
         disk' \in [1..Files -> Seq(Reports)],
         \A f \in 1..Files : Len(disk'[f]) >= Len(disk[f])
  PROVE  Evictions'
<1>1. ASSUME NEW t \in Threads, evict[t].at = "trim"
      PROVE  Len(disk'[evict[t].on]) >= evict[t].rows + RowTarget
  <2>1. evict[t].on \in 1..Files
    BY <1>1 DEF Evictions
  <2>2. Len(disk[evict[t].on]) >= evict[t].rows + RowTarget
    BY <1>1 DEF Evictions
  <2>5. disk[evict[t].on] \in Seq(Reports) /\ disk'[evict[t].on] \in Seq(Reports)
    BY <2>1 DEF Rows
  <2>6. evict[t].rows \in Nat /\ RowTarget \in Nat
    BY LimitFacts DEF Evictions
  <2>3. Len(disk'[evict[t].on]) \in Nat /\ Len(disk[evict[t].on]) \in Nat
        /\ evict[t].rows + RowTarget \in Nat
    BY <2>5, <2>6, SeqFacts
  <2>4. Len(disk'[evict[t].on]) >= Len(disk[evict[t].on])
    BY <2>1
  <2> QED
    BY <2>2, <2>3, <2>4
<1>2. QED
  BY <1>1 DEF Evictions, evictVars

LEMMA SameLengths ==
  ASSUME Rows, disk' = disk
  PROVE  disk' \in [1..Files -> Seq(Reports)] /\ \A f \in 1..Files : Len(disk'[f]) >= Len(disk[f])
BY SeqFacts DEF Rows

LEMMA EvictionsKeptOn == ASSUME Evictions, Rows, UNCHANGED <<evictVars, disk>> PROVE Evictions'
BY SameLengths, EvictionsKept

-----------------------------------------------------------------------------
(* A lookup.                                                               *)

LEMMA BeginKeeps == ASSUME CacheInv, NEW t \in Threads, Begin(t) PROVE CacheInv'
<1> USE DEF CacheInv
<1>1. PICK i \in Inputs : job' = [job EXCEPT ![t] = [key |-> i[1], path |-> i[2], quality |-> "whole"]]
  BY DEF Begin
<1>2. /\ pc[t] = "idle" /\ phase = "run" /\ left > 0 /\ left' = left - 1
      /\ pc' = [pc EXCEPT ![t] = "memo"] /\ answer' = [answer EXCEPT ![t] = NoReport]
      /\ UNCHANGED <<seen, found, conn, writerVars, memoVars, fileVars, evictVars,
                     breaker, loads, phase, late, boots>>
  BY DEF Begin, Goto
<1>3. [key |-> i[1], path |-> i[2], quality |-> "whole"] \in Reports
  BY CacheAssumption DEF Reports, Qualities
<1>4. Others(t)
  BY <1>1, <1>2 DEF Lookups, Others
<1>5. Lookups'
  <2>1. pc'[t] = "memo" /\ job'[t] \in Reports
    BY <1>1, <1>2, <1>3 DEF Lookups
  <2>2. /\ pc' \in [Threads -> ThreadSteps]
        /\ job' \in [Threads -> Reports \cup {NoReport}]
        /\ seen' \in [Threads -> 0..MaxBytes]
        /\ found' \in [Threads -> Reports \cup {NoReport}]
        /\ answer' \in [Threads -> Answers \cup {NoReport}]
        /\ conn' \in [Threads -> 0..Files]
    BY <1>1, <1>2, <1>3 DEF Lookups, ThreadSteps
  <2>3. QED
    BY <1>2, <1>4, <2>1, <2>2, LookupsAt
<1>6. pc'[t] = "memo"
  BY <1>2 DEF Lookups
<1>7. Queue'
  BY <1>2, <1>4, <1>6, QueueKept
<1>8. FilesLeft'
  BY <1>2, <1>4, <1>6, FilesKept DEF fileVars
<1>9. Command'
  BY <1>2, LimitFacts DEF Command
<1>10. Memo' /\ Rows' /\ Evictions'
  BY <1>2, MemoKept, RowsKept, EvictionsKeptOn DEF fileVars
<1>11. QED
  BY <1>5, <1>7, <1>8, <1>9, <1>10

LEMMA LookupMemoKeeps == ASSUME CacheInv, NEW t \in Threads, LookupMemo(t) PROVE CacheInv'
<1> USE DEF CacheInv
<1>1. /\ pc[t] = "memo"
      /\ UNCHANGED <<seen, found, conn, memoBytes, writerVars, fileVars, evictVars, restVars>>
  BY DEF LookupMemo
<1>2. phase = "run" /\ job[t] \in Reports
  BY <1>1 DEF Lookups
<1>3. CASE RowsFor(memo, job[t].key) = {}
  <2>1. /\ pc' = [pc EXCEPT ![t] = IF conn[t] = 0 THEN "conn" ELSE "read"]
        /\ UNCHANGED <<job, answer, memo>>
    BY <1>3 DEF LookupMemo, Goto
  <2>2. pc'[t] = (IF conn[t] = 0 THEN "conn" ELSE "read") /\ Others(t)
    BY <1>1, <2>1 DEF Lookups, Others
  <2>3. Lookups'
    <3>1. pc' \in [Threads -> ThreadSteps]
      BY <2>1 DEF Lookups, ThreadSteps
    <3>2. QED
      BY <1>1, <1>2, <2>1, <2>2, <3>1, LookupsAt DEF Lookups, restVars
  <2>4. Memo'
    BY <1>1, <2>1, MemoKept DEF memoVars
  <2>5. QED
    BY <1>1, <2>2, <2>3, <2>4, QueueKept, FilesKept, RowsKept, EvictionsKeptOn, CommandKept
       DEF restVars, fileVars
<1>4. CASE RowsFor(memo, job[t].key) # {}
  <2>1. PICK r \in RowsFor(memo, job[t].key) : Answer(t, r) /\ memo' = Upsert(memo, r)
    BY <1>4 DEF LookupMemo
  <2>2. r \in Entries(memo) /\ r \in Reports
    BY SeqFacts DEF RowsFor, Memo
  <2>3. Memo'
    BY <1>1, <2>1, <2>2, TouchFacts
  <2>4. /\ [to |-> job[t], is |-> r] \in Answers
        /\ \/ /\ answer' = [answer EXCEPT ![t] = [to |-> job[t], is |-> r]]
              /\ job' = [job EXCEPT ![t] = NoReport] /\ pc' = [pc EXCEPT ![t] = "idle"]
           \/ /\ answer' = [answer EXCEPT ![t] = NoReport]
              /\ job' = job /\ pc' = [pc EXCEPT ![t] = "scan"]
    BY <1>2, <2>1, <2>2 DEF Answer, Goto, Answers
  <2>5. /\ Others(t) /\ pc'[t] \in {"idle", "scan"}
        /\ pc'[t] = "scan" => job'[t] = job[t]
        /\ pc' \in [Threads -> ThreadSteps]
        /\ job' \in [Threads -> Reports \cup {NoReport}]
        /\ answer' \in [Threads -> Answers \cup {NoReport}]
    BY <1>1, <2>4 DEF Lookups, Others, ThreadSteps
  <2>6. Lookups'
    BY <1>1, <1>2, <2>5, LookupsAt DEF Lookups, restVars
  <2>7. QED
    BY <1>1, <2>3, <2>5, <2>6, QueueKept, FilesKept, RowsKept, EvictionsKeptOn, CommandKept
       DEF restVars, fileVars
<1>5. QED
  BY <1>3, <1>4

LEMMA OpenConnKeeps == ASSUME CacheInv, NEW t \in Threads, OpenConn(t) PROVE CacheInv'
<1> USE DEF CacheInv
<1>1. /\ pc[t] = "conn"
      /\ UNCHANGED <<job, seen, found, writerVars, memoVars, fileVars, evictVars, restVars>>
  BY DEF OpenConn
<1>2. phase = "run" /\ job[t] \in Reports /\ file \in 1..Files
  BY <1>1 DEF Lookups, FilesLeft
<1>3. \/ /\ conn' = [conn EXCEPT ![t] = file] /\ pc' = [pc EXCEPT ![t] = "read"] /\ answer' = answer
      \/ /\ answer' = [answer EXCEPT ![t] = NoReport] /\ pc' = [pc EXCEPT ![t] = "scan"] /\ conn' = conn
      \/ /\ bad /\ pc' = [pc EXCEPT ![t] = "repair"] /\ conn' = conn /\ answer' = answer
  BY DEF OpenConn, Missed, Goto
<1>4. /\ Others(t) /\ pc'[t] \in {"read", "scan", "repair"}
      /\ pc'[t] = "read" => conn'[t] # 0
      /\ pc'[t] = "repair" => bad
      /\ pc' \in [Threads -> ThreadSteps]
      /\ answer' \in [Threads -> Answers \cup {NoReport}]
      /\ conn' \in [Threads -> 0..Files]
  BY <1>1, <1>2, <1>3, LimitFacts DEF Lookups, Others, ThreadSteps
<1>5. Lookups'
  BY <1>1, <1>2, <1>4, LookupsAt DEF Lookups, restVars
<1>6. FilesLeft'
  <2>1. CASE pc'[t] # "repair"
    BY <1>1, <1>4, <2>1, FilesKept DEF fileVars
  <2>2. CASE pc'[t] = "repair"
    <3>1. file + Cardinality(Threads) <= Files /\ file' = file /\ bad' = bad
      BY <1>1, <1>4, <2>2 DEF FilesLeft, fileVars
    <3>2. Cardinality(Repairing') <= Cardinality(Threads) /\ Cardinality(Repairing') \in Nat
      BY LimitFacts, FS_Subset, FS_CardinalityType DEF Repairing
    <3>3. file + Cardinality(Repairing') <= Files
      BY <1>2, <3>1, <3>2, LimitFacts
    <3>4. QED
      BY <3>1, <3>3 DEF FilesLeft, Repairing
  <2>3. QED
    BY <2>1, <2>2
<1>7. QED
  BY <1>1, <1>4, <1>5, <1>6, QueueKept, MemoKept, RowsKept, EvictionsKeptOn, CommandKept
     DEF restVars, fileVars

LEMMA RepairKeeps == ASSUME CacheInv, NEW t \in Threads, Repair(t) PROVE CacheInv'
<1> USE DEF CacheInv
<1>1. /\ pc[t] = "repair" /\ file' = file + 1 /\ bad' = FALSE
      /\ conn' = [conn EXCEPT ![t] = file + 1] /\ pc' = [pc EXCEPT ![t] = "read"]
      /\ UNCHANGED <<job, seen, found, answer, disk, writerVars, memoVars, evictVars, restVars>>
  BY DEF Repair, Goto
<1>2. phase = "run" /\ job[t] \in Reports /\ file \in 1..Files
  BY <1>1 DEF Lookups, FilesLeft
<1>3. Others(t) /\ pc'[t] = "read"
  BY <1>1 DEF Lookups, Others
<1>4. /\ Repairing' = Repairing \ {t} /\ t \in Repairing
  BY <1>1, <1>3 DEF Repairing, Others
<1>5. Cardinality(Repairing') = Cardinality(Repairing) - 1 /\ Cardinality(Repairing') \in Nat
      /\ Cardinality(Repairing) \in Nat
  BY <1>4, RepairingFinite, FS_RemoveElement, FS_CardinalityType
<1>6. file + Cardinality(Repairing) <= Files /\ Files \in Nat
  BY LimitFacts DEF FilesLeft
<1>7. file + 1 \in 1..Files /\ file + 1 + Cardinality(Repairing') <= Files
  BY <1>2, <1>5, <1>6
<1>8. FilesLeft'
  BY <1>1, <1>7 DEF FilesLeft, Repairing
<1>9. Lookups'
  <2>1. /\ pc' \in [Threads -> ThreadSteps] /\ conn' \in [Threads -> 0..Files]
        /\ conn'[t] = file + 1 /\ file + 1 # 0
    BY <1>1, <1>2, <1>7 DEF Lookups, ThreadSteps
  <2>2. QED
    BY <1>1, <1>2, <1>3, <2>1, LookupsAt DEF Lookups, restVars
<1>10. QED
  BY <1>1, <1>3, <1>8, <1>9, QueueKept, MemoKept, RowsKept, EvictionsKeptOn, CommandKept
     DEF restVars

LEMMA ReadTableKeeps == ASSUME CacheInv, NEW t \in Threads, ReadTable(t) PROVE CacheInv'
<1> USE DEF CacheInv
<1>1. /\ pc[t] = "read"
      /\ UNCHANGED <<job, seen, conn, file, bad, writerVars, memoVars, evictVars, restVars>>
  BY DEF ReadTable
<1>2. phase = "run" /\ job[t] \in Reports /\ conn[t] \in 1..Files
  BY <1>1, LimitFacts DEF Lookups
<1>3. disk[conn[t]] \in Seq(Reports) /\ Unique(disk[conn[t]])
  BY <1>2 DEF Rows
<1>4. CASE pc' = [pc EXCEPT ![t] = "scan"] /\ answer' = [answer EXCEPT ![t] = NoReport]
           /\ UNCHANGED <<found, disk>>
  <2>1. /\ Others(t) /\ pc'[t] = "scan" /\ pc' \in [Threads -> ThreadSteps]
        /\ answer' \in [Threads -> Answers \cup {NoReport}]
    BY <1>1, <1>4 DEF Lookups, Others, ThreadSteps
  <2>2. Lookups'
    BY <1>1, <1>2, <1>4, <2>1, LookupsAt DEF Lookups, restVars
  <2>3. QED
    BY <1>1, <1>4, <2>1, <2>2, QueueKept, MemoKept, FilesKept, RowsKept, EvictionsKeptOn, CommandKept
       DEF restVars
<1>5. CASE \E r \in RowsFor(disk[conn[t]], job[t].key) :
             /\ found' = [found EXCEPT ![t] = r]
             /\ \/ disk' = [disk EXCEPT ![conn[t]] = Upsert(@, r)]
                \/ UNCHANGED disk
             /\ Goto(t, "put")
             /\ UNCHANGED answer
  <2>1. PICK r \in RowsFor(disk[conn[t]], job[t].key) :
             /\ found' = [found EXCEPT ![t] = r]
             /\ \/ disk' = [disk EXCEPT ![conn[t]] = Upsert(@, r)]
                \/ UNCHANGED disk
             /\ Goto(t, "put")
             /\ UNCHANGED answer
    BY <1>5
  <2>2. r \in Reports /\ r.key = job[t].key
    BY <1>3, SeqFacts DEF RowsFor
  <2>3. /\ Others(t) /\ pc'[t] = "put" /\ pc' \in [Threads -> ThreadSteps]
        /\ found'[t] = r /\ found' \in [Threads -> Reports \cup {NoReport}]
    BY <1>1, <2>1, <2>2 DEF Lookups, Others, ThreadSteps, Goto
  <2>4. Lookups'
    BY <1>1, <1>2, <2>1, <2>2, <2>3, LookupsAt DEF Lookups, restVars
  <2>5. Rows' /\ \A f \in 1..Files : Len(disk'[f]) >= Len(disk[f])
    <3>1. CASE disk' = disk
      BY <3>1, RowsKept, SameLengths
    <3>2. CASE disk' = [disk EXCEPT ![conn[t]] = Upsert(@, r)]
      <4>1. /\ Upsert(disk[conn[t]], r) \in Seq(Reports) /\ Unique(Upsert(disk[conn[t]], r))
            /\ Len(Upsert(disk[conn[t]], r)) >= Len(disk[conn[t]])
        BY <1>3, <2>2, UpsertFacts
      <4>2. Rows' /\ disk'[conn[t]] = Upsert(disk[conn[t]], r)
            /\ \A f \in 1..Files : f # conn[t] => disk'[f] = disk[f]
        BY <1>2, <3>2, <4>1, FileFacts
      <4>3. \A f \in 1..Files : Len(disk[f]) >= Len(disk[f])
        BY SameLengths
      <4>4. QED
        BY <4>1, <4>2, <4>3
    <3>3. QED
      BY <2>1, <3>1, <3>2
  <2>6. Evictions'
    BY <1>1, <2>5, EvictionsKept DEF Rows
  <2>7. QED
    BY <1>1, <2>3, <2>4, <2>5, <2>6, QueueKept, MemoKept, FilesKept, CommandKept
       DEF restVars
<1>6. QED
  BY <1>4, <1>5 DEF ReadTable, Missed, Goto

LEMMA PutMemoKeeps == ASSUME CacheInv, NEW t \in Threads, PutMemo(t) PROVE CacheInv'
<1> USE DEF CacheInv
<1>1. /\ pc[t] = "put" /\ MemoInsert(found[t]) /\ Answer(t, found[t])
      /\ found' = [found EXCEPT ![t] = NoReport]
      /\ UNCHANGED <<seen, conn, writerVars, fileVars, evictVars, restVars>>
  BY DEF PutMemo
<1>2. phase = "run" /\ job[t] \in Reports /\ found[t] \in Reports
  BY <1>1 DEF Lookups
<1>3. Memo'
  BY <1>1, <1>2, MemoInsertFacts
<1>4. /\ [to |-> job[t], is |-> found[t]] \in Answers
      /\ \/ /\ answer' = [answer EXCEPT ![t] = [to |-> job[t], is |-> found[t]]]
            /\ job' = [job EXCEPT ![t] = NoReport] /\ pc' = [pc EXCEPT ![t] = "idle"]
         \/ /\ answer' = [answer EXCEPT ![t] = NoReport]
            /\ job' = job /\ pc' = [pc EXCEPT ![t] = "scan"]
  BY <1>1, <1>2 DEF Answer, Goto, Answers
<1>5. /\ Others(t) /\ pc'[t] \in {"idle", "scan"}
      /\ pc'[t] = "scan" => job'[t] = job[t]
      /\ pc' \in [Threads -> ThreadSteps]
      /\ job' \in [Threads -> Reports \cup {NoReport}]
      /\ found' \in [Threads -> Reports \cup {NoReport}]
      /\ answer' \in [Threads -> Answers \cup {NoReport}]
  BY <1>1, <1>4 DEF Lookups, Others, ThreadSteps
<1>6. Lookups'
  BY <1>1, <1>2, <1>5, LookupsAt DEF Lookups, restVars
<1>7. QED
  BY <1>1, <1>3, <1>5, <1>6, QueueKept, FilesKept, RowsKept, EvictionsKeptOn, CommandKept
     DEF restVars, fileVars

-----------------------------------------------------------------------------
(* A scan and a store.                                                     *)

LEMMA ScanKeeps == ASSUME CacheInv, NEW t \in Threads, Scan(t) PROVE CacheInv'
<1> USE DEF CacheInv
<1>1. PICK q \in Qualities : /\ job' = [job EXCEPT ![t].quality = q]
                             /\ breaker' = (breaker \/ q = "weak")
  BY DEF Scan
<1>2. /\ pc[t] = "scan" /\ pc' = [pc EXCEPT ![t] = "store"]
      /\ UNCHANGED <<seen, found, answer, conn, loads, phase, late, boots, left,
                     writerVars, memoVars, fileVars, evictVars>>
  BY DEF Scan, Goto
<1>3. phase = "run" /\ job[t] \in Reports
  BY <1>2 DEF Lookups
<1>4. [job[t] EXCEPT !.quality = q] \in Reports
  BY <1>3 DEF Reports
<1>5. /\ Others(t) /\ pc'[t] = "store" /\ pc' \in [Threads -> ThreadSteps]
      /\ job'[t] = [job[t] EXCEPT !.quality = q]
      /\ job' \in [Threads -> Reports \cup {NoReport}]
  BY <1>1, <1>2, <1>4 DEF Lookups, Others, ThreadSteps
<1>6. Lookups'
  BY <1>2, <1>3, <1>4, <1>5, LookupsAt DEF Lookups
<1>7. Command'
  BY <1>1, <1>2 DEF Command
<1>8. QED
  BY <1>2, <1>5, <1>6, <1>7, QueueKept, MemoKept, FilesKept, RowsKept, EvictionsKeptOn DEF fileVars

LEMMA StoreBeginKeeps == ASSUME CacheInv, NEW t \in Threads, StoreBegin(t) PROVE CacheInv'
<1> USE DEF CacheInv
<1>1. /\ pc[t] = "store"
      /\ UNCHANGED <<found, answer, conn, writerVars, memoVars, fileVars, evictVars, restVars>>
      /\ \/ /\ job' = [job EXCEPT ![t] = NoReport] /\ pc' = [pc EXCEPT ![t] = "idle"] /\ seen' = seen
         \/ /\ pc' = [pc EXCEPT ![t] = "count"] /\ seen' = seen /\ job' = job
         \/ /\ pc' = [pc EXCEPT ![t] = "reserve"] /\ seen' = [seen EXCEPT ![t] = pending] /\ job' = job
  BY DEF StoreBegin, Goto
<1>2. phase = "run" /\ job[t] \in Reports /\ pending \in 0..MaxBytes
  BY <1>1 DEF Lookups, Queue
<1>3. /\ Others(t) /\ pc'[t] \in {"idle", "count", "reserve"}
      /\ pc'[t] # "idle" => job'[t] = job[t]
      /\ pc' \in [Threads -> ThreadSteps]
      /\ job' \in [Threads -> Reports \cup {NoReport}]
      /\ seen' \in [Threads -> 0..MaxBytes]
  BY <1>1, <1>2 DEF Lookups, Others, ThreadSteps, StoreSteps
<1>4. Lookups'
  BY <1>1, <1>2, <1>3, LookupsAt DEF Lookups, restVars
<1>5. QED
  BY <1>1, <1>3, <1>4, QueueKept, MemoKept, FilesKept, RowsKept, EvictionsKeptOn, CommandKept
     DEF restVars, fileVars

LEMMA ChargedHolds ==
  ASSUME Lookups
  PROVE  Holds(job, Charged) /\ BytesAt(job, Charged) \in Nat
<1>1. IsFiniteSet(Charged)
  BY LimitFacts, FS_Subset DEF Charged
<1>2. Holds(job, Charged)
  BY <1>1 DEF Charged, Lookups, Holds
<1>3. QED
  BY <1>2, RoomFinite

LEMMA ReserveKeeps == ASSUME CacheInv, NEW t \in Threads, Reserve(t) PROVE CacheInv'
<1> USE DEF CacheInv
<1>1. /\ pc[t] = "reserve"
      /\ UNCHANGED <<job, found, answer, conn, chan, batch, wpc, wconn, memoVars, fileVars,
                     evictVars, restVars>>
  BY DEF Reserve
<1>2. phase = "run" /\ job[t] \in Reports /\ pending \in 0..MaxBytes /\ seen[t] \in 0..MaxBytes
      /\ Bytes(job[t]) \in Nat /\ MaxBytes \in Nat
  BY <1>1, BytesPositive, LimitFacts DEF Lookups, Queue
<1>3. CASE /\ pending' = pending
           /\ \/ pc' = [pc EXCEPT ![t] = "count"] /\ seen' = [seen EXCEPT ![t] = 0]
              \/ pc' = pc /\ seen' = [seen EXCEPT ![t] = pending]
  <2>1. /\ Others(t) /\ pc'[t] \in {"count", "reserve"}
        /\ pc' \in [Threads -> ThreadSteps]
        /\ seen' \in [Threads -> 0..MaxBytes]
    BY <1>1, <1>2, <1>3 DEF Lookups, Others, ThreadSteps, StoreSteps
  <2>2. Lookups'
    BY <1>1, <1>2, <2>1, LookupsAt DEF Lookups, restVars
  <2>3. UNCHANGED <<writerVars, phase, late>>
    BY <1>1, <1>3 DEF writerVars, restVars
  <2>4. QED
    BY <1>1, <2>1, <2>2, <2>3, QueueKept, MemoKept, FilesKept, RowsKept, EvictionsKeptOn, CommandKept
       DEF restVars, fileVars
<1>4. CASE /\ seen[t] + Bytes(job[t]) <= MaxBytes /\ pending = seen[t]
           /\ pc' = [pc EXCEPT ![t] = "send"] /\ pending' = seen[t] + Bytes(job[t])
           /\ seen' = [seen EXCEPT ![t] = 0]
  <2>1. /\ Others(t) /\ pc'[t] = "send"
        /\ pc' \in [Threads -> ThreadSteps]
        /\ seen' \in [Threads -> 0..MaxBytes]
    BY <1>1, <1>2, <1>4 DEF Lookups, Others, ThreadSteps, StoreSteps
  <2>2. Lookups'
    BY <1>1, <1>2, <2>1, LookupsAt DEF Lookups, restVars
  <2>3. Charged' = Charged \cup {t} /\ t \notin Charged
    BY <1>1, <2>1 DEF Charged, Others
  <2>4. BytesAt(job, Charged') = BytesAt(job, Charged) + Bytes(job[t])
    BY <1>2, <2>3, ChargedHolds, BytesOfMore
  <2>5. /\ BytesAt(job, Charged) \in Nat /\ TotalBytes(chan) \in Nat /\ TotalBytes(batch) \in Nat
        /\ pending = BytesAt(job, Charged) + TotalBytes(chan) + TotalBytes(batch)
    BY ChargedHolds, SeqFacts DEF Queue
  <2>6. pending' = BytesAt(job, Charged') + TotalBytes(chan) + TotalBytes(batch)
        /\ pending' \in 0..MaxBytes
    BY <1>2, <1>4, <2>4, <2>5
  <2>7. pending' = BytesAt(job', Charged') + TotalBytes(chan') + TotalBytes(batch')
    BY <1>1, <2>6
  <2>8. Queue'
    BY <1>1, <1>2, <2>6, <2>7 DEF Queue, restVars, Charged, BytesAt, TotalBytes
  <2>9. QED
    BY <1>1, <2>1, <2>2, <2>8, MemoKept, FilesKept, RowsKept, EvictionsKeptOn, CommandKept
       DEF restVars, fileVars
<1>5. QED
  <2>1. \/ seen[t] + Bytes(job[t]) <= MaxBytes
        \/ seen[t] + Bytes(job[t]) > MaxBytes
    BY <1>2
  <2>2. QED
    BY <1>3, <1>4, <2>1 DEF Reserve, Goto

LEMMA SendKeeps == ASSUME CacheInv, NEW t \in Threads, Send(t) PROVE CacheInv'
<1> USE DEF CacheInv
<1>1. /\ pc[t] = "send" /\ pc' = [pc EXCEPT ![t] = "count"]
      /\ UNCHANGED <<job, seen, found, answer, conn, batch, wpc, wconn, memoVars, fileVars,
                     evictVars, restVars>>
  BY DEF Send, Goto
<1>2. phase = "run" /\ job[t] \in Reports /\ Bytes(job[t]) \in Nat
      /\ pending \in 0..MaxBytes /\ MaxBytes \in Nat /\ ChanCap \in Nat
  BY <1>1, BytesPositive, LimitFacts DEF Lookups, Queue
<1>3. /\ Others(t) /\ pc'[t] = "count" /\ pc' \in [Threads -> ThreadSteps]
  BY <1>1 DEF Lookups, Others, ThreadSteps, StoreSteps
<1>4. Lookups'
  BY <1>1, <1>2, <1>3, LookupsAt DEF Lookups, restVars
<1>5. Charged = Charged' \cup {t} /\ t \notin Charged' /\ Charged' \subseteq Charged
  BY <1>1, <1>3 DEF Charged, Others
<1>6. Holds(job, Charged')
  BY <1>5, ChargedHolds, FS_Subset DEF Holds
<1>7. BytesAt(job, Charged) = BytesAt(job, Charged') + Bytes(job[t]) /\ BytesAt(job, Charged') \in Nat
  <2>1. BytesAt(job, Charged' \cup {t}) = BytesAt(job, Charged') + Bytes(job[t])
    BY <1>2, <1>5, <1>6, BytesOfMore
  <2>2. QED
    BY <1>5, <1>6, <2>1, RoomFinite
<1>8. /\ TotalBytes(chan) \in Nat /\ TotalBytes(batch) \in Nat /\ chan \in Seq(Reports) /\ Len(chan) \in Nat
      /\ pending = BytesAt(job, Charged) + TotalBytes(chan) + TotalBytes(batch)
  BY SeqFacts DEF Queue
<1>9. CASE Len(chan) < ChanCap /\ chan' = Append(chan, job[t]) /\ pending' = pending
  <2>1. /\ chan' \in Seq(Reports) /\ Len(chan') = Len(chan) + 1
        /\ TotalBytes(chan') = TotalBytes(chan) + Bytes(job[t])
    BY <1>2, <1>8, <1>9, AppendFacts
  <2>2. Len(chan') <= ChanCap
    BY <1>2, <1>8, <1>9, <2>1
  <2>3. pending' = BytesAt(job, Charged') + TotalBytes(chan') + TotalBytes(batch)
    BY <1>2, <1>7, <1>8, <1>9, <2>1
  <2>4. pending' = BytesAt(job', Charged') + TotalBytes(chan') + TotalBytes(batch')
    BY <1>1, <2>3
  <2>5. Queue'
    BY <1>1, <1>2, <1>9, <2>1, <2>2, <2>4 DEF Queue, restVars, Charged, BytesAt, TotalBytes
  <2>6. QED
    BY <1>1, <1>3, <1>4, <2>5, MemoKept, FilesKept, RowsKept, EvictionsKeptOn, CommandKept
       DEF restVars, fileVars
<1>10. CASE pending' = pending - Bytes(job[t]) /\ chan' = chan
  <2>1. pending' = BytesAt(job, Charged') + TotalBytes(chan) + TotalBytes(batch)
        /\ pending' \in 0..MaxBytes
    BY <1>2, <1>7, <1>8, <1>10
  <2>2. pending' = BytesAt(job', Charged') + TotalBytes(chan') + TotalBytes(batch')
    BY <1>1, <1>10, <2>1
  <2>3. Queue'
    BY <1>1, <1>2, <1>10, <2>1, <2>2 DEF Queue, restVars, Charged, BytesAt, TotalBytes
  <2>4. QED
    BY <1>1, <1>3, <1>4, <2>3, MemoKept, FilesKept, RowsKept, EvictionsKeptOn, CommandKept
       DEF restVars, fileVars
<1>11. QED
  BY <1>9, <1>10 DEF Send

LEMMA KeepInMemoKeeps == ASSUME CacheInv, NEW t \in Threads, KeepInMemo(t) PROVE CacheInv'
<1> USE DEF CacheInv
<1>1. /\ pc[t] = "keep" /\ MemoInsert(job[t])
      /\ job' = [job EXCEPT ![t] = NoReport] /\ pc' = [pc EXCEPT ![t] = "idle"]
      /\ UNCHANGED <<seen, found, answer, conn, writerVars, fileVars, evictVars, restVars>>
  BY DEF KeepInMemo, Goto
<1>2. job[t] \in Reports
  BY <1>1 DEF Lookups
<1>3. Memo'
  BY <1>1, <1>2, MemoInsertFacts
<1>4. /\ Others(t) /\ pc'[t] = "idle"
      /\ pc' \in [Threads -> ThreadSteps] /\ job' \in [Threads -> Reports \cup {NoReport}]
  BY <1>1 DEF Lookups, Others, ThreadSteps
<1>5. Lookups'
  BY <1>1, <1>4, LookupsAt DEF Lookups, restVars
<1>6. QED
  BY <1>1, <1>3, <1>4, <1>5, QueueKept, FilesKept, RowsKept, EvictionsKeptOn, CommandKept
     DEF restVars, fileVars

\* An eviction starts only where none is running.
LEMMA CountStoreKeeps == ASSUME CacheInv, NEW t \in Threads, CountStore(t) PROVE CacheInv'
<1> USE DEF CacheInv
<1>1. /\ pc[t] = "count" /\ SpawnEviction(t) /\ count' = (count + 1) % Interval
      /\ pc' = [pc EXCEPT ![t] = "keep"]
      /\ UNCHANGED <<job, seen, found, answer, conn, writerVars, memoVars, fileVars, restVars>>
  BY DEF CountStore, Goto
<1>2. phase = "run" /\ job[t] \in Reports
  BY <1>1 DEF Lookups
<1>3. /\ Others(t) /\ pc'[t] = "keep" /\ pc' \in [Threads -> ThreadSteps]
  BY <1>1 DEF Lookups, Others, ThreadSteps, StoreSteps
<1>4. Lookups'
  BY <1>1, <1>2, <1>3, LookupsAt DEF Lookups, restVars
<1>5. count' \in 0..(Interval - 1)
  <2>1. count + 1 \in Nat /\ Interval \in Nat \ {0}
    BY LimitFacts DEF Evictions
  <2>2. QED
    BY <1>1, <2>1
<1>6. Evictions'
  <2>1. CASE UNCHANGED <<evict, evicting>>
    BY <1>1, <1>5, <2>1 DEF Evictions, fileVars
  <2>2. CASE /\ ~evicting /\ evicting' = TRUE
             /\ evict' = [evict EXCEPT ![t] = [NoEviction EXCEPT !.at = "open"]]
    <3>1. \A u \in Threads : evict[u].at = "off"
      BY <2>2 DEF Evictions
    <3>2. [NoEviction EXCEPT !.at = "open"] = [at |-> "open", on |-> 0, rows |-> 0]
      BY DEF NoEviction
    <3>3. [at |-> "open", on |-> 0, rows |-> 0] \in [at : EvictSteps, on : 0..Files, rows : Nat]
      BY LimitFacts DEF EvictSteps
    <3>4. /\ evict' \in [Threads -> [at : EvictSteps, on : 0..Files, rows : Nat]]
          /\ \A u \in Threads : evict'[u].at = IF u = t THEN "open" ELSE "off"
      BY <2>2, <3>1, <3>2, <3>3 DEF Evictions
    <3>5. QED
      BY <1>5, <2>2, <3>4 DEF Evictions
  <2>3. QED
    BY <1>1, <2>1, <2>2 DEF SpawnEviction
<1>7. QED
  BY <1>1, <1>3, <1>4, <1>6, QueueKept, MemoKept, FilesKept, RowsKept, CommandKept
     DEF restVars, fileVars

-----------------------------------------------------------------------------
(* The writer.                                                             *)

LEMMA LookupsStay == ASSUME Lookups, UNCHANGED <<threadVars, phase>> PROVE Lookups'
BY DEF Lookups, threadVars

LEMMA FilesStay == ASSUME FilesLeft, UNCHANGED <<pc, file, bad>> PROVE FilesLeft'
BY DEF FilesLeft, Repairing

LEMMA BudgetStays ==
  ASSUME Lookups, UNCHANGED threadVars
  PROVE  BytesAt(job', Charged') = BytesAt(job, Charged)
BY DEF threadVars, Charged

LEMMA WriterTakeKeeps == ASSUME CacheInv, WriterTake PROVE CacheInv'
<1> USE DEF CacheInv
<1> DEFINE n == IF Len(chan) < BatchCap THEN Len(chan) ELSE BatchCap
<1>1. /\ wpc = "recv" /\ chan # <<>> /\ phase # "over" /\ wpc' = "persist"
      /\ batch' = SubSeq(chan, 1, n) /\ chan' = DropFirst(chan, n)
      /\ UNCHANGED <<pending, wconn, threadVars, memoVars, fileVars, evictVars, restVars>>
  BY DEF WriterTake
<1>2. chan \in Seq(Reports) /\ Len(chan) \in Nat /\ BatchCap \in Nat \ {0} /\ Len(chan) <= ChanCap
      /\ ChanCap \in Nat /\ Len(chan) # 0
  <2>1. chan \in Seq(Reports)
    BY DEF Queue
  <2>2. QED
    BY <1>1, <2>1, SeqFacts, LimitFacts, EmptySeq DEF Queue
<1>3. n \in 0..Len(chan) /\ n <= BatchCap /\ n # 0
  BY <1>2
<1> HIDE DEF n
<1>4. /\ batch' \in Seq(Reports) /\ Len(batch') = n
      /\ chan' \in Seq(Reports) /\ Len(chan') = Len(chan) - n
      /\ TotalBytes(chan) = TotalBytes(batch') + TotalBytes(chan')
  BY <1>1, <1>2, <1>3, HalvesFacts
<1>5. Len(batch') <= BatchCap /\ Len(chan') <= ChanCap /\ batch' # <<>>
  <2>1. Len(<<>>) = 0
    BY EmptySeq
  <2>2. QED
    BY <1>2, <1>3, <1>4, <2>1
<1>6. /\ pending = BytesAt(job, Charged) + TotalBytes(chan) + TotalBytes(batch)
      /\ batch = <<>> /\ BytesAt(job, Charged) \in Nat
      /\ TotalBytes(batch') \in Nat /\ TotalBytes(chan') \in Nat
  BY <1>1, <1>4, ChargedHolds, SeqFacts DEF Queue
<1>7. pending = BytesAt(job, Charged) + TotalBytes(chan') + TotalBytes(batch')
  <2>1. TotalBytes(batch) = 0
    BY <1>6, NothingWeighsNothing
  <2>2. QED
    BY <1>4, <1>6, <2>1
<1>8. pending' = BytesAt(job', Charged') + TotalBytes(chan') + TotalBytes(batch')
  BY <1>1, <1>7, BudgetStays
<1>9. Queue'
  BY <1>1, <1>4, <1>5, <1>8 DEF Queue, restVars, Charged, BytesAt, TotalBytes
<1>10. QED
  BY <1>1, <1>9, LookupsStay, FilesStay, MemoKept, RowsKept, EvictionsKeptOn, CommandKept
     DEF restVars, fileVars, threadVars

LEMMA WriterPersistKeeps == ASSUME CacheInv, WriterPersist PROVE CacheInv'
<1> USE DEF CacheInv
<1>1. /\ wpc = "persist" /\ phase # "over" /\ wpc' = "release"
      /\ UNCHANGED <<pending, chan, batch, threadVars, memoVars, file, bad, evictVars, restVars>>
  BY DEF WriterPersist
<1>2. PICK c \in {wconn, IF wconn # 0 \/ bad THEN wconn ELSE file} :
          /\ wconn' = c
          /\ \/ /\ c # 0
                /\ \E kept \in SUBSET DOMAIN batch :
                      disk' = [disk EXCEPT ![c] = Latest(@ \o Pick(batch, kept))]
             \/ UNCHANGED disk
  BY DEF WriterPersist
<1>3. c \in 0..Files
  <2>1. Files \in Nat /\ wconn \in 0..Files /\ file \in 1..Files
    BY LimitFacts DEF Queue, FilesLeft
  <2>2. c = wconn \/ c = file
    BY <1>2
  <2> HIDE DEF CacheInv
  <2>3. QED
    BY <2>1, <2>2
<1>4. Rows' /\ \A f \in 1..Files : Len(disk'[f]) >= Len(disk[f])
  <2>1. CASE disk' = disk
    BY <2>1, RowsKept, SameLengths
  <2>2. CASE c # 0 /\ \E kept \in SUBSET DOMAIN batch :
                      disk' = [disk EXCEPT ![c] = Latest(@ \o Pick(batch, kept))]
    <3>1. PICK kept \in SUBSET DOMAIN batch :
                      disk' = [disk EXCEPT ![c] = Latest(@ \o Pick(batch, kept))]
      BY <2>2
    <3>2. Pick(batch, kept) \in Seq(Reports)
      BY PickFacts DEF Queue
    <3>3. c \in 1..Files
      BY <1>3, <2>2, LimitFacts
    <3>4. QED
      BY <3>1, <3>2, <3>3, MergeFacts
  <2>3. QED
    BY <1>2, <2>1, <2>2
<1>5. Evictions'
  BY <1>1, <1>4, EvictionsKept DEF Rows
<1>6. pending' = BytesAt(job', Charged') + TotalBytes(chan') + TotalBytes(batch')
  BY <1>1, BudgetStays DEF Queue
<1>7. Queue'
  BY <1>1, <1>2, <1>3, <1>6 DEF Queue, restVars, Charged, BytesAt, TotalBytes
<1>8. QED
  BY <1>1, <1>4, <1>5, <1>7, LookupsStay, FilesStay, MemoKept, CommandKept DEF restVars, threadVars

LEMMA WriterReleaseKeeps == ASSUME CacheInv, WriterRelease PROVE CacheInv'
<1> USE DEF CacheInv
<1>1. /\ wpc = "release" /\ phase # "over" /\ wpc' = "recv"
      /\ pending' = pending - TotalBytes(batch) /\ batch' = <<>>
      /\ UNCHANGED <<chan, wconn, threadVars, memoVars, fileVars, evictVars, restVars>>
  BY DEF WriterRelease
<1>2. /\ pending = BytesAt(job, Charged) + TotalBytes(chan) + TotalBytes(batch)
      /\ BytesAt(job, Charged) \in Nat /\ TotalBytes(chan) \in Nat /\ TotalBytes(batch) \in Nat
      /\ pending \in 0..MaxBytes /\ MaxBytes \in Nat /\ BatchCap \in Nat
  BY ChargedHolds, SeqFacts, LimitFacts DEF Queue
<1>3. TotalBytes(batch') = 0 /\ Len(batch') = 0 /\ batch' \in Seq(Reports)
  BY <1>1, NothingWeighsNothing, EmptySeq
<1>4. pending' = BytesAt(job, Charged) + TotalBytes(chan) + TotalBytes(batch')
      /\ pending' \in 0..MaxBytes /\ Len(batch') <= BatchCap
  BY <1>1, <1>2, <1>3
<1>5. pending' = BytesAt(job', Charged') + TotalBytes(chan') + TotalBytes(batch')
  BY <1>1, <1>4, BudgetStays
<1>6. Queue'
  BY <1>1, <1>3, <1>4, <1>5 DEF Queue, restVars, Charged, BytesAt, TotalBytes
<1>7. QED
  BY <1>1, <1>6, LookupsStay, FilesStay, MemoKept, RowsKept, EvictionsKeptOn, CommandKept
     DEF restVars, fileVars, threadVars

-----------------------------------------------------------------------------
(* An eviction.                                                            *)

LEMMA QueueStays == ASSUME Queue, Lookups, UNCHANGED <<threadVars, writerVars, phase, late>> PROVE Queue'
<1>1. pending' = BytesAt(job', Charged') + TotalBytes(chan') + TotalBytes(batch')
  BY BudgetStays DEF Queue, writerVars
<1>2. QED
  BY <1>1 DEF Queue, writerVars, Charged, BytesAt, TotalBytes

\* What the other parts make of a step of an eviction.
LEMMA EvictionKeepsOthers ==
  ASSUME CacheInv, UNCHANGED <<threadVars, writerVars, memoVars, file, bad, restVars>>,
         Rows', Evictions'
  PROVE  CacheInv'
BY QueueStays, LookupsStay, FilesStay, MemoKept, CommandKept DEF CacheInv, restVars, threadVars

\* The running eviction goes on.
LEMMA EvictionGoesOn ==
  ASSUME Evictions, NEW t \in Threads, evict[t].at # "off", UNCHANGED <<evicting, count>>,
         NEW e \in [at : EvictSteps, on : 0..Files, rows : Nat],
         evict' = [evict EXCEPT ![t] = e],
         e.at \in {"count", "trim", "sum", "shrink"} => e.on \in 1..Files,
         e.at = "trim" => Len(disk'[e.on]) >= e.rows + RowTarget
  PROVE  Evictions'
<1>1. \A u \in Threads : u # t => evict[u].at = "off"
  BY DEF Evictions
<1>2. /\ evict' \in [Threads -> [at : EvictSteps, on : 0..Files, rows : Nat]]
      /\ \A u \in Threads : u # t => evict'[u].at = "off"
      /\ evict'[t] = e
  BY <1>1 DEF Evictions
<1>3. evicting
  BY DEF Evictions
<1>4. \A u \in Threads : evict'[u].at # "off" => u = t
  BY <1>2
<1>5. QED
  BY <1>2, <1>3, <1>4 DEF Evictions

LEMMA EvictionOver ==
  ASSUME Evictions, NEW t \in Threads, evict[t].at # "off", count' = count, EvictionEnds(t)
  PROVE  Evictions'
<1>1. \A u \in Threads : u # t => evict[u].at = "off"
  BY DEF Evictions
<1>2. NoEviction \in [at : EvictSteps, on : 0..Files, rows : Nat] /\ NoEviction.at = "off"
  BY LimitFacts DEF NoEviction, EvictSteps
<1>3. /\ evict' \in [Threads -> [at : EvictSteps, on : 0..Files, rows : Nat]]
      /\ \A u \in Threads : evict'[u].at = "off"
  BY <1>1, <1>2 DEF Evictions, EvictionEnds
<1>4. QED
  BY <1>3 DEF Evictions, EvictionEnds

LEMMA EvictIdleKeeps == ASSUME CacheInv, NEW t \in Threads, EvictIdle(t) PROVE CacheInv'
<1> USE DEF CacheInv
<1>1. /\ evict[t].at = "open"
      /\ UNCHANGED <<count, threadVars, writerVars, memoVars, file, bad, restVars>>
  BY DEF EvictIdle, EvictAt
<1>2. CASE /\ evict' = [evict EXCEPT ![t] = [at |-> "count", on |-> file, rows |-> 0]]
           /\ \E n \in 0..Len(disk[file]) : Delete(file, n)
           /\ UNCHANGED evicting
  <2>1. file \in 1..Files
    BY DEF FilesLeft
  <2>2. PICK n \in 0..Len(disk[file]) : Delete(file, n)
    BY <1>2
  <2>3. n \in Nat
    BY <2>1, SeqFacts DEF Rows
  <2>4. Rows'
    BY <2>1, <2>2, <2>3, DeleteFacts
  <2>5. Evictions'
    <3> DEFINE e == [at |-> "count", on |-> file, rows |-> 0]
    <3>1. /\ e \in [at : EvictSteps, on : 0..Files, rows : Nat]
          /\ e.at = "count" /\ e.on \in 1..Files
      BY <2>1, LimitFacts DEF EvictSteps
    <3>2. evict' = [evict EXCEPT ![t] = e] /\ evict[t].at # "off"
      BY <1>1, <1>2
    <3> HIDE DEF e
    <3>3. QED
      BY <1>1, <1>2, <3>1, <3>2, EvictionGoesOn
  <2>6. QED
    BY <1>1, <2>4, <2>5, EvictionKeepsOthers
<1>3. CASE EvictionEnds(t) /\ UNCHANGED disk
  BY <1>1, <1>3, EvictionOver, RowsKept, EvictionKeepsOthers
<1>4. QED
  BY <1>2, <1>3 DEF EvictIdle

LEMMA EvictCountKeeps == ASSUME CacheInv, NEW t \in Threads, EvictCount(t) PROVE CacheInv'
<1> USE DEF CacheInv
<1>1. /\ evict[t].at = "count"
      /\ UNCHANGED <<evicting, count, threadVars, writerVars, memoVars, fileVars, restVars>>
  BY DEF EvictCount, EvictAt
<1>2. evict[t].on \in 1..Files /\ disk[evict[t].on] \in Seq(Reports)
      /\ evict[t] \in [at : EvictSteps, on : 0..Files, rows : Nat]
  BY <1>1 DEF Evictions, Rows
<1>3. Len(disk[evict[t].on]) \in Nat
  BY <1>2, SeqFacts
<1> DEFINE total == Len(disk[evict[t].on])
<1>4. /\ disk' = disk
      /\ \/ /\ total > MaxRows
            /\ evict' = [evict EXCEPT ![t] = [evict[t] EXCEPT !.at = "trim", !.rows = total - RowTarget]]
         \/ /\ evict' = [evict EXCEPT ![t] = [evict[t] EXCEPT !.at = "sum", !.rows = 0]]
  BY <1>1 DEF EvictCount, EvictGoto, fileVars, Evictions
<1> HIDE DEF total
<1>5. CASE /\ total > MaxRows
           /\ evict' = [evict EXCEPT ![t] = [evict[t] EXCEPT !.at = "trim", !.rows = total - RowTarget]]
  <2> DEFINE e == [evict[t] EXCEPT !.at = "trim", !.rows = total - RowTarget]
  <2>1. total - RowTarget \in Nat /\ total >= (total - RowTarget) + RowTarget
    <3>1. total \in Nat /\ total > MaxRows
      BY <1>3, <1>5 DEF total
    <3>2. MaxRows \in Nat /\ RowTarget \in Nat /\ RowTarget <= MaxRows
      BY LimitFacts
    <3>3. QED
      BY <3>1, <3>2
  <2>2. e \in [at : EvictSteps, on : 0..Files, rows : Nat]
        /\ e.at = "trim" /\ e.on = evict[t].on /\ e.rows = total - RowTarget
    BY <1>2, <2>1 DEF EvictSteps
  <2>3. evict' = [evict EXCEPT ![t] = e] /\ evict[t].at # "off" /\ Len(disk'[e.on]) = total
    BY <1>1, <1>4, <1>5, <2>2 DEF total
  <2> HIDE DEF e
  <2>4. Evictions'
    BY <1>1, <1>2, <2>1, <2>2, <2>3, EvictionGoesOn
  <2>5. QED
    BY <1>1, <1>4, <2>4, RowsKept, EvictionKeepsOthers DEF fileVars
<1>6. CASE evict' = [evict EXCEPT ![t] = [evict[t] EXCEPT !.at = "sum", !.rows = 0]]
  <2> DEFINE e == [evict[t] EXCEPT !.at = "sum", !.rows = 0]
  <2>1. e \in [at : EvictSteps, on : 0..Files, rows : Nat] /\ e.at = "sum" /\ e.on = evict[t].on
    BY <1>2 DEF EvictSteps
  <2>2. evict' = [evict EXCEPT ![t] = e] /\ evict[t].at # "off"
    BY <1>1, <1>6
  <2> HIDE DEF e
  <2>3. Evictions'
    BY <1>1, <1>2, <2>1, <2>2, EvictionGoesOn
  <2>4. QED
    BY <1>1, <1>4, <2>3, RowsKept, EvictionKeepsOthers DEF fileVars
<1>7. QED
  BY <1>4, <1>5, <1>6

LEMMA EvictTrimKeeps == ASSUME CacheInv, NEW t \in Threads, EvictTrim(t) PROVE CacheInv'
<1> USE DEF CacheInv
<1>1. /\ evict[t].at = "trim" /\ Delete(evict[t].on, evict[t].rows)
      /\ evict' = [evict EXCEPT ![t] = [evict[t] EXCEPT !.at = "sum", !.rows = 0]]
      /\ UNCHANGED <<evicting, count, file, bad, threadVars, writerVars, memoVars, restVars>>
  BY DEF EvictTrim, EvictAt, EvictGoto, Evictions
<1>2. evict[t].on \in 1..Files /\ evict[t].rows \in Nat
      /\ evict[t] \in [at : EvictSteps, on : 0..Files, rows : Nat]
  BY <1>1 DEF Evictions
<1>3. Rows'
  BY <1>1, <1>2, DeleteFacts
<1> DEFINE e == [evict[t] EXCEPT !.at = "sum", !.rows = 0]
<1>4. e \in [at : EvictSteps, on : 0..Files, rows : Nat] /\ e.at = "sum" /\ e.on = evict[t].on
  BY <1>2 DEF EvictSteps
<1>5. evict' = [evict EXCEPT ![t] = e] /\ evict[t].at # "off"
  BY <1>1
<1> HIDE DEF e
<1>6. Evictions'
  BY <1>1, <1>2, <1>4, <1>5, EvictionGoesOn
<1>7. QED
  BY <1>1, <1>3, <1>6, EvictionKeepsOthers

\* The rows to shrink by are a number: a row weighs at least a byte.
LEMMA EvictSumKeeps == ASSUME CacheInv, NEW t \in Threads, EvictSum(t) PROVE CacheInv'
<1> USE DEF CacheInv
<1> DEFINE rows == disk[evict[t].on]
           used == TotalBytes(rows)
           n == IF rows = <<>> THEN 0 ELSE SatSub(used, ByteTarget) \div (used \div Len(rows))
<1>1. /\ evict[t].at = "sum"
      /\ UNCHANGED <<count, threadVars, writerVars, memoVars, fileVars, restVars>>
      /\ \/ n = 0 /\ EvictionEnds(t)
         \/ n # 0 /\ EvictGoto(t, "shrink", n) /\ UNCHANGED evicting
  BY DEF EvictSum, EvictAt
<1>2. evict[t].on \in 1..Files /\ rows \in Seq(Reports)
      /\ evict[t] \in [at : EvictSteps, on : 0..Files, rows : Nat]
  BY <1>1 DEF Evictions, Rows
<1>3. used \in Nat /\ Len(rows) \in Nat /\ Len(rows) <= used /\ ByteTarget \in Nat
  BY <1>2, SeqFacts, BytesAtLeast, LimitFacts
<1> HIDE DEF rows, used
<1>4. n \in Nat
  <2>1. CASE rows = <<>>
    BY <2>1
  <2>2. CASE rows # <<>>
    <3>1. Len(rows) # 0
      BY <1>2, <2>2, EmptySeq
    <3>2. used \div Len(rows) \in Nat \ {0}
      <4>1. \A x, y \in Nat : y # 0 /\ y <= x => x \div y \in Nat \ {0}
        OBVIOUS
      <4>2. QED
        BY <1>3, <3>1, <4>1
    <3>3. SatSub(used, ByteTarget) \in Nat
      BY <1>3 DEF SatSub
    <3>4. \A x \in Nat, y \in Nat \ {0} : x \div y \in Nat
      OBVIOUS
    <3>5. QED
      BY <2>2, <3>2, <3>3, <3>4
  <2>3. QED
    BY <2>1, <2>2
<1> HIDE DEF n
<1>5. CASE EvictionEnds(t)
  BY <1>1, <1>5, EvictionOver, RowsKept, EvictionKeepsOthers DEF fileVars
<1>6. CASE EvictGoto(t, "shrink", n) /\ UNCHANGED evicting
  <2> DEFINE e == [evict[t] EXCEPT !.at = "shrink", !.rows = n]
  <2>1. e \in [at : EvictSteps, on : 0..Files, rows : Nat] /\ e.at = "shrink" /\ e.on = evict[t].on
    BY <1>2, <1>4 DEF EvictSteps
  <2>2. evict' = [evict EXCEPT ![t] = e] /\ evict[t].at # "off"
    BY <1>1, <1>6 DEF EvictGoto, Evictions
  <2> HIDE DEF e
  <2>3. Evictions'
    BY <1>1, <1>2, <1>6, <2>1, <2>2, EvictionGoesOn
  <2>4. QED
    BY <1>1, <2>3, RowsKept, EvictionKeepsOthers DEF fileVars
<1>7. QED
  BY <1>1, <1>5, <1>6

LEMMA EvictShrinkKeeps == ASSUME CacheInv, NEW t \in Threads, EvictShrink(t) PROVE CacheInv'
<1> USE DEF CacheInv
<1>1. /\ evict[t].at = "shrink" /\ Delete(evict[t].on, evict[t].rows) /\ EvictionEnds(t)
      /\ UNCHANGED <<count, file, bad, threadVars, writerVars, memoVars, restVars>>
  BY DEF EvictShrink, EvictAt
<1>2. evict[t].on \in 1..Files /\ evict[t].rows \in Nat
  BY <1>1 DEF Evictions
<1>3. Rows'
  BY <1>1, <1>2, DeleteFacts
<1>4. QED
  BY <1>1, <1>3, EvictionOver, EvictionKeepsOthers

-----------------------------------------------------------------------------
(* The end of a command, and a new process.                                *)

LEMMA LoadRulesKeeps == ASSUME CacheInv, LoadRules PROVE CacheInv'
<1> USE DEF CacheInv
<1>1. /\ loads < Loads /\ loads' = loads + 1 /\ breaker' = FALSE
      /\ UNCHANGED <<phase, late, boots, left, threadVars, writerVars, memoVars, fileVars, evictVars>>
  BY DEF LoadRules
<1>2. Command'
  <2>1. loads + 1 \in 0..Loads
    BY <1>1, LimitFacts DEF Command
  <2>2. QED
    BY <1>1, <2>1 DEF Command
<1>3. QED
  BY <1>1, <1>2, QueueStays, LookupsStay, FilesStay, MemoKept, RowsKept, EvictionsKeptOn
     DEF fileVars, threadVars

LEMMA FlushKeeps == ASSUME CacheInv, FlushBegin \/ FlushDone \/ FlushDeadline PROVE CacheInv'
<1> USE DEF CacheInv
<1>1. /\ UNCHANGED <<breaker, loads, boots, left, threadVars, writerVars, memoVars, fileVars, evictVars>>
      /\ \/ phase' = "flush" /\ late' = late /\ \A t \in Threads : pc[t] = "idle"
         \/ phase = "flush" /\ phase' = "over" /\ late' = late /\ pending = 0
         \/ phase = "flush" /\ phase' = "over" /\ late' = TRUE
  BY DEF FlushBegin, FlushDone, FlushDeadline
<1>2. Lookups'
  BY <1>1 DEF Lookups, threadVars
<1>3. Command'
  BY <1>1 DEF Command
<1>4. phase' = "over" /\ ~late' => chan = <<>> /\ batch = <<>>
  <2>1. SUFFICES ASSUME pending = 0 PROVE chan = <<>> /\ batch = <<>>
    BY <1>1
  <2>2. /\ pending = BytesAt(job, Charged) + TotalBytes(chan) + TotalBytes(batch)
        /\ BytesAt(job, Charged) \in Nat /\ TotalBytes(chan) \in Nat /\ TotalBytes(batch) \in Nat
        /\ chan \in Seq(Reports) /\ batch \in Seq(Reports)
    BY ChargedHolds, SeqFacts DEF Queue
  <2>3. TotalBytes(chan) = 0 /\ TotalBytes(batch) = 0
    BY <2>1, <2>2
  <2>4. \A s \in Seq(Reports) : Len(s) \in Nat /\ Len(s) <= TotalBytes(s)
    BY SeqFacts, BytesAtLeast
  <2>5. Len(chan) = 0 /\ Len(batch) = 0
    BY <2>2, <2>3, <2>4
  <2>6. QED
    BY <2>2, <2>5, EmptySeq
<1>5. pending' = BytesAt(job', Charged') + TotalBytes(chan') + TotalBytes(batch')
  BY <1>1, BudgetStays DEF Queue, writerVars
<1>6. Queue'
  BY <1>1, <1>4, <1>5 DEF Queue, writerVars, Charged, BytesAt, TotalBytes
<1>7. QED
  BY <1>1, <1>2, <1>3, <1>6, FilesStay, MemoKept, RowsKept, EvictionsKeptOn
     DEF fileVars, threadVars

\* Where every thread is idle, nothing is charged and nothing is repaired.
LEMMA AllIdle ==
  ASSUME \A t \in Threads : pc[t] = "idle"
  PROVE  /\ Charged = {} /\ BytesAt(job, Charged) = 0
         /\ Repairing = {} /\ Cardinality(Repairing) = 0
<1>1. Charged = {} /\ Repairing = {}
  BY DEF Charged, Repairing
<1>2. QED
  BY <1>1, BytesOfNone, FS_EmptySet

\* The state of a process that has just started.
Fresh ==
    /\ pc = [t \in Threads |-> "idle"]
    /\ job = [t \in Threads |-> NoReport]
    /\ seen = [t \in Threads |-> 0]
    /\ found = [t \in Threads |-> NoReport]
    /\ answer = [t \in Threads |-> NoReport]
    /\ conn = [t \in Threads |-> 0]
    /\ pending = 0 /\ chan = <<>> /\ batch = <<>> /\ wpc = "recv" /\ wconn = 0
    /\ memo = <<>> /\ memoBytes = 0
    /\ evict = [t \in Threads |-> NoEviction] /\ evicting = FALSE /\ count = 0
    /\ breaker = FALSE /\ phase = "run" /\ late = FALSE
    /\ Rows
    /\ file \in 1..Files /\ bad \in BOOLEAN
    /\ bad => file + Cardinality(Threads) <= Files
    /\ loads \in 0..Loads /\ boots \in 1..Boots /\ left \in 0..Jobs

LEMMA FreshKeeps == ASSUME Fresh PROVE CacheInv
<1>1. Lookups
  BY LimitFacts DEF Fresh, Lookups, ThreadSteps
<1>2. Command
  BY DEF Fresh, Command
<1>3. Queue
  <2>1. BytesAt(job, Charged) = 0 /\ TotalBytes(chan) = 0 /\ TotalBytes(batch) = 0
    BY AllIdle, NothingWeighsNothing DEF Fresh
  <2>2. chan \in Seq(Reports) /\ batch \in Seq(Reports) /\ Len(chan) = 0 /\ Len(batch) = 0
    BY EmptySeq DEF Fresh
  <2>3. QED
    BY <2>1, <2>2, LimitFacts DEF Fresh, Queue
<1>4. Memo
  <2>1. memo \in Seq(Reports) /\ DOMAIN memo = {} /\ TotalBytes(memo) = 0
    BY NothingWeighsNothing DEF Fresh
  <2>2. QED
    BY <2>1, LimitFacts DEF Fresh, Memo, Unique
<1>5. FilesLeft
  BY AllIdle, LimitFacts DEF Fresh, FilesLeft
<1>6. Evictions
  <2>1. NoEviction \in [at : EvictSteps, on : 0..Files, rows : Nat] /\ NoEviction.at = "off"
    BY LimitFacts DEF NoEviction, EvictSteps
  <2>2. evict \in [Threads -> [at : EvictSteps, on : 0..Files, rows : Nat]]
        /\ \A t \in Threads : evict[t].at = "off"
    BY <2>1 DEF Fresh
  <2>5. Interval \in Nat \ {0}
    BY LimitFacts
  <2>6. count = 0 /\ evicting = FALSE
    BY DEF Fresh
  <2>3. count \in 0..(Interval - 1) /\ evicting \in BOOLEAN
    <3>1. 0 \in 0..(Interval - 1)
      BY <2>5
    <3>2. QED
      BY <2>6, <3>1
  <2>4. QED
    BY <2>2, <2>3 DEF Evictions
<1>7. QED
  BY <1>1, <1>2, <1>3, <1>4, <1>5, <1>6 DEF CacheInv, Fresh

LEMMA FoundBadFits ==
  ASSUME NEW f, NEW b \in FoundBad(f)
  PROVE  b \in BOOLEAN /\ (b => f + Cardinality(Threads) <= Files)
BY DEF FoundBad

LEMMA CacheInvInit == Init => CacheInv
<1> SUFFICES ASSUME Init PROVE Fresh
  BY FreshKeeps
<1>1. Rows
  <2>1. <<>> \in Seq(Reports) /\ Unique(<<>>)
    BY DEF Unique
  <2>2. QED
    BY <2>1 DEF Init, Rows
<1>2. bad \in BOOLEAN /\ (bad => 1 + Cardinality(Threads) <= Files)
  BY FoundBadFits DEF Init
<1>3. QED
  BY <1>1, <1>2, LimitFacts DEF Init, Fresh

LEMMA RebootKeeps == ASSUME CacheInv, Reboot PROVE CacheInv'
<1>1. Rows'
  <2>1. <<>> \in Seq(Reports) /\ Unique(<<>>)
    BY DEF Unique
  <2>2. \A f \in 1..Files : disk'[f] = IF f = file THEN disk[f] ELSE <<>>
    BY DEF Reboot
  <2>3. disk' \in [1..Files -> Seq(Reports)] /\ \A f \in 1..Files : Unique(disk'[f])
    <3>1. \A f \in 1..Files : disk'[f] \in Seq(Reports) /\ Unique(disk'[f])
      BY <2>1, <2>2 DEF CacheInv, Rows
    <3>2. disk' = [f \in 1..Files |-> disk'[f]]
      BY DEF Reboot
    <3>3. QED
      BY <3>1, <3>2
  <2>4. QED
    BY <2>3 DEF Rows, Unique
<1>2. bad' \in BOOLEAN /\ (bad' => file + Cardinality(Threads) <= Files) /\ file' = file
  BY FoundBadFits DEF Reboot, CacheInv, FilesLeft
<1>3. boots' \in 1..Boots /\ loads' \in 0..Loads /\ left' \in 0..Jobs
  <2>1. Boots \in Nat /\ boots \in 1..Boots /\ loads \in 0..Loads /\ left \in 0..Jobs
    BY LimitFacts DEF CacheInv, Command
  <2>2. boots < Boots /\ boots' = boots + 1 /\ loads' = loads /\ left' = left
    BY DEF Reboot
  <2>3. QED
    BY <2>1, <2>2
<1>4. Fresh'
  BY <1>1, <1>2, <1>3 DEF Reboot, Fresh, CacheInv, FilesLeft
<1>5. CacheInv' 
  BY <1>4, FreshKeeps, PTL
<1>6. QED
  BY <1>5

LEMMA ThreadKeeps == ASSUME CacheInv, NEW t \in Threads, ThreadStep(t) PROVE CacheInv'
BY BeginKeeps, LookupMemoKeeps, OpenConnKeeps, RepairKeeps, ReadTableKeeps, PutMemoKeeps,
   ScanKeeps, StoreBeginKeeps, ReserveKeeps, SendKeeps, CountStoreKeeps, KeepInMemoKeeps
   DEF ThreadStep

LEMMA EvictionKeeps == ASSUME CacheInv, NEW t \in Threads, EvictionStep(t) PROVE CacheInv'
BY EvictIdleKeeps, EvictCountKeeps, EvictTrimKeeps, EvictSumKeeps, EvictShrinkKeeps DEF EvictionStep

LEMMA StutterKeeps == ASSUME CacheInv, UNCHANGED vars PROVE CacheInv'
<1>1. UNCHANGED <<threadVars, writerVars, memoVars, fileVars, evictVars, restVars>>
  BY DEF vars
<1>2. Memo' /\ Rows' /\ Evictions'
  BY <1>1, MemoKept, RowsKept, EvictionsKeptOn DEF CacheInv, fileVars
<1>3. QED
  BY <1>1, <1>2, LookupsStay, QueueStays, FilesStay, CommandKept DEF CacheInv, restVars, fileVars, threadVars

LEMMA CacheInvNext == CacheInv /\ [Next]_vars => CacheInv'
<1> SUFFICES ASSUME CacheInv, [Next]_vars PROVE CacheInv'
  OBVIOUS
<1>1. CASE \E t \in Threads : ThreadStep(t) \/ EvictionStep(t)
  BY <1>1, ThreadKeeps, EvictionKeeps
<1>2. CASE WriterStep
  BY <1>2, WriterTakeKeeps, WriterPersistKeeps, WriterReleaseKeeps DEF WriterStep
<1>3. CASE LoadRules
  BY <1>3, LoadRulesKeeps
<1>4. CASE FlushBegin \/ FlushDone \/ FlushDeadline
  BY <1>4, FlushKeeps
<1>5. CASE Reboot
  BY <1>5, RebootKeeps
<1>6. CASE Over \/ UNCHANGED vars
  BY <1>6, StutterKeeps DEF Over
<1>7. QED
  BY <1>1, <1>2, <1>3, <1>4, <1>5, <1>6 DEF Next

-----------------------------------------------------------------------------
(* The theorems.                                                           *)

\* The invariant holds throughout.
THEOREM CacheInvariant == Spec => []CacheInv
<1>1. Init => CacheInv
  BY CacheInvInit
<1>2. CacheInv /\ [Next]_vars => CacheInv'
  BY CacheInvNext
<1>3. QED
  BY <1>1, <1>2, PTL DEF Spec

\* No step leaves the types: in particular an eviction computes a number of
\* rows, dividing by the mean size of a row, and a repair finds a file.
THEOREM CacheTypes == Spec => []TypeOK
<1>1. CacheInv => TypeOK
  BY DEF CacheInv, TypeOK, Lookups, Command, Queue, Memo, Rows, FilesLeft, Evictions
<1>2. QED
  BY <1>1, CacheInvariant, PTL

\* The byte budget of the writer and the byte counter of the memo are exact and
\* bounded at every step, and a flush that ends in time leaves nothing behind
\* (Writer::enqueue, Writer::start, Memo::insert, flush).
THEOREM CountersStayExact == Spec => []CountersExact
<1>1. CacheInv => BudgetExact
  BY LimitFacts DEF CacheInv, Queue, BudgetExact, Charged
<1>2. CacheInv => MemoExact
  BY DEF CacheInv, Memo, MemoExact, Unique
<1>3. CacheInv => FlushMeansDone
  BY DEF CacheInv, Queue, FlushMeansDone
<1>4. CacheInv => CountersExact
  BY <1>1, <1>2, <1>3 DEF CountersExact
<1>5. QED
  BY <1>4, CacheInvariant, PTL

-----------------------------------------------------------------------------
(* An eviction keeps what it means to keep.                                *)

LEMMA TrimFacts ==
  ASSUME Evictions, Rows, NEW t \in Threads, evict[t].at = "trim"
  PROVE  /\ evict[t].on \in 1..Files /\ evict[t].rows \in Nat /\ RowTarget \in Nat
         /\ Len(disk[evict[t].on]) \in Nat
         /\ Len(disk[evict[t].on]) >= evict[t].rows + RowTarget
         /\ \A u \in Threads : evict[u].at # "off" => u = t
<1>1. evict[t].on \in 1..Files /\ evict[t].rows \in Nat
  BY DEF Evictions
<1>2. disk[evict[t].on] \in Seq(Reports)
  BY <1>1 DEF Rows
<1>3. Len(disk[evict[t].on]) \in Nat /\ RowTarget \in Nat
  BY <1>2, SeqFacts, LimitFacts
<1>4. Len(disk[evict[t].on]) >= evict[t].rows + RowTarget
  BY DEF Evictions
<1>5. \A u \in Threads : evict[u].at # "off" => u = t
  BY DEF Evictions
<1>6. QED
  BY <1>1, <1>3, <1>4, <1>5

LEMMA NoSecondEviction ==
  ASSUME Evictions, NEW t \in Threads, evict[t].at # "off", NEW u \in Threads, CountStore(u)
  PROVE  evict' = evict
BY DEF CountStore, SpawnEviction, Evictions

\* Between its count and its delete an eviction is alone, and nothing else takes
\* rows out of the file it counted: it never takes the table below its target
\* (evict_report_cache, REPORT_EVICTING).
THEOREM TrimStaysAbove == Spec => TrimKeepsTarget
<1>1. ASSUME CacheInv, [Next]_vars
      PROVE  [\A t \in Threads : evict[t].at = "trim" /\ evict'[t].at = "sum"
                => Len(disk'[evict[t].on]) >= RowTarget]_vars
  <2> SUFFICES ASSUME NEW t \in Threads, evict[t].at = "trim", evict'[t].at = "sum"
               PROVE  Len(disk'[evict[t].on]) >= RowTarget
    OBVIOUS
  <2>0. Evictions /\ Rows
    BY <1>1 DEF CacheInv
  <2>1. /\ evict[t].on \in 1..Files /\ evict[t].rows \in Nat
        /\ Len(disk[evict[t].on]) >= evict[t].rows + RowTarget
        /\ \A u \in Threads : evict[u].at # "off" => u = t
    BY <2>0, TrimFacts
  <2>2. RowTarget \in Nat /\ Len(disk[evict[t].on]) \in Nat
    BY <2>0, TrimFacts
  <2>3. CASE EvictTrim(t)
    <3>1. Delete(evict[t].on, evict[t].rows)
      BY <2>3 DEF EvictTrim
    <3>2. evict[t].rows <= Len(disk[evict[t].on])
      BY <2>1, <2>2
    <3>3. /\ Len(disk'[evict[t].on]) >= Len(disk[evict[t].on]) - evict[t].rows
          /\ Rows'
      BY <2>0, <2>1, <3>1, <3>2, DeleteFacts
    <3>4. Len(disk'[evict[t].on]) \in Nat
      <4>1. disk'[evict[t].on] \in Seq(Reports)
        BY <2>1, <3>3 DEF Rows
      <4>2. QED
        BY <4>1, SeqFacts
    <3>5. QED
      BY <2>1, <2>2, <3>3, <3>4
  <2>4. CASE \E u \in Threads : EvictionStep(u)
    <3>1. PICK u \in Threads : EvictionStep(u)
      BY <2>4
    <3>2. evict[u].at # "off"
      BY <3>1 DEF EvictionStep, EvictIdle, EvictCount, EvictTrim, EvictSum, EvictShrink, EvictAt
    <3>3. u = t
      BY <2>1, <3>2
    <3>4. EvictTrim(t)
      BY <3>1, <3>3 DEF EvictionStep, EvictIdle, EvictCount, EvictSum, EvictShrink, EvictAt
    <3>5. QED
      BY <2>3, <3>4
  <2>5. CASE \E u \in Threads : ThreadStep(u)
    <3>1. PICK u \in Threads : ThreadStep(u)
      BY <2>5
    <3>2. CASE CountStore(u)
      <4>1. evict' = evict
        BY <2>0, <3>2, NoSecondEviction
      <4>2. QED
        BY <4>1
    <3>3. CASE ~CountStore(u)
      <4>1. evict' = evict
        BY <3>1, <3>3 DEF ThreadStep, Begin, LookupMemo, OpenConn, Repair, ReadTable, PutMemo,
                          Scan, StoreBegin, Reserve, Send, KeepInMemo, evictVars
      <4>2. QED
        BY <4>1
    <3>4. QED
      BY <3>2, <3>3
  <2>6. CASE \/ WriterStep \/ LoadRules \/ FlushBegin \/ FlushDone \/ FlushDeadline
             \/ Over \/ UNCHANGED vars
    <3>1. evict' = evict
      BY <2>6 DEF WriterStep, WriterTake, WriterPersist, WriterRelease, LoadRules, FlushBegin,
                  FlushDone, FlushDeadline, Over, vars, evictVars
    <3>2. QED
      BY <3>1
  <2>7. CASE Reboot
    <3>1. evict'[t].at = "off"
      BY <2>7 DEF Reboot, NoEviction
    <3>2. QED
      BY <3>1
  <2>8. \/ \E u \in Threads : ThreadStep(u) \/ EvictionStep(u)
        \/ WriterStep \/ LoadRules \/ FlushBegin \/ FlushDone \/ FlushDeadline
        \/ Reboot \/ Over \/ UNCHANGED vars
    BY <1>1 DEF Next
  <2>9. QED
    BY <2>4, <2>5, <2>6, <2>7, <2>8
<1>2. QED
  BY <1>1, CacheInvariant, PTL DEF Spec, TrimKeepsTarget

-----------------------------------------------------------------------------
(* The cache implements ResultCache.                                       *)

LEMMA HeldParts ==
  /\ \A t \in Threads : pc[t] \in StoreSteps => job[t] \in Held
  /\ \A t \in Threads : pc[t] = "put" => found[t] \in Held
  /\ Entries(chan) \subseteq Held /\ Entries(batch) \subseteq Held /\ Entries(memo) \subseteq Held
  /\ \A f \in 1..Files : Entries(disk[f]) \subseteq Held
BY DEF Held

LEMMA HeldWithin ==
  ASSUME NEW H,
         \A t \in Threads : pc[t] \in StoreSteps => job[t] \in H,
         \A t \in Threads : pc[t] = "put" => found[t] \in H,
         Entries(chan) \subseteq H, Entries(batch) \subseteq H, Entries(memo) \subseteq H,
         \A f \in 1..Files : Entries(disk[f]) \subseteq H
  PROVE  Held \subseteq H
BY DEF Held

LEMMA HeldWithinNext ==
  ASSUME NEW H,
         \A t \in Threads : pc'[t] \in StoreSteps => job'[t] \in H,
         \A t \in Threads : pc'[t] = "put" => found'[t] \in H,
         Entries(chan)' \subseteq H, Entries(batch)' \subseteq H, Entries(memo)' \subseteq H,
         \A f \in 1..Files : Entries(disk'[f]) \subseteq H
  PROVE  Held' \subseteq H
BY DEF Held, Entries

LEMMA OthersStay == ASSUME Lookups, NEW t \in Threads, ThreadStep(t) PROVE Others(t)
<1> USE DEF Lookups, Others, Goto
<1>1. CASE Begin(t) \/ LookupMemo(t) \/ OpenConn(t)
  BY <1>1 DEF Begin, LookupMemo, OpenConn, Answer, Missed
<1>2. CASE Repair(t) \/ ReadTable(t) \/ PutMemo(t)
  BY <1>2 DEF Repair, ReadTable, PutMemo, Answer, Missed
<1>3. CASE Scan(t) \/ StoreBegin(t)
  BY <1>3 DEF Scan, StoreBegin
<1>4. CASE Reserve(t) \/ Send(t) \/ CountStore(t) \/ KeepInMemo(t)
  BY <1>4 DEF Reserve, Send, CountStore, KeepInMemo
<1>5. QED
  BY <1>1, <1>2, <1>3, <1>4 DEF ThreadStep

\* Of a thread's step only what the thread itself then holds may be new.
LEMMA HeldAt ==
  ASSUME NEW H, Held \subseteq H, NEW t \in Threads, Others(t),
         pc'[t] \in StoreSteps => job'[t] \in H,
         pc'[t] = "put" => found'[t] \in H,
         Entries(chan)' \subseteq H, batch' = batch, Entries(memo)' \subseteq H,
         \A f \in 1..Files : Entries(disk'[f]) \subseteq H
  PROVE  Held' \subseteq H
<1>1. ASSUME NEW u \in Threads
      PROVE  /\ pc'[u] \in StoreSteps => job'[u] \in H
             /\ pc'[u] = "put" => found'[u] \in H
  <2>1. CASE u = t
    BY <2>1
  <2>2. CASE u # t
    BY <2>2, HeldParts DEF Others
  <2>3. QED
    BY <2>1, <2>2
<1>2. Entries(batch)' \subseteq H
  BY HeldParts DEF Entries
<1>3. QED
  BY <1>1, <1>2, HeldWithinNext

ForgetStep == Held' \subseteq Held /\ answer' = answer
MissStep == Held' \subseteq Held /\ \E t \in Threads : answer' = [answer EXCEPT ![t] = NoReport]
HitStep ==
    /\ Held' \subseteq Held
    /\ \E t \in Threads, q \in Reports, r \in Reports :
          /\ r \in Held /\ r.key = q.key /\ <<r.path, q.path>> \in SamePath
          /\ answer' = [answer EXCEPT ![t] = [to |-> q, is |-> r]]
StoreStep ==
    \E t \in Threads, r \in Reports :
          /\ pc[t] = "store" /\ r = job[t] /\ ~breaker
          /\ r.quality # "gap" /\ Held' \subseteq Held \cup {r} /\ answer' = answer
RestartStep == Held' \subseteq Held /\ answer' = [t \in Threads |-> NoReport]

PromiseStep == ForgetStep \/ MissStep \/ HitStep \/ StoreStep \/ RestartStep

LEMMA SameHoldings ==
  /\ UNCHANGED memoVars => Entries(memo)' \subseteq Held
  /\ UNCHANGED writerVars => Entries(chan)' \subseteq Held /\ batch' = batch
  /\ UNCHANGED disk => \A f \in 1..Files : Entries(disk'[f]) \subseteq Held
BY HeldParts DEF memoVars, writerVars, Entries

\* A lookup that ends with r, which is held, is a hit or a miss.
LEMMA AnswerPromise ==
  ASSUME NEW t \in Threads, job[t] \in Reports, NEW r \in Reports, r \in Held,
         r.key = job[t].key, Answer(t, r), Held' \subseteq Held
  PROVE  HitStep \/ MissStep
BY DEF Answer, Adoptable, HitStep, MissStep

LEMMA BeginPromise == ASSUME CacheInv, NEW t \in Threads, Begin(t) PROVE PromiseStep
<1>1. /\ pc' = [pc EXCEPT ![t] = "memo"] /\ answer' = [answer EXCEPT ![t] = NoReport]
      /\ UNCHANGED <<writerVars, memoVars, fileVars>>
  BY DEF Begin, Goto
<1>2. Others(t) /\ pc'[t] = "memo"
  BY <1>1, OthersStay DEF ThreadStep, CacheInv, Lookups
<1>3. Held' \subseteq Held
  BY <1>1, <1>2, SameHoldings, HeldAt DEF StoreSteps, fileVars
<1>4. QED
  BY <1>1, <1>3 DEF PromiseStep, MissStep

LEMMA LookupMemoPromise == ASSUME CacheInv, NEW t \in Threads, LookupMemo(t) PROVE PromiseStep
<1>1. Others(t)
  BY OthersStay DEF ThreadStep, CacheInv
<1>2. /\ pc[t] = "memo" /\ UNCHANGED <<found, writerVars, fileVars, memoBytes>>
      /\ pc'[t] \in {"conn", "read", "idle", "scan"}
  BY DEF LookupMemo, Answer, Goto, CacheInv, Lookups
<1>3. job[t] \in Reports
  BY <1>2 DEF CacheInv, Lookups
<1>4. ASSUME Entries(memo)' \subseteq Held PROVE Held' \subseteq Held
  BY <1>1, <1>2, <1>4, SameHoldings, HeldAt DEF StoreSteps, fileVars
<1>5. CASE RowsFor(memo, job[t].key) = {}
  <2>1. memo' = memo /\ answer' = answer
    BY <1>5 DEF LookupMemo
  <2>2. Held' \subseteq Held
    BY <2>1, <1>4, HeldParts DEF Entries
  <2>3. QED
    BY <2>1, <2>2 DEF PromiseStep, ForgetStep
<1>6. CASE RowsFor(memo, job[t].key) # {}
  <2>1. PICK r \in RowsFor(memo, job[t].key) : Answer(t, r) /\ memo' = Upsert(memo, r)
    BY <1>6 DEF LookupMemo
  <2>2. r \in Entries(memo) /\ r \in Reports /\ r.key = job[t].key
    BY SeqFacts DEF RowsFor, Memo, CacheInv
  <2>3. Entries(memo)' \subseteq Entries(memo)
    BY <1>2, <2>1, <2>2, TouchFacts DEF CacheInv
  <2>4. Held' \subseteq Held /\ r \in Held
    BY <2>2, <2>3, <1>4, HeldParts
  <2>5. QED
    BY <1>3, <2>1, <2>2, <2>4, AnswerPromise DEF PromiseStep
<1>7. QED
  BY <1>5, <1>6

LEMMA OpenPromise ==
  ASSUME CacheInv, NEW t \in Threads, OpenConn(t) \/ Repair(t) PROVE PromiseStep
<1>1. Others(t)
  BY OthersStay DEF ThreadStep, CacheInv
<1>2. /\ UNCHANGED <<found, writerVars, disk, memoVars>>
      /\ pc'[t] \in {"read", "scan", "repair"}
      /\ answer' = answer \/ answer' = [answer EXCEPT ![t] = NoReport]
  BY DEF OpenConn, Repair, Missed, Goto, CacheInv, Lookups, fileVars
<1>3. Held' \subseteq Held
  BY <1>1, <1>2, SameHoldings, HeldAt DEF StoreSteps
<1>4. QED
  BY <1>2, <1>3 DEF PromiseStep, ForgetStep, MissStep

LEMMA ReadPromise == ASSUME CacheInv, NEW t \in Threads, ReadTable(t) PROVE PromiseStep
<1>1. Others(t)
  BY OthersStay DEF ThreadStep, CacheInv
<1>2. /\ pc[t] = "read" /\ UNCHANGED <<writerVars, memoVars, conn>>
  BY DEF ReadTable
<1>3. conn[t] \in 1..Files
  BY <1>2, LimitFacts DEF CacheInv, Lookups
<1>4. disk[conn[t]] \in Seq(Reports) /\ Unique(disk[conn[t]])
  BY <1>3 DEF CacheInv, Rows
<1>5. CASE Missed(t) /\ UNCHANGED <<found, disk>>
  <2>1. pc'[t] = "scan" /\ answer' = [answer EXCEPT ![t] = NoReport]
    BY <1>5 DEF Missed, Goto, CacheInv, Lookups
  <2>2. Held' \subseteq Held
    BY <1>1, <1>2, <1>5, <2>1, SameHoldings, HeldAt DEF StoreSteps
  <2>3. QED
    BY <2>1, <2>2 DEF PromiseStep, MissStep
<1>6. CASE \E r \in RowsFor(disk[conn[t]], job[t].key) :
             /\ found' = [found EXCEPT ![t] = r]
             /\ \/ disk' = [disk EXCEPT ![conn[t]] = Upsert(@, r)]
                \/ UNCHANGED disk
             /\ Goto(t, "put")
             /\ UNCHANGED answer
  <2>1. PICK r \in RowsFor(disk[conn[t]], job[t].key) :
             /\ found' = [found EXCEPT ![t] = r]
             /\ \/ disk' = [disk EXCEPT ![conn[t]] = Upsert(@, r)]
                \/ UNCHANGED disk
             /\ Goto(t, "put")
             /\ UNCHANGED answer
    BY <1>6
  <2>2. r \in Entries(disk[conn[t]]) /\ r \in Reports
    BY <1>4, SeqFacts DEF RowsFor
  <2>3. r \in Held
    BY <1>3, <2>2, HeldParts
  <2>4. pc'[t] = "put" /\ found'[t] = r
    BY <2>1 DEF Goto, CacheInv, Lookups
  <2>5. \A f \in 1..Files : Entries(disk'[f]) \subseteq Held
    <3>1. CASE disk' = disk
      BY <3>1, HeldParts
    <3>2. CASE disk' = [disk EXCEPT ![conn[t]] = Upsert(@, r)]
      <4>1. Entries(Upsert(disk[conn[t]], r)) \subseteq Entries(disk[conn[t]]) \cup {r}
        BY <1>4, <2>2, UpsertFacts
      <4>2. \A f \in 1..Files : disk'[f] = IF f = conn[t] THEN Upsert(disk[conn[t]], r) ELSE disk[f]
        BY <1>3, <3>2 DEF CacheInv, Rows
      <4>3. QED
        BY <1>3, <2>3, <4>1, <4>2, HeldParts
    <3>3. QED
      BY <2>1, <3>1, <3>2
  <2>6. Held' \subseteq Held
    BY <1>1, <1>2, <2>3, <2>4, <2>5, SameHoldings, HeldAt DEF StoreSteps
  <2>7. QED
    BY <2>1, <2>6 DEF PromiseStep, ForgetStep
<1>7. QED
  BY <1>5, <1>6 DEF ReadTable

LEMMA PutMemoPromise == ASSUME CacheInv, NEW t \in Threads, PutMemo(t) PROVE PromiseStep
<1>1. Others(t)
  BY OthersStay DEF ThreadStep, CacheInv
<1>2. /\ pc[t] = "put" /\ MemoInsert(found[t]) /\ Answer(t, found[t])
      /\ UNCHANGED <<writerVars, fileVars>>
      /\ pc'[t] \in {"idle", "scan"}
  BY DEF PutMemo, Answer, Goto, CacheInv, Lookups
<1>3. job[t] \in Reports /\ found[t] \in Reports /\ found[t].key = job[t].key
  BY <1>2 DEF CacheInv, Lookups
<1>4. found[t] \in Held
  BY <1>2, HeldParts
<1>5. Entries(memo)' \subseteq Held
  BY <1>2, <1>3, <1>4, MemoInsertFacts, HeldParts DEF CacheInv
<1>6. Held' \subseteq Held
  BY <1>1, <1>2, <1>5, SameHoldings, HeldAt DEF StoreSteps, fileVars
<1>7. QED
  BY <1>2, <1>3, <1>4, <1>6, AnswerPromise DEF PromiseStep

\* A store begins where the gap and the breaker have been looked at.
LEMMA StorePromise ==
  ASSUME CacheInv, NEW t \in Threads, Scan(t) \/ StoreBegin(t) PROVE PromiseStep
<1>1. Others(t)
  BY OthersStay DEF ThreadStep, CacheInv
<1>2. UNCHANGED <<found, writerVars, fileVars, memoVars, answer>>
  BY DEF Scan, StoreBegin
<1>3. ASSUME NEW H, Held \subseteq H, pc'[t] # "put", pc'[t] \in StoreSteps => job'[t] \in H
      PROVE  Held' \subseteq H
  BY <1>1, <1>2, <1>3, SameHoldings, HeldAt DEF fileVars
<1>4. CASE pc'[t] \in {"store", "idle"}
  <2>1. Held' \subseteq Held
    BY <1>3, <1>4 DEF StoreSteps
  <2>2. QED
    BY <1>2, <2>1 DEF PromiseStep, ForgetStep
<1>5. CASE /\ pc[t] = "store" /\ pc'[t] \in {"count", "reserve"} /\ ~breaker
           /\ job[t].quality # "gap" /\ job' = job
  <2>1. job[t] \in Reports
    BY <1>5 DEF CacheInv, Lookups
  <2>2. Held' \subseteq Held \cup {job[t]}
    BY <1>3, <1>5 DEF StoreSteps
  <2>3. QED
    BY <1>2, <1>5, <2>1, <2>2 DEF PromiseStep, StoreStep
<1>6. QED
  BY <1>4, <1>5 DEF Scan, StoreBegin, Goto, CacheInv, Lookups

LEMMA QueuePromise ==
  ASSUME CacheInv, NEW t \in Threads,
         Reserve(t) \/ Send(t) \/ CountStore(t) \/ KeepInMemo(t)
  PROVE  PromiseStep
<1>1. Others(t)
  BY OthersStay DEF ThreadStep, CacheInv
<1>2. /\ pc[t] \in StoreSteps /\ UNCHANGED <<found, batch, fileVars, answer>>
      /\ pc'[t] \in StoreSteps \cup {"idle"}
      /\ pc'[t] \in StoreSteps => job'[t] = job[t]
  BY DEF Reserve, Send, CountStore, KeepInMemo, Goto, CacheInv, Lookups, writerVars, StoreSteps
<1>3. job[t] \in Reports /\ job[t] \in Held
  BY <1>2, HeldParts DEF CacheInv, Lookups, StoreSteps
<1>4. Entries(chan)' \subseteq Held
  <2>1. CASE chan' = chan
    BY <2>1, HeldParts
  <2>2. CASE chan' = Append(chan, job[t])
    <3>1. Entries(chan') = Entries(chan) \cup {job[t]}
      BY <2>2, <1>3, AppendFacts DEF CacheInv, Queue
    <3>2. QED
      BY <3>1, <1>3, HeldParts DEF Entries
  <2>3. QED
    BY <2>1, <2>2 DEF Reserve, Send, CountStore, KeepInMemo, writerVars
<1>5. Entries(memo)' \subseteq Held
  <2>1. CASE UNCHANGED memoVars
    BY <2>1, SameHoldings
  <2>2. CASE MemoInsert(job[t])
    BY <2>2, <1>3, MemoInsertFacts, HeldParts DEF CacheInv
  <2>3. QED
    BY <2>1, <2>2 DEF Reserve, Send, CountStore, KeepInMemo
<1>6. \A f \in 1..Files : Entries(disk'[f]) \subseteq Held
  BY <1>2, SameHoldings DEF fileVars
<1>7. Held' \subseteq Held
  BY <1>1, <1>2, <1>3, <1>4, <1>5, <1>6, HeldAt DEF StoreSteps
<1>8. QED
  BY <1>2, <1>7 DEF PromiseStep, ForgetStep

\* Where no thread moves, only the queue, the batch, the memo and the files count.
LEMMA HeldBetween ==
  ASSUME UNCHANGED threadVars, memo' = memo,
         Entries(chan)' \subseteq Held, Entries(batch)' \subseteq Held,
         \A f \in 1..Files : Entries(disk'[f]) \subseteq Held
  PROVE  Held' \subseteq Held
<1>1. /\ \A t \in Threads : pc'[t] \in StoreSteps => job'[t] \in Held
      /\ \A t \in Threads : pc'[t] = "put" => found'[t] \in Held
  BY HeldParts DEF threadVars
<1>2. Entries(memo)' \subseteq Held
  BY HeldParts DEF Entries
<1>3. QED
  BY <1>1, <1>2, HeldWithinNext

LEMMA WriterPromise == ASSUME CacheInv, WriterStep PROVE PromiseStep
<1>1. UNCHANGED <<threadVars, memoVars>>
  BY DEF WriterStep, WriterTake, WriterPersist, WriterRelease
<1>2. chan \in Seq(Reports) /\ batch \in Seq(Reports) /\ Len(chan) \in Nat /\ BatchCap \in Nat
  BY SeqFacts, LimitFacts DEF CacheInv, Queue
<1>3. Entries(chan)' \subseteq Held /\ Entries(batch)' \subseteq Held
      /\ \A f \in 1..Files : Entries(disk'[f]) \subseteq Held
  <2>1. CASE WriterTake
    <3> DEFINE n == IF Len(chan) < BatchCap THEN Len(chan) ELSE BatchCap
    <3>1. batch' = SubSeq(chan, 1, n) /\ chan' = DropFirst(chan, n) /\ UNCHANGED fileVars
      BY <2>1 DEF WriterTake
    <3>2. n \in 0..Len(chan)
      BY <1>2
    <3> HIDE DEF n
    <3>3. Entries(SubSeq(chan, 1, n)) \subseteq Entries(chan)
          /\ Entries(DropFirst(chan, n)) \subseteq Entries(chan)
      BY <1>2, <3>2, HalvesFacts
    <3>4. Entries(batch') \subseteq Entries(chan) /\ Entries(chan') \subseteq Entries(chan)
      BY <3>1, <3>3
    <3>5. QED
      BY <3>1, <3>4, HeldParts DEF fileVars, Entries
  <2>2. CASE WriterPersist
    <3>1. UNCHANGED <<chan, batch>>
      BY <2>2 DEF WriterPersist
    <3>2. ASSUME NEW c \in 0..Files, c # 0, NEW kept \in SUBSET DOMAIN batch,
                 disk' = [disk EXCEPT ![c] = Latest(@ \o Pick(batch, kept))]
          PROVE  \A f \in 1..Files : Entries(disk'[f]) \subseteq Held
      <4>1. Pick(batch, kept) \in Seq(Reports) /\ Entries(Pick(batch, kept)) = {batch[i] : i \in kept}
        BY <1>2, PickFacts
      <4>2. Entries(Pick(batch, kept)) \subseteq Entries(batch)
        BY <4>1 DEF Entries
      <4>3. c \in 1..Files
        BY <3>2, LimitFacts
      <4>4. \A f \in 1..Files : Entries(disk'[f]) \subseteq Entries(disk[f]) \cup Entries(Pick(batch, kept))
        BY <3>2, <4>1, <4>3, MergeFacts DEF CacheInv
      <4>5. QED
        BY <4>2, <4>4, HeldParts
    <3>3. wconn \in 0..Files /\ file \in 0..Files
      BY LimitFacts DEF CacheInv, Queue, FilesLeft
    <3>4. \A f \in 1..Files : Entries(disk'[f]) \subseteq Held
      <4>1. CASE disk' = disk
        BY <4>1, HeldParts
      <4>2. CASE disk' # disk
        <5>1. PICK c \in {wconn, IF wconn # 0 \/ bad THEN wconn ELSE file} :
                 /\ c # 0
                 /\ \E kept \in SUBSET DOMAIN batch :
                      disk' = [disk EXCEPT ![c] = Latest(@ \o Pick(batch, kept))]
          BY <2>2, <4>2 DEF WriterPersist
        <5>2. c \in 0..Files
          BY <3>3, <5>1
        <5>3. QED
          BY <3>2, <5>1, <5>2
      <4>3. QED
        BY <4>1, <4>2
    <3>5. QED
      BY <3>1, <3>4, HeldParts DEF Entries
  <2>3. CASE WriterRelease
    <3>1. chan' = chan /\ batch' = <<>> /\ UNCHANGED fileVars
      BY <2>3 DEF WriterRelease
    <3>2. Entries(batch') = {}
      BY <3>1, NothingWeighsNothing
    <3>3. QED
      BY <3>1, <3>2, HeldParts DEF fileVars, Entries
  <2>4. QED
    BY <2>1, <2>2, <2>3 DEF WriterStep
<1>4. Held' \subseteq Held
  BY <1>1, <1>3, HeldBetween DEF memoVars
<1>5. QED
  BY <1>1, <1>4 DEF PromiseStep, ForgetStep, threadVars

LEMMA EvictionPromise == ASSUME CacheInv, NEW t \in Threads, EvictionStep(t) PROVE PromiseStep
<1>1. UNCHANGED <<threadVars, memoVars, writerVars>>
  BY DEF EvictionStep, EvictIdle, EvictCount, EvictTrim, EvictSum, EvictShrink
<1>2. \A f \in 1..Files : Entries(disk'[f]) \subseteq Entries(disk[f])
  <2>1. CASE disk' = disk
    BY <2>1
  <2>2. ASSUME NEW c \in 1..Files, NEW n \in Nat, Delete(c, n)
        PROVE  \A f \in 1..Files : Entries(disk'[f]) \subseteq Entries(disk[f])
    BY <2>2, DeleteFacts DEF CacheInv
  <2>3. CASE EvictIdle(t) /\ disk' # disk
    <3>1. PICK n \in 0..Len(disk[file]) : Delete(file, n)
      BY <2>3 DEF EvictIdle
    <3>2. file \in 1..Files /\ disk[file] \in Seq(Reports)
      BY DEF CacheInv, FilesLeft, Rows
    <3>3. n \in Nat
      BY <3>1, <3>2, SeqFacts
    <3>4. QED
      BY <2>2, <3>1, <3>2, <3>3
  <2>4. CASE EvictTrim(t) \/ EvictShrink(t)
    <3>1. evict[t].at \in {"trim", "shrink"} /\ Delete(evict[t].on, evict[t].rows)
      BY <2>4 DEF EvictTrim, EvictShrink, EvictAt
    <3>2. evict[t].on \in 1..Files /\ evict[t].rows \in Nat
      BY <3>1 DEF CacheInv, Evictions
    <3>3. QED
      BY <2>2, <3>1, <3>2
  <2>5. QED
    BY <2>1, <2>3, <2>4 DEF EvictionStep, EvictCount, EvictSum, fileVars
<1>3. Entries(chan)' \subseteq Held /\ Entries(batch)' \subseteq Held
  BY <1>1, SameHoldings, HeldParts DEF Entries
<1>4. Held' \subseteq Held
  BY <1>1, <1>2, <1>3, HeldParts, HeldBetween DEF memoVars
<1>5. QED
  BY <1>1, <1>4 DEF PromiseStep, ForgetStep, threadVars

LEMMA QuietPromise ==
  ASSUME LoadRules \/ FlushBegin \/ FlushDone \/ FlushDeadline \/ Over \/ UNCHANGED vars
  PROVE  PromiseStep
<1>1. UNCHANGED <<threadVars, memoVars, writerVars, disk>>
  BY DEF LoadRules, FlushBegin, FlushDone, FlushDeadline, Over, vars, fileVars
<1>2. Entries(chan)' \subseteq Held /\ Entries(batch)' \subseteq Held
      /\ \A f \in 1..Files : Entries(disk'[f]) \subseteq Held
  BY <1>1, SameHoldings, HeldParts DEF Entries
<1>3. Held' \subseteq Held
  BY <1>1, <1>2, HeldBetween DEF memoVars
<1>4. QED
  BY <1>1, <1>3 DEF PromiseStep, ForgetStep, threadVars

LEMMA RebootPromise == ASSUME CacheInv, Reboot PROVE PromiseStep
<1>1. /\ \A t \in Threads : pc'[t] = "idle"
      /\ chan' = <<>> /\ batch' = <<>> /\ memo' = <<>>
      /\ \A f \in 1..Files : disk'[f] = disk[f] \/ disk'[f] = <<>>
      /\ answer' = [t \in Threads |-> NoReport]
  BY DEF Reboot
<1>2. Entries(chan') = {} /\ Entries(batch') = {} /\ Entries(memo') = {}
  BY <1>1, NothingWeighsNothing
<1>3. \A f \in 1..Files : Entries(disk'[f]) \subseteq Held
  BY <1>1, HeldParts, NothingWeighsNothing
<1>4. Held' \subseteq Held
  BY <1>1, <1>2, <1>3, HeldWithinNext DEF StoreSteps, Entries
<1>5. QED
  BY <1>1, <1>4 DEF PromiseStep, RestartStep

LEMMA NextPromise == ASSUME CacheInv, [Next]_vars PROVE PromiseStep
<1>1. CASE \E t \in Threads : ThreadStep(t)
  BY <1>1, BeginPromise, LookupMemoPromise, OpenPromise, ReadPromise, PutMemoPromise,
     StorePromise, QueuePromise DEF ThreadStep
<1>2. CASE \E t \in Threads : EvictionStep(t)
  BY <1>2, EvictionPromise
<1>3. CASE WriterStep
  BY <1>3, WriterPromise
<1>4. CASE LoadRules \/ FlushBegin \/ FlushDone \/ FlushDeadline \/ Over \/ UNCHANGED vars
  BY <1>4, QuietPromise
<1>5. CASE Reboot
  BY <1>5, RebootPromise
<1>6. QED
  BY <1>1, <1>2, <1>3, <1>4, <1>5 DEF Next

\* The cache implements ResultCache: through crashes, repairs, evictions and
\* races every hit is a gap-free report that was stored under the same key for a
\* path that rules cannot tell from the caller's (analysis_cache.rs).
THEOREM PromiseKept == Spec => KeepsPromise
<1>1. Init => Promise!CacheInit
  <2> SUFFICES ASSUME Init PROVE Held = {} /\ answer = [t \in Threads |-> NoReport]
    BY DEF Promise!CacheInit
  <2>1. /\ \A t \in Threads : pc[t] = "idle"
        /\ Entries(chan) = {} /\ Entries(batch) = {} /\ Entries(memo) = {}
        /\ \A f \in 1..Files : Entries(disk[f]) = {}
    BY NothingWeighsNothing DEF Init
  <2>2. Held \subseteq {}
    BY <2>1, HeldWithin DEF StoreSteps
  <2>3. QED
    BY <2>2 DEF Init
<1>2. PromiseStep => Promise!CacheNext
  <2>1. ForgetStep => Promise!Forget
    BY DEF ForgetStep, Promise!Forget
  <2>2. MissStep => \E t \in Threads : Promise!Miss(t)
    BY DEF MissStep, Promise!Miss
  <2>3. HitStep => \E t \in Threads, q \in Reports, r \in Reports : Promise!Hit(t, q, r)
    BY DEF HitStep, Promise!Hit
  <2>4. StoreStep => \E r \in Reports : Promise!Store(r)
    BY DEF StoreStep, Promise!Store
  <2>5. RestartStep => Promise!Restart
    BY DEF RestartStep, Promise!Restart
  <2>6. QED
    BY <2>1, <2>2, <2>3, <2>4, <2>5 DEF PromiseStep, Promise!CacheNext
<1>3. CacheInv /\ [Next]_vars => [Promise!CacheNext]_<<Held, answer>>
  BY <1>2, NextPromise
<1>4. QED
  BY <1>1, <1>3, CacheInvariant, PTL DEF Spec, KeepsPromise, Promise!CacheSpec

-----------------------------------------------------------------------------
(* Reports that lack YARA findings.                                        *)

\* A weak report waits for its store behind the tripped breaker.
WeakWaits == \A t \in Threads : pc[t] = "store" /\ job[t].quality = "weak" => breaker
FullInv == WeakWaits /\ OnlyFullScansCached

LEMMA ScanTrips == ASSUME CacheInv, WeakWaits, NEW t \in Threads, Scan(t) PROVE WeakWaits'
<1>1. PICK q \in Qualities :
         /\ job' = [job EXCEPT ![t].quality = q]
         /\ breaker' = (breaker \/ q = "weak")
  BY DEF Scan
<1>2. Others(t)
  BY OthersStay DEF ThreadStep, CacheInv
<1>3. job[t] \in Reports
  BY DEF Scan, CacheInv, Lookups
<1>4. job'[t].quality = q
  BY <1>1, <1>3 DEF CacheInv, Lookups, Reports
<1>5. ASSUME NEW u \in Threads, pc'[u] = "store", job'[u].quality = "weak"
      PROVE  breaker'
  <2>1. CASE u = t
    BY <2>1, <1>1, <1>4, <1>5
  <2>2. CASE u # t
    BY <2>2, <1>1, <1>2, <1>5 DEF Others, WeakWaits
  <2>3. QED
    BY <2>1, <2>2
<1>6. QED
  BY <1>5 DEF WeakWaits

\* Only a scan comes to a store, and without a rule load only a new process
\* resets the breaker.
LEMMA WeakWaitsOn ==
  ASSUME Loads = 0, CacheInv, WeakWaits, [Next]_vars PROVE WeakWaits'
<1>1. CASE \E t \in Threads : ThreadStep(t)
  <2>1. PICK t \in Threads : ThreadStep(t)
    BY <1>1
  <2>2. CASE Scan(t)
    BY <2>2, ScanTrips
  <2>3. CASE ~Scan(t)
    <3>1. Others(t)
      BY <2>1, OthersStay DEF CacheInv
    <3>2. pc'[t] # "store" /\ breaker' = breaker
      BY <2>1, <2>3 DEF ThreadStep, Begin, LookupMemo, OpenConn, Repair, ReadTable, PutMemo,
                        StoreBegin, Reserve, Send, CountStore, KeepInMemo, Goto, Answer,
                        Missed, CacheInv, Lookups, restVars
    <3>3. QED
      BY <3>1, <3>2 DEF Others, WeakWaits
  <2>4. QED
    BY <2>2, <2>3
<1>2. CASE \/ \E t \in Threads : EvictionStep(t)
           \/ WriterStep \/ FlushBegin \/ FlushDone \/ FlushDeadline
           \/ Over \/ UNCHANGED vars
  <2>1. UNCHANGED <<pc, job, breaker>>
    BY <1>2 DEF EvictionStep, EvictIdle, EvictCount, EvictTrim, EvictSum, EvictShrink,
                WriterStep, WriterTake, WriterPersist, WriterRelease, FlushBegin, FlushDone,
                FlushDeadline, Over, vars, threadVars, restVars
  <2>2. QED
    BY <2>1 DEF WeakWaits
<1>3. CASE LoadRules
  <2>1. loads \in 0..Loads
    BY DEF CacheInv, Command
  <2>2. QED
    BY <1>3, <2>1 DEF LoadRules
<1>4. CASE Reboot
  BY <1>4 DEF Reboot, WeakWaits
<1>5. QED
  BY <1>1, <1>2, <1>3, <1>4 DEF Next

\* What a step may add to the reports held is a report that passed the breaker.
LEMMA FullNext == ASSUME Loads = 0 PROVE CacheInv /\ FullInv /\ [Next]_vars => FullInv'
<1> SUFFICES ASSUME CacheInv, FullInv, [Next]_vars PROVE FullInv'
  OBVIOUS
<1>1. WeakWaits'
  BY WeakWaitsOn DEF FullInv
<1>2. Held' \subseteq Held \/ StoreStep
  BY NextPromise DEF PromiseStep, ForgetStep, MissStep, HitStep, RestartStep
<1>3. \A r \in Held' : r.quality # "weak"
  BY <1>2 DEF StoreStep, FullInv, WeakWaits, OnlyFullScansCached
<1>4. QED
  BY <1>1, <1>3 DEF FullInv, OnlyFullScansCached

\* Without a rule load after the first, no report of a scan that lacked YARA
\* findings is ever held by the memo, the queue or a file, whatever panics,
\* crashes and races: the reset of the process-wide breaker by a later load
\* (YaraEngine::load_all_rules) is the only way past the question that
\* report_cache_store asks (analysis_cache.rs).
THEOREM OnlyLoadsLetWeakIn == ASSUME Loads = 0 PROVE Spec => []OnlyFullScansCached
<1>1. Init => FullInv
  <2> SUFFICES ASSUME Init PROVE FullInv
    OBVIOUS
  <2>1. /\ \A t \in Threads : pc[t] = "idle"
        /\ Entries(chan) = {} /\ Entries(batch) = {} /\ Entries(memo) = {}
        /\ \A f \in 1..Files : Entries(disk[f]) = {}
    BY NothingWeighsNothing DEF Init
  <2>2. Held \subseteq {}
    BY <2>1, HeldWithin DEF StoreSteps
  <2>3. QED
    BY <2>1, <2>2 DEF FullInv, WeakWaits, OnlyFullScansCached
<1>2. CacheInv /\ FullInv /\ [Next]_vars => FullInv'
  BY FullNext
<1>3. FullInv => OnlyFullScansCached
  BY DEF FullInv
<1>4. QED
  BY <1>1, <1>2, <1>3, CacheInvariant, PTL DEF Spec

=============================================================================
