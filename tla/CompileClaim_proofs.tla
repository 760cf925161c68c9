------------------------ MODULE CompileClaim_proofs -------------------------
(***************************************************************************)
(* Proofs about the regex compiles: for any number of workers, patterns,   *)
(* calls and upsets, whatever the hashes and the sizes are.                *)
(***************************************************************************)
EXTENDS CompileClaim, Functions, FiniteSetTheorems, SequenceTheorems,
        WellFoundedInduction, TLAPS

-----------------------------------------------------------------------------
(* What sets of entries weigh.                                             *)

UnitsOf(p) == {p} \X (1..Size[p])
Units(P) == UNION {UnitsOf(p) : p \in P}

LEMMA UnitsOfOne ==
  ASSUME NEW p \in Patterns
  PROVE  IsFiniteSet(UnitsOf(p)) /\ Cardinality(UnitsOf(p)) = Size[p]
<1>1. Size[p] \in Nat
  BY ClaimAssumption
<1>2. IsFiniteSet(1..Size[p]) /\ Cardinality(1..Size[p]) = Size[p]
  BY <1>1, FS_Interval
<1>3. IsFiniteSet({p}) /\ Cardinality({p}) = 1
  BY FS_Singleton
<1>4. IsFiniteSet({p} \X (1..Size[p]))
      /\ Cardinality({p} \X (1..Size[p])) = Cardinality({p}) * Cardinality(1..Size[p])
  BY <1>2, <1>3, FS_Product, Zenon
<1>5. Cardinality({p}) * Cardinality(1..Size[p]) = Size[p]
  BY <1>1, <1>2, <1>3
<1>6. QED
  BY <1>4, <1>5 DEF UnitsOf

LEMMA UnitsFinite ==
  ASSUME NEW P, P \subseteq Patterns, IsFiniteSet(P)
  PROVE  IsFiniteSet(Units(P)) /\ SizeOf(P) = Cardinality(Units(P)) /\ SizeOf(P) \in Nat
<1> DEFINE T == {UnitsOf(p) : p \in P}
           f == [p \in P |-> UnitsOf(p)]
<1>1. f \in Surjection(P, T)
  BY DEF Surjection
<1>2. IsFiniteSet(T)
  <2> HIDE DEF T, f
  <2> QED
    BY <1>1, FS_Surjection
<1>3. \A U \in T : IsFiniteSet(U)
  BY UnitsOfOne
<1>4. IsFiniteSet(UNION T)
  <2> HIDE DEF T
  <2> QED
    BY <1>2, <1>3, FS_UNION
<1>5. SizeOf(P) = Cardinality(Units(P))
  BY DEF SizeOf, Units, UnitsOf
<1>6. QED
  BY <1>4, <1>5, FS_CardinalityType DEF Units

\* Sets without a common pattern weigh together what they weigh.
LEMMA SizeOfUnion ==
  ASSUME NEW P, NEW Q, P \subseteq Patterns, Q \subseteq Patterns,
         IsFiniteSet(P), IsFiniteSet(Q), P \cap Q = {}
  PROVE  SizeOf(P \cup Q) = SizeOf(P) + SizeOf(Q)
<1>1. IsFiniteSet(P \cup Q)
  BY FS_Union
<1>2. Units(P \cup Q) = Units(P) \cup Units(Q)
  BY DEF Units
<1>3. Units(P) \cap Units(Q) = {}
  BY DEF Units, UnitsOf
<1>4. Cardinality(Units(P) \cap Units(Q)) = 0
  BY <1>3, FS_EmptySet
<1>5. Cardinality(Units(P) \cup Units(Q)) = Cardinality(Units(P)) + Cardinality(Units(Q)) - 0
  BY <1>4, UnitsFinite, FS_Union
<1>6. /\ SizeOf(P \cup Q) = Cardinality(Units(P \cup Q))
      /\ SizeOf(P) = Cardinality(Units(P)) /\ SizeOf(P) \in Nat
      /\ SizeOf(Q) = Cardinality(Units(Q)) /\ SizeOf(Q) \in Nat
  BY <1>1, UnitsFinite
<1>7. Cardinality(Units(P \cup Q)) = Cardinality(Units(P)) + Cardinality(Units(Q)) - 0
  BY <1>2, <1>5
<1>8. QED
  BY <1>6, <1>7

LEMMA SizeOfFew ==
  /\ SizeOf({}) = 0
  /\ \A p \in Patterns : SizeOf({p}) = Size[p]
<1>1. Units({}) = {} /\ \A p : Units({p}) = UnitsOf(p)
  BY DEF Units
<1>2. SizeOf({}) = Cardinality(Units({}))
  BY UnitsFinite, FS_EmptySet
<1>3. \A p \in Patterns : SizeOf({p}) = Cardinality(Units({p}))
  BY UnitsFinite, FS_Singleton
<1>4. SizeOf({}) = 0
  BY <1>1, <1>2, FS_EmptySet
<1>5. ASSUME NEW p \in Patterns PROVE SizeOf({p}) = Size[p]
  BY <1>1, <1>3, UnitsOfOne
<1>6. QED
  BY <1>4, <1>5

-----------------------------------------------------------------------------
(* The store.                                                              *)

Distinct(s) == \A i, j \in DOMAIN s : s[i] = s[j] => i = j

LEMMA EntriesFinite ==
  ASSUME NEW s \in Seq(Patterns)
  PROVE  Entries(s) \subseteq Patterns /\ IsFiniteSet(Entries(s))
<1>1. DOMAIN s = 1..Len(s) /\ Len(s) \in Nat /\ s \in [1..Len(s) -> Patterns]
  BY LenProperties
<1>2. Entries(s) \subseteq Patterns
  BY <1>1 DEF Entries
<1>3. s \in Surjection(1..Len(s), Entries(s))
  BY <1>1 DEF Surjection, Entries
<1>4. QED
  BY <1>1, <1>2, <1>3, FS_Interval, FS_Surjection

\* The first entries of a sequence, and the others.
LEMMA Prefix ==
  ASSUME NEW s \in Seq(Patterns), NEW n \in 0..Len(s)
  PROVE  LET a == SubSeq(s, 1, n)
         IN  a \in Seq(Patterns) /\ Len(a) = n /\ \A i \in 1..n : a[i] = s[i]
<1> DEFINE a == SubSeq(s, 1, n)
<1>1. Len(s) \in Nat /\ \A i \in 1..Len(s) : s[i] \in Patterns
  BY LenProperties
<1>2. \A i \in 1..n : s[i] \in Patterns
  BY <1>1
<1>3. n \in Int /\ n - 1 + 1 = n /\ \A i \in 1..n : 1 + i - 1 = i
  BY <1>1
<1>4. /\ a \in Seq(Patterns)
      /\ Len(a) = IF 1 <= n THEN n - 1 + 1 ELSE 0
      /\ \A i \in 1..(n - 1 + 1) : a[i] = s[1 + i - 1]
  BY <1>2, <1>3, SubSeqProperties
<1>5. QED
  BY <1>1, <1>3, <1>4

LEMMA Suffix ==
  ASSUME NEW s \in Seq(Patterns), NEW n \in 0..Len(s)
  PROVE  LET b == SubSeq(s, n + 1, Len(s))
         IN  /\ b \in Seq(Patterns) /\ Len(b) = Len(s) - n
             /\ \A i \in 1..(Len(s) - n) : b[i] = s[n + i]
<1> DEFINE b == SubSeq(s, n + 1, Len(s))
<1>1. Len(s) \in Nat /\ \A i \in 1..Len(s) : s[i] \in Patterns
  BY LenProperties
<1>2. \A i \in (n + 1)..Len(s) : s[i] \in Patterns
  BY <1>1
<1>3. n + 1 \in Int /\ Len(s) \in Int /\ Len(s) - (n + 1) + 1 = Len(s) - n
      /\ \A i \in 1..(Len(s) - n) : (n + 1) + i - 1 = n + i
  BY <1>1
<1>4. /\ b \in Seq(Patterns)
      /\ Len(b) = IF n + 1 <= Len(s) THEN Len(s) - (n + 1) + 1 ELSE 0
      /\ \A i \in 1..(Len(s) - (n + 1) + 1) : b[i] = s[(n + 1) + i - 1]
  BY <1>2, <1>3, SubSeqProperties
<1> HIDE DEF b
<1>5. Len(b) = Len(s) - n
  <2>1. CASE n + 1 <= Len(s)
    BY <1>3, <1>4, <2>1
  <2>2. CASE ~(n + 1 <= Len(s))
    <3>1. Len(s) - n = 0
      <4>1. Len(s) <= n /\ n <= Len(s) /\ Len(s) \in Int /\ n \in Int
        BY <1>1, <2>2
      <4>2. \A x, y \in Int : x <= y /\ y <= x => x - y = 0
        OBVIOUS
      <4>3. QED
        BY <4>1, <4>2
    <3>2. Len(b) = 0
      BY <1>4, <2>2
    <3>3. QED
      BY <3>1, <3>2
  <2>3. QED
    BY <2>1, <2>2
<1>6. \A i \in 1..(Len(s) - n) : b[i] = s[(n + 1) + i - 1]
  BY <1>3, <1>4
<1>7. ASSUME NEW i \in 1..(Len(s) - n) PROVE b[i] = s[n + i]
  <2>1. (n + 1) + i - 1 = n + i
    BY <1>3
  <2>2. b[i] = s[(n + 1) + i - 1]
    BY <1>6
  <2>3. QED
    BY <2>1, <2>2
<1>8. b \in Seq(Patterns)
  BY <1>4
<1>9. QED
  BY <1>5, <1>7, <1>8

\* A sequence and the two halves it is cut into.
LEMMA Halves ==
  ASSUME NEW s \in Seq(Patterns), Distinct(s), NEW n \in 0..Len(s)
  PROVE  /\ SubSeq(s, 1, n) \in Seq(Patterns)
         /\ SubSeq(s, n + 1, Len(s)) \in Seq(Patterns)
         /\ Len(SubSeq(s, n + 1, Len(s))) = Len(s) - n
         /\ Distinct(SubSeq(s, n + 1, Len(s)))
         /\ Entries(s) = Entries(SubSeq(s, 1, n)) \cup Entries(SubSeq(s, n + 1, Len(s)))
         /\ Entries(SubSeq(s, 1, n)) \cap Entries(SubSeq(s, n + 1, Len(s))) = {}
         /\ SizeOf(Entries(s)) = SizeOf(Entries(SubSeq(s, 1, n)))
                                 + SizeOf(Entries(SubSeq(s, n + 1, Len(s))))
<1> DEFINE a == SubSeq(s, 1, n)
           b == SubSeq(s, n + 1, Len(s))
<1>1. Len(s) \in Nat /\ DOMAIN s = 1..Len(s) /\ \A i \in 1..Len(s) : s[i] \in Patterns
  BY LenProperties
<1>2. a \in Seq(Patterns) /\ Len(a) = n /\ \A i \in 1..n : a[i] = s[i]
  BY <1>1, Prefix
<1>3. b \in Seq(Patterns) /\ Len(b) = Len(s) - n /\ \A i \in 1..(Len(s) - n) : b[i] = s[n + i]
  BY <1>1, Suffix
<1>4. DOMAIN a = 1..n /\ DOMAIN b = 1..(Len(s) - n)
  BY <1>2, <1>3, LenProperties
<1> HIDE DEF a, b
<1>5. Distinct(b)
  <2> SUFFICES ASSUME NEW i \in 1..(Len(s) - n), NEW j \in 1..(Len(s) - n), b[i] = b[j]
               PROVE  i = j
    BY <1>4 DEF Distinct
  <2>1. n + i \in DOMAIN s /\ n + j \in DOMAIN s /\ s[n + i] = s[n + j]
    BY <1>1, <1>3
  <2>2. n + i = n + j
    BY <2>1 DEF Distinct
  <2>3. QED
    BY <1>1, <2>2
<1>6. Entries(s) = Entries(a) \cup Entries(b)
  <2>1. ASSUME NEW i \in 1..Len(s) PROVE s[i] \in Entries(a) \cup Entries(b)
    <3>1. CASE i <= n
      BY <1>1, <1>2, <1>4, <3>1 DEF Entries
    <3>2. CASE i > n
      <4>1. i - n \in 1..(Len(s) - n) /\ n + (i - n) = i
        BY <1>1, <3>2
      <4>2. QED
        BY <1>3, <1>4, <4>1 DEF Entries
    <3>3. QED
      BY <1>1, <3>1, <3>2
  <2>2. \A i \in 1..n : a[i] \in Entries(s)
    BY <1>1, <1>2 DEF Entries
  <2>3. ASSUME NEW i \in 1..(Len(s) - n) PROVE b[i] \in Entries(s)
    <3>1. n + i \in 1..Len(s)
      BY <1>1
    <3>2. QED
      BY <1>1, <1>3, <3>1 DEF Entries
  <2>4. /\ Entries(s) = {s[i] : i \in 1..Len(s)}
        /\ Entries(a) = {a[i] : i \in 1..n}
        /\ Entries(b) = {b[i] : i \in 1..(Len(s) - n)}
    BY <1>1, <1>4 DEF Entries
  <2>5. Entries(s) \subseteq Entries(a) \cup Entries(b)
    BY <2>1, <2>4
  <2>6. Entries(a) \subseteq Entries(s) /\ Entries(b) \subseteq Entries(s)
    BY <2>2, <2>3, <2>4
  <2>7. QED
    BY <2>5, <2>6
<1>7. Entries(a) \cap Entries(b) = {}
  <2> SUFFICES ASSUME NEW i \in 1..n, NEW j \in 1..(Len(s) - n), a[i] = b[j] PROVE FALSE
    BY <1>4 DEF Entries
  <2>1. i \in DOMAIN s /\ n + j \in DOMAIN s /\ s[i] = s[n + j]
    BY <1>1, <1>2, <1>3
  <2>2. i = n + j
    BY <2>1 DEF Distinct
  <2>3. QED
    BY <1>1, <2>2
<1>8. SizeOf(Entries(s)) = SizeOf(Entries(a)) + SizeOf(Entries(b))
  BY <1>2, <1>3, <1>6, <1>7, EntriesFinite, SizeOfUnion
<1>9. QED
  BY <1>2, <1>3, <1>5, <1>6, <1>7, <1>8 DEF a, b

LEMMA AppendNew ==
  ASSUME NEW s \in Seq(Patterns), Distinct(s), NEW p \in Patterns, p \notin Entries(s)
  PROVE  /\ Append(s, p) \in Seq(Patterns)
         /\ Len(Append(s, p)) = Len(s) + 1
         /\ Distinct(Append(s, p))
         /\ Entries(Append(s, p)) = Entries(s) \cup {p}
<1> DEFINE t == Append(s, p)
<1>1. /\ t \in Seq(Patterns) /\ Len(t) = Len(s) + 1
      /\ \A i \in 1..Len(s) : t[i] = s[i]
      /\ t[Len(s) + 1] = p
  BY AppendProperties
<1>2. /\ Len(s) \in Nat /\ DOMAIN s = 1..Len(s)
      /\ DOMAIN t = 1..(Len(s) + 1)
  BY <1>1, LenProperties
<1> HIDE DEF t
<1>3. \A i \in 1..(Len(s) + 1) : i \in 1..Len(s) \/ i = Len(s) + 1
  BY <1>2
<1>4. \A i \in 1..Len(s) : t[i] # p
  BY <1>1, <1>2 DEF Entries
<1>5. Distinct(t)
  BY <1>1, <1>2, <1>3, <1>4 DEF Distinct
<1>6. Entries(t) = Entries(s) \cup {p}
  <2>1. \A i \in 1..Len(s) : i \in 1..(Len(s) + 1)
    BY <1>2
  <2>2. Len(s) + 1 \in 1..(Len(s) + 1)
    BY <1>2
  <2>3. Entries(t) = {t[i] : i \in 1..(Len(s) + 1)} /\ Entries(s) = {s[i] : i \in 1..Len(s)}
    BY <1>2 DEF Entries
  <2>4. Entries(t) \subseteq Entries(s) \cup {p}
    BY <1>1, <1>3, <2>3
  <2>5. Entries(s) \cup {p} \subseteq Entries(t)
    BY <1>1, <2>1, <2>2, <2>3
  <2>6. QED
    BY <2>4, <2>5
<1>7. QED
  BY <1>1, <1>5, <1>6 DEF t

\* An entry taken out of the middle of a store.
LEMMA TakeOut ==
  ASSUME NEW s \in Seq(Patterns), Distinct(s), NEW i \in 1..Len(s)
  PROVE  LET r == SubSeq(s, 1, i - 1) \o SubSeq(s, i + 1, Len(s))
         IN  /\ r \in Seq(Patterns) /\ Len(r) = Len(s) - 1
             /\ Distinct(r)
             /\ Entries(r) = Entries(s) \ {s[i]}
<1> DEFINE a == SubSeq(s, 1, i - 1)
           b == SubSeq(s, i + 1, Len(s))
           r == a \o b
<1>1. Len(s) \in Nat /\ DOMAIN s = 1..Len(s) /\ \A k \in 1..Len(s) : s[k] \in Patterns
  BY LenProperties
<1>2. a \in Seq(Patterns) /\ Len(a) = i - 1 /\ \A k \in 1..(i - 1) : a[k] = s[k]
  <2>1. i - 1 \in 0..Len(s)
    BY <1>1
  <2> HIDE DEF a
  <2>2. \A n \in 0..Len(s) : LET c == SubSeq(s, 1, n)
            IN  c \in Seq(Patterns) /\ Len(c) = n /\ \A k \in 1..n : c[k] = s[k]
    BY Prefix
  <2>3. QED
    BY <2>1, <2>2 DEF a
<1>3. /\ b \in Seq(Patterns) /\ Len(b) = Len(s) - i
      /\ \A k \in 1..(Len(s) - i) : b[k] = s[i + k]
  <2>1. i \in 0..Len(s)
    BY <1>1
  <2>2. \A n \in 0..Len(s) : LET c == SubSeq(s, n + 1, Len(s))
            IN  /\ c \in Seq(Patterns) /\ Len(c) = Len(s) - n
                /\ \A k \in 1..(Len(s) - n) : c[k] = s[n + k]
    BY Suffix
  <2>3. QED
    BY <2>1, <2>2
<1>4. /\ r \in Seq(Patterns) /\ Len(r) = Len(s) - 1
      /\ \A k \in 1..(Len(s) - 1) : r[k] = IF k < i THEN s[k] ELSE s[k + 1]
  <2> HIDE DEF a, b
  <2>0. r \in Seq(Patterns) /\ Len(r) = Len(a) + Len(b)
        /\ \A k \in 1..Len(a) + Len(b) : r[k] = IF k <= Len(a) THEN a[k] ELSE b[k - Len(a)]
    BY <1>2, <1>3, ConcatProperties
  <2> HIDE DEF r
  <2>1. r \in Seq(Patterns) /\ Len(r) = (i - 1) + (Len(s) - i)
        /\ \A k \in 1..((i - 1) + (Len(s) - i)) :
              r[k] = IF k <= i - 1 THEN a[k] ELSE b[k - (i - 1)]
    BY <1>2, <1>3, <2>0
  <2>2. (i - 1) + (Len(s) - i) = Len(s) - 1
    BY <1>1
  <2>3. ASSUME NEW k \in 1..(Len(s) - 1) PROVE r[k] = IF k < i THEN s[k] ELSE s[k + 1]
    <3>1. r[k] = IF k <= i - 1 THEN a[k] ELSE b[k - (i - 1)]
      BY <2>1, <2>2
    <3>2. CASE k < i
      <4>1. k <= i - 1 /\ k \in 1..(i - 1)
        BY <1>1, <3>2
      <4>2. QED
        BY <1>2, <3>1, <3>2, <4>1
    <3>3. CASE ~(k < i)
      <4>1. ~(k <= i - 1) /\ k - (i - 1) \in 1..(Len(s) - i) /\ i + (k - (i - 1)) = k + 1
        BY <1>1, <3>3
      <4>2. b[k - (i - 1)] = s[i + (k - (i - 1))]
        BY <1>3, <4>1
      <4>3. QED
        BY <3>1, <3>3, <4>1, <4>2
    <3>4. QED
      BY <3>2, <3>3
  <2>4. QED
    BY <2>1, <2>2, <2>3
<1>5. DOMAIN r = 1..(Len(s) - 1)
  BY <1>4, LenProperties
<1> HIDE DEF r
<1> DEFINE at(k) == IF k < i THEN k ELSE k + 1
<1>6. \A k \in 1..(Len(s) - 1) : at(k) \in 1..Len(s) /\ at(k) # i /\ r[k] = s[at(k)]
  BY <1>1, <1>4
<1>7. \A j, k \in 1..(Len(s) - 1) : at(j) = at(k) => j = k
  BY <1>1
<1>8. ASSUME NEW j \in 1..Len(s), j # i PROVE \E k \in 1..(Len(s) - 1) : at(k) = j
  <2>1. CASE j < i
    <3>1. j \in 1..(Len(s) - 1) /\ at(j) = j
      BY <1>1, <2>1
    <3>2. QED
      BY <3>1
  <2>2. CASE ~(j < i)
    <3>1. j - 1 \in 1..(Len(s) - 1) /\ at(j - 1) = j
      BY <1>1, <1>8, <2>2
    <3>2. QED
      BY <3>1
  <2>3. QED
    BY <2>1, <2>2
<1> HIDE DEF at
<1>9. Distinct(r)
  <2> SUFFICES ASSUME NEW j \in 1..(Len(s) - 1), NEW k \in 1..(Len(s) - 1), r[j] = r[k]
               PROVE  j = k
    BY <1>5 DEF Distinct
  <2>1. at(j) = at(k)
    BY <1>1, <1>6 DEF Distinct
  <2>2. QED
    BY <1>7, <2>1
<1>10. Entries(r) = Entries(s) \ {s[i]}
  <2>1. Entries(r) = {r[k] : k \in 1..(Len(s) - 1)} /\ Entries(s) = {s[k] : k \in 1..Len(s)}
    BY <1>1, <1>5 DEF Entries
  <2>2. ASSUME NEW k \in 1..(Len(s) - 1) PROVE r[k] \in Entries(s) \ {s[i]}
    <3>1. s[at(k)] \in Entries(s) /\ s[at(k)] # s[i]
      BY <1>1, <1>6, <2>1 DEF Distinct
    <3>2. QED
      BY <1>6, <3>1
  <2>3. ASSUME NEW j \in 1..Len(s), j # i PROVE s[j] \in Entries(r)
    <3>1. PICK k \in 1..(Len(s) - 1) : at(k) = j
      BY <1>8, <2>3
    <3>2. QED
      BY <1>6, <2>1, <3>1
  <2>4. QED
    BY <2>1, <2>2, <2>3
<1>11. QED
  BY <1>4, <1>9, <1>10 DEF r

\* The store is sound: no pattern twice and none that does not compile, and the
\* count of its bytes is right and within the budget.
Sound ==
    /\ Entries(store) \cap Bad = {}
    /\ Distinct(store)
    /\ bytes = SizeOf(Entries(store))
    /\ bytes <= Budget \/ Len(store) <= 1

LEMMA InStoreEntries == \A p : InStore(p) <=> p \in Entries(store)
BY DEF InStore, Entries

LEMMA OthersFacts ==
  ASSUME store \in Stores, Distinct(store), NEW p \in Patterns
  PROVE  /\ Others(p) \in Seq(Patterns) /\ Len(Others(p)) + 1 <= Cap
         /\ Distinct(Others(p))
         /\ Displaced(p) \subseteq Entries(store)
         /\ Entries(Others(p)) = Entries(store) \ Displaced(p)
         /\ p \notin Entries(Others(p))
<1>1. /\ store \in Seq(Patterns) /\ Len(store) \in Nat /\ Len(store) <= Cap
      /\ DOMAIN store = 1..Len(store) /\ Cap \in Nat \ {0}
  BY ClaimAssumption, LenProperties DEF Stores
<1>0. Len(store) \in Nat /\ Len(store) <= Cap /\ Cap \in Nat
  BY <1>1
<1>2. CASE InStore(p)
  <2> DEFINE i == CHOOSE i \in DOMAIN store : store[i] = p
  <2>1. i \in 1..Len(store) /\ store[i] = p
    BY <1>1, <1>2 DEF InStore
  <2>2. Others(p) = SubSeq(store, 1, i - 1) \o SubSeq(store, i + 1, Len(store))
    BY <1>2 DEF Others
  <2> HIDE DEF i
  <2>3. Displaced(p) = {store[i]} /\ p \in Entries(store)
    BY <1>2, <2>1, InStoreEntries DEF Displaced
  <2>4. /\ Others(p) \in Seq(Patterns) /\ Len(Others(p)) = Len(store) - 1
        /\ Distinct(Others(p))
        /\ Entries(Others(p)) = Entries(store) \ {store[i]}
    BY <1>1, <2>1, <2>2, TakeOut
  <2>5. Len(Others(p)) + 1 <= Cap
    BY <1>1, <2>4
  <2>6. QED
    BY <2>1, <2>3, <2>4, <2>5
<1>3. CASE ~InStore(p) /\ Len(store) = Cap
  <2>1. store # <<>> /\ 1 \in 1..Len(store)
    BY <1>1, <1>3
  <2>2. Others(p) = Tail(store) /\ Displaced(p) = {Head(store)}
    BY <1>3 DEF Others, Displaced
  <2>3. Tail(store) = SubSeq(store, 2, Len(store)) /\ Head(store) = store[1]
    BY <1>1, <2>1, TailIsSubSeq
  <2>4. SubSeq(store, 1, 1 - 1) = <<>>
    BY SubSeqEmpty
  <2>5. SubSeq(store, 2, Len(store)) \in Seq(Patterns)
    BY <1>1, <2>1, <2>3, HeadTailProperties
  <2>6. SubSeq(store, 1, 1 - 1) \o SubSeq(store, 1 + 1, Len(store)) = SubSeq(store, 2, Len(store))
    BY <2>4, <2>5, ConcatEmptySeq
  <2>7. /\ Others(p) \in Seq(Patterns) /\ Len(Others(p)) = Len(store) - 1
        /\ Distinct(Others(p))
        /\ Entries(Others(p)) = Entries(store) \ {store[1]}
    BY <1>1, <2>1, <2>2, <2>3, <2>6, TakeOut
  <2>8. Len(Others(p)) + 1 <= Cap
    BY <1>1, <2>7
  <2>9. Displaced(p) \subseteq Entries(store)
    BY <1>1, <2>1, <2>2, <2>3 DEF Entries
  <2>10. QED
    BY <1>3, <2>2, <2>3, <2>7, <2>8, <2>9, InStoreEntries
<1>4. CASE ~InStore(p) /\ Len(store) # Cap
  <2>0. Len(store) + 1 <= Cap
    <3>1. Len(store) \in Int /\ Cap \in Int /\ Len(store) <= Cap
      BY <1>0
    <3>2. \A x, y \in Int : x <= y /\ x # y => x + 1 <= y
      OBVIOUS
    <3>3. QED
      BY <1>4, <3>1, <3>2
  <2>1. Others(p) = store /\ Displaced(p) = {}
    BY <1>4 DEF Others, Displaced
  <2>2. QED
    BY <1>1, <1>4, <2>0, <2>1, InStoreEntries
<1>5. QED
  BY <1>2, <1>3, <1>4

\* The eviction loop ends, before the last entry.
LEMMA EvictedFacts ==
  ASSUME NEW s \in Seq(Patterns), NEW b \in Int, Len(s) >= 1
  PROVE  /\ Evicted(s, b) \in 0..(Len(s) - 1)
         /\ Fits(s, b, Evicted(s, b))
<1> DEFINE T == {n \in 0..Len(s) : Fits(s, b, n)}
           R == OpToRel(<, Nat)
<1>1. Len(s) \in Nat /\ Len(s) - 1 \in 0..Len(s)
  BY LenProperties
<1>2. T \subseteq Nat /\ Len(s) - 1 \in T
  BY <1>1 DEF Fits
<1>3. PICK m \in T : \A k \in T : ~(<<k, m>> \in R)
  <2> HIDE DEF T
  <2>1. T # {}
    BY <1>2
  <2>2. QED
    BY <1>2, <2>1, NatLessThanWellFounded, WFMin
<1>4. \A k \in T : ~(k < m)
  BY <1>2, <1>3 DEF OpToRel
<1>5. m \in 0..Len(s) /\ Fits(s, b, m) /\ \A k \in 0..(m - 1) : ~Fits(s, b, k)
  BY <1>1, <1>4
<1>6. /\ Evicted(s, b) \in 0..Len(s)
      /\ Fits(s, b, Evicted(s, b))
      /\ \A k \in 0..(Evicted(s, b) - 1) : ~Fits(s, b, k)
  BY <1>5 DEF Evicted
<1>7. Fits(s, b, Len(s) - 1)
  BY <1>2
<1>8. Len(s) - 1 \notin 0..(Evicted(s, b) - 1)
  BY <1>6, <1>7
<1>9. QED
  BY <1>1, <1>6, <1>8

\* What put does to a sound store.
LEMMA PutFacts ==
  ASSUME store \in Stores, Sound, NEW p \in Patterns \ Bad, Put(p)
  PROVE  /\ store' \in Stores /\ bytes' \in Int /\ Sound'
         /\ smooth' \in BOOLEAN
         /\ smooth' => smooth /\ ~InStore(p) /\ Entries(store)' = Entries(store) \cup {p}
<1> DEFINE pushed == Append(Others(p), p)
           counted == bytes - SizeOf(Displaced(p)) + Size[p]
           n == Evicted(pushed, counted)
<1>1. /\ store' = SubSeq(pushed, n + 1, Len(pushed))
      /\ bytes' = After(pushed, counted, n)
      /\ smooth' = (smooth /\ n = 0 /\ Displaced(p) = {})
  BY DEF Put
<1>2. /\ Others(p) \in Seq(Patterns) /\ Len(Others(p)) + 1 <= Cap
      /\ Distinct(Others(p))
      /\ Displaced(p) \subseteq Entries(store)
      /\ Entries(Others(p)) = Entries(store) \ Displaced(p)
      /\ p \notin Entries(Others(p))
  BY OthersFacts DEF Sound
<1>3. /\ pushed \in Seq(Patterns)
      /\ Len(pushed) = Len(Others(p)) + 1
      /\ Distinct(pushed)
      /\ Entries(pushed) = Entries(Others(p)) \cup {p}
  BY <1>2, AppendNew
<1>4. /\ Entries(store) \subseteq Patterns /\ IsFiniteSet(Entries(store))
      /\ IsFiniteSet(Entries(Others(p))) /\ Entries(Others(p)) \subseteq Patterns
      /\ IsFiniteSet(Displaced(p))
  BY <1>2, EntriesFinite, FS_Subset DEF Stores
<1>5. counted = SizeOf(Entries(pushed))
  <2>1. Entries(store) = Entries(Others(p)) \cup Displaced(p)
        /\ Entries(Others(p)) \cap Displaced(p) = {} /\ Displaced(p) \subseteq Patterns
    BY <1>2, <1>4
  <2>2. SizeOf(Entries(store)) = SizeOf(Entries(Others(p))) + SizeOf(Displaced(p))
    BY <1>4, <2>1, SizeOfUnion
  <2>3. SizeOf(Entries(pushed)) = SizeOf(Entries(Others(p))) + SizeOf({p})
    <3>1. IsFiniteSet({p}) /\ {p} \subseteq Patterns /\ Entries(Others(p)) \cap {p} = {}
      BY <1>2, FS_Singleton
    <3>2. SizeOf(Entries(Others(p)) \cup {p}) = SizeOf(Entries(Others(p))) + SizeOf({p})
      BY <1>4, <3>1, SizeOfUnion
    <3>3. QED
      BY <1>3, <3>2
  <2>4. SizeOf({p}) = Size[p] /\ Size[p] \in Nat
    BY SizeOfFew, ClaimAssumption
  <2>5. SizeOf(Entries(Others(p))) \in Nat /\ SizeOf(Displaced(p)) \in Nat
    BY <1>4, <2>1, UnitsFinite
  <2>6. bytes = SizeOf(Entries(store))
    BY DEF Sound
  <2> HIDE DEF pushed
  <2>7. QED
    BY <2>2, <2>3, <2>4, <2>5, <2>6
<1>6. Len(Others(p)) \in Nat /\ Len(pushed) >= 1 /\ Len(pushed) \in Nat /\ Len(pushed) <= Cap
  BY <1>2, <1>3, LenProperties
<1> HIDE DEF pushed, counted
<1>7. counted \in Int
  <2>1. SizeOf(Entries(pushed)) \in Nat
    BY <1>3, EntriesFinite, UnitsFinite
  <2>2. QED
    BY <1>5, <2>1
<1>8. n \in 0..(Len(pushed) - 1) /\ Fits(pushed, counted, n)
  BY <1>3, <1>6, <1>7, EvictedFacts
<1>9. n \in 0..Len(pushed)
  BY <1>6, <1>8
<1> HIDE DEF n
<1>10. /\ SubSeq(pushed, 1, n) \in Seq(Patterns)
       /\ store' \in Seq(Patterns)
       /\ Len(store') = Len(pushed) - n
       /\ Distinct(store')
       /\ Entries(pushed) = Entries(SubSeq(pushed, 1, n)) \cup Entries(store')
       /\ SizeOf(Entries(pushed)) = SizeOf(Entries(SubSeq(pushed, 1, n)))
                                       + SizeOf(Entries(store'))
  BY <1>1, <1>3, <1>9, Halves
<1>11. /\ SizeOf(Entries(SubSeq(pushed, 1, n))) \in Nat /\ SizeOf(Entries(store')) \in Nat
  BY <1>10, EntriesFinite, UnitsFinite
<1>12. bytes' = SizeOf(Entries(store'))
  <2>1. bytes' = counted - SizeOf(Entries(SubSeq(pushed, 1, n)))
    BY <1>1 DEF After
  <2>2. QED
    <3> DEFINE x == SizeOf(Entries(SubSeq(pushed, 1, n)))
               y == SizeOf(Entries(store'))
    <3>1. x \in Nat /\ y \in Nat /\ bytes' = counted - x /\ counted = x + y
      BY <1>5, <1>10, <1>11, <2>1
    <3> HIDE DEF x, y
    <3>2. bytes' = y
      BY <3>1
    <3>3. QED
      BY <3>2 DEF y
<1>13. bytes' <= Budget \/ Len(store') <= 1
  <2>1. CASE After(pushed, counted, n) <= Budget
    BY <1>1, <2>1
  <2>2. CASE n >= Len(pushed) - 1
    BY <1>6, <1>9, <1>10, <2>2
  <2>3. QED
    BY <1>8, <2>1, <2>2 DEF Fits
<1>14. Entries(store') \cap Bad = {}
  BY <1>2, <1>3, <1>10 DEF Sound
<1>15. store' \in Stores /\ bytes' \in Int
  <2>1. Len(store') <= Cap
    BY <1>6, <1>9, <1>10, ClaimAssumption
  <2>2. QED
    BY <1>10, <1>11, <1>12, <2>1 DEF Stores
<1>16. ASSUME smooth' PROVE smooth /\ ~InStore(p) /\ Entries(store') = Entries(store) \cup {p}
  <2>1. smooth /\ n = 0 /\ Displaced(p) = {}
    BY <1>1, <1>16
  <2>2. store' = pushed
    BY <1>1, <1>3, <2>1, SubSeqFull
  <2>3. QED
    BY <1>2, <1>3, <2>1, <2>2, InStoreEntries
<1>17. Sound' /\ Entries(store)' = Entries(store')
  BY <1>10, <1>12, <1>13, <1>14 DEF Sound, Distinct, Entries
<1>18. QED
  BY <1>1, <1>15, <1>16, <1>17

-----------------------------------------------------------------------------
(* The invariant of the claims, the store and the answers.                 *)

Pcs == {"idle", "look", "claim", "recheck", "compile", "put", "release", "peek", "slot",
        "last", "own", "ownPut", "done"}
Engine(p) == IF p \in Bad THEN NoEngine ELSE p

\* What holds of a worker by itself.
Mine(w) ==
    /\ pc[w] # "idle" => want[w] \in Patterns
    /\ pc[w] = "put" => want[w] \notin Bad
    /\ pc[w] = "done" => got[w] = Engine(want[w])
    /\ \A s \in MemoSlots : memo[w][s] \notin Bad
    /\ pc[w] \in {"look", "claim", "peek", "slot"} => polls[w] < Polls

ClaimInv ==
    /\ TypeOK
    /\ \A w \in Workers : Mine(w)
    /\ ClaimsExact
    /\ Sound

\* What a step of a worker leaves alone.
Alone(w) ==
    \A v \in Workers : v # w =>
        /\ pc'[v] = pc[v] /\ want'[v] = want[v] /\ got'[v] = got[v]
        /\ memo'[v] = memo[v] /\ polls'[v] = polls[v]

LEMMA PatternFacts ==
  /\ Bad \subseteq Patterns /\ NoEngine \notin Patterns
  /\ \A p \in Patterns : /\ Hash[p] \in Nat \ {0}
                         /\ SlotOf[p] \in Slots /\ MemoOf[p] \in MemoSlots
                         /\ Engine(p) \in Patterns \cup {NoEngine}
                         /\ Engine(p) \notin Bad
BY ClaimAssumption DEF Slots, MemoSlots, Engine

LEMMA Together ==
  ASSUME ClaimInv, NEW w \in Workers, TypeOK', Mine(w)', Alone(w), ClaimsExact', Sound'
  PROVE  ClaimInv'
<1>1. ASSUME NEW v \in Workers, v # w PROVE Mine(v)'
  BY <1>1 DEF ClaimInv, Mine, Alone
<1>2. QED
  BY <1>1 DEF ClaimInv

LEMMA ClaimsKept ==
  ASSUME ClaimsExact, slot' = slot,
         \A v \in Workers : (Holds(v)' <=> Holds(v)) /\ (Holds(v) => want'[v] = want[v])
  PROVE  ClaimsExact'
<1>1. \A v \in Workers : Holds(v) => SlotFor(v)' = SlotFor(v) /\ HashFor(v)' = HashFor(v)
  BY DEF SlotFor, HashFor
<1>2. QED
  BY <1>1 DEF ClaimsExact

\* A step that neither takes nor frees a claim.
LEMMA NoClaim ==
  ASSUME ClaimsExact, slot' = slot, NEW w \in Workers, Alone(w),
         Holds(w)' <=> Holds(w), Holds(w) => want'[w] = want[w]
  PROVE  ClaimsExact'
<1>1. \A v \in Workers : (Holds(v)' <=> Holds(v)) /\ (Holds(v) => want'[v] = want[v])
  BY DEF Alone, Holds
<1>2. QED
  BY <1>1, ClaimsKept

LEMMA FreeClaim ==
  ASSUME ClaimInv, NEW w \in Workers, Alone(w), Holds(w), ~Holds(w)',
         slot' = [slot EXCEPT ![SlotFor(w)] = 0]
  PROVE  ClaimsExact'
<1>1. \A v \in Workers : v # w => /\ Holds(v)' <=> Holds(v)
                                  /\ SlotFor(v)' = SlotFor(v) /\ HashFor(v)' = HashFor(v)
  BY DEF Alone, Holds, SlotFor, HashFor
<1>2. \A v \in Workers : Holds(v) => SlotFor(v) \in Slots
  BY PatternFacts DEF ClaimInv, Mine, Holds, SlotFor
<1>3. slot \in [Slots -> {0} \cup {Hash[p] : p \in Patterns}] /\ ClaimsExact
  BY DEF ClaimInv, TypeOK
<1>4. \A v \in Workers : v # w /\ Holds(v) => SlotFor(v) # SlotFor(w)
  BY <1>3 DEF ClaimsExact
<1>5. \A v \in Workers : Holds(v)' => slot'[SlotFor(v)'] = HashFor(v)'
  BY <1>1, <1>2, <1>3, <1>4 DEF ClaimsExact
<1>6. \A u, v \in Workers : (Holds(u)' /\ Holds(v)' /\ SlotFor(u)' = SlotFor(v)') => u = v
  BY <1>1, <1>3 DEF ClaimsExact
<1>7. ASSUME NEW s \in Slots, slot'[s] # 0
      PROVE  \E v \in Workers : Holds(v)' /\ SlotFor(v)' = s
  <2>1. s # SlotFor(w) /\ slot[s] # 0
    BY <1>2, <1>3, <1>7
  <2>2. PICK v \in Workers : Holds(v) /\ SlotFor(v) = s
    BY <1>3, <2>1 DEF ClaimsExact
  <2>3. QED
    BY <1>1, <2>1, <2>2
<1>8. QED
  BY <1>5, <1>6, <1>7 DEF ClaimsExact

LEMMA TakeClaim ==
  ASSUME ClaimInv, NEW w \in Workers, Alone(w), ~Holds(w), Holds(w)', want' = want,
         want[w] \in Patterns, slot[SlotFor(w)] = 0,
         slot' = [slot EXCEPT ![SlotFor(w)] = HashFor(w)]
  PROVE  ClaimsExact'
<1>1. \A v \in Workers : /\ v # w => (Holds(v)' <=> Holds(v))
                         /\ SlotFor(v)' = SlotFor(v) /\ HashFor(v)' = HashFor(v)
  BY DEF Alone, Holds, SlotFor, HashFor
<1>2. /\ SlotFor(w) \in Slots /\ HashFor(w) # 0
      /\ \A v \in Workers : Holds(v) => SlotFor(v) \in Slots /\ HashFor(v) # 0
  BY PatternFacts DEF ClaimInv, Mine, Holds, SlotFor, HashFor
<1>3. slot \in [Slots -> {0} \cup {Hash[p] : p \in Patterns}] /\ ClaimsExact
  BY DEF ClaimInv, TypeOK
<1>4. \A v \in Workers : Holds(v) => SlotFor(v) # SlotFor(w)
  BY <1>2, <1>3 DEF ClaimsExact
<1>5. \A v \in Workers : Holds(v)' => slot'[SlotFor(v)'] = HashFor(v)'
  BY <1>1, <1>2, <1>3, <1>4 DEF ClaimsExact
<1>6. \A u, v \in Workers : (Holds(u)' /\ Holds(v)' /\ SlotFor(u)' = SlotFor(v)') => u = v
  BY <1>1, <1>3, <1>4 DEF ClaimsExact
<1>7. ASSUME NEW s \in Slots, slot'[s] # 0
      PROVE  \E v \in Workers : Holds(v)' /\ SlotFor(v)' = s
  <2>1. CASE s = SlotFor(w)
    BY <1>1, <2>1
  <2>2. CASE s # SlotFor(w)
    <3>1. slot[s] # 0
      BY <1>3, <1>7, <2>2
    <3>2. PICK v \in Workers : Holds(v) /\ SlotFor(v) = s
      BY <1>3, <3>1 DEF ClaimsExact
    <3>3. Holds(v)'
      BY <1>1, <3>2
    <3>4. QED
      BY <1>1, <3>2, <3>3
  <2>3. QED
    BY <2>1, <2>2
<1>8. QED
  BY <1>5, <1>6, <1>7 DEF ClaimsExact

LEMMA SoundStays == ASSUME Sound, UNCHANGED <<store, bytes>> PROVE Sound'
BY DEF Sound, Entries, Distinct

\* A call returns the engine of its pattern.
LEMMA GoodReturn ==
  ASSUME ClaimInv, NEW w \in Workers, pc[w] # "idle", Return(w, Engine(want[w])),
         want' = want
  PROVE  /\ pc' = [pc EXCEPT ![w] = "done"]
         /\ pc' \in [Workers -> Pcs]
         /\ got' \in [Workers -> Patterns \cup {NoEngine}]
         /\ memo' \in [Workers -> [MemoSlots -> Patterns \cup {NoEngine}]]
         /\ Mine(w)'
         /\ polls' = polls => Alone(w)
<1>1. TypeOK /\ Mine(w) /\ want[w] \in Patterns
  BY DEF ClaimInv, Mine
<1> DEFINE e == Engine(want[w])
           m == MemoOf[want[w]]
<1>2. /\ e \in Patterns \cup {NoEngine} /\ e \notin Bad /\ m \in MemoSlots
  BY <1>1, PatternFacts
<1>3. pc' = [pc EXCEPT ![w] = "done"] /\ got' = [got EXCEPT ![w] = e]
  BY DEF Return, Goto
<1>4. \/ memo' = memo
      \/ memo' = [memo EXCEPT ![w][m] = e]
  BY DEF Return
<1> HIDE DEF e, m
<1>5. /\ pc' \in [Workers -> Pcs] /\ got' \in [Workers -> Patterns \cup {NoEngine}]
      /\ pc'[w] = "done" /\ got'[w] = e
      /\ \A v \in Workers : v # w => pc'[v] = pc[v] /\ got'[v] = got[v]
  BY <1>1, <1>2, <1>3 DEF TypeOK, Pcs
<1>6. /\ memo' \in [Workers -> [MemoSlots -> Patterns \cup {NoEngine}]]
      /\ \A v \in Workers : v # w => memo'[v] = memo[v]
      /\ \A s \in MemoSlots : memo'[w][s] \notin Bad
  <2>1. memo \in [Workers -> [MemoSlots -> Patterns \cup {NoEngine}]]
        /\ \A s \in MemoSlots : memo[w][s] \notin Bad
    BY <1>1 DEF TypeOK, Mine
  <2>2. CASE memo' = memo
    BY <2>1, <2>2
  <2>3. CASE memo' = [memo EXCEPT ![w][m] = e]
    <3>1. [memo[w] EXCEPT ![m] = e] \in [MemoSlots -> Patterns \cup {NoEngine}]
      BY <1>2, <2>1
    <3>2. memo' = [memo EXCEPT ![w] = [memo[w] EXCEPT ![m] = e]]
      BY <2>3
    <3>3. QED
      BY <1>2, <2>1, <3>1, <3>2
  <2>4. QED
    BY <1>4, <2>2, <2>3
<1>7. Mine(w)'
  BY <1>1, <1>5, <1>6 DEF Mine, e
<1>8. polls' = polls => Alone(w)
  BY <1>5, <1>6 DEF Alone
<1>9. QED
  BY <1>3, <1>5, <1>6, <1>7, <1>8

\* A move of the program counter, with the answers and the memo as they are.
LEMMA MoveFacts ==
  ASSUME ClaimInv, NEW w \in Workers, NEW l \in Pcs, pc' = [pc EXCEPT ![w] = l],
         UNCHANGED <<memo, want, got>>
  PROVE  /\ pc' \in [Workers -> Pcs] /\ pc'[w] = l
         /\ got' \in [Workers -> Patterns \cup {NoEngine}]
         /\ want' \in [Workers -> Patterns \cup {NoEngine}]
         /\ memo' \in [Workers -> [MemoSlots -> Patterns \cup {NoEngine}]]
         /\ polls' = polls => Alone(w)
         /\ /\ pc[w] # "idle"
            /\ l = "put" => want[w] \notin Bad
            /\ l # "done"
            /\ l \in {"look", "claim", "peek", "slot"} => polls'[w] < Polls
            => Mine(w)'
<1>1. TypeOK /\ Mine(w)
  BY DEF ClaimInv
<1>2. pc' \in [Workers -> Pcs] /\ pc'[w] = l /\ \A v \in Workers : v # w => pc'[v] = pc[v]
  BY <1>1 DEF TypeOK, Pcs
<1>3. QED
  BY <1>1, <1>2 DEF TypeOK, Mine, Alone

LEMMA CallKeeps ==
  ASSUME ClaimInv, NEW w \in Workers, NEW p \in Patterns, Call(w, p)
  PROVE  ClaimInv'
<1>1. /\ TypeOK /\ Mine(w) /\ pc[w] = "idle"
      /\ pc' = [pc EXCEPT ![w] = "look"] /\ want' = [want EXCEPT ![w] = p]
      /\ polls' = [polls EXCEPT ![w] = 0]
      /\ UNCHANGED <<store, bytes, slot, memo, got, compiles, smooth>>
  BY DEF Call, Goto, ClaimInv
<1>2. /\ pc' \in [Workers -> Pcs] /\ want' \in [Workers -> Patterns \cup {NoEngine}]
      /\ pc'[w] = "look" /\ want'[w] = p /\ polls'[w] = 0
      /\ Alone(w)
  BY <1>1 DEF TypeOK, Pcs, Alone
<1>3. Polls \in Nat \ {0} /\ Calls \in Nat
  BY ClaimAssumption
<1>4. polls' \in [Workers -> 0..Polls]
  BY <1>1, <1>3 DEF TypeOK
<1>5. left' \in [calls : 0..Calls, upsets : 0..Upsets]
  <2>1. /\ left.calls > 0 /\ left' = [left EXCEPT !.calls = left.calls - 1]
        /\ left \in [calls : 0..Calls, upsets : 0..Upsets]
    BY <1>1 DEF Call, TypeOK
  <2>2. left.calls - 1 \in 0..Calls
    BY <1>3, <2>1
  <2>3. QED
    BY <2>1, <2>2
<1>6. TypeOK'
  BY <1>1, <1>2, <1>4, <1>5 DEF TypeOK, Pcs
<1>7. Mine(w)'
  BY <1>1, <1>2, <1>3 DEF Mine
<1>8. ~Holds(w) /\ ~Holds(w)'
  BY <1>1, <1>2 DEF Holds
<1>9. ClaimsExact' /\ Sound'
  BY <1>1, <1>2, <1>8, NoClaim, SoundStays DEF ClaimInv
<1>10. QED
  BY <1>2, <1>6, <1>7, <1>9, Together

\* A return that neither takes nor frees a claim, or frees the worker's own.
LEMMA ReturnKeeps ==
  ASSUME ClaimInv, NEW w \in Workers, pc[w] # "idle", Return(w, Engine(want[w])),
         UNCHANGED <<want, polls, left, compiles>>,
         \/ slot' = slot /\ ~Holds(w)
         \/ slot' = [slot EXCEPT ![SlotFor(w)] = 0] /\ Holds(w),
         store' \in Stores, bytes' \in Int, smooth' \in BOOLEAN, Sound'
  PROVE  ClaimInv'
<1>1. /\ TypeOK /\ Mine(w) /\ Mine(w)' /\ Alone(w)
      /\ pc' = [pc EXCEPT ![w] = "done"] /\ pc' \in [Workers -> Pcs]
      /\ got' \in [Workers -> Patterns \cup {NoEngine}]
      /\ memo' \in [Workers -> [MemoSlots -> Patterns \cup {NoEngine}]]
  BY GoodReturn DEF ClaimInv
<1>2. slot' \in [Slots -> {0} \cup {Hash[p] : p \in Patterns}]
  BY <1>1 DEF TypeOK
<1>3. TypeOK'
  BY <1>1, <1>2 DEF TypeOK, Pcs
<1>4. ~Holds(w)'
  BY <1>1 DEF Holds, TypeOK
<1>5. ClaimsExact'
  BY <1>1, <1>4, NoClaim, FreeClaim DEF ClaimInv
<1>6. QED
  BY <1>1, <1>3, <1>5, Together

\* A move that leaves what is shared alone.
LEMMA MoveKeeps ==
  ASSUME ClaimInv, NEW w \in Workers, NEW l \in Pcs, pc' = [pc EXCEPT ![w] = l],
         UNCHANGED <<store, bytes, slot, memo, want, got, left>>,
         polls' \in [Workers -> 0..Polls], smooth' \in BOOLEAN,
         compiles' \in [Patterns -> Nat],
         \A v \in Workers : v # w => polls'[v] = polls[v],
         pc[w] # "idle",
         l = "put" => want[w] \notin Bad,
         l # "done",
         l \in {"look", "claim", "peek", "slot"} => polls'[w] < Polls,
         l \in {"recheck", "compile", "put", "release"} <=> Holds(w)
  PROVE  ClaimInv'
<1>1. /\ pc' \in [Workers -> Pcs] /\ pc'[w] = l
      /\ got' \in [Workers -> Patterns \cup {NoEngine}]
      /\ want' \in [Workers -> Patterns \cup {NoEngine}]
      /\ memo' \in [Workers -> [MemoSlots -> Patterns \cup {NoEngine}]]
      /\ Mine(w)' /\ TypeOK
  BY MoveFacts DEF ClaimInv
<1>2. Alone(w)
  BY <1>1 DEF Alone, TypeOK
<1>3. TypeOK'
  BY <1>1 DEF TypeOK, Pcs
<1>4. Holds(w)' <=> Holds(w)
  BY <1>1 DEF Holds
<1>5. ClaimsExact' /\ Sound'
  BY <1>2, <1>4, NoClaim, SoundStays DEF ClaimInv
<1>6. QED
  BY <1>1, <1>2, <1>3, <1>5, Together

LEMMA StepStart ==
  ASSUME ClaimInv, NEW w \in Workers
  PROVE  /\ TypeOK /\ Mine(w) /\ Sound /\ ClaimsExact
         /\ store \in Stores /\ bytes \in Int /\ smooth \in BOOLEAN
         /\ polls \in [Workers -> 0..Polls] /\ compiles \in [Patterns -> Nat]
         /\ pc[w] # "idle" => want[w] \in Patterns
         /\ InStore(want[w]) => want[w] \notin Bad /\ Engine(want[w]) = want[w]
BY InStoreEntries DEF ClaimInv, TypeOK, Mine, Sound, Engine

LEMMA LookKeeps ==
  ASSUME ClaimInv, NEW w \in Workers, Look(w)
  PROVE  ClaimInv'
<1>1. /\ pc[w] = "look" /\ TypeOK /\ Mine(w) /\ want[w] \in Patterns
      /\ UNCHANGED <<store, bytes, slot, want, polls, compiles, smooth, left>>
  BY StepStart DEF Look
<1>2. ~Holds(w) /\ polls[w] < Polls
  BY <1>1 DEF Holds, Mine
<1>3. CASE Return(w, want[w]) /\ Engine(want[w]) = want[w]
  BY <1>1, <1>2, <1>3, ReturnKeeps, SoundStays, StepStart
<1>4. CASE pc' = [pc EXCEPT ![w] = "claim"] /\ UNCHANGED <<memo, got>>
  BY <1>1, <1>2, <1>4, MoveKeeps, StepStart DEF Pcs
<1>5. MemoHit(w) => Engine(want[w]) = want[w]
  BY <1>1, PatternFacts DEF MemoHit, Mine, Engine
<1>6. QED
  BY <1>3, <1>4, <1>5, StepStart DEF Look, MemoHit, Goto

LEMMA TryClaimKeeps ==
  ASSUME ClaimInv, NEW w \in Workers, TryClaim(w)
  PROVE  ClaimInv'
<1>1. /\ pc[w] = "claim" /\ TypeOK /\ Mine(w) /\ want[w] \in Patterns /\ ~Holds(w)
      /\ polls[w] < Polls
      /\ UNCHANGED <<store, bytes, memo, want, polls, got, compiles, left>>
  BY StepStart DEF TryClaim, Holds, Mine
<1>2. smooth' \in BOOLEAN
  BY DEF TryClaim
<1>3. CASE slot[SlotFor(w)] = 0
  <2>1. /\ slot' = [slot EXCEPT ![SlotFor(w)] = HashFor(w)]
        /\ pc' = [pc EXCEPT ![w] = "recheck"]
    BY <1>3 DEF TryClaim, Goto
  <2>2. /\ pc' \in [Workers -> Pcs] /\ pc'[w] = "recheck" /\ Alone(w) /\ Mine(w)'
    BY <1>1, <2>1, MoveFacts DEF Pcs
  <2>3. Holds(w)'
    BY <2>2 DEF Holds
  <2>4. slot' \in [Slots -> {0} \cup {Hash[p] : p \in Patterns}]
    BY <1>1, <2>1 DEF TypeOK, HashFor
  <2>5. TypeOK'
    BY <1>1, <1>2, <2>2, <2>4 DEF TypeOK, Pcs
  <2>6. ClaimsExact' /\ Sound'
    BY <1>1, <1>3, <2>1, <2>2, <2>3, TakeClaim, SoundStays DEF ClaimInv
  <2>7. QED
    BY <2>2, <2>5, <2>6, Together
<1>4. CASE slot[SlotFor(w)] # 0
  <2>1. slot' = slot /\ pc' = [pc EXCEPT ![w] = "peek"]
    BY <1>4 DEF TryClaim, Goto
  <2>2. QED
    BY <1>1, <1>2, <2>1, MoveKeeps, StepStart DEF Pcs
<1>5. QED
  BY <1>3, <1>4

LEMMA RecheckKeeps ==
  ASSUME ClaimInv, NEW w \in Workers, Recheck(w)
  PROVE  ClaimInv'
<1>1. /\ pc[w] = "recheck" /\ Holds(w)
      /\ UNCHANGED <<store, bytes, want, polls, compiles, smooth, left>>
  BY DEF Recheck, Holds
<1>2. CASE InStore(want[w])
  <2>1. Return(w, Engine(want[w])) /\ slot' = [slot EXCEPT ![SlotFor(w)] = 0]
    BY <1>2, StepStart DEF Recheck
  <2>2. QED
    BY <1>1, <2>1, ReturnKeeps, SoundStays, StepStart
<1>3. CASE ~InStore(want[w])
  <2>1. pc' = [pc EXCEPT ![w] = "compile"] /\ UNCHANGED <<memo, got, slot>>
    BY <1>3 DEF Recheck, Goto
  <2>2. QED
    BY <1>1, <2>1, MoveKeeps, StepStart DEF Pcs
<1>4. QED
  BY <1>2, <1>3

LEMMA CompileKeeps ==
  ASSUME ClaimInv, NEW w \in Workers, Compile(w)
  PROVE  ClaimInv'
<1>1. /\ pc[w] \in {"compile", "own"} /\ want[w] \in Patterns
      /\ UNCHANGED <<store, bytes, slot, memo, want, polls, got, smooth, left>>
  BY StepStart DEF Compile
<1>2. compiles' \in [Patterns -> Nat]
  BY <1>1, StepStart DEF Compile
<1>3. CASE pc[w] = "compile" /\ want[w] \in Bad
  <2>1. pc' = [pc EXCEPT ![w] = "release"] /\ Holds(w)
    BY <1>3 DEF Compile, Goto, Holds
  <2>2. QED
    BY <1>1, <1>2, <2>1, MoveKeeps, StepStart DEF Pcs
<1>4. CASE pc[w] = "compile" /\ want[w] \notin Bad
  <2>1. pc' = [pc EXCEPT ![w] = "put"] /\ Holds(w)
    BY <1>4 DEF Compile, Goto, Holds
  <2>2. QED
    BY <1>1, <1>2, <1>4, <2>1, MoveKeeps, StepStart DEF Pcs
<1>5. CASE pc[w] = "own"
  <2>1. pc' = [pc EXCEPT ![w] = "ownPut"] /\ ~Holds(w)
    BY <1>5 DEF Compile, Goto, Holds
  <2>2. QED
    BY <1>1, <1>2, <2>1, MoveKeeps, StepStart DEF Pcs
<1>6. QED
  BY <1>1, <1>3, <1>4, <1>5

LEMMA PublishKeeps ==
  ASSUME ClaimInv, NEW w \in Workers, Publish(w)
  PROVE  ClaimInv'
<1>1. /\ pc[w] = "put" /\ want[w] \in Patterns \ Bad /\ Put(want[w])
      /\ pc' = [pc EXCEPT ![w] = "release"]
      /\ UNCHANGED <<slot, memo, want, polls, got, compiles, left>>
  BY StepStart DEF Publish, Goto, Mine
<1>2. store' \in Stores /\ bytes' \in Int /\ Sound' /\ smooth' \in BOOLEAN
  BY <1>1, PutFacts, StepStart
<1>3. /\ pc' \in [Workers -> Pcs] /\ pc'[w] = "release" /\ Alone(w) /\ Mine(w)'
  BY <1>1, MoveFacts DEF Pcs
<1>4. TypeOK'
  BY <1>1, <1>2, <1>3, StepStart DEF TypeOK, Pcs
<1>5. Holds(w)' /\ Holds(w)
  BY <1>1, <1>3 DEF Holds
<1>6. ClaimsExact'
  BY <1>1, <1>3, <1>5, NoClaim, StepStart
<1>7. QED
  BY <1>2, <1>3, <1>4, <1>6, Together

LEMMA ReleaseKeeps ==
  ASSUME ClaimInv, NEW w \in Workers, Release(w)
  PROVE  ClaimInv'
<1>1. /\ pc[w] = "release" /\ Holds(w) /\ Return(w, Engine(want[w]))
      /\ slot' = [slot EXCEPT ![SlotFor(w)] = 0]
      /\ UNCHANGED <<store, bytes, want, polls, compiles, smooth, left>>
  BY DEF Release, Holds, Engine
<1>2. QED
  BY <1>1, ReturnKeeps, SoundStays, StepStart

LEMMA PeeksKeep ==
  ASSUME ClaimInv, NEW w \in Workers, Peek(w) \/ LastPeek(w)
  PROVE  ClaimInv'
<1>1. /\ pc[w] \in {"peek", "last"} /\ ~Holds(w) /\ (pc[w] = "peek" => polls[w] < Polls)
      /\ UNCHANGED <<store, bytes, slot, want, polls, compiles, smooth, left>>
  BY StepStart DEF Peek, LastPeek, Holds, Mine
<1>2. CASE InStore(want[w])
  <2>1. Return(w, Engine(want[w]))
    BY <1>2, StepStart DEF Peek, LastPeek
  <2>2. QED
    BY <1>1, <2>1, ReturnKeeps, SoundStays, StepStart
<1>3. CASE ~InStore(want[w])
  <2>1. PICK l \in {"slot", "own"} : /\ pc' = [pc EXCEPT ![w] = l]
                                     /\ l = "slot" => pc[w] = "peek"
    BY <1>1, <1>3 DEF Peek, LastPeek, Goto
  <2>2. UNCHANGED <<memo, got>>
    BY <1>3 DEF Peek, LastPeek
  <2>3. QED
    BY <1>1, <2>1, <2>2, MoveKeeps, StepStart DEF Pcs
<1>4. QED
  BY <1>2, <1>3

LEMMA LookAtSlotKeeps ==
  ASSUME ClaimInv, NEW w \in Workers, LookAtSlot(w)
  PROVE  ClaimInv'
<1>1. /\ pc[w] = "slot" /\ ~Holds(w) /\ polls[w] \in 0..Polls /\ polls[w] < Polls
      /\ Polls \in Nat
      /\ UNCHANGED <<store, bytes, slot, memo, want, got, compiles, left>>
  BY StepStart, ClaimAssumption DEF LookAtSlot, Holds, Mine
<1>2. smooth' \in BOOLEAN
  BY DEF LookAtSlot
<1>3. CASE slot[SlotFor(w)] # HashFor(w)
  <2>1. pc' = [pc EXCEPT ![w] = "last"] /\ polls' = polls
    BY <1>3 DEF LookAtSlot, Goto
  <2>2. QED
    BY <1>1, <1>2, <2>1, MoveKeeps, StepStart DEF Pcs
<1>4. CASE slot[SlotFor(w)] = HashFor(w)
  <2>1. polls' = [polls EXCEPT ![w] = polls[w] + 1]
    BY <1>4 DEF LookAtSlot
  <2>2. polls[w] + 1 \in 0..Polls
    BY <1>1
  <2>3. /\ polls' \in [Workers -> 0..Polls] /\ polls'[w] = polls[w] + 1
        /\ \A v \in Workers : v # w => polls'[v] = polls[v]
    BY <2>1, <2>2, StepStart
  <2>4. CASE polls[w] + 1 = Polls
    <3>1. pc' = [pc EXCEPT ![w] = "last"]
      BY <2>4 DEF LookAtSlot, Goto
    <3>2. QED
      BY <1>1, <1>2, <2>3, <3>1, MoveKeeps, StepStart DEF Pcs
  <2>5. CASE polls[w] + 1 # Polls
    <3>1. pc' = [pc EXCEPT ![w] = "peek"]
      BY <1>4, <2>5 DEF LookAtSlot, Goto
    <3>2. polls'[w] < Polls
      BY <1>1, <2>3, <2>5
    <3>3. QED
      BY <1>1, <1>2, <2>3, <3>1, <3>2, MoveKeeps, StepStart DEF Pcs
  <2>6. QED
    BY <2>4, <2>5
<1>5. QED
  BY <1>3, <1>4

LEMMA OwnPublishKeeps ==
  ASSUME ClaimInv, NEW w \in Workers, OwnPublish(w)
  PROVE  ClaimInv'
<1>1. /\ pc[w] = "ownPut" /\ ~Holds(w) /\ want[w] \in Patterns
      /\ UNCHANGED <<slot, want, polls, compiles, left>>
  BY StepStart DEF OwnPublish, Holds
<1>2. Return(w, Engine(want[w]))
  BY DEF OwnPublish, Engine
<1>3. store' \in Stores /\ bytes' \in Int /\ Sound' /\ smooth' \in BOOLEAN
  <2>1. CASE want[w] \in Bad
    BY <2>1, SoundStays, StepStart DEF OwnPublish
  <2>2. CASE want[w] \notin Bad
    <3>1. want[w] \in Patterns \ Bad /\ Put(want[w])
      BY <1>1, <2>2 DEF OwnPublish
    <3>2. QED
      BY <3>1, PutFacts, StepStart
  <2>3. QED
    BY <2>1, <2>2
<1>4. QED
  BY <1>1, <1>2, <1>3, ReturnKeeps

LEMMA DoneKeeps ==
  ASSUME ClaimInv, NEW w \in Workers, Done(w)
  PROVE  ClaimInv'
<1>1. /\ pc[w] = "done" /\ TypeOK /\ Mine(w) /\ ~Holds(w)
      /\ pc' = [pc EXCEPT ![w] = "idle"] /\ want' = [want EXCEPT ![w] = NoEngine]
      /\ got' = [got EXCEPT ![w] = NoEngine]
      /\ UNCHANGED <<store, bytes, slot, memo, polls, compiles, smooth, left>>
  BY StepStart DEF Done, Goto, Holds
<1>2. TypeOK' /\ Alone(w) /\ pc'[w] = "idle"
  BY <1>1 DEF TypeOK, Alone
<1>3. Mine(w)' /\ ~Holds(w)'
  BY <1>1, <1>2 DEF Mine, Holds
<1>4. ClaimsExact' /\ Sound'
  BY <1>1, <1>2, <1>3, NoClaim, SoundStays, StepStart
<1>5. QED
  BY <1>2, <1>3, <1>4, Together

LEMMA UpsetsLeft ==
  ASSUME TypeOK, left.upsets > 0, left' = [left EXCEPT !.upsets = @ - 1]
  PROVE  left' \in [calls : 0..Calls, upsets : 0..Upsets]
<1>1. left \in [calls : 0..Calls, upsets : 0..Upsets] /\ Upsets \in Nat
  BY ClaimAssumption DEF TypeOK
<1>2. left.upsets - 1 \in 0..Upsets
  BY <1>1
<1>3. QED
  BY <1>1, <1>2

LEMMA PanicKeeps ==
  ASSUME ClaimInv, NEW w \in Workers, Panic(w)
  PROVE  ClaimInv'
<1>1. /\ pc[w] \in {"put", "ownPut"} /\ TypeOK /\ Mine(w)
      /\ pc' = [pc EXCEPT ![w] = "idle"] /\ want' = [want EXCEPT ![w] = NoEngine]
      /\ slot' = IF Holds(w) THEN [slot EXCEPT ![SlotFor(w)] = 0] ELSE slot
      /\ smooth' = FALSE
      /\ UNCHANGED <<store, bytes, memo, polls, got, compiles>>
  BY StepStart DEF Panic, Goto
<1>2. left' \in [calls : 0..Calls, upsets : 0..Upsets]
  BY <1>1, UpsetsLeft DEF Panic
<1>3. slot' \in [Slots -> {0} \cup {Hash[p] : p \in Patterns}]
  BY <1>1 DEF TypeOK
<1>4. TypeOK' /\ Alone(w) /\ pc'[w] = "idle"
  BY <1>1, <1>2, <1>3 DEF TypeOK, Alone
<1>5. Mine(w)' /\ ~Holds(w)'
  BY <1>1, <1>4 DEF Mine, Holds
<1>6. ClaimsExact' /\ Sound'
  BY <1>1, <1>4, <1>5, NoClaim, FreeClaim, SoundStays, StepStart
<1>7. QED
  BY <1>4, <1>5, <1>6, Together

LEMMA ClearKeeps ==
  ASSUME ClaimInv, ClearStore
  PROVE  ClaimInv'
<1>1. /\ TypeOK /\ Sound /\ ClaimsExact /\ bytes' = 0 /\ smooth' = FALSE
      /\ UNCHANGED <<slot, memo, pc, want, polls, got, compiles>>
  BY DEF ClaimInv, ClearStore
<1>2. left' \in [calls : 0..Calls, upsets : 0..Upsets]
  BY <1>1, UpsetsLeft DEF ClearStore
<1>3. store' \in Stores /\ Len(store') = 0 /\ Entries(store') = {} /\ DOMAIN store' = {}
  <2>1. store' \in Seq(Patterns) /\ Len(store') = 0
    BY EmptySeq DEF ClearStore
  <2>2. DOMAIN store' = {}
    BY <2>1, LenProperties
  <2>3. QED
    BY <2>1, <2>2, ClaimAssumption DEF Stores, Entries
<1>4. TypeOK'
  <2>1. store' \in Stores /\ bytes' \in Int
    BY <1>1, <1>3
  <2>2. QED
    BY <1>1, <1>2, <2>1 DEF TypeOK
<1>5. Sound'
  <2>1. Entries(store)' = Entries(store')
    BY DEF Entries
  <2>2. QED
    BY <1>1, <1>3, <2>1, SizeOfFew DEF Sound, Distinct
<1>6. ClaimsExact'
  BY <1>1, ClaimsKept DEF Holds
<1>7. \A w \in Workers : Mine(w)'
  BY <1>1 DEF ClaimInv, Mine
<1>8. QED
  BY <1>4, <1>5, <1>6, <1>7 DEF ClaimInv

LEMMA ClaimInvInit == Init => ClaimInv
<1> SUFFICES ASSUME Init PROVE ClaimInv
  OBVIOUS
<1>1. store \in Stores /\ Len(store) = 0 /\ Entries(store) = {} /\ DOMAIN store = {}
  <2>1. store \in Seq(Patterns) /\ Len(store) = 0
    BY EmptySeq DEF Init
  <2>2. DOMAIN store = {}
    BY <2>1, LenProperties
  <2>3. QED
    BY <2>1, <2>2, ClaimAssumption DEF Stores, Entries
<1>2. 0 \in 0..Polls /\ [calls |-> Calls, upsets |-> Upsets] \in [calls : 0..Calls, upsets : 0..Upsets]
  BY ClaimAssumption
<1>3. TypeOK
  BY <1>1, <1>2 DEF Init, TypeOK
<1>4. \A w \in Workers : Mine(w)
  BY PatternFacts DEF Init, Mine
<1>5. ClaimsExact
  BY DEF Init, ClaimsExact, Holds
<1>6. Sound
  <2>1. bytes = 0
    BY DEF Init
  <2>2. QED
    BY <1>1, <2>1, SizeOfFew DEF Sound, Distinct
<1>7. QED
  BY <1>3, <1>4, <1>5, <1>6 DEF ClaimInv

LEMMA ClaimInvNext == ClaimInv /\ [Next]_vars => ClaimInv'
<1> SUFFICES ASSUME ClaimInv, [Next]_vars PROVE ClaimInv'
  OBVIOUS
<1>1. CASE UNCHANGED vars
  <2>1. TypeOK' /\ Sound'
    BY <1>1, SoundStays DEF vars, ClaimInv, TypeOK
  <2>2. ClaimsExact'
    BY <1>1, ClaimsKept DEF vars, ClaimInv, Holds
  <2>3. \A w \in Workers : Mine(w)'
    BY <1>1 DEF vars, ClaimInv, Mine
  <2>4. QED
    BY <2>1, <2>2, <2>3 DEF ClaimInv
<1>2. ASSUME NEW w \in Workers, Work(w) PROVE ClaimInv'
  BY <1>2, LookKeeps, TryClaimKeeps, RecheckKeeps, CompileKeeps, PublishKeeps,
     ReleaseKeeps, PeeksKeep, LookAtSlotKeeps, OwnPublishKeeps, DoneKeeps DEF Work
<1>3. QED
  BY <1>1, <1>2, CallKeeps, PanicKeeps, ClearKeeps DEF Next

\* The inductive invariant of the claims, the store and the answers.
THEOREM ClaimInvariant == Spec => []ClaimInv
<1>1. QED
  BY ClaimInvInit, ClaimInvNext, PTL DEF Spec

\* Every variable has its type: the store never has more entries than its cap,
\* and a racer never polls more often than it may.
THEOREM ClaimTypes == Spec => []TypeOK
<1>1. ClaimInv => TypeOK
  BY DEF ClaimInv
<1>2. QED
  BY <1>1, ClaimInvariant, PTL

\* try_claim, ClaimGuard and BudgetedStore::put: the claim slots are those of the
\* guards alive, and the byte count of the store is that of its entries, within
\* the budget, after any race, replacement, eviction, panic or clear.
THEOREM TablesStayExact == Spec => []TablesExact
<1>1. ClaimInv => TablesExact
  BY DEF ClaimInv, Sound, Distinct, TablesExact, BytesExact
<1>2. QED
  BY <1>1, ClaimInvariant, PTL

\* cached_regex: whatever shares a slot of the claims or of the memo, a call
\* returns the engine of its own pattern.
THEOREM EnginesAreRight == Spec => []RightEngine
<1>1. ClaimInv => RightEngine
  BY DEF ClaimInv, Mine, Engine, RightEngine
<1>2. QED
  BY <1>1, ClaimInvariant, PTL

-----------------------------------------------------------------------------
(* Nothing is compiled twice without a cause.                              *)

Claimed(p) == \E v \in Workers : Holds(v) /\ want[v] = p
Making(p) == \E v \in Workers : pc[v] = "put" /\ want[v] = p

\* While all is smooth, who compiles does not find its pattern stored, who is
\* about to release or to stop waiting does, and who waits waits for somebody
\* who compiles the same pattern.
SmoothAt(w) ==
    pc[w] # "idle" /\ want[w] \notin Bad =>
        /\ pc[w] \in {"compile", "put"} => ~InStore(want[w])
        /\ pc[w] \in {"release", "last"} => InStore(want[w])
        /\ pc[w] \in {"peek", "slot"} => InStore(want[w]) \/ Claimed(want[w])
        /\ pc[w] \notin {"own", "ownPut"}

Single(p) == compiles[p] = IF InStore(p) \/ Making(p) THEN 1 ELSE 0

Once ==
    smooth => /\ \A w \in Workers : SmoothAt(w)
              /\ \A p \in Patterns \ Bad : Single(p)

\* While all is smooth the store grows, by what somebody publishes, and a claim
\* is freed when its pattern is in it.
Grows(w) ==
    /\ Entries(store) \subseteq Entries(store)'
    /\ \A p \in Entries(store)' : InStore(p) \/ (p = want[w] /\ pc[w] = "put")
    /\ Holds(w) /\ Holds(w)' => want'[w] = want[w]
    /\ Holds(w) /\ ~Holds(w)' /\ want[w] \notin Bad => want[w] \in Entries(store)'

LEMMA InStoreNext == \A p : InStore(p)' <=> p \in Entries(store)'
BY DEF InStore, Entries

LEMMA SameClaim ==
  ASSUME ClaimInv, NEW v \in Workers, NEW w \in Workers, Holds(v), Holds(w),
         want[v] = want[w]
  PROVE  v = w
BY DEF ClaimInv, ClaimsExact, SlotFor

LEMMA OthersSmooth ==
  ASSUME ClaimInv, NEW w \in Workers, Alone(w), Grows(w),
         NEW v \in Workers, v # w, SmoothAt(v)
  PROVE  SmoothAt(v)'
<1> SUFFICES ASSUME pc[v] # "idle", want[v] \notin Bad
             PROVE  /\ pc[v] \in {"compile", "put"} => ~InStore(want[v])'
                    /\ pc[v] \in {"release", "last"} => InStore(want[v])'
                    /\ pc[v] \in {"peek", "slot"} => InStore(want[v])' \/ Claimed(want[v])'
                    /\ pc[v] \notin {"own", "ownPut"}
  <2>1. pc'[v] = pc[v] /\ want'[v] = want[v]
    BY DEF Alone
  <2>2. /\ InStore(want[v])' <=> want'[v] \in Entries(store)'
        /\ Claimed(want[v])' <=> \E u \in Workers : Holds(u)' /\ want'[u] = want'[v]
    BY InStoreNext DEF Claimed
  <2>3. QED
    BY <2>1, <2>2 DEF SmoothAt
<1>0. want'[v] = want[v]
  BY DEF Alone
<1>1. InStore(want[v]) => InStore(want[v])'
  BY <1>0, InStoreEntries, InStoreNext DEF Grows
<1>2. ASSUME pc[v] \in {"compile", "put"} PROVE ~InStore(want[v])'
  <2>1. ~InStore(want[v])
    BY <1>2 DEF SmoothAt
  <2>2. ~(want[v] = want[w] /\ pc[w] = "put")
    BY <1>2, SameClaim DEF Holds
  <2>3. \A p : p \in Entries(store)' => InStore(p) \/ (p = want[w] /\ pc[w] = "put")
    BY DEF Grows
  <2>4. want[v] \notin Entries(store)'
    BY <2>1, <2>2, <2>3
  <2>5. QED
    BY <1>0, <2>4 DEF InStore, Entries
<1>3. ASSUME Claimed(want[v]) PROVE InStore(want[v])' \/ Claimed(want[v])'
  <2>1. PICK u \in Workers : Holds(u) /\ want[u] = want[v]
    BY <1>3 DEF Claimed
  <2>2. CASE Holds(u)' /\ want'[u] = want[u]
    BY <1>0, <2>1, <2>2 DEF Claimed
  <2>3. CASE ~(Holds(u)' /\ want'[u] = want[u])
    <3>1. u = w
      BY <2>1, <2>3 DEF Alone, Holds
    <3>2. ~Holds(w)' /\ want[w] \notin Bad /\ want[w] = want[v]
      BY <2>1, <2>3, <3>1 DEF Grows
    <3>3. want[w] \in Entries(store)'
      BY <2>1, <3>1, <3>2 DEF Grows
    <3>4. want[v] \in Entries(store)'
      BY <3>2, <3>3
    <3>5. QED
      BY <1>0, <3>4 DEF InStore, Entries
  <2>4. QED
    BY <2>2, <2>3
<1>4. QED
  BY <1>1, <1>2, <1>3 DEF SmoothAt

LEMMA OnceStep ==
  ASSUME ClaimInv, Once, NEW w \in Workers, Alone(w), smooth' => smooth,
         smooth' => Grows(w) /\ SmoothAt(w)' /\ \A p \in Patterns \ Bad : Single(p)'
  PROVE  Once'
<1>1. ASSUME smooth', NEW v \in Workers PROVE SmoothAt(v)'
  <2>1. CASE v = w
    BY <1>1, <2>1
  <2>2. CASE v # w
    BY <1>1, <2>2, OthersSmooth DEF Once
  <2>3. QED
    BY <2>1, <2>2
<1>2. QED
  BY <1>1 DEF Once

\* A step after which the same is stored, and the same is being made.
LEMMA QuietStep ==
  ASSUME ClaimInv, Once, NEW w \in Workers, NEW l \in Pcs, Alone(w), pc'[w] = l,
         store' = store, smooth' => smooth,
         smooth' => \A p \in Patterns \ Bad : compiles'[p] = compiles[p],
         pc[w] # "put", l # "put",
         Holds(w) \/ l \notin {"idle", "look"} => want'[w] = want[w],
         smooth' /\ want[w] \notin Bad =>
             /\ Holds(w) /\ l \notin {"recheck", "compile", "release"} => InStore(want[w])
             /\ l = "compile" => ~InStore(want[w])
             /\ l \in {"release", "last"} => InStore(want[w])
             /\ l \in {"peek", "slot"} =>
                   ~Holds(w) /\ (InStore(want[w]) \/ Claimed(want[w]))
             /\ l \notin {"own", "ownPut"}
  PROVE  Once'
<1> SUFFICES ASSUME smooth' PROVE Once'
  BY DEF Once
<1>1. \A p : InStore(p)' <=> InStore(p)
  BY DEF InStore
<1>2. Entries(store)' = Entries(store)
  BY DEF Entries
<1>3. Holds(w)' <=> l \in {"recheck", "compile", "put", "release"}
  BY DEF Holds
<1>4. Grows(w)
  BY <1>2, <1>3, InStoreEntries DEF Grows
<1>5. SmoothAt(w)'
  <2>1. CASE l \in {"idle", "look"}
    BY <2>1 DEF SmoothAt
  <2>2. CASE l \notin {"idle", "look"}
    <3>1. want'[w] = want[w]
      BY <2>2
    <3>2. ~Holds(w) /\ Claimed(want[w]) => \E v \in Workers : Holds(v)' /\ want'[v] = want[w]
      BY DEF Claimed, Alone, Holds
    <3>3. /\ InStore(want[w])' <=> InStore(want[w])
          /\ Claimed(want[w])' <=> \E v \in Workers : Holds(v)' /\ want'[v] = want[w]
      BY <3>1 DEF InStore, Claimed
    <3>4. QED
      BY <3>1, <3>2, <3>3 DEF SmoothAt
  <2>3. QED
    BY <2>1, <2>2
<1>6. \A p \in Patterns \ Bad : Single(p)'
  <2>1. \A p : Making(p)' <=> Making(p)
    BY DEF Making, Alone
  <2>2. QED
    BY <1>1, <2>1 DEF Once, Single
<1>7. QED
  BY <1>4, <1>5, <1>6, OnceStep

\* A call that returns without having published.
LEMMA ReturnOnce ==
  ASSUME ClaimInv, Once, NEW w \in Workers, pc[w] \notin {"idle", "put"},
         Return(w, Engine(want[w])),
         UNCHANGED <<store, want, polls, compiles, smooth>>,
         smooth /\ Holds(w) /\ want[w] \notin Bad => InStore(want[w])
  PROVE  Once'
<1>1. pc'[w] = "done" /\ Alone(w)
  BY GoodReturn DEF Pcs
<1>2. QED
  BY <1>1, QuietStep DEF Pcs

LEMMA LookOnce == ASSUME ClaimInv, Once, NEW w \in Workers, Look(w) PROVE Once'
<1>1. /\ pc[w] = "look" /\ ~Holds(w) /\ Mine(w) /\ want[w] \in Patterns
      /\ UNCHANGED <<store, want, polls, compiles, smooth>>
  BY StepStart DEF Look, Holds
<1>2. CASE Return(w, want[w]) /\ Engine(want[w]) = want[w]
  BY <1>1, <1>2, ReturnOnce
<1>3. CASE pc' = [pc EXCEPT ![w] = "claim"] /\ UNCHANGED <<memo, got>>
  <2>1. pc'[w] = "claim" /\ Alone(w)
    BY <1>1, <1>3, MoveFacts DEF Pcs
  <2>2. QED
    BY <1>1, <2>1, QuietStep DEF Pcs
<1>4. MemoHit(w) => Engine(want[w]) = want[w]
  BY <1>1, PatternFacts DEF MemoHit, Mine, Engine
<1>5. QED
  BY <1>2, <1>3, <1>4, StepStart DEF Look, MemoHit, Goto

\* A claim fails, as long as nothing collides, against a claim of the same pattern.
LEMMA TryClaimOnce == ASSUME ClaimInv, Once, NEW w \in Workers, TryClaim(w) PROVE Once'
<1>1. /\ pc[w] = "claim" /\ ~Holds(w) /\ want[w] \in Patterns
      /\ smooth' = (smooth /\ ~Collides(w))
      /\ UNCHANGED <<store, memo, want, polls, got, compiles>>
  BY StepStart DEF TryClaim, Holds
<1>2. CASE slot[SlotFor(w)] = 0
  <2>1. pc'[w] = "recheck" /\ Alone(w)
    BY <1>1, <1>2, MoveFacts DEF TryClaim, Goto, Pcs
  <2>2. QED
    BY <1>1, <2>1, QuietStep DEF Pcs
<1>3. CASE slot[SlotFor(w)] # 0
  <2>1. pc'[w] = "peek" /\ Alone(w)
    BY <1>1, <1>3, MoveFacts DEF TryClaim, Goto, Pcs
  <2>2. PICK v \in Workers : Holds(v) /\ SlotFor(v) = SlotFor(w)
    BY <1>1, <1>3, PatternFacts DEF ClaimInv, ClaimsExact, SlotFor
  <2>3. smooth' => Claimed(want[w])
    BY <1>1, <2>2 DEF Collides, Claimed
  <2>4. QED
    BY <1>1, <2>1, <2>3, QuietStep DEF Pcs
<1>4. QED
  BY <1>2, <1>3

LEMMA RecheckOnce == ASSUME ClaimInv, Once, NEW w \in Workers, Recheck(w) PROVE Once'
<1>1. /\ pc[w] = "recheck"
      /\ UNCHANGED <<store, want, polls, compiles, smooth>>
  BY DEF Recheck
<1>2. CASE InStore(want[w])
  BY <1>1, <1>2, ReturnOnce, StepStart DEF Recheck
<1>3. CASE ~InStore(want[w])
  <2>1. pc'[w] = "compile" /\ Alone(w)
    BY <1>1, <1>3, MoveFacts DEF Recheck, Goto, Pcs
  <2>2. QED
    BY <1>1, <1>3, <2>1, QuietStep DEF Pcs
<1>4. QED
  BY <1>2, <1>3

\* Who compiles a pattern is the only one to, and has not compiled it before.
LEMMA CompileOnce == ASSUME ClaimInv, Once, NEW w \in Workers, Compile(w) PROVE Once'
<1>1. /\ pc[w] \in {"compile", "own"} /\ want[w] \in Patterns
      /\ compiles \in [Patterns -> Nat]
      /\ compiles' = [compiles EXCEPT ![want[w]] = compiles[want[w]] + 1]
      /\ UNCHANGED <<store, memo, want, polls, got, smooth>>
  BY StepStart DEF Compile
<1> SUFFICES ASSUME smooth PROVE Once'
  BY <1>1 DEF Once
<1>2. CASE want[w] \in Bad
  <2>1. PICK l \in {"ownPut", "release"} : pc' = [pc EXCEPT ![w] = l]
    BY <1>2 DEF Compile, Goto
  <2>2. pc'[w] = l /\ Alone(w)
    BY <1>1, <2>1, MoveFacts DEF Pcs
  <2>3. \A p \in Patterns \ Bad : compiles'[p] = compiles[p]
    BY <1>1, <1>2
  <2>4. QED
    BY <1>1, <1>2, <2>2, <2>3, QuietStep DEF Pcs
<1>3. CASE want[w] \notin Bad
  <2>1. pc[w] = "compile" /\ ~InStore(want[w])
    BY <1>1, <1>3 DEF Once, SmoothAt
  <2>2. pc'[w] = "put" /\ Alone(w)
    BY <1>1, <1>3, <2>1, MoveFacts DEF Compile, Goto, Pcs
  <2>3. \A p : InStore(p)' <=> InStore(p)
    BY <1>1 DEF InStore
  <2>4. ~Making(want[w])
    BY <2>1, SameClaim DEF Making, Holds
  <2>5. Grows(w)
    BY <1>1, <2>2, InStoreEntries DEF Grows, Entries, Holds
  <2>6. SmoothAt(w)'
    BY <1>1, <2>1, <2>2 DEF SmoothAt, InStore
  <2>7. ASSUME NEW p \in Patterns \ Bad PROVE Single(p)'
    <3>1. Single(p)
      BY DEF Once
    <3>2. CASE p = want[w]
      <4>1. compiles'[p] = 1
        BY <1>1, <2>1, <2>4, <3>1, <3>2 DEF Single
      <4>2. Making(p)'
        BY <1>1, <2>2, <3>2 DEF Making
      <4>3. QED
        BY <4>1, <4>2 DEF Single
    <3>3. CASE p # want[w]
      <4>1. Making(p)' <=> Making(p)
        BY <1>1, <2>1, <2>2, <3>3 DEF Making, Alone
      <4>2. QED
        BY <1>1, <2>3, <3>1, <3>3, <4>1 DEF Single
    <3>4. QED
      BY <3>2, <3>3
  <2>8. QED
    BY <1>1, <2>2, <2>5, <2>6, <2>7, OnceStep
<1>4. QED
  BY <1>2, <1>3

LEMMA PublishOnce == ASSUME ClaimInv, Once, NEW w \in Workers, Publish(w) PROVE Once'
<1>1. /\ pc[w] = "put" /\ want[w] \in Patterns \ Bad /\ Put(want[w])
      /\ pc' = [pc EXCEPT ![w] = "release"]
      /\ UNCHANGED <<slot, memo, want, polls, got, compiles, left>>
  BY StepStart DEF Publish, Goto, Mine
<1>2. smooth' => /\ smooth /\ ~InStore(want[w])
                 /\ Entries(store)' = Entries(store) \cup {want[w]}
  BY <1>1, PutFacts, StepStart
<1> SUFFICES ASSUME smooth' PROVE Once'
  BY DEF Once
<1>3. pc'[w] = "release" /\ Alone(w)
  BY <1>1, MoveFacts DEF Pcs
<1>4. \A p : InStore(p)' <=> (InStore(p) \/ p = want[w])
  BY <1>2, InStoreEntries, InStoreNext
<1>5. Grows(w)
  BY <1>1, <1>2, <1>3, InStoreEntries DEF Grows
<1>6. SmoothAt(w)'
  <2>1. want[w] \in Entries(store)'
    BY <1>2
  <2>2. InStore(want[w])'
    BY <1>1, <2>1 DEF InStore, Entries
  <2>3. QED
    BY <1>3, <2>2 DEF SmoothAt
<1>7. ASSUME NEW p \in Patterns \ Bad PROVE Single(p)'
  <2>1. Single(p)
    BY <1>2 DEF Once
  <2>2. CASE p = want[w]
    <3>1. Making(p) /\ InStore(p)'
      BY <1>1, <1>4, <2>2 DEF Making
    <3>2. QED
      BY <1>1, <2>1, <3>1 DEF Single
  <2>3. CASE p # want[w]
    <3>1. Making(p)' <=> Making(p)
      BY <1>1, <1>3, <2>3 DEF Making, Alone
    <3>2. QED
      BY <1>1, <1>4, <2>1, <2>3, <3>1 DEF Single
  <2>4. QED
    BY <2>2, <2>3
<1>8. QED
  BY <1>2, <1>3, <1>5, <1>6, <1>7, OnceStep

LEMMA ReleaseOnce == ASSUME ClaimInv, Once, NEW w \in Workers, Release(w) PROVE Once'
<1>1. /\ pc[w] = "release" /\ Return(w, Engine(want[w]))
      /\ UNCHANGED <<store, want, polls, compiles, smooth>>
  BY DEF Release, Engine
<1>2. smooth /\ want[w] \notin Bad => InStore(want[w])
  BY <1>1 DEF Once, SmoothAt
<1>3. QED
  BY <1>1, <1>2, ReturnOnce

LEMMA PeeksOnce ==
  ASSUME ClaimInv, Once, NEW w \in Workers, Peek(w) \/ LastPeek(w) PROVE Once'
<1>1. /\ pc[w] \in {"peek", "last"} /\ ~Holds(w)
      /\ UNCHANGED <<store, want, polls, compiles, smooth>>
  BY DEF Peek, LastPeek, Holds
<1>2. CASE InStore(want[w])
  BY <1>1, <1>2, ReturnOnce, StepStart DEF Peek, LastPeek
<1>3. CASE ~InStore(want[w])
  <2>1. PICK l \in {"slot", "own"} : /\ pc' = [pc EXCEPT ![w] = l]
                                     /\ l = "slot" <=> pc[w] = "peek"
    BY <1>1, <1>3 DEF Peek, LastPeek, Goto
  <2>2. UNCHANGED <<memo, got>>
    BY <1>3 DEF Peek, LastPeek
  <2>3. pc'[w] = l /\ Alone(w)
    BY <1>1, <2>1, <2>2, MoveFacts DEF Pcs
  <2>4. smooth /\ want[w] \notin Bad => pc[w] = "peek" /\ Claimed(want[w])
    BY <1>1, <1>3 DEF Once, SmoothAt
  <2>5. QED
    BY <1>1, <2>1, <2>3, <2>4, QuietStep DEF Pcs
<1>4. QED
  BY <1>2, <1>3

\* A slot that no longer has the hash is one whose claim of this pattern was
\* freed, and then the pattern is in the store.
LEMMA LookAtSlotOnce == ASSUME ClaimInv, Once, NEW w \in Workers, LookAtSlot(w) PROVE Once'
<1>1. /\ pc[w] = "slot" /\ ~Holds(w)
      /\ UNCHANGED <<store, memo, want, got, compiles>>
      /\ smooth' => smooth
  BY DEF LookAtSlot, Holds
<1>2. PICK l \in {"last", "peek"} : /\ pc' = [pc EXCEPT ![w] = l]
                                    /\ smooth' /\ l = "last" => slot[SlotFor(w)] # HashFor(w)
  BY DEF LookAtSlot, Goto
<1>3. pc'[w] = l /\ Alone(w)
  <2>1. /\ pc \in [Workers -> Pcs] /\ polls \in [Workers -> 0..Polls]
        /\ \/ polls' = polls
           \/ polls' = [polls EXCEPT ![w] = polls[w] + 1]
    BY StepStart DEF LookAtSlot, TypeOK, Pcs
  <2>2. \A v \in Workers : v # w => polls'[v] = polls[v]
    BY <2>1
  <2>3. QED
    BY <1>1, <1>2, <2>1, <2>2 DEF Alone
<1>4. Claimed(want[w]) => slot[SlotFor(w)] = HashFor(w)
  BY DEF Claimed, ClaimInv, ClaimsExact, SlotFor, HashFor
<1>5. smooth /\ want[w] \notin Bad => InStore(want[w]) \/ Claimed(want[w])
  BY <1>1 DEF Once, SmoothAt
<1>6. QED
  BY <1>1, <1>2, <1>3, <1>4, <1>5, QuietStep DEF Pcs

LEMMA OwnPublishOnce == ASSUME ClaimInv, Once, NEW w \in Workers, OwnPublish(w) PROVE Once'
<1>1. /\ pc[w] = "ownPut" /\ ~Holds(w) /\ want[w] \in Patterns
      /\ UNCHANGED <<slot, want, polls, compiles, left>>
  BY StepStart DEF OwnPublish, Holds
<1>2. CASE want[w] \in Bad
  <2>1. Return(w, Engine(want[w])) /\ UNCHANGED <<store, smooth>>
    BY <1>2 DEF OwnPublish, Engine
  <2>2. QED
    BY <1>1, <2>1, ReturnOnce
<1>3. CASE want[w] \notin Bad
  <2>1. ~smooth
    BY <1>1, <1>3 DEF Once, SmoothAt
  <2>2. smooth' => smooth
    BY <1>3 DEF OwnPublish, Put
  <2>3. QED
    BY <2>1, <2>2 DEF Once
<1>4. QED
  BY <1>2, <1>3

LEMMA CallsOnce ==
  ASSUME ClaimInv, Once, NEW w \in Workers, Done(w) \/ \E p \in Patterns : Call(w, p)
  PROVE  Once'
<1>1. /\ pc \in [Workers -> Pcs] /\ want \in [Workers -> Patterns \cup {NoEngine}]
      /\ got \in [Workers -> Patterns \cup {NoEngine}] /\ polls \in [Workers -> 0..Polls]
  BY StepStart DEF TypeOK, Pcs
<1>2. /\ pc[w] \in {"done", "idle"} /\ ~Holds(w)
      /\ UNCHANGED <<store, memo, compiles, smooth>>
  BY DEF Done, Call, Holds
<1>3. PICK l \in {"idle", "look"} : pc' = [pc EXCEPT ![w] = l]
  BY DEF Done, Call, Goto
<1>4. /\ \E e : want' = [want EXCEPT ![w] = e]
      /\ got' = got \/ \E e : got' = [got EXCEPT ![w] = e]
      /\ polls' = polls \/ \E e : polls' = [polls EXCEPT ![w] = e]
  BY DEF Done, Call
<1>5. pc'[w] = l /\ Alone(w)
  BY <1>1, <1>2, <1>3, <1>4 DEF Alone
<1>6. QED
  BY <1>2, <1>5, QuietStep DEF Pcs

LEMMA OnceNext == ClaimInv /\ Once /\ [Next]_vars => Once'
<1> SUFFICES ASSUME ClaimInv, Once, [Next]_vars PROVE Once'
  OBVIOUS
<1>1. CASE UNCHANGED vars
  <2>1. \A p : (InStore(p)' <=> InStore(p)) /\ (Making(p)' <=> Making(p))
               /\ (Claimed(p)' <=> Claimed(p))
    BY <1>1 DEF vars, InStore, Making, Claimed, Holds
  <2>2. smooth' = smooth /\ compiles' = compiles /\ pc' = pc /\ want' = want /\ store' = store
    BY <1>1 DEF vars
  <2>3. \A w \in Workers : SmoothAt(w) => SmoothAt(w)'
    BY <2>2 DEF SmoothAt, InStore, Claimed, Holds
  <2>4. \A p : Single(p) => Single(p)'
    BY <2>1, <2>2 DEF Single
  <2>5. QED
    BY <2>2, <2>3, <2>4 DEF Once
<1>2. ASSUME NEW w \in Workers, Work(w) PROVE Once'
  BY <1>2, LookOnce, TryClaimOnce, RecheckOnce, CompileOnce, PublishOnce, ReleaseOnce,
     PeeksOnce, LookAtSlotOnce, OwnPublishOnce, CallsOnce DEF Work
<1>3. ASSUME NEW w \in Workers, Panic(w) PROVE Once'
  BY <1>3 DEF Panic, Once
<1>4. CASE ClearStore
  BY <1>4 DEF ClearStore, Once
<1>5. QED
  BY <1>1, <1>2, <1>3, <1>4, CallsOnce DEF Next

LEMMA OnceInit == Init => Once
<1> SUFFICES ASSUME Init PROVE Once
  OBVIOUS
<1>1. \A w \in Workers : SmoothAt(w)
  BY DEF Init, SmoothAt
<1>2. ASSUME NEW p \in Patterns \ Bad PROVE Single(p)
  <2>1. ~InStore(p)
    <3>1. store = <<>>
      BY DEF Init
    <3>2. DOMAIN store = {}
      BY <3>1, EmptySeq, LenProperties
    <3>3. QED
      BY <3>2 DEF InStore
  <2>2. ~Making(p)
    BY DEF Init, Making
  <2>3. compiles[p] = 0
    BY DEF Init
  <2>4. QED
    BY <2>1, <2>2, <2>3 DEF Single
<1>3. QED
  BY <1>1, <1>2 DEF Once

\* compile_claim and cached_regex: as long as no compile panics, no claim
\* collides, no racer times out and nothing is evicted or cleared, every pattern
\* is compiled at most once, however the lookups, the claims, the publications
\* and the releases of the workers interleave.
THEOREM CompiledOnceHolds == Spec => []CompiledOnce
<1>1. Once => CompiledOnce
  <2>1. \A p : Single(p) => compiles[p] <= 1
    BY DEF Single
  <2>2. QED
    BY <2>1 DEF Once, CompiledOnce
<1>2. Spec => []Once
  BY OnceInit, OnceNext, ClaimInvariant, PTL DEF Spec
<1>3. QED
  BY <1>1, <1>2, PTL
=============================================================================
