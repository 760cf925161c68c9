------------------------ MODULE ParallelOwners_proofs ------------------------
(***************************************************************************)
(* Proofs about the owner slots, for any number of threads, any nesting of *)
(* guards and any caps.  What a push or a pop does to one stack of guards  *)
(* is stated first, of sequences; the counters are then followed step by   *)
(* step.                                                                   *)
(***************************************************************************)
EXTENDS ParallelOwners, FiniteSetTheorems, SequenceTheorems, TLAPS

GuardRecords == TopGuards \cup NestedGuards
ClaimRecords == [kind : Kinds, limit : 1..WordMax, seen : Nat]

-----------------------------------------------------------------------------
(* One stack of guards.                                                    *)

\* The i-th guard is the innermost analysis of the first n guards.
Innermost(s, n, i) ==
    s[i].guard = "top" /\ \A j \in i + 1..n : s[j].guard # "top"

\* What the n-th guard saved was true of the guards below it.
GuardOK(s, n, c) ==
    /\ s[n].class = c
    /\ s[n].guard = "top" /\ s[n].wasTop => \E i \in 1..n - 1 : Innermost(s, n - 1, i)
    /\ s[n].guard = "nested" =>
         \A j \in 1..n - 1 : s[j].guard = "nested" => s[n].previous

\* What the thread-locals and the guards of a thread say about each other.
StackOK(s, tp, nst, c) ==
    /\ tp => \E i \in 1..Len(s) : Innermost(s, Len(s), i)
    /\ \A n \in 1..Len(s) : GuardOK(s, n, c) /\ (s[n].guard = "nested" => nst)

\* The guards that the counters count.
Flies(s, i) == i <= Len(s) /\ s[i].guard = "top" /\ ~s[i].dedicated
HasInner(s, own, i, c) ==
    i <= Len(s) /\ s[i].guard = "top" /\ s[i].class = c /\ OwnsSlot(s, own, i)
HasNested(s, i, c) ==
    i <= Len(s) /\ s[i].guard = "nested" /\ s[i].class = c /\ ~s[i].previous

\* A guard record is of one of the two kinds.
LEMMA GuardFacts ==
  ASSUME NEW g \in GuardRecords
  PROVE  /\ g.guard \in {"top", "nested"} /\ g.class \in Classes
         /\ g.guard = "top" => g \in TopGuards
         /\ g.guard = "nested" => g \in NestedGuards
         /\ g.guard = "top" =>
              g.wasTop \in BOOLEAN /\ g.wasOwner \in BOOLEAN /\
              g.wasDedicated \in BOOLEAN /\ g.dedicated \in BOOLEAN
         /\ g.guard = "nested" => g.previous \in BOOLEAN
BY DEF GuardRecords, TopGuards, NestedGuards

\* A stack that is not empty is a push of its last guard on the others.
LEMMA StackSplit ==
  ASSUME NEW s \in Seq(GuardRecords), s # <<>>
  PROVE  /\ SubSeq(s, 1, Len(s) - 1) \in Seq(GuardRecords)
         /\ Len(SubSeq(s, 1, Len(s) - 1)) = Len(s) - 1
         /\ \A i \in 1..Len(s) - 1 : SubSeq(s, 1, Len(s) - 1)[i] = s[i]
         /\ s[Len(s)] \in GuardRecords
         /\ Len(s) \in Nat \ {0}
<1>1. Len(s) \in Nat \ {0}
  BY EmptySeq
<1>2. \A i \in 1..Len(s) : s[i] \in GuardRecords
  OBVIOUS
<1>3. s[Len(s)] \in GuardRecords
  BY <1>1, <1>2
<1>4. \A i \in 1..Len(s) - 1 : s[i] \in GuardRecords
  BY <1>1, <1>2
<1>5. /\ SubSeq(s, 1, Len(s) - 1) \in Seq(GuardRecords)
      /\ Len(SubSeq(s, 1, Len(s) - 1)) = Len(s) - 1
      /\ \A i \in 1..Len(s) - 1 : SubSeq(s, 1, Len(s) - 1)[i] = s[i]
  <2> DEFINE k == Len(s) - 1
  <2>1. k \in Int /\ 1 \in Int /\ k >= 0 /\ \A i \in 1..k : s[i] \in GuardRecords
    BY <1>1, <1>4
  <2> HIDE DEF k
  <2>2. /\ SubSeq(s, 1, k) \in Seq(GuardRecords)
        /\ Len(SubSeq(s, 1, k)) = IF 1 <= k THEN k - 1 + 1 ELSE 0
        /\ \A i \in 1..k - 1 + 1 : SubSeq(s, 1, k)[i] = s[1 + i - 1]
    BY <2>1, SubSeqProperties
  <2>3. /\ Len(SubSeq(s, 1, k)) = k
        /\ \A i \in 1..k : i \in 1..k - 1 + 1 /\ 1 + i - 1 = i
    BY <2>1, <2>2
  <2>4. \A i \in 1..k : SubSeq(s, 1, k)[i] = s[i]
    BY <2>2, <2>3
  <2>5. QED
    BY <2>2, <2>3, <2>4 DEF k
<1>6. QED
  BY <1>1, <1>3, <1>5

\* s is t with g pushed on it.
IsPush(s, g, t) ==
    /\ Len(s) = Len(t) + 1
    /\ \A i \in 1..Len(t) : s[i] = t[i]
    /\ s[Len(t) + 1] = g

LEMMA PushIsPush ==
  ASSUME NEW s \in Seq(GuardRecords), NEW g \in GuardRecords
  PROVE  /\ IsPush(Append(s, g), g, s)
         /\ Append(s, g) \in Seq(GuardRecords)
BY DEF IsPush

LEMMA PopIsPush ==
  ASSUME NEW s \in Seq(GuardRecords), s # <<>>
  PROVE  IsPush(s, s[Len(s)], SubSeq(s, 1, Len(s) - 1))
BY StackSplit DEF IsPush

\* What a stack says when it is seen as a push.
LEMMA OwnsBelowTop ==
  ASSUME NEW s \in Seq(GuardRecords), NEW t \in Seq(GuardRecords),
         NEW g \in GuardRecords, IsPush(s, g, t), g.guard = "top",
         NEW own \in BOOLEAN, NEW i \in 1..Len(t)
  PROVE  OwnsSlot(s, own, i) <=> OwnsSlot(t, g.wasOwner, i)
<1>1. /\ Len(s) = Len(t) + 1 /\ s[Len(t) + 1] = g
      /\ \A n \in 1..Len(t) : s[n] = t[n]
      /\ Len(t) \in Nat /\ Len(s) \in Nat
  BY DEF IsPush
<1>2. OwnsSlot(s, own, i)
        <=> \E n \in i + 1..Len(s) :
              /\ s[n].guard = "top" /\ s[n].wasOwner
              /\ \A m \in i + 1..n - 1 : s[m].guard # "top"
  BY <1>1 DEF OwnsSlot
<1>3. ASSUME NEW n \in i + 1..Len(t)
      PROVE  (/\ s[n].guard = "top" /\ s[n].wasOwner
              /\ \A m \in i + 1..n - 1 : s[m].guard # "top")
             <=> (/\ t[n].guard = "top" /\ t[n].wasOwner
                  /\ \A m \in i + 1..n - 1 : t[m].guard # "top")
  BY <1>1
<1>4. (/\ s[Len(s)].guard = "top" /\ s[Len(s)].wasOwner
       /\ \A m \in i + 1..Len(s) - 1 : s[m].guard # "top")
      <=> (g.wasOwner /\ \A n \in i + 1..Len(t) : t[n].guard # "top")
  BY <1>1
<1>5. \A n \in i + 1..Len(s) : n \in i + 1..Len(t) \/ n = Len(s)
  BY <1>1
<1>6. \A n \in i + 1..Len(t) : n \in i + 1..Len(s)
  BY <1>1
<1>7. Len(s) \in i + 1..Len(s)
  BY <1>1
<1>8. QED
  BY <1>2, <1>3, <1>4, <1>5, <1>6, <1>7 DEF OwnsSlot

LEMMA OwnsBelowNested ==
  ASSUME NEW s \in Seq(GuardRecords), NEW t \in Seq(GuardRecords),
         NEW g \in GuardRecords, IsPush(s, g, t), g.guard = "nested",
         NEW own \in BOOLEAN, NEW i \in 1..Len(t)
  PROVE  OwnsSlot(s, own, i) <=> OwnsSlot(t, own, i)
<1>1. /\ Len(s) = Len(t) + 1 /\ s[Len(t) + 1].guard = "nested"
      /\ \A n \in 1..Len(t) : s[n] = t[n]
      /\ Len(t) \in Nat /\ Len(s) \in Nat
  BY DEF IsPush
<1>2. (own /\ \A n \in i + 1..Len(s) : s[n].guard # "top")
        <=> (own /\ \A n \in i + 1..Len(t) : t[n].guard # "top")
  BY <1>1
<1>3. ASSUME NEW n \in i + 1..Len(t)
      PROVE  (/\ s[n].guard = "top" /\ s[n].wasOwner
              /\ \A m \in i + 1..n - 1 : s[m].guard # "top")
             <=> (/\ t[n].guard = "top" /\ t[n].wasOwner
                  /\ \A m \in i + 1..n - 1 : t[m].guard # "top")
  BY <1>1
<1>4. ~(s[Len(s)].guard = "top")
  BY <1>1
<1>5. \A n \in i + 1..Len(s) : n \in i + 1..Len(t) \/ n = Len(s)
  BY <1>1
<1>6. \A n \in i + 1..Len(t) : n \in i + 1..Len(s)
  BY <1>1
<1>7. QED
  BY <1>2, <1>3, <1>4, <1>5, <1>6 DEF OwnsSlot

\* The innermost analysis owns a slot when the thread-local says so; the
\* thread-local says nothing of the others.
LEMMA OwnsInnermost ==
  ASSUME NEW s \in Seq(GuardRecords), NEW n \in 1..Len(s), Innermost(s, Len(s), n)
  PROVE  /\ OwnsSlot(s, TRUE, n) /\ ~OwnsSlot(s, FALSE, n)
         /\ \A i \in 1..Len(s), o1, o2 \in BOOLEAN :
              i # n /\ s[i].guard = "top" => (OwnsSlot(s, o1, i) <=> OwnsSlot(s, o2, i))
<1>1. OwnsSlot(s, TRUE, n) /\ ~OwnsSlot(s, FALSE, n)
  BY DEF OwnsSlot, Innermost
<1>2. ASSUME NEW i \in 1..Len(s), i # n, s[i].guard = "top"
      PROVE  n \in i + 1..Len(s) /\ s[n].guard = "top"
  BY <1>2 DEF Innermost
<1>3. QED
  BY <1>1, <1>2 DEF OwnsSlot

\* The guards below a push are what they were.
LEMMA BelowAgree ==
  ASSUME NEW s \in Seq(GuardRecords), NEW t \in Seq(GuardRecords), NEW g, IsPush(s, g, t)
  PROVE  /\ \A n \in 0..Len(t) : \A i \in 1..n : Innermost(s, n, i) <=> Innermost(t, n, i)
         /\ \A c, n : n \in 1..Len(t) => (GuardOK(s, n, c) <=> GuardOK(t, n, c))
<1>1. /\ Len(s) = Len(t) + 1
      /\ \A n \in 1..Len(t) : s[n] = t[n]
      /\ Len(t) \in Nat /\ Len(s) \in Nat
  BY DEF IsPush
<1>2. \A n \in 0..Len(t) : \A i \in 1..n : Innermost(s, n, i) <=> Innermost(t, n, i)
  BY <1>1 DEF Innermost
<1>3. ASSUME NEW c, NEW n \in 1..Len(t) PROVE GuardOK(s, n, c) <=> GuardOK(t, n, c)
  <2>1. n - 1 \in 0..Len(t) /\ s[n] = t[n] /\ \A j \in 1..n - 1 : s[j] = t[j]
    BY <1>1
  <2>2. (\E i \in 1..n - 1 : Innermost(s, n - 1, i))
          <=> (\E i \in 1..n - 1 : Innermost(t, n - 1, i))
    BY <1>2, <2>1
  <2>3. QED
    BY <2>1, <2>2 DEF GuardOK
<1>4. QED
  BY <1>2, <1>3

\* Pushes and pops keep what the thread-locals say of the stack.
LEMMA PushTop ==
  ASSUME NEW s \in Seq(GuardRecords), NEW t \in Seq(GuardRecords),
         NEW g \in GuardRecords, IsPush(s, g, t), g.guard = "top",
         NEW nst, StackOK(t, g.wasTop, nst, g.class)
  PROVE  StackOK(s, TRUE, nst, g.class)
<1>1. /\ Len(s) = Len(t) + 1 /\ s[Len(s)] = g /\ Len(s) - 1 = Len(t)
      /\ \A n \in 1..Len(t) : s[n] = t[n]
      /\ Len(t) \in Nat /\ Len(s) \in Nat
  BY DEF IsPush
<1>2. Len(s) \in 1..Len(s) /\ Innermost(s, Len(s), Len(s))
  BY <1>1 DEF Innermost
<1>3. \A n \in 1..Len(t) : GuardOK(s, n, g.class) /\ (s[n].guard = "nested" => nst)
  BY <1>1, BelowAgree DEF StackOK
<1>4. g.wasTop => \E i \in 1..Len(t) : Innermost(s, Len(t), i)
  BY <1>1, BelowAgree DEF StackOK
<1>5. GuardOK(s, Len(s), g.class) /\ s[Len(s)].guard # "nested"
  BY <1>1, <1>4 DEF GuardOK
<1>6. \A n \in 1..Len(s) : n \in 1..Len(t) \/ n = Len(s)
  BY <1>1
<1>7. QED
  BY <1>2, <1>3, <1>5, <1>6 DEF StackOK

LEMMA PushNested ==
  ASSUME NEW s \in Seq(GuardRecords), NEW t \in Seq(GuardRecords),
         NEW g \in GuardRecords, IsPush(s, g, t), g.guard = "nested",
         NEW tp, StackOK(t, tp, g.previous, g.class)
  PROVE  StackOK(s, tp, TRUE, g.class)
<1>1. /\ Len(s) = Len(t) + 1 /\ s[Len(s)] = g /\ Len(s) - 1 = Len(t)
      /\ \A n \in 1..Len(t) : s[n] = t[n]
      /\ Len(t) \in Nat /\ Len(s) \in Nat
  BY DEF IsPush
<1>2. ASSUME NEW i \in 1..Len(t), Innermost(t, Len(t), i)
      PROVE  i \in 1..Len(s) /\ Innermost(s, Len(s), i)
  BY <1>1, <1>2 DEF Innermost
<1>3. \A n \in 1..Len(t) : GuardOK(s, n, g.class)
  BY <1>1, BelowAgree DEF StackOK
<1>4. \A j \in 1..Len(t) : s[j].guard = "nested" => g.previous
  BY <1>1 DEF StackOK
<1>5. GuardOK(s, Len(s), g.class)
  BY <1>1, <1>4 DEF GuardOK
<1>6. \A n \in 1..Len(s) : n \in 1..Len(t) \/ n = Len(s)
  BY <1>1
<1>7. QED
  BY <1>2, <1>3, <1>5, <1>6 DEF StackOK

LEMMA PopTop ==
  ASSUME NEW s \in Seq(GuardRecords), NEW t \in Seq(GuardRecords),
         NEW g \in GuardRecords, IsPush(s, g, t), g.guard = "top",
         NEW tp, NEW nst, NEW c, StackOK(s, tp, nst, c)
  PROVE  StackOK(t, g.wasTop, nst, c) /\ g.class = c
<1>1. /\ Len(s) = Len(t) + 1 /\ s[Len(s)] = g /\ Len(s) - 1 = Len(t)
      /\ \A n \in 1..Len(t) : s[n] = t[n] /\ n \in 1..Len(s)
      /\ Len(t) \in Nat /\ Len(s) \in Nat /\ Len(s) \in 1..Len(s)
  BY DEF IsPush
<1>2. GuardOK(s, Len(s), c)
  BY <1>1 DEF StackOK
<1>3. g.wasTop => \E i \in 1..Len(t) : Innermost(s, Len(t), i)
  BY <1>1, <1>2 DEF GuardOK
<1>4. g.wasTop => \E i \in 1..Len(t) : Innermost(t, Len(t), i)
  BY <1>1, <1>3, BelowAgree
<1>5. \A n \in 1..Len(t) : GuardOK(t, n, c) /\ (t[n].guard = "nested" => nst)
  BY <1>1, BelowAgree DEF StackOK
<1>6. QED
  BY <1>1, <1>2, <1>4, <1>5 DEF StackOK, GuardOK

LEMMA PopNested ==
  ASSUME NEW s \in Seq(GuardRecords), NEW t \in Seq(GuardRecords),
         NEW g \in GuardRecords, IsPush(s, g, t), g.guard = "nested",
         NEW tp, NEW nst, NEW c, StackOK(s, tp, nst, c)
  PROVE  StackOK(t, tp, g.previous, c) /\ g.class = c /\ nst
<1>1. /\ Len(s) = Len(t) + 1 /\ s[Len(s)] = g /\ Len(s) - 1 = Len(t)
      /\ \A n \in 1..Len(t) : s[n] = t[n] /\ n \in 1..Len(s)
      /\ Len(t) \in Nat /\ Len(s) \in Nat /\ Len(s) \in 1..Len(s)
  BY DEF IsPush
<1>2. GuardOK(s, Len(s), c) /\ nst
  BY <1>1 DEF StackOK
<1>3. ASSUME NEW i \in 1..Len(s), Innermost(s, Len(s), i)
      PROVE  i \in 1..Len(t) /\ Innermost(t, Len(t), i)
  <2>1. i # Len(s)
    BY <1>1, <1>3 DEF Innermost
  <2>2. i \in 1..Len(t)
    BY <1>1, <2>1
  <2>3. \A j \in i + 1..Len(t) : j \in i + 1..Len(s) /\ s[j] = t[j]
    BY <1>1, <2>2
  <2>4. QED
    BY <1>1, <1>3, <2>2, <2>3 DEF Innermost
<1>4. \A n \in 1..Len(t) : GuardOK(t, n, c) /\ (t[n].guard = "nested" => g.previous)
  BY <1>1, <1>2, BelowAgree DEF StackOK, GuardOK
<1>5. tp => \E i \in 1..Len(t) : Innermost(t, Len(t), i)
  BY <1>3 DEF StackOK
<1>6. QED
  BY <1>1, <1>2, <1>4, <1>5 DEF StackOK, GuardOK
-----------------------------------------------------------------------------
(* The counted guards of all threads.                                      *)

Places == Threads \X (1..MaxFrames)
FlyingIn(F) == {p \in Places : Flies(F[p[1]], p[2])}
InnerIn(F, O, c) == {p \in Places : HasInner(F[p[1]], O[p[1]], p[2], c)}
NestedIn(F, c) == {p \in Places : HasNested(F[p[1]], p[2], c)}

LEMMA PlacesFinite == \A S : S \subseteq Places => IsFiniteSet(S) /\ Cardinality(S) \in Nat
<1>1. IsFiniteSet(Threads) /\ IsFiniteSet(1..MaxFrames)
  BY OwnersAssumption, FS_Interval
<1>2. IsFiniteSet(Places)
  BY <1>1, FS_Product DEF Places
<1>3. QED
  BY <1>2, FS_Subset, FS_CardinalityType

LEMMA CountedFinite ==
  ASSUME NEW F, NEW O, NEW c
  PROVE  /\ IsFiniteSet(FlyingIn(F)) /\ Cardinality(FlyingIn(F)) \in Nat
         /\ IsFiniteSet(InnerIn(F, O, c)) /\ Cardinality(InnerIn(F, O, c)) \in Nat
         /\ IsFiniteSet(NestedIn(F, c)) /\ Cardinality(NestedIn(F, c)) \in Nat
<1>1. FlyingIn(F) \subseteq Places /\ InnerIn(F, O, c) \subseteq Places
        /\ NestedIn(F, c) \subseteq Places
  BY DEF FlyingIn, InnerIn, NestedIn
<1>2. QED
  BY <1>1, PlacesFinite

\* Two sets that differ in one element at most.
LEMMA OneMore ==
  ASSUME NEW S, NEW T, NEW x, IsFiniteSet(S), x \notin S,
         \A y : y # x => (y \in S <=> y \in T)
  PROVE  Cardinality(T) = Cardinality(S) + (IF x \in T THEN 1 ELSE 0)
<1>0. Cardinality(S) \in Nat
  BY FS_CardinalityType
<1>1. CASE x \in T
  <2>1. T = S \cup {x}
    BY <1>1
  <2>2. QED
    BY <1>1, <2>1, FS_AddElement
<1>2. CASE x \notin T
  <2>1. T = S
    BY <1>2
  <2>2. QED
    BY <1>0, <1>2, <2>1
<1>3. QED
  BY <1>1, <1>2

\* A push on the stack of one thread adds the new guard to the counts it
\* belongs to, and changes no other guard's count.
OnePush(F, O, F2, O2, t, g) ==
    /\ F \in [Threads -> Seq(GuardRecords)] /\ F2 \in [Threads -> Seq(GuardRecords)]
    /\ O \in [Threads -> BOOLEAN] /\ O2 \in [Threads -> BOOLEAN]
    /\ t \in Threads /\ g \in GuardRecords
    /\ IsPush(F2[t], g, F[t])
    /\ Len(F[t]) < MaxFrames
    /\ \A u \in Threads : u # t => F2[u] = F[u] /\ O2[u] = O[u]
    /\ g.guard = "top" => O[t] = g.wasOwner
    /\ g.guard = "nested" => O2[t] = O[t]

LEMMA PushCounts ==
  ASSUME NEW F, NEW O, NEW F2, NEW O2, NEW t, NEW g, OnePush(F, O, F2, O2, t, g),
         NEW c \in Classes
  PROVE  /\ Cardinality(FlyingIn(F2)) = Cardinality(FlyingIn(F))
              + (IF g.guard = "top" /\ ~g.dedicated THEN 1 ELSE 0)
         /\ Cardinality(InnerIn(F2, O2, c)) = Cardinality(InnerIn(F, O, c))
              + (IF g.guard = "top" /\ g.class = c /\ O2[t] THEN 1 ELSE 0)
         /\ Cardinality(NestedIn(F2, c)) = Cardinality(NestedIn(F, c))
              + (IF g.guard = "nested" /\ g.class = c /\ ~g.previous THEN 1 ELSE 0)
<1> DEFINE n == Len(F[t]) + 1
           x == <<t, n>>
<1>0. /\ F \in [Threads -> Seq(GuardRecords)] /\ F2 \in [Threads -> Seq(GuardRecords)]
      /\ O \in [Threads -> BOOLEAN] /\ O2 \in [Threads -> BOOLEAN]
      /\ t \in Threads /\ g \in GuardRecords
      /\ IsPush(F2[t], g, F[t]) /\ Len(F[t]) < MaxFrames
      /\ \A u \in Threads : u # t => F2[u] = F[u] /\ O2[u] = O[u]
      /\ g.guard = "top" => O[t] = g.wasOwner
      /\ g.guard = "nested" => O2[t] = O[t]
  BY DEF OnePush
<1>1. /\ n \in 1..MaxFrames /\ Len(F[t]) \in Nat /\ Len(F2[t]) = n
      /\ \A i \in 1..Len(F[t]) : F2[t][i] = F[t][i]
      /\ F2[t][n] = g
  BY <1>0, OwnersAssumption DEF IsPush
<1>2. x \in Places /\ x[1] = t /\ x[2] = n
  BY <1>0, <1>1 DEF Places
<1>3. ~Flies(F[t], n) /\ ~HasInner(F[t], O[t], n, c) /\ ~HasNested(F[t], n, c)
  BY <1>0, <1>1 DEF Flies, HasInner, HasNested
<1>4. OwnsSlot(F2[t], O2[t], n) <=> O2[t]
  BY <1>0, <1>1 DEF OwnsSlot
<1>5. /\ Flies(F2[t], n) <=> g.guard = "top" /\ ~g.dedicated
      /\ HasInner(F2[t], O2[t], n, c) <=> g.guard = "top" /\ g.class = c /\ O2[t]
      /\ HasNested(F2[t], n, c) <=> g.guard = "nested" /\ g.class = c /\ ~g.previous
  BY <1>0, <1>1, <1>4 DEF Flies, HasInner, HasNested
<1>6. ASSUME NEW i \in 1..MaxFrames, i # n
      PROVE  /\ Flies(F2[t], i) <=> Flies(F[t], i)
             /\ HasInner(F2[t], O2[t], i, c) <=> HasInner(F[t], O[t], i, c)
             /\ HasNested(F2[t], i, c) <=> HasNested(F[t], i, c)
  <2>1. CASE i > n
    BY <1>0, <1>1, <2>1 DEF Flies, HasInner, HasNested
  <2>2. CASE i \in 1..Len(F[t])
    <3>1. F2[t][i] = F[t][i] /\ i <= Len(F[t]) /\ i <= Len(F2[t])
      BY <1>0, <1>1, <2>2
    <3>2. OwnsSlot(F2[t], O2[t], i) <=> OwnsSlot(F[t], O[t], i)
      <4>1. CASE g.guard = "top"
        BY <1>0, <2>2, <4>1, OwnsBelowTop
      <4>2. CASE g.guard = "nested"
        BY <1>0, <2>2, <4>2, OwnsBelowNested
      <4>3. QED
        BY <1>0, <4>1, <4>2, GuardFacts
    <3>3. QED
      BY <3>1, <3>2 DEF Flies, HasInner, HasNested
  <2>3. QED
    BY <1>0, <1>1, <1>6, <2>1, <2>2
<1>7. ASSUME NEW p \in Places, p # x
      PROVE  /\ Flies(F2[p[1]], p[2]) <=> Flies(F[p[1]], p[2])
             /\ HasInner(F2[p[1]], O2[p[1]], p[2], c) <=> HasInner(F[p[1]], O[p[1]], p[2], c)
             /\ HasNested(F2[p[1]], p[2], c) <=> HasNested(F[p[1]], p[2], c)
  <2>1. p[1] \in Threads /\ p[2] \in 1..MaxFrames /\ p = <<p[1], p[2]>>
    BY DEF Places
  <2>2. CASE p[1] # t
    BY <1>0, <2>1, <2>2
  <2>3. CASE p[1] = t
    <3>1. p[2] # n
      BY <1>7, <2>1, <2>3
    <3>2. QED
      BY <1>6, <2>1, <2>3, <3>1
  <2>4. QED
    BY <2>2, <2>3
<1> HIDE DEF x, n
<1>8. /\ x \notin FlyingIn(F)
      /\ x \in FlyingIn(F2) <=> g.guard = "top" /\ ~g.dedicated
      /\ \A p : p # x => (p \in FlyingIn(F) <=> p \in FlyingIn(F2))
  BY <1>2, <1>3, <1>5, <1>7 DEF FlyingIn
<1>9. /\ x \notin InnerIn(F, O, c)
      /\ x \in InnerIn(F2, O2, c) <=> g.guard = "top" /\ g.class = c /\ O2[t]
      /\ \A p : p # x => (p \in InnerIn(F, O, c) <=> p \in InnerIn(F2, O2, c))
  BY <1>2, <1>3, <1>5, <1>7 DEF InnerIn
<1>10. /\ x \notin NestedIn(F, c)
       /\ x \in NestedIn(F2, c) <=> g.guard = "nested" /\ g.class = c /\ ~g.previous
       /\ \A p : p # x => (p \in NestedIn(F, c) <=> p \in NestedIn(F2, c))
  BY <1>2, <1>3, <1>5, <1>7 DEF NestedIn
<1>11. /\ Cardinality(FlyingIn(F2)) = Cardinality(FlyingIn(F))
            + (IF x \in FlyingIn(F2) THEN 1 ELSE 0)
       /\ Cardinality(InnerIn(F2, O2, c)) = Cardinality(InnerIn(F, O, c))
            + (IF x \in InnerIn(F2, O2, c) THEN 1 ELSE 0)
       /\ Cardinality(NestedIn(F2, c)) = Cardinality(NestedIn(F, c))
            + (IF x \in NestedIn(F2, c) THEN 1 ELSE 0)
  BY <1>8, <1>9, <1>10, CountedFinite, OneMore
<1>12. QED
  BY <1>8, <1>9, <1>10, <1>11

\* Setting the thread-local gives the innermost analysis a slot, and no other.
LEMMA OwnCounts ==
  ASSUME NEW F \in [Threads -> Seq(GuardRecords)], NEW O \in [Threads -> BOOLEAN],
         NEW O2 \in [Threads -> BOOLEAN],
         NEW t \in Threads, NEW n \in 1..Len(F[t]), Len(F[t]) <= MaxFrames,
         Innermost(F[t], Len(F[t]), n), ~O[t], O2[t],
         \A u \in Threads : u # t => O2[u] = O[u],
         NEW c \in Classes
  PROVE  Cardinality(InnerIn(F, O2, c)) = Cardinality(InnerIn(F, O, c))
              + (IF F[t][n].class = c THEN 1 ELSE 0)
<1> DEFINE x == <<t, n>>
<1>1. x \in Places /\ x[1] = t /\ x[2] = n
  BY OwnersAssumption DEF Places
<1>2. /\ F[t] \in Seq(GuardRecords) /\ O[t] = FALSE /\ O2[t] = TRUE
      /\ F[t][n].guard = "top" /\ n <= Len(F[t])
  BY DEF Innermost
<1>3. ~HasInner(F[t], O[t], n, c) /\ (HasInner(F[t], O2[t], n, c) <=> F[t][n].class = c)
  BY <1>2, OwnsInnermost DEF HasInner
<1>4. ASSUME NEW i \in 1..MaxFrames, i # n
      PROVE  HasInner(F[t], O2[t], i, c) <=> HasInner(F[t], O[t], i, c)
  <2>0. i \in Int /\ i >= 1 /\ Len(F[t]) \in Nat
    BY <1>2, OwnersAssumption
  <2>1. CASE ~(i <= Len(F[t]))
    BY <2>1 DEF HasInner
  <2>2. CASE i \in 1..Len(F[t]) /\ F[t][i].guard = "top"
    <3>1. OwnsSlot(F[t], TRUE, i) <=> OwnsSlot(F[t], FALSE, i)
      BY <1>2, <1>4, <2>2, OwnsInnermost
    <3>2. QED
      BY <1>2, <3>1 DEF HasInner
  <2>3. CASE F[t][i].guard # "top"
    <3>1. ~HasInner(F[t], O[t], i, c)
      BY <2>3 DEF HasInner
    <3>2. ~HasInner(F[t], O2[t], i, c)
      BY <2>3 DEF HasInner
    <3>3. QED
      BY <3>1, <3>2
  <2>4. ~(i <= Len(F[t])) \/ i \in 1..Len(F[t])
    BY <2>0
  <2>5. QED
    BY <2>1, <2>2, <2>3, <2>4, Zenon
<1>5. ASSUME NEW p \in Places, p # x
      PROVE  HasInner(F[p[1]], O2[p[1]], p[2], c) <=> HasInner(F[p[1]], O[p[1]], p[2], c)
  <2>1. p[1] \in Threads /\ p[2] \in 1..MaxFrames /\ p = <<p[1], p[2]>>
    BY DEF Places
  <2>2. CASE p[1] # t
    BY <2>1, <2>2
  <2>3. CASE p[1] = t
    <3>1. p[2] # n
      BY <1>5, <2>1, <2>3
    <3>2. QED
      BY <1>4, <2>1, <2>3, <3>1
  <2>4. QED
    BY <2>2, <2>3
<1> HIDE DEF x
<1>6. /\ x \notin InnerIn(F, O, c)
      /\ x \in InnerIn(F, O2, c) <=> F[t][n].class = c
      /\ \A p : p # x => (p \in InnerIn(F, O, c) <=> p \in InnerIn(F, O2, c))
  BY <1>1, <1>3, <1>5 DEF InnerIn
<1>7. Cardinality(InnerIn(F, O2, c)) = Cardinality(InnerIn(F, O, c))
            + (IF x \in InnerIn(F, O2, c) THEN 1 ELSE 0)
  BY <1>6, CountedFinite, OneMore
<1>8. QED
  BY <1>6, <1>7
-----------------------------------------------------------------------------
(* The inductive invariant.                                                *)

Shape ==
    /\ frames \in [Threads -> Seq(GuardRecords)]
    /\ \A t \in Threads : Len(frames[t]) <= MaxFrames
    /\ top \in [Threads -> BOOLEAN]
    /\ owns \in [Threads -> BOOLEAN]
    /\ nested \in [Threads -> BOOLEAN]
    /\ dedicated \in [Threads -> BOOLEAN]
    /\ class \in [Threads -> Classes]
    /\ claim \in [Threads -> ClaimRecords \cup {Idle}]
    /\ inFlight \in Nat
    /\ owners \in [Slots -> Nat]
    /\ hostCap \in [Slots -> 0..WordMax]
    /\ fixedCap \in [Kinds -> 0..WordMax]

\* The thread-locals and the stacks agree.
Stacks == \A t \in Threads : StackOK(frames[t], top[t], nested[t], class[t])

\* A claim under way was asked for on a thread that may have the slot.
ClaimsOK ==
    \A t \in Threads :
        claim[t] # Idle =>
            /\ claim[t].kind = "inner" => top[t] /\ ~owns[t]
            /\ claim[t].kind = "nested" => ~nested[t] /\ Len(frames[t]) < MaxFrames

\* The counters count.
Exact ==
    /\ inFlight = Cardinality(FlyingIn(frames))
    /\ \A c \in Classes :
        /\ owners[<<"inner", c>>] = Cardinality(InnerIn(frames, owns, c))
        /\ owners[<<"nested", c>>] = Cardinality(NestedIn(frames, c))

\* The cap a claim was made under has not shrunk, and no foreground owner is
\* older than the cap of its kind.
CapsOK ==
    /\ \A t \in Threads :
        claim[t] # Idle =>
            /\ claim[t].limit <= Cap(claim[t].kind, class[t])
            /\ class[t] = "foreground" => fixedCap[claim[t].kind] # 0
    /\ \A k \in Kinds : fixedCap[k] = 0 => owners[<<k, "foreground">>] = 0
    /\ CapsHold

OwnersInv == Shape /\ Stacks /\ ClaimsOK /\ Exact

LEMMA SlotFacts ==
  /\ \A k \in Kinds, c \in Classes : <<k, c>> \in Slots
  /\ \A s \in Slots : s = <<"inner", "foreground">> \/ s = <<"inner", "background">>
                      \/ s = <<"nested", "foreground">> \/ s = <<"nested", "background">>
  /\ "inner" \in Kinds /\ "nested" \in Kinds
  /\ "foreground" \in Classes /\ "background" \in Classes
BY DEF Slots, Kinds, Classes

LEMMA ClaimFacts ==
  ASSUME NEW r \in ClaimRecords \cup {Idle}
  PROVE  r # Idle => /\ r \in ClaimRecords /\ r.kind \in Kinds
                     /\ r.limit \in 1..WordMax /\ r.seen \in Nat
BY DEF ClaimRecords, Idle, Kinds

LEMMA OwnersInvInit == Init => OwnersInv
<1> SUFFICES ASSUME Init PROVE OwnersInv
  OBVIOUS
<1>1. Shape
  BY OwnersAssumption DEF Init, Shape, Classes
<1>2. \A t \in Threads : Len(frames[t]) = 0
  BY DEF Init
<1>3. Stacks
  BY <1>2 DEF Stacks, StackOK, Init
<1>4. ClaimsOK
  BY DEF ClaimsOK, Init
<1>5. \A F, O, c : (\A t \in Threads : Len(F[t]) = 0) =>
        FlyingIn(F) = {} /\ InnerIn(F, O, c) = {} /\ NestedIn(F, c) = {}
  BY OwnersAssumption DEF FlyingIn, InnerIn, NestedIn, Places, Flies, HasInner, HasNested
<1>6. Exact
  BY <1>2, <1>5, FS_EmptySet, SlotFacts DEF Exact, Init
<1>7. QED
  BY <1>1, <1>3, <1>4, <1>6 DEF OwnersInv
\* What a push and a pop do to the stacks of all threads.
LEMMA PushStep ==
  ASSUME Shape, NEW t \in Threads, NEW g \in GuardRecords, Pushed(t, g),
         Len(frames[t]) < MaxFrames
  PROVE  /\ frames' \in [Threads -> Seq(GuardRecords)]
         /\ IsPush(frames'[t], g, frames[t])
         /\ \A u \in Threads : u # t => frames'[u] = frames[u]
         /\ \A u \in Threads : Len(frames'[u]) <= MaxFrames
<1>1. frames[t] \in Seq(GuardRecords) /\ Append(frames[t], g) \in Seq(GuardRecords)
  BY PushIsPush DEF Shape
<1>2. frames' = [frames EXCEPT ![t] = Append(frames[t], g)]
  BY DEF Pushed
<1>3. /\ frames' \in [Threads -> Seq(GuardRecords)] /\ frames'[t] = Append(frames[t], g)
      /\ \A u \in Threads : u # t => frames'[u] = frames[u]
  BY <1>1, <1>2 DEF Shape
<1>4. IsPush(frames'[t], g, frames[t])
  BY <1>1, <1>3, PushIsPush
<1>5. Len(frames'[t]) <= MaxFrames
  BY <1>1, <1>4, OwnersAssumption DEF IsPush
<1>6. QED
  BY <1>3, <1>4, <1>5 DEF Shape

LEMMA PopStep ==
  ASSUME Shape, NEW t \in Threads, Popped(t), frames[t] # <<>>
  PROVE  /\ frames' \in [Threads -> Seq(GuardRecords)]
         /\ Last(t) \in GuardRecords
         /\ IsPush(frames[t], Last(t), frames'[t])
         /\ \A u \in Threads : u # t => frames'[u] = frames[u]
         /\ Len(frames'[t]) < MaxFrames
         /\ \A u \in Threads : Len(frames'[u]) <= MaxFrames
<1> DEFINE front == SubSeq(frames[t], 1, Len(frames[t]) - 1)
<1>1. frames[t] \in Seq(GuardRecords)
  BY DEF Shape
<1>2. /\ front \in Seq(GuardRecords) /\ Len(front) = Len(frames[t]) - 1
      /\ Last(t) \in GuardRecords /\ Len(frames[t]) \in Nat \ {0}
  BY <1>1, StackSplit DEF Last
<1>3. IsPush(frames[t], Last(t), front)
  BY <1>1, PopIsPush DEF Last
<1>4. frames' = [frames EXCEPT ![t] = front]
  BY DEF Popped
<1> HIDE DEF front
<1>5. /\ frames' \in [Threads -> Seq(GuardRecords)] /\ frames'[t] = front
      /\ \A u \in Threads : u # t => frames'[u] = frames[u]
  BY <1>2, <1>4 DEF Shape
<1>6. Len(frames'[t]) < MaxFrames
  BY <1>2, <1>5, OwnersAssumption DEF Shape
<1>7. ASSUME NEW u \in Threads PROVE Len(frames'[u]) <= MaxFrames
  <2>1. CASE u = t
    <3>1. Len(frames'[t]) \in Nat
      BY <1>2, <1>5
    <3>2. QED
      BY <1>6, <2>1, <3>1, OwnersAssumption
  <2>2. CASE u # t
    BY <1>5, <2>2 DEF Shape
  <2>3. QED
    BY <2>1, <2>2
<1>8. QED
  BY <1>2, <1>3, <1>5, <1>6, <1>7

LEMMA CountTypes ==
  ASSUME NEW F, NEW O, NEW c
  PROVE  /\ Cardinality(FlyingIn(F)) \in Nat /\ Cardinality(InnerIn(F, O, c)) \in Nat
         /\ Cardinality(NestedIn(F, c)) \in Nat
BY CountedFinite

LEMMA EnterKeeps ==
  ASSUME OwnersInv, NEW t \in Threads, NEW d \in BOOLEAN, EnterToplevel(t, d)
  PROVE  OwnersInv'
<1> DEFINE g == [guard |-> "top", wasTop |-> top[t], wasOwner |-> owns[t],
                 wasDedicated |-> dedicated[t], dedicated |-> d, class |-> class[t]]
<1>0. Shape /\ Stacks /\ ClaimsOK /\ Exact
  BY DEF OwnersInv
<1>1. /\ g \in GuardRecords /\ g.guard = "top" /\ g.wasTop = top[t] /\ g.wasOwner = owns[t]
      /\ g.dedicated = d /\ g.class = class[t]
  BY <1>0 DEF Shape, GuardRecords, TopGuards
<1>2. Pushed(t, g) /\ Len(frames[t]) < MaxFrames
  BY DEF EnterToplevel
<1> HIDE DEF g
<1>3. /\ frames' \in [Threads -> Seq(GuardRecords)] /\ IsPush(frames'[t], g, frames[t])
      /\ \A u \in Threads : u # t => frames'[u] = frames[u]
      /\ \A u \in Threads : Len(frames'[u]) <= MaxFrames
  BY <1>0, <1>1, <1>2, PushStep
<1>4. /\ top' \in [Threads -> BOOLEAN] /\ owns' \in [Threads -> BOOLEAN]
      /\ dedicated' \in [Threads -> BOOLEAN]
      /\ top'[t] = TRUE /\ owns'[t] = FALSE
      /\ \A u \in Threads : u # t => top'[u] = top[u] /\ owns'[u] = owns[u]
      /\ UNCHANGED <<nested, class, claim, owners, hostCap, fixedCap>>
      /\ claim[t] = Idle
  BY <1>0 DEF EnterToplevel, Shape
<1>5. inFlight' = inFlight + (IF g.guard = "top" /\ ~g.dedicated THEN 1 ELSE 0)
  BY <1>0, <1>1 DEF EnterToplevel, Shape
<1>6. Shape'
  BY <1>0, <1>3, <1>4, <1>5 DEF Shape
<1>7. Stacks'
  <2>1. StackOK(frames'[t], TRUE, nested[t], class[t])
    <3>1. /\ frames[t] \in Seq(GuardRecords) /\ frames'[t] \in Seq(GuardRecords)
          /\ StackOK(frames[t], g.wasTop, nested[t], g.class)
      BY <1>0, <1>1, <1>3 DEF Shape, Stacks
    <3>2. StackOK(frames'[t], TRUE, nested[t], g.class)
      BY <1>1, <1>3, <3>1, PushTop
    <3>3. QED
      BY <1>1, <3>2
  <2>2. QED
    BY <1>0, <1>3, <1>4, <2>1 DEF Stacks
<1>8. ClaimsOK'
  BY <1>0, <1>3, <1>4 DEF ClaimsOK
<1>9. Exact'
  <2>1. ASSUME NEW c \in Classes
        PROVE  /\ Cardinality(FlyingIn(frames')) = Cardinality(FlyingIn(frames))
                    + (IF g.guard = "top" /\ ~g.dedicated THEN 1 ELSE 0)
               /\ Cardinality(InnerIn(frames', owns', c))
                    = Cardinality(InnerIn(frames, owns, c))
               /\ Cardinality(NestedIn(frames', c)) = Cardinality(NestedIn(frames, c))
    <3>1. /\ Cardinality(FlyingIn(frames')) = Cardinality(FlyingIn(frames))
                + (IF g.guard = "top" /\ ~g.dedicated THEN 1 ELSE 0)
          /\ Cardinality(InnerIn(frames', owns', c)) = Cardinality(InnerIn(frames, owns, c))
                + (IF g.guard = "top" /\ g.class = c /\ owns'[t] THEN 1 ELSE 0)
          /\ Cardinality(NestedIn(frames', c)) = Cardinality(NestedIn(frames, c))
                + (IF g.guard = "nested" /\ g.class = c /\ ~g.previous THEN 1 ELSE 0)
      <4>1. OnePush(frames, owns, frames', owns', t, g)
        BY <1>0, <1>1, <1>2, <1>3, <1>4 DEF Shape, OnePush
      <4>2. QED
        BY <4>1, PushCounts
    <3>2. QED
      BY <1>1, <1>4, <3>1, CountTypes
  <2>2. QED
    BY <1>0, <1>4, <1>5, <2>1, SlotFacts DEF Exact
<1>10. QED
  BY <1>6, <1>7, <1>8, <1>9 DEF OwnersInv
LEMMA LeaveTopKeeps ==
  ASSUME OwnersInv, NEW t \in Threads, LeaveToplevel(t)
  PROVE  OwnersInv' /\ \A s \in Slots : owners'[s] <= owners[s]
<1> DEFINE g == Last(t)
<1>0. Shape /\ Stacks /\ ClaimsOK /\ Exact
  BY DEF OwnersInv
<1>1. Popped(t) /\ frames[t] # <<>> /\ g.guard = "top"
  BY DEF LeaveToplevel
<1>2. /\ frames' \in [Threads -> Seq(GuardRecords)] /\ g \in GuardRecords
      /\ IsPush(frames[t], g, frames'[t])
      /\ \A u \in Threads : u # t => frames'[u] = frames[u]
      /\ Len(frames'[t]) < MaxFrames
      /\ \A u \in Threads : Len(frames'[u]) <= MaxFrames
  BY <1>0, <1>1, PopStep
<1>3. /\ top' = [top EXCEPT ![t] = g.wasTop] /\ owns' = [owns EXCEPT ![t] = g.wasOwner]
      /\ dedicated' = [dedicated EXCEPT ![t] = g.wasDedicated]
      /\ owners' = IF owns[t] THEN [owners EXCEPT ![<<"inner", g.class>>] = Dec(@)]
                   ELSE owners
      /\ inFlight' = IF g.dedicated THEN inFlight ELSE Dec(inFlight)
      /\ UNCHANGED <<nested, class, claim, hostCap, fixedCap>>
      /\ claim[t] = Idle
  BY DEF LeaveToplevel
<1> HIDE DEF g
<1>4. g.wasTop \in BOOLEAN /\ g.wasOwner \in BOOLEAN /\ g.wasDedicated \in BOOLEAN
        /\ g.dedicated \in BOOLEAN /\ g.class \in Classes
  BY <1>1, <1>2, GuardFacts
<1>5. /\ top' \in [Threads -> BOOLEAN] /\ owns' \in [Threads -> BOOLEAN]
      /\ dedicated' \in [Threads -> BOOLEAN]
      /\ top'[t] = g.wasTop /\ owns'[t] = g.wasOwner
      /\ \A u \in Threads : u # t => top'[u] = top[u] /\ owns'[u] = owns[u]
  BY <1>0, <1>3, <1>4 DEF Shape
<1>6. StackOK(frames'[t], g.wasTop, nested[t], class[t]) /\ g.class = class[t]
  <2>1. /\ StackOK(frames[t], top[t], nested[t], class[t])
        /\ frames[t] \in Seq(GuardRecords) /\ frames'[t] \in Seq(GuardRecords)
    BY <1>0, <1>2 DEF Stacks, Shape
  <2>2. QED
    BY <1>1, <1>2, <2>1, PopTop
<1>7. ASSUME NEW c \in Classes
      PROVE  /\ Cardinality(FlyingIn(frames)) = Cardinality(FlyingIn(frames'))
                  + (IF ~g.dedicated THEN 1 ELSE 0)
             /\ Cardinality(InnerIn(frames, owns, c)) = Cardinality(InnerIn(frames', owns', c))
                  + (IF g.class = c /\ owns[t] THEN 1 ELSE 0)
             /\ Cardinality(NestedIn(frames, c)) = Cardinality(NestedIn(frames', c))
  <2>1. OnePush(frames', owns', frames, owns, t, g)
    BY <1>0, <1>1, <1>2, <1>5 DEF Shape, OnePush
  <2>2. /\ Cardinality(FlyingIn(frames)) = Cardinality(FlyingIn(frames'))
             + (IF g.guard = "top" /\ ~g.dedicated THEN 1 ELSE 0)
        /\ Cardinality(InnerIn(frames, owns, c)) = Cardinality(InnerIn(frames', owns', c))
             + (IF g.guard = "top" /\ g.class = c /\ owns[t] THEN 1 ELSE 0)
        /\ Cardinality(NestedIn(frames, c)) = Cardinality(NestedIn(frames', c))
             + (IF g.guard = "nested" /\ g.class = c /\ ~g.previous THEN 1 ELSE 0)
    BY <2>1, PushCounts
  <2>3. QED
    BY <1>1, <2>2, CountTypes
<1>8. inFlight' \in Nat /\ inFlight' = Cardinality(FlyingIn(frames'))
  BY <1>0, <1>3, <1>4, <1>7, CountTypes DEF Exact, Dec
<1>9. owners' \in [Slots -> Nat] /\ (\A s \in Slots : owners'[s] <= owners[s])
      /\ \A c \in Classes :
        /\ owners'[<<"inner", c>>] = Cardinality(InnerIn(frames', owns', c))
        /\ owners'[<<"nested", c>>] = Cardinality(NestedIn(frames', c))
  <2>1. CASE ~owns[t]
    <3>1. owners' = owners /\ owners \in [Slots -> Nat]
      BY <1>0, <1>3, <2>1 DEF Shape
    <3>2. ASSUME NEW c \in Classes
          PROVE  /\ Cardinality(InnerIn(frames, owns, c))
                      = Cardinality(InnerIn(frames', owns', c))
                 /\ Cardinality(NestedIn(frames, c)) = Cardinality(NestedIn(frames', c))
      BY <1>7, <2>1, CountTypes
    <3>3. QED
      BY <1>0, <3>1, <3>2 DEF Exact
  <2>2. CASE owns[t]
    <3>1. <<"inner", g.class>> \in Slots /\ owners \in [Slots -> Nat]
      BY <1>0, <1>4, SlotFacts DEF Shape
    <3>2. owners[<<"inner", g.class>>] > 0
      <4>1. Cardinality(InnerIn(frames, owns, g.class))
              = Cardinality(InnerIn(frames', owns', g.class)) + 1
        BY <1>4, <1>7, <2>2
      <4>2. owners[<<"inner", g.class>>] = Cardinality(InnerIn(frames, owns, g.class))
        BY <1>0, <1>4 DEF Exact
      <4>3. QED
        BY <4>1, <4>2, CountTypes
    <3>3. Dec(owners[<<"inner", g.class>>]) = owners[<<"inner", g.class>>] - 1
      BY <3>1, <3>2 DEF Dec
    <3>4. /\ owners' \in [Slots -> Nat]
          /\ owners'[<<"inner", g.class>>] = owners[<<"inner", g.class>>] - 1
          /\ \A s \in Slots : s # <<"inner", g.class>> => owners'[s] = owners[s]
      BY <1>3, <2>2, <3>1, <3>2, <3>3
    <3>5. ASSUME NEW c \in Classes
          PROVE  /\ owners'[<<"inner", c>>] = Cardinality(InnerIn(frames', owns', c))
                 /\ owners'[<<"nested", c>>] = Cardinality(NestedIn(frames', c))
      <4>1. owners'[<<"nested", c>>] = owners[<<"nested", c>>]
        BY <3>4, SlotFacts
      <4>2. CASE c = g.class
        BY <1>0, <1>7, <2>2, <3>4, <4>1, <4>2, CountTypes DEF Exact
      <4>3. CASE c # g.class
        <5>1. owners'[<<"inner", c>>] = owners[<<"inner", c>>]
          BY <3>4, <4>3, SlotFacts
        <5>2. QED
          BY <1>0, <1>7, <4>1, <4>3, <5>1, CountTypes DEF Exact
      <4>4. QED
        BY <4>2, <4>3
    <3>6. \A s \in Slots : owners'[s] <= owners[s]
      BY <3>1, <3>2, <3>4
    <3>7. QED
      BY <3>4, <3>5, <3>6
  <2>3. QED
    BY <2>1, <2>2
<1>10. Shape'
  BY <1>0, <1>2, <1>3, <1>5, <1>8, <1>9 DEF Shape
<1>11. Stacks'
  BY <1>0, <1>2, <1>3, <1>5, <1>6 DEF Stacks
<1>12. ClaimsOK'
  BY <1>0, <1>2, <1>3, <1>5 DEF ClaimsOK
<1>13. Exact'
  BY <1>8, <1>9 DEF Exact
<1>14. QED
  BY <1>9, <1>10, <1>11, <1>12, <1>13 DEF OwnersInv

LEMMA LeaveNestedKeeps ==
  ASSUME OwnersInv, NEW t \in Threads, LeaveNested(t)
  PROVE  OwnersInv' /\ \A s \in Slots : owners'[s] <= owners[s]
<1> DEFINE g == Last(t)
<1>0. Shape /\ Stacks /\ ClaimsOK /\ Exact
  BY DEF OwnersInv
<1>1. Popped(t) /\ frames[t] # <<>> /\ g.guard = "nested"
  BY DEF LeaveNested
<1>2. /\ frames' \in [Threads -> Seq(GuardRecords)] /\ g \in GuardRecords
      /\ IsPush(frames[t], g, frames'[t])
      /\ \A u \in Threads : u # t => frames'[u] = frames[u]
      /\ Len(frames'[t]) < MaxFrames
      /\ \A u \in Threads : Len(frames'[u]) <= MaxFrames
  BY <1>0, <1>1, PopStep
<1>3. /\ nested' = [nested EXCEPT ![t] = g.previous]
      /\ owners' = IF nested[t] /\ ~g.previous
                   THEN [owners EXCEPT ![<<"nested", g.class>>] = Dec(@)]
                   ELSE owners
      /\ UNCHANGED <<top, owns, dedicated, class, claim, inFlight, hostCap, fixedCap>>
      /\ claim[t] = Idle
  BY DEF LeaveNested
<1> HIDE DEF g
<1>4. g.previous \in BOOLEAN /\ g.class \in Classes
  BY <1>1, <1>2, GuardFacts
<1>5. /\ nested' \in [Threads -> BOOLEAN] /\ nested'[t] = g.previous
      /\ \A u \in Threads : u # t => nested'[u] = nested[u]
  BY <1>0, <1>3, <1>4 DEF Shape
<1>6. /\ StackOK(frames'[t], top[t], g.previous, class[t])
      /\ g.class = class[t] /\ nested[t]
  <2>1. /\ StackOK(frames[t], top[t], nested[t], class[t])
        /\ frames[t] \in Seq(GuardRecords) /\ frames'[t] \in Seq(GuardRecords)
    BY <1>0, <1>2 DEF Stacks, Shape
  <2>2. QED
    BY <1>1, <1>2, <2>1, PopNested
<1>7. ASSUME NEW c \in Classes
      PROVE  /\ Cardinality(FlyingIn(frames)) = Cardinality(FlyingIn(frames'))
             /\ Cardinality(InnerIn(frames, owns, c)) = Cardinality(InnerIn(frames', owns', c))
             /\ Cardinality(NestedIn(frames, c)) = Cardinality(NestedIn(frames', c))
                  + (IF g.class = c /\ ~g.previous THEN 1 ELSE 0)
  <2>1. OnePush(frames', owns', frames, owns, t, g)
    BY <1>0, <1>1, <1>2, <1>3 DEF Shape, OnePush
  <2>2. /\ Cardinality(FlyingIn(frames)) = Cardinality(FlyingIn(frames'))
             + (IF g.guard = "top" /\ ~g.dedicated THEN 1 ELSE 0)
        /\ Cardinality(InnerIn(frames, owns, c)) = Cardinality(InnerIn(frames', owns', c))
             + (IF g.guard = "top" /\ g.class = c /\ owns[t] THEN 1 ELSE 0)
        /\ Cardinality(NestedIn(frames, c)) = Cardinality(NestedIn(frames', c))
             + (IF g.guard = "nested" /\ g.class = c /\ ~g.previous THEN 1 ELSE 0)
    BY <2>1, PushCounts
  <2>3. QED
    BY <1>1, <2>2, CountTypes
<1>8. inFlight' \in Nat /\ inFlight' = Cardinality(FlyingIn(frames'))
  BY <1>0, <1>3, <1>4, <1>7 DEF Exact, Shape
<1>9. owners' \in [Slots -> Nat] /\ (\A s \in Slots : owners'[s] <= owners[s])
      /\ \A c \in Classes :
        /\ owners'[<<"inner", c>>] = Cardinality(InnerIn(frames', owns', c))
        /\ owners'[<<"nested", c>>] = Cardinality(NestedIn(frames', c))
  <2>1. CASE g.previous
    BY <1>0, <1>3, <1>7, <2>1, CountTypes DEF Exact, Shape
  <2>2. CASE ~g.previous
    <3>1. <<"nested", g.class>> \in Slots /\ owners \in [Slots -> Nat]
      BY <1>0, <1>4, SlotFacts DEF Shape
    <3>2. owners[<<"nested", g.class>>] > 0
      <4>1. Cardinality(NestedIn(frames, g.class)) = Cardinality(NestedIn(frames', g.class)) + 1
        BY <1>4, <1>7, <2>2
      <4>2. owners[<<"nested", g.class>>] = Cardinality(NestedIn(frames, g.class))
        BY <1>0, <1>4 DEF Exact
      <4>3. QED
        BY <4>1, <4>2, CountTypes
    <3>3. Dec(owners[<<"nested", g.class>>]) = owners[<<"nested", g.class>>] - 1
      BY <3>1, <3>2 DEF Dec
    <3>4. /\ owners' \in [Slots -> Nat]
          /\ owners'[<<"nested", g.class>>] = owners[<<"nested", g.class>>] - 1
          /\ \A s \in Slots : s # <<"nested", g.class>> => owners'[s] = owners[s]
      BY <1>3, <1>6, <2>2, <3>1, <3>2, <3>3
    <3>5. ASSUME NEW c \in Classes
          PROVE  /\ owners'[<<"inner", c>>] = Cardinality(InnerIn(frames', owns', c))
                 /\ owners'[<<"nested", c>>] = Cardinality(NestedIn(frames', c))
      <4>1. owners'[<<"inner", c>>] = owners[<<"inner", c>>]
        BY <3>4, SlotFacts
      <4>2. CASE c = g.class
        BY <1>0, <1>7, <2>2, <3>4, <4>1, <4>2, CountTypes DEF Exact
      <4>3. CASE c # g.class
        <5>1. owners'[<<"nested", c>>] = owners[<<"nested", c>>]
          BY <3>4, <4>3, SlotFacts
        <5>2. QED
          BY <1>0, <1>7, <4>1, <4>3, <5>1, CountTypes DEF Exact
      <4>4. QED
        BY <4>2, <4>3
    <3>6. \A s \in Slots : owners'[s] <= owners[s]
      BY <3>1, <3>2, <3>4
    <3>7. QED
      BY <3>4, <3>5, <3>6
  <2>3. QED
    BY <1>4, <2>1, <2>2
<1>10. Shape'
  BY <1>0, <1>2, <1>3, <1>5, <1>8, <1>9 DEF Shape
<1>11. Stacks'
  BY <1>0, <1>2, <1>3, <1>5, <1>6 DEF Stacks
<1>12. ClaimsOK'
  BY <1>0, <1>2, <1>3, <1>5 DEF ClaimsOK
<1>13. Exact'
  BY <1>8, <1>9 DEF Exact
<1>14. QED
  BY <1>9, <1>10, <1>11, <1>12, <1>13 DEF OwnersInv
\* A nested guard is pushed: what does not depend on how the slot was had.
LEMMA PushNestedStep ==
  ASSUME OwnersInv, NEW t \in Threads, NEW g \in GuardRecords, Pushed(t, g),
         g.guard = "nested", g.previous = nested[t], g.class = class[t],
         Len(frames[t]) < MaxFrames, owns' = owns
  PROVE  /\ frames' \in [Threads -> Seq(GuardRecords)]
         /\ \A u \in Threads : u # t => frames'[u] = frames[u]
         /\ \A u \in Threads : Len(frames'[u]) <= MaxFrames
         /\ StackOK(frames'[t], top[t], TRUE, class[t])
         /\ \A c \in Classes :
              /\ Cardinality(FlyingIn(frames')) = Cardinality(FlyingIn(frames))
              /\ Cardinality(InnerIn(frames', owns', c)) = Cardinality(InnerIn(frames, owns, c))
              /\ Cardinality(NestedIn(frames', c)) = Cardinality(NestedIn(frames, c))
                   + (IF class[t] = c /\ ~nested[t] THEN 1 ELSE 0)
<1>0. Shape /\ Stacks
  BY DEF OwnersInv
<1>1. /\ frames' \in [Threads -> Seq(GuardRecords)] /\ IsPush(frames'[t], g, frames[t])
      /\ \A u \in Threads : u # t => frames'[u] = frames[u]
      /\ \A u \in Threads : Len(frames'[u]) <= MaxFrames
  BY <1>0, PushStep
<1>2. StackOK(frames'[t], top[t], TRUE, class[t])
  <2>1. /\ frames[t] \in Seq(GuardRecords) /\ frames'[t] \in Seq(GuardRecords)
        /\ StackOK(frames[t], top[t], g.previous, g.class)
    BY <1>0, <1>1 DEF Shape, Stacks
  <2>2. StackOK(frames'[t], top[t], TRUE, g.class)
    BY <1>1, <2>1, PushNested
  <2>3. QED
    BY <2>2
<1>3. ASSUME NEW c \in Classes
      PROVE  /\ Cardinality(FlyingIn(frames')) = Cardinality(FlyingIn(frames))
             /\ Cardinality(InnerIn(frames', owns', c)) = Cardinality(InnerIn(frames, owns, c))
             /\ Cardinality(NestedIn(frames', c)) = Cardinality(NestedIn(frames, c))
                  + (IF class[t] = c /\ ~nested[t] THEN 1 ELSE 0)
  <2>1. OnePush(frames, owns, frames', owns', t, g)
    BY <1>0, <1>1 DEF Shape, OnePush
  <2>2. /\ Cardinality(FlyingIn(frames')) = Cardinality(FlyingIn(frames))
             + (IF g.guard = "top" /\ ~g.dedicated THEN 1 ELSE 0)
        /\ Cardinality(InnerIn(frames', owns', c)) = Cardinality(InnerIn(frames, owns, c))
             + (IF g.guard = "top" /\ g.class = c /\ owns'[t] THEN 1 ELSE 0)
        /\ Cardinality(NestedIn(frames', c)) = Cardinality(NestedIn(frames, c))
             + (IF g.guard = "nested" /\ g.class = c /\ ~g.previous THEN 1 ELSE 0)
    BY <2>1, PushCounts
  <2>3. QED
    BY <2>2, CountTypes
<1>4. QED
  BY <1>1, <1>2, <1>3

LEMMA ReenterKeeps ==
  ASSUME OwnersInv, NEW t \in Threads, ReenterNested(t)
  PROVE  OwnersInv'
<1> DEFINE g == [guard |-> "nested", previous |-> TRUE, class |-> class[t]]
<1>0. Shape /\ Stacks /\ ClaimsOK /\ Exact
  BY DEF OwnersInv
<1>1. /\ Pushed(t, g) /\ Len(frames[t]) < MaxFrames /\ nested[t] /\ claim[t] = Idle
      /\ UNCHANGED <<top, owns, nested, dedicated, class, claim, inFlight, owners,
                     hostCap, fixedCap>>
  BY DEF ReenterNested
<1>2. /\ g \in GuardRecords /\ g.guard = "nested" /\ g.previous = nested[t]
      /\ g.class = class[t] /\ nested[t] = TRUE
  BY <1>0, <1>1 DEF Shape, GuardRecords, NestedGuards
<1> HIDE DEF g
<1>3. /\ frames' \in [Threads -> Seq(GuardRecords)]
      /\ \A u \in Threads : u # t => frames'[u] = frames[u]
      /\ \A u \in Threads : Len(frames'[u]) <= MaxFrames
      /\ StackOK(frames'[t], top[t], TRUE, class[t])
      /\ \A c \in Classes :
           /\ Cardinality(FlyingIn(frames')) = Cardinality(FlyingIn(frames))
           /\ Cardinality(InnerIn(frames', owns', c)) = Cardinality(InnerIn(frames, owns, c))
           /\ Cardinality(NestedIn(frames', c)) = Cardinality(NestedIn(frames, c))
                + (IF class[t] = c /\ ~nested[t] THEN 1 ELSE 0)
  BY <1>1, <1>2, PushNestedStep
<1>4. Shape'
  BY <1>0, <1>1, <1>3 DEF Shape
<1>5. Stacks'
  BY <1>0, <1>1, <1>2, <1>3 DEF Stacks
<1>6. ClaimsOK'
  BY <1>0, <1>1, <1>3 DEF ClaimsOK
<1>7. ASSUME NEW c \in Classes
      PROVE  /\ Cardinality(FlyingIn(frames')) = Cardinality(FlyingIn(frames))
             /\ Cardinality(InnerIn(frames', owns', c)) = Cardinality(InnerIn(frames, owns, c))
             /\ Cardinality(NestedIn(frames', c)) = Cardinality(NestedIn(frames, c))
  BY <1>1, <1>3, CountTypes
<1>8. Exact'
  BY <1>0, <1>1, <1>7, SlotFacts DEF Exact
<1>9. QED
  BY <1>4, <1>5, <1>6, <1>8 DEF OwnersInv

\* The compare-and-swap adds one to the counter of the claim and nothing else.
LEMMA SwapAdds ==
  ASSUME OwnersInv, NEW t \in Threads, Swap(t)
  PROVE  /\ claim[t].kind \in Kinds /\ class[t] \in Classes
         /\ owners' \in [Slots -> Nat]
         /\ owners'[<<claim[t].kind, class[t]>>] = owners[<<claim[t].kind, class[t]>>] + 1
         /\ \A s \in Slots : s # <<claim[t].kind, class[t]>> => owners'[s] = owners[s]
         /\ claim' \in [Threads -> ClaimRecords \cup {Idle}] /\ claim'[t] = Idle
         /\ \A u \in Threads : u # t => claim'[u] = claim[u]
<1>0. Shape
  BY DEF OwnersInv
<1>1. claim[t].kind \in Kinds /\ class[t] \in Classes
  BY <1>0, ClaimFacts DEF Shape, Swap
<1>2. <<claim[t].kind, class[t]>> \in Slots
  BY <1>1, SlotFacts
<1>3. /\ owners' = [owners EXCEPT ![<<claim[t].kind, class[t]>>] = @ + 1]
      /\ claim' = [claim EXCEPT ![t] = Idle]
  BY DEF Swap
<1>4. QED
  BY <1>0, <1>1, <1>2, <1>3 DEF Shape

LEMMA SwapNestedKeeps ==
  ASSUME OwnersInv, NEW t \in Threads, Swap(t), claim[t].kind = "nested"
  PROVE  OwnersInv'
<1> DEFINE g == [guard |-> "nested", previous |-> FALSE, class |-> class[t]]
<1>0. Shape /\ Stacks /\ ClaimsOK /\ Exact
  BY DEF OwnersInv
<1>1. /\ Pushed(t, g) /\ nested' = [nested EXCEPT ![t] = TRUE] /\ claim[t] # Idle
      /\ UNCHANGED <<top, owns, dedicated, class, inFlight, hostCap, fixedCap>>
  BY DEF Swap
<1>2. ~nested[t] /\ nested[t] = FALSE /\ Len(frames[t]) < MaxFrames
  BY <1>0, <1>1 DEF ClaimsOK, Shape
<1>3. g \in GuardRecords /\ g.guard = "nested" /\ g.previous = nested[t] /\ g.class = class[t]
  BY <1>0, <1>2 DEF Shape, GuardRecords, NestedGuards
<1> HIDE DEF g
<1>4. /\ frames' \in [Threads -> Seq(GuardRecords)]
      /\ \A u \in Threads : u # t => frames'[u] = frames[u]
      /\ \A u \in Threads : Len(frames'[u]) <= MaxFrames
      /\ StackOK(frames'[t], top[t], TRUE, class[t])
      /\ \A c \in Classes :
           /\ Cardinality(FlyingIn(frames')) = Cardinality(FlyingIn(frames))
           /\ Cardinality(InnerIn(frames', owns', c)) = Cardinality(InnerIn(frames, owns, c))
           /\ Cardinality(NestedIn(frames', c)) = Cardinality(NestedIn(frames, c))
                + (IF class[t] = c /\ ~nested[t] THEN 1 ELSE 0)
  BY <1>1, <1>2, <1>3, PushNestedStep
<1>5. /\ class[t] \in Classes /\ owners' \in [Slots -> Nat]
      /\ owners'[<<"nested", class[t]>>] = owners[<<"nested", class[t]>>] + 1
      /\ \A s \in Slots : s # <<"nested", class[t]>> => owners'[s] = owners[s]
      /\ claim' \in [Threads -> ClaimRecords \cup {Idle}] /\ claim'[t] = Idle
      /\ \A u \in Threads : u # t => claim'[u] = claim[u]
  BY SwapAdds
<1>6. /\ nested' \in [Threads -> BOOLEAN] /\ nested'[t] = TRUE
      /\ \A u \in Threads : u # t => nested'[u] = nested[u]
  BY <1>0, <1>1 DEF Shape
<1>7. Shape'
  BY <1>0, <1>1, <1>4, <1>5, <1>6 DEF Shape
<1>8. Stacks'
  BY <1>0, <1>1, <1>4, <1>6 DEF Stacks
<1>9. ClaimsOK'
  BY <1>0, <1>1, <1>4, <1>5, <1>6 DEF ClaimsOK
<1>10. ASSUME NEW c \in Classes
       PROVE  /\ inFlight' = Cardinality(FlyingIn(frames'))
              /\ owners'[<<"inner", c>>] = Cardinality(InnerIn(frames', owns', c))
              /\ owners'[<<"nested", c>>] = Cardinality(NestedIn(frames', c))
  <2>1. owners'[<<"inner", c>>] = owners[<<"inner", c>>]
    BY <1>5, SlotFacts
  <2>2. CASE c = class[t]
    BY <1>0, <1>1, <1>2, <1>4, <1>5, <2>1, <2>2, CountTypes DEF Exact
  <2>3. CASE c # class[t]
    <3>1. owners'[<<"nested", c>>] = owners[<<"nested", c>>]
      BY <1>5, <2>3, SlotFacts
    <3>2. QED
      BY <1>0, <1>1, <1>4, <2>1, <2>3, <3>1, CountTypes DEF Exact
  <2>4. QED
    BY <2>2, <2>3
<1>11. Exact'
  BY <1>10, SlotFacts DEF Exact
<1>12. QED
  BY <1>7, <1>8, <1>9, <1>11 DEF OwnersInv

LEMMA SwapInnerKeeps ==
  ASSUME OwnersInv, NEW t \in Threads, Swap(t), claim[t].kind = "inner"
  PROVE  OwnersInv'
<1>0. Shape /\ Stacks /\ ClaimsOK /\ Exact
  BY DEF OwnersInv
<1>1. /\ owns' = [owns EXCEPT ![t] = TRUE] /\ claim[t] # Idle
      /\ UNCHANGED <<frames, nested, top, dedicated, class, inFlight, hostCap, fixedCap>>
  BY DEF Swap
<1>2. top[t] /\ ~owns[t]
  BY <1>0, <1>1 DEF ClaimsOK
<1>3. /\ owns' \in [Threads -> BOOLEAN] /\ owns'[t]
      /\ \A u \in Threads : u # t => owns'[u] = owns[u]
  BY <1>0, <1>1 DEF Shape
<1>4. /\ class[t] \in Classes /\ owners' \in [Slots -> Nat]
      /\ owners'[<<"inner", class[t]>>] = owners[<<"inner", class[t]>>] + 1
      /\ \A s \in Slots : s # <<"inner", class[t]>> => owners'[s] = owners[s]
      /\ claim' \in [Threads -> ClaimRecords \cup {Idle}] /\ claim'[t] = Idle
      /\ \A u \in Threads : u # t => claim'[u] = claim[u]
  BY SwapAdds
<1>5. StackOK(frames[t], top[t], nested[t], class[t])
  BY <1>0 DEF Stacks
<1>6. PICK n \in 1..Len(frames[t]) : Innermost(frames[t], Len(frames[t]), n)
  BY <1>2, <1>5 DEF StackOK
<1>7. frames[t][n].class = class[t]
  BY <1>5 DEF StackOK, GuardOK
<1>8. ASSUME NEW c \in Classes
      PROVE  Cardinality(InnerIn(frames, owns', c)) = Cardinality(InnerIn(frames, owns, c))
               + (IF class[t] = c THEN 1 ELSE 0)
  <2>1. /\ frames \in [Threads -> Seq(GuardRecords)] /\ owns \in [Threads -> BOOLEAN]
        /\ Len(frames[t]) <= MaxFrames
    BY <1>0 DEF Shape
  <2>2. Cardinality(InnerIn(frames, owns', c)) = Cardinality(InnerIn(frames, owns, c))
               + (IF frames[t][n].class = c THEN 1 ELSE 0)
    BY <1>2, <1>3, <1>6, <2>1, OwnCounts, ZenonT(30)
  <2>3. QED
    BY <1>7, <2>2
<1>9. Shape'
  BY <1>0, <1>1, <1>3, <1>4 DEF Shape
<1>10. Stacks'
  BY <1>0, <1>1 DEF Stacks
<1>11. ClaimsOK'
  BY <1>0, <1>1, <1>3, <1>4 DEF ClaimsOK
<1>12. ASSUME NEW c \in Classes
       PROVE  /\ inFlight' = Cardinality(FlyingIn(frames'))
              /\ owners'[<<"inner", c>>] = Cardinality(InnerIn(frames', owns', c))
              /\ owners'[<<"nested", c>>] = Cardinality(NestedIn(frames', c))
  <2>1. /\ owners'[<<"nested", c>>] = owners[<<"nested", c>>]
        /\ frames' = frames /\ inFlight' = inFlight
    BY <1>1, <1>4, SlotFacts
  <2>2. CASE c = class[t]
    BY <1>0, <1>4, <1>8, <2>1, <2>2, CountTypes DEF Exact
  <2>3. CASE c # class[t]
    <3>1. owners'[<<"inner", c>>] = owners[<<"inner", c>>]
      BY <1>4, <2>3, SlotFacts
    <3>2. QED
      BY <1>0, <1>8, <2>1, <2>3, <3>1, CountTypes DEF Exact
  <2>4. QED
    BY <2>2, <2>3
<1>13. Exact'
  BY <1>12, SlotFacts DEF Exact
<1>14. QED
  BY <1>9, <1>10, <1>11, <1>13 DEF OwnersInv
\* The caps are numbers, and at least one.
LEMMA CapTypes ==
  ASSUME Shape, NEW k \in Kinds, NEW c \in Classes
  PROVE  Cap(k, c) \in 1..WordMax /\ ForegroundCap(k) \in 1..WordMax
<1>1. /\ hostCap[<<k, "foreground">>] \in 0..WordMax
      /\ hostCap[<<k, "background">>] \in 0..WordMax
      /\ fixedCap[k] \in 0..WordMax /\ PoolCap[k] \in 1..WordMax
  BY OwnersAssumption, SlotFacts DEF Shape
<1>2. QED
  BY <1>1, OwnersAssumption DEF Cap, ForegroundCap, BackgroundCap

CapsTyped == \A k \in Kinds, c \in Classes : Cap(k, c) \in 1..WordMax

LEMMA CapTypesNow == Shape => CapsTyped
BY CapTypes DEF CapsTyped

LEMMA CapTypesNext ==
  Shape' => \A k \in Kinds, c \in Classes : Cap(k, c)' \in 1..WordMax
<1>1. Shape' => CapsTyped'
  BY CapTypesNow, PTL
<1>2. QED
  BY <1>1 DEF CapsTyped

\* A load, a failed swap and giving up change only the claim (and fix a cap).
LEMMA ClaimStepKeeps ==
  ASSUME OwnersInv, NEW t \in Threads,
         \/ AskInner(t) \/ AskNested(t) \/ SwapFails(t) \/ StaySerial(t)
  PROVE  OwnersInv'
<1>0. Shape /\ Stacks /\ ClaimsOK /\ Exact
  BY DEF OwnersInv
<1>1. UNCHANGED <<frames, top, owns, nested, dedicated, class, inFlight, owners, hostCap>>
  BY DEF AskInner, AskNested, SwapFails, StaySerial, Load, locals
<1>2. ASSUME NEW k \in Kinds, Load(t, k)
      PROVE  /\ claim' \in [Threads -> ClaimRecords \cup {Idle}]
             /\ \A u \in Threads : u # t => claim'[u] = claim[u]
             /\ claim'[t].kind = k
             /\ fixedCap' \in [Kinds -> 0..WordMax]
  <2>1. Cap(k, class[t]) \in 1..WordMax /\ ForegroundCap(k) \in 1..WordMax
    BY <1>0, CapTypes DEF Shape
  <2>2. owners[<<k, class[t]>>] \in Nat
    BY <1>0, SlotFacts DEF Shape
  <2> DEFINE r == [kind |-> k, limit |-> Cap(k, class[t]), seen |-> owners[<<k, class[t]>>]]
  <2>3. r \in ClaimRecords /\ r.kind = k
    BY <2>1, <2>2 DEF ClaimRecords
  <2>4. claim' = [claim EXCEPT ![t] = r]
    BY <1>2 DEF Load
  <2> HIDE DEF r
  <2>5. fixedCap' \in [Kinds -> 0..WordMax]
    BY <1>0, <1>2, <2>1, OwnersAssumption DEF Load, Shape
  <2>6. QED
    BY <1>0, <2>3, <2>4, <2>5 DEF Shape
<1>3. CASE AskInner(t)
  <2>1. Load(t, "inner") /\ top[t] /\ ~owns[t]
    BY <1>3 DEF AskInner
  <2>2. "inner" \in Kinds
    BY SlotFacts
  <2>3. Shape' /\ ClaimsOK'
    BY <1>0, <1>1, <1>2, <2>1, <2>2 DEF Shape, ClaimsOK
  <2>4. QED
    BY <1>0, <1>1, <2>3 DEF OwnersInv, Stacks, Exact
<1>4. CASE AskNested(t)
  <2>1. Load(t, "nested") /\ ~nested[t] /\ Len(frames[t]) < MaxFrames
    BY <1>4 DEF AskNested
  <2>2. "nested" \in Kinds
    BY SlotFacts
  <2>3. Shape' /\ ClaimsOK'
    BY <1>0, <1>1, <1>2, <2>1, <2>2 DEF Shape, ClaimsOK
  <2>4. QED
    BY <1>0, <1>1, <2>3 DEF OwnersInv, Stacks, Exact
<1>5. CASE SwapFails(t)
  <2>1. claim[t] # Idle /\ claim[t] \in ClaimRecords /\ claim[t].kind \in Kinds
    BY <1>0, <1>5, ClaimFacts DEF SwapFails, Shape
  <2> DEFINE r == [claim[t] EXCEPT !.seen = owners[<<claim[t].kind, class[t]>>]]
  <2>2. owners[<<claim[t].kind, class[t]>>] \in Nat
    BY <1>0, <2>1, SlotFacts DEF Shape
  <2>3. r \in ClaimRecords /\ r.kind = claim[t].kind
    BY <2>1, <2>2 DEF ClaimRecords
  <2>4. claim' = [claim EXCEPT ![t] = r] /\ fixedCap' = fixedCap
    BY <1>5 DEF SwapFails
  <2> HIDE DEF r
  <2>5. Shape' /\ ClaimsOK'
    BY <1>0, <1>1, <2>1, <2>3, <2>4 DEF Shape, ClaimsOK
  <2>6. QED
    BY <1>0, <1>1, <2>5 DEF OwnersInv, Stacks, Exact
<1>6. CASE StaySerial(t)
  <2>1. claim' = [claim EXCEPT ![t] = Idle] /\ fixedCap' = fixedCap
    BY <1>6 DEF StaySerial
  <2>2. Shape' /\ ClaimsOK'
    BY <1>0, <1>1, <2>1 DEF Shape, ClaimsOK
  <2>3. QED
    BY <1>0, <1>1, <2>2 DEF OwnersInv, Stacks, Exact
<1>7. QED
  BY <1>3, <1>4, <1>5, <1>6

LEMMA MarkKeeps ==
  ASSUME OwnersInv, NEW t \in Threads, MarkBackground(t)
  PROVE  OwnersInv'
<1>0. Shape /\ Stacks /\ ClaimsOK /\ Exact
  BY DEF OwnersInv
<1>1. /\ frames[t] = <<>> /\ claim[t] = Idle
      /\ class' = [class EXCEPT ![t] = "background"]
      /\ UNCHANGED <<frames, top, owns, nested, dedicated, claim, inFlight, owners,
                     hostCap, fixedCap>>
  BY DEF MarkBackground, locals
<1>2. class' \in [Threads -> Classes] /\ \A u \in Threads : u # t => class'[u] = class[u]
  BY <1>0, <1>1 DEF Shape, Classes
<1>3. Shape'
  BY <1>0, <1>1, <1>2 DEF Shape
<1>4. StackOK(frames[t], top[t], nested[t], class'[t])
  <2>1. Len(frames[t]) = 0 /\ StackOK(frames[t], top[t], nested[t], class[t])
    BY <1>0, <1>1 DEF Stacks
  <2>2. QED
    BY <2>1 DEF StackOK
<1>5. Stacks'
  BY <1>0, <1>1, <1>2, <1>4 DEF Stacks
<1>6. ClaimsOK' /\ Exact'
  BY <1>0, <1>1 DEF ClaimsOK, Exact
<1>7. QED
  BY <1>3, <1>5, <1>6 DEF OwnersInv

\* The steps of a run, as the lemmas above need them.
LEMMA OwnersInvNext == ASSUME OwnersInv, [Next]_vars PROVE OwnersInv'
<1>1. ASSUME NEW t \in Threads, ThreadStep(t) PROVE OwnersInv'
  <2>1. ASSUME Swap(t) PROVE claim[t].kind \in {"inner", "nested"}
    BY <2>1, SwapAdds DEF Kinds
  <2>2. QED
    BY <1>1, <2>1, MarkKeeps, EnterKeeps, LeaveTopKeeps, LeaveNestedKeeps, ReenterKeeps,
       ClaimStepKeeps, SwapInnerKeeps, SwapNestedKeeps DEF ThreadStep
<1>2. ASSUME NEW caps \in HostCaps, SetCaps(caps) PROVE OwnersInv'
  <2>1. hostCap' \in [Slots -> 0..WordMax]
    BY <1>2, OwnersAssumption DEF SetCaps
  <2>2. UNCHANGED <<frames, top, owns, nested, dedicated, class, claim, inFlight, owners,
                    fixedCap>>
    BY <1>2 DEF SetCaps, locals
  <2>3. QED
    BY <2>1, <2>2 DEF OwnersInv, Shape, Stacks, ClaimsOK, Exact
<1>3. CASE UNCHANGED vars
  BY <1>3 DEF vars, OwnersInv, Shape, Stacks, ClaimsOK, Exact
<1>4. QED
  BY <1>1, <1>2, <1>3 DEF Next
-----------------------------------------------------------------------------
(* The results.                                                            *)

\* Locals, stacks, claims and counters are consistent in every reachable state.
THEOREM OwnersInvariant == Spec => []OwnersInv
BY OwnersInvInit, OwnersInvNext, PTL DEF Spec

\* For any number of threads and any nesting of guards, each counter is the
\* number of guards that will give a slot of that kind and class back.
THEOREM SlotsAlwaysMatch == Spec => []SlotsMatchGuards
<1>1. OwnersInv => SlotsMatchGuards
  <2> SUFFICES ASSUME OwnersInv PROVE SlotsMatchGuards
    OBVIOUS
  <2>1. FlyingIn(frames) = {g \in Guards("top") : ~frames[g[1]][g[2]].dedicated}
    BY DEF FlyingIn, Places, Flies, Guards
  <2>2. ASSUME NEW c \in Classes
        PROVE  /\ InnerIn(frames, owns, c) =
                    {g \in Guards("top") : frames[g[1]][g[2]].class = c
                              /\ OwnsSlot(frames[g[1]], owns[g[1]], g[2])}
               /\ NestedIn(frames, c) =
                    {g \in Guards("nested") : frames[g[1]][g[2]].class = c
                              /\ ~frames[g[1]][g[2]].previous}
    BY DEF InnerIn, NestedIn, Places, HasInner, HasNested, Guards
  <2>3. QED
    BY <2>1, <2>2 DEF OwnersInv, Exact, SlotsMatchGuards
<1>2. QED
  BY <1>1, OwnersInvariant, PTL

\* A step lowers no cap that a claim or an owner relies on.
LEMMA CapsGrow ==
  ASSUME OwnersInv, [Next]_vars, NEW k \in Kinds, NEW c \in Classes,
         c = "background" \/ fixedCap[k] # 0
  PROVE  Cap(k, c) <= Cap(k, c)' /\ (fixedCap[k] # 0 => fixedCap'[k] # 0)
<1>0. Shape /\ Shape'
  BY OwnersInvNext DEF OwnersInv
<1>1. Cap(k, c) \in 1..WordMax /\ Cap(k, c)' \in 1..WordMax
  BY <1>0, CapTypesNow, CapTypesNext DEF CapsTyped
<1>2. CASE UNCHANGED <<hostCap, fixedCap>>
  <2>1. hostCap' = hostCap /\ fixedCap' = fixedCap
    BY <1>2
  <2>2. Cap(k, c)' = Cap(k, c)
    BY <2>1 DEF Cap, ForegroundCap, BackgroundCap
  <2>3. QED
    BY <1>1, <2>1, <2>2
<1>3. ASSUME NEW t \in Threads, NEW j \in Kinds, Load(t, j)
      PROVE  Cap(k, c) <= Cap(k, c)' /\ (fixedCap[k] # 0 => fixedCap'[k] # 0)
  <2>1. hostCap' = hostCap /\ ForegroundCap(j) \in 1..WordMax
    BY <1>0, <1>3, CapTypes DEF Load
  <2>2. fixedCap[k] # 0 => fixedCap'[k] = fixedCap[k]
    BY <1>0, <1>3 DEF Load, Shape, ForegroundCap
  <2>3. CASE c = "background"
    BY <1>1, <2>1, <2>2, <2>3 DEF Cap, BackgroundCap
  <2>4. CASE c # "background"
    BY <1>1, <2>1, <2>2, <2>4 DEF Cap, ForegroundCap
  <2>5. QED
    BY <2>3, <2>4
<1>4. ASSUME NEW caps \in HostCaps, SetCaps(caps)
      PROVE  Cap(k, c) <= Cap(k, c)' /\ (fixedCap[k] # 0 => fixedCap'[k] # 0)
  <2>1. fixedCap' = fixedCap /\ hostCap[<<k, "background">>] = 0
    BY <1>4, SlotFacts DEF SetCaps
  <2>2. CASE c = "background"
    <3>1. Cap(k, c) = 1
      BY <2>1, <2>2 DEF Cap, BackgroundCap
    <3>2. QED
      BY <1>1, <2>1, <3>1
  <2>3. CASE c # "background"
    BY <1>1, <2>1, <2>3 DEF Cap, ForegroundCap
  <2>4. QED
    BY <2>2, <2>3
<1>5. ASSUME NEW t \in Threads, ThreadStep(t)
      PROVE  \/ UNCHANGED <<hostCap, fixedCap>>
             \/ \E j \in Kinds : Load(t, j)
  BY <1>5, SlotFacts
     DEF ThreadStep, MarkBackground, EnterToplevel, LeaveToplevel, AskInner, ReenterNested,
         AskNested, Swap, SwapFails, StaySerial, LeaveNested
<1>6. CASE UNCHANGED vars
  BY <1>2, <1>6 DEF vars
<1>7. QED
  BY <1>2, <1>3, <1>4, <1>5, <1>6 DEF Next
\* What a step may do to the counters ...
LEMMA OwnersStep ==
  ASSUME OwnersInv, [Next]_vars
  PROVE  (\A s \in Slots : owners'[s] <= owners[s]) \/ \E t \in Threads : Swap(t)
<1>0. owners \in [Slots -> Nat]
  BY DEF OwnersInv, Shape
<1>1. CASE UNCHANGED owners
  BY <1>0, <1>1
<1>2. ASSUME NEW t \in Threads, ThreadStep(t)
      PROVE  \/ UNCHANGED owners
             \/ \A s \in Slots : owners'[s] <= owners[s]
             \/ Swap(t)
  <2>1. CASE LeaveToplevel(t)
    BY <2>1, LeaveTopKeeps
  <2>2. CASE LeaveNested(t)
    BY <2>2, LeaveNestedKeeps
  <2>3. QED
    BY <1>2, <2>1, <2>2
       DEF ThreadStep, MarkBackground, EnterToplevel, AskInner, ReenterNested, AskNested,
           Load, SwapFails, StaySerial
<1>3. ASSUME NEW caps \in HostCaps, SetCaps(caps) PROVE UNCHANGED owners
  BY <1>3 DEF SetCaps
<1>4. QED
  BY <1>1, <1>2, <1>3 DEF Next, vars

\* ... and to a claim under way.
LEMMA ClaimStep ==
  ASSUME OwnersInv, [Next]_vars, NEW t \in Threads
  PROVE  \/ claim'[t] = Idle
         \/ /\ claim[t] # Idle /\ claim'[t].kind = claim[t].kind
            /\ claim'[t].limit = claim[t].limit /\ class'[t] = class[t]
         \/ \E k \in Kinds : Load(t, k)
<1>0. Shape
  BY DEF OwnersInv
<1>1. CASE UNCHANGED <<claim, class>>
  BY <1>1
<1>2. ASSUME NEW u \in Threads, ThreadStep(u)
      PROVE  \/ UNCHANGED <<claim, class>>
             \/ claim'[t] = Idle
             \/ /\ claim[t] # Idle /\ claim'[t].kind = claim[t].kind
                /\ claim'[t].limit = claim[t].limit /\ class'[t] = class[t]
             \/ \E k \in Kinds : Load(t, k)
  <2>1. CASE MarkBackground(u)
    BY <1>0, <2>1 DEF MarkBackground, Shape
  <2>2. CASE AskInner(u) \/ AskNested(u)
    <3>1. PICK k \in Kinds : Load(u, k)
      BY <2>2, SlotFacts DEF AskInner, AskNested
    <3>2. u # t => claim'[t] = claim[t] /\ class'[t] = class[t]
      BY <1>0, <3>1 DEF Load, Shape
    <3>3. QED
      BY <3>1, <3>2
  <2>3. CASE SwapFails(u)
    <3>1. claim[u] # Idle /\ claim[u] \in ClaimRecords
      BY <1>0, <2>3, ClaimFacts DEF SwapFails, Shape
    <3>2. class' = class
      BY <2>3 DEF SwapFails
    <3>3. claim' = [claim EXCEPT ![u] = [claim[u] EXCEPT
                      !.seen = owners[<<claim[u].kind, class[u]>>]]]
      BY <2>3 DEF SwapFails
    <3>4. CASE u = t
      <4>1. claim'[t] = [claim[t] EXCEPT !.seen = owners[<<claim[t].kind, class[t]>>]]
        BY <1>0, <3>3, <3>4 DEF Shape
      <4>2. claim'[t].kind = claim[t].kind /\ claim'[t].limit = claim[t].limit
        BY <3>1, <3>4, <4>1 DEF ClaimRecords
      <4>3. QED
        BY <3>1, <3>2, <3>4, <4>2
    <3>5. CASE u # t
      BY <1>0, <3>2, <3>3, <3>5 DEF Shape
    <3>6. QED
      BY <3>4, <3>5
  <2>4. CASE Swap(u) \/ StaySerial(u)
    <3>1. claim' = [claim EXCEPT ![u] = Idle] /\ class' = class
      BY <2>4 DEF Swap, StaySerial
    <3>2. QED
      BY <1>0, <3>1 DEF Shape
  <2>5. QED
    BY <1>2, <2>1, <2>2, <2>3, <2>4
       DEF ThreadStep, EnterToplevel, LeaveToplevel, ReenterNested, LeaveNested
<1>3. ASSUME NEW caps \in HostCaps, SetCaps(caps) PROVE UNCHANGED <<claim, class>>
  BY <1>3 DEF SetCaps
<1>4. QED
  BY <1>1, <1>2, <1>3 DEF Next, vars

\* However many loops race and whenever the host sets the caps, no class of
\* threads has more owners of a kind than its cap.
THEOREM CapsAlwaysHold == Spec => []CapsHold
<1>1. Init => CapsOK
  <2> SUFFICES ASSUME Init PROVE CapsOK
    OBVIOUS
  <2>1. Shape
    BY OwnersInvInit DEF OwnersInv
  <2>2. \A k \in Kinds, c \in Classes : owners[<<k, c>>] = 0 /\ Cap(k, c) \in 1..WordMax
    BY <2>1, CapTypes, SlotFacts DEF Init
  <2>3. CapsHold
    <3> SUFFICES ASSUME NEW k \in Kinds, NEW c \in Classes
                 PROVE  owners[<<k, c>>] <= Cap(k, c)
      BY DEF CapsHold
    <3>1. owners[<<k, c>>] = 0 /\ Cap(k, c) \in 1..WordMax
      BY <2>2
    <3>2. QED
      BY <3>1
  <2>4. QED
    BY <2>2, <2>3, SlotFacts DEF CapsOK, Init
<1>2. ASSUME OwnersInv, CapsOK, [Next]_vars PROVE CapsOK'
  <2>0. Shape /\ Shape' /\ OwnersInv'
    BY <1>2, OwnersInvNext DEF OwnersInv
  <2>1. ASSUME NEW t \in Threads, NEW k \in Kinds, NEW c \in Classes,
               claim'[t] # Idle, claim'[t].kind = k, class'[t] = c
        PROVE  /\ claim'[t].limit <= Cap(k, c)'
               /\ c = "foreground" => fixedCap'[k] # 0
    <3>1. CASE /\ claim[t] # Idle /\ claim'[t].kind = claim[t].kind
               /\ claim'[t].limit = claim[t].limit /\ class'[t] = class[t]
      <4>1. claim[t].kind = k /\ class[t] = c
        BY <2>1, <3>1
      <4>2. /\ claim[t].limit <= Cap(k, c)
            /\ c = "foreground" => fixedCap[k] # 0
        BY <1>2, <3>1, <4>1 DEF CapsOK
      <4>3. c = "background" \/ fixedCap[k] # 0
        BY <4>2 DEF Classes
      <4>4. Cap(k, c) <= Cap(k, c)' /\ (fixedCap[k] # 0 => fixedCap'[k] # 0)
        BY <1>2, <4>3, CapsGrow
      <4>5. claim[t].limit \in Nat /\ Cap(k, c) \in Int /\ Cap(k, c)' \in Int
        <5>1. Cap(k, c) \in 1..WordMax /\ Cap(k, c)' \in 1..WordMax
          BY <2>0, CapTypesNow, CapTypesNext DEF CapsTyped
        <5>2. claim[t].limit \in 1..WordMax
          BY <2>0, <3>1, ClaimFacts DEF Shape
        <5>3. QED
          BY <5>1, <5>2
      <4>6. claim'[t].limit <= Cap(k, c)'
        BY <3>1, <4>2, <4>4, <4>5
      <4>7. QED
        BY <4>2, <4>4, <4>6
    <3>2. ASSUME NEW j \in Kinds, Load(t, j)
          PROVE  /\ claim'[t].limit <= Cap(k, c)'
                 /\ c = "foreground" => fixedCap'[k] # 0
      <4>1. /\ j = k /\ class[t] = c
            /\ claim'[t].limit = Cap(k, c) /\ hostCap' = hostCap
        BY <2>0, <2>1, <3>2 DEF Load, Shape
      <4>2. Cap(k, c) \in 1..WordMax /\ ForegroundCap(k) \in 1..WordMax
        BY <2>0, CapTypes
      <4>3. c = "foreground" => fixedCap'[k] = ForegroundCap(k)
        BY <2>0, <3>2, <4>1 DEF Load, Shape
      <4>4. Cap(k, c)' = Cap(k, c)
        <5>1. CASE c = "background"
          BY <4>1, <5>1 DEF Cap, BackgroundCap
        <5>2. CASE c = "foreground"
          BY <4>1, <4>2, <4>3, <5>2 DEF Cap, ForegroundCap
        <5>3. QED
          BY <5>1, <5>2 DEF Classes
      <4>5. QED
        BY <4>1, <4>2, <4>3, <4>4
    <3>3. QED
      BY <1>2, <2>1, <3>1, <3>2, ClaimStep
  <2>2. ASSUME NEW t \in Threads, Swap(t)
        PROVE  /\ claim[t].kind \in Kinds /\ class[t] \in Classes
               /\ owners'[<<claim[t].kind, class[t]>>] <= Cap(claim[t].kind, class[t])
               /\ class[t] = "foreground" => fixedCap[claim[t].kind] # 0
               /\ \A s \in Slots : s # <<claim[t].kind, class[t]>> => owners'[s] = owners[s]
    <3>1. /\ claim[t] # Idle /\ claim[t].seen < claim[t].limit
          /\ owners[<<claim[t].kind, class[t]>>] = claim[t].seen
      BY <2>2 DEF Swap
    <3>2. /\ claim[t].limit \in Nat /\ claim[t].seen \in Nat
          /\ claim[t].kind \in Kinds /\ class[t] \in Classes
      BY <2>0, <3>1, ClaimFacts, OwnersAssumption DEF Shape
    <3>3. /\ owners'[<<claim[t].kind, class[t]>>] = owners[<<claim[t].kind, class[t]>>] + 1
          /\ \A s \in Slots : s # <<claim[t].kind, class[t]>> => owners'[s] = owners[s]
      BY <1>2, <2>2, SwapAdds
    <3>4. /\ claim[t].limit <= Cap(claim[t].kind, class[t])
          /\ class[t] = "foreground" => fixedCap[claim[t].kind] # 0
      BY <1>2, <3>1 DEF CapsOK
    <3>5. Cap(claim[t].kind, class[t]) \in Int
      BY <2>0, <3>2, CapTypes
    <3>6. owners'[<<claim[t].kind, class[t]>>] <= Cap(claim[t].kind, class[t])
      BY <3>1, <3>2, <3>3, <3>4, <3>5
    <3>7. QED
      BY <3>2, <3>3, <3>4, <3>6
  <2>3. ASSUME NEW k \in Kinds
        PROVE  fixedCap[k] = 0 => owners'[<<k, "foreground">>] = 0
    <3>1. fixedCap[k] = 0 => owners[<<k, "foreground">>] = 0
      BY <1>2 DEF CapsOK
    <3>2. <<k, "foreground">> \in Slots /\ owners'[<<k, "foreground">>] \in Nat
      BY <2>0, SlotFacts DEF Shape
    <3>3. CASE \A s \in Slots : owners'[s] <= owners[s]
      BY <3>1, <3>2, <3>3
    <3>4. ASSUME NEW t \in Threads, Swap(t)
          PROVE  fixedCap[k] = 0 => owners'[<<k, "foreground">>] = 0
      <4>1. fixedCap[k] = 0 => <<k, "foreground">> # <<claim[t].kind, class[t]>>
        BY <2>2, <3>4
      <4>2. QED
        BY <2>2, <3>1, <3>2, <3>4, <4>1
    <3>5. QED
      BY <1>2, <3>3, <3>4, OwnersStep
  <2>4. ASSUME NEW k \in Kinds
        PROVE  fixedCap'[k] = 0 => owners'[<<k, "foreground">>] = 0
    <3>1. fixedCap[k] # 0 => fixedCap'[k] # 0
      BY <1>2, CapsGrow, SlotFacts
    <3>2. QED
      BY <2>3, <3>1
  <2>5. ASSUME NEW k \in Kinds, NEW c \in Classes
        PROVE  owners'[<<k, c>>] <= Cap(k, c)'
    <3>1. /\ Cap(k, c) \in Nat /\ Cap(k, c)' \in Nat /\ <<k, c>> \in Slots
          /\ owners[<<k, c>>] \in Nat /\ owners'[<<k, c>>] \in Nat
      <4>1. Cap(k, c) \in 1..WordMax /\ Cap(k, c)' \in 1..WordMax
        BY <2>0, CapTypesNow, CapTypesNext DEF CapsTyped
      <4>2. QED
        BY <2>0, <4>1, SlotFacts DEF Shape
    <3>2. CASE c = "foreground" /\ fixedCap[k] = 0
      BY <2>3, <3>1, <3>2
    <3>3. CASE c = "background" \/ fixedCap[k] # 0
      <4>1. Cap(k, c) <= Cap(k, c)'
        BY <1>2, <3>3, CapsGrow
      <4>2. owners[<<k, c>>] <= Cap(k, c)
        BY <1>2 DEF CapsOK, CapsHold
      <4>3. CASE \A s \in Slots : owners'[s] <= owners[s]
        BY <3>1, <4>1, <4>2, <4>3
      <4>4. ASSUME NEW t \in Threads, Swap(t) PROVE owners'[<<k, c>>] <= Cap(k, c)
        <5>1. CASE <<k, c>> = <<claim[t].kind, class[t]>>
          BY <2>2, <4>4, <5>1
        <5>2. CASE <<k, c>> # <<claim[t].kind, class[t]>>
          BY <2>2, <3>1, <4>2, <4>4, <5>2
        <5>3. QED
          BY <5>1, <5>2
      <4>5. QED
        BY <1>2, <3>1, <4>1, <4>3, <4>4, OwnersStep
    <3>4. QED
      BY <3>2, <3>3 DEF Classes
  <2>6. ASSUME NEW t \in Threads, claim'[t] # Idle
        PROVE  /\ claim'[t].limit <= Cap(claim[t].kind, class[t])'
               /\ class'[t] = "foreground" => fixedCap'[claim'[t].kind] # 0
    <3>1. claim'[t].kind \in Kinds /\ class'[t] \in Classes
      BY <2>0, <2>6, ClaimFacts DEF Shape
    <3>2. PICK k \in Kinds, c \in Classes : claim'[t].kind = k /\ class'[t] = c
      BY <3>1
    <3>3. Cap(claim[t].kind, class[t])' = Cap(k, c)'
      BY <3>2 DEF Cap, ForegroundCap, BackgroundCap
    <3>4. QED
      BY <2>1, <2>6, <3>2, <3>3
  <2>7. CapsHold'
    BY <2>5 DEF CapsHold
  <2>8. QED
    BY <2>4, <2>6, <2>7 DEF CapsOK
<1>3. CapsOK => CapsHold
  BY DEF CapsOK
<1>4. QED
  BY <1>1, <1>2, <1>3, OwnersInvariant, PTL DEF Spec

-----------------------------------------------------------------------------
(* The types.                                                              *)

OwnersFit == \A s \in Slots : owners[s] \in 0..WordMax

LEMMA CappedFits == ASSUME OwnersInv, CapsHold PROVE OwnersFit
<1> SUFFICES ASSUME NEW s \in Slots PROVE owners[s] \in 0..WordMax
  BY DEF OwnersFit
<1>1. PICK k \in Kinds, c \in Classes : s = <<k, c>>
  BY DEF Slots
<1>2. Cap(k, c) \in 1..WordMax /\ owners[<<k, c>>] <= Cap(k, c)
  BY CapTypes DEF OwnersInv, CapsHold
<1>3. owners[s] \in Nat /\ WordMax \in Nat
  BY OwnersAssumption DEF OwnersInv, Shape
<1>4. QED
  BY <1>1, <1>2, <1>3

\* What a claim has seen is what a counter was.
SeenFit == \A t \in Threads : claim[t] # Idle => claim[t].seen \in 0..WordMax

LEMMA SeenStays ==
  ASSUME OwnersInv, OwnersFit, SeenFit, [Next]_vars
  PROVE  SeenFit'
<1>0. Shape
  BY DEF OwnersInv
<1> SUFFICES ASSUME NEW t \in Threads, claim'[t] # Idle PROVE claim'[t].seen \in 0..WordMax
  BY DEF SeenFit
<1>1. CASE claim'[t] = claim[t]
  BY <1>1 DEF SeenFit
<1>2. ASSUME NEW k \in Kinds, Load(t, k) PROVE claim'[t].seen \in 0..WordMax
  <2>1. <<k, class[t]>> \in Slots
    BY <1>0 DEF Shape, Slots
  <2>2. claim'[t].seen = owners[<<k, class[t]>>]
    BY <1>0, <1>2 DEF Load, Shape
  <2>3. QED
    BY <2>1, <2>2 DEF OwnersFit
<1>3. ASSUME SwapFails(t) PROVE claim'[t].seen \in 0..WordMax
  <2>1. claim[t] # Idle
    BY <1>3 DEF SwapFails
  <2>2. claim[t] \in ClaimRecords /\ claim[t].kind \in Kinds
    BY <1>0, <2>1, ClaimFacts DEF Shape
  <2>3. <<claim[t].kind, class[t]>> \in Slots
    BY <1>0, <2>2 DEF Shape, Slots
  <2>4. claim'[t] = [claim[t] EXCEPT !.seen = owners[<<claim[t].kind, class[t]>>]]
    BY <1>0, <1>3 DEF SwapFails, Shape
  <2>5. claim'[t].seen = owners[<<claim[t].kind, class[t]>>]
    BY <2>2, <2>4 DEF ClaimRecords
  <2>6. QED
    BY <2>3, <2>5 DEF OwnersFit
<1>4. ASSUME NEW u \in Threads, ThreadStep(u)
      PROVE  \/ claim'[t] = claim[t]
             \/ claim'[t] = Idle
             \/ \E k \in Kinds : Load(t, k)
             \/ SwapFails(t)
  <2>1. CASE AskInner(u) \/ AskNested(u)
    <3>1. PICK k \in Kinds : Load(u, k)
      BY <2>1, SlotFacts DEF AskInner, AskNested
    <3>2. u # t => claim'[t] = claim[t]
      BY <1>0, <3>1 DEF Load, Shape
    <3>3. QED
      BY <3>1, <3>2
  <2>2. CASE SwapFails(u)
    <3>1. u # t => claim'[t] = claim[t]
      BY <1>0, <2>2 DEF SwapFails, Shape
    <3>2. QED
      BY <2>2, <3>1
  <2>3. CASE Swap(u) \/ StaySerial(u)
    <3>1. claim' = [claim EXCEPT ![u] = Idle]
      BY <2>3 DEF Swap, StaySerial
    <3>2. QED
      BY <1>0, <3>1 DEF Shape
  <2>4. QED
    BY <1>4, <2>1, <2>2, <2>3
       DEF ThreadStep, MarkBackground, EnterToplevel, LeaveToplevel, ReenterNested, LeaveNested
<1>5. ASSUME NEW caps \in HostCaps, SetCaps(caps) PROVE claim' = claim
  BY <1>5 DEF SetCaps
<1>6. QED
  BY <1>1, <1>2, <1>3, <1>4, <1>5 DEF Next, vars

\* Nothing wraps: where the guards that fit on all threads fit in a word, every
\* counter, cap and value seen by a compare-and-swap does, in every reachable
\* state, although a guard's drop is a plain fetch_sub.
THEOREM OwnersTypes ==
  ASSUME Cardinality(Threads) * MaxFrames <= WordMax
  PROVE  Spec => []TypeOK
<1>1. Init => SeenFit
  BY DEF Init, SeenFit
<1>2. OwnersInv /\ CapsHold /\ SeenFit /\ [Next]_vars => SeenFit'
  BY CappedFits, SeenStays
<1>3. OwnersInv => inFlight <= WordMax
  <2> SUFFICES ASSUME OwnersInv PROVE inFlight <= WordMax
    OBVIOUS
  <2>1. IsFiniteSet(1..MaxFrames) /\ Cardinality(1..MaxFrames) = MaxFrames
    BY OwnersAssumption, FS_Interval
  <2>2. IsFiniteSet(Places) /\ Cardinality(Places) = Cardinality(Threads) * MaxFrames
    BY <2>1, OwnersAssumption, FS_Product DEF Places
  <2>3. FlyingIn(frames) \subseteq Places
    BY DEF FlyingIn
  <2>4. Cardinality(FlyingIn(frames)) <= Cardinality(Places)
    BY <2>2, <2>3, FS_Subset
  <2>5. inFlight = Cardinality(FlyingIn(frames)) /\ inFlight \in Nat
    BY DEF OwnersInv, Exact, Shape
  <2>6. Cardinality(Places) \in Nat
    BY <2>2, FS_CardinalityType
  <2>7. Cardinality(Places) <= WordMax
    BY <2>2
  <2>8. QED
    BY <2>4, <2>5, <2>6, <2>7, OwnersAssumption
<1>4. OwnersInv /\ CapsHold /\ SeenFit => TypeOK
  <2> SUFFICES ASSUME OwnersInv, CapsHold, SeenFit PROVE TypeOK
    OBVIOUS
  <2>1. Shape
    BY DEF OwnersInv
  <2>2. inFlight \in 0..WordMax
    BY <1>3, <2>1, OwnersAssumption DEF Shape
  <2>3. owners \in [Slots -> 0..WordMax]
    BY <2>1, CappedFits DEF Shape, OwnersFit
  <2>4. claim \in [Threads -> Claims \cup {Idle}]
    <3>1. ASSUME NEW t \in Threads PROVE claim[t] \in Claims \cup {Idle}
      <4>1. CASE claim[t] # Idle
        <5>1. claim[t] \in ClaimRecords /\ claim[t].seen \in 0..WordMax
          BY <2>1, <4>1 DEF Shape, SeenFit
        <5>2. QED
          BY <5>1 DEF ClaimRecords, Claims
      <4>2. QED
        BY <4>1
    <3>2. QED
      BY <2>1, <3>1 DEF Shape
  <2>5. QED
    BY <2>1, <2>2, <2>3, <2>4 DEF Shape, TypeOK, GuardRecords
<1>5. QED
  BY <1>1, <1>2, <1>4, OwnersInvariant, CapsAlwaysHold, PTL DEF Spec

=============================================================================
