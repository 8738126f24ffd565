---------------------------- MODULE PgStoreProofs ----------------------------
(***************************************************************************)
(* Transactions on Postgres that interleave statement by statement keep    *)
(* the log and the rows together and implement AtomicStore, for any number *)
(* of sessions, tasks, workers and tries.                                  *)
(***************************************************************************)
EXTENDS PgInvariant, SequenceTheorems, FiniteSetTheorems, NaturalsInduction, WellFoundedInduction, TLAPS

-----------------------------------------------------------------------------
\* Induction over the natural numbers, for a set of them.
LEMMA SetInduction ==
    ASSUME NEW S \in SUBSET Nat, 0 \in S, \A n \in S : n + 1 \in S
    PROVE  \A n \in Nat : n \in S
<1> SUFFICES ASSUME Nat \ S # {} PROVE FALSE
  OBVIOUS
<1> DEFINE R == {p \in Nat \X Nat : p[1] < p[2]}
<1>1. IsWellFoundedOn(R, Nat)
  BY NatLessThanWellFounded DEF OpToRel
<1>2. PICK m \in Nat \ S : \A k \in Nat \ S : ~(<<k, m>> \in R)
  <2> HIDE DEF R
  <2> QED BY <1>1, WFMin
<1>3. \A k \in Nat \ S : ~(k < m)
  BY <1>2
<1>4. m # 0
  OBVIOUS
<1>5. m - 1 \in Nat /\ m - 1 < m /\ (m - 1) + 1 = m
  BY <1>4
<1>6. m - 1 \in S
  BY <1>3, <1>5
<1> QED BY <1>5, <1>6

\* The operator that chooses the order of a fold.
LEMMA MaxFacts ==
    ASSUME NEW n \in Nat, NEW S \in SUBSET (1..n), S # {}
    PROVE  Max(S) \in S /\ \A i \in S : i <= Max(S)
<1> DEFINE M == {k \in Nat : k <= n => \A T \in SUBSET (1..k) : T # {} => \E i \in T : \A j \in T : i >= j}
<1>1. 0 \in M
  <2>1. \A T \in SUBSET (1..0) : T = {}
    OBVIOUS
  <2> QED BY <2>1
<1>2. ASSUME NEW k \in M PROVE k + 1 \in M
  <2> SUFFICES ASSUME k + 1 <= n, NEW T \in SUBSET (1..(k + 1)), T # {}
               PROVE  \E i \in T : \A j \in T : i >= j
    OBVIOUS
  <2>1. CASE k + 1 \in T
    BY <2>1
  <2>2. CASE k + 1 \notin T
    BY <2>2, T \in SUBSET (1..k)
  <2> QED BY <2>1, <2>2
<1>3. \A k \in Nat : k \in M
  <2> HIDE DEF M
  <2>1. M \in SUBSET Nat
    BY DEF M
  <2> QED BY <1>1, <1>2, <2>1, SetInduction
<1>4. \E i \in S : \A j \in S : i >= j
  <2>1. n \in M /\ n <= n
    BY <1>3
  <2>2. \A T \in SUBSET (1..n) : T # {} => \E i \in T : \A j \in T : i >= j
    BY <2>1
  <2> HIDE DEF M
  <2> QED BY <2>2
<1>5. Max(S) \in S /\ \A j \in S : Max(S) >= j
  BY <1>4 DEF Max
<1> QED BY <1>5

(***************************************************************************)
(* Replay is a fold: g gives for the set of the first k positions the      *)
(* state after k events.                                                   *)
(***************************************************************************)
IsFold(u, g, s, n) ==
    g = [S \in SUBSET (1..n) |->
           IF S = {} THEN Unscheduled ELSE ReplayFor(u, g[S \ {Max(S)}], s[Max(S)])]

\* The definition of FoldLeft, with its operators put in place.
LEMMA FoldUnfolded ==
    ASSUME NEW u, NEW s, NEW n, DOMAIN s = 1..n
    PROVE  Derived(s, u) = (CHOOSE g : IsFold(u, g, s, n))[1..n]
BY DEF Derived, FoldLeft, MapThenFoldSet, IsFold

\* There is such a function.
LEMMA FoldExists ==
    ASSUME NEW u, NEW s, NEW n \in Nat
    PROVE  \E g : IsFold(u, g, s, n)
<1> DEFINE K == {k \in Nat : \E g : IsFold(u, g, s, k)}
<1>1. 0 \in K
  <2> DEFINE g == [S \in SUBSET (1..0) |-> Unscheduled]
  <2>1. \A S \in SUBSET (1..0) : S = {}
    OBVIOUS
  <2>2. IsFold(u, g, s, 0)
    BY <2>1 DEF IsFold
  <2> QED BY <2>2
<1>2. ASSUME NEW k \in K PROVE k + 1 \in K
  <2>1. PICK g : IsFold(u, g, s, k)
    OBVIOUS
  <2> DEFINE F(S) == IF S = {} THEN Unscheduled ELSE ReplayFor(u, g[S \ {Max(S)}], s[Max(S)])
             h == [S \in SUBSET (1..(k + 1)) |-> F(S)]
  <2>2. \A S \in SUBSET (1..k) : S \in SUBSET (1..(k + 1)) /\ g[S] = F(S)
    <3>1. k \in Nat /\ 1..k \subseteq 1..(k + 1)
      OBVIOUS
    <3>2. \A S \in SUBSET (1..k) : g[S] = F(S)
      BY <2>1, Zenon DEF IsFold
    <3> QED BY <3>1, <3>2
  <2>3. \A S \in SUBSET (1..k) : h[S] = g[S]
    BY <2>2
  <2>4. ASSUME NEW S \in SUBSET (1..(k + 1)), S # {} PROVE S \ {Max(S)} \in SUBSET (1..k)
    <3>1. Max(S) \in S /\ \A i \in S : i <= Max(S)
      <4>1. k + 1 \in Nat
        OBVIOUS
      <4> HIDE DEF h, K
      <4> QED BY <2>4, <4>1, MaxFacts
    <3>2. ASSUME NEW i \in S \ {Max(S)} PROVE i \in 1..k
      <4>1. i \in 1..(k + 1) /\ i <= Max(S) /\ i # Max(S) /\ Max(S) \in 1..(k + 1) /\ k \in Nat
        BY <3>1
      <4> HIDE DEF h, K
      <4> QED BY <4>1
    <3> QED BY <3>2
  <2>5. \A S \in SUBSET (1..(k + 1)) :
           h[S] = IF S = {} THEN Unscheduled ELSE ReplayFor(u, h[S \ {Max(S)}], s[Max(S)])
    BY <2>3, <2>4
  <2>6. h = [S \in SUBSET (1..(k + 1)) |-> h[S]]
    OBVIOUS
  <2> HIDE DEF h
  <2>7. IsFold(u, h, s, k + 1)
    BY <2>5, <2>6 DEF IsFold
  <2> QED BY <2>7
<1> HIDE DEF K
<1>3. K \in SUBSET Nat
  BY DEF K
<1>4. n \in K
  BY <1>1, <1>2, <1>3, SetInduction
<1> QED BY <1>4 DEF K

\* Prefix by prefix.
LEMMA FoldPrefix ==
    ASSUME NEW u, NEW s, NEW n \in Nat, NEW g, IsFold(u, g, s, n)
    PROVE  /\ g[1..0] = Unscheduled
           /\ \A k \in 1..n : g[1..k] = ReplayFor(u, g[1..(k - 1)], s[k])
<1>1. g[1..0] = Unscheduled
  <2>1. 1..0 = {}
    OBVIOUS
  <2> QED BY <2>1 DEF IsFold
<1>2. ASSUME NEW k \in 1..n PROVE g[1..k] = ReplayFor(u, g[1..(k - 1)], s[k])
  <2>1. 1..k \in SUBSET (1..n) /\ 1..k # {}
    OBVIOUS
  <2>2. Max(1..k) \in 1..k /\ \A i \in 1..k : i <= Max(1..k)
    BY <2>1, MaxFacts
  <2>3. Max(1..k) = k
    <3>1. k \in 1..k
      OBVIOUS
    <3>2. k <= Max(1..k)
      BY <2>2, <3>1
    <3> QED BY <2>2, <3>2
  <2>4. (1..k) \ {k} = 1..(k - 1)
    OBVIOUS
  <2>5. g[1..k] = ReplayFor(u, g[(1..k) \ {Max(1..k)}], s[Max(1..k)])
    BY <2>1 DEF IsFold
  <2> QED BY <2>3, <2>4, <2>5
<1> QED BY <1>1, <1>2

\* A replay is a value of it.
LEMMA FoldValue ==
    ASSUME NEW S, NEW s \in Seq(S), NEW u
    PROVE  \E g : IsFold(u, g, s, Len(s)) /\ Derived(s, u) = g[1..Len(s)]
<1>1. Len(s) \in Nat /\ DOMAIN s = 1..Len(s)
  BY LenProperties
<1>2. Derived(s, u) = (CHOOSE g : IsFold(u, g, s, Len(s)))[1..Len(s)]
  BY <1>1, FoldUnfolded
<1>3. IsFold(u, CHOOSE g : IsFold(u, g, s, Len(s)), s, Len(s))
  BY <1>1, FoldExists
<1> QED BY <1>2, <1>3

\* No event leaves the state, and one more event is applied last.
LEMMA DerivedEmpty == \A u : Derived(<<>>, u) = Unscheduled
<1> SUFFICES ASSUME NEW u PROVE Derived(<<>>, u) = Unscheduled
  OBVIOUS
<1>1. <<>> \in Seq({}) /\ Len(<<>>) = 0
  BY EmptySeq
<1>2. PICK g : IsFold(u, g, <<>>, 0) /\ Derived(<<>>, u) = g[1..0]
  BY <1>1, FoldValue
<1>3. ASSUME NEW s, NEW f, IsFold(u, f, s, 0) PROVE f[1..0] = Unscheduled
  <2>1. 1..0 = {}
    OBVIOUS
  <2> QED BY <1>3, <2>1 DEF IsFold
<1> QED BY <1>2, <1>3, Zenon

LEMMA FoldAppend ==
    ASSUME NEW S, NEW s \in Seq(S), NEW e \in S, NEW u
    PROVE  Derived(Append(s, e), u) = ReplayFor(u, Derived(s, u), e)
<1> DEFINE n == Len(s)
           t == Append(s, e)
<1>1. n \in Nat /\ t \in Seq(S) /\ Len(t) = n + 1 /\ t[n + 1] = e
  BY AppendProperties, LenProperties
<1>2. \A k \in 1..n : t[k] = s[k]
  BY AppendProperties
<1>3. PICK g : IsFold(u, g, s, n) /\ Derived(s, u) = g[1..n]
  BY FoldValue
<1>4. PICK h : IsFold(u, h, t, n + 1) /\ Derived(t, u) = h[1..(n + 1)]
  <2> HIDE DEF t
  <2> QED BY <1>1, FoldValue
<1> HIDE DEF n, t
<1>5. /\ g[1..0] = Unscheduled
      /\ \A k \in 1..n : g[1..k] = ReplayFor(u, g[1..(k - 1)], s[k])
  BY <1>1, <1>3, FoldPrefix
<1>6. /\ h[1..0] = Unscheduled
      /\ \A k \in 1..(n + 1) : h[1..k] = ReplayFor(u, h[1..(k - 1)], t[k])
  BY <1>1, <1>4, FoldPrefix
<1> DEFINE K == {k \in Nat : k <= n => h[1..k] = g[1..k]}
<1>7. 0 \in K
  BY <1>5, <1>6
<1>8. ASSUME NEW k \in K PROVE k + 1 \in K
  <2> SUFFICES ASSUME k + 1 <= n PROVE h[1..(k + 1)] = g[1..(k + 1)]
    OBVIOUS
  <2>1. k + 1 \in 1..n /\ k + 1 \in 1..(n + 1) /\ (k + 1) - 1 = k /\ k <= n
    BY <1>1
  <2>2. h[1..k] = g[1..k]
    BY <2>1
  <2>3. h[1..(k + 1)] = ReplayFor(u, h[1..k], t[k + 1])
    BY <1>6, <2>1
  <2>4. g[1..(k + 1)] = ReplayFor(u, g[1..k], s[k + 1])
    BY <1>5, <2>1
  <2> QED BY <1>2, <2>1, <2>2, <2>3, <2>4
<1>9. K \in SUBSET Nat
  OBVIOUS
<1>10. h[1..n] = g[1..n]
  <2>1. n \in K
    <3> HIDE DEF K
    <3> QED BY <1>1, <1>7, <1>8, <1>9, SetInduction
  <2> QED BY <1>1, <2>1
<1>11. n + 1 \in 1..(n + 1) /\ (n + 1) - 1 = n
  BY <1>1
<1>12. h[1..(n + 1)] = ReplayFor(u, h[1..n], t[n + 1])
  BY <1>6, <1>11
<1> QED BY <1>1, <1>3, <1>4, <1>10, <1>12 DEF t
-----------------------------------------------------------------------------
(***************************************************************************)
(* What replay makes of the entries that an operation appends.             *)
(***************************************************************************)
LEMMA EntryFacts ==
    ASSUME NEW type \in EntryType, NEW t \in Task \cup {None}, NEW w \in Worker \cup {None}
    PROVE  /\ NewEntry(type, t, w) \in Entry
           /\ <<NewEntry(type, t, w)>> \in Seq(Entry)
           /\ Len(<<NewEntry(type, t, w)>>) = 1
           /\ NewEntry(type, t, w).type = type
           /\ NewEntry(type, t, w).task = t
           /\ NewEntry(type, t, w).worker = w
BY DEF NewEntry, Entry

LEMMA DerivedOneMore ==
    ASSUME NEW l \in Seq(Entry), NEW e \in Entry, NEW u
    PROVE  /\ Append(l, e) \in Seq(Entry)
           /\ l \o <<e>> \in Seq(Entry)
           /\ Derived(Append(l, e), u) = ReplayFor(u, Derived(l, u), e)
           /\ Derived(l \o <<e>>, u) = ReplayFor(u, Derived(l, u), e)
<1>1. Append(l, e) \in Seq(Entry)
  BY AppendProperties
<1>2. l \o <<e>> = Append(l, e)
  BY AppendIsConcat
<1>3. Derived(Append(l, e), u) = ReplayFor(u, Derived(l, u), e)
  BY FoldAppend
<1> QED BY <1>1, <1>2, <1>3

LEMMA SetToSeqFacts ==
    ASSUME NEW T, IsFiniteSet(T)
    PROVE  LET n == Cardinality(T)
               q == SetToSeq(T)
           IN  /\ n \in Nat
               /\ q \in [1..n -> T]
               /\ {q[i] : i \in 1..n} = T
<1> DEFINE n == Cardinality(T)
           q == SetToSeq(T)
<1>1. n \in Nat /\ ExistsBijection(1..n, T)
  BY FS_CardinalityType
<1>2. \E f \in [1..n -> T] : IsInjective(f)
  BY <1>1 DEF ExistsBijection, Bijection, Injection
<1>3. q \in [1..n -> T] /\ IsInjective(q)
  BY <1>2 DEF SetToSeq
<1>4. Cardinality(1..n) = n
  <2>1. IsFiniteSet(1..n) /\ Cardinality(1..n) = IF 1 > n THEN 0 ELSE n - 1 + 1
    BY <1>1, FS_Interval
  <2> QED BY <1>1, <2>1
<1>5. q \in Injection(1..n, T)
  BY <1>3 DEF Injection
<1>6. q \in Surjection(1..n, T)
  BY <1>4, <1>5, FS_Injection
<1>7. {q[i] : i \in 1..n} = T
  BY <1>3, <1>6 DEF Surjection
<1> QED BY <1>1, <1>3, <1>7

\* Every order of a set lists it.
LEMMA SetToSeqsFacts ==
    ASSUME NEW T, IsFiniteSet(T), NEW q \in SetToSeqs(T)
    PROVE  /\ q \in Seq(T)
           /\ ToSet(q) = T
<1> DEFINE n == Cardinality(T)
<1>1. n \in Nat
  BY FS_CardinalityType
<1>2. q \in [1..n -> T] /\ \A i, j \in 1..n : i # j => q[i] # q[j]
  BY DEF SetToSeqs
<1>3. Cardinality(1..n) = n
  <2>1. IsFiniteSet(1..n) /\ Cardinality(1..n) = IF 1 > n THEN 0 ELSE n - 1 + 1
    BY <1>1, FS_Interval
  <2> QED BY <1>1, <2>1
<1>4. q \in Injection(1..n, T)
  BY <1>2 DEF Injection, IsInjective
<1>5. q \in Surjection(1..n, T)
  BY <1>3, <1>4, FS_Injection
<1>6. {q[i] : i \in 1..n} = T
  BY <1>2, <1>5 DEF Surjection
<1>7. q \in Seq(T)
  BY <1>1, <1>2, SeqDef
<1> QED BY <1>2, <1>6, <1>7 DEF ToSet

LEMMA ConcatSteps ==
    ASSUME NEW S, NEW h \in Seq(S), NEW s \in Seq(S), NEW k \in Nat, k < Len(s)
    PROVE  /\ h \o SubSeq(s, 1, k) \in Seq(S)
           /\ s[k + 1] \in S
           /\ h \o SubSeq(s, 1, k + 1) = Append(h \o SubSeq(s, 1, k), s[k + 1])
<1>1. Len(s) \in Nat /\ k + 1 \in 1..Len(s) /\ 1 \in 1..Len(s) /\ k + 1 \in 1..Len(s)
  BY LenProperties
<1>2. \A i \in 1..k : s[i] \in S
  BY <1>1, ElementOfSeq
<1>3. SubSeq(s, 1, k) \in Seq(S)
  BY <1>2, SubSeqProperties
<1>4. s[k + 1] \in S
  BY <1>1, ElementOfSeq
<1>5. SubSeq(s, 1, k + 1) = SubSeq(s, 1, (k + 1) - 1) \o <<s[k + 1]>>
  BY <1>1, SubSeqRecursiveSecond
<1>6. (k + 1) - 1 = k
  OBVIOUS
<1>7. <<s[k + 1]>> \in Seq(S)
  BY <1>4
<1>8. (h \o SubSeq(s, 1, k)) \o <<s[k + 1]>> = h \o (SubSeq(s, 1, k) \o <<s[k + 1]>>)
  <2> DEFINE b == SubSeq(s, 1, k)
             c == <<s[k + 1]>>
  <2>1. b \in Seq(S) /\ c \in Seq(S)
    BY <1>3, <1>7
  <2> HIDE DEF b, c
  <2>2. (h \o b) \o c = h \o (b \o c)
    BY <2>1, ConcatAssociative
  <2> QED BY <2>2 DEF b, c
<1>9. h \o SubSeq(s, 1, k) \in Seq(S)
  BY <1>3, ConcatProperties
<1>10. Append(h \o SubSeq(s, 1, k), s[k + 1]) = (h \o SubSeq(s, 1, k)) \o <<s[k + 1]>>
  BY <1>4, <1>9, AppendIsConcat
<1> QED BY <1>4, <1>5, <1>6, <1>8, <1>9, <1>10

EntryMany(type) == IF type = "task.scheduled" THEN Available ELSE Ended("cancelled")

LEMMA EntryForEachType ==
    ASSUME NEW type \in EntryType, NEW T \in SUBSET Task
    PROVE  /\ IsFiniteSet(T)
           /\ EntryForEach(type, T) \in Seq(Entry)
           /\ Len(EntryForEach(type, T)) = Cardinality(T)
           /\ DOMAIN EntryForEach(type, T) = 1..Cardinality(T)
           /\ \A i \in 1..Cardinality(T) :
                EntryForEach(type, T)[i] = NewEntry(type, SetToSeq(T)[i], None)
<1> DEFINE n == Cardinality(T)
           q == SetToSeq(T)
           es == EntryForEach(type, T)
<1>1. IsFiniteSet(T)
  BY AtomicStoreAssumption, FS_Subset
<1>2. n \in Nat /\ q \in [1..n -> T]
  BY <1>1, SetToSeqFacts
<1>3. es = [i \in 1..n |-> NewEntry(type, q[i], None)]
  BY <1>2 DEF EntryForEach
<1>4. ASSUME NEW i \in 1..n PROVE NewEntry(type, q[i], None) \in Entry
  BY <1>2, EntryFacts
<1>5. es \in [1..n -> Entry]
  <2> HIDE DEF n, q, es
  <2> QED BY <1>3, <1>4
<1>6. es \in Seq(Entry)
  BY <1>2, <1>5, SeqDef
<1>7. Len(es) = n
  BY <1>2, <1>5, <1>6, LenProperties
<1> HIDE DEF es
<1>8. DOMAIN es = 1..n /\ \A i \in 1..n : es[i] = NewEntry(type, q[i], None)
  BY <1>3
<1> QED BY <1>1, <1>6, <1>7, <1>8 DEF es

\* Entries for a set of tasks move the rows of these tasks and no other.
LEMMA DerivedMany ==
    ASSUME NEW l \in Seq(Entry), NEW type \in {"task.scheduled", "task.cancelled"},
           NEW T \in SUBSET Task, NEW u
    PROVE  Derived(l \o EntryForEach(type, T), u) =
             IF u \in T THEN EntryMany(type) ELSE Derived(l, u)
<1> DEFINE n == Cardinality(T)
           q == SetToSeq(T)
           es == EntryForEach(type, T)
           done(k) == {q[i] : i \in 1..k}
           Right(k) == Derived(l \o SubSeq(es, 1, k), u) =
                         IF u \in done(k) THEN EntryMany(type) ELSE Derived(l, u)
           K == {k \in Nat : k <= n => Right(k)}
<1>1. type \in EntryType
  BY DEF EntryType
<1>2. /\ es \in Seq(Entry) /\ Len(es) = n
      /\ DOMAIN es = 1..n /\ \A i \in 1..n : es[i] = NewEntry(type, q[i], None)
  BY <1>1, EntryForEachType
<1>3. n \in Nat /\ q \in [1..n -> T] /\ done(n) = T
  BY <1>1, EntryForEachType, SetToSeqFacts
<1> HIDE DEF n, q, es
<1>4. 0 \in K
  <2>1. SubSeq(es, 1, 0) = <<>>
    BY SubSeqEmpty
  <2>2. l \o <<>> = l
    BY ConcatEmptySeq
  <2>3. done(0) = {}
    OBVIOUS
  <2> QED BY <2>1, <2>2, <2>3
<1>5. ASSUME NEW k \in K PROVE k + 1 \in K
  <2> SUFFICES ASSUME k + 1 <= n PROVE Right(k + 1)
    OBVIOUS
  <2> DEFINE x == q[k + 1]
             m == l \o SubSeq(es, 1, k)
  <2>1. k \in Nat /\ k < n /\ k <= n /\ k + 1 \in 1..n /\ 1..(k + 1) = (1..k) \cup {k + 1}
    BY <1>3
  <2>2. x \in Task /\ done(k + 1) = done(k) \cup {x}
    BY <1>3, <2>1
  <2>3. Right(k)
    BY <2>1
  <2>4. m \in Seq(Entry) /\ l \o SubSeq(es, 1, k + 1) = Append(m, es[k + 1])
    BY <1>2, <2>1, ConcatSteps
  <2>5. es[k + 1] = NewEntry(type, x, None)
    BY <1>2, <2>1
  <2> HIDE DEF K, done, x, m
  <2>6. /\ NewEntry(type, x, None) \in Entry
        /\ NewEntry(type, x, None).type = type /\ NewEntry(type, x, None).task = x
    BY <1>1, <2>2, EntryFacts
  <2>7. Derived(Append(m, es[k + 1]), u) = ReplayFor(u, Derived(m, u), NewEntry(type, x, None))
    <3> DEFINE e == NewEntry(type, x, None)
    <3>1. e \in Entry
      BY <2>6
    <3> HIDE DEF e
    <3>2. Derived(Append(m, e), u) = ReplayFor(u, Derived(m, u), e)
      BY <2>4, <3>1, DerivedOneMore
    <3> QED BY <2>5, <3>2 DEF e
  <2>8. ReplayEntry(Derived(m, u), NewEntry(type, x, None)) = EntryMany(type)
    BY <2>6 DEF ReplayEntry, EntryMany
  <2>9. Derived(Append(m, es[k + 1]), u) = IF x = u THEN EntryMany(type) ELSE Derived(m, u)
    BY <2>6, <2>7, <2>8 DEF ReplayFor
  <2> QED BY <2>2, <2>3, <2>4, <2>9 DEF m
<1>6. K \in SUBSET Nat
  OBVIOUS
<1>7. n \in K
  <2> HIDE DEF K
  <2> QED BY <1>3, <1>4, <1>5, <1>6, SetInduction
<1>8. SubSeq(es, 1, n) = es
  BY <1>2, SubSeqFull
<1>9. Right(n)
  BY <1>3, <1>7
<1> HIDE DEF done, K
<1>10. Derived(l \o es, u) = IF u \in T THEN EntryMany(type) ELSE Derived(l, u)
  BY <1>3, <1>8, <1>9
<1> QED BY <1>10 DEF es

-----------------------------------------------------------------------------
(***************************************************************************)
(* What a command makes of the log it was decided on.                      *)
(***************************************************************************)
LEMMA RowFacts ==
    /\ Available \in Row /\ Unscheduled \in Row
    /\ Ended("completed") \in Row /\ Ended("cancelled") \in Row
    /\ \A w \in Worker : LeasedBy(w) \in Row /\ LeasedBy(w).status = "leased" /\ LeasedBy(w).owner = w
    /\ Available.status = "available" /\ Unscheduled.status = "none"
BY DEF Available, Unscheduled, Ended, LeasedBy, Row, RowStatus

LEMMA CommandFacts ==
    ASSUME NEW cmd \in Command
    PROVE  \/ cmd.op = "complete" /\ cmd.task \in Task /\ cmd.worker \in Worker /\ cmd.next \in SUBSET Task
           \/ cmd.op = "retry" /\ cmd.task \in Task /\ cmd.worker \in Worker /\ cmd.next = {}
           \/ cmd.op = "cancel" /\ cmd.task = None /\ cmd.worker = None /\ cmd.next = {}
BY DEF Command

\* A completion: its own row, and those of the tasks that come next.
LEMMA CompleteRecords ==
    ASSUME NEW l \in Seq(Entry), NEW cmd \in Command, cmd.op = "complete", NEW u
    PROVE  /\ EntriesOf(l, cmd) \in Seq(Entry) /\ Len(EntriesOf(l, cmd)) > 0
           /\ Updates(l, cmd) = {cmd.task}
           /\ Derived(l \o EntriesOf(l, cmd), u) =
                IF u \in cmd.next THEN Available
                ELSE IF u = cmd.task THEN Ended("completed") ELSE Derived(l, u)
<1> DEFINE x == NewEntry("task.completed", cmd.task, cmd.worker)
           a == <<x>>
           b == EntryForEach("task.scheduled", cmd.next)
<1>1. cmd.task \in Task /\ cmd.worker \in Worker /\ cmd.next \in SUBSET Task
  BY CommandFacts
<1>2. x \in Entry /\ a \in Seq(Entry) /\ Len(a) = 1 /\ x.type = "task.completed" /\ x.task = cmd.task
  BY <1>1, EntryFacts DEF EntryType
<1>3. b \in Seq(Entry) /\ Len(b) \in Nat
  BY <1>1, EntryForEachType, LenProperties DEF EntryType
<1>4. EntriesOf(l, cmd) = a \o b
  BY DEF EntriesOf
<1>5. l \o a \in Seq(Entry) /\ Derived(l \o a, u) = ReplayFor(u, Derived(l, u), x)
  <2> HIDE DEF x
  <2> QED BY <1>2, DerivedOneMore
<1>6. Derived((l \o a) \o b, u) = IF u \in cmd.next THEN EntryMany("task.scheduled")
                                  ELSE Derived(l \o a, u)
  <2> DEFINE m == l \o a
  <2>1. m \in Seq(Entry)
    BY <1>5
  <2> HIDE DEF m
  <2>2. Derived(m \o b, u) = IF u \in cmd.next THEN EntryMany("task.scheduled") ELSE Derived(m, u)
    BY <1>1, <2>1, DerivedMany
  <2> QED BY <2>2 DEF m
<1>7. ReplayFor(u, Derived(l, u), x) = IF u = cmd.task THEN Ended("completed") ELSE Derived(l, u)
  BY <1>2 DEF ReplayFor, ReplayEntry
<1>0. l \in Seq(Entry) /\ a \in Seq(Entry) /\ b \in Seq(Entry)
  BY <1>2, <1>3
<1> HIDE DEF a, b, x
<1>8. l \o (a \o b) = (l \o a) \o b
  BY ONLY <1>0, ConcatAssociative
<1>9. a \o b \in Seq(Entry) /\ Len(a \o b) = Len(a) + Len(b)
  BY ONLY <1>0, ConcatProperties
<1>10. Len(a \o b) > 0
  BY <1>2, <1>3, <1>9
<1>11. Updates(l, cmd) = {cmd.task}
  BY DEF Updates
<1> QED BY <1>4, <1>5, <1>6, <1>7, <1>8, <1>9, <1>10, <1>11 DEF EntryMany

LEMMA RetryRecords ==
    ASSUME NEW l \in Seq(Entry), NEW cmd \in Command, cmd.op = "retry", NEW u
    PROVE  /\ EntriesOf(l, cmd) \in Seq(Entry) /\ Len(EntriesOf(l, cmd)) > 0
           /\ Updates(l, cmd) = {cmd.task}
           /\ Derived(l \o EntriesOf(l, cmd), u) =
                IF u = cmd.task THEN Available ELSE Derived(l, u)
<1> DEFINE x == NewEntry("task.failed", cmd.task, cmd.worker)
           y == NewEntry("task.retry_scheduled", cmd.task, None)
           a == <<x>>
           b == <<y>>
<1>1. cmd.task \in Task /\ cmd.worker \in Worker
  BY CommandFacts
<1>2. x \in Entry /\ a \in Seq(Entry) /\ x.type = "task.failed" /\ x.task = cmd.task
  BY <1>1, EntryFacts DEF EntryType
<1>3. y \in Entry /\ b \in Seq(Entry) /\ y.type = "task.retry_scheduled" /\ y.task = cmd.task
  BY <1>1, EntryFacts DEF EntryType
<1>4. EntriesOf(l, cmd) = <<x, y>>
  BY DEF EntriesOf
<1>5. ReplayFor(u, ReplayFor(u, Derived(l, u), x), y) = IF u = cmd.task THEN Available ELSE Derived(l, u)
  BY <1>2, <1>3 DEF ReplayFor, ReplayEntry
<1>6. Updates(l, cmd) = {cmd.task}
  BY DEF Updates
<1> HIDE DEF x, y
<1>7. <<x, y>> = a \o b /\ <<x, y>> \in Seq(Entry) /\ Len(<<x, y>>) > 0
  <2> DEFINE p == <<x, y>>
             r == a \o b
  <2>1. p \in Seq(Entry) /\ Len(p) = 2 /\ p[1] = x /\ p[2] = y
    BY <1>2, <1>3
  <2>2. Len(a) = 1 /\ Len(b) = 1 /\ a[1] = x /\ b[1] = y
    OBVIOUS
  <2>3. /\ r \in Seq(Entry) /\ Len(r) = Len(a) + Len(b)
        /\ \A i \in 1..(Len(a) + Len(b)) : r[i] = IF i <= Len(a) THEN a[i] ELSE b[i - Len(a)]
    <3> HIDE DEF a, b
    <3> QED BY <1>2, <1>3, ConcatProperties
  <2> HIDE DEF p, r, a, b
  <2>4. Len(r) = 2 /\ r[1] = x /\ r[2] = y
    BY <2>2, <2>3
  <2>5. \A i \in 1..Len(p) : p[i] = r[i]
    <3>1. \A i \in 1..2 : i = 1 \/ i = 2
      OBVIOUS
    <3> QED BY <2>1, <2>4, <3>1
  <2>6. p = r
    BY <2>1, <2>3, <2>4, <2>5, SeqEqual
  <2>7. Len(p) > 0
    BY <2>1
  <2> QED BY <2>1, <2>6, <2>7 DEF p, r
<1>8. l \o a \in Seq(Entry) /\ Derived(l \o a, u) = ReplayFor(u, Derived(l, u), x)
  BY <1>2, DerivedOneMore
<1>9. Derived((l \o a) \o b, u) = ReplayFor(u, Derived(l \o a, u), y)
  BY <1>3, <1>8, DerivedOneMore
<1> HIDE DEF a, b
<1>10. l \o (a \o b) = (l \o a) \o b
  BY <1>2, <1>3, ConcatAssociative
<1> QED BY <1>4, <1>5, <1>6, <1>7, <1>8, <1>9, <1>10

LEMMA CancelRecords ==
    ASSUME NEW l \in Seq(Entry), NEW cmd \in Command, cmd.op = "cancel", NEW u \in Task
    PROVE  /\ EntriesOf(l, cmd) \in Seq(Entry) /\ Len(EntriesOf(l, cmd)) > 0
           /\ Updates(l, cmd) = OpenTasks(l)
           /\ Derived(l \o EntriesOf(l, cmd), u) =
                IF u \in OpenTasks(l) THEN Ended("cancelled") ELSE Derived(l, u)
<1> DEFINE x == NewEntry("run.cancel_requested", None, None)
           a == <<x>>
           b == EntryForEach("task.cancelled", OpenTasks(l))
<1>1. OpenTasks(l) \in SUBSET Task
  BY DEF OpenTasks
<1>2. x \in Entry /\ a \in Seq(Entry) /\ Len(a) = 1 /\ x.task = None
  BY EntryFacts DEF EntryType
<1>3. b \in Seq(Entry) /\ Len(b) \in Nat
  BY <1>1, EntryForEachType, LenProperties DEF EntryType
<1>4. EntriesOf(l, cmd) = a \o b
  BY DEF EntriesOf
<1>5. l \o a \in Seq(Entry) /\ Derived(l \o a, u) = ReplayFor(u, Derived(l, u), x)
  <2> HIDE DEF x
  <2> QED BY <1>2, DerivedOneMore
<1>6. Derived((l \o a) \o b, u) = IF u \in OpenTasks(l) THEN EntryMany("task.cancelled")
                                  ELSE Derived(l \o a, u)
  <2> DEFINE m == l \o a
             T == OpenTasks(l)
  <2>1. m \in Seq(Entry) /\ T \in SUBSET Task
    BY <1>1, <1>5
  <2> HIDE DEF m, T
  <2>2. Derived(m \o EntryForEach("task.cancelled", T), u) =
          IF u \in T THEN EntryMany("task.cancelled") ELSE Derived(m, u)
    BY <2>1, DerivedMany
  <2> QED BY <2>2 DEF m, T
<1>7. ReplayFor(u, Derived(l, u), x) = Derived(l, u)
  BY <1>2, AtomicStoreAssumption DEF ReplayFor
<1> HIDE DEF a, b, x
<1>8. l \o (a \o b) = (l \o a) \o b
  BY <1>2, <1>3, ConcatAssociative
<1>9. a \o b \in Seq(Entry) /\ Len(a \o b) = Len(a) + Len(b)
  BY <1>2, <1>3, ConcatProperties
<1>10. Len(a \o b) > 0
  BY <1>2, <1>3, <1>9
<1>11. Updates(l, cmd) = OpenTasks(l)
  BY DEF Updates
<1> QED BY <1>4, <1>5, <1>6, <1>7, <1>8, <1>9, <1>10, <1>11 DEF EntryMany

\* What every command comes to.
LEMMA CommandRecords ==
    ASSUME NEW l \in Seq(Entry), NEW cmd \in Command
    PROVE  /\ EntriesOf(l, cmd) \in Seq(Entry) /\ Len(EntriesOf(l, cmd)) > 0
           /\ Updates(l, cmd) \in SUBSET Task /\ IsFiniteSet(Updates(l, cmd))
           /\ Permitted(l, cmd) => Updates(l, cmd) # {}
           /\ RowsOf(l, cmd) \in [Updates(l, cmd) \cup cmd.next -> Row]
           /\ cmd.next \in SUBSET Task
           /\ \A u \in Task : Derived(l \o EntriesOf(l, cmd), u) =
                 IF u \in DOMAIN RowsOf(l, cmd) THEN RowsOf(l, cmd)[u] ELSE Derived(l, u)
<1> DEFINE es == EntriesOf(l, cmd)
           T == Updates(l, cmd) \cup cmd.next
<1>1. CASE cmd.op = "complete"
  <2>1. es \in Seq(Entry) /\ Len(es) > 0 /\ Updates(l, cmd) = {cmd.task}
    BY <1>1, CompleteRecords
  <2>2. cmd.task \in Task /\ cmd.next \in SUBSET Task
    BY <1>1, CommandFacts
  <2>3. \A u \in Task : /\ u \in T => Derived(l \o es, u) \in Row
                        /\ u \notin T => Derived(l \o es, u) = Derived(l, u)
    BY <1>1, <2>1, CompleteRecords, RowFacts
  <2>4. T \in SUBSET Task /\ IsFiniteSet(Updates(l, cmd)) /\ Updates(l, cmd) # {}
    BY <2>1, <2>2, FS_Singleton
  <2> HIDE DEF es, T
  <2>5. RowsOf(l, cmd) = [t \in T |-> Derived(l \o es, t)]
    BY DEF RowsOf, es, T
  <2>6. RowsOf(l, cmd) \in [T -> Row]
    BY <2>3, <2>4, <2>5
  <2> QED BY <2>1, <2>2, <2>3, <2>4, <2>5, <2>6 DEF es, T
<1>2. CASE cmd.op = "retry"
  <2>1. es \in Seq(Entry) /\ Len(es) > 0 /\ Updates(l, cmd) = {cmd.task}
    BY <1>2, RetryRecords
  <2>2. cmd.task \in Task /\ cmd.next = {}
    BY <1>2, CommandFacts
  <2>3. \A u \in Task : /\ u \in T => Derived(l \o es, u) \in Row
                        /\ u \notin T => Derived(l \o es, u) = Derived(l, u)
    BY <1>2, <2>1, <2>2, RetryRecords, RowFacts
  <2>4. T \in SUBSET Task /\ IsFiniteSet(Updates(l, cmd)) /\ Updates(l, cmd) # {}
    BY <2>1, <2>2, FS_Singleton
  <2> HIDE DEF es, T
  <2>5. RowsOf(l, cmd) = [t \in T |-> Derived(l \o es, t)]
    BY DEF RowsOf, es, T
  <2>6. RowsOf(l, cmd) \in [T -> Row]
    BY <2>3, <2>4, <2>5
  <2>7. cmd.next \in SUBSET Task
    BY <2>2
  <2> QED BY <2>1, <2>3, <2>4, <2>5, <2>6, <2>7 DEF es, T
<1>3. CASE cmd.op = "cancel"
  <2>1. OpenTasks(l) \in SUBSET Task
    BY DEF OpenTasks
  <2>2. cmd.next = {}
    BY <1>3, CommandFacts
  <2>3. Updates(l, cmd) = OpenTasks(l)
    BY <1>3 DEF Updates
  <2>4. \A u \in Task : /\ es \in Seq(Entry) /\ Len(es) > 0
                        /\ u \in T => Derived(l \o es, u) \in Row
                        /\ u \notin T => Derived(l \o es, u) = Derived(l, u)
    BY <1>3, <2>2, <2>3, CancelRecords, RowFacts
  <2>5. es \in Seq(Entry) /\ Len(es) > 0
    <3> DEFINE b == EntryForEach("task.cancelled", OpenTasks(l))
               a == <<NewEntry("run.cancel_requested", None, None)>>
    <3>1. a \in Seq(Entry) /\ Len(a) = 1 /\ b \in Seq(Entry) /\ Len(b) \in Nat
      BY <2>1, EntryFacts, EntryForEachType, LenProperties DEF EntryType
    <3>2. es = a \o b
      BY <1>3 DEF EntriesOf
    <3> HIDE DEF a, b, es
    <3>3. a \o b \in Seq(Entry) /\ Len(a \o b) = Len(a) + Len(b)
      BY <3>1, ConcatProperties
    <3> QED BY <3>1, <3>2, <3>3
  <2>6. T \in SUBSET Task /\ IsFiniteSet(Updates(l, cmd)) /\ (Permitted(l, cmd) => Updates(l, cmd) # {})
    BY <1>3, <2>1, <2>2, <2>3, AtomicStoreAssumption, FS_Subset DEF Permitted
  <2> HIDE DEF es, T
  <2>7. RowsOf(l, cmd) = [t \in T |-> Derived(l \o es, t)]
    BY DEF RowsOf, es, T
  <2>8. RowsOf(l, cmd) \in [T -> Row]
    BY <2>4, <2>6, <2>7
  <2>9. cmd.next \in SUBSET Task
    BY <2>2
  <2>10. Updates(l, cmd) \in SUBSET Task
    BY <2>1, <2>3
  <2> QED BY <2>4, <2>5, <2>6, <2>7, <2>8, <2>9, <2>10 DEF es, T
<1> QED BY <1>1, <1>2, <1>3, CommandFacts

-----------------------------------------------------------------------------
(***************************************************************************)
(* Steps within a transaction: only the record of one session changes.     *)
(***************************************************************************)
LEMMA CallFacts ==
    /\ \A cmd \in Command : cmd.op \in {"complete", "retry", "cancel"} /\ cmd.next \in SUBSET Task
    /\ \A call \in DirectWrite : /\ call.op \in {"lease", "heartbeat"}
                                 /\ call.task \in Task /\ call.worker \in Worker
    /\ NoCall.op = "none"
BY DEF Command, DirectWrite, NoCall

LEMMA IdleFacts ==
    /\ Idle \in Transaction
    /\ Idle.pc = "idle" /\ Idle.call = NoCall /\ Idle.base = 0 /\ Idle.held = NoLocks
    /\ Idle.held.tasks = {} /\ Idle.tries = 0
<1>1. 0 \in 0..(MaxTries - 1)
  BY PgStoreAssumption
<1>2. NoLocks \in [run : BOOLEAN, tasks : SUBSET Task, keys : SUBSET Nat] /\ NoLocks.tasks = {}
  BY DEF NoLocks
<1>3. <<>> \in UNION {[T -> Row] : T \in SUBSET Task}
  <2>1. <<>> \in [{} -> Row]
    OBVIOUS
  <2> QED BY <2>1
<1>4. <<>> \in Seq(Entry) /\ <<>> \in Seq(Task)
  OBVIOUS
<1> QED BY <1>1, <1>2, <1>3, <1>4 DEF Idle, Transaction, PC

\* What a session knows of its own transaction.
LEMMA UnderWayFacts ==
    ASSUME PgInv, NEW c \in Session
    PROVE  /\ tx[c] \in Transaction
           /\ tx[c].pc # "idle" => tx[c].call \in Command \cup DirectWrite
           /\ tx[c].pc \in {"load", "update_run", "update_task"} => tx[c].call \in Command
           /\ tx[c].pc \in {"renew", "number", "bump_run"} => tx[c].call \in DirectWrite
           /\ IsCommand(c) <=> tx[c].call \in Command
           /\ tx[c].call \in Command => CommandUnderWay(c)
           /\ tx[c].call \in DirectWrite => LeaseUnderWay(c) \/ HeartbeatUnderWay(c)
           /\ tx[c].pc \in {"insert", "update_task", "bump_run", "commit"} => Len(tx[c].entries) > 0
<1>1. tx[c] \in Transaction /\ UnderWay(c) /\ Decided(c)
  BY DEF PgInv
<1>2. Idle.pc = "idle" /\ Idle.call = NoCall
  BY IdleFacts
<1>3. CASE tx[c] = Idle
  BY <1>1, <1>2, <1>3, CallFacts DEF IsCommand
<1>4. CASE CommandUnderWay(c)
  BY <1>1, <1>4, CallFacts DEF IsCommand, CommandUnderWay, Decided
<1>5. CASE LeaseUnderWay(c)
  BY <1>1, <1>5, CallFacts DEF IsCommand, LeaseUnderWay
<1>6. CASE HeartbeatUnderWay(c)
  BY <1>1, <1>6, CallFacts DEF IsCommand, HeartbeatUnderWay
<1> QED BY <1>1, <1>3, <1>4, <1>5, <1>6 DEF UnderWay

\* A step of one session leaves what holds of the others.
LEMMA ContinueKeeps ==
    ASSUME PgInv, NEW c \in Session, NEW next \in Transaction, Continue(c, next),
           next.pc = "idle" => next.held = NoLocks,
           UnderWay(c)', Numbered(c)', Decided(c)', Selected(c)',
           Inserted(c)' => \A d \in Session \ {c} : ~Inserted(d),
           \A d \in Session \ {c} : next.held.tasks \cap tx[d].held.tasks = {}
    PROVE  PgInv'
<1>1. tx \in [Session -> Transaction] /\ tx' = [tx EXCEPT ![c] = next] /\ UNCHANGED <<version, log, rows>>
  BY DEF PgInv, Continue, storeVars
<1>2. tx' \in [Session -> Transaction] /\ tx'[c] = next /\ \A d \in Session \ {c} : tx'[d] = tx[d]
  BY <1>1
<1>3. PgTypeOK'
  <2>1. version' \in Nat /\ log' \in Seq(Entry) /\ rows' \in [Task -> Row]
    BY <1>1 DEF PgInv, PgTypeOK
  <2>2. ASSUME NEW d \in Session
        PROVE  /\ tx'[d].pc = "idle" => tx'[d].held = NoLocks
               /\ tx'[d] \in Transaction
    BY <1>2 DEF PgInv, PgTypeOK
  <2> QED BY <2>1, <2>2 DEF PgTypeOK, Transaction
<1>4. VersionCountsLog' /\ StatusFollowsLog'
  BY <1>1 DEF PgInv, VersionCountsLog, StatusFollowsLog
<1>5. ASSUME NEW d \in Session \ {c}
      PROVE  UnderWay(d)' /\ Numbered(d)' /\ Decided(d)' /\ Selected(d)' /\ (Inserted(d)' <=> Inserted(d))
  <2>1. UnderWay(d) /\ Numbered(d) /\ Decided(d) /\ Selected(d) /\ tx'[d] = tx[d]
    BY <1>2 DEF PgInv
  <2>2. UnderWay(d)'
    BY <2>1 DEF UnderWay, CommandUnderWay, LeaseUnderWay, HeartbeatUnderWay
  <2>3. Numbered(d)' /\ (Inserted(d)' <=> Inserted(d))
    BY <1>1, <2>1 DEF Numbered, Inserted, Keys
  <2>4. Decided(d)'
    BY <1>1, <2>1 DEF Decided
  <2>5. Selected(d)'
    BY <1>1, <2>1 DEF Selected
  <2> QED BY <2>2, <2>3, <2>4, <2>5
<1>6. InsertAlone'
  BY <1>5 DEF PgInv, InsertAlone
<1>7. LocksApart'
  BY <1>2 DEF PgInv, LocksApart
<1> QED BY <1>2, <1>3, <1>4, <1>5, <1>6, <1>7 DEF PgInv

LEMMA EndKeeps ==
    ASSUME PgInv, NEW c \in Session, End(c)
    PROVE  PgInv'
<1>1. Continue(c, Idle)
  BY DEF End
<1>2. tx'[c] = Idle /\ version' = version /\ version \in Nat
  BY <1>1 DEF Continue, PgInv, PgTypeOK, storeVars
<1>3. UnderWay(c)'
  BY <1>2 DEF UnderWay
<1>4. Numbered(c)' /\ ~Inserted(c)'
  BY <1>2, IdleFacts DEF Numbered, Inserted
<1>5. Decided(c)' /\ Selected(c)'
  BY <1>2, IdleFacts, CallFacts DEF Decided, Selected
<1> QED BY <1>1, <1>3, <1>4, <1>5, IdleFacts, ContinueKeeps

\* A call begins, or begins again, with a load.
LEMMA LoadingKeeps ==
    ASSUME PgInv, NEW c \in Session, NEW next \in Transaction, Continue(c, next),
           next.pc = "load", next.call \in Command, next.base = 0, next.held.tasks = {}
    PROVE  PgInv'
<1>1. tx'[c] = next /\ version' = version /\ version \in Nat
  BY DEF Continue, PgInv, PgTypeOK, storeVars
<1>2. UnderWay(c)'
  BY <1>1 DEF UnderWay, CommandUnderWay
<1>3. Numbered(c)' /\ ~Inserted(c)'
  BY <1>1 DEF Numbered, Inserted
<1>4. Decided(c)'
  BY <1>1 DEF Decided
<1>5. Selected(c)'
  BY <1>1, CallFacts DEF Selected
<1> QED BY <1>2, <1>3, <1>4, <1>5, ContinueKeeps

LEMMA BeginCommandKeeps ==
    ASSUME PgInv, NEW c \in Session, BeginCommand(c)
    PROVE  PgInv'
<1>1. PICK cmd \in Command : Continue(c, [Idle EXCEPT !.pc = "load", !.call = cmd])
  BY DEF BeginCommand
<1> DEFINE next == [Idle EXCEPT !.pc = "load", !.call = cmd]
<1>2. next \in Transaction /\ next.pc = "load" /\ next.call = cmd /\ next.base = 0 /\ next.held.tasks = {}
  BY IdleFacts DEF Transaction, PC
<1> HIDE DEF next
<1>3. Continue(c, next)
  BY <1>1 DEF next
<1> QED BY <1>2, <1>3, LoadingKeeps

LEMMA LoadKeeps ==
    ASSUME PgInv, NEW c \in Session, Load(c)
    PROVE  PgInv'
<1>1. CASE End(c)
  BY <1>1, EndKeeps
<1>2. ASSUME ~End(c) PROVE PgInv'
  <2> DEFINE cmd == tx[c].call
  <2>1. cmd \in Command /\ tx[c] \in Transaction
    BY UnderWayFacts DEF Load, At
  <2>2. PICK order \in SetToSeqs(Updates(log, cmd)) :
          Continue(c, [tx[c] EXCEPT !.pc = "update_run", !.base = version,
                                    !.entries = EntriesOf(log, cmd),
                                    !.changed = RowsOf(log, cmd), !.todo = order])
    BY <1>2 DEF Load
  <2>3. Permitted(log, cmd)
    BY <1>2 DEF Load
  <2> DEFINE next == [tx[c] EXCEPT !.pc = "update_run", !.base = version,
                                   !.entries = EntriesOf(log, cmd),
                                   !.changed = RowsOf(log, cmd), !.todo = order]
  <2>4. version \in Nat /\ log \in Seq(Entry) /\ version' = version /\ log' = log
    BY <2>2 DEF PgInv, PgTypeOK, Continue, storeVars
  <2>5. /\ EntriesOf(log, cmd) \in Seq(Entry) /\ Len(EntriesOf(log, cmd)) > 0
        /\ Updates(log, cmd) \in SUBSET Task /\ IsFiniteSet(Updates(log, cmd))
        /\ Updates(log, cmd) # {}
        /\ RowsOf(log, cmd) \in [Updates(log, cmd) \cup cmd.next -> Row]
        /\ cmd.next \in SUBSET Task
    BY <2>1, <2>3, <2>4, CommandRecords
  <2>6. order \in Seq(Task) /\ ToSet(order) = Updates(log, cmd) /\ order # <<>>
    <3>1. order \in Seq(Updates(log, cmd)) /\ ToSet(order) = Updates(log, cmd)
      BY <2>5, SetToSeqsFacts
    <3>2. order # <<>>
      BY <2>5, <3>1 DEF ToSet
    <3>3. order \in Seq(Task)
      <4>1. Len(order) \in Nat /\ order \in [1..Len(order) -> Updates(log, cmd)]
        BY <3>1, LenProperties
      <4>2. order \in [1..Len(order) -> Task]
        BY <2>5, <4>1
      <4> QED BY <4>1, <4>2, SeqDef
    <3> QED BY <3>1, <3>2, <3>3
  <2>7. RowsOf(log, cmd) \in UNION {[T -> Row] : T \in SUBSET Task}
    BY <2>5
  <2>8. /\ next \in Transaction
        /\ next.pc = "update_run" /\ next.call = cmd /\ next.base = version
        /\ next.entries = EntriesOf(log, cmd) /\ next.changed = RowsOf(log, cmd)
        /\ next.todo = order /\ next.held = tx[c].held
    BY <2>1, <2>4, <2>5, <2>6, <2>7 DEF Transaction, PC
  <2>9. Continue(c, next)
    BY <2>2
  <2> HIDE DEF next, cmd
  <2>10. tx'[c] = next
    BY <2>9 DEF Continue, PgInv
  <2>11. UnderWay(c)'
    BY <2>1, <2>8, <2>10 DEF UnderWay, CommandUnderWay
  <2>12. Numbered(c)' /\ ~Inserted(c)'
    BY <2>4, <2>8, <2>10 DEF Numbered, Inserted
  <2>13. Decided(c)'
    <3>1. DOMAIN RowsOf(log, cmd) \ cmd.next \subseteq ToSet(order)
      BY <2>5, <2>6
    <3> QED BY <2>3, <2>4, <2>5, <2>6, <2>8, <2>10, <3>1 DEF Decided
  <2>14. Selected(c)'
    BY <2>1, <2>8, <2>10, CallFacts DEF Selected
  <2>15. \A d \in Session \ {c} : next.held.tasks \cap tx[d].held.tasks = {}
    BY <2>8 DEF PgInv, LocksApart
  <2> QED BY <2>8, <2>9, <2>11, <2>12, <2>13, <2>14, <2>15, ContinueKeeps
<1> QED BY <1>1, <1>2

LEMMA UpdateRunKeeps ==
    ASSUME PgInv, NEW c \in Session, UpdateRun(c)
    PROVE  PgInv'
<1>1. tx[c].call \in Command /\ tx[c] \in Transaction /\ tx[c].pc = "update_run"
  BY UnderWayFacts DEF UpdateRun, At
<1>2. CASE End(c)
  BY <1>2, EndKeeps
<1>3. CASE /\ tx[c].tries + 1 < MaxTries
           /\ Continue(c, [Idle EXCEPT !.pc = "load", !.call = tx[c].call, !.tries = tx[c].tries + 1])
  <2>1. tx[c].tries + 1 \in 0..(MaxTries - 1)
    BY <1>1, <1>3, PgStoreAssumption DEF Transaction
  <2> DEFINE next == [Idle EXCEPT !.pc = "load", !.call = tx[c].call, !.tries = tx[c].tries + 1]
  <2>2. /\ next \in Transaction
        /\ next.pc = "load" /\ next.call = tx[c].call /\ next.base = 0 /\ next.held.tasks = {}
    BY <1>1, <2>1, IdleFacts DEF Transaction, PC
  <2> HIDE DEF next
  <2>3. Continue(c, next)
    BY <1>3 DEF next
  <2> QED BY <1>1, <2>2, <2>3, LoadingKeeps
<1>4. CASE Continue(c, [tx[c] EXCEPT !.pc = "insert", !.held.run = TRUE])
  <2> DEFINE next == [tx[c] EXCEPT !.pc = "insert", !.held.run = TRUE]
  <2>1. /\ next \in Transaction
        /\ next.pc = "insert" /\ next.call = tx[c].call /\ next.base = tx[c].base
        /\ next.entries = tx[c].entries /\ next.changed = tx[c].changed
        /\ next.todo = tx[c].todo /\ next.held.tasks = tx[c].held.tasks
    BY <1>1 DEF Transaction, PC
  <2> HIDE DEF next
  <2>2. Continue(c, next)
    BY <1>4 DEF next
  <2>3. tx'[c] = next /\ version' = version /\ log' = log
    BY <2>2 DEF Continue, PgInv, storeVars
  <2>4. UnderWay(c)'
    BY <1>1, <2>1, <2>3 DEF UnderWay, CommandUnderWay
  <2>5. Numbered(c)' /\ ~Inserted(c)'
    <3>1. tx[c].base <= version
      BY DEF PgInv, Numbered
    <3> QED BY <2>1, <2>3, <3>1 DEF Numbered, Inserted
  <2>6. Decided(c)'
    <3>1. Decided(c)
      BY DEF PgInv
    <3> QED BY <1>1, <2>1, <2>3, <3>1 DEF Decided
  <2>7. Selected(c)'
    BY <1>1, <2>1, <2>3, CallFacts DEF Selected
  <2>8. \A d \in Session \ {c} : next.held.tasks \cap tx[d].held.tasks = {}
    BY <2>1 DEF PgInv, LocksApart
  <2> QED BY <2>1, <2>2, <2>4, <2>5, <2>6, <2>7, <2>8, ContinueKeeps
<1> QED BY <1>2, <1>3, <1>4 DEF UpdateRun

\* The first number is free, so nothing was committed since it was chosen, and
\* nobody else holds numbers.
LEMMA InsertEventsKeeps ==
    ASSUME PgInv, NEW c \in Session, InsertEvents(c)
    PROVE  PgInv'
<1> DEFINE x == tx[c]
           next == [x EXCEPT !.pc = IF IsCommand(c) THEN "update_task" ELSE "bump_run",
                             !.held.keys = Keys(c)]
<1>1. x \in Transaction /\ x.pc = "insert" /\ Len(x.entries) > 0 /\ x.call \in Command \cup DirectWrite
  BY UnderWayFacts DEF InsertEvents, At
<1>2. BlockedBy(c) = {} /\ Keys(c) \cap DOMAIN log = {} /\ Continue(c, next)
  BY DEF InsertEvents, At
<1>3. x.base \in Nat /\ x.base <= version /\ version \in Nat /\ DOMAIN log = 1..version
  BY <1>1 DEF PgInv, PgTypeOK, Numbered, VersionCountsLog, Transaction
<1>4. Keys(c) \in SUBSET Nat /\ x.base + 1 \in Keys(c)
  <2>1. DOMAIN x.entries = 1..Len(x.entries) /\ Len(x.entries) \in Nat
    BY <1>1, LenProperties DEF Transaction
  <2>2. Keys(c) = {x.base + i : i \in DOMAIN x.entries}
    BY DEF Keys
  <2> HIDE DEF x
  <2>3. 1 \in DOMAIN x.entries /\ DOMAIN x.entries \subseteq Nat
    BY <1>1, <2>1
  <2> QED BY <1>3, <2>2, <2>3
<1>5. x.base = version
  <2>1. x.base + 1 \notin 1..version
    BY <1>2, <1>3, <1>4
  <2> QED BY <1>3, <2>1
<1>6. ASSUME NEW d \in Session \ {c}, Inserted(d) PROVE FALSE
  <2>1. tx[d].base = version /\ tx[d].held.keys = Keys(d)
    BY <1>6 DEF PgInv, Numbered
  <2>2. Len(tx[d].entries) > 0 /\ tx[d].entries \in Seq(Entry)
    BY <1>6, UnderWayFacts DEF Inserted, Transaction
  <2>3. 1 \in DOMAIN tx[d].entries
    BY <2>2, LenProperties
  <2>4. version + 1 \in Keys(d)
    BY <2>1, <2>3 DEF Keys
  <2>5. version + 1 \in Keys(c) \cap tx[d].held.keys
    BY <1>4, <1>5, <2>1, <2>4
  <2>6. d \in BlockedBy(c)
    BY <1>1, <2>5 DEF BlockedBy
  <2> QED BY <1>2, <2>6
<1>7. /\ next \in Transaction
      /\ next.pc = IF IsCommand(c) THEN "update_task" ELSE "bump_run"
      /\ next.call = x.call /\ next.base = x.base /\ next.entries = x.entries
      /\ next.changed = x.changed /\ next.todo = x.todo
      /\ next.held.tasks = x.held.tasks /\ next.held.keys = Keys(c)
  BY <1>1, <1>4 DEF Transaction, PC
<1> HIDE DEF next
<1>8. tx'[c] = next /\ version' = version /\ log' = log /\ rows' = rows
  BY <1>2 DEF Continue, PgInv, storeVars
<1>9. UnderWay(c)'
  <2>1. CASE x.call \in Command
    BY <1>7, <1>8, <2>1, UnderWayFacts DEF UnderWay, CommandUnderWay
  <2>2. CASE LeaseUnderWay(c)
    <3>1. ~IsCommand(c)
      BY <2>2, CallFacts DEF LeaseUnderWay, IsCommand
    <3> QED BY <1>7, <1>8, <2>2, <3>1 DEF UnderWay, LeaseUnderWay
  <2>3. CASE HeartbeatUnderWay(c)
    <3>1. ~IsCommand(c)
      BY <2>3, CallFacts DEF HeartbeatUnderWay, IsCommand
    <3> QED BY <1>7, <1>8, <2>3, <3>1 DEF UnderWay, HeartbeatUnderWay
  <2> QED BY <1>1, <2>1, <2>2, <2>3, UnderWayFacts
<1>10. Numbered(c)'
  <2>1. Keys(c)' = Keys(c)
    BY <1>7, <1>8 DEF Keys
  <2> QED BY <1>3, <1>5, <1>7, <1>8, <2>1 DEF Numbered
<1>11. Decided(c)'
  <2>1. Decided(c)
    BY DEF PgInv
  <2>2. x.call \in Command => IsCommand(c)
    BY UnderWayFacts
  <2> QED BY <1>1, <1>7, <1>8, <2>1, <2>2 DEF Decided
<1>12. Selected(c)'
  <2>1. Selected(c)
    BY DEF PgInv
  <2> QED BY <1>7, <1>8, <2>1 DEF Selected
<1>13. \A d \in Session \ {c} : next.held.tasks \cap tx[d].held.tasks = {}
  BY <1>7 DEF PgInv, LocksApart
<1>14. next.pc # "idle"
  BY <1>7
<1> HIDE DEF x
<1> QED BY <1>2, <1>6, <1>7, <1>9, <1>10, <1>11, <1>12, <1>13, <1>14, ContinueKeeps

LEMMA TailFacts ==
    ASSUME NEW S, NEW s \in Seq(S), s # <<>>
    PROVE  /\ Head(s) \in S /\ Tail(s) \in Seq(S)
           /\ ToSet(s) = {Head(s)} \cup ToSet(Tail(s))
           /\ (Tail(s) = <<>>) <=> (Len(s) = 1)
<1>1. /\ Head(s) \in S /\ Tail(s) \in Seq(S) /\ Len(Tail(s)) = Len(s) - 1
      /\ \A i \in 1..Len(Tail(s)) : Tail(s)[i] = s[i + 1]
  BY HeadTailProperties
<1>2. Len(s) \in Nat /\ DOMAIN s = 1..Len(s) /\ DOMAIN Tail(s) = 1..Len(Tail(s))
  BY <1>1, LenProperties
<1>3. Len(s) # 0
  BY EmptySeq
<1>4. Head(s) = s[1]
  OBVIOUS
<1>5. (Tail(s) = <<>>) <=> (Len(s) = 1)
  <2>1. (Tail(s) = <<>>) <=> (Len(Tail(s)) = 0)
    BY <1>1, EmptySeq
  <2> QED BY <1>1, <1>2, <2>1
<1> DEFINE u == Tail(s)
           n == Len(s)
<1>6. /\ n \in Nat \ {0} /\ DOMAIN s = 1..n /\ DOMAIN u = 1..(n - 1)
      /\ \A i \in 1..(n - 1) : u[i] = s[i + 1]
  BY <1>1, <1>2, <1>3
<1> HIDE DEF u, n
<1>7. ToSet(s) = {s[1]} \cup ToSet(u)
  <2>1. ASSUME NEW i \in 1..n PROVE s[i] \in {s[1]} \cup ToSet(u)
    <3>1. CASE i = 1
      BY <3>1
    <3>2. CASE i # 1
      <4>1. i - 1 \in 1..(n - 1) /\ (i - 1) + 1 = i
        BY <1>6, <3>2
      <4>2. u[i - 1] = s[i]
        BY <1>6, <4>1
      <4> QED BY <1>6, <4>1, <4>2 DEF ToSet
    <3> QED BY <3>1, <3>2
  <2>2. ASSUME NEW i \in 1..(n - 1) PROVE u[i] \in ToSet(s)
    <3>1. i + 1 \in 1..n /\ u[i] = s[i + 1]
      BY <1>6
    <3> QED BY <1>6, <3>1 DEF ToSet
  <2>3. s[1] \in ToSet(s)
    BY <1>6 DEF ToSet
  <2>4. ToSet(s) \subseteq {s[1]} \cup ToSet(u)
    BY <1>6, <2>1 DEF ToSet
  <2>5. ToSet(u) \subseteq ToSet(s)
    <3> SUFFICES ASSUME NEW v \in ToSet(u) PROVE v \in ToSet(s)
      OBVIOUS
    <3>1. PICK i \in 1..(n - 1) : v = u[i]
      BY <1>6 DEF ToSet
    <3> QED BY <2>2, <3>1
  <2> QED BY <2>3, <2>4, <2>5
<1> QED BY <1>1, <1>4, <1>5, <1>7 DEF u

LEMMA UpdateTaskKeeps ==
    ASSUME PgInv, NEW c \in Session, UpdateTask(c)
    PROVE  PgInv'
<1> DEFINE x == tx[c]
           next == [x EXCEPT !.pc = IF Len(x.todo) = 1 THEN "commit" ELSE @,
                             !.todo = Tail(@),
                             !.held.tasks = @ \cup {Head(x.todo)}]
<1>1. x \in Transaction /\ x.pc = "update_task" /\ x.call \in Command
  BY UnderWayFacts DEF UpdateTask, At
<1>2. BlockedBy(c) = {} /\ Continue(c, next)
  BY DEF UpdateTask, At
<1>3. Decided(c) /\ Numbered(c) /\ Inserted(c)
  BY <1>1 DEF PgInv, Inserted
<1>4. x.todo # <<>> /\ x.todo \in Seq(Task)
  BY <1>1, <1>3 DEF Decided, Transaction
<1>5. /\ Head(x.todo) \in Task /\ Tail(x.todo) \in Seq(Task)
      /\ ToSet(x.todo) = {Head(x.todo)} \cup ToSet(Tail(x.todo))
      /\ (Tail(x.todo) = <<>>) <=> (Len(x.todo) = 1)
  BY <1>4, TailFacts
<1>6. /\ next \in Transaction
      /\ next.pc = IF Len(x.todo) = 1 THEN "commit" ELSE "update_task"
      /\ next.call = x.call /\ next.base = x.base /\ next.entries = x.entries
      /\ next.changed = x.changed /\ next.todo = Tail(x.todo)
      /\ next.held.tasks = x.held.tasks \cup {Head(x.todo)} /\ next.held.keys = x.held.keys
  <2> DEFINE pc == IF Len(x.todo) = 1 THEN "commit" ELSE x.pc
             todo == Tail(x.todo)
             h == x.held.tasks \cup {Head(x.todo)}
  <2>1. pc \in PC /\ todo \in Seq(Task) /\ h \in SUBSET Task
    BY <1>1, <1>5 DEF Transaction, PC
  <2>2. next = [x EXCEPT !.pc = pc, !.todo = todo, !.held.tasks = h]
    BY <1>1 DEF Transaction
  <2>3. pc = IF Len(x.todo) = 1 THEN "commit" ELSE "update_task"
    BY <1>1
  <2> HIDE DEF pc, todo, h, next, x
  <2>4. /\ next \in Transaction
        /\ next.pc = pc /\ next.call = x.call /\ next.base = x.base /\ next.entries = x.entries
        /\ next.changed = x.changed /\ next.todo = todo
        /\ next.held.tasks = h /\ next.held.keys = x.held.keys
    BY <1>1, <2>1, <2>2 DEF Transaction
  <2> QED BY <2>3, <2>4 DEF todo, h
<1> HIDE DEF next
<1>7. tx'[c] = next /\ version' = version /\ log' = log /\ rows' = rows
  BY <1>2 DEF Continue, PgInv, storeVars
<1>8. UnderWay(c)'
  BY <1>1, <1>6, <1>7 DEF UnderWay, CommandUnderWay
<1>9. Numbered(c)'
  <2>1. Keys(c)' = Keys(c)
    BY <1>6, <1>7 DEF Keys
  <2> QED BY <1>3, <1>6, <1>7, <2>1 DEF Numbered
<1>10. Decided(c)'
  BY <1>1, <1>3, <1>5, <1>6, <1>7 DEF Decided
<1>11. Selected(c)'
  BY <1>1, <1>6, <1>7, CallFacts DEF Selected
<1>12. \A d \in Session \ {c} : ~Inserted(d)
  BY <1>3 DEF PgInv, InsertAlone
<1>13. ASSUME NEW d \in Session \ {c} PROVE next.held.tasks \cap tx[d].held.tasks = {}
  <2>1. Head(x.todo) \notin tx[d].held.tasks
    BY <1>1, <1>2 DEF BlockedBy
  <2>2. x.held.tasks \cap tx[d].held.tasks = {}
    BY DEF PgInv, LocksApart
  <2> QED BY <1>6, <2>1, <2>2
<1>14. next.pc # "idle"
  BY <1>6
<1> HIDE DEF x
<1> QED BY <1>2, <1>6, <1>8, <1>9, <1>10, <1>11, <1>12, <1>13, <1>14, ContinueKeeps

\* A lease takes a row that is available and that nobody has locked.
LEMMA SelectTaskKeeps ==
    ASSUME PgInv, NEW c \in Session, NEW t \in Task, NEW w \in Worker, SelectTask(c, t, w)
    PROVE  PgInv'
<1> DEFINE call == [op |-> "lease", task |-> t, worker |-> w, next |-> {}]
           entry == NewEntry("task.leased", t, w)
           changed == [u \in {t} |-> LeasedBy(w)]
           next == [Idle EXCEPT !.pc = "number", !.call = call, !.entries = <<entry>>,
                                !.changed = changed, !.held.tasks = {t}]
<1>1. Continue(c, next) /\ rows[t] = Available /\ \A d \in Session : t \notin tx[d].held.tasks
  BY DEF SelectTask
<1>2. call \in DirectWrite /\ call.op = "lease" /\ call.task = t /\ call.worker = w
  BY DEF DirectWrite
<1>3. <<entry>> \in Seq(Entry)
  BY EntryFacts DEF EntryType
<1>4. changed \in UNION {[T -> Row] : T \in SUBSET Task}
  <2>1. changed \in [{t} -> Row]
    BY RowFacts
  <2> QED BY <2>1
<1> HIDE DEF call, entry, changed
<1>5. /\ next \in Transaction
      /\ next.pc = "number" /\ next.call = call /\ next.base = 0 /\ next.entries = <<entry>>
      /\ next.changed = changed /\ next.held.tasks = {t}
  BY <1>2, <1>3, <1>4, IdleFacts DEF Transaction, PC
<1> HIDE DEF next
<1>6. tx'[c] = next /\ version' = version /\ log' = log /\ rows' = rows /\ version \in Nat
  BY <1>1 DEF Continue, PgInv, PgTypeOK, storeVars
<1>7. UnderWay(c)'
  <2>1. LeaseUnderWay(c)'
    BY <1>2, <1>5, <1>6 DEF LeaseUnderWay, entry, changed
  <2> QED BY <2>1 DEF UnderWay
<1>8. Numbered(c)' /\ ~Inserted(c)'
  BY <1>5, <1>6 DEF Numbered, Inserted
<1>9. Decided(c)'
  BY <1>2, <1>5, <1>6, CallFacts DEF Decided
<1>10. Selected(c)'
  BY <1>1, <1>2, <1>5, <1>6 DEF Selected
<1> QED BY <1>1, <1>5, <1>7, <1>8, <1>9, <1>10, ContinueKeeps

LEMMA CheckLeaseKeeps ==
    ASSUME PgInv, NEW c \in Session, NEW t \in Task, NEW w \in Worker, CheckLease(c, t, w)
    PROVE  PgInv'
<1> DEFINE call == [op |-> "heartbeat", task |-> t, worker |-> w, next |-> {}]
           entry == NewEntry("task.heartbeat", t, w)
           next == [Idle EXCEPT !.pc = "renew", !.call = call, !.entries = <<entry>>]
<1>1. Continue(c, next)
  BY DEF CheckLease
<1>2. call \in DirectWrite /\ call.op = "heartbeat" /\ call.task = t /\ call.worker = w
  BY DEF DirectWrite
<1>3. <<entry>> \in Seq(Entry)
  BY EntryFacts DEF EntryType
<1>4. DOMAIN Idle.changed = {}
  BY DEF Idle
<1> HIDE DEF call, entry
<1>5. /\ next \in Transaction
      /\ next.pc = "renew" /\ next.call = call /\ next.base = 0 /\ next.entries = <<entry>>
      /\ next.changed = Idle.changed /\ next.held.tasks = {}
  BY <1>2, <1>3, IdleFacts DEF Transaction, PC
<1> HIDE DEF next
<1>6. tx'[c] = next /\ version' = version /\ log' = log /\ rows' = rows /\ version \in Nat
  BY <1>1 DEF Continue, PgInv, PgTypeOK, storeVars
<1>7. UnderWay(c)'
  <2>1. HeartbeatUnderWay(c)'
    BY <1>2, <1>4, <1>5, <1>6 DEF HeartbeatUnderWay, entry
  <2> QED BY <2>1 DEF UnderWay
<1>8. Numbered(c)' /\ ~Inserted(c)'
  BY <1>5, <1>6 DEF Numbered, Inserted
<1>9. Decided(c)'
  BY <1>2, <1>5, <1>6, CallFacts DEF Decided
<1>10. Selected(c)'
  BY <1>2, <1>5, <1>6 DEF Selected
<1> QED BY <1>1, <1>5, <1>7, <1>8, <1>9, <1>10, ContinueKeeps

\* A step of a direct write that goes on from one place to the next.
LEMMA DirectWriteKeeps ==
    ASSUME PgInv, NEW c \in Session, NEW next \in Transaction, Continue(c, next),
           tx[c].call \in DirectWrite,
           \/ next.pc \in {"number", "insert"}
           \/ /\ next.pc = "commit" /\ Inserted(c)
              /\ next.base = tx[c].base /\ next.held.keys = tx[c].held.keys,
           next.base <= version,
           next.call = tx[c].call, next.entries = tx[c].entries, next.changed = tx[c].changed,
           next.call.op = "lease" => next.held.tasks = tx[c].held.tasks,
           \A d \in Session \ {c} : next.held.tasks \cap tx[d].held.tasks = {}
    PROVE  PgInv'
<1>1. tx'[c] = next /\ version' = version /\ log' = log /\ rows' = rows
  BY DEF Continue, PgInv, storeVars
<1>2. next.pc \in {"number", "insert", "commit"}
  OBVIOUS
<1>3. UnderWay(c)'
  <2>1. CASE LeaseUnderWay(c)
    BY <1>1, <1>2, <2>1 DEF UnderWay, LeaseUnderWay
  <2>2. CASE HeartbeatUnderWay(c)
    BY <1>1, <1>2, <2>2 DEF UnderWay, HeartbeatUnderWay
  <2> QED BY <2>1, <2>2, UnderWayFacts
<1>4. Numbered(c)'
  <2>1. Numbered(c)
    BY DEF PgInv
  <2>2. Inserted(c)' => next.pc = "commit"
    BY <1>1, <1>2 DEF Inserted
  <2>3. next.base = tx[c].base => Keys(c)' = Keys(c)
    BY <1>1 DEF Keys
  <2> QED BY <1>1, <2>1, <2>2, <2>3 DEF Numbered
<1>5. Decided(c)'
  BY <1>1, CallFacts DEF Decided
<1>6. Selected(c)'
  <2>1. Selected(c)
    BY DEF PgInv
  <2> QED BY <1>1, <2>1 DEF Selected
<1>7. ASSUME Inserted(c)', NEW d \in Session \ {c} PROVE ~Inserted(d)
  <2>1. Inserted(c)
    BY <1>1, <1>2, <1>7 DEF Inserted
  <2> QED BY <2>1 DEF PgInv, InsertAlone
<1>8. next.pc # "idle"
  BY <1>2
<1> QED BY <1>3, <1>4, <1>5, <1>6, <1>7, <1>8, ContinueKeeps

LEMMA RenewLeaseKeeps ==
    ASSUME PgInv, NEW c \in Session, RenewLease(c)
    PROVE  PgInv'
<1> DEFINE x == tx[c]
           t == x.call.task
           h == IF rows[t].owner = x.call.worker THEN {t} ELSE {}
           next == [x EXCEPT !.pc = "number", !.held.tasks = h]
<1>1. x \in Transaction /\ x.pc = "renew" /\ x.call \in DirectWrite
  BY UnderWayFacts DEF RenewLease, At
<1>2. BlockedBy(c) = {} /\ Continue(c, next)
  BY DEF RenewLease, At
<1>3. x.call.op = "heartbeat"
  BY <1>1, UnderWayFacts DEF LeaseUnderWay, HeartbeatUnderWay
<1>4. t \in Task /\ h \in SUBSET Task /\ h \subseteq {t}
  BY <1>1, CallFacts
<1>5. h # {} => \A d \in Session \ {c} : t \notin tx[d].held.tasks
  BY <1>1, <1>2 DEF BlockedBy
<1>6. x.base <= version
  BY DEF PgInv, Numbered
<1> HIDE DEF h
<1>7. /\ next \in Transaction
      /\ next.pc = "number" /\ next.call = x.call /\ next.base = x.base
      /\ next.entries = x.entries /\ next.changed = x.changed /\ next.held.tasks = h
  BY <1>1, <1>4 DEF Transaction, PC
<1> HIDE DEF next
<1>8. \A d \in Session \ {c} : next.held.tasks \cap tx[d].held.tasks = {}
  BY <1>4, <1>5, <1>7
<1>9. next.call.op # "lease"
  BY <1>3, <1>7
<1>10. next.pc \in {"number", "insert"} /\ next.base <= version
  BY <1>6, <1>7
<1> QED BY <1>1, <1>2, <1>7, <1>8, <1>9, <1>10, DirectWriteKeeps

LEMMA NextSequenceKeeps ==
    ASSUME PgInv, NEW c \in Session, NextSequence(c)
    PROVE  PgInv'
<1> DEFINE x == tx[c]
           next == [x EXCEPT !.pc = "insert", !.base = Len(log)]
<1>1. x \in Transaction /\ x.pc = "number" /\ x.call \in DirectWrite /\ Continue(c, next)
  BY UnderWayFacts DEF NextSequence, At
<1>2. Len(log) = version /\ Len(log) \in Nat
  <2>1. version \in Nat /\ log \in Seq(Entry) /\ DOMAIN log = 1..version
    BY DEF PgInv, PgTypeOK, VersionCountsLog
  <2> QED BY <2>1, LenProperties
<1>3. /\ next \in Transaction
      /\ next.pc = "insert" /\ next.call = x.call /\ next.base = version
      /\ next.entries = x.entries /\ next.changed = x.changed /\ next.held = x.held
  BY <1>1, <1>2 DEF Transaction, PC
<1> HIDE DEF next
<1>4. \A d \in Session \ {c} : next.held.tasks \cap tx[d].held.tasks = {}
  BY <1>3 DEF PgInv, LocksApart
<1>5. next.pc \in {"number", "insert"} /\ next.base <= version
  BY <1>2, <1>3
<1> QED BY <1>1, <1>3, <1>4, <1>5, DirectWriteKeeps

LEMMA BumpRunVersionKeeps ==
    ASSUME PgInv, NEW c \in Session, BumpRunVersion(c)
    PROVE  PgInv'
<1> DEFINE x == tx[c]
           next == [x EXCEPT !.pc = "commit", !.held.run = TRUE]
<1>1. x \in Transaction /\ x.pc = "bump_run" /\ x.call \in DirectWrite /\ Continue(c, next)
  BY UnderWayFacts DEF BumpRunVersion, At
<1>2. Inserted(c) /\ x.base <= version
  BY <1>1 DEF PgInv, Inserted, Numbered
<1>3. /\ next \in Transaction
      /\ next.pc = "commit" /\ next.call = x.call /\ next.base = x.base
      /\ next.entries = x.entries /\ next.changed = x.changed
      /\ next.held.tasks = x.held.tasks /\ next.held.keys = x.held.keys
  BY <1>1 DEF Transaction, PC
<1> HIDE DEF next
<1>4. \A d \in Session \ {c} : next.held.tasks \cap tx[d].held.tasks = {}
  BY <1>3 DEF PgInv, LocksApart
<1>5. next.base <= version
  BY <1>2, <1>3
<1> QED BY <1>1, <1>2, <1>3, <1>4, <1>5, DirectWriteKeeps

-----------------------------------------------------------------------------
(***************************************************************************)
(* A commit.                                                               *)
(***************************************************************************)
LEMMA CommitAppends ==
    ASSUME PgInv, NEW c \in Session, CommitTx(c)
    PROVE  /\ tx[c].pc = "commit" /\ Inserted(c) /\ tx[c].base = version
           /\ version \in Nat /\ log \in Seq(Entry) /\ Len(log) = version
           /\ tx[c].entries \in Seq(Entry) /\ Len(tx[c].entries) \in Nat \ {0}
           /\ log' = log \o tx[c].entries /\ log' \in Seq(Entry)
           /\ version' = version + Len(tx[c].entries) /\ version' > version
           /\ DOMAIN log' = 1..version'
<1> DEFINE es == tx[c].entries
           n == Len(es)
<1>1. tx[c].pc = "commit" /\ Inserted(c)
  BY DEF CommitTx, At, Inserted
<1>2. tx[c].base = version
  BY <1>1 DEF PgInv, Numbered
<1>3. es \in Seq(Entry) /\ n > 0
  BY <1>1, UnderWayFacts DEF Transaction
<1>4. n \in Nat \ {0} /\ DOMAIN es = 1..n
  BY <1>3, LenProperties
<1>5. version \in Nat /\ log \in Seq(Entry) /\ DOMAIN log = 1..version
  BY DEF PgInv, PgTypeOK, VersionCountsLog
<1>6. Len(log) = version
  BY <1>5, LenProperties
<1>7. version' = version + n
  BY <1>2 DEF CommitTx
<1>8. Keys(c) = {version + i : i \in 1..n}
  BY <1>2, <1>4 DEF Keys
<1>9. log' = [k \in (1..version) \cup Keys(c) |->
                IF k \in Keys(c) THEN es[k - version] ELSE log[k]]
  BY <1>2, <1>5 DEF CommitTx
<1> HIDE DEF n, es
<1>10. (1..version) \cup Keys(c) = 1..(version + n)
  <2>1. ASSUME NEW k \in 1..(version + n), k \notin 1..version PROVE k \in Keys(c)
    <3>1. k - version \in 1..n /\ version + (k - version) = k
      BY <1>4, <1>5, <2>1
    <3> QED BY <1>8, <3>1
  <2>2. ASSUME NEW k \in Keys(c) PROVE k \in 1..(version + n)
    BY <1>4, <1>5, <1>8
  <2>3. 1..version \subseteq 1..(version + n)
    BY <1>4, <1>5
  <2> QED BY <2>1, <2>2, <2>3
<1>11. \A k \in 1..(version + n) : log'[k] = IF k <= version THEN log[k] ELSE es[k - version]
  <2> TAKE k \in 1..(version + n)
  <2>1. log'[k] = IF k \in Keys(c) THEN es[k - version] ELSE log[k]
    BY <1>9, <1>10
  <2>2. k \in Keys(c) <=> ~(k <= version)
    <3>1. CASE k <= version
      BY <1>4, <1>5, <1>8, <3>1
    <3>2. CASE ~(k <= version)
      <4>1. k \notin 1..version
        BY <1>5, <3>2
      <4> QED BY <1>10, <3>2, <4>1
    <3> QED BY <3>1, <3>2
  <2> QED BY <2>1, <2>2
<1>12. DOMAIN log' = 1..(version + n) /\ version + n \in Nat
  BY <1>4, <1>5, <1>9, <1>10
<1>13. log' \in Seq(Entry)
  <2>1. ASSUME NEW k \in 1..(version + n) PROVE log'[k] \in Entry
    <3>1. CASE k <= version
      <4>1. k \in 1..Len(log)
        BY <1>5, <1>6, <3>1
      <4> QED BY <1>5, <1>11, <3>1, <4>1, ElementOfSeq
    <3>2. CASE ~(k <= version)
      <4>1. k - version \in 1..n
        BY <1>4, <1>5, <3>2
      <4> QED BY <1>3, <1>11, <3>2, <4>1, ElementOfSeq DEF n
    <3> QED BY <3>1, <3>2
  <2>2. log' \in [1..(version + n) -> Entry]
    BY <1>9, <1>10, <2>1
  <2> QED BY <1>12, <2>2, SeqDef
<1>14. Len(log') = version + n
  BY <1>12, <1>13, LenProperties
<1>15. log' = log \o es
  <2>1. /\ log \o es \in Seq(Entry) /\ Len(log \o es) = version + n
        /\ \A k \in 1..(version + n) : (log \o es)[k] = IF k <= version THEN log[k] ELSE es[k - version]
    BY <1>3, <1>5, <1>6, ConcatProperties DEF n
  <2> DEFINE a == log'
             b == log \o es
  <2>2. a \in Seq(Entry) /\ b \in Seq(Entry) /\ Len(a) = Len(b) /\ \A k \in 1..Len(a) : a[k] = b[k]
    BY <1>11, <1>13, <1>14, <2>1
  <2> HIDE DEF a, b
  <2>3. a = b
    BY <2>2, SeqEqual
  <2> QED BY <2>3 DEF a, b
<1>16. version' > version
  BY <1>4, <1>5, <1>7
<1> QED BY <1>1, <1>2, <1>3, <1>4, <1>5, <1>6, <1>7, <1>12, <1>13, <1>15, <1>16 DEF n, es

\* The three kinds of commit are the three operations of the store.
RowsAfter(c) == [u \in Task |-> IF u \in DOMAIN tx[c].changed THEN tx[c].changed[u] ELSE rows[u]]

LEMMA CommandCommits ==
    ASSUME PgInv, NEW c \in Session, CommitTx(c), tx[c].call \in Command
    PROVE  /\ AppendRunChanges(tx[c].call)
           /\ tx[c].changed = RowsOf(log, tx[c].call)
           /\ DOMAIN tx[c].changed \subseteq tx[c].held.tasks \cup tx[c].call.next
           /\ Permitted(log, tx[c].call)
           /\ tx[c].entries = EntriesOf(log, tx[c].call)
<1>1. /\ tx[c].pc = "commit" /\ tx[c].base = version /\ Len(log) = version
      /\ log' = log \o tx[c].entries /\ version' = version + Len(tx[c].entries)
  BY CommitAppends
<1>2. Decided(c)
  BY DEF PgInv
<1>3. /\ Permitted(log, tx[c].call)
      /\ tx[c].entries = EntriesOf(log, tx[c].call)
      /\ tx[c].changed = RowsOf(log, tx[c].call)
      /\ DOMAIN tx[c].changed \ tx[c].call.next \subseteq tx[c].held.tasks \cup ToSet(tx[c].todo)
      /\ tx[c].todo = <<>>
  BY <1>1, <1>2 DEF Decided
<1>4. ToSet(tx[c].todo) = {}
  BY <1>3 DEF ToSet
<1>5. rows' = RowsAfter(c)
  BY DEF CommitTx, RowsAfter
<1>6. Record(EntriesOf(log, tx[c].call), RowsOf(log, tx[c].call))
  BY <1>1, <1>3, <1>5 DEF Record, RowsAfter
<1> QED BY <1>3, <1>4, <1>6 DEF AppendRunChanges

LEMMA LeaseCommits ==
    ASSUME PgInv, NEW c \in Session, CommitTx(c), LeaseUnderWay(c)
    PROVE  LeaseTask(tx[c].call.task, tx[c].call.worker)
<1>1. /\ tx[c].base = version /\ Len(log) = version
      /\ log' = log \o tx[c].entries /\ version' = version + Len(tx[c].entries)
  BY CommitAppends
<1>2. Selected(c)
  BY DEF PgInv
<1>3. rows[tx[c].call.task] = Available
  BY <1>2 DEF Selected, LeaseUnderWay
<1>4. rows' = RowsAfter(c)
  BY DEF CommitTx, RowsAfter
<1> QED BY <1>1, <1>3, <1>4 DEF LeaseTask, Record, LeaseUnderWay, RowsAfter

LEMMA HeartbeatCommits ==
    ASSUME PgInv, NEW c \in Session, CommitTx(c), HeartbeatUnderWay(c)
    PROVE  Record(<<NewEntry("task.heartbeat", tx[c].call.task, tx[c].call.worker)>>, <<>>)
<1>1. /\ tx[c].base = version /\ Len(log) = version
      /\ log' = log \o tx[c].entries /\ version' = version + Len(tx[c].entries)
  BY CommitAppends
<1>2. rows' = RowsAfter(c)
  BY DEF CommitTx, RowsAfter
<1>3. rows' = [u \in Task |-> IF u \in DOMAIN <<>> THEN <<>>[u] ELSE rows[u]]
  BY <1>2 DEF HeartbeatUnderWay, RowsAfter
<1> QED BY <1>1, <1>3 DEF Record, HeartbeatUnderWay

\* An operation of the store keeps the status of the rows what the log derives,
\* and a row that no operation was given stays.
LEMMA CommitRows ==
    ASSUME PgInv, NEW c \in Session, CommitTx(c)
    PROVE  /\ rows' \in [Task -> Row]
           /\ StatusFollowsLog'
           /\ \A u \in Task : rows[u] = Available /\ u \notin tx[c].held.tasks => rows'[u] = Available
<1>1. /\ log \in Seq(Entry) /\ log' = log \o tx[c].entries
      /\ rows \in [Task -> Row] /\ StatusFollowsLog
  BY CommitAppends DEF PgInv, PgTypeOK
<1>2. tx[c].pc = "commit" /\ tx[c] \in Transaction
  BY CommitAppends, UnderWayFacts
<1>3. rows' = RowsAfter(c)
  BY DEF CommitTx, RowsAfter
<1>4. \A u \in Task : rows'[u] = IF u \in DOMAIN tx[c].changed THEN tx[c].changed[u] ELSE rows[u]
  BY <1>3 DEF RowsAfter
<1>5. CASE tx[c].call \in Command
  <2> DEFINE cmd == tx[c].call
             ch == RowsOf(log, cmd)
  <2>1. /\ tx[c].changed = ch /\ DOMAIN ch \subseteq tx[c].held.tasks \cup cmd.next
        /\ Permitted(log, cmd) /\ tx[c].entries = EntriesOf(log, cmd)
    BY <1>5, CommandCommits
  <2>2. /\ ch \in [Updates(log, cmd) \cup cmd.next -> Row]
        /\ \A u \in Task : Derived(log \o EntriesOf(log, cmd), u) =
              IF u \in DOMAIN ch THEN ch[u] ELSE Derived(log, u)
    BY <1>1, <1>5, CommandRecords
  <2>3. \A u \in cmd.next : Derived(log, u).status = "none"
    BY <1>5, <2>1, CommandFacts DEF Permitted
  <2> HIDE DEF cmd, ch
  <2>4. rows' \in [Task -> Row]
    BY <1>1, <1>3, <2>1, <2>2 DEF RowsAfter
  <2>5. ASSUME NEW u \in Task PROVE rows'[u].status = Derived(log', u).status
    <3>1. rows[u].status = Derived(log, u).status
      BY <1>1 DEF StatusFollowsLog
    <3> QED BY <1>1, <1>4, <2>1, <2>2, <3>1
  <2>6. ASSUME NEW u \in Task, rows[u] = Available, u \notin tx[c].held.tasks
        PROVE  rows'[u] = Available
    <3>1. Derived(log, u).status = "available"
      BY <1>1, <2>6, RowFacts DEF StatusFollowsLog
    <3>2. u \notin cmd.next
      BY <2>3, <3>1
    <3>3. u \notin DOMAIN tx[c].changed
      BY <2>1, <2>6, <3>2
    <3> QED BY <1>4, <2>6, <3>3
  <2>7. StatusFollowsLog'
    BY <2>5 DEF StatusFollowsLog
  <2> QED BY <2>4, <2>6, <2>7
<1>6. CASE LeaseUnderWay(c)
  <2> DEFINE t == tx[c].call.task
             w == tx[c].call.worker
             e == NewEntry("task.leased", t, w)
  <2>1. /\ tx[c].entries = <<e>> /\ tx[c].changed = [u \in {t} |-> LeasedBy(w)]
        /\ t \in Task /\ w \in Worker /\ t \in tx[c].held.tasks
    BY <1>6, CallFacts DEF LeaseUnderWay, PgInv, Selected
  <2>2. e \in Entry /\ e.type = "task.leased" /\ e.task = t /\ e.worker = w
    BY <2>1, EntryFacts DEF EntryType
  <2> HIDE DEF e, t, w
  <2>3. \A u : Derived(log', u) = ReplayFor(u, Derived(log, u), e)
    BY <1>1, <2>1, <2>2, DerivedOneMore
  <2>4. \A u : ReplayFor(u, Derived(log, u), e) = IF u = t THEN LeasedBy(w) ELSE Derived(log, u)
    BY <2>2 DEF ReplayFor, ReplayEntry
  <2>5. \A u \in Task : rows'[u] = IF u = t THEN LeasedBy(w) ELSE rows[u]
    BY <1>4, <2>1
  <2>6. rows' \in [Task -> Row]
    BY <1>1, <1>3, <2>1, <2>5, RowFacts DEF RowsAfter
  <2>7. StatusFollowsLog'
    BY <1>1, <2>3, <2>4, <2>5 DEF StatusFollowsLog
  <2> QED BY <2>1, <2>5, <2>6, <2>7
<1>7. CASE HeartbeatUnderWay(c)
  <2> DEFINE t == tx[c].call.task
             w == tx[c].call.worker
             e == NewEntry("task.heartbeat", t, w)
  <2>1. tx[c].entries = <<e>> /\ DOMAIN tx[c].changed = {} /\ t \in Task /\ w \in Worker
    BY <1>7, CallFacts DEF HeartbeatUnderWay
  <2>2. e \in Entry /\ e.type = "task.heartbeat" /\ e.task = t /\ e.worker = w
    BY <2>1, EntryFacts DEF EntryType
  <2> HIDE DEF e, t, w
  <2>3. \A u : Derived(log', u) = ReplayFor(u, Derived(log, u), e)
    BY <1>1, <2>1, <2>2, DerivedOneMore
  <2>4. \A u : ReplayFor(u, Derived(log, u), e).status = Derived(log, u).status
    BY <2>1, <2>2, RowFacts DEF ReplayFor, ReplayEntry
  <2>5. \A u \in Task : rows'[u] = rows[u]
    BY <1>4, <2>1
  <2>6. rows' \in [Task -> Row]
    BY <1>1, <1>3, <2>1 DEF RowsAfter
  <2>7. StatusFollowsLog'
    BY <1>1, <2>3, <2>4, <2>5 DEF StatusFollowsLog
  <2> QED BY <2>5, <2>6, <2>7
<1> QED BY <1>2, <1>5, <1>6, <1>7, UnderWayFacts

LEMMA CommitKeeps ==
    ASSUME PgInv, NEW c \in Session, CommitTx(c)
    PROVE  PgInv'
<1>1. /\ Inserted(c) /\ version \in Nat /\ version' > version
      /\ version' = version + Len(tx[c].entries) /\ Len(tx[c].entries) \in Nat \ {0}
      /\ log' \in Seq(Entry) /\ DOMAIN log' = 1..version'
  BY CommitAppends
<1>2. /\ rows' \in [Task -> Row] /\ StatusFollowsLog'
      /\ \A u \in Task : rows[u] = Available /\ u \notin tx[c].held.tasks => rows'[u] = Available
  BY CommitRows
<1>3. tx \in [Session -> Transaction] /\ tx' = [tx EXCEPT ![c] = Idle]
  BY DEF PgInv, CommitTx
<1>4. tx' \in [Session -> Transaction] /\ tx'[c] = Idle /\ \A d \in Session \ {c} : tx'[d] = tx[d]
  BY <1>3, IdleFacts
<1>5. version' \in Nat /\ 0 <= version'
  BY <1>1
<1>6. PgTypeOK'
  <2>1. ASSUME NEW d \in Session
        PROVE  /\ tx'[d].pc = "idle" => tx'[d].held = NoLocks
               /\ tx'[d] \in Transaction
    BY <1>4, IdleFacts DEF PgInv, PgTypeOK
  <2> QED BY <1>1, <1>2, <1>5, <2>1 DEF PgTypeOK, Transaction
<1>7. VersionCountsLog'
  BY <1>1 DEF VersionCountsLog
<1>8. UnderWay(c)' /\ Numbered(c)' /\ Decided(c)' /\ Selected(c)' /\ ~Inserted(c)'
  BY <1>4, <1>5, IdleFacts, CallFacts DEF UnderWay, Numbered, Decided, Selected, Inserted
<1>9. ASSUME NEW d \in Session \ {c}
      PROVE  UnderWay(d)' /\ Numbered(d)' /\ Decided(d)' /\ Selected(d)' /\ ~Inserted(d)'
  <2>1. /\ UnderWay(d) /\ Numbered(d) /\ Decided(d) /\ Selected(d)
        /\ tx'[d] = tx[d] /\ tx[d] \in Transaction
    BY <1>4 DEF PgInv
  <2>2. ~Inserted(d)
    BY <1>1 DEF PgInv, InsertAlone
  <2>3. UnderWay(d)'
    BY <2>1 DEF UnderWay, CommandUnderWay, LeaseUnderWay, HeartbeatUnderWay
  <2>4. ~Inserted(d)'
    BY <2>1, <2>2 DEF Inserted
  <2>5. tx[d].base \in Nat /\ tx[d].base <= version
    BY <2>1 DEF Numbered, Transaction
  <2>6. tx[d].base <= version' /\ tx[d].base # version'
    BY <1>1, <1>5, <2>5
  <2>7. Numbered(d)'
    BY <2>1, <2>4, <2>6 DEF Numbered
  <2>8. Decided(d)'
    BY <2>1, <2>6 DEF Decided
  <2>9. Selected(d)'
    <3> SUFFICES ASSUME tx[d].call.op = "lease"
                 PROVE  tx[d].call.task \in tx[d].held.tasks /\ rows'[tx[d].call.task] = Available
      BY <2>1 DEF Selected
    <3>1. tx[d].call \in DirectWrite
      BY <2>1, CallFacts DEF Transaction
    <3>2. /\ tx[d].call.task \in Task /\ tx[d].call.task \in tx[d].held.tasks
          /\ rows[tx[d].call.task] = Available
      BY <2>1, <3>1, CallFacts DEF Selected
    <3>3. tx[d].call.task \notin tx[c].held.tasks
      BY <3>2 DEF PgInv, LocksApart
    <3> QED BY <1>2, <3>2, <3>3
  <2> QED BY <2>3, <2>4, <2>7, <2>8, <2>9
<1>10. InsertAlone'
  BY <1>8, <1>9 DEF InsertAlone
<1>11. LocksApart'
  <2>1. tx'[c].held.tasks = {}
    BY <1>4, IdleFacts
  <2> QED BY <1>4, <2>1 DEF PgInv, LocksApart
<1> QED BY <1>2, <1>4, <1>6, <1>7, <1>8, <1>9, <1>10, <1>11 DEF PgInv

-----------------------------------------------------------------------------
(***************************************************************************)
(* The invariant, and what follows from it.                                *)
(***************************************************************************)
LEMMA PgInitInv == PgInit => PgInv
<1> SUFFICES ASSUME PgInit PROVE PgInv
  OBVIOUS
<1>1. /\ log = EntryForEach("task.scheduled", Root) /\ version = Len(log)
      /\ rows = [t \in Task |-> IF t \in Root THEN Available ELSE Unscheduled]
      /\ tx = [c \in Session |-> Idle]
  BY DEF PgInit, Init
<1>2. Root \in SUBSET Task
  BY AtomicStoreAssumption
<1>3. log \in Seq(Entry)
  BY <1>1, <1>2, EntryForEachType DEF EntryType
<1>4. version \in Nat /\ DOMAIN log = 1..version
  BY <1>1, <1>3, LenProperties
<1>5. rows \in [Task -> Row]
  BY <1>1, RowFacts
<1>6. tx \in [Session -> Transaction] /\ \A c \in Session : tx[c] = Idle
  BY <1>1, IdleFacts
<1>7. PgTypeOK
  <2>1. ASSUME NEW c \in Session
        PROVE  /\ tx[c].pc = "idle" => tx[c].held = NoLocks
               /\ tx[c] \in Transaction
    BY <1>6, IdleFacts
  <2> QED BY <1>3, <1>4, <1>5, <2>1 DEF PgTypeOK, Transaction
<1>8. StatusFollowsLog
  <2>1. ASSUME NEW t \in Task PROVE rows[t].status = Derived(log, t).status
    <3>1. <<>> \in Seq(Entry) /\ <<>> \o log = log
      BY <1>3, ConcatEmptySeq
    <3>2. Derived(<<>> \o EntryForEach("task.scheduled", Root), t) =
            IF t \in Root THEN EntryMany("task.scheduled") ELSE Derived(<<>>, t)
      <4> DEFINE l == <<>>
      <4>1. l \in Seq(Entry)
        BY <3>1
      <4> HIDE DEF l
      <4>2. Derived(l \o EntryForEach("task.scheduled", Root), t) =
              IF t \in Root THEN EntryMany("task.scheduled") ELSE Derived(l, t)
        BY <1>2, <4>1, DerivedMany
      <4> QED BY <4>2 DEF l
    <3>3. Derived(log, t) = IF t \in Root THEN Available ELSE Unscheduled
      BY <1>1, <3>1, <3>2, DerivedEmpty DEF EntryMany
    <3> QED BY <1>1, <3>3
  <2> QED BY <2>1 DEF StatusFollowsLog
<1>9. ASSUME NEW c \in Session
      PROVE  UnderWay(c) /\ Numbered(c) /\ Decided(c) /\ Selected(c) /\ ~Inserted(c)
  <2>1. tx[c] = Idle /\ 0 <= version
    BY <1>4, <1>6
  <2> QED BY <2>1, IdleFacts, CallFacts DEF UnderWay, Numbered, Decided, Selected, Inserted
<1>10. InsertAlone /\ LocksApart
  BY <1>6, <1>9, IdleFacts DEF InsertAlone, LocksApart
<1> QED BY <1>4, <1>6, <1>7, <1>8, <1>9, <1>10 DEF PgInv, VersionCountsLog

LEMMA PgStepInv ==
    ASSUME PgInv, [PgNext]_pgVars
    PROVE  PgInv'
<1>1. CASE UNCHANGED pgVars
  <2>1. version' = version /\ log' = log /\ rows' = rows /\ tx' = tx
    BY <1>1 DEF pgVars, storeVars
  <2>2. PgTypeOK' /\ VersionCountsLog' /\ StatusFollowsLog'
    BY <2>1 DEF PgInv, PgTypeOK, VersionCountsLog, StatusFollowsLog
  <2>3. ASSUME NEW c \in Session
        PROVE  UnderWay(c)' /\ Numbered(c)' /\ Decided(c)' /\ Selected(c)' /\ (Inserted(c)' <=> Inserted(c))
    <3>1. UnderWay(c) /\ Numbered(c) /\ Decided(c) /\ Selected(c)
      BY DEF PgInv
    <3>2. UnderWay(c)'
      BY <2>1, <3>1 DEF UnderWay, CommandUnderWay, LeaseUnderWay, HeartbeatUnderWay
    <3>3. Numbered(c)' /\ (Inserted(c)' <=> Inserted(c))
      BY <2>1, <3>1 DEF Numbered, Inserted, Keys
    <3>4. Decided(c)' /\ Selected(c)'
      BY <2>1, <3>1 DEF Decided, Selected
    <3> QED BY <3>2, <3>3, <3>4
  <2>4. InsertAlone' /\ LocksApart'
    BY <2>1, <2>3 DEF PgInv, InsertAlone, LocksApart
  <2>5. tx' \in [Session -> Transaction]
    BY <2>1 DEF PgInv
  <2> QED BY <2>2, <2>3, <2>4, <2>5 DEF PgInv
<1>2. ASSUME NEW c \in Session, BeginCommand(c) PROVE PgInv'
  BY <1>2, BeginCommandKeeps
<1>3. ASSUME NEW c \in Session, NEW t \in Task, NEW w \in Worker,
             SelectTask(c, t, w) \/ CheckLease(c, t, w)
      PROVE  PgInv'
  BY <1>3, SelectTaskKeeps, CheckLeaseKeeps
<1>4. ASSUME NEW c \in Session, PgStep(c) PROVE PgInv'
  <2>1. CASE Load(c) \/ UpdateRun(c) \/ InsertEvents(c) \/ UpdateTask(c)
    BY <2>1, LoadKeeps, UpdateRunKeeps, InsertEventsKeeps, UpdateTaskKeeps
  <2>2. CASE RenewLease(c) \/ NextSequence(c) \/ BumpRunVersion(c)
    BY <2>2, RenewLeaseKeeps, NextSequenceKeeps, BumpRunVersionKeeps
  <2>3. CASE CommitTx(c)
    BY <2>3, CommitKeeps
  <2>4. CASE Refused(c)
    BY <2>4, EndKeeps DEF Refused
  <2> QED BY <1>4, <2>1, <2>2, <2>3, <2>4 DEF PgStep
<1>5. ASSUME NEW c \in Session, Abort(c) PROVE PgInv'
  BY <1>5, EndKeeps DEF Abort
<1> QED BY <1>1, <1>2, <1>3, <1>4, <1>5 DEF PgNext

(***************************************************************************)
(* The invariant holds whatever number of sessions interleave.             *)
(***************************************************************************)
THEOREM PgInvariantHolds == PgSpec => []PgInv
<1>1. PgInit => PgInv
  BY PgInitInv
<1>2. PgInv /\ [PgNext]_pgVars => PgInv'
  BY PgStepInv
<1> QED BY <1>1, <1>2, PTL DEF PgSpec

(***************************************************************************)
(* Every variable keeps its type, and a call that is over holds no lock:   *)
(* no statement, conflict or refusal leaves one behind.                    *)
(***************************************************************************)
THEOREM PgTypeCorrect == PgSpec => []PgTypeOK
<1>1. PgInv => PgTypeOK
  BY DEF PgInv
<1> QED BY <1>1, PgInvariantHolds, PTL

(***************************************************************************)
(* No two transactions commit the same number, and none leaves a gap.      *)
(***************************************************************************)
THEOREM NumbersAreConsecutive == PgSpec => []VersionCountsLog
<1>1. PgInv => VersionCountsLog
  BY DEF PgInv
<1> QED BY <1>1, PgInvariantHolds, PTL

(***************************************************************************)
(* The status of every task row is the one that replaying the log gives,   *)
(* although a heartbeat may be recorded that its check no longer covers.   *)
(***************************************************************************)
THEOREM StatusIsDerived == PgSpec => []StatusFollowsLog
<1>1. PgInv => StatusFollowsLog
  BY DEF PgInv
<1> QED BY <1>1, PgInvariantHolds, PTL

\* Only a commit is seen outside, and it is an operation of the store.
LEMMA PgStepImplements ==
    ASSUME PgInv, [PgNext]_pgVars, StrayHeartbeats
    PROVE  [Next]_storeVars
<1>1. CASE UNCHANGED pgVars
  BY <1>1 DEF pgVars
<1>2. ASSUME NEW c \in Session, BeginCommand(c) PROVE UNCHANGED storeVars
  BY <1>2 DEF BeginCommand, Continue
<1>3. ASSUME NEW c \in Session, NEW t \in Task, NEW w \in Worker,
             SelectTask(c, t, w) \/ CheckLease(c, t, w)
      PROVE  UNCHANGED storeVars
  BY <1>3 DEF SelectTask, CheckLease, Continue
<1>4. ASSUME NEW c \in Session,
             Load(c) \/ UpdateRun(c) \/ InsertEvents(c) \/ UpdateTask(c) \/ RenewLease(c)
               \/ NextSequence(c) \/ BumpRunVersion(c) \/ Refused(c) \/ Abort(c)
      PROVE  UNCHANGED storeVars
  BY <1>4 DEF Load, UpdateRun, InsertEvents, UpdateTask, RenewLease, NextSequence, BumpRunVersion,
              Refused, Abort, End, Continue
<1>5. ASSUME NEW c \in Session, CommitTx(c) PROVE Next
  <2>1. tx[c].pc # "idle"
    BY <1>5, CommitAppends
  <2>2. CASE tx[c].call \in Command
    BY <1>5, <2>2, CommandCommits DEF Next
  <2>3. CASE LeaseUnderWay(c)
    <3>1. tx[c].call.task \in Task /\ tx[c].call.worker \in Worker
      BY <2>3, CallFacts DEF LeaseUnderWay
    <3> QED BY <1>5, <2>3, <3>1, LeaseCommits DEF Next
  <2>4. CASE HeartbeatUnderWay(c)
    <3>1. tx[c].call.task \in Task /\ tx[c].call.worker \in Worker
      BY <2>4, CallFacts DEF HeartbeatUnderWay
    <3>2. HeartbeatTask(tx[c].call.task, tx[c].call.worker)
      BY <1>5, <2>4, HeartbeatCommits DEF HeartbeatTask
    <3> QED BY <3>1, <3>2 DEF Next
  <2> QED BY <2>1, <2>2, <2>3, <2>4, UnderWayFacts
<1> QED BY <1>1, <1>2, <1>3, <1>4, <1>5 DEF PgNext, PgStep

(***************************************************************************)
(* Transactions that interleave statement by statement, wait, conflict,    *)
(* are refused and are cut short take the store through the one-step       *)
(* operations of AtomicStore, if that store lets a heartbeat outlive its   *)
(* lease: the one thing that Postgres adds.                                *)
(***************************************************************************)
THEOREM PgImplementsAtomicStore ==
    ASSUME StrayHeartbeats PROVE PgSpec => ImplementsAtomicStore
<1>1. PgInit => Init
  BY DEF PgInit
<1>2. PgInv /\ [PgNext]_pgVars => [Next]_storeVars
  BY PgStepImplements
<1> QED BY <1>1, <1>2, PgInvariantHolds, PTL DEF PgSpec, ImplementsAtomicStore, Spec
=============================================================================
