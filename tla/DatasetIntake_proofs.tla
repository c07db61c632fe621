-------------------------- MODULE DatasetIntake_proofs --------------------------
(***************************************************************************)
(* Imports, for every set of keys, workspaces and bundled sources, files   *)
(* of any number of rows and rows of any number of events.                 *)
(*                                                                         *)
(* What an adapter publishes is a fold over the rows of a file, and in it  *)
(* a fold over the events of a row.  Each fold is shown to be the end of a *)
(* walk from bundle to bundle; a step of the walk keeps what the bundle    *)
(* has collected (Grows), so that what holds of a row when it is read      *)
(* holds at the end (Gathered).  A row that the bundle already holds as it *)
(* would be read now changes no record (HeldNow), which is what the        *)
(* deduplication of a repeated row comes to.                               *)
(*                                                                         *)
(* The publication ties two tables together: a run that succeeded names a  *)
(* version that stands, a version that stands was named first by the run   *)
(* that published it, and what a workspace was shown of it is what stands. *)
(* A version is only ever added by the run that is appended in the same    *)
(* step, so the least run that names it never changes.                     *)
(***************************************************************************)
EXTENDS DatasetIntake, FiniteSetTheorems, NaturalsInduction, WellFoundedInduction, TLAPS

-----------------------------------------------------------------------------
(* Walks.                                                                  *)

\* A set of naturals that is not empty has a least member.
LEMMA LeastNatural ==
    ASSUME NEW S \in SUBSET Nat, S # {}
    PROVE  \E x \in S : \A y \in S : x <= y
<1> DEFINE R == OpToRel(<, Nat)
<1>1. IsWellFoundedOn(R, Nat)
  BY NatLessThanWellFounded
<1>2. PICK x \in S : \A y \in S : <<y, x>> \notin R
  BY <1>1, WFMin
<1>3. \A y \in S : y < x => <<y, x>> \in R
  BY DEF OpToRel
<1>4. ASSUME NEW y \in S PROVE x <= y
  <2>1. ~ (y < x)
    BY <1>2, <1>3
  <2>2. x \in Nat /\ y \in Nat
    OBVIOUS
  <2> HIDE DEF R
  <2> QED BY <2>1, <2>2
<1> QED BY <1>2, <1>4

LEMMA LastOfPlaces ==
    ASSUME NEW n \in Nat, NEW s \in SUBSET (1..n), n \in s
    PROVE  Max(s) = n
<1>1. \A y \in s : n >= y
  OBVIOUS
<1>2. ASSUME NEW x \in s, \A y \in s : x >= y PROVE x = n
  <2>1. x >= n /\ n >= x /\ x \in Nat
    BY <1>2
  <2> QED BY <2>1
<1> QED BY <1>1, <1>2 DEF Max

(* A fold over the rows of a file, or over the events of a row, is the end *)
(* of a walk: what has been collected after each of them.                  *)

Row(d, b, row) == IF d = HERO THEN HeroRow(b, row) ELSE PublicRow(d, b, row)

RowFold(w, d, rows, n) ==
    w = [s \in SUBSET (1..n) |->
            IF s = {} THEN EmptyBundle ELSE Row(d, w[s \ {Max(s)}], rows[Max(s)])]

LEMMA RowFoldExists ==
    ASSUME NEW d, NEW rows, NEW n \in Nat
    PROVE  \E w : RowFold(w, d, rows, n)
<1> DEFINE Bad == {k \in Nat : ~ \E w : RowFold(w, d, rows, k)}
<1>1. SUFFICES ASSUME Bad # {} PROVE FALSE
  OBVIOUS
<1>2. PICK k \in Bad : \A l \in Bad : k <= l
  BY <1>1, LeastNatural
<1>3. CASE k = 0
  <2> DEFINE w == [s \in {{}} |-> EmptyBundle]
  <2>1. SUBSET (1..0) = {{}}
    OBVIOUS
  <2>2. w = [s \in SUBSET (1..0) |->
               IF s = {} THEN EmptyBundle ELSE Row(d, w[s \ {Max(s)}], rows[Max(s)])]
    BY <2>1
  <2>3. RowFold(w, d, rows, 0)
    BY <2>2 DEF RowFold
  <2> QED BY <1>3, <2>3
<1>4. CASE k # 0
  <2>1. k - 1 \in Nat /\ k \in Nat /\ k - 1 \notin Bad
    BY <1>2, <1>4
  <2>2. PICK w : RowFold(w, d, rows, k - 1)
    BY <2>1
  <2> DEFINE v == [s \in SUBSET (1..k) |->
                     IF k \in s THEN Row(d, w[s \ {k}], rows[k]) ELSE w[s]]
             u == [s \in SUBSET (1..k) |->
                     IF s = {} THEN EmptyBundle ELSE Row(d, v[s \ {Max(s)}], rows[Max(s)])]
  <2>3. ASSUME NEW s \in SUBSET (1..k) PROVE v[s] = u[s]
    <3>1. CASE k \in s
      <4>1. Max(s) = k
        BY <3>1, <2>1, LastOfPlaces
      <4>2. s \ {k} \in SUBSET (1..k) /\ k \notin s \ {k}
        OBVIOUS
      <4>3. v[s \ {k}] = w[s \ {k}]
        BY <4>2
      <4> QED BY <3>1, <4>1, <4>3
    <3>2. CASE k \notin s
      <4>1. s \in SUBSET (1..(k - 1))
        BY <3>2, <2>1
      <4>2. w[s] = IF s = {} THEN EmptyBundle ELSE Row(d, w[s \ {Max(s)}], rows[Max(s)])
        BY <2>2, <4>1 DEF RowFold
      <4>3. s \ {Max(s)} \in SUBSET (1..k) /\ k \notin s \ {Max(s)}
        BY <3>2
      <4>4. v[s \ {Max(s)}] = w[s \ {Max(s)}] /\ v[s] = w[s]
        BY <3>2, <4>3
      <4> QED BY <4>2, <4>4
    <3> QED BY <3>1, <3>2
  <2>4. v = u
    <3>1. DOMAIN v = SUBSET (1..k) /\ DOMAIN u = SUBSET (1..k)
      OBVIOUS
    <3>2. v = [s \in SUBSET (1..k) |-> v[s]] /\ u = [s \in SUBSET (1..k) |-> u[s]]
      OBVIOUS
    <3> HIDE DEF v, u
    <3> QED BY <2>3, <3>2
  <2>5. RowFold(v, d, rows, k)
    BY <2>4 DEF RowFold
  <2> QED BY <2>5
<1> QED BY <1>3, <1>4

Steps(t, d, rows) ==
    /\ t[0] = EmptyBundle
    /\ \A i \in 1..Len(rows) : t[i] = Row(d, t[i - 1], rows[i])

LEMMA BundleWalks ==
    ASSUME NEW d, NEW source, NEW R, source.rows \in Seq(R)
    PROVE  \E t : Steps(t, d, source.rows) /\ Bundle(d, source) = t[Len(source.rows)]
<1> DEFINE rows == source.rows
           n == Len(rows)
<1>1. n \in Nat /\ DOMAIN rows = 1..n
  OBVIOUS
<1>2. \E w : RowFold(w, d, rows, n) /\ Bundle(d, source) = w[1..n]
  <2>1. CASE d = HERO
    <3> DEFINE w == CHOOSE g : g = [s \in SUBSET (1..n) |->
                       IF s = {} THEN EmptyBundle
                       ELSE HeroRow(g[s \ {Max(s)}], rows[Max(s)])]
    <3>1. BuildBundle(source) = w[1..n]
      BY <1>1 DEF BuildBundle, FoldLeft, MapThenFoldSet
    <3>2. \A b, row : Row(d, b, row) = HeroRow(b, row)
      BY <2>1 DEF Row
    <3>3. \A g : RowFold(g, d, rows, n) <=>
                   g = [s \in SUBSET (1..n) |->
                     IF s = {} THEN EmptyBundle ELSE HeroRow(g[s \ {Max(s)}], rows[Max(s)])]
      BY <3>2, Zenon DEF RowFold
    <3>4. RowFold(w, d, rows, n)
      BY <1>1, <3>3, RowFoldExists
    <3>5. Bundle(d, source) = w[1..n]
      BY <2>1, <3>1 DEF Bundle
    <3> HIDE DEF w
    <3> QED BY <3>4, <3>5
  <2>2. CASE d # HERO
    <3> DEFINE w == CHOOSE g : g = [s \in SUBSET (1..n) |->
                       IF s = {} THEN EmptyBundle
                       ELSE PublicRow(d, g[s \ {Max(s)}], rows[Max(s)])]
    <3>1. BuildPublicBundle(d, source) = w[1..n]
      BY <1>1 DEF BuildPublicBundle, FoldLeft, MapThenFoldSet
    <3>2. \A b, row : Row(d, b, row) = PublicRow(d, b, row)
      BY <2>2 DEF Row
    <3>3. \A g : RowFold(g, d, rows, n) <=>
                   g = [s \in SUBSET (1..n) |->
                     IF s = {} THEN EmptyBundle
                     ELSE PublicRow(d, g[s \ {Max(s)}], rows[Max(s)])]
      BY <3>2, Zenon DEF RowFold
    <3>4. RowFold(w, d, rows, n)
      BY <1>1, <3>3, RowFoldExists
    <3>5. Bundle(d, source) = w[1..n]
      BY <2>2, <3>1 DEF Bundle
    <3> HIDE DEF w
    <3> QED BY <3>4, <3>5
  <2> QED BY <2>1, <2>2
<1>3. PICK w : RowFold(w, d, rows, n) /\ Bundle(d, source) = w[1..n]
  BY <1>2
<1> DEFINE t == [i \in 0..n |-> w[1..i]]
<1>4. ASSUME NEW i \in 1..n PROVE t[i] = Row(d, t[i - 1], rows[i])
  <2>1. 1..i \in SUBSET (1..n) /\ 1..i # {} /\ i \in 1..i /\ i \in Nat
    <3>1. i \in Nat /\ 1 <= i /\ i <= n /\ n \in Nat
      BY <1>1
    <3> HIDE DEF n
    <3>2. i \in 1..i /\ \A j \in 1..i : j \in 1..n
      BY <3>1
    <3> QED BY <3>1, <3>2
  <2>2. Max(1..i) = i
    BY <2>1, LastOfPlaces
  <2>3. (1..i) \ {i} = 1..(i - 1)
    BY <2>1
  <2>4. w[1..i] = Row(d, w[(1..i) \ {Max(1..i)}], rows[Max(1..i)])
    BY <1>3, <2>1 DEF RowFold
  <2>5. t[i] = w[1..i] /\ t[i - 1] = w[1..(i - 1)]
    BY <1>1
  <2> QED BY <2>2, <2>3, <2>4, <2>5
<1>5. t[0] = EmptyBundle
  <2>1. 1..0 = {} /\ {} \in SUBSET (1..n)
    OBVIOUS
  <2>2. w[{}] = EmptyBundle
    BY <1>3, <2>1 DEF RowFold
  <2> QED BY <1>1, <2>1, <2>2
<1>6. t[n] = w[1..n]
  BY <1>1
<1> HIDE DEF t
<1> QED BY <1>3, <1>4, <1>5, <1>6 DEF Steps

EventFold(w, row, b, n) ==
    w = [s \in SUBSET (1..n) |->
            IF s = {} THEN b ELSE HeroEvent(row, w[s \ {Max(s)}], row.events[Max(s)])]

LEMMA EventFoldExists ==
    ASSUME NEW row, NEW b, NEW n \in Nat
    PROVE  \E w : EventFold(w, row, b, n)
<1> DEFINE Bad == {k \in Nat : ~ \E w : EventFold(w, row, b, k)}
<1>1. SUFFICES ASSUME Bad # {} PROVE FALSE
  OBVIOUS
<1>2. PICK k \in Bad : \A l \in Bad : k <= l
  BY <1>1, LeastNatural
<1>3. CASE k = 0
  <2> DEFINE w == [s \in {{}} |-> b]
  <2>1. SUBSET (1..0) = {{}}
    OBVIOUS
  <2>2. w = [s \in SUBSET (1..0) |->
               IF s = {} THEN b ELSE HeroEvent(row, w[s \ {Max(s)}], row.events[Max(s)])]
    BY <2>1
  <2>3. EventFold(w, row, b, 0)
    BY <2>2 DEF EventFold
  <2> QED BY <1>3, <2>3
<1>4. CASE k # 0
  <2>1. k - 1 \in Nat /\ k \in Nat /\ k - 1 \notin Bad
    BY <1>2, <1>4
  <2>2. PICK w : EventFold(w, row, b, k - 1)
    BY <2>1
  <2> DEFINE v == [s \in SUBSET (1..k) |->
                     IF k \in s THEN HeroEvent(row, w[s \ {k}], row.events[k]) ELSE w[s]]
             u == [s \in SUBSET (1..k) |->
                     IF s = {} THEN b ELSE HeroEvent(row, v[s \ {Max(s)}], row.events[Max(s)])]
  <2>3. ASSUME NEW s \in SUBSET (1..k) PROVE v[s] = u[s]
    <3>1. CASE k \in s
      <4>1. Max(s) = k
        BY <3>1, <2>1, LastOfPlaces
      <4>2. s \ {k} \in SUBSET (1..k) /\ k \notin s \ {k}
        OBVIOUS
      <4>3. v[s \ {k}] = w[s \ {k}]
        BY <4>2
      <4> QED BY <3>1, <4>1, <4>3
    <3>2. CASE k \notin s
      <4>1. s \in SUBSET (1..(k - 1))
        BY <3>2, <2>1
      <4>2. w[s] = IF s = {} THEN b ELSE HeroEvent(row, w[s \ {Max(s)}], row.events[Max(s)])
        BY <2>2, <4>1 DEF EventFold
      <4>3. s \ {Max(s)} \in SUBSET (1..k) /\ k \notin s \ {Max(s)}
        BY <3>2
      <4>4. v[s \ {Max(s)}] = w[s \ {Max(s)}] /\ v[s] = w[s]
        BY <3>2, <4>3
      <4> QED BY <4>2, <4>4
    <3> QED BY <3>1, <3>2
  <2>4. v = u
    <3>1. v = [s \in SUBSET (1..k) |-> v[s]] /\ u = [s \in SUBSET (1..k) |-> u[s]]
      OBVIOUS
    <3> HIDE DEF v, u
    <3> QED BY <2>3, <3>1
  <2>5. EventFold(v, row, b, k)
    BY <2>4 DEF EventFold
  <2> QED BY <2>5
<1> QED BY <1>3, <1>4

EventSteps(t, row, b) ==
    /\ t[0] = b
    /\ \A i \in 1..Len(row.events) : t[i] = HeroEvent(row, t[i - 1], row.events[i])

Evented(row, b) == FoldLeft(LAMBDA acc, e : HeroEvent(row, acc, e), b, row.events)

LEMMA EventsWalk ==
    ASSUME NEW row, NEW b, NEW R, row.events \in Seq(R)
    PROVE  \E t : EventSteps(t, row, b) /\ Evented(row, b) = t[Len(row.events)]
<1> DEFINE n == Len(row.events)
<1>1. n \in Nat /\ DOMAIN row.events = 1..n
  OBVIOUS
<1>2. \E w : EventFold(w, row, b, n) /\ Evented(row, b) = w[1..n]
  <2> DEFINE w == CHOOSE g : g = [s \in SUBSET (1..n) |->
                     IF s = {} THEN b
                     ELSE HeroEvent(row, g[s \ {Max(s)}], row.events[Max(s)])]
  <2>1. Evented(row, b) = w[1..n]
    BY <1>1 DEF Evented, FoldLeft, MapThenFoldSet
  <2>2. \A g : EventFold(g, row, b, n) <=>
                 g = [s \in SUBSET (1..n) |->
                     IF s = {} THEN b
                     ELSE HeroEvent(row, g[s \ {Max(s)}], row.events[Max(s)])]
    BY Zenon DEF EventFold
  <2>3. EventFold(w, row, b, n)
    BY <1>1, <2>2, EventFoldExists
  <2> HIDE DEF w
  <2> QED BY <2>1, <2>3
<1>3. PICK w : EventFold(w, row, b, n) /\ Evented(row, b) = w[1..n]
  BY <1>2
<1> DEFINE t == [i \in 0..n |-> w[1..i]]
<1>4. ASSUME NEW i \in 1..n PROVE t[i] = HeroEvent(row, t[i - 1], row.events[i])
  <2>1. 1..i \in SUBSET (1..n) /\ 1..i # {} /\ i \in 1..i /\ i \in Nat
    <3>1. i \in Nat /\ 1 <= i /\ i <= n /\ n \in Nat
      BY <1>1
    <3> HIDE DEF n
    <3>2. i \in 1..i /\ \A j \in 1..i : j \in 1..n
      BY <3>1
    <3> QED BY <3>1, <3>2
  <2>2. Max(1..i) = i
    BY <2>1, LastOfPlaces
  <2>3. (1..i) \ {i} = 1..(i - 1)
    BY <2>1
  <2>4. w[1..i] = HeroEvent(row, w[(1..i) \ {Max(1..i)}], row.events[Max(1..i)])
    BY <1>3, <2>1 DEF EventFold
  <2>5. t[i] = w[1..i] /\ t[i - 1] = w[1..(i - 1)]
    BY <1>1
  <2> QED BY <2>2, <2>3, <2>4, <2>5
<1>5. t[0] = b
  <2>1. 1..0 = {} /\ {} \in SUBSET (1..n)
    OBVIOUS
  <2>2. w[{}] = b
    BY <1>3, <2>1 DEF EventFold
  <2> QED BY <1>1, <2>1, <2>2
<1>6. t[n] = w[1..n]
  BY <1>1
<1> HIDE DEF t
<1> QED BY <1>3, <1>4, <1>5, <1>6 DEF EventSteps

\* What a set of public events is merged into, one after another.
MergeFold(w, d, b, S, T) ==
    w = [s \in T |->
            IF s = {} THEN b
            ELSE MergeEvent(d, w[s \ {CHOOSE x \in s : TRUE}], CHOOSE x \in s : TRUE)]

AtMost(S, n) == {s \in SUBSET S : Cardinality(s) <= n}

LEMMA MergeFoldExists ==
    ASSUME NEW d, NEW b, NEW S, IsFiniteSet(S)
    PROVE  \E w : MergeFold(w, d, b, S, SUBSET S)
<1> DEFINE pick(s) == CHOOSE x \in s : TRUE
           Bad == {k \in Nat : ~ \E w : MergeFold(w, d, b, S, AtMost(S, k))}
<1>0. \A s \in SUBSET S : IsFiniteSet(s) /\ Cardinality(s) \in Nat /\ (Cardinality(s) = 0 <=> s = {})
  BY FS_Subset, FS_CardinalityType, FS_EmptySet
<1>1. ASSUME NEW s \in SUBSET S, s # {}
      PROVE  /\ pick(s) \in s /\ s \ {pick(s)} \in SUBSET S
             /\ Cardinality(s \ {pick(s)}) = Cardinality(s) - 1
  <2>1. pick(s) \in s
    BY <1>1
  <2>2. \A x \in s : Cardinality(s \ {x}) = Cardinality(s) - 1
    BY <1>0, FS_RemoveElement
  <2> HIDE DEF pick
  <2> QED BY <2>1, <2>2
<1>2. ASSUME Bad # {} PROVE FALSE
  <2>2. PICK k \in Bad : \A l \in Bad : k <= l
    BY <1>2, LeastNatural
  <2>3. CASE k = 0
    <3> DEFINE w == [s \in {{}} |-> b]
    <3>1. AtMost(S, 0) = {{}}
      <4>1. \A s \in AtMost(S, 0) : s = {}
        BY <1>0 DEF AtMost
      <4>2. {} \in AtMost(S, 0)
        BY <1>0 DEF AtMost
      <4> QED BY <4>1, <4>2
    <3>2. w = [s \in AtMost(S, 0) |->
                 IF s = {} THEN b ELSE MergeEvent(d, w[s \ {pick(s)}], pick(s))]
      BY <3>1
    <3>3. MergeFold(w, d, b, S, AtMost(S, 0))
      BY <3>2 DEF MergeFold
    <3> QED BY <2>3, <3>3
  <2>4. CASE k # 0
    <3>1. k - 1 \in Nat /\ k \in Nat /\ k - 1 \notin Bad
      BY <2>2, <2>4
    <3>2. PICK w : MergeFold(w, d, b, S, AtMost(S, k - 1))
      BY <3>1
    <3> DEFINE v == [s \in AtMost(S, k) |->
                       IF s = {} THEN b ELSE MergeEvent(d, w[s \ {pick(s)}], pick(s))]
               u == [s \in AtMost(S, k) |->
                       IF s = {} THEN b ELSE MergeEvent(d, v[s \ {pick(s)}], pick(s))]
    <3>3. ASSUME NEW s \in AtMost(S, k - 1)
          PROVE  /\ s \in AtMost(S, k)
                 /\ w[s] = IF s = {} THEN b ELSE MergeEvent(d, w[s \ {pick(s)}], pick(s))
      <4>1. s \in AtMost(S, k)
        BY <1>0, <3>1 DEF AtMost
      <4> QED BY <4>1, <3>2 DEF MergeFold
    <3>4. \A s \in AtMost(S, k - 1) : v[s] = w[s]
      BY <3>3
    <3>5. ASSUME NEW s \in AtMost(S, k) PROVE v[s] = u[s]
      <4>1. CASE s = {}
        BY <4>1
      <4>2. CASE s # {}
        <5>1. s \ {pick(s)} \in AtMost(S, k - 1)
          <6> HIDE DEF pick
          <6>1. s \in SUBSET S /\ Cardinality(s) <= k /\ Cardinality(s) \in Nat
            BY <1>0 DEF AtMost
          <6> QED BY <4>2, <6>1, <1>1, <3>1 DEF AtMost
        <5>2. v[s \ {pick(s)}] = w[s \ {pick(s)}]
          BY <5>1, <3>4
        <5> HIDE DEF pick
        <5>3. v[s] = MergeEvent(d, w[s \ {pick(s)}], pick(s))
          BY <4>2
        <5>4. u[s] = MergeEvent(d, v[s \ {pick(s)}], pick(s))
          BY <4>2
        <5> QED BY <5>2, <5>3, <5>4
      <4> QED BY <4>1, <4>2
    <3>6. v = u
      <4>1. v = [s \in AtMost(S, k) |-> v[s]] /\ u = [s \in AtMost(S, k) |-> u[s]]
        OBVIOUS
      <4> HIDE DEF v, u
      <4> QED BY <3>5, <4>1
    <3>7. MergeFold(v, d, b, S, AtMost(S, k))
      BY <3>6 DEF MergeFold
    <3> QED BY <3>7
  <2> QED BY <2>3, <2>4
<1>3. Cardinality(S) \in Nat /\ AtMost(S, Cardinality(S)) = SUBSET S
  <2>1. \A s \in SUBSET S : Cardinality(s) <= Cardinality(S)
    BY FS_Subset
  <2> QED BY <2>1, FS_CardinalityType DEF AtMost
<1>4. \E w : MergeFold(w, d, b, S, AtMost(S, Cardinality(S)))
  BY <1>2, <1>3
<1> QED BY <1>3, <1>4

Merged(d, b, S) == FoldSet(LAMBDA e, acc : MergeEvent(d, acc, e), b, S)

MergeSteps(w, d, b, S) ==
    /\ w[{}] = b
    /\ \A s \in SUBSET S : s # {} => \E e \in s : w[s] = MergeEvent(d, w[s \ {e}], e)

LEMMA MergesWalk ==
    ASSUME NEW d, NEW b, NEW S, IsFiniteSet(S)
    PROVE  \E w : MergeSteps(w, d, b, S) /\ Merged(d, b, S) = w[S]
<1> DEFINE pick(s) == CHOOSE x \in s : TRUE
           w == CHOOSE g : g = [s \in SUBSET S |->
                  IF s = {} THEN b ELSE MergeEvent(d, g[s \ {pick(s)}], pick(s))]
<1>1. Merged(d, b, S) = w[S]
  BY DEF Merged, FoldSet, MapThenFoldSet
<1>2. w = [s \in SUBSET S |->
             IF s = {} THEN b ELSE MergeEvent(d, w[s \ {pick(s)}], pick(s))]
  <2>1. \A g : MergeFold(g, d, b, S, SUBSET S) <=>
                 g = [s \in SUBSET S |->
                        IF s = {} THEN b ELSE MergeEvent(d, g[s \ {pick(s)}], pick(s))]
    BY Zenon DEF MergeFold
  <2>2. \E g : MergeFold(g, d, b, S, SUBSET S)
    BY MergeFoldExists
  <2> QED BY <2>1, <2>2
<1>3. \A s \in SUBSET S : s # {} => pick(s) \in s
  OBVIOUS
<1> HIDE DEF w, pick
<1>4. w[{}] = b
  BY <1>2
<1>5. MergeSteps(w, d, b, S)
  BY <1>2, <1>3, <1>4 DEF MergeSteps
<1> QED BY <1>1, <1>5

-----------------------------------------------------------------------------
(* What a step of an adapter does to a bundle.                             *)

Shaped(b) ==
    b = [lines |-> b.lines, events |-> b.events, seen |-> b.seen,
         observations |-> b.observations, findings |-> b.findings]

Extends(f, g) == \A k \in DOMAIN f : k \in DOMAIN g /\ g[k] = f[k]

\* Nothing that a bundle collected is lost or changed.
Grows(b, c) ==
    /\ Extends(b.lines, c.lines) /\ Extends(b.events, c.events)
    /\ b.seen \subseteq c.seen /\ b.findings \subseteq c.findings
    /\ DOMAIN b.observations \subseteq DOMAIN c.observations

SameRecords(b, c) == c.lines = b.lines /\ c.events = b.events /\ c.seen = b.seen

LEMMA GrowsOn == ASSUME NEW b, NEW c, NEW e, Grows(b, c), Grows(c, e) PROVE Grows(b, e)
BY DEF Grows, Extends

LEMMA GrowsSame == ASSUME NEW b PROVE Grows(b, b)
BY DEF Grows, Extends

\* A rejected run stays rejected.
LEMMA RejectionStays == ASSUME NEW b, NEW c, Grows(b, c), Rejected(b) PROVE Rejected(c)
BY DEF Grows, Rejected

\* Observations are never lost.
LEMMA ObservedStays ==
    ASSUME NEW b, NEW c, Grows(b, c), NEW t, NEW p, Observed(b, t, p)
    PROVE  Observed(c, t, p)
BY DEF Grows, Observed

LEMMA FindAdds ==
    ASSUME NEW b, Shaped(b), NEW found
    PROVE  LET c == Find(b, found)
           IN  /\ Shaped(c) /\ SameRecords(b, c) /\ c.observations = b.observations
               /\ c.findings = b.findings \cup found
BY DEF Find, Shaped, SameRecords

LEMMA FindGrows ==
    ASSUME NEW b, Shaped(b), NEW found
    PROVE  Grows(b, Find(b, found))
BY FindAdds DEF Grows, Extends, SameRecords

\* What is found and does not reject the run leaves it as it is.
LEMMA FindMild ==
    ASSUME NEW b, Shaped(b), NEW found, \A f \in found : f.disposition # "reject_run"
    PROVE  Rejected(Find(b, found)) <=> Rejected(b)
BY FindAdds DEF Rejected

LEMMA AddLineAdds ==
    ASSUME NEW b, Shaped(b), NEW key, NEW line
    PROVE  LET c == AddLine(b, key, line)
           IN  /\ Shaped(c) /\ Grows(b, c)
               /\ c.events = b.events /\ c.seen = b.seen /\ c.observations = b.observations
               /\ DOMAIN c.lines = DOMAIN b.lines \cup {key}
               /\ Rejected(c) \/ c.lines[key] = line
               /\ key \in DOMAIN b.lines /\ b.lines[key] = line =>
                     c.lines = b.lines /\ (Rejected(c) <=> Rejected(b))
               /\ key \notin DOMAIN b.lines => c.lines[key] = line
<1> DEFINE c == AddLine(b, key, line)
<1>1. CASE key \notin DOMAIN b.lines
  <2>1. /\ Shaped(c) /\ c.lines = Put(b.lines, key, line) /\ c.events = b.events
        /\ c.seen = b.seen /\ c.observations = b.observations /\ c.findings = b.findings
    BY <1>1 DEF AddLine, Shaped
  <2> HIDE DEF c
  <2>2. /\ DOMAIN c.lines = DOMAIN b.lines \cup {key} /\ c.lines[key] = line
        /\ \A x \in DOMAIN b.lines : c.lines[x] = b.lines[x]
    <3>1. DOMAIN c.lines = DOMAIN b.lines \cup {key}
      BY <2>1 DEF Put
    <3>2. \A x \in DOMAIN b.lines : c.lines[x] = b.lines[x]
      BY <2>1 DEF Put
    <3>3. c.lines[key] = line
      BY <1>1, <2>1 DEF Put
    <3> QED BY <3>1, <3>2, <3>3
  <2>3. Grows(b, c)
    BY <2>1, <2>2 DEF Grows, Extends
  <2> QED BY <1>1, <2>1, <2>2, <2>3 DEF c
<1>2. CASE key \in DOMAIN b.lines /\ b.lines[key] = line
  <2> DEFINE f == Finding("SOURCE_DUPLICATE_DEDUPED", LineRef(key), "advisory")
  <2>1. c = Find(b, {f}) /\ f.disposition # "reject_run"
    BY <1>2 DEF AddLine, Finding
  <2> HIDE DEF c, f
  <2>2. Shaped(c) /\ SameRecords(b, c) /\ c.observations = b.observations
    BY <2>1, FindAdds
  <2>3. Rejected(c) <=> Rejected(b)
    BY <2>1, FindMild
  <2>4. Grows(b, c)
    BY <2>1, FindGrows
  <2> QED BY <1>2, <2>2, <2>3, <2>4 DEF SameRecords, c
<1>3. CASE key \in DOMAIN b.lines /\ b.lines[key] # line
  <2> DEFINE f == Finding("IDENTITY_COLLISION", LineRef(key), "reject_run")
  <2>1. c = Find(b, {f}) /\ f.disposition = "reject_run"
    BY <1>3 DEF AddLine, Finding
  <2> HIDE DEF c, f
  <2>2. Shaped(c) /\ SameRecords(b, c) /\ c.observations = b.observations
        /\ c.findings = b.findings \cup {f}
    BY <2>1, FindAdds
  <2>3. Rejected(c)
    BY <2>1, <2>2 DEF Rejected
  <2>4. Grows(b, c)
    BY <2>1, FindGrows
  <2> QED BY <1>3, <2>2, <2>3, <2>4 DEF SameRecords, c
<1> QED BY <1>1, <1>2, <1>3

LEMMA AddEventAdds ==
    ASSUME NEW b, Shaped(b), NEW key, NEW event
    PROVE  LET c == AddEvent(b, key, event)
           IN  /\ Shaped(c) /\ Grows(b, c)
               /\ c.lines = b.lines /\ c.seen = b.seen /\ c.observations = b.observations
               /\ DOMAIN c.events = DOMAIN b.events \cup {key}
               /\ Rejected(c) \/ c.events[key] = event
               /\ key \in DOMAIN b.events /\ b.events[key] = event =>
                     c.events = b.events /\ (Rejected(c) <=> Rejected(b))
               /\ key \notin DOMAIN b.events => c.events[key] = event
<1> DEFINE c == AddEvent(b, key, event)
<1>1. CASE key \notin DOMAIN b.events
  <2>1. /\ Shaped(c) /\ c.events = Put(b.events, key, event) /\ c.lines = b.lines
        /\ c.seen = b.seen /\ c.observations = b.observations /\ c.findings = b.findings
    BY <1>1 DEF AddEvent, Shaped
  <2> HIDE DEF c
  <2>2. /\ DOMAIN c.events = DOMAIN b.events \cup {key} /\ c.events[key] = event
        /\ \A x \in DOMAIN b.events : c.events[x] = b.events[x]
    <3>1. DOMAIN c.events = DOMAIN b.events \cup {key}
      BY <2>1 DEF Put
    <3>2. \A x \in DOMAIN b.events : c.events[x] = b.events[x]
      BY <2>1 DEF Put
    <3>3. c.events[key] = event
      BY <1>1, <2>1 DEF Put
    <3> QED BY <3>1, <3>2, <3>3
  <2>3. Grows(b, c)
    BY <2>1, <2>2 DEF Grows, Extends
  <2> QED BY <1>1, <2>1, <2>2, <2>3 DEF c
<1>2. CASE key \in DOMAIN b.events /\ b.events[key] = event
  <2> DEFINE f == Finding("SOURCE_DUPLICATE_DEDUPED", key, "advisory")
  <2>1. c = Find(b, {f}) /\ f.disposition # "reject_run"
    BY <1>2 DEF AddEvent, Finding
  <2> HIDE DEF c, f
  <2>2. Shaped(c) /\ SameRecords(b, c) /\ c.observations = b.observations
    BY <2>1, FindAdds
  <2>3. Rejected(c) <=> Rejected(b)
    BY <2>1, FindMild
  <2>4. Grows(b, c)
    BY <2>1, FindGrows
  <2> QED BY <1>2, <2>2, <2>3, <2>4 DEF SameRecords, c
<1>3. CASE key \in DOMAIN b.events /\ b.events[key] # event
  <2> DEFINE f == Finding("EVENT_ID_CONTENT_CONFLICT", key, "reject_run")
  <2>1. c = Find(b, {f}) /\ f.disposition = "reject_run"
    BY <1>3 DEF AddEvent, Finding
  <2> HIDE DEF c, f
  <2>2. Shaped(c) /\ SameRecords(b, c) /\ c.observations = b.observations
        /\ c.findings = b.findings \cup {f}
    BY <2>1, FindAdds
  <2>3. Rejected(c)
    BY <2>1, <2>2 DEF Rejected
  <2>4. Grows(b, c)
    BY <2>1, FindGrows
  <2> QED BY <1>3, <2>2, <2>3, <2>4 DEF SameRecords, c
<1> QED BY <1>1, <1>2, <1>3

LEMMA ObserveAdds ==
    ASSUME NEW b, Shaped(b), NEW target, NEW paths, NEW locator, NEW clocks
    PROVE  LET c == Observe(b, target, paths, locator, clocks)
           IN  /\ Shaped(c) /\ Grows(b, c) /\ SameRecords(b, c) /\ c.findings = b.findings
               /\ \A p \in paths : Observed(c, target, p)
<1> DEFINE ids == {<<target, p, locator>> : p \in paths}
           c == Observe(b, target, paths, locator, clocks)
           obs == [i \in DOMAIN b.observations \cup ids |->
                     IF i \in DOMAIN b.observations THEN b.observations[i] ELSE clocks]
<1>1. c = [b EXCEPT !.observations = obs]
  BY DEF Observe
<1> HIDE DEF c
<1>2. DOMAIN obs = DOMAIN b.observations \cup ids
  OBVIOUS
<1> HIDE DEF obs
<1>3. Shaped(c) /\ SameRecords(b, c) /\ c.findings = b.findings /\ c.observations = obs
  BY <1>1 DEF Shaped, SameRecords
<1>4. Grows(b, c)
  BY <1>2, <1>3 DEF Grows, Extends, SameRecords
<1>5. ASSUME NEW p \in paths PROVE Observed(c, target, p)
  <2>1. <<target, p, locator>> \in DOMAIN c.observations
    BY <1>2, <1>3
  <2>2. <<target, p, locator>>[1] = target /\ <<target, p, locator>>[2] = p
    OBVIOUS
  <2> QED BY <2>1, <2>2 DEF Observed
<1> QED BY <1>3, <1>4, <1>5 DEF c

-----------------------------------------------------------------------------
(* The hero adapter.                                                       *)

\* The event of a row when the keys in seen have been read.
Reading(seen, row, event) == CanonicalEvent([seen |-> seen], row, event)

LEMMA ReadingIs ==
    ASSUME NEW b, NEW row, NEW event
    PROVE  CanonicalEvent(b, row, event) = Reading(b.seen, row, event)
BY DEF Reading, CanonicalEvent, Revises

LEMMA EventFindingsMild ==
    ASSUME NEW event, NEW canonical, NEW f \in EventFindings(event, canonical)
    PROVE  f.disposition # "reject_run"
BY DEF EventFindings, FoundIf, Finding

Recorded(b, seen, row, event) ==
    /\ MapsEvent(event)
    /\ EventRef(event.key) \in DOMAIN b.events
    /\ b.events[EventRef(event.key)] = Reading(seen, row, event)

\* One event: collected as it is read, unless the run is rejected; every field
\* of an event that is new is observed; an event that has been collected as it
\* is read now changes nothing.
LEMMA HeroEventAdds ==
    ASSUME NEW row, NEW b, Shaped(b), NEW event
    PROVE  LET c == HeroEvent(row, b, event)
           IN  /\ Shaped(c) /\ Grows(b, c) /\ c.lines = b.lines
               /\ \/ Rejected(c)
                  \/ Recorded(c, c.seen, row, event) /\ c.seen = b.seen \cup {event.key}
               /\ \A k \in DOMAIN c.events : k \in DOMAIN b.events
                                             \/ \A p \in EventPaths : Observed(c, k, p)
               /\ Recorded(b, b.seen, row, event) /\ event.key \in b.seen =>
                     SameRecords(b, c) /\ (Rejected(c) <=> Rejected(b))
<1> DEFINE c == HeroEvent(row, b, event)
<1>1. CASE ~MapsEvent(event)
  <2> DEFINE f == Finding("ADAPTER_CONTRACT_VIOLATION", LineRef(row.line), "reject_run")
  <2>1. c = Find(b, {f}) /\ f.disposition = "reject_run"
    BY <1>1 DEF HeroEvent, Finding
  <2> HIDE DEF c, f
  <2>2. /\ Shaped(c) /\ SameRecords(b, c) /\ c.findings = b.findings \cup {f} /\ Grows(b, c)
    BY <2>1, FindAdds, FindGrows
  <2>3. Rejected(c)
    BY <2>1, <2>2 DEF Rejected
  <2> QED BY <1>1, <2>2, <2>3 DEF SameRecords, Recorded, c
<1>2. CASE MapsEvent(event)
  <2> DEFINE ref == EventRef(event.key)
             named == [b EXCEPT !.seen = @ \cup {event.key}]
             canonical == CanonicalEvent(named, row, event)
             found == Find(named, EventFindings(event, canonical))
             added == AddEvent(found, ref, canonical)
             clocks == Clocks(canonical.known, canonical.available)
  <2>1. c = Observe(added, ref, EventPaths, row.line, clocks)
    BY <1>2 DEF HeroEvent
  <2>2. /\ Shaped(named) /\ Grows(b, named) /\ named.seen = b.seen \cup {event.key}
        /\ named.lines = b.lines /\ named.events = b.events
        /\ named.observations = b.observations /\ (Rejected(named) <=> Rejected(b))
    BY DEF Shaped, Grows, Extends, Rejected
  <2>3. canonical = Reading(named.seen, row, event)
    BY ReadingIs
  <2> HIDE DEF named
  <2>4. /\ Shaped(found) /\ SameRecords(named, found) /\ Grows(named, found)
        /\ found.observations = named.observations /\ (Rejected(found) <=> Rejected(named))
    <3>1. \A f \in EventFindings(event, canonical) : f.disposition # "reject_run"
      BY EventFindingsMild
    <3> HIDE DEF canonical
    <3> QED BY <2>2, <3>1, FindAdds, FindGrows, FindMild
  <2> HIDE DEF canonical, found
  <2>5. /\ Shaped(added) /\ Grows(found, added)
        /\ added.lines = found.lines /\ added.seen = found.seen
        /\ added.observations = found.observations
        /\ DOMAIN added.events = DOMAIN found.events \cup {ref}
        /\ Rejected(added) \/ added.events[ref] = canonical
        /\ ref \in DOMAIN found.events /\ found.events[ref] = canonical =>
              added.events = found.events /\ (Rejected(added) <=> Rejected(found))
    BY <2>4, AddEventAdds
  <2> HIDE DEF added, ref, clocks
  <2>6. /\ Shaped(c) /\ Grows(added, c) /\ SameRecords(added, c) /\ c.findings = added.findings
        /\ \A p \in EventPaths : Observed(c, ref, p)
    BY <2>1, <2>5, ObserveAdds
  <2>7. Rejected(c) <=> Rejected(added)
    BY <2>6 DEF Rejected
  <2> HIDE DEF c
  <2>8. Grows(b, c)
    BY <2>2, <2>4, <2>5, <2>6, GrowsOn
  <2>9. c.lines = b.lines /\ c.seen = b.seen \cup {event.key} /\ c.events = added.events
    BY <2>2, <2>4, <2>5, <2>6 DEF SameRecords
  <2>10. \/ Rejected(c)
         \/ Recorded(c, c.seen, row, event) /\ c.seen = b.seen \cup {event.key}
    BY <1>2, <2>2, <2>3, <2>5, <2>7, <2>9 DEF Recorded, ref
  <2>11. \A k \in DOMAIN c.events : k \in DOMAIN b.events \/ \A p \in EventPaths : Observed(c, k, p)
    BY <2>2, <2>4, <2>5, <2>6, <2>9 DEF SameRecords
  <2>12. ASSUME Recorded(b, b.seen, row, event), event.key \in b.seen
         PROVE  SameRecords(b, c) /\ (Rejected(c) <=> Rejected(b))
    <3>1. named.seen = b.seen
      BY <2>2, <2>12
    <3>2. ref \in DOMAIN found.events /\ found.events[ref] = canonical
      BY <2>2, <2>3, <2>4, <2>12, <3>1 DEF Recorded, SameRecords, ref
    <3> QED BY <2>2, <2>4, <2>5, <2>7, <2>9, <3>1, <3>2 DEF SameRecords
  <2> QED BY <2>6, <2>8, <2>9, <2>10, <2>11, <2>12 DEF c
<1> QED BY <1>1, <1>2

LEMMA RecordedStays ==
    ASSUME NEW b, NEW c, Grows(b, c), NEW seen, NEW row, NEW event,
           Recorded(b, seen, row, event)
    PROVE  Recorded(c, seen, row, event)
BY DEF Grows, Extends, Recorded

\* The keys that have been read when the j-th event of a row is.
SeenIn(seen, row, j) == seen \cup {row.events[k].key : k \in 1..j}

Repeats(b, row) ==
    \A j \in DOMAIN row.events :
        Recorded(b, b.seen, row, row.events[j]) /\ row.events[j].key \in b.seen

\* What the first i events of a row make of a bundle.
Collected(b, c, row, i) ==
    /\ Shaped(c) /\ Grows(b, c) /\ c.lines = b.lines
    /\ \/ Rejected(c)
       \/ /\ c.seen = SeenIn(b.seen, row, i)
          /\ \A j \in 1..i : Recorded(c, SeenIn(b.seen, row, j), row, row.events[j])
    /\ \A k \in DOMAIN c.events : k \in DOMAIN b.events \/ \A p \in EventPaths : Observed(c, k, p)
    /\ Repeats(b, row) => SameRecords(b, c) /\ (Rejected(c) <=> Rejected(b))

LEMMA CollectedNext ==
    ASSUME NEW row, NEW R, row.events \in Seq(R), NEW b, NEW c, NEW i \in 1..Len(row.events),
           Collected(b, c, row, i - 1)
    PROVE  Collected(b, HeroEvent(row, c, row.events[i]), row, i)
<1> DEFINE event == row.events[i]
           e == HeroEvent(row, c, event)
<1>1. /\ Shaped(c) /\ Grows(b, c) /\ c.lines = b.lines
      /\ i \in Nat /\ i - 1 \in Nat /\ i \in DOMAIN row.events
  BY DEF Collected
<1>2. /\ Shaped(e) /\ Grows(c, e) /\ e.lines = c.lines
      /\ \/ Rejected(e)
         \/ Recorded(e, e.seen, row, event) /\ e.seen = c.seen \cup {event.key}
      /\ \A k \in DOMAIN e.events : k \in DOMAIN c.events
                                    \/ \A p \in EventPaths : Observed(e, k, p)
      /\ Recorded(c, c.seen, row, event) /\ event.key \in c.seen =>
            SameRecords(c, e) /\ (Rejected(e) <=> Rejected(c))
  BY <1>1, HeroEventAdds
<1> HIDE DEF e
<1>3. Grows(b, e)
  BY <1>1, <1>2, GrowsOn
<1>4. ASSUME ~Rejected(e)
      PROVE  /\ e.seen = SeenIn(b.seen, row, i)
             /\ \A j \in 1..i : Recorded(e, SeenIn(b.seen, row, j), row, row.events[j])
  <2>1. ~Rejected(c)
    BY <1>2, <1>4, RejectionStays
  <2>2. /\ c.seen = SeenIn(b.seen, row, i - 1)
        /\ \A j \in 1..(i - 1) : Recorded(c, SeenIn(b.seen, row, j), row, row.events[j])
    BY <2>1 DEF Collected
  <2>3. SeenIn(b.seen, row, i) = SeenIn(b.seen, row, i - 1) \cup {event.key}
    <3>1. 1..i = 1..(i - 1) \cup {i}
      BY <1>1
    <3> QED BY <3>1 DEF SeenIn
  <2>4. e.seen = SeenIn(b.seen, row, i)
    BY <1>2, <1>4, <2>2, <2>3
  <2>5. ASSUME NEW j \in 1..i
        PROVE  Recorded(e, SeenIn(b.seen, row, j), row, row.events[j])
    <3>1. CASE j = i
      BY <1>2, <1>4, <2>4, <3>1
    <3>2. CASE j # i
      <4>1. j \in 1..(i - 1)
        BY <1>1, <3>2
      <4> QED BY <1>2, <2>2, <4>1, RecordedStays
    <3> QED BY <3>1, <3>2
  <2> QED BY <2>4, <2>5
<1>5. ASSUME NEW k \in DOMAIN e.events
      PROVE  k \in DOMAIN b.events \/ \A p \in EventPaths : Observed(e, k, p)
  <2>1. k \in DOMAIN c.events => k \in DOMAIN b.events \/ \A p \in EventPaths : Observed(c, k, p)
    BY DEF Collected
  <2> QED BY <1>2, <2>1, ObservedStays
<1>6. ASSUME Repeats(b, row) PROVE SameRecords(b, e) /\ (Rejected(e) <=> Rejected(b))
  <2>1. SameRecords(b, c) /\ (Rejected(c) <=> Rejected(b))
    BY <1>6 DEF Collected
  <2>2. Recorded(b, b.seen, row, event) /\ event.key \in b.seen
    BY <1>1, <1>6 DEF Repeats
  <2>3. Recorded(c, c.seen, row, event) /\ event.key \in c.seen
    BY <2>1, <2>2 DEF SameRecords, Recorded
  <2> QED BY <1>2, <2>1, <2>3 DEF SameRecords
<1>7. Collected(b, e, row, i)
  BY <1>1, <1>2, <1>3, <1>4, <1>5, <1>6 DEF Collected
<1> QED BY <1>7 DEF e

LEMMA EventsCollected ==
    ASSUME NEW row, NEW R, row.events \in Seq(R), NEW b, Shaped(b)
    PROVE  Collected(b, Evented(row, b), row, Len(row.events))
<1> DEFINE n == Len(row.events)
<1>1. PICK t : EventSteps(t, row, b) /\ Evented(row, b) = t[n]
  BY EventsWalk
<1>2. n \in Nat
  OBVIOUS
<1> HIDE DEF n
<1> DEFINE Bad == {i \in 0..n : ~Collected(b, t[i], row, i)}
<1>3. ASSUME Bad # {} PROVE FALSE
  <2>1. PICK i \in Bad : \A j \in Bad : i <= j
    <3>1. Bad \subseteq Nat
      BY <1>2
    <3> HIDE DEF Bad
    <3> QED BY <1>3, <3>1, LeastNatural
  <2>2. CASE i = 0
    <3>1. t[0] = b
      BY <1>1 DEF EventSteps
    <3>2. SeenIn(b.seen, row, 0) = b.seen /\ 1..0 = {}
      BY DEF SeenIn
    <3>3. Collected(b, b, row, 0)
      BY <3>2, GrowsSame DEF Collected, SameRecords
    <3> QED BY <2>1, <2>2, <3>1, <3>3
  <2>3. CASE i # 0
    <3>1. i \in 1..n /\ i - 1 \in 0..n /\ i - 1 \notin Bad
      BY <1>2, <2>1, <2>3
    <3>2. Collected(b, t[i - 1], row, i - 1)
      BY <3>1
    <3>3. t[i] = HeroEvent(row, t[i - 1], row.events[i])
      BY <1>1, <3>1 DEF EventSteps, n
    <3>4. Collected(b, t[i], row, i)
      BY <3>1, <3>2, <3>3, CollectedNext DEF n
    <3> QED BY <2>1, <3>4
  <2> QED BY <2>2, <2>3
<1>4. n \in 0..n
  BY <1>2
<1> QED BY <1>1, <1>3, <1>4 DEF n

-----------------------------------------------------------------------------
(* What a row makes of a bundle, for each adapter.                         *)

LineOf(d, row) == IF d = HERO THEN HeroLine(row) ELSE PublicLine(row)

LineHeld(d, b, row) == row.line \in DOMAIN b.lines /\ b.lines[row.line] = LineOf(d, row)

MergeKey(event) == <<event.line, event.kind>>

MergeHeld(b, event) ==
    MergeKey(event) \in DOMAIN b.events /\ b.events[MergeKey(event)] = event

\* The events of a row are held as they are read after the keys in seen.
EventsHeld(d, b, seen, row) ==
    IF d = HERO
    THEN \A j \in DOMAIN row.events :
            Recorded(b, SeenIn(seen, row, j), row, row.events[j])
    ELSE \A e \in RowEvents(d, row) : MergeHeld(b, e)

RowSeen(d, seen, row) == IF d = HERO THEN SeenIn(seen, row, Len(row.events)) ELSE seen

\* A row that the bundle already holds as it is read now.
HeldNow(d, b, row) ==
    /\ LineHeld(d, b, row)
    /\ IF d = HERO THEN Repeats(b, row) ELSE \A e \in RowEvents(d, row) : MergeHeld(b, e)

LineObserved(b, l) == b.lines[l].field.state = "present" => Observed(b, LineRef(l), "field")

EventObserved(d, b, e) ==
    \A p \in Populated(b.events[e]) :
        \/ Observed(b, e, p)
        \/ d # HERO /\ p \in {"kind", "milestone"}
        \/ d = OLIST /\ p \in {"known", "available"} /\ Observed(b, e, "occurred")

Read(d, b, c, row) ==
    /\ Shaped(c) /\ Grows(b, c)
    /\ row.line = None => SameRecords(b, c) /\ (Rejected(c) <=> Rejected(b))
    /\ row.line # None /\ ~Rejected(c) =>
          /\ LineHeld(d, c, row) /\ EventsHeld(d, c, b.seen, row)
          /\ c.seen = RowSeen(d, b.seen, row)
    /\ \A l \in DOMAIN c.lines : l \in DOMAIN b.lines \/ LineObserved(c, l)
    /\ \A e \in DOMAIN c.events : e \in DOMAIN b.events \/ EventObserved(d, c, e)
    /\ HeldNow(d, b, row) => SameRecords(b, c) /\ (Rejected(c) <=> Rejected(b))

LEMMA UnnamedRow ==
    ASSUME NEW d, NEW b, Shaped(b), NEW row, row.line = None
    PROVE  Read(d, b, Row(d, b, row), row)
<1> DEFINE f == Finding("REQUIRED_ID_MISSING", None, "quarantine_record")
           c == Row(d, b, row)
<1>1. c = Find(b, {f}) /\ f.disposition # "reject_run"
  BY DEF Row, HeroRow, PublicRow, Finding
<1> HIDE DEF c, f
<1>2. /\ Shaped(c) /\ SameRecords(b, c) /\ Grows(b, c) /\ (Rejected(c) <=> Rejected(b))
  BY <1>1, FindAdds, FindGrows, FindMild
<1>3. Read(d, b, c, row)
  BY <1>2 DEF Read, SameRecords
<1> QED BY <1>3 DEF c

LEMMA HeroRowReads ==
    ASSUME NEW row, row.line # None, NEW R, row.events \in Seq(R), NEW b, Shaped(b)
    PROVE  Read(HERO, b, HeroRow(b, row), row)
<1> DEFINE c == HeroRow(b, row)
           line == HeroLine(row)
           wrong == FoundIf(line.field.state = "invalid",
                            Finding("VALUE_OUT_OF_RANGE", LineRef(row.line), "invalidate_field"))
           flagged == Find(b, wrong)
           lined == AddLine(flagged, row.line, line)
           evented == Evented(row, lined)
           paths == LinePaths \cup IF row.field.form = "ABSENT" THEN {} ELSE {"field"}
<1>1. c = Observe(evented, LineRef(row.line), paths, row.line, Commitment(row))
  BY DEF HeroRow, Evented
<1>2. line.field.state = "present" => "field" \in paths
  BY DEF HeroLine, TypedField, Field
<1>3. \A f \in wrong : f.disposition # "reject_run"
  BY DEF FoundIf, Finding
<1>4. line = LineOf(HERO, row)
  BY DEF LineOf
<1> HIDE DEF c, line, wrong, paths
<1>5. /\ Shaped(flagged) /\ SameRecords(b, flagged) /\ Grows(b, flagged)
      /\ (Rejected(flagged) <=> Rejected(b))
  BY <1>3, FindAdds, FindGrows, FindMild
<1> HIDE DEF flagged
<1>6. /\ Shaped(lined) /\ Grows(flagged, lined)
      /\ lined.events = flagged.events /\ lined.seen = flagged.seen
      /\ DOMAIN lined.lines = DOMAIN flagged.lines \cup {row.line}
      /\ Rejected(lined) \/ lined.lines[row.line] = line
      /\ row.line \in DOMAIN flagged.lines /\ flagged.lines[row.line] = line =>
            lined.lines = flagged.lines /\ (Rejected(lined) <=> Rejected(flagged))
      /\ row.line \notin DOMAIN flagged.lines => lined.lines[row.line] = line
  BY <1>5, AddLineAdds
<1> HIDE DEF lined
<1>7. Collected(lined, evented, row, Len(row.events))
  BY <1>6, EventsCollected
<1>8. Shaped(evented) /\ Grows(lined, evented) /\ evented.lines = lined.lines
  BY <1>7 DEF Collected
<1> HIDE DEF evented
<1>9. /\ Shaped(c) /\ Grows(evented, c) /\ SameRecords(evented, c)
      /\ c.findings = evented.findings /\ \A p \in paths : Observed(c, LineRef(row.line), p)
  BY <1>1, <1>8, ObserveAdds
<1>10. Rejected(c) <=> Rejected(evented)
  BY <1>9 DEF Rejected
<1>11. Grows(b, c)
  BY <1>5, <1>6, <1>8, <1>9, GrowsOn
<1>12. lined.events = b.events /\ lined.seen = b.seen /\ flagged.lines = b.lines
  BY <1>5, <1>6 DEF SameRecords
<1>13. c.lines = lined.lines /\ c.events = evented.events /\ c.seen = evented.seen
  BY <1>8, <1>9 DEF SameRecords
<1>14. ASSUME ~Rejected(c)
       PROVE  /\ LineHeld(HERO, c, row) /\ EventsHeld(HERO, c, b.seen, row)
              /\ c.seen = RowSeen(HERO, b.seen, row)
  <2>1. ~Rejected(evented) /\ ~Rejected(lined)
    BY <1>8, <1>10, <1>14, RejectionStays
  <2>2. LineHeld(HERO, c, row)
    BY <1>4, <1>6, <1>13, <2>1 DEF LineHeld
  <2>3. /\ c.seen = SeenIn(b.seen, row, Len(row.events))
        /\ \A j \in DOMAIN row.events :
              Recorded(evented, SeenIn(b.seen, row, j), row, row.events[j])
    BY <1>7, <1>12, <1>13, <2>1 DEF Collected
  <2>4. \A j \in DOMAIN row.events : Recorded(c, SeenIn(b.seen, row, j), row, row.events[j])
    BY <1>9, <2>3, RecordedStays
  <2> QED BY <2>2, <2>3, <2>4 DEF EventsHeld, RowSeen
<1>15. ASSUME NEW l \in DOMAIN c.lines, l \notin DOMAIN b.lines PROVE LineObserved(c, l)
  <2>1. l = row.line /\ c.lines[l] = line
    BY <1>6, <1>12, <1>13, <1>15
  <2> QED BY <1>2, <1>9, <2>1 DEF LineObserved
<1>16. ASSUME NEW e \in DOMAIN c.events, e \notin DOMAIN b.events PROVE EventObserved(HERO, c, e)
  <2>1. \A p \in EventPaths : Observed(evented, e, p)
    BY <1>7, <1>12, <1>13, <1>16 DEF Collected
  <2>2. \A p \in EventPaths : Observed(c, e, p)
    BY <1>9, <2>1, ObservedStays
  <2>3. \A p \in Populated(c.events[e]) : p \in EventPaths
    BY DEF Populated, EventPaths
  <2> QED BY <2>2, <2>3 DEF EventObserved
<1>17. ASSUME HeldNow(HERO, b, row) PROVE SameRecords(b, c) /\ (Rejected(c) <=> Rejected(b))
  <2>1. row.line \in DOMAIN b.lines /\ b.lines[row.line] = line /\ Repeats(b, row)
    BY <1>4, <1>17 DEF HeldNow, LineHeld
  <2>2. lined.lines = b.lines /\ (Rejected(lined) <=> Rejected(b))
    BY <1>5, <1>6, <1>12, <2>1
  <2>3. Repeats(lined, row)
    BY <1>12, <2>1 DEF Repeats, Recorded
  <2>4. SameRecords(lined, evented) /\ (Rejected(evented) <=> Rejected(lined))
    BY <1>7, <2>3 DEF Collected
  <2> QED BY <1>10, <1>12, <1>13, <2>2, <2>4 DEF SameRecords
<1>18. Read(HERO, b, c, row)
  BY <1>9, <1>11, <1>14, <1>15, <1>16, <1>17 DEF Read
<1> QED BY <1>18 DEF c

-----------------------------------------------------------------------------
(* The adapters of the public sources.                                     *)

LEMMA PublicEventIs ==
    ASSUME NEW row, NEW kind, NEW milestone, NEW occurred, NEW known, NEW promised
    PROVE  LET e == PublicEvent(row, kind, milestone, occurred, known, promised)
           IN  /\ e.line = row.line /\ e.kind = kind /\ e.milestone = milestone
               /\ e.occurred = occurred /\ e.known = known /\ e.available = known
               /\ e.promised = promised /\ e.reason = Field("not_applicable")
               /\ e.revises = Field("not_applicable")
BY DEF PublicEvent

\* What is populated in an event and its row is not named as the source of.
LEMMA OlistSources ==
    ASSUME NEW row, NEW e \in OlistEvents(row)
    PROVE  /\ e.line = row.line
           /\ \A p \in Populated(e) :
                 \/ p \in Sourced(OLIST, e) \/ p \in {"kind", "milestone"}
                 \/ p \in {"known", "available"} /\ "occurred" \in Sourced(OLIST, e)
<1> DEFINE purchase == PublicTemporal(OLIST, row.committed)
           promised == PublicTemporal(OLIST, row.promised)
           reached == PublicTemporal(OLIST, row.reached)
           none == Field("not_applicable")
           handoff == Present("supplier_handoff")
           committed == PublicEvent(row, "committed", none, purchase, purchase, none)
           recorded == PublicEvent(row, "promise_recorded", handoff, purchase, purchase, promised)
           milestone == PublicEvent(row, "milestone_reached", handoff, reached,
                                    Field("unknown"), none)
<1>1. e = committed \/ e = recorded \/ e = milestone
  BY DEF OlistEvents
<1>2. none.state # "present" /\ Field("unknown").state # "present"
  BY DEF Field
<1>3. \A p \in Populated(e) : \/ p \in {"kind", "milestone"} \/ p \in {"known", "available"}
                              \/ p \in {"occurred", "promised", "reason", "revises"} /\ e[p].state = "present"
  BY DEF Populated, EventPaths
<1> HIDE DEF purchase, promised, reached, none, handoff
<1>4. CASE e = committed
  <2>1. e.line = row.line /\ e.kind = "committed" /\ e.promised = none
        /\ e.reason = none /\ e.revises = none
    BY <1>4, PublicEventIs DEF none
  <2>2. Sourced(OLIST, e) = {"occurred"}
    BY <2>1 DEF Sourced
  <2> QED BY <1>2, <1>3, <2>1, <2>2
<1>5. CASE e = recorded
  <2>1. e.line = row.line /\ e.kind = "promise_recorded"
        /\ e.reason = none /\ e.revises = none
    BY <1>5, PublicEventIs DEF none
  <2>2. Sourced(OLIST, e) = {"promised", "occurred"}
    BY <2>1 DEF Sourced
  <2> QED BY <1>2, <1>3, <2>1, <2>2
<1>6. CASE e = milestone
  <2>1. e.line = row.line /\ e.kind = "milestone_reached" /\ e.promised = none
        /\ e.reason = none /\ e.revises = none
    BY <1>6, PublicEventIs DEF none
  <2>2. "occurred" \in Sourced(OLIST, e)
    BY <2>1 DEF Sourced
  <2> QED BY <1>2, <1>3, <2>1, <2>2
<1> QED BY <1>1, <1>4, <1>5, <1>6

LEMMA ScmsSources ==
    ASSUME NEW row, NEW e \in ScmsEvents(row)
    PROVE  /\ e.line = row.line
           /\ \A p \in Populated(e) : p \in Sourced(SCMS, e) \/ p \in {"kind", "milestone"}
<1> DEFINE po == PublicTemporal(SCMS, row.committed)
           scheduled == PublicTemporal(SCMS, row.promised)
           delivered == PublicTemporal(SCMS, row.reached)
           recorded == PublicTemporal(SCMS, row.recorded)
           none == Field("not_applicable")
           unknown == Field("unknown")
           unresolved == Field("unresolved")
           delivery == Present("customer_delivery")
           clock == IF recorded.state = "present" THEN recorded ELSE unknown
           committed == PublicEvent(row, "committed", none, po, unresolved, none)
           promise == PublicEvent(row, "promise_recorded", delivery, unknown, unknown, scheduled)
           milestone == PublicEvent(row, "milestone_reached", delivery, delivered, clock, none)
<1>1. e = committed \/ e = promise \/ e = milestone
  BY DEF ScmsEvents
<1>2. none.state # "present" /\ unknown.state # "present" /\ unresolved.state # "present"
  BY DEF Field
<1>3. \A p \in Populated(e) : \/ p \in {"kind", "milestone"}
                              \/ /\ p \in {"known", "available", "occurred", "promised", "reason", "revises"}
                                 /\ e[p].state = "present"
  BY DEF Populated, EventPaths
<1>0. SCMS # OLIST
  BY DEF SCMS, OLIST
<1> HIDE DEF po, scheduled, delivered, none, unknown, unresolved, delivery, clock
<1>4. CASE e = committed
  <2>1. e.line = row.line /\ e.kind = "committed" /\ e.promised = none
        /\ e.reason = none /\ e.revises = none
        /\ e.known = unresolved /\ e.available = unresolved
    BY <1>4, PublicEventIs DEF none
  <2>2. Sourced(SCMS, e) = {"occurred"}
    BY <2>1 DEF Sourced
  <2> QED BY <1>2, <1>3, <2>1, <2>2
<1>5. CASE e = promise
  <2>1. e.line = row.line /\ e.kind = "promise_recorded"
        /\ e.reason = none /\ e.revises = none
        /\ e.known = unknown /\ e.available = unknown /\ e.occurred = unknown
    BY <1>5, PublicEventIs DEF none
  <2>2. Sourced(SCMS, e) = {"promised"}
    BY <1>0, <2>1 DEF Sourced
  <2> QED BY <1>2, <1>3, <2>1, <2>2
<1>6. CASE e = milestone
  <2>1. e.line = row.line /\ e.kind = "milestone_reached" /\ e.promised = none
        /\ e.reason = none /\ e.revises = none
    BY <1>6, PublicEventIs DEF none
  <2>2. Sourced(SCMS, e) = {"occurred", "known", "available"}
    BY <2>1 DEF Sourced
  <2> QED BY <1>2, <1>3, <2>1, <2>2
<1> QED BY <1>1, <1>4, <1>5, <1>6

LEMMA RowEventsFinite ==
    ASSUME NEW d, NEW row
    PROVE  IsFiniteSet(RowEvents(d, row))
<1>1. \A x, y, z : IsFiniteSet({x, y, z})
  <2> TAKE x, y, z
  <2>1. IsFiniteSet({x}) /\ IsFiniteSet({y}) /\ IsFiniteSet({z})
    BY FS_Singleton
  <2>2. IsFiniteSet({x} \cup {y})
    BY <2>1, FS_Union
  <2>3. IsFiniteSet(({x} \cup {y}) \cup {z})
    BY <2>1, <2>2, FS_Union
  <2>4. ({x} \cup {y}) \cup {z} = {x, y, z}
    OBVIOUS
  <2> QED BY <2>3, <2>4
<1>2. \E x, y, z : OlistEvents(row) \subseteq {x, y, z}
  BY DEF OlistEvents
<1>3. \E x, y, z : ScmsEvents(row) \subseteq {x, y, z}
  BY DEF ScmsEvents
<1>4. PICK T : IsFiniteSet(T) /\ RowEvents(d, row) \subseteq T
  BY <1>1, <1>2, <1>3 DEF RowEvents
<1> QED BY <1>4, FS_Subset

LEMMA RowSources ==
    ASSUME NEW d \in {OLIST, SCMS}, NEW row, NEW e \in RowEvents(d, row)
    PROVE  /\ e.line = row.line
           /\ \A p \in Populated(e) :
                 \/ p \in Sourced(d, e) \/ p \in {"kind", "milestone"}
                 \/ d = OLIST /\ p \in {"known", "available"} /\ "occurred" \in Sourced(d, e)
<1>0. SCMS # OLIST
  BY DEF SCMS, OLIST
<1>1. CASE d = OLIST
  BY <1>1, OlistSources DEF RowEvents
<1>2. CASE d = SCMS
  BY <1>0, <1>2, ScmsSources DEF RowEvents
<1> QED BY <1>1, <1>2

LEMMA MergeEventAdds ==
    ASSUME NEW d, NEW b, Shaped(b), NEW event
    PROVE  LET c == MergeEvent(d, b, event)
           IN  /\ Shaped(c) /\ Grows(b, c) /\ c.lines = b.lines /\ c.seen = b.seen
               /\ DOMAIN c.events = DOMAIN b.events \cup {MergeKey(event)}
               /\ Rejected(c) \/ MergeHeld(c, event)
               /\ MergeKey(event) \notin DOMAIN b.events => MergeHeld(c, event)
               /\ \A p \in Sourced(d, event) : Observed(c, MergeKey(event), p)
               /\ MergeHeld(b, event) => SameRecords(b, c) /\ (Rejected(c) <=> Rejected(b))
<1> DEFINE key == MergeKey(event)
           c == MergeEvent(d, b, event)
           found == Find(b, PublicEventFindings(key, event))
           added == AddEvent(found, key, event)
<1>1. c = Observe(added, key, Sourced(d, event), event.line, Clocks(event.known, event.available))
  BY DEF MergeEvent, MergeKey
<1>2. \A f \in PublicEventFindings(key, event) : f.disposition # "reject_run"
  BY DEF PublicEventFindings, FoundIf, Finding
<1> HIDE DEF c, key
<1>3. /\ Shaped(found) /\ SameRecords(b, found) /\ Grows(b, found)
      /\ (Rejected(found) <=> Rejected(b))
  BY <1>2, FindAdds, FindGrows, FindMild
<1> HIDE DEF found
<1>4. /\ Shaped(added) /\ Grows(found, added)
      /\ added.lines = found.lines /\ added.seen = found.seen
      /\ DOMAIN added.events = DOMAIN found.events \cup {key}
      /\ Rejected(added) \/ added.events[key] = event
      /\ key \in DOMAIN found.events /\ found.events[key] = event =>
            added.events = found.events /\ (Rejected(added) <=> Rejected(found))
      /\ key \notin DOMAIN found.events => added.events[key] = event
  BY <1>3, AddEventAdds
<1> HIDE DEF added
<1>5. /\ Shaped(c) /\ Grows(added, c) /\ SameRecords(added, c) /\ c.findings = added.findings
      /\ \A p \in Sourced(d, event) : Observed(c, key, p)
  BY <1>1, <1>4, ObserveAdds
<1>6. Rejected(c) <=> Rejected(added)
  BY <1>5 DEF Rejected
<1>7. Grows(b, c)
  BY <1>3, <1>4, <1>5, GrowsOn
<1>8. /\ c.lines = b.lines /\ c.seen = b.seen /\ c.events = added.events
      /\ found.events = b.events
  BY <1>3, <1>4, <1>5 DEF SameRecords
<1>9. MergeHeld(b, event) => SameRecords(b, c) /\ (Rejected(c) <=> Rejected(b))
  BY <1>3, <1>4, <1>6, <1>8 DEF MergeHeld, SameRecords, key
<1>10. /\ Rejected(c) \/ MergeHeld(c, event)
       /\ key \notin DOMAIN b.events => MergeHeld(c, event)
  BY <1>4, <1>6, <1>8 DEF MergeHeld, key
<1>11. DOMAIN c.events = DOMAIN b.events \cup {key}
  BY <1>4, <1>8
<1> QED BY <1>5, <1>7, <1>8, <1>9, <1>10, <1>11 DEF c, key

LEMMA MergeHeldStays ==
    ASSUME NEW b, NEW c, Grows(b, c), NEW event, MergeHeld(b, event)
    PROVE  MergeHeld(c, event)
BY DEF Grows, Extends, MergeHeld

\* What a set of public events makes of a bundle, however it is ordered.
MergedIn(d, b, c, s) ==
    /\ Shaped(c) /\ Grows(b, c) /\ c.lines = b.lines /\ c.seen = b.seen
    /\ Rejected(c) \/ \A e \in s : MergeHeld(c, e)
    /\ \A k \in DOMAIN c.events \ DOMAIN b.events :
          \E e \in s : /\ k = MergeKey(e) /\ MergeHeld(c, e)
                       /\ \A p \in Sourced(d, e) : Observed(c, k, p)
    /\ (\A e \in s : MergeHeld(b, e)) => SameRecords(b, c) /\ (Rejected(c) <=> Rejected(b))

LEMMA MergedNext ==
    ASSUME NEW d, NEW b, NEW s, NEW e \in s, NEW c, MergedIn(d, b, c, s \ {e})
    PROVE  MergedIn(d, b, MergeEvent(d, c, e), s)
<1> DEFINE m == MergeEvent(d, c, e)
<1>1. Shaped(c) /\ Grows(b, c) /\ c.lines = b.lines /\ c.seen = b.seen
  BY DEF MergedIn
<1>2. /\ Shaped(m) /\ Grows(c, m) /\ m.lines = c.lines /\ m.seen = c.seen
      /\ DOMAIN m.events = DOMAIN c.events \cup {MergeKey(e)}
      /\ Rejected(m) \/ MergeHeld(m, e)
      /\ MergeKey(e) \notin DOMAIN c.events => MergeHeld(m, e)
      /\ \A p \in Sourced(d, e) : Observed(m, MergeKey(e), p)
      /\ MergeHeld(c, e) => SameRecords(c, m) /\ (Rejected(m) <=> Rejected(c))
  BY <1>1, MergeEventAdds
<1> HIDE DEF m
<1>3. Grows(b, m)
  BY <1>1, <1>2, GrowsOn
<1>4. ASSUME ~Rejected(m), NEW x \in s PROVE MergeHeld(m, x)
  <2>1. ~Rejected(c)
    BY <1>2, <1>4, RejectionStays
  <2>2. x # e => MergeHeld(c, x)
    BY <1>4, <2>1 DEF MergedIn
  <2> QED BY <1>2, <1>4, <2>2, MergeHeldStays
<1>5. ASSUME NEW k \in DOMAIN m.events \ DOMAIN b.events
      PROVE  \E x \in s : /\ k = MergeKey(x) /\ MergeHeld(m, x)
                          /\ \A p \in Sourced(d, x) : Observed(m, k, p)
  <2>1. CASE k \in DOMAIN c.events
    <3>1. PICK x \in s \ {e} : /\ k = MergeKey(x) /\ MergeHeld(c, x)
                               /\ \A p \in Sourced(d, x) : Observed(c, k, p)
      BY <1>5, <2>1 DEF MergedIn
    <3>2. MergeHeld(m, x) /\ \A p \in Sourced(d, x) : Observed(m, k, p)
      BY <1>2, <3>1, MergeHeldStays, ObservedStays
    <3> QED BY <3>1, <3>2
  <2>2. CASE k \notin DOMAIN c.events
    <3>1. k = MergeKey(e)
      BY <1>2, <2>2
    <3> QED BY <1>2, <2>2, <3>1
  <2> QED BY <2>1, <2>2
<1>6. ASSUME \A x \in s : MergeHeld(b, x)
      PROVE  SameRecords(b, m) /\ (Rejected(m) <=> Rejected(b))
  <2>1. SameRecords(b, c) /\ (Rejected(c) <=> Rejected(b))
    BY <1>6 DEF MergedIn
  <2>2. MergeHeld(c, e)
    BY <1>1, <1>6, MergeHeldStays
  <2> QED BY <1>2, <2>1, <2>2 DEF SameRecords
<1>7. MergedIn(d, b, m, s)
  BY <1>1, <1>2, <1>3, <1>4, <1>5, <1>6 DEF MergedIn
<1> QED BY <1>7 DEF m

LEMMA EventsMerged ==
    ASSUME NEW d, NEW b, Shaped(b), NEW S, IsFiniteSet(S)
    PROVE  MergedIn(d, b, Merged(d, b, S), S)
<1>1. PICK w : MergeSteps(w, d, b, S) /\ Merged(d, b, S) = w[S]
  BY MergesWalk
<1> DEFINE Bad == {k \in Nat : \E s \in SUBSET S : Cardinality(s) = k /\ ~MergedIn(d, b, w[s], s)}
<1>2. ASSUME Bad # {} PROVE FALSE
  <2>1. PICK k \in Bad : \A j \in Bad : k <= j
    BY <1>2, LeastNatural
  <2>2. PICK s \in SUBSET S : Cardinality(s) = k /\ ~MergedIn(d, b, w[s], s)
    BY <2>1
  <2>3. IsFiniteSet(s) /\ k \in Nat
    BY <2>1, FS_Subset
  <2>4. CASE s = {}
    <3>1. MergedIn(d, b, b, {})
      BY GrowsSame DEF MergedIn, SameRecords
    <3> QED BY <1>1, <2>2, <2>4, <3>1 DEF MergeSteps
  <2>5. CASE s # {}
    <3>1. PICK e \in s : w[s] = MergeEvent(d, w[s \ {e}], e)
      BY <1>1, <2>5 DEF MergeSteps
    <3>2. Cardinality(s \ {e}) = k - 1 /\ s \ {e} \in SUBSET S /\ k - 1 \in Nat
      <4>1. Cardinality(s \ {e}) = Cardinality(s) - 1
        BY <2>3, FS_RemoveElement
      <4>2. Cardinality(s \ {e}) \in Nat
        BY <2>3, FS_Subset, FS_CardinalityType
      <4> QED BY <2>2, <4>1, <4>2
    <3>3. k - 1 \notin Bad
      BY <2>1, <2>3, <3>2
    <3>4. MergedIn(d, b, w[s \ {e}], s \ {e})
      BY <3>2, <3>3
    <3>5. MergedIn(d, b, w[s], s)
      BY <3>1, <3>4, MergedNext
    <3> QED BY <2>2, <3>5
  <2> QED BY <2>4, <2>5
<1>3. Cardinality(S) \in Nat /\ Cardinality(S) \notin Bad /\ S \in SUBSET S
  BY <1>2, FS_CardinalityType
<1>4. MergedIn(d, b, w[S], S)
  BY <1>3
<1> QED BY <1>1, <1>4

LEMMA PublicRowReads ==
    ASSUME NEW d \in {OLIST, SCMS}, NEW row, row.line # None, NEW b, Shaped(b)
    PROVE  Read(d, b, PublicRow(d, b, row), row)
<1> DEFINE c == PublicRow(d, b, row)
           line == PublicLine(row)
           wrong == FoundIf(line.field.state = "invalid",
                            Finding("VALUE_PARSE_FAILED", LineRef(row.line), "invalidate_field"))
                    \cup TemporalFindings(d, row)
           flagged == Find(b, wrong)
           lined == AddLine(flagged, row.line, line)
           S == RowEvents(d, row)
           evented == Merged(d, lined, S)
           paths == LinePaths \cup IF line.field.state = "present" THEN {"field"} ELSE {}
<1>0. d # HERO /\ \A e \in S : /\ e.line = row.line
           /\ \A p \in Populated(e) :
                 \/ p \in Sourced(d, e) \/ p \in {"kind", "milestone"}
                 \/ d = OLIST /\ p \in {"known", "available"} /\ "occurred" \in Sourced(d, e)
  BY RowSources DEF HERO, OLIST, SCMS
<1>1. c = Observe(evented, LineRef(row.line), paths, row.line, PublicCommitment(d, row))
  BY DEF PublicRow, Merged
<1>2. line.field.state = "present" => "field" \in paths
  OBVIOUS
<1>3. \A f \in wrong : f.disposition # "reject_run"
  <2>1. \A f \in TemporalFindings(d, row) : f.disposition # "reject_run"
    BY DEF TemporalFindings, FoundIf, Finding
  <2> QED BY <2>1 DEF FoundIf, Finding
<1>4. line = LineOf(d, row)
  BY <1>0 DEF LineOf
<1>5. IsFiniteSet(S)
  BY RowEventsFinite
<1> HIDE DEF c, line, wrong, paths, S
<1>6. /\ Shaped(flagged) /\ SameRecords(b, flagged) /\ Grows(b, flagged)
      /\ (Rejected(flagged) <=> Rejected(b))
  BY <1>3, FindAdds, FindGrows, FindMild
<1> HIDE DEF flagged
<1>7. /\ Shaped(lined) /\ Grows(flagged, lined)
      /\ lined.events = flagged.events /\ lined.seen = flagged.seen
      /\ DOMAIN lined.lines = DOMAIN flagged.lines \cup {row.line}
      /\ Rejected(lined) \/ lined.lines[row.line] = line
      /\ row.line \in DOMAIN flagged.lines /\ flagged.lines[row.line] = line =>
            lined.lines = flagged.lines /\ (Rejected(lined) <=> Rejected(flagged))
      /\ row.line \notin DOMAIN flagged.lines => lined.lines[row.line] = line
  BY <1>6, AddLineAdds
<1> HIDE DEF lined
<1>8. MergedIn(d, lined, evented, S)
  BY <1>5, <1>7, EventsMerged
<1> HIDE DEF evented
<1>9. Shaped(evented) /\ Grows(lined, evented) /\ evented.lines = lined.lines
      /\ evented.seen = lined.seen
  BY <1>8 DEF MergedIn
<1>10. /\ Shaped(c) /\ Grows(evented, c) /\ SameRecords(evented, c)
       /\ c.findings = evented.findings /\ \A p \in paths : Observed(c, LineRef(row.line), p)
  BY <1>1, <1>9, ObserveAdds
<1>11. Rejected(c) <=> Rejected(evented)
  BY <1>10 DEF Rejected
<1>12. Grows(b, c)
  BY <1>6, <1>7, <1>9, <1>10, GrowsOn
<1>13. /\ lined.events = b.events /\ flagged.lines = b.lines
       /\ c.lines = lined.lines /\ c.events = evented.events /\ c.seen = b.seen
  BY <1>6, <1>7, <1>9, <1>10 DEF SameRecords
<1>14. ASSUME ~Rejected(c)
       PROVE  /\ LineHeld(d, c, row) /\ EventsHeld(d, c, b.seen, row)
              /\ c.seen = RowSeen(d, b.seen, row)
  <2>1. ~Rejected(evented) /\ ~Rejected(lined)
    BY <1>9, <1>11, <1>14, RejectionStays
  <2>2. LineHeld(d, c, row)
    BY <1>4, <1>7, <1>13, <2>1 DEF LineHeld
  <2>3. \A e \in S : MergeHeld(evented, e)
    BY <1>8, <2>1 DEF MergedIn
  <2>4. \A e \in S : MergeHeld(c, e)
    BY <1>10, <2>3, MergeHeldStays
  <2> QED BY <1>0, <1>13, <2>2, <2>4 DEF EventsHeld, RowSeen, S
<1>15. ASSUME NEW l \in DOMAIN c.lines, l \notin DOMAIN b.lines PROVE LineObserved(c, l)
  <2>1. l = row.line /\ c.lines[l] = line
    BY <1>7, <1>13, <1>15
  <2> QED BY <1>2, <1>10, <2>1 DEF LineObserved
<1>16. ASSUME NEW k \in DOMAIN c.events, k \notin DOMAIN b.events PROVE EventObserved(d, c, k)
  <2>1. PICK e \in S : /\ k = MergeKey(e) /\ MergeHeld(evented, e)
                       /\ \A p \in Sourced(d, e) : Observed(evented, k, p)
    BY <1>8, <1>13, <1>16 DEF MergedIn
  <2>2. c.events[k] = e
    BY <1>13, <2>1 DEF MergeHeld
  <2>3. \A p \in Sourced(d, e) : Observed(c, k, p)
    BY <1>10, <2>1, ObservedStays
  <2> QED BY <1>0, <2>2, <2>3 DEF EventObserved
<1>17. ASSUME HeldNow(d, b, row) PROVE SameRecords(b, c) /\ (Rejected(c) <=> Rejected(b))
  <2>1. row.line \in DOMAIN b.lines /\ b.lines[row.line] = line /\ \A e \in S : MergeHeld(b, e)
    BY <1>0, <1>4, <1>17 DEF HeldNow, LineHeld, S
  <2>2. lined.lines = b.lines /\ (Rejected(lined) <=> Rejected(b))
    BY <1>6, <1>7, <1>13, <2>1
  <2>3. \A e \in S : MergeHeld(lined, e)
    BY <1>13, <2>1 DEF MergeHeld
  <2>4. SameRecords(lined, evented) /\ (Rejected(evented) <=> Rejected(lined))
    BY <1>8, <2>3 DEF MergedIn
  <2> QED BY <1>11, <1>13, <2>2, <2>4 DEF SameRecords
<1>18. Read(d, b, c, row)
  BY <1>10, <1>12, <1>14, <1>15, <1>16, <1>17 DEF Read
<1> QED BY <1>18 DEF c

-----------------------------------------------------------------------------
(* What the rows of a file make of a bundle.                               *)

LEMMA RowReads ==
    ASSUME NEW d \in Datasets, NEW row, d = HERO => Listed(row.events), NEW b, Shaped(b)
    PROVE  Read(d, b, Row(d, b, row), row)
<1>1. CASE row.line = None
  BY <1>1, UnnamedRow
<1>2. CASE row.line # None /\ d = HERO
  BY <1>2, HeroRowReads DEF Row, Listed
<1>3. CASE row.line # None /\ d # HERO
  BY <1>3, PublicRowReads DEF Row, Datasets
<1> QED BY <1>1, <1>2, <1>3

\* The keys that the first i rows of the hero file name.
KeysThrough(rows, i) ==
    UNION {{rows[m].events[k].key : k \in 1..Len(rows[m].events)} :
           m \in {m \in 1..i : rows[m].line # None}}

Gathered(d, rows, b, i) ==
    /\ Shaped(b)
    /\ \A l \in DOMAIN b.lines : LineObserved(b, l)
    /\ \A e \in DOMAIN b.events : EventObserved(d, b, e)
    /\ \/ Rejected(b)
       \/ /\ d = HERO => b.seen = KeysThrough(rows, i)
          /\ \A m \in 1..i : rows[m].line # None =>
                LineHeld(d, b, rows[m]) /\ EventsHeld(d, b, KeysThrough(rows, m - 1), rows[m])

LEMMA LineHeldStays ==
    ASSUME NEW d, NEW b, NEW c, Grows(b, c), NEW row, LineHeld(d, b, row)
    PROVE  LineHeld(d, c, row)
BY DEF Grows, Extends, LineHeld

LEMMA EventsHeldStays ==
    ASSUME NEW d, NEW b, NEW c, Grows(b, c), NEW row, NEW seen, EventsHeld(d, b, seen, row)
    PROVE  EventsHeld(d, c, seen, row)
<1>1. CASE d = HERO
  BY <1>1, RecordedStays DEF EventsHeld
<1>2. CASE d # HERO
  BY <1>2, MergeHeldStays DEF EventsHeld
<1> QED BY <1>1, <1>2

LEMMA LineObservedStays ==
    ASSUME NEW b, NEW c, Grows(b, c), NEW l \in DOMAIN b.lines, LineObserved(b, l)
    PROVE  LineObserved(c, l)
<1>1. c.lines[l] = b.lines[l]
  BY DEF Grows, Extends
<1> QED BY <1>1, ObservedStays DEF LineObserved

LEMMA EventObservedStays ==
    ASSUME NEW d, NEW b, NEW c, Grows(b, c), NEW e \in DOMAIN b.events, EventObserved(d, b, e)
    PROVE  EventObserved(d, c, e)
<1>1. c.events[e] = b.events[e]
  BY DEF Grows, Extends
<1> QED BY <1>1, ObservedStays DEF EventObserved

LEMMA KeysThroughNext ==
    ASSUME NEW rows, NEW i \in Nat \ {0}
    PROVE  /\ rows[i].line = None => KeysThrough(rows, i) = KeysThrough(rows, i - 1)
           /\ rows[i].line # None =>
                 KeysThrough(rows, i) = SeenIn(KeysThrough(rows, i - 1), rows[i], Len(rows[i].events))
<1> DEFINE M(k) == {m \in 1..k : rows[m].line # None}
<1>1. 1..i = 1..(i - 1) \cup {i}
  OBVIOUS
<1>2. CASE rows[i].line = None
  <2>1. M(i) = M(i - 1)
    BY <1>1, <1>2
  <2> QED BY <1>2, <2>1, Zenon DEF KeysThrough
<1>3. CASE rows[i].line # None
  <2>1. M(i) = M(i - 1) \cup {i}
    BY <1>1, <1>3
  <2> DEFINE F(m) == {rows[m].events[k].key : k \in 1..Len(rows[m].events)}
  <2>2. KeysThrough(rows, i) = UNION {F(m) : m \in M(i)}
        /\ KeysThrough(rows, i - 1) = UNION {F(m) : m \in M(i - 1)}
    BY Zenon DEF KeysThrough
  <2>3. SeenIn(KeysThrough(rows, i - 1), rows[i], Len(rows[i].events))
          = KeysThrough(rows, i - 1) \cup F(i)
    BY DEF SeenIn
  <2> HIDE DEF M, F
  <2> QED BY <1>3, <2>1, <2>2, <2>3
<1> QED BY <1>2, <1>3

LEMMA GatheredNext ==
    ASSUME NEW d \in Datasets, NEW rows, NEW i \in Nat \ {0},
           d = HERO => Listed(rows[i].events),
           NEW b, Gathered(d, rows, b, i - 1)
    PROVE  Gathered(d, rows, Row(d, b, rows[i]), i)
<1> DEFINE row == rows[i]
           c == Row(d, b, row)
<1>1. Shaped(b)
  BY DEF Gathered
<1>2. Read(d, b, c, row)
  BY <1>1, RowReads
<1> HIDE DEF c
<1>3. Shaped(c) /\ Grows(b, c)
  BY <1>2 DEF Read
<1>4. ASSUME NEW l \in DOMAIN c.lines PROVE LineObserved(c, l)
  <2>1. l \in DOMAIN b.lines => LineObserved(b, l)
    BY DEF Gathered
  <2> QED BY <1>2, <1>3, <2>1, LineObservedStays DEF Read
<1>5. ASSUME NEW e \in DOMAIN c.events PROVE EventObserved(d, c, e)
  <2>1. e \in DOMAIN b.events => EventObserved(d, b, e)
    BY DEF Gathered
  <2> QED BY <1>2, <1>3, <2>1, EventObservedStays DEF Read
<1>6. ASSUME ~Rejected(c)
      PROVE  /\ d = HERO => c.seen = KeysThrough(rows, i)
             /\ \A m \in 1..i : rows[m].line # None =>
                   LineHeld(d, c, rows[m]) /\ EventsHeld(d, c, KeysThrough(rows, m - 1), rows[m])
  <2>1. ~Rejected(b)
    BY <1>3, <1>6, RejectionStays
  <2>2. /\ d = HERO => b.seen = KeysThrough(rows, i - 1)
        /\ \A m \in 1..(i - 1) : rows[m].line # None =>
              LineHeld(d, b, rows[m]) /\ EventsHeld(d, b, KeysThrough(rows, m - 1), rows[m])
    BY <2>1 DEF Gathered
  <2>3. d = HERO => c.seen = KeysThrough(rows, i)
    <3>1. CASE row.line = None
      BY <1>2, <2>2, <3>1, KeysThroughNext DEF Read, SameRecords
    <3>2. CASE row.line # None
      BY <1>2, <1>6, <2>2, <3>2, KeysThroughNext DEF Read, RowSeen
    <3> QED BY <3>1, <3>2
  <2>4. ASSUME NEW m \in 1..i, rows[m].line # None
        PROVE  LineHeld(d, c, rows[m]) /\ EventsHeld(d, c, KeysThrough(rows, m - 1), rows[m])
    <3>1. CASE m # i
      <4>1. m \in 1..(i - 1)
        BY <3>1
      <4> QED BY <1>3, <2>2, <2>4, <4>1, LineHeldStays, EventsHeldStays
    <3>2. CASE m = i
      <4>1. LineHeld(d, c, row) /\ EventsHeld(d, c, b.seen, row)
        BY <1>2, <1>6, <2>4, <3>2 DEF Read
      <4>2. CASE d = HERO
        BY <2>2, <3>2, <4>1, <4>2
      <4>3. CASE d # HERO
        BY <3>2, <4>1, <4>3 DEF EventsHeld
      <4> QED BY <4>2, <4>3
    <3> QED BY <3>1, <3>2
  <2> QED BY <2>3, <2>4
<1>7. Gathered(d, rows, c, i)
  BY <1>3, <1>4, <1>5, <1>6 DEF Gathered
<1> QED BY <1>7 DEF c

LEMMA EmptyGathered ==
    ASSUME NEW d, NEW rows
    PROVE  Gathered(d, rows, EmptyBundle, 0)
<1>1. /\ Shaped(EmptyBundle) /\ EmptyBundle.lines = <<>> /\ EmptyBundle.events = <<>>
      /\ EmptyBundle.seen = {} /\ 1..0 = {}
  BY DEF Shaped, EmptyBundle
<1>2. DOMAIN EmptyBundle.lines = {} /\ DOMAIN EmptyBundle.events = {}
  BY <1>1
<1>3. KeysThrough(rows, 0) = {}
  BY <1>1 DEF KeysThrough
<1> QED BY <1>1, <1>2, <1>3 DEF Gathered

LEMMA RowsGathered ==
    ASSUME NEW d \in Datasets, NEW source, IsSource(d, source)
    PROVE  Gathered(d, source.rows, Bundle(d, source), Len(source.rows))
<1> DEFINE rows == source.rows
           n == Len(rows)
<1>1. rows \in Seq(Range(rows)) /\ n \in Nat /\ DOMAIN rows = 1..n
  BY DEF IsSource, Listed
<1>2. PICK t : Steps(t, d, rows) /\ Bundle(d, source) = t[n]
  BY <1>1, BundleWalks
<1>3. \A i \in 1..n : d = HERO => Listed(rows[i].events)
  BY <1>1 DEF IsSource
<1> HIDE DEF n, rows
<1> DEFINE Bad == {i \in 0..n : ~Gathered(d, rows, t[i], i)}
<1>4. ASSUME Bad # {} PROVE FALSE
  <2>1. PICK i \in Bad : \A j \in Bad : i <= j
    <3>1. Bad \subseteq Nat
      BY <1>1
    <3> HIDE DEF Bad
    <3> QED BY <1>4, <3>1, LeastNatural
  <2>2. CASE i = 0
    BY <1>2, <2>1, <2>2, EmptyGathered DEF Steps
  <2>3. CASE i # 0
    <3>1. i \in 1..n /\ i \in Nat \ {0} /\ i - 1 \in 0..n /\ i - 1 \notin Bad
      BY <1>1, <2>1, <2>3
    <3>2. Gathered(d, rows, t[i - 1], i - 1)
      BY <3>1
    <3>3. t[i] = Row(d, t[i - 1], rows[i])
      BY <1>2, <3>1 DEF Steps, n
    <3>4. Gathered(d, rows, t[i], i)
      BY <1>3, <3>1, <3>2, <3>3, GatheredNext
    <3> QED BY <2>1, <3>4
  <2> QED BY <2>2, <2>3
<1>5. n \in 0..n
  BY <1>1
<1> QED BY <1>2, <1>4, <1>5 DEF n, rows

\* A file that ends with one more row ends with that row.
LEMMA OneRowMore ==
    ASSUME NEW d, NEW source, Listed(source.rows), NEW longer, NEW i \in DOMAIN source.rows,
           longer.rows = Append(source.rows, source.rows[i])
    PROVE  Bundle(d, longer) = Row(d, Bundle(d, source), source.rows[i])
<1> DEFINE rows == source.rows
           n == Len(rows)
           R == Range(rows)
           row == rows[i]
<1>1. rows \in Seq(R) /\ n \in Nat /\ row \in R
  BY DEF Listed, Range
<1> HIDE DEF R, row
<1>2. /\ longer.rows \in Seq(R) /\ Len(longer.rows) = n + 1 /\ longer.rows[n + 1] = row
      /\ \A j \in 1..n : longer.rows[j] = rows[j]
  BY <1>1 DEF row
<1>3. PICK t : Steps(t, d, rows) /\ Bundle(d, source) = t[n]
  BY <1>1, BundleWalks
<1>4. PICK u : Steps(u, d, longer.rows) /\ Bundle(d, longer) = u[n + 1]
  BY <1>2, BundleWalks
<1> HIDE DEF n, rows
<1> DEFINE Bad == {j \in 0..n : u[j] # t[j]}
<1>5. ASSUME Bad # {} PROVE FALSE
  <2>1. PICK j \in Bad : \A k \in Bad : j <= k
    <3>1. Bad \subseteq Nat
      BY <1>1
    <3> HIDE DEF Bad
    <3> QED BY <1>5, <3>1, LeastNatural
  <2>2. j # 0
    BY <1>3, <1>4, <2>1 DEF Steps
  <2>3. j \in 1..n /\ j \in 1..(n + 1) /\ j - 1 \in 0..n /\ j - 1 \notin Bad
    BY <1>1, <2>1, <2>2
  <2>4. t[j] = Row(d, t[j - 1], rows[j])
    BY <1>3, <2>3 DEF Steps, n
  <2>5. u[j] = Row(d, u[j - 1], longer.rows[j])
    BY <1>2, <1>4, <2>3 DEF Steps
  <2> QED BY <1>2, <2>1, <2>3, <2>4, <2>5
<1>6. u[n] = t[n]
  BY <1>1, <1>5
<1>7. n + 1 \in 1..(n + 1) /\ (n + 1) - 1 = n
  BY <1>1
<1>8. u[n + 1] = Row(d, u[n], row)
  BY <1>2, <1>4, <1>7 DEF Steps
<1> QED BY <1>3, <1>4, <1>6, <1>8 DEF row, rows

-----------------------------------------------------------------------------
(* What is published.                                                      *)

\* Only bundles that no finding rejects are published
\* (ingestion.py:2533-2563).
Accepted ==
    /\ bundled \in Sources
    /\ \A v \in versions : \E d \in DOMAIN bundled :
          /\ v.id = VersionOf(d, bundled[d])
          /\ v.content = Bundle(d, bundled[d]) /\ ~Rejected(v.content)

THEOREM PublishedAccepted == Spec => []Accepted
<1>1. Init => Accepted
  BY DEF Init, Accepted
<1>2. Accepted /\ [Next]_vars => Accepted'
  <2> SUFFICES ASSUME Accepted, [Next]_vars PROVE Accepted'
    OBVIOUS
  <2>1. ASSUME NEW k \in Keys, NEW d \in DOMAIN bundled, PublishImport(k, d) PROVE Accepted'
    <3> DEFINE id == VersionOf(d, bundled[d])
               p == Published(id, Len(imports) + 1)
    <3>1. versions' \subseteq versions \cup {p} /\ bundled' = bundled
      BY <2>1 DEF PublishImport, Store
    <3>2. id.dataset = d /\ id.source = bundled[d] /\ ~Rejected(Bundle(d, bundled[d]))
      BY <2>1 DEF PublishImport, VersionOf
    <3>3. p.id = id /\ p.content = Bundle(d, bundled[d])
      BY <3>2 DEF Published
    <3> HIDE DEF p, id
    <3>4. ASSUME NEW v \in versions'
          PROVE  \E e \in DOMAIN bundled :
                    /\ v.id = VersionOf(e, bundled[e])
                    /\ v.content = Bundle(e, bundled[e]) /\ ~Rejected(v.content)
      <4>1. CASE v \in versions
        BY <4>1 DEF Accepted
      <4>2. CASE v = p
        BY <3>2, <3>3, <4>2 DEF id
      <4> QED BY <3>1, <4>1, <4>2
    <3> QED BY <3>1, <3>4 DEF Accepted
  <2>2. UNCHANGED <<bundled, versions>> => Accepted'
    BY DEF Accepted
  <2>3. ASSUME NEW k \in Keys, NEW d \in DOMAIN bundled, FailImport(k, d) \/ RejectImport(k, d)
        PROVE  UNCHANGED <<bundled, versions>>
    BY <2>3 DEF FailImport, RejectImport
  <2>4. ASSUME NEW w \in Workspaces, NEW v \in versions, NEW r \in Runs, ViewLineage(w, v, r)
        PROVE  UNCHANGED <<bundled, versions>>
    BY <2>4 DEF ViewLineage
  <2> QED BY <2>1, <2>2, <2>3, <2>4 DEF Next, vars
<1> QED BY <1>1, <1>2, PTL DEF Spec

\* What stands was gathered from every row of its file.
LEMMA VersionGathered ==
    ASSUME Accepted, NEW v \in versions
    PROVE  /\ v.id.dataset \in Datasets /\ IsSource(v.id.dataset, v.id.source)
           /\ v.content = Bundle(v.id.dataset, v.id.source) /\ ~Rejected(v.content)
           /\ Gathered(v.id.dataset, v.id.source.rows, v.content, Len(v.id.source.rows))
<1>1. PICK d \in DOMAIN bundled :
         /\ v.id = VersionOf(d, bundled[d])
         /\ v.content = Bundle(d, bundled[d]) /\ ~Rejected(v.content)
  BY DEF Accepted
<1>2. v.id.dataset = d /\ v.id.source = bundled[d]
  BY <1>1 DEF VersionOf
<1>3. d \in Datasets /\ IsSource(d, bundled[d])
  BY SourcesAssumption DEF Accepted
<1> QED BY <1>1, <1>2, <1>3, RowsGathered

\* A row that a published bundle was made of is held by it.
LEMMA VersionHolds ==
    ASSUME Accepted, NEW v \in versions, NEW i \in DOMAIN v.id.source.rows,
           v.id.source.rows[i].line # None
    PROVE  LET d == v.id.dataset
               rows == v.id.source.rows
           IN  /\ LineHeld(d, v.content, rows[i])
               /\ EventsHeld(d, v.content, KeysThrough(rows, i - 1), rows[i])
               /\ d = HERO => v.content.seen = KeysThrough(rows, Len(rows))
<1> DEFINE d == v.id.dataset
           rows == v.id.source.rows
<1>1. IsSource(d, v.id.source) /\ ~Rejected(v.content)
      /\ Gathered(d, rows, v.content, Len(rows))
  BY VersionGathered
<1>2. i \in 1..Len(rows)
  BY <1>1 DEF IsSource, Listed
<1> QED BY <1>1, <1>2 DEF Gathered

LEMMA HoldsUnlinked ==
    ASSUME NEW b, NEW seen, NEW row, NEW e, Recorded(b, seen, row, e)
    PROVE  [b.events[EventRef(e.key)] EXCEPT !.revises = Field("not_applicable")]
             = [CanonicalEvent(b, row, e) EXCEPT !.revises = Field("not_applicable")]
<1>1. b.events[EventRef(e.key)] = CanonicalEvent([seen |-> seen], row, e)
  BY DEF Recorded, Reading
<1>2. [CanonicalEvent([seen |-> seen], row, e) EXCEPT !.revises = Field("not_applicable")]
        = [CanonicalEvent(b, row, e) EXCEPT !.revises = Field("not_applicable")]
  BY DEF CanonicalEvent
<1> QED BY <1>1, <1>2

(* No observation wins over a contradicting one: what is published agrees  *)
(* with every mapped row of its source, whatever the number of rows and of *)
(* events in a row (ingestion.py:972-996, 1143-1163, 1615-1650,            *)
(* 2017-2047).                                                             *)
THEOREM PublishedAgrees == Spec => []ContradictionsRejectRun
<1>1. Accepted => ContradictionsRejectRun
  <2> SUFFICES ASSUME Accepted, NEW v \in versions, NEW i \in Mapped(v.id.source.rows)
               PROVE  LET b == v.content
                          d == v.id.dataset
                          rows == v.id.source.rows
                          Unlinked(e) == [e EXCEPT !.revises = Field("not_applicable")]
                      IN  /\ b.lines[rows[i].line] =
                                IF d = HERO THEN HeroLine(rows[i]) ELSE PublicLine(rows[i])
                          /\ IF d = HERO
                             THEN \A j \in DOMAIN rows[i].events :
                                    LET e == rows[i].events[j]
                                    IN  Unlinked(b.events[EventRef(e.key)])
                                          = Unlinked(CanonicalEvent(b, rows[i], e))
                             ELSE \A e \in RowEvents(d, rows[i]) : b.events[<<e.line, e.kind>>] = e
    BY Zenon DEF ContradictionsRejectRun
  <2> DEFINE b == v.content
             d == v.id.dataset
             rows == v.id.source.rows
  <2>1. i \in DOMAIN rows /\ rows[i].line # None
    BY DEF Mapped
  <2>2. /\ LineHeld(d, b, rows[i])
        /\ EventsHeld(d, b, KeysThrough(rows, i - 1), rows[i])
    BY <2>1, VersionHolds
  <2>3. b.lines[rows[i].line] = IF d = HERO THEN HeroLine(rows[i]) ELSE PublicLine(rows[i])
    BY <2>2 DEF LineHeld, LineOf
  <2>4. ASSUME d = HERO, NEW j \in DOMAIN rows[i].events
        PROVE  [b.events[EventRef(rows[i].events[j].key)]
                  EXCEPT !.revises = Field("not_applicable")]
                 = [CanonicalEvent(b, rows[i], rows[i].events[j])
                      EXCEPT !.revises = Field("not_applicable")]
    <3>1. Recorded(b, SeenIn(KeysThrough(rows, i - 1), rows[i], j), rows[i], rows[i].events[j])
      BY <2>2, <2>4 DEF EventsHeld
    <3> HIDE DEF b, rows
    <3> QED BY <3>1, HoldsUnlinked
  <2>5. ASSUME d # HERO, NEW e \in RowEvents(d, rows[i])
        PROVE  b.events[<<e.line, e.kind>>] = e
    BY <2>2, <2>5 DEF EventsHeld, MergeHeld, MergeKey
  <2> QED BY <2>3, <2>4, <2>5
<1> QED BY <1>1, PublishedAccepted, PTL

(* Every populated field of what is published is observed in the source,   *)
(* whatever its rows (ingestion.py:1182-1245, 2083-2107).                  *)
THEOREM PublishedObserved == Spec => []FieldsAreObserved
<1>1. Accepted => FieldsAreObserved
  <2> SUFFICES ASSUME Accepted, NEW v \in versions
               PROVE  /\ \A l \in DOMAIN v.content.lines : LineObserved(v.content, l)
                      /\ \A e \in DOMAIN v.content.events :
                            EventObserved(v.id.dataset, v.content, e)
    BY DEF FieldsAreObserved, LineObserved, EventObserved
  <2> QED BY VersionGathered DEF Gathered
<1> QED BY <1>1, PublishedAccepted, PTL

LEMMA KeyThrough ==
    ASSUME NEW rows, NEW i, NEW m \in 1..i, rows[m].line # None,
           NEW k \in 1..Len(rows[m].events)
    PROVE  rows[m].events[k].key \in KeysThrough(rows, i)
BY DEF KeysThrough

\* The revisions of a file that looks ahead nowhere are linked alike where
\* they stand and at its end.
LEMMA LinksSettle ==
    ASSUME NEW rows, Listed(rows), ~LooksAhead(rows), NEW i \in Mapped(rows),
           NEW j \in DOMAIN rows[i].events, \A m \in DOMAIN rows : Listed(rows[m].events)
    PROVE  Reading(SeenIn(KeysThrough(rows, i - 1), rows[i], j), rows[i], rows[i].events[j])
             = Reading(KeysThrough(rows, Len(rows)), rows[i], rows[i].events[j])
<1> DEFINE e == rows[i].events[j]
           here == SeenIn(KeysThrough(rows, i - 1), rows[i], j)
           all == KeysThrough(rows, Len(rows))
           n == Len(rows)
<1>1. n \in Nat /\ DOMAIN rows = 1..n
  BY DEF Listed
<1>2. \A m \in 1..n : DOMAIN rows[m].events = 1..Len(rows[m].events) /\ Len(rows[m].events) \in Nat
  BY <1>1 DEF Listed
<1>3. i \in 1..n /\ rows[i].line # None /\ j \in 1..Len(rows[i].events)
  BY <1>1, <1>2 DEF Mapped
<1>4. here \subseteq all
  <2>1. ASSUME NEW x \in KeysThrough(rows, i - 1) PROVE x \in all
    <3>1. PICK m \in 1..(i - 1) : /\ rows[m].line # None
                                  /\ \E k \in 1..Len(rows[m].events) : x = rows[m].events[k].key
      BY <2>1 DEF KeysThrough
    <3>2. m \in 1..n
      BY <1>1, <1>3
    <3> QED BY <3>1, <3>2 DEF KeysThrough
  <2>2. ASSUME NEW k \in 1..j PROVE rows[i].events[k].key \in all
    <3>1. k \in 1..Len(rows[i].events)
      BY <1>2, <1>3
    <3> QED BY <1>3, <3>1 DEF KeysThrough
  <2> QED BY <2>1, <2>2 DEF SeenIn
<1>5. ASSUME e.revises # None, e.revises \in all, e.revises \notin here PROVE FALSE
  <2>1. PICK m \in 1..n : /\ rows[m].line # None
                          /\ \E k \in 1..Len(rows[m].events) : e.revises = rows[m].events[k].key
    BY <1>5 DEF KeysThrough
  <2>2. PICK k \in 1..Len(rows[m].events) : e.revises = rows[m].events[k].key
    BY <2>1
  <2>3. /\ \A y \in EventPlaces(rows) : /\ y[1] \in Mapped(rows) /\ y[2] \in DOMAIN rows[y[1]].events
        /\ <<i, j>> \in EventPlaces(rows) /\ <<m, k>> \in EventPlaces(rows)
    <3>1. m \in Mapped(rows) /\ k \in DOMAIN rows[m].events
      BY <1>1, <1>2, <2>1, <2>2 DEF Mapped
    <3> QED BY <3>1 DEF EventPlaces
  <2>4. ASSUME NEW y \in EventPlaces(rows), rows[y[1]].events[y[2]].key = e.revises
        PROVE  y[1] > i \/ (y[1] = i /\ y[2] > j)
    <3>1. /\ y[1] \in 1..n /\ rows[y[1]].line # None /\ y[2] \in 1..Len(rows[y[1]].events)
      BY <1>1, <1>2, <2>3 DEF Mapped
    <3>2. CASE y[1] < i
      <4>1. y[1] \in 1..(i - 1)
        BY <1>1, <1>3, <3>1, <3>2
      <4>2. e.revises \in KeysThrough(rows, i - 1)
        BY <2>4, <3>1, <4>1, KeyThrough
      <4> QED BY <1>5, <4>2 DEF SeenIn
    <3>3. CASE y[1] = i /\ y[2] <= j
      <4>1. y[2] \in 1..j
        BY <1>2, <1>3, <3>1, <3>3
      <4>2. e.revises = rows[i].events[y[2]].key
        BY <2>4, <3>3
      <4> QED BY <1>5, <4>1, <4>2 DEF SeenIn
    <3> QED BY <1>1, <1>2, <1>3, <3>1, <3>2, <3>3
  <2>5. <<i, j>>[1] = i /\ <<i, j>>[2] = j /\ <<m, k>>[1] = m /\ <<m, k>>[2] = k
    OBVIOUS
  <2> DEFINE T == {y \in EventPlaces(rows) : rows[y[1]].events[y[2]].key = e.revises}
  <2>6. <<m, k>> \in T /\ \A y \in T : y[1] > i \/ (y[1] = i /\ y[2] > j)
    BY <2>2, <2>3, <2>4, <2>5
  <2>7. LooksAhead(rows)
    <3> DEFINE Targets(x) == {y \in EventPlaces(rows) :
                                rows[y[1]].events[y[2]].key = rows[x[1]].events[x[2]].revises}
               Ahead(x) == /\ rows[x[1]].events[x[2]].revises # None
                           /\ Targets(x) # {}
                           /\ \A y \in Targets(x) : y[1] > x[1] \/ (y[1] = x[1] /\ y[2] > x[2])
    <3>0. Ahead(<<i, j>>)
      <4>1. Targets(<<i, j>>) = T
        BY <2>5
      <4> QED BY <1>5, <2>5, <2>6, <4>1
    <3>1. \E x \in EventPlaces(rows) : Ahead(x)
      <4> HIDE DEF Ahead
      <4> QED BY <2>3, <3>0
    <3> QED BY <3>1 DEF LooksAhead
  <2> QED BY <2>7
<1>6. Revises([seen |-> here], e) = Revises([seen |-> all], e)
  <2>1. [seen |-> here].seen = here /\ [seen |-> all].seen = all
    OBVIOUS
  <2> HIDE DEF here, all, e
  <2> QED BY <1>4, <1>5, <2>1 DEF Revises
<1> HIDE DEF here, all, e
<1>7. Reading(here, rows[i], e) = Reading(all, rows[i], e)
  BY <1>6 DEF Reading, CanonicalEvent
<1> QED BY <1>7 DEF here, all, e

(* What is published would have been published from a source that repeats  *)
(* one of its rows, with the same records, as long as promises stand       *)
(* before their revisions (ingestion.py:997-1013, 1164-1180, 1651-1664,    *)
(* 2048-2062).                                                             *)
THEOREM RepetitionsDeduplicate == Spec => []RepeatedRowsDeduplicate
<1>1. Accepted => RepeatedRowsDeduplicate
  <2> SUFFICES ASSUME Accepted, NEW v \in versions,
                      ~(v.id.dataset = HERO /\ LooksAhead(v.id.source.rows)),
                      NEW i \in DOMAIN v.id.source.rows
               PROVE  LET rows == v.id.source.rows
                          twice == Bundle(v.id.dataset,
                                          [v.id.source EXCEPT !.rows = Append(@, rows[i])])
                      IN  /\ ~Rejected(twice)
                          /\ twice.lines = v.content.lines
                          /\ twice.events = v.content.events
    BY Zenon DEF RepeatedRowsDeduplicate
  <2> DEFINE b == v.content
             d == v.id.dataset
             source == v.id.source
             rows == source.rows
             row == rows[i]
             longer == [source EXCEPT !.rows = Append(@, row)]
             twice == Bundle(d, longer)
  <2>1. /\ d \in Datasets /\ IsSource(d, source) /\ b = Bundle(d, source) /\ ~Rejected(b)
        /\ Gathered(d, rows, b, Len(rows))
    BY VersionGathered
  <2>2. longer.rows = Append(rows, row) /\ Listed(rows)
    BY <2>1 DEF IsSource
  <2> HIDE DEF longer
  <2>3. twice = Row(d, b, row)
    <3>1. /\ Listed(source.rows) /\ i \in DOMAIN source.rows
          /\ longer.rows = Append(source.rows, source.rows[i])
      BY <2>2
    <3> HIDE DEF source
    <3>2. Bundle(d, longer) = Row(d, Bundle(d, source), source.rows[i])
      BY <3>1, OneRowMore
    <3> QED BY <2>1, <3>2
  <2>4. d = HERO => \A m \in DOMAIN rows : Listed(rows[m].events)
    BY <2>1 DEF IsSource
  <2>5. Read(d, b, twice, row)
    <3>1. Shaped(b) /\ (d = HERO => Listed(row.events))
      BY <2>1, <2>4 DEF Gathered
    <3> QED BY <2>1, <2>3, <3>1, RowReads
  <2>6. CASE row.line = None
    BY <2>1, <2>5, <2>6 DEF Read, SameRecords, longer
  <2>7. CASE row.line # None
    <3>1. /\ LineHeld(d, b, row) /\ EventsHeld(d, b, KeysThrough(rows, i - 1), row)
          /\ d = HERO => b.seen = KeysThrough(rows, Len(rows))
      BY <2>7, VersionHolds
    <3>2. ASSUME d = HERO, NEW j \in DOMAIN row.events
          PROVE  Recorded(b, b.seen, row, row.events[j]) /\ row.events[j].key \in b.seen
      <4>1. Recorded(b, SeenIn(KeysThrough(rows, i - 1), row, j), row, row.events[j])
        BY <3>1, <3>2 DEF EventsHeld
      <4>2. i \in Mapped(rows) /\ ~LooksAhead(rows)
        BY <2>7, <3>2 DEF Mapped
      <4>3. Reading(SeenIn(KeysThrough(rows, i - 1), row, j), row, row.events[j])
              = Reading(b.seen, row, row.events[j])
        BY <2>2, <2>4, <3>1, <3>2, <4>2, LinksSettle
      <4>4. row.events[j].key \in KeysThrough(rows, Len(rows))
        <5>1. i \in 1..Len(rows) /\ j \in 1..Len(row.events)
          BY <2>2, <2>4, <3>2 DEF Listed
        <5> QED BY <2>7, <5>1, KeyThrough
      <4> QED BY <3>1, <3>2, <4>1, <4>3, <4>4 DEF Recorded
    <3>3. d # HERO => \A e \in RowEvents(d, row) : MergeHeld(b, e)
      BY <3>1 DEF EventsHeld
    <3>4. HeldNow(d, b, row)
      BY <3>1, <3>2, <3>3 DEF HeldNow, Repeats
    <3> QED BY <2>1, <2>5, <3>4 DEF Read, SameRecords, longer
  <2> QED BY <2>6, <2>7
<1> QED BY <1>1, PublishedAccepted, PTL

-----------------------------------------------------------------------------
(* Publication.                                                            *)

Outcome == {"FAILED", "SUCCEEDED"}

Named == {NoVersion} \cup {VersionOf(d, bundled[d]) : d \in DOMAIN bundled}

Answers == [key : Keys, dataset : DOMAIN bundled, status : Outcome, version : Named]

TypeInv == imports \in Seq(Answers)

(* A run that succeeded names a version that stands.                       *)
SuccessStands ==
    \A r \in Runs : imports[r].status = "SUCCEEDED" =>
        \E v \in versions : v.id = imports[r].version

(* A run that failed names none.                                           *)
FailureNamesNone == \A r \in Runs : imports[r].status # "SUCCEEDED" => imports[r].version = NoVersion

(* A version stands as the first run that names it published it.           *)
FirstPublishes ==
    \A v \in versions :
        /\ v = Published(v.id, v.by)
        /\ v.id # NoVersion
        /\ v.by \in Runs /\ imports[v.by].version = v.id
        /\ \A r \in Runs : imports[r].version = v.id => v.by <= r

(* What a workspace was shown stands.                                      *)
ShownStands == \A i \in DOMAIN views : views[i].content \in versions

IInv ==
    /\ TypeInv /\ SuccessStands /\ FailureNamesNone /\ FirstPublishes /\ ShownStands
    /\ \E S : views \in Seq(S)

LEMMA VersionsAreNamed == \A d, source : VersionOf(d, source) # NoVersion
<1> SUFFICES ASSUME NEW d, NEW source, VersionOf(d, source) = NoVersion PROVE FALSE
  OBVIOUS
<1>1. "source" \in DOMAIN VersionOf(d, source) /\ "source" \notin DOMAIN NoVersion
  BY DEF VersionOf, NoVersion
<1> QED BY <1>1

LEMMA PublishedNames ==
    ASSUME NEW id, NEW by
    PROVE  Published(id, by).id = id /\ Published(id, by).by = by
BY DEF Published

(* An import whose answer names no version changes no version.             *)
LEMMA FailedStep ==
    ASSUME IInv, NEW k \in Keys, NEW d \in DOMAIN bundled,
           imports' = Append(imports, Answer(k, d, "FAILED", NoVersion)),
           UNCHANGED <<bundled, versions, views>>
    PROVE  IInv'
<1> DEFINE a == Answer(k, d, "FAILED", NoVersion)
           n == Len(imports)
<1>1. /\ imports \in Seq(Answers) /\ n \in Nat /\ a \in Answers
      /\ a.status = "FAILED" /\ a.version = NoVersion
  BY DEF IInv, TypeInv, Answer, Answers, Outcome, Named
<1> HIDE DEF a
<1>2. /\ imports' \in Seq(Answers) /\ Len(imports') = n + 1 /\ imports'[n + 1] = a
      /\ \A r \in 1..n : imports'[r] = imports[r]
  BY <1>1 DEF a
<1>3. Answers' = Answers
  BY DEF Answers, Named
<1>4. Runs' = 1..(n + 1) /\ Runs = 1..n /\ \A r \in Runs' : r = n + 1 \/ r \in Runs
  BY <1>1, <1>2 DEF Runs
<1>5. TypeInv'
  BY <1>2, <1>3 DEF TypeInv
<1>6. SuccessStands'
  BY <1>1, <1>2, <1>4 DEF IInv, SuccessStands
<1>7. FailureNamesNone'
  BY <1>1, <1>2, <1>4 DEF IInv, FailureNamesNone
<1>8. FirstPublishes'
  <2> SUFFICES ASSUME NEW v \in versions
               PROVE  /\ v = Published(v.id, v.by) /\ v.id # NoVersion
                      /\ v.by \in Runs' /\ imports'[v.by].version = v.id
                      /\ \A r \in Runs' : imports'[r].version = v.id => v.by <= r
    BY DEF FirstPublishes
  <2>1. /\ v = Published(v.id, v.by) /\ v.id # NoVersion
        /\ v.by \in Runs /\ imports[v.by].version = v.id
        /\ \A r \in Runs : imports[r].version = v.id => v.by <= r
    BY DEF IInv, FirstPublishes
  <2> QED BY <2>1, <1>1, <1>2, <1>4
<1>9. ShownStands'
  BY DEF IInv, ShownStands
<1> QED BY <1>5, <1>6, <1>7, <1>8, <1>9 DEF IInv

(* A successful import publishes its version, or finds it published.       *)
LEMMA PublishStep ==
    ASSUME IInv, NEW k \in Keys, NEW d \in DOMAIN bundled, PublishImport(k, d)
    PROVE  IInv'
<1> DEFINE id == VersionOf(d, bundled[d])
           n == Len(imports)
           a == Answer(k, d, "SUCCEEDED", id)
<1>1. /\ imports \in Seq(Answers) /\ n \in Nat /\ a \in Answers
      /\ a.status = "SUCCEEDED" /\ a.version = id
      /\ imports' = Append(imports, a) /\ versions' = Store(id, n + 1)
      /\ UNCHANGED <<bundled, views>>
  BY DEF IInv, TypeInv, Answer, Answers, Outcome, Named, PublishImport
<1>0. id # NoVersion
  BY VersionsAreNamed
<1> HIDE DEF a, id
<1>2. /\ imports' \in Seq(Answers) /\ Len(imports') = n + 1 /\ imports'[n + 1] = a
      /\ \A r \in 1..n : imports'[r] = imports[r]
  BY <1>1
<1>3. Answers' = Answers
  BY <1>1 DEF Answers, Named
<1>4. Runs' = 1..(n + 1) /\ Runs = 1..n /\ \A r \in Runs' : r = n + 1 \/ r \in Runs
  BY <1>1, <1>2 DEF Runs
<1>5. TypeInv'
  BY <1>2, <1>3 DEF TypeInv
<1>6. versions \subseteq versions' /\ \E v \in versions' : v.id = id
  BY <1>1, PublishedNames DEF Store
<1>7. SuccessStands'
  BY <1>1, <1>2, <1>4, <1>6 DEF IInv, SuccessStands
<1>8. FailureNamesNone'
  BY <1>1, <1>2, <1>4 DEF IInv, FailureNamesNone
<1>9. FirstPublishes'
  <2> SUFFICES ASSUME NEW v \in versions'
               PROVE  /\ v = Published(v.id, v.by) /\ v.id # NoVersion
                      /\ v.by \in Runs' /\ imports'[v.by].version = v.id
                      /\ \A r \in Runs' : imports'[r].version = v.id => v.by <= r
    BY DEF FirstPublishes
  <2>1. CASE v \in versions
    <3>1. /\ v = Published(v.id, v.by) /\ v.id # NoVersion
          /\ v.by \in Runs /\ imports[v.by].version = v.id
          /\ \A r \in Runs : imports[r].version = v.id => v.by <= r
      BY <2>1 DEF IInv, FirstPublishes
    <3> QED BY <3>1, <1>1, <1>2, <1>4
  <2>2. CASE v \notin versions
    <3>1. v = Published(id, n + 1) /\ \A u \in versions : u.id # id
      BY <2>2, <1>1 DEF Store
    <3>2. v.id = id /\ v.by = n + 1
      BY <3>1, PublishedNames
    <3>3. ASSUME NEW r \in Runs PROVE imports[r].version # id
      <4>1. imports[r].status = "SUCCEEDED" => imports[r].version # id
        BY <3>1 DEF IInv, SuccessStands
      <4>2. imports[r].status # "SUCCEEDED" => imports[r].version # id
        BY <1>0 DEF IInv, FailureNamesNone
      <4> QED BY <4>1, <4>2
    <3>4. \A r \in Runs' : imports'[r].version = id => n + 1 <= r
      BY <3>3, <1>1, <1>2, <1>4
    <3> QED BY <3>1, <3>2, <3>4, <1>0, <1>1, <1>2, <1>4
  <2> QED BY <2>1, <2>2
<1>10. ShownStands'
  BY <1>1, <1>6 DEF IInv, ShownStands
<1> QED BY <1>1, <1>5, <1>7, <1>8, <1>9, <1>10 DEF IInv

LEMMA ViewStep ==
    ASSUME IInv, NEW w \in Workspaces, NEW v \in versions, NEW r \in Runs, ViewLineage(w, v, r)
    PROVE  IInv'
<1> DEFINE view == [workspace |-> w, version |-> v.id, run |-> r, content |-> v]
<1>1. views' = Append(views, view) /\ UNCHANGED <<bundled, imports, versions>>
  BY DEF ViewLineage
<1>2. PICK S : views \in Seq(S)
  BY DEF IInv
<1>3. views \in Seq(S \cup {view}) /\ Len(views) \in Nat
  BY <1>2
<1>4. views' \in Seq(S \cup {view})
  BY <1>1, <1>3
<1>5. ShownStands'
  <2>1. \A i \in DOMAIN views' : i = Len(views) + 1 \/ i \in DOMAIN views
    BY <1>1, <1>3
  <2>2. views'[Len(views) + 1] = view /\ \A i \in DOMAIN views : views'[i] = views[i]
    BY <1>1, <1>3
  <2>3. view.content = v
    OBVIOUS
  <2> HIDE DEF view
  <2> QED BY <1>1, <2>1, <2>2, <2>3 DEF IInv, ShownStands
<1>6. TypeInv' /\ SuccessStands' /\ FailureNamesNone' /\ FirstPublishes'
  BY <1>1 DEF IInv, TypeInv, SuccessStands, FailureNamesNone, FirstPublishes, Runs, Answers, Named
<1> QED BY <1>4, <1>5, <1>6 DEF IInv

(* The first run that succeeds with a version publishes it, and what a     *)
(* workspace is shown is what was published.                               *)
THEOREM IntakeInvariant == Spec => []IInv
<1>1. Init => IInv
  <2> SUFFICES ASSUME Init PROVE IInv
    OBVIOUS
  <2>1. imports = <<>> /\ versions = {} /\ views = <<>>
    BY DEF Init
  <2>2. imports \in Seq(Answers) /\ views \in Seq({})
    BY <2>1
  <2> QED BY <2>1, <2>2 DEF IInv, TypeInv, SuccessStands, FailureNamesNone, FirstPublishes,
                            ShownStands, Runs
<1>2. IInv /\ [Next]_vars => IInv'
  <2> SUFFICES ASSUME IInv, [Next]_vars PROVE IInv'
    OBVIOUS
  <2>1. ASSUME NEW k \in Keys, NEW d \in DOMAIN bundled,
               FailImport(k, d) \/ RejectImport(k, d) \/ PublishImport(k, d)
        PROVE  IInv'
    <3>1. CASE FailImport(k, d)
      BY <3>1, FailedStep DEF FailImport
    <3>2. CASE RejectImport(k, d)
      BY <3>2, FailedStep DEF RejectImport
    <3>3. CASE PublishImport(k, d)
      BY <3>3, PublishStep
    <3> QED BY <2>1, <3>1, <3>2, <3>3
  <2>2. ASSUME NEW w \in Workspaces, NEW v \in versions, NEW r \in Runs, ViewLineage(w, v, r)
        PROVE  IInv'
    BY <2>2, ViewStep
  <2>3. CASE UNCHANGED vars
    BY <2>3 DEF vars, IInv, TypeInv, SuccessStands, FailureNamesNone, FirstPublishes,
                ShownStands, Runs, Answers, Named
  <2> QED BY <2>1, <2>2, <2>3 DEF Next
<1> QED BY <1>1, <1>2, PTL DEF Spec

(* A version is published once: it keeps the run that published it, the    *)
(* first that succeeded with it, and what a workspace was shown of it is   *)
(* what stands (ingestion.py:2529-2598, 2711-2909).                        *)
THEOREM FirstPublicationStands == Spec => []PublicationIsFirst
<1>1. IInv => PublicationIsFirst
  <2> SUFFICES ASSUME IInv PROVE PublicationIsFirst
    OBVIOUS
  <2>1. ASSUME NEW r \in Runs, imports[r].status = "SUCCEEDED"
        PROVE  \E v \in versions :
                  /\ v.id = imports[r].version
                  /\ v.by = Min({q \in Runs : imports[q].version = v.id})
    <3>1. PICK v \in versions : v.id = imports[r].version
      BY <2>1 DEF IInv, SuccessStands
    <3>2. /\ v.by \in Runs /\ imports[v.by].version = v.id
          /\ \A q \in Runs : imports[q].version = v.id => v.by <= q
      BY DEF IInv, FirstPublishes
    <3> DEFINE Q == {q \in Runs : imports[q].version = v.id}
    <3>3. v.by \in Q /\ \A q \in Q : v.by <= q
      BY <3>2
    <3>4. Q \subseteq Nat
      BY DEF IInv, TypeInv, Runs
    <3>5. Min(Q) = v.by
      <4> HIDE DEF Q
      <4>1. ASSUME NEW x \in Q, \A q \in Q : x <= q PROVE x = v.by
        <5>1. x \in Nat /\ v.by \in Nat
          BY <3>3, <3>4
        <5>2. x <= v.by /\ v.by <= x
          BY <3>3, <4>1
        <5> QED BY <5>1, <5>2
      <4> QED BY <3>3, <4>1 DEF Min
    <3> QED BY <3>1, <3>5
  <2> QED BY <2>1 DEF PublicationIsFirst, IInv, ShownStands
<1> QED BY <1>1, IntakeInvariant, PTL
=============================================================================
