------------------------ MODULE CurrentAdvice_proofs ------------------------
(***************************************************************************)
(* Proofs about CurrentAdvice.  The state is a log that only grows, so the *)
(* argument is about rows: RowAllowed says which row may follow which log, *)
(* every action appends allowed rows (at most three), and an allowed row   *)
(* keeps the invariant LogInv of the log.                                  *)
(*                                                                         *)
(* The first part is about HistoricalReplay: what is read up to a cutoff   *)
(* does not depend on what is appended after it.                           *)
(***************************************************************************)
EXTENDS CurrentAdvice, SequenceTheorems, FiniteSetTheorems,
        NaturalsInduction, WellFoundedInduction, TLAPS

-----------------------------------------------------------------------------
(* Reading a log that only grows.                                          *)

\* A set of naturals that is not empty has a least member.
LEMMA LeastMember ==
    ASSUME NEW S \in SUBSET Nat, S # {}
    PROVE  \E x \in S : \A y \in S : x <= y
<1> DEFINE R == OpToRel(<, Nat)
<1>1. IsWellFoundedOn(R, Nat)
  BY NatLessThanWellFounded
<1>2. \E x \in S : \A y \in S : <<y, x>> \notin R
  BY <1>1, WFMin
<1>3. PICK x \in S : \A y \in S : <<y, x>> \notin R
  BY <1>2
<1>4. \A y \in S : y < x => <<y, x>> \in R
  BY DEF OpToRel
<1>5. ASSUME NEW y \in S PROVE x <= y
  <2>1. ~ (y < x)
    BY <1>3, <1>4
  <2>2. x \in Nat /\ y \in Nat
    OBVIOUS
  <2> HIDE DEF R
  <2> QED BY <2>1, <2>2
<1> QED BY <1>5

\* A bounded set of naturals that is not empty has a greatest member, which
\* Max names.
LEMMA MaxOfBounded ==
    ASSUME NEW S \in SUBSET Nat, S # {}, NEW n \in Nat, \A x \in S : x <= n
    PROVE  Max(S) \in S /\ \A y \in S : y <= Max(S)
<1> DEFINE T == {n - x : x \in S}
<1>1. T \in SUBSET Nat /\ T # {}
  <2>1. \A x \in S : n - x \in Nat
    OBVIOUS
  <2>2. \E x \in S : n - x \in T
    OBVIOUS
  <2> QED BY <2>1, <2>2
<1>2. PICK t \in T : \A u \in T : t <= u
  BY <1>1, LeastMember
<1>3. PICK x \in S : t = n - x
  BY <1>2
<1>4. \A y \in S : x >= y
  <2> SUFFICES ASSUME NEW y \in S PROVE x >= y
    OBVIOUS
  <2>1. n - y \in T
    OBVIOUS
  <2>2. n - x <= n - y
    BY <1>2, <1>3, <2>1
  <2> QED BY <2>2
<1>5. \E m \in S : \A y \in S : m >= y
  BY <1>4
<1>6. Max(S) \in S /\ \A y \in S : Max(S) >= y
  BY <1>5 DEF Max
<1> QED BY <1>6

LEMMA MaxIs ==
    ASSUME NEW S \in SUBSET Nat, NEW m \in S, \A y \in S : y <= m
    PROVE  Max(S) = m
<1>1. Max(S) \in S /\ \A y \in S : y <= Max(S)
  BY MaxOfBounded
<1>2. Max(S) <= m /\ m <= Max(S) /\ Max(S) \in Nat /\ m \in Nat
  BY <1>1
<1> QED BY <1>2

\* A set of positions up to n has a newest one; 0 stands for none.
LEMMA NewestOfSet ==
    ASSUME NEW n \in Nat, NEW P \in SUBSET (1 .. n)
    PROVE  /\ Max({0} \cup P) \in 0 .. n
           /\ Max({0} \cup P) = 0 <=> P = {}
           /\ P # {} => Max({0} \cup P) \in P
           /\ \A i \in P : i <= Max({0} \cup P)
<1>1. {0} \cup P \in SUBSET Nat /\ \A x \in {0} \cup P : x <= n
  OBVIOUS
<1>2. Max({0} \cup P) \in {0} \cup P /\ \A x \in {0} \cup P : x <= Max({0} \cup P)
  BY <1>1, MaxOfBounded
<1>3. CASE P = {}
  <2>1. {0} \cup P = {0}
    BY <1>3
  <2>2. Max({0} \cup P) = 0
    BY <1>2, <2>1
  <2> QED BY <1>3, <2>2
<1>4. CASE P # {}
  <2>1. PICK p \in P : TRUE
    BY <1>4
  <2>2. p \in Nat /\ 1 <= p /\ p <= Max({0} \cup P)
    BY <1>2, <2>1
  <2>3. Max({0} \cup P) # 0
    BY <1>2, <2>2
  <2>4. Max({0} \cup P) \in P
    BY <1>2, <2>3
  <2>5. \A i \in P : i <= Max({0} \cup P)
    BY <1>2
  <2>6. Max({0} \cup P) \in 0 .. n
    <3>1. Max({0} \cup P) \in 1 .. n
      BY <2>4
    <3> QED BY <3>1
  <2> QED BY <1>4, <2>3, <2>4, <2>5, <2>6
<1> QED BY <1>3, <1>4

-----------------------------------------------------------------------------
(* A log m that continues the log l.                                       *)

Continues(m, l) == \A i \in DOMAIN l : i \in DOMAIN m /\ m[i] = l[i]

LEMMA AppendContinues ==
    ASSUME NEW S, NEW l \in Seq(S), NEW r \in S
    PROVE  /\ Append(l, r) \in Seq(S) /\ Len(Append(l, r)) = Len(l) + 1
           /\ Append(l, r)[Len(l) + 1] = r
           /\ \A i \in 1 .. Len(l) : Append(l, r)[i] = l[i]
           /\ DOMAIN l = 1 .. Len(l) /\ DOMAIN Append(l, r) = 1 .. (Len(l) + 1)
           /\ Len(l) \in Nat
           /\ Continues(Append(l, r), l)
<1>1. /\ Append(l, r) \in Seq(S) /\ Len(Append(l, r)) = Len(l) + 1
      /\ Append(l, r)[Len(l) + 1] = r
      /\ \A i \in 1 .. Len(l) : Append(l, r)[i] = l[i]
  BY AppendProperties
<1>2. DOMAIN l = 1 .. Len(l) /\ DOMAIN Append(l, r) = 1 .. (Len(l) + 1) /\ Len(l) \in Nat
  BY <1>1, LenProperties
<1> QED BY <1>1, <1>2 DEF Continues

\* What is read up to a cutoff is read the same in every continuation.
LEMMA PositionsKept ==
    ASSUME NEW S, NEW l \in Seq(S), NEW m \in Seq(S), Continues(m, l),
           NEW c \in Nat, c <= Len(l), NEW kinds
    PROVE  Positions(m, kinds, c) = Positions(l, kinds, c)
<1>1. DOMAIN l = 1 .. Len(l) /\ Len(l) \in Nat /\ DOMAIN m = 1 .. Len(m) /\ Len(m) \in Nat
  BY LenProperties
<1>2. \A i \in DOMAIN m : i <= c => i \in DOMAIN l
  BY <1>1
<1> QED BY <1>2 DEF Positions, Continues

LEMMA PositionsBounded ==
    ASSUME NEW S, NEW l \in Seq(S), NEW c \in Nat, NEW kinds
    PROVE  /\ Positions(l, kinds, c) \in SUBSET (1 .. c)
           /\ Positions(l, kinds, c) \in SUBSET (1 .. Len(l))
           /\ \A i \in Positions(l, kinds, c) : l[i] \in S /\ l[i].kind \in kinds
           /\ IsFiniteSet(Positions(l, kinds, c))
<1>1. DOMAIN l = 1 .. Len(l) /\ Len(l) \in Nat
  BY LenProperties
<1>2. Positions(l, kinds, c) \in SUBSET (1 .. c)
  BY <1>1 DEF Positions
<1>3. \A i \in Positions(l, kinds, c) : l[i] \in S
  BY <1>1, ElementOfSeq DEF Positions
<1>4. IsFiniteSet(Positions(l, kinds, c))
  BY <1>2, FS_Interval, FS_Subset
<1> QED BY <1>1, <1>2, <1>3, <1>4 DEF Positions

LEMMA VersionsKept ==
    ASSUME NEW S, NEW l \in Seq(S), NEW m \in Seq(S), Continues(m, l),
           NEW c \in Nat, c <= Len(l), NEW d
    PROVE  Versions(m, d, c) = Versions(l, d, c)
<1>1. Positions(m, {"DRAFT"}, c) = Positions(l, {"DRAFT"}, c)
  BY PositionsKept
<1>2. \A i \in Positions(l, {"DRAFT"}, c) : m[i] = l[i]
  BY DEF Positions, Continues
<1> QED BY <1>1, <1>2 DEF Versions

LEMMA HeadKept ==
    ASSUME NEW S, NEW l \in Seq(S), NEW m \in Seq(S), Continues(m, l),
           NEW c \in Nat, c <= Len(l)
    PROVE  HeadAt(m, c) = HeadAt(l, c)
<1>1. Positions(m, HeadKinds, c) = Positions(l, HeadKinds, c)
  BY PositionsKept
<1> QED BY <1>1 DEF HeadAt, Newest

LEMMA HeadBounded ==
    ASSUME NEW S, NEW l \in Seq(S), NEW c \in Nat
    PROVE  /\ HeadAt(l, c) \in 0 .. c
           /\ HeadAt(l, c) # 0 => HeadAt(l, c) \in Positions(l, HeadKinds, c)
           /\ \A i \in Positions(l, HeadKinds, c) : i <= HeadAt(l, c)
BY PositionsBounded, NewestOfSet DEF HeadAt, Newest

\* The rows of a kind, and the head, once a row r is appended.
LEMMA AppendedPositions ==
    ASSUME NEW S, NEW l \in Seq(S), NEW r \in S, NEW kinds
    PROVE  Positions(Append(l, r), kinds, Len(l) + 1) =
              Positions(l, kinds, Len(l)) \cup (IF r.kind \in kinds THEN {Len(l) + 1} ELSE {})
<1> DEFINE m == Append(l, r)
<1> DEFINE n == Len(l)
<1>1. /\ DOMAIN l = 1 .. n /\ n \in Nat /\ DOMAIN m = 1 .. (n + 1)
      /\ m[n + 1] = r /\ \A i \in 1 .. n : m[i] = l[i]
  BY AppendContinues
<1> HIDE DEF m, n
<1>2. \A i \in 1 .. (n + 1) : i = n + 1 \/ (i \in 1 .. n /\ i # n + 1)
  BY <1>1
<1>3. Positions(m, kinds, n + 1) = {i \in 1 .. (n + 1) : m[i].kind \in kinds}
  BY <1>1 DEF Positions
<1>4. Positions(l, kinds, n) = {i \in 1 .. n : l[i].kind \in kinds}
  BY <1>1 DEF Positions
<1>5. Positions(m, kinds, n + 1) =
         Positions(l, kinds, n) \cup (IF r.kind \in kinds THEN {n + 1} ELSE {})
  BY <1>1, <1>2, <1>3, <1>4
<1> QED BY <1>5 DEF m, n

LEMMA AppendedHead ==
    ASSUME NEW S, NEW l \in Seq(S), NEW r \in S
    PROVE  /\ Head0(Append(l, r)) = IF r.kind \in HeadKinds THEN Len(l) + 1 ELSE Head0(l)
           /\ \A c \in 0 .. Len(l) : HeadAt(Append(l, r), c) = HeadAt(l, c)
<1> DEFINE n == Len(l)
<1>1. n \in Nat /\ Len(Append(l, r)) = n + 1 /\ Append(l, r) \in Seq(S) /\ Continues(Append(l, r), l)
  BY AppendContinues
<1>2. Positions(Append(l, r), HeadKinds, n + 1) =
         Positions(l, HeadKinds, n) \cup (IF r.kind \in HeadKinds THEN {n + 1} ELSE {})
  BY AppendedPositions
<1>5. ASSUME NEW c \in 0 .. n PROVE HeadAt(Append(l, r), c) = HeadAt(l, c)
  <2>1. c \in Nat /\ c <= Len(l)
    BY <1>1
  <2> QED BY <1>1, <2>1, HeadKept
<1>3. CASE r.kind \in HeadKinds
  <2> DEFINE Q == {0} \cup (Positions(l, HeadKinds, n) \cup {n + 1})
  <2>1. Positions(l, HeadKinds, n) \in SUBSET (1 .. n)
    BY <1>1, PositionsBounded
  <2>2. Q \in SUBSET Nat /\ n + 1 \in Q /\ \A y \in Q : y <= n + 1
    BY <1>1, <2>1
  <2>3. Max(Q) = n + 1
    BY <2>2, MaxIs
  <2>4. Head0(Append(l, r)) = Max(Q)
    BY <1>1, <1>2, <1>3 DEF Head0, HeadAt, Newest
  <2> QED BY <1>3, <1>5, <2>3, <2>4
<1>4. CASE r.kind \notin HeadKinds
  <2>1. Positions(Append(l, r), HeadKinds, n + 1) = Positions(l, HeadKinds, n)
    BY <1>2, <1>4
  <2>2. Head0(Append(l, r)) = Head0(l)
    BY <1>1, <2>1 DEF Head0, HeadAt, Newest
  <2> QED BY <1>4, <1>5, <2>2
<1> QED BY <1>3, <1>4

LEMMA AppendedVersions ==
    ASSUME NEW S, NEW l \in Seq(S), NEW r \in S, NEW d
    PROVE  Versions(Append(l, r), d, Len(l) + 1) =
              Versions(l, d, Len(l)) \cup
                 (IF r.kind = "DRAFT" /\ r.draft = d THEN {Len(l) + 1} ELSE {})
<1> DEFINE n == Len(l)
<1>1. /\ n \in Nat /\ Append(l, r)[n + 1] = r /\ \A i \in 1 .. n : Append(l, r)[i] = l[i]
  BY AppendContinues
<1>2. Positions(Append(l, r), {"DRAFT"}, n + 1) =
         Positions(l, {"DRAFT"}, n) \cup (IF r.kind \in {"DRAFT"} THEN {n + 1} ELSE {})
  BY AppendedPositions
<1>3. Positions(l, {"DRAFT"}, n) \in SUBSET (1 .. n)
  BY <1>1, PositionsBounded
<1> QED BY <1>1, <1>2, <1>3 DEF Versions

-----------------------------------------------------------------------------
(* The replay.                                                             *)

LEMMA NewestKept ==
    ASSUME NEW S, NEW l \in Seq(S), NEW m \in Seq(S), Continues(m, l),
           NEW c \in Nat, c <= Len(l), NEW kinds
    PROVE  Newest(m, kinds, c) = Newest(l, kinds, c)
<1>1. Positions(m, kinds, c) = Positions(l, kinds, c)
  BY PositionsKept
<1> QED BY <1>1 DEF Newest

\* Rows selected among those up to a cutoff by what the row says.
LEMMA RowKept ==
    ASSUME NEW l, NEW m, Continues(m, l), NEW kinds, NEW c
    PROVE  \A i \in Positions(l, kinds, c) : m[i] = l[i]
BY DEF Positions, Continues

LEMMA ClaimKept ==
    ASSUME NEW S, NEW l \in Seq(S), NEW m \in Seq(S), Continues(m, l),
           NEW c \in Nat, c <= Len(l), NEW e
    PROVE  ClaimOf(m, e, c) = ClaimOf(l, e, c)
<1>1. Positions(m, {"SELECTION_CLAIM"}, c) = Positions(l, {"SELECTION_CLAIM"}, c)
  BY PositionsKept
<1>2. \A i \in Positions(l, {"SELECTION_CLAIM"}, c) : m[i] = l[i]
  BY RowKept
<1>3. {i \in Positions(m, {"SELECTION_CLAIM"}, c) : m[i].evaluation = e} =
         {i \in Positions(l, {"SELECTION_CLAIM"}, c) : l[i].evaluation = e}
  BY <1>1, <1>2
<1> QED BY <1>3 DEF ClaimOf

LEMMA DecisionsKept ==
    ASSUME NEW S, NEW l \in Seq(S), NEW m \in Seq(S), Continues(m, l),
           NEW c \in Nat, c <= Len(l)
    PROVE  /\ RelatedDecisions(m, c) = RelatedDecisions(l, c)
           /\ ShownDecision(m, c) = ShownDecision(l, c)
           /\ ShownDecision(l, c) # 0 => /\ ShownDecision(l, c) \in DOMAIN l
                                         /\ m[ShownDecision(l, c)] = l[ShownDecision(l, c)]
<1>1. ShownEvaluation(m, c) = ShownEvaluation(l, c)
  BY NewestKept DEF ShownEvaluation
<1>2. Positions(m, {"DECISION_SNAPSHOT"}, c) = Positions(l, {"DECISION_SNAPSHOT"}, c)
  BY PositionsKept
<1>3. \A i \in Positions(l, {"DECISION_SNAPSHOT"}, c) : m[i] = l[i]
  BY RowKept
<1>4. RelatedDecisions(m, c) = RelatedDecisions(l, c)
  BY <1>1, <1>2, <1>3 DEF RelatedDecisions
<1>5. RelatedDecisions(l, c) \in SUBSET (1 .. c)
  BY PositionsBounded DEF RelatedDecisions
<1>6. ShownDecision(l, c) # 0 => ShownDecision(l, c) \in RelatedDecisions(l, c)
  BY <1>5, NewestOfSet DEF ShownDecision
<1>7. RelatedDecisions(l, c) \subseteq DOMAIN l
  BY DEF RelatedDecisions, Positions
<1> QED BY <1>4, <1>6, <1>7 DEF ShownDecision, Continues

LEMMA ShownVersionsKept ==
    ASSUME NEW S, NEW l \in Seq(S), NEW m \in Seq(S), Continues(m, l),
           NEW c \in Nat, c <= Len(l)
    PROVE  /\ ShownVersions(m, c) = ShownVersions(l, c)
           /\ ShownHistory(m, c) = ShownHistory(l, c)
           /\ DraftsAgree(m, c) = DraftsAgree(l, c)
<1> DEFINE vs == ShownVersions(l, c)
<1> DEFINE d == ShownDecision(l, c)
<1>1. ShownEvaluation(m, c) = ShownEvaluation(l, c)
  BY NewestKept DEF ShownEvaluation
<1>2. ShownDecision(m, c) = d /\ (d # 0 => m[d] = l[d])
  BY DecisionsKept
<1>3. Positions(m, {"DRAFT"}, c) = Positions(l, {"DRAFT"}, c)
  BY PositionsKept
<1>4. \A i \in Positions(l, {"DRAFT"}, c) : m[i] = l[i]
  BY RowKept
<1>5. ShownVersions(m, c) = vs
  BY <1>1, <1>2, <1>3, <1>4 DEF ShownVersions
<1>6. vs \in SUBSET Positions(l, {"DRAFT"}, c)
  BY DEF ShownVersions
<1>7. vs # {} => m[Max(vs)] = l[Max(vs)]
  <2>1. Positions(l, {"DRAFT"}, c) \in SUBSET (1 .. c)
    BY PositionsBounded
  <2>2. vs \in SUBSET Nat /\ \A x \in vs : x <= c
    BY <1>6, <2>1
  <2>3. vs # {} => Max(vs) \in vs
    BY <2>2, MaxOfBounded
  <2> QED BY <1>4, <1>6, <2>3
<1>8. ShownHistory(m, c) = ShownHistory(l, c)
  <2>1. Versions(m, l[Max(vs)].draft, c) = Versions(l, l[Max(vs)].draft, c)
    BY VersionsKept
  <2> QED BY <1>5, <1>7, <2>1 DEF ShownHistory
<1>9. \A i \in vs : m[i] = l[i]
  BY <1>4, <1>6
<1> HIDE DEF vs, d
<1>10. DraftsAgree(m, c) = DraftsAgree(l, c)
  <2>1. DraftsAgree(l, c) =
          (vs # {} => /\ \A i \in vs : l[i].evaluation = ShownEvaluation(l, c)
                      /\ d # 0 => /\ l[d].history = ShownHistory(l, c)
                                  /\ l[d].evaluation = ShownEvaluation(l, c))
    BY DEF DraftsAgree, vs, d
  <2>2. DraftsAgree(m, c) =
          (vs # {} => /\ \A i \in vs : m[i].evaluation = ShownEvaluation(l, c)
                      /\ d # 0 => /\ m[d].history = ShownHistory(l, c)
                                  /\ m[d].evaluation = ShownEvaluation(l, c))
    BY <1>1, <1>2, <1>5, <1>8 DEF DraftsAgree
  <2> QED BY <1>2, <1>9, <2>1, <2>2
<1> QED BY <1>5, <1>8, <1>10 DEF vs

\* An evaluation never names a predecessor that comes after it.
LooksBack(l) ==
    \A e \in Positions(l, {"EVALUATION"}, Len(l)) : l[e].predecessor \in 0 .. (e - 1)

\* What the replay of a log shows at a cutoff (project_historical_replay) is
\* what the replay of every continuation of that log shows at it.
THEOREM ReplayKept ==
    ASSUME NEW S, NEW l \in Seq(S), NEW m \in Seq(S), Continues(m, l), LooksBack(l),
           NEW c \in Nat, c <= Len(l)
    PROVE  Replay(m, c) = Replay(l, c)
<1>1. /\ Newest(m, {"BRIEF"}, c) = Newest(l, {"BRIEF"}, c)
      /\ ShownEvaluation(m, c) = ShownEvaluation(l, c)
  BY NewestKept DEF ShownEvaluation
<1>2. PredecessorsAreEvaluations(m, c) = PredecessorsAreEvaluations(l, c)
  <2>1. Positions(m, {"EVALUATION"}, c) = Positions(l, {"EVALUATION"}, c)
    BY PositionsKept
  <2>2. ASSUME NEW e \in Positions(l, {"EVALUATION"}, c)
        PROVE  m[e] = l[e] /\ (l[e].predecessor # 0 => m[l[e].predecessor] = l[l[e].predecessor])
    <3>1. DOMAIN l = 1 .. Len(l) /\ Len(l) \in Nat
      BY LenProperties
    <3>2. e \in Positions(l, {"EVALUATION"}, Len(l))
      BY <3>1 DEF Positions
    <3>3. e \in 1 .. Len(l)
      BY <3>1 DEF Positions
    <3>4. l[e].predecessor \in 0 .. (e - 1)
      BY <3>2 DEF LooksBack
    <3>5. l[e].predecessor # 0 => l[e].predecessor \in DOMAIN l
      BY <3>1, <3>3, <3>4
    <3> QED BY <3>1, <3>3, <3>5 DEF Continues
  <2> QED BY <2>1, <2>2 DEF PredecessorsAreEvaluations
<1>3. DecisionsAreComplete(m, c) = DecisionsAreComplete(l, c)
  BY DecisionsKept DEF DecisionsAreComplete
<1>4. ShownSelection(m, c) = ShownSelection(l, c)
  BY <1>1, ClaimKept DEF ShownSelection
<1>5. ShownDecision(m, c) = ShownDecision(l, c)
  BY DecisionsKept
<1>6. ShownHistory(m, c) = ShownHistory(l, c) /\ DraftsAgree(m, c) = DraftsAgree(l, c)
  BY ShownVersionsKept
<1> QED BY <1>1, <1>2, <1>3, <1>4, <1>5, <1>6 DEF Replay

-----------------------------------------------------------------------------
(* Rows.                                                                   *)

Of(l, kinds) == Positions(l, kinds, Len(l))

LateIn(x, e) == \E late \in x : late[1] = e

Accepting == {"ACCEPTED", "ACCEPTED_IDEMPOTENT"}

(* The last row is no check whose claim is still to come.                  *)
Settled(l) ==
    Len(l) # 0 => ~ (l[Len(l)].kind = "CHECK" /\ l[Len(l)].result.code = "ACCEPTED")

ClaimsFor(l, e) == {j \in Of(l, {"SELECTION_CLAIM"}) : l[j].evaluation = e}

(* Rows may be appended in one part or in two.                              *)
LEMMA AppendedTwice ==
    ASSUME NEW R, NEW l \in Seq(R)
    PROVE  \A x, y \in Seq(R) : l \o (x \o y) = (l \o x) \o y
<1> SUFFICES ASSUME NEW x \in Seq(R), NEW y \in Seq(R)
             PROVE  l \o (x \o y) = (l \o x) \o y
  OBVIOUS
<1> QED BY ConcatAssociative

-----------------------------------------------------------------------------
(* What may follow a log l when the horizons x have passed.                *)

HeadAllowed(l, r) == r.kind \in HeadKinds => r.predecessor = Head0(l)

CheckAllowed(l, r) ==
    r.kind = "CHECK" =>
        /\ r.outcome = "PROVEN" => Head0(l) = r.operation.evaluation
        /\ r.operation.use = "AUTHORIZE" => r.operation.subject[2] = Len(l)
        /\ \A j \in Of(l, {"CHECK"}) : l[j].operation # r.operation
        /\ r.result.code = "ACCEPTED" => ClaimsFor(l, r.operation.evaluation) = {}
        /\ r.result.code = "ACCEPTED_IDEMPOTENT" =>
              \E j \in ClaimsFor(l, r.operation.evaluation) :
                  l[j].candidate = r.result.candidate

(* A claim is written right after the check that accepts its selection.    *)
ClaimAllowed(l, x, r) ==
    /\ ~ Settled(l) => r.kind = "SELECTION_CLAIM"
    /\ r.kind = "SELECTION_CLAIM" =>
        /\ ~ Settled(l)
        /\ r.evaluation = l[Len(l)].operation.evaluation
        /\ r.candidate = l[Len(l)].result.candidate
        /\ ClaimsFor(l, r.evaluation) = {}
        /\ Head0(l) = r.evaluation
        /\ ~ LateIn(x, r.evaluation)

MatchAllowed(l, r) ==
    r.kind = "MATCH" =>
        /\ Head0(l) = r.evaluation
        /\ \E o \in Observations : Matchable(o) /\ o.ref = r.observation

DraftAllowed(l, r) ==
    r.kind = "DRAFT" =>
        /\ \A j \in Of(l, {"DRAFT"}) : l[j].key # r.key
        /\ r.predecessor = DraftHead(l, r.draft)
        /\ r.version = Cardinality(Versions(l, r.draft, Len(l))) + 1
        /\ r.draft = r.key \/ \E j \in Of(l, {"DRAFT"}) : l[j].key = r.draft

SnapshotAllowed(l, x, r) ==
    r.kind = "DECISION_SNAPSHOT" =>
        /\ Versions(l, r.draft, Len(l)) # {}
        /\ r.head = DraftHead(l, r.draft)
        /\ r.actor = l[r.head].actor
        /\ r.disposition = "APPROVE_INTENT" =>
              Head0(l) = r.evaluation /\ ~ LateIn(x, r.evaluation)

RowAllowed(l, x, r) ==
    /\ r \in Rows
    /\ HeadAllowed(l, r) /\ CheckAllowed(l, r) /\ ClaimAllowed(l, x, r)
    /\ MatchAllowed(l, r) /\ DraftAllowed(l, r) /\ SnapshotAllowed(l, x, r)

-----------------------------------------------------------------------------
(* What holds of every log, in parts.                                      *)

HeadsOK(l) == \A i \in Of(l, HeadKinds) : l[i].predecessor = HeadAt(l, i - 1)

ChecksOK(l) ==
    \A i \in Of(l, {"CHECK"}) :
        /\ l[i].outcome = "PROVEN" => HeadAt(l, i - 1) = l[i].operation.evaluation
        /\ l[i].operation.use = "AUTHORIZE" => l[i].operation.subject[2] = i - 1
        /\ \A j \in Of(l, {"CHECK"}) : l[j].operation = l[i].operation => j = i

(* One claim of an evaluation, which every accepted selection of it names. *)
ClaimsOK(l) ==
    /\ \A i, j \in Of(l, {"SELECTION_CLAIM"}) : l[i].evaluation = l[j].evaluation => i = j
    /\ \A i \in Of(l, {"CHECK"}) :
        l[i].result.code \in Accepting =>
            \/ i = Len(l) /\ l[i].result.code = "ACCEPTED"
            \/ \E j \in ClaimsFor(l, l[i].operation.evaluation) :
                   l[j].candidate = l[i].result.candidate

DraftsOK(l) ==
    \A i \in Of(l, {"DRAFT"}) :
        /\ l[i].predecessor = Max({0} \cup Versions(l, l[i].draft, i - 1))
        /\ l[i].version = Cardinality(Versions(l, l[i].draft, i))
        /\ \A j \in Of(l, {"DRAFT"}) : l[j].key = l[i].key => j = i
        /\ \E j \in Of(l, {"DRAFT"}) : l[j].key = l[i].draft

ActedOK(l, x) ==
    /\ \A i \in Of(l, {"DECISION_SNAPSHOT"}) :
        /\ Versions(l, l[i].draft, i) # {}
        /\ l[i].head = Max(Versions(l, l[i].draft, i))
        /\ l[i].actor = l[l[i].head].actor
        /\ l[i].disposition = "APPROVE_INTENT" =>
              /\ HeadAt(l, i) = l[i].evaluation
              /\ \A late \in x : late[1] = l[i].evaluation => i <= late[2]
    /\ \A i \in Of(l, {"SELECTION_CLAIM"}) :
        /\ HeadAt(l, i) = l[i].evaluation
        /\ \A late \in x : late[1] = l[i].evaluation => i <= late[2]
    /\ \A i \in Of(l, {"MATCH"}) :
        /\ HeadAt(l, i) = l[i].evaluation
        /\ \E o \in Observations : Matchable(o) /\ o.ref = l[i].observation

(* A horizon that has passed is the one of an evaluation of the log.       *)
HorizonsOK(l, x) ==
    \A late \in x :
        /\ late[1] \in Of(l, {"EVALUATION"})
        /\ MinimumHorizon(l[late[1]].horizons) # NO_EXPIRY
        /\ late[2] <= Len(l)

LogInv(l, x) ==
    /\ HeadsOK(l) /\ ChecksOK(l) /\ ClaimsOK(l) /\ DraftsOK(l)
    /\ ActedOK(l, x) /\ HorizonsOK(l, x)

IInv == TypeOK /\ LogInv(log, expired) /\ Settled(log)

-----------------------------------------------------------------------------
(* An allowed row keeps the invariant of the log.                          *)

LEMMA RowForms ==
    ASSUME NEW r \in Rows
    PROVE  /\ r.kind \in HeadKinds => r.predecessor \in Nat
           /\ r.kind = "EVALUATION" => r.horizons \in SUBSET (Nat \cup {NO_EXPIRY})
           /\ r.kind = "CHECK" => /\ r.operation \in Operations
                                  /\ r.outcome \in Outcomes
                                  /\ r.result.code \in Codes
           /\ r.kind = "SELECTION_CLAIM" => r.evaluation \in Nat
           /\ r.kind = "MATCH" => r.evaluation \in Nat
           /\ r.kind = "DRAFT" => /\ r.key \in Keys /\ r.draft \in Keys
                                  /\ r.version \in Nat /\ r.predecessor \in Nat
                                  /\ r.evaluation \in Nat /\ r.claim \in Nat
                                  /\ r.actor \in Actors
                                  /\ r.disposition \in Dispositions
           /\ r.kind = "DECISION_SNAPSHOT" => r.evaluation \in Nat
BY DEF Rows, HeadKinds

LEMMA OfAppend ==
    ASSUME NEW l \in Seq(Rows), NEW r \in Rows, NEW kinds
    PROVE  /\ Of(Append(l, r), kinds) =
                 Of(l, kinds) \cup (IF r.kind \in kinds THEN {Len(l) + 1} ELSE {})
           /\ \A i \in Of(l, kinds) : /\ i \in 1 .. Len(l) /\ Append(l, r)[i] = l[i]
                                      /\ l[i] \in Rows /\ l[i].kind \in kinds
           /\ Append(l, r)[Len(l) + 1] = r
           /\ Len(l) \in Nat /\ Len(Append(l, r)) = Len(l) + 1
           /\ Append(l, r) \in Seq(Rows)
<1>1. /\ Append(l, r)[Len(l) + 1] = r
      /\ Len(l) \in Nat /\ Len(Append(l, r)) = Len(l) + 1
      /\ Append(l, r) \in Seq(Rows)
      /\ \A i \in 1 .. Len(l) : Append(l, r)[i] = l[i]
  BY AppendContinues
<1>2. Of(Append(l, r), kinds) =
         Of(l, kinds) \cup (IF r.kind \in kinds THEN {Len(l) + 1} ELSE {})
  BY <1>1, AppendedPositions DEF Of
<1>3. \A i \in Of(l, kinds) : i \in 1 .. Len(l) /\ l[i] \in Rows /\ l[i].kind \in kinds
  BY <1>1, PositionsBounded DEF Of
<1> QED BY <1>1, <1>2, <1>3

LEMMA KeepsHeads ==
    ASSUME NEW l \in Seq(Rows), NEW r \in Rows, HeadsOK(l), HeadAllowed(l, r)
    PROVE  HeadsOK(Append(l, r))
<1> DEFINE m == Append(l, r)
<1> SUFFICES ASSUME NEW i \in Of(m, HeadKinds) PROVE m[i].predecessor = HeadAt(m, i - 1)
  BY DEF HeadsOK
<1>1. /\ Of(m, HeadKinds) = Of(l, HeadKinds) \cup (IF r.kind \in HeadKinds THEN {Len(l) + 1} ELSE {})
      /\ m[Len(l) + 1] = r /\ Len(l) \in Nat
  BY OfAppend
<1>2. \A c \in 0 .. Len(l) : HeadAt(m, c) = HeadAt(l, c)
  BY AppendedHead
<1>3. CASE i \in Of(l, HeadKinds)
  <2>1. i \in 1 .. Len(l) /\ m[i] = l[i]
    BY <1>3, OfAppend
  <2>2. i - 1 \in 0 .. Len(l)
    BY <1>1, <2>1
  <2>3. l[i].predecessor = HeadAt(l, i - 1)
    BY <1>3 DEF HeadsOK
  <2> QED BY <1>2, <2>1, <2>2, <2>3
<1>4. CASE i = Len(l) + 1 /\ r.kind \in HeadKinds
  <2>1. i - 1 = Len(l) /\ Len(l) \in 0 .. Len(l)
    BY <1>1, <1>4
  <2>2. HeadAt(m, Len(l)) = HeadAt(l, Len(l))
    BY <1>2, <2>1
  <2> QED BY <1>1, <1>4, <2>1, <2>2 DEF HeadAllowed, Head0
<1> QED BY <1>1, <1>3, <1>4

LEMMA KeepsChecks ==
    ASSUME NEW l \in Seq(Rows), NEW r \in Rows, ChecksOK(l), CheckAllowed(l, r)
    PROVE  ChecksOK(Append(l, r))
<1> DEFINE m == Append(l, r)
<1> DEFINE C == Of(l, {"CHECK"})
<1> DEFINE n == Len(l)
<1>1. /\ Of(m, {"CHECK"}) = C \cup (IF r.kind = "CHECK" THEN {n + 1} ELSE {})
      /\ m[n + 1] = r /\ n \in Nat
      /\ \A i \in C : i \in 1 .. n /\ m[i] = l[i]
  BY OfAppend
<1>2. \A c \in 0 .. n : HeadAt(m, c) = HeadAt(l, c)
  BY AppendedHead
<1>3. \A i \in C : HeadAt(m, i - 1) = HeadAt(l, i - 1)
  BY <1>1, <1>2
<1>4. HeadAt(m, n) = Head0(l)
  BY <1>1, <1>2 DEF Head0
<1>5. /\ \A i \in C : /\ l[i].outcome = "PROVEN" => HeadAt(l, i - 1) = l[i].operation.evaluation
                      /\ l[i].operation.use = "AUTHORIZE" => l[i].operation.subject[2] = i - 1
      /\ \A i, j \in C : l[j].operation = l[i].operation => j = i
  BY DEF ChecksOK
<1>6. r.kind = "CHECK" =>
        /\ r.outcome = "PROVEN" => Head0(l) = r.operation.evaluation
        /\ r.operation.use = "AUTHORIZE" => r.operation.subject[2] = n
        /\ \A j \in C : l[j].operation # r.operation
  BY DEF CheckAllowed
<1>7. ASSUME NEW i \in Of(m, {"CHECK"})
      PROVE  /\ m[i].outcome = "PROVEN" => HeadAt(m, i - 1) = m[i].operation.evaluation
             /\ m[i].operation.use = "AUTHORIZE" => m[i].operation.subject[2] = i - 1
  <2>1. CASE i \in C
    <3>1. m[i] = l[i] /\ HeadAt(m, i - 1) = HeadAt(l, i - 1)
      BY <1>1, <1>3, <2>1
    <3>2. /\ l[i].outcome = "PROVEN" => HeadAt(l, i - 1) = l[i].operation.evaluation
          /\ l[i].operation.use = "AUTHORIZE" => l[i].operation.subject[2] = i - 1
      BY <1>5, <2>1
    <3> HIDE DEF m, C, n
    <3> QED BY <3>1, <3>2
  <2>2. CASE i = n + 1 /\ r.kind = "CHECK"
    <3>1. i - 1 = n
      BY <1>1, <2>2
    <3> QED BY <1>1, <1>4, <1>6, <2>2, <3>1
  <2> QED BY <1>1, <2>1, <2>2
<1>8. ASSUME NEW i \in Of(m, {"CHECK"}), NEW j \in Of(m, {"CHECK"}), m[j].operation = m[i].operation
      PROVE  j = i
  <2> HIDE DEF m, C, n
  <2>1. /\ i \in C \/ (i = n + 1 /\ r.kind = "CHECK")
        /\ j \in C \/ (j = n + 1 /\ r.kind = "CHECK")
    BY <1>1
  <2>2. CASE i \in C /\ j \in C
    BY <1>1, <1>5, <1>8, <2>2
  <2>3. CASE i \in C /\ j = n + 1 /\ r.kind = "CHECK"
    BY <1>1, <1>6, <1>8, <2>3
  <2>4. CASE j \in C /\ i = n + 1 /\ r.kind = "CHECK"
    BY <1>1, <1>6, <1>8, <2>4
  <2> QED BY <2>1, <2>2, <2>3, <2>4
<1> QED BY <1>7, <1>8 DEF ChecksOK

LEMMA ClaimsForAppend ==
    ASSUME NEW l \in Seq(Rows), NEW r \in Rows
    PROVE  \A e :
             /\ ClaimsFor(Append(l, r), e) =
                   ClaimsFor(l, e) \cup (IF r.kind = "SELECTION_CLAIM" /\ r.evaluation = e
                                         THEN {Len(l) + 1} ELSE {})
             /\ \A j \in ClaimsFor(l, e) : Append(l, r)[j] = l[j]
<1>1. /\ Of(Append(l, r), {"SELECTION_CLAIM"}) =
            Of(l, {"SELECTION_CLAIM"}) \cup
               (IF r.kind \in {"SELECTION_CLAIM"} THEN {Len(l) + 1} ELSE {})
      /\ \A i \in Of(l, {"SELECTION_CLAIM"}) : i \in 1 .. Len(l) /\ Append(l, r)[i] = l[i]
      /\ Append(l, r)[Len(l) + 1] = r /\ Len(l) \in Nat
  BY OfAppend
<1> QED BY <1>1 DEF ClaimsFor

LEMMA KeepsClaims ==
    ASSUME NEW l \in Seq(Rows), NEW r \in Rows, NEW x,
           ClaimsOK(l), CheckAllowed(l, r), ClaimAllowed(l, x, r)
    PROVE  ClaimsOK(Append(l, r))
<1> DEFINE m == Append(l, r)
<1> DEFINE n == Len(l)
<1> DEFINE S == Of(l, {"SELECTION_CLAIM"})
<1> DEFINE C == Of(l, {"CHECK"})
<1>1. /\ Of(m, {"SELECTION_CLAIM"}) = S \cup (IF r.kind = "SELECTION_CLAIM" THEN {n + 1} ELSE {})
      /\ Of(m, {"CHECK"}) = C \cup (IF r.kind = "CHECK" THEN {n + 1} ELSE {})
      /\ m[n + 1] = r /\ n \in Nat /\ Len(m) = n + 1
      /\ \A i \in S : i \in 1 .. n /\ m[i] = l[i]
      /\ \A i \in C : i \in 1 .. n /\ m[i] = l[i] /\ l[i].kind = "CHECK"
  BY OfAppend
<1>2. \A e : /\ ClaimsFor(m, e) = ClaimsFor(l, e) \cup
                     (IF r.kind = "SELECTION_CLAIM" /\ r.evaluation = e THEN {n + 1} ELSE {})
             /\ \A j \in ClaimsFor(l, e) : m[j] = l[j]
  BY ClaimsForAppend
<1>3. r.kind = "SELECTION_CLAIM" => \A i \in S : l[i].evaluation # r.evaluation
  BY DEF ClaimAllowed, ClaimsFor
<1>4. \A i, j \in S : l[i].evaluation = l[j].evaluation => i = j
  BY DEF ClaimsOK
<1>5. ASSUME NEW i \in C, l[i].result.code \in Accepting
      PROVE  \/ i = n /\ l[i].result.code = "ACCEPTED"
             \/ \E j \in ClaimsFor(l, l[i].operation.evaluation) :
                    l[j].candidate = l[i].result.candidate
  BY <1>5 DEF ClaimsOK
<1>6. ~ Settled(l) => /\ r.kind = "SELECTION_CLAIM"
                      /\ r.evaluation = l[n].operation.evaluation
                      /\ r.candidate = l[n].result.candidate
  BY DEF ClaimAllowed
<1>7. r.kind = "CHECK" /\ r.result.code = "ACCEPTED_IDEMPOTENT" =>
          \E j \in ClaimsFor(l, r.operation.evaluation) : l[j].candidate = r.result.candidate
  BY DEF CheckAllowed
<1>8. ASSUME NEW i \in C, i = n, l[i].result.code = "ACCEPTED" PROVE ~ Settled(l)
  BY <1>1, <1>8 DEF Settled
<1> HIDE DEF m, n, S, C
<1>9. ASSUME NEW i \in Of(m, {"SELECTION_CLAIM"}), NEW j \in Of(m, {"SELECTION_CLAIM"}),
             m[i].evaluation = m[j].evaluation
      PROVE  i = j
  <2>1. /\ i \in S \/ (i = n + 1 /\ r.kind = "SELECTION_CLAIM")
        /\ j \in S \/ (j = n + 1 /\ r.kind = "SELECTION_CLAIM")
    BY <1>1
  <2>2. CASE i \in S /\ j \in S
    BY <1>1, <1>4, <1>9, <2>2
  <2>3. CASE i \in S /\ j = n + 1 /\ r.kind = "SELECTION_CLAIM"
    BY <1>1, <1>3, <1>9, <2>3
  <2>4. CASE j \in S /\ i = n + 1 /\ r.kind = "SELECTION_CLAIM"
    BY <1>1, <1>3, <1>9, <2>4
  <2> QED BY <2>1, <2>2, <2>3, <2>4
<1>10. ASSUME NEW i \in Of(m, {"CHECK"}), m[i].result.code \in Accepting
       PROVE  \/ i = Len(m) /\ m[i].result.code = "ACCEPTED"
              \/ \E j \in ClaimsFor(m, m[i].operation.evaluation) :
                     m[j].candidate = m[i].result.candidate
  <2>1. CASE i \in C
    <3>1. m[i] = l[i]
      BY <1>1, <2>1
    <3>2. CASE i = n /\ l[i].result.code = "ACCEPTED"
      <4>1. ~ Settled(l)
        BY <1>8, <2>1, <3>2
      <4>2. n + 1 \in ClaimsFor(m, m[i].operation.evaluation)
        BY <1>2, <1>6, <3>1, <3>2, <4>1
      <4>3. m[n + 1].candidate = m[i].result.candidate
        BY <1>1, <1>6, <3>1, <3>2, <4>1
      <4> QED BY <4>2, <4>3
    <3>3. CASE \E j \in ClaimsFor(l, l[i].operation.evaluation) :
                  l[j].candidate = l[i].result.candidate
      <4>1. PICK j \in ClaimsFor(l, l[i].operation.evaluation) :
                    l[j].candidate = l[i].result.candidate
        BY <3>3
      <4>2. j \in ClaimsFor(m, m[i].operation.evaluation) /\ m[j] = l[j]
        BY <1>2, <3>1, <4>1
      <4> QED BY <3>1, <4>1, <4>2
    <3> QED BY <1>5, <1>10, <2>1, <3>1, <3>2, <3>3
  <2>2. CASE i = n + 1 /\ r.kind = "CHECK"
    <3>1. CASE r.result.code = "ACCEPTED_IDEMPOTENT"
      <4>1. PICK j \in ClaimsFor(l, r.operation.evaluation) : l[j].candidate = r.result.candidate
        BY <1>7, <2>2, <3>1
      <4>2. j \in ClaimsFor(m, r.operation.evaluation) /\ m[j] = l[j]
        BY <1>2, <4>1
      <4> QED BY <1>1, <2>2, <4>1, <4>2
    <3>2. CASE r.result.code = "ACCEPTED"
      BY <1>1, <2>2, <3>2
    <3> QED BY <1>1, <1>10, <2>2, <3>1, <3>2 DEF Accepting
  <2> QED BY <1>1, <2>1, <2>2
<1> QED BY <1>9, <1>10 DEF ClaimsOK, m

LEMMA NewestOfVersions ==
    ASSUME NEW l \in Seq(Rows), NEW d, NEW c \in Nat
    PROVE  /\ Versions(l, d, c) \in SUBSET (1 .. c)
           /\ Versions(l, d, c) \in SUBSET Of(l, {"DRAFT"})
           /\ \A i \in Versions(l, d, c) : l[i].draft = d
           /\ IsFiniteSet(Versions(l, d, c)) /\ Cardinality(Versions(l, d, c)) \in Nat
           /\ Versions(l, d, c) # {} =>
                 /\ Max(Versions(l, d, c)) \in Versions(l, d, c)
                 /\ Max({0} \cup Versions(l, d, c)) = Max(Versions(l, d, c))
                 /\ \A i \in Versions(l, d, c) : i <= Max(Versions(l, d, c))
<1> DEFINE V == Versions(l, d, c)
<1>1. V \in SUBSET (1 .. c) /\ V \in SUBSET Positions(l, {"DRAFT"}, c) /\ V \in SUBSET Nat
  BY PositionsBounded DEF Versions
<1>2. V \in SUBSET Of(l, {"DRAFT"})
  <2>1. DOMAIN l = 1 .. Len(l) /\ Len(l) \in Nat
    BY LenProperties
  <2> QED BY <2>1 DEF Versions, Positions, Of
<1>3. IsFiniteSet(V) /\ Cardinality(V) \in Nat
  <2>1. IsFiniteSet(1 .. c)
    BY FS_Interval
  <2>2. IsFiniteSet(V)
    BY <1>1, <2>1, FS_Subset
  <2> QED BY <2>2, FS_CardinalityType
<1>4. \A i \in V : l[i].draft = d
  BY DEF Versions
<1> HIDE DEF V
<1>5. V # {} => Max(V) \in V /\ \A i \in V : i <= Max(V)
  <2>1. \A i \in V : i <= c
    BY <1>1
  <2> QED BY <1>1, <2>1, MaxOfBounded
<1>6. V # {} => Max({0} \cup V) = Max(V)
  <2> SUFFICES ASSUME V # {} PROVE Max({0} \cup V) = Max(V)
    OBVIOUS
  <2>1. {0} \cup V \in SUBSET Nat /\ Max(V) \in {0} \cup V
    BY <1>1, <1>5
  <2>2. \A i \in {0} \cup V : i <= Max(V)
    <3>1. Max(V) \in Nat
      BY <1>1, <1>5
    <3> QED BY <1>5, <3>1
  <2> QED BY <2>1, <2>2, MaxIs
<1> QED BY <1>1, <1>2, <1>3, <1>4, <1>5, <1>6 DEF V

LEMMA KeepsDrafts ==
    ASSUME NEW l \in Seq(Rows), NEW r \in Rows, DraftsOK(l), DraftAllowed(l, r)
    PROVE  DraftsOK(Append(l, r))
<1> DEFINE m == Append(l, r)
<1> DEFINE n == Len(l)
<1> DEFINE D == Of(l, {"DRAFT"})
<1>1. /\ Of(m, {"DRAFT"}) = D \cup (IF r.kind = "DRAFT" THEN {n + 1} ELSE {})
      /\ m[n + 1] = r /\ n \in Nat
      /\ \A i \in D : i \in 1 .. n /\ m[i] = l[i]
  BY OfAppend
<1>2. ASSUME NEW c \in 0 .. n, NEW d PROVE Versions(m, d, c) = Versions(l, d, c)
  <2>1. m \in Seq(Rows) /\ Continues(m, l) /\ c \in Nat /\ c <= Len(l)
    BY AppendContinues
  <2> QED BY <2>1, VersionsKept
<1>3. r.kind = "DRAFT" => Versions(m, r.draft, n + 1) = Versions(l, r.draft, n) \cup {n + 1}
  BY AppendedVersions
<1>4. ASSUME NEW k \in D
      PROVE  /\ l[k].predecessor = Max({0} \cup Versions(l, l[k].draft, k - 1))
             /\ l[k].version = Cardinality(Versions(l, l[k].draft, k))
             /\ \A j \in D : l[j].key = l[k].key => j = k
             /\ \E j \in D : l[j].key = l[k].draft
  BY DEF DraftsOK
<1>5. r.kind = "DRAFT" =>
        /\ \A j \in D : l[j].key # r.key
        /\ r.predecessor = Max({0} \cup Versions(l, r.draft, n))
        /\ r.version = Cardinality(Versions(l, r.draft, n)) + 1
        /\ r.draft = r.key \/ \E j \in D : l[j].key = r.draft
  BY DEF DraftAllowed, DraftHead
<1>6. r.kind = "DRAFT" =>
        Cardinality(Versions(l, r.draft, n) \cup {n + 1}) = Cardinality(Versions(l, r.draft, n)) + 1
  <2>1. Versions(l, r.draft, n) \in SUBSET (1 .. n) /\ IsFiniteSet(Versions(l, r.draft, n))
    BY <1>1, NewestOfVersions
  <2>2. n + 1 \notin Versions(l, r.draft, n)
    BY <1>1, <2>1
  <2> QED BY <2>1, <2>2, FS_AddElement
<1> HIDE DEF m, n, D
<1> SUFFICES ASSUME NEW i \in Of(m, {"DRAFT"})
             PROVE  /\ m[i].predecessor = Max({0} \cup Versions(m, m[i].draft, i - 1))
                    /\ m[i].version = Cardinality(Versions(m, m[i].draft, i))
                    /\ \A j \in Of(m, {"DRAFT"}) : m[j].key = m[i].key => j = i
                    /\ \E j \in Of(m, {"DRAFT"}) : m[j].key = m[i].draft
  BY DEF DraftsOK, m
<1>7. CASE i \in D
  <2>1. m[i] = l[i] /\ i - 1 \in 0 .. n /\ i \in 0 .. n
    BY <1>1, <1>7
  <2>2. /\ Versions(m, m[i].draft, i - 1) = Versions(l, l[i].draft, i - 1)
        /\ Versions(m, m[i].draft, i) = Versions(l, l[i].draft, i)
    BY <1>2, <2>1
  <2>3. ASSUME NEW j \in Of(m, {"DRAFT"}), m[j].key = m[i].key PROVE j = i
    <3>1. CASE j \in D
      <4>1. m[j] = l[j]
        BY <1>1, <3>1
      <4>2. \A k \in D : l[k].key = l[i].key => k = i
        BY <1>4, <1>7
      <4> QED BY <2>1, <2>3, <3>1, <4>1, <4>2
    <3>2. CASE j = n + 1 /\ r.kind = "DRAFT"
      BY <1>1, <1>5, <1>7, <2>1, <2>3, <3>2
    <3> QED BY <1>1, <3>1, <3>2
  <2>4. \E j \in Of(m, {"DRAFT"}) : m[j].key = m[i].draft
    <3>1. PICK j \in D : l[j].key = l[i].draft
      BY <1>4, <1>7
    <3>2. j \in Of(m, {"DRAFT"}) /\ m[j] = l[j]
      BY <1>1, <3>1
    <3> QED BY <2>1, <3>1, <3>2
  <2> QED BY <1>4, <1>7, <2>1, <2>2, <2>3, <2>4
<1>8. CASE i = n + 1 /\ r.kind = "DRAFT"
  <2>1. m[i] = r /\ i - 1 = n /\ n \in 0 .. n
    BY <1>1, <1>8
  <2>2. Versions(m, r.draft, n) = Versions(l, r.draft, n)
    BY <1>2, <2>1
  <2>3. ASSUME NEW j \in Of(m, {"DRAFT"}), m[j].key = m[i].key PROVE j = i
    BY <1>1, <1>5, <1>8, <2>1, <2>3
  <2>4. \E j \in Of(m, {"DRAFT"}) : m[j].key = m[i].draft
    BY <1>1, <1>5, <1>8, <2>1
  <2>5. m[i].version = Cardinality(Versions(m, m[i].draft, i))
    BY <1>3, <1>5, <1>6, <1>8, <2>1
  <2>6. m[i].predecessor = Max({0} \cup Versions(m, m[i].draft, i - 1))
    BY <1>5, <1>8, <2>1, <2>2
  <2> QED BY <2>3, <2>4, <2>5, <2>6
<1> QED BY <1>1, <1>7, <1>8

LEMMA KeepsActed ==
    ASSUME NEW l \in Seq(Rows), NEW r \in Rows, NEW x, ActedOK(l, x),
           ClaimAllowed(l, x, r), MatchAllowed(l, r), SnapshotAllowed(l, x, r)
    PROVE  ActedOK(Append(l, r), x)
<1> DEFINE m == Append(l, r)
<1> DEFINE n == Len(l)
<1>1. /\ Of(m, {"DECISION_SNAPSHOT"}) = Of(l, {"DECISION_SNAPSHOT"}) \cup (IF r.kind = "DECISION_SNAPSHOT" THEN {n + 1} ELSE {})
      /\ \A i \in Of(l, {"DECISION_SNAPSHOT"}) : i \in 1 .. n /\ m[i] = l[i]
      /\ Of(m, {"SELECTION_CLAIM"}) = Of(l, {"SELECTION_CLAIM"}) \cup (IF r.kind = "SELECTION_CLAIM" THEN {n + 1} ELSE {})
      /\ \A i \in Of(l, {"SELECTION_CLAIM"}) : i \in 1 .. n /\ m[i] = l[i]
      /\ Of(m, {"MATCH"}) = Of(l, {"MATCH"}) \cup (IF r.kind = "MATCH" THEN {n + 1} ELSE {})
      /\ \A i \in Of(l, {"MATCH"}) : i \in 1 .. n /\ m[i] = l[i]
      /\ Of(m, {"DRAFT"}) = Of(l, {"DRAFT"}) \cup (IF r.kind = "DRAFT" THEN {n + 1} ELSE {})
      /\ \A i \in Of(l, {"DRAFT"}) : i \in 1 .. n /\ m[i] = l[i]
      /\ m[n + 1] = r /\ n \in Nat /\ Len(m) = n + 1
  BY OfAppend
<1>2. ASSUME NEW c \in 0 .. n, NEW d
      PROVE  Versions(m, d, c) = Versions(l, d, c) /\ HeadAt(m, c) = HeadAt(l, c)
  <2>1. m \in Seq(Rows) /\ Continues(m, l) /\ c \in Nat /\ c <= Len(l)
    BY AppendContinues
  <2> QED BY <2>1, VersionsKept, HeadKept
<1>3. HeadAt(m, n + 1) = IF r.kind \in HeadKinds THEN n + 1 ELSE Head0(l)
  BY <1>1, AppendedHead DEF Head0
<1>4. ASSUME NEW i \in Of(m, {"DECISION_SNAPSHOT"})
      PROVE  /\ Versions(m, m[i].draft, i) # {}
             /\ m[i].head = Max(Versions(m, m[i].draft, i))
             /\ m[i].actor = m[m[i].head].actor
             /\ m[i].disposition = "APPROVE_INTENT" =>
                  /\ HeadAt(m, i) = m[i].evaluation
                  /\ \A late \in x : late[1] = m[i].evaluation => i <= late[2]
  <2>1. CASE i \in Of(l, {"DECISION_SNAPSHOT"})
    <3>1. m[i] = l[i] /\ i \in 0 .. n /\ i \in Nat
      BY <1>1, <2>1
    <3>2. Versions(m, l[i].draft, i) = Versions(l, l[i].draft, i) /\ HeadAt(m, i) = HeadAt(l, i)
      BY <1>2, <3>1
    <3>3. /\ Versions(l, l[i].draft, i) # {}
          /\ l[i].head = Max(Versions(l, l[i].draft, i))
          /\ l[i].actor = l[l[i].head].actor
          /\ l[i].disposition = "APPROVE_INTENT" =>
                  /\ HeadAt(l, i) = l[i].evaluation
                  /\ \A late \in x : late[1] = l[i].evaluation => i <= late[2]
      BY <2>1 DEF ActedOK
    <3>4. l[i].head \in Of(l, {"DRAFT"})
      <4>1. Max(Versions(l, l[i].draft, i)) \in Versions(l, l[i].draft, i)
        BY <3>1, <3>3, NewestOfVersions
      <4>2. Versions(l, l[i].draft, i) \in SUBSET Of(l, {"DRAFT"})
        BY <3>1, NewestOfVersions
      <4> QED BY <3>3, <4>1, <4>2
    <3>5. m[l[i].head] = l[l[i].head]
      BY <1>1, <3>4
    <3> HIDE DEF m
    <3> QED BY <3>1, <3>2, <3>3, <3>5
  <2>2. CASE i = n + 1 /\ r.kind = "DECISION_SNAPSHOT"
    <3>1. m[i] = r /\ n \in 0 .. n
      BY <1>1, <2>2
    <3>2. Versions(m, r.draft, n + 1) = Versions(l, r.draft, n)
      BY <2>2, AppendedVersions
    <3>3. /\ Versions(l, r.draft, n) # {}
          /\ r.head = Max({0} \cup Versions(l, r.draft, n))
          /\ r.actor = l[r.head].actor
          /\ r.disposition = "APPROVE_INTENT" =>
                  Head0(l) = r.evaluation /\ ~ LateIn(x, r.evaluation)
      BY <2>2 DEF SnapshotAllowed, DraftHead
    <3>4. r.head = Max(Versions(l, r.draft, n)) /\ r.head \in Of(l, {"DRAFT"})
      BY <1>1, <3>3, NewestOfVersions
    <3>5. m[r.head] = l[r.head]
      BY <1>1, <3>4
    <3>6. HeadAt(m, n + 1) = Head0(l)
      BY <1>3, <2>2 DEF HeadKinds
    <3> HIDE DEF m, n
    <3> QED BY <2>2, <3>1, <3>2, <3>3, <3>4, <3>5, <3>6 DEF LateIn
  <2> QED BY <1>1, <2>1, <2>2
<1>5. ASSUME NEW i \in Of(m, {"SELECTION_CLAIM"})
      PROVE  /\ HeadAt(m, i) = m[i].evaluation
             /\ \A late \in x : late[1] = m[i].evaluation => i <= late[2]
  <2>1. CASE i \in Of(l, {"SELECTION_CLAIM"})
    <3>1. m[i] = l[i] /\ i \in 0 .. n
      BY <1>1, <2>1
    <3>2. HeadAt(m, i) = HeadAt(l, i)
      BY <1>2, <3>1
    <3>3. /\ HeadAt(l, i) = l[i].evaluation
          /\ \A late \in x : late[1] = l[i].evaluation => i <= late[2]
      BY <2>1 DEF ActedOK
    <3> QED BY <3>1, <3>2, <3>3
  <2>2. CASE i = n + 1 /\ r.kind = "SELECTION_CLAIM"
    <3>1. m[i] = r /\ HeadAt(m, n + 1) = Head0(l)
      BY <1>1, <1>3, <2>2 DEF HeadKinds
    <3> QED BY <2>2, <3>1 DEF ClaimAllowed, LateIn
  <2> QED BY <1>1, <2>1, <2>2
<1>6. ASSUME NEW i \in Of(m, {"MATCH"})
      PROVE  /\ HeadAt(m, i) = m[i].evaluation
             /\ \E o \in Observations : Matchable(o) /\ o.ref = m[i].observation
  <2>1. CASE i \in Of(l, {"MATCH"})
    <3>1. m[i] = l[i] /\ i \in 0 .. n
      BY <1>1, <2>1
    <3>2. HeadAt(m, i) = HeadAt(l, i)
      BY <1>2, <3>1
    <3> QED BY <2>1, <3>1, <3>2 DEF ActedOK
  <2>2. CASE i = n + 1 /\ r.kind = "MATCH"
    <3>1. m[i] = r /\ HeadAt(m, n + 1) = Head0(l)
      BY <1>1, <1>3, <2>2 DEF HeadKinds
    <3> QED BY <2>2, <3>1 DEF MatchAllowed
  <2> QED BY <1>1, <2>1, <2>2
<1> QED BY <1>4, <1>5, <1>6 DEF ActedOK

LEMMA KeepsHorizons ==
    ASSUME NEW l \in Seq(Rows), NEW r \in Rows, NEW x, HorizonsOK(l, x), x \subseteq Nat \X Nat
    PROVE  HorizonsOK(Append(l, r), x)
<1> DEFINE m == Append(l, r)
<1>1. /\ Of(l, {"EVALUATION"}) \subseteq Of(m, {"EVALUATION"})
      /\ \A i \in Of(l, {"EVALUATION"}) : m[i] = l[i]
      /\ Len(m) = Len(l) + 1 /\ Len(l) \in Nat
  BY OfAppend
<1> HIDE DEF m
<1> SUFFICES ASSUME NEW late \in x
             PROVE  /\ late[1] \in Of(m, {"EVALUATION"})
                    /\ MinimumHorizon(m[late[1]].horizons) # NO_EXPIRY
                    /\ late[2] <= Len(m)
  BY DEF HorizonsOK, m
<1>2. /\ late[1] \in Of(l, {"EVALUATION"})
      /\ MinimumHorizon(l[late[1]].horizons) # NO_EXPIRY
      /\ late[2] <= Len(l) /\ late[2] \in Nat
  BY DEF HorizonsOK
<1> QED BY <1>1, <1>2

\* The one step of the argument: what an allowed row may break, it does not.
LEMMA AllowedRow ==
    ASSUME NEW l \in Seq(Rows), NEW x, x \subseteq Nat \X Nat, LogInv(l, x),
           NEW r, RowAllowed(l, x, r)
    PROVE  /\ Append(l, r) \in Seq(Rows)
           /\ LogInv(Append(l, r), x)
           /\ Settled(Append(l, r)) <=> ~ (r.kind = "CHECK" /\ r.result.code = "ACCEPTED")
           /\ \A k : Continues(l, k) => Continues(Append(l, r), k)
<1>1. r \in Rows
  BY DEF RowAllowed
<1>2. /\ Append(l, r) \in Seq(Rows)
      /\ Append(l, r)[Len(l) + 1] = r /\ Len(Append(l, r)) = Len(l) + 1 /\ Len(l) \in Nat
  BY <1>1, AppendContinues
<1>3. Settled(Append(l, r)) <=> ~ (r.kind = "CHECK" /\ r.result.code = "ACCEPTED")
  BY <1>2 DEF Settled
<1>4. HeadsOK(Append(l, r)) /\ ChecksOK(Append(l, r))
  BY <1>1, KeepsHeads, KeepsChecks DEF RowAllowed, LogInv
<1>5. ClaimsOK(Append(l, r)) /\ DraftsOK(Append(l, r))
  BY <1>1, KeepsClaims, KeepsDrafts DEF RowAllowed, LogInv
<1>6. ActedOK(Append(l, r), x)
  BY <1>1, KeepsActed DEF RowAllowed, LogInv
<1>7. HorizonsOK(Append(l, r), x)
  BY <1>1, KeepsHorizons DEF LogInv
<1>8. \A k : Continues(l, k) => Continues(Append(l, r), k)
  <2>1. Continues(Append(l, r), l)
    BY <1>1, AppendContinues
  <2> QED BY <2>1 DEF Continues
<1> QED BY <1>2, <1>3, <1>4, <1>5, <1>6, <1>7, <1>8 DEF LogInv

-----------------------------------------------------------------------------
(* What the actions write.                                                 *)

LEMMA RowsOneByOne ==
    ASSUME NEW l \in Seq(Rows)
    PROVE  /\ l \o <<>> = l
           /\ \A a \in Rows : l \o <<a>> = Append(l, a)
           /\ \A a, b \in Rows : l \o <<a, b>> = Append(Append(l, a), b)
           /\ \A a \in Rows : \A t \in Seq(Rows) : l \o (<<a>> \o t) = Append(l, a) \o t
<1>1. l \o <<>> = l
  BY ConcatEmptySeq
<1>2. \A a \in Rows : <<a>> \in Seq(Rows) /\ l \o <<a>> = Append(l, a)
  BY AppendIsConcat
<1>3. ASSUME NEW a \in Rows, NEW b \in Rows PROVE l \o <<a, b>> = Append(Append(l, a), b)
  <2>1. <<a, b>> = <<a>> \o <<b>>
    <3> DEFINE s == <<a, b>>
    <3> DEFINE t == <<a>> \o <<b>>
    <3>1. s \in Seq(Rows) /\ Len(s) = 2 /\ s[1] = a /\ s[2] = b
      OBVIOUS
    <3>2. /\ <<a>> \in Seq(Rows) /\ Len(<<a>>) = 1 /\ <<a>>[1] = a
          /\ <<b>> \in Seq(Rows) /\ Len(<<b>>) = 1 /\ <<b>>[1] = b
      OBVIOUS
    <3>3. t \in Seq(Rows) /\ Len(t) = 2
      BY <3>2, ConcatProperties
    <3>4. t[1] = a /\ t[2] = b
      BY <3>2, ConcatProperties
    <3> HIDE DEF s, t
    <3>5. \A i \in 1 .. Len(s) : s[i] = t[i]
      BY <3>1, <3>4
    <3>6. s = t
      BY <3>1, <3>3, <3>5, SeqEqual
    <3> QED BY <3>6 DEF s, t
  <2>2. l \o (<<a>> \o <<b>>) = (l \o <<a>>) \o <<b>>
    BY <1>2, ConcatAssociative
  <2>3. Append(l, a) \in Seq(Rows)
    BY AppendProperties
  <2>4. Append(l, a) \o <<b>> = Append(Append(l, a), b)
    BY <2>3, AppendIsConcat
  <2> QED BY <1>2, <2>1, <2>2, <2>4
<1>4. ASSUME NEW a \in Rows, NEW t \in Seq(Rows) PROVE l \o (<<a>> \o t) = Append(l, a) \o t
  <2>1. l \o (<<a>> \o t) = (l \o <<a>>) \o t
    BY <1>2, ConcatAssociative
  <2> QED BY <1>2, <2>1
<1> QED BY <1>1, <1>2, <1>3, <1>4

\* The first horizon of an evaluation is an instant or none.
LEMMA HorizonIsInstant ==
    ASSUME NEW h \in SUBSET (Nat \cup {NO_EXPIRY})
    PROVE  MinimumHorizon(h) # NO_EXPIRY => MinimumHorizon(h) \in Nat
<1> DEFINE F == h \ {NO_EXPIRY}
<1>1. F \in SUBSET Nat
  OBVIOUS
<1>2. F # {} => \E y \in F : \A k \in F : y <= k
  BY <1>1, LeastMember
<1>3. F # {} => (CHOOSE y \in F : \A k \in F : y <= k) \in F
  BY <1>2
<1> QED BY <1>1, <1>3 DEF MinimumHorizon

\* The rows of a log that satisfies the invariant, as the actions read them.
LEMMA ReadLog ==
    ASSUME IInv
    PROVE  /\ Head0(log) \in Nat /\ Len(log) \in Nat
           /\ All({"CHECK"}) = Of(log, {"CHECK"})
           /\ \A e \in All({"EVALUATION"}) :
                 e \in Nat /\ log[e].horizons \in SUBSET (Nat \cup {NO_EXPIRY})
           /\ \A c \in All({"SELECTION_CLAIM"}) : c \in Nat
           /\ \A h \in All(HeadKinds) : h \in Nat
           /\ \A v \in All({"DRAFT"}) :
                 /\ v \in Nat /\ v \in 1 .. Len(log) /\ log[v].kind = "DRAFT"
                 /\ log[v].key \in Keys /\ log[v].draft \in Keys
                 /\ log[v].version \in Nat /\ log[v].evaluation \in Nat
                 /\ log[v].claim \in Nat /\ log[v].actor \in Actors
                 /\ log[v].disposition \in Dispositions
<1>1. log \in Seq(Rows)
  BY DEF IInv, TypeOK
<1>2. Len(log) \in Nat
  BY <1>1, LenProperties
<1>3. Head0(log) \in Nat
  BY <1>1, <1>2, HeadBounded DEF Head0
<1>4. ASSUME NEW kinds
      PROVE  \A i \in All(kinds) : /\ i \in Nat /\ i \in 1 .. Len(log)
                                   /\ log[i] \in Rows /\ log[i].kind \in kinds
  BY <1>1, <1>2, PositionsBounded DEF All
<1>5. All({"CHECK"}) = Of(log, {"CHECK"})
  BY DEF All, Of
<1>6. ASSUME NEW e \in All({"EVALUATION"})
      PROVE  e \in Nat /\ log[e].horizons \in SUBSET (Nat \cup {NO_EXPIRY})
  <2>1. e \in Nat /\ log[e] \in Rows /\ log[e].kind = "EVALUATION"
    BY <1>4
  <2> QED BY <2>1, RowForms
<1>7. \A c \in All({"SELECTION_CLAIM"}) : c \in Nat
  BY <1>4
<1>8. \A h \in All(HeadKinds) : h \in Nat
  BY <1>4
<1>9. ASSUME NEW v \in All({"DRAFT"})
      PROVE  /\ v \in Nat /\ v \in 1 .. Len(log) /\ log[v].kind = "DRAFT"
             /\ log[v].key \in Keys /\ log[v].draft \in Keys
             /\ log[v].version \in Nat /\ log[v].evaluation \in Nat
             /\ log[v].claim \in Nat /\ log[v].actor \in Actors
             /\ log[v].disposition \in Dispositions
  <2>1. v \in Nat /\ v \in 1 .. Len(log) /\ log[v] \in Rows /\ log[v].kind = "DRAFT"
    BY <1>4
  <2> QED BY <2>1, RowForms
<1> QED BY <1>2, <1>3, <1>5, <1>6, <1>7, <1>8, <1>9

\* A proof asked for now finds the horizon of the evaluation ahead.
LEMMA ProvenNotLate ==
    ASSUME IInv, NEW e, NEW op, op.evaluation = e, op.at = Now(e), Reasons(op) = {}
    PROVE  ~ LateIn(expired, e)
<1> SUFFICES ASSUME LateIn(expired, e) PROVE FALSE
  OBVIOUS
<1>1. Late(e)
  BY DEF Late, LateIn
<1> DEFINE M == MinimumHorizon(log[e].horizons)
<1>2. e \in All({"EVALUATION"}) /\ M # NO_EXPIRY
  BY DEF LateIn, IInv, LogInv, HorizonsOK, Of, All
<1>3. M \in Nat
  BY <1>2, ReadLog, HorizonIsInstant
<1>4. op.at = M + 1
  BY <1>1 DEF Now
<1>5. HorizonReasons(log[op.evaluation].horizons, op.at) # {}
  <2>1. op.at > M
    BY <1>3, <1>4
  <2> QED BY <1>2, <2>1 DEF HorizonReasons
<1> QED BY <1>5 DEF Reasons

LEMMA ClaimedIs ==
    ASSUME IInv, NEW e
    PROVE  /\ Claimed(e) = 0 <=> ClaimsFor(log, e) = {}
           /\ Claimed(e) # 0 => Claimed(e) \in ClaimsFor(log, e)
<1>1. log \in Seq(Rows) /\ Len(log) \in Nat
  BY ReadLog DEF IInv, TypeOK
<1>2. ClaimsFor(log, e) \in SUBSET (1 .. Len(log))
  BY <1>1, PositionsBounded DEF ClaimsFor, Of
<1>3. Claimed(e) = Max({0} \cup ClaimsFor(log, e))
  BY DEF Claimed, ClaimOf, ClaimsFor, Of
<1> QED BY <1>1, <1>2, <1>3, NewestOfSet

\* The row of a fresh check is allowed.
LEMMA FreshCheckAllowed ==
    ASSUME IInv, NEW op \in Operations, ChecksOf(op) = {},
           NEW result \in [code : Codes, candidate : Offered \cup {"NONE"}],
           op.use = "AUTHORIZE" => op.subject[2] = Len(log),
           result.code = "ACCEPTED" => ClaimsFor(log, op.evaluation) = {},
           result.code = "ACCEPTED_IDEMPOTENT" =>
              \E j \in ClaimsFor(log, op.evaluation) : log[j].candidate = result.candidate
    PROVE  RowAllowed(log, expired, Check(op, FreshOutcome(op), result))
<1> DEFINE r == Check(op, FreshOutcome(op), result)
<1>1. FreshOutcome(op) \in Outcomes
  BY DEF FreshOutcome, Outcomes
<1>2. r \in Rows
  BY <1>1 DEF Check, Rows
<1>3. /\ r.kind = "CHECK" /\ r.operation = op /\ r.outcome = FreshOutcome(op)
      /\ r.result = result
  BY DEF Check
<1>4. FreshOutcome(op) = "PROVEN" => Head0(log) = op.evaluation
  BY DEF FreshOutcome
<1>5. \A j \in Of(log, {"CHECK"}) : log[j].operation # op
  BY ReadLog DEF ChecksOf
<1> HIDE DEF r
<1>6. CheckAllowed(log, r)
  BY <1>3, <1>4, <1>5 DEF CheckAllowed
<1>7. /\ HeadAllowed(log, r) /\ ClaimAllowed(log, expired, r) /\ MatchAllowed(log, r)
      /\ DraftAllowed(log, r) /\ SnapshotAllowed(log, expired, r)
  BY <1>3 DEF HeadAllowed, HeadKinds, ClaimAllowed, MatchAllowed, DraftAllowed,
              SnapshotAllowed, IInv
<1> QED BY <1>2, <1>6, <1>7 DEF RowAllowed, r

\* A row that is not of the kind an allowance is about.
LEMMA Unconcerned ==
    ASSUME NEW l, NEW x, NEW r, Settled(l), r \in Rows
    PROVE  /\ r.kind = "BRIEF" \/ r.kind = "DECISION" => RowAllowed(l, x, r)
           /\ r.kind \in HeadKinds /\ r.predecessor = Head0(l) => RowAllowed(l, x, r)
           /\ r.kind = "MATCH" /\ MatchAllowed(l, r) => RowAllowed(l, x, r)
           /\ r.kind = "DRAFT" /\ DraftAllowed(l, r) => RowAllowed(l, x, r)
           /\ r.kind = "DECISION_SNAPSHOT" /\ SnapshotAllowed(l, x, r) => RowAllowed(l, x, r)
BY DEF RowAllowed, HeadAllowed, HeadKinds, CheckAllowed, ClaimAllowed, MatchAllowed,
       DraftAllowed, SnapshotAllowed

Good(l) ==
    /\ l \in Seq(Rows) /\ LogInv(l, expired) /\ Settled(l)
    /\ Continues(l, log)

\* What CheckThen appends to the log keeps the invariant: the check, and the
\* withdrawal it installs or the row r it lets its consumer write.
LEMMA CheckThenKeeps ==
    ASSUME IInv, NEW op \in Operations,
           NEW result \in [code : Codes, candidate : Offered \cup {"NONE"}],
           op.use = "AUTHORIZE" => op.subject[2] = Len(log),
           result.code = "ACCEPTED" => ClaimsFor(log, op.evaluation) = {},
           result.code = "ACCEPTED_IDEMPOTENT" =>
              \E j \in ClaimsFor(log, op.evaluation) : log[j].candidate = result.candidate,
           NEW consumed,
           \/ consumed = <<>> /\ result.code # "ACCEPTED"
           \/ \E r \in Rows :
                 /\ consumed = <<r>> /\ r.kind # "CHECK"
                 /\ ChecksOf(op) = {} /\ FreshOutcome(op) = "PROVEN" =>
                      RowAllowed(Append(log, Check(op, "PROVEN", result)), expired, r)
                 /\ result.code = "ACCEPTED" => FreshOutcome(op) = "PROVEN"
    PROVE  /\ Good(log \o CheckThen(op, result, consumed))
           /\ ChecksOf(op) = {} /\ FreshOutcome(op) = "PROVEN" /\ consumed = <<>> =>
                log \o CheckThen(op, result, consumed) = Append(log, Check(op, "PROVEN", result))
<1>1. Good(log) /\ log \in Seq(Rows) /\ expired \subseteq Nat \X Nat
  BY DEF Good, IInv, TypeOK, Continues
<1>2. CASE ChecksOf(op) # {}
  BY <1>1, <1>2, RowsOneByOne DEF CheckThen
<1>3. CASE ChecksOf(op) = {}
  <2> DEFINE chk == Check(op, FreshOutcome(op), result)
  <2> DEFINE l1 == Append(log, chk)
  <2>1. RowAllowed(log, expired, chk)
    BY <1>3, FreshCheckAllowed
  <2>2. /\ l1 \in Seq(Rows) /\ LogInv(l1, expired) /\ chk \in Rows /\ Continues(l1, log)
        /\ Settled(l1) <=> ~ (chk.kind = "CHECK" /\ chk.result.code = "ACCEPTED")
    BY <1>1, <2>1, AllowedRow DEF Good, RowAllowed
  <2>3. chk.kind = "CHECK" /\ chk.result = result
    BY DEF Check
  <2> DEFINE rest ==
         CASE FreshOutcome(op) = "INVALIDATED" -> << WithdrawalByCheck(op) >>
           [] FreshOutcome(op) = "PROVEN"      -> consumed
           [] OTHER                            -> <<>>
  <2>4. CheckThen(op, result, consumed) = << chk >> \o rest
    BY <1>3 DEF CheckThen
  <2>9. \A t \in Seq(Rows) : log \o (<< chk >> \o t) = l1 \o t
    BY <1>1, <2>2, RowsOneByOne
  <2> HIDE DEF l1
  <2>5. CASE FreshOutcome(op) = "INVALIDATED"
    <3>1. rest = << WithdrawalByCheck(op) >> /\ result.code # "ACCEPTED"
      BY <2>5
    <3>2. op.evaluation \in Nat /\ Head0(log) = op.evaluation
      BY <2>5 DEF FreshOutcome, Operations
    <3>3. /\ WithdrawalByCheck(op) \in Rows
          /\ WithdrawalByCheck(op).kind \in HeadKinds
          /\ WithdrawalByCheck(op).kind = "INVALIDATION"
          /\ WithdrawalByCheck(op).predecessor = op.evaluation
      BY <3>2 DEF WithdrawalByCheck, Withdrawal, Rows, HeadKinds
    <3>4. Head0(l1) = Head0(log)
      BY <1>1, <2>2, <2>3, AppendedHead DEF HeadKinds, l1
    <3>5. RowAllowed(l1, expired, WithdrawalByCheck(op))
      BY <2>2, <2>3, <3>1, <3>2, <3>3, <3>4, Unconcerned
    <3>6. Good(Append(l1, WithdrawalByCheck(op)))
      BY <1>1, <2>2, <3>3, <3>5, AllowedRow DEF Good
    <3>7. log \o CheckThen(op, result, consumed) = l1 \o << WithdrawalByCheck(op) >>
      <4>1. << WithdrawalByCheck(op) >> \in Seq(Rows)
        BY <3>3
      <4> HIDE DEF rest, chk
      <4> QED BY <2>4, <2>9, <3>1, <4>1
    <3>8. l1 \o << WithdrawalByCheck(op) >> = Append(l1, WithdrawalByCheck(op))
      BY <2>2, <3>3, RowsOneByOne
    <3> QED BY <2>5, <3>6, <3>7, <3>8
  <2>6. CASE FreshOutcome(op) = "PROVEN" /\ consumed = <<>> /\ result.code # "ACCEPTED"
    <3>1. rest = <<>> /\ rest \in Seq(Rows)
      BY <2>6
    <3>2. log \o CheckThen(op, result, consumed) = l1 \o <<>>
      <4> HIDE DEF rest, chk
      <4> QED BY <2>4, <2>9, <3>1
    <3>3. l1 \o <<>> = l1
      BY <2>2, RowsOneByOne
    <3> QED BY <2>2, <2>3, <2>6, <3>2, <3>3 DEF Good, l1
  <2>7. CASE FreshOutcome(op) = "PROVEN" /\ consumed # <<>>
    <3>1. PICK r \in Rows : /\ consumed = <<r>> /\ r.kind # "CHECK"
                            /\ RowAllowed(l1, expired, r)
      BY <1>3, <2>7 DEF l1
    <3>2. rest = <<r>> /\ <<r>> \in Seq(Rows)
      BY <2>7, <3>1
    <3>3. Good(Append(l1, r))
      BY <1>1, <2>2, <3>1, AllowedRow DEF Good
    <3>4. log \o CheckThen(op, result, consumed) = l1 \o <<r>>
      <4> HIDE DEF rest, chk
      <4> QED BY <2>4, <2>9, <3>2
    <3>5. l1 \o <<r>> = Append(l1, r)
      BY <2>2, RowsOneByOne
    <3> QED BY <2>7, <3>3, <3>4, <3>5
  <2>8. CASE FreshOutcome(op) \notin {"INVALIDATED", "PROVEN"}
    <3>1. rest = <<>> /\ rest \in Seq(Rows) /\ result.code # "ACCEPTED"
      BY <2>8
    <3>2. log \o CheckThen(op, result, consumed) = l1 \o <<>>
      <4> HIDE DEF rest, chk
      <4> QED BY <2>4, <2>9, <3>1
    <3>3. l1 \o <<>> = l1
      BY <2>2, RowsOneByOne
    <3> QED BY <2>2, <2>3, <2>8, <3>1, <3>2, <3>3 DEF Good
  <2> QED BY <2>5, <2>6, <2>7, <2>8
<1> QED BY <1>2, <1>3

-----------------------------------------------------------------------------
(* The actions.                                                            *)

LEMMA RenderOperations ==
    ASSUME IInv, NEW op \in Renders
    PROVE  op \in Operations /\ op.use = "RENDER"
<1>1. PICK e \in All({"EVALUATION"}), c \in {0} \cup All({"SELECTION_CLAIM"}), t \in Instants :
         op = Operation("RENDER", e, c, <<>>, t)
  BY DEF Renders
<1>2. e \in Nat /\ c \in Nat
  BY ReadLog
<1>3. <<>> \in Seq(Nat \cup {o.ref : o \in Observations})
  OBVIOUS
<1> QED BY <1>1, <1>2, <1>3 DEF Operation, Operations

LEMMA NowOperations ==
    ASSUME IInv, NEW e \in Nat, NEW subject \in Seq(Nat), NEW use \in {"SELECT", "AUTHORIZE"}
    PROVE  Operation(use, e, 0, subject, Now(e)) \in Operations
<1>1. Now(e) \in Nat
  <2>1. CASE Late(e)
    <3>1. e \in All({"EVALUATION"}) /\ MinimumHorizon(log[e].horizons) # NO_EXPIRY
      BY <2>1 DEF Late, IInv, LogInv, HorizonsOK, Of, All
    <3>2. MinimumHorizon(log[e].horizons) \in Nat
      BY <3>1, ReadLog, HorizonIsInstant
    <3> QED BY <2>1, <3>2 DEF Now
  <2>2. CASE ~ Late(e)
    BY <2>2 DEF Now
  <2> QED BY <2>1, <2>2
<1>2. subject \in Seq(Nat \cup {o.ref : o \in Observations})
  BY SeqMonotonic
<1> QED BY <1>1, <1>2 DEF Operation, Operations

LEMMA CheckAloneKeeps ==
    ASSUME IInv, NEW op \in Operations,
           op.use = "AUTHORIZE" => op.subject[2] = Len(log)
    PROVE  /\ Good(log \o CheckThen(op, NoResult, <<>>))
           /\ ChecksOf(op) = {} /\ FreshOutcome(op) = "PROVEN" =>
                log \o CheckThen(op, NoResult, <<>>) =
                   Append(log, Check(op, "PROVEN", NoResult))
<1>1. /\ NoResult \in [code : Codes, candidate : Offered \cup {"NONE"}]
      /\ NoResult.code = "NONE"
  BY DEF NoResult, Codes
<1> QED BY <1>1, CheckThenKeeps

\* An evaluation may follow every log.
LEMMA EvaluationKeeps ==
    ASSUME IInv, AdviceAssumption, NEW a \in Advices
    PROVE  /\ Evaluation(a) \in Rows /\ Good(Append(log, Evaluation(a)))
           /\ log \o << Evaluation(a) >> = Append(log, Evaluation(a))
<1>1. Good(log) /\ log \in Seq(Rows) /\ expired \subseteq Nat \X Nat
  BY DEF Good, IInv, TypeOK, Continues
<1>2. /\ Evaluation(a) \in Rows /\ Evaluation(a).kind = "EVALUATION"
      /\ Evaluation(a).predecessor = Head0(log)
  BY ReadLog DEF AdviceAssumption, Evaluation, Rows
<1>3. RowAllowed(log, expired, Evaluation(a))
  BY <1>1, <1>2, Unconcerned DEF Good, HeadKinds
<1>4. Good(Append(log, Evaluation(a)))
  BY <1>1, <1>2, <1>3, AllowedRow DEF Good
<1> QED BY <1>1, <1>2, <1>4, RowsOneByOne

LEMMA KeepsPermittedBrief ==
    ASSUME IInv, AdviceAssumption, NEW a \in Advices, PublishPermittedBrief(a)
    PROVE  Good(log')
<1> DEFINE l1 == Append(log, Evaluation(a))
<1>1. log \in Seq(Rows) /\ expired \subseteq Nat \X Nat
  BY DEF IInv, TypeOK
<1>2. Evaluation(a) \in Rows /\ Good(l1)
  BY EvaluationKeeps
<1>3. Brief \in Rows /\ Brief.kind = "BRIEF"
  BY DEF Brief, Rows
<1>4. RowAllowed(l1, expired, Brief)
  BY <1>2, <1>3, Unconcerned DEF Good
<1>5. Good(Append(l1, Brief))
  BY <1>1, <1>2, <1>3, <1>4, AllowedRow DEF Good
<1>6. log' = Append(l1, Brief)
  BY <1>1, <1>2, <1>3, RowsOneByOne DEF PublishPermittedBrief, Write
<1> QED BY <1>5, <1>6

\* One allowed row.
LEMMA OneRowKeeps ==
    ASSUME NEW l, Good(l), expired \subseteq Nat \X Nat, NEW r, RowAllowed(l, expired, r),
           r.kind # "CHECK"
    PROVE  Good(l \o << r >>) /\ l \o << r >> = Append(l, r)
<1>1. l \in Seq(Rows) /\ r \in Rows
  BY DEF Good, RowAllowed
<1>2. Good(Append(l, r))
  BY <1>1, AllowedRow DEF Good
<1> QED BY <1>1, <1>2, RowsOneByOne

LEMMA WithdrawalAllowed ==
    ASSUME IInv
    PROVE  RowAllowed(log, expired, Withdrawal(Head0(log)))
<1>1. /\ Withdrawal(Head0(log)) \in Rows
      /\ Withdrawal(Head0(log)).kind \in HeadKinds
      /\ Withdrawal(Head0(log)).predecessor = Head0(log)
  BY ReadLog DEF Withdrawal, Rows, HeadKinds
<1> QED BY <1>1, Unconcerned DEF IInv

\* So may what a denied brief withdraws.
LEMMA WithdrawalByBriefKeeps ==
    ASSUME IInv
    PROVE  Good(log \o WithdrawalByBrief) /\ WithdrawalByBrief \in Seq(Rows)
<1> DEFINE w == Withdrawal(Head0(log))
<1>1. Good(log) /\ log \in Seq(Rows) /\ expired \subseteq Nat \X Nat
  BY DEF Good, IInv, TypeOK, Continues
<1>2. CASE Head0(log) \in All({"EVALUATION"})
  <2>1. w \in Rows /\ w.kind # "CHECK" /\ RowAllowed(log, expired, w)
    BY WithdrawalAllowed DEF RowAllowed, Withdrawal
  <2>2. Good(log \o << w >>)
    BY <1>1, <2>1, OneRowKeeps
  <2>3. WithdrawalByBrief = << w >> /\ << w >> \in Seq(Rows)
    BY <1>2, <2>1 DEF WithdrawalByBrief
  <2> QED BY <2>2, <2>3
<1>3. CASE Head0(log) \notin All({"EVALUATION"})
  <2>1. WithdrawalByBrief = <<>> /\ <<>> \in Seq(Rows)
    BY <1>3 DEF WithdrawalByBrief
  <2>2. log \o <<>> = log
    BY <1>1, ConcatEmptySeq
  <2> QED BY <1>1, <2>1, <2>2
<1> QED BY <1>2, <1>3

LEMMA KeepsDeniedBrief ==
    ASSUME IInv, PublishDeniedBrief
    PROVE  Good(log')
<1> DEFINE l1 == log \o WithdrawalByBrief
<1>1. log \in Seq(Rows) /\ expired \subseteq Nat \X Nat
  BY DEF IInv, TypeOK
<1>2. Good(l1) /\ WithdrawalByBrief \in Seq(Rows)
  BY WithdrawalByBriefKeeps
<1>3. Brief \in Rows /\ Brief.kind = "BRIEF" /\ << Brief >> \in Seq(Rows)
  BY DEF Brief, Rows
<1>4. RowAllowed(l1, expired, Brief)
  BY <1>2, <1>3, Unconcerned DEF Good
<1>5. Good(l1 \o << Brief >>)
  BY <1>1, <1>2, <1>3, <1>4, OneRowKeeps
<1>6. log' = log \o (WithdrawalByBrief \o << Brief >>)
  BY DEF PublishDeniedBrief, Write
<1>7. log \o (WithdrawalByBrief \o << Brief >>) = l1 \o << Brief >>
  BY <1>1, <1>2, <1>3, AppendedTwice
<1> QED BY <1>5, <1>6, <1>7

LEMMA KeepsInvalidate ==
    ASSUME IInv, NEW h, Invalidate(h)
    PROVE  Good(log')
<1>1. Good(log) /\ expired \subseteq Nat \X Nat
  BY DEF Good, IInv, TypeOK, Continues
<1>2. h = Head0(log) /\ log' = log \o << Withdrawal(h) >>
  BY DEF Invalidate, ExpectedHead, Write
<1>3. RowAllowed(log, expired, Withdrawal(h)) /\ Withdrawal(h).kind # "CHECK"
  BY <1>2, WithdrawalAllowed DEF Withdrawal
<1> QED BY <1>1, <1>2, <1>3, OneRowKeeps

LEMMA KeepsRender ==
    ASSUME IInv, NEW op \in Renders, RenderAdvice(op)
    PROVE  Good(log')
<1>1. op \in Operations /\ op.use = "RENDER"
  BY RenderOperations
<1>2. log' = log \o CheckThen(op, NoResult, <<>>)
  BY DEF RenderAdvice, Write
<1> QED BY <1>1, <1>2, CheckAloneKeeps

LEMMA KeepsAccept ==
    ASSUME IInv, AdviceAssumption, NEW e \in All({"EVALUATION"}), NEW c \in Offered,
           AcceptSelection(e, c)
    PROVE  Good(log')
<1> DEFINE op == Operation("SELECT", e, 0, NewAttempt, Now(e))
<1> DEFINE code == SelectionResult(op, c)
<1> DEFINE result == [code |-> code, candidate |-> c]
<1> DEFINE claim == SelectionClaim(e, c)
<1> DEFINE consumed == IF code = "ACCEPTED" THEN << claim >> ELSE <<>>
<1>1. log \in Seq(Rows) /\ e \in Nat /\ Len(log) \in Nat
  BY ReadLog DEF IInv, TypeOK
<1>2. NewAttempt \in Seq(Nat)
  <2> DEFINE Q == {i \in All({"CHECK"}) : log[i].operation.use = "SELECT"}
  <2>1. IsFiniteSet(All({"CHECK"}))
    BY <1>1, PositionsBounded DEF All
  <2>2. IsFiniteSet(Q)
    BY <2>1, FS_Subset
  <2>3. Cardinality(Q) \in Nat
    BY <2>2, FS_CardinalityType
  <2> QED BY <2>3 DEF NewAttempt
<1>3. op \in Operations /\ op.use = "SELECT" /\ op.evaluation = e /\ op.at = Now(e)
  <2>1. op \in Operations
    BY <1>1, <1>2, NowOperations
  <2> QED BY <2>1 DEF Operation
<1> HIDE DEF op
<1>4. code \in Codes
  BY DEF SelectionResult, Codes
<1>5. code = "ACCEPTED" => /\ FreshOutcome(op) = "PROVEN" /\ Claimed(e) = 0
                           /\ c \in Candidates
  BY <1>3 DEF SelectionResult
<1>6. code = "ACCEPTED_IDEMPOTENT" => Claimed(e) # 0 /\ log[Claimed(e)].candidate = c
  BY <1>3 DEF SelectionResult
<1>7. /\ result \in [code : Codes, candidate : Offered \cup {"NONE"}]
      /\ result.code = code /\ result.candidate = c
  BY <1>4
<1> HIDE DEF code, result
<1>8. result.code = "ACCEPTED" => ClaimsFor(log, op.evaluation) = {}
  BY <1>3, <1>5, <1>7, ClaimedIs
<1>9. result.code = "ACCEPTED_IDEMPOTENT" =>
         \E j \in ClaimsFor(log, op.evaluation) : log[j].candidate = result.candidate
  BY <1>3, <1>6, <1>7, ClaimedIs
<1>10. \/ consumed = <<>> /\ result.code # "ACCEPTED"
       \/ \E r \in Rows :
             /\ consumed = <<r>> /\ r.kind # "CHECK"
             /\ ChecksOf(op) = {} /\ FreshOutcome(op) = "PROVEN" =>
                  RowAllowed(Append(log, Check(op, "PROVEN", result)), expired, r)
             /\ result.code = "ACCEPTED" => FreshOutcome(op) = "PROVEN"
  <2>1. CASE code # "ACCEPTED"
    BY <1>7, <2>1
  <2>2. CASE code = "ACCEPTED"
    <3>1. claim \in Rows /\ claim.kind = "SELECTION_CLAIM" /\ claim.evaluation = e
          /\ claim.candidate = c
      BY <1>1, <1>5, <2>2 DEF SelectionClaim, Rows
    <3>2. ASSUME ChecksOf(op) = {}, FreshOutcome(op) = "PROVEN"
          PROVE  RowAllowed(Append(log, Check(op, "PROVEN", result)), expired, claim)
      <4> DEFINE chk == Check(op, "PROVEN", result)
      <4> DEFINE l1 == Append(log, chk)
      <4>1. RowAllowed(log, expired, Check(op, FreshOutcome(op), result))
        BY <1>3, <1>7, <1>8, <1>9, <3>2, FreshCheckAllowed
      <4>2. RowAllowed(log, expired, chk) /\ chk \in Rows
        BY <3>2, <4>1 DEF RowAllowed
      <4>3. chk.kind = "CHECK" /\ chk.operation = op /\ chk.result = result
        BY DEF Check
      <4>4. l1[Len(l1)] = chk /\ l1 \in Seq(Rows) /\ Len(l1) = Len(log) + 1 /\ Len(l1) # 0
        BY <1>1, <4>2, AppendContinues
      <4>5. Head0(l1) = Head0(log) /\ Head0(log) = e
        BY <1>1, <1>3, <3>2, <4>2, <4>3, AppendedHead DEF HeadKinds, FreshOutcome
      <4>6. ClaimsFor(l1, e) = {}
        BY <1>1, <1>3, <1>7, <1>8, <2>2, <4>2, <4>3, ClaimsForAppend
      <4>7. ~ LateIn(expired, e)
        BY <1>3, <3>2, ProvenNotLate DEF FreshOutcome
      <4>8. ~ Settled(l1)
        BY <1>7, <2>2, <4>3, <4>4 DEF Settled
      <4> HIDE DEF chk, l1
      <4>9. ClaimAllowed(l1, expired, claim)
        BY <1>3, <1>7, <3>1, <4>3, <4>4, <4>5, <4>6, <4>7, <4>8 DEF ClaimAllowed
      <4>10. RowAllowed(l1, expired, claim)
        BY <3>1, <4>9 DEF RowAllowed, HeadAllowed, HeadKinds, CheckAllowed, MatchAllowed,
                          DraftAllowed, SnapshotAllowed
      <4> QED BY <4>10 DEF l1, chk
    <3>3. consumed = << claim >> /\ claim.kind # "CHECK"
      BY <2>2, <3>1
    <3> HIDE DEF consumed, claim
    <3> QED BY <1>5, <2>2, <3>1, <3>2, <3>3
  <2> QED BY <2>1, <2>2
<1>11. log' = log \o CheckThen(op, result, consumed)
  BY DEF AcceptSelection, Write, op, code, result
<1> HIDE DEF consumed, claim
<1> QED BY <1>3, <1>7, <1>8, <1>9, <1>10, <1>11, CheckThenKeeps

LEMMA KeepsMatch ==
    ASSUME IInv, NEW o \in Observations, MatchMonitoring(o)
    PROVE  Good(log')
<1> DEFINE e == Head0(log)
<1> DEFINE op == Operation("MONITOR", e, 0, <<o.ref>>, o.available)
<1> DEFINE match == Match(e, o)
<1>1. log \in Seq(Rows) /\ e \in Nat /\ Len(log) \in Nat
  BY ReadLog DEF IInv, TypeOK
<1>2. op \in Operations /\ op.use = "MONITOR" /\ op.evaluation = e
  <2>1. <<o.ref>> \in Seq(Nat \cup {p.ref : p \in Observations})
    OBVIOUS
  <2>2. o.available \in {p.available : p \in Observations}
    OBVIOUS
  <2> QED BY <1>1, <2>1, <2>2 DEF Operation, Operations
<1>3. /\ match \in Rows /\ match.kind = "MATCH" /\ match.evaluation = e
      /\ match.observation = o.ref
  <2>1. RequestsReview(o) \in BOOLEAN
    BY DEF RequestsReview
  <2>2. o.ref \in {p.ref : p \in Observations}
    OBVIOUS
  <2> QED BY <1>1, <2>1, <2>2 DEF Match, Rows
<1>4. /\ Matchable(o) /\ ChecksOf(op) = {}
      /\ log' = log \o CheckThen(op, NoResult, << match >>)
  BY DEF MatchMonitoring, Write
<1> HIDE DEF op, match
<1>5. ASSUME FreshOutcome(op) = "PROVEN"
      PROVE  RowAllowed(Append(log, Check(op, "PROVEN", NoResult)), expired, match)
  <2> DEFINE chk == Check(op, "PROVEN", NoResult)
  <2> DEFINE l1 == Append(log, chk)
  <2>1. Good(l1)
    BY <1>2, <1>4, <1>5, CheckAloneKeeps
  <2>2. chk \in Rows /\ chk.kind = "CHECK"
    BY <1>2 DEF Check, Rows, NoResult, Codes, Outcomes
  <2>3. Head0(l1) = Head0(log)
    BY <1>1, <2>2, AppendedHead DEF HeadKinds
  <2> HIDE DEF chk, l1
  <2>4. MatchAllowed(l1, match)
    BY <1>3, <1>4, <2>3 DEF MatchAllowed
  <2>5. RowAllowed(l1, expired, match)
    BY <1>3, <2>1, <2>4, Unconcerned DEF Good
  <2> QED BY <2>5 DEF l1, chk
<1>6. /\ NoResult \in [code : Codes, candidate : Offered \cup {"NONE"}]
      /\ NoResult.code = "NONE"
  BY DEF NoResult, Codes
<1>7. \E r \in Rows :
         /\ << match >> = <<r>> /\ r.kind # "CHECK"
         /\ ChecksOf(op) = {} /\ FreshOutcome(op) = "PROVEN" =>
              RowAllowed(Append(log, Check(op, "PROVEN", NoResult)), expired, r)
         /\ NoResult.code = "ACCEPTED" => FreshOutcome(op) = "PROVEN"
  BY <1>3, <1>5, <1>6
<1> QED BY <1>2, <1>4, <1>6, <1>7, CheckThenKeeps

LEMMA KeepsBeginDraft ==
    ASSUME IInv, NEW op \in Renders, NEW r \in Requests, NEW k, NEW a, BeginDraft(r, k, a, op)
    PROVE  Good(log')
<1>1. op \in Operations /\ op.use = "RENDER"
  BY RenderOperations
<1>2. log' = log \o CheckThen(op, NoResult, <<>>)
  BY DEF BeginDraft, Write
<1> QED BY <1>1, <1>2, CheckAloneKeeps

\* The root version of a draft, if its key is still free.
LEMMA KeepsFinishDraft ==
    ASSUME IInv, NEW r \in Requests, FinishDraft(r)
    PROVE  Good(log')
<1> DEFINE w == waiting[r]
<1> DEFINE row == Version(w.key, w.key, 1, 0, w, w.actor, "NOT_DISPOSED")
<1>1. /\ log \in Seq(Rows) /\ Len(log) \in Nat /\ Good(log)
      /\ expired \subseteq Nat \X Nat
  BY ReadLog DEF IInv, TypeOK, Good, Continues
<1>2. w.key \in Keys /\ w.actor \in Actors /\ w.evaluation \in Nat /\ w.claim \in Nat
  <2>1. w \in {NoRequest} \cup [key : Keys, actor : Actors, evaluation : Nat, claim : Nat]
    BY DEF IInv, TypeOK
  <2>2. w # NoRequest
    BY DEF FinishDraft
  <2> QED BY <2>1, <2>2
<1>3. log' = log \o (IF Stored(w.key) THEN <<>> ELSE << row >>)
  BY DEF FinishDraft, Write
<1>4. /\ row \in Rows /\ row.kind = "DRAFT" /\ row.key = w.key /\ row.draft = w.key
      /\ row.predecessor = 0 /\ row.version = 1
  BY <1>2 DEF Version, Rows, Dispositions
<1> HIDE DEF row
<1>5. ASSUME ~ Stored(w.key) PROVE Good(log \o << row >>)
  <2>1. \A j \in Of(log, {"DRAFT"}) : log[j].key # w.key
    BY <1>5 DEF Stored, KeyUsed, All, Of
  <2>2. Versions(log, w.key, Len(log)) = {}
    <3> SUFFICES ASSUME NEW i \in Versions(log, w.key, Len(log)) PROVE FALSE
      OBVIOUS
    <3>1. i \in Of(log, {"DRAFT"}) /\ log[i].draft = w.key
      BY <1>1, NewestOfVersions
    <3>2. \E j \in Of(log, {"DRAFT"}) : log[j].key = log[i].draft
      BY <3>1 DEF IInv, LogInv, DraftsOK
    <3> QED BY <2>1, <3>1, <3>2
  <2>3. DraftHead(log, w.key) = 0
    <3>1. {} \in SUBSET (1 .. Len(log))
      OBVIOUS
    <3>2. Max({0} \cup {}) = 0
      BY <1>1, <3>1, NewestOfSet
    <3> QED BY <2>2, <3>2 DEF DraftHead
  <2>4. Cardinality(Versions(log, w.key, Len(log))) = 0
    BY <2>2, FS_EmptySet
  <2>5. DraftAllowed(log, row)
    BY <1>4, <2>1, <2>3, <2>4 DEF DraftAllowed
  <2>6. RowAllowed(log, expired, row)
    BY <1>1, <1>4, <2>5, Unconcerned DEF Good
  <2> QED BY <1>1, <1>4, <2>6, OneRowKeeps
<1>6. log \o <<>> = log
  BY <1>1, RowsOneByOne
<1> QED BY <1>1, <1>3, <1>5, <1>6

\* The newest version of a draft has the number of its versions.
LEMMA DraftAtHead ==
    ASSUME IInv, NEW v \in All({"DRAFT"}), v = DraftHead(log, log[v].draft)
    PROVE  /\ v \in Versions(log, log[v].draft, Len(log))
           /\ log[v].version = Cardinality(Versions(log, log[v].draft, Len(log)))
           /\ \E j \in Of(log, {"DRAFT"}) : log[j].key = log[v].draft
<1> DEFINE d == log[v].draft
<1>1. log \in Seq(Rows) /\ Len(log) \in Nat /\ v \in Nat /\ v \in 1 .. Len(log)
  BY ReadLog DEF IInv, TypeOK
<1>2. /\ v \in Of(log, {"DRAFT"})
      /\ v \in Positions(log, {"DRAFT"}, Len(log))
  BY DEF All, Of
<1>3. v \in Versions(log, d, Len(log))
  BY <1>2 DEF Versions
<1>4. \A i \in Versions(log, d, Len(log)) : i <= v
  BY <1>1, <1>3, NewestOfVersions DEF DraftHead
<1>5. Versions(log, d, Len(log)) = Versions(log, d, v)
  <2>1. Versions(log, d, v) \subseteq Versions(log, d, Len(log))
    <3> SUFFICES ASSUME NEW i \in Versions(log, d, v) PROVE i \in Versions(log, d, Len(log))
      OBVIOUS
    <3>1. i \in DOMAIN log /\ log[i].kind \in {"DRAFT"} /\ log[i].draft = d
      BY DEF Versions, Positions
    <3>2. DOMAIN log = 1 .. Len(log)
      BY <1>1, LenProperties
    <3>3. i <= Len(log)
      BY <1>1, <3>1, <3>2
    <3> QED BY <3>1, <3>3 DEF Versions, Positions
  <2>2. Versions(log, d, Len(log)) \subseteq Versions(log, d, v)
    BY <1>4 DEF Versions, Positions
  <2> QED BY <2>1, <2>2
<1>6. /\ log[v].version = Cardinality(Versions(log, log[v].draft, v))
      /\ \E j \in Of(log, {"DRAFT"}) : log[j].key = log[v].draft
  BY <1>2 DEF IInv, LogInv, DraftsOK
<1> QED BY <1>3, <1>5, <1>6

LEMMA KeepsSucceed ==
    ASSUME IInv, NEW v \in All({"DRAFT"}), NEW k \in Keys, NEW actor \in Actors,
           NEW disposition \in Dispositions, Succeed(v, k, actor, disposition)
    PROVE  Good(log')
<1> DEFINE row == Version(k, log[v].draft, log[v].version + 1, v, log[v], actor, disposition)
<1>1. /\ log \in Seq(Rows) /\ Len(log) \in Nat /\ Good(log)
      /\ expired \subseteq Nat \X Nat
  BY ReadLog DEF IInv, TypeOK, Good, Continues
<1>2. /\ v \in Nat /\ log[v].draft \in Keys /\ log[v].version \in Nat
      /\ log[v].evaluation \in Nat /\ log[v].claim \in Nat
  BY ReadLog
<1>3. /\ row \in Rows /\ row.kind = "DRAFT" /\ row.key = k /\ row.draft = log[v].draft
      /\ row.predecessor = v /\ row.version = log[v].version + 1
  BY <1>2 DEF Version, Rows
<1>4. v = DraftHead(log, log[v].draft) /\ ~ KeyUsed(k) /\ log' = log \o << row >>
  BY DEF Succeed, AtHead, Write
<1> HIDE DEF row
<1>5. \A j \in Of(log, {"DRAFT"}) : log[j].key # k
  BY <1>4 DEF KeyUsed, All, Of
<1>6. DraftAllowed(log, row)
  BY <1>3, <1>4, <1>5, DraftAtHead DEF DraftAllowed
<1>7. RowAllowed(log, expired, row)
  BY <1>1, <1>3, <1>6, Unconcerned DEF Good
<1> QED BY <1>1, <1>3, <1>4, <1>7, OneRowKeeps

-----------------------------------------------------------------------------
(* Decisions.                                                              *)

SnapshotOf(v) ==
    [kind |-> "DECISION_SNAPSHOT", draft |-> log[v].draft, head |-> v,
     history |-> Versions(log, log[v].draft, Len(log)),
     evaluation |-> log[v].evaluation, disposition |-> log[v].disposition,
     actor |-> log[v].actor]

\* A snapshot and its decision after a log whose drafts are those of the log.
LEMMA DecidedKeeps ==
    ASSUME IInv, NEW v \in All({"DRAFT"}), NEW l, Good(l),
           SnapshotAllowed(l, expired, SnapshotOf(v))
    PROVE  Good(l \o Decided(v))
<1> DEFINE s == SnapshotOf(v)
<1> DEFINE t == [kind |-> "DECISION"]
<1>1. l \in Seq(Rows) /\ expired \subseteq Nat \X Nat /\ log \in Seq(Rows) /\ Len(log) \in Nat
  BY ReadLog DEF Good, IInv, TypeOK
<1>2. /\ v \in Nat /\ log[v].draft \in Keys /\ log[v].evaluation \in Nat
      /\ log[v].disposition \in Dispositions /\ log[v].actor \in Actors
  BY ReadLog
<1>3. Versions(log, log[v].draft, Len(log)) \in SUBSET Nat
  <2>1. Versions(log, log[v].draft, Len(log)) \in SUBSET (1 .. Len(log))
    BY <1>1, NewestOfVersions
  <2> QED BY <2>1
<1>4. s \in Rows /\ s.kind = "DECISION_SNAPSHOT"
  BY <1>2, <1>3 DEF SnapshotOf, Rows
<1>5. t \in Rows /\ t.kind = "DECISION"
  BY DEF Rows
<1>6. Decided(v) = << s, t >>
  BY DEF Decided, SnapshotOf
<1> HIDE DEF s, t
<1>7. RowAllowed(l, expired, s)
  BY <1>4, Unconcerned DEF Good, s
<1>8. Good(Append(l, s))
  BY <1>1, <1>4, <1>7, AllowedRow DEF Good
<1>9. RowAllowed(Append(l, s), expired, t)
  BY <1>5, <1>8, Unconcerned DEF Good
<1>10. Good(Append(Append(l, s), t))
  BY <1>1, <1>5, <1>8, <1>9, AllowedRow DEF Good
<1>11. l \o << s, t >> = Append(Append(l, s), t)
  BY <1>1, <1>4, <1>5, RowsOneByOne
<1> QED BY <1>6, <1>10, <1>11

LEMMA KeepsOther ==
    ASSUME IInv, NEW v \in All({"DRAFT"}), RecordOther(v)
    PROVE  Good(log')
<1>1. /\ v = DraftHead(log, log[v].draft) /\ log[v].disposition # "APPROVE_INTENT"
      /\ log' = log \o Decided(v)
  BY DEF RecordOther, MayDecide, Write
<1>2. v \in Versions(log, log[v].draft, Len(log))
  BY <1>1, DraftAtHead
<1>3. SnapshotAllowed(log, expired, SnapshotOf(v))
  BY <1>1, <1>2 DEF SnapshotAllowed, SnapshotOf
<1>4. Good(log)
  BY DEF IInv, TypeOK, Good, Continues
<1> QED BY <1>1, <1>3, <1>4, DecidedKeeps

\* The authorization of an approval is an operation of its own.
LEMMA AuthorizationFresh ==
    ASSUME IInv, NEW v \in All({"DRAFT"})
    PROVE  LET op == Authorization(v) IN
           /\ op \in Operations /\ op.use = "AUTHORIZE"
           /\ op.evaluation = log[v].evaluation /\ op.at = Now(log[v].evaluation)
           /\ op.subject[2] = Len(log) /\ ChecksOf(op) = {}
<1> DEFINE op == Authorization(v)
<1>1. log \in Seq(Rows) /\ Len(log) \in Nat /\ v \in Nat /\ log[v].evaluation \in Nat
  BY ReadLog DEF IInv, TypeOK
<1>2. /\ op \in Operations /\ op.use = "AUTHORIZE" /\ op.evaluation = log[v].evaluation
      /\ op.at = Now(log[v].evaluation) /\ op.subject[2] = Len(log)
  <2>1. <<v, Len(log)>> \in Seq(Nat)
    BY <1>1
  <2>2. op \in Operations
    BY <1>1, <2>1, NowOperations DEF Authorization
  <2> QED BY <2>2 DEF Authorization, Operation
<1> HIDE DEF op
<1>3. ChecksOf(op) = {}
  <2> SUFFICES ASSUME NEW i \in All({"CHECK"}), log[i].operation = op PROVE FALSE
    BY DEF ChecksOf
  <2>1. i \in Of(log, {"CHECK"}) /\ i \in 1 .. Len(log)
    BY <1>1, PositionsBounded DEF All, Of
  <2>2. log[i].operation.subject[2] = i - 1
    BY <1>2, <2>1 DEF IInv, LogInv, ChecksOK
  <2> QED BY <1>1, <1>2, <2>1, <2>2
<1> QED BY <1>2, <1>3 DEF op

LEMMA KeepsApproval ==
    ASSUME IInv, NEW v \in All({"DRAFT"}), RecordApproval(v)
    PROVE  Good(log')
<1> DEFINE op == Authorization(v)
<1> DEFINE d == log[v].draft
<1>1. /\ log \in Seq(Rows) /\ Len(log) \in Nat /\ v \in Nat /\ v \in 1 .. Len(log)
      /\ log[v].evaluation \in Nat /\ log[v].actor \in Actors
  BY ReadLog DEF IInv, TypeOK
<1>2. v = DraftHead(log, d)
  BY DEF RecordApproval, MayApprove, MayDecide
<1>3. log' = log \o (CheckThen(op, NoResult, <<>>)
                        \o IF OutcomeOf(op) = "PROVEN" THEN Decided(v) ELSE <<>>)
  BY DEF RecordApproval, Write
<1>4. /\ op \in Operations /\ op.use = "AUTHORIZE" /\ op.evaluation = log[v].evaluation
      /\ op.at = Now(log[v].evaluation) /\ op.subject[2] = Len(log)
  BY AuthorizationFresh
<1>5. ChecksOf(op) = {}
  BY AuthorizationFresh
<1> HIDE DEF op
<1>6. OutcomeOf(op) = FreshOutcome(op)
  BY <1>5 DEF OutcomeOf
<1>7. Good(log \o CheckThen(op, NoResult, <<>>))
  BY <1>4, CheckAloneKeeps
<1>8. CheckThen(op, NoResult, <<>>) \in Seq(Rows)
  <2>1. Check(op, FreshOutcome(op), NoResult) \in Rows
    BY <1>4 DEF Check, Rows, FreshOutcome, Outcomes, NoResult, Codes
  <2>2. WithdrawalByCheck(op) \in Rows
    BY <1>1, <1>4 DEF WithdrawalByCheck, Withdrawal, Rows
  <2> DEFINE rest == CASE FreshOutcome(op) = "INVALIDATED" -> << WithdrawalByCheck(op) >>
                       [] FreshOutcome(op) = "PROVEN"      -> <<>>
                       [] OTHER                            -> <<>>
  <2>3. rest \in Seq(Rows)
    <3>1. CASE FreshOutcome(op) = "INVALIDATED"
      BY <2>2, <3>1
    <3>2. CASE FreshOutcome(op) = "PROVEN"
      BY <3>2
    <3>3. CASE FreshOutcome(op) \notin {"INVALIDATED", "PROVEN"}
      BY <3>3
    <3> QED BY <3>1, <3>2, <3>3
  <2>4. CheckThen(op, NoResult, <<>>) = << Check(op, FreshOutcome(op), NoResult) >> \o rest
    BY <1>5 DEF CheckThen
  <2> HIDE DEF rest
  <2>5. << Check(op, FreshOutcome(op), NoResult) >> \in Seq(Rows)
    BY <2>1
  <2> QED BY <2>3, <2>4, <2>5, ConcatProperties
<1>9. CASE OutcomeOf(op) # "PROVEN"
  <2>1. log' = log \o (CheckThen(op, NoResult, <<>>) \o <<>>)
    BY <1>3, <1>9
  <2>2. CheckThen(op, NoResult, <<>>) \o <<>> = CheckThen(op, NoResult, <<>>)
    BY <1>8, ConcatEmptySeq
  <2> QED BY <1>7, <2>1, <2>2
<1>10. CASE OutcomeOf(op) = "PROVEN"
  <2> DEFINE chk == Check(op, "PROVEN", NoResult)
  <2> DEFINE l1 == Append(log, chk)
  <2>1. chk \in Rows /\ chk.kind = "CHECK"
    BY <1>4 DEF Check, Rows, Outcomes, NoResult, Codes
  <2>2. log \o CheckThen(op, NoResult, <<>>) = l1
    BY <1>4, <1>5, <1>6, <1>10, CheckAloneKeeps
  <2>3. /\ Head0(l1) = Head0(log) /\ Len(l1) = Len(log) + 1 /\ l1[v] = log[v]
        /\ l1 \in Seq(Rows)
    <3>1. Head0(l1) = Head0(log)
      BY <1>1, <2>1, AppendedHead DEF HeadKinds
    <3> QED BY <1>1, <2>1, <3>1, AppendContinues
  <2>4. Versions(l1, d, Len(l1)) = Versions(log, d, Len(log))
    <3>1. Versions(l1, d, Len(log) + 1) = Versions(log, d, Len(log)) \cup
             (IF chk.kind = "DRAFT" /\ chk.draft = d THEN {Len(log) + 1} ELSE {})
      BY <1>1, <2>1, AppendedVersions
    <3> HIDE DEF l1, chk
    <3> QED BY <2>1, <2>3, <3>1
  <2>5. v \in Versions(log, d, Len(log))
    BY <1>2, DraftAtHead
  <2>6. DraftHead(l1, d) = v
    BY <1>2, <2>4 DEF DraftHead
  <2>7. FreshOutcome(op) = "PROVEN"
    BY <1>6, <1>10
  <2>8. Head0(log) = log[v].evaluation /\ ~ LateIn(expired, log[v].evaluation)
    <3>1. Head0(log) = op.evaluation /\ Reasons(op) = {}
      BY <2>7 DEF FreshOutcome
    <3> QED BY <1>4, <3>1, ProvenNotLate
  <2>9. SnapshotAllowed(l1, expired, SnapshotOf(v))
    <3> HIDE DEF l1, chk
    <3> QED BY <2>3, <2>4, <2>5, <2>6, <2>8 DEF SnapshotAllowed, SnapshotOf
  <2>10. Good(l1 \o Decided(v))
    BY <1>7, <2>2, <2>9, DecidedKeeps
  <2>11. log' = l1 \o Decided(v)
    <3> DEFINE c == CheckThen(op, NoResult, <<>>)
    <3>1. log' = log \o (c \o Decided(v))
      BY <1>3, <1>10
    <3>2. Decided(v) \in Seq(Rows)
      <4>1. Versions(log, d, Len(log)) \in SUBSET Nat
        <5>1. Versions(log, d, Len(log)) \in SUBSET (1 .. Len(log))
          BY <1>1, NewestOfVersions
        <5> QED BY <5>1
      <4>2. SnapshotOf(v) \in Rows /\ [kind |-> "DECISION"] \in Rows
        BY <4>1, ReadLog DEF SnapshotOf, Rows
      <4>3. Decided(v) = << SnapshotOf(v), [kind |-> "DECISION"] >>
        BY DEF Decided, SnapshotOf
      <4> QED BY <4>2, <4>3
    <3>3. c \in Seq(Rows) /\ log \o c = l1
      BY <1>8, <2>2
    <3> HIDE DEF c, l1, chk, d
    <3>4. \A x, y \in Seq(Rows) : log \o (x \o y) = (log \o x) \o y
      <4>1. log \in Seq(Rows)
        BY <1>1
      <4> QED BY ONLY <4>1, AppendedTwice
    <3>5. log \o (c \o Decided(v)) = (log \o c) \o Decided(v)
      BY <3>2, <3>3, <3>4
    <3> QED BY <3>1, <3>3, <3>5
  <2> QED BY <2>10, <2>11
<1> QED BY <1>9, <1>10

-----------------------------------------------------------------------------
(* The state besides the log.                                              *)

\* The horizon of an evaluation passes after every row there is.
LEMMA KeepsHorizonPasses ==
    ASSUME IInv, NEW e \in All({"EVALUATION"}), HorizonPasses(e)
    PROVE  log' = log /\ LogInv(log, expired') /\ expired' \subseteq Nat \X Nat
<1>1. /\ log \in Seq(Rows) /\ Len(log) \in Nat /\ e \in Nat
      /\ expired \subseteq Nat \X Nat
  BY ReadLog DEF IInv, TypeOK
<1>2. /\ log' = log /\ expired' = expired \cup {<<e, Len(log)>>}
      /\ MinimumHorizon(log[e].horizons) # NO_EXPIRY
  BY DEF HorizonPasses
<1>3. expired' \subseteq Nat \X Nat
  BY <1>1, <1>2
<1>4. HorizonsOK(log, expired')
  <2>1. HorizonsOK(log, expired)
    BY DEF IInv, LogInv
  <2> SUFFICES ASSUME NEW late \in expired'
               PROVE  /\ late[1] \in Of(log, {"EVALUATION"})
                      /\ MinimumHorizon(log[late[1]].horizons) # NO_EXPIRY
                      /\ late[2] <= Len(log)
    BY DEF HorizonsOK
  <2>2. CASE late \in expired
    BY <2>1, <2>2 DEF HorizonsOK
  <2>3. CASE late = <<e, Len(log)>>
    BY <1>1, <1>2, <2>3 DEF All, Of
  <2> QED BY <1>2, <2>2, <2>3
<1>5. \A i \in 1 .. Len(log) : \A late \in expired' :
         late \in expired \/ i <= late[2]
  BY <1>1, <1>2
<1>6. ActedOK(log, expired')
  <2>1. ActedOK(log, expired)
    BY DEF IInv, LogInv
  <2>2. /\ Of(log, {"DECISION_SNAPSHOT"}) \in SUBSET (1 .. Len(log))
        /\ Of(log, {"SELECTION_CLAIM"}) \in SUBSET (1 .. Len(log))
    BY <1>1, PositionsBounded DEF Of
  <2>3. ASSUME NEW i \in Of(log, {"DECISION_SNAPSHOT"}), log[i].disposition = "APPROVE_INTENT",
               NEW late \in expired', late[1] = log[i].evaluation
        PROVE  i <= late[2]
    BY <1>5, <2>1, <2>2, <2>3 DEF ActedOK
  <2>4. ASSUME NEW i \in Of(log, {"SELECTION_CLAIM"}),
               NEW late \in expired', late[1] = log[i].evaluation
        PROVE  i <= late[2]
    BY <1>5, <2>1, <2>2, <2>4 DEF ActedOK
  <2> QED BY <2>1, <2>3, <2>4 DEF ActedOK
<1> QED BY <1>2, <1>3, <1>4, <1>6 DEF IInv, LogInv

-----------------------------------------------------------------------------
(* The invariant is inductive.                                             *)

LEMMA InitIInv ==
    ASSUME Init
    PROVE  IInv
<1>1. log = <<>> /\ log \in Seq(Rows) /\ Len(log) = 0 /\ DOMAIN log = {}
  BY DEF Init
<1>2. \A kinds : Of(log, kinds) = {}
  BY <1>1 DEF Of, Positions
<1>3. expired = {}
  BY DEF Init
<1>4. /\ HeadsOK(log) /\ ChecksOK(log) /\ ClaimsOK(log) /\ DraftsOK(log)
      /\ ActedOK(log, expired) /\ HorizonsOK(log, expired) /\ Settled(log)
  BY <1>1, <1>2, <1>3 DEF HeadsOK, ChecksOK, ClaimsOK, DraftsOK, ActedOK, HorizonsOK, Settled
<1>5. TypeOK
  BY <1>1, <1>3 DEF Init, TypeOK
<1> QED BY <1>4, <1>5 DEF IInv, LogInv

\* A step that leaves the horizons alone and the log in order.
LEMMA GoodStep ==
    ASSUME IInv, expired' = expired, Good(log'), retired' \in BOOLEAN,
           authority' \in {{}, Consumed} \cup Authorities, changes' \in Nat,
           waiting' \in [Requests -> {NoRequest}
                           \cup [key : Keys, actor : Actors, evaluation : Nat, claim : Nat]]
    PROVE  IInv' /\ Continues(log', log)
BY DEF IInv, TypeOK, Good, Continues

LEMMA PublishingKeeps ==
    ASSUME IInv, Publishing, retired' \in BOOLEAN
    PROVE  IInv' /\ Continues(log', log)
<1>1. ASSUME NEW a \in Advices, PublishPermittedBrief(a) PROVE IInv' /\ Continues(log', log)
  <2>1. Good(log')
    BY <1>1, AdviceAssumption, KeepsPermittedBrief
  <2> QED BY <1>1, <2>1, GoodStep DEF PublishPermittedBrief, IInv, TypeOK
<1>2. CASE PublishDeniedBrief
  <2>1. Good(log')
    BY <1>2, KeepsDeniedBrief
  <2> QED BY <1>2, <2>1, GoodStep DEF PublishDeniedBrief, IInv, TypeOK
<1>3. ASSUME NEW h \in All(HeadKinds), Invalidate(h) PROVE IInv' /\ Continues(log', log)
  <2>1. Good(log')
    BY <1>3, KeepsInvalidate
  <2>2. changes' \in Nat
    BY <1>3 DEF Invalidate, IInv, TypeOK
  <2> QED BY <1>3, <2>1, <2>2, GoodStep DEF Invalidate, IInv, TypeOK
<1>4. ASSUME NEW live \in Authorities, PublishAuthority(live) PROVE IInv' /\ Continues(log', log)
  <2>1. log' = log /\ expired' = expired /\ Good(log)
    BY <1>4 DEF PublishAuthority, IInv, TypeOK, Good, Continues
  <2>2. changes' \in Nat
    BY <1>4 DEF PublishAuthority, IInv, TypeOK
  <2> QED BY <1>4, <2>1, <2>2, GoodStep DEF PublishAuthority, IInv, TypeOK
<1>5. ASSUME NEW e \in All({"EVALUATION"}), HorizonPasses(e) PROVE IInv' /\ Continues(log', log)
  <2>1. log' = log /\ LogInv(log, expired') /\ expired' \subseteq Nat \X Nat
    BY <1>5, KeepsHorizonPasses
  <2> QED BY <1>5, <2>1 DEF HorizonPasses, IInv, TypeOK, Continues
<1> QED BY <1>1, <1>2, <1>3, <1>4, <1>5 DEF Publishing

LEMMA ConsumingKeeps ==
    ASSUME IInv, Consuming, retired' \in BOOLEAN
    PROVE  IInv' /\ Continues(log', log)
<1>1. ASSUME NEW op \in Renders, RenderAdvice(op) PROVE IInv' /\ Continues(log', log)
  <2>1. Good(log')
    BY <1>1, KeepsRender
  <2> QED BY <1>1, <2>1, GoodStep DEF RenderAdvice, IInv, TypeOK
<1>2. ASSUME NEW e \in All({"EVALUATION"}), NEW c \in Offered, AcceptSelection(e, c) PROVE IInv' /\ Continues(log', log)
  <2>1. Good(log')
    BY <1>2, AdviceAssumption, KeepsAccept
  <2> QED BY <1>2, <2>1, GoodStep DEF AcceptSelection, IInv, TypeOK
<1>3. ASSUME NEW o \in Observations, MatchMonitoring(o) PROVE IInv' /\ Continues(log', log)
  <2>1. Good(log')
    BY <1>3, KeepsMatch
  <2> QED BY <1>3, <2>1, GoodStep DEF MatchMonitoring, IInv, TypeOK
<1> QED BY <1>1, <1>2, <1>3 DEF Consuming

LEMMA DraftingKeeps ==
    ASSUME IInv, Drafting, retired' \in BOOLEAN
    PROVE  IInv' /\ Continues(log', log)
<1>1. ASSUME NEW r \in Requests, NEW k \in Keys, NEW a \in Actors, NEW op \in Renders,
             BeginDraft(r, k, a, op)
      PROVE  IInv' /\ Continues(log', log)
  <2>1. Good(log')
    BY <1>1, KeepsBeginDraft
  <2>2. op.evaluation \in Nat /\ op.claim \in Nat
    BY RenderOperations DEF Operations
  <2>3. [key |-> k, actor |-> a, evaluation |-> op.evaluation, claim |-> op.claim]
           \in [key : Keys, actor : Actors, evaluation : Nat, claim : Nat]
    BY <2>2
  <2>4. waiting' \in [Requests -> {NoRequest}
                        \cup [key : Keys, actor : Actors, evaluation : Nat, claim : Nat]]
    BY <1>1, <2>3 DEF BeginDraft, IInv, TypeOK
  <2> QED BY <1>1, <2>1, <2>4, GoodStep DEF BeginDraft, IInv, TypeOK
<1>2. ASSUME NEW r \in Requests, FinishDraft(r) PROVE IInv' /\ Continues(log', log)
  <2>1. Good(log')
    BY <1>2, KeepsFinishDraft
  <2>2. waiting' \in [Requests -> {NoRequest}
                        \cup [key : Keys, actor : Actors, evaluation : Nat, claim : Nat]]
    BY <1>2 DEF FinishDraft, IInv, TypeOK
  <2> QED BY <1>2, <2>1, <2>2, GoodStep DEF FinishDraft, IInv, TypeOK
<1>3. ASSUME NEW r \in Requests, DropRequest(r) PROVE IInv' /\ Continues(log', log)
  <2>1. log' = log /\ Good(log)
    BY <1>3 DEF DropRequest, IInv, TypeOK, Good, Continues
  <2>2. waiting' \in [Requests -> {NoRequest}
                        \cup [key : Keys, actor : Actors, evaluation : Nat, claim : Nat]]
    BY <1>3 DEF DropRequest, IInv, TypeOK
  <2> QED BY <1>3, <2>1, <2>2, GoodStep DEF DropRequest, IInv, TypeOK
<1>4. ASSUME NEW v \in All({"DRAFT"}), NEW k \in Keys, NEW a \in Actors,
             NEW d \in Dispositions, Succeed(v, k, a, d)
      PROVE  IInv' /\ Continues(log', log)
  <2>1. Good(log')
    BY <1>4, KeepsSucceed
  <2> QED BY <1>4, <2>1, GoodStep DEF Succeed, IInv, TypeOK
<1>5. ASSUME NEW v \in All({"DRAFT"}), NEW k \in Keys, NEW a \in Actors, EditDraft(v, k, a)
      PROVE  IInv' /\ Continues(log', log)
  <2>1. log[v].disposition \in Dispositions
    BY ReadLog
  <2> QED BY <1>4, <1>5, <2>1 DEF EditDraft
<1>6. ASSUME NEW v \in All({"DRAFT"}), NEW k \in Keys, NEW a \in Actors, NEW d \in Intents,
             DisposeDraft(v, k, a, d)
      PROVE  IInv' /\ Continues(log', log)
  <2>1. d \in Dispositions
    BY AdviceAssumption DEF AdviceAssumption
  <2> QED BY <1>4, <1>6, <2>1 DEF DisposeDraft
<1> QED BY <1>1, <1>2, <1>3, <1>5, <1>6 DEF Drafting

LEMMA DecidingKeeps ==
    ASSUME IInv, Deciding, retired' \in BOOLEAN
    PROVE  IInv' /\ Continues(log', log)
<1>1. ASSUME NEW v \in All({"DRAFT"}), RecordApproval(v) PROVE IInv' /\ Continues(log', log)
  <2>1. Good(log')
    BY <1>1, KeepsApproval
  <2> QED BY <1>1, <2>1, GoodStep DEF RecordApproval, IInv, TypeOK
<1>2. ASSUME NEW v \in All({"DRAFT"}), RecordOther(v) PROVE IInv' /\ Continues(log', log)
  <2>1. Good(log')
    BY <1>2, KeepsOther
  <2> QED BY <1>2, <2>1, GoodStep DEF RecordOther, IInv, TypeOK
<1> QED BY <1>1, <1>2 DEF Deciding

\* The rows a lapsing call leaves behind are as good as any.
LEMMA LapsingKeeps ==
    ASSUME IInv, Lapsing
    PROVE  IInv' /\ Continues(log', log)
<1>1. ASSUME NEW written, Lapse(written), Good(log \o written),
             authority' \in {{}, Consumed} \cup Authorities
      PROVE  IInv' /\ Continues(log', log)
  <2>1. log' = log \o written /\ retired' = TRUE /\ UNCHANGED <<expired, waiting, changes>>
    BY <1>1 DEF Lapse, Write
  <2> QED BY <1>1, <2>1, GoodStep DEF IInv, TypeOK
<1>2. authority \in {{}, Consumed} \cup Authorities
  BY DEF IInv, TypeOK
<1>3. ASSUME NEW a \in Advices, LapsePermittedBrief(a) PROVE IInv' /\ Continues(log', log)
  <2>1. Good(log \o << Evaluation(a) >>)
    BY AdviceAssumption, EvaluationKeeps
  <2> QED BY <1>1, <1>3, <2>1 DEF LapsePermittedBrief
<1>4. CASE LapseDeniedBrief
  <2>1. Good(log \o WithdrawalByBrief)
    BY WithdrawalByBriefKeeps
  <2> QED BY <1>1, <1>2, <1>4, <2>1 DEF LapseDeniedBrief
<1>5. ASSUME NEW v \in All({"DRAFT"}), LapseApproval(v) PROVE IInv' /\ Continues(log', log)
  <2>1. Good(log \o CheckThen(Authorization(v), NoResult, <<>>))
    BY AuthorizationFresh, CheckAloneKeeps
  <2> QED BY <1>1, <1>2, <1>5, <2>1 DEF LapseApproval
<1>6. CASE LapseElsewhere
  <2>1. log \o <<>> = log /\ Good(log)
    BY ConcatEmptySeq DEF IInv, TypeOK, Good, Continues
  <2> QED BY <1>1, <1>2, <1>6, <2>1 DEF LapseElsewhere
<1> QED BY <1>3, <1>4, <1>5, <1>6 DEF Lapsing

LEMMA StepKeeps ==
    ASSUME IInv, [Next]_vars
    PROVE  IInv' /\ Continues(log', log)
<1>1. CASE Acting /\ UNCHANGED retired
  <2>1. retired' \in BOOLEAN
    BY <1>1 DEF IInv, TypeOK
  <2> QED BY <1>1, <2>1, PublishingKeeps, ConsumingKeeps, DraftingKeeps, DecidingKeeps
          DEF Acting
<1>3. CASE Lapsing
  BY <1>3, LapsingKeeps
<1>2. CASE UNCHANGED vars
  BY <1>2 DEF vars, IInv, TypeOK, Continues
<1> QED BY <1>1, <1>2, <1>3 DEF Next

\* Every step keeps the invariant, whatever the constants are.
THEOREM AdviceInvariant == Spec => []IInv
<1>1. Init => IInv
  BY InitIInv
<1>2. IInv /\ [Next]_vars => IInv'
  BY StepKeeps
<1> QED BY <1>1, <1>2, PTL DEF Spec

-----------------------------------------------------------------------------
(* What the invariant says of the properties the runs check.               *)

\* Every variable keeps its type, and every row of the log the form of its
\* kind: what the handlers of main.py write is what the readers expect.
THEOREM AdviceTyped == Spec => []TypeOK
<1>1. IInv => TypeOK
  BY DEF IInv
<1> QED BY <1>1, AdviceInvariant, PTL

\* Evaluations and invalidations form one chain, whoever installs them: the
\* compare-and-append of decision_support_heads.py, the invalidation of a
\* brief and the one of a failed check (decision_support_currentness.py).
THEOREM HeadsChained == Spec => []HeadsFormChain
<1>1. IInv => HeadsFormChain
  BY DEF IInv, LogInv, HeadsOK, HeadsFormChain, All, Of
<1> QED BY <1>1, AdviceInvariant, PTL

\* A claim right after the accepting check: two accepted selections of one
\* evaluation name the candidate of its one claim.
LEMMA OneCandidate ==
    ASSUME IInv, NEW i \in Of(log, {"CHECK"}), NEW j \in Of(log, {"CHECK"}),
           log[j].operation.evaluation = log[i].operation.evaluation,
           log[i].result.code \in Accepting, log[j].result.code \in Accepting
    PROVE  log[i].result.candidate = log[j].result.candidate
<1>1. /\ log \in Seq(Rows) /\ Len(log) \in Nat
      /\ \A k \in Of(log, {"CHECK"}) : k \in 1 .. Len(log) /\ log[k].kind = "CHECK"
  <2>1. log \in Seq(Rows) /\ Len(log) \in Nat
    BY ReadLog DEF IInv, TypeOK
  <2> QED BY <2>1, PositionsBounded DEF Of
<1>2. ASSUME NEW k \in Of(log, {"CHECK"}), log[k].result.code \in Accepting
      PROVE  \E c \in ClaimsFor(log, log[k].operation.evaluation) :
                 log[c].candidate = log[k].result.candidate
  <2>1. ~ (k = Len(log) /\ log[k].result.code = "ACCEPTED")
    BY <1>1 DEF IInv, Settled
  <2> QED BY <1>2, <2>1 DEF IInv, LogInv, ClaimsOK
<1>3. PICK c \in ClaimsFor(log, log[i].operation.evaluation) :
         log[c].candidate = log[i].result.candidate
  BY <1>2
<1>4. PICK d \in ClaimsFor(log, log[i].operation.evaluation) :
         log[d].candidate = log[j].result.candidate
  BY <1>2
<1>5. c = d
  BY DEF ClaimsFor, IInv, LogInv, ClaimsOK
<1> QED BY <1>3, <1>4, <1>5

\* Only the head is proven current, an operation key has one terminal answer,
\* and the accepted selections of one evaluation name one candidate
\* (_check_currentness_locked, _replay_terminal_locked and
\* _write_tradeoff_selection_result_locked).
THEOREM ChecksAnswered == Spec => []ChecksAnswerOnce
<1>1. ASSUME IInv PROVE ChecksAnswerOnce
  <2> SUFFICES ASSUME NEW i \in All({"CHECK"})
               PROVE  /\ log[i].outcome = "PROVEN" =>
                            HeadAt(log, i - 1) = log[i].operation.evaluation
                      /\ \A j \in All({"CHECK"}) :
                           /\ log[j].operation = log[i].operation => j = i
                           /\ log[j].operation.evaluation = log[i].operation.evaluation
                                /\ {log[i].result.code, log[j].result.code} \subseteq Accepting
                              => log[i].result.candidate = log[j].result.candidate
    BY DEF ChecksAnswerOnce, Accepting
  <2>1. i \in Of(log, {"CHECK"}) /\ All({"CHECK"}) = Of(log, {"CHECK"})
    BY DEF All, Of
  <2>2. /\ log[i].outcome = "PROVEN" => HeadAt(log, i - 1) = log[i].operation.evaluation
        /\ \A j \in Of(log, {"CHECK"}) : log[j].operation = log[i].operation => j = i
    BY <1>1, <2>1 DEF IInv, LogInv, ChecksOK
  <2>3. ASSUME NEW j \in Of(log, {"CHECK"}),
               log[j].operation.evaluation = log[i].operation.evaluation,
               {log[i].result.code, log[j].result.code} \subseteq Accepting
        PROVE  log[i].result.candidate = log[j].result.candidate
    BY <1>1, <2>1, <2>3, OneCandidate
  <2> QED BY <2>1, <2>2, <2>3
<1> QED BY <1>1, AdviceInvariant, PTL

\* The versions of a draft are numbered without a gap and each follows the
\* one before; one idempotency key stands for one version (drafts.py).
THEOREM DraftsChained == Spec => []DraftsFormChains
<1>1. IInv => DraftsFormChains
  BY DEF IInv, LogInv, DraftsOK, DraftsFormChains, All, Of
<1> QED BY <1>1, AdviceInvariant, PTL

\* An observation that is matched was made known before any approved trigger
\* named the recommended one as its predecessor.
LEMMA MatchedInTime ==
    ASSUME NEW o, Matchable(o), NEW t \in Candidates0,
           t.predecessor = RecommendedTrigger, t.ref # RecommendedTrigger
    PROVE  ~ PublishedBy(t, o.available)
<1> SUFFICES ASSUME PublishedBy(t, o.available) PROVE FALSE
  OBVIOUS
<1>1. /\ Cardinality(ApplicableCandidates(o.available)) = 1
      /\ \A s \in ApplicableCandidates(o.available) : s.ref = RecommendedTrigger
  BY DEF Matchable, UniqueTrigger
<1>2. PICK s \in ApplicableCandidates(o.available) : TRUE
  BY <1>1, FS_EmptySet
<1>3. s.ref = RecommendedTrigger /\ ~ Superseded(s, o.available)
  BY <1>1 DEF ApplicableCandidates
<1>4. t \in Candidates0 \ {s} /\ t.predecessor = s.ref
  BY <1>3
<1>5. Superseded(s, o.available)
  BY <1>4 DEF Superseded
<1> QED BY <1>3, <1>5

\* An approval, an accepted selection and a monitoring match rest on a proof
\* of the evaluation that is the head, unexpired and, for a match, not yet
\* replaced (record_manager_decision, accept_tradeoff_selection and
\* match_monitoring_observation).
THEOREM ActsAreCurrent == Spec => []ActedWhileCurrent
<1>1. ASSUME IInv PROVE ActedWhileCurrent
  <2>1. ActedOK(log, expired)
    BY <1>1 DEF IInv, LogInv
  <2>2. \A kinds : All(kinds) = Of(log, kinds)
    BY DEF All, Of
  <2>3. \A i \in All({"DECISION_SNAPSHOT"}) :
          log[i].disposition = "APPROVE_INTENT" =>
            /\ HeadAt(log, i) = log[i].evaluation
            /\ \A x \in expired : x[1] = log[i].evaluation => i <= x[2]
            /\ log[i].head = Max(Versions(log, log[i].draft, i))
            /\ log[i].actor = log[log[i].head].actor
    BY <2>1, <2>2 DEF ActedOK
  <2>4. /\ \A i \in All({"SELECTION_CLAIM"}) : HeadAt(log, i) = log[i].evaluation
        /\ \A i \in All({"MATCH"}) : HeadAt(log, i) = log[i].evaluation
    BY <2>1, <2>2 DEF ActedOK
  <2>5. All({"SELECTION_CLAIM", "MATCH"}) = All({"SELECTION_CLAIM"}) \cup All({"MATCH"})
    BY DEF All, Positions
  <2>6. \A i \in All({"SELECTION_CLAIM"}) :
           \A x \in expired : x[1] = log[i].evaluation => i <= x[2]
    BY <2>1, <2>2 DEF ActedOK
  <2>7. ASSUME NEW i \in All({"MATCH"}), NEW o \in Observations, NEW t \in Registry,
               o.ref = log[i].observation, t \in Candidates0,
               t.predecessor = RecommendedTrigger, t.ref # RecommendedTrigger
        PROVE  ~ PublishedBy(t, o.available)
    <3>1. PICK p \in Observations : Matchable(p) /\ p.ref = log[i].observation
      BY <2>1, <2>2 DEF ActedOK
    <3>2. p = o
      BY <2>7, <3>1, AdviceAssumption DEF AdviceAssumption
    <3> QED BY <2>7, <3>1, <3>2, MatchedInTime
  <2> QED BY <2>3, <2>4, <2>5, <2>6, <2>7 DEF ActedWhileCurrent
<1> QED BY <1>1, AdviceInvariant, PTL

\* What the historical replay (project_historical_replay) shows at a cutoff
\* is what it shows at that cutoff for ever, whatever the handlers do next.
THEOREM ReplayStable == Spec => ReplayIsStable
<1>1. ASSUME IInv, [Next]_vars
      PROVE  \A c \in 1 .. Len(log) : Replay(log', c) = Replay(log, c)
  <2>1. IInv' /\ Continues(log', log)
    BY <1>1, StepKeeps
  <2>2. log \in Seq(Rows) /\ log' \in Seq(Rows) /\ Len(log) \in Nat
    BY <1>1, <2>1, ReadLog DEF IInv, TypeOK
  <2>3. LooksBack(log)
    <3> SUFFICES ASSUME NEW e \in Of(log, {"EVALUATION"})
                 PROVE  log[e].predecessor \in 0 .. (e - 1)
      BY DEF LooksBack, Of
    <3>1. e \in Of(log, HeadKinds) /\ e \in 1 .. Len(log)
      BY <2>2, PositionsBounded DEF Of, Positions, HeadKinds
    <3>2. log[e].predecessor = HeadAt(log, e - 1)
      BY <1>1, <3>1 DEF IInv, LogInv, HeadsOK
    <3>3. e - 1 \in Nat
      BY <2>2, <3>1
    <3> QED BY <2>2, <3>2, <3>3, HeadBounded
  <2> SUFFICES ASSUME NEW c \in 1 .. Len(log) PROVE Replay(log', c) = Replay(log, c)
    OBVIOUS
  <2>4. c \in Nat /\ c <= Len(log)
    BY <2>2
  <2> QED BY <2>1, <2>2, <2>3, <2>4, ReplayKept
<1>2. IInv /\ [Next]_vars => [\A c \in 1 .. Len(log) : Replay(log', c) = Replay(log, c)]_log
  BY <1>1
<1> QED BY <1>2, AdviceInvariant, PTL DEF Spec, ReplayIsStable
=============================================================================
