-------------------------- MODULE FreshAnalysis_proofs --------------------------
(***************************************************************************)
(* The analysis and the record it reads, for every set of groups, every    *)
(* number of departures and every set of adapter results.  What an         *)
(* analysis seals is a function of its request, its stage and its checks;  *)
(* the invariant says that every sealed result is that value and that a    *)
(* reproduction agrees with its target in all three.  The checks are       *)
(* compared one by one: a worse check never makes the diagnostics milder,  *)
(* save that an opposite interval excuses opposed comparisons, and then    *)
(* too little evidence is left for an effect.  The record keeps its facts  *)
(* in the order they became known, so what a reading sees is a prefix that *)
(* later facts do not touch.                                               *)
(*                                                                         *)
(* The batteries of checks within a number of departures are a recursive   *)
(* function of that number; its type follows from the least number at      *)
(* which it could fail.                                                    *)
(***************************************************************************)
EXTENDS FreshAnalysis, WellFoundedInduction, FiniteSetTheorems,
        SequenceTheorems, TLAPS

-----------------------------------------------------------------------------
(* The batteries within some departures of a course.                       *)

\* A set of naturals that is not empty has a least member.
LEMMA LeastNatural ==
    ASSUME NEW S \in SUBSET Nat, S # {}
    PROVE  \E x \in S : \A y \in S : x <= y
<1> DEFINE R == OpToRel(<, Nat)
<1>1. IsWellFoundedOn(R, Nat)
  BY NatLessThanWellFounded
<1>2. PICK x \in S : \A y \in S : <<y, x>> \notin R
  BY <1>1, WFMin
<1>3. \A y \in S : y < x => <<y, x>> \in R
  BY DEF OpToRel
<1>4. ASSUME NEW y \in S PROVE x <= y
  <2>1. ~ (y < x)
    BY <1>2, <1>3
  <2>2. x \in Nat /\ y \in Nat
    OBVIOUS
  <2> HIDE DEF R
  <2> QED BY <2>1, <2>2
<1> QED BY <1>4

Unfolds(f, course, n) ==
    f = [k \in 0..n |-> IF k = 0 THEN {course} ELSE OneChanged(f[k - 1])]

LEMMA UnfoldingExists ==
    ASSUME NEW course, NEW n \in Nat
    PROVE  \E f : Unfolds(f, course, n)
<1> DEFINE T == {m \in Nat : ~ \E f : Unfolds(f, course, m)}
<1>1. SUFFICES ASSUME T # {} PROVE FALSE
  OBVIOUS
<1>2. PICK m \in T : \A k \in T : m <= k
  BY <1>1, LeastNatural
<1>3. m # 0
  <2> DEFINE g == [k \in 0..0 |-> {course}]
  <2>1. g = [k \in 0..0 |-> IF k = 0 THEN {course} ELSE OneChanged(g[k - 1])]
    OBVIOUS
  <2>2. Unfolds(g, course, 0)
    BY <2>1 DEF Unfolds
  <2> QED BY <2>2
<1>4. m - 1 \in Nat /\ m - 1 \notin T
  BY <1>2, <1>3
<1>5. PICK f : Unfolds(f, course, m - 1)
  BY <1>4
<1> DEFINE g == [k \in 0..m |-> IF k = m THEN OneChanged(f[m - 1]) ELSE f[k]]
<1>6. ASSUME NEW k \in 0..m
      PROVE  g[k] = IF k = 0 THEN {course} ELSE OneChanged(g[k - 1])
  <2>1. CASE k = m
    <3>1. g[k] = OneChanged(f[m - 1]) /\ g[k - 1] = f[m - 1]
      BY <2>1, <1>3
    <3> QED BY <3>1, <2>1, <1>3
  <2>2. CASE k # m
    <3>1. k \in 0..(m - 1) /\ g[k] = f[k]
      BY <2>2
    <3>2. k # 0 => g[k - 1] = f[k - 1]
      BY <2>2
    <3> QED BY <3>1, <3>2, <1>5 DEF Unfolds
  <2> QED BY <2>1, <2>2
<1>7. Unfolds(g, course, m)
  <2> HIDE DEF g
  <2>1. g = [k \in 0..m |-> g[k]]
    BY DEF g
  <2> QED BY <2>1, <1>6 DEF Unfolds
<1> QED BY <1>2, <1>7

LEMMA BatteriesUnfold ==
    ASSUME NEW course, NEW n \in Nat
    PROVE  \E f : Unfolds(f, course, n) /\ Batteries(course, n) = f[n]
<1> DEFINE w == CHOOSE f : Unfolds(f, course, n)
<1>1. Unfolds(w, course, n)
  BY UnfoldingExists
<1>2. Batteries(course, n) = w[n]
  BY DEF Batteries, Unfolds
<1> QED BY <1>1, <1>2

\* Every check has come out in a way it can.
Course(b) == b = [c \in Checks |-> b[c]] /\ \A c \in Checks : b[c] \in CheckOutcomes(c)

\* However many checks depart, they come out in ways they can.
LEMMA BatteriesAreCourses ==
    ASSUME NEW course, Course(course), NEW n \in Nat, NEW b \in Batteries(course, n)
    PROVE  Course(b)
<1>1. PICK f : Unfolds(f, course, n) /\ Batteries(course, n) = f[n]
  BY BatteriesUnfold
<1> DEFINE T == {k \in 0..n : ~ \A x \in f[k] : Course(x)}
<1>2. T = {}
  <2>1. SUFFICES ASSUME T # {} PROVE FALSE
    OBVIOUS
  <2>2. PICK k \in T : \A j \in T : k <= j
    <3>1. T \in SUBSET Nat
      OBVIOUS
    <3> HIDE DEF T
    <3> QED BY <2>1, <3>1, LeastNatural
  <2>3. k # 0
    <3>1. f[0] = {course}
      BY <1>1 DEF Unfolds
    <3> QED BY <3>1
  <2>4. k - 1 \in 0..n /\ k - 1 \notin T
    BY <2>2, <2>3
  <2>5. f[k] = OneChanged(f[k - 1])
    BY <1>1, <2>3 DEF Unfolds
  <2>6. PICK x \in f[k] : ~ Course(x)
    OBVIOUS
  <2>7. PICK a \in f[k - 1], c \in Checks : \E y \in CheckOutcomes(c) : x = [a EXCEPT ![c] = y]
    BY <2>5, <2>6 DEF OneChanged
  <2>8. PICK y \in CheckOutcomes(c) : x = [a EXCEPT ![c] = y]
    BY <2>7
  <2>9. Course(a)
    BY <2>4
  <2>10. Course(x)
    BY <2>8, <2>9 DEF Course
  <2> QED BY <2>6, <2>10
<1>3. \A x \in f[n] : Course(x)
  BY <1>2
<1> QED BY <1>1, <1>3

-----------------------------------------------------------------------------
(* How checks come out.                                                    *)

LEMMA Ladders ==
    /\ Ladder("interval") = <<"above", "includes_null", "opposite">>
    /\ Ladder("balance") = <<"balanced", "unbalanced">>
    /\ \A c \in Refuters \cup {"control"} : Ladder(c) = <<"passed", "unsupported", "failed">>
    /\ \A c \in Specifications \cup {"repeats"} : Ladder(c) = <<"positive", "divergent", "reversed">>
    /\ \A c \in Forms : Ladder(c) = <<"positive", "includes_null", "reversed">>
    /\ Ladder("comparisons") = <<"positive", "mixed", "opposed">>
    /\ \A c \in Groups : Ladder(c) = <<"positive", "nonpositive">>
<1> USE GroupsAssumption DEF Ladder, NamedChecks, Refuters, Specifications, Forms
<1>1. Ladder("interval") = <<"above", "includes_null", "opposite">>
  OBVIOUS
<1>2. Ladder("balance") = <<"balanced", "unbalanced">>
  OBVIOUS
<1>3. \A c \in Refuters \cup {"control"} : Ladder(c) = <<"passed", "unsupported", "failed">>
  OBVIOUS
<1>4. \A c \in Specifications \cup {"repeats"} : Ladder(c) = <<"positive", "divergent", "reversed">>
  OBVIOUS
<1>5. \A c \in Forms : Ladder(c) = <<"positive", "includes_null", "reversed">>
  OBVIOUS
<1>6. Ladder("comparisons") = <<"positive", "mixed", "opposed">>
  OBVIOUS
<1>7. \A c \in Groups : Ladder(c) = <<"positive", "nonpositive">>
  OBVIOUS
<1> QED BY <1>1, <1>2, <1>3, <1>4, <1>5, <1>6, <1>7

\* Of three rungs, the worse one has the greater rank.
LEMMA ThreeRungs ==
    ASSUME NEW c, NEW x, NEW y, NEW z, x # y, y # z, x # z, Ladder(c) = <<x, y, z>>
    PROVE  /\ Outcomes(c) = {x, y, z}
           /\ Rank(c, x) = 1 /\ Rank(c, y) = 2 /\ Rank(c, z) = 3
<1>1. DOMAIN Ladder(c) = 1..3 /\ Ladder(c)[1] = x /\ Ladder(c)[2] = y /\ Ladder(c)[3] = z
  OBVIOUS
<1>2. 1..3 = {1, 2, 3}
  OBVIOUS
<1> QED BY <1>1, <1>2 DEF Rank, Outcomes

LEMMA TwoRungs ==
    ASSUME NEW c, NEW x, NEW y, x # y, Ladder(c) = <<x, y>>
    PROVE  Outcomes(c) = {x, y} /\ Rank(c, x) = 1 /\ Rank(c, y) = 2
<1>1. DOMAIN Ladder(c) = 1..2 /\ Ladder(c)[1] = x /\ Ladder(c)[2] = y
  OBVIOUS
<1>2. 1..2 = {1, 2}
  OBVIOUS
<1> QED BY <1>1, <1>2 DEF Rank, Outcomes

LEMMA Rungs ==
    /\ Outcomes("interval") = {"above", "includes_null", "opposite"}
    /\ Rank("interval", "above") = 1 /\ Rank("interval", "includes_null") = 2
    /\ Rank("interval", "opposite") = 3
    /\ Outcomes("balance") = {"balanced", "unbalanced"}
    /\ Rank("balance", "balanced") = 1 /\ Rank("balance", "unbalanced") = 2
    /\ \A c \in Refuters \cup {"control"} :
          /\ Outcomes(c) = {"passed", "unsupported", "failed"}
          /\ Rank(c, "passed") = 1 /\ Rank(c, "unsupported") = 2 /\ Rank(c, "failed") = 3
    /\ \A c \in Specifications \cup {"repeats"} :
          /\ Outcomes(c) = {"positive", "divergent", "reversed"}
          /\ Rank(c, "positive") = 1 /\ Rank(c, "divergent") = 2 /\ Rank(c, "reversed") = 3
    /\ \A c \in Forms :
          /\ Outcomes(c) = {"positive", "includes_null", "reversed"}
          /\ Rank(c, "positive") = 1 /\ Rank(c, "includes_null") = 2 /\ Rank(c, "reversed") = 3
    /\ Outcomes("comparisons") = {"positive", "mixed", "opposed"}
    /\ Rank("comparisons", "positive") = 1 /\ Rank("comparisons", "mixed") = 2
    /\ Rank("comparisons", "opposed") = 3
    /\ \A c \in Groups :
          /\ Outcomes(c) = {"positive", "nonpositive"}
          /\ Rank(c, "positive") = 1 /\ Rank(c, "nonpositive") = 2
<1>1. \A c, x, y, z : x # y /\ y # z /\ x # z /\ Ladder(c) = <<x, y, z>> =>
         Outcomes(c) = {x, y, z} /\ Rank(c, x) = 1 /\ Rank(c, y) = 2 /\ Rank(c, z) = 3
  BY ThreeRungs
<1>2. \A c, x, y : x # y /\ Ladder(c) = <<x, y>> =>
         Outcomes(c) = {x, y} /\ Rank(c, x) = 1 /\ Rank(c, y) = 2
  BY TwoRungs
<1>3. /\ Outcomes("interval") = {"above", "includes_null", "opposite"}
      /\ Rank("interval", "above") = 1 /\ Rank("interval", "includes_null") = 2
      /\ Rank("interval", "opposite") = 3
  BY <1>1, Ladders
<1>4. /\ Outcomes("balance") = {"balanced", "unbalanced"}
      /\ Rank("balance", "balanced") = 1 /\ Rank("balance", "unbalanced") = 2
  BY <1>2, Ladders
<1>5. ASSUME NEW c \in Refuters \cup {"control"}
      PROVE  /\ Outcomes(c) = {"passed", "unsupported", "failed"}
             /\ Rank(c, "passed") = 1 /\ Rank(c, "unsupported") = 2 /\ Rank(c, "failed") = 3
  <2>1. Ladder(c) = <<"passed", "unsupported", "failed">>
    BY Ladders
  <2> QED BY <2>1, ThreeRungs
<1>6. ASSUME NEW c \in Specifications \cup {"repeats"}
      PROVE  /\ Outcomes(c) = {"positive", "divergent", "reversed"}
             /\ Rank(c, "positive") = 1 /\ Rank(c, "divergent") = 2 /\ Rank(c, "reversed") = 3
  <2>1. Ladder(c) = <<"positive", "divergent", "reversed">>
    BY Ladders
  <2> QED BY <2>1, ThreeRungs
<1>7. ASSUME NEW c \in Forms
      PROVE  /\ Outcomes(c) = {"positive", "includes_null", "reversed"}
             /\ Rank(c, "positive") = 1 /\ Rank(c, "includes_null") = 2 /\ Rank(c, "reversed") = 3
  <2>1. Ladder(c) = <<"positive", "includes_null", "reversed">>
    BY Ladders
  <2> QED BY <2>1, ThreeRungs
<1>8. /\ Outcomes("comparisons") = {"positive", "mixed", "opposed"}
      /\ Rank("comparisons", "positive") = 1 /\ Rank("comparisons", "mixed") = 2
      /\ Rank("comparisons", "opposed") = 3
  BY <1>1, Ladders
<1>9. ASSUME NEW c \in Groups
      PROVE  /\ Outcomes(c) = {"positive", "nonpositive"}
             /\ Rank(c, "positive") = 1 /\ Rank(c, "nonpositive") = 2
  <2>1. Ladder(c) = <<"positive", "nonpositive">>
    BY Ladders
  <2> QED BY <2>1, TwoRungs
<1> QED BY <1>3, <1>4, <1>5, <1>6, <1>7, <1>8, <1>9

LEMMA EveryCheckHasOutcomes == \A c \in Checks : CheckOutcomes(c) # {}
<1> SUFFICES ASSUME NEW c \in Checks PROVE CheckOutcomes(c) # {}
  OBVIOUS
<1>1. CASE c \in Refuters \cup {"control"}
  BY <1>1, AdapterAssumption DEF CheckOutcomes
<1>2. CASE c \notin Refuters \cup {"control"}
  <2>1. CheckOutcomes(c) = Outcomes(c)
    BY <1>2 DEF CheckOutcomes
  <2>2. c \in {"interval", "balance", "comparisons"} \cup Specifications \cup {"repeats"}
             \cup Forms \cup Groups
    BY <1>2 DEF Checks, NamedChecks
  <2> QED BY <2>1, <2>2, Rungs
<1> QED BY <1>1, <1>2

LEMMA BestIsACourse == Course(BestChecks)
BY EveryCheckHasOutcomes DEF Course, BestChecks
-----------------------------------------------------------------------------
(* The inductive invariant.                                                *)

\* What finalization seals is a function of the request, of the stage and of
\* the checks: these are its parts with the three as parameters.
StatusOf(st) ==
    IF st["primary"] = "failed" THEN "failed"
    ELSE IF st["primary"] \notin {"supported", "trimmed"} THEN "abstained"
    ELSE IF \E v \in Specifications : st[v] = "failed" THEN "failed"
    ELSE "estimated"

OutcomeOf(req, st) ==
    [status      |-> StatusOf(st),
     code        |-> IF req.bundles["primary"] = "unavailable" THEN req.code
                     ELSE "OVERLAP_COHORT_INSUFFICIENT",
     released    |-> req.bundles["primary"] # "unavailable",
     unsupported |-> {v \in Specifications : st[v] \notin {"supported", "trimmed"}}
                        \cup IF req.late THEN {} ELSE {"late_risk"}]

SealedOf(req, st, b) ==
    LET o == OutcomeOf(req, st)
        verdict == EvidenceVerdict(o, Diagnose(o, b))
    IN  [status    |-> o.status,
         verdict   |-> verdict,
         subject   |-> SubjectVerdict(verdict, req.role, FALSE),
         permitted |-> o.status = "estimated" /\ DecisionSupportPermitted(verdict, req.role),
         shown     |-> ShownParts(o, verdict)]

LEMMA OutcomeIsOfState == Outcome = OutcomeOf(request, stage)
BY DEF Outcome, OutcomeOf, EngineStatus, StatusOf, Overlaps

LEMMA ResultIsOfState == ASSUME NEW b PROVE ResultOf(b) = SealedOf(request, stage, b)
<1>1. EngineStatus = Outcome.status
  BY DEF Outcome
<1> QED BY <1>1, OutcomeIsOfState DEF ResultOf, SealedOf

\* Departures are counted, and checks have come out in a way they can.
Counted == departures \in 0..MaxDepartures /\ Course(checks)

\* What is sealed is what these checks say, and was finalizable.
SealedIsDerived == phase = "sealed" => result = ResultOf(checks) /\ Finalizable(checks)

\* The run to reproduce was sealed with what its request, stage and checks say.
TargetIsDerived ==
    Reproduction =>
        /\ target.result = SealedOf(target.request, target.stage, target.checks)
        /\ Course(target.checks)

\* A sealed reproduction agrees with the run it names in all three.
AgreesWithTarget ==
    phase = "sealed" /\ Reproduction =>
        request = target.request /\ stage = target.stage /\ checks = target.checks

IInv == Counted /\ SealedIsDerived /\ TargetIsDerived /\ AgreesWithTarget

LEMMA ChecksAreFinite == IsFiniteSet(Checks)
<1>1. IsFiniteSet(NamedChecks)
  <2>1. NamedChecks = {"interval", "balance", "control", "comparisons", "repeats", "PLACEBO",
                       "DUMMY_OUTCOME", "RANDOM_COMMON_CAUSE", "DATA_SUBSET",
                       "stricter_threshold", "short_history", "long_history",
                       "continuous_load", "late_risk"}
    BY DEF NamedChecks, Refuters, Specifications, Forms
  <2>2. \A x, S : IsFiniteSet(S) => IsFiniteSet(S \cup {x})
    BY FS_AddElement
  <2>3. IsFiniteSet({})
    BY FS_EmptySet
  <2>4. IsFiniteSet({"interval"})
    <3>1. {"interval"} = {} \cup {"interval"}
      OBVIOUS
    <3> QED BY <2>2, <2>3, <3>1
  <2>5. IsFiniteSet({"interval"} \cup {"balance"} \cup {"control"} \cup {"comparisons"}
                    \cup {"repeats"})
    BY <2>2, <2>4
  <2>6. IsFiniteSet({"interval"} \cup {"balance"} \cup {"control"} \cup {"comparisons"}
                    \cup {"repeats"} \cup {"PLACEBO"} \cup {"DUMMY_OUTCOME"}
                    \cup {"RANDOM_COMMON_CAUSE"} \cup {"DATA_SUBSET"})
    BY <2>2, <2>5
  <2>7. IsFiniteSet({"interval"} \cup {"balance"} \cup {"control"} \cup {"comparisons"}
                    \cup {"repeats"} \cup {"PLACEBO"} \cup {"DUMMY_OUTCOME"}
                    \cup {"RANDOM_COMMON_CAUSE"} \cup {"DATA_SUBSET"}
                    \cup {"stricter_threshold"} \cup {"short_history"} \cup {"long_history"}
                    \cup {"continuous_load"} \cup {"late_risk"})
    BY <2>2, <2>6
  <2>8. NamedChecks = {"interval"} \cup {"balance"} \cup {"control"} \cup {"comparisons"}
                    \cup {"repeats"} \cup {"PLACEBO"} \cup {"DUMMY_OUTCOME"}
                    \cup {"RANDOM_COMMON_CAUSE"} \cup {"DATA_SUBSET"}
                    \cup {"stricter_threshold"} \cup {"short_history"} \cup {"long_history"}
                    \cup {"continuous_load"} \cup {"late_risk"}
    BY <2>1
  <2> QED BY <2>7, <2>8
<1> QED BY <1>1, FS_Union, GroupsAssumption DEF Checks

LEMMA DifferencesAreCounted ==
    ASSUME NEW f, NEW g, IsFiniteSet(DOMAIN f)
    PROVE  Differences(f, g) \in Nat
<1>1. IsFiniteSet({x \in DOMAIN f : f[x] # g[x]})
  BY FS_Subset
<1> QED BY <1>1, FS_CardinalityType DEF Differences

LEMMA DepartureIsCounted ==
    ASSUME NEW f, NEW g, IsFiniteSet(DOMAIN f), Counted, Depart(Differences(f, g))
    PROVE  departures' \in 0..MaxDepartures
BY DifferencesAreCounted, DeparturesAssumption DEF Counted, Depart

LEMMA ChecksMadeAreCourses ==
    ASSUME IInv, NEW b \in ChecksMade
    PROVE  Course(b)
<1>1. CASE EngineStatus = "abstained"
  BY <1>1, BestIsACourse DEF ChecksMade
<1>2. CASE EngineStatus # "abstained"
  <2>1. MaxDepartures - departures \in Nat
    BY DeparturesAssumption DEF IInv, Counted
  <2>2. CASE Reproduction
    <3>1. b \in Batteries(target.checks, MaxDepartures - departures) /\ Course(target.checks)
      BY <1>2, <2>2 DEF ChecksMade, IInv, TargetIsDerived
    <3> QED BY <3>1, <2>1, BatteriesAreCourses
  <2>3. CASE ~ Reproduction
    <3>1. b \in Batteries(BestChecks, MaxDepartures - departures)
      BY <1>2, <2>3 DEF ChecksMade
    <3> QED BY <3>1, <2>1, BatteriesAreCourses, BestIsACourse
  <2> QED BY <2>2, <2>3
<1> QED BY <1>1, <1>2

LEMMA InitInvariant == Init => IInv
<1> SUFFICES ASSUME Init PROVE IInv
  OBVIOUS
<1>1. phase = "recording" /\ departures = 0 /\ checks = BestChecks /\ ~ Reproduction
  BY DEF Init, Reproduction
<1>2. Counted
  BY <1>1, BestIsACourse, DeparturesAssumption DEF Counted
<1> QED BY <1>1, <1>2 DEF IInv, SealedIsDerived, TargetIsDerived, AgreesWithTarget

\* A step that seals nothing and names no run keeps the invariant if it keeps
\* count and checks.
LEMMA UnsealedStep ==
    ASSUME IInv, phase' # "sealed", Course(checks'), departures' \in 0..MaxDepartures,
           target' = target
    PROVE  IInv'
BY DEF IInv, Counted, SealedIsDerived, TargetIsDerived, AgreesWithTarget, Reproduction

LEMMA FinalizeStep ==
    ASSUME IInv, NEW b \in ChecksMade, Finalize(b)
    PROVE  IInv'
<1>1. /\ Finalizable(b) /\ Reproduced(b) /\ checks' = b /\ result' = ResultOf(b)
      /\ phase' = "sealed" /\ request' = request /\ stage' = stage /\ target' = target
  BY DEF Finalize
<1>2. Course(b)
  BY ChecksMadeAreCourses
<1>3. Counted'
  <2>1. departures' \in 0..MaxDepartures
    <3>1. \E g : Depart(Differences(b, g))
      BY DEF Finalize
    <3>2. DOMAIN b = Checks
      BY <1>2 DEF Course
    <3> QED BY <3>1, <3>2, ChecksAreFinite, DepartureIsCounted DEF IInv
  <2> QED BY <2>1, <1>1, <1>2 DEF Counted
<1>4. Outcome' = Outcome /\ EngineStatus' = EngineStatus
  BY <1>1 DEF Outcome, EngineStatus, Overlaps
<1>5. SealedIsDerived'
  <2>1. ResultOf(b)' = ResultOf(b)
    BY <1>1, <1>4 DEF ResultOf
  <2>2. Finalizable(b)' = Finalizable(b)
    BY <1>1, <1>4 DEF Finalizable
  <2>3. result' = ResultOf(checks)' /\ Finalizable(checks)'
    BY <2>1, <2>2, <1>1
  <2> QED BY <2>3 DEF SealedIsDerived
<1>6. TargetIsDerived'
  BY <1>1 DEF IInv, TargetIsDerived, Reproduction
<1>7. AgreesWithTarget'
  BY <1>1 DEF AgreesWithTarget, Reproduced, Repeats, Reproduction
<1> QED BY <1>3, <1>5, <1>6, <1>7 DEF IInv

LEMMA ReproduceStep ==
    ASSUME IInv, Reproduce
    PROVE  IInv'
<1>1. /\ phase = "sealed" /\ phase' = "admitted" /\ checks' = BestChecks
      /\ departures' = departures
      /\ target' = [request |-> request, stage |-> stage, checks |-> checks,
                    result |-> result, readable |-> TRUE]
  BY DEF Reproduce
<1>2. TargetIsDerived'
  <2>1. result = SealedOf(request, stage, checks) /\ Course(checks)
    BY <1>1, ResultIsOfState DEF IInv, SealedIsDerived, Counted
  <2>2. /\ target'.result = SealedOf(target'.request, target'.stage, target'.checks)
        /\ Course(target'.checks)
    BY <1>1, <2>1
  <2> QED BY <2>2 DEF TargetIsDerived
<1> QED BY <1>1, <1>2, BestIsACourse DEF IInv, Counted, SealedIsDerived, AgreesWithTarget

LEMMA NextInvariant == IInv /\ [Next]_vars => IInv'
<1> SUFFICES ASSUME IInv, [Next]_vars PROVE IInv'
  OBVIOUS
<1>0. departures \in 0..MaxDepartures /\ Course(checks)
  BY DEF IInv, Counted
<1>1. CASE Grow
  <2>1. phase' # "sealed" /\ checks' = checks /\ departures' = departures /\ target' = target
    BY <1>1 DEF Grow, analysisVars
  <2> QED BY <2>1, <1>0, UnsealedStep
<1>2. ASSUME NEW role \in AnalysedRoles, NEW subject \in {0} \cup DOMAIN lines,
             Admit(role, subject)
      PROVE  IInv'
  <2>1. phase' # "sealed" /\ checks' = checks /\ departures' = departures /\ target' = target
    BY <1>2 DEF Admit
  <2> QED BY <2>1, <1>0, UnsealedStep
<1>3. CASE Materialize
  <2>1. phase' = "staged" /\ checks' = checks /\ target' = target
    BY <1>3 DEF Materialize
  <2>2. \E g : Depart(Differences(stage', g)) /\ DOMAIN stage' = Variants
    BY <1>3 DEF Materialize
  <2>3. IsFiniteSet(Variants)
    <3>1. \A x, S : IsFiniteSet(S) => IsFiniteSet(S \cup {x})
      BY FS_AddElement
    <3>2. Variants = {} \cup {"primary"} \cup {"stricter_threshold"} \cup {"short_history"}
                     \cup {"long_history"}
      BY DEF Variants
    <3> QED BY <3>1, <3>2, FS_EmptySet
  <2>4. departures' \in 0..MaxDepartures
    BY <2>2, <2>3, DepartureIsCounted DEF IInv
  <2> QED BY <2>1, <2>4, <1>0, UnsealedStep
<1>4. CASE Estimate
  BY <1>4, <1>0, UnsealedStep DEF Estimate
<1>5. CASE EngineFails
  BY <1>5, <1>0, UnsealedStep DEF EngineFails, Fail
<1>6. ASSUME NEW b \in ChecksMade, Finalize(b)
      PROVE  IInv'
  BY <1>6, FinalizeStep
<1>7. ASSUME NEW b \in ChecksMade, FinalizationFails(b)
      PROVE  IInv'
  BY <1>7, <1>0, UnsealedStep DEF FinalizationFails, Fail
<1>8. CASE Reproduce
  BY <1>8, ReproduceStep
<1>9. CASE LoseTarget
  <2>1. /\ phase' # "sealed" /\ checks' = checks /\ departures' = departures
        /\ target' = [target EXCEPT !.readable = FALSE] /\ Reproduction
    BY <1>9 DEF LoseTarget
  <2>2. /\ target'.result = target.result /\ target'.request = target.request
        /\ target'.stage = target.stage /\ target'.checks = target.checks
    BY <2>1
  <2>3. TargetIsDerived'
    BY <2>1, <2>2 DEF IInv, TargetIsDerived
  <2> QED BY <2>1, <2>3, <1>0 DEF IInv, Counted, SealedIsDerived, AgreesWithTarget
<1>10. CASE UNCHANGED vars
  <2>1. UNCHANGED <<phase, request, stage, checks, result, target, departures>>
    BY <1>10 DEF vars, analysisVars
  <2>2. Outcome' = Outcome /\ EngineStatus' = EngineStatus
    BY <2>1 DEF Outcome, EngineStatus, Overlaps
  <2>3. ResultOf(checks)' = ResultOf(checks) /\ Finalizable(checks)' = Finalizable(checks)
    BY <2>1, <2>2 DEF ResultOf, Finalizable
  <2>4. SealedIsDerived'
    BY <2>1, <2>3 DEF IInv, SealedIsDerived
  <2>5. Counted' /\ TargetIsDerived' /\ AgreesWithTarget'
    BY <2>1 DEF IInv, Counted, TargetIsDerived, AgreesWithTarget, Reproduction
  <2> QED BY <2>4, <2>5 DEF IInv
<1> QED BY <1>1, <1>2, <1>3, <1>4, <1>5, <1>6, <1>7, <1>8, <1>9, <1>10 DEF Next

\* What is sealed is what its request, stage and checks say, and a
\* reproduction is sealed with those of the run that it names.
THEOREM AnalysisInvariant == Spec => []IInv
BY InitInvariant, NextInvariant, PTL DEF Spec

\* A sealed reproduction repeats the verdict of the run it names, and shows
\* what that run showed (finalize_fresh_analysis and
\* compare_reproduction_projections, analysis_runs.py).
THEOREM ReproductionRepeats == Spec => []ReproductionRepeatsVerdict
<1>1. IInv => ReproductionRepeatsVerdict
  <2> SUFFICES ASSUME IInv, phase = "sealed", Reproduction
               PROVE  result = target.result
    BY DEF ReproductionRepeatsVerdict
  <2>1. result = SealedOf(request, stage, checks)
    BY ResultIsOfState DEF IInv, SealedIsDerived
  <2> QED BY <2>1 DEF IInv, TargetIsDerived, AgreesWithTarget
<1> QED BY <1>1, AnalysisInvariant, PTL
-----------------------------------------------------------------------------
(* What the diagnostics of an estimated run say.                           *)

\* The diagnostics of an estimated run are those of the fourteen evaluators.
LEMMA DiagnosesOfEstimate ==
    ASSUME NEW o, NEW b, o.status = "estimated"
    PROVE  /\ Diagnose(o, b)["eligibility"] = Eligibility(o)
           /\ Diagnose(o, b)["overlap"] = Overlap(o)
           /\ Diagnose(o, b)["confounding"] = Confounding(o, b)
           /\ Diagnose(o, b)["interval"] = Interval(b)
           /\ Diagnose(o, b)["balance"] = Balance(b)
           /\ Diagnose(o, b)["specification"] = SpecificationStability(o, b)
           /\ Diagnose(o, b)["cross_form"] = CrossForm(o, b)
           /\ Diagnose(o, b)["comparisons"] = Comparison(b)
           /\ Diagnose(o, b)["repeats"] = RepeatStability(b)
           /\ Diagnose(o, b)["control"] = NegativeControl(b)
           /\ \A d \in Refuters : Diagnose(o, b)[d] = Refutation(d, b)
<1> USE DEF Diagnose, Diagnostics, Refuters
<1>1. Diagnose(o, b)["eligibility"] = Eligibility(o)
  OBVIOUS
<1>2. Diagnose(o, b)["overlap"] = Overlap(o)
  OBVIOUS
<1>3. Diagnose(o, b)["confounding"] = Confounding(o, b)
  OBVIOUS
<1>4. Diagnose(o, b)["interval"] = Interval(b)
  OBVIOUS
<1>5. Diagnose(o, b)["balance"] = Balance(b)
  OBVIOUS
<1>6. Diagnose(o, b)["specification"] = SpecificationStability(o, b)
  OBVIOUS
<1>7. Diagnose(o, b)["cross_form"] = CrossForm(o, b)
  OBVIOUS
<1>8. Diagnose(o, b)["comparisons"] = Comparison(b)
  OBVIOUS
<1>9. Diagnose(o, b)["repeats"] = RepeatStability(b)
  OBVIOUS
<1>10. Diagnose(o, b)["control"] = NegativeControl(b)
  OBVIOUS
<1>11. \A d \in Refuters : Diagnose(o, b)[d] = Refutation(d, b)
  OBVIOUS
<1> QED BY <1>1, <1>2, <1>3, <1>4, <1>5, <1>6, <1>7, <1>8, <1>9, <1>10, <1>11

\* A finding that bears on the verdict.
Speaks(f) == f.effect \in {"INSUFFICIENT", "VETO", "FRAGILITY"}

\* Of an estimated run a diagnostic passes, was not made, or bears on the
\* verdict.
LEMMA DiagnosticsSpeak ==
    ASSUME NEW o, NEW b, o.status = "estimated", Course(b), NEW d \in Diagnostics
    PROVE  \/ Diagnose(o, b)[d] \in {Pass, Unavailable, Failed}
           \/ Speaks(Diagnose(o, b)[d])
<1> USE DEF Speaks, Finding
<1>0. /\ \A c \in Checks \ (Refuters \cup {"control"}) : b[c] \in Outcomes(c)
      /\ \A c \in Refuters \cup {"control"} :
            b[c] \in {"passed", "unsupported", "failed", Broken}
  BY Rungs, AdapterAssumption DEF Course, CheckOutcomes, Checks, NamedChecks
<1>1. CASE d = "eligibility"
  <2>1. Eligibility(o) = Pass \/ Speaks(Eligibility(o))
    BY DEF Eligibility
  <2> QED BY <1>1, <2>1, DiagnosesOfEstimate
<1>2. CASE d = "overlap"
  BY <1>2, DiagnosesOfEstimate DEF Overlap
<1>3. CASE d = "confounding"
  <2>1. Grade(o, b) \in {"UNAVAILABLE", "STRONG", "MODERATE", "WEAK"}
    BY DEF Grade
  <2>2. Confounding(o, b) = Pass \/ Speaks(Confounding(o, b))
    BY <2>1 DEF Confounding
  <2> QED BY <1>3, <2>2, DiagnosesOfEstimate
<1>4. CASE d = "interval"
  <2>1. b["interval"] \in {"above", "includes_null", "opposite"}
    BY <1>0, Rungs DEF Checks, NamedChecks, Refuters
  <2> QED BY <1>4, <2>1, DiagnosesOfEstimate DEF Interval
<1>5. CASE d = "balance"
  BY <1>5, DiagnosesOfEstimate DEF Balance
<1>6. CASE d = "specification"
  <2>1. SpecificationStability(o, b) = Pass \/ Speaks(SpecificationStability(o, b))
    BY DEF SpecificationStability
  <2> QED BY <1>6, <2>1, DiagnosesOfEstimate
<1>7. CASE d = "cross_form"
  <2>1. CrossForm(o, b) = Pass \/ Speaks(CrossForm(o, b))
    BY DEF CrossForm
  <2> QED BY <1>7, <2>1, DiagnosesOfEstimate
<1>8. CASE d = "comparisons"
  BY <1>8, DiagnosesOfEstimate DEF Comparison
<1>9. CASE d = "repeats"
  <2>1. b["repeats"] \in {"positive", "divergent", "reversed"}
    BY <1>0, Rungs DEF Checks, NamedChecks, Refuters
  <2> QED BY <1>9, <2>1, DiagnosesOfEstimate DEF RepeatStability
<1>10. CASE d = "control"
  BY <1>10, <1>0, DiagnosesOfEstimate DEF NegativeControl, Refutation
<1>11. CASE d \in Refuters
  <2>1. Diagnose(o, b)[d] = Refutation(d, b)
    BY <1>11, DiagnosesOfEstimate
  <2>2. b[d] \in {"passed", "unsupported", "failed", Broken}
    BY <1>11, <1>0
  <2>3. Refutation(d, b) \in {Pass, Failed} \/ Speaks(Refutation(d, b))
    BY <2>2 DEF Refutation
  <2> QED BY <2>1, <2>3
<1> QED BY <1>1, <1>2, <1>3, <1>4, <1>5, <1>6, <1>7, <1>8, <1>9, <1>10, <1>11 DEF Diagnostics

\* A run is supported only if it was estimated and nothing speaks against it.
LEMMA SupportIsSilent ==
    ASSUME NEW o, NEW D, o.status \in {"estimated", "abstained"},
           EvidenceVerdict(o, D).verdict = "SUPPORTED_UNDER_ASSUMPTIONS"
    PROVE  o.status = "estimated" /\ \A d \in Diagnostics : ~ Speaks(D[d])
<1>1. /\ o.status = "estimated" /\ ~ Some(D, "INSUFFICIENT")
      /\ ~ Some(D, "VETO") /\ ~ Some(D, "FRAGILITY")
  BY DEF EvidenceVerdict, Verdict
<1> QED BY <1>1 DEF Some, Speaks

LEMMA SupportPasses ==
    ASSUME NEW o, NEW b, Course(b), o.status \in {"estimated", "abstained"},
           Complete(o, Diagnose(o, b)),
           EvidenceVerdict(o, Diagnose(o, b)).verdict = "SUPPORTED_UNDER_ASSUMPTIONS"
    PROVE  \A d \in Diagnostics : Diagnose(o, b)[d] = Pass
<1>1. o.status = "estimated" /\ \A d \in Diagnostics : ~ Speaks(Diagnose(o, b)[d])
  BY SupportIsSilent
<1>2. SUFFICES ASSUME NEW d \in Diagnostics PROVE Diagnose(o, b)[d] = Pass
  OBVIOUS
<1>3. Diagnose(o, b)[d] # Failed /\ Diagnose(o, b)[d] # Unavailable
  <2>1. Diagnose(o, b)[d].status # "FAILED" /\ Diagnose(o, b)[d] # Unavailable
    BY <1>1 DEF Complete
  <2>2. Failed.status = "FAILED"
    BY DEF Failed, Finding
  <2> QED BY <2>1, <2>2
<1> QED BY <1>1, <1>3, DiagnosticsSpeak

\* A sensitivity without support is a finding.
LEMMA PassedSensitivities ==
    ASSUME NEW o, NEW b, o.unsupported \subseteq Sensitivities,
           SpecificationStability(o, b) = Pass, CrossForm(o, b) = Pass
    PROVE  o.unsupported = {}
<1>1. Specifications \ o.unsupported = Specifications
  BY DEF SpecificationStability, Pass, Finding
<1>2. Forms \ o.unsupported = Forms
  <2>1. "UNSUPPORTED" # "PASS" /\ "FAIL" # "PASS"
    OBVIOUS
  <2> QED BY <2>1 DEF CrossForm, Pass, Finding
<1> QED BY <1>1, <1>2 DEF Sensitivities, Forms

\* No more of an effect is shown, and no action permitted, without its
\* evidence (finalize_fresh_analysis, analysis_runs.py; validity.py).
THEOREM EvidenceIsNeeded == Spec => []EffectNeedsEvidence
<1>1. IInv => EffectNeedsEvidence
  <2> SUFFICES ASSUME IInv, phase = "sealed" PROVE EffectNeedsEvidence
    BY DEF EffectNeedsEvidence
  <2> DEFINE D == Diagnose(Outcome, checks)
             V == EvidenceVerdict(Outcome, D)
  <2>1. /\ Course(checks) /\ HasVerdict(Outcome, D, request.role)
        /\ EngineStatus = Outcome.status
    BY DEF IInv, Counted, SealedIsDerived, Finalizable, Outcome
  <2>2. /\ result.status = EngineStatus /\ result.verdict = V
        /\ result.subject = SubjectVerdict(V, request.role, FALSE)
        /\ result.permitted => DecisionSupportPermitted(V, request.role)
        /\ result.shown = ShownParts(Outcome, V)
    <3>1. result = ResultOf(checks)
      BY DEF IInv, SealedIsDerived
    <3>2. result = [status    |-> EngineStatus,
                    verdict   |-> V,
                    subject   |-> SubjectVerdict(V, request.role, FALSE),
                    permitted |-> EngineStatus = "estimated"
                                     /\ DecisionSupportPermitted(V, request.role),
                    shown     |-> ShownParts(Outcome, V)]
      BY <3>1 DEF ResultOf
    <3> HIDE DEF V
    <3> QED BY <3>2
  <2>3. Outcome.status \in {"estimated", "abstained"} /\ Complete(Outcome, D)
    BY <2>1 DEF HasVerdict
  <2>4. result.permitted => V.verdict = "SUPPORTED_UNDER_ASSUMPTIONS"
                              /\ request.role = "semi_synthetic_hero"
    BY <2>2 DEF DecisionSupportPermitted
  <2>5. result.shown \ {"primary"} # {} => V.verdict = "SUPPORTED_UNDER_ASSUMPTIONS"
    BY <2>2, <2>3 DEF ShownParts
  <2>6. ASSUME V.verdict = "SUPPORTED_UNDER_ASSUMPTIONS"
        PROVE  (\A d \in Diagnostics : D[d] = Pass) /\ Outcome.unsupported = {}
    <3>1. \A d \in Diagnostics : D[d] = Pass
      BY <2>1, <2>3, <2>6, SupportPasses
    <3>2. Outcome.status = "estimated"
      BY <2>3, <2>6, SupportIsSilent
    <3>3. D["specification"] = Pass /\ D["cross_form"] = Pass
      BY <3>1 DEF Diagnostics
    <3>4. SpecificationStability(Outcome, checks) = Pass /\ CrossForm(Outcome, checks) = Pass
      BY <3>2, <3>3, DiagnosesOfEstimate
    <3>5. Outcome.unsupported \subseteq Sensitivities
      BY DEF Outcome, Sensitivities
    <3> QED BY <3>1, <3>4, <3>5, PassedSensitivities
  <2>7. result.shown # {} =>
           /\ result.status = "estimated"
           /\ result.verdict.verdict # "TENTATIVE"
           /\ request.role # "rejection_vignette"
    BY <2>1, <2>2, <2>3 DEF ShownParts, HasVerdict
  <2>8. result.subject.display = "NONE"
    BY <2>2 DEF SubjectVerdict, Verdict
  <2> QED BY <2>4, <2>5, <2>6, <2>7, <2>8 DEF EffectNeedsEvidence
<1> QED BY <1>1, AnalysisInvariant, PTL
-----------------------------------------------------------------------------
(* Worse results.                                                          *)

\* How grave a finding is for the verdict.
Level(f) ==
    IF f.effect = "INSUFFICIENT" THEN 3
    ELSE IF f.effect = "VETO" THEN 2
    ELSE IF f.effect = "FRAGILITY" THEN 1
    ELSE 0

LEMMA StrengthIsOfGravest ==
    ASSUME NEW o, NEW D, o.status = "estimated"
    PROVE  Strength(EvidenceVerdict(o, D)) =
              IF Some(D, "INSUFFICIENT") THEN 1
              ELSE IF Some(D, "VETO") THEN 2
              ELSE IF Some(D, "FRAGILITY") THEN 3
              ELSE 4
<1>1. CASE Some(D, "INSUFFICIENT")
  BY <1>1 DEF EvidenceVerdict, Verdict, Strength
<1>2. CASE ~ Some(D, "INSUFFICIENT") /\ Some(D, "VETO")
  BY <1>2 DEF EvidenceVerdict, Verdict, Strength
<1>3. CASE ~ Some(D, "INSUFFICIENT") /\ ~ Some(D, "VETO") /\ Some(D, "FRAGILITY")
  BY <1>3 DEF EvidenceVerdict, Verdict, Strength
<1>4. CASE ~ Some(D, "INSUFFICIENT") /\ ~ Some(D, "VETO") /\ ~ Some(D, "FRAGILITY")
  <2>1. EvidenceVerdict(o, D).verdict = "SUPPORTED_UNDER_ASSUMPTIONS"
    BY <1>4 DEF EvidenceVerdict, Verdict
  <2> QED BY <2>1, <1>4 DEF Strength
<1> QED BY <1>1, <1>2, <1>3, <1>4

LEMMA GraverIsNoStronger ==
    ASSUME NEW o, NEW D, NEW E, o.status = "estimated",
           \A d \in Diagnostics : Level(E[d]) >= Level(D[d])
    PROVE  Strength(EvidenceVerdict(o, E)) <= Strength(EvidenceVerdict(o, D))
<1>1. Some(D, "INSUFFICIENT") => Some(E, "INSUFFICIENT")
  BY DEF Some, Level
<1>2. Some(D, "VETO") => Some(E, "VETO") \/ Some(E, "INSUFFICIENT")
  BY DEF Some, Level
<1>3. Some(D, "FRAGILITY") => Some(E, "FRAGILITY") \/ Some(E, "VETO") \/ Some(E, "INSUFFICIENT")
  BY DEF Some, Level
<1> QED BY <1>1, <1>2, <1>3, StrengthIsOfGravest

\* Every check of w came out, and no better than in b.
NoBetter(w, b) ==
    \A c \in Checks :
        w[c] \in Outcomes(c) /\ b[c] \in Outcomes(c) /\ Rank(c, w[c]) >= Rank(c, b[c])

LEMMA WorseSpecifications ==
    ASSUME NEW o, NEW w, NEW b, NoBetter(w, b)
    PROVE  Level(SpecificationStability(o, w)) >= Level(SpecificationStability(o, b))
<1>1. ASSUME NEW v \in Specifications
      PROVE  /\ b[v] = "reversed" => w[v] = "reversed"
             /\ b[v] = "divergent" => w[v] \in {"divergent", "reversed"}
  <2>1. v \in Checks
    BY DEF Checks, NamedChecks
  <2>2. /\ w[v] \in {"positive", "divergent", "reversed"} /\ Rank(v, w[v]) >= Rank(v, b[v])
        /\ Rank(v, "positive") = 1 /\ Rank(v, "divergent") = 2 /\ Rank(v, "reversed") = 3
    BY <2>1, Rungs DEF NoBetter
  <2> QED BY <2>2
<1> DEFINE Sees(x, s) == \E v \in Specifications \ o.unsupported : x[v] = s
           Missing == Specifications \ o.unsupported # Specifications
<1>2. \A x : Level(SpecificationStability(o, x)) =
                IF Sees(x, "reversed") THEN 2
                ELSE IF Sees(x, "divergent") \/ Missing THEN 1 ELSE 0
  <2> SUFFICES ASSUME NEW x
               PROVE  Level(SpecificationStability(o, x)) =
                         IF Sees(x, "reversed") THEN 2
                         ELSE IF Sees(x, "divergent") \/ Missing THEN 1 ELSE 0
    OBVIOUS
  <2>1. CASE Sees(x, "reversed")
    BY <2>1 DEF SpecificationStability, Finding, Level
  <2>2. CASE ~ Sees(x, "reversed") /\ Sees(x, "divergent")
    BY <2>2 DEF SpecificationStability, Finding, Level
  <2>3. CASE ~ Sees(x, "reversed") /\ ~ Sees(x, "divergent") /\ Missing
    BY <2>3 DEF SpecificationStability, Finding, Level
  <2>4. CASE ~ Sees(x, "reversed") /\ ~ Sees(x, "divergent") /\ ~ Missing
    BY <2>4 DEF SpecificationStability, Finding, Level, Pass
  <2> QED BY <2>1, <2>2, <2>3, <2>4
<1>3. Sees(b, "reversed") => Sees(w, "reversed")
  BY <1>1
<1>4. Sees(b, "divergent") => Sees(w, "divergent") \/ Sees(w, "reversed")
  BY <1>1
<1> HIDE DEF Sees, Missing
<1> QED BY <1>2, <1>3, <1>4

LEMMA WorseForms ==
    ASSUME NEW o, NEW w, NEW b, NoBetter(w, b)
    PROVE  Level(CrossForm(o, w)) >= Level(CrossForm(o, b))
<1>1. ASSUME NEW v \in Forms
      PROVE  /\ b[v] = "reversed" => w[v] = "reversed"
             /\ b[v] = "includes_null" => w[v] \in {"includes_null", "reversed"}
  <2>1. v \in Checks
    BY DEF Checks, NamedChecks
  <2>2. /\ w[v] \in {"positive", "includes_null", "reversed"} /\ Rank(v, w[v]) >= Rank(v, b[v])
        /\ Rank(v, "positive") = 1 /\ Rank(v, "includes_null") = 2 /\ Rank(v, "reversed") = 3
    BY <2>1, Rungs DEF NoBetter
  <2> QED BY <2>2
<1> DEFINE Sees(x, s) == \E v \in Forms \ o.unsupported : x[v] = s
           Missing == Forms \ o.unsupported # Forms
<1>2. \A x : Level(CrossForm(o, x)) =
                IF Sees(x, "reversed") THEN 2
                ELSE IF Sees(x, "includes_null") \/ Missing THEN 1 ELSE 0
  <2> SUFFICES ASSUME NEW x
               PROVE  Level(CrossForm(o, x)) =
                         IF Sees(x, "reversed") THEN 2
                         ELSE IF Sees(x, "includes_null") \/ Missing THEN 1 ELSE 0
    OBVIOUS
  <2>1. CASE Sees(x, "reversed")
    BY <2>1 DEF CrossForm, Finding, Level
  <2>2. CASE ~ Sees(x, "reversed") /\ Sees(x, "includes_null")
    BY <2>2 DEF CrossForm, Finding, Level
  <2>3. CASE ~ Sees(x, "reversed") /\ ~ Sees(x, "includes_null") /\ Missing
    BY <2>3 DEF CrossForm, Finding, Level
  <2>4. CASE ~ Sees(x, "reversed") /\ ~ Sees(x, "includes_null") /\ ~ Missing
    BY <2>4 DEF CrossForm, Finding, Level, Pass
  <2> QED BY <2>1, <2>2, <2>3, <2>4
<1>3. Sees(b, "reversed") => Sees(w, "reversed")
  BY <1>1
<1>4. Sees(b, "includes_null") => Sees(w, "includes_null") \/ Sees(w, "reversed")
  BY <1>1
<1> HIDE DEF Sees, Missing
<1> QED BY <1>2, <1>3, <1>4

LEMMA WorseGroups ==
    ASSUME NEW o, NEW w, NEW b, NoBetter(w, b)
    PROVE  Level(Confounding(o, w)) >= Level(Confounding(o, b))
<1> DEFINE Adverse(x) == {g \in Groups : x[g] = "nonpositive"}
           n == Cardinality(Groups)
<1>1. Adverse(b) \subseteq Adverse(w)
  <2> SUFFICES ASSUME NEW g \in Groups, b[g] = "nonpositive" PROVE w[g] = "nonpositive"
    OBVIOUS
  <2>1. /\ w[g] \in {"positive", "nonpositive"} /\ Rank(g, w[g]) >= Rank(g, b[g])
        /\ Rank(g, "positive") = 1 /\ Rank(g, "nonpositive") = 2
    BY Rungs DEF NoBetter, Checks
  <2> QED BY <2>1
<1>2. /\ Cardinality(Adverse(b)) \in Nat /\ Cardinality(Adverse(w)) \in Nat
      /\ Cardinality(Adverse(b)) <= Cardinality(Adverse(w))
  <2>1. IsFiniteSet(Adverse(w))
    BY GroupsAssumption, FS_Subset
  <2>2. IsFiniteSet(Adverse(b)) /\ Cardinality(Adverse(b)) <= Cardinality(Adverse(w))
    BY <2>1, <1>1, FS_Subset
  <2> HIDE DEF Adverse
  <2> QED BY <2>1, <2>2, FS_CardinalityType
<1>3. n \in Nat
  BY GroupsAssumption, FS_CardinalityType
<1>4. \A x : Grade(o, x) = IF o.status = "abstained" \/ n = 0 THEN "UNAVAILABLE"
                           ELSE IF Cardinality(Adverse(x)) = 0 THEN "STRONG"
                           ELSE IF Cardinality(Adverse(x)) <= (n - 1) \div 2 THEN "MODERATE"
                           ELSE "WEAK"
  BY DEF Grade
<1>5. \A x : Level(Confounding(o, x)) = IF Grade(o, x) = "STRONG" THEN 0
                                        ELSE IF Grade(o, x) = "MODERATE" THEN 1 ELSE 2
  <2> SUFFICES ASSUME NEW x
               PROVE  Level(Confounding(o, x)) = IF Grade(o, x) = "STRONG" THEN 0
                                        ELSE IF Grade(o, x) = "MODERATE" THEN 1 ELSE 2
    OBVIOUS
  <2>1. Grade(o, x) \in {"UNAVAILABLE", "STRONG", "MODERATE", "WEAK"}
    BY DEF Grade
  <2> QED BY <2>1 DEF Confounding, Level, Finding, Pass
<1>6. (n - 1) \div 2 \in Int
  BY <1>3
<1> HIDE DEF Adverse, n
<1>7. Grade(o, w) = "STRONG" => Grade(o, b) = "STRONG"
  BY <1>2, <1>4
<1>8. Grade(o, w) = "MODERATE" => Grade(o, b) \in {"STRONG", "MODERATE"}
  BY <1>2, <1>4, <1>6
<1> QED BY <1>5, <1>7, <1>8

LEMMA WorseRefutation ==
    ASSUME NEW w, NEW b, NoBetter(w, b), NEW c \in Refuters \cup {"control"}
    PROVE  Level(Refutation(c, w)) >= Level(Refutation(c, b))
<1>1. c \in Checks
  BY DEF Checks, NamedChecks
<1>2. /\ w[c] \in {"passed", "unsupported", "failed"} /\ b[c] \in {"passed", "unsupported", "failed"}
      /\ Rank(c, w[c]) >= Rank(c, b[c])
      /\ Rank(c, "passed") = 1 /\ Rank(c, "unsupported") = 2 /\ Rank(c, "failed") = 3
  BY <1>1, Rungs DEF NoBetter
<1>3. \A x : x[c] \in {"passed", "unsupported", "failed"} =>
         Level(Refutation(c, x)) = IF x[c] = "passed" THEN 0 ELSE 2
  <2> SUFFICES ASSUME NEW x, x[c] \in {"passed", "unsupported", "failed"}
               PROVE  Level(Refutation(c, x)) = IF x[c] = "passed" THEN 0 ELSE 2
    OBVIOUS
  <2>1. CASE x[c] = "passed"
    <3>1. Refutation(c, x) = Pass
      BY <2>1 DEF Refutation, Broken
    <3> QED BY <2>1, <3>1 DEF Level, Pass, Finding
  <2>2. CASE x[c] # "passed"
    <3>1. Refutation(c, x).effect = "VETO"
      BY <2>2 DEF Refutation, Broken, Finding
    <3> QED BY <2>2, <3>1 DEF Level
  <2> QED BY <2>1, <2>2
<1> QED BY <1>2, <1>3

LEMMA WorseRest ==
    ASSUME NEW w, NEW b, NoBetter(w, b), w["interval"] = b["interval"]
    PROVE  /\ Level(Balance(w)) >= Level(Balance(b))
           /\ Level(Comparison(w)) >= Level(Comparison(b))
           /\ Level(RepeatStability(w)) >= Level(RepeatStability(b))
<1>0. {"balance", "comparisons", "repeats"} \subseteq Checks
  BY DEF Checks, NamedChecks
<1>1. Level(Balance(w)) >= Level(Balance(b))
  <2>1. /\ w["balance"] \in {"balanced", "unbalanced"}
        /\ Rank("balance", w["balance"]) >= Rank("balance", b["balance"])
        /\ Rank("balance", "balanced") = 1 /\ Rank("balance", "unbalanced") = 2
    BY <1>0, Rungs DEF NoBetter
  <2>2. b["balance"] = "unbalanced" => w["balance"] = "unbalanced"
    BY <2>1
  <2>3. b["balance"] \in {"balanced", "unbalanced"}
    BY <1>0, Rungs DEF NoBetter
  <2> QED BY <2>1, <2>2, <2>3 DEF Balance, Level, Finding, Pass
<1>2. Level(Comparison(w)) >= Level(Comparison(b))
  <2>1. /\ w["comparisons"] \in {"positive", "mixed", "opposed"}
        /\ b["comparisons"] \in {"positive", "mixed", "opposed"}
        /\ Rank("comparisons", w["comparisons"]) >= Rank("comparisons", b["comparisons"])
        /\ Rank("comparisons", "positive") = 1 /\ Rank("comparisons", "mixed") = 2
        /\ Rank("comparisons", "opposed") = 3
    BY <1>0, Rungs DEF NoBetter
  <2>2. /\ b["comparisons"] = "opposed" => w["comparisons"] = "opposed"
        /\ b["comparisons"] = "mixed" => w["comparisons"] # "positive"
    BY <2>1
  <2>3. \A x : x["comparisons"] \in {"positive", "mixed", "opposed"} =>
           Level(Comparison(x)) =
              IF x["comparisons"] = "positive" THEN 0
              ELSE IF x["comparisons"] = "opposed" /\ x["interval"] # "opposite" THEN 2 ELSE 1
    BY DEF Comparison, Level, Finding, Pass
  <2> QED BY <2>1, <2>2, <2>3
<1>3. Level(RepeatStability(w)) >= Level(RepeatStability(b))
  <2>1. /\ w["repeats"] \in {"positive", "divergent", "reversed"}
        /\ b["repeats"] \in {"positive", "divergent", "reversed"}
        /\ Rank("repeats", w["repeats"]) >= Rank("repeats", b["repeats"])
        /\ Rank("repeats", "positive") = 1 /\ Rank("repeats", "divergent") = 2
        /\ Rank("repeats", "reversed") = 3
    BY <1>0, Rungs DEF NoBetter
  <2>2. \A x : x["repeats"] \in {"positive", "divergent", "reversed"} =>
           Level(RepeatStability(x)) = IF x["repeats"] = "positive" THEN 0
                                       ELSE IF x["repeats"] = "divergent" THEN 1 ELSE 2
    BY DEF RepeatStability, Level, Finding, Pass
  <2> QED BY <2>1, <2>2
<1> QED BY <1>1, <1>2, <1>3

\* With the same interval no diagnostic gets any milder.
LEMMA WorseIsGraver ==
    ASSUME NEW o, NEW w, NEW b, o.status = "estimated", NoBetter(w, b),
           w["interval"] = b["interval"], NEW d \in Diagnostics
    PROVE  Level(Diagnose(o, w)[d]) >= Level(Diagnose(o, b)[d])
<1>0. \A f : Level(f) >= Level(f)
  BY DEF Level
<1>1. CASE d \in {"eligibility", "overlap", "interval"}
  <2>1. Diagnose(o, w)[d] = Diagnose(o, b)[d]
    BY <1>1, DiagnosesOfEstimate DEF Interval
  <2> QED BY <2>1, <1>0
<1>2. CASE d = "confounding"
  BY <1>2, WorseGroups, DiagnosesOfEstimate
<1>3. CASE d \in {"balance", "comparisons", "repeats"}
  BY <1>3, WorseRest, DiagnosesOfEstimate
<1>4. CASE d = "specification"
  BY <1>4, WorseSpecifications, DiagnosesOfEstimate
<1>5. CASE d = "cross_form"
  BY <1>5, WorseForms, DiagnosesOfEstimate
<1>6. CASE d = "control"
  BY <1>6, WorseRefutation, DiagnosesOfEstimate DEF NegativeControl
<1>7. CASE d \in Refuters
  BY <1>7, WorseRefutation, DiagnosesOfEstimate
<1> QED BY <1>1, <1>2, <1>3, <1>4, <1>5, <1>6, <1>7 DEF Diagnostics

\* Worse results, of one check or of many, never make a stronger verdict: an
\* interval that gets worse leaves the evidence insufficient, although it may
\* excuse opposed comparisons.
LEMMA WorseIsNoStronger ==
    ASSUME NEW o, NEW w, NEW b, o.status = "estimated", NoBetter(w, b)
    PROVE  Strength(EvidenceVerdict(o, Diagnose(o, w)))
              <= Strength(EvidenceVerdict(o, Diagnose(o, b)))
<1>1. CASE w["interval"] = b["interval"]
  BY <1>1, WorseIsGraver, GraverIsNoStronger
<1>2. CASE w["interval"] # b["interval"]
  <2>1. w["interval"] \in {"includes_null", "opposite"}
    <3>1. "interval" \in Checks
      BY DEF Checks, NamedChecks
    <3>2. /\ w["interval"] \in {"above", "includes_null", "opposite"}
          /\ b["interval"] \in {"above", "includes_null", "opposite"}
          /\ Rank("interval", w["interval"]) >= Rank("interval", b["interval"])
          /\ Rank("interval", "above") = 1 /\ Rank("interval", "includes_null") = 2
          /\ Rank("interval", "opposite") = 3
      BY <3>1, Rungs DEF NoBetter
    <3> QED BY <3>2, <1>2
  <2>2. Interval(w).effect = "INSUFFICIENT"
    BY <2>1 DEF Interval, Finding
  <2>3. Some(Diagnose(o, w), "INSUFFICIENT")
    BY <2>2, DiagnosesOfEstimate DEF Some, Diagnostics
  <2>4. Strength(EvidenceVerdict(o, Diagnose(o, w))) = 1
    BY <2>3, StrengthIsOfGravest
  <2>5. Strength(EvidenceVerdict(o, Diagnose(o, b))) \in 1..4
    BY StrengthIsOfGravest
  <2> QED BY <2>4, <2>5
<1> QED BY <1>1, <1>2

\* A worse result of any single check never makes a stronger verdict
\* (derive_evidence_verdict, validity.py; the evaluators of diagnostics.py).
THEOREM WorseningIsMonotone == Spec => []WorseningNeverStrengthens
<1>1. IInv => WorseningNeverStrengthens
  <2> SUFFICES ASSUME IInv, phase = "sealed", result.status = "estimated",
                      NEW c \in Checks, NEW x \in Outcomes(c), Rank(c, x) > Rank(c, checks[c])
               PROVE  Strength(EvidenceVerdict(Outcome, Diagnose(Outcome, [checks EXCEPT ![c] = x])))
                         <= Strength(result.verdict)
    BY DEF WorseningNeverStrengthens
  <2> DEFINE w == [checks EXCEPT ![c] = x]
  <2>1. /\ Course(checks) /\ Complete(Outcome, Diagnose(Outcome, checks))
        /\ result = ResultOf(checks)
    BY DEF IInv, Counted, SealedIsDerived, Finalizable, HasVerdict
  <2>2. /\ result.verdict = EvidenceVerdict(Outcome, Diagnose(Outcome, checks))
        /\ Outcome.status = "estimated"
    BY <2>1 DEF ResultOf, Outcome
  <2>3. ASSUME NEW k \in Checks PROVE checks[k] \in Outcomes(k)
    <3>1. CASE k \notin Refuters \cup {"control"}
      BY <2>1, <3>1 DEF Course, CheckOutcomes
    <3>2. CASE k \in Refuters \cup {"control"}
      <4>1. checks[k] \in {"passed", "unsupported", "failed", Broken}
        BY <2>1, <3>2, Rungs, AdapterAssumption DEF Course, CheckOutcomes
      <4>2. Diagnose(Outcome, checks)[k] = Refutation(k, checks)
        BY <3>2, <2>2, DiagnosesOfEstimate DEF NegativeControl
      <4>3. Refutation(k, checks).status # "FAILED"
        BY <2>1, <3>2, <4>2 DEF Complete, Diagnostics
      <4>4. checks[k] # Broken
        BY <4>3 DEF Refutation, Failed, Finding, Broken
      <4>5. Outcomes(k) = {"passed", "unsupported", "failed"}
        BY <3>2, Rungs
      <4> QED BY <4>1, <4>4, <4>5
    <3> QED BY <3>1, <3>2
  <2>4. NoBetter(w, checks)
    <3> SUFFICES ASSUME NEW k \in Checks
                 PROVE  w[k] \in Outcomes(k) /\ checks[k] \in Outcomes(k)
                           /\ Rank(k, w[k]) >= Rank(k, checks[k])
      BY DEF NoBetter
    <3>1. w[k] = IF k = c THEN x ELSE checks[k]
      BY <2>1 DEF Course
    <3>2. w[k] \in Outcomes(k)
      BY <3>1, <2>3
    <3>3. Rank(k, checks[k]) \in Int
      <4>1. \A y \in Outcomes(k) : Rank(k, y) \in Int
        BY Rungs DEF Checks, NamedChecks
      <4> QED BY <4>1, <2>3
    <3>4. Rank(k, x) \in Int \/ k # c
      <4>1. \A y \in Outcomes(k) : Rank(k, y) \in Int
        BY Rungs DEF Checks, NamedChecks
      <4> QED BY <4>1
    <3> QED BY <3>1, <3>2, <3>3, <3>4, <2>3
  <2> QED BY <2>2, <2>4, WorseIsNoStronger
<1> QED BY <1>1, AnalysisInvariant, PTL
-----------------------------------------------------------------------------
(* The record of facts.                                                    *)

Kinds == CommitmentKinds \cup PromiseKinds \cup TerminalKinds

FactRecords ==
    [line : Nat, kind : Kinds, occurred : Int, known : Int, parent : Nat,
     promised : Int \cup {None}]

Committed(F, e) == F[e].kind = "committed"

\* Facts of n lines stand in the order they became known, and what a line is
\* first committed to stands before its corrections.
Orderly(n, F, t) ==
    /\ F \in Seq(FactRecords)
    /\ \A e \in DOMAIN F : F[e].line \in 1..n /\ F[e].known <= t /\ F[e].parent < e
    /\ \A d, e \in DOMAIN F : d < e => F[d].known <= F[e].known
    /\ \A d, e \in DOMAIN F :
          Committed(F, e) /\ F[e].parent = 0 /\ Committed(F, d) /\ F[d].line = F[e].line => e <= d

LineageInv == now \in Int /\ lines \in Seq(Line) /\ Orderly(Len(lines), facts, now)

\* One more fact may be learnt: a first commitment only of a line without one.
MayFollow(f, n, F, t) ==
    /\ f \in FactRecords /\ f.line \in 1..n /\ f.known = t /\ f.parent <= Len(F)
    /\ f.kind = "committed" /\ f.parent = 0 =>
          \A d \in DOMAIN F : ~ (Committed(F, d) /\ F[d].line = f.line)

LEMMA OrderlyAppend ==
    ASSUME NEW n \in Nat, NEW F, NEW t \in Int, NEW f, Orderly(n, F, t), MayFollow(f, n, F, t)
    PROVE  Orderly(n, Append(F, f), t)
<1> DEFINE G == Append(F, f)
           k == Len(F) + 1
<1>1. F \in Seq(FactRecords) /\ Len(F) \in Nat /\ DOMAIN F = 1..Len(F) /\ f \in FactRecords
  BY DEF Orderly, MayFollow
<1>2. /\ G \in Seq(FactRecords) /\ DOMAIN G = 1..k /\ k \in Nat /\ G[k] = f
      /\ \A e \in 1..Len(F) : G[e] = F[e]
  BY <1>1
<1> HIDE DEF G
<1>3. \A e \in 1..k : e = k \/ e \in DOMAIN F
  BY <1>1
<1>4. \A e \in DOMAIN G : G[e].line \in 1..n /\ G[e].known <= t /\ G[e].parent < e
  <2> SUFFICES ASSUME NEW e \in DOMAIN G
               PROVE  G[e].line \in 1..n /\ G[e].known <= t /\ G[e].parent < e
    OBVIOUS
  <2>1. CASE e = k
    <3>1. G[e] = f /\ f.parent \in Nat /\ f.known \in Int
      BY <2>1, <1>1, <1>2 DEF FactRecords
    <3> QED BY <2>1, <3>1, <1>1, <1>2 DEF MayFollow
  <2>2. CASE e # k
    <3>1. e \in DOMAIN F /\ G[e] = F[e]
      BY <2>2, <1>1, <1>2, <1>3
    <3> QED BY <3>1 DEF Orderly
  <2> QED BY <2>1, <2>2
<1>5. \A d, e \in DOMAIN G : d < e => G[d].known <= G[e].known
  <2> SUFFICES ASSUME NEW d \in DOMAIN G, NEW e \in DOMAIN G, d < e PROVE G[d].known <= G[e].known
    OBVIOUS
  <2>1. d \in DOMAIN F
    BY <1>1, <1>2
  <2>2. CASE e = k
    BY <2>1, <2>2, <1>1, <1>2 DEF Orderly, MayFollow
  <2>3. CASE e # k
    BY <2>1, <2>3, <1>1, <1>2, <1>3 DEF Orderly
  <2> QED BY <2>2, <2>3
<1>6. \A d, e \in DOMAIN G :
         Committed(G, e) /\ G[e].parent = 0 /\ Committed(G, d) /\ G[d].line = G[e].line => e <= d
  <2> SUFFICES ASSUME NEW d \in DOMAIN G, NEW e \in DOMAIN G, Committed(G, e), G[e].parent = 0,
                      Committed(G, d), G[d].line = G[e].line
               PROVE  e <= d
    OBVIOUS
  <2>1. CASE d = k
    BY <2>1, <1>1, <1>2, <1>3
  <2>2. CASE d # k /\ e = k
    <3>1. d \in DOMAIN F /\ G[d] = F[d] /\ G[e] = f
      BY <2>2, <1>1, <1>2, <1>3
    <3> QED BY <3>1 DEF Committed, MayFollow
  <2>3. CASE d # k /\ e # k
    <3>1. d \in DOMAIN F /\ G[d] = F[d] /\ e \in DOMAIN F /\ G[e] = F[e]
      BY <2>3, <1>1, <1>2, <1>3
    <3> QED BY <3>1 DEF Committed, Orderly
  <2> QED BY <2>1, <2>2, <2>3
<1>7. Orderly(n, G, t)
  BY <1>2, <1>4, <1>5, <1>6 DEF Orderly
<1> QED BY <1>7 DEF G

\* Lines are added and days pass.
LEMMA OrderlyLater ==
    ASSUME NEW n \in Nat, NEW m \in Nat, NEW F, NEW t \in Int, NEW u \in Int,
           Orderly(n, F, t), n <= m, t <= u
    PROVE  Orderly(m, F, u)
<1>1. \A e \in DOMAIN F : F[e].line \in 1..m /\ F[e].known <= u
  <2> SUFFICES ASSUME NEW e \in DOMAIN F PROVE F[e].line \in 1..m /\ F[e].known <= u
    OBVIOUS
  <2>1. F[e] \in FactRecords /\ F[e].line \in 1..n /\ F[e].known <= t
    BY DEF Orderly
  <2>2. F[e].known \in Int
    BY <2>1 DEF FactRecords
  <2> QED BY <2>1, <2>2
<1> QED BY <1>1 DEF Orderly

LEMMA OneFactIsAppended ==
    ASSUME NEW F \in Seq(FactRecords), NEW f \in FactRecords
    PROVE  F \o <<f>> = Append(F, f)
OBVIOUS

LEMMA TwoFactsAreAppended ==
    ASSUME NEW F \in Seq(FactRecords), NEW f \in FactRecords, NEW g \in FactRecords
    PROVE  F \o (<<f>> \o <<g>>) = Append(Append(F, f), g)
<1>1. <<f>> \in Seq(FactRecords) /\ <<g>> \in Seq(FactRecords)
  OBVIOUS
<1>2. F \o (<<f>> \o <<g>>) = (F \o <<f>>) \o <<g>>
  BY <1>1, ConcatAssociative
<1>3. F \o <<f>> = Append(F, f) /\ Append(F, f) \in Seq(FactRecords)
  OBVIOUS
<1> QED BY <1>2, <1>3, OneFactIsAppended

\* A fact about a line already seen.
LEMMA LearnStep ==
    ASSUME LineageInv, NEW f, MayFollow(f, Len(lines), facts, now),
           facts' = facts \o <<f>>, lines' = lines, now' = now
    PROVE  LineageInv'
<1>1. Len(lines) \in Nat /\ facts \in Seq(FactRecords) /\ f \in FactRecords
  BY DEF LineageInv, Orderly, MayFollow
<1>2. facts' = Append(facts, f)
  BY <1>1, OneFactIsAppended
<1> QED BY <1>1, <1>2, OrderlyAppend DEF LineageInv

LEMMA SeeLineStep ==
    ASSUME LineageInv, NEW line \in Line, NEW occurred \in Int, NEW promised \in Int \cup {None},
           SeeLine(line, occurred, promised)
    PROVE  LineageInv'
<1> DEFINE n == Len(lines) + 1
           a == Fact(n, "committed", occurred, 0, None)
           b == Fact(n, "promise_recorded", now, 0, promised)
<1>1. /\ Len(lines) \in Nat /\ n \in Nat /\ now \in Int /\ facts \in Seq(FactRecords)
      /\ Orderly(Len(lines), facts, now) /\ lines \in Seq(Line)
  BY DEF LineageInv, Orderly
<1>2. lines' = Append(lines, line) /\ now' = now
  BY DEF SeeLine, Record
<1>3. lines' \in Seq(Line) /\ Len(lines') = n
  BY <1>1, <1>2
<1>4. Orderly(n, facts, now)
  BY <1>1, OrderlyLater
<1>5. \A d \in DOMAIN facts : facts[d].line # n
  BY <1>1 DEF Orderly
<1>6. /\ a \in FactRecords /\ a.line = n /\ a.known = now /\ a.parent = 0 /\ a.kind = "committed"
      /\ b \in FactRecords /\ b.line = n /\ b.known = now /\ b.parent = 0
      /\ b.kind = "promise_recorded"
  <2>1. /\ "committed" \in Kinds /\ "promise_recorded" \in Kinds
        /\ None \in Int \cup {None} /\ 0 \in Nat /\ now \in Int \cup {None}
    BY <1>1 DEF Kinds, CommitmentKinds, PromiseKinds
  <2>2. /\ a \in FactRecords /\ a.line = n /\ a.known = now /\ a.parent = 0
        /\ a.kind = "committed"
    BY <2>1, <1>1 DEF Fact, FactRecords
  <2>3. /\ b \in FactRecords /\ b.line = n /\ b.known = now /\ b.parent = 0
        /\ b.kind = "promise_recorded"
    BY <2>1, <1>1 DEF Fact, FactRecords
  <2> QED BY <2>2, <2>3
<1>7. MayFollow(a, n, facts, now)
  BY <1>1, <1>5, <1>6 DEF MayFollow
<1>8. Orderly(n, Append(facts, a), now)
  BY <1>1, <1>4, <1>7, OrderlyAppend
<1>9. MayFollow(b, n, Append(facts, a), now)
  <2>1. Len(Append(facts, a)) \in Nat
    BY <1>1, <1>6
  <2> QED BY <2>1, <1>1, <1>6 DEF MayFollow
<1>10. Orderly(n, Append(Append(facts, a), b), now)
  BY <1>1, <1>8, <1>9, OrderlyAppend
<1>11. CASE promised = None
  <2>1. facts' = facts \o (<<a>> \o <<>>)
    BY <1>11 DEF SeeLine, Record
  <2>2. facts' = Append(facts, a)
    <3> HIDE DEF a
    <3> QED BY <2>1, <1>1, <1>6
  <2> QED BY <2>2, <1>1, <1>2, <1>3, <1>8 DEF LineageInv
<1>12. CASE promised # None
  <2>1. facts' = facts \o (<<a>> \o <<b>>)
    BY <1>12 DEF SeeLine, Record
  <2>2. facts' = Append(Append(facts, a), b)
    BY <2>1, <1>1, <1>6, TwoFactsAreAppended
  <2> QED BY <2>2, <1>1, <1>2, <1>3, <1>10 DEF LineageInv
<1> QED BY <1>11, <1>12

LEMMA LineageStep == LineageInv /\ LineageNext => LineageInv'
<1> SUFFICES ASSUME LineageInv, LineageNext PROVE LineageInv'
  OBVIOUS
<1>0. /\ now \in Int /\ Len(lines) \in Nat /\ facts \in Seq(FactRecords) /\ Len(facts) \in Nat
      /\ DOMAIN facts = 1..Len(facts) /\ DOMAIN lines = 1..Len(lines)
      /\ Orderly(Len(lines), facts, now)
  BY DEF LineageInv, Orderly
<1>e. ASSUME NEW e \in DOMAIN facts
      PROVE  /\ facts[e].line \in 1..Len(lines) /\ facts[e].line \in Nat
             /\ facts[e].kind \in Kinds /\ e \in 1..Len(facts) /\ e \in Nat
  <2>1. facts[e] \in FactRecords /\ facts[e].line \in 1..Len(lines) /\ e \in 1..Len(facts)
    BY <1>0 DEF Orderly
  <2> QED BY <1>0, <2>1 DEF FactRecords
<1>n. None \in Int \cup {None} /\ 0 \in Nat
  OBVIOUS
<1>d. Recent \subseteq Int /\ Ahead \subseteq Int
  BY <1>0 DEF Recent, Ahead
<1>1. CASE PassDay
  <2>1. now' = now + 1 /\ facts' = facts /\ lines' = lines
    BY <1>1 DEF PassDay
  <2> QED BY <2>1, <1>0, OrderlyLater DEF LineageInv
<1>2. ASSUME NEW line \in Line, NEW occurred \in Recent \cup Ahead,
             NEW promised \in Recent \cup Ahead \cup {None}, SeeLine(line, occurred, promised)
      PROVE  LineageInv'
  <2>1. occurred \in Int /\ promised \in Int \cup {None}
    BY <1>d
  <2> QED BY <1>2, <2>1, SeeLineStep
<1>3. ASSUME NEW e \in DOMAIN facts, NEW occurred \in Recent \cup Ahead,
             CorrectCommitment(e, occurred)
      PROVE  LineageInv'
  <2> DEFINE f == Fact(facts[e].line, "committed", occurred, e, None)
  <2>1. facts' = facts \o <<f>> /\ lines' = lines /\ now' = now
    BY <1>3 DEF CorrectCommitment, Record
  <2>2. f \in FactRecords /\ f.line = facts[e].line /\ f.known = now /\ f.parent = e
    <3>1. "committed" \in Kinds /\ occurred \in Int
      BY <1>d DEF Kinds, CommitmentKinds
    <3> QED BY <1>0, <1>e, <1>n, <3>1 DEF Fact, FactRecords
  <2>3. MayFollow(f, Len(lines), facts, now)
    BY <1>0, <1>e, <2>2 DEF MayFollow
  <2> QED BY <2>1, <2>3, LearnStep
<1>4. ASSUME NEW e \in DOMAIN facts, NEW kind \in PromiseKinds, NEW promised \in Ahead,
             ChangePromise(e, kind, promised)
      PROVE  LineageInv'
  <2> DEFINE f == Fact(facts[e].line, kind, now, e, promised)
  <2>1. facts' = facts \o <<f>> /\ lines' = lines /\ now' = now
    BY <1>4 DEF ChangePromise, Record
  <2>2. f \in FactRecords /\ f.line = facts[e].line /\ f.known = now /\ f.parent = e
    <3>1. kind \in Kinds /\ promised \in Int \cup {None}
      BY <1>d DEF Kinds
    <3> QED BY <1>0, <1>e, <3>1 DEF Fact, FactRecords
  <2>3. MayFollow(f, Len(lines), facts, now)
    BY <1>0, <1>e, <2>2 DEF MayFollow
  <2> QED BY <2>1, <2>3, LearnStep
<1>5. ASSUME NEW l \in DOMAIN lines, NEW kind \in TerminalKinds, NEW occurred \in Recent,
             End(l, kind, occurred)
      PROVE  LineageInv'
  <2> DEFINE f == Fact(l, kind, occurred, 0, None)
  <2>1. facts' = facts \o <<f>> /\ lines' = lines /\ now' = now
    BY <1>5 DEF End, Record
  <2>2. f \in FactRecords /\ f.line = l /\ f.known = now /\ f.parent = 0 /\ f.kind = kind
    <3>1. kind \in Kinds /\ occurred \in Int /\ l \in Nat
      BY <1>0, <1>d DEF Kinds
    <3> QED BY <1>0, <1>n, <3>1 DEF Fact, FactRecords
  <2>3. kind # "committed"
    BY DEF TerminalKinds
  <2>4. MayFollow(f, Len(lines), facts, now)
    BY <1>0, <2>2, <2>3 DEF MayFollow
  <2> QED BY <2>1, <2>4, LearnStep
<1>6. ASSUME NEW e \in DOMAIN facts, NEW occurred \in Recent, CorrectEnd(e, occurred)
      PROVE  LineageInv'
  <2> DEFINE f == Fact(facts[e].line, facts[e].kind, occurred, e, None)
  <2>1. facts' = facts \o <<f>> /\ lines' = lines /\ now' = now
    BY <1>6 DEF CorrectEnd, Record
  <2>2. f \in FactRecords /\ f.line = facts[e].line /\ f.known = now /\ f.parent = e
    <3>1. occurred \in Int
      BY <1>d
    <3> QED BY <1>0, <1>e, <1>n, <3>1 DEF Fact, FactRecords
  <2>3. MayFollow(f, Len(lines), facts, now)
    BY <1>0, <1>e, <2>2 DEF MayFollow
  <2> QED BY <2>1, <2>3, LearnStep
<1> QED BY <1>1, <1>2, <1>3, <1>4, <1>5, <1>6 DEF LineageNext

LEMMA EmptyLineage == now' = 0 /\ lines' = <<>> /\ facts' = <<>> => LineageInv'
BY DEF LineageInv, Orderly

\* The record stays orderly.
THEOREM RecordIsOrderly == Spec => []LineageInv
<1>1. Init => LineageInv
  BY DEF Init, LineageInit, LineageInv, Orderly
<1>2. LineageInv /\ [Next]_vars => LineageInv'
  <2> SUFFICES ASSUME LineageInv, [Next]_vars PROVE LineageInv'
    OBVIOUS
  <2>1. CASE Grow
    BY <2>1, LineageStep DEF Grow
  <2>2. ASSUME NEW role \in AnalysedRoles, NEW subject \in {0} \cup DOMAIN lines,
               Admit(role, subject)
        PROVE  LineageInv'
    BY <2>2, EmptyLineage DEF Admit
  <2>3. CASE UNCHANGED lineageVars
    BY <2>3 DEF lineageVars, LineageInv
  <2>4. CASE Materialize
    BY <2>3, <2>4 DEF Materialize
  <2>5. CASE Estimate
    BY <2>3, <2>5 DEF Estimate
  <2>6. CASE EngineFails
    BY <2>3, <2>6 DEF EngineFails, Fail
  <2>7. ASSUME NEW b \in ChecksMade, Finalize(b) PROVE LineageInv'
    BY <2>3, <2>7 DEF Finalize
  <2>8. ASSUME NEW b \in ChecksMade, FinalizationFails(b) PROVE LineageInv'
    BY <2>3, <2>8 DEF FinalizationFails, Fail
  <2>9. CASE Reproduce
    BY <2>3, <2>9 DEF Reproduce
  <2>10. CASE LoseTarget
    BY <2>3, <2>10 DEF LoseTarget
  <2>11. CASE UNCHANGED vars
    BY <2>3, <2>11 DEF vars
  <2> QED BY <2>1, <2>2, <2>4, <2>5, <2>6, <2>7, <2>8, <2>9, <2>10, <2>11 DEF Next
<1> QED BY <1>1, <1>2, PTL DEF Spec
-----------------------------------------------------------------------------
(* What was known by a cutoff.                                             *)

\* P is what of F was known by the cutoff: its first n facts.
KnownPart(P, F, n, cutoff) ==
    /\ n \in Nat /\ DOMAIN P = 1..n /\ 1..n \subseteq DOMAIN F /\ DOMAIN F \subseteq Nat \ {0}
    /\ \A e \in 1..n : P[e] = F[e]
    /\ \A e \in DOMAIN F : (F[e].known <= cutoff) <=> e \in 1..n

\* Facts stand in the order they became known, so a cutoff cuts off their end.
LEMMA KnownByIsKnownPart ==
    ASSUME LineageInv, NEW cutoff \in Int
    PROVE  \E n : KnownPart(KnownBy(cutoff), facts, n, cutoff)
<1> DEFINE K == {e \in DOMAIN facts : facts[e].known <= cutoff}
           T == DOMAIN facts \ K
<1>1. /\ facts \in Seq(FactRecords) /\ Len(facts) \in Nat /\ DOMAIN facts = 1..Len(facts)
      /\ \A d, e \in DOMAIN facts : d < e => facts[d].known <= facts[e].known
      /\ \A e \in DOMAIN facts : facts[e].known \in Int
  <2>1. facts \in Seq(FactRecords)
    BY DEF LineageInv, Orderly
  <2>2. \A e \in DOMAIN facts : facts[e] \in FactRecords
    BY <2>1
  <2> QED BY <2>1, <2>2 DEF LineageInv, Orderly, FactRecords
<1>2. PICK n \in 0..Len(facts) : K = 1..n
  <2>1. CASE T = {}
    <3>1. K = 1..Len(facts)
      BY <2>1, <1>1
    <3> QED BY <3>1, <1>1
  <2>2. CASE T # {}
    <3>1. T \in SUBSET Nat
      BY <1>1
    <3>2. PICK x \in T : \A y \in T : x <= y
      <4> HIDE DEF T
      <4> QED BY <2>2, <3>1, LeastNatural
    <3>3. x \in 1..Len(facts) /\ facts[x].known > cutoff
      BY <1>1
    <3>4. K = 1..(x - 1)
      <4>1. ASSUME NEW e \in K PROVE e \in 1..(x - 1)
        <5>1. e < x
          <6> SUFFICES ASSUME x <= e PROVE FALSE
            BY <1>1, <3>3
          <6>1. facts[e].known >= facts[x].known
            BY <1>1, <3>3
          <6> QED BY <6>1, <3>3, <1>1
        <5> QED BY <5>1, <1>1, <3>3
      <4>2. ASSUME NEW e \in 1..(x - 1) PROVE e \in K
        <5>1. e \in DOMAIN facts
          BY <1>1, <3>3
        <5>2. e \notin T
          <6> HIDE DEF T
          <6> QED BY <3>2, <3>3, <1>1
        <5> QED BY <5>1, <5>2
      <4> QED BY <4>1, <4>2
    <3> QED BY <3>3, <3>4
  <2> QED BY <2>1, <2>2
<1>3. Cardinality(K) = n
  <2>1. Cardinality(1..n) = n
    BY FS_Interval
  <2> QED BY <2>1, <1>2
<1>4. KnownBy(cutoff) = SubSeq(facts, 1, n)
  BY <1>3 DEF KnownBy
<1>5. /\ DOMAIN SubSeq(facts, 1, n) = 1..n
      /\ \A e \in 1..n : SubSeq(facts, 1, n)[e] = facts[e]
  BY <1>1
<1>6. \A e \in DOMAIN facts : (facts[e].known <= cutoff) <=> e \in 1..n
  BY <1>2
<1> QED BY <1>1, <1>4, <1>5, <1>6 DEF KnownPart

LEMMA EventsOfKnownPart ==
    ASSUME NEW P, NEW F, NEW n, NEW cutoff, KnownPart(P, F, n, cutoff), NEW l, NEW kinds
    PROVE  EventsOf(P, l, kinds) = {e \in EventsOf(F, l, kinds) : e \in 1..n}
BY DEF KnownPart, EventsOf

LEMMA VisibleEndsAgree ==
    ASSUME NEW P, NEW F, NEW n, NEW cutoff, KnownPart(P, F, n, cutoff), NEW l
    PROVE  VisibleEnds(P, l, cutoff) = VisibleEnds(F, l, cutoff)
              /\ VisibleEnds(F, l, cutoff) \subseteq 1..n
<1> DEFINE E == {e \in EventsOf(F, l, TerminalKinds) : F[e].known <= cutoff}
<1>1. E \subseteq 1..n
  BY DEF KnownPart, EventsOf
<1>2. {e \in EventsOf(P, l, TerminalKinds) : P[e].known <= cutoff} = E
  <2>1. EventsOf(P, l, TerminalKinds) = {e \in EventsOf(F, l, TerminalKinds) : e \in 1..n}
    BY EventsOfKnownPart
  <2>2. \A e \in 1..n : P[e] = F[e]
    BY DEF KnownPart
  <2> QED BY <1>1, <2>1, <2>2
<1>3. HeadsOf(P, E) = HeadsOf(F, E)
  <2>1. \A e \in E : P[e] = F[e]
    BY <1>1 DEF KnownPart
  <2> HIDE DEF E
  <2> QED BY <2>1 DEF HeadsOf, Superseded
<1>4. HeadsOf(F, E) \subseteq E
  BY DEF HeadsOf
<1> QED BY <1>1, <1>2, <1>3, <1>4 DEF VisibleEnds

\* A line with a commitment by the cutoff has no later one.
ChainKnown(F, n, l) == EventsOf(F, l, CommitmentKinds) \subseteq 1..n

LEMMA CommitmentsAgree ==
    ASSUME NEW P, NEW F, NEW n, NEW cutoff, KnownPart(P, F, n, cutoff), NEW l,
           ChainKnown(F, n, l)
    PROVE  /\ CommitmentOf(P, l, cutoff) = CommitmentOf(F, l, cutoff)
           /\ CommitmentOf(F, l, cutoff) \in 0..n
<1> DEFINE chain == EventsOf(F, l, CommitmentKinds)
           Usable(R, heads) == {e \in heads : /\ heads = {e}
                                              /\ \A c \in chain : R[c].known <= cutoff
                                              /\ R[e].known <= R[e].occurred}
<1>1. chain \subseteq 1..n /\ EventsOf(P, l, CommitmentKinds) = chain
  BY EventsOfKnownPart DEF ChainKnown
<1>2. HeadsOf(P, chain) = HeadsOf(F, chain) /\ HeadsOf(F, chain) \subseteq chain
  <2>1. \A e \in chain : P[e] = F[e]
    BY <1>1 DEF KnownPart
  <2> HIDE DEF chain
  <2> QED BY <2>1 DEF HeadsOf, Superseded
<1>3. \A e \in chain : P[e] = F[e]
  BY <1>1 DEF KnownPart
<1>4. Usable(P, HeadsOf(P, chain)) = Usable(F, HeadsOf(F, chain))
  BY <1>2, <1>3
<1>5. CommitmentOf(F, l, cutoff) =
         IF Usable(F, HeadsOf(F, chain)) = {} THEN 0
         ELSE CHOOSE e \in Usable(F, HeadsOf(F, chain)) : TRUE
  BY DEF CommitmentOf
<1>6. CommitmentOf(P, l, cutoff) =
         IF Usable(P, HeadsOf(P, chain)) = {} THEN 0
         ELSE CHOOSE e \in Usable(P, HeadsOf(P, chain)) : TRUE
  BY <1>1 DEF CommitmentOf
<1>7. Usable(F, HeadsOf(F, chain)) \subseteq 1..n
  BY <1>1, <1>2
<1>8. n \in Nat
  BY DEF KnownPart
<1> HIDE DEF Usable, chain
<1> QED BY <1>4, <1>5, <1>6, <1>7, <1>8

LEMMA CandidatesAgree ==
    ASSUME LineageInv, NEW cutoff \in Int, NEW P, NEW n, KnownPart(P, facts, n, cutoff), NEW l,
           ~ Backdated(cutoff), ~ Recommitted(cutoff)
    PROVE  /\ CandidateLines(P, lines, l, cutoff) = CandidateLines(facts, lines, l, cutoff)
           /\ \A k \in CandidateLines(facts, lines, l, cutoff) : ChainKnown(facts, n, k)
<1>1. ASSUME NEW e \in DOMAIN facts, Committed(facts, e), e \notin 1..n
      PROVE  facts[e].parent = 0 /\ facts[e].occurred > cutoff
  <2>1. facts[e] \in FactRecords
    BY DEF LineageInv, Orderly
  <2>2. facts[e].known \in Int /\ facts[e].occurred \in Int
    BY <2>1 DEF FactRecords
  <2>3. facts[e].known > cutoff
    BY <1>1, <2>2 DEF KnownPart
  <2>4. e \in KnownAfter(cutoff, "committed")
    BY <1>1, <2>3 DEF KnownAfter, Committed
  <2> QED BY <2>2, <2>4 DEF Backdated, Recommitted
<1>2. \A k : EventsOf(P, k, CommitmentKinds) = {e \in EventsOf(facts, k, CommitmentKinds) : e \in 1..n}
  BY EventsOfKnownPart
<1>3. \A k : \A e \in EventsOf(facts, k, CommitmentKinds) :
         facts[e].occurred <= cutoff => e \in 1..n
  <2> SUFFICES ASSUME NEW k, NEW e \in EventsOf(facts, k, CommitmentKinds),
                      facts[e].occurred <= cutoff, e \notin 1..n
               PROVE  FALSE
    OBVIOUS
  <2>1. e \in DOMAIN facts /\ Committed(facts, e)
    BY DEF EventsOf, CommitmentKinds, Committed
  <2>2. facts[e].occurred \in Int
    <3>1. facts[e] \in FactRecords
      BY <2>1 DEF LineageInv, Orderly
    <3> QED BY <3>1 DEF FactRecords
  <2> QED BY <1>1, <2>1, <2>2
<1>4. \A e \in 1..n : P[e] = facts[e]
  BY DEF KnownPart
<1>5. CandidateLines(P, lines, l, cutoff) = CandidateLines(facts, lines, l, cutoff)
  BY <1>2, <1>3, <1>4 DEF CandidateLines
<1>6. ASSUME NEW k \in CandidateLines(facts, lines, l, cutoff)
      PROVE  ChainKnown(facts, n, k)
  <2> SUFFICES ASSUME NEW f \in EventsOf(facts, k, CommitmentKinds), f \notin 1..n PROVE FALSE
    BY DEF ChainKnown
  <2>1. PICK e \in EventsOf(facts, k, CommitmentKinds) : facts[e].occurred <= cutoff
    BY DEF CandidateLines
  <2>2. e \in 1..n
    BY <1>3, <2>1
  <2>3. /\ e \in DOMAIN facts /\ Committed(facts, e) /\ facts[e].line = k
        /\ f \in DOMAIN facts /\ Committed(facts, f) /\ facts[f].line = k
    BY DEF EventsOf, CommitmentKinds, Committed
  <2>4. f <= e
    BY <1>1, <2>3 DEF LineageInv, Orderly
  <2>5. f \in Nat \ {0} /\ e \in Nat /\ n \in Nat
    BY <2>2, <2>3 DEF KnownPart
  <2> QED BY <2>2, <2>4, <2>5
<1> QED BY <1>5, <1>6

LEMMA SnapshotsAgree ==
    ASSUME LineageInv, NEW cutoff \in Int, NEW P, NEW n, KnownPart(P, facts, n, cutoff), NEW l,
           ~ Backdated(cutoff), ~ Recommitted(cutoff)
    PROVE  Snapshot(P, lines, l, cutoff) = Snapshot(facts, lines, l, cutoff)
<1> DEFINE candidates == CandidateLines(facts, lines, l, cutoff)
           Commit(F) == [k \in candidates |-> CommitmentOf(F, k, cutoff)]
           Load(F, com) == {k \in candidates : /\ lines[k].supplier = lines[l].supplier
                                               /\ F[com[k]].occurred < cutoff}
           Ends(F, load) == [k \in load |-> VisibleEnds(F, k, cutoff)]
           Of(F) == IF \/ \E k \in candidates : Commit(F)[k] = 0
                       \/ \E k \in Load(F, Commit(F)) :
                             EndsOutOfOrder(F, Ends(F, Load(F, Commit(F)))[k],
                                            F[Commit(F)[k]].occurred)
                    THEN Unresolved
                    ELSE Cardinality({k \in Load(F, Commit(F)) :
                                        Ends(F, Load(F, Commit(F)))[k] = {}})
<1>1. CandidateLines(P, lines, l, cutoff) = candidates
  BY CandidatesAgree
<1>2. Snapshot(facts, lines, l, cutoff) = Of(facts) /\ Snapshot(P, lines, l, cutoff) = Of(P)
  BY <1>1 DEF Snapshot
<1>3. Commit(P) = Commit(facts) /\ \A k \in candidates : Commit(facts)[k] \in 0..n
  <2>1. \A k \in candidates : /\ CommitmentOf(P, k, cutoff) = CommitmentOf(facts, k, cutoff)
                              /\ CommitmentOf(facts, k, cutoff) \in 0..n
    BY CandidatesAgree, CommitmentsAgree
  <2> QED BY <2>1
<1>4. \A k : VisibleEnds(P, k, cutoff) = VisibleEnds(facts, k, cutoff)
                /\ VisibleEnds(facts, k, cutoff) \subseteq 1..n
  BY VisibleEndsAgree
<1>5. n \in Nat /\ \A e \in 1..n : P[e] = facts[e]
  BY DEF KnownPart
<1>6. CASE \E k \in candidates : Commit(facts)[k] = 0
  <2> HIDE DEF candidates, Commit, Load, Ends
  <2> QED BY <1>2, <1>3, <1>6
<1>7. CASE ~ \E k \in candidates : Commit(facts)[k] = 0
  <2>1. \A k \in candidates : P[Commit(facts)[k]] = facts[Commit(facts)[k]]
    <3> HIDE DEF candidates, Commit
    <3> QED BY <1>3, <1>5, <1>7
  <2>2. Load(P, Commit(P)) = Load(facts, Commit(facts))
    <3> HIDE DEF candidates, Commit
    <3> QED BY <1>3, <2>1
  <2>3. Ends(P, Load(P, Commit(P))) = Ends(facts, Load(facts, Commit(facts)))
    <3>1. Ends(P, Load(facts, Commit(facts))) = Ends(facts, Load(facts, Commit(facts)))
      <4> HIDE DEF Load
      <4> QED BY <1>4
    <3> QED BY <2>2, <3>1
  <2>4. \A k \in Load(facts, Commit(facts)) :
           /\ Ends(facts, Load(facts, Commit(facts)))[k] \subseteq 1..n
           /\ k \in candidates
    <3>1. Load(facts, Commit(facts)) \subseteq candidates
      OBVIOUS
    <3> HIDE DEF Load, candidates
    <3> QED BY <3>1, <1>4
  <2>5. \A E, o : E \subseteq 1..n => (EndsOutOfOrder(P, E, o) <=> EndsOutOfOrder(facts, E, o))
    BY <1>5 DEF EndsOutOfOrder
  <2> HIDE DEF candidates, Commit, Load, Ends
  <2> QED BY <1>2, <1>3, <1>7, <2>1, <2>2, <2>3, <2>4, <2>5
<1> QED BY <1>6, <1>7

LEMMA PromisesAgree ==
    ASSUME LineageInv, NEW cutoff \in Int, NEW P, NEW n, KnownPart(P, facts, n, cutoff), NEW l,
           ~ Repromised(l, cutoff)
    PROVE  FrozenPromise(P, l, cutoff) = FrozenPromise(facts, l, cutoff)
<1> DEFINE E == PromisesAt(facts, l, cutoff)
<1>1. /\ n \in Nat /\ \A e \in 1..n : P[e] = facts[e]
      /\ \A e \in DOMAIN facts : (facts[e].known <= cutoff) <=> e \in 1..n
  BY DEF KnownPart
<1>2. \A kinds : EventsOf(P, l, kinds) = {e \in EventsOf(facts, l, kinds) : e \in 1..n}
  BY EventsOfKnownPart
<1>3. E \subseteq 1..n /\ PromisesAt(P, l, cutoff) = E
  BY <1>1, <1>2 DEF PromisesAt, EventsOf
<1>4. HeadsOf(P, E) = HeadsOf(facts, E) /\ HeadsOf(facts, E) \subseteq E
  <2>1. \A e \in E : P[e] = facts[e]
    BY <1>1, <1>3
  <2> HIDE DEF E
  <2> QED BY <2>1 DEF HeadsOf, Superseded
<1>5. ASSUME NEW e \in EventsOf(facts, l, {"promise_recorded"}), facts[e].parent # 0
      PROVE  /\ e \in 1..n /\ facts[e].parent \in 1..n
  <2>1. /\ e \in DOMAIN facts /\ facts[e] \in FactRecords /\ facts[e].parent < e
        /\ facts[e].kind = "promise_recorded" /\ facts[e].line = l
    BY DEF LineageInv, Orderly, EventsOf
  <2>2. facts[e].known \in Int /\ facts[e].parent \in Nat
    BY <2>1 DEF FactRecords
  <2>3. e \in 1..n
    <3> SUFFICES ASSUME e \notin 1..n PROVE FALSE
      OBVIOUS
    <3>1. facts[e].known > cutoff
      BY <1>1, <2>1, <2>2
    <3> QED BY <3>1, <2>1, <1>5 DEF Repromised, KnownAfter
  <2> QED BY <1>1, <1>5, <2>1, <2>2, <2>3
<1>6. PromiseRewritten(P, l) <=> PromiseRewritten(facts, l)
  BY <1>1, <1>2, <1>5 DEF PromiseRewritten
<1>7. (\E e \in E : P[e].promised < cutoff) <=> (\E e \in E : facts[e].promised < cutoff)
  <2> HIDE DEF E
  <2> QED BY <1>1, <1>3
<1>8. CASE HeadsOf(facts, E) = {}
  <2>1. Cardinality(HeadsOf(facts, E)) # 1
    BY <1>8, FS_EmptySet
  <2> HIDE DEF E
  <2>2. FrozenPromise(facts, l, cutoff) = None
    BY <2>1 DEF FrozenPromise, E
  <2>3. FrozenPromise(P, l, cutoff) = None
    <3>1. Cardinality(HeadsOf(P, PromisesAt(P, l, cutoff))) # 1
      BY <2>1, <1>3, <1>4
    <3> QED BY <3>1 DEF FrozenPromise
  <2> QED BY <2>2, <2>3
<1>9. CASE HeadsOf(facts, E) # {}
  <2> DEFINE h == CHOOSE e \in HeadsOf(facts, E) : TRUE
  <2>1. h \in HeadsOf(facts, E)
    BY <1>9
  <2>2. P[h] = facts[h]
    <3> HIDE DEF E, h
    <3> QED BY <2>1, <1>1, <1>3, <1>4
  <2>3. FrozenPromise(facts, l, cutoff) =
           IF \/ PromiseRewritten(facts, l)
              \/ \E e \in E : facts[e].promised < cutoff
              \/ Cardinality(HeadsOf(facts, E)) # 1
           THEN None ELSE facts[h].promised
    BY DEF FrozenPromise
  <2>4. FrozenPromise(P, l, cutoff) =
           IF \/ PromiseRewritten(P, l)
              \/ \E e \in E : P[e].promised < cutoff
              \/ Cardinality(HeadsOf(facts, E)) # 1
           THEN None ELSE P[h].promised
    <3> HIDE DEF E
    <3> QED BY <1>3, <1>4 DEF FrozenPromise
  <2> HIDE DEF E, h
  <2> QED BY <1>6, <1>7, <2>2, <2>3, <2>4
<1> QED BY <1>8, <1>9

\* What was learned after a line's cutoff enters neither its load nor its
\* frozen promise (resolve_supplier_load_snapshot and _resolve_frozen_promise,
\* risk.py).
THEOREM LaterFactsIgnored == Spec => []ReadingsIgnoreLaterFacts
<1>1. LineageInv => ReadingsIgnoreLaterFacts
  <2> SUFFICES ASSUME LineageInv, NEW l \in DOMAIN lines, NEW c \in CutoffsOf(l)
               PROVE  /\ \/ Backdated(c) \/ Recommitted(c)
                         \/ Snapshot(facts, lines, l, c) = Snapshot(KnownBy(c), lines, l, c)
                      /\ \/ Repromised(l, c)
                         \/ FrozenPromise(facts, l, c) = FrozenPromise(KnownBy(c), l, c)
    BY DEF ReadingsIgnoreLaterFacts
  <2>1. c \in Int
    <3>1. PICK e \in {CommitmentOf(facts, l, now)} \ {0} : c = facts[e].occurred
      BY DEF CutoffsOf
    <3>2. e \in EventsOf(facts, l, CommitmentKinds)
      BY <3>1 DEF CommitmentOf, HeadsOf
    <3>3. facts[e] \in FactRecords
      BY <3>2 DEF EventsOf, LineageInv, Orderly
    <3> QED BY <3>1, <3>3 DEF FactRecords
  <2>2. PICK n : KnownPart(KnownBy(c), facts, n, c)
    BY <2>1, KnownByIsKnownPart
  <2> QED BY <2>1, <2>2, SnapshotsAgree, PromisesAgree
<1> QED BY <1>1, RecordIsOrderly, PTL
=============================================================================
