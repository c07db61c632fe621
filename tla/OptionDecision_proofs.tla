------------------------ MODULE OptionDecision_proofs ------------------------
(***************************************************************************)
(* The evaluation of a case, for every set of options of the library,      *)
(* every cutoff, every family of complete cases and every set of costs.    *)
(* The last verdict is always that of the case as it stands.  Dominance is *)
(* a strict order on profiles, so whatever is not of the frontier is       *)
(* dominated from it; and every choice of a best option has a member to    *)
(* choose.  From these follow the shape of what is published and what does *)
(* not change when an option gets cheaper.  A fact that stands is the only *)
(* candidate for its rule and is in time, so striking what is late leaves  *)
(* it: no option is kept for the sake of something late.                   *)
(***************************************************************************)
EXTENDS OptionDecision, WellFoundedInduction, FiniteSetTheorems, TLAPS

-----------------------------------------------------------------------------
(* Orders on finite sets.                                                  *)

StrictOrder(S, R) ==
    /\ \A x \in S : <<x, x>> \notin R
    /\ \A x, y, z \in S : <<x, y>> \in R /\ <<y, z>> \in R => <<x, z>> \in R

\* Above every member of a finite ordered set, or at it, is one that nothing
\* exceeds.
LEMMA TopAbove ==
    ASSUME NEW S, IsFiniteSet(S), NEW R, StrictOrder(S, R), NEW p \in S
    PROVE  \E q \in S : (q = p \/ <<q, p>> \in R) /\ \A x \in S : <<x, q>> \notin R
<1> DEFINE Above(q) == {x \in S : <<x, q>> \in R}
<1> DEFINE T == {q \in S : q = p \/ <<q, p>> \in R}
<1> DEFINE A == {Above(q) : q \in T}
<1>1. IsWellFoundedOn(StrictSubsetOrdering(S), FiniteSubsetsOf(S))
  BY FS_StrictSubsetOrderingWellFounded
<1>2. A \subseteq FiniteSubsetsOf(S) /\ A # {}
  <2>1. FiniteSubsetsOf(S) = SUBSET S
    BY FS_FiniteSubsetsOfFinite
  <2>2. p \in T /\ \A q \in T : Above(q) \in SUBSET S
    OBVIOUS
  <2>3. Above(p) \in A /\ \A a \in A : a \in SUBSET S
    BY <2>2
  <2> HIDE DEF A
  <2> QED BY <2>1, <2>3
<1>3. PICK a \in A : \A b \in A : <<b, a>> \notin StrictSubsetOrdering(S)
  <2> HIDE DEF A
  <2> QED BY <1>1, <1>2, WFMin
<1>4. PICK q \in T : a = Above(q)
  OBVIOUS
<1>5. ASSUME NEW x \in S, <<x, q>> \in R PROVE FALSE
  <2>1. x \in T
    BY <1>4, <1>5 DEF StrictOrder
  <2>2. Above(x) \in A
    BY <2>1
  <2>3. Above(x) \subseteq a
    BY <1>4, <1>5 DEF StrictOrder
  <2>4. x \in a /\ x \notin Above(x)
    BY <1>4, <1>5 DEF StrictOrder
  <2>5. a \in SUBSET S /\ Above(x) \in SUBSET S
    BY <1>4
  <2>6. <<Above(x), a>> \in StrictSubsetOrdering(S)
    BY <2>3, <2>4, <2>5 DEF StrictSubsetOrdering
  <2> QED BY <1>3, <2>2, <2>6
<1> QED BY <1>4, <1>5

\* A finite set that is totally ordered has a first member.
LEMMA FirstExists ==
    ASSUME NEW S, IsFiniteSet(S), S # {}, NEW R, StrictOrder(S, R),
           \A x, y \in S : x # y => <<x, y>> \in R \/ <<y, x>> \in R
    PROVE  \E q \in S : \A x \in S \ {q} : <<q, x>> \in R
<1>1. PICK p \in S : TRUE
  OBVIOUS
<1>2. PICK q \in S : \A x \in S : <<x, q>> \notin R
  BY <1>1, TopAbove
<1> QED BY <1>2

\* A set of naturals that is not empty has a least member.
LEMMA LeastNatural ==
    ASSUME NEW S \in SUBSET Nat, S # {}
    PROVE  \E x \in S : \A y \in S : x <= y
<1> DEFINE R == OpToRel(<, Nat)
<1>1. IsWellFoundedOn(R, Nat)
  BY NatLessThanWellFounded
<1>2. PICK x \in S : \A y \in S : <<y, x>> \notin R
  BY <1>1, WFMin
<1>3. \A y \in S : y < x => <<y, x>> \in R
  BY DEF OpToRel
<1>4. ASSUME NEW y \in S PROVE x <= y
  <2>1. ~ (y < x)
    BY <1>2, <1>3
  <2>2. x \in Nat /\ y \in Nat
    OBVIOUS
  <2> HIDE DEF R
  <2> QED BY <2>1, <2>2
<1> QED BY <1>4

LEMMA LibraryPlaces ==
    /\ \A o \in Library : Place(o) \in Int
    /\ \A o, p \in Library : Place(o) = Place(p) => o = p
    /\ IsFiniteSet(Options)
    /\ \A S \in SUBSET Options : IsFiniteSet(S)
<1>1. ASSUME NEW o \in Library
      PROVE  Place(o) \in 1 .. 10 /\ DisplayOrder[Place(o)] = o
  <2>1. DOMAIN DisplayOrder = 1 .. 10
    BY DEF DisplayOrder
  <2>2. \E i \in 1 .. 10 : DisplayOrder[i] = o
    <3>1. o \in {"PROTECTED_PRODUCTION_SLOT", "QUALIFIED_SOURCE_SPLIT", "PREQUALIFIED_ALTERNATE",
                 "RELEASE_TIMING_ADJUSTMENT", "CAPACITY_BACKED_ACCELERATION", "PHASED_DELIVERY",
                 "DEPENDENT_WORK_RESEQUENCING", "CONTRACTUAL_ESCALATION", "ACCEPT_AND_MONITOR",
                 "PROTECTED_SLOT_WITH_PHASED_DELIVERY"}
      BY DEF Library, RequiredRules
    <3>2. /\ DisplayOrder[1] = "PROTECTED_PRODUCTION_SLOT"
          /\ DisplayOrder[2] = "QUALIFIED_SOURCE_SPLIT"
          /\ DisplayOrder[3] = "PREQUALIFIED_ALTERNATE"
          /\ DisplayOrder[4] = "RELEASE_TIMING_ADJUSTMENT"
          /\ DisplayOrder[5] = "CAPACITY_BACKED_ACCELERATION"
          /\ DisplayOrder[6] = "PHASED_DELIVERY"
          /\ DisplayOrder[7] = "DEPENDENT_WORK_RESEQUENCING"
          /\ DisplayOrder[8] = "CONTRACTUAL_ESCALATION"
          /\ DisplayOrder[9] = "ACCEPT_AND_MONITOR"
          /\ DisplayOrder[10] = "PROTECTED_SLOT_WITH_PHASED_DELIVERY"
      BY DEF DisplayOrder, Release, Monitor, Composite
    <3> QED BY <3>1, <3>2
  <2> QED BY <2>1, <2>2 DEF Place
<1>2. IsFiniteSet(Library)
  <2> DEFINE f == [o \in Library |-> Place(o)]
  <2>1. f \in Injection(Library, 1 .. 10)
    BY <1>1 DEF Injection, IsInjective
  <2>2. IsFiniteSet(1 .. 10)
    <3>1. 1 \in Int /\ 10 \in Int
      OBVIOUS
    <3> HIDE DEF f
    <3> QED BY <3>1, FS_Interval
  <2> QED BY <2>1, <2>2, FS_Injection
<1>3. \A S \in SUBSET Options : IsFiniteSet(S)
  BY <1>2, FS_Subset, OptionsAssumption
<1> QED BY <1>1, <1>3

-----------------------------------------------------------------------------
(* Profiles and what is chosen of options that have one.                   *)

Units == {"days", "currency", "rank", "none"} \cup DayBases
Readings == [state : {"APPLICABLE", "NOT_APPLICABLE", "INCOMPARABLE"}, value : Int, unit : Units]
Profiles == [Dimensions -> Readings]

LEMMA BetterIsAnOrder ==
    ASSUME NEW d, NEW x \in Readings, NEW y \in Readings, NEW z \in Readings,
           Comparable(x, y) \/ BothNotApplicable(x, y), ~ Better(d, y, x),
           Comparable(y, z) \/ BothNotApplicable(y, z), ~ Better(d, z, y)
    PROVE  /\ Comparable(x, z) \/ BothNotApplicable(x, z)
           /\ ~ Better(d, z, x)
           /\ Better(d, x, y) => Better(d, x, z)
  BY DEF Readings, Comparable, BothNotApplicable, Better

LEMMA DominanceIsAnOrder ==
    /\ \A p \in Profiles : ~ Dominates(p, p)
    /\ \A p, q, s \in Profiles : Dominates(p, q) /\ Dominates(q, s) => Dominates(p, s)
<1>1. ASSUME NEW p \in Profiles PROVE ~ Dominates(p, p)
  BY DEF Dominates
<1>2. ASSUME NEW p \in Profiles, NEW q \in Profiles, NEW s \in Profiles,
             Dominates(p, q), Dominates(q, s)
      PROVE  Dominates(p, s)
  <2>1. ASSUME NEW d \in Dimensions
        PROVE  /\ Comparable(p[d], s[d]) \/ BothNotApplicable(p[d], s[d])
               /\ ~ Better(d, s[d], p[d])
               /\ Better(d, p[d], q[d]) => Better(d, p[d], s[d])
    <3>1. p[d] \in Readings /\ q[d] \in Readings /\ s[d] \in Readings
      BY DEF Profiles
    <3>2. /\ Comparable(p[d], q[d]) \/ BothNotApplicable(p[d], q[d])
          /\ ~ Better(d, q[d], p[d])
      BY <1>2 DEF Dominates, BlockingDimensions
    <3>3. /\ Comparable(q[d], s[d]) \/ BothNotApplicable(q[d], s[d])
          /\ ~ Better(d, s[d], q[d])
      BY <1>2 DEF Dominates, BlockingDimensions
    <3> QED BY <3>1, <3>2, <3>3, BetterIsAnOrder
  <2>2. BlockingDimensions(p, s) = {}
    BY <2>1 DEF BlockingDimensions
  <2> QED BY <1>2, <2>1, <2>2 DEF Dominates
<1> QED BY <1>1, <1>2

Sensitive == {"VALUE_SENSITIVE", "ROBUSTLY_POSITIVE"}

\* The results of all options, with what the comparison relies on.
GoodResults(r) ==
    /\ DOMAIN r = Options
    /\ \A o \in Options : r[o].net \in Int /\ r[o].profile \in Profiles
    /\ \A o \in EligibleOptions(r) : r[o].status \in Sensitive

LEMMA ChoicesAreFinite ==
    ASSUME NEW r, GoodResults(r)
    PROVE  /\ Robust(r) \subseteq EligibleOptions(r) /\ Frontier(r) \subseteq EligibleOptions(r)
           /\ Universal(r) \subseteq Robust(r)
           /\ EligibleOptions(r) \subseteq Options \ {Monitor}
           /\ IsFiniteSet(EligibleOptions(r))
<1>1. EligibleOptions(r) \subseteq Options \ {Monitor}
  BY DEF EligibleOptions, GoodResults
<1> QED BY <1>1, LibraryPlaces DEF Robust, Frontier, Universal

\* Nothing eligible lies outside what the frontier dominates.
LEMMA FrontierReached ==
    ASSUME NEW r, GoodResults(r), NEW p \in EligibleOptions(r)
    PROVE  \E q \in Frontier(r) : q = p \/ Dominates(r[q].profile, r[p].profile)
<1> DEFINE E == EligibleOptions(r)
<1> DEFINE R == {e \in E \X E : Dominates(r[e[1]].profile, r[e[2]].profile)}
<1>1. IsFiniteSet(E) /\ \A o \in E : r[o].profile \in Profiles
  BY ChoicesAreFinite DEF GoodResults
<1>2. \A x, y \in E : <<x, y>> \in R <=> Dominates(r[x].profile, r[y].profile)
  OBVIOUS
<1>3. StrictOrder(E, R)
  <2> HIDE DEF E, R
  <2> QED BY <1>1, <1>2, DominanceIsAnOrder DEF StrictOrder
<1>4. PICK q \in E : (q = p \/ <<q, p>> \in R) /\ \A x \in E : <<x, q>> \notin R
  <2> p \in E
    OBVIOUS
  <2> HIDE DEF E, R
  <2> QED BY <1>1, <1>3, TopAbove
<1>5. q \in Frontier(r)
  BY <1>2, <1>4 DEF Frontier
<1> QED BY <1>2, <1>4, <1>5

\* Of options that are there one is always the best.
LEMMA BestNetIsThere ==
    ASSUME NEW r, GoodResults(r), NEW S \in SUBSET Options, S # {}
    PROVE  BestNet(r, S) \in S
<1> DEFINE Before(o, p) == r[o].net > r[p].net \/ (~(r[p].net > r[o].net) /\ Place(o) < Place(p))
<1> DEFINE R == {e \in S \X S : Before(e[1], e[2])}
<1>1. IsFiniteSet(S) /\ \A o \in S : r[o].net \in Int /\ o \in Library
  BY LibraryPlaces, OptionsAssumption DEF GoodResults
<1>2. \A x, y \in S : <<x, y>> \in R <=> Before(x, y)
  OBVIOUS
<1>3. StrictOrder(S, R)
  <2>1. ASSUME NEW x \in S PROVE ~ Before(x, x)
    BY <1>1, LibraryPlaces
  <2>2. ASSUME NEW x \in S, NEW y \in S, NEW z \in S, Before(x, y), Before(y, z)
        PROVE  Before(x, z)
    <3>1. /\ r[x].net \in Int /\ r[y].net \in Int /\ r[z].net \in Int
          /\ Place(x) \in Int /\ Place(y) \in Int /\ Place(z) \in Int
      BY <1>1, LibraryPlaces
    <3> QED BY <2>2, <3>1
  <2> HIDE DEF R, Before
  <2> QED BY <1>2, <2>1, <2>2 DEF StrictOrder
<1>4. ASSUME NEW x \in S, NEW y \in S, x # y PROVE Before(x, y) \/ Before(y, x)
  <2>1. /\ r[x].net \in Int /\ r[y].net \in Int
        /\ Place(x) \in Int /\ Place(y) \in Int /\ Place(x) # Place(y)
    BY <1>1, <1>4, LibraryPlaces
  <2> QED BY <2>1
<1>5. \E q \in S : \A x \in S \ {q} : <<q, x>> \in R
  <2> HIDE DEF R, Before
  <2>1. \A x, y \in S : x # y => <<x, y>> \in R \/ <<y, x>> \in R
    BY <1>2, <1>4
  <2> QED BY <1>1, <1>3, <2>1, FirstExists
<1>6. \E q \in S : \A x \in S \ {q} : Before(q, x)
  <2> HIDE DEF Before
  <2> QED BY <1>2, <1>5
<1> QED BY <1>6 DEF BestNet, FirstBy

\* Likewise on a dimension on which they all beat the same option.
LEMMA BestOnIsThere ==
    ASSUME NEW r, GoodResults(r), NEW d \in Dimensions, NEW a \in Options,
           NEW S \in SUBSET Options, S # {},
           \A o \in S : Better(d, r[o].profile[d], r[a].profile[d])
    PROVE  BestOn(r, d, S) \in S
<1> DEFINE v(o) == r[o].profile[d].value
<1> DEFINE Wins(o, p) ==
      \/ Better(d, r[o].profile[d], r[p].profile[d])
      \/ r[o].profile[d] = r[p].profile[d] /\ r[o].net > r[p].net
<1> DEFINE Before(o, p) == Wins(o, p) \/ (~ Wins(p, o) /\ Place(o) < Place(p))
<1> DEFINE R == {e \in S \X S : Before(e[1], e[2])}
<1>1. IsFiniteSet(S) /\ \A o \in S : r[o].net \in Int /\ o \in Library
  BY LibraryPlaces, OptionsAssumption DEF GoodResults
<1>2. \A o \in S \cup {a} : r[o].profile[d] \in Readings
  BY DEF GoodResults, Profiles
<1>3. \A o \in S : v(o) \in Int
  BY <1>2 DEF Readings
<1>4. ASSUME NEW x \in S, NEW y \in S
      PROVE  Wins(x, y) <=> \/ IF d = "SCHEDULE_PROTECTION" THEN v(x) > v(y) ELSE v(x) < v(y)
                            \/ v(x) = v(y) /\ r[x].net > r[y].net
  <2>1. Comparable(r[x].profile[d], r[y].profile[d])
    BY DEF Better, Comparable
  <2>2. r[x].profile[d] = r[y].profile[d] <=> v(x) = v(y)
    BY <1>2, <2>1 DEF Readings, Comparable
  <2> QED BY <2>1, <2>2 DEF Better
<1>5. \A x \in S : /\ v(x) \in Int /\ r[x].net \in Int /\ Place(x) \in Int
                   /\ \A y \in S : x # y => Place(x) # Place(y)
  BY <1>1, <1>3, LibraryPlaces
<1>6. StrictOrder(S, R)
  <2>1. \A x \in S : ~ Before(x, x)
    <3> HIDE DEF v, Wins
    <3> QED BY <1>4, <1>5
  <2>2. ASSUME NEW x \in S, NEW y \in S, NEW z \in S, Before(x, y), Before(y, z)
        PROVE  Before(x, z)
    <3> HIDE DEF v, Wins
    <3> QED BY <1>4, <1>5, <2>2
  <2>3. \A x, y \in S : <<x, y>> \in R <=> Before(x, y)
    OBVIOUS
  <2> HIDE DEF R, Before
  <2> QED BY <2>1, <2>2, <2>3 DEF StrictOrder
<1>7. \A x, y \in S : x # y => Before(x, y) \/ Before(y, x)
  <2> HIDE DEF v, Wins
  <2> QED BY <1>4, <1>5
<1>8. \E q \in S : \A x \in S \ {q} : <<q, x>> \in R
  <2>1. \A x, y \in S : x # y => <<x, y>> \in R \/ <<y, x>> \in R
    <3> HIDE DEF Before
    <3> QED BY <1>7
  <2> HIDE DEF R, Before
  <2> QED BY <1>1, <1>6, <2>1, FirstExists
<1>9. \E q \in S : \A x \in S \ {q} : Before(q, x)
  <2> HIDE DEF Before
  <2> QED BY <1>8
<1> QED BY <1>9 DEF BestOn, FirstBy

-----------------------------------------------------------------------------
(* What is published.                                                      *)

\* The branches of a publication.
Lone(r)    == Cardinality(EligibleOptions(r)) = 1 /\ Robust(r) # {}
Clear(r)   == Cardinality(EligibleOptions(r)) > 1 /\ Universal(r) # {}
Unsure(r)  == /\ Cardinality(EligibleOptions(r)) > 1 /\ Universal(r) = {} /\ Robust(r) # {}
              /\ Robust(r) \cap Frontier(r) = {}
Shaky(r)   == EligibleOptions(r) # {} /\ Robust(r) = {}
Best(r)    == BestNet(r, Frontier(r))
Others(r)  == Frontier(r) \ {Best(r)}

Monitored(r) == Monitor \in DOMAIN r /\ r[Monitor].state = "ACTIVE" /\ r[Monitor].eligible

LEMMA Branches ==
    ASSUME NEW r, GoodResults(r)
    PROVE  /\ EligibleOptions(r) = {} =>
                Publication(r) =
                  IF Monitored(r)
                  THEN Published("RECOMMENDATION",
                                 "MONITORING_FALLBACK_NO_POSITIVE_ACTIVE_OPTION", Monitor, NoOption)
                  ELSE Nothing("NO_OPTION_LEFT")
           /\ Lone(r) => Publication(r) = Published("RECOMMENDATION", "SOLE_ELIGIBLE_OPTION",
                                                   BestNet(r, EligibleOptions(r)), NoOption)
           /\ Clear(r) => LET o == BestNet(r, Universal(r))
                          IN  Publication(r) =
                                Published("RECOMMENDATION", "UNIVERSAL_PARETO_DOMINANCE", o,
                                          BestNet(r, EligibleOptions(r) \ {o}))
           /\ Unsure(r) => Publication(r) = Published("TRADE_OFF", "VALUE_UNCERTAINTY", Best(r),
                                                     BestNet(r, Robust(r)))
           /\ Shaky(r) => Publication(r) =
                            IF Monitored(r)
                            THEN Published("TRADE_OFF", "VALUE_UNCERTAINTY",
                                           BestNet(r, EligibleOptions(r)), Monitor)
                            ELSE Nothing("VALUE_SENSITIVE_BASELINE_UNAVAILABLE")
           /\ EligibleOptions(r) # {} /\ ~ Lone(r) /\ ~ Clear(r) /\ ~ Unsure(r) /\ ~ Shaky(r) =>
                LET pivot == Pivot(r, Best(r), Others(r))
                IN  Publication(r) =
                      IF Frontier(r) = {Best(r)}
                      THEN Published("RECOMMENDATION", "SOLE_ELIGIBLE_OPTION", Best(r), NoOption)
                      ELSE Published("TRADE_OFF", pivot[1], Best(r), pivot[2])
<1> DEFINE E == EligibleOptions(r)
<1>1. /\ E = {} => Robust(r) = {} /\ Universal(r) = {}
      /\ Robust(r) = {} => Universal(r) = {}
      /\ ~ (Cardinality(E) = 1 /\ Cardinality(E) > 1)
  BY ChoicesAreFinite
<1> HIDE DEF E
<1>2. ASSUME E = {}
      PROVE  Publication(r) =
               IF Monitored(r)
               THEN Published("RECOMMENDATION",
                              "MONITORING_FALLBACK_NO_POSITIVE_ACTIVE_OPTION", Monitor, NoOption)
               ELSE Nothing("NO_OPTION_LEFT")
  BY <1>1, <1>2 DEF Publication, Monitored, E
<1>3. ASSUME Lone(r)
      PROVE  Publication(r) = Published("RECOMMENDATION", "SOLE_ELIGIBLE_OPTION",
                                        BestNet(r, E), NoOption)
  BY <1>1, <1>3 DEF Publication, Lone, E
<1>4. ASSUME Clear(r)
      PROVE  Publication(r) = Published("RECOMMENDATION", "UNIVERSAL_PARETO_DOMINANCE",
                                        BestNet(r, Universal(r)),
                                        BestNet(r, E \ {BestNet(r, Universal(r))}))
  BY <1>1, <1>4 DEF Publication, Clear, E
<1>5. ASSUME Unsure(r)
      PROVE  Publication(r) = Published("TRADE_OFF", "VALUE_UNCERTAINTY", Best(r),
                                        BestNet(r, Robust(r)))
  BY <1>1, <1>5 DEF Publication, Unsure, Best, E
<1>6. ASSUME Shaky(r)
      PROVE  Publication(r) =
               IF Monitored(r)
               THEN Published("TRADE_OFF", "VALUE_UNCERTAINTY", BestNet(r, E), Monitor)
               ELSE Nothing("VALUE_SENSITIVE_BASELINE_UNAVAILABLE")
  BY <1>1, <1>6 DEF Publication, Shaky, Monitored, E
<1>7. ASSUME E # {}, ~ Lone(r), ~ Clear(r), ~ Unsure(r), ~ Shaky(r)
      PROVE  Publication(r) =
               IF Frontier(r) = {Best(r)}
               THEN Published("RECOMMENDATION", "SOLE_ELIGIBLE_OPTION", Best(r), NoOption)
               ELSE Published("TRADE_OFF", Pivot(r, Best(r), Others(r))[1], Best(r),
                              Pivot(r, Best(r), Others(r))[2])
  BY <1>1, <1>7 DEF Publication, Lone, Clear, Unsure, Shaky, Best, Others, E
<1> QED BY <1>2, <1>3, <1>4, <1>5, <1>6, <1>7 DEF E

LEMMA FrontierIsThere ==
    ASSUME NEW r, GoodResults(r), EligibleOptions(r) # {}
    PROVE  Best(r) \in Frontier(r)
<1>1. Frontier(r) # {}
  BY FrontierReached
<1>2. Frontier(r) \in SUBSET Options
  BY ChoicesAreFinite
<1> QED BY <1>1, <1>2, BestNetIsThere DEF Best

\* A single eligible option that is robust is universal.
LEMMA LoneIsUniversal ==
    ASSUME NEW r, GoodResults(r), Lone(r)
    PROVE  \E o : EligibleOptions(r) = {o} /\ Universal(r) = {o}
<1>1. PICK o : EligibleOptions(r) = {o}
  BY ChoicesAreFinite, FS_Singleton DEF Lone
<1> QED BY <1>1, ChoicesAreFinite DEF Lone, Universal

\* A robust option that is all of the frontier is universal.
LEMMA SoleFrontierIsUniversal ==
    ASSUME NEW r, GoodResults(r), NEW o \in Robust(r), Frontier(r) = {o}
    PROVE  o \in Universal(r)
<1>1. ASSUME NEW p \in EligibleOptions(r) \ {o}
      PROVE  Dominates(r[o].profile, r[p].profile)
  BY FrontierReached
<1> QED BY <1>1 DEF Universal

\* What is recommended, the baseline aside, is universal.
LEMMA RecommendedIsUniversal ==
    ASSUME NEW r, GoodResults(r), Publication(r).kind = "RECOMMENDATION",
           Publication(r).first # Monitor
    PROVE  Publication(r).first \in Universal(r)
<1>1. EligibleOptions(r) # {}
  BY Branches DEF Published, Nothing
<1>2. CASE Lone(r)
  <2>1. PICK o : EligibleOptions(r) = {o} /\ Universal(r) = {o}
    BY <1>2, LoneIsUniversal
  <2>2. Publication(r).first = BestNet(r, {o})
    <3>1. Publication(r) = Published("RECOMMENDATION", "SOLE_ELIGIBLE_OPTION",
                                     BestNet(r, EligibleOptions(r)), NoOption)
      BY <1>2, Branches
    <3> QED BY <2>1, <3>1 DEF Published
  <2>3. {o} \in SUBSET Options
    BY <2>1, ChoicesAreFinite
  <2>4. BestNet(r, {o}) \in {o}
    BY <2>3, BestNetIsThere
  <2> QED BY <2>1, <2>2, <2>4
<1>3. CASE Clear(r)
  <2>1. Publication(r).first = BestNet(r, Universal(r))
    <3> DEFINE o == BestNet(r, Universal(r))
    <3>1. Publication(r) = Published("RECOMMENDATION", "UNIVERSAL_PARETO_DOMINANCE", o,
                                     BestNet(r, EligibleOptions(r) \ {o}))
      BY <1>3, Branches
    <3> HIDE DEF o
    <3>2. Publication(r).first = o
      BY <3>1 DEF Published
    <3> QED BY <3>2 DEF o
  <2>2. Universal(r) \in SUBSET Options /\ Universal(r) # {}
    BY <1>3, ChoicesAreFinite DEF Clear
  <2> QED BY <2>1, <2>2, BestNetIsThere
<1>4. CASE ~ Lone(r) /\ ~ Clear(r)
  <2>1. ~ Unsure(r) /\ ~ Shaky(r)
    <3>1. CASE Unsure(r)
      <4>1. Publication(r) = Published("TRADE_OFF", "VALUE_UNCERTAINTY", Best(r),
                                       BestNet(r, Robust(r)))
        BY <3>1, Branches
      <4> QED BY <4>1 DEF Published
    <3>2. CASE Shaky(r)
      <4>1. Publication(r) =
              IF Monitored(r)
              THEN Published("TRADE_OFF", "VALUE_UNCERTAINTY",
                             BestNet(r, EligibleOptions(r)), Monitor)
              ELSE Nothing("VALUE_SENSITIVE_BASELINE_UNAVAILABLE")
        BY <3>2, Branches
      <4> QED BY <4>1 DEF Published, Nothing
    <3> QED BY <3>1, <3>2
  <2>2. Frontier(r) = {Best(r)} /\ Publication(r).first = Best(r)
    <3> DEFINE pivot == Pivot(r, Best(r), Others(r))
    <3>1. Publication(r) =
            IF Frontier(r) = {Best(r)}
            THEN Published("RECOMMENDATION", "SOLE_ELIGIBLE_OPTION", Best(r), NoOption)
            ELSE Published("TRADE_OFF", pivot[1], Best(r), pivot[2])
      BY <1>1, <1>4, <2>1, Branches
    <3> HIDE DEF pivot
    <3> QED BY <3>1 DEF Published
  <2>3. Robust(r) # {} /\ Cardinality(EligibleOptions(r)) # 1
    BY <1>1, <1>4, <2>1 DEF Lone, Shaky
  <2>4. Cardinality(EligibleOptions(r)) \in Nat \ {0}
    BY <1>1, ChoicesAreFinite, FS_CardinalityType, FS_EmptySet
  <2>5. Robust(r) \cap Frontier(r) # {}
    BY <1>4, <2>1, <2>3, <2>4 DEF Clear, Unsure
  <2>6. Best(r) \in Robust(r)
    BY <2>2, <2>5
  <2> QED BY <2>2, <2>6, SoleFrontierIsUniversal
<1> QED BY <1>2, <1>3, <1>4

\* The second candidate of a split frontier is another option of it, and is
\* not chosen for want of certainty.
LEMMA PivotIsReal ==
    ASSUME NEW r, GoodResults(r), NEW a \in Frontier(r), NEW S \in SUBSET Frontier(r), S # {}
    PROVE  Pivot(r, a, S)[2] \in S /\ Pivot(r, a, S)[1] # "VALUE_UNCERTAINTY"
<1> DEFINE same == {o \in S : SameProfile(r[a].profile, r[o].profile)}
<1> DEFINE tied == {o \in same : r[o].net = r[a].net}
<1> DEFINE Beat(d) == {o \in S : Better(d, r[o].profile[d], r[a].profile[d])}
<1> DEFINE beaten == {i \in DOMAIN DimensionOrder : Beat(DimensionOrder[i]) # {}}
<1> DEFINE d0 == DimensionOrder[Min(beaten)]
<1>1. S \in SUBSET Options /\ same \in SUBSET Options /\ tied \in SUBSET Options /\ a \in Options
  BY ChoicesAreFinite
<1>2. ASSUME tied # {} PROVE Pivot(r, a, S) = <<"TIED_UNDER_POLICY", BestNet(r, tied)>>
  BY <1>2 DEF Pivot
<1>3. ASSUME tied = {}, beaten # {} PROVE Pivot(r, a, S) = <<d0, BestOn(r, d0, Beat(d0))>>
  BY <1>3 DEF Pivot
<1>4. ASSUME tied = {}, beaten = {}, same # {}
      PROVE  Pivot(r, a, S) = <<"EQUAL_COMPARISON_PROFILE", BestNet(r, same)>>
  BY <1>4 DEF Pivot
<1>5. ASSUME tied = {}, beaten = {}, same = {}
      PROVE  Pivot(r, a, S) = <<"INCOMPARABLE_EVIDENCE_GAP", BestNet(r, S)>>
  BY <1>5 DEF Pivot
<1>6. ASSUME beaten # {} PROVE d0 \in Dimensions /\ Beat(d0) # {} /\ Beat(d0) \in SUBSET Options
  <2>1. beaten \in SUBSET Nat
    BY DEF DimensionOrder
  <2>2. Min(beaten) \in beaten
    <3>1. \E i \in beaten : \A j \in beaten : i <= j
      <4> HIDE DEF beaten
      <4> QED BY <1>6, <2>1, LeastNatural
    <3> HIDE DEF beaten
    <3> QED BY <3>1 DEF Min
  <2> QED BY <1>1, <2>2 DEF Dimensions
<1>7. "VALUE_UNCERTAINTY" \notin Dimensions
  BY DEF Dimensions, DimensionOrder
<1>8. beaten # {} => BestOn(r, d0, Beat(d0)) \in Beat(d0)
  <2>1. \A o \in Beat(d0) : Better(d0, r[o].profile[d0], r[a].profile[d0])
    OBVIOUS
  <2> HIDE DEF Beat, d0, beaten
  <2> QED BY <1>1, <1>6, <2>1, BestOnIsThere
<1>9. Beat(d0) \subseteq S /\ tied \subseteq S /\ same \subseteq S
  OBVIOUS
<1> HIDE DEF same, tied, Beat, beaten, d0
<1> QED BY <1>1, <1>2, <1>3, <1>4, <1>5, <1>6, <1>7, <1>8, <1>9, BestNetIsThere

\* A trade-off offers two options that can both be had.
LEMMA TradeOffIsReal ==
    ASSUME NEW r, GoodResults(r), Publication(r).kind = "TRADE_OFF"
    PROVE  LET a == Publication(r).first
               b == Publication(r).second
           IN  \/ /\ Publication(r).basis = "VALUE_UNCERTAINTY"
                  /\ a \in EligibleOptions(r) \ Robust(r) /\ b = Monitor /\ Monitored(r)
               \/ /\ Publication(r).basis = "VALUE_UNCERTAINTY"
                  /\ a \in Frontier(r) \ Robust(r) /\ b \in Robust(r)
               \/ /\ Publication(r).basis # "VALUE_UNCERTAINTY"
                  /\ a \in Frontier(r) /\ b \in Frontier(r) \ {a}
<1>1. EligibleOptions(r) # {} /\ ~ Lone(r) /\ ~ Clear(r)
  <2>1. CASE EligibleOptions(r) = {}
    <3>1. Publication(r) =
            IF Monitored(r)
            THEN Published("RECOMMENDATION",
                           "MONITORING_FALLBACK_NO_POSITIVE_ACTIVE_OPTION", Monitor, NoOption)
            ELSE Nothing("NO_OPTION_LEFT")
      BY <2>1, Branches
    <3> QED BY <3>1 DEF Published, Nothing
  <2>2. CASE Lone(r)
    <3>1. Publication(r) = Published("RECOMMENDATION", "SOLE_ELIGIBLE_OPTION",
                                     BestNet(r, EligibleOptions(r)), NoOption)
      BY <2>2, Branches
    <3> QED BY <3>1 DEF Published
  <2>3. CASE Clear(r)
    <3> DEFINE o == BestNet(r, Universal(r))
    <3>1. Publication(r) = Published("RECOMMENDATION", "UNIVERSAL_PARETO_DOMINANCE", o,
                                     BestNet(r, EligibleOptions(r) \ {o}))
      BY <2>3, Branches
    <3> QED BY <3>1 DEF Published
  <2> QED BY <2>1, <2>2, <2>3
<1>2. Best(r) \in Frontier(r)
  BY <1>1, FrontierIsThere
<1>3. CASE Unsure(r)
  <2>1. Publication(r) = Published("TRADE_OFF", "VALUE_UNCERTAINTY", Best(r),
                                   BestNet(r, Robust(r)))
    BY <1>3, Branches
  <2>2. Robust(r) \in SUBSET Options /\ Robust(r) # {} /\ Robust(r) \cap Frontier(r) = {}
    BY <1>3, ChoicesAreFinite DEF Unsure
  <2>3. BestNet(r, Robust(r)) \in Robust(r)
    BY <2>2, BestNetIsThere
  <2> QED BY <1>2, <2>1, <2>2, <2>3 DEF Published
<1>4. CASE Shaky(r)
  <2>1. Publication(r) =
          IF Monitored(r)
          THEN Published("TRADE_OFF", "VALUE_UNCERTAINTY", BestNet(r, EligibleOptions(r)), Monitor)
          ELSE Nothing("VALUE_SENSITIVE_BASELINE_UNAVAILABLE")
    BY <1>4, Branches
  <2>2. BestNet(r, EligibleOptions(r)) \in EligibleOptions(r)
    BY <1>1, ChoicesAreFinite, BestNetIsThere
  <2>3. Robust(r) = {}
    BY <1>4 DEF Shaky
  <2> QED BY <2>1, <2>2, <2>3 DEF Published, Nothing
<1>5. CASE ~ Unsure(r) /\ ~ Shaky(r)
  <2> DEFINE pivot == Pivot(r, Best(r), Others(r))
  <2>1. Publication(r) =
          IF Frontier(r) = {Best(r)}
          THEN Published("RECOMMENDATION", "SOLE_ELIGIBLE_OPTION", Best(r), NoOption)
          ELSE Published("TRADE_OFF", pivot[1], Best(r), pivot[2])
    BY <1>1, <1>5, Branches
  <2>2. /\ Frontier(r) # {Best(r)} /\ Publication(r).basis = pivot[1]
        /\ Publication(r).first = Best(r) /\ Publication(r).second = pivot[2]
    <3> HIDE DEF pivot
    <3> QED BY <2>1 DEF Published
  <2>3. Others(r) # {} /\ Others(r) \in SUBSET Frontier(r)
    BY <1>2, <2>2 DEF Others
  <2>4. pivot[2] \in Others(r) /\ pivot[1] # "VALUE_UNCERTAINTY"
    BY <1>2, <2>3, PivotIsReal
  <2> HIDE DEF pivot
  <2> QED BY <1>2, <2>2, <2>4 DEF Others
<1> QED BY <1>3, <1>4, <1>5

-----------------------------------------------------------------------------
(* The results of a case.                                                  *)

LEMMA StandingFacts ==
    ASSUME NEW c \in CaseRecords, NEW code, NEW o
    PROVE  Standing(c, code, o) \subseteq c.facts /\ Standing(c, code, o) \subseteq Facts
<1>1. c.facts \subseteq Facts
  BY DEF CaseRecords, FiniteSetsOf
<1>2. Candidates(c, code, o) \subseteq c.facts
  BY DEF Candidates
<1> QED BY <1>1, <1>2 DEF Standing

LEMMA ReadingsAre ==
    /\ \A n \in Int, u \in Units : Reading(n, u) \in Readings
    /\ Unknown \in Readings /\ NotApplicable \in Readings
    /\ {"days", "currency", "rank"} \subseteq Units
  BY DEF Reading, Unknown, NotApplicable, Readings, Units

LEMMA AmountsAre ==
    ASSUME NEW v \in Values, NEW o \in Options, NEW end \in {"lower", "central", "upper"}
    PROVE  /\ v.cost[o].amount \in Int /\ v.recoverable[o].amount \in Int
           /\ v.translation[o].amount \in Int /\ v.rate.amount \in Int
           /\ v.effect[end] \in Int /\ v.consequence[o][end] \in Int
<1>1. /\ v.cost[o] \in Amounts /\ v.recoverable[o] \in Amounts /\ v.translation[o] \in Amounts
      /\ v.rate \in Amounts /\ v.effect \in Effects /\ v.consequence[o] \in Consequences
  BY DEF Values
<1>2. \A a \in Amounts : a.amount \in Int
  BY DEF Amounts
<1>3. \A a \in Effects \cup Consequences : a[end] \in Int
  BY DEF Effects, Consequences
<1> QED BY <1>1, <1>2, <1>3

LEMMA NetIsANumber ==
    ASSUME NEW v \in Values, NEW o \in Options, NEW end \in {"lower", "central", "upper"}
    PROVE  Net(v, o, end) \in Int /\ DaysProtected(v, o, end) \in Int
<1>1. Parts \in Int
  BY PartsAssumption
<1>2. DaysProtected(v, o, end) \in Int
  BY <1>1, AmountsAre DEF DaysProtected
<1>3. v.cost[o].amount \in Int /\ v.rate.amount \in Int /\ v.consequence[o][end] \in Int
  BY AmountsAre
<1> QED BY <1>1, <1>2, <1>3 DEF Net

LEMMA WorthIsTyped ==
    ASSUME NEW v \in Values, NEW o \in Options, NEW passes \in BOOLEAN,
           NEW w, w = Worth(v, o, passes)
    PROVE  /\ w.net \in Int /\ w.schedule \in Readings
           /\ o # Monitor /\ w.eligible => w.status \in Sensitive
<1>1. Net(v, o, "central") \in Int /\ DaysProtected(v, o, "central") \in Int
  BY NetIsANumber
<1>2. ValueStatus(v, o) \in Sensitive \cup {"NON_POSITIVE_CENTRAL_VALUE"}
  BY DEF ValueStatus, Sensitive
<1>3. Reading(DaysProtected(v, o, "central"), "days") \in Readings
  BY <1>1, ReadingsAre
<1> DEFINE Plain(status, eligible, reasons) ==
      [status |-> status, eligible |-> eligible, reasons |-> reasons, net |-> 0,
       schedule |-> IF o = Monitor THEN NotApplicable ELSE Unknown]
<1>4. CASE ~ v.present
  <2>1. w = Plain("NOT_EVALUATED", FALSE, {})
    BY <1>4 DEF Worth
  <2> QED BY <2>1, ReadingsAre
<1>5. CASE v.present /\ o = Monitor
  <2>1. \E e, q : w = Plain("NOT_APPLICABLE", e, q)
    BY <1>5 DEF Worth
  <2> QED BY <1>5, <2>1, ReadingsAre
<1>6. CASE v.present /\ o # Monitor /\ (~ passes \/ ValueReasons(v, o) # {})
  <2>1. \E status, q : w = Plain(status, FALSE, q)
    BY <1>6 DEF Worth
  <2> QED BY <2>1, ReadingsAre
<1>7. CASE v.present /\ o # Monitor /\ passes /\ ValueReasons(v, o) = {}
  <2>1. /\ w.net = Net(v, o, "central") /\ w.status = ValueStatus(v, o)
        /\ w.eligible = (ValueStatus(v, o) # "NON_POSITIVE_CENTRAL_VALUE")
        /\ w.schedule \in {NotApplicable, Reading(DaysProtected(v, o, "central"), "days")}
    BY <1>7 DEF Worth
  <2> QED BY <1>1, <1>2, <1>3, <2>1, ReadingsAre
<1>8. \/ ~ v.present
      \/ v.present /\ o = Monitor
      \/ v.present /\ o # Monitor /\ (~ passes \/ ValueReasons(v, o) # {})
      \/ v.present /\ o # Monitor /\ passes /\ ValueReasons(v, o) = {}
  OBVIOUS
<1> QED BY <1>4, <1>5, <1>6, <1>7, <1>8

LEMMA RatedOptions ==
    ASSUME NEW o \in Options
    PROVE  /\ o # Composite => o \in AtomicOptions
           /\ Components(o) \subseteq AtomicOptions
<1> DEFINE Parted == {Components(p) \cup {p} : p \in Options}
<1>0. Components(o) \cup {o} \in Parted
  OBVIOUS
<1>1. \A p \in Components(o) \cup {o} : p # Composite => p \in AtomicOptions
  <2>1. AtomicOptions = (UNION Parted) \ {Composite}
    BY DEF AtomicOptions
  <2>2. ASSUME NEW X \in Parted, NEW p \in X PROVE p \in UNION Parted
    <3> HIDE DEF Parted
    <3> QED OBVIOUS
  <2>3. Components(o) \cup {o} \subseteq UNION Parted
    <3> HIDE DEF Parted
    <3> QED BY <1>0, <2>2
  <2> HIDE DEF Parted
  <2> QED BY <2>1, <2>3
<1>2. Composite \notin Components(o)
  BY DEF Components, Composite
<1> QED BY <1>1, <1>2

LEMMA RatingsAre ==
    ASSUME NEW c \in CaseRecords, NEW o \in Options, NEW dim \in Advisory
    PROVE  Rating(c, o, dim) \in Readings
<1>1. ASSUME NEW p \in AtomicOptions PROVE AtomicRating(c, p, dim) \in Readings
  <2> DEFINE rubric == c.rubrics[p][dim]
  <2> DEFINE Value(code) == {f.value : f \in Standing(c, code, p)}
  <2> DEFINE matched == {r \in rubric.rules : r.accepts \cap Value(r.code) # {}}
  <2>1. rubric.rules \in FiniteSetsOf(RubricRules)
    <3>1. rubric \in Rubrics
      BY DEF CaseRecords
    <3> HIDE DEF rubric
    <3> QED BY <3>1 DEF Rubrics
  <2>2. IsFiniteSet(matched) /\ matched \subseteq RubricRules
    BY <2>1, FS_Subset DEF FiniteSetsOf
  <2>3. Cardinality(matched) = 1 => (CHOOSE r \in matched : TRUE).rank \in Int
    <3>1. Cardinality(matched) = 1 => \E r : matched = {r}
      BY <2>2, FS_Singleton
    <3> HIDE DEF matched
    <3> QED BY <2>2, <3>1 DEF RubricRules
  <2>4. Cardinality(matched) = 1 => Reading((CHOOSE r \in matched : TRUE).rank, "rank") \in Readings
    <3> HIDE DEF matched
    <3> QED BY <2>3, ReadingsAre
  <2> QED BY <2>4, ReadingsAre DEF AtomicRating
<1>2. CASE Components(o) = {}
  <2>1. o \in AtomicOptions
    BY <1>2, RatedOptions DEF Components
  <2> QED BY <1>1, <1>2, <2>1 DEF Rating
<1>3. CASE Components(o) # {}
  <2> DEFINE parts == {AtomicRating(c, p, dim) : p \in Components(o)}
  <2> DEFINE ranks == {r.value : r \in parts}
  <2>1. o = Composite /\ Components(o) = {"PROTECTED_PRODUCTION_SLOT", "PHASED_DELIVERY"}
    BY <1>3 DEF Components
  <2>2. Components(o) \subseteq AtomicOptions
    BY RatedOptions
  <2>3. \E x, y \in Readings : parts = {x, y}
    BY <1>1, <2>1, <2>2
  <2>4. PICK x \in Int, y \in Int : ranks = {x, y}
    BY <2>3 DEF Readings
  <2>5. Max(ranks) \in Int
    <3>1. \E m \in {x, y} : \A n \in {x, y} : m >= n
      OBVIOUS
    <3> HIDE DEF ranks
    <3> QED BY <2>4, <3>1 DEF Max
  <2>6. Rating(c, o, dim) = IF Unknown \in parts THEN Unknown ELSE Reading(Max(ranks), "rank")
    BY <1>3 DEF Rating
  <2> HIDE DEF parts, ranks
  <2> QED BY <2>5, <2>6, ReadingsAre
<1> QED BY <1>2, <1>3

LEMMA InitiationsAre ==
    ASSUME NEW c \in CaseRecords, NEW o \in Options
    PROVE  InitiationTime(c, o) \in Readings
<1> DEFINE times == {f \in Standing(c, "TIME_TO_INITIATE_DAYS", o) : WellFormed(f)}
<1>1. times \subseteq Facts
  BY StandingFacts
<1>2. \A f \in Facts : Reading(f.days, f.basis) \in Readings
  <2>1. \A f \in Facts : f.days \in Int /\ f.basis \in Units
    BY DEF Facts, Units
  <2> QED BY <2>1, ReadingsAre
<1>3. times # {} => (CHOOSE t \in times : TRUE) \in Facts
  <2> HIDE DEF times
  <2> QED BY <1>1
<1> QED BY <1>2, <1>3, ReadingsAre DEF InitiationTime

LEMMA ProfilesAre ==
    ASSUME NEW c \in CaseRecords, NEW o \in Options, NEW worth, worth.schedule \in Readings
    PROVE  Profile(c, o, worth) \in Profiles
<1>1. c.value \in Values
  BY DEF CaseRecords
<1>2. DirectCost(c.value, o) \in Readings
  <2>1. c.value.cost[o].amount \in Int
    BY <1>1, AmountsAre
  <2> QED BY <2>1, ReadingsAre DEF DirectCost
<1>3. \A d \in Dimensions : \/ d \in {"SCHEDULE_PROTECTION", "DIRECT_ACTION_COST", "TIME_TO_INITIATE"}
                            \/ d \in Advisory
  BY DEF Dimensions, DimensionOrder, Advisory
<1>4. ASSUME NEW d \in Dimensions
      PROVE  (CASE d = "SCHEDULE_PROTECTION" -> worth.schedule
                [] d = "DIRECT_ACTION_COST"  -> DirectCost(c.value, o)
                [] d = "TIME_TO_INITIATE"    -> InitiationTime(c, o)
                [] OTHER                     -> Rating(c, o, d)) \in Readings
  BY <1>2, <1>3, RatingsAre, InitiationsAre
<1> QED BY <1>4 DEF Profile, Profiles

LEMMA ResultsAreGood ==
    ASSUME NEW c \in CaseRecords
    PROVE  GoodResults(Results(c))
<1>1. ASSUME NEW o \in Options
      PROVE  /\ OptionResult(c, o).net \in Int /\ OptionResult(c, o).profile \in Profiles
             /\ o # Monitor /\ OptionResult(c, o).state = "ACTIVE" /\ OptionResult(c, o).eligible =>
                   OptionResult(c, o).status \in Sensitive
  <2> DEFINE worth == Worth(c.value, o, Failing(c, o) = {})
  <2>1. /\ worth.net \in Int /\ worth.schedule \in Readings
        /\ o # Monitor /\ worth.eligible => worth.status \in Sensitive
    BY WorthIsTyped DEF CaseRecords
  <2>2. Unread \in Profiles /\ Profile(c, o, worth) \in Profiles
    <3>1. Unread \in Profiles
      BY ReadingsAre DEF Unread, Profiles
    <3> HIDE DEF worth
    <3> QED BY <2>1, <3>1, ProfilesAre
  <2> DEFINE Result(state, profile) ==
        [state |-> state, gate |-> Gate(c, o), failing |-> Failing(c, o),
         reasons |-> worth.reasons, eligible |-> worth.eligible, status |-> worth.status,
         net |-> worth.net, profile |-> profile]
  <2>3. \/ OptionResult(c, o) = Result("LOST", Unread)
        \/ OptionResult(c, o) = Result("ACTIVE", Profile(c, o, worth))
        \/ OptionResult(c, o) = Result("SUPPRESSED", Profile(c, o, worth))
        \/ /\ OptionResult(c, o).net = 0 /\ OptionResult(c, o).profile = Unread
           /\ OptionResult(c, o).state = "SUPPRESSED"
    BY DEF OptionResult
  <2> HIDE DEF worth
  <2> QED BY <2>1, <2>2, <2>3
<1>2. \A o \in Options : Results(c)[o] = OptionResult(c, o)
  BY DEF Results
<1>3. DOMAIN Results(c) = Options
  BY DEF Results
<1> QED BY <1>1, <1>2, <1>3 DEF GoodResults, EligibleOptions

-----------------------------------------------------------------------------
(* The last verdict is that of the case as it stands.                      *)

VerdictInv ==
    \/ verdict = Pending
    \/ Faults(case) # {} /\ verdict = Refusal(case)
    \/ Faults(case) = {} /\ verdict = Judgement(Results(case))

IInv == case \in CaseRecords /\ departures \in Nat /\ VerdictInv

\* A field of a case may be given any value of its kind.
LEMMA FieldsMayChange ==
    ASSUME NEW c \in CaseRecords
    PROVE  /\ \A x \in FiniteSetsOf(Facts) : [c EXCEPT !.facts = x] \in CaseRecords
           /\ \A x \in SUBSET Options : [c EXCEPT !.retired = x] \in CaseRecords
           /\ \A x \in Int : [c EXCEPT !.causal = x] \in CaseRecords
           /\ \A x \in SUBSET {Stages[i] : i \in DOMAIN Stages} :
                 [c EXCEPT !.broken = x] \in CaseRecords
           /\ \A x \in [Options -> Links] : [c EXCEPT !.links = x] \in CaseRecords
           /\ \A x \in [AtomicOptions -> [Advisory -> Rubrics]] :
                 [c EXCEPT !.rubrics = x] \in CaseRecords
           /\ \A x \in Triggers : [c EXCEPT !.trigger = x] \in CaseRecords
           /\ \A x \in {"below", "high", "absent", "malformed"} :
                 [c EXCEPT !.preview = x] \in CaseRecords
           /\ \A x \in Reviews : [c EXCEPT !.review = x] \in CaseRecords
           /\ \A x \in Values : [c EXCEPT !.value = x] \in CaseRecords
  BY DEF CaseRecords

LEMMA ChangeKeeps ==
    ASSUME IInv, NEW new \in CaseRecords, Change(new)
    PROVE  IInv'
  BY DEF IInv, Change, VerdictInv

LEMMA FactsKeep ==
    ASSUME IInv, NEW f \in case.facts,
           \/ WithdrawFact(f) \/ DelayFact(f) \/ HideSource(f) \/ ExpireFact(f)
           \/ AnswerFact(f) \/ DurationFact(f) \/ RepeatFact(f)
    PROVE  IInv'
<1>1. case.facts \in SUBSET Facts /\ IsFiniteSet(case.facts) /\ case \in CaseRecords
  BY DEF IInv, CaseRecords, FiniteSetsOf
<1>2. f \in Facts /\ Cutoff \in Int
  BY <1>1, CutoffAssumption
<1>3. ASSUME NEW F \in FiniteSetsOf(Facts), WithFacts(F) PROVE IInv'
  BY <1>1, <1>3, FieldsMayChange, ChangeKeeps DEF WithFacts
<1>4. /\ case.facts \ {f} \in FiniteSetsOf(Facts)
      /\ \A g \in Facts : (case.facts \ {f}) \cup {g} \in FiniteSetsOf(Facts)
      /\ \A g \in Facts : case.facts \cup {g} \in FiniteSetsOf(Facts)
  <2>1. IsFiniteSet(case.facts \ {f})
    BY <1>1, FS_RemoveElement
  <2>2. \A g : IsFiniteSet(case.facts \cup {g}) /\ IsFiniteSet((case.facts \ {f}) \cup {g})
    BY <1>1, <2>1, FS_AddElement
  <2> QED BY <1>1, <2>1, <2>2 DEF FiniteSetsOf
<1>5. /\ \A n \in Int : /\ [f EXCEPT !.known = n] \in Facts /\ [f EXCEPT !.available = n] \in Facts
                        /\ [f EXCEPT !.through = n] \in Facts /\ [f EXCEPT !.days = n] \in Facts
      /\ \A w \in {"no", "malformed", "absent"} : [f EXCEPT !.value = w] \in Facts
      /\ [f EXCEPT !.basis = "BUSINESS_DAY"] \in Facts
      /\ \A n \in Int : [f EXCEPT !.days = @ + 1, !.known = n] \in Facts
  <2>1. \A n \in Int : [f EXCEPT !.known = n] \in Facts
    BY <1>2 DEF Facts
  <2>2. \A n \in Int : [f EXCEPT !.available = n] \in Facts
    BY <1>2 DEF Facts
  <2>3. \A n \in Int : [f EXCEPT !.through = n] \in Facts
    BY <1>2 DEF Facts
  <2>4. \A n \in Int : [f EXCEPT !.days = n] \in Facts
    BY <1>2 DEF Facts
  <2>5. \A w \in Words : [f EXCEPT !.value = w] \in Facts
    BY <1>2 DEF Facts
  <2>6. {"no", "malformed", "absent"} \subseteq Words
    BY DEF Words
  <2>7. \A b \in DayBases : [f EXCEPT !.basis = b] \in Facts
    BY <1>2 DEF Facts
  <2>8. "BUSINESS_DAY" \in DayBases
    BY DEF DayBases
  <2>9. ASSUME NEW n \in Int PROVE [f EXCEPT !.days = @ + 1, !.known = n] \in Facts
    <3> DEFINE m == f.days + 1
    <3>1. m \in Int
      BY <1>2 DEF Facts
    <3> HIDE DEF m
    <3>2. [f EXCEPT !.days = m, !.known = n] = [[f EXCEPT !.days = m] EXCEPT !.known = n]
      BY <1>2 DEF Facts
    <3>3. \A g \in Facts : [g EXCEPT !.known = n] \in Facts
      BY DEF Facts
    <3>4. [f EXCEPT !.days = m, !.known = n] \in Facts
      BY <2>4, <3>1, <3>2, <3>3
    <3> QED BY <3>4 DEF m
  <2> QED BY <2>1, <2>2, <2>3, <2>4, <2>5, <2>6, <2>7, <2>8, <2>9
<1>6. ASSUME NEW g \in Facts, Replaced(f, g) PROVE IInv'
  BY <1>3, <1>4, <1>6 DEF Replaced
<1>7. Cutoff + 1 \in Int /\ Cutoff - 1 \in Int /\ \A n \in {0, Cutoff + 2} : n \in Int
  BY <1>2
<1>8. CASE WithdrawFact(f)
  BY <1>3, <1>4, <1>8 DEF WithdrawFact
<1>9. CASE DelayFact(f) \/ HideSource(f) \/ ExpireFact(f)
  BY <1>5, <1>6, <1>7, <1>9 DEF DelayFact, HideSource, ExpireFact
<1>10. CASE AnswerFact(f)
  BY <1>5, <1>6, <1>10 DEF AnswerFact
<1>11. CASE DurationFact(f)
  BY <1>5, <1>6, <1>7, <1>11 DEF DurationFact
<1>12. CASE RepeatFact(f)
  <2>1. PICK n \in {Cutoff, Cutoff + 1} :
           WithFacts(case.facts \cup {[f EXCEPT !.days = @ + 1, !.known = n]})
    BY <1>12 DEF RepeatFact
  <2> QED BY <1>2, <1>3, <1>4, <1>5, <1>7, <2>1
<1> QED BY <1>8, <1>9, <1>10, <1>11, <1>12

LEMMA LinksKeep ==
    ASSUME IInv, NEW o \in Options, ChangeLink(o) \/ RetireOption(o)
    PROVE  IInv'
<1>1. case \in CaseRecords /\ case.links \in [Options -> Links] /\ case.retired \in SUBSET Options
  BY DEF IInv, CaseRecords
<1>2. ASSUME NEW l \in Links, Change([case EXCEPT !.links[o] = l]) PROVE IInv'
  <2>1. [case.links EXCEPT ![o] = l] \in [Options -> Links]
    BY <1>1
  <2>2. [case EXCEPT !.links = [case.links EXCEPT ![o] = l]] \in CaseRecords
    BY <1>1, <2>1, FieldsMayChange
  <2>3. [case EXCEPT !.links[o] = l] = [case EXCEPT !.links = [case.links EXCEPT ![o] = l]]
    OBVIOUS
  <2> QED BY <1>2, <2>2, <2>3, ChangeKeeps
<1>3. case.links[o] \in Links
  BY <1>1
<1>4. ASSUME NEW t \in {"MISSING", "PROVISIONAL", "REJECTED", "SUPERSEDED"},
             Change([case EXCEPT !.links[o].status = t])
      PROVE  IInv'
  <2>1. [case.links[o] EXCEPT !.status = t] \in Links
    BY <1>3 DEF Links, Statuses
  <2> QED BY <1>2, <1>4, <2>1
<1>5. ASSUME Change([case EXCEPT !.links[o].published = Cutoff + 1]) PROVE IInv'
  <2>1. [case.links[o] EXCEPT !.published = Cutoff + 1] \in Links
    BY <1>3, CutoffAssumption DEF Links
  <2> QED BY <1>2, <1>5, <2>1
<1>6. ASSUME Change([case EXCEPT !.links[o].heads = 2]) PROVE IInv'
  <2>1. [case.links[o] EXCEPT !.heads = 2] \in Links
    BY <1>3 DEF Links
  <2> QED BY <1>2, <1>6, <2>1
<1>7. ASSUME RetireOption(o) PROVE IInv'
  <2>1. case.retired \cup {o} \in SUBSET Options
    BY <1>1
  <2>2. [case EXCEPT !.retired = case.retired \cup {o}] \in CaseRecords
    BY <1>1, <2>1, FieldsMayChange
  <2> QED BY <1>7, <2>2, ChangeKeeps DEF RetireOption
<1> QED BY <1>4, <1>5, <1>6, <1>7 DEF ChangeLink

LEMMA ReviewKeeps ==
    ASSUME IInv, ReviewAgain \/ ChangeReview
    PROVE  IInv'
<1>1. case \in CaseRecords /\ case.review \in Reviews /\ case.facts \subseteq Facts
  BY DEF IInv, CaseRecords, FiniteSetsOf
<1>2. ASSUME NEW x \in Reviews, Change([case EXCEPT !.review = x]) PROVE IInv'
  BY <1>1, <1>2, FieldsMayChange, ChangeKeeps
<1>3. CASE ReviewAgain
  <2>1. [case.review EXCEPT !.over = ReviewedFacts(case)] \in Reviews
    BY <1>1 DEF Reviews, ReviewedFacts
  <2>2. [case EXCEPT !.review = [case.review EXCEPT !.over = ReviewedFacts(case)]] \in CaseRecords
    BY <1>1, <2>1, FieldsMayChange
  <2>3. case' \in CaseRecords
    BY <1>3, <2>2 DEF ReviewAgain
  <2> QED BY <1>3, <2>3 DEF ReviewAgain, IInv, VerdictInv
<1>4. CASE ChangeReview
  <2>1. \A t \in {"SUPERSEDED", "MISSING"} : [case.review EXCEPT !.status = t] \in Reviews
    BY <1>1 DEF Reviews, Statuses
  <2>2. /\ [case.review EXCEPT !.published = Cutoff + 1] \in Reviews
        /\ [case.review EXCEPT !.reviewed = Cutoff + 1] \in Reviews
    BY <1>1, CutoffAssumption DEF Reviews
  <2>3. [case.review EXCEPT !.outcome = "INCOMPATIBLE"] \in Reviews
    BY <1>1 DEF Reviews, Outcomes
  <2>4. [[case.review EXCEPT !.outcome = "INCOMPATIBLE"] EXCEPT !.attested = "INCOMPATIBLE"] \in Reviews
    BY <2>3 DEF Reviews, Outcomes
  <2>5. [case EXCEPT !.review.outcome = "INCOMPATIBLE", !.review.attested = "INCOMPATIBLE"]
          = [case EXCEPT !.review =
               [[case.review EXCEPT !.outcome = "INCOMPATIBLE"] EXCEPT !.attested = "INCOMPATIBLE"]]
    BY <1>1 DEF CaseRecords
  <2>6. /\ \A t : [case EXCEPT !.review.status = t]
                 = [case EXCEPT !.review = [case.review EXCEPT !.status = t]]
        /\ [case EXCEPT !.review.published = Cutoff + 1]
             = [case EXCEPT !.review = [case.review EXCEPT !.published = Cutoff + 1]]
        /\ [case EXCEPT !.review.reviewed = Cutoff + 1]
             = [case EXCEPT !.review = [case.review EXCEPT !.reviewed = Cutoff + 1]]
        /\ [case EXCEPT !.review.outcome = "INCOMPATIBLE"]
             = [case EXCEPT !.review = [case.review EXCEPT !.outcome = "INCOMPATIBLE"]]
    OBVIOUS
  <2> QED BY <1>2, <1>4, <2>1, <2>2, <2>3, <2>4, <2>5, <2>6 DEF ChangeReview
<1> QED BY <1>3, <1>4

LEMMA TriggerKeeps ==
    ASSUME IInv, ChangeTrigger \/ ChangePreview \/ Spoil
    PROVE  IInv'
<1>1. case \in CaseRecords /\ case.trigger \in Triggers /\ Cutoff + 1 \in Int
  BY CutoffAssumption DEF IInv, CaseRecords
<1>2. CASE ChangeTrigger
  <2>1. /\ [case.trigger EXCEPT !.approved = FALSE] \in Triggers
        /\ [case.trigger EXCEPT !.published = Cutoff + 1] \in Triggers
        /\ [case.trigger EXCEPT !.heads = 2] \in Triggers
    <3>1. [case.trigger EXCEPT !.approved = FALSE] \in Triggers
      BY <1>1 DEF Triggers
    <3>2. [case.trigger EXCEPT !.published = Cutoff + 1] \in Triggers
      BY <1>1 DEF Triggers
    <3>3. [case.trigger EXCEPT !.heads = 2] \in Triggers
      BY <1>1 DEF Triggers
    <3> QED BY <3>1, <3>2, <3>3
  <2>2. /\ [case EXCEPT !.trigger.approved = FALSE]
             = [case EXCEPT !.trigger = [case.trigger EXCEPT !.approved = FALSE]]
        /\ [case EXCEPT !.trigger.published = Cutoff + 1]
             = [case EXCEPT !.trigger = [case.trigger EXCEPT !.published = Cutoff + 1]]
        /\ [case EXCEPT !.trigger.heads = 2]
             = [case EXCEPT !.trigger = [case.trigger EXCEPT !.heads = 2]]
    OBVIOUS
  <2>3. ASSUME NEW x \in Triggers, Change([case EXCEPT !.trigger = x]) PROVE IInv'
    BY <1>1, <2>3, FieldsMayChange, ChangeKeeps
  <2> QED BY <1>2, <2>1, <2>2, <2>3 DEF ChangeTrigger
<1>3. CASE ChangePreview
  <2>1. PICK p \in {"absent", "malformed", "high"} : Change([case EXCEPT !.preview = p])
    BY <1>3 DEF ChangePreview
  <2> QED BY <1>1, <2>1, FieldsMayChange, ChangeKeeps
<1>4. CASE Spoil
  <2>1. ASSUME NEW i \in DOMAIN Stages, Change([case EXCEPT !.broken = {Stages[i]}])
        PROVE  IInv'
    <3>1. {Stages[i]} \in SUBSET {Stages[j] : j \in DOMAIN Stages}
      OBVIOUS
    <3>2. [case EXCEPT !.broken = {Stages[i]}] \in CaseRecords
      BY <1>1, <3>1, FieldsMayChange
    <3> QED BY <2>1, <3>2, ChangeKeeps
  <2>2. ASSUME Change([case EXCEPT !.causal = Cutoff + 1]) PROVE IInv'
    BY <1>1, <2>2, FieldsMayChange, ChangeKeeps
  <2> QED BY <1>4, <2>1, <2>2 DEF Spoil
<1> QED BY <1>2, <1>3, <1>4

LEMMA RubricsKeep ==
    ASSUME IInv, NEW o \in Options \ {Composite}, NEW dim \in Advisory, ChangeRubric(o, dim)
    PROVE  IInv'
<1> DEFINE old == case.rubrics[o][dim]
<1>1. case \in CaseRecords /\ case.rubrics \in [AtomicOptions -> [Advisory -> Rubrics]]
  BY DEF IInv, CaseRecords
<1>2. o \in AtomicOptions
  BY RatedOptions
<1>3. old \in Rubrics
  BY <1>1, <1>2
<1>4. ASSUME NEW x \in Rubrics, Change([case EXCEPT !.rubrics[o][dim] = x]) PROVE IInv'
  <2>1. [case.rubrics[o] EXCEPT ![dim] = x] \in [Advisory -> Rubrics]
    BY <1>1, <1>2
  <2>2. [case.rubrics EXCEPT ![o] = [case.rubrics[o] EXCEPT ![dim] = x]]
          \in [AtomicOptions -> [Advisory -> Rubrics]]
    BY <1>1, <2>1
  <2>3. [case EXCEPT !.rubrics = [case.rubrics EXCEPT ![o] = [case.rubrics[o] EXCEPT ![dim] = x]]]
          \in CaseRecords
    BY <1>1, <2>2, FieldsMayChange
  <2> QED BY <1>4, <2>3, ChangeKeeps
<1>5. ASSUME Change([case EXCEPT !.rubrics[o][dim].status = "MISSING"]) PROVE IInv'
  <2>1. [old EXCEPT !.status = "MISSING"] \in Rubrics
    BY <1>3 DEF Rubrics, Statuses
  <2> QED BY <1>4, <1>5, <2>1
<1>6. ASSUME Change([case EXCEPT !.rubrics[o][dim].published = Cutoff + 1]) PROVE IInv'
  <2>1. [old EXCEPT !.published = Cutoff + 1] \in Rubrics
    BY <1>3, CutoffAssumption DEF Rubrics
  <2> QED BY <1>4, <1>6, <2>1
<1>7. ASSUME Change([case EXCEPT !.rubrics[o][dim].reviewed = Cutoff + 1]) PROVE IInv'
  <2>1. [old EXCEPT !.reviewed = Cutoff + 1] \in Rubrics
    BY <1>3, CutoffAssumption DEF Rubrics
  <2> QED BY <1>4, <1>7, <2>1
<1>8. ASSUME Change([case EXCEPT !.rubrics[o][dim].inputs = @ \cup {"AVAILABLE_FLOAT_DAYS"}])
      PROVE  IInv'
  <2>1. old.inputs \cup {"AVAILABLE_FLOAT_DAYS"} \in SUBSET Codes
    BY <1>3 DEF Rubrics, Codes
  <2>2. [old EXCEPT !.inputs = old.inputs \cup {"AVAILABLE_FLOAT_DAYS"}] \in Rubrics
    BY <1>3, <2>1 DEF Rubrics
  <2> QED BY <1>4, <1>8, <2>2
<1>10. ASSUME Change([case EXCEPT !.rubrics[o][dim] = WithFloatRule(@)])
       PROVE  IInv'
  <2>1. old.inputs \cup {FloatRule.code} \in SUBSET Codes
    BY <1>3 DEF Rubrics, Codes, FloatRule
  <2>2. FloatRule \in RubricRules
    BY DEF FloatRule, RubricRules, Codes, Words
  <2>3. old.rules \cup {FloatRule} \in FiniteSetsOf(RubricRules)
    <3>1. old.rules \subseteq RubricRules /\ IsFiniteSet(old.rules)
      BY <1>3 DEF Rubrics, FiniteSetsOf
    <3> HIDE DEF old
    <3> QED BY <3>1, <2>2, FS_AddElement DEF FiniteSetsOf
  <2>4. WithFloatRule(old) \in Rubrics
    <3> HIDE DEF old
    <3> QED BY <1>3, <2>1, <2>3 DEF Rubrics, WithFloatRule
  <2> QED BY <1>4, <1>10, <2>4
<1>9. ASSUME NEW n \in 0 .. 2,
             Change([case EXCEPT !.rubrics[o][dim].rules = {[r EXCEPT !.rank = n] : r \in @}])
      PROVE  IInv'
  <2> DEFINE R == old.rules
  <2> DEFINE T == {[r EXCEPT !.rank = n] : r \in R}
  <2>1. R \subseteq RubricRules /\ IsFiniteSet(R)
    BY <1>3 DEF Rubrics, FiniteSetsOf
  <2>2. T \subseteq RubricRules
    BY <2>1 DEF RubricRules
  <2>3. IsFiniteSet(T)
    <3> DEFINE f == [r \in R |-> [r EXCEPT !.rank = n]]
    <3>1. f \in Surjection(R, T)
      BY DEF Surjection
    <3> HIDE DEF f, R, T
    <3> QED BY <2>1, <3>1, FS_Surjection
  <2>4. [old EXCEPT !.rules = T] \in Rubrics
    <3>1. T \in FiniteSetsOf(RubricRules)
      BY <2>2, <2>3 DEF FiniteSetsOf
    <3> HIDE DEF T
    <3> QED BY <1>3, <3>1 DEF Rubrics
  <2>5. Change([case EXCEPT !.rubrics[o][dim] = [old EXCEPT !.rules = T]])
    BY <1>9
  <2> QED BY <1>4, <2>4, <2>5
<1> QED BY <1>5, <1>6, <1>7, <1>8, <1>9, <1>10 DEF ChangeRubric

\* So may a field of the value inputs.
LEMMA ValuesMayChange ==
    ASSUME NEW v \in Values
    PROVE  /\ [v EXCEPT !.present = FALSE] \in Values
           /\ \A x \in Int : [v EXCEPT !.rates = x] \in Values
           /\ \A x \in SUBSET {"INR", "EUR"} : [v EXCEPT !.currencies = x] \in Values
           /\ [v EXCEPT !.declared = "BUSINESS_DAY"] \in Values
           /\ \A x \in Effects : [v EXCEPT !.effect = x] \in Values
           /\ \A x \in Amounts : [v EXCEPT !.rate = x] \in Values
           /\ \A x \in [Options -> Amounts] : /\ [v EXCEPT !.cost = x] \in Values
                                             /\ [v EXCEPT !.recoverable = x] \in Values
                                             /\ [v EXCEPT !.translation = x] \in Values
           /\ \A x \in [Options -> Consequences] : [v EXCEPT !.consequence = x] \in Values
<1>1. [v EXCEPT !.present = FALSE] \in Values
  BY DEF Values
<1>2. \A x \in Int : [v EXCEPT !.rates = x] \in Values
  BY DEF Values
<1>3. \A x \in SUBSET {"INR", "EUR"} : [v EXCEPT !.currencies = x] \in Values
  BY DEF Values
<1>4. [v EXCEPT !.declared = "BUSINESS_DAY"] \in Values
  BY DEF Values, DayBases
<1>5. \A x \in Effects : [v EXCEPT !.effect = x] \in Values
  BY DEF Values
<1>6. \A x \in Amounts : [v EXCEPT !.rate = x] \in Values
  BY DEF Values
<1>7. \A x \in [Options -> Amounts] : [v EXCEPT !.cost = x] \in Values
  BY DEF Values
<1>8. \A x \in [Options -> Amounts] : [v EXCEPT !.recoverable = x] \in Values
  BY DEF Values
<1>9. \A x \in [Options -> Amounts] : [v EXCEPT !.translation = x] \in Values
  BY DEF Values
<1>10. \A x \in [Options -> Consequences] : [v EXCEPT !.consequence = x] \in Values
  BY DEF Values
<1> QED BY <1>1, <1>2, <1>3, <1>4, <1>5, <1>6, <1>7, <1>8, <1>9, <1>10

LEMMA CostMayChange ==
    ASSUME NEW c \in CaseRecords, NEW o \in Options, NEW n \in Int
    PROVE  WithCost(c, o, n) \in CaseRecords
<1>1. c.value \in Values /\ c.value.cost \in [Options -> Amounts] /\ c.value.cost[o] \in Amounts
  BY DEF CaseRecords, Values
<1>2. [c.value.cost[o] EXCEPT !.amount = n] \in Amounts
  BY <1>1 DEF Amounts
<1>3. [c.value.cost EXCEPT ![o] = [c.value.cost[o] EXCEPT !.amount = n]] \in [Options -> Amounts]
  BY <1>1, <1>2
<1>4. [c.value EXCEPT !.cost = [c.value.cost EXCEPT ![o] = [c.value.cost[o] EXCEPT !.amount = n]]]
        \in Values
  BY <1>1, <1>3, ValuesMayChange
<1>5. [c EXCEPT !.value = [c.value EXCEPT !.cost =
         [c.value.cost EXCEPT ![o] = [c.value.cost[o] EXCEPT !.amount = n]]]] \in CaseRecords
  BY <1>4, FieldsMayChange
<1> QED BY <1>5 DEF WithCost

LEMMA AmountsMayChange ==
    ASSUME NEW a \in Amounts
    PROVE  /\ \A n \in Int : [a EXCEPT !.amount = n] \in Amounts
           /\ \A t \in States : [a EXCEPT !.state = t] \in Amounts
<1>1. \A n \in Int : [a EXCEPT !.amount = n] \in Amounts
  BY DEF Amounts
<1>2. \A t \in States : [a EXCEPT !.state = t] \in Amounts
  BY DEF Amounts
<1> QED BY <1>1, <1>2

LEMMA ValuesKeep ==
    ASSUME IInv,
           \/ ChangeValueInputs
           \/ \E o \in Options : ChangeCost(o) \/ ChangeFractions(o) \/ ChangeConsequence(o)
    PROVE  IInv'
<1> DEFINE v == case.value
<1>1. /\ case \in CaseRecords /\ v \in Values
      /\ v.cost \in [Options -> Amounts] /\ v.recoverable \in [Options -> Amounts]
      /\ v.translation \in [Options -> Amounts] /\ v.consequence \in [Options -> Consequences]
      /\ v.rate \in Amounts /\ v.effect \in Effects /\ v.currencies \subseteq {"INR", "EUR"}
  BY DEF IInv, CaseRecords, Values
<1>2. ASSUME NEW x \in Values, Change([case EXCEPT !.value = x]) PROVE IInv'
  BY <1>1, <1>2, FieldsMayChange, ChangeKeeps
<1>3. "late" \in States /\ "absent" \in States /\ "malformed" \in States
  BY DEF States
<1>4. ASSUME NEW o \in Options, ChangeCost(o) PROVE IInv'
  <2>1. ASSUME NEW a \in Amounts, Change([case EXCEPT !.value.cost[o] = a]) PROVE IInv'
    <3>1. [v.cost EXCEPT ![o] = a] \in [Options -> Amounts]
      BY <1>1
    <3>2. [v EXCEPT !.cost = [v.cost EXCEPT ![o] = a]] \in Values
      BY <1>1, <3>1, ValuesMayChange
    <3> QED BY <1>2, <2>1, <3>2
  <2>2. ASSUME NEW n \in Costs, Change([case EXCEPT !.value.cost[o].amount = n]) PROVE IInv'
    <3>1. [v.cost[o] EXCEPT !.amount = n] \in Amounts
      BY <1>1, AmountsMayChange, CasesAssumption
    <3> QED BY <2>1, <2>2, <3>1
  <2>3. ASSUME NEW t \in {"absent", "late", "malformed"},
               Change([case EXCEPT !.value.cost[o].state = t])
        PROVE  IInv'
    <3>1. [v.cost[o] EXCEPT !.state = t] \in Amounts
      BY <1>1, <1>3, AmountsMayChange
    <3> QED BY <2>1, <2>3, <3>1
  <2> QED BY <1>4, <2>2, <2>3 DEF ChangeCost
<1>5. ASSUME NEW o \in Options, ChangeFractions(o) PROVE IInv'
  <2>1. ASSUME NEW n \in 0 .. Parts, Change([case EXCEPT !.value.recoverable[o].amount = n])
        PROVE  IInv'
    <3>1. n \in Int
      BY PartsAssumption
    <3>2. [v.recoverable[o] EXCEPT !.amount = n] \in Amounts
      BY <1>1, <3>1, AmountsMayChange
    <3>3. [v.recoverable EXCEPT ![o] = [v.recoverable[o] EXCEPT !.amount = n]]
            \in [Options -> Amounts]
      BY <1>1, <3>2
    <3>4. [v EXCEPT !.recoverable =
             [v.recoverable EXCEPT ![o] = [v.recoverable[o] EXCEPT !.amount = n]]] \in Values
      BY <1>1, <3>3, ValuesMayChange
    <3> QED BY <1>2, <2>1, <3>4
  <2>2. ASSUME Change([case EXCEPT !.value.translation[o].state = "late"]) PROVE IInv'
    <3>1. [v.translation[o] EXCEPT !.state = "late"] \in Amounts
      BY <1>1, <1>3, AmountsMayChange
    <3>2. [v.translation EXCEPT ![o] = [v.translation[o] EXCEPT !.state = "late"]]
            \in [Options -> Amounts]
      BY <1>1, <3>1
    <3>3. [v EXCEPT !.translation =
             [v.translation EXCEPT ![o] = [v.translation[o] EXCEPT !.state = "late"]]] \in Values
      BY <1>1, <3>2, ValuesMayChange
    <3> QED BY <1>2, <2>2, <3>3
  <2> QED BY <1>5, <2>1, <2>2 DEF ChangeFractions
<1>6. ASSUME NEW o \in Options, ChangeConsequence(o) PROVE IInv'
  <2>1. ASSUME NEW a \in Consequences, Change([case EXCEPT !.value.consequence[o] = a])
        PROVE  IInv'
    <3>1. [v.consequence EXCEPT ![o] = a] \in [Options -> Consequences]
      BY <1>1
    <3>2. [v EXCEPT !.consequence = [v.consequence EXCEPT ![o] = a]] \in Values
      BY <1>1, <3>1, ValuesMayChange
    <3> QED BY <1>2, <2>1, <3>2
  <2>2. v.consequence[o] \in Consequences
    BY <1>1
  <2>3. [v.consequence[o] EXCEPT !.basis = "DIRECT_MONETARY_VALUE"] \in Consequences
    BY <2>2 DEF Consequences
  <2>4. [v.consequence[o] EXCEPT !.central = @ - 1] \in Consequences
    BY <2>2 DEF Consequences
  <2>5. \A t \in {"absent", "malformed"} : [v.consequence[o] EXCEPT !.state = t] \in Consequences
    BY <2>2, <1>3 DEF Consequences
  <2>6. CASE Change([case EXCEPT !.value.consequence[o].basis = "DIRECT_MONETARY_VALUE"])
    BY <2>1, <2>3, <2>6
  <2>7. CASE Change([case EXCEPT !.value.consequence[o].central = @ - 1])
    BY <2>1, <2>4, <2>7
  <2>8. ASSUME NEW t \in {"absent", "malformed"},
               Change([case EXCEPT !.value.consequence[o].state = t])
        PROVE  IInv'
    BY <2>1, <2>5, <2>8
  <2> DEFINE bare == [v.consequence[o] EXCEPT !.state = "malformed", !.basis = "none"]
  <2>9. bare \in Consequences
    BY <2>2, <1>3 DEF Consequences
  <2>10. CASE Change([case EXCEPT !.value.consequence[o] =
                        [@ EXCEPT !.state = "malformed", !.basis = "none"]])
    <3>1. Change([case EXCEPT !.value.consequence[o] = bare])
      BY <2>10
    <3> QED BY <2>1, <2>9, <3>1
  <2> QED BY <1>6, <2>6, <2>7, <2>8, <2>10 DEF ChangeConsequence
<1>7. ASSUME ChangeValueInputs PROVE IInv'
  <2>1. CASE Change([case EXCEPT !.value.present = FALSE])
    BY <1>1, <1>2, <2>1, ValuesMayChange
  <2>2. CASE Change([case EXCEPT !.value.rate.state = "malformed"])
    <3>1. [v.rate EXCEPT !.state = "malformed"] \in Amounts
      BY <1>1, <1>3, AmountsMayChange
    <3>2. [v EXCEPT !.rate = [v.rate EXCEPT !.state = "malformed"]] \in Values
      BY <1>1, <3>1, ValuesMayChange
    <3> QED BY <1>2, <2>2, <3>2
  <2>3. CASE Change([case EXCEPT !.value.effect.state = "absent"])
    <3>1. [v.effect EXCEPT !.state = "absent"] \in Effects
      BY <1>1, <1>3 DEF Effects
    <3>2. [v EXCEPT !.effect = [v.effect EXCEPT !.state = "absent"]] \in Values
      BY <1>1, <3>1, ValuesMayChange
    <3> QED BY <1>2, <2>3, <3>2
  <2>4. CASE Change([case EXCEPT !.value.rates = 2])
    <3>1. \A x \in Int : [v EXCEPT !.rates = x] \in Values
      BY <1>1, ValuesMayChange
    <3>2. [v EXCEPT !.rates = 2] \in Values
      <4> HIDE DEF v
      <4> QED BY <3>1
    <3> QED BY <1>2, <2>4, <3>2
  <2>5. CASE Change([case EXCEPT !.value.currencies = @ \cup {"EUR"}])
    <3>1. v.currencies \cup {"EUR"} \in SUBSET {"INR", "EUR"}
      BY <1>1
    <3>2. [v EXCEPT !.currencies = v.currencies \cup {"EUR"}] \in Values
      BY <1>1, <3>1, ValuesMayChange
    <3> QED BY <1>2, <2>5, <3>2
  <2>6. CASE Change([case EXCEPT !.value.declared = "BUSINESS_DAY"])
    BY <1>1, <1>2, <2>6, ValuesMayChange
  <2> QED BY <1>7, <2>1, <2>2, <2>3, <2>4, <2>5, <2>6 DEF ChangeValueInputs
<1> QED BY <1>4, <1>5, <1>6, <1>7

LEMMA EvaluateKeeps ==
    ASSUME IInv, Evaluate
    PROVE  IInv'
  BY DEF IInv, Evaluate, VerdictInv

\* The case is always one that may be evaluated, and the last verdict, if
\* any, is that of the case as it stands: no change leaves a stale one
\* (decision_support_constraints.py:3425-3568).
THEOREM VerdictIsOfTheCase == Spec => []IInv
<1>1. Init => IInv
  BY CasesAssumption DEF Init, IInv, VerdictInv
<1>2. IInv /\ [Next]_vars => IInv'
  <2> SUFFICES ASSUME IInv, [Next]_vars PROVE IInv'
    OBVIOUS
  <2>1. ASSUME NEW f \in case.facts,
               \/ WithdrawFact(f) \/ DelayFact(f) \/ HideSource(f) \/ ExpireFact(f)
               \/ AnswerFact(f) \/ DurationFact(f) \/ RepeatFact(f)
        PROVE  IInv'
    BY <2>1, FactsKeep
  <2>2. ASSUME NEW o \in Options, ChangeLink(o) \/ RetireOption(o) PROVE IInv'
    BY <2>2, LinksKeep
  <2>3. CASE \/ ChangeValueInputs
             \/ \E o \in Options : ChangeCost(o) \/ ChangeFractions(o) \/ ChangeConsequence(o)
    BY <2>3, ValuesKeep
  <2>4. ASSUME NEW o \in Options \ {Composite}, NEW dim \in Advisory, ChangeRubric(o, dim)
        PROVE  IInv'
    BY <2>4, RubricsKeep
  <2>5. CASE ReviewAgain \/ ChangeReview
    BY <2>5, ReviewKeeps
  <2>6. CASE ChangeTrigger \/ ChangePreview \/ Spoil
    BY <2>6, TriggerKeeps
  <2>7. CASE Evaluate
    BY <2>7, EvaluateKeeps
  <2>8. CASE UNCHANGED vars
    BY <2>8 DEF vars, IInv, VerdictInv
  <2> QED BY <2>1, <2>2, <2>3, <2>4, <2>5, <2>6, <2>7, <2>8 DEF Next
<1> QED BY <1>1, <1>2, PTL DEF Spec

LEMMA DecidedIsJudged ==
    ASSUME IInv, Decided
    PROVE  /\ case \in CaseRecords /\ GoodResults(Results(case))
           /\ verdict.results = Results(case)
           /\ verdict.published.kind # "LOST" =>
                /\ verdict.published = Publication(Results(case))
                /\ \A o \in Options : Results(case)[o].state # "LOST"
<1>1. verdict = Judgement(Results(case))
  <2>1. verdict # Pending
    BY DEF Decided, Pending, Published
  <2>2. verdict # Refusal(case)
    BY DEF Decided, Refusal, Published
  <2> QED BY <2>1, <2>2 DEF IInv, VerdictInv
<1>2. case \in CaseRecords
  BY DEF IInv
<1>3. verdict.published.kind # "LOST" => \A o \in Options : Results(case)[o].state # "LOST"
  BY <1>1 DEF Judgement, Published
<1> QED BY <1>1, <1>2, <1>3, ResultsAreGood DEF Judgement

\* What is recommended is worth it on the least favourable reading and beats
\* every other option left: the branch of compare_and_publish that recommends
\* the one option of the frontier is never taken
\* (decision_support_comparison.py:740-1000).
THEOREM RecommendationsUndominated == Spec => []RecommendationUndominated
<1>1. IInv => RecommendationUndominated
  <2> DEFINE o == verdict.published.first
  <2> DEFINE r == Results(case)
  <2> SUFFICES ASSUME IInv, Decided, verdict.published.kind = "RECOMMENDATION", o # Monitor
               PROVE  /\ verdict.results[o].status = "ROBUSTLY_POSITIVE"
                      /\ \A p \in Rivals(o) : Beats(o, p)
    BY DEF RecommendationUndominated
  <2>1. /\ GoodResults(r) /\ verdict.results = r /\ verdict.published = Publication(r)
    BY DecidedIsJudged
  <2>2. o \in Universal(r)
    <3> HIDE DEF r
    <3> QED BY <2>1, RecommendedIsUniversal
  <2> HIDE DEF o, r
  <2> QED BY <2>1, <2>2 DEF Universal, Robust, Rivals, Beats
<1> QED BY <1>1, VerdictIsOfTheCase, PTL

\* A trade-off is between two different options that can both be had; unless
\* it is about an uncertain worth, neither loses to any other option
\* (decision_support_comparison.py:836-1000).
THEOREM ChoicesAreReal == Spec => []ChoiceIsReal
<1>1. IInv => ChoiceIsReal
  <2> DEFINE a == verdict.published.first
  <2> DEFINE b == verdict.published.second
  <2> DEFINE r == verdict.results
  <2> DEFINE Uncertain == verdict.published.basis = "VALUE_UNCERTAINTY"
  <2> SUFFICES ASSUME IInv, Decided, verdict.published.kind = "TRADE_OFF"
               PROVE  /\ a # b
                      /\ \A o \in {a, b} : r[o].state = "ACTIVE" /\ r[o].eligible
                      /\ Uncertain => /\ r[a].status = "VALUE_SENSITIVE"
                                      /\ b = Monitor \/ r[b].status = "ROBUSTLY_POSITIVE"
                      /\ b # Monitor => a \in Frontier(r)
                      /\ ~Uncertain => b \in Frontier(r) /\ ~Beats(a, b)
    BY DEF ChoiceIsReal
  <2>1. GoodResults(r) /\ verdict.published = Publication(r)
    BY DecidedIsJudged
  <2>2. \/ Uncertain /\ a \in EligibleOptions(r) \ Robust(r) /\ b = Monitor /\ Monitored(r)
        \/ Uncertain /\ a \in Frontier(r) \ Robust(r) /\ b \in Robust(r)
        \/ ~Uncertain /\ a \in Frontier(r) /\ b \in Frontier(r) \ {a}
    <3>1. Publication(r).kind = "TRADE_OFF"
      BY <2>1
    <3>2. a = Publication(r).first /\ b = Publication(r).second
          /\ (Uncertain <=> Publication(r).basis = "VALUE_UNCERTAINTY")
      BY <2>1
    <3> HIDE DEF a, b, r, Uncertain
    <3> QED BY <2>1, <3>1, <3>2, TradeOffIsReal
  <2>3. \A o \in EligibleOptions(r) :
           /\ o # Monitor /\ r[o].state = "ACTIVE" /\ r[o].eligible /\ r[o].status \in Sensitive
           /\ o \notin Robust(r) => r[o].status = "VALUE_SENSITIVE"
    <3> HIDE DEF r
    <3> QED BY <2>1 DEF GoodResults, EligibleOptions, Robust, Sensitive
  <2>4. /\ Frontier(r) \subseteq EligibleOptions(r) /\ Robust(r) \subseteq EligibleOptions(r)
        /\ \A o \in Robust(r) : r[o].status = "ROBUSTLY_POSITIVE"
    BY DEF Frontier, Robust
  <2>5. \A x, y \in Frontier(r) : x # y => ~ Beats(x, y)
    BY DEF Frontier, Beats
  <2>6. Monitored(r) => r[Monitor].state = "ACTIVE" /\ r[Monitor].eligible
    BY DEF Monitored
  <2> HIDE DEF a, b, r, Uncertain
  <2> QED BY <2>2, <2>3, <2>4, <2>5, <2>6
<1> QED BY <1>1, VerdictIsOfTheCase, PTL

-----------------------------------------------------------------------------
(* A cheaper option.                                                       *)

\* The only option that beats all others is published first.
LEMMA OneUniversalIsFirst ==
    ASSUME NEW r, GoodResults(r), NEW o, Universal(r) = {o}
    PROVE  Publication(r).first = o
<1>1. o \in Robust(r) /\ o \in EligibleOptions(r)
  BY ChoicesAreFinite
<1>2. CASE EligibleOptions(r) = {o}
  <2>1. BestNet(r, {o}) = o
    <3>1. {o} \in SUBSET Options
      BY <1>1, ChoicesAreFinite
    <3>2. BestNet(r, {o}) \in {o}
      BY <3>1, BestNetIsThere
    <3> QED BY <3>2
  <2>2. Lone(r)
    BY <1>1, <1>2, FS_Singleton DEF Lone
  <2>3. Publication(r) = Published("RECOMMENDATION", "SOLE_ELIGIBLE_OPTION",
                                   BestNet(r, EligibleOptions(r)), NoOption)
    BY <2>2, Branches
  <2> QED BY <1>2, <2>1, <2>3 DEF Published
<1>3. CASE EligibleOptions(r) # {o}
  <2> DEFINE n == Cardinality(EligibleOptions(r))
  <2>1. n \in Nat /\ n # 0 /\ n # 1
    <3>1. IsFiniteSet(EligibleOptions(r))
      BY ChoicesAreFinite
    <3>2. n \in Nat /\ (n = 0 => EligibleOptions(r) = {})
      BY <3>1, FS_CardinalityType, FS_EmptySet
    <3>3. n = 1 => \E x : EligibleOptions(r) = {x}
      BY <3>1, FS_Singleton
    <3> QED BY <1>1, <1>3, <3>2, <3>3
  <2>2. Clear(r)
    BY <2>1 DEF Clear
  <2> DEFINE u == BestNet(r, Universal(r))
  <2>3. Publication(r) = Published("RECOMMENDATION", "UNIVERSAL_PARETO_DOMINANCE", u,
                                   BestNet(r, EligibleOptions(r) \ {u}))
    BY <2>2, Branches
  <2>4. u \in {o}
    <3>1. {o} \in SUBSET Options
      BY <1>1, ChoicesAreFinite
    <3> QED BY <3>1, BestNetIsThere
  <2>5. Publication(r).first = u
    <3> HIDE DEF u
    <3> QED BY <2>3 DEF Published
  <2> QED BY <2>4, <2>5
<1> QED BY <1>2, <1>3

LEMMA StandingIsOfFacts ==
    ASSUME NEW c, NEW e, e.facts = c.facts
    PROVE  \A code, o : Standing(e, code, o) = Standing(c, code, o)
  BY DEF Standing, Candidates

\* Everything but the value inputs.
SameRules(c, e) ==
    /\ e.mode = c.mode /\ e.facts = c.facts /\ e.retired = c.retired /\ e.links = c.links
    /\ e.rubrics = c.rubrics /\ e.trigger = c.trigger /\ e.preview = c.preview
    /\ e.review = c.review

\* What does not read the value inputs does not change with them.
LEMMA RulesIgnoreValues ==
    ASSUME NEW c, NEW e, SameRules(c, e)
    PROVE  /\ \A o : Gate(e, o) = Gate(c, o) /\ Failing(e, o) = Failing(c, o)
           /\ \A o : InitiationTime(e, o) = InitiationTime(c, o)
           /\ \A o, d : Rating(e, o, d) = Rating(c, o, d)
<1>1. \A code, o : Standing(e, code, o) = Standing(c, code, o)
  BY StandingIsOfFacts DEF SameRules
<1>8. \A code, o : Candidates(e, code, o) = Candidates(c, code, o)
  BY DEF Candidates, SameRules
<1>2. \A o : Gate(e, o) = Gate(c, o)
  BY DEF Gate, SameRules
<1>3. ASSUME NEW rule, NEW o PROVE RuleStatus(e, rule, o) = RuleStatus(c, rule, o)
  <2>1. WithinFloat(e, o) = WithinFloat(c, o)
    BY <1>1 DEF WithinFloat
  <2>2. CompositeReview(e, o) = CompositeReview(c, o)
    BY <1>1 DEF CompositeReview, ReviewedFacts, SameRules
  <2>3. TriggerRegistered(e) = TriggerRegistered(c) /\ e.preview = c.preview
    BY DEF TriggerRegistered, SameRules
  <2>4. \A S : FactRule(e, rule, S) = FactRule(c, rule, S)
    BY <2>3 DEF FactRule
  <2> QED BY <1>1, <2>1, <2>2, <2>4 DEF RuleStatus
<1>4. \A o : Failing(e, o) = Failing(c, o)
  BY <1>3 DEF Failing
<1>5. ASSUME NEW o PROVE InitiationTime(e, o) = InitiationTime(c, o)
  <2> DEFINE Times(d) == {f \in Standing(d, "TIME_TO_INITIATE_DAYS", o) : WellFormed(f)}
  <2>1. Times(e) = Times(c)
    BY <1>1
  <2>2. \A d : InitiationTime(d, o) =
                 IF o = Composite \/ Times(d) = {} THEN Unknown
                 ELSE Reading((CHOOSE t \in Times(d) : TRUE).days,
                              (CHOOSE t \in Times(d) : TRUE).basis)
    BY DEF InitiationTime
  <2> HIDE DEF Times
  <2> QED BY <2>1, <2>2
<1>6. ASSUME NEW o, NEW dim PROVE AtomicRating(e, o, dim) = AtomicRating(c, o, dim)
  <2> DEFINE rubric == c.rubrics[o][dim]
  <2> DEFINE Value(d, code) == {f.value : f \in Standing(d, code, o)}
  <2> DEFINE Matched(d) == {r \in rubric.rules : r.accepts \cap Value(d, r.code) # {}}
  <2>1. \A code : Value(e, code) = Value(c, code)
    BY <1>1
  <2>2. Matched(e) = Matched(c)
    <3> HIDE DEF Value
    <3> QED BY <2>1
  <2>3. \A d : d.rubrics = c.rubrics =>
          AtomicRating(d, o, dim) =
            IF /\ rubric.status = "APPROVED" /\ rubric.published <= Cutoff
               /\ Readable(d, rubric, o)
               /\ Cardinality(Matched(d)) = 1
            THEN Reading((CHOOSE r \in Matched(d) : TRUE).rank, "rank")
            ELSE Unknown
    BY DEF AtomicRating
  <2>4. e.rubrics = c.rubrics
    BY DEF SameRules
  <2>5. Readable(e, rubric, o) = Readable(c, rubric, o)
    BY <1>1, <1>8 DEF Readable
  <2> HIDE DEF rubric, Value, Matched
  <2> QED BY <2>2, <2>3, <2>4, <2>5
<1>7. \A o, d : Rating(e, o, d) = Rating(c, o, d)
  BY <1>6 DEF Rating
<1> QED BY <1>2, <1>4, <1>5, <1>7

\* The values of a case with another cost of one option.
Repriced(v, w, o, n) ==
    /\ w.present = v.present /\ w.effect = v.effect /\ w.rate = v.rate
    /\ w.recoverable = v.recoverable /\ w.translation = v.translation
    /\ w.consequence = v.consequence
    /\ \A p \in Options : w.cost[p].state = v.cost[p].state
    /\ \A p \in Options \ {o} : w.cost[p] = v.cost[p]
    /\ w.cost[o].amount = n

LEMMA WithCostReprices ==
    ASSUME NEW c \in CaseRecords, NEW o \in Options, NEW n
    PROVE  SameRules(c, WithCost(c, o, n)) /\ Repriced(c.value, WithCost(c, o, n).value, o, n)
<1> DEFINE e == WithCost(c, o, n)
<1> DEFINE w == [c.value EXCEPT !.cost =
                   [c.value.cost EXCEPT ![o] = [c.value.cost[o] EXCEPT !.amount = n]]]
<1>1. e = [c EXCEPT !.value = w]
  BY DEF WithCost
<1>2. SameRules(c, e) /\ e.value = w
  <2>1. \A x : SameRules(c, [c EXCEPT !.value = x]) /\ [c EXCEPT !.value = x].value = x
    BY DEF SameRules, CaseRecords
  <2> HIDE DEF e, w
  <2> QED BY <1>1, <2>1
<1>3. Repriced(c.value, w, o, n)
  <2> DEFINE v == c.value
  <2>1. v \in Values /\ v.cost \in [Options -> Amounts] /\ v.cost[o] \in Amounts
    BY DEF CaseRecords, Values
  <2>2. \A x : LET u == [v EXCEPT !.cost = x]
               IN  /\ u.present = v.present /\ u.effect = v.effect /\ u.rate = v.rate
                   /\ u.recoverable = v.recoverable /\ u.translation = v.translation
                   /\ u.consequence = v.consequence /\ u.cost = x
    <3> HIDE DEF v
    <3> QED BY <2>1 DEF Values
  <2> DEFINE a == [v.cost[o] EXCEPT !.amount = n]
  <2>3. a.state = v.cost[o].state /\ a.amount = n
    BY <2>1 DEF Amounts
  <2> DEFINE x == [v.cost EXCEPT ![o] = a]
  <2>4. x[o] = a /\ \A p \in Options \ {o} : x[p] = v.cost[p]
    BY <2>1
  <2>5. w.cost = x
    BY <2>2
  <2>6. \A p \in Options : x[p].state = v.cost[p].state
    <3> HIDE DEF x, a
    <3> QED BY <2>3, <2>4
  <2>7. w = [v EXCEPT !.cost = x]
    OBVIOUS
  <2>8. Repriced(v, w, o, n)
    <3> HIDE DEF v, w, x, a
    <3> QED BY <2>2, <2>3, <2>4, <2>5, <2>6, <2>7 DEF Repriced
  <2> QED BY <2>8
<1> QED BY <1>2, <1>3

LEMMA LessIsLess ==
    ASSUME NEW m \in Int, NEW n \in Int, n < m, NEW g \in Int
    PROVE  g - n * Parts * Parts > g - m * Parts * Parts
<1>1. Parts \in Int /\ Parts > 0
  BY PartsAssumption
<1>2. Parts * Parts \in Int /\ Parts * Parts > 0
  BY <1>1
<1> DEFINE Q == Parts * Parts
<1>3. \A k \in Int : k * Parts * Parts = k * Q
  BY <1>1
<1> HIDE DEF Q
<1>4. (m - n) * Q > 0
  BY <1>2 DEF Q
<1>5. m * Q - n * Q = (m - n) * Q /\ m * Q \in Int /\ n * Q \in Int
  BY <1>2 DEF Q
<1> QED BY <1>3, <1>4, <1>5

\* Of the values only the worth of the option itself changes, for the better.
LEMMA WorthOfCheaper ==
    ASSUME NEW v \in Values, NEW w \in Values, NEW o \in Options, NEW n \in Int,
           Repriced(v, w, o, n), n < v.cost[o].amount
    PROVE  /\ \A p \in Options : ValueReasons(w, p) = ValueReasons(v, p)
           /\ \A p \in Options \ {o} : \A passes : Worth(w, p, passes) = Worth(v, p, passes)
           /\ \A p \in Options \ {o} : DirectCost(w, p) = DirectCost(v, p)
           /\ \A end \in {"lower", "central"} : Net(w, o, end) > Net(v, o, end)
           /\ \A p, end : DaysProtected(w, p, end) = DaysProtected(v, p, end)
<1>1. ASSUME NEW p \in Options PROVE ValueReasons(w, p) = ValueReasons(v, p)
  <2>1. CostAgainst(w, p) = CostAgainst(v, p)
    BY DEF CostAgainst, Against, Repriced
  <2>2. /\ RateAgainst(w) = RateAgainst(v) /\ EffectAgainst(w) = EffectAgainst(v)
        /\ ConsequenceAgainst(w, p) = ConsequenceAgainst(v, p)
        /\ FractionsAgainst(w, p) = FractionsAgainst(v, p)
        /\ w.consequence = v.consequence
    BY DEF RateAgainst, EffectAgainst, ConsequenceAgainst, FractionsAgainst, Repriced
  <2> QED BY <2>1, <2>2 DEF ValueReasons
<1>2. \A p, end : DaysProtected(w, p, end) = DaysProtected(v, p, end)
  BY DEF DaysProtected, Repriced
<1>3. \A p \in Options \ {o} : \A end : Net(w, p, end) = Net(v, p, end)
  BY <1>2 DEF Net, Repriced
<1>4. ASSUME NEW p \in Options \ {o}, NEW passes PROVE Worth(w, p, passes) = Worth(v, p, passes)
  <2>1. ValueStatus(w, p) = ValueStatus(v, p)
    BY <1>3 DEF ValueStatus
  <2>2. w.present = v.present /\ w.consequence = v.consequence
    BY DEF Repriced
  <2> QED BY <1>1, <1>2, <1>3, <2>1, <2>2 DEF Worth
<1>5. \A p \in Options \ {o} : DirectCost(w, p) = DirectCost(v, p)
  BY DEF DirectCost, Repriced
<1>6. ASSUME NEW end \in {"lower", "central"} PROVE Net(w, o, end) > Net(v, o, end)
  <2> DEFINE direct == o \notin ExposureValued /\ v.consequence[o].basis = "DIRECT_MONETARY_VALUE"
  <2> DEFINE gross == IF direct THEN v.consequence[o][end] * Parts * Parts
                      ELSE DaysProtected(v, o, end) * v.rate.amount
  <2>1. Net(v, o, end) = gross - v.cost[o].amount * Parts * Parts
    BY DEF Net
  <2>2. Net(w, o, end) = gross - n * Parts * Parts
    BY <1>2 DEF Net, Repriced
  <2>3. gross \in Int /\ v.cost[o].amount \in Int
    <3>1. v.consequence[o][end] \in Int /\ v.rate.amount \in Int /\ v.cost[o].amount \in Int
      BY AmountsAre
    <3>2. DaysProtected(v, o, end) \in Int /\ Parts \in Int
      BY NetIsANumber, PartsAssumption
    <3> QED BY <3>1, <3>2
  <2> HIDE DEF gross
  <2> QED BY <2>1, <2>2, <2>3, LessIsLess
<1> QED BY <1>1, <1>2, <1>4, <1>5, <1>6

\* A result that is kept for its robust worth, and what it says of the case.
LEMMA RobustResult ==
    ASSUME NEW c \in CaseRecords, NEW o \in Options \ {Monitor},
           OptionResult(c, o).state = "ACTIVE", OptionResult(c, o).status = "ROBUSTLY_POSITIVE"
    PROVE  /\ Gate(c, o) = "OPEN" /\ Failing(c, o) = {}
           /\ c.value.present /\ ValueReasons(c.value, o) = {}
           /\ Net(c.value, o, "central") > 0 /\ Net(c.value, o, "lower") > 0
           /\ OptionResult(c, o).profile = Profile(c, o, Worth(c.value, o, TRUE))
<1> DEFINE v == c.value
<1>1. /\ Gate(c, o) = "OPEN" /\ Failing(c, o) = {}
      /\ Worth(v, o, Failing(c, o) = {}).reasons = {}
      /\ Worth(v, o, Failing(c, o) = {}).status = "ROBUSTLY_POSITIVE"
      /\ OptionResult(c, o).profile = Profile(c, o, Worth(v, o, Failing(c, o) = {}))
  BY DEF OptionResult
<1>2. (Failing(c, o) = {}) = TRUE
  BY <1>1
<1>3. Worth(v, o, TRUE).status = "ROBUSTLY_POSITIVE"
  BY <1>1, <1>2
<1>4. v.present /\ ValueReasons(v, o) = {} /\ ValueStatus(v, o) = "ROBUSTLY_POSITIVE"
  <2>1. v.present
    <3>1. ~ v.present => Worth(v, o, TRUE).status = "NOT_EVALUATED"
      BY DEF Worth
    <3> QED BY <1>3, <3>1
  <2>2. ValueReasons(v, o) = {}
    <3>1. ValueReasons(v, o) # {} => Worth(v, o, TRUE).status = "UNAVAILABLE"
      BY <2>1 DEF Worth
    <3> QED BY <1>3, <3>1
  <2>3. Worth(v, o, TRUE).status = ValueStatus(v, o)
    BY <2>1, <2>2 DEF Worth
  <2> QED BY <1>3, <2>1, <2>2, <2>3
<1>5. Net(v, o, "central") \in Int /\ Net(v, o, "lower") \in Int
  BY NetIsANumber DEF CaseRecords
<1>6. Net(v, o, "central") > 0 /\ Net(v, o, "lower") > 0
  BY <1>4, <1>5 DEF ValueStatus
<1> QED BY <1>1, <1>2, <1>4, <1>6

\* A consequence that gives no reason against the option has its basis.
LEMMA BasisIsThere ==
    ASSUME NEW v \in Values, NEW o \in Options, ValueReasons(v, o) = {}
    PROVE  ~BasisMissing(v, o)
<1>1. CASE o \in ExposureValued \cup {Monitor}
  BY <1>1 DEF BasisMissing
<1>2. CASE o \notin ExposureValued \cup {Monitor}
  <2>1. ConsequenceAgainst(v, o) = {}
    BY <1>2 DEF ValueReasons
  <2>2. v.consequence[o].state = "sound"
    BY <2>1 DEF ConsequenceAgainst, Against
  <2> QED BY <2>2 DEF BasisMissing
<1> QED BY <1>1, <1>2

\* What an open, passing option of robust worth comes to.
LEMMA RobustFollows ==
    ASSUME NEW c \in CaseRecords, NEW o \in Options \ {Monitor},
           Gate(c, o) = "OPEN", Failing(c, o) = {},
           c.value.present, ValueReasons(c.value, o) = {},
           Net(c.value, o, "central") > 0, Net(c.value, o, "lower") > 0
    PROVE  LET r == OptionResult(c, o)
           IN  /\ r.state = "ACTIVE" /\ r.eligible /\ r.status = "ROBUSTLY_POSITIVE"
               /\ r.profile = Profile(c, o, Worth(c.value, o, TRUE))
<1> DEFINE v == c.value
<1>1. Net(v, o, "central") \in Int /\ Net(v, o, "lower") \in Int
  BY NetIsANumber DEF CaseRecords
<1>2. ValueStatus(v, o) = "ROBUSTLY_POSITIVE"
  BY <1>1 DEF ValueStatus
<1>3. /\ Worth(v, o, TRUE).status = "ROBUSTLY_POSITIVE" /\ Worth(v, o, TRUE).eligible
      /\ Worth(v, o, TRUE).reasons = {}
  BY <1>2 DEF Worth
<1>4. (Failing(c, o) = {}) = TRUE
  OBVIOUS
<1>5. ~BasisMissing(v, o)
  BY BasisIsThere DEF CaseRecords
<1> QED BY <1>3, <1>4, <1>5 DEF OptionResult

\* Another cost of an option leaves the results of the others alone; a lower
\* one keeps a robust option and makes its profile better on that cost alone.
LEMMA CheaperResult ==
    ASSUME NEW c \in CaseRecords, NEW o \in Options \ {Monitor}, NEW n \in Int,
           n < c.value.cost[o].amount,
           OptionResult(c, o).state = "ACTIVE", OptionResult(c, o).status = "ROBUSTLY_POSITIVE"
    PROVE  LET e == WithCost(c, o, n)
               old == OptionResult(c, o)
               new == OptionResult(e, o)
           IN  /\ \A p \in Options \ {o} : OptionResult(e, p) = OptionResult(c, p)
               /\ new.state = "ACTIVE" /\ new.eligible /\ new.status = "ROBUSTLY_POSITIVE"
               /\ \A d \in Dimensions \ {"DIRECT_ACTION_COST"} : new.profile[d] = old.profile[d]
               /\ new.profile["DIRECT_ACTION_COST"] = Reading(n, "currency")
               /\ old.profile["DIRECT_ACTION_COST"] = Reading(c.value.cost[o].amount, "currency")
<1> DEFINE e == WithCost(c, o, n)
<1> DEFINE v == c.value
<1> DEFINE w == e.value
<1>1. e \in CaseRecords /\ v \in Values /\ w \in Values
  BY CostMayChange DEF CaseRecords
<1>2. SameRules(c, e) /\ Repriced(v, w, o, n)
  BY WithCostReprices
<1>3. /\ \A p : Gate(e, p) = Gate(c, p) /\ Failing(e, p) = Failing(c, p)
      /\ \A p : InitiationTime(e, p) = InitiationTime(c, p)
      /\ \A p, d : Rating(e, p, d) = Rating(c, p, d)
  <2> HIDE DEF e
  <2> QED BY <1>2, RulesIgnoreValues
<1>4. /\ \A p \in Options : ValueReasons(w, p) = ValueReasons(v, p)
      /\ \A p \in Options \ {o} : \A passes : Worth(w, p, passes) = Worth(v, p, passes)
      /\ \A p \in Options \ {o} : DirectCost(w, p) = DirectCost(v, p)
      /\ \A end \in {"lower", "central"} : Net(w, o, end) > Net(v, o, end)
      /\ \A p, end : DaysProtected(w, p, end) = DaysProtected(v, p, end)
  <2> HIDE DEF w, v
  <2> QED BY <1>1, <1>2, WorthOfCheaper DEF v
<1>5. ASSUME NEW p \in Options \ {o} PROVE OptionResult(e, p) = OptionResult(c, p)
  <2>1. \A worth : Profile(e, p, worth) = Profile(c, p, worth)
    BY <1>3, <1>4 DEF Profile
  <2> DEFINE W(x) == Worth(x.value, p, Failing(x, p) = {})
  <2> DEFINE Lost(x) == BasisMissing(x.value, p) \/ (Failing(x, p) # {} /\ W(x).reasons # {})
  <2> DEFINE R(g, f, worth, profile, lost) ==
        IF g # "OPEN"
        THEN [state |-> "SUPPRESSED", gate |-> g, failing |-> {}, reasons |-> {},
              eligible |-> FALSE, status |-> "NOT_EVALUATED", net |-> 0, profile |-> Unread]
        ELSE [state |-> CASE lost -> "LOST"
                          [] ~lost /\ f = {} /\ worth.reasons = {} -> "ACTIVE"
                          [] OTHER -> "SUPPRESSED",
              gate |-> g, failing |-> f, reasons |-> worth.reasons, eligible |-> worth.eligible,
              status |-> worth.status, net |-> worth.net,
              profile |-> IF lost THEN Unread ELSE profile]
  <2>2. \A x : OptionResult(x, p) =
                  R(Gate(x, p), Failing(x, p), W(x), Profile(x, p, W(x)), Lost(x))
    BY DEF OptionResult
  <2>3. W(e) = W(c)
    <3>1. Failing(e, p) = Failing(c, p)
      BY <1>3
    <3>2. \A passes : Worth(e.value, p, passes) = Worth(c.value, p, passes)
      BY <1>4
    <3> HIDE DEF e, v, w
    <3> QED BY <3>1, <3>2
  <2>4. BasisMissing(e.value, p) = BasisMissing(c.value, p)
    <3> HIDE DEF e
    <3> QED BY <1>2 DEF BasisMissing, Repriced, w, v
  <2>5. Lost(e) = Lost(c)
    <3> HIDE DEF e, W
    <3> QED BY <1>3, <2>3, <2>4
  <2> HIDE DEF e, W, R, Lost
  <2> QED BY <1>3, <2>1, <2>2, <2>3, <2>5
<1>6. /\ Gate(c, o) = "OPEN" /\ Failing(c, o) = {} /\ v.present /\ ValueReasons(v, o) = {}
      /\ Net(v, o, "central") > 0 /\ Net(v, o, "lower") > 0
      /\ OptionResult(c, o).profile = Profile(c, o, Worth(v, o, TRUE))
  BY RobustResult
<1>7. Net(w, o, "central") > 0 /\ Net(w, o, "lower") > 0
  <2>1. \A end \in {"lower", "central"} : Net(v, o, end) \in Int /\ Net(w, o, end) \in Int
    <3> HIDE DEF v, w
    <3> QED BY <1>1, NetIsANumber
  <2> HIDE DEF v, w
  <2> QED BY <1>4, <1>6, <2>1
<1>8. w.present /\ w.consequence = v.consequence
  BY <1>2, <1>6 DEF Repriced
<1>9. /\ OptionResult(e, o).state = "ACTIVE" /\ OptionResult(e, o).eligible
      /\ OptionResult(e, o).status = "ROBUSTLY_POSITIVE"
      /\ OptionResult(e, o).profile = Profile(e, o, Worth(w, o, TRUE))
  <2>1. Gate(e, o) = "OPEN" /\ Failing(e, o) = {} /\ ValueReasons(w, o) = {}
    BY <1>3, <1>4, <1>6
  <2> HIDE DEF e
  <2> QED BY <1>1, <1>7, <1>8, <2>1, RobustFollows
<1>10. Worth(w, o, TRUE).schedule = Worth(v, o, TRUE).schedule
  <2> DEFINE S(u) == IF o \notin ExposureValued
                        /\ v.consequence[o].basis = "DIRECT_MONETARY_VALUE"
                     THEN NotApplicable ELSE Reading(DaysProtected(v, o, "central"), "days")
  <2>1. Worth(v, o, TRUE).schedule = S(v)
    BY <1>6 DEF Worth
  <2>2. Worth(w, o, TRUE).schedule = S(w)
    <3> HIDE DEF w, v
    <3> QED BY <1>4, <1>6, <1>8 DEF Worth
  <2> QED BY <2>1, <2>2
<1>11. v.cost[o].state = "sound" /\ w.cost[o].state = "sound"
  <2>1. CostAgainst(v, o) = {}
    BY <1>6 DEF ValueReasons
  <2>2. v.cost[o].state = "sound"
    BY <2>1 DEF CostAgainst, Against
  <2> QED BY <1>2, <2>2 DEF Repriced
<1>12. /\ DirectCost(w, o) = Reading(n, "currency")
       /\ DirectCost(v, o) = Reading(v.cost[o].amount, "currency")
  BY <1>2, <1>6, <1>8, <1>11 DEF DirectCost, Repriced
<1>13. /\ \A d \in Dimensions \ {"DIRECT_ACTION_COST"} :
             Profile(e, o, Worth(w, o, TRUE))[d] = Profile(c, o, Worth(v, o, TRUE))[d]
       /\ Profile(e, o, Worth(w, o, TRUE))["DIRECT_ACTION_COST"] = DirectCost(w, o)
       /\ Profile(c, o, Worth(v, o, TRUE))["DIRECT_ACTION_COST"] = DirectCost(v, o)
  <2>1. "DIRECT_ACTION_COST" \in Dimensions
    BY DEF Dimensions, DimensionOrder
  <2>2. \A x, worth : Profile(x, o, worth) =
          [d \in Dimensions |->
             CASE d = "SCHEDULE_PROTECTION" -> worth.schedule
               [] d = "DIRECT_ACTION_COST"  -> DirectCost(x.value, o)
               [] d = "TIME_TO_INITIATE"    -> InitiationTime(x, o)
               [] OTHER                     -> Rating(x, o, d)]
    BY DEF Profile
  <2> DEFINE we == Worth(w, o, TRUE)
  <2> DEFINE wc == Worth(v, o, TRUE)
  <2>3. ASSUME NEW d \in Dimensions \ {"DIRECT_ACTION_COST"}
        PROVE  Profile(e, o, we)[d] = Profile(c, o, wc)[d]
    <3>1. we.schedule = wc.schedule
      BY <1>10
    <3>2. InitiationTime(e, o) = InitiationTime(c, o) /\ Rating(e, o, d) = Rating(c, o, d)
      BY <1>3
    <3> HIDE DEF e, we, wc
    <3>3. \A x, worth : Profile(x, o, worth)[d] =
            CASE d = "SCHEDULE_PROTECTION" -> worth.schedule
              [] d = "TIME_TO_INITIATE"    -> InitiationTime(x, o)
              [] OTHER                     -> Rating(x, o, d)
      BY <2>2
    <3> QED BY <3>1, <3>2, <3>3
  <2>4. Profile(e, o, we)["DIRECT_ACTION_COST"] = DirectCost(e.value, o)
    <3> HIDE DEF e, we
    <3> QED BY <2>1, <2>2
  <2>5. Profile(c, o, wc)["DIRECT_ACTION_COST"] = DirectCost(c.value, o)
    <3> HIDE DEF wc
    <3> QED BY <2>1, <2>2
  <2> QED BY <2>3, <2>4, <2>5
<1> HIDE DEF e
<1> QED BY <1>5, <1>6, <1>9, <1>12, <1>13 DEF e

LEMMA CheaperDominates ==
    ASSUME NEW x \in Profiles, NEW y \in Profiles, NEW q \in Profiles, NEW m \in Int, NEW n \in Int,
           n < m, \A d \in Dimensions \ {"DIRECT_ACTION_COST"} : y[d] = x[d],
           x["DIRECT_ACTION_COST"] = Reading(m, "currency"),
           y["DIRECT_ACTION_COST"] = Reading(n, "currency"),
           Dominates(x, q)
    PROVE  Dominates(y, q)
<1>1. ASSUME NEW d \in Dimensions
      PROVE  /\ Comparable(x[d], q[d]) <=> Comparable(y[d], q[d])
             /\ BothNotApplicable(x[d], q[d]) <=> BothNotApplicable(y[d], q[d])
             /\ Better(d, x[d], q[d]) => Better(d, y[d], q[d])
             /\ Better(d, q[d], y[d]) => Better(d, q[d], x[d])
  <2>1. CASE d # "DIRECT_ACTION_COST"
    <3>1. y[d] = x[d]
      BY <2>1
    <3> QED BY <3>1
  <2>2. CASE d = "DIRECT_ACTION_COST"
    <3>1. q[d] \in Readings
      BY DEF Profiles
    <3>2. x[d] = Reading(m, "currency") /\ y[d] = Reading(n, "currency")
      BY <2>2
    <3>3. q[d].value \in Int
      BY <3>1 DEF Readings
    <3> QED BY <2>2, <3>2, <3>3 DEF Comparable, BothNotApplicable, Better, Reading
  <2> QED BY <2>1, <2>2
<1> QED BY <1>1 DEF Dominates, BlockingDimensions

\* The option that beats all others beats them all the more when it is cheaper,
\* and it alone does.
LEMMA CheaperIsAlone ==
    ASSUME NEW c \in CaseRecords, NEW o \in Universal(Results(c)), NEW n \in Int,
           n < c.value.cost[o].amount,
           \A p \in Options : Results(c)[p].state # "LOST"
    PROVE  Judgement(Results(WithCost(c, o, n))).published.first = o
<1> DEFINE e == WithCost(c, o, n)
<1> DEFINE r == Results(c)
<1> DEFINE s == Results(e)
<1>1. /\ GoodResults(r) /\ o \in Robust(r) /\ o \in EligibleOptions(r) /\ o \in Options \ {Monitor}
  <2>1. GoodResults(r)
    BY ResultsAreGood
  <2> HIDE DEF r
  <2> QED BY <2>1, ChoicesAreFinite DEF r
<1>2. e \in CaseRecords /\ GoodResults(s)
  <2>1. e \in CaseRecords
    BY <1>1, CostMayChange
  <2> HIDE DEF e
  <2> QED BY <2>1, ResultsAreGood
<1>3. /\ \A p \in Options : r[p] = OptionResult(c, p) /\ s[p] = OptionResult(e, p)
      /\ DOMAIN r = Options /\ DOMAIN s = Options
  BY DEF Results
<1>4. r[o].state = "ACTIVE" /\ r[o].status = "ROBUSTLY_POSITIVE" /\ r[o].eligible
  <2> HIDE DEF r
  <2> QED BY <1>1 DEF Robust, EligibleOptions
<1>5. /\ \A p \in Options \ {o} : s[p] = r[p]
      /\ s[o].state = "ACTIVE" /\ s[o].eligible /\ s[o].status = "ROBUSTLY_POSITIVE"
      /\ \A d \in Dimensions \ {"DIRECT_ACTION_COST"} : s[o].profile[d] = r[o].profile[d]
      /\ s[o].profile["DIRECT_ACTION_COST"] = Reading(n, "currency")
      /\ r[o].profile["DIRECT_ACTION_COST"] = Reading(c.value.cost[o].amount, "currency")
  <2>1. OptionResult(c, o).state = "ACTIVE" /\ OptionResult(c, o).status = "ROBUSTLY_POSITIVE"
    BY <1>1, <1>3, <1>4
  <2>2. /\ \A p \in Options \ {o} : OptionResult(e, p) = OptionResult(c, p)
        /\ OptionResult(e, o).state = "ACTIVE" /\ OptionResult(e, o).eligible
        /\ OptionResult(e, o).status = "ROBUSTLY_POSITIVE"
        /\ \A d \in Dimensions \ {"DIRECT_ACTION_COST"} :
              OptionResult(e, o).profile[d] = OptionResult(c, o).profile[d]
        /\ OptionResult(e, o).profile["DIRECT_ACTION_COST"] = Reading(n, "currency")
        /\ OptionResult(c, o).profile["DIRECT_ACTION_COST"] =
              Reading(c.value.cost[o].amount, "currency")
    BY <1>1, <2>1, CheaperResult
  <2> HIDE DEF e, r, s
  <2> QED BY <1>1, <1>3, <2>2
<1>6. EligibleOptions(s) = EligibleOptions(r) /\ Robust(s) = Robust(r)
  <2>1. EligibleOptions(s) = EligibleOptions(r)
    <3> HIDE DEF r, s
    <3>1. \A p \in Options \ {Monitor} :
             (s[p].state = "ACTIVE" /\ s[p].eligible) <=> (r[p].state = "ACTIVE" /\ r[p].eligible)
      BY <1>4, <1>5
    <3> QED BY <1>3, <3>1 DEF EligibleOptions
  <2> HIDE DEF r, s
  <2>2. \A p \in EligibleOptions(r) : p \in Options
    BY <1>1, ChoicesAreFinite
  <2>3. \A p \in Options :
           s[p].status = "ROBUSTLY_POSITIVE" <=> r[p].status = "ROBUSTLY_POSITIVE"
    BY <1>4, <1>5
  <2> QED BY <2>1, <2>2, <2>3 DEF Robust
<1>7. \A p \in Options : s[p].profile \in Profiles /\ r[p].profile \in Profiles
  BY <1>1, <1>2 DEF GoodResults
<1>8. ASSUME NEW p \in EligibleOptions(r) \ {o} PROVE Dominates(s[o].profile, s[p].profile)
  <2>1. Dominates(r[o].profile, r[p].profile)
    BY <1>8 DEF Universal
  <2>2. p \in Options \ {o}
    <3> HIDE DEF r
    <3> QED BY <1>1, <1>8, ChoicesAreFinite
  <2>3. s[p] = r[p]
    BY <1>5, <2>2
  <2>4. c.value.cost[o].amount \in Int
    <3>1. c.value \in Values
      BY DEF CaseRecords
    <3> QED BY <1>1, <3>1, AmountsAre
  <2> HIDE DEF r, s
  <2> QED BY <1>1, <1>5, <1>7, <2>1, <2>2, <2>3, <2>4, CheaperDominates
<1>9. Universal(s) = {o}
  <2> HIDE DEF r, s
  <2>1. o \in Universal(s)
    BY <1>1, <1>6, <1>8 DEF Universal
  <2>2. ASSUME NEW p \in Universal(s), p # o PROVE FALSE
    <3>1. p \in EligibleOptions(s) /\ o \in EligibleOptions(s)
      BY <1>1, <1>2, <1>6, ChoicesAreFinite
    <3>2. Dominates(s[p].profile, s[o].profile)
      BY <2>2, <3>1 DEF Universal
    <3>3. Dominates(s[o].profile, s[p].profile)
      BY <1>6, <1>8, <2>2, <3>1
    <3>4. s[p].profile \in Profiles /\ s[o].profile \in Profiles
      BY <1>2, <1>7, <3>1, ChoicesAreFinite
    <3> QED BY <3>2, <3>3, <3>4, DominanceIsAnOrder
  <2> QED BY <2>1, <2>2
<1>10. Publication(s).first = o
  <2> HIDE DEF s
  <2> QED BY <1>2, <1>9, OneUniversalIsFirst
<1>11. \A p \in Options : s[p].state # "LOST"
  <2> HIDE DEF r, s
  <2>1. \A p \in Options : r[p].state # "LOST"
    BY DEF r
  <2> QED BY <1>5, <2>1
<1>12. Judgement(s).published = Publication(s)
  <2> HIDE DEF s
  <2> QED BY <1>11 DEF Judgement
<1> QED BY <1>10, <1>12

\* An option that is recommended stays so when only its own declared cost falls:
\* the cost enters the net value and its own dimension, both of which improve,
\* and no tie or branch of the publication turns against it
\* (decision_support_value.py:1118-1420, decision_support_comparison.py:740-1000).
THEOREM CheaperKeepsRecommendation == Spec => []CheaperStaysRecommended
<1>1. IInv => CheaperStaysRecommended
  <2> DEFINE o == verdict.published.first
  <2> DEFINE r == Results(case)
  <2> SUFFICES ASSUME IInv, Decided, verdict.published.kind = "RECOMMENDATION", o # Monitor,
                      NEW n \in {k \in Costs : k < case.value.cost[o].amount}
               PROVE  Judgement(Results(WithCost(case, o, n))).published.first = o
    BY DEF CheaperStaysRecommended
  <2>1. /\ case \in CaseRecords /\ GoodResults(r) /\ verdict.published = Publication(r)
        /\ \A p \in Options : r[p].state # "LOST"
    BY DecidedIsJudged
  <2>2. o \in Universal(r)
    <3>1. o = Publication(r).first /\ Publication(r).kind = "RECOMMENDATION"
      BY <2>1
    <3> HIDE DEF r, o
    <3> QED BY <2>1, <3>1, RecommendedIsUniversal
  <2>3. n \in Int /\ n < case.value.cost[o].amount
    BY CasesAssumption
  <2> HIDE DEF o
  <2> QED BY <2>1, <2>2, <2>3, CheaperIsAlone
<1> QED BY <1>1, VerdictIsOfTheCase, PTL

-----------------------------------------------------------------------------
(* What is late.                                                           *)

LEMMA StruckFields ==
    ASSUME NEW c \in CaseRecords, NEW e, e = Struck(c)
    PROVE  /\ e.facts = {f \in c.facts : InTime(f)}
           /\ e.preview = c.preview
           /\ e.review = [c.review EXCEPT !.over = {f \in c.review.over : InTime(f)}]
           /\ e.trigger = [c.trigger EXCEPT !.approved =
                             c.trigger.approved /\ c.trigger.published <= Cutoff]
           /\ e.value = [c.value EXCEPT !.rate = Kept(c.value.rate),
                                        !.cost = [o \in Options |-> Kept(c.value.cost[o])],
                                        !.translation =
                                           [o \in Options |-> Kept(c.value.translation[o])]]
<1> DEFINE F == {f \in c.facts : InTime(f)}
<1> DEFINE V == [c.review EXCEPT !.over = {f \in c.review.over : InTime(f)}]
<1> DEFINE L == [o \in Options |-> IF c.links[o].published > Cutoff
                                   THEN [c.links[o] EXCEPT !.status = "MISSING"]
                                   ELSE c.links[o]]
<1> DEFINE T == [c.trigger EXCEPT !.approved =
                   c.trigger.approved /\ c.trigger.published <= Cutoff]
<1> DEFINE W == [c.value EXCEPT !.rate = Kept(c.value.rate),
                                !.cost = [o \in Options |-> Kept(c.value.cost[o])],
                                !.translation = [o \in Options |-> Kept(c.value.translation[o])]]
<1>1. /\ DOMAIN c.links = Options /\ DOMAIN c.value.cost = Options
      /\ DOMAIN c.value.translation = Options
  BY DEF CaseRecords, Values
<1>2. e = [c EXCEPT !.facts = F, !.review = V, !.links = L, !.trigger = T, !.value = W]
  <2> DEFINE O == {f \in c.review.over : InTime(f)}
  <2> DEFINE B == c.trigger.approved /\ c.trigger.published <= Cutoff
  <2> DEFINE R == Kept(c.value.rate)
  <2> DEFINE C == [o \in Options |-> Kept(c.value.cost[o])]
  <2> DEFINE X == [o \in Options |-> Kept(c.value.translation[o])]
  <2>1. e = [c EXCEPT !.facts = F, !.review.over = O, !.links = L, !.trigger.approved = B,
                      !.value.rate = R, !.value.cost = C, !.value.translation = X]
    BY <1>1 DEF Struck
  <2>2. /\ V = [c.review EXCEPT !.over = O] /\ T = [c.trigger EXCEPT !.approved = B]
        /\ W = [c.value EXCEPT !.rate = R, !.cost = C, !.translation = X]
    OBVIOUS
  <2> HIDE DEF F, V, L, T, W, O, B, R, C, X
  <2>3. [c EXCEPT !.facts = F, !.review.over = O, !.links = L, !.trigger.approved = B,
                  !.value.rate = R, !.value.cost = C, !.value.translation = X]
        = [c EXCEPT !.facts = F, !.review = [c.review EXCEPT !.over = O], !.links = L,
                    !.trigger = [c.trigger EXCEPT !.approved = B],
                    !.value = [c.value EXCEPT !.rate = R, !.cost = C, !.translation = X]]
    BY DEF CaseRecords, Values
  <2> QED BY <2>1, <2>2, <2>3
<1> HIDE DEF F, V, L, T, W
<1>3. /\ e.facts = F /\ e.review = V /\ e.links = L /\ e.trigger = T /\ e.value = W
      /\ e.mode = c.mode /\ e.retired = c.retired /\ e.preview = c.preview
  BY <1>2 DEF CaseRecords
<1> QED BY <1>3 DEF F, V, L, T, W

LEMMA StruckGate ==
    ASSUME NEW c \in CaseRecords, NEW o \in Options, ~ (c.links[o].published > Cutoff)
    PROVE  /\ Struck(c).retired = c.retired /\ Struck(c).mode = c.mode
           /\ Struck(c).links[o] = c.links[o]
<1>1. DOMAIN c.links = Options
  BY DEF CaseRecords
<1> DEFINE L == [p \in Options |-> IF c.links[p].published > Cutoff
                                   THEN [c.links[p] EXCEPT !.status = "MISSING"]
                                   ELSE c.links[p]]
<1>2. L[o] = c.links[o]
  OBVIOUS
<1>3. \A F, O, B, R, C, X, M :
        LET e == [c EXCEPT !.facts = F, !.review.over = O, !.links = M, !.trigger.approved = B,
                           !.value.rate = R, !.value.cost = C, !.value.translation = X]
        IN  e.retired = c.retired /\ e.mode = c.mode /\ e.links = M
  BY DEF CaseRecords
<1>4. Struck(c).retired = c.retired /\ Struck(c).mode = c.mode /\ Struck(c).links = L
  BY <1>1, <1>3 DEF Struck
<1> HIDE DEF L
<1> QED BY <1>2, <1>4

\* What the facts for a rule are, branch by branch.
LEMMA CandidatesAre ==
    ASSUME NEW c, NEW code, NEW o
    PROVE  LET coded == {f \in c.facts : f.code = code}
               own   == {f \in coded : f.scope = o}
               ofCase == {f \in coded : f.scope = "case"}
           IN  /\ own # {} => Candidates(c, code, o) = own
               /\ own = {} /\ code = "AVAILABLE_FLOAT_DAYS" => Candidates(c, code, o) = ofCase
               /\ own = {} /\ code = "TIME_TO_INITIATE_DAYS" /\ Cardinality(coded) = 1 =>
                    Candidates(c, code, o) = coded
               /\ own = {} /\ code # "AVAILABLE_FLOAT_DAYS"
                  /\ ~ (code = "TIME_TO_INITIATE_DAYS" /\ Cardinality(coded) = 1) =>
                    Candidates(c, code, o) = {}
  BY DEF Candidates

\* A fact that stands stands without the late ones.
LEMMA StandingStays ==
    ASSUME NEW c \in CaseRecords, NEW e, e.facts = {f \in c.facts : InTime(f)},
           NEW code, NEW o, Standing(c, code, o) # {}
    PROVE  Standing(e, code, o) = Standing(c, code, o)
<1> DEFINE coded(x) == {f \in x.facts : f.code = code}
<1> DEFINE own(x) == {f \in coded(x) : f.scope = o}
<1> DEFINE ofCase(x) == {f \in coded(x) : f.scope = "case"}
<1> DEFINE all == Candidates(c, code, o)
<1>1. all \subseteq coded(c) /\ IsFiniteSet(coded(c)) /\ IsFiniteSet(all)
  <2>1. all \subseteq coded(c)
    BY DEF Candidates
  <2>2. IsFiniteSet(c.facts)
    BY DEF CaseRecords, FiniteSetsOf
  <2> QED BY <2>1, <2>2, FS_Subset
<1>2. Cardinality(all) = 1 /\ \E f \in all : Eligible(f)
  BY DEF Standing
<1>3. PICK f : all = {f}
  <2> HIDE DEF all
  <2> QED BY <1>1, <1>2, FS_Singleton
<1>4. Eligible(f) /\ InTime(f) /\ f \in coded(c)
  <2> HIDE DEF coded, all
  <2> QED BY <1>1, <1>2, <1>3 DEF Eligible, InTime
<1>5. /\ coded(e) = {g \in coded(c) : InTime(g)} /\ own(e) = {g \in own(c) : InTime(g)}
      /\ ofCase(e) = {g \in ofCase(c) : InTime(g)}
  OBVIOUS
<1>6. \A x : /\ own(x) # {} => Candidates(x, code, o) = own(x)
             /\ own(x) = {} /\ code = "AVAILABLE_FLOAT_DAYS" => Candidates(x, code, o) = ofCase(x)
             /\ own(x) = {} /\ code = "TIME_TO_INITIATE_DAYS" /\ Cardinality(coded(x)) = 1 =>
                  Candidates(x, code, o) = coded(x)
             /\ own(x) = {} /\ code # "AVAILABLE_FLOAT_DAYS"
                /\ ~ (code = "TIME_TO_INITIATE_DAYS" /\ Cardinality(coded(x)) = 1) =>
                  Candidates(x, code, o) = {}
  BY CandidatesAre
<1>7. all = Candidates(c, code, o)
  OBVIOUS
<1>8. Cardinality({f}) = 1
  BY FS_Singleton
<1>9. Candidates(e, code, o) = {f}
  <2> HIDE DEF coded, own, ofCase, all
  <2>1. CASE own(c) # {}
    BY <1>3, <1>4, <1>5, <1>6, <1>7, <2>1
  <2>2. CASE own(c) = {} /\ code = "AVAILABLE_FLOAT_DAYS"
    BY <1>3, <1>4, <1>5, <1>6, <1>7, <2>2
  <2>3. CASE own(c) = {} /\ code = "TIME_TO_INITIATE_DAYS" /\ Cardinality(coded(c)) = 1
    <3>1. coded(c) = {f}
      BY <1>3, <1>6, <1>7, <2>3
    <3>2. coded(e) = {f} /\ own(e) = {}
      BY <1>4, <1>5, <2>3, <3>1
    <3> QED BY <1>6, <1>8, <2>3, <3>2
  <2> QED BY <1>3, <1>6, <1>7, <2>1, <2>2, <2>3
<1> HIDE DEF all
<1>10. Standing(e, code, o) = {f}
  BY <1>4, <1>8, <1>9 DEF Standing
<1>11. Standing(c, code, o) = {f}
  BY <1>3, <1>4, <1>8 DEF Standing, all
<1> QED BY <1>10, <1>11

\* What a rule finds satisfied it finds satisfied without what is late.
LEMMA SatisfiedStays ==
    ASSUME NEW c \in CaseRecords, NEW rule, NEW o, RuleStatus(c, rule, o) = "SATISFIED"
    PROVE  RuleStatus(Struck(c), rule, o) = "SATISFIED"
<1> DEFINE e == Struck(c)
<1>1. /\ e.facts = {f \in c.facts : InTime(f)} /\ e.preview = c.preview
      /\ e.review = [c.review EXCEPT !.over = {f \in c.review.over : InTime(f)}]
      /\ e.trigger = [c.trigger EXCEPT !.approved =
                        c.trigger.approved /\ c.trigger.published <= Cutoff]
  <2> HIDE DEF e
  <2> QED BY StruckFields DEF e
<1> HIDE DEF e
<1>2. \A code : Standing(c, code, o) # {} => Standing(e, code, o) = Standing(c, code, o)
  BY <1>1, StandingStays
<1>3. TriggerRegistered(e) <=> TriggerRegistered(c)
  <2>1. c.trigger \in Triggers
    BY DEF CaseRecords
  <2>2. /\ e.trigger.approved = (c.trigger.approved /\ c.trigger.published <= Cutoff)
        /\ e.trigger.published = c.trigger.published
    BY <1>1, <2>1 DEF Triggers
  <2> QED BY <2>2 DEF TriggerRegistered
<1>4. CASE rule \in FloatRules
  <2>1. \A x : RuleStatus(x, rule, o) = WithinFloat(x, o)
    BY <1>4 DEF RuleStatus, FloatRules
  <2> DEFINE times(x) == Standing(x, "TIME_TO_INITIATE_DAYS", o)
  <2> DEFINE floats(x) == Standing(x, "AVAILABLE_FLOAT_DAYS", o)
  <2>2. times(c) # {} /\ floats(c) # {}
    <3>1. WithinFloat(c, o) = "SATISFIED"
      BY <2>1
    <3> QED BY <3>1 DEF WithinFloat, Judge
  <2>3. times(e) = times(c) /\ floats(e) = floats(c)
    BY <1>2, <2>2
  <2>4. WithinFloat(e, o) = WithinFloat(c, o)
    BY <2>3 DEF WithinFloat
  <2> QED BY <2>1, <2>4 DEF e
<1>5. CASE rule = "COMPOSITE_COMPONENTS_COMPATIBLE"
  <2>1. \A x : RuleStatus(x, rule, o) = CompositeReview(x, o)
    BY <1>5 DEF RuleStatus, FloatRules
  <2>2. c.review \in Reviews
    BY DEF CaseRecords
  <2>3. /\ e.review.over = {f \in c.review.over : InTime(f)}
        /\ e.review.published = c.review.published /\ e.review.status = c.review.status
        /\ e.review.outcome = c.review.outcome
    BY <1>1, <2>2 DEF Reviews
  <2>4. /\ Standing(c, "COMPOSITE_COMPATIBILITY_REVIEW_REF", o) # {}
        /\ c.review.over = ReviewedFacts(c)
    <3>1. CompositeReview(c, o) = "SATISFIED"
      BY <2>1
    <3> QED BY <3>1 DEF CompositeReview
  <2>5. e.review.over = ReviewedFacts(e)
    BY <1>1, <2>3, <2>4 DEF ReviewedFacts
  <2>6. CompositeReview(e, o) = CompositeReview(c, o)
    BY <1>2, <2>3, <2>4, <2>5 DEF CompositeReview
  <2> QED BY <2>1, <2>6 DEF e
<1>6. CASE rule \notin FloatRules /\ rule # "COMPOSITE_COMPONENTS_COMPATIBLE"
  <2>1. \A x : RuleStatus(x, rule, o) = FactRule(x, rule, Standing(x, FactOf(rule), o))
    BY <1>6 DEF RuleStatus
  <2>2. FactRule(c, rule, {}) = "UNKNOWN"
    BY DEF FactRule, Judge
  <2>3. Standing(c, FactOf(rule), o) # {}
    BY <2>1, <2>2
  <2>4. Standing(e, FactOf(rule), o) = Standing(c, FactOf(rule), o)
    BY <1>2, <2>3
  <2>5. \A S : FactRule(e, rule, S) = FactRule(c, rule, S)
    BY <1>1, <1>3 DEF FactRule, Judge
  <2> QED BY <2>1, <2>4, <2>5 DEF e
<1> QED BY <1>4, <1>5, <1>6

\* A sound record is not late.
LEMMA KeptValues ==
    ASSUME NEW c \in CaseRecords
    PROVE  LET v == c.value
               w == Struck(c).value
           IN  /\ w.present = v.present /\ w.effect = v.effect /\ w.recoverable = v.recoverable
               /\ w.consequence = v.consequence
               /\ v.rate.state = "sound" => w.rate = v.rate
               /\ \A o \in Options : /\ v.cost[o].state = "sound" => w.cost[o] = v.cost[o]
                                     /\ v.translation[o].state = "sound" =>
                                          w.translation[o] = v.translation[o]
<1> DEFINE v == c.value
<1> DEFINE w == Struck(c).value
<1> DEFINE C == [o \in Options |-> Kept(v.cost[o])]
<1> DEFINE X == [o \in Options |-> Kept(v.translation[o])]
<1>1. w = [v EXCEPT !.rate = Kept(v.rate), !.cost = C, !.translation = X]
  BY StruckFields
<1>2. v \in Values
  BY DEF CaseRecords
<1>3. \A a : a.state = "sound" => Kept(a) = a
  BY DEF Kept
<1>4. \A o \in Options : C[o] = Kept(v.cost[o]) /\ X[o] = Kept(v.translation[o])
  OBVIOUS
<1> HIDE DEF C, X, v, w
<1>5. /\ w.present = v.present /\ w.effect = v.effect /\ w.recoverable = v.recoverable
      /\ w.consequence = v.consequence /\ w.rate = Kept(v.rate)
      /\ w.cost = C /\ w.translation = X
  BY <1>1, <1>2 DEF Values
<1> QED BY <1>3, <1>4, <1>5 DEF v, w

LEMMA ValuesStay ==
    ASSUME NEW c \in CaseRecords, NEW o \in Options, ValueReasons(c.value, o) = {}
    PROVE  LET v == c.value
               w == Struck(c).value
           IN  /\ ValueReasons(w, o) = {}
               /\ o # Monitor => \A end : Net(w, o, end) = Net(v, o, end)
<1> DEFINE v == c.value
<1> DEFINE w == Struck(c).value
<1>1. /\ w.present = v.present /\ w.effect = v.effect /\ w.recoverable = v.recoverable
      /\ w.consequence = v.consequence
      /\ v.rate.state = "sound" => w.rate = v.rate
      /\ v.cost[o].state = "sound" => w.cost[o] = v.cost[o]
      /\ v.translation[o].state = "sound" => w.translation[o] = v.translation[o]
  BY KeptValues
<1>2. v.consequence[o] \in Consequences
  BY DEF CaseRecords, Values
<1>3. ValueReasons(v, o) = {}
  OBVIOUS
<1> HIDE DEF v, w
<1>4. \A kind, a : Against(kind, a) = {} => a.state = "sound"
  BY DEF Against
<1>5. v.cost[o].state = "sound" /\ w.cost[o] = v.cost[o] /\ CostAgainst(w, o) = CostAgainst(v, o)
  <2>1. CostAgainst(v, o) = {}
    BY <1>3 DEF ValueReasons
  <2> QED BY <1>1, <1>4, <2>1 DEF CostAgainst
<1>6. CASE o = Monitor
  <2>1. ValueReasons(w, o) = CostAgainst(w, o) /\ ValueReasons(v, o) = CostAgainst(v, o)
    BY <1>6 DEF ValueReasons, ExposureValued, Monitor, Composite, Release
  <2> QED BY <1>3, <1>5, <1>6, <2>1 DEF v, w
<1>7. CASE o # Monitor /\ o \in ExposureValued
  <2>1. RateAgainst(v) = {} /\ FractionsAgainst(v, o) = {}
    BY <1>3, <1>7 DEF ValueReasons
  <2>2. w.rate = v.rate /\ w.translation[o] = v.translation[o]
    BY <1>1, <1>4, <2>1 DEF RateAgainst, FractionsAgainst
  <2>3. /\ RateAgainst(w) = RateAgainst(v) /\ FractionsAgainst(w, o) = FractionsAgainst(v, o)
        /\ EffectAgainst(w) = EffectAgainst(v)
    BY <1>1, <2>2 DEF RateAgainst, FractionsAgainst, EffectAgainst
  <2>4. ValueReasons(w, o) = ValueReasons(v, o)
    BY <1>5, <1>7, <2>3 DEF ValueReasons
  <2>5. \A end : Net(w, o, end) = Net(v, o, end)
    BY <1>1, <1>5, <1>7, <2>2 DEF Net, DaysProtected
  <2> QED BY <1>3, <2>4, <2>5 DEF v, w
<1>8. CASE o # Monitor /\ o \notin ExposureValued
  <2>1. ConsequenceAgainst(v, o) = {} /\ v.consequence[o].state = "sound"
    <3>1. ConsequenceAgainst(v, o) = {}
      BY <1>3, <1>8 DEF ValueReasons
    <3> QED BY <1>4, <3>1 DEF ConsequenceAgainst
  <2>2. v.consequence[o].basis = "PROJECT_DELAY_DAYS" => RateAgainst(v) = {} /\ w.rate = v.rate
    <3>1. v.consequence[o].basis = "PROJECT_DELAY_DAYS" => RateAgainst(v) = {}
      BY <1>3, <1>8, <2>1 DEF ValueReasons
    <3> QED BY <1>1, <1>4, <3>1 DEF RateAgainst
  <2>3. ConsequenceAgainst(w, o) = ConsequenceAgainst(v, o)
    BY <1>1 DEF ConsequenceAgainst
  <2>4. v.consequence[o].basis = "PROJECT_DELAY_DAYS" => RateAgainst(w) = RateAgainst(v)
    BY <2>2 DEF RateAgainst
  <2>5. ValueReasons(w, o) = ValueReasons(v, o)
    BY <1>1, <1>5, <1>8, <2>3, <2>4 DEF ValueReasons
  <2>6. \/ v.consequence[o].basis = "PROJECT_DELAY_DAYS"
        \/ v.consequence[o].basis = "DIRECT_MONETARY_VALUE"
    BY <1>2, <2>1 DEF Consequences
  <2>7. \A end : Net(w, o, end) = Net(v, o, end)
    BY <1>1, <1>5, <1>8, <2>2, <2>6 DEF Net, DaysProtected
  <2> QED BY <1>3, <2>5, <2>7 DEF v, w
<1> QED BY <1>6, <1>7, <1>8

LEMMA WorthStays ==
    ASSUME NEW c \in CaseRecords, NEW o \in Options, Worth(c.value, o, TRUE).reasons = {}
    PROVE  Worth(Struck(c).value, o, TRUE).reasons = {}
<1> DEFINE v == c.value
<1> DEFINE w == Struck(c).value
<1>1. w.present = v.present
  BY KeptValues
<1>2. CASE ~ v.present
  <2> HIDE DEF w
  <2>1. ~ w.present
    BY <1>1, <1>2
  <2>2. Worth(w, o, TRUE).reasons = {}
    BY <2>1 DEF Worth
  <2> QED BY <2>2 DEF w
<1>3. CASE v.present
  <2>1. ValueReasons(v, o) = {}
    <3>1. o = Monitor => Worth(v, o, TRUE).reasons = ValueReasons(v, o)
      BY <1>3 DEF Worth
    <3>2. o # Monitor /\ ValueReasons(v, o) # {} => Worth(v, o, TRUE).reasons = ValueReasons(v, o)
      BY <1>3 DEF Worth
    <3> QED BY <3>1, <3>2
  <2>2. ValueReasons(w, o) = {} /\ (o # Monitor => \A end : Net(w, o, end) = Net(v, o, end))
    BY <2>1, ValuesStay
  <2> HIDE DEF w, v
  <2>3. CASE o = Monitor
    <3>1. Worth(w, o, TRUE).reasons = {}
      BY <1>1, <1>3, <2>2, <2>3 DEF Worth
    <3> QED BY <3>1 DEF w
  <2>4. CASE o # Monitor
    <3>1. ValueStatus(w, o) = ValueStatus(v, o)
      BY <2>2, <2>4 DEF ValueStatus
    <3>2. /\ Worth(w, o, TRUE).reasons = IF ValueStatus(w, o) = "NON_POSITIVE_CENTRAL_VALUE"
                                         THEN {<<"NET_VALUE", "NON_POSITIVE_CENTRAL">>} ELSE {}
          /\ Worth(v, o, TRUE).reasons = IF ValueStatus(v, o) = "NON_POSITIVE_CENTRAL_VALUE"
                                         THEN {<<"NET_VALUE", "NON_POSITIVE_CENTRAL">>} ELSE {}
      BY <1>1, <1>3, <2>1, <2>2, <2>4 DEF Worth
    <3> QED BY <3>1, <3>2 DEF v, w
  <2> QED BY <2>3, <2>4
<1> QED BY <1>2, <1>3

\* An option that is kept is kept without what is late.
LEMMA ActiveStays ==
    ASSUME NEW c \in CaseRecords, NEW o \in Options, OptionResult(c, o).state = "ACTIVE"
    PROVE  OptionResult(Struck(c), o).state = "ACTIVE"
<1> DEFINE e == Struck(c)
<1>1. /\ Gate(c, o) = "OPEN" /\ Failing(c, o) = {}
      /\ Worth(c.value, o, Failing(c, o) = {}).reasons = {}
      /\ ~BasisMissing(c.value, o)
  BY DEF OptionResult
<1>2. Gate(e, o) = "OPEN"
  <2>1. o \notin c.retired /\ c.mode \in Modes(o) /\ ~ (c.links[o].published > Cutoff)
    BY <1>1 DEF Gate
  <2>2. e.retired = c.retired /\ e.mode = c.mode /\ e.links[o] = c.links[o]
    BY <2>1, StruckGate
  <2> HIDE DEF e
  <2> QED BY <1>1, <2>2 DEF Gate
<1>3. Failing(e, o) = {}
  <2>1. \A rule, scope : RuleStatus(c, rule, scope) = "SATISFIED" =>
                           RuleStatus(e, rule, scope) = "SATISFIED"
    BY SatisfiedStays
  <2> HIDE DEF e
  <2> QED BY <1>1, <2>1 DEF Failing
<1>4. Worth(e.value, o, TRUE).reasons = {}
  <2>1. (Failing(c, o) = {}) = TRUE
    BY <1>1
  <2>2. Worth(c.value, o, TRUE).reasons = {}
    BY <1>1, <2>1
  <2> QED BY <2>2, WorthStays
<1>5. (Failing(e, o) = {}) = TRUE
  BY <1>3
<1>7. ~BasisMissing(e.value, o)
  BY <1>1, KeptValues DEF BasisMissing
<1> HIDE DEF e
<1>6. OptionResult(e, o).state = "ACTIVE"
  BY <1>2, <1>3, <1>4, <1>5, <1>7 DEF OptionResult
<1> QED BY <1>6 DEF e

\* Nothing that was learnt, published or reviewed after the cutoff, and nothing
\* that had expired at it, is why an option is kept
\* (decision_support_constraints.py:1593-1643, 2347-2727, 2954-3110,
\* decision_support_value.py:634-743).
THEOREM LateDoesNotHelp == Spec => []LateNeverHelps
<1>1. IInv => LateNeverHelps
  <2> SUFFICES ASSUME IInv, Decided, NEW o \in Options, verdict.results[o].state = "ACTIVE"
               PROVE  OptionResult(Struck(case), o).state = "ACTIVE"
    BY DEF LateNeverHelps
  <2>1. case \in CaseRecords /\ verdict.results = Results(case)
    BY DecidedIsJudged
  <2>2. OptionResult(case, o).state = "ACTIVE"
    BY <2>1 DEF Results
  <2> QED BY <2>1, <2>2, ActiveStays
<1> QED BY <1>1, VerdictIsOfTheCase, PTL
=============================================================================
