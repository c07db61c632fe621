-------------------------- MODULE OptionComparison --------------------------
(***************************************************************************)
(* The worth of each option, the comparison of the options that are left,  *)
(* and what an evaluation publishes: decision_support_value.py,            *)
(* decision_support_comparison.py and the evaluation that ties them to the *)
(* rules (decision_support_constraints.py).                                *)
(*                                                                         *)
(* The value inputs c.value of a case hold whether an envelope was         *)
(* supplied (present), how many rates and which currencies it holds, the   *)
(* basis it declares, the verified exposure effect, the rate of a          *)
(* critical-path day and, per option, a declared cost, a recoverable and a *)
(* translation fraction and a consequence.  A governed record is sound,    *)
(* absent, late (known, reviewed or expired on the wrong side of the       *)
(* cutoff) or malformed (anything else the parsers refuse, a currency or   *)
(* duration basis that does not agree included).  Fractions are parts of   *)
(* Parts, so every amount of money is a multiple of 1 / (Parts * Parts);   *)
(* the 4096-bit bound of the exact arithmetic is out of reach here.        *)
(***************************************************************************)
EXTENDS OptionEligibility, Sequences

CONSTANTS Parts   \* the fractions are n / Parts

ASSUME PartsAssumption == Parts \in Nat \ {0}

NoOption == "none"

DisplayOrder ==
  <<"PROTECTED_PRODUCTION_SLOT", "QUALIFIED_SOURCE_SPLIT", "PREQUALIFIED_ALTERNATE", Release,
    "CAPACITY_BACKED_ACCELERATION", "PHASED_DELIVERY", "DEPENDENT_WORK_RESEQUENCING",
    "CONTRACTUAL_ESCALATION", Monitor, Composite>>

Place(o) == CHOOSE i \in DOMAIN DisplayOrder : DisplayOrder[i] = o

-----------------------------------------------------------------------------
(* Value.                                                                  *)

\* The reason a record of this kind gives against the option.
Against(kind, record) ==
  CASE record.state = "sound"     -> {}
    [] record.state = "malformed" -> {<<kind, "INVALID">>}
    [] OTHER                      -> {<<kind, "UNAVAILABLE">>}

\* The parsers of the kinds of records; an effect is there or is not.
CostAgainst(v, o)        == Against("ACTION_COST", v.cost[o])
RateAgainst(v)           == Against("CRITICAL_PATH_DELAY_RATE", v.rate)
ConsequenceAgainst(v, o) == Against("CONSEQUENCE_BENEFIT_ASSUMPTION", v.consequence[o])
FractionsAgainst(v, o)   == Against("RECOVERABLE_FRACTION", v.recoverable[o])
                            \cup Against("CRITICAL_PATH_TRANSLATION_FRACTION", v.translation[o])
EffectAgainst(v) ==
  IF v.effect.state = "sound" THEN {} ELSE {<<"EXPOSURE_EFFECT", "UNAVAILABLE">>}

\* What the records that the option's formula reads give against it.
ValueReasons(v, o) ==
  CostAgainst(v, o) \cup
  CASE o = Monitor -> {}
    [] o \in ExposureValued -> RateAgainst(v) \cup FractionsAgainst(v, o) \cup EffectAgainst(v)
    [] OTHER ->
         ConsequenceAgainst(v, o)
         \cup (IF /\ v.consequence[o].state # "absent"
                  /\ v.consequence[o].basis = "PROJECT_DELAY_DAYS" THEN RateAgainst(v) ELSE {})

\* Days of the project protected, at one end of the range, in 1/(Parts*Parts).
DaysProtected(v, o, end) ==
  IF o \in ExposureValued
  THEN v.effect[end] * v.recoverable[o].amount * v.translation[o].amount
  ELSE v.consequence[o][end] * Parts * Parts

Net(v, o, end) ==
  LET gross == IF o \notin ExposureValued /\ v.consequence[o].basis = "DIRECT_MONETARY_VALUE"
               THEN v.consequence[o][end] * Parts * Parts
               ELSE DaysProtected(v, o, end) * v.rate.amount
  IN  gross - v.cost[o].amount * Parts * Parts

ValueStatus(v, o) ==
  CASE Net(v, o, "central") <= 0 -> "NON_POSITIVE_CENTRAL_VALUE"
    [] Net(v, o, "central") > 0 /\ Net(v, o, "lower") <= 0 -> "VALUE_SENSITIVE"
    [] OTHER -> "ROBUSTLY_POSITIVE"

\* project_option_value: what is known of the option's worth, and the reasons
\* that suppress it.
Worth(v, o, passes) ==
  LET reasons == ValueReasons(v, o)
      Plain(status, eligible) ==
        [status |-> status, eligible |-> eligible, reasons |-> reasons, net |-> 0,
         schedule |-> IF o = Monitor THEN NotApplicable ELSE Unknown]
      status == ValueStatus(v, o)
  IN
  CASE ~v.present    -> [Plain("NOT_EVALUATED", FALSE) EXCEPT !.reasons = {}]
    [] v.present /\ o = Monitor -> Plain("NOT_APPLICABLE", reasons = {} /\ passes)
    [] v.present /\ o # Monitor /\ ~passes -> Plain("NOT_EVALUATED", FALSE)
    [] v.present /\ o # Monitor /\ passes /\ reasons # {} -> Plain("UNAVAILABLE", FALSE)
    [] OTHER ->
         [status   |-> status,
          eligible |-> status # "NON_POSITIVE_CENTRAL_VALUE",
          reasons  |-> IF status = "NON_POSITIVE_CENTRAL_VALUE"
                       THEN {<<"NET_VALUE", "NON_POSITIVE_CENTRAL">>} ELSE {},
          net      |-> Net(v, o, "central"),
          schedule |-> IF o \notin ExposureValued
                          /\ v.consequence[o].basis = "DIRECT_MONETARY_VALUE"
                       THEN NotApplicable
                       ELSE Reading(DaysProtected(v, o, "central"), "days")]

DirectCost(v, o) ==
  IF v.present /\ v.cost[o].state = "sound" THEN Reading(v.cost[o].amount, "currency")
  ELSE Unknown

-----------------------------------------------------------------------------
(* One option.                                                             *)

DimensionOrder == <<"SCHEDULE_PROTECTION", "DIRECT_ACTION_COST", "TIME_TO_INITIATE",
                    "CONTRACTUAL_RELATIONSHIP_RISK", "OPERATIONAL_DISRUPTION",
                    "REVERSIBILITY">>
Dimensions == {DimensionOrder[i] : i \in DOMAIN DimensionOrder}

Unread == [d \in Dimensions |-> Unknown]

Profile(c, o, worth) ==
  [d \in Dimensions |->
     CASE d = "SCHEDULE_PROTECTION" -> worth.schedule
       [] d = "DIRECT_ACTION_COST"  -> DirectCost(c.value, o)
       [] d = "TIME_TO_INITIATE"    -> InitiationTime(c, o)
       [] OTHER                     -> Rating(c, o, d)]

\* A refused consequence is asked for its basis all the same.
BasisMissing(v, o) ==
  /\ v.present /\ o \notin ExposureValued \cup {Monitor}
  /\ v.consequence[o].state \notin {"sound", "absent"} /\ v.consequence[o].basis = "none"

\* _option_result.  The reasons of a failing rule are ordered by a field that
\* the reasons of the value inputs lack: with both, the evaluation is lost; so
\* it is by a consequence without the basis that is asked for.
OptionResult(c, o) ==
  LET gate    == Gate(c, o)
      failing == Failing(c, o)
      worth   == Worth(c.value, o, failing = {})
      lost    == BasisMissing(c.value, o) \/ (failing # {} /\ worth.reasons # {})
      Result(state, profile) ==
        [state |-> state, gate |-> gate, failing |-> failing, reasons |-> worth.reasons,
         eligible |-> worth.eligible, status |-> worth.status, net |-> worth.net,
         profile |-> profile]
  IN
  IF gate # "OPEN"
  THEN [state |-> "SUPPRESSED", gate |-> gate, failing |-> {}, reasons |-> {},
        eligible |-> FALSE, status |-> "NOT_EVALUATED", net |-> 0, profile |-> Unread]
  ELSE CASE lost -> Result("LOST", Unread)
         [] ~lost /\ failing = {} /\ worth.reasons = {} -> Result("ACTIVE", Profile(c, o, worth))
         [] OTHER -> Result("SUPPRESSED", Profile(c, o, worth))

-----------------------------------------------------------------------------
(* Pairs.                                                                  *)

BothNotApplicable(x, y) == x.state = "NOT_APPLICABLE" /\ y.state = "NOT_APPLICABLE"

Comparable(x, y) == x.state = "APPLICABLE" /\ y.state = "APPLICABLE" /\ x.unit = y.unit

\* A defect: the costlier option is the better one.
BetterWhenDearer(d, x, y) ==
  /\ Comparable(x, y)
  /\ IF d \in {"SCHEDULE_PROTECTION", "DIRECT_ACTION_COST"} THEN x.value > y.value
     ELSE x.value < y.value

Better(d, x, y) ==
  /\ Comparable(x, y)
  /\ IF d = "SCHEDULE_PROTECTION" THEN x.value > y.value ELSE x.value < y.value

BlockingDimensions(p, q) ==
  {d \in Dimensions : ~Comparable(p[d], q[d]) /\ ~BothNotApplicable(p[d], q[d])}

Dominates(p, q) ==
  /\ BlockingDimensions(p, q) = {}
  /\ \E d \in Dimensions : Better(d, p[d], q[d])
  /\ \A d \in Dimensions : ~Better(d, q[d], p[d])

\* Nothing blocks the pair and nothing separates it.
SameProfile(p, q) ==
  /\ BlockingDimensions(p, q) = {}
  /\ \E d \in Dimensions : Comparable(p[d], q[d])
  /\ \A d \in Dimensions : ~Better(d, p[d], q[d]) /\ ~Better(d, q[d], p[d])

\* Ties go to the option displayed first.
FirstBy(S, Before(_, _)) ==
  CHOOSE o \in S : \A p \in S \ {o} : Before(o, p) \/ (~Before(p, o) /\ Place(o) < Place(p))

BestNet(r, S) == FirstBy(S, LAMBDA o, p : r[o].net > r[p].net)

\* Of options that all beat one other on the dimension.
BestOn(r, d, S) ==
  FirstBy(S, LAMBDA o, p : \/ Better(d, r[o].profile[d], r[p].profile[d])
                           \/ r[o].profile[d] = r[p].profile[d] /\ r[o].net > r[p].net)

-----------------------------------------------------------------------------
(* Publication.                                                            *)

Published(kind, basis, first, second) ==
  [kind |-> kind, basis |-> basis, first |-> first, second |-> second]
Nothing(basis) == Published("NO_ELIGIBLE_OPTION", basis, NoOption, NoOption)

\* The frontier branch: the second candidate and what it is chosen on.
Pivot(r, a, others) ==
  LET same  == {o \in others : SameProfile(r[a].profile, r[o].profile)}
      tied  == {o \in same : r[o].net = r[a].net}
      Beat(d) == {o \in others : Better(d, r[o].profile[d], r[a].profile[d])}
      beaten == {i \in DOMAIN DimensionOrder : Beat(DimensionOrder[i]) # {}}
  IN
  CASE tied # {}   -> <<"TIED_UNDER_POLICY", BestNet(r, tied)>>
    [] tied = {} /\ beaten # {} ->
         LET d == DimensionOrder[Min(beaten)] IN <<d, BestOn(r, d, Beat(d))>>
    [] tied = {} /\ beaten = {} /\ same # {} -> <<"EQUAL_COMPARISON_PROFILE", BestNet(r, same)>>
    [] OTHER       -> <<"INCOMPARABLE_EVIDENCE_GAP", BestNet(r, others)>>

EligibleOptions(r) == {o \in DOMAIN r \ {Monitor} : r[o].state = "ACTIVE" /\ r[o].eligible}

\* A defect: dominated options stay candidates.
FrontierOfAll(r) == EligibleOptions(r)

Frontier(r) ==
  {o \in EligibleOptions(r) :
     ~ \E p \in EligibleOptions(r) \ {o} : Dominates(r[p].profile, r[o].profile)}

Robust(r) == {o \in EligibleOptions(r) : r[o].status = "ROBUSTLY_POSITIVE"}

\* A defect: a value-sensitive rival need not be beaten.
UniversalAmongRobust(r) ==
  {o \in Robust(r) : \A p \in Robust(r) \ {o} : Dominates(r[o].profile, r[p].profile)}

Universal(r) ==
  {o \in Robust(r) : \A p \in EligibleOptions(r) \ {o} : Dominates(r[o].profile, r[p].profile)}

\* compare_and_publish.
Publication(r) ==
  LET eligible  == EligibleOptions(r)
      frontier  == Frontier(r)
      monitored == Monitor \in DOMAIN r /\ r[Monitor].state = "ACTIVE" /\ r[Monitor].eligible
      robust    == Robust(r)
      universal == Universal(r)
      a         == BestNet(r, frontier)
      pivot     == Pivot(r, a, frontier \ {a})
      Recommend(basis, o, runner) == Published("RECOMMENDATION", basis, o, runner)
      TradeOff(p, x, y)           == Published("TRADE_OFF", p, x, y)
  IN
  CASE eligible = {} ->
         IF monitored
         THEN Recommend("MONITORING_FALLBACK_NO_POSITIVE_ACTIVE_OPTION", Monitor, NoOption)
         ELSE Nothing("NO_OPTION_LEFT")
    [] Cardinality(eligible) = 1 /\ robust # {} ->
         Recommend("SOLE_ELIGIBLE_OPTION", BestNet(r, eligible), NoOption)
    [] Cardinality(eligible) > 1 /\ universal # {} ->
         LET o == BestNet(r, universal)
         IN  Recommend("UNIVERSAL_PARETO_DOMINANCE", o, BestNet(r, eligible \ {o}))
    [] Cardinality(eligible) > 1 /\ universal = {} /\ robust # {}
         /\ robust \cap frontier = {} -> TradeOff("VALUE_UNCERTAINTY", a, BestNet(r, robust))
    [] eligible # {} /\ robust = {} ->
         IF monitored THEN TradeOff("VALUE_UNCERTAINTY", BestNet(r, eligible), Monitor)
         ELSE Nothing("VALUE_SENSITIVE_BASELINE_UNAVAILABLE")
    [] OTHER ->
         IF frontier = {a} THEN Recommend("SOLE_ELIGIBLE_OPTION", a, NoOption)
         ELSE TradeOff(pivot[1], a, pivot[2])

\* evaluate_active_synthetic_conformance.
Results(c) == [o \in Options |-> OptionResult(c, o)]

Judgement(r) ==
  [results   |-> r,
   published |-> IF \E o \in Options : r[o].state = "LOST"
                 THEN Published("LOST", "none", NoOption, NoOption)
                 ELSE Publication(r)]

Refusal(c) ==
  [results   |-> <<>>,
   published |-> Published("REFUSED", Stages[Min(Faults(c))], NoOption, NoOption)]
=============================================================================
