--------------------------- MODULE OptionDecision ---------------------------
(***************************************************************************)
(* A case and its evaluations.  The case starts complete, with every       *)
(* required rule satisfied and every record sound, and its owner changes   *)
(* it; at any moment it may be frozen into a snapshot and evaluated.  Each *)
(* change but a renewed composite review costs one of MaxDepartures.       *)
(***************************************************************************)
EXTENDS OptionComparison

CONSTANTS
    BaseCases,      \* the complete cases
    Costs,          \* amounts a declared cost may be changed to
    MaxDepartures   \* changes of a case

\* What the inputs of an evaluation may be.
FiniteSetsOf(S) == {T \in SUBSET S : IsFiniteSet(T)}

Codes == {FactOf(rule) : rule \in UNION {RequiredRules[o] : o \in Library}}
         \cup {"TIME_TO_INITIATE_DAYS", "AVAILABLE_FLOAT_DAYS"}
Words == {"yes", "no", "current", "malformed", "absent"}
         \cup UNION {AllowedKinds[rule] : rule \in DOMAIN AllowedKinds}
DayBases == {"CALENDAR_DAY", "BUSINESS_DAY"}
Statuses == {"APPROVED", "PROVISIONAL", "REJECTED", "SUPERSEDED", "MISSING"}
Outcomes == {"COMPATIBLE", "INCOMPATIBLE"}
States == {"sound", "absent", "late", "malformed"}

Facts == [code : Codes, scope : Library \cup {"case"}, value : Words, days : Int, basis : DayBases,
          known : Int, available : Int, through : Int]
Links == [status : Statuses, published : Int, heads : Int]
Triggers == [approved : BOOLEAN, published : Int, heads : Int]
RubricRules == [code : Codes, accepts : SUBSET Words, rank : Int]
Rubrics == [status : Statuses, published : Int, reviewed : Int, inputs : SUBSET Codes,
            needed : SUBSET Codes, rules : FiniteSetsOf(RubricRules)]
Reviews == [status : Statuses, published : Int, reviewed : Int, outcome : Outcomes,
            attested : Outcomes, over : SUBSET Facts]
Amounts == [state : States, amount : Int]
Effects == [state : States, basis : DayBases, lower : Int, central : Int, upper : Int]
Consequences ==
  {x \in [state : States, basis : {"PROJECT_DELAY_DAYS", "DIRECT_MONETARY_VALUE", "none"},
          lower : Int, central : Int, upper : Int] : x.state = "sound" => x.basis # "none"}
Values == [present : BOOLEAN, rates : Int, currencies : SUBSET {"INR", "EUR"},
           declared : DayBases \cup {"none"}, effect : Effects, rate : Amounts,
           cost : [Options -> Amounts], recoverable : [Options -> Amounts],
           translation : [Options -> Amounts], consequence : [Options -> Consequences]]
CaseRecords ==
  [mode : {"PROACTIVE", "REACTIVE"}, facts : FiniteSetsOf(Facts), retired : SUBSET Options,
   causal : Int, broken : SUBSET {Stages[i] : i \in DOMAIN Stages}, links : [Options -> Links],
   rubrics : [AtomicOptions -> [Advisory -> Rubrics]], trigger : Triggers,
   preview : {"below", "high", "absent", "malformed"}, review : Reviews, value : Values]

ASSUME CasesAssumption == BaseCases \subseteq CaseRecords /\ Costs \subseteq Int

VARIABLES
    case,         \* the inputs of the next evaluation
    departures,   \* changes made so far
    verdict       \* the last evaluation of this case, or Pending

vars == <<case, departures, verdict>>

Pending == [published |-> Published("PENDING", "none", NoOption, NoOption)]

Decided == verdict.published.kind \notin {"PENDING", "REFUSED"}

Init == case \in BaseCases /\ departures = 0 /\ verdict = Pending

Change(new) ==
  /\ departures < MaxDepartures
  /\ new # case
  /\ case' = new
  /\ departures' = departures + 1
  /\ verdict' = Pending

-----------------------------------------------------------------------------
(* Changes of the snapshot.                                                *)

WithFacts(facts) == Change([case EXCEPT !.facts = facts])

WithdrawFact(f) == WithFacts(case.facts \ {f})

Replaced(f, g) == WithFacts((case.facts \ {f}) \cup {g})

\* Learnt only after the cutoff, or no longer holding at it.
DelayFact(f) == Replaced(f, [f EXCEPT !.known = Cutoff + 1])
HideSource(f) == Replaced(f, [f EXCEPT !.available = Cutoff + 1])
ExpireFact(f) == Replaced(f, [f EXCEPT !.through = Cutoff - 1])

\* Another answer, a value that cannot be read, or a duration on another basis.
AnswerFact(f) == \E v \in {"no", "malformed", "absent"} : Replaced(f, [f EXCEPT !.value = v])
DurationFact(f) ==
  \/ \E n \in {0, Cutoff + 2} : Replaced(f, [f EXCEPT !.days = n])
  \/ Replaced(f, [f EXCEPT !.basis = "BUSINESS_DAY"])

\* A second fact of the same kind, learnt too late for this cutoff or not.
RepeatFact(f) ==
  \E known \in {Cutoff, Cutoff + 1} :
     WithFacts(case.facts \cup {[f EXCEPT !.days = @ + 1, !.known = known]})

\* The composite review is made again, of the facts as they are.
ReviewAgain ==
  /\ case.review.over # ReviewedFacts(case)
  /\ case' = [case EXCEPT !.review.over = ReviewedFacts(case)]
  /\ verdict' = Pending
  /\ UNCHANGED departures

-----------------------------------------------------------------------------
(* Changes of the governed records and of the value inputs.                *)

ChangeLink(o) ==
  \/ \E s \in {"MISSING", "PROVISIONAL", "REJECTED", "SUPERSEDED"} :
        Change([case EXCEPT !.links[o].status = s])
  \/ Change([case EXCEPT !.links[o].published = Cutoff + 1])
  \/ Change([case EXCEPT !.links[o].heads = 2])

RetireOption(o) == Change([case EXCEPT !.retired = @ \cup {o}])

ChangeReview ==
  \/ \E s \in {"SUPERSEDED", "MISSING"} : Change([case EXCEPT !.review.status = s])
  \/ Change([case EXCEPT !.review.published = Cutoff + 1])
  \/ Change([case EXCEPT !.review.reviewed = Cutoff + 1])
  \/ Change([case EXCEPT !.review.outcome = "INCOMPATIBLE"])
  \/ Change([case EXCEPT !.review.outcome = "INCOMPATIBLE", !.review.attested = "INCOMPATIBLE"])

ChangeTrigger ==
  \/ Change([case EXCEPT !.trigger.approved = FALSE])
  \/ Change([case EXCEPT !.trigger.published = Cutoff + 1])
  \/ Change([case EXCEPT !.trigger.heads = 2])

ChangePreview == \E p \in {"absent", "malformed", "high"} : Change([case EXCEPT !.preview = p])

\* A second rule, of an input that the rubric does not need.
FloatRule == [code |-> "AVAILABLE_FLOAT_DAYS", accepts |-> {"yes"}, rank |-> 2]
WithFloatRule(rubric) ==
  [rubric EXCEPT !.inputs = @ \cup {FloatRule.code}, !.rules = @ \cup {FloatRule}]

ChangeRubric(o, dim) ==
  \/ Change([case EXCEPT !.rubrics[o][dim].status = "MISSING"])
  \/ Change([case EXCEPT !.rubrics[o][dim].published = Cutoff + 1])
  \/ Change([case EXCEPT !.rubrics[o][dim].reviewed = Cutoff + 1])
  \/ Change([case EXCEPT !.rubrics[o][dim].inputs = @ \cup {"AVAILABLE_FLOAT_DAYS"}])
  \/ Change([case EXCEPT !.rubrics[o][dim] = WithFloatRule(@)])
  \/ \E n \in 0 .. 2 :
        Change([case EXCEPT !.rubrics[o][dim].rules = {[r EXCEPT !.rank = n] : r \in @}])

ChangeCost(o) ==
  \/ \E n \in Costs : Change([case EXCEPT !.value.cost[o].amount = n])
  \/ \E s \in {"absent", "late", "malformed"} : Change([case EXCEPT !.value.cost[o].state = s])

ChangeFractions(o) ==
  /\ o \in ExposureValued
  /\ \/ \E n \in 0 .. Parts : Change([case EXCEPT !.value.recoverable[o].amount = n])
     \/ Change([case EXCEPT !.value.translation[o].state = "late"])

ChangeConsequence(o) ==
  /\ o \notin ExposureValued \cup {Monitor}
  /\ \/ Change([case EXCEPT !.value.consequence[o].basis = "DIRECT_MONETARY_VALUE"])
     \/ Change([case EXCEPT !.value.consequence[o].central = @ - 1])
     \/ \E s \in {"absent", "malformed"} :
           Change([case EXCEPT !.value.consequence[o].state = s])
     \/ Change([case EXCEPT !.value.consequence[o] =
                   [@ EXCEPT !.state = "malformed", !.basis = "none"]])

ChangeValueInputs ==
  \/ Change([case EXCEPT !.value.present = FALSE])
  \/ Change([case EXCEPT !.value.rate.state = "malformed"])
  \/ Change([case EXCEPT !.value.effect.state = "absent"])
  \/ Change([case EXCEPT !.value.rates = 2])
  \/ Change([case EXCEPT !.value.currencies = @ \cup {"EUR"}])
  \/ Change([case EXCEPT !.value.declared = "BUSINESS_DAY"])

\* A record that does not verify, or a snapshot of a time before its decision.
Spoil ==
  \/ \E i \in DOMAIN Stages : Change([case EXCEPT !.broken = {Stages[i]}])
  \/ Change([case EXCEPT !.causal = Cutoff + 1])

-----------------------------------------------------------------------------
\* One evaluation of the snapshot as it is.
Evaluate ==
  /\ verdict = Pending
  /\ IF Faults(case) = {} THEN \E r \in {Results(case)} : verdict' = Judgement(r)
     ELSE verdict' = Refusal(case)
  /\ UNCHANGED <<case, departures>>

Next ==
  \/ \E f \in case.facts :
        \/ WithdrawFact(f) \/ DelayFact(f) \/ HideSource(f) \/ ExpireFact(f)
        \/ AnswerFact(f) \/ DurationFact(f) \/ RepeatFact(f)
  \/ \E o \in Options :
        \/ ChangeLink(o) \/ RetireOption(o)
        \/ ChangeCost(o) \/ ChangeFractions(o) \/ ChangeConsequence(o)
  \/ \E o \in Options \ {Composite}, dim \in Advisory : ChangeRubric(o, dim)
  \/ ReviewAgain \/ ChangeReview \/ ChangeTrigger \/ ChangePreview \/ ChangeValueInputs \/ Spoil
  \/ Evaluate

Spec == Init /\ [][Next]_vars

-----------------------------------------------------------------------------
(* Properties of the evaluations.                                          *)

InTime(f) == f.known <= Cutoff /\ f.available <= Cutoff /\ Cutoff <= f.through

Kept(record) == IF record.state = "late" THEN [record EXCEPT !.state = "absent"] ELSE record

\* The case as somebody at the cutoff could have written it: what was known,
\* published or reviewed later, or had expired, is struck from it.
Struck(c) ==
  [c EXCEPT !.facts = {f \in @ : InTime(f)},
            !.review.over = {f \in @ : InTime(f)},
            !.links = [o \in DOMAIN @ |-> IF @[o].published > Cutoff
                                          THEN [@[o] EXCEPT !.status = "MISSING"] ELSE @[o]],
            !.trigger.approved = @ /\ c.trigger.published <= Cutoff,
            !.value.rate = Kept(@),
            !.value.cost = [o \in DOMAIN @ |-> Kept(@[o])],
            !.value.translation = [o \in DOMAIN @ |-> Kept(@[o])]]

\* Nothing learnt after the cutoff, and nothing that had expired at it, ever
\* helps an option: one that the evaluation keeps would be kept without all of
\* it (_eligible_fact, the rules and the value inputs read it in many places).
LateNeverHelps ==
  Decided /\ Struck(case) # case =>
    \A o \in Options : verdict.results[o].state = "ACTIVE" =>
                         OptionResult(Struck(case), o).state = "ACTIVE"

Rivals(o) == EligibleOptions(verdict.results) \ {o}
Beats(o, p) == Dominates(verdict.results[o].profile, verdict.results[p].profile)

\* What is recommended is robustly positive and beats every option left beside
\* it: the last branch of compare_and_publish, which recommends the only option
\* of the frontier whatever its worth, is never taken.
RecommendationUndominated ==
  LET o == verdict.published.first
  IN  Decided /\ verdict.published.kind = "RECOMMENDATION" /\ o # Monitor =>
        /\ verdict.results[o].status = "ROBUSTLY_POSITIVE"
        /\ \A p \in Rivals(o) : Beats(o, p)

\* A manager is asked to choose between two options that can both be had.  When
\* it is not about their worth, the second is beaten by no option, the first
\* included; when the worth of the first is uncertain, the second is robust or
\* is monitoring.  No option beats the first, except that one whose worth is
\* uncertain may be set against monitoring although another beats it.
ChoiceIsReal ==
  LET a == verdict.published.first
      b == verdict.published.second
      r == verdict.results
      Uncertain == verdict.published.basis = "VALUE_UNCERTAINTY"
  IN  Decided /\ verdict.published.kind = "TRADE_OFF" =>
        /\ a # b
        /\ \A o \in {a, b} : r[o].state = "ACTIVE" /\ r[o].eligible
        /\ Uncertain => /\ r[a].status = "VALUE_SENSITIVE"
                        /\ b = Monitor \/ r[b].status = "ROBUSTLY_POSITIVE"
        /\ b # Monitor => a \in Frontier(r)
        /\ ~Uncertain => b \in Frontier(r) /\ ~Beats(a, b)

\* The case with another cost of the option.
WithCost(c, o, n) == [c EXCEPT !.value.cost[o].amount = n]

\* An option that is recommended is recommended still when it costs less.
CheaperStaysRecommended ==
  LET o == verdict.published.first
      Cheaper == {n \in Costs : n < case.value.cost[o].amount}
  IN  Decided /\ verdict.published.kind = "RECOMMENDATION" /\ o # Monitor =>
        \A n \in Cheaper : Judgement(Results(WithCost(case, o, n))).published.first = o

\* decision_support_constraints.py, contract intervention-eligibility-tradeoff:
\* an evaluation of a valid case ends with an outcome.  It does not: the reasons
\* of an option that fails a rule and lacks a value input cannot be ordered.
EvaluationReturns == verdict.published.kind # "LOST"
=============================================================================
