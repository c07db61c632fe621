-------------------------- MODULE MCOptionDecision --------------------------
(* Complete cases of a few options of the library.                         *)
EXTENDS OptionDecision

FactKind(rule) ==
  CASE rule = "PROTECTED_SLOT_MECHANISM_VERIFIED" -> "PROTECTED_SLOT"
    [] rule \in {"COMPOSITE_COMPONENTS_COMPATIBLE", "RELEASE_LOAD_PREVIEW_BELOW_THRESHOLD",
                 "MONITORING_ESCALATION_TRIGGER_REGISTERED"} -> "current"
    [] OTHER -> "yes"

GoodFact(code, scope, value) ==
  [code |-> code, scope |-> scope, value |-> value, days |-> Cutoff + 1,
   basis |-> "CALENDAR_DAY", known |-> Cutoff, available |-> Cutoff, through |-> Cutoff]

\* The facts that satisfy every rule of these options, and the initiation
\* time of one more option.
CompleteFacts(live) ==
  {GoodFact(IF rule \in FloatRules THEN "TIME_TO_INITIATE_DAYS" ELSE FactOf(rule), o, FactKind(rule)) :
     <<o, rule>> \in UNION {{<<o, rule>> : rule \in RequiredRules[o]} : o \in live}}
  \cup {GoodFact("TIME_TO_INITIATE_DAYS", o, "yes") : o \in live \cap {"DEPENDENT_WORK_RESEQUENCING"}}
  \cup {GoodFact("AVAILABLE_FLOAT_DAYS", "case", "yes")}

ReviewedCode(o) == CHOOSE rule \in RequiredRules[o] : FactOf(rule) = rule \/ o = Monitor

Rubric(o) == [status |-> "APPROVED", published |-> Cutoff, reviewed |-> Cutoff,
              inputs |-> {FactOf(ReviewedCode(o))}, needed |-> {FactOf(ReviewedCode(o))},
              rules |-> {[code |-> FactOf(ReviewedCode(o)), accepts |-> {FactKind(ReviewedCode(o))},
                          rank |-> 1]}]

Sound(n) == [state |-> "sound", amount |-> n]

Range3(basis, lower, central) ==
  [state |-> "sound", basis |-> basis, lower |-> lower, central |-> central, upper |-> central]

CaseOf(mode, live, worth, costs) ==
  LET bare == [mode |-> mode, facts |-> CompleteFacts(live),
               retired |-> {}, causal |-> Cutoff, broken |-> {},
               links |-> [o \in Options |-> [status |-> IF o \in live THEN "APPROVED" ELSE "MISSING",
                                             published |-> Cutoff, heads |-> 1]],
               rubrics |-> [o \in AtomicOptions |-> [dim \in Advisory |-> Rubric(o)]],
               trigger |-> [approved |-> TRUE, published |-> Cutoff, heads |-> 1],
               preview |-> "below",
               review |-> [status |-> IF Composite \in live THEN "APPROVED" ELSE "MISSING",
                           published |-> Cutoff, reviewed |-> Cutoff, outcome |-> "COMPATIBLE",
                           attested |-> "COMPATIBLE", over |-> {}],
               value |-> [present |-> TRUE, rates |-> 1, currencies |-> {"INR"},
                          declared |-> "CALENDAR_DAY", effect |-> worth.effect, rate |-> Sound(1),
                          cost |-> [o \in Options |-> Sound(costs[o])],
                          recoverable |-> [o \in Options |-> Sound(Parts)],
                          translation |-> [o \in Options |-> Sound(Parts)],
                          consequence |-> [o \in Options |-> worth.consequence]]]
  IN  [bare EXCEPT !.review.over = ReviewedFacts(bare)]

\* Exposure effect and consequence: both certainly above any cost, or one of
\* them possibly nothing; consequences in days or in money.
Worths(bases) ==
  {[effect |-> Range3("CALENDAR_DAY", ends[1], 4), consequence |-> Range3(basis, ends[2], 5)] :
     ends \in {<<3, 3>>, <<0, 3>>, <<3, 0>>}, basis \in bases}

Equal  == [o \in Options |-> 1]
Spread == [o \in Options |-> IF o \in {"QUALIFIED_SOURCE_SPLIT", "PHASED_DELIVERY"} THEN 2 ELSE 1]

\* All options in either mode, and three groups of two and the baseline: two
\* exposure-valued options, one and a consequence, two consequences.
Groups == {{"PROTECTED_PRODUCTION_SLOT", "QUALIFIED_SOURCE_SPLIT", Monitor},
           {"PROTECTED_PRODUCTION_SLOT", "PHASED_DELIVERY", Monitor},
           {"DEPENDENT_WORK_RESEQUENCING", "PHASED_DELIVERY", Monitor}}

Bases(live) == {"PROJECT_DELAY_DAYS"} \cup
               (IF live \cap ExposureValued = {} THEN {"DIRECT_MONETARY_VALUE"} ELSE {})

Cases == UNION {{CaseOf(s[1], s[2], worth, costs) :
                   worth \in Worths(Bases(s[2])), costs \in {Equal, Spread}} :
                  s \in {<<mode, Options>> : mode \in {"PROACTIVE", "REACTIVE"}}
                        \cup {<<"REACTIVE", g>> : g \in Groups}}

\* One option and the baseline.
SlotCases == {CaseOf("REACTIVE", Options, worth, Equal) : worth \in Worths({"PROJECT_DELAY_DAYS"})}

CaseCosts == {0, 3, 5}
=============================================================================
