-------------------------- MODULE OptionEligibility --------------------------
(***************************************************************************)
(* What a case constraint snapshot and the governed records say of each    *)
(* intervention option: backend/app/decision_support_constraints.py.       *)
(*                                                                         *)
(* A case c is one complete input of an evaluation:                        *)
(*   mode     the trigger mode                                             *)
(*   facts    the constraint facts of the snapshot                         *)
(*   causal   the time of the causal decision it is made for               *)
(*   broken   the kinds of records of which one does not verify            *)
(*   retired  the options that the library says are retired                *)
(*   links    the driver-action link of each option in this mode           *)
(*   rubrics  the advisory rubric of each atomic option and dimension      *)
(*   trigger, review, preview  the other records that rules refer to       *)
(*   value    the governed value inputs (module OptionComparison)          *)
(*                                                                         *)
(* Times are numbers; Cutoff is the snapshot's constraints_as_of.  A fact  *)
(* has a scope (an option, or "case" for none), the time it was known, the *)
(* time its source was available, the last time it holds, and a value: a   *)
(* word, or for durations, counts and review times a number of days with   *)
(* its duration basis.  What is common to every malformed value is the     *)
(* word "malformed".  Hashes, identities, schemas and closed vocabularies  *)
(* are one thing, whether a record verifies; a record given for another    *)
(* subject or snapshot does not.  Two facts of a snapshot are never equal. *)
(***************************************************************************)
EXTENDS Integers, FiniteSets, FiniteSetsExt

CONSTANTS Options,   \* the options of the library an instance looks at
          Cutoff     \* constraints_as_of

Composite == "PROTECTED_SLOT_WITH_PHASED_DELIVERY"
Monitor   == "ACCEPT_AND_MONITOR"
Release   == "RELEASE_TIMING_ADJUSTMENT"

RequiredRules ==
  [PROTECTED_PRODUCTION_SLOT |->
     {"PROTECTED_SLOT_MECHANISM_VERIFIED", "PROTECTED_SLOT_SUPPLIER_ACCEPTED",
      "PROTECTED_SLOT_WITHIN_FLOAT"},
   QUALIFIED_SOURCE_SPLIT |->
     {"SPLIT_TWO_QUALIFIED_SOURCES", "SPLIT_SPEC_PERMITTED", "SPLIT_CONTRACT_PERMITTED",
      "SPLIT_MINIMUM_QUANTITIES_SATISFIED", "SPLIT_WITHIN_FLOAT"},
   PREQUALIFIED_ALTERNATE |->
     {"ALTERNATE_CURRENTLY_QUALIFIED", "ALTERNATE_SUBSTITUTION_PERMITTED",
      "ALTERNATE_WORK_TRANSFERABLE", "ALTERNATE_WITHIN_FLOAT"},
   RELEASE_TIMING_ADJUSTMENT |->
     {"RELEASE_DATE_MOVABLE", "RELEASE_MILESTONE_FEASIBLE",
      "RELEASE_LOAD_PREVIEW_BELOW_THRESHOLD"},
   CAPACITY_BACKED_ACCELERATION |->
     {"ACCELERATION_MECHANISM_VERIFIED", "ACCELERATION_SUPPLIER_ACCEPTED",
      "ACCELERATION_CONTRACT_PERMITTED", "ACCELERATION_WITHIN_FLOAT"},
   PHASED_DELIVERY |->
     {"PHASED_HANDOFF_FEASIBLE", "PHASED_DOWNSTREAM_CONSUMABLE", "PHASED_CONTRACT_PERMITTED"},
   DEPENDENT_WORK_RESEQUENCING |->
     {"RESEQUENCE_PLAN_REVIEWED", "RESEQUENCE_PREREQUISITES_VALID",
      "RESEQUENCE_NO_NEW_CRITICAL_PATH_BREACH"},
   CONTRACTUAL_ESCALATION |->
     {"ESCALATION_BASIS_ENFORCEABLE", "ESCALATION_NOTICE_WINDOW_OPEN",
      "ESCALATION_RECORDS_COMPLETE"},
   ACCEPT_AND_MONITOR |->
     {"MONITORING_OWNER_ASSIGNED", "MONITORING_REVIEW_TIME_VALID",
      "MONITORING_ESCALATION_TRIGGER_REGISTERED"},
   PROTECTED_SLOT_WITH_PHASED_DELIVERY |-> {"COMPOSITE_COMPONENTS_COMPATIBLE"}]

Library == DOMAIN RequiredRules

ASSUME OptionsAssumption == Options \subseteq Library
ASSUME CutoffAssumption == Cutoff \in Int

Components(o) ==
  IF o = Composite THEN {"PROTECTED_PRODUCTION_SLOT", "PHASED_DELIVERY"} ELSE {}

\* The options that are rated themselves, the parts of a composite included.
AtomicOptions == (UNION {Components(o) \cup {o} : o \in Options}) \ {Composite}

Modes(o) ==
  CASE o = Release -> {"PROACTIVE"}
    [] o \in {"DEPENDENT_WORK_RESEQUENCING", "CONTRACTUAL_ESCALATION"} -> {"REACTIVE"}
    [] OTHER -> {"REACTIVE", "PROACTIVE"}

\* The options valued through the exposure effect; the others but the
\* monitoring baseline are valued through a declared consequence.
ExposureValued ==
  {"PROTECTED_PRODUCTION_SLOT", "CAPACITY_BACKED_ACCELERATION", Composite,
   "QUALIFIED_SOURCE_SPLIT", "PREQUALIFIED_ALTERNATE", Release}

FloatRules == {"PROTECTED_SLOT_WITHIN_FLOAT", "SPLIT_WITHIN_FLOAT",
               "ALTERNATE_WITHIN_FLOAT", "ACCELERATION_WITHIN_FLOAT"}

AllowedKinds ==
  [PROTECTED_SLOT_MECHANISM_VERIFIED |-> {"PROTECTED_SLOT", "CAPACITY_RESERVATION"},
   ACCELERATION_MECHANISM_VERIFIED   |-> {"OVERTIME_CAPACITY", "SLOT_SWAP"}]

\* The fact a rule reads; a yes-or-no rule reads the fact of its own name.
FactOf(rule) ==
  CASE rule = "PROTECTED_SLOT_MECHANISM_VERIFIED"    -> "PROTECTED_SLOT_MECHANISM_KIND"
    [] rule = "ACCELERATION_MECHANISM_VERIFIED"      -> "ACCELERATION_MECHANISM_KIND"
    [] rule = "SPLIT_TWO_QUALIFIED_SOURCES"          -> "QUALIFIED_SOURCE_COUNT"
    [] rule = "RELEASE_LOAD_PREVIEW_BELOW_THRESHOLD" -> "REVISED_PROVISIONAL_HIGH_LOAD_PREVIEW"
    [] rule = "MONITORING_OWNER_ASSIGNED"            -> "MONITORING_OWNER_REF"
    [] rule = "MONITORING_REVIEW_TIME_VALID"         -> "MONITORING_NEXT_REVIEW_AT"
    [] rule = "MONITORING_ESCALATION_TRIGGER_REGISTERED" -> "MONITORING_ESCALATION_TRIGGER_REF"
    [] rule = "COMPOSITE_COMPONENTS_COMPATIBLE"      -> "COMPOSITE_COMPATIBILITY_REVIEW_REF"
    [] OTHER -> rule

Advisory == {"CONTRACTUAL_RELATIONSHIP_RISK", "OPERATIONAL_DISRUPTION", "REVERSIBILITY"}

-----------------------------------------------------------------------------
(* Facts.                                                                  *)

\* Facts of the option's own scope; else the float of the case; else the
\* only initiation time of the snapshot, whatever option it was given for.
Candidates(c, code, o) ==
  LET coded == {f \in c.facts : f.code = code}
      own   == {f \in coded : f.scope = o}
  IN  CASE own # {} -> own
        [] own = {} /\ code = "AVAILABLE_FLOAT_DAYS" -> {f \in coded : f.scope = "case"}
        [] own = {} /\ code = "TIME_TO_INITIATE_DAYS" /\ Cardinality(coded) = 1 -> coded
        [] OTHER -> {}

\* A defect: when the fact was learnt does not matter.
EligibleWheneverKnown(f) == f.value # "absent" /\ f.available <= Cutoff /\ Cutoff <= f.through

Eligible(f) == /\ f.value # "absent"
               /\ f.known <= Cutoff
               /\ f.available <= Cutoff
               /\ Cutoff <= f.through

\* The one fact that holds at the cutoff, or none: conflicting facts are
\* counted before their times are looked at.
Standing(c, code, o) ==
  LET all == Candidates(c, code, o)
  IN  {f \in all : Cardinality(all) = 1 /\ Eligible(f)}

-----------------------------------------------------------------------------
(* Validation, in the order in which it is made: the first fault refuses   *)
(* the whole case.                                                         *)

Stages == <<"fixture", "collections", "library", "links", "triggers", "rubrics", "snapshot",
            "preview", "reviews", "values">>

LibraryFault(c) == c.retired # {}

LinksFault(c) == \E o \in Options : c.links[o].status # "MISSING" /\ c.links[o].heads > 1

TriggersFault(c) == c.trigger.heads > 1

\* A rubric is reviewed before it is published, and its rules ask for the
\* inputs that it declares.
RubricsFault(c) ==
  \E o \in DOMAIN c.rubrics : \E dim \in Advisory :
     LET rubric == c.rubrics[o][dim]
     IN  /\ rubric.status # "MISSING"
         /\ \/ rubric.reviewed > rubric.published
            \/ {r.code : r \in rubric.rules} # rubric.inputs

SnapshotFault(c) == c.causal > Cutoff

PreviewFault(c) == c.preview = "malformed"

\* A review is of a composite whose link is there, was published after its
\* evidence and says what its attestations say.
ReviewsFault(c) ==
  /\ c.review.status # "MISSING"
  /\ \/ Composite \in Options /\ c.links[Composite].status = "MISSING"
     \/ c.review.reviewed > c.review.published
     \/ c.review.outcome # c.review.attested

\* prepare_value_inputs.
ValuesFault(c) ==
  /\ c.value.present
  /\ \/ c.value.rates > 1
     \/ Cardinality(c.value.currencies) > 1
     \/ /\ c.value.effect.state # "absent" /\ c.value.declared # "none"
        /\ c.value.declared # c.value.effect.basis

Fault(c, stage) ==
  \/ stage \in c.broken
  \/ CASE stage = "library"  -> LibraryFault(c)
       [] stage = "links"    -> LinksFault(c)
       [] stage = "triggers" -> TriggersFault(c)
       [] stage = "rubrics"  -> RubricsFault(c)
       [] stage = "snapshot" -> SnapshotFault(c)
       [] stage = "preview"  -> PreviewFault(c)
       [] stage = "reviews"  -> ReviewsFault(c)
       [] stage = "values"   -> ValuesFault(c)
       [] OTHER              -> FALSE

Faults(c) == {i \in DOMAIN Stages : Fault(c, Stages[i])}

-----------------------------------------------------------------------------
(* Required rules.                                                         *)

Judge(standing, Good(_), Bad(_)) ==
  IF \E f \in standing : Good(f) THEN "SATISFIED"
  ELSE IF \E f \in standing : Bad(f) THEN "UNSATISFIED" ELSE "UNKNOWN"

WellFormed(f) == f.value # "malformed"

WithinFloat(c, o) ==
  LET times  == Standing(c, "TIME_TO_INITIATE_DAYS", o)
      floats == Standing(c, "AVAILABLE_FLOAT_DAYS", o)
      Fits(p) == p[1].days <= p[2].days
  IN  Judge({p \in times \X floats : /\ WellFormed(p[1]) /\ WellFormed(p[2])
                                     /\ p[1].basis = p[2].basis},
            Fits, LAMBDA p : ~Fits(p))

TriggerRegistered(c) == c.trigger.approved /\ c.trigger.published <= Cutoff

\* The review must be of exactly these facts, itself left aside.
ReviewedFacts(c) == {f \in c.facts : f.code # "COMPOSITE_COMPATIBILITY_REVIEW_REF"}

CompositeReview(c, o) ==
  IF /\ \E f \in Standing(c, "COMPOSITE_COMPATIBILITY_REVIEW_REF", o) : f.value = "current"
     /\ c.review.over = ReviewedFacts(c)
     /\ c.review.published <= Cutoff
     /\ c.review.status = "APPROVED"
  THEN CASE c.review.outcome = "COMPATIBLE"   -> "SATISFIED"
         [] c.review.outcome = "INCOMPATIBLE" -> "UNSATISFIED"
         [] OTHER                             -> "UNKNOWN"
  ELSE "UNKNOWN"

\* A rule that the standing fact of its kind answers.
FactRule(c, rule, standing) ==
  CASE rule \in DOMAIN AllowedKinds ->
         Judge(standing, LAMBDA f : f.value \in AllowedKinds[rule], WellFormed)
    [] rule = "SPLIT_TWO_QUALIFIED_SOURCES" ->
         Judge(standing, LAMBDA f : WellFormed(f) /\ f.days >= 2, WellFormed)
    [] rule = "MONITORING_REVIEW_TIME_VALID" ->
         Judge(standing, LAMBDA f : WellFormed(f) /\ f.days > Cutoff, WellFormed)
    [] rule = "MONITORING_ESCALATION_TRIGGER_REGISTERED" ->
         Judge(standing, LAMBDA f : f.value = "current" /\ TriggerRegistered(c),
               LAMBDA f : FALSE)
    [] rule = "RELEASE_LOAD_PREVIEW_BELOW_THRESHOLD" ->
         Judge(standing, LAMBDA f : f.value = "current" /\ c.preview = "below",
               LAMBDA f : f.value = "current" /\ c.preview = "high")
    [] OTHER -> Judge(standing, LAMBDA f : f.value = "yes", LAMBDA f : f.value = "no")

RuleStatus(c, rule, o) ==
  CASE rule \in FloatRules -> WithinFloat(c, o)
    [] rule = "COMPOSITE_COMPONENTS_COMPATIBLE" -> CompositeReview(c, o)
    [] OTHER -> FactRule(c, rule, Standing(c, FactOf(rule), o))

\* Every required rule with the scope its facts are read in: those of the
\* components of a composite and its own.
RulesFor(o) ==
  UNION {{<<rule, scope>> : rule \in RequiredRules[scope]} : scope \in Components(o) \cup {o}}

Failing(c, o) == {r \in RulesFor(o) : RuleStatus(c, r[1], r[2]) # "SATISFIED"}

-----------------------------------------------------------------------------
(* The gate before any rule is read.                                       *)

Gate(c, o) ==
  LET link == c.links[o]
  IN
  IF o \in c.retired THEN "OPTION_RETIRED"
  ELSE IF c.mode \notin Modes(o) THEN "TRIGGER_MODE_INCOMPATIBLE"
  ELSE IF link.status = "MISSING" THEN "DRIVER_ACTION_LINK_MISSING"
  ELSE IF link.published > Cutoff THEN "DRIVER_ACTION_LINK_NOT_AVAILABLE_AT_CUTOFF"
  ELSE CASE link.status = "APPROVED"   -> "OPEN"
         [] link.status = "REJECTED"   -> "DRIVER_ACTION_LINK_REJECTED"
         [] link.status = "SUPERSEDED" -> "DRIVER_ACTION_LINK_SUPERSEDED"
         [] OTHER                      -> "DRIVER_ACTION_LINK_PROVISIONAL"

-----------------------------------------------------------------------------
(* Comparison dimensions.  A reading is a number with its unit; numbers of *)
(* the advisory dimensions grow as they get less favourable.               *)

Reading(n, unit) == [state |-> "APPLICABLE", value |-> n, unit |-> unit]
NotApplicable == [state |-> "NOT_APPLICABLE", value |-> 0, unit |-> "none"]
Unknown == [state |-> "INCOMPARABLE", value |-> 0, unit |-> "none"]

\* No input that the rubric declares has two values or one that cannot be read,
\* and those that it needs are established.
Readable(c, rubric, o) ==
  LET Value(code) == {f.value : f \in Standing(c, code, o)}
  IN  \A code \in rubric.inputs :
         /\ Cardinality(Candidates(c, code, o)) <= 1 /\ Value(code) # {"malformed"}
         /\ code \in rubric.needed => Value(code) # {}

\* A rubric answers when it is approved at the cutoff, its inputs are readable
\* and exactly one of its rules accepts the value it looks at (EQ, GTE or LTE).
AtomicRating(c, o, dim) ==
  LET rubric  == c.rubrics[o][dim]
      Value(code) == {f.value : f \in Standing(c, code, o)}
      matched == {r \in rubric.rules : r.accepts \cap Value(r.code) # {}}
  IN  IF /\ rubric.status = "APPROVED" /\ rubric.published <= Cutoff
         /\ Readable(c, rubric, o)
         /\ Cardinality(matched) = 1
      THEN Reading((CHOOSE r \in matched : TRUE).rank, "rank")
      ELSE Unknown

Rating(c, o, dim) ==
  IF Components(o) = {} THEN AtomicRating(c, o, dim)
  ELSE LET parts == {AtomicRating(c, p, dim) : p \in Components(o)}
       IN  IF Unknown \in parts THEN Unknown
           ELSE Reading(Max({r.value : r \in parts}), "rank")

InitiationTime(c, o) ==
  LET times == {f \in Standing(c, "TIME_TO_INITIATE_DAYS", o) : WellFormed(f)}
  IN  IF o = Composite \/ times = {} THEN Unknown
      ELSE LET f == CHOOSE t \in times : TRUE IN Reading(f.days, f.basis)
=============================================================================
