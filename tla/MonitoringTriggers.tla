-------------------------- MODULE MonitoringTriggers --------------------------
(***************************************************************************)
(* Which observation may ask for a manager's review of a recommendation to *)
(* accept and monitor (backend/app/monitoring.py and the trigger selection *)
(* of decision_support_currentness.py).                                    *)
(*                                                                         *)
(* A trigger is one atomic predicate over one registered kind of           *)
(* observation.  The registry is frozen with the evaluation; a reference   *)
(* stands for the identifier, version and content hash of a record, a      *)
(* definition for the registry entry, schema, mapping and unit of a kind   *)
(* of observation, and times and values are integers.                      *)
(***************************************************************************)
EXTENDS Integers, FiniteSets

CONSTANTS
    Registry,            \* the trigger records inspected by the evaluation
    RecommendedTrigger,  \* reference of the trigger the recommendation names
    TriggerMode,         \* mode of the evaluated request
    Subject,             \* subject of the recommendation
    Activation           \* when monitoring was activated

NoTime == -1
NoRef  == "NONE"

Ordered == {"DECIMAL", "INTEGER", "INT"}
Times   == {"DATE", "DATETIME", "INSTANT"}
Plain   == {"BOOLEAN", "STRING", "TEXT"}
MONITORING_OPERATORS == {"LT", "LTE", "EQ", "NEQ", "GTE", "GT", "IN_SET"}

MonitoringAssumption ==
    /\ Subject # NoRef
    /\ Activation \in Nat

-----------------------------------------------------------------------------
(* Records.                                                                *)

Present(v) == v.state = "present"

TypedValue(v, definition) ==
    /\ Present(v)
    /\ definition.type \in Ordered \cup Times \cup Plain

(* normalize_monitoring_trigger up to its standing: one operator and its   *)
(* threshold or allowed set, of the registered type and unit.              *)
WellFormed(t) ==
    /\ t.option = "ACCEPT_AND_MONITOR"
    /\ t.modes # {} /\ t.modes \subseteq {"REACTIVE", "PROACTIVE"}
    /\ t.operator \in MONITORING_OPERATORS
    /\ IF t.operator = "IN_SET" THEN t.allowed # {} ELSE TypedValue(t.threshold, t.definition)
    /\ t.response = "REQUEST_MANAGER_REVIEW"

(* Approved, active, reviewed, and published no earlier than reviewed.     *)
FullySpecified(t) ==
    /\ WellFormed(t)
    /\ t.standing = "APPROVED" /\ t.review = "APPROVED" /\ t.lifecycle = "ACTIVE"
    /\ t.reviewed # {}
    /\ t.published # NoTime
    /\ \A r \in t.reviewed : r <= t.published

(* An observation is canonical when its value is present and it was        *)
(* available when its source first was.                                    *)
Canonical(o) ==
    /\ TypedValue(o.value, o.definition)
    /\ o.firstAvailable = o.available

-----------------------------------------------------------------------------
(* Selection of the trigger at a cutoff.                                   *)

Candidates0 == {t \in Registry : t.option = "ACCEPT_AND_MONITOR" /\ TriggerMode \in t.modes}

ExactCandidates == {t \in Candidates0 : t.ref = RecommendedTrigger}

PublishedBy(t, cutoff) == FullySpecified(t) /\ t.published <= cutoff

(* A published candidate names the trigger as its predecessor, or the      *)
(* trigger names it as its successor.                                      *)
Superseded(t, cutoff) ==
    \E s \in Candidates0 \ {t} :
        /\ PublishedBy(s, cutoff)
        /\ s.predecessor = t.ref \/ t.supersession = s.ref

ApplicableCandidates(cutoff) ==
    {t \in Candidates0 : PublishedBy(t, cutoff) /\ ~Superseded(t, cutoff)}

(* A defect: whatever the recommendation names applies.                    *)
NamedTriggerApplies(cutoff) == Cardinality(ExactCandidates) = 1

(* Exactly one trigger applies, and it is the one recommended.             *)
UniqueTrigger(cutoff) ==
    /\ Cardinality(ExactCandidates) = 1
    /\ Cardinality(ApplicableCandidates(cutoff)) = 1
    /\ \A t \in ApplicableCandidates(cutoff) : t.ref = RecommendedTrigger

-----------------------------------------------------------------------------
(* The predicate.                                                          *)

(* monitoring_time_compare, and the comparison of ordered values.          *)
Compare(x, y) == IF x < y THEN -1 ELSE IF x > y THEN 1 ELSE 0

(* The comparisons an operator accepts.  Equality of times is asked of the *)
(* result of the comparison, which is no time: it never holds.             *)
Accepts(operator, type) ==
    CASE operator = "LT"  -> {-1}
      [] operator = "LTE" -> {-1, 0}
      [] operator = "GTE" -> {0, 1}
      [] operator = "GT"  -> {1}
      [] operator = "EQ"  -> IF type \in Times THEN {} ELSE {0}
      [] operator = "NEQ" -> IF type \in Times THEN {-1, 0, 1} ELSE {-1, 1}
      [] OTHER            -> {}

Evaluable(t, o) ==
    /\ t.definition = o.definition
    /\ t.operator \in {"LT", "LTE", "GTE", "GT"} => t.definition.type \notin Plain

(* evaluate_monitoring_predicate.                                          *)
Holds(t, o) ==
    IF t.operator = "IN_SET"
    THEN o.value.value \in t.allowed
    ELSE Compare(o.value.value, t.threshold.value) \in Accepts(t.operator, t.definition.type)

-----------------------------------------------------------------------------
(* The observation is of the subject, and follows the activation.          *)
Observed(o) ==
    /\ o.subject = Subject
    /\ Activation <= o.observed
    /\ o.observed <= o.available

(* match_monitoring_observation gets an answer for this observation.       *)
Matchable(o) ==
    /\ Canonical(o)
    /\ Observed(o)
    /\ UniqueTrigger(o.available)
    /\ \A t \in ExactCandidates : Evaluable(t, o)

(* REQUEST_MANAGER_REVIEW rather than NO_REVIEW_REQUEST.                   *)
RequestsReview(o) == \A t \in ExactCandidates : Holds(t, o)
=============================================================================
