---------------------------- MODULE EvidenceRules ----------------------------
(***************************************************************************)
(* From the outcome of one engine run to its Evidence Verdict: the fourteen *)
(* diagnostics of backend/app/diagnostics.py, refuters.py and validity.py,  *)
(* the robustness grade, the verdict, what of the effect it lets out, and   *)
(* the verdict of the subject.                                             *)
(*                                                                         *)
(* An outcome o of the engine is                                           *)
(*   status      "estimated" or "abstained"                                *)
(*   code        why it abstained (None when it did not)                   *)
(*   released    whether the primary population had rows                   *)
(*   unsupported the sensitivities without scientific support              *)
(* and b says how each check came out, by the sign of what was estimated   *)
(* and the side of the compatibility threshold it fell on.                 *)
(*                                                                         *)
(* Abstractions.  Estimates, intervals and z values are the classes the    *)
(* rules tell apart.  Records, texts, next steps and hashes are left out.  *)
(***************************************************************************)
EXTENDS Integers, FiniteSets

CONSTANTS
    NoCode,          \* an engine run that gives no reason
    Groups           \* reviewed covariate groups of the confounding benchmark

Refuters == {"PLACEBO", "DUMMY_OUTCOME", "RANDOM_COMMON_CAUSE", "DATA_SUBSET"}
Specifications == {"stricter_threshold", "short_history", "long_history"}
Forms == {"continuous_load", "late_risk"}

NamedChecks == {"interval", "balance", "control", "comparisons", "repeats"}
                   \cup Refuters \cup Specifications \cup Forms

Checks == NamedChecks \cup Groups

ASSUME GroupsAssumption == IsFiniteSet(Groups) /\ Groups \cap NamedChecks = {}

\* How a check can come out, from best to worst.
Ladder(c) ==
    CASE c = "interval"             -> <<"above", "includes_null", "opposite">>
      [] c = "balance"              -> <<"balanced", "unbalanced">>
      [] c \in Refuters \cup {"control"} -> <<"passed", "unsupported", "failed">>
      [] c \in Specifications \cup {"repeats"} -> <<"positive", "divergent", "reversed">>
      [] c \in Forms                -> <<"positive", "includes_null", "reversed">>
      [] c = "comparisons"          -> <<"positive", "mixed", "opposed">>
      [] c \in Groups               -> <<"positive", "nonpositive">>

\* A check that could not be carried out at all ends the run without verdict.
Broken == "broken"

Outcomes(c) == {Ladder(c)[k] : k \in DOMAIN Ladder(c)}

Best == [c \in Checks |-> Ladder(c)[1]]

Rank(c, x) == CHOOSE k \in DOMAIN Ladder(c) : Ladder(c)[k] = x

Sensitivities == Specifications \cup {"late_risk"}

Diagnostics == {"interval", "balance", "overlap", "eligibility", "control",
                "specification", "cross_form", "comparisons", "confounding", "repeats"}
                   \cup Refuters

-----------------------------------------------------------------------------
(* The trigger registry: the least priority names the verdict's reason.    *)

\* TRIGGER_PRIORITIES, in their order, without the subject's codes.
TriggerOrder ==
    <<"SOURCE_SEMANTICS_INELIGIBLE", "EXPOSURE_MEASUREMENT_COVERAGE_INSUFFICIENT",
      "CORE_TEMPORAL_COVERAGE_INSUFFICIENT", "CANCELLATION_COMPETING_EVENT_PRESENT",
      "OUTCOME_COVERAGE_INSUFFICIENT", "COVARIATE_COVERAGE_INSUFFICIENT",
      "COHORT_SUPPORT_INSUFFICIENT", "OUTCOME_DEGENERATE", "OVERLAP_COHORT_INSUFFICIENT",
      "PRIMARY_INTERVAL_INCLUDES_NULL", "PRIMARY_EFFECT_OPPOSITE_DIRECTION",
      "COVARIATE_BALANCE_FAILED",
      "NEGATIVE_CONTROL_UNSUPPORTED", "NEGATIVE_CONTROL_FAILED",
      "PLACEBO_REFUTER_UNSUPPORTED", "PLACEBO_REFUTER_FAILED",
      "DUMMY_OUTCOME_REFUTER_UNSUPPORTED", "DUMMY_OUTCOME_REFUTER_FAILED",
      "RANDOM_COMMON_CAUSE_REFUTER_UNSUPPORTED", "RANDOM_COMMON_CAUSE_REFUTER_FAILED",
      "DATA_SUBSET_REFUTER_UNSUPPORTED", "DATA_SUBSET_REFUTER_FAILED",
      "SPECIFICATION_DIRECTION_REVERSED", "CROSS_FORM_DIRECTION_REVERSED",
      "REPEAT_DIRECTION_UNSTABLE", "ROBUSTNESS_WEAK", "ROBUSTNESS_UNAVAILABLE",
      "COMPARISON_ONLY_COMPLEX_SUPPORT",
      "SPECIFICATION_MAGNITUDE_DIVERGENT", "SPECIFICATION_VARIANT_UNSUPPORTED",
      "CROSS_FORM_INTERVAL_INCLUDES_NULL", "BINARY_LATE_SENSITIVITY_UNSUPPORTED",
      "REPEAT_MAGNITUDE_DIVERGENT", "ROBUSTNESS_MODERATE", "COMPARISON_DIRECTION_MIXED",
      "EVIDENCE_POLICY_PASSED">>

Priority(code) == CHOOSE k \in DOMAIN TriggerOrder : TriggerOrder[k] = code

UnsupportedCode ==
    [control |-> "NEGATIVE_CONTROL_UNSUPPORTED", PLACEBO |-> "PLACEBO_REFUTER_UNSUPPORTED",
     DUMMY_OUTCOME |-> "DUMMY_OUTCOME_REFUTER_UNSUPPORTED",
     RANDOM_COMMON_CAUSE |-> "RANDOM_COMMON_CAUSE_REFUTER_UNSUPPORTED",
     DATA_SUBSET |-> "DATA_SUBSET_REFUTER_UNSUPPORTED"]

FailedCode ==
    [control |-> "NEGATIVE_CONTROL_FAILED", PLACEBO |-> "PLACEBO_REFUTER_FAILED",
     DUMMY_OUTCOME |-> "DUMMY_OUTCOME_REFUTER_FAILED",
     RANDOM_COMMON_CAUSE |-> "RANDOM_COMMON_CAUSE_REFUTER_FAILED",
     DATA_SUBSET |-> "DATA_SUBSET_REFUTER_FAILED"]

-----------------------------------------------------------------------------
(* The fourteen diagnostics.                                               *)

Finding(status, effect, codes) == [status |-> status, effect |-> effect, codes |-> codes]

Pass == Finding("PASS", "NONE", {})
NotRun == Finding("NOT_RUN", "NONE", {})
Unavailable == Finding("UNAVAILABLE", "NONE", {})
Failed == Finding("FAILED", "NONE", {})

Eligibility(o) == IF o.released THEN Pass ELSE Finding("FAIL", "INSUFFICIENT", {o.code})

\* evaluate_overlap: nothing was scored of a population without rows.
Overlap(o) ==
    IF ~o.released THEN Unavailable
    ELSE IF o.status = "abstained" THEN Finding("FAIL", "INSUFFICIENT", {o.code})
    ELSE Pass

Interval(b) ==
    CASE b["interval"] = "above" -> Pass
      [] b["interval"] = "includes_null" ->
            Finding("FAIL", "INSUFFICIENT", {"PRIMARY_INTERVAL_INCLUDES_NULL"})
      [] b["interval"] = "opposite" ->
            Finding("FAIL", "INSUFFICIENT", {"PRIMARY_EFFECT_OPPOSITE_DIRECTION"})

Balance(b) ==
    IF b["balance"] = "balanced" THEN Pass
    ELSE Finding("FAIL", "VETO", {"COVARIATE_BALANCE_FAILED"})

\* A refuter, or the negative control, which is judged like one.
Refutation(c, b) ==
    CASE b[c] = "passed"      -> Pass
      [] b[c] = "failed"      -> Finding("FAIL", "VETO", {FailedCode[c]})
      [] b[c] = "unsupported" -> Finding("UNSUPPORTED", "VETO", {UnsupportedCode[c]})
      [] b[c] = Broken        -> Failed

\* evaluate_negative_control.
NegativeControl(b) == Refutation("control", b)

\* A defect: sensitivities without support are passed over.
SpecificationStabilityOfEstimated(o, b) ==
    LET estimated == Specifications \ o.unsupported
    IN  IF \E v \in estimated : b[v] = "reversed"
        THEN Finding("FAIL", "VETO", {"SPECIFICATION_DIRECTION_REVERSED"})
        ELSE IF \E v \in estimated : b[v] = "divergent"
        THEN Finding("FAIL", "FRAGILITY", {"SPECIFICATION_MAGNITUDE_DIVERGENT"})
        ELSE Pass

\* evaluate_specification_stability.
SpecificationStability(o, b) ==
    LET estimated == Specifications \ o.unsupported
        reversed == \E v \in estimated : b[v] = "reversed"
        divergent == \E v \in estimated : b[v] = "divergent"
        missing == estimated # Specifications
        codes == (IF reversed THEN {"SPECIFICATION_DIRECTION_REVERSED"}
                  ELSE IF divergent THEN {"SPECIFICATION_MAGNITUDE_DIVERGENT"} ELSE {})
                 \cup (IF missing THEN {"SPECIFICATION_VARIANT_UNSUPPORTED"} ELSE {})
    IN  CASE reversed -> Finding("FAIL", "VETO", codes)
          [] ~reversed /\ divergent -> Finding("FAIL", "FRAGILITY", codes)
          [] ~reversed /\ ~divergent /\ missing -> Finding("UNSUPPORTED", "FRAGILITY", codes)
          [] OTHER -> Pass

\* evaluate_cross_form_stability.
CrossForm(o, b) ==
    LET estimated == Forms \ o.unsupported
        reversed == \E v \in estimated : b[v] = "reversed"
        null == \E v \in estimated : b[v] = "includes_null"
        codes == (IF reversed THEN {"CROSS_FORM_DIRECTION_REVERSED"} ELSE {})
                 \cup (IF null THEN {"CROSS_FORM_INTERVAL_INCLUDES_NULL"} ELSE {})
                 \cup (IF estimated # Forms THEN {"BINARY_LATE_SENSITIVITY_UNSUPPORTED"} ELSE {})
    IN  CASE reversed -> Finding("FAIL", "VETO", codes)
          [] ~reversed /\ null -> Finding("FAIL", "FRAGILITY", codes)
          [] ~reversed /\ ~null /\ codes # {} -> Finding("UNSUPPORTED", "FRAGILITY", codes)
          [] OTHER -> Pass

\* evaluate_comparison_triangulation: opposed is all three non-positive,
\* which speaks only against a positive primary estimate.
Comparison(b) ==
    CASE b["comparisons"] = "positive" -> Pass
      [] b["comparisons"] = "opposed" /\ b["interval"] # "opposite" ->
            Finding("FAIL", "VETO", {"COMPARISON_ONLY_COMPLEX_SUPPORT"})
      [] OTHER -> Finding("FAIL", "FRAGILITY", {"COMPARISON_DIRECTION_MIXED"})

\* evaluate_robustness_grade: the strongest and the median of the sorted
\* adjusted lower bounds.
Grade(o, b) ==
    LET adverse == Cardinality({g \in Groups : b[g] = "nonpositive"})
        n == Cardinality(Groups)
    IN  IF o.status = "abstained" \/ n = 0 THEN "UNAVAILABLE"
        ELSE IF adverse = 0 THEN "STRONG"
        ELSE IF adverse <= (n - 1) \div 2 THEN "MODERATE"
        ELSE "WEAK"

Confounding(o, b) ==
    LET grade == Grade(o, b)
    IN  CASE grade = "STRONG" -> Pass
          [] grade = "MODERATE" -> Finding("FAIL", "FRAGILITY", {"ROBUSTNESS_MODERATE"})
          [] grade = "WEAK" -> Finding("FAIL", "VETO", {"ROBUSTNESS_WEAK"})
          [] grade = "UNAVAILABLE" -> Finding("UNAVAILABLE", "VETO", {"ROBUSTNESS_UNAVAILABLE"})

RepeatStability(b) ==
    CASE b["repeats"] = "positive" -> Pass
      [] b["repeats"] = "divergent" -> Finding("FAIL", "FRAGILITY", {"REPEAT_MAGNITUDE_DIVERGENT"})
      [] b["repeats"] = "reversed" -> Finding("FAIL", "VETO", {"REPEAT_DIRECTION_UNSTABLE"})

\* evaluate_validity_diagnostics: a run that abstained has nothing to check.
Diagnose(o, b) ==
    [d \in Diagnostics |->
        CASE d = "eligibility" -> Eligibility(o)
          [] d = "overlap"     -> Overlap(o)
          [] d = "confounding" -> Confounding(o, b)
          [] d \in {"interval", "balance", "control"} \cup Refuters
                 /\ o.status = "abstained" -> NotRun
          [] d \in {"specification", "cross_form", "comparisons", "repeats"}
                 /\ o.status = "abstained" -> Unavailable
          [] OTHER ->
                CASE d = "interval"      -> Interval(b)
                  [] d = "balance"       -> Balance(b)
                  [] d = "specification" -> SpecificationStability(o, b)
                  [] d = "cross_form"    -> CrossForm(o, b)
                  [] d = "comparisons"   -> Comparison(b)
                  [] d = "repeats"       -> RepeatStability(b)
                  [] d = "control"       -> NegativeControl(b)
                  [] d \in Refuters      -> Refutation(d, b)]

-----------------------------------------------------------------------------
(* The verdict.                                                            *)

Triggers(diagnostics) == UNION {diagnostics[d].codes : d \in Diagnostics}

\* A defect: the registry is read from its end.
LastOf(codes) == CHOOSE c \in codes : \A k \in codes : Priority(c) >= Priority(k)

First(codes) == CHOOSE c \in codes : \A k \in codes : Priority(c) <= Priority(k)

Some(diagnostics, effect) == \E d \in Diagnostics : diagnostics[d].effect = effect

\* _trigger_codes: a failed diagnostic, or one that an estimated run lacks,
\* leaves no verdict.
Complete(o, diagnostics) ==
    \A d \in Diagnostics :
        /\ diagnostics[d].status # "FAILED"
        /\ o.status = "abstained" \/ diagnostics[d] \notin {NotRun, Unavailable}

HasVerdict(o, diagnostics, role) ==
    /\ o.status \in {"estimated", "abstained"}
    /\ role = "rejection_vignette" => o.status = "abstained"
    /\ Complete(o, diagnostics)

Verdict(code, display, primary) ==
    [verdict |-> code, display |-> display, primary |-> primary]

\* A defect: fragility is asked for before a veto.
EvidenceVerdictFragilityFirst(o, diagnostics) ==
    LET codes == Triggers(diagnostics)
    IN  IF o.status = "abstained" THEN Verdict("INSUFFICIENT", "NONE", First(codes))
        ELSE IF Some(diagnostics, "INSUFFICIENT")
        THEN Verdict("INSUFFICIENT", "INCONCLUSIVE_ESTIMATE", First(codes))
        ELSE IF Some(diagnostics, "FRAGILITY") THEN Verdict("TENTATIVE", "NONE", First(codes))
        ELSE IF Some(diagnostics, "VETO")
        THEN Verdict("ASSOCIATION_ONLY", "ADJUSTED_ASSOCIATION", First(codes))
        ELSE Verdict("SUPPORTED_UNDER_ASSUMPTIONS", "CAUSAL_ESTIMATE", "EVIDENCE_POLICY_PASSED")

\* derive_evidence_verdict.
EvidenceVerdict(o, diagnostics) ==
    LET codes == Triggers(diagnostics)
    IN  CASE o.status = "abstained" -> Verdict("INSUFFICIENT", "NONE", First(codes))
          [] o.status = "estimated" /\ Some(diagnostics, "INSUFFICIENT") ->
                Verdict("INSUFFICIENT", "INCONCLUSIVE_ESTIMATE", First(codes))
          [] o.status = "estimated" /\ ~Some(diagnostics, "INSUFFICIENT")
                /\ Some(diagnostics, "VETO") ->
                Verdict("ASSOCIATION_ONLY", "ADJUSTED_ASSOCIATION", First(codes))
          [] o.status = "estimated" /\ ~Some(diagnostics, "INSUFFICIENT")
                /\ ~Some(diagnostics, "VETO") /\ Some(diagnostics, "FRAGILITY") ->
                Verdict("TENTATIVE", "NONE", First(codes))
          [] OTHER -> Verdict("SUPPORTED_UNDER_ASSUMPTIONS", "CAUSAL_ESTIMATE",
                              "EVIDENCE_POLICY_PASSED")

DecisionSupportPermitted(verdict, role) ==
    verdict.verdict = "SUPPORTED_UNDER_ASSUMPTIONS" /\ role = "semi_synthetic_hero"

\* derive_subject_evidence_verdict: a subject outside its gates abstains.
SubjectVerdict(verdict, role, gatesPassed) ==
    IF gatesPassed /\ role = "semi_synthetic_hero" THEN verdict
    ELSE Verdict("INSUFFICIENT", "NONE", "SUBJECT_GATES")

\* verify_subject_evidence_verdict: an abstention shows no effect, and a
\* record of an out-of-domain dataset carries its prefix, which only the
\* record of a population verdict is given.
SubjectVerifies(verdict, role, gatesPassed) ==
    LET subject == SubjectVerdict(verdict, role, gatesPassed)
    IN  /\ subject.verdict = "INSUFFICIENT" => subject.display = "NONE"
        /\ role # "out_of_domain_validation"

\* _fresh_sealed_primary_result: which parts of the estimate are let out.
ShownParts(o, verdict) ==
    CASE o.status = "abstained" -> {}
      [] o.status = "estimated" /\ verdict.verdict = "SUPPORTED_UNDER_ASSUMPTIONS" ->
            {"primary", "context", "sensitivities", "comparisons"}
      [] o.status = "estimated" /\ verdict.verdict \in {"ASSOCIATION_ONLY", "INSUFFICIENT"}
            /\ verdict.display # "NONE" -> {"primary"}
      [] OTHER -> {}

\* Verdicts from the weakest.
Strength(verdict) ==
    CASE verdict.verdict = "INSUFFICIENT" -> 1
      [] verdict.verdict = "ASSOCIATION_ONLY" -> 2
      [] verdict.verdict = "TENTATIVE" -> 3
      [] verdict.verdict = "SUPPORTED_UNDER_ASSUMPTIONS" -> 4
=============================================================================
