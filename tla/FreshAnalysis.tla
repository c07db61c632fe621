--------------------------- MODULE FreshAnalysis ---------------------------
(***************************************************************************)
(* One fresh analysis from the supplier record to its sealed result, and   *)
(* its reproduction: the request frozen at admission, the propensity       *)
(* stage, the engine and the finalization of backend/app/analysis_runs.py, *)
(* as the worker process runs them one after the other.                    *)
(*                                                                         *)
(* The record (SupplierLoad) grows until the analysis is admitted; the     *)
(* request holds all that is read of it (PopulationEligibility), and what  *)
(* the engine found is judged by the rules of EvidenceRules.               *)
(*                                                                         *)
(* Abstractions.  The admission of the operation, its queue, its process   *)
(* and the publication of the bundle are DurableOperations and             *)
(* ArtifactPublication.  A row of the model stands for a block of rows, so *)
(* part of a population can be trimmed.  What statistics find is chosen    *)
(* freely, bounded by the number of ways it departs from the best course   *)
(* (of a reproduction: from the run it repeats).  A state root belongs to  *)
(* one release, so a run and its reproduction have one runtime, and the    *)
(* comparison of their fingerprints is left out.                           *)
(***************************************************************************)
EXTENDS PopulationEligibility, EvidenceRules

CONSTANTS
    AnalysedRoles,   \* roles of the datasets analysed
    AdapterResults,  \* what the estimator handed to refuters and control returns
    MaxDepartures    \* bound: departures of stages and checks

ASSUME AdapterAssumption ==
    AdapterResults # {} /\ AdapterResults \subseteq Outcomes("control") \cup {Broken}

ASSUME DeparturesAssumption == MaxDepartures \in Nat

VARIABLES
    phase,           \* "recording", "admitted", "staged", "estimated", "sealed", "failed"
    request,         \* what admission froze
    stage,           \* how each population came out of the propensity stage
    checks,          \* how each check came out
    result,          \* the sealed result
    target,          \* the sealed run to reproduce
    departures       \* departures so far

analysisVars == <<phase, request, stage, checks, result, target, departures>>
vars == <<lineageVars, analysisVars>>

Bundles == {"unavailable", "one_arm", "thin", "ample"}
StageStates == {"unavailable", "failed", "unsupported", "trimmed", "supported"}

-----------------------------------------------------------------------------
(* Admission.                                                              *)

\* What the rows of a population allow: cohorts below the support minima
\* are released all the same.
BundleOf(V, st) ==
    IF st.s8 = {} THEN "unavailable"
    ELSE IF st.s8 \cap st.exposed = {} \/ st.s8 \subseteq st.exposed THEN "one_arm"
    ELSE IF Supported(V, st.s8, st.exposed) THEN "ample"
    ELSE "thin"

\* The first gate that names a reason an engine request may carry.
UnavailableCode(V, st) ==
    IF ~SourceEligible(V) THEN "SOURCE_SEMANTICS_INELIGIBLE"
    ELSE IF ~ExposureMeasured(V, st) THEN "EXPOSURE_MEASUREMENT_COVERAGE_INSUFFICIENT"
    ELSE IF ~DesignIdentified(V, st) THEN "SOURCE_SEMANTICS_INELIGIBLE"
    ELSE IF ~TimesCovered(V, st) THEN "CORE_TEMPORAL_COVERAGE_INSUFFICIENT"
    ELSE IF ~CovariatesCovered(V, st) THEN "COVARIATE_COVERAGE_INSUFFICIENT"
    ELSE IF CancelledRows(V, st) # {} THEN "CANCELLATION_COMPETING_EVENT_PRESENT"
    ELSE IF ~OutcomesCovered(V, st) THEN "OUTCOME_COVERAGE_INSUFFICIENT"
    ELSE "COHORT_SUPPORT_INSUFFICIENT"

\* The frozen request.  "gated" is how eligibility judged the primary
\* population; no later step reads it.
Frozen(V, stages) ==
    [role    |-> V.role,
     bundles |-> [v \in Variants |-> BundleOf(V, stages[v])],
     code    |-> IF stages["primary"].s8 = {} THEN UnavailableCode(V, stages["primary"])
                 ELSE NoCode,
     late    |-> LateSupported(V, stages["primary"]),
     gated   |-> CohortGatesPass(V, stages["primary"])]

StagesOf(V, H) == [v \in Variants |-> Stages(V, H, v)]

AnyStage == [v \in Variants |-> "unavailable"]

\* POST of a fresh analysis of an investigation request.  The record is not
\* read again, and leaves the state.
Admit(role, subject) ==
    /\ phase = "recording"
    /\ now = MaxTime
    /\ deviations + Cost(role # "semi_synthetic_hero") + Cost(subject # 0) <= MaxDeviations
    /\ phase' = "admitted"
    /\ \E V \in {[facts |-> facts, lines |-> lines, observation |-> now,
                 subject |-> subject, role |-> role]} :
       \E H \in {History(V)} : \E stages \in {StagesOf(V, H)} : request' = Frozen(V, stages)
    /\ now' = 0 /\ lines' = <<>> /\ facts' = <<>> /\ deviations' = 0
    /\ UNCHANGED <<stage, checks, result, target, departures>>

-----------------------------------------------------------------------------
(* The worker.                                                             *)

\* _materialize_propensity_variant: folds need both arms, and few suppliers
\* may not split; overlap re-applies the support minima to what it retains.
StageOutcomes(bundle) ==
    CASE bundle = "unavailable" -> {"unavailable"}
      [] bundle = "one_arm"     -> {"failed"}
      [] bundle = "thin"        -> {"unsupported", "failed"}
      [] bundle = "ample"       -> {"supported", "trimmed", "unsupported", "failed"}

BestStage(bundle) ==
    CASE bundle = "ample" -> "supported"
      [] bundle = "thin"  -> "unsupported"
      [] OTHER            -> CHOOSE s \in StageOutcomes(bundle) : TRUE

Differences(f, g) == Cardinality({x \in DOMAIN f : f[x] # g[x]})

Depart(n) == departures + n <= MaxDepartures /\ departures' = departures + n

Reproduction == target # None

\* materialize_propensity_and_s9.
Materialize ==
    /\ phase = "admitted"
    /\ phase' = "staged"
    /\ stage' \in {s \in [Variants -> StageStates] :
                      \A v \in Variants : s[v] \in StageOutcomes(request.bundles[v])}
    /\ LET course == IF Reproduction THEN target.stage
                     ELSE [v \in Variants |-> BestStage(request.bundles[v])]
       IN  Depart(Differences(stage', course))
    /\ UNCHANGED <<lineageVars, request, checks, result, target>>

Overlaps(v) == stage[v] \in {"supported", "trimmed"}

EngineStatus ==
    IF stage["primary"] = "failed" THEN "failed"
    ELSE IF ~Overlaps("primary") THEN "abstained"
    ELSE IF \E v \in Specifications : stage[v] = "failed" THEN "failed"
    ELSE "estimated"

\* What the engine hands to the diagnostics.
Outcome ==
    [status      |-> EngineStatus,
     code        |-> IF request.bundles["primary"] = "unavailable" THEN request.code
                     ELSE "OVERLAP_COHORT_INSUFFICIENT",
     released    |-> request.bundles["primary"] # "unavailable",
     unsupported |-> {v \in Specifications : ~Overlaps(v)}
                        \cup IF request.late THEN {} ELSE {"late_risk"}]

\* A run without estimate ends: its result says failed and shows nothing.
Fail ==
    /\ phase' = "failed"
    /\ UNCHANGED <<lineageVars, request, stage, checks, result, target, departures>>

\* estimate_primary_atte_and_context; a fit may break off.
Estimate ==
    /\ phase = "staged" /\ EngineStatus # "failed"
    /\ phase' = "estimated"
    /\ UNCHANGED <<lineageVars, request, stage, checks, result, target, departures>>

EngineFails ==
    /\ phase = "staged" /\ EngineStatus \in {"failed", "estimated"}
    /\ Fail

CheckOutcomes(c) == IF c \in Refuters \cup {"control"} THEN AdapterResults ELSE Outcomes(c)

BestChecks ==
    [c \in Checks |-> IF Best[c] \in CheckOutcomes(c) THEN Best[c]
                      ELSE CHOOSE x \in CheckOutcomes(c) : TRUE]

\* The ways the checks come out with at most n departures from a course.
OneChanged(batteries) ==
    UNION {{[b EXCEPT ![c] = x] : x \in CheckOutcomes(c)} : b \in batteries, c \in Checks}

Batteries(course, n) ==
    LET within[k \in 0..n] == IF k = 0 THEN {course} ELSE OneChanged(within[k - 1])
    IN  within[n]

\* The checks of a run that abstained are not made.
ChecksMade ==
    LET course == IF Reproduction THEN target.checks ELSE BestChecks
    IN  IF EngineStatus = "abstained" THEN {BestChecks}
        ELSE Batteries(course, MaxDepartures - departures)

\* What must hold of the sealed estimate before it is published: every
\* scored row of the primary population was retained, the diagnostics have
\* a verdict, and so does the subject, whose own gates never pass: no
\* propensity is asked of it.
Finalizable(b) ==
    LET diagnostics == Diagnose(Outcome, b)
    IN  /\ ~(EngineStatus = "estimated" /\ stage["primary"] = "trimmed")
        /\ HasVerdict(Outcome, diagnostics, request.role)
        /\ SubjectVerifies(EvidenceVerdict(Outcome, diagnostics), request.role, FALSE)

\* A defect: only what the engine retained is compared.
RepeatsStage(b) == stage = target.stage

\* compare_reproduction_projections: every member of the bundle, within the
\* replay tolerance.
Repeats(b) == stage = target.stage /\ b = target.checks

Reproduced(b) ==
    Reproduction => target.readable /\ request = target.request /\ Repeats(b)

ResultOf(b) ==
    LET diagnostics == Diagnose(Outcome, b)
        verdict == EvidenceVerdict(Outcome, diagnostics)
    IN  [status    |-> EngineStatus,
         verdict   |-> verdict,
         subject   |-> SubjectVerdict(verdict, request.role, FALSE),
         permitted |-> EngineStatus = "estimated" /\ DecisionSupportPermitted(verdict, request.role),
         shown     |-> ShownParts(Outcome, verdict)]

\* finalize_fresh_analysis.
Finalize(b) ==
    /\ Finalizable(b) /\ Reproduced(b)
    /\ phase' = "sealed"
    /\ checks' = b
    /\ result' = ResultOf(b)
    /\ Depart(Differences(b, IF Reproduction THEN target.checks ELSE BestChecks))
    /\ UNCHANGED <<lineageVars, request, stage, target>>

FinalizationFails(b) ==
    /\ ~(Finalizable(b) /\ Reproduced(b))
    /\ Fail

-----------------------------------------------------------------------------
(* Reproduction.                                                           *)

\* build_fresh_reproduction_payload: the same request again, of a run whose
\* bundle verifies.
Reproduce ==
    /\ phase = "sealed" /\ ~Reproduction
    /\ phase' = "admitted"
    /\ target' = [request |-> request, stage |-> stage, checks |-> checks,
                  result |-> result, readable |-> TRUE]
    /\ stage' = AnyStage /\ checks' = BestChecks /\ result' = None
    /\ UNCHANGED <<lineageVars, request, departures>>

\* Retention, quarantine or damage takes the reproduced run away.
LoseTarget ==
    /\ Reproduction /\ target.readable /\ phase \in {"admitted", "staged", "estimated"}
    /\ target' = [target EXCEPT !.readable = FALSE]
    /\ UNCHANGED <<lineageVars, phase, request, stage, checks, result, departures>>


-----------------------------------------------------------------------------

Init ==
    /\ LineageInit
    /\ phase = "recording"
    /\ request = None /\ stage = AnyStage /\ checks = BestChecks
    /\ result = None /\ target = None /\ departures = 0

Grow == phase = "recording" /\ LineageNext /\ UNCHANGED analysisVars

Next ==
    \/ Grow
    \/ \E role \in AnalysedRoles, subject \in {0} \cup DOMAIN lines : Admit(role, subject)
    \/ Materialize
    \/ Estimate
    \/ EngineFails
    \/ phase = "estimated" /\ \E b \in ChecksMade : Finalize(b)
    \/ phase = "estimated" /\ \E b \in ChecksMade : FinalizationFails(b)
    \/ Reproduce
    \/ LoseTarget

Spec == Init /\ [][Next]_vars

-----------------------------------------------------------------------------
(* Properties.                                                             *)

Verdicts == {"INSUFFICIENT", "ASSOCIATION_ONLY", "TENTATIVE", "SUPPORTED_UNDER_ASSUMPTIONS"}

Displays == {"NONE", "INCONCLUSIVE_ESTIMATE", "ADJUSTED_ASSOCIATION", "CAUSAL_ESTIMATE"}

Parts == {"primary", "context", "sensitivities", "comparisons"}

\* Type correctness: a sealed run has a result and no other has; stages and
\* checks are those the populations and the checks can come out with.
TypeOK ==
    /\ phase \in {"recording", "admitted", "staged", "estimated", "sealed", "failed"}
    /\ (request = None) = (phase = "recording")
    /\ (result # None) = (phase = "sealed")
    /\ stage \in [Variants -> StageStates]
    /\ \A c \in Checks : checks[c] \in Outcomes(c) \cup {Broken}
    /\ phase \in {"staged", "estimated", "sealed"} =>
           \A v \in Variants : stage[v] \in StageOutcomes(request.bundles[v])
    /\ phase = "sealed" =>
           /\ result.verdict.verdict \in Verdicts /\ result.verdict.display \in Displays
           /\ result.shown \subseteq Parts
    /\ departures \in 0..MaxDepartures

\* The cutoffs that readings are taken at.
CutoffsOf(l) == {facts[e].occurred : e \in {CommitmentOf(facts, l, now)} \ {0}}

\* Facts stand in the order they became known.
KnownBy(cutoff) ==
    SubSeq(facts, 1, Cardinality({e \in DOMAIN facts : facts[e].known <= cutoff}))

KnownAfter(cutoff, kind) ==
    {e \in DOMAIN facts : facts[e].kind = kind /\ facts[e].known > cutoff}

Backdated(cutoff) ==
    \E e \in KnownAfter(cutoff, "committed") : facts[e].parent = 0 /\ facts[e].occurred <= cutoff

Recommitted(cutoff) == \E e \in KnownAfter(cutoff, "committed") : facts[e].parent # 0

Repromised(l, cutoff) ==
    \E e \in KnownAfter(cutoff, "promise_recorded") : facts[e].line = l /\ facts[e].parent # 0

\* What was learned after a line's cutoff enters neither its load nor its
\* frozen promise: both read as they would from the facts known by then.
\* Commitments backdated or corrected later leave the load unresolved, and
\* a recorded promise corrected later leaves none.
ReadingsIgnoreLaterFacts ==
    phase = "recording" => \A l \in DOMAIN lines : \A c \in CutoffsOf(l) :
        /\ \/ Backdated(c) \/ Recommitted(c)
           \/ Snapshot(facts, lines, l, c) = Snapshot(KnownBy(c), lines, l, c)
        /\ \/ Repromised(l, c)
           \/ FrozenPromise(facts, l, c) = FrozenPromise(KnownBy(c), l, c)

\* An effect needs its evidence: of a sealed run no more than the primary
\* effect is shown, and no action permitted, unless all fourteen
\* diagnostics passed and every sensitivity was estimated; none at all is
\* shown of an abstention, a tentative finding or a rejected dataset; and
\* the subject is told no effect.
EffectNeedsEvidence ==
    phase = "sealed" =>
        /\ result.permitted \/ result.shown \ {"primary"} # {} =>
              /\ \A d \in Diagnostics : Diagnose(Outcome, checks)[d] = Pass
              /\ Outcome.unsupported = {}
        /\ result.permitted => request.role = "semi_synthetic_hero"
        /\ result.shown # {} =>
              /\ result.status = "estimated"
              /\ result.verdict.verdict # "TENTATIVE"
              /\ request.role # "rejection_vignette"
        /\ result.subject.display = "NONE"

\* A reproduction that is sealed repeats the verdict of the run it names,
\* and shows what that run showed.
ReproductionRepeatsVerdict ==
    phase = "sealed" /\ Reproduction =>
        result = target.result

\* A worse result of any single check never makes a stronger verdict.
WorseningNeverStrengthens ==
    phase = "sealed" /\ result.status = "estimated" =>
        \A c \in Checks : \A x \in Outcomes(c) :
            Rank(c, x) > Rank(c, checks[c]) =>
                LET worse == Diagnose(Outcome, [checks EXCEPT ![c] = x])
                IN  Strength(EvidenceVerdict(Outcome, worse)) <= Strength(result.verdict)

=============================================================================
