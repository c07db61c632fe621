------------------------ MODULE PopulationEligibility ------------------------
(***************************************************************************)
(* Which order lines may enter the estimate: the staged populations H0 to  *)
(* S9 and the cohort gates of backend/app/eligibility.py, over the record  *)
(* of SupplierLoad.                                                        *)
(*                                                                         *)
(* A view V is what one analysis request froze: the facts, the order       *)
(* lines, the observation cutoff, the line under investigation (0 for a    *)
(* proactive one) and the role of the dataset.                             *)
(*                                                                         *)
(* Abstractions.  The mapping manifest of a dataset is accepted or not as  *)
(* a whole, by its role.  The rows of an out-of-domain dataset carry an    *)
(* order group where the others carry a project; Line.project stands for   *)
(* both.  The sixteen adjustment fields of a line share one state.  The    *)
(* duration-basis gate cannot fail with days of one precision and is left  *)
(* out.  Sizes of populations are CONSTANTS; the coverage fractions are    *)
(* those of the code.                                                      *)
(***************************************************************************)
EXTENDS SupplierLoad

CONSTANTS
    MinSupport,      \* least lines, lines of an arm, suppliers, suppliers of an
                     \* arm and suppliers in both arms of an estimated cohort
    MinLate          \* least late and least punctual lines of a late-risk contrast

Roles == {"semi_synthetic_hero", "out_of_domain_validation", "rejection_vignette"}

Variants == {"primary", "stricter_threshold", "short_history", "long_history"}

Percentile(v) == IF v = "stricter_threshold" THEN 75 ELSE 67

ASSUME MinHistoryAssumption == MinHistory \in [Variants -> Nat \ {0}]

OutOfDomain(V) == V.role = "out_of_domain_validation"

SourceEligible(V) == V.role # "rejection_vignette"

-----------------------------------------------------------------------------
(* Stages.                                                                 *)

\* _default_selector_ids: a line whose commitment, by all that is recorded,
\* lies after the observation is not selected; an unresolved one is.
H0(V) == {l \in DOMAIN V.lines :
            LET e == CommitmentOf(V.facts, l, MaxTime)
            IN  e = 0 \/ V.facts[e].occurred <= V.observation}

CutoffOf(V, l) == V.facts[CommitmentOf(V.facts, l, V.observation)].occurred

H1(V) == {l \in H0(V) : /\ CommitmentOf(V.facts, l, V.observation) # 0
                        /\ CutoffOf(V, l) <= V.observation}

S0(V) == H0(V) \ {V.subject}

S1(V) == S0(V) \cap H1(V)

\* What is read once of every line of H1: its cutoff and its load then.
SeenAt(V, l, cutoff) == [cutoff |-> cutoff, load |-> Snapshot(V.facts, V.lines, l, cutoff)]

History(V) == [l \in H1(V) |-> SeenAt(V, l, CutoffOf(V, l))]

\* H is History(V).
Prior(V, H, l) == {h \in DOMAIN H : /\ V.lines[h].supplier = V.lines[l].supplier
                                   /\ H[h].cutoff < H[l].cutoff}

ValidHistory(V, H, l) == {h \in Prior(V, H, l) : H[h].load # Unresolved}

DesignGroup(V, l) == IF OutOfDomain(V) THEN None ELSE V.lines[l].project

\* An order group that spans suppliers says nothing about either of them.
MixedOrder(V, l) ==
    OutOfDomain(V) /\ \E k \in DOMAIN V.lines :
        V.lines[k].project = V.lines[l].project /\ V.lines[k].supplier # V.lines[l].supplier

\* The first exposure of a supplier in a design group counts; later exposed
\* lines of it do not.
AfterFirstExposure(V, H, exposed, l) ==
    l \in exposed /\ \E k \in exposed :
        /\ V.lines[k].supplier = V.lines[l].supplier
        /\ DesignGroup(V, k) = DesignGroup(V, l)
        /\ H[k].cutoff < H[l].cutoff

\* S2 and S3: the lines whose load, and enough of their supplier's earlier
\* loads, can be measured; and those of them that were exposed.
Measured(V, v, H) ==
    LET warmed == {l \in S1(V) : Cardinality(Prior(V, H, l)) >= MinHistory[v]}
        measured == {l \in warmed : H[l].load # Unresolved}
        s3 == {l \in measured : Cardinality(ValidHistory(V, H, l)) >= MinHistory[v]}
    IN  [warmed |-> warmed, measured |-> measured, s3 |-> s3,
         exposed |-> {l \in s3 : HighLoad(H[l].load, ValidHistory(V, H, l), H, Percentile(v))}]

\* S4: one exposure of a supplier in a design group.
Placed(V, H, m) ==
    {l \in m.s3 : /\ OutOfDomain(V) \/ DesignGroup(V, l) # None
                  /\ ~MixedOrder(V, l)
                  /\ ~AfterFirstExposure(V, H, m.exposed, l)}

\* S5 to S8: promised, followed up, with usable covariates, with an outcome.
Followed(V, H, m, s4) ==
    LET s5 == {l \in s4 : FrozenPromise(V.facts, l, H[l].cutoff) # None}
        s6 == {l \in s5 : Mature(FrozenPromise(V.facts, l, H[l].cutoff), V.observation)}
        s7 == {l \in s6 : V.lines[l].covariates # "unusable"}
        s8 == {l \in s7 : OutcomePresent(V.facts, l, H[l].cutoff, V.observation)}
    IN  [s0 |-> S0(V), s1 |-> S1(V), warmed |-> m.warmed, measured |-> m.measured,
         s3 |-> m.s3, exposed |-> m.exposed, s4 |-> s4, s5 |-> s5, s6 |-> s6, s7 |-> s7,
         s8 |-> s8]

\* evaluate_pre_estimation_eligibility of one exposure rule.
FollowedOf(V, H, m) == Followed(V, H, m, Placed(V, H, m))

Stages(V, H, v) == FollowedOf(V, H, Measured(V, v, H))

SlippageOf(V, l) == SlippageDays(V.facts, l, CutoffOf(V, l), V.observation)

LateRows(V, rows) == {l \in rows : SlippageOf(V, l) > 0}

-----------------------------------------------------------------------------
(* Cohort gates.  A rate with nothing below the line passes no minimum.    *)

AtLeast(part, whole, percent) ==
    whole # {} /\ Cardinality(part) * 100 >= percent * Cardinality(whole)

AtMost(part, whole, percent) ==
    whole # {} /\ Cardinality(part) * 100 <= percent * Cardinality(whole)

GapAtMost(part, whole, exposed, percent) ==
    LET a == Cardinality(whole \cap exposed)
        b == Cardinality(whole \ exposed)
        m == Cardinality(part \cap whole \cap exposed) * b
        n == Cardinality((part \cap whole) \ exposed) * a
    IN  a > 0 /\ b > 0 /\ 100 * (m - n) <= percent * a * b /\ 100 * (n - m) <= percent * a * b

ArmsAtLeast(part, whole, exposed, percent) ==
    /\ AtLeast(part \cap exposed, whole \cap exposed, percent)
    /\ AtLeast(part \ exposed, whole \ exposed, percent)

ArmsAtMost(part, whole, exposed, percent) ==
    /\ AtMost(part \cap exposed, whole \cap exposed, percent)
    /\ AtMost(part \ exposed, whole \ exposed, percent)

SuppliersOf(V, rows) == {V.lines[l].supplier : l \in rows}

ExposureMeasured(V, st) ==
    LET warm == SuppliersOf(V, st.warmed)
        OfSupplier(rows, s) == {l \in rows : V.lines[l].supplier = s}
        covered == {s \in warm : AtLeast(OfSupplier(st.measured, s), OfSupplier(st.warmed, s), 90)}
    IN  AtLeast(st.measured, st.warmed, 95) /\ AtLeast(covered, warm, 90)

DesignIdentified(V, st) == OutOfDomain(V) \/ \A l \in st.s3 : DesignGroup(V, l) # None

TimesCovered(V, st) ==
    /\ AtLeast(st.s1, st.s0, 95)
    /\ AtLeast(st.s5, st.s4, 95)
    /\ ArmsAtLeast(st.s5, st.s4, st.exposed, 90)
    /\ GapAtMost(st.s5, st.s4, st.exposed, 5)

CovariatesCovered(V, st) ==
    LET absent == {l \in st.s6 : V.lines[l].covariates # "present"}
    IN  /\ AtMost(absent, st.s6, 20)
        /\ ArmsAtMost(absent, st.s6, st.exposed, 30)
        /\ GapAtMost(absent, st.s6, st.exposed, 10)
        /\ AtLeast(st.s7, st.s6, 80)
        /\ GapAtMost(st.s7, st.s6, st.exposed, 10)

CancelledRows(V, st) ==
    {l \in st.s7 : /\ ~EndsInvalid(V.facts, l, CutoffOf(V, l), V.observation)
                   /\ Cancelled(V.facts, l, V.observation)}

OutcomesCovered(V, st) ==
    /\ AtLeast(st.s8, st.s7, 95)
    /\ ArmsAtLeast(st.s8, st.s7, st.exposed, 90)
    /\ GapAtMost(st.s8, st.s7, st.exposed, 5)
    /\ CancelledRows(V, st) = {}

\* _treatment_support.
Supported(V, rows, exposed) ==
    LET treated == rows \cap exposed
        control == rows \ exposed
        ts == SuppliersOf(V, treated)
        cs == SuppliersOf(V, control)
    IN  /\ Cardinality(rows) >= MinSupport.lines
        /\ Cardinality(treated) >= MinSupport.arm
        /\ Cardinality(control) >= MinSupport.arm
        /\ AtLeast(treated, rows, 10) /\ AtMost(treated, rows, 90)
        /\ Cardinality(ts \cup cs) >= MinSupport.suppliers
        /\ Cardinality(ts) >= MinSupport.armSuppliers
        /\ Cardinality(cs) >= MinSupport.armSuppliers
        /\ Cardinality(ts \cap cs) >= MinSupport.mixedSuppliers

OutcomesVary(V, rows) == Cardinality({SlippageOf(V, l) : l \in rows}) >= 2

\* pre_overlap_gates: what must hold of a cohort before overlap is judged.
CohortGatesPass(V, st) ==
    /\ SourceEligible(V)
    /\ ExposureMeasured(V, st)
    /\ DesignIdentified(V, st)
    /\ TimesCovered(V, st)
    /\ CovariatesCovered(V, st)
    /\ OutcomesCovered(V, st)
    /\ Supported(V, st.s8, st.exposed)
    /\ OutcomesVary(V, st.s8)

\* The late-risk contrast needs late and punctual lines among the rows.
LateSupported(V, st) ==
    /\ Cardinality(LateRows(V, st.s8)) >= MinLate
    /\ Cardinality(st.s8 \ LateRows(V, st.s8)) >= MinLate
=============================================================================
