\* The record of a supplier, its analysis and a reproduction of it.  A run
\* that failed, or was sealed as a reproduction, is over.
SPECIFICATION Spec
SYMMETRY SupplierSymmetry
CHECK_DEADLOCK FALSE
CONSTANTS
    MaxLines = 3
    Suppliers = {s1, s2}
    Projects = {p1}
    None = None
    MaxTime = 3
    MaxFacts = 8
    MaxDeviations = 1
    Horizon = 0
    MinHistory <- HistoryNeeded
    MinSupport <- SupportNeeded
    MinLate = 1
    NoCode = NoCode
    Groups = {g1, g2, g3}
    AnalysedRoles = {"semi_synthetic_hero", "out_of_domain_validation", "rejection_vignette"}
    AdapterResults <- AllResults
    MaxDepartures = 2
INVARIANTS
    EffectNeedsEvidence
    ReproductionRepeatsVerdict
    WorseningNeverStrengthens
    ReadingsIgnoreLaterFacts
