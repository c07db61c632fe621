\* The ten options of the library.
SPECIFICATION Spec
CHECK_DEADLOCK FALSE
CONSTANTS
    Options = {"PROTECTED_PRODUCTION_SLOT", "QUALIFIED_SOURCE_SPLIT", "PREQUALIFIED_ALTERNATE",
               "RELEASE_TIMING_ADJUSTMENT", "CAPACITY_BACKED_ACCELERATION", "PHASED_DELIVERY",
               "DEPENDENT_WORK_RESEQUENCING", "CONTRACTUAL_ESCALATION", "ACCEPT_AND_MONITOR",
               "PROTECTED_SLOT_WITH_PHASED_DELIVERY"}
    Cutoff = 1
    Parts = 2
    BaseCases <- Cases
    Costs <- CaseCosts
    MaxDepartures = 1
INVARIANTS
    LateNeverHelps
    RecommendationUndominated
    ChoiceIsReal
    CheaperStaysRecommended
