\* Whether an evaluation of a valid case always ends with an outcome.
SPECIFICATION Spec
CHECK_DEADLOCK FALSE
CONSTANTS
    Options = {"PROTECTED_PRODUCTION_SLOT", "ACCEPT_AND_MONITOR"}
    Cutoff = 1
    Parts = 2
    BaseCases <- SlotCases
    Costs <- CaseCosts
    MaxDepartures = 2
INVARIANTS
    EvaluationReturns
