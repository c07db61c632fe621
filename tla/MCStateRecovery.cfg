CONSTANTS
    MaxData = 1
    MaxCrashes = 1
    MaxCorruptions = 1
    MaxUpgrades = 1
    TornRemoval = FALSE
SPECIFICATION Spec
CHECK_DEADLOCK FALSE
INVARIANTS
    BytesArePreserved
    NeverServesOverGap
    ReceiptIsFaithful
    SomethingLeadsOn
PROPERTIES
    SetupBaselineStays
