CONSTANTS
    MaxData = 1
    MaxCrashes = 1
    MaxCorruptions = 0
    MaxUpgrades = 0
    TornRemoval = TRUE
SPECIFICATION Spec
CHECK_DEADLOCK FALSE
INVARIANTS
    SetupMakesBaseline
