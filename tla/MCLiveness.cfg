CONSTANTS
    Operations = {o1, o2}
    Workspaces = {w1, w2}
    None = None
    Kinds = {"FRESH_ANALYSIS"}
    MaxWaiting = 1
    MaxBundles = 1
    OrphanWorkers = FALSE
    MaxTime = 0
    MaxFaults = 0
    MaxCrashes = 1
    MaxStops = 1
SPECIFICATION FairSpec
PROPERTIES
    EveryOperationEnds
