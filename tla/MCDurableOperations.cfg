CONSTANTS
    Operations = {o1, o2}
    Workspaces = {w1, w2}
    None = None
    Kinds = {"FRESH_ANALYSIS"}
    MaxWaiting = 1
    MaxBundles = 1
    OrphanWorkers = FALSE
    MaxTime = 0
    MaxFaults = 2
    MaxCrashes = 1
    MaxStops = 1
SYMMETRY MCSymmetry
SPECIFICATION Spec
INVARIANTS
    NoStrandedOperation
    CountedBundleIsAvailable
    ArtifactStateIsTrue
    OneComputeSubprocess
    StoppedIsQuiescent
    ReceiptIsTrue
PROPERTIES
    CancelIsHonoured
    TerminalRowIsFrozen
    ExecutionsAdvance
CHECK_DEADLOCK FALSE
