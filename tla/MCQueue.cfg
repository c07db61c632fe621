CONSTANTS
    Operations = {o1, o2, o3}
    Workspaces = {w1, w2, w3}
    None = None
    Kinds = {"BOUNDED_WORK"}
    MaxWaiting = 1
    MaxBundles = 1
    OrphanWorkers = FALSE
    MaxTime = 1
    MaxFaults = 0
    MaxCrashes = 1
    MaxStops = 0
SYMMETRY MCSymmetry
SPECIFICATION Spec
INVARIANTS
    CapacityRespected
PROPERTIES
    ImplementsLifecycle
