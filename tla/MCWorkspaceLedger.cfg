CONSTANTS
    Workspaces = {w1, w2}
    Keys = {k1, k2}
    Selections = {s1}
    Contents = {x}
    Callers = {c1, c2}
    None = None
    MaxWorkspaces = 1
    MaxMutations = 2
    MaxBundles = 1
    PerMinute = 1
    GlobalPerMinute = 2
    DraftsPerHour = 1
    AttemptsPerDay = 1
    Minute = 1
    Hour = 2
    Day = 2
    InactivePeriod = 2
    MaxTime = 2
    MaxReleases = 2
SYMMETRY Symmetry
VIEW View
CONSTRAINT OneAtATime
SPECIFICATION Spec
INVARIANTS
    LimitsRespected
    

    
CHECK_DEADLOCK FALSE
