SPECIFICATION Spec
CONSTANTS
    k1 = k1
    k2 = k2
    a1 = a1
    c1 = c1
    c2 = c2
    o1 = o1
    o2 = o2
    now1 = now1
    next1 = next1
    draft1 = draft1
    supplier = supplier
    r1 = r1
    Advices <- MCAdvices
    Keys = {k1, k2}
    Actors = {a1}
    Candidates = {c1, c2}
    Offered = {c1, c2}
    Intents = {"APPROVE_INTENT", "REJECTED"}
    Observations <- MCObservations
    Instants = {1}
    Consumed <- MCConsumed
    Authorities <- MCAuthorities
    Registry <- MCRegistry
    RecommendedTrigger = now1
    TriggerMode = "REACTIVE"
    Subject = supplier
    Activation = 1
    Requests = {r1}
    MaxBriefs = 2
    MaxDecisions = 1
    MaxChanges = 1
    MaxChecks = 2
    MaxLog = 8
SYMMETRY MCSymmetry
CHECK_DEADLOCK FALSE
INVARIANTS
    HeadsFormChain
    ChecksAnswerOnce
    ActedWhileCurrent
    DraftsFormChains
PROPERTIES
    ReplayIsStable
