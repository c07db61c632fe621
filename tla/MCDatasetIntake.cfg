\* Every bundled source of at most two rows near the ordinary ones.  Imports
\* and readings end when the keys and the workspaces are used.
SPECIFICATION Spec
SYMMETRY MCSymmetry
CHECK_DEADLOCK FALSE
CONSTANTS
    None = None
    Keys = {k1, k2}
    Workspaces = {w1, w2}
    Sources <- MCSources
INVARIANTS
    ContradictionsRejectRun
    RepeatedRowsDeduplicate
    FieldsAreObserved
    PublicationIsFirst
