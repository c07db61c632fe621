CONSTANTS
  r1 = r1
  r2 = r2
  a = a
  b = b
  NoRun = NoRun
  Runs = {r1, r2}
  Objects = {a, b}
  Content <- MCContent
  Reproduces <- MCReproduces
  MaxNow = 2
  MaxDamage = 1
  MaxCleanups = 1
SPECIFICATION Spec
INVARIANTS PinnedEvidenceStays FailureKeepsMaterial
PROPERTY WithdrawnNeverServed
CHECK_DEADLOCK FALSE
