SPECIFICATION Spec
CONSTANTS
  Procs = {p1, p2, p3}
  None = none
  Orphan = orphan
INVARIANT MutualExclusion
