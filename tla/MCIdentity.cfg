CONSTANTS
  Files = {f1, f2}
  Confs <- MCConfs
  Initial <- MCInitial
  Builds = {b1, b2}
  MaxRestarts = 2
  MaxEdits = 1
  None = None
SPECIFICATION Spec
SYMMETRY Symmetric
CHECK_DEADLOCK FALSE
INVARIANTS OneGeneration
PROPERTIES RebuildIsPure
