CONSTANTS
  Files = {f1, f2}
  Confs <- MCGeometries
  Initial <- MCGeometries
  Builds = {1}
  MaxRestarts = 1
  MaxEdits = 0
  None = None
SPECIFICATION Spec
CHECK_DEADLOCK FALSE
INVARIANTS OneGeometry
