CONSTANTS
  Procs = {p1, p2, p3}
  Inodes = {i1, i2, i3, i4}
  Nil = Nil
  UnlinkWhileOpen = FALSE
SPECIFICATION LockSpec
SYMMETRY ProcSymmetry
INVARIANTS MutualExclusion
PROPERTIES MutexSpec
