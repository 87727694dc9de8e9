CONSTANTS
  a = a  b = b  c = c  v1 = v1  v2 = v2
  Callers = {p1, p2}
  Ids = {a, b, c}
  Handles = {h1, h2, h3, h4, h5}
  Snapshots <- ShrinkLimit
  Reload = Reload
  None = None
  DrainMayTimeOut = TRUE
SPECIFICATION Spec
SYMMETRY CallerSymmetry
INVARIANTS HeldServiceIsOpen ServesCurrentRegistration LiveWithinLimit RuntimeAfterDrain
PROPERTIES LeaseSpec
