CONSTANTS
  p1 = p1  p2 = p2  r1 = r1  r2 = r2  None = None
  Clients = {p1, p2}
  Roots = {r1, r2}
  MaxIds = 2
  MaxCommands = 3
  MaxMoves = 1
  MayCrash = TRUE
SPECIFICATION Spec
SYMMETRY Interchangeable
CHECK_DEADLOCK FALSE
INVARIANTS RegistryLoads
PROPERTIES OthersUntouched RefusedChangeIsUndone
