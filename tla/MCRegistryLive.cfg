CONSTANTS
  a = a  b = b  c = c  v1 = v1  v2 = v2
  Callers = {p1, p2}
  Ids = {a, b}
  Handles = {h1, h2, h3, h4}
  Snapshots <- ChangeAndRemove
  Reload = Reload
  None = None
  DrainMayTimeOut = FALSE
SPECIFICATION FairSpec
PROPERTIES NobodyWaitsForever RuntimeIsTornDown
