CONSTANTS
  manual = manual  foreign = foreign
  Clients = {c1, c2}
  Daemons = {d1, d2}
  Strangers = {manual, foreign}
  Legacy = {manual}
  None = None
  Empty = Empty
SPECIFICATION FairSpec
CHECK_DEADLOCK FALSE
INVARIANTS OneRegistry ConnectedIsAuthorized RacesAreHarmless
PROPERTIES EnsureRunningReturns
