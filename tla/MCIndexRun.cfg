CONSTANTS
  f1 = f1  f2 = f2  d1 = d1  d2 = d2  d3 = d3  e1 = e1
  Files = {f1, f2}
  Text <- MCText
  Removals <- MCRemovals
  None = None
  MayFail = TRUE
SPECIFICATION Spec
ACTION_CONSTRAINT MCCallers
INVARIANTS  JournalNamesNoLiveVector 
PROPERTIES RowOutlivesItsVectors 
