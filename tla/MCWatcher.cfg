CONSTANTS
  c1 = c1  c2 = c2  l1 = l1  l2 = l2  s1 = s1  s2 = s2
  Callbacks = {c1, c2}
  Loops = {l1, l2}
  Stops = {s1}
  MaxChanges = 2
  EventCap = 1
  OthersStart = TRUE
SPECIFICATION Spec
CHECK_DEADLOCK FALSE
INVARIANTS OneRetryLoop StopIsFinal
PROPERTIES StopReturns
