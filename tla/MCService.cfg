CONSTANTS
  q1 = q1  w1 = w1  s1 = s1  c1 = c1
  Requests = {q1}
  Watchers = {w1}
  Readers = {s1}
  Closers = {c1}
  MaxRuns = 1
  Casts <- MCCasts
  CloseMayFail = TRUE
  Unix = FALSE
  Leased = FALSE
  None = None
SPECIFICATION Spec
INVARIANTS SInv ClosedServiceIsQuiet HandleIsCurrent RunningFileHasRunner
PROPERTIES StoreNotClosedUnderRun ShutdownAlwaysReturns
CHECK_DEADLOCK FALSE
