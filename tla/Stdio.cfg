CONSTANTS
  Servers = {s1, s2}
  HttpOnly = {s2}
  Bystanders = {b1, b2}
  Wrappers = {b1}
  StdioWrappers = {}
  Pids = {1, 2, 3}
  Nobody = Nobody
SPECIFICATION FairStdio
CHECK_DEADLOCK FALSE
INVARIANTS OneServer BystandersAreSafe
PROPERTIES OrphansLeave
