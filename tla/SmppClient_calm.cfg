SPECIFICATION CalmSpec
CONSTANTS
  Callers = {u1, u2}
  Workers = {w1, w2}
  Operations = {"Start", "ForceConnect"}
  MaxOperations = 2
  MaxSessions = 3
  Separately = {FALSE, TRUE}
INVARIANTS
  ConnectedIsUsable
  NoOrphans
  StartedIsArmed
PROPERTIES
  Recovers
  OpenReturns
