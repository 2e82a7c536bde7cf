SPECIFICATION Spec
CONSTANTS
  Callers = {user}
  Workers = {w1, w2}
  Operations = {"Start", "Shutdown"}
  MaxOperations = 2
  MaxSessions = 1
  Separately = {FALSE}
INVARIANTS
  ShutdownCloses
