SPECIFICATION Spec
CONSTANTS
  Callers = {user}
  Workers = {w1, w2}
  Operations = {"Start", "Shutdown", "Restart", "ForceConnect"}
  MaxOperations = 3
  MaxSessions = 1
  Separately = {FALSE}
INVARIANTS
  TypeOK
  ConnectingIsOpening
SYMMETRY WorkerSymmetry
