SPECIFICATION FairSpec
CONSTANTS
  Callers = {user}
  Workers = {w1, w2}
  Operations = {"Start"}
  MaxOperations = 1
  MaxSessions = 1
  Separately = {FALSE}
PROPERTIES
  Reconnects
