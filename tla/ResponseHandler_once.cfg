SPECIFICATION Spec
CONSTANTS
  Threads = {t1, t2}
  Parser = parser
  MaxCalls = 3
  MaxSeq = 3
  MaxAnswers = 1
INVARIANTS
  LateResponsesDiscarded
  SomebodyGoesOn
SYMMETRY ThreadSymmetry
