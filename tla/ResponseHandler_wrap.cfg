SPECIFICATION FairSpec
CONSTANTS
  Threads = {t1, t2}
  Parser = parser
  MaxCalls = 3
  MaxSeq = 2
  MaxAnswers = 1
INVARIANTS
  TypeOK
  MutualExclusion
  ReplyCarriesNumber
PROPERTIES
  CallsEnd
