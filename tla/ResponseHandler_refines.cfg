SPECIFICATION FairSpec
CONSTANTS
  Threads = {t1, t2}
  Parser = parser
  MaxCalls = 2
  MaxSeq = 2
  MaxAnswers = 2
INVARIANTS
  OwnResponse
  HandedOverIsReturned
  AlertedHasResponse
PROPERTIES
  ImplementsRequestReply
