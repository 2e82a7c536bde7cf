CONSTANTS
    i12 = i12
    i13 = i13
    i20 = i20
    i512 = i512
    Messages = {m1, m2}
    Ids = {i12, i13, i20, i512}
    AnswerText <- Answers
    ReceiptText <- Receipts
    Exact = 12
    MaxParts = 2
    MaxReceipts = 2
    Inbound = {x}
SPECIFICATION Spec
INVARIANTS TypeOK LastReceiptShown
PROPERTY NothingVanishes
SYMMETRY Symmetry
CHECK_DEADLOCK FALSE
