SPECIFICATION Spec
CONSTANTS
    clerk1 = clerk1
    clerk2 = clerk2
    None = None
    Deleted = Deleted
    Session = {clerk1, clerk2}
    Invoice = {1, 2}
    Note = {1}
    Batch = {1, 2}
    Bill <- Issued
    Opening <- PlainAndNext
    CreditLimit = 2
    Amount = {1}
    MaxTaken = 2
    Duties <- OneDesk
INVARIANTS
    StatementAgrees
    RefundStands
PROPERTIES
    WithinCreditLimit
CHECK_DEADLOCK FALSE
