SPECIFICATION Spec
CONSTANTS
    clerk1 = clerk1
    clerk2 = clerk2
    None = None
    Deleted = Deleted
    Session = {clerk1, clerk2}
    Invoice = {1}
    Note = {1, 2, 3}
    Batch = {1, 2}
    Bill <- Documents
    Opening <- OneDiscounted
    CreditLimit = 4
    Amount = {2}
    MaxTaken = 4
    Duties <- Returning
INVARIANTS
    TypeOK
    ReturnedWithinSold
    FullReturnCreditsWhatWasBilled
CHECK_DEADLOCK FALSE
