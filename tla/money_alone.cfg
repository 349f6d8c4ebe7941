SPECIFICATION Spec
CONSTANTS
    clerk1 = clerk1
    clerk2 = clerk2
    None = None
    Deleted = Deleted
    Session = {clerk1}
    Invoice = {1}
    Note = {1, 2, 3}
    Batch = {1, 2}
    Bill <- Issued
    Opening <- OnePlain
    CreditLimit = 2
    Amount = {1, 2}
    MaxTaken = 4
    Duties <- OneClerk
INVARIANTS
    OverpaymentIsOwed
PROPERTIES
    ReturnsFreezeInvoice
CHECK_DEADLOCK FALSE
