SPECIFICATION OfficeSpec
CONSTANTS
    Session = {1, 2}
    Paper = {1, 2, 3}
    Quotation = {3}
    Buyer = {1}
    BuyerFor <- MCBuyerFor
    Bill = {1, 2}
    MAX_OPEN_ORDERS = 1
    Duties <- MCDuties
    Client = {1}
    Record = {1, 2}
    Invoice = {1, 2}
    Line = {1, 2, 3, 4}
    Split <- MCSplit
    Rate = {"vat"}
    Tasks <- MCTasks
    Upload <- MCUpload
    Name = {"n"}
    Batch = {1}
    BatchOf <- MCBatchOf
    Price = 5
    TOLERANCE = 1
    MaxSales = 1
    MaxRuns = 4
    Statement = {1, 2, 3}
    Movement = {1, 2, 3}
    Other = {4}
    Inflow <- MCInflow
    Backlog <- MCBacklog
    User = {1, 2, 3}
    RolesGiven = {"admin", "sales"}
    Lists <- MCLists
    MaxTurns = 3
    Staff <- MCStaff
    MAX_FAILED_ATTEMPTS = 2
    LOCKOUT_MINUTES = 3
    MaxClock = 5
    MaxIssued = 2
    MaxVisits = 4
    Source = {1, 2}
    WINDOW_SECONDS = 3
    MAX_ATTEMPTS = 2
    MaxKeys = 1
    MaxSeconds = 6
INVARIANTS
    BilledOnce
    RegisterFollows
    BooksFollowDocuments
    OneMovement
    HandsAreTheirOwn
    SomeoneCanManage
    LockoutHolds
    TemporaryIsReplaced
    SignInsAreSpaced
PROPERTIES
    AnswerStands
    DeclaredStands
    MatchStands
CHECK_DEADLOCK FALSE
