SPECIFICATION WarehouseSpec
CONSTANTS
    Session = {1, 2}
    Lot = {1, 2}
    Held <- MCHeld
    CostOf <- MCCostOf
    WriteOff = {1, 2}
    Count = {1, 2}
    MaxMoves = 2
    Tasks <- MCTasks
    Van = {1, 2}
    Salesman = {1, 2}
    Drives <- MCDrives
    Sale = {1, 2}
    Method = {"cash", "credit"}
    Total = 1
    Sheet = {1}
    Outcome <- MCOutcome
    CostPer <- MCCostPer
    Limit = 1
    Round = {1, 2}
    MaxChanges = 2
    Errands <- MCErrands
    Line = {1, 2}
    Ordered <- MCOrdered
    Doc = {1, 2}
    Deliveries <- MCDeliveries
    MaxSold = 1
    MaxVoucher = 2
    MaxEdits = 2
    Trades <- MCTrades
INVARIANTS
    DocumentsAreSound
    InventoryFollowsBooks
    RoundsAreKept
    OrderIsTrue
    GoodsAndMoneyAgree
PROPERTIES
    CountIsADelta
    SignedStands
CHECK_DEADLOCK FALSE
