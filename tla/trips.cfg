SPECIFICATION DeliverySpec
CONSTANTS
    office = office
    desk = desk
    Session = {office, desk}
    Trip = {1, 2}
    Invoice = {1, 2}
    StopId = {1, 2}
    Batch = {1, 2}
    Sold <- MCSold
    OnCredit = {2}
    MaxBack = 1
    Rosters <- MCRosters
    WarehouseOf <- MCWarehouseOf
INVARIANTS
    TripIsWhole
    NothingCreditedOnTheRoad
    FetchedOrDelivered
PROPERTIES
    TripRunsItsCourse
CHECK_DEADLOCK FALSE
