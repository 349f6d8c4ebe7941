SPECIFICATION FieldSpec
CONSTANTS
    kiosk = kiosk
    sale = sale
    asked = asked
    none = none
    Session = {1, 2}
    Shop = {kiosk}
    Document = {sale, asked}
    NoShop = none
    BuyerOf <- MCBuyerOf
    VanSale = {sale}
    NameClash = {kiosk}
    MaxFaults = 2
INVARIANTS
    NothingGoesSilently
    SyncedOnce
PROPERTIES
    RoundReaches
CHECK_DEADLOCK FALSE
