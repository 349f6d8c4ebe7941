SPECIFICATION MigrationSpec
CONSTANTS
    Session = {1, 2}
    Upload <- MCUpload
    Name = {"n"}
    Batch = {1}
    BatchOf <- MCBatchOf
    Price = 5
    TOLERANCE = 1
    MaxSales = 2
    MaxRuns = 4
INVARIANTS
    InventoryIsTheShelf
CHECK_DEADLOCK FALSE
