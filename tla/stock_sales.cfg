SPECIFICATION Spec
CONSTANTS
    Session = {s1, s2, s3}
    Free = Free
    Batch <- MCBatch
    Expiry <- MCExpiry
    Today <- MCToday
    Twin <- MCTwin
    Opening <- MCOpening
    Present <- MCPresent
    RowsOf <- MCRowsOf
    Request <- Sales
SYMMETRY SessionSymmetry
INVARIANTS
    NeitherDies
    FirstExpiredFirstOut
