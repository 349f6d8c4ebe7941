SPECIFICATION Spec
CONSTANTS
    Session = {s1, s2}
    Free = Free
    Batch <- MCBatch
    Expiry <- MCExpiry
    Today <- MCToday
    Twin <- MCTwin
    Opening <- MCOpening
    Present <- MCPresent
    RowsOf <- MCRowsOf
    Request <- WriteOffUndone
SYMMETRY SessionSymmetry
INVARIANTS
    NoLostUpdate
