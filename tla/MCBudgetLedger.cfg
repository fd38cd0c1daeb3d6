SPECIFICATION Spec
CONSTANTS
    c1 = c1
    c2 = c2
    c3 = c3
    c4 = c4
    b1 = b1
    b2 = b2
    None = None
    Consults <- MCConsults
    Buckets <- MCBuckets
    BucketOf <- MCBucketOf
    Plans <- MCPlans
    Estimates = {2}
    Costs = {3}
    MaxBuckets = 1
SYMMETRY MCSymmetry
INVARIANTS
    TypeOK
    ChargesAreExact
    ReservationsAreHeld
    CallCeiling
    CashCeiling
PROPERTIES
    RefusalsAreJustified
CHECK_DEADLOCK FALSE
