SPECIFICATION Spec
CONSTANTS
    c1 = c1
    c2 = c2
    c3 = c3
    c4 = c4
    b1 = b1
    b2 = b2
    None = None
    Consults <- MCConsults
    Buckets <- MCBuckets
    BucketOf <- MCBucketOf
    Plans <- MCPlans
    Estimates = {2}
    Costs = {3}
    MaxBuckets = 2
SYMMETRY MCSymmetry
INVARIANT HeldCashFitsCeiling
CHECK_DEADLOCK FALSE
