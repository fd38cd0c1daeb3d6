--------------------------- MODULE MCBudgetLedger ---------------------------
(* The small instance of BudgetLedger that TLC checks. *)
EXTENDS BudgetLedger, FiniteSetsExt, TLC

CONSTANTS c1, c2, c3, c4, b1, b2

MCConsults == {c1, c2, c3, c4}
\* c1, c2 and c3 share a bucket and are interchangeable.
MCSymmetry == Permutations({c1, c2, c3})

MCBuckets == {b1, b2}
MCBucketOf == (c1 :> b1) @@ (c2 :> b1) @@ (c3 :> b1) @@ (c4 :> b2)

\* No enforcement; a call ceiling alone; both ceilings, stopping once a price is
\* unknown; both ceilings, asking the user.
MCPlans == {
    [enabled |-> FALSE, maxCalls |-> 1, maxMicro |-> 3, stopOnUnknown |-> TRUE, confirm |-> FALSE],
    [enabled |-> TRUE, maxCalls |-> 1, maxMicro |-> None, stopOnUnknown |-> FALSE, confirm |-> FALSE],
    [enabled |-> TRUE, maxCalls |-> 2, maxMicro |-> 3, stopOnUnknown |-> TRUE, confirm |-> FALSE],
    [enabled |-> TRUE, maxCalls |-> 2, maxMicro |-> 3, stopOnUnknown |-> FALSE, confirm |-> TRUE]}

\* TotalOf is the sum the community modules define.
ASSUME TotalIsSum ==
    \A S \in SUBSET MCConsults, f \in [MCConsults -> 0..3] :
        TotalOf(S, f) = MapThenSumSet(LAMBDA c : f[c], S)
=============================================================================
