---------------------------- MODULE BudgetLedger ----------------------------
(***************************************************************************)
(* The Advisor consultation budget: the counters of the durable ledger     *)
(* (AdvisorBudgetLedger in dsh/advisor-budget.js), the reservations taken  *)
(* from them, and the consultations that reserve, call the provider and    *)
(* settle (consultWithBudget in dsh/index.js).                             *)
(*                                                                         *)
(* One ledger instance serves the process.  Its promise chain runs one     *)
(* transaction at a time, so each transaction is one action here; module   *)
(* LedgerFile shows when that is justified.  Every transaction ends with   *)
(* pruneLedger, which is part of the action.                               *)
(***************************************************************************)
EXTENDS Integers, FiniteSets, Totals

CONSTANTS
    Consults,    \* the consultations that are ever started
    Buckets,     \* ledger keys of the configured scope: session ids or project keys
    BucketOf,    \* the bucket a consultation is accounted to: AdvisorStore.identity
    Plans,       \* the configurations a process may start with: resolveBudgetPlan
    Estimates,   \* what reserveCostMicro may return for a priced model
    Costs,       \* what estimateCostMicro may return for a priced model
    None,        \* an absent limit, price or cost (JavaScript's undefined)
    MaxBuckets   \* buckets pruneLedger keeps

Plan == [enabled: BOOLEAN, maxCalls: Nat \cup {None}, maxMicro: Nat \cup {None},
         stopOnUnknown: BOOLEAN, confirm: BOOLEAN]

ASSUME ConstantsAssumption ==
    /\ IsFiniteSet(Consults)
    /\ IsFiniteSet(Buckets)
    /\ BucketOf \in [Consults -> Buckets]
    /\ Plans \subseteq Plan
    /\ Estimates \subseteq Nat
    /\ Costs \subseteq Nat
    /\ None \notin Nat
    /\ MaxBuckets \in Nat \ {0}

VARIABLES
    plan,      \* the resolved budget plan, a snapshot taken by apply()
    ledger,    \* the counters of every bucket; EmptyCounter for an absent bucket
    present,   \* the buckets the ledger document holds
    newer,     \* for a present bucket, the present buckets updated after it
    status,    \* how far each consultation has come
    handle,    \* what each consultation's reservation took, and its estimate
    paid,      \* the cost its history entry records, None while unknown
    \* History variables.  No action's guard reads them.
    taken,     \* consultations that took a slot of the bucket as it exists now
    charged,   \* consultations the bucket as it exists now counts as calls
    late       \* reservations of a deleted bucket used on its successor

ledgerVars == <<ledger, present, newer>>
history == <<taken, charged, late>>
vars == <<plan, ledger, present, newer, status, handle, paid, taken, charged, late>>

-----------------------------------------------------------------------------
(* Counters and the standing of a bucket.  The report-only fields (failedCalls,
   knownCostCalls, lastAt, lastModel, lastOutcome) are left out. *)

Counter == [calls: Nat, costMicro: Nat, reservedCalls: Nat, reservedMicro: Nat,
            unknownCostCalls: Nat]

EmptyCounter == [calls |-> 0, costMicro |-> 0, reservedCalls |-> 0, reservedMicro |-> 0,
                 unknownCostCalls |-> 0]

\* Mutant: the decrement without Math.max(0, ...).
MutantMinus(m, n) == m - n

\* Math.max(0, m - n)
Minus(m, n) == IF m > n THEN m - n ELSE 0

\* Mutant: only settled calls count against the ceiling.
MutantCommittedCalls(k) == k.calls

CommittedCalls(k) == k.calls + k.reservedCalls
CommittedMicro(k) == k.costMicro + k.reservedMicro

CallLimited == plan.enabled /\ plan.maxCalls # None
CostLimited == plan.enabled /\ plan.maxMicro # None

BlockedByCalls(k) == CallLimited /\ CommittedCalls(k) >= plan.maxCalls
BlockedByCost(k) == CostLimited /\ CommittedMicro(k) >= plan.maxMicro
BlockedByUnknownCost(k) == plan.enabled /\ plan.stopOnUnknown /\ k.unknownCostCalls > 0

\* An unpriced model claims no cash: `request.costMicro ?? 0`.
Requested(estimate) == IF estimate = None THEN 0 ELSE estimate

\* Mutant: the cash other calls hold is thought to be free.
MutantCannotCover(k, estimate) ==
    CostLimited /\ Requested(estimate) > plan.maxMicro - k.costMicro

CannotCover(k, estimate) ==
    CostLimited /\ Requested(estimate) > plan.maxMicro - k.costMicro - k.reservedMicro

Refuses(k, estimate) ==
    \/ BlockedByCalls(k)
    \/ BlockedByCost(k)
    \/ BlockedByUnknownCost(k)
    \/ CannotCover(k, estimate)

ReservedMicroOf(estimate) == IF CostLimited THEN Requested(estimate) ELSE 0

WithReservation(k, estimate) ==
    [k EXCEPT !.reservedCalls = @ + 1,
              !.reservedMicro = @ + ReservedMicroOf(estimate)]

\* Mutants: the slot, or the cash, is never given back.
MutantSlotLeaks(k, h) == [k EXCEPT !.reservedMicro = Minus(@, h.micro)]
MutantCashLeaks(k, h) == [k EXCEPT !.reservedCalls = Minus(@, IF h.call THEN 1 ELSE 0)]

\* The decrements release() and settle() share.
WithoutReservation(k, h) ==
    [k EXCEPT !.reservedCalls = Minus(@, IF h.call THEN 1 ELSE 0),
              !.reservedMicro = Minus(@, h.micro)]

WithCall(k) == [k EXCEPT !.calls = @ + 1]

WithCost(k, cost) ==
    IF cost = None
    THEN [k EXCEPT !.unknownCostCalls = @ + 1]
    ELSE [k EXCEPT !.costMicro = @ + cost]

-----------------------------------------------------------------------------
(* One transaction: mutate one bucket, then prune *)

\* What touch() does to the order of updatedAt stamps.  Two transactions are
\* taken to have different stamps.
Touched(b) ==
    [x \in Buckets |-> IF x = b THEN {}
                       ELSE IF x \in present THEN newer[x] \cup {b} ELSE {}]

\* The buckets pruneLedger deletes: all but the MaxBuckets most recent.
Pruned(kept, order) == {x \in kept : Cardinality(order[x]) >= MaxBuckets}

\* History variables lose the consultations of deleted buckets.
Keep(S, gone) == {c \in S : BucketOf[c] \notin gone}

\* Store counter k in bucket b, with the given stamps and history, and prune.
Transact(b, k, order, takes, charges, lates) ==
    LET kept == present \cup {b}
        gone == Pruned(kept, order)
    IN  /\ ledger' = [x \in Buckets |-> IF x \in gone THEN EmptyCounter
                                        ELSE IF x = b THEN k ELSE ledger[x]]
        /\ present' = kept \ gone
        /\ newer' = [x \in Buckets |-> IF x \in gone THEN {} ELSE order[x] \ gone]
        /\ taken' = Keep(takes, gone)
        /\ charged' = Keep(charges, gone)
        /\ late' = Keep(lates, gone)

\* Delete the buckets in `gone`, whatever they hold.
Delete(gone) ==
    /\ ledger' = [x \in Buckets |-> IF x \in gone THEN EmptyCounter ELSE ledger[x]]
    /\ present' = present \ gone
    /\ newer' = [x \in Buckets |-> IF x \in gone THEN {} ELSE newer[x] \ gone]
    /\ taken' = Keep(taken, gone)
    /\ charged' = Keep(charged, gone)
    /\ late' = Keep(late, gone)

\* A handle outlived the bucket it was taken from when it is no longer in taken.
LateWith(c) == IF handle[c].call /\ c \notin taken THEN late \cup {c} ELSE late

-----------------------------------------------------------------------------
(* Consultations *)

NoHandle == [call |-> FALSE, micro |-> 0, estimate |-> None]

Status == {"idle", "asking", "calling", "refused", "declined", "settled", "released", "lost"}

Init ==
    /\ plan \in Plans
    /\ ledger = [b \in Buckets |-> EmptyCounter]
    /\ present = {}
    /\ newer = [b \in Buckets |-> {}]
    /\ status = [c \in Consults |-> "idle"]
    /\ handle = [c \in Consults |-> NoHandle]
    /\ paid = [c \in Consults |-> None]
    /\ taken = {}
    /\ charged = {}
    /\ late = {}

\* The reservation is granted: a slot, and cash when there is a cash ceiling.
\* With the budget disabled the slot is counted and nothing is refused.
ReserveGranted(c, estimate) ==
    LET b == BucketOf[c] IN
    /\ status[c] = "idle"
    /\ ~plan.enabled \/ ~Refuses(ledger[b], estimate)
    /\ status' = [status EXCEPT ![c] = "calling"]
    /\ handle' = [handle EXCEPT ![c] =
                    [call |-> TRUE, micro |-> ReservedMicroOf(estimate), estimate |-> estimate]]
    /\ Transact(b, WithReservation(ledger[b], estimate), Touched(b), taken \cup {c}, charged, late)
    /\ UNCHANGED <<plan, paid>>

\* The reservation is refused.  With limit mode "confirm" the user is asked.
\* The transaction still creates and persists the bucket, but touches it only
\* when it is new.
ReserveRefused(c, estimate) ==
    LET b == BucketOf[c] IN
    /\ status[c] = "idle"
    /\ plan.enabled
    /\ Refuses(ledger[b], estimate)
    /\ status' = [status EXCEPT ![c] = IF plan.confirm THEN "asking" ELSE "refused"]
    /\ handle' = [handle EXCEPT ![c].estimate = estimate]
    /\ Transact(b, ledger[b], IF b \in present THEN newer ELSE Touched(b), taken, charged, late)
    /\ UNCHANGED <<plan, paid>>

\* The user approves one consultation past the ceiling.  The provider is called
\* with a stand-alone reservation that holds neither a slot nor cash.
Approve(c) ==
    /\ status[c] = "asking"
    /\ status' = [status EXCEPT ![c] = "calling"]
    /\ UNCHANGED <<plan, ledgerVars, handle, paid, history>>

\* The user declines, no answer path exists, or asking fails.
Decline(c) ==
    /\ status[c] = "asking"
    /\ status' = [status EXCEPT ![c] = "declined"]
    /\ UNCHANGED <<plan, ledgerVars, handle, paid, history>>

\* Mutant: a call that was settled can be settled once more, as when the catch of
\* consultWithBudget ran after a settle that had succeeded.
MutantSettle(c, cost) ==
    /\ status[c] \in {"calling", "settled"}
    /\ status' = [status EXCEPT ![c] = "settled"]
    /\ paid' = [paid EXCEPT ![c] = cost]
    /\ Transact(BucketOf[c],
                WithCost(WithCall(WithoutReservation(ledger[BucketOf[c]], handle[c])), cost),
                Touched(BucketOf[c]), taken, charged \cup {c}, LateWith(c))
    /\ UNCHANGED <<plan, handle>>

\* The provider answered or failed, and the call is settled.  The cost is known
\* only when usage arrived and the model is priced, or nothing was consumed.
Settle(c, cost) ==
    LET b == BucketOf[c]
        freed == WithoutReservation(ledger[b], handle[c])
    IN  /\ status[c] = "calling"
        /\ cost \notin {None, 0} => handle[c].estimate # None
        /\ status' = [status EXCEPT ![c] = "settled"]
        /\ paid' = [paid EXCEPT ![c] = cost]
        /\ Transact(b, WithCost(WithCall(freed), cost), Touched(b),
                    taken, charged \cup {c}, LateWith(c))
        /\ UNCHANGED <<plan, handle>>

\* AdvisorStore.abandon: give the reservation back.
Release(c) ==
    LET b == BucketOf[c] IN
    /\ status[c] = "calling"
    /\ status' = [status EXCEPT ![c] = "released"]
    /\ Transact(b, WithoutReservation(ledger[b], handle[c]), Touched(b),
                taken \ {c}, charged, LateWith(c))
    /\ UNCHANGED <<plan, handle, paid>>

\* abandon with countAsCall: the call counts, but neither a cost nor an unknown
\* cost is recorded for it.
ReleaseAsCall(c) ==
    LET b == BucketOf[c] IN
    /\ status[c] = "calling"
    /\ status' = [status EXCEPT ![c] = "settled"]
    /\ paid' = [paid EXCEPT ![c] = 0]
    /\ Transact(b, WithCall(WithoutReservation(ledger[b], handle[c])), Touched(b),
                taken, charged \cup {c}, LateWith(c))
    /\ UNCHANGED <<plan, handle>>

\* /advisor reset-budget and the page's Reset button.  This transaction prunes too.
Reset(b) ==
    /\ Delete({b} \cup Pruned(present \ {b}, [x \in Buckets |-> newer[x] \ {b}]))
    /\ UNCHANGED <<plan, status, handle, paid>>

ResetAll ==
    /\ present # {}
    /\ Delete(present)
    /\ UNCHANGED <<plan, status, handle, paid>>

\* summary() and history() create a missing bucket in memory.
Look(b) ==
    /\ b \notin present
    /\ present' = present \cup {b}
    /\ newer' = Touched(b)
    /\ UNCHANGED <<plan, ledger, status, handle, paid, history>>

\* The process dies.  Committed counters are durable, the consultations in
\* progress are gone, and so may be buckets that were only looked at.
Crash ==
    /\ \E c \in Consults : status[c] \in {"calling", "asking"}
    /\ status' = [c \in Consults |->
                    IF status[c] \in {"calling", "asking"} THEN "lost" ELSE status[c]]
    /\ \E unsaved \in SUBSET {b \in present : ledger[b] = EmptyCounter} :
          /\ present' = present \ unsaved
          /\ newer' = [x \in Buckets |-> IF x \in unsaved THEN {} ELSE newer[x] \ unsaved]
    /\ UNCHANGED <<plan, ledger, handle, paid, history>>

Next ==
    \/ \E c \in Consults :
          \/ \E estimate \in Estimates \cup {None} :
                ReserveGranted(c, estimate) \/ ReserveRefused(c, estimate)
          \/ Approve(c)
          \/ Decline(c)
          \/ \E cost \in Costs \cup {None} : Settle(c, cost)
          \/ Release(c)
          \/ ReleaseAsCall(c)
    \/ \E b \in Buckets : Reset(b) \/ Look(b)
    \/ ResetAll
    \/ Crash

Spec == Init /\ [][Next]_vars
-----------------------------------------------------------------------------
(* Properties *)

\* Every variable stays in its type; a bucket the document does not hold has no
\* counters and no place in the order of updates.
TypeOK ==
    /\ plan \in Plans
    /\ ledger \in [Buckets -> Counter]
    /\ present \subseteq Buckets
    /\ newer \in [Buckets -> SUBSET Buckets]
    /\ status \in [Consults -> Status]
    /\ handle \in [Consults -> [call: BOOLEAN, micro: Nat, estimate: Estimates \cup {None}]]
    /\ paid \in [Consults -> Nat \cup {None}]
    /\ taken \subseteq Consults
    /\ charged \subseteq Consults
    /\ late \subseteq Consults
    /\ \A b \in Buckets : b \notin present => ledger[b] = EmptyCounter

In(S, b) == {c \in S : BucketOf[c] = b}

\* Consultations whose reservation is still held: running, or lost in a crash.
Holders(b) == In(taken \ charged, b)

Charged(b) == In(charged, b)

Micros == [c \in Consults |-> handle[c].micro]
MicroHeld(b) == TotalOf(Holders(b), Micros)

Bills == [c \in Consults |-> IF paid[c] = None THEN 0 ELSE paid[c]]
Spent(b) == TotalOf(Charged(b), Bills)

\* A handle taken before its bucket was reset or pruned was used on the new one.
Disturbed(b) == In(late, b) # {}

\* The parts of the two accounting invariants below that are about calls and slots,
\* and those that are about cash.
CallsAreExact == \A b \in Buckets : ledger[b].calls = Cardinality(Charged(b))

SpendIsExact == \A b \in Buckets : ledger[b].costMicro = Spent(b)

SlotsAreHeld ==
    \A b \in Buckets :
        /\ ledger[b].reservedCalls <= Cardinality(Holders(b))
        /\ ~Disturbed(b) => ledger[b].reservedCalls = Cardinality(Holders(b))

CashIsHeld ==
    \A b \in Buckets :
        /\ ledger[b].reservedMicro <= MicroHeld(b)
        /\ ~Disturbed(b) => ledger[b].reservedMicro = MicroHeld(b)

\* No call is counted twice or dropped: through resets, pruning, crashes and
\* handles that outlive their bucket, `calls` and `costMicro` of every bucket
\* (settle, release, reset, pruneLedger) are exactly the calls and the spend of
\* the consultations settled into it since it last came into being.
ChargesAreExact == CallsAreExact /\ SpendIsExact

\* `reservedCalls` and `reservedMicro` are what the consultations still holding a
\* reservation took, including those a crash left behind; once a handle of a
\* deleted bucket has been settled or released they can only be too small.
ReservationsAreHeld == SlotsAreHeld /\ CashIsHeld

\* Such a handle was given back there without counting a call (abandon).
Abandoned(b) == \E c \in In(late, b) : status[c] = "released"

\* The consultation ceiling (reserve, evaluateBudget): at most maxCalls
\* consultations ever hold or have used a slot of one bucket, apart from those
\* the user approved.  A reset or pruning under a running call does not break
\* this; only abandoning a handle of the deleted bucket could.
CallCeiling ==
    CallLimited =>
        \A b \in Buckets :
            ~Abandoned(b) => Cardinality(In(taken, b)) <= plan.maxCalls

\* What a settled call cost beyond the cash reserved for it.
Overshoot(c) == IF paid[c] = None THEN 0 ELSE Minus(paid[c], handle[c].micro)

Overshoots == [c \in Consults |-> Overshoot(c)]
Overrun(b) == TotalOf(Charged(b), Overshoots)

\* The cash ceiling (reserve, settle): spend plus reservations pass the ceiling
\* only by what calls cost beyond their estimates, approved overruns included.
CashCeiling ==
    CostLimited =>
        \A b \in Buckets :
            ~Disturbed(b) =>
                CommittedMicro(ledger[b]) <=
                    plan.maxMicro + Overrun(b)

\* A consultation is turned away only for a reason its own bucket has: enough
\* real calls, enough real spend and held cash, or a really unpriced call.  No
\* leak or stale counter of the ledger ever refuses one (reserve).
RefusalsAreJustified ==
    [][\A c \in Consults :
          LET b == BucketOf[c] IN
          (status[c] = "idle" /\ status'[c] \in {"refused", "asking"}) =>
              \/ CallLimited /\ Cardinality(Charged(b)) + Cardinality(Holders(b)) >= plan.maxCalls
              \/ CostLimited /\ \/ Spent(b) + MicroHeld(b) >= plan.maxMicro
                                \/ Spent(b) + MicroHeld(b) + Requested(handle'[c].estimate)
                                      > plan.maxMicro
              \/ plan.stopOnUnknown /\ \E x \in Charged(b) : paid[x] = None]_vars

\* Running consultations of one bucket never hold more cash than the ceiling: two
\* of them cannot be promised the same remaining budget (reserve).
HeldCashFitsCeiling ==
    CostLimited => \A b \in Buckets : MicroHeld(b) <= plan.maxMicro
=============================================================================
