------------------------ MODULE BudgetLedger_proofs ------------------------
(***************************************************************************)
(* Proofs about BudgetLedger for every set of consultations, buckets,      *)
(* plans, estimates and costs: type correctness, the accounting of calls,  *)
(* slots and cash, both ceilings, and that every refusal is justified.     *)
(***************************************************************************)
EXTENDS BudgetLedger, Totals_proofs

-----------------------------------------------------------------------------
(* What the operators on counters return *)

LEMMA MinusType ==
    ASSUME NEW m \in Nat, NEW n \in Nat
    PROVE  /\ Minus(m, n) \in Nat
           /\ Minus(m, n) <= m
           /\ Minus(m, n) >= m - n
           /\ m >= n => Minus(m, n) = m - n
    BY DEF Minus

LEMMA RequestedType ==
    ASSUME NEW estimate \in Estimates \cup {None}
    PROVE  /\ Requested(estimate) \in Nat
           /\ ReservedMicroOf(estimate) \in Nat
    BY ConstantsAssumption DEF Requested, ReservedMicroOf

LEMMA EmptyCounterType == EmptyCounter \in Counter
    BY DEF EmptyCounter, Counter

\* A reservation takes one slot and leaves the calls alone.
LEMMA WithReservationEffect ==
    ASSUME NEW k \in Counter, NEW estimate \in Estimates \cup {None}
    PROVE  /\ WithReservation(k, estimate) \in Counter
           /\ WithReservation(k, estimate).calls = k.calls
           /\ WithReservation(k, estimate).reservedCalls = k.reservedCalls + 1
           /\ WithReservation(k, estimate).costMicro = k.costMicro
           /\ WithReservation(k, estimate).reservedMicro =
                 k.reservedMicro + ReservedMicroOf(estimate)
           /\ WithReservation(k, estimate).unknownCostCalls = k.unknownCostCalls
    <1>1. ReservedMicroOf(estimate) \in Nat
        BY RequestedType
    <1>2. /\ k.reservedCalls + 1 \in Nat
          /\ k.reservedMicro + ReservedMicroOf(estimate) \in Nat
        BY <1>1 DEF Counter
    <1> QED
        BY <1>2 DEF WithReservation, Counter

\* Giving a handle back frees its slot, when it took one and one is left.
LEMMA WithoutReservationEffect ==
    ASSUME NEW k \in Counter, NEW h, h.call \in BOOLEAN, h.micro \in Nat
    PROVE  /\ WithoutReservation(k, h) \in Counter
           /\ WithoutReservation(k, h).calls = k.calls
           /\ WithoutReservation(k, h).reservedCalls =
                 Minus(k.reservedCalls, IF h.call THEN 1 ELSE 0)
           /\ WithoutReservation(k, h).costMicro = k.costMicro
           /\ WithoutReservation(k, h).reservedMicro = Minus(k.reservedMicro, h.micro)
           /\ WithoutReservation(k, h).unknownCostCalls = k.unknownCostCalls
    <1>1. /\ Minus(k.reservedCalls, IF h.call THEN 1 ELSE 0) \in Nat
          /\ Minus(k.reservedMicro, h.micro) \in Nat
        BY MinusType DEF Counter
    <1> QED
        BY <1>1 DEF WithoutReservation, Counter

LEMMA WithCallEffect ==
    ASSUME NEW k \in Counter
    PROVE  /\ WithCall(k) \in Counter
           /\ WithCall(k).calls = k.calls + 1
           /\ WithCall(k).reservedCalls = k.reservedCalls
           /\ WithCall(k).costMicro = k.costMicro
           /\ WithCall(k).reservedMicro = k.reservedMicro
           /\ WithCall(k).unknownCostCalls = k.unknownCostCalls
    BY DEF WithCall, Counter

LEMMA WithCostEffect ==
    ASSUME NEW k \in Counter, NEW cost \in Costs \cup {None}
    PROVE  /\ WithCost(k, cost) \in Counter
           /\ WithCost(k, cost).calls = k.calls
           /\ WithCost(k, cost).reservedCalls = k.reservedCalls
           /\ WithCost(k, cost).costMicro = k.costMicro + (IF cost = None THEN 0 ELSE cost)
           /\ WithCost(k, cost).reservedMicro = k.reservedMicro
           /\ WithCost(k, cost).unknownCostCalls =
                 k.unknownCostCalls + (IF cost = None THEN 1 ELSE 0)
    BY ConstantsAssumption DEF WithCost, Counter

-----------------------------------------------------------------------------
(* What a transaction does to one bucket and to the consultations in it *)

\* What a transaction can disturb of TypeOK.
LedgerType ==
    /\ ledger \in [Buckets -> Counter]
    /\ present \subseteq Buckets
    /\ newer \in [Buckets -> SUBSET Buckets]
    /\ taken \subseteq Consults
    /\ charged \subseteq Consults
    /\ late \subseteq Consults
    /\ \A b \in Buckets : b \notin present => ledger[b] = EmptyCounter

\* Everything a transaction stores is in its type.
LEMMA TransactType ==
    ASSUME TypeOK,
           NEW b \in Buckets, NEW k \in Counter,
           NEW order \in [Buckets -> SUBSET Buckets],
           NEW takes \in SUBSET Consults, NEW charges \in SUBSET Consults,
           NEW lates \in SUBSET Consults,
           Transact(b, k, order, takes, charges, lates)
    PROVE  LedgerType'
    BY EmptyCounterType DEF TypeOK, LedgerType, Transact, Keep

LEMMA DeleteType ==
    ASSUME TypeOK, NEW gone, Delete(gone)
    PROVE  LedgerType'
    BY EmptyCounterType DEF TypeOK, LedgerType, Delete, Keep

LEMMA TouchedType ==
    ASSUME TypeOK, NEW b \in Buckets
    PROVE  Touched(b) \in [Buckets -> SUBSET Buckets]
    BY DEF TypeOK, Touched

\* Bucket x no longer exists, and no consultation is accounted to it.
Emptied(x) ==
    /\ ledger'[x] = EmptyCounter
    /\ In(taken', x) = {}
    /\ In(charged', x) = {}
    /\ In(taken' \ charged', x) = {}
    /\ In(late', x) = {}

\* After a deletion every bucket is gone or as it was, with exactly its own
\* consultations.
LEMMA DeleteEffect ==
    ASSUME NEW gone, Delete(gone), NEW x \in Buckets
    PROVE  \/ Emptied(x)
           \/ /\ ledger'[x] = ledger[x]
              /\ In(taken', x) = In(taken, x)
              /\ In(charged', x) = In(charged, x)
              /\ In(taken' \ charged', x) = In(taken \ charged, x)
              /\ In(late', x) = In(late, x)
    BY DEF Delete, Keep, In, Emptied
-----------------------------------------------------------------------------
(* Type correctness *)

LEMMA InitType == Init => TypeOK
    BY EmptyCounterType, ConstantsAssumption
    DEF Init, TypeOK, NoHandle, Status

\* A transaction on the bucket of a consultation, after touching it.
LEMMA TouchingTransactType ==
    ASSUME TypeOK, NEW c \in Consults, NEW k \in Counter,
           NEW takes \in SUBSET Consults, NEW charges \in SUBSET Consults,
           NEW lates \in SUBSET Consults,
           Transact(BucketOf[c], k, Touched(BucketOf[c]), takes, charges, lates)
    PROVE  LedgerType'
    <1>1. BucketOf[c] \in Buckets
        BY ConstantsAssumption
    <1>2. Touched(BucketOf[c]) \in [Buckets -> SUBSET Buckets]
        BY <1>1, TouchedType
    <1> QED
        BY <1>1, <1>2, TransactType

\* The counter of the bucket a running consultation is settled into.
LEMMA FreedType ==
    ASSUME TypeOK, NEW c \in Consults
    PROVE  /\ BucketOf[c] \in Buckets
           /\ ledger[BucketOf[c]] \in Counter
           /\ handle[c].call \in BOOLEAN
           /\ handle[c].micro \in Nat
           /\ WithoutReservation(ledger[BucketOf[c]], handle[c]) \in Counter
           /\ LateWith(c) \in SUBSET Consults
    <1>1. /\ BucketOf[c] \in Buckets
          /\ ledger[BucketOf[c]] \in Counter
          /\ handle[c].call \in BOOLEAN
          /\ handle[c].micro \in Nat
        BY ConstantsAssumption DEF TypeOK
    <1>2. LateWith(c) \in SUBSET Consults
        BY DEF TypeOK, LateWith
    <1> QED
        BY <1>1, <1>2, WithoutReservationEffect

LEMMA NextType == TypeOK /\ [Next]_vars => TypeOK'
    <1> SUFFICES ASSUME TypeOK, [Next]_vars
                 PROVE  TypeOK'
        OBVIOUS
    <1>0. /\ taken \in SUBSET Consults
          /\ charged \in SUBSET Consults
          /\ late \in SUBSET Consults
        BY DEF TypeOK
    <1>1. ASSUME NEW c \in Consults, NEW estimate \in Estimates \cup {None},
                 ReserveGranted(c, estimate)
          PROVE  TypeOK'
        <2>1. WithReservation(ledger[BucketOf[c]], estimate) \in Counter
            BY FreedType, WithReservationEffect
        <2>2. taken \cup {c} \in SUBSET Consults
            BY <1>0
        <2>3. LedgerType'
            BY <1>0, <1>1, <2>1, <2>2, TouchingTransactType DEF ReserveGranted
        <2>4. ReservedMicroOf(estimate) \in Nat
            BY RequestedType
        <2> QED
            BY <1>1, <2>3, <2>4 DEF ReserveGranted, LedgerType, TypeOK, Status
    <1>2. ASSUME NEW c \in Consults, NEW estimate \in Estimates \cup {None},
                 ReserveRefused(c, estimate)
          PROVE  TypeOK'
        <2> DEFINE order == IF BucketOf[c] \in present THEN newer ELSE Touched(BucketOf[c])
        <2>1. order \in [Buckets -> SUBSET Buckets]
            BY FreedType, TouchedType DEF TypeOK
        <2>2. Transact(BucketOf[c], ledger[BucketOf[c]], order, taken, charged, late)
            BY <1>2 DEF ReserveRefused
        <2> HIDE DEF order
        <2>3. LedgerType'
            BY <1>0, <2>1, <2>2, FreedType, TransactType
        <2> QED
            BY <1>2, <2>3 DEF ReserveRefused, LedgerType, TypeOK, Status
    <1>3. ASSUME NEW c \in Consults, Approve(c)
          PROVE  TypeOK'
        BY <1>3 DEF Approve, TypeOK, Status, ledgerVars, history
    <1>4. ASSUME NEW c \in Consults, Decline(c)
          PROVE  TypeOK'
        BY <1>4 DEF Decline, TypeOK, Status, ledgerVars, history
    <1>5. ASSUME NEW c \in Consults, NEW cost \in Costs \cup {None}, Settle(c, cost)
          PROVE  TypeOK'
        <2> DEFINE freed == WithoutReservation(ledger[BucketOf[c]], handle[c])
        <2>1. WithCost(WithCall(freed), cost) \in Counter
            BY FreedType, WithCallEffect, WithCostEffect
        <2>2. charged \cup {c} \in SUBSET Consults
            BY <1>0
        <2>3. LedgerType'
            BY <1>0, <1>5, <2>1, <2>2, FreedType, TouchingTransactType DEF Settle
        <2> QED
            BY <1>5, <2>3, ConstantsAssumption DEF Settle, LedgerType, TypeOK, Status
    <1>6. ASSUME NEW c \in Consults, Release(c)
          PROVE  TypeOK'
        <2>1. taken \ {c} \in SUBSET Consults
            BY <1>0
        <2>2. LedgerType'
            BY <1>0, <1>6, <2>1, FreedType, TouchingTransactType DEF Release
        <2> QED
            BY <1>6, <2>2 DEF Release, LedgerType, TypeOK, Status
    <1>7. ASSUME NEW c \in Consults, ReleaseAsCall(c)
          PROVE  TypeOK'
        <2>1. WithCall(WithoutReservation(ledger[BucketOf[c]], handle[c])) \in Counter
            BY FreedType, WithCallEffect
        <2>2. charged \cup {c} \in SUBSET Consults
            BY <1>0
        <2>3. LedgerType'
            BY <1>0, <1>7, <2>1, <2>2, FreedType, TouchingTransactType DEF ReleaseAsCall
        <2> QED
            BY <1>7, <2>3 DEF ReleaseAsCall, LedgerType, TypeOK, Status
    <1>8. ASSUME NEW b \in Buckets, Reset(b)
          PROVE  TypeOK'
        <2>1. LedgerType'
            BY <1>8, DeleteType DEF Reset
        <2> QED
            BY <1>8, <2>1 DEF Reset, LedgerType, TypeOK
    <1>9. ASSUME ResetAll
          PROVE  TypeOK'
        <2>1. LedgerType'
            BY <1>9, DeleteType DEF ResetAll
        <2> QED
            BY <1>9, <2>1 DEF ResetAll, LedgerType, TypeOK
    <1>10. ASSUME NEW b \in Buckets, Look(b)
           PROVE  TypeOK'
        BY <1>10, TouchedType DEF Look, TypeOK, history
    <1>11. ASSUME Crash
           PROVE  TypeOK'
        BY <1>11 DEF Crash, TypeOK, Status, history
    <1>12. ASSUME UNCHANGED vars
           PROVE  TypeOK'
        BY <1>12 DEF vars, TypeOK
    <1> QED
        BY <1>1, <1>2, <1>3, <1>4, <1>5, <1>6, <1>7, <1>8, <1>9, <1>10, <1>11, <1>12
        DEF Next

\* Every variable of the ledger stays in its type; counters never go below zero,
\* and a deleted bucket leaves nothing behind.
THEOREM TypeCorrect == Spec => []TypeOK
    BY InitType, NextType, PTL DEF Spec
-----------------------------------------------------------------------------
(* Counting the consultations of a bucket *)

LEMMA InType ==
    ASSUME NEW S \in SUBSET Consults, NEW b
    PROVE  /\ IsFiniteSet(In(S, b))
           /\ Cardinality(In(S, b)) \in Nat
    BY ConstantsAssumption, FS_Subset, FS_CardinalityType DEF In

\* A bucket gains one consultation, unless it had it.
LEMMA InAdd ==
    ASSUME NEW S \in SUBSET Consults, NEW c \in Consults
    PROVE  Cardinality(In(S \cup {c}, BucketOf[c])) =
              Cardinality(In(S, BucketOf[c])) + (IF c \in S THEN 0 ELSE 1)
    <1>1. In(S \cup {c}, BucketOf[c]) = In(S, BucketOf[c]) \cup {c}
        BY DEF In
    <1>2. c \in In(S, BucketOf[c]) <=> c \in S
        BY DEF In
    <1>3. /\ IsFiniteSet(In(S, BucketOf[c]))
          /\ Cardinality(In(S, BucketOf[c])) \in Nat
        BY InType
    <1>4. Cardinality(In(S, BucketOf[c]) \cup {c}) =
            IF c \in In(S, BucketOf[c])
            THEN Cardinality(In(S, BucketOf[c]))
            ELSE Cardinality(In(S, BucketOf[c]))+1
        BY <1>3, FS_AddElement
    <1> QED
        <2>1. CASE c \in S
            BY <1>1, <1>2, <1>3, <1>4, <2>1
        <2>2. CASE c \notin S
            BY <1>1, <1>2, <1>3, <1>4, <2>2
        <2> QED
            BY <2>1, <2>2

LEMMA InRemove ==
    ASSUME NEW S \in SUBSET Consults, NEW c \in Consults
    PROVE  Cardinality(In(S \ {c}, BucketOf[c])) =
              Cardinality(In(S, BucketOf[c])) - (IF c \in S THEN 1 ELSE 0)
    <1>1. In(S \ {c}, BucketOf[c]) = In(S, BucketOf[c]) \ {c}
        BY DEF In
    <1>2. c \in In(S, BucketOf[c]) <=> c \in S
        BY DEF In
    <1>3. /\ IsFiniteSet(In(S, BucketOf[c]))
          /\ Cardinality(In(S, BucketOf[c])) \in Nat
        BY InType
    <1>4. Cardinality(In(S, BucketOf[c]) \ {c}) =
            IF c \in In(S, BucketOf[c])
            THEN Cardinality(In(S, BucketOf[c]))-1
            ELSE Cardinality(In(S, BucketOf[c]))
        BY <1>3, FS_RemoveElement
    <1> QED
        <2>1. CASE c \in S
            BY <1>1, <1>2, <1>3, <1>4, <2>1
        <2>2. CASE c \notin S
            BY <1>1, <1>2, <1>3, <1>4, <2>2
        <2> QED
            BY <2>1, <2>2

-----------------------------------------------------------------------------
(* The inductive invariant of slots and calls *)

\* A slot was taken by a call that ran, and a call was counted when it settled.
SlotFacts ==
    \A c \in Consults :
        /\ c \in taken => handle[c].call /\ status[c] \in {"calling", "settled", "lost"}
        /\ c \in charged => status[c] = "settled"

\* The committed calls of a bucket cover every consultation that took a slot of it.
\* The ceiling itself is not inductive: admission compares the ceiling with the
\* committed calls and not with the consultations.
BucketInv(b) ==
    /\ ledger[b].calls = Cardinality(Charged(b))
    /\ ledger[b].reservedCalls <= Cardinality(Holders(b))
    /\ ~Disturbed(b) => ledger[b].reservedCalls = Cardinality(Holders(b))
    /\ ~Abandoned(b) => Cardinality(In(taken, b)) <= CommittedCalls(ledger[b])
    /\ CallLimited /\ ~Abandoned(b) => Cardinality(In(taken, b)) <= plan.maxCalls

SlotInv == TypeOK /\ SlotFacts /\ \A b \in Buckets : BucketInv(b)

\* A deleted bucket starts over.
LEMMA EmptiedKeeps ==
    ASSUME TypeOK, plan' = plan, NEW x \in Buckets, Emptied(x)
    PROVE  BucketInv(x)'
    <1>1. CallLimited => plan.maxCalls \in Nat
        BY ConstantsAssumption DEF TypeOK, CallLimited, Plan
    <1>2. /\ EmptyCounter.calls = 0
          /\ EmptyCounter.reservedCalls = 0
        BY DEF EmptyCounter
    <1> QED
        BY <1>1, <1>2, FS_EmptySet
        DEF Emptied, BucketInv, Charged, Holders, Disturbed, CommittedCalls, CallLimited

\* The counters and the consultations of bucket x stay, and what was given back
\* there stays given back.
LEMMA SameKeeps ==
    ASSUME plan' = plan, NEW x \in Buckets, BucketInv(x),
           ledger'[x] = ledger[x],
           In(taken', x) = In(taken, x),
           In(charged', x) = In(charged, x),
           In(taken' \ charged', x) = In(taken \ charged, x),
           In(late', x) = In(late, x),
           \A c \in In(late, x) : status[c] = "released" => status'[c] = "released"
    PROVE  BucketInv(x)'
    <1>1. Abandoned(x) => Abandoned(x)'
        BY DEF Abandoned
    <1>2. Disturbed(x)' = Disturbed(x)
        BY DEF Disturbed
    <1> QED
        BY <1>1, <1>2 DEF BucketInv, Charged, Holders, CommittedCalls, CallLimited

-----------------------------------------------------------------------------
(* One lemma per transaction of a consultation *)

\* A granted reservation takes a slot below the ceiling.
LEMMA ReserveGrantedKeeps ==
    ASSUME SlotInv, NEW c \in Consults, NEW estimate \in Estimates \cup {None},
           ReserveGranted(c, estimate), NEW x \in Buckets
    PROVE  BucketInv(x)'
    <1> DEFINE b == BucketOf[c]
               k == WithReservation(ledger[b], estimate)
    <1>1. /\ plan' = plan
          /\ status[c] = "idle"
          /\ c \notin taken /\ c \notin charged
          /\ b \in Buckets /\ ledger[b] \in Counter
          /\ TypeOK /\ BucketInv(x)
          /\ \A d \in Consults : status[d] = "released" => status'[d] = "released"
        BY FreedType DEF ReserveGranted, SlotInv, SlotFacts, TypeOK
    <1>2. /\ k.calls = ledger[b].calls
          /\ k.reservedCalls = ledger[b].reservedCalls + 1
        BY <1>1, WithReservationEffect
    <1>3. \/ Emptied(x)
          \/ /\ ledger'[x] = IF x = b THEN k ELSE ledger[x]
             /\ In(taken', x) = In(taken \cup {c}, x)
             /\ In(charged', x) = In(charged, x)
             /\ In(taken' \ charged', x) = In((taken \cup {c}) \ charged, x)
             /\ In(late', x) = In(late, x)
        <2>1. Transact(b, k, Touched(b), taken \cup {c}, charged, late)
            BY DEF ReserveGranted
        <2> QED
            BY <1>1, <2>1 DEF Transact, Keep, In, Emptied
    <1>4. CASE Emptied(x)
        BY <1>1, <1>4, EmptiedKeeps
    <1>5. CASE ~Emptied(x) /\ x # b
        <2>1. /\ In(taken \cup {c}, x) = In(taken, x)
              /\ In((taken \cup {c}) \ charged, x) = In(taken \ charged, x)
            BY <1>5 DEF In
        <2>2. \A d \in In(late, x) : status[d] = "released" => status'[d] = "released"
            BY <1>1 DEF In, TypeOK
        <2> QED
            BY <1>1, <1>3, <1>5, <2>1, <2>2, SameKeeps
    <1>6. CASE ~Emptied(x) /\ x = b
        <2>1. /\ Cardinality(In(taken, b)) \in Nat
              /\ Cardinality(In(taken \ charged, b)) \in Nat
              /\ Cardinality(In(taken \cup {c}, b)) = Cardinality(In(taken, b)) + 1
              /\ Cardinality(In((taken \cup {c}) \ charged, b)) =
                    Cardinality(In(taken \ charged, b)) + 1
            <3>1. (taken \cup {c}) \ charged = (taken \ charged) \cup {c}
                BY <1>1
            <3> QED
                BY <1>1, <3>1, InType, InAdd DEF TypeOK
        <2>2. /\ Abandoned(b) => Abandoned(b)'
              /\ Disturbed(b)' = Disturbed(b)
            BY <1>1, <1>3, <1>6 DEF Abandoned, Disturbed, In, TypeOK
        <2>3. CallLimited => CommittedCalls(ledger[b]) < plan.maxCalls
            <3>1. CallLimited => ~BlockedByCalls(ledger[b])
                BY DEF ReserveGranted, CallLimited, Refuses
            <3>2. CallLimited => plan.maxCalls \in Nat
                BY <1>1, ConstantsAssumption DEF TypeOK, CallLimited, Plan
            <3>3. CommittedCalls(ledger[b]) \in Nat
                BY <1>1 DEF CommittedCalls, Counter
            <3> QED
                BY <3>1, <3>2, <3>3 DEF BlockedByCalls
        <2>4. CallLimited => plan.maxCalls \in Nat
            BY <1>1, ConstantsAssumption DEF TypeOK, CallLimited, Plan
        <2>5. CallLimited' = CallLimited
            BY <1>1 DEF CallLimited
        <2>6. ledger[b].calls \in Nat /\ ledger[b].reservedCalls \in Nat
            BY <1>1 DEF Counter
        <2> QED
            BY <1>1, <1>2, <1>3, <1>6, <2>1, <2>2, <2>3, <2>4, <2>5, <2>6
            DEF BucketInv, Charged, Holders, CommittedCalls
    <1> QED
        BY <1>4, <1>5, <1>6
\* A refused reservation changes no counter.
LEMMA ReserveRefusedKeeps ==
    ASSUME SlotInv, NEW c \in Consults, NEW estimate \in Estimates \cup {None},
           ReserveRefused(c, estimate), NEW x \in Buckets
    PROVE  BucketInv(x)'
    <1> DEFINE b == BucketOf[c]
               order == IF b \in present THEN newer ELSE Touched(b)
    <1>1. /\ plan' = plan
          /\ b \in Buckets
          /\ TypeOK /\ BucketInv(x)
          /\ \A d \in Consults : status[d] = "released" => status'[d] = "released"
        BY FreedType DEF ReserveRefused, SlotInv, TypeOK
    <1>2. Transact(b, ledger[b], order, taken, charged, late)
        BY DEF ReserveRefused
    <1>3. \/ Emptied(x)
          \/ /\ ledger'[x] = ledger[x]
             /\ In(taken', x) = In(taken, x)
             /\ In(charged', x) = In(charged, x)
             /\ In(taken' \ charged', x) = In(taken \ charged, x)
             /\ In(late', x) = In(late, x)
        <2> HIDE DEF order
        <2> QED
            BY <1>1, <1>2 DEF Transact, Keep, In, Emptied
    <1>4. \A d \in In(late, x) : status[d] = "released" => status'[d] = "released"
        BY <1>1 DEF In, TypeOK
    <1> QED
        BY <1>1, <1>3, <1>4, EmptiedKeeps, SameKeeps

\* Settling frees the slot of a call, at most, and counts the call.
LEMMA ChargeKeeps ==
    ASSUME SlotInv, NEW c \in Consults, NEW k \in Counter,
           k.calls = WithoutReservation(ledger[BucketOf[c]], handle[c]).calls + 1,
           k.reservedCalls = WithoutReservation(ledger[BucketOf[c]], handle[c]).reservedCalls,
           plan' = plan,
           status[c] = "calling",
           status' = [status EXCEPT ![c] = "settled"],
           Transact(BucketOf[c], k, Touched(BucketOf[c]), taken, charged \cup {c}, LateWith(c)),
           NEW x \in Buckets
    PROVE  BucketInv(x)'
    <1> DEFINE b == BucketOf[c]
               r == ledger[b].reservedCalls
               held == Cardinality(In(taken \ charged, b))
    <1>1. /\ c \notin charged
          /\ c \in taken => handle[c].call
          /\ b \in Buckets /\ ledger[b] \in Counter
          /\ handle[c].call \in BOOLEAN /\ handle[c].micro \in Nat
          /\ TypeOK /\ BucketInv(x)
          /\ \A d \in Consults : status[d] = "released" => status'[d] = "released"
        BY FreedType DEF SlotInv, SlotFacts, TypeOK
    <1>2. /\ r \in Nat /\ ledger[b].calls \in Nat
          /\ k.calls = ledger[b].calls + 1
          /\ k.reservedCalls = Minus(r, IF handle[c].call THEN 1 ELSE 0)
        BY <1>1, WithoutReservationEffect DEF Counter
    <1>3. \/ Emptied(x)
          \/ /\ ledger'[x] = IF x = b THEN k ELSE ledger[x]
             /\ In(taken', x) = In(taken, x)
             /\ In(charged', x) = In(charged \cup {c}, x)
             /\ In(taken' \ charged', x) = In((taken \ charged) \ {c}, x)
             /\ In(late', x) = In(LateWith(c), x)
        BY <1>1 DEF Transact, Keep, In, Emptied
    <1>4. CASE Emptied(x)
        BY <1>1, <1>4, EmptiedKeeps
    <1>5. CASE ~Emptied(x) /\ x # b
        <2>1. /\ In(charged \cup {c}, x) = In(charged, x)
              /\ In((taken \ charged) \ {c}, x) = In(taken \ charged, x)
              /\ In(LateWith(c), x) = In(late, x)
            BY <1>5 DEF In, LateWith
        <2>2. \A d \in In(late, x) : status[d] = "released" => status'[d] = "released"
            BY <1>1 DEF In, TypeOK
        <2> QED
            BY <1>1, <1>3, <1>5, <2>1, <2>2, SameKeeps
    <1>6. CASE ~Emptied(x) /\ x = b
        <2>1. /\ Cardinality(In(taken, b)) \in Nat
              /\ held \in Nat
              /\ Cardinality(In((taken \ charged) \ {c}, b)) \in Nat
              /\ Cardinality(In(charged \cup {c}, b)) = Cardinality(In(charged, b)) + 1
              /\ c \in taken => Cardinality(In((taken \ charged) \ {c}, b)) = held - 1
              /\ c \notin taken => Cardinality(In((taken \ charged) \ {c}, b)) = held
            <3>1. /\ taken \in SUBSET Consults
                  /\ charged \in SUBSET Consults
                  /\ taken \ charged \in SUBSET Consults
                  /\ (taken \ charged) \ {c} \in SUBSET Consults
                BY <1>1 DEF TypeOK
            <3>2. /\ Cardinality(In(taken, b)) \in Nat
                  /\ held \in Nat
                  /\ Cardinality(In((taken \ charged) \ {c}, b)) \in Nat
                BY <3>1, InType
            <3>3. Cardinality(In(charged \cup {c}, b)) = Cardinality(In(charged, b)) + 1
                BY <1>1, <3>1, InAdd
            <3>4. Cardinality(In((taken \ charged) \ {c}, b)) =
                    held - (IF c \in taken \ charged THEN 1 ELSE 0)
                BY <3>1, InRemove
            <3>5. c \in taken \ charged <=> c \in taken
                BY <1>1
            <3> QED
                BY <3>2, <3>3, <3>4, <3>5
        <2>2. /\ Abandoned(b) => Abandoned(b)'
              /\ Disturbed(b) => Disturbed(b)'
              /\ c \notin taken /\ handle[c].call => Disturbed(b)'
            BY <1>1, <1>3, <1>6 DEF Abandoned, Disturbed, In, TypeOK, LateWith
        <2>3. CallLimited' = CallLimited
            BY <1>1 DEF CallLimited
        <2>4. BucketInv(b)
            BY <1>1, <1>6
        <2>5. CASE c \in taken
            <3>1. k.reservedCalls = Minus(r, 1)
                BY <1>1, <1>2, <2>5
            <3> QED
                BY <1>1, <1>2, <1>3, <1>6, <2>1, <2>2, <2>3, <2>4, <2>5, <3>1
                DEF BucketInv, Charged, Holders, CommittedCalls, Minus
        <2>6. CASE c \notin taken /\ handle[c].call
            <3>1. k.reservedCalls = Minus(r, 1)
                BY <1>2, <2>6
            <3> QED
                BY <1>1, <1>2, <1>3, <1>6, <2>1, <2>2, <2>3, <2>4, <2>6, <3>1
                DEF BucketInv, Charged, Holders, CommittedCalls, Minus
        <2>7. CASE c \notin taken /\ ~handle[c].call
            <3>1. k.reservedCalls = r
                BY <1>2, <2>7 DEF Minus
            <3> QED
                BY <1>1, <1>2, <1>3, <1>6, <2>1, <2>2, <2>3, <2>4, <2>7, <3>1
                DEF BucketInv, Charged, Holders, CommittedCalls
        <2> QED
            BY <1>1, <2>5, <2>6, <2>7
    <1> QED
        BY <1>4, <1>5, <1>6
LEMMA SettleKeeps ==
    ASSUME SlotInv, NEW c \in Consults, NEW cost \in Costs \cup {None}, Settle(c, cost),
           NEW x \in Buckets
    PROVE  BucketInv(x)'
    <1> DEFINE freed == WithoutReservation(ledger[BucketOf[c]], handle[c])
               k == WithCost(WithCall(freed), cost)
    <1>1. freed \in Counter
        BY FreedType DEF SlotInv
    <1>2. /\ k \in Counter
          /\ k.calls = freed.calls + 1
          /\ k.reservedCalls = freed.reservedCalls
        <2> HIDE DEF freed
        <2> QED
            BY <1>1, WithCallEffect, WithCostEffect
    <1>3. /\ plan' = plan
          /\ status[c] = "calling"
          /\ status' = [status EXCEPT ![c] = "settled"]
          /\ Transact(BucketOf[c], k, Touched(BucketOf[c]),
                      taken, charged \cup {c}, LateWith(c))
        BY DEF Settle
    <1> HIDE DEF k
    <1> QED
        BY <1>2, <1>3, ChargeKeeps

LEMMA ReleaseAsCallKeeps ==
    ASSUME SlotInv, NEW c \in Consults, ReleaseAsCall(c), NEW x \in Buckets
    PROVE  BucketInv(x)'
    <1> DEFINE freed == WithoutReservation(ledger[BucketOf[c]], handle[c])
               k == WithCall(freed)
    <1>1. freed \in Counter
        BY FreedType DEF SlotInv
    <1>2. /\ k \in Counter
          /\ k.calls = freed.calls + 1
          /\ k.reservedCalls = freed.reservedCalls
        <2> HIDE DEF freed
        <2> QED
            BY <1>1, WithCallEffect
    <1>3. /\ plan' = plan
          /\ status[c] = "calling"
          /\ status' = [status EXCEPT ![c] = "settled"]
          /\ Transact(BucketOf[c], k, Touched(BucketOf[c]),
                      taken, charged \cup {c}, LateWith(c))
        BY DEF ReleaseAsCall
    <1> HIDE DEF k
    <1> QED
        BY <1>2, <1>3, ChargeKeeps

\* A release gives back the slot it took; used on a successor of its bucket it
\* takes a slot from someone else, and the bucket is marked by it.
LEMMA ReleaseKeeps ==
    ASSUME SlotInv, NEW c \in Consults, Release(c), NEW x \in Buckets
    PROVE  BucketInv(x)'
    <1> DEFINE b == BucketOf[c]
               k == WithoutReservation(ledger[b], handle[c])
               r == ledger[b].reservedCalls
               held == Cardinality(In(taken \ charged, b))
    <1>1. /\ c \notin charged
          /\ c \in taken => handle[c].call
          /\ b \in Buckets /\ ledger[b] \in Counter
          /\ handle[c].call \in BOOLEAN /\ handle[c].micro \in Nat
          /\ TypeOK /\ BucketInv(x)
          /\ plan' = plan
          /\ status' = [status EXCEPT ![c] = "released"]
          /\ \A d \in Consults : status[d] = "released" => status'[d] = "released"
        BY FreedType DEF SlotInv, SlotFacts, TypeOK, Release
    <1>2. /\ r \in Nat /\ ledger[b].calls \in Nat
          /\ k.calls = ledger[b].calls
          /\ k.reservedCalls = Minus(r, IF handle[c].call THEN 1 ELSE 0)
        BY <1>1, WithoutReservationEffect DEF Counter
    <1>3. \/ Emptied(x)
          \/ /\ ledger'[x] = IF x = b THEN k ELSE ledger[x]
             /\ In(taken', x) = In(taken \ {c}, x)
             /\ In(charged', x) = In(charged, x)
             /\ In(taken' \ charged', x) = In((taken \ charged) \ {c}, x)
             /\ In(late', x) = In(LateWith(c), x)
        <2>1. Transact(b, k, Touched(b), taken \ {c}, charged, LateWith(c))
            BY DEF Release
        <2> QED
            BY <1>1, <2>1 DEF Transact, Keep, In, Emptied
    <1>4. CASE Emptied(x)
        BY <1>1, <1>4, EmptiedKeeps
    <1>5. CASE ~Emptied(x) /\ x # b
        <2>1. /\ In(taken \ {c}, x) = In(taken, x)
              /\ In((taken \ charged) \ {c}, x) = In(taken \ charged, x)
              /\ In(LateWith(c), x) = In(late, x)
            BY <1>5 DEF In, LateWith
        <2>2. \A d \in In(late, x) : status[d] = "released" => status'[d] = "released"
            BY <1>1 DEF In, TypeOK
        <2> QED
            BY <1>1, <1>3, <1>5, <2>1, <2>2, SameKeeps
    <1>6. CASE ~Emptied(x) /\ x = b
        <2>1. /\ Cardinality(In(taken, b)) \in Nat
              /\ held \in Nat
              /\ Cardinality(In((taken \ charged) \ {c}, b)) \in Nat
              /\ Cardinality(In(charged, b)) \in Nat
              /\ c \in taken => /\ Cardinality(In((taken \ charged) \ {c}, b)) = held - 1
                               /\ Cardinality(In(taken \ {c}, b)) = Cardinality(In(taken, b)) - 1
              /\ c \notin taken => /\ Cardinality(In((taken \ charged) \ {c}, b)) = held
                                  /\ Cardinality(In(taken \ {c}, b)) = Cardinality(In(taken, b))
            <3>1. /\ taken \in SUBSET Consults
                  /\ charged \in SUBSET Consults
                  /\ taken \ charged \in SUBSET Consults
                  /\ (taken \ charged) \ {c} \in SUBSET Consults
                BY <1>1 DEF TypeOK
            <3>2. /\ Cardinality(In(taken, b)) \in Nat
                  /\ held \in Nat
                  /\ Cardinality(In((taken \ charged) \ {c}, b)) \in Nat
                  /\ Cardinality(In(charged, b)) \in Nat
                BY <3>1, InType
            <3>3. Cardinality(In(taken \ {c}, b)) =
                    Cardinality(In(taken, b)) - (IF c \in taken THEN 1 ELSE 0)
                BY <3>1, InRemove
            <3>4. Cardinality(In((taken \ charged) \ {c}, b)) =
                    held - (IF c \in taken \ charged THEN 1 ELSE 0)
                BY <3>1, InRemove
            <3>5. c \in taken \ charged <=> c \in taken
                BY <1>1
            <3> QED
                BY <3>2, <3>3, <3>4, <3>5
        <2>2. /\ Abandoned(b) => Abandoned(b)'
              /\ Disturbed(b) => Disturbed(b)'
              /\ c \notin taken /\ handle[c].call => Disturbed(b)' /\ Abandoned(b)'
            BY <1>1, <1>3, <1>6 DEF Abandoned, Disturbed, In, TypeOK, LateWith
        <2>3. CallLimited' = CallLimited
            BY <1>1 DEF CallLimited
        <2>4. BucketInv(b)
            BY <1>1, <1>6
        <2>5. CallLimited => plan.maxCalls \in Nat
            BY <1>1, ConstantsAssumption DEF TypeOK, CallLimited, Plan
        <2>6. CASE c \in taken
            <3>1. k.reservedCalls = Minus(r, 1)
                BY <1>1, <1>2, <2>6
            <3> QED
                BY <1>1, <1>2, <1>3, <1>6, <2>1, <2>2, <2>3, <2>4, <2>5, <2>6, <3>1
                DEF BucketInv, Charged, Holders, CommittedCalls, Minus
        <2>7. CASE c \notin taken /\ handle[c].call
            <3>1. k.reservedCalls = Minus(r, 1)
                BY <1>2, <2>7
            <3> QED
                BY <1>1, <1>2, <1>3, <1>6, <2>1, <2>2, <2>3, <2>4, <2>7, <3>1
                DEF BucketInv, Charged, Holders, CommittedCalls, Minus
        <2>8. CASE c \notin taken /\ ~handle[c].call
            <3>1. k.reservedCalls = r
                BY <1>2, <2>8 DEF Minus
            <3> QED
                BY <1>1, <1>2, <1>3, <1>6, <2>1, <2>2, <2>3, <2>4, <2>8, <3>1
                DEF BucketInv, Charged, Holders, CommittedCalls
        <2> QED
            BY <1>1, <2>6, <2>7, <2>8
    <1> QED
        BY <1>4, <1>5, <1>6
-----------------------------------------------------------------------------
(* The theorems about slots and calls *)

LEMMA InitSlots == Init => SlotInv
    <1> SUFFICES ASSUME Init PROVE SlotInv
        OBVIOUS
    <1>1. TypeOK
        BY InitType
    <1>2. SlotFacts
        BY DEF Init, SlotFacts
    <1>3. ASSUME NEW b \in Buckets PROVE BucketInv(b)
        <2>1. /\ In(taken, b) = {} /\ In(charged, b) = {}
              /\ In(taken \ charged, b) = {} /\ In(late, b) = {}
            BY DEF Init, In
        <2>2. CallLimited => plan.maxCalls \in Nat
            BY <1>1, ConstantsAssumption DEF TypeOK, CallLimited, Plan
        <2>3. /\ ledger[b].calls = 0
              /\ ledger[b].reservedCalls = 0
            BY DEF Init, EmptyCounter
        <2> QED
            BY <2>1, <2>2, <2>3, FS_EmptySet
            DEF BucketInv, Charged, Holders, Disturbed, CommittedCalls
    <1> QED
        BY <1>1, <1>2, <1>3 DEF SlotInv

\* Only a granted reservation takes a slot, and only settling counts a call.
LEMMA NextSlotFacts == SlotInv /\ [Next]_vars => SlotFacts'
    <1> SUFFICES ASSUME SlotInv, [Next]_vars PROVE SlotFacts'
        OBVIOUS
    <1> USE DEF SlotInv, SlotFacts, TypeOK
    <1>1. ASSUME NEW c \in Consults, NEW estimate \in Estimates \cup {None},
                 ReserveGranted(c, estimate)
          PROVE  SlotFacts'
        BY <1>1 DEF ReserveGranted, Transact, Keep
    <1>2. ASSUME NEW c \in Consults, NEW estimate \in Estimates \cup {None},
                 ReserveRefused(c, estimate)
          PROVE  SlotFacts'
        BY <1>2 DEF ReserveRefused, Transact, Keep
    <1>3. ASSUME NEW c \in Consults, Approve(c) \/ Decline(c)
          PROVE  SlotFacts'
        BY <1>3 DEF Approve, Decline, history
    <1>4. ASSUME NEW c \in Consults, NEW cost \in Costs \cup {None}, Settle(c, cost)
          PROVE  SlotFacts'
        BY <1>4 DEF Settle, Transact, Keep
    <1>5. ASSUME NEW c \in Consults, Release(c)
          PROVE  SlotFacts'
        BY <1>5 DEF Release, Transact, Keep
    <1>6. ASSUME NEW c \in Consults, ReleaseAsCall(c)
          PROVE  SlotFacts'
        BY <1>6 DEF ReleaseAsCall, Transact, Keep
    <1>7. ASSUME NEW b \in Buckets, Reset(b) \/ Look(b)
          PROVE  SlotFacts'
        BY <1>7 DEF Reset, Delete, Keep, Look, history
    <1>8. ASSUME ResetAll \/ Crash
          PROVE  SlotFacts'
        BY <1>8 DEF ResetAll, Delete, Keep, Crash, history
    <1>9. ASSUME UNCHANGED vars
          PROVE  SlotFacts'
        BY <1>9 DEF vars
    <1> QED
        BY <1>1, <1>2, <1>3, <1>4, <1>5, <1>6, <1>7, <1>8, <1>9 DEF Next

\* A step that leaves the ledger and its consultations alone.
LEMMA QuietKeeps ==
    ASSUME TypeOK, plan' = plan, UNCHANGED <<ledger, history>>, NEW x \in Buckets, BucketInv(x),
           \A c \in Consults : status[c] = "released" => status'[c] = "released"
    PROVE  BucketInv(x)'
    <1>0. ledger' = ledger /\ taken' = taken /\ charged' = charged /\ late' = late
        BY DEF history
    <1>1. /\ ledger'[x] = ledger[x]
          /\ In(taken', x) = In(taken, x)
          /\ In(charged', x) = In(charged, x)
          /\ In(taken' \ charged', x) = In(taken \ charged, x)
          /\ In(late', x) = In(late, x)
        BY <1>0
    <1>2. \A c \in In(late, x) : status[c] = "released" => status'[c] = "released"
        BY DEF In, TypeOK
    <1> QED
        BY <1>1, <1>2, SameKeeps

LEMMA NextBuckets ==
    ASSUME SlotInv, [Next]_vars, NEW x \in Buckets
    PROVE  BucketInv(x)'
    <1>0. TypeOK /\ BucketInv(x)
        BY DEF SlotInv
    <1>1. ASSUME NEW c \in Consults, Approve(c) \/ Decline(c) PROVE BucketInv(x)'
        <2>1. /\ plan' = plan
              /\ UNCHANGED <<ledger, history>>
              /\ \A d \in Consults : status[d] = "released" => status'[d] = "released"
            BY <1>0, <1>1 DEF Approve, Decline, ledgerVars, TypeOK
        <2> QED
            BY <1>0, <2>1, QuietKeeps
    <1>2. ASSUME NEW b \in Buckets, Reset(b) PROVE BucketInv(x)'
        <2> DEFINE gone == {b} \cup Pruned(present \ {b}, [y \in Buckets |-> newer[y] \ {b}])
        <2>1. Delete(gone) /\ plan' = plan /\ status' = status
            BY <1>2 DEF Reset
        <2> HIDE DEF gone
        <2> QED
            BY <1>0, <2>1, DeleteEffect, EmptiedKeeps, SameKeeps
    <1>3. ASSUME ResetAll PROVE BucketInv(x)'
        <2>1. Delete(present) /\ plan' = plan /\ status' = status
            BY <1>3 DEF ResetAll
        <2> QED
            BY <1>0, <2>1, DeleteEffect, EmptiedKeeps, SameKeeps
    <1>4. ASSUME NEW b \in Buckets, Look(b) PROVE BucketInv(x)'
        BY <1>0, <1>4, QuietKeeps DEF Look
    <1>5. ASSUME Crash PROVE BucketInv(x)'
        <2>1. /\ plan' = plan
              /\ UNCHANGED <<ledger, history>>
              /\ \A d \in Consults : status[d] = "released" => status'[d] = "released"
            BY <1>0, <1>5 DEF Crash, TypeOK
        <2> QED
            BY <1>0, <2>1, QuietKeeps
    <1>6. ASSUME UNCHANGED vars PROVE BucketInv(x)'
        BY <1>0, <1>6, QuietKeeps DEF vars, history
    <1> QED
        BY <1>1, <1>2, <1>3, <1>4, <1>5, <1>6, ReserveGrantedKeeps, ReserveRefusedKeeps,
           SettleKeeps, ReleaseKeeps, ReleaseAsCallKeeps
        DEF Next

\* The slot invariant holds in every reachable state.
THEOREM SlotsCorrect == Spec => []SlotInv
    <1>1. SlotInv /\ [Next]_vars => SlotInv'
        BY NextType, NextSlotFacts, NextBuckets DEF SlotInv
    <1> QED
        BY InitSlots, <1>1, PTL DEF Spec

\* At most maxCalls consultations ever take a slot of one bucket, apart from those
\* the user approved (reserve), whatever is reset, pruned or crashes meanwhile.
THEOREM CallCeilingHolds == Spec => []CallCeiling
    <1>1. SlotInv => CallCeiling
        BY DEF SlotInv, BucketInv, CallCeiling
    <1> QED
        BY SlotsCorrect, <1>1, PTL

\* `calls` counts every consultation settled into the bucket exactly once (settle,
\* release with countAsCall).
THEOREM CallsCounted == Spec => []CallsAreExact
    <1>1. SlotInv => CallsAreExact
        BY DEF SlotInv, BucketInv, CallsAreExact
    <1> QED
        BY SlotsCorrect, <1>1, PTL

\* `reservedCalls` is the number of consultations that hold a slot, and can only be
\* too small once a handle of a deleted bucket was used (release, settle).
THEOREM SlotsHeld == Spec => []SlotsAreHeld
    <1>1. SlotInv => SlotsAreHeld
        BY DEF SlotInv, BucketInv, SlotsAreHeld
    <1> QED
        BY SlotsCorrect, <1>1, PTL

\* The call ceiling blocks a bucket only when that many consultations really
\* settled in it or hold a slot of it (evaluateBudget).
CallBlocksAreReal ==
    \A b \in Buckets :
        BlockedByCalls(ledger[b]) =>
            Cardinality(Charged(b)) + Cardinality(Holders(b)) >= plan.maxCalls

THEOREM CallBlocksJustified == Spec => []CallBlocksAreReal
    <1>1. SlotInv => CallBlocksAreReal
        <2> SUFFICES ASSUME SlotInv, NEW b \in Buckets, BlockedByCalls(ledger[b])
                     PROVE  Cardinality(Charged(b)) + Cardinality(Holders(b)) >= plan.maxCalls
            BY DEF CallBlocksAreReal
        <2>1. /\ Cardinality(Charged(b)) \in Nat
              /\ Cardinality(Holders(b)) \in Nat
            BY InType DEF Charged, Holders, SlotInv, TypeOK
        <2>2. ledger[b] \in Counter
            BY DEF SlotInv, TypeOK
        <2>3. plan.maxCalls \in Nat
            BY ConstantsAssumption
            DEF SlotInv, TypeOK, BlockedByCalls, CallLimited, Plan
        <2> QED
            BY <2>1, <2>2, <2>3
            DEF SlotInv, BucketInv, BlockedByCalls, CommittedCalls, Counter
    <1> QED
        BY SlotsCorrect, <1>1, PTL
-----------------------------------------------------------------------------
(* Sums over sets of consultations *)

LEMMA TotalType ==
    ASSUME NEW S \in SUBSET Consults, NEW f \in [Consults -> Nat]
    PROVE  TotalOf(S, f) \in Nat
    <1>1. IsFiniteSet(S) /\ \A c \in S : f[c] \in Nat
        BY ConstantsAssumption, FS_Subset
    <1> QED
        BY <1>1, TotalIsNat

LEMMA TotalAdd ==
    ASSUME NEW S \in SUBSET Consults, NEW f \in [Consults -> Nat],
           NEW c \in Consults, c \notin S
    PROVE  TotalOf(S \cup {c}, f) = TotalOf(S, f) + f[c]
    <1>1. IsFiniteSet(S) /\ f[c] \in Nat /\ \A d \in S : f[d] \in Nat
        BY ConstantsAssumption, FS_Subset
    <1> QED
        BY <1>1, TotalWith

LEMMA TotalRemove ==
    ASSUME NEW S \in SUBSET Consults, NEW f \in [Consults -> Nat], NEW c \in S
    PROVE  /\ TotalOf(S \ {c}, f) = TotalOf(S, f) - f[c]
           /\ TotalOf(S, f) >= f[c]
    <1>1. IsFiniteSet(S) /\ \A d \in S : f[d] \in Nat
        BY ConstantsAssumption, FS_Subset
    <1> QED
        BY <1>1, TotalWithout

-----------------------------------------------------------------------------
(* The inductive invariant of cash *)

\* The counters of a bucket against the handles and the bills of its consultations.
\* The ceiling needs the sum of what settled calls overran: settling replaces the
\* cash a call held by what it cost.
CashBucket(b) ==
    /\ ledger[b].costMicro = Spent(b)
    /\ ledger[b].reservedMicro <= MicroHeld(b)
    /\ ~Disturbed(b) => ledger[b].reservedMicro = MicroHeld(b)
    /\ CostLimited /\ ~Disturbed(b) =>
          CommittedMicro(ledger[b]) <= plan.maxMicro + Overrun(b)
    /\ ledger[b].unknownCostCalls > 0 => \E c \in Charged(b) : paid[c] = None

\* Only a granted reservation holds cash: an approved overrun holds none.
CashFacts == \A c \in Consults : ~handle[c].call => handle[c].micro = 0

CashInv == SlotInv /\ CashFacts /\ \A b \in Buckets : CashBucket(b)

\* The three functions that are summed, and the sets they are summed over.
LEMMA CashTypes ==
    ASSUME TypeOK, NEW b
    PROVE  /\ Micros \in [Consults -> Nat]
           /\ Bills \in [Consults -> Nat]
           /\ Overshoots \in [Consults -> Nat]
           /\ Holders(b) \in SUBSET Consults
           /\ Charged(b) \in SUBSET Consults
           /\ MicroHeld(b) \in Nat
           /\ Spent(b) \in Nat
           /\ Overrun(b) \in Nat
    <1>1. Micros \in [Consults -> Nat]
        BY DEF TypeOK, Micros
    <1>2. Bills \in [Consults -> Nat]
        BY ConstantsAssumption DEF TypeOK, Bills
    <1>3. Overshoots \in [Consults -> Nat]
        <2> SUFFICES ASSUME NEW c \in Consults PROVE Overshoot(c) \in Nat
            BY DEF Overshoots
        <2>1. handle[c].micro \in Nat /\ (paid[c] # None => paid[c] \in Nat)
            BY DEF TypeOK
        <2> QED
            BY <2>1, MinusType DEF Overshoot
    <1>4. Holders(b) \in SUBSET Consults /\ Charged(b) \in SUBSET Consults
        BY DEF TypeOK, Holders, Charged, In
    <1> QED
        BY <1>1, <1>2, <1>3, <1>4, TotalType DEF MicroHeld, Spent, Overrun

LEMMA MaxMicroType ==
    ASSUME TypeOK, CostLimited
    PROVE  plan.maxMicro \in Nat
    BY ConstantsAssumption DEF TypeOK, CostLimited, Plan

\* A deleted bucket starts over.
LEMMA EmptiedKeepsCash ==
    ASSUME TypeOK, plan' = plan, NEW x \in Buckets, Emptied(x)
    PROVE  CashBucket(x)'
    <1>1. CostLimited' => plan'.maxMicro \in Nat
        BY MaxMicroType DEF CostLimited
    <1>2. /\ Charged(x)' = {}
          /\ Holders(x)' = {}
        BY DEF Emptied, Charged, Holders
    <1>3. /\ Spent(x)' = 0
          /\ MicroHeld(x)' = 0
          /\ Overrun(x)' = 0
        BY <1>2, TotalOfNone DEF Spent, MicroHeld, Overrun
    <1>4. /\ ledger'[x].costMicro = 0
          /\ ledger'[x].reservedMicro = 0
          /\ ledger'[x].unknownCostCalls = 0
        BY DEF Emptied, EmptyCounter
    <1> QED
        BY <1>1, <1>3, <1>4 DEF CashBucket, CommittedMicro

\* The bill and the handle of consultation d stay.
Unbilled(d) ==
    /\ handle'[d].micro = handle[d].micro
    /\ paid'[d] = paid[d]

\* Sums over consultations whose bills and handles stay.
LEMMA SumsStay ==
    ASSUME NEW S \in SUBSET Consults, \A d \in S : Unbilled(d)
    PROVE  /\ TotalOf(S, Micros') = TotalOf(S, Micros)
           /\ TotalOf(S, Bills') = TotalOf(S, Bills)
           /\ TotalOf(S, Overshoots') = TotalOf(S, Overshoots)
    <1>1. \A d \in S : Micros'[d] = Micros[d]
        BY DEF Micros, Unbilled
    <1>2. \A d \in S : Bills'[d] = Bills[d]
        BY DEF Bills, Unbilled
    <1>3. \A d \in S : Overshoots'[d] = Overshoots[d]
        BY DEF Overshoots, Overshoot, Unbilled
    <1> QED
        BY <1>1, <1>2, <1>3, TotalOfSame

\* The counters and the consultations of bucket x stay, with their bills and handles.
LEMMA StayingKeepsCash ==
    ASSUME TypeOK, plan' = plan, NEW x \in Buckets, CashBucket(x),
           ledger'[x] = ledger[x],
           Charged(x)' = Charged(x), Holders(x)' = Holders(x),
           Disturbed(x)' = Disturbed(x),
           \A d \in Charged(x) \cup Holders(x) : Unbilled(d)
    PROVE  CashBucket(x)'
    <1>1. CostLimited' = CostLimited
        BY DEF CostLimited
    <1>2. /\ \A d \in Charged(x) : Unbilled(d)
          /\ \A d \in Holders(x) : Unbilled(d)
        OBVIOUS
    <1>3. /\ TotalOf(Holders(x), Micros') = MicroHeld(x)
          /\ TotalOf(Charged(x), Bills') = Spent(x)
          /\ TotalOf(Charged(x), Overshoots') = Overrun(x)
        BY <1>2, CashTypes, SumsStay DEF MicroHeld, Spent, Overrun
    <1>4. /\ MicroHeld(x)' = MicroHeld(x)
          /\ Spent(x)' = Spent(x)
          /\ Overrun(x)' = Overrun(x)
        <2>1. /\ MicroHeld(x)' = TotalOf(Holders(x)', Micros')
              /\ Spent(x)' = TotalOf(Charged(x)', Bills')
              /\ Overrun(x)' = TotalOf(Charged(x)', Overshoots')
            BY DEF MicroHeld, Spent, Overrun
        <2> QED
            BY <1>3, <2>1, Zenon
    <1>5. (\E d \in Charged(x) : paid[d] = None) => (\E d \in Charged(x)' : paid'[d] = None)
        BY <1>2 DEF Unbilled
    <1>6. CommittedMicro(ledger[x])' = CommittedMicro(ledger[x])
        BY DEF CommittedMicro
    <1> QED
        BY <1>1, <1>4, <1>5, <1>6 DEF CashBucket

LEMMA SameKeepsCash ==
    ASSUME TypeOK, plan' = plan, NEW x \in Buckets, CashBucket(x),
           ledger'[x] = ledger[x],
           In(charged', x) = In(charged, x),
           In(taken' \ charged', x) = In(taken \ charged, x),
           In(late', x) = In(late, x),
           \A d \in taken \cup charged : Unbilled(d)
    PROVE  CashBucket(x)'
    <1>1. /\ Charged(x)' = Charged(x)
          /\ Holders(x)' = Holders(x)
          /\ Disturbed(x)' = Disturbed(x)
        BY DEF Charged, Holders, Disturbed
    <1>2. \A d \in Charged(x) \cup Holders(x) : Unbilled(d)
        BY DEF Charged, Holders, In
    <1> QED
        BY <1>1, <1>2, StayingKeepsCash

\* A set of consultations whose bills and handles stay gains one more.
LEMMA SumsGain ==
    ASSUME TypeOK', NEW S \in SUBSET Consults, NEW c \in Consults, c \notin S,
           \A d \in S : Unbilled(d)
    PROVE  /\ TotalOf(S \cup {c}, Micros') = TotalOf(S, Micros) + handle'[c].micro
           /\ TotalOf(S \cup {c}, Bills') =
                 TotalOf(S, Bills) + (IF paid'[c] = None THEN 0 ELSE paid'[c])
           /\ TotalOf(S \cup {c}, Overshoots') = TotalOf(S, Overshoots) + Overshoot(c)'
    <1>1. Micros' \in [Consults -> Nat]
        BY DEF TypeOK, Micros
    <1>2. Bills' \in [Consults -> Nat]
        BY ConstantsAssumption DEF TypeOK, Bills
    <1>3. Overshoots' \in [Consults -> Nat]
        <2> SUFFICES ASSUME NEW d \in Consults PROVE Overshoot(d)' \in Nat
            BY DEF Overshoots
        <2>1. handle'[d].micro \in Nat /\ (paid'[d] # None => paid'[d] \in Nat)
            BY DEF TypeOK
        <2> QED
            BY <2>1, MinusType DEF Overshoot
    <1>4. /\ Micros'[c] = handle'[c].micro
          /\ Bills'[c] = IF paid'[c] = None THEN 0 ELSE paid'[c]
          /\ Overshoots'[c] = Overshoot(c)'
        BY DEF Micros, Bills, Overshoots
    <1>5. /\ TotalOf(S \cup {c}, Micros') = TotalOf(S, Micros') + Micros'[c]
          /\ TotalOf(S \cup {c}, Bills') = TotalOf(S, Bills') + Bills'[c]
          /\ TotalOf(S \cup {c}, Overshoots') = TotalOf(S, Overshoots') + Overshoots'[c]
        <2> HIDE DEF Micros, Bills, Overshoots
        <2> QED
            BY <1>1, <1>2, <1>3, TotalAdd
    <1> QED
        BY <1>4, <1>5, SumsStay

\* A granted reservation holds its estimate, which the ceiling still covers.
LEMMA ReserveGrantedKeepsCash ==
    ASSUME CashInv, TypeOK', NEW c \in Consults, NEW estimate \in Estimates \cup {None},
           ReserveGranted(c, estimate), NEW x \in Buckets
    PROVE  CashBucket(x)'
    <1> DEFINE b == BucketOf[c]
               k == WithReservation(ledger[b], estimate)
               r == ReservedMicroOf(estimate)
    <1>1. /\ plan' = plan
          /\ c \notin taken /\ c \notin charged
          /\ b \in Buckets /\ ledger[b] \in Counter
          /\ TypeOK /\ CashBucket(x)
          /\ \A d \in taken \cup charged : Unbilled(d)
          /\ handle'[c].micro = r
        BY FreedType DEF ReserveGranted, CashInv, SlotInv, SlotFacts, TypeOK, Unbilled
    <1>2. /\ k.costMicro = ledger[b].costMicro
          /\ k.reservedMicro = ledger[b].reservedMicro + r
          /\ k.unknownCostCalls = ledger[b].unknownCostCalls
          /\ r \in Nat
          /\ ledger[b].costMicro \in Nat /\ ledger[b].reservedMicro \in Nat
        BY <1>1, WithReservationEffect, RequestedType DEF Counter
    <1>3. \/ Emptied(x)
          \/ /\ ledger'[x] = IF x = b THEN k ELSE ledger[x]
             /\ In(charged', x) = In(charged, x)
             /\ In(taken' \ charged', x) = In((taken \cup {c}) \ charged, x)
             /\ In(late', x) = In(late, x)
        <2>1. Transact(b, k, Touched(b), taken \cup {c}, charged, late)
            BY DEF ReserveGranted
        <2> QED
            BY <1>1, <2>1 DEF Transact, Keep, In, Emptied
    <1>4. CASE Emptied(x)
        BY <1>1, <1>4, EmptiedKeepsCash
    <1>5. CASE ~Emptied(x) /\ x # b
        <2>1. In((taken \cup {c}) \ charged, x) = In(taken \ charged, x)
            BY <1>5 DEF In
        <2> QED
            BY <1>1, <1>3, <1>5, <2>1, SameKeepsCash
    <1>6. CASE ~Emptied(x) /\ x = b
        <2>1. Holders(b)' = Holders(b) \cup {c} /\ Charged(b)' = Charged(b)
            BY <1>1, <1>3, <1>6 DEF Holders, Charged, In
        <2>2. /\ c \notin Holders(b)
              /\ \A d \in Holders(b) : Unbilled(d)
              /\ \A d \in Charged(b) : Unbilled(d)
            BY <1>1 DEF Holders, Charged, In
        <2>3. TotalOf(Holders(b) \cup {c}, Micros') = MicroHeld(b) + r
            BY <1>1, <2>2, CashTypes, SumsGain DEF MicroHeld
        <2>4. /\ TotalOf(Charged(b), Bills') = Spent(b)
              /\ TotalOf(Charged(b), Overshoots') = Overrun(b)
            BY <1>1, <2>2, CashTypes, SumsStay DEF Spent, Overrun
        <2>5. /\ MicroHeld(b)' = MicroHeld(b) + r
              /\ Spent(b)' = Spent(b)
              /\ Overrun(b)' = Overrun(b)
            <3>1. /\ MicroHeld(b)' = TotalOf(Holders(b)', Micros')
                  /\ Spent(b)' = TotalOf(Charged(b)', Bills')
                  /\ Overrun(b)' = TotalOf(Charged(b)', Overshoots')
                BY <1>1 DEF MicroHeld, Spent, Overrun
            <3> QED
                BY <2>1, <2>3, <2>4, <3>1, Zenon
        <2>6. Disturbed(b)' = Disturbed(b) /\ CostLimited' = CostLimited
            BY <1>1, <1>3, <1>6 DEF Disturbed, CostLimited
        <2>7. (\E d \in Charged(b) : paid[d] = None) => (\E d \in Charged(b)' : paid'[d] = None)
            BY <2>1, <2>2 DEF Unbilled
        <2>8. CostLimited =>
                 ledger[b].costMicro + ledger[b].reservedMicro + r <= plan.maxMicro
            <3>1. CostLimited => ~CannotCover(ledger[b], estimate)
                BY DEF ReserveGranted, CostLimited, Refuses
            <3>2. CostLimited => plan.maxMicro \in Nat
                BY <1>1, MaxMicroType
            <3>3. CostLimited => r = Requested(estimate)
                BY DEF ReservedMicroOf
            <3> QED
                BY <1>2, <3>1, <3>2, <3>3 DEF CannotCover
        <2>9. /\ MicroHeld(b) \in Nat /\ Spent(b) \in Nat /\ Overrun(b) \in Nat
              /\ CostLimited => plan.maxMicro \in Nat
            BY <1>1, CashTypes, MaxMicroType
        <2>10. CashBucket(b) /\ ledger'[b] = k /\ plan' = plan
            BY <1>1, <1>3, <1>6
        <2> HIDE DEF k, r
        <2>11. CashBucket(b)'
            BY <1>2, <2>5, <2>6, <2>7, <2>8, <2>9, <2>10 DEF CashBucket, CommittedMicro
        <2> QED
            BY <1>6, <2>11, Zenon
    <1> QED
        BY <1>4, <1>5, <1>6

\* A refused reservation changes no counter.
LEMMA ReserveRefusedKeepsCash ==
    ASSUME CashInv, NEW c \in Consults, NEW estimate \in Estimates \cup {None},
           ReserveRefused(c, estimate), NEW x \in Buckets
    PROVE  CashBucket(x)'
    <1> DEFINE b == BucketOf[c]
               order == IF b \in present THEN newer ELSE Touched(b)
    <1>1. /\ plan' = plan
          /\ b \in Buckets
          /\ TypeOK /\ CashBucket(x)
          /\ \A d \in taken \cup charged : Unbilled(d)
        BY FreedType DEF ReserveRefused, CashInv, SlotInv, TypeOK, Unbilled
    <1>2. Transact(b, ledger[b], order, taken, charged, late)
        BY DEF ReserveRefused
    <1>3. \/ Emptied(x)
          \/ /\ ledger'[x] = ledger[x]
             /\ In(charged', x) = In(charged, x)
             /\ In(taken' \ charged', x) = In(taken \ charged, x)
             /\ In(late', x) = In(late, x)
        <2> HIDE DEF order
        <2> QED
            BY <1>1, <1>2 DEF Transact, Keep, In, Emptied
    <1> QED
        BY <1>1, <1>3, EmptiedKeepsCash, SameKeepsCash

LEMMA BillType ==
    ASSUME NEW cost \in Costs \cup {None, 0}, cost # None
    PROVE  cost \in Nat
    BY ConstantsAssumption

\* Settling gives back what a call of this bucket held and books its bill: spend plus
\* reservations grow by no more than the call overran its estimate.
LEMMA ChargeKeepsCash ==
    ASSUME CashInv, TypeOK', NEW c \in Consults, NEW cost \in Costs \cup {None, 0},
           NEW k \in Counter,
           k.costMicro = ledger[BucketOf[c]].costMicro + (IF cost = None THEN 0 ELSE cost),
           k.reservedMicro = Minus(ledger[BucketOf[c]].reservedMicro, handle[c].micro),
           k.unknownCostCalls =
              ledger[BucketOf[c]].unknownCostCalls + (IF cost = None THEN 1 ELSE 0),
           plan' = plan, handle' = handle,
           paid' = [paid EXCEPT ![c] = cost],
           status[c] = "calling",
           Transact(BucketOf[c], k, Touched(BucketOf[c]), taken, charged \cup {c}, LateWith(c)),
           NEW x \in Buckets
    PROVE  CashBucket(x)'
    <1> DEFINE b == BucketOf[c]
               m == handle[c].micro
               bill == IF cost = None THEN 0 ELSE cost
               over == IF cost = None THEN 0 ELSE Minus(cost, m)
    <1>1. /\ c \notin charged
          /\ b \in Buckets /\ ledger[b] \in Counter
          /\ m \in Nat
          /\ ~handle[c].call => m = 0
          /\ TypeOK /\ CashBucket(x)
        BY FreedType DEF CashInv, CashFacts, SlotInv, SlotFacts
    <1>2. /\ \A d \in Consults \ {c} : Unbilled(d)
          /\ paid'[c] = cost
          /\ Overshoot(c)' = over
        BY <1>1 DEF Unbilled, TypeOK, Overshoot
    <1>3. \/ Emptied(x)
          \/ /\ ledger'[x] = IF x = b THEN k ELSE ledger[x]
             /\ In(charged', x) = In(charged \cup {c}, x)
             /\ In(taken' \ charged', x) = In((taken \ charged) \ {c}, x)
             /\ In(late', x) = In(LateWith(c), x)
        BY <1>1 DEF Transact, Keep, In, Emptied
    <1>4. CASE Emptied(x)
        BY <1>1, <1>4, EmptiedKeepsCash
    <1>5. CASE ~Emptied(x) /\ x # b
        <2>1. /\ In(charged \cup {c}, x) = In(charged, x)
              /\ In((taken \ charged) \ {c}, x) = In(taken \ charged, x)
              /\ In(LateWith(c), x) = In(late, x)
            BY <1>5 DEF In, LateWith
        <2>2. /\ ledger'[x] = ledger[x]
              /\ Charged(x)' = Charged(x)
              /\ Holders(x)' = Holders(x)
              /\ Disturbed(x)' = Disturbed(x)
              /\ c \notin Charged(x) /\ c \notin Holders(x)
            BY <1>3, <1>5, <2>1 DEF Charged, Holders, Disturbed, In
        <2>3. \A d \in Charged(x) \cup Holders(x) : Unbilled(d)
            BY <1>1, <1>2, <2>2, CashTypes
        <2> HIDE DEF b, m, bill, over
        <2> QED
            BY <1>1, <2>2, <2>3, StayingKeepsCash
    <1>6. CASE ~Emptied(x) /\ x = b
        <2>1. /\ Holders(b)' = Holders(b) \ {c}
              /\ Charged(b)' = Charged(b) \cup {c}
            BY <1>1, <1>3, <1>6 DEF Holders, Charged, In
        <2>2. /\ c \notin Charged(b)
              /\ c \in Holders(b) <=> c \in taken
              /\ \A d \in Holders(b) \ {c} : Unbilled(d)
              /\ \A d \in Charged(b) : Unbilled(d)
            BY <1>1, <1>2 DEF Holders, Charged, In, TypeOK
        <2>3. /\ MicroHeld(b) \in Nat /\ Spent(b) \in Nat /\ Overrun(b) \in Nat
              /\ Holders(b) \in SUBSET Consults
              /\ Charged(b) \in SUBSET Consults
              /\ Micros \in [Consults -> Nat]
              /\ CostLimited => plan.maxMicro \in Nat
            BY <1>1, CashTypes, MaxMicroType
        <2>4. /\ TotalOf(Charged(b) \cup {c}, Bills') = Spent(b) + bill
              /\ TotalOf(Charged(b) \cup {c}, Overshoots') = Overrun(b) + over
            BY <1>2, <2>2, <2>3, SumsGain DEF Spent, Overrun
        <2>5. Micros' = Micros
            BY DEF Micros
        <2>6. /\ MicroHeld(b)' = TotalOf(Holders(b) \ {c}, Micros)
              /\ Spent(b)' = Spent(b) + bill
              /\ Overrun(b)' = Overrun(b) + over
            <3>1. /\ MicroHeld(b)' = TotalOf(Holders(b)', Micros')
                  /\ Spent(b)' = TotalOf(Charged(b)', Bills')
                  /\ Overrun(b)' = TotalOf(Charged(b)', Overshoots')
                BY <1>1 DEF MicroHeld, Spent, Overrun
            <3> QED
                BY <2>1, <2>4, <2>5, <3>1, Zenon
        <2>7. /\ c \in taken => MicroHeld(b)' = MicroHeld(b) - m /\ MicroHeld(b) >= m
              /\ c \notin taken => MicroHeld(b)' = MicroHeld(b)
            <3>1. CASE c \in taken
                <4>1. Micros[c] = m
                    BY DEF Micros
                <4>2. /\ TotalOf(Holders(b) \ {c}, Micros) = TotalOf(Holders(b), Micros) - Micros[c]
                      /\ TotalOf(Holders(b), Micros) >= Micros[c]
                    BY <2>2, <2>3, <3>1, TotalRemove
                <4> QED
                    BY <2>6, <3>1, <4>1, <4>2 DEF MicroHeld
            <3>2. CASE c \notin taken
                <4>1. Holders(b) \ {c} = Holders(b)
                    BY <2>2, <3>2
                <4>2. TotalOf(Holders(b) \ {c}, Micros) = MicroHeld(b)
                    BY <4>1, Zenon DEF MicroHeld
                <4> QED
                    BY <2>6, <3>2, <4>2
            <3> QED
                BY <3>1, <3>2
        <2>8. /\ Disturbed(b) => Disturbed(b)'
              /\ c \notin taken /\ ~Disturbed(b)' => m = 0
            BY <1>1, <1>3, <1>6 DEF Disturbed, In, LateWith, TypeOK
        <2>9. /\ ledger[b].unknownCostCalls > 0 \/ cost = None
                    => \E d \in Charged(b)' : paid'[d] = None
            BY <1>1, <1>2, <1>6, <2>1, <2>2 DEF CashBucket, Unbilled
        <2>10. k.unknownCostCalls > 0 => ledger[b].unknownCostCalls > 0 \/ cost = None
            BY <1>1 DEF Counter
        <2>11. /\ CashBucket(b) /\ ledger'[b] = k /\ CostLimited' = CostLimited
               /\ ledger[b].costMicro \in Nat /\ ledger[b].reservedMicro \in Nat
            BY <1>1, <1>3, <1>6 DEF CostLimited, Counter
        <2>12. /\ bill \in Nat /\ over \in Nat
               /\ bill <= m + over
            <3>1. CASE cost = None
                BY <1>1, <3>1
            <3>2. CASE cost # None
                <4>1. cost \in Nat
                    BY <3>2, BillType
                <4>2. Minus(cost, m) \in Nat /\ Minus(cost, m) >= cost - m
                    BY <1>1, <4>1, MinusType
                <4> QED
                    BY <1>1, <3>2, <4>1, <4>2
            <3> QED
                BY <3>1, <3>2
        <2> HIDE DEF m, bill, over
        <2>13. /\ ledger'[b].costMicro = Spent(b)'
               /\ ledger'[b].reservedMicro <= MicroHeld(b)'
               /\ ~Disturbed(b)' => ledger'[b].reservedMicro = MicroHeld(b)'
            BY <1>1, <2>3, <2>6, <2>7, <2>8, <2>11 DEF CashBucket, Minus, m, bill
        <2>14. CostLimited' /\ ~Disturbed(b)' =>
                  CommittedMicro(ledger'[b]) <= plan'.maxMicro + Overrun(b)'
            BY <1>1, <2>3, <2>6, <2>7, <2>8, <2>11, <2>12, <2>13
            DEF CashBucket, CommittedMicro
        <2>15. CashBucket(b)'
            BY <2>9, <2>10, <2>11, <2>13, <2>14 DEF CashBucket, CommittedMicro
        <2> QED
            BY <1>6, <2>15, Zenon
    <1> QED
        BY <1>4, <1>5, <1>6

LEMMA SettleKeepsCash ==
    ASSUME CashInv, TypeOK', NEW c \in Consults, NEW cost \in Costs \cup {None},
           Settle(c, cost), NEW x \in Buckets
    PROVE  CashBucket(x)'
    <1> DEFINE freed == WithoutReservation(ledger[BucketOf[c]], handle[c])
               k == WithCost(WithCall(freed), cost)
    <1>1. /\ freed \in Counter
          /\ freed.costMicro = ledger[BucketOf[c]].costMicro
          /\ freed.reservedMicro = Minus(ledger[BucketOf[c]].reservedMicro, handle[c].micro)
          /\ freed.unknownCostCalls = ledger[BucketOf[c]].unknownCostCalls
        BY FreedType, WithoutReservationEffect DEF CashInv, SlotInv
    <1>2. /\ k \in Counter
          /\ k.costMicro = freed.costMicro + (IF cost = None THEN 0 ELSE cost)
          /\ k.reservedMicro = freed.reservedMicro
          /\ k.unknownCostCalls = freed.unknownCostCalls + (IF cost = None THEN 1 ELSE 0)
        <2> HIDE DEF freed
        <2> QED
            BY <1>1, WithCallEffect, WithCostEffect
    <1>3. /\ plan' = plan
          /\ handle' = handle
          /\ paid' = [paid EXCEPT ![c] = cost]
          /\ status[c] = "calling"
          /\ Transact(BucketOf[c], k, Touched(BucketOf[c]),
                      taken, charged \cup {c}, LateWith(c))
        BY DEF Settle
    <1> HIDE DEF k, freed
    <1>4. /\ k.costMicro = ledger[BucketOf[c]].costMicro + (IF cost = None THEN 0 ELSE cost)
          /\ k.reservedMicro = Minus(ledger[BucketOf[c]].reservedMicro, handle[c].micro)
          /\ k.unknownCostCalls =
                ledger[BucketOf[c]].unknownCostCalls + (IF cost = None THEN 1 ELSE 0)
        BY <1>1, <1>2
    <1> QED
        BY <1>2, <1>3, <1>4, ChargeKeepsCash

\* A release that counts as a call is a call that cost nothing.
LEMMA ReleaseAsCallKeepsCash ==
    ASSUME CashInv, TypeOK', NEW c \in Consults, ReleaseAsCall(c), NEW x \in Buckets
    PROVE  CashBucket(x)'
    <1> DEFINE freed == WithoutReservation(ledger[BucketOf[c]], handle[c])
               k == WithCall(freed)
    <1>1. /\ freed \in Counter
          /\ freed.costMicro = ledger[BucketOf[c]].costMicro
          /\ freed.reservedMicro = Minus(ledger[BucketOf[c]].reservedMicro, handle[c].micro)
          /\ freed.unknownCostCalls = ledger[BucketOf[c]].unknownCostCalls
        BY FreedType, WithoutReservationEffect DEF CashInv, SlotInv
    <1>2. /\ k \in Counter
          /\ k.costMicro = freed.costMicro
          /\ k.reservedMicro = freed.reservedMicro
          /\ k.unknownCostCalls = freed.unknownCostCalls
        <2> HIDE DEF freed
        <2> QED
            BY <1>1, WithCallEffect
    <1>3. /\ plan' = plan
          /\ handle' = handle
          /\ paid' = [paid EXCEPT ![c] = 0]
          /\ status[c] = "calling"
          /\ Transact(BucketOf[c], k, Touched(BucketOf[c]),
                      taken, charged \cup {c}, LateWith(c))
        BY DEF ReleaseAsCall
    <1> HIDE DEF k, freed
    <1>4. /\ k.costMicro = ledger[BucketOf[c]].costMicro + (IF 0 = None THEN 0 ELSE 0)
          /\ k.reservedMicro = Minus(ledger[BucketOf[c]].reservedMicro, handle[c].micro)
          /\ k.unknownCostCalls =
                ledger[BucketOf[c]].unknownCostCalls + (IF 0 = None THEN 1 ELSE 0)
        <2>1. 0 # None
            BY ConstantsAssumption
        <2>2. /\ ledger[BucketOf[c]].costMicro \in Nat
              /\ ledger[BucketOf[c]].unknownCostCalls \in Nat
            BY FreedType DEF CashInv, SlotInv, Counter
        <2> QED
            BY <1>1, <1>2, <2>1, <2>2
    <1>5. 0 \in Costs \cup {None, 0}
        OBVIOUS
    <1> QED
        BY <1>2, <1>3, <1>4, <1>5, ChargeKeepsCash

\* A release gives back the cash its handle took from this bucket.
LEMMA ReleaseKeepsCash ==
    ASSUME CashInv, NEW c \in Consults, Release(c), NEW x \in Buckets
    PROVE  CashBucket(x)'
    <1> DEFINE b == BucketOf[c]
               k == WithoutReservation(ledger[b], handle[c])
               m == handle[c].micro
    <1>1. /\ c \notin charged
          /\ b \in Buckets /\ ledger[b] \in Counter
          /\ m \in Nat
          /\ ~handle[c].call => m = 0
          /\ TypeOK /\ CashBucket(x)
          /\ plan' = plan /\ handle' = handle /\ paid' = paid
        BY FreedType DEF CashInv, CashFacts, SlotInv, SlotFacts, Release
    <1>2. /\ k.costMicro = ledger[b].costMicro
          /\ k.reservedMicro = Minus(ledger[b].reservedMicro, m)
          /\ k.unknownCostCalls = ledger[b].unknownCostCalls
          /\ ledger[b].costMicro \in Nat /\ ledger[b].reservedMicro \in Nat
        BY <1>1, FreedType, WithoutReservationEffect DEF Counter
    <1>3. \/ Emptied(x)
          \/ /\ ledger'[x] = IF x = b THEN k ELSE ledger[x]
             /\ In(charged', x) = In(charged, x)
             /\ In(taken' \ charged', x) = In((taken \ charged) \ {c}, x)
             /\ In(late', x) = In(LateWith(c), x)
        <2>1. Transact(b, k, Touched(b), taken \ {c}, charged, LateWith(c))
            BY DEF Release
        <2> QED
            BY <1>1, <2>1 DEF Transact, Keep, In, Emptied
    <1>0. \A d : Unbilled(d)
        BY <1>1 DEF Unbilled
    <1>4. CASE Emptied(x)
        BY <1>1, <1>4, EmptiedKeepsCash
    <1>5. CASE ~Emptied(x) /\ x # b
        <2>1. /\ In((taken \ charged) \ {c}, x) = In(taken \ charged, x)
              /\ In(LateWith(c), x) = In(late, x)
            BY <1>5 DEF In, LateWith
        <2> QED
            BY <1>0, <1>1, <1>3, <1>5, <2>1, SameKeepsCash
    <1>6. CASE ~Emptied(x) /\ x = b
        <2>1. /\ Holders(b)' = Holders(b) \ {c}
              /\ Charged(b)' = Charged(b)
            BY <1>1, <1>3, <1>6 DEF Holders, Charged, In
        <2>2. c \in Holders(b) <=> c \in taken
            BY <1>1 DEF Holders, In
        <2>3. /\ MicroHeld(b) \in Nat /\ Spent(b) \in Nat /\ Overrun(b) \in Nat
              /\ Holders(b) \in SUBSET Consults
              /\ Micros \in [Consults -> Nat]
              /\ CostLimited => plan.maxMicro \in Nat
            BY <1>1, CashTypes, MaxMicroType
        <2>4. /\ Micros' = Micros /\ Bills' = Bills /\ Overshoots' = Overshoots
            BY <1>1 DEF Micros, Bills, Overshoots, Overshoot
        <2>5. /\ MicroHeld(b)' = TotalOf(Holders(b) \ {c}, Micros)
              /\ Spent(b)' = Spent(b)
              /\ Overrun(b)' = Overrun(b)
            <3>1. /\ MicroHeld(b)' = TotalOf(Holders(b)', Micros')
                  /\ Spent(b)' = TotalOf(Charged(b)', Bills')
                  /\ Overrun(b)' = TotalOf(Charged(b)', Overshoots')
                BY <1>1 DEF MicroHeld, Spent, Overrun
            <3> QED
                BY <2>1, <2>4, <3>1, Zenon DEF Spent, Overrun
        <2>6. /\ c \in taken => MicroHeld(b)' = MicroHeld(b) - m /\ MicroHeld(b) >= m
              /\ c \notin taken => MicroHeld(b)' = MicroHeld(b)
            <3>1. CASE c \in taken
                <4>1. Micros[c] = m
                    BY DEF Micros
                <4>2. /\ TotalOf(Holders(b) \ {c}, Micros) = TotalOf(Holders(b), Micros) - Micros[c]
                      /\ TotalOf(Holders(b), Micros) >= Micros[c]
                    BY <2>2, <2>3, <3>1, TotalRemove
                <4> QED
                    BY <2>5, <3>1, <4>1, <4>2 DEF MicroHeld
            <3>2. CASE c \notin taken
                <4>1. Holders(b) \ {c} = Holders(b)
                    BY <2>2, <3>2
                <4>2. TotalOf(Holders(b) \ {c}, Micros) = MicroHeld(b)
                    BY <4>1, Zenon DEF MicroHeld
                <4> QED
                    BY <2>5, <3>2, <4>2
            <3> QED
                BY <3>1, <3>2
        <2>7. /\ Disturbed(b) => Disturbed(b)'
              /\ c \notin taken /\ ~Disturbed(b)' => m = 0
            BY <1>1, <1>3, <1>6 DEF Disturbed, In, LateWith, TypeOK
        <2>8. (\E d \in Charged(b) : paid[d] = None) => (\E d \in Charged(b)' : paid'[d] = None)
            BY <1>1, <2>1
        <2>9. CashBucket(b) /\ ledger'[b] = k /\ CostLimited' = CostLimited /\ plan' = plan
            BY <1>1, <1>3, <1>6 DEF CostLimited
        <2>10. m \in Nat
            BY <1>1
        <2> HIDE DEF m, k
        <2>11. CashBucket(b)'
            BY <1>2, <2>3, <2>5, <2>6, <2>7, <2>8, <2>9, <2>10
            DEF CashBucket, CommittedMicro, Minus
        <2> QED
            BY <1>6, <2>11, Zenon
    <1> QED
        BY <1>4, <1>5, <1>6

-----------------------------------------------------------------------------
(* The theorems about cash *)

LEMMA InitCash == Init => CashInv
    <1> SUFFICES ASSUME Init PROVE CashInv
        OBVIOUS
    <1>1. SlotInv /\ TypeOK
        BY InitSlots DEF SlotInv
    <1>2. CashFacts
        BY DEF Init, CashFacts, NoHandle
    <1>3. ASSUME NEW b \in Buckets PROVE CashBucket(b)
        <2>1. Charged(b) = {} /\ Holders(b) = {}
            BY DEF Init, In, Charged, Holders
        <2>2. Spent(b) = 0 /\ MicroHeld(b) = 0 /\ Overrun(b) = 0
            BY <2>1, TotalOfNone DEF Spent, MicroHeld, Overrun
        <2>3. CostLimited => plan.maxMicro \in Nat
            BY <1>1, MaxMicroType
        <2>4. /\ ledger[b].costMicro = 0
              /\ ledger[b].reservedMicro = 0
              /\ ledger[b].unknownCostCalls = 0
            BY DEF Init, EmptyCounter
        <2> QED
            BY <2>2, <2>3, <2>4 DEF CashBucket, CommittedMicro
    <1> QED
        BY <1>1, <1>2, <1>3 DEF CashInv

LEMMA NextCashFacts == CashInv /\ [Next]_vars => CashFacts'
    <1> SUFFICES ASSUME CashInv, [Next]_vars, NEW d \in Consults, ~handle'[d].call
                 PROVE  handle'[d].micro = 0
        BY DEF CashFacts
    <1>0. /\ ~handle[d].call => handle[d].micro = 0
          /\ handle \in [Consults -> [call: BOOLEAN, micro: Nat, estimate: Estimates \cup {None}]]
        BY DEF CashInv, CashFacts, SlotInv, TypeOK
    <1>1. ASSUME NEW c \in Consults, NEW estimate \in Estimates \cup {None},
                 ReserveGranted(c, estimate)
          PROVE  handle'[d].micro = 0
        BY <1>0, <1>1 DEF ReserveGranted
    <1>2. ASSUME NEW c \in Consults, NEW estimate \in Estimates \cup {None},
                 ReserveRefused(c, estimate)
          PROVE  handle'[d].micro = 0
        <2>1. handle'[d].call = handle[d].call /\ handle'[d].micro = handle[d].micro
            BY <1>0, <1>2 DEF ReserveRefused
        <2> QED
            BY <1>0, <2>1
    <1>3. CASE handle' = handle
        BY <1>0, <1>3
    <1> QED
        BY <1>1, <1>2, <1>3
        DEF Next, Approve, Decline, Settle, Release, ReleaseAsCall, Reset, ResetAll, Look,
            Crash, vars

\* A step that leaves the ledger, the handles and the bills alone.
LEMMA QuietKeepsCash ==
    ASSUME TypeOK, UNCHANGED <<plan, ledger, history, handle, paid>>,
           NEW x \in Buckets, CashBucket(x)
    PROVE  CashBucket(x)'
    <1>1. /\ ledger' = ledger /\ taken' = taken /\ charged' = charged /\ late' = late
          /\ handle' = handle /\ paid' = paid /\ plan' = plan
        BY DEF history
    <1>2. \A d : Unbilled(d)
        BY <1>1 DEF Unbilled
    <1> QED
        BY <1>1, <1>2, SameKeepsCash

LEMMA NextCash ==
    ASSUME CashInv, TypeOK', [Next]_vars, NEW x \in Buckets
    PROVE  CashBucket(x)'
    <1>0. TypeOK /\ CashBucket(x)
        BY DEF CashInv, SlotInv
    <1>1. ASSUME NEW c \in Consults, Approve(c) \/ Decline(c) PROVE CashBucket(x)'
        BY <1>0, <1>1, QuietKeepsCash DEF Approve, Decline, ledgerVars
    <1>2. ASSUME NEW gone, Delete(gone), UNCHANGED <<plan, handle, paid>>
          PROVE  CashBucket(x)'
        <2>1. \A d : Unbilled(d)
            BY <1>2 DEF Unbilled
        <2> QED
            BY <1>0, <1>2, <2>1, DeleteEffect, EmptiedKeepsCash, SameKeepsCash
    <1>3. ASSUME NEW b \in Buckets, Reset(b) PROVE CashBucket(x)'
        BY <1>2, <1>3 DEF Reset
    <1>4. ASSUME ResetAll PROVE CashBucket(x)'
        BY <1>2, <1>4 DEF ResetAll
    <1>5. ASSUME NEW b \in Buckets, Look(b) PROVE CashBucket(x)'
        BY <1>0, <1>5, QuietKeepsCash DEF Look
    <1>6. ASSUME Crash PROVE CashBucket(x)'
        BY <1>0, <1>6, QuietKeepsCash DEF Crash
    <1>7. ASSUME UNCHANGED vars PROVE CashBucket(x)'
        BY <1>0, <1>7, QuietKeepsCash DEF vars, history
    <1> QED
        BY <1>1, <1>3, <1>4, <1>5, <1>6, <1>7, ReserveGrantedKeepsCash,
           ReserveRefusedKeepsCash, SettleKeepsCash, ReleaseKeepsCash, ReleaseAsCallKeepsCash
        DEF Next

\* The cash invariant holds in every reachable state.
THEOREM CashCorrect == Spec => []CashInv
    <1>1. CashInv /\ [Next]_vars => CashInv'
        <2> SUFFICES ASSUME CashInv, [Next]_vars PROVE CashInv'
            OBVIOUS
        <2>1. TypeOK' /\ SlotInv'
            BY NextType, NextSlotFacts, NextBuckets DEF CashInv, SlotInv
        <2>2. CashFacts'
            BY NextCashFacts
        <2>3. \A x \in Buckets : CashBucket(x)'
            BY <2>1, NextCash
        <2> QED
            BY <2>1, <2>2, <2>3 DEF CashInv
    <1> QED
        BY InitCash, <1>1, PTL DEF Spec

\* `calls` and `costMicro` of every bucket are exactly the calls and the spend of the
\* consultations settled into it since it last came into being (settle, release).
THEOREM ChargesExact == Spec => []ChargesAreExact
    <1>1. CashInv => ChargesAreExact
        BY DEF CashInv, SlotInv, BucketInv, CashBucket, ChargesAreExact, CallsAreExact,
               SpendIsExact
    <1> QED
        BY CashCorrect, <1>1, PTL

\* `reservedCalls` and `reservedMicro` are what the consultations still holding a
\* reservation took, and only too small once a handle of a deleted bucket was used.
THEOREM ReservationsHeld == Spec => []ReservationsAreHeld
    <1>1. CashInv => ReservationsAreHeld
        BY DEF CashInv, SlotInv, BucketInv, CashBucket, ReservationsAreHeld, SlotsAreHeld,
               CashIsHeld
    <1> QED
        BY CashCorrect, <1>1, PTL

\* Spend plus reservations pass the cash ceiling by no more than what settled calls
\* cost beyond what was reserved for them (reserve, settle).
THEOREM CashCeilingHolds == Spec => []CashCeiling
    <1>1. CashInv => CashCeiling
        BY DEF CashInv, CashBucket, CashCeiling
    <1> QED
        BY CashCorrect, <1>1, PTL

\* A bucket refuses a consultation only for calls and cash its consultations really
\* used or hold, or for a call whose price is really unknown.
LEMMA RefusalIsReal ==
    ASSUME CashInv, NEW b \in Buckets, NEW estimate \in Estimates \cup {None},
           plan.enabled, Refuses(ledger[b], estimate)
    PROVE  \/ CallLimited /\ Cardinality(Charged(b)) + Cardinality(Holders(b)) >= plan.maxCalls
           \/ CostLimited /\ \/ Spent(b) + MicroHeld(b) >= plan.maxMicro
                             \/ Spent(b) + MicroHeld(b) + Requested(estimate) > plan.maxMicro
           \/ plan.stopOnUnknown /\ \E x \in Charged(b) : paid[x] = None
    <1>1. /\ TypeOK /\ BucketInv(b) /\ CashBucket(b)
          /\ ledger[b] \in Counter
        BY DEF CashInv, SlotInv, TypeOK
    <1>2. CASE BlockedByCalls(ledger[b])
        <2>1. /\ Cardinality(Charged(b)) \in Nat
              /\ Cardinality(Holders(b)) \in Nat
            BY <1>1, InType DEF Charged, Holders, TypeOK
        <2>2. plan.maxCalls \in Nat
            BY <1>1, <1>2, ConstantsAssumption DEF TypeOK, BlockedByCalls, CallLimited, Plan
        <2>3. Cardinality(Charged(b)) + Cardinality(Holders(b)) >= plan.maxCalls
            BY <1>1, <1>2, <2>1, <2>2 DEF BucketInv, BlockedByCalls, CommittedCalls, Counter
        <2> QED
            BY <1>2, <2>3 DEF BlockedByCalls
    <1>3. CASE BlockedByCost(ledger[b]) \/ CannotCover(ledger[b], estimate)
        <2>1. CostLimited
            BY <1>3 DEF BlockedByCost, CannotCover
        <2>2. /\ plan.maxMicro \in Nat
              /\ Spent(b) \in Nat /\ MicroHeld(b) \in Nat
              /\ Requested(estimate) \in Nat
              /\ ledger[b].reservedMicro \in Nat
            BY <1>1, <2>1, MaxMicroType, CashTypes, RequestedType DEF Counter
        <2>3. /\ ledger[b].costMicro = Spent(b)
              /\ ledger[b].reservedMicro <= MicroHeld(b)
            BY <1>1 DEF CashBucket
        <2>4. \/ Spent(b) + MicroHeld(b) >= plan.maxMicro
              \/ Spent(b) + MicroHeld(b) + Requested(estimate) > plan.maxMicro
            BY <1>3, <2>2, <2>3 DEF BlockedByCost, CannotCover, CommittedMicro
        <2> QED
            BY <2>1, <2>4
    <1>4. CASE BlockedByUnknownCost(ledger[b])
        BY <1>1, <1>4 DEF BlockedByUnknownCost, CashBucket
    <1> QED
        BY <1>2, <1>3, <1>4 DEF Refuses

\* No leak or stale counter ever turns a consultation away (reserve).
THEOREM RefusalsJustified == Spec => RefusalsAreJustified
    <1> DEFINE Justified(c) ==
                 LET b == BucketOf[c] IN
                 (status[c] = "idle" /\ status'[c] \in {"refused", "asking"}) =>
                     \/ CallLimited
                        /\ Cardinality(Charged(b)) + Cardinality(Holders(b)) >= plan.maxCalls
                     \/ CostLimited /\ \/ Spent(b) + MicroHeld(b) >= plan.maxMicro
                                       \/ Spent(b) + MicroHeld(b) + Requested(handle'[c].estimate)
                                             > plan.maxMicro
                     \/ plan.stopOnUnknown /\ \E x \in Charged(b) : paid[x] = None
    <1>1. CashInv /\ [Next]_vars => [\A c \in Consults : Justified(c)]_vars
        <2> SUFFICES ASSUME CashInv, Next, NEW c \in Consults,
                            status[c] = "idle", status'[c] \in {"refused", "asking"}
                     PROVE  Justified(c)
            OBVIOUS
        <2>1. PICK estimate \in Estimates \cup {None} : ReserveRefused(c, estimate)
            <3>1. status \in [Consults -> Status]
                BY DEF CashInv, SlotInv, TypeOK
            <3>2. ASSUME NEW d \in Consults, NEW e \in Estimates \cup {None},
                         ReserveGranted(d, e)
                  PROVE  FALSE
                BY <3>1, <3>2 DEF ReserveGranted
            <3>3. ASSUME NEW d \in Consults, NEW e \in Estimates \cup {None},
                         ReserveRefused(d, e)
                  PROVE  d = c
                BY <3>1, <3>3 DEF ReserveRefused
            <3>4. ASSUME NEW d \in Consults, NEW cost \in Costs \cup {None},
                         \/ Approve(d) \/ Decline(d) \/ Settle(d, cost)
                         \/ Release(d) \/ ReleaseAsCall(d)
                  PROVE  FALSE
                BY <3>1, <3>4 DEF Approve, Decline, Settle, Release, ReleaseAsCall
            <3>5. ASSUME NEW b \in Buckets, Reset(b) \/ Look(b)
                  PROVE  FALSE
                BY <3>5 DEF Reset, Look
            <3>6. ASSUME ResetAll \/ Crash
                  PROVE  FALSE
                BY <3>1, <3>6 DEF ResetAll, Crash
            <3> QED
                BY <3>2, <3>3, <3>4, <3>5, <3>6 DEF Next
        <2>2. /\ plan.enabled
              /\ Refuses(ledger[BucketOf[c]], estimate)
              /\ BucketOf[c] \in Buckets
              /\ handle'[c].estimate = estimate
            BY <2>1, ConstantsAssumption DEF ReserveRefused, CashInv, SlotInv, TypeOK
        <2> QED
            BY <2>2, RefusalIsReal
    <1> QED
        BY CashCorrect, <1>1, PTL DEF Spec, RefusalsAreJustified
=============================================================================
