------------------------- MODULE SessionGate_proofs -------------------------
(***************************************************************************)
(* Proofs about SessionGate for every set of slots, signatures and         *)
(* configurations, every threshold and every call limit: type correctness, *)
(* the call limit, the gating of repetitions, and the two properties of a  *)
(* blocked session.                                                        *)
(***************************************************************************)
EXTENDS SessionGate, FiniteSetTheorems, TLAPS

-----------------------------------------------------------------------------
(* The saturating counters *)

LEMMA UpToEffect ==
    ASSUME NEW bound \in Nat, NEW n \in 0..bound
    PROVE  /\ UpTo(bound, n) \in 0..bound
           /\ UpTo(bound, n) <= n + 1
           /\ n < bound => UpTo(bound, n) = n + 1
    BY DEF UpTo

LEMMA ConsumedType ==
    ASSUME TypeOK
    PROVE  Consumed \in 0..MaxConsumed
    BY UpToEffect, SessionGateAssumption DEF TypeOK, Consumed

LEMMA CountOfType ==
    ASSUME TypeOK, NEW g \in Signatures
    PROVE  CountOf(g) \in 0..Threshold /\ CountOf(g) # 0
    <1>1. Threshold \in Nat /\ Threshold >= 2
        BY SessionGateAssumption
    <1>2. count \in 0..Threshold
        BY DEF TypeOK
    <1>3. g = previous => count # 0
        BY SessionGateAssumption DEF TypeOK
    <1> QED
        BY <1>1, <1>2, <1>3 DEF CountOf, UpTo

LEMMA StartedType ==
    ASSUME TypeOK, NEW g \in Signatures
    PROVE  Started(g) \in [sig: Signatures \cup {None}, n: 0..Threshold]
    <1>1. Threshold \in Nat /\ Threshold >= 2
        BY SessionGateAssumption
    <1>2. streak.n \in 0..Threshold
        BY DEF TypeOK
    <1>3. UpTo(Threshold, streak.n) \in 0..Threshold
        BY <1>1, <1>2, UpToEffect
    <1> QED
        BY <1>1, <1>3 DEF Started

LEMMA DecidedType ==
    ASSUME TypeOK, NEW g \in Signatures \cup {None}
    PROVE  Decided(g) \in [sig: Signatures \cup {None}, n: 0..Threshold]
    BY SessionGateAssumption DEF TypeOK, Decided

-----------------------------------------------------------------------------
(* Type correctness *)

LEMMA TypeInit == Init => TypeOK
    <1> SUFFICES ASSUME Init PROVE TypeOK
        OBVIOUS
    <1>1. 0 \in 0..MaxConsumed /\ 0 \in 0..Threshold
        BY SessionGateAssumption
    <1>2. /\ config \in Configs
          /\ slots \subseteq Slots
          /\ pc \in [Slots -> {"idle", "gating", "judging", "running", "asked", "consulting"}]
          /\ sig \in [Slots -> Signatures \cup {None}]
        BY DEF Init
    <1>3. streak \in [sig: Signatures \cup {None}, n: 0..Threshold]
        BY <1>1 DEF Init, NoStreak
    <1> QED
        BY <1>1, <1>2, <1>3 DEF Init, TypeOK

\* How a gate ends: every answer leaves the configuration and the signatures alone,
\* decides about the signature, and ends the wait of its slot only.
LEMMA AnswerType ==
    ASSUME TypeOK, NEW s \in slots, GateAnswer(s)
    PROVE  TypeOK'
    <1>1. Decided(sig[s]) \in [sig: Signatures \cup {None}, n: 0..Threshold]
        BY DecidedType DEF TypeOK
    <1>2. 0 \in 0..Threshold
        BY SessionGateAssumption
    <1>3. CASE GateRefused(s)
        BY <1>1, <1>2, <1>3 DEF GateRefused, Allow, TypeOK
    <1>4. CASE GateFailed(s)
        BY <1>1, <1>2, <1>4, ConsumedType DEF GateFailed, FailGate, Allow, Deny, TypeOK
    <1>5. CASE GateProceed(s)
        BY <1>1, <1>2, <1>5, ConsumedType DEF GateProceed, Allow, TypeOK
    <1>6. CASE GateRevise(s)
        BY <1>1, <1>6, ConsumedType DEF GateRevise, Deny, TypeOK
    <1> QED
        BY <1>3, <1>4, <1>5, <1>6 DEF GateAnswer

\* What the handler does with a tool call before any await.
LEMMA HandlerType ==
    ASSUME TypeOK, NEW s \in slots, NEW g \in Signatures,
           PreExecuteAllowed(s, g) \/ GateBegin(s, g) \/ GateExhausted(s, g)
    PROVE  TypeOK'
    <1>1. /\ CountOf(g) \in 0..Threshold
          /\ CountOf(g) # 0
          /\ g # None
        BY CountOfType, SessionGateAssumption
    <1>2. 0 \in 0..Threshold
        BY SessionGateAssumption
    <1>3. CASE PreExecuteAllowed(s, g)
        <2>1. Started(g) \in [sig: Signatures \cup {None}, n: 0..Threshold]
            BY StartedType
        <2> QED
            BY <1>1, <1>3, <2>1 DEF PreExecuteAllowed, Allow, TypeOK
    <1>4. CASE GateBegin(s, g)
        BY <1>1, <1>2, <1>4 DEF GateBegin, TypeOK
    <1>5. CASE GateExhausted(s, g)
        BY <1>1, <1>2, <1>5 DEF GateExhausted, Allow, TypeOK
    <1> QED
        BY <1>3, <1>4, <1>5

LEMMA AskType ==
    ASSUME TypeOK, NEW s \in slots,
           \/ GateConsults(s) \/ ToolDone(s)
           \/ AskBegin(s) \/ AskConsults(s) \/ AskThrows(s) \/ AskEnds(s)
    PROVE  TypeOK'
    BY ConsumedType
       DEF GateConsults, AskBegin, AskConsults, AskThrows, AskEnds, ToolDone, stateVars, TypeOK

LEMMA TypeStep == TypeOK /\ [Next]_vars => TypeOK'
    <1> SUFFICES ASSUME TypeOK, [Next]_vars PROVE TypeOK'
        OBVIOUS
    <1>1. CASE UNCHANGED vars
        BY <1>1 DEF vars, stateVars, TypeOK
    <1>2. CASE SessionStart
        <2>1. 0 \in 0..MaxConsumed /\ 0 \in 0..Threshold
            BY SessionGateAssumption
        <2>2. streak' \in [sig: Signatures \cup {None}, n: 0..Threshold]
            BY <1>2, <2>1 DEF SessionStart, NoStreak
        <2> QED
            BY <1>2, <2>1, <2>2 DEF SessionStart, TypeOK
    <1>3. ASSUME NEW s \in slots, PreExecuteDenied(s) PROVE TypeOK'
        BY <1>1, <1>3 DEF PreExecuteDenied
    <1>4. ASSUME NEW s \in slots, NEW g \in Signatures,
                 PreExecuteAllowed(s, g) \/ GateBegin(s, g) \/ GateExhausted(s, g)
          PROVE  TypeOK'
        BY <1>4, HandlerType
    <1>5. ASSUME NEW s \in slots, AskBegin(s) \/ Finishes(s) PROVE TypeOK'
        BY <1>5, AnswerType, AskType DEF Finishes
    <1> QED
        BY <1>1, <1>2, <1>3, <1>4, <1>5 DEF Next

\* The type invariant of one Agent's session, for every configuration.
THEOREM TypeCorrect == Spec => []TypeOK
    BY TypeInit, TypeStep, PTL DEF Spec

-----------------------------------------------------------------------------
(* The call limit *)

\* The inductive invariant.  CallLimitHolds is nearly inductive: it only lacks that
\* the harness has a slot at all.
LimitInv ==
    /\ TypeOK
    /\ slots # {}
    /\ CallLimitHolds

\* The slot of a call whose handler returns, or whose wait ends.
LEMMA OwnSlot ==
    ASSUME TypeOK, NEW s \in slots, NEW p, pc' = [pc EXCEPT ![s] = p]
    PROVE  /\ pc'[s] = p
           /\ \A t \in Slots : t # s => pc'[t] = pc[t]
    BY DEF TypeOK

\* Slot s stops consulting; nothing else about who consults changes.
LEMMA FewerConsulting ==
    ASSUME TypeOK, NEW s \in slots,
           pc[s] \in {"gating", "judging", "consulting"},
           pc'[s] \notin {"gating", "judging", "consulting"},
           \A t \in Slots : t # s => pc'[t] = pc[t], slots' = slots
    PROVE  /\ Consulting' = Consulting \ {s}
           /\ Cardinality(Consulting') = Cardinality(Consulting) - 1
    <1>1. Consulting' = Consulting \ {s} /\ s \in Consulting
        BY DEF Consulting, Gated, TypeOK
    <1>2. IsFiniteSet(Consulting)
        BY SessionGateAssumption, FS_Subset DEF Consulting, Gated, TypeOK
    <1> QED
        BY <1>1, <1>2, FS_RemoveElement

LEMMA ConsultingIsFinite ==
    ASSUME TypeOK
    PROVE  /\ IsFiniteSet(slots) /\ IsFiniteSet(Consulting)
           /\ Cardinality(slots) \in Nat /\ Cardinality(Consulting) \in Nat
           /\ Cardinality(Consulting) <= Cardinality(slots)
    <1>1. IsFiniteSet(slots) /\ Consulting \subseteq slots
        BY SessionGateAssumption, FS_Subset DEF Consulting, Gated, TypeOK
    <1> QED
        BY <1>1, FS_Subset, FS_CardinalityType

LEMMA LimitInit == Init => LimitInv
    <1> SUFFICES ASSUME Init PROVE LimitInv
        OBVIOUS
    <1>1. TypeOK /\ slots # {}
        BY TypeInit DEF Init
    <1>2. Consulting = {}
        BY <1>1 DEF Init, Consulting, Gated, TypeOK
    <1>3. Cardinality(Consulting) = 0
        BY <1>2, FS_EmptySet
    <1>4. Cardinality(slots) \in Nat /\ Cardinality(slots) # 0
        BY <1>1, ConsultingIsFinite, FS_EmptySet
    <1>5. config.limit # None => config.limit \in Nat
        BY <1>1, SessionGateAssumption DEF TypeOK, Config
    <1> QED
        BY <1>1, <1>3, <1>4, <1>5 DEF Init, LimitInv, CallLimitHolds

\* A consultation that ends may consume a call, but no longer counts as running.
LEMMA LimitEnds ==
    ASSUME LimitInv, NEW s \in slots,
           pc[s] \in {"gating", "judging", "consulting"},
           pc'[s] \notin {"gating", "judging", "consulting"},
           \A t \in Slots : t # s => pc'[t] = pc[t],
           consumed' = Consumed, config' = config, slots' = slots
    PROVE  CallLimitHolds'
    <1>1. TypeOK /\ CallLimitHolds
        BY DEF LimitInv
    <1>2. Cardinality(Consulting') = Cardinality(Consulting) - 1
        BY <1>1, FewerConsulting
    <1>3. /\ Cardinality(slots) \in Nat /\ Cardinality(Consulting) \in Nat
          /\ Cardinality(Consulting) <= Cardinality(slots)
        BY <1>1, ConsultingIsFinite
    <1>4. config.limit # None => config.limit \in Nat
        BY <1>1, SessionGateAssumption DEF TypeOK, Config
    <1>5. consumed \in 0..MaxConsumed /\ MaxConsumed \in Nat
        BY <1>1, SessionGateAssumption DEF TypeOK
    <1>6. Consumed \in Nat /\ Consumed <= consumed + 1
        BY <1>5, UpToEffect DEF Consumed
    <1>7. SUFFICES ASSUME Counted, config.limit # None, Consumed >= config.limit
                   PROVE  Consumed + Cardinality(Consulting')
                             <= config.limit + Cardinality(slots) - 1
        BY DEF CallLimitHolds, Counted
    <1>8. CASE consumed >= config.limit
        <2>1. consumed + Cardinality(Consulting) <= config.limit + Cardinality(slots) - 1
            BY <1>1, <1>7, <1>8 DEF CallLimitHolds
        <2> QED
            BY <1>2, <1>3, <1>4, <1>5, <1>6, <1>7, <2>1
    <1>9. CASE consumed < config.limit
        BY <1>2, <1>3, <1>4, <1>5, <1>6, <1>7, <1>9
    <1> QED
        BY <1>4, <1>5, <1>7, <1>8, <1>9

\* A step that neither consumes a call nor starts a consultation.
LEMMA LimitKept ==
    ASSUME LimitInv, UNCHANGED <<config, slots>>,
           consumed' = consumed, Consulting' = Consulting
    PROVE  CallLimitHolds'
    BY DEF LimitInv, CallLimitHolds, Counted

\* A consultation starts only below the limit.
LEMMA LimitBelow ==
    ASSUME LimitInv, UNCHANGED <<config, slots, consumed>>, Counted => CanConsult
    PROVE  CallLimitHolds'
    <1>1. config.limit # None => config.limit \in Nat
        BY SessionGateAssumption DEF LimitInv, TypeOK, Config
    <1>2. consumed \in Nat
        BY SessionGateAssumption DEF LimitInv, TypeOK
    <1>3. Counted /\ config.limit # None => consumed < config.limit
        BY DEF CanConsult
    <1> QED
        BY <1>1, <1>2, <1>3 DEF CallLimitHolds, Counted

LEMMA LimitStep == LimitInv /\ [Next]_vars => LimitInv'
    <1> SUFFICES ASSUME LimitInv, [Next]_vars PROVE LimitInv'
        OBVIOUS
    <1>1. TypeOK'
        BY TypeStep DEF LimitInv
    <1>2. CASE UNCHANGED vars
        BY <1>2 DEF vars, stateVars, LimitInv, TypeOK, CallLimitHolds, Counted, Consulting, Gated
    <1>3. CASE SessionStart
        <2>1. Consulting' = Consulting /\ slots' = slots /\ config' = config /\ consumed' = 0
            BY <1>3 DEF SessionStart, Consulting, Gated
        <2>2. /\ Cardinality(slots) \in Nat /\ Cardinality(Consulting) \in Nat
              /\ Cardinality(Consulting) <= Cardinality(slots)
            BY ConsultingIsFinite DEF LimitInv
        <2>3. config.limit # None => config.limit \in Nat
            BY SessionGateAssumption DEF LimitInv, TypeOK, Config
        <2>4. consumed \in Nat
            BY SessionGateAssumption DEF LimitInv, TypeOK
        <2>5. CallLimitHolds'
            BY <2>1, <2>2, <2>3, <2>4 DEF LimitInv, CallLimitHolds, Counted
        <2> QED
            BY <1>1, <2>1, <2>5 DEF LimitInv
    <1>4. ASSUME NEW s \in slots, PreExecuteDenied(s) PROVE LimitInv'
        BY <1>2, <1>4 DEF PreExecuteDenied
    <1>5. ASSUME NEW s \in slots, NEW g \in Signatures, PreExecuteAllowed(s, g)
          PROVE  LimitInv'
        <2>1. Consulting' = Consulting
            BY <1>5 DEF PreExecuteAllowed, Allow, Consulting, Gated, LimitInv, TypeOK
        <2> QED
            BY <1>1, <1>5, <2>1, LimitKept DEF PreExecuteAllowed, LimitInv
    <1>6. ASSUME NEW s \in slots, NEW g \in Signatures, GateBegin(s, g)
          PROVE  LimitInv'
        BY <1>1, <1>6, LimitBelow DEF GateBegin, LimitInv
    <1>7. ASSUME NEW s \in slots, NEW g \in Signatures, GateExhausted(s, g)
          PROVE  LimitInv'
        <2>1. Consulting' = Consulting
            BY <1>7 DEF GateExhausted, Allow, Consulting, Gated, LimitInv, TypeOK
        <2> QED
            BY <1>1, <1>7, <2>1, LimitKept DEF GateExhausted, LimitInv
    <1>8. ASSUME NEW s \in slots, GateRefused(s) PROVE LimitInv'
        <2>1. ~Counted'
            BY <1>8 DEF GateRefused, Counted
        <2> QED
            BY <1>1, <1>8, <2>1 DEF GateRefused, LimitInv, CallLimitHolds
    <1>9. ASSUME NEW s \in slots, GateFailed(s) \/ GateProceed(s) \/ GateRevise(s)
          PROVE  LimitInv'
        <2>1. pc[s] = "judging" /\ consumed' = Consumed /\ config' = config /\ slots' = slots
            BY <1>9 DEF GateFailed, GateProceed, GateRevise
        <2>2. /\ pc'[s] \in {"running", "idle"}
              /\ \A t \in Slots : t # s => pc'[t] = pc[t]
            BY <1>9, OwnSlot
               DEF GateFailed, GateProceed, GateRevise, FailGate, Allow, Deny, LimitInv
        <2>3. CallLimitHolds'
            BY <2>1, <2>2, LimitEnds
        <2> QED
            BY <1>1, <2>1, <2>3 DEF LimitInv
    <1>10. ASSUME NEW s \in slots,
                  GateConsults(s) \/ AskBegin(s) \/ AskThrows(s) \/ ToolDone(s)
           PROVE  LimitInv'
        <2>1. Consulting' = Consulting
            BY <1>10 DEF GateConsults, AskBegin, AskThrows, ToolDone, Consulting, Gated,
                         LimitInv, TypeOK
        <2> QED
            BY <1>1, <1>10, <2>1, LimitKept
               DEF GateConsults, AskBegin, AskThrows, ToolDone, stateVars, LimitInv
    <1>11. ASSUME NEW s \in slots, AskConsults(s) PROVE LimitInv'
        BY <1>1, <1>11, LimitBelow DEF AskConsults, stateVars, LimitInv
    <1>12. ASSUME NEW s \in slots, AskEnds(s) PROVE LimitInv'
        <2>1. /\ pc[s] = "consulting" /\ pc'[s] = "idle"
              /\ \A t \in Slots : t # s => pc'[t] = pc[t]
              /\ consumed' = Consumed /\ config' = config /\ slots' = slots
            BY <1>12, OwnSlot DEF AskEnds, LimitInv
        <2>2. CallLimitHolds'
            BY <2>1, LimitEnds
        <2> QED
            BY <1>1, <2>1, <2>2 DEF LimitInv
    <1> QED
        BY <1>2, <1>3, <1>4, <1>5, <1>6, <1>7, <1>8, <1>9, <1>10, <1>11, <1>12
           DEF Next, Finishes, GateAnswer

\* However many tool calls run at a time and however often the session restarts, the
\* call limit (canConsult, consumeCall) is passed by less than their number.
THEOREM CallLimitCorrect == Spec => []CallLimitHolds
    <1>1. LimitInv => CallLimitHolds
        BY DEF LimitInv
    <1> QED
        BY <1>1, LimitInit, LimitStep, PTL DEF Spec

-----------------------------------------------------------------------------
(* A harness without parallel tool calls *)

LEMMA SequentialSlot ==
    ASSUME TypeOK, Sequential, NEW s \in slots, NEW t \in slots
    PROVE  s = t
    <1>1. IsFiniteSet(slots)
        BY ConsultingIsFinite
    <1>2. PICK x : slots = {x}
        BY <1>1, FS_Singleton DEF Sequential
    <1> QED
        BY <1>2

\* While the only call waits for its gate, nobody else can have blocked the session.
GateIsUnblocked == Sequential => \A s \in slots : Gated(s) => ~blocked

BlockInv == TypeOK /\ GateIsUnblocked

LEMMA BlockInit == Init => BlockInv
    <1> SUFFICES ASSUME Init PROVE BlockInv
        OBVIOUS
    <1>1. TypeOK
        BY TypeInit
    <1>2. GateIsUnblocked
        BY DEF Init, GateIsUnblocked, Gated
    <1> QED
        BY <1>1, <1>2 DEF BlockInv

\* In a harness without parallel calls, what a step does to its own slot is all it
\* does to any.
LEMMA BlockKept ==
    ASSUME BlockInv, TypeOK', NEW s \in slots, slots' = slots,
           ~Gated(s)' \/ ~blocked'
    PROVE  BlockInv'
    <1>1. ASSUME Sequential, NEW t \in slots PROVE t = s
        BY <1>1, SequentialSlot DEF BlockInv
    <1> QED
        BY <1>1 DEF BlockInv, GateIsUnblocked, Gated, Sequential

LEMMA BlockStep == BlockInv /\ [Next]_vars => BlockInv'
    <1> SUFFICES ASSUME BlockInv, [Next]_vars PROVE BlockInv'
        OBVIOUS
    <1>1. TypeOK'
        BY TypeStep DEF BlockInv
    <1>2. CASE UNCHANGED vars
        BY <1>1, <1>2 DEF vars, stateVars, BlockInv, GateIsUnblocked, Gated, Sequential
    <1>3. CASE SessionStart
        BY <1>1, <1>3 DEF SessionStart, BlockInv, GateIsUnblocked, Gated
    <1>4. ASSUME NEW s \in slots, PreExecuteDenied(s) PROVE BlockInv'
        BY <1>2, <1>4 DEF PreExecuteDenied
    <1>5. ASSUME NEW s \in slots, NEW g \in Signatures,
                 PreExecuteAllowed(s, g) \/ GateBegin(s, g)
          PROVE  BlockInv'
        <2>1. slots' = slots /\ ~blocked'
            BY <1>5 DEF PreExecuteAllowed, GateBegin, Allow
        <2> QED
            BY <1>1, <2>1, BlockKept
    <1>6. ASSUME NEW s \in slots, NEW g \in Signatures, GateExhausted(s, g)
          PROVE  BlockInv'
        <2>1. slots' = slots /\ ~Gated(s)'
            BY <1>6, OwnSlot DEF GateExhausted, Allow, Gated, BlockInv
        <2> QED
            BY <1>1, <2>1, BlockKept
    <1>7. ASSUME NEW s \in slots, GateAnswer(s) PROVE BlockInv'
        <2>1. slots' = slots /\ ~Gated(s)'
            BY <1>7, OwnSlot
               DEF GateAnswer, GateRefused, GateFailed, GateProceed, GateRevise, FailGate,
                   Allow, Deny, Gated, BlockInv
        <2> QED
            BY <1>1, <2>1, BlockKept
    <1>8. ASSUME NEW s \in slots,
                 AskBegin(s) \/ AskConsults(s) \/ AskThrows(s) \/ AskEnds(s) \/ ToolDone(s)
          PROVE  BlockInv'
        <2>1. slots' = slots /\ ~Gated(s)'
            BY <1>8, OwnSlot
               DEF AskBegin, AskConsults, AskThrows, AskEnds, ToolDone, Gated, BlockInv
        <2> QED
            BY <1>1, <2>1, BlockKept
    <1>9. ASSUME NEW s \in slots, GateConsults(s) PROVE BlockInv'
        <2>1. slots' = slots /\ blocked' = blocked /\ pc[s] = "gating"
            BY <1>9 DEF GateConsults, stateVars
        <2>2. Sequential => ~blocked
            BY <2>1 DEF BlockInv, GateIsUnblocked, Gated
        <2>3. ASSUME Sequential' PROVE BlockInv'
            BY <1>1, <2>1, <2>2, <2>3, BlockKept DEF Sequential
        <2> QED
            BY <1>1, <2>3 DEF BlockInv, GateIsUnblocked
    <1> QED
        BY <1>2, <1>3, <1>4, <1>5, <1>6, <1>7, <1>8, <1>9 DEF Next, Finishes

\* Whose call starts, or starts to consult, in a step.
LEMMA StartsUnblocked ==
    ASSUME BlockInv, Next, Sequential, NEW t \in Slots,
           pc[t] # pc'[t], pc'[t] \in {"running", "consulting", "gating", "judging"}
    PROVE  ~blocked
    <1>1. CASE SessionStart
        BY <1>1 DEF SessionStart
    <1>2. ASSUME NEW s \in slots, PreExecuteDenied(s) PROVE ~blocked
        BY <1>2 DEF PreExecuteDenied, vars
    <1>3. ASSUME NEW s \in slots, NEW g \in Signatures,
                 PreExecuteAllowed(s, g) \/ GateBegin(s, g) \/ GateExhausted(s, g)
          PROVE  ~blocked
        BY <1>3 DEF PreExecuteAllowed, GateBegin, GateExhausted
    <1>4. ASSUME NEW s \in slots, GateConsults(s) \/ GateAnswer(s) PROVE ~blocked
        BY <1>4
           DEF GateConsults, GateAnswer, GateRefused, GateFailed, GateProceed, GateRevise,
               BlockInv, GateIsUnblocked, Gated
    <1>5. ASSUME NEW s \in slots, AskThrows(s) \/ AskEnds(s) \/ ToolDone(s) PROVE ~blocked
        <2>1. pc' = [pc EXCEPT ![s] = "idle"]
            BY <1>5 DEF AskThrows, AskEnds, ToolDone
        <2>2. pc'[s] = "idle" /\ \A u \in Slots : u # s => pc'[u] = pc[u]
            BY <2>1, OwnSlot DEF BlockInv
        <2> QED
            BY <2>2
    <1>6. ASSUME NEW s \in slots, AskBegin(s) \/ AskConsults(s) PROVE ~blocked
        BY <1>6 DEF AskBegin, AskConsults
    <1> QED
        BY <1>1, <1>2, <1>3, <1>4, <1>5, <1>6 DEF Next, Finishes

\* Without parallel tool calls a blocked session starts no tool, no gate and no
\* consultation, and the verdict a call waits for was asked in an unblocked session.
THEOREM SequentialBlockCorrect == Spec => SequentialBlockHolds
    <1>1. BlockInv /\ [Next]_vars =>
             [Sequential =>
                \A s \in Slots :
                   (pc[s] # pc'[s] /\ pc'[s] \in {"running", "consulting", "gating", "judging"})
                       => ~blocked]_vars
        BY StartsUnblocked
    <1> QED
        BY <1>1, BlockInit, BlockStep, PTL DEF Spec, SequentialBlockHolds

-----------------------------------------------------------------------------
(* The budget never blocks *)

\* A gate that stops waiting for its reservation without consulting was refused or
\* declined.
LEMMA RefusedRuns ==
    ASSUME TypeOK, Next, NEW t \in slots, pc[t] = "gating", ~Gated(t)'
    PROVE  pc'[t] = "running" /\ blocked' = blocked
    <1>1. ~SessionStart
        BY DEF SessionStart, Gated
    <1>2. ASSUME NEW s \in slots PROVE ~PreExecuteDenied(s)
        BY DEF PreExecuteDenied, vars, Gated
    <1>3. ASSUME NEW s \in slots, NEW p, pc' = [pc EXCEPT ![s] = p] PROVE t = s
        BY <1>3 DEF Gated, TypeOK
    <1>4. ASSUME NEW s \in slots, NEW g \in Signatures
          PROVE  ~(PreExecuteAllowed(s, g) \/ GateBegin(s, g) \/ GateExhausted(s, g))
        BY <1>3 DEF PreExecuteAllowed, GateBegin, GateExhausted, Allow, Gated
    <1>5. ASSUME NEW s \in slots
          PROVE  ~(\/ AskBegin(s) \/ AskConsults(s) \/ AskThrows(s) \/ AskEnds(s)
                   \/ ToolDone(s) \/ GateFailed(s) \/ GateProceed(s) \/ GateRevise(s))
        BY <1>3 DEF AskBegin, AskConsults, AskThrows, AskEnds, ToolDone, GateFailed,
                    GateProceed, GateRevise, FailGate, Allow, Deny
    <1>6. ASSUME NEW s \in slots PROVE ~GateConsults(s)
        BY <1>3, OwnSlot DEF GateConsults, Gated
    <1>7. PICK s \in slots : GateRefused(s)
        BY <1>1, <1>2, <1>4, <1>5, <1>6 DEF Next, Finishes, GateAnswer
    <1>8. pc' = [pc EXCEPT ![s] = "running"] /\ blocked' = blocked
        BY <1>7 DEF GateRefused, Allow
    <1> QED
        BY <1>3, <1>8, OwnSlot

\* With the consultation budget on, the only step that blocks a session is the end of
\* a consultation that was held: never the exhausted counter, never a refusal.
LEMMA BudgetBlocksStep ==
    ASSUME TypeOK, Next, config.budget, ~blocked, blocked'
    PROVE  \E s \in slots : pc[s] = "judging" /\ pc'[s] = "idle"
    <1>1. ~SessionStart
        BY DEF SessionStart
    <1>2. ASSUME NEW s \in slots PROVE ~PreExecuteDenied(s)
        BY DEF PreExecuteDenied, vars
    <1>3. ASSUME NEW s \in slots, NEW g \in Signatures
          PROVE  ~(PreExecuteAllowed(s, g) \/ GateBegin(s, g) \/ GateExhausted(s, g))
        BY DEF PreExecuteAllowed, GateBegin, GateExhausted, Allow, Counted
    <1>4. ASSUME NEW s \in slots
          PROVE  ~(\/ AskBegin(s) \/ AskConsults(s) \/ AskThrows(s) \/ AskEnds(s)
                   \/ ToolDone(s) \/ GateConsults(s) \/ GateRefused(s) \/ GateProceed(s)
                   \/ GateRevise(s))
        BY DEF AskBegin, AskConsults, AskThrows, AskEnds, ToolDone, stateVars, GateConsults,
               GateRefused, GateProceed, GateRevise, Allow, Deny
    <1>5. PICK s \in slots : GateFailed(s)
        BY <1>1, <1>2, <1>3, <1>4 DEF Next, Finishes, GateAnswer
    <1>6. pc[s] = "judging" /\ pc' = [pc EXCEPT ![s] = "idle"]
        BY <1>5 DEF GateFailed, FailGate, Allow, Deny
    <1> QED
        BY <1>6, OwnSlot

\* "A budget stop must never end the session; it only withdraws the Advisor"
\* (runLoopGate): a refused or declined consultation lets the tool call run and
\* leaves the session as it was, and only a gate that consulted blocks one, whatever
\* the failure mode and wherever the legacy counter stands.
THEOREM BudgetNeverBlocksCorrect == Spec => BudgetNeverBlocks
    <1>1. TypeOK /\ [Next]_vars =>
             [config.budget =>
                /\ \A s \in slots :
                      (pc[s] = "gating" /\ ~Gated(s)') => pc'[s] = "running" /\ blocked' = blocked
                /\ (~blocked /\ blocked') =>
                      \E s \in slots : pc[s] = "judging" /\ pc'[s] = "idle"]_vars
        BY RefusedRuns, BudgetBlocksStep
    <1> QED
        BY <1>1, TypeInit, TypeStep, PTL DEF Spec, BudgetNeverBlocks

-----------------------------------------------------------------------------
(* Repetitions *)

\* RepeatsAreGated says nothing about the counter that enforces it.  Without
\* parallel calls the counter is about the call that last started, and has counted
\* at least as many of its starts as came after the last gate decision; when it was
\* reset, there are none.  A waiting gate is about that call, too.
CountCovers ==
    /\ previous = None => streak.n = 0
    /\ previous # None => streak.sig = previous /\ streak.n <= count
    /\ streak.n < Threshold
    /\ \A s \in slots : Gated(s) => sig[s] = streak.sig \/ streak.n = 0

RepeatInv ==
    /\ TypeOK
    /\ Sequential /\ ~config.simple => CountCovers

LEMMA RepeatInit == Init => RepeatInv
    <1> SUFFICES ASSUME Init PROVE RepeatInv
        OBVIOUS
    <1>1. TypeOK
        BY TypeInit
    <1>2. Threshold \in Nat /\ Threshold > 0
        BY SessionGateAssumption
    <1> QED
        BY <1>1, <1>2 DEF Init, NoStreak, RepeatInv, CountCovers, Gated

\* What a start of call g makes of the streak and the counter.
LEMMA StartCovered ==
    ASSUME TypeOK, CountCovers, NEW g \in Signatures, CountOf(g) < Threshold
    PROVE  /\ Started(g).sig = g
           /\ Started(g).n <= CountOf(g)
           /\ Started(g).n < Threshold
    <1>1. Threshold \in Nat /\ Threshold >= 2
        BY SessionGateAssumption
    <1>2. /\ count \in 0..Threshold /\ streak.n \in 0..Threshold
          /\ CountOf(g) \in 0..Threshold
        BY <1>1, CountOfType DEF TypeOK
    <1>3. Started(g).sig = g
        BY DEF Started
    <1>4. CASE g = previous
        <2>1. streak.n <= count /\ g = streak.sig
            BY <1>4, SessionGateAssumption DEF CountCovers
        <2>2. UpTo(Threshold, streak.n) <= UpTo(Threshold, count)
            BY <1>1, <1>2, <2>1 DEF UpTo
        <2>3. /\ Started(g).n = UpTo(Threshold, streak.n)
              /\ CountOf(g) = UpTo(Threshold, count)
            BY <1>4, <2>1 DEF Started, CountOf
        <2>4. UpTo(Threshold, streak.n) \in 0..Threshold
            BY <1>1, <1>2, UpToEffect
        <2> QED
            BY <1>1, <1>2, <1>3, <2>2, <2>3, <2>4
    <1>5. CASE g # previous
        <2>1. g = streak.sig => streak.n = 0
            BY <1>5 DEF CountCovers
        <2>2. Started(g).n = 1
            BY <1>1, <2>1 DEF Started, UpTo
        <2>3. CountOf(g) = 1
            BY <1>5 DEF CountOf
        <2> QED
            BY <1>1, <1>3, <2>2, <2>3
    <1> QED
        BY <1>4, <1>5

\* A decision about the waiting call leaves no starts after it.
LEMMA DecidedCovered ==
    ASSUME TypeOK, CountCovers, NEW s \in slots, Gated(s)
    PROVE  Decided(sig[s]).n = 0 /\ Decided(sig[s]).sig = streak.sig
    BY DEF Decided, CountCovers

LEMMA RepeatStep == RepeatInv /\ [Next]_vars => RepeatInv'
    <1> SUFFICES ASSUME RepeatInv, [Next]_vars, TypeOK', (Sequential /\ ~config.simple)'
                 PROVE  CountCovers'
        BY TypeStep DEF RepeatInv
    <1>1. UNCHANGED <<config, slots>>
        BY DEF Next, Finishes, GateAnswer, SessionStart, PreExecuteDenied, PreExecuteAllowed,
               GateBegin, GateExhausted, GateConsults, GateRefused, GateFailed, GateProceed, GateRevise,
               AskBegin, AskConsults, AskThrows, AskEnds, ToolDone, vars
    <1>2. TypeOK /\ Sequential /\ ~config.simple /\ CountCovers
        BY <1>1 DEF RepeatInv, Sequential
    <1>3. Threshold \in Nat /\ Threshold > 0
        BY SessionGateAssumption
    <1>4. CASE UNCHANGED vars
        BY <1>2, <1>4 DEF vars, stateVars, CountCovers, Gated
    <1>5. CASE SessionStart
        BY <1>3, <1>5 DEF SessionStart, NoStreak, CountCovers, Gated
    <1>6. ASSUME NEW s \in slots, PreExecuteDenied(s) PROVE CountCovers'
        BY <1>4, <1>6 DEF PreExecuteDenied
    <1>7. ASSUME NEW s \in slots, NEW t \in slots PROVE t = s
        BY <1>2, <1>7, SequentialSlot
    <1>8. ASSUME NEW s \in slots, NEW g \in Signatures, PreExecuteAllowed(s, g)
          PROVE  CountCovers'
        <2>1. /\ CountOf(g) < Threshold /\ count' = CountOf(g) /\ previous' = g
              /\ streak' = Started(g) /\ g # None
            BY <1>2, <1>8, SessionGateAssumption DEF PreExecuteAllowed
        <2>2. pc'[s] = "running"
            BY <1>2, <1>8, OwnSlot DEF PreExecuteAllowed, Allow
        <2>3. \A t \in slots' : ~Gated(t)'
            BY <1>1, <1>7, <2>2 DEF Gated
        <2> QED
            BY <1>2, <2>1, <2>3, StartCovered DEF CountCovers
    <1>9. ASSUME NEW s \in slots, NEW g \in Signatures, GateBegin(s, g)
          PROVE  CountCovers'
        <2>1. /\ count' = CountOf(g) /\ previous' = g /\ g # None
              /\ streak' = IF g = streak.sig THEN streak ELSE [sig |-> g, n |-> 0]
              /\ sig' = [sig EXCEPT ![s] = g]
            BY <1>9, SessionGateAssumption DEF GateBegin
        <2>2. streak'.sig = g
            BY <2>1
        <2>3. streak'.n < Threshold
            BY <1>2, <1>3, <2>1 DEF CountCovers
        <2>4. sig'[s] = g
            BY <1>2, <2>1 DEF TypeOK
        <2>5. \A t \in slots' : sig'[t] = streak'.sig
            BY <1>1, <1>7, <2>2, <2>4
        <2>6. count \in 0..Threshold /\ CountOf(g) \in 0..Threshold
            BY <1>2, CountOfType DEF TypeOK
        <2>7. streak'.n <= count'
            <3>1. CASE g = streak.sig /\ g = previous
                <4>1. streak' = streak /\ streak.n <= count /\ streak.n \in 0..Threshold
                    BY <1>2, <2>1, <3>1 DEF CountCovers, TypeOK
                <4>2. count' = UpTo(Threshold, count)
                    BY <2>1, <3>1 DEF CountOf
                <4> QED
                    BY <1>3, <2>6, <4>1, <4>2 DEF UpTo
            <3>2. CASE g = streak.sig /\ g # previous
                <4>1. streak' = streak /\ streak.n = 0
                    BY <1>2, <2>1, <3>2 DEF CountCovers
                <4> QED
                    BY <2>1, <2>6, <4>1
            <3>3. CASE g # streak.sig
                BY <2>1, <2>6, <3>3
            <3> QED
                BY <3>1, <3>2, <3>3
        <2> QED
            BY <2>1, <2>2, <2>3, <2>5, <2>7 DEF CountCovers
    <1>10. ASSUME NEW s \in slots, NEW g \in Signatures, GateExhausted(s, g)
           PROVE  CountCovers'
        <2>1. streak' = [sig |-> g, n |-> 0] /\ g # None
            BY <1>10, SessionGateAssumption DEF GateExhausted
        <2>2. previous' = None \/ (previous' = g /\ count' = CountOf(g))
            BY <1>10 DEF GateExhausted
        <2>3. CountOf(g) \in 0..Threshold
            BY <1>2, CountOfType
        <2> QED
            BY <1>3, <2>1, <2>2, <2>3 DEF CountCovers
    <1>11. ASSUME NEW s \in slots, GateAnswer(s) PROVE CountCovers'
        <2>1. Gated(s) /\ streak' = Decided(sig[s])
            BY <1>11 DEF Gated, GateAnswer, GateRefused, GateFailed, GateProceed, GateRevise
        <2>2. streak'.n = 0 /\ streak'.sig = streak.sig
            BY <1>2, <2>1, DecidedCovered
        <2>3. \/ previous' = None
              \/ previous' = previous /\ count' = count
            BY <1>11
               DEF GateAnswer, GateRefused, GateFailed, GateProceed, GateRevise, FailGate
        <2>4. count' \in 0..Threshold
            BY DEF TypeOK
        <2> QED
            BY <1>2, <1>3, <2>2, <2>3, <2>4 DEF CountCovers
    <1>12. ASSUME NEW s \in slots,
                  AskBegin(s) \/ AskConsults(s) \/ AskThrows(s) \/ AskEnds(s) \/ ToolDone(s)
           PROVE  CountCovers'
        <2>1. UNCHANGED <<slots, count, previous, sig, streak>>
            BY <1>12 DEF AskBegin, AskConsults, AskThrows, AskEnds, ToolDone, stateVars
        <2>2. ~Gated(s)'
            BY <1>2, <1>12, OwnSlot
               DEF AskBegin, AskConsults, AskThrows, AskEnds, ToolDone, Gated
        <2>3. \A t \in slots' : ~Gated(t)'
            BY <1>1, <1>7, <2>2 DEF Gated
        <2> QED
            BY <1>2, <2>1, <2>3 DEF CountCovers
    <1>13. ASSUME NEW s \in slots, GateConsults(s) PROVE CountCovers'
        <2>1. /\ UNCHANGED <<slots, count, previous, sig, streak>>
              /\ Gated(s)
            BY <1>13 DEF GateConsults, stateVars, Gated
        <2>2. \A t \in slots' : sig'[t] = streak'.sig \/ streak'.n = 0
            BY <1>2, <1>7, <2>1 DEF CountCovers
        <2> QED
            BY <1>2, <2>1, <2>2 DEF CountCovers
    <1> QED
        BY <1>4, <1>5, <1>6, <1>8, <1>9, <1>10, <1>11, <1>12, <1>13 DEF Next, Finishes

\* Without parallel tool calls no call starts Threshold times in a row in one session
\* unless a gate decided about it in between.
THEOREM RepeatsCorrect == Spec => []RepeatsAreGated
    <1>1. RepeatInv => RepeatsAreGated
        BY DEF RepeatInv, RepeatsAreGated, CountCovers
    <1> QED
        BY <1>1, RepeatInit, RepeatStep, PTL DEF Spec

=============================================================================
