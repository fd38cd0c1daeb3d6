---------------------------- MODULE SessionGate ----------------------------
(***************************************************************************)
(* One Agent's Advisor session: the tools/pre-execute handler with the     *)
(* automatic loop gate, the ask_advisor tool, and the AdvisorSessionState  *)
(* they share (dsh/index.js, dsh/core.js).                                 *)
(*                                                                         *)
(* The harness runs tool calls in slots; a slot is one tool call at a time *)
(* and more than one slot is a turn with parallel tool calls.  Everything  *)
(* between two awaits is one action.  The plugin is active: an Advisor is  *)
(* configured and enabled, and the loop gate is on.  Cancelling the turn   *)
(* (advisorBlockOnBlocked) ends provider streams, which is one of the      *)
(* answers a consultation may get here.                                    *)
(***************************************************************************)
EXTENDS Integers, FiniteSets

CONSTANTS
    Slots,        \* tool calls the harness may have in execution at once
    Signatures,   \* normalized tool signatures
    Configs,      \* the configurations a process may start with
    Threshold,    \* advisorLoopThreshold
    None,         \* an absent limit or signature
    MaxConsumed   \* bound: where the model stops counting a session's consultations

Modes == {"block-session", "block-tool", "warn-and-continue"}

Config == [limit: Nat \cup {None},   \* advisorMaxCallsPerSession
           mode: Modes,              \* gateFailureMode
           budget: BOOLEAN,          \* advisorBudgetEnabled
           simple: BOOLEAN]          \* simpleMode

ASSUME SessionGateAssumption ==
    /\ IsFiniteSet(Slots)
    /\ Configs \subseteq Config
    /\ Threshold \in Nat \ {0, 1}
    /\ None \notin Nat /\ None \notin Signatures
    /\ MaxConsumed \in Nat
    /\ \A c \in Configs : c.limit # None => c.limit + Cardinality(Slots) <= MaxConsumed

VARIABLES
    config,    \* the snapshot apply() took
    slots,     \* the slots this harness uses
    blocked,   \* state.blocked
    consumed,  \* state.consumedCalls
    count,     \* state.repetition.count
    previous,  \* state.repetition.previousSignature
    pc,        \* what each slot is doing
    sig,       \* the signature of the tool call in a slot
    streak     \* history: the signature that last started or was gated, and how
               \* often in a row it started since a gate decided about it

stateVars == <<blocked, consumed, count, previous>>
vars == <<config, slots, blocked, consumed, count, previous, pc, sig, streak>>

-----------------------------------------------------------------------------
\* The legacy call counter rules only while the consultation budget is off.
Counted == ~config.simple /\ ~config.budget

\* Mutant: one consultation too many.
MutantCanConsult == IF config.limit = None THEN TRUE ELSE consumed <= config.limit

CanConsult == IF config.limit = None THEN TRUE ELSE consumed < config.limit

\* One more, as far as the bound counts.
UpTo(bound, n) == IF n < bound THEN n + 1 ELSE n

\* consumeCall.  Counting stops above every limit, where nothing reads it.
Consumed == IF Counted THEN UpTo(MaxConsumed, consumed) ELSE consumed

\* Mutant: the first call of a repetition is not counted.
MutantCountOf(g) == IF g = previous THEN UpTo(Threshold, count) ELSE 0

\* recordToolCall.  The count is only ever compared with the threshold.
CountOf(g) == IF g = previous THEN UpTo(Threshold, count) ELSE 1

NoStreak == [sig |-> None, n |-> 0]

\* Tool call g starts without a gate decision.
Started(g) == [sig |-> g, n |-> IF g = streak.sig THEN UpTo(Threshold, streak.n) ELSE 1]

\* A gate decided about tool call g.
Decided(g) == [sig |-> streak.sig, n |-> IF g = streak.sig THEN 0 ELSE streak.n]

Init ==
    /\ config \in Configs
    /\ slots \in (SUBSET Slots) \ {{}}
    /\ blocked = FALSE
    /\ consumed = 0
    /\ count = 0
    /\ previous = None
    /\ pc = [s \in Slots |-> "idle"]
    /\ sig = [s \in Slots |-> None]
    /\ streak = NoStreak

Allow(s) ==
    /\ pc' = [pc EXCEPT ![s] = "running"]
    /\ UNCHANGED blocked

Deny(s) ==
    /\ pc' = [pc EXCEPT ![s] = "idle"]
    /\ UNCHANGED blocked

\* gateFailure, and the effect of a "blocked" verdict: warn and let the tool run,
\* deny this call, or deny it and block the session.
FailGate(s) ==
    \/ /\ config.mode = "warn-and-continue"
       /\ count' = 0
       /\ previous' = None
       /\ Allow(s)
    \/ /\ config.mode = "block-tool"
       /\ Deny(s)
       /\ UNCHANGED <<count, previous>>
    \/ /\ config.mode = "block-session"
       /\ blocked' = TRUE
       /\ pc' = [pc EXCEPT ![s] = "idle"]
       /\ UNCHANGED <<count, previous>>

-----------------------------------------------------------------------------
(* tools/pre-execute *)

\* A blocked session denies every tool call, ask_advisor included.
PreExecuteDenied(s) ==
    /\ pc[s] = "idle"
    /\ blocked
    /\ UNCHANGED vars

\* Mutant: the handler does not ask whether the session is blocked.
MutantPreExecuteAllowed(s, g) ==
    /\ pc[s] = "idle"
    /\ config.simple \/ CountOf(g) < Threshold
    /\ count' = IF config.simple THEN count ELSE CountOf(g)
    /\ previous' = IF config.simple THEN previous ELSE g
    /\ Allow(s)
    /\ sig' = [sig EXCEPT ![s] = g]
    /\ streak' = Started(g)
    /\ UNCHANGED <<config, slots, consumed>>

\* In simple mode, and below the threshold, the tool runs.
PreExecuteAllowed(s, g) ==
    /\ pc[s] = "idle"
    /\ ~blocked
    /\ config.simple \/ CountOf(g) < Threshold
    /\ count' = IF config.simple THEN count ELSE CountOf(g)
    /\ previous' = IF config.simple THEN previous ELSE g
    /\ Allow(s)
    /\ sig' = [sig EXCEPT ![s] = g]
    /\ streak' = Started(g)
    /\ UNCHANGED <<config, slots, consumed>>

\* The repetition reached the threshold and the Advisor may be consulted: the handler
\* awaits its reservation of the consultation budget.
GateBegin(s, g) ==
    /\ pc[s] = "idle"
    /\ ~blocked
    /\ ~config.simple
    /\ CountOf(g) >= Threshold
    /\ Counted => CanConsult
    /\ count' = CountOf(g)
    /\ previous' = g
    /\ pc' = [pc EXCEPT ![s] = "gating"]
    /\ sig' = [sig EXCEPT ![s] = g]
    /\ streak' = IF g = streak.sig THEN streak ELSE [sig |-> g, n |-> 0]
    /\ UNCHANGED <<config, slots, blocked, consumed>>

\* The legacy call limit is used up: a gate failure before any await.  The session
\* state first records the call, then the failure mode applies.
GateExhausted(s, g) ==
    /\ pc[s] = "idle"
    /\ ~blocked
    /\ ~config.simple
    /\ CountOf(g) >= Threshold
    /\ Counted /\ ~CanConsult
    /\ \/ /\ config.mode = "warn-and-continue"
          /\ count' = 0
          /\ previous' = None
          /\ Allow(s)
       \/ /\ config.mode # "warn-and-continue"
          /\ count' = CountOf(g)
          /\ previous' = g
          /\ blocked' = (config.mode = "block-session")
          /\ UNCHANGED pc
    /\ sig' = [sig EXCEPT ![s] = g]
    /\ streak' = [sig |-> g, n |-> 0]
    /\ UNCHANGED <<config, slots, consumed>>

\* The reservation was granted, at once where the budget is off, or the user let the
\* consultation overrun the budget: the provider is asked.
GateConsults(s) ==
    /\ pc[s] = "gating"
    /\ pc' = [pc EXCEPT ![s] = "judging"]
    /\ UNCHANGED <<config, slots, stateVars, sig, streak>>

\* Mutant: a refusal counts as a failure of the gate.
MutantGateRefused(s) ==
    /\ pc[s] = "gating"
    /\ config.budget
    /\ FailGate(s)
    /\ streak' = Decided(sig[s])
    /\ UNCHANGED <<config, slots, consumed, sig>>

\* The consultation budget refused, or the user declined to overrun it.
GateRefused(s) ==
    /\ pc[s] = "gating"
    /\ config.budget
    /\ count' = 0
    /\ previous' = None
    /\ Allow(s)
    /\ streak' = Decided(sig[s])
    /\ UNCHANGED <<config, slots, consumed, sig>>

\* The provider failed, the answer held no single decision, or it was "blocked".
GateFailed(s) ==
    /\ pc[s] = "judging"
    /\ consumed' = Consumed
    /\ FailGate(s)
    /\ streak' = Decided(sig[s])
    /\ UNCHANGED <<config, slots, sig>>

\* Mutant: only half of resetRepetition.
MutantGateProceed(s) ==
    /\ pc[s] = "judging"
    /\ consumed' = Consumed
    /\ count' = 0
    /\ Allow(s)
    /\ streak' = Decided(sig[s])
    /\ UNCHANGED <<config, slots, previous, sig>>

GateProceed(s) ==
    /\ pc[s] = "judging"
    /\ consumed' = Consumed
    /\ count' = 0
    /\ previous' = None
    /\ Allow(s)
    /\ streak' = Decided(sig[s])
    /\ UNCHANGED <<config, slots, sig>>

GateRevise(s) ==
    /\ pc[s] = "judging"
    /\ consumed' = Consumed
    /\ Deny(s)
    /\ streak' = Decided(sig[s])
    /\ UNCHANGED <<config, slots, count, previous, sig>>

ToolDone(s) ==
    /\ pc[s] = "running"
    /\ pc' = [pc EXCEPT ![s] = "idle"]
    /\ UNCHANGED <<config, slots, stateVars, sig, streak>>

-----------------------------------------------------------------------------
(* ask_advisor *)

\* The pre-execute handler lets ask_advisor pass; its execute runs later.
AskBegin(s) ==
    /\ pc[s] = "idle"
    /\ ~blocked
    /\ pc' = [pc EXCEPT ![s] = "asked"]
    /\ UNCHANGED <<config, slots, stateVars, sig, streak>>

\* execute() starts the consultation.
AskConsults(s) ==
    /\ pc[s] = "asked"
    /\ ~blocked
    /\ Counted => CanConsult
    /\ pc' = [pc EXCEPT ![s] = "consulting"]
    /\ UNCHANGED <<config, slots, stateVars, sig, streak>>

\* Mutant: execute() stays silent when the limit is used up.
MutantAskThrows(s) ==
    /\ pc[s] = "asked"
    /\ blocked
    /\ pc' = [pc EXCEPT ![s] = "idle"]
    /\ UNCHANGED <<config, slots, stateVars, sig, streak>>

\* execute() throws: the session was blocked meanwhile, or the limit is used up.
AskThrows(s) ==
    /\ pc[s] = "asked"
    /\ blocked \/ (Counted /\ ~CanConsult)
    /\ pc' = [pc EXCEPT ![s] = "idle"]
    /\ UNCHANGED <<config, slots, stateVars, sig, streak>>

\* The consultation ends, answered, failed or refused: all of them count.
AskEnds(s) ==
    /\ pc[s] = "consulting"
    /\ consumed' = Consumed
    /\ pc' = [pc EXCEPT ![s] = "idle"]
    /\ UNCHANGED <<config, slots, blocked, count, previous, sig, streak>>

-----------------------------------------------------------------------------
\* agent/session-start with any source but "compact": state.reset().  Calls in
\* progress keep their place and meet the fresh state.
SessionStart ==
    /\ blocked' = FALSE
    /\ consumed' = 0
    /\ count' = 0
    /\ previous' = None
    /\ streak' = NoStreak
    /\ UNCHANGED <<config, slots, pc, sig>>

GateAnswer(s) == GateRefused(s) \/ GateFailed(s) \/ GateProceed(s) \/ GateRevise(s)

Finishes(s) ==
    GateConsults(s) \/ GateAnswer(s) \/ AskConsults(s) \/ AskThrows(s) \/ AskEnds(s) \/ ToolDone(s)

Next ==
    \/ \E s \in slots :
          \/ PreExecuteDenied(s)
          \/ \E g \in Signatures :
                PreExecuteAllowed(s, g) \/ GateBegin(s, g) \/ GateExhausted(s, g)
          \/ AskBegin(s)
          \/ Finishes(s)
    \/ SessionStart

\* Reservations and dialogs are answered, provider streams end (answered, failed or
\* cancelled) and tools return.
Fairness == \A s \in Slots : WF_vars(s \in slots /\ Finishes(s))

Spec == Init /\ [][Next]_vars
FairSpec == Spec /\ Fairness

-----------------------------------------------------------------------------
(* Properties *)

Sequential == Cardinality(slots) = 1

\* Every variable stays in its type, the counts within the bounds, and a repetition
\* is counted exactly when there is a previous signature (resetRepetition, reset).
TypeOK ==
    /\ config \in Configs
    /\ slots \subseteq Slots
    /\ blocked \in BOOLEAN
    /\ consumed \in 0..MaxConsumed
    /\ count \in 0..Threshold
    /\ previous \in Signatures \cup {None}
    /\ count = 0 <=> previous = None
    /\ pc \in [Slots -> {"idle", "gating", "judging", "running", "asked", "consulting"}]
    /\ sig \in [Slots -> Signatures \cup {None}]
    /\ streak \in [sig: Signatures \cup {None}, n: 0..Threshold]

\* The tool call waits for its gate: for the reservation or for the verdict.
Gated(s) == pc[s] \in {"gating", "judging"}

Consulting == {s \in slots : Gated(s) \/ pc[s] = "consulting"}

\* The session's call limit (canConsult before the await, consumeCall after it):
\* every consultation in flight can add one call past the check, so the limit is
\* exceeded by less than the number of parallel calls, through session restarts
\* too; without parallel calls it is exact.
CallLimitHolds ==
    (Counted /\ config.limit # None /\ consumed >= config.limit) =>
        consumed + Cardinality(Consulting) <= config.limit + Cardinality(slots) - 1

\* The loop gate (recordToolCall, runLoopGate): in a harness without parallel
\* calls no tool call starts Threshold times in a row, in one session, without a
\* gate having decided about it.
RepeatsAreGated == (Sequential /\ ~config.simple) => streak.n < Threshold

\* gateFailureMode block-session: no tool starts while the session is blocked.
NothingStartsWhileBlocked ==
    [][\A s \in Slots :
          (pc[s] # "running" /\ pc'[s] = "running") => ~blocked]_vars

\* The same without parallel tool calls, ask_advisor included.
SequentialBlockHolds ==
    [][Sequential =>
          \A s \in Slots :
             (pc[s] # pc'[s] /\ pc'[s] \in {"running", "consulting", "gating", "judging"})
                => ~blocked]_vars

\* "A budget stop must never end the session; it only withdraws the Advisor": with
\* the consultation budget on, a gate whose consultation was refused or declined lets
\* its tool call run and leaves the session as it was, whatever gateFailureMode says
\* and however often the legacy counter was used; and a session is blocked only by
\* the verdict or failure of a gate that did consult.
BudgetNeverBlocks ==
    [][config.budget =>
          /\ \A s \in slots :
                (pc[s] = "gating" /\ ~Gated(s)') => pc'[s] = "running" /\ blocked' = blocked
          /\ (~blocked /\ blocked') =>
                \E s \in slots : pc[s] = "judging" /\ pc'[s] = "idle"]_vars

\* Every tool call is decided and every consultation ends.
EveryCallEnds == \A s \in Slots : pc[s] # "idle" ~> pc[s] = "idle"
=============================================================================
