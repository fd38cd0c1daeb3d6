------------------------------ MODULE PiSession ------------------------------
(***************************************************************************)
(* One session of the Pi extension: the tool_call handler with its loop    *)
(* gate, the ask_advisor tool, the /advisor-manual command, the lifecycle  *)
(* handlers, the AdvisorSessionState they share (src/session-state.ts) and *)
(* the status they report to Herdr (src/herdr.ts).                         *)
(*                                                                         *)
(* A slot is one tool call the host has in execution; more than one slot   *)
(* is a turn with parallel tool calls.  Everything between two awaits is   *)
(* one action.  The session state and the Herdr status outlive a session:  *)
(* a call that is in flight when the session changes ends in the next one, *)
(* in any way it could have ended.  OutcomeLog has the advice a call       *)
(* issues, ScoutRun what precedes a consultation.                          *)
(***************************************************************************)
EXTENDS Integers, FiniteSets

CONSTANTS
    Slots,        \* tool calls the host may have in execution at once
    Manuals,      \* manual consultations at once
    Hosts,        \* the slots and manual consultations a host may use
    Signatures,   \* normalized tool signatures
    Configs,      \* the configurations of a session
    Threshold,    \* advisorLoopThreshold
    None          \* an absent limit or signature

Modes == {"block-session", "block-tool", "warn-and-continue"}

Config == [limit: Nat \cup {None},   \* advisorMaxCallsPerSession
           mode: Modes,              \* gateFailureMode
           simple: BOOLEAN]          \* simpleMode

ASSUME PiSessionAssumption ==
    /\ IsFiniteSet(Slots) /\ IsFiniteSet(Manuals) /\ Slots \cap Manuals = {}
    /\ Hosts \subseteq SUBSET (Slots \cup Manuals)
    /\ Configs \subseteq Config
    /\ Threshold \in Nat \ {0, 1}
    /\ None \notin Nat \cup Signatures \cup Manuals

VARIABLES
    config,
    callers,    \* those of this host
    open,       \* a session is open
    flow,       \* the ask_advisor tool is active
    blocked,    \* #blockedReason is set
    consumed,   \* #consumedCalls
    count,      \* #repetition.count
    previous,   \* #repetition.previousSignature
    pc,         \* how far each tool call and manual consultation is
    sig,        \* the signature of the tool call in a slot
    herdrOn,    \* advisorHerdrIntegration
    activity,   \* HerdrAdvisorActivity.#activeConsultations
    label,      \* Herdr shows "seeking advice"
    reported,   \* HerdrAdvisorBlock.#blocked
    edges,      \* blocked edges emitted so far, less the clearing ones
    \* History variables.  No action's guard reads them.
    current,    \* the consultations in flight that this session began
    newest,     \* the manual consultation that began last
    disturbed,  \* with a consultation in flight, the integration was switched or the
                \* status was cleared
    streak      \* one slot: which signature last started, how often in a row since a
                \* gate was consulted or refused about it

taskVars == <<blocked, consumed, count, previous>>
herdrVars == <<herdrOn, activity, label, reported, edges, disturbed>>
piVars == <<config, callers, open, flow, blocked, consumed, count, previous, pc, sig,
          herdrOn, activity, label, reported, edges, current, newest, disturbed, streak>>

-----------------------------------------------------------------------------
(* The session state *)

slots == callers \cap Slots
manuals == callers \cap Manuals

CanConsult == IF config.limit = None THEN TRUE ELSE consumed < config.limit

\* Where simple mode needs no limit, the others ask canConsult.
MayConsult == config.simple \/ CanConsult

\* consumeCall.  Counting stops where there is no limit to compare with.
Consume == consumed' = IF config.simple \/ config.limit = None THEN consumed ELSE consumed + 1

\* recordToolCall.  The count is only ever compared with the threshold.
CountOf(g) == IF g = previous THEN (IF count < Threshold THEN count + 1 ELSE count) ELSE 1

\* Mutant: only half of resetRepetition.
MutantResetRepetition == count' = 0 /\ UNCHANGED previous

ResetRepetition == count' = 0 /\ previous' = None

Sequential == Cardinality(slots) = 1
NoStreak == [sig |-> None, n |-> 0]

\* Tool call g starts, gated or not.  The history is kept without parallel calls only.
Started(g, gated) ==
    IF ~Sequential THEN NoStreak
    ELSE [sig |-> g, n |-> IF gated THEN 0
                           ELSE IF g # streak.sig THEN 1
                           ELSE IF streak.n < Threshold THEN streak.n + 1 ELSE streak.n]

-----------------------------------------------------------------------------
(* Herdr *)

InFlight == {c \in callers : pc[c] \in {"gating", "consulting", "streaming", "aborted"}}

ActivityStart ==
    /\ activity' = IF herdrOn THEN activity + 1 ELSE activity
    /\ label' = (label \/ herdrOn)

\* Mutant: the count is not looked at before it is lowered to zero.
MutantActivityFinish(c) ==
    /\ activity' = IF activity > 0 THEN activity - 1 ELSE 0
    /\ label' = (label /\ activity = 0)
    /\ disturbed' = (disturbed /\ InFlight # {c})

\* finish, when caller c is through.
ActivityFinish(c) ==
    /\ activity' = IF activity > 0 THEN activity - 1 ELSE 0
    /\ label' = (label /\ activity # 1)
    /\ disturbed' = (disturbed /\ InFlight # {c})

\* Mutant: every block emits an edge.
MutantBlockSet ==
    IF herdrOn
    THEN reported' = TRUE /\ edges' = IF edges < 2 THEN edges + 1 ELSE edges
    ELSE UNCHANGED <<reported, edges>>

\* The first block emits an edge; the listener counts them.
BlockSet ==
    IF herdrOn
    THEN reported' = TRUE /\ edges' = IF reported THEN edges ELSE edges + 1
    ELSE UNCHANGED <<reported, edges>>

BlockClear ==
    /\ reported' = FALSE
    /\ edges' = IF reported THEN edges - 1 ELSE edges

-----------------------------------------------------------------------------
PiInit ==
    /\ config \in Configs
    /\ callers \in Hosts
    /\ open = FALSE
    /\ flow \in BOOLEAN
    /\ blocked = FALSE
    /\ consumed = 0
    /\ count = 0
    /\ previous = None
    /\ pc = [c \in callers |-> "idle"]
    /\ sig = [s \in slots |-> None]
    /\ herdrOn \in BOOLEAN
    /\ activity = 0
    /\ label = FALSE
    /\ reported = FALSE
    /\ edges = 0
    /\ current = {}
    /\ newest = None
    /\ disturbed = FALSE
    /\ streak = NoStreak

Goes(c, state) == pc' = [pc EXCEPT ![c] = state]

\* Mutant: the call is consumed only after the await, where a consultation ends.
MutantConsults(c, state) ==
    /\ Goes(c, state)
    /\ ActivityStart
    /\ current' = current \cup {c}
    /\ UNCHANGED <<consumed, reported, edges, disturbed>>

\* Caller c starts a consultation: the call is consumed before the await.
Consults(c, state) ==
    /\ Consume
    /\ Goes(c, state)
    /\ ActivityStart
    /\ current' = current \cup {c}
    /\ UNCHANGED <<reported, edges, disturbed>>

\* ... and ends it.
Ends(c, state) ==
    /\ Goes(c, state)
    /\ ActivityFinish(c)
    /\ current' = current \ {c}

\* failureEffect, and blockedDecisionEffect for a "blocked" verdict: the tool call runs
\* with a warning, is denied, or is denied and the session is blocked.
Effect(outcome) ==
    /\ outcome = IF config.mode = "warn-and-continue" THEN "running" ELSE "idle"
    /\ IF config.mode = "block-session"
       THEN blocked' = TRUE /\ BlockSet
       ELSE UNCHANGED <<blocked, reported, edges>>

-----------------------------------------------------------------------------
(* tool_call.  A blocked session denies every call, and that changes nothing. *)

\* Mutant: the gate looks at the tool before it looks whether the flow is on.
MutantToolRuns(s, g) ==
    /\ open /\ pc[s] = "idle" /\ ~blocked
    /\ ~flow \/ config.simple \/ CountOf(g) <= Threshold
    /\ IF flow /\ ~config.simple
       THEN count' = CountOf(g) /\ previous' = g
       ELSE UNCHANGED <<count, previous>>
    /\ Goes(s, "running")
    /\ sig' = [sig EXCEPT ![s] = g]
    /\ streak' = Started(g, ~flow)
    /\ UNCHANGED <<config, callers, open, flow, blocked, consumed, herdrVars, current, newest>>

\* No gate: the flow is off or the configuration cannot be read (nothing is recorded
\* then), in simple mode, and below the threshold.
ToolRuns(s, g) ==
    /\ open /\ pc[s] = "idle" /\ ~blocked
    /\ ~flow \/ config.simple \/ CountOf(g) < Threshold
    /\ IF flow /\ ~config.simple
       THEN count' = CountOf(g) /\ previous' = g
       ELSE UNCHANGED <<count, previous>>
    /\ Goes(s, "running")
    /\ sig' = [sig EXCEPT ![s] = g]
    /\ streak' = Started(g, ~flow)
    /\ UNCHANGED <<config, callers, open, flow, blocked, consumed, herdrVars, current, newest>>

\* The repetition reached the threshold.
Repeats(s, g) ==
    /\ open /\ pc[s] = "idle" /\ ~blocked
    /\ flow /\ ~config.simple
    /\ CountOf(g) >= Threshold
    /\ count' = CountOf(g)
    /\ previous' = g
    /\ sig' = [sig EXCEPT ![s] = g]

GateBegin(s, g) ==
    /\ Repeats(s, g)
    /\ CanConsult
    /\ Consults(s, "gating")
    /\ UNCHANGED <<config, callers, open, flow, blocked, herdrOn, newest, streak>>

GateExhausted(s, g) ==
    /\ Repeats(s, g)
    /\ ~CanConsult
    /\ \E outcome \in {"running", "idle"} : Effect(outcome) /\ Goes(s, outcome)
    /\ streak' = Started(g, TRUE)
    /\ UNCHANGED <<config, callers, open, flow, consumed, herdrOn, activity, label, disturbed,
                   current, newest>>

GateProceeds(s) ==
    /\ pc[s] = "gating"
    /\ Ends(s, "running")
    /\ ResetRepetition
    /\ streak' = Started(sig[s], TRUE)
    /\ UNCHANGED <<config, callers, open, flow, blocked, consumed, sig, herdrOn, reported,
                   edges, newest>>

\* The verdict is "revise", or the turn was aborted and the handler throws, which
\* makes the host deny the call.
GateDenies(s) ==
    /\ pc[s] = "gating"
    /\ Ends(s, "idle")
    /\ UNCHANGED <<config, callers, open, flow, taskVars, sig, herdrOn, reported, edges,
                   newest, streak>>

\* The verdict is "blocked", or the provider failed, or the answer has no verdict.
GateFails(s) ==
    /\ pc[s] = "gating"
    /\ \E outcome \in {"running", "idle"} :
          /\ Effect(outcome)
          /\ Ends(s, outcome)
          /\ streak' = IF outcome = "running" THEN Started(sig[s], TRUE) ELSE streak
    /\ UNCHANGED <<config, callers, open, flow, consumed, count, previous, sig, herdrOn, newest>>

ToolDone(s) ==
    /\ pc[s] = "running"
    /\ Goes(s, "idle")
    /\ UNCHANGED <<config, callers, open, flow, taskVars, sig, herdrVars, current, newest, streak>>

-----------------------------------------------------------------------------
(* ask_advisor *)

\* The tool_call handler reserves nothing the code reads again: execute asks anew.
AskBegin(s) ==
    /\ open /\ pc[s] = "idle" /\ ~blocked /\ flow
    /\ MayConsult
    /\ Goes(s, "asked")
    /\ UNCHANGED <<config, callers, open, flow, taskVars, sig, herdrVars, current, newest, streak>>

AskConsults(s) ==
    /\ pc[s] = "asked"
    /\ MayConsult
    /\ Consults(s, "consulting")
    /\ UNCHANGED <<config, callers, open, flow, blocked, count, previous, sig, herdrOn, newest, streak>>

\* execute throws, because the limit is used up or the tracked files may not be
\* attached, or the host never calls it.
AskRejected(s) ==
    /\ pc[s] = "asked"
    /\ Goes(s, "idle")
    /\ UNCHANGED <<config, callers, open, flow, taskVars, sig, herdrVars, current, newest, streak>>

\* Answered, failed or aborted.
AskEnds(s) ==
    /\ pc[s] = "consulting"
    /\ Ends(s, "idle")
    /\ UNCHANGED <<config, callers, open, flow, taskVars, sig, herdrOn, reported, edges,
                   newest, streak>>

-----------------------------------------------------------------------------
(* /advisor-manual *)

ManualAsked(m) ==
    /\ open /\ pc[m] = "idle"
    /\ MayConsult
    /\ Goes(m, "dialog")
    /\ UNCHANGED <<config, callers, open, flow, taskVars, sig, herdrVars, current, newest, streak>>

\* The user closes the dialog, or the limit was used up meanwhile.
ManualGivenUp(m) ==
    /\ pc[m] = "dialog"
    /\ Goes(m, "idle")
    /\ UNCHANGED <<config, callers, open, flow, taskVars, sig, herdrVars, current, newest, streak>>

\* Mutant: the earlier consultations are not aborted.
MutantManualSubmitted(m) ==
    /\ pc[m] = "dialog"
    /\ MayConsult
    /\ Consume
    /\ pc' = [pc EXCEPT ![m] = "streaming"]
    /\ ActivityStart
    /\ current' = current \cup {m}
    /\ newest' = m
    /\ UNCHANGED <<config, callers, open, flow, blocked, count, previous, sig, herdrOn, reported,
                   edges, disturbed, streak>>

\* The user submits: the consultations that stream are aborted, and the new one starts.
ManualSubmitted(m) ==
    /\ pc[m] = "dialog"
    /\ MayConsult
    /\ Consume
    /\ pc' = [c \in callers |-> IF c = m THEN "streaming"
                                ELSE IF pc[c] = "streaming" THEN "aborted" ELSE pc[c]]
    /\ ActivityStart
    /\ current' = current \cup {m}
    /\ newest' = m
    /\ UNCHANGED <<config, callers, open, flow, blocked, count, previous, sig, herdrOn, reported,
                   edges, disturbed, streak>>

\* The answer or the error is recorded and sent to the Executor.
ManualDelivers(m) ==
    /\ pc[m] = "streaming"
    /\ Ends(m, "idle")
    /\ UNCHANGED <<config, callers, open, flow, taskVars, sig, herdrOn, reported, edges,
                   newest, streak>>

\* Mutant: an aborted consultation is only ended in an open session.
MutantManualSilent(m) ==
    /\ pc[m] = "aborted" /\ open
    /\ Ends(m, "idle")
    /\ UNCHANGED <<config, callers, open, flow, taskVars, sig, herdrOn, reported, edges,
                   newest, streak>>

\* An aborted consultation ends without a trace.
ManualSilent(m) ==
    /\ pc[m] = "aborted"
    /\ Ends(m, "idle")
    /\ UNCHANGED <<config, callers, open, flow, taskVars, sig, herdrOn, reported, edges,
                   newest, streak>>

-----------------------------------------------------------------------------
(* Lifecycle *)

\* session_start: resetTask, whatever is still in flight.
SessionStart ==
    /\ ~open
    /\ open' = TRUE
    /\ blocked' = FALSE
    /\ consumed' = 0
    /\ ResetRepetition
    /\ BlockClear
    /\ current' = {}
    /\ streak' = NoStreak
    /\ UNCHANGED <<config, callers, flow, pc, sig, herdrOn, activity, label, newest, disturbed>>

\* session_shutdown: manual consultations are aborted and the status is cleared.  A
\* dialog does not outlive its session.
SessionShutdown ==
    /\ open
    /\ open' = FALSE
    /\ pc' = [c \in callers |-> CASE pc[c] = "streaming" -> "aborted"
                                  [] pc[c] = "dialog" -> "idle"
                                  [] OTHER -> pc[c]]
    /\ activity' = 0
    /\ label' = FALSE
    /\ disturbed' = (InFlight # {})
    /\ BlockClear
    /\ UNCHANGED <<config, callers, flow, taskVars, sig, herdrOn, current, newest, streak>>

\* The user turns the flow on or off (/advisor, /advisor-off).
FlowToggle ==
    /\ open
    /\ flow' = ~flow
    /\ UNCHANGED <<config, callers, open, taskVars, pc, sig, herdrVars, current, newest, streak>>

\* The user switches advisorHerdrIntegration.
HerdrToggle ==
    /\ open
    /\ herdrOn' = ~herdrOn
    /\ disturbed' = (InFlight # {})
    /\ UNCHANGED <<config, callers, open, flow, taskVars, pc, sig, activity, label, reported,
                   edges, current, newest, streak>>

-----------------------------------------------------------------------------
GateAnswers(s) == GateProceeds(s) \/ GateDenies(s) \/ GateFails(s)

SlotEnds(s) == GateAnswers(s) \/ AskRejected(s) \/ AskEnds(s) \/ ToolDone(s)
ManualEnds(m) == ManualDelivers(m) \/ ManualSilent(m)

PiNext ==
    \/ \E s \in slots :
          \/ \E g \in Signatures : ToolRuns(s, g) \/ GateBegin(s, g) \/ GateExhausted(s, g)
          \/ AskBegin(s) \/ AskConsults(s)
          \/ SlotEnds(s)
    \/ \E m \in manuals :
          ManualAsked(m) \/ ManualGivenUp(m) \/ ManualSubmitted(m) \/ ManualEnds(m)
    \/ SessionStart \/ SessionShutdown \/ FlowToggle \/ HerdrToggle

PiSpec == PiInit /\ [][PiNext]_piVars

\* Provider streams end (answered, failed or aborted) and tools return.
PiFairSpec ==
    /\ PiSpec
    /\ \A s \in Slots : WF_piVars(s \in slots /\ SlotEnds(s))
    /\ \A m \in Manuals : WF_piVars(m \in manuals /\ ManualEnds(m))
-----------------------------------------------------------------------------
(* Properties *)

\* Everything stays in its type.  Herdr's count of consultations is at most the number
\* in flight, and a repetition is counted exactly when there is a previous signature.
PiTypeOK ==
    /\ config \in Configs
    /\ callers \in Hosts
    /\ {open, flow, blocked, herdrOn, label, reported, disturbed} \subseteq BOOLEAN
    /\ consumed \in Nat
    /\ count \in 0..Threshold
    /\ previous \in Signatures \cup {None}
    /\ count = 0 <=> previous = None
    /\ \A s \in slots : pc[s] \in {"idle", "running", "gating", "asked", "consulting"}
    /\ \A m \in manuals : pc[m] \in {"idle", "dialog", "streaming", "aborted"}
    /\ sig \in [slots -> Signatures \cup {None}]
    /\ activity \in 0..Cardinality(InFlight)
    /\ label <=> activity > 0
    /\ edges \in Int
    /\ current \subseteq callers
    /\ newest \in Manuals \cup {None}
    /\ streak \in [sig: Signatures \cup {None}, n: 0..Threshold]

\* advisorMaxCallsPerSession is "shared" and exact (canConsult and consumeCall before
\* the await): with gates, ask_advisor and manual consultations in parallel no more
\* than the limit is ever consumed, and what a session has in flight was consumed.
LimitIsExact ==
    (config.limit # None /\ ~config.simple) =>
        Cardinality(current) <= consumed /\ consumed <= config.limit

(***************************************************************************)
(* What Herdr shows is what is the case.  "The label is cleared after the  *)
(* last overlapping consultation finishes, or when activity is explicitly  *)
(* reset" (HerdrAdvisorActivity): it is never left behind, and shows       *)
(* exactly while a consultation is in flight, unless the integration was   *)
(* switched or the session closed during one.  "Repeated calls emit only   *)
(* the first false-to-true blocked edge" (HerdrAdvisorBlock): the listener *)
(* stands at one while a block of this session is reported and at zero     *)
(* otherwise, also when the integration was switched off since.            *)
(***************************************************************************)
HerdrIsHonest ==
    /\ InFlight = {} => ~label
    /\ ~disturbed => label = (herdrOn /\ InFlight # {})
    /\ edges = IF reported THEN 1 ELSE 0
    /\ reported => blocked

\* The loop gate (recordToolCall): without parallel calls no tool call starts Threshold
\* times in a row while the flow is on without the Advisor having been consulted, or
\* the limit having refused that.
RepeatsAreGated == (Sequential /\ ~config.simple) => streak.n < Threshold

\* "A newer manual request replaces the previous one": only the newest manual
\* consultation delivers a result, and none does after its session is closed.
SupersededIsSilent ==
    [][\A m \in manuals :
          (pc[m] = "streaming" /\ pc'[m] = "idle") => m = newest /\ open]_piVars

\* Every tool call is decided, and every consultation ends.
EveryCallEnds ==
    /\ \A s \in Slots : (s \in slots /\ pc[s] # "idle") ~> (s \in slots => pc[s] = "idle")
    /\ \A m \in Manuals :
          (m \in manuals /\ pc[m] \in {"streaming", "aborted"})
              ~> (m \in manuals => pc[m] = "idle")
=============================================================================
