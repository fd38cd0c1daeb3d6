------------------------------ MODULE MCParts ------------------------------
(***************************************************************************)
(* One run for the components of the Pi extension and of the benchmark     *)
(* that do not call one another through shared state: a behaviour is that  *)
(* of one part, chosen at the start, and the variables of the others keep  *)
(* their initial values.  Each part is its own module, checked here at     *)
(* the bounds below; what holds here holds of each module alone.           *)
(***************************************************************************)
EXTENDS MCOutcomeLog, ScoutRun, StreamUpdates, ScoutContext, GateProtocol,
        MCActivation, Disclosure, BenchCampaign, BenchVerdict

VARIABLE part

partsVars == <<part, outVars, scoutVars, updVars, ctxVars, parserVars, actVars,
               disVars, benchVars, verdictVars>>

-----------------------------------------------------------------------------
(* Values of the constants *)

CONSTANTS s1, s2

\* ScoutContext: entries that pair, that do not, and that have no identifier.
E(role, size, calls, of) == [role |-> role, size |-> size, calls |-> calls, of |-> of]
CallOf(k) == [id |-> k, name |-> "edit"]
NoCall == [id |-> NoId, name |-> "none"]
MCAlphabet ==
    {E("user", 3, <<>>, NoCall), E("user", 0, <<>>, NoCall), E("compaction", 4, <<>>, NoCall),
     E("assistant", 2, <<>>, NoCall), E("assistant", 3, <<CallOf("k1")>>, NoCall),
     E("assistant", 3, <<CallOf("k1"), CallOf("k2")>>, NoCall),
     E("result", 2, <<>>, CallOf("k1")), E("result", 9, <<>>, CallOf("k2")),
     E("result", 2, <<>>, [id |-> "k1", name |-> "read"]),
     E("result", 1, <<>>, CallOf("k3")), E("result", 1, <<>>, NoCall)}
Caps(g, n, b, c) == [group |-> g, groups |-> n, bytes |-> b, chars |-> c]
MCScoutCaps == {Caps(12, 4, 100, 100), Caps(8, 2, 20, 12), Caps(8, 3, 24, 9)}
MCInvocations == {"k1", NoId}

\* GateProtocol: decisions, lines like them, and fences of every kind.
Says(d) == [kind |-> "decision", says |-> d]
Plain(k) == [kind |-> k]
FenceOf(c, n, s) == [kind |-> "fence", char |-> c, length |-> n, suffix |-> s]
MCLines ==
    {Says("proceed"), Says("blocked"), Plain("blank"), Plain("prose"), Plain("almost"),
     FenceOf("backtick", 3, "none"), FenceOf("backtick", 4, "none"), FenceOf("backtick", 3, "text"),
     FenceOf("backtick", 3, "backtick"), FenceOf("tilde", 3, "none")}

\* Disclosure: limits at and around the lengths of what they limit.
CapOf(l, b) == [lines |-> l, bytes |-> b]
MCResultCaps == {CapOf(0, 20), CapOf(1, 20), CapOf(3, 14), CapOf(4, 12), CapOf(5, 9), CapOf(6, 16), CapOf(4, 4),
                 CapOf(3, 0), CapOf(5, 3)}
MarkupOf(a, b) == [ands |-> a, angles |-> b]
MCMarkups == {MarkupOf(0, 0), MarkupOf(1, 0), MarkupOf(4, 0), MarkupOf(3, 6)}
ChangesOf(t, n, m) == [text |-> t, note |-> n, markup |-> m]
MCChanges == {ChangesOf(0, 7, MarkupOf(0, 0)), ChangesOf(3, 0, MarkupOf(1, 1)), ChangesOf(50, 3, MarkupOf(3, 6))}

\* BenchCampaign: plans that fit, that fit only if nothing costs more, and that do not.
StepOf(k, e) == [kind |-> k, estimate |-> e]
MCPlans ==
    {<<StepOf("trial", 1), StepOf("call", 2), StepOf("trial", 2)>>,
     <<StepOf("call", 1), StepOf("call", 2)>>, <<StepOf("call", 2), StepOf("trial", 2)>>,
     <<StepOf("trial", 4), StepOf("trial", 3)>>}
RequestOf(w, a) == [worst |-> w, actual |-> a]
MCRequests == {RequestOf(2, 1), RequestOf(3, 3), RequestOf(1, 2)}

\* BenchVerdict: tasks of every band, with costs and passes on both sides of the verdict.
TaskOf(e, f, a, b, ca, cf, c0) ==
    [e |-> e, f |-> f,
     passes |-> [x \in EvalArms |-> IF x = "E+A" THEN a ELSE b],
     costs |-> [x \in EvalArms \cup ScreenArms |->
                   CASE x = "E+A" -> ca [] x = "F" -> cf [] x = "F0" -> c0 [] OTHER -> 1]]
MCTasks ==
    {TaskOf(0, 1, a, b, ca, 2, 3) : a \in {1, 2}, b \in {1, 2}, ca \in {1, 2, 3}}
    \cup {TaskOf(1, f, a, 2, ca, 1, 3) : f \in {0, 2}, a \in {1, 2}, ca \in {1, 3, Unavailable}}
    \cup {TaskOf(0, 0, 0, 0, 1, 2, 2)}
MCQuality == [num |-> 1, den |-> 2]

-----------------------------------------------------------------------------
(* The specification *)

\* A part that does not run has one initial state.
Pinned ==
    /\ part # "outcomes" => lockFile = NoFile /\ saltFile = NoFile
    /\ part # "context" => invocation = NoId
    /\ part # "files" => disk = Defaults
    /\ part # "limits" => changes = CHOOSE c \in Changes : TRUE
    /\ part # "campaign" => plan = CHOOSE p \in Plans : TRUE

PartsInit ==
    /\ part \in {"outcomes", "scouts", "stream", "context", "parser", "files",
                 "limits", "campaign", "verdict"}
    /\ OutInit /\ ScoutInit /\ UpdInit /\ CtxInit /\ ParserInit
    /\ ActInit /\ DisInit /\ BenchInit /\ VerdictInit
    /\ Pinned

PartsNext ==
    /\ UNCHANGED part
    /\ \/ /\ part = "outcomes" /\ OutNext
          /\ UNCHANGED <<scoutVars, updVars, ctxVars, parserVars, actVars, disVars, benchVars, verdictVars>>
       \/ /\ part = "scouts" /\ ScoutNext
          /\ UNCHANGED <<outVars, updVars, ctxVars, parserVars, actVars, disVars, benchVars, verdictVars>>
       \/ /\ part = "stream" /\ UpdNext
          /\ UNCHANGED <<outVars, scoutVars, ctxVars, parserVars, actVars, disVars, benchVars, verdictVars>>
       \/ /\ part = "context" /\ CtxNext
          /\ UNCHANGED <<outVars, scoutVars, updVars, parserVars, actVars, disVars, benchVars, verdictVars>>
       \/ /\ part = "parser" /\ ParserNext
          /\ UNCHANGED <<outVars, scoutVars, updVars, ctxVars, actVars, disVars, benchVars, verdictVars>>
       \/ /\ part = "files" /\ ActNext
          /\ UNCHANGED <<outVars, scoutVars, updVars, ctxVars, parserVars, disVars, benchVars, verdictVars>>
       \/ /\ part = "limits" /\ DisNext
          /\ UNCHANGED <<outVars, scoutVars, updVars, ctxVars, parserVars, actVars, benchVars, verdictVars>>
       \/ /\ part = "campaign" /\ BenchNext
          /\ UNCHANGED <<outVars, scoutVars, updVars, ctxVars, parserVars, actVars, disVars, verdictVars>>
       \/ /\ part = "verdict" /\ VerdictNext
          /\ UNCHANGED <<outVars, scoutVars, updVars, ctxVars, parserVars, actVars, disVars, benchVars>>

PartsSpec == PartsInit /\ [][PartsNext]_partsVars

\* The fairness of OutFairSpec, ScoutFairSpec and BenchFairSpec, of the part
\* that runs.
PartsFairSpec ==
    /\ PartsSpec
    /\ \A c \in OutCalls : WF_outVars(part = "outcomes" /\ OutStep(c))
    /\ \A s \in Scouts : /\ WF_scoutVars(part = "scouts" /\ Resolve(s))
                         /\ WF_scoutVars(part = "scouts" /\ TimerFires(s))
                         /\ WF_scoutVars(part = "scouts" /\ Resume(s))
    /\ WF_benchVars(part = "campaign" /\ CampaignStep)
    /\ WF_benchVars(part = "campaign" /\ Answer)
    /\ WF_benchVars(part = "campaign" /\ WrapperStep)
    /\ WF_benchVars(part = "campaign" /\ Pruned)
    /\ WF_benchVars(part = "campaign" /\ HarborEnds)
    /\ WF_benchVars(part = "campaign" /\ CommandTimesOut)

-----------------------------------------------------------------------------
(* Properties over several parts *)

\* Every part stays in its types.
PartsTypeOK ==
    /\ OutTypeOK /\ ScoutTypeOK /\ UpdTypeOK /\ ParserTypeOK /\ ActTypeOK /\ BenchTypeOK

\* Whoever waits is answered in the end: a report about an advice, a consultation that
\* waits for its scout, a trial of a campaign.
EveryWaitEnds ==
    <>[]((part = "outcomes" => ReportsAreOver)
         /\ (part = "scouts" => ScoutsAreOver)
         /\ (part = "campaign" => TrialsAreOver))
=============================================================================
