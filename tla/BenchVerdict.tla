----------------------------- MODULE BenchVerdict -----------------------------
(***************************************************************************)
(* What the benchmark concludes from its trials.  Stage 1 sorts the tasks  *)
(* into bands by two seeds (bench/src/screening.ts); Stage 2 checks that   *)
(* report, evaluates the candidates and a sample of the trivial tasks on   *)
(* fresh seeds (bench/src/evaluate-runner.ts) and says whether executor    *)
(* and Advisor together dominate the frontier model, over strata that are  *)
(* reweighted to their share of the pool (bench/src/evaluate.ts).          *)
(*                                                                         *)
(* The state is the pool: a task with the outcomes of its trials, one      *)
(* task after another.  Costs are small numbers, rates are fractions, and  *)
(* a fraction is a record of two numbers.                                  *)
(***************************************************************************)
EXTENDS Integers, Sequences, FiniteSets, Totals

CONSTANTS
    Tasks,          \* what a task may turn out as: [id, e, f, passes, costs]
    MaxTasks,       \* bound on the pool
    Seeds,          \* evaluation seeds, EVALUATION_SEEDS.length
    MinTrivial,     \* MIN_TRIVIAL_TASKS, TRIVIAL_STRATUM_SIZE
    Quality,        \* QUALITY_FRACTION, [num, den]
    Unavailable     \* a cost nobody knows

\* e, f: how many of the two screening seeds the executor and the frontier passed; passes,
\* costs: the evaluation's, per arm, and "E0", "F0" for the costs of the screening.
ScreenArms == {"E0", "F0"}
EvalArms == {"E", "E+A", "F"}

ASSUME VerdictAssumption ==
    /\ {MaxTasks, Seeds, MinTrivial} \subseteq Nat /\ Seeds > 0 /\ MinTrivial > 0
    /\ Quality \in [num: Nat, den: Nat \ {0}]
    /\ Unavailable \notin [num: Nat, den: Nat]
    /\ \A t \in Tasks :
          /\ t.e \in 0..2 /\ t.f \in 0..2
          /\ t.passes \in [EvalArms -> 0..Seeds]
          /\ t.costs \in [EvalArms \cup ScreenArms -> Nat \cup {Unavailable}]

VARIABLES pool    \* the screened tasks
verdictVars == <<pool>>

SumOver(S, f(_)) == TotalOf(S, [i \in S |-> f(i)])

-----------------------------------------------------------------------------
(* screening.ts *)

\* classifyCandidateBand.
Band(t) ==
    IF t.e > 0 THEN "trivial" ELSE IF t.f > 0 THEN "candidate-uplift" ELSE "out-of-reach"

InBand(b) == {i \in DOMAIN pool : Band(pool[i]) = b}

\* selectTrivialStratum: MinTrivial of them, in an order of no meaning.
TrivialSample ==
    LET trivial == InBand("trivial")
    IN  {i \in trivial : Cardinality({j \in trivial : j <= i}) <= MinTrivial}

-----------------------------------------------------------------------------
(* evaluate-runner.ts *)

\* A point: [cost, passes, tasks]; the cost and the rate of passed tasks are per task.

\* averageCost.
CostOf(S, arm) ==
    IF S = {} \/ \E i \in S : pool[i].costs[arm] = Unavailable THEN Unavailable
    ELSE [num |-> SumOver(S, LAMBDA i : pool[i].costs[arm]), den |-> Cardinality(S)]

Rate(S, P(_)) ==
    IF S = {} THEN [num |-> 0, den |-> 1]
    ELSE [num |-> Cardinality({i \in S : P(i)}), den |-> Cardinality(S)]

\* aggregateTaskOutcome: the majority of the seeds.
MajorityPasses(i, arm) == pool[i].passes[arm] >= Seeds \div 2 + 1

EvaluatedPoint(S, arm) ==
    [cost |-> CostOf(S, arm), pass |-> Rate(S, LAMBDA i : MajorityPasses(i, arm))]

\* screeningPoint: one of two seeds is enough, unless the stratum's rate is zero by definition.
ScreeningPoint(S, arm, passed(_), forceZero) ==
    [cost |-> CostOf(S, arm),
     pass |-> IF forceZero THEN [num |-> 0, den |-> 1] ELSE Rate(S, LAMBDA i : passed(i) > 0)]

FrontierScreened(S, forceZero) == ScreeningPoint(S, "F0", LAMBDA i : pool[i].f, forceZero)

\* pointsForStratum, the arms the verdict looks at.  Mutant: what the executor cost in the
\* screening stands for the flow that was never run.
MutantOutOfReachFlow(S) == [cost |-> CostOf(S, "E0"), pass |-> [num |-> 0, den |-> 1]]
OutOfReachFlow(S) == [cost |-> Unavailable, pass |-> [num |-> 0, den |-> 1]]

UpliftPoints(S) ==
    [flow |-> EvaluatedPoint(S, "E+A"), frontier |-> EvaluatedPoint(S, "F")]
TrivialPoints(S) ==
    [flow |-> EvaluatedPoint(S, "E+A"), frontier |-> FrontierScreened(S, FALSE)]
OutOfReachPoints(S) ==
    [flow |-> OutOfReachFlow(S), frontier |-> FrontierScreened(S, TRUE)]

\* The strata with their shares of the pool: of all trivial tasks, whichever were sampled.
\* Mutant: the share of the sample.
MutantTrivialShare == Cardinality(TrivialSample)
TrivialShare == Cardinality(InBand("trivial"))

Strata ==
    [b \in {"candidate-uplift", "trivial", "out-of-reach"} |->
        CASE b = "candidate-uplift" -> [points |-> UpliftPoints(InBand(b)), weight |-> Cardinality(InBand(b))]
          [] b = "trivial"          -> [points |-> TrivialPoints(TrivialSample), weight |-> TrivialShare]
          [] b = "out-of-reach"     -> [points |-> OutOfReachPoints(InBand(b)), weight |-> Cardinality(InBand(b))]]

\* The conditions on which runEvaluation ends without a trial.
Evaluated ==
    /\ InBand("candidate-uplift") # {}
    /\ Cardinality(TrivialSample) >= MinTrivial

-----------------------------------------------------------------------------
(* evaluate.ts *)

\* Weighted sums of fractions over the strata that count, times the total weight.
Plus(a, b) == [num |-> a.num * b.den + b.num * a.den, den |-> a.den * b.den]
Weigh(S, part(_)) ==
    LET share(b) ==
            IF b \in S THEN [num |-> part(Strata[b].points).num * Strata[b].weight,
                             den |-> part(Strata[b].points).den]
            ELSE [num |-> 0, den |-> 1]
    IN  Plus(Plus(share("candidate-uplift"), share("trivial")), share("out-of-reach"))
Less(a, b) == a.num * b.den < b.num * a.den

\* reweightCostQuality.
Reweighted(side(_)) ==
    LET counted == {b \in DOMAIN Strata : Strata[b].weight > 0}
    IN  [cost |-> IF \E b \in counted : side(Strata[b].points).cost = Unavailable THEN Unavailable
                  ELSE Weigh(counted, LAMBDA p : side(p).cost),
         pass |-> Weigh(counted, LAMBDA p : side(p).pass)]

\* dominanceVerdict.  Mutant: a flow as dear as the frontier is not dominated.
MutantDominated(flow, frontier) ==
    \/ Less(frontier.cost, flow.cost)
    \/ Less(flow.pass, [num |-> Quality.num * frontier.pass.num, den |-> Quality.den * frontier.pass.den])
Dominated(flow, frontier) ==
    \/ ~Less(flow.cost, frontier.cost)
    \/ Less(flow.pass, [num |-> Quality.num * frontier.pass.num, den |-> Quality.den * frontier.pass.den])

Headline ==
    LET flow == Reweighted(LAMBDA p : p.flow)
        frontier == Reweighted(LAMBDA p : p.frontier)
    IN  IF ~Evaluated THEN "NOT RUN"
        ELSE IF flow.cost = Unavailable \/ frontier.cost = Unavailable THEN "UNAVAILABLE"
        ELSE IF Dominated(flow, frontier) THEN "NOT_WORTH_IT" ELSE "WORTH_CONSIDERING"

-----------------------------------------------------------------------------
Screen(t) == Len(pool) < MaxTasks /\ pool' = Append(pool, t)

VerdictInit == pool = <<>>
VerdictNext == \E t \in Tasks : Screen(t)
VerdictSpec == VerdictInit /\ [][VerdictNext]_verdictVars

-----------------------------------------------------------------------------
(* Properties *)

\* The reference: the pool without strata.  The flow is worth its cost just if it was
\* run on every task, and over the tasks of the pool its costs add up to less than the
\* frontier's and its passes to Quality of the frontier's.
FlowCost(t) == IF Band(t) = "out-of-reach" THEN Unavailable ELSE t.costs["E+A"]
FrontierCost(t) == IF Band(t) = "candidate-uplift" THEN t.costs["F"] ELSE t.costs["F0"]
FrontierPasses(t) ==
    IF Band(t) = "candidate-uplift" THEN 2 * t.passes["F"] > Seeds ELSE t.f > 0

WorthOverThePool ==
    LET known == \A i \in DOMAIN pool : FlowCost(pool[i]) # Unavailable /\ FrontierCost(pool[i]) # Unavailable
        passed(P(_)) == Cardinality({i \in DOMAIN pool : P(pool[i])})
    IN  /\ known
        /\ SumOver(DOMAIN pool, LAMBDA i : FlowCost(pool[i]))
              < SumOver(DOMAIN pool, LAMBDA i : FrontierCost(pool[i]))
        /\ Quality.den * passed(LAMBDA t : 2 * t.passes["E+A"] > Seeds)
              >= Quality.num * passed(FrontierPasses)

\* Strata, shares, averages and fractions come to what the pool shows, if the trivial tasks
\* that were left out are like the ones that were evaluated; a cost nobody knows, or a task
\* the flow was never run on, never yields a recommendation.
VerdictIsThePools ==
    Evaluated /\ (\A i, j \in InBand("trivial") : {i, j} \subseteq TrivialSample \/ pool[i] = pool[j]) =>
        (Headline = "WORTH_CONSIDERING" <=> WorthOverThePool)
=============================================================================
