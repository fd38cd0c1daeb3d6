---------------------------- MODULE BenchCampaign ----------------------------
(***************************************************************************)
(* A paid run of the benchmark.  Its loop (bench/src/screen.ts,            *)
(* evaluate-runner.ts, decisions.ts) takes one step after another: a       *)
(* request to a model, or a trial.  A BudgetGuard reserves before a step   *)
(* and settles after it (bench/src/budget.ts).  A trial is a command with  *)
(* a time limit (bench/src/reactbench.ts, process.ts) that runs            *)
(* bench/harbor/run-trial.ts: up to MaxRetries + 1 attempts, each with a   *)
(* broker of its own (codex-broker.mjs) that lets the agent in the         *)
(* container spend the trial's lease, and with a Harbor process that       *)
(* leaves the attempt's artifacts.                                         *)
(*                                                                         *)
(* Three processes and a container run at once: the command can be killed  *)
(* while its children live, and what an agent has spent is known to the    *)
(* campaign only through the records the agent left.  Amounts of money are *)
(* small numbers.  Which tasks, models and seeds a step is about, prompts, *)
(* scores and reports are left out; BenchVerdict has the verdict.          *)
(***************************************************************************)
EXTENDS Integers, Sequences, Functions

CONSTANTS
    Plans,         \* what a stage may run: sequences of [kind, estimate]
    Cap,           \* config.budgetUsd
    MaxRetries,    \* MAX_HARBOR_INFRA_RETRIES
    Requests,      \* what the agent may ask for: [worst, actual], its estimate and its cost
    MaxRequests,   \* bound on the requests of an attempt
    Charges        \* what a model's answer to a step without a trial may cost

ASSUME BenchAssumption ==
    /\ Cap \in Nat \ {0} /\ MaxRetries \in Nat /\ MaxRequests \in Nat /\ Charges \subseteq Nat
    /\ Plans \subseteq Seq([kind: {"call", "trial"}, estimate: Nat])
    /\ Requests \subseteq [worst: Nat, actual: Nat]

VARIABLES
    plan,          \* the steps of this campaign
    done,          \* how many of them are behind it
    campaign,      \* "starting", "between", "calling", "trial", "complete", "failed"
    reserved,      \* #reservedUsd
    held,          \* what the step in flight reserved
    lease,         \* budgetUsd of the trial in flight
    wrapper,       \* where runTrial is, or how it ended
    attempt,       \* its attempt, from 0
    failure,       \* what ended the attempt's Harbor, none so far or for good: a category
    broker,        \* the broker of the attempt: "none", "booting", "serving"
    leased,        \* what it has reserved
    harbor,        \* Harbor and its container: "none", "setup", "agent", "exited"
    artifacts,     \* [pi, records, cost, whole] of the attempt
    overran,       \* a clean-up has taken more than it was allowed
    spent,         \* history: what the provider charged
    spentBefore    \* history: spent when this attempt began

benchVars == <<plan, done, campaign, reserved, held, lease, wrapper, attempt, failure, broker,
               leased, harbor, artifacts, overran, spent, spentBefore>>
guardVars == <<plan, done, reserved, held, lease>>
trialVars == <<wrapper, attempt, failure, broker, leased, harbor, artifacts, overran>>

Campaigns == {"starting", "between", "calling", "trial", "complete", "failed"}
Wrappers == {"idle", "starting", "running", "stopping", "pruning", "backoff", "accepted", "refused", "killed"}

\* runTrial has returned, thrown or been killed.
Ended == {"idle", "accepted", "refused", "killed"}

\* whole: every artifact is there, the attestation ends with a clean shutdown, and every
\* request has its usage.
NoArtifacts == [pi |-> FALSE, records |-> 0, cost |-> 0, whole |-> TRUE]

BenchTypeOK ==
    /\ plan \in Plans /\ done \in 0..Len(plan) /\ campaign \in Campaigns
    /\ {reserved, held, lease, leased, spent, spentBefore} \subseteq Nat
    /\ wrapper \in Wrappers /\ attempt \in 0..MaxRetries
    /\ failure \in {"none", "infrastructure", "unclassified"}
    /\ broker \in {"none", "booting", "serving"}
    /\ harbor \in {"none", "setup", "agent", "exited"}
    /\ artifacts \in [pi: BOOLEAN, records: Nat, cost: Nat, whole: BOOLEAN]
    /\ overran \in BOOLEAN

BenchInit ==
    /\ plan \in Plans /\ done = 0 /\ campaign = "starting"
    /\ reserved = 0 /\ held = 0 /\ lease = 0
    /\ wrapper = "idle" /\ attempt = 0 /\ failure = "none"
    /\ broker = "none" /\ leased = 0 /\ harbor = "none"
    /\ artifacts = NoArtifacts /\ overran = FALSE
    /\ spent = 0 /\ spentBefore = 0

-----------------------------------------------------------------------------
(* BudgetGuard and the loop *)

Estimated == FoldFunction(LAMBDA s, n : s.estimate + n, 0, plan)
Next1 == plan[done + 1]

\* reserve, or the exception that ends the run.
Affordable(estimate) == reserved + estimate <= Cap

\* What a trial may spend: its own reserve and what nobody has reserved.
\* Mutant: the whole cap, for every trial.
MutantTrialBudget(estimate) == Cap
TrialBudget(estimate) == (Cap - (reserved + estimate)) + estimate

\* settle(held, actual).  Mutant: the reserve stands for the cost.
MutantSettled(actual) == reserved
Settled(actual) == reserved + actual - held

Overdrawn(actual) == actual > held /\ Settled(actual) > Cap

Fails == campaign' = "failed"

\* validateBudgetPlan and the comparison after it.
StartCampaign ==
    /\ campaign = "starting"
    /\ campaign' = (IF Estimated > Cap THEN "failed" ELSE "between")
    /\ UNCHANGED <<guardVars, trialVars, spent, spentBefore>>

Complete ==
    /\ campaign = "between" /\ done = Len(plan)
    /\ campaign' = "complete"
    /\ UNCHANGED <<guardVars, trialVars, spent, spentBefore>>

\* reserve throws.
Unaffordable ==
    /\ campaign = "between" /\ done < Len(plan) /\ ~Affordable(Next1.estimate)
    /\ Fails
    /\ UNCHANGED <<guardVars, trialVars, spent, spentBefore>>

Call ==
    /\ campaign = "between" /\ done < Len(plan)
    /\ Next1.kind = "call" /\ Affordable(Next1.estimate)
    /\ reserved' = reserved + Next1.estimate /\ held' = Next1.estimate
    /\ campaign' = "calling"
    /\ UNCHANGED <<plan, done, lease, trialVars, spent, spentBefore>>

\* client.text resolves and the guard settles what it cost, or keeps the reserve for an
\* answer without usage; spent counts such an answer at its estimate.
CallAnswered ==
    /\ campaign = "calling"
    /\ \E actual \in Charges \cup {held} :
          /\ spent' = spent + actual
          /\ IF Overdrawn(actual)
             THEN Fails /\ UNCHANGED <<reserved, done>>
             ELSE /\ reserved' = Settled(actual) /\ done' = done + 1
                  /\ campaign' = "between"
    /\ UNCHANGED <<plan, held, lease, trialVars, spentBefore>>

\* It throws: no answer, no text, another model than the pinned one.
CallFails ==
    /\ campaign = "calling"
    /\ Fails
    /\ \E actual \in Charges \cup {0} : spent' = spent + actual
    /\ UNCHANGED <<guardVars, trialVars, spentBefore>>

\* An attempt: its directory, its broker.
BeginAttempt(n) ==
    /\ wrapper' = "starting" /\ attempt' = n /\ failure' = "none"
    /\ broker' = "booting" /\ leased' = 0
    /\ harbor' = "none" /\ artifacts' = NoArtifacts
    /\ spentBefore' = spent

StartTrial ==
    /\ campaign = "between" /\ done < Len(plan)
    /\ Next1.kind = "trial" /\ Affordable(Next1.estimate)
    /\ reserved' = reserved + Next1.estimate /\ held' = Next1.estimate
    /\ lease' = TrialBudget(Next1.estimate)
    /\ IF lease' = 0
       THEN Fails /\ UNCHANGED <<trialVars, spentBefore>>
       ELSE campaign' = "trial" /\ BeginAttempt(0) /\ overran' = FALSE
    /\ UNCHANGED <<plan, done, spent>>

\* The command printed a result: settle its cost, record the outcome.
TrialAccepted ==
    /\ campaign = "trial" /\ wrapper = "accepted"
    /\ IF Overdrawn(artifacts.cost)
       THEN Fails /\ UNCHANGED <<reserved, done>>
       ELSE /\ reserved' = Settled(artifacts.cost) /\ done' = done + 1
            /\ campaign' = "between"
    /\ UNCHANGED <<plan, held, lease, trialVars, spent, spentBefore>>

\* The command failed or was killed.
TrialRejected ==
    /\ campaign = "trial" /\ wrapper \in {"refused", "killed"}
    /\ Fails
    /\ UNCHANGED <<guardVars, trialVars, spent, spentBefore>>

-----------------------------------------------------------------------------
(* runTrial *)

MoneyUnchanged == UNCHANGED <<guardVars, campaign, spent, spentBefore>>

\* The broker prints its port: Harbor starts.
BrokerReady ==
    /\ wrapper = "starting" /\ broker = "booting"
    /\ broker' = "serving" /\ harbor' = "setup" /\ wrapper' = "running"
    /\ UNCHANGED <<attempt, failure, leased, artifacts, overran>> /\ MoneyUnchanged

\* It exits, prints an invalid port, or is silent for 15 seconds: it is killed, and there
\* is nothing to stop.  None of the messages names an infrastructure.
BrokerFails ==
    /\ wrapper = "starting" /\ broker = "booting"
    /\ broker' = "none" /\ failure' = "unclassified" /\ wrapper' = "pruning"
    /\ UNCHANGED <<attempt, leased, harbor, artifacts, overran>> /\ MoneyUnchanged

\* Harbor has built the environment and the agent starts: pi.txt, extension_loaded.
AgentStarts ==
    /\ harbor = "setup"
    /\ harbor' = "agent" /\ artifacts' = [artifacts EXCEPT !.pi = TRUE]
    /\ UNCHANGED <<wrapper, attempt, failure, broker, leased, overran>> /\ MoneyUnchanged

\* A request of the agent, recorded before it is sent, and its usage after it.  The broker
\* admits it against its worst cost; without a broker it goes nowhere.
Admits(r) == broker = "serving" /\ leased + r.worst <= lease

AgentAsks ==
    /\ harbor = "agent" /\ artifacts.records < MaxRequests
    /\ \E r \in Requests, reported \in BOOLEAN :
          /\ leased' = leased + (IF Admits(r) THEN r.worst ELSE 0)
          /\ spent' = spent + (IF Admits(r) THEN r.actual ELSE 0)
          /\ artifacts' = [artifacts EXCEPT !.records = @ + 1,
                              !.cost = @ + (IF Admits(r) THEN r.actual ELSE 0),
                              !.whole = @ /\ reported]
    /\ UNCHANGED <<wrapper, attempt, failure, broker, harbor, overran>>
    /\ UNCHANGED <<guardVars, campaign, spentBefore>>

\* runProcess settles: Harbor exited well or ill, or is killed for its time or its output.
\* A time limit's message is taken for a network failure.
HarborEnds ==
    /\ wrapper = "running" /\ harbor \in {"setup", "agent"}
    /\ \/ harbor = "agent" /\ failure' = "none"
       \/ failure' \in {"infrastructure", "unclassified"}
    /\ \E clean \in BOOLEAN : artifacts' = [artifacts EXCEPT !.whole = @ /\ clean]
    /\ harbor' = "exited" /\ wrapper' = "stopping"
    /\ UNCHANGED <<attempt, broker, leased, overran>> /\ MoneyUnchanged

\* stopCodexBroker.
StopBroker ==
    /\ wrapper = "stopping"
    /\ broker' = "none" /\ wrapper' = "pruning"
    /\ UNCHANGED <<attempt, failure, leased, harbor, artifacts, overran>> /\ MoneyUnchanged

\* pruneDockerBuildCache has no time limit of its own.
PruneOverruns ==
    /\ wrapper = "pruning" /\ ~overran
    /\ overran' = TRUE
    /\ UNCHANGED <<wrapper, attempt, failure, broker, leased, harbor, artifacts>> /\ MoneyUnchanged

\* A request or its usage was recorded, so hasProviderRecords.
\* Mutant: whatever the failure was like, and whenever it came.
MutantRetryable == failure = "infrastructure" /\ attempt < MaxRetries
Retryable ==
    /\ failure = "infrastructure" /\ attempt < MaxRetries
    /\ ~artifacts.pi /\ artifacts.records = 0

Retry ==
    /\ wrapper = "pruning" /\ Retryable
    /\ wrapper' = "backoff"
    /\ UNCHANGED <<attempt, failure, broker, leased, harbor, artifacts, overran>> /\ MoneyUnchanged

BackedOff ==
    /\ wrapper = "backoff"
    /\ BeginAttempt(attempt + 1)
    /\ UNCHANGED <<overran, guardVars, campaign, spent>>

\* validateHarborArtifacts: everything is there and agrees, and something was asked for.
Valid == artifacts.pi /\ artifacts.records > 0 /\ artifacts.whole

Decide ==
    /\ wrapper = "pruning" /\ ~Retryable
    /\ wrapper' = (IF failure = "none" /\ Valid THEN "accepted" ELSE "refused")
    /\ UNCHANGED <<attempt, failure, broker, leased, harbor, artifacts, overran>> /\ MoneyUnchanged

\* harborCommandTimeoutMs covers all attempts, their clean-ups and the waits between them,
\* so it can expire only when one of these overran.  The process group that is killed is the
\* wrapper's and its broker's: Harbor has one of its own.
\* Mutant: the limit is on what Harbor does.
MutantCommandTimesOut ==
    /\ campaign = "trial" /\ wrapper = "running" /\ overran
    /\ wrapper' = "killed" /\ broker' = "none"
    /\ UNCHANGED <<attempt, failure, leased, harbor, artifacts, overran>> /\ MoneyUnchanged

CommandTimesOut ==
    /\ campaign = "trial" /\ wrapper \notin Ended /\ overran
    /\ wrapper' = "killed" /\ broker' = "none"
    /\ UNCHANGED <<attempt, failure, leased, harbor, artifacts, overran>> /\ MoneyUnchanged

\* A Harbor without a wrapper goes on until its work is done.
OrphanEnds ==
    /\ wrapper = "killed" /\ harbor \in {"setup", "agent"}
    /\ harbor' = "exited"
    /\ UNCHANGED <<wrapper, attempt, failure, broker, leased, artifacts, overran>> /\ MoneyUnchanged

-----------------------------------------------------------------------------
CampaignStep == StartCampaign \/ Complete \/ Unaffordable \/ Call \/ StartTrial
                   \/ TrialAccepted \/ TrialRejected
Answer == CallAnswered \/ CallFails
Pruned == ~overran /\ (PruneOverruns \/ Retry \/ Decide)
WrapperStep == BrokerReady \/ BrokerFails \/ StopBroker \/ BackedOff

BenchNext == CampaignStep \/ Answer \/ WrapperStep \/ AgentStarts \/ AgentAsks \/ HarborEnds
                \/ PruneOverruns \/ Retry \/ Decide \/ CommandTimesOut \/ OrphanEnds

\* A promise's continuation runs; requests and the broker's start have time limits
\* (BENCH_TIMEOUT_MS, 15 s), and so have an attempt and the command.  A clean-up ends,
\* or overruns and then nothing but the command's limit bounds it.
BenchFairness ==
    /\ WF_benchVars(CampaignStep) /\ WF_benchVars(Answer) /\ WF_benchVars(WrapperStep)
    /\ WF_benchVars(Pruned) /\ WF_benchVars(HarborEnds) /\ WF_benchVars(CommandTimesOut)

BenchSpec == BenchInit /\ [][BenchNext]_benchVars
BenchFairSpec == BenchSpec /\ BenchFairness

-----------------------------------------------------------------------------
(* Properties *)

\* Whatever an agent may still be let to spend fits under the campaign's cap together with
\* what the provider has charged for all that came before this attempt, failed attempts
\* included: no trial is given money that is gone.
LeaseFitsTheCap == broker = "serving" => spentBefore + lease <= Cap

\* Every trial comes to an end, even when docker does not, and with it the campaign.
TrialsAreOver == campaign \in {"complete", "failed"}
=============================================================================
