# dsh-advisor: models, checks and proofs

A TLA+ development kept beside the code of dsh-advisor. Source paths below are relative to the
repository root, which the machine-readable entries of `PROJECT.json` name `src/`: `dsh/index.js`
is `src/dsh/index.js` there, and `src/scout.ts` is `src/src/scout.ts`.

## 1. The system

dsh-advisor lets the model that executes a task (the executor) consult a second model (the
Advisor). It exists twice: the DSH plugin in `dsh/`, a Harness plugin with a consultation budget
and a settings page, and the upstream Pi extension in `src/`, from which the plugin was derived.
`bench/` is a development harness that scores models.

| Component | State | Operations | Meets the others through |
|---|---|---|---|
| Consultation budget ledger, `dsh/advisor-budget.js` | one counter record per bucket (session or project): calls, spend, reserved calls and cash, unpriced calls; at most 100 buckets | reserve, settle, release, reset, resetAll, summary, history; every transaction prunes | called by the store; admission decides whether `index.js` calls the provider |
| Ledger file, same file | memory copy, `loaded` flag, promise chain, JSON file replaced by rename | load, transact (read, mutate, persist), persist | shared by every process that resolves the same path |
| Store and pricing, `dsh/advisor-store.js`, `dsh/advisor-cost.js`, `dsh/advisor-request.js` | work-tree cache, price tables | identity, reserve, settle, abandon, estimates | between `index.js` and the ledger |
| Loop gate and ask_advisor, `dsh/index.js`, `dsh/core.js` | per Agent: blocked, consumed calls, repetition count and previous signature | tools/pre-execute, runLoopGate, ask_advisor, session-start | harness events, often several tool calls at a time; the ledger; the provider |
| Provider stream, `dsh/advisor.js` | none kept | consultAdvisor: answer, error with or without usage, cancel | awaited by gate and tool |
| Decision parser, context limits, `dsh/core.js`, `dsh/context.js`, `dsh/git.js`, `dsh/prompts.js` | none | pure text functions | inputs and outputs of a consultation |
| Configuration and commands, `dsh/config.js`, `dsh/advisor-commands.js` | normalised snapshot | apply, `/advisor ...` | everything reads the snapshot |
| Settings page, `dsh/client/*` | draft, baseline, dirty, view, catalog, cached session id | edit, save, discard, acceptView, loadCatalog, refreshes | the host's config form, `/advisor` commands |
| Pi session and gate, `src/session-state.ts`, `src/tools/*`, `src/commands/*` | as above, plus an advice ledger | gate, ask_advisor, manual consultation, outcome report | Pi events; consumes a call *before* it awaits |
| Pi outcomes, `src/outcomes.ts`, `src/tools/register-outcome.ts` | log file, lock file, salt file; per session the advice issued, pending, reported | record_advisor_outcome: reserve, append under a lock with takeover, commit or release | several processes |
| Pi scouts, `src/scout*.ts`, `src/tools/scout-status.ts` | a run with timer and parent signal; status tokens; none for the manifest | run, time out, cancel, fall back; group, fit, select, reconstruct | gate and tools |
| Pi Herdr status and activation, `src/herdr.ts`, `src/commands/*` | a count and a block flag; model references, dialogs, a pending model | start/finish/clear, set/clear; /advisor, /advisor-models, /advisor-settings, /advisor-off | every consultation; configuration |
| Pi stream updates, `src/model-stream.ts` | pending value, timer, time of the last publication | update, flush, cancel | ask_advisor's partial results |
| Pi limits of disclosure, `src/tool-result-cap.ts`, `src/conversation.ts`, `src/attachments.ts`, `src/git.ts` | none | cap, select, share | inputs of a consultation |
| Pi configuration storage, `src/config/*` | files, in-memory references | load, merge, save | commands |
| Benchmark, `bench/` | a budget guard, a lease per trial, processes, artifacts | screen, evaluate, decide; retry, time out, validate | Harbor, a broker and an agent in a container |

### What is hard, and what makes each component correct

* **Ledger.** Consultations reserve, run for minutes and settle in any order, while the user resets
  buckets, pruning deletes them, and the process may die. Correct means: every call is counted
  once; a reservation is held exactly as long as somebody holds it; the ceilings hold; nobody is
  refused because of a leak.
* **Ledger file.** A read-modify-write that spans three awaits, failing reads and writes, crashes,
  and in principle several writers. Correct means: what was saved is lost only where a load could
  not read it, and the chain never wedges.
* **Loop gate.** A verdict arrives long after the state it was asked about. Correct means: the
  call limit, the repetition threshold and a session block hold for the interleavings the harness
  can produce, and every wait ends.
* **Settings page.** A save awaits while the user goes on editing and others change the settings.
  Correct means: no edit is dropped without a message, and only changed fields are written.
* **Pi session.** Gates, ask_advisor and manual consultations run in parallel and outlive the
  session that began them. Correct means: the limit is exact because a call is consumed before the
  await; a repeated call never runs a threshold of times unseen; what Herdr shows is the case; a
  superseded manual consultation says nothing.
* **Pi outcomes.** Several processes append to one file under a lock file that a dead owner leaves
  behind. Correct means: one writer, one salt, one record per advice, no report that waits for ever.
* **Pi scouts.** A timer, a cancellation and a provider's answer race; the context is cut to a
  budget. Correct means: one of the three decides, the next session's status line is clean, no tool
  call is parted from its result, and what the Advisor must see is never dropped.
* **Pi commands and configuration.** Dialogs hold copies of settings across awaits while every tool
  call loads the file again. Correct means: a save writes what the user chose and nothing else, and a
  refused activation leaves no trace in the references.
* **Limits of disclosure, decision parser.** Pure functions with many edges. Correct means: no limit
  is passed, nothing is torn or kept twice, and a verdict is accepted only where it is the only one.
* **Benchmark.** Money is reserved by one process, spent in a container, known only through
  artifacts, and the processes in between may be killed. Correct means: no trial may spend what is
  gone, every trial ends, and the verdict over strata is the one the pool shows.

`PROJECT.json` lists every hazard at its line, with the property that would catch it or the reason
why none does yet.

## 2. Modules

| Module | Models | Role |
|---|---|---|
| `BudgetLedger` | `dsh/advisor-budget.js` (counters) and `consultWithBudget` of `dsh/index.js` | component |
| `BudgetLedger_proofs` | | theorems about it |
| `LedgerFile` | load, transact, persist | component |
| `DurableJournal` | what the ledger file promises | abstract specification |
| `SessionGate` | pre-execute handler, loop gate, ask_advisor, `AdvisorSessionState` | component |
| `SessionGate_proofs` | | theorems about it |
| `LedgerFile_proofs` | | theorems about it, with the refinement of `DurableJournal` |
| `PiSession_proofs`, `OutcomeLog_proofs`, `PanelController_proofs` | | theorems about these modules |
| `Totals`, `Totals_proofs` | sums over finite sets, as `BudgetLedger`, `ScoutContext` and `Disclosure` take them | an operator and its lemmas |
| `Parts_proofs` | | theorems about `ScoutRun`, `BenchCampaign`, `StreamUpdates`, `GateProtocol`, `Activation`, `ScoutContext`, `Disclosure` and `BenchVerdict`, and about `MCParts` |
| `PanelController` | the settings page: controller, field rules, the controls it offers | component |
| `PiSession` | one Pi session: tool_call handler, gate, ask_advisor, manual consultations, lifecycle, Herdr's status | component |
| `OutcomeLog` | advice ledger, record_advisor_outcome, lock, salt and log files | component |
| `ScoutRun` | a scout's timer, cancellation, answer; the status line | component |
| `ScoutContext` | what a scout is offered and what its answer selects | algorithm, over a growing branch |
| `StreamUpdates` | coalesced partial results | component |
| `GateProtocol` | parseAutomaticDecision, of Pi and of the plugin | algorithm, line by line |
| `Activation` | `advisor.json`, its copy in memory, and the commands | component |
| `Disclosure` | the limits on what is sent, of Pi and of the plugin | algorithm, over growing material |
| `BenchCampaign` | a paid run: guard, command, attempts, broker, Harbor | component |
| `BenchVerdict` | bands, strata, reweighting, verdict | algorithm, over a growing pool |
| `MCBudgetLedger`, `MCLedgerFile`, `MCSessionGate`, `MCPanelController`, `MCPiSession`, `MCActivation`, `MCOutcomeLog` | | instances for TLC |
| `MCPlugin` | `SessionGate`, `LedgerFile` | one instance for the two parts of the plugin that share no state |
| `MCParts` | `OutcomeLog`, `ScoutRun`, `StreamUpdates`, `ScoutContext`, `GateProtocol`, `Activation`, `Disclosure`, `BenchCampaign`, `BenchVerdict` | one instance for the parts that share no state |

### BudgetLedger

State: `ledger` is `counters` per bucket key, `present` the keys of the document, `newer` the order
of their `updatedAt` stamps (all that pruning reads of them). Per consultation, `status` is how far
`consultWithBudget` has come, `handle` the reservation it carries (`callReserved`, `costMicro`, and
the estimate), `paid` the cost of its history entry. `plan` is the snapshot of `resolveBudgetPlan`.
`taken`, `charged` and `late` are history variables: no guard reads them, they say which
consultations took a slot of, or were counted by, the bucket *as it exists now*, and which used a
reservation of a deleted bucket on its successor.

Actions: `ReserveGranted` and `ReserveRefused` are the two outcomes of `reserve`, `Approve` and
`Decline` the dialogue of limit mode "confirm", `Settle` is `settle` after success or failure,
`Release` and `ReleaseAsCall` are `abandon`, `Reset`, `ResetAll`, `Look` (summary and history create
a missing bucket in memory) and `Crash`. A transaction is one action because the promise chain runs
one at a time; `LedgerFile` is about when that is justified. Every transaction ends with
`pruneLedger`, and so does every action that stands for one. `reset` and `resetAll` may happen at
any moment, which is what the command and the page allow.

Abstracted: the report-only fields (failedCalls, knownCostCalls, last...), the wording of refusals,
the arithmetic of prices (an estimate and a cost are any member of `Estimates` and `Costs`, or
unknown), and `normalizeLedger`'s repair of documents damaged by hand.

### LedgerFile and DurableJournal

A document is its stamp and the set of transactions it reflects. `Submit` is `transact` up to
`this.queue.then`; `Start`, `LoadDone`, `Apply`, `Rename` or `WriteFails`, and `Finish` are the
segments of the running transaction between awaits (`stage` says which is next);
`Look`/`LookLoaded` are summary and history, which run outside the chain; `Crash` replaces the
instance. `clock` may stand still between two transactions, so that equal stamps occur.

Every read may fail, whether the file is there or not. In a transaction (`Apply`) a failed read
leaves memory to decide. In `load` (`Read`, `Loaded`) it leaves an empty ledger *with a new stamp*,
which no older file can displace: the next write puts it over the file that could not be read, and
what that held is gone. The code does this with a single instance; `forgotten` is the history of it,
the transactions in the file that an instance's load could not read. `SavedIsNeverLost` says that
nothing else is ever dropped from the file.

`DurableJournal` is a set of applied and a set of durable transactions with open, apply, save,
answer and crash. Opening happens once in a life; it takes up what is durable, or, where that cannot
be read, nothing. `LedgerFile` implements it with the memory of the instance (before it has loaded:
the file) as the applied transactions, the file as the durable ones, and the end of the load as the
opening. So a crash alone loses only what no write had saved, and whoever loses more has failed to
read the file when it was opened.

### SessionGate

`blocked`, `consumed`, `count`, `previous` are the fields of `AdvisorSessionState`. A slot is one
tool call the harness has in execution; more than one slot is a turn with parallel tool calls.
Whatever happens between two awaits is one action: `PreExecute...` is the handler up to its return
or to the gate's await. A gate waits first for its reservation, and a dialog where there is one
("gating"): it is refused or declined, or `GateConsults` and waits for the provider ("judging").
The other `Gate...` actions are what follows either wait. `AskBegin` is the
handler for ask_advisor, `AskConsults` or `AskThrows` its `execute` up to the await, `AskEnds` the
rest. `SessionStart` resets the state under the calls in progress. `streak` is a history variable:
how often in a row the same call started since a gate decided about it. Modelled is an active
plugin with the gate on; the reports (invocations, summary) are left out.

### PanelController

`host` is what the Harness holds, `served`, `ready`, `news` and `write` how far it has come with
serving the namespace, loading the document, telling the page of changes and answering a write.
`page`, `loading`, `catalog`, `draft`, `initial` (the baseline), `dirty` and `patch` are the
controller's snapshot; `write` other than "none" is its `saving`. The settings are the two models
with their efforts, the Advisor switch, and `limit`, which stands for every field that no other
field depends on (a number, the one kind that may be invalid or cleared); `executorPinned` exists
in the form only.

`Edit` is `edit` for the values that the field's control in `AdvisorPanel.js` can produce in that
state, `ResetField` the link beside a field that differs from the baseline; `Start`, `Stop`,
`Served`, `View`, `Discard`, `CatalogLoaded` and `CatalogFails` are the methods of the same names.
`save` is `SaveNothing`, or `Save` (up to the await) and `SaveAccepted` or `SaveRefused` (after
it); between the two every other action may happen. `FormLoads`, `OthersChange`, `WriteAccepted`
and `WriteRefused` are the Harness, modelled from how the controller uses its configuration form.

`Held(f)` is what `SavedMeansSaved` promises of a field the user chose a value for: the settings have
that value. It names its exceptions: a number that was cleared is not written, and the settings have
no executor where the user unpinned it, by the switch, by choosing none or by the reset link, or where
the pin was set back while the save was in progress. A catalog that arrives takes efforts that the
models do not accept out of the draft, and the user's choice of them with it (`WishesListed`).

No guard reads the history variables `wish`, `late`, `overtaken` and `stale`. They say what the
user has chosen and was not yet told is saved, reset or discarded; which of it came during a save;
and when the two known races of the code have happened: a save that ended after an edit, and a
baseline that moved under a dirty draft (or did not exist when the draft was begun). The properties
are conditional on them because the code does lose an edit, or write back an old value, in exactly
these cases (`PROJECT.json`, hazards at lines 205, 136 and 155). No text of the repository promises
otherwise, so they are recorded as hazards and not as violations.

### PiSession

`blocked`, `consumed`, `count`, `previous` are `AdvisorSessionState`; `activity` and `label`,
`reported` and `edges` are the two classes of `src/herdr.ts`. A caller is a slot (a tool call in
execution) or a manual consultation; `pc` says which await it is in. `ToolRuns`, `GateBegin`,
`GateExhausted`, `AskBegin` and `AskConsults` are the handlers up to their await, `GateProceeds`,
`GateDenies`, `GateFails`, `AskEnds`, `ManualDelivers`, `ManualSilent` what follows it. The call is
consumed before the await, by gates, the tool and manual consultations alike. The state of a session
is reset under the calls in flight, and these end in the next session in any way they could have
ended. `current`, `newest`, `disturbed` and `streak` are history variables. Reports (invocation
records, usage, summaries) are left out.

### OutcomeLog

Each `await` of `withOutcomeLock`, `salt` and `appendOutcome` is a step of a call: `OpenLock`, then
`Observe`, `Confirm`, `Evict` where a lock is found and old, `RetryLock` where it is not; `ReadSalt`,
`DropSalt`, `LinkSalt`, `Size`, `Write`, `Chmod` inside; `Close`, `Unlink` and `Settle` outside. A
process may die at any step (`ProcessDies`), an operation may throw (`OperationFails`, `LockLeaks`),
a lock may grow old under a live owner (`LockAges`), and a session may start. The lock is a file and
the check of its age is not atomic with its removal: `contested` records the two cases in which two
writers are possible, and `OneWriter` says there are no others: until then there is one writer, all
digests have one salt, and no line is dropped that had room. The log takes two lines (`LogMax`), so
that two salts can stand in it, and a third line is one too many. What happens in a contested case is
the run `stale_lock`. `RecordedOnce` holds in these too.

### ScoutRun and ScoutContext

In `ScoutRun` the provider (`Chunk`, `ScoutAnswered`, `AbortSettles`), the timer and the parent are actions
of their own, and `Resume` is the continuation of `runAdvisorScout` after its race: what settled first
decides, what comes later is dropped. The status line is `known`, `active` and `retired` tokens.
`ScoutContext` has no processes. Its state is a branch that grows by any entry of `Alphabet`, among
them results of unknown, of doubled and of missing identifiers, and the operators say what
`indexToolCalls`, `buildGroups`, `fitToBudget`, `parseScoutSelection` and `reconstructScoutConversation`
do with it under each of `ScoutCaps`, for every answer (`AnswersFor`) a scout may give.

### StreamUpdates

`createCoalescedUpdate`: a value is published at once, or waits for the timer; the tool flushes before
its result, cancels in its `finally`, and a callback that throws closes the stream of updates. Timers
fire late (`Tick` may come first), as Node's do.

### GateProtocol

The loop of the parser is one step per line; the variables are its locals. `Opens` and `Closes` are
`advanceFence`, `Verdict` is what the function would return after the lines so far. Both sources have
the same function, and the map names both.

### Activation

`disk` is `advisor.json`, `refs` the settings in memory, `loadedState` what the last load or save saw,
`persisted` the two model references it had, `pendingModel` a model chosen with /model while the flow
was off. `act` is an activation in one of its awaits, `dialog` the copy that /advisor-settings edits.
`BackgroundLoad` is the load of every tool call and consultation, which may come while a command
waits. `EditFile` is the user with an editor, also one who writes something that is not JSON. One key
stands for all settings without a rule of their own.

### Disclosure

A line, an entry and a file are their lengths, and the state is the material of a consultation.
`CapResult` is `capToolResult`, `SelectRecent` `selectRecentEntries`, `Attached` the files with their
common limit, `ConversationBudget` the limit that the conversation and the repository's changes share.
`PluginCapResult` and `PluginContext` are the plugin's versions, which take the tail from the last
line back, and put the changes on top of the conversation's limit instead of inside it.

A result is kept whole, kept by its ends, or replaced (by the marker, or by the text about a limit of
zero), and `ResultIsCapped` compares each of these with both limits. Two things are longer than a
limit and named: where a limit is zero, the text that says so; and where the lines are zero, the
marker's one line.

`escapeRepositoryText` writes five characters for a `&` and four for a `<` or `>` (`EscapesAdd`). The
repository's changes are escaped before they are cut and keep their limit exactly. The conversation,
in Pi and in the plugin, is cut first and escaped afterwards, so that what is sent can be up to five
times as long as its limit; the properties bound it by the limit and what escaping adds to the text
that was selected, for any markup this may hold (`Markups`). Files are limited as they are read.

### BenchCampaign and BenchVerdict

`BenchCampaign` is the loop of the three live commands with the steps they consist of: a request to a
model, or a trial. `reserved`, `held` and `lease` are the guard and the trial's budget; `wrapper` is
`runTrial`, with its attempts, broker, clean-up and backoff; `harbor` and `artifacts` are what happens
in the container and what it leaves. The command's time limit kills the wrapper and the broker while
Harbor lives on in a process group of its own. `spent` and `spentBefore` are history. `BenchVerdict`
computes bands, strata, sample, averages and the verdict from a pool that grows task by task; fractions
are pairs of integers, so nothing is rounded.

## 3. Runs

| Run | Bounds | What it shows |
|---|---|---|
| `ledger` | four consultations, three of them on one bucket; two buckets, one kept by pruning; four plans (no enforcement, calls only, calls and cash with stop-on-unknown, calls and cash with confirm); estimate 2, cost 3, both or none | type invariant, exact charges, exact reservations, both ceilings, only justified refusals |
| `reset_race` | two buckets kept | *violated*: running consultations can hold more cash than the ceiling |
| `plugin` | the session's gate: two slots, or one; two signatures; threshold 2; eight configurations over failure modes, limits, budget on and off, simple mode. The ledger file: one instance, three transactions, any initial file, reads and writes that fail. 26,326 states | call limit, repetition, blocks, budget never blocks, every call ends; only a load that failed loses what was saved, the journal is implemented, the chain never wedges |
| `two_instances` | two instances | *violated*: one overwrites the other |
| `startup` | one instance, looks race the first transaction | *violated*: the file is overwritten with an almost empty ledger |
| `panel` | two models, each with an effort the other rejects; two settings to begin with (an executor pinned; an effort its model does not accept); an invalid limit; two edits, one change by others; 522,680 states | no edit is lost but those made during a save; a save writes the user's choices and nothing else; "saved" is true; a clean page catches up |
| `panel_effort` | the same, three edits, no change by others | *violated*: an effort is sent that the model rejects |
| `pi_session` | two callers of three kinds (two tool calls, a tool call and a manual consultation, two manual consultations); five configurations; threshold 2; 119,920 states | the limit is exact, Herdr is honest, repeats are gated, superseded consultations are silent, every call ends |
| `parts` | see below; 256,707 states | one property or more for each of nine modules |
| `external_edits` | three files to begin with, one edit by hand, one command | *violated*: an edit of `advisor.json` is overwritten by an open dialog |
| `stale_lock` | two reports of two processes, a stale lock and an incomplete salt from before, no further fault | *violated*: both take over the lock, and the log has digests of two salts |
| `block_in_flight` | the gate's, as `plugin` | *violated*: a parallel call starts after the block |

`plugin` and `parts` each check several modules in one run, nine in `parts`: a behaviour is that of one
part, chosen in the initial state, while the variables of the others keep a fixed initial value, so that
the states are the sum and not the product of the parts' states. The parts do not share state in the
code either; what holds of `PartsSpec` holds of each module's own specification. The bounds of `parts`:
three reports (two about one advice, one from another process), a log of two lines, one fault, two
attempts at the lock; two scouts; three chunks, interval 2; branches of four entries out of eleven kinds
under three sets of caps; answers of four lines out of ten kinds; three files, four argument lists, two
commands, one edit by hand; results of five lines, branches of three items, limits of zero and at and
around the marker's length, up to nine characters of markup; four plans of up to three steps under a cap
of six, one retry, two requests per attempt; pools of three tasks out of 25 kinds.

Why the bounds are enough. Three consultations on one bucket are what the accounting needs to go
wrong: one that holds, one that was reset away and settles late, one that is admitted because of
it; a fourth on another bucket makes pruning happen at the end of somebody else's transaction,
which `MaxBuckets` 1 (100 in the code) reaches with two buckets. A cost above the estimate and an
estimate above half the ceiling make the overshoot, the exact fit and the "cannot cover" cases
occur. Three transactions give the file one saved earlier, one in memory only and one running. Two
slots give every pair of overlapping calls; the limit 1 (and 0 and none) is reached with one call
to spare. `MaxConsumed` and `Threshold` saturate counters above every value the code compares them
with, so that restarted sessions do not grow the state; they hide no comparison. On the settings
page two edits are one before and one during a save, or a model and its effort, or an edit and its
reset; one change by others can arrive before, between and after them. The finding of
`panel_effort` takes three edits, and nothing else. In `parts`, two reports about one advice and a
third from elsewhere are what a lock, its takeover by two, and the advice ledger need; one fault is a
death, an old lock or a failing operation, and any file may be there from before. Four entries hold a
call, its result, another result with the same identifier and a request of the user; four lines an
opening fence, a decision, a closing fence and the verdict before them. Two commands are one that is
refused and one that saves afterwards. Three tasks give each stratum a member, or one stratum three.

Every property has a mutant: a plausible bug in a mapped definition under which the run fails. The
mutants stand in the modules, before the definitions they change.

### The violations

Each violated property states what a comment or the README promises, and the finding quotes it.
`reset_race`: two sessions can "spend the same remaining budget" once a bucket was reset under a
running call. `two_instances`: no file lock guards the read-modify-write window, although the class
comment says so. `startup`: `loaded` is set before the read it announces. `block_in_flight`: a call
whose gate was under way starts after another gate blocked the session. `stale_lock`: a test that
starts appends over a stale lock and an incomplete salt says that it "uses one exclusively created
salt"; of two calls that both found the lock old, the second removes the *new* lock of the first, and
the two then write with two salts. `panel_effort`: choose
another model, choose one of its efforts, reset the model by its link, save; `resetField` does not
reduce the effort as `edit` does, and a test is named "an effort the model does not advertise is
never sent". `external_edits`: the comment of `saveConfig` says that an edit of the file by hand
coexists with a later save; it does not where a dialog was opened before the edit and a load came
between, because the dialog's copy then differs from what was loaded.

Some texts disagree with the code without a run. `docs/configuration.md:79` says that a capped
result keeps its last lines; Pi collects the tail forwards and stops when the bytes are used up, so
that the last of them may go, while the plugin collects it backwards. In the plugin a limit equal to
the marker's length, or one more, is passed by up to two bytes when the lines are empty (`Math.max(0,
...)` in `dsh/core.js`), and the conversation is escaped after it was cut (`dsh/context.js:124`,
`src/tools/prompts.ts:29`). Herdr's label goes early when the
integration is switched during a consultation. A Harbor whose command timed out is not killed
(`bench/src/process.ts:51`), and ends by its own limits.

### Fairness

`LedgerFile` assumes weak fairness of the running transaction: file operations end (with or without
an error) and settled promises run their continuations, which Node guarantees. No fairness is
assumed of callers or crashes. `SessionGate` assumes weak fairness of the end of a tool call and of
a consultation: tools return, reservations and dialogs are answered, and provider streams end or are
cancelled. The code has no timeout of
its own for a stream (`dsh/advisor.js`), so this is an assumption about providers, and
`EveryCallEnds` shows what the code adds to it: no exit leaves a call undecided.
`PiSession` assumes the same of tools and consultations, and that the continuation of an aborted
manual consultation runs. In `parts`, a call of `OutcomeLog` that has not died takes its next step
(file operations end), a scout's model is resolved or refused, its timer fires and its continuation
runs, but nothing is assumed of the provider; and in `BenchCampaign` continuations run, requests and
the broker's start end because they have time limits, an attempt ends because it has one, and the
command's limit expires; a clean-up, which has none, may hang.
`PanelController` assumes that the Harness delivers what it has to tell a bound form, answers
writes, and that the continuation of `save` runs; nothing is assumed of the user, of others, or of
the namespace ever being served.

## 4. Proofs

The proof modules extend the components they are about. Nothing is assumed beyond the named assumption
on its constants that each component declares (`ConstantsAssumption`, `SessionGateAssumption`,
`LedgerFileAssumption`, `PiSessionAssumption`, `OutcomeLogAssumption`, `ScoutRunAssumption`,
`PanelAssumption`, `BenchAssumption`, `StreamUpdatesAssumption`, `GateProtocolAssumption`,
`ActivationAssumption`, `ScoutContextAssumption`, `DisclosureAssumption`, `VerdictAssumption`): sets are
finite where something is counted, bounds and lengths are naturals, markers such as `NoFile` are none of
the things they stand beside. The runs evaluate each of them. Every safety property of a passing run is
a theorem.

**Totals_proofs.** A sum over a set would be a recursion over the set, and its laws need an
induction that the prover's backends cannot instantiate. `TotalOf(S, f)` is therefore the number of
pairs `<<c, n>>` with `n` in `1..f[c]`, and what is known of cardinalities gives what a member adds
(`TotalWith`), what its removal takes away (`TotalWithout`), that a part is no more than the whole
(`TotalOfPart`), and that a bijection changes nothing (`TotalMoved`). `MCBudgetLedger` has TLC
compare `TotalOf` with a fold. Where an induction is needed after all, it is one about a *set*:
`UpTo` says that a set with 0, and with m wherever it has m - 1, holds `0..n`, and follows from the
library's well-foundedness of the naturals.

**BudgetLedger_proofs** (any finite sets of consultations and buckets, any plans, any number of
buckets kept). `CallCeiling` is not inductive: admission compares *committed calls* with the
ceiling and knows nothing of the consultations that took a slot. The inductive invariant
`SlotInv` adds, per bucket, what relates the two (`BucketInv`): the calls are the consultations
settled into the bucket, the reserved calls are at most those that hold a slot and exactly those
while no handle of a deleted bucket was used, and the committed calls cover every consultation in
`taken` unless such a handle was abandoned. The clamped decrement of `settle` and `release` is the
step where the argument could fail: a late settle frees a slot it never took, but adds a call at
the same moment, so the sum does not fall; only `release` does not add one, which is why
`Abandoned` appears in the statement. `CallCeilingHolds`, `CallsCounted`, `SlotsHeld` and
`CallBlocksJustified` follow from it, `TypeCorrect` comes first.
`CashInv` is the same for money, with sums in place of cardinalities (`CashBucket`): the cost of a
bucket is the sum of what was settled into it; its reserved cash is at most the sum of what its
holders hold, and exactly that until a handle of a deleted bucket comes back; and the two together
are within the ceiling and what the settled calls cost beyond their estimates. The last part is why
the sum of overshoots is in the statement: settling replaces what a call held by what it cost.
`CashFacts` says that an approved overrun holds no cash. `ChargesExact`, `ReservationsHeld`,
`CashCeilingHolds` and `RefusalsJustified` follow for any amounts.

**SessionGate_proofs** (any finite set of parallel slots, any signatures, threshold, limits).
`CallLimitHolds` is inductive together with `TypeOK` and a nonempty set of slots: a consultation
passes the check only below the limit, and each one that ends moves from `Consulting` to
`consumed`. `RepeatsAreGated` speaks of the history variable `streak` and says nothing about the
counter the code keeps, so `CountCovers` is added: without parallel calls the session's count, for
the signature the streak is about, is never behind the streak. `SequentialBlockHolds` needs that no
gate is pending while the session is blocked (`GateIsUnblocked`). `BudgetNeverBlocks` says of every
gate that was refused or declined that its call runs and the session stays as it was, and of every
block that a gate that had consulted made it; it needs the types, to know who waits for what.

**LedgerFile_proofs** (any set of transactions). `TypeCorrect` holds for any number of instances; the
other two theorems are stated under `Alone`: one instance, no look that overlaps the first load. Both
conditions are needed: `two_instances` and `startup` are counterexamples without them.
`SavedIsNeverLost` is about the file only; the inductive invariant `FileInv` says why the file may be
replaced by memory: the file is never newer than a loaded memory, so the read in the window never
replaces memory by less, and the text about to be renamed is what memory holds (`Stamps`); whatever is
saved is in memory once loaded, or was in the file when that load failed (`Known`, with `forgotten`);
which reads can be under way in which phase (`Phases`); and a transaction is queued once (`Waiting`).
`ImplementsJournal` maps every step of the file to a step of `DurableJournal` or to a stutter under the
same invariant.

**PiSession_proofs** (any finite slots and manual consultations, any signatures, configurations,
threshold). `Shape` says where a caller can be, `TypeInv` adds counters and flags; a lemma (`StepKinds`)
sorts the actions into those by which a consultation begins, those by which one is over and those that
keep who is in flight, which the later proofs use instead of the actions. `LimitIsExact` needs nothing
else, because the call is consumed in the step that checks the limit: compare `CallLimitHolds` of the
plugin, which is off by the number of parallel calls less one. `HerdrIsHonest` speaks of a label, and a
label says nothing about how often it must be taken down: `CountIsExact` (the count is the consultations
in flight while the integration is not switched under one) and `Edges` are added. `SupersededIsSilent`
follows from `NewestStreams`: whoever streams is the newest, in an open session. `RepeatsAreGated` needs
`CountCovers`, as in the plugin.

**OutcomeLog_proofs** (any finite calls and processes, any number of attempts, faults and lines).
`RecordedOnce` is about answers and the session's ledger; `ReportInv` adds what is between them: a
call that reports has its advice pending, unless the session that issued it is over, calls about
one advice are alternatives (`Reporters`), and whoever has passed the write is in the log.
`OneWriter` is not inductive in several ways, and `WriterInv` says why it holds nevertheless. `Locks`:
whoever is between open and close created the lock file that is there; a lock file that is old
has no such owner, and one call takes it over. `Logs`: what the holder has read of salt and size is
still true when it acts on it, no line was written before the salt was complete, and each has that
salt. Both hold until `contested`; the proof shows that the two cases it names are the only ones.

**PanelController_proofs** (any catalog, values, invalid limits and number of edits).
`TypeCorrect` is mostly about `Edited`, `WithEffort` and `DocumentForm`, which build a form from
another. `NoEditIsLost` is inductive with one addition (`ChoicesKept`): a choice that was not
overtaken makes the page dirty, and a dirty page takes no view.
The two action properties compare what is written with what the user chose, over a save that awaits
while form, settings and page change. `SaveInv` says what relates them at every moment: a form that
was edited, and knew the settings when it was, has them as its baseline (`Baseline`); fields nobody
chose anything for read as the settings (`FormFollows`); during a save, fields not edited since read
as the settings *will* when the patch is written (`PatchFollows`), and the patch holds the choices
(`WishesSent`). `SavesOnlyWhatChangedHolds` and `SavedMeansSavedHolds` are about any number of edits,
where the `panel` run has two; trying to prove them showed what a longer sequence does. An edit made
between the answer and the continuation of `save` counts as one during the save, and a number that was
cleared is never written: both are in the definitions of `late` and of `Held`. `Held` accepts an empty
executor only where it was unpinned; that a wish for one otherwise stays pinned is part of the invariant.

`OutTypesCorrect` adds the types. That attempts at the lock keep their bound is `Attempts`: a call that
is still trying for the lock has an attempt left.

**Parts_proofs** has a section for each of eight modules and one for their composition.

*Scouts* (any finite set of scouts, verdicts and answers). `VerdictInv` adds to `OneVerdict`
what holds before the end: no verdict yet, no cancellation before the beginning, and an abort that
settled the race only where the timer or the parent had acted. `CurationShown` needs where
a scout stands with the manager (`Registered`): known from its beginning, retired with its session
or its end, whichever comes first.

*Campaign* (any plan, cap, number of retries and requests). `LeaseFitsTheCap` compares
what was spent before a trial with its lease; that this is all that matters follows from `Books`:
what the guard reserved fits the cap and is what was spent, and the estimate of the one step in
flight; the lease is what the cap leaves; and an attempt that is followed by another has spent
nothing, which is what `Retryable` must guarantee. `InOrder` ties broker, wrapper and campaign
together. `BooksAreKept` is the theorem about the invariant itself. It bounds what was *reserved* at
every moment, and what was *spent* where nothing is in flight and the campaign has not failed. It does
not bound what a running call or trial spends: a request may cost more than its worst case, a call
more than its estimate, and a campaign that fails on it has spent what it has.

*Partial answers* (any interval and stream). `UpdatesAreCoalesced` says what was published, and
nothing of what waits. `StreamInv` adds it: the timer is due an interval after the last publication
(`TimerIsDue`), a closed stream has no timer and nothing pending (`ClosedIsIdle`), the last chunk is
published or pending and nothing newer than the pending value was published (`ValuesInOrder`). One
lemma (`PublishKeeps`) covers the three places that publish.

*The gate's parser* (answers of any length, over any lines and fences). The parser counts decisions
and forgets the lines; the property is about the lines. `ParserInv` says what the two have in common:
the first line that is not blank is the one remembered; a decision that was not counted stands in a
fenced example that was closed, or in the open one, whose opening line exists (`DecisionsAfter`). A
closing fence turns the second kind into the first, and the end of the answer into a refusal.

*Configuration* (any models, settings, files, number of commands and edits). A save writes what
differs from the last load, so `SavesAreChosen` rests on what memory, dialog and activation may differ
in. `SavesInv` says it: nothing is loaded, or memory has the file's values as they were loaded in
every entry but those that were chosen (`MemoryIsChosen`), and so have the options of an activation
that waits and the copy in a dialog. One lemma per action; `SaveOfChosen` is what each save needs.
That an activation that is refused puts the models back is part of the same invariant.

*Scout's context* (any branch over any alphabet, any caps). The state only grows, so this is about
the operators: groups are those of one caller each (`OneOwner`), at most two are required
(`FewRequired`), dropping the n oldest optional groups comes to an end where it fits or nothing
optional is left (`ManifestFits`, `OldestGoFirst`), and the selection takes as many as there is room
for (`ChosenFew`).

*Disclosure* (any limits and lengths, results, branches and files of any number). The head and the
tail of a result are the longest runs that fit (`LongestIs`, `CollectIs`), and `EndsFit` adds them up
with the marker: half of what is left for the head, the rest for the tail, both counts within the
lines. The plugin's tail, collected from the last line back, is the same sum in the opposite order
(`JoinedReversed`). What escaping adds grows with the markup, and a text holds no more of it than it
has characters (`EscapesOnTop`). The limit on files is about a running total, by `UpTo`.

*The verdict* (any pool, costs, number of seeds, size of the sample and quality). The property compares
averages of fractions, weighted by the shares of three strata, with two plain sums over the pool. Where
the comparison counts, the pool is `Covered`: no task is out of reach, or the flow's cost is unknown and
there is no recommendation (`NeverBeyond`). With two strata left, `TwoStrata` shows that the share of a
stratum cancels the size it was averaged over, up to a factor all four numbers have, and `PooledLess`
that the factor changes no comparison. A sample stands for its stratum because tasks that were left out
are like the others (`SampleOfEquals`, `ShareOfEquals`), which is the property's hypothesis. `Weigh`
writes the sum over the strata out, where the code loops over them, because the laws of a fold of
fractions would need an induction.

*The composition*. `PartsImplementEach` maps `PartsSpec` to the specification of every part, step by
step; what is proved of the parts is so proved of the specification the `parts` run checks.
`PartsTypesCorrect` follows from it and the type theorem of each part.

## 5. Only model-checked

Liveness under fairness (`ChainNeverWedges`, `EveryCallEnds`, `CleanPageCatchesUp`, `EveryWaitEnds`)
is beyond the prover. Every safety property of a passing run is a theorem; what TLC adds is that the
bounds of section 3 reach the cases they are about, and the mutants. The violated properties need no proof:
TLC's trace is one.

## 6. Not modelled, and the plan

In this order, most important first.

1. `PanelRefresh`: status and history answers out of order, the connection test, the session id that
   is chosen once (the hazard at `dsh/client/panel-controller.js:285`).
2. A composition of `SessionGate` with `BudgetLedger` (refusals decided by the ledger instead of by
   choice).
3. Price arithmetic (`dsh/advisor-cost.js`), normalisation of the plugin's configuration
   (`dsh/config.js`), the field-by-field validation of `src/config/validation.ts`.
4. The benchmark beyond its money and its verdict: scoring of one decision, replay, reports. They
   transform files that nobody else writes.

Not planned: rendering (`AdvisorPanel.js` beyond which controls it offers, `src/ui/*`), redaction,
prompts and wording, the generated bundle `dsh/client.js` and scripts: no state a property could be
about.
