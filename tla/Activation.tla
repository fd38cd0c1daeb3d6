----------------------------- MODULE Activation -----------------------------
(***************************************************************************)
(* The configuration of the Pi extension and the commands that change it:  *)
(* advisor.json and its copy in memory (src/config/storage.ts, state.ts,   *)
(* defaults.ts), /advisor with its model pickers and its two awaits        *)
(* (src/commands/activation.ts, activation-preparation.ts,                 *)
(* model-options.ts, model-picker.ts), /advisor-models, /advisor-settings, *)
(* /advisor-off, the selection of a model and the start of a session.      *)
(*                                                                         *)
(* The same file may be edited by hand at any time, and is loaded again by *)
(* every tool call and consultation, also while a command waits.  One key  *)
(* stands for all settings that are neither a model nor named below; the   *)
(* thinking level goes with its model.                                     *)
(***************************************************************************)
EXTENDS Naturals, FiniteSets

CONSTANTS
    Models,        \* model references
    Usable,        \* those the registry finds and offers
    NoModel,       \* no reference
    Malformed,     \* a file that does not parse or validate
    NotLoaded,     \* nothing loaded, no dialog
    ArgSets,       \* arguments of /advisor
    FirstFiles,    \* files a first session finds
    MaxEdits,      \* edits by hand
    MaxCommands    \* commands, selections and session starts

Refs == Models \cup {NoModel}

\* The keys of CONFIG_SCHEMA: a default is as good as no entry.
FileConfig == [executor: Refs, advisor: Refs, setting: {"default", "custom"},
               alwaysOn: BOOLEAN, consent: BOOLEAN]
SavedKeys == {"executor", "advisor", "setting", "alwaysOn"}
Defaults == [executor |-> NoModel, advisor |-> NoModel, setting |-> "default",
             alwaysOn |-> FALSE, consent |-> FALSE]

\* What the dialog of /advisor-settings shows.
Dialogs == [setting: {"default", "custom"}, alwaysOn: BOOLEAN, consent: BOOLEAN]

ASSUME ActivationAssumption ==
    /\ Usable \subseteq Models /\ NoModel \notin Models
    /\ {Malformed, NotLoaded} \cap FileConfig = {} /\ NotLoaded \notin Dialogs \cup BOOLEAN
    /\ FirstFiles \subseteq FileConfig
    /\ ArgSets \subseteq [executor: Refs, advisor: Refs, setting: {"none", "custom", "invalid"}]
    /\ MaxEdits \in Nat /\ MaxCommands \in Nat

VARIABLES
    disk,          \* advisor.json
    refs,          \* the references in memory
    loadedState,   \* loadedConfigState
    persisted,     \* getPersistedModelRefs
    pendingModel,  \* pendingExecutorModelRef
    flowOn, model, \* ask_advisor is active; the model of the session
    act,           \* the activation that waits
    dialog,        \* the settings the dialog shows
    edits, commands,
    \* History variables.  No action's guard reads them.
    chosen,        \* keys whose value in memory the user chose and no save wrote
    mixed,         \* a load or a save failed, or a load or command came while another waited
    clobbered      \* keys of the file a save changed though nobody chose to

actVars == <<disk, refs, loadedState, persisted, pendingModel, flowOn, model, act, dialog,
             edits, commands, chosen, mixed, clobbered>>

NoPersisted == [executor |-> NoModel, advisor |-> NoModel]
Idle == [at |-> "idle"]
UserIsAsked == act # Idle \/ dialog # NotLoaded

\* A dialog or pickers have the input.
Modal == dialog # NotLoaded \/ act.at \in {"picking", "models"}

\* A command that waits: for its pickers, the key of the Advisor, the change of model.
Activations ==
    [at: {"picking", "models", "auth", "switching"}, previous: FileConfig, target: Refs, selectExecutor: BOOLEAN,
     selectAdvisor: BOOLEAN, options: [executor: Refs, advisor: Refs], save: BOOLEAN]

-----------------------------------------------------------------------------
(* loadConfig and saveConfig *)

\* resetDefaults, then the file.  A file that cannot be read leaves the defaults, and what
\* was loaded before.
Loaded == IF disk = Malformed THEN Defaults ELSE disk
LoadOK == disk # Malformed

\* Mutant: a failed load forgets nothing, the file is applied over what was in memory.
MutantLoadInto(r) ==
    /\ refs' = r
    /\ persisted' = [executor |-> Loaded.executor, advisor |-> Loaded.advisor]
    /\ UNCHANGED loadedState

LoadInto(r) ==
    /\ refs' = r
    /\ persisted' = [executor |-> Loaded.executor, advisor |-> Loaded.advisor]
    /\ loadedState' = IF LoadOK THEN disk ELSE loadedState

Existing == IF disk = Malformed THEN Defaults ELSE disk
Changed(r) == IF loadedState = NotLoaded THEN SavedKeys
              ELSE {k \in SavedKeys : r[k] # loadedState[k]}

\* Mutant: everything in memory is written.
MutantWritten(r, keepAdvisor, keepExecutor) ==
    IF Changed(r) = {} THEN {} ELSE SavedKeys

\* shouldPersistConfigKey, for what changed since the last load or save.
Written(r, keepAdvisor, keepExecutor) ==
    {k \in Changed(r) : (k = "advisor" => keepAdvisor) /\ (k = "executor" => keepExecutor)}

\* saveConfig with memory r, of which the user just chose keys; consent is what
\* saveGlobalOutcomeLogging writes after it, or NotLoaded.
Save(r, keepAdvisor, keepExecutor, keys, consent) ==
    LET written == Written(r, keepAdvisor, keepExecutor)
        base == IF loadedState = NotLoaded THEN Existing ELSE loadedState
        mine == chosen \cup keys
        saved == IF Changed(r) = {} THEN disk
                 ELSE [k \in DOMAIN Defaults |-> IF k \in written THEN r[k] ELSE Existing[k]]
    IN /\ disk' = IF consent = NotLoaded THEN saved
                  ELSE [(IF saved = Malformed THEN Defaults ELSE saved) EXCEPT !.consent = consent]
       /\ loadedState' = IF Changed(r) = {} THEN loadedState
                         ELSE [r EXCEPT !.advisor = IF keepAdvisor THEN @ ELSE base.advisor,
                                        !.executor = IF keepExecutor THEN @ ELSE base.executor]
       /\ refs' = r
       /\ chosen' = mine \ written
       /\ clobbered' = IF disk = Malformed THEN clobbered
                       ELSE clobbered \cup {k \in DOMAIN Defaults : disk'[k] # disk[k] /\ k \notin mine}

\* A tool call, a turn or a consultation loads the configuration.
BackgroundLoad ==
    /\ LoadInto(Loaded)
    /\ chosen' = {}
    /\ mixed' = (mixed \/ ~LoadOK \/ UserIsAsked)
    /\ UNCHANGED <<disk, pendingModel, flowOn, model, act, dialog, edits, commands, clobbered>>

Count == commands < MaxCommands /\ commands' = commands + 1

-----------------------------------------------------------------------------
(* activateAdvisor *)

Override(r, args) ==
    [r EXCEPT !.executor = IF args.executor = NoModel THEN @ ELSE args.executor,
              !.advisor = IF args.advisor = NoModel THEN @ ELSE args.advisor,
              !.setting = IF args.setting = "none" THEN @ ELSE args.setting]
Overridden(args) == {k \in {"executor", "advisor"} : args[k] # NoModel}
               \cup (IF args.setting = "none" THEN {} ELSE {"setting"})

\* parseArgs and getExplicitModelError.
BadArgs(args) ==
    \/ args.setting = "invalid"
    \/ \E k \in {"executor", "advisor"} : args[k] \notin Usable \cup {NoModel}

\* planActivationModels, with the model that was selected before.
Adopted(args, pending) == IF args.executor = NoModel /\ pending \in Usable THEN pending ELSE NoModel
SelectExecutor(args, pending) ==
    args.executor = NoModel /\ Adopted(args, pending) = NoModel /\ Loaded.executor \notin Usable
SelectAdvisor(args) == args.advisor = NoModel /\ Loaded.advisor \notin Usable

\* resolveActivationModels up to its first await.
Resolvable(r) == r.executor \in Usable /\ r.advisor \in Usable

\* Mutant: a refused activation leaves its arguments in memory.
MutantRestored(r, previous) == r

\* restoreRefs.
Restored(r, previous) ==
    [r EXCEPT !.executor = previous.executor, !.advisor = previous.advisor, !.setting = previous.setting]

\* An activation begins: it loads, parses, plans, and waits for the pickers or for the key
\* of the Advisor, or is refused.
Activate(args, announce, pending) ==
    LET asked == Override(Loaded, args)
        adopted == Adopted(args, pending)
        planned == [asked EXCEPT !.executor = IF adopted = NoModel THEN @ ELSE adopted]
        picking == SelectExecutor(args, pending) \/ SelectAdvisor(args)
        ready == ~BadArgs(args) /\ (IF picking THEN announce ELSE Resolvable(planned))
        waits == LoadOK /\ ready
    IN /\ LoadInto(IF waits THEN planned ELSE Restored(planned, Loaded))
       /\ act' = IF ~waits THEN Idle
                 ELSE [at |-> IF picking THEN "picking" ELSE "auth",
                       previous |-> Loaded, target |-> planned.executor,
                       selectExecutor |-> SelectExecutor(args, pending),
                       selectAdvisor |-> SelectAdvisor(args),
                       options |-> [executor |-> planned.executor, advisor |-> planned.advisor],
                       save |-> picking \/ adopted # NoModel \/ Overridden(args) # {}]
       /\ chosen' = IF waits THEN Overridden(args) \cup (IF adopted = NoModel THEN {} ELSE {"executor"})
                    ELSE {}
       /\ mixed' = (mixed \/ ~LoadOK \/ UserIsAsked)

Advisor(args) ==
    /\ Count /\ act = Idle /\ ~Modal
    /\ Activate(args, TRUE, pendingModel)
    /\ UNCHANGED <<disk, pendingModel, flowOn, model, dialog, edits, clobbered>>

NoArgs == [executor |-> NoModel, advisor |-> NoModel, setting |-> "none"]

\* session_start: with alwaysOn it activates, without pickers.
LoadAtSessionStart ==
    /\ Count /\ ~UserIsAsked
    /\ pendingModel' = NoModel /\ flowOn' = FALSE
    /\ IF Loaded.alwaysOn THEN Activate(NoArgs, FALSE, NoModel)
       ELSE /\ LoadInto(Loaded)
            /\ chosen' = {} /\ mixed' = (mixed \/ ~LoadOK)
            /\ UNCHANGED act
    /\ UNCHANGED <<disk, model, dialog, edits, clobbered>>

RefuseActivation ==
    /\ refs' = Restored(refs, act.previous)
    /\ act' = Idle
    /\ chosen' = chosen \ {"executor", "advisor", "setting"}
    /\ UNCHANGED <<disk, loadedState, persisted, pendingModel, flowOn, model, dialog, edits,
                   commands, mixed, clobbered>>

\* The pickers are left, or give models; those then are resolved.
PickerCancelled == act.at = "picking" /\ RefuseActivation

Picked(e, a) ==
    /\ act.at = "picking"
    /\ IF act.selectExecutor THEN e \in Usable ELSE e = act.options.executor
    /\ IF act.selectAdvisor THEN a \in Usable ELSE a = act.options.advisor
    /\ refs' = [refs EXCEPT !.executor = e, !.advisor = a]
    /\ act' = [act EXCEPT !.at = "auth", !.target = e]
    /\ chosen' = chosen \cup (IF act.selectExecutor THEN {"executor"} ELSE {})
                        \cup (IF act.selectAdvisor THEN {"advisor"} ELSE {})
    /\ UNCHANGED <<disk, loadedState, persisted, pendingModel, flowOn, model, dialog, edits,
                   commands, mixed, clobbered>>

\* The key of the Advisor: there is none, or setModel is called.
KeyMissing == act.at = "auth" /\ RefuseActivation

KeyFound ==
    /\ act.at = "auth"
    /\ act' = [act EXCEPT !.at = "switching"]
    /\ UNCHANGED <<disk, refs, loadedState, persisted, pendingModel, flowOn, model, dialog, edits,
                   commands, chosen, mixed, clobbered>>

SwitchRefused == act.at = "switching" /\ RefuseActivation

\* setModel succeeded: the models are saved, and the tools enabled.
Activated ==
    /\ act.at = "switching"
    /\ model' = act.target
    /\ IF act.save THEN Save(refs, TRUE, TRUE, {}, NotLoaded)
       ELSE UNCHANGED <<disk, refs, loadedState, chosen, clobbered>>
    /\ pendingModel' = NoModel /\ flowOn' = TRUE /\ act' = Idle
    /\ UNCHANGED <<persisted, dialog, edits, commands, mixed>>

\* saveConfig throws after setModel: the model is changed, the rest is not.
SaveThrows ==
    /\ act.at = "switching" /\ act.save /\ Changed(refs) # {}
    /\ model' = act.target /\ act' = Idle
    /\ mixed' = TRUE
    /\ UNCHANGED <<disk, refs, loadedState, persisted, pendingModel, flowOn, dialog, edits,
                   commands, chosen, clobbered>>

-----------------------------------------------------------------------------
(* The other commands *)

\* /advisor-models: its pickers open, and are left or give the models, which are saved.
ModelsCommand ==
    /\ Count /\ act = Idle /\ ~Modal
    /\ LoadInto(Loaded)
    /\ act' = IF ~LoadOK THEN Idle
              ELSE [at |-> "models", previous |-> Loaded, target |-> NoModel,
                    selectExecutor |-> TRUE, selectAdvisor |-> TRUE,
                    options |-> NoPersisted, save |-> TRUE]
    /\ chosen' = {} /\ mixed' = (mixed \/ ~LoadOK)
    /\ UNCHANGED <<disk, pendingModel, flowOn, model, dialog, edits, clobbered>>

ModelsCancelled ==
    /\ act.at = "models" /\ act' = Idle
    /\ UNCHANGED <<disk, refs, loadedState, persisted, pendingModel, flowOn, model, dialog, edits,
                   commands, chosen, mixed, clobbered>>

ModelsPicked(e, a) ==
    /\ act.at = "models" /\ act' = Idle
    /\ Save([refs EXCEPT !.executor = e, !.advisor = a], TRUE, TRUE, {"executor", "advisor"}, NotLoaded)
    /\ pendingModel' = NoModel
    /\ UNCHANGED <<persisted, flowOn, model, dialog, edits, commands, mixed>>

\* /advisor-settings: the dialog shows a copy, and every change saves all of it.
OpenDialog ==
    /\ Count /\ ~Modal
    /\ LoadInto(Loaded)
    /\ dialog' = IF LoadOK THEN [setting |-> disk.setting, alwaysOn |-> disk.alwaysOn, consent |-> disk.consent]
                 ELSE NotLoaded
    /\ chosen' = {} /\ mixed' = (mixed \/ ~LoadOK \/ UserIsAsked)
    /\ UNCHANGED <<disk, pendingModel, flowOn, model, act, edits, clobbered>>

Other(k) == IF k # "setting" THEN ~dialog[k]
            ELSE IF dialog.setting = "default" THEN "custom" ELSE "default"

\* saveAdvisorSettings.
ChangeSetting(k) ==
    /\ dialog # NotLoaded
    /\ dialog' = [dialog EXCEPT ![k] = Other(k)]
    /\ LET r == [refs EXCEPT !.setting = dialog'.setting, !.alwaysOn = dialog'.alwaysOn,
                             !.consent = dialog'.consent]
       IN Save(r, persisted.advisor # NoModel, persisted.executor # NoModel, {k}, dialog'.consent)
    /\ mixed' = (mixed \/ act # Idle)
    /\ UNCHANGED <<persisted, pendingModel, flowOn, model, act, edits, commands>>

CloseDialog ==
    /\ dialog # NotLoaded /\ dialog' = NotLoaded
    /\ UNCHANGED <<disk, refs, loadedState, persisted, pendingModel, flowOn, model, act, edits,
                   commands, chosen, mixed, clobbered>>

\* /advisor-off.
Off ==
    /\ Count /\ ~Modal
    /\ flowOn' = FALSE
    /\ IF refs.alwaysOn
       THEN Save([refs EXCEPT !.alwaysOn = FALSE], persisted.advisor # NoModel,
                 persisted.executor # NoModel, {"alwaysOn"}, NotLoaded)
       ELSE UNCHANGED <<disk, refs, loadedState, chosen, clobbered>>
    /\ mixed' = (mixed \/ UserIsAsked)
    /\ UNCHANGED <<persisted, pendingModel, model, act, dialog, edits>>

\* The user selects a model: while the flow is off it is kept for the next activation,
\* while setModel runs it is taken for that call's own.
SelectModel(m) ==
    /\ Count /\ ~Modal
    /\ model' = m
    /\ mixed' = (mixed \/ UserIsAsked)
    /\ IF act.at = "switching"
       THEN UNCHANGED <<disk, refs, loadedState, pendingModel, chosen, clobbered>>
       ELSE IF ~flowOn
       THEN pendingModel' = m /\ UNCHANGED <<disk, refs, loadedState, chosen, clobbered>>
       ELSE /\ pendingModel' = NoModel
            /\ IF m = refs.executor THEN UNCHANGED <<disk, refs, loadedState, chosen, clobbered>>
               ELSE Save([refs EXCEPT !.executor = m], persisted.advisor # NoModel, TRUE,
                         {"executor"}, NotLoaded)
    /\ UNCHANGED <<persisted, flowOn, act, dialog, edits>>

\* The file is edited by hand.
EditFile(f) ==
    /\ edits < MaxEdits /\ edits' = edits + 1
    /\ f # disk /\ disk' = f
    /\ UNCHANGED <<refs, loadedState, persisted, pendingModel, flowOn, model, act, dialog,
                   commands, chosen, mixed, clobbered>>

-----------------------------------------------------------------------------

ActInit ==
    /\ disk \in FirstFiles
    /\ refs = Defaults /\ loadedState = NotLoaded /\ persisted = NoPersisted
    /\ pendingModel = NoModel /\ flowOn = FALSE /\ model = NoModel
    /\ act = Idle /\ dialog = NotLoaded
    /\ edits = 0 /\ commands = 0
    /\ chosen = {} /\ mixed = FALSE /\ clobbered = {}

ActNext ==
    \/ BackgroundLoad \/ LoadAtSessionStart
    \/ \E args \in ArgSets : Advisor(args)
    \/ PickerCancelled \/ KeyMissing \/ KeyFound \/ SwitchRefused \/ Activated \/ SaveThrows
    \/ \E e, a \in Usable : ModelsPicked(e, a)
    \/ \E e, a \in Refs : Picked(e, a)
    \/ ModelsCommand \/ ModelsCancelled \/ OpenDialog \/ CloseDialog \/ Off
    \/ \E k \in {"setting", "alwaysOn", "consent"} : ChangeSetting(k)
    \/ \E m \in Usable : SelectModel(m)
    \/ \E f \in FirstFiles \cup {Malformed} : EditFile(f)

ActSpec == ActInit /\ [][ActNext]_actVars

-----------------------------------------------------------------------------
(* Properties *)

ActTypeOK ==
    /\ disk \in FileConfig \cup {Malformed} /\ refs \in FileConfig
    /\ loadedState \in FileConfig \cup {NotLoaded}
    /\ persisted \in [executor: Refs, advisor: Refs]
    /\ pendingModel \in Refs /\ model \in Refs /\ flowOn \in BOOLEAN
    /\ act = Idle \/ act \in Activations
    /\ dialog = NotLoaded \/ dialog \in Dialogs
    /\ edits \in 0..MaxEdits /\ commands \in 0..MaxCommands
    /\ chosen \subseteq DOMAIN Defaults /\ clobbered \subseteq DOMAIN Defaults /\ mixed \in BOOLEAN

(***************************************************************************)
(* A save changes nothing in the file that the user did not choose to      *)
(* change, whatever was edited by hand since the load, refused activations *)
(* and pickers included; and once an activation is over the models in      *)
(* memory are those of the file as it was loaded or saved.  Where a load   *)
(* failed, or came while a command waited, neither holds.  The consent to  *)
(* outcome logging is the exception: the dialog writes its copy.           *)
(***************************************************************************)
SavesAreChosen ==
    ~mixed => /\ clobbered \subseteq {"consent"}
              /\ act = Idle /\ loadedState # NotLoaded =>
                    refs.executor = loadedState.executor /\ refs.advisor = loadedState.advisor

(***************************************************************************)
(* src/config/storage.ts:167: "Only values changed since the last          *)
(* load/save are written. This lets an external edit to advisor.json       *)
(* coexist with a later settings or model save."                           *)
(***************************************************************************)
ExternalEditsSurvive == clobbered \subseteq {"consent"}
=============================================================================
