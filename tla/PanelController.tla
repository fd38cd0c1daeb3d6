--------------------------- MODULE PanelController ---------------------------
(***************************************************************************)
(* The Advisor Settings page: AdvisorPanelController                       *)
(* (dsh/client/panel-controller.js) with the field rules of                *)
(* settings-fields.js and catalog.js, and the controls AdvisorPanel.js     *)
(* enables in each state.                                                  *)
(*                                                                         *)
(* The page edits a draft of the settings the Harness holds.  Saving sends *)
(* the difference between the draft and a baseline, and awaits an answer;  *)
(* meanwhile the user may go on editing, somebody else may change the      *)
(* settings, and the Harness tells the page of changes when it gets to it. *)
(*                                                                         *)
(* The settings are the two models with their efforts, the Advisor switch, *)
(* and `limit`, which stands for every field no other field depends on.    *)
(* Status, history and connection test are left out.                       *)
(***************************************************************************)
EXTENDS Naturals

CONSTANTS
    Models,         \* model references
    Accepts,        \* the model catalog: the efforts of the models it lists
    Efforts,
    Limits,         \* values of `limit`
    InvalidLimits,  \* those validationErrors rejects
    Blank,          \* the empty string
    Undefined,      \* a field the draft does not have, or a cleared number
    NoWish,         \* the user has not chosen a value
    Documents,      \* settings the Harness may hold at first
    Defaults,       \* fieldDefaults
    OthersKeys,     \* the settings others change
    MaxEdits,       \* bound on edits of the user
    MaxChanges      \* bound on changes by others

Keys == {"advisorEnabled", "advisor", "advisorEffort", "executor", "executorEffort", "limit"}

\* executorPinned is a field of the form and not a setting.
Fields == Keys \cup {"executorPinned"}

ValuesOf(k) ==
    CASE k \in {"advisorEnabled", "executorPinned"} -> BOOLEAN
      [] k \in {"advisor", "executor"} -> Models \cup {Blank}
      [] k \in {"advisorEffort", "executorEffort"} -> Efforts \cup {Blank}
      [] k = "limit" -> Limits

IsDocument(s) == DOMAIN s = Keys /\ \A k \in Keys : s[k] \in ValuesOf(k)

ASSUME PanelAssumption ==
    /\ DOMAIN Accepts \subseteq Models
    /\ \A m \in DOMAIN Accepts : Accepts[m] \subseteq Efforts
    /\ InvalidLimits \subseteq Limits
    /\ \A k \in Keys \ {"limit"} : InvalidLimits \cap ValuesOf(k) = {}
    /\ \A s \in Documents \cup {Defaults} : IsDocument(s) /\ s["limit"] \notin InvalidLimits
    /\ Blank \notin Models \cup Efforts
    /\ \A k \in Fields : {Undefined, NoWish} \cap ValuesOf(k) = {}
    /\ Undefined # NoWish
    /\ OthersKeys \subseteq Keys
    /\ {MaxEdits, MaxChanges} \subseteq Nat

VARIABLES
    \* the Harness
    host,      \* the settings
    served,    \* the settings namespace of the plugin is served
    ready,     \* the form has loaded its document
    news,      \* the form has something to tell the page
    write,     \* how far the write of a save has come: form.mutate
    \* the controller
    page,      \* closed, unserved (no form to bind) or open (a form is bound)
    loading,
    catalog,   \* the model catalog: not asked for, asked for, there or refused
    draft,
    initial,   \* the baseline
    dirty,
    patch,     \* what the save in progress writes; Undefined for the other keys
    \* counters that bound the model
    edits, changes,
    \* History variables.  No action's guard reads them.
    wish,      \* what the user chose and has not been told is saved or dropped, but
               \* efforts that the catalog does not list for the model when it loads
    late,      \* fields the user changed while a save was in progress
    overtaken, \* a save ended after such a change
    stale      \* others changed the settings, or the user edited the form while the
               \* baseline was behind, since the draft was last taken from them

harness == <<host, served, ready, news, write>>
bounds == <<edits, changes>>
history == <<wish, late, overtaken, stale>>
vars == <<host, served, ready, news, write, page, loading, catalog, draft, initial, dirty,
          patch, edits, changes, wish, late, overtaken, stale>>

-----------------------------------------------------------------------------
(* Field rules *)

Nothing == [k \in Fields |-> Undefined]
NoPatch == [k \in Keys |-> Undefined]
NoWishes == [k \in Fields |-> NoWish]

CatalogThere == catalog = "there"

IsEmpty(v) == v \in {Blank, Undefined}

ValuesFrom(s) ==
    [k \in Fields |-> IF k = "executorPinned" THEN ~IsEmpty(s["executor"]) ELSE s[k]]

\* effortsFor: the efforts of a model, none while the catalog is not there.
Row(there, ref) == IF there /\ ref \in DOMAIN Accepts THEN Accepts[ref] ELSE {}

\* effectiveEffort, for the effort field that goes with a model field.
EffortOf(model) == IF model = "advisor" THEN "advisorEffort" ELSE "executorEffort"

WithEffort(d, there, model) ==
    [d EXCEPT ![EffortOf(model)] = IF @ \in Row(there, d[model]) THEN @ ELSE Blank]

\* Mutant: the Executor is cleared where it is pinned.
MutantDiffPatch(before, d) ==
    [k \in Keys |->
        LET wanted == IF k = "executor" /\ d["executorPinned"] # FALSE THEN Blank ELSE d[k]
        IN  IF wanted = before[k] \/ (IsEmpty(wanted) /\ IsEmpty(before[k]))
            THEN Undefined ELSE wanted]

\* What a save writes.  A pin that was switched off clears the Executor.
DiffPatch(before, d) ==
    [k \in Keys |->
        IF k = "executor"
        THEN LET wanted == IF d["executorPinned"] = FALSE \/ IsEmpty(d[k]) THEN Blank ELSE d[k]
             IN  IF wanted = before[k] \/ (IsEmpty(wanted) /\ IsEmpty(before[k]))
                 THEN Undefined ELSE wanted
        ELSE IF d[k] = before[k] THEN Undefined ELSE d[k]]

\* The form as it is after the user set field k to v.
Edited(k, v) ==
    LET set == [draft EXCEPT ![k] = v]
        orSaved(f) == IF ~IsEmpty(set[f]) THEN set[f]
                      ELSE IF initial[f] = Undefined THEN Blank ELSE initial[f]
    IN  CASE k = "executor" ->
                WithEffort(IF IsEmpty(v) THEN [set EXCEPT !["executorPinned"] = FALSE] ELSE set,
                           CatalogThere, "executor")
          [] k = "executorEffort" -> WithEffort(set, CatalogThere, "executor")
          [] k \in {"advisor", "advisorEffort"} -> WithEffort(set, CatalogThere, "advisor")
          [] k = "executorPinned" /\ v = TRUE -> [set EXCEPT !["executor"] = orSaved("executor")]
          [] k = "advisorEnabled" /\ v = TRUE -> [set EXCEPT !["advisor"] = orSaved("advisor")]
          [] OTHER -> set

-----------------------------------------------------------------------------
(* What AdvisorPanel.js lets the user do *)

BodyShown == page # "closed" /\ ~loading

Visible(k) == k \in {"executor", "executorEffort"} => draft["executorPinned"] # FALSE

OfferedEfforts(ref) ==
    IF Row(CatalogThere, ref) = {} THEN {} ELSE {Blank} \cup Row(CatalogThere, ref)

\* The values the control of field k can produce.  A catalog without rows leaves
\* a text field for the Advisor model.
Offered(k) ==
    CASE k \in {"advisorEnabled", "executorPinned"} -> {draft[k] # TRUE}
      [] k = "advisor" ->
            {Blank} \cup IF CatalogThere /\ DOMAIN Accepts # {} THEN DOMAIN Accepts ELSE Models
      [] k = "executor" -> {Blank} \cup Models
      [] k = "advisorEffort" -> OfferedEfforts(draft["advisor"])
      [] k = "executorEffort" -> OfferedEfforts(draft["executor"])
      [] k = "limit" -> {Undefined} \cup Limits

-----------------------------------------------------------------------------
(* The controller *)

Init ==
    /\ host \in Documents
    /\ served \in BOOLEAN
    /\ ready \in BOOLEAN
    /\ news = FALSE
    /\ write = "none"
    /\ page = "closed"
    /\ loading = TRUE
    /\ catalog = "none"
    /\ draft = Nothing
    /\ initial = Nothing
    /\ dirty = FALSE
    /\ patch = NoPatch
    /\ edits = 0
    /\ changes = 0
    /\ wish = NoWishes
    /\ late = {}
    /\ overtaken = FALSE
    /\ stale = FALSE

\* Mutant: the draft follows the settings only once.
MutantAcceptView ==
    /\ initial' = ValuesFrom(IF ready THEN host ELSE Defaults)
    /\ draft' = IF dirty \/ draft # Nothing THEN draft ELSE initial'
    /\ loading' = ~ready
    /\ news' = FALSE
    /\ stale' = (stale /\ dirty)

\* acceptView: a dirty draft stays, the baseline always follows the settings.
AcceptView ==
    /\ initial' = ValuesFrom(IF ready THEN host ELSE Defaults)
    /\ draft' = IF dirty THEN draft ELSE initial'
    /\ loading' = ~ready
    /\ news' = FALSE
    /\ stale' = (stale /\ dirty)

\* start, when the page is shown: bind the form if there is one, and ask for the
\* catalog the first time.
Start ==
    /\ page = "closed"
    /\ IF served
       THEN page' = "open" /\ AcceptView
       ELSE /\ page' = "unserved"
            /\ loading' = FALSE
            /\ UNCHANGED <<initial, draft, news, stale>>
    /\ catalog' = IF catalog = "none" THEN "asked" ELSE catalog
    /\ UNCHANGED <<host, served, ready, write, dirty, patch, bounds, wish, late, overtaken>>

\* The function start returns: the page is left.  A save in progress goes on.
Stop ==
    /\ page # "closed"
    /\ page' = "closed"
    /\ UNCHANGED <<harness, loading, catalog, draft, initial, dirty, patch, bounds, history>>

\* syncNamespace, when the namespace appears.
Served ==
    /\ ~served
    /\ served' = TRUE
    /\ IF page = "unserved"
       THEN page' = "open" /\ AcceptView
       ELSE UNCHANGED <<page, initial, draft, loading, news, stale>>
    /\ UNCHANGED <<host, ready, write, catalog, dirty, patch, bounds, wish, late, overtaken>>

\* The form tells the page of the settings as they are now.
View ==
    /\ page = "open"
    /\ news
    /\ AcceptView
    /\ UNCHANGED <<host, served, ready, write, page, catalog, dirty, patch, bounds,
                   wish, late, overtaken>>

\* The user changed the form: every field that has another value now is a choice.
UserSets(k, d) ==
    /\ BodyShown
    /\ edits < MaxEdits
    /\ edits' = edits + 1
    /\ draft' = d
    /\ dirty' = TRUE
    /\ LET chosen == {k} \cup {f \in Fields : d[f] # draft[f]}
       IN  /\ wish' = [f \in Fields |-> IF f \in chosen THEN d[f] ELSE wish[f]]
           /\ late' = IF write = "none" THEN {} ELSE late \cup chosen
    /\ stale' = (stale \/ initial # ValuesFrom(host))
    /\ UNCHANGED <<harness, page, loading, catalog, initial, patch, changes, overtaken>>

Edit(k, v) ==
    /\ Visible(k)
    /\ v \in Offered(k) \ {draft[k]}
    /\ UserSets(k, Edited(k, v))

\* The link is there when the field differs from the baseline.
ResetField(k) ==
    /\ Visible(k)
    /\ initial # Nothing
    /\ initial[k] # draft[k]
    /\ LET d == [draft EXCEPT ![k] = initial[k]]
       IN  UserSets(k, IF k = "executor" THEN [d EXCEPT !["executorPinned"] = FALSE] ELSE d)

\* Mutant: Discard forgets to take the baseline.
MutantDiscard ==
    /\ page # "closed" /\ dirty /\ write = "none"
    /\ dirty' = FALSE
    /\ wish' = NoWishes
    /\ UNCHANGED <<harness, page, loading, catalog, draft, initial, patch, bounds,
                   late, overtaken, stale>>

Discard ==
    /\ page # "closed" /\ dirty /\ write = "none"
    /\ draft' = initial
    /\ dirty' = FALSE
    /\ wish' = NoWishes
    /\ UNCHANGED <<harness, page, loading, catalog, initial, patch, bounds,
                   late, overtaken, stale>>

\* Mutant: the draft is not validated.
MutantCanSave == page = "open" /\ dirty /\ write = "none" /\ ~loading

\* save, up to the await.  Without a form, and with an invalid value, it only
\* reports an error or nothing at all.
CanSave ==
    /\ page = "open" /\ dirty /\ write = "none" /\ ~loading
    /\ draft["limit"] \notin InvalidLimits

SaveNothing ==
    /\ CanSave
    /\ DiffPatch(initial, draft) = NoPatch
    /\ dirty' = FALSE
    /\ wish' = NoWishes
    /\ UNCHANGED <<harness, page, loading, catalog, draft, initial, patch, bounds,
                   late, overtaken, stale>>

Save ==
    /\ CanSave
    /\ DiffPatch(initial, draft) # NoPatch
    /\ patch' = DiffPatch(initial, draft)
    /\ write' = "asked"
    /\ late' = {}
    /\ UNCHANGED <<host, served, ready, news, page, loading, catalog, draft, initial, dirty,
                   bounds, wish, overtaken, stale>>

SaveAccepted ==
    /\ write = "accepted"
    /\ write' = "none"
    /\ dirty' = FALSE
    /\ patch' = NoPatch
    /\ wish' = [f \in Fields |-> IF f \in late THEN wish[f] ELSE NoWish]
    /\ overtaken' = (overtaken \/ late # {})
    /\ late' = {}
    /\ UNCHANGED <<host, served, ready, news, page, loading, catalog, draft, initial,
                   bounds, stale>>

\* Mutant: a refused save leaves the page clean.
MutantSaveRefused ==
    /\ write = "refused"
    /\ write' = "none"
    /\ patch' = NoPatch
    /\ late' = {}
    /\ dirty' = FALSE
    /\ UNCHANGED <<host, served, ready, news, page, loading, catalog, draft, initial,
                   bounds, wish, overtaken, stale>>

\* The write was refused or failed: the draft is kept for correction.
SaveRefused ==
    /\ write = "refused"
    /\ write' = "none"
    /\ patch' = NoPatch
    /\ late' = {}
    /\ UNCHANGED <<host, served, ready, news, page, loading, catalog, draft, initial, dirty,
                   bounds, wish, overtaken, stale>>

\* The wishes that are left when the catalog loads.
WishesListed ==
    [f \in Fields |->
        IF \E m \in {"advisor", "executor"} :
              f = EffortOf(m) /\ wish[f] \notin Row(TRUE, draft[m]) \cup {Blank}
        THEN NoWish ELSE wish[f]]

\* loadCatalog ends.  Efforts the models do not accept are taken out of the draft.
CatalogLoaded ==
    /\ catalog = "asked"
    /\ catalog' = "there"
    /\ draft' = WithEffort(WithEffort(draft, TRUE, "advisor"), TRUE, "executor")
    /\ wish' = WishesListed
    /\ UNCHANGED <<harness, page, loading, initial, dirty, patch, bounds, late, overtaken, stale>>

CatalogFails ==
    /\ catalog = "asked"
    /\ catalog' = "refused"
    /\ UNCHANGED <<harness, page, loading, draft, initial, dirty, patch, bounds, history>>

-----------------------------------------------------------------------------
(* The Harness *)

FormLoads ==
    /\ ~ready
    /\ ready' = TRUE
    /\ news' = TRUE
    /\ UNCHANGED <<host, served, write, page, loading, catalog, draft, initial, dirty, patch,
                   bounds, history>>

\* Somebody else changes a setting: a command, a hand edit, another page.
OthersChange(k, v) ==
    /\ changes < MaxChanges
    /\ v # host[k]
    /\ changes' = changes + 1
    /\ host' = [host EXCEPT ![k] = v]
    /\ news' = TRUE
    /\ stale' = TRUE
    /\ UNCHANGED <<served, ready, write, page, loading, catalog, draft, initial, dirty, patch,
                   edits, wish, late, overtaken>>

WriteAccepted ==
    /\ write = "asked"
    /\ write' = "accepted"
    /\ host' = [k \in Keys |-> IF patch[k] = Undefined THEN host[k] ELSE patch[k]]
    /\ news' = TRUE
    /\ UNCHANGED <<served, ready, page, loading, catalog, draft, initial, dirty, patch,
                   bounds, history>>

WriteRefused ==
    /\ write = "asked"
    /\ write' = "refused"
    /\ UNCHANGED <<host, served, ready, news, page, loading, catalog, draft, initial, dirty,
                   patch, bounds, history>>

-----------------------------------------------------------------------------
SaveEnds == WriteAccepted \/ WriteRefused \/ SaveAccepted \/ SaveRefused

Next ==
    \/ Start \/ Stop \/ Served \/ View \/ FormLoads
    \/ \E k \in Fields :
          \/ \E v \in Offered(k) : Edit(k, v)
          \/ ResetField(k)
    \/ Discard \/ SaveNothing \/ Save \/ SaveEnds
    \/ CatalogLoaded \/ CatalogFails
    \/ \E k \in OthersKeys : \E v \in ValuesOf(k) \ InvalidLimits : OthersChange(k, v)

Spec == Init /\ [][Next]_vars

\* The Harness answers writes and delivers its news; promises are resumed.
FairSpec == Spec /\ WF_vars(View) /\ WF_vars(SaveEnds)
-----------------------------------------------------------------------------
(* Properties *)

\* Everything stays in its type; a patch exists exactly while a save waits for it
\* and names no setting an invalid value.
TypeOK ==
    /\ IsDocument(host)
    /\ {served, ready, news, loading, dirty, overtaken, stale} \subseteq BOOLEAN
    /\ write \in {"none", "asked", "accepted", "refused"}
    /\ page \in {"closed", "unserved", "open"}
    /\ catalog \in {"none", "asked", "there", "refused"}
    /\ \A f \in Fields :
          /\ draft[f] \in ValuesOf(f) \cup {Undefined}
          /\ initial[f] \in ValuesOf(f) \cup {Undefined}
          /\ wish[f] \in ValuesOf(f) \cup {Undefined, NoWish}
    /\ \A k \in Keys : patch[k] \in (ValuesOf(k) \ InvalidLimits) \cup {Undefined}
    /\ patch = NoPatch <=> write = "none"
    /\ late \subseteq Fields
    /\ edits \in 0..MaxEdits
    /\ changes \in 0..MaxChanges

IsEffort(k) == k \in {"advisorEffort", "executorEffort"}

\* What the user chose stays in the form until it is saved, reset or discarded: not a
\* refused save, not a view of the settings, not a visit to another page takes it
\* away (save, acceptView, start), nor the catalog, but for an effort it does not list
\* for the model.  Edits made while a save is in progress are not covered: that save
\* makes them clean.
NoEditIsLost ==
    ~overtaken => \A f \in Fields : wish[f] # NoWish => draft[f] = wish[f]

Chosen(k) ==
    \/ wish[k] # NoWish
    \/ k = "executor" /\ wish["executorPinned"] # NoWish
    \/ IsEffort(k) /\ patch'[k] = Blank

\* "Build the settings patch for the fields the user actually changed" (diffPatch):
\* as long as nobody else changed the settings and no field was edited while the page
\* did not know them, a save changes no setting of the Harness but those.
SavesOnlyWhatChanged ==
    [][(write = "none" /\ write' = "asked" /\ ~stale) =>
          \A k \in Keys : patch'[k] \notin {Undefined, host[k]} => Chosen(k)]_vars

\* What the settings hold for a field the user chose a value for.  They have no
\* Executor when it was unpinned, and an Executor has none when the pin was set back
\* while the save was in progress.  A cleared number is never written.
Held(f) ==
    CASE f = "executorPinned" -> ~wish[f] => host["executor"] = Blank
      [] f = "executor" ->
            \/ host[f] = wish[f]
            \/ host[f] = Blank /\ (wish["executorPinned"] = FALSE \/ "executorPinned" \in late)
      [] OTHER -> host[f] = wish[f] \/ wish[f] = Undefined

\* "Advisor settings saved." (save): all the user chose before the save is in the
\* settings then, but a number that was cleared and an Executor that was unpinned
\* (by the switch, by an empty choice or by the reset link of the Executor); the
\* conditions are those of the two properties above.
SavedMeansSaved ==
    [][(write = "accepted" /\ write' = "none" /\ ~stale /\ ~overtaken) =>
          \A f \in Fields \ late : wish[f] # NoWish => Held(f)]_vars

\* "an effort the model does not advertise is never sent": with the catalog there, a
\* save writes no effort the chosen model does not accept.
EffortsSentAreAccepted ==
    [][(write = "none" /\ write' = "asked" /\ CatalogThere) =>
          \A m \in {"advisor", "executor"} :
             patch'[EffortOf(m)] \in {Undefined, Blank} \cup Row(TRUE, draft[m])]_vars

InStep ==
    /\ initial = ValuesFrom(host)
    /\ \A k \in Keys : DiffPatch(initial, draft)[k] \in {Undefined} \cup IF IsEffort(k) THEN {Blank} ELSE {}

\* A clean page comes to show the settings of the Harness (acceptView, save), unless a
\* save overtook an edit or others changed the settings while the page was dirty.
CleanPageCatchesUp ==
    (page = "open" /\ ready /\ ~dirty /\ write = "none") ~>
        (page # "open" \/ dirty \/ write # "none" \/ overtaken \/ stale \/ InStep)
=============================================================================
