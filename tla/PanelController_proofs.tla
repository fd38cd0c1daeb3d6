------------------------ MODULE PanelController_proofs ------------------------
(***************************************************************************)
(* The types of the Settings page; that it takes away nothing the user     *)
(* chose; that a save writes only what the user chose, and that a save     *)
(* reported as done has written it: for any models, efforts, catalog and   *)
(* documents, and any number of edits and of changes by others.            *)
(***************************************************************************)
EXTENDS PanelController, TLAPS

-----------------------------------------------------------------------------
(* The form *)

Entry(f) == ValuesOf(f) \cup {Undefined}

\* A form has an entry for every field, of the field's type.
IsForm(d) == d = [f \in Fields |-> d[f]] /\ \A f \in Fields : d[f] \in Entry(f)

LEMMA FieldTypes ==
  /\ Fields = {"advisorEnabled", "advisor", "advisorEffort", "executor", "executorEffort",
               "limit", "executorPinned"}
  /\ Keys = Fields \ {"executorPinned"}
  /\ ValuesOf("advisorEnabled") = BOOLEAN /\ ValuesOf("executorPinned") = BOOLEAN
  /\ ValuesOf("advisor") = Models \cup {Blank} /\ ValuesOf("executor") = Models \cup {Blank}
  /\ ValuesOf("advisorEffort") = Efforts \cup {Blank}
  /\ ValuesOf("executorEffort") = Efforts \cup {Blank}
  /\ ValuesOf("limit") = Limits
<1>1. Fields = {"advisorEnabled", "advisor", "advisorEffort", "executor", "executorEffort",
                "limit", "executorPinned"} /\ Keys = Fields \ {"executorPinned"}
  BY DEF Fields, Keys
<1>2. ValuesOf("advisorEnabled") = BOOLEAN
  BY DEF ValuesOf
<1>3. ValuesOf("executorPinned") = BOOLEAN
  BY DEF ValuesOf
<1>4. ValuesOf("advisor") = Models \cup {Blank}
  BY DEF ValuesOf
<1>5. ValuesOf("executor") = Models \cup {Blank}
  BY DEF ValuesOf
<1>6. ValuesOf("advisorEffort") = Efforts \cup {Blank}
  BY DEF ValuesOf
<1>7. ValuesOf("executorEffort") = Efforts \cup {Blank}
  BY DEF ValuesOf
<1>8. ValuesOf("limit") = Limits
  BY DEF ValuesOf
<1> QED
  BY <1>1, <1>2, <1>3, <1>4, <1>5, <1>6, <1>7, <1>8

LEMMA SetField ==
  ASSUME NEW d, IsForm(d), NEW k \in Fields, NEW v \in Entry(k)
  PROVE  IsForm([d EXCEPT ![k] = v])
BY DEF IsForm

LEMMA WithEffortForm ==
  ASSUME NEW d, IsForm(d), NEW there, NEW model \in {"advisor", "executor"}
  PROVE  /\ IsForm(WithEffort(d, there, model))
         /\ \A f \in Fields : \/ WithEffort(d, there, model)[f] = d[f]
                              \/ IsEffort(f) /\ WithEffort(d, there, model)[f] = Blank
<1> DEFINE e == EffortOf(model)
           v == IF d[e] \in Row(there, d[model]) THEN d[e] ELSE Blank
<1>1. e \in Fields /\ IsEffort(e) /\ Blank \in Entry(e)
  BY FieldTypes DEF EffortOf, IsEffort, Entry
<1>2. WithEffort(d, there, model) = [d EXCEPT ![e] = v]
  BY DEF WithEffort
<1>3. v = d[e] \/ v = Blank
  OBVIOUS
<1> HIDE DEF e, v
<1>4. v \in Entry(e)
  BY <1>1, <1>3 DEF IsForm
<1> QED
  BY <1>1, <1>2, <1>3, <1>4, SetField DEF IsForm

LEMMA DocumentForm ==
  ASSUME NEW s, IsDocument(s)
  PROVE  IsForm(ValuesFrom(s))
BY FieldTypes DEF IsDocument, ValuesFrom, IsForm, Entry

LEMMA EditedForm ==
  ASSUME IsForm(draft), IsForm(initial), NEW k \in Fields, NEW v \in Entry(k)
  PROVE  IsForm(Edited(k, v))
<1> DEFINE set == [draft EXCEPT ![k] = v]
           saved(f) == IF ~IsEmpty(set[f]) THEN set[f]
                       ELSE IF initial[f] = Undefined THEN Blank ELSE initial[f]
<1>1. IsForm(set)
  BY SetField
<1>2. \A f \in {"advisor", "executor"} : saved(f) \in Entry(f)
  <2> SUFFICES ASSUME NEW f \in {"advisor", "executor"} PROVE saved(f) \in Entry(f)
    OBVIOUS
  <2>1. f \in Fields /\ Blank \in Entry(f)
    BY FieldTypes DEF Entry
  <2>2. set[f] \in Entry(f) /\ initial[f] \in Entry(f)
    BY <1>1, <2>1 DEF IsForm
  <2> QED
    BY <2>1, <2>2
<1>3. CASE k = "executor"
  <2>1. "executorPinned" \in Fields /\ FALSE \in Entry("executorPinned")
    BY FieldTypes DEF Entry
  <2>2. IsForm([set EXCEPT !["executorPinned"] = FALSE])
    BY <1>1, <2>1, SetField
  <2>3. IsForm(IF IsEmpty(v) THEN [set EXCEPT !["executorPinned"] = FALSE] ELSE set)
    BY <1>1, <2>2
  <2>4. Edited(k, v) = WithEffort(IF IsEmpty(v) THEN [set EXCEPT !["executorPinned"] = FALSE]
                                  ELSE set, CatalogThere, "executor")
    BY <1>3 DEF Edited
  <2> QED
    BY <2>3, <2>4, WithEffortForm
<1>4. CASE k = "executorEffort"
  <2>1. Edited(k, v) = WithEffort(set, CatalogThere, "executor")
    BY <1>4 DEF Edited
  <2> QED
    BY <1>1, <2>1, WithEffortForm
<1>5. CASE k \in {"advisor", "advisorEffort"}
  <2>1. Edited(k, v) = WithEffort(set, CatalogThere, "advisor")
    BY <1>5 DEF Edited
  <2> QED
    BY <1>1, <2>1, WithEffortForm
<1>6. CASE k = "executorPinned" /\ v = TRUE
  <2>1. Edited(k, v) = [set EXCEPT !["executor"] = saved("executor")]
    BY <1>6 DEF Edited
  <2>2. saved("executor") \in Entry("executor") /\ "executor" \in Fields
    BY <1>2, FieldTypes
  <2>3. IsForm([set EXCEPT !["executor"] = saved("executor")])
    <3> HIDE DEF set, saved
    <3> QED
      BY <1>1, <2>2, SetField
  <2> QED
    BY <2>1, <2>3
<1>7. CASE k = "advisorEnabled" /\ v = TRUE
  <2>1. Edited(k, v) = [set EXCEPT !["advisor"] = saved("advisor")]
    BY <1>7 DEF Edited
  <2>2. saved("advisor") \in Entry("advisor") /\ "advisor" \in Fields
    BY <1>2, FieldTypes
  <2>3. IsForm([set EXCEPT !["advisor"] = saved("advisor")])
    <3> HIDE DEF set, saved
    <3> QED
      BY <1>1, <2>2, SetField
  <2> QED
    BY <2>1, <2>3
<1>8. CASE k = "limit" \/ (k \in {"executorPinned", "advisorEnabled"} /\ v # TRUE)
  <2>1. Edited(k, v) = set
    BY <1>8 DEF Edited
  <2> QED
    BY <1>1, <2>1
<1> QED
  BY <1>3, <1>4, <1>5, <1>6, <1>7, <1>8, FieldTypes

-----------------------------------------------------------------------------
(* What the user may do to the form *)

LEMMA RowOfEfforts ==
  ASSUME NEW there, NEW ref
  PROVE  Row(there, ref) \subseteq Efforts
BY PanelAssumption DEF Row

LEMMA OfferedEntry ==
  ASSUME NEW k \in Fields, NEW v \in Offered(k)
  PROVE  v \in Entry(k)
<1>1. CASE k \in {"advisorEnabled", "executorPinned"}
  BY <1>1, FieldTypes DEF Offered, Entry
<1>2. CASE k = "advisor"
  <2>1. v \in {Blank} \cup Models
    BY <1>2, PanelAssumption DEF Offered
  <2> QED
    BY <1>2, <2>1, FieldTypes DEF Entry
<1>3. CASE k = "executor"
  <2>1. v \in {Blank} \cup Models
    BY <1>3 DEF Offered
  <2> QED
    BY <1>3, <2>1, FieldTypes DEF Entry
<1>4. CASE k = "advisorEffort"
  <2>1. v \in OfferedEfforts(draft["advisor"])
    BY <1>4 DEF Offered
  <2>2. v \in {Blank} \cup Efforts
    BY <2>1, RowOfEfforts DEF OfferedEfforts
  <2> QED
    BY <1>4, <2>2, FieldTypes DEF Entry
<1>5. CASE k = "executorEffort"
  <2>1. v \in OfferedEfforts(draft["executor"])
    BY <1>5 DEF Offered
  <2>2. v \in {Blank} \cup Efforts
    BY <2>1, RowOfEfforts DEF OfferedEfforts
  <2> QED
    BY <1>5, <2>2, FieldTypes DEF Entry
<1>6. CASE k = "limit"
  <2>1. v \in {Undefined} \cup Limits
    BY <1>6 DEF Offered
  <2> QED
    BY <1>6, <2>1, FieldTypes DEF Entry
<1> QED
  BY <1>1, <1>2, <1>3, <1>4, <1>5, <1>6, FieldTypes

\* Whatever the user does, the form gets another form.
LEMMA UserSetsForm ==
  ASSUME IsForm(draft), IsForm(initial), NEW k \in Fields,
         (\E v \in Offered(k) : Edit(k, v)) \/ ResetField(k)
  PROVE  \E d : IsForm(d) /\ UserSets(k, d)
<1>1. ASSUME NEW v \in Offered(k), Edit(k, v)
      PROVE  \E d : IsForm(d) /\ UserSets(k, d)
  BY <1>1, OfferedEntry, EditedForm DEF Edit
<1>2. CASE ResetField(k)
  <2> DEFINE d == [draft EXCEPT ![k] = initial[k]]
             e == IF k = "executor" THEN [d EXCEPT !["executorPinned"] = FALSE] ELSE d
  <2>1. initial[k] \in Entry(k)
    BY DEF IsForm
  <2>2. IsForm(d)
    BY <2>1, SetField
  <2>3. "executorPinned" \in Fields /\ FALSE \in Entry("executorPinned")
    BY FieldTypes DEF Entry
  <2>4. IsForm([d EXCEPT !["executorPinned"] = FALSE])
    <3> HIDE DEF d
    <3> QED
      BY <2>2, <2>3, SetField
  <2>5. IsForm(e)
    BY <2>2, <2>4
  <2>6. UserSets(k, e)
    BY <1>2 DEF ResetField
  <2> HIDE DEF e
  <2> QED
    BY <2>5, <2>6
<1> QED
  BY <1>1, <1>2

-----------------------------------------------------------------------------
(* What a save writes *)

Patches == [k \in Keys |-> (ValuesOf(k) \ InvalidLimits) \cup {Undefined}]

LEMMA PatchTypes ==
  ASSUME IsForm(draft), IsForm(initial), draft["limit"] \notin InvalidLimits, NEW k \in Keys
  PROVE  DiffPatch(initial, draft)[k] \in Patches[k]
<1>1. k \in Fields /\ draft[k] \in Entry(k) /\ initial[k] \in Entry(k)
  BY FieldTypes DEF IsForm
<1>2. Patches[k] = (ValuesOf(k) \ InvalidLimits) \cup {Undefined}
  BY DEF Patches
<1>3. CASE k = "executor"
  <2> DEFINE wanted == IF draft["executorPinned"] = FALSE \/ IsEmpty(draft[k]) THEN Blank ELSE draft[k]
  <2>1. DiffPatch(initial, draft)[k] = IF wanted = initial[k] \/ (IsEmpty(wanted) /\ IsEmpty(initial[k]))
                                       THEN Undefined ELSE wanted
    BY <1>3 DEF DiffPatch
  <2>2. wanted \in ValuesOf(k)
    BY <1>1, <1>3, FieldTypes DEF Entry, IsEmpty
  <2>3. InvalidLimits \cap ValuesOf(k) = {}
    BY <1>3, PanelAssumption, FieldTypes
  <2> HIDE DEF wanted
  <2> QED
    BY <1>2, <2>1, <2>2, <2>3
<1>4. CASE k # "executor"
  <2>1. DiffPatch(initial, draft)[k] = IF draft[k] = initial[k] THEN Undefined ELSE draft[k]
    BY <1>4 DEF DiffPatch
  <2>2. draft[k] \notin InvalidLimits \/ draft[k] = Undefined
    BY <1>1, PanelAssumption, FieldTypes DEF Entry
  <2> QED
    BY <1>1, <1>2, <2>1, <2>2 DEF Entry
<1> QED
  BY <1>3, <1>4

-----------------------------------------------------------------------------
(* Types *)

HarnessTypes ==
    /\ IsDocument(host)
    /\ served \in BOOLEAN /\ ready \in BOOLEAN /\ news \in BOOLEAN
    /\ write \in {"none", "asked", "accepted", "refused"}
    /\ \A k \in Keys : patch[k] \in Patches[k]
    /\ patch = NoPatch <=> write = "none"

PageTypes ==
    /\ loading \in BOOLEAN /\ dirty \in BOOLEAN /\ overtaken \in BOOLEAN /\ stale \in BOOLEAN
    /\ page \in {"closed", "unserved", "open"}
    /\ catalog \in {"none", "asked", "there", "refused"}
    /\ late \subseteq Fields
    /\ edits \in 0..MaxEdits
    /\ changes \in 0..MaxChanges

FormTypes ==
    /\ IsForm(draft) /\ IsForm(initial)
    /\ \A f \in Fields : wish[f] \in Entry(f) \cup {NoWish}

Types == HarnessTypes /\ PageTypes /\ FormTypes

LEMMA TypesImplyTypeOK == Types => TypeOK
BY FieldTypes DEF Types, HarnessTypes, PageTypes, FormTypes, IsForm, Entry, Patches, TypeOK

LEMMA NothingIsForm ==
  /\ IsForm(Nothing)
  /\ \A f \in Fields : NoWishes[f] \in Entry(f) \cup {NoWish}
  /\ \A k \in Keys : NoPatch[k] \in Patches[k]
BY DEF IsForm, Nothing, NoWishes, NoPatch, Entry, Patches

LEMMA TypesInit == Init => Types
<1> SUFFICES ASSUME Init PROVE Types
  OBVIOUS
<1>1. HarnessTypes
  BY NothingIsForm, PanelAssumption DEF Init, HarnessTypes
<1>2. PageTypes
  <2>1. MaxEdits \in Nat /\ MaxChanges \in Nat
    BY PanelAssumption
  <2>2. 0 \in 0..MaxEdits /\ 0 \in 0..MaxChanges
    BY <2>1
  <2>3. /\ loading = TRUE /\ dirty = FALSE /\ overtaken = FALSE /\ stale = FALSE
        /\ page = "closed" /\ catalog = "none" /\ late = {} /\ edits = 0 /\ changes = 0
    BY DEF Init
  <2> QED
    BY <2>2, <2>3 DEF PageTypes
<1>3. FormTypes
  BY NothingIsForm DEF Init, FormTypes
<1> QED
  BY <1>1, <1>2, <1>3 DEF Types

LEMMA HarnessTypesStep ==
  ASSUME Types, [Next]_vars
  PROVE  HarnessTypes'
<1> USE DEF Types
<1>1. CASE Start \/ Served \/ View
  BY <1>1 DEF Start, Served, View, AcceptView, HarnessTypes
<1>2. CASE FormLoads \/ Stop \/ CatalogLoaded \/ CatalogFails \/ Discard \/ SaveNothing
  BY <1>2 DEF FormLoads, Stop, CatalogLoaded, CatalogFails, Discard, SaveNothing, harness,
              HarnessTypes
<1>3. ASSUME NEW k \in Fields, NEW d, UserSets(k, d)
      PROVE  HarnessTypes'
  BY <1>3 DEF UserSets, harness, HarnessTypes
<1>4. CASE Save
  <2>1. \A k \in Keys : patch'[k] \in Patches[k]
    BY <1>4, PatchTypes DEF Save, CanSave, FormTypes
  <2> QED
    BY <1>4, <2>1 DEF Save, HarnessTypes
<1>5. CASE WriteAccepted
  <2>1. DOMAIN host' = Keys
    BY <1>5 DEF WriteAccepted
  <2>2. ASSUME NEW k \in Keys PROVE host'[k] \in ValuesOf(k)
    <3>1. host'[k] = IF patch[k] = Undefined THEN host[k] ELSE patch[k]
      BY <1>5 DEF WriteAccepted
    <3>2. host[k] \in ValuesOf(k) /\ patch[k] \in ValuesOf(k) \cup {Undefined}
      BY DEF HarnessTypes, IsDocument, Patches
    <3> QED
      BY <3>1, <3>2
  <2>3. IsDocument(host')
    BY <2>1, <2>2 DEF IsDocument
  <2> QED
    BY <1>5, <2>3 DEF WriteAccepted, HarnessTypes
<1>6. CASE WriteRefused
  BY <1>6 DEF WriteRefused, HarnessTypes
<1>7. CASE SaveAccepted \/ SaveRefused
  BY <1>7, NothingIsForm DEF SaveAccepted, SaveRefused, HarnessTypes
<1>8. ASSUME NEW k \in OthersKeys, NEW v \in ValuesOf(k) \ InvalidLimits, OthersChange(k, v)
      PROVE  HarnessTypes'
  <2>1. k \in Keys /\ IsDocument([host EXCEPT ![k] = v])
    BY PanelAssumption DEF HarnessTypes, IsDocument
  <2> QED
    BY <1>8, <2>1 DEF OthersChange, HarnessTypes
<1>9. CASE UNCHANGED vars
  BY <1>9 DEF vars, HarnessTypes
<1> QED
  BY <1>1, <1>2, <1>3, <1>4, <1>5, <1>6, <1>7, <1>8, <1>9, UserSetsForm
     DEF Next, SaveEnds, FormTypes

LEMMA PageTypesStep ==
  ASSUME Types, [Next]_vars
  PROVE  PageTypes'
<1> USE DEF Types
<1>0. MaxEdits \in Nat /\ MaxChanges \in Nat
  BY PanelAssumption
<1>1. CASE Start \/ Served \/ View
  <2>1. (~ready) \in BOOLEAN /\ (stale /\ dirty) \in BOOLEAN
    OBVIOUS
  <2> QED
    BY <1>1, <2>1 DEF Start, Served, View, AcceptView, PageTypes, bounds
<1>2. CASE FormLoads \/ Stop \/ CatalogLoaded \/ CatalogFails \/ Discard \/ SaveNothing
  BY <1>2 DEF FormLoads, Stop, CatalogLoaded, CatalogFails, Discard, SaveNothing, bounds, history,
              PageTypes
<1>3. ASSUME NEW k \in Fields, NEW d, UserSets(k, d)
      PROVE  PageTypes'
  <2>1. stale' \in BOOLEAN /\ dirty' \in BOOLEAN /\ late' \subseteq Fields
    BY <1>3 DEF UserSets, PageTypes
  <2>2. edits' \in 0..MaxEdits
    BY <1>0, <1>3 DEF UserSets, PageTypes
  <2> QED
    BY <1>3, <2>1, <2>2 DEF UserSets, PageTypes
<1>4. CASE Save \/ WriteAccepted \/ WriteRefused \/ SaveRefused
  BY <1>4 DEF Save, WriteAccepted, WriteRefused, SaveRefused, bounds, history, PageTypes
<1>5. CASE SaveAccepted
  <2>1. overtaken' \in BOOLEAN
    BY <1>5 DEF SaveAccepted, PageTypes
  <2> QED
    BY <1>5, <2>1 DEF SaveAccepted, bounds, PageTypes
<1>6. ASSUME NEW k \in OthersKeys, NEW v, OthersChange(k, v)
      PROVE  PageTypes'
  BY <1>0, <1>6 DEF OthersChange, PageTypes
<1>7. CASE UNCHANGED vars
  BY <1>7 DEF vars, PageTypes
<1> QED
  BY <1>1, <1>2, <1>3, <1>4, <1>5, <1>6, <1>7, UserSetsForm DEF Next, SaveEnds, FormTypes

LEMMA AcceptViewForm ==
  ASSUME Types, AcceptView
  PROVE  IsForm(draft') /\ IsForm(initial')
<1>1. IsDocument(IF ready THEN host ELSE Defaults)
  BY PanelAssumption DEF Types, HarnessTypes
<1>2. IsForm(initial')
  BY <1>1, DocumentForm DEF AcceptView
<1> QED
  BY <1>2 DEF AcceptView, Types, FormTypes

\* Of an effort the catalog leaves what it lists for the model.
Listed(m) ==
    IF draft[EffortOf(m)] \in Row(TRUE, draft[m]) THEN draft[EffortOf(m)] ELSE Blank

LEMMA WithEffortFields ==
  ASSUME NEW d, IsForm(d), NEW there, NEW m \in {"advisor", "executor"}
  PROVE  /\ \A f \in Fields \ {EffortOf(m)} : WithEffort(d, there, m)[f] = d[f]
         /\ WithEffort(d, there, m)[EffortOf(m)] =
              IF d[EffortOf(m)] \in Row(there, d[m]) THEN d[EffortOf(m)] ELSE Blank
<1>1. EffortOf(m) \in Fields
  BY FieldTypes DEF EffortOf
<1> QED
  BY <1>1 DEF WithEffort, IsForm

LEMMA CatalogForm ==
  ASSUME Types, CatalogLoaded
  PROVE  /\ IsForm(draft')
         /\ \A f \in Fields : draft'[f] = draft[f] \/ (IsEffort(f) /\ draft'[f] = Blank)
         /\ \A m \in {"advisor", "executor"} : draft'[EffortOf(m)] = Listed(m)
<1> DEFINE d == WithEffort(draft, TRUE, "advisor")
<1>0. /\ EffortOf("advisor") = "advisorEffort" /\ EffortOf("executor") = "executorEffort"
      /\ {"advisor", "executor", "advisorEffort", "executorEffort"} \subseteq Fields
      /\ IsForm(draft)
  BY FieldTypes DEF EffortOf, Types, FormTypes
<1>1. IsForm(d) /\ \A f \in Fields : d[f] = draft[f] \/ (IsEffort(f) /\ d[f] = Blank)
  BY <1>0, WithEffortForm
<1>5. /\ \A f \in Fields \ {EffortOf("advisor")} : d[f] = draft[f]
      /\ d[EffortOf("advisor")] = Listed("advisor")
  BY <1>0, WithEffortFields DEF Listed
<1>2. draft' = WithEffort(d, TRUE, "executor")
  BY DEF CatalogLoaded
<1> HIDE DEF d
<1>3. IsForm(draft') /\ \A f \in Fields : draft'[f] = d[f] \/ (IsEffort(f) /\ draft'[f] = Blank)
  BY <1>1, <1>2, WithEffortForm
<1>6. /\ \A f \in Fields \ {EffortOf("executor")} : draft'[f] = d[f]
      /\ draft'[EffortOf("executor")] =
           IF d[EffortOf("executor")] \in Row(TRUE, d["executor"])
           THEN d[EffortOf("executor")] ELSE Blank
  BY <1>1, <1>2, WithEffortFields
<1>4. /\ draft'[EffortOf("advisor")] = Listed("advisor")
      /\ draft'[EffortOf("executor")] = Listed("executor")
  BY <1>0, <1>5, <1>6 DEF Listed
<1> QED
  BY <1>0, <1>1, <1>3, <1>4

\* A choice the catalog does not withdraw stays as it is, in the form as well.
LEMMA CatalogWishes ==
  ASSUME Types, CatalogLoaded, NEW f \in Fields
  PROVE  /\ wish'[f] \in {wish[f], NoWish}
         /\ ~IsEffort(f) => wish'[f] = wish[f]
         /\ wish'[f] # wish[f] => wish[f] # Blank /\ (draft[f] = wish[f] => draft'[f] = Blank)
         /\ wish'[f] # NoWish /\ draft[f] = wish[f] => draft'[f] = wish'[f]
<1> DEFINE gone(m) == f = EffortOf(m) /\ wish[f] \notin Row(TRUE, draft[m]) \cup {Blank}
<1>1. wish'[f] = IF \E m \in {"advisor", "executor"} : gone(m) THEN NoWish ELSE wish[f]
  BY DEF CatalogLoaded, WishesListed
<1>2. /\ \A g \in Fields : draft'[g] = draft[g] \/ (IsEffort(g) /\ draft'[g] = Blank)
      /\ \A m \in {"advisor", "executor"} : draft'[EffortOf(m)] = Listed(m)
  BY CatalogForm
<1>3. IsEffort(f) <=> \E m \in {"advisor", "executor"} : f = EffortOf(m)
  BY DEF IsEffort, EffortOf
<1>4. CASE ~IsEffort(f)
  BY <1>1, <1>2, <1>3, <1>4
<1>5. ASSUME NEW m \in {"advisor", "executor"}, f = EffortOf(m)
      PROVE  /\ wish'[f] = IF gone(m) THEN NoWish ELSE wish[f]
             /\ draft'[f] = IF draft[f] \in Row(TRUE, draft[m]) THEN draft[f] ELSE Blank
  <2>1. \A n \in {"advisor", "executor"} : f = EffortOf(n) => n = m
    BY <1>5 DEF EffortOf
  <2> QED
    BY <1>1, <1>2, <1>5, <2>1 DEF Listed
<1>6. CASE IsEffort(f)
  <2> PICK m \in {"advisor", "executor"} : f = EffortOf(m)
    BY <1>3, <1>6
  <2> QED
    BY <1>5, <1>6
<1> QED
  BY <1>4, <1>6

LEMMA FormTypesStep ==
  ASSUME Types, [Next]_vars
  PROVE  FormTypes'
<1> USE DEF Types
<1>1. CASE Start \/ Served \/ View
  <2>1. wish' = wish
    BY <1>1 DEF Start, Served, View, bounds
  <2>2. AcceptView \/ UNCHANGED <<draft, initial>>
    BY <1>1 DEF Start, Served, View
  <2> QED
    BY <2>1, <2>2, AcceptViewForm DEF FormTypes
<1>2. CASE Discard \/ SaveNothing
  BY <1>2, NothingIsForm DEF Discard, SaveNothing, FormTypes
<1>3. ASSUME NEW k \in Fields, NEW d, IsForm(d), UserSets(k, d)
      PROVE  FormTypes'
  <2>1. \A f \in Fields : wish'[f] = d[f] \/ wish'[f] = wish[f]
    BY <1>3 DEF UserSets
  <2> QED
    BY <1>3, <2>1 DEF UserSets, FormTypes, IsForm
<1>4. CASE SaveAccepted
  BY <1>4 DEF SaveAccepted, FormTypes
<1>5. CASE CatalogLoaded
  <2>1. \A f \in Fields : wish'[f] \in {wish[f], NoWish}
    BY <1>5, CatalogWishes
  <2>2. IsForm(draft') /\ initial' = initial
    BY <1>5, CatalogForm DEF CatalogLoaded
  <2> QED
    BY <2>1, <2>2 DEF FormTypes
<1>6. CASE FormLoads \/ Stop \/ CatalogFails \/ Save \/ WriteAccepted \/ WriteRefused \/ SaveRefused
  BY <1>6 DEF FormLoads, Stop, CatalogFails, Save, WriteAccepted, WriteRefused, SaveRefused,
              history, FormTypes
<1>7. ASSUME NEW k \in OthersKeys, NEW v, OthersChange(k, v)
      PROVE  FormTypes'
  BY <1>7 DEF OthersChange, FormTypes
<1>8. CASE UNCHANGED vars
  BY <1>8 DEF vars, FormTypes
<1> QED
  BY <1>1, <1>2, <1>3, <1>4, <1>5, <1>6, <1>7, <1>8, UserSetsForm DEF Next, SaveEnds, FormTypes

LEMMA TypesHold == Spec => []Types
<1>1. Types /\ [Next]_vars => Types'
  BY HarnessTypesStep, PageTypesStep, FormTypesStep DEF Types
<1> QED
  BY TypesInit, <1>1, PTL DEF Spec

(***************************************************************************)
(* Every variable of the page and the Harness stays in its type, and a     *)
(* patch in progress writes no setting an invalid value.                   *)
(***************************************************************************)
THEOREM TypeCorrect == Spec => []TypeOK
BY TypesHold, TypesImplyTypeOK, PTL

-----------------------------------------------------------------------------
(* The user's choices *)

\* A choice that was not overtaken makes the page dirty, which is what keeps acceptView
\* from taking it away, and is in the form.
ChoicesKept ==
    ~overtaken => \A f \in Fields : wish[f] # NoWish => dirty /\ draft[f] = wish[f]

LEMMA ChoicesKeptStep ==
  ASSUME Types, ChoicesKept, [Next]_vars
  PROVE  ChoicesKept'
<1>1. CASE Start \/ Served \/ View
  <2>1. UNCHANGED <<wish, dirty, overtaken>>
    BY <1>1 DEF Start, Served, View, bounds
  <2>2. dirty => draft' = draft
    BY <1>1 DEF Start, Served, View, AcceptView
  <2> QED
    BY <2>1, <2>2 DEF ChoicesKept
<1>2. CASE Discard \/ SaveNothing
  BY <1>2 DEF Discard, SaveNothing, NoWishes, ChoicesKept
<1>3. ASSUME NEW k \in Fields, NEW d, UserSets(k, d)
      PROVE  ChoicesKept'
  <2>1. draft' = d /\ dirty' = TRUE /\ overtaken' = overtaken
    BY <1>3 DEF UserSets
  <2>2. \A f \in Fields : wish'[f] = d[f] \/ (wish'[f] = wish[f] /\ d[f] = draft[f])
    BY <1>3 DEF UserSets
  <2> QED
    BY <2>1, <2>2 DEF ChoicesKept
<1>4. CASE SaveAccepted
  <2>1. ~overtaken' => late = {}
    BY <1>4 DEF SaveAccepted
  <2> QED
    BY <1>4, <2>1 DEF SaveAccepted, ChoicesKept
<1>5. CASE CatalogLoaded
  <2>1. UNCHANGED <<dirty, overtaken>>
    BY <1>5 DEF CatalogLoaded
  <2>2. ASSUME NEW f \in Fields, wish'[f] # NoWish, draft[f] = wish[f]
        PROVE  wish[f] # NoWish /\ draft'[f] = wish'[f]
    BY <1>5, <2>2, CatalogWishes
  <2>3. ASSUME NEW f \in Fields, wish'[f] # NoWish
        PROVE  wish[f] # NoWish
    BY <1>5, <2>3, CatalogWishes
  <2> QED
    BY <2>1, <2>2, <2>3 DEF ChoicesKept
<1>6. CASE FormLoads \/ Stop \/ CatalogFails \/ Save \/ WriteAccepted \/ WriteRefused \/ SaveRefused
  BY <1>6 DEF FormLoads, Stop, CatalogFails, Save, WriteAccepted, WriteRefused, SaveRefused,
              history, ChoicesKept
<1>7. ASSUME NEW k \in OthersKeys, NEW v, OthersChange(k, v)
      PROVE  ChoicesKept'
  BY <1>7 DEF OthersChange, ChoicesKept
<1>8. CASE UNCHANGED vars
  BY <1>8 DEF vars, ChoicesKept
<1> QED
  BY <1>1, <1>2, <1>3, <1>4, <1>5, <1>6, <1>7, <1>8, UserSetsForm
     DEF Next, SaveEnds, Types, FormTypes

(***************************************************************************)
(* What the user chose stays in the form until it is saved, reset or       *)
(* discarded, in every order of views, saves and their answers, visits     *)
(* and changes by others, and when the catalog loads, but for an effort it *)
(* does not list for the model.                                            *)
(***************************************************************************)
THEOREM NoEditIsLostHolds == Spec => []NoEditIsLost
<1>1. Init => ChoicesKept
  BY DEF Init, NoWishes, ChoicesKept
<1>2. ChoicesKept => NoEditIsLost
  BY DEF ChoicesKept, NoEditIsLost
<1>3. Types /\ ChoicesKept /\ [Next]_vars => ChoicesKept'
  BY ChoicesKeptStep
<1> QED
  BY TypesHold, <1>1, <1>2, <1>3, PTL DEF Spec

-----------------------------------------------------------------------------
(* The form, the baseline and the patch of a save in progress *)

Plain == Keys \ {"executor"}

\* A plain field of the form reads as setting w: it has its value, was cleared, which is
\* never written, or is an effort the catalog took out.
Reads(v, w, k) == v \in {w, Undefined} \/ (IsEffort(k) /\ v = Blank)

\* The Executor a form asks for.
Wanted(d) ==
    IF d["executorPinned"] = FALSE \/ IsEmpty(d["executor"]) THEN Blank ELSE d["executor"]

\* Setting k once the patch in progress is written.
After(k) == IF patch[k] = Undefined THEN host[k] ELSE patch[k]

\* A form that was edited, and knew the settings when it was, has them as its baseline
\* until its own save changes them.
Baseline ==
    /\ ~served => page # "open" /\ initial = Nothing
    /\ page = "unserved" => ~served
    /\ page = "open" /\ ~ready => loading
    /\ write # "none" => dirty
    /\ dirty /\ ~stale => ready
    /\ dirty /\ ~stale /\ write # "accepted" => initial = ValuesFrom(host)

\* What the history variables may hold.
Records ==
    /\ initial # Nothing => initial["executorPinned"] \in BOOLEAN /\ initial["executor"] # Undefined
    /\ wish["executor"] # Undefined
    /\ wish["executorPinned"] \in BOOLEAN \cup {NoWish}
    /\ \A f \in late : draft[f] = wish[f] \/ (IsEffort(f) /\ draft[f] = Blank)
    /\ late # {} => write # "none"

\* A field that is not as the user chose it reads as the settings do.
Matches ==
    /\ \A k \in Plain : draft[k] = wish[k] \/ Reads(draft[k], host[k], k)
    /\ wish["executor"] = NoWish /\ wish["executorPinned"] = NoWish =>
          Wanted(draft) = host["executor"]

FormFollows == ~stale /\ (dirty \/ initial = ValuesFrom(host)) => Matches

\* Fields not edited since the save began read as the settings will.
PatchFollows ==
    ~stale /\ write \in {"asked", "accepted"} =>
        /\ \A k \in Plain \ late : Reads(draft[k], After(k), k)
        /\ {"executor", "executorPinned"} \cap late = {} => Wanted(draft) = After("executor")
        /\ write = "accepted" => \A k \in Keys : After(k) = host[k]

\* Held, of the settings as they will be.
HeldAfter(f) ==
    CASE f = "executorPinned" -> wish[f] = FALSE => After("executor") = Blank
      [] f = "executor" ->
            \/ After(f) = wish[f]
            \/ After(f) = Blank /\ (wish["executorPinned"] = FALSE \/ "executorPinned" \in late)
      [] OTHER -> After(f) = wish[f] \/ wish[f] = Undefined

\* The patch in progress holds what the user chose before the save.
WishesSent ==
    ~stale /\ ~overtaken /\ write \in {"asked", "accepted"} =>
        \A f \in Fields \ late : wish[f] # NoWish => HeldAfter(f)

\* An Executor the user chose is unpinned by the user alone.
PinKept ==
    ~overtaken /\ wish["executor"] # NoWish /\ draft["executorPinned"] = FALSE =>
        wish["executorPinned"] = FALSE

SaveInv ==
    /\ Types /\ ChoicesKept /\ PinKept /\ Baseline /\ Records
    /\ FormFollows /\ PatchFollows /\ WishesSent

-----------------------------------------------------------------------------
(* Lemmas about forms *)

\* A form taken from the settings reads as they do, and is no empty form.
LEMMA TakenForm ==
  ASSUME NEW s, IsDocument(s)
  PROVE  /\ \A k \in Keys : ValuesFrom(s)[k] = s[k]
         /\ ValuesFrom(s)["executorPinned"] = ~IsEmpty(s["executor"])
         /\ ValuesFrom(s)["executorPinned"] \in BOOLEAN
         /\ ValuesFrom(s) # Nothing
         /\ Wanted(ValuesFrom(s)) = s["executor"]
<1>1. "executorPinned" \in Fields /\ Keys \subseteq Fields /\ "executor" \in Keys
      /\ "executorPinned" \notin Keys
  BY FieldTypes
<1>2. /\ \A k \in Keys : ValuesFrom(s)[k] = s[k]
      /\ ValuesFrom(s)["executorPinned"] = ~IsEmpty(s["executor"])
  BY <1>1 DEF ValuesFrom
<1>3. ValuesFrom(s)["executorPinned"] \in BOOLEAN
  BY <1>2
<1>4. Undefined \notin BOOLEAN
  BY FieldTypes, PanelAssumption
<1>5. Nothing["executorPinned"] = Undefined
  BY <1>1 DEF Nothing
<1>6. ValuesFrom(s) # Nothing
  BY <1>3, <1>4, <1>5
<1>7. s["executor"] \in Models \cup {Blank} /\ Undefined \notin Models \cup {Blank}
  BY <1>1, FieldTypes, PanelAssumption DEF IsDocument
<1>8. Wanted(ValuesFrom(s)) = s["executor"]
  <2> DEFINE d == ValuesFrom(s)
  <2>1. d["executorPinned"] = ~IsEmpty(s["executor"]) /\ d["executor"] = s["executor"]
    BY <1>1, <1>2
  <2>2. IsEmpty(s["executor"]) <=> s["executor"] = Blank
    BY <1>7 DEF IsEmpty
  <2>3. CASE s["executor"] = Blank
    <3>1. d["executor"] = Blank
      BY <2>1, <2>3
    <3> HIDE DEF d
    <3>2. Wanted(d) = Blank
      BY <3>1 DEF Wanted, IsEmpty
    <3> QED
      BY <2>3, <3>2 DEF d
  <2>4. CASE s["executor"] # Blank
    <3>1. ~IsEmpty(d["executor"]) /\ d["executorPinned"] = TRUE
      BY <2>1, <2>2, <2>4
    <3>2. d["executor"] = s["executor"]
      BY <2>1
    <3> HIDE DEF d
    <3>3. Wanted(d) = d["executor"]
      BY <3>1 DEF Wanted
    <3> QED
      BY <3>2, <3>3 DEF d
  <2> QED
    BY <2>3, <2>4
<1> QED
  BY <1>2, <1>3, <1>6, <1>8

\* The user's steps set the pin to a Boolean, if they set it.
LEMMA UserSetsPin ==
  ASSUME Types, Records, NEW k \in Fields,
         (\E v \in Offered(k) : Edit(k, v)) \/ ResetField(k)
  PROVE  \E d : /\ IsForm(d)
                /\ UserSets(k, d)
                /\ d["executorPinned"] \in {draft["executorPinned"]} \cup BOOLEAN
                /\ k = "executorPinned" => d[k] \in BOOLEAN
                /\ k = "executor" \/ d["executor"] # draft["executor"] =>
                      /\ d["executor"] # Undefined
                      /\ k = "executorPinned" \/ draft["executorPinned"] # FALSE
<1> DEFINE p == "executorPinned"
<1>0. p \in Fields /\ IsForm(draft) /\ IsForm(initial) /\ ~IsEffort(p)
  BY FieldTypes DEF Types, FormTypes, IsEffort
<1>1. ASSUME NEW v \in Offered(k), Edit(k, v)
      PROVE  /\ IsForm(Edited(k, v)) /\ UserSets(k, Edited(k, v))
             /\ Edited(k, v)[p] \in {draft[p]} \cup BOOLEAN
             /\ k = p => Edited(k, v)[p] \in BOOLEAN
             /\ k = "executor" \/ Edited(k, v)["executor"] # draft["executor"] =>
                   Edited(k, v)["executor"] # Undefined /\ (k = p \/ draft[p] # FALSE)
  <2>1. IsForm(Edited(k, v)) /\ UserSets(k, Edited(k, v))
    BY <1>0, <1>1, OfferedEntry, EditedForm DEF Edit
  <2>2. v \in Entry(k)
    BY OfferedEntry
  <2> DEFINE set == [draft EXCEPT ![k] = v]
             unpinned == IF IsEmpty(v) THEN [set EXCEPT ![p] = FALSE] ELSE set
  <2>3. IsForm(set)
    BY <1>0, <2>2, SetField
  <2>4. /\ k # p => set[p] = draft[p]
        /\ k = p => set[p] = v
    BY <1>0 DEF IsForm
  <2>5. k = p => v \in BOOLEAN
    BY FieldTypes DEF Offered
  <2>6. CASE k = "executor"
    <3>1. FALSE \in Entry(p)
      BY FieldTypes DEF Entry
    <3>2. IsForm([set EXCEPT ![p] = FALSE])
      BY <1>0, <2>3, <3>1, SetField
    <3>3. IsForm(unpinned) /\ unpinned[p] \in {draft[p]} \cup BOOLEAN
      BY <1>0, <2>3, <2>4, <2>6, <3>2 DEF IsForm
    <3>4. Edited(k, v) = WithEffort(unpinned, CatalogThere, "executor")
      BY <2>6 DEF Edited
    <3>5. Edited(k, v)[p] = unpinned[p]
      <4> HIDE DEF unpinned
      <4> QED
        BY <1>0, <3>3, <3>4, WithEffortForm
    <3>6. draft[p] # FALSE
      BY <1>1, <2>6 DEF Edit, Visible
    <3>7. v # Undefined
      BY <2>6, FieldTypes, PanelAssumption DEF Offered
    <3>8. unpinned["executor"] = v
      BY <1>0, <2>6, FieldTypes DEF IsForm
    <3>9. Edited(k, v)["executor"] = unpinned["executor"]
      <4>1. "executor" \in Fields /\ ~IsEffort("executor")
        BY FieldTypes DEF IsEffort
      <4> HIDE DEF unpinned
      <4> QED
        BY <1>0, <3>3, <3>4, <4>1, WithEffortForm
    <3> HIDE DEF unpinned
    <3> QED
      BY <2>1, <2>6, <3>3, <3>5, <3>6, <3>7, <3>8, <3>9
  <2>7. CASE k \in {"executorEffort", "advisor", "advisorEffort"}
    <3>1. \E m \in {"advisor", "executor"} : Edited(k, v) = WithEffort(set, CatalogThere, m)
      BY <2>7 DEF Edited
    <3>2. Edited(k, v)[p] = set[p] /\ Edited(k, v)["executor"] = set["executor"]
      <4>1. "executor" \in Fields /\ ~IsEffort("executor")
        BY FieldTypes DEF IsEffort
      <4> HIDE DEF set
      <4> QED
        BY <1>0, <2>3, <3>1, <4>1, WithEffortForm
    <3>3. set["executor"] = draft["executor"]
      BY <1>0, <2>7, FieldTypes DEF IsForm
    <3> QED
      BY <2>1, <2>4, <2>7, <3>2, <3>3
  <2>8. CASE k = p \/ k = "advisorEnabled" \/ k = "limit"
    <3>1. \/ Edited(k, v) = set
          \/ \E m \in {"advisor", "executor"} : \E w : Edited(k, v) = [set EXCEPT ![m] = w]
      BY <2>8 DEF Edited
    <3>2. Edited(k, v)[p] = set[p]
      <4> HIDE DEF set
      <4> QED
        BY <1>0, <2>3, <3>1 DEF IsForm
    <3>3. k # p => Edited(k, v)["executor"] = draft["executor"]
      <4>1. k # p => \/ Edited(k, v) = set
                     \/ \E w : Edited(k, v) = [set EXCEPT !["advisor"] = w]
        BY <2>8 DEF Edited
      <4>2. set["executor"] = draft["executor"]
        BY <1>0, <2>8, FieldTypes DEF IsForm
      <4> HIDE DEF set
      <4> QED
        BY <1>0, <2>3, <4>1, <4>2, FieldTypes DEF IsForm
    <3>4. k = p => \/ Edited(k, v)["executor"] = draft["executor"]
                   \/ Edited(k, v)["executor"] # Undefined
      <4>1. CASE v = TRUE /\ k = p
        <5> DEFINE saved == IF ~IsEmpty(set["executor"]) THEN set["executor"]
                            ELSE IF initial["executor"] = Undefined THEN Blank ELSE initial["executor"]
        <5>1. Edited(k, v) = [set EXCEPT !["executor"] = saved]
          BY <2>8, <4>1 DEF Edited
        <5>2. saved # Undefined
          BY FieldTypes, PanelAssumption DEF IsEmpty
        <5>3. "executor" \in DOMAIN set
          BY <2>3, FieldTypes DEF IsForm
        <5> HIDE DEF saved, set
        <5> QED
          BY <5>1, <5>2, <5>3
      <4>2. CASE v # TRUE /\ k = p
        <5>1. Edited(k, v) = set
          BY <4>2 DEF Edited
        <5>2. set["executor"] = draft["executor"]
          BY <1>0, <4>2, FieldTypes DEF IsForm
        <5> QED
          BY <5>1, <5>2
      <4> QED
        BY <4>1, <4>2
    <3>5. k # "executor"
      BY <2>8
    <3> HIDE DEF set
    <3> QED
      BY <2>1, <2>4, <2>5, <2>8, <3>2, <3>3, <3>4, <3>5
  <2> QED
    BY <2>6, <2>7, <2>8, FieldTypes
<1>2. ASSUME ResetField(k)
      PROVE  \E d : /\ IsForm(d) /\ UserSets(k, d)
                    /\ d[p] \in {draft[p]} \cup BOOLEAN
                    /\ k = p => d[p] \in BOOLEAN
                    /\ k = "executor" \/ d["executor"] # draft["executor"] =>
                          d["executor"] # Undefined /\ (k = p \/ draft[p] # FALSE)
  <2> DEFINE set == [draft EXCEPT ![k] = initial[k]]
             d == IF k = "executor" THEN [set EXCEPT ![p] = FALSE] ELSE set
  <2>1. initial[k] \in Entry(k) /\ FALSE \in Entry(p)
    BY <1>0, FieldTypes DEF IsForm, Entry
  <2>2. IsForm(set)
    BY <1>0, <2>1, SetField
  <2>3. IsForm([set EXCEPT ![p] = FALSE])
    <3> HIDE DEF set
    <3> QED
      BY <1>0, <2>1, <2>2, SetField
  <2>4. IsForm(d) /\ UserSets(k, d)
    BY <1>2, <2>2, <2>3 DEF ResetField
  <2>5. initial[p] \in BOOLEAN
    BY <1>2 DEF ResetField, Records
  <2>6. /\ k # p => set[p] = draft[p]
        /\ k = p => set[p] = initial[p]
    BY <1>0 DEF IsForm
  <2>7. k = "executor" => d[p] = FALSE
    <3>1. p \in DOMAIN set
      BY <1>0, <2>2 DEF IsForm
    <3> QED
      BY <3>1
  <2>8. k # "executor" => d[p] = set[p]
    OBVIOUS
  <2>9. k # "executor" => d["executor"] = draft["executor"]
    <3>1. k # "executor" => set["executor"] = draft["executor"]
      BY <1>0, FieldTypes DEF IsForm
    <3> QED
      BY <3>1
  <2>10. k = "executor" => draft[p] # FALSE
    BY <1>2 DEF ResetField, Visible
  <2>11. k = "executor" => d["executor"] # Undefined
    <3>1. k = "executor" => d["executor"] = initial["executor"]
      BY <1>0, <2>2, FieldTypes DEF IsForm
    <3> QED
      BY <1>2, <3>1 DEF ResetField, Records
  <2> HIDE DEF d, set
  <2> QED
    BY <2>4, <2>5, <2>6, <2>7, <2>8, <2>9, <2>10, <2>11
<1> QED
  BY <1>1, <1>2

\* What the user's step does to a field: it is chosen, or stays as it was.
LEMMA UserSetsEffect ==
  ASSUME Types, NEW k \in Fields, NEW d, UserSets(k, d)
  PROVE  /\ draft' = d /\ dirty' = TRUE /\ UNCHANGED overtaken
         /\ UNCHANGED <<host, served, ready, write, patch, page, loading, initial>>
         /\ page # "closed" /\ ~loading
         /\ stale' = (stale \/ initial # ValuesFrom(host))
         /\ \A f \in Fields : \/ wish'[f] = d[f] /\ (f = k \/ d[f] # draft[f])
                              \/ wish'[f] = wish[f] /\ d[f] = draft[f]
         /\ write = "none" => late' = {}
         /\ write # "none" => \A f \in Fields : \/ f \in late'
                                                \/ /\ f \notin late
                                                   /\ wish'[f] = wish[f]
                                                   /\ d[f] = draft[f]
         /\ \A f \in late' : f \in late \/ wish'[f] = d[f]
         /\ late' \subseteq Fields
<1> DEFINE chosen == {k} \cup {f \in Fields : d[f] # draft[f]}
<1>1. /\ draft' = d /\ dirty' = TRUE /\ UNCHANGED overtaken
      /\ UNCHANGED <<host, served, ready, write, patch, page, loading, initial>>
      /\ stale' = (stale \/ initial # ValuesFrom(host))
      /\ page # "closed" /\ ~loading
  BY DEF UserSets, harness, BodyShown
<1>2. /\ wish' = [f \in Fields |-> IF f \in chosen THEN d[f] ELSE wish[f]]
      /\ late' = IF write = "none" THEN {} ELSE late \cup chosen
  BY DEF UserSets
<1>3. chosen \subseteq Fields /\ late \subseteq Fields
  BY DEF Types, PageTypes
<1>4. late' \subseteq Fields
  BY <1>2, <1>3
<1>5. \A f \in Fields : f \in chosen \/ (f # k /\ d[f] = draft[f])
  OBVIOUS
<1>6. \A f \in chosen : f \in Fields /\ (f = k \/ d[f] # draft[f])
  OBVIOUS
<1> HIDE DEF chosen
<1>7. \A f \in Fields : \/ wish'[f] = d[f] /\ (f = k \/ d[f] # draft[f])
                        \/ wish'[f] = wish[f] /\ d[f] = draft[f]
  BY <1>2, <1>5, <1>6
<1>8. /\ write = "none" => late' = {}
      /\ write # "none" => \A f \in Fields : \/ f \in late'
                                             \/ /\ f \notin late
                                                /\ wish'[f] = wish[f]
                                                /\ d[f] = draft[f]
      /\ \A f \in late' : f \in late \/ wish'[f] = d[f]
  BY <1>2, <1>5, <1>6
<1> QED
  BY <1>1, <1>4, <1>7, <1>8

LEMMA UserSetsField ==
  ASSUME Types, NEW k \in Fields, NEW d, UserSets(k, d), NEW f \in Fields
  PROVE  \/ wish'[f] = d[f] /\ (f = k \/ d[f] # draft[f])
         \/ wish'[f] = wish[f] /\ d[f] = draft[f]
<1>1. \A g \in Fields : \/ wish'[g] = d[g] /\ (g = k \/ d[g] # draft[g])
                        \/ wish'[g] = wish[g] /\ d[g] = draft[g]
  BY UserSetsEffect
<1> QED
  BY <1>1

LEMMA UserSetsChosen ==
  ASSUME NEW k \in Fields, NEW d, UserSets(k, d)
  PROVE  wish'[k] = d[k]
BY DEF UserSets

\* The steps that take a view of the settings, and what they leave alone.
Views ==
    /\ UNCHANGED <<host, ready, write, dirty, patch, wish, late, overtaken>>
    /\ \/ AcceptView /\ served' /\ page' = "open"
       \/ /\ UNCHANGED <<served, draft, initial, news, stale>>
          /\ ~served /\ page' = "unserved" /\ ~loading'
       \/ /\ UNCHANGED <<draft, initial, news, stale, loading, page>>
          /\ ~served /\ served' /\ page # "unserved"

LEMMA ViewsAre ==
  ASSUME Types, Start \/ Served \/ View, page = "open" => served
  PROVE  Views
BY DEF Start, Served, View, Views, bounds, Types, HarnessTypes

LEMMA BaselineStep ==
  ASSUME Types, Baseline, Records, [Next]_vars
  PROVE  Baseline'
<1> USE DEF Baseline
<1>1. CASE Start \/ Served \/ View
  <2>1. Views
    BY <1>1, ViewsAre
  <2>2. CASE AcceptView /\ served' /\ page' = "open"
    <3>1. ready => initial' = ValuesFrom(host)
      BY <2>2 DEF AcceptView
    <3>2. dirty /\ ~stale' => ~stale
      BY <2>2 DEF AcceptView, Types, PageTypes
    <3>3. loading' = ~ready
      BY <2>2 DEF AcceptView
    <3> QED
      BY <2>1, <2>2, <3>1, <3>2, <3>3 DEF Views
  <2>3. CASE ~(AcceptView /\ served' /\ page' = "open")
    BY <2>1, <2>3 DEF Views
  <2> QED
    BY <2>2, <2>3
<1>2. CASE FormLoads
  BY <1>2 DEF FormLoads, history
<1>7. CASE Stop
  BY <1>7 DEF Stop, harness, history
<1>8. CASE CatalogLoaded \/ CatalogFails
  <2>1. UNCHANGED <<host, served, ready, write, page, loading, initial, dirty, stale>>
    BY <1>8 DEF CatalogLoaded, CatalogFails, harness, history
  <2> QED
    BY <2>1
<1>9. CASE Discard \/ SaveNothing
  BY <1>9 DEF Discard, SaveNothing, CanSave, harness
<1>10. CASE Save
  BY <1>10 DEF Save, CanSave
<1>3. ASSUME NEW k \in Fields, NEW d, UserSets(k, d)
      PROVE  Baseline'
  <2>1. ValuesFrom(host) # Nothing
    BY TakenForm DEF Types, HarnessTypes
  <2>2. page \in {"closed", "unserved", "open"}
    BY DEF Types, PageTypes
  <2> QED
    BY <1>3, <2>1, <2>2, UserSetsEffect
<1>4. CASE WriteAccepted \/ WriteRefused \/ SaveAccepted \/ SaveRefused
  BY <1>4 DEF WriteAccepted, WriteRefused, SaveAccepted, SaveRefused, bounds, history
<1>5. ASSUME NEW k \in OthersKeys, NEW v, OthersChange(k, v)
      PROVE  Baseline'
  BY <1>5 DEF OthersChange
<1>6. CASE UNCHANGED vars
  BY <1>6 DEF vars
<1> QED
  BY <1>1, <1>2, <1>3, <1>4, <1>5, <1>6, <1>7, <1>8, <1>9, <1>10, UserSetsForm
     DEF Next, SaveEnds, Types, FormTypes

LEMMA RecordsStep ==
  ASSUME Types, Baseline, Records, [Next]_vars
  PROVE  Records'
<1> USE DEF Records
<1>1. CASE Start \/ Served \/ View
  <2>1. Views
    BY <1>1, ViewsAre DEF Baseline
  <2>3. \A f \in late : draft'[f] = draft[f]
    BY <2>1 DEF Views, AcceptView, Baseline
  <2>2. AcceptView => initial'["executorPinned"] \in BOOLEAN /\ initial'["executor"] # Undefined
    <3>1. IsDocument(IF ready THEN host ELSE Defaults)
      BY PanelAssumption DEF Types, HarnessTypes
    <3>2. \A x : IsDocument(x) => x["executor"] # Undefined
      BY FieldTypes, PanelAssumption DEF IsDocument
    <3> QED
      BY <3>1, <3>2, TakenForm, FieldTypes DEF AcceptView
  <2> QED
    BY <2>1, <2>2, <2>3 DEF Views
<1>2. CASE FormLoads \/ Stop \/ CatalogFails \/ Save
  BY <1>2 DEF FormLoads, Stop, CatalogFails, Save, CanSave, harness, history
<1>9. CASE CatalogLoaded
  <2>1. UNCHANGED <<initial, late, write>>
    BY <1>9 DEF CatalogLoaded, harness
  <2>2. "executorPinned" \in Fields /\ late \subseteq Fields
    BY FieldTypes DEF Types, PageTypes
  <2>3. wish'["executorPinned"] \in BOOLEAN \cup {NoWish} /\ wish'["executor"] # Undefined
    BY <1>9, <2>2, CatalogWishes, FieldTypes DEF IsEffort
  <2>4. ASSUME NEW f \in late
        PROVE  draft'[f] = wish'[f] \/ (IsEffort(f) /\ draft'[f] = Blank)
    <3>1. f \in Fields /\ (draft'[f] = draft[f] \/ (IsEffort(f) /\ draft'[f] = Blank))
      BY <1>9, <2>2, CatalogForm
    <3>2. draft[f] = wish[f] \/ (IsEffort(f) /\ draft[f] = Blank)
      OBVIOUS
    <3> QED
      BY <1>9, <3>1, <3>2, CatalogWishes
  <2> QED
    BY <2>1, <2>3, <2>4
<1>3. CASE Discard \/ SaveNothing
  <2>1. NoWishes["executorPinned"] = NoWish /\ NoWishes["executor"] = NoWish /\ NoWish # Undefined
    BY FieldTypes, PanelAssumption DEF NoWishes
  <2> QED
    BY <1>3, <2>1 DEF Discard, SaveNothing, CanSave, harness
<1>4. ASSUME NEW k \in Fields, NEW d, IsForm(d), UserSets(k, d),
             d["executorPinned"] \in {draft["executorPinned"]} \cup BOOLEAN,
             k = "executorPinned" => d[k] \in BOOLEAN,
             k = "executor" \/ d["executor"] # draft["executor"] => d["executor"] # Undefined
      PROVE  Records'
  <2>1. /\ initial' = initial /\ write' = write /\ draft' = d
        /\ write = "none" => late' = {}
        /\ late' \subseteq Fields
        /\ \A f \in Fields : \/ wish'[f] = d[f] /\ (f = k \/ d[f] # draft[f])
                             \/ wish'[f] = wish[f] /\ d[f] = draft[f]
        /\ \A f \in late' : f \in late \/ wish'[f] = d[f]
    BY <1>4, UserSetsEffect
  <2>2. wish'["executorPinned"] \in BOOLEAN \cup {NoWish} /\ wish'["executor"] # Undefined
    BY <1>4, <2>1, FieldTypes
  <2>4. ASSUME NEW f \in late'
        PROVE  d[f] = wish'[f] \/ (IsEffort(f) /\ d[f] = Blank)
    <3>1. f \in Fields /\ (f \in late \/ wish'[f] = d[f])
      BY <2>1
    <3>2. wish'[f] = d[f] \/ (wish'[f] = wish[f] /\ d[f] = draft[f])
      BY <2>1, <3>1
    <3> QED
      BY <3>1, <3>2
  <2> QED
    BY <2>1, <2>2, <2>4
<1>5. CASE SaveAccepted
  <2>1. {"executor", "executorPinned"} \subseteq Fields /\ NoWish # Undefined
    BY FieldTypes, PanelAssumption
  <2> QED
    BY <1>5, <2>1 DEF SaveAccepted
<1>6. CASE WriteAccepted \/ WriteRefused \/ SaveRefused
  BY <1>6 DEF WriteAccepted, WriteRefused, SaveRefused, history
<1>7. ASSUME NEW k \in OthersKeys, NEW v, OthersChange(k, v)
      PROVE  Records'
  BY <1>7 DEF OthersChange
<1>8. CASE UNCHANGED vars
  BY <1>8 DEF vars
<1> QED
  BY <1>1, <1>2, <1>3, <1>4, <1>5, <1>6, <1>7, <1>8, <1>9, UserSetsPin DEF Next, SaveEnds

\* A form that was just taken from the settings reads as they do.
LEMMA TakenMatches ==
  ASSUME Types, draft = ValuesFrom(host)
  PROVE  Matches
<1>1. IsDocument(host)
  BY DEF Types, HarnessTypes
<1> QED
  BY <1>1, TakenForm, FieldTypes DEF Matches, Plain, Reads

\* Fields, and the Executor, of a form of which some fields stayed.
LEMMA WantedOfSame ==
  ASSUME NEW d, NEW e, d["executor"] = e["executor"],
         d["executorPinned"] = e["executorPinned"]
  PROVE  Wanted(d) = Wanted(e)
BY DEF Wanted, IsEmpty

\* What an unwritten difference and a written one leave of the difference.
LEMMA DiffReads ==
  ASSUME Types, initial = ValuesFrom(host)
  PROVE  LET p == DiffPatch(initial, draft)
             next(k) == IF p[k] = Undefined THEN host[k] ELSE p[k]
         IN  /\ \A k \in Plain : /\ draft[k] = Undefined \/ next(k) = draft[k]
                                 /\ draft[k] = Undefined => next(k) = host[k]
             /\ next("executor") = Wanted(draft)
<1> DEFINE p == DiffPatch(initial, draft)
           next(k) == IF p[k] = Undefined THEN host[k] ELSE p[k]
<1>1. \A k \in Keys : initial[k] = host[k] /\ host[k] # Undefined
  BY TakenForm, PanelAssumption DEF Types, HarnessTypes, IsDocument, Fields
<1>2. ASSUME NEW k \in Plain
      PROVE  p[k] = IF draft[k] = initial[k] THEN Undefined ELSE draft[k]
  BY <1>2 DEF Plain, DiffPatch
<1>3. "executor" \in Keys
  BY DEF Keys
<1>4. p["executor"] = IF Wanted(draft) = initial["executor"]
                         \/ (IsEmpty(Wanted(draft)) /\ IsEmpty(initial["executor"]))
                      THEN Undefined ELSE Wanted(draft)
  BY <1>3 DEF DiffPatch, Wanted
<1>5. Wanted(draft) # Undefined
  <2>1. "executor" \in Fields /\ Blank # Undefined
    BY FieldTypes, PanelAssumption
  <2> QED
    BY <2>1 DEF Wanted, IsEmpty
<1>6. next("executor") = Wanted(draft)
  BY <1>1, <1>3, <1>4, <1>5 DEF IsEmpty
<1>7. \A k \in Plain : k \in Keys
  BY DEF Plain
<1> HIDE DEF p
<1>8. \A k \in Plain : /\ draft[k] = Undefined \/ next(k) = draft[k]
                       /\ draft[k] = Undefined => next(k) = host[k]
  BY <1>1, <1>2, <1>7
<1> QED
  BY <1>6, <1>8 DEF p

LEMMA CatalogReads ==
  ASSUME Types, CatalogLoaded
  PROVE  /\ Wanted(draft') = Wanted(draft)
         /\ \A k \in Plain : \A w : Reads(draft[k], w, k) => Reads(draft'[k], w, k)
<1>1. \A f \in Fields : draft'[f] = draft[f] \/ (IsEffort(f) /\ draft'[f] = Blank)
  BY CatalogForm
<1>2. draft'["executor"] = draft["executor"]
      /\ draft'["executorPinned"] = draft["executorPinned"]
  BY <1>1, FieldTypes DEF IsEffort
<1>3. \A k \in Plain : k \in Fields
  BY FieldTypes DEF Plain
<1> QED
  BY <1>1, <1>2, <1>3, WantedOfSame DEF Reads

\* The Executor and its pin that were set during a save are choices.
LEMMA LateWish ==
  ASSUME Types, Records, NEW f \in {"executor", "executorPinned"}, wish[f] = NoWish
  PROVE  f \notin late
<1>1. f \in Fields /\ ~IsEffort(f)
  BY FieldTypes DEF IsEffort
<1>2. draft[f] # NoWish
  BY <1>1, PanelAssumption DEF Types, FormTypes, IsForm, Entry
<1> QED
  BY <1>1, <1>2 DEF Records

LEMMA FormFollowsStep ==
  ASSUME Types, Baseline, Records, FormFollows, PatchFollows, [Next]_vars
  PROVE  FormFollows'
<1> SUFFICES ASSUME ~stale', dirty' \/ initial' = ValuesFrom(host')
             PROVE  Matches'
  BY DEF FormFollows
<1>0. /\ \A k \in Plain : k \in Fields /\ k \in Keys
      /\ "executor" \in Fields /\ "executorPinned" \in Fields /\ "executor" \in Keys
  BY FieldTypes DEF Plain
<1>1. CASE Start \/ Served \/ View
  <2>1. Views
    BY <1>1, ViewsAre DEF Baseline
  <2>2. CASE AcceptView /\ ~dirty
    <3>1. draft' = initial' /\ initial' = ValuesFrom(host')
      BY <2>1, <2>2 DEF AcceptView, Views
    <3>2. Types'
      BY HarnessTypesStep, PageTypesStep, FormTypesStep DEF Types
    <3> QED
      <4>1. IsDocument(host')
        BY <3>2 DEF Types, HarnessTypes
      <4> QED
        BY <3>1, <4>1, <1>0, TakenForm DEF Matches, Reads, Plain
  <2>3. CASE AcceptView /\ dirty
    <3>1. UNCHANGED <<draft, host, wish>> /\ ~stale
      BY <2>1, <2>3 DEF AcceptView, Views, Types, PageTypes
    <3> QED
      BY <2>3, <3>1 DEF FormFollows, Matches
  <2>4. CASE ~AcceptView
    <3>1. UNCHANGED <<draft, initial, stale, dirty, host, wish>>
      BY <2>1, <2>4 DEF Views
    <3> QED
      BY <3>1 DEF FormFollows, Matches
  <2> QED
    BY <2>2, <2>3, <2>4
<1>2. CASE FormLoads \/ Stop \/ CatalogFails \/ Save \/ WriteRefused \/ SaveRefused
  <2>1. UNCHANGED <<draft, initial, stale, dirty, host, wish>>
    <3>1. CASE FormLoads \/ WriteRefused
      BY <3>1 DEF FormLoads, WriteRefused, history
    <3>2. CASE Stop \/ CatalogFails
      BY <3>2 DEF Stop, CatalogFails, harness, history
    <3>3. CASE Save \/ SaveRefused
      BY <3>3 DEF Save, SaveRefused
    <3> QED
      BY <1>2, <3>1, <3>2, <3>3
  <2> QED
    BY <2>1 DEF FormFollows, Matches
<1>3. CASE CatalogLoaded
  <2>1. UNCHANGED <<initial, stale, dirty, host>>
    BY <1>3 DEF CatalogLoaded, harness
  <2>2. Matches
    BY <2>1 DEF FormFollows
  <2>3. ASSUME NEW k \in Plain
        PROVE  draft'[k] = wish'[k] \/ Reads(draft'[k], host[k], k)
    <3>1. Reads(draft[k], host[k], k) => Reads(draft'[k], host[k], k)
      BY <1>3, CatalogReads
    <3>2. draft[k] = wish[k] => draft'[k] = wish'[k] \/ (IsEffort(k) /\ draft'[k] = Blank)
      <4>1. draft'[k] = draft[k] \/ (IsEffort(k) /\ draft'[k] = Blank)
        BY <1>0, <1>3, CatalogForm
      <4>2. wish'[k] # wish[k] => IsEffort(k)
        BY <1>0, <1>3, CatalogWishes
      <4>3. wish'[k] # wish[k] /\ draft[k] = wish[k] => draft'[k] = Blank
        BY <1>0, <1>3, CatalogWishes
      <4> QED
        BY <4>1, <4>2, <4>3
    <3> QED
      BY <2>2, <3>1, <3>2 DEF Matches, Reads
  <2>4. wish'["executor"] = wish["executor"] /\ wish'["executorPinned"] = wish["executorPinned"]
    BY <1>0, <1>3, CatalogWishes DEF IsEffort
  <2> QED
    BY <1>3, <2>1, <2>2, <2>3, <2>4, CatalogReads DEF Matches
<1>4. CASE Discard
  <2>1. /\ host' = host /\ draft' = initial /\ initial' = initial
        /\ dirty' = FALSE
    BY <1>4 DEF Discard, harness
  <2>2. draft' = ValuesFrom(host')
    BY <2>1
  <2>3. IsDocument(host')
    BY <2>1 DEF Types, HarnessTypes
  <2> QED
    BY <2>2, <2>3, <1>0, TakenForm DEF Matches, Reads, Plain
<1>5. CASE SaveNothing
  <2>1. /\ UNCHANGED <<host, draft, initial, stale>> /\ dirty /\ write = "none"
        /\ DiffPatch(initial, draft) = NoPatch
    BY <1>5 DEF SaveNothing, CanSave, harness
  <2>2. initial = ValuesFrom(host)
    BY <2>1 DEF Baseline
  <2>3. /\ \A k \in Plain : draft[k] = Undefined \/ draft[k] = host[k]
        /\ Wanted(draft) = host["executor"]
    BY <1>0, <2>1, <2>2, DiffReads DEF NoPatch
  <2> QED
    BY <2>1, <2>3 DEF Matches, Reads
<1>6. ASSUME NEW k \in Fields, NEW d, UserSets(k, d)
      PROVE  Matches'
  <2> HIDE DEF FormFollows
  <2>1. /\ draft' = d /\ host' = host
        /\ \A f \in Fields : \/ wish'[f] = d[f] /\ (f = k \/ d[f] # draft[f])
                             \/ wish'[f] = wish[f] /\ d[f] = draft[f]
    <3>1. draft' = d /\ host' = host
      BY <1>6, UserSetsEffect
    <3>2. \A f \in Fields : \/ wish'[f] = d[f] /\ (f = k \/ d[f] # draft[f])
                            \/ wish'[f] = wish[f] /\ d[f] = draft[f]
      BY <1>6, UserSetsField
    <3> QED
      BY <3>1, <3>2
  <2>2. Matches
    <3>1. stale' = (stale \/ initial # ValuesFrom(host))
      BY <1>6, UserSetsEffect
    <3> QED
      BY <3>1 DEF FormFollows, Types, PageTypes
  <2>3. IsForm(draft')
    BY FormTypesStep DEF FormTypes
  <2>4. \A f \in Fields : d[f] # NoWish
    BY <2>1, <2>3, PanelAssumption DEF IsForm, Entry
  <2>5. \A f \in Fields : wish'[f] = NoWish => wish[f] = NoWish /\ d[f] = draft[f]
    BY <2>1, <2>4
  <2>6. wish'["executor"] = NoWish /\ wish'["executorPinned"] = NoWish
           => Wanted(d) = Wanted(draft)
    BY <1>0, <2>5, WantedOfSame
  <2>7. \A f \in Plain : d[f] = wish'[f] \/ Reads(d[f], host[f], f)
    BY <1>0, <2>1, <2>2 DEF Matches
  <2> QED
    BY <1>0, <2>1, <2>2, <2>5, <2>6, <2>7 DEF Matches
<1>7. CASE WriteAccepted
  <2>1. /\ UNCHANGED <<draft, initial, stale, dirty, wish, late>> /\ write = "asked"
        /\ \A k \in Keys : host'[k] = After(k)
    BY <1>7 DEF WriteAccepted, After, history
  <2>2. /\ \A k \in Plain \ late : Reads(draft[k], After(k), k)
        /\ {"executor", "executorPinned"} \cap late = {} => Wanted(draft) = After("executor")
    BY <2>1 DEF PatchFollows
  <2>3. \A f \in {"executor", "executorPinned"} : wish[f] = NoWish => f \notin late
    BY <1>0, LateWish
  <2>4. \A k \in Plain : draft[k] = wish[k] \/ Reads(draft[k], host'[k], k)
    <3>1. \A k \in Plain \ late : Reads(draft[k], host'[k], k)
      BY <1>0, <2>1, <2>2
    <3>2. \A k \in late : draft[k] = wish[k] \/ (IsEffort(k) /\ draft[k] = Blank)
      BY DEF Records
    <3> QED
      BY <3>1, <3>2 DEF Reads
  <2>5. wish["executor"] = NoWish /\ wish["executorPinned"] = NoWish
           => Wanted(draft) = host'["executor"]
    BY <1>0, <2>1, <2>2, <2>3
  <2> QED
    BY <2>1, <2>4, <2>5 DEF Matches
<1>8. CASE SaveAccepted
  <2>1. /\ UNCHANGED <<host, draft, initial, stale>> /\ write = "accepted"
        /\ \A f \in Fields : wish'[f] = IF f \in late THEN wish[f] ELSE NoWish
    BY <1>8 DEF SaveAccepted
  <2>2. /\ \A k \in Plain \ late : Reads(draft[k], host[k], k)
        /\ {"executor", "executorPinned"} \cap late = {} => Wanted(draft) = host["executor"]
    BY <1>0, <2>1 DEF PatchFollows
  <2>3. \A f \in {"executor", "executorPinned"} : wish'[f] = NoWish => f \notin late
    BY <1>0, <2>1, LateWish
  <2>4. \A k \in Plain : draft[k] = wish'[k] \/ Reads(draft[k], host[k], k)
    <3>1. \A k \in late : draft[k] = wish[k] \/ (IsEffort(k) /\ draft[k] = Blank)
      BY DEF Records
    <3>2. \A k \in Plain \cap late : wish'[k] = wish[k]
      BY <1>0, <2>1
    <3> QED
      BY <2>2, <3>1, <3>2 DEF Reads
  <2>5. wish'["executor"] = NoWish /\ wish'["executorPinned"] = NoWish
           => Wanted(draft) = host["executor"]
    BY <1>0, <2>2, <2>3
  <2> QED
    BY <2>1, <2>4, <2>5 DEF Matches
<1>9. ASSUME NEW k \in OthersKeys, NEW v, OthersChange(k, v)
      PROVE  FALSE
  BY <1>9 DEF OthersChange
<1>10. CASE UNCHANGED vars
  BY <1>10 DEF vars, FormFollows, Matches
<1> QED
  BY <1>1, <1>2, <1>3, <1>4, <1>5, <1>6, <1>7, <1>8, <1>9, <1>10, UserSetsForm
     DEF Next, SaveEnds, Types, FormTypes

\* While a save is in progress, only the user and the catalog touch the form.
LEMMA SaveInProgress ==
  ASSUME Types, Baseline, [Next]_vars, ~stale', write' \in {"asked", "accepted"}
  PROVE  \/ Save \/ WriteAccepted
         \/ \E k \in Fields : \E d : IsForm(d) /\ UserSets(k, d) /\ write # "none"
         \/ /\ UNCHANGED <<host, patch, write, late, overtaken>> /\ ~stale
            /\ (draft' = draft /\ wish' = wish) \/ CatalogLoaded
<1>1. CASE Start \/ Served \/ View
  <2>1. Views
    BY <1>1, ViewsAre DEF Baseline
  <2>2. UNCHANGED <<host, patch, write, late, wish, overtaken>> /\ dirty
    BY <2>1 DEF Views, Baseline
  <2>3. draft' = draft /\ stale' = stale
    BY <2>1, <2>2 DEF Views, AcceptView, Types, PageTypes
  <2> QED
    BY <2>2, <2>3
<1>2. CASE Discard \/ SaveNothing
  <2>1. write' = write /\ write = "none"
    BY <1>2 DEF Discard, SaveNothing, CanSave, harness
  <2> QED
    BY <2>1
<1>3. CASE FormLoads \/ Stop \/ CatalogFails \/ CatalogLoaded
  BY <1>3 DEF FormLoads, Stop, CatalogFails, CatalogLoaded, harness, history
<1>4. CASE WriteRefused \/ SaveAccepted \/ SaveRefused
  BY <1>4 DEF WriteRefused, SaveAccepted, SaveRefused
<1>5. ASSUME NEW k \in Fields, NEW d, IsForm(d), UserSets(k, d)
      PROVE  write # "none"
  BY <1>5 DEF UserSets, harness
<1>6. ASSUME NEW k \in OthersKeys, NEW v, OthersChange(k, v)
      PROVE  FALSE
  BY <1>6 DEF OthersChange
<1>7. CASE UNCHANGED vars
  BY <1>7 DEF vars
<1>8. CASE Save \/ WriteAccepted
  BY <1>8
<1> QED
  BY <1>1, <1>2, <1>3, <1>4, <1>5, <1>6, <1>7, <1>8, UserSetsForm
     DEF Next, SaveEnds, Types, FormTypes

LEMMA PatchFollowsStep ==
  ASSUME Types, Baseline, Records, PatchFollows, [Next]_vars
  PROVE  PatchFollows'
<1> SUFFICES ASSUME ~stale', write' \in {"asked", "accepted"}
             PROVE  PatchFollows'
  BY DEF PatchFollows
<1>0. /\ \A k \in Plain : k \in Fields /\ k \in Keys
      /\ "executor" \in Fields /\ "executorPinned" \in Fields /\ "executor" \in Keys
  BY FieldTypes DEF Plain
<1>1. CASE Save
  <2> DEFINE p == DiffPatch(initial, draft)
             next(k) == IF p[k] = Undefined THEN host[k] ELSE p[k]
  <2>1. /\ UNCHANGED <<host, draft, stale>> /\ dirty /\ write = "none"
        /\ patch' = p /\ write' = "asked"
    BY <1>1 DEF Save, CanSave
  <2>2. initial = ValuesFrom(host)
    BY <2>1 DEF Baseline
  <2>3. /\ \A k \in Plain : draft[k] = Undefined \/ next(k) = draft[k]
        /\ next("executor") = Wanted(draft)
    BY <2>2, DiffReads
  <2>4. \A k \in Keys : After(k)' = next(k)
    BY <2>1 DEF After
  <2> HIDE DEF next
  <2>5. \A k \in Plain : Reads(draft[k], After(k)', k)
    BY <1>0, <2>3, <2>4 DEF Reads
  <2>6. Wanted(draft) = After("executor")'
    BY <1>0, <2>3, <2>4
  <2> QED
    BY <2>1, <2>5, <2>6 DEF PatchFollows
<1>2. CASE WriteAccepted
  <2>1. /\ UNCHANGED <<draft, stale, patch, late>> /\ write = "asked"
        /\ \A k \in Keys : host'[k] = After(k)
    BY <1>2 DEF WriteAccepted, After, history
  <2>2. \A k \in Keys : After(k)' = After(k) /\ After(k)' = host'[k]
    BY <2>1 DEF After
  <2>3. /\ \A k \in Plain \ late : Reads(draft[k], After(k), k)
        /\ {"executor", "executorPinned"} \cap late = {} => Wanted(draft) = After("executor")
    BY <2>1 DEF PatchFollows
  <2>4. /\ \A k \in Plain \ late' : Reads(draft'[k], After(k)', k)
        /\ {"executor", "executorPinned"} \cap late' = {} => Wanted(draft') = After("executor")'
    BY <1>0, <2>1, <2>2, <2>3
  <2> QED
    BY <2>2, <2>4 DEF PatchFollows
<1>3. ASSUME NEW k \in Fields, NEW d, IsForm(d), UserSets(k, d), write # "none"
      PROVE  PatchFollows'
  <2>1. UNCHANGED <<host, write, patch>> /\ draft' = d /\ ~stale
    <3>1. UNCHANGED <<host, write, patch>> /\ draft' = d
          /\ stale' = (stale \/ initial # ValuesFrom(host))
      BY <1>3, UserSetsEffect
    <3> QED
      BY <3>1 DEF Types, PageTypes
  <2>2. \A f \in Fields : f \in late' \/ (f \notin late /\ d[f] = draft[f])
    BY <1>3, UserSetsEffect
  <2>3. \A f \in Keys : After(f)' = After(f)
    BY <2>1 DEF After
  <2>4. /\ \A f \in Plain \ late : Reads(draft[f], After(f), f)
        /\ {"executor", "executorPinned"} \cap late = {} => Wanted(draft) = After("executor")
        /\ write = "accepted" => \A f \in Keys : After(f) = host[f]
    BY <2>1 DEF PatchFollows
  <2>5. \A f \in Plain \ late' : Reads(draft'[f], After(f)', f)
    BY <1>0, <2>1, <2>2, <2>3, <2>4
  <2>6. {"executor", "executorPinned"} \cap late' = {} => Wanted(draft') = After("executor")'
    <3>1. {"executor", "executorPinned"} \cap late' = {}
             => /\ {"executor", "executorPinned"} \cap late = {}
                /\ d["executor"] = draft["executor"]
                /\ d["executorPinned"] = draft["executorPinned"]
      BY <1>0, <2>2
    <3> QED
      BY <1>0, <2>1, <2>3, <2>4, <3>1, WantedOfSame
  <2>7. write' = "accepted" => \A f \in Keys : After(f)' = host'[f]
    BY <2>1, <2>3, <2>4
  <2> QED
    BY <2>5, <2>6, <2>7 DEF PatchFollows
<1>4. CASE /\ UNCHANGED <<host, patch, write, late, overtaken>> /\ ~stale
           /\ (draft' = draft /\ wish' = wish) \/ CatalogLoaded
  <2>1. \A f \in Keys : After(f)' = After(f)
    BY <1>4 DEF After
  <2>2. /\ Wanted(draft') = Wanted(draft)
        /\ \A k \in Plain : \A w : Reads(draft[k], w, k) => Reads(draft'[k], w, k)
    BY <1>4, CatalogReads
  <2>3. /\ \A f \in Plain \ late : Reads(draft[f], After(f), f)
        /\ {"executor", "executorPinned"} \cap late = {} => Wanted(draft) = After("executor")
        /\ write = "accepted" => \A f \in Keys : After(f) = host[f]
    BY <1>4 DEF PatchFollows
  <2>4. /\ \A f \in Plain \ late' : Reads(draft'[f], After(f)', f)
        /\ {"executor", "executorPinned"} \cap late' = {} => Wanted(draft') = After("executor")'
        /\ write' = "accepted" => \A f \in Keys : After(f)' = host'[f]
    BY <1>0, <1>4, <2>1, <2>2, <2>3
  <2> QED
    BY <2>4 DEF PatchFollows
<1> QED
  BY <1>1, <1>2, <1>3, <1>4, SaveInProgress

\* What the patch holds of a field depends on what was chosen and what will be written.
LEMMA HeldSame ==
  ASSUME NEW f \in Fields, wish'[f] = wish[f], \A k \in Keys : After(k)' = After(k),
         \/ "executorPinned" \in late'
         \/ "executorPinned" \notin late /\ wish'["executorPinned"] = wish["executorPinned"],
         HeldAfter(f)
  PROVE  HeldAfter(f)'
<1>1. "executor" \in Keys /\ (f \in Keys \/ f = "executorPinned")
  BY FieldTypes
<1>2. CASE f = "executorPinned"
  <2>1. (After("executor") = Blank)' <=> After("executor") = Blank
    BY <1>1
  <2> QED
    BY <1>2, <2>1 DEF HeldAfter
<1>3. CASE f = "executor"
  <2>1. After("executor")' = After("executor")
    BY <1>1
  <2> QED
    BY <1>3, <2>1 DEF HeldAfter
<1>4. CASE f \notin {"executor", "executorPinned"}
  <2>1. After(f)' = After(f)
    BY <1>1, <1>4
  <2> QED
    BY <1>4, <2>1 DEF HeldAfter
<1> QED
  BY <1>2, <1>3, <1>4

LEMMA PinKeptStep ==
  ASSUME Types, ChoicesKept, PinKept, Baseline, Records, [Next]_vars
  PROVE  PinKept'
<1> SUFFICES ASSUME ~overtaken', wish'["executor"] # NoWish, draft'["executorPinned"] = FALSE
             PROVE  wish'["executorPinned"] = FALSE
  BY DEF PinKept
<1>0. {"executor", "executorPinned"} \subseteq Fields
  BY FieldTypes
<1>1. CASE Start \/ Served \/ View
  <2>1. Views
    BY <1>1, ViewsAre DEF Baseline
  <2>2. UNCHANGED <<wish, overtaken>> /\ dirty
    BY <1>0, <2>1 DEF Views, ChoicesKept
  <2>3. draft' = draft
    BY <2>1, <2>2 DEF Views, AcceptView
  <2> QED
    BY <2>2, <2>3 DEF PinKept
<1>2. CASE Discard \/ SaveNothing
  BY <1>0, <1>2 DEF Discard, SaveNothing, NoWishes
<1>3. CASE FormLoads \/ Stop \/ CatalogFails \/ Save \/ WriteAccepted \/ WriteRefused \/ SaveRefused
  BY <1>3 DEF FormLoads, Stop, CatalogFails, Save, WriteAccepted, WriteRefused, SaveRefused,
              history, PinKept
<1>4. CASE CatalogLoaded
  <2>1. /\ \A f \in {"executor", "executorPinned"} : wish'[f] = wish[f] /\ draft'[f] = draft[f]
        /\ overtaken' = overtaken
    BY <1>0, <1>4, CatalogForm, CatalogWishes DEF IsEffort, CatalogLoaded
  <2> QED
    BY <2>1 DEF PinKept
<1>5. CASE SaveAccepted
  <2>1. late = {}
    BY <1>5 DEF SaveAccepted
  <2> QED
    BY <1>0, <1>5, <2>1 DEF SaveAccepted
<1>6. ASSUME NEW k \in Fields, NEW d, UserSets(k, d),
             k \in {"executor"} \/ d["executor"] # draft["executor"] =>
                k = "executorPinned" \/ draft["executorPinned"] # FALSE
      PROVE  wish'["executorPinned"] = FALSE
  <2>1. draft' = d /\ overtaken' = overtaken
    BY <1>6, UserSetsEffect
  <2>2. \A f \in {"executor", "executorPinned"} :
           \/ wish'[f] = d[f] /\ (f = k \/ d[f] # draft[f])
           \/ wish'[f] = wish[f] /\ d[f] = draft[f]
    BY <1>0, <1>6, UserSetsField
  <2>3. CASE wish'["executorPinned"] = d["executorPinned"]
    BY <2>1, <2>3
  <2>4. CASE wish'["executorPinned"] = wish["executorPinned"] /\ draft["executorPinned"] = FALSE
    <3>1. CASE k = "executor" \/ d["executor"] # draft["executor"]
      <4>1. k = "executorPinned"
        BY <1>6, <2>4, <3>1
      <4>2. wish'["executorPinned"] = d["executorPinned"]
        BY <1>6, <4>1, UserSetsChosen
      <4> QED
        BY <2>1, <4>2
    <3>2. CASE ~(k = "executor" \/ d["executor"] # draft["executor"])
      <4>1. wish["executor"] # NoWish
        BY <2>2, <3>2
      <4> QED
        BY <2>1, <2>4, <4>1 DEF PinKept
    <3> QED
      BY <3>1, <3>2
  <2> QED
    BY <2>1, <2>2, <2>3, <2>4
<1>7. ASSUME NEW k \in OthersKeys, NEW v, OthersChange(k, v)
      PROVE  wish'["executorPinned"] = FALSE
  BY <1>7 DEF OthersChange, PinKept
<1>8. CASE UNCHANGED vars
  BY <1>8 DEF vars, PinKept
<1> QED
  BY <1>1, <1>2, <1>3, <1>4, <1>5, <1>6, <1>7, <1>8, UserSetsPin DEF Next, SaveEnds

LEMMA WishesSentStep ==
  ASSUME Types, ChoicesKept, PinKept, Baseline, Records, WishesSent, [Next]_vars
  PROVE  WishesSent'
<1> SUFFICES ASSUME ~stale', ~overtaken', write' \in {"asked", "accepted"},
                    NEW f \in Fields, f \notin late', wish'[f] # NoWish
             PROVE  HeldAfter(f)'
  BY DEF WishesSent
<1>1. CASE Save
  <2> DEFINE p == DiffPatch(initial, draft)
             next(k) == IF p[k] = Undefined THEN host[k] ELSE p[k]
  <2>1. /\ UNCHANGED <<host, draft, stale, wish, overtaken>> /\ dirty /\ write = "none"
        /\ patch' = p
    BY <1>1 DEF Save, CanSave
  <2>2. initial = ValuesFrom(host)
    BY <2>1 DEF Baseline
  <2>3. /\ \A k \in Plain : draft[k] = Undefined \/ next(k) = draft[k]
        /\ next("executor") = Wanted(draft)
    BY <2>2, DiffReads
  <2>4. \A k \in Keys : After(k)' = next(k)
    BY <2>1 DEF After
  <2> HIDE DEF next
  <2>5. draft[f] = wish[f]
    BY <2>1 DEF ChoicesKept
  <2>6. "executor" \in Keys /\ (f = "executorPinned" \/ f = "executor" \/ f \in Plain)
    BY FieldTypes DEF Plain
  <2>7. CASE f = "executorPinned"
    <3>1. draft[f] = FALSE => After("executor")' = Blank
      BY <2>3, <2>4, <2>6, <2>7 DEF Wanted
    <3>2. wish'[f] = FALSE => After("executor")' = Blank
      BY <2>1, <2>5, <3>1
    <3> QED
      BY <2>7, <3>2 DEF HeldAfter
  <2>8. CASE f = "executor"
    <3>1. \/ After("executor")' = draft["executor"]
          \/ After("executor")' = Blank /\ draft["executorPinned"] = FALSE
          \/ After("executor")' = Blank /\ draft["executor"] \in {Blank, Undefined}
      <4>1. After("executor")' = Wanted(draft)
        BY <2>3, <2>4, <2>6
      <4>2. \/ Wanted(draft) = draft["executor"]
            \/ Wanted(draft) = Blank /\ draft["executorPinned"] = FALSE
            \/ Wanted(draft) = Blank /\ draft["executor"] \in {Blank, Undefined}
        BY DEF Wanted, IsEmpty
      <4> QED
        BY <4>1, <4>2
    <3>2. draft["executor"] # Undefined
      BY <2>5, <2>8 DEF Records
    <3>3. draft["executorPinned"] = FALSE => wish'["executorPinned"] = FALSE
      BY <2>1, <2>8 DEF PinKept
    <3>4. \/ After("executor")' = wish'["executor"]
          \/ After("executor")' = Blank /\ wish'["executorPinned"] = FALSE
      <4>1. wish'["executor"] = draft["executor"]
        BY <2>1, <2>5, <2>8
      <4> QED
        BY <3>1, <3>2, <3>3, <4>1
    <3> QED
      BY <2>8, <3>4 DEF HeldAfter
  <2>9. CASE f \in Plain
    <3>1. f \in Keys /\ f # "executor" /\ f # "executorPinned"
      BY <2>9, FieldTypes DEF Plain
    <3>2. draft[f] = Undefined \/ After(f)' = draft[f]
      BY <2>3, <2>4, <2>9, <3>1
    <3>3. After(f)' = wish'[f] \/ wish'[f] = Undefined
      BY <2>1, <2>5, <3>2
    <3> QED
      BY <3>1, <3>3 DEF HeldAfter
  <2> QED
    BY <2>6, <2>7, <2>8, <2>9
<1>2. CASE WriteAccepted
  <2>1. /\ UNCHANGED <<stale, patch, late, wish, overtaken>> /\ write = "asked"
        /\ \A k \in Keys : host'[k] = After(k)
    BY <1>2 DEF WriteAccepted, After, history
  <2>2. \A k \in Keys : After(k)' = After(k)
    BY <2>1 DEF After
  <2>3. HeldAfter(f) /\ wish'[f] = wish[f]
    BY <2>1 DEF WishesSent
  <2> QED
    BY <2>1, <2>2, <2>3, HeldSame
<1>3. ASSUME NEW k \in Fields, NEW d, UserSets(k, d), write # "none"
      PROVE  HeldAfter(f)'
  <2>1. UNCHANGED <<host, write, patch, overtaken>> /\ ~stale
    <3>1. UNCHANGED <<host, write, patch, overtaken>>
          /\ stale' = (stale \/ initial # ValuesFrom(host))
      BY <1>3, UserSetsEffect
    <3> QED
      BY <3>1 DEF Types, PageTypes
  <2>2. f \notin late /\ wish'[f] = wish[f]
    BY <1>3, UserSetsEffect
  <2>5. \/ "executorPinned" \in late'
        \/ "executorPinned" \notin late /\ wish'["executorPinned"] = wish["executorPinned"]
    BY <1>3, UserSetsEffect, FieldTypes
  <2>3. \A g \in Keys : After(g)' = After(g)
    BY <2>1 DEF After
  <2>4. HeldAfter(f)
    BY <2>1, <2>2 DEF WishesSent
  <2> QED
    BY <2>2, <2>3, <2>4, <2>5, HeldSame
<1>4. CASE /\ UNCHANGED <<host, patch, write, late, overtaken>> /\ ~stale
           /\ (draft' = draft /\ wish' = wish) \/ CatalogLoaded
  <2>1. \A k \in Keys : After(k)' = After(k)
    BY <1>4 DEF After
  <2>2. wish'[f] = wish[f] /\ wish'["executorPinned"] = wish["executorPinned"]
    BY <1>4, CatalogWishes, FieldTypes DEF IsEffort
  <2>3. HeldAfter(f)
    BY <1>4, <2>2 DEF WishesSent
  <2> QED
    BY <1>4, <2>1, <2>2, <2>3, HeldSame
<1> QED
  BY <1>1, <1>2, <1>3, <1>4, SaveInProgress

-----------------------------------------------------------------------------
(* What a save writes, and what it reports *)

LEMMA SaveInvInit == Init => SaveInv
<1> SUFFICES ASSUME Init PROVE SaveInv
  OBVIOUS
<1>1. Types
  BY TypesInit
<1>2. \A f \in Fields : wish[f] = NoWish
  BY DEF Init, NoWishes
<1>3. ChoicesKept
  BY <1>2 DEF ChoicesKept
<1>4. Baseline
  BY DEF Init, Baseline
<1>5. Records
  BY <1>2, FieldTypes, PanelAssumption DEF Init, Records
<1>6. FormFollows
  <2>1. IsDocument(host) /\ initial = Nothing /\ dirty = FALSE
    BY PanelAssumption DEF Init
  <2> QED
    BY <2>1, TakenForm DEF FormFollows
<1>7. PatchFollows /\ WishesSent
  BY DEF Init, PatchFollows, WishesSent
<1>8. PinKept
  BY <1>2, FieldTypes DEF PinKept
<1> QED
  BY <1>8, <1>1, <1>3, <1>4, <1>5, <1>6, <1>7 DEF SaveInv

LEMMA SaveInvHolds == Spec => []SaveInv
<1>1. SaveInv /\ [Next]_vars => SaveInv'
  <2> SUFFICES ASSUME SaveInv, [Next]_vars PROVE SaveInv'
    OBVIOUS
  <2>1. Types'
    BY HarnessTypesStep, PageTypesStep, FormTypesStep DEF Types, SaveInv
  <2>2. ChoicesKept' /\ PinKept' /\ Baseline' /\ Records'
    BY ChoicesKeptStep, PinKeptStep, BaselineStep, RecordsStep DEF SaveInv
  <2>3. FormFollows' /\ PatchFollows' /\ WishesSent'
    BY FormFollowsStep, PatchFollowsStep, WishesSentStep DEF SaveInv
  <2> QED
    BY <2>1, <2>2, <2>3 DEF SaveInv
<1> QED
  BY SaveInvInit, <1>1, PTL DEF Spec

\* The one step that begins a save, and the one that reports a written one.
LEMMA SaveBegins ==
  ASSUME [Next]_vars, Types, write = "none", write' = "asked"
  PROVE  Save
<1>1. CASE Start \/ Served \/ View \/ FormLoads
  BY <1>1 DEF Start, Served, View, FormLoads
<1>2. CASE Stop \/ Discard \/ SaveNothing \/ CatalogLoaded \/ CatalogFails
  BY <1>2 DEF Stop, Discard, SaveNothing, CatalogLoaded, CatalogFails, harness
<1>3. CASE SaveEnds
  BY <1>3 DEF SaveEnds, WriteAccepted, WriteRefused, SaveAccepted, SaveRefused
<1>4. ASSUME NEW k \in Fields, NEW d, UserSets(k, d)
      PROVE  FALSE
  BY <1>4 DEF UserSets, harness
<1>5. ASSUME NEW k \in OthersKeys, NEW v, OthersChange(k, v)
      PROVE  FALSE
  BY <1>5 DEF OthersChange
<1>6. CASE UNCHANGED vars
  BY <1>6 DEF vars
<1> QED
  BY <1>1, <1>2, <1>3, <1>4, <1>5, <1>6, UserSetsForm DEF Next, Types, FormTypes

\* The entries of a patch that are not the user's: there are none, but efforts the
\* catalog took out.
LEMMA SaveIsTheUsers ==
  ASSUME SaveInv, Save, ~stale, NEW k \in Keys, patch'[k] \notin {Undefined, host[k]}
  PROVE  Chosen(k)
<1> DEFINE p == DiffPatch(initial, draft)
           next(j) == IF p[j] = Undefined THEN host[j] ELSE p[j]
<1>1. /\ dirty /\ write = "none" /\ patch' = p
  BY DEF Save, CanSave
<1>2. initial = ValuesFrom(host)
  BY <1>1 DEF SaveInv, Baseline
<1>3. Matches
  BY <1>1 DEF SaveInv, FormFollows
<1>4. /\ \A j \in Plain : /\ draft[j] = Undefined \/ next(j) = draft[j]
                          /\ draft[j] = Undefined => next(j) = host[j]
      /\ next("executor") = Wanted(draft)
  BY <1>2, DiffReads DEF SaveInv
<1>5. next(k) = p[k] /\ next(k) # host[k]
  BY <1>1
<1> HIDE DEF next
<1>6. k = "executor" \/ k \in Plain
  BY DEF Plain
<1>7. CASE k = "executor"
  BY <1>3, <1>4, <1>5, <1>7 DEF Matches, Chosen
<1>8. CASE k \in Plain
  <2>1. next(k) = draft[k] /\ draft[k] # Undefined
    BY <1>4, <1>5, <1>8
  <2>2. wish[k] = NoWish => Reads(draft[k], host[k], k)
    <3>1. draft[k] # NoWish
      BY <1>8, FieldTypes, PanelAssumption DEF SaveInv, Types, FormTypes, IsForm, Entry, Plain
    <3> QED
      BY <1>3, <1>8, <3>1 DEF Matches
  <2>3. wish[k] = NoWish => IsEffort(k) /\ draft[k] = Blank
    BY <1>5, <2>1, <2>2 DEF Reads
  <2>4. wish[k] = NoWish => IsEffort(k) /\ patch'[k] = Blank
    BY <1>1, <1>5, <2>1, <2>3
  <2> QED
    BY <2>4 DEF Chosen
<1> QED
  BY <1>6, <1>7, <1>8

(***************************************************************************)
(* As long as nobody else changed the settings, a save changes no setting  *)
(* the user did not choose a value for (diffPatch), but an effort the      *)
(* catalog took out.                                                       *)
(***************************************************************************)
THEOREM SavesOnlyWhatChangedHolds == Spec => SavesOnlyWhatChanged
<1>1. SaveInv /\ [Next]_vars =>
         ((write = "none" /\ write' = "asked" /\ ~stale) =>
            \A k \in Keys : patch'[k] \notin {Undefined, host[k]} => Chosen(k))
  BY SaveBegins, SaveIsTheUsers DEF SaveInv
<1> QED
  BY <1>1, SaveInvHolds, PTL DEF Spec, SavesOnlyWhatChanged

LEMMA AllIsHeld ==
  ASSUME SaveInv, write = "accepted", ~stale, ~overtaken,
         NEW f \in Fields \ late, wish[f] # NoWish
  PROVE  Held(f)
<1>1. HeldAfter(f)
  BY DEF SaveInv, WishesSent
<1>2. \A k \in Keys : After(k) = host[k]
  BY DEF SaveInv, PatchFollows
<1>3. "executor" \in Keys /\ (f \in Keys \/ f = "executorPinned")
  BY FieldTypes
<1>4. CASE f = "executorPinned"
  <2>1. After("executor") = host["executor"]
    BY <1>2, <1>3
  <2>2. wish[f] \in BOOLEAN
    BY <1>4 DEF SaveInv, Records
  <2>3. wish[f] = FALSE => host["executor"] = Blank
    BY <1>1, <1>4, <2>1 DEF HeldAfter
  <2> QED
    BY <1>4, <2>2, <2>3 DEF Held
<1>5. CASE f = "executor"
  BY <1>1, <1>2, <1>3, <1>5 DEF HeldAfter, Held
<1>6. CASE f \notin {"executor", "executorPinned"}
  <2>1. After(f) = host[f]
    BY <1>2, <1>3, <1>6
  <2> QED
    BY <1>1, <1>6, <2>1 DEF HeldAfter, Held
<1> QED
  BY <1>4, <1>5, <1>6

(***************************************************************************)
(* When a save is reported as done, all the user chose before it is in the *)
(* settings, but a number that was cleared and an Executor that was        *)
(* unpinned, whatever was edited while the write was on its way.  (A       *)
(* choice the catalog withdrew is one no longer.)                          *)
(***************************************************************************)
THEOREM SavedMeansSavedHolds == Spec => SavedMeansSaved
<1>1. SaveInv =>
         ((write = "accepted" /\ write' = "none" /\ ~stale /\ ~overtaken) =>
            \A f \in Fields \ late : wish[f] # NoWish => Held(f))
  BY AllIsHeld
<1> QED
  BY <1>1, SaveInvHolds, PTL DEF Spec, SavedMeansSaved
=============================================================================
