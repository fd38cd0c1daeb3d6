--------------------------- MODULE PiSession_proofs ---------------------------
(***************************************************************************)
(* Theorems about PiSession, for any number of parallel tool calls and     *)
(* manual consultations, any configurations and any threshold.             *)
(*                                                                         *)
(* What the limit, Herdr's status and the types have in common is how a    *)
(* step changes the set of consultations in flight: StepKinds says that a  *)
(* step begins one, ends one, or leaves them alone.                        *)
(***************************************************************************)
EXTENDS PiSession, FiniteSetTheorems, TLAPS

PcStates == {"idle", "running", "gating", "asked", "consulting", "dialog", "streaming", "aborted"}

\* pc is a function over this host's callers; a host is finite.
Shape ==
    /\ pc \in [callers -> PcStates]
    /\ callers \in Hosts
    /\ \A s \in slots : pc[s] \in {"idle", "running", "gating", "asked", "consulting"}
    /\ \A m \in manuals : pc[m] \in {"idle", "dialog", "streaming", "aborted"}

\* A consultation begins ...
Begins(c) ==
    /\ c \in callers \ InFlight
    /\ InFlight' = InFlight \cup {c}
    /\ MayConsult /\ Consume
    /\ ActivityStart
    /\ current' = current \cup {c}
    /\ UNCHANGED <<herdrOn, disturbed>>

\* ... or ends ...
IsOver(c) ==
    /\ c \in InFlight
    /\ InFlight' = InFlight \ {c}
    /\ ActivityFinish(c)
    /\ current' = current \ {c}
    /\ UNCHANGED <<consumed, herdrOn>>

\* ... or none does.
Keeps ==
    /\ InFlight' = InFlight
    /\ \/ UNCHANGED <<consumed, current>>
       \/ consumed' = 0 /\ current' = {}
    /\ \/ UNCHANGED <<herdrOn, activity, label, disturbed>>
       \/ activity' = 0 /\ label' = FALSE /\ herdrOn' = herdrOn /\ disturbed' = (InFlight # {})
       \/ UNCHANGED <<activity, label>> /\ herdrOn' = ~herdrOn /\ disturbed' = (InFlight # {})

-----------------------------------------------------------------------------
(* Callers *)

LEMMA CallersFinite ==
  ASSUME Shape
  PROVE  IsFiniteSet(callers) /\ callers \subseteq Slots \cup Manuals
<1>1. callers \subseteq Slots \cup Manuals
  BY PiSessionAssumption DEF Shape
<1>2. IsFiniteSet(Slots \cup Manuals)
  BY PiSessionAssumption, FS_Union
<1> QED
  BY <1>1, <1>2, FS_Subset

LEMMA InFlightFinite ==
  ASSUME Shape
  PROVE  IsFiniteSet(InFlight) /\ Cardinality(InFlight) \in Nat
         /\ (Cardinality(InFlight) = 0 <=> InFlight = {})
<1>1. IsFiniteSet(InFlight)
  BY CallersFinite, FS_Subset, InFlight \subseteq callers DEF InFlight
<1> QED
  BY <1>1, FS_CardinalityType, FS_EmptySet

\* Changing one caller's place changes InFlight by that caller only.
LEMMA OnePlace ==
  ASSUME Shape, UNCHANGED callers, NEW c \in callers, NEW state, Goes(c, state)
  PROVE  /\ InFlight' = IF state \in {"gating", "consulting", "streaming", "aborted"}
                        THEN InFlight \cup {c} ELSE InFlight \ {c}
         /\ pc'[c] = state
         /\ \A d \in callers \ {c} : pc'[d] = pc[d]
BY DEF Shape, Goes, InFlight

LEMMA ShapeInit == PiInit => Shape
BY DEF PiInit, Shape, PcStates, slots, manuals

LEMMA ShapeStep ==
  ASSUME Shape, [PiNext]_piVars
  PROVE  Shape' /\ UNCHANGED <<config, callers>>
<1> USE PiSessionAssumption DEF Shape, PcStates, slots, manuals
<1>1. ASSUME NEW s \in slots, NEW g \in Signatures, ToolRuns(s, g)
      PROVE  Shape' /\ UNCHANGED <<config, callers>>
  BY <1>1 DEF ToolRuns, Goes
<1>2. ASSUME NEW s \in slots, NEW g \in Signatures, GateBegin(s, g)
      PROVE  Shape' /\ UNCHANGED <<config, callers>>
  BY <1>2 DEF GateBegin, Consults, Goes
<1>3. ASSUME NEW s \in slots, NEW g \in Signatures, GateExhausted(s, g)
      PROVE  Shape' /\ UNCHANGED <<config, callers>>
  BY <1>3 DEF GateExhausted, Goes
<1>4. ASSUME NEW s \in slots, AskBegin(s) \/ AskConsults(s)
      PROVE  Shape' /\ UNCHANGED <<config, callers>>
  BY <1>4 DEF AskBegin, AskConsults, Consults, Goes
<1>5. ASSUME NEW s \in slots, SlotEnds(s)
      PROVE  Shape' /\ UNCHANGED <<config, callers>>
  BY <1>5 DEF SlotEnds, GateAnswers, GateProceeds, GateDenies, GateFails, AskRejected, AskEnds,
              ToolDone, Ends, Goes
<1>6. ASSUME NEW m \in manuals, ManualAsked(m) \/ ManualGivenUp(m) \/ ManualEnds(m)
      PROVE  Shape' /\ UNCHANGED <<config, callers>>
  BY <1>6 DEF ManualAsked, ManualGivenUp, ManualEnds, ManualDelivers, ManualSilent, Ends, Goes
<1>7. ASSUME NEW m \in manuals, ManualSubmitted(m)
      PROVE  Shape' /\ UNCHANGED <<config, callers>>
  BY <1>7 DEF ManualSubmitted
<1>8. CASE SessionStart \/ FlowToggle \/ HerdrToggle
  BY <1>8 DEF SessionStart, FlowToggle, HerdrToggle
<1>9. CASE SessionShutdown
  BY <1>9 DEF SessionShutdown
<1>10. CASE UNCHANGED piVars
  BY <1>10 DEF piVars
<1> QED
  BY <1>1, <1>2, <1>3, <1>4, <1>5, <1>6, <1>7, <1>8, <1>9, <1>10 DEF PiNext

-----------------------------------------------------------------------------
(* How a step changes what is in flight *)

LEMMA OverWhenEnded ==
  ASSUME Shape, UNCHANGED callers, NEW c \in InFlight, NEW state \in {"running", "idle"},
         Ends(c, state), UNCHANGED <<consumed, herdrOn>>
  PROVE  IsOver(c)
<1>1. c \in callers
  BY DEF InFlight
<1>2. InFlight' = InFlight \ {c}
  BY <1>1, OnePlace DEF Ends
<1> QED
  BY <1>2 DEF IsOver, Ends

LEMMA StaysOut ==
  ASSUME Shape, UNCHANGED callers, NEW c \in callers \ InFlight,
         NEW state \in {"running", "idle", "asked", "dialog"}, Goes(c, state)
  PROVE  InFlight' = InFlight
BY OnePlace DEF InFlight

LEMMA StepKinds ==
  ASSUME Shape, [PiNext]_piVars
  PROVE  \/ \E c \in callers : Begins(c) \/ IsOver(c)
         \/ Keeps
<1>0. UNCHANGED callers /\ slots \subseteq callers /\ manuals \subseteq callers
  BY ShapeStep DEF slots, manuals
<1>a. \A s \in slots : s \in InFlight <=> pc[s] \in {"gating", "consulting"}
  BY <1>0 DEF InFlight, Shape
<1>b. \A m \in manuals : m \in InFlight <=> pc[m] \in {"streaming", "aborted"}
  BY <1>0 DEF InFlight, Shape
<1>1. ASSUME NEW s \in slots, NEW g \in Signatures, ToolRuns(s, g)
      PROVE  Keeps
  <2>1. InFlight' = InFlight
    BY <1>0, <1>1, <1>a, StaysOut DEF ToolRuns
  <2> QED
    BY <1>1, <2>1 DEF ToolRuns, Keeps, herdrVars
<1>2. ASSUME NEW s \in slots, NEW g \in Signatures, GateBegin(s, g)
      PROVE  Begins(s)
  <2>1. InFlight' = InFlight \cup {s}
    BY <1>0, <1>2, OnePlace DEF GateBegin, Consults
  <2> QED
    BY <1>0, <1>2, <2>1, <1>a DEF GateBegin, Repeats, Consults, Begins, MayConsult
<1>3. ASSUME NEW s \in slots, NEW g \in Signatures, GateExhausted(s, g)
      PROVE  Keeps
  <2>1. PICK outcome \in {"running", "idle"} : Goes(s, outcome)
    BY <1>3 DEF GateExhausted
  <2>2. InFlight' = InFlight
    BY <1>0, <1>3, <1>a, <2>1, StaysOut DEF GateExhausted, Repeats
  <2> QED
    BY <1>3, <2>2 DEF GateExhausted, Keeps
<1>4. ASSUME NEW s \in slots, AskBegin(s)
      PROVE  Keeps
  <2>1. InFlight' = InFlight
    BY <1>0, <1>4, <1>a, StaysOut DEF AskBegin
  <2> QED
    BY <1>4, <2>1 DEF AskBegin, Keeps, herdrVars, taskVars
<1>5. ASSUME NEW s \in slots, AskConsults(s)
      PROVE  Begins(s)
  <2>1. InFlight' = InFlight \cup {s}
    BY <1>0, <1>5, OnePlace DEF AskConsults, Consults
  <2> QED
    BY <1>0, <1>5, <2>1, <1>a DEF AskConsults, Consults, Begins
<1>6. ASSUME NEW s \in slots, SlotEnds(s)
      PROVE  IsOver(s) \/ Keeps
  <2>1. CASE GateProceeds(s)
    BY <1>0, <1>a, <2>1, OverWhenEnded DEF GateProceeds
  <2>2. CASE GateDenies(s)
    BY <1>0, <1>a, <2>2, OverWhenEnded DEF GateDenies, taskVars
  <2>3. CASE GateFails(s)
    BY <1>0, <1>a, <2>3, OverWhenEnded DEF GateFails
  <2>4. CASE AskEnds(s)
    BY <1>0, <1>a, <2>4, OverWhenEnded DEF AskEnds, taskVars
  <2>5. CASE AskRejected(s) \/ ToolDone(s)
    <3>1. InFlight' = InFlight
      BY <1>0, <2>5, <1>a, StaysOut DEF AskRejected, ToolDone
    <3> QED
      BY <2>5, <3>1 DEF AskRejected, ToolDone, Keeps, herdrVars, taskVars
  <2> QED
    BY <1>6, <2>1, <2>2, <2>3, <2>4, <2>5 DEF SlotEnds, GateAnswers
<1>7. ASSUME NEW m \in manuals, ManualAsked(m) \/ ManualGivenUp(m)
      PROVE  Keeps
  <2>1. InFlight' = InFlight
    BY <1>0, <1>7, <1>b, StaysOut DEF ManualAsked, ManualGivenUp
  <2> QED
    BY <1>7, <2>1 DEF ManualAsked, ManualGivenUp, Keeps, herdrVars, taskVars
<1>8. ASSUME NEW m \in manuals, ManualSubmitted(m)
      PROVE  Begins(m)
  <2>1. InFlight' = InFlight \cup {m}
    BY <1>0, <1>8 DEF ManualSubmitted, InFlight, Shape
  <2> QED
    BY <1>0, <1>8, <1>b, <2>1 DEF ManualSubmitted, Begins
<1>9. ASSUME NEW m \in manuals, ManualEnds(m)
      PROVE  IsOver(m)
  BY <1>0, <1>9, <1>b, OverWhenEnded DEF ManualEnds, ManualDelivers, ManualSilent, taskVars
<1>10. CASE SessionStart
  BY <1>10 DEF SessionStart, Keeps, InFlight
<1>11. CASE SessionShutdown
  <2>1. \A c \in callers : c \in InFlight' <=> c \in InFlight
    <3> TAKE c \in callers
    <3>1. CASE pc[c] = "streaming"
      BY <1>0, <1>11, <3>1 DEF SessionShutdown, InFlight
    <3>2. CASE pc[c] = "dialog"
      BY <1>0, <1>11, <3>2 DEF SessionShutdown, InFlight
    <3>3. CASE pc[c] \notin {"streaming", "dialog"}
      BY <1>0, <1>11, <3>3 DEF SessionShutdown, InFlight
    <3> QED
      BY <3>1, <3>2, <3>3
  <2>2. InFlight' = InFlight
    BY <1>0, <2>1 DEF InFlight
  <2> QED
    BY <1>11, <2>2 DEF SessionShutdown, Keeps, taskVars
<1>12. CASE FlowToggle
  BY <1>12 DEF FlowToggle, Keeps, InFlight, herdrVars, taskVars
<1>13. CASE HerdrToggle
  BY <1>13 DEF HerdrToggle, Keeps, InFlight, taskVars
<1>14. CASE UNCHANGED piVars
  BY <1>14 DEF piVars, Keeps, InFlight
<1> QED
  BY <1>0, <1>1, <1>2, <1>3, <1>4, <1>5, <1>6, <1>7, <1>8, <1>9, <1>10, <1>11, <1>12, <1>13, <1>14
     DEF PiNext

-----------------------------------------------------------------------------
(* Types *)

\* Herdr counts some of the consultations in flight, and shows whether it counts any.
HerdrCount ==
    /\ activity \in 0..Cardinality(InFlight)
    /\ herdrOn \in BOOLEAN /\ label \in BOOLEAN /\ disturbed \in BOOLEAN
    /\ label <=> activity > 0

\* The fields no consultation is counted in.
Flags ==
    /\ config \in Configs
    /\ open \in BOOLEAN /\ flow \in BOOLEAN /\ blocked \in BOOLEAN /\ reported \in BOOLEAN
    /\ sig \in [slots -> Signatures \cup {None}]
    /\ newest \in Manuals \cup {None}

Counts ==
    /\ count \in 0..Threshold
    /\ previous \in Signatures \cup {None}
    /\ count = 0 <=> previous = None
    /\ edges \in Int
    /\ streak \in [sig: Signatures \cup {None}, n: 0..Threshold]

Fields == Flags /\ Counts

Ledger == consumed \in Nat /\ current \subseteq callers

LEMMA TypeParts ==
  ASSUME Shape, HerdrCount, Fields, Ledger
  PROVE  PiTypeOK
BY DEF Shape, HerdrCount, Fields, Flags, Counts, Ledger, PiTypeOK

LEMMA HerdrCountStep ==
  ASSUME Shape, HerdrCount, [PiNext]_piVars
  PROVE  HerdrCount'
<1>1. IsFiniteSet(InFlight) /\ Cardinality(InFlight) \in Nat
      /\ (Cardinality(InFlight) = 0 <=> InFlight = {})
  BY InFlightFinite
<1>2. ASSUME NEW c \in callers, Begins(c)
      PROVE  HerdrCount'
  <2>1. Cardinality(InFlight') = Cardinality(InFlight) + 1
    BY <1>1, <1>2, FS_AddElement DEF Begins
  <2> QED
    BY <1>1, <1>2, <2>1 DEF HerdrCount, Begins, ActivityStart
<1>3. ASSUME NEW c \in callers, IsOver(c)
      PROVE  HerdrCount'
  <2>1. Cardinality(InFlight') = Cardinality(InFlight) - 1
    BY <1>1, <1>3, FS_RemoveElement DEF IsOver
  <2>2. herdrOn' \in BOOLEAN /\ disturbed' \in BOOLEAN /\ label' \in BOOLEAN
    BY <1>3 DEF IsOver, ActivityFinish, HerdrCount
  <2>3. label' <=> (label /\ activity # 1)
    BY <1>3 DEF IsOver, ActivityFinish
  <2>4. activity' = IF activity > 0 THEN activity - 1 ELSE 0
    BY <1>3 DEF IsOver, ActivityFinish
  <2>5. activity \in 0..Cardinality(InFlight) /\ (label <=> activity > 0)
    BY DEF HerdrCount
  <2>6. Cardinality(InFlight) \in Nat \ {0}
    BY <1>1, <1>3 DEF IsOver
  <2>7. activity' \in 0..Cardinality(InFlight')
    BY <2>1, <2>4, <2>5, <2>6
  <2>8. label' <=> activity' > 0
    BY <2>3, <2>4, <2>5, <2>6
  <2> QED
    BY <2>2, <2>7, <2>8 DEF HerdrCount
<1>4. CASE Keeps
  <2>1. herdrOn' \in BOOLEAN /\ label' \in BOOLEAN /\ disturbed' \in BOOLEAN
    BY <1>4 DEF HerdrCount, Keeps
  <2>2. activity' \in 0..Cardinality(InFlight') /\ (label' <=> activity' > 0)
    BY <1>1, <1>4 DEF HerdrCount, Keeps
  <2> QED
    BY <2>1, <2>2 DEF HerdrCount
<1> QED
  BY <1>2, <1>3, <1>4, StepKinds

LEMMA LedgerStep ==
  ASSUME Shape, Ledger, [PiNext]_piVars
  PROVE  Ledger'
<1>1. UNCHANGED callers
  BY ShapeStep
<1>2. ASSUME NEW c \in callers, Begins(c)
      PROVE  Ledger'
  BY <1>1, <1>2 DEF Ledger, Begins, Consume
<1>3. ASSUME NEW c \in callers, IsOver(c)
      PROVE  Ledger'
  BY <1>1, <1>3 DEF Ledger, IsOver
<1>4. CASE Keeps
  BY <1>1, <1>4 DEF Ledger, Keeps
<1> QED
  BY <1>2, <1>3, <1>4, StepKinds

LEMMA CountOfType ==
  ASSUME Counts, NEW g \in Signatures
  PROVE  CountOf(g) \in 1..Threshold
BY PiSessionAssumption DEF Counts, CountOf

LEMMA StartedType ==
  ASSUME Counts, NEW g \in Signatures \cup {None}, NEW gated \in BOOLEAN
  PROVE  Started(g, gated) \in [sig: Signatures \cup {None}, n: 0..Threshold]
<1>1. streak.n \in 0..Threshold /\ Threshold \in Nat /\ Threshold > 1
  BY PiSessionAssumption DEF Counts
<1>2. (IF gated THEN 0 ELSE IF g # streak.sig THEN 1
       ELSE IF streak.n < Threshold THEN streak.n + 1 ELSE streak.n) \in 0..Threshold
  BY <1>1
<1> QED
  BY <1>1, <1>2 DEF Started, NoStreak

LEMMA FlagsStep ==
  ASSUME Shape, Flags, [PiNext]_piVars
  PROVE  Flags'
<1>0. UNCHANGED <<config, callers, slots>>
  BY ShapeStep DEF slots
<1>1. ASSUME NEW s \in slots, NEW g \in Signatures,
             ToolRuns(s, g) \/ GateBegin(s, g) \/ GateExhausted(s, g)
      PROVE  Flags'
  BY <1>0, <1>1 DEF ToolRuns, GateBegin, GateExhausted, Repeats, Consults, Effect, BlockSet, Flags,
                    herdrVars
<1>2. ASSUME NEW s \in slots, AskBegin(s) \/ AskConsults(s)
      PROVE  Flags'
  BY <1>0, <1>2 DEF AskBegin, AskConsults, Consults, Flags, herdrVars, taskVars
<1>3. ASSUME NEW s \in slots, SlotEnds(s)
      PROVE  Flags'
  BY <1>0, <1>3 DEF SlotEnds, GateAnswers, GateProceeds, GateDenies, GateFails, AskEnds,
                    AskRejected, ToolDone, Effect, BlockSet, Flags, herdrVars, taskVars
<1>4. ASSUME NEW m \in manuals,
             ManualAsked(m) \/ ManualGivenUp(m) \/ ManualSubmitted(m) \/ ManualEnds(m)
      PROVE  Flags'
  BY <1>0, <1>4 DEF manuals, ManualAsked, ManualGivenUp, ManualSubmitted, ManualEnds, ManualDelivers,
                    ManualSilent, Flags, herdrVars, taskVars
<1>5. CASE SessionStart \/ SessionShutdown
  BY <1>0, <1>5 DEF SessionStart, SessionShutdown, BlockClear, Flags, taskVars
<1>6. CASE FlowToggle \/ HerdrToggle \/ UNCHANGED piVars
  BY <1>0, <1>6 DEF FlowToggle, HerdrToggle, piVars, Flags, herdrVars, taskVars
<1> QED
  BY <1>1, <1>2, <1>3, <1>4, <1>5, <1>6 DEF PiNext

LEMMA CountsStep ==
  ASSUME Shape, Flags, Counts, [PiNext]_piVars
  PROVE  Counts'
<1>0. None \notin Signatures /\ Threshold \in Nat /\ Threshold > 1
  BY PiSessionAssumption
<1>a. \A g \in Signatures : CountOf(g) \in 1..Threshold
  BY CountOfType
<1>1. ASSUME NEW s \in slots, NEW g \in Signatures, ToolRuns(s, g)
      PROVE  Counts'
  <2>1. streak' \in [sig: Signatures \cup {None}, n: 0..Threshold]
    <3>1. (~flow) \in BOOLEAN
      OBVIOUS
    <3> QED
      BY <1>1, <3>1, StartedType DEF ToolRuns
  <2>2. edges' = edges
    BY <1>1 DEF ToolRuns, herdrVars
  <2>3. (count' = CountOf(g) /\ previous' = g) \/ UNCHANGED <<count, previous>>
    BY <1>1 DEF ToolRuns
  <2> QED
    BY <1>0, <1>a, <2>1, <2>2, <2>3 DEF Counts
<1>2. ASSUME NEW s \in slots, NEW g \in Signatures, GateBegin(s, g)
      PROVE  Counts'
  <2>1. count' = CountOf(g) /\ previous' = g /\ UNCHANGED <<edges, streak>>
    BY <1>2 DEF GateBegin, Repeats, Consults
  <2> QED
    BY <1>0, <1>a, <2>1 DEF Counts
<1>3. ASSUME NEW s \in slots, NEW g \in Signatures, GateExhausted(s, g)
      PROVE  Counts'
  <2>1. streak' \in [sig: Signatures \cup {None}, n: 0..Threshold]
    BY <1>3, StartedType DEF GateExhausted
  <2>2. count' = CountOf(g) /\ previous' = g
    BY <1>3 DEF GateExhausted, Repeats
  <2>3. edges' = edges \/ edges' = edges + 1
    BY <1>3 DEF GateExhausted, Effect, BlockSet
  <2> QED
    BY <1>0, <1>a, <2>1, <2>2, <2>3 DEF Counts
<1>4. ASSUME NEW s \in slots, AskBegin(s) \/ AskConsults(s)
      PROVE  Counts'
  BY <1>4 DEF AskBegin, AskConsults, Consults, Counts, herdrVars, taskVars
<1>5. ASSUME NEW s \in slots, SlotEnds(s)
      PROVE  Counts'
  <2>0. sig[s] \in Signatures \cup {None}
    BY DEF Flags
  <2>1. CASE GateProceeds(s)
    <3>1. streak' \in [sig: Signatures \cup {None}, n: 0..Threshold]
      BY <2>0, <2>1, StartedType DEF GateProceeds
    <3>2. count' = 0 /\ previous' = None /\ edges' = edges
      BY <2>1 DEF GateProceeds, ResetRepetition
    <3> QED
      BY <1>0, <3>1, <3>2 DEF Counts
  <2>2. CASE GateFails(s)
    <3>1. streak' = streak \/ streak' = Started(sig[s], TRUE)
      BY <2>2 DEF GateFails
    <3>2. streak' \in [sig: Signatures \cup {None}, n: 0..Threshold]
      BY <2>0, <3>1, StartedType DEF Counts
    <3>3. edges' = edges \/ edges' = edges + 1
      BY <2>2 DEF GateFails, Effect, BlockSet
    <3>4. UNCHANGED <<count, previous>>
      BY <2>2 DEF GateFails
    <3> QED
      BY <3>2, <3>3, <3>4 DEF Counts
  <2>3. CASE GateDenies(s) \/ AskEnds(s) \/ AskRejected(s) \/ ToolDone(s)
    BY <2>3 DEF GateDenies, AskEnds, AskRejected, ToolDone, Counts, herdrVars, taskVars
  <2> QED
    BY <1>5, <2>1, <2>2, <2>3 DEF SlotEnds, GateAnswers
<1>6. ASSUME NEW m \in manuals,
             ManualAsked(m) \/ ManualGivenUp(m) \/ ManualSubmitted(m) \/ ManualEnds(m)
      PROVE  Counts'
  BY <1>6 DEF ManualAsked, ManualGivenUp, ManualSubmitted, ManualEnds, ManualDelivers,
              ManualSilent, Counts, herdrVars, taskVars
<1>7. CASE SessionStart
  <2>1. count' = 0 /\ previous' = None /\ streak' = [sig |-> None, n |-> 0]
    BY <1>7 DEF SessionStart, ResetRepetition, NoStreak
  <2>2. edges' = edges \/ edges' = edges - 1
    BY <1>7 DEF SessionStart, BlockClear
  <2> QED
    BY <1>0, <2>1, <2>2 DEF Counts
<1>8. CASE SessionShutdown
  <2>1. UNCHANGED <<count, previous, streak>>
    BY <1>8 DEF SessionShutdown, taskVars
  <2>2. edges' = edges \/ edges' = edges - 1
    BY <1>8 DEF SessionShutdown, BlockClear
  <2> QED
    BY <2>1, <2>2 DEF Counts
<1>9. CASE FlowToggle \/ HerdrToggle \/ UNCHANGED piVars
  BY <1>9 DEF FlowToggle, HerdrToggle, piVars, Counts, herdrVars, taskVars
<1> QED
  BY <1>1, <1>2, <1>3, <1>4, <1>5, <1>6, <1>7, <1>8, <1>9 DEF PiNext

TypeInv == Shape /\ HerdrCount /\ Fields /\ Ledger

LEMMA TypeInvInit == PiInit => TypeInv
<1> SUFFICES ASSUME PiInit PROVE TypeInv
  OBVIOUS
<1>1. Shape
  BY ShapeInit
<1>2. InFlight = {} /\ Cardinality(InFlight) = 0
  BY <1>1, InFlightFinite DEF PiInit, InFlight
<1>3. HerdrCount
  <2>1. activity = 0 /\ label = FALSE /\ disturbed = FALSE /\ herdrOn \in BOOLEAN
    BY DEF PiInit
  <2>2. activity \in 0..Cardinality(InFlight) /\ ~(activity > 0)
    BY <1>2, <2>1
  <2> QED
    BY <2>1, <2>2, Zenon DEF HerdrCount
<1>4. Flags
  BY DEF PiInit, Flags
<1>5. Counts
  BY PiSessionAssumption DEF PiInit, Counts, NoStreak
<1> QED
  BY <1>1, <1>3, <1>4, <1>5 DEF PiInit, TypeInv, Fields, Ledger

LEMMA TypeInvHolds == PiSpec => []TypeInv
<1>1. TypeInv /\ [PiNext]_piVars => TypeInv'
  BY ShapeStep, HerdrCountStep, FlagsStep, CountsStep, LedgerStep DEF TypeInv, Fields
<1> QED
  BY TypeInvInit, <1>1, PTL DEF PiSpec

(***************************************************************************)
(* Every variable of a Pi session stays in its type; Herdr never counts    *)
(* more consultations than are in flight.                                  *)
(***************************************************************************)
THEOREM PiTypeCorrect == PiSpec => []PiTypeOK
<1>1. TypeInv => PiTypeOK
  BY TypeParts DEF TypeInv
<1> QED
  BY TypeInvHolds, <1>1, PTL

-----------------------------------------------------------------------------
(* The limit *)

(***************************************************************************)
(* The call limit is exact with any number of gates, ask_advisor calls and *)
(* manual consultations in parallel: a call is consumed before the await,  *)
(* so what a session has in flight is within what it has consumed, and     *)
(* that within advisorMaxCallsPerSession.                                  *)
(***************************************************************************)
THEOREM LimitIsExactHolds == PiSpec => []LimitIsExact
<1>1. PiInit => LimitIsExact
  <2> SUFFICES ASSUME PiInit PROVE LimitIsExact
    OBVIOUS
  <2>1. config.limit \in Nat \cup {None}
    BY PiSessionAssumption DEF PiInit, Config
  <2> QED
    BY <2>1, FS_EmptySet DEF PiInit, LimitIsExact
<1>2. TypeInv /\ LimitIsExact /\ [PiNext]_piVars => LimitIsExact'
  <2> SUFFICES ASSUME TypeInv, LimitIsExact, [PiNext]_piVars,
                      config.limit # None, ~config.simple
               PROVE  Cardinality(current') <= consumed' /\ consumed' <= config.limit
    BY ShapeStep DEF LimitIsExact, TypeInv
  <2>1. config.limit \in Nat /\ consumed \in Nat
    BY PiSessionAssumption DEF TypeInv, Fields, Flags, Ledger, Config
  <2>2. IsFiniteSet(current) /\ Cardinality(current) \in Nat
    BY CallersFinite, FS_Subset, FS_CardinalityType DEF TypeInv, Ledger
  <2>3. Cardinality(current) <= consumed /\ consumed <= config.limit
    BY DEF LimitIsExact
  <2>4. ASSUME NEW c \in callers, Begins(c)
        PROVE  Cardinality(current') <= consumed' /\ consumed' <= config.limit
    <3>0. Cardinality(current') = IF c \in current THEN Cardinality(current)
                                  ELSE Cardinality(current) + 1
      BY <2>2, <2>4, FS_AddElement DEF Begins
    <3>1. Cardinality(current') <= Cardinality(current) + 1
      BY <2>2, <3>0
    <3>2. consumed < config.limit /\ consumed' = consumed + 1
      BY <2>4 DEF Begins, MayConsult, CanConsult, Consume
    <3>3. Cardinality(current') \in Nat
      BY <2>2, <2>4, FS_AddElement, FS_CardinalityType DEF Begins
    <3> QED
      BY <2>1, <2>2, <2>3, <3>1, <3>2, <3>3
  <2>5. ASSUME NEW c \in callers, IsOver(c)
        PROVE  Cardinality(current') <= consumed' /\ consumed' <= config.limit
    <3>0. current' = current \ {c}
      BY <2>5 DEF IsOver
    <3>1. Cardinality(current') <= Cardinality(current) /\ Cardinality(current') \in Nat
      BY <2>2, <3>0, FS_Subset, FS_CardinalityType
    <3> QED
      BY <2>1, <2>2, <2>3, <2>5, <3>1 DEF IsOver
  <2>6. CASE Keeps
    BY <2>1, <2>2, <2>3, <2>6, FS_EmptySet DEF Keeps
  <2> QED
    BY <2>4, <2>5, <2>6, StepKinds DEF TypeInv
<1> QED
  BY TypeInvHolds, <1>1, <1>2, PTL DEF PiSpec

-----------------------------------------------------------------------------
(* Herdr *)

\* While nothing disturbs it, the count is the number of consultations in flight.
CountIsExact == ~disturbed => activity = IF herdrOn THEN Cardinality(InFlight) ELSE 0

LEMMA CountIsExactStep ==
  ASSUME TypeInv, CountIsExact, [PiNext]_piVars
  PROVE  CountIsExact'
<1>1. /\ IsFiniteSet(InFlight) /\ Cardinality(InFlight) \in Nat
      /\ (Cardinality(InFlight) = 0 <=> InFlight = {})
      /\ activity \in 0..Cardinality(InFlight)
  BY InFlightFinite DEF TypeInv, HerdrCount
<1>2. ASSUME NEW c \in callers, Begins(c)
      PROVE  CountIsExact'
  <2>1. Cardinality(InFlight') = Cardinality(InFlight) + 1
    BY <1>1, <1>2, FS_AddElement DEF Begins
  <2>2. UNCHANGED <<herdrOn, disturbed>> /\ activity' = IF herdrOn THEN activity + 1 ELSE activity
    BY <1>2 DEF Begins, ActivityStart
  <2> QED
    BY <2>1, <2>2 DEF CountIsExact
<1>3. ASSUME NEW c \in callers, IsOver(c)
      PROVE  CountIsExact'
  <2>1. Cardinality(InFlight') = Cardinality(InFlight) - 1 /\ Cardinality(InFlight) # 0
    BY <1>1, <1>3, FS_RemoveElement DEF IsOver
  <2>2. herdrOn' = herdrOn /\ activity' = IF activity > 0 THEN activity - 1 ELSE 0
    BY <1>3 DEF IsOver, ActivityFinish
  <2>3. CASE InFlight = {c}
    <3>1. Cardinality(InFlight) = 1
      BY <2>3, FS_Singleton
    <3> QED
      BY <1>1, <2>1, <2>2, <3>1 DEF CountIsExact
  <2>4. CASE InFlight # {c} /\ ~disturbed
    BY <1>1, <2>1, <2>2, <2>4 DEF CountIsExact
  <2>5. CASE InFlight # {c} /\ disturbed
    BY <1>3, <2>5 DEF CountIsExact, IsOver, ActivityFinish
  <2> QED
    BY <2>3, <2>4, <2>5
<1>4. CASE Keeps
  <2>1. Cardinality(InFlight') = Cardinality(InFlight)
    BY <1>4 DEF Keeps
  <2>2. CASE UNCHANGED <<herdrOn, activity, disturbed>>
    BY <2>1, <2>2 DEF CountIsExact
  <2>3. CASE disturbed' = (InFlight # {}) /\ (activity' = 0 \/ activity' = activity)
    <3>1. CASE InFlight = {}
      <4>1. Cardinality(InFlight) = 0 /\ activity = 0
        BY <1>1, <3>1
      <4> QED
        BY <2>1, <2>3, <4>1 DEF CountIsExact
    <3>2. CASE InFlight # {}
      BY <2>3, <3>2 DEF CountIsExact
    <3> QED
      BY <3>1, <3>2
  <2> QED
    BY <1>4, <2>2, <2>3 DEF Keeps
<1> QED
  BY <1>2, <1>3, <1>4, StepKinds DEF TypeInv

\* The listener of the blocked edges.
Edges == (edges = IF reported THEN 1 ELSE 0) /\ (reported => blocked)

LEMMA EdgesStep ==
  ASSUME Shape, Edges, [PiNext]_piVars
  PROVE  Edges'
<1>1. ASSUME NEW s \in slots, NEW g \in Signatures, ToolRuns(s, g) \/ GateBegin(s, g)
      PROVE  Edges'
  BY <1>1 DEF ToolRuns, GateBegin, Consults, Edges, herdrVars
<1>2. ASSUME NEW outcome, Effect(outcome)
      PROVE  Edges'
  BY <1>2 DEF Effect, BlockSet, Edges
<1>3. ASSUME NEW s \in slots, NEW g \in Signatures, GateExhausted(s, g)
      PROVE  Edges'
  BY <1>2, <1>3 DEF GateExhausted
<1>4. ASSUME NEW s \in slots, AskBegin(s) \/ AskConsults(s)
      PROVE  Edges'
  BY <1>4 DEF AskBegin, AskConsults, Consults, Edges, herdrVars, taskVars
<1>5. ASSUME NEW s \in slots, GateFails(s)
      PROVE  Edges'
  BY <1>2, <1>5 DEF GateFails
<1>6. ASSUME NEW s \in slots,
             GateProceeds(s) \/ GateDenies(s) \/ AskEnds(s) \/ AskRejected(s) \/ ToolDone(s)
      PROVE  Edges'
  <2>1. UNCHANGED <<reported, edges, blocked>>
    BY <1>6 DEF GateProceeds, GateDenies, AskEnds, AskRejected, ToolDone, herdrVars, taskVars
  <2> QED
    BY <2>1 DEF Edges
<1>7. ASSUME NEW m \in manuals,
             ManualAsked(m) \/ ManualGivenUp(m) \/ ManualSubmitted(m) \/ ManualEnds(m)
      PROVE  Edges'
  BY <1>7 DEF ManualAsked, ManualGivenUp, ManualSubmitted, ManualEnds, ManualDelivers,
              ManualSilent, Edges, herdrVars, taskVars
<1>8. CASE SessionStart \/ SessionShutdown
  BY <1>8 DEF SessionStart, SessionShutdown, BlockClear, Edges
<1>9. CASE FlowToggle \/ HerdrToggle \/ UNCHANGED piVars
  BY <1>9 DEF FlowToggle, HerdrToggle, piVars, Edges, herdrVars, taskVars
<1> QED
  BY <1>1, <1>3, <1>4, <1>5, <1>6, <1>7, <1>8, <1>9 DEF PiNext, SlotEnds, GateAnswers

(***************************************************************************)
(* What Herdr shows is the case: the label is never left behind, is there  *)
(* exactly while a consultation is in flight unless the integration was    *)
(* switched or the session closed during one, and blocked edges are        *)
(* emitted and cleared in turn.                                            *)
(***************************************************************************)
THEOREM HerdrIsHonestHolds == PiSpec => []HerdrIsHonest
<1> DEFINE Inv == TypeInv /\ CountIsExact /\ Edges
<1>1. PiInit => Inv
  <2> SUFFICES ASSUME PiInit PROVE Inv
    OBVIOUS
  <2>1. Cardinality(InFlight) = 0
    BY ShapeInit, InFlightFinite DEF PiInit, InFlight
  <2> QED
    BY <2>1, TypeInvInit DEF PiInit, CountIsExact, Edges
<1>2. Inv /\ [PiNext]_piVars => Inv'
  BY ShapeStep, HerdrCountStep, FlagsStep, CountsStep, LedgerStep, CountIsExactStep, EdgesStep
     DEF TypeInv, Fields
<1>3. Inv => HerdrIsHonest
  <2> SUFFICES ASSUME Inv PROVE HerdrIsHonest
    OBVIOUS
  <2>1. /\ Cardinality(InFlight) \in Nat /\ activity \in 0..Cardinality(InFlight)
        /\ (Cardinality(InFlight) = 0 <=> InFlight = {}) /\ (label <=> activity > 0)
        /\ label \in BOOLEAN /\ herdrOn \in BOOLEAN
    BY InFlightFinite DEF TypeInv, HerdrCount
  <2>2. InFlight = {} => ~label
    BY <2>1
  <2>3. ASSUME ~disturbed PROVE label <=> (herdrOn /\ InFlight # {})
    <3>1. CASE herdrOn
      BY <2>1, <2>3, <3>1 DEF CountIsExact
    <3>2. CASE ~herdrOn
      BY <2>1, <2>3, <3>2 DEF CountIsExact
    <3> QED
      BY <3>1, <3>2
  <2>4. ~disturbed => label = (herdrOn /\ InFlight # {})
    BY <2>1, <2>3
  <2> QED
    BY <2>2, <2>4 DEF HerdrIsHonest, Edges
<1> QED
  BY <1>1, <1>2, <1>3, PTL DEF PiSpec

-----------------------------------------------------------------------------
(* Manual consultations *)

\* Only the newest manual consultation streams, and only in an open session.
NewestStreams ==
    \A m \in manuals :
        /\ pc[m] = "streaming" => m = newest /\ open
        /\ pc[m] = "dialog" => open

\* A step by which no manual consultation moves leaves it as it was.
LEMMA ManualsRest ==
  ASSUME Shape, NewestStreams, UNCHANGED <<callers, newest>>, open => open',
         \A m \in manuals : pc'[m] = pc[m] \/ pc'[m] \in {"idle", "aborted"}
  PROVE  NewestStreams'
BY DEF NewestStreams, manuals

LEMMA NewestStreamsStep ==
  ASSUME Shape, NewestStreams, [PiNext]_piVars
  PROVE  /\ NewestStreams'
         /\ \A m \in manuals : (pc[m] = "streaming" /\ pc'[m] = "idle") => m = newest /\ open
<1> USE DEF Shape
<1>0. UNCHANGED callers /\ slots \cap manuals = {} /\ slots \subseteq callers
      /\ manuals \subseteq callers
  BY ShapeStep, PiSessionAssumption DEF slots, manuals
<1>a. \A m \in manuals : pc[m] = "streaming" => m = newest /\ open
  BY DEF NewestStreams
<1> SUFFICES NewestStreams'
  BY <1>a
<1>b. ASSUME NEW s \in slots, NEW state, Goes(s, state), UNCHANGED <<newest, open>>
      PROVE  NewestStreams'
  <2>1. \A m \in manuals : pc'[m] = pc[m]
    BY <1>0, <1>b DEF Goes
  <2> QED
    BY <1>0, <1>b, <2>1, ManualsRest
<1>1. ASSUME NEW s \in slots, NEW g \in Signatures,
             ToolRuns(s, g) \/ GateBegin(s, g) \/ GateExhausted(s, g)
      PROVE  NewestStreams'
  BY <1>1, <1>b DEF ToolRuns, GateBegin, Consults, GateExhausted
<1>2. ASSUME NEW s \in slots, AskBegin(s) \/ AskConsults(s)
      PROVE  NewestStreams'
  BY <1>2, <1>b DEF AskBegin, AskConsults, Consults
<1>3. ASSUME NEW s \in slots, SlotEnds(s)
      PROVE  NewestStreams'
  BY <1>3, <1>b DEF SlotEnds, GateAnswers, GateProceeds, GateDenies, GateFails, AskEnds,
                    AskRejected, ToolDone, Ends
<1>4. ASSUME NEW m \in manuals, ManualAsked(m)
      PROVE  NewestStreams'
  BY <1>0, <1>4 DEF ManualAsked, Goes, NewestStreams, manuals
<1>5. ASSUME NEW m \in manuals, ManualGivenUp(m) \/ ManualEnds(m)
      PROVE  NewestStreams'
  <2>1. Goes(m, "idle") /\ UNCHANGED <<newest, open>>
    BY <1>5 DEF ManualGivenUp, ManualEnds, ManualDelivers, ManualSilent, Ends
  <2>2. \A n \in manuals : pc'[n] = pc[n] \/ pc'[n] = "idle"
    BY <1>0, <2>1 DEF Goes
  <2> QED
    BY <1>0, <2>1, <2>2, ManualsRest
<1>6. ASSUME NEW m \in manuals, ManualSubmitted(m)
      PROVE  NewestStreams'
  <2>1. open /\ newest' = m /\ open' = open
    BY <1>6 DEF ManualSubmitted, NewestStreams
  <2>2. \A n \in manuals : pc'[n] = "streaming" => n = m
    BY <1>0, <1>6 DEF ManualSubmitted
  <2>3. manuals' = manuals
    BY <1>0 DEF manuals
  <2> QED
    BY <2>1, <2>2, <2>3 DEF NewestStreams
<1>7. CASE SessionStart
  BY <1>0, <1>7, ManualsRest DEF SessionStart
<1>8. CASE SessionShutdown
  <2>1. ASSUME NEW m \in manuals PROVE pc'[m] \notin {"streaming", "dialog"}
    <3>1. CASE pc[m] = "streaming"
      BY <1>0, <1>8, <3>1 DEF SessionShutdown
    <3>2. CASE pc[m] = "dialog"
      BY <1>0, <1>8, <3>2 DEF SessionShutdown
    <3>3. CASE pc[m] \notin {"streaming", "dialog"}
      BY <1>0, <1>8, <3>3 DEF SessionShutdown
    <3> QED
      BY <3>1, <3>2, <3>3
  <2>2. manuals' = manuals
    BY <1>0 DEF manuals
  <2> QED
    BY <2>1, <2>2 DEF NewestStreams
<1>9. CASE FlowToggle \/ HerdrToggle \/ UNCHANGED piVars
  BY <1>0, <1>9, ManualsRest DEF FlowToggle, HerdrToggle, piVars
<1> QED
  BY <1>1, <1>2, <1>3, <1>4, <1>5, <1>6, <1>7, <1>8, <1>9 DEF PiNext

(***************************************************************************)
(* A manual consultation that a newer one replaced, or whose session is    *)
(* closed, never delivers, however many run and in whatever order they     *)
(* end.                                                                    *)
(***************************************************************************)
THEOREM SupersededStaysSilent == PiSpec => SupersededIsSilent
<1> DEFINE Inv == Shape /\ NewestStreams
           Silent == \A m \in manuals :
                        (pc[m] = "streaming" /\ pc'[m] = "idle") => m = newest /\ open
<1>1. PiInit => Inv
  BY ShapeInit DEF PiInit, NewestStreams, manuals
<1>2. Inv /\ [PiNext]_piVars => Inv' /\ Silent
  BY ShapeStep, NewestStreamsStep
<1>3. Inv /\ [PiNext]_piVars => [Silent]_piVars
  BY <1>2
<1> QED
  BY <1>1, <1>2, <1>3, PTL DEF PiSpec, SupersededIsSilent

-----------------------------------------------------------------------------
(* The loop gate *)

\* The repetition counter is never behind the history it gates on.
CountCovers ==
    (Sequential /\ ~config.simple) =>
        /\ streak.n < Threshold
        /\ streak.n > 0 => previous = streak.sig /\ count >= streak.n

LEMMA CountCoversStep ==
  ASSUME TypeInv, CountCovers, [PiNext]_piVars
  PROVE  CountCovers'
<1>0. UNCHANGED <<config, callers, slots>>
  BY ShapeStep DEF TypeInv, slots
<1> SUFFICES ASSUME Sequential, ~config.simple
             PROVE  /\ streak'.n < Threshold
                    /\ streak'.n > 0 => previous' = streak'.sig /\ count' >= streak'.n
  BY <1>0 DEF CountCovers, Sequential
<1>a. /\ Threshold \in Nat /\ Threshold > 1
      /\ count \in 0..Threshold
      /\ streak.n \in 0..Threshold
      /\ streak.n < Threshold
      /\ streak.n > 0 => previous = streak.sig /\ count >= streak.n
  BY PiSessionAssumption DEF CountCovers, TypeInv, Fields, Counts
\* A refused or answered gate and a new session start the history anew.
<1>b. ASSUME streak'.n = 0
      PROVE  /\ streak'.n < Threshold
             /\ streak'.n > 0 => previous' = streak'.sig /\ count' >= streak'.n
  BY <1>a, <1>b
<1>c. ASSUME UNCHANGED <<streak, count, previous>>
      PROVE  /\ streak'.n < Threshold
             /\ streak'.n > 0 => previous' = streak'.sig /\ count' >= streak'.n
  BY <1>a, <1>c
<1>d. \A g : Started(g, TRUE).n = 0
  BY DEF Started, NoStreak
<1>1. ASSUME NEW s \in slots, NEW g \in Signatures, ToolRuns(s, g)
      PROVE  /\ streak'.n < Threshold
             /\ streak'.n > 0 => previous' = streak'.sig /\ count' >= streak'.n
  <2>1. CASE ~flow
    <3>1. streak' = Started(g, TRUE)
      BY <1>1, <2>1 DEF ToolRuns, Started
    <3> QED
      BY <1>b, <1>d, <3>1
  <2>2. CASE flow
    <3>1. count' = CountOf(g) /\ previous' = g /\ CountOf(g) < Threshold
      BY <1>1, <2>2 DEF ToolRuns
    <3>2. streak' = [sig |-> g, n |-> IF g # streak.sig THEN 1
                                      ELSE IF streak.n < Threshold THEN streak.n + 1
                                      ELSE streak.n]
      BY <1>1, <2>2 DEF ToolRuns, Started
    <3>3. CountOf(g) \in 1..Threshold
      BY CountOfType DEF TypeInv, Fields
    <3>4. CASE g = streak.sig /\ streak.n > 0
      <4>1. g = previous /\ count >= streak.n
        BY <1>a, <3>4
      <4>2. CountOf(g) = count + 1
        BY <1>a, <3>1, <4>1 DEF CountOf
      <4>3. streak'.n = streak.n + 1 /\ streak'.sig = g
        BY <1>a, <3>2, <3>4
      <4> QED
        BY <1>a, <3>1, <4>1, <4>2, <4>3
    <3>5. CASE g # streak.sig \/ streak.n = 0
      <4>1. streak'.n = 1 /\ streak'.sig = g
        BY <1>a, <3>2, <3>5
      <4> QED
        BY <1>a, <3>1, <3>3, <4>1
    <3> QED
      BY <1>a, <3>4, <3>5
  <2> QED
    BY <2>1, <2>2
\* At the threshold the signature is the one before, so the count only grows.
<1>2. ASSUME NEW s \in slots, NEW g \in Signatures, GateBegin(s, g)
      PROVE  /\ streak'.n < Threshold
             /\ streak'.n > 0 => previous' = streak'.sig /\ count' >= streak'.n
  <2>1. CountOf(g) >= Threshold /\ count' = CountOf(g) /\ previous' = g /\ streak' = streak
    BY <1>2 DEF GateBegin, Repeats
  <2>2. g = previous /\ CountOf(g) >= count
    BY <1>a, <2>1 DEF CountOf
  <2>3. CountOf(g) \in 1..Threshold
    BY CountOfType DEF TypeInv, Fields
  <2> QED
    BY <1>a, <2>1, <2>2, <2>3
<1>3. ASSUME NEW s \in slots, NEW g \in Signatures, GateExhausted(s, g)
      PROVE  /\ streak'.n < Threshold
             /\ streak'.n > 0 => previous' = streak'.sig /\ count' >= streak'.n
  BY <1>3, <1>b, <1>d DEF GateExhausted
<1>4. ASSUME NEW s \in slots, AskBegin(s) \/ AskConsults(s)
      PROVE  UNCHANGED <<streak, count, previous>>
  BY <1>4 DEF AskBegin, AskConsults, Consults, taskVars
<1>5. ASSUME NEW s \in slots, SlotEnds(s)
      PROVE  streak'.n = 0 \/ UNCHANGED <<streak, count, previous>>
  <2>1. CASE GateProceeds(s)
    BY <2>1, <1>d DEF GateProceeds
  <2>2. CASE GateFails(s)
    BY <2>2, <1>d DEF GateFails
  <2>3. CASE GateDenies(s) \/ AskEnds(s) \/ AskRejected(s) \/ ToolDone(s)
    BY <2>3 DEF GateDenies, AskEnds, AskRejected, ToolDone, taskVars
  <2> QED
    BY <1>5, <2>1, <2>2, <2>3 DEF SlotEnds, GateAnswers
<1>6. ASSUME NEW m \in manuals,
             ManualAsked(m) \/ ManualGivenUp(m) \/ ManualSubmitted(m) \/ ManualEnds(m)
      PROVE  UNCHANGED <<streak, count, previous>>
  BY <1>6 DEF ManualAsked, ManualGivenUp, ManualSubmitted, ManualEnds, ManualDelivers,
              ManualSilent, taskVars
<1>7. CASE SessionStart
  BY <1>7, <1>b DEF SessionStart, NoStreak
<1>8. CASE SessionShutdown \/ FlowToggle \/ HerdrToggle \/ UNCHANGED piVars
  BY <1>8, <1>c DEF SessionShutdown, FlowToggle, HerdrToggle, piVars, taskVars
<1> QED
  BY <1>b, <1>c, <1>1, <1>2, <1>3, <1>4, <1>5, <1>6, <1>7, <1>8 DEF PiNext

(***************************************************************************)
(* Without parallel calls no tool call starts Threshold times in a row     *)
(* unless the Advisor was consulted about it or the limit refused that,    *)
(* whatever else the session does in between.                              *)
(***************************************************************************)
THEOREM RepeatsAreGatedHolds == PiSpec => []RepeatsAreGated
<1> DEFINE Inv == TypeInv /\ CountCovers
<1>1. PiInit => Inv
  BY TypeInvInit, PiSessionAssumption DEF PiInit, CountCovers, NoStreak
<1>2. Inv /\ [PiNext]_piVars => Inv'
  BY ShapeStep, HerdrCountStep, FlagsStep, CountsStep, LedgerStep, CountCoversStep
     DEF TypeInv, Fields
<1>3. Inv => RepeatsAreGated
  BY DEF CountCovers, RepeatsAreGated
<1> QED
  BY <1>1, <1>2, <1>3, PTL DEF PiSpec
=============================================================================
