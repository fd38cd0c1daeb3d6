---------------------------- MODULE Parts_proofs ----------------------------
(***************************************************************************)
(* The components of the Pi extension and of the benchmark that MCParts    *)
(* checks together, each proved for every value of its constants:          *)
(*                                                                         *)
(*   scouts           one verdict each, and what the status line shows     *)
(*   the campaign     what is leased, held and spent fits the cap          *)
(*   partial answers  are coalesced, in order and Interval apart           *)
(*   the gate         never opens without a decision that counts           *)
(*   configuration    what is saved was chosen                             *)
(*   Scout's context  keeps exchanges whole and the required ones in       *)
(*   disclosure       what is selected of a session keeps every limit      *)
(*   the verdict      is what the benchmark's pool of runs shows           *)
(*                                                                         *)
(* and, with OutcomeLog_proofs, the types of all of them together.         *)
(***************************************************************************)
EXTENDS MCParts, OutcomeLog_proofs, Totals_proofs

-----------------------------------------------------------------------------
(* Scouts: what decides one and what the status line shows of it, for any   *)
(* number of scouts over any number of sessions                            *)

Phases == Unsettled \cup {"idle", "ended", "released"}

ScoutTypes ==
    /\ scout \in [Scouts -> Phases]
    /\ cancelled \subseteq Scouts /\ timedOut \subseteq Scouts /\ older \subseteq Scouts
    /\ settled \in [Scouts -> Answers \cup {NoScout, "failure", "abort"}]
    /\ verdict \in [Scouts -> Verdicts \cup {NoScout}]
    /\ terminal \in [Scouts -> Nat]

\* What holds of a scout before its end and what may decide it.
Decided(s) ==
    /\ scout[s] = "idle" => s \notin cancelled
    /\ scout[s] \in Unsettled \cup {"idle"} => verdict[s] = NoScout
    /\ settled[s] = "abort" => s \in timedOut \cup cancelled
    /\ terminal[s] > 0 => scout[s] \in {"ended", "released"}
    /\ s \in cancelled /\ verdict[s] # NoScout => verdict[s] = "cancelled"
    /\ verdict[s] = "cancelled" => s \in cancelled
    /\ verdict[s] = "timeout" => s \in timedOut

VerdictInv == ScoutTypes /\ ~late /\ \A s \in Scouts : Decided(s)

\* Every step but the end of a session is about one scout.
ScoutMoves(s) ==
    \/ BeginScout(s) \/ Resolve(s) \/ Chunk(s) \/ TimerFires(s) \/ ParentAborts(s)
    \/ Resume(s) \/ Release(s)
    \/ \E said \in Answers \cup {"failure"} : ScoutAnswered(s, said)

LEMMA EndKeepsVerdictInv ==
  ASSUME VerdictInv, NEW s \in Scouts, NEW v \in Verdicts, EndScout(s, v),
         scout[s] \in Unsettled \cup {"idle"},
         (s \in cancelled) = (v = "cancelled"), v = "timeout" => s \in timedOut
  PROVE  VerdictInv'
<1> USE ScoutRunAssumption DEF VerdictInv
<1>1. UNCHANGED <<cancelled, timedOut, settled, older, late>>
  BY DEF EndScout
<1>2. ScoutTypes'
  BY DEF ScoutTypes, EndScout, Phase, Phases
<1>3. Decided(s)'
  BY <1>1 DEF Decided, ScoutTypes, EndScout, Phase, Unsettled
<1>4. ASSUME NEW t \in Scouts \ {s} PROVE Decided(t)'
  <2>1. scout'[t] = scout[t] /\ verdict'[t] = verdict[t] /\ terminal'[t] = terminal[t]
    BY DEF ScoutTypes, EndScout, Phase
  <2> QED
    BY <1>1, <2>1 DEF Decided
<1> QED
  BY <1>1, <1>2, <1>3, <1>4

LEMMA MoveKeepsVerdictInv ==
  ASSUME VerdictInv, NEW s \in Scouts, ScoutMoves(s)
  PROVE  VerdictInv'
<1> USE ScoutRunAssumption DEF VerdictInv
<1>1. ASSUME scout'[s] \in Phases, scout' = [scout EXCEPT ![s] = scout'[s]],
             verdict' = [verdict EXCEPT ![s] = verdict'[s]], verdict'[s] \in Verdicts \cup {NoScout},
             cancelled' \in {cancelled, cancelled \cup {s}},
             timedOut' \in {timedOut, timedOut \cup {s}},
             settled' = [settled EXCEPT ![s] = settled'[s]],
             settled'[s] \in Answers \cup {NoScout, "failure", "abort"},
             UNCHANGED <<older, terminal, late>>, Decided(s)'
      PROVE  VerdictInv'
  <2>1. ScoutTypes'
    BY <1>1 DEF ScoutTypes
  <2>2. ASSUME NEW t \in Scouts \ {s} PROVE Decided(t)'
    <3>1. scout'[t] = scout[t] /\ verdict'[t] = verdict[t] /\ settled'[t] = settled[t]
      BY <1>1 DEF ScoutTypes
    <3>2. (t \in cancelled' <=> t \in cancelled) /\ (t \in timedOut' <=> t \in timedOut)
      BY <1>1
    <3> QED
      BY <1>1, <3>1, <3>2 DEF Decided
  <2> QED
    BY <1>1, <2>1, <2>2
<1>2. scout[s] \in Phases /\ settled[s] \in Answers \cup {NoScout, "failure", "abort"}
      /\ verdict[s] \in Verdicts \cup {NoScout}
      /\ scout = [scout EXCEPT ![s] = scout[s]]
      /\ verdict = [verdict EXCEPT ![s] = verdict[s]]
      /\ settled = [settled EXCEPT ![s] = settled[s]]
  BY DEF ScoutTypes
<1>3. ASSUME NEW reason \in {"required-group-overflow", "invalid-protocol"}, BeginScout(s),
             EndScout(s, reason)
      PROVE  VerdictInv'
  <2>1. scout[s] = "idle" /\ s \notin cancelled
    BY <1>3 DEF BeginScout, Decided
  <2> QED
    BY <1>3, <2>1, EndKeepsVerdictInv DEF Verdicts, Fallbacks
<1>4. CASE BeginScout(s) /\ UNCHANGED <<cancelled, timedOut, settled, older, terminal, late>>
  <2>1. scout[s] = "idle"
        /\ \/ Phase(s, "resolving") /\ verdict' = verdict
           \/ Phase(s, "ended") /\ verdict' = [verdict EXCEPT ![s] = "empty"]
    <3>1. ~ \E v : EndScout(s, v)
      <4>1. ASSUME NEW v, EndScout(s, v) PROVE FALSE
        BY <1>4, <4>1 DEF EndScout, ScoutTypes
      <4> QED
        BY <4>1
    <3> QED
      BY <1>4, <3>1 DEF BeginScout, runVars
  <2>2. Decided(s)'
    BY <1>4, <2>1 DEF Decided, ScoutTypes, Phase, Unsettled
  <2>3. scout'[s] \in {"resolving", "ended"} /\ scout' = [scout EXCEPT ![s] = scout'[s]]
        /\ verdict'[s] \in Verdicts \cup {NoScout} /\ verdict' = [verdict EXCEPT ![s] = verdict'[s]]
    BY <1>2, <2>1 DEF ScoutTypes, Phase, Verdicts
  <2> QED
    BY <1>1, <1>2, <1>4, <2>2, <2>3 DEF Phases, Unsettled
<1>5. CASE Resolve(s)
  <2>1. CASE \E reason \in Fallbacks : ResolveFails(s, reason)
    <3>1. PICK reason \in {"missing-model", "auth-error", "provider-error"} :
              EndScout(s, IF Gone(s) THEN "cancelled" ELSE reason)
      BY <2>1 DEF ResolveFails
    <3>2. scout[s] \in Unsettled
      BY <2>1 DEF ResolveFails, Unsettled
    <3> QED
      BY <3>1, <3>2, EndKeepsVerdictInv DEF Gone, Verdicts, Fallbacks
  <2>2. CASE Resolved(s) /\ Gone(s)
    BY <2>2, EndKeepsVerdictInv DEF Resolved, Gone, Verdicts, Unsettled
  <2>3. CASE Resolved(s) /\ ~Gone(s)
    <3>1. scout' = [scout EXCEPT ![s] = "collecting"] /\ UNCHANGED runVars /\ scout[s] = "resolving"
      BY <2>3 DEF Resolved, Phase
    <3>2. Decided(s)'
      BY <3>1 DEF Decided, ScoutTypes, Unsettled, runVars
    <3> QED
      BY <1>1, <1>2, <3>1, <3>2 DEF ScoutTypes, Phases, Unsettled, runVars
  <2> QED
    BY <1>5, <2>1, <2>2, <2>3 DEF Resolve
<1>6. CASE Chunk(s)
  <2>1. ~(terminal[s] > 0) /\ s \notin cancelled
    BY <1>6 DEF Chunk, Aborted, Decided
  <2>2. ~late'
    BY <1>6, <2>1 DEF Chunk
  <2> QED
    BY <1>6, <2>2 DEF Chunk, Decided, ScoutTypes
<1>7. CASE TimerFires(s)
  <2>1. settled'[s] \in {settled[s], "abort"} /\ settled' = [settled EXCEPT ![s] = settled'[s]]
    BY <1>2, <1>7 DEF TimerFires, ScoutTypes
  <2>2. Decided(s)'
    BY <1>7, <2>1 DEF TimerFires, Decided
  <2> QED
    BY <1>1, <1>2, <1>7, <2>1, <2>2 DEF TimerFires
<1>8. CASE ParentAborts(s)
  <2>1. settled'[s] \in {settled[s], "abort"} /\ settled' = [settled EXCEPT ![s] = settled'[s]]
    BY <1>2, <1>8 DEF ParentAborts, ScoutTypes
  <2>2. Decided(s)'
    BY <1>8, <2>1 DEF ParentAborts, Decided, Unsettled
  <2> QED
    BY <1>1, <1>2, <1>8, <2>1, <2>2 DEF ParentAborts
<1>9. ASSUME NEW said \in Answers \cup {"failure"}, ScoutAnswered(s, said)
      PROVE  VerdictInv'
  <2>1. settled'[s] = said /\ settled' = [settled EXCEPT ![s] = settled'[s]]
    BY <1>9 DEF ScoutAnswered, ScoutTypes
  <2>2. Decided(s)'
    BY <1>9, <2>1 DEF ScoutAnswered, Decided, Answers
  <2> QED
    BY <1>1, <1>2, <1>9, <2>1, <2>2 DEF ScoutAnswered
<1>10. CASE Resume(s)
  <2>0. scout[s] \in Unsettled /\ settled[s] # NoScout
    BY <1>10 DEF Resume, Unsettled
  <2>1. CASE Gone(s)
    <3>1. EndScout(s, "cancelled")
      BY <1>10, <2>1 DEF Resume
    <3> QED
      BY <2>0, <2>1, <3>1, EndKeepsVerdictInv DEF Gone, Verdicts
  <2>2. CASE ~Gone(s) /\ settled[s] = "abort"
    <3>1. EndScout(s, "timeout")
      BY <1>10, <2>2 DEF Resume
    <3>2. s \in timedOut
      BY <2>2 DEF Decided, Gone
    <3> QED
      BY <2>0, <2>2, <3>1, <3>2, EndKeepsVerdictInv DEF Gone, Verdicts, Fallbacks
  <2>3. CASE ~Gone(s) /\ settled[s] = "failure"
    <3>1. EndScout(s, IF s \in timedOut THEN "timeout" ELSE "provider-error")
      BY <1>10, <2>3 DEF Resume
    <3> QED
      BY <2>0, <2>3, <3>1, EndKeepsVerdictInv DEF Gone, Verdicts, Fallbacks
  <2>4. CASE ~Gone(s) /\ settled[s] = "blank"
    <3>1. EndScout(s, "empty-response")
      BY <1>10, <2>4 DEF Resume
    <3> QED
      BY <2>0, <2>4, <3>1, EndKeepsVerdictInv DEF Gone, Verdicts, Fallbacks
  <2>5. CASE ~Gone(s) /\ settled[s] = "bad"
    <3>1. EndScout(s, "invalid-selection")
      BY <1>10, <2>5 DEF Resume
    <3> QED
      BY <2>0, <2>5, <3>1, EndKeepsVerdictInv DEF Gone, Verdicts, Fallbacks
  <2>6. CASE ~Gone(s) /\ settled[s] = "good"
    <3>1. EndScout(s, "curated")
      BY <1>10, <2>6 DEF Resume
    <3> QED
      BY <2>0, <2>6, <3>1, EndKeepsVerdictInv DEF Gone, Verdicts, Fallbacks
  <2> QED
    BY <1>2, <2>0, <2>1, <2>2, <2>3, <2>4, <2>5, <2>6 DEF Answers
<1>11. CASE Release(s)
  <2>1. scout' = [scout EXCEPT ![s] = "released"] /\ UNCHANGED runVars /\ scout[s] = "ended"
    BY <1>11 DEF Release, Phase
  <2>2. Decided(s)'
    BY <2>1 DEF Decided, ScoutTypes, Unsettled, runVars
  <2> QED
    BY <1>1, <1>2, <2>1, <2>2 DEF ScoutTypes, Phases, runVars
<1>12. CASE BeginScout(s)
  BY <1>3, <1>4, <1>12 DEF BeginScout, runVars
<1> QED
  BY <1>5, <1>6, <1>7, <1>8, <1>9, <1>10, <1>11, <1>12 DEF ScoutMoves

LEMMA VerdictInvHolds == ScoutSpec => []VerdictInv
<1>1. ScoutInit => VerdictInv
  BY ScoutRunAssumption
     DEF ScoutInit, VerdictInv, ScoutTypes, Decided, Phases, Verdicts, Fallbacks
<1>2. VerdictInv /\ [ScoutNext]_scoutVars => VerdictInv'
  <2> SUFFICES ASSUME VerdictInv, [ScoutNext]_scoutVars PROVE VerdictInv'
    OBVIOUS
  <2>1. CASE SessionEnds
    BY <2>1 DEF SessionEnds, VerdictInv, ScoutTypes, Decided
  <2>2. CASE UNCHANGED scoutVars
    BY <2>2 DEF scoutVars, VerdictInv, ScoutTypes, Decided
  <2> QED
    BY <2>1, <2>2, MoveKeepsVerdictInv DEF ScoutNext, ScoutMoves
<1> QED
  BY <1>1, <1>2, PTL DEF ScoutSpec

(***************************************************************************)
(* Exactly one thing decides a scout, in every order of answer, timer,     *)
(* cancellation and continuation: nothing is published after it, and a     *)
(* cancelled scout never ends as one the Advisor is asked with.            *)
(***************************************************************************)
THEOREM OneVerdictHolds == ScoutSpec => []OneVerdict
<1>1. VerdictInv => OneVerdict
  BY DEF VerdictInv, Decided, OneVerdict
<1> QED
  BY VerdictInvHolds, <1>1, PTL

-----------------------------------------------------------------------------
(* The status line *)

\* Where a scout stands with the manager: known from its beginning, retired with the
\* session it began in or when it is over, whichever comes first.
Registered(s) ==
    /\ scout[s] = "idle" => s \notin known \cup retired \cup older
    /\ scout[s] # "idle" => s \in known \cup retired
    /\ s \in older => s \in retired
    /\ scout[s] \in Unsettled /\ s \in retired => s \in older
    /\ s \in active <=> scout[s] = "collecting" /\ s \notin older

StatusInv ==
    /\ scout \in [Scouts -> Phases]
    /\ active \subseteq Scouts
    /\ scoutStatus = (active # {})
    /\ \A s \in Scouts : Registered(s)

\* A step about one scout moves it alone in the manager's sets.
OneToken(s) ==
    /\ older' = older
    /\ scout' = [scout EXCEPT ![s] = scout'[s]]
    /\ \A t \in Scouts \ {s} :
          (t \in known' <=> t \in known) /\ (t \in retired' <=> t \in retired)
          /\ (t \in active' <=> t \in active)

LEMMA TokenKeepsStatusInv ==
  ASSUME StatusInv, NEW s \in Scouts, OneToken(s), scout'[s] \in Phases,
         active' \subseteq Scouts, scoutStatus' = (active' # {}), Registered(s)'
  PROVE  StatusInv'
<1>1. scout' \in [Scouts -> Phases]
  BY DEF StatusInv, OneToken
<1>2. ASSUME NEW t \in Scouts \ {s} PROVE Registered(t)'
  <2>1. scout'[t] = scout[t]
    BY DEF StatusInv, OneToken
  <2> QED
    BY <2>1 DEF StatusInv, Registered, OneToken
<1> QED
  BY <1>1, <1>2 DEF StatusInv

LEMMA ShownForOne ==
  ASSUME StatusInv, NEW s \in Scouts, ShowCuration(s), older' = older
  PROVE  /\ active' \subseteq Scouts /\ scoutStatus' = (active' # {})
         /\ \A t \in Scouts \ {s} :
              (t \in known' <=> t \in known) /\ (t \in retired' <=> t \in retired)
              /\ (t \in active' <=> t \in active)
<1>1. CASE s \in retired
  BY <1>1 DEF ShowCuration, statusVars, StatusInv
<1>2. CASE s \notin retired
  <2>1. active' = active \cup {s} /\ scoutStatus' = TRUE
    BY <1>2 DEF ShowCuration
  <2> QED
    BY <1>2, <2>1 DEF ShowCuration, StatusInv
<1> QED
  BY <1>1, <1>2

LEMMA RetiredAlone ==
  ASSUME StatusInv, NEW s \in Scouts, Retire(s) \/ ShowVerdict(s)
  PROVE  /\ active' \subseteq Scouts /\ scoutStatus' = (active' # {})
         /\ \A t \in Scouts \ {s} :
              (t \in known' <=> t \in known) /\ (t \in retired' <=> t \in retired)
              /\ (t \in active' <=> t \in active)
         /\ s \in retired'
BY DEF Retire, ShowVerdict, statusVars, StatusInv

LEMMA EndKeepsStatusInv ==
  ASSUME StatusInv, NEW s \in Scouts, NEW v, EndScout(s, v), scout[s] \in Unsettled \cup {"idle"}
  PROVE  StatusInv'
<1>1. scout' = [scout EXCEPT ![s] = "ended"] /\ older' = older /\ ShowVerdict(s)
  BY DEF EndScout, Phase
<1>2. scout'[s] = "ended"
  BY <1>1 DEF StatusInv
<1>3. OneToken(s) /\ active' \subseteq Scouts /\ scoutStatus' = (active' # {}) /\ s \in retired'
  BY <1>1, <1>2, RetiredAlone DEF OneToken
<1>4. s \notin active'
  BY <1>1 DEF ShowVerdict, Retire, statusVars, StatusInv, Registered, Unsettled
<1>5. Registered(s)'
  BY <1>2, <1>3, <1>4 DEF Registered, Unsettled
<1> QED
  BY <1>2, <1>3, <1>5, TokenKeepsStatusInv DEF Phases

LEMMA MoveKeepsStatusInv ==
  ASSUME StatusInv, NEW s \in Scouts, ScoutMoves(s)
  PROVE  StatusInv'
<1>0. Registered(s) /\ scout[s] \in Phases
  BY DEF StatusInv
<1>1. ASSUME NEW v, EndScout(s, v), scout[s] \in Unsettled \cup {"idle"}
      PROVE  StatusInv'
  BY <1>1, EndKeepsStatusInv
<1>2. ASSUME NEW p \in {"resolving", "ended"}, scout[s] = "idle", Phase(s, p), older' = older,
             known' = known \cup {s}, UNCHANGED <<active, retired, scoutStatus>>
      PROVE  StatusInv'
  <2>1. scout'[s] = p /\ OneToken(s)
    BY <1>2 DEF Phase, StatusInv, OneToken
  <2>2. Registered(s)'
    BY <1>0, <1>2, <2>1 DEF Registered, Unsettled
  <2>3. active' \subseteq Scouts /\ scoutStatus' = (active' # {})
    BY <1>2 DEF StatusInv
  <2> QED
    BY <2>1, <2>2, <2>3, TokenKeepsStatusInv DEF Phases, Unsettled
<1>3. CASE BeginScout(s)
  BY <1>1, <1>2, <1>3 DEF BeginScout, runVars
<1>4. CASE Resolved(s) /\ ~Gone(s)
  <2>1. scout[s] = "resolving" /\ Phase(s, "collecting") /\ ShowCuration(s) /\ older' = older
    BY <1>4 DEF Resolved, runVars
  <2>2. scout'[s] = "collecting" /\ OneToken(s) /\ active' \subseteq Scouts
        /\ scoutStatus' = (active' # {})
    BY <2>1, ShownForOne DEF Phase, StatusInv, OneToken
  <2>3. Registered(s)'
    BY <1>0, <2>1, <2>2 DEF Registered, ShowCuration, statusVars, Unsettled
  <2> QED
    BY <2>2, <2>3, TokenKeepsStatusInv DEF Phases, Unsettled
<1>5. CASE Chunk(s)
  <2>1. scout[s] = "collecting" /\ ShowCuration(s) /\ UNCHANGED <<scout, older>>
    BY <1>5 DEF Chunk
  <2>2. OneToken(s) /\ active' \subseteq Scouts /\ scoutStatus' = (active' # {})
    BY <2>1, ShownForOne DEF StatusInv, OneToken
  <2>3. Registered(s)'
    BY <1>0, <2>1, <2>2 DEF Registered, ShowCuration, statusVars, Unsettled
  <2> QED
    BY <1>0, <2>1, <2>2, <2>3, TokenKeepsStatusInv
<1>6. ASSUME UNCHANGED <<scout, older, known, active, retired, scoutStatus>>
      PROVE  StatusInv'
  BY <1>6 DEF StatusInv, Registered
<1>7. CASE Release(s)
  <2>1. scout[s] = "ended" /\ Phase(s, "released") /\ Retire(s) /\ older' = older
    BY <1>7 DEF Release, runVars
  <2>2. scout'[s] = "released" /\ OneToken(s) /\ active' \subseteq Scouts
        /\ scoutStatus' = (active' # {}) /\ s \in retired'
    BY <2>1, RetiredAlone DEF Phase, StatusInv, OneToken
  <2>3. Registered(s)'
    BY <1>0, <2>1, <2>2 DEF Registered, Retire, Unsettled
  <2> QED
    BY <2>2, <2>3, TokenKeepsStatusInv DEF Phases
<1>8. CASE Resolve(s)
  BY <1>1, <1>4, <1>8 DEF Resolve, Resolved, ResolveFails, Unsettled
<1>9. CASE Resume(s)
  BY <1>1, <1>9 DEF Resume, Unsettled
<1>10. CASE TimerFires(s) \/ ParentAborts(s)
             \/ \E said \in Answers \cup {"failure"} : ScoutAnswered(s, said)
  BY <1>6, <1>10 DEF TimerFires, ParentAborts, ScoutAnswered, statusVars
<1> QED
  BY <1>3, <1>5, <1>7, <1>8, <1>9, <1>10 DEF ScoutMoves

LEMMA StatusInvHolds == ScoutSpec => []StatusInv
<1>1. ScoutInit => StatusInv
  BY DEF ScoutInit, StatusInv, Registered, Phases, Unsettled
<1>2. StatusInv /\ [ScoutNext]_scoutVars => StatusInv'
  <2> SUFFICES ASSUME StatusInv, [ScoutNext]_scoutVars PROVE StatusInv'
    OBVIOUS
  <2>1. CASE SessionEnds
    <3>1. /\ retired' = retired \cup known /\ known' = {} /\ active' = {} /\ scoutStatus' = FALSE
          /\ older' = {s \in Scouts : scout[s] # "idle"} /\ scout' = scout
      BY <2>1 DEF SessionEnds, Clear
    <3>2. ASSUME NEW s \in Scouts PROVE Registered(s)'
      BY <3>1 DEF StatusInv, Registered, Unsettled
    <3> QED
      BY <3>1, <3>2 DEF StatusInv
  <2>2. CASE UNCHANGED scoutVars
    BY <2>2 DEF scoutVars, StatusInv, Registered
  <2> QED
    BY <2>1, <2>2, MoveKeepsStatusInv DEF ScoutNext, ScoutMoves
<1> QED
  BY <1>1, <1>2, PTL DEF ScoutSpec

(***************************************************************************)
(* The status line shows a curation exactly while a scout of this session  *)
(* is between its call and its end, whatever scouts of earlier sessions    *)
(* still do.                                                               *)
(***************************************************************************)
THEOREM CurationShownHolds == ScoutSpec => []CurationShown
<1>1. StatusInv => CurationShown
  BY DEF StatusInv, Registered, CurationShown
<1> QED
  BY StatusInvHolds, <1>1, PTL

\* A token is known or retired, and a scout publishes its end once.
TokensApart ==
    /\ known \subseteq Scouts /\ retired \subseteq Scouts /\ known \cap retired = {}
    /\ late \in BOOLEAN
    /\ \A s \in Scouts : terminal[s] <= 1

LEMMA EndKeepsTokens ==
  ASSUME VerdictInv, StatusInv, TokensApart, NEW s \in Scouts, NEW v, EndScout(s, v),
         scout[s] \in Unsettled \cup {"idle"}
  PROVE  TokensApart'
<1>1. terminal' = [terminal EXCEPT ![s] = @ + 1] /\ ShowVerdict(s)
  BY DEF EndScout
<1>2. known' \subseteq Scouts /\ retired' \subseteq Scouts /\ known' \cap retired' = {}
  BY <1>1 DEF ShowVerdict, Retire, statusVars, TokensApart
<1>3. terminal[s] = 0
  BY DEF VerdictInv, Decided, ScoutTypes, Unsettled
<1>4. ASSUME NEW x \in Scouts PROVE terminal'[x] <= 1
  BY <1>1, <1>3 DEF TokensApart, VerdictInv, ScoutTypes
<1> QED
  BY <1>2, <1>4 DEF TokensApart, EndScout

LEMMA TokensApartStep ==
  ASSUME VerdictInv, StatusInv, TokensApart, [ScoutNext]_scoutVars
  PROVE  TokensApart'
<1>1. ASSUME UNCHANGED <<known, retired, terminal>>, late' \in BOOLEAN PROVE TokensApart'
  BY <1>1 DEF TokensApart
<1>2. ASSUME NEW s \in Scouts, known' = known \cup {s}, UNCHANGED <<retired, terminal>>, late' \in BOOLEAN,
             s \notin retired
      PROVE  TokensApart'
  BY <1>2 DEF TokensApart
<1>3. CASE UNCHANGED scoutVars
  BY <1>1, <1>3 DEF scoutVars, statusVars, runVars, TokensApart
<1>4. CASE SessionEnds
  BY <1>4 DEF SessionEnds, Clear, TokensApart
<1>5. ASSUME NEW s \in Scouts, ScoutMoves(s) PROVE TokensApart'
  <2>1. ASSUME NEW v, EndScout(s, v), scout[s] \in Unsettled \cup {"idle"} PROVE TokensApart'
    BY <2>1, EndKeepsTokens
  <2>2. ASSUME ShowCuration(s), terminal' = terminal, late' \in BOOLEAN PROVE TokensApart'
    BY <1>1, <1>2, <2>2 DEF ShowCuration, statusVars
  <2>3. CASE BeginScout(s)
    <3>1. scout[s] = "idle" /\ s \notin retired
      BY <2>3 DEF BeginScout, StatusInv, Registered
    <3> QED
      BY <1>2, <2>1, <2>3, <3>1 DEF BeginScout, runVars, TokensApart
  <2>4. CASE Resolve(s)
    BY <2>1, <2>2, <2>4 DEF Resolve, Resolved, ResolveFails, Unsettled, runVars, TokensApart
  <2>5. CASE Chunk(s)
    BY <2>2, <2>5 DEF Chunk
  <2>6. CASE Resume(s)
    BY <2>1, <2>6 DEF Resume, Unsettled
  <2>7. CASE Release(s)
    BY <2>7 DEF Release, Retire, runVars, TokensApart
  <2>8. CASE TimerFires(s) \/ ParentAborts(s)
               \/ \E said \in Answers \cup {"failure"} : ScoutAnswered(s, said)
    BY <1>1, <2>8 DEF TimerFires, ParentAborts, ScoutAnswered, statusVars, TokensApart
  <2> QED
    BY <1>5, <2>3, <2>4, <2>5, <2>6, <2>7, <2>8 DEF ScoutMoves
<1> QED
  BY <1>3, <1>4, <1>5 DEF ScoutNext, ScoutMoves

\* The types of the scouts and of their status manager (ScoutTypeOK): a token is never known
\* and retired at once, a scout publishes one terminal event at most.
THEOREM ScoutTypesCorrect == ScoutSpec => []ScoutTypeOK
<1>1. ScoutInit => TokensApart
  <2> SUFFICES ASSUME ScoutInit PROVE TokensApart
    OBVIOUS
  <2>1. late \in BOOLEAN
    BY Zenon DEF ScoutInit
  <2>2. \A s \in Scouts : terminal[s] <= 1
    BY DEF ScoutInit
  <2> QED
    BY <2>1, <2>2 DEF ScoutInit, TokensApart
<1>2. VerdictInv /\ StatusInv /\ TokensApart => ScoutTypeOK
  <2> SUFFICES ASSUME VerdictInv, StatusInv, TokensApart PROVE ScoutTypeOK
    OBVIOUS
  <2>1. active \subseteq known
    BY DEF StatusInv, Registered, Unsettled
  <2>2. terminal \in [Scouts -> 0..1]
    BY DEF VerdictInv, ScoutTypes, TokensApart
  <2>3. scoutStatus \in BOOLEAN /\ late \in BOOLEAN
    BY DEF StatusInv, TokensApart
  <2> QED
    BY <2>1, <2>2, <2>3 DEF ScoutTypeOK, VerdictInv, ScoutTypes, Phases, TokensApart
<1>3. VerdictInv /\ StatusInv /\ TokensApart /\ [ScoutNext]_scoutVars => TokensApart'
  BY TokensApartStep
<1> QED
  BY <1>1, <1>2, <1>3, VerdictInvHolds, StatusInvHolds, PTL DEF ScoutSpec

-----------------------------------------------------------------------------
(* The money of a paid benchmark run, for every plan, cap, number of        *)
(* attempts and sequence of requests.  The campaign, the wrapper of a       *)
(* trial, its broker and the agent in the container each know a part of     *)
(* what was spent.  Books says how the parts fit at every moment, InOrder   *)
(* which of the four may be alive.                                          *)

Step == [kind: {"call", "trial"}, estimate: Nat]
Leavings == [pi: BOOLEAN, records: Nat, cost: Nat, whole: BOOLEAN]

Amounts ==
    /\ reserved \in Nat /\ held \in Nat /\ lease \in Nat /\ leased \in Nat
    /\ spent \in Nat /\ spentBefore \in Nat
    /\ artifacts \in Leavings
    /\ plan \in Seq(Step) /\ done \in 0..Len(plan)

\* No broker serves once its wrapper is past stopping it, none is left without a trial
\* that waits for it, and what is in flight is a step of the plan.
InOrder ==
    /\ wrapper \in {"pruning", "backoff"} \cup Ended => broker = "none"
    /\ campaign # "trial" => wrapper \in Ended
    /\ campaign \in {"calling", "trial"} => done < Len(plan)
    /\ campaign \in Campaigns

\* The guard's reserve is never more than the cap.  It is what was spent, and more while a
\* step is in flight: its estimate.  A trial has spent what its artifacts say, since the attempt that left them
\* began; an attempt that is followed by another has spent nothing.
Books ==
    /\ reserved <= Cap
    /\ campaign \in {"starting", "between", "complete"} => reserved = spent
    /\ campaign = "calling" => reserved = spent + held
    /\ campaign = "trial" =>
          /\ reserved = spentBefore + held
          /\ spentBefore + lease = Cap
          /\ spent = spentBefore + artifacts.cost
          /\ artifacts.records = 0 \/ wrapper = "backoff" => artifacts.cost = 0

Inv == Amounts /\ InOrder /\ Books

LEMMA InvInit == BenchInit => Inv
BY BenchAssumption DEF BenchInit, Step, Leavings, Inv, Amounts, InOrder, Books, Campaigns, Ended, NoArtifacts

\* What the cap leaves for a trial is what nobody has spent.
LEMMA BudgetOfATrial ==
  ASSUME NEW estimate \in Nat, reserved \in Nat, Affordable(estimate)
  PROVE  TrialBudget(estimate) \in Nat /\ TrialBudget(estimate) = Cap - reserved
BY BenchAssumption DEF Affordable, TrialBudget

LEMMA PlannedEstimate ==
  ASSUME Amounts, done < Len(plan)
  PROVE  Next1.estimate \in Nat
<1>1. Len(plan) \in Nat /\ done + 1 \in 1..Len(plan)
  BY DEF Amounts
<1>2. plan \in Seq(Step)
  BY DEF Amounts
<1>3. Next1 \in Step
  BY <1>1, <1>2 DEF Next1
<1> QED
  BY <1>3 DEF Step

-----------------------------------------------------------------------------
(* The steps of the campaign *)

LEMMA CampaignKeepsInv ==
  ASSUME Inv, CampaignStep
  PROVE  Inv'
<1> USE DEF Inv
<1>0. Cap \in Nat
  BY BenchAssumption
<1>1. CASE StartCampaign
  BY <1>1 DEF StartCampaign, Amounts, InOrder, Books, Campaigns, guardVars, trialVars
<1>2. CASE Complete \/ Unaffordable
  BY <1>2 DEF Complete, Unaffordable, Fails, Amounts, InOrder, Books, Campaigns, guardVars, trialVars
<1>3. CASE Call
  <2>1. Next1.estimate \in Nat
    BY <1>3, PlannedEstimate DEF Call
  <2> QED
    BY <1>3, <2>1 DEF Call, Affordable, Amounts, InOrder, Books, Campaigns, trialVars
<1>4. CASE StartTrial
  <2>1. Next1.estimate \in Nat
    BY <1>4, PlannedEstimate DEF StartTrial
  <2>2. /\ reserved = spent /\ reserved' = reserved + Next1.estimate /\ held' = Next1.estimate
        /\ reserved' <= Cap /\ lease' \in Nat /\ lease' = Cap - reserved
        /\ UNCHANGED <<plan, done, spent>>
    BY <1>4, <2>1, BudgetOfATrial DEF StartTrial, Affordable, Amounts, Books
  <2>3. CASE lease' = 0
    BY <1>4, <2>1, <2>2, <2>3 DEF StartTrial, Fails, Amounts, InOrder, Books, Campaigns, trialVars
  <2>4. CASE lease' # 0
    <3>1. campaign' = "trial" /\ wrapper' = "starting" /\ artifacts' = NoArtifacts
          /\ leased' = 0 /\ spentBefore' = spent
      BY <1>4, <2>4 DEF StartTrial, BeginAttempt
    <3>2. Amounts'
      BY <2>1, <2>2, <3>1 DEF Amounts, Leavings, NoArtifacts
    <3>3. InOrder'
      BY <1>4, <2>2, <3>1 DEF StartTrial, InOrder, Campaigns, Ended
    <3>4. Books'
      <4>1. artifacts'.cost = 0
        BY <3>1 DEF NoArtifacts
      <4> QED
        BY <1>0, <2>1, <2>2, <3>1, <4>1 DEF Amounts, Books
    <3> QED
      BY <3>2, <3>3, <3>4
  <2> QED
    BY <2>3, <2>4
<1>5. CASE TrialAccepted
  <2>1. /\ artifacts.cost \in Nat /\ wrapper \in Ended
        /\ reserved = spentBefore + held /\ spent = spentBefore + artifacts.cost
    BY <1>5 DEF TrialAccepted, Amounts, Leavings, Books, Ended
  <2>2. Settled(artifacts.cost) = spent
    BY <2>1 DEF Settled, Amounts
  <2>3. done + 1 \in 0..Len(plan)
    BY <1>5 DEF TrialAccepted, Amounts, InOrder
  <2>4. Overdrawn(artifacts.cost) \/ Settled(artifacts.cost) <= Cap
    BY <1>0, <2>1 DEF Overdrawn, Settled, Amounts, Books
  <2> QED
    BY <1>5, <2>1, <2>2, <2>3, <2>4 DEF TrialAccepted, Fails, Amounts, InOrder, Books, Campaigns, trialVars
<1>6. CASE TrialRejected
  BY <1>6 DEF TrialRejected, Fails, Amounts, InOrder, Books, Campaigns, Ended, guardVars, trialVars
<1> QED
  BY <1>1, <1>2, <1>3, <1>4, <1>5, <1>6 DEF CampaignStep

LEMMA AnswerKeepsInv ==
  ASSUME Inv, Answer
  PROVE  Inv'
<1> USE DEF Inv
<1>1. CASE CallAnswered
  <2>1. PICK actual \in Charges \cup {held} :
          /\ spent' = spent + actual
          /\ IF Overdrawn(actual)
             THEN Fails /\ UNCHANGED <<reserved, done>>
             ELSE /\ reserved' = Settled(actual) /\ done' = done + 1
                  /\ campaign' = "between"
    BY <1>1 DEF CallAnswered
  <2>2. actual \in Nat /\ reserved = spent + held /\ Settled(actual) = spent + actual
    BY <1>1, BenchAssumption DEF CallAnswered, Amounts, Books, Settled
  <2>3. done + 1 \in 0..Len(plan)
    BY <1>1 DEF CallAnswered, Amounts, InOrder
  <2>4. UNCHANGED <<plan, held, lease, spentBefore, wrapper, broker, leased, artifacts>>
        /\ wrapper \in Ended
    BY <1>1 DEF CallAnswered, InOrder, trialVars
  <2>5. CASE Overdrawn(actual)
    BY <2>1, <2>2, <2>4, <2>5 DEF Fails, Amounts, InOrder, Books, Campaigns
  <2>6. CASE ~Overdrawn(actual)
    <3>1. Settled(actual) <= Cap
      BY <2>2, <2>6, BenchAssumption DEF Overdrawn, Settled, Amounts, Books
    <3> QED
      BY <2>1, <2>2, <2>3, <2>4, <2>6, <3>1 DEF Amounts, InOrder, Books, Campaigns
  <2> QED
    BY <2>5, <2>6
<1>2. CASE CallFails
  <2>1. spent' \in Nat
    BY <1>2, BenchAssumption DEF CallFails, Amounts
  <2> QED
    BY <1>2, <2>1 DEF CallFails, Fails, Amounts, InOrder, Books, Campaigns, guardVars, trialVars
<1> QED
  BY <1>1, <1>2 DEF Answer

-----------------------------------------------------------------------------
(* The steps of a trial *)

\* A wrapper, a broker or Harbor moves on and spends nothing.
LEMMA NothingSpent ==
  ASSUME Inv, MoneyUnchanged, leased' = leased,
         artifacts' \in Leavings,
         artifacts'.cost = artifacts.cost, artifacts'.records = artifacts.records
  PROVE  /\ Amounts'
         /\ (wrapper' = "backoff" => wrapper = "backoff" \/ artifacts.records = 0) => Books'
BY DEF Inv, Amounts, Books, MoneyUnchanged, guardVars

LEMMA TrialKeepsInv ==
  ASSUME Inv, BrokerReady \/ BrokerFails \/ StopBroker \/ AgentStarts \/ HarborEnds
              \/ PruneOverruns \/ Retry \/ Decide \/ CommandTimesOut \/ OrphanEnds
  PROVE  Inv'
<1> USE DEF Inv
<1>0. artifacts \in Leavings
  BY DEF Amounts
<1>1. /\ MoneyUnchanged /\ leased' = leased
      /\ artifacts' \in Leavings
      /\ artifacts'.cost = artifacts.cost /\ artifacts'.records = artifacts.records
  <2>1. MoneyUnchanged /\ leased' = leased
    BY DEF BrokerReady, BrokerFails, StopBroker, AgentStarts, HarborEnds, PruneOverruns, Retry,
           Decide, CommandTimesOut, OrphanEnds
  <2>2. CASE AgentStarts
    BY <1>0, <2>1, <2>2 DEF AgentStarts, Leavings
  <2>3. CASE HarborEnds
    <3>1. PICK clean \in BOOLEAN : artifacts' = [artifacts EXCEPT !.whole = @ /\ clean]
      BY <2>3 DEF HarborEnds
    <3>2. (artifacts.whole /\ clean) \in BOOLEAN
      OBVIOUS
    <3> QED
      BY <1>0, <2>1, <3>1, <3>2 DEF Leavings
  <2>4. CASE artifacts' = artifacts
    BY <1>0, <2>1, <2>4
  <2> QED
    BY <2>2, <2>3, <2>4 DEF BrokerReady, BrokerFails, StopBroker, PruneOverruns, Retry, Decide,
                            CommandTimesOut, OrphanEnds
<1>2. wrapper' = "backoff" => wrapper = "backoff" \/ artifacts.records = 0
  BY DEF BrokerReady, BrokerFails, StopBroker, AgentStarts, HarborEnds, PruneOverruns, Retry,
         Decide, CommandTimesOut, OrphanEnds, Retryable
<1>3. Amounts' /\ Books'
  BY <1>1, <1>2, NothingSpent
<1>4. UNCHANGED <<campaign, plan, done>>
  BY <1>1 DEF MoneyUnchanged, guardVars
<1>5. wrapper \in Ended => wrapper' \in Ended
  BY DEF BrokerReady, BrokerFails, StopBroker, AgentStarts, HarborEnds, PruneOverruns, Retry,
         Decide, CommandTimesOut, OrphanEnds, Ended
<1>6. wrapper' \in {"pruning", "backoff"} \cup Ended => broker' = "none"
  BY DEF BrokerReady, BrokerFails, StopBroker, AgentStarts, HarborEnds, PruneOverruns, Retry,
         Decide, CommandTimesOut, OrphanEnds, Ended, InOrder
<1> QED
  BY <1>3, <1>4, <1>5, <1>6 DEF InOrder

LEMMA RetryKeepsInv ==
  ASSUME Inv, BackedOff
  PROVE  Inv'
<1>1. campaign = "trial" /\ artifacts.cost = 0
  BY DEF Inv, InOrder, Books, BackedOff, Ended
<1>2. spent = spentBefore
  BY <1>1 DEF Inv, Books, Amounts
<1>3. /\ wrapper' = "starting" /\ leased' = 0 /\ artifacts' = NoArtifacts
      /\ spentBefore' = spent
      /\ UNCHANGED <<plan, done, reserved, held, lease, campaign, spent>>
  BY DEF BackedOff, BeginAttempt, guardVars
<1>4. Amounts'
  BY <1>3 DEF Inv, Amounts, NoArtifacts, Leavings
<1>5. InOrder'
  BY <1>1, <1>3 DEF Inv, InOrder, Ended
<1>6. artifacts'.cost = 0
  BY <1>3 DEF NoArtifacts
<1> QED
  BY <1>1, <1>2, <1>3, <1>4, <1>5, <1>6 DEF Inv, Amounts, Books

LEMMA AgentKeepsInv ==
  ASSUME Inv, AgentAsks
  PROVE  Inv'
<1> USE DEF Inv
<1>1. PICK r \in Requests, reported \in BOOLEAN :
          /\ leased' = leased + (IF Admits(r) THEN r.worst ELSE 0)
          /\ spent' = spent + (IF Admits(r) THEN r.actual ELSE 0)
          /\ artifacts' = [artifacts EXCEPT !.records = @ + 1,
                              !.cost = @ + (IF Admits(r) THEN r.actual ELSE 0),
                              !.whole = @ /\ reported]
  BY DEF AgentAsks
<1>2. r.worst \in Nat /\ r.actual \in Nat
  BY BenchAssumption
<1>3. UNCHANGED <<plan, done, reserved, held, lease, campaign, spentBefore, wrapper, broker>>
  BY DEF AgentAsks, guardVars
<1>4. /\ artifacts'.records = artifacts.records + 1 /\ artifacts'.records # 0
      /\ artifacts' \in Leavings
  <2>1. artifacts \in Leavings /\ artifacts.records + 1 \in Nat /\ artifacts.records + 1 # 0
    BY DEF Amounts, Leavings
  <2>2. artifacts.cost + (IF Admits(r) THEN r.actual ELSE 0) \in Nat
    BY <1>2, <2>1 DEF Leavings
  <2>3. (artifacts.whole /\ reported) \in BOOLEAN
    BY <2>1 DEF Leavings
  <2> QED
    BY <1>1, <2>1, <2>2, <2>3 DEF Leavings
<1>5. CASE Admits(r)
  <2>1. broker = "serving" /\ campaign = "trial" /\ wrapper # "backoff"
    BY <1>5 DEF Admits, InOrder, Ended
  <2>2. /\ leased' = leased + r.worst /\ spent' = spent + r.actual
        /\ artifacts'.cost = artifacts.cost + r.actual /\ artifacts.cost \in Nat
    BY <1>1, <1>5 DEF Amounts, Leavings
  <2>3. Amounts' /\ InOrder'
    BY <1>2, <1>3, <1>4, <2>2 DEF Amounts, InOrder
  <2>4. spent' = spentBefore + artifacts'.cost
    BY <1>2, <2>1, <2>2 DEF Amounts, Books
  <2> QED
    BY <1>3, <1>4, <2>1, <2>3, <2>4 DEF Books
<1>6. CASE ~Admits(r)
  <2>1. leased' = leased /\ spent' = spent /\ artifacts'.cost = artifacts.cost
    BY <1>1, <1>6 DEF Amounts, Leavings
  <2> QED
    BY <1>3, <1>4, <2>1 DEF Amounts, InOrder, Books
<1> QED
  BY <1>5, <1>6

-----------------------------------------------------------------------------
(***************************************************************************)
(* At every moment of a campaign the guard's reserve fits the cap and is   *)
(* what the provider charged, and the estimate of the one step in flight;  *)
(* a trial's lease is what the cap leaves, and its artifacts account for   *)
(* what its attempt has spent.  So a campaign with nothing in flight that  *)
(* has not failed has spent no more than the cap.                          *)
(***************************************************************************)
THEOREM BooksAreKept == BenchSpec => []Inv
<1>1. Inv /\ [BenchNext]_benchVars => Inv'
  <2> SUFFICES ASSUME Inv, [BenchNext]_benchVars PROVE Inv'
    OBVIOUS
  <2>1. CASE UNCHANGED benchVars
    BY <2>1 DEF benchVars, Inv, Amounts, InOrder, Books
  <2> QED
    BY <2>1, CampaignKeepsInv, AnswerKeepsInv, TrialKeepsInv, RetryKeepsInv, AgentKeepsInv
       DEF BenchNext, WrapperStep
<1> QED
  BY InvInit, <1>1, PTL DEF BenchSpec

(***************************************************************************)
(* No broker ever serves a lease that, with all that was spent before its  *)
(* attempt began, exceeds the campaign's cap, whatever failed, was retried *)
(* or was killed before.                                                   *)
(***************************************************************************)
THEOREM LeasesFitTheCap == BenchSpec => []LeaseFitsTheCap
<1>1. Inv => LeaseFitsTheCap
  BY BenchAssumption DEF Inv, Amounts, InOrder, Books, Ended, LeaseFitsTheCap
<1> QED
  BY BooksAreKept, <1>1, PTL

\* Where a trial's parts are; who waits to retry has an attempt left.
Kinds ==
    /\ plan \in Plans /\ wrapper \in Wrappers /\ attempt \in 0..MaxRetries
    /\ failure \in {"none", "infrastructure", "unclassified"}
    /\ broker \in {"none", "booting", "serving"}
    /\ harbor \in {"none", "setup", "agent", "exited"}
    /\ overran \in BOOLEAN
    /\ wrapper = "backoff" => attempt < MaxRetries

LEMMA KindsStep ==
  ASSUME Kinds, [BenchNext]_benchVars
  PROVE  Kinds'
<1> USE BenchAssumption DEF Kinds
<1>1. ASSUME UNCHANGED <<plan, wrapper, attempt, failure, broker, harbor, overran>>
      PROVE  Kinds'
  BY <1>1
<1>2. CASE UNCHANGED benchVars
  BY <1>1, <1>2 DEF benchVars
<1>3. CASE StartTrial
  <2>1. CASE lease' = 0
    BY <1>1, <1>3, <2>1 DEF StartTrial, trialVars
  <2>2. CASE lease' # 0
    <3>1. overran' = FALSE /\ BeginAttempt(0) /\ plan' = plan
      BY <1>3, <2>2 DEF StartTrial
    <3>2. overran' \in BOOLEAN
      BY <3>1, Zenon
    <3> QED
      BY <3>1, <3>2 DEF BeginAttempt, Wrappers
  <2> QED
    BY <2>1, <2>2
<1>4. CASE StartCampaign \/ Complete \/ Unaffordable \/ Call \/ TrialAccepted \/ TrialRejected
             \/ CallAnswered \/ CallFails
  BY <1>1, <1>4 DEF StartCampaign, Complete, Unaffordable, Call, TrialAccepted, TrialRejected,
                   CallAnswered, CallFails, guardVars, trialVars
<1>5. CASE AgentAsks
  BY <1>1, <1>5 DEF AgentAsks, guardVars
<1>6. CASE BackedOff
  BY <1>6 DEF BackedOff, BeginAttempt, guardVars, Wrappers
<1>7. CASE Retry
  BY <1>7 DEF Retry, Retryable, MoneyUnchanged, guardVars, Wrappers
<1>8. CASE BrokerReady \/ BrokerFails \/ StopBroker \/ AgentStarts
  BY <1>8 DEF BrokerReady, BrokerFails, StopBroker, AgentStarts, MoneyUnchanged, guardVars, Wrappers
<1>9. CASE HarborEnds
  BY <1>9 DEF HarborEnds, MoneyUnchanged, guardVars, Wrappers
<1>10. CASE PruneOverruns \/ Decide \/ CommandTimesOut \/ OrphanEnds
  BY <1>10 DEF PruneOverruns, Decide, CommandTimesOut, OrphanEnds, MoneyUnchanged, guardVars, Wrappers
<1> QED
  BY <1>2, <1>3, <1>4, <1>5, <1>6, <1>7, <1>8, <1>9, <1>10
     DEF BenchNext, CampaignStep, Answer, WrapperStep

\* The types of a campaign (BenchTypeOK): no amount of money is negative, and a trial makes
\* MaxRetries + 1 attempts at most.
THEOREM BenchTypesCorrect == BenchSpec => []BenchTypeOK
<1>1. BenchInit => Kinds
  <2> SUFFICES ASSUME BenchInit PROVE Kinds
    OBVIOUS
  <2>1. overran \in BOOLEAN
    BY Zenon DEF BenchInit
  <2> QED
    BY <2>1, BenchAssumption DEF BenchInit, Kinds, Wrappers
<1>2. Kinds /\ [BenchNext]_benchVars => Kinds'
  BY KindsStep
<1>3. Inv /\ Kinds => BenchTypeOK
  BY DEF Inv, Amounts, InOrder, Kinds, Leavings, BenchTypeOK
<1> QED
  BY <1>1, <1>2, <1>3, BooksAreKept, PTL DEF BenchSpec

-----------------------------------------------------------------------------
(* The partial answers of ask_advisor *)

\* The timer waits for the end of the interval since the last publication.
TimerIsDue == due # Unset => lastPublishedAt # Unset /\ due = lastPublishedAt + Interval

\* Once closed nothing waits; a tool that no longer streams is closed.
ClosedIsIdle ==
    /\ closed => pending = Unset /\ due = Unset
    /\ closed \/ tool = "streaming"
    /\ closed /\ tool = "streaming" => failed
    /\ failed => closed

\* Values are published in their order, and the newest is published or waits.
ValuesInOrder ==
    /\ shown # Unset => shown <= chunks
    /\ pending # Unset => pending <= chunks
    /\ shown # Unset /\ pending # Unset => shown < pending
    /\ ~failed /\ chunks > 0 => shown = chunks \/ pending = chunks

Spaced == gaps = Unset \/ gaps >= Interval

StreamInv == UpdTypeOK /\ TimerIsDue /\ ClosedIsIdle /\ ValuesInOrder /\ Spaced /\ ~stale

\* The clock never runs back behind a publication.
ClockRuns == lastPublishedAt # Unset => lastPublishedAt <= clock

LEMMA StreamInit == UpdInit => StreamInv /\ ClockRuns
<1> SUFFICES ASSUME UpdInit PROVE StreamInv /\ ClockRuns
  OBVIOUS
<1> USE StreamUpdatesAssumption DEF UpdInit
<1>1. UpdTypeOK
  <2>1. 0 \in 0..MaxTime /\ 0 \in 0..MaxChunks
    OBVIOUS
  <2> QED
    BY <2>1 DEF UpdTypeOK
<1>2. TimerIsDue /\ ValuesInOrder /\ Spaced /\ ClockRuns
  BY DEF TimerIsDue, ValuesInOrder, Spaced, ClockRuns
<1>3. ClosedIsIdle /\ ~stale
  BY DEF ClosedIsIdle
<1> QED
  BY <1>1, <1>2, <1>3 DEF StreamInv

\* A publication, of a value newer than the last.
LEMMA PublishKeeps ==
  ASSUME StreamInv, ClockRuns, NEW value \in 1..MaxChunks, NEW end \in BOOLEAN,
         Publish(value, end), UNCHANGED clock, ~closed,
         shown = Unset \/ shown < value,
         end \/ lastPublishedAt = Unset \/ clock - lastPublishedAt >= Interval
  PROVE  /\ clock' \in 0..MaxTime /\ failed' \in BOOLEAN /\ stale' = FALSE /\ closed' \in BOOLEAN
         /\ pending' = Unset /\ due' = Unset
         /\ shown' \in 1..MaxChunks \cup {Unset}
         /\ lastPublishedAt' = clock
         /\ gaps' \in 0..MaxTime \cup {Unset}
         /\ Spaced'
         /\ failed' \/ (shown' = value /\ closed' = end /\ ~failed)
         /\ shown' \in {shown, value}
         /\ failed' # failed => closed'
         /\ end => closed'
<1> USE StreamUpdatesAssumption DEF StreamInv, UpdTypeOK
<1>1. /\ pending' = Unset /\ due' = Unset /\ lastPublishedAt' = clock
      /\ gaps' = IF lastPublishedAt = Unset \/ end THEN gaps
               ELSE IF gaps = Unset \/ clock - lastPublishedAt < gaps THEN clock - lastPublishedAt
               ELSE gaps
      /\ \/ shown' = value /\ closed' = end /\ UNCHANGED failed
         \/ failed' = TRUE /\ closed' = TRUE /\ UNCHANGED shown
  BY DEF Publish
<1>2. stale' = FALSE
  <2>1. stale' = (stale \/ closed \/ (shown # Unset /\ value <= shown))
    BY DEF Publish
  <2> QED
    BY <2>1
<1>3. gaps' \in 0..MaxTime \cup {Unset}
  BY <1>1 DEF ClockRuns
<1>4. Spaced'
  BY <1>1 DEF Spaced
<1> QED
  BY <1>1, <1>2, <1>3, <1>4

LEMMA StreamStep ==
  ASSUME StreamInv, ClockRuns, [UpdNext]_updVars
  PROVE  StreamInv' /\ ClockRuns'
<1> USE StreamUpdatesAssumption
<1>0. /\ clock \in 0..MaxTime /\ chunks \in 0..MaxChunks /\ MaxChunks \in Nat /\ MaxTime \in Nat
      /\ Interval \in Nat \ {0} /\ Unset \notin Nat
      /\ pending \in 1..MaxChunks \cup {Unset} /\ shown \in 1..MaxChunks \cup {Unset}
      /\ due \in 0..(MaxTime + Interval) \cup {Unset}
      /\ lastPublishedAt \in 0..MaxTime \cup {Unset}
  BY DEF StreamInv, UpdTypeOK
\* A publication leaves a good state, if it was the newest value or the newest that waited.
<1>1. ASSUME NEW value \in 1..MaxChunks, NEW end \in BOOLEAN,
             Publish(value, end), UNCHANGED clock, ~closed,
             shown = Unset \/ shown < value,
             end \/ lastPublishedAt = Unset \/ clock - lastPublishedAt >= Interval,
             chunks' = value \/ (chunks' = chunks /\ value = pending), chunks' \in 0..MaxChunks,
             chunks' >= chunks,
             tool' \in {"streaming", "flushed", "failed"},
             closed' \/ tool' = "streaming", closed' /\ tool' = "streaming" => failed'
      PROVE  StreamInv' /\ ClockRuns'
  <2>1. /\ clock' \in 0..MaxTime /\ failed' \in BOOLEAN /\ stale' = FALSE /\ closed' \in BOOLEAN
        /\ pending' = Unset /\ due' = Unset
        /\ shown' \in 1..MaxChunks \cup {Unset}
        /\ lastPublishedAt' = clock
        /\ gaps' \in 0..MaxTime \cup {Unset}
        /\ Spaced'
        /\ failed' \/ (shown' = value /\ closed' = end /\ ~failed)
        /\ shown' \in {shown, value}
        /\ failed' # failed => closed'
        /\ end => closed'
    BY <1>1, PublishKeeps
  <2>2. UpdTypeOK'
    BY <1>0, <1>1, <2>1 DEF UpdTypeOK
  <2>3. ClosedIsIdle'
    <3>1. failed = FALSE
      BY <1>1 DEF StreamInv, ClosedIsIdle, UpdTypeOK
    <3> QED
      BY <1>1, <2>1, <3>1 DEF ClosedIsIdle
  <2>4. ValuesInOrder'
    <3>1. /\ shown # Unset => shown <= chunks
          /\ pending # Unset => pending <= chunks
          /\ shown = chunks \/ pending = chunks \/ chunks = 0
      BY <1>0, <1>1 DEF StreamInv, ValuesInOrder, ClosedIsIdle
    <3> QED
      BY <1>0, <1>1, <2>1, <3>1 DEF ValuesInOrder
  <2>5. TimerIsDue' /\ ClockRuns'
    BY <1>0, <1>1, <2>1 DEF TimerIsDue, ClockRuns
  <2> QED
    BY <2>1, <2>2, <2>3, <2>4, <2>5 DEF StreamInv
<1> DEFINE state == <<closed, failed, pending, lastPublishedAt, due, shown, gaps, stale>>
<1>2. CASE Update
  <2>1. /\ tool = "streaming" /\ chunks < MaxChunks /\ chunks' = chunks + 1 /\ clock' = clock
    BY <1>2 DEF Update
  <2>2. CASE closed /\ UNCHANGED <<state, tool>>
    <3>1. UpdTypeOK' /\ ClosedIsIdle'
      BY <1>0, <2>1, <2>2 DEF StreamInv, UpdTypeOK, ClosedIsIdle
    <3>2. TimerIsDue' /\ Spaced' /\ ClockRuns' /\ ~stale'
      BY <2>1, <2>2 DEF StreamInv, TimerIsDue, Spaced, ClockRuns
    <3>3. ValuesInOrder'
      BY <1>0, <2>1, <2>2 DEF StreamInv, ValuesInOrder, ClosedIsIdle
    <3> QED
      BY <3>1, <3>2, <3>3 DEF StreamInv
  <2>3. CASE /\ ~closed /\ due = Unset /\ Delay = 0
             /\ Publish(chunks + 1, FALSE)
             /\ tool' = IF failed' THEN "failed" ELSE tool
    <3>1. lastPublishedAt = Unset \/ clock - lastPublishedAt >= Interval
      BY <1>0, <2>3 DEF Delay
    <3>2. shown = Unset \/ shown < chunks + 1
      BY <1>0 DEF StreamInv, ValuesInOrder
    <3>3. (failed' = TRUE /\ closed' = TRUE) \/ (closed' = FALSE /\ failed' = failed)
      BY <2>3 DEF Publish
    <3>4. failed = FALSE
      BY <2>3 DEF StreamInv, ClosedIsIdle, UpdTypeOK
    <3>5. /\ tool' \in {"streaming", "flushed", "failed"} /\ (closed' \/ tool' = "streaming")
          /\ closed' /\ tool' = "streaming" => failed'
      BY <2>1, <2>3, <3>3, <3>4
    <3>6. chunks + 1 \in 1..MaxChunks /\ chunks' \in 0..MaxChunks /\ chunks' >= chunks
      BY <1>0, <2>1
    <3> QED
      BY <1>1, <2>1, <2>3, <3>1, <3>2, <3>5, <3>6
  <2>4. CASE /\ ~closed /\ ~(due = Unset /\ Delay = 0)
             /\ pending' = chunks + 1
             /\ due' = IF due = Unset THEN clock + Delay ELSE due
             /\ UNCHANGED <<closed, failed, lastPublishedAt, tool, shown, gaps, stale>>
    <3>1. due' # Unset /\ lastPublishedAt # Unset /\ due' = lastPublishedAt + Interval
      <4>1. CASE due = Unset
        BY <1>0, <2>4, <4>1 DEF Delay
      <4>2. CASE due # Unset
        BY <2>4, <4>2 DEF StreamInv, TimerIsDue
      <4> QED
        BY <4>1, <4>2
    <3>2. UpdTypeOK'
      <4>1. due' \in 0..(MaxTime + Interval) /\ pending' \in 1..MaxChunks /\ chunks' \in 0..MaxChunks
        BY <1>0, <2>1, <2>4, <3>1
      <4> QED
        BY <2>1, <2>4, <4>1 DEF StreamInv, UpdTypeOK
    <3>3. ClosedIsIdle' /\ Spaced' /\ ~stale' /\ ClockRuns'
      BY <2>1, <2>4 DEF StreamInv, ClosedIsIdle, Spaced, ClockRuns
    <3>4. ValuesInOrder'
      BY <1>0, <2>1, <2>4 DEF StreamInv, ValuesInOrder
    <3> QED
      BY <2>4, <3>1, <3>2, <3>3, <3>4 DEF StreamInv, TimerIsDue
  <2> QED
    BY <1>2, <2>2, <2>3, <2>4 DEF Update
<1>3. CASE TimerPublishes
  <2>1. /\ due # Unset /\ clock >= due /\ UNCHANGED <<clock, chunks, tool>>
    BY <1>3 DEF TimerPublishes
  <2>2. CASE pending = Unset
    <3>1. due' = Unset /\ UNCHANGED <<closed, failed, pending, lastPublishedAt, shown, gaps, stale>>
      BY <1>3, <2>2 DEF TimerPublishes
    <3> QED
      BY <2>1, <3>1 DEF StreamInv, UpdTypeOK, TimerIsDue, ClosedIsIdle, ValuesInOrder, Spaced, ClockRuns
  <2>3. CASE pending # Unset
    <3>1. Publish(pending, FALSE) /\ pending \in 1..MaxChunks
      BY <1>0, <1>3, <2>3 DEF TimerPublishes
    <3>2. ~closed /\ failed = FALSE /\ tool = "streaming"
      BY <2>3 DEF StreamInv, ClosedIsIdle, UpdTypeOK
    <3>3. shown = Unset \/ shown < pending
      BY <2>3 DEF StreamInv, ValuesInOrder
    <3>4. lastPublishedAt = Unset \/ clock - lastPublishedAt >= Interval
      BY <1>0, <2>1 DEF StreamInv, TimerIsDue
    <3>5. /\ tool' \in {"streaming", "flushed", "failed"} /\ (closed' \/ tool' = "streaming")
          /\ closed' /\ tool' = "streaming" => failed'
      BY <2>1, <3>1, <3>2 DEF Publish
    <3>6. chunks' = chunks /\ chunks' \in 0..MaxChunks /\ chunks' >= chunks
      BY <1>0, <2>1
    <3> QED
      BY <1>1, <2>1, <3>1, <3>2, <3>3, <3>4, <3>5, <3>6
  <2> QED
    BY <2>2, <2>3
<1>4. ASSUME NEW next \in {"flushed", "failed"}, tool = "streaming", Flush(next),
             UNCHANGED <<clock, chunks>>
      PROVE  StreamInv' /\ ClockRuns'
  <2>1. CASE closed \/ pending = Unset
    <3>1. /\ closed' = TRUE /\ due' = IF closed THEN due ELSE Unset
          /\ UNCHANGED <<failed, pending, lastPublishedAt, shown, gaps, stale>>
          /\ tool' = IF failed' THEN "failed" ELSE next
      BY <1>4, <2>1 DEF Flush
    <3>2. UpdTypeOK'
      BY <1>0, <1>4, <3>1 DEF StreamInv, UpdTypeOK
    <3>3. ClosedIsIdle'
      BY <1>4, <2>1, <3>1 DEF StreamInv, ClosedIsIdle
    <3> QED
      BY <1>4, <3>1, <3>2, <3>3 DEF StreamInv, TimerIsDue, ValuesInOrder, Spaced, ClockRuns
  <2>2. CASE ~(closed \/ pending = Unset)
    <3>1. /\ Publish(pending, TRUE) /\ tool' = IF failed' THEN "failed" ELSE next
          /\ pending \in 1..MaxChunks
      BY <1>0, <1>4, <2>2 DEF Flush
    <3>2. shown = Unset \/ shown < pending
      BY <2>2 DEF StreamInv, ValuesInOrder
    <3>3. /\ tool' \in {"streaming", "flushed", "failed"} /\ (closed' \/ tool' = "streaming")
          /\ closed' /\ tool' = "streaming" => failed'
      BY <1>4, <3>1 DEF Publish
    <3>4. chunks' = chunks /\ chunks' \in 0..MaxChunks /\ chunks' >= chunks
      BY <1>0, <1>4
    <3> QED
      BY <1>1, <1>4, <2>2, <3>1, <3>2, <3>3, <3>4
  <2> QED
    BY <2>1, <2>2
<1>5. CASE StreamAnswered \/ ProviderFails
  BY <1>4, <1>5 DEF StreamAnswered, ProviderFails
<1>6. CASE StreamEnds
  <2>1. /\ closed' = TRUE /\ due' = Unset /\ pending' = Unset /\ tool' = "ended"
        /\ tool # "streaming"
        /\ UNCHANGED <<clock, chunks, failed, lastPublishedAt, shown, gaps, stale>>
    BY <1>6 DEF StreamEnds, Cancel
  <2>2. closed
    BY <2>1 DEF StreamInv, ClosedIsIdle
  <2>3. ValuesInOrder'
    BY <1>0, <2>1, <2>2 DEF StreamInv, ValuesInOrder, ClosedIsIdle
  <2> QED
    BY <2>1, <2>3 DEF StreamInv, UpdTypeOK, TimerIsDue, ClosedIsIdle, Spaced, ClockRuns
<1>7. CASE Tick
  <2>1. clock' \in 0..MaxTime /\ clock' = clock + 1
        /\ UNCHANGED <<chunks, tool, closed, failed, pending, lastPublishedAt, due, shown, gaps, stale>>
    BY <1>0, <1>7 DEF Tick
  <2>2. ClockRuns'
    BY <1>0, <2>1 DEF ClockRuns
  <2> QED
    BY <2>1, <2>2 DEF StreamInv, UpdTypeOK, TimerIsDue, ClosedIsIdle, ValuesInOrder, Spaced
<1>8. CASE UNCHANGED updVars
  BY <1>8 DEF updVars, StreamInv, UpdTypeOK, TimerIsDue, ClosedIsIdle, ValuesInOrder, Spaced, ClockRuns
<1> QED
  BY <1>2, <1>3, <1>5, <1>6, <1>7, <1>8 DEF UpdNext

LEMMA StreamInvHolds == UpdSpec => [](StreamInv /\ ClockRuns)
<1>1. (StreamInv /\ ClockRuns) /\ [UpdNext]_updVars => (StreamInv /\ ClockRuns)'
  BY StreamStep
<1> QED
  BY StreamInit, <1>1, PTL DEF UpdSpec

(***************************************************************************)
(* createCoalescedUpdate (src/model-stream.ts) updates the interface once  *)
(* per interval at most, in order, never after the tool ended, and with    *)
(* the last chunk before its result, for any interval and any stream.      *)
(***************************************************************************)
THEOREM UpdatesAreCoalescedHolds == UpdSpec => []UpdatesAreCoalesced
<1>1. StreamInv => UpdatesAreCoalesced
  BY StreamUpdatesAssumption
     DEF StreamInv, ClosedIsIdle, ValuesInOrder, Spaced, UpdatesAreCoalesced, UpdTypeOK
<1> QED
  BY StreamInvHolds, <1>1, PTL

\* The types of the stream of updates (UpdTypeOK): what is shown or waits is a chunk that came.
THEOREM UpdTypesCorrect == UpdSpec => []UpdTypeOK
<1>1. StreamInv => UpdTypeOK
  BY DEF StreamInv
<1> QED
  BY StreamInvHolds, <1>1, PTL

-----------------------------------------------------------------------------
(* The verdict of a gate *)

IsDecision(n) == answer[n].kind = "decision"

\* Line s is the first that is not blank, and first is what it says.
IsStart(s) ==
    /\ answer[s].kind # "blank"
    /\ \A m \in 1..(s - 1) : answer[m].kind = "blank"
    /\ first = CASE answer[s].kind = "decision" -> answer[s].says
                 [] answer[s].kind = "almost" -> "malformed"
                 [] OTHER -> "missing"

\* The fence that is open was opened on line i, or before line n.
OpenedAt(i) ==
    /\ answer[i].kind = "fence" /\ Opens(answer[i])
    /\ openingFence = [char |-> answer[i].char, length |-> answer[i].length]
OpenBefore(n) == \E i \in 1..(n - 1) : OpenedAt(i)
FenceIsOpen == \E i \in 1..Len(answer) : OpenedAt(i)

\* What the parser knows of the decisions after line s: it holds one if there is one, and
\* one it did not count stands in an example that was closed, or that is open and holds it.
DecisionsAfter(s) ==
    /\ counted # <<>> \/ fenced # <<>> => \E n \in (s + 1)..Len(answer) : IsDecision(n)
    /\ counted = <<>> =>
          \A n \in (s + 1)..Len(answer) : IsDecision(n) =>
              InClosedFence(n) \/ (openingFence # NoFence /\ fenced # <<>> /\ OpenBefore(n))

ParserInv ==
    /\ answer \in Seq(Lines) /\ Len(answer) <= MaxLines
    /\ counted \in Seq(Decisions) /\ fenced \in Seq(Decisions)
    /\ Len(counted) + Len(fenced) <= Len(answer)
    /\ IF openingFence = NoFence THEN fenced = <<>> ELSE FenceIsOpen
    /\ IF first = NoFence
       THEN /\ \A n \in 1..Len(answer) : answer[n].kind = "blank"
            /\ openingFence = NoFence /\ counted = <<>>
       ELSE \E s \in 1..Len(answer) : IsStart(s) /\ DecisionsAfter(s)

\* A line that was read stays where it is.
LEMMA LinesStay ==
  ASSUME answer \in Seq(Lines), NEW l \in Lines, answer' = Append(answer, l)
  PROVE  /\ Len(answer') = Len(answer) + 1 /\ answer' \in Seq(Lines)
         /\ Len(answer) \in Nat
         /\ \A n \in 1..Len(answer) : answer'[n] = answer[n]
         /\ answer'[Len(answer) + 1] = l
         /\ \A n \in 1..Len(answer) : InClosedFence(n) => InClosedFence(n)'
         /\ openingFence' = openingFence =>
               /\ \A n \in 1..Len(answer) : OpenBefore(n) => OpenBefore(n)'
               /\ FenceIsOpen => FenceIsOpen'
<1>1. /\ Len(answer') = Len(answer) + 1 /\ answer' \in Seq(Lines) /\ Len(answer) \in Nat
      /\ \A n \in 1..Len(answer) : answer'[n] = answer[n]
      /\ answer'[Len(answer) + 1] = l
  OBVIOUS
<1>2. ASSUME NEW n \in 1..Len(answer), InClosedFence(n)
      PROVE  InClosedFence(n)'
  <2>1. PICK i \in 1..(n - 1), j \in (n + 1)..Len(answer) :
           /\ answer[i].kind = "fence" /\ Opens(answer[i])
           /\ answer[j].kind = "fence" /\ answer[j].suffix = "none"
           /\ answer[j].char = answer[i].char /\ answer[j].length >= answer[i].length
    BY <1>2 DEF InClosedFence
  <2>2. i \in 1..Len(answer) /\ j \in 1..Len(answer) /\ j \in (n + 1)..Len(answer')
    BY <1>1
  <2>3. answer'[i] = answer[i] /\ answer'[j] = answer[j]
    BY <1>1, <2>2
  <2> QED
    BY <2>1, <2>2, <2>3 DEF InClosedFence
<1>3. openingFence' = openingFence => \A i \in 1..Len(answer) : OpenedAt(i) => OpenedAt(i)'
  BY <1>1 DEF OpenedAt
<1>4. ASSUME openingFence' = openingFence, NEW n \in 1..Len(answer), OpenBefore(n)
      PROVE  OpenBefore(n)'
  <2>1. \A i \in 1..(n - 1) : i \in 1..Len(answer)
    BY <1>1
  <2> QED
    BY <1>3, <1>4, <2>1 DEF OpenBefore
<1>5. openingFence' = openingFence /\ FenceIsOpen => FenceIsOpen'
  <2>1. \A i \in 1..Len(answer) : i \in 1..Len(answer')
    BY <1>1
  <2> QED
    BY <1>3, <2>1 DEF FenceIsOpen
<1> QED
  BY <1>1, <1>2, <1>4, <1>5

\* A line after the first that is not blank, which stays the first.
LEMMA StartStays ==
  ASSUME answer \in Seq(Lines), NEW l \in Lines, answer' = Append(answer, l),
         NEW s \in 1..Len(answer), IsStart(s), first' = first
  PROVE  IsStart(s)' /\ s \in 1..Len(answer')
<1>1. /\ Len(answer') = Len(answer) + 1 /\ Len(answer) \in Nat
      /\ \A n \in 1..Len(answer) : answer'[n] = answer[n]
  BY LinesStay
<1>2. \A m \in 1..(s - 1) : m \in 1..Len(answer)
  BY <1>1
<1> QED
  BY <1>1, <1>2 DEF IsStart

LEMMA ParserStep ==
  ASSUME ParserInv, [ParserNext]_parserVars
  PROVE  ParserInv'
<1> USE GateProtocolAssumption
<1>1. ASSUME NEW l \in Lines, ReadLine(l)
      PROVE  ParserInv'
  <2>1. /\ answer' = Append(answer, l) /\ Len(answer) < MaxLines
        /\ answer \in Seq(Lines)
        /\ counted \in Seq(Decisions) /\ fenced \in Seq(Decisions)
        /\ Len(counted) + Len(fenced) <= Len(answer)
    BY <1>1 DEF ReadLine, ParserInv
  <2>2. /\ Len(answer') = Len(answer) + 1 /\ answer' \in Seq(Lines) /\ Len(answer) \in Nat
        /\ \A n \in 1..Len(answer) : answer'[n] = answer[n]
        /\ answer'[Len(answer) + 1] = l
        /\ \A n \in 1..Len(answer) : InClosedFence(n) => InClosedFence(n)'
        /\ openingFence' = openingFence =>
              /\ \A n \in 1..Len(answer) : OpenBefore(n) => OpenBefore(n)'
              /\ FenceIsOpen => FenceIsOpen'
    BY <2>1, LinesStay
  <2>3. Len(answer') <= MaxLines /\ MaxLines \in Nat
    BY <2>1, <2>2
  <2>4. l.kind = "decision" => l.says \in Decisions
    BY DEF LineOf
  <2>5. CASE ReadFirst(l)
    <3>1. /\ first = NoFence /\ UNCHANGED <<openingFence, counted, fenced>>
          /\ first' = CASE l.kind = "blank" -> NoFence
                  [] l.kind = "decision" -> l.says
                  [] l.kind = "almost" -> "malformed"
                  [] OTHER -> "missing"
      BY <2>5 DEF ReadFirst
    <3>2. /\ \A n \in 1..Len(answer) : answer[n].kind = "blank"
          /\ openingFence = NoFence /\ counted = <<>> /\ fenced = <<>>
      BY <3>1 DEF ParserInv
    <3>3. /\ counted' \in Seq(Decisions) /\ fenced' \in Seq(Decisions)
          /\ Len(counted') + Len(fenced') <= Len(answer')
      BY <2>1, <2>2, <3>1
    <3>4. CASE l.kind = "blank"
      <4>1. first' = NoFence
        BY <3>1, <3>4
      <4>2. \A n \in 1..Len(answer') : answer'[n].kind = "blank"
        BY <2>2, <3>2, <3>4
      <4> QED
        BY <2>2, <2>3, <3>1, <3>2, <3>3, <4>1, <4>2 DEF ParserInv
    <3>5. CASE l.kind # "blank"
      <4>0. PICK s \in Nat : s = Len(answer) + 1
        BY <2>2
      <4>1. first' # NoFence
        BY <2>4, <3>1, <3>5
      <4>2. s \in 1..Len(answer') /\ answer'[s] = l /\ (s + 1)..Len(answer') = {}
        BY <2>2, <4>0
      <4>3. IsStart(s)'
        <5>1. \A m \in 1..(s - 1) : answer'[m].kind = "blank"
          BY <2>2, <3>2, <4>0
        <5> QED
          BY <3>1, <3>5, <4>2, <5>1 DEF IsStart
      <4>4. DecisionsAfter(s)'
        BY <3>1, <3>2, <4>2 DEF DecisionsAfter
      <4> QED
        BY <2>2, <2>3, <3>1, <3>2, <3>3, <4>1, <4>2, <4>3, <4>4 DEF ParserInv
    <3> QED
      BY <3>4, <3>5
  <2>6. CASE ReadFence(l) \/ ReadDecision(l) \/ ReadProse(l)
    <3>1. first # NoFence /\ first' = first
      BY <2>6 DEF ReadFence, ReadDecision, ReadProse
    <3>2. PICK s \in 1..Len(answer) : IsStart(s) /\ DecisionsAfter(s)
      BY <3>1 DEF ParserInv
    <3>3. IsStart(s)' /\ s \in 1..Len(answer')
      BY <2>1, <3>1, <3>2, StartStays
    <3>4. \A n \in (s + 1)..Len(answer) : n \in 1..Len(answer)
      BY <2>2
    <3>5. \A n \in (s + 1)..Len(answer') : n \in (s + 1)..Len(answer) \/ n = Len(answer) + 1
      BY <2>2
    <3>6. ASSUME counted' \in Seq(Decisions), fenced' \in Seq(Decisions),
                 Len(counted') + Len(fenced') <= Len(answer'), DecisionsAfter(s)',
                 IF openingFence' = NoFence THEN fenced' = <<>> ELSE FenceIsOpen'
          PROVE  ParserInv'
      BY <2>2, <2>3, <3>1, <3>3, <3>6 DEF ParserInv
    <3>10. /\ counted # <<>> \/ fenced # <<>> => \E n \in (s + 1)..Len(answer) : IsDecision(n)
           /\ counted = <<>> =>
                 \A n \in (s + 1)..Len(answer) : IsDecision(n) =>
                     InClosedFence(n) \/ (openingFence # NoFence /\ fenced # <<>> /\ OpenBefore(n))
      BY <3>2 DEF DecisionsAfter
    <3>11. \A n \in 1..Len(answer) : answer'[n].kind = "decision" <=> IsDecision(n)
      BY <2>2 DEF IsDecision
    <3>12. IF openingFence = NoFence THEN fenced = <<>> ELSE FenceIsOpen
      BY DEF ParserInv
    <3>7. CASE ReadProse(l)
      <4>1. l.kind # "decision" /\ UNCHANGED <<first, openingFence, counted, fenced>>
        BY <3>7 DEF ReadProse
      <4>2. counted # <<>> \/ fenced # <<>> =>
               \E n \in (s + 1)..Len(answer') : answer'[n].kind = "decision"
        BY <2>2, <3>4, <3>10, <3>11
      <4>3. ASSUME counted = <<>>, NEW n \in (s + 1)..Len(answer'), answer'[n].kind = "decision"
            PROVE  InClosedFence(n)' \/ (openingFence # NoFence /\ fenced # <<>> /\ OpenBefore(n)')
        <5>1. n \in (s + 1)..Len(answer) /\ n \in 1..Len(answer) /\ IsDecision(n)
          BY <2>2, <3>4, <3>5, <3>11, <4>1, <4>3
        <5>2. InClosedFence(n) \/ (openingFence # NoFence /\ fenced # <<>> /\ OpenBefore(n))
          BY <3>10, <4>3, <5>1
        <5> QED
          BY <2>2, <4>1, <5>1, <5>2
      <4>4. DecisionsAfter(s)'
        BY <4>1, <4>2, <4>3 DEF DecisionsAfter, IsDecision
      <4> QED
        BY <2>1, <2>2, <3>6, <3>12, <4>1, <4>4
    <3>8. CASE ReadDecision(l)
      <4>1. /\ l.kind = "decision" /\ UNCHANGED <<first, openingFence>>
            /\ IF openingFence # NoFence
               THEN fenced' = Append(fenced, l.says) /\ UNCHANGED counted
               ELSE counted' = Append(counted, l.says) /\ UNCHANGED fenced
        BY <3>8 DEF ReadDecision
      <4>2. /\ counted' \in Seq(Decisions) /\ fenced' \in Seq(Decisions)
            /\ Len(counted') + Len(fenced') <= Len(answer')
            /\ openingFence # NoFence => fenced' # <<>>
            /\ openingFence = NoFence => counted' # <<>>
            /\ counted' = <<>> => counted = <<>>
        <5> DEFINE v == l.says
        <5>1. v \in Decisions
          BY <2>4, <4>1
        <5> HIDE DEF v
        <5>2. \A q \in Seq(Decisions) : /\ Append(q, v) \in Seq(Decisions)
                                       /\ Len(Append(q, v)) = Len(q) + 1
                                       /\ Append(q, v) # <<>>
          BY <5>1
        <5>3. IF openingFence # NoFence
              THEN fenced' = Append(fenced, v) /\ UNCHANGED counted
              ELSE counted' = Append(counted, v) /\ UNCHANGED fenced
          BY <4>1 DEF v
        <5>4. Len(fenced) \in Nat /\ Len(counted) \in Nat
          BY <2>1
        <5>5. CASE openingFence # NoFence
          <6>1. fenced' = Append(fenced, v) /\ counted' = counted
            BY <5>3, <5>5
          <6>2. fenced' \in Seq(Decisions) /\ Len(fenced') = Len(fenced) + 1 /\ fenced' # <<>>
            BY <2>1, <5>2, <6>1
          <6>3. Len(counted') + Len(fenced') <= Len(answer')
            BY <2>1, <2>2, <5>4, <6>1, <6>2
          <6> QED
            BY <2>1, <5>5, <6>1, <6>2, <6>3
        <5>6. CASE openingFence = NoFence
          <6>1. counted' = Append(counted, v) /\ fenced' = fenced
            BY <5>3, <5>6
          <6>2. counted' \in Seq(Decisions) /\ Len(counted') = Len(counted) + 1 /\ counted' # <<>>
            BY <2>1, <5>2, <6>1
          <6>3. Len(counted') + Len(fenced') <= Len(answer')
            BY <2>1, <2>2, <5>4, <6>1, <6>2
          <6> QED
            BY <2>1, <5>6, <6>1, <6>2, <6>3
        <5> QED
          BY <5>5, <5>6
      <4>3. Len(answer) + 1 \in (s + 1)..Len(answer')
        BY <2>2
      <4>4. ASSUME counted' = <<>>, NEW n \in (s + 1)..Len(answer'), answer'[n].kind = "decision"
            PROVE  InClosedFence(n)' \/ (openingFence # NoFence /\ fenced' # <<>> /\ OpenBefore(n)')
        <5>1. openingFence # NoFence /\ counted = <<>> /\ FenceIsOpen'
          BY <2>2, <3>12, <4>1, <4>2, <4>4
        <5>2. CASE n = Len(answer) + 1
          <6>1. \E i \in 1..Len(answer) : OpenedAt(i)
            BY <3>12, <5>1 DEF FenceIsOpen
          <6>2. \A i \in 1..Len(answer) : i \in 1..(n - 1) /\ (OpenedAt(i) => OpenedAt(i)')
            BY <2>2, <4>1, <5>2 DEF OpenedAt
          <6>3. OpenBefore(n)'
            BY <6>1, <6>2 DEF OpenBefore
          <6> QED
            BY <4>2, <5>1, <6>3
        <5>3. CASE n \in (s + 1)..Len(answer)
          <6>1. n \in 1..Len(answer) /\ IsDecision(n)
            BY <3>4, <3>11, <4>4, <5>3
          <6>2. InClosedFence(n) \/ OpenBefore(n)
            BY <3>10, <5>1, <5>3, <6>1
          <6> QED
            BY <2>2, <4>1, <4>2, <5>1, <6>1, <6>2
        <5> QED
          BY <3>5, <5>2, <5>3
      <4>5. DecisionsAfter(s)'
        BY <2>2, <4>1, <4>3, <4>4 DEF DecisionsAfter, IsDecision
      <4> QED
        BY <2>2, <3>6, <3>12, <4>1, <4>2, <4>5
    <3>9. CASE ReadFence(l)
      <4>1. /\ l.kind = "fence" /\ UNCHANGED <<first, counted>>
            /\ openingFence' = AdvanceFence(l, openingFence)
            /\ fenced' = IF openingFence # NoFence /\ openingFence' = NoFence THEN <<>> ELSE fenced
        BY <3>9 DEF ReadFence
      <4>2. /\ fenced' \in Seq(Decisions) /\ Len(counted') + Len(fenced') <= Len(answer')
            /\ counted' \in Seq(Decisions)
        BY <2>1, <2>2, <4>1
      <4>3. CASE openingFence = NoFence
        <5>1. fenced = <<>> /\ fenced' = <<>>
          BY <3>12, <4>1, <4>3
        <5>2. openingFence' # NoFence => FenceIsOpen'
          <6>1. openingFence' # NoFence => Opens(l) /\ openingFence' = [char |-> l.char, length |-> l.length]
            BY <4>1, <4>3 DEF AdvanceFence
          <6>2. PICK j \in 1..Len(answer') : answer'[j] = l
            BY <2>2
          <6>3. openingFence' # NoFence => OpenedAt(j)'
            BY <4>1, <6>1, <6>2 DEF OpenedAt
          <6> QED
            BY <6>3 DEF FenceIsOpen
        <5>3. ASSUME counted = <<>>, NEW n \in (s + 1)..Len(answer'), answer'[n].kind = "decision"
              PROVE  InClosedFence(n)'
          <6>1. n \in (s + 1)..Len(answer) /\ n \in 1..Len(answer) /\ IsDecision(n)
            BY <2>2, <3>4, <3>5, <3>11, <4>1, <5>3
          <6> QED
            BY <2>2, <3>10, <4>3, <5>3, <6>1
        <5>4. counted # <<>> => \E n \in (s + 1)..Len(answer') : answer'[n].kind = "decision"
          BY <2>2, <3>4, <3>10, <3>11
        <5>5. DecisionsAfter(s)'
          BY <4>1, <5>1, <5>3, <5>4 DEF DecisionsAfter, IsDecision
        <5> QED
          BY <3>6, <4>2, <5>1, <5>2, <5>5
      <4>4. CASE openingFence # NoFence /\ ~Closes(l, openingFence)
        <5>1. openingFence' = openingFence /\ fenced' = fenced
          BY <4>1, <4>4 DEF AdvanceFence
        <5>2. counted # <<>> \/ fenced # <<>> =>
                 \E n \in (s + 1)..Len(answer') : answer'[n].kind = "decision"
          BY <2>2, <3>4, <3>10, <3>11
        <5>3. ASSUME counted = <<>>, NEW n \in (s + 1)..Len(answer'), answer'[n].kind = "decision"
              PROVE  InClosedFence(n)' \/ (openingFence # NoFence /\ fenced # <<>> /\ OpenBefore(n)')
          <6>1. n \in (s + 1)..Len(answer) /\ n \in 1..Len(answer) /\ IsDecision(n)
            BY <2>2, <3>4, <3>5, <3>11, <4>1, <5>3
          <6>2. InClosedFence(n) \/ (openingFence # NoFence /\ fenced # <<>> /\ OpenBefore(n))
            BY <3>10, <5>3, <6>1
          <6> QED
            BY <2>2, <5>1, <6>1, <6>2
        <5>4. DecisionsAfter(s)'
          BY <4>1, <5>1, <5>2, <5>3 DEF DecisionsAfter, IsDecision
        <5> QED
          BY <2>2, <3>6, <3>12, <4>2, <5>1, <5>4
      <4>5. CASE openingFence # NoFence /\ Closes(l, openingFence)
        <5>1. openingFence' = NoFence /\ fenced' = <<>>
          BY <4>1, <4>5 DEF AdvanceFence
        <5>2. counted # <<>> => \E n \in (s + 1)..Len(answer') : answer'[n].kind = "decision"
          BY <2>2, <3>4, <3>10, <3>11
        <5>3. ASSUME counted = <<>>, NEW n \in (s + 1)..Len(answer'), answer'[n].kind = "decision"
              PROVE  InClosedFence(n)'
          <6>1. n \in (s + 1)..Len(answer) /\ n \in 1..Len(answer) /\ IsDecision(n)
            BY <2>2, <3>4, <3>5, <3>11, <4>1, <5>3
          <6>2. InClosedFence(n) \/ OpenBefore(n)
            BY <3>10, <5>3, <6>1
          <6>3. CASE OpenBefore(n)
            <7>1. PICK i \in 1..(n - 1) : OpenedAt(i)
              BY <6>3 DEF OpenBefore
            <7>2. PICK j \in (n + 1)..Len(answer') : answer'[j] = l
              BY <2>2, <6>1
            <7>3. answer'[i] = answer[i]
              BY <2>2, <6>1
            <7>4. /\ answer[i].kind = "fence" /\ Opens(answer[i])
                  /\ l.suffix = "none" /\ l.char = answer[i].char /\ l.length >= answer[i].length
              BY <4>5, <7>1 DEF OpenedAt, Closes
            <7> QED
              BY <4>1, <7>2, <7>3, <7>4 DEF InClosedFence
          <6> QED
            BY <2>2, <6>1, <6>2, <6>3
        <5>4. DecisionsAfter(s)'
          BY <4>1, <5>1, <5>2, <5>3 DEF DecisionsAfter, IsDecision
        <5> QED
          BY <3>6, <4>2, <5>1, <5>4
      <4> QED
        BY <4>3, <4>4, <4>5
    <3> QED
      BY <2>6, <3>7, <3>8, <3>9
  <2> QED
    BY <1>1, <2>5, <2>6 DEF ReadLine
<1>2. CASE UNCHANGED parserVars
  <2>1. UNCHANGED <<answer, first, openingFence, counted, fenced>>
    BY <1>2 DEF parserVars
  <2>2. FenceIsOpen' <=> FenceIsOpen
    BY <2>1 DEF FenceIsOpen, OpenedAt
  <2>3. \A s : DecisionsAfter(s)' <=> DecisionsAfter(s)
    BY <2>1 DEF DecisionsAfter, IsDecision, OpenBefore, OpenedAt, InClosedFence
  <2>4. \A s : IsStart(s)' <=> IsStart(s)
    BY <2>1, Zenon DEF IsStart
  <2> QED
    BY <2>1, <2>2, <2>3, <2>4 DEF ParserInv
<1> QED
  BY <1>1, <1>2 DEF ParserNext

LEMMA ParserInvHolds == ParserSpec => []ParserInv
<1>1. ParserInit => ParserInv
  BY GateProtocolAssumption DEF ParserInit, ParserInv
<1> QED
  BY <1>1, ParserStep, PTL DEF ParserSpec

\* What the answer says, read off the answer alone.
LEMMA VerdictOfInv ==
  ASSUME ParserInv
  PROVE  GateNeverFailsOpen
<1> USE GateProtocolAssumption
<1> DEFINE starts == {n \in 1..Len(answer) : answer[n].kind # "blank"}
           start == CHOOSE n \in starts : \A m \in starts : n <= m
           others == {n \in starts : n # start /\ answer[n].kind = "decision"}
<1>0. GateNeverFailsOpen <=>
       /\ Verdict \in Decisions =>
              /\ answer[start].kind = "decision" /\ answer[start].says = Verdict
              /\ \A n \in others : InClosedFence(n)
       /\ starts # {} => (answer[start].kind = "decision" /\ others = {} => Verdict \in Decisions)
       /\ Verdict \in {"duplicate-decision", "contradictory-decision"} => others # {}
  BY DEF GateNeverFailsOpen
<1>1. CASE first = NoFence
  <2>1. Verdict = "empty-response" /\ starts = {}
    BY <1>1 DEF Verdict, ParserInv
  <2>2. Verdict \notin Decisions
    BY <2>1 DEF Decisions
  <2> QED
    BY <1>0, <2>1, <2>2
<1>2. CASE first # NoFence
  <2>1. PICK s \in 1..Len(answer) : IsStart(s) /\ DecisionsAfter(s)
    BY <1>2 DEF ParserInv
  <2>2. Len(answer) \in Nat
    BY DEF ParserInv
  <2>3. s \in starts /\ \A m \in starts : s <= m
    BY <2>1, <2>2 DEF IsStart
  <2>4. start = s
    BY <2>2, <2>3
  <2> HIDE DEF start
  <2>5. \A n \in 1..Len(answer) : n \in others <=> n \in (s + 1)..Len(answer) /\ IsDecision(n)
    BY <2>2, <2>3, <2>4 DEF IsDecision
  <2>6. \A n \in (s + 1)..Len(answer) : n \in 1..Len(answer)
    BY <2>2
  <2>7. counted \in Seq(Decisions) /\ fenced \in Seq(Decisions)
        /\ (openingFence = NoFence => fenced = <<>>)
    BY DEF ParserInv
  <2>8. Subsequent = <<>> <=> counted = <<>> /\ fenced = <<>>
    BY <2>7 DEF Subsequent
  <2>9. Subsequent = <<>> => \A n \in others : InClosedFence(n)
    BY <2>1, <2>5, <2>8 DEF DecisionsAfter
  <2>10. others = {} => Subsequent = <<>>
    BY <2>1, <2>5, <2>6, <2>8 DEF DecisionsAfter
  <2>11. answer[s] \in Lines
    BY DEF ParserInv
  <2>12. /\ answer[s].kind = "decision" => first = answer[s].says /\ first \in Decisions
         /\ answer[s].kind # "decision" => first \in {"missing", "malformed"}
    BY <2>1, <2>11 DEF IsStart, LineOf
  <2>13. CASE first \in {"missing", "malformed"}
    <3>1. Verdict = first /\ first \notin Decisions
      BY <1>2, <2>13 DEF Verdict, Decisions
    <3>2. Verdict \notin {"duplicate-decision", "contradictory-decision"}
      BY <2>13, <3>1
    <3>3. answer[s].kind # "decision"
      BY <2>12, <3>1
    <3> QED
      BY <1>0, <2>4, <3>1, <3>2, <3>3
  <2>14. CASE first \in Decisions
    <3>1. answer[s].kind = "decision" /\ answer[s].says = first
          /\ first \notin {"missing", "malformed"}
      BY <2>12, <2>14 DEF Decisions
    <3>2. CASE Subsequent = <<>>
      <4>1. Verdict = first
        BY <1>2, <2>14, <3>1, <3>2 DEF Verdict
      <4>2. Verdict \notin {"duplicate-decision", "contradictory-decision"}
        BY <2>14, <4>1 DEF Decisions
      <4> QED
        BY <1>0, <2>4, <2>9, <2>14, <3>1, <3>2, <4>1, <4>2
    <3>3. CASE Subsequent # <<>>
      <4>1. Verdict \in {"duplicate-decision", "contradictory-decision"}
        BY <1>2, <2>14, <3>1, <3>3 DEF Verdict
      <4>2. Verdict \notin Decisions
        BY <4>1 DEF Decisions
      <4> QED
        BY <1>0, <2>10, <3>3, <4>2
    <3> QED
      BY <3>2, <3>3
  <2> QED
    BY <2>12, <2>13, <2>14
<1> QED
  BY <1>1, <1>2

(***************************************************************************)
(* parseAutomaticDecision never fails open, nor shut: whatever lines and   *)
(* fences an answer is made of, and however many, an accepted verdict is   *)
(* its first line and every other decision is a closed example.            *)
(***************************************************************************)
THEOREM GateNeverFailsOpenHolds == ParserSpec => []GateNeverFailsOpen
BY ParserInvHolds, VerdictOfInv, PTL

\* The types of the parser (ParserTypeOK).
THEOREM ParserTypesCorrect == ParserSpec => []ParserTypeOK
<1>1. ParserInv => ParserTypeOK
  <2> SUFFICES ASSUME ParserInv PROVE ParserTypeOK
    OBVIOUS
  <2> USE GateProtocolAssumption DEF ParserInv
  <2>1. Len(answer) \in Nat /\ Len(counted) \in Nat /\ Len(fenced) \in Nat
    OBVIOUS
  <2>2. Len(counted) + Len(fenced) <= MaxLines
    BY <2>1
  <2>3. first \in Decisions \cup {NoFence, "missing", "malformed"}
    <3>1. CASE first = NoFence
      BY <3>1
    <3>2. CASE first # NoFence
      <4>1. PICK s \in 1..Len(answer) : IsStart(s)
        BY <3>2
      <4>2. answer[s] \in Lines
        BY <2>1, <4>1
      <4> QED
        BY <4>1, <4>2 DEF IsStart, LineOf
    <3> QED
      BY <3>1, <3>2
  <2> QED
    BY <2>2, <2>3 DEF ParserTypeOK
<1> QED
  BY ParserInvHolds, <1>1, PTL

-----------------------------------------------------------------------------
(* The configuration of the Pi extension *)

\* The models in memory are those of the file as it was loaded or saved.
ModelsAreLoaded ==
    refs.executor = loadedState.executor /\ refs.advisor = loadedState.advisor

\* What differs from the loaded file was chosen; a command that waits goes back to it.
MemoryIsChosen ==
    /\ \A k \in SavedKeys : refs[k] # loadedState[k] => k \in chosen
    /\ act = Idle \/ act.at = "models" \/ ~act.save => ModelsAreLoaded
    /\ act # Idle => act.previous = loadedState
    /\ act.at = "picking" => /\ act.save
                             /\ act.options.executor = refs.executor
                             /\ act.options.advisor = refs.advisor
    /\ dialog # NotLoaded => /\ act = Idle
                             /\ dialog.setting = refs.setting
                             /\ dialog.alwaysOn = refs.alwaysOn

NothingIsLoaded == refs = Defaults /\ act = Idle /\ dialog = NotLoaded /\ flowOn = FALSE

SavesInv ==
    ~mixed => /\ clobbered \subseteq {"consent"}
              /\ IF loadedState = NotLoaded THEN NothingIsLoaded ELSE MemoryIsChosen

LEMMA ConfigFacts ==
  /\ Defaults \in FileConfig /\ DOMAIN Defaults = SavedKeys \cup {"consent"}
  /\ \A c \in FileConfig : /\ DOMAIN c = DOMAIN Defaults
                           /\ c.executor \in Refs /\ c.advisor \in Refs
                           /\ c.setting \in {"default", "custom"}
                           /\ c.alwaysOn \in BOOLEAN /\ c.consent \in BOOLEAN
  /\ Malformed \notin FileConfig /\ NotLoaded \notin FileConfig /\ NotLoaded \notin Dialogs
  /\ NotLoaded \notin BOOLEAN /\ NoModel \in Refs /\ Usable \subseteq Refs
<1>1. Defaults \in FileConfig
  BY DEF Defaults, FileConfig, Refs
<1>2. DOMAIN Defaults = SavedKeys \cup {"consent"}
  BY DEF Defaults, SavedKeys
<1>3. \A c \in FileConfig : /\ DOMAIN c = DOMAIN Defaults
                            /\ c.executor \in Refs /\ c.advisor \in Refs
                            /\ c.setting \in {"default", "custom"}
                            /\ c.alwaysOn \in BOOLEAN /\ c.consent \in BOOLEAN
  BY DEF Defaults, FileConfig
<1> QED
  BY <1>1, <1>2, <1>3, ActivationAssumption DEF Refs

LEMMA ConfigBuilt ==
  ASSUME NEW e \in Refs, NEW a \in Refs, NEW s \in {"default", "custom"},
         NEW o \in BOOLEAN, NEW t \in BOOLEAN
  PROVE  [executor |-> e, advisor |-> a, setting |-> s, alwaysOn |-> o, consent |-> t] \in FileConfig
BY DEF FileConfig

\* A configuration with some of its entries replaced.
LEMMA ConfigChanged ==
  ASSUME NEW c \in FileConfig
  PROVE  /\ \A v \in Refs : [c EXCEPT !.executor = v] \in FileConfig
         /\ \A v \in Refs : [c EXCEPT !.advisor = v] \in FileConfig
         /\ \A v \in {"default", "custom"} : [c EXCEPT !.setting = v] \in FileConfig
         /\ \A v \in BOOLEAN : [c EXCEPT !.alwaysOn = v] \in FileConfig
         /\ \A v \in BOOLEAN : [c EXCEPT !.consent = v] \in FileConfig
BY DEF FileConfig

LEMMA ConfigMixed ==
  ASSUME NEW c \in FileConfig, NEW d \in FileConfig, NEW W
  PROVE  [k \in DOMAIN Defaults |-> IF k \in W THEN c[k] ELSE d[k]] \in FileConfig
<1> DEFINE new == [k \in DOMAIN Defaults |-> IF k \in W THEN c[k] ELSE d[k]]
<1>1. \A k \in DOMAIN Defaults : new[k] = c[k] \/ new[k] = d[k]
  OBVIOUS
<1>2. DOMAIN new = DOMAIN Defaults /\ new = [k \in DOMAIN new |-> new[k]]
  OBVIOUS
<1> HIDE DEF new
<1>3. DOMAIN Defaults = {"executor", "advisor", "setting", "alwaysOn", "consent"}
  BY DEF Defaults
<1>4. /\ new["executor"] \in Refs /\ new["advisor"] \in Refs
      /\ new["setting"] \in {"default", "custom"}
      /\ new["alwaysOn"] \in BOOLEAN /\ new["consent"] \in BOOLEAN
  BY <1>1, <1>3, ConfigFacts
<1>5. new \in FileConfig
  BY <1>2, <1>3, <1>4 DEF FileConfig
<1> QED
  BY <1>5 DEF new

\* The parts of a save: what is written, and what counts as loaded then.
SavesTo(saved, base, r, ka, ke, consent) ==
    /\ saved = IF Changed(r) = {} THEN disk
               ELSE [k \in DOMAIN Defaults |->
                       IF k \in Written(r, ka, ke) THEN r[k] ELSE Existing[k]]
    /\ base = IF loadedState = NotLoaded THEN Existing ELSE loadedState
    /\ disk' = IF consent = NotLoaded THEN saved
               ELSE [(IF saved = Malformed THEN Defaults ELSE saved) EXCEPT !.consent = consent]
    /\ disk' \in FileConfig \cup {Malformed}
    /\ IF Changed(r) = {} THEN loadedState' = loadedState
       ELSE /\ loadedState' \in FileConfig
            /\ \A k \in DOMAIN Defaults :
                  loadedState'[k] = CASE k = "advisor" /\ ~ka -> base[k]
                                      [] k = "executor" /\ ~ke -> base[k]
                                      [] OTHER -> r[k]

LEMMA SaveParts ==
  ASSUME ActTypeOK, NEW r \in FileConfig, NEW ka \in BOOLEAN, NEW ke \in BOOLEAN,
         NEW keys \in SUBSET DOMAIN Defaults, NEW consent \in BOOLEAN \cup {NotLoaded},
         Save(r, ka, ke, keys, consent)
  PROVE  \E saved \in FileConfig \cup {Malformed}, base \in FileConfig :
            SavesTo(saved, base, r, ka, ke, consent)
<1> DEFINE inSave == Written(r, ka, ke)
           base == IF loadedState = NotLoaded THEN Existing ELSE loadedState
           saved == IF Changed(r) = {} THEN disk
                    ELSE [k \in DOMAIN Defaults |-> IF k \in inSave THEN r[k] ELSE Existing[k]]
<1>1. Existing \in FileConfig
  BY ConfigFacts DEF Existing, ActTypeOK
<1>2. saved \in FileConfig \cup {Malformed}
  BY <1>1, ConfigMixed DEF ActTypeOK
<1>3. disk' = IF consent = NotLoaded THEN saved
              ELSE [(IF saved = Malformed THEN Defaults ELSE saved) EXCEPT !.consent = consent]
  BY DEF Save
<1>4. disk' \in FileConfig \cup {Malformed}
  <2> HIDE DEF saved
  <2> QED
    BY <1>2, <1>3, ConfigFacts, ConfigChanged
<1>5. base \in FileConfig
  BY <1>1 DEF ActTypeOK
<1>6. loadedState' = IF Changed(r) = {} THEN loadedState
                     ELSE [r EXCEPT !.advisor = IF ka THEN @ ELSE base.advisor,
                                    !.executor = IF ke THEN @ ELSE base.executor]
  BY DEF Save
<1> DEFINE new == [r EXCEPT !.advisor = IF ka THEN @ ELSE base.advisor,
                            !.executor = IF ke THEN @ ELSE base.executor]
<1>7. /\ new \in FileConfig
      /\ \A k \in DOMAIN Defaults : new[k] = CASE k = "advisor" /\ ~ka -> base[k]
                                               [] k = "executor" /\ ~ke -> base[k]
                                               [] OTHER -> r[k]
  <2> HIDE DEF base
  <2>1. new \in FileConfig
    BY <1>5 DEF FileConfig
  <2>2. DOMAIN Defaults = {"executor", "advisor", "setting", "alwaysOn", "consent"}
        /\ DOMAIN r = DOMAIN Defaults
    BY ConfigFacts DEF Defaults
  <2> QED
    BY <2>1, <2>2
<1> HIDE DEF new, base, saved, SavesTo
<1> QED
  BY <1>2, <1>3, <1>4, <1>5, <1>6, <1>7 DEF new, base, saved, SavesTo

LEMMA SaveTypes ==
  ASSUME ActTypeOK, NEW r \in FileConfig, NEW ka \in BOOLEAN, NEW ke \in BOOLEAN,
         NEW keys \in SUBSET DOMAIN Defaults, NEW consent \in BOOLEAN \cup {NotLoaded},
         Save(r, ka, ke, keys, consent)
  PROVE  /\ disk' \in FileConfig \cup {Malformed} /\ refs' = r
         /\ loadedState' \in FileConfig \cup {NotLoaded}
         /\ chosen' \subseteq DOMAIN Defaults /\ clobbered' \subseteq DOMAIN Defaults
<1>1. refs' = r /\ chosen' \subseteq chosen \cup keys
      /\ clobbered' \subseteq clobbered \cup DOMAIN Defaults
  BY DEF Save
<1> QED
  BY <1>1, SaveParts DEF ActTypeOK, SavesTo

\* A save of what was chosen changes nothing else, and forgets nothing that was not written.
LEMMA SaveOfChosen ==
  ASSUME ActTypeOK, NEW r \in FileConfig, NEW ka \in BOOLEAN, NEW ke \in BOOLEAN,
         NEW keys \in SUBSET DOMAIN Defaults, NEW consent \in BOOLEAN \cup {NotLoaded},
         Save(r, ka, ke, keys, consent),
         loadedState # NotLoaded, clobbered \subseteq {"consent"},
         \A k \in SavedKeys : r[k] # loadedState[k] => k \in chosen \cup keys
  PROVE  /\ clobbered' \subseteq {"consent"} /\ refs' = r
         /\ loadedState' # NotLoaded
         /\ \A k \in SavedKeys : r[k] # loadedState'[k] => k \in chosen'
         /\ ka \/ r.advisor = loadedState.advisor => r.advisor = loadedState'.advisor
         /\ ke \/ r.executor = loadedState.executor => r.executor = loadedState'.executor
<1>0. /\ SavedKeys = {"executor", "advisor", "setting", "alwaysOn"}
      /\ DOMAIN Defaults = {"executor", "advisor", "setting", "alwaysOn", "consent"}
  BY DEF SavedKeys, Defaults
<1>1. PICK saved \in FileConfig \cup {Malformed}, base \in FileConfig :
         SavesTo(saved, base, r, ka, ke, consent)
  BY SaveParts
<1> USE DEF SavesTo
<1> DEFINE inSave == Written(r, ka, ke)
<1>2. Changed(r) = {k \in SavedKeys : r[k] # loadedState[k]}
  BY DEF Changed
<1>3. inSave = {k \in Changed(r) : (k = "advisor" => ka) /\ (k = "executor" => ke)}
  BY DEF Written
<1>4. /\ refs' = r /\ chosen' = (chosen \cup keys) \ inSave
      /\ clobbered' = IF disk = Malformed THEN clobbered
                      ELSE clobbered \cup {k \in DOMAIN Defaults :
                                              disk'[k] # disk[k] /\ k \notin chosen \cup keys}
  BY DEF Save
<1> HIDE DEF inSave
<1>5. inSave \subseteq chosen \cup keys
  BY <1>2, <1>3
<1>6. clobbered' \subseteq {"consent"}
  <2>1. CASE disk = Malformed
    BY <1>4, <2>1
  <2>2. CASE disk # Malformed
    <3>1. disk \in FileConfig /\ Existing = disk /\ DOMAIN disk = DOMAIN Defaults
      BY <2>2, ConfigFacts DEF ActTypeOK, Existing
    <3>2. saved \in FileConfig /\ saved # Malformed
      <4>1. CASE Changed(r) = {}
        BY <1>1, <3>1, <4>1, ConfigFacts
      <4>2. CASE Changed(r) # {}
        <5> DEFINE new == [k \in DOMAIN Defaults |->
                            IF k \in Written(r, ka, ke) THEN r[k] ELSE disk[k]]
        <5>1. new \in FileConfig
          BY <3>1, ConfigMixed
        <5>2. saved = new
          BY <1>1, <3>1, <4>2
        <5> HIDE DEF new
        <5> QED
          BY <5>1, <5>2, ConfigFacts
      <4> QED
        BY <4>1, <4>2
    <3>3. \A k \in DOMAIN Defaults : saved[k] # disk[k] => k \in inSave
      BY <1>1, <3>1 DEF inSave
    <3>4. \A k \in DOMAIN Defaults : disk'[k] # saved[k] => k = "consent"
      BY <1>1, <3>2, ConfigFacts
    <3>5. \A k \in DOMAIN Defaults : disk'[k] # disk[k] => k = "consent" \/ k \in chosen \cup keys
      BY <1>5, <3>3, <3>4
    <3> QED
      BY <1>4, <2>2, <3>5
  <2> QED
    BY <2>1, <2>2
<1>7. base = loadedState
  BY <1>1
<1>8. CASE Changed(r) = {}
  <2>1. \A k \in SavedKeys : r[k] = loadedState[k]
    BY <1>2, <1>8
  <2>2. loadedState' = loadedState
    BY <1>1, <1>8
  <2> QED
    BY <1>0, <1>4, <1>6, <2>1, <2>2
<1>9. CASE Changed(r) # {}
  <2>1. loadedState' \in FileConfig /\ loadedState' # NotLoaded
    BY <1>1, <1>9, ConfigFacts
  <2>2. \A k \in SavedKeys :
           loadedState'[k] = CASE k = "advisor" /\ ~ka -> loadedState[k]
                               [] k = "executor" /\ ~ke -> loadedState[k]
                               [] OTHER -> r[k]
    BY <1>0, <1>1, <1>7, <1>9
  <2>3. \A k \in SavedKeys : r[k] # loadedState'[k] =>
           r[k] # loadedState[k] /\ ((k = "advisor" /\ ~ka) \/ (k = "executor" /\ ~ke))
    BY <2>2
  <2>4. \A k \in SavedKeys : r[k] # loadedState'[k] => k \in chosen'
    BY <1>3, <1>4, <2>3
  <2>5. ka \/ r.advisor = loadedState.advisor => r.advisor = loadedState'.advisor
    BY <1>0, <2>3
  <2>6. ke \/ r.executor = loadedState.executor => r.executor = loadedState'.executor
    BY <1>0, <2>3
  <2> QED
    BY <1>4, <1>6, <2>1, <2>4, <2>5, <2>6
<1> QED
  BY <1>8, <1>9

-----------------------------------------------------------------------------
(* Loading *)

LEMMA LoadedConfig ==
  ASSUME ActTypeOK
  PROVE  Loaded \in FileConfig /\ (LoadOK => disk \in FileConfig /\ Loaded = disk)
BY ConfigFacts DEF ActTypeOK, Loaded, LoadOK

LEMMA LoadTypes ==
  ASSUME ActTypeOK, NEW r \in FileConfig, LoadInto(r)
  PROVE  /\ refs' = r /\ persisted' \in [executor: Refs, advisor: Refs]
         /\ loadedState' \in FileConfig \cup {NotLoaded}
         /\ LoadOK => loadedState' = Loaded /\ loadedState' # NotLoaded
<1>1. Loaded.executor \in Refs /\ Loaded.advisor \in Refs
  BY LoadedConfig, ConfigFacts
<1> QED
  BY <1>1, LoadedConfig, ConfigFacts DEF LoadInto, ActTypeOK

LEMMA IdleIsIdle ==
  ASSUME ActTypeOK
  PROVE  act = Idle <=> act.at \notin {"picking", "models", "auth", "switching"}
BY DEF ActTypeOK, Idle, Activations

\* With a setting that was not understood, until the command is refused.
RawConfig == [executor: Refs, advisor: Refs, setting: {"default", "custom", "invalid"},
              alwaysOn: BOOLEAN, consent: BOOLEAN]

LEMMA RestoredConfig ==
  ASSUME NEW r \in RawConfig, NEW c \in FileConfig
  PROVE  /\ Restored(r, c) \in FileConfig
         /\ Restored(r, c).executor = c.executor /\ Restored(r, c).advisor = c.advisor
         /\ Restored(r, c).setting = c.setting /\ Restored(r, c).alwaysOn = r.alwaysOn
BY DEF Restored, FileConfig, RawConfig

LEMMA ConfigsAreRaw == FileConfig \subseteq RawConfig
BY DEF FileConfig, RawConfig

AllArgs == [executor: Refs, advisor: Refs, setting: {"none", "custom", "invalid"}]

\* Loaded with the arguments of a command and the model that was selected before.
Planned(args, waiting) ==
    [Override(Loaded, args) EXCEPT
        !.executor = IF Adopted(args, waiting) = NoModel THEN @ ELSE Adopted(args, waiting)]

LEMMA OverrideConfig ==
  ASSUME NEW c \in FileConfig, NEW args \in AllArgs
  PROVE  /\ Override(c, args) \in RawConfig
         /\ Override(c, args).executor = IF args.executor = NoModel THEN c.executor ELSE args.executor
         /\ Override(c, args).advisor = IF args.advisor = NoModel THEN c.advisor ELSE args.advisor
         /\ Override(c, args).setting = IF args.setting = "none" THEN c.setting ELSE args.setting
         /\ Override(c, args).alwaysOn = c.alwaysOn
BY DEF Override, FileConfig, RawConfig, AllArgs

LEMMA ExecutorReplaced ==
  ASSUME NEW c \in RawConfig, NEW v \in Refs
  PROVE  /\ [c EXCEPT !.executor = v] \in RawConfig
         /\ [c EXCEPT !.executor = v].executor = v
         /\ [c EXCEPT !.executor = v].advisor = c.advisor
         /\ [c EXCEPT !.executor = v].setting = c.setting
         /\ [c EXCEPT !.executor = v].alwaysOn = c.alwaysOn
BY DEF RawConfig

LEMMA RawWithSetting ==
  ASSUME NEW c \in RawConfig
  PROVE  c.setting # "invalid" => c \in FileConfig
BY DEF FileConfig, RawConfig

LEMMA PlannedConfig ==
  ASSUME ActTypeOK, NEW args \in AllArgs, NEW waiting \in Refs
  PROVE  /\ args.setting # "invalid" => Planned(args, waiting) \in FileConfig
         /\ Planned(args, waiting).executor \in Refs /\ Planned(args, waiting).advisor \in Refs
         /\ \A k \in SavedKeys : Planned(args, waiting)[k] # Loaded[k] =>
               \/ k \in Overridden(args)
               \/ k = "executor" /\ Adopted(args, waiting) # NoModel
         /\ Restored(Planned(args, waiting), Loaded) \in FileConfig
         /\ \A k \in SavedKeys : Restored(Planned(args, waiting), Loaded)[k] = Loaded[k]
<1> DEFINE ad == Adopted(args, waiting)
           o == Override(Loaded, args)
           p == Planned(args, waiting)
           v == IF ad = NoModel THEN o.executor ELSE ad
<1>0. Loaded \in FileConfig
  BY LoadedConfig
<1>1. ad \in Refs
  BY ConfigFacts DEF Adopted
<1>2. /\ o \in RawConfig
      /\ o.executor = IF args.executor = NoModel THEN Loaded.executor ELSE args.executor
      /\ o.advisor = IF args.advisor = NoModel THEN Loaded.advisor ELSE args.advisor
      /\ o.setting = IF args.setting = "none" THEN Loaded.setting ELSE args.setting
      /\ o.alwaysOn = Loaded.alwaysOn
  BY <1>0, OverrideConfig
<1>3. o.executor \in Refs /\ o.advisor \in Refs
  <2> HIDE DEF o
  <2> QED
    BY <1>2 DEF RawConfig
<1>4. p = [o EXCEPT !.executor = v]
  BY DEF Planned
<1>5. v \in Refs
  <2> HIDE DEF o, ad
  <2> QED
    BY <1>1, <1>3
<1> HIDE DEF o, v, p
<1>6. /\ p \in RawConfig /\ p.executor = v /\ p.advisor = o.advisor /\ p.setting = o.setting
      /\ p.alwaysOn = o.alwaysOn
  BY <1>2, <1>4, <1>5, ExecutorReplaced
<1>7. args.setting # "invalid" => p \in FileConfig
  <2>1. Loaded.setting # "invalid"
    BY <1>0, ConfigFacts
  <2> QED
    BY <1>2, <1>6, <2>1, RawWithSetting
<1>8. p.executor \in Refs /\ p.advisor \in Refs
  BY <1>3, <1>5, <1>6
<1>9. p.executor # Loaded.executor => "executor" \in Overridden(args) \/ ad # NoModel
  <2> HIDE DEF ad
  <2> QED
    BY <1>2, <1>6 DEF Overridden, v
<1>10. /\ p.advisor # Loaded.advisor => "advisor" \in Overridden(args)
       /\ p.setting # Loaded.setting => "setting" \in Overridden(args)
       /\ p.alwaysOn = Loaded.alwaysOn
  BY <1>2, <1>6 DEF Overridden
<1>11. \A k \in SavedKeys : p[k] # Loaded[k] =>
          k \in Overridden(args) \/ (k = "executor" /\ ad # NoModel)
  <2> HIDE DEF ad
  <2> QED
    BY <1>9, <1>10 DEF SavedKeys
<1>12. /\ Restored(p, Loaded) \in FileConfig
       /\ \A k \in SavedKeys : Restored(p, Loaded)[k] = Loaded[k]
  BY <1>0, <1>6, <1>2, RestoredConfig DEF SavedKeys
<1> QED
  BY <1>7, <1>8, <1>11, <1>12 DEF p, ad

\* An activation that begins, waits, or is refused at once.
LEMMA ActivateEffect ==
  ASSUME ActTypeOK, NEW args \in AllArgs, NEW announce \in BOOLEAN, NEW waiting \in Refs,
         Activate(args, announce, waiting)
  PROVE  /\ refs' \in FileConfig /\ persisted' \in [executor: Refs, advisor: Refs]
         /\ loadedState' \in FileConfig \cup {NotLoaded}
         /\ act' = Idle \/ act' \in Activations
         /\ chosen' \subseteq DOMAIN Defaults /\ mixed' \in BOOLEAN
         /\ ~mixed' => /\ ~mixed /\ ~UserIsAsked /\ loadedState' # NotLoaded
                       /\ dialog' = dialog => MemoryIsChosen'
<1> DEFINE adopted == Adopted(args, waiting)
           planned == Planned(args, waiting)
           picking == SelectExecutor(args, waiting) \/ SelectAdvisor(args)
           ready == ~BadArgs(args) /\ (IF picking THEN announce ELSE Resolvable(planned))
           waits == LoadOK /\ ready
           record == [at |-> IF picking THEN "picking" ELSE "auth",
                      previous |-> Loaded, target |-> planned.executor,
                      selectExecutor |-> SelectExecutor(args, waiting),
                      selectAdvisor |-> SelectAdvisor(args),
                      options |-> [executor |-> planned.executor, advisor |-> planned.advisor],
                      save |-> picking \/ adopted # NoModel \/ Overridden(args) # {}]
<1>1. /\ LoadInto(IF waits THEN planned ELSE Restored(planned, Loaded))
      /\ act' = IF ~waits THEN Idle ELSE record
      /\ chosen' = IF waits THEN Overridden(args) \cup (IF adopted = NoModel THEN {} ELSE {"executor"})
                   ELSE {}
      /\ mixed' = (mixed \/ ~LoadOK \/ UserIsAsked)
  BY DEF Activate, Planned
<1>2. /\ picking \in BOOLEAN /\ waits \in BOOLEAN
      /\ waits => LoadOK /\ args.setting # "invalid"
  BY DEF BadArgs
<1>3. record \in Activations
  <2>1. /\ Loaded \in FileConfig /\ planned.executor \in Refs /\ planned.advisor \in Refs
    BY LoadedConfig, PlannedConfig
  <2>2. SelectExecutor(args, waiting) \in BOOLEAN /\ SelectAdvisor(args) \in BOOLEAN
    BY DEF SelectExecutor, SelectAdvisor
  <2> HIDE DEF planned, picking, adopted
  <2> QED
    BY <2>1, <2>2 DEF Activations
<1> HIDE DEF record, planned, ready, picking, adopted
<1>4. /\ waits => planned \in FileConfig
      /\ Restored(planned, Loaded) \in FileConfig
      /\ \A k \in SavedKeys : Restored(planned, Loaded)[k] = Loaded[k]
  BY <1>2, PlannedConfig DEF planned
<1>5. /\ refs' = IF waits THEN planned ELSE Restored(planned, Loaded)
      /\ refs' \in FileConfig
      /\ persisted' \in [executor: Refs, advisor: Refs]
      /\ loadedState' \in FileConfig \cup {NotLoaded}
      /\ LoadOK => loadedState' = Loaded /\ loadedState' # NotLoaded
  <2>1. CASE waits
    BY <1>1, <1>4, <2>1, LoadTypes
  <2>2. CASE ~waits
    BY <1>1, <1>4, <2>2, LoadTypes
  <2> QED
    BY <1>2, <2>1, <2>2
<1>6. act' = Idle \/ act' \in Activations
  BY <1>1, <1>3
<1>7. chosen' \subseteq DOMAIN Defaults
  <2>1. Overridden(args) \subseteq {"executor", "advisor", "setting"}
    BY DEF Overridden
  <2> QED
    BY <1>1, <2>1 DEF Defaults
<1>8. mixed' \in BOOLEAN
  BY <1>1 DEF ActTypeOK, LoadOK, UserIsAsked
<1>9. ASSUME ~mixed'
      PROVE  /\ ~mixed /\ ~UserIsAsked /\ loadedState' # NotLoaded
             /\ dialog' = dialog => MemoryIsChosen'
  <2>1. ~mixed /\ LoadOK /\ ~UserIsAsked /\ dialog = NotLoaded
    BY <1>1, <1>9 DEF UserIsAsked
  <2>2. loadedState' = Loaded /\ loadedState' # NotLoaded
    BY <1>5, <2>1
  <2>3. CASE ~waits
    <3>1. act' = Idle /\ refs' = Restored(planned, Loaded)
      BY <1>1, <1>5, <2>3
    <3>2. \A k \in SavedKeys : refs'[k] = loadedState'[k]
      BY <1>4, <2>2, <3>1
    <3>3. act'.at \notin {"picking", "models", "auth", "switching"}
      BY <3>1 DEF Idle
    <3>4. ModelsAreLoaded'
      BY <3>2 DEF ModelsAreLoaded, SavedKeys
    <3> QED
      BY <2>1, <2>2, <3>1, <3>2, <3>3, <3>4 DEF MemoryIsChosen
  <2>4. CASE waits
    <3>1. act' = record /\ refs' = planned
      BY <1>1, <1>5, <2>4
    <3>2. /\ act'.at = IF picking THEN "picking" ELSE "auth"
          /\ act'.previous = Loaded
          /\ act'.save = (picking \/ adopted # NoModel \/ Overridden(args) # {})
      BY <3>1 DEF record
    <3>3. \A k \in SavedKeys : planned[k] # Loaded[k] =>
             k \in Overridden(args) \/ (k = "executor" /\ adopted # NoModel)
      BY PlannedConfig DEF planned, adopted
    <3>4. \A k \in SavedKeys : refs'[k] # loadedState'[k] => k \in chosen'
      BY <1>1, <2>2, <2>4, <3>1, <3>3
    <3>5. ~act'.save => ModelsAreLoaded'
      BY <2>2, <3>1, <3>2, <3>3 DEF ModelsAreLoaded, SavedKeys
    <3>6. act'.at = "picking" => /\ act'.save
                                 /\ act'.options.executor = refs'.executor
                                 /\ act'.options.advisor = refs'.advisor
      BY <3>1, <3>2 DEF record
    <3>7. act'.at # "models" /\ act' # Idle
      BY <3>1, <3>2 DEF record, Idle
    <3> QED
      BY <2>1, <2>2, <3>2, <3>4, <3>5, <3>6, <3>7 DEF MemoryIsChosen
  <2> QED
    BY <1>2, <2>1, <2>2, <2>3, <2>4
<1> QED
  BY <1>5, <1>6, <1>7, <1>8, <1>9

-----------------------------------------------------------------------------
(* Each action *)

LEMMA BackgroundLoadStep ==
  ASSUME ActTypeOK, SavesInv, BackgroundLoad
  PROVE  ActTypeOK' /\ SavesInv'
<1>1. /\ refs' = Loaded /\ Loaded \in FileConfig
      /\ persisted' \in [executor: Refs, advisor: Refs]
      /\ loadedState' \in FileConfig \cup {NotLoaded}
      /\ LoadOK => loadedState' = Loaded /\ loadedState' # NotLoaded
  BY LoadTypes, LoadedConfig DEF BackgroundLoad
<1>2. /\ UNCHANGED <<disk, pendingModel, flowOn, model, act, dialog, edits, commands, clobbered>>
      /\ chosen' = {} /\ mixed' = (mixed \/ ~LoadOK \/ UserIsAsked)
  BY DEF BackgroundLoad
<1>3. mixed' \in BOOLEAN
  BY <1>2 DEF ActTypeOK, LoadOK, UserIsAsked
<1>4. ActTypeOK'
  BY <1>1, <1>2, <1>3 DEF ActTypeOK
<1>5. ASSUME ~mixed'
      PROVE  loadedState' # NotLoaded /\ MemoryIsChosen' /\ ~mixed
  <2>1. ~mixed /\ LoadOK /\ act = Idle /\ dialog = NotLoaded
    BY <1>2, <1>5 DEF UserIsAsked
  <2>2. loadedState' = refs' /\ loadedState' # NotLoaded
    BY <1>1, <2>1
  <2>3. act' = Idle /\ dialog' = NotLoaded /\ act'.at # "picking"
    BY <1>2, <2>1 DEF Idle
  <2> QED
    BY <2>1, <2>2, <2>3 DEF MemoryIsChosen, ModelsAreLoaded
<1> QED
  BY <1>2, <1>4, <1>5 DEF SavesInv

LEMMA NoArgsAreArgs == NoArgs \in AllArgs
BY DEF NoArgs, AllArgs, Refs

LEMMA ActivateStep ==
  ASSUME ActTypeOK, SavesInv, NEW args \in AllArgs, NEW announce \in BOOLEAN, NEW waiting \in Refs,
         Activate(args, announce, waiting),
         UNCHANGED <<disk, model, dialog, edits, clobbered>>,
         pendingModel' \in Refs, flowOn' \in BOOLEAN, commands' \in 0..MaxCommands
  PROVE  ActTypeOK' /\ SavesInv'
<1>1. /\ refs' \in FileConfig /\ persisted' \in [executor: Refs, advisor: Refs]
      /\ loadedState' \in FileConfig \cup {NotLoaded}
      /\ act' = Idle \/ act' \in Activations
      /\ chosen' \subseteq DOMAIN Defaults /\ mixed' \in BOOLEAN
      /\ ~mixed' => /\ ~mixed /\ ~UserIsAsked /\ loadedState' # NotLoaded
                    /\ dialog' = dialog => MemoryIsChosen'
  BY ActivateEffect
<1>2. ActTypeOK'
  BY <1>1 DEF ActTypeOK
<1>3. SavesInv'
  BY <1>1 DEF SavesInv
<1> QED
  BY <1>2, <1>3

LEMMA LoadAtSessionStartStep ==
  ASSUME ActTypeOK, SavesInv, LoadAtSessionStart
  PROVE  ActTypeOK' /\ SavesInv'
<1>1. commands' \in 0..MaxCommands
  BY ActivationAssumption DEF LoadAtSessionStart, Count, ActTypeOK
<1>2. /\ pendingModel' = NoModel /\ flowOn' = FALSE /\ ~UserIsAsked
      /\ UNCHANGED <<disk, model, dialog, edits, clobbered>>
  BY DEF LoadAtSessionStart
<1>3. pendingModel' \in Refs /\ flowOn' \in BOOLEAN
  BY <1>2, ConfigFacts
<1>4. CASE Loaded.alwaysOn
  <2>1. Activate(NoArgs, FALSE, NoModel)
    BY <1>4 DEF LoadAtSessionStart
  <2> QED
    BY <1>1, <1>2, <1>3, <2>1, NoArgsAreArgs, ActivateStep, ConfigFacts
<1>5. CASE ~Loaded.alwaysOn
  <2>1. /\ LoadInto(Loaded) /\ chosen' = {} /\ mixed' = (mixed \/ ~LoadOK)
        /\ act' = act
    BY <1>5 DEF LoadAtSessionStart
  <2>2. /\ refs' = Loaded /\ Loaded \in FileConfig
        /\ persisted' \in [executor: Refs, advisor: Refs]
        /\ loadedState' \in FileConfig \cup {NotLoaded}
        /\ LoadOK => loadedState' = Loaded /\ loadedState' # NotLoaded
    BY <2>1, LoadTypes, LoadedConfig
  <2>3. mixed' \in BOOLEAN
    BY <2>1 DEF ActTypeOK, LoadOK
  <2>4. ActTypeOK'
    BY <1>1, <1>2, <1>3, <2>1, <2>2, <2>3 DEF ActTypeOK
  <2>5. act' = Idle /\ dialog' = NotLoaded /\ act'.at # "picking"
    BY <1>2, <2>1 DEF UserIsAsked, Idle
  <2>6. ASSUME ~mixed' PROVE ~mixed /\ loadedState' # NotLoaded /\ MemoryIsChosen'
    <3>1. ~mixed /\ loadedState' = refs' /\ loadedState' # NotLoaded
      BY <2>1, <2>2, <2>6
    <3> QED
      BY <2>5, <3>1 DEF MemoryIsChosen, ModelsAreLoaded
  <2>7. SavesInv'
    BY <1>2, <2>6 DEF SavesInv
  <2> QED
    BY <2>4, <2>7
<1> QED
  BY <1>4, <1>5

LEMMA AdvisorStep ==
  ASSUME ActTypeOK, SavesInv, NEW args \in ArgSets, Advisor(args)
  PROVE  ActTypeOK' /\ SavesInv'
<1>1. commands' \in 0..MaxCommands
  BY ActivationAssumption DEF Advisor, Count, ActTypeOK
<1>2. args \in AllArgs
  BY ActivationAssumption DEF AllArgs
<1>3. /\ Activate(args, TRUE, pendingModel) /\ pendingModel \in Refs
      /\ UNCHANGED <<disk, model, dialog, edits, clobbered>>
      /\ pendingModel' \in Refs /\ flowOn' \in BOOLEAN
  BY DEF Advisor, ActTypeOK
<1> QED
  BY <1>1, <1>2, <1>3, ActivateStep

LEMMA RefuseActivationStep ==
  ASSUME ActTypeOK, SavesInv, act.at \in {"picking", "auth", "switching"}, RefuseActivation
  PROVE  ActTypeOK' /\ SavesInv'
<1>1. act # Idle /\ act \in Activations /\ act.previous \in FileConfig
  BY IdleIsIdle DEF ActTypeOK, Activations
<1>2. /\ refs' = Restored(refs, act.previous) /\ act' = Idle
      /\ chosen' = chosen \ {"executor", "advisor", "setting"}
      /\ UNCHANGED <<disk, loadedState, persisted, pendingModel, flowOn, model, dialog, edits,
                     commands, mixed, clobbered>>
  BY DEF RefuseActivation
<1>3. /\ refs' \in FileConfig
      /\ refs'.executor = act.previous.executor /\ refs'.advisor = act.previous.advisor
      /\ refs'.setting = act.previous.setting /\ refs'.alwaysOn = refs.alwaysOn
  BY <1>1, <1>2, RestoredConfig, ConfigsAreRaw DEF ActTypeOK
<1>4. ActTypeOK'
  BY <1>2, <1>3 DEF ActTypeOK
<1>5. ASSUME ~mixed
      PROVE  loadedState' # NotLoaded /\ MemoryIsChosen'
  <2>1. loadedState # NotLoaded /\ MemoryIsChosen
    BY <1>1, <1>5 DEF SavesInv, NothingIsLoaded
  <2>2. act.previous = loadedState /\ dialog = NotLoaded
    BY <1>1, <2>1 DEF MemoryIsChosen
  <2>3. \A k \in SavedKeys : refs'[k] # loadedState[k] => k = "alwaysOn" /\ k \in chosen
    BY <1>3, <2>1, <2>2 DEF MemoryIsChosen, SavedKeys
  <2>4. act'.at # "picking"
    BY <1>2 DEF Idle
  <2>5. ModelsAreLoaded'
    BY <1>2, <1>3, <2>2 DEF ModelsAreLoaded
  <2> QED
    BY <1>2, <2>1, <2>2, <2>3, <2>4, <2>5 DEF MemoryIsChosen
<1>6. SavesInv'
  BY <1>2, <1>5 DEF SavesInv
<1> QED
  BY <1>4, <1>6

LEMMA PickedStep ==
  ASSUME ActTypeOK, SavesInv, NEW e \in Refs, NEW a \in Refs, Picked(e, a)
  PROVE  ActTypeOK' /\ SavesInv'
<1>1. act # Idle /\ act \in Activations /\ act.at = "picking"
  BY IdleIsIdle DEF ActTypeOK, Picked
<1>2. /\ refs' = [refs EXCEPT !.executor = e, !.advisor = a]
      /\ act' = [act EXCEPT !.at = "auth", !.target = e]
      /\ chosen' = chosen \cup (IF act.selectExecutor THEN {"executor"} ELSE {})
                          \cup (IF act.selectAdvisor THEN {"advisor"} ELSE {})
      /\ ~act.selectExecutor => e = act.options.executor
      /\ ~act.selectAdvisor => a = act.options.advisor
      /\ UNCHANGED <<disk, loadedState, persisted, pendingModel, flowOn, model, dialog, edits,
                     commands, mixed, clobbered>>
  BY DEF Picked
<1>3. /\ refs' \in FileConfig /\ refs'.executor = e /\ refs'.advisor = a
      /\ refs'.setting = refs.setting /\ refs'.alwaysOn = refs.alwaysOn
  BY <1>2 DEF ActTypeOK, FileConfig
<1>4. /\ act' \in Activations /\ act'.at = "auth" /\ act'.previous = act.previous
      /\ act'.save = act.save
  BY <1>1, <1>2 DEF Activations
<1>5. ActTypeOK'
  BY <1>2, <1>3, <1>4 DEF ActTypeOK, Defaults
<1>6. ASSUME ~mixed
      PROVE  loadedState' # NotLoaded /\ MemoryIsChosen'
  <2>1. loadedState # NotLoaded /\ MemoryIsChosen
    BY <1>1, <1>6 DEF SavesInv, NothingIsLoaded
  <2>2. /\ act.previous = loadedState /\ act.save /\ dialog = NotLoaded
        /\ act.options.executor = refs.executor /\ act.options.advisor = refs.advisor
        /\ \A k \in SavedKeys : refs[k] # loadedState[k] => k \in chosen
    BY <1>1, <2>1 DEF MemoryIsChosen
  <2>3. \A k \in SavedKeys : refs'[k] # loadedState[k] => k \in chosen'
    BY <1>2, <1>3, <2>2 DEF SavedKeys
  <2>4. act' # Idle
    BY <1>4 DEF Idle
  <2> QED
    BY <1>2, <1>4, <2>1, <2>2, <2>3, <2>4 DEF MemoryIsChosen
<1>7. SavesInv'
  BY <1>2, <1>6 DEF SavesInv
<1> QED
  BY <1>5, <1>7

LEMMA KeyFoundStep ==
  ASSUME ActTypeOK, SavesInv, KeyFound
  PROVE  ActTypeOK' /\ SavesInv'
<1>1. act # Idle /\ act \in Activations /\ act.at = "auth"
  BY IdleIsIdle DEF ActTypeOK, KeyFound
<1>2. /\ act' = [act EXCEPT !.at = "switching"]
      /\ UNCHANGED <<disk, refs, loadedState, persisted, pendingModel, flowOn, model, dialog, edits,
                     commands, chosen, mixed, clobbered>>
  BY DEF KeyFound
<1>3. /\ act' \in Activations /\ act'.at = "switching" /\ act'.previous = act.previous
      /\ act'.save = act.save /\ act' # Idle
  BY <1>1, <1>2 DEF Activations, Idle
<1>4. ActTypeOK'
  BY <1>2, <1>3 DEF ActTypeOK
<1>5. ASSUME ~mixed
      PROVE  loadedState' # NotLoaded /\ MemoryIsChosen'
  <2>1. loadedState # NotLoaded /\ MemoryIsChosen
    BY <1>1, <1>5 DEF SavesInv, NothingIsLoaded
  <2> QED
    BY <1>1, <1>2, <1>3, <2>1 DEF MemoryIsChosen, ModelsAreLoaded
<1>6. SavesInv'
  BY <1>2, <1>5 DEF SavesInv
<1> QED
  BY <1>4, <1>6

LEMMA ActivatedStep ==
  ASSUME ActTypeOK, SavesInv, Activated
  PROVE  ActTypeOK' /\ SavesInv'
<1>1. act # Idle /\ act \in Activations /\ act.at = "switching" /\ act.target \in Refs
      /\ act.save \in BOOLEAN
  BY IdleIsIdle DEF ActTypeOK, Activated, Activations
<1>2. /\ model' = act.target /\ pendingModel' = NoModel /\ flowOn' = TRUE /\ act' = Idle
      /\ UNCHANGED <<persisted, dialog, edits, commands, mixed>>
  BY DEF Activated
<1>3. /\ act.save => Save(refs, TRUE, TRUE, {}, NotLoaded)
      /\ ~act.save => UNCHANGED <<disk, refs, loadedState, chosen, clobbered>>
  BY DEF Activated
<1>4. /\ disk' \in FileConfig \cup {Malformed} /\ refs' = refs
      /\ loadedState' \in FileConfig \cup {NotLoaded}
      /\ chosen' \subseteq DOMAIN Defaults /\ clobbered' \subseteq DOMAIN Defaults
  <2>1. CASE act.save
    BY <1>3, <2>1, SaveTypes DEF ActTypeOK
  <2>2. CASE ~act.save
    BY <1>3, <2>2 DEF ActTypeOK
  <2> QED
    BY <2>1, <2>2
<1>5. ActTypeOK'
  BY <1>1, <1>2, <1>4, ConfigFacts DEF ActTypeOK
<1>6. ASSUME ~mixed
      PROVE  clobbered' \subseteq {"consent"} /\ loadedState' # NotLoaded /\ MemoryIsChosen'
  <2>1. clobbered \subseteq {"consent"} /\ loadedState # NotLoaded /\ MemoryIsChosen
    BY <1>1, <1>6 DEF SavesInv, NothingIsLoaded
  <2>2. dialog' = NotLoaded /\ act'.at # "picking"
    BY <1>1, <1>2, <2>1 DEF MemoryIsChosen, Idle
  <2>3. CASE act.save
    <3>1. /\ clobbered' \subseteq {"consent"} /\ loadedState' # NotLoaded
          /\ \A k \in SavedKeys : refs[k] # loadedState'[k] => k \in chosen'
          /\ refs.advisor = loadedState'.advisor /\ refs.executor = loadedState'.executor
      BY <1>3, <2>1, <2>3, SaveOfChosen DEF ActTypeOK, MemoryIsChosen
    <3> QED
      BY <1>2, <1>4, <2>2, <3>1 DEF MemoryIsChosen, ModelsAreLoaded
  <2>4. CASE ~act.save
    BY <1>2, <1>3, <2>1, <2>2, <2>4 DEF MemoryIsChosen, ModelsAreLoaded
  <2> QED
    BY <2>3, <2>4
<1>7. SavesInv'
  BY <1>2, <1>6 DEF SavesInv
<1> QED
  BY <1>5, <1>7

LEMMA SaveThrowsStep ==
  ASSUME ActTypeOK, SaveThrows
  PROVE  ActTypeOK' /\ SavesInv'
<1>1. act \in Activations /\ act.target \in Refs
  BY IdleIsIdle DEF ActTypeOK, SaveThrows, Activations
<1>2. /\ model' = act.target /\ act' = Idle /\ mixed' = TRUE
      /\ UNCHANGED <<disk, refs, loadedState, persisted, pendingModel, flowOn, dialog, edits,
                     commands, chosen, clobbered>>
  BY DEF SaveThrows
<1>3. ActTypeOK'
  BY <1>1, <1>2 DEF ActTypeOK
<1> QED
  BY <1>2, <1>3 DEF SavesInv

LEMMA ModelsCommandStep ==
  ASSUME ActTypeOK, SavesInv, ModelsCommand
  PROVE  ActTypeOK' /\ SavesInv'
<1>1. commands' \in 0..MaxCommands
  BY ActivationAssumption DEF ModelsCommand, Count, ActTypeOK
<1> DEFINE record == [at |-> "models", previous |-> Loaded, target |-> NoModel,
                      selectExecutor |-> TRUE, selectAdvisor |-> TRUE,
                      options |-> NoPersisted, save |-> TRUE]
<1>2. /\ dialog = NotLoaded /\ LoadInto(Loaded)
      /\ act' = IF ~LoadOK THEN Idle ELSE record
      /\ chosen' = {} /\ mixed' = (mixed \/ ~LoadOK)
      /\ UNCHANGED <<disk, pendingModel, flowOn, model, dialog, edits, clobbered>>
  BY DEF ModelsCommand, Modal
<1>3. /\ refs' = Loaded /\ Loaded \in FileConfig
      /\ persisted' \in [executor: Refs, advisor: Refs]
      /\ loadedState' \in FileConfig \cup {NotLoaded}
      /\ LoadOK => loadedState' = Loaded /\ loadedState' # NotLoaded
  BY <1>2, LoadTypes, LoadedConfig
<1>4. record \in Activations
  BY <1>3, ConfigFacts DEF Activations, NoPersisted
<1>5. mixed' \in BOOLEAN
  BY <1>2 DEF ActTypeOK, LoadOK
<1>6. ActTypeOK'
  BY <1>1, <1>2, <1>3, <1>4, <1>5 DEF ActTypeOK
<1>7. ASSUME ~mixed'
      PROVE  loadedState' # NotLoaded /\ MemoryIsChosen' /\ ~mixed
  <2>1. /\ ~mixed /\ act' = record /\ loadedState' = Loaded /\ loadedState' # NotLoaded
    BY <1>2, <1>3, <1>7
  <2>2. act'.previous = Loaded /\ act'.at = "models"
    BY <2>1
  <2> QED
    BY <1>2, <1>3, <2>1, <2>2 DEF MemoryIsChosen, ModelsAreLoaded
<1> QED
  BY <1>2, <1>6, <1>7 DEF SavesInv

LEMMA ModelsCancelledStep ==
  ASSUME ActTypeOK, SavesInv, ModelsCancelled
  PROVE  ActTypeOK' /\ SavesInv'
<1>1. act # Idle /\ act.at = "models"
  BY IdleIsIdle DEF ModelsCancelled
<1>2. /\ act' = Idle
      /\ UNCHANGED <<disk, refs, loadedState, persisted, pendingModel, flowOn, model, dialog, edits,
                     commands, chosen, mixed, clobbered>>
  BY DEF ModelsCancelled
<1>3. ActTypeOK'
  BY <1>2 DEF ActTypeOK
<1>4. ASSUME ~mixed
      PROVE  loadedState' # NotLoaded /\ MemoryIsChosen'
  <2>1. loadedState # NotLoaded /\ MemoryIsChosen
    BY <1>1, <1>4 DEF SavesInv, NothingIsLoaded
  <2>2. act'.at # "picking"
    BY <1>2 DEF Idle
  <2> QED
    BY <1>1, <1>2, <2>1, <2>2 DEF MemoryIsChosen, ModelsAreLoaded
<1>5. SavesInv'
  BY <1>2, <1>4 DEF SavesInv
<1> QED
  BY <1>3, <1>5

LEMMA ModelsPickedStep ==
  ASSUME ActTypeOK, SavesInv, NEW e \in Usable, NEW a \in Usable, ModelsPicked(e, a)
  PROVE  ActTypeOK' /\ SavesInv'
<1> DEFINE r == [refs EXCEPT !.executor = e, !.advisor = a]
<1>1. act # Idle
  BY IdleIsIdle DEF ModelsPicked
<1>2. /\ act' = Idle /\ pendingModel' = NoModel
      /\ Save(r, TRUE, TRUE, {"executor", "advisor"}, NotLoaded)
      /\ UNCHANGED <<persisted, flowOn, model, dialog, edits, commands, mixed>>
  BY DEF ModelsPicked
<1>3. e \in Refs /\ a \in Refs
  BY ConfigFacts
<1>4. /\ r \in FileConfig
      /\ \A k \in SavedKeys : r[k] # refs[k] => k \in {"executor", "advisor"}
  BY <1>3 DEF ActTypeOK, FileConfig, SavedKeys
<1>5. {"executor", "advisor"} \subseteq DOMAIN Defaults
  BY DEF Defaults
<1> HIDE DEF r
<1>6. /\ disk' \in FileConfig \cup {Malformed} /\ refs' = r
      /\ loadedState' \in FileConfig \cup {NotLoaded}
      /\ chosen' \subseteq DOMAIN Defaults /\ clobbered' \subseteq DOMAIN Defaults
  BY <1>2, <1>4, <1>5, SaveTypes
<1>7. ActTypeOK'
  BY <1>2, <1>4, <1>6, ConfigFacts DEF ActTypeOK
<1>8. ASSUME ~mixed
      PROVE  clobbered' \subseteq {"consent"} /\ loadedState' # NotLoaded /\ MemoryIsChosen'
  <2>1. clobbered \subseteq {"consent"} /\ loadedState # NotLoaded /\ MemoryIsChosen
    BY <1>1, <1>8 DEF SavesInv, NothingIsLoaded
  <2>2. dialog' = NotLoaded /\ act'.at # "picking"
    BY <1>1, <1>2, <2>1 DEF MemoryIsChosen, Idle
  <2>3. \A k \in SavedKeys : r[k] # loadedState[k] => k \in chosen \cup {"executor", "advisor"}
    BY <1>4, <2>1 DEF MemoryIsChosen
  <2>4. /\ clobbered' \subseteq {"consent"} /\ loadedState' # NotLoaded
        /\ \A k \in SavedKeys : r[k] # loadedState'[k] => k \in chosen'
        /\ r.advisor = loadedState'.advisor /\ r.executor = loadedState'.executor
    BY <1>2, <1>4, <1>5, <2>1, <2>3, SaveOfChosen
  <2> QED
    BY <1>2, <1>6, <2>2, <2>4 DEF MemoryIsChosen, ModelsAreLoaded
<1>9. SavesInv'
  BY <1>2, <1>8 DEF SavesInv
<1> QED
  BY <1>7, <1>9

LEMMA OpenDialogStep ==
  ASSUME ActTypeOK, SavesInv, OpenDialog
  PROVE  ActTypeOK' /\ SavesInv'
<1>1. commands' \in 0..MaxCommands
  BY ActivationAssumption DEF OpenDialog, Count, ActTypeOK
<1>2. /\ LoadInto(Loaded)
      /\ dialog' = IF LoadOK THEN [setting |-> disk.setting, alwaysOn |-> disk.alwaysOn,
                                   consent |-> disk.consent]
                   ELSE NotLoaded
      /\ chosen' = {} /\ mixed' = (mixed \/ ~LoadOK \/ UserIsAsked)
      /\ UNCHANGED <<disk, pendingModel, flowOn, model, act, edits, clobbered>>
  BY DEF OpenDialog
<1>3. /\ refs' = Loaded /\ Loaded \in FileConfig
      /\ persisted' \in [executor: Refs, advisor: Refs]
      /\ loadedState' \in FileConfig \cup {NotLoaded}
      /\ LoadOK => loadedState' = Loaded /\ loadedState' # NotLoaded
      /\ LoadOK => disk \in FileConfig /\ Loaded = disk
  BY <1>2, LoadTypes, LoadedConfig
<1>4. dialog' = NotLoaded \/ dialog' \in Dialogs
  BY <1>2, <1>3, ConfigFacts DEF Dialogs
<1>5. mixed' \in BOOLEAN
  BY <1>2 DEF ActTypeOK, LoadOK, UserIsAsked
<1>6. ActTypeOK'
  BY <1>1, <1>2, <1>3, <1>4, <1>5 DEF ActTypeOK
<1>7. ASSUME ~mixed'
      PROVE  loadedState' # NotLoaded /\ MemoryIsChosen' /\ ~mixed
  <2>1. ~mixed /\ LoadOK /\ act = Idle
    BY <1>2, <1>7 DEF UserIsAsked
  <2>2. /\ loadedState' = refs' /\ loadedState' # NotLoaded
        /\ dialog'.setting = refs'.setting /\ dialog'.alwaysOn = refs'.alwaysOn
    BY <1>2, <1>3, <2>1
  <2>3. act' = Idle /\ act'.at # "picking"
    BY <1>2, <2>1 DEF Idle
  <2> QED
    BY <2>1, <2>2, <2>3 DEF MemoryIsChosen, ModelsAreLoaded
<1> QED
  BY <1>2, <1>6, <1>7 DEF SavesInv

LEMMA ChangeSettingStep ==
  ASSUME ActTypeOK, SavesInv, NEW k \in {"setting", "alwaysOn", "consent"}, ChangeSetting(k)
  PROVE  ActTypeOK' /\ SavesInv'
<1> DEFINE r == [refs EXCEPT !.setting = dialog'.setting, !.alwaysOn = dialog'.alwaysOn,
                             !.consent = dialog'.consent]
           ka == persisted.advisor # NoModel
           ke == persisted.executor # NoModel
<1>1. /\ dialog # NotLoaded /\ dialog' = [dialog EXCEPT ![k] = Other(k)]
      /\ Save(r, ka, ke, {k}, dialog'.consent)
      /\ mixed' = (mixed \/ act # Idle)
      /\ UNCHANGED <<persisted, pendingModel, flowOn, model, act, edits, commands>>
  BY DEF ChangeSetting
<1>2. /\ dialog \in Dialogs /\ dialog.setting \in {"default", "custom"}
      /\ dialog.alwaysOn \in BOOLEAN /\ dialog.consent \in BOOLEAN
  BY <1>1 DEF ActTypeOK, Dialogs
<1>3. Other(k) \in IF k = "setting" THEN {"default", "custom"} ELSE BOOLEAN
  BY <1>2 DEF Other
<1>4. /\ dialog' \in Dialogs /\ dialog'.setting \in {"default", "custom"}
      /\ dialog'.alwaysOn \in BOOLEAN /\ dialog'.consent \in BOOLEAN
      /\ k # "setting" => dialog'.setting = dialog.setting
      /\ k # "alwaysOn" => dialog'.alwaysOn = dialog.alwaysOn
  <2> DEFINE v == Other(k)
  <2>1. dialog' = [dialog EXCEPT ![k] = v]
    BY <1>1
  <2>2. v \in IF k = "setting" THEN {"default", "custom"} ELSE BOOLEAN
    BY <1>3
  <2> HIDE DEF v
  <2>3. CASE k = "setting"
    BY <1>2, <2>1, <2>2, <2>3 DEF Dialogs
  <2>4. CASE k = "alwaysOn"
    BY <1>2, <2>1, <2>2, <2>4 DEF Dialogs
  <2>5. CASE k = "consent"
    BY <1>2, <2>1, <2>2, <2>5 DEF Dialogs
  <2> QED
    BY <2>3, <2>4, <2>5
<1>5. /\ r \in FileConfig /\ r.executor = refs.executor /\ r.advisor = refs.advisor
      /\ r.setting = dialog'.setting /\ r.alwaysOn = dialog'.alwaysOn
  BY <1>4 DEF ActTypeOK, FileConfig
<1>6. {k} \subseteq DOMAIN Defaults /\ ka \in BOOLEAN /\ ke \in BOOLEAN
      /\ dialog'.consent \in BOOLEAN \cup {NotLoaded}
  BY <1>4 DEF Defaults
<1> HIDE DEF r
<1>7. /\ disk' \in FileConfig \cup {Malformed} /\ refs' = r
      /\ loadedState' \in FileConfig \cup {NotLoaded}
      /\ chosen' \subseteq DOMAIN Defaults /\ clobbered' \subseteq DOMAIN Defaults
  BY <1>1, <1>5, <1>6, SaveTypes
<1>8. mixed' \in BOOLEAN
  BY <1>1 DEF ActTypeOK
<1>9. ActTypeOK'
  BY <1>1, <1>4, <1>5, <1>7, <1>8 DEF ActTypeOK
<1>10. ASSUME ~mixed'
       PROVE  clobbered' \subseteq {"consent"} /\ loadedState' # NotLoaded /\ MemoryIsChosen' /\ ~mixed
  <2>0. ~mixed /\ act = Idle /\ act' = Idle
    BY <1>1, <1>10
  <2>1. ~mixed /\ act = Idle /\ act' = Idle /\ act'.at # "picking"
    BY <2>0 DEF Idle
  <2>2. clobbered \subseteq {"consent"} /\ loadedState # NotLoaded /\ MemoryIsChosen
    BY <1>1, <2>1 DEF SavesInv, NothingIsLoaded
  <2>3. /\ dialog.setting = refs.setting /\ dialog.alwaysOn = refs.alwaysOn
        /\ refs.executor = loadedState.executor /\ refs.advisor = loadedState.advisor
        /\ \A j \in SavedKeys : refs[j] # loadedState[j] => j \in chosen
    BY <1>1, <2>1, <2>2 DEF MemoryIsChosen, ModelsAreLoaded
  <2>4. \A j \in SavedKeys : r[j] # loadedState[j] => j \in chosen \cup {k}
    BY <1>4, <1>5, <2>3 DEF SavedKeys
  <2>5. /\ clobbered' \subseteq {"consent"} /\ loadedState' # NotLoaded
        /\ \A j \in SavedKeys : r[j] # loadedState'[j] => j \in chosen'
        /\ ka \/ r.advisor = loadedState.advisor => r.advisor = loadedState'.advisor
        /\ ke \/ r.executor = loadedState.executor => r.executor = loadedState'.executor
    BY <1>1, <1>5, <1>6, <2>2, <2>4, SaveOfChosen
  <2>6. r.advisor = loadedState'.advisor /\ r.executor = loadedState'.executor
    BY <1>5, <2>3, <2>5
  <2>7. dialog'.setting = refs'.setting /\ dialog'.alwaysOn = refs'.alwaysOn
    BY <1>5, <1>7
  <2>8. MemoryIsChosen'
    BY <1>7, <2>1, <2>5, <2>6, <2>7 DEF MemoryIsChosen, ModelsAreLoaded
  <2> QED
    BY <2>1, <2>5, <2>8
<1>11. SavesInv'
  BY <1>10 DEF SavesInv
<1> QED
  BY <1>9, <1>11

LEMMA CloseDialogStep ==
  ASSUME ActTypeOK, SavesInv, CloseDialog
  PROVE  ActTypeOK' /\ SavesInv'
<1>1. /\ dialog' = NotLoaded
      /\ UNCHANGED <<disk, refs, loadedState, persisted, pendingModel, flowOn, model, act, edits,
                     commands, chosen, mixed, clobbered>>
  BY DEF CloseDialog
<1>2. ActTypeOK'
  BY <1>1 DEF ActTypeOK
<1>3. MemoryIsChosen => MemoryIsChosen'
  BY <1>1 DEF MemoryIsChosen, ModelsAreLoaded
<1>4. SavesInv'
  BY <1>1, <1>3 DEF SavesInv, NothingIsLoaded
<1> QED
  BY <1>2, <1>4

\* A save of one entry while no command and no dialog waits.
LEMMA QuietSave ==
  ASSUME ActTypeOK, SavesInv, NEW r \in FileConfig, NEW ka \in BOOLEAN, NEW ke \in BOOLEAN,
         NEW key \in SavedKeys, Save(r, ka, ke, {key}, NotLoaded),
         ~mixed, act = Idle, dialog = NotLoaded, loadedState # NotLoaded,
         UNCHANGED <<act, dialog>>,
         \A k \in SavedKeys : r[k] # refs[k] => k = key,
         key = "advisor" => ka, key = "executor" => ke
  PROVE  clobbered' \subseteq {"consent"} /\ loadedState' # NotLoaded /\ MemoryIsChosen'
<1>1. clobbered \subseteq {"consent"} /\ MemoryIsChosen
  BY DEF SavesInv
<1>2. /\ refs.executor = loadedState.executor /\ refs.advisor = loadedState.advisor
      /\ \A k \in SavedKeys : refs[k] # loadedState[k] => k \in chosen
  BY <1>1 DEF MemoryIsChosen, ModelsAreLoaded
<1> DEFINE keys == {key}
<1>3. \A k \in SavedKeys : r[k] # loadedState[k] => k \in chosen \cup keys
  BY <1>2
<1>4. keys \in SUBSET DOMAIN Defaults /\ Save(r, ka, ke, keys, NotLoaded)
  BY DEF Defaults, SavedKeys
<1> HIDE DEF keys
<1>5. /\ clobbered' \subseteq {"consent"} /\ refs' = r /\ loadedState' # NotLoaded
      /\ \A k \in SavedKeys : r[k] # loadedState'[k] => k \in chosen'
      /\ ka \/ r.advisor = loadedState.advisor => r.advisor = loadedState'.advisor
      /\ ke \/ r.executor = loadedState.executor => r.executor = loadedState'.executor
  BY <1>1, <1>3, <1>4, SaveOfChosen
<1>6. /\ key # "advisor" => r.advisor = refs.advisor
      /\ key # "executor" => r.executor = refs.executor
  BY DEF SavedKeys
<1>7. r.advisor = loadedState'.advisor /\ r.executor = loadedState'.executor
  BY <1>2, <1>5, <1>6
<1>8. act' = Idle /\ act'.at # "picking" /\ dialog' = NotLoaded
  BY DEF Idle
<1> QED
  BY <1>5, <1>7, <1>8 DEF MemoryIsChosen, ModelsAreLoaded

LEMMA OffStep ==
  ASSUME ActTypeOK, SavesInv, Off
  PROVE  ActTypeOK' /\ SavesInv'
<1> DEFINE r == [refs EXCEPT !.alwaysOn = FALSE]
           ka == persisted.advisor # NoModel
           ke == persisted.executor # NoModel
<1>1. commands' \in 0..MaxCommands
  BY ActivationAssumption DEF Off, Count, ActTypeOK
<1>2. /\ flowOn' = FALSE /\ mixed' = (mixed \/ UserIsAsked)
      /\ UNCHANGED <<persisted, pendingModel, model, act, dialog, edits>>
      /\ refs.alwaysOn => Save(r, ka, ke, {"alwaysOn"}, NotLoaded)
      /\ ~refs.alwaysOn => UNCHANGED <<disk, refs, loadedState, chosen, clobbered>>
  BY DEF Off
<1>3. /\ r \in FileConfig
      /\ \A k \in SavedKeys : r[k] # refs[k] => k = "alwaysOn"
  BY DEF ActTypeOK, FileConfig, SavedKeys
<1>4. mixed' \in BOOLEAN /\ refs.alwaysOn \in BOOLEAN
  BY <1>2 DEF ActTypeOK, UserIsAsked, FileConfig
<1>5. {"alwaysOn"} \subseteq DOMAIN Defaults /\ "alwaysOn" \in SavedKeys
  BY DEF Defaults, SavedKeys
<1> HIDE DEF r
<1>6. CASE refs.alwaysOn
  <2>1. /\ disk' \in FileConfig \cup {Malformed} /\ refs' = r
        /\ loadedState' \in FileConfig \cup {NotLoaded}
        /\ chosen' \subseteq DOMAIN Defaults /\ clobbered' \subseteq DOMAIN Defaults
    BY <1>2, <1>3, <1>5, <1>6, SaveTypes
  <2>2. ActTypeOK'
    BY <1>1, <1>2, <1>3, <1>4, <2>1 DEF ActTypeOK
  <2>3. ASSUME ~mixed'
        PROVE  clobbered' \subseteq {"consent"} /\ loadedState' # NotLoaded /\ MemoryIsChosen'
    <3>1. ~mixed /\ act = Idle /\ dialog = NotLoaded
      BY <1>2, <2>3 DEF UserIsAsked
    <3>2. loadedState # NotLoaded
      BY <1>6, <3>1 DEF SavesInv, NothingIsLoaded, Defaults
    <3>3. UNCHANGED <<act, dialog>>
      BY <1>2
    <3> QED
      BY <1>2, <1>3, <1>5, <1>6, <3>1, <3>2, <3>3, QuietSave
  <2>4. SavesInv'
    BY <2>3 DEF SavesInv
  <2> QED
    BY <2>2, <2>4
<1>7. CASE ~refs.alwaysOn
  <2>1. UNCHANGED <<disk, refs, loadedState, chosen, clobbered>>
    BY <1>2, <1>7
  <2>2. ActTypeOK'
    BY <1>1, <1>2, <1>4, <2>1 DEF ActTypeOK
  <2>3. /\ ~mixed' => ~mixed
        /\ MemoryIsChosen => MemoryIsChosen'
        /\ NothingIsLoaded => NothingIsLoaded'
    BY <1>2, <2>1 DEF MemoryIsChosen, ModelsAreLoaded, NothingIsLoaded
  <2>4. SavesInv'
    BY <2>1, <2>3 DEF SavesInv
  <2> QED
    BY <2>2, <2>4
<1> QED
  BY <1>6, <1>7

LEMMA SelectModelStep ==
  ASSUME ActTypeOK, SavesInv, NEW m \in Usable, SelectModel(m)
  PROVE  ActTypeOK' /\ SavesInv'
<1> DEFINE r == [refs EXCEPT !.executor = m]
           ka == persisted.advisor # NoModel
           quiet == UNCHANGED <<disk, refs, loadedState, chosen, clobbered>>
<1>1. commands' \in 0..MaxCommands /\ m \in Refs
  BY ActivationAssumption, ConfigFacts DEF SelectModel, Count, ActTypeOK
<1>2. /\ model' = m /\ mixed' = (mixed \/ UserIsAsked)
      /\ UNCHANGED <<persisted, flowOn, act, dialog, edits>>
      /\ \/ pendingModel' = pendingModel /\ quiet
         \/ pendingModel' = m /\ quiet
         \/ pendingModel' = NoModel /\ flowOn /\ quiet
         \/ pendingModel' = NoModel /\ flowOn /\ Save(r, ka, TRUE, {"executor"}, NotLoaded)
  BY DEF SelectModel
<1>3. /\ r \in FileConfig
      /\ \A k \in SavedKeys : r[k] # refs[k] => k = "executor"
  BY <1>1 DEF ActTypeOK, FileConfig, SavedKeys
<1>4. mixed' \in BOOLEAN /\ pendingModel' \in Refs
  BY <1>1, <1>2, ConfigFacts DEF ActTypeOK, UserIsAsked
<1>5. {"executor"} \subseteq DOMAIN Defaults /\ "executor" \in SavedKeys
  BY DEF Defaults, SavedKeys
<1> HIDE DEF r
<1>6. CASE flowOn /\ Save(r, ka, TRUE, {"executor"}, NotLoaded)
  <2>1. /\ disk' \in FileConfig \cup {Malformed} /\ refs' = r
        /\ loadedState' \in FileConfig \cup {NotLoaded}
        /\ chosen' \subseteq DOMAIN Defaults /\ clobbered' \subseteq DOMAIN Defaults
    BY <1>3, <1>5, <1>6, SaveTypes
  <2>2. ActTypeOK'
    BY <1>1, <1>2, <1>3, <1>4, <2>1 DEF ActTypeOK
  <2>3. ASSUME ~mixed'
        PROVE  clobbered' \subseteq {"consent"} /\ loadedState' # NotLoaded /\ MemoryIsChosen'
    <3>1. ~mixed /\ act = Idle /\ dialog = NotLoaded
      BY <1>2, <2>3 DEF UserIsAsked
    <3>2. loadedState # NotLoaded
      BY <1>6, <3>1 DEF SavesInv, NothingIsLoaded
    <3>3. UNCHANGED <<act, dialog>>
      BY <1>2
    <3> QED
      BY <1>3, <1>5, <1>6, <3>1, <3>2, <3>3, QuietSave
  <2>4. SavesInv'
    BY <2>3 DEF SavesInv
  <2> QED
    BY <2>2, <2>4
<1>7. CASE quiet
  <2>1. ActTypeOK'
    BY <1>1, <1>2, <1>4, <1>7 DEF ActTypeOK
  <2>2. /\ ~mixed' => ~mixed
        /\ MemoryIsChosen => MemoryIsChosen'
        /\ NothingIsLoaded => NothingIsLoaded'
    BY <1>2, <1>7 DEF MemoryIsChosen, ModelsAreLoaded, NothingIsLoaded
  <2>3. SavesInv'
    BY <1>7, <2>2 DEF SavesInv
  <2> QED
    BY <2>1, <2>3
<1> QED
  BY <1>2, <1>6, <1>7

LEMMA EditFileStep ==
  ASSUME ActTypeOK, SavesInv, NEW f \in FirstFiles \cup {Malformed}, EditFile(f)
  PROVE  ActTypeOK' /\ SavesInv'
<1>1. /\ edits' \in 0..MaxEdits /\ disk' = f
      /\ UNCHANGED <<refs, loadedState, persisted, pendingModel, flowOn, model, act, dialog,
                     commands, chosen, mixed, clobbered>>
  BY ActivationAssumption DEF EditFile, ActTypeOK
<1>2. f \in FileConfig \cup {Malformed}
  BY ActivationAssumption
<1>3. ActTypeOK'
  BY <1>1, <1>2 DEF ActTypeOK
<1>4. SavesInv'
  BY <1>1 DEF SavesInv, NothingIsLoaded, MemoryIsChosen, ModelsAreLoaded
<1> QED
  BY <1>3, <1>4

LEMMA ActInitHolds == ActInit => ActTypeOK /\ SavesInv
<1> SUFFICES ASSUME ActInit PROVE ActTypeOK /\ SavesInv
  OBVIOUS
<1>1. Defaults \in FileConfig /\ NoPersisted \in [executor: Refs, advisor: Refs]
  BY ConfigFacts DEF NoPersisted
<1>2. disk \in FileConfig \cup {Malformed}
  BY ActivationAssumption DEF ActInit
<1>3. 0 \in 0..MaxEdits /\ 0 \in 0..MaxCommands
  BY ActivationAssumption
<1>4. ActTypeOK
  BY <1>1, <1>2, <1>3, ConfigFacts DEF ActInit, ActTypeOK
<1>5. SavesInv
  BY DEF ActInit, SavesInv, NothingIsLoaded
<1> QED
  BY <1>4, <1>5

LEMMA ActStep == ActTypeOK /\ SavesInv /\ [ActNext]_actVars => ActTypeOK' /\ SavesInv'
<1> SUFFICES ASSUME ActTypeOK, SavesInv, [ActNext]_actVars
             PROVE  ActTypeOK' /\ SavesInv'
  OBVIOUS
<1>1. CASE BackgroundLoad
  BY <1>1, BackgroundLoadStep
<1>2. CASE LoadAtSessionStart
  BY <1>2, LoadAtSessionStartStep
<1>3. CASE \E args \in ArgSets : Advisor(args)
  BY <1>3, AdvisorStep
<1>4. CASE PickerCancelled
  BY <1>4, RefuseActivationStep DEF PickerCancelled
<1>5. CASE KeyMissing
  BY <1>5, RefuseActivationStep DEF KeyMissing
<1>6. CASE KeyFound
  BY <1>6, KeyFoundStep
<1>7. CASE SwitchRefused
  BY <1>7, RefuseActivationStep DEF SwitchRefused
<1>8. CASE Activated
  BY <1>8, ActivatedStep
<1>9. CASE SaveThrows
  BY <1>9, SaveThrowsStep
<1>10. CASE \E e, a \in Usable : ModelsPicked(e, a)
  BY <1>10, ModelsPickedStep
<1>11. CASE \E e, a \in Refs : Picked(e, a)
  BY <1>11, PickedStep
<1>12. CASE ModelsCommand
  BY <1>12, ModelsCommandStep
<1>13. CASE ModelsCancelled
  BY <1>13, ModelsCancelledStep
<1>14. CASE OpenDialog
  BY <1>14, OpenDialogStep
<1>15. CASE CloseDialog
  BY <1>15, CloseDialogStep
<1>16. CASE Off
  BY <1>16, OffStep
<1>17. CASE \E k \in {"setting", "alwaysOn", "consent"} : ChangeSetting(k)
  BY <1>17, ChangeSettingStep
<1>18. CASE \E m \in Usable : SelectModel(m)
  BY <1>18, SelectModelStep
<1>19. CASE \E f \in FirstFiles \cup {Malformed} : EditFile(f)
  BY <1>19, EditFileStep
<1>20. CASE UNCHANGED actVars
  <2>1. ActTypeOK'
    BY <1>20 DEF actVars, ActTypeOK
  <2>2. SavesInv'
    BY <1>20 DEF actVars, SavesInv, NothingIsLoaded, MemoryIsChosen, ModelsAreLoaded
  <2> QED
    BY <2>1, <2>2
<1> QED
  BY <1>1, <1>2, <1>3, <1>4, <1>5, <1>6, <1>7, <1>8, <1>9, <1>10, <1>11, <1>12, <1>13, <1>14,
     <1>15, <1>16, <1>17, <1>18, <1>19, <1>20 DEF ActNext

\* Memory, the file, a dialog and an activation in flight keep their types, whatever is
\* edited, chosen or asked for.
THEOREM ActTypesCorrect == ActSpec => []ActTypeOK
BY ActInitHolds, ActStep, PTL DEF ActSpec

\* However the file is edited and whichever commands run, are refused or wait, a save
\* changes no entry of advisor.json that the user did not choose to change.
THEOREM SavesAreChosenHolds == ActSpec => []SavesAreChosen
<1>1. SavesInv => SavesAreChosen
  BY DEF SavesInv, SavesAreChosen, MemoryIsChosen, ModelsAreLoaded
<1> QED
  BY <1>1, ActInitHolds, ActStep, PTL DEF ActSpec

-----------------------------------------------------------------------------
(* What Scout is offered *)

BranchTypes == branch \in Seq(Alphabet)

LEMMA BranchTypesStep ==
  /\ CtxInit => BranchTypes
  /\ BranchTypes /\ [CtxNext]_ctxVars => BranchTypes'
<1>1. CtxInit => BranchTypes
  BY DEF CtxInit, BranchTypes
<1>2. ASSUME BranchTypes, NEW e \in Alphabet, AppendEntry(e) PROVE BranchTypes'
  BY <1>2 DEF BranchTypes, AppendEntry
<1>3. BranchTypes /\ UNCHANGED ctxVars => BranchTypes'
  BY DEF BranchTypes, ctxVars
<1> QED
  BY <1>1, <1>2, <1>3 DEF CtxNext

LEMMA BranchFacts ==
  ASSUME BranchTypes
  PROVE  /\ Len(branch) \in Nat /\ Idx = 1..Len(branch) /\ IsFiniteSet(Idx) /\ Idx \subseteq Nat
         /\ \A i \in Idx : branch[i].size \in Nat
<1>1. Len(branch) \in Nat /\ Idx = 1..Len(branch) /\ \A i \in Idx : branch[i] \in Alphabet
  BY DEF BranchTypes, Idx
<1>2. IsFiniteSet(1..Len(branch))
  BY <1>1, FS_Interval
<1> QED
  BY <1>1, <1>2, ScoutContextAssumption

LEMMA MembersAreEntries ==
  ASSUME NEW i \in Idx
  PROVE  Members(i) \subseteq Idx
BY DEF Members, Results

-----------------------------------------------------------------------------
(* Lengths *)

LEMMA CharsIsNat ==
  ASSUME BranchTypes, NEW S \in SUBSET Idx
  PROVE  Chars(S) \in Nat
<1> DEFINE size == [i \in Idx |-> branch[i].size]
<1>1. IsFiniteSet(S) /\ Cardinality(S) \in Nat
  BY BranchFacts, FS_Subset, FS_CardinalityType
<1>2. \A i \in S : size[i] \in Nat
  BY BranchFacts
<1> HIDE DEF size
<1>3. TotalOf(S, size) \in Nat
  BY <1>1, <1>2, TotalIsNat
<1>4. Chars(S) = TotalOf(S, size) + (IF Cardinality(S) = 0 THEN 0 ELSE (Cardinality(S) - 1) * Sep)
  BY DEF Chars, size
<1> QED
  BY <1>1, <1>3, <1>4 DEF Sep

LEMMA BytesIsNat ==
  ASSUME BranchTypes, NEW i \in Idx
  PROVE  Bytes(i) \in Nat
BY MembersAreEntries, CharsIsNat DEF Bytes

\* A set of groups with its lengths, and each of its parts.
LEMMA GroupSums ==
  ASSUME BranchTypes, NEW S \in SUBSET Idx, NEW T \in SUBSET S
  PROVE  /\ IsFiniteSet(S) /\ IsFiniteSet(T) /\ Cardinality(S) \in Nat /\ Cardinality(T) \in Nat
         /\ WireBytes(S) \in Nat /\ ContentChars(S) \in Nat
         /\ Cardinality(T) <= Cardinality(S)
         /\ WireBytes(T) \in Nat /\ ContentChars(T) \in Nat
         /\ WireBytes(T) <= WireBytes(S) /\ ContentChars(T) <= ContentChars(S)
<1> DEFINE wire == [i \in Idx |-> Bytes(i) + Wrapper]
           text == [i \in Idx |-> Bytes(i)]
<1>1. /\ IsFiniteSet(S) /\ Cardinality(S) \in Nat
  BY BranchFacts, FS_Subset, FS_CardinalityType
<1>2. IsFiniteSet(T) /\ Cardinality(T) \in Nat /\ Cardinality(T) <= Cardinality(S)
  BY <1>1, FS_Subset, FS_CardinalityType
<1>3. (S # {} => Cardinality(S) > 0) /\ (T # {} => Cardinality(T) > 0)
  BY <1>1, <1>2, FS_EmptySet
<1>4. Wrapper \in Nat
  BY ScoutContextAssumption
<1>5. /\ \A i \in S : wire[i] \in Nat /\ text[i] \in Nat
      /\ \A i \in T : wire[i] \in Nat /\ text[i] \in Nat
  BY <1>4, BytesIsNat
<1>6. WireBytes(S) = TotalOf(S, wire) /\ WireBytes(T) = TotalOf(T, wire)
  BY DEF WireBytes
<1>7. /\ ContentChars(S) = TotalOf(S, text) + (IF S = {} THEN 0 ELSE (Cardinality(S) - 1) * Sep)
      /\ ContentChars(T) = TotalOf(T, text) + (IF T = {} THEN 0 ELSE (Cardinality(T) - 1) * Sep)
  BY DEF ContentChars
<1> HIDE DEF wire, text
<1>8. /\ TotalOf(S, wire) \in Nat /\ TotalOf(T, wire) \in Nat
      /\ TotalOf(T, wire) <= TotalOf(S, wire)
  BY <1>1, <1>2, <1>5, TotalIsNat, TotalOfPart
<1>9. /\ TotalOf(S, text) \in Nat /\ TotalOf(T, text) \in Nat
      /\ TotalOf(T, text) <= TotalOf(S, text)
  BY <1>1, <1>2, <1>5, TotalIsNat, TotalOfPart
<1>10. T # {} => S # {}
  OBVIOUS
<1>11. ContentChars(S) \in Nat /\ ContentChars(T) \in Nat /\ ContentChars(T) <= ContentChars(S)
  BY <1>1, <1>2, <1>3, <1>7, <1>9, <1>10 DEF Sep
<1> QED
  BY <1>1, <1>2, <1>6, <1>8, <1>11

LEMMA FitsInPart ==
  ASSUME BranchTypes, NEW S \in SUBSET Idx, NEW T \in SUBSET S, NEW caps \in ScoutCaps, Fits(S, caps)
  PROVE  Fits(T, caps)
<1>1. caps.groups \in Nat /\ caps.bytes \in Nat /\ caps.chars \in Nat
  BY ScoutContextAssumption
<1> QED
  BY <1>1, GroupSums DEF Fits

-----------------------------------------------------------------------------
(* The groups that are required *)

LEMMA GroupsAreEntries == RequiredGroups \subseteq Groups /\ Groups \subseteq Idx
BY DEF RequiredGroups, Groups

\* A call was made once.
LEMMA OneOwner ==
  ASSUME ~InvalidProtocol, NEW i \in Idx, NEW j \in Idx, NEW k,
         IsCaller(i), IsCaller(j), k \in CallIds(i), k \in CallIds(j)
  PROVE  i = j
<1>1. Owners(k) = {i} /\ Owners(k) = {j}
  BY DEF InvalidProtocol, BadIndex
<1> QED
  BY <1>1

LEMMA OnePending ==
  ASSUME ~InvalidProtocol, NEW i \in Idx, NEW j \in Idx, IsPending(i), IsPending(j)
  PROVE  i = j
<1>1. invocation \in CallIds(i) /\ invocation \in CallIds(j) /\ IsCaller(i) /\ IsCaller(j)
  BY DEF IsPending, Missing
<1> QED
  BY <1>1, OneOwner

\* The last request of the user and the pending Advisor call.
LEMMA FewRequired ==
  ASSUME BranchTypes, ~InvalidProtocol
  PROVE  Cardinality(RequiredGroups) <= 2
<1>1. \E p : RequiredGroups \subseteq {LatestUser, p}
  <2>1. CASE \E p \in Idx : IsPending(p)
    <3>1. PICK p \in Idx : IsPending(p)
      BY <2>1
    <3>2. \A i \in RequiredGroups : i \in Idx /\ (i = LatestUser \/ IsPending(i))
      BY DEF RequiredGroups, Groups, Required
    <3>3. \A i \in RequiredGroups : i = LatestUser \/ i = p
      BY <3>1, <3>2, OnePending
    <3> QED
      BY <3>3
  <2>2. CASE ~ \E p \in Idx : IsPending(p)
    BY <2>2 DEF RequiredGroups, Groups, Required
  <2> QED
    BY <2>1, <2>2
<1>2. PICK p : RequiredGroups \subseteq {LatestUser, p}
  BY <1>1
<1> DEFINE u == LatestUser
           both == {u} \cup {p}
<1>3. IsFiniteSet({u}) /\ Cardinality({u}) = 1
  BY FS_Singleton
<1>4. IsFiniteSet(both) /\ Cardinality(both) <= 2
  <2> HIDE DEF u
  <2>1. /\ IsFiniteSet({u} \cup {p})
        /\ Cardinality({u} \cup {p}) = IF p \in {u} THEN Cardinality({u}) ELSE Cardinality({u}) + 1
    BY <1>3, FS_AddElement
  <2> QED
    BY <1>3, <2>1
<1>5. RequiredGroups \subseteq both
  BY <1>2
<1> HIDE DEF both
<1>6. Cardinality(RequiredGroups) <= Cardinality(both) /\ Cardinality(RequiredGroups) \in Nat
      /\ Cardinality(both) \in Nat
  BY <1>4, <1>5, FS_Subset, FS_CardinalityType
<1> QED
  BY <1>4, <1>6

-----------------------------------------------------------------------------
(* The manifest *)

LEMMA WithoutFacts ==
  ASSUME NEW caps, NEW n
  PROVE  /\ Without(Candidates(caps), n) \subseteq Candidates(caps)
         /\ Candidates(caps) \subseteq Groups
         /\ {i \in Without(Candidates(caps), n) : Required(i)} = RequiredGroups
BY DEF Without, Candidates, Optional, RequiredGroups

\* Without all its optional groups a manifest is what is required.
LEMMA WithoutAll ==
  ASSUME BranchTypes, NEW S \in SUBSET Idx
  PROVE  /\ Cardinality(Optional(S)) \in Nat
         /\ Without(S, Cardinality(Optional(S))) = {i \in S : Required(i)}
<1> DEFINE O == Optional(S)
<1>1. IsFiniteSet(O) /\ Cardinality(O) \in Nat /\ O \subseteq Idx
  <2>1. O \subseteq S
    BY DEF Optional
  <2> QED
    BY <2>1, BranchFacts, FS_Subset, FS_CardinalityType
<1>2. ASSUME NEW i \in O
      PROVE  Cardinality({j \in O : j < i}) < Cardinality(O)
  <2> DEFINE A == {j \in O : j < i}
  <2>1. A \subseteq O /\ i \notin A /\ A # O
    BY <1>1, BranchFacts
  <2> HIDE DEF A, O
  <2>2. /\ Cardinality(A) <= Cardinality(O) /\ Cardinality(A) \in Nat
        /\ Cardinality(O) # Cardinality(A)
    BY <1>1, <2>1, FS_Subset, FS_CardinalityType
  <2>3. Cardinality(A) < Cardinality(O)
    BY <1>1, <2>2
  <2> QED
    BY <2>3 DEF A
<1>3. Without(S, Cardinality(O)) = S \ O
  BY <1>2 DEF Without
<1> QED
  BY <1>1, <1>3 DEF Optional

LEMMA ManifestFits ==
  ASSUME BranchTypes, NEW caps \in ScoutCaps, caps.bytes > 0, ~Overflow(caps)
  PROVE  \E n \in Nat : Manifest(caps) = Without(Candidates(caps), n) /\ Fits(Manifest(caps), caps)
<1> DEFINE S == Candidates(caps)
           N == Cardinality(Optional(S))
           fitting == {n \in 0..N : Fits(Without(S, n), caps)}
           best == CHOOSE n \in fitting : \A m \in fitting : n <= m
<1>1. S \in SUBSET Idx
  BY WithoutFacts, GroupsAreEntries
<1>2. N \in Nat /\ Without(S, N) = {i \in S : Required(i)}
  BY <1>1, WithoutAll
<1>3. {i \in S : Required(i)} = RequiredGroups
  BY DEF Candidates, RequiredGroups
<1>4. Fits(RequiredGroups, caps)
  BY DEF Overflow
<1> HIDE DEF S, N
<1>5. N \in fitting
  BY <1>2, <1>3, <1>4
<1>6. fitting \in SUBSET Nat /\ fitting # {}
  BY <1>2, <1>5
<1>7. \E n \in fitting : \A m \in fitting : n <= m
  <2> HIDE DEF fitting
  <2> QED
    BY <1>6, LeastNumber
<1>8. best \in fitting
  BY <1>7
<1>9. Manifest(caps) = Without(S, best)
  <2>1. caps.bytes # 0
    BY ScoutContextAssumption
  <2> QED
    BY <2>1 DEF Manifest, S, N
<1>10. best \in Nat /\ Fits(Without(S, best), caps)
  BY <1>6, <1>8
<1> HIDE DEF best
<1> QED
  BY <1>9, <1>10 DEF S

\* The oldest optional groups go first.
LEMMA OldestGoFirst ==
  ASSUME BranchTypes, NEW S \in SUBSET Idx, NEW n \in Nat,
         NEW i \in Optional(Without(S, n)), NEW j \in Optional(S), j > i
  PROVE  j \in Without(S, n)
<1> DEFINE O == Optional(S)
           A == {k \in O : k < i}
           B == {k \in O : k < j}
<1>1. O \subseteq Idx /\ IsFiniteSet(O) /\ i \in O /\ j \in S
  <2>1. O \subseteq S
    BY DEF Optional
  <2> QED
    BY <2>1, BranchFacts, FS_Subset DEF Optional, Without
<1>2. ~(Cardinality(A) < n)
  BY <1>1 DEF Optional, Without
<1>3. A \subseteq B /\ B \subseteq O
  BY <1>1, BranchFacts
<1> HIDE DEF A, B, O
<1>4. /\ Cardinality(A) \in Nat /\ Cardinality(B) \in Nat /\ Cardinality(A) <= Cardinality(B)
  BY <1>1, <1>3, FS_Subset, FS_CardinalityType
<1>5. ~(Cardinality(B) < n)
  BY <1>2, <1>4
<1> QED
  BY <1>1, <1>5 DEF Without, B, O

-----------------------------------------------------------------------------
(* The selection *)

\* As many optional groups as there is room for.
LEMMA ChosenFew ==
  ASSUME NEW M \in SUBSET Nat, NEW n \in Nat, NEW s \in [1..n -> M \cup {0}],
         NEW room \in Nat, room = SelectionMax - Cardinality({i \in M : Required(i)})
  PROVE  /\ Chosen(M, s) \subseteq Optional(M) /\ IsFiniteSet(Chosen(M, s))
         /\ Cardinality(Chosen(M, s)) <= room
<1> DEFINE W == Wanted(M, s)
           P == {m \in W : Cardinality({l \in W : l < m}) < room}
           pick == [m \in P |-> s[m]]
<1>1. Chosen(M, s) = {s[m] : m \in P}
  BY DEF Chosen
<1>2. W \subseteq 1..n
  BY DEF Wanted
<1>3. {s[m] : m \in P} \subseteq Optional(M)
  BY DEF Wanted, Optional
<1>4. IsFiniteSet(W)
  <2>1. IsFiniteSet(1..n)
    BY FS_Interval
  <2> QED
    BY <1>2, <2>1, FS_Subset
<1> HIDE DEF W
<1>5. P \subseteq 0..n /\ P \subseteq W
  <2>1. P \subseteq W
    OBVIOUS
  <2> HIDE DEF P
  <2> QED
    BY <1>2, <2>1
<1>6. IsFiniteSet(P) /\ Cardinality(P) \in Nat
  BY <1>4, <1>5, FS_Subset, FS_CardinalityType
<1>7. Cardinality(P) <= room
  <2>1. CASE P = {}
    <3>1. Cardinality(P) = 0
      BY <2>1, FS_EmptySet, Zenon
    <3> QED
      BY <3>1
  <2>2. CASE P # {}
    <3>1. PICK top \in P : \A y \in P : y <= top
      <4> HIDE DEF P
      <4> QED
        BY <1>5, <2>2, LargestNumber
    <3> DEFINE before == {l \in W : l < top}
    <3>2. Cardinality(before) < room
      OBVIOUS
    <3> HIDE DEF P
    <3>3. P \ {top} \subseteq before /\ before \subseteq W
      BY <1>5, <3>1
    <3> HIDE DEF before
    <3>4. IsFiniteSet(before) /\ Cardinality(before) \in Nat
      BY <1>4, <3>3, FS_Subset, FS_CardinalityType
    <3>5. Cardinality(P \ {top}) <= Cardinality(before)
      BY <3>3, <3>4, FS_Subset
    <3>6. Cardinality(P \ {top}) = Cardinality(P) - 1
      BY <1>6, <3>1, FS_RemoveElement
    <3> QED
      BY <1>6, <3>2, <3>4, <3>5, <3>6
  <2> QED
    BY <2>1, <2>2
<1>8. pick \in Surjection(P, {s[m] : m \in P})
  BY DEF Surjection
<1> DEFINE image == {s[m] : m \in P}
<1> HIDE DEF pick, P, image
<1>9. IsFiniteSet(image) /\ Cardinality(image) <= Cardinality(P) /\ Cardinality(image) \in Nat
  BY <1>6, <1>8, FS_Surjection, FS_CardinalityType DEF image
<1>10. Cardinality(image) <= room
  BY <1>6, <1>7, <1>9
<1> QED
  BY <1>1, <1>3, <1>9, <1>10 DEF image

\* The conversation has all the evidence where that is within the limit.
LEMMA ConversationLength ==
  ASSUME NEW sel, ContentChars(sel) \in Nat, NEW y \in Nat, NEW limit \in Nat,
         ContentChars(sel) <= limit
  PROVE  ConversationChars(sel, y, limit) \in ContentChars(sel)..limit
<1> DEFINE evidence == ContentChars(sel)
           sep == IF evidence = 0 THEN 0 ELSE 2
<1>1. ConversationChars(sel, y, limit) =
        IF evidence >= limit THEN limit
        ELSE IF y = 0 \/ evidence + sep >= limit THEN evidence
        ELSE IF evidence + sep + y < limit THEN evidence + sep + y ELSE limit
  BY DEF ConversationChars, Sep
<1>2. evidence \in Nat /\ evidence <= limit
  OBVIOUS
<1> HIDE DEF evidence
<1>3. ConversationChars(sel, y, limit) \in evidence..limit
  BY <1>1, <1>2
<1> QED
  BY <1>3 DEF evidence

LEMMA RequiredIsKeptHolds ==
  ASSUME BranchTypes
  PROVE  RequiredIsKept
<1> SUFFICES ASSUME ~InvalidProtocol, NEW caps \in ScoutCaps, caps.bytes > 0, ~Overflow(caps)
             PROVE  LET M == Manifest(caps) IN
                    /\ RequiredGroups \subseteq M /\ Fits(M, caps)
                    /\ \A i \in Optional(M), j \in Optional(Candidates(caps)) : j > i => j \in M
                    /\ \A s \in AnswersFor(M) :
                          LET sel == Selection(M, s) IN
                          /\ RequiredGroups \subseteq sel /\ Cardinality(sel) <= SelectionMax
                          /\ \A y \in {0, 5} : ConversationChars(sel, y, caps.chars)
                                                   \in ContentChars(sel)..caps.chars
  BY DEF RequiredIsKept
<1> DEFINE M == Manifest(caps)
           S == Candidates(caps)
<1>1. PICK n \in Nat : M = Without(S, n) /\ Fits(M, caps)
  BY ManifestFits
<1>2. M \subseteq S /\ S \in SUBSET Idx /\ {i \in M : Required(i)} = RequiredGroups
  BY <1>1, WithoutFacts, GroupsAreEntries
<1> HIDE DEF M, S
<1>3. RequiredGroups \subseteq M /\ M \subseteq Idx /\ M \subseteq Nat
  BY <1>2, BranchFacts
<1>4. \A i \in Optional(M), j \in Optional(S) : j > i => j \in M
  BY <1>1, <1>2, OldestGoFirst
<1>5. ASSUME NEW s \in AnswersFor(M), NEW y \in {0, 5}
      PROVE  LET sel == Selection(M, s) IN
             /\ RequiredGroups \subseteq sel /\ Cardinality(sel) <= SelectionMax
             /\ ConversationChars(sel, y, caps.chars) \in ContentChars(sel)..caps.chars
  <2> DEFINE R == RequiredGroups
             room == SelectionMax - Cardinality(R)
             C == Chosen(M, s)
             sel == Selection(M, s)
  <2>1. PICK k \in Nat : s \in [1..k -> M \cup {0}]
    <3>1. PICK F \in {[1..k -> M \cup {0}] : k \in 0..2} : s \in F
      BY DEF AnswersFor
    <3>2. PICK k \in 0..2 : F = [1..k -> M \cup {0}]
      OBVIOUS
    <3>3. s \in [1..k -> M \cup {0}] /\ k \in Nat
      BY <3>1, <3>2
    <3> QED
      BY <3>3
  <2>2. IsFiniteSet(R) /\ Cardinality(R) \in Nat
    BY <1>3, BranchFacts, FS_Subset, FS_CardinalityType
  <2>3. room \in Nat
    BY <2>2, FewRequired, ScoutContextAssumption
  <2>4. C \subseteq Optional(M) /\ IsFiniteSet(C) /\ Cardinality(C) <= room
    BY <1>2, <1>3, <2>1, <2>3, ChosenFew
  <2>5. sel = R \cup C
    BY <1>2 DEF Selection
  <2>6. sel \subseteq M
    BY <1>3, <2>4, <2>5 DEF Optional
  <2> HIDE DEF R, C, sel
  <2>7. Cardinality(C) \in Nat
    BY <2>4, FS_CardinalityType
  <2>8. /\ Cardinality(R \cup C) = Cardinality(R) + Cardinality(C) - Cardinality(R \cap C)
        /\ Cardinality(R \cap C) \in Nat
    BY <2>2, <2>4, FS_Union, FS_Intersection, FS_CardinalityType
  <2>9. SelectionMax \in Nat
    BY ScoutContextAssumption
  <2>10. Cardinality(sel) <= SelectionMax
    BY <2>2, <2>4, <2>5, <2>7, <2>8, <2>9
  <2>11. Fits(sel, caps) /\ ContentChars(sel) \in Nat
    BY <1>1, <1>3, <2>6, FitsInPart, GroupSums
  <2>12. caps.chars \in Nat /\ y \in Nat
    BY ScoutContextAssumption
  <2>13. ConversationChars(sel, y, caps.chars) \in ContentChars(sel)..caps.chars
    BY <2>11, <2>12, ConversationLength DEF Fits
  <2> QED
    BY <2>5, <2>10, <2>13 DEF R, sel
<1> QED
  BY <1>1, <1>3, <1>4, <1>5 DEF M, S

-----------------------------------------------------------------------------
(* Exchanges *)

LEMMA ExchangesAreWholeHolds ==
  ASSUME BranchTypes
  PROVE  ExchangesAreWhole
<1> SUFFICES ASSUME ~InvalidProtocol
             PROVE  /\ \A i, j \in Groups : i # j => Members(i) \cap Members(j) = {}
                    /\ \A i \in Groups : IsCaller(i) =>
                          \A k \in CallIds(i) \ {invocation} : Results(k) \cap Members(i) # {}
                    /\ \A i \in Idx : Disclosed(i) =>
                          \/ \E g \in Groups : i \in Members(g)
                          \/ i \in OmittedByProtocol
                          \/ \E j \in OmittedByProtocol : IsCaller(j) /\ i \in Members(j)
  BY DEF ExchangesAreWhole
<1>1. \A i \in Groups : i \in Idx /\ Offers(i) /\ branch[i].role # "result"
  BY DEF Groups, Offers
<1>2. \A i \in Idx : \A x \in Members(i) :
         x = i \/ (IsCaller(i) /\ x \in Idx /\ branch[x].role = "result" /\ branch[x].of.id \in CallIds(i))
  BY DEF Members, Results
<1>3. ASSUME NEW i \in Groups, NEW j \in Groups, i # j, NEW x \in Members(i) \cap Members(j)
      PROVE  FALSE
  <2>1. x # i \/ x # j
    BY <1>3
  <2>2. x # i /\ x # j
    BY <1>1, <1>2, <1>3, <2>1
  <2>3. IsCaller(i) /\ IsCaller(j) /\ branch[x].of.id \in CallIds(i) /\ branch[x].of.id \in CallIds(j)
    BY <1>1, <1>2, <2>2
  <2> QED
    BY <1>1, <1>3, <2>3, OneOwner
<1>4. ASSUME NEW i \in Groups, IsCaller(i), NEW k \in CallIds(i) \ {invocation}
      PROVE  Results(k) \cap Members(i) # {}
  <2>1. Missing(i) = {} \/ Missing(i) = {invocation}
    BY <1>1, <1>4 DEF Offers, IsPending
  <2>2. Results(k) # {}
    BY <2>1 DEF Missing
  <2>3. Results(k) \subseteq Members(i)
    BY <1>4 DEF Members
  <2> QED
    BY <2>2, <2>3
<1>5. ASSUME NEW i \in Idx, Disclosed(i)
      PROVE  \/ \E g \in Groups : i \in Members(g)
             \/ i \in OmittedByProtocol
             \/ \E j \in OmittedByProtocol : IsCaller(j) /\ i \in Members(j)
  <2>1. CASE branch[i].role # "result"
    <3>1. i \in Members(i)
      BY DEF Members
    <3> QED
      BY <1>5, <2>1, <3>1 DEF Groups, OmittedByProtocol
  <2>2. CASE branch[i].role = "result" /\ ~Owned(branch[i].of.id)
    BY <1>5, <2>2 DEF OmittedByProtocol, Offers
  <2>3. CASE branch[i].role = "result" /\ Owned(branch[i].of.id)
    <3>1. PICK j \in Idx : branch[j].role = "assistant" /\ branch[i].of.id \in CallIds(j)
      BY <2>3 DEF Owned, Owners
    <3>2. IsCaller(j)
      BY <3>1 DEF IsCaller, CallIds
    <3>3. i \in Members(j)
      BY <2>3, <3>1, <3>2 DEF Members, Results
    <3>4. Disclosed(j)
      BY <3>2 DEF Disclosed
    <3>5. j \in Groups \/ j \in OmittedByProtocol
      BY <3>1, <3>4 DEF Groups, OmittedByProtocol
    <3> QED
      BY <3>2, <3>3, <3>5
  <2> QED
    BY <2>1, <2>2, <2>3
<1> QED
  BY <1>3, <1>4, <1>5

\* Whatever branch is offered: what is required is in the manifest, in every selection and
\* in the conversation, all within their limits, and no exchange is torn.
THEOREM ContextIsWholeHolds == CtxSpec => []ContextIsWhole
<1>1. BranchTypes => ContextIsWhole
  BY RequiredIsKeptHolds, ExchangesAreWholeHolds DEF ContextIsWhole
<1> QED
  BY <1>1, BranchTypesStep, PTL DEF CtxSpec

-----------------------------------------------------------------------------
(* What leaves the machine *)

Items == [role: {"user", "result"}, policy: {"full", "summary", "exclude"}, lines: Seq(Nat)]

MaterialTypes ==
    /\ resultLines \in Seq(Nat) /\ items \in Seq(Items)
    /\ files \in Seq([size: Nat, allowed: BOOLEAN])
    /\ changes \in [text: Nat, note: Nat, markup: [ands: Nat, angles: Nat]]

LEMMA MaterialTypesStep ==
  /\ DisInit => MaterialTypes
  /\ MaterialTypes /\ [DisNext]_disVars => MaterialTypes'
<1>1. DisInit => MaterialTypes
  BY DisclosureAssumption DEF DisInit, MaterialTypes
<1>2. ASSUME MaterialTypes, NEW n \in LineLengths, AddLine(n) PROVE MaterialTypes'
  <2>1. n \in Nat
    BY DisclosureAssumption
  <2> QED
    BY <1>2, <2>1 DEF MaterialTypes, AddLine
<1>3. ASSUME MaterialTypes, NEW n \in TextLengths, AddMessage(n) PROVE MaterialTypes'
  <2> DEFINE message == [role |-> "user", policy |-> "full", lines |-> <<n>>]
  <2>1. n \in Nat
    BY DisclosureAssumption
  <2>2. <<n>> \in Seq(Nat)
    BY <2>1
  <2>3. message \in Items
    BY <2>2 DEF Items
  <2> HIDE DEF message
  <2>4. items' \in Seq(Items)
    BY <1>3, <2>3 DEF MaterialTypes, AddMessage, message
  <2> QED
    BY <1>3, <2>4 DEF MaterialTypes, AddMessage
<1>4. ASSUME MaterialTypes, NEW p \in {"full", "summary", "exclude"}, AddResult(p)
      PROVE  MaterialTypes'
  <2> DEFINE result == [role |-> "result", policy |-> p, lines |-> resultLines]
  <2>1. result \in Items
    BY <1>4 DEF Items, MaterialTypes
  <2> HIDE DEF result
  <2>2. items' \in Seq(Items) /\ resultLines' \in Seq(Nat)
    BY <1>4, <2>1 DEF MaterialTypes, AddResult, result
  <2> QED
    BY <1>4, <2>2 DEF MaterialTypes, AddResult
<1>5. ASSUME MaterialTypes, NEW n \in FileLengths, NEW ok \in BOOLEAN,
             AskFor([size |-> n, allowed |-> ok])
      PROVE  MaterialTypes'
  <2> DEFINE file == [size |-> n, allowed |-> ok]
  <2>1. file \in [size: Nat, allowed: BOOLEAN]
    BY DisclosureAssumption
  <2> HIDE DEF file
  <2>2. files' \in Seq([size: Nat, allowed: BOOLEAN])
    BY <1>5, <2>1 DEF MaterialTypes, AskFor, file
  <2> QED
    BY <1>5, <2>2 DEF MaterialTypes, AskFor
<1>6. MaterialTypes /\ UNCHANGED disVars => MaterialTypes'
  BY DEF MaterialTypes, disVars
<1> QED
  BY <1>1, <1>2, <1>3, <1>4, <1>5, <1>6 DEF DisNext

LEMMA LengthFacts ==
  /\ Marker \in Nat /\ Zero \in Nat /\ Older \in Nat /\ Newest \in Nat /\ Label \in Nat
  /\ Notice \in Nat /\ FileMax \in Nat /\ FilesTotal \in Nat /\ Marker > 0
  /\ ContextLimits \subseteq Nat /\ GitLimits \subseteq Nat
  /\ \A caps \in ResultCaps : caps.lines \in Nat /\ caps.bytes \in Nat
  /\ \A m \in Markups : m.ands \in Nat /\ m.angles \in Nat
BY DisclosureAssumption

-----------------------------------------------------------------------------
(* Sequences of lengths *)

LEMMA JoinedIsNat ==
  ASSUME NEW s \in Seq(Nat)
  PROVE  JoinedBy(s, 1) \in Nat /\ JoinedBy(s, 2) \in Nat
<1>1. Len(s) \in Nat /\ DOMAIN s = 1..Len(s) /\ (s # <<>> => Len(s) > 0)
  OBVIOUS
<1>2. IsFiniteSet(DOMAIN s)
  <2>1. IsFiniteSet(1..Len(s))
    BY <1>1, FS_Interval
  <2> QED
    BY <1>1, <2>1
<1>3. \A i \in DOMAIN s : s[i] \in Nat
  OBVIOUS
<1>4. TotalOf(DOMAIN s, s) \in Nat
  BY <1>2, <1>3, TotalIsNat
<1> QED
  BY <1>1, <1>4 DEF JoinedBy

LEMMA JoinedOfNone == JoinedBy(<<>>, 1) = 0 /\ JoinedBy(<<>>, 2) = 0
<1>1. DOMAIN <<>> = {}
  OBVIOUS
<1>2. TotalOf(DOMAIN <<>>, <<>>) = 0
  BY <1>1, TotalOfNone
<1> QED
  BY <1>2 DEF JoinedBy

LEMMA Cuts ==
  ASSUME NEW s \in Seq(Nat), NEW k \in 0..Len(s)
  PROVE  /\ FirstOf(s, k) \in Seq(Nat) /\ Len(FirstOf(s, k)) = k
         /\ \A i \in 1..k : FirstOf(s, k)[i] = s[i]
         /\ LastOf(s, k) \in Seq(Nat) /\ Len(LastOf(s, k)) = k
         /\ \A i \in 1..k : LastOf(s, k)[i] = s[Len(s) - k + i]
         /\ k = 0 => FirstOf(s, k) = <<>> /\ LastOf(s, k) = <<>>
BY DEF FirstOf, LastOf

LEMMA Segment ==
  ASSUME NEW s \in Seq(Nat), NEW from \in 0..Len(s), NEW k \in 0..(Len(s) - from)
  PROVE  /\ SubSeq(s, from + 1, from + k) \in Seq(Nat)
         /\ Len(SubSeq(s, from + 1, from + k)) = k
         /\ \A i \in 1..k : SubSeq(s, from + 1, from + k)[i] = s[from + i]
<1> DEFINE a == from + 1
           b == from + k
<1>1. /\ a \in Nat /\ b \in Nat /\ k \in Nat /\ a >= 1 /\ b <= Len(s)
      /\ b - a + 1 = k /\ \A i \in 1..k : a + i - 1 = from + i
  OBVIOUS
<1> HIDE DEF a, b
<1>2. SubSeq(s, a, b) \in Seq(Nat)
  BY <1>1
<1>3. Len(SubSeq(s, a, b)) = k
  BY <1>1
<1>4. \A i \in 1..k : SubSeq(s, a, b)[i] = s[a + i - 1]
  BY <1>1
<1>5. \A i \in 1..k : SubSeq(s, a, b)[i] = s[from + i]
  BY <1>1, <1>4
<1> QED
  BY <1>2, <1>3, <1>5 DEF a, b

\* The lines after the first from, as the first of the last.
LEMMA CutInside ==
  ASSUME NEW s \in Seq(Nat), NEW from \in 0..Len(s), NEW k \in 0..(Len(s) - from)
  PROVE  SubSeq(s, from + 1, from + k) = FirstOf(LastOf(s, Len(s) - from), k)
<1> DEFINE m == Len(s) - from
<1>1. /\ Len(s) \in Nat /\ from \in Nat /\ k \in Nat
      /\ m \in 0..Len(s) /\ k \in 0..m /\ Len(s) - m = from
  OBVIOUS
<1> HIDE DEF m
<1> DEFINE l == LastOf(s, m)
           a == SubSeq(s, from + 1, from + k)
           b == FirstOf(l, k)
<1>2. l \in Seq(Nat) /\ Len(l) = m /\ \A i \in 1..m : l[i] = s[Len(s) - m + i]
  BY <1>1, Cuts
<1> HIDE DEF l
<1>3. b \in Seq(Nat) /\ Len(b) = k /\ \A i \in 1..k : b[i] = l[i]
  <2>1. k \in 0..Len(l)
    BY <1>1, <1>2
  <2> QED
    BY <1>2, <2>1, Cuts
<1>4. a \in Seq(Nat) /\ Len(a) = k /\ \A i \in 1..k : a[i] = s[from + i]
  BY Segment
<1> HIDE DEF a, b
<1>5. ASSUME NEW i \in 1..k PROVE a[i] = b[i]
  <2>1. i \in 1..m
    BY <1>1
  <2>2. l[i] = s[Len(s) - m + i]
    BY <1>2, <2>1
  <2>3. Len(s) - m + i = from + i
    BY <1>1
  <2>4. a[i] = s[from + i] /\ b[i] = l[i]
    BY <1>3, <1>4
  <2> QED
    BY <2>2, <2>3, <2>4
<1>6. a = b
  BY <1>3, <1>4, <1>5
<1> QED
  BY <1>6 DEF a, b, l, m

\* The same lengths in the opposite order.
LEMMA JoinedReversed ==
  ASSUME NEW s \in Seq(Nat), NEW t \in Seq(Nat), Len(t) = Len(s),
         \A i \in 1..Len(s) : t[i] = s[Len(s) + 1 - i]
  PROVE  JoinedBy(t, 1) = JoinedBy(s, 1)
<1> DEFINE n == Len(s)
           turn == [i \in 1..n |-> n + 1 - i]
<1>1. n \in Nat /\ DOMAIN s = 1..n /\ DOMAIN t = 1..n /\ Len(t) = n
  OBVIOUS
<1>2. \A i \in 1..n : t[i] = s[n + 1 - i]
  OBVIOUS
<1>3. s = <<>> <=> t = <<>>
  OBVIOUS
<1>4. \A i \in 1..n : t[i] \in Nat
  OBVIOUS
<1> HIDE DEF n
<1>5. /\ turn \in [1..n -> 1..n]
      /\ \A j \in 1..n : n + 1 - j \in 1..n /\ turn[n + 1 - j] = j
      /\ \A i, j \in 1..n : turn[i] = turn[j] => i = j
      /\ \A i \in 1..n : turn[i] = n + 1 - i
  BY <1>1
<1> HIDE DEF turn
<1>6. turn \in Bijection(1..n, 1..n)
  BY <1>5 DEF Bijection, Surjection, Injection, IsInjective
<1>7. \A i \in 1..n : t[i] = s[turn[i]] /\ t[i] \in Nat
  BY <1>2, <1>4, <1>5
<1>8. IsFiniteSet(1..n)
  BY <1>1, FS_Interval
<1>9. TotalOf(1..n, s) = TotalOf(1..n, t)
  <2> DEFINE S == 1..n
  <2> HIDE DEF S
  <2>1. turn \in Bijection(S, S) /\ IsFiniteSet(S) /\ \A i \in S : t[i] = s[turn[i]] /\ t[i] \in Nat
    BY <1>6, <1>7, <1>8 DEF S
  <2>2. TotalOf(S, s) = TotalOf(S, t)
    BY <2>1, TotalMoved
  <2> QED
    BY <2>2 DEF S
<1>10. Len(s) = Len(t)
  OBVIOUS
<1> QED
  BY <1>1, <1>3, <1>9, <1>10 DEF JoinedBy

-----------------------------------------------------------------------------
(* The longest run *)

LEMMA LongestIs ==
  ASSUME NEW n \in Nat, NEW T
  PROVE  \E k \in 0..n : (\A j \in 1..k : j \in T) /\ (k < n => ~(k + 1 \in T))
<1> DEFINE K == {k \in 0..n : \A j \in 1..k : j \in T}
<1>1. 0 \in K
  OBVIOUS
<1>2. K \in SUBSET (0..n) /\ K # {}
  BY <1>1
<1>3. PICK k \in K : \A y \in K : y <= k
  <2> HIDE DEF K
  <2> QED
    BY <1>2, LargestNumber
<1>4. k \in 0..n /\ \A j \in 1..k : j \in T
  OBVIOUS
<1>5. ASSUME k < n, k + 1 \in T PROVE FALSE
  <2>1. k + 1 \in 0..n /\ \A j \in 1..(k + 1) : j \in 1..k \/ j = k + 1
    BY <1>4, <1>5
  <2>2. k + 1 \in K
    BY <1>4, <1>5, <2>1
  <2>3. k + 1 <= k
    BY <1>3, <2>2
  <2> QED
    BY <1>4, <2>3
<1> QED
  BY <1>4, <1>5

LEMMA CollectIs ==
  ASSUME NEW s \in Seq(Nat), NEW count \in Int, NEW bytes \in Int
  PROVE  /\ Collect(s, count, bytes) \in 0..AtMost(AtLeast0(count), Len(s))
         /\ Collect(s, count, bytes) > 0 =>
               JoinedBy(FirstOf(s, Collect(s, count, bytes)), 1) <= bytes
<1> DEFINE n == AtMost(AtLeast0(count), Len(s))
           T == {j \in 1..n : JoinedBy(FirstOf(s, j), 1) <= bytes}
           Best(k) == (\A j \in 1..k : JoinedBy(FirstOf(s, j), 1) <= bytes)
                      /\ (k < n => ~(JoinedBy(FirstOf(s, k + 1), 1) <= bytes))
<1>1. n \in Nat
  BY DEF AtMost, AtLeast0
<1>2. Collect(s, count, bytes) = CHOOSE k \in 0..n : Best(k)
  BY DEF Collect, LongestRun
<1> HIDE DEF n
<1>3. PICK k \in 0..n : (\A j \in 1..k : j \in T) /\ (k < n => ~(k + 1 \in T))
  <2> HIDE DEF T
  <2> QED
    BY <1>1, LongestIs
<1>4. k < n => k + 1 \in 1..n
  BY <1>1
<1>5. Best(k)
  BY <1>3, <1>4
<1>6. \E m \in 0..n : Best(m)
  BY <1>5
<1>7. PICK c \in 0..n : c = Collect(s, count, bytes) /\ Best(c)
  <2> HIDE DEF Best
  <2> QED
    BY <1>2, <1>6
<1>8. c > 0 => c \in 1..c
  BY <1>1
<1> QED
  BY <1>7, <1>8 DEF n

LEMMA RecentIs ==
  ASSUME NEW e \in Seq(Nat), NEW max \in Nat
  PROVE  /\ Recent(e, max) \in 0..Len(e)
         /\ Recent(e, max) > 0 =>
               OmissionMarker(Len(e) - Recent(e, max)) + Between
                   + JoinedBy(LastOf(e, Recent(e, max)), Between) <= max
<1> DEFINE n == Len(e)
           P(k) == OmissionMarker(Len(e) - k) + Between + JoinedBy(LastOf(e, k), Between) <= max
           T == {j \in 1..n : P(j)}
           Best(k) == (\A j \in 1..k : P(j)) /\ (k < n => ~P(k + 1))
<1>1. n \in Nat
  OBVIOUS
<1>2. Recent(e, max) = CHOOSE k \in 0..n : Best(k)
  BY DEF Recent, LongestRun
<1> HIDE DEF n, P
<1>3. PICK k \in 0..n : (\A j \in 1..k : j \in T) /\ (k < n => ~(k + 1 \in T))
  <2> HIDE DEF T
  <2> QED
    BY <1>1, LongestIs
<1>4. k < n => k + 1 \in 1..n
  BY <1>1
<1>5. Best(k)
  BY <1>3, <1>4
<1>6. \E m \in 0..n : Best(m)
  BY <1>5
<1>7. PICK c \in 0..n : c = Recent(e, max) /\ Best(c)
  <2> HIDE DEF Best
  <2> QED
    BY <1>2, <1>6
<1>8. c > 0 => c \in 1..c
  BY <1>1
<1> QED
  BY <1>7, <1>8 DEF n, P

-----------------------------------------------------------------------------
(* capToolResult *)

\* ResultIsCapped, of any lines.
KeepsLimits(r, s, caps) ==
    LET shownLines == CASE r.kept = "all"  -> Len(s)
                        [] r.kept = "none" -> 1
                        [] r.kept = "ends" -> r.head + 1 + r.tail
    IN /\ \/ r.bytes <= caps.bytes
          \/ r = Replaced(Zero) /\ (caps.lines = 0 \/ caps.bytes = 0)
       /\ \/ shownLines <= caps.lines
          \/ caps.lines = 0 /\ shownLines = 1 /\ r.head + r.tail = 0
       /\ r.head <= r.from /\ r.from + r.tail <= Len(s)
       /\ r.kept # "all" => Len(s) > caps.lines \/ JoinedBy(s, 1) > caps.bytes

LEMMA Counts ==
  ASSUME NEW caps \in [lines: Nat, bytes: Nat]
  PROVE  /\ HeadCount(caps) \in Int /\ TailCount(caps) \in Int
         /\ HeadCount(caps) + TailCount(caps) = caps.lines - 1
         /\ caps.lines = 0 => HeadCount(caps) < 0 /\ TailCount(caps) = 0
         /\ caps.lines > 0 => HeadCount(caps) >= 0 /\ TailCount(caps) >= 0
<1> DEFINE lines == caps.lines
<1>1. lines \in Nat
  OBVIOUS
<1>2. HeadCount(caps) = (lines - 1) \div 2 /\ TailCount(caps) = lines - 1 - HeadCount(caps)
  BY DEF HeadCount, TailCount
<1> HIDE DEF lines
<1> DEFINE h == (lines - 1) \div 2
<1>3. /\ h \in Int
      /\ lines = 0 => h = -1
      /\ lines > 0 => h >= 0 /\ h <= lines - 1
  BY <1>1
<1>4. HeadCount(caps) = h
  BY <1>2
<1>5. TailCount(caps) = lines - 1 - h
  BY <1>2
<1> HIDE DEF h
<1>6. /\ h \in Int /\ lines - 1 - h \in Int
      /\ h + (lines - 1 - h) = lines - 1
      /\ lines = 0 => h < 0 /\ lines - 1 - h = 0
      /\ lines > 0 => h >= 0 /\ lines - 1 - h >= 0
  BY <1>1, <1>3
<1>7. lines = caps.lines
  BY DEF lines
<1> QED
  BY <1>4, <1>5, <1>6, <1>7

\* Two ends that are within their counts, and whose lengths are within what the marker
\* leaves, keep the limits.
LEMMA EndsFit ==
  ASSUME NEW s \in Seq(Nat), NEW caps \in [lines: Nat, bytes: Nat],
         NEW head \in 0..Len(s), NEW from \in 0..Len(s), NEW tail \in 0..(Len(s) - from),
         NEW available \in Int,
         head <= from,
         head > 0 => head <= HeadCount(caps)
                     /\ JoinedBy(FirstOf(s, head), 1) <= available \div 2,
         tail > 0 => tail <= TailCount(caps)
                     /\ JoinedBy(SubSeq(s, from + 1, from + tail), 1)
                           <= available - JoinedBy(FirstOf(s, head), 1)
  PROVE  /\ CapWith(s, caps, Ends(s, head, from, tail)).bytes \in Nat
         /\ (caps.bytes >= Marker => available = caps.bytes - Marker - 2) =>
               KeepsLimits(CapWith(s, caps, Ends(s, head, from, tail)), s, caps)
<1> DEFINE hb == JoinedBy(FirstOf(s, head), 1)
           tb == JoinedBy(SubSeq(s, from + 1, from + tail), 1)
           all == JoinedBy(s, 1)
           H == HeadCount(caps)
           T == TailCount(caps)
           n == Len(s)
           after == IF head = 0 THEN 0 ELSE 1
           before == IF tail = 0 THEN 0 ELSE 1
           bytes == hb + after + Marker + before + tb
           ends == [kept |-> "ends", head |-> head, from |-> from, tail |-> tail, bytes |-> bytes]
           r == CapWith(s, caps, Ends(s, head, from, tail))
<1>1. /\ n \in Nat /\ head \in 0..n /\ from \in 0..n /\ tail \in 0..(n - from)
      /\ caps.lines \in Nat /\ caps.bytes \in Nat
  OBVIOUS
<1>2. hb \in Nat /\ (head = 0 => hb = 0)
  <2>1. FirstOf(s, head) \in Seq(Nat) /\ (head = 0 => FirstOf(s, head) = <<>>)
    BY Cuts
  <2> QED
    BY <2>1, JoinedIsNat, JoinedOfNone
<1>3. tb \in Nat /\ (tail = 0 => tb = 0)
  <2>1. SubSeq(s, from + 1, from + tail) \in Seq(Nat)
    BY <1>1
  <2>2. tail = 0 => SubSeq(s, from + 1, from + tail) = <<>>
    BY <1>1
  <2> QED
    BY <2>1, <2>2, JoinedIsNat, JoinedOfNone
<1>4. all \in Nat
  BY JoinedIsNat
<1>5. /\ H \in Int /\ T \in Int /\ H + T = caps.lines - 1
      /\ caps.lines = 0 => H < 0 /\ T = 0
      /\ caps.lines > 0 => H >= 0 /\ T >= 0
  BY Counts
<1>6. Ends(s, head, from, tail) = ends
  BY DEF Ends
<1>7. /\ head > 0 => head <= H /\ hb <= available \div 2
      /\ tail > 0 => tail <= T /\ tb <= available - hb
  OBVIOUS
<1>8. Marker \in Nat /\ Zero \in Nat /\ AtMost(Marker, caps.bytes) \in Nat
  BY <1>1, LengthFacts DEF AtMost
<1>9. after \in Nat /\ before \in Nat /\ after <= 1 /\ before <= 1
       /\ (head = 0 => after = 0) /\ (tail = 0 => before = 0)
  OBVIOUS
<1> HIDE DEF hb, tb, all, H, T, n, after, before
<1>10. bytes \in Nat
  BY <1>2, <1>3, <1>8, <1>9
<1>11. ends.kept = "ends" /\ ends.head = head /\ ends.from = from /\ ends.tail = tail /\ ends.bytes = bytes
  OBVIOUS
<1>12. \/ /\ r = Replaced(Zero)
          /\ caps.lines = 0 \/ caps.bytes = 0
          /\ all > 0
       \/ /\ r = Whole(s)
          /\ n <= caps.lines /\ all <= caps.bytes
       \/ /\ r = Replaced(AtMost(Marker, caps.bytes))
          /\ ~(n <= caps.lines /\ all <= caps.bytes)
       \/ /\ r = ends
          /\ ~(n <= caps.lines /\ all <= caps.bytes)
          /\ ~(caps.bytes < Marker \/ caps.lines = 1)
  BY <1>6 DEF CapWith, n, all
<1> HIDE DEF bytes, ends, r
<1>13. r.bytes \in Nat
  <2>1. Replaced(Zero).bytes \in Nat /\ Replaced(AtMost(Marker, caps.bytes)).bytes \in Nat
    BY <1>8 DEF Replaced
  <2>2. Whole(s).bytes \in Nat
    BY <1>4 DEF Whole, all
  <2>3. ends.bytes \in Nat
    BY <1>10, <1>11
  <2>4. r \in {Replaced(Zero), Whole(s), Replaced(AtMost(Marker, caps.bytes)), ends}
    BY <1>12
  <2> QED
    BY <2>1, <2>2, <2>3, <2>4
<1>14. ASSUME r = ends, ~(n <= caps.lines /\ all <= caps.bytes),
              ~(caps.bytes < Marker \/ caps.lines = 1),
              caps.bytes >= Marker => available = caps.bytes - Marker - 2
       PROVE  KeepsLimits(r, s, caps)
  <2>1. available = caps.bytes - Marker - 2
    BY <1>1, <1>8, <1>14
  <2>2. head > 0 => 2 * hb <= available
    BY <1>2, <1>7
  <2>3. bytes <= caps.bytes
    <3>1. bytes = hb + after + Marker + before + tb
      BY DEF bytes
    <3>2. CASE tail > 0
      <4>1. hb + tb <= caps.bytes - Marker - 2
        BY <3>2, <1>2, <1>3, <1>7, <2>1, <1>8, <1>1
      <4> QED
        <5>1. Marker + hb + tb + 2 <= caps.bytes
          BY <4>1, <1>1, <1>2, <1>3, <1>8
        <5>2. bytes <= Marker + hb + tb + 2
          BY <3>1, <1>2, <1>3, <1>8, <1>9
        <5> QED
          BY <5>1, <5>2, <1>1, <1>2, <1>3, <1>8, <1>10
    <3>3. CASE tail = 0
      <4>1. head > 0 => hb <= caps.bytes - Marker - 2
        BY <1>1, <1>2, <1>8, <2>1, <2>2
      <4> QED
        BY <3>1, <3>3, <4>1, <1>1, <1>2, <1>3, <1>8, <1>14, <1>9
    <3> QED
      BY <1>1, <3>2, <3>3
  <2>4. /\ caps.lines = 0 => head = 0 /\ tail = 0
        /\ caps.lines > 0 => head <= H /\ tail <= T
    BY <1>1, <1>5, <1>7
  <2> DEFINE lines == caps.lines
  <2>5. /\ lines \in Nat /\ head \in Nat /\ tail \in Nat
        /\ lines = 0 => head = 0 /\ tail = 0
        /\ lines > 0 => head + tail <= lines - 1
    <3>1. lines \in Nat /\ head \in Nat /\ tail \in Nat
      BY <1>1
    <3>2. lines > 0 => head + tail <= H + T
      BY <1>5, <2>4, <3>1
    <3> QED
      BY <1>5, <2>4, <3>1, <3>2
  <2>6. \/ head + 1 + tail <= caps.lines
        \/ caps.lines = 0 /\ head + 1 + tail = 1 /\ head + tail = 0
    <3> HIDE DEF lines
    <3>1. \/ head + 1 + tail <= lines
          \/ lines = 0 /\ head + 1 + tail = 1 /\ head + tail = 0
      BY <2>5
    <3> QED
      BY <3>1 DEF lines
  <2>7. n > caps.lines \/ all > caps.bytes
    BY <1>1, <1>4, <1>14
  <2>8. head <= from /\ from + tail <= n
    BY <1>1
  <2> QED
    BY <1>11, <1>14, <2>3, <2>6, <2>7, <2>8 DEF KeepsLimits, n, all
\* The text for a limit of zero, or as much of the marker as there is room for.
<1>15. ASSUME NEW b \in Nat, r = Replaced(b), n > caps.lines \/ all > caps.bytes,
              b <= caps.bytes \/ (b = Zero /\ (caps.lines = 0 \/ caps.bytes = 0))
       PROVE  KeepsLimits(r, s, caps)
  <2>1. r.kept = "none" /\ r.head = 0 /\ r.from = 0 /\ r.tail = 0 /\ r.bytes = b
    BY <1>15 DEF Replaced
  <2>2. r.bytes <= caps.bytes \/ (r = Replaced(Zero) /\ (caps.lines = 0 \/ caps.bytes = 0))
    BY <1>15, <2>1
  <2>3. 1 <= caps.lines \/ (caps.lines = 0 /\ 1 = 1 /\ r.head + r.tail = 0)
    BY <1>1, <2>1
  <2>4. r.head <= r.from /\ r.from + r.tail <= n
    BY <1>1, <2>1
  <2> QED
    BY <1>15, <2>1, <2>2, <2>3, <2>4 DEF KeepsLimits, n, all
<1>16. ASSUME r = Replaced(Zero), (caps.lines = 0 \/ caps.bytes = 0) /\ all > 0
       PROVE  KeepsLimits(r, s, caps)
  <2>1. n > 0
    <3>1. s = <<>> => all = 0
      BY JoinedOfNone DEF all
    <3> QED
      BY <1>16, <3>1 DEF n
  <2>2. n > caps.lines \/ all > caps.bytes
    BY <1>1, <1>16, <2>1
  <2> QED
    BY <1>8, <1>15, <1>16, <2>2
<1>17. ASSUME r = Whole(s), n <= caps.lines /\ all <= caps.bytes
       PROVE  KeepsLimits(r, s, caps)
  <2>1. r.kept = "all" /\ r.head = n /\ r.from = n /\ r.tail = 0 /\ r.bytes = all
    BY <1>17 DEF Whole, n, all
  <2>2. r.head <= r.from /\ r.from + r.tail <= n
    BY <1>1, <2>1
  <2>3. r.bytes <= caps.bytes /\ n <= caps.lines
    BY <1>17, <2>1
  <2> QED
    BY <2>1, <2>2, <2>3 DEF KeepsLimits, n
<1>18. ASSUME r = Replaced(AtMost(Marker, caps.bytes)), ~(n <= caps.lines /\ all <= caps.bytes)
       PROVE  KeepsLimits(r, s, caps)
  <2>1. AtMost(Marker, caps.bytes) <= caps.bytes
    BY <1>1, <1>8 DEF AtMost
  <2>2. n > caps.lines \/ all > caps.bytes
    BY <1>1, <1>4, <1>18
  <2> QED
    BY <1>8, <1>15, <1>18, <2>1, <2>2
<1>19. (caps.bytes >= Marker => available = caps.bytes - Marker - 2) => KeepsLimits(r, s, caps)
  BY <1>12, <1>14, <1>16, <1>17, <1>18
<1> QED
  BY <1>13, <1>19 DEF r

\* Collected lines are no more than there are, than are counted, and than fit.
LEMMA CollectFits ==
  ASSUME NEW s \in Seq(Nat), NEW count \in Int, NEW bytes \in Int, NEW k, k = Collect(s, count, bytes)
  PROVE  k \in 0..Len(s) /\ (k > 0 => k <= count /\ JoinedBy(FirstOf(s, k), 1) <= bytes)
<1>1. k \in 0..AtMost(AtLeast0(count), Len(s)) /\ (k > 0 => JoinedBy(FirstOf(s, k), 1) <= bytes)
  BY CollectIs
<1>2. AtMost(AtLeast0(count), Len(s)) <= Len(s)
  BY DEF AtMost, AtLeast0
<1>3. k > 0 => k <= count
  BY <1>1 DEF AtMost, AtLeast0
<1>4. Len(s) \in Nat /\ AtMost(AtLeast0(count), Len(s)) \in Nat
  BY DEF AtMost, AtLeast0
<1> QED
  BY <1>1, <1>2, <1>3, <1>4

LEMMA TailStarts ==
  ASSUME NEW s \in Seq(Nat), NEW head \in 0..Len(s), NEW count \in Nat
  PROVE  TailFrom(s, head, count) \in head..Len(s)
BY DEF TailFrom

\* The Pi extension's result.
LEMMA PiResultKeepsLimits ==
  ASSUME NEW s \in Seq(Nat), NEW caps \in [lines: Nat, bytes: Nat]
  PROVE  CapResult(s, caps).bytes \in Nat /\ KeepsLimits(CapResult(s, caps), s, caps)
<1> DEFINE available == caps.bytes - Marker - 2
           half == available \div 2
           H == HeadCount(caps)
           T == TailCount(caps)
           head == Collect(s, H, half)
           hb == JoinedBy(FirstOf(s, head), 1)
           from == TailFrom(s, head, T)
           rest == LastOf(s, Len(s) - from)
           tail == Collect(rest, T, available - hb)
<1>1. available \in Int /\ half \in Int /\ H \in Int /\ T \in Nat
  BY LengthFacts, Counts
<1>2. CapResult(s, caps) = CapWith(s, caps, Ends(s, head, from, tail))
  BY DEF CapResult
<1> HIDE DEF available, half, H, T
<1>3. head \in 0..Len(s) /\ (head > 0 => head <= H /\ hb <= half)
  BY <1>1, CollectFits
<1> HIDE DEF head
<1>4. from \in head..Len(s)
  BY <1>1, <1>3, TailStarts
<1>5. Len(s) \in Nat /\ from \in 0..Len(s) /\ head <= from /\ Len(s) - from \in 0..Len(s)
  BY <1>3, <1>4
<1> HIDE DEF from
<1>6. hb \in Nat
  BY <1>3, Cuts, JoinedIsNat
<1> HIDE DEF hb
<1>7. rest \in Seq(Nat) /\ Len(rest) = Len(s) - from
  <2> DEFINE m == Len(s) - from
  <2>1. m \in 0..Len(s)
    BY <1>5
  <2> HIDE DEF m
  <2>2. LastOf(s, m) \in Seq(Nat) /\ Len(LastOf(s, m)) = m
    BY <2>1, Cuts
  <2> QED
    BY <2>2 DEF m
<1>8. available - hb \in Int
  BY <1>1, <1>6
<1> HIDE DEF rest
<1>9. tail \in 0..Len(rest) /\ (tail > 0 => tail <= T /\ JoinedBy(FirstOf(rest, tail), 1) <= available - hb)
  <2> DEFINE left == available - hb
  <2> HIDE DEF left
  <2>1. left \in Int
    BY <1>8 DEF left
  <2>2. tail = Collect(rest, T, left)
    BY DEF left
  <2>3. T \in Int /\ rest \in Seq(Nat)
    BY <1>1, <1>7
  <2> HIDE DEF tail
  <2>4. tail \in 0..Len(rest) /\ (tail > 0 => tail <= T /\ JoinedBy(FirstOf(rest, tail), 1) <= left)
    BY <2>1, <2>2, <2>3, CollectFits
  <2> QED
    BY <2>4 DEF left
<1> HIDE DEF tail
<1>10. tail \in 0..(Len(s) - from)
  BY <1>7, <1>9
<1>11. SubSeq(s, from + 1, from + tail) = FirstOf(rest, tail)
  BY <1>5, <1>10, CutInside DEF rest
<1>12. head > 0 => head <= HeadCount(caps) /\ JoinedBy(FirstOf(s, head), 1) <= available \div 2
  BY <1>3 DEF H, half, hb
<1>13. tail > 0 => tail <= TailCount(caps)
                   /\ JoinedBy(SubSeq(s, from + 1, from + tail), 1) <= available - JoinedBy(FirstOf(s, head), 1)
  BY <1>9, <1>11 DEF T, hb
<1>14. caps.bytes >= Marker => available = caps.bytes - Marker - 2
  BY DEF available
<1> QED
  BY <1>1, <1>2, <1>3, <1>5, <1>10, <1>12, <1>13, <1>14, EndsFit

\* The plugin's, but where the limit is within a byte of the marker.
LEMMA PluginResultKeepsLimits ==
  ASSUME NEW s \in Seq(Nat), NEW caps \in [lines: Nat, bytes: Nat],
         caps.bytes - Marker \notin {0, 1}
  PROVE  KeepsLimits(PluginCapResult(s, caps), s, caps)
<1> DEFINE available == AtLeast0(caps.bytes - Marker - 2)
           half == available \div 2
           H == HeadCount(caps)
           T == TailCount(caps)
           head == Collect(s, H, half)
           hb == JoinedBy(FirstOf(s, head), 1)
           start == TailFrom(s, head, T)
           rest == LastOf(s, Len(s) - start)
           last == Reverse(rest)
           tail == Collect(last, T, available - hb)
           from == Len(s) - tail
<1>1. available \in Int /\ half \in Int /\ H \in Int /\ T \in Nat
  <2> DEFINE room == caps.bytes - Marker - 2
  <2>1. room \in Int
    BY LengthFacts
  <2> HIDE DEF room
  <2>2. AtLeast0(room) \in Int /\ AtLeast0(room) \div 2 \in Int
    BY <2>1 DEF AtLeast0
  <2>3. caps.lines \in Nat /\ H \in Int /\ T \in Int /\ T >= 0
    BY Counts
  <2> QED
    BY <2>2, <2>3 DEF room
<1>2. PluginCapResult(s, caps) = CapWith(s, caps, Ends(s, head, from, tail))
  BY DEF PluginCapResult
<1>3. caps.bytes >= Marker => available = caps.bytes - Marker - 2
  BY LengthFacts DEF AtLeast0
<1> HIDE DEF available, half, H, T
<1>4. head \in 0..Len(s) /\ (head > 0 => head <= H /\ hb <= half)
  BY <1>1, CollectFits
<1> HIDE DEF head
<1>5. start \in head..Len(s)
  BY <1>1, <1>4, TailStarts
<1> DEFINE m == Len(s) - start
<1>6. Len(s) \in Nat /\ m \in 0..Len(s) /\ head <= Len(s) - m
  BY <1>4, <1>5
<1> HIDE DEF start
<1>7. hb \in Nat
  BY <1>4, Cuts, JoinedIsNat
<1> HIDE DEF hb, m
<1>8. rest \in Seq(Nat) /\ Len(rest) = m /\ \A i \in 1..m : rest[i] = s[Len(s) - m + i]
  BY <1>6, Cuts DEF m
<1> HIDE DEF rest
<1>9. /\ last \in Seq(Nat) /\ Len(last) = m
      /\ \A i \in 1..m : last[i] = rest[m - i + 1]
  BY <1>6, <1>8 DEF Reverse
<1>10. available - hb \in Int
  BY <1>1, <1>7
<1> HIDE DEF last
<1>11. tail \in 0..m /\ (tail > 0 => tail <= T /\ JoinedBy(FirstOf(last, tail), 1) <= available - hb)
  <2> DEFINE left == available - hb
  <2> HIDE DEF left
  <2>1. left \in Int
    BY <1>10 DEF left
  <2>2. tail = Collect(last, T, left)
    BY DEF left
  <2>3. T \in Int /\ last \in Seq(Nat)
    BY <1>1, <1>9
  <2> HIDE DEF tail
  <2>4. tail \in 0..Len(last) /\ (tail > 0 => tail <= T /\ JoinedBy(FirstOf(last, tail), 1) <= left)
    BY <2>1, <2>2, <2>3, CollectFits
  <2>5. Len(last) = m
    BY <1>9
  <2> QED
    BY <2>4, <2>5 DEF left
<1> HIDE DEF tail
<1>12. from \in 0..Len(s) /\ head <= from /\ tail = Len(s) - from /\ tail \in 0..(Len(s) - from)
       /\ tail \in 0..Len(s) /\ tail \in 0..Len(last) /\ tail \in Nat
  BY <1>4, <1>6, <1>9, <1>11
<1>13. JoinedBy(SubSeq(s, from + 1, from + tail), 1) = JoinedBy(FirstOf(last, tail), 1)
  <2> DEFINE a == FirstOf(last, tail)
             b == SubSeq(s, from + 1, from + tail)
  <2>1. a \in Seq(Nat) /\ Len(a) = tail /\ \A i \in 1..tail : a[i] = last[i]
    BY <1>9, <1>12, Cuts
  <2>2. b \in Seq(Nat) /\ Len(b) = tail /\ \A i \in 1..tail : b[i] = s[from + i]
    <3> HIDE DEF from
    <3> QED
      BY <1>12, Segment
  <2> HIDE DEF a, b
  <2>3. ASSUME NEW i \in 1..tail PROVE b[i] = a[tail + 1 - i]
    <3>1. tail + 1 - i \in 1..tail /\ tail + 1 - i \in 1..m
      BY <1>11, <1>12, <1>6
    <3> DEFINE j == tail + 1 - i
    <3>2. a[j] = last[j] /\ last[j] = rest[m - j + 1]
      BY <1>9, <2>1, <3>1
    <3>3. m - j + 1 \in 1..m /\ Len(s) - m + (m - j + 1) = from + i
      BY <1>6, <1>11, <1>12, <3>1
    <3>4. rest[m - j + 1] = s[Len(s) - m + (m - j + 1)]
      BY <1>8, <3>3
    <3>5. b[i] = s[from + i]
      BY <2>2
    <3> QED
      BY <3>2, <3>3, <3>4, <3>5
  <2>4. \A i \in 1..Len(a) : b[i] = a[Len(a) + 1 - i]
    BY <2>1, <2>3
  <2>5. JoinedBy(b, 1) = JoinedBy(a, 1)
    BY <2>1, <2>2, <2>4, JoinedReversed
  <2> QED
    BY <2>5 DEF a, b
<1> HIDE DEF from
<1>14. head > 0 => head <= HeadCount(caps) /\ JoinedBy(FirstOf(s, head), 1) <= available \div 2
  BY <1>4 DEF H, half, hb
<1>15. tail > 0 => tail <= TailCount(caps)
                   /\ JoinedBy(SubSeq(s, from + 1, from + tail), 1) <= available - JoinedBy(FirstOf(s, head), 1)
  BY <1>11, <1>13 DEF T, hb
<1> QED
  BY <1>1, <1>2, <1>3, <1>4, <1>12, <1>14, <1>15, EndsFit

-----------------------------------------------------------------------------
(* The branch, the changes and the files *)

LEMMA EntriesAreLengths ==
  ASSUME MaterialTypes, NEW caps \in ResultCaps
  PROVE  Entries(caps) \in Seq(Nat)
<1>1. caps \in [lines: Nat, bytes: Nat]
  BY DisclosureAssumption
<1>2. ASSUME NEW e \in Items PROVE EntryLength(e, caps) \in Nat
  <2>1. e.lines \in Seq(Nat)
    BY DEF Items
  <2>2. CapResult(e.lines, caps).bytes \in Nat /\ JoinedBy(e.lines, 1) \in Nat
    BY <1>1, <2>1, PiResultKeepsLimits, JoinedIsNat
  <2> QED
    BY <2>2, LengthFacts DEF EntryLength
<1>3. items \in Seq(Items) /\ DOMAIN items = 1..Len(items) /\ Len(items) \in Nat
  BY DEF MaterialTypes
<1>4. \A i \in 1..Len(items) : items[i] \in Items
  BY <1>3
<1> DEFINE e == [i \in 1..Len(items) |-> EntryLength(items[i], caps)]
<1>5. Entries(caps) = e
  BY <1>3 DEF Entries
<1>6. e \in [1..Len(items) -> Nat]
  BY <1>2, <1>4
<1> HIDE DEF e
<1>7. e \in Seq(Nat)
  BY <1>3, <1>6
<1> QED
  BY <1>5, <1>7

LEMMA BranchKeepsLimit ==
  ASSUME NEW e \in Seq(Nat), NEW max \in Nat
  PROVE  SelectRecent(e, max).length \in Int /\ BranchIsCapped(e, max)
<1> DEFINE whole == JoinedBy(e, 2)
           k == IF Len(e) = 1 THEN 0 ELSE Recent(e, max)
           omitted == Len(e) - (IF k = 0 THEN 1 ELSE k)
           mark == IF Len(e) = 1 THEN 0 ELSE OmissionMarker(omitted) + 2
           prefix == mark + Newest + 2
           body == prefix + AtMost(e[Len(e)], AtLeast0(max - prefix))
           length == IF k > 0 THEN mark + JoinedBy(LastOf(e, k), 2) ELSE AtMost(max, body)
           r == SelectRecent(e, max)
<1>1. whole \in Nat /\ (e = <<>> => whole = 0)
  BY JoinedIsNat, JoinedOfNone
<1>2. Len(e) \in Nat /\ (e # <<>> => Len(e) > 0 /\ e[Len(e)] \in Nat)
  OBVIOUS
<1>3. CASE max = 0
  <2>1. r = [length |-> 0, whole |-> 0, marked |-> 0]
    BY <1>3 DEF SelectRecent
  <2>2. r.length = 0
    BY <2>1
  <2> QED
    BY <1>3, <2>2 DEF BranchIsCapped
<1>4. CASE max # 0 /\ whole <= max
  <2>1. r = [length |-> whole, whole |-> Len(e), marked |-> 0]
    BY <1>4 DEF SelectRecent, Between
  <2>2. r.length = whole /\ r.whole = Len(e)
    BY <2>1
  <2>3. r.length <= max /\ ~(r.whole < Len(e))
    BY <1>2, <1>4, <2>2
  <2> QED
    BY <1>1, <2>2, <2>3 DEF BranchIsCapped
<1>5. CASE max # 0 /\ ~(whole <= max)
  <2>1. e # <<>> /\ whole > max /\ max > 0
    BY <1>1, <1>5
  <2>2. r = [length |-> length, whole |-> k, marked |-> omitted]
    BY <1>5 DEF SelectRecent, Between
  <2>3. /\ k \in 0..Len(e)
        /\ k > 0 => Len(e) # 1 /\ OmissionMarker(Len(e) - k) + 2 + JoinedBy(LastOf(e, k), 2) <= max
    <3>1. CASE Len(e) = 1
      BY <1>2, <3>1
    <3>2. CASE Len(e) # 1
      <4>1. k = Recent(e, max)
        BY <3>2
      <4> QED
        BY <3>2, <4>1, RecentIs DEF Between
    <3> QED
      BY <3>1, <3>2
  <2> HIDE DEF k
  <2>4. omitted \in Int /\ (k > 0 => omitted = Len(e) - k)
    BY <1>2, <2>3
  <2> HIDE DEF omitted
  <2>5. OmissionMarker(omitted) \in Nat /\ mark \in Nat
    BY <2>4, LengthFacts DEF OmissionMarker
  <2>6. k > 0 => mark = OmissionMarker(Len(e) - k) + 2
    BY <2>3, <2>4
  <2> HIDE DEF mark
  <2>7. prefix \in Nat
    BY <2>5, LengthFacts
  <2> HIDE DEF prefix
  <2>8. body \in Int
    BY <1>2, <2>1, <2>7 DEF AtMost, AtLeast0
  <2> HIDE DEF body
  <2>9. length \in Int /\ length <= max
    <3>1. CASE k > 0
      <4>1. JoinedBy(LastOf(e, k), 2) \in Nat
        BY <2>3, Cuts, JoinedIsNat
      <4>2. length = mark + JoinedBy(LastOf(e, k), 2)
        BY <3>1
      <4>3. length = OmissionMarker(Len(e) - k) + 2 + JoinedBy(LastOf(e, k), 2)
        BY <2>6, <3>1, <4>2
      <4>4. length \in Int
        BY <2>5, <4>1, <4>2
      <4> QED
        BY <2>3, <3>1, <4>3, <4>4
    <3>2. CASE ~(k > 0)
      <4>1. length = AtMost(max, body)
        BY <3>2
      <4> QED
        BY <2>8, <4>1 DEF AtMost
    <3> QED
      BY <3>1, <3>2
  <2> HIDE DEF length
  <2>10. r.length = length /\ r.whole = k /\ r.marked = omitted
    BY <2>2
  <2>11. r.length <= max /\ JoinedBy(e, Between) > max /\ (r.whole > 0 => r.marked = Len(e) - r.whole)
    BY <2>1, <2>4, <2>9, <2>10 DEF Between
  <2> QED
    BY <2>9, <2>10, <2>11 DEF BranchIsCapped
<1> QED
  BY <1>3, <1>4, <1>5

\* What escaping adds, and that it is at most four times the length.
LEMMA EscapesOnTop ==
  ASSUME NEW m \in [ands: Nat, angles: Nat], NEW n \in Int
  PROVE  /\ EscapesAdd(m) \in Nat /\ Escaped(n, m) = n + EscapesAdd(m)
         /\ m.ands + m.angles <= n => Escaped(n, m) <= 5 * n
<1> DEFINE a == m.ands
           b == m.angles
<1>1. a \in Nat /\ b \in Nat
  OBVIOUS
<1>2. EscapesAdd(m) = 4 * a + 3 * b /\ Escaped(n, m) = n + EscapesAdd(m)
  BY DEF EscapesAdd, Escaped
<1> HIDE DEF a, b
<1>3. 4 * a + 3 * b \in Nat
  BY <1>1
<1>4. a + b <= n => n + (4 * a + 3 * b) <= 5 * n
  BY <1>1
<1> QED
  BY <1>2, <1>3, <1>4 DEF a, b

LEMMA ChangesKeepHalf ==
  ASSUME MaterialTypes, NEW context \in Nat, NEW git \in Nat
  PROVE  /\ ChangeText(GitBudget(context, git)) \in Nat
         /\ ChangeText(GitBudget(context, git)) <= changes.note + Between + context \div 2
<1> DEFINE half == context \div 2
           full == Escaped(changes.text, changes.markup)
           payload == AtMost(full, AtMost(git, half))
<1>1. half \in Nat /\ full \in Nat /\ changes.note \in Nat
  <2>1. changes.text \in Nat /\ changes.note \in Nat /\ changes.markup \in [ands: Nat, angles: Nat]
    BY DEF MaterialTypes
  <2>2. EscapesAdd(changes.markup) \in Nat /\ full = changes.text + EscapesAdd(changes.markup)
    BY <2>1, EscapesOnTop
  <2> QED
    BY <2>1, <2>2
<1>2. ChangeText(GitBudget(context, git))
        = changes.note + payload + (IF changes.note > 0 /\ payload > 0 THEN 2 ELSE 0)
  BY DEF ChangeText, WithNote, GitBudget, CapRepository, Between
<1> HIDE DEF half, full
<1>3. payload \in Nat /\ payload <= half
  BY <1>1 DEF AtMost
<1> HIDE DEF payload
<1> DEFINE text == changes.note + payload + (IF changes.note > 0 /\ payload > 0 THEN 2 ELSE 0)
<1>4. text \in Nat /\ text <= changes.note + 2 + half
  BY <1>1, <1>3
<1> HIDE DEF text
<1>5. ChangeText(GitBudget(context, git)) = text
  BY <1>2 DEF text
<1> QED
  BY <1>4, <1>5 DEF half, Between

LEMMA ContextKeepsLimit ==
  ASSUME MaterialTypes, NEW e \in Seq(Nat), NEW max \in Nat, NEW git \in Nat
  PROVE  ContextIsShared(e, max, git)
<1> DEFINE text == ChangeText(GitBudget(max, git))
           budget == ConversationBudget(max, git)
           length == SelectRecent(e, budget).length
           most == IF text > max THEN text ELSE max
<1>1. text \in Nat /\ text <= changes.note + Between + max \div 2
  BY ChangesKeepHalf
<1>2. budget = AtLeast0(max - text)
  BY DEF ConversationBudget
<1> HIDE DEF text
<1>3. budget \in Nat /\ most \in Nat /\ text + budget <= most
  BY <1>1, <1>2 DEF AtLeast0
<1> HIDE DEF budget, most
<1>4. length \in Int /\ BranchIsCapped(e, budget)
  BY <1>3, BranchKeepsLimit
<1>5. length <= budget
  BY <1>4 DEF BranchIsCapped
<1> HIDE DEF length
<1>6. ASSUME NEW m \in MarkupIn(length)
      PROVE  PiContext(e, max, git, m).changes + PiContext(e, max, git, m).conversation
                 <= most + EscapesAdd(m)
  <2>1. m \in [ands: Nat, angles: Nat]
    BY <1>6, DisclosureAssumption DEF MarkupIn
  <2>2. EscapesAdd(m) \in Nat /\ Escaped(length, m) = length + EscapesAdd(m)
    BY <1>4, <2>1, EscapesOnTop
  <2>3. /\ PiContext(e, max, git, m).changes = text
        /\ PiContext(e, max, git, m).conversation = Escaped(length, m)
    BY DEF PiContext, Sent, text, budget, length
  <2> QED
    BY <1>1, <1>3, <1>4, <1>5, <2>2, <2>3
<1> QED
  BY <1>1, <1>4, <1>6 DEF ContextIsShared, text, budget, length, most

LEMMA PluginContextKeepsLimit ==
  ASSUME MaterialTypes, NEW e \in Seq(Nat), NEW max \in Nat, NEW git \in Nat
  PROVE  PluginContextIsCapped(e, max, git)
<1> DEFINE text == ChangeText(GitBudget(max, git))
           length == SelectRecent(e, max).length
<1>1. text \in Nat /\ text <= changes.note + Between + max \div 2
  BY ChangesKeepHalf
<1> HIDE DEF text
<1>2. length \in Int /\ length <= max
  BY BranchKeepsLimit DEF BranchIsCapped
<1> HIDE DEF length
<1>3. ASSUME NEW m \in MarkupIn(length)
      PROVE  LET sent == PluginContext(e, max, git, m)
             IN /\ sent.conversation <= max + EscapesAdd(m) /\ sent.conversation <= 5 * max
                /\ sent.changes <= changes.note + Between + max \div 2
  <2>1. m \in [ands: Nat, angles: Nat] /\ m.ands + m.angles <= length
    BY <1>3, DisclosureAssumption DEF MarkupIn
  <2>2. /\ EscapesAdd(m) \in Nat /\ Escaped(length, m) = length + EscapesAdd(m)
        /\ Escaped(length, m) <= 5 * length
    BY <1>2, <2>1, EscapesOnTop
  <2>3. /\ PluginContext(e, max, git, m).changes = text
        /\ PluginContext(e, max, git, m).conversation = Escaped(length, m)
    BY DEF PluginContext, Sent, text, length
  <2>4. Escaped(length, m) <= max + EscapesAdd(m) /\ Escaped(length, m) <= 5 * max
    BY <1>2, <2>2
  <2> QED
    BY <1>1, <2>3, <2>4
<1> QED
  BY <1>3 DEF PluginContextIsCapped, length

\* What is read of the first files is within their common limit.
LEMMA FilesKeepLimit ==
  ASSUME MaterialTypes
  PROVE  Attached[Len(files)] <= FilesTotal
<1> DEFINE N == Len(files)
           Added(t, n) == IF n = 0 THEN 0
                         ELSE t[n - 1] + (IF files[n].allowed THEN Taken(files[n], t[n - 1]) ELSE 0)
           T == {m \in 0..N : \E t \in [0..m -> 0..FilesTotal] : \A n \in 0..m : t[n] = Added(t, n)}
<1>1. N \in Nat /\ FilesTotal \in Nat /\ FileMax \in Nat
  BY LengthFacts DEF MaterialTypes
<1>2. ASSUME NEW n \in 1..N PROVE files[n].size \in Nat
  <2> DEFINE File == [size: Nat, allowed: BOOLEAN]
  <2>1. files \in Seq(File)
    BY DEF MaterialTypes
  <2>2. \A f \in File : f.size \in Nat
    OBVIOUS
  <2> HIDE DEF File
  <2>3. files[n] \in File
    BY <2>1
  <2> QED
    BY <2>2, <2>3
<1> HIDE DEF N
\* What is read next keeps it.
<1>3. ASSUME NEW m \in 1..N, NEW x \in 0..FilesTotal
      PROVE  x + (IF files[m].allowed THEN Taken(files[m], x) ELSE 0) \in 0..FilesTotal
  <2> DEFINE size == files[m].size
             room == AtLeast0(FilesTotal - x)
             most == AtMost(FileMax, room)
             y == Taken(files[m], x)
  <2>1. size \in Nat
    BY <1>2
  <2>2. y = AtMost(size, most)
    BY DEF Taken
  <2>3. room \in Nat /\ x + room <= FilesTotal
    BY <1>1 DEF AtLeast0
  <2> HIDE DEF room
  <2>4. most \in Nat /\ most <= room
    BY <1>1, <2>3 DEF AtMost
  <2> HIDE DEF most, size
  <2>5. y \in Nat /\ y <= most
    BY <2>1, <2>2, <2>4 DEF AtMost
  <2> HIDE DEF y
  <2>6. x + y \in 0..FilesTotal
    BY <1>1, <2>3, <2>4, <2>5
  <2>7. x + 0 \in 0..FilesTotal
    BY <1>1
  <2> QED
    BY <2>6, <2>7 DEF y
<1>4. 0 \in T
  <2> DEFINE t == [n \in 0..0 |-> 0]
  <2>1. t \in [0..0 -> 0..FilesTotal] /\ \A n \in 0..0 : t[n] = Added(t, n)
    BY <1>1
  <2>2. 0 \in 0..N
    BY <1>1
  <2> QED
    BY <2>1, <2>2
<1>5. ASSUME NEW m \in 1..N, m - 1 \in T PROVE m \in T
  <2>1. PICK t \in [0..(m - 1) -> 0..FilesTotal] : \A n \in 0..(m - 1) : t[n] = Added(t, n)
    BY <1>5
  <2> DEFINE x == t[m - 1]
             z == x + (IF files[m].allowed THEN Taken(files[m], x) ELSE 0)
             u == [n \in 0..m |-> IF n = m THEN z ELSE t[n]]
  <2>2. x \in 0..FilesTotal
    BY <1>1
  <2>3. z \in 0..FilesTotal
    BY <1>3, <2>2
  <2>4. Added(t, m) = z
    BY <1>1
  <2> HIDE DEF x, z
  <2>5. u \in [0..m -> 0..FilesTotal] /\ u[m] = z /\ \A n \in 0..(m - 1) : u[n] = t[n]
    BY <1>1, <2>3
  <2> HIDE DEF u
  <2>6. ASSUME NEW n \in 0..m PROVE u[n] = Added(u, n)
    <3>1. CASE n = 0
      BY <1>1, <2>1, <2>5, <3>1
    <3>2. CASE n \in 1..(m - 1)
      <4>1. n \in 0..(m - 1) /\ n - 1 \in 0..(m - 1) /\ n # 0
        BY <1>1, <3>2
      <4>2. u[n] = t[n] /\ u[n - 1] = t[n - 1] /\ t[n] = Added(t, n)
        BY <2>1, <2>5, <4>1
      <4> QED
        BY <4>1, <4>2
    <3>3. CASE n = m
      <4>1. m # 0 /\ m - 1 \in 0..(m - 1)
        BY <1>1
      <4>2. u[m - 1] = t[m - 1]
        BY <2>5, <4>1
      <4> QED
        BY <2>4, <2>5, <3>3, <4>1, <4>2
    <3> QED
      BY <1>1, <3>1, <3>2, <3>3
  <2>7. m \in 0..N
    BY <1>1
  <2> QED
    BY <2>5, <2>6, <2>7
<1>6. N \in T
  <2> HIDE DEF T
  <2>1. 0..N \subseteq T
    BY <1>1, <1>4, <1>5, UpTo
  <2> QED
    BY <1>1, <2>1
<1>7. PICK t \in [0..N -> 0..FilesTotal] : \A n \in 0..N : t[n] = Added(t, n)
  BY <1>6
<1>8. t = [n \in 0..N |-> Added(t, n)]
  BY <1>7
<1>9. Attached = CHOOSE total : total = [n \in 0..N |-> Added(total, n)]
  BY DEF Attached, N
<1> HIDE DEF Added
<1>10. Attached = [n \in 0..N |-> Added(Attached, n)]
  BY <1>8, <1>9
<1>11. \A n \in 0..N : Attached[n] = Added(Attached, n)
  BY <1>10
<1> DEFINE B == {n \in 0..N : Attached[n] \in 0..FilesTotal}
<1>12. 0 \in B
  <2>1. Attached[0] = 0
    BY <1>1, <1>11 DEF Added
  <2> QED
    BY <1>1, <2>1
<1>13. ASSUME NEW m \in 1..N, m - 1 \in B PROVE m \in B
  <2>1. m \in 0..N /\ m # 0 /\ Attached[m - 1] \in 0..FilesTotal
    BY <1>1, <1>13
  <2>2. Attached[m] = Attached[m - 1]
          + (IF files[m].allowed THEN Taken(files[m], Attached[m - 1]) ELSE 0)
    BY <1>11, <2>1 DEF Added
  <2>3. Attached[m] \in 0..FilesTotal
    BY <1>3, <2>1, <2>2
  <2> QED
    BY <2>1, <2>3
<1>14. N \in B
  <2> HIDE DEF B
  <2>1. 0..N \subseteq B
    BY <1>1, <1>12, <1>13, UpTo
  <2> QED
    BY <1>1, <2>1
<1> QED
  BY <1>1, <1>14 DEF N

\* What is selected keeps every limit, whatever the limits are and however much is asked
\* for: a result in both programs, kept whole, by its ends or replaced, the branch, the
\* changes with the conversation, and the files.  On top come what escaping adds, the note
\* about the changes and the text for a limit of zero.
THEOREM LimitsAreKeptHolds == DisSpec => []LimitsAreKept
<1>1. MaterialTypes => LimitsAreKept
  <2> SUFFICES ASSUME MaterialTypes PROVE LimitsAreKept
    OBVIOUS
  <2>1. Attached[Len(files)] <= FilesTotal
    BY FilesKeepLimit
  <2>2. ASSUME NEW caps \in ResultCaps
        PROVE  /\ ResultIsCapped(CapResult(resultLines, caps), caps)
               /\ caps.bytes - Marker \notin {0, 1} =>
                      ResultIsCapped(PluginCapResult(resultLines, caps), caps)
    <3>1. resultLines \in Seq(Nat) /\ caps \in [lines: Nat, bytes: Nat]
      BY DisclosureAssumption DEF MaterialTypes
    <3>2. /\ KeepsLimits(CapResult(resultLines, caps), resultLines, caps)
          /\ caps.bytes - Marker \notin {0, 1} =>
                 KeepsLimits(PluginCapResult(resultLines, caps), resultLines, caps)
      BY <3>1, PiResultKeepsLimits, PluginResultKeepsLimits
    <3> QED
      BY <3>2 DEF KeepsLimits, ResultIsCapped
  <2>3. ASSUME NEW caps \in ResultCaps, NEW max \in ContextLimits, NEW git \in GitLimits
        PROVE  /\ ContextIsShared(Entries(caps), max, git)
               /\ PluginContextIsCapped(Entries(caps), max, git)
    <3>1. Entries(caps) \in Seq(Nat) /\ max \in Nat /\ git \in Nat
      BY EntriesAreLengths, LengthFacts
    <3> QED
      BY <3>1, ContextKeepsLimit, PluginContextKeepsLimit
  <2> QED
    BY <2>1, <2>2, <2>3 DEF LimitsAreKept
<1> QED
  BY <1>1, MaterialTypesStep, PTL DEF DisSpec

-----------------------------------------------------------------------------
(* The benchmark's verdict.  Three strata, weighted by their shares, come   *)
(* to the pool they were drawn from: TwoStrata for one number, and the rest *)
(* is which numbers these are.                                              *)

\* The sum of one number over a set.
LEMMA TotalOfEquals ==
  ASSUME NEW S, IsFiniteSet(S), NEW n \in Nat, NEW f, \A i \in S : f[i] = n
  PROVE  TotalOf(S, f) = n * Cardinality(S)
<1>1. Units(S, f) = S \X (1..n)
  BY DEF Units
<1>2. IsFiniteSet(1..n) /\ Cardinality(1..n) = n
  BY FS_Interval
<1>3. Cardinality(S \X (1..n)) = Cardinality(S) * Cardinality(1..n)
  BY <1>2, FS_Product
<1>4. Cardinality(S) \in Nat
  BY FS_CardinalityType
<1> QED
  BY <1>1, <1>2, <1>3, <1>4 DEF TotalOf

LEMMA TotalOfBoth ==
  ASSUME NEW S, NEW R, IsFiniteSet(S), IsFiniteSet(R), S \cap R = {},
         NEW f, \A i \in S \cup R : f[i] \in Nat
  PROVE  TotalOf(S \cup R, f) = TotalOf(S, f) + TotalOf(R, f)
<1>1. Units(S \cup R, f) = Units(S, f) \cup Units(R, f)
  BY DEF Units
<1>2. Units(S, f) \cap Units(R, f) = {}
  BY DEF Units
<1>3. /\ IsFiniteSet(Units(S, f)) /\ TotalOf(S, f) \in Nat
      /\ IsFiniteSet(Units(R, f)) /\ TotalOf(R, f) \in Nat
  BY TotalIsNat
<1>4. Cardinality({}) = 0
  BY FS_EmptySet
<1>5. Cardinality(Units(S, f) \cup Units(R, f))
        = Cardinality(Units(S, f)) + Cardinality(Units(R, f)) - Cardinality({})
  BY <1>2, <1>3, FS_Union
<1>6. /\ Cardinality(Units(S, f)) = TotalOf(S, f)
      /\ Cardinality(Units(R, f)) = TotalOf(R, f)
      /\ Cardinality(Units(S \cup R, f)) = TotalOf(S \cup R, f)
  BY Zenon DEF TotalOf
<1>7. TotalOf(S \cup R, f) = TotalOf(S, f) + TotalOf(R, f) - 0
  BY <1>1, <1>4, <1>5, <1>6
<1> QED
  BY <1>3, <1>7

\* What a sample of equals adds up to is to the whole as their numbers are.
LEMMA SampleOfEquals ==
  ASSUME NEW S, IsFiniteSet(S), NEW R \in SUBSET S, NEW f, \A i \in S : f[i] \in Nat,
         R = S \/ \A i, j \in S : f[i] = f[j]
  PROVE  TotalOf(R, f) * Cardinality(S) = TotalOf(S, f) * Cardinality(R)
<1>1. IsFiniteSet(R) /\ Cardinality(R) \in Nat /\ Cardinality(S) \in Nat
  BY FS_Subset, FS_CardinalityType
<1>2. CASE R = S
  BY <1>2
<1>3. CASE R # S
  <2>1. PICK i \in S : TRUE
    BY <1>3
  <2>2. \A j \in S : f[j] = f[i]
    BY <1>3
  <2>3. TotalOf(R, f) = f[i] * Cardinality(R) /\ TotalOf(S, f) = f[i] * Cardinality(S)
    BY <1>1, <2>2, TotalOfEquals
  <2> QED
    BY <1>1, <2>3
<1> QED
  BY <1>2, <1>3

LEMMA ShareOfEquals ==
  ASSUME NEW S, IsFiniteSet(S), NEW R \in SUBSET S, NEW A \in SUBSET S,
         R = S \/ A = S \/ A = {}
  PROVE  Cardinality(A \cap R) * Cardinality(S) = Cardinality(A) * Cardinality(R)
<1>1. IsFiniteSet(R) /\ Cardinality(R) \in Nat /\ Cardinality(S) \in Nat /\ Cardinality({}) = 0
  BY FS_Subset, FS_CardinalityType, FS_EmptySet
<1>2. CASE R = S
  <2>1. A \cap R = A
    BY <1>2
  <2> QED
    BY <1>2, <2>1
<1>3. CASE A = S
  <2>1. A \cap R = R
    BY <1>3
  <2>2. \A m, n \in Nat : m * n = n * m
    OBVIOUS
  <2>3. Cardinality(R) * Cardinality(S) = Cardinality(S) * Cardinality(R)
    BY <1>1, <2>2
  <2> QED
    BY <1>3, <2>1, <2>3
<1>4. CASE A = {}
  <2>1. A \cap R = {}
    BY <1>4
  <2> QED
    BY <1>1, <1>4, <2>1
<1> QED
  BY <1>2, <1>3, <1>4

\* An average of a over u, and one of b over a sample of s, weighted by u and t.
Averaged(a, u, b, s, t) ==
    Plus(Plus([num |-> a * u, den |-> u], [num |-> b * t, den |-> s]), [num |-> 0, den |-> 1])

\* a and c over the pool, with the denominator the strata have together.
Pooled(a, u, c, s) == [num |-> (a + c) * (u * s), den |-> u * s]

\* b is to s as c is to t.
InProportion(b, s, c, t) == b * t = c * s

\* They come to the sum over one denominator, if the sample is in proportion.
LEMMA TwoStrata ==
  ASSUME NEW a \in Nat, NEW b \in Nat, NEW c \in Nat,
         NEW u \in Nat, NEW s \in Nat, NEW t \in Nat, InProportion(b, s, c, t)
  PROVE  Averaged(a, u, b, s, t) = Pooled(a, u, c, s)
<1> DEFINE x == a * u
           y == b * t
           m == (a + c) * (u * s)
           n == u * s
<1>1. x * s + y * u = m
  <2>1. y * u = (c * s) * u
    BY DEF InProportion
  <2>2. x * s + (c * s) * u = m
    OBVIOUS
  <2> QED
    BY <2>1, <2>2
<1>2. x \in Nat /\ y \in Nat /\ m \in Nat /\ n \in Nat /\ u * s = n
  OBVIOUS
<1>3. /\ Averaged(a, u, b, s, t)
           = Plus(Plus([num |-> x, den |-> u], [num |-> y, den |-> s]), [num |-> 0, den |-> 1])
      /\ Pooled(a, u, c, s) = [num |-> m, den |-> n]
  BY DEF Averaged, Pooled
<1> HIDE DEF x, y, m, n
<1> QED
  BY <1>1, <1>2, <1>3 DEF Plus

LEMMA LessTimes ==
  ASSUME NEW x \in Nat, NEW y \in Nat, NEW m \in Nat \ {0}
  PROVE  x * m < y * m <=> x < y
<1>1. ASSUME x < y PROVE x * m < y * m
  <2>1. (y - x) * m > 0
    BY <1>1
  <2>2. (y - x) * m = y * m - x * m
    OBVIOUS
  <2> QED
    BY <2>1, <2>2
<1>2. ASSUME ~(x < y) PROVE ~(x * m < y * m)
  <2>1. (x - y) * m >= 0
    BY <1>2
  <2>2. (x - y) * m = x * m - y * m
    OBVIOUS
  <2> QED
    BY <2>1, <2>2
<1> QED
  BY <1>1, <1>2

-----------------------------------------------------------------------------
(* The pool and its bands *)

PoolInv == pool \in Seq(Tasks)

CandidateTasks == InBand("candidate-uplift")
Trivials == InBand("trivial")
Beyond == InBand("out-of-reach")

LEMMA PoolInvHolds == VerdictSpec => []PoolInv
<1>1. VerdictInit => PoolInv
  BY DEF VerdictInit, PoolInv
<1>2. PoolInv /\ [VerdictNext]_verdictVars => PoolInv'
  BY DEF PoolInv, VerdictNext, Screen, verdictVars
<1> QED
  BY <1>1, <1>2, PTL DEF VerdictSpec

LEMMA Bands ==
  ASSUME PoolInv
  PROVE  /\ IsFiniteSet(DOMAIN pool) /\ \A i \in DOMAIN pool : pool[i] \in Tasks
         /\ IsFiniteSet(CandidateTasks) /\ IsFiniteSet(Trivials) /\ IsFiniteSet(TrivialSample)
         /\ IsFiniteSet(Beyond)
         /\ DOMAIN pool = (CandidateTasks \cup Trivials) \cup Beyond
         /\ CandidateTasks \cap Trivials = {} /\ CandidateTasks \cap Beyond = {}
         /\ Trivials \cap Beyond = {}
         /\ TrivialSample \in SUBSET Trivials
<1>1. DOMAIN pool = 1..Len(pool) /\ Len(pool) \in Nat
  BY DEF PoolInv
<1>2. IsFiniteSet(DOMAIN pool) /\ \A i \in DOMAIN pool : pool[i] \in Tasks
  BY <1>1, FS_Interval DEF PoolInv
<1>3. /\ CandidateTasks \in SUBSET DOMAIN pool /\ Trivials \in SUBSET DOMAIN pool
      /\ Beyond \in SUBSET DOMAIN pool /\ TrivialSample \in SUBSET Trivials
  BY DEF CandidateTasks, Trivials, Beyond, InBand, TrivialSample
<1>4. IsFiniteSet(CandidateTasks) /\ IsFiniteSet(Trivials) /\ IsFiniteSet(Beyond)
  BY <1>2, <1>3, FS_Subset
<1>5. IsFiniteSet(TrivialSample)
  BY <1>3, <1>4, FS_Subset
<1>6. \A t : Band(t) \in {"candidate-uplift", "trivial", "out-of-reach"}
  BY DEF Band
<1>7. DOMAIN pool = (CandidateTasks \cup Trivials) \cup Beyond
  BY <1>6 DEF CandidateTasks, Trivials, Beyond, InBand
<1>8. /\ CandidateTasks \cap Trivials = {} /\ CandidateTasks \cap Beyond = {}
      /\ Trivials \cap Beyond = {}
  BY DEF CandidateTasks, Trivials, Beyond, InBand
<1> QED
  BY <1>2, <1>3, <1>4, <1>5, <1>7, <1>8

LEMMA NotEmpty ==
  ASSUME NEW S, IsFiniteSet(S)
  PROVE  /\ Cardinality(S) \in Nat
         /\ S # {} <=> Cardinality(S) > 0
         /\ Cardinality(S) \in Nat \ {0} <=> S # {}
<1>1. Cardinality(S) \in Nat /\ (Cardinality(S) = 0 <=> S = {})
  BY FS_CardinalityType, FS_EmptySet
<1> QED
  BY <1>1

LEMMA StrataAre ==
  /\ DOMAIN Strata = {"candidate-uplift", "trivial", "out-of-reach"}
  /\ Strata["candidate-uplift"]
       = [points |-> UpliftPoints(CandidateTasks), weight |-> Cardinality(CandidateTasks)]
  /\ Strata["trivial"] = [points |-> TrivialPoints(TrivialSample), weight |-> Cardinality(Trivials)]
  /\ Strata["out-of-reach"] = [points |-> OutOfReachPoints(Beyond), weight |-> Cardinality(Beyond)]
BY DEF Strata, CandidateTasks, Trivials, Beyond, TrivialShare

\* A task the flow was never run on leaves no verdict.
LEMMA NeverBeyond ==
  ASSUME PoolInv, Beyond # {}
  PROVE  Headline # "WORTH_CONSIDERING" /\ ~WorthOverThePool
<1>1. Cardinality(Beyond) > 0
  BY Bands, NotEmpty
<1>2. Reweighted(LAMBDA p : p.flow).cost = Unavailable
  <2>1. "out-of-reach" \in {b \in DOMAIN Strata : Strata[b].weight > 0}
    BY <1>1, StrataAre
  <2>2. Strata["out-of-reach"].points.flow.cost = Unavailable
    BY StrataAre DEF OutOfReachPoints, OutOfReachFlow
  <2> QED
    BY <2>1, <2>2 DEF Reweighted
<1>3. Headline # "WORTH_CONSIDERING"
  BY <1>2 DEF Headline
<1>4. PICK i \in DOMAIN pool : Band(pool[i]) = "out-of-reach"
  BY DEF Beyond, InBand
<1>5. ~WorthOverThePool
  BY <1>4 DEF WorthOverThePool, FlowCost
<1> QED
  BY <1>3, <1>5

-----------------------------------------------------------------------------
(* A pool the flow was run on *)

\* The trivial tasks that were left out are like the ones that were evaluated.
Alike == TrivialSample = Trivials \/ \A i, j \in Trivials : pool[i] = pool[j]

Covered == PoolInv /\ Beyond = {} /\ Evaluated /\ Alike

CandidateCount == Cardinality(CandidateTasks)
SampleCount == Cardinality(TrivialSample)
TrivialCount == Cardinality(Trivials)

KnownCosts(S, arm) == \A i \in S : pool[i].costs[arm] # Unavailable
Amount(S, arm) == TotalOf(S, [i \in S |-> pool[i].costs[arm]])

LEMMA CountFacts ==
  ASSUME Covered
  PROVE  /\ CandidateCount \in Nat \ {0} /\ SampleCount \in Nat \ {0} /\ TrivialCount \in Nat \ {0} /\ CandidateCount * SampleCount \in Nat \ {0}
         /\ CandidateTasks # {} /\ TrivialSample # {}
         /\ DOMAIN pool = CandidateTasks \cup Trivials
<1> USE DEF Covered
<1>1. CandidateTasks # {}
  BY DEF Evaluated, CandidateTasks
<1>2. SampleCount \in Nat /\ SampleCount >= MinTrivial /\ MinTrivial \in Nat /\ MinTrivial > 0
  BY Bands, NotEmpty, VerdictAssumption DEF Evaluated, SampleCount
<1>3. TrivialSample # {} /\ SampleCount \in Nat \ {0}
  BY <1>2, Bands, NotEmpty DEF SampleCount
<1>4. Trivials # {}
  BY <1>3, Bands
<1>5. CandidateCount \in Nat \ {0} /\ TrivialCount \in Nat \ {0}
  BY <1>1, <1>4, Bands, NotEmpty DEF CandidateCount, TrivialCount
<1>6. CandidateCount * SampleCount \in Nat \ {0}
  BY <1>3, <1>5
<1> QED
  BY <1>1, <1>3, <1>5, <1>6, Bands

LEMMA AmountFacts ==
  ASSUME PoolInv, NEW S \in SUBSET DOMAIN pool, NEW arm \in EvalArms \cup ScreenArms,
         KnownCosts(S, arm)
  PROVE  /\ \A i \in S : pool[i].costs[arm] \in Nat
         /\ IsFiniteSet(S) /\ Amount(S, arm) \in Nat
         /\ S # {} => /\ CostOf(S, arm) = [num |-> Amount(S, arm), den |-> Cardinality(S)]
                      /\ CostOf(S, arm) # Unavailable
<1>1. \A i \in S : pool[i].costs[arm] \in Nat
  BY Bands, VerdictAssumption DEF KnownCosts
<1>2. IsFiniteSet(S) /\ Cardinality(S) \in Nat
  BY Bands, FS_Subset, FS_CardinalityType
<1>3. Amount(S, arm) \in Nat
  <2> DEFINE f == [i \in S |-> pool[i].costs[arm]]
  <2>1. \A i \in S : f[i] \in Nat
    BY <1>1
  <2> HIDE DEF f
  <2>2. TotalOf(S, f) \in Nat
    BY <1>2, <2>1, TotalIsNat
  <2> QED
    BY <2>2 DEF f, Amount
<1>4. S # {} => CostOf(S, arm) = [num |-> Amount(S, arm), den |-> Cardinality(S)]
  BY DEF KnownCosts, CostOf, SumOver, Amount
<1>5. S # {} => CostOf(S, arm) # Unavailable
  BY <1>2, <1>3, <1>4, VerdictAssumption
<1> QED
  BY <1>1, <1>2, <1>3, <1>4, <1>5

\* The average costs of the two strata, weighted, are what the pool's tasks cost.
LEMMA WeightedCosts ==
  ASSUME Covered, NEW x \in EvalArms \cup ScreenArms, NEW y \in EvalArms \cup ScreenArms,
         KnownCosts(CandidateTasks, x), KnownCosts(Trivials, y)
  PROVE  Plus(Plus([num |-> CostOf(CandidateTasks, x).num * CandidateCount, den |-> CostOf(CandidateTasks, x).den],
                   [num |-> CostOf(TrivialSample, y).num * TrivialCount, den |-> CostOf(TrivialSample, y).den]),
              [num |-> 0, den |-> 1])
           = Pooled(Amount(CandidateTasks, x), CandidateCount, Amount(Trivials, y), SampleCount)
<1> USE DEF Covered
<1>1. Amount(CandidateTasks, x) \in Nat /\ CostOf(CandidateTasks, x) = [num |-> Amount(CandidateTasks, x), den |-> CandidateCount]
  BY Bands, CountFacts, AmountFacts DEF CandidateCount
<1>2. KnownCosts(TrivialSample, y)
  BY Bands DEF KnownCosts
<1>3. /\ Amount(TrivialSample, y) \in Nat
      /\ CostOf(TrivialSample, y) = [num |-> Amount(TrivialSample, y), den |-> SampleCount]
  <2>1. TrivialSample \in SUBSET DOMAIN pool
    BY Bands
  <2> QED
    BY <1>2, <2>1, CountFacts, AmountFacts DEF SampleCount
<1>4. Amount(Trivials, y) \in Nat
  BY Bands, AmountFacts
<1>5. InProportion(Amount(TrivialSample, y), SampleCount, Amount(Trivials, y), TrivialCount)
  <2> DEFINE f == [i \in Trivials |-> pool[i].costs[y]]
             g == [i \in TrivialSample |-> pool[i].costs[y]]
  <2>1. \A i \in Trivials : f[i] \in Nat
    BY Bands, AmountFacts
  <2>2. TrivialSample = Trivials \/ \A i, j \in Trivials : f[i] = f[j]
    BY DEF Alike
  <2>3. \A i \in TrivialSample : f[i] = g[i]
    BY Bands
  <2> HIDE DEF f, g
  <2>4. TotalOf(TrivialSample, f) * Cardinality(Trivials) = TotalOf(Trivials, f) * Cardinality(TrivialSample)
    BY <2>1, <2>2, Bands, SampleOfEquals
  <2>5. TotalOf(TrivialSample, f) = TotalOf(TrivialSample, g)
    BY <2>3, TotalOfSame
  <2> QED
    BY <2>4, <2>5 DEF f, g, Amount, SampleCount, TrivialCount, InProportion
<1>6. Averaged(Amount(CandidateTasks, x), CandidateCount, Amount(TrivialSample, y), SampleCount,
               TrivialCount)
        = Pooled(Amount(CandidateTasks, x), CandidateCount, Amount(Trivials, y), SampleCount)
  <2>1. CandidateCount \in Nat /\ SampleCount \in Nat /\ TrivialCount \in Nat
    BY CountFacts
  <2> QED
    BY <1>1, <1>3, <1>4, <1>5, <2>1, TwoStrata
<1> QED
  BY <1>1, <1>3, <1>6 DEF Averaged

\* The rates of the two strata, weighted, are how many of the pool's tasks passed.
LEMMA WeightedRates ==
  ASSUME Covered, NEW A \in SUBSET CandidateTasks, NEW B \in SUBSET Trivials,
         TrivialSample = Trivials \/ B = Trivials \/ B = {}
  PROVE  /\ Averaged(Cardinality(A), CandidateCount, Cardinality(B \cap TrivialSample), SampleCount,
                     TrivialCount)
              = Pooled(Cardinality(A), CandidateCount, Cardinality(B), SampleCount)
         /\ Cardinality(A) \in Nat /\ Cardinality(B) \in Nat
         /\ Cardinality(A \cup B) = Cardinality(A) + Cardinality(B)
<1> USE DEF Covered
<1>1. IsFiniteSet(A) /\ IsFiniteSet(B) /\ IsFiniteSet(B \cap TrivialSample) /\ A \cap B = {}
  BY Bands, FS_Subset
<1>2. /\ Cardinality(A) \in Nat /\ Cardinality(B) \in Nat
      /\ Cardinality(B \cap TrivialSample) \in Nat /\ Cardinality({}) = 0
  BY <1>1, FS_CardinalityType, FS_EmptySet
<1>3. Cardinality(A \cup B) = Cardinality(A) + Cardinality(B)
  <2>1. Cardinality(A \cup B) = Cardinality(A) + Cardinality(B) - Cardinality({})
    BY <1>1, FS_Union
  <2> QED
    BY <1>2, <2>1
<1>4. InProportion(Cardinality(B \cap TrivialSample), SampleCount, Cardinality(B), TrivialCount)
  BY Bands, ShareOfEquals DEF SampleCount, TrivialCount, InProportion
<1>5. Averaged(Cardinality(A), CandidateCount, Cardinality(B \cap TrivialSample), SampleCount,
               TrivialCount)
        = Pooled(Cardinality(A), CandidateCount, Cardinality(B), SampleCount)
  <2>1. CandidateCount \in Nat /\ SampleCount \in Nat /\ TrivialCount \in Nat
    BY CountFacts
  <2> QED
    BY <1>2, <1>4, <2>1, TwoStrata
<1> QED
  BY <1>2, <1>3, <1>5

\* p / q of the fraction v.
PartOf(p, q, v) == [num |-> p * v.num, den |-> q * v.den]

\* Over the same denominator, the smaller sum is the smaller fraction, a share of it too.
LEMMA PooledLess ==
  ASSUME NEW a \in Nat, NEW c \in Nat, NEW d \in Nat, NEW e \in Nat, NEW p \in Nat, NEW q \in Nat,
         NEW u \in Nat, NEW s \in Nat, u * s \in Nat \ {0}
  PROVE  /\ Less(Pooled(a, u, c, s), Pooled(d, u, e, s)) <=> a + c < d + e
         /\ Less(Pooled(a, u, c, s), PartOf(p, q, Pooled(d, u, e, s)))
              <=> q * (a + c) < p * (d + e)
<1> DEFINE n == u * s
           x == a + c
           y == d + e
           m == n * n
           v == Pooled(a, u, c, s)
           w == Pooled(d, u, e, s)
           portion == PartOf(p, q, w)
<1>1. n \in Nat \ {0} /\ x \in Nat /\ y \in Nat /\ m \in Nat \ {0}
  OBVIOUS
<1>2. v.num = x * n /\ v.den = n /\ w.num = y * n /\ w.den = n
  BY DEF Pooled
<1> HIDE DEF n, x, y, m, v, w
<1>3. portion.num = p * (y * n) /\ portion.den = q * n
  BY <1>2 DEF PartOf
<1> HIDE DEF portion
<1>4. (x * n) * n = x * m /\ (y * n) * n = y * m
  BY <1>1 DEF m
<1>5. (x * n) * (q * n) = (q * x) * m /\ (p * (y * n)) * n = (p * y) * m
  BY <1>1 DEF m
<1>6. q * x \in Nat /\ p * y \in Nat
  BY <1>1
<1>7. x * m < y * m <=> x < y
  BY <1>1, LessTimes
<1>8. (q * x) * m < (p * y) * m <=> q * x < p * y
  BY <1>1, <1>6, LessTimes
<1>9. Less(v, w) <=> (x * n) * n < (y * n) * n
  BY <1>2, Zenon DEF Less
<1>10. Less(v, portion) <=> (x * n) * (q * n) < (p * (y * n)) * n
  BY <1>2, <1>3, Zenon DEF Less
<1>11. Less(v, w) <=> x < y
  BY <1>4, <1>7, <1>9, Zenon
<1>12. Less(v, portion) <=> q * x < p * y
  BY <1>5, <1>8, <1>10, Zenon
<1> QED
  BY <1>11, <1>12, Zenon DEF x, y, v, w, portion

-----------------------------------------------------------------------------
(* Both arms over a pool the flow was run on *)

Passing(S, arm) == {i \in S : MajorityPasses(i, arm)}
ScreenedBy(S) == {i \in S : pool[i].f > 0}

\* The average of x over the candidates and of y over the sample, where both are known.
AverageCost(x, y) ==
    IF CostOf(CandidateTasks, x) = Unavailable \/ CostOf(TrivialSample, y) = Unavailable THEN Unavailable
    ELSE Plus(Plus([num |-> CostOf(CandidateTasks, x).num * CandidateCount, den |-> CostOf(CandidateTasks, x).den],
                   [num |-> CostOf(TrivialSample, y).num * TrivialCount, den |-> CostOf(TrivialSample, y).den]),
              [num |-> 0, den |-> 1])

LEMMA CountedStrata ==
  ASSUME Covered
  PROVE  /\ {b \in DOMAIN Strata : Strata[b].weight > 0} = {"candidate-uplift", "trivial"}
         /\ Strata["candidate-uplift"].points = UpliftPoints(CandidateTasks)
         /\ Strata["candidate-uplift"].weight = CandidateCount
         /\ Strata["trivial"].points = TrivialPoints(TrivialSample)
         /\ Strata["trivial"].weight = TrivialCount
<1>1. Strata["out-of-reach"].weight = 0
  BY StrataAre, FS_EmptySet DEF Covered
<1>2. /\ Strata["candidate-uplift"].points = UpliftPoints(CandidateTasks)
      /\ Strata["candidate-uplift"].weight = CandidateCount
      /\ Strata["trivial"].points = TrivialPoints(TrivialSample)
      /\ Strata["trivial"].weight = TrivialCount
  BY StrataAre DEF CandidateCount, TrivialCount
<1>3. \A b : b \in DOMAIN Strata <=> b \in {"candidate-uplift", "trivial", "out-of-reach"}
  BY StrataAre
<1>4. CandidateCount > 0 /\ TrivialCount > 0
  BY CountFacts
<1> QED
  BY <1>1, <1>2, <1>3, <1>4

\* The flow: what E+A cost and passed.
LEMMA FlowIs ==
  ASSUME Covered
  PROVE  /\ Reweighted(LAMBDA p : p.flow).cost = AverageCost("E+A", "E+A")
         /\ Reweighted(LAMBDA p : p.flow).pass
              = Averaged(Cardinality(Passing(CandidateTasks, "E+A")), CandidateCount,
                         Cardinality(Passing(TrivialSample, "E+A")), SampleCount, TrivialCount)
<1>1. UpliftPoints(CandidateTasks).flow
        = [cost |-> CostOf(CandidateTasks, "E+A"),
           pass |-> [num |-> Cardinality(Passing(CandidateTasks, "E+A")), den |-> CandidateCount]]
  BY CountFacts DEF UpliftPoints, EvaluatedPoint, Rate, Passing, CandidateCount
<1>2. TrivialPoints(TrivialSample).flow
        = [cost |-> CostOf(TrivialSample, "E+A"),
           pass |-> [num |-> Cardinality(Passing(TrivialSample, "E+A")), den |-> SampleCount]]
  BY CountFacts DEF TrivialPoints, EvaluatedPoint, Rate, Passing, SampleCount
<1>3. Reweighted(LAMBDA p : p.flow).cost = AverageCost("E+A", "E+A")
  BY <1>1, <1>2, CountedStrata DEF Reweighted, Weigh, AverageCost
<1>4. Reweighted(LAMBDA p : p.flow).pass
        = Averaged(Cardinality(Passing(CandidateTasks, "E+A")), CandidateCount,
                   Cardinality(Passing(TrivialSample, "E+A")), SampleCount, TrivialCount)
  BY <1>1, <1>2, CountedStrata DEF Reweighted, Weigh, Averaged
<1> QED
  BY <1>3, <1>4

\* The frontier: F on the candidates, its screening on the trivial tasks.
LEMMA FrontierIs ==
  ASSUME Covered
  PROVE  /\ Reweighted(LAMBDA p : p.frontier).cost = AverageCost("F", "F0")
         /\ Reweighted(LAMBDA p : p.frontier).pass
              = Averaged(Cardinality(Passing(CandidateTasks, "F")), CandidateCount,
                         Cardinality(ScreenedBy(TrivialSample)), SampleCount, TrivialCount)
<1>1. UpliftPoints(CandidateTasks).frontier
        = [cost |-> CostOf(CandidateTasks, "F"),
           pass |-> [num |-> Cardinality(Passing(CandidateTasks, "F")), den |-> CandidateCount]]
  BY CountFacts DEF UpliftPoints, EvaluatedPoint, Rate, Passing, CandidateCount
<1>2. TrivialPoints(TrivialSample).frontier
        = [cost |-> CostOf(TrivialSample, "F0"),
           pass |-> [num |-> Cardinality(ScreenedBy(TrivialSample)), den |-> SampleCount]]
  BY CountFacts DEF TrivialPoints, FrontierScreened, ScreeningPoint, Rate, ScreenedBy, SampleCount
<1>3. Reweighted(LAMBDA p : p.frontier).cost = AverageCost("F", "F0")
  BY <1>1, <1>2, CountedStrata DEF Reweighted, Weigh, AverageCost
<1>4. Reweighted(LAMBDA p : p.frontier).pass
        = Averaged(Cardinality(Passing(CandidateTasks, "F")), CandidateCount,
                   Cardinality(ScreenedBy(TrivialSample)), SampleCount, TrivialCount)
  BY <1>1, <1>2, CountedStrata DEF Reweighted, Weigh, Averaged
<1> QED
  BY <1>3, <1>4

\* What is averaged is known just if it is known of every task, sampled or not.
LEMMA AverageCostIs ==
  ASSUME Covered, NEW x \in EvalArms \cup ScreenArms, NEW y \in EvalArms \cup ScreenArms
  PROVE  IF KnownCosts(CandidateTasks, x) /\ KnownCosts(Trivials, y)
         THEN /\ Amount(CandidateTasks, x) \in Nat /\ Amount(Trivials, y) \in Nat
              /\ AverageCost(x, y)
                   = Pooled(Amount(CandidateTasks, x), CandidateCount, Amount(Trivials, y), SampleCount)
              /\ AverageCost(x, y) # Unavailable
         ELSE AverageCost(x, y) = Unavailable
<1> USE DEF Covered
<1>1. KnownCosts(Trivials, y) <=> KnownCosts(TrivialSample, y)
  <2>1. PICK k \in TrivialSample : k \in Trivials
    BY CountFacts, Bands
  <2> QED
    BY <2>1, Bands DEF KnownCosts, Alike
<1>2. /\ CandidateTasks \in SUBSET DOMAIN pool /\ TrivialSample \in SUBSET DOMAIN pool
      /\ Trivials \in SUBSET DOMAIN pool /\ CandidateTasks # {} /\ TrivialSample # {}
  BY Bands, CountFacts
<1>3. CASE KnownCosts(CandidateTasks, x) /\ KnownCosts(Trivials, y)
  <2>1. Amount(CandidateTasks, x) \in Nat /\ CostOf(CandidateTasks, x) # Unavailable
    BY <1>2, <1>3, AmountFacts
  <2>2. Amount(Trivials, y) \in Nat
    BY <1>2, <1>3, AmountFacts
  <2>3. CostOf(TrivialSample, y) # Unavailable
    BY <1>1, <1>2, <1>3, AmountFacts
  <2>4. AverageCost(x, y)
          = Pooled(Amount(CandidateTasks, x), CandidateCount, Amount(Trivials, y), SampleCount)
    BY <1>3, <2>1, <2>3, WeightedCosts DEF AverageCost
  <2>5. CandidateCount * SampleCount \in Nat
    BY CountFacts
  <2>6. (Amount(CandidateTasks, x) + Amount(Trivials, y)) * (CandidateCount * SampleCount) \in Nat
    BY <2>1, <2>2, <2>5
  <2>7. AverageCost(x, y) # Unavailable
    BY <2>4, <2>5, <2>6, VerdictAssumption DEF Pooled
  <2> QED
    BY <1>3, <2>1, <2>2, <2>4, <2>7
<1>4. CASE ~(KnownCosts(CandidateTasks, x) /\ KnownCosts(Trivials, y))
  <2>1. CostOf(CandidateTasks, x) = Unavailable \/ CostOf(TrivialSample, y) = Unavailable
    BY <1>1, <1>4 DEF KnownCosts, CostOf
  <2> QED
    BY <1>4, <2>1 DEF AverageCost
<1> QED
  BY <1>3, <1>4

\* The sum over the pool, where the two bands have their amounts.
LEMMA PoolAmount ==
  ASSUME Covered, NEW x \in EvalArms \cup ScreenArms, NEW y \in EvalArms \cup ScreenArms,
         KnownCosts(CandidateTasks, x), KnownCosts(Trivials, y),
         NEW f, \A i \in CandidateTasks : f[i] = pool[i].costs[x],
         \A i \in Trivials : f[i] = pool[i].costs[y]
  PROVE  TotalOf(DOMAIN pool, f) = Amount(CandidateTasks, x) + Amount(Trivials, y)
<1> USE DEF Covered
<1>1. \A i \in CandidateTasks \cup Trivials : f[i] \in Nat
  BY Bands, AmountFacts
<1>2. TotalOf(CandidateTasks \cup Trivials, f) = TotalOf(CandidateTasks, f) + TotalOf(Trivials, f)
  BY <1>1, Bands, TotalOfBoth
<1>3. TotalOf(CandidateTasks, f) = Amount(CandidateTasks, x)
  <2> DEFINE g == [i \in CandidateTasks |-> pool[i].costs[x]]
  <2>1. \A i \in CandidateTasks : f[i] = g[i]
    OBVIOUS
  <2> HIDE DEF g
  <2>2. TotalOf(CandidateTasks, f) = TotalOf(CandidateTasks, g)
    BY <2>1, TotalOfSame
  <2> QED
    BY <2>2 DEF g, Amount
<1>4. TotalOf(Trivials, f) = Amount(Trivials, y)
  <2> DEFINE g == [i \in Trivials |-> pool[i].costs[y]]
  <2>1. \A i \in Trivials : f[i] = g[i]
    OBVIOUS
  <2> HIDE DEF g
  <2>2. TotalOf(Trivials, f) = TotalOf(Trivials, g)
    BY <2>1, TotalOfSame
  <2> QED
    BY <2>2 DEF g, Amount
<1> QED
  BY <1>2, <1>3, <1>4, CountFacts

\* A majority of the seeds is more than half of them.
LEMMA MajorityIsMore ==
  ASSUME PoolInv, NEW i \in DOMAIN pool, NEW arm \in EvalArms
  PROVE  MajorityPasses(i, arm) <=> 2 * pool[i].passes[arm] > Seeds
<1>1. pool[i].passes[arm] \in Nat /\ Seeds \in Nat
  BY Bands, VerdictAssumption
<1> QED
  BY <1>1 DEF MajorityPasses

LEMMA QualityIsNat == Quality.num \in Nat /\ Quality.den \in Nat
BY VerdictAssumption

\* The arms' rates compare as what they passed of the pool.
LEMMA WeightedPasses ==
  ASSUME Covered
  PROVE  LET flow == Reweighted(LAMBDA p : p.flow)
             frontier == Reweighted(LAMBDA p : p.frontier)
             flowPasses == Cardinality({i \in DOMAIN pool : 2 * pool[i].passes["E+A"] > Seeds})
             frontierPasses == Cardinality({i \in DOMAIN pool : FrontierPasses(pool[i])})
         IN  /\ Quality.den * flowPasses \in Nat /\ Quality.num * frontierPasses \in Nat
             /\ Less(flow.pass,
                     [num |-> Quality.num * frontier.pass.num, den |-> Quality.den * frontier.pass.den])
                  <=> Quality.den * flowPasses < Quality.num * frontierPasses
<1> USE DEF Covered
<1> DEFINE A == Passing(CandidateTasks, "E+A")
           B == Passing(Trivials, "E+A")
           C == Passing(CandidateTasks, "F")
           D == ScreenedBy(Trivials)
           flow == Reweighted(LAMBDA p : p.flow)
           frontier == Reweighted(LAMBDA p : p.frontier)
<1>1. /\ A \in SUBSET CandidateTasks /\ B \in SUBSET Trivials
      /\ C \in SUBSET CandidateTasks /\ D \in SUBSET Trivials
  BY DEF Passing, ScreenedBy
<1>2. Passing(TrivialSample, "E+A") = B \cap TrivialSample /\ ScreenedBy(TrivialSample) = D \cap TrivialSample
  BY Bands DEF Passing, ScreenedBy
<1>3. /\ TrivialSample = Trivials \/ B = Trivials \/ B = {}
      /\ TrivialSample = Trivials \/ D = Trivials \/ D = {}
  BY DEF Alike, Passing, ScreenedBy, MajorityPasses
<1>4. {i \in DOMAIN pool : 2 * pool[i].passes["E+A"] > Seeds} = A \cup B
  <2>1. \A i \in DOMAIN pool : MajorityPasses(i, "E+A") <=> 2 * pool[i].passes["E+A"] > Seeds
    BY MajorityIsMore DEF EvalArms
  <2> QED
    BY <2>1, CountFacts DEF Passing
<1>5. {i \in DOMAIN pool : FrontierPasses(pool[i])} = C \cup D
  <2>1. \A i \in DOMAIN pool : MajorityPasses(i, "F") <=> 2 * pool[i].passes["F"] > Seeds
    BY MajorityIsMore DEF EvalArms
  <2>2. /\ \A i \in CandidateTasks : Band(pool[i]) = "candidate-uplift"
        /\ \A i \in Trivials : Band(pool[i]) # "candidate-uplift"
    BY DEF CandidateTasks, Trivials, InBand
  <2> QED
    BY <2>1, <2>2, CountFacts DEF Passing, ScreenedBy, FrontierPasses
<1>6. /\ flow.pass = Averaged(Cardinality(A), CandidateCount, Cardinality(B \cap TrivialSample),
                               SampleCount, TrivialCount)
      /\ frontier.pass = Averaged(Cardinality(C), CandidateCount, Cardinality(D \cap TrivialSample),
                                   SampleCount, TrivialCount)
  BY <1>2, FlowIs, FrontierIs
<1> HIDE DEF A, B, C, D, flow, frontier
<1>7. /\ flow.pass = Pooled(Cardinality(A), CandidateCount, Cardinality(B), SampleCount)
      /\ Cardinality(A) \in Nat /\ Cardinality(B) \in Nat
      /\ Cardinality(A \cup B) = Cardinality(A) + Cardinality(B)
  BY <1>1, <1>3, <1>6, WeightedRates
<1>8. /\ frontier.pass = Pooled(Cardinality(C), CandidateCount, Cardinality(D), SampleCount)
      /\ Cardinality(C) \in Nat /\ Cardinality(D) \in Nat
      /\ Cardinality(C \cup D) = Cardinality(C) + Cardinality(D)
  BY <1>1, <1>3, <1>6, WeightedRates
<1>9. CandidateCount \in Nat /\ SampleCount \in Nat /\ CandidateCount * SampleCount \in Nat \ {0}
  BY CountFacts
<1>10. Less(flow.pass, [num |-> Quality.num * frontier.pass.num, den |-> Quality.den * frontier.pass.den])
         <=> Quality.den * Cardinality(A \cup B) < Quality.num * Cardinality(C \cup D)
  <2>1. Less(Pooled(Cardinality(A), CandidateCount, Cardinality(B), SampleCount),
             PartOf(Quality.num, Quality.den,
                    Pooled(Cardinality(C), CandidateCount, Cardinality(D), SampleCount)))
          <=> Quality.den * (Cardinality(A) + Cardinality(B))
                < Quality.num * (Cardinality(C) + Cardinality(D))
    BY <1>7, <1>8, <1>9, PooledLess, QualityIsNat
  <2> QED
    BY <1>7, <1>8, <2>1, Zenon DEF PartOf
<1>11. /\ Quality.den * Cardinality(A \cup B) \in Nat
       /\ Quality.num * Cardinality(C \cup D) \in Nat
  <2>1. Cardinality(A \cup B) \in Nat /\ Cardinality(C \cup D) \in Nat
    BY <1>7, <1>8
  <2> QED
    BY <2>1, QualityIsNat
<1> QED
  BY <1>4, <1>5, <1>10, <1>11, Zenon DEF flow, frontier

LEMMA CoveredVerdict ==
  ASSUME Covered
  PROVE  Headline = "WORTH_CONSIDERING" <=> WorthOverThePool
<1> USE DEF Covered
<1> DEFINE given == \A i \in DOMAIN pool : FlowCost(pool[i]) # Unavailable /\ FrontierCost(pool[i]) # Unavailable
           flowCost == SumOver(DOMAIN pool, LAMBDA i : FlowCost(pool[i]))
           frontierCost == SumOver(DOMAIN pool, LAMBDA i : FrontierCost(pool[i]))
           flowPasses == Cardinality({i \in DOMAIN pool : 2 * pool[i].passes["E+A"] > Seeds})
           frontierPasses == Cardinality({i \in DOMAIN pool : FrontierPasses(pool[i])})
           flow == Reweighted(LAMBDA p : p.flow)
           frontier == Reweighted(LAMBDA p : p.frontier)
           bothKnown == /\ KnownCosts(CandidateTasks, "E+A") /\ KnownCosts(Trivials, "E+A")
                        /\ KnownCosts(CandidateTasks, "F") /\ KnownCosts(Trivials, "F0")
<1>1. WorthOverThePool <=> /\ given /\ flowCost < frontierCost
                          /\ Quality.den * flowPasses >= Quality.num * frontierPasses
  BY DEF WorthOverThePool
<1>2. /\ \A i \in CandidateTasks : Band(pool[i]) = "candidate-uplift"
      /\ \A i \in Trivials : Band(pool[i]) = "trivial"
      /\ DOMAIN pool = CandidateTasks \cup Trivials
  BY CountFacts DEF CandidateTasks, Trivials, InBand
<1>3. /\ \A i \in DOMAIN pool : FlowCost(pool[i]) = pool[i].costs["E+A"]
      /\ \A i \in CandidateTasks : FrontierCost(pool[i]) = pool[i].costs["F"]
      /\ \A i \in Trivials : FrontierCost(pool[i]) = pool[i].costs["F0"]
  BY <1>2 DEF FlowCost, FrontierCost
<1>4. given <=> bothKnown
  BY <1>2, <1>3 DEF KnownCosts
<1>5. Headline = "WORTH_CONSIDERING" <=>
        flow.cost # Unavailable /\ frontier.cost # Unavailable /\ ~Dominated(flow, frontier)
  BY DEF Headline
<1>6. flow.cost = AverageCost("E+A", "E+A") /\ frontier.cost = AverageCost("F", "F0")
  BY FlowIs, FrontierIs
<1>7. "E+A" \in EvalArms /\ "F" \in EvalArms /\ "F0" \in ScreenArms
  BY DEF EvalArms, ScreenArms
<1> HIDE DEF given, flow, frontier
<1>10. /\ Quality.den * flowPasses \in Nat /\ Quality.num * frontierPasses \in Nat
       /\ Less(flow.pass,
               [num |-> Quality.num * frontier.pass.num, den |-> Quality.den * frontier.pass.den])
            <=> Quality.den * flowPasses < Quality.num * frontierPasses
  BY WeightedPasses DEF flow, frontier
<1>8. CASE ~bothKnown
  <2>1. flow.cost = Unavailable \/ frontier.cost = Unavailable
    BY <1>6, <1>7, <1>8, AverageCostIs
  <2> QED
    BY <1>1, <1>4, <1>5, <1>8, <2>1
<1>9. CASE bothKnown
  <2>1. PICK a \in Nat, c \in Nat, d \in Nat, e \in Nat :
          /\ a = Amount(CandidateTasks, "E+A") /\ c = Amount(Trivials, "E+A")
          /\ d = Amount(CandidateTasks, "F") /\ e = Amount(Trivials, "F0")
          /\ flow.cost # Unavailable /\ frontier.cost # Unavailable
          /\ flow.cost = Pooled(a, CandidateCount, c, SampleCount)
          /\ frontier.cost = Pooled(d, CandidateCount, e, SampleCount)
    BY <1>6, <1>7, <1>9, AverageCostIs
  <2>2. flowCost = a + c
    <3> DEFINE f == [i \in DOMAIN pool |-> FlowCost(pool[i])]
    <3>1. /\ \A i \in CandidateTasks : f[i] = pool[i].costs["E+A"]
          /\ \A i \in Trivials : f[i] = pool[i].costs["E+A"]
      BY <1>2, <1>3
    <3> HIDE DEF f
    <3>2. TotalOf(DOMAIN pool, f) = Amount(CandidateTasks, "E+A") + Amount(Trivials, "E+A")
      BY <1>7, <1>9, <3>1, PoolAmount
    <3> QED
      BY <2>1, <3>2 DEF f, SumOver
  <2>3. frontierCost = d + e
    <3> DEFINE f == [i \in DOMAIN pool |-> FrontierCost(pool[i])]
    <3>1. /\ \A i \in CandidateTasks : f[i] = pool[i].costs["F"]
          /\ \A i \in Trivials : f[i] = pool[i].costs["F0"]
      BY <1>2, <1>3
    <3> HIDE DEF f
    <3>2. TotalOf(DOMAIN pool, f) = Amount(CandidateTasks, "F") + Amount(Trivials, "F0")
      BY <1>7, <1>9, <3>1, PoolAmount
    <3> QED
      BY <2>1, <3>2 DEF f, SumOver
  <2>4. Less(flow.cost, frontier.cost) <=> flowCost < frontierCost
    <3> HIDE DEF flowCost, frontierCost
    <3>1. CandidateCount \in Nat /\ SampleCount \in Nat /\ CandidateCount * SampleCount \in Nat \ {0}
      BY CountFacts
    <3>2. Less(Pooled(a, CandidateCount, c, SampleCount), Pooled(d, CandidateCount, e, SampleCount))
            <=> a + c < d + e
      BY <3>1, PooledLess, QualityIsNat
    <3> QED
      BY <2>1, <2>2, <2>3, <3>2, Zenon
  <2>5. flowCost \in Nat /\ frontierCost \in Nat
    BY <2>2, <2>3
  <2> HIDE DEF flowCost, frontierCost, flowPasses, frontierPasses
  <2>6. Dominated(flow, frontier) <=>
          ~(flowCost < frontierCost) \/ Quality.den * flowPasses < Quality.num * frontierPasses
    BY <1>10, <2>4, Zenon DEF Dominated
  <2> QED
    BY <1>1, <1>4, <1>5, <1>9, <1>10, <2>1, <2>6
<1> QED
  BY <1>8, <1>9

\* What the benchmark recommends is what the whole pool shows (VerdictIsThePools): the
\* strata, their shares, the sample of the trivial tasks, averages and fractions change
\* nothing, and nothing unknown is ever counted for the flow.
THEOREM VerdictIsThePoolsHolds == VerdictSpec => []VerdictIsThePools
<1>1. ASSUME PoolInv, Evaluated,
             \A i, j \in InBand("trivial") : {i, j} \subseteq TrivialSample \/ pool[i] = pool[j]
      PROVE  Headline = "WORTH_CONSIDERING" <=> WorthOverThePool
  <2>1. CASE Beyond # {}
    BY <1>1, <2>1, NeverBeyond
  <2>2. CASE Beyond = {}
    <3>1. Alike
      <4>1. ASSUME NEW k \in Trivials, k \notin TrivialSample, NEW i \in Trivials
            PROVE  pool[i] = pool[k]
        BY <1>1, <4>1 DEF Trivials
      <4> QED
        BY <4>1, Bands, <1>1 DEF Alike
    <3> QED
      BY <1>1, <2>2, <3>1, CoveredVerdict DEF Covered
  <2> QED
    BY <2>1, <2>2
<1>2. PoolInv => VerdictIsThePools
  BY <1>1 DEF VerdictIsThePools
<1> QED
  BY PoolInvHolds, <1>2, PTL

-----------------------------------------------------------------------------
(* The composition.  A step of MCParts is a step of one part and changes    *)
(* nothing of the others, so that a behaviour of it is one of every part:   *)
(* what the theorems say of the parts holds of it.                          *)

\* A step of the composition, as each part sees it.
LEMMA PartsSteps ==
  ASSUME [PartsNext]_partsVars
  PROVE  /\ [OutNext]_outVars /\ [ScoutNext]_scoutVars /\ [UpdNext]_updVars
         /\ [CtxNext]_ctxVars /\ [ParserNext]_parserVars /\ [ActNext]_actVars
         /\ [DisNext]_disVars /\ [BenchNext]_benchVars /\ [VerdictNext]_verdictVars
BY DEF PartsNext, partsVars

\* The composition implements every part.
THEOREM PartsImplementEach ==
  PartsSpec => /\ OutSpec /\ ScoutSpec /\ UpdSpec /\ CtxSpec /\ ParserSpec
               /\ ActSpec /\ DisSpec /\ BenchSpec /\ VerdictSpec
<1>1. PartsInit => /\ OutInit /\ ScoutInit /\ UpdInit /\ CtxInit /\ ParserInit
                   /\ ActInit /\ DisInit /\ BenchInit /\ VerdictInit
  BY DEF PartsInit
<1>2. [PartsNext]_partsVars =>
         /\ [OutNext]_outVars /\ [ScoutNext]_scoutVars /\ [UpdNext]_updVars
         /\ [CtxNext]_ctxVars /\ [ParserNext]_parserVars /\ [ActNext]_actVars
         /\ [DisNext]_disVars /\ [BenchNext]_benchVars /\ [VerdictNext]_verdictVars
  BY PartsSteps
<1> QED
  BY <1>1, <1>2, PTL DEF PartsSpec, OutSpec, ScoutSpec, UpdSpec, CtxSpec, ParserSpec, ActSpec,
                         DisSpec, BenchSpec, VerdictSpec

\* The types of the composition (PartsTypeOK): the parts whose types say something of their
\* limits stay in them, whichever part runs.
THEOREM PartsTypesCorrect == PartsSpec => []PartsTypeOK
<1>1. OutTypeOK /\ ScoutTypeOK /\ UpdTypeOK /\ ParserTypeOK /\ ActTypeOK /\ BenchTypeOK
      => PartsTypeOK
  BY DEF PartsTypeOK
<1> QED
  BY <1>1, PartsImplementEach, OutTypesCorrect, ScoutTypesCorrect, UpdTypesCorrect,
     ParserTypesCorrect, ActTypesCorrect, BenchTypesCorrect, PTL
=============================================================================
