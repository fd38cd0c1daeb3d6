------------------------------- MODULE ScoutRun -------------------------------
(***************************************************************************)
(* Scout curates the conversation an Advisor is asked about                *)
(* (src/scout-curation.ts, src/scout.ts): it resolves the executor's       *)
(* model, streams an answer against a timer of 30 seconds and against the  *)
(* cancellation of the operation it serves, and publishes what happens.    *)
(* Automatic gates show it in the status line through a ScoutStatusManager *)
(* (src/tools/scout-status.ts), which the next session must find empty.    *)
(*                                                                         *)
(* What the provider, the timer and the caller do are actions; the         *)
(* continuation of runAdvisorScout after each of its awaits is another, so *)
(* that a cancellation may come between an answer and its use.  The status *)
(* stands for one host with a user interface; ScoutContext has what is     *)
(* selected.                                                               *)
(***************************************************************************)
EXTENDS Integers, FiniteSets

CONSTANTS
    Scouts,       \* the scouts of a host, each with a token
    NoScout       \* nothing settled, no verdict

VARIABLES
    scout,        \* per scout: how far runAdvisorScout is
    cancelled,    \* scouts whose parent signal is aborted
    timedOut,     \* scouts whose timer fired
    settled,      \* what Promise.race or resolve ended with, until it is looked at
    verdict,      \* the outcome
    known, active, retired,      \* the sets of ScoutStatusManager
    scoutStatus,  \* the status line says "Scout curating"
    \* History variables.  No action's guard reads them.
    older,        \* scouts that began in an earlier session
    terminal,     \* terminal events published per scout
    late          \* a chunk was published after a terminal event or a cancellation

scoutVars == <<scout, cancelled, timedOut, settled, verdict, known, active, retired,
               scoutStatus, older, terminal, late>>
statusVars == <<known, active, retired, scoutStatus>>
runVars == <<cancelled, timedOut, settled, verdict, older, terminal, late>>

Unsettled == {"resolving", "collecting"}
Fallbacks == {"missing-model", "auth-error", "provider-error", "timeout", "empty-response",
              "invalid-selection", "required-group-overflow", "invalid-protocol"}
Verdicts == Fallbacks \cup {"curated", "cancelled", "empty"}
Answers == {"good", "blank", "bad"}

ASSUME ScoutRunAssumption ==
    IsFiniteSet(Scouts) /\ NoScout \notin Verdicts \cup Answers \cup {"failure", "abort"}

Phase(s, p) == scout' = [scout EXCEPT ![s] = p]

-----------------------------------------------------------------------------
(* ScoutStatusManager *)

\* Mutant: a token that was retired may come back.
MutantShowCuration(s) ==
    /\ known' = known \cup {s} /\ active' = active \cup {s} /\ scoutStatus' = TRUE
    /\ UNCHANGED retired

\* update, for the events "call" and "chunk".
ShowCuration(s) ==
    IF s \in retired THEN UNCHANGED statusVars
    ELSE /\ known' = known \cup {s}
         /\ active' = active \cup {s}
         /\ scoutStatus' = TRUE
         /\ UNCHANGED retired

\* release
Retire(s) ==
    /\ active' = active \ {s}
    /\ known' = known \ {s}
    /\ retired' = retired \cup {s}
    /\ scoutStatus' = (active' # {})

\* update, for the other events: release where the token is not retired.
ShowVerdict(s) == IF s \in retired THEN UNCHANGED statusVars ELSE Retire(s)

\* Mutant: the tokens that are known are forgotten and not retired.
MutantClear ==
    /\ known' = {} /\ active' = {} /\ scoutStatus' = FALSE
    /\ UNCHANGED retired

Clear ==
    /\ retired' = retired \cup known
    /\ known' = {} /\ active' = {}
    /\ scoutStatus' = FALSE

-----------------------------------------------------------------------------
(* curateAdvisorConversation and runAdvisorScout *)

\* cancelled() and fallback(): the one event they publish and the outcome.
EndScout(s, v) ==
    /\ Phase(s, "ended")
    /\ verdict' = [verdict EXCEPT ![s] = v]
    /\ terminal' = [terminal EXCEPT ![s] = @ + 1]
    /\ ShowVerdict(s)
    /\ UNCHANGED <<cancelled, timedOut, settled, older, late>>

\* The gate registers its token and asks for the conversation.  Scout may be off or
\* have no room; the manifest may be refused.
BeginScout(s) ==
    /\ scout[s] = "idle"
    /\ \/ /\ Phase(s, "resolving")
          /\ known' = known \cup {s}
          /\ UNCHANGED <<active, retired, scoutStatus, runVars>>
       \/ /\ Phase(s, "ended")
          /\ verdict' = [verdict EXCEPT ![s] = "empty"]
          /\ known' = known \cup {s}
          /\ UNCHANGED <<active, retired, scoutStatus, cancelled, timedOut, settled, older,
                         terminal, late>>
       \/ \E reason \in {"required-group-overflow", "invalid-protocol"} : EndScout(s, reason)

\* Mutant: a cancellation is not looked at once an answer is there.
MutantGone(s) == s \in cancelled /\ scout[s] = "resolving"

\* parentSignal?.aborted
Gone(s) == s \in cancelled

\* resolve fails: no such model, no key, no login.
ResolveFails(s, reason) ==
    /\ scout[s] = "resolving"
    /\ reason \in {"missing-model", "auth-error", "provider-error"}
    /\ EndScout(s, IF Gone(s) THEN "cancelled" ELSE reason)

Resolved(s) ==
    /\ scout[s] = "resolving"
    /\ IF Gone(s) THEN EndScout(s, "cancelled")
       ELSE /\ Phase(s, "collecting")
            /\ ShowCuration(s)
            /\ UNCHANGED runVars

\* The controller is aborted by the timer or the parent's signal.
Aborted(s) == s \in timedOut \cup cancelled

\* onChunk: the provider sends more, while no abort and no end of the stream came.
Chunk(s) ==
    /\ scout[s] = "collecting"
    /\ settled[s] = NoScout
    /\ ~Aborted(s)
    /\ ShowCuration(s)
    /\ late' = (late \/ terminal[s] > 0 \/ s \in cancelled)
    /\ UNCHANGED <<scout, cancelled, timedOut, settled, verdict, older, terminal>>

\* The stream ends with an answer, or fails.
ScoutAnswered(s, answer) ==
    /\ scout[s] = "collecting"
    /\ settled[s] = NoScout
    /\ settled' = [settled EXCEPT ![s] = answer]
    /\ UNCHANGED <<scout, cancelled, timedOut, verdict, statusVars, older, terminal, late>>

\* Mutant: the abort reaches the provider, and nothing races its answer.
MutantAbortSettles(s) == FALSE

\* abortPromise rejects when the controller is aborted.
AbortSettles(s) == scout[s] = "collecting" /\ settled[s] = NoScout

\* 30 seconds after the call.  The timer is cleared once the race is over.
TimerFires(s) ==
    /\ scout[s] = "collecting"
    /\ settled[s] = NoScout /\ s \notin timedOut
    /\ timedOut' = timedOut \cup {s}
    /\ settled' = IF AbortSettles(s) THEN [settled EXCEPT ![s] = "abort"] ELSE settled
    /\ UNCHANGED <<scout, cancelled, verdict, statusVars, older, terminal, late>>

\* The operation the scout serves is cancelled, at any moment.
ParentAborts(s) ==
    /\ scout[s] \in Unsettled /\ s \notin cancelled
    /\ cancelled' = cancelled \cup {s}
    /\ settled' = IF AbortSettles(s) THEN [settled EXCEPT ![s] = "abort"] ELSE settled
    /\ UNCHANGED <<scout, timedOut, verdict, statusVars, older, terminal, late>>

\* What the await of the race ends with is looked at.
Resume(s) ==
    /\ scout[s] = "collecting"
    /\ settled[s] # NoScout
    /\ EndScout(s, CASE Gone(s) -> "cancelled"
                [] ~Gone(s) /\ settled[s] = "abort" -> "timeout"
                [] ~Gone(s) /\ settled[s] = "failure" ->
                      IF s \in timedOut THEN "timeout" ELSE "provider-error"
                [] ~Gone(s) /\ settled[s] = "blank" -> "empty-response"
                [] ~Gone(s) /\ settled[s] = "bad" -> "invalid-selection"
                [] OTHER -> "curated")

\* The gate or the consultation goes on to the Advisor and ends some time: its finally.
Release(s) ==
    /\ scout[s] = "ended"
    /\ Phase(s, "released")
    /\ Retire(s)
    /\ UNCHANGED runVars

\* session_shutdown: the status is cleared, what is in flight goes on (a manual
\* consultation's scout is cancelled, which ParentAborts may do before or after).
SessionEnds ==
    /\ \E s \in Scouts : scout[s] # "idle" /\ s \notin older
    /\ Clear
    /\ older' = {s \in Scouts : scout[s] # "idle"}
    /\ UNCHANGED <<scout, cancelled, timedOut, settled, verdict, terminal, late>>

-----------------------------------------------------------------------------

ScoutInit ==
    /\ scout = [s \in Scouts |-> "idle"]
    /\ cancelled = {} /\ timedOut = {} /\ older = {}
    /\ settled = [s \in Scouts |-> NoScout]
    /\ verdict = [s \in Scouts |-> NoScout]
    /\ known = {} /\ active = {} /\ retired = {} /\ scoutStatus = FALSE
    /\ terminal = [s \in Scouts |-> 0]
    /\ late = FALSE

Resolve(s) == Resolved(s) \/ \E reason \in Fallbacks : ResolveFails(s, reason)

ScoutNext ==
    \/ \E s \in Scouts :
          \/ BeginScout(s) \/ Resolve(s) \/ Chunk(s) \/ TimerFires(s) \/ ParentAborts(s)
          \/ Resume(s) \/ Release(s)
          \/ \E answer \in Answers \cup {"failure"} : ScoutAnswered(s, answer)
    \/ SessionEnds

ScoutSpec == ScoutInit /\ [][ScoutNext]_scoutVars

\* The credentials are found or not (no timer covers that await), timers fire, and a
\* settled promise resumes its awaiter.  The provider may stay silent for ever.
ScoutFairSpec ==
    ScoutSpec /\ \A s \in Scouts :
        WF_scoutVars(Resolve(s)) /\ WF_scoutVars(TimerFires(s)) /\ WF_scoutVars(Resume(s))

-----------------------------------------------------------------------------
(* Properties *)

ScoutTypeOK ==
    /\ scout \in [Scouts -> Unsettled \cup {"idle", "ended", "released"}]
    /\ cancelled \subseteq Scouts /\ timedOut \subseteq Scouts /\ older \subseteq Scouts
    /\ settled \in [Scouts -> Answers \cup {NoScout, "failure", "abort"}]
    /\ verdict \in [Scouts -> Verdicts \cup {NoScout}]
    /\ known \subseteq Scouts /\ active \subseteq known /\ retired \subseteq Scouts
    /\ known \cap retired = {}
    /\ scoutStatus \in BOOLEAN /\ late \in BOOLEAN
    /\ terminal \in [Scouts -> 0..1]

(***************************************************************************)
(* Exactly one thing decides a scout: nothing is published after its one   *)
(* terminal event.  A scout that was cancelled before it ended never ends  *)
(* in a fallback or a curation, either of which would go on to ask (and    *)
(* pay) the Advisor.                                                       *)
(***************************************************************************)
OneVerdict ==
    /\ ~late
    /\ \A s \in Scouts :
          /\ terminal[s] > 0 => scout[s] \in {"ended", "released"}
          /\ s \in cancelled /\ verdict[s] # NoScout => verdict[s] = "cancelled"
          /\ verdict[s] = "cancelled" => s \in cancelled
          /\ verdict[s] = "timeout" => s \in timedOut

(***************************************************************************)
(* The status line says that a scout is curating exactly while one of this *)
(* session is between its call and its end; late chunks of an earlier      *)
(* session do not bring it back.                                           *)
(***************************************************************************)
CurationShown ==
    /\ scoutStatus = (active # {})
    /\ active = {s \in Scouts \ older : scout[s] = "collecting"}

(***************************************************************************)
(* A scout whose credentials are found or refused ends, whatever the       *)
(* provider does: the consultation waits 30 seconds at most.               *)
(***************************************************************************)
ScoutsAreOver == \A s \in Scouts : scout[s] \notin Unsettled
=============================================================================
