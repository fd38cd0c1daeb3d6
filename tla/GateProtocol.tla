---------------------------- MODULE GateProtocol ----------------------------
(***************************************************************************)
(* The verdict of an automatic gate is read from the Advisor's Markdown by *)
(* parseAutomaticDecision: src/tools/gate-protocol.ts in the Pi extension  *)
(* and the same function in dsh/core.js.  It must not fail open: a second  *)
(* decision counts unless it stands in a fenced example that is closed.    *)
(*                                                                         *)
(* The answer grows line by line and the loop of the parser is one step    *)
(* per line.  A line is a kind; a fence has its character, its length and  *)
(* whether something follows it.                                           *)
(***************************************************************************)
EXTENDS Integers, Sequences

CONSTANTS
    Lines,       \* the lines of an answer
    MaxLines,
    NoFence      \* no fence is open, no decision was read

Decisions == {"proceed", "revise", "blocked"}
LineOf(k) == {l \in Lines : l.kind = k}

ASSUME GateProtocolAssumption ==
    /\ MaxLines \in Nat
    /\ \A l \in Lines : l.kind \in {"blank", "prose", "almost", "decision", "fence"}
    /\ \A l \in LineOf("decision") : l.says \in Decisions
    /\ \A l \in LineOf("fence") : /\ l.char \in {"backtick", "tilde"} /\ l.length \in Nat
                                  /\ l.suffix \in {"none", "text", "backtick"}
                                  /\ NoFence # [char |-> l.char, length |-> l.length]
    /\ NoFence \notin Decisions \cup {"missing", "malformed"}

VARIABLES
    answer,       \* the lines so far
    first,        \* what the first line that is not blank says, or NoFence
    openingFence, \* the fence that is open, or NoFence
    counted,      \* decisions: those outside closed fences
    fenced        \* pendingFencedDecisions

parserVars == <<answer, first, openingFence, counted, fenced>>

-----------------------------------------------------------------------------
(* advanceFence *)

\* A backtick fence with a backtick behind it is inline code.
Opens(l) == ~(l.char = "backtick" /\ l.suffix = "backtick")

\* Mutant: a shorter fence closes a longer one.
MutantCloses(l, open) == l.suffix = "none" /\ l.char = open.char

Closes(l, open) == l.suffix = "none" /\ l.char = open.char /\ l.length >= open.length

AdvanceFence(l, open) ==
    IF open = NoFence
    THEN IF Opens(l) THEN [char |-> l.char, length |-> l.length] ELSE NoFence
    ELSE IF Closes(l, open) THEN NoFence ELSE open

-----------------------------------------------------------------------------
(* parseAutomaticDecision *)

\* The first line that is not blank must be the decision.
ReadFirst(l) ==
    /\ first = NoFence
    /\ first' = CASE l.kind = "blank" -> NoFence
                  [] l.kind = "decision" -> l.says
                  [] l.kind = "almost" -> "malformed"
                  [] OTHER -> "missing"
    /\ UNCHANGED <<openingFence, counted, fenced>>

ReadFence(l) ==
    /\ first # NoFence /\ l.kind = "fence"
    /\ openingFence' = AdvanceFence(l, openingFence)
    /\ fenced' = IF openingFence # NoFence /\ openingFence' = NoFence THEN <<>> ELSE fenced
    /\ UNCHANGED <<first, counted>>

ReadDecision(l) ==
    /\ first # NoFence /\ l.kind = "decision"
    /\ IF openingFence # NoFence
       THEN fenced' = Append(fenced, l.says) /\ UNCHANGED counted
       ELSE counted' = Append(counted, l.says) /\ UNCHANGED fenced
    /\ UNCHANGED <<first, openingFence>>

ReadProse(l) ==
    /\ first # NoFence /\ l.kind \in {"blank", "prose", "almost"}
    /\ UNCHANGED <<first, openingFence, counted, fenced>>

\* Mutant: what stands in a fence that is still open at the end is not counted.
MutantSubsequent == counted

\* An unclosed fence hides nothing.
Subsequent == IF openingFence # NoFence THEN counted \o fenced ELSE counted

Verdict ==
    CASE first = NoFence -> "empty-response"
      [] first \in {"missing", "malformed"} -> first
      [] first \in Decisions /\ Subsequent = <<>> -> first
      [] OTHER -> IF Head(Subsequent) = first THEN "duplicate-decision" ELSE "contradictory-decision"

-----------------------------------------------------------------------------

ParserInit ==
    /\ answer = <<>> /\ first = NoFence /\ openingFence = NoFence
    /\ counted = <<>> /\ fenced = <<>>

ReadLine(l) ==
    /\ Len(answer) < MaxLines
    /\ answer' = Append(answer, l)
    /\ ReadFirst(l) \/ ReadFence(l) \/ ReadDecision(l) \/ ReadProse(l)

ParserNext == \E l \in Lines : ReadLine(l)

ParserSpec == ParserInit /\ [][ParserNext]_parserVars

-----------------------------------------------------------------------------
(* Properties *)

ParserTypeOK ==
    /\ Len(answer) <= MaxLines
    /\ first \in Decisions \cup {NoFence, "missing", "malformed"}
    /\ Len(counted) + Len(fenced) <= MaxLines

\* Line n stands between a fence that can open an example and one that can close it.
InClosedFence(n) ==
    \E i \in 1..(n - 1), j \in (n + 1)..Len(answer) :
        /\ answer[i].kind = "fence" /\ Opens(answer[i])
        /\ answer[j].kind = "fence" /\ answer[j].suffix = "none"
        /\ answer[j].char = answer[i].char /\ answer[j].length >= answer[i].length

(***************************************************************************)
(* The gate does not fail open: whatever follows, an accepted verdict is   *)
(* the decision on the first line that is not blank, and every other       *)
(* decision line stands in a fenced example that was closed by a fence of  *)
(* its kind, as long and bare.  And it does not fail shut: an answer       *)
(* without another decision line is accepted, and is said to repeat or to  *)
(* contradict its verdict only where there is one.                         *)
(***************************************************************************)
GateNeverFailsOpen ==
    LET starts == {n \in 1..Len(answer) : answer[n].kind # "blank"}
        start == CHOOSE n \in starts : \A m \in starts : n <= m
        others == {n \in starts : n # start /\ answer[n].kind = "decision"}
    IN /\ Verdict \in Decisions =>
              /\ answer[start].kind = "decision" /\ answer[start].says = Verdict
              /\ \A n \in others : InClosedFence(n)
       /\ starts # {} => (answer[start].kind = "decision" /\ others = {} => Verdict \in Decisions)
       /\ Verdict \in {"duplicate-decision", "contradictory-decision"} => others # {}
=============================================================================
