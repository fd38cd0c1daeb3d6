----------------------------- MODULE MCPiSession -----------------------------
(* The small instances of PiSession that TLC checks. *)
EXTENDS PiSession

CONSTANTS s1, s2, m1, m2

\* Two tool calls, a tool call and a manual consultation, two manual consultations.
MCHosts == {{s1, s2}, {s1, m1}, {m1, m2}}

\* Every failure mode with a limit, no limit, and simple mode.
MCConfigs ==
    {[limit |-> 1, mode |-> m, simple |-> FALSE] : m \in {"block-session", "block-tool"}}
    \cup {[limit |-> 2, mode |-> "warn-and-continue", simple |-> FALSE]}
    \cup {[limit |-> None, mode |-> "block-session", simple |-> FALSE],
          [limit |-> 0, mode |-> "block-session", simple |-> TRUE]}
=============================================================================
