--------------------------- MODULE MCSessionGate ---------------------------
(* The small instances of SessionGate that TLC checks. *)
EXTENDS SessionGate

\* Every failure mode with a call limit, no limit with the budget, simple mode.
MCConfigs ==
    {[limit |-> 1, mode |-> m, budget |-> FALSE, simple |-> FALSE] : m \in Modes}
    \cup {[limit |-> 1, mode |-> m, budget |-> TRUE, simple |-> FALSE]
            : m \in {"block-session", "warn-and-continue"}}
    \cup {[limit |-> 0, mode |-> "block-session", budget |-> FALSE, simple |-> FALSE],
          [limit |-> None, mode |-> "block-tool", budget |-> FALSE, simple |-> FALSE],
          [limit |-> 1, mode |-> "block-session", budget |-> FALSE, simple |-> TRUE]}
=============================================================================
