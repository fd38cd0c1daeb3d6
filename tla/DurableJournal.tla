--------------------------- MODULE DurableJournal ---------------------------
(***************************************************************************)
(* What the ledger document promises its callers, without files or queues: *)
(* a journal to which transactions are applied one after the other, each   *)
(* on top of all the earlier ones.  A save makes everything applied so far *)
(* durable; a crash loses at most what was never saved.  The durable       *)
(* document is read once in a life, when the journal is opened: one that   *)
(* cannot be read then counts as empty, and is lost with the next save.    *)
(***************************************************************************)
CONSTANT Ops

VARIABLES
    log,       \* transactions the current state of the ledger reflects
    safe,      \* transactions the durable document reflects
    answered,  \* transactions whose caller has been answered
    open       \* the durable document has been read in this life

vars == <<log, safe, answered, open>>

Init ==
    /\ log = safe
    /\ safe \subseteq Ops
    /\ answered = {}
    /\ open = FALSE

Open ==
    /\ ~open
    /\ open' = TRUE
    /\ log' \in {log, {}}
    /\ UNCHANGED <<safe, answered>>

Apply(op) ==
    /\ open
    /\ op \notin log
    /\ log' = log \cup {op}
    /\ UNCHANGED <<safe, answered, open>>

Save ==
    /\ open
    /\ safe' = log
    /\ UNCHANGED <<log, answered, open>>

Answer(op) ==
    /\ open
    /\ op \in log
    /\ answered' = answered \cup {op}
    /\ UNCHANGED <<log, safe, open>>

Crash ==
    /\ log' = safe
    /\ open' = FALSE
    /\ UNCHANGED <<safe, answered>>

Next ==
    \/ \E op \in Ops : Apply(op) \/ Answer(op)
    \/ Open
    \/ Save
    \/ Crash

Spec == Init /\ [][Next]_vars
=============================================================================
