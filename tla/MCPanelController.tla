-------------------------- MODULE MCPanelController --------------------------
EXTENDS PanelController, TLC

CONSTANTS m1, m2, e1, e2, n1, bad

\* Two models the catalog lists, each with an effort the other does not accept.
MCAccepts == (m1 :> {e1}) @@ (m2 :> {e2})

Document(advisor, effort, executor) ==
    [advisorEnabled |-> TRUE, advisor |-> advisor, advisorEffort |-> effort,
     executor |-> executor, executorEffort |-> Blank, limit |-> n1]

\* With and without a pinned Executor, and one whose effort the model does not accept.
MCDocuments == {Document(m1, e1, m2), Document(m1, e2, Blank)}

MCDefaults ==
    [advisorEnabled |-> FALSE, advisor |-> Blank, advisorEffort |-> Blank,
     executor |-> Blank, executorEffort |-> Blank, limit |-> n1]
=============================================================================
