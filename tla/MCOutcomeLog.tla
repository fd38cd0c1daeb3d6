---------------------------- MODULE MCOutcomeLog ----------------------------
EXTENDS OutcomeLog

CONSTANTS c1, c2, c3, p1, p2, a1, a2

\* Two reports about one advice in one process, one about another in a second process.
MCProcessOf == [c \in OutCalls |-> IF c = c3 THEN p2 ELSE p1]
MCAdviceOf  == [c \in OutCalls |-> IF c = c3 THEN a2 ELSE a1]
=============================================================================
