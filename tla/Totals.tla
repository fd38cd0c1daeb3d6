------------------------------- MODULE Totals -------------------------------
(***************************************************************************)
(* Sums over finite sets, as cardinalities: what is known of finite sets   *)
(* is then known of sums, and needs no recursion.                          *)
(***************************************************************************)
EXTENDS Integers, FiniteSets

\* The sum of f over S, as the number of pairs <<c, n>> with n <= f[c].
Units(S, f) == UNION {{c} \X (1..f[c]) : c \in S}
TotalOf(S, f) == Cardinality(Units(S, f))
=============================================================================
