----------------------------- MODULE FiniteSums -----------------------------
(***************************************************************************)
(* Sums over finite sets, for the accounting of times and the factorial    *)
(* analysis.                                                               *)
(***************************************************************************)
EXTENDS Integers, Functions

\* The sum of g[x] for x in S.
Total(g, S) == FoldFunctionOnSet(+, 0, g, S)

\* The sum of f(x) for x in S.
SumOver(S, f(_)) == Total([x \in S |-> f(x)], S)
=============================================================================
