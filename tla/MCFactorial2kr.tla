--------------------------- MODULE MCFactorial2kr ---------------------------
(***************************************************************************)
(* Instances of the factorial analysis for TLC.                            *)
(***************************************************************************)
EXTENDS Factorial2kr

LinesUpTo(n, values) == UNION {[1..m -> values] : m \in 0..n}

\* Lines of equal and of different length, empty ones among them.
SomeLines == LinesUpTo(2, 0..2)

\* One observation per line.
SingleLines == [1..1 -> 0..2]

\* A factor lowers the metric, does not matter or raises it.
SignedWeights == {-1, 0, 1}
=============================================================================
