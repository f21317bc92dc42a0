---------------------------- MODULE Factorial2kr ----------------------------
(***************************************************************************)
(* The 2^k r factorial analysis of the results: util.py's makeInput()      *)
(* orders the recorded means of the sixteen configurations of [Config      *)
(* Analysis] into a file, factorial2kr.py loads it line by line and        *)
(* computes effects, sums of squares and residuals.                        *)
(*                                                                         *)
(* The script computes in floating point.  Here observations are integers  *)
(* and every result is multiplied by the denominators the script divides   *)
(* by, so that its identities are exact.                                   *)
(***************************************************************************)
EXTENDS Integers, Sequences, FiniteSets, FiniteSums

CONSTANTS
  Lines,      \* the lines an input file may have, as sequences of values
  MaxLines,   \* the bound on their number
  Weights     \* weights of the factors in the metrics of an experiment

ASSUME LinesAssumption == Lines \subseteq Seq(Int)

ASSUME MaxLinesAssumption == MaxLines \in Nat

ASSUME WeightsAssumption == Weights \subseteq Int

VARIABLES
  phase,    \* loading, invalid (exception), valid, analyzed, failed (exception)
  data,     \* the observations of every line read so far
  r, k,     \* replications and number of factors
  signs,    \* the sign table, once analyzed
  effects,  \* 2^k * r times the effects
  metric    \* the weights, if the file comes from an experiment

results == <<signs, effects>>
factorialVars == <<phase, data, r, k, signs, effects, metric>>

-----------------------------------------------------------------------------
(* Sign table.                                                             *)

\* number & mask, for a number of at most 8 bits
BitAnd(number, mask) ==
  LET bit(n, i) == (n \div 2 ^ i) % 2
  IN  SumOver(0..7, LAMBDA i : 2 ^ i * bit(number, i) * bit(mask, i))

\* number >> n
ShiftRight(number, n) == number \div 2 ^ n

\* The parity of a word of at most 8 bits: TLC's integers end at 2^31.
parallel_swar(number) ==
  LET n1 == number - BitAnd(ShiftRight(number, 1), 1431655765) \* 0x55555555
      n2 == BitAnd(n1, 858993459)                              \* 0x33333333
              + BitAnd(ShiftRight(n1, 2), 858993459)
      n3 == ShiftRight(BitAnd(n2 + ShiftRight(n2, 4), 252645135) \* 0x0F0F0F0F
                         * 16843009, 24)                       \* 0x01010101
  IN  n3 % 2

Cells(n) == 0..(2 ^ n - 1)

sign_matrix(n) ==
  [row \in Cells(n) |-> [col \in Cells(n) |->
     IF parallel_swar(BitAnd(row, col)) = 0 THEN 1 ELSE -1]]

-----------------------------------------------------------------------------
(* The experiment's input file.                                            *)

\* The factors of [Config Analysis], in the order of the letters A, B, C, D.
Factors == <<"iat", "lt", "tot", "pt">>

Levels == [iat |-> <<60, 100>>, lt |-> <<10, 25>>, tot |-> <<10, 25>>,
           pt |-> <<60, 120>>]

Configurations ==
  {[f \in DOMAIN Levels |-> Levels[f][level[f]]] :
     level \in [DOMAIN Levels -> {1, 2}]}

\* sort_values(by=['pt', 'tot', 'lt', 'iat']), descending
SortedBefore(c, d) ==
  \E i \in 1..4 : /\ c[Factors[i]] > d[Factors[i]]
                  /\ \A j \in (i + 1)..4 : c[Factors[j]] = d[Factors[j]]

SortedConfigurations ==
  [i \in 1..16 |->
     CHOOSE c \in Configurations :
       Cardinality({d \in Configurations : SortedBefore(d, c)}) = i - 1]

\* Two repetitions of a metric that is linear in the factors, one above and
\* one below its value.
Means(w, c) ==
  LET v == SumOver(DOMAIN Levels, LAMBDA f : w[f] * c[f])
  IN  <<v - 1, v + 1>>

\* MUTANT: sorted in ascending order, the default of sort_values()
Mut_ExperimentData(w) ==
  [i \in 1..16 |-> Means(w, SortedConfigurations[17 - i])]

ExperimentData(w) == [i \in 1..16 |-> Means(w, SortedConfigurations[i])]

makeInput(w) ==
  /\ phase = "loading" /\ data = <<>>
  /\ data' = ExperimentData(w)
  /\ r' = 2 /\ k' = 4
  /\ metric' = w
  /\ phase' = "valid"
  /\ UNCHANGED results

-----------------------------------------------------------------------------
(* Loading.                                                                *)

Init ==
  /\ phase = "loading"
  /\ data = <<>>
  /\ r = 0 /\ k = 0
  /\ signs = <<>> /\ effects = <<>>
  /\ metric = <<>>

\* MUTANT: every line may set the number of replications
Mut_LineFits(line) == TRUE

LineFits(line) == r = 0 \/ r = Len(line)

ReadLine(line) ==
  /\ phase = "loading" /\ Len(data) < MaxLines
  /\ LineFits(line)
  /\ data' = Append(data, line)
  /\ r' = IF r = 0 THEN Len(line) ELSE r
  /\ UNCHANGED <<phase, k, results, metric>>

RejectLine(line) ==
  /\ phase = "loading" /\ Len(data) < MaxLines
  /\ ~LineFits(line)
  /\ phase' = "invalid"
  /\ UNCHANGED <<data, r, k, results, metric>>

\* int(round(math.log2(n))); log2 itself refuses 0
RoundedLog2(n) == CHOOSE i \in 0..n : 4 ^ i <= 2 * n * n /\ n * n < 2 * 4 ^ i

EndOfFile ==
  /\ phase = "loading"
  /\ k' = IF data = <<>> THEN 0 ELSE RoundedLog2(Len(data))
  /\ phase' = IF r = 0 \/ k' = 0 \/ 2 ^ k' # Len(data) THEN "invalid" ELSE "valid"
  /\ UNCHANGED <<data, r, results, metric>>

-----------------------------------------------------------------------------
(* Analysis.                                                               *)

Observations == UNION {{<<row, i>> : i \in DOMAIN data[row + 1]} : row \in Cells(k)}
Observed(o) == data[o[1] + 1][o[2]]

\* r * estimated_response[row]
RowTotal(row) == SumOver(DOMAIN data[row + 1], LAMBDA i : data[row + 1][i])

\* r * (v - y), the residual of an observation
Residual(o) == r * Observed(o) - RowTotal(o[1])

\* residuals[y], by r * y: rows of the same mean share an entry
Residuals == [y \in {RowTotal(row) : row \in Cells(k)} |->
                {o \in Observations : RowTotal(o[1]) = y}]

\* r^2 * sse
Sse == SumOver(Observations, LAMBDA o : Residual(o) * Residual(o))

\* MUTANT: the errors are left out
Mut_Ssy == r * SumOver(Cells(k), LAMBDA col : effects[col] * effects[col])

\* 2^k * r^2 * ssy, with ss_effects = 2^k * r * effect^2
Ssy == r * SumOver(Cells(k), LAMBDA col : effects[col] * effects[col])
         + 2 ^ k * Sse

\* MUTANT: the loop over the rows begins at 1
Mut_EffectsOf(table) ==
  [col \in Cells(k) |->
     SumOver(Cells(k) \ {0}, LAMBDA row : RowTotal(row) * table[row][col])]

EffectsOf(table) ==
  [col \in Cells(k) |->
     SumOver(Cells(k), LAMBDA row : RowTotal(row) * table[row][col])]

\* std_dev divides by r * (r - 1)
analyze ==
  /\ phase = "valid"
  /\ signs' = sign_matrix(k)
  /\ effects' = EffectsOf(signs')
  /\ phase' = IF r * (r - 1) = 0 THEN "failed" ELSE "analyzed"
  /\ UNCHANGED <<data, r, k, metric>>

Next ==
  \/ \E w \in [DOMAIN Levels -> Weights] : makeInput(w)
  \/ \E line \in Lines : ReadLine(line) \/ RejectLine(line)
  \/ EndOfFile
  \/ analyze

Spec == Init /\ [][Next]_factorialVars

-----------------------------------------------------------------------------
(* What the fixed tables have to satisfy.  They do not depend on the       *)
(* observations, so TLC evaluates them; the proofs go on from there to all *)
(* observations and all weights.                                           *)

\* The factor that the letter of a column names, if it is a single letter.
LetterOf(col) == {i \in 1..4 : col = 2 ^ (i - 1)}

\* The rows of the sign table are orthogonal.
Orthogonal(n) ==
  \A row, other \in Cells(n) :
    SumOver(Cells(n),
            LAMBDA col : sign_matrix(n)[row][col] * sign_matrix(n)[other][col])
      = IF row = other THEN 2 ^ n ELSE 0

\* The contrast of a factor in a column: its high less its low levels.
Contrast(f, col) ==
  SumOver(Cells(4), LAMBDA row :
            SortedConfigurations[row + 1][f] * sign_matrix(4)[row][col])

ASSUME SixteenRows == 2 ^ 4 = 16

\* parallel_swar() gives orthogonal tables for files of up to 16 lines, and for
\* every other size within the bound.
ASSUME TablesOrthogonal ==
  \A n \in (0..4) \cup {RoundedLog2(m) : m \in 1..MaxLines} : Orthogonal(n)

\* The sort order is total: every row of the file is a configuration.
ASSUME RowsAreConfigurations ==
  \A i \in 1..16 : SortedConfigurations[i] \in Configurations

\* Row order and signs fit: each column of one letter separates the levels
\* of the factor of that letter, and nothing else does.
ASSUME LettersSeparateLevels ==
  \A f \in DOMAIN Levels, col \in Cells(4) \ {0} :
    Contrast(f, col) = IF \E i \in LetterOf(col) : f = Factors[i]
                       THEN 8 * (Levels[f][2] - Levels[f][1]) ELSE 0

-----------------------------------------------------------------------------

(***************************************************************************)
(* The letters name the factors: for a metric linear in the factors the    *)
(* effect of A, B, C, D (columns 1, 2, 4, 8) is half of what raising iat,  *)
(* lt, tot, pt changes, with its sign, and no interaction has an effect.   *)
(* The row order comes from makeInput(), the signs from sign_matrix().     *)
(***************************************************************************)
LettersNameFactors ==
  phase = "analyzed" /\ metric # <<>> =>
    \A col \in Cells(4) \ {0} :
      LET raise(f) == metric[f] * (Levels[f][2] - Levels[f][1])
      IN  effects[col] = 16 * SumOver(LetterOf(col), LAMBDA i : raise(Factors[i]))

(***************************************************************************)
(* The effects explain the responses: summed with the signs of a row they  *)
(* give that row's mean back, so nothing of the 2^k means is lost or       *)
(* counted twice (the sign table is orthogonal).                           *)
(***************************************************************************)
EffectsExplainResponses ==
  phase = "analyzed" =>
    \A row \in Cells(k) :
      SumOver(Cells(k), LAMBDA col : effects[col] * signs[row][col])
        = 2 ^ k * RowTotal(row)

(***************************************************************************)
(* The SSY that analyze() adds up from effects and errors is the sum of    *)
(* the squared observations, on which all its percentages rest.            *)
(***************************************************************************)
SsyIsSumOfSquares ==
  phase = "analyzed" =>
    Ssy = 2 ^ k * r * r * SumOver(Observations, LAMBDA o : Observed(o) * Observed(o))

(***************************************************************************)
(* A valid file has 2^k lines, and what analyze() computes from them gives *)
(* every observation one residual, although rows of equal mean share an    *)
(* entry; the residuals of an entry cancel out.                            *)
(***************************************************************************)
ResidualsComplete ==
  phase \in {"valid", "analyzed"} =>
    /\ Len(data) = 2 ^ k
    /\ \A o \in Observations : Cardinality({y \in DOMAIN Residuals : o \in Residuals[y]}) = 1
    /\ \A y \in DOMAIN Residuals : SumOver(Residuals[y], Residual) = 0

(***************************************************************************)
(* The inductive invariant behind these four.  Lines have as many          *)
(* observations as the first that has any; a file found valid has a line   *)
(* for every row of its sign table, and what is computed from it belongs   *)
(* to that table and, if the file is an experiment's, to its metric.       *)
(***************************************************************************)
AnalysisInv ==
  /\ phase \in {"loading", "invalid", "valid", "analyzed", "failed"}
  /\ data \in Seq(Seq(Int)) /\ r \in Nat
  /\ \A i \in DOMAIN data : Len(data[i]) \in {0, r}
  /\ phase = "loading" => Len(data) <= MaxLines
  /\ phase \in {"valid", "analyzed"} => Len(data) = 2 ^ k /\ Orthogonal(k)
  /\ phase = "analyzed" => signs = sign_matrix(k) /\ effects = EffectsOf(signs)
  /\ metric # <<>> =>
       /\ metric \in [DOMAIN Levels -> Weights]
       /\ k = 4 /\ data = ExperimentData(metric)
       /\ phase # "loading"

(***************************************************************************)
(* "Invalid input at line ..." (factorial2kr.py:69): a file is accepted    *)
(* only if all its lines have the same number of observations.             *)
(***************************************************************************)
LinesComplete ==
  phase = "valid" => \A i \in DOMAIN data : Len(data[i]) = r

(***************************************************************************)
(* "observation file valid" (factorial2kr.py:78): a file that passed the   *)
(* checks of the loader can be analyzed.                                   *)
(***************************************************************************)
ValidCanBeAnalyzed == phase # "failed"
=============================================================================
