------------------------ MODULE Factorial2kr_proofs ------------------------
(***************************************************************************)
(* The factorial analysis, for all observations, all numbers of            *)
(* replications and all weights of a linear metric.  What TLC evaluates    *)
(* are the fixed tables: the signs and the order of the configurations.    *)
(***************************************************************************)
EXTENDS Factorial2kr, FiniteSums_proofs

(***************************************************************************)
(* Linear algebra: e is the transform of T by the orthogonal table s.      *)
(***************************************************************************)

Transformed(C, T, s, e, N) ==
  /\ IsFiniteSet(C) /\ N \in Int
  /\ \A row \in C : T[row] \in Int
  /\ \A row, col \in C : s[row][col] \in Int
  /\ \A col \in C : e[col] = Total([row \in C |-> T[row] * s[row][col]], C)
  /\ \A row, other \in C :
       Total([col \in C |-> s[row][col] * s[other][col]], C)
         = IF row = other THEN N ELSE 0

\* The transform of integers is integer.
LEMMA TransformInt ==
  ASSUME NEW C, NEW T, NEW s, NEW e, NEW N, Transformed(C, T, s, e, N)
  PROVE  \A col \in C : e[col] \in Int
  <1> SUFFICES ASSUME NEW col \in C PROVE e[col] \in Int
    OBVIOUS
  <1> DEFINE g == [row \in C |-> T[row] * s[row][col]]
  <1>1. \A row \in C : g[row] \in Int
    BY DEF Transformed
  <1>2. e[col] = Total(g, C) /\ IsFiniteSet(C)
    BY DEF Transformed
  <1> HIDE DEF g
  <1> QED
    BY <1>1, <1>2, TotalInt

\* Transforming twice gives N times the rows back.
LEMMA TransformBack ==
  ASSUME NEW C, NEW T, NEW s, NEW e, NEW N, Transformed(C, T, s, e, N),
         NEW own \in C
  PROVE  Total([col \in C |-> e[col] * s[own][col]], C) = N * T[own]
  <1> DEFINE G == [row \in C |-> [col \in C |-> T[row] * (s[row][col] * s[own][col])]]
             H == [col \in C |-> [row \in C |-> T[row] * (s[row][col] * s[own][col])]]
             f == [row \in C |-> Total(G[row], C)]
             m == [col \in C |-> e[col] * s[own][col]]
  <1>1. /\ IsFiniteSet(C) /\ N \in Int
        /\ \A row \in C : T[row] \in Int
        /\ \A row, col \in C : s[row][col] \in Int
    BY DEF Transformed
  <1>2. \A row, col \in C :
          /\ G[row][col] = T[row] * (s[row][col] * s[own][col])
          /\ H[col][row] = G[row][col]
          /\ G[row][col] \in Int
    BY <1>1
  <1>3. ASSUME NEW col \in C PROVE m[col] = Total(H[col], C)
    <2> DEFINE g == [row \in C |-> T[row] * s[row][col]]
               h == H[col]
               c == s[own][col]
    <2>1. c \in Int /\ \A row \in C : g[row] \in Int
      BY <1>1
    <2>2. \A row \in C : h[row] = c * g[row]
      BY <1>1
    <2>3. e[col] = Total(g, C)
      BY DEF Transformed
    <2>4. m[col] = e[col] * c
      OBVIOUS
    <2>5. e[col] \in Int
      BY TransformInt
    <2> HIDE DEF g, h, c, m
    <2>6. Total(h, C) = c * Total(g, C)
      BY <1>1, <2>1, <2>2, TotalScale
    <2>7. m[col] = c * e[col]
      BY <2>1, <2>4, <2>5
    <2> QED
      BY <2>3, <2>6, <2>7 DEF h
  <1>4. ASSUME NEW row \in C
        PROVE  f[row] = IF row = own THEN N * T[own] ELSE 0
    <2> DEFINE g == [col \in C |-> s[row][col] * s[own][col]]
               h == G[row]
               c == T[row]
    <2>1. c \in Int /\ \A col \in C : g[col] \in Int /\ h[col] = c * g[col]
      BY <1>1
    <2>2. Total(g, C) = IF row = own THEN N ELSE 0
      BY DEF Transformed
    <2>3. f[row] = Total(h, C)
      OBVIOUS
    <2> HIDE DEF g, h, f
    <2>4. Total(h, C) = c * Total(g, C)
      BY <1>1, <2>1, TotalScale
    <2> QED
      BY <1>1, <2>1, <2>2, <2>3, <2>4
  <1>5. /\ \A row \in C : f[row] = Total(G[row], C)
        /\ \A col \in C : m[col] = Total(H[col], C)
    BY <1>3
  <1> HIDE DEF G, H, f, m
  <1>6. Total(f, C) = Total(m, C)
    <2>1. Swapped(C, C, f, m, G, H)
      BY <1>1, <1>2, <1>5 DEF Swapped
    <2> QED
      BY <2>1, TotalSwap
  <1>7. \A row \in C : f[row] \in Int
    BY <1>1, <1>4
  <1>8. Total(f, C) = f[own] + Total(f, C \ {own})
    BY <1>1, <1>7, TotalRemove
  <1>9. Total(f, C \ {own}) = 0
    <2>1. IsFiniteSet(C \ {own}) /\ \A row \in C \ {own} : f[row] = 0
      BY <1>1, <1>4, FS_RemoveElement
    <2> QED
      BY <2>1, TotalZero
  <1>10. f[own] = N * T[own] /\ f[own] \in Int
    BY <1>4, <1>7
  <1>11. Total(m, C) = N * T[own]
    BY <1>6, <1>8, <1>9, <1>10
  <1> QED
    BY <1>11 DEF m

\* The transform keeps the sum of squares, up to N.
LEMMA TransformSquares ==
  ASSUME NEW C, NEW T, NEW s, NEW e, NEW N, Transformed(C, T, s, e, N)
  PROVE  Total([col \in C |-> e[col] * e[col]], C)
           = N * Total([row \in C |-> T[row] * T[row]], C)
  <1> DEFINE G == [row \in C |-> [col \in C |-> T[row] * (e[col] * s[row][col])]]
             H == [col \in C |-> [row \in C |-> T[row] * (e[col] * s[row][col])]]
             f == [row \in C |-> Total(G[row], C)]
             m == [col \in C |-> e[col] * e[col]]
             q == [row \in C |-> T[row] * T[row]]
  <1>1. /\ IsFiniteSet(C) /\ N \in Int
        /\ \A row \in C : T[row] \in Int
        /\ \A row, col \in C : s[row][col] \in Int
    BY DEF Transformed
  <1>0. \A col \in C : e[col] \in Int
    BY TransformInt
  <1>2. \A row, col \in C :
          /\ G[row][col] = T[row] * (e[col] * s[row][col])
          /\ H[col][row] = G[row][col]
          /\ G[row][col] \in Int
    BY <1>0, <1>1
  <1>3. ASSUME NEW col \in C PROVE m[col] = Total(H[col], C)
    <2> DEFINE g == [row \in C |-> T[row] * s[row][col]]
               h == H[col]
               c == e[col]
    <2>1. c \in Int /\ \A row \in C : g[row] \in Int
      BY <1>0, <1>1
    <2>2. \A row \in C : h[row] = c * g[row]
      BY <1>0, <1>1
    <2>3. c = Total(g, C)
      BY DEF Transformed
    <2>4. m[col] = c * c
      OBVIOUS
    <2> HIDE DEF g, h, c, m
    <2>5. Total(h, C) = c * Total(g, C)
      BY <1>1, <2>1, <2>2, TotalScale
    <2> QED
      BY <2>3, <2>4, <2>5 DEF h
  <1>4. ASSUME NEW row \in C PROVE f[row] = N * q[row]
    <2> DEFINE g == [col \in C |-> e[col] * s[row][col]]
               h == G[row]
               c == T[row]
    <2>1. c \in Int /\ \A col \in C : g[col] \in Int /\ h[col] = c * g[col]
      BY <1>0, <1>1
    <2>2. Total(g, C) = N * c
      BY TransformBack
    <2>3. f[row] = Total(h, C) /\ q[row] = c * c
      OBVIOUS
    <2> HIDE DEF g, h, f, c, q
    <2>4. Total(h, C) = c * Total(g, C)
      BY <1>1, <2>1, TotalScale
    <2>5. c * (N * c) = N * (c * c)
      BY <1>1, <2>1
    <2> QED
      BY <2>2, <2>3, <2>4, <2>5
  <1>5. /\ \A row \in C : f[row] = Total(G[row], C)
        /\ \A col \in C : m[col] = Total(H[col], C)
    BY <1>3
  <1>8. \A row \in C : q[row] \in Int
    BY <1>1
  <1>9. \A row \in C : f[row] = N * q[row]
    BY <1>4
  <1> HIDE DEF G, H, f, m, q
  <1>6. Total(f, C) = Total(m, C)
    <2>1. Swapped(C, C, f, m, G, H)
      BY <1>1, <1>2, <1>5 DEF Swapped
    <2> QED
      BY <2>1, TotalSwap
  <1>7. Total(f, C) = N * Total(q, C)
    BY <1>1, <1>8, <1>9, TotalScale
  <1> QED
    BY <1>6, <1>7 DEF m, q

(***************************************************************************)
(* The observations d of one line: their sum, the sum of their squares,    *)
(* and what n times their deviation from the mean adds up to, if there are *)
(* n of them or none.                                                      *)
(***************************************************************************)

LineSum(d) == Total([i \in DOMAIN d |-> d[i]], DOMAIN d)

LineSquares(d) == Total([i \in DOMAIN d |-> d[i] * d[i]], DOMAIN d)

Deviations(d, n) == [i \in DOMAIN d |-> n * d[i] - LineSum(d)]

\* The sum and the deviations of a line of integers are integers.
LEMMA LineTypes ==
  ASSUME NEW d \in Seq(Int)
  PROVE  /\ IsFiniteSet(DOMAIN d) /\ Cardinality(DOMAIN d) = Len(d)
         /\ Len(d) \in Nat /\ \A i \in DOMAIN d : d[i] \in Int
         /\ LineSum(d) \in Int /\ LineSquares(d) \in Int
         /\ Len(d) = 0 => LineSum(d) = 0 /\ LineSquares(d) = 0
  <1>1. DOMAIN d = 1..Len(d) /\ Len(d) \in Nat /\ \A i \in DOMAIN d : d[i] \in Int
    OBVIOUS
  <1>2. IsFiniteSet(DOMAIN d) /\ Cardinality(DOMAIN d) = Len(d)
    BY <1>1, FS_Interval
  <1> DEFINE g == [i \in DOMAIN d |-> d[i]]
             h == [i \in DOMAIN d |-> d[i] * d[i]]
             D == DOMAIN d
  <1>3. IsFiniteSet(D) /\ \A i \in D : g[i] \in Int /\ h[i] \in Int
    BY <1>1, <1>2
  <1>5. Len(d) = 0 => D = {}
    BY <1>1
  <1>6. LineSum(d) = Total(g, D) /\ LineSquares(d) = Total(h, D)
    BY DEF LineSum, LineSquares
  <1> HIDE DEF g, h, D
  <1>4. Total(g, D) \in Int /\ Total(h, D) \in Int
    BY <1>3, TotalInt
  <1>7. D = {} => Total(g, D) = 0 /\ Total(h, D) = 0
    BY <1>3, TotalStep
  <1> QED
    BY <1>1, <1>2, <1>4, <1>5, <1>6, <1>7

\* The deviations cancel out.
LEMMA LineCancels ==
  ASSUME NEW d \in Seq(Int), NEW n \in Nat, Len(d) \in {0, n}
  PROVE  /\ \A i \in DOMAIN d : Deviations(d, n)[i] \in Int
         /\ Total(Deviations(d, n), DOMAIN d) = 0
  <1> DEFINE D == DOMAIN d
             t == LineSum(d)
             l == Len(d)
             g == [i \in D |-> d[i]]
             a == [i \in D |-> n * d[i]]
             b == [i \in D |-> -t]
             v == Deviations(d, n)
  <1>1. /\ IsFiniteSet(D) /\ Cardinality(D) = l /\ l \in Nat
        /\ \A i \in D : d[i] \in Int
        /\ t \in Int /\ (l = 0 => t = 0)
    BY LineTypes
  <1>2. t = Total(g, D)
    BY DEF LineSum
  <1>3. \A i \in D : /\ g[i] \in Int /\ a[i] = n * g[i] /\ a[i] \in Int
                     /\ b[i] = -t /\ b[i] \in Int
                     /\ v[i] = a[i] + b[i] /\ v[i] \in Int
    BY <1>1 DEF Deviations
  <1>4. l \in {0, n}
    OBVIOUS
  <1> HIDE DEF D, t, l, g, a, b, v
  <1>5. Total(a, D) = n * t
    <2>1. n \in Int /\ \A i \in D : g[i] \in Int /\ a[i] = n * g[i]
      BY <1>3
    <2>2. Total(a, D) = n * Total(g, D)
      BY <1>1, <2>1, TotalScale
    <2> QED
      BY <1>2, <2>2
  <1>6. Total(b, D) = (-t) * l
    <2> DEFINE m == -t
    <2>1. m \in Int /\ \A i \in D : b[i] = m
      BY <1>1, <1>3
    <2> HIDE DEF m
    <2>2. Total(b, D) = m * Cardinality(D)
      BY <1>1, <2>1, TotalConst
    <2> QED
      BY <1>1, <2>2 DEF m
  <1>7. Total(v, D) = Total(a, D) + Total(b, D)
    BY <1>1, <1>3, TotalPlus
  <1>8. n * t + (-t) * l = 0
    BY <1>1, <1>4
  <1>9. Total(v, D) = 0
    BY <1>5, <1>6, <1>7, <1>8
  <1> QED
    BY <1>3, <1>9 DEF v, D

\* Their squares: the observations' squares less the square of the sum.
LEMMA LineErrors ==
  ASSUME NEW d \in Seq(Int), NEW n \in Nat, Len(d) \in {0, n}
  PROVE  Total([i \in DOMAIN d |-> Deviations(d, n)[i] * Deviations(d, n)[i]],
               DOMAIN d)
           = (n * n) * LineSquares(d) - n * (LineSum(d) * LineSum(d))
  <1> DEFINE D == DOMAIN d
             t == LineSum(d)
             z == LineSquares(d)
             l == Len(d)
             g == [i \in D |-> d[i]]
             h == [i \in D |-> d[i] * d[i]]
             a == [i \in D |-> (n * n) * (d[i] * d[i])]
             b == [i \in D |-> (-(2 * (n * t))) * d[i]]
             c == [i \in D |-> t * t]
             u == [i \in D |-> a[i] + b[i]]
             w == [i \in D |-> Deviations(d, n)[i] * Deviations(d, n)[i]]
  <1>1. /\ IsFiniteSet(D) /\ Cardinality(D) = l /\ l \in Nat
        /\ \A i \in D : d[i] \in Int
        /\ t \in Int /\ z \in Int /\ (l = 0 => t = 0 /\ z = 0)
    BY LineTypes
  <1>2. t = Total(g, D) /\ z = Total(h, D)
    BY DEF LineSum, LineSquares
  <1>3. ASSUME NEW i \in D
        PROVE  /\ g[i] \in Int /\ h[i] \in Int
               /\ a[i] = (n * n) * h[i] /\ a[i] \in Int
               /\ b[i] = (-(2 * (n * t))) * g[i] /\ b[i] \in Int
               /\ c[i] = t * t /\ c[i] \in Int
               /\ u[i] = a[i] + b[i] /\ u[i] \in Int
               /\ w[i] = u[i] + c[i]
    <2> DEFINE x == d[i]
    <2>1. x \in Int
      BY <1>1
    <2>2. w[i] = (n * x - t) * (n * x - t)
      BY DEF Deviations
    <2>3. /\ g[i] = x /\ h[i] = x * x /\ a[i] = (n * n) * (x * x)
          /\ b[i] = (-(2 * (n * t))) * x /\ c[i] = t * t
          /\ u[i] = a[i] + b[i]
      OBVIOUS
    <2> HIDE DEF x, g, h, a, b, c, u, w, t
    <2>4. (n * x - t) * (n * x - t)
            = ((n * n) * (x * x) + (-(2 * (n * t))) * x) + t * t
      BY <1>1, <2>1
    <2>5. g[i] \in Int /\ h[i] \in Int /\ a[i] \in Int /\ b[i] \in Int /\ c[i] \in Int
      BY <1>1, <2>1, <2>3
    <2> QED
      BY <2>2, <2>3, <2>4, <2>5
  <1>4. l \in {0, n}
    OBVIOUS
  <1> HIDE DEF D, t, z, l, g, h, a, b, c, u, w
  <1>10. n * n \in Int /\ -(2 * (n * t)) \in Int /\ t * t \in Int
    BY <1>1
  <1>5. Total(a, D) = (n * n) * z
    <2> DEFINE m == n * n
    <2>1. m \in Int /\ \A i \in D : h[i] \in Int /\ a[i] = m * h[i]
      BY <1>3, <1>10
    <2> HIDE DEF m
    <2>2. Total(a, D) = m * Total(h, D)
      BY <1>1, <2>1, TotalScale
    <2> QED
      BY <1>2, <2>2 DEF m
  <1>6. Total(b, D) = (-(2 * (n * t))) * t
    <2> DEFINE m == -(2 * (n * t))
    <2>1. m \in Int /\ \A i \in D : g[i] \in Int /\ b[i] = m * g[i]
      BY <1>3, <1>10
    <2> HIDE DEF m
    <2>2. Total(b, D) = m * Total(g, D)
      BY <1>1, <2>1, TotalScale
    <2> QED
      BY <1>2, <2>2 DEF m
  <1>7. Total(c, D) = (t * t) * l
    <2> DEFINE m == t * t
    <2>1. m \in Int /\ \A i \in D : c[i] = m
      BY <1>3, <1>10
    <2> HIDE DEF m
    <2>2. Total(c, D) = m * Cardinality(D)
      BY <1>1, <2>1, TotalConst
    <2> QED
      BY <1>1, <2>2 DEF m
  <1>8. Total(u, D) = Total(a, D) + Total(b, D)
    BY <1>1, <1>3, TotalPlus
  <1>9. Total(w, D) = Total(u, D) + Total(c, D)
    BY <1>1, <1>3, TotalPlus
  <1>11. ((n * n) * z + (-(2 * (n * t))) * t) + (t * t) * l
           = (n * n) * z - n * (t * t)
    <2>1. CASE l = 0
      BY <1>1, <2>1
    <2>2. CASE l = n
      BY <1>1, <2>2
    <2> QED
      BY <1>4, <2>1, <2>2
  <1>12. Total(w, D) = (n * n) * z - n * (t * t)
    BY <1>5, <1>6, <1>7, <1>8, <1>9, <1>11
  <1> QED
    BY <1>12 DEF w, D, z, t

(***************************************************************************)
(* The experiment's file.                                                  *)
(***************************************************************************)

\* The four factors and their levels.
LEMMA LevelFacts ==
  /\ DOMAIN Levels = {"iat", "lt", "tot", "pt"}
  /\ \A f \in DOMAIN Levels : Levels[f][1] \in Int /\ Levels[f][2] \in Int
  /\ IsFiniteSet(DOMAIN Levels)
  <1>1. DOMAIN Levels = {"iat", "lt", "tot", "pt"}
    BY DEF Levels
  <1>2. \A f \in DOMAIN Levels : Levels[f][1] \in Int /\ Levels[f][2] \in Int
    BY DEF Levels
  <1>3. IsFiniteSet({"iat", "lt", "tot", "pt"})
    <2>1. IsFiniteSet({} \cup {"iat"})
      BY FS_EmptySet, FS_AddElement
    <2>2. IsFiniteSet({"iat"} \cup {"lt"})
      BY FS_Singleton, FS_AddElement
    <2>3. IsFiniteSet(({"iat"} \cup {"lt"}) \cup {"tot"})
      BY <2>2, FS_AddElement
    <2>4. IsFiniteSet((({"iat"} \cup {"lt"}) \cup {"tot"}) \cup {"pt"})
      BY <2>3, FS_AddElement
    <2>5. (({"iat"} \cup {"lt"}) \cup {"tot"}) \cup {"pt"} = {"iat", "lt", "tot", "pt"}
      OBVIOUS
    <2> QED
      BY <2>4, <2>5
  <1> QED
    BY <1>1, <1>2, <1>3

\* The value of a linear metric for a configuration.
Value(w, c) == Total([f \in DOMAIN Levels |-> w[f] * c[f]], DOMAIN Levels)

\* Every configuration gives every factor an integer.
LEMMA ConfigurationInt ==
  ASSUME NEW c \in Configurations, NEW f \in DOMAIN Levels
  PROVE  c[f] \in Int
  <1>1. PICK level \in [DOMAIN Levels -> {1, 2}] :
          c = [x \in DOMAIN Levels |-> Levels[x][level[x]]]
    BY DEF Configurations
  <1>2. c[f] = Levels[f][level[f]] /\ level[f] \in {1, 2}
    BY <1>1
  <1> QED
    BY <1>2, LevelFacts

\* A linear metric of a configuration is an integer.
LEMMA ValueInt ==
  ASSUME NEW w \in [DOMAIN Levels -> Weights], NEW c \in Configurations
  PROVE  Value(w, c) \in Int /\ Means(w, c) = <<Value(w, c) - 1, Value(w, c) + 1>>
  <1> DEFINE L == DOMAIN Levels
             g == [f \in L |-> w[f] * c[f]]
  <1>1. \A f \in L : w[f] \in Int /\ c[f] \in Int
    BY WeightsAssumption, ConfigurationInt
  <1>2. \A f \in L : g[f] \in Int
    BY <1>1
  <1>3. IsFiniteSet(L)
    BY LevelFacts
  <1>4. Value(w, c) = Total(g, L)
    BY DEF Value
  <1>5. Means(w, c) = <<Value(w, c) - 1, Value(w, c) + 1>>
    BY DEF Means, SumOver, Value
  <1> HIDE DEF g, L
  <1> QED
    BY <1>2, <1>3, <1>4, <1>5, TotalInt

\* A function on 1..n is a sequence of length n.
LEMMA FunctionAsSequence ==
  ASSUME NEW A, NEW n \in Nat, NEW d \in [1..n -> A]
  PROVE  d \in Seq(A) /\ Len(d) = n
  <1>1. d \in Seq(A)
    OBVIOUS
  <1> QED
    BY <1>1

\* The experiment's file has sixteen lines of two observations.
LEMMA ExperimentTypes ==
  ASSUME NEW w \in [DOMAIN Levels -> Weights]
  PROVE  /\ ExperimentData(w) \in Seq(Seq(Int))
         /\ Len(ExperimentData(w)) = 16
         /\ \A i \in 1..16 : Len(ExperimentData(w)[i]) = 2
  <1> DEFINE d == ExperimentData(w)
  <1>1. d = [i \in 1..16 |-> Means(w, SortedConfigurations[i])]
    BY DEF ExperimentData
  <1>2. ASSUME NEW i \in 1..16 PROVE d[i] \in Seq(Int) /\ Len(d[i]) = 2
    <2> DEFINE c == SortedConfigurations[i]
               v == Value(w, c)
    <2>1. c \in Configurations
      BY RowsAreConfigurations
    <2>2. d[i] = Means(w, c)
      BY <1>1
    <2> HIDE DEF c, d
    <2>3. v \in Int /\ d[i] = <<v - 1, v + 1>>
      BY <2>1, <2>2, ValueInt
    <2> HIDE DEF v
    <2>4. v - 1 \in Int /\ v + 1 \in Int
      BY <2>3
    <2> QED
      BY <2>3, <2>4
  <1>3. d \in [1..16 -> Seq(Int)]
    BY <1>1, <1>2
  <1> HIDE DEF d
  <1>4. d \in Seq(Seq(Int)) /\ Len(d) = 16
    <2>0. 16 \in Nat
      OBVIOUS
    <2> DEFINE A == Seq(Int)
    <2>1. d \in [1..16 -> A]
      BY <1>3
    <2> HIDE DEF A
    <2>2. d \in Seq(A) /\ Len(d) = 16
      BY <2>0, <2>1, FunctionAsSequence, ZenonT(60)
    <2> QED
      BY <2>2 DEF A
  <1> QED
    BY <1>2, <1>4 DEF d

(***************************************************************************)
(* The inductive invariant.                                                *)
(***************************************************************************)

\* Nothing is read and nothing computed at first.
LEMMA AnalysisInit == Init => AnalysisInv
  BY MaxLinesAssumption DEF Init, AnalysisInv

\* The experiment's file is valid and belongs to its metric.
LEMMA makeInputInv ==
  ASSUME AnalysisInv, NEW w \in [DOMAIN Levels -> Weights], makeInput(w)
  PROVE  AnalysisInv'
  <1>1. /\ data' = ExperimentData(w) /\ r' = 2 /\ k' = 4 /\ metric' = w
        /\ phase' = "valid"
    BY DEF makeInput
  <1>2. /\ data' \in Seq(Seq(Int)) /\ Len(data') = 16
        /\ \A i \in 1..16 : Len(data'[i]) = 2
    BY <1>1, ExperimentTypes
  <1>3. \A i \in DOMAIN data' : Len(data'[i]) \in {0, r'}
    BY <1>1, <1>2
  <1>4. Len(data') = 2 ^ k'
    BY <1>1, <1>2, SixteenRows
  <1>5. Orthogonal(k)'
    <2>1. Orthogonal(4)
      BY TablesOrthogonal
    <2> QED
      BY <1>1, <2>1
  <1>6. r' \in Nat
    BY <1>1
  <1> QED
    BY <1>1, <1>2, <1>3, <1>4, <1>5, <1>6 DEF AnalysisInv

\* A line that is read has r observations, or sets r.
LEMMA ReadLineInv ==
  ASSUME AnalysisInv, NEW line \in Lines, ReadLine(line)
  PROVE  AnalysisInv'
  <1>1. /\ phase = "loading" /\ Len(data) < MaxLines
        /\ r = 0 \/ r = Len(line)
        /\ data' = Append(data, line)
        /\ r' = IF r = 0 THEN Len(line) ELSE r
        /\ phase' = "loading" /\ metric' = metric
    BY DEF ReadLine, LineFits
  <1>2. /\ data \in Seq(Seq(Int)) /\ r \in Nat /\ metric = <<>>
        /\ \A i \in DOMAIN data : Len(data[i]) \in {0, r}
    BY <1>1 DEF AnalysisInv
  <1>3. line \in Seq(Int) /\ Len(line) \in Nat
    BY LinesAssumption
  <1>4. /\ data' \in Seq(Seq(Int)) /\ Len(data') = Len(data) + 1
        /\ \A i \in DOMAIN data : data'[i] = data[i]
        /\ data'[Len(data) + 1] = line
        /\ DOMAIN data = 1..Len(data) /\ DOMAIN data' = 1..(Len(data) + 1)
        /\ Len(data) \in Nat
    BY <1>1, <1>2, <1>3
  <1>5. r' \in Nat /\ r' = Len(line) /\ r \in {0, r'}
    BY <1>1, <1>2, <1>3
  <1>6. \A i \in DOMAIN data' : Len(data'[i]) \in {0, r'}
    <2> SUFFICES ASSUME NEW i \in DOMAIN data' PROVE Len(data'[i]) \in {0, r'}
      OBVIOUS
    <2>1. i \in DOMAIN data \/ i = Len(data) + 1
      BY <1>4
    <2>2. ASSUME i \in DOMAIN data PROVE Len(data'[i]) \in {0, r'}
      BY <1>2, <1>4, <1>5, <2>2
    <2>3. ASSUME i = Len(data) + 1 PROVE Len(data'[i]) \in {0, r'}
      BY <1>4, <1>5, <2>3
    <2> QED
      BY <2>1, <2>2, <2>3
  <1>7. Len(data') <= MaxLines
    BY <1>1, <1>4, MaxLinesAssumption
  <1> QED
    BY <1>1, <1>2, <1>4, <1>5, <1>6, <1>7 DEF AnalysisInv

\* A line that does not fit ends the loading.
LEMMA RejectLineInv ==
  ASSUME AnalysisInv, NEW line \in Lines, RejectLine(line)
  PROVE  AnalysisInv'
  <1>1. /\ phase = "loading" /\ phase' = "invalid"
        /\ data' = data /\ r' = r /\ k' = k /\ metric' = metric
    BY DEF RejectLine
  <1> QED
    BY <1>1 DEF AnalysisInv

\* A file is valid only with a line for every row of its table.
LEMMA EndOfFileInv ==
  ASSUME AnalysisInv, EndOfFile
  PROVE  AnalysisInv'
  <1>1. /\ phase = "loading"
        /\ k' = IF data = <<>> THEN 0 ELSE RoundedLog2(Len(data))
        /\ phase' = IF r = 0 \/ k' = 0 \/ 2 ^ k' # Len(data)
                    THEN "invalid" ELSE "valid"
        /\ data' = data /\ r' = r /\ metric' = metric
    BY DEF EndOfFile
  <1>2. /\ data \in Seq(Seq(Int)) /\ r \in Nat /\ metric = <<>>
        /\ Len(data) <= MaxLines
        /\ \A i \in DOMAIN data : Len(data[i]) \in {0, r}
    BY <1>1 DEF AnalysisInv
  <1>3. ASSUME phase' = "valid" PROVE Len(data') = 2 ^ k' /\ Orthogonal(k)'
    <2>1. k' # 0 /\ 2 ^ k' = Len(data)
      BY <1>1, <1>3
    <2>2. data # <<>> /\ k' = RoundedLog2(Len(data))
      BY <1>1, <2>1
    <2>3. Len(data) \in 1..MaxLines
      BY <1>2, <2>2, MaxLinesAssumption
    <2>4. Orthogonal(RoundedLog2(Len(data)))
      BY <2>3, TablesOrthogonal
    <2> QED
      BY <1>1, <2>1, <2>2, <2>4
  <1>4. phase' \in {"invalid", "valid"}
    BY <1>1
  <1> QED
    BY <1>1, <1>2, <1>3, <1>4 DEF AnalysisInv

\* analyze() fills in the table and the effects of the file.
LEMMA analyzeInv ==
  ASSUME AnalysisInv, analyze
  PROVE  AnalysisInv'
  <1>1. /\ phase = "valid" /\ phase' \in {"failed", "analyzed"}
        /\ signs' = sign_matrix(k) /\ effects' = EffectsOf(signs')
        /\ data' = data /\ r' = r /\ k' = k /\ metric' = metric
    BY DEF analyze
  <1>2. EffectsOf(signs)' = EffectsOf(signs')
    BY <1>1 DEF EffectsOf, RowTotal, SumOver
  <1>3. Orthogonal(k)' /\ sign_matrix(k)' = sign_matrix(k) /\ Len(data') = 2 ^ k'
    BY <1>1 DEF AnalysisInv
  <1>4. /\ data' \in Seq(Seq(Int)) /\ r' \in Nat
        /\ \A i \in DOMAIN data' : Len(data'[i]) \in {0, r'}
    BY <1>1 DEF AnalysisInv
  <1>5. metric' # <<>> =>
          /\ metric' \in [DOMAIN Levels -> Weights]
          /\ k' = 4 /\ data' = ExperimentData(metric')
    BY <1>1 DEF AnalysisInv
  <1> QED
    BY <1>1, <1>2, <1>3, <1>4, <1>5 DEF AnalysisInv

\* The invariant of loader and analysis.
THEOREM AnalysisInvariant == Spec => []AnalysisInv
  <1>1. AnalysisInv /\ UNCHANGED factorialVars => AnalysisInv'
    <2> SUFFICES ASSUME AnalysisInv, UNCHANGED factorialVars PROVE AnalysisInv'
      OBVIOUS
    <2>1. /\ phase' = phase /\ data' = data /\ r' = r /\ k' = k /\ metric' = metric
          /\ signs' = signs /\ effects' = effects
      BY DEF factorialVars
    <2>2. EffectsOf(signs)' = EffectsOf(signs)
      BY <2>1 DEF EffectsOf, RowTotal, SumOver
    <2> QED
      BY <2>1, <2>2 DEF AnalysisInv
  <1>2. AnalysisInv /\ Next => AnalysisInv'
    BY makeInputInv, ReadLineInv, RejectLineInv, EndOfFileInv, analyzeInv DEF Next
  <1> QED
    BY <1>1, <1>2, AnalysisInit, PTL DEF Spec

(***************************************************************************)
(* What the invariant says of a file that is valid or analyzed.            *)
(***************************************************************************)

\* The rows of the table are the lines of the file.
LEMMA RowFacts ==
  ASSUME AnalysisInv, phase \in {"valid", "analyzed"}
  PROVE  /\ IsFiniteSet(Cells(k)) /\ 2 ^ k \in Int /\ r \in Nat
         /\ \A row \in Cells(k) :
              /\ data[row + 1] \in Seq(Int) /\ Len(data[row + 1]) \in {0, r}
              /\ RowTotal(row) = LineSum(data[row + 1])
              /\ RowTotal(row) \in Int
  <1>1. /\ data \in Seq(Seq(Int)) /\ r \in Nat /\ Len(data) = 2 ^ k
        /\ \A i \in DOMAIN data : Len(data[i]) \in {0, r}
    BY DEF AnalysisInv
  <1>2. Len(data) \in Nat /\ DOMAIN data = 1..Len(data)
    BY <1>1
  <1>3. Cells(k) = 0..(Len(data) - 1)
    BY <1>1 DEF Cells
  <1>4. IsFiniteSet(Cells(k))
    BY <1>2, <1>3, FS_Interval
  <1>5. ASSUME NEW row \in Cells(k)
        PROVE  /\ data[row + 1] \in Seq(Int) /\ Len(data[row + 1]) \in {0, r}
               /\ RowTotal(row) = LineSum(data[row + 1])
               /\ RowTotal(row) \in Int
    <2>1. row + 1 \in DOMAIN data
      BY <1>2, <1>3
    <2>2. data[row + 1] \in Seq(Int) /\ Len(data[row + 1]) \in {0, r}
      BY <1>1, <2>1
    <2>3. RowTotal(row) = LineSum(data[row + 1])
      BY DEF RowTotal, SumOver, LineSum
    <2>4. LineSum(data[row + 1]) \in Int
      BY <2>2, LineTypes
    <2> QED
      BY <2>2, <2>3, <2>4
  <1> QED
    BY <1>1, <1>2, <1>4, <1>5

RowTotals == [row \in Cells(k) |-> RowTotal(row)]

\* The effects are the transform of the rows' sums by the sign table.
LEMMA EffectsTransform ==
  ASSUME AnalysisInv, phase = "analyzed"
  PROVE  Transformed(Cells(k), RowTotals, signs, effects, 2 ^ k)
  <1> DEFINE C == Cells(k)
             T == RowTotals
             N == 2 ^ k
  <1>1. IsFiniteSet(C) /\ N \in Int /\ \A row \in C : RowTotal(row) \in Int
    BY RowFacts
  <1>2. \A row \in C : T[row] = RowTotal(row) /\ T[row] \in Int
    BY <1>1 DEF RowTotals
  <1>3. signs = sign_matrix(k) /\ effects = EffectsOf(signs) /\ Orthogonal(k)
    BY DEF AnalysisInv
  <1>4. \A row, col \in C : signs[row][col] \in Int
    BY <1>3 DEF sign_matrix
  <1>5. ASSUME NEW col \in C
        PROVE  effects[col] = Total([row \in C |-> T[row] * signs[row][col]], C)
    <2>1. effects[col] = Total([row \in C |-> RowTotal(row) * signs[row][col]], C)
      BY <1>3 DEF EffectsOf, SumOver
    <2>2. [row \in C |-> RowTotal(row) * signs[row][col]]
            = [row \in C |-> T[row] * signs[row][col]]
      BY <1>2
    <2> QED
      BY <2>1, <2>2
  <1>6. ASSUME NEW row \in C, NEW other \in C
        PROVE  Total([col \in C |-> signs[row][col] * signs[other][col]], C)
                 = IF row = other THEN N ELSE 0
    BY <1>3 DEF Orthogonal, SumOver
  <1> HIDE DEF C, T, N
  <1>7. Transformed(C, T, signs, effects, N)
    BY <1>1, <1>2, <1>4, <1>5, <1>6 DEF Transformed
  <1> QED
    BY <1>7 DEF C, T, N

\* The transform of the effects is 2^k times the rows' sums.
LEMMA InvExplains ==
  ASSUME AnalysisInv
  PROVE  EffectsExplainResponses
  <1> SUFFICES ASSUME phase = "analyzed", NEW own \in Cells(k)
               PROVE  SumOver(Cells(k), LAMBDA col : effects[col] * signs[own][col])
                        = 2 ^ k * RowTotal(own)
    BY DEF EffectsExplainResponses
  <1>1. Total([col \in Cells(k) |-> effects[col] * signs[own][col]], Cells(k))
          = 2 ^ k * RowTotals[own]
    BY EffectsTransform, TransformBack
  <1>2. RowTotals[own] = RowTotal(own)
    BY DEF RowTotals
  <1> QED
    BY <1>1, <1>2 DEF SumOver

(***************************************************************************)
(* For all observations and any number of replications, the effects        *)
(* computed by analyze() give the mean of every row back.                  *)
(***************************************************************************)
THEOREM ResponsesExplained == Spec => []EffectsExplainResponses
  BY AnalysisInvariant, InvExplains, PTL

(***************************************************************************)
(* Observations row by row.                                                *)
(***************************************************************************)

LineDomains == [row \in Cells(k) |-> DOMAIN data[row + 1]]

\* An observation is a row and a position in its line.
LEMMA ObservationPairs ==
  ASSUME AnalysisInv, phase \in {"valid", "analyzed"}
  PROVE  /\ Observations = Pairs(Cells(k), LineDomains)
         /\ \A row \in Cells(k) : /\ LineDomains[row] = DOMAIN data[row + 1]
                                  /\ IsFiniteSet(LineDomains[row])
         /\ \A row \in Cells(k) : \A i \in LineDomains[row] :
              /\ Observed(<<row, i>>) = data[row + 1][i]
              /\ Observed(<<row, i>>) \in Int
              /\ Residual(<<row, i>>) = Deviations(data[row + 1], r)[i]
              /\ Residual(<<row, i>>) \in Int
  <1> DEFINE C == Cells(k)
             D == LineDomains
  <1>1. \A row \in C : D[row] = DOMAIN data[row + 1]
    BY DEF LineDomains
  <1>2. \A o : o \in Observations <=>
          \E row \in C : \E i \in D[row] : o = <<row, i>>
    BY <1>1 DEF Observations
  <1>3. Observations = Pairs(C, D)
    <2>1. \A o : o \in Observations <=> o \in Pairs(C, D)
      BY <1>2, InPairs
    <2> QED
      BY <2>1
  <1>4. /\ r \in Nat
        /\ \A row \in C :
             /\ data[row + 1] \in Seq(Int) /\ Len(data[row + 1]) \in {0, r}
             /\ RowTotal(row) = LineSum(data[row + 1])
    BY RowFacts
  <1>5. \A row \in C : IsFiniteSet(D[row])
    BY <1>1, <1>4, LineTypes
  <1>6. ASSUME NEW row \in C, NEW i \in D[row]
        PROVE  /\ Observed(<<row, i>>) = data[row + 1][i]
               /\ Observed(<<row, i>>) \in Int
               /\ Residual(<<row, i>>) = Deviations(data[row + 1], r)[i]
               /\ Residual(<<row, i>>) \in Int
    <2> DEFINE d == data[row + 1]
    <2>1. d \in Seq(Int) /\ Len(d) \in {0, r} /\ i \in DOMAIN d
      BY <1>1, <1>4
    <2>2. Observed(<<row, i>>) = d[i]
      BY DEF Observed
    <2>3. Residual(<<row, i>>) = r * d[i] - LineSum(d)
      BY <1>4, <2>2 DEF Residual
    <2> HIDE DEF d
    <2>4. Deviations(d, r)[i] = r * d[i] - LineSum(d)
      BY <2>1 DEF Deviations
    <2>5. Deviations(d, r)[i] \in Int
      BY <1>4, <2>1, LineCancels
    <2>6. d[i] \in Int
      BY <2>1, LineTypes
    <2> QED
      BY <2>2, <2>3, <2>4, <2>5, <2>6 DEF d
  <1> QED
    BY <1>1, <1>3, <1>5, <1>6

\* The residuals of rows of the same mean cancel out.
LEMMA ResidualsCancel ==
  ASSUME AnalysisInv, phase \in {"valid", "analyzed"}, NEW y \in DOMAIN Residuals
  PROVE  SumOver(Residuals[y], Residual) = 0
  <1> DEFINE R == {row \in Cells(k) : RowTotal(row) = y}
             D == LineDomains
             O == Residuals[y]
             g == [o \in O |-> Residual(o)]
             G == [row \in R |-> Deviations(data[row + 1], r)]
             f == [row \in R |-> 0]
  <1>1. /\ Observations = Pairs(Cells(k), D)
        /\ \A row \in Cells(k) : /\ D[row] = DOMAIN data[row + 1]
                                 /\ IsFiniteSet(D[row])
        /\ \A row \in Cells(k) : \A i \in D[row] :
             /\ Residual(<<row, i>>) = Deviations(data[row + 1], r)[i]
             /\ Residual(<<row, i>>) \in Int
    BY ObservationPairs
  <1>2. O = {o \in Observations : RowTotal(o[1]) = y}
    BY DEF Residuals
  <1>3. \A o : o \in O <=> \E row \in R : \E i \in D[row] : o = <<row, i>>
    <2>1. \A o : o \in Observations <=>
            \E row \in Cells(k) : \E i \in D[row] : o = <<row, i>>
      BY <1>1, InPairs
    <2>2. \A row, i : <<row, i>>[1] = row
      OBVIOUS
    <2>3. \A o : o \in O <=> o \in Observations /\ RowTotal(o[1]) = y
      BY <1>2
    <2> HIDE DEF O, D
    <2> QED
      BY <2>1, <2>2, <2>3
  <1>4. O = Pairs(R, D)
    <2> HIDE DEF O, R, D
    <2>1. \A o : o \in O <=> o \in Pairs(R, D)
      BY <1>3, InPairs
    <2> QED
      BY <2>1
  <1>5. IsFiniteSet(R) /\ R \subseteq Cells(k)
    <2>1. IsFiniteSet(Cells(k)) /\ R \in SUBSET Cells(k)
      BY RowFacts
    <2> QED
      BY <2>1, FS_Subset
  <1>6. ASSUME NEW row \in R PROVE f[row] = Total(G[row], D[row])
    <2>1. /\ data[row + 1] \in Seq(Int) /\ Len(data[row + 1]) \in {0, r}
          /\ r \in Nat
      BY <1>5, RowFacts
    <2>2. Total(Deviations(data[row + 1], r), DOMAIN data[row + 1]) = 0
      BY <2>1, LineCancels
    <2>3. /\ D[row] = DOMAIN data[row + 1] /\ f[row] = 0
          /\ G[row] = Deviations(data[row + 1], r)
      BY <1>1, <1>5
    <2> HIDE DEF D, G, f
    <2> QED
      BY <2>2, <2>3
  <1>7. ASSUME NEW row \in R, NEW i \in D[row]
        PROVE  g[<<row, i>>] \in Int /\ G[row][i] = g[<<row, i>>]
    <2>1. <<row, i>> \in O
      BY <1>3
    <2>2. g[<<row, i>>] = Residual(<<row, i>>) /\ G[row] = Deviations(data[row + 1], r)
      BY <2>1
    <2> HIDE DEF g, G, D
    <2> QED
      BY <1>1, <1>5, <2>2
  <1>8. \A row \in R : f[row] = 0
    OBVIOUS
  <1>9. SumOver(Residuals[y], Residual) = Total(g, O)
    BY DEF SumOver
  <1>10. \A row \in R : IsFiniteSet(D[row])
    BY <1>1, <1>5
  <1> HIDE DEF R, D, O, g, G, f
  <1>11. Nested(R, D, g, G, f)
    BY <1>5, <1>6, <1>7, <1>10 DEF Nested
  <1>12. Total(g, O) = Total(f, R)
    BY <1>4, <1>11, TotalNested
  <1>13. Total(f, R) = 0
    BY <1>5, <1>8, TotalZero
  <1> QED
    BY <1>9, <1>12, <1>13

\* Every observation is in the entry of its row's mean, and no other.
LEMMA InvResiduals ==
  ASSUME AnalysisInv
  PROVE  ResidualsComplete
  <1> SUFFICES ASSUME phase \in {"valid", "analyzed"}
               PROVE  /\ Len(data) = 2 ^ k
                      /\ \A o \in Observations :
                           Cardinality({y \in DOMAIN Residuals : o \in Residuals[y]}) = 1
                      /\ \A y \in DOMAIN Residuals :
                           SumOver(Residuals[y], Residual) = 0
    BY DEF ResidualsComplete
  <1>1. Len(data) = 2 ^ k
    BY DEF AnalysisInv
  <1>2. ASSUME NEW o \in Observations
        PROVE  Cardinality({y \in DOMAIN Residuals : o \in Residuals[y]}) = 1
    <2> DEFINE Y == {y \in DOMAIN Residuals : o \in Residuals[y]}
               t == RowTotal(o[1])
    <2>1. o[1] \in Cells(k)
      <3>1. PICK row \in Cells(k) : \E i \in LineDomains[row] : o = <<row, i>>
        BY ObservationPairs, InPairs
      <3> QED
        BY <3>1
    <2>2. \A y : y \in DOMAIN Residuals <=> \E row \in Cells(k) : y = RowTotal(row)
      BY DEF Residuals
    <2>3. \A y \in DOMAIN Residuals : o \in Residuals[y] <=> RowTotal(o[1]) = y
      BY DEF Residuals
    <2>4. Y = {t}
      BY <2>1, <2>2, <2>3
    <2> HIDE DEF Y, t
    <2>5. Cardinality(Y) = 1
      BY <2>4, FS_Singleton
    <2> QED
      BY <2>5 DEF Y
  <1>3. \A y \in DOMAIN Residuals : SumOver(Residuals[y], Residual) = 0
    BY ResidualsCancel
  <1> QED
    BY <1>1, <1>2, <1>3

(***************************************************************************)
(* For all files the loader accepts, those with leading empty lines too,   *)
(* every observation has one residual and the residuals of an entry cancel *)
(* out.                                                                    *)
(***************************************************************************)
THEOREM ResidualsAccounted == Spec => []ResidualsComplete
  BY AnalysisInvariant, InvResiduals, PTL

(***************************************************************************)
(* Sums of squares.                                                        *)
(***************************************************************************)

RowSquares == [row \in Cells(k) |-> LineSquares(data[row + 1])]

SumOfRowSquares == Total(RowSquares, Cells(k))

SquaresOfRowSums == Total([row \in Cells(k) |-> RowTotals[row] * RowTotals[row]],
                          Cells(k))

\* The squared observations, row by row.
LEMMA SquaresByRow ==
  ASSUME AnalysisInv, phase \in {"valid", "analyzed"}
  PROVE  /\ SumOver(Observations, LAMBDA o : Observed(o) * Observed(o))
              = SumOfRowSquares
         /\ SumOfRowSquares \in Int /\ SquaresOfRowSums \in Int
         /\ \A row \in Cells(k) : RowSquares[row] \in Int
  <1> DEFINE C == Cells(k)
             D == LineDomains
             O == Observations
             g == [o \in O |-> Observed(o) * Observed(o)]
             G == [row \in C |-> [i \in D[row] |-> data[row + 1][i] * data[row + 1][i]]]
             f == RowSquares
             h == [row \in C |-> RowTotals[row] * RowTotals[row]]
  <1>1. /\ O = Pairs(C, D)
        /\ \A row \in C : D[row] = DOMAIN data[row + 1] /\ IsFiniteSet(D[row])
        /\ \A row \in C : \A i \in D[row] :
             /\ Observed(<<row, i>>) = data[row + 1][i]
             /\ Observed(<<row, i>>) \in Int
    BY ObservationPairs
  <1>2. /\ IsFiniteSet(C)
        /\ \A row \in C : data[row + 1] \in Seq(Int) /\ RowTotal(row) \in Int
    BY RowFacts
  <1>3. ASSUME NEW row \in C
        PROVE  f[row] = Total(G[row], D[row]) /\ f[row] \in Int
    <2>1. f[row] = LineSquares(data[row + 1]) /\ D[row] = DOMAIN data[row + 1]
      BY <1>1 DEF RowSquares
    <2>2. G[row] = [i \in DOMAIN data[row + 1] |-> data[row + 1][i] * data[row + 1][i]]
      BY <2>1
    <2>3. LineSquares(data[row + 1]) \in Int
      BY <1>2, LineTypes
    <2> HIDE DEF f, D, G
    <2> QED
      BY <2>1, <2>2, <2>3 DEF LineSquares
  <1>4. ASSUME NEW row \in C, NEW i \in D[row]
        PROVE  g[<<row, i>>] \in Int /\ G[row][i] = g[<<row, i>>]
    <2>1. <<row, i>> \in O
      BY <1>1, InPairs
    <2>2. g[<<row, i>>] = Observed(<<row, i>>) * Observed(<<row, i>>)
      BY <2>1
    <2>3. G[row][i] = data[row + 1][i] * data[row + 1][i]
      OBVIOUS
    <2> HIDE DEF g, G, D
    <2> QED
      BY <1>1, <2>2, <2>3
  <1>5. \A row \in C : h[row] \in Int
    BY <1>2 DEF RowTotals
  <1>6. /\ SumOver(Observations, LAMBDA o : Observed(o) * Observed(o)) = Total(g, O)
        /\ SumOfRowSquares = Total(f, C) /\ SquaresOfRowSums = Total(h, C)
    BY DEF SumOver, SumOfRowSquares, SquaresOfRowSums
  <1> HIDE DEF C, D, O, g, G, f, h
  <1>7. Nested(C, D, g, G, f)
    BY <1>1, <1>2, <1>3, <1>4 DEF Nested
  <1>8. Total(g, O) = Total(f, C)
    BY <1>1, <1>7, TotalNested
  <1>9. Total(f, C) \in Int /\ Total(h, C) \in Int
    BY <1>2, <1>3, <1>5, TotalInt
  <1> QED
    BY <1>3, <1>6, <1>8, <1>9 DEF C, f

\* The squared residuals, row by row.
LEMMA ErrorsByRow ==
  ASSUME AnalysisInv, phase \in {"valid", "analyzed"}
  PROVE  Sse = (r * r) * SumOfRowSquares - r * SquaresOfRowSums
  <1> DEFINE C == Cells(k)
             D == LineDomains
             O == Observations
             V(row) == Deviations(data[row + 1], r)
             g == [o \in O |-> Residual(o) * Residual(o)]
             G == [row \in C |-> [i \in D[row] |-> V(row)[i] * V(row)[i]]]
             q == RowSquares
             h == [row \in C |-> RowTotals[row] * RowTotals[row]]
             a == [row \in C |-> (r * r) * q[row]]
             b == [row \in C |-> (-r) * h[row]]
             f == [row \in C |-> a[row] + b[row]]
  <1>1. /\ O = Pairs(C, D)
        /\ \A row \in C : D[row] = DOMAIN data[row + 1] /\ IsFiniteSet(D[row])
        /\ \A row \in C : \A i \in D[row] :
             /\ Residual(<<row, i>>) = V(row)[i]
             /\ Residual(<<row, i>>) \in Int
    BY ObservationPairs
  <1>2. /\ IsFiniteSet(C) /\ r \in Nat
        /\ \A row \in C :
             /\ data[row + 1] \in Seq(Int) /\ Len(data[row + 1]) \in {0, r}
             /\ RowTotal(row) = LineSum(data[row + 1])
             /\ RowTotal(row) \in Int
    BY RowFacts
  <1>3. \A row \in C : q[row] \in Int
    BY SquaresByRow
  <1>4. \A row \in C : /\ h[row] = RowTotal(row) * RowTotal(row)
                       /\ h[row] \in Int
    BY <1>2 DEF RowTotals
  <1>5. ASSUME NEW row \in C
        PROVE  /\ a[row] = (r * r) * q[row] /\ a[row] \in Int
               /\ b[row] = (-r) * h[row] /\ b[row] \in Int
               /\ f[row] = a[row] + b[row]
    <2>1. q[row] \in Int /\ h[row] \in Int /\ r \in Int
      BY <1>2, <1>3, <1>4
    <2>2. /\ a[row] = (r * r) * q[row] /\ b[row] = (-r) * h[row]
          /\ f[row] = a[row] + b[row]
      OBVIOUS
    <2> HIDE DEF a, b, f, q, h
    <2> QED
      BY <2>1, <2>2
  <1>6. ASSUME NEW row \in C PROVE f[row] = Total(G[row], D[row])
    <2> DEFINE d == data[row + 1]
               t == LineSum(d)
               z == LineSquares(d)
    <2>1. d \in Seq(Int) /\ Len(d) \in {0, r} /\ D[row] = DOMAIN d
      BY <1>1, <1>2
    <2>2. G[row] = [i \in DOMAIN d |-> Deviations(d, r)[i] * Deviations(d, r)[i]]
      BY <2>1
    <2>3. q[row] = z /\ h[row] = t * t
      BY <1>2, <1>4 DEF RowSquares
    <2>4. t \in Int /\ z \in Int
      BY <2>1, LineTypes
    <2> HIDE DEF d, q, h, f, a, b, G, D
    <2>5. Total(G[row], D[row]) = (r * r) * z - r * (t * t)
      BY <1>2, <2>1, <2>2, LineErrors
    <2>6. f[row] = (r * r) * z + (-r) * (t * t)
      BY <1>5, <2>3
    <2> HIDE DEF t, z
    <2>7. (r * r) * z + (-r) * (t * t) = (r * r) * z - r * (t * t)
      BY <1>2, <2>4
    <2> QED
      BY <2>5, <2>6, <2>7
  <1>7. ASSUME NEW row \in C, NEW i \in D[row]
        PROVE  g[<<row, i>>] \in Int /\ G[row][i] = g[<<row, i>>]
    <2>1. <<row, i>> \in O
      BY <1>1, InPairs
    <2>2. g[<<row, i>>] = Residual(<<row, i>>) * Residual(<<row, i>>)
      BY <2>1
    <2>3. G[row][i] = V(row)[i] * V(row)[i]
      OBVIOUS
    <2> HIDE DEF g, G, D, V
    <2> QED
      BY <1>1, <2>2, <2>3
  <1>8. /\ Sse = Total(g, O)
        /\ SumOfRowSquares = Total(q, C) /\ SquaresOfRowSums = Total(h, C)
    BY DEF Sse, SumOver, SumOfRowSquares, SquaresOfRowSums
  <1> HIDE DEF C, D, O, g, G, V, q, h, a, b, f
  <1>9. Nested(C, D, g, G, f)
    BY <1>1, <1>2, <1>6, <1>7 DEF Nested
  <1>10. Total(g, O) = Total(f, C)
    BY <1>1, <1>9, TotalNested
  <1>11. Total(f, C) = Total(a, C) + Total(b, C)
    BY <1>2, <1>5, TotalPlus
  <1>12. Total(a, C) = (r * r) * Total(q, C)
    <2> DEFINE m == r * r
    <2>1. m \in Int /\ \A row \in C : q[row] \in Int /\ a[row] = m * q[row]
      BY <1>2, <1>3, <1>5
    <2> HIDE DEF m
    <2>2. Total(a, C) = m * Total(q, C)
      BY <1>2, <2>1, TotalScale
    <2> QED
      BY <2>2 DEF m
  <1>13. Total(b, C) = (-r) * Total(h, C)
    <2> DEFINE m == -r
    <2>1. m \in Int /\ \A row \in C : h[row] \in Int /\ b[row] = m * h[row]
      BY <1>2, <1>4, <1>5
    <2> HIDE DEF m
    <2>2. Total(b, C) = m * Total(h, C)
      BY <1>2, <2>1, TotalScale
    <2> QED
      BY <2>2 DEF m
  <1>14. SumOfRowSquares \in Int /\ SquaresOfRowSums \in Int
    BY SquaresByRow
  <1>15. (r * r) * SumOfRowSquares + (-r) * SquaresOfRowSums
           = (r * r) * SumOfRowSquares - r * SquaresOfRowSums
    BY <1>2, <1>14
  <1> QED
    BY <1>8, <1>10, <1>11, <1>12, <1>13, <1>15

\* The errors take away what the effects count too much.
LEMMA SquaresAdd ==
  ASSUME NEW N \in Int, NEW n \in Nat, NEW a \in Int, NEW b \in Int
  PROVE  n * (N * b) + N * ((n * n) * a - n * b) = N * n * n * a
  <1> DEFINE p == (n * n) * a
             q == n * b
  <1>1. p \in Int /\ q \in Int
    OBVIOUS
  <1>2. n * (N * b) = N * q
    OBVIOUS
  <1>3. N * p = N * n * n * a
    OBVIOUS
  <1> HIDE DEF p, q
  <1>4. N * (p - q) = N * p - N * q /\ N * p \in Int /\ N * q \in Int
    BY <1>1
  <1>5. N * q + N * (p - q) = N * p
    BY <1>4
  <1>6. n * (N * b) + N * (p - q) = N * n * n * a
    BY <1>2, <1>3, <1>5
  <1> QED
    BY <1>6 DEF p, q

\* Effects and errors add up, row by row.
LEMMA InvSquares ==
  ASSUME AnalysisInv
  PROVE  SsyIsSumOfSquares
  <1> SUFFICES ASSUME phase = "analyzed"
               PROVE  Ssy = 2 ^ k * r * r
                        * SumOver(Observations, LAMBDA o : Observed(o) * Observed(o))
    BY DEF SsyIsSumOfSquares
  <1> DEFINE N == 2 ^ k
             a == SumOfRowSquares
             b == SquaresOfRowSums
             e == Total([col \in Cells(k) |-> effects[col] * effects[col]], Cells(k))
  <1>1. N \in Int /\ r \in Nat
    BY RowFacts
  <1>2. a \in Int /\ b \in Int
    BY SquaresByRow, Zenon
  <1>8. SumOver(Observations, LAMBDA o : Observed(o) * Observed(o)) = a
    BY SquaresByRow
  <1>3. Sse = (r * r) * a - r * b
    BY ErrorsByRow
  <1>4. e = N * b
    BY EffectsTransform, TransformSquares DEF SquaresOfRowSums
  <1>5. Ssy = r * e + N * Sse
    BY DEF Ssy, SumOver
  <1> HIDE DEF N, a, b, e
  <1>6. r * (N * b) + N * ((r * r) * a - r * b) = N * r * r * a
    BY <1>1, <1>2, SquaresAdd, SMT
  <1>7. Ssy = N * r * r * a
    BY <1>3, <1>4, <1>5, <1>6
  <1> QED
    BY <1>7, <1>8, Zenon DEF N

(***************************************************************************)
(* For all observations, the SSY that analyze() adds up from effects and   *)
(* errors is the sum of the squared observations.                          *)
(***************************************************************************)
THEOREM SquaresDecomposed == Spec => []SsyIsSumOfSquares
  BY AnalysisInvariant, InvSquares, PTL

(***************************************************************************)
(* Linear metrics.  An effect is linear in the weights, so the contrasts   *)
(* of the four factors determine it.                                       *)
(***************************************************************************)

\* The two repetitions of a metric add up to twice its value.
LEMMA MeansSum ==
  ASSUME NEW v \in Int
  PROVE  LineSum(<<v - 1, v + 1>>) = 2 * v
  <1> DEFINE d == <<v - 1, v + 1>>
             g == [i \in DOMAIN d |-> d[i]]
  <1>1. DOMAIN d = {1, 2} /\ g[1] = v - 1 /\ g[2] = v + 1
    OBVIOUS
  <1>2. IsFiniteSet({1, 2}) /\ IsFiniteSet({2}) /\ IsFiniteSet({})
    <2>1. IsFiniteSet({2} \cup {1})
      BY FS_Singleton, FS_AddElement
    <2>2. {2} \cup {1} = {1, 2}
      OBVIOUS
    <2> QED
      BY <2>1, <2>2, FS_Singleton, FS_EmptySet
  <1>3. LineSum(d) = Total(g, {1, 2})
    BY <1>1 DEF LineSum
  <1>4. \A x \in {1, 2} : g[x] \in Int
    BY <1>1
  <1> HIDE DEF g, d
  <1>5. Total(g, {1, 2}) = g[1] + Total(g, {2})
    <2>1. {1, 2} \ {1} = {2} /\ 1 \in {1, 2}
      OBVIOUS
    <2>2. Total(g, {1, 2}) = g[1] + Total(g, {1, 2} \ {1})
      BY <1>2, <1>4, <2>1, TotalRemove
    <2> QED
      BY <2>1, <2>2
  <1>6. Total(g, {2}) = g[2] + Total(g, {})
    <2>1. {2} \ {2} = {} /\ 2 \in {2} /\ \A x \in {2} : g[x] \in Int
      BY <1>4
    <2>2. Total(g, {2}) = g[2] + Total(g, {2} \ {2})
      BY <1>2, <2>1, TotalRemove
    <2> QED
      BY <2>1, <2>2
  <1>7. Total(g, {}) = 0
    BY <1>2, TotalStep
  <1>8. LineSum(d) = 2 * v
    BY <1>1, <1>3, <1>5, <1>6, <1>7
  <1> QED
    BY <1>8 DEF d

\* Sums of a linear metric over the rows are weighted contrasts.
LEMMA WeightedContrasts ==
  ASSUME NEW w \in [DOMAIN Levels -> Weights], NEW col \in Cells(4)
  PROVE  /\ \A row \in Cells(4) :
              /\ SortedConfigurations[row + 1] \in Configurations
              /\ Value(w, SortedConfigurations[row + 1])
                   * sign_matrix(4)[row][col] \in Int
         /\ Total([row \in Cells(4) |->
                     Value(w, SortedConfigurations[row + 1]) * sign_matrix(4)[row][col]],
                  Cells(4))
              = Total([f \in DOMAIN Levels |-> w[f] * Contrast(f, col)],
                      DOMAIN Levels)
         /\ \A f \in DOMAIN Levels : w[f] \in Int /\ Contrast(f, col) \in Int
  <1> DEFINE C == Cells(4)
             L == DOMAIN Levels
             s(row) == sign_matrix(4)[row][col]
             c(row) == SortedConfigurations[row + 1]
             G == [row \in C |-> [f \in L |-> w[f] * (c(row)[f] * s(row))]]
             H == [f \in L |-> [row \in C |-> w[f] * (c(row)[f] * s(row))]]
             v == [row \in C |-> Value(w, c(row)) * s(row)]
             m == [f \in L |-> w[f] * Contrast(f, col)]
  <1>1. C = 0..15 /\ IsFiniteSet(C)
    <2>1. C = 0..15
      BY SixteenRows DEF Cells
    <2>2. 0 \in Int /\ 15 \in Int
      OBVIOUS
    <2>3. IsFiniteSet(0..15)
      BY <2>2, FS_Interval, Zenon
    <2> QED
      BY <2>1, <2>3
  <1>2. \A row \in C : c(row) \in Configurations
    BY <1>1, RowsAreConfigurations
  <1>3. \A row \in C : s(row) \in Int
    BY DEF sign_matrix
  <1>4. \A f \in L : w[f] \in Int
    BY WeightsAssumption
  <1>5. \A row \in C : \A f \in L : c(row)[f] \in Int
    BY <1>2, ConfigurationInt
  <1>6. \A row \in C : Value(w, c(row)) \in Int
    BY <1>2, ValueInt
  <1>7. IsFiniteSet(L)
    BY LevelFacts
  <1>8. \A f \in L :
          Contrast(f, col) = Total([row \in C |-> c(row)[f] * s(row)], C)
    BY DEF Contrast, SumOver
  <1> HIDE DEF C, L, s, c
  <1>9. \A row \in C, f \in L : /\ G[row][f] = w[f] * (c(row)[f] * s(row))
                                /\ H[f][row] = G[row][f] /\ G[row][f] \in Int
    BY <1>3, <1>4, <1>5
  <1>10. ASSUME NEW row \in C
         PROVE  v[row] = Total(G[row], L) /\ v[row] \in Int
    <2> DEFINE g == [f \in L |-> w[f] * c(row)[f]]
               h == G[row]
               x == s(row)
    <2>1. Value(w, c(row)) = Total(g, L)
      BY DEF Value, L
    <2>2. x \in Int /\ \A f \in L : g[f] \in Int /\ h[f] = x * g[f]
      <3>1. x \in Int /\ \A f \in L : w[f] \in Int /\ c(row)[f] \in Int
        BY <1>3, <1>4, <1>5
      <3>2. \A f \in L : g[f] = w[f] * c(row)[f] /\ h[f] = w[f] * (c(row)[f] * x)
        OBVIOUS
      <3> HIDE DEF g, h, x
      <3> QED
        BY <3>1, <3>2
    <2>3. v[row] = Value(w, c(row)) * x
      OBVIOUS
    <2>5. Value(w, c(row)) \in Int
      BY <1>6
    <2> HIDE DEF g, h, x, v
    <2>4. Total(h, L) = x * Total(g, L)
      BY <1>7, <2>2, TotalScale
    <2>6. v[row] = x * Value(w, c(row)) /\ v[row] \in Int
      BY <2>2, <2>3, <2>5
    <2> QED
      BY <2>1, <2>4, <2>6 DEF h
  <1>11. ASSUME NEW f \in L
         PROVE  m[f] = Total(H[f], C) /\ Contrast(f, col) \in Int
    <2> DEFINE g == [row \in C |-> c(row)[f] * s(row)]
               h == H[f]
               x == w[f]
    <2>1. x \in Int /\ \A row \in C : g[row] \in Int /\ h[row] = x * g[row]
      BY <1>3, <1>4, <1>5
    <2>2. m[f] = x * Contrast(f, col) /\ Contrast(f, col) = Total(g, C)
      BY <1>8
    <2> HIDE DEF g, h, x, m
    <2>3. Total(h, C) = x * Total(g, C) /\ Total(g, C) \in Int
      BY <1>1, <2>1, TotalScale, TotalInt
    <2> QED
      BY <2>2, <2>3 DEF h
  <1>12. \A row \in C : Value(w, c(row)) * s(row) \in Int
    BY <1>3, <1>6
  <1> HIDE DEF G, H, v, m
  <1>13. Swapped(C, L, v, m, G, H)
    BY <1>1, <1>7, <1>9, <1>10, <1>11 DEF Swapped
  <1>14. Total(v, C) = Total(m, L)
    BY <1>13, TotalSwap
  <1> QED
    BY <1>2, <1>4, <1>11, <1>12, <1>14 DEF C, L, s, c, v, m

Raised(w, col) ==
  Total([i \in LetterOf(col) |->
           w[Factors[i]] * (Levels[Factors[i]][2] - Levels[Factors[i]][1])],
        LetterOf(col))

\* Only the factor that the letter names has a contrast in its column.
LEMMA LetterContrast ==
  ASSUME NEW w \in [DOMAIN Levels -> Weights], NEW col \in Cells(4) \ {0}
  PROVE  /\ Total([f \in DOMAIN Levels |-> w[f] * Contrast(f, col)], DOMAIN Levels)
              = 8 * Raised(w, col)
         /\ Raised(w, col) \in Int
  <1> DEFINE L == DOMAIN Levels
             I == LetterOf(col)
             P == {Factors[i] : i \in I}
             raise(f) == w[f] * (Levels[f][2] - Levels[f][1])
             m == [f \in L |-> w[f] * Contrast(f, col)]
             a == [i \in I |-> raise(Factors[i])]
             b == [i \in I |-> m[Factors[i]]]
  <1>1. I \subseteq 1..4
    BY DEF LetterOf
  <1>2. /\ \A i \in 1..4 : Factors[i] \in L
        /\ \A i, j \in 1..4 : Factors[i] = Factors[j] => i = j
    BY LevelFacts DEF Factors
  <1>3. IsFiniteSet(L) /\ IsFiniteSet(I)
    <2>0. 1 \in Int /\ 4 \in Int
      OBVIOUS
    <2>1. IsFiniteSet(1..4)
      BY <2>0, FS_Interval, Zenon
    <2> QED
      BY <1>1, <2>1, LevelFacts, FS_Subset
  <1>4. \A f \in L : /\ w[f] \in Int /\ Contrast(f, col) \in Int
                     /\ Levels[f][1] \in Int /\ Levels[f][2] \in Int
    <2>1. \A f \in DOMAIN Levels : w[f] \in Int /\ Contrast(f, col) \in Int
      BY WeightedContrasts
    <2> QED
      BY <2>1, LevelFacts
  <1>5. \A f \in L : /\ m[f] = w[f] * Contrast(f, col)
                     /\ m[f] \in Int /\ raise(f) \in Int
    BY <1>4
  <1>6. \A f \in L : Contrast(f, col)
          = IF f \in P THEN 8 * (Levels[f][2] - Levels[f][1]) ELSE 0
    <2>1. \A f : f \in P <=> \E i \in I : f = Factors[i]
      OBVIOUS
    <2> QED
      BY <2>1, LettersSeparateLevels
  <1>7. \A f \in P : m[f] = 8 * raise(f)
    <2> SUFFICES ASSUME NEW f \in P PROVE m[f] = 8 * raise(f)
      OBVIOUS
    <2> DEFINE x == w[f]
               y == Levels[f][2] - Levels[f][1]
    <2>1. f \in L
      BY <1>1, <1>2
    <2>2. x \in Int /\ y \in Int
      BY <1>4, <2>1
    <2>3. m[f] = x * (8 * y) /\ raise(f) = x * y
      BY <1>5, <1>6, <2>1
    <2> HIDE DEF x, y, m, raise, P
    <2>4. x * (8 * y) = 8 * (x * y)
      BY <2>2
    <2> QED
      BY <2>3, <2>4
  <1>8. \A f \in L \ P : m[f] = 0
    <2> SUFFICES ASSUME NEW f \in L \ P PROVE m[f] = 0
      OBVIOUS
    <2>1. m[f] = w[f] * Contrast(f, col) /\ w[f] \in Int /\ Contrast(f, col) = 0
      BY <1>4, <1>5, <1>6
    <2> HIDE DEF m, P
    <2> QED
      BY <2>1
  <1>9. P \subseteq L /\ IsFiniteSet(P) /\ IsFiniteSet(L \ P)
    <2>1. P \subseteq L
      BY <1>1, <1>2
    <2> HIDE DEF P, L
    <2> QED
      BY <1>3, <2>1, FS_Subset
  <1>10. Total(m, L) = Total(m, P) + Total(m, L \ P)
    <2>1. P \cup (L \ P) = L /\ P \cap (L \ P) = {}
      BY <1>9
    <2>2. \A f \in P \cup (L \ P) : m[f] \in Int
      BY <1>5, <2>1
    <2> HIDE DEF P, L, m
    <2>3. Total(m, P \cup (L \ P)) = Total(m, P) + Total(m, L \ P)
      BY <1>9, <2>1, <2>2, TotalUnion
    <2> QED
      BY <2>1, <2>3
  <1>11. Total(m, L \ P) = 0
    <2> HIDE DEF P, L, m
    <2> QED
      BY <1>8, <1>9, TotalZero
  <1>12. \A i \in I : /\ Factors[i] \in L /\ Factors[i] \in P
                      /\ a[i] = raise(Factors[i]) /\ a[i] \in Int
                      /\ b[i] = m[Factors[i]] /\ b[i] \in Int
                      /\ b[i] = 8 * a[i]
    <2>1. \A i \in I : Factors[i] \in L /\ Factors[i] \in P
      BY <1>1, <1>2
    <2>2. \A i \in I : a[i] = raise(Factors[i]) /\ b[i] = m[Factors[i]]
      OBVIOUS
    <2> HIDE DEF P, L, m, a, b, raise
    <2> QED
      BY <1>5, <1>7, <2>1, <2>2
  <1>13. Total(m, P) = Total(b, I)
    <2> DEFINE F == Factors
    <2>1. /\ \A i, j \in I : F[i] = F[j] => i = j
          /\ \A i \in I : m[F[i]] \in Int /\ b[i] = m[F[i]]
      BY <1>1, <1>2, <1>12
    <2> HIDE DEF F, I, m, b
    <2>2. Total(m, {F[i] : i \in I}) = Total(b, I)
      BY <1>3, <2>1, TotalImage
    <2> QED
      BY <2>2 DEF F
  <1>14. Total(b, I) = 8 * Total(a, I) /\ Total(b, I) \in Int
    <2> HIDE DEF a, b, I, raise, L, m, P
    <2> QED
      BY <1>3, <1>12, TotalScale, TotalInt
  <1>15. Total(m, L) = 8 * Total(a, I)
    <2> HIDE DEF a, b, I, L, m, P, raise
    <2> QED
      BY <1>10, <1>11, <1>13, <1>14
  <1>16. Total(a, I) \in Int
    <2> HIDE DEF a, I, raise, L, m, P, b
    <2> QED
      BY <1>3, <1>12, TotalInt
  <1>17. Raised(w, col) = Total(a, I)
    BY Zenon DEF Raised
  <1> QED
    BY <1>15, <1>16, <1>17, Zenon

\* The effects of an experiment are its weighted contrasts.
LEMMA InvLetters ==
  ASSUME AnalysisInv
  PROVE  LettersNameFactors
  <1> DEFINE raise(f) == metric[f] * (Levels[f][2] - Levels[f][1])
  <1> SUFFICES ASSUME phase = "analyzed", metric # <<>>, NEW col \in Cells(4) \ {0}
               PROVE  effects[col]
                        = 16 * SumOver(LetterOf(col), LAMBDA i : raise(Factors[i]))
    BY DEF LettersNameFactors
  <1> DEFINE C == Cells(4)
             S == sign_matrix(4)
             w == metric
             c(row) == SortedConfigurations[row + 1]
             t == [row \in C |-> RowTotal(row) * S[row][col]]
             v == [row \in C |-> Value(w, c(row)) * S[row][col]]
             z == Raised(w, col)
  <1>1. /\ k = 4 /\ w \in [DOMAIN Levels -> Weights] /\ data = ExperimentData(w)
        /\ signs = S /\ effects = EffectsOf(signs)
    BY DEF AnalysisInv
  <1>2. effects[col] = Total(t, C)
    BY <1>1 DEF EffectsOf, SumOver
  <1>3. /\ \A row \in C : c(row) \in Configurations
        /\ \A row \in C : v[row] \in Int
        /\ Total(v, C) = 8 * z
    <2>1. Total(v, C) = Total([f \in DOMAIN Levels |-> w[f] * Contrast(f, col)],
                              DOMAIN Levels)
      BY <1>1, WeightedContrasts
    <2>2. \A row \in C : c(row) \in Configurations
      BY <1>1, WeightedContrasts
    <2>4. \A row \in C : v[row] \in Int
      BY <1>1, WeightedContrasts
    <2>3. Total([f \in DOMAIN Levels |-> w[f] * Contrast(f, col)], DOMAIN Levels)
            = 8 * z
      BY <1>1, LetterContrast
    <2> QED
      BY <2>1, <2>2, <2>3, <2>4
  <1>4. ASSUME NEW row \in C PROVE t[row] = 2 * v[row]
    <2> DEFINE x == Value(w, c(row))
               y == S[row][col]
    <2>1. x \in Int /\ Means(w, c(row)) = <<x - 1, x + 1>>
      BY <1>1, <1>3, ValueInt
    <2>2. row + 1 \in 1..16
      BY SixteenRows DEF Cells
    <2>3. data[row + 1] = Means(w, c(row))
      BY <1>1, <2>2 DEF ExperimentData
    <2>4. RowTotal(row) = LineSum(data[row + 1])
      BY DEF RowTotal, SumOver, LineSum
    <2>5. t[row] = RowTotal(row) * y /\ v[row] = x * y
      OBVIOUS
    <2>6. y \in Int
      BY DEF sign_matrix
    <2> HIDE DEF x, y, t, v
    <2>7. RowTotal(row) = 2 * x
      BY <2>1, <2>3, <2>4, MeansSum
    <2>8. (2 * x) * y = 2 * (x * y)
      BY <2>1, <2>6
    <2> QED
      BY <2>5, <2>7, <2>8
  <1>5. IsFiniteSet(C)
    BY <1>1, RowFacts
  <1>6. SumOver(LetterOf(col), LAMBDA i : raise(Factors[i])) = z
    BY Zenon DEF SumOver, Raised
  <1> HIDE DEF C, t, v
  <1>7. Total(t, C) = 2 * Total(v, C) /\ Total(v, C) \in Int
    BY <1>3, <1>4, <1>5, TotalScale, TotalInt
  <1>8. z \in Int
    BY <1>1, LetterContrast
  <1> HIDE DEF z
  <1>9. effects[col] = 16 * z
    BY <1>2, <1>3, <1>7, <1>8
  <1> QED
    BY <1>6, <1>9, Zenon

(***************************************************************************)
(* For all integer weights of a metric linear in the factors, the effects  *)
(* of the columns A, B, C, D are those of iat, lt, tot, pt, and no         *)
(* interaction has an effect.                                              *)
(***************************************************************************)
THEOREM LettersRight == Spec => []LettersNameFactors
  BY AnalysisInvariant, InvLetters, PTL
=============================================================================
