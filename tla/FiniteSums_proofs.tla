-------------------------- MODULE FiniteSums_proofs --------------------------
(***************************************************************************)
(* Lemmas on sums over finite sets.                                        *)
(***************************************************************************)
EXTENDS FiniteSums, FiniteSetTheorems, WellFoundedInduction, TLAPS

(***************************************************************************)
(* Sums over finite sets.  The fold behind Total is a recursive function   *)
(* on the subsets of its set; its values are found by looking at a minimal *)
(* subset for which they would be wrong.                                   *)
(***************************************************************************)

Pick(s) == CHOOSE x \in s : TRUE

\* h holds the sums of g over the subsets of u.
SumsUp(h, g, u) ==
  h = [s \in SUBSET u |-> IF s = {} THEN 0 ELSE g[Pick(s)] + h[s \ {Pick(s)}]]

\* The fold that defines Total picks such a table.
LEMMA TotalChoice ==
  ASSUME NEW g, NEW S
  PROVE  Total(g, S) = (CHOOSE h : SumsUp(h, g, S))[S]
  BY Zenon DEF Total, FoldFunctionOnSet, MapThenFoldSet, Pick, SumsUp

\* A family of subsets of a finite set has a minimal member: the induction
\* principle of the proofs below.
LEMMA Minimal ==
  ASSUME NEW D, IsFiniteSet(D), NEW T, T \subseteq SUBSET D, T # {}
  PROVE  \E s \in T : \A r \in T : ~ (r \subseteq s /\ r # s)
  <1>1. IsWellFoundedOn(StrictSubsetOrdering(D), FiniteSubsetsOf(D))
    BY FS_StrictSubsetOrderingWellFounded
  <1>2. FiniteSubsetsOf(D) = SUBSET D
    BY FS_FiniteSubsetsOfFinite
  <1>3. \E s \in T : \A r \in T : ~ (<<r, s>> \in StrictSubsetOrdering(D))
    BY <1>1, <1>2, WFMin
  <1> QED
    BY <1>3 DEF StrictSubsetOrdering

\* One line of a table.
LEMMA SumsAt ==
  ASSUME NEW h, NEW g, NEW u, SumsUp(h, g, u), NEW s \in SUBSET u
  PROVE  /\ s = {} => h[s] = 0
         /\ s # {} => /\ Pick(s) \in s
                      /\ s \ {Pick(s)} \in SUBSET u
                      /\ h[s] = g[Pick(s)] + h[s \ {Pick(s)}]
  <1>1. s # {} => Pick(s) \in s
    BY DEF Pick
  <1>2. h[s] = IF s = {} THEN 0 ELSE g[Pick(s)] + h[s \ {Pick(s)}]
    BY DEF SumsUp
  <1> QED
    BY <1>1, <1>2

\* Two tables agree where both are defined.
LEMMA SumsAgree ==
  ASSUME NEW g, NEW D, IsFiniteSet(D), NEW u \in SUBSET D, NEW v \in SUBSET D,
         NEW h, NEW k, SumsUp(h, g, u), SumsUp(k, g, v),
         NEW s \in SUBSET u, s \in SUBSET v
  PROVE  h[s] = k[s]
  <1> DEFINE T == {r \in SUBSET s : h[r] # k[r]}
  <1>1. SUFFICES ASSUME T # {} PROVE FALSE
    OBVIOUS
  <1>2. T \subseteq SUBSET D
    OBVIOUS
  <1>3. \A r : r \in T <=> r \in SUBSET s /\ h[r] # k[r]
    OBVIOUS
  <1> HIDE DEF T
  <1>4. PICK r \in T : \A q \in T : ~ (q \subseteq r /\ q # r)
    BY <1>1, <1>2, Minimal
  <1>5. r \in SUBSET s /\ r \in SUBSET u /\ r \in SUBSET v /\ h[r] # k[r]
    BY <1>3
  <1>6. r # {}
    BY <1>5, SumsAt
  <1>7. Pick(r) \in r
    BY <1>5, <1>6, SumsAt
  <1>8. /\ h[r] = g[Pick(r)] + h[r \ {Pick(r)}]
        /\ k[r] = g[Pick(r)] + k[r \ {Pick(r)}]
    BY <1>5, <1>6, SumsAt
  <1>9. h[r \ {Pick(r)}] = k[r \ {Pick(r)}]
    BY <1>3, <1>4, <1>5, <1>7
  <1> QED
    BY <1>5, <1>8, <1>9

\* Every finite set has a table.
LEMMA SumsExist ==
  ASSUME NEW g, NEW D, IsFiniteSet(D)
  PROVE  \E h : SumsUp(h, g, D)
  <1> DEFINE T == {s \in SUBSET D : ~ \E h : SumsUp(h, g, s)}
  <1>1. SUFFICES ASSUME T # {} PROVE FALSE
    OBVIOUS
  <1>2. T \subseteq SUBSET D
    OBVIOUS
  <1>3. \A r : r \in T <=> r \in SUBSET D /\ ~ \E h : SumsUp(h, g, r)
    OBVIOUS
  <1> HIDE DEF T
  <1>4. PICK s \in T : \A q \in T : ~ (q \subseteq s /\ q # s)
    BY <1>1, <1>2, Minimal
  <1>5. s \in SUBSET D
    BY <1>3
  <1> DEFINE H(u) == CHOOSE h : SumsUp(h, g, u)
             F == [r \in SUBSET s |-> IF r = {} THEN 0
                     ELSE g[Pick(r)] + H(r \ {Pick(r)})[r \ {Pick(r)}]]
  <1>6. ASSUME NEW u \in SUBSET s, u # s
        PROVE  SumsUp(H(u), g, u)
    <2>1. \E h : SumsUp(h, g, u)
      BY <1>3, <1>4, <1>5, <1>6
    <2> QED
      BY <2>1
  <1> HIDE DEF H
  <1>7. \A r \in SUBSET s : F[r] = IF r = {} THEN 0
                     ELSE g[Pick(r)] + H(r \ {Pick(r)})[r \ {Pick(r)}]
    OBVIOUS
  <1> HIDE DEF F
  <1>8. ASSUME NEW r \in SUBSET s, r # {}
        PROVE  F[r \ {Pick(r)}] = H(r \ {Pick(r)})[r \ {Pick(r)}]
    <2>0. Pick(r) \in r
      BY <1>8 DEF Pick
    <2> DEFINE u == r \ {Pick(r)}
               w == u \ {Pick(u)}
    <2>1. u \in SUBSET s /\ u # s
      BY <2>0
    <2> HIDE DEF u
    <2>2. w \subseteq u
      OBVIOUS
    <2>3. F[u] = IF u = {} THEN 0 ELSE g[Pick(u)] + H(w)[w]
      BY <1>7, <2>1
    <2>4. SumsUp(H(u), g, u) /\ u \in SUBSET u
      BY <1>6, <2>1
    <2>5. /\ u = {} => H(u)[u] = 0
          /\ u # {} => Pick(u) \in u /\ H(u)[u] = g[Pick(u)] + H(u)[w]
      BY <2>4, SumsAt
    <2> HIDE DEF w
    <2>6. ASSUME u # {} PROVE H(u)[w] = H(w)[w]
      <3>1. w \in SUBSET s /\ w # s
        BY <2>1, <2>2, <2>5, <2>6 DEF w
      <3>2. SumsUp(H(w), g, w)
        BY <1>6, <3>1
      <3>3. u \in SUBSET D /\ w \in SUBSET D /\ w \in SUBSET u /\ w \in SUBSET w
        BY <1>5, <2>1, <3>1, <2>2
      <3> QED
        BY <2>4, <3>2, <3>3, SumsAgree
    <2>7. F[u] = H(u)[u]
      BY <2>3, <2>5, <2>6
    <2> QED
      BY <2>7 DEF u
  <1>9. F = [r \in SUBSET s |-> IF r = {} THEN 0
               ELSE g[Pick(r)] + F[r \ {Pick(r)}]]
    <2>1. \A r \in SUBSET s :
            (IF r = {} THEN 0 ELSE g[Pick(r)] + H(r \ {Pick(r)})[r \ {Pick(r)}])
            = (IF r = {} THEN 0 ELSE g[Pick(r)] + F[r \ {Pick(r)}])
      BY <1>8
    <2>2. F = [r \in SUBSET s |-> F[r]]
      BY DEF F
    <2> QED
      BY <1>7, <2>1, <2>2
  <1>10. SumsUp(F, g, s)
    BY <1>9, Zenon DEF SumsUp
  <1> QED
    BY <1>3, <1>10

\* The sum of an empty set, and of another one by its first element.
LEMMA TotalStep ==
  ASSUME NEW g, NEW S, IsFiniteSet(S)
  PROVE  /\ S = {} => Total(g, S) = 0
         /\ S # {} => /\ Pick(S) \in S
                      /\ Total(g, S) = g[Pick(S)] + Total(g, S \ {Pick(S)})
  <1> DEFINE h == CHOOSE h : SumsUp(h, g, S)
             R == S \ {Pick(S)}
             k == CHOOSE k : SumsUp(k, g, R)
  <1>1. Total(g, S) = h[S] /\ Total(g, R) = k[R]
    BY TotalChoice
  <1>2. SumsUp(h, g, S)
    BY SumsExist
  <1>3. IsFiniteSet(R)
    BY FS_Subset
  <1>4. SumsUp(k, g, R)
    BY <1>3, SumsExist
  <1>5. R \in SUBSET S /\ R \in SUBSET R /\ S \in SUBSET S
    OBVIOUS
  <1> HIDE DEF h, k
  <1>6. /\ S = {} => h[S] = 0
        /\ S # {} => Pick(S) \in S /\ h[S] = g[Pick(S)] + h[R]
    BY <1>2, <1>5, SumsAt
  <1> HIDE DEF R
  <1>7. h[R] = k[R]
    BY <1>2, <1>4, <1>5, SumsAgree
  <1> QED
    BY <1>1, <1>6, <1>7 DEF R

\* A sum of integers is an integer.
LEMMA TotalInt ==
  ASSUME NEW g, NEW S, IsFiniteSet(S), \A x \in S : g[x] \in Int
  PROVE  Total(g, S) \in Int
  <1> DEFINE T == {s \in SUBSET S : Total(g, s) \notin Int}
  <1>1. SUFFICES ASSUME T # {} PROVE FALSE
    OBVIOUS
  <1>2. \A s : s \in T <=> s \in SUBSET S /\ Total(g, s) \notin Int
    OBVIOUS
  <1>0. T \subseteq SUBSET S
    OBVIOUS
  <1> HIDE DEF T
  <1>3. PICK s \in T : \A r \in T : ~ (r \subseteq s /\ r # s)
    BY <1>0, <1>1, Minimal
  <1>4. IsFiniteSet(s)
    BY <1>2, FS_Subset
  <1>5. s # {}
    <2>1. ASSUME s = {} PROVE Total(g, s) = 0
      BY <1>4, <2>1, TotalStep
    <2> QED
      BY <1>2, <2>1
  <1>6. Pick(s) \in s /\ Total(g, s) = g[Pick(s)] + Total(g, s \ {Pick(s)})
    BY <1>4, <1>5, TotalStep
  <1>7. Total(g, s \ {Pick(s)}) \in Int
    BY <1>2, <1>3, <1>6
  <1>8. g[Pick(s)] \in Int
    BY <1>2, <1>6
  <1> QED
    BY <1>2, <1>6, <1>7, <1>8

\* Any element may be taken out of the sum, not just the one picked.
LEMMA TotalRemove ==
  ASSUME NEW g, NEW S, IsFiniteSet(S), \A x \in S : g[x] \in Int,
         NEW a \in S
  PROVE  Total(g, S) = g[a] + Total(g, S \ {a})
  <1> DEFINE T == {s \in SUBSET S :
                     \E x \in s : Total(g, s) # g[x] + Total(g, s \ {x})}
  <1>1. SUFFICES ASSUME T # {} PROVE FALSE
    OBVIOUS
  <1>2. \A s : s \in T <=>
          /\ s \in SUBSET S
          /\ \E x \in s : Total(g, s) # g[x] + Total(g, s \ {x})
    OBVIOUS
  <1>0. T \subseteq SUBSET S
    OBVIOUS
  <1> HIDE DEF T
  <1>3. PICK s \in T : \A r \in T : ~ (r \subseteq s /\ r # s)
    BY <1>0, <1>1, Minimal
  <1>4. s \in SUBSET S /\ IsFiniteSet(s)
    BY <1>2, FS_Subset
  <1>5. PICK x \in s : Total(g, s) # g[x] + Total(g, s \ {x})
    BY <1>2
  <1>6. Pick(s) \in s /\ Total(g, s) = g[Pick(s)] + Total(g, s \ {Pick(s)})
    BY <1>4, <1>5, TotalStep
  <1> DEFINE y == Pick(s)
  <1> HIDE DEF y
  <1>7. y \in s /\ y # x /\ Total(g, s) = g[y] + Total(g, s \ {y})
    BY <1>5, <1>6 DEF y
  <1>8. \A r \in SUBSET s : r # s =>
          \A z \in r : Total(g, r) = g[z] + Total(g, r \ {z})
    BY <1>2, <1>3, <1>4
  <1>9. Total(g, s \ {y}) = g[x] + Total(g, (s \ {y}) \ {x})
    BY <1>7, <1>8
  <1>10. Total(g, s \ {x}) = g[y] + Total(g, (s \ {x}) \ {y})
    BY <1>7, <1>8
  <1>11. (s \ {x}) \ {y} = (s \ {y}) \ {x}
    OBVIOUS
  <1>12. /\ IsFiniteSet((s \ {y}) \ {x})
         /\ \A z \in (s \ {y}) \ {x} : g[z] \in Int
    BY <1>4, FS_Subset
  <1>13. Total(g, (s \ {y}) \ {x}) \in Int
    BY <1>12, TotalInt
  <1>14. g[x] \in Int /\ g[y] \in Int
    BY <1>4, <1>7
  <1> DEFINE t == Total(g, (s \ {y}) \ {x})
             i == g[x]
             j == g[y]
  <1>15. t \in Int /\ i \in Int /\ j \in Int
    BY <1>13, <1>14
  <1>16. /\ Total(g, s) = j + Total(g, s \ {y})
         /\ Total(g, s \ {y}) = i + t
         /\ Total(g, s \ {x}) = j + t
         /\ Total(g, s) # i + Total(g, s \ {x})
    BY <1>5, <1>7, <1>9, <1>10, <1>11
  <1> HIDE DEF t, i, j
  <1> QED
    BY <1>15, <1>16

\* A new element adds its value.
LEMMA TotalAdd ==
  ASSUME NEW g, NEW S, IsFiniteSet(S), \A x \in S : g[x] \in Int,
         NEW a, a \notin S, g[a] \in Int
  PROVE  Total(g, S \cup {a}) = g[a] + Total(g, S)
  <1>1. IsFiniteSet(S \cup {a})
    BY FS_AddElement
  <1>2. (S \cup {a}) \ {a} = S
    OBVIOUS
  <1> QED
    BY <1>1, <1>2, TotalRemove

\* The sum of a pointwise sum.
LEMMA TotalPlus ==
  ASSUME NEW S, IsFiniteSet(S), NEW f, NEW g, NEW h,
         \A x \in S : f[x] \in Int /\ g[x] \in Int /\ h[x] = f[x] + g[x]
  PROVE  Total(h, S) = Total(f, S) + Total(g, S)
  <1> DEFINE T == {s \in SUBSET S : Total(h, s) # Total(f, s) + Total(g, s)}
  <1>1. SUFFICES ASSUME T # {} PROVE FALSE
    OBVIOUS
  <1>2. \A s : s \in T <=> /\ s \in SUBSET S
                           /\ Total(h, s) # Total(f, s) + Total(g, s)
    OBVIOUS
  <1>0. T \subseteq SUBSET S
    OBVIOUS
  <1> HIDE DEF T
  <1>3. PICK s \in T : \A r \in T : ~ (r \subseteq s /\ r # s)
    BY <1>0, <1>1, Minimal
  <1>4. s \in SUBSET S /\ IsFiniteSet(s)
    BY <1>2, FS_Subset
  <1>5. s # {}
    <2>1. ASSUME s = {} PROVE Total(h, s) = 0 /\ Total(f, s) = 0 /\ Total(g, s) = 0
      BY <1>4, <2>1, TotalStep
    <2> QED
      BY <1>2, <2>1
  <1> DEFINE x == Pick(s)
             r == s \ {x}
  <1>6. /\ x \in s
        /\ Total(f, s) = f[x] + Total(f, r)
        /\ Total(g, s) = g[x] + Total(g, r)
        /\ Total(h, s) = h[x] + Total(h, r)
    BY <1>4, <1>5, TotalStep
  <1> HIDE DEF x
  <1>7. Total(h, r) = Total(f, r) + Total(g, r)
    BY <1>2, <1>3, <1>4, <1>6
  <1>8. IsFiniteSet(r) /\ \A z \in r : f[z] \in Int /\ g[z] \in Int
    BY <1>4, FS_Subset
  <1>9. Total(f, r) \in Int /\ Total(g, r) \in Int
    BY <1>8, TotalInt
  <1>10. f[x] \in Int /\ g[x] \in Int /\ h[x] = f[x] + g[x]
    BY <1>4, <1>6
  <1> HIDE DEF r
  <1> QED
    BY <1>2, <1>6, <1>7, <1>9, <1>10

\* The sum over a disjoint union.
LEMMA TotalUnion ==
  ASSUME NEW g, NEW S, IsFiniteSet(S), NEW R, IsFiniteSet(R), S \cap R = {},
         \A x \in S \cup R : g[x] \in Int
  PROVE  Total(g, S \cup R) = Total(g, S) + Total(g, R)
  <1> DEFINE T == {s \in SUBSET S : Total(g, s \cup R) # Total(g, s) + Total(g, R)}
  <1>1. SUFFICES ASSUME T # {} PROVE FALSE
    OBVIOUS
  <1>2. \A s : s \in T <=> /\ s \in SUBSET S
                           /\ Total(g, s \cup R) # Total(g, s) + Total(g, R)
    OBVIOUS
  <1>0. T \subseteq SUBSET S
    OBVIOUS
  <1> HIDE DEF T
  <1>3. PICK s \in T : \A r \in T : ~ (r \subseteq s /\ r # s)
    BY <1>0, <1>1, Minimal
  <1>4. s \in SUBSET S /\ IsFiniteSet(s)
    BY <1>2, FS_Subset
  <1>5. Total(g, R) \in Int
    BY TotalInt
  <1>6. s # {}
    <2>1. ASSUME s = {} PROVE Total(g, s) = 0 /\ s \cup R = R
      BY <1>4, <2>1, TotalStep
    <2> QED
      BY <1>2, <1>5, <2>1
  <1> DEFINE x == Pick(s)
             r == s \ {x}
  <1>7. x \in s /\ Total(g, s) = g[x] + Total(g, r)
    BY <1>4, <1>6, TotalStep
  <1> HIDE DEF x
  <1>8. Total(g, r \cup R) = Total(g, r) + Total(g, R)
    <2>1. r \in SUBSET S /\ r \subseteq s /\ r # s
      BY <1>4, <1>7
    <2> HIDE DEF r
    <2> QED
      BY <1>2, <1>3, <2>1
  <1>9. /\ IsFiniteSet(r) /\ \A z \in r : g[z] \in Int
        /\ IsFiniteSet(r \cup R) /\ \A z \in r \cup R : g[z] \in Int
    BY <1>4, FS_Subset, FS_Union
  <1>10. Total(g, r) \in Int /\ g[x] \in Int
    BY <1>4, <1>7, <1>9, TotalInt
  <1>11. x \notin r \cup R /\ s \cup R = (r \cup R) \cup {x}
    BY <1>4, <1>7
  <1> HIDE DEF r
  <1>12. Total(g, s \cup R) = g[x] + Total(g, r \cup R)
    BY <1>9, <1>10, <1>11, TotalAdd
  <1> QED
    BY <1>2, <1>5, <1>7, <1>8, <1>10, <1>12

\* The sum over the image of an injective function.
LEMMA TotalImage ==
  ASSUME NEW S, IsFiniteSet(S), NEW f, NEW g, NEW h,
         \A x, y \in S : f[x] = f[y] => x = y,
         \A x \in S : g[f[x]] \in Int /\ h[x] = g[f[x]]
  PROVE  Total(g, {f[x] : x \in S}) = Total(h, S)
  <1> DEFINE I(s) == {f[x] : x \in s}
             T == {s \in SUBSET S : Total(g, I(s)) # Total(h, s)}
  <1>1. SUFFICES ASSUME T # {} PROVE FALSE
    OBVIOUS
  <1>2. \A s : s \in T <=> s \in SUBSET S /\ Total(g, I(s)) # Total(h, s)
    OBVIOUS
  <1>0. T \subseteq SUBSET S
    OBVIOUS
  <1> HIDE DEF T
  <1>3. PICK s \in T : \A r \in T : ~ (r \subseteq s /\ r # s)
    BY <1>0, <1>1, Minimal
  <1>4. s \in SUBSET S /\ IsFiniteSet(s)
    BY <1>2, FS_Subset
  <1>5. s # {}
    <2>1. ASSUME s = {} PROVE I(s) = {} /\ IsFiniteSet({})
      BY <2>1, FS_EmptySet
    <2>2. ASSUME s = {} PROVE Total(h, s) = 0 /\ Total(g, I(s)) = 0
      BY <1>4, <2>1, <2>2, TotalStep
    <2> QED
      BY <1>2, <2>2
  <1> DEFINE x == Pick(s)
             r == s \ {x}
  <1>6. x \in s /\ Total(h, s) = h[x] + Total(h, r)
    BY <1>4, <1>5, TotalStep
  <1> HIDE DEF x
  <1>7. Total(g, I(r)) = Total(h, r)
    BY <1>2, <1>3, <1>4, <1>6
  <1>8. IsFiniteSet(r) /\ \A z \in I(r) : g[z] \in Int
    BY <1>4, FS_Subset
  <1>9. IsFiniteSet(I(r))
    <2> DEFINE k == [z \in r |-> f[z]]
    <2>1. k \in Surjection(r, I(r))
      BY DEF Surjection
    <2> QED
      BY <1>8, <2>1, FS_Surjection
  <1>10. f[x] \notin I(r) /\ I(s) = I(r) \cup {f[x]}
    BY <1>4, <1>6
  <1>11. g[f[x]] \in Int /\ h[x] = g[f[x]]
    BY <1>4, <1>6
  <1> HIDE DEF r, I
  <1>12. Total(g, I(s)) = g[f[x]] + Total(g, I(r))
    BY <1>8, <1>9, <1>10, <1>11, TotalAdd
  <1> QED
    BY <1>2, <1>6, <1>7, <1>11, <1>12

\* Functions that agree on a set have the same sum over it.
LEMMA TotalSame ==
  ASSUME NEW S, IsFiniteSet(S), NEW g, NEW h,
         \A x \in S : g[x] \in Int /\ h[x] = g[x]
  PROVE  Total(g, S) = Total(h, S)
  <1> DEFINE f == [x \in S |-> x]
  <1>1. \A x \in S : f[x] = x
    OBVIOUS
  <1> HIDE DEF f
  <1>2. {f[x] : x \in S} = S
    BY <1>1
  <1>3. Total(g, {f[x] : x \in S}) = Total(h, S)
    BY <1>1, TotalImage
  <1> QED
    BY <1>2, <1>3

\* A common factor.
LEMMA TotalScale ==
  ASSUME NEW S, IsFiniteSet(S), NEW c \in Int, NEW g, NEW h,
         \A x \in S : g[x] \in Int /\ h[x] = c * g[x]
  PROVE  Total(h, S) = c * Total(g, S)
  <1> DEFINE T == {s \in SUBSET S : Total(h, s) # c * Total(g, s)}
  <1>1. SUFFICES ASSUME T # {} PROVE FALSE
    OBVIOUS
  <1>2. \A s : s \in T <=> s \in SUBSET S /\ Total(h, s) # c * Total(g, s)
    OBVIOUS
  <1>0. T \subseteq SUBSET S
    OBVIOUS
  <1> HIDE DEF T
  <1>3. PICK s \in T : \A r \in T : ~ (r \subseteq s /\ r # s)
    BY <1>0, <1>1, Minimal
  <1>4. s \in SUBSET S /\ IsFiniteSet(s)
    BY <1>2, FS_Subset
  <1>5. s # {}
    <2>1. ASSUME s = {} PROVE Total(h, s) = 0 /\ Total(g, s) = 0
      BY <1>4, <2>1, TotalStep
    <2> QED
      BY <1>2, <2>1
  <1> DEFINE x == Pick(s)
             r == s \ {x}
  <1>6. /\ x \in s
        /\ Total(g, s) = g[x] + Total(g, r)
        /\ Total(h, s) = h[x] + Total(h, r)
    BY <1>4, <1>5, TotalStep
  <1> HIDE DEF x
  <1>7. Total(h, r) = c * Total(g, r)
    BY <1>2, <1>3, <1>4, <1>6
  <1>8. IsFiniteSet(r) /\ \A z \in r : g[z] \in Int
    BY <1>4, FS_Subset
  <1>9. Total(g, r) \in Int
    BY <1>8, TotalInt
  <1>10. g[x] \in Int /\ h[x] = c * g[x]
    BY <1>4, <1>6
  <1> HIDE DEF r
  <1>11. \A i, j \in Int : c * (i + j) = c * i + c * j
    OBVIOUS
  <1>12. c * Total(g, s) = c * g[x] + c * Total(g, r)
    BY <1>6, <1>9, <1>10, <1>11
  <1> QED
    BY <1>2, <1>6, <1>7, <1>10, <1>12

\* A sum of zeros.
LEMMA TotalZero ==
  ASSUME NEW S, IsFiniteSet(S), NEW h, \A x \in S : h[x] = 0
  PROVE  Total(h, S) = 0
  <1>1. \A x \in S : h[x] \in Int /\ h[x] = 0 * h[x]
    OBVIOUS
  <1>2. Total(h, S) = 0 * Total(h, S)
    BY <1>1, TotalScale
  <1>3. Total(h, S) \in Int
    BY <1>1, TotalInt
  <1> QED
    BY <1>2, <1>3

\* A sum of equal terms.
LEMMA TotalConst ==
  ASSUME NEW S, IsFiniteSet(S), NEW c \in Int, NEW h, \A x \in S : h[x] = c
  PROVE  Total(h, S) = c * Cardinality(S)
  <1> DEFINE T == {s \in SUBSET S : Total(h, s) # c * Cardinality(s)}
  <1>1. SUFFICES ASSUME T # {} PROVE FALSE
    OBVIOUS
  <1>2. \A s : s \in T <=> s \in SUBSET S /\ Total(h, s) # c * Cardinality(s)
    OBVIOUS
  <1>0. T \subseteq SUBSET S
    OBVIOUS
  <1> HIDE DEF T
  <1>3. PICK s \in T : \A r \in T : ~ (r \subseteq s /\ r # s)
    BY <1>0, <1>1, Minimal
  <1>4. s \in SUBSET S /\ IsFiniteSet(s)
    BY <1>2, FS_Subset
  <1>5. s # {}
    <2>1. ASSUME s = {} PROVE Total(h, s) = 0 /\ Cardinality(s) = 0
      BY <1>4, <2>1, TotalStep, FS_EmptySet
    <2> QED
      BY <1>2, <2>1
  <1> DEFINE x == Pick(s)
             r == s \ {x}
  <1>6. x \in s /\ Total(h, s) = h[x] + Total(h, r)
    BY <1>4, <1>5, TotalStep
  <1> HIDE DEF x
  <1>7. Total(h, r) = c * Cardinality(r)
    BY <1>2, <1>3, <1>4, <1>6
  <1>8. /\ Cardinality(s) \in Nat
        /\ Cardinality(r) = Cardinality(s) - 1
    BY <1>4, <1>6, FS_CardinalityType, FS_RemoveElement
  <1>9. h[x] = c
    BY <1>4, <1>6
  <1> HIDE DEF r
  <1>10. \A n \in Nat : c + c * (n - 1) = c * n
    OBVIOUS
  <1>11. Total(h, s) = c + c * (Cardinality(s) - 1)
    BY <1>6, <1>7, <1>8, <1>9
  <1> QED
    BY <1>2, <1>8, <1>10, <1>11

\* f sums up the rows of a table and k its columns.
Swapped(S, R, f, k, G, H) ==
  /\ IsFiniteSet(S) /\ IsFiniteSet(R)
  /\ \A x \in S : f[x] = Total(G[x], R)
  /\ \A y \in R : k[y] = Total(H[y], S)
  /\ \A x \in S, y \in R : G[x][y] \in Int /\ H[y][x] = G[x][y]

\* A double sum does not depend on the order of summation.
LEMMA TotalSwap ==
  ASSUME NEW S, NEW R, NEW f, NEW k, NEW G, NEW H, Swapped(S, R, f, k, G, H)
  PROVE  Total(f, S) = Total(k, R)
  <1> /\ IsFiniteSet(S) /\ IsFiniteSet(R)
      /\ \A x \in S : f[x] = Total(G[x], R)
      /\ \A y \in R : k[y] = Total(H[y], S)
      /\ \A x \in S, y \in R : G[x][y] \in Int /\ H[y][x] = G[x][y]
    BY DEF Swapped
  <1> DEFINE K(s) == [y \in R |-> Total(H[y], s)]
             T == {s \in SUBSET S : Total(f, s) # Total(K(s), R)}
  <1>1. ASSUME T # {} PROVE FALSE
    <2>2. \A s : s \in T <=> s \in SUBSET S /\ Total(f, s) # Total(K(s), R)
      OBVIOUS
    <2>0. T \subseteq SUBSET S
      OBVIOUS
    <2> HIDE DEF T
    <2>3. PICK s \in T : \A r \in T : ~ (r \subseteq s /\ r # s)
      BY <1>1, <2>0, Minimal
    <2>4. s \in SUBSET S /\ IsFiniteSet(s)
      BY <2>2, FS_Subset
    <2>5. s # {}
      <3> SUFFICES ASSUME s = {} PROVE FALSE
        OBVIOUS
      <3>1. Total(f, s) = 0 /\ \A y \in R : Total(H[y], s) = 0
        BY <2>4, TotalStep
      <3>2. Total(K(s), R) = 0
        BY <3>1, TotalZero
      <3> QED
        BY <2>2, <3>1, <3>2
    <2> DEFINE x == Pick(s)
               r == s \ {x}
               c == [y \in R |-> H[y][x]]
    <2>6. /\ x \in s
          /\ Total(f, s) = f[x] + Total(f, r)
          /\ \A y \in R : Total(H[y], s) = H[y][x] + Total(H[y], r)
      BY <2>4, <2>5, TotalStep
    <2> HIDE DEF x
    <2>7. r \in SUBSET S /\ r \subseteq s /\ r # s /\ IsFiniteSet(r)
      BY <2>4, <2>6, FS_Subset
    <2> HIDE DEF r
    <2>8. Total(f, r) = Total(K(r), R)
      BY <2>2, <2>3, <2>7
    <2>9. \A y \in R : Total(H[y], r) \in Int
      BY <2>7, TotalInt
    <2>10. Total(K(s), R) = Total(c, R) + Total(K(r), R)
      <3>1. \A y \in R : c[y] \in Int /\ K(r)[y] \in Int /\ K(s)[y] = c[y] + K(r)[y]
        BY <2>4, <2>6, <2>9
      <3> HIDE DEF c, K
      <3> QED
        BY <3>1, TotalPlus
    <2>11. Total(c, R) = Total(G[x], R)
      <3>1. \A y \in R : G[x][y] \in Int /\ c[y] = G[x][y]
        BY <2>4, <2>6
      <3> HIDE DEF c
      <3> QED
        BY <3>1, TotalSame
    <2>12. f[x] = Total(G[x], R)
      BY <2>4, <2>6
    <2> QED
      BY <2>2, <2>6, <2>8, <2>10, <2>11, <2>12
  <1>2. Total(f, S) = Total(K(S), R)
    BY <1>1
  <1>3. \A y \in R : Total(H[y], S) \in Int
    BY TotalInt
  <1>4. Total(K(S), R) = Total(k, R)
    <2>1. \A y \in R : K(S)[y] \in Int /\ k[y] = K(S)[y]
      BY <1>3
    <2> HIDE DEF K
    <2> QED
      BY <2>1, TotalSame
  <1> QED
    BY <1>2, <1>4

\* A sum over pairs, row by row.
Pairs(R, D) == UNION {{<<row, i>> : i \in D[row]} : row \in R}

\* A pair is a row and an index of that row.
LEMMA InPairs ==
  ASSUME NEW R, NEW D, NEW o
  PROVE  o \in Pairs(R, D) <=> \E row \in R : \E i \in D[row] : o = <<row, i>>
  BY DEF Pairs

Nested(R, D, g, G, f) ==
  /\ IsFiniteSet(R) /\ \A row \in R : IsFiniteSet(D[row])
  /\ \A row \in R : f[row] = Total(G[row], D[row])
  /\ \A row \in R : \A i \in D[row] :
       g[<<row, i>>] \in Int /\ G[row][i] = g[<<row, i>>]

\* The sum over all pairs is the sum over the rows of their sums.
LEMMA TotalNested ==
  ASSUME NEW R, NEW D, NEW g, NEW G, NEW f, Nested(R, D, g, G, f)
  PROVE  IsFiniteSet(Pairs(R, D)) /\ Total(g, Pairs(R, D)) = Total(f, R)
  <1> /\ IsFiniteSet(R) /\ \A row \in R : IsFiniteSet(D[row])
      /\ \A row \in R : f[row] = Total(G[row], D[row])
      /\ \A row \in R : \A i \in D[row] :
           g[<<row, i>>] \in Int /\ G[row][i] = g[<<row, i>>]
    BY DEF Nested
  <1> DEFINE Q(s) == /\ IsFiniteSet(Pairs(s, D))
                     /\ Total(g, Pairs(s, D)) = Total(f, s)
             T == {s \in SUBSET R : ~ Q(s)}
  <1>1. SUFFICES ASSUME T # {} PROVE FALSE
    OBVIOUS
  <1>2. \A s : s \in T <=> s \in SUBSET R /\ ~ Q(s)
    OBVIOUS
  <1>0. T \subseteq SUBSET R
    OBVIOUS
  <1> HIDE DEF T
  <1>3. PICK s \in T : \A r \in T : ~ (r \subseteq s /\ r # s)
    BY <1>0, <1>1, Minimal
  <1>4. s \in SUBSET R /\ IsFiniteSet(s)
    BY <1>2, FS_Subset
  <1>5. s # {}
    <2> SUFFICES ASSUME s = {} PROVE FALSE
      OBVIOUS
    <2>1. Pairs(s, D) = {} /\ IsFiniteSet({})
      BY FS_EmptySet, InPairs
    <2>2. Total(g, Pairs(s, D)) = 0 /\ Total(f, s) = 0
      BY <1>4, <2>1, TotalStep
    <2> QED
      BY <1>2, <2>1, <2>2
  <1> DEFINE x == Pick(s)
             r == s \ {x}
             c == [i \in D[x] |-> <<x, i>>]
             C == {c[i] : i \in D[x]}
  <1>6. x \in s /\ Total(f, s) = f[x] + Total(f, r)
    BY <1>4, <1>5, TotalStep
  <1> HIDE DEF x
  <1>7. r \in SUBSET R /\ r \subseteq s /\ r # s /\ s = r \cup {x} /\ x \notin r
    BY <1>4, <1>6
  <1> HIDE DEF r
  <1>8. IsFiniteSet(Pairs(r, D)) /\ Total(g, Pairs(r, D)) = Total(f, r)
    BY <1>2, <1>3, <1>7
  <1>9. x \in R /\ IsFiniteSet(D[x]) /\ \A i \in D[x] : c[i] = <<x, i>>
    BY <1>4, <1>6
  <1>10. IsFiniteSet(C)
    <2>1. c \in Surjection(D[x], C)
      BY DEF Surjection
    <2> HIDE DEF c, C
    <2> QED
      BY <1>9, <2>1, FS_Surjection
  <1>11. Pairs(s, D) = Pairs(r, D) \cup C
    <2>1. \A o : o \in C <=> \E i \in D[x] : o = <<x, i>>
      BY <1>9
    <2> HIDE DEF C
    <2>2. \A o : o \in Pairs(s, D) <=> o \in Pairs(r, D) \/ o \in C
      BY <1>7, <2>1, InPairs
    <2> QED
      BY <2>2
  <1>12. Pairs(r, D) \cap C = {}
    <2> SUFFICES ASSUME NEW o \in Pairs(r, D), o \in C PROVE FALSE
      OBVIOUS
    <2>1. PICK row \in r : \E i \in D[row] : o = <<row, i>>
      BY InPairs
    <2>2. PICK j \in D[x] : o = <<x, j>>
      BY <1>9
    <2> QED
      BY <1>7, <2>1, <2>2
  <1>13. Total(g, C) = Total(G[x], D[x])
    <2>1. \A i, j \in D[x] : c[i] = c[j] => i = j
      BY <1>9
    <2>2. \A i \in D[x] : g[c[i]] \in Int /\ G[x][i] = g[c[i]]
      BY <1>9
    <2> DEFINE S == D[x]
               h == G[x]
    <2>3. /\ IsFiniteSet(S) /\ \A i, j \in S : c[i] = c[j] => i = j
          /\ \A i \in S : g[c[i]] \in Int /\ h[i] = g[c[i]]
      BY <1>9, <2>1, <2>2
    <2> HIDE DEF c, S, h
    <2>4. Total(g, {c[i] : i \in S}) = Total(h, S)
      BY <2>3, TotalImage
    <2> QED
      BY <2>4 DEF S, h
  <1>14. \A o \in Pairs(r, D) \cup C : g[o] \in Int
    <2>1. \A o \in C : g[o] \in Int
      BY <1>9
    <2>2. ASSUME NEW o \in Pairs(r, D) PROVE g[o] \in Int
      <3>1. PICK row \in r : \E i \in D[row] : o = <<row, i>>
        BY InPairs
      <3> QED
        BY <1>7, <3>1
    <2> QED
      BY <2>1, <2>2
  <1> HIDE DEF C
  <1>15. Total(g, Pairs(s, D)) = Total(g, Pairs(r, D)) + Total(g, C)
    BY <1>8, <1>10, <1>11, <1>12, <1>14, TotalUnion
  <1>16. IsFiniteSet(Pairs(s, D))
    <2>1. IsFiniteSet(Pairs(r, D) \cup C)
      BY <1>8, <1>10, FS_Union
    <2> QED
      BY <1>11, <2>1
  <1>17. Total(g, C) \in Int /\ Total(g, Pairs(r, D)) \in Int
    BY <1>8, <1>10, <1>14, TotalInt
  <1>18. f[x] = Total(G[x], D[x])
    BY <1>9
  <1>19. Total(g, Pairs(s, D)) = Total(f, s)
    BY <1>6, <1>8, <1>13, <1>15, <1>17, <1>18
  <1> QED
    BY <1>2, <1>4, <1>16, <1>19
=============================================================================
