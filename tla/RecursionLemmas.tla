--------------------------- MODULE RecursionLemmas ---------------------------
(***************************************************************************)
(* Induction over the natural numbers in first-order form, and the loops   *)
(* of the program as recursive functions: a loop that runs from 1 to n and *)
(* computes its next state from the state before and the counter has       *)
(* exactly one result.                                                     *)
(***************************************************************************)
EXTENDS Integers, Sequences, WellFoundedInduction, TLAPS

(* A set of natural numbers that is not empty has a least element.  Used    *)
(* with the set of counterexamples this is induction.                       *)
LEMMA Least ==
  ASSUME NEW T \in SUBSET Nat, T # {}
  PROVE  \E m \in T : \A k \in T : m <= k
<1> DEFINE R == OpToRel(<, Nat)
<1>1. \A x, y \in Nat : x < y => <<x, y>> \in R
  BY DEF OpToRel
<1>2. IsWellFoundedOn(R, Nat)
  BY NatLessThanWellFounded
<1> HIDE DEF R
<1>3. PICK m \in T : \A k \in T : ~(<<k, m>> \in R)
  BY <1>2, WFMin
<1>4. \A k \in T : k \in Nat /\ ~(k < m)
  BY <1>1, <1>3
<1>5. m \in Nat
  OBVIOUS
<1>6. \A k \in T : m <= k
  BY <1>4, <1>5
<1> QED BY <1>6

(* Induction up to n, for a set instead of a predicate. *)
LEMMA Induction ==
  ASSUME NEW n \in Nat, NEW T, 0 \in T, \A k \in 1 .. n : k - 1 \in T => k \in T
  PROVE  \A k \in 0 .. n : k \in T
<1> SUFFICES ASSUME NEW x \in 0 .. n, x \notin T
             PROVE  FALSE
  OBVIOUS
<1> DEFINE bad == {k \in 0 .. n : k \notin T}
<1>1. bad \in SUBSET Nat /\ bad # {}
  OBVIOUS
<1>2. PICK m \in bad : \A k \in bad : m <= k
  BY <1>1, Least
<1>3. m \in 1 .. n /\ m - 1 \in 0 .. n /\ m - 1 < m
  BY <1>2
<1>4. m - 1 \notin bad
  BY <1>2, <1>3
<1> QED BY <1>2, <1>3, <1>4

(* g is what a loop from 1 to n goes through, from state a on with step F. *)
IsLoop(g, n, a, F) == g[0] = a /\ \A k \in 1 .. n : g[k] = F[k][g[k - 1]]

(* A loop has a result ... *)
LEMMA LoopExists ==
  ASSUME NEW n \in Nat, NEW S, NEW a \in S, NEW F \in [1 .. n -> [S -> S]]
  PROVE  \E g \in [0 .. n -> S] : IsLoop(g, n, a, F)
<1> DEFINE T == {m \in 0 .. n : \E g \in [0 .. m -> S] : IsLoop(g, m, a, F)}
<1>1. 0 \in T
  <2>1. [k \in 0 .. 0 |-> a] \in [0 .. 0 -> S] /\ IsLoop([k \in 0 .. 0 |-> a], 0, a, F)
    BY DEF IsLoop
  <2> QED BY <2>1
<1>2. ASSUME NEW m \in 1 .. n, m - 1 \in T
      PROVE  m \in T
  <2>1. PICK g \in [0 .. m - 1 -> S] : IsLoop(g, m - 1, a, F)
    BY <1>2
  <2> DEFINE h == [k \in 0 .. m |-> IF k = m THEN F[m][g[m - 1]] ELSE g[k]]
  <2>2. m - 1 \in 0 .. m - 1 /\ g[m - 1] \in S /\ F[m][g[m - 1]] \in S
    BY <1>2, <2>1
  <2>3. h \in [0 .. m -> S]
    BY <1>2, <2>1, <2>2
  <2>4. h[0] = a
    BY <1>2, <2>1 DEF IsLoop
  <2>5. ASSUME NEW k \in 1 .. m
        PROVE  h[k] = F[k][h[k - 1]]
    <3>1. CASE k = m
      BY <1>2, <2>2, <3>1
    <3>2. CASE k # m
      <4>1. k \in 1 .. m - 1 /\ k - 1 \in 0 .. m /\ k - 1 # m /\ k \in 0 .. m
        BY <1>2, <3>2
      <4>2. h[k] = g[k] /\ h[k - 1] = g[k - 1]
        BY <3>2, <4>1
      <4> QED BY <2>1, <4>1, <4>2 DEF IsLoop
    <3> QED BY <3>1, <3>2
  <2>6. IsLoop(h, m, a, F)
    BY <2>4, <2>5 DEF IsLoop
  <2> HIDE DEF h
  <2> QED BY <2>3, <2>6
<1> HIDE DEF T
<1>3. n \in T
  <2>1. \A k \in 0 .. n : k \in T
    BY <1>1, <1>2, Induction
  <2> QED BY <2>1
<1> QED BY <1>3 DEF T

(* ... and only one. *)
LEMMA LoopUnique ==
  ASSUME NEW n \in Nat, NEW a, NEW F, NEW g, NEW h,
         IsLoop(g, n, a, F), IsLoop(h, n, a, F)
  PROVE  \A k \in 0 .. n : g[k] = h[k]
<1> DEFINE T == {k \in 0 .. n : g[k] = h[k]}
<1>1. 0 \in T
  BY DEF IsLoop
<1>2. ASSUME NEW k \in 1 .. n, k - 1 \in T
      PROVE  k \in T
  BY <1>2 DEF IsLoop
<1> HIDE DEF T
<1>3. \A k \in 0 .. n : k \in T
  BY <1>1, <1>2, Induction
<1> QED BY <1>3 DEF T

(* F computes the value at i from values at larger arguments. *)
LooksUp(F, n, S) ==
  /\ F \in [1 .. n -> [[1 .. n -> S] -> S]]
  /\ \A i \in 1 .. n : \A x, y \in [1 .. n -> S] :
       (\A j \in i + 1 .. n : x[j] = y[j]) => F[i][x] = F[i][y]

(* Recursion from n down to 1: there is a function that F defines. *)
LEMMA DownExists ==
  ASSUME NEW n \in Nat, NEW S, NEW a \in S, NEW F, LooksUp(F, n, S)
  PROVE  \E g \in [1 .. n -> S] : \A i \in 1 .. n : g[i] = F[i][g]
<1>0. /\ F \in [1 .. n -> [[1 .. n -> S] -> S]]
      /\ \A i \in 1 .. n : \A x, y \in [1 .. n -> S] :
           (\A j \in i + 1 .. n : x[j] = y[j]) => F[i][x] = F[i][y]
  BY DEF LooksUp
<1> DEFINE X == [1 .. n -> S]
           at(k) == n + 1 - k
           G == [k \in 1 .. n |-> [x \in X |-> [x EXCEPT ![at(k)] = F[at(k)][x]]]]
<1>1. \A k \in 1 .. n : at(k) \in 1 .. n /\ at(k) \in Int
  OBVIOUS
<1>2. \A k \in 1 .. n : \A x \in X : F[at(k)][x] \in S
  BY <1>0, <1>1
<1>3. G \in [1 .. n -> [X -> X]]
  BY <1>1, <1>2
<1>4. ASSUME NEW k \in 1 .. n, NEW x \in X
      PROVE  /\ G[k][x] \in X /\ G[k][x][at(k)] = F[at(k)][x]
             /\ \A j \in 1 .. n : j # at(k) => G[k][x][j] = x[j]
  <2>1. G[k][x] = [x EXCEPT ![at(k)] = F[at(k)][x]]
    OBVIOUS
  <2>2. at(k) \in 1 .. n /\ F[at(k)][x] \in S
    BY <1>1, <1>2
  <2> HIDE DEF G, at
  <2> QED BY <2>1, <2>2
<1>5. [j \in 1 .. n |-> a] \in X
  OBVIOUS
<1> HIDE DEF G
<1>6. PICK g \in [0 .. n -> X] : IsLoop(g, n, [j \in 1 .. n |-> a], G)
  BY <1>3, <1>5, LoopExists
<1> DEFINE T == {k \in 0 .. n : \A i \in 1 .. n : i > n - k => g[k][i] = F[i][g[k]]}
<1>7. 0 \in T
  OBVIOUS
<1>8. ASSUME NEW k \in 1 .. n, k - 1 \in T
      PROVE  k \in T
  <2> DEFINE x == g[k - 1]
             y == g[k]
  <2>1. k \in 0 .. n /\ k - 1 \in 0 .. n /\ x \in X /\ y \in X
    BY <1>6
  <2>2. y = G[k][x]
    BY <1>6 DEF IsLoop
  <2>3. y[at(k)] = F[at(k)][x] /\ \A j \in 1 .. n : j # at(k) => y[j] = x[j]
    BY <1>4, <2>1, <2>2
  <2>4. \A i \in 1 .. n : i > n - (k - 1) => x[i] = F[i][x]
    BY <1>8
  <2> HIDE DEF x, y
  <2>5. ASSUME NEW i \in 1 .. n, i > n - k
        PROVE  y[i] = F[i][y]
    <3>1. \A j \in i + 1 .. n : j \in 1 .. n /\ j # at(k)
      BY <2>5
    <3>2. \A j \in i + 1 .. n : x[j] = y[j]
      BY <2>3, <3>1
    <3>3. F[i][x] = F[i][y]
      BY <1>0, <2>1, <3>2
    <3>4. CASE i = at(k)
      BY <2>3, <3>3, <3>4
    <3>5. CASE i # at(k)
      <4>1. i > n - (k - 1)
        BY <2>5, <3>5
      <4> QED BY <2>3, <2>4, <3>3, <3>5, <4>1
    <3> QED BY <3>4, <3>5
  <2> QED BY <2>1, <2>5 DEF y
<1> HIDE DEF T
<1>9. n \in T
  <2>1. \A k \in 0 .. n : k \in T
    BY <1>7, <1>8, Induction
  <2> QED BY <2>1
<1>10. \A i \in 1 .. n : g[n][i] = F[i][g[n]]
  BY <1>9 DEF T
<1>11. g[n] \in X
  BY <1>6
<1> QED BY <1>10, <1>11
=============================================================================
