------------------------------- MODULE Recursion -------------------------------
(***************************************************************************)
(* Induction and recursion for proofs about functions that are defined by  *)
(* recursion over data.  What is to hold of every element is given as a    *)
(* set, a step of the recursion as a function, so that the lemmas take     *)
(* values only.  What FlattenSeq computes is an instance of that.          *)
(***************************************************************************)
EXTENDS Integers, SequencesExt, FiniteSetTheorems, WellFoundedInduction, TLAPS

\* The natural numbers in their order.
Less == {pair \in Nat \X Nat : pair[1] < pair[2]}

\* There is no infinite descent.
LEMMA LessIsWellFounded == IsWellFoundedOn(Less, Nat)
  BY NatLessThanWellFounded DEF OpToRel, Less

\* A set of natural numbers that is not empty has a least element.
LEMMA LeastNat ==
    ASSUME NEW T, T \subseteq Nat, T # {}
    PROVE  \E n \in T : \A m \in T : n <= m
  <1>1. \E x \in T : \A y \in T : ~(<<y, x>> \in Less) BY LessIsWellFounded, WFMin
  <1>2. \A x, y \in Nat : y < x => <<y, x>> \in Less BY DEF Less
  <1>3. \A x, y \in Nat : ~(y < x) => x <= y OBVIOUS
  <1> QED BY <1>1, <1>2, <1>3

\* Induction along a measure.
LEMMA MeasureInduction ==
    ASSUME NEW D, NEW m \in [D -> Nat], NEW A,
           \A x \in D : (\A y \in D : m[y] < m[x] => y \in A) => x \in A
    PROVE  \A x \in D : x \in A
  <1> DEFINE bad == {n \in Nat : \E x \in D \ A : m[x] = n}
  <1> SUFFICES ASSUME NEW z \in D, z \notin A PROVE FALSE OBVIOUS
  <1>1. bad # {} /\ bad \subseteq Nat OBVIOUS
  <1>2. PICK n \in bad : \A k \in bad : n <= k
    <2> HIDE DEF bad
    <2> QED BY <1>1, LeastNat
  <1>3. PICK x \in D \ A : m[x] = n OBVIOUS
  <1>4. ASSUME NEW y \in D, m[y] < m[x] PROVE y \in A
    <2>1. m[y] \in Nat /\ n \in Nat /\ ~(n <= m[y]) BY <1>3, <1>4
    <2>2. m[y] \notin bad BY <1>2, <2>1
    <2> QED BY <2>1, <2>2
  <1> QED BY <1>3, <1>4

\* Induction over the natural numbers.
LEMMA InductionOnNat ==
    ASSUME NEW A, 0 \in A, \A n \in Nat : n \in A => n + 1 \in A
    PROVE  \A n \in Nat : n \in A
  <1> DEFINE m == [n \in Nat |-> n]
  <1>1. m \in [Nat -> Nat] OBVIOUS
  <1>2. ASSUME NEW x \in Nat, \A y \in Nat : m[y] < m[x] => y \in A PROVE x \in A
    <2>1. CASE x = 0 BY <2>1
    <2>2. CASE x # 0
      <3>1. x - 1 \in Nat /\ x - 1 < x /\ (x - 1) + 1 = x BY <2>2
      <3>2. x - 1 \in A BY <3>1, <1>2
      <3> QED BY <3>1, <3>2
    <2> QED BY <2>1, <2>2
  <1> HIDE DEF m
  <1> QED BY <1>1, <1>2, MeasureInduction

\* Induction over finite sets: what is so of the empty set, and of a set if it is of
\* what is left without one of its elements, is so of every finite set.
LEMMA InductionOnSubsets ==
    ASSUME NEW D, IsFiniteSet(D), NEW A,
           \A S \in SUBSET D : (\A x \in S : S \ {x} \in A) => S \in A
    PROVE  \A S \in SUBSET D : S \in A
  <1> DEFINE m == [S \in SUBSET D |-> Cardinality(S)]
  <1>1. \A S \in SUBSET D : IsFiniteSet(S) /\ Cardinality(S) \in Nat BY FS_Subset, FS_CardinalityType
  <1>2. m \in [SUBSET D -> Nat] BY <1>1
  <1>3. ASSUME NEW S \in SUBSET D, \A T \in SUBSET D : m[T] < m[S] => T \in A PROVE S \in A
    <2>1. ASSUME NEW x \in S PROVE S \ {x} \in A
      <3>1. Cardinality(S \ {x}) = Cardinality(S) - 1 BY <1>1, FS_RemoveElement
      <3>2. m[S \ {x}] < m[S] BY <1>1, <3>1
      <3> QED BY <1>3, <3>2
    <2> QED BY <2>1
  <1> HIDE DEF m
  <1> QED BY <1>2, <1>3, MeasureInduction

-----------------------------------------------------------------------------
\* The first n + 1 values of a step repeated from a.
Prefix(f, S, a, step, n) ==
    f \in [0 .. n -> S] /\ f[0] = a /\ \A i \in 0 .. n - 1 : f[i + 1] = step[f[i]]

Iterates(f, S, a, step) ==
    f \in [Nat -> S] /\ f[0] = a /\ \A n \in Nat : f[n + 1] = step[f[n]]

\* A step can be repeated for ever.
LEMMA Iteration ==
    ASSUME NEW S, NEW a \in S, NEW step \in [S -> S]
    PROVE  \E f : Iterates(f, S, a, step)
  <1> DEFINE has == {n \in Nat : \E f \in [0 .. n -> S] : Prefix(f, S, a, step, n)}
  <1>1. 0 \in has
    <2>1. Prefix([i \in 0 .. 0 |-> a], S, a, step, 0) BY DEF Prefix
    <2> QED BY <2>1 DEF Prefix
  <1>2. ASSUME NEW n \in Nat, n \in has PROVE n + 1 \in has
    <2>1. PICK f \in [0 .. n -> S] : Prefix(f, S, a, step, n) BY <1>2
    <2> DEFINE g == [i \in 0 .. n + 1 |-> IF i <= n THEN f[i] ELSE step[f[n]]]
    <2>2. g \in [0 .. n + 1 -> S] BY <2>1
    <2>3. g[0] = a BY <2>1 DEF Prefix
    <2>4. \A i \in 0 .. n : g[i] = f[i] OBVIOUS
    <2>5. g[n + 1] = step[f[n]] OBVIOUS
    <2>6. ASSUME NEW i \in 0 .. (n + 1) - 1 PROVE g[i + 1] = step[g[i]]
      <3>1. CASE i = n BY <2>4, <2>5, <3>1
      <3>2. CASE i # n
        <4>1. i \in 0 .. n - 1 /\ i + 1 \in 0 .. n BY <3>2
        <4> QED BY <2>1, <2>4, <4>1 DEF Prefix
      <3> QED BY <3>1, <3>2
    <2> HIDE DEF g
    <2>7. Prefix(g, S, a, step, n + 1) BY <2>2, <2>3, <2>6 DEF Prefix
    <2> QED BY <2>2, <2>7
  <1> HIDE DEF has
  <1>3. \A n \in Nat : n \in has BY <1>1, <1>2, InductionOnNat
  <1>4. \A n \in Nat : \E f \in [0 .. n -> S] : Prefix(f, S, a, step, n) BY <1>3 DEF has
  <1> DEFINE pick(n) == CHOOSE f \in [0 .. n -> S] : Prefix(f, S, a, step, n)
  <1>5. \A n \in Nat : pick(n) \in [0 .. n -> S] /\ Prefix(pick(n), S, a, step, n) BY <1>4
  <1> HIDE DEF pick
  <1>6. ASSUME NEW k \in Nat PROVE \A n \in Nat : n <= k => pick(k)[n] = pick(n)[n]
    <2>1. ASSUME NEW l \in Nat, l <= k PROVE \A n \in Nat : n <= l => pick(k)[n] = pick(l)[n]
      <3> DEFINE same == {n \in Nat : n <= l => pick(k)[n] = pick(l)[n]}
      <3>1. 0 \in same BY <1>5 DEF Prefix
      <3>2. ASSUME NEW n \in Nat, n \in same PROVE n + 1 \in same
        <4> SUFFICES ASSUME n + 1 <= l PROVE pick(k)[n + 1] = pick(l)[n + 1] OBVIOUS
        <4>1. pick(k)[n] = pick(l)[n] BY <3>2
        <4>2. n \in 0 .. l - 1 /\ n \in 0 .. k - 1 BY <2>1
        <4> QED BY <1>5, <4>1, <4>2 DEF Prefix
      <3> HIDE DEF same
      <3>3. \A n \in Nat : n \in same BY <3>1, <3>2, InductionOnNat
      <3> QED BY <3>3 DEF same
    <2> QED BY <2>1
  <1> DEFINE h == [n \in Nat |-> pick(n)[n]]
  <1>7. h \in [Nat -> S] BY <1>5
  <1>8. h[0] = a BY <1>5 DEF Prefix
  <1>9. ASSUME NEW n \in Nat PROVE h[n + 1] = step[h[n]]
    <2>1. n \in 0 .. (n + 1) - 1 /\ n + 1 \in Nat OBVIOUS
    <2>2. pick(n + 1)[n + 1] = step[pick(n + 1)[n]] BY <1>5, <2>1 DEF Prefix
    <2>3. pick(n + 1)[n] = pick(n)[n] BY <1>6, <2>1
    <2> QED BY <2>1, <2>2, <2>3
  <1> HIDE DEF h
  <1> QED BY <1>7, <1>8, <1>9 DEF Iterates

\* step takes an approximation of a function to a better one: the new value at x
\* depends only on values at points of a smaller measure.
IsRecursive(step, D, R, m) ==
    /\ R # {} /\ m \in [D -> Nat]
    /\ step \in [[D -> R] -> [D -> R]]
    /\ \A g, h \in [D -> R], x \in D :
            (\A y \in D : m[y] < m[x] => g[y] = h[y]) => step[g][x] = step[h][x]

\* A function that is defined by such a recursion exists.
LEMMA RecursiveFunction ==
    ASSUME NEW D, NEW R, NEW m, NEW step, IsRecursive(step, D, R, m)
    PROVE  \E f : f \in [D -> R] /\ f = step[f]
  <1> USE DEF IsRecursive
  <1>1. PICK r \in R : TRUE OBVIOUS
  <1> DEFINE a == [x \in D |-> r]
  <1>2. a \in [D -> R] BY <1>1
  <1>3. PICK F : F \in [Nat -> [D -> R]] /\ F[0] = a /\ \A n \in Nat : F[n + 1] = step[F[n]]
    <2> HIDE DEF a
    <2>1. \E F : Iterates(F, [D -> R], a, step) BY <1>2, Iteration
    <2> QED BY <2>1 DEF Iterates
  <1> DEFINE settled == {n \in Nat : \A x \in D, k \in Nat : m[x] < n /\ n <= k => F[k][x] = F[n][x]}
  <1>4. 0 \in settled
    <2>1. \A x \in D : m[x] \in Nat /\ ~(m[x] < 0) OBVIOUS
    <2> QED BY <2>1
  <1>5. ASSUME NEW n \in Nat, n \in settled PROVE n + 1 \in settled
    <2> SUFFICES ASSUME NEW x \in D, NEW k \in Nat, m[x] < n + 1, n + 1 <= k
                 PROVE  F[k][x] = F[n + 1][x]
      OBVIOUS
    <2>1. k - 1 \in Nat /\ n <= k - 1 /\ (k - 1) + 1 = k OBVIOUS
    <2>2. \A y \in D : m[y] < m[x] => F[k - 1][y] = F[n][y]
      <3> TAKE y \in D
      <3> HAVE m[y] < m[x]
      <3>1. m[y] \in Nat /\ m[x] \in Nat OBVIOUS
      <3>2. m[y] < n BY <3>1
      <3> QED BY <1>5, <2>1, <3>2
    <2> DEFINE g == F[k - 1]
               h == F[n]
    <2>3. g \in [D -> R] /\ h \in [D -> R] BY <1>3, <2>1
    <2>4. \A y \in D : m[y] < m[x] => g[y] = h[y] BY <2>2
    <2> HIDE DEF g, h
    <2>5. step[g][x] = step[h][x] BY <2>3, <2>4
    <2>6. step[F[k - 1]][x] = step[F[n]][x] BY <2>5 DEF g, h
    <2> QED BY <1>3, <2>1, <2>6
  <1>6. \A n \in Nat : n \in settled
    <2> HIDE DEF settled
    <2> QED BY <1>4, <1>5, InductionOnNat
  <1> DEFINE f == [x \in D |-> F[m[x] + 1][x]]
  <1>7. f \in [D -> R] BY <1>3
  <1>8. ASSUME NEW x \in D PROVE f[x] = step[f][x]
    <2>1. m[x] \in Nat OBVIOUS
    <2>2. \A y \in D : m[y] < m[x] => f[y] = F[m[x]][y]
      <3> TAKE y \in D
      <3> HAVE m[y] < m[x]
      <3>1. m[y] + 1 \in Nat /\ m[y] < m[y] + 1 /\ m[y] + 1 <= m[x] BY <2>1
      <3>2. \A n, k \in Nat : m[y] < n /\ n <= k => F[k][y] = F[n][y] BY <1>6
      <3>3. F[m[x]][y] = F[m[y] + 1][y] BY <2>1, <3>1, <3>2
      <3> QED BY <3>3
    <2> HIDE DEF f
    <2> DEFINE g == F[m[x]]
    <2>3. g \in [D -> R] /\ \A y \in D : m[y] < m[x] => f[y] = g[y] BY <1>3, <2>1, <2>2
    <2> HIDE DEF g
    <2>4. step[f][x] = step[g][x] BY <1>7, <2>3
    <2> QED BY <1>3, <2>1, <2>4 DEF f, g
  <1> HIDE DEF f
  <1>9. f = step[f] BY <1>7, <1>8
  <1> QED BY <1>7, <1>9

\* f begins with a, and each step has a function of its own.
Steps(f, N, R, a, step) == f \in [0 .. N -> R] /\ f[0] = a /\ \A n \in 1 .. N : f[n] = step[n][f[n - 1]]

\* A function that is defined by a recursion on a number exists.
LEMMA CountedRecursion ==
    ASSUME NEW N \in Nat, NEW R, NEW a \in R, NEW step \in [1 .. N -> [R -> R]]
    PROVE  \E f : Steps(f, N, R, a, step)
  <1> DEFINE D == 0 .. N
             m == [n \in D |-> n]
             better == [g \in [D -> R] |-> [n \in D |-> IF n = 0 THEN a ELSE step[n][g[n - 1]]]]
  <1>1. R # {} /\ m \in [D -> Nat] OBVIOUS
  <1>2. \A n \in 1 .. N : n \in D /\ n - 1 \in D /\ n - 1 < n /\ n # 0 OBVIOUS
  <1>3. \A n \in D : n = 0 \/ n \in 1 .. N OBVIOUS
  <1>4. \A n \in 1 .. N : \A r \in R : step[n][r] \in R OBVIOUS
  <1>5. 0 \in D /\ \A n \in D : m[n] = n OBVIOUS
  <1> HIDE DEF D, m
  <1>6. better \in [[D -> R] -> [D -> R]] BY <1>2, <1>3, <1>4
  <1>7. ASSUME NEW g \in [D -> R], NEW h \in [D -> R], NEW n \in D, \A y \in D : m[y] < m[n] => g[y] = h[y]
        PROVE  better[g][n] = better[h][n]
    <2>1. CASE n = 0 BY <2>1
    <2>2. CASE n # 0
      <3>1. g[n - 1] = h[n - 1] BY <1>2, <1>3, <1>5, <1>7, <2>2
      <3> QED BY <3>1
    <2> QED BY <2>1, <2>2
  <1>8. \A g \in [D -> R] : better[g] = [n \in D |-> IF n = 0 THEN a ELSE step[n][g[n - 1]]] OBVIOUS
  <1> HIDE DEF better
  <1>9. IsRecursive(better, D, R, m) BY <1>1, <1>6, <1>7 DEF IsRecursive
  <1>10. PICK f : f \in [D -> R] /\ f = better[f] BY <1>9, RecursiveFunction
  <1>11. f = [n \in D |-> IF n = 0 THEN a ELSE step[n][f[n - 1]]] BY <1>8, <1>10
  <1>12. f[0] = a /\ \A n \in 1 .. N : f[n] = step[n][f[n - 1]] BY <1>2, <1>5, <1>11
  <1> QED BY <1>10, <1>12 DEF D, Steps
-----------------------------------------------------------------------------
(* The concatenation of sequences                                          *)

\* The concatenations of more and more of the sequences.
Flattens(f, seqs, R) ==
    /\ f \in [1 .. Len(seqs) -> R]
    /\ \A i \in 1 .. Len(seqs) : f[i] = IF i = 1 THEN seqs[i] ELSE f[i - 1] \o seqs[i]
    /\ FlattenSeq(seqs) = f[Len(seqs)]

\* FlattenSeq is the last of them.
LEMMA FlattenIs ==
    ASSUME NEW X, NEW seqs \in Seq(Seq(X)), seqs # <<>>
    PROVE  \E f : Flattens(f, seqs, Seq(X))
  <1> DEFINE n == Len(seqs)
             R == Seq(X)
             m == [i \in 1 .. n |-> i]
             step == [g \in [1 .. n -> R] |-> [i \in 1 .. n |-> IF i = 1 THEN seqs[i] ELSE g[i - 1] \o seqs[i]]]
             flatten == CHOOSE f : f = [i \in 1 .. n |-> IF i = 1 THEN seqs[i] ELSE f[i - 1] \o seqs[i]]
  <1>1. n \in Nat /\ n # 0 /\ \A i \in 1 .. n : seqs[i] \in R OBVIOUS
  <1>2. FlattenSeq(seqs) = flatten[n] BY <1>1 DEF FlattenSeq
  <1>3. <<>> \in R /\ \A x, y \in R : x \o y \in R OBVIOUS
  <1> HIDE DEF R
  <1>4. \A i \in 1 .. n : i # 1 => i - 1 \in 1 .. n /\ i - 1 < i BY <1>1
  <1>5. m \in [1 .. n -> Nat] /\ \A i \in 1 .. n : m[i] = i BY <1>1
  <1> HIDE DEF m
  <1>6. step \in [[1 .. n -> R] -> [1 .. n -> R]]
    <2>1. ASSUME NEW g \in [1 .. n -> R], NEW i \in 1 .. n
          PROVE  (IF i = 1 THEN seqs[i] ELSE g[i - 1] \o seqs[i]) \in R
      BY <1>1, <1>3, <1>4
    <2> QED BY <2>1
  <1>7. ASSUME NEW g \in [1 .. n -> R], NEW h \in [1 .. n -> R], NEW i \in 1 .. n,
               \A j \in 1 .. n : m[j] < m[i] => g[j] = h[j]
        PROVE  step[g][i] = step[h][i]
    BY <1>4, <1>5, <1>7
  <1> HIDE DEF step, n
  <1> DEFINE D == 1 .. n
  <1>8. IsRecursive(step, D, R, m) BY <1>3, <1>5, <1>6, <1>7 DEF IsRecursive
  <1>9. PICK f : f \in [D -> R] /\ f = step[f]
    <2> HIDE DEF D
    <2> QED BY <1>8, RecursiveFunction
  <1>10. \E g : g = [i \in 1 .. n |-> IF i = 1 THEN seqs[i] ELSE g[i - 1] \o seqs[i]] BY <1>9 DEF step
  <1>11. flatten = [i \in 1 .. n |-> IF i = 1 THEN seqs[i] ELSE flatten[i - 1] \o seqs[i]] BY <1>10
  <1> HIDE DEF flatten
  <1>12. \A i \in 1 .. n : flatten[i] = IF i = 1 THEN seqs[i] ELSE flatten[i - 1] \o seqs[i] BY <1>11
  <1> DEFINE in == {k \in Nat : k \in 1 .. n => flatten[k] \in R}
  <1>13. 0 \in in OBVIOUS
  <1>14. ASSUME NEW k \in Nat, k \in in PROVE k + 1 \in in
    <2> SUFFICES ASSUME k + 1 \in 1 .. n PROVE flatten[k + 1] \in R OBVIOUS
    <2>1. CASE k = 0 BY <1>1, <1>12, <2>1
    <2>2. CASE k # 0
      <3>1. k \in 1 .. n /\ (k + 1) - 1 = k /\ k + 1 # 1 BY <1>1, <2>2
      <3>2. flatten[k] \in R BY <1>14, <3>1
      <3> QED BY <1>1, <1>3, <1>12, <3>1, <3>2
    <2> QED BY <2>1, <2>2
  <1>15. \A k \in Nat : k \in in
    <2> HIDE DEF in
    <2> QED BY <1>13, <1>14, InductionOnNat
  <1>16. \A k \in 1 .. n : flatten[k] \in R BY <1>1, <1>15
  <1>17. flatten \in [1 .. n -> R] BY <1>11, <1>16
  <1>18. Flattens(flatten, seqs, R) BY <1>2, <1>12, <1>17 DEF Flattens, n
  <1> QED BY <1>18 DEF R

\* One more sequence is added to the end.
LEMMA FlattenGrows ==
    ASSUME NEW X, NEW seqs \in Seq(Seq(X)), NEW x \in Seq(X)
    PROVE  FlattenSeq(Append(seqs, x)) = FlattenSeq(seqs) \o x
  <1> DEFINE n == Len(seqs)
             longer == Append(seqs, x)
  <1>1. /\ n \in Nat /\ longer \in Seq(Seq(X)) /\ longer # <<>> /\ Len(longer) = n + 1
        /\ longer[n + 1] = x /\ \A i \in 1 .. n : longer[i] = seqs[i] /\ i \in 1 .. n + 1
    <2> DEFINE R == Seq(X)
    <2>1. seqs \in Seq(R) /\ x \in R OBVIOUS
    <2> HIDE DEF R
    <2>2. /\ n \in Nat /\ longer \in Seq(R) /\ Len(longer) = n + 1
          /\ longer[n + 1] = x /\ \A i \in 1 .. n : longer[i] = seqs[i] /\ i \in 1 .. n + 1
      BY <2>1
    <2>3. longer # <<>> BY <2>1
    <2> QED BY <2>2, <2>3 DEF R
  <1>2. PICK g : Flattens(g, longer, Seq(X))
    <2> HIDE DEF longer
    <2> QED BY <1>1, FlattenIs
  <1> HIDE DEF longer
  <1>3. /\ n + 1 \in 1 .. n + 1
        /\ \A i \in 1 .. n + 1 : g[i] = IF i = 1 THEN longer[i] ELSE g[i - 1] \o longer[i]
        /\ FlattenSeq(longer) = g[n + 1]
    BY <1>1, <1>2 DEF Flattens
  <1>4. CASE n = 0
    <2>1. seqs = <<>> BY <1>4
    <2>2. FlattenSeq(seqs) = <<>> BY <2>1 DEF FlattenSeq
    <2>3. FlattenSeq(longer) = x BY <1>1, <1>3, <1>4
    <2> QED BY <2>2, <2>3 DEF longer
  <1>5. CASE n # 0
    <2>1. seqs # <<>> BY <1>5
    <2>2. PICK f : Flattens(f, seqs, Seq(X)) BY <2>1, FlattenIs
    <2>3. /\ \A i \in 1 .. n : f[i] = IF i = 1 THEN seqs[i] ELSE f[i - 1] \o seqs[i]
          /\ FlattenSeq(seqs) = f[n]
      BY <2>2 DEF Flattens
    <2> DEFINE same == {k \in Nat : k \in 1 .. n => f[k] = g[k]}
    <2>4. 0 \in same OBVIOUS
    <2>5. ASSUME NEW k \in Nat, k \in same PROVE k + 1 \in same
      <3> SUFFICES ASSUME k + 1 \in 1 .. n PROVE f[k + 1] = g[k + 1] OBVIOUS
      <3>1. k + 1 \in 1 .. n + 1 /\ longer[k + 1] = seqs[k + 1] BY <1>1
      <3>2. CASE k = 0 BY <1>3, <2>3, <3>1, <3>2
      <3>3. CASE k # 0
        <4>1. k \in 1 .. n /\ (k + 1) - 1 = k /\ k + 1 # 1 BY <1>1, <3>3
        <4>2. f[k] = g[k] BY <2>5, <4>1
        <4>3. f[k + 1] = f[k] \o seqs[k + 1] BY <2>3, <4>1
        <4>4. g[k + 1] = g[k] \o longer[k + 1] BY <1>3, <3>1, <4>1
        <4> QED BY <3>1, <4>2, <4>3, <4>4
      <3> QED BY <3>2, <3>3
    <2>6. \A k \in Nat : k \in same
      <3> HIDE DEF same
      <3> QED BY <2>4, <2>5, InductionOnNat
    <2>7. n \in 1 .. n /\ (n + 1) - 1 = n /\ n + 1 # 1 BY <1>1, <1>5
    <2>8. f[n] = g[n] BY <1>1, <2>6, <2>7
    <2>9. g[n + 1] = g[n] \o x BY <1>1, <1>3, <2>7
    <2> QED BY <1>3, <2>3, <2>8, <2>9 DEF longer
  <1> QED BY <1>4, <1>5
=============================================================================
