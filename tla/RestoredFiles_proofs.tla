------------------------ MODULE RestoredFiles_proofs ------------------------
EXTENDS RestoredFiles, Recursion

-----------------------------------------------------------------------------
(* Paths and their order                                                   *)

\* The first elements of a path.
LEMMA PartIs ==
    ASSUME NEW p \in Paths, NEW n \in 0 .. Len(p)
    PROVE  SubSeq(p, 1, n) \in Paths /\ Len(SubSeq(p, 1, n)) = n /\ \A i \in 1 .. n : SubSeq(p, 1, n)[i] = p[i]
  BY DEF Paths

\* Two paths are equal if they are so at each place.
LEMMA PathsEqual ==
    ASSUME NEW p \in Paths, NEW q \in Paths, Len(p) = Len(q), \A i \in 1 .. Len(p) : p[i] = q[i]
    PROVE  p = q
  BY DEF Paths

\* What it means, place by place, that a path is the beginning of another one.
LEMMA PrefixIs ==
    ASSUME NEW p \in Paths, NEW q \in Paths
    PROVE  IsPrefix(p, q) <=> (Len(p) <= Len(q) /\ \A i \in 1 .. Len(p) : p[i] = q[i])
  <1>1. Len(p) \in Nat /\ Len(q) \in Nat BY DEF Paths
  <1>2. CASE ~(Len(p) <= Len(q)) BY <1>2 DEF IsPrefix
  <1>3. CASE Len(p) <= Len(q)
    <2> DEFINE a == SubSeq(p, 1, Len(p))
               b == SubSeq(q, 1, Len(p))
    <2>1. Len(p) \in 0 .. Len(p) /\ Len(p) \in 0 .. Len(q) BY <1>1, <1>3
    <2>2. a \in Paths /\ Len(a) = Len(p) /\ \A i \in 1 .. Len(p) : a[i] = p[i] BY <2>1, PartIs
    <2>3. b \in Paths /\ Len(b) = Len(p) /\ \A i \in 1 .. Len(p) : b[i] = q[i] BY <2>1, PartIs
    <2>4. IsPrefix(p, q) <=> (a = b) BY <1>3 DEF IsPrefix
    <2> HIDE DEF a, b
    <2>5. (a = b) <=> \A i \in 1 .. Len(p) : a[i] = b[i] BY <2>2, <2>3, PathsEqual
    <2> QED BY <1>3, <2>2, <2>3, <2>4, <2>5
  <1> QED BY <1>2, <1>3

\* Beginnings of beginnings.
LEMMA PrefixOrder ==
    /\ \A p \in Paths : IsPrefix(p, p)
    /\ \A p, q \in Paths : IsPrefix(p, q) /\ IsPrefix(q, p) => p = q
    /\ \A p, q, r \in Paths : IsPrefix(p, q) /\ IsPrefix(q, r) => IsPrefix(p, r)
    /\ \A p, q, r \in Paths : IsPrefix(p, r) /\ IsPrefix(q, r) => IsPrefix(p, q) \/ IsPrefix(q, p)
  <1>1. \A p \in Paths : Len(p) \in Nat BY DEF Paths
  <1>2. \A p \in Paths : IsPrefix(p, p) BY <1>1, PrefixIs
  <1>3. ASSUME NEW p \in Paths, NEW q \in Paths, IsPrefix(p, q), IsPrefix(q, p) PROVE p = q
    <2>1. Len(p) = Len(q) BY <1>1, <1>3, PrefixIs
    <2> QED BY <1>3, <2>1, PrefixIs, PathsEqual
  <1>4. ASSUME NEW p \in Paths, NEW q \in Paths, NEW r \in Paths, IsPrefix(p, q), IsPrefix(q, r) PROVE IsPrefix(p, r)
    <2>1. Len(p) <= Len(q) /\ Len(q) <= Len(r) /\ (\A i \in 1 .. Len(p) : p[i] = q[i]) /\ \A i \in 1 .. Len(q) : q[i] = r[i]
      BY <1>4, PrefixIs
    <2>2. Len(p) <= Len(r) /\ \A i \in 1 .. Len(p) : p[i] = r[i] BY <1>1, <2>1
    <2> QED BY <2>2, PrefixIs
  <1>5. ASSUME NEW p \in Paths, NEW q \in Paths, NEW r \in Paths, IsPrefix(p, r), IsPrefix(q, r), Len(p) <= Len(q)
        PROVE  IsPrefix(p, q)
    <2>1. (\A i \in 1 .. Len(p) : p[i] = r[i]) /\ \A i \in 1 .. Len(q) : q[i] = r[i]
      BY <1>5, PrefixIs
    <2>2. \A i \in 1 .. Len(p) : p[i] = q[i] BY <1>1, <1>5, <2>1
    <2> QED BY <1>5, <2>2, PrefixIs
  <1>6. \A p, q \in Paths : Len(p) <= Len(q) \/ Len(q) <= Len(p) BY <1>1
  <1> QED BY <1>2, <1>3, <1>4, <1>5, <1>6

\* The directories above a path.
LEMMA AncestorsAre ==
    ASSUME NEW p \in Paths
    PROVE  Ancestors(p) = {a \in Paths : IsPrefix(a, p) /\ a # p}
  <1>1. Len(p) \in Nat BY DEF Paths
  <1>2. ASSUME NEW n \in 0 .. Len(p) - 1
        PROVE  SubSeq(p, 1, n) \in Paths /\ IsPrefix(SubSeq(p, 1, n), p) /\ SubSeq(p, 1, n) # p
    <2>1. n \in 0 .. Len(p) /\ n <= Len(p) /\ n # Len(p) BY <1>1
    <2>2. SubSeq(p, 1, n) \in Paths /\ Len(SubSeq(p, 1, n)) = n /\ \A i \in 1 .. n : SubSeq(p, 1, n)[i] = p[i] BY <2>1, PartIs
    <2>3. IsPrefix(SubSeq(p, 1, n), p) BY <2>1, <2>2, PrefixIs
    <2> QED BY <2>1, <2>2, <2>3
  <1>3. ASSUME NEW a \in Paths, IsPrefix(a, p), a # p
        PROVE  Len(a) \in 0 .. Len(p) - 1 /\ a = SubSeq(p, 1, Len(a))
    <2>1. Len(a) <= Len(p) /\ \A i \in 1 .. Len(a) : a[i] = p[i] BY <1>3, PrefixIs
    <2>2. Len(a) # Len(p) BY <1>3, <2>1, PathsEqual
    <2>3. Len(a) \in 0 .. Len(p) - 1 /\ Len(a) \in 0 .. Len(p) BY <1>1, <2>1, <2>2 DEF Paths
    <2>4. SubSeq(p, 1, Len(a)) \in Paths /\ Len(SubSeq(p, 1, Len(a))) = Len(a)
          /\ \A i \in 1 .. Len(a) : SubSeq(p, 1, Len(a))[i] = p[i]
      BY <2>3, PartIs
    <2> QED BY <2>1, <2>3, <2>4, PathsEqual
  <1>4. Ancestors(p) \subseteq {a \in Paths : IsPrefix(a, p) /\ a # p} BY <1>2 DEF Ancestors
  <1>5. {a \in Paths : IsPrefix(a, p) /\ a # p} \subseteq Ancestors(p) BY <1>3 DEF Ancestors
  <1> QED BY <1>4, <1>5

\* The directory a path is in.
LEMMA FrontIs ==
    ASSUME NEW p \in Paths, p # <<>>
    PROVE  /\ Front(p) \in Ancestors(p) /\ Front(p) \in Paths /\ Len(Front(p)) = Len(p) - 1
           /\ \A a \in Ancestors(p) : IsPrefix(a, Front(p))
  <1>1. Len(p) \in Nat /\ Len(p) # 0 BY DEF Paths
  <1>2. Len(p) - 1 \in 0 .. Len(p) - 1 /\ Len(p) - 1 \in 0 .. Len(p) BY <1>1
  <1>3. Front(p) = SubSeq(p, 1, Len(p) - 1) BY DEF Front
  <1>4. Front(p) \in Paths /\ Len(Front(p)) = Len(p) - 1 /\ \A i \in 1 .. Len(p) - 1 : Front(p)[i] = p[i]
    BY <1>2, <1>3, PartIs
  <1>5. Front(p) \in Ancestors(p) BY <1>2, <1>3 DEF Ancestors
  <1>6. ASSUME NEW a \in Ancestors(p) PROVE IsPrefix(a, Front(p))
    <2>1. a \in Paths /\ IsPrefix(a, p) /\ a # p BY AncestorsAre
    <2>2. Len(a) <= Len(p) /\ (\A i \in 1 .. Len(a) : a[i] = p[i]) /\ Len(a) \in Nat BY <2>1, PrefixIs DEF Paths
    <2>3. Len(a) # Len(p) BY <2>1, <2>2, PathsEqual
    <2>4. Len(a) <= Len(p) - 1 /\ \A i \in 1 .. Len(a) : i \in 1 .. Len(p) - 1 BY <1>1, <2>2, <2>3
    <2>5. \A i \in 1 .. Len(a) : a[i] = Front(p)[i] BY <1>4, <2>2, <2>4
    <2> QED BY <1>4, <2>1, <2>4, <2>5, PrefixIs
  <1> QED BY <1>4, <1>5, <1>6

\* The first place where p and q differ is n.
Differ(p, q, n) == n \in 1 .. Len(p) /\ n <= Len(q) /\ p[n] # q[n] /\ \A i \in 1 .. n - 1 : p[i] = q[i]

\* What it means, place by place, that a path comes before another one.
LEMMA LexicographicIs ==
    ASSUME NEW p \in Paths, NEW q \in Paths
    PROVE  Lexicographic(p, q) <=> ((IsPrefix(p, q) /\ p # q) \/ \E n \in Nat : Differ(p, q, n) /\ p[n] < q[n])
  <1>1. Len(p) \in Nat /\ Len(q) \in Nat /\ (\A i \in 1 .. Len(p) : p[i] \in Nat) /\ \A i \in 1 .. Len(q) : q[i] \in Nat
    BY DEF Paths
  <1>2. ASSUME NEW n \in 1 .. Len(p), n <= Len(q)
        PROVE  (SubSeq(p, 1, n - 1) = SubSeq(q, 1, n - 1) /\ p[n] < q[n]) <=> (Differ(p, q, n) /\ p[n] < q[n])
    <2> DEFINE a == SubSeq(p, 1, n - 1)
               b == SubSeq(q, 1, n - 1)
    <2>1. n - 1 \in 0 .. Len(p) /\ n - 1 \in 0 .. Len(q) BY <1>1, <1>2
    <2>2. a \in Paths /\ Len(a) = n - 1 /\ \A i \in 1 .. n - 1 : a[i] = p[i] BY <2>1, PartIs
    <2>3. b \in Paths /\ Len(b) = n - 1 /\ \A i \in 1 .. n - 1 : b[i] = q[i] BY <2>1, PartIs
    <2> HIDE DEF a, b
    <2>4. (a = b) <=> \A i \in 1 .. n - 1 : a[i] = b[i] BY <2>2, <2>3, PathsEqual
    <2>5. (a = b) <=> \A i \in 1 .. n - 1 : p[i] = q[i] BY <2>2, <2>3, <2>4
    <2>6. p[n] \in Nat /\ q[n] \in Nat BY <1>1, <1>2
    <2>7. p[n] < q[n] => p[n] # q[n] BY <2>6
    <2>8. (a = b /\ p[n] < q[n]) <=> (Differ(p, q, n) /\ p[n] < q[n]) BY <1>2, <2>5, <2>7 DEF Differ
    <2> QED BY <2>8 DEF a, b
  <1>3. (\E n \in 1 .. Len(p) : n <= Len(q) /\ SubSeq(p, 1, n - 1) = SubSeq(q, 1, n - 1) /\ p[n] < q[n])
        <=> \E n \in Nat : Differ(p, q, n) /\ p[n] < q[n]
    <2>1. ASSUME NEW n \in 1 .. Len(p), n <= Len(q) /\ SubSeq(p, 1, n - 1) = SubSeq(q, 1, n - 1) /\ p[n] < q[n]
          PROVE  \E k \in Nat : Differ(p, q, k) /\ p[k] < q[k]
      <3>1. n \in Nat BY <1>1
      <3> QED BY <1>2, <2>1, <3>1
    <2>2. ASSUME NEW k \in Nat, Differ(p, q, k) /\ p[k] < q[k]
          PROVE  \E n \in 1 .. Len(p) : n <= Len(q) /\ SubSeq(p, 1, n - 1) = SubSeq(q, 1, n - 1) /\ p[n] < q[n]
      <3>1. k \in 1 .. Len(p) /\ k <= Len(q) BY <2>2 DEF Differ
      <3> QED BY <1>2, <2>2, <3>1
    <2> QED BY <2>1, <2>2
  <1> QED BY <1>3 DEF Lexicographic, IsStrictPrefix

\* Paths that do not begin one another differ at a first place.
LEMMA PathsDiffer ==
    ASSUME NEW p \in Paths, NEW q \in Paths, ~IsPrefix(p, q), ~IsPrefix(q, p)
    PROVE  \E n \in Nat : Differ(p, q, n)
  <1> DEFINE T == {n \in Nat : n \in 1 .. Len(p) /\ n <= Len(q) /\ p[n] # q[n]}
  <1>1. Len(p) \in Nat /\ Len(q) \in Nat BY DEF Paths
  <1>2. T # {}
    <2>1. CASE Len(p) <= Len(q)
      <3>1. PICK i \in 1 .. Len(p) : p[i] # q[i] BY <2>1, PrefixIs
      <3>2. i \in T BY <1>1, <2>1, <3>1
      <3> QED BY <3>2
    <2>2. CASE Len(q) <= Len(p)
      <3>1. PICK i \in 1 .. Len(q) : p[i] # q[i] BY <2>2, PrefixIs
      <3>2. i \in T BY <1>1, <2>2, <3>1
      <3> QED BY <3>2
    <2> QED BY <1>1, <2>1, <2>2
  <1>3. PICK n \in T : \A m \in T : n <= m
    <2>1. T \subseteq Nat OBVIOUS
    <2> HIDE DEF T
    <2> QED BY <1>2, <2>1, LeastNat
  <1>4. ASSUME NEW i \in 1 .. n - 1 PROVE p[i] = q[i]
    <2>1. i \in Nat /\ n \in Nat /\ i \in 1 .. Len(p) /\ i <= Len(q) /\ ~(n <= i) BY <1>1, <1>3
    <2> QED BY <1>3, <2>1
  <1> QED BY <1>3, <1>4 DEF Differ

\* Paths have a strict order.
LEMMA PathsAreOrdered ==
    /\ \A p \in Paths : ~Lexicographic(p, p)
    /\ \A p, q \in Paths : p = q \/ Lexicographic(p, q) \/ Lexicographic(q, p)
    /\ \A p, q, r \in Paths : Lexicographic(p, q) /\ Lexicographic(q, r) => Lexicographic(p, r)
  <1>1. \A p \in Paths : Len(p) \in Nat /\ \A i \in 1 .. Len(p) : p[i] \in Nat BY DEF Paths
  <1>2. ASSUME NEW p \in Paths PROVE ~Lexicographic(p, p)
    <2>1. \A n \in Nat : ~Differ(p, p, n) BY DEF Differ
    <2> QED BY <2>1, LexicographicIs
  <1>3. ASSUME NEW p \in Paths, NEW q \in Paths, p # q PROVE Lexicographic(p, q) \/ Lexicographic(q, p)
    <2>1. CASE IsPrefix(p, q) \/ IsPrefix(q, p) BY <1>3, <2>1, LexicographicIs
    <2>2. CASE ~IsPrefix(p, q) /\ ~IsPrefix(q, p)
      <3>1. PICK n \in Nat : Differ(p, q, n) BY <2>2, PathsDiffer
      <3>2. n \in 1 .. Len(p) /\ n \in 1 .. Len(q) BY <1>1, <3>1 DEF Differ
      <3>3. p[n] \in Nat /\ q[n] \in Nat /\ p[n] # q[n] BY <1>1, <3>1, <3>2 DEF Differ
      <3>4. Differ(q, p, n) BY <1>1, <3>1, <3>2 DEF Differ
      <3>5. p[n] < q[n] \/ q[n] < p[n] BY <3>3
      <3> QED BY <3>1, <3>4, <3>5, LexicographicIs
    <2> QED BY <2>1, <2>2
  <1>4. ASSUME NEW p \in Paths, NEW q \in Paths, NEW r \in Paths, Lexicographic(p, q), Lexicographic(q, r)
        PROVE  Lexicographic(p, r)
    <2> USE <1>1
    <2>1. CASE IsPrefix(p, q) /\ p # q /\ IsPrefix(q, r) /\ q # r
      <3>1. IsPrefix(p, r) /\ p # r BY <2>1, PrefixOrder
      <3> QED BY <3>1, LexicographicIs
    <2>2. ASSUME IsPrefix(p, q) /\ p # q, NEW n \in Nat, Differ(q, r, n), q[n] < r[n] PROVE Lexicographic(p, r)
      <3>1. Len(p) <= Len(q) /\ \A i \in 1 .. Len(p) : p[i] = q[i] BY <2>2, PrefixIs
      <3>2. CASE n <= Len(p)
        <4>1. n \in 1 .. Len(p) /\ n <= Len(r) BY <2>2, <3>2 DEF Differ
        <4>2. p[n] = q[n] BY <3>1, <4>1
        <4>3. \A i \in 1 .. n - 1 : p[i] = r[i]
          <5>1. \A i \in 1 .. n - 1 : i \in 1 .. Len(p) BY <4>1
          <5> QED BY <2>2, <3>1, <5>1 DEF Differ
        <4>4. Differ(p, r, n) /\ p[n] < r[n] BY <2>2, <4>1, <4>2, <4>3 DEF Differ
        <4> QED BY <4>4, LexicographicIs
      <3>3. CASE ~(n <= Len(p))
        <4>1. n \in 1 .. Len(q) /\ n <= Len(r) BY <2>2 DEF Differ
        <4>2. Len(p) <= Len(r) /\ Len(p) # Len(r) /\ \A i \in 1 .. Len(p) : i \in 1 .. n - 1 BY <3>3, <4>1
        <4>3. \A i \in 1 .. Len(p) : p[i] = r[i] BY <2>2, <3>1, <4>2 DEF Differ
        <4>4. IsPrefix(p, r) /\ p # r BY <4>2, <4>3, PrefixIs
        <4> QED BY <4>4, LexicographicIs
      <3> QED BY <3>2, <3>3
    <2>3. ASSUME IsPrefix(q, r), NEW n \in Nat, Differ(p, q, n), p[n] < q[n] PROVE Lexicographic(p, r)
      <3>1. Len(q) <= Len(r) /\ \A i \in 1 .. Len(q) : q[i] = r[i] BY <2>3, PrefixIs
      <3>2. n \in 1 .. Len(p) /\ n \in 1 .. Len(q) /\ n <= Len(r) BY <2>3, <3>1 DEF Differ
      <3>3. \A i \in 1 .. n - 1 : p[i] = r[i]
        <4>1. \A i \in 1 .. n - 1 : i \in 1 .. Len(q) BY <3>2
        <4> QED BY <2>3, <3>1, <4>1 DEF Differ
      <3>4. Differ(p, r, n) /\ p[n] < r[n] BY <2>3, <3>1, <3>2, <3>3 DEF Differ
      <3> QED BY <3>4, LexicographicIs
    <2>4. ASSUME NEW n \in Nat, Differ(p, q, n), p[n] < q[n], NEW m \in Nat, Differ(q, r, m), q[m] < r[m]
          PROVE  Lexicographic(p, r)
      <3>1. n \in 1 .. Len(p) /\ n \in 1 .. Len(q) /\ m \in 1 .. Len(q) /\ m \in 1 .. Len(r) BY <2>4 DEF Differ
      <3>2. p[n] \in Nat /\ q[n] \in Nat /\ q[m] \in Nat /\ r[m] \in Nat BY <3>1
      <3>3. CASE n < m
        <4>1. n \in 1 .. m - 1 /\ n <= Len(r) /\ \A i \in 1 .. n - 1 : i \in 1 .. m - 1 BY <3>1, <3>3
        <4>2. q[n] = r[n] /\ \A i \in 1 .. n - 1 : p[i] = r[i] BY <2>4, <4>1 DEF Differ
        <4>3. Differ(p, r, n) /\ p[n] < r[n] BY <2>4, <3>1, <4>1, <4>2 DEF Differ
        <4> QED BY <4>3, LexicographicIs
      <3>4. CASE m < n
        <4>1. m \in 1 .. n - 1 /\ m \in 1 .. Len(p) /\ m <= Len(r) /\ \A i \in 1 .. m - 1 : i \in 1 .. n - 1 BY <3>1, <3>4
        <4>2. p[m] = q[m] /\ \A i \in 1 .. m - 1 : p[i] = r[i] BY <2>4, <4>1 DEF Differ
        <4>3. Differ(p, r, m) /\ p[m] < r[m] BY <2>4, <3>1, <4>1, <4>2 DEF Differ
        <4> QED BY <4>3, LexicographicIs
      <3>5. CASE m = n
        <4>1. p[n] < r[n] /\ p[n] # r[n] /\ n <= Len(r) BY <2>4, <3>1, <3>2, <3>5
        <4>2. \A i \in 1 .. n - 1 : p[i] = r[i] BY <2>4, <3>5 DEF Differ
        <4>3. Differ(p, r, n) BY <3>1, <4>1, <4>2 DEF Differ
        <4> QED BY <4>1, <4>3, LexicographicIs
      <3> QED BY <3>1, <3>3, <3>4, <3>5
    <2> QED BY <1>4, <2>1, <2>2, <2>3, <2>4, LexicographicIs
  <1> QED BY <1>2, <1>3, <1>4

\* How many paths of S come before p.
Rank(S, p) == Cardinality({q \in S : Lexicographic(q, p)})

\* s holds the paths of S, one after the other.
Lists(s, S) ==
    /\ s \in Seq(S)
    /\ \A p \in S : \E i \in 1 .. Len(s) : s[i] = p
    /\ \A i, j \in 1 .. Len(s) : i < j => Lexicographic(s[i], s[j])

\* A path has a rank of its own.
LEMMA RankIs ==
    ASSUME NEW S, IsFiniteSet(S), S \subseteq Paths
    PROVE  /\ \A p \in S : Rank(S, p) \in 0 .. Cardinality(S) - 1
           /\ \A p, q \in S : Lexicographic(p, q) => Rank(S, p) < Rank(S, q)
           /\ \A p, q \in S : Rank(S, p) = Rank(S, q) => p = q
  <1>1. \A p \in S : IsFiniteSet({r \in S : Lexicographic(r, p)}) /\ Rank(S, p) \in Nat
    BY FS_Subset, FS_CardinalityType DEF Rank
  <1>2. ASSUME NEW p \in S PROVE Rank(S, p) \in 0 .. Cardinality(S) - 1
    <2> DEFINE B == {r \in S : Lexicographic(r, p)}
    <2>1. B \subseteq S /\ p \notin B BY PathsAreOrdered
    <2>2. IsFiniteSet(S \ {p}) /\ Cardinality(S \ {p}) = Cardinality(S) - 1 BY FS_RemoveElement
    <2>3. Cardinality(B) <= Cardinality(S \ {p})
      <3>1. B \in SUBSET (S \ {p}) BY <2>1
      <3> HIDE DEF B
      <3> QED BY <2>2, <3>1, FS_Subset
    <2>4. Cardinality(S) \in Nat BY FS_CardinalityType
    <2>5. Rank(S, p) = Cardinality(B) /\ Rank(S, p) \in Nat BY <1>1 DEF Rank
    <2> HIDE DEF B
    <2> QED BY <2>2, <2>3, <2>4, <2>5
  <1>3. ASSUME NEW p \in S, NEW q \in S, Lexicographic(p, q) PROVE Rank(S, p) < Rank(S, q)
    <2> DEFINE B == {r \in S : Lexicographic(r, p)}
               C == {r \in S : Lexicographic(r, q)}
    <2>1. B \subseteq C /\ p \in C /\ p \notin B BY <1>3, PathsAreOrdered
    <2>2. IsFiniteSet(B) /\ IsFiniteSet(C) /\ Rank(S, p) = Cardinality(B) /\ Rank(S, q) = Cardinality(C) BY <1>1 DEF Rank
    <2> HIDE DEF B, C
    <2>3. Cardinality(B) <= Cardinality(C) /\ Cardinality(B) # Cardinality(C) BY <2>1, <2>2, FS_Subset
    <2>4. Cardinality(B) \in Nat /\ Cardinality(C) \in Nat BY <2>2, FS_CardinalityType
    <2> QED BY <2>2, <2>3, <2>4
  <1>4. ASSUME NEW p \in S, NEW q \in S, Rank(S, p) = Rank(S, q) PROVE p = q
    <2>1. \A m \in Nat : ~(m < m) OBVIOUS
    <2>2. ~Lexicographic(p, q) /\ ~Lexicographic(q, p) BY <1>1, <1>3, <1>4, <2>1
    <2> QED BY <2>2, PathsAreOrdered
  <1> QED BY <1>2, <1>3, <1>4

\* InPathOrder lists the set.
LEMMA PathOrderIs ==
    ASSUME NEW S, IsFiniteSet(S), S \subseteq Paths
    PROVE  Lists(InPathOrder(S), S) /\ Len(InPathOrder(S)) = Cardinality(S)
  <1> DEFINE n == Cardinality(S)
             rank == [p \in S |-> Rank(S, p) + 1]
             s == InPathOrder(S)
  <1>1. n \in Nat BY FS_CardinalityType
  <1>2. rank \in Injection(S, 1 .. n)
    <2>1. \A p \in S : Rank(S, p) \in 0 .. n - 1 BY RankIs
    <2> HIDE DEF n
    <2>2. \A p \in S : Rank(S, p) + 1 \in 1 .. n BY <1>1, <2>1
    <2>3. \A p, q \in S : Rank(S, p) + 1 = Rank(S, q) + 1 => p = q BY <1>1, <2>1, RankIs
    <2> QED BY <2>2, <2>3 DEF Injection, IsInjective
  <1>3. IsFiniteSet(1 .. n) /\ Cardinality(1 .. n) = n BY <1>1, FS_Interval
  <1>4. rank \in Surjection(S, 1 .. n)
    <2> HIDE DEF rank
    <2> QED BY <1>2, <1>3, FS_Injection
  <1>5. \A i \in 1 .. n : \E p \in S : rank[p] = i BY <1>4 DEF Surjection
  <1>6. \A i \in 1 .. n : \E p \in S : Rank(S, p) = i - 1
    <2>1. \A p \in S : Rank(S, p) \in Nat BY RankIs
    <2> HIDE DEF n
    <2> QED BY <1>1, <1>5, <2>1
  <1>7. s = [i \in 1 .. n |-> CHOOSE p \in S : Rank(S, p) = i - 1] BY DEF InPathOrder, Rank
  <1> HIDE DEF s
  <1>8. \A i \in 1 .. n : s[i] \in S /\ Rank(S, s[i]) = i - 1 BY <1>6, <1>7
  <1>9. s \in [1 .. n -> S] BY <1>7, <1>8
  <1>10. s \in Seq(S) /\ Len(s) = n
    <2> HIDE DEF n
    <2> QED BY <1>1, <1>9
  <1>11. ASSUME NEW p \in S PROVE \E i \in 1 .. n : s[i] = p
    <2>1. Rank(S, p) \in 0 .. n - 1 BY RankIs
    <2> HIDE DEF n
    <2>2. Rank(S, p) + 1 \in 1 .. n /\ (Rank(S, p) + 1) - 1 = Rank(S, p) BY <1>1, <2>1
    <2>3. Rank(S, s[Rank(S, p) + 1]) = Rank(S, p) BY <1>8, <2>2
    <2> QED BY <1>8, <2>2, <2>3, RankIs
  <1>12. ASSUME NEW i \in 1 .. n, NEW j \in 1 .. n, i < j PROVE Lexicographic(s[i], s[j])
    <2>1. s[i] \in S /\ s[j] \in S /\ Rank(S, s[i]) = i - 1 /\ Rank(S, s[j]) = j - 1 BY <1>8
    <2> HIDE DEF n
    <2>2. ~(Rank(S, s[j]) < Rank(S, s[i])) /\ Rank(S, s[j]) # Rank(S, s[i]) BY <1>1, <1>12, <2>1
    <2>3. ~Lexicographic(s[j], s[i]) /\ s[i] # s[j] BY <2>1, <2>2, RankIs
    <2> QED BY <2>1, <2>3, PathsAreOrdered
  <1> QED BY <1>10, <1>11, <1>12 DEF Lists, s

\* There is no other list of the set.
LEMMA OneList ==
    ASSUME NEW S, S \subseteq Paths, NEW s, Lists(s, S)
    PROVE  IsFiniteSet(S) /\ s = InPathOrder(S)
  <1> DEFINE n == Len(s)
  <1>1. n \in Nat /\ s \in [1 .. n -> S] BY DEF Lists
  <1>2. \A i, j \in 1 .. n : i # j => s[i] # s[j]
    <2>1. \A i, j \in 1 .. n : i < j => s[i] # s[j] BY <1>1, PathsAreOrdered DEF Lists
    <2>2. \A i, j \in 1 .. n : i # j => i < j \/ j < i BY <1>1
    <2> QED BY <2>1, <2>2
  <1>3. s \in Bijection(1 .. n, S) BY <1>1, <1>2 DEF Lists, Bijection, Injection, Surjection, IsInjective
  <1>4. IsFiniteSet(S) /\ Cardinality(S) = n
    <2>1. ExistsBijection(1 .. n, S) BY <1>3 DEF ExistsBijection
    <2>2. IsFiniteSet(1 .. n) /\ Cardinality(1 .. n) = n BY <1>1, FS_Interval
    <2> QED BY <2>1, <2>2, FS_Bijection
  <1>5. ASSUME NEW i \in 1 .. n PROVE Rank(S, s[i]) = i - 1
    <2> DEFINE B == {q \in S : Lexicographic(q, s[i])}
               f == [j \in 1 .. i - 1 |-> s[j]]
    <2>1. \A j \in 1 .. i - 1 : j \in 1 .. n /\ j < i BY <1>1
    <2>2. \A j \in 1 .. i - 1 : s[j] \in B BY <1>1, <2>1 DEF Lists
    <2>3. ASSUME NEW q \in B PROVE \E j \in 1 .. i - 1 : s[j] = q
      <3>1. PICK j \in 1 .. n : s[j] = q BY DEF Lists
      <3>2. j # i BY <1>1, <3>1, PathsAreOrdered
      <3>3. ~(i < j)
        <4> SUFFICES ASSUME i < j PROVE FALSE OBVIOUS
        <4>1. Lexicographic(s[i], s[j]) /\ Lexicographic(s[j], s[i]) BY <3>1 DEF Lists
        <4>2. s[i] \in Paths /\ s[j] \in Paths BY <1>1
        <4> QED BY <4>1, <4>2, PathsAreOrdered
      <3>4. j \in 1 .. i - 1 BY <1>1, <3>2, <3>3
      <3> QED BY <3>1, <3>4
    <2>4. f \in Bijection(1 .. i - 1, B)
      <3>1. f \in [1 .. i - 1 -> B] BY <2>2
      <3>2. \A j, k \in 1 .. i - 1 : f[j] = f[k] => j = k BY <1>2, <2>1
      <3> QED BY <2>3, <3>1, <3>2 DEF Bijection, Injection, Surjection, IsInjective
    <2>5. i - 1 \in Nat BY <1>1
    <2> HIDE DEF B, f
    <2>6. ExistsBijection(1 .. i - 1, B) BY <2>4 DEF ExistsBijection
    <2>7. Cardinality(B) = i - 1 BY <2>5, <2>6, FS_CountingElements
    <2> QED BY <2>7 DEF B, Rank
  <1>6. InPathOrder(S) = [i \in 1 .. n |-> CHOOSE p \in S : Rank(S, p) = i - 1] BY <1>4 DEF InPathOrder, Rank
  <1>7. ASSUME NEW i \in 1 .. n PROVE s[i] = CHOOSE p \in S : Rank(S, p) = i - 1
    <2>1. s[i] \in S /\ Rank(S, s[i]) = i - 1 BY <1>1, <1>5
    <2>2. \A p \in S : Rank(S, p) = i - 1 => p = s[i] BY <1>4, <2>1, RankIs
    <2> QED BY <2>1, <2>2
  <1> QED BY <1>1, <1>4, <1>6, <1>7

-----------------------------------------------------------------------------
(* Trees                                                                   *)

Trees == UNION {[D -> Nodes] : D \in SUBSET Paths}

\* A tree with its root.
Rooted(t) == IsTree(t) /\ <<>> \in DOMAIN t /\ t[<<>>] = Dir

\* What a tree is.
LEMMA TreesAre ==
    /\ \A t \in Trees : t = [p \in DOMAIN t |-> t[p]] /\ DOMAIN t \subseteq Paths /\ \A p \in DOMAIN t : t[p] \in Nodes
    /\ \A D \in SUBSET Paths : [D -> Nodes] \subseteq Trees
  BY DEF Trees

\* Sequences over a part of a set.
LEMMA SequencesGrow ==
    ASSUME NEW S, NEW B, B \subseteq S
    PROVE  Seq(B) \subseteq Seq(S)
  <1>1. ASSUME NEW s \in Seq(B) PROVE s \in Seq(S)
    <2> DEFINE n == Len(s)
               f == [i \in 1 .. n |-> s[i]]
    <2>1. n \in Nat /\ \A i \in 1 .. n : s[i] \in S OBVIOUS
    <2>2. s = f OBVIOUS
    <2>3. f \in Seq(S) BY <2>1
    <2> QED BY <2>2, <2>3
  <1> QED BY <1>1

\* What the nodes are.
LEMMA NodesAre ==
    /\ Dir \in Nodes /\ Files \subseteq Nodes /\ Dir \notin Files
    /\ \A n \in Nodes : (n = Dir) <=> (n.kind = "dir")
    /\ \A n \in Nodes : n.data \in Seq(Nat)
    /\ \A n \in Nodes : n.kind = "file" <=> n \in Files
    /\ \A n \in Nodes : n.kind = "link" => n.data \in Paths
  <1>1. Seq(0 .. 101) \subseteq Seq(Nat)
    <2>1. 0 .. 101 \subseteq Nat OBVIOUS
    <2> QED BY <2>1, SequencesGrow
  <1>2. <<>> \in Seq(Nat) OBVIOUS
  <1>3. \A n \in Files : n.kind = "file" /\ n.data \in Seq(Nat) /\ n # Dir BY <1>1 DEF Files, Dir
  <1> DEFINE L == [kind : {"link"}, data : Paths]
             O == [kind : OutKinds, data : {<<>>}]
  <1>4. \A n \in L : n.kind = "link" /\ n.data \in Seq(Nat) BY DEF Paths
  <1>5. \A n \in O : n.kind \in {"absolute", "dangling", "outside"} /\ n.data \in Seq(Nat) BY <1>2 DEF OutKinds
  <1>6. Nodes = {Dir} \cup Files \cup L \cup O BY DEF Nodes
  <1>7. Dir.kind = "dir" /\ Dir.data \in Seq(Nat) BY <1>2 DEF Dir
  <1> HIDE DEF L, O
  <1> QED BY <1>3, <1>4, <1>5, <1>6, <1>7 DEF Paths

\* The empty path leads everywhere.
LEMMA RootIs ==
    /\ <<>> \in Paths /\ \A p \in Paths : IsPrefix(<<>>, p)
    /\ \A p \in Paths : p # <<>> => <<>> \in Ancestors(p) /\ ~IsPrefix(p, <<>>)
  <1>1. <<>> \in Paths /\ Len(<<>>) = 0 BY DEF Paths
  <1>2. \A p \in Paths : Len(p) \in Nat BY DEF Paths
  <1>3. \A p \in Paths : IsPrefix(<<>>, p) BY <1>1, <1>2, PrefixIs
  <1> QED BY <1>1, <1>3, AncestorsAre, PrefixOrder

\* What is new, and what is left of the rest.
LEMMA OverIs ==
    ASSUME NEW new, NEW t, DOMAIN new \subseteq Paths, DOMAIN t \subseteq Paths,
           \A p \in DOMAIN new : new[p] \in Nodes, \A p \in DOMAIN t : t[p] \in Nodes
    PROVE  /\ Over(new, t) \in Trees
           /\ DOMAIN Over(new, t) = DOMAIN new \cup DOMAIN t
           /\ \A p \in DOMAIN new : Over(new, t)[p] = new[p]
           /\ \A p \in DOMAIN t \ DOMAIN new : Over(new, t)[p] = t[p]
  <1>1. Over(new, t) \in [DOMAIN new \cup DOMAIN t -> Nodes] BY DEF Over
  <1> QED BY <1>1, TreesAre DEF Over

\* A new part is put in the place of what is there, if it brings its directories or finds them, and no file of it
\* lies above what is there.
LEMMA OverIsTree ==
    ASSUME NEW t, Rooted(t), NEW new, DOMAIN new \subseteq Paths, IsFiniteSet(DOMAIN new),
           \A p \in DOMAIN new :
                /\ new[p] \in Nodes
                /\ \A a \in Ancestors(p) :
                        IF a \in DOMAIN new THEN new[a] = Dir ELSE a \in DOMAIN t /\ t[a] = Dir
                /\ new[p] # Dir => p # <<>> /\ \A q \in DOMAIN t : p \notin Ancestors(q)
    PROVE  Over(new, t) \in Trees /\ Rooted(Over(new, t))
  <1> DEFINE u == Over(new, t)
  <1>1. DOMAIN t \subseteq Paths /\ \A p \in DOMAIN t : t[p] \in Nodes BY DEF Rooted, IsTree
  <1>2. /\ u \in Trees /\ DOMAIN u = DOMAIN new \cup DOMAIN t
        /\ \A p \in DOMAIN new : u[p] = new[p]
        /\ \A p \in DOMAIN t \ DOMAIN new : u[p] = t[p]
    BY <1>1, OverIs
  <1> HIDE DEF u
  <1>3. IsFiniteSet(DOMAIN u)
    <2>1. IsFiniteSet(DOMAIN t) BY DEF Rooted, IsTree
    <2>2. IsFiniteSet(DOMAIN new \cup DOMAIN t) BY <2>1, FS_Union
    <2> QED BY <1>2, <2>2
  <1>4. \A p \in DOMAIN u : p \in Paths /\ u[p] \in Nodes BY <1>1, <1>2
  <1>5. ASSUME NEW p \in DOMAIN u, NEW a \in Ancestors(p) PROVE a \in DOMAIN u /\ u[a] = Dir
    <2>1. CASE p \in DOMAIN new BY <1>2, <2>1
    <2>2. CASE p \notin DOMAIN new
      <3>1. p \in DOMAIN t /\ a \in DOMAIN t /\ t[a] = Dir BY <1>2, <2>2 DEF Rooted, IsTree
      <3>2. a \in DOMAIN new => new[a] = Dir BY <3>1
      <3> QED BY <1>2, <3>1, <3>2
    <2> QED BY <2>1, <2>2
  <1>6. <<>> \in DOMAIN u /\ u[<<>>] = Dir BY <1>2 DEF Rooted
  <1> QED BY <1>2, <1>3, <1>4, <1>5, <1>6 DEF Rooted, IsTree, u

\* What is left when nothing is removed without what lies below it.
LEMMA PartIsTree ==
    ASSUME NEW t, Rooted(t), NEW left, left \subseteq DOMAIN t, <<>> \in left,
           \A p \in left : Ancestors(p) \subseteq left
    PROVE  [p \in left |-> t[p]] \in Trees /\ Rooted([p \in left |-> t[p]])
  <1> DEFINE u == [p \in left |-> t[p]]
  <1>1. DOMAIN u = left /\ \A p \in left : u[p] = t[p] OBVIOUS
  <1>2. left \subseteq Paths /\ (\A p \in left : t[p] \in Nodes) /\ IsFiniteSet(left)
    BY FS_Subset DEF Rooted, IsTree
  <1>3. u \in Trees
    <2>1. u \in [left -> Nodes] BY <1>2
    <2> QED BY <1>2, <2>1, TreesAre
  <1> HIDE DEF u
  <1>4. \A p \in left : \A a \in Ancestors(p) : a \in left /\ t[a] = Dir BY DEF Rooted, IsTree
  <1>5. t[<<>>] = Dir BY DEF Rooted
  <1>6. IsTree(u) BY <1>1, <1>2, <1>4 DEF IsTree
  <1> QED BY <1>1, <1>3, <1>5, <1>6 DEF Rooted, u

\* rm of some places.
LEMMA RemovedIs ==
    ASSUME NEW t, Rooted(t), NEW places, places \subseteq Paths, <<>> \notin places
    PROVE  /\ Removed(t, places) \in Trees /\ Rooted(Removed(t, places))
           /\ DOMAIN Removed(t, places) = {p \in DOMAIN t : \A o \in places : ~IsPrefix(o, p)}
           /\ \A p \in DOMAIN Removed(t, places) : Removed(t, places)[p] = t[p]
  <1> DEFINE left == {p \in DOMAIN t : \A o \in places : ~IsPrefix(o, p)}
  <1>1. Removed(t, places) = [p \in left |-> t[p]] BY DEF Removed
  <1>2. left \subseteq DOMAIN t /\ DOMAIN t \subseteq Paths BY DEF Rooted, IsTree
  <1>3. <<>> \in left BY RootIs DEF Rooted
  <1>4. ASSUME NEW p \in left, NEW a \in Ancestors(p) PROVE a \in left
    <2>1. p \in Paths /\ p \in DOMAIN t BY <1>2
    <2>2. a \in DOMAIN t BY <2>1 DEF Rooted, IsTree
    <2>3. a \in Paths /\ IsPrefix(a, p) BY <2>1, AncestorsAre
    <2>4. \A o \in places : ~IsPrefix(o, a) BY <2>1, <2>3, PrefixOrder
    <2> QED BY <2>2, <2>4
  <1> HIDE DEF left
  <1>5. [p \in left |-> t[p]] \in Trees /\ Rooted([p \in left |-> t[p]]) BY <1>2, <1>3, <1>4, PartIsTree
  <1> QED BY <1>1, <1>5 DEF left

-----------------------------------------------------------------------------
(* The work space                                                          *)

AtInputs(p) == \E i \in Inputs : IsPrefix(i, p)
AtOutputs(p) == IsPrefix(Output, p) \/ IsPrefix(Public, p)

\* A file tree with directories above the places, and no links at the inputs.
WorkSpace(t) ==
    /\ t \in Trees /\ Rooted(t)
    /\ \A p \in DOMAIN t :
        /\ AtInputs(p) => t[p] = Dir \/ t[p] \in Files
        /\ p \in Towards(Inputs) /\ ~AtInputs(p) => t[p] = Dir
        /\ p \in Towards({Output, Public}) => t[p] = Dir

\* What lies at the inputs.
InputsOf(t) == [p \in At(DOMAIN t, Inputs) |-> t[p]]

\* Where a path lies, and the paths above and below it.
LEMMA LocationsAre ==
    /\ Inputs \subseteq Paths /\ Output \in Paths /\ Public \in Paths
    /\ <<>> \notin Inputs /\ <<>> # Output /\ <<>> # Public
    /\ \A D : At(D, Inputs) = {p \in D : AtInputs(p)}
    /\ \A p \in Towards(Inputs) : p \in Paths /\ \E i \in Inputs : p \in Ancestors(i)
    /\ \A p : p \in Towards({Output, Public}) <=> (p \in Ancestors(Output) \/ p \in Ancestors(Public))
    /\ Towards({Output, Public}) \subseteq Paths
    /\ \A L : Towards(L \cup {Output, Public}) = Towards(L) \cup Towards({Output, Public})
  <1>1. Inputs \subseteq Paths /\ Output \in Paths /\ Public \in Paths /\ <<>> \notin Inputs /\ <<>> # Output /\ <<>> # Public
    BY LocationsAssumption
  <1>2. \A D : At(D, Inputs) = {p \in D : AtInputs(p)} BY DEF At, AtInputs
  <1>3. \A p \in Towards(Inputs) : \E i \in Inputs : p \in Ancestors(i) BY DEF Towards
  <1>4. \A p : p \in Towards({Output, Public}) <=> (p \in Ancestors(Output) \/ p \in Ancestors(Public)) BY DEF Towards
  <1>5. \A L : Towards(L \cup {Output, Public}) = Towards(L) \cup Towards({Output, Public}) BY DEF Towards
  <1>6. \A p \in Paths : Ancestors(p) \subseteq Paths BY AncestorsAre
  <1> QED BY <1>1, <1>2, <1>3, <1>4, <1>5, <1>6

\* A path above what lies at a place lies there too or leads to it.
LEMMA PathsAbove ==
    ASSUME NEW p \in Paths, NEW q \in Paths, IsPrefix(p, q)
    PROVE  /\ \A o \in Paths : IsPrefix(o, q) => IsPrefix(o, p) \/ p \in Ancestors(o)
           /\ \A o \in Paths : IsPrefix(o, p) => IsPrefix(o, q)
           /\ \A o \in Paths : q \in Ancestors(o) => p \in Ancestors(o)
  <1>1. ASSUME NEW o \in Paths, IsPrefix(o, q) PROVE IsPrefix(o, p) \/ p \in Ancestors(o)
    BY <1>1, AncestorsAre, PrefixOrder
  <1>2. \A o \in Paths : IsPrefix(o, p) => IsPrefix(o, q) BY PrefixOrder
  <1>3. ASSUME NEW o \in Paths, q \in Ancestors(o) PROVE p \in Ancestors(o)
    BY <1>3, AncestorsAre, PrefixOrder
  <1> QED BY <1>1, <1>2, <1>3

\* The inputs and the outputs are apart.
LEMMA PlacesAreApart ==
    ASSUME NEW p \in Paths
    PROVE  /\ ~(AtInputs(p) /\ AtOutputs(p)) /\ ~(IsPrefix(Output, p) /\ IsPrefix(Public, p))
           /\ AtInputs(p) => p \notin Towards({Output, Public})
           /\ AtOutputs(p) => p \notin Towards(Inputs) /\ p \notin Towards({Output, Public})
           /\ ~AtInputs(<<>>) /\ ~AtOutputs(<<>>)
  <1> DEFINE Apart(o, i) == ~IsPrefix(i, o) /\ ~IsPrefix(o, i)
  <1>1. ASSUME NEW o \in Paths, NEW i \in Paths, Apart(o, i)
        PROVE  ~(IsPrefix(o, p) /\ IsPrefix(i, p)) /\ ~(IsPrefix(o, p) /\ p \in Ancestors(i))
    <2>1. p \in Ancestors(i) => IsPrefix(p, i) BY AncestorsAre
    <2> QED BY <1>1, <2>1, PrefixOrder
  <1>2. \A i \in Inputs : Apart(Output, i) /\ Apart(i, Output) /\ Apart(Public, i) /\ Apart(i, Public) BY LocationsAssumption
  <1>3. Apart(Output, Public) /\ Apart(Public, Output) BY LocationsAssumption
  <1> HIDE DEF Apart
  <1>4. Inputs \subseteq Paths /\ Output \in Paths /\ Public \in Paths BY LocationsAre
  <1>5. ~(AtInputs(p) /\ AtOutputs(p)) BY <1>1, <1>2, <1>4 DEF AtInputs, AtOutputs
  <1>6. ~(IsPrefix(Output, p) /\ IsPrefix(Public, p)) BY <1>1, <1>3, <1>4
  <1>7. AtInputs(p) => p \notin Towards({Output, Public}) BY <1>1, <1>2, <1>4, LocationsAre DEF AtInputs
  <1>8. AtOutputs(p) => p \notin Towards(Inputs)
    <2> SUFFICES ASSUME AtOutputs(p), p \in Towards(Inputs) PROVE FALSE OBVIOUS
    <2>1. PICK i \in Inputs : p \in Ancestors(i) BY LocationsAre
    <2> QED BY <1>1, <1>2, <1>4, <2>1 DEF AtOutputs
  <1>9. AtOutputs(p) => p \notin Towards({Output, Public})
    <2>1. \A o \in Paths : IsPrefix(o, p) => p \notin Ancestors(o) BY AncestorsAre, PrefixOrder
    <2> QED BY <1>1, <1>3, <1>4, <2>1, LocationsAre DEF AtOutputs
  <1>10. ~AtInputs(<<>>) /\ ~AtOutputs(<<>>) BY RootIs, LocationsAre DEF AtInputs, AtOutputs
  <1> QED BY <1>5, <1>6, <1>7, <1>8, <1>9, <1>10

\* What is read of the inputs depends on them only.
LEMMA InputsDecide ==
    ASSUME NEW t, NEW u, InputsOf(t) = InputsOf(u)
    PROVE  Tracked(t) = Tracked(u) /\ Listing(t) = Listing(u)
  <1> DEFINE of(v, i) == {p \in Below(v, i) : v[p] # Dir /\ (IsValid(i) => IsValid(p))}
  <1>1. At(DOMAIN t, Inputs) = At(DOMAIN u, Inputs) /\ \A p \in At(DOMAIN t, Inputs) : t[p] = u[p]
    <2>1. DOMAIN InputsOf(t) = At(DOMAIN t, Inputs) /\ DOMAIN InputsOf(u) = At(DOMAIN u, Inputs) BY DEF InputsOf
    <2>2. \A p \in At(DOMAIN t, Inputs) : InputsOf(t)[p] = t[p] BY DEF InputsOf
    <2>3. \A p \in At(DOMAIN u, Inputs) : InputsOf(u)[p] = u[p] BY DEF InputsOf
    <2> QED BY <2>1, <2>2, <2>3
  <1>2. ASSUME NEW i \in Inputs PROVE Below(t, i) = Below(u, i) /\ \A p \in Below(t, i) : t[p] = u[p]
    BY <1>1 DEF At, Below
  <1>3. ASSUME NEW i \in Inputs PROVE of(t, i) = of(u, i) /\ \A p \in of(t, i) : t[p] = u[p] BY <1>2
  <1>4. Tracked(t) = [i \in Inputs |-> [p \in of(t, i) |-> t[p].data]] BY DEF Tracked
  <1>5. Tracked(u) = [i \in Inputs |-> [p \in of(u, i) |-> u[p].data]] BY DEF Tracked
  <1> HIDE DEF of
  <1>6. \A i \in Inputs : [p \in of(t, i) |-> t[p].data] = [p \in of(u, i) |-> u[p].data] BY <1>3
  <1>7. Tracked(t) = Tracked(u) BY <1>4, <1>5, <1>6
  <1> QED BY <1>7 DEF Listing

\* A tree that holds the inputs, the directories that lead to them, and nothing else.
HoldsInputs(t) ==
    /\ Rooted(t)
    /\ \A p \in DOMAIN t :
            \/ AtInputs(p) /\ (t[p] = Dir \/ t[p] \in Files)
            \/ p \in Towards(Inputs) \cup {<<>>} /\ t[p] = Dir

\* The sources are such trees.
LEMMA SourcesAre ==
    ASSUME NEW s \in Sources
    PROVE  HoldsInputs(s)
  <1>1. /\ IsTree(s) /\ <<>> \in DOMAIN s
        /\ \A p \in DOMAIN s : s[p] = Dir \/ s[p] \in Files
        /\ DOMAIN s \ At(DOMAIN s, Inputs) \subseteq {p \in Towards(Inputs) \cup {<<>>} : s[p] = Dir}
    BY SourcesAssumption
  <1>2. \A p \in DOMAIN s : AtInputs(p) \/ (p \in Towards(Inputs) \cup {<<>>} /\ s[p] = Dir) BY <1>1, LocationsAre
  <1>3. <<>> \in Paths BY RootIs
  <1>4. s[<<>>] = Dir BY <1>1, <1>2, <1>3, PlacesAreApart
  <1> QED BY <1>1, <1>2, <1>4 DEF HoldsInputs, Rooted

\* What is put beside the inputs brings its directories, and no file where a directory leads to a place.
LEMMA BesideIs ==
    ASSUME NEW new, IsBeside(new)
    PROVE  /\ IsFiniteSet(DOMAIN new) /\ DOMAIN new \subseteq Paths /\ <<>> \notin DOMAIN new
           /\ \A p \in DOMAIN new :
                /\ new[p] \in Nodes /\ ~AtInputs(p)
                /\ new[p] # Dir => p \notin Towards(Inputs) /\ p \notin Towards({Output, Public})
                /\ \A a \in Ancestors(p) : a = <<>> \/ (a \in DOMAIN new /\ new[a] = Dir)
  <1> DEFINE u == Over(new, Only(<<>>, Dir))
  <1>1. IsTree(u) /\ <<>> \notin DOMAIN new /\ At(DOMAIN new, Inputs) = {}
        /\ \A p \in DOMAIN new \cap Towards(Inputs \cup {Output, Public}) : new[p] = Dir
    BY DEF IsBeside
  <1>2. DOMAIN u = DOMAIN new \cup {<<>>} /\ \A p \in DOMAIN new : u[p] = new[p] BY DEF Over, Only
  <1> HIDE DEF u
  <1>3. IsFiniteSet(DOMAIN new)
    <2>1. IsFiniteSet(DOMAIN u) /\ DOMAIN new \in SUBSET DOMAIN u BY <1>1, <1>2 DEF IsTree
    <2> QED BY <2>1, FS_Subset
  <1>4. \A p \in DOMAIN new : p \in Paths /\ new[p] \in Nodes /\ \A a \in Ancestors(p) : a = <<>> \/ (a \in DOMAIN new /\ new[a] = Dir)
    BY <1>1, <1>2 DEF IsTree
  <1>5. \A p \in DOMAIN new : ~AtInputs(p) BY <1>1, LocationsAre
  <1>6. \A p \in DOMAIN new : new[p] # Dir => p \notin Towards(Inputs) /\ p \notin Towards({Output, Public})
    <2>1. Towards(Inputs \cup {Output, Public}) = Towards(Inputs) \cup Towards({Output, Public}) BY LocationsAre
    <2> QED BY <1>1, <2>1
  <1> QED BY <1>1, <1>3, <1>4, <1>5, <1>6

\* No file of it lies above an input.
LEMMA BesideInputs ==
    ASSUME NEW new, IsBeside(new), NEW p \in DOMAIN new, new[p] # Dir, NEW q \in Paths, IsPrefix(p, q)
    PROVE  ~AtInputs(q) /\ q \notin Towards(Inputs) /\ q # <<>>
  <1>1. p \in Paths /\ ~AtInputs(p) /\ p \notin Towards(Inputs) /\ p # <<>> BY BesideIs
  <1>2. ~AtInputs(q)
    <2> SUFFICES ASSUME AtInputs(q) PROVE FALSE OBVIOUS
    <2>1. PICK i \in Inputs : IsPrefix(i, q) BY DEF AtInputs
    <2>2. i \in Paths BY LocationsAre
    <2>3. p \in Ancestors(i) \/ IsPrefix(i, p) BY <1>1, <2>1, <2>2, PathsAbove
    <2> QED BY <1>1, <2>3 DEF AtInputs, Towards
  <1>3. q \notin Towards(Inputs)
    <2> SUFFICES ASSUME q \in Towards(Inputs) PROVE FALSE OBVIOUS
    <2>1. PICK i \in Inputs : q \in Ancestors(i) BY LocationsAre
    <2>2. i \in Paths BY LocationsAre
    <2>3. p \in Ancestors(i) BY <1>1, <2>1, <2>2, PathsAbove
    <2> QED BY <1>1, <2>3 DEF Towards
  <1>4. q # <<>> BY <1>1, RootIs
  <1> QED BY <1>2, <1>3, <1>4

\* Leftovers beside the inputs make a work space.
LEMMA LeftoversPut ==
    ASSUME NEW t, HoldsInputs(t), NEW new, IsBeside(new)
    PROVE  WorkSpace(Over(new, t)) /\ InputsOf(Over(new, t)) = InputsOf(t)
  <1> DEFINE u == Over(new, t)
  <1>1. Rooted(t) /\ DOMAIN t \subseteq Paths /\ \A p \in DOMAIN t : t[p] \in Nodes BY DEF HoldsInputs, Rooted, IsTree
  <1>2. /\ DOMAIN u = DOMAIN new \cup DOMAIN t
        /\ \A p \in DOMAIN new : u[p] = new[p]
        /\ \A p \in DOMAIN t \ DOMAIN new : u[p] = t[p]
    <2>1. DOMAIN new \subseteq Paths /\ \A p \in DOMAIN new : new[p] \in Nodes BY BesideIs
    <2> QED BY <1>1, <2>1, OverIs
  <1>3. ASSUME NEW p \in DOMAIN new
        PROVE  /\ \A a \in Ancestors(p) : IF a \in DOMAIN new THEN new[a] = Dir ELSE a \in DOMAIN t /\ t[a] = Dir
               /\ new[p] # Dir => p # <<>> /\ \A q \in DOMAIN t : p \notin Ancestors(q)
    <2>1. <<>> \in DOMAIN t /\ t[<<>>] = Dir BY <1>1 DEF Rooted
    <2>2. ASSUME new[p] # Dir, NEW q \in DOMAIN t, p \in Ancestors(q) PROVE FALSE
      <3>1. q \in Paths /\ IsPrefix(p, q) BY <1>1, <2>2, AncestorsAre
      <3>2. ~AtInputs(q) /\ q \notin Towards(Inputs) /\ q # <<>> BY <2>2, <3>1, BesideInputs
      <3> QED BY <3>2 DEF HoldsInputs
    <2> QED BY <2>1, <2>2, BesideIs
  <1>4. u \in Trees /\ Rooted(u) BY <1>1, <1>3, BesideIs, OverIsTree
  <1> HIDE DEF u
  <1>5. ASSUME NEW p \in At(DOMAIN u, Inputs) PROVE p \in DOMAIN t /\ u[p] = t[p] /\ (t[p] = Dir \/ t[p] \in Files)
    <2>1. p \in DOMAIN u /\ AtInputs(p) /\ p \in Paths BY <1>1, <1>2, LocationsAre, BesideIs
    <2>2. p \notin DOMAIN new /\ p # <<>> BY <2>1, BesideIs, PlacesAreApart
    <2> QED BY <1>2, <2>1, <2>2 DEF HoldsInputs
  <1>6. ASSUME NEW p \in DOMAIN u \cap Towards({Output, Public}) PROVE u[p] = Dir
    <2>1. CASE p \in DOMAIN new BY <1>2, <1>6, <2>1, BesideIs
    <2>2. CASE p \notin DOMAIN new
      <3>1. p \in DOMAIN t /\ u[p] = t[p] /\ p \in Paths BY <1>1, <1>2, <2>2
      <3>2. ~AtInputs(p) BY <1>6, <3>1, PlacesAreApart
      <3> QED BY <3>1, <3>2 DEF HoldsInputs
    <2> QED BY <2>1, <2>2
  <1>7. WorkSpace(u)
    <2>1. ASSUME NEW p \in DOMAIN u, p \in Towards(Inputs), ~AtInputs(p) PROVE u[p] = Dir
      <3>1. CASE p \in DOMAIN new BY <1>2, <2>1, <3>1, BesideIs
      <3>2. CASE p \notin DOMAIN new BY <1>2, <2>1, <3>2 DEF HoldsInputs
      <3> QED BY <3>1, <3>2
    <2>2. \A p \in DOMAIN u : AtInputs(p) => u[p] = Dir \/ u[p] \in Files BY <1>5, LocationsAre
    <2> QED BY <1>4, <1>6, <2>1, <2>2 DEF WorkSpace
  <1>8. At(DOMAIN u, Inputs) = At(DOMAIN t, Inputs) BY <1>2, <1>5, LocationsAre
  <1>9. InputsOf(u) = InputsOf(t) BY <1>5, <1>8 DEF InputsOf
  <1> QED BY <1>7, <1>9 DEF u

\* The inputs of a work space, without the rest.
LEMMA OnlyInputsHold ==
    ASSUME NEW t, WorkSpace(t)
    PROVE  HoldsInputs(OnlyInputs(t)) /\ InputsOf(OnlyInputs(t)) = InputsOf(t)
  <1> DEFINE left == At(DOMAIN t, Inputs) \cup {a \in DOMAIN t : a \in Towards(Inputs) \cup {<<>>}}
             u == OnlyInputs(t)
  <1>1. Rooted(t) /\ DOMAIN t \subseteq Paths /\ <<>> \in DOMAIN t /\ t[<<>>] = Dir BY DEF WorkSpace, Rooted, IsTree
  <1>2. \A p \in left : p \in DOMAIN t /\ p \in Paths BY <1>1, LocationsAre
  <1>3. ASSUME NEW p \in left, NEW a \in Ancestors(p) PROVE a \in left
    <2>1. a \in DOMAIN t /\ t[a] = Dir BY <1>1, <1>2 DEF Rooted, IsTree
    <2>2. a \in Paths /\ IsPrefix(a, p) /\ p # <<>> BY <1>2, AncestorsAre, RootIs
    <2>3. CASE AtInputs(p)
      <3>1. PICK i \in Inputs : IsPrefix(i, p) BY <2>3 DEF AtInputs
      <3>2. IsPrefix(i, a) \/ a \in Ancestors(i) BY <1>2, <2>2, <3>1, LocationsAre, PathsAbove
      <3>3. AtInputs(a) \/ a \in Towards(Inputs) BY <3>2 DEF AtInputs, Towards
      <3> QED BY <2>1, <3>3, LocationsAre
    <2>4. CASE p \in Towards(Inputs)
      <3>1. PICK i \in Inputs : p \in Ancestors(i) BY <2>4, LocationsAre
      <3>2. a \in Ancestors(i) BY <1>2, <2>2, <3>1, LocationsAre, PathsAbove
      <3> QED BY <2>1, <3>2 DEF Towards
    <2>5. AtInputs(p) \/ p \in Towards(Inputs) BY <2>2, LocationsAre
    <2> QED BY <2>3, <2>4, <2>5
  <1>4. u = [p \in left |-> t[p]] BY DEF OnlyInputs
  <1>5. <<>> \in left BY <1>1
  <1> HIDE DEF left
  <1>6. Rooted(u) BY <1>1, <1>2, <1>3, <1>4, <1>5, PartIsTree
  <1>7. DOMAIN u = left /\ \A p \in left : u[p] = t[p] BY <1>4
  <1> HIDE DEF u
  <1>8. ASSUME NEW p \in left
        PROVE  (AtInputs(p) /\ (u[p] = Dir \/ u[p] \in Files)) \/ (p \in Towards(Inputs) \cup {<<>>} /\ u[p] = Dir)
    <2>1. CASE AtInputs(p) BY <1>2, <1>7, <2>1, LocationsAre DEF WorkSpace
    <2>2. CASE p = <<>> BY <1>1, <1>7, <2>2
    <2>3. CASE p \in Towards(Inputs) /\ ~AtInputs(p) BY <1>2, <1>7, <2>3 DEF WorkSpace
    <2>4. AtInputs(p) \/ p \in Towards(Inputs) \cup {<<>>} BY LocationsAre DEF left
    <2> QED BY <2>1, <2>2, <2>3, <2>4
  <1>9. HoldsInputs(u) BY <1>6, <1>7, <1>8 DEF HoldsInputs
  <1>10. At(DOMAIN u, Inputs) = At(DOMAIN t, Inputs) BY <1>2, <1>7, LocationsAre DEF left
  <1>11. \A p \in At(DOMAIN u, Inputs) : u[p] = t[p] BY <1>7 DEF At
  <1> QED BY <1>9, <1>10, <1>11 DEF InputsOf, u

\* What lies at the outputs.
OutputsOf(t) == [p \in {q \in DOMAIN t : AtOutputs(q)} |-> t[p]]

\* What is read of the outputs depends on them only.
LEMMA OutputsDecide ==
    ASSUME NEW t, NEW u, OutputsOf(t) = OutputsOf(u)
    PROVE  /\ Outputs(t) = Outputs(u) /\ \A p \in Outputs(t) : t[p] = u[p]
           /\ \A p : AtOutputs(p) => (p \in DOMAIN t <=> p \in DOMAIN u) /\ (p \in DOMAIN t => t[p] = u[p])
  <1>1. DOMAIN OutputsOf(t) = {q \in DOMAIN t : AtOutputs(q)} /\ DOMAIN OutputsOf(u) = {q \in DOMAIN u : AtOutputs(q)} BY DEF OutputsOf
  <1>2. \A p \in DOMAIN OutputsOf(t) : OutputsOf(t)[p] = t[p] BY DEF OutputsOf
  <1>3. \A p \in DOMAIN OutputsOf(u) : OutputsOf(u)[p] = u[p] BY DEF OutputsOf
  <1>4. \A p : AtOutputs(p) => (p \in DOMAIN t <=> p \in DOMAIN u) /\ (p \in DOMAIN t => t[p] = u[p]) BY <1>1, <1>2, <1>3
  <1>5. Outputs(t) = {p \in DOMAIN t : AtOutputs(p) /\ t[p] # Dir} BY DEF Outputs, Below, AtOutputs
  <1>6. Outputs(u) = {p \in DOMAIN u : AtOutputs(p) /\ u[p] # Dir} BY DEF Outputs, Below, AtOutputs
  <1> QED BY <1>4, <1>5, <1>6

\* Other sources take the place of the inputs.
LEMMA SourcesPut ==
    ASSUME NEW t, WorkSpace(t), NEW s \in Sources
    PROVE  WorkSpace(Over(s, Removed(t, Inputs))) /\ OutputsOf(Over(s, Removed(t, Inputs))) = OutputsOf(t)
  <1> DEFINE r == Removed(t, Inputs)
             u == Over(s, r)
  <1>1. /\ r \in Trees /\ Rooted(r) /\ DOMAIN r = {p \in DOMAIN t : ~AtInputs(p)}
        /\ \A p \in DOMAIN r : r[p] = t[p]
    <2>1. Rooted(t) /\ Inputs \subseteq Paths /\ <<>> \notin Inputs BY LocationsAre DEF WorkSpace
    <2>2. /\ r \in Trees /\ Rooted(r) /\ DOMAIN r = {p \in DOMAIN t : \A o \in Inputs : ~IsPrefix(o, p)}
          /\ \A p \in DOMAIN r : r[p] = t[p]
      BY <2>1, RemovedIs
    <2> QED BY <2>2 DEF AtInputs
  <1> HIDE DEF r
  <1>2. DOMAIN t \subseteq Paths /\ DOMAIN r \subseteq Paths /\ \A p \in DOMAIN r : r[p] \in Nodes
    BY <1>1 DEF WorkSpace, Rooted, IsTree
  <1>3. HoldsInputs(s) /\ IsFiniteSet(DOMAIN s) /\ DOMAIN s \subseteq Paths /\ \A p \in DOMAIN s : s[p] \in Nodes
    BY SourcesAre DEF HoldsInputs, Rooted, IsTree
  <1>4. /\ DOMAIN u = DOMAIN s \cup DOMAIN r
        /\ \A p \in DOMAIN s : u[p] = s[p]
        /\ \A p \in DOMAIN r \ DOMAIN s : u[p] = r[p]
    BY <1>2, <1>3, OverIs
  <1>5. ASSUME NEW p \in DOMAIN s
        PROVE  /\ \A a \in Ancestors(p) : IF a \in DOMAIN s THEN s[a] = Dir ELSE a \in DOMAIN r /\ r[a] = Dir
               /\ s[p] # Dir => p # <<>> /\ \A q \in DOMAIN r : p \notin Ancestors(q)
    <2>1. \A a \in Ancestors(p) : a \in DOMAIN s /\ s[a] = Dir BY <1>3 DEF HoldsInputs, Rooted, IsTree
    <2>2. ASSUME s[p] # Dir, NEW q \in DOMAIN r, p \in Ancestors(q) PROVE FALSE
      <3>1. AtInputs(p) BY <1>3, <2>2 DEF HoldsInputs
      <3>2. p \in Paths /\ q \in Paths /\ IsPrefix(p, q) BY <1>2, <1>3, <2>2, AncestorsAre
      <3>3. AtInputs(q) BY <3>1, <3>2, PathsAbove, LocationsAre DEF AtInputs
      <3> QED BY <1>1, <3>3
    <2>3. s[p] # Dir => p # <<>> BY <1>3 DEF HoldsInputs, Rooted
    <2> QED BY <2>1, <2>2, <2>3
  <1>6. u \in Trees /\ Rooted(u) BY <1>1, <1>3, <1>5, OverIsTree
  <1>7. u \in Trees BY <1>6
  <1> HIDE DEF u
  <1>8. ASSUME NEW p \in DOMAIN u
        PROVE  /\ AtInputs(p) => u[p] = Dir \/ u[p] \in Files
               /\ p \in Towards(Inputs) /\ ~AtInputs(p) => u[p] = Dir
               /\ p \in Towards({Output, Public}) => u[p] = Dir
    <2>1. CASE p \in DOMAIN s
      <3>1. p \in Paths /\ u[p] = s[p] BY <1>3, <1>4, <2>1
      <3>2. (AtInputs(p) /\ (s[p] = Dir \/ s[p] \in Files)) \/ (p \in Towards(Inputs) \cup {<<>>} /\ s[p] = Dir)
        BY <1>3, <2>1 DEF HoldsInputs
      <3> QED BY <3>1, <3>2, PlacesAreApart
    <2>2. CASE p \notin DOMAIN s
      <3>1. p \in DOMAIN t /\ u[p] = t[p] BY <1>1, <1>4, <2>2
      <3> QED BY <3>1 DEF WorkSpace
    <2> QED BY <2>1, <2>2
  <1>9. WorkSpace(u) BY <1>6, <1>8 DEF WorkSpace
  <1>10. ASSUME NEW p \in Paths, AtOutputs(p)
         PROVE  (p \in DOMAIN u <=> p \in DOMAIN t) /\ (p \in DOMAIN t => u[p] = t[p])
    <2>1. ~AtInputs(p) /\ p \notin Towards(Inputs) /\ p # <<>> BY <1>10, PlacesAreApart
    <2>2. p \notin DOMAIN s BY <1>3, <2>1 DEF HoldsInputs
    <2> QED BY <1>1, <1>4, <2>1, <2>2
  <1>11. {q \in DOMAIN u : AtOutputs(q)} = {q \in DOMAIN t : AtOutputs(q)} BY <1>2, <1>3, <1>4, <1>10
  <1>12. \A p \in {q \in DOMAIN u : AtOutputs(q)} : u[p] = t[p] BY <1>2, <1>10, <1>11
  <1> QED BY <1>9, <1>11, <1>12 DEF OutputsOf, u, r

\* What the program writes takes the place of what is there.
LEMMA ProductsPut ==
    ASSUME NEW t, WorkSpace(t), NEW new, IsBeside(new), NEW gone,
           \A p : p \in gone <=> (p \in DOMAIN new /\ new[p] # Dir)
    PROVE  /\ WorkSpace(Over(new, Removed(t, gone)))
           /\ InputsOf(Over(new, Removed(t, gone))) = InputsOf(t)
           /\ \A p \in DOMAIN Over(new, Removed(t, gone)) :
                IF p \in DOMAIN new THEN Over(new, Removed(t, gone))[p] = new[p]
                ELSE p \in DOMAIN t /\ Over(new, Removed(t, gone))[p] = t[p]
  <1> DEFINE r == Removed(t, gone)
             u == Over(new, r)
  <1>1. gone \subseteq Paths /\ <<>> \notin gone BY BesideIs
  <1>2. /\ r \in Trees /\ Rooted(r) /\ DOMAIN r = {p \in DOMAIN t : \A o \in gone : ~IsPrefix(o, p)}
        /\ \A p \in DOMAIN r : r[p] = t[p]
    <2>1. Rooted(t) BY DEF WorkSpace
    <2>2. /\ Removed(t, gone) \in Trees /\ Rooted(Removed(t, gone))
          /\ DOMAIN Removed(t, gone) = {p \in DOMAIN t : \A o \in gone : ~IsPrefix(o, p)}
          /\ \A p \in DOMAIN Removed(t, gone) : Removed(t, gone)[p] = t[p]
      BY ONLY <1>1, <2>1, RemovedIs
    <2> QED BY ONLY <2>2
  <1> HIDE DEF r
  <1>3. DOMAIN t \subseteq Paths /\ DOMAIN r \subseteq Paths /\ \A p \in DOMAIN r : r[p] \in Nodes
    BY <1>2 DEF WorkSpace, Rooted, IsTree
  <1>4. DOMAIN new \subseteq Paths /\ IsFiniteSet(DOMAIN new) /\ \A p \in DOMAIN new : new[p] \in Nodes BY BesideIs
  <1>5. /\ DOMAIN u = DOMAIN new \cup DOMAIN r
        /\ \A p \in DOMAIN new : u[p] = new[p]
        /\ \A p \in DOMAIN r \ DOMAIN new : u[p] = r[p]
    BY <1>3, <1>4, OverIs
  <1>6. ASSUME NEW p \in DOMAIN new
        PROVE  /\ \A a \in Ancestors(p) : IF a \in DOMAIN new THEN new[a] = Dir ELSE a \in DOMAIN r /\ r[a] = Dir
               /\ new[p] # Dir => p # <<>> /\ \A q \in DOMAIN r : p \notin Ancestors(q)
    <2>1. <<>> \in DOMAIN r /\ r[<<>>] = Dir BY <1>2 DEF Rooted
    <2>2. ASSUME new[p] # Dir, NEW q \in DOMAIN r, p \in Ancestors(q) PROVE FALSE
      <3>1. q \in Paths /\ IsPrefix(p, q) BY <1>3, <2>2, AncestorsAre
      <3> QED BY <1>2, <2>2, <3>1
    <2> QED BY <2>1, <2>2, BesideIs
  <1>7. u \in Trees /\ Rooted(u) BY <1>2, <1>4, <1>6, OverIsTree
  <1> HIDE DEF u
  <1>8. ASSUME NEW p \in DOMAIN u PROVE IF p \in DOMAIN new THEN u[p] = new[p] ELSE p \in DOMAIN t /\ u[p] = t[p]
    BY <1>2, <1>5
  <1>9. \A p \in DOMAIN new : ~AtInputs(p) BY BesideIs
  <1>10. ASSUME NEW p \in DOMAIN u
         PROVE  /\ AtInputs(p) => u[p] = Dir \/ u[p] \in Files
                /\ p \in Towards(Inputs) /\ ~AtInputs(p) => u[p] = Dir
                /\ p \in Towards({Output, Public}) => u[p] = Dir
    <2>1. CASE p \in DOMAIN new BY <1>8, <2>1, BesideIs
    <2>2. CASE p \notin DOMAIN new BY <1>8, <2>2 DEF WorkSpace
    <2> QED BY <2>1, <2>2
  <1>11. WorkSpace(u) BY <1>7, <1>10 DEF WorkSpace
  <1>12. ASSUME NEW p \in DOMAIN t, AtInputs(p) PROVE p \in DOMAIN u /\ u[p] = t[p]
    <2>1. \A o \in gone : ~IsPrefix(o, p) BY <1>3, <1>12, BesideInputs
    <2> QED BY <1>2, <1>5, <1>9, <1>12, <2>1
  <1>13. At(DOMAIN u, Inputs) = At(DOMAIN t, Inputs) BY <1>8, <1>9, <1>12, LocationsAre
  <1>14. \A p \in At(DOMAIN u, Inputs) : u[p] = t[p] BY <1>12, <1>13, LocationsAre
  <1>15. InputsOf(u) = InputsOf(t) BY <1>13, <1>14 DEF InputsOf
  <1> QED BY <1>8, <1>11, <1>15 DEF u, r

\* Without outputs it is a work space still.
LEMMA SomeOutputsGone ==
    ASSUME NEW t, WorkSpace(t), NEW places, places \subseteq {Output, Public}
    PROVE  /\ WorkSpace(Removed(t, places))
           /\ InputsOf(Removed(t, places)) = InputsOf(t)
           /\ DOMAIN Removed(t, places) = {p \in DOMAIN t : \A o \in places : ~IsPrefix(o, p)}
           /\ \A p \in DOMAIN Removed(t, places) : Removed(t, places)[p] = t[p]
  <1> DEFINE u == Removed(t, places)
  <1>1. /\ u \in Trees /\ Rooted(u) /\ DOMAIN u = {p \in DOMAIN t : \A o \in places : ~IsPrefix(o, p)}
        /\ \A p \in DOMAIN u : u[p] = t[p]
    <2>1. Rooted(t) /\ places \subseteq Paths /\ <<>> \notin places BY LocationsAre DEF WorkSpace
    <2> QED BY <2>1, RemovedIs
  <1> HIDE DEF u
  <1>2. DOMAIN t \subseteq Paths BY DEF WorkSpace, Rooted, IsTree
  <1>3. WorkSpace(u) BY <1>1 DEF WorkSpace
  <1>6. \A p \in DOMAIN t : AtInputs(p) => \A o \in places : ~IsPrefix(o, p)
    BY <1>2, PlacesAreApart DEF AtOutputs
  <1>4. At(DOMAIN u, Inputs) = At(DOMAIN t, Inputs) BY <1>1, <1>6, LocationsAre
  <1>5. \A p \in At(DOMAIN u, Inputs) : u[p] = t[p] BY <1>1, LocationsAre
  <1> QED BY <1>1, <1>3, <1>4, <1>5 DEF InputsOf, u

LEMMA OutputsGone ==
    ASSUME NEW t, WorkSpace(t)
    PROVE  /\ WorkSpace(Removed(t, {Output, Public}))
           /\ InputsOf(Removed(t, {Output, Public})) = InputsOf(t)
           /\ \A p \in DOMAIN Removed(t, {Output, Public}) : ~AtOutputs(p)
  <1> DEFINE places == {Output, Public}
  <1>1. places \subseteq {Output, Public} OBVIOUS
  <1>2. Output \in places /\ Public \in places OBVIOUS
  <1> HIDE DEF places
  <1>3. WorkSpace(Removed(t, places)) /\ InputsOf(Removed(t, places)) = InputsOf(t)
        /\ DOMAIN Removed(t, places) = {p \in DOMAIN t : \A o \in places : ~IsPrefix(o, p)}
    BY <1>1, SomeOutputsGone
  <1>4. \A p \in DOMAIN Removed(t, places) : ~AtOutputs(p) BY <1>2, <1>3 DEF AtOutputs
  <1> QED BY <1>3, <1>4 DEF places

-----------------------------------------------------------------------------
(* Fingerprints                                                            *)

\* The entries of a directory, and how what lies below it is divided among them.
LEMMA EntriesAre ==
    ASSUME NEW t, Rooted(t), NEW p \in DOMAIN t
    PROVE  /\ p \in Paths /\ IsFiniteSet(DirEntries(t, p)) /\ DirEntries(t, p) \subseteq DOMAIN t /\ DirEntries(t, p) \subseteq Paths
           /\ \A q \in DirEntries(t, p) :
                /\ IsPrefix(p, q) /\ p # q /\ p \in Ancestors(q) /\ Len(q) = Len(p) + 1
                /\ Below(t, q) \subseteq Below(t, p) /\ Cardinality(Below(t, q)) < Cardinality(Below(t, p))
           /\ \A f \in Below(t, p) : f # p => \E q \in DirEntries(t, p) : f \in Below(t, q)
           /\ IsFiniteSet(Below(t, p)) /\ Cardinality(Below(t, p)) \in Nat
  <1>1. IsFiniteSet(DOMAIN t) /\ DOMAIN t \subseteq Paths BY DEF Rooted, IsTree
  <1>2. \A q \in DOMAIN t : IsFiniteSet(Below(t, q)) /\ Cardinality(Below(t, q)) \in Nat
    <2>1. \A q \in DOMAIN t : Below(t, q) \in SUBSET DOMAIN t BY DEF Below
    <2> QED BY <1>1, <2>1, FS_Subset, FS_CardinalityType
  <1>3. DirEntries(t, p) \in SUBSET DOMAIN t BY DEF DirEntries
  <1>4. IsFiniteSet(DirEntries(t, p)) BY <1>1, <1>3, FS_Subset
  <1>5. ASSUME NEW q \in DirEntries(t, p)
        PROVE  /\ IsPrefix(p, q) /\ p # q /\ p \in Ancestors(q) /\ Len(q) = Len(p) + 1
               /\ Below(t, q) \subseteq Below(t, p) /\ Cardinality(Below(t, q)) < Cardinality(Below(t, p))
    <2>1. q \in Paths /\ q \in DOMAIN t /\ q # <<>> /\ Front(q) = p BY <1>1 DEF DirEntries
    <2>2. p \in Ancestors(q) /\ Len(p) = Len(q) - 1 BY <2>1, FrontIs
    <2>3. IsPrefix(p, q) /\ p # q /\ p \in Paths BY <2>1, <2>2, AncestorsAre
    <2>4. Len(q) = Len(p) + 1
      <3>1. Len(q) \in Nat /\ Len(p) \in Nat BY <2>1, <2>3 DEF Paths
      <3> QED BY <2>2, <3>1
    <2>5. Below(t, q) \subseteq Below(t, p) /\ p \in Below(t, p) /\ p \notin Below(t, q)
      BY <1>1, <2>1, <2>3, PrefixOrder DEF Below
    <2>6. Cardinality(Below(t, q)) <= Cardinality(Below(t, p)) /\ Cardinality(Below(t, q)) # Cardinality(Below(t, p))
      BY <1>2, <2>5, FS_Subset
    <2>7. Cardinality(Below(t, q)) \in Nat /\ Cardinality(Below(t, p)) \in Nat BY <1>2, <2>1
    <2>8. Cardinality(Below(t, q)) < Cardinality(Below(t, p)) BY <2>6, <2>7
    <2> QED BY <2>2, <2>3, <2>4, <2>5, <2>8
  <1>6. ASSUME NEW f \in Below(t, p), f # p PROVE \E q \in DirEntries(t, p) : f \in Below(t, q)
    <2>1. f \in DOMAIN t /\ f \in Paths /\ p \in Paths /\ IsPrefix(p, f) BY <1>1 DEF Below
    <2>2. Len(p) \in Nat /\ Len(f) \in Nat /\ Len(p) <= Len(f) /\ \A i \in 1 .. Len(p) : p[i] = f[i] BY <2>1, PrefixIs DEF Paths
    <2>3. Len(p) # Len(f) BY <1>6, <2>1, <2>2, PathsEqual
    <2> DEFINE n == Len(p) + 1
               q == SubSeq(f, 1, n)
    <2>4. n \in 0 .. Len(f) /\ n \in Nat /\ n # 0 BY <2>2, <2>3
    <2>5. q \in Paths /\ Len(q) = n /\ \A i \in 1 .. n : q[i] = f[i] BY <2>1, <2>4, PartIs
    <2> HIDE DEF q
    <2>6. IsPrefix(q, f) BY <2>1, <2>4, <2>5, PrefixIs
    <2>7. q \in DOMAIN t
      <3>1. CASE q = f BY <2>1, <3>1
      <3>2. CASE q # f
        <4>1. q \in Ancestors(f) BY <2>1, <2>5, <2>6, <3>2, AncestorsAre
        <4> QED BY <2>1, <4>1 DEF Rooted, IsTree
      <3> QED BY <3>1, <3>2
    <2>8. q # <<>> BY <2>4, <2>5
    <2>9. Front(q) = p
      <3>1. Front(q) \in Paths /\ Len(Front(q)) = Len(p) BY <2>2, <2>4, <2>5, <2>8, FrontIs
      <3>2. IsPrefix(p, q)
        <4>1. \A i \in 1 .. Len(p) : i \in 1 .. n BY <2>2
        <4>2. Len(p) <= Len(q) /\ \A i \in 1 .. Len(p) : p[i] = q[i] BY <2>2, <2>5, <4>1
        <4> QED BY <2>1, <2>5, <4>2, PrefixIs
      <3>3. p # q BY <2>2, <2>5
      <3>4. IsPrefix(p, Front(q)) BY <2>1, <2>5, <2>8, <3>2, <3>3, AncestorsAre, FrontIs
      <3> QED BY <2>1, <3>1, <3>4, PrefixIs, PathsEqual
    <2> QED BY <2>1, <2>6, <2>7, <2>8, <2>9 DEF DirEntries, Below
  <1> QED BY <1>1, <1>2, <1>3, <1>4, <1>5, <1>6

\* The digests of what at gives for the paths of s.
Digests(s, at) == [i \in DOMAIN s |-> Digest(at[s[i]])]

\* The entries of directory p that count.
UsedIn(t, p, at) == {q \in DirEntries(t, p) : IsUsed(t, p, q, at[q])}

\* The recursion of Scan.
ScanStep(t, at, p) == IF t[p] # Dir THEN t[p].data ELSE FlattenSeq(Digests(InPathOrder(UsedIn(t, p, at)), at))

ScanOf(t) == CHOOSE at : at = [p \in DOMAIN t |-> ScanStep(t, at, p)]

\* What the concatenation of sequences is.
LEMMA FlattenType ==
    ASSUME NEW X, NEW seqs \in Seq(Seq(X))
    PROVE  FlattenSeq(seqs) \in Seq(X)
  <1>1. CASE seqs = <<>>
    <2>1. FlattenSeq(seqs) = <<>> BY <1>1 DEF FlattenSeq
    <2> QED BY <2>1
  <1>2. CASE seqs # <<>>
    <2>1. PICK f : Flattens(f, seqs, Seq(X)) BY <1>2, FlattenIs
    <2>2. Len(seqs) \in 1 .. Len(seqs) BY <1>2
    <2> QED BY <2>1, <2>2 DEF Flattens
  <1> QED BY <1>1, <1>2

\* Digests are sequences.
LEMMA DigestsAre ==
    ASSUME NEW S, NEW s \in Seq(S), NEW at, \A q \in S : at[q] \in Seq(Nat)
    PROVE  /\ Digests(s, at) \in Seq(Seq(Nat)) /\ Len(Digests(s, at)) = Len(s)
           /\ \A i \in 1 .. Len(s) : Digests(s, at)[i] = Digest(at[s[i]])
           /\ FlattenSeq(Digests(s, at)) \in Seq(Nat)
  <1> DEFINE R == Seq(Nat)
             n == Len(s)
             d == Digests(s, at)
  <1>1. n \in Nat /\ DOMAIN s = 1 .. n /\ \A i \in 1 .. n : s[i] \in S OBVIOUS
  <1>2. \A x \in Seq(Nat) : Digest(x) \in Seq(Nat) BY DEF Digest
  <1>3. \A i \in 1 .. n : Digest(at[s[i]]) \in R BY <1>1, <1>2
  <1>4. d = [i \in 1 .. n |-> Digest(at[s[i]])] BY <1>1 DEF Digests
  <1> HIDE DEF R, n, d
  <1>5. d \in Seq(R) /\ Len(d) = n BY <1>1, <1>3, <1>4
  <1>6. FlattenSeq(d) \in Seq(Nat) BY <1>5, FlattenType DEF R
  <1> QED BY <1>4, <1>5, <1>6 DEF R, n, d

\* The used entries in their order.
LEMMA UsedAre ==
    ASSUME NEW t, Rooted(t), NEW p \in DOMAIN t, NEW at
    PROVE  /\ UsedIn(t, p, at) \subseteq DirEntries(t, p) /\ UsedIn(t, p, at) \subseteq Paths /\ UsedIn(t, p, at) \subseteq DOMAIN t
           /\ IsFiniteSet(UsedIn(t, p, at))
           /\ Lists(InPathOrder(UsedIn(t, p, at)), UsedIn(t, p, at))
           /\ InPathOrder(UsedIn(t, p, at)) \in Seq(UsedIn(t, p, at))
  <1> DEFINE U == UsedIn(t, p, at)
  <1>1. U \subseteq DirEntries(t, p) BY DEF UsedIn
  <1> HIDE DEF U
  <1>2. U \subseteq Paths /\ U \subseteq DOMAIN t /\ IsFiniteSet(U) BY <1>1, EntriesAre, FS_Subset
  <1>3. Lists(InPathOrder(U), U) BY <1>2, PathOrderIs
  <1> QED BY <1>1, <1>2, <1>3 DEF Lists, U

\* What the hasher of a path is given: the bytes of a file, the digests of the used entries of a directory.
IsScan(at, t) ==
    /\ at \in [DOMAIN t -> Seq(Nat)]
    /\ \A p \in DOMAIN t : at[p] = ScanStep(t, at, p)

\* The recursion of Scan ends.
LEMMA ScanIs ==
    ASSUME NEW t, Rooted(t)
    PROVE  /\ IsScan(ScanOf(t), t)
           /\ \A p : Scan(t, p) = IF p \in DOMAIN t THEN ScanOf(t)[p] ELSE <<>>
  <1> DEFINE D == DOMAIN t
             R == Seq(Nat)
             m == [p \in D |-> Cardinality(Below(t, p))]
             step == [g \in [D -> R] |-> [p \in D |-> ScanStep(t, g, p)]]
  <1>1. \A p : Scan(t, p) = IF p \in DOMAIN t THEN ScanOf(t)[p] ELSE <<>>
    BY DEF Scan, ScanOf, ScanStep, UsedIn, Digests
  <1>2. m \in [D -> Nat] BY EntriesAre
  <1>3. ASSUME NEW g \in [D -> R], NEW p \in D PROVE ScanStep(t, g, p) \in R
    <2>1. CASE t[p] # Dir
      <3>1. t[p].data \in R BY NodesAre DEF Rooted, IsTree
      <3> QED BY <2>1, <3>1 DEF ScanStep
    <2>2. CASE t[p] = Dir
      <3> DEFINE U == UsedIn(t, p, g)
      <3>1. InPathOrder(U) \in Seq(U) /\ U \subseteq D BY UsedAre
      <3>2. \A q \in U : g[q] \in Seq(Nat) BY <3>1
      <3> HIDE DEF U
      <3>3. FlattenSeq(Digests(InPathOrder(U), g)) \in Seq(Nat) BY <3>1, <3>2, DigestsAre
      <3> QED BY <2>2, <3>3 DEF ScanStep, U
    <2> QED BY <2>1, <2>2
  <1>4. ASSUME NEW g \in [D -> R], NEW h \in [D -> R], NEW p \in D, \A q \in D : m[q] < m[p] => g[q] = h[q]
        PROVE  ScanStep(t, g, p) = ScanStep(t, h, p)
    <2>1. \A q \in DirEntries(t, p) : g[q] = h[q]
      <3>1. \A q \in DirEntries(t, p) : q \in D /\ m[q] < m[p] BY EntriesAre
      <3> QED BY <1>4, <3>1
    <2>2. UsedIn(t, p, g) = UsedIn(t, p, h) BY <2>1 DEF UsedIn
    <2> DEFINE U == UsedIn(t, p, g)
               s == InPathOrder(U)
    <2>3. s \in Seq(U) /\ U \subseteq DirEntries(t, p) BY UsedAre
    <2> HIDE DEF s
    <2>4. Digests(s, g) = Digests(s, h)
      <3>1. \A i \in DOMAIN s : s[i] \in U BY <2>3
      <3> QED BY <2>1, <2>3, <3>1 DEF Digests
    <2> QED BY <2>2, <2>4 DEF ScanStep, s
  <1>5. step \in [[D -> R] -> [D -> R]] BY <1>3
  <1>6. \A g \in [D -> R] : step[g] = [p \in D |-> ScanStep(t, g, p)] OBVIOUS
  <1> HIDE DEF step, R, m
  <1>7. IsRecursive(step, D, R, m)
    <2>1. <<>> \in R BY DEF R
    <2>2. ASSUME NEW g \in [D -> R], NEW h \in [D -> R], NEW p \in D, \A q \in D : m[q] < m[p] => g[q] = h[q]
          PROVE  step[g][p] = step[h][p]
      <3>1. step[g][p] = ScanStep(t, g, p) /\ step[h][p] = ScanStep(t, h, p) BY <1>6
      <3> QED BY <1>4, <2>2, <3>1
    <2> HIDE DEF D
    <2> QED BY <1>2, <1>5, <2>1, <2>2 DEF IsRecursive
  <1>8. PICK f : f \in [D -> R] /\ f = step[f]
    <2> HIDE DEF D
    <2> QED BY <1>7, RecursiveFunction
  <1>9. \E at : at = [p \in D |-> ScanStep(t, at, p)] BY <1>6, <1>8
  <1> DEFINE a == ScanOf(t)
  <1>10. a = [p \in D |-> ScanStep(t, a, p)] BY <1>9 DEF ScanOf
  <1> HIDE DEF a
  <1>11. \A p \in D : a[p] = ScanStep(t, a, p) BY <1>10
  <1> DEFINE A == {p \in D : a[p] \in R}
  <1>12. ASSUME NEW p \in D, \A q \in D : m[q] < m[p] => q \in A PROVE p \in A
    <2> DEFINE b == [q \in D |-> IF m[q] < m[p] THEN a[q] ELSE f[q]]
    <2>1. b \in [D -> R] BY <1>8, <1>12
    <2>2. \A q \in DirEntries(t, p) : a[q] = b[q]
      <3>1. \A q \in DirEntries(t, p) : q \in D /\ m[q] < m[p] BY EntriesAre DEF m
      <3> QED BY <3>1
    <2> HIDE DEF b
    <2>3. ScanStep(t, b, p) \in R BY <1>3, <2>1
    <2>4. UsedIn(t, p, a) = UsedIn(t, p, b) BY <2>2 DEF UsedIn
    <2> DEFINE U == UsedIn(t, p, a)
               s == InPathOrder(U)
    <2>5. s \in Seq(U) /\ U \subseteq DirEntries(t, p) BY UsedAre
    <2> HIDE DEF s
    <2>6. Digests(s, a) = Digests(s, b)
      <3>1. \A i \in DOMAIN s : s[i] \in U BY <2>5
      <3> QED BY <2>2, <2>5, <3>1 DEF Digests
    <2>7. ScanStep(t, a, p) = ScanStep(t, b, p) BY <2>4, <2>6 DEF ScanStep, s
    <2> QED BY <1>11, <2>3, <2>7
  <1> HIDE DEF A
  <1>13. \A p \in D : p \in A BY <1>2, <1>12, MeasureInduction
  <1>14. a \in [D -> R]
    <2>1. \A p \in D : a[p] \in R BY <1>13 DEF A
    <2> QED BY <1>10, <2>1
  <1> QED BY <1>1, <1>11, <1>14 DEF IsScan, a, R

\* What counts below input i.
Counts(i, p) == IsValid(i) => IsValid(p)

TrackedFiles(t, i) == {p \in Below(t, i) : t[p] # Dir /\ Counts(i, p)}

\* What lies below an ignored directory is ignored.
LEMMA ValidIs ==
    ASSUME NEW p \in Paths, NEW a \in Paths, IsPrefix(a, p)
    PROVE  IsValid(p) => IsValid(a)
  <1>1. Ancestors(a) \cup {a} \subseteq Ancestors(p) \cup {p} BY AncestorsAre, PrefixOrder
  <1> QED BY <1>1 DEF IsValid

\* Below an input an entry is used if it counts and, if it is a directory, there is something to hash in it.
LEMMA UsedIsTracked ==
    ASSUME NEW t, Rooted(t), NEW at, NEW i \in Paths, NEW p \in Below(t, i), Counts(i, p), NEW q \in DirEntries(t, p)
    PROVE  /\ q \in Below(t, i) /\ q \in Below(t, p)
           /\ (q \in UsedIn(t, p, at)) <=> (Counts(i, q) /\ (t[q] = Dir => at[q] # <<>>))
  <1>1. p \in DOMAIN t /\ IsPrefix(i, p) BY DEF Below
  <1>2. p \in Paths /\ q \in Paths /\ q \in DOMAIN t /\ IsPrefix(p, q) BY <1>1, EntriesAre
  <1>3. q \in Below(t, i) /\ q \in Below(t, p) BY <1>1, <1>2, PrefixOrder DEF Below
  <1>4. IsValid(p) => IsValid(i) BY <1>1, <1>2, ValidIs
  <1> QED BY <1>3, <1>4 DEF UsedIn, IsUsed, Counts

\* A concatenation is empty only if there is nothing in it.
LEMMA FlattenNotEmpty ==
    ASSUME NEW seqs \in Seq(Seq(Nat)), seqs # <<>>, \A k \in 1 .. Len(seqs) : seqs[k] # <<>>
    PROVE  FlattenSeq(seqs) # <<>>
  <1> DEFINE R == Seq(Nat)
             n == Len(seqs)
  <1>1. PICK f : Flattens(f, seqs, Seq(Nat)) BY FlattenIs
  <1>2. n \in Nat /\ n # 0 /\ n \in 1 .. n /\ \A k \in 1 .. n : seqs[k] \in Seq(Nat) OBVIOUS
  <1>3. FlattenSeq(seqs) = f[n] /\ f[n] = (IF n = 1 THEN seqs[n] ELSE f[n - 1] \o seqs[n]) BY <1>1, <1>2 DEF Flattens
  <1>4. ASSUME NEW x \in Seq(Nat), NEW y \in Seq(Nat), y # <<>> PROVE x \o y # <<>>
    <2>1. Len(y) # 0 /\ Len(x) \in Nat /\ Len(y) \in Nat BY <1>4
    <2>2. Len(x \o y) = Len(x) + Len(y) OBVIOUS
    <2> DEFINE z == x \o y
    <2>3. z \in Seq(Nat) /\ Len(z) # 0 BY <2>1, <2>2
    <2> HIDE DEF z
    <2>4. z # <<>> BY <2>3
    <2> QED BY <2>4 DEF z
  <1>5. CASE n = 1 BY <1>2, <1>3, <1>5
  <1>6. CASE n # 1
    <2>1. n - 1 \in 1 .. n
      <3>1. \A k \in Nat : k # 0 /\ k # 1 => k - 1 \in 1 .. k OBVIOUS
      <3> QED BY <1>2, <1>6, <3>1
    <2>2. f[n - 1] \in Seq(Nat) BY <1>1, <2>1 DEF Flattens
    <2> QED BY <1>2, <1>3, <1>4, <1>6, <2>2
  <1> QED BY <1>5, <1>6

\* There is something to hash in a directory if it holds a file that counts, at any depth.
LEMMA DirectoriesCount ==
    ASSUME NEW t, Rooted(t), NEW at, IsScan(at, t), NEW i \in Paths
    PROVE  \A p \in Below(t, i) : Counts(i, p) /\ t[p] = Dir =>
                ((at[p] # <<>>) <=> \E f \in Below(t, p) : f \in TrackedFiles(t, i))
  <1> DEFINE D == Below(t, i)
             m == [p \in D |-> Cardinality(Below(t, p))]
             Has(p) == \E f \in Below(t, p) : f \in TrackedFiles(t, i)
             A == {p \in D : Counts(i, p) /\ t[p] = Dir => ((at[p] # <<>>) <=> Has(p))}
  <1>1. \A p \in D : p \in DOMAIN t BY DEF Below
  <1>2. m \in [D -> Nat] BY <1>1, EntriesAre
  <1>3. ASSUME NEW p \in D, \A q \in D : m[q] < m[p] => q \in A PROVE p \in A
    <2> SUFFICES ASSUME Counts(i, p), t[p] = Dir PROVE (at[p] # <<>>) <=> Has(p) OBVIOUS
    <2> DEFINE U == UsedIn(t, p, at)
               s == InPathOrder(U)
               d == Digests(s, at)
    <2>1. at[p] = FlattenSeq(d) BY <1>1 DEF IsScan, ScanStep
    <2>2. s \in Seq(U) /\ U \subseteq DirEntries(t, p) /\ U \subseteq DOMAIN t /\ \A q \in U : \E k \in 1 .. Len(s) : s[k] = q
      BY <1>1, UsedAre DEF Lists
    <2>3. \A q \in DirEntries(t, p) : q \in D /\ m[q] < m[p] /\ q \in A
      <3>1. \A q \in DirEntries(t, p) : q \in D BY UsedIsTracked
      <3>2. \A q \in DirEntries(t, p) : m[q] < m[p] BY <1>1, <3>1, EntriesAre
      <3> QED BY <1>3, <3>1, <3>2
    <2>4. /\ d \in Seq(Seq(Nat)) /\ Len(d) = Len(s)
          /\ \A k \in 1 .. Len(s) : d[k] = Digest(at[s[k]])
      <3>1. \A q \in U : at[q] \in Seq(Nat) BY <2>2 DEF IsScan
      <3> HIDE DEF s, U
      <3> QED BY <2>2, <3>1, DigestsAre
    <2>5. ASSUME at[p] # <<>> PROVE Has(p)
      <3>1. d # <<>> BY <2>1, <2>5 DEF FlattenSeq
      <3>2. PICK q \in U : TRUE
        <4>1. Len(s) # 0
          <5> HIDE DEF d
          <5> QED BY <2>4, <3>1
        <4> HIDE DEF s, U
        <4>2. s[1] \in U BY <2>2, <4>1
        <4> QED BY <4>2
      <3>3. q \in DirEntries(t, p) /\ q \in Below(t, i) /\ q \in Below(t, p) /\ Counts(i, q) /\ (t[q] = Dir => at[q] # <<>>)
        BY <2>2, UsedIsTracked
      <3>4. CASE t[q] # Dir
        <4>1. q \in TrackedFiles(t, i) BY <3>3, <3>4 DEF TrackedFiles
        <4> QED BY <3>3, <4>1
      <3>5. CASE t[q] = Dir
        <4>1. Has(q) BY <2>3, <3>3, <3>5
        <4>2. Below(t, q) \subseteq Below(t, p) BY <1>1, <3>3, EntriesAre
        <4> QED BY <4>1, <4>2
      <3> QED BY <3>4, <3>5
    <2>6. ASSUME Has(p) PROVE at[p] # <<>>
      <3>1. PICK f \in Below(t, p) : f \in TrackedFiles(t, i) BY <2>6
      <3>2. f # p /\ f \in DOMAIN t /\ f \in Paths BY <3>1 DEF TrackedFiles, Below, Rooted, IsTree
      <3>3. PICK q \in DirEntries(t, p) : f \in Below(t, q) BY <1>1, <3>1, <3>2, EntriesAre
      <3>4. Counts(i, q)
        <4>1. IsPrefix(q, f) /\ q \in Paths BY <1>1, <3>3, EntriesAre DEF Below
        <4>2. Counts(i, f) BY <3>1 DEF TrackedFiles
        <4> QED BY <3>2, <4>1, <4>2, ValidIs DEF Counts
      <3>5. t[q] = Dir => at[q] # <<>> BY <2>3, <3>1, <3>3, <3>4
      <3>6. q \in U BY <3>4, <3>5, UsedIsTracked
      <3>7. Len(s) # 0 BY <2>2, <3>6
      <3>8. d # <<>>
        <4> HIDE DEF d, s
        <4> QED BY <2>4, <3>7
      <3>9. \A k \in 1 .. Len(d) : d[k] # <<>>
        <4>1. \A x \in Seq(Nat) : Digest(x) # <<>> BY DEF Digest
        <4>2. \A k \in 1 .. Len(s) : s[k] \in DOMAIN t
          <5> HIDE DEF s, U
          <5> QED BY <2>2
        <4>3. \A k \in 1 .. Len(s) : at[s[k]] \in Seq(Nat) BY <4>2 DEF IsScan
        <4> HIDE DEF d, s
        <4> QED BY <2>4, <4>1, <4>3
      <3> HIDE DEF d
      <3> QED BY <2>1, <2>4, <3>8, <3>9, FlattenNotEmpty
    <2> QED BY <2>5, <2>6
  <1> HIDE DEF A
  <1>4. \A p \in D : p \in A
    <2> HIDE DEF D, m
    <2> QED BY <1>2, <1>3, MeasureInduction
  <1> QED BY <1>4 DEF A

\* Two trees hold the same files that count at input i.
SameFiles(t, u, i) ==
    /\ TrackedFiles(t, i) = TrackedFiles(u, i)
    /\ \A p \in TrackedFiles(t, i) : t[p].data = u[p].data

\* The entries that one tree uses the other uses too.
LEMMA SameUsed ==
    ASSUME NEW t, Rooted(t), NEW u, Rooted(u), NEW at, IsScan(at, t), NEW bt, IsScan(bt, u),
           NEW i \in Paths, SameFiles(t, u, i),
           NEW p \in Below(t, i), p \in Below(u, i), Counts(i, p),
           NEW q \in UsedIn(t, p, at)
    PROVE  q \in UsedIn(u, p, bt) /\ q \in Below(t, i) /\ q \in Below(u, i) /\ Counts(i, q)
  <1>1. p \in DOMAIN t /\ p \in DOMAIN u BY DEF Below
  <1>2. q \in DirEntries(t, p) BY DEF UsedIn
  <1>3. q \in Below(t, i) /\ Counts(i, q) /\ (t[q] = Dir => at[q] # <<>>) BY <1>2, UsedIsTracked
  <1>4. q \in DirEntries(u, p) /\ (u[q] = Dir => bt[q] # <<>>)
    <2>1. CASE t[q] # Dir
      <3>1. q \in TrackedFiles(u, i) BY <1>3, <2>1 DEF TrackedFiles, SameFiles
      <3> QED BY <1>2, <3>1 DEF TrackedFiles, Below, DirEntries
    <2>2. CASE t[q] = Dir
      <3>1. PICK f \in Below(t, q) : f \in TrackedFiles(t, i) BY <1>3, <2>2, DirectoriesCount
      <3>2. f \in TrackedFiles(u, i) BY <3>1 DEF SameFiles
      <3>3. f # q /\ IsPrefix(q, f) BY <2>2, <3>1 DEF TrackedFiles, Below
      <3>4. f \in DOMAIN u /\ f \in Paths /\ q \in Paths BY <1>1, <1>2, <3>2, EntriesAre DEF TrackedFiles, Below, Rooted, IsTree
      <3>5. q \in Ancestors(f) BY <3>3, <3>4, AncestorsAre
      <3>6. q \in DOMAIN u /\ u[q] = Dir BY <3>4, <3>5 DEF Rooted, IsTree
      <3>7. q \in DirEntries(u, p) BY <1>2, <3>6 DEF DirEntries
      <3>8. q \in Below(u, i) /\ f \in Below(u, q)
        <4>1. q \in Below(u, i) BY <3>7, UsedIsTracked
        <4> QED BY <3>3, <3>4, <4>1 DEF Below
      <3> QED BY <1>3, <3>2, <3>6, <3>7, <3>8, DirectoriesCount
    <2> QED BY <2>1, <2>2
  <1> QED BY <1>3, <1>4, UsedIsTracked

\* Two trees that hold the same files give the hasher the same.
LEMMA SameFilesSameScan ==
    ASSUME NEW t, Rooted(t), NEW u, Rooted(u), NEW at, IsScan(at, t), NEW bt, IsScan(bt, u),
           NEW i \in Paths, SameFiles(t, u, i)
    PROVE  \A p \in Below(t, i) : p \in Below(u, i) /\ Counts(i, p) => at[p] = bt[p]
  <1> DEFINE D == Below(t, i)
             m == [p \in D |-> Cardinality(Below(t, p))]
             A == {p \in D : p \in Below(u, i) /\ Counts(i, p) => at[p] = bt[p]}
  <1>1. \A p \in D : p \in DOMAIN t BY DEF Below
  <1>2. m \in [D -> Nat] BY <1>1, EntriesAre
  <1>3. ASSUME NEW p \in D, \A q \in D : m[q] < m[p] => q \in A PROVE p \in A
    <2> SUFFICES ASSUME p \in Below(u, i), Counts(i, p) PROVE at[p] = bt[p] OBVIOUS
    <2>1. p \in DOMAIN t /\ p \in DOMAIN u BY DEF Below
    <2>2. at[p] = ScanStep(t, at, p) /\ bt[p] = ScanStep(u, bt, p) BY <2>1 DEF IsScan
    <2>3. t[p] # Dir <=> u[p] # Dir BY DEF SameFiles, TrackedFiles
    <2>4. CASE t[p] # Dir
      <3>1. p \in TrackedFiles(t, i) BY <2>4 DEF TrackedFiles
      <3>2. t[p].data = u[p].data BY <3>1 DEF SameFiles
      <3> QED BY <2>2, <2>3, <2>4, <3>2 DEF ScanStep
    <2>5. CASE t[p] = Dir
      <3>1. SameFiles(u, t, i) BY DEF SameFiles
      <3>2. \A q \in UsedIn(t, p, at) : q \in UsedIn(u, p, bt) BY SameUsed
      <3>3. \A q \in UsedIn(u, p, bt) : q \in UsedIn(t, p, at) BY <3>1, SameUsed
      <3>4. UsedIn(t, p, at) = UsedIn(u, p, bt) BY <3>2, <3>3
      <3> DEFINE U == UsedIn(t, p, at)
                 s == InPathOrder(U)
      <3>5. s \in Seq(U) /\ U \subseteq DirEntries(t, p) BY <2>1, UsedAre
      <3>6. \A q \in U : at[q] = bt[q]
        <4>1. \A q \in U : q \in D /\ q \in Below(u, i) /\ Counts(i, q) BY SameUsed
        <4>2. \A q \in U : m[q] < m[p] BY <2>1, <3>5, <4>1, EntriesAre
        <4> QED BY <1>3, <4>1, <4>2
      <3> HIDE DEF s
      <3>7. Digests(s, at) = Digests(s, bt)
        <4>1. \A k \in DOMAIN s : s[k] \in U BY <3>5
        <4> QED BY <3>6, <4>1 DEF Digests
      <3> QED BY <2>2, <2>3, <2>5, <3>4, <3>7 DEF ScanStep, s
    <2> QED BY <2>4, <2>5
  <1> HIDE DEF A
  <1>4. \A p \in D : p \in A
    <2> HIDE DEF D, m
    <2> QED BY <1>2, <1>3, MeasureInduction
  <1> QED BY <1>4 DEF A

\* Tracked, file by file.
LEMMA TrackedIs ==
    ASSUME NEW t, NEW i \in Inputs
    PROVE  DOMAIN Tracked(t)[i] = TrackedFiles(t, i) /\ \A p \in TrackedFiles(t, i) : Tracked(t)[i][p] = t[p].data
  BY DEF Tracked, TrackedFiles, Counts

\* Two work spaces with the same tracked files have the same fingerprint.
LEMMA SameFilesSamePrint ==
    ASSUME NEW t, Rooted(t), NEW u, Rooted(u), Tracked(t) = Tracked(u)
    PROVE  \A i \in Inputs : Scan(t, i) = Scan(u, i)
  <1> SUFFICES ASSUME NEW i \in Inputs PROVE Scan(t, i) = Scan(u, i) OBVIOUS
  <1> DEFINE at == ScanOf(t)
             bt == ScanOf(u)
  <1>1. IsScan(at, t) /\ Scan(t, i) = IF i \in DOMAIN t THEN at[i] ELSE <<>> BY ScanIs
  <1>2. IsScan(bt, u) /\ Scan(u, i) = IF i \in DOMAIN u THEN bt[i] ELSE <<>> BY ScanIs
  <1> HIDE DEF at, bt
  <1>3. i \in Paths /\ IsPrefix(i, i) BY LocationsAre, PrefixOrder
  <1>4. SameFiles(t, u, i) /\ SameFiles(u, t, i)
    <2>1. DOMAIN Tracked(t)[i] = TrackedFiles(t, i) /\ \A p \in TrackedFiles(t, i) : Tracked(t)[i][p] = t[p].data BY TrackedIs
    <2>2. DOMAIN Tracked(u)[i] = TrackedFiles(u, i) /\ \A p \in TrackedFiles(u, i) : Tracked(u)[i][p] = u[p].data BY TrackedIs
    <2> QED BY <2>1, <2>2 DEF SameFiles
  <1>5. Counts(i, i) BY DEF Counts
  <1>6. ASSUME NEW a, Rooted(a), NEW b, Rooted(b), SameFiles(a, b, i), NEW c, IsScan(c, a), i \in DOMAIN a, i \notin DOMAIN b
        PROVE  c[i] = <<>>
    <2>1. i \in Below(a, i) BY <1>3, <1>6 DEF Below
    <2>2. TrackedFiles(a, i) = {}
      <3> SUFFICES ASSUME NEW f \in TrackedFiles(b, i) PROVE FALSE BY <1>6 DEF SameFiles
      <3>1. f \in DOMAIN b /\ f \in Paths /\ IsPrefix(i, f) BY <1>6 DEF TrackedFiles, Below, Rooted, IsTree
      <3>2. i \in Ancestors(f) BY <1>3, <1>6, <3>1, AncestorsAre
      <3> QED BY <1>6, <3>1, <3>2 DEF Rooted, IsTree
    <2>3. a[i] = Dir BY <1>5, <2>1, <2>2 DEF TrackedFiles
    <2> QED BY <1>3, <1>5, <1>6, <2>1, <2>2, <2>3, DirectoriesCount
  <1>7. CASE i \in DOMAIN t /\ i \in DOMAIN u
    <2>1. i \in Below(t, i) /\ i \in Below(u, i) BY <1>3, <1>7 DEF Below
    <2>2. at[i] = bt[i] BY <1>1, <1>2, <1>3, <1>4, <1>5, <2>1, SameFilesSameScan
    <2> QED BY <1>1, <1>2, <1>7, <2>2
  <1>8. CASE i \in DOMAIN t /\ i \notin DOMAIN u BY <1>1, <1>2, <1>4, <1>6, <1>8
  <1>9. CASE i \notin DOMAIN t /\ i \in DOMAIN u BY <1>1, <1>2, <1>4, <1>6, <1>9
  <1>10. CASE i \notin DOMAIN t /\ i \notin DOMAIN u BY <1>1, <1>2, <1>10
  <1> QED BY <1>7, <1>8, <1>9, <1>10

-----------------------------------------------------------------------------
(* What a fingerprint tells                                                *)

\* l is x and then y, place by place.
IsJoin(l, x, y) ==
    /\ Len(x) \in Nat /\ Len(y) \in Nat /\ Len(l) = Len(x) + Len(y)
    /\ \A k \in 1 .. Len(x) : l[k] = x[k]
    /\ \A k \in 1 .. Len(y) : l[Len(x) + k] = y[k]

\* What a concatenation is.
LEMMA JoinIs ==
    ASSUME NEW S, NEW x \in Seq(S), NEW y \in Seq(S)
    PROVE  x \o y \in Seq(S) /\ IsJoin(x \o y, x, y)
  BY DEF IsJoin

\* Sequences are equal if they are so at each place.
LEMMA SequencesEqual ==
    ASSUME NEW S, NEW x \in Seq(S), NEW y \in Seq(S), Len(x) = Len(y), \A k \in 1 .. Len(x) : x[k] = y[k]
    PROVE  x = y
  OBVIOUS

\* Concatenations can be read in two ways only if their parts differ in length.
LEMMA JoinsEqual ==
    ASSUME NEW S, NEW x \in Seq(S), NEW y \in Seq(S), NEW s \in Seq(S), NEW t \in Seq(S),
           x \o s = y \o t, Len(s) = Len(t)
    PROVE  x = y /\ s = t
  <1> DEFINE l == x \o s
  <1>1. IsJoin(l, x, s) /\ IsJoin(l, y, t) BY JoinIs
  <1> HIDE DEF l
  <1>2. Len(x) = Len(y) BY <1>1 DEF IsJoin
  <1>3. \A k \in 1 .. Len(x) : x[k] = y[k] BY <1>1, <1>2 DEF IsJoin
  <1>4. \A k \in 1 .. Len(s) : s[k] = t[k] BY <1>1, <1>2 DEF IsJoin
  <1> QED BY <1>2, <1>3, <1>4, SequencesEqual

\* What comes before a digest, and the digest.
LEMMA DigestJoin ==
    ASSUME NEW x \in Seq(Nat), NEW s \in Seq(Nat)
    PROVE  /\ Digest(s) \in Seq(Nat) /\ Len(Digest(s)) = Len(s) + 2
           /\ Append(x, 100) \in Seq(Nat)
           /\ x \o Digest(s) = Append(Append(x, 100) \o s, 101)
  <1> DEFINE d == Digest(s)
             l == x \o d
             y == Append(x, 100)
             r == Append(y \o s, 101)
  <1>1. /\ d \in Seq(Nat) /\ Len(d) = Len(s) + 2 /\ d[1] = 100 /\ d[Len(s) + 2] = 101
        /\ \A k \in 1 .. Len(s) : d[k + 1] = s[k]
    BY DEF Digest
  <1>2. y \in Seq(Nat) /\ Len(y) = Len(x) + 1 /\ y[Len(x) + 1] = 100 /\ \A k \in 1 .. Len(x) : y[k] = x[k] OBVIOUS
  <1>3. /\ r \in Seq(Nat) /\ Len(r) = Len(x) + 1 + Len(s) + 1 /\ r[Len(r)] = 101
        /\ \A k \in 1 .. Len(y) : r[k] = y[k]
        /\ \A k \in 1 .. Len(s) : r[Len(y) + k] = s[k]
    <2> HIDE DEF y
    <2> DEFINE z == y \o s
    <2>1. /\ z \in Seq(Nat) /\ Len(z) = Len(y) + Len(s)
          /\ \A k \in 1 .. Len(y) : z[k] = y[k]
          /\ \A k \in 1 .. Len(s) : z[Len(y) + k] = s[k]
      <3>1. z \in Seq(Nat) /\ IsJoin(z, y, s) BY <1>2, JoinIs
      <3> HIDE DEF z
      <3> QED BY <3>1 DEF IsJoin
    <2>2. /\ r \in Seq(Nat) /\ Len(r) = Len(z) + 1 /\ r[Len(z) + 1] = 101 /\ \A k \in 1 .. Len(z) : r[k] = z[k]
      <3> HIDE DEF z
      <3>1. r = Append(z, 101) BY DEF z
      <3>2. z \in Seq(Nat) BY <2>1
      <3> HIDE DEF r
      <3> QED BY <3>1, <3>2
    <2>3. Len(s) \in Nat /\ Len(x) \in Nat OBVIOUS
    <2>4. \A k \in 1 .. Len(y) : k \in 1 .. Len(z) BY <1>2, <2>1, <2>3
    <2>5. \A k \in 1 .. Len(s) : Len(y) + k \in 1 .. Len(z) BY <1>2, <2>1, <2>3
    <2> HIDE DEF z, r
    <2>6. Len(r) = Len(x) + 1 + Len(s) + 1 /\ Len(r) = Len(z) + 1 BY <1>2, <2>1, <2>2, <2>3
    <2> QED BY <2>1, <2>2, <2>4, <2>5, <2>6
  <1> HIDE DEF d, y, r
  <1>4. l \in Seq(Nat) /\ IsJoin(l, x, d) BY <1>1, JoinIs
  <1> HIDE DEF l
  <1> USE DEF IsJoin
  <1>5. Len(x) \in Nat /\ Len(s) \in Nat OBVIOUS
  <1>6. Len(l) = Len(r) BY <1>1, <1>3, <1>4, <1>5
  <1>7. ASSUME NEW k \in 1 .. Len(l) PROVE l[k] = r[k]
    <2>1. CASE k \in 1 .. Len(x)
      <3>1. k \in 1 .. Len(y) BY <1>2, <1>5, <2>1
      <3> QED BY <1>2, <1>3, <1>4, <2>1, <3>1
    <2>2. CASE k = Len(x) + 1
      <3>1. k \in 1 .. Len(y) /\ 1 \in 1 .. Len(d) BY <1>1, <1>2, <1>5, <2>2
      <3> QED BY <1>1, <1>2, <1>3, <1>4, <2>2, <3>1
    <2>3. CASE k \in Len(x) + 2 .. Len(x) + 1 + Len(s)
      <3> DEFINE j == k - Len(x) - 1
      <3>1. j \in 1 .. Len(s) /\ j + 1 \in 1 .. Len(d) /\ k = Len(x) + (j + 1) /\ k = Len(y) + j
        <4>1. j \in 1 .. Len(s) /\ j + 1 \in 1 .. Len(s) + 2 /\ k = Len(x) + (j + 1) /\ k = Len(x) + 1 + j
          BY ONLY <1>5, <2>3, k \in 1 .. Len(l)
        <4>2. Len(d) = Len(s) + 2 /\ Len(y) = Len(x) + 1 BY <1>1, <1>2
        <4> QED BY <4>1, <4>2
      <3> HIDE DEF j
      <3>2. l[k] = d[j + 1] /\ d[j + 1] = s[j] BY <1>1, <1>4, <3>1
      <3>3. r[k] = s[j] BY <1>3, <3>1
      <3> QED BY <3>2, <3>3
    <2>4. CASE k = Len(l)
      <3>1. Len(s) + 2 \in 1 .. Len(d) /\ k = Len(x) + (Len(s) + 2) BY <1>1, <1>4, <1>5, <2>4
      <3>2. l[k] = 101 BY <1>1, <1>4, <3>1
      <3> QED BY <1>3, <1>6, <2>4, <3>2
    <2>5. k \in 1 .. Len(x) \/ k = Len(x) + 1 \/ k \in Len(x) + 2 .. Len(x) + 1 + Len(s) \/ k = Len(l)
      <3>1. Len(l) = Len(x) + (Len(s) + 2) BY <1>1, <1>4
      <3>2. \A n, j \in Nat : \A o \in 1 .. n + (j + 2) : o \in 1 .. n \/ o = n + 1 \/ o \in n + 2 .. n + 1 + j \/ o = n + (j + 2)
        OBVIOUS
      <3> QED BY <1>5, <3>1, <3>2
    <2> QED BY <2>1, <2>2, <2>3, <2>4, <2>5
  <1>8. l = r BY <1>3, <1>4, <1>6, <1>7, SequencesEqual
  <1> QED BY <1>1, <1>2, <1>8 DEF d, l, y, r

\* Concatenation is associative.
LEMMA JoinJoin ==
    ASSUME NEW x \in Seq(Nat), NEW y \in Seq(Nat), NEW z \in Seq(Nat)
    PROVE  x \o (y \o z) = (x \o y) \o z
  <1> DEFINE a == y \o z
             b == x \o y
             l == x \o a
             r == b \o z
  <1>1. a \in Seq(Nat) /\ IsJoin(a, y, z) BY JoinIs
  <1>2. b \in Seq(Nat) /\ IsJoin(b, x, y) BY JoinIs
  <1> HIDE DEF a, b
  <1>3. l \in Seq(Nat) /\ IsJoin(l, x, a) BY <1>1, JoinIs
  <1>4. r \in Seq(Nat) /\ IsJoin(r, b, z) BY <1>2, JoinIs
  <1> HIDE DEF l, r
  <1> USE DEF IsJoin
  <1>5. Len(x) \in Nat /\ Len(y) \in Nat /\ Len(z) \in Nat OBVIOUS
  <1>6. Len(l) = Len(r) BY <1>1, <1>2, <1>3, <1>4, <1>5
  <1>7. ASSUME NEW k \in 1 .. Len(l) PROVE l[k] = r[k]
    <2>1. CASE k \in 1 .. Len(x)
      <3>1. k \in 1 .. Len(b) BY <1>2, <1>5, <2>1
      <3> QED BY <1>2, <1>3, <1>4, <2>1, <3>1
    <2>2. CASE k \in Len(x) + 1 .. Len(x) + Len(y)
      <3> DEFINE j == k - Len(x)
      <3>1. j \in 1 .. Len(y) /\ k = Len(x) + j BY <1>5, <2>2
      <3>2. j \in 1 .. Len(a) /\ k \in 1 .. Len(b) BY <1>1, <1>2, <1>5, <3>1
      <3> HIDE DEF j
      <3>3. l[k] = y[j] BY <1>1, <1>3, <3>1, <3>2
      <3>4. r[k] = y[j] BY <1>2, <1>4, <3>1, <3>2
      <3> QED BY <3>3, <3>4
    <2>3. CASE k \in Len(x) + Len(y) + 1 .. Len(l)
      <3> DEFINE j == k - Len(x) - Len(y)
      <3>1. j \in 1 .. Len(z) /\ Len(y) + j \in 1 .. Len(a) /\ k = Len(x) + (Len(y) + j) /\ k = Len(b) + j BY <1>1, <1>2, <1>3, <1>5, <2>3
      <3> HIDE DEF j
      <3>2. l[k] = z[j] BY <1>1, <1>3, <3>1
      <3>3. r[k] = z[j] BY <1>4, <3>1
      <3> QED BY <3>2, <3>3
    <2>4. k \in 1 .. Len(x) \/ k \in Len(x) + 1 .. Len(x) + Len(y) \/ k \in Len(x) + Len(y) + 1 .. Len(l) BY <1>5
    <2> QED BY <2>1, <2>2, <2>3, <2>4
  <1>8. l = r BY <1>3, <1>4, <1>6, <1>7, SequencesEqual
  <1> QED BY <1>8 DEF a, b, l, r

\* Concatenation and Append under names that the provers leave alone.
Cat(x, y) == x \o y
Put(x, n) == Append(x, n)

\* What may come before the digests of a directory: nothing, or something that ends where a digest begins.
Opened(u) == u \in Seq(Nat) /\ u # <<>> /\ Last(u) = 100
Open(u) == u = <<>> \/ Opened(u)

\* The bytes of a file and, for it, their list; or the digests of a directory and the contents below it.
Item(C, s, c) == s \in Seq(Nat) /\ ((s \in Seq(0 .. 99) /\ c = <<s>>) \/ (s # <<>> /\ <<s, c>> \in C))

\* Pairs of digests, one after the other, and the contents they stand for.
IsCode(C) ==
    \A e \in C :
        /\ e[1] \in Seq(Nat)
        /\ \/ e = << <<>>, <<>> >>
           \/ \E f \in C : \E s, c : Item(C, s, c) /\ e = <<Cat(f[1], Digest(s)), Cat(f[2], c)>>

\* The last element of a concatenation.
LEMMA LastIs ==
    ASSUME NEW x \in Seq(Nat), NEW y \in Seq(Nat)
    PROVE  /\ y # <<>> => Cat(x, y) # <<>> /\ Last(Cat(x, y)) = Last(y)
           /\ Cat(x, <<>>) = x
           /\ Cat(x, y) \in Seq(Nat)
  <1> DEFINE l == x \o y
  <1>1. l \in Seq(Nat) /\ IsJoin(l, x, y) BY JoinIs
  <1>2. x \o <<>> = x OBVIOUS
  <1>3. ASSUME y # <<>> PROVE l # <<>> /\ Last(l) = Last(y)
    <2> HIDE DEF l
    <2>1. Len(y) \in 1 .. Len(y) BY <1>3
    <2>2. Len(l) = Len(x) + Len(y) /\ Len(l) # 0 BY <1>1, <2>1 DEF IsJoin
    <2> QED BY <1>1, <2>1, <2>2 DEF IsJoin, Last
  <1> QED BY <1>1, <1>2, <1>3 DEF Cat

\* The end of a digest.
LEMMA DigestEnds ==
    ASSUME NEW x \in Seq(Nat), NEW s \in Seq(Nat)
    PROVE  /\ Cat(x, Digest(s)) \in Seq(Nat) /\ Cat(x, Digest(s)) # <<>> /\ Last(Cat(x, Digest(s))) = 101
           /\ Len(x) < Len(Cat(x, Digest(s))) /\ Len(s) < Len(Cat(x, Digest(s)))
  <1> DEFINE d == Digest(s)
             l == Cat(x, d)
  <1>1. d \in Seq(Nat) /\ Len(d) = Len(s) + 2 BY DigestJoin
  <1>2. d[Len(s) + 2] = 101 BY DEF Digest
  <1>3. Len(s) \in Nat OBVIOUS
  <1> HIDE DEF d
  <1>4. l \in Seq(Nat) /\ IsJoin(l, x, d) BY <1>1, JoinIs DEF Cat
  <1>5. d # <<>> /\ Last(d) = 101 BY <1>1, <1>2, <1>3 DEF Last
  <1>6. l # <<>> /\ Last(l) = 101 BY <1>1, <1>5, LastIs
  <1>7. Len(x) < Len(l) /\ Len(s) < Len(l)
    <2> HIDE DEF l
    <2> QED BY <1>1, <1>3, <1>4 DEF IsJoin
  <1> QED BY <1>4, <1>6, <1>7 DEF d

\* Digests that are not empty end where a digest ends.
LEMMA CodeEnds ==
    ASSUME NEW C, IsCode(C), NEW e \in C
    PROVE  IF e[1] = <<>> THEN e = << <<>>, <<>> >>
           ELSE /\ Last(e[1]) = 101
                /\ \E f \in C : \E s, c : /\ Item(C, s, c) /\ e = <<Cat(f[1], Digest(s)), Cat(f[2], c)>>
                                          /\ Len(f[1]) < Len(e[1]) /\ Len(s) < Len(e[1])
  <1>1. CASE e = << <<>>, <<>> >> BY <1>1
  <1>2. ASSUME NEW f \in C, NEW s, NEW c, Item(C, s, c), e = <<Cat(f[1], Digest(s)), Cat(f[2], c)>>
        PROVE  /\ e[1] # <<>> /\ Last(e[1]) = 101
               /\ Len(f[1]) < Len(e[1]) /\ Len(s) < Len(e[1])
    <2>1. f[1] \in Seq(Nat) /\ s \in Seq(Nat) BY <1>2 DEF IsCode, Item
    <2> DEFINE l == Cat(f[1], Digest(s))
    <2>2. e[1] = l BY <1>2
    <2>3. l # <<>> /\ Last(l) = 101 /\ Len(f[1]) < Len(l) /\ Len(s) < Len(l) BY <2>1, DigestEnds
    <2> HIDE DEF l
    <2> QED BY <2>2, <2>3
  <1>3. CASE e # << <<>>, <<>> >>
    <2>1. PICK f \in C : \E s, c : Item(C, s, c) /\ e = <<Cat(f[1], Digest(s)), Cat(f[2], c)>> BY <1>3 DEF IsCode
    <2>2. PICK s, c : Item(C, s, c) /\ e = <<Cat(f[1], Digest(s)), Cat(f[2], c)>> BY <2>1
    <2>3. e[1] # <<>> /\ Last(e[1]) = 101 /\ Len(f[1]) < Len(e[1]) /\ Len(s) < Len(e[1]) BY <1>2, <2>2
    <2> QED BY <2>2, <2>3
  <1> QED BY <1>1, <1>3

\* An element of a sequence.
LEMMA ElementIs ==
    ASSUME NEW S, NEW s \in Seq(S), NEW k \in 1 .. Len(s)
    PROVE  s[k] \in S
  OBVIOUS

\* Where a digest begins, the bytes of a file can be told from digests.
LEMMA BytesAreNoDigests ==
    ASSUME NEW x, Opened(x), NEW y, Opened(y), NEW s \in Seq(0 .. 99), NEW t \in Seq(Nat),
           t # <<>>, Last(t) = 101
    PROVE  Cat(x, s) # Cat(y, t)
  <1> SUFFICES ASSUME Cat(x, s) = Cat(y, t) PROVE FALSE OBVIOUS
  <1>1. s \in Seq(Nat) /\ x \in Seq(Nat) /\ y \in Seq(Nat)
    <2>1. 0 .. 99 \subseteq Nat OBVIOUS
    <2> QED BY <2>1, SequencesGrow DEF Opened
  <1> DEFINE l == Cat(x, s)
             r == Cat(y, t)
  <1>2. l = r /\ Last(r) = 101 BY <1>1, LastIs
  <1>3. CASE s = <<>>
    <2>1. l = x BY <1>1, <1>3, LastIs
    <2> HIDE DEF l, r
    <2> QED BY <1>2, <2>1 DEF Opened
  <1>4. CASE s # <<>>
    <2>1. Last(l) = Last(s) BY <1>1, <1>4, LastIs
    <2>2. Len(s) \in 1 .. Len(s) BY <1>1, <1>4
    <2>3. Last(s) \in 0 .. 99 BY <2>2, ElementIs DEF Last
    <2>4. 101 \notin 0 .. 99 OBVIOUS
    <2> HIDE DEF l, r
    <2> QED BY <1>2, <2>1, <2>3, <2>4
  <1> QED BY <1>3, <1>4

\* And from other bytes.
LEMMA BytesAreRead ==
    ASSUME NEW x, Opened(x), NEW y, Opened(y), NEW s \in Seq(0 .. 99), NEW t \in Seq(0 .. 99), Cat(x, s) = Cat(y, t)
    PROVE  x = y /\ s = t
  <1>1. s \in Seq(Nat) /\ t \in Seq(Nat) /\ x \in Seq(Nat) /\ y \in Seq(Nat)
    <2>1. 0 .. 99 \subseteq Nat OBVIOUS
    <2> QED BY <2>1, SequencesGrow DEF Opened
  <1>2. ASSUME NEW a, Opened(a), NEW b, Opened(b), NEW c \in Seq(0 .. 99), NEW d \in Seq(0 .. 99),
               c \in Seq(Nat), d \in Seq(Nat), Cat(a, c) = Cat(b, d)
        PROVE  ~(Len(c) < Len(d))
    <2> SUFFICES ASSUME Len(c) < Len(d) PROVE FALSE OBVIOUS
    <2> DEFINE l == Cat(a, c)
    <2>1. a \in Seq(Nat) /\ b \in Seq(Nat) /\ a # <<>> /\ a[Len(a)] = 100 BY <1>2 DEF Opened, Last
    <2>2. IsJoin(l, a, c) /\ IsJoin(l, b, d) BY <1>2, <2>1, JoinIs DEF Cat
    <2> HIDE DEF l
    <2>3. Len(a) \in Nat /\ Len(b) \in Nat /\ Len(c) \in Nat /\ Len(d) \in Nat /\ Len(a) + Len(c) = Len(b) + Len(d)
      BY <2>2 DEF IsJoin
    <2> DEFINE k == Len(a) - Len(b)
    <2>4. Len(a) # 0 BY <2>1
    <2>5. k \in 1 .. Len(d) /\ Len(a) = Len(b) + k /\ Len(a) \in 1 .. Len(a) BY <2>3, <2>4
    <2> HIDE DEF k
    <2>6. l[Len(a)] = a[Len(a)] /\ l[Len(a)] = d[k] BY <2>2, <2>5 DEF IsJoin
    <2>7. d[k] \in 0 .. 99 BY <2>5, ElementIs
    <2>8. 100 \notin 0 .. 99 OBVIOUS
    <2> QED BY <2>1, <2>6, <2>7, <2>8
  <1>3. Len(s) = Len(t)
    <2>1. ~(Len(s) < Len(t)) /\ ~(Len(t) < Len(s)) BY <1>1, <1>2
    <2>2. Len(s) \in Nat /\ Len(t) \in Nat BY <1>1
    <2> QED BY <2>1, <2>2
  <1> QED BY <1>1, <1>3, JoinsEqual DEF Cat

\* An element more.
LEMMA PutIs ==
    ASSUME NEW x \in Seq(Nat), NEW n \in Nat
    PROVE  Put(x, n) \in Seq(Nat) /\ Put(x, n) # <<>> /\ Last(Put(x, n)) = n
  <1> DEFINE a == Append(x, n)
  <1>1. a \in Seq(Nat) /\ Len(a) = Len(x) + 1 /\ a[Len(x) + 1] = n /\ Len(x) \in Nat OBVIOUS
  <1> HIDE DEF a
  <1>2. a # <<>> /\ Last(a) = n BY <1>1 DEF Last
  <1> QED BY <1>1, <1>2 DEF a, Put

\* Where the elements before it end.
LEMMA PutsEqual ==
    ASSUME NEW x \in Seq(Nat), NEW y \in Seq(Nat), NEW n \in Nat, Put(x, n) = Put(y, n)
    PROVE  x = y
  <1> DEFINE a == Append(x, n)
             b == Append(y, n)
  <1>1. Len(a) = Len(x) + 1 /\ \A k \in 1 .. Len(x) : a[k] = x[k] OBVIOUS
  <1>2. Len(b) = Len(y) + 1 /\ \A k \in 1 .. Len(y) : b[k] = y[k] OBVIOUS
  <1>3. Len(x) \in Nat /\ Len(y) \in Nat /\ a = b BY DEF Put
  <1> HIDE DEF a, b
  <1>4. Len(x) = Len(y) /\ \A k \in 1 .. Len(x) : x[k] = y[k] BY <1>1, <1>2, <1>3
  <1> QED BY <1>4, SequencesEqual

\* Concatenations of digests.
LEMMA CatIs ==
    ASSUME NEW x \in Seq(Nat), NEW y \in Seq(Nat)
    PROVE  /\ Cat(x, y) \in Seq(Nat) /\ Digest(y) \in Seq(Nat)
           /\ \A z \in Seq(Nat) : Cat(x, Cat(y, z)) = Cat(Cat(x, y), z)
           /\ Cat(x, Digest(y)) = Put(Cat(Put(x, 100), y), 101)
  <1>1. Cat(x, y) \in Seq(Nat) BY LastIs
  <1>2. \A z \in Seq(Nat) : Cat(x, Cat(y, z)) = Cat(Cat(x, y), z) BY JoinJoin DEF Cat
  <1>3. Digest(y) \in Seq(Nat) /\ Cat(x, Digest(y)) = Put(Cat(Put(x, 100), y), 101) BY DigestJoin DEF Cat, Put
  <1> QED BY <1>1, <1>2, <1>3

\* Digests of a directory can be read in one way.
LEMMA CodesAreRead ==
    ASSUME NEW C, IsCode(C)
    PROVE  \A e \in C : \A f \in C : \A u, v \in Seq(Nat) :
                Open(u) /\ Open(v) /\ Cat(u, e[1]) = Cat(v, f[1]) => u = v /\ e = f
  <1> DEFINE m == [e \in C |-> Len(e[1])]
             Read(e) == \A f \in C : \A u, v \in Seq(Nat) : Open(u) /\ Open(v) /\ Cat(u, e[1]) = Cat(v, f[1]) => u = v /\ e = f
             A == {e \in C : Read(e)}
  <1>1. \A e \in C : e[1] \in Seq(Nat) BY DEF IsCode
  <1>2. m \in [C -> Nat] BY <1>1
  <1>3. ASSUME NEW f \in C, f[1] # <<>>, NEW u \in Seq(Nat), Open(u), NEW v \in Seq(Nat)
        PROVE  u # Cat(v, f[1])
    <2>1. Last(f[1]) = 101 BY <1>3, CodeEnds
    <2>2. Cat(v, f[1]) # <<>> /\ Last(Cat(v, f[1])) = 101 BY <1>1, <1>3, <2>1, LastIs
    <2> QED BY <1>3, <2>2 DEF Open, Opened
  <1>4. ASSUME NEW e \in C, \A f \in C : m[f] < m[e] => f \in A PROVE e \in A
    <2> SUFFICES ASSUME NEW f \in C, NEW u \in Seq(Nat), NEW v \in Seq(Nat), Open(u), Open(v), Cat(u, e[1]) = Cat(v, f[1])
                 PROVE  u = v /\ e = f
      OBVIOUS
    <2>1. CASE e[1] = <<>> /\ f[1] = <<>>
      <3>1. e = << <<>>, <<>> >> /\ f = << <<>>, <<>> >> BY <2>1, CodeEnds
      <3>2. Cat(u, <<>>) = u /\ Cat(v, <<>>) = v BY LastIs
      <3> QED BY <2>1, <3>1, <3>2
    <2>2. CASE e[1] = <<>> /\ f[1] # <<>>
      <3>1. Cat(u, e[1]) = u BY <2>2, LastIs
      <3> QED BY <1>3, <2>2, <3>1
    <2>3. CASE e[1] # <<>> /\ f[1] = <<>>
      <3>1. Cat(v, f[1]) = v BY <2>3, LastIs
      <3> QED BY <1>3, <2>3, <3>1
    <2>4. CASE e[1] # <<>> /\ f[1] # <<>>
      <3>1. PICK g \in C : \E s, c : /\ Item(C, s, c) /\ e = <<Cat(g[1], Digest(s)), Cat(g[2], c)>>
                                     /\ Len(g[1]) < Len(e[1]) /\ Len(s) < Len(e[1])
        BY <2>4, CodeEnds
      <3>2. PICK s, c : Item(C, s, c) /\ e = <<Cat(g[1], Digest(s)), Cat(g[2], c)>> /\ Len(g[1]) < Len(e[1]) /\ Len(s) < Len(e[1]) BY <3>1
      <3>3. PICK h \in C : \E t, d : Item(C, t, d) /\ f = <<Cat(h[1], Digest(t)), Cat(h[2], d)>> BY <2>4, CodeEnds
      <3>4. PICK t, d : Item(C, t, d) /\ f = <<Cat(h[1], Digest(t)), Cat(h[2], d)>> BY <3>3
      <3>5. g[1] \in Seq(Nat) /\ h[1] \in Seq(Nat) /\ s \in Seq(Nat) /\ t \in Seq(Nat) BY <1>1, <3>2, <3>4 DEF Item
      <3> DEFINE x == Cat(u, g[1])
                 y == Cat(v, h[1])
                 U == Put(x, 100)
                 V == Put(y, 100)
      <3>6. x \in Seq(Nat) /\ y \in Seq(Nat) BY <3>5, CatIs
      <3>7. Cat(u, e[1]) = Cat(x, Digest(s)) /\ Cat(v, f[1]) = Cat(y, Digest(t))
        <4>1. Digest(s) \in Seq(Nat) /\ Digest(t) \in Seq(Nat) BY <3>5, CatIs
        <4>2. e[1] = Cat(g[1], Digest(s)) /\ f[1] = Cat(h[1], Digest(t)) BY <3>2, <3>4
        <4>3. \A p, q, r \in Seq(Nat) : Cat(p, Cat(q, r)) = Cat(Cat(p, q), r) BY CatIs
        <4> QED BY <3>5, <4>1, <4>2, <4>3
      <3> HIDE DEF x, y
      <3>8. Cat(x, Digest(s)) = Put(Cat(U, s), 101) /\ Cat(y, Digest(t)) = Put(Cat(V, t), 101) BY <3>5, <3>6, CatIs
      <3>9. Opened(U) /\ Opened(V) /\ U \in Seq(Nat) /\ V \in Seq(Nat)
        <4>1. 100 \in Nat OBVIOUS
        <4>2. \A p \in Seq(Nat) : Put(p, 100) \in Seq(Nat) /\ Put(p, 100) # <<>> /\ Last(Put(p, 100)) = 100 BY <4>1, PutIs
        <4> QED BY <3>6, <4>2 DEF Opened
      <3> HIDE DEF U, V
      <3>10. Cat(U, s) = Cat(V, t)
        <4> DEFINE p == Cat(U, s)
                   q == Cat(V, t)
        <4>1. p \in Seq(Nat) /\ q \in Seq(Nat) BY <3>5, <3>9, CatIs
        <4>2. Put(p, 101) = Put(q, 101) BY <3>7, <3>8
        <4> HIDE DEF p, q
        <4>3. p = q BY <4>1, <4>2, PutsEqual
        <4> QED BY <4>3 DEF p, q
      <3>11. U = V /\ s = t /\ c = d
        <4>1. \A z, b : z # <<>> /\ <<z, b>> \in C => Last(z) = 101
          <5> SUFFICES ASSUME NEW z, NEW b, z # <<>>, <<z, b>> \in C PROVE Last(z) = 101 OBVIOUS
          <5> DEFINE o == <<z, b>>
          <5>1. o[1] = z /\ o \in C OBVIOUS
          <5> HIDE DEF o
          <5> QED BY <5>1, CodeEnds
        <4>2. CASE s \in Seq(0 .. 99) /\ c = <<s>> /\ t \in Seq(0 .. 99) /\ d = <<t>>
          <5>1. U = V /\ s = t BY <3>9, <3>10, <4>2, BytesAreRead
          <5> QED BY <4>2, <5>1
        <4>3. CASE s \in Seq(0 .. 99) /\ t # <<>> /\ <<t, d>> \in C
          <5>1. Last(t) = 101 BY <4>1, <4>3
          <5> QED BY <3>5, <3>9, <3>10, <4>3, <5>1, BytesAreNoDigests
        <4>4. CASE t \in Seq(0 .. 99) /\ s # <<>> /\ <<s, c>> \in C
          <5>1. Last(s) = 101 BY <4>1, <4>4
          <5>2. Cat(V, t) # Cat(U, s) BY <3>5, <3>9, <4>4, <5>1, BytesAreNoDigests
          <5> QED BY <3>10, <5>2
        <4>5. CASE <<s, c>> \in C /\ <<t, d>> \in C
          <5> DEFINE a == <<s, c>>
                     b == <<t, d>>
          <5>1. a \in C /\ b \in C /\ a[1] = s /\ b[1] = t BY <4>5
          <5> HIDE DEF a, b
          <5>2. m[a] < m[e] BY <3>2, <5>1
          <5>3. a \in A BY <1>4, <5>1, <5>2
          <5>4. Open(U) /\ Open(V) BY <3>9 DEF Open
          <5>5. U = V /\ a = b BY <3>9, <3>10, <5>1, <5>3, <5>4
          <5> QED BY <5>5 DEF a, b
        <4> QED BY <3>2, <3>4, <4>2, <4>3, <4>4, <4>5 DEF Item
      <3>12. x = y BY <3>6, <3>11, PutsEqual DEF U, V
      <3>13. g \in A
        <4>1. m[g] < m[e] BY <3>2
        <4> QED BY <1>4, <4>1
      <3>14. u = v /\ g = h BY <3>12, <3>13 DEF x, y
      <3> QED BY <3>2, <3>4, <3>11, <3>14
    <2> QED BY <2>1, <2>2, <2>3, <2>4
  <1> HIDE DEF A
  <1>5. \A e \in C : e \in A
    <2> HIDE DEF m
    <2> QED BY <1>2, <1>4, MeasureInduction
  <1> QED BY <1>5 DEF A

\* What lies below two paths, neither of which begins the other, comes in their order.
LEMMA OrderBelow ==
    ASSUME NEW p \in Paths, NEW q \in Paths, Lexicographic(p, q), ~IsPrefix(p, q),
           NEW f \in Paths, NEW g \in Paths, IsPrefix(p, f), IsPrefix(q, g)
    PROVE  Lexicographic(f, g)
  <1>1. PICK n \in Nat : Differ(p, q, n) /\ p[n] < q[n] BY LexicographicIs
  <1>2. Len(p) <= Len(f) /\ (\A k \in 1 .. Len(p) : p[k] = f[k]) /\ Len(q) <= Len(g) /\ \A k \in 1 .. Len(q) : q[k] = g[k]
    BY PrefixIs
  <1>3. Len(p) \in Nat /\ Len(q) \in Nat /\ Len(f) \in Nat /\ Len(g) \in Nat BY DEF Paths
  <1>4. n \in 1 .. Len(p) /\ n \in 1 .. Len(q) /\ n \in 1 .. Len(f) /\ n <= Len(g) BY <1>1, <1>2, <1>3 DEF Differ
  <1>5. f[n] = p[n] /\ g[n] = q[n] BY <1>2, <1>4
  <1>6. \A k \in 1 .. n - 1 : f[k] = g[k]
    <2>1. \A k \in 1 .. n - 1 : k \in 1 .. Len(p) /\ k \in 1 .. Len(q) BY <1>3, <1>4
    <2> QED BY <1>1, <1>2, <2>1 DEF Differ
  <1>7. Differ(f, g, n) /\ f[n] < g[n] BY <1>1, <1>4, <1>5, <1>6 DEF Differ
  <1> QED BY <1>7, LexicographicIs

\* Paths in their order, if some come before the others.
LEMMA OrderJoin ==
    ASSUME NEW S, NEW T, IsFiniteSet(S), IsFiniteSet(T), S \subseteq Paths, T \subseteq Paths,
           \A p \in S : \A q \in T : Lexicographic(p, q)
    PROVE  InPathOrder(S \cup T) = Cat(InPathOrder(S), InPathOrder(T))
  <1> DEFINE U == S \cup T
             s == InPathOrder(S)
             t == InPathOrder(T)
             l == s \o t
  <1>1. Lists(s, S) /\ Lists(t, T) BY PathOrderIs
  <1>2. s \in Seq(U) /\ t \in Seq(U)
    <2>1. S \subseteq U /\ T \subseteq U OBVIOUS
    <2> HIDE DEF U, s, t
    <2> QED BY <1>1, <2>1, SequencesGrow DEF Lists
  <1> HIDE DEF s, t
  <1>3. l \in Seq(U) /\ IsJoin(l, s, t) BY <1>2, JoinIs
  <1> HIDE DEF l
  <1> USE DEF IsJoin
  <1>4. \A k \in 1 .. Len(s) : s[k] \in S /\ k \in 1 .. Len(l) /\ l[k] = s[k] BY <1>1, <1>3 DEF Lists
  <1>5. \A k \in 1 .. Len(t) : t[k] \in T /\ Len(s) + k \in 1 .. Len(l) /\ l[Len(s) + k] = t[k]
    <2>1. \A k \in 1 .. Len(t) : t[k] \in T BY <1>1 DEF Lists
    <2>2. Len(l) = Len(s) + Len(t) /\ Len(s) \in Nat /\ Len(t) \in Nat BY <1>3
    <2>3. \A k \in 1 .. Len(t) : Len(s) + k \in 1 .. Len(l) BY <2>2
    <2> QED BY <1>3, <2>1, <2>3
  <1>6. \A p \in U : \E k \in 1 .. Len(l) : l[k] = p
    <2>1. ASSUME NEW p \in S PROVE \E k \in 1 .. Len(l) : l[k] = p
      <3>1. PICK k \in 1 .. Len(s) : s[k] = p BY <1>1 DEF Lists
      <3> QED BY <1>4, <3>1
    <2>2. ASSUME NEW p \in T PROVE \E k \in 1 .. Len(l) : l[k] = p
      <3>1. PICK k \in 1 .. Len(t) : t[k] = p BY <1>1 DEF Lists
      <3> QED BY <1>5, <3>1
    <2> QED BY <2>1, <2>2
  <1>7. ASSUME NEW j \in 1 .. Len(l), NEW k \in 1 .. Len(l), j < k PROVE Lexicographic(l[j], l[k])
    <2> DEFINE x == j - Len(s)
               y == k - Len(s)
    <2>1. /\ j \in 1 .. Len(s) \/ (x \in 1 .. Len(t) /\ j = Len(s) + x)
          /\ k \in 1 .. Len(s) \/ (y \in 1 .. Len(t) /\ k = Len(s) + y)
          /\ ~(x \in 1 .. Len(t) /\ k \in 1 .. Len(s)) /\ x < y
      <3>1. Len(l) = Len(s) + Len(t) /\ Len(s) \in Nat /\ Len(t) \in Nat BY <1>3
      <3> QED BY <1>7, <3>1
    <2> HIDE DEF x, y
    <2>2. CASE j \in 1 .. Len(s) /\ k \in 1 .. Len(s) BY <1>1, <1>4, <1>7, <2>2 DEF Lists
    <2>3. CASE j \in 1 .. Len(s) /\ (y \in 1 .. Len(t) /\ k = Len(s) + y) BY <1>4, <1>5, <2>3
    <2>4. CASE (x \in 1 .. Len(t) /\ j = Len(s) + x) /\ (y \in 1 .. Len(t) /\ k = Len(s) + y)
      BY <1>1, <1>5, <2>1, <2>4 DEF Lists
    <2> QED BY <2>1, <2>2, <2>3, <2>4
  <1>8. Lists(l, U) BY <1>3, <1>6, <1>7 DEF Lists
  <1>9. l = InPathOrder(U)
    <2>1. U \subseteq Paths OBVIOUS
    <2> HIDE DEF U
    <2> QED BY <1>8, <2>1, OneList
  <1> QED BY <1>9 DEF l, s, t, U, Cat

\* The contents of some files in the order of their paths.
Contents(t, S) == [k \in DOMAIN InPathOrder(S) |-> t[InPathOrder(S)[k]].data]

\* Contents of files, if some come before the others.
LEMMA ContentsJoin ==
    ASSUME NEW t, NEW S, NEW T, IsFiniteSet(S), IsFiniteSet(T), S \subseteq Paths, T \subseteq Paths,
           \A p \in S : \A q \in T : Lexicographic(p, q), \A p \in S \cup T : t[p].data \in Seq(Nat)
    PROVE  Contents(t, S \cup T) = Cat(Contents(t, S), Contents(t, T))
  <1> DEFINE U == S \cup T
             R == Seq(Nat)
             s == InPathOrder(S)
             r == InPathOrder(T)
             l == InPathOrder(U)
             a == [k \in 1 .. Len(s) |-> t[s[k]].data]
             b == [k \in 1 .. Len(r) |-> t[r[k]].data]
             c == [k \in 1 .. Len(l) |-> t[l[k]].data]
             d == a \o b
  <1>1. l = Cat(s, r) BY OrderJoin
  <1>2. s \in Seq(S) /\ r \in Seq(T) BY PathOrderIs DEF Lists
  <1>3. s \in Seq(U) /\ r \in Seq(U)
    <2>1. S \subseteq U /\ T \subseteq U OBVIOUS
    <2> HIDE DEF U, s, r
    <2> QED BY <1>2, <2>1, SequencesGrow
  <1>4. \A p \in U : t[p].data \in R OBVIOUS
  <1> HIDE DEF U, s, r, l, R
  <1>5. l \in Seq(U) /\ IsJoin(l, s, r) BY <1>1, <1>3, JoinIs DEF Cat
  <1>6. \A x \in Seq(U) : [k \in 1 .. Len(x) |-> t[x[k]].data] \in Seq(R)
    <2> SUFFICES ASSUME NEW x \in Seq(U) PROVE [k \in 1 .. Len(x) |-> t[x[k]].data] \in Seq(R) OBVIOUS
    <2>1. \A k \in 1 .. Len(x) : t[x[k]].data \in R BY <1>4
    <2> QED BY <2>1
  <1>7. a \in Seq(R) /\ b \in Seq(R) /\ c \in Seq(R) BY <1>3, <1>5, <1>6
  <1>8. Len(a) = Len(s) /\ Len(b) = Len(r) /\ Len(c) = Len(l) BY <1>3, <1>5
  <1>9. /\ \A k \in 1 .. Len(s) : a[k] = t[s[k]].data
        /\ \A k \in 1 .. Len(r) : b[k] = t[r[k]].data
        /\ \A k \in 1 .. Len(l) : c[k] = t[l[k]].data
    OBVIOUS
  <1>10. DOMAIN s = 1 .. Len(s) /\ DOMAIN r = 1 .. Len(r) /\ DOMAIN l = 1 .. Len(l) BY <1>3, <1>5
  <1>11. Contents(t, S) = a /\ Contents(t, T) = b /\ Contents(t, U) = c BY <1>10 DEF Contents, s, r, l
  <1> HIDE DEF a, b, c
  <1>12. d \in Seq(R) /\ IsJoin(d, a, b) BY <1>7, JoinIs
  <1> HIDE DEF d
  <1>13. Len(c) = Len(d) BY <1>5, <1>8, <1>12 DEF IsJoin
  <1>14. ASSUME NEW k \in 1 .. Len(c) PROVE c[k] = d[k]
    <2> DEFINE x == k - Len(s)
    <2>1. k \in 1 .. Len(s) \/ (x \in 1 .. Len(r) /\ k = Len(s) + x) BY <1>5, <1>8 DEF IsJoin
    <2> HIDE DEF x
    <2>2. CASE k \in 1 .. Len(s) BY <1>5, <1>8, <1>9, <1>12, <2>2 DEF IsJoin
    <2>3. CASE x \in 1 .. Len(r) /\ k = Len(s) + x BY <1>5, <1>8, <1>9, <1>12, <2>3 DEF IsJoin
    <2> QED BY <2>1, <2>2, <2>3
  <1>15. c = d BY <1>7, <1>12, <1>13, <1>14, SequencesEqual
  <1> QED BY <1>11, <1>15 DEF d, U, Cat

\* Beginnings of a sequence.
LEMMA BeginningsAre ==
    ASSUME NEW S, NEW s \in Seq(S)
    PROVE  /\ SubSeq(s, 1, 0) = <<>> /\ SubSeq(s, 1, Len(s)) = s
           /\ \A n \in 0 .. Len(s) : SubSeq(s, 1, n) \in Seq(S)
           /\ \A n \in Nat : n + 1 <= Len(s) => SubSeq(s, 1, n + 1) = Append(SubSeq(s, 1, n), s[n + 1]) /\ s[n + 1] \in S
  <1>1. Len(s) \in Nat /\ SubSeq(s, 1, 0) = <<>> /\ SubSeq(s, 1, Len(s)) = s OBVIOUS
  <1>2. ASSUME NEW n \in 0 .. Len(s)
        PROVE  SubSeq(s, 1, n) \in Seq(S) /\ Len(SubSeq(s, 1, n)) = n /\ \A k \in 1 .. n : SubSeq(s, 1, n)[k] = s[k]
    OBVIOUS
  <1>3. ASSUME NEW n \in Nat, n + 1 <= Len(s)
        PROVE  SubSeq(s, 1, n + 1) = Append(SubSeq(s, 1, n), s[n + 1]) /\ s[n + 1] \in S
    <2> DEFINE a == SubSeq(s, 1, n + 1)
               b == SubSeq(s, 1, n)
               c == Append(b, s[n + 1])
    <2>1. n \in 0 .. Len(s) /\ n + 1 \in 0 .. Len(s) /\ n + 1 \in 1 .. Len(s) BY <1>1, <1>3
    <2>2. a \in Seq(S) /\ Len(a) = n + 1 /\ \A k \in 1 .. n + 1 : a[k] = s[k] BY <1>2, <2>1
    <2>3. b \in Seq(S) /\ Len(b) = n /\ \A k \in 1 .. n : b[k] = s[k] BY <1>2, <2>1
    <2> HIDE DEF a, b
    <2>4. s[n + 1] \in S BY <2>1
    <2>5. c \in Seq(S) /\ Len(c) = n + 1 /\ c[n + 1] = s[n + 1] /\ \A k \in 1 .. n : c[k] = b[k] BY <2>3, <2>4
    <2> HIDE DEF c
    <2>6. \A k \in 1 .. n + 1 : k = n + 1 \/ k \in 1 .. n OBVIOUS
    <2>7. \A k \in 1 .. n + 1 : a[k] = c[k] BY <2>2, <2>3, <2>5, <2>6
    <2>8. a = c BY <2>2, <2>5, <2>7, SequencesEqual
    <2> QED BY <2>4, <2>8 DEF a, b, c
  <1> QED BY <1>1, <1>2, <1>3

UsedList(t, p, at) == InPathOrder(UsedIn(t, p, at))

\* What the hasher of a directory was given when it was through with its first n entries.
FirstDigests(t, at, p, n) == FlattenSeq(SubSeq(Digests(UsedList(t, p, at), at), 1, n))

\* They grow by a digest at a time.
LEMMA DigestsGrow ==
    ASSUME NEW t, Rooted(t), NEW at, IsScan(at, t), NEW p \in DOMAIN t
    PROVE  /\ FirstDigests(t, at, p, 0) = <<>>
           /\ \A n \in 0 .. Len(UsedList(t, p, at)) : FirstDigests(t, at, p, n) \in Seq(Nat)
           /\ \A n \in Nat : n + 1 <= Len(UsedList(t, p, at)) =>
                FirstDigests(t, at, p, n + 1) = Cat(FirstDigests(t, at, p, n), Digest(at[UsedList(t, p, at)[n + 1]]))
           /\ t[p] = Dir => FirstDigests(t, at, p, Len(UsedList(t, p, at))) = at[p]
  <1> DEFINE U == UsedIn(t, p, at)
             s == UsedList(t, p, at)
             d == Digests(s, at)
             R == Seq(Nat)
  <1>1. s \in Seq(U) /\ U \subseteq DOMAIN t BY UsedAre DEF UsedList
  <1>2. \A q \in U : at[q] \in Seq(Nat) BY <1>1 DEF IsScan
  <1>3. t[p] = Dir => at[p] = FlattenSeq(d) BY DEF IsScan, ScanStep, UsedList
  <1> HIDE DEF U, s
  <1>4. d \in Seq(R) /\ Len(d) = Len(s) /\ \A i \in 1 .. Len(s) : d[i] = Digest(at[s[i]]) BY <1>1, <1>2, DigestsAre
  <1>5. Len(s) \in Nat BY <1>1
  <1> HIDE DEF d, R
  <1>6. /\ SubSeq(d, 1, 0) = <<>> /\ SubSeq(d, 1, Len(s)) = d
        /\ \A n \in 0 .. Len(s) : SubSeq(d, 1, n) \in Seq(R)
        /\ \A n \in Nat : n + 1 <= Len(s) => SubSeq(d, 1, n + 1) = Append(SubSeq(d, 1, n), d[n + 1]) /\ d[n + 1] \in R
    BY <1>4, BeginningsAre
  <1>7. FlattenSeq(<<>>) = <<>> BY DEF FlattenSeq
  <1>8. \A n \in 0 .. Len(s) : FlattenSeq(SubSeq(d, 1, n)) \in Seq(Nat) BY <1>6, FlattenType DEF R
  <1>9. ASSUME NEW n \in Nat, n + 1 <= Len(s)
        PROVE  FlattenSeq(SubSeq(d, 1, n + 1)) = Cat(FlattenSeq(SubSeq(d, 1, n)), Digest(at[s[n + 1]]))
    <2> DEFINE b == SubSeq(d, 1, n)
               x == d[n + 1]
    <2>1. n \in 0 .. Len(s) /\ n + 1 \in 1 .. Len(s) BY <1>5, <1>9
    <2>2. b \in Seq(R) /\ x \in R /\ SubSeq(d, 1, n + 1) = Append(b, x) BY <1>6, <1>9, <2>1
    <2>3. x = Digest(at[s[n + 1]]) BY <1>4, <2>1
    <2> HIDE DEF b, x
    <2>4. FlattenSeq(Append(b, x)) = FlattenSeq(b) \o x BY <2>2, FlattenGrows DEF R
    <2> QED BY <2>2, <2>3, <2>4 DEF b, Cat
  <1> QED BY <1>3, <1>6, <1>7, <1>8, <1>9 DEF FirstDigests, s, d

\* The files that count in a part of an input, and in the first n entries of a directory.
FilesIn(t, i, p) == TrackedFiles(t, i) \cap Below(t, p)

FirstFiles(t, i, at, p, n) == {f \in TrackedFiles(t, i) : \E k \in 1 .. n : f \in Below(t, UsedList(t, p, at)[k])}

\* The used entries, one by one.
LEMMA UsedListIs ==
    ASSUME NEW t, Rooted(t), NEW at, NEW i \in Paths, NEW p \in Below(t, i), Counts(i, p),
           NEW k \in 1 .. Len(UsedList(t, p, at))
    PROVE  LET q == UsedList(t, p, at)[k]
           IN /\ q \in Paths /\ q \in Below(t, i) /\ q \in DirEntries(t, p) /\ Counts(i, q) /\ (t[q] = Dir => at[q] # <<>>)
              /\ q \in UsedIn(t, p, at)
  <1> DEFINE U == UsedIn(t, p, at)
             s == UsedList(t, p, at)
  <1>1. p \in DOMAIN t BY DEF Below
  <1>2. s \in Seq(U) /\ U \subseteq DirEntries(t, p) /\ U \subseteq Paths BY <1>1, UsedAre DEF UsedList
  <1>3. s[k] \in U
    <2>1. k \in 1 .. Len(s) OBVIOUS
    <2> HIDE DEF U, s
    <2> QED BY <1>2, <2>1, ElementIs
  <1>4. \A q \in U : q \in Below(t, i) /\ Counts(i, q) /\ (t[q] = Dir => at[q] # <<>>) BY <1>2, UsedIsTracked
  <1> QED BY <1>2, <1>3, <1>4

\* The files come entry by entry, in their order.
LEMMA FilesGrow ==
    ASSUME NEW t, Rooted(t), NEW at, NEW i \in Paths, NEW p \in Below(t, i), Counts(i, p)
    PROVE  /\ FirstFiles(t, i, at, p, 0) = {}
           /\ \A n \in Nat : n + 1 <= Len(UsedList(t, p, at)) =>
                /\ FirstFiles(t, i, at, p, n + 1) = FirstFiles(t, i, at, p, n) \cup FilesIn(t, i, UsedList(t, p, at)[n + 1])
                /\ \A f \in FirstFiles(t, i, at, p, n) : \A g \in FilesIn(t, i, UsedList(t, p, at)[n + 1]) : Lexicographic(f, g)
  <1> DEFINE s == UsedList(t, p, at)
             U == UsedIn(t, p, at)
  <1>1. FirstFiles(t, i, at, p, 0) = {} BY DEF FirstFiles
  <1>2. p \in DOMAIN t BY DEF Below
  <1>3. Lists(s, U) BY <1>2, UsedAre DEF UsedList
  <1>4. \A k \in 1 .. Len(s) : s[k] \in Paths /\ s[k] \in DirEntries(t, p) BY UsedListIs
  <1>5. \A k \in 1 .. Len(s) : Len(s[k]) = Len(p) + 1 BY <1>2, <1>4, EntriesAre
  <1>6. Len(s) \in Nat BY <1>3 DEF Lists
  <1>7. ASSUME NEW n \in Nat, n + 1 <= Len(s)
        PROVE  FirstFiles(t, i, at, p, n + 1) = FirstFiles(t, i, at, p, n) \cup FilesIn(t, i, s[n + 1])
    <2>1. \A k : k \in 1 .. n + 1 <=> (k \in 1 .. n \/ k = n + 1) OBVIOUS
    <2> HIDE DEF s
    <2> QED BY <2>1 DEF FirstFiles, FilesIn, s
  <1>8. ASSUME NEW n \in Nat, n + 1 <= Len(s), NEW f \in FirstFiles(t, i, at, p, n), NEW g \in FilesIn(t, i, s[n + 1])
        PROVE  Lexicographic(f, g)
    <2>1. PICK k \in 1 .. n : f \in Below(t, s[k]) BY DEF FirstFiles
    <2>2. k \in 1 .. Len(s) /\ n + 1 \in 1 .. Len(s) /\ k < n + 1 BY <1>6, <1>8
    <2>3. Lexicographic(s[k], s[n + 1]) BY <1>3, <2>2 DEF Lists
    <2>4. s[k] \in Paths /\ s[n + 1] \in Paths /\ Len(s[k]) = Len(s[n + 1]) BY <1>4, <1>5, <2>2
    <2>5. ~IsPrefix(s[k], s[n + 1])
      <3>1. s[k] # s[n + 1] BY <2>3, <2>4, PathsAreOrdered
      <3> QED BY <2>4, <3>1, PrefixIs, PathsEqual
    <2>6. f \in Paths /\ g \in Paths /\ IsPrefix(s[k], f) /\ IsPrefix(s[n + 1], g)
      BY <2>1 DEF FilesIn, Below, Rooted, IsTree
    <2> HIDE DEF s
    <2> QED BY <2>3, <2>4, <2>5, <2>6, OrderBelow
  <1> QED BY <1>1, <1>7, <1>8

\* No tracked file of an input holds the text of a digest.
HasBytes(t, i) == \A p \in TrackedFiles(t, i) : t[p].data \in Bytes

\* The contents of no file, and of one.
LEMMA FewContents ==
    ASSUME NEW t
    PROVE  Contents(t, {}) = <<>> /\ \A p \in Paths : Contents(t, {p}) = <<t[p].data>>
  <1>1. InPathOrder({}) = <<>>
    <2>1. Lists(<<>>, {}) BY DEF Lists
    <2> QED BY <2>1, OneList
  <1>2. ASSUME NEW p \in Paths PROVE InPathOrder({p}) = <<p>>
    <2>1. Lists(<<p>>, {p}) BY DEF Lists
    <2> QED BY <2>1, OneList
  <1>3. Contents(t, {}) = <<>> BY <1>1 DEF Contents
  <1>4. ASSUME NEW p \in Paths PROVE Contents(t, {p}) = <<t[p].data>>
    <2> DEFINE s == <<p>>
    <2>1. DOMAIN s = 1 .. 1 /\ s[1] = p OBVIOUS
    <2>2. InPathOrder({p}) = s BY <1>2
    <2> HIDE DEF s
    <2>3. Contents(t, {p}) = [k \in 1 .. 1 |-> t[p].data]
      <3>1. Contents(t, {p}) = [k \in DOMAIN s |-> t[s[k]].data] BY <2>2 DEF Contents
      <3>2. \A k \in 1 .. 1 : k = 1 OBVIOUS
      <3>3. \A k \in 1 .. 1 : s[k] = p BY <2>1, <3>2
      <3> QED BY <2>1, <3>1, <3>3
    <2> QED BY <2>3
  <1> QED BY <1>3, <1>4

\* The files of an input.
LEMMA FilesAre ==
    ASSUME NEW t, Rooted(t), NEW i \in Paths, NEW S, S \subseteq TrackedFiles(t, i)
    PROVE  IsFiniteSet(S) /\ S \subseteq Paths /\ \A p \in S : t[p].data \in Seq(Nat)
  <1>1. S \in SUBSET DOMAIN t BY DEF TrackedFiles, Below
  <1>2. IsFiniteSet(S) BY <1>1, FS_Subset DEF Rooted, IsTree
  <1>3. \A p \in DOMAIN t : p \in Paths /\ t[p] \in Nodes BY DEF Rooted, IsTree
  <1> QED BY <1>1, <1>2, <1>3, NodesAre

\* A file has nothing below it.
LEMMA FileAlone ==
    ASSUME NEW t, Rooted(t), NEW i \in Paths, NEW q \in Below(t, i), Counts(i, q), t[q] # Dir
    PROVE  FilesIn(t, i, q) = {q}
  <1>1. q \in DOMAIN t /\ q \in Paths /\ IsPrefix(q, q) BY PrefixOrder DEF Below, Rooted, IsTree
  <1>2. q \in FilesIn(t, i, q) BY <1>1 DEF FilesIn, TrackedFiles, Below
  <1>3. ASSUME NEW f \in FilesIn(t, i, q), f # q PROVE FALSE
    <2>1. f \in DOMAIN t /\ f \in Paths /\ IsPrefix(q, f) BY DEF FilesIn, Below, Rooted, IsTree
    <2>2. q \in Ancestors(f) BY <1>1, <1>3, <2>1, AncestorsAre
    <2> QED BY <2>1, <2>2 DEF Rooted, IsTree
  <1> QED BY <1>2, <1>3

\* The files below a directory are those in its used entries.
LEMMA FilesInAll ==
    ASSUME NEW t, Rooted(t), NEW at, IsScan(at, t), NEW i \in Paths, NEW p \in Below(t, i), Counts(i, p), t[p] = Dir
    PROVE  FirstFiles(t, i, at, p, Len(UsedList(t, p, at))) = FilesIn(t, i, p)
  <1> DEFINE s == UsedList(t, p, at)
             U == UsedIn(t, p, at)
  <1>1. p \in DOMAIN t BY DEF Below
  <1>2. ASSUME NEW f \in FirstFiles(t, i, at, p, Len(s)) PROVE f \in FilesIn(t, i, p)
    <2>1. PICK k \in 1 .. Len(s) : f \in Below(t, s[k]) /\ f \in TrackedFiles(t, i) BY DEF FirstFiles
    <2>2. s[k] \in DirEntries(t, p) BY UsedListIs
    <2>3. Below(t, s[k]) \subseteq Below(t, p) BY <1>1, <2>2, EntriesAre
    <2> QED BY <2>1, <2>3 DEF FilesIn
  <1>3. ASSUME NEW f \in FilesIn(t, i, p) PROVE f \in FirstFiles(t, i, at, p, Len(s))
    <2>1. f \in TrackedFiles(t, i) /\ f \in Below(t, p) /\ t[f] # Dir BY DEF FilesIn, TrackedFiles
    <2>2. PICK q \in DirEntries(t, p) : f \in Below(t, q) BY <1>1, <2>1, EntriesAre
    <2>3. q \in Paths /\ f \in Paths /\ IsPrefix(q, f) /\ q \in Below(t, i)
      BY <1>1, <2>2, EntriesAre, UsedIsTracked DEF Below, Rooted, IsTree
    <2>4. Counts(i, q)
      <3>1. Counts(i, f) BY <2>1 DEF TrackedFiles
      <3> QED BY <2>3, <3>1, ValidIs DEF Counts
    <2>5. t[q] = Dir => at[q] # <<>> BY <2>1, <2>2, <2>3, <2>4, DirectoriesCount
    <2>6. q \in U BY <2>4, <2>5, UsedIsTracked
    <2>7. PICK k \in 1 .. Len(s) : s[k] = q BY <1>1, <2>6, UsedAre DEF Lists, UsedList
    <2> HIDE DEF s
    <2> QED BY <2>1, <2>2, <2>7 DEF FirstFiles, s
  <1> QED BY <1>2, <1>3

Code(t, i, at, p, n) == <<FirstDigests(t, at, p, n), Contents(t, FirstFiles(t, i, at, p, n))>>

\* What the hashers of the directories of an input are given, and the contents of the files it stands for.
Codes(t, i, at) ==
    {Code(t, i, at, x[1], x[2]) :
        x \in {y \in Below(t, i) \X Nat : Counts(i, y[1]) /\ t[y[1]] = Dir /\ y[2] <= Len(UsedList(t, y[1], at))}}

\* A directory, and what it holds.
LEMMA DirectoryCode ==
    ASSUME NEW t, Rooted(t), NEW at, IsScan(at, t), NEW i \in Paths, NEW p \in Below(t, i), Counts(i, p), t[p] = Dir
    PROVE  /\ \A n \in Nat : n <= Len(UsedList(t, p, at)) => Code(t, i, at, p, n) \in Codes(t, i, at)
           /\ <<at[p], Contents(t, FilesIn(t, i, p))>> \in Codes(t, i, at)
  <1> DEFINE s == UsedList(t, p, at)
  <1>1. ASSUME NEW n \in Nat, n <= Len(s) PROVE Code(t, i, at, p, n) \in Codes(t, i, at)
    <2> DEFINE x == <<p, n>>
    <2>1. x[1] = p /\ x[2] = n /\ x \in Below(t, i) \X Nat OBVIOUS
    <2> HIDE DEF x
    <2> QED BY <1>1, <2>1 DEF Codes
  <1>2. p \in DOMAIN t BY DEF Below
  <1>3. Len(s) \in Nat BY <1>2, UsedAre DEF UsedList
  <1>4. Code(t, i, at, p, Len(s)) = <<at[p], Contents(t, FilesIn(t, i, p))>>
    BY <1>2, DigestsGrow, FilesInAll DEF Code
  <1>5. Len(s) <= Len(s) BY <1>3
  <1> QED BY <1>1, <1>3, <1>4, <1>5

\* The next entry of a directory is a file, or a directory with something to hash in it.
LEMMA CodeGrows ==
    ASSUME NEW t, Rooted(t), NEW at, IsScan(at, t), NEW i \in Paths, HasBytes(t, i),
           NEW p \in Below(t, i), Counts(i, p), t[p] = Dir, NEW n \in Nat, n + 1 <= Len(UsedList(t, p, at))
    PROVE  \E s, c : /\ Item(Codes(t, i, at), s, c)
                     /\ Code(t, i, at, p, n + 1) = <<Cat(Code(t, i, at, p, n)[1], Digest(s)), Cat(Code(t, i, at, p, n)[2], c)>>
  <1> DEFINE q == UsedList(t, p, at)[n + 1]
             c == Contents(t, FilesIn(t, i, q))
             F == FirstFiles(t, i, at, p, n)
             G == FilesIn(t, i, q)
  <1>1. p \in DOMAIN t /\ Len(UsedList(t, p, at)) \in Nat
    <2>1. p \in DOMAIN t BY DEF Below
    <2> QED BY <2>1, UsedAre DEF UsedList
  <1>2. n + 1 \in 1 .. Len(UsedList(t, p, at)) BY <1>1
  <1>3. q \in Paths /\ q \in Below(t, i) /\ Counts(i, q) /\ (t[q] = Dir => at[q] # <<>>) BY <1>2, UsedListIs
  <1>4. FirstDigests(t, at, p, n + 1) = Cat(FirstDigests(t, at, p, n), Digest(at[q])) BY <1>1, DigestsGrow
  <1>5. FirstFiles(t, i, at, p, n + 1) = F \cup G /\ \A f \in F : \A g \in G : Lexicographic(f, g) BY FilesGrow
  <1>6. F \subseteq TrackedFiles(t, i) /\ G \subseteq TrackedFiles(t, i) BY DEF FirstFiles, FilesIn
  <1>7. Contents(t, F \cup G) = Cat(Contents(t, F), Contents(t, G))
    <2> HIDE DEF F, G
    <2>1. IsFiniteSet(F) /\ F \subseteq Paths /\ \A x \in F : t[x].data \in Seq(Nat) BY <1>6, FilesAre
    <2>2. IsFiniteSet(G) /\ G \subseteq Paths /\ \A x \in G : t[x].data \in Seq(Nat) BY <1>6, FilesAre
    <2> QED BY <1>5, <2>1, <2>2, ContentsJoin
  <1>8. Code(t, i, at, p, n + 1) = <<Cat(Code(t, i, at, p, n)[1], Digest(at[q])), Cat(Code(t, i, at, p, n)[2], c)>>
    BY <1>4, <1>5, <1>7 DEF Code
  <1>9. Item(Codes(t, i, at), at[q], c)
    <2>1. q \in DOMAIN t /\ at[q] \in Seq(Nat) BY <1>3 DEF Below, IsScan
    <2>2. CASE t[q] = Dir
      <3>1. at[q] # <<>> /\ <<at[q], c>> \in Codes(t, i, at) BY <1>3, <2>2, DirectoryCode
      <3> QED BY <2>1, <3>1 DEF Item
    <2>3. CASE t[q] # Dir
      <3>1. at[q] = t[q].data BY <2>1, <2>3 DEF IsScan, ScanStep
      <3>2. q \in TrackedFiles(t, i) BY <1>3, <2>3 DEF TrackedFiles
      <3>3. t[q].data \in Seq(0 .. 99) BY <3>2 DEF HasBytes, Bytes
      <3>4. c = <<t[q].data>> BY <1>3, <2>3, FileAlone, FewContents
      <3> HIDE DEF q, c
      <3> QED BY <2>1, <3>1, <3>3, <3>4 DEF Item
    <2> QED BY <2>2, <2>3
  <1> QED BY <1>8, <1>9

\* So they can be read.
LEMMA CodesAre ==
    ASSUME NEW t, Rooted(t), NEW at, IsScan(at, t), NEW i \in Paths, HasBytes(t, i)
    PROVE  IsCode(Codes(t, i, at))
  <1> DEFINE C == Codes(t, i, at)
  <1> SUFFICES ASSUME NEW e \in C
               PROVE  /\ e[1] \in Seq(Nat)
                      /\ \/ e = << <<>>, <<>> >>
                         \/ \E f \in C : \E s, c : Item(C, s, c) /\ e = <<Cat(f[1], Digest(s)), Cat(f[2], c)>>
    BY DEF IsCode
  <1>1. PICK p \in Below(t, i), n \in Nat :
            Counts(i, p) /\ t[p] = Dir /\ n <= Len(UsedList(t, p, at)) /\ e = Code(t, i, at, p, n)
    BY DEF Codes
  <1>2. p \in DOMAIN t /\ Len(UsedList(t, p, at)) \in Nat
    <2>1. p \in DOMAIN t BY DEF Below
    <2> QED BY <2>1, UsedAre DEF UsedList
  <1>3. e[1] \in Seq(Nat)
    <2>1. n \in 0 .. Len(UsedList(t, p, at)) BY <1>1, <1>2
    <2>2. FirstDigests(t, at, p, n) \in Seq(Nat) BY <1>2, <2>1, DigestsGrow
    <2> QED BY <1>1, <2>2 DEF Code
  <1>4. CASE n = 0
    <2>1. FirstDigests(t, at, p, 0) = <<>> /\ FirstFiles(t, i, at, p, 0) = {} BY <1>1, <1>2, DigestsGrow, FilesGrow
    <2>2. e = << <<>>, <<>> >> BY <1>1, <1>4, <2>1, FewContents DEF Code
    <2> QED BY <1>3, <2>2
  <1>5. CASE n # 0
    <2> DEFINE k == n - 1
    <2>1. k \in Nat /\ n = k + 1 /\ k <= Len(UsedList(t, p, at)) BY <1>1, <1>2, <1>5
    <2> HIDE DEF k
    <2>2. Code(t, i, at, p, k) \in C BY <1>1, <2>1, DirectoryCode
    <2>3. \E s, c : Item(C, s, c) /\ e = <<Cat(Code(t, i, at, p, k)[1], Digest(s)), Cat(Code(t, i, at, p, k)[2], c)>>
      BY <1>1, <2>1, CodeGrows
    <2> HIDE DEF C
    <2> QED BY <1>3, <2>2, <2>3
  <1> QED BY <1>4, <1>5

\* Codes of several directories can be read together.
LEMMA CodesTogether ==
    ASSUME NEW A, IsCode(A), NEW B, IsCode(B)
    PROVE  IsCode(A \cup B) /\ IsCode({<< <<>>, <<>> >>})
  <1>1. \A s, c : Item(A, s, c) \/ Item(B, s, c) => Item(A \cup B, s, c) BY DEF Item
  <1>2. ASSUME NEW D, IsCode(D), D \subseteq A \cup B, \A s, c : Item(D, s, c) => Item(A \cup B, s, c), NEW e \in D
        PROVE  /\ e[1] \in Seq(Nat)
               /\ \/ e = << <<>>, <<>> >>
                  \/ \E f \in A \cup B : \E s, c : Item(A \cup B, s, c) /\ e = <<Cat(f[1], Digest(s)), Cat(f[2], c)>>
    <2>1. CASE e = << <<>>, <<>> >> BY <1>2, <2>1 DEF IsCode
    <2>2. CASE e # << <<>>, <<>> >>
      <3>1. PICK f \in D : \E s, c : Item(D, s, c) /\ e = <<Cat(f[1], Digest(s)), Cat(f[2], c)>> BY <1>2, <2>2 DEF IsCode
      <3>2. PICK s, c : Item(D, s, c) /\ e = <<Cat(f[1], Digest(s)), Cat(f[2], c)>> BY <3>1
      <3>3. f \in A \cup B /\ Item(A \cup B, s, c) BY <1>2, <3>2
      <3>4. e[1] \in Seq(Nat) BY <1>2 DEF IsCode
      <3> QED BY <3>2, <3>3, <3>4
    <2> QED BY <2>1, <2>2
  <1>4. A \subseteq A \cup B /\ B \subseteq A \cup B OBVIOUS
  <1>3. IsCode({<< <<>>, <<>> >>})
    <2> DEFINE z == << <<>>, <<>> >>
    <2>1. z[1] \in Seq(Nat) OBVIOUS
    <2> QED BY <2>1 DEF IsCode
  <1>5. IsCode(A \cup B)
    <2>1. \A e \in A \cup B :
            /\ e[1] \in Seq(Nat)
            /\ \/ e = << <<>>, <<>> >>
               \/ \E f \in A \cup B : \E s, c : Item(A \cup B, s, c) /\ e = <<Cat(f[1], Digest(s)), Cat(f[2], c)>>
      <3> SUFFICES ASSUME NEW e \in A \cup B
                   PROVE  /\ e[1] \in Seq(Nat)
                          /\ \/ e = << <<>>, <<>> >>
                             \/ \E f \in A \cup B : \E s, c : Item(A \cup B, s, c) /\ e = <<Cat(f[1], Digest(s)), Cat(f[2], c)>>
        OBVIOUS
      <3>1. CASE e \in A BY <1>1, <1>2, <1>4, <3>1
      <3>2. CASE e \in B BY <1>1, <1>2, <1>4, <3>2
      <3> QED BY <3>1, <3>2
    <2> QED BY <2>1 DEF IsCode
  <1> QED BY <1>3, <1>5

\* What x, hashed, can stand for: a file that holds it, or the contents below a directory.
Means(C, x, c) == (x \in Seq(0 .. 99) /\ x # <<>> /\ c = <<x>>) \/ <<x, c>> \in C

\* It stands for one thing only.
LEMMA OneMeaning ==
    ASSUME NEW C, IsCode(C), NEW x, NEW c, Means(C, x, c), NEW d, Means(C, x, d)
    PROVE  c = d
  <1>1. CASE <<x, c>> \in C /\ <<x, d>> \in C
    <2> DEFINE a == <<x, c>>
               b == <<x, d>>
    <2>1. a \in C /\ b \in C /\ a[1] = x /\ b[1] = x BY <1>1
    <2>2. <<>> \in Seq(Nat) /\ Open(<<>>) BY DEF Open
    <2> HIDE DEF a, b
    <2>3. Cat(<<>>, a[1]) = Cat(<<>>, b[1]) BY <2>1
    <2>4. a = b BY <2>1, <2>2, <2>3, CodesAreRead
    <2> QED BY <2>4 DEF a, b
  <1>2. ASSUME x \in Seq(0 .. 99), x # <<>>, NEW b, <<x, b>> \in C PROVE FALSE
    <2> DEFINE a == <<x, b>>
    <2>1. a \in C /\ a[1] = x BY <1>2
    <2> HIDE DEF a
    <2>2. Last(x) = 101 BY <1>2, <2>1, CodeEnds
    <2> DEFINE n == Len(x)
    <2>3. n \in 1 .. Len(x) BY <1>2
    <2>4. Last(x) = x[n] BY DEF Last
    <2> HIDE DEF n
    <2>5. x[n] \in 0 .. 99 BY <1>2, <2>3, ElementIs
    <2> QED BY <2>2, <2>4, <2>5
  <1> QED BY <1>1, <1>2 DEF Means

\* The listing of an input is that of its files in their order.
LEMMA ListingIs ==
    ASSUME NEW t, WorkSpace(t), NEW i \in Inputs
    PROVE  Listing(t)[i] = Contents(t, {p \in TrackedFiles(t, i) : p # i \/ t[p].data # <<>>})
  <1> DEFINE d == Tracked(t)[i]
             S == {p \in TrackedFiles(t, i) : p # i \/ t[p].data # <<>>}
             D == {p \in DOMAIN d : p # i \/ d[p] # <<>>}
             s == InPathOrder(S)
  <1>1. DOMAIN d = TrackedFiles(t, i) /\ \A p \in TrackedFiles(t, i) : d[p] = t[p].data BY TrackedIs
  <1>2. D = S BY <1>1
  <1>3. Listing(t)[i] = [n \in DOMAIN InPathOrder(D) |-> d[InPathOrder(D)[n]]] BY DEF Listing
  <1>4. Rooted(t) /\ i \in Paths /\ S \subseteq TrackedFiles(t, i) BY LocationsAre DEF WorkSpace
  <1>5. s \in Seq(S)
    <2> HIDE DEF S
    <2>1. IsFiniteSet(S) /\ S \subseteq Paths BY <1>4, FilesAre
    <2> QED BY <2>1, PathOrderIs DEF Lists
  <1>6. \A n \in DOMAIN s : d[s[n]] = t[s[n]].data
    <2> SUFFICES ASSUME NEW n \in DOMAIN s PROVE d[s[n]] = t[s[n]].data OBVIOUS
    <2>1. s[n] \in S
      <3> HIDE DEF S, s
      <3>1. n \in 1 .. Len(s) BY <1>5
      <3> QED BY <1>5, <3>1, ElementIs
    <2> QED BY <1>1, <2>1
  <1> HIDE DEF d, D
  <1>7. Listing(t)[i] = [n \in DOMAIN s |-> d[s[n]]] BY <1>2, <1>3
  <1> QED BY <1>6, <1>7 DEF Contents

\* What the fingerprint of an input stands for.
LEMMA ScanMeans ==
    ASSUME NEW t, WorkSpace(t), NEW i \in Inputs, HasBytes(t, i)
    PROVE  \E C : IsCode(C) /\ Means(C, Scan(t, i), Listing(t)[i])
  <1> DEFINE at == ScanOf(t)
             S == {p \in TrackedFiles(t, i) : p # i \/ t[p].data # <<>>}
             C == Codes(t, i, at)
             Z == {<< <<>>, <<>> >>}
  <1>1. Rooted(t) /\ i \in Paths /\ IsPrefix(i, i) /\ Counts(i, i)
    BY LocationsAre, PrefixOrder DEF WorkSpace, Counts
  <1>2. IsScan(at, t) /\ Scan(t, i) = IF i \in DOMAIN t THEN at[i] ELSE <<>> BY <1>1, ScanIs
  <1> HIDE DEF at
  <1>4. IsCode(C) BY <1>1, <1>2, CodesAre
  <1>5. IsCode(Z) BY <1>4, CodesTogether
  <1> HIDE DEF C, Z
  <1>6. Listing(t)[i] = Contents(t, S) BY ListingIs
  <1>7. CASE i \notin DOMAIN t
    <2>1. TrackedFiles(t, i) = {}
      <3> SUFFICES ASSUME NEW f \in TrackedFiles(t, i) PROVE FALSE OBVIOUS
      <3>1. f \in DOMAIN t /\ f \in Paths /\ IsPrefix(i, f) BY <1>1 DEF TrackedFiles, Below, Rooted, IsTree
      <3>2. i \in Ancestors(f) BY <1>1, <1>7, <3>1, AncestorsAre
      <3> QED BY <1>1, <1>7, <3>1, <3>2 DEF Rooted, IsTree
    <2>2. S = {} BY <2>1
    <2>3. <<Scan(t, i), Listing(t)[i]>> \in Z BY <1>2, <1>6, <1>7, <2>2, FewContents DEF Z
    <2> QED BY <1>5, <2>3 DEF Means
  <1>8. CASE i \in DOMAIN t /\ t[i] = Dir
    <2>1. i \in Below(t, i) BY <1>1, <1>8 DEF Below
    <2>2. S = FilesIn(t, i, i)
      <3>1. FilesIn(t, i, i) = TrackedFiles(t, i) BY DEF FilesIn, TrackedFiles
      <3>2. i \notin TrackedFiles(t, i) BY <1>8 DEF TrackedFiles
      <3> QED BY <3>1, <3>2
    <2> HIDE DEF S
    <2>3. <<at[i], Contents(t, FilesIn(t, i, i))>> \in C BY <1>1, <1>2, <1>8, <2>1, DirectoryCode DEF C
    <2>4. <<Scan(t, i), Listing(t)[i]>> \in C BY <1>2, <1>6, <1>8, <2>2, <2>3
    <2> QED BY <1>4, <2>4 DEF Means
  <1>9. CASE i \in DOMAIN t /\ t[i] # Dir
    <2>1. i \in Below(t, i) BY <1>1, <1>9 DEF Below
    <2>2. at[i] = t[i].data BY <1>2, <1>9 DEF IsScan, ScanStep
    <2>3. t[i].data \in Seq(0 .. 99)
      <3>1. i \in TrackedFiles(t, i) BY <1>1, <1>9, <2>1 DEF TrackedFiles
      <3> QED BY <3>1 DEF HasBytes, Bytes
    <2>4. FilesIn(t, i, i) = {i} BY <1>1, <1>9, <2>1, FileAlone
    <2>5. TrackedFiles(t, i) = {i}
      <3>1. FilesIn(t, i, i) = TrackedFiles(t, i) BY DEF FilesIn, TrackedFiles
      <3> QED BY <2>4, <3>1
    <2>6. CASE t[i].data = <<>>
      <3>1. S = {} BY <2>5, <2>6
      <3>2. <<Scan(t, i), Listing(t)[i]>> \in Z BY <1>2, <1>6, <1>9, <2>2, <2>6, <3>1, FewContents DEF Z
      <3> QED BY <1>5, <3>2 DEF Means
    <2>7. CASE t[i].data # <<>>
      <3>1. S = {i} BY <2>5, <2>7
      <3> HIDE DEF S
      <3>2. Listing(t)[i] = <<t[i].data>> BY <1>1, <1>6, <3>1, FewContents
      <3>3. Scan(t, i) = t[i].data BY <1>2, <1>9, <2>2
      <3> QED BY <1>4, <2>3, <2>7, <3>2, <3>3 DEF Means
    <2> QED BY <2>6, <2>7
  <1> QED BY <1>7, <1>8, <1>9

\* What it means for the files.
LEMMA NoDigestIs ==
    ASSUME NEW t, HoldNoDigest(Tracked(t)), NEW i \in Inputs
    PROVE  HasBytes(t, i)
  <1>1. \A p \in DOMAIN Tracked(t)[i] : Tracked(t)[i][p] \in Bytes BY DEF HoldNoDigest
  <1> QED BY <1>1, TrackedIs DEF HasBytes

\* Equal fingerprints stand for equal listings.
LEMMA SamePrintSameListing ==
    ASSUME NEW t, WorkSpace(t), HoldNoDigest(Tracked(t)), NEW u, WorkSpace(u), HoldNoDigest(Tracked(u)),
           \A i \in Inputs : Scan(t, i) = Scan(u, i)
    PROVE  Listing(t) = Listing(u)
  <1>1. ASSUME NEW i \in Inputs PROVE Listing(t)[i] = Listing(u)[i]
    <2> DEFINE x == Scan(t, i)
               a == Listing(t)[i]
               b == Listing(u)[i]
    <2>1. x = Scan(u, i) OBVIOUS
    <2>7. HasBytes(t, i) /\ HasBytes(u, i) BY NoDigestIs
    <2>2. PICK A : IsCode(A) /\ Means(A, x, a) BY <2>7, ScanMeans
    <2>3. PICK B : IsCode(B) /\ Means(B, x, b) BY <2>1, <2>7, ScanMeans
    <2> HIDE DEF x, a, b
    <2>4. IsCode(A \cup B) BY <2>2, <2>3, CodesTogether
    <2>5. Means(A \cup B, x, a) /\ Means(A \cup B, x, b) BY <2>2, <2>3 DEF Means
    <2>6. a = b BY <2>4, <2>5, OneMeaning
    <2> QED BY <2>6 DEF a, b
  <1>2. DOMAIN Listing(t) = Inputs /\ DOMAIN Listing(u) = Inputs BY DEF Listing
  <1>3. Listing(t) = [i \in Inputs |-> Listing(t)[i]] /\ Listing(u) = [i \in Inputs |-> Listing(u)[i]] BY DEF Listing
  <1> QED BY <1>1, <1>3

-----------------------------------------------------------------------------
(* Links                                                                   *)

\* Where a link leads is found: at once, or after one link.
LEMMA FollowedIs ==
    ASSUME NEW t \in Trees, IsFiniteSet(DOMAIN t), NEW p \in Paths
    PROVE  /\ Followed(t, p) \in Paths
           /\ p \notin DOMAIN t \/ t[p].kind # "link" => Followed(t, p) = p
           /\ p \in DOMAIN t /\ t[p].kind = "link" =>
                t[p].data \in Paths /\ (t[p].data \notin DOMAIN t \/ t[t[p].data].kind # "link" => Followed(t, p) = t[p].data)
  <1> DEFINE most == Cardinality(DOMAIN t)
             Leads(q) == IF q \in DOMAIN t /\ t[q].kind = "link" THEN t[q].data ELSE q
             step == [n \in 1 .. most |-> [q \in Paths |-> Leads(q)]]
             to == CHOOSE f : f = [n \in 0 .. most |-> IF n = 0 THEN p ELSE Leads(f[n - 1])]
  <1>1. Followed(t, p) = to[most] BY DEF Followed
  <1>2. most \in Nat BY FS_CardinalityType
  <1>3. \A q \in Paths : Leads(q) \in Paths
    <2>1. \A q \in DOMAIN t : t[q] \in Nodes BY TreesAre
    <2> QED BY <2>1, NodesAre
  <1>4. \A q : q \in DOMAIN t /\ t[q].kind = "link" => Leads(q) = t[q].data OBVIOUS
  <1>5. \A q : q \notin DOMAIN t \/ t[q].kind # "link" => Leads(q) = q OBVIOUS
  <1> HIDE DEF most, Leads
  <1>6. step \in [1 .. most -> [Paths -> Paths]] BY <1>3
  <1>7. \A n \in 1 .. most : \A q \in Paths : step[n][q] = Leads(q) OBVIOUS
  <1> HIDE DEF step
  <1>8. PICK f : Steps(f, most, Paths, p, step) BY <1>2, <1>6, CountedRecursion
  <1>9. f = [n \in 0 .. most |-> IF n = 0 THEN p ELSE Leads(f[n - 1])]
    <2>1. \A n \in 0 .. most : n # 0 => n \in 1 .. most /\ n - 1 \in 0 .. most BY <1>2
    <2>2. \A n \in 0 .. most : f[n] = IF n = 0 THEN p ELSE Leads(f[n - 1]) BY <1>7, <1>8, <2>1 DEF Steps
    <2> QED BY <1>8, <2>2 DEF Steps
  <1>10. to = [n \in 0 .. most |-> IF n = 0 THEN p ELSE Leads(to[n - 1])] BY <1>9
  <1> HIDE DEF to
  <1>11. to[0] = p /\ \A n \in 0 .. most : n # 0 => to[n] = Leads(to[n - 1])
    <2>1. 0 \in 0 .. most BY <1>2
    <2> QED BY <1>10, <2>1
  <1>12. \A n \in Nat : n + 1 <= most => n + 1 \in 0 .. most /\ n + 1 # 0 /\ (n + 1) - 1 = n BY <1>2
  <1>13. to[most] \in Paths
    <2> DEFINE A == {n \in Nat : n <= most => to[n] \in Paths}
    <2>1. 0 \in A BY <1>11
    <2>2. ASSUME NEW n \in Nat, n \in A PROVE n + 1 \in A
      <3>1. n + 1 <= most => n <= most BY <1>2
      <3>2. n + 1 <= most => to[n + 1] = Leads(to[n]) BY <1>11, <1>12
      <3> QED BY <1>3, <2>2, <3>1, <3>2
    <2> HIDE DEF A
    <2>3. \A n \in Nat : n \in A BY <2>1, <2>2, InductionOnNat
    <2>4. most <= most BY <1>2
    <2> QED BY <1>2, <2>3, <2>4 DEF A
  <1>14. ASSUME NEW k \in Nat, NEW q, Leads(q) = q, to[k] = q, k <= most PROVE to[most] = q
    <2> DEFINE A == {n \in Nat : k <= n /\ n <= most => to[n] = q}
    <2>1. 0 \in A BY <1>14
    <2>2. ASSUME NEW n \in Nat, n \in A PROVE n + 1 \in A
      <3> SUFFICES ASSUME k <= n + 1, n + 1 <= most PROVE to[n + 1] = q OBVIOUS
      <3>1. CASE k = n + 1 BY <1>14, <3>1
      <3>2. CASE k # n + 1
        <4>1. k <= n /\ n <= most BY <1>2, <3>2
        <4>2. to[n] = q BY <2>2, <4>1
        <4>3. to[n + 1] = Leads(to[n]) BY <1>11, <1>12
        <4> QED BY <1>14, <4>2, <4>3
      <3> QED BY <3>1, <3>2
    <2> HIDE DEF A
    <2>3. \A n \in Nat : n \in A BY <2>1, <2>2, InductionOnNat
    <2>4. most <= most BY <1>2
    <2> QED BY <1>2, <1>14, <2>3, <2>4 DEF A
  <1>15. ASSUME p \notin DOMAIN t \/ t[p].kind # "link" PROVE to[most] = p
    <2>1. Leads(p) = p BY <1>5, <1>15
    <2> QED BY <1>2, <1>11, <1>14, <2>1
  <1>16. ASSUME p \in DOMAIN t, t[p].kind = "link"
         PROVE  t[p].data \in Paths /\ (t[p].data \notin DOMAIN t \/ t[t[p].data].kind # "link" => to[most] = t[p].data)
    <2> DEFINE q == t[p].data
    <2>1. Leads(p) = q BY <1>4, <1>16
    <2>2. q \in Paths BY <1>3, <2>1
    <2>3. most # 0
      <3>1. DOMAIN t # {} BY <1>16
      <3> QED BY <3>1, FS_EmptySet DEF most
    <2>4. 0 + 1 <= most /\ 1 \in Nat BY <1>2, <2>3
    <2>5. to[1] = q BY <1>11, <1>12, <2>1, <2>4
    <2>6. q \notin DOMAIN t \/ t[q].kind # "link" => Leads(q) = q BY <1>5
    <2> HIDE DEF q
    <2>7. q \notin DOMAIN t \/ t[q].kind # "link" => to[most] = q BY <1>14, <2>4, <2>5, <2>6
    <2> QED BY <2>2, <2>7 DEF q
  <1> QED BY <1>1, <1>13, <1>15, <1>16

\* A link to something that is no link is good, and so is what is no link.
LEMMA ExistsIs ==
    ASSUME NEW t \in Trees, IsFiniteSet(DOMAIN t), NEW p \in DOMAIN t
    PROVE  /\ t[p].kind \notin {"link", "dangling"} => Exists(t, p)
           /\ t[p].kind = "dangling" => ~Exists(t, p)
           /\ t[p].kind = "link" /\ t[p].data \in DOMAIN t /\ t[t[p].data].kind \notin {"link", "dangling"} => Exists(t, p)
  <1>1. p \in Paths BY TreesAre
  <1> QED BY <1>1, FollowedIs DEF Exists

-----------------------------------------------------------------------------
(* Extraction                                                              *)

\* The entries E can be put into tree t: they lie neither above nor below each other, nor above anything in t,
\* and there are directories above them if anything is.
Fits(E, t) ==
    /\ t \in Trees /\ Rooted(t)
    /\ IsFiniteSet(DOMAIN E) /\ DOMAIN E \subseteq Paths
    /\ \A p \in DOMAIN E :
        /\ E[p] \in Nodes /\ E[p] # Dir /\ E[p].kind # "dangling" /\ p # <<>>
        /\ \A q \in DOMAIN E : p \notin Ancestors(q)
        /\ \A q \in DOMAIN t : p \notin Ancestors(q)
        /\ \A a \in Ancestors(p) : a \in DOMAIN t => t[a] = Dir

\* Tree u is tree t with entries P put into it.
Laid(u, t, E, P) ==
    /\ u \in Trees /\ Rooted(u) /\ P \subseteq DOMAIN E
    /\ DOMAIN u = DOMAIN t \cup P \cup Towards(P)
    /\ \A p \in P : u[p] = E[p]
    /\ \A a \in Towards(P) : u[a] = Dir
    /\ \A q \in DOMAIN t : q \notin P => u[q] = t[q]

\* One more entry is put into a tree.
LEMMA LaidNext ==
    ASSUME NEW E, NEW t, Fits(E, t), NEW u, NEW P, Laid(u, t, E, P), NEW p \in DOMAIN E
    PROVE  Laid(Written(u, p, E[p]), t, E, P \cup {p})
  <1> DEFINE A == Ancestors(p)
             dirs == [q \in A |-> Dir]
             v == Over(u, dirs)
             one == Only(p, E[p])
             w == Over(one, v)
             Q == P \cup {p}
  <1>1. Written(u, p, E[p]) = w BY DEF Written
  <1>2. /\ p \in Paths /\ E[p] \in Nodes /\ E[p] # Dir /\ p # <<>>
        /\ \A q \in DOMAIN E : p \notin Ancestors(q)
        /\ \A q \in DOMAIN t : p \notin Ancestors(q)
        /\ \A a \in A : a \in DOMAIN t => t[a] = Dir
    BY DEF Fits
  <1>3. /\ u \in Trees /\ Rooted(u) /\ P \subseteq DOMAIN E /\ DOMAIN u = DOMAIN t \cup P \cup Towards(P)
        /\ \A q \in P : u[q] = E[q]
        /\ \A a \in Towards(P) : u[a] = Dir
        /\ \A q \in DOMAIN t : q \notin P => u[q] = t[q]
    BY DEF Laid
  <1>4. A \subseteq Paths /\ p \notin A BY <1>2, AncestorsAre
  <1>5. Towards(Q) = Towards(P) \cup A BY DEF Towards
  <1>6. \A a \in A : a \in DOMAIN u => u[a] = Dir
    <2> SUFFICES ASSUME NEW a \in A, a \in DOMAIN u PROVE u[a] = Dir OBVIOUS
    <2>1. a \notin P BY <1>3 DEF Fits
    <2> QED BY <1>2, <1>3, <2>1
  <1>7. DOMAIN dirs = A /\ \A a \in A : dirs[a] = Dir OBVIOUS
  <1>8. DOMAIN v = DOMAIN u \cup A /\ (\A q \in DOMAIN u : v[q] = u[q]) /\ (\A a \in A : v[a] = Dir) /\ v = Over(dirs, u)
    <2> HIDE DEF dirs, A
    <2>1. v = [q \in DOMAIN u \cup A |-> IF q \in DOMAIN u THEN u[q] ELSE dirs[q]] BY <1>7 DEF Over
    <2>2. Over(dirs, u) = [q \in DOMAIN u \cup A |-> IF q \in A THEN dirs[q] ELSE u[q]] BY <1>7 DEF Over
    <2>3. \A q \in DOMAIN u \cup A : (IF q \in DOMAIN u THEN u[q] ELSE dirs[q]) = (IF q \in A THEN dirs[q] ELSE u[q])
      BY <1>6, <1>7
    <2>4. v = Over(dirs, u) BY <2>1, <2>2, <2>3
    <2> HIDE DEF v
    <2> QED BY <1>6, <1>7, <2>1, <2>4
  <1> HIDE DEF v, dirs
  <1>9. v \in Trees /\ Rooted(v)
    <2>1. IsFiniteSet(A)
      <3>1. A = {SubSeq(p, 1, n) : n \in 0 .. Len(p) - 1} BY DEF Ancestors
      <3>2. Len(p) \in Nat BY <1>2 DEF Paths
      <3>3. IsFiniteSet(0 .. Len(p) - 1) BY <3>2, FS_Interval
      <3> DEFINE D == 0 .. Len(p) - 1
                 f == [n \in D |-> SubSeq(p, 1, n)]
      <3>4. f \in [D -> A] /\ \A a \in A : \E n \in D : f[n] = a BY <3>1
      <3> HIDE DEF f, D, A
      <3>5. f \in Surjection(D, A) BY <3>4 DEF Surjection
      <3>6. IsFiniteSet(D) BY <3>3 DEF D
      <3> QED BY <3>5, <3>6, FS_Surjection
    <2>2. ASSUME NEW a \in A, NEW b \in Ancestors(a) PROVE b \in A
      BY <1>2, <1>4, AncestorsAre, PrefixOrder
    <2>3. \A a \in A : dirs[a] \in Nodes /\ (\A b \in Ancestors(a) : b \in A /\ dirs[b] = Dir) /\ dirs[a] = Dir
      BY <1>7, <2>2, NodesAre
    <2> HIDE DEF A
    <2>4. /\ Rooted(u) /\ DOMAIN dirs \subseteq Paths /\ IsFiniteSet(DOMAIN dirs)
          /\ \A a \in DOMAIN dirs :
                /\ dirs[a] \in Nodes
                /\ \A b \in Ancestors(a) : IF b \in DOMAIN dirs THEN dirs[b] = Dir ELSE b \in DOMAIN u /\ u[b] = Dir
                /\ dirs[a] # Dir => a # <<>> /\ \A q \in DOMAIN u : a \notin Ancestors(q)
      BY <1>3, <1>4, <1>7, <2>1, <2>3
    <2> QED BY <1>8, <2>4, OverIsTree
  <1>10. DOMAIN one = {p} /\ one[p] = E[p] BY DEF Only
  <1> HIDE DEF one
  <1>11. \A q \in DOMAIN v : p \notin Ancestors(q)
    <2>1. \A q \in Paths : \A r \in Paths : r \in Ancestors(q) => (p \in Ancestors(r) => p \in Ancestors(q))
      BY <1>2, AncestorsAre, PrefixOrder
    <2>2. \A q \in P : p \notin Ancestors(q) BY <1>2, <1>3
    <2>3. \A q \in Towards(P) : p \notin Ancestors(q)
      <3> SUFFICES ASSUME NEW r \in P, NEW q \in Ancestors(r) PROVE p \notin Ancestors(q) BY DEF Towards
      <3>1. r \in Paths BY <1>3 DEF Fits
      <3>2. q \in Paths BY <3>1, AncestorsAre
      <3> QED BY <2>1, <2>2, <3>1, <3>2
    <2>4. \A q \in A : p \notin Ancestors(q) BY <1>2, <1>4, <2>1
    <2> QED BY <1>2, <1>3, <1>8, <2>2, <2>3, <2>4
  <1>12. /\ Rooted(v) /\ DOMAIN one \subseteq Paths /\ IsFiniteSet(DOMAIN one)
         /\ \A q \in DOMAIN one :
                /\ one[q] \in Nodes
                /\ \A a \in Ancestors(q) : IF a \in DOMAIN one THEN one[a] = Dir ELSE a \in DOMAIN v /\ v[a] = Dir
                /\ one[q] # Dir => q # <<>> /\ \A r \in DOMAIN v : q \notin Ancestors(r)
    <2>1. IsFiniteSet({p}) BY FS_Singleton
    <2> QED BY <1>2, <1>4, <1>8, <1>9, <1>10, <1>11, <2>1
  <1>13. w \in Trees /\ Rooted(w) BY <1>12, OverIsTree
  <1>14. DOMAIN w = DOMAIN v \cup {p} /\ w[p] = E[p] /\ \A q \in DOMAIN v : q # p => w[q] = v[q] BY <1>10 DEF Over
  <1> HIDE DEF w
  <1>15. DOMAIN w = DOMAIN t \cup Q \cup Towards(Q) BY <1>3, <1>5, <1>8, <1>14
  <1>16. \A q \in Q : w[q] = E[q] BY <1>3, <1>8, <1>14
  <1>17. \A a \in Towards(Q) : w[a] = Dir
    <2>1. \A a \in Towards(Q) : a \in DOMAIN v /\ v[a] = Dir BY <1>3, <1>5, <1>8
    <2>2. p \notin Towards(Q)
      <3>1. \A q \in Q : p \notin Ancestors(q) BY <1>2, <1>3
      <3> QED BY <3>1 DEF Towards
    <2> QED BY <1>14, <2>1, <2>2
  <1>18. \A q \in DOMAIN t : q \notin Q => w[q] = t[q] BY <1>3, <1>8, <1>14
  <1>19. Q \subseteq DOMAIN E BY <1>3
  <1> QED BY <1>1, <1>13, <1>15, <1>16, <1>17, <1>18, <1>19 DEF Laid

\* The files come first, then the links.
LEMMA InOrderIs ==
    ASSUME NEW E, IsFiniteSet(DOMAIN E), DOMAIN E \subseteq Paths
    PROVE  /\ InOrder(E) \in Seq(DOMAIN E)
           /\ \A p \in DOMAIN E : \E k \in 1 .. Len(InOrder(E)) : InOrder(E)[k] = p
           /\ \A j, k \in 1 .. Len(InOrder(E)) : IsLink(E[InOrder(E)[j]]) /\ ~IsLink(E[InOrder(E)[k]]) => k < j
  <1> DEFINE D == DOMAIN E
             links == {p \in D : IsLink(E[p])}
             files == D \ links
             x == InPathOrder(files)
             y == InPathOrder(links)
             l == x \o y
  <1>1. InOrder(E) = l BY DEF InOrder
  <1>2. links \subseteq D /\ files \subseteq D /\ IsFiniteSet(D) /\ D \subseteq Paths
        /\ (\A p \in D : p \in links \/ p \in files)
        /\ (\A p \in links : IsLink(E[p])) /\ \A p \in files : ~IsLink(E[p])
    OBVIOUS
  <1> HIDE DEF D, links, files
  <1>3. IsFiniteSet(links) /\ IsFiniteSet(files) BY <1>2, FS_Subset
  <1>4. Lists(x, files) /\ Lists(y, links) BY <1>2, <1>3, PathOrderIs
  <1> HIDE DEF x, y
  <1>5. x \in Seq(files) /\ y \in Seq(links) BY <1>4 DEF Lists
  <1>6. x \in Seq(D) /\ y \in Seq(D)
    <2>1. Seq(files) \subseteq Seq(D) BY <1>2, SequencesGrow
    <2>2. Seq(links) \subseteq Seq(D) BY <1>2, SequencesGrow
    <2> QED BY <1>5, <2>1, <2>2
  <1>7. l \in Seq(D) /\ IsJoin(l, x, y) BY <1>6, JoinIs
  <1> HIDE DEF l
  <1>8. Len(x) \in Nat /\ Len(y) \in Nat /\ Len(l) = Len(x) + Len(y) BY <1>7 DEF IsJoin
  <1>9. ASSUME NEW k \in 1 .. Len(x) PROVE k \in 1 .. Len(l) /\ l[k] = x[k] /\ x[k] \in files
    BY <1>5, <1>7, <1>8, ElementIs DEF IsJoin
  <1>10. ASSUME NEW k \in 1 .. Len(y) PROVE Len(x) + k \in 1 .. Len(l) /\ l[Len(x) + k] = y[k] /\ y[k] \in links
    BY <1>5, <1>7, <1>8, ElementIs DEF IsJoin
  <1>11. \A p \in D : \E k \in 1 .. Len(l) : l[k] = p
    <2> SUFFICES ASSUME NEW p \in D PROVE \E k \in 1 .. Len(l) : l[k] = p OBVIOUS
    <2>1. CASE p \in files
      <3>1. PICK k \in 1 .. Len(x) : x[k] = p BY <1>4, <2>1 DEF Lists
      <3> QED BY <1>9, <3>1
    <2>2. CASE p \in links
      <3>1. PICK k \in 1 .. Len(y) : y[k] = p BY <1>4, <2>2 DEF Lists
      <3> QED BY <1>10, <3>1
    <2> QED BY <1>2, <2>1, <2>2
  <1>12. ASSUME NEW j \in 1 .. Len(l), NEW k \in 1 .. Len(l), IsLink(E[l[j]]), ~IsLink(E[l[k]]) PROVE k < j
    <2>1. ASSUME NEW i \in 1 .. Len(l), i > Len(x) PROVE IsLink(E[l[i]])
      <3> DEFINE n == i - Len(x)
      <3>1. n \in 1 .. Len(y) /\ i = Len(x) + n BY <1>8, <2>1
      <3> HIDE DEF n
      <3> QED BY <1>2, <1>10, <3>1
    <2>2. ASSUME NEW i \in 1 .. Len(l), i <= Len(x) PROVE ~IsLink(E[l[i]])
      <3>1. i \in 1 .. Len(x) BY <1>8, <2>2
      <3> QED BY <1>2, <1>9, <3>1
    <2> QED BY <1>8, <1>12, <2>1, <2>2
  <1> QED BY <1>1, <1>7, <1>11, <1>12 DEF D

\* The first n of them.
First(order, n) == {order[k] : k \in 1 .. n}

\* The steps of an extraction.
ExtractStep(E, p, r) ==
    IF r.ok THEN [tree |-> Written(r.tree, p, E[p]), ok |-> Exists(Written(r.tree, p, E[p]), p)] ELSE r

\* A write gives a tree.
LEMMA WrittenIs ==
    ASSUME NEW t \in Trees, NEW p \in Paths, NEW node \in Nodes
    PROVE  Written(t, p, node) \in Trees
  <1> DEFINE dirs == [q \in Ancestors(p) |-> Dir]
             v == Over(t, dirs)
             one == Only(p, node)
  <1>1. DOMAIN dirs \subseteq Paths /\ \A q \in DOMAIN dirs : dirs[q] \in Nodes BY AncestorsAre, NodesAre
  <1>2. DOMAIN t \subseteq Paths /\ \A q \in DOMAIN t : t[q] \in Nodes BY TreesAre
  <1> HIDE DEF dirs
  <1>3. v \in Trees BY <1>1, <1>2, OverIs
  <1> HIDE DEF v
  <1>4. DOMAIN v \subseteq Paths /\ \A q \in DOMAIN v : v[q] \in Nodes BY <1>3, TreesAre
  <1>5. DOMAIN one \subseteq Paths /\ \A q \in DOMAIN one : one[q] \in Nodes BY DEF Only
  <1> HIDE DEF one
  <1>6. Over(one, v) \in Trees BY <1>4, <1>5, OverIs
  <1> QED BY <1>6 DEF Written, v, one, dirs

\* The recursion of Extract ends.
LEMMA AfterIs ==
    ASSUME NEW E, NEW t, Fits(E, t)
    PROVE  \E after : LET N == Len(InOrder(E)) IN
                /\ N \in Nat /\ Extract(t, E) = after[N]
                /\ after[0] = [tree |-> t, ok |-> TRUE]
                /\ \A n \in Nat : n + 1 <= N => after[n + 1] = ExtractStep(E, InOrder(E)[n + 1], after[n])
  <1> DEFINE order == InOrder(E)
             N == Len(order)
             R == [tree : Trees, ok : BOOLEAN]
             a == [tree |-> t, ok |-> TRUE]
             step == [n \in 1 .. N |-> [r \in R |-> ExtractStep(E, order[n], r)]]
             after == CHOOSE f : f = [n \in 0 .. N |-> IF n = 0 THEN a ELSE ExtractStep(E, order[n], f[n - 1])]
  <1>1. Extract(t, E) = after[N] BY DEF Extract, ExtractStep
  <1>2. t \in Trees /\ DOMAIN E \subseteq Paths /\ (\A p \in DOMAIN E : E[p] \in Nodes) /\ order \in Seq(DOMAIN E)
    BY InOrderIs DEF Fits
  <1> HIDE DEF order
  <1>3. N \in Nat /\ \A n \in 1 .. N : order[n] \in DOMAIN E BY <1>2, ElementIs
  <1> HIDE DEF N
  <1>4. ASSUME NEW p \in DOMAIN E, NEW r \in R PROVE ExtractStep(E, p, r) \in R
    <2>1. Written(r.tree, p, E[p]) \in Trees BY <1>2, WrittenIs
    <2>2. Exists(Written(r.tree, p, E[p]), p) \in BOOLEAN BY DEF Exists
    <2> QED BY <2>1, <2>2 DEF ExtractStep
  <1>5. a \in R BY <1>2
  <1> HIDE DEF a, R
  <1>6. step \in [1 .. N -> [R -> R]] BY <1>3, <1>4
  <1>7. \A n \in 1 .. N : \A r \in R : step[n][r] = ExtractStep(E, order[n], r) OBVIOUS
  <1> HIDE DEF step
  <1>8. PICK f : Steps(f, N, R, a, step) BY <1>3, <1>5, <1>6, CountedRecursion
  <1>9. f = [n \in 0 .. N |-> IF n = 0 THEN a ELSE ExtractStep(E, order[n], f[n - 1])]
    <2>1. \A n \in 0 .. N : n # 0 => n \in 1 .. N /\ n - 1 \in 0 .. N BY <1>3
    <2>2. \A n \in 0 .. N : f[n] = IF n = 0 THEN a ELSE ExtractStep(E, order[n], f[n - 1]) BY <1>7, <1>8, <2>1 DEF Steps
    <2> QED BY <1>8, <2>2 DEF Steps
  <1>10. after = [n \in 0 .. N |-> IF n = 0 THEN a ELSE ExtractStep(E, order[n], after[n - 1])] BY <1>9
  <1> HIDE DEF after
  <1>11. after[0] = a
    <2>1. 0 \in 0 .. N BY <1>3
    <2> QED BY <1>10, <2>1
  <1>12. ASSUME NEW n \in Nat, n + 1 <= N PROVE after[n + 1] = ExtractStep(E, order[n + 1], after[n])
    <2>1. n + 1 \in 0 .. N /\ n + 1 # 0 /\ (n + 1) - 1 = n BY <1>3, <1>12
    <2> QED BY <1>10, <2>1
  <1> QED BY <1>1, <1>3, <1>11, <1>12 DEF N, order, a

\* What an extraction leaves: the first entries, all of them if nothing went wrong; or the last of them led nowhere.
LEMMA ExtractIs ==
    ASSUME NEW E, NEW t, Fits(E, t)
    PROVE  \E n \in 0 .. Len(InOrder(E)) :
                /\ Laid(Extract(t, E).tree, t, E, First(InOrder(E), n))
                /\ Extract(t, E).ok \in BOOLEAN
                /\ IF Extract(t, E).ok THEN n = Len(InOrder(E)) ELSE n # 0 /\ ~Exists(Extract(t, E).tree, InOrder(E)[n])
  <1> DEFINE order == InOrder(E)
             N == Len(order)
             Done(r, m, n) == /\ n \in 0 .. m /\ Laid(r.tree, t, E, First(order, n)) /\ r.ok \in BOOLEAN
                              /\ IF r.ok THEN n = m ELSE n # 0 /\ ~Exists(r.tree, order[n])
  <1>1. PICK after : /\ N \in Nat /\ Extract(t, E) = after[N]
                     /\ after[0] = [tree |-> t, ok |-> TRUE]
                     /\ \A n \in Nat : n + 1 <= N => after[n + 1] = ExtractStep(E, order[n + 1], after[n])
    BY AfterIs
  <1>2. order \in Seq(DOMAIN E) BY InOrderIs DEF Fits
  <1> HIDE DEF order
  <1>3. \A n \in Nat : n + 1 <= N => order[n + 1] \in DOMAIN E
    <2>1. \A n \in Nat : n + 1 <= N => n + 1 \in 1 .. N BY <1>1
    <2> QED BY <1>2, <2>1, ElementIs
  <1> HIDE DEF N
  <1> DEFINE A == {m \in Nat : m <= N => \E n : Done(after[m], m, n)}
  <1>4. 0 \in A
    <2>1. First(order, 0) = {} BY DEF First
    <2>2. Laid(t, t, E, {}) BY DEF Laid, Fits, Towards
    <2>3. Done(after[0], 0, 0) BY <1>1, <2>1, <2>2
    <2> HIDE DEF Done
    <2> QED BY <2>3
  <1>5. ASSUME NEW m \in Nat, m \in A PROVE m + 1 \in A
    <2> SUFFICES ASSUME m + 1 <= N PROVE \E n : Done(after[m + 1], m + 1, n) OBVIOUS
    <2> DEFINE r == after[m]
               p == order[m + 1]
               w == Written(r.tree, p, E[p])
    <2>1. m <= N BY <1>1
    <2>2. PICK n : Done(r, m, n) BY <1>5, <2>1
    <2>3. p \in DOMAIN E /\ after[m + 1] = ExtractStep(E, p, r) BY <1>1, <1>3
    <2> HIDE DEF r, p
    <2>4. CASE r.ok
      <3>1. n = m BY <2>2, <2>4
      <3>2. First(order, m + 1) = First(order, m) \cup {p} BY DEF First, p
      <3>3. Laid(r.tree, t, E, First(order, m)) BY <2>2, <3>1
      <3>4. Laid(w, t, E, First(order, m + 1)) BY <2>3, <3>2, <3>3, LaidNext
      <3>5. after[m + 1] = [tree |-> w, ok |-> Exists(w, p)] BY <2>3, <2>4 DEF ExtractStep
      <3>6. Exists(w, p) \in BOOLEAN BY DEF Exists
      <3> HIDE DEF w
      <3>7. Done(after[m + 1], m + 1, m + 1) BY <3>4, <3>5, <3>6 DEF p
      <3> HIDE DEF Done
      <3> QED BY <3>7
    <2>5. CASE ~r.ok
      <3>1. after[m + 1] = r BY <2>3, <2>5 DEF ExtractStep
      <3>2. n \in 0 .. m + 1 BY <2>2
      <3>3. Done(after[m + 1], m + 1, n) BY <2>2, <2>5, <3>1, <3>2
      <3> HIDE DEF Done
      <3> QED BY <3>3
    <2>6. r.ok \in BOOLEAN BY <2>2
    <2> QED BY <2>4, <2>5, <2>6
  <1> HIDE DEF A
  <1>6. \A m \in Nat : m \in A BY <1>4, <1>5, InductionOnNat
  <1>7. N <= N BY <1>1
  <1>8. PICK n : Done(Extract(t, E), N, n) BY <1>1, <1>6, <1>7 DEF A
  <1> QED BY <1>8 DEF N, order

-----------------------------------------------------------------------------
(* Restoring                                                               *)

\* What is recorded of the output location, and of the public one.
IsEntries(E) ==
    /\ IsFiniteSet(DOMAIN E) /\ DOMAIN E \subseteq Paths
    /\ E = [p \in DOMAIN E |-> E[p]]
    /\ \A p \in DOMAIN E :
        /\ E[p] \in Nodes /\ E[p] # Dir /\ E[p].kind # "dangling" /\ IsPrefix(Output, p)
        /\ \A q \in DOMAIN E : p \notin Ancestors(q)

IsBundle(b) == IsEntries(b.entries) /\ b.content \in Files /\ b = [entries |-> b.entries, content |-> b.content]

\* Where the outputs were removed, recorded ones fit.
LEMMA ClearedFits ==
    ASSUME NEW t, WorkSpace(t), NEW E, IsEntries(E)
    PROVE  Fits(E, Removed(t, {Output, Public}))
  <1> DEFINE u == Removed(t, {Output, Public})
  <1>1. WorkSpace(u) /\ \A p \in DOMAIN u : ~AtOutputs(p) BY OutputsGone
  <1> HIDE DEF u
  <1>2. DOMAIN u \subseteq Paths /\ u \in Trees /\ Rooted(u) BY <1>1 DEF WorkSpace, Rooted, IsTree
  <1>3. \A p \in DOMAIN E :
            p \in Paths /\ E[p] \in Nodes /\ E[p] # Dir /\ E[p].kind # "dangling" /\ IsPrefix(Output, p) /\ \A q \in DOMAIN E : p \notin Ancestors(q)
    BY DEF IsEntries
  <1>4. ASSUME NEW p \in DOMAIN E
        PROVE  p # <<>> /\ (\A q \in DOMAIN u : p \notin Ancestors(q)) /\ \A a \in Ancestors(p) : a \in DOMAIN u => u[a] = Dir
    <2>1. p # <<>> BY <1>3, RootIs, PlacesAreApart DEF AtOutputs
    <2>2. ASSUME NEW q \in DOMAIN u, p \in Ancestors(q) PROVE FALSE
      <3>1. q \in Paths /\ IsPrefix(p, q) BY <1>2, <2>2, AncestorsAre
      <3>2. IsPrefix(Output, q) BY <1>3, <3>1, LocationsAre, PrefixOrder
      <3> QED BY <1>1, <3>2 DEF AtOutputs
    <2>3. ASSUME NEW a \in Ancestors(p), a \in DOMAIN u PROVE u[a] = Dir
      <3>1. a \in Paths /\ IsPrefix(a, p) BY <1>3, AncestorsAre
      <3>2. ~IsPrefix(Output, a) BY <1>1, <2>3 DEF AtOutputs
      <3>3. a \in Ancestors(Output) BY <1>3, <3>1, <3>2, LocationsAre, PathsAbove
      <3>4. a \in Towards({Output, Public}) BY <3>3 DEF Towards
      <3> QED BY <1>1, <2>3, <3>4 DEF WorkSpace
    <2> QED BY <2>1, <2>2, <2>3
  <1>5. IsFiniteSet(DOMAIN E) /\ DOMAIN E \subseteq Paths BY DEF IsEntries
  <1> QED BY <1>2, <1>3, <1>4, <1>5 DEF Fits, u

\* Recorded outputs that are put into the work space leave the inputs as they are.
LEMMA LaidIs ==
    ASSUME NEW t, WorkSpace(t), \A p \in DOMAIN t : ~AtOutputs(p), NEW E, IsEntries(E), NEW u, NEW P, Laid(u, t, E, P)
    PROVE  /\ WorkSpace(u) /\ InputsOf(u) = InputsOf(t)
           /\ \A q \in DOMAIN u : AtOutputs(q) => IsPrefix(Output, q) /\ (q \in P \/ u[q] = Dir)
           /\ \A q \in DOMAIN u : ~IsPrefix(Public, q)
  <1>1. /\ u \in Trees /\ Rooted(u) /\ P \subseteq DOMAIN E /\ DOMAIN u = DOMAIN t \cup P \cup Towards(P)
        /\ \A p \in P : u[p] = E[p]
        /\ \A a \in Towards(P) : u[a] = Dir
        /\ \A q \in DOMAIN t : q \notin P => u[q] = t[q]
    BY DEF Laid
  <1>2. \A p \in P : p \in Paths /\ IsPrefix(Output, p) /\ AtOutputs(p) BY <1>1 DEF IsEntries, AtOutputs
  <1>3. DOMAIN t \subseteq Paths /\ DOMAIN u \subseteq Paths BY <1>1 DEF WorkSpace, Rooted, IsTree
  <1>4. ASSUME NEW p \in P PROVE ~AtInputs(p) /\ p \notin Towards(Inputs) /\ p \notin Towards({Output, Public}) /\ p \notin DOMAIN t
    BY <1>2, PlacesAreApart
  <1>5. ASSUME NEW a \in Towards(P)
        PROVE  ~AtInputs(a) /\ ~IsPrefix(Public, a)
    <2>1. PICK p \in P : a \in Ancestors(p) BY DEF Towards
    <2>2. a \in Paths /\ IsPrefix(a, p) /\ p \in Paths BY <1>2, <2>1, AncestorsAre
    <2>3. AtInputs(a) => AtInputs(p) BY <2>2, LocationsAre, PrefixOrder DEF AtInputs
    <2>4. IsPrefix(Public, a) => IsPrefix(Public, p) BY <2>2, LocationsAre, PrefixOrder
    <2>5. ~IsPrefix(Public, p) BY <1>2, PlacesAreApart
    <2> QED BY <1>4, <2>3, <2>4, <2>5
  <1>6. \A q \in DOMAIN u : AtInputs(q) => q \in DOMAIN t /\ u[q] = t[q] BY <1>1, <1>4, <1>5
  <1>7. WorkSpace(u)
    <2> SUFFICES ASSUME NEW p \in DOMAIN u
                 PROVE  /\ AtInputs(p) => u[p] = Dir \/ u[p] \in Files
                        /\ p \in Towards(Inputs) /\ ~AtInputs(p) => u[p] = Dir
                        /\ p \in Towards({Output, Public}) => u[p] = Dir
      BY <1>1 DEF WorkSpace
    <2>1. CASE p \in Towards(P) BY <1>1, <1>5, <2>1
    <2>2. CASE p \in P BY <1>4, <2>2
    <2>3. CASE p \in DOMAIN t /\ p \notin P BY <1>1, <2>3 DEF WorkSpace
    <2> QED BY <1>1, <2>1, <2>2, <2>3
  <1>8. InputsOf(u) = InputsOf(t)
    <2>1. \A q \in DOMAIN t : AtInputs(q) => q \in DOMAIN u BY <1>1
    <2>2. At(DOMAIN u, Inputs) = At(DOMAIN t, Inputs) BY <1>6, <2>1 DEF At, AtInputs
    <2>3. \A q \in At(DOMAIN u, Inputs) : u[q] = t[q] BY <1>6 DEF At, AtInputs
    <2> QED BY <2>2, <2>3 DEF InputsOf
  <1>9. \A q \in DOMAIN u : ~IsPrefix(Public, q)
    <2>1. \A q \in DOMAIN t : ~IsPrefix(Public, q) BY DEF AtOutputs
    <2>2. \A q \in P : ~IsPrefix(Public, q) BY <1>2, PlacesAreApart
    <2> QED BY <1>1, <1>5, <2>1, <2>2
  <1>10. \A q \in DOMAIN u : AtOutputs(q) => IsPrefix(Output, q) /\ (q \in P \/ u[q] = Dir)
    BY <1>1, <1>9 DEF AtOutputs
  <1> QED BY <1>7, <1>8, <1>9, <1>10

\* The public file is put back where its directory is.
LEMMA PublicPut ==
    ASSUME NEW u, WorkSpace(u), \A q \in DOMAIN u : ~IsPrefix(Public, q), Front(Public) \in DOMAIN u, NEW node \in Files
    PROVE  LET w == Over(Only(Public, node), u)
           IN /\ WorkSpace(w) /\ InputsOf(w) = InputsOf(u)
              /\ DOMAIN w = DOMAIN u \cup {Public} /\ w[Public] = node /\ \A q \in DOMAIN u : w[q] = u[q]
  <1> DEFINE one == Only(Public, node)
             w == Over(one, u)
  <1>1. Public \in Paths /\ Public # <<>> BY LocationsAre, RootIs, LocationsAssumption
  <1>2. u \in Trees /\ Rooted(u) /\ DOMAIN u \subseteq Paths BY DEF WorkSpace, Rooted, IsTree
  <1>3. DOMAIN one = {Public} /\ one[Public] = node /\ node \in Nodes /\ node # Dir BY NodesAre DEF Only
  <1> HIDE DEF one
  <1>4. ASSUME NEW a \in Ancestors(Public) PROVE a \in DOMAIN u /\ u[a] = Dir /\ a # Public
    <2>1. Front(Public) \in Ancestors(Public) /\ Front(Public) \in Paths /\ IsPrefix(a, Front(Public)) BY <1>1, FrontIs
    <2>2. a \in Paths /\ a # Public BY <1>1, AncestorsAre
    <2>3. a \in DOMAIN u
      <3>1. CASE a = Front(Public) BY <3>1
      <3>2. CASE a # Front(Public)
        <4>1. a \in Ancestors(Front(Public)) BY <2>1, <2>2, <3>2, AncestorsAre
        <4> QED BY <1>2, <4>1 DEF Rooted, IsTree
      <3> QED BY <3>1, <3>2
    <2>4. a \in Towards({Output, Public}) BY DEF Towards
    <2> QED BY <2>2, <2>3, <2>4 DEF WorkSpace
  <1>5. \A q \in DOMAIN u : Public \notin Ancestors(q) /\ q # Public
    <2>1. \A q \in Paths : Public \in Ancestors(q) => IsPrefix(Public, q) BY AncestorsAre
    <2>2. IsPrefix(Public, Public) BY <1>1, PrefixOrder
    <2> QED BY <1>2, <2>1, <2>2
  <1>6. /\ Rooted(u) /\ DOMAIN one \subseteq Paths /\ IsFiniteSet(DOMAIN one)
        /\ \A q \in DOMAIN one :
                /\ one[q] \in Nodes
                /\ \A a \in Ancestors(q) : IF a \in DOMAIN one THEN one[a] = Dir ELSE a \in DOMAIN u /\ u[a] = Dir
                /\ one[q] # Dir => q # <<>> /\ \A r \in DOMAIN u : q \notin Ancestors(r)
    <2>1. IsFiniteSet({Public}) BY FS_Singleton
    <2> QED BY <1>1, <1>2, <1>3, <1>4, <1>5, <2>1
  <1>7. w \in Trees /\ Rooted(w) BY <1>6, OverIsTree
  <1>8. DOMAIN w = DOMAIN u \cup {Public} /\ w[Public] = node /\ \A q \in DOMAIN u : w[q] = u[q]
    BY <1>3, <1>5 DEF Over
  <1> HIDE DEF w
  <1>9. ~AtInputs(Public) /\ Public \notin Towards(Inputs) /\ Public \notin Towards({Output, Public})
    <2>1. AtOutputs(Public) BY <1>1, PrefixOrder DEF AtOutputs
    <2> QED BY <1>1, <2>1, PlacesAreApart
  <1>10. WorkSpace(w)
    <2> SUFFICES ASSUME NEW p \in DOMAIN w
                 PROVE  /\ AtInputs(p) => w[p] = Dir \/ w[p] \in Files
                        /\ p \in Towards(Inputs) /\ ~AtInputs(p) => w[p] = Dir
                        /\ p \in Towards({Output, Public}) => w[p] = Dir
      BY <1>7 DEF WorkSpace
    <2>1. CASE p = Public BY <1>9, <2>1
    <2>2. CASE p \in DOMAIN u BY <1>8, <2>2 DEF WorkSpace
    <2> QED BY <1>8, <2>1, <2>2
  <1>11. InputsOf(w) = InputsOf(u)
    <2>1. At(DOMAIN w, Inputs) = At(DOMAIN u, Inputs) BY <1>8, <1>9 DEF At, AtInputs
    <2>2. \A q \in At(DOMAIN u, Inputs) : w[q] = u[q] BY <1>8 DEF At
    <2> QED BY <2>1, <2>2 DEF InputsOf
  <1> QED BY <1>8, <1>10, <1>11 DEF w, one

\* If the links lead to files of the bundle, or to their directories, none is put back before what it leads to.
LEMMA LinksAreGood ==
    ASSUME NEW E, NEW t, Fits(E, t), Closed(E), NEW n \in 1 .. Len(InOrder(E)), NEW u, Laid(u, t, E, First(InOrder(E), n))
    PROVE  Exists(u, InOrder(E)[n])
  <1> DEFINE order == InOrder(E)
             P == First(order, n)
             p == order[n]
  <1>1. /\ order \in Seq(DOMAIN E) /\ (\A f \in DOMAIN E : \E k \in 1 .. Len(order) : order[k] = f)
        /\ \A j, k \in 1 .. Len(order) : IsLink(E[order[j]]) /\ ~IsLink(E[order[k]]) => k < j
    BY InOrderIs DEF Fits
  <1> HIDE DEF order
  <1>2. Len(order) \in Nat /\ n \in 1 .. Len(order) BY <1>1 DEF order
  <1>3. p \in DOMAIN E /\ p \in P
    <2>1. n \in 1 .. n BY <1>2
    <2> QED BY <1>1, <1>2, <2>1, ElementIs DEF First
  <1>4. /\ u \in Trees /\ Rooted(u) /\ P \subseteq DOMAIN E /\ P \cup Towards(P) \subseteq DOMAIN u
        /\ (\A q \in P : u[q] = E[q]) /\ \A a \in Towards(P) : u[a] = Dir
    BY DEF Laid, order
  <1>5. IsFiniteSet(DOMAIN u) BY <1>4 DEF Rooted, IsTree
  <1>6. p \in DOMAIN u /\ u[p] = E[p] BY <1>3, <1>4
  <1>7. CASE E[p].kind # "link"
    <2> HIDE DEF p
    <2>1. u[p].kind \notin {"link", "dangling"} BY <1>3, <1>6, <1>7 DEF Fits
    <2>2. Exists(u, p) BY <1>4, <1>5, <1>6, <2>1, ExistsIs
    <2> QED BY <2>2 DEF p, order
  <1>8. CASE E[p].kind = "link"
    <2> DEFINE d == E[p].data
    <2>1. PICK f \in DOMAIN E : ~IsLink(E[f]) /\ IsPrefix(d, f) BY <1>3, <1>8 DEF Closed
    <2>2. PICK k \in 1 .. Len(order) : order[k] = f BY <1>1
    <2>3. k < n
      <3>1. IsLink(E[order[n]]) BY <1>8 DEF IsLink
      <3> QED BY <1>1, <1>2, <2>1, <2>2, <3>1
    <2>4. f \in P
      <3>1. k \in 1 .. n BY <1>2, <2>3
      <3> QED BY <2>2, <3>1 DEF First
    <2>5. d \in Paths /\ f \in Paths
      <3>1. E[p] \in Nodes /\ f \in Paths BY <1>3 DEF Fits
      <3>2. d \in Paths BY <1>8, <3>1, NodesAre
      <3> QED BY <3>1, <3>2
    <2> HIDE DEF d, p, P
    <2>6. d \in DOMAIN u /\ u[d].kind \notin {"link", "dangling"}
      <3>1. CASE d = f BY <1>4, <2>1, <2>4, <3>1 DEF IsLink
      <3>2. CASE d # f
        <4>1. d \in Ancestors(f) BY <2>1, <2>5, <3>2, AncestorsAre
        <4>2. d \in Towards(P) BY <2>4, <4>1 DEF Towards
        <4>3. u[d] = Dir /\ d \in DOMAIN u BY <1>4, <4>2
        <4> QED BY <4>3 DEF Dir
      <3> QED BY <3>1, <3>2
    <2>7. u[p].kind = "link" /\ u[p].data = d BY <1>6, <1>8 DEF d
    <2>8. Exists(u, p) BY <1>4, <1>5, <1>6, <2>6, <2>7, ExistsIs
    <2> QED BY <2>8 DEF p, order
  <1> QED BY <1>7, <1>8

\* The public output, if it is no link, is what it is.
LEMMA PublicIs ==
    ASSUME NEW u, WorkSpace(u), Public \in DOMAIN u => u[Public].kind # "link"
    PROVE  Followed(u, Public) = Public
  <1>1. Public \in Paths /\ u \in Trees /\ IsFiniteSet(DOMAIN u) BY LocationsAre DEF WorkSpace, Rooted, IsTree
  <1> QED BY <1>1, FollowedIs

\* What is recorded is a bundle.
LEMMA BundleIs ==
    ASSUME NEW u, WorkSpace(u), Public \in DOMAIN u => u[Public].kind # "link", CanBundle(u, Output, Public)
    PROVE  /\ IsBundle(Bundle(u, Output, Public))
           /\ Public \in DOMAIN u /\ u[Public] # Dir /\ Bundle(u, Output, Public).content = u[Public]
           /\ DOMAIN Bundle(u, Output, Public).entries = Scanned(u, Output)
           /\ \A p \in Scanned(u, Output) : Bundle(u, Output, Public).entries[p] = u[p]
  <1> DEFINE E == [p \in Scanned(u, Output) |-> u[p]]
  <1>1. Followed(u, Public) = Public BY PublicIs
  <1>2. Public \in DOMAIN u /\ u[Public].kind = "file" BY <1>1 DEF CanBundle, Exists
  <1>3. Rooted(u) /\ IsFiniteSet(DOMAIN u) /\ DOMAIN u \subseteq Paths /\ \A p \in DOMAIN u : u[p] \in Nodes
    BY DEF WorkSpace, Rooted, IsTree
  <1>4. u[Public] \in Files /\ u[Public] # Dir BY <1>2, <1>3, NodesAre
  <1>5. Bundle(u, Output, Public) = [entries |-> E, content |-> u[Public]] BY <1>1 DEF Bundle
  <1>6. DOMAIN E = Scanned(u, Output) /\ (\A p \in Scanned(u, Output) : E[p] = u[p]) /\ E = [p \in DOMAIN E |-> E[p]] OBVIOUS
  <1>7. Scanned(u, Output) = {p \in DOMAIN u : IsPrefix(Output, p) /\ u[p] # Dir} BY DEF Scanned, Below
  <1> HIDE DEF E
  <1>8. IsFiniteSet(Scanned(u, Output)) BY <1>3, <1>7, FS_Subset
  <1>9. \A p \in Scanned(u, Output) : \A q \in Scanned(u, Output) : p \notin Ancestors(q)
    BY <1>3, <1>7 DEF Rooted, IsTree
  <1>13. ASSUME NEW p \in Scanned(u, Output) PROVE u[p].kind # "dangling"
    <2>1. p \in DOMAIN u /\ Exists(u, p) BY <1>7, <1>13 DEF CanBundle, Below
    <2>2. u \in Trees BY DEF WorkSpace
    <2> QED BY <1>3, <2>1, <2>2, ExistsIs
  <1>10. IsEntries(E) BY <1>3, <1>6, <1>7, <1>8, <1>9, <1>13 DEF IsEntries
  <1>11. Bundle(u, Output, Public).entries = E /\ Bundle(u, Output, Public).content = u[Public] BY <1>5
  <1>12. IsBundle(Bundle(u, Output, Public)) BY <1>4, <1>5, <1>10, <1>11 DEF IsBundle
  <1> QED BY <1>2, <1>4, <1>6, <1>11, <1>12

\* What a restore leaves.
IsRestored(w, b) ==
    /\ Bundle(w, Output, Public) = b /\ Public \in DOMAIN w /\ w[Public].kind # "link"
    /\ \A p \in Outputs(w) : (p \in DOMAIN b.entries /\ w[p] = b.entries[p]) \/ (p = Public /\ w[p] = b.content)

\* The public file completes a restore.
LEMMA RestoredIs ==
    ASSUME NEW b, IsBundle(b), NEW t, WorkSpace(t), \A p \in DOMAIN t : ~AtOutputs(p),
           NEW u, Laid(u, t, b.entries, DOMAIN b.entries), Front(Public) \in DOMAIN u
    PROVE  LET w == Over(Only(Public, b.content), u) IN WorkSpace(w) /\ InputsOf(w) = InputsOf(u) /\ IsRestored(w, b)
  <1> DEFINE E == b.entries
             w == Over(Only(Public, b.content), u)
  <1>1. IsEntries(E) /\ b.content \in Files /\ b = [entries |-> E, content |-> b.content] BY DEF IsBundle
  <1>2. /\ WorkSpace(u)
        /\ \A q \in DOMAIN u : AtOutputs(q) => IsPrefix(Output, q) /\ (q \in DOMAIN E \/ u[q] = Dir)
        /\ \A q \in DOMAIN u : ~IsPrefix(Public, q)
    BY <1>1, LaidIs
  <1>3. /\ WorkSpace(w) /\ InputsOf(w) = InputsOf(u)
        /\ DOMAIN w = DOMAIN u \cup {Public} /\ w[Public] = b.content /\ \A q \in DOMAIN u : w[q] = u[q]
    BY <1>1, <1>2, PublicPut
  <1> HIDE DEF w
  <1>4. w[Public].kind = "file"
    <2>1. b.content \in Nodes BY <1>1, NodesAre
    <2> QED BY <1>1, <1>3, <2>1, NodesAre
  <1>5. Followed(w, Public) = Public BY <1>3, <1>4, PublicIs
  <1>6. DOMAIN E \subseteq DOMAIN u /\ \A q \in DOMAIN E : u[q] = E[q] /\ u[q] # Dir /\ IsPrefix(Output, q)
    BY <1>1 DEF Laid, IsEntries
  <1>7. ~IsPrefix(Output, Public) BY LocationsAssumption
  <1>8. Scanned(w, Output) = DOMAIN E
    <2>1. \A q : q \in Scanned(w, Output) <=> q \in DOMAIN w /\ IsPrefix(Output, q) /\ w[q] # Dir BY DEF Scanned, Below
    <2>2. ASSUME NEW q \in Scanned(w, Output) PROVE q \in DOMAIN E
      <3>1. q \in DOMAIN u /\ IsPrefix(Output, q) /\ u[q] # Dir BY <1>3, <1>7, <2>1, <2>2
      <3> QED BY <1>2, <3>1 DEF AtOutputs
    <2>3. ASSUME NEW q \in DOMAIN E PROVE q \in Scanned(w, Output) BY <1>3, <1>6, <2>1
    <2> QED BY <2>2, <2>3
  <1>9. Bundle(w, Output, Public) = b
    <2>1. E = [p \in DOMAIN E |-> E[p]] BY <1>1 DEF IsEntries
    <2>2. \A p \in DOMAIN E : w[p] = E[p] BY <1>3, <1>6
    <2>3. [p \in Scanned(w, Output) |-> w[p]] = E BY <1>8, <2>1, <2>2
    <2> QED BY <1>1, <1>3, <1>5, <2>3 DEF Bundle
  <1>10. ASSUME NEW p \in Outputs(w) PROVE (p \in DOMAIN E /\ w[p] = E[p]) \/ (p = Public /\ w[p] = b.content)
    <2>1. p \in DOMAIN w /\ AtOutputs(p) /\ w[p] # Dir BY DEF Outputs, Below, AtOutputs
    <2>2. CASE p = Public BY <1>3, <2>2
    <2>3. CASE p # Public
      <3>1. p \in DOMAIN u /\ w[p] = u[p] BY <1>3, <2>1, <2>3
      <3> QED BY <1>2, <1>6, <2>1, <3>1
    <2> QED BY <2>2, <2>3
  <1>11. IsRestored(w, b) BY <1>3, <1>4, <1>9, <1>10 DEF IsRestored
  <1> QED BY <1>3, <1>11 DEF w

\* Restoring leaves the inputs as they are.  It gives what was recorded, unless a link is to blame or the directory
\* of the public file is not there.
LEMMA UnbundleIs ==
    ASSUME NEW t, WorkSpace(t), NEW b, IsBundle(b)
    PROVE  LET r == Unbundle(t, b, Output, Public)
           IN /\ WorkSpace(r.tree) /\ InputsOf(r.tree) = InputsOf(t) /\ r.ok \in BOOLEAN
              /\ IF r.ok THEN IsRestored(r.tree, b) ELSE ~Closed(b.entries) \/ Front(Public) \notin DOMAIN r.tree
  <1> DEFINE E == b.entries
             c == Removed(t, {Output, Public})
             x == Extract(c, E)
             r == Unbundle(t, b, Output, Public)
             order == InOrder(E)
  <1>1. IsEntries(E) BY DEF IsBundle
  <1>2. WorkSpace(c) /\ InputsOf(c) = InputsOf(t) /\ \A p \in DOMAIN c : ~AtOutputs(p) BY OutputsGone
  <1>3. Fits(E, c) BY <1>1, ClearedFits
  <1>4. r = IF ~x.ok THEN x
            ELSE IF Front(Public) \notin DOMAIN x.tree THEN [x EXCEPT !.ok = FALSE]
            ELSE [x EXCEPT !.tree = Over(Only(Public, b.content), x.tree)]
    BY DEF Unbundle, Cleared
  <1> HIDE DEF c, r
  <1>5. PICK n \in 0 .. Len(order) :
            /\ Laid(x.tree, c, E, First(order, n)) /\ x.ok \in BOOLEAN
            /\ IF x.ok THEN n = Len(order) ELSE n # 0 /\ ~Exists(x.tree, order[n])
    BY <1>3, ExtractIs
  <1>6. x \in [tree : {x.tree}, ok : BOOLEAN]
    <2>1. PICK after : /\ Len(order) \in Nat /\ x = after[Len(order)]
                       /\ after[0] = [tree |-> c, ok |-> TRUE]
                       /\ \A k \in Nat : k + 1 <= Len(order) => after[k + 1] = ExtractStep(E, order[k + 1], after[k])
      BY <1>3, AfterIs
    <2> DEFINE A == {k \in Nat : k <= Len(order) => after[k] = [tree |-> after[k].tree, ok |-> after[k].ok]}
    <2>2. 0 \in A BY <2>1
    <2>3. ASSUME NEW k \in Nat, k \in A PROVE k + 1 \in A
      <3> SUFFICES ASSUME k + 1 <= Len(order) PROVE after[k + 1] = [tree |-> after[k + 1].tree, ok |-> after[k + 1].ok] OBVIOUS
      <3>1. after[k + 1] = ExtractStep(E, order[k + 1], after[k]) /\ k <= Len(order) BY <2>1
      <3>2. after[k] = [tree |-> after[k].tree, ok |-> after[k].ok] BY <2>3, <3>1
      <3> QED BY <3>1, <3>2 DEF ExtractStep
    <2> HIDE DEF A
    <2>4. \A k \in Nat : k \in A BY <2>2, <2>3, InductionOnNat
    <2>5. Len(order) <= Len(order) BY <2>1
    <2>6. x = [tree |-> x.tree, ok |-> x.ok] BY <2>1, <2>4, <2>5 DEF A
    <2> QED BY <1>5, <2>6
  <1> HIDE DEF x, order
  <1>7. WorkSpace(x.tree) /\ InputsOf(x.tree) = InputsOf(c) BY <1>1, <1>2, <1>5, LaidIs
  <1>8. CASE ~x.ok
    <2>1. r = x BY <1>4, <1>8
    <2>2. ~Closed(E)
      <3>1. n \in 1 .. Len(order) /\ ~Exists(x.tree, order[n]) BY <1>5, <1>8
      <3> QED BY <1>3, <1>5, <3>1, LinksAreGood DEF order
    <2> QED BY <1>2, <1>5, <1>7, <1>8, <2>1, <2>2 DEF r
  <1>9. CASE x.ok /\ Front(Public) \notin DOMAIN x.tree
    <2>1. r.tree = x.tree /\ r.ok = FALSE BY <1>4, <1>6, <1>9
    <2> QED BY <1>2, <1>7, <1>9, <2>1 DEF r
  <1>10. CASE x.ok /\ Front(Public) \in DOMAIN x.tree
    <2> DEFINE w == Over(Only(Public, b.content), x.tree)
    <2>1. r.tree = w /\ r.ok = TRUE BY <1>4, <1>6, <1>10
    <2>2. Laid(x.tree, c, E, DOMAIN E)
      <3>1. First(order, Len(order)) = DOMAIN E
        <4>1. order \in Seq(DOMAIN E) /\ \A p \in DOMAIN E : \E k \in 1 .. Len(order) : order[k] = p
          BY <1>1, InOrderIs DEF IsEntries, order
        <4> HIDE DEF E
        <4>2. \A k \in 1 .. Len(order) : order[k] \in DOMAIN E BY <4>1, ElementIs
        <4> QED BY <4>1, <4>2 DEF First
      <3> QED BY <1>5, <1>10, <3>1
    <2>3. WorkSpace(w) /\ InputsOf(w) = InputsOf(x.tree) /\ IsRestored(w, b) BY <1>2, <1>10, <2>2, RestoredIs
    <2> HIDE DEF w
    <2> QED BY <1>2, <1>7, <2>1, <2>3 DEF r
  <1> QED BY <1>5, <1>8, <1>9, <1>10

-----------------------------------------------------------------------------
(* The invariant                                                           *)

\* What the program wrote, for the outputs to be right: all there is, while the inputs held listing l.
AreMade(l, t) == \A p \in Outputs(t) : IsKept(p) \/ <<l, p, t[p]>> \in wrote

BundleIsMade(l, b) == (\A p \in DOMAIN b.entries : IsKept(p) \/ <<l, p, b.entries[p]>> \in wrote) /\ <<l, Public, b.content>> \in wrote

\* No edit between fingerprint and end of a run, and no digests in the inputs.
Clean == ~touched /\ NoDigests

PrintsAre == \A e \in prints : \E t : WorkSpace(t) /\ e = <<Tracked(t), Listing(t), [i \in Inputs |-> Scan(t, i)]>>

StoreIs ==
    \A k \in DOMAIN store :
        store[k].verdict \in {"OK", "FAIL"} /\ IsBundle(store[k].bundle) /\ \E e \in prints : e[3] = k

\* Between fingerprint and end of a run.
BusyIs ==
    /\ pc # "idle" => result = "none" /\ \E e \in prints : e[3] = fp /\ (~touched => e[2] = Listing(tree))
    /\ pc = "run" => (Public \in DOMAIN tree => tree[Public].kind # "link") /\ (Clean => AreMade(Listing(tree), tree))

MadeIs ==
    /\ Clean => \A k \in DOMAIN store : \E e \in prints : e[3] = k /\ BundleIsMade(e[2], store[k].bundle)
    /\ result \in {"CACHED", "EXECUTED"} /\ Clean => AreMade(Listing(tree), tree)

IInv ==
    /\ WorkSpace(tree)
    /\ purge \in {"ALWAYS", "NEVER"} /\ pc \in {"idle", "checked", "run"}
    /\ result \in {"none", "CACHED", "EXECUTED", "FAILED", "NOT_RESTORED", "NOT_RECORDED"}
    /\ PrintsAre /\ StoreIs /\ BusyIs /\ MadeIs
    /\ RestoredIsRecorded /\ HitsAreRestored

\* Prints of work spaces agree, and tell the contents.
LEMMA PrintsAgree ==
    ASSUME PrintsAre
    PROVE  CheckoutsAgree /\ ContentsAreSeen
  <1> SUFFICES ASSUME NEW a \in prints, NEW b \in prints
               PROVE  /\ a[1] = b[1] => a[3] = b[3]
                      /\ a[3] = b[3] /\ HoldNoDigest(a[1]) /\ HoldNoDigest(b[1]) => a[2] = b[2]
    BY DEF CheckoutsAgree, ContentsAreSeen
  <1>1. PICK t : WorkSpace(t) /\ a = <<Tracked(t), Listing(t), [i \in Inputs |-> Scan(t, i)]>> BY DEF PrintsAre
  <1>2. PICK u : WorkSpace(u) /\ b = <<Tracked(u), Listing(u), [i \in Inputs |-> Scan(u, i)]>> BY DEF PrintsAre
  <1>3. /\ a[1] = Tracked(t) /\ a[2] = Listing(t) /\ a[3] = [i \in Inputs |-> Scan(t, i)]
        /\ b[1] = Tracked(u) /\ b[2] = Listing(u) /\ b[3] = [i \in Inputs |-> Scan(u, i)]
    BY <1>1, <1>2
  <1>4. Rooted(t) /\ Rooted(u) BY <1>1, <1>2 DEF WorkSpace
  <1>5. ASSUME a[1] = b[1] PROVE a[3] = b[3]
    <2>1. Tracked(t) = Tracked(u) BY <1>3, <1>5
    <2>2. \A i \in Inputs : Scan(t, i) = Scan(u, i) BY ONLY <1>4, <2>1, SameFilesSamePrint
    <2> QED BY <1>3, <2>2
  <1>6. ASSUME a[3] = b[3], HoldNoDigest(a[1]), HoldNoDigest(b[1]) PROVE a[2] = b[2]
    <2>1. \A i \in Inputs : Scan(t, i) = Scan(u, i)
      <3> SUFFICES ASSUME NEW i \in Inputs PROVE Scan(t, i) = Scan(u, i) OBVIOUS
      <3>1. [j \in Inputs |-> Scan(t, j)][i] = [j \in Inputs |-> Scan(u, j)][i] BY <1>3, <1>6
      <3> QED BY <3>1
    <2>3. HoldNoDigest(Tracked(t)) /\ HoldNoDigest(Tracked(u)) BY <1>3, <1>6
    <2>2. Listing(t) = Listing(u) BY <1>1, <1>2, <2>1, <2>3, SamePrintSameListing
    <2> QED BY <1>3, <2>2
  <1> QED BY <1>5, <1>6

\* Initially.
LEMMA InitInv == Init => IInv
  <1> SUFFICES ASSUME Init PROVE IInv OBVIOUS
  <1>1. PICK l \in Leftovers, s \in Sources : tree = Over(l, s) BY DEF Init
  <1>2. IsBeside(l) BY ProductsAssumption
  <1>3. WorkSpace(tree) BY <1>1, <1>2, SourcesAre, LeftoversPut
  <1>4. purge \in {"ALWAYS", "NEVER"} /\ pc = "idle" /\ store = <<>> /\ result = "none" /\ prints = {} BY DEF Init
  <1>5. DOMAIN store = {} BY <1>4
  <1> QED BY <1>3, <1>4, <1>5 DEF IInv, PrintsAre, StoreIs, BusyIs, MadeIs, RestoredIsRecorded, HitsAreRestored

\* What stays true of prints and store while they stay as they are.
LEMMA SameStore ==
    ASSUME IInv, UNCHANGED <<store, prints>>
    PROVE  PrintsAre' /\ StoreIs'
  BY DEF IInv, PrintsAre, StoreIs

\* What holds of clean prints, and of bundles that were made, while nothing is taken back.
LEMMA CleanBefore ==
    ASSUME prints \subseteq prints', touched => touched', wrote \subseteq wrote', purge' = purge
    PROVE  /\ Clean' => Clean /\ ~touched'
           /\ \A p : IsKept(p)' <=> IsKept(p)
           /\ \A l, b : BundleIsMade(l, b) => BundleIsMade(l, b)'
  BY DEF Clean, NoDigests, IsKept, BundleIsMade

\* An edit.
LEMMA EditInv ==
    ASSUME IInv, Edit
    PROVE  IInv'
  <1> USE DEF IInv, Edit
  <1>1. PrintsAre' /\ StoreIs' BY SameStore
  <1>2. RestoredIsRecorded' /\ HitsAreRestored' BY DEF RestoredIsRecorded, HitsAreRestored
  <1>3. WorkSpace(tree') /\ (pc # "idle" => OutputsOf(tree') = OutputsOf(tree))
    <2>1. CASE \E s \in Sources : tree' = Over(s, Removed(tree, Inputs)) BY <2>1, SourcesPut
    <2>2. CASE pc = "idle" /\ \E l \in Leftovers : tree' = Over(l, OnlyInputs(tree))
      <3>1. PICK l \in Leftovers : tree' = Over(l, OnlyInputs(tree)) BY <2>2
      <3>2. IsBeside(l) BY ProductsAssumption
      <3>3. HoldsInputs(OnlyInputs(tree)) BY OnlyInputsHold
      <3> QED BY <2>2, <3>1, <3>2, <3>3, LeftoversPut
    <2> QED BY <2>1, <2>2
  <1>9. /\ Clean' => Clean /\ ~touched'
        /\ \A p : IsKept(p)' <=> IsKept(p)
        /\ \A l, b : BundleIsMade(l, b) => BundleIsMade(l, b)'
    BY CleanBefore
  <1>4. pc # "idle" /\ ~touched' => ~touched /\ Listing(tree') = Listing(tree) OBVIOUS
  <1>5. ASSUME pc # "idle"
        PROVE  \E e \in prints' : e[3] = fp' /\ (~touched' => e[2] = Listing(tree'))
    <2>1. PICK e \in prints : e[3] = fp /\ (~touched => e[2] = Listing(tree)) BY <1>5 DEF BusyIs
    <2> QED BY <1>4, <1>5, <2>1
  <1>6. ASSUME pc = "run"
        PROVE  /\ Public \in DOMAIN tree' => tree'[Public].kind # "link"
               /\ Clean' => \A p \in Outputs(tree') : IsKept(p) \/ <<Listing(tree'), p, tree'[p]>> \in wrote'
    <2>1. OutputsOf(tree') = OutputsOf(tree) BY <1>3, <1>6
    <2>2. /\ Outputs(tree') = Outputs(tree) /\ \A p \in Outputs(tree') : tree'[p] = tree[p]
          /\ \A p : AtOutputs(p) => (p \in DOMAIN tree' <=> p \in DOMAIN tree) /\ (p \in DOMAIN tree' => tree'[p] = tree[p])
      BY <2>1, OutputsDecide
    <2>3. AtOutputs(Public) BY LocationsAre, PrefixOrder DEF AtOutputs
    <2>4. Public \in DOMAIN tree' => tree'[Public].kind # "link" BY <1>6, <2>2, <2>3 DEF BusyIs
    <2>5. ASSUME Clean' PROVE \A p \in Outputs(tree') : IsKept(p) \/ <<Listing(tree'), p, tree'[p]>> \in wrote'
      <3>1. Clean /\ Listing(tree') = Listing(tree) BY <1>4, <1>6, <1>9, <2>5
      <3>2. \A p \in Outputs(tree) : IsKept(p) \/ <<Listing(tree), p, tree[p]>> \in wrote BY <1>6, <3>1 DEF BusyIs, AreMade
      <3> QED BY <2>2, <3>1, <3>2
    <2> QED BY <2>4, <2>5
  <1>7. BusyIs' BY <1>5, <1>6, <1>9 DEF BusyIs, AreMade
  <1>8. MadeIs' BY <1>9 DEF MadeIs
  <1> QED BY <1>1, <1>2, <1>3, <1>7, <1>8

\* A fingerprint is computed.
LEMMA ComputeInv ==
    ASSUME IInv, ComputeFingerprint
    PROVE  IInv'
  <1> USE DEF IInv, ComputeFingerprint
  <1> DEFINE e == <<Tracked(tree), Listing(tree), fp'>>
  <1>1. e[1] = Tracked(tree) /\ e[2] = Listing(tree) /\ e[3] = fp' /\ e \in prints' /\ prints \subseteq prints' OBVIOUS
  <1>2. e = <<Tracked(tree), Listing(tree), [i \in Inputs |-> Scan(tree, i)]>> OBVIOUS
  <1>3. prints' = prints \cup {e} OBVIOUS
  <1> HIDE DEF e
  <1>4. WorkSpace(tree') /\ tree' = tree OBVIOUS
  <1>5. PrintsAre' BY <1>2, <1>3 DEF PrintsAre
  <1>6. StoreIs' BY <1>1 DEF StoreIs
  <1>7. BusyIs' BY <1>1 DEF BusyIs
  <1>8. MadeIs'
    <2>1. /\ Clean' => Clean
          /\ \A l, b : BundleIsMade(l, b) => BundleIsMade(l, b)'
      BY <1>1, CleanBefore
    <2>2. result' = "none" OBVIOUS
    <2> QED BY <1>1, <2>1, <2>2 DEF MadeIs
  <1>9. RestoredIsRecorded' /\ HitsAreRestored' BY DEF RestoredIsRecorded, HitsAreRestored
  <1> QED BY <1>4, <1>5, <1>6, <1>7, <1>8, <1>9

\* The outputs are removed before a run, all of them or the public one.
LEMMA PurgeInv ==
    ASSUME IInv, PurgeOutputs
    PROVE  IInv'
  <1> USE DEF IInv, PurgeOutputs
  <1> DEFINE places == {o \in {Output, Public} : o = Output => purge = "ALWAYS"}
  <1>1. places \subseteq {Output, Public} /\ Public \in places /\ (Output \in places \/ purge = "NEVER")
    <2>1. Public # Output BY LocationsAre, PrefixOrder, LocationsAssumption
    <2> QED BY <2>1
  <1>2. tree' = Removed(tree, places) BY DEF Purged
  <1> HIDE DEF places
  <1>3. /\ WorkSpace(tree') /\ InputsOf(tree') = InputsOf(tree)
        /\ DOMAIN tree' = {p \in DOMAIN tree : \A o \in places : ~IsPrefix(o, p)}
    <2>1. WorkSpace(tree) OBVIOUS
    <2> QED BY ONLY <1>1, <1>2, <2>1, SomeOutputsGone
  <1>4. Listing(tree') = Listing(tree) BY <1>3, InputsDecide
  <1>5. PrintsAre' /\ StoreIs' BY SameStore
  <1>6. result' = "none" BY DEF BusyIs
  <1>7. Public \notin DOMAIN tree'
    <2>1. IsPrefix(Public, Public) BY LocationsAre, PrefixOrder
    <2> QED BY <1>1, <1>3, <2>1
  <1>8. \A p \in Outputs(tree') : IsKept(p) BY <1>1, <1>3 DEF Outputs, Below, IsKept
  <1>9. /\ Clean' => Clean
        /\ \A p : IsKept(p)' <=> IsKept(p)
        /\ \A l, b : BundleIsMade(l, b) => BundleIsMade(l, b)'
    BY CleanBefore
  <1>10. BusyIs'
    <2>1. PICK e \in prints : e[3] = fp /\ (~touched => e[2] = Listing(tree)) BY DEF BusyIs
    <2>2. e \in prints' /\ e[3] = fp' /\ (~touched' => e[2] = Listing(tree')) BY <1>4, <2>1
    <2> QED BY <1>6, <1>7, <1>8, <1>9, <2>2 DEF BusyIs, AreMade
  <1>11. MadeIs' BY <1>6, <1>9 DEF MadeIs
  <1>12. RestoredIsRecorded' /\ HitsAreRestored' BY <1>6 DEF RestoredIsRecorded, HitsAreRestored
  <1> QED BY <1>3, <1>5, <1>6, <1>10, <1>11, <1>12

\* Recorded outputs are put back.
LEMMA RestoreInv ==
    ASSUME IInv, RestoreOutputs
    PROVE  IInv'
  <1> USE DEF IInv, RestoreOutputs
  <1> DEFINE b == store[fp].bundle
             r == Unbundle(tree, b, Output, Public)
  <1>1. fp \in DOMAIN store /\ IsBundle(b) /\ store' = store /\ fp' = fp BY DEF Known, StoreIs
  <1>2. /\ tree' = r.tree
        /\ pc' = IF r.ok /\ store[fp].verdict = "FAIL" THEN "run" ELSE "idle"
        /\ result' = IF ~r.ok THEN "NOT_RESTORED" ELSE IF pc' = "run" THEN result ELSE "CACHED"
    OBVIOUS
  <1> HIDE DEF b
  <1>3. /\ WorkSpace(r.tree) /\ InputsOf(r.tree) = InputsOf(tree) /\ r.ok \in BOOLEAN
        /\ IF r.ok THEN IsRestored(r.tree, b) ELSE ~Closed(b.entries) \/ Front(Public) \notin DOMAIN r.tree
    BY <1>1, UnbundleIs
  <1> HIDE DEF r
  <1>4. WorkSpace(tree') BY <1>2, <1>3
  <1>5. Listing(tree') = Listing(tree) BY <1>2, <1>3, InputsDecide
  <1>6. result = "none" /\ pc' \in {"run", "idle"} /\ (pc' = "run" => r.ok /\ result' = "none")
        /\ (result' = "CACHED" => r.ok) /\ result' \in {"none", "CACHED", "NOT_RESTORED"}
    BY <1>2, <1>3 DEF BusyIs
  <1>7. PrintsAre' /\ StoreIs' BY SameStore
  <1>13. /\ Clean' => Clean
         /\ \A p : IsKept(p)' <=> IsKept(p)
         /\ \A l, c : BundleIsMade(l, c) => BundleIsMade(l, c)'
    BY CleanBefore
  <1>8. ASSUME r.ok, Clean PROVE \A p \in Outputs(tree') : IsKept(p) \/ <<Listing(tree'), p, tree'[p]>> \in wrote'
    <2>1. PICK e \in prints : e[3] = fp /\ BundleIsMade(e[2], b) BY <1>1, <1>8 DEF MadeIs, b
    <2>2. PICK f \in prints : f[3] = fp /\ f[2] = Listing(tree) BY <1>8 DEF BusyIs, Clean
    <2>3. ContentsAreSeen BY PrintsAgree
    <2>4. e[2] = Listing(tree) BY <1>8, <2>1, <2>2, <2>3 DEF ContentsAreSeen, Clean, NoDigests
    <2>5. \A p \in Outputs(tree') : (p \in DOMAIN b.entries /\ tree'[p] = b.entries[p]) \/ (p = Public /\ tree'[p] = b.content)
      BY <1>2, <1>3, <1>8 DEF IsRestored
    <2>6. \A p \in DOMAIN b.entries : IsKept(p) \/ <<Listing(tree), p, b.entries[p]>> \in wrote BY <2>1, <2>4 DEF BundleIsMade
    <2>7. <<Listing(tree), Public, b.content>> \in wrote BY <2>1, <2>4 DEF BundleIsMade
    <2> QED BY <1>5, <2>5, <2>6, <2>7
  <1>9. BusyIs'
    <2>1. PICK e \in prints : e[3] = fp /\ (~touched => e[2] = Listing(tree)) BY DEF BusyIs
    <2>2. e \in prints' /\ e[3] = fp' /\ (~touched' => e[2] = Listing(tree')) BY <1>5, <2>1
    <2>3. r.ok => (Public \in DOMAIN tree' => tree'[Public].kind # "link") BY <1>2, <1>3 DEF IsRestored
    <2>4. (r.ok /\ Clean') => \A p \in Outputs(tree') : IsKept(p) \/ <<Listing(tree'), p, tree'[p]>> \in wrote' BY <1>8, <1>13
    <2>5. pc' # "idle" => pc' = "run" BY <1>6
    <2> QED BY <1>6, <1>13, <2>2, <2>3, <2>4, <2>5 DEF BusyIs, AreMade
  <1>10. MadeIs'
    <2>2. (result' \in {"CACHED", "EXECUTED"} /\ Clean') => \A p \in Outputs(tree') : IsKept(p) \/ <<Listing(tree'), p, tree'[p]>> \in wrote'
      BY <1>6, <1>8, <1>13
    <2> QED BY <1>13, <2>2 DEF MadeIs, AreMade
  <1>11. RestoredIsRecorded' BY <1>1, <1>2, <1>3, <1>6 DEF RestoredIsRecorded, IsRestored, b
  <1>12. HitsAreRestored'
    <2>1. result' = "NOT_RESTORED" => ~r.ok BY <1>2, <1>6
    <2> QED BY <1>1, <1>2, <1>3, <2>1 DEF HitsAreRestored, b
  <1> QED BY <1>4, <1>6, <1>7, <1>9, <1>10, <1>11, <1>12

\* The program runs, and its outputs are recorded.
LEMMA RunInv ==
    ASSUME IInv, RunIt
    PROVE  IInv'
  <1> USE DEF IInv
  <1>1. PICK new \in Products, status \in {"OK", "FAIL"} :
        /\ tree' = Overwritten(new)
        /\ wrote' = wrote \cup {<<Listing(tree), p, new[p]>> : p \in {q \in DOMAIN new : new[q] # Dir}}
        /\ LET recorded == /\ status = "OK" => Exists(tree', Output) /\ Exists(tree', Public)
                           /\ CanBundle(tree', Output, Public)
           IN /\ result' = IF ~recorded THEN "NOT_RECORDED" ELSE IF status = "OK" THEN "EXECUTED" ELSE "FAILED"
              /\ store' = IF ~recorded THEN store
                          ELSE Over(Only(fp, [verdict |-> status, bundle |-> Bundle(tree', Output, Public)]), store)
    BY DEF RunIt
  <1>2. pc = "run" /\ pc' = "idle" /\ UNCHANGED <<purge, fp, builds, edits, touched, prints>> BY DEF RunIt
  <1> DEFINE gone == {p \in DOMAIN new : new[p] # Dir}
             b == Bundle(tree', Output, Public)
             entry == [verdict |-> status, bundle |-> b]
             Made(l, c) == /\ \A p \in DOMAIN c.entries : IsKept(p) \/ <<l, p, c.entries[p]>> \in wrote'
                           /\ <<l, Public, c.content>> \in wrote'
  <1>3. IsBeside(new) /\ (Public \in DOMAIN new => new[Public].kind # "link") BY ProductsAssumption
  <1>4. tree' = Over(new, Removed(tree, gone)) BY <1>1 DEF Overwritten
  <1>5. \A p : p \in gone <=> (p \in DOMAIN new /\ new[p] # Dir) OBVIOUS
  <1>6. wrote' = wrote \cup {<<Listing(tree), p, new[p]>> : p \in gone} BY <1>1
  <1> HIDE DEF gone
  <1>7. /\ WorkSpace(tree') /\ InputsOf(tree') = InputsOf(tree)
        /\ \A p \in DOMAIN tree' : IF p \in DOMAIN new THEN tree'[p] = new[p] ELSE p \in DOMAIN tree /\ tree'[p] = tree[p]
    BY <1>3, <1>4, <1>5, ProductsPut
  <1>8. Listing(tree') = Listing(tree) BY <1>7, InputsDecide
  <1>9. Public \in DOMAIN tree' => tree'[Public].kind # "link" BY <1>2, <1>3, <1>7 DEF BusyIs
  <1>10. store' = store \/ (CanBundle(tree', Output, Public) /\ store' = Over(Only(fp, entry), store)) BY <1>1
  <1>11. result' \in {"EXECUTED", "FAILED", "NOT_RECORDED"} BY <1>1
  <1>22. /\ Clean' => Clean /\ ~touched'
         /\ \A p : IsKept(p)' <=> IsKept(p)
         /\ \A l, c : BundleIsMade(l, c) => BundleIsMade(l, c)'
    BY <1>2, <1>6, CleanBefore
  <1>12. ASSUME Clean PROVE \A p \in Outputs(tree') : IsKept(p) \/ <<Listing(tree), p, tree'[p]>> \in wrote'
    <2> SUFFICES ASSUME NEW p \in Outputs(tree') PROVE IsKept(p) \/ <<Listing(tree), p, tree'[p]>> \in wrote' OBVIOUS
    <2>1. p \in DOMAIN tree' /\ tree'[p] # Dir /\ AtOutputs(p) BY DEF Outputs, Below, AtOutputs
    <2>2. CASE p \in DOMAIN new
      <3>1. p \in gone /\ tree'[p] = new[p] BY <1>5, <1>7, <2>1, <2>2
      <3> QED BY <1>6, <3>1
    <2>3. CASE p \notin DOMAIN new
      <3>1. p \in DOMAIN tree /\ tree'[p] = tree[p] BY <1>7, <2>1, <2>3
      <3>2. p \in Outputs(tree) BY <2>1, <3>1 DEF Outputs, Below, AtOutputs
      <3>3. IsKept(p) \/ <<Listing(tree), p, tree[p]>> \in wrote BY <1>2, <1>12, <3>2 DEF BusyIs, AreMade
      <3> QED BY <1>6, <3>1, <3>3
    <2> QED BY <2>2, <2>3
  <1>13. PICK e \in prints : e[3] = fp /\ (~touched => e[2] = Listing(tree)) BY <1>2 DEF BusyIs
  <1>14. ASSUME CanBundle(tree', Output, Public)
         PROVE  /\ IsBundle(b)
                /\ Clean => Made(e[2], b)
    <2>1. /\ IsBundle(b)
          /\ Public \in DOMAIN tree' /\ tree'[Public] # Dir /\ b.content = tree'[Public]
          /\ DOMAIN b.entries = Scanned(tree', Output)
          /\ \A p \in Scanned(tree', Output) : b.entries[p] = tree'[p]
      BY <1>7, <1>9, <1>14, BundleIs
    <2> HIDE DEF b
    <2>2. Scanned(tree', Output) \subseteq Outputs(tree') BY DEF Scanned, Outputs
    <2>3. Public \in Outputs(tree')
      <3>1. IsPrefix(Public, Public) BY LocationsAre, PrefixOrder
      <3> QED BY <2>1, <3>1 DEF Outputs, Below
    <2>4. ~IsKept(Public) BY LocationsAssumption DEF IsKept
    <2>5. Clean => e[2] = Listing(tree) BY <1>13 DEF Clean
    <2> QED BY <1>12, <2>1, <2>2, <2>3, <2>4, <2>5
  <1>15. entry.verdict = status /\ entry.bundle = b OBVIOUS
  <1> HIDE DEF entry, b, Made
  <1>16. ASSUME NEW k \in DOMAIN store'
         PROVE  (k \in DOMAIN store /\ store'[k] = store[k]) \/ (k = fp /\ store'[k] = entry /\ CanBundle(tree', Output, Public))
    <2>1. CASE store' = store BY <2>1
    <2>2. CASE CanBundle(tree', Output, Public) /\ store' = Over(Only(fp, entry), store) BY <2>2 DEF Over, Only
    <2> QED BY <1>10, <2>1, <2>2
  <1>17. PrintsAre' BY <1>2 DEF PrintsAre
  <1>18. StoreIs'
    <2> SUFFICES ASSUME NEW k \in DOMAIN store'
                 PROVE  store'[k].verdict \in {"OK", "FAIL"} /\ IsBundle(store'[k].bundle) /\ \E f \in prints' : f[3] = k
      BY DEF StoreIs
    <2>1. CASE k \in DOMAIN store /\ store'[k] = store[k] BY <1>2, <2>1 DEF StoreIs
    <2>2. CASE k = fp /\ store'[k] = entry /\ CanBundle(tree', Output, Public) BY <1>2, <1>13, <1>14, <1>15, <2>2
    <2> QED BY <1>16, <2>1, <2>2
  <1>19. BusyIs' BY <1>2 DEF BusyIs
  <1>20. MadeIs'
    <2>1. ASSUME Clean', NEW k \in DOMAIN store'
          PROVE  \E f \in prints' : f[3] = k /\ BundleIsMade(f[2], store[k].bundle)'
      <3>2. CASE k \in DOMAIN store /\ store'[k] = store[k]
        <4>1. PICK f \in prints : f[3] = k /\ BundleIsMade(f[2], store[k].bundle) BY <1>22, <2>1, <3>2 DEF MadeIs
        <4>2. f \in prints' /\ wrote \subseteq wrote' BY <1>2, <1>6
        <4> QED BY <1>22, <3>2, <4>1, <4>2 DEF BundleIsMade
      <3>3. CASE k = fp /\ store'[k] = entry /\ CanBundle(tree', Output, Public)
        <4>1. Made(e[2], b)
          <5>1. Clean BY ONLY <1>22, <2>1
          <5> QED BY ONLY <1>14, <3>3, <5>1
        <4>2. store'[k].bundle = b BY <1>15, <3>3
        <4> QED BY <1>2, <1>13, <1>22, <3>3, <4>1, <4>2 DEF BundleIsMade, Made
      <3> QED BY <1>16, <3>2, <3>3
    <2>2. (result' \in {"CACHED", "EXECUTED"} /\ Clean') => \A p \in Outputs(tree') : IsKept(p) \/ <<Listing(tree'), p, tree'[p]>> \in wrote'
      BY <1>8, <1>12, <1>22
    <2> QED BY <1>22, <2>1, <2>2 DEF MadeIs, AreMade
  <1>21. RestoredIsRecorded' /\ HitsAreRestored' BY <1>11 DEF RestoredIsRecorded, HitsAreRestored
  <1> QED BY <1>2, <1>7, <1>11, <1>17, <1>18, <1>19, <1>20, <1>21

\* Nothing happens.
LEMMA StutterInv ==
    ASSUME IInv, UNCHANGED vars
    PROVE  IInv'
  <1> USE DEF IInv, vars
  <1>1. PrintsAre' /\ StoreIs' BY SameStore
  <1>2. BusyIs' BY DEF BusyIs, AreMade, IsKept, Clean, NoDigests
  <1>3. MadeIs' BY DEF MadeIs, AreMade, BundleIsMade, IsKept, Clean, NoDigests
  <1>4. RestoredIsRecorded' /\ HitsAreRestored' BY DEF RestoredIsRecorded, HitsAreRestored
  <1> QED BY <1>1, <1>2, <1>3, <1>4

\* The invariant holds, whatever the files and the order of builds and edits.
LEMMA InvHolds == Spec => []IInv
  <1>1. IInv /\ [Next]_vars => IInv'
    <2> SUFFICES ASSUME IInv, [Next]_vars PROVE IInv' OBVIOUS
    <2>1. CASE Edit BY <2>1, EditInv
    <2>2. CASE ComputeFingerprint BY <2>2, ComputeInv
    <2>3. CASE PurgeOutputs BY <2>3, PurgeInv
    <2>4. CASE RestoreOutputs BY <2>4, RestoreInv
    <2>5. CASE RunIt BY <2>5, RunInv
    <2>6. CASE UNCHANGED vars BY <2>6, StutterInv
    <2> QED BY <2>1, <2>2, <2>3, <2>4, <2>5, <2>6 DEF Next
  <1> QED BY InitInv, <1>1, PTL DEF Spec

-----------------------------------------------------------------------------
(* What follows                                                            *)

\* The work space is a tree of files at every moment, after an extraction that stopped half-way too, and what is in
\* the storage was recorded under a fingerprint that was computed.
THEOREM TypeCorrect == Spec => []TypeOK
  <1>1. IInv => TypeOK
    <2> SUFFICES ASSUME IInv PROVE TypeOK OBVIOUS
    <2>1. IsTree(tree) /\ <<>> \in DOMAIN tree BY DEF IInv, WorkSpace, Rooted
    <2>2. \A k \in DOMAIN store : store[k].verdict \in {"OK", "FAIL"} /\ k \in {e[3] : e \in prints} BY DEF IInv, StoreIs
    <2> QED BY <2>1, <2>2 DEF IInv, TypeOK
  <1> QED BY InvHolds, <1>1, PTL

\* Work spaces with the same tracked files get the same fingerprint, whatever else there is (computeFingerprint()
\* leaves out ignored files, and a directory in which nothing is hashed).
THEOREM CheckoutsAlwaysAgree == Spec => []CheckoutsAgree
  <1>1. IInv => CheckoutsAgree BY PrintsAgree DEF IInv
  <1> QED BY InvHolds, <1>1, PTL

\* Where no tracked file holds the text of a digest, a fingerprint determines the contents of the inputs in their order,
\* at any depth (what the hasher is given can be read in one way only).
THEOREM ContentsAreAlwaysSeen == Spec => []ContentsAreSeen
  <1>1. IInv => ContentsAreSeen BY PrintsAgree DEF IInv
  <1> QED BY InvHolds, <1>1, PTL

\* After a hit the outputs are those that were recorded: unbundle() undoes what purger and program left.
THEOREM RestoredIsAlwaysRecorded == Spec => []RestoredIsRecorded
  <1>1. IInv => RestoredIsRecorded BY DEF IInv
  <1> QED BY InvHolds, <1>1, PTL

\* extract() fails only for a link whose target is not among the bundle's files, or at the public file.
THEOREM HitsAreAlwaysRestored == Spec => []HitsAreRestored
  <1>1. IInv => HitsAreRestored BY DEF IInv
  <1> QED BY InvHolds, <1>1, PTL

\* After a build that passed, what is at the output locations that are purged was written by the program for the inputs
\* there are, if none were edited during a run and none hold digests.
THEOREM OutputsAreAlwaysMade == Spec => []OutputsAreMade
  <1>1. IInv => OutputsAreMade BY DEF IInv, MadeIs, AreMade, OutputsAreMade, Clean
  <1> QED BY InvHolds, <1>1, PTL
=============================================================================
