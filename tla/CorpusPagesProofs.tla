------------------------- MODULE CorpusPagesProofs -------------------------
(***************************************************************************)
(* Proofs about CorpusPages: that its pages are pages of their search, and *)
(* that an export of one publication holds what all pages of the screen    *)
(* hold, in their order, for all corpora, requests and sizes.              *)
(*                                                                         *)
(* The pages of a search, and those of its export with another size, are   *)
(* cut from one sequence: the matches in order (SearchOrder), the          *)
(* occurrences in order (PairOrder).  The first half of the module shows   *)
(* this for the four engines of the concordance and the parallel search.   *)
(*                                                                         *)
(* The second half is about that order.  Every sort of the engines and of  *)
(* the parallel search is a strict total order of different places, so     *)
(* that the sorted matches arrange the found ones: each once.  Therefore   *)
(* the pages of a concordance and of a parallel search partition what they *)
(* show.  And what is sorted by the same values comes in the same order:   *)
(* a page of the simple search shows what the other engines show for its   *)
(* query.                                                                  *)
(***************************************************************************)
EXTENDS CorpusPages, FiniteSetTheorems, SequenceTheorems, TLAPS

-----------------------------------------------------------------------------
(* Sequences that are joined *)

\* Induction over numbers, by the least counterexample.
LEMMA LeastNumber ==
    ASSUME NEW T, T \subseteq Nat, T # {}
    PROVE  \E n \in T : \A m \in T : n <= m
<1> DEFINE Smaller == {p \in Nat \X Nat : p[1] < p[2]}
<1>1. IsWellFoundedOn(Smaller, Nat)  BY NatLessThanWellFounded DEF OpToRel
<1> HIDE DEF Smaller
<1>2. PICK n \in T : \A m \in T : ~ (<<m, n>> \in Smaller)  BY <1>1, WFMin, Zenon
<1>3. \A m \in T : n <= m
  <2> TAKE m \in T
  <2>1. m \in Nat /\ n \in Nat /\ <<m, n>> \notin Smaller  BY <1>2
  <2>2. ~ (m < n)  BY <2>1 DEF Smaller
  <2> QED BY <2>1, <2>2
<1> QED BY <1>3, Zenon

\* The function that FlattenSeq computes.
Flattens(g, seqs) ==
    g = [i \in 1..Len(seqs) |-> IF i = 1 THEN seqs[i] ELSE g[i - 1] \o seqs[i]]

\* FlattenSeq puts the sequences of a list one after the other.
LEMMA FlattenIs ==
    ASSUME NEW seqs, Len(seqs) \in Nat \ {0}, NEW g, Flattens(g, seqs)
    PROVE  FlattenSeq(seqs) = g[Len(seqs)]
<1> DEFINE n == Len(seqs)
<1>0. g = [i \in 1..n |-> IF i = 1 THEN seqs[i] ELSE g[i - 1] \o seqs[i]]  BY DEF Flattens
<1> DEFINE Joined(f) == [i \in 1..n |-> IF i = 1 THEN seqs[i] ELSE f[i - 1] \o seqs[i]]
<1> DEFINE flatten == CHOOSE f : f = Joined(f)
<1>1. flatten = Joined(flatten)
  <2>1. g = Joined(g)  BY Zenon DEF Flattens
  <2> HIDE DEF Joined
  <2> QED BY <2>1, Zenon
<1>2. FlattenSeq(seqs) = flatten[n]  BY Zenon DEF FlattenSeq, flatten
<1> HIDE DEF flatten
<1>3. \A i \in 1..n : flatten[i] = g[i]
  <2> DEFINE T == {i \in 1..n : flatten[i] # g[i]}
  <2>1. SUFFICES ASSUME T # {} PROVE FALSE
    OBVIOUS
  <2>2. PICK i \in T : \A j \in T : i <= j
    <3>1. T \subseteq Nat  OBVIOUS
    <3> HIDE DEF T
    <3> QED BY <2>1, <3>1, LeastNumber
  <2>3. CASE i = 1  BY <2>3, <1>1, <1>0
  <2>4. CASE i # 1
    <3>1. i - 1 \in 1..n /\ i - 1 \notin T  BY <2>2, <2>4
    <3>2. flatten[i - 1] = g[i - 1]  BY <3>1
    <3>3. flatten[i] = flatten[i - 1] \o seqs[i]  BY <1>1, <2>4, i \in 1..n
    <3>4. g[i] = g[i - 1] \o seqs[i]  BY <1>0, <2>4, i \in 1..n
    <3> QED BY <3>2, <3>3, <3>4
  <2> QED BY <2>3, <2>4
<1> QED BY <1>3, <1>2

\* The number of pages holds the whole, and one page less does not.
LEMMA CeilDivBounds ==
    ASSUME NEW a \in Nat \ {0}, NEW b \in Nat \ {0}
    PROVE  /\ CeilDiv(a, b) \in Nat \ {0}
           /\ a <= CeilDiv(a, b) * b
           /\ (CeilDiv(a, b) - 1) * b < a
<1>1. \A x \in Nat : x \div b \in Int /\ x % b \in 0..(b - 1) /\ x = (b * (x \div b)) + (x % b)  OBVIOUS
<1> QED BY <1>1 DEF CeilDiv

\* A function on the first numbers is a sequence of that length.
LEMMA LenOfFunction ==
    ASSUME NEW X, NEW n \in Nat, NEW s \in [1..n -> X]
    PROVE  s \in Seq(X) /\ Len(s) = n
  OBVIOUS

\* There is a function that joins the sequences of a list one by one.
LEMMA FlattenFunction ==
    ASSUME NEW X, NEW n \in Nat \ {0}, NEW seqs \in [1..n -> Seq(X)]
    PROVE  \E g \in [1..n -> Seq(X)] : Flattens(g, seqs)
<1> DEFINE Good(g, k) == \A i \in 1..k : g[i] = IF i = 1 THEN seqs[i] ELSE g[i - 1] \o seqs[i]
           Prefix(k) == \E g \in [1..k -> Seq(X)] : Good(g, k)
           T == {k \in 1..n : ~ Prefix(k)}
<1>0. n \in Nat /\ \A i \in 1..n : seqs[i] \in Seq(X)  OBVIOUS
<1>1. Len(seqs) = n  BY LenOfFunction
<1>2. ASSUME Prefix(n) PROVE \E g \in [1..n -> Seq(X)] : Flattens(g, seqs)
  <2>1. PICK g \in [1..n -> Seq(X)] : Good(g, n)  BY <1>2, Zenon
  <2>2. g = [i \in 1..n |-> IF i = 1 THEN seqs[i] ELSE g[i - 1] \o seqs[i]]  BY <2>1
  <2>3. Flattens(g, seqs)  BY <2>2, <1>1, Zenon DEF Flattens
  <2> QED BY <2>3, Zenon
<1>3. ASSUME T # {} PROVE FALSE
  <2>0. T \subseteq Nat  BY <1>0
  <2> HIDE DEF T, Good, Prefix
  <2>1. PICK k \in T : \A j \in T : k <= j  BY <1>3, <2>0, LeastNumber
  <2>2. k \in 1..n /\ ~ Prefix(k) /\ k \in Nat
    <3>1. k \in 1..n /\ ~ Prefix(k)  BY Zenon DEF T
    <3> QED BY <3>1, <1>0
  <2>3. CASE k = 1
    <3> DEFINE g == [i \in 1..1 |-> seqs[1]]
    <3>1. g \in [1..1 -> Seq(X)]  BY <2>2, <2>3, <1>0
    <3>2. Good(g, 1)  BY DEF Good
    <3> QED BY <3>1, <3>2, <2>2, <2>3, Zenon DEF Prefix
  <2>4. CASE k # 1
    <3>1. k - 1 \in 1..n  BY <2>2, <2>4, <1>0
    <3>2. k - 1 \notin T  BY <2>1, <2>2
    <3>3. PICK g \in [1..(k - 1) -> Seq(X)] : Good(g, k - 1)  BY <3>1, <3>2, Zenon DEF T, Prefix
    <3> DEFINE h == [i \in 1..k |-> IF i = k THEN g[k - 1] \o seqs[k] ELSE g[i]]
    <3>4. g[k - 1] \o seqs[k] \in Seq(X)
      <4>1. g[k - 1] \in Seq(X) /\ seqs[k] \in Seq(X)  BY <3>1, <2>2, <2>4, <1>0
      <4> QED BY <4>1, ConcatProperties, Zenon
    <3>5. h \in [1..k -> Seq(X)]  BY <2>2, <3>4
    <3>6. Good(h, k)
      <4> SUFFICES ASSUME NEW i \in 1..k PROVE h[i] = IF i = 1 THEN seqs[i] ELSE h[i - 1] \o seqs[i]
        BY DEF Good
      <4>1. CASE i = k
        <5>1. h[i] = g[k - 1] \o seqs[k]  BY <4>1, Zenon
        <5>2. k - 1 \in 1..k /\ k - 1 # k  BY <2>2, <2>4
        <5>3. h[k - 1] = g[k - 1]  BY <5>2, Zenon
        <5> HIDE DEF h
        <5> QED BY <4>1, <2>4, <5>1, <5>3
      <4>2. CASE i # k
        <5>1. i \in 1..(k - 1) /\ h[i] = g[i]  BY <4>2, <2>2
        <5>2. i # 1 => i - 1 \in 1..k /\ i - 1 # k /\ h[i - 1] = g[i - 1]  BY <5>1, <2>2
        <5>3. g[i] = IF i = 1 THEN seqs[i] ELSE g[i - 1] \o seqs[i]  BY <5>1, <3>3 DEF Good
        <5> HIDE DEF h
        <5> QED BY <5>1, <5>2, <5>3
      <4> QED BY <4>1, <4>2
    <3> QED BY <3>5, <3>6, <2>2, Zenon DEF Prefix
  <2> QED BY <2>3, <2>4
<1>4. Prefix(n)
  <2> HIDE DEF Prefix
  <2>1. n \in 1..n  BY <1>0
  <2> QED BY <1>3, <2>1 DEF T
<1> QED BY <1>2, <1>4, Zenon

\* What is joined out of sequences is a sequence.
LEMMA FlattenTyped ==
    ASSUME NEW X, NEW n \in Nat, NEW seqs \in [1..n -> Seq(X)]
    PROVE  FlattenSeq(seqs) \in Seq(X)
<1>0. Len(seqs) = n  BY LenOfFunction
<1>1. CASE n = 0
  <2>1. seqs = <<>>  BY <1>1
  <2>2. FlattenSeq(seqs) = seqs  BY <1>0, <1>1, Zenon DEF FlattenSeq
  <2> QED BY <2>1, <2>2, EmptySeq
<1>2. CASE n # 0
  <2>1. PICK g \in [1..n -> Seq(X)] : Flattens(g, seqs)  BY <1>2, FlattenFunction
  <2>2. n \in Nat \ {0} /\ g[n] \in Seq(X)  BY <1>2
  <2> QED BY <2>1, <2>2, <1>0, FlattenIs, Zenon
<1> QED BY <1>1, <1>2

\* Sequences of which the elements at each place are related.
Related(s, t, Rel) == Len(s) = Len(t) /\ \A i \in 1..Len(s) : <<s[i], t[i]>> \in Rel

\* Two pairs of related sequences are related when each is joined.
LEMMA ConcatRelated ==
    ASSUME NEW X, NEW Y, NEW Rel, NEW s \in Seq(X), NEW u \in Seq(X), NEW t \in Seq(Y), NEW v \in Seq(Y),
           Related(s, t, Rel), Related(u, v, Rel)
    PROVE  Related(s \o u, t \o v, Rel)
<1>1. /\ Len(s \o u) = Len(s) + Len(u)
      /\ \A i \in 1..(Len(s) + Len(u)) : (s \o u)[i] = IF i <= Len(s) THEN s[i] ELSE u[i - Len(s)]
  BY ConcatProperties, Zenon
<1>2. /\ Len(t \o v) = Len(t) + Len(v)
      /\ \A i \in 1..(Len(t) + Len(v)) : (t \o v)[i] = IF i <= Len(t) THEN t[i] ELSE v[i - Len(t)]
  BY ConcatProperties, Zenon
<1>3. /\ Len(s) \in Nat /\ Len(u) \in Nat /\ Len(t) = Len(s) /\ Len(v) = Len(u)
      /\ \A i \in 1..Len(s) : <<s[i], t[i]>> \in Rel
      /\ \A i \in 1..Len(u) : <<u[i], v[i]>> \in Rel
  BY DEF Related
<1>4. ASSUME NEW i \in 1..(Len(s) + Len(u)) PROVE <<(s \o u)[i], (t \o v)[i]>> \in Rel
  <2>1. CASE i <= Len(s)
    <3>1. i \in 1..Len(s)  BY <1>3, <2>1
    <3>2. (s \o u)[i] = s[i] /\ (t \o v)[i] = t[i]  BY <1>1, <1>2, <1>3, <2>1, Zenon
    <3> QED BY <1>3, <3>1, <3>2, Zenon
  <2>2. CASE ~ (i <= Len(s))
    <3>1. i - Len(s) \in 1..Len(u)  BY <1>3, <2>2
    <3>2. (s \o u)[i] = u[i - Len(s)] /\ (t \o v)[i] = v[i - Len(s)]  BY <1>1, <1>2, <1>3, <2>2, Zenon
    <3> QED BY <1>3, <3>1, <3>2, Zenon
  <2> QED BY <2>1, <2>2
<1>5. Len(s \o u) = Len(t \o v)  BY <1>1, <1>2, <1>3, Zenon
<1> QED BY <1>1, <1>4, <1>5, Zenon DEF Related

\* Two lists of sequences that are related element by element are so when joined.
LEMMA FlattenRelated ==
    ASSUME NEW X, NEW Y, NEW Rel, NEW n \in Nat \ {0},
           NEW seqs \in [1..n -> Seq(X)], NEW sems \in [1..n -> Seq(Y)],
           \A p \in 1..n : Related(seqs[p], sems[p], Rel)
    PROVE  Related(FlattenSeq(seqs), FlattenSeq(sems), Rel)
<1>0. Len(seqs) = n /\ Len(sems) = n  BY LenOfFunction
<1>1. PICK g \in [1..n -> Seq(X)] : Flattens(g, seqs)  BY FlattenFunction
<1>2. PICK h \in [1..n -> Seq(Y)] : Flattens(h, sems)  BY FlattenFunction
<1> DEFINE T == {k \in 1..n : ~ Related(g[k], h[k], Rel)}
<1>3. \A k \in 1..n :
          /\ g[k] = IF k = 1 THEN seqs[k] ELSE g[k - 1] \o seqs[k]
          /\ h[k] = IF k = 1 THEN sems[k] ELSE h[k - 1] \o sems[k]
  BY <1>0, <1>1, <1>2 DEF Flattens
<1>4. \A k \in 1..n : g[k] \in Seq(X) /\ h[k] \in Seq(Y) /\ seqs[k] \in Seq(X) /\ sems[k] \in Seq(Y)  OBVIOUS
<1>5. ASSUME T # {} PROVE FALSE
  <2>0. T \subseteq Nat  OBVIOUS
  <2> HIDE DEF T
  <2>1. PICK k \in T : \A j \in T : k <= j  BY <1>5, <2>0, LeastNumber
  <2>2. k \in 1..n /\ ~ Related(g[k], h[k], Rel)  BY Zenon DEF T
  <2>3. k # 1  BY <2>2, <1>3, Zenon
  <2>4. k - 1 \in 1..n /\ k - 1 \notin T  BY <2>1, <2>2, <2>3
  <2>5. Related(g[k - 1], h[k - 1], Rel)  BY <2>4, Zenon DEF T
  <2>6. Related(g[k - 1] \o seqs[k], h[k - 1] \o sems[k], Rel)  BY <2>2, <2>4, <2>5, <1>4, ConcatRelated, Zenon
  <2> QED BY <2>2, <2>3, <2>6, <1>3, Zenon
<1>6. Related(g[n], h[n], Rel)
  <2>1. n \in 1..n  OBVIOUS
  <2> QED BY <1>5, <2>1, Zenon DEF T
<1>7. FlattenSeq(seqs) = g[n] /\ FlattenSeq(sems) = h[n]  BY <1>0, <1>1, <1>2, FlattenIs, Zenon
<1> QED BY <1>6, <1>7, Zenon

-----------------------------------------------------------------------------
(* Folding over a sequence *)

\* The places of a sequence, and those chosen of them, are finitely many.
LEMMA PlacesAreFinite ==
    ASSUME NEW n \in Nat, NEW s \in SUBSET (1..n)
    PROVE  IsFiniteSet(s) /\ Cardinality(s) \in Nat /\ Cardinality(s) <= n /\ (Cardinality(s) = 0 <=> s = {})
<1>0. 1 \in Int /\ n \in Int  OBVIOUS
<1>1. IsFiniteSet(1..n) /\ Cardinality(1..n) = IF 1 > n THEN 0 ELSE n - 1 + 1  BY <1>0, FS_Interval, Zenon
<1>2. Cardinality(1..n) = n  BY <1>1
<1>3. IsFiniteSet(s) /\ Cardinality(s) <= Cardinality(1..n)  BY <1>1, FS_Subset, Zenon
<1>4. Cardinality(s) \in Nat /\ (Cardinality(s) = 0 <=> s = {})
  BY <1>3, FS_CardinalityType, FS_EmptySet, Zenon
<1> QED BY <1>2, <1>3, <1>4

\* The largest of some places of a sequence.
LEMMA LargestPlace ==
    ASSUME NEW n \in Nat, NEW s \in SUBSET (1..n), s # {}
    PROVE  Max(s) \in s /\ \A x \in s : x <= Max(s)
<1> DEFINE T == {m \in 0..n : n - m \in s}
<1>0. \A x \in s : x \in 1..n  OBVIOUS
<1>1. T \subseteq Nat /\ T # {}
  <2>1. PICK x \in s : TRUE  OBVIOUS
  <2>2. n - x \in 0..n /\ n - (n - x) = x  BY <2>1, <1>0
  <2>3. n - x \in T  BY <2>2
  <2>4. T \subseteq Nat  OBVIOUS
  <2> HIDE DEF T
  <2> QED BY <2>3, <2>4
<1>2. PICK m \in T : \A k \in T : m <= k
  <2> HIDE DEF T
  <2> QED BY <1>1, LeastNumber
<1> DEFINE x == n - m
<1>3. x \in s  OBVIOUS
<1>4. \A y \in s : x >= y
  <2> TAKE y \in s
  <2>1. n - y \in 0..n /\ n - (n - y) = y  BY <1>0
  <2>2. m <= n - y  BY <1>2, <2>1
  <2> QED BY <1>0, <2>2
<1> HIDE DEF x, T
<1>5. Max(s) \in s /\ \A y \in s : Max(s) >= y  BY <1>3, <1>4, Zenon DEF Max
<1> QED BY <1>0, <1>5

\* Without the largest of them there is one place less.
LEMMA WithoutLargest ==
    ASSUME NEW n \in Nat, NEW s \in SUBSET (1..n), s # {}
    PROVE  /\ s \ {Max(s)} \in SUBSET (1..n)
           /\ Cardinality(s) \in Nat \ {0}
           /\ Cardinality(s \ {Max(s)}) = Cardinality(s) - 1
           /\ Max(s) \in 1..n
<1>1. Max(s) \in s  BY LargestPlace
<1>2. IsFiniteSet(s) /\ Cardinality(s) \in Nat /\ Cardinality(s) # 0  BY PlacesAreFinite, Zenon
<1>3. Cardinality(s \ {Max(s)}) = Cardinality(s) - 1  BY <1>2, <1>1, FS_RemoveElement, Zenon
<1> QED BY <1>1, <1>2, <1>3

\* What FoldLeft computes, over all sets of places: step takes the result
\* for the earlier places and the last place.
Folds(iter, base, step, n) ==
    iter = [s \in SUBSET (1..n) |->
                IF s = {} THEN base ELSE step[<<iter[s \ {Max(s)}], Max(s)>>]]

\* A fold with results in A.
FoldOf(g, A, base, step, n) == g \in [SUBSET (1..n) -> A] /\ Folds(g, base, step, n)

\* Folding over the places of a sequence, the last place first, is a function.
LEMMA FoldExists ==
    ASSUME NEW A, NEW n \in Nat, NEW base \in A, NEW step \in [A \X (1..n) -> A]
    PROVE  \E g : FoldOf(g, A, base, step, n)
<1> DEFINE Sub(k) == {s \in SUBSET (1..n) : Cardinality(s) <= k}
           Good(g, k) == \A s \in Sub(k) : g[s] = IF s = {} THEN base ELSE step[<<g[s \ {Max(s)}], Max(s)>>]
           Prefix(k) == \E g \in [Sub(k) -> A] : Good(g, k)
           T == {k \in 0..n : ~ Prefix(k)}
<1>1. \A s \in SUBSET (1..n) : Cardinality(s) \in 0..n /\ (Cardinality(s) = 0 <=> s = {})  BY PlacesAreFinite
<1>2. ASSUME T # {} PROVE FALSE
  <2>0. T \subseteq Nat  OBVIOUS
  <2> HIDE DEF T
  <2>1. PICK k \in T : \A j \in T : k <= j  BY <1>2, <2>0, LeastNumber
  <2>2. k \in 0..n /\ ~ Prefix(k)  BY Zenon DEF T
  <2>3. CASE k = 0
    <3> DEFINE g == [s \in Sub(0) |-> base]
    <3>1. g \in [Sub(0) -> A]  OBVIOUS
    <3>2. \A s \in Sub(0) : s = {}  BY <1>1
    <3>3. Good(g, 0)  BY <3>2
    <3> QED BY <3>1, <3>3, <2>2, <2>3, Zenon
  <2>4. CASE k # 0
    <3>1. k - 1 \in 0..n /\ k - 1 \notin T  BY <2>1, <2>2, <2>4
    <3>2. PICK g \in [Sub(k - 1) -> A] : Good(g, k - 1)
      <4> HIDE DEF Prefix
      <4>1. Prefix(k - 1)  BY <3>1, Zenon DEF T
      <4> QED BY <4>1, Zenon DEF Prefix
    <3> DEFINE h == [s \in Sub(k) |-> IF s \in Sub(k - 1) THEN g[s] ELSE step[<<g[s \ {Max(s)}], Max(s)>>]]
    <3>3. \A s \in Sub(k) : s # {} =>
              s \ {Max(s)} \in Sub(k - 1) /\ s \ {Max(s)} \in Sub(k) /\ Max(s) \in 1..n
      <4> SUFFICES ASSUME NEW s \in Sub(k), s # {}
                   PROVE s \ {Max(s)} \in Sub(k - 1) /\ s \ {Max(s)} \in Sub(k) /\ Max(s) \in 1..n
        OBVIOUS
      <4>1. s \in SUBSET (1..n) /\ Cardinality(s) <= k  OBVIOUS
      <4>2. /\ s \ {Max(s)} \in SUBSET (1..n)
            /\ Cardinality(s) \in Nat \ {0}
            /\ Cardinality(s \ {Max(s)}) = Cardinality(s) - 1
            /\ Max(s) \in 1..n
        BY <4>1, WithoutLargest
      <4> QED BY <4>1, <4>2, <2>2
    <3>4. \A s \in Sub(k) : s = {} => s \in Sub(k - 1)
      <4>1. {} \in SUBSET (1..n) /\ Cardinality({}) = 0  BY FS_EmptySet
      <4> QED BY <4>1, <2>2, <2>4
    <3>5. h \in [Sub(k) -> A]
      <4> SUFFICES ASSUME NEW s \in Sub(k)
                   PROVE (IF s \in Sub(k - 1) THEN g[s] ELSE step[<<g[s \ {Max(s)}], Max(s)>>]) \in A
        OBVIOUS
      <4> HIDE DEF Sub
      <4>1. CASE s \in Sub(k - 1)  BY <4>1
      <4>2. CASE s \notin Sub(k - 1)
        <5>1. s # {}  BY <4>2, <3>4
        <5>2. g[s \ {Max(s)}] \in A /\ Max(s) \in 1..n  BY <5>1, <3>3
        <5>3. <<g[s \ {Max(s)}], Max(s)>> \in A \X (1..n)  BY <5>2
        <5>4. step[<<g[s \ {Max(s)}], Max(s)>>] \in A  BY <5>3, Zenon
        <5> QED BY <4>2, <5>4
      <4> QED BY <4>1, <4>2
    <3>6. Good(h, k)
      <4> SUFFICES ASSUME NEW s \in Sub(k)
                   PROVE h[s] = IF s = {} THEN base ELSE step[<<h[s \ {Max(s)}], Max(s)>>]
        OBVIOUS
      <4>0. \A t \in Sub(k - 1) : t \in Sub(k)  BY <1>1, <2>2
      <4>1. \A t \in Sub(k - 1) : h[t] = g[t]
        <5> HIDE DEF Sub
        <5> QED BY <4>0, Zenon
      <4>2. s # {} => h[s \ {Max(s)}] = g[s \ {Max(s)}]  BY <4>1, <3>3, Zenon
      <4>3. CASE s \in Sub(k - 1)
        <5>1. g[s] = IF s = {} THEN base ELSE step[<<g[s \ {Max(s)}], Max(s)>>]  BY <3>2, <4>3, Zenon
        <5> HIDE DEF h, Sub
        <5> QED BY <4>1, <4>2, <4>3, <5>1
      <4>4. CASE s \notin Sub(k - 1)
        <5>1. s # {}  BY <4>4, <3>4, Zenon
        <5>2. h[s] = step[<<g[s \ {Max(s)}], Max(s)>>]
          <6> HIDE DEF Sub
          <6> QED BY <4>4, Zenon
        <5> HIDE DEF h, Sub
        <5> QED BY <5>1, <5>2, <4>2
      <4> QED BY <4>3, <4>4
    <3> QED BY <3>5, <3>6, <2>2, Zenon
  <2> QED BY <2>3, <2>4
<1>3. PICK g \in [Sub(n) -> A] : Good(g, n)
  <2> HIDE DEF Prefix
  <2>1. n \in 0..n  OBVIOUS
  <2>2. Prefix(n)  BY <1>2, <2>1 DEF T
  <2> QED BY <2>2, Zenon DEF Prefix
<1>4. Sub(n) = SUBSET (1..n)  BY <1>1
<1>5. g \in [SUBSET (1..n) -> A] /\ \A s \in SUBSET (1..n) : g[s] = IF s = {} THEN base ELSE step[<<g[s \ {Max(s)}], Max(s)>>]
  <2> HIDE DEF Sub
  <2> QED BY <1>3, <1>4, Zenon
<1>6. Folds(g, base, step, n)  BY <1>5 DEF Folds
<1> QED BY <1>5, <1>6, Zenon DEF FoldOf

\* The same, as far as the results lie in a set A.
FoldsWithin(iter, A, base, step, n) ==
    \A s \in SUBSET (1..n) :
        /\ s = {} => iter[s] = base
        /\ s # {} /\ iter[s \ {Max(s)}] \in A => iter[s] = step[<<iter[s \ {Max(s)}], Max(s)>>]

\* A fold with results in A, and what satisfies the same equations.
FoldedTwice(g, iter, A, base, step, n) ==
    n \in Nat /\ base \in A /\ FoldOf(g, A, base, step, n) /\ FoldsWithin(iter, A, base, step, n)

\* They have the same values.
LEMMA FoldIs ==
    ASSUME NEW A, NEW n, NEW base, NEW step, NEW iter, NEW g, FoldedTwice(g, iter, A, base, step, n)
    PROVE  iter[1..n] = g[1..n]
<1> DEFINE T == {Cardinality(s) : s \in {t \in SUBSET (1..n) : iter[t] # g[t]}}
<1>0. /\ n \in Nat /\ g \in [SUBSET (1..n) -> A]
      /\ Folds(g, base, step, n) /\ FoldsWithin(iter, A, base, step, n)
  BY Zenon DEF FoldedTwice, FoldOf
<1>1. \A s \in SUBSET (1..n) : g[s] \in A /\ g[s] = IF s = {} THEN base ELSE step[<<g[s \ {Max(s)}], Max(s)>>]
  BY <1>0 DEF Folds
<1>2. \A s \in SUBSET (1..n) : Cardinality(s) \in Nat  BY <1>0, PlacesAreFinite
<1>2a. \A s \in SUBSET (1..n) : s = {} => iter[s] = base  BY <1>0 DEF FoldsWithin
<1>3. ASSUME T # {} PROVE FALSE
  <2>1. T \subseteq Nat  BY <1>2
  <2>2. PICK k \in T : \A j \in T : k <= j
    <3> HIDE DEF T
    <3> QED BY <1>3, <2>1, LeastNumber
  <2>3. PICK s \in SUBSET (1..n) : iter[s] # g[s] /\ k = Cardinality(s)  BY <2>2
  <2>4. s # {}  BY <2>3, <1>1, <1>2a
  <2>5. /\ s \ {Max(s)} \in SUBSET (1..n)
        /\ Cardinality(s) \in Nat \ {0}
        /\ Cardinality(s \ {Max(s)}) = Cardinality(s) - 1
    BY <1>0, <2>4, WithoutLargest, Zenon
  <2>6. Cardinality(s \ {Max(s)}) \notin T
    <3> HIDE DEF T
    <3> QED BY <2>2, <2>3, <2>5
  <2>7. iter[s \ {Max(s)}] = g[s \ {Max(s)}]  BY <2>5, <2>6
  <2>8. g[s \ {Max(s)}] \in A  BY <2>5, <1>1, Zenon
  <2>9. iter[s] = step[<<iter[s \ {Max(s)}], Max(s)>>]  BY <1>0, <2>4, <2>7, <2>8, Zenon DEF FoldsWithin
  <2> QED BY <2>3, <2>4, <2>7, <2>9, <1>1, Zenon
<1>4. 1..n \in SUBSET (1..n)  OBVIOUS
<1> QED BY <1>3, <1>4

-----------------------------------------------------------------------------
(* A set in its order *)

\* A strict total order of a finite set, given by what is before each element.
Orders(S, before) ==
    /\ IsFiniteSet(S)
    /\ before \in [S -> SUBSET S]
    /\ \A x \in S : x \notin before[x]
    /\ \A x, y \in S : y \in before[x] => before[y] \subseteq before[x]
    /\ \A x, y \in S : x = y \/ x \in before[y] \/ y \in before[x]

\* What InOrder computes.
Ranked(S, before) ==
    LET places == {[at |-> Cardinality(before[x]), element |-> x] : x \in S} IN
    [i \in 1..Cardinality(S) |-> (CHOOSE p \in places : p.at = i - 1).element]

\* The elements in order: each once, and none before an earlier one.
Enumerates(s, S, before) ==
    /\ s \in [1..Cardinality(S) -> S]
    /\ \A i, j \in 1..Cardinality(S) : s[i] = s[j] => i = j
    /\ \A x \in S : \E i \in 1..Cardinality(S) : s[i] = x
    /\ \A i, j \in 1..Cardinality(S) : i < j => s[i] \in before[s[j]]

\* To put every element where it stands in a strict total order enumerates a finite set.
LEMMA RankedEnumerates ==
    ASSUME NEW S, NEW before, Orders(S, before)
    PROVE  Enumerates(Ranked(S, before), S, before)
<1> DEFINE n == Cardinality(S)
           rank == [x \in S |-> Cardinality(before[x])]
<1>0. /\ IsFiniteSet(S)
      /\ \A x \in S : before[x] \in SUBSET S /\ x \notin before[x]
      /\ \A x, y \in S : y \in before[x] => before[y] \subseteq before[x]
      /\ \A x, y \in S : x = y \/ x \in before[y] \/ y \in before[x]
  BY DEF Orders
<1>1. n \in Nat  BY <1>0, FS_CardinalityType, Zenon
<1>2. \A x \in S : IsFiniteSet(before[x]) /\ rank[x] \in Nat /\ rank[x] + 1 <= n
  <2> TAKE x \in S
  <2>1. before[x] \in SUBSET (S \ {x})  BY <1>0
  <2>2. IsFiniteSet(S \ {x}) /\ Cardinality(S \ {x}) = n - 1  BY <1>0, FS_RemoveElement, Zenon
  <2>3. IsFiniteSet(before[x]) /\ Cardinality(before[x]) <= Cardinality(S \ {x})
    BY <2>1, <2>2, FS_Subset, Zenon
  <2>4. Cardinality(before[x]) \in Nat  BY <2>3, FS_CardinalityType, Zenon
  <2>5. rank[x] = Cardinality(before[x])  OBVIOUS
  <2> HIDE DEF rank
  <2> QED BY <1>1, <2>2, <2>3, <2>4, <2>5
<1>3. \A x, y \in S : y \in before[x] => rank[y] < rank[x]
  <2> SUFFICES ASSUME NEW x \in S, NEW y \in S, y \in before[x] PROVE rank[y] < rank[x]
    BY Zenon
  <2>1. before[y] \cup {y} \in SUBSET before[x]  BY <1>0
  <2>2. IsFiniteSet(before[x]) /\ IsFiniteSet(before[y]) /\ y \notin before[y]  BY <1>0, <1>2, Zenon
  <2>3. Cardinality(before[y] \cup {y}) = Cardinality(before[y]) + 1  BY <2>2, FS_AddElement, Zenon
  <2>4. Cardinality(before[y] \cup {y}) <= Cardinality(before[x])  BY <2>1, <2>2, FS_Subset, Zenon
  <2>5. rank[x] = Cardinality(before[x]) /\ rank[y] = Cardinality(before[y])  BY Zenon
  <2>6. rank[x] \in Nat /\ rank[y] \in Nat  BY <1>2, Zenon
  <2> HIDE DEF rank
  <2> QED BY <2>3, <2>4, <2>5, <2>6
<1>4. \A x, y \in S : rank[x] = rank[y] => x = y
  <2> TAKE x, y \in S
  <2>1. rank[x] \in Nat /\ rank[y] \in Nat  BY <1>2, Zenon
  <2> HIDE DEF rank
  <2> QED BY <1>0, <1>3, <2>1
<1> DEFINE f == [x \in S |-> rank[x] + 1]
<1>5. f \in [S -> 1..n]
  <2> HIDE DEF rank, n
  <2> QED BY <1>1, <1>2
<1>6. f \in Injection(S, 1..n)
  <2>1. \A x, y \in S : f[x] = f[y] => x = y
    <3> TAKE x, y \in S
    <3>1. f[x] = rank[x] + 1 /\ f[y] = rank[y] + 1  BY Zenon
    <3>2. rank[x] \in Nat /\ rank[y] \in Nat  BY <1>2, Zenon
    <3> HIDE DEF f, rank
    <3>3. f[x] = f[y] => rank[x] = rank[y]  BY <3>1, <3>2
    <3> QED BY <3>3, <1>4, Zenon
  <2>2. DOMAIN f = S  OBVIOUS
  <2> HIDE DEF f, n
  <2> QED BY <1>5, <2>1, <2>2, Zenon DEF Injection, IsInjective
<1>7. f \in Surjection(S, 1..n)
  <2>1. 1 \in Int /\ n \in Int  BY <1>1
  <2>2. IsFiniteSet(1..n) /\ Cardinality(1..n) = IF 1 > n THEN 0 ELSE n - 1 + 1  BY <2>1, FS_Interval, Zenon
  <2>3. Cardinality(1..n) = n  BY <2>2, <1>1
  <2> HIDE DEF f
  <2> QED BY <1>6, <2>2, <2>3, FS_Injection, Zenon
<1>8. \A i \in 1..n : \E x \in S : rank[x] = i - 1
  <2> TAKE i \in 1..n
  <2>1. PICK x \in S : f[x] = i  BY <1>7, Zenon DEF Surjection
  <2>2. rank[x] \in Nat /\ rank[x] + 1 = i  BY <1>2, <2>1, Zenon
  <2> HIDE DEF rank, f
  <2> QED BY <2>2
<1> DEFINE places == {[at |-> Cardinality(before[x]), element |-> x] : x \in S}
           s == [i \in 1..n |-> (CHOOSE p \in places : p.at = i - 1).element]
<1>9. \A i \in 1..n : s[i] \in S /\ rank[s[i]] = i - 1
  <2> TAKE i \in 1..n
  <2>1. PICK x \in S : rank[x] = i - 1  BY <1>8, Zenon
  <2>2. \E p \in places : p.at = i - 1
    <3>1. [at |-> Cardinality(before[x]), element |-> x] \in places  BY Zenon
    <3>2. [at |-> Cardinality(before[x]), element |-> x].at = i - 1  BY <2>1
    <3> HIDE DEF places
    <3> QED BY <3>1, <3>2, Zenon
  <2> DEFINE q == CHOOSE p \in places : p.at = i - 1
  <2>3. q \in places /\ q.at = i - 1
    <3> HIDE DEF places
    <3> QED BY <2>2, Zenon
  <2>4. s[i] = q.element  BY Zenon
  <2> HIDE DEF q, s
  <2>5. PICK y \in S : q = [at |-> Cardinality(before[y]), element |-> y]  BY <2>3, Zenon
  <2>6. q.element = y /\ q.at = rank[y]  BY <2>5
  <2> QED BY <2>3, <2>4, <2>6
<1>10. Ranked(S, before) = s  BY Zenon DEF Ranked
<1> HIDE DEF s, places
<1>11. s \in [1..n -> S]
  <2>1. s = [i \in 1..n |-> s[i]]  BY DEF s
  <2> HIDE DEF s
  <2> QED BY <1>9, <2>1, Zenon
<1>12. \A i, j \in 1..n : s[i] = s[j] => i = j
  <2> TAKE i, j \in 1..n
  <2>1. rank[s[i]] = i - 1 /\ rank[s[j]] = j - 1  BY <1>9
  <2> HIDE DEF rank, n
  <2>2. s[i] = s[j] => i - 1 = j - 1  BY <2>1, Zenon
  <2> QED BY <2>2, <1>1
<1>13. \A x \in S : \E i \in 1..n : s[i] = x
  <2> TAKE x \in S
  <2>1. rank[x] \in Nat /\ rank[x] + 1 <= n  BY <1>2
  <2> DEFINE i == rank[x] + 1
  <2> HIDE DEF rank, n
  <2>2. i \in 1..n /\ i - 1 = rank[x]  BY <2>1, <1>1
  <2>3. s[i] \in S /\ rank[s[i]] = rank[x]  BY <1>9, <2>2
  <2> HIDE DEF i
  <2> QED BY <1>4, <2>2, <2>3, Zenon
<1>14. \A i, j \in 1..n : i < j => s[i] \in before[s[j]]
  <2> SUFFICES ASSUME NEW i \in 1..n, NEW j \in 1..n, i < j PROVE s[i] \in before[s[j]]
    BY Zenon
  <2>1. s[i] \in S /\ s[j] \in S /\ rank[s[i]] = i - 1 /\ rank[s[j]] = j - 1  BY <1>9
  <2> HIDE DEF rank, n
  <2>2. ~ (rank[s[j]] < rank[s[i]]) /\ s[i] # s[j]  BY <2>1, <1>1
  <2> QED BY <2>1, <2>2, <1>0, <1>3, Zenon
<1> HIDE DEF n
<1> QED BY <1>10, <1>11, <1>12, <1>13, <1>14, Zenon DEF Enumerates, n

-----------------------------------------------------------------------------
(* Some places of a sequence *)

\* The elements at some places of a sequence are a sequence.
LEMMA AtIsSequence ==
    ASSUME NEW s, NEW places, IsFiniteSet(places)
    PROVE  \E X : At(s, places) \in Seq(X) /\ Len(At(s, places)) = Cardinality(places)
<1> DEFINE t == At(s, places)
           X == {t[i] : i \in 1..Cardinality(places)}
<1>1. Cardinality(places) \in Nat  BY FS_CardinalityType, Zenon
<1>2. DOMAIN InOrder(places, <) = 1..Cardinality(places)  BY Zenon DEF InOrder
<1>3. t = [i \in 1..Cardinality(places) |-> s[InOrder(places, <)[i]]]  BY <1>2, Zenon DEF At
<1>4. t \in [1..Cardinality(places) -> X]
  <2>1. t = [i \in 1..Cardinality(places) |-> t[i]]  BY <1>3, Zenon
  <2>2. \A i \in 1..Cardinality(places) : t[i] \in X  BY Zenon
  <2> HIDE DEF t, X
  <2> QED BY <2>1, <2>2, Zenon
<1> HIDE DEF t, X
<1>5. t \in Seq(X) /\ Len(t) = Cardinality(places)  BY <1>1, <1>4, LenOfFunction
<1> QED BY <1>5, Zenon DEF t

\* The spans of a text in the order in which Marked takes them.
InText(spans) == InOrder(spans, LAMBDA s, t : s.from < t.from \/ (s.from = t.from /\ s.to < t.to))

\* Marking takes the next span unless it begins inside the last one taken.
MarkNext(done, s) == IF done # <<>> /\ s.from < Last(done).to THEN done ELSE Append(done, s)

\* What is marked after each of the spans of a text.
MarksInSteps(h, spans) ==
    /\ h[0] = <<>> /\ h[Cardinality(spans)] = Marked(spans)
    /\ \A k \in 1..Cardinality(spans) : h[k] = MarkNext(h[k - 1], InText(spans)[k])

\* Marking goes from span to span.
LEMMA MarkedSteps ==
    ASSUME NEW spans, IsFiniteSet(spans), NEW X,
           \A i \in 1..Cardinality(spans) : InText(spans)[i] \in X
    PROVE  \E h \in [0..Cardinality(spans) -> Seq(X)] : MarksInSteps(h, spans)
<1> DEFINE ordered == InText(spans)
           n == Cardinality(spans)
           A == Seq(X)
           Value(done, s) == MarkNext(done, s)
           step == [p \in A \X (1..n) |-> Value(p[1], ordered[p[2]])]
           F(f) == [s \in SUBSET (1..n) |-> IF s = {} THEN <<>> ELSE Value(f[s \ {Max(s)}], ordered[Max(s)])]
           iter == CHOOSE f : f = F(f)
<1>1. n \in Nat  BY FS_CardinalityType, Zenon
<1>2. DOMAIN ordered = 1..n  BY Zenon DEF InText, InOrder
<1>3. Marked(spans) = iter[1..n]
  <2>1. Marked(spans) = FoldLeft(LAMBDA done, s : IF done # <<>> /\ s.from < Last(done).to THEN done ELSE Append(done, s),
                                 <<>>, ordered)
    BY Zenon DEF Marked, InText
  <2> HIDE DEF ordered, n
  <2> QED BY <1>2, <2>1, Zenon DEF FoldLeft, MapThenFoldSet, MarkNext
<1>4. <<>> \in A  BY EmptySeq, Zenon
<1>5. \A d \in A, i \in 1..n : Value(d, ordered[i]) \in A
  <2> SUFFICES ASSUME NEW d \in A, NEW i \in 1..n PROVE Value(d, ordered[i]) \in A
    BY Zenon
  <2>1. ordered[i] \in X  BY Zenon
  <2> HIDE DEF ordered
  <2>2. Append(d, ordered[i]) \in A  BY <2>1, AppendProperties, Zenon
  <2> QED BY <2>2, Zenon DEF MarkNext
<1> HIDE DEF ordered, Value
<1>6. step \in [A \X (1..n) -> A]
  <2>1. \A p \in A \X (1..n) : Value(p[1], ordered[p[2]]) \in A
    <3> TAKE p \in A \X (1..n)
    <3>1. p[1] \in A /\ p[2] \in 1..n  OBVIOUS
    <3> QED BY <3>1, <1>5, Zenon
  <2> HIDE DEF A
  <2> QED BY <2>1, Zenon
<1>6a. \A d \in A, i \in 1..n : step[<<d, i>>] = Value(d, ordered[i])
  <2> SUFFICES ASSUME NEW d \in A, NEW i \in 1..n PROVE step[<<d, i>>] = Value(d, ordered[i])
    BY Zenon
  <2>1. <<d, i>> \in A \X (1..n) /\ <<d, i>>[1] = d /\ <<d, i>>[2] = i  OBVIOUS
  <2> HIDE DEF A
  <2> QED BY <2>1, Zenon
<1> HIDE DEF A, n, step
<1>7. PICK g : FoldOf(g, A, <<>>, step, n)  BY <1>1, <1>4, <1>6, FoldExists, Zenon
<1>8. \A s \in SUBSET (1..n) : s # {} => s \ {Max(s)} \in SUBSET (1..n) /\ Max(s) \in 1..n
  BY <1>1, WithoutLargest, Zenon
<1>7a. /\ \A s \in SUBSET (1..n) : g[s] = IF s = {} THEN <<>> ELSE step[<<g[s \ {Max(s)}], Max(s)>>]
       /\ \A s \in SUBSET (1..n) : g[s] \in A
       /\ g = [s \in SUBSET (1..n) |-> g[s]]
  BY <1>7, Zenon DEF FoldOf, Folds
<1>9. g = F(g)
  <2>1. \A s \in SUBSET (1..n) :
          g[s] = IF s = {} THEN <<>> ELSE Value(g[s \ {Max(s)}], ordered[Max(s)])
    <3> TAKE s \in SUBSET (1..n)
    <3>1. g[s] = IF s = {} THEN <<>> ELSE step[<<g[s \ {Max(s)}], Max(s)>>]  BY <1>7a, Zenon
    <3>2. s # {} => g[s \ {Max(s)}] \in A  BY <1>7a, <1>8, Zenon
    <3> QED BY <1>6a, <1>8, <3>1, <3>2, Zenon
  <2>2. g = [s \in SUBSET (1..n) |-> g[s]]  BY <1>7a, Zenon
  <2> QED BY <2>1, <2>2, Zenon
<1>10. iter = F(iter)
  <2> HIDE DEF F
  <2> QED BY <1>9, Zenon
<1> HIDE DEF iter
<1>11. \A s \in SUBSET (1..n) :
          /\ s = {} => iter[s] = <<>>
          /\ s # {} /\ iter[s \ {Max(s)}] \in A => iter[s] = step[<<iter[s \ {Max(s)}], Max(s)>>]
  <2> TAKE s \in SUBSET (1..n)
  <2>1. iter[s] = IF s = {} THEN <<>> ELSE Value(iter[s \ {Max(s)}], ordered[Max(s)])  BY <1>10, Zenon
  <2> HIDE DEF F
  <2> QED BY <1>6a, <1>8, <2>1, Zenon
<1>11a. FoldsWithin(iter, A, <<>>, step, n)  BY <1>11, Zenon DEF FoldsWithin
<1>12. iter[1..n] = g[1..n]
  <2>1. FoldedTwice(g, iter, A, <<>>, step, n)  BY <1>1, <1>4, <1>7, <1>11a, Zenon DEF FoldedTwice
  <2> QED BY <2>1, FoldIs, SMT
<1> DEFINE h == [k \in 0..n |-> g[1..k]]
<1>13. \A k \in 0..n : 1..k \in SUBSET (1..n)  BY <1>1
<1>14. h \in [0..n -> A]  BY <1>7a, <1>13, Zenon
<1>15. h[0] = <<>> /\ h[n] = g[1..n]
  <2>1. 0 \in 0..n /\ n \in 0..n /\ 1..0 = {}  BY <1>1
  <2> QED BY <1>7a, <1>13, <2>1, Zenon
<1>16. \A k \in 1..n : h[k] = Value(h[k - 1], ordered[k])
  <2> TAKE k \in 1..n
  <2>1. k \in 0..n /\ k - 1 \in 0..n /\ 1..k # {} /\ k \in Nat  BY <1>1
  <2>2. Max(1..k) = k /\ (1..k) \ {k} = 1..(k - 1)
    <3>1. Max(1..k) \in 1..k /\ \A i \in 1..k : i <= Max(1..k)  BY <2>1, LargestPlace
    <3>2. k \in 1..k  BY <2>1
    <3> DEFINE x == Max(1..k)
    <3>3. x \in 1..k /\ k <= x  BY <3>1, <3>2, Zenon
    <3> HIDE DEF x
    <3>4. x = k  BY <2>1, <3>3
    <3>5. (1..k) \ {k} = 1..(k - 1)  BY <2>1
    <3> QED BY <3>4, <3>5, Zenon DEF x
  <2>3. g[1..k] = step[<<g[(1..k) \ {Max(1..k)}], Max(1..k)>>]  BY <1>7a, <1>13, <2>1, Zenon
  <2>4. g[1..k] = step[<<g[1..(k - 1)], k>>]  BY <2>2, <2>3, Zenon
  <2>5. g[1..(k - 1)] \in A  BY <1>7a, <1>13, <2>1, Zenon
  <2>6. g[1..k] = Value(g[1..(k - 1)], ordered[k])  BY <1>6a, <2>4, <2>5, Zenon
  <2>7. h[k] = g[1..k] /\ h[k - 1] = g[1..(k - 1)]  BY <2>1, Zenon
  <2> QED BY <2>6, <2>7, Zenon
<1> HIDE DEF h
<1>17. \E f \in [0..n -> Seq(X)] : f[0] = <<>> /\ f[n] = Marked(spans) /\ \A k \in 1..n : f[k] = Value(f[k - 1], ordered[k])
  <2>1. h[n] = Marked(spans)  BY <1>3, <1>12, <1>15, Zenon
  <2> QED BY <1>14, <1>15, <1>16, <2>1, Zenon DEF A
<1> QED BY <1>17, Zenon DEF MarksInSteps, Value, n, ordered

\* The marked spans of a finite set are a sequence of its spans.
LEMMA MarkedTyped ==
    ASSUME NEW spans, IsFiniteSet(spans), NEW X,
           \A i \in 1..Cardinality(spans) : InText(spans)[i] \in X
    PROVE  Marked(spans) \in Seq(X)
<1> DEFINE n == Cardinality(spans)
<1>1. PICK h \in [0..n -> Seq(X)] : MarksInSteps(h, spans)  BY MarkedSteps, Zenon
<1>2. n \in Nat  BY FS_CardinalityType, Zenon
<1>3. n \in 0..n  BY <1>2
<1> QED BY <1>1, <1>3, Zenon DEF MarksInSteps

-----------------------------------------------------------------------------
(* The token table *)

\* The words that the writer has written, one row each.
WordRecords ==
    [text : DOMAIN Normal, tag : STRING, doc : DOMAIN FileName, lang : STRING, sentence : Nat \X Nat, ordinal : Nat]

WordAt(results, r, s, w) ==
    [text |-> results[r][s].words[w].text,
     tag |-> results[r][s].words[w].tag,
     doc |-> results[r][s].doc,
     lang |-> results[r][s].lang,
     sentence |-> <<r, s>>,
     ordinal |-> w]

SentenceWords(results, r, s) == [w \in DOMAIN results[r][s].words |-> WordAt(results, r, s, w)]
ResultWords(results, r) == FlattenSeq([s \in DOMAIN results[r] |-> SentenceWords(results, r, s)])
WrittenWords(results) == FlattenSeq([r \in DOMAIN results |-> ResultWords(results, r)])

\* The words of a sentence become token records.
LEMMA SentenceWordsTyped ==
    ASSUME NEW results, NEW r \in Nat, NEW s \in Nat, results[r][s] \in SentenceRecords
    PROVE  SentenceWords(results, r, s) \in Seq(WordRecords)
<1> DEFINE sentence == results[r][s]
           W == [text : DOMAIN Normal, tag : STRING]
<1>1. sentence.doc \in DOMAIN FileName /\ sentence.lang \in STRING /\ sentence.words \in Seq(W)
  BY DEF SentenceRecords
<1>2. /\ Len(sentence.words) \in Nat /\ DOMAIN sentence.words = 1..Len(sentence.words)
      /\ \A w \in 1..Len(sentence.words) : sentence.words[w] \in W
  <2> HIDE DEF W, sentence
  <2> QED BY <1>1, LenProperties, ElementOfSeq, Zenon
<1>3. \A w \in 1..Len(sentence.words) : WordAt(results, r, s, w) \in WordRecords
  <2> TAKE w \in 1..Len(sentence.words)
  <2>1. w \in Nat /\ sentence.words[w].text \in DOMAIN Normal /\ sentence.words[w].tag \in STRING  BY <1>2
  <2>2. <<r, s>> \in Nat \X Nat  OBVIOUS
  <2>3. WordAt(results, r, s, w) =
          [text |-> sentence.words[w].text, tag |-> sentence.words[w].tag, doc |-> sentence.doc,
           lang |-> sentence.lang, sentence |-> <<r, s>>, ordinal |-> w]
    BY Zenon DEF WordAt
  <2> HIDE DEF sentence
  <2> QED BY <1>1, <2>1, <2>2, <2>3 DEF WordRecords
<1>4. SentenceWords(results, r, s) \in [1..Len(sentence.words) -> WordRecords]
  <2>1. SentenceWords(results, r, s) = [w \in 1..Len(sentence.words) |-> WordAt(results, r, s, w)]
    BY <1>2, Zenon DEF SentenceWords
  <2> HIDE DEF sentence
  <2> QED BY <1>3, <2>1, Zenon
<1> HIDE DEF sentence
<1> QED BY <1>2, <1>4, LenOfFunction, Zenon

\* What is written of a result: its sentences, one after the other.
ResultTyped(results, r) ==
    LET n == Len(results[r])
        parts == [s \in 1..n |-> SentenceWords(results, r, s)]
    IN  /\ n \in Nat /\ DOMAIN results[r] = 1..n
        /\ \A s \in 1..n : results[r][s] \in SentenceRecords
        /\ parts \in [1..n -> Seq(WordRecords)]
        /\ ResultWords(results, r) = FlattenSeq(parts)
        /\ ResultWords(results, r) \in Seq(WordRecords)

\* Its sentences become token records.
LEMMA ResultWordsTyped ==
    ASSUME NEW results, NEW r \in Nat, results[r] \in Seq(SentenceRecords)
    PROVE  ResultTyped(results, r)
<1> DEFINE n == Len(results[r])
           parts == [s \in 1..n |-> SentenceWords(results, r, s)]
<1>1. n \in Nat /\ DOMAIN results[r] = 1..n /\ \A s \in 1..n : results[r][s] \in SentenceRecords
  BY LenProperties, ElementOfSeq, Zenon
<1> HIDE DEF n
<1>2. \A s \in 1..n : SentenceWords(results, r, s) \in Seq(WordRecords)
  <2> TAKE s \in 1..n
  <2>1. s \in Nat  BY <1>1
  <2> QED BY <1>1, <2>1, SentenceWordsTyped, Zenon
<1>3. parts \in [1..n -> Seq(WordRecords)]  BY <1>2, Zenon
<1>4. ResultWords(results, r) = FlattenSeq(parts)  BY <1>1, Zenon DEF ResultWords
<1>5. FlattenSeq(parts) \in Seq(WordRecords)
  <2> HIDE DEF parts
  <2> QED BY <1>1, <1>3, FlattenTyped, Zenon
<1> QED BY <1>1, <1>3, <1>4, <1>5, Zenon DEF ResultTyped, n

\* What is written of all results: one after the other.
AllWritten(results) ==
    LET n == Len(results)
        parts == [r \in 1..n |-> ResultWords(results, r)]
    IN  /\ n \in Nat /\ DOMAIN results = 1..n
        /\ \A r \in 1..n : ResultTyped(results, r)
        /\ parts \in [1..n -> Seq(WordRecords)]
        /\ WrittenWords(results) = FlattenSeq(parts)
        /\ WrittenWords(results) \in Seq(WordRecords)

\* The words of all sentences of all results become token records.
LEMMA WrittenWordsTyped ==
    ASSUME NEW results, results \in Seq(Seq(SentenceRecords))
    PROVE  AllWritten(results)
<1> DEFINE Y == Seq(SentenceRecords)
           n == Len(results)
           parts == [r \in 1..n |-> ResultWords(results, r)]
<1>1. n \in Nat /\ DOMAIN results = 1..n /\ \A r \in 1..n : results[r] \in Y
  <2>1. results \in Seq(Y)  BY Zenon
  <2> HIDE DEF Y
  <2> QED BY <2>1, LenProperties, ElementOfSeq, Zenon
<1>2. \A r \in 1..n : r \in Nat  BY <1>1
<1> HIDE DEF n
<1>3. \A r \in 1..n : ResultTyped(results, r)  BY <1>1, <1>2, ResultWordsTyped, Zenon
<1>4. parts \in [1..n -> Seq(WordRecords)]  BY <1>3, Zenon DEF ResultTyped
<1>5. WrittenWords(results) = FlattenSeq(parts)  BY <1>1, Zenon DEF WrittenWords
<1>6. FlattenSeq(parts) \in Seq(WordRecords)
  <2> HIDE DEF parts
  <2> QED BY <1>1, <1>4, FlattenTyped, Zenon
<1> QED BY <1>1, <1>3, <1>4, <1>5, <1>6, Zenon DEF AllWritten, n

\* The rows of the token table are numbered from 1, and each knows its place
\* in the stream of its document and language.
Tokens(tokens) ==
    \E n \in Nat :
        /\ DOMAIN tokens = 1..n
        /\ \A g \in 1..n :
            /\ tokens[g].word \in WordRecords
            /\ tokens[g].stream = Cardinality({h \in 1..g : /\ tokens[h].word.doc = tokens[g].word.doc
                                                            /\ tokens[h].word.lang = tokens[g].word.lang})

\* The rows that the writer makes of the results of an import are a token table.
LEMMA TokenRowsAreTokens ==
    ASSUME NEW results, results \in Seq(Seq(SentenceRecords))
    PROVE  Tokens(TokenRows(results))
<1> DEFINE written == WrittenWords(results)
           n == Len(written)
           Stream(g) == Cardinality({h \in 1..g : /\ written[h].doc = written[g].doc
                                                  /\ written[h].lang = written[g].lang})
           tokens == [g \in DOMAIN written |-> [word |-> written[g], row |-> g, stream |-> Stream(g)]]
<1>1. written \in Seq(WordRecords)
  <2>1. AllWritten(results)  BY WrittenWordsTyped, Zenon
  <2> QED BY <2>1, Zenon DEF AllWritten
<1>2. n \in Nat /\ DOMAIN written = 1..n /\ \A g \in 1..n : written[g] \in WordRecords
  <2> HIDE DEF written
  <2> QED BY <1>1, LenProperties, ElementOfSeq, Zenon
<1>3. TokenRows(results) = tokens  BY Zenon DEF TokenRows, WrittenWords, ResultWords, SentenceWords, WordAt
<1> HIDE DEF written, n
<1>4. \A g \in 1..n : tokens[g].word = written[g] /\ tokens[g].stream = Stream(g)
  <2> TAKE g \in 1..n
  <2>1. tokens[g] = [word |-> written[g], row |-> g, stream |-> Stream(g)]  BY <1>2, Zenon
  <2> HIDE DEF Stream, tokens
  <2> QED BY <2>1
<1>5. DOMAIN tokens = 1..n  BY <1>2, Zenon
<1> HIDE DEF tokens
<1>6. \A g \in 1..n : \A h \in 1..g : h \in 1..n  BY <1>2
<1>7. \A g \in 1..n :
          {h \in 1..g : written[h].doc = written[g].doc /\ written[h].lang = written[g].lang} =
          {h \in 1..g : tokens[h].word.doc = tokens[g].word.doc /\ tokens[h].word.lang = tokens[g].word.lang}
  BY <1>4, <1>6, Zenon
<1>8. \A g \in 1..n :
          /\ tokens[g].word \in WordRecords
          /\ tokens[g].stream = Cardinality({h \in 1..g : /\ tokens[h].word.doc = tokens[g].word.doc
                                                          /\ tokens[h].word.lang = tokens[g].word.lang})
  BY <1>2, <1>4, <1>7, Zenon
<1>9. Tokens(tokens)  BY <1>2, <1>5, <1>8, Zenon DEF Tokens
<1> QED BY <1>3, <1>9, Zenon

-----------------------------------------------------------------------------
(* Corpora and forms *)

\* What the directories of a published corpus hold: its name, its pairs and the index of its results.
LEMMA ArtifactsFields ==
    ASSUME NEW c \in Corpora
    PROVE  /\ Artifacts(c).name = c.name
           /\ Artifacts(c).pairs = c.pairs
           /\ Artifacts(c).index = Index(c.results)
           /\ c.pairs \in Seq(PairRecords)
           /\ Tokens(Artifacts(c).index.tokens)
<1> DEFINE d == [c EXCEPT !.reference = Indexed(@)]
           fields == [index |-> Index(c.results)]
<1>1. DOMAIN c = {"name", "languages", "segmenter", "units", "results", "pairs", "reference"}
  BY CorporaAssumption, Zenon
<1>2. c.results \in Seq(Seq(SentenceRecords)) /\ c.pairs \in Seq(PairRecords)  BY CorporaAssumption, Zenon
<1>3. DOMAIN d = DOMAIN c /\ d.name = c.name /\ d.pairs = c.pairs /\ d.results = c.results  BY <1>1
<1> HIDE DEF d
<1>4. Artifacts(c) = Extended(d, fields)  BY <1>3 DEF Artifacts, Indexed, d
<1>5. DOMAIN fields = {"index"} /\ fields["index"] = Index(c.results)  OBVIOUS
<1> HIDE DEF fields
<1>6. "name" \in DOMAIN d /\ "pairs" \in DOMAIN d /\ "index" \in DOMAIN fields \ DOMAIN d  BY <1>1, <1>3, <1>5
<1>7. Artifacts(c).name = c.name /\ Artifacts(c).pairs = c.pairs /\ Artifacts(c).index = Index(c.results)
  BY <1>3, <1>4, <1>5, <1>6 DEF Extended
<1>8. Index(c.results).tokens = TokenRows(c.results)  BY DEF Index
<1> QED BY <1>2, <1>7, <1>8, TokenRowsAreTokens, Zenon

\* The fields of a request of the concordance once its form has been filled in.
KwicFields ==
    {"mode", "terms", "items", "context", "tag", "size", "sort", "order", "whole", "case", "prefix", "page", "sample",
     "seed", "list", "near", "logic", "windowFrom", "windowTo", "exclude", "lang"}

\* What a request lists.
SoundLists(q) ==
    /\ IsList(q.terms) /\ IsList(q.list) /\ IsList(q.items) /\ IsList(q.sort)
    /\ \A t \in ToSet(q.list) : IsList(t)
    /\ \A i \in ToSet(q.items) : IsList(i.terms)
    /\ \A k \in ToSet(q.sort) : SortKey(k)

\* The form of the concordance fills in every field, with numbers where numbers are meant (KwicSearchForm).
LEMMA KwicFormFields ==
    ASSUME NEW r \in RequestsOf("kwic"), NEW languages
    PROVE  /\ KwicFields \subseteq DOMAIN KwicForm(r, languages)
           /\ KwicForm(r, languages).page \in Int
           /\ KwicForm(r, languages).size \in Int
           /\ KwicForm(r, languages).sample \in Int
           /\ KwicForm(r, languages).seed \in Int
           /\ KwicForm(r, languages).context \in Int
           /\ KwicForm(r, languages).windowFrom \in Int
           /\ KwicForm(r, languages).windowTo \in Int
           /\ SoundLists(KwicForm(r, languages))
<1> DEFINE defaults ==
      [mode |-> "simple", terms |-> <<>>, items |-> <<>>, context |-> 5, tag |-> "", size |-> 50,
                     sort |-> <<>>, order |-> "value", whole |-> TRUE, case |-> FALSE, prefix |-> FALSE, page |-> 1,
                     sample |-> 0, seed |-> 0, list |-> <<>>, near |-> <<>>, logic |-> "or", windowFrom |-> -5,
                     windowTo |-> 5, exclude |-> FALSE]
           given == Extended(r, defaults)
           whole == [given EXCEPT !.whole = given.whole /\ given.mode # "full_regex"]
           Lang == IF given.terms # <<>> /\ given.mode # "cqp" /\ LanguageOf(given.terms) \in ToSet(languages)
                   THEN LanguageOf(given.terms) ELSE languages[1]
           lang == [lang |-> Lang]
           q == KwicForm(r, languages)
           numbers == {"page", "size", "sample", "seed", "context", "windowFrom", "windowTo"}
           lists == {"terms", "list", "items", "sort"}
<1>1. q = Extended(whole, lang)  BY Zenon DEF KwicForm
<1>2. PICK p \in Requests : p.query = r /\ p.view = "kwic"  BY Zenon DEF RequestsOf
<1>3. \A f \in numbers \cap DOMAIN r : r[f] \in Int  BY <1>2, RequestsAssumption
<1>4. \A f \in lists \cap DOMAIN r : IsList(r[f])
  <2>1. \A f \in {"terms", "list", "items", "sort", "zh", "en"} \cap DOMAIN p.query : IsList(p.query[f])
    BY RequestsAssumption, Zenon
  <2> QED BY <1>2, <2>1, Zenon
<1>5. /\ "list" \in DOMAIN r => \A t \in ToSet(r["list"]) : IsList(t)
      /\ "items" \in DOMAIN r => \A i \in ToSet(r["items"]) : IsList(i.terms)
      /\ "sort" \in DOMAIN r => \A k \in ToSet(r["sort"]) : SortKey(k)
  BY <1>2, RequestsAssumption, Zenon
<1>6. IsList(<<>>) /\ ToSet(<<>>) = {}
  <2>1. ToSet(<<>>) = {}  BY DEF ToSet
  <2> QED BY <2>1, EmptySeq, Zenon DEF IsList
<1>7. /\ DOMAIN defaults = KwicFields \ {"lang"}
      /\ \A f \in numbers : defaults[f] \in Int
      /\ \A f \in lists : defaults[f] = <<>>
  BY DEF KwicFields
<1>8. DOMAIN lang = {"lang"}  OBVIOUS
<1>9. numbers \cup lists \subseteq KwicFields \ {"lang", "whole"}  BY DEF KwicFields
<1> HIDE DEF defaults
<1>10. /\ DOMAIN given = DOMAIN r \cup DOMAIN defaults
       /\ \A f \in numbers \cup lists : given[f] = IF f \in DOMAIN r THEN r[f] ELSE defaults[f]
  <2>1. DOMAIN given = DOMAIN r \cup DOMAIN defaults  BY DEF Extended
  <2>2. \A f \in DOMAIN r \cup DOMAIN defaults : given[f] = IF f \in DOMAIN r THEN r[f] ELSE defaults[f]
    BY DEF Extended
  <2> HIDE DEF given, numbers, lists
  <2> QED BY <1>7, <1>9, <2>1, <2>2
<1> HIDE DEF given
<1>11. DOMAIN whole = DOMAIN given /\ \A f \in DOMAIN given \ {"whole"} : whole[f] = given[f]  OBVIOUS
<1> HIDE DEF whole, lang, numbers, lists
<1>12. /\ DOMAIN q = DOMAIN whole \cup DOMAIN lang
       /\ \A f \in DOMAIN whole : q[f] = whole[f]
  BY <1>1 DEF Extended
<1> HIDE DEF q
<1>13. KwicFields \subseteq DOMAIN q  BY <1>7, <1>8, <1>10, <1>11, <1>12
<1>14. \A f \in numbers \cup lists : q[f] = IF f \in DOMAIN r THEN r[f] ELSE defaults[f]
  BY <1>7, <1>9, <1>10, <1>11, <1>12
<1>15. \A f \in numbers : q[f] \in Int  BY <1>3, <1>7, <1>14
<1>16. \A f \in lists : IsList(q[f])  BY <1>4, <1>6, <1>7, <1>14, Zenon
<1>17. \A f \in lists : q[f] = IF f \in DOMAIN r THEN r[f] ELSE <<>>  BY <1>7, <1>14, Zenon
<1>18. SoundLists(q)
  <2>1. "list" \in lists /\ "items" \in lists /\ "sort" \in lists /\ "terms" \in lists  BY DEF lists
  <2>2. IsList(q["terms"]) /\ IsList(q["list"]) /\ IsList(q["items"]) /\ IsList(q["sort"])
    BY <1>16, <2>1, Zenon
  <2>3. \A t \in ToSet(q["list"]) : IsList(t)  BY <1>5, <1>6, <1>17, <2>1, Zenon
  <2>4. \A i \in ToSet(q["items"]) : IsList(i.terms)
    <3>1. CASE "items" \in DOMAIN r  BY <1>5, <1>17, <2>1, <3>1, Zenon
    <3>2. CASE "items" \notin DOMAIN r  BY <1>6, <1>17, <2>1, <3>2, Zenon
    <3> QED BY <3>1, <3>2, Zenon
  <2>5. \A k \in ToSet(q["sort"]) : SortKey(k)  BY <1>5, <1>6, <1>17, <2>1, Zenon
  <2> QED BY <2>2, <2>3, <2>4, <2>5, Zenon DEF SoundLists
<1>19. /\ q["page"] \in Int /\ q["size"] \in Int /\ q["sample"] \in Int /\ q["seed"] \in Int
       /\ q["context"] \in Int /\ q["windowFrom"] \in Int /\ q["windowTo"] \in Int
  BY <1>15 DEF numbers
<1> QED BY <1>13, <1>18, <1>19, Zenon DEF q

-----------------------------------------------------------------------------
(* The matches of a search are finite *)

\* The values of a function f on S.
Image(T, f, S) == T = {f[x] : x \in S}

\* A finite set has a finite image.
LEMMA ImageFinite ==
    ASSUME NEW T, NEW f, NEW S, Image(T, f, S), IsFiniteSet(S)
    PROVE  IsFiniteSet(T)
<1> DEFINE h == [x \in S |-> f[x]]
<1>1. h \in [S -> T] /\ \A t \in T : \E x \in S : h[x] = t  BY DEF Image
<1> HIDE DEF h
<1>2. h \in Surjection(S, T)  BY <1>1, Zenon DEF Surjection
<1> QED BY <1>2, FS_Surjection

\* A sequence has finitely many elements.
LEMMA ElementsFinite ==
    ASSUME NEW X, NEW s \in Seq(X)
    PROVE  IsFiniteSet(ToSet(s)) /\ Cardinality(ToSet(s)) \in Nat
<1>1. Len(s) \in Nat /\ DOMAIN s = 1..Len(s)  BY LenProperties, Zenon
<1>2. IsFiniteSet(1..Len(s))
  <2>1. 1 \in Int /\ Len(s) \in Int  BY <1>1
  <2> QED BY <2>1, FS_Interval, Zenon
<1>3. Image(ToSet(s), s, 1..Len(s))  BY <1>1, Zenon DEF ToSet, Image
<1>4. IsFiniteSet(ToSet(s))  BY <1>2, <1>3, ImageFinite, Zenon
<1> QED BY <1>4, FS_CardinalityType, Zenon

\* A token table has finitely many rows.
LEMMA TokensFinite ==
    ASSUME NEW tokens, Tokens(tokens)
    PROVE  IsFiniteSet(DOMAIN tokens) /\ \A S \in SUBSET (DOMAIN tokens) : IsFiniteSet(S)
<1>1. PICK n \in Nat : DOMAIN tokens = 1..n  BY Zenon DEF Tokens
<1>2. 1 \in Int /\ n \in Int  OBVIOUS
<1>3. IsFiniteSet(1..n)  BY <1>2, FS_Interval, Zenon
<1> QED BY <1>1, <1>3, FS_Subset, Zenon

\* Matches that begin in certain rows.
MatchesAt(tokens, rows, n) == {MatchOf(tokens, g, n) : g \in rows}

\* At finitely many rows there are finitely many matches.
LEMMA MatchesAtFinite ==
    ASSUME NEW tokens, Tokens(tokens), NEW rows \in SUBSET (DOMAIN tokens), NEW n
    PROVE  IsFiniteSet(MatchesAt(tokens, rows, n))
<1> DEFINE f == [g \in rows |-> MatchOf(tokens, g, n)]
<1>1. IsFiniteSet(rows)  BY TokensFinite, Zenon
<1>2. Image(MatchesAt(tokens, rows, n), f, rows)  BY Zenon DEF MatchesAt, Image
<1> HIDE DEF f
<1> QED BY <1>1, <1>2, ImageFinite, Zenon

\* The simple search finds finitely many matches.
LEMMA MatchesFinite ==
    ASSUME NEW tokens, Tokens(tokens), NEW lang, NEW matchers, NEW tag
    PROVE  IsFiniteSet(Matches(tokens, lang, matchers, tag))
<1> DEFINE rows == {h \in DOMAIN tokens :
          /\ tokens[h].word.lang = lang
          /\ tag # "" => tokens[h].word.tag = tag
          /\ \A i \in DOMAIN matchers : \E k \in Beside(tokens, h, i - 1) :
                  Accepts(matchers[i], tokens[k].word.text)}
<1>1. Matches(tokens, lang, matchers, tag) = MatchesAt(tokens, rows, Len(matchers))
  BY Zenon DEF Matches, MatchesAt
<1>2. rows \in SUBSET (DOMAIN tokens)  BY Zenon
<1> HIDE DEF rows
<1> QED BY <1>1, <1>2, MatchesAtFinite, Zenon

\* The search by a CQP plan finds finitely many matches.
LEMMA PlanMatchesFinite ==
    ASSUME NEW tokens, Tokens(tokens), NEW lang, NEW filters, NEW tag
    PROVE  IsFiniteSet(PlanMatches(tokens, lang, filters, tag))
<1> DEFINE rows == {h \in DOMAIN tokens :
          /\ tokens[h].word.lang = lang
          /\ tag # "" => tokens[h].word.tag = tag
          /\ \A i \in DOMAIN filters : \E k \in Beside(tokens, h, i - 1) :
                  FilterAccepts(filters[i], tokens[k].word)}
<1>1. PlanMatches(tokens, lang, filters, tag) = MatchesAt(tokens, rows, Len(filters))
  BY Zenon DEF PlanMatches, MatchesAt
<1>2. rows \in SUBSET (DOMAIN tokens)  BY Zenon
<1> HIDE DEF rows
<1> QED BY <1>1, <1>2, MatchesAtFinite, Zenon

\* The union of the values of f on S, each of them finite.
Union(T, f, S) == T = UNION {f[x] : x \in S} /\ \A x \in S : IsFiniteSet(f[x])

\* Finitely many finite sets have a finite union.
LEMMA UnionFinite ==
    ASSUME NEW T, NEW f, NEW S, Union(T, f, S), IsFiniteSet(S)
    PROVE  IsFiniteSet(T)
<1> DEFINE V == {f[x] : x \in S}
<1>1. Image(V, f, S) /\ T = UNION V  BY Zenon DEF Image, Union
<1>2. \A W \in V : IsFiniteSet(W)  BY Zenon DEF Union
<1> HIDE DEF V
<1>3. IsFiniteSet(V)  BY <1>1, ImageFinite, Zenon
<1> QED BY <1>1, <1>2, <1>3, FS_UNION, Zenon

\* The queries of a request: the line itself and those of its list.
Queries(q) == ({q.terms} \cup ToSet(q.list)) \ {<<>>}

\* The advanced search finds finitely many matches.
LEMMA AdvancedMatchesFinite ==
    ASSUME NEW index, Tokens(index.tokens), NEW q, NEW queries, IsFiniteSet(queries)
    PROVE  IsFiniteSet(AdvancedMatches(index, q, queries))
<1> DEFINE tokens == index.tokens
           f == [t \in queries |-> Matches(tokens, q.lang, ResolvedTerms(tokens, q, t), q.tag)]
           found == UNION {Matches(tokens, q.lang, ResolvedTerms(tokens, q, t), q.tag) : t \in queries}
           loaded == Context(tokens, found, Higher(Higher(0 - q.windowFrom, q.windowTo), 1))
<1>1. \A t \in queries : IsFiniteSet(f[t])  BY MatchesFinite, Zenon
<1>2. Union(found, f, queries)  BY <1>1, Zenon DEF Union
<1> HIDE DEF f
<1>3. IsFiniteSet(found)
  <2> HIDE DEF found
  <2> QED BY <1>1, <1>2, UnionFinite, Zenon
<1> DEFINE near == {m \in found : NearMatch(tokens, loaded, m, q)}
<1>4. AdvancedMatches(index, q, queries) \in {found, near}  BY Zenon DEF AdvancedMatches
<1>5. near \in SUBSET found  BY Zenon
<1> HIDE DEF found, near
<1>6. IsFiniteSet(near)  BY <1>3, <1>5, FS_Subset, Zenon
<1> QED BY <1>3, <1>4, <1>6, Zenon

\* What a regular expression finds, document by document.
RegexFound(index, q) ==
    LET docs == {index.tokens[g].word.doc : g \in DOMAIN index.tokens} IN
    UNION {UNION {RegexMatch(index.tokens, d, q.lang, s) : s \in RegexSpans(index.tokens, d, q)} : d \in docs}

\* A regular expression marks finitely many spans in a text.
LEMMA RegexSpansFinite ==
    ASSUME NEW tokens, Tokens(tokens), NEW doc, NEW q
    PROVE  IsFiniteSet(RegexSpans(tokens, doc, q))
<1> DEFINE stream == StreamOf(tokens, doc, q.lang)
           WordAccepts(g, i) == \E h \in Beside(tokens, g, i - 1) :
                              Accepts([term |-> q.terms[i], whole |-> TRUE, case |-> q.case], tokens[h].word.text)
           starts == {g \in stream : \A i \in DOMAIN q.terms : WordAccepts(g, i)}
           f == [g \in starts |-> [from |-> StartOf(tokens[g].stream),
                     to |-> EndOf(tokens[g].stream + Len(q.terms) - 1) - (IF q.prefix THEN 1 ELSE 0)]]
           spans == {f[g] : g \in starts}
           X == {InText(spans)[i] : i \in 1..Cardinality(spans)}
<1>1. RegexSpans(tokens, doc, q) = ToSet(Marked(spans))  BY Zenon DEF RegexSpans
<1>2. starts \in SUBSET (DOMAIN tokens)  BY Zenon DEF StreamOf
<1>3. IsFiniteSet(spans)
  <2>1. IsFiniteSet(starts)
    <3> HIDE DEF starts
    <3> QED BY <1>2, TokensFinite, Zenon
  <2>2. Image(spans, f, starts)  BY Zenon DEF Image
  <2> HIDE DEF f, starts, spans
  <2> QED BY <2>1, <2>2, ImageFinite, Zenon
<1> HIDE DEF spans
<1>4. \A i \in 1..Cardinality(spans) : InText(spans)[i] \in X  BY Zenon
<1> HIDE DEF X
<1>5. Marked(spans) \in Seq(X)  BY <1>3, <1>4, MarkedTyped, Zenon
<1> QED BY <1>1, <1>5, ElementsFinite, Zenon

\* A search by a regular expression finds finitely many matches.
LEMMA RegexFoundFinite ==
    ASSUME NEW index, Tokens(index.tokens), NEW q
    PROVE  IsFiniteSet(RegexFound(index, q))
<1> DEFINE tokens == index.tokens
           doc == [g \in DOMAIN tokens |-> tokens[g].word.doc]
           docs == {doc[g] : g \in DOMAIN tokens}
           In(d) == [s \in RegexSpans(tokens, d, q) |-> RegexMatch(tokens, d, q.lang, s)]
           f == [d \in docs |-> UNION {In(d)[s] : s \in RegexSpans(tokens, d, q)}]
<1>1. IsFiniteSet(docs)
  <2>1. IsFiniteSet(DOMAIN tokens) /\ Image(docs, doc, DOMAIN tokens)  BY TokensFinite, Zenon DEF Image
  <2> HIDE DEF doc, docs
  <2> QED BY <2>1, ImageFinite, Zenon
<1>2. \A d, s : IsFiniteSet(RegexMatch(tokens, d, q.lang, s))
  <2> TAKE d, s
  <2> DEFINE R == RegexMatch(tokens, d, q.lang, s)
  <2>1. R = {} \/ \E m : R = {m}  BY Zenon DEF RegexMatch
  <2> HIDE DEF R
  <2>2. IsFiniteSet({}) /\ \A m : IsFiniteSet({m})  BY FS_EmptySet, FS_Singleton, Zenon
  <2>3. IsFiniteSet(R)  BY <2>1, <2>2
  <2> QED BY <2>3 DEF R
<1>3. \A d \in docs : IsFiniteSet(f[d])
  <2> TAKE d \in docs
  <2> DEFINE spans == RegexSpans(tokens, d, q)
             h == In(d)
  <2>1. IsFiniteSet(spans)  BY RegexSpansFinite, Zenon
  <2>2. \A s \in spans : IsFiniteSet(h[s])  BY <1>2, Zenon
  <2>3. Union(f[d], h, spans)  BY <2>2, Zenon DEF Union
  <2> HIDE DEF h, spans, f
  <2> QED BY <2>1, <2>3, UnionFinite, Zenon
<1>4. Union(RegexFound(index, q), f, docs)
  <2> DEFINE Around(d) == UNION {RegexMatch(tokens, d, q.lang, s) : s \in RegexSpans(tokens, d, q)}
  <2>1. docs = {tokens[g].word.doc : g \in DOMAIN tokens}  BY Zenon
  <2>2. \A d \in docs : f[d] = Around(d)  BY Zenon
  <2>3. RegexFound(index, q) = UNION {Around(d) : d \in docs}  BY <2>1, Zenon DEF RegexFound
  <2> HIDE DEF docs, f, Around
  <2>4. {Around(d) : d \in docs} = {f[d] : d \in docs}  BY <2>2
  <2> QED BY <1>3, <2>3, <2>4, Zenon DEF Union
<1> HIDE DEF f, docs
<1> QED BY <1>1, <1>4, UnionFinite, Zenon

\* The matches of a query, sampled or not, and the engine that sorts them.
InMemory(q) == q.mode = "full_regex" \/ (q.mode = "simple" /\ (q.list # <<>> \/ q.near # <<>>))

Found(index, q) ==
    CASE q.mode = "cqp" -> PlanMatches(index.tokens, q.lang, ParseQuery(q.items), q.tag)
      [] q.mode = "full_regex" -> RegexFound(index, q)
      [] q.mode = "simple" /\ (q.list # <<>> \/ q.near # <<>>) -> AdvancedMatches(index, q, Queries(q))
      [] OTHER -> Matches(index.tokens, q.lang, ResolvedTerms(index.tokens, q, q.terms), q.tag)

\* Whichever engine answers, the matches of a search are finitely many.
LEMMA FoundFinite ==
    ASSUME NEW index, Tokens(index.tokens), NEW q, NEW X, q.list \in Seq(X)
    PROVE  IsFiniteSet(Found(index, q))
<1>1. IsFiniteSet(Queries(q))
  <2>1. IsFiniteSet(ToSet(q.list))  BY ElementsFinite, Zenon
  <2>2. IsFiniteSet({q.terms})  BY FS_Singleton, Zenon
  <2>3. IsFiniteSet({q.terms} \cup ToSet(q.list))  BY <2>1, <2>2, FS_Union, Zenon
  <2> QED BY <2>3, FS_Difference, Zenon DEF Queries
<1>2. CASE q.mode = "cqp"  BY <1>2, PlanMatchesFinite DEF Found
<1>3. CASE q.mode = "full_regex"  BY <1>3, RegexFoundFinite DEF Found
<1>4. CASE q.mode = "simple" /\ (q.list # <<>> \/ q.near # <<>>)
  BY <1>1, <1>4, AdvancedMatchesFinite DEF Found
<1>5. CASE q.mode # "cqp" /\ q.mode # "full_regex" /\ ~ (q.mode = "simple" /\ (q.list # <<>> \/ q.near # <<>>))
  BY <1>5, MatchesFinite DEF Found
<1> QED BY <1>2, <1>3, <1>4, <1>5

-----------------------------------------------------------------------------
(* What a page shows *)

\* A page of a concordance shows some matches, in this order.
Displays(answer, shown, total, page, pages) ==
    /\ ~IsError(answer) /\ {"hits", "total", "page", "pages"} \subseteq DOMAIN answer
    /\ answer.total = total /\ answer.page = page /\ answer.pages = pages
    /\ answer.hits = [i \in DOMAIN shown |-> answer.hits[i]]
    /\ \A i \in DOMAIN shown : LET hit == answer.hits[i] IN
            {"row", "length"} \subseteq DOMAIN hit /\ hit.row = shown[i].row /\ hit.length = shown[i].length

\* What the four searches share answers with one hit for every match it is given (_build_hit), in the same order.
LEMMA PageAnswerDisplays ==
    ASSUME NEW tokens, NEW q, NEW keys, NEW shown, NEW total, NEW available, NEW counted,
           NEW size, size = IF q.sample > 0 THEN Higher(1, total) ELSE q.size
    PROVE  Displays(PageAnswer(tokens, q, keys, shown, total, available, counted), shown, total,
                    IF q.sample > 0 THEN 1 ELSE EffectivePage(q.page, NumPages(total, size)), NumPages(total, size))
<1> DEFINE loaded == Context(tokens, ToSet(shown), LoadedRadius(q))
           counting == Context(tokens, counted, 5)
           snippets == Snippets(tokens, shown, q.context)
           patterns == {[match |-> m, values |-> HitPattern(tokens, counting, m, keys)] : m \in counted}
           Alike(m) == LET values == HitPattern(tokens, loaded, m, keys) IN
                       Cardinality({p \in patterns : p.values = values})
           hits == [i \in DOMAIN shown |-> BuildHit(tokens, loaded, shown[i], snippets, Alike(shown[i]))]
           page == IF q.sample > 0 THEN 1 ELSE EffectivePage(q.page, NumPages(total, size))
           pages == NumPages(total, size)
           answer == PageAnswer(tokens, q, keys, shown, total, available, counted)
<1>1. answer = [hits |-> hits, total |-> total, available |-> available, page |-> page, pages |-> pages]
  BY Zenon DEF PageAnswer
<1>2. \A i \in DOMAIN shown :
          {"row", "length"} \subseteq DOMAIN hits[i] /\ hits[i].row = shown[i].row /\ hits[i].length = shown[i].length
  <2> TAKE i \in DOMAIN shown
  <2>1. hits[i] = BuildHit(tokens, loaded, shown[i], snippets, Alike(shown[i]))  BY Zenon
  <2> HIDE DEF hits, loaded, snippets, Alike
  <2> QED BY <2>1 DEF BuildHit
<1>3. hits = [i \in DOMAIN shown |-> hits[i]]
  <2> DEFINE Hit(i) == BuildHit(tokens, loaded, shown[i], snippets, Alike(shown[i]))
  <2>1. hits = [i \in DOMAIN shown |-> Hit(i)]  BY Zenon
  <2> HIDE DEF hits, Hit
  <2> QED BY <2>1, Zenon
<1> HIDE DEF hits, page, pages, answer
<1>4. /\ answer.hits = hits /\ answer.total = total /\ answer.page = page /\ answer.pages = pages
      /\ "error" \notin DOMAIN answer /\ {"hits", "total", "page", "pages"} \subseteq DOMAIN answer
  BY <1>1
<1>5. Displays(answer, shown, total, page, pages)  BY <1>2, <1>3, <1>4, Zenon DEF Displays, IsError
<1> QED BY <1>5 DEF answer, page, pages

\* Hits of which the pattern count is filled in still show the same matches.
LEMMA DisplaysUncounted ==
    ASSUME NEW answer, NEW shown, NEW total, NEW page, NEW pages, Displays(answer, shown, total, page, pages)
    PROVE  Displays([answer EXCEPT !.hits = [i \in DOMAIN shown |-> [answer.hits[i] EXCEPT !.kpf = 1]]],
                    shown, total, page, pages)
<1> DEFINE hits == [i \in DOMAIN shown |-> [answer.hits[i] EXCEPT !.kpf = 1]]
           new == [answer EXCEPT !.hits = hits]
<1>1. \A i \in DOMAIN shown :
          {"row", "length"} \subseteq DOMAIN hits[i] /\ hits[i].row = shown[i].row /\ hits[i].length = shown[i].length
  <2> TAKE i \in DOMAIN shown
  <2>1. hits[i] = [answer.hits[i] EXCEPT !.kpf = 1]  BY Zenon
  <2>2. {"row", "length"} \subseteq DOMAIN answer.hits[i] /\ answer.hits[i].row = shown[i].row
        /\ answer.hits[i].length = shown[i].length
    BY DEF Displays
  <2> HIDE DEF hits
  <2> QED BY <2>1, <2>2
<1>2. hits = [i \in DOMAIN shown |-> hits[i]]
  <2> DEFINE Hit(i) == [answer.hits[i] EXCEPT !.kpf = 1]
  <2>1. hits = [i \in DOMAIN shown |-> Hit(i)]  BY Zenon
  <2> HIDE DEF hits, Hit
  <2> QED BY <2>1, Zenon
<1> HIDE DEF hits
<1>3. /\ new.hits = hits /\ new.total = answer.total /\ new.page = answer.page /\ new.pages = answer.pages
      /\ DOMAIN new = DOMAIN answer
  BY DEF Displays
<1> HIDE DEF new
<1>4. Displays(new, shown, total, page, pages)  BY <1>1, <1>2, <1>3, Zenon DEF Displays, IsError
<1> QED BY <1>4 DEF new, hits

\* Sorting neither drops nor repeats a match.
LEMMA SortedIsSequence ==
    ASSUME NEW tokens, NEW matches, IsFiniteSet(matches), NEW loaded, NEW keys, NEW order, NEW inSql
    PROVE  \E X : /\ Sorted(tokens, matches, loaded, keys, order, inSql) \in Seq(X)
                  /\ Len(Sorted(tokens, matches, loaded, keys, order, inSql)) = Cardinality(matches)
<1> DEFINE Values(m) == SortValues(tokens, loaded, m, keys, inSql)
           Group(m) == CountedValues(tokens, loaded, m, keys, inSql)
           Same(m) == Cardinality({n \in matches : Group(n) = Group(m)})
           Count(m) == IF order = "frequency" /\ keys # <<>> THEN Same(m) ELSE 0
           f == [m \in matches |-> [match |-> m, values |-> Values(m), count |-> Count(m)]]
           counted == {f[m] : m \in matches}
           Less(d, e) ==
              \/ d.count > e.count
              \/ d.count = e.count /\ ValuesLess(d.values, e.values)
              \/ d.count = e.count /\ d.values = e.values /\ SeqLess(Place(d.match), Place(e.match))
           ordered == InOrder(counted, Less)
           s == Sorted(tokens, matches, loaded, keys, order, inSql)
           n == Cardinality(matches)
           X == {s[i] : i \in 1..n}
<1>1. s = [i \in DOMAIN ordered |-> ordered[i].match]
  <2>1. counted = {[match |-> m, values |-> Values(m), count |-> IF order = "frequency" /\ keys # <<>> THEN Same(m) ELSE 0] : m \in matches}
    BY Zenon
  <2> HIDE DEF counted, f, Values, Group, Same
  <2> QED BY <2>1, Zenon DEF Sorted, Values, Group, Same
<1>2. DOMAIN ordered = 1..Cardinality(counted)  BY Zenon DEF InOrder
<1>3. IsFiniteSet(counted) /\ Cardinality(counted) = n
  <2>1. f \in Bijection(matches, counted)
    <3>1. \A m \in matches : f[m].match = m  OBVIOUS
    <3>2. f \in [matches -> counted] /\ \A c \in counted : \E m \in matches : f[m] = c  BY Zenon
    <3> HIDE DEF f, counted
    <3>3. IsInjective(f)  BY <3>1, <3>2 DEF IsInjective
    <3> QED BY <3>2, <3>3, Zenon DEF Bijection, Injection, Surjection
  <2> HIDE DEF f, counted
  <2>2. ExistsBijection(matches, counted)  BY <2>1, Zenon DEF ExistsBijection
  <2> QED BY <2>2, FS_Bijection, Zenon
<1>4. n \in Nat  BY FS_CardinalityType, Zenon
<1>5. s \in [1..n -> X]
  <2> HIDE DEF ordered, s, n
  <2> QED BY <1>1, <1>2, <1>3, Zenon
<1> HIDE DEF s, X, n
<1>6. s \in Seq(X) /\ Len(s) = n  BY <1>4, <1>5, LenOfFunction
<1> QED BY <1>6, Zenon DEF s, n

-----------------------------------------------------------------------------
(* Pages of one search *)

\* Two queries that differ in the page, its size and the sample only.
SameSearch(q, s) ==
    /\ q.mode = s.mode /\ q.terms = s.terms /\ q.items = s.items /\ q.context = s.context /\ q.tag = s.tag
    /\ q.sort = s.sort /\ q.order = s.order /\ q.whole = s.whole /\ q.case = s.case /\ q.prefix = s.prefix
    /\ q.list = s.list /\ q.near = s.near /\ q.logic = s.logic /\ q.exclude = s.exclude
    /\ q.windowFrom = s.windowFrom /\ q.windowTo = s.windowTo /\ q.lang = s.lang

\* The compiled terms do not depend on page, size and sample.
LEMMA SameCompiled ==
    ASSUME NEW q, NEW s, SameSearch(q, s), NEW terms
    PROVE  CompileQuery(terms, q) = CompileQuery(terms, s)
<1>1. q.whole = s.whole /\ q.case = s.case  BY DEF SameSearch
<1>2. \A t : Matcher(t, q) = Matcher(t, s)  BY <1>1, Zenon DEF Matcher
<1> DEFINE parts == Segmented(terms)
           f == [i \in DOMAIN parts |-> Matcher(parts[i], q)]
           g == [i \in DOMAIN parts |-> Matcher(parts[i], s)]
<1>3. f = g
  <2>1. \A i \in DOMAIN parts : Matcher(parts[i], q) = Matcher(parts[i], s)  BY <1>2, Zenon
  <2> HIDE DEF parts
  <2> QED BY <2>1
<1>4. CompileQuery(terms, q) = (IF Len(parts) > MaxQueryTerms THEN <<>> ELSE f)  BY Zenon DEF CompileQuery
<1>5. CompileQuery(terms, s) = (IF Len(parts) > MaxQueryTerms THEN <<>> ELSE g)  BY Zenon DEF CompileQuery
<1> HIDE DEF f, g, parts
<1> QED BY <1>3, <1>4, <1>5

\* Nor does the decision whether a Chinese query is split.
LEMMA SameResolved ==
    ASSUME NEW q, NEW s, SameSearch(q, s), NEW tokens, NEW terms
    PROVE  ResolvedTerms(tokens, q, terms) = ResolvedTerms(tokens, s, terms)
<1>1. q.whole = s.whole /\ q.case = s.case /\ q.lang = s.lang /\ q.tag = s.tag  BY DEF SameSearch
<1>2. Matcher(terms[1], q) = Matcher(terms[1], s)  BY <1>1, Zenon DEF Matcher
<1>3. CompileQuery(terms, q) = CompileQuery(terms, s)  BY SameCompiled, Zenon
<1> QED BY <1>1, <1>2, <1>3 DEF ResolvedTerms

\* Nor do the spans of a regular expression.
LEMMA SameSpans ==
    ASSUME NEW q, NEW s, SameSearch(q, s), NEW tokens, NEW doc
    PROVE  RegexSpans(tokens, doc, q) = RegexSpans(tokens, doc, s)
<1>1. q.terms = s.terms /\ q.case = s.case /\ q.lang = s.lang /\ q.prefix = s.prefix  BY DEF SameSearch
<1> QED BY <1>1 DEF RegexSpans

\* Nor do the context words of a match.
LEMMA SameNear ==
    ASSUME NEW q, NEW s, SameSearch(q, s), NEW tokens, NEW loaded, NEW m
    PROVE  NearMatch(tokens, loaded, m, q) = NearMatch(tokens, loaded, m, s)
<1>1. /\ q.near = s.near /\ q.whole = s.whole /\ q.case = s.case /\ q.logic = s.logic /\ q.exclude = s.exclude
      /\ q.windowFrom = s.windowFrom /\ q.windowTo = s.windowTo
  BY DEF SameSearch
<1>2. \A t : CompileQuery(t, q) = CompileQuery(t, s)  BY SameCompiled, Zenon
<1> QED BY <1>1, <1>2 DEF NearMatch

\* Nor does the check of the context words.
LEMMA SameNearWords ==
    ASSUME NEW q, NEW s, SameSearch(q, s)
    PROVE  NearWords(q) = NearWords(s)
<1>1. q.near = s.near  BY DEF SameSearch
<1>2. \A t : CompileQuery(t, q) = CompileQuery(t, s)  BY SameCompiled, Zenon
<1> QED BY <1>1, <1>2 DEF NearWords

\* The pages of a search are cut from the same matches.
LEMMA SameFound ==
    ASSUME NEW q, NEW s, SameSearch(q, s), NEW index
    PROVE  Found(index, q) = Found(index, s) /\ Queries(q) = Queries(s)
<1> DEFINE tokens == index.tokens
<1>1. /\ q.mode = s.mode /\ q.lang = s.lang /\ q.tag = s.tag /\ q.near = s.near /\ q.list = s.list /\ q.terms = s.terms
      /\ q.windowFrom = s.windowFrom /\ q.windowTo = s.windowTo /\ q.items = s.items
  BY DEF SameSearch
<1>2. Queries(q) = Queries(s)  BY <1>1, Zenon DEF Queries
<1>3. \A t : ResolvedTerms(tokens, q, t) = ResolvedTerms(tokens, s, t)  BY SameResolved
<1>4. AdvancedMatches(index, q, Queries(q)) = AdvancedMatches(index, s, Queries(s))
  <2> DEFINE F(p) == UNION {Matches(tokens, p.lang, ResolvedTerms(tokens, p, t), p.tag) : t \in Queries(q)}
             loaded == Context(tokens, F(q), Higher(Higher(0 - q.windowFrom, q.windowTo), 1))
  <2>1. F(q) = F(s)
    <3>1. \A t : Matches(tokens, q.lang, ResolvedTerms(tokens, q, t), q.tag) = Matches(tokens, s.lang, ResolvedTerms(tokens, s, t), s.tag)
      BY <1>1, <1>3, Zenon
    <3> QED BY <3>1, Zenon
  <2>2. \A m : NearMatch(tokens, loaded, m, q) = NearMatch(tokens, loaded, m, s)  BY SameNear, Zenon
  <2>3. AdvancedMatches(index, q, Queries(q)) =
          IF q.near = <<>> THEN F(q) ELSE {m \in F(q) : NearMatch(tokens, loaded, m, q)}
    BY Zenon DEF AdvancedMatches
  <2>4. AdvancedMatches(index, s, Queries(s)) =
          IF q.near = <<>> THEN F(s) ELSE {m \in F(s) : NearMatch(tokens, Context(tokens, F(s), Higher(Higher(0 - q.windowFrom, q.windowTo), 1)), m, s)}
    BY <1>1, <1>2, Zenon DEF AdvancedMatches
  <2> HIDE DEF F
  <2>5. AdvancedMatches(index, s, Queries(s)) =
          IF q.near = <<>> THEN F(q) ELSE {m \in F(q) : NearMatch(tokens, loaded, m, s)}
    BY <2>1, <2>4, Zenon
  <2>6. {m \in F(q) : NearMatch(tokens, loaded, m, q)} = {m \in F(q) : NearMatch(tokens, loaded, m, s)}
    <3> HIDE DEF loaded
    <3> QED BY <2>2
  <2> DEFINE A == {m \in F(q) : NearMatch(tokens, loaded, m, q)}
             B == {m \in F(q) : NearMatch(tokens, loaded, m, s)}
  <2>7. /\ AdvancedMatches(index, q, Queries(q)) = IF q.near = <<>> THEN F(q) ELSE A
        /\ AdvancedMatches(index, s, Queries(s)) = IF q.near = <<>> THEN F(q) ELSE B
        /\ A = B
    BY <2>3, <2>5, <2>6, Zenon
  <2> HIDE DEF A, B
  <2> QED BY <2>7
<1>5. RegexFound(index, q) = RegexFound(index, s)
  <2>1. \A d : RegexSpans(tokens, d, q) = RegexSpans(tokens, d, s)  BY SameSpans, Zenon
  <2> DEFINE In(d, p) == UNION {RegexMatch(tokens, d, p.lang, r) : r \in RegexSpans(tokens, d, p)}
             docs == {tokens[g].word.doc : g \in DOMAIN tokens}
  <2>2. \A d : In(d, q) = In(d, s)
    <3> TAKE d
    <3> DEFINE U(lang, spans) == UNION {RegexMatch(tokens, d, lang, r) : r \in spans}
    <3>1. In(d, q) = U(q.lang, RegexSpans(tokens, d, q))  BY Zenon
    <3>2. In(d, s) = U(s.lang, RegexSpans(tokens, d, s))  BY Zenon
    <3>3. q.lang = s.lang /\ RegexSpans(tokens, d, q) = RegexSpans(tokens, d, s)  BY <1>1, <2>1, Zenon
    <3> HIDE DEF In, U
    <3> QED BY <3>1, <3>2, <3>3, Zenon
  <2>3. \A p : RegexFound(index, p) = UNION {In(d, p) : d \in docs}  BY Zenon DEF RegexFound
  <2> HIDE DEF In, docs
  <2>4. {In(d, q) : d \in docs} = {In(d, s) : d \in docs}  BY <2>2
  <2> QED BY <2>3, <2>4, Zenon
<1>6. ResolvedTerms(tokens, q, q.terms) = ResolvedTerms(tokens, s, s.terms)  BY <1>1, <1>3, Zenon
<1>7. /\ PlanMatches(tokens, q.lang, ParseQuery(q.items), q.tag) = PlanMatches(tokens, s.lang, ParseQuery(s.items), s.tag)
      /\ Matches(tokens, q.lang, ResolvedTerms(tokens, q, q.terms), q.tag) =
          Matches(tokens, s.lang, ResolvedTerms(tokens, s, s.terms), s.tag)
  BY <1>1, <1>6, Zenon
<1> DEFINE A(p) == PlanMatches(tokens, p.lang, ParseQuery(p.items), p.tag)
           B(p) == RegexFound(index, p)
           C(p) == AdvancedMatches(index, p, Queries(p))
           D(p) == Matches(tokens, p.lang, ResolvedTerms(tokens, p, p.terms), p.tag)
<1>8. \A p : Found(index, p) = CASE p.mode = "cqp" -> A(p)
                                 [] p.mode = "full_regex" -> B(p)
                                 [] p.mode = "simple" /\ (p.list # <<>> \/ p.near # <<>>) -> C(p)
                                 [] OTHER -> D(p)
  BY Zenon DEF Found
<1>9. A(q) = A(s) /\ B(q) = B(s) /\ C(q) = C(s) /\ D(q) = D(s)  BY <1>4, <1>5, <1>7, Zenon
<1> HIDE DEF A, B, C, D
<1>10. Found(index, q) = Found(index, s)  BY <1>1, <1>8, <1>9, Zenon
<1> QED BY <1>2, <1>10, Zenon

\* The matches of a query in the order in which they are shown.
SearchOrder(index, q) ==
    Sorted(index.tokens, Found(index, q),
           IF InMemory(q) THEN Context(index.tokens, Found(index, q), 5) ELSE DOMAIN index.tokens,
           NormalizeSortKeys(q.sort), q.order, ~InMemory(q))

\* Queries without a term, with too many, with an empty window, or with a
\* context word that is not one word.
Unsound(q) ==
    CASE q.mode = "cqp" -> ParseQuery(q.items) = <<>>
      [] q.mode = "full_regex" -> q.terms = <<>>
      [] q.mode = "simple" /\ (q.list # <<>> \/ q.near # <<>>) ->
            Queries(q) = {} \/ q.windowFrom > q.windowTo \/ ~NearWords(q) \/ \E t \in Queries(q) : CompileQuery(t, q) = <<>>
      [] OTHER -> CompileQuery(q.terms, q) = <<>>

\* They are cut from the same order, and fail for the same queries.
LEMMA SameOrdering ==
    ASSUME NEW q, NEW s, SameSearch(q, s), NEW index
    PROVE  SearchOrder(index, q) = SearchOrder(index, s) /\ Unsound(q) = Unsound(s)
<1>1. /\ q.mode = s.mode /\ q.near = s.near /\ q.list = s.list /\ q.terms = s.terms /\ q.sort = s.sort /\ q.order = s.order
      /\ q.windowFrom = s.windowFrom /\ q.windowTo = s.windowTo /\ q.items = s.items
  BY DEF SameSearch
<1>2. Found(index, q) = Found(index, s) /\ Queries(q) = Queries(s)  BY SameFound, Zenon
<1>3. \A t : CompileQuery(t, q) = CompileQuery(t, s)  BY SameCompiled, Zenon
<1>4. InMemory(q) = InMemory(s)  BY <1>1 DEF InMemory
<1>5. SearchOrder(index, q) = SearchOrder(index, s)  BY <1>1, <1>2, <1>4, Zenon DEF SearchOrder
<1>6. Unsound(q) = Unsound(s)
  <2>1. NearWords(q) = NearWords(s)  BY SameNearWords, Zenon
  <2> QED BY <1>1, <1>2, <1>3, <2>1 DEF Unsound
<1> QED BY <1>5, <1>6, Zenon

-----------------------------------------------------------------------------
(* The matches in order *)

\* A function on the first numbers is a sequence, whatever its values.
LEMMA FunctionIsSequence ==
    ASSUME NEW s, NEW n \in Nat, s = [i \in 1..n |-> s[i]]
    PROVE  \E X : s \in Seq(X) /\ Len(s) = n
<1> DEFINE X == {s[i] : i \in 1..n}
<1>1. s \in [1..n -> X]  BY Zenon
<1> HIDE DEF X
<1>2. s \in Seq(X) /\ Len(s) = n  BY <1>1, LenOfFunction
<1> QED BY <1>2, Zenon

\* The pseudo-random order of the matches is a sequence of them.
LEMMA SampleOrderIsSequence ==
    ASSUME NEW matches, IsFiniteSet(matches), NEW q
    PROVE  \E X : SampleOrder(matches, q) \in Seq(X) /\ Len(SampleOrder(matches, q)) = Cardinality(matches)
<1> DEFINE s == SampleOrder(matches, q)
           n == Cardinality(matches)
<1>1. n \in Nat  BY FS_CardinalityType, Zenon
<1> DEFINE Before(x, y) == SeqLess(<<SampleHash(x.row, q.seed)>> \o Place(x), <<SampleHash(y.row, q.seed)>> \o Place(y))
           places == {[at |-> Cardinality({y \in matches : Before(y, x)}), element |-> x] : x \in matches}
           Element(i) == (CHOOSE p \in places : p.at = i - 1).element
<1>2. s = [i \in 1..n |-> s[i]]
  <2>1. s = [i \in 1..n |-> Element(i)]  BY Zenon DEF SampleOrder, InOrder
  <2> HIDE DEF s, Element
  <2> QED BY <2>1, Zenon
<1> HIDE DEF s, n
<1>3. \E X : s \in Seq(X) /\ Len(s) = n  BY <1>1, <1>2, FunctionIsSequence, Zenon
<1> QED BY <1>3, Zenon DEF s, n

\* A sample is a finite set of matches.
LEMMA SampleFinite ==
    ASSUME NEW matches, IsFiniteSet(matches), NEW q, q.sample \in Nat
    PROVE  IsFiniteSet(Sample(matches, q))
<1> DEFINE k == Lower(q.sample, Cardinality(matches))
<1>1. PICK X : SampleOrder(matches, q) \in Seq(X) /\ Len(SampleOrder(matches, q)) = Cardinality(matches)
  BY SampleOrderIsSequence, Zenon
<1>2. k \in Nat /\ k <= Cardinality(matches)
  <2>1. Cardinality(matches) \in Nat  BY FS_CardinalityType, Zenon
  <2> QED BY <2>1 DEF Lower
<1> HIDE DEF k
<1> DEFINE part == SubSeq(SampleOrder(matches, q), 1, k)
<1>3. part \in Seq(X)  BY <1>1, <1>2, SubSeqProperties
<1>4. Sample(matches, q) = ToSet(part)  BY Zenon DEF Sample, k
<1> HIDE DEF part
<1> QED BY <1>3, <1>4, ElementsFinite, Zenon

\* A query of the concordance, as its form leaves it.
KwicQuery(q) ==
    /\ KwicFields \subseteq DOMAIN q
    /\ q.page \in Int /\ q.size \in Int /\ q.sample \in Int /\ q.seed \in Int
    /\ q.context \in Int /\ q.windowFrom \in Int /\ q.windowTo \in Int
    /\ SoundLists(q)

\* The matches in order are a sequence with as many places as there are matches.
LEMMA SearchOrderIsSequence ==
    ASSUME NEW index, Tokens(index.tokens), NEW q, KwicQuery(q)
    PROVE  /\ \E X : SearchOrder(index, q) \in Seq(X)
           /\ Len(SearchOrder(index, q)) = Cardinality(Found(index, q))
           /\ Cardinality(Found(index, q)) \in Nat
<1>1. IsFiniteSet(Found(index, q))  BY FoundFinite, Zenon DEF KwicQuery, SoundLists, IsList
<1>2. \E X : SearchOrder(index, q) \in Seq(X) /\ Len(SearchOrder(index, q)) = Cardinality(Found(index, q))
  <2> DEFINE loaded == IF InMemory(q) THEN Context(index.tokens, Found(index, q), 5) ELSE DOMAIN index.tokens
             keys == NormalizeSortKeys(q.sort)
             found == Found(index, q)
             inSql == ~InMemory(q)
  <2>1. SearchOrder(index, q) = Sorted(index.tokens, found, loaded, keys, q.order, inSql)
    BY Zenon DEF SearchOrder
  <2> HIDE DEF loaded, keys, inSql, found
  <2>2. IsFiniteSet(found)  BY <1>1, Zenon DEF found
  <2>3. \E X : /\ Sorted(index.tokens, found, loaded, keys, q.order, inSql) \in Seq(X)
               /\ Len(Sorted(index.tokens, found, loaded, keys, q.order, inSql)) = Cardinality(found)
    BY <2>2, SortedIsSequence, Zenon
  <2> QED BY <2>1, <2>3, Zenon DEF found
<1> QED BY <1>1, <1>2, FS_CardinalityType, Zenon

\* A sample of the matches, in the order in which it is shown.
SampledOrder(index, q) ==
    LET sampled == Sample(Found(index, q), q)
        keys == NormalizeSortKeys(q.sort)
    IN  IF ~InMemory(q) /\ keys = <<>> THEN SampleOrder(sampled, q)
        ELSE Sorted(index.tokens, sampled, Context(index.tokens, sampled, 5), keys, q.order, FALSE)

\* What each search does with a query that it does not refuse.
Answers(index, q, answer) ==
    \/ /\ q.sample = 0 \/ q.mode = "cqp"
       /\ Displays(answer, PageOf(SearchOrder(index, q), q.page, q.size), Len(SearchOrder(index, q)),
                   EffectivePage(q.page, NumPages(Len(SearchOrder(index, q)), q.size)),
                   NumPages(Len(SearchOrder(index, q)), q.size))
    \/ /\ q.sample > 0 /\ q.mode # "cqp"
       /\ \E X : SampledOrder(index, q) \in Seq(X)
       /\ Displays(answer, SampledOrder(index, q), Len(SampledOrder(index, q)), 1,
                   NumPages(Len(SampledOrder(index, q)), Higher(1, Len(SampledOrder(index, q)))))

\* The simple search (KwicSearchEngine.search) refuses or shows a page of the matches in order.
LEMMA SimpleAnswers ==
    ASSUME NEW index, Tokens(index.tokens), NEW q, KwicQuery(q), ~InMemory(q), q.mode # "cqp"
    PROVE  /\ ~ValidOptions(q) \/ Unsound(q) => SearchSimple(index, q) = QueryError
           /\ ValidOptions(q) /\ ~Unsound(q) => Answers(index, q, SearchSimple(index, q))
<1> DEFINE tokens == index.tokens
           matchers == CompileQuery(q.terms, q)
           keys == NormalizeSortKeys(q.sort)
           found == Matches(tokens, q.lang, ResolvedTerms(tokens, q, q.terms), q.tag)
           sampled == Sample(found, q)
           ordered == Sorted(tokens, found, DOMAIN tokens, keys, q.order, TRUE)
           random == SampleOrder(sampled, q)
           sorted == Sorted(tokens, sampled, Context(tokens, sampled, 5), keys, q.order, FALSE)
           shown == IF q.sample = 0 THEN PageOf(ordered, q.page, q.size) ELSE IF keys = <<>> THEN random ELSE sorted
           total == IF q.sample > 0 THEN Len(shown) ELSE Cardinality(found)
           answer == PageAnswer(tokens, q, keys, shown, total, Cardinality(found),
                                IF keys # <<>> /\ q.sample = 0 THEN found ELSE ToSet(shown))
<1>1. SearchSimple(index, q) = IF ~ValidOptions(q) \/ matchers = <<>> THEN QueryError ELSE answer
  BY Zenon DEF SearchSimple
<1>2. Unsound(q) <=> matchers = <<>>  BY Zenon DEF Unsound, InMemory
<1>3. Found(index, q) = found  BY Zenon DEF Found, InMemory
<1>4. SearchOrder(index, q) = ordered  BY <1>3, Zenon DEF SearchOrder
<1>4a. SampledOrder(index, q) = IF keys = <<>> THEN random ELSE sorted
  <2> DEFINE S(matches) == Sample(matches, q)
             T(matches) == IF keys = <<>> THEN SampleOrder(matches, q)
                           ELSE Sorted(tokens, matches, Context(tokens, matches, 5), keys, q.order, FALSE)
  <2>1. SampledOrder(index, q) = T(S(Found(index, q)))  BY Zenon DEF SampledOrder
  <2>2. T(S(found)) = IF keys = <<>> THEN random ELSE sorted  BY Zenon
  <2> HIDE DEF S, T
  <2> QED BY <1>3, <2>1, <2>2
<1>5. IsFiniteSet(found)  BY MatchesFinite, Zenon
<1> HIDE DEF answer, shown, total, keys, matchers, ordered, random, sorted, sampled
<1>6. ASSUME ValidOptions(q) PROVE Answers(index, q, answer)
  <2>1. q.sample \in Nat /\ q.sample >= 0  BY <1>6 DEF ValidOptions, KwicQuery
  <2> DEFINE size == IF q.sample > 0 THEN Higher(1, total) ELSE q.size
  <2>2. Displays(answer, shown, total,
                 IF q.sample > 0 THEN 1 ELSE EffectivePage(q.page, NumPages(total, size)), NumPages(total, size))
    <3>1. Displays(PageAnswer(tokens, q, keys, shown, total, Cardinality(found), IF keys # <<>> /\ q.sample = 0 THEN found ELSE ToSet(shown)), shown, total,
                 IF q.sample > 0 THEN 1 ELSE EffectivePage(q.page, NumPages(total, size)), NumPages(total, size))
      BY PageAnswerDisplays, Zenon
    <3> QED BY <3>1, Zenon DEF answer
  <2>3. CASE q.sample = 0
    <3>1. shown = PageOf(ordered, q.page, q.size) /\ total = Cardinality(found) /\ size = q.size
      BY <2>3 DEF shown, total
    <3>2. Len(ordered) = Cardinality(found)  BY <1>3, <1>4, SearchOrderIsSequence, Zenon
    <3> HIDE DEF size
    <3>3. Displays(answer, PageOf(ordered, q.page, q.size), Len(ordered),
                   EffectivePage(q.page, NumPages(Len(ordered), q.size)), NumPages(Len(ordered), q.size))
      BY <2>2, <2>3, <3>1, <3>2
    <3> QED BY <1>4, <2>3, <3>3, Zenon DEF Answers
  <2>4. CASE q.sample > 0
    <3>1. total = Len(shown) /\ size = Higher(1, Len(shown)) /\ shown = IF keys = <<>> THEN random ELSE sorted
      BY <2>4 DEF shown, total
    <3>2. IsFiniteSet(sampled)  BY <1>5, <2>1, SampleFinite, Zenon DEF sampled
    <3>3. /\ \E X : random \in Seq(X)
          /\ \E X : sorted \in Seq(X)
      BY <3>2, SampleOrderIsSequence, SortedIsSequence, Zenon DEF random, sorted
    <3>4. PICK X : shown \in Seq(X)  BY <3>1, <3>3, Zenon
    <3> HIDE DEF size
    <3>5. Displays(answer, shown, Len(shown), 1, NumPages(Len(shown), Higher(1, Len(shown))))
      BY <2>2, <2>4, <3>1
    <3>6. SampledOrder(index, q) = shown  BY <1>4a, <3>1, Zenon
    <3> QED BY <2>4, <3>4, <3>5, <3>6, Zenon DEF Answers
  <2> QED BY <2>1, <2>3, <2>4
<1> QED BY <1>1, <1>2, <1>6, Zenon

-----------------------------------------------------------------------------
(* The engines *)

\* The CQP search refuses or shows a page of the matches in order.
LEMMA ComplexAnswers ==
    ASSUME NEW index, Tokens(index.tokens), NEW q, KwicQuery(q), q.mode = "cqp"
    PROVE  /\ ~ValidOptions(q) \/ Unsound(q) => SearchComplex(index, q) = QueryError
           /\ ValidOptions(q) /\ ~Unsound(q) => Answers(index, q, SearchComplex(index, q))
<1> DEFINE tokens == index.tokens
           plan == ParseQuery(q.items)
           keys == NormalizeSortKeys(q.sort)
           found == PlanMatches(tokens, q.lang, plan, q.tag)
           ordered == Sorted(tokens, found, DOMAIN tokens, keys, q.order, TRUE)
           shown == PageOf(ordered, q.page, q.size)
           whole == [q EXCEPT !.sample = 0]
           total == Cardinality(found)
           answer == PageAnswer(tokens, whole, keys, shown, total, 0, {})
           uncounted == [answer EXCEPT !.hits = [i \in DOMAIN shown |-> [answer.hits[i] EXCEPT !.kpf = 1]]]
<1>1. SearchComplex(index, q) = IF ~ValidOptions(q) \/ plan = <<>> THEN QueryError ELSE uncounted
  BY Zenon DEF SearchComplex
<1>2. Unsound(q) <=> plan = <<>>  BY Zenon DEF Unsound
<1>3. Found(index, q) = found  BY Zenon DEF Found
<1>4. SearchOrder(index, q) = ordered
  <2>1. ~InMemory(q)  BY DEF InMemory
  <2> QED BY <1>3, <2>1, Zenon DEF SearchOrder
<1>5. Len(ordered) = total  BY <1>3, <1>4, SearchOrderIsSequence, Zenon
<1>6. whole.sample = 0 /\ whole.page = q.page /\ whole.size = q.size  BY DEF KwicQuery, KwicFields
<1> HIDE DEF shown, total, keys, plan, ordered, whole
<1>7. Displays(answer, shown, total, EffectivePage(q.page, NumPages(total, q.size)), NumPages(total, q.size))
  <2> DEFINE size == IF whole.sample > 0 THEN Higher(1, total) ELSE whole.size
  <2>1. Displays(answer, shown, total,
                 IF whole.sample > 0 THEN 1 ELSE EffectivePage(whole.page, NumPages(total, size)), NumPages(total, size))
    BY PageAnswerDisplays, Zenon
  <2>2. size = q.size  BY <1>6
  <2> HIDE DEF size, answer
  <2> QED BY <1>6, <2>1, <2>2
<1> HIDE DEF answer
<1>8. Displays(uncounted, shown, total, EffectivePage(q.page, NumPages(total, q.size)), NumPages(total, q.size))
  BY <1>7, DisplaysUncounted, Zenon
<1> HIDE DEF uncounted
<1>9. Answers(index, q, uncounted)  BY <1>4, <1>5, <1>8, Zenon DEF Answers, shown
<1> QED BY <1>1, <1>2, <1>9, Zenon

\* So does what the searches in memory share.
LEMMA InMemoryAnswers ==
    ASSUME NEW index, Tokens(index.tokens), NEW q, KwicQuery(q), InMemory(q), ValidOptions(q),
           NEW found, Found(index, q) = found
    PROVE  Answers(index, q, InMemoryPage(index, q, found))
<1> DEFINE tokens == index.tokens
           keys == NormalizeSortKeys(q.sort)
           kept == IF q.sample > 0 THEN Sample(found, q) ELSE found
           ordered == Sorted(tokens, kept, Context(tokens, kept, 5), keys, q.order, FALSE)
           shown == IF q.sample > 0 THEN ordered ELSE PageOf(ordered, q.page, q.size)
           total == Len(ordered)
           answer == PageAnswer(tokens, q, keys, shown, total, Cardinality(found), kept)
           size == IF q.sample > 0 THEN Higher(1, total) ELSE q.size
<1>1. InMemoryPage(index, q, found) = answer  BY Zenon DEF InMemoryPage
<1>2. q.sample \in Nat  BY DEF ValidOptions, KwicQuery
<1>3. q.mode # "cqp"  BY DEF InMemory
<1>4. q.sample = 0 => SearchOrder(index, q) = ordered
  <2> SUFFICES ASSUME q.sample = 0 PROVE SearchOrder(index, q) = ordered
    OBVIOUS
  <2>1. kept = found
    <3>1. ~(q.sample > 0)  BY <1>2
    <3> QED BY <3>1, Zenon
  <2> HIDE DEF kept
  <2> QED BY <2>1, Zenon DEF SearchOrder
<1>4a. q.sample > 0 => SampledOrder(index, q) = ordered
  <2> SUFFICES ASSUME q.sample > 0 PROVE SampledOrder(index, q) = ordered
    OBVIOUS
  <2>1. kept = Sample(Found(index, q), q)  BY Zenon
  <2> HIDE DEF kept
  <2> QED BY <2>1, Zenon DEF SampledOrder
<1>5. IsFiniteSet(found)  BY FoundFinite, Zenon DEF KwicQuery, SoundLists, IsList
<1>6. IsFiniteSet(kept)  BY <1>2, <1>5, SampleFinite, Zenon
<1> HIDE DEF kept, keys
<1>7. PICK X : ordered \in Seq(X)  BY <1>6, SortedIsSequence, Zenon
<1> HIDE DEF ordered
<1>8. Displays(answer, shown, total,
               IF q.sample > 0 THEN 1 ELSE EffectivePage(q.page, NumPages(total, size)), NumPages(total, size))
  <2> HIDE DEF shown, total
  <2> QED BY PageAnswerDisplays, Zenon
<1> HIDE DEF answer
<1>9. CASE q.sample = 0
  <2>1. shown = PageOf(ordered, q.page, q.size) /\ size = q.size /\ total = Len(ordered)  BY <1>2, <1>9
  <2> HIDE DEF shown, size, total
  <2>2. Displays(answer, PageOf(ordered, q.page, q.size), Len(ordered),
                 EffectivePage(q.page, NumPages(Len(ordered), q.size)), NumPages(Len(ordered), q.size))
    BY <1>8, <1>9, <2>1
  <2> QED BY <1>1, <1>4, <1>9, <2>2, Zenon DEF Answers
<1>10. CASE q.sample > 0
  <2>1. shown = ordered /\ size = Higher(1, total) /\ total = Len(ordered)  BY <1>2, <1>10
  <2> HIDE DEF shown, size, total
  <2>2. Displays(answer, ordered, Len(ordered), 1, NumPages(Len(ordered), Higher(1, Len(ordered))))
    BY <1>8, <1>10, <2>1
  <2>3. SampledOrder(index, q) = ordered  BY <1>4a, <1>10, Zenon
  <2> QED BY <1>1, <1>3, <1>7, <1>10, <2>2, <2>3, Zenon DEF Answers
<1> QED BY <1>2, <1>9, <1>10

\* The advanced search (search_advanced) refuses or shows a page of the matches in order.
LEMMA AdvancedAnswers ==
    ASSUME NEW index, Tokens(index.tokens), NEW q, KwicQuery(q), q.mode = "simple", q.list # <<>> \/ q.near # <<>>
    PROVE  /\ ~ValidOptions(q) \/ Unsound(q) => SearchAdvanced(index, q) = QueryError
           /\ ValidOptions(q) /\ ~Unsound(q) => Answers(index, q, SearchAdvanced(index, q))
<1> DEFINE queries == Queries(q)
           found == AdvancedMatches(index, q, queries)
<1>1. InMemory(q)  BY DEF InMemory
<1>2. Unsound(q) <=> \/ queries = {} \/ q.windowFrom > q.windowTo
                     \/ ~NearWords(q) \/ \E t \in queries : CompileQuery(t, q) = <<>>
  <2> HIDE DEF queries
  <2> QED BY DEF Unsound, queries
<1>3. Found(index, q) = found
  <2>1. q.mode # "cqp" /\ q.mode # "full_regex"  OBVIOUS
  <2> QED BY <2>1, Zenon DEF Found
<1>4. SearchAdvanced(index, q) =
          IF \/ queries = {} \/ ~ValidOptions(q) \/ q.windowFrom > q.windowTo
             \/ ~NearWords(q) \/ \E t \in queries : CompileQuery(t, q) = <<>>
          THEN QueryError ELSE InMemoryPage(index, q, found)
  BY Zenon DEF SearchAdvanced, Queries
<1> HIDE DEF queries, found
<1>5. ValidOptions(q) => Answers(index, q, InMemoryPage(index, q, found))
  BY <1>1, <1>3, InMemoryAnswers, Zenon
<1> QED BY <1>2, <1>4, <1>5, Zenon

\* The search by a regular expression refuses or shows a page of the matches in order.
LEMMA RegexAnswers ==
    ASSUME NEW index, Tokens(index.tokens), NEW q, KwicQuery(q), q.mode = "full_regex"
    PROVE  /\ ~ValidOptions(q) \/ Unsound(q) => SearchFullRegex(index, q) = QueryError
           /\ ValidOptions(q) /\ ~Unsound(q) => Answers(index, q, SearchFullRegex(index, q))
<1> DEFINE found == RegexFound(index, q)
<1>1. InMemory(q)  BY DEF InMemory
<1>2. q.mode # "cqp"  OBVIOUS
<1>3. Unsound(q) <=> q.terms = <<>>  BY <1>2, Zenon DEF Unsound
<1>4. Found(index, q) = found  BY <1>2, Zenon DEF Found
<1>5. SearchFullRegex(index, q) = IF ~ValidOptions(q) \/ q.terms = <<>> THEN QueryError ELSE InMemoryPage(index, q, found)
  BY Zenon DEF SearchFullRegex, RegexFound
<1> HIDE DEF found
<1>6. ValidOptions(q) => Answers(index, q, InMemoryPage(index, q, found))
  BY <1>1, <1>4, InMemoryAnswers, Zenon
<1> QED BY <1>3, <1>5, <1>6, Zenon

\* The engine that kwic_search chooses refuses exactly the invalid and the unsound queries and shows a page for all others.
LEMMA KwicSearchAnswers ==
    ASSUME NEW index, Tokens(index.tokens), NEW q, KwicQuery(q)
    PROVE  /\ IsError(KwicSearch(index, q)) <=> ~ValidOptions(q) \/ Unsound(q)
           /\ ~IsError(KwicSearch(index, q)) => Answers(index, q, KwicSearch(index, q))
<1> DEFINE answer == KwicSearch(index, q)
<1>1. \A a : a = QueryError => IsError(a)  BY DEF QueryError, IsError
<1>2. \A a : Answers(index, q, a) => ~IsError(a)  BY Zenon DEF Answers, Displays
<1>3. /\ ~ValidOptions(q) \/ Unsound(q) => answer = QueryError
      /\ ValidOptions(q) /\ ~Unsound(q) => Answers(index, q, answer)
  <2>1. CASE q.mode = "cqp"
    <3>1. answer = SearchComplex(index, q)  BY <2>1, Zenon DEF KwicSearch
    <3> HIDE DEF answer
    <3> QED BY <2>1, <3>1, ComplexAnswers, Zenon
  <2>2. CASE q.mode = "full_regex"
    <3>1. q.mode # "cqp"  BY <2>2
    <3>2. answer = SearchFullRegex(index, q)  BY <2>2, <3>1, Zenon DEF KwicSearch
    <3> HIDE DEF answer
    <3> QED BY <2>2, <3>2, RegexAnswers, Zenon
  <2>3. CASE q.mode = "simple" /\ (q.list # <<>> \/ q.near # <<>>)
    <3>1. q.mode # "cqp" /\ q.mode # "full_regex"  BY <2>3
    <3>2. answer = SearchAdvanced(index, q)  BY <2>3, <3>1, Zenon DEF KwicSearch
    <3> HIDE DEF answer
    <3> QED BY <2>3, <3>2, AdvancedAnswers, Zenon
  <2>4. CASE q.mode # "cqp" /\ ~InMemory(q)
    <3>1. answer = SearchSimple(index, q)  BY <2>4, Zenon DEF KwicSearch, InMemory
    <3> HIDE DEF answer
    <3> QED BY <2>4, <3>1, SimpleAnswers, Zenon
  <2> QED BY <2>1, <2>2, <2>3, <2>4, Zenon DEF InMemory
<1> HIDE DEF answer
<1>4. (IsError(answer) <=> ~ValidOptions(q) \/ Unsound(q)) /\ (~IsError(answer) => Answers(index, q, answer))
  BY <1>1, <1>2, <1>3, Zenon
<1> QED BY <1>4, Zenon DEF answer

-----------------------------------------------------------------------------
(* Pages of a sequence *)

\* What the first p pages hold.
FirstPages(ordered, size, p) == SubSeq(ordered, 1, Lower(p * size, Len(ordered)))

\* There is a page, the pages hold everything, and the last is not empty unless there is nothing to show.
LEMMA PagesCount ==
    ASSUME NEW n \in Nat, NEW size \in Nat \ {0}
    PROVE  /\ NumPages(n, size) \in Nat \ {0}
           /\ n <= NumPages(n, size) * size
           /\ n # 0 => (NumPages(n, size) - 1) * size < n
           /\ n = 0 => NumPages(n, size) = 1
           /\ \A p \in Nat \ {0} : EffectivePage(p, NumPages(n, size)) \in 1..NumPages(n, size)
<1>1. /\ NumPages(n, size) \in Nat \ {0}
      /\ n <= NumPages(n, size) * size
      /\ n # 0 => (NumPages(n, size) - 1) * size < n
      /\ n = 0 => NumPages(n, size) = 1
  BY CeilDivBounds DEF NumPages
<1>2. \A p \in Nat \ {0} : EffectivePage(p, NumPages(n, size)) \in 1..NumPages(n, size)
  BY <1>1 DEF EffectivePage, Lower
<1> QED BY <1>1, <1>2

\* A page is a part of the ordered result.
LEMMA PageIsPart ==
    ASSUME NEW X, NEW ordered \in Seq(X), NEW size \in Nat \ {0}, NEW page \in Nat \ {0}
    PROVE  PageOf(ordered, page, size) \in Seq(X) /\ Len(PageOf(ordered, page, size)) <= Len(ordered)
<1> DEFINE n == Len(ordered)
           p == EffectivePage(page, NumPages(n, size))
           first == (p - 1) * size + 1
           last == Lower(p * size, n)
<1>1. n \in Nat  OBVIOUS
<1>2. p \in 1..NumPages(n, size) /\ NumPages(n, size) \in Nat
  <2> HIDE DEF n
  <2> QED BY <1>1, PagesCount
<1> HIDE DEF p
<1>3. first \in Nat \ {0} /\ last \in Nat /\ last <= n
  <2>1. p \in Nat /\ p - 1 \in Nat  BY <1>2
  <2>2. (p - 1) * size \in Nat /\ p * size \in Nat  BY <2>1
  <2> HIDE DEF n
  <2> QED BY <1>1, <2>2 DEF Lower
<1>4. PageOf(ordered, page, size) = SubSeq(ordered, first, last)  BY Zenon DEF PageOf, p
<1> HIDE DEF first, last, n
<1>5. SubSeq(ordered, first, last) \in Seq(X) /\ Len(SubSeq(ordered, first, last)) <= n
  <2>1. \A i \in first..last : i \in 1..Len(ordered)  BY <1>3 DEF n
  <2>2. /\ SubSeq(ordered, first, last) \in Seq(X)
        /\ Len(SubSeq(ordered, first, last)) = IF first <= last THEN last - first + 1 ELSE 0
    BY <1>3, <2>1, SubSeqProperties
  <2> QED BY <1>1, <1>3, <2>2
<1> QED BY <1>4, <1>5, Zenon DEF n

\* One page more of an ordered result.
LEMMA NextPage ==
    ASSUME NEW X, NEW ordered \in Seq(X), NEW size \in Nat \ {0},
           NEW p \in 1..NumPages(Len(ordered), size)
    PROVE  FirstPages(ordered, size, p) = FirstPages(ordered, size, p - 1) \o PageOf(ordered, p, size)
<1> DEFINE n == Len(ordered)
           pages == NumPages(n, size)
           upTo(k) == Lower(k * size, n)
<1>1. n \in Nat  OBVIOUS
<1>2. /\ pages \in Nat \ {0}
      /\ n <= pages * size
      /\ n # 0 => (pages - 1) * size < n
      /\ n = 0 => pages = 1
  BY <1>1, CeilDivBounds DEF NumPages
<1> HIDE DEF pages
<1>3. p \in 1..pages  BY DEF pages
<1>4. (p - 1) * size <= n /\ (p - 1) * size \in Nat /\ p * size \in Nat
  <2>1. (p - 1) * size <= (pages - 1) * size  BY <1>2, <1>3
  <2> QED BY <1>1, <1>2, <1>3, <2>1
<1>5. PageOf(ordered, p, size) = SubSeq(ordered, (p - 1) * size + 1, upTo(p))
  <2>1. EffectivePage(p, pages) = p  BY <1>2, <1>3 DEF EffectivePage, Lower
  <2> QED BY <2>1, Zenon DEF PageOf, pages
<1>6. upTo(p - 1) = (p - 1) * size  BY <1>4, <1>1 DEF Lower
<1>7. (p - 1) * size <= p * size  BY <1>2, <1>3
<1>8. 1 \in 1..(n + 1) /\ upTo(p - 1) \in (1 - 1)..n /\ upTo(p) \in upTo(p - 1)..n
  BY <1>1, <1>4, <1>6, <1>7 DEF Lower
<1> HIDE DEF upTo
<1>9. SubSeq(ordered, 1, upTo(p - 1)) \o SubSeq(ordered, upTo(p - 1) + 1, upTo(p)) = SubSeq(ordered, 1, upTo(p))
  BY <1>8, ConcatAdjacentSubSeq, Zenon
<1>10. \A k : FirstPages(ordered, size, k) = SubSeq(ordered, 1, upTo(k))  BY Zenon DEF FirstPages, upTo
<1> QED BY <1>5, <1>6, <1>9, <1>10

\* No page, and all pages.
LEMMA NoPageAndAll ==
    ASSUME NEW X, NEW ordered \in Seq(X), NEW size \in Nat \ {0}
    PROVE  /\ FirstPages(ordered, size, 0) = <<>>
           /\ FirstPages(ordered, size, NumPages(Len(ordered), size)) = ordered
<1> DEFINE n == Len(ordered)
<1>1. n \in Nat  OBVIOUS
<1>2. NumPages(n, size) \in Nat \ {0} /\ n <= NumPages(n, size) * size
  <2> HIDE DEF n
  <2> QED BY <1>1, PagesCount, Zenon
<1>3. Lower(0 * size, n) = 0 /\ Lower(NumPages(n, size) * size, n) = n
  <2> DEFINE all == NumPages(n, size) * size
  <2>1. all \in Nat  BY <1>2
  <2> HIDE DEF all, n
  <2>2. Lower(0 * size, n) = 0 /\ Lower(all, n) = n  BY <1>1, <1>2, <2>1 DEF Lower, all
  <2> QED BY <2>2 DEF all
<1>4. SubSeq(ordered, 1, 0) = <<>>  BY SubSeqEmpty
<1>5. SubSeq(ordered, 1, n) = ordered  BY SubSeqFull
<1> HIDE DEF n
<1> QED BY <1>3, <1>4, <1>5, Zenon DEF FirstPages, n

\* The pages one after the other are the whole.
LEMMA PagesJoined ==
    ASSUME NEW X, NEW ordered \in Seq(X), NEW size \in Nat \ {0},
           NEW pages, pages = NumPages(Len(ordered), size)
    PROVE  FlattenSeq([p \in 1..pages |-> PageOf(ordered, p, size)]) = ordered
<1> DEFINE g == [p \in 1..pages |-> FirstPages(ordered, size, p)]
           seqs == [p \in 1..pages |-> PageOf(ordered, p, size)]
<1>1. pages \in Nat \ {0}  BY PagesCount, LenProperties
<1>2. \A p \in 1..pages : seqs[p] \in Seq(X)
  <2> TAKE p \in 1..pages
  <2>1. p \in Nat \ {0}  BY <1>1
  <2> QED BY <2>1, PageIsPart, Zenon
<1>3. FirstPages(ordered, size, 0) = <<>> /\ FirstPages(ordered, size, pages) = ordered  BY NoPageAndAll, Zenon
<1>4. \A p \in 1..pages : g[p] = IF p = 1 THEN seqs[p] ELSE g[p - 1] \o seqs[p]
  <2> TAKE p \in 1..pages
  <2>1. g[p] = FirstPages(ordered, size, p - 1) \o seqs[p]  BY NextPage, Zenon
  <2>2. p # 1 => p - 1 \in 1..pages  BY <1>1
  <2>3. p # 1 => g[p - 1] = FirstPages(ordered, size, p - 1)  BY <2>2, Zenon
  <2>4. p = 1 => FirstPages(ordered, size, p - 1) = <<>>  BY <1>3
  <2> HIDE DEF g, seqs
  <2>5. <<>> \o seqs[p] = seqs[p]  BY <1>2
  <2> QED BY <2>1, <2>3, <2>4, <2>5
<1>5. Len(seqs) = pages  BY <1>1
<1>6. Flattens(g, seqs)
  <2>1. g = [p \in 1..pages |-> g[p]]  BY Zenon
  <2> HIDE DEF g, seqs
  <2> QED BY <2>1, <1>4, <1>5, Zenon DEF Flattens
<1>7. g[pages] = ordered
  <2>1. pages \in 1..pages  BY <1>1
  <2> QED BY <1>3, <2>1, Zenon
<1> HIDE DEF g, seqs
<1>8. FlattenSeq(seqs) = g[pages]  BY <1>1, <1>5, <1>6, FlattenIs
<1> QED BY <1>7, <1>8 DEF seqs

\* Whatever is asked for, a page is one of the pages and holds no more than all of them.
LEMMA AnswerBounds ==
    ASSUME NEW index, Tokens(index.tokens), NEW q, KwicQuery(q), ValidOptions(q), NEW answer, Answers(index, q, answer)
    PROVE  answer.page \in 1..answer.pages /\ Len(answer.hits) <= answer.total
<1>1. q.page \in Nat \ {0} /\ q.size \in Nat \ {0} /\ q.sample \in Nat  BY DEF ValidOptions, KwicQuery
<1>2. \A X : \A shown \in Seq(X) : \A total, page, pages : Displays(answer, shown, total, page, pages) =>
          answer.page = page /\ answer.pages = pages /\ answer.total = total /\ Len(answer.hits) = Len(shown)
  <2> SUFFICES ASSUME NEW X, NEW shown \in Seq(X), NEW total, NEW page, NEW pages,
                      Displays(answer, shown, total, page, pages)
               PROVE  answer.page = page /\ answer.pages = pages /\ answer.total = total /\ Len(answer.hits) = Len(shown)
    BY Zenon
  <2>1. DOMAIN shown = 1..Len(shown) /\ Len(shown) \in Nat  BY LenProperties, Zenon
  <2>2. answer.hits = [i \in 1..Len(shown) |-> answer.hits[i]]  BY <2>1, Zenon DEF Displays
  <2>3. Len(answer.hits) = Len(shown)  BY <2>1, <2>2, FunctionIsSequence, Zenon
  <2> QED BY <2>3, Zenon DEF Displays
<1>3. CASE /\ q.sample = 0 \/ q.mode = "cqp"
           /\ Displays(answer, PageOf(SearchOrder(index, q), q.page, q.size), Len(SearchOrder(index, q)),
                       EffectivePage(q.page, NumPages(Len(SearchOrder(index, q)), q.size)),
                       NumPages(Len(SearchOrder(index, q)), q.size))
  <2>1. PICK X : SearchOrder(index, q) \in Seq(X)  BY SearchOrderIsSequence, Zenon
  <2> DEFINE ordered == SearchOrder(index, q)
             shown == PageOf(ordered, q.page, q.size)
  <2>2. Len(ordered) \in Nat  BY <2>1
  <2> HIDE DEF ordered
  <2>3. shown \in Seq(X) /\ Len(shown) <= Len(ordered)  BY <1>1, <2>1, PageIsPart DEF ordered
  <2>4. EffectivePage(q.page, NumPages(Len(ordered), q.size)) \in 1..NumPages(Len(ordered), q.size)
    BY <1>1, <2>2, PagesCount
  <2> HIDE DEF shown
  <2>5. /\ answer.page = EffectivePage(q.page, NumPages(Len(ordered), q.size))
        /\ answer.pages = NumPages(Len(ordered), q.size)
        /\ answer.total = Len(ordered) /\ Len(answer.hits) = Len(shown)
    BY <1>2, <1>3, <2>3, Zenon DEF ordered, shown
  <2> QED BY <2>3, <2>4, <2>5
<1>4. CASE /\ \E X : SampledOrder(index, q) \in Seq(X)
           /\ Displays(answer, SampledOrder(index, q), Len(SampledOrder(index, q)), 1,
                       NumPages(Len(SampledOrder(index, q)), Higher(1, Len(SampledOrder(index, q)))))
  <2> DEFINE shown == SampledOrder(index, q)
  <2>1. PICK X : shown \in Seq(X)  BY <1>4, Zenon
  <2>2. Displays(answer, shown, Len(shown), 1, NumPages(Len(shown), Higher(1, Len(shown))))  BY <1>4, Zenon
  <2> HIDE DEF shown
  <2> DEFINE n == Len(shown)
             pages == NumPages(n, Higher(1, n))
  <2>3. n \in Nat  BY <2>1, LenProperties, Zenon
  <2> HIDE DEF n
  <2>4. Higher(1, n) \in Nat \ {0}  BY <2>3 DEF Higher
  <2>5. pages \in Nat \ {0}  BY <2>3, <2>4, PagesCount
  <2> HIDE DEF pages
  <2>6. answer.page = 1 /\ answer.pages = pages /\ answer.total = n /\ Len(answer.hits) = n
    BY <1>2, <2>1, <2>2, Zenon DEF n, pages
  <2> QED BY <2>3, <2>5, <2>6
<1> QED BY <1>3, <1>4, Zenon DEF Answers

-----------------------------------------------------------------------------
(* Hits *)

\* The hits of a page are where its matches are.
LEMMA DisplaysHits ==
    ASSUME NEW X, NEW shown \in Seq(X), NEW answer, NEW total, NEW page, NEW pages,
           Displays(answer, shown, total, page, pages)
    PROVE  HitsOf(answer.hits) = HitsOf(shown)
<1> DEFINE hits == answer.hits
<1>1. /\ DOMAIN hits = DOMAIN shown
      /\ \A i \in DOMAIN shown : hits[i].row = shown[i].row /\ hits[i].length = shown[i].length
  BY Zenon DEF Displays
<1> HIDE DEF hits
<1>2. HitsOf(hits) = HitsOf(shown)  BY <1>1 DEF HitsOf
<1> QED BY <1>2 DEF hits

\* The hits of two sequences, one after the other.
LEMMA HitsOfConcat ==
    ASSUME NEW X, NEW s \in Seq(X), NEW t \in Seq(X)
    PROVE  HitsOf(s \o t) = HitsOf(s) \o HitsOf(t)
<1> DEFINE Y == [row : {x.row : x \in X}, length : {x.length : x \in X}]
<1>1. \A x \in X : [row |-> x.row, length |-> x.length] \in Y  OBVIOUS
<1>2. \A u \in Seq(X) : HitsOf(u) \in Seq(Y) /\ Len(HitsOf(u)) = Len(u)
                        /\ \A i \in 1..Len(u) : HitsOf(u)[i] = [row |-> u[i].row, length |-> u[i].length]
  <2> HIDE DEF Y
  <2> TAKE u \in Seq(X)
  <2>1. HitsOf(u) \in [1..Len(u) -> Y] /\ Len(u) \in Nat
    <3>1. DOMAIN u = 1..Len(u) /\ Len(u) \in Nat /\ \A i \in 1..Len(u) : u[i] \in X  OBVIOUS
    <3> QED BY <1>1, <3>1, Zenon DEF HitsOf
  <2>2. \A i \in 1..Len(u) : HitsOf(u)[i] = [row |-> u[i].row, length |-> u[i].length]  BY DEF HitsOf
  <2>3. HitsOf(u) \in Seq(Y) /\ Len(HitsOf(u)) = Len(u)  BY <2>1, LenOfFunction
  <2> QED BY <2>2, <2>3, Zenon
<1> HIDE DEF Y
<1>3. s \o t \in Seq(X) /\ Len(s \o t) = Len(s) + Len(t)  OBVIOUS
<1> DEFINE a == HitsOf(s \o t)
           b == HitsOf(s) \o HitsOf(t)
<1>4. a \in Seq(Y) /\ b \in Seq(Y) /\ Len(a) = Len(s) + Len(t) /\ Len(b) = Len(s) + Len(t)
  <2>1. HitsOf(s) \in Seq(Y) /\ HitsOf(t) \in Seq(Y) /\ Len(HitsOf(s)) = Len(s) /\ Len(HitsOf(t)) = Len(t)
    BY <1>2, Zenon
  <2>2. a \in Seq(Y) /\ Len(a) = Len(s \o t)  BY <1>2, <1>3, Zenon
  <2>3. b \in Seq(Y) /\ Len(b) = Len(HitsOf(s)) + Len(HitsOf(t))  BY <2>1, ConcatProperties, Zenon
  <2> HIDE DEF a, b
  <2> QED BY <1>3, <2>1, <2>2, <2>3, Zenon
<1>5. \A i \in 1..(Len(s) + Len(t)) : a[i] = b[i]
  <2> TAKE i \in 1..(Len(s) + Len(t))
  <2>1. a[i] = [row |-> (s \o t)[i].row, length |-> (s \o t)[i].length]  BY <1>2, <1>3
  <2>2. CASE i <= Len(s)
    <3>1. i \in 1..Len(s) /\ (s \o t)[i] = s[i]  BY <2>2
    <3>2. HitsOf(s)[i] = [row |-> s[i].row, length |-> s[i].length]  BY <1>2, <3>1, Zenon
    <3>3. b[i] = HitsOf(s)[i]
      <4>1. HitsOf(s) \in Seq(Y) /\ HitsOf(t) \in Seq(Y) /\ Len(HitsOf(s)) = Len(s)  BY <1>2, Zenon
      <4> QED BY <3>1, <4>1, ConcatProperties
    <3> QED BY <2>1, <3>1, <3>2, <3>3
  <2>3. CASE i > Len(s)
    <3>1. i - Len(s) \in 1..Len(t) /\ (s \o t)[i] = t[i - Len(s)]  BY <2>3
    <3>2. HitsOf(t)[i - Len(s)] = [row |-> t[i - Len(s)].row, length |-> t[i - Len(s)].length]
      BY <1>2, <3>1, Zenon
    <3>3. b[i] = HitsOf(t)[i - Len(s)]
      <4>1. HitsOf(s) \in Seq(Y) /\ HitsOf(t) \in Seq(Y) /\ Len(HitsOf(s)) = Len(s) /\ Len(HitsOf(t)) = Len(t)
        BY <1>2, Zenon
      <4>2. i \in 1..(Len(s) + Len(t)) /\ i > Len(s)  BY <2>3
      <4> QED BY <4>1, <4>2, ConcatProperties
    <3> QED BY <2>1, <3>1, <3>2, <3>3
  <2>4. Len(s) \in Nat /\ Len(t) \in Nat  OBVIOUS
  <2>5. i <= Len(s) \/ i > Len(s)  BY <2>4
  <2> QED BY <2>2, <2>3, <2>5, Zenon
<1> HIDE DEF a, b
<1>6. a = b  BY <1>4, <1>5, SeqEqual
<1> QED BY <1>6 DEF a, b

-----------------------------------------------------------------------------
(* Turning the pages of a concordance *)

\* Another page of a query, of the same size, and a page of its export.
OnPage(s, q, p) == p \in Nat \ {0} /\ s = [q EXCEPT !.page = p]
ExportedOnPage(s, q, p) == p \in Nat \ {0} /\ s = [ExportedQuery(q) EXCEPT !.page = p]

\* A query for page p of what another query asks for.
PageQuery(s, q, p, size, sample) ==
    /\ KwicQuery(s) /\ ValidOptions(s) /\ SameSearch(s, q)
    /\ s.page = p /\ s.size = size /\ s.sample = sample

\* Turning the page keeps the search.
LEMMA OtherPage ==
    ASSUME NEW q, KwicQuery(q), ValidOptions(q), NEW p, NEW s, OnPage(s, q, p)
    PROVE  PageQuery(s, q, p, q.size, q.sample)
<1>0. p \in Nat \ {0} /\ s = [q EXCEPT !.page = p]  BY Zenon DEF OnPage
<1>1. /\ KwicFields \subseteq DOMAIN q /\ q.page \in Int /\ q.size \in Int /\ q.sample \in Int /\ q.seed \in Int
      /\ q.context \in Int /\ q.windowFrom \in Int /\ q.windowTo \in Int /\ SoundLists(q)
  BY Zenon DEF KwicQuery
<1>2. DOMAIN s = DOMAIN q /\ s.page = p  BY <1>0, <1>1 DEF KwicFields
<1>3. \A f \in KwicFields \ {"page"} : s[f] = q[f]  BY <1>0, <1>1
<1>4. SameSearch(s, q) /\ s.size = q.size /\ s.sample = q.sample /\ s.list = q.list /\ s.sort = q.sort /\ s.context = q.context
  BY <1>3 DEF SameSearch, KwicFields
<1>5. KwicQuery(s)
  <2>1. s.terms = q.terms /\ s.list = q.list /\ s.items = q.items /\ s.sort = q.sort
    BY <1>4, Zenon DEF SameSearch
  <2>2. SoundLists(s)  BY <1>1, <2>1, Zenon DEF SoundLists
  <2>3. s.page \in Int /\ s.size \in Int /\ s.sample \in Int /\ s.seed \in Int
    BY <1>0, <1>1, <1>2, <1>4, <1>3 DEF KwicFields
  <2>4. s.context \in Int /\ s.windowFrom \in Int /\ s.windowTo \in Int  BY <1>1, <1>4, Zenon DEF SameSearch
  <2> QED BY <1>1, <1>2, <2>2, <2>3, <2>4, Zenon DEF KwicQuery
<1>6. /\ q.size >= 1 /\ q.context >= 0 /\ q.sample >= 0
      /\ Len(NormalizeSortKeys(q.sort)) <= MaxSortKeys
  BY Zenon DEF ValidOptions
<1>7. ValidOptions(s)
  <2>1. s.page >= 1  BY <1>0, <1>2
  <2> QED BY <1>4, <1>6, <2>1 DEF ValidOptions
<1> QED BY <1>2, <1>4, <1>5, <1>7, Zenon DEF PageQuery

\* A page of the export of a query.
LEMMA ExportedPage ==
    ASSUME NEW q, KwicQuery(q), ValidOptions(q), NEW p, NEW s, ExportedOnPage(s, q, p)
    PROVE  PageQuery(s, q, p, ExportSize, 0)
<1>0. p \in Nat \ {0} /\ s = [ExportedQuery(q) EXCEPT !.page = p]  BY Zenon DEF ExportedOnPage
<1>1. /\ KwicFields \subseteq DOMAIN q /\ q.page \in Int /\ q.size \in Int /\ q.sample \in Int /\ q.seed \in Int
      /\ q.context \in Int /\ q.windowFrom \in Int /\ q.windowTo \in Int /\ SoundLists(q)
  BY Zenon DEF KwicQuery
<1>2. DOMAIN s = DOMAIN q /\ s.page = p /\ s.size = ExportSize /\ s.sample = 0 /\ s.seed = 0
  BY <1>0, <1>1 DEF KwicFields, ExportedQuery
<1>3. \A f \in KwicFields \ {"page", "size", "sample", "seed"} : s[f] = q[f]  BY <1>0, <1>1 DEF ExportedQuery
<1>4. SameSearch(s, q) /\ s.list = q.list /\ s.sort = q.sort /\ s.context = q.context
  BY <1>3 DEF SameSearch, KwicFields
<1>5. KwicQuery(s)
  <2>1. s.terms = q.terms /\ s.list = q.list /\ s.items = q.items /\ s.sort = q.sort
    BY <1>4, Zenon DEF SameSearch
  <2>2. SoundLists(s)  BY <1>1, <2>1, Zenon DEF SoundLists
  <2>3. s.page \in Int /\ s.size \in Int /\ s.sample \in Int /\ s.seed \in Int
    BY <1>0, <1>1, <1>2, <1>4, BoundsAssumption DEF ExportedQuery
  <2>4. s.context \in Int /\ s.windowFrom \in Int /\ s.windowTo \in Int  BY <1>1, <1>4, Zenon DEF SameSearch
  <2> QED BY <1>1, <1>2, <2>2, <2>3, <2>4, Zenon DEF KwicQuery
<1>6. q.context >= 0 /\ Len(NormalizeSortKeys(q.sort)) <= MaxSortKeys  BY Zenon DEF ValidOptions
<1>7. ValidOptions(s)
  <2>1. s.page >= 1 /\ s.size >= 1 /\ s.sample >= 0  BY <1>0, <1>2, BoundsAssumption
  <2> QED BY <1>4, <1>6, <2>1 DEF ValidOptions
<1> QED BY <1>2, <1>4, <1>5, <1>7, Zenon DEF PageQuery

\* A query of the whole result that is not refused shows a page of the ordered matches.
ShowsPage(answer, ordered, p, size) ==
    /\ ~IsError(answer)
    /\ Displays(answer, PageOf(ordered, p, size), Len(ordered),
                EffectivePage(p, NumPages(Len(ordered), size)), NumPages(Len(ordered), size))
    /\ HitsOf(answer.hits) = HitsOf(PageOf(ordered, p, size))
    /\ size \in Nat \ {0}

\* A query for a page of the search shows that page of the matches in order.
LEMMA PageShown ==
    ASSUME NEW index, Tokens(index.tokens), NEW q, KwicQuery(q), ValidOptions(q), ~Unsound(q), NEW p \in Nat \ {0},
           NEW s, NEW size, NEW sample, sample = 0 \/ q.mode = "cqp", PageQuery(s, q, p, size, sample)
    PROVE  ShowsPage(KwicSearch(index, s), SearchOrder(index, q), p, size)
<1> DEFINE answer == KwicSearch(index, s)
           ordered == SearchOrder(index, q)
<1>0. KwicQuery(s) /\ ValidOptions(s) /\ SameSearch(s, q) /\ s.page = p /\ s.size = size /\ s.sample = sample
  BY Zenon DEF PageQuery
<1>1. SearchOrder(index, s) = ordered /\ ~Unsound(s)  BY <1>0, SameOrdering, Zenon
<1>2. ~IsError(answer) /\ Answers(index, s, answer)  BY <1>0, <1>1, KwicSearchAnswers, Zenon
<1>3. ~(s.sample > 0 /\ s.mode # "cqp")  BY <1>0 DEF SameSearch
<1> HIDE DEF answer, ordered
<1>4. Displays(answer, PageOf(ordered, p, size), Len(ordered),
               EffectivePage(p, NumPages(Len(ordered), size)), NumPages(Len(ordered), size))
  BY <1>0, <1>1, <1>2, <1>3, Zenon DEF Answers
<1>5. size \in Nat \ {0}  BY <1>0 DEF KwicQuery, ValidOptions
<1>6. PICK X : ordered \in Seq(X)  BY SearchOrderIsSequence, Zenon DEF ordered
<1>7. PageOf(ordered, p, size) \in Seq(X)  BY <1>5, <1>6, PageIsPart, Zenon
<1>8. HitsOf(answer.hits) = HitsOf(PageOf(ordered, p, size))  BY <1>4, <1>7, DisplaysHits, Zenon
<1> QED BY <1>2, <1>4, <1>5, <1>7, <1>8, Zenon DEF ShowsPage, answer, ordered

\* Sequences have a common set of elements.
LEMMA CommonElements ==
    ASSUME NEW n, NEW seqs, seqs = [p \in 1..n |-> seqs[p]], \A p \in 1..n : \E Y : seqs[p] \in Seq(Y)
    PROVE  \E Y : seqs \in [1..n -> Seq(Y)]
<1> DEFINE Y == UNION {ToSet(seqs[p]) : p \in 1..n}
<1>1. \A p \in 1..n : seqs[p] \in Seq(Y)
  <2> TAKE p \in 1..n
  <2>1. PICK Z : seqs[p] \in Seq(Z)  BY Zenon
  <2> DEFINE s == seqs[p]
  <2>2. Len(s) \in Nat /\ s = [i \in 1..Len(s) |-> s[i]] /\ DOMAIN s = 1..Len(s)  BY <2>1
  <2>3. \A i \in 1..Len(s) : s[i] \in Y
    <3> TAKE i \in 1..Len(s)
    <3>1. s[i] \in ToSet(s)
      <4> HIDE DEF s
      <4> QED BY <2>2, Zenon DEF ToSet
    <3>2. ToSet(s) \subseteq Y  BY Zenon
    <3> HIDE DEF s, Y
    <3> QED BY <3>1, <3>2, Zenon
  <2> HIDE DEF s, Y
  <2>4. s \in [1..Len(s) -> Y]  BY <2>2, <2>3, Zenon
  <2>5. s \in Seq(Y)  BY <2>2, <2>4, LenOfFunction
  <2> QED BY <2>5 DEF s
<1> HIDE DEF Y
<1>2. seqs \in [1..n -> Seq(Y)]  BY <1>1, Zenon
<1> QED BY <1>2, Zenon

\* Hits that are where the matches of another sequence are.
Located(s, t) ==
    /\ Len(s) = Len(t)
    /\ \A i \in 1..Len(s) : s[i].row = t[i].row /\ s[i].length = t[i].length

\* A list of n sequences, each located as its counterpart in another list.
LocatedLists(n, seqs, sems) ==
    /\ n \in Nat \ {0}
    /\ seqs = [p \in 1..n |-> seqs[p]] /\ sems = [p \in 1..n |-> sems[p]]
    /\ \A p \in 1..n : (\E Y : seqs[p] \in Seq(Y)) /\ (\E X : sems[p] \in Seq(X)) /\ Located(seqs[p], sems[p])

\* When the hits of every page are where its matches are, all hits are where all matches are.
LEMMA JoinedHits ==
    ASSUME NEW n, NEW seqs, NEW sems, LocatedLists(n, seqs, sems)
    PROVE  HitsOf(FlattenSeq(seqs)) = HitsOf(FlattenSeq(sems))
<1>1. PICK Y : seqs \in [1..n -> Seq(Y)]
  <2>1. seqs = [p \in 1..n |-> seqs[p]] /\ \A p \in 1..n : \E Y : seqs[p] \in Seq(Y)  BY Zenon DEF LocatedLists
  <2> QED BY <2>1, CommonElements, Zenon
<1>2a. PICK X : sems \in [1..n -> Seq(X)]
  <2>1. sems = [p \in 1..n |-> sems[p]] /\ \A p \in 1..n : \E X : sems[p] \in Seq(X)  BY Zenon DEF LocatedLists
  <2> QED BY <2>1, CommonElements, Zenon
<1>2b. n \in Nat \ {0} /\ \A p \in 1..n : Located(seqs[p], sems[p])  BY Zenon DEF LocatedLists
<1> DEFINE Rel == {d \in Y \X X : d[1].row = d[2].row /\ d[1].length = d[2].length}
<1>2. \A p \in 1..n : Related(seqs[p], sems[p], Rel)
  <2> SUFFICES ASSUME NEW p \in 1..n PROVE Related(seqs[p], sems[p], Rel)
    OBVIOUS
  <2> DEFINE s == seqs[p]
             t == sems[p]
  <2>1. s \in Seq(Y) /\ t \in Seq(X) /\ Located(s, t)  BY <1>1, <1>2a, <1>2b, Zenon
  <2> HIDE DEF s, t
  <2>2. \A i \in 1..Len(s) : <<s[i], t[i]>> \in Rel
    <3> TAKE i \in 1..Len(s)
    <3>1. s[i] \in Y /\ t[i] \in X  BY <2>1 DEF Located
    <3> QED BY <2>1, <3>1 DEF Located
  <2> HIDE DEF Rel
  <2> QED BY <2>1, <2>2, Zenon DEF Related, Located, s, t
<1> DEFINE a == FlattenSeq(seqs)
           b == FlattenSeq(sems)
<1>3. Related(a, b, Rel)
  <2> HIDE DEF Rel
  <2> QED BY <1>1, <1>2a, <1>2b, <1>2, FlattenRelated, Zenon
<1>4. a \in Seq(Y) /\ b \in Seq(X)
  <2>1. n \in Nat  BY <1>2b
  <2> QED BY <1>1, <1>2a, <2>1, FlattenTyped, Zenon
<1> HIDE DEF a, b
<1>5. HitsOf(a) = HitsOf(b)
  <2>1. DOMAIN a = 1..Len(a) /\ DOMAIN b = 1..Len(a)  BY <1>3, <1>4 DEF Related
  <2>2. \A i \in 1..Len(a) : a[i].row = b[i].row /\ a[i].length = b[i].length
    <3> TAKE i \in 1..Len(a)
    <3>1. <<a[i], b[i]>> \in Rel  BY <1>3, Zenon DEF Related
    <3> QED BY <3>1
  <2> QED BY <2>1, <2>2 DEF HitsOf
<1> QED BY <1>5 DEF a, b

\* The pages of a concordance, turned one after the other, are the matches in order.
LEMMA TurnedPages ==
    ASSUME NEW index, Tokens(index.tokens), NEW q, KwicQuery(q), q.sample = 0 \/ q.mode = "cqp", ~IsError(KwicSearch(index, q)),
           NEW pages, pages = KwicSearch(index, q).pages
    PROVE  /\ HitsOf(FlattenSeq([p \in 1..pages |-> KwicSearch(index, [q EXCEPT !.page = p]).hits])) =
                HitsOf(SearchOrder(index, q))
<1> DEFINE ordered == SearchOrder(index, q)
           size == q.size
           s(p) == [q EXCEPT !.page = p]
           seqs == [p \in 1..pages |-> KwicSearch(index, s(p)).hits]
           sems == [p \in 1..pages |-> PageOf(ordered, p, size)]
<1>1. ValidOptions(q) /\ ~Unsound(q) /\ Answers(index, q, KwicSearch(index, q))  BY KwicSearchAnswers, Zenon
<1>2. PICK X : ordered \in Seq(X)  BY SearchOrderIsSequence, Zenon
<1>3. Len(ordered) \in Nat /\ size \in Nat \ {0}  BY <1>2, <1>1 DEF ValidOptions, KwicQuery
<1>4. pages = NumPages(Len(ordered), size)
  <2>1. ~(q.sample > 0 /\ q.mode # "cqp")  OBVIOUS
  <2> QED BY <1>1, <2>1, Zenon DEF Answers, Displays
<1> HIDE DEF ordered, size
<1>5. pages \in Nat \ {0}  BY <1>3, <1>4, PagesCount
<1>6. \A p \in 1..pages : /\ sems[p] \in Seq(X)
                          /\ \E Y : seqs[p] \in Seq(Y)
                          /\ Located(seqs[p], sems[p])
  <2> SUFFICES ASSUME NEW p \in 1..pages
               PROVE  sems[p] \in Seq(X) /\ (\E Y : seqs[p] \in Seq(Y)) /\ Located(seqs[p], sems[p])
    OBVIOUS
  <2> DEFINE shown == PageOf(ordered, p, size)
             answer == KwicSearch(index, s(p))
             hits == answer.hits
  <2>1. p \in Nat \ {0}  BY <1>5
  <2>2. shown \in Seq(X)  BY <1>2, <1>3, <2>1, PageIsPart, Zenon
  <2>3. PageQuery(s(p), q, p, size, q.sample)
    <3> DEFINE t == s(p)
    <3>1. OnPage(t, q, p)  BY <2>1, Zenon DEF OnPage
    <3> HIDE DEF t
    <3>2. PageQuery(t, q, p, q.size, q.sample)  BY <1>1, <3>1, OtherPage, Zenon
    <3> QED BY <3>2, Zenon DEF t, size
  <2> HIDE DEF s, shown
  <2>4. ShowsPage(answer, ordered, p, size)  BY <1>1, <2>1, <2>3, PageShown, Zenon DEF ordered
  <2> HIDE DEF answer
  <2>5. /\ hits = [i \in DOMAIN shown |-> hits[i]]
        /\ \A i \in DOMAIN shown : hits[i].row = shown[i].row /\ hits[i].length = shown[i].length
    BY <2>4, Zenon DEF ShowsPage, Displays, shown
  <2> HIDE DEF hits
  <2>6. DOMAIN shown = 1..Len(shown) /\ Len(shown) \in Nat  BY <2>2, LenProperties, Zenon
  <2>7. (\E Y : hits \in Seq(Y)) /\ Len(hits) = Len(shown)
    <3>1. hits = [i \in 1..Len(shown) |-> hits[i]]  BY <2>5, <2>6, Zenon
    <3> QED BY <2>6, <3>1, FunctionIsSequence, Zenon
  <2>8. Located(hits, shown)  BY <2>5, <2>6, <2>7, Zenon DEF Located
  <2>9. seqs[p] = hits /\ sems[p] = shown  BY Zenon DEF hits, answer, shown
  <2> HIDE DEF seqs, sems
  <2> QED BY <2>2, <2>7, <2>8, <2>9, Zenon
<1>7. sems = [p \in 1..pages |-> sems[p]] /\ seqs = [p \in 1..pages |-> seqs[p]]  BY Zenon
<1>8. FlattenSeq(sems) = ordered  BY <1>2, <1>3, <1>4, PagesJoined, Zenon
<1> HIDE DEF seqs, sems
<1>9. LocatedLists(pages, seqs, sems)  BY <1>5, <1>6, <1>7, Zenon DEF LocatedLists
<1>10. HitsOf(FlattenSeq(seqs)) = HitsOf(FlattenSeq(sems))  BY <1>9, JoinedHits, Zenon
<1> QED BY <1>8, <1>10, Zenon DEF ordered, seqs

-----------------------------------------------------------------------------
(* Rows of pairs *)

\* What is before each of some places.
Earlier(places) == [x \in places |-> {y \in places : y < x}]

\* Some numbers in ascending order are a sequence of them.
LEMMA PlacesInOrder ==
    ASSUME NEW n \in Nat, NEW places \in SUBSET (1..n)
    PROVE  Enumerates(InOrder(places, <), places, Earlier(places))
<1> DEFINE before == Earlier(places)
           A(x) == [at |-> Cardinality({y \in places : y < x}), element |-> x]
           B(x) == [at |-> Cardinality(before[x]), element |-> x]
           Value(all) == [i \in 1..Cardinality(places) |-> (CHOOSE p \in all : p.at = i - 1).element]
<1>1. \A x \in places : A(x) = B(x)
  <2> TAKE x \in places
  <2>1. before[x] = {y \in places : y < x}  BY Zenon DEF Earlier
  <2> HIDE DEF before
  <2> QED BY <2>1, Zenon
<1>2. InOrder(places, <) = Value({A(x) : x \in places})  BY Zenon DEF InOrder
<1>3. Ranked(places, before) = Value({B(x) : x \in places})  BY Zenon DEF Ranked
<1> HIDE DEF A, B, Value
<1>4. {A(x) : x \in places} = {B(x) : x \in places}  BY <1>1
<1>5. IsFiniteSet(places)  BY PlacesAreFinite, Zenon
<1>6. \A x \in places : x \in Int  BY PlacesAreFinite
<1>7. /\ \A x \in places : x \notin {y \in places : y < x}
      /\ \A x, y \in places : y < x => {z \in places : z < y} \subseteq {z \in places : z < x}
      /\ \A x, y \in places : x = y \/ x < y \/ y < x
  <2>1. \A x \in places : x \notin {y \in places : y < x}  BY <1>6
  <2>2. ASSUME NEW x \in places, NEW y \in places, y < x
        PROVE  {z \in places : z < y} \subseteq {z \in places : z < x}
    <3> SUFFICES ASSUME NEW z \in places, z < y PROVE z < x
      BY Zenon
    <3>1. x \in Int /\ y \in Int /\ z \in Int  BY <1>6, Zenon
    <3> QED BY <2>2, <3>1
  <2>3. \A x, y \in places : x = y \/ x < y \/ y < x  BY <1>6
  <2> QED BY <2>1, <2>2, <2>3, Zenon
<1>8. before = [x \in places |-> {y \in places : y < x}]  BY Zenon DEF Earlier
<1> HIDE DEF before
<1>9. Orders(places, before)
  <2>1. before \in [places -> SUBSET places]  BY <1>8
  <2>2. \A x \in places : \A y \in places : y \in before[x] <=> y < x  BY <1>8
  <2>3. \A x \in places : before[x] = {y \in places : y < x}  BY <1>8, Zenon
  <2> QED BY <1>5, <1>7, <2>1, <2>2, <2>3 DEF Orders
<1>10. Enumerates(Ranked(places, before), places, before)  BY <1>9, RankedEnumerates, Zenon
<1> QED BY <1>2, <1>3, <1>4, <1>10, Zenon DEF before

\* The elements at some places are elements.
LEMMA AtElements ==
    ASSUME NEW X, NEW n \in Nat, NEW s \in [1..n -> X], NEW places \in SUBSET (1..n)
    PROVE  At(s, places) \in Seq(X)
<1> DEFINE order == InOrder(places, <)
           t == At(s, places)
<1>1. Enumerates(order, places, Earlier(places))  BY PlacesInOrder, Zenon
<1>2. Cardinality(places) \in Nat  BY PlacesAreFinite, Zenon
<1>3. order \in [1..Cardinality(places) -> places]  BY <1>1, Zenon DEF Enumerates
<1>4. t = [i \in DOMAIN order |-> s[order[i]]]  BY Zenon DEF At
<1> HIDE DEF order, t
<1>5. t \in [1..Cardinality(places) -> X]  BY <1>3, <1>4
<1>6. t \in Seq(X)  BY <1>2, <1>5, LenOfFunction
<1> QED BY <1>6 DEF t

\* Rows of a parallel search are pairs of the corpus, with their places.
RowRecords(pairs) ==
    {Extended(pairs[i], [position |-> i]) : i \in DOMAIN pairs}

\* The rows that pass the conditions of a parallel search are rows of its table.
LEMMA RowsTyped ==
    ASSUME NEW pairs \in Seq(PairRecords), NEW q
    PROVE  /\ RowsOfPairs(pairs, q) \in Seq(RowRecords(pairs))
           /\ \A row \in RowRecords(pairs) : row.zh \in Seq(DOMAIN Normal) /\ row.en \in Seq(DOMAIN Normal)
<1> DEFINE f == [i \in DOMAIN pairs |-> Extended(pairs[i], [position |-> i])]
           places == {i \in DOMAIN pairs : Passes(pairs[i], q)}
<1>1. DOMAIN pairs = 1..Len(pairs) /\ Len(pairs) \in Nat /\ \A i \in DOMAIN pairs : pairs[i] \in PairRecords
  <2> DEFINE R == PairRecords
  <2>1. pairs \in Seq(R)  OBVIOUS
  <2> HIDE DEF R
  <2> QED BY <2>1 DEF R
<1>2. RowsOfPairs(pairs, q) = At(f, places)  BY Zenon DEF RowsOfPairs
<1>3. f \in [1..Len(pairs) -> RowRecords(pairs)]  BY <1>1, Zenon DEF RowRecords
<1>4. places \in SUBSET (1..Len(pairs))  BY <1>1, Zenon
<1> HIDE DEF f, places
<1>5. At(f, places) \in Seq(RowRecords(pairs))  BY <1>1, <1>3, <1>4, AtElements, Zenon
<1>6. \A row \in RowRecords(pairs) : row.zh \in Seq(DOMAIN Normal) /\ row.en \in Seq(DOMAIN Normal)
  <2> SUFFICES ASSUME NEW i \in DOMAIN pairs
               PROVE  /\ Extended(pairs[i], [position |-> i]).zh \in Seq(DOMAIN Normal)
                      /\ Extended(pairs[i], [position |-> i]).en \in Seq(DOMAIN Normal)
    BY Zenon DEF RowRecords
  <2> DEFINE pair == pairs[i]
             W == Seq(DOMAIN Normal)
  <2>1. "zh" \in DOMAIN pair /\ "en" \in DOMAIN pair /\ pair.zh \in W /\ pair.en \in W
    <3>1. pair \in [zh : W, en : W, unit : STRING, method : STRING, confidence : Nat, zhFile : STRING, enFile : STRING]
      BY <1>1, Zenon DEF PairRecords
    <3> HIDE DEF pair, W
    <3> QED BY <3>1
  <2> HIDE DEF pair, W
  <2>2. Extended(pair, [position |-> i]).zh \in W /\ Extended(pair, [position |-> i]).en \in W
    BY <2>1 DEF Extended
  <2> QED BY <2>2 DEF pair, W
<1> QED BY <1>2, <1>5, <1>6, Zenon

-----------------------------------------------------------------------------
(* Occurrences *)

\* The marked spans of a finite set are a sequence.
LEMMA MarkedIsSequence ==
    ASSUME NEW spans, IsFiniteSet(spans)
    PROVE  \E X : Marked(spans) \in Seq(X)
<1> DEFINE X == {InText(spans)[i] : i \in 1..Cardinality(spans)}
<1>1. \A i \in 1..Cardinality(spans) : InText(spans)[i] \in X  BY Zenon
<1> HIDE DEF X
<1>2. Marked(spans) \in Seq(X)  BY <1>1, MarkedTyped, Zenon
<1> QED BY <1>2, Zenon

\* What is found at some places of a text is finite.
LEMMA PlacedFinite ==
    ASSUME NEW n \in Int, NEW places \in SUBSET (1..n), NEW T, NEW f, Image(T, f, places)
    PROVE  IsFiniteSet(T)
<1>1. IsFiniteSet(1..n)
  <2>1. 1 \in Int  OBVIOUS
  <2> QED BY <2>1, FS_Interval, Zenon
<1>2. IsFiniteSet(places)  BY <1>1, FS_Subset, Zenon
<1> QED BY <1>2, ImageFinite, Zenon

\* The occurrences of a term in a text are a sequence (_literal_spans).
LEMMA LiteralSpansTyped ==
    ASSUME NEW S, NEW words \in Seq(S), NEW terms, IsList(terms), NEW case
    PROVE  \E X : LiteralSpans(words, terms, case) \in Seq(X)
<1> DEFINE Same(i, j) == Accepts([term |-> terms[j], whole |-> TRUE, case |-> case], words[i + j - 1])
           Within(i) == Accepts([term |-> terms[1], whole |-> FALSE, case |-> case], words[i])
           last == Len(words) - Len(terms) + 1
           starts == {k \in 1..last : \A j \in DOMAIN terms : Same(k, j)}
           insides == {k \in DOMAIN words : ~Same(k, 1) /\ Within(k)}
           f == [i \in starts |-> [from |-> StartOf(i), to |-> EndOf(i + Len(terms) - 1)]]
           g == [i \in insides |-> [from |-> StartOf(i), to |-> EndOf(i) - 1]]
           full == {f[i] : i \in starts}
           parts == {g[i] : i \in insides}
           partial == IF Len(terms) # 1 THEN {} ELSE parts
<1>1. LiteralSpans(words, terms, case) = IF terms = <<>> THEN <<>> ELSE Marked(full \cup partial)
  <2>1. full = {[from |-> StartOf(i), to |-> EndOf(i + Len(terms) - 1)] : i \in starts}  BY Zenon
  <2>2. parts = {[from |-> StartOf(i), to |-> EndOf(i) - 1] : i \in insides}  BY Zenon
  <2> HIDE DEF full, parts
  <2> QED BY <2>1, <2>2, Zenon DEF LiteralSpans
<1>2. Len(words) \in Nat /\ DOMAIN words = 1..Len(words) /\ Len(terms) \in Nat  BY DEF IsList
<1>3. last \in Int /\ starts \in SUBSET (1..last)
  <2>1. last \in Int  BY <1>2
  <2>2. starts \in SUBSET (1..last)  BY Zenon
  <2> QED BY <2>1, <2>2, Zenon
<1>4. Len(words) \in Int /\ insides \in SUBSET (1..Len(words))
  <2>1. insides \in SUBSET (DOMAIN words)  BY Zenon
  <2> HIDE DEF insides
  <2> QED BY <1>2, <2>1
<1>5. Image(full, f, starts) /\ Image(parts, g, insides)  BY Zenon DEF Image
<1> HIDE DEF full, parts, f, g, starts, insides, last
<1>6. IsFiniteSet(full)  BY <1>3, <1>5, PlacedFinite, Zenon
<1>7. IsFiniteSet(parts)  BY <1>4, <1>5, PlacedFinite, Zenon
<1>8. IsFiniteSet(partial)  BY <1>7, FS_EmptySet, Zenon
<1>9. IsFiniteSet(full \cup partial)
  <2> HIDE DEF partial
  <2> QED BY <1>6, <1>8, FS_Union, Zenon
<1> DEFINE spans == full \cup partial
<1> HIDE DEF partial, spans
<1>10. \E X : Marked(spans) \in Seq(X)
  <2>1. IsFiniteSet(spans)  BY <1>9 DEF spans
  <2> QED BY <2>1, MarkedIsSequence, Zenon
<1>11. \E X : <<>> \in Seq(X)  BY EmptySeq, Zenon
<1> QED BY <1>1, <1>10, <1>11, Zenon DEF spans

\* So are those that begin and end where words do (_term_spans).
LEMMA TermSpansTyped ==
    ASSUME NEW S, NEW words \in Seq(S), NEW terms, IsList(terms), NEW q
    PROVE  \E X : TermSpans(words, terms, q) \in Seq(X)
<1> DEFINE spans == LiteralSpans(words, terms, q.case)
           places == {k \in DOMAIN spans :
                      \E i, j \in DOMAIN words : spans[k].from = StartOf(i) /\ spans[k].to = EndOf(j)}
<1>1. PICK X : spans \in Seq(X)  BY LiteralSpansTyped, Zenon
<1>2. TermSpans(words, terms, q) = IF q.whole THEN At(spans, places) ELSE spans
  BY Zenon DEF TermSpans, WholeWords
<1>3. places \in SUBSET (DOMAIN spans)  BY Zenon
<1> HIDE DEF spans, places
<1>4. DOMAIN spans = 1..Len(spans) /\ Len(spans) \in Nat  BY <1>1, LenProperties, Zenon
<1>5. IsFiniteSet(places)  BY <1>3, <1>4, PlacesAreFinite, Zenon
<1>6. \E Y : At(spans, places) \in Seq(Y)  BY <1>5, AtIsSequence, Zenon
<1> QED BY <1>1, <1>2, <1>6, Zenon

\* The fields of a parallel search once its form has been filled in.
PairFields ==
    {"mode", "terms", "side", "zh", "en", "zhNot", "enNot", "file", "confidence", "unit", "whole", "case", "sort",
     "context", "nth", "page", "size"}

PairQuery(q) ==
    /\ PairFields \subseteq DOMAIN q
    /\ q.page \in Int /\ q.size \in Nat \ {0} /\ q.context \in Nat
    /\ IsList(q.terms) /\ IsList(q.zh) /\ IsList(q.en) /\ IsList(q.sort)

\* The occurrences of the anchor in a row are a sequence (_expand_occurrences).
LEMMA OccurrencesTyped ==
    ASSUME NEW row, NEW S, row.zh \in Seq(S), row.en \in Seq(S), NEW q, PairQuery(q)
    PROVE  \E X : OccurrencesOf(row, q) \in Seq(X)
<1> DEFINE terms == Anchor(q).terms
           words == Text(row, Anchor(q).side)
           spans == TermSpans(words, terms, q)
           none == <<[row |-> row, ordinal |-> 1, span |-> NoSpan]>>
           all == [i \in DOMAIN spans |-> [row |-> row, ordinal |-> i, span |-> spans[i]]]
<1>1. OccurrencesOf(row, q) = IF terms = <<>> THEN none ELSE all  BY Zenon DEF OccurrencesOf
<1>2. IsList(terms)
  <2>1. terms \in {q.terms, q.zh, q.en, <<>>}  BY DEF Anchor
  <2>2. IsList(<<>>)  BY EmptySeq, Zenon DEF IsList
  <2> HIDE DEF terms
  <2> QED BY <2>1, <2>2, Zenon DEF PairQuery
<1>3. words \in Seq(S)  BY Zenon DEF Text
<1> HIDE DEF terms, words
<1>4. PICK X : spans \in Seq(X)  BY <1>2, <1>3, TermSpansTyped, Zenon
<1> HIDE DEF spans
<1>5. DOMAIN spans = 1..Len(spans) /\ Len(spans) \in Nat  BY <1>4, LenProperties, Zenon
<1>6. all = [i \in 1..Len(spans) |-> all[i]]
  <2> DEFINE Value(i) == [row |-> row, ordinal |-> i, span |-> spans[i]]
  <2>1. all = [i \in 1..Len(spans) |-> Value(i)]  BY <1>5, Zenon
  <2> HIDE DEF all, Value
  <2> QED BY <2>1, Zenon
<1> HIDE DEF all
<1>7. \E Y : all \in Seq(Y)  BY <1>5, <1>6, FunctionIsSequence, Zenon
<1>8. \E Y : none \in Seq(Y)
  <2> DEFINE x == [row |-> row, ordinal |-> 1, span |-> NoSpan]
  <2> HIDE DEF x
  <2>1. <<x>> \in Seq({x})  OBVIOUS
  <2> QED BY <2>1, Zenon DEF x
<1> HIDE DEF none
<1> QED BY <1>1, <1>7, <1>8, Zenon

\* So are the occurrences in all rows.
LEMMA ExpandedTyped ==
    ASSUME NEW pairs \in Seq(PairRecords), NEW q, PairQuery(q)
    PROVE  \E X : Expanded(RowsOfPairs(pairs, q), q) \in Seq(X)
<1> DEFINE rows == RowsOfPairs(pairs, q)
           seqs == [i \in DOMAIN rows |-> OccurrencesOf(rows[i], q)]
           R == RowRecords(pairs)
           W == DOMAIN Normal
<1>1. rows \in Seq(R) /\ \A row \in R : row.zh \in Seq(W) /\ row.en \in Seq(W)  BY RowsTyped, Zenon
<1>2. Expanded(rows, q) = FlattenSeq(seqs)  BY Zenon DEF Expanded
<1> HIDE DEF rows, R, W
<1>3. DOMAIN rows = 1..Len(rows) /\ Len(rows) \in Nat /\ \A i \in 1..Len(rows) : rows[i] \in R  BY <1>1
<1>4. \A i \in 1..Len(rows) : \E Y : seqs[i] \in Seq(Y)
  <2> TAKE i \in 1..Len(rows)
  <2> DEFINE row == rows[i]
  <2>1. row.zh \in Seq(W) /\ row.en \in Seq(W)  BY <1>1, <1>3, Zenon
  <2>2. seqs[i] = OccurrencesOf(row, q)  BY <1>3, Zenon
  <2> HIDE DEF row, seqs
  <2>3. \E Y : OccurrencesOf(row, q) \in Seq(Y)  BY <2>1, OccurrencesTyped, Zenon
  <2> QED BY <2>2, <2>3, Zenon
<1>5. seqs = [i \in 1..Len(rows) |-> seqs[i]]
  <2>1. seqs = [i \in 1..Len(rows) |-> OccurrencesOf(rows[i], q)]  BY <1>3, Zenon
  <2> HIDE DEF seqs
  <2> QED BY <2>1, Zenon
<1> HIDE DEF seqs
<1>6. PICK Y : seqs \in [1..Len(rows) -> Seq(Y)]  BY <1>4, <1>5, CommonElements, Zenon
<1>7. FlattenSeq(seqs) \in Seq(Y)  BY <1>3, <1>6, FlattenTyped, Zenon
<1> QED BY <1>2, <1>7, Zenon DEF rows

-----------------------------------------------------------------------------
(* Occurrences in order *)

\* Every nth occurrence: a sequence with its number of elements.
LEMMA ThinnedTyped ==
    ASSUME NEW X, NEW s \in Seq(X), NEW n \in Nat \ {0}
    PROVE  Thinned(s, n) \in Seq(X) /\ Len(Thinned(s, n)) = CeilDiv(Len(s), n)
<1> DEFINE m == CeilDiv(Len(s), n)
<1>1. Len(s) \in Nat /\ \A i \in 1..Len(s) : s[i] \in X  OBVIOUS
<1>2. m \in Nat /\ \A i \in 1..m : (i - 1) * n + 1 \in 1..Len(s)
  <2>1. CASE Len(s) = 0
    <3>1. m = 0
      <4>1. m = (n - 1) \div n  BY <2>1 DEF CeilDiv
      <4>2. (n - 1) \div n = 0  OBVIOUS
      <4> QED BY <4>1, <4>2
    <3> HIDE DEF m
    <3> QED BY <3>1
  <2>2. CASE Len(s) # 0
    <3> DEFINE a == Len(s)
    <3>1. a \in Nat \ {0}  BY <1>1, <2>2
    <3> HIDE DEF a
    <3>2. CeilDiv(a, n) \in Nat \ {0} /\ (CeilDiv(a, n) - 1) * n < a  BY <3>1, CeilDivBounds
    <3> DEFINE k == CeilDiv(a, n)
    <3> HIDE DEF k
    <3>3. \A i \in 1..k : (i - 1) * n + 1 \in 1..a
      <4> SUFFICES ASSUME NEW i \in 1..k PROVE (i - 1) * n + 1 \in 1..a
        OBVIOUS
      <4>1. k \in Nat \ {0} /\ (k - 1) * n < a  BY <3>2 DEF k
      <4>2. (i - 1) * n <= (k - 1) * n /\ (i - 1) * n \in Nat  BY <4>1
      <4> QED BY <3>1, <4>1, <4>2
    <3> QED BY <3>2, <3>3, Zenon DEF a, k
  <2> QED BY <2>1, <2>2, Zenon
<1>3. Thinned(s, n) = [i \in 1..m |-> s[(i - 1) * n + 1]]  BY Zenon DEF Thinned
<1> HIDE DEF m
<1>4. Thinned(s, n) \in [1..m -> X]  BY <1>1, <1>2, <1>3
<1>5. Thinned(s, n) \in Seq(X) /\ Len(Thinned(s, n)) = m  BY <1>2, <1>4, LenOfFunction
<1> QED BY <1>5, Zenon DEF m

\* The sorted occurrences are a sequence.
LEMMA SortedOccurrencesTyped ==
    ASSUME NEW X, NEW s \in Seq(X), NEW q
    PROVE  \E Y : SortedOccurrences(s, q) \in Seq(Y)
<1> DEFINE S == ToSet(s)
           n == Cardinality(S)
           Before(o, p) == SeqLess(OccurrenceKey(o, q), OccurrenceKey(p, q))
           places == {[at |-> Cardinality({y \in S : Before(y, x)}), element |-> x] : x \in S}
           Element(i) == (CHOOSE p \in places : p.at = i - 1).element
           ordered == [i \in 1..n |-> Element(i)]
<1>1. SortedOccurrences(s, q) = IF q.sort = <<>> THEN s ELSE ordered  BY Zenon DEF SortedOccurrences, InOrder
<1>2. n \in Nat  BY ElementsFinite, Zenon
<1> HIDE DEF n, Element
<1>3. ordered = [i \in 1..n |-> ordered[i]]  BY Zenon
<1> HIDE DEF ordered
<1>4. \E Y : ordered \in Seq(Y)  BY <1>2, <1>3, FunctionIsSequence, Zenon
<1> QED BY <1>1, <1>4, Zenon

\* The occurrences that a parallel search shows, in order.
PairOrder(pairs, q) == SortedOccurrences(Thinned(Expanded(RowsOfPairs(pairs, q), q), q.nth), q)

\* A valid parallel search has its occurrences in an order.
LEMMA PairOrderIsSequence ==
    ASSUME NEW pairs \in Seq(PairRecords), NEW q, PairQuery(q), ValidPairQuery(q)
    PROVE  \E X : PairOrder(pairs, q) \in Seq(X)
<1> DEFINE raw == Expanded(RowsOfPairs(pairs, q), q)
           thinned == Thinned(raw, q.nth)
<1>1. PICK X : raw \in Seq(X)  BY ExpandedTyped, Zenon
<1>2. q.nth \in Nat \ {0}  BY DEF ValidPairQuery
<1> HIDE DEF raw
<1>3. thinned \in Seq(X)  BY <1>1, <1>2, ThinnedTyped, Zenon
<1> HIDE DEF thinned
<1>4. \E Y : SortedOccurrences(thinned, q) \in Seq(Y)  BY <1>3, SortedOccurrencesTyped, Zenon
<1> QED BY <1>4, Zenon DEF PairOrder, thinned, raw

\* Two searches that differ in the page only.
SamePairs(q, s) ==
    /\ q.mode = s.mode /\ q.terms = s.terms /\ q.side = s.side /\ q.zh = s.zh /\ q.en = s.en /\ q.zhNot = s.zhNot
    /\ q.enNot = s.enNot /\ q.file = s.file /\ q.confidence = s.confidence /\ q.unit = s.unit /\ q.whole = s.whole
    /\ q.case = s.case /\ q.sort = s.sort /\ q.nth = s.nth

\* The spans of a term do not depend on the page.
LEMMA SameTermSpans ==
    ASSUME NEW q, NEW s, SamePairs(q, s), NEW words, NEW terms
    PROVE  TermSpans(words, terms, q) = TermSpans(words, terms, s)
<1>1. q.case = s.case /\ q.whole = s.whole  BY DEF SamePairs
<1> QED BY <1>1, Zenon DEF TermSpans

\* Nor does the anchor.
LEMMA SameAnchor ==
    ASSUME NEW q, NEW s, SamePairs(q, s)
    PROVE  Anchor(q) = Anchor(s)
<1>1. q.terms = s.terms /\ q.side = s.side /\ q.zh = s.zh /\ q.en = s.en  BY DEF SamePairs
<1> QED BY <1>1 DEF Anchor

\* Nor do the conditions on a row.
LEMMA SamePasses ==
    ASSUME NEW q, NEW s, SamePairs(q, s), NEW pair
    PROVE  Passes(pair, q) = Passes(pair, s)
<1>1. \A words, terms : TermSpans(words, terms, q) = TermSpans(words, terms, s)  BY SameTermSpans, Zenon
<1>2. \A side, terms : /\ Includes(pair, side, terms, q) = Includes(pair, side, terms, s)
                       /\ Lacks(pair, side, terms, q) = Lacks(pair, side, terms, s)
  BY <1>1 DEF Includes, Lacks
<1>3. /\ q.unit = s.unit /\ q.file = s.file /\ q.confidence = s.confidence /\ q.side = s.side /\ q.terms = s.terms
      /\ q.zh = s.zh /\ q.en = s.en /\ q.zhNot = s.zhNot /\ q.enNot = s.enNot
  BY Zenon DEF SamePairs
<1> DEFINE Given(p) == /\ Includes(pair, p.side, p.terms, p)
                       /\ Includes(pair, "zh", p.zh, p) /\ Includes(pair, "en", p.en, p)
                       /\ Lacks(pair, "zh", p.zhNot, p) /\ Lacks(pair, "en", p.enNot, p)
           Rest(p) == /\ pair.unit = p.unit
                      /\ p.file # "" => p.file \in {pair.zhFile, pair.enFile}
                      /\ pair.confidence >= p.confidence
<1>4. Given(q) <=> Given(s)  BY <1>2, <1>3, Zenon
<1>5. Rest(q) <=> Rest(s)  BY <1>3, Zenon
<1>6. \A p : Passes(pair, p) = (Rest(p) /\ Given(p))  BY Zenon DEF Passes
<1> HIDE DEF Given, Rest
<1> QED BY <1>4, <1>5, <1>6, Zenon

\* Nor do the rows.
LEMMA SameRows ==
    ASSUME NEW q, NEW s, SamePairs(q, s), NEW pairs
    PROVE  RowsOfPairs(pairs, q) = RowsOfPairs(pairs, s)
<1> DEFINE f == [i \in DOMAIN pairs |-> Extended(pairs[i], [position |-> i])]
           A == {i \in DOMAIN pairs : Passes(pairs[i], q)}
           B == {i \in DOMAIN pairs : Passes(pairs[i], s)}
<1>1. A = B
  <2>1. \A i : Passes(pairs[i], q) = Passes(pairs[i], s)  BY SamePasses, Zenon
  <2> QED BY <2>1
<1>2. RowsOfPairs(pairs, q) = At(f, A) /\ RowsOfPairs(pairs, s) = At(f, B)  BY Zenon DEF RowsOfPairs
<1> HIDE DEF f, A, B
<1> QED BY <1>1, <1>2, Zenon

\* Nor do the occurrences.
LEMMA SameExpanded ==
    ASSUME NEW q, NEW s, SamePairs(q, s), NEW rows
    PROVE  Expanded(rows, q) = Expanded(rows, s)
<1> DEFINE A == [i \in DOMAIN rows |-> OccurrencesOf(rows[i], q)]
           B == [i \in DOMAIN rows |-> OccurrencesOf(rows[i], s)]
<1>1. \A row : OccurrencesOf(row, q) = OccurrencesOf(row, s)
  <2> TAKE row
  <2> DEFINE terms == Anchor(q).terms
             side == Anchor(q).side
  <2>1. TermSpans(Text(row, side), terms, q) = TermSpans(Text(row, side), terms, s)  BY SameTermSpans, Zenon
  <2>2. Anchor(s) = Anchor(q)  BY SameAnchor, Zenon
  <2> DEFINE Value(spans) == IF terms = <<>> THEN <<[row |-> row, ordinal |-> 1, span |-> NoSpan]>>
                             ELSE [i \in DOMAIN spans |-> [row |-> row, ordinal |-> i, span |-> spans[i]]]
  <2>3. OccurrencesOf(row, q) = Value(TermSpans(Text(row, side), terms, q))  BY Zenon DEF OccurrencesOf
  <2>4. OccurrencesOf(row, s) = Value(TermSpans(Text(row, side), terms, s))  BY <2>2, Zenon DEF OccurrencesOf
  <2> HIDE DEF Value, terms, side
  <2> QED BY <2>1, <2>3, <2>4, Zenon
<1>2. A = B  BY <1>1, Zenon
<1>3. Expanded(rows, q) = FlattenSeq(A) /\ Expanded(rows, s) = FlattenSeq(B)  BY Zenon DEF Expanded
<1> HIDE DEF A, B
<1> QED BY <1>2, <1>3, Zenon

\* Nor does their order.
LEMMA SameSortedOccurrences ==
    ASSUME NEW q, NEW s, SamePairs(q, s), NEW occurrences
    PROVE  SortedOccurrences(occurrences, q) = SortedOccurrences(occurrences, s)
<1> DEFINE S == ToSet(occurrences)
           Places(p) == {[at |-> Cardinality({y \in S : SeqLess(OccurrenceKey(y, p), OccurrenceKey(x, p))}),
                          element |-> x] : x \in S}
           Value(places) == [i \in 1..Cardinality(S) |-> (CHOOSE p \in places : p.at = i - 1).element]
<1>1. q.sort = s.sort /\ Anchor(q) = Anchor(s)  BY SameAnchor DEF SamePairs
<1>2. \A o : OccurrenceKey(o, q) = OccurrenceKey(o, s)  BY <1>1, Zenon DEF OccurrenceKey
<1>3. \A p : SortedOccurrences(occurrences, p) = IF p.sort = <<>> THEN occurrences ELSE Value(Places(p))
  BY Zenon DEF SortedOccurrences, InOrder
<1>4. Places(q) = Places(s)
  <2> DEFINE Before(x, p) == {y \in S : SeqLess(OccurrenceKey(y, p), OccurrenceKey(x, p))}
             Placed(x, p) == [at |-> Cardinality(Before(x, p)), element |-> x]
  <2>1. \A x : Placed(x, q) = Placed(x, s)
    <3> TAKE x
    <3>1. \A y : SeqLess(OccurrenceKey(y, q), OccurrenceKey(x, q)) = SeqLess(OccurrenceKey(y, s), OccurrenceKey(x, s))
      BY <1>2, SMT
    <3> DEFINE Less(y, p) == SeqLess(OccurrenceKey(y, p), OccurrenceKey(x, p))
    <3>2. \A y : Less(y, q) = Less(y, s)  BY <3>1, Zenon
    <3> HIDE DEF Less, S
    <3>3. {y \in S : Less(y, q)} = {y \in S : Less(y, s)}  BY <3>2
    <3>4. Before(x, q) = Before(x, s)  BY <3>3, Zenon DEF Less
    <3> HIDE DEF Before
    <3> QED BY <3>4, Zenon
  <2>2. \A p : Places(p) = {Placed(x, p) : x \in S}  BY Zenon
  <2> HIDE DEF Placed, Places, S
  <2>3. {Placed(x, q) : x \in S} = {Placed(x, s) : x \in S}  BY <2>1
  <2> QED BY <2>2, <2>3, Zenon
<1> HIDE DEF Places, Value
<1> QED BY <1>1, <1>3, <1>4, Zenon

\* The pages of a parallel search are cut from the same occurrences, and are refused for the same queries.
LEMMA SamePairOrder ==
    ASSUME NEW q, NEW s, SamePairs(q, s), NEW pairs
    PROVE  PairOrder(pairs, q) = PairOrder(pairs, s) /\ ValidPairQuery(q) = ValidPairQuery(s)
<1>1. RowsOfPairs(pairs, q) = RowsOfPairs(pairs, s)  BY SameRows, Zenon
<1>2. \A rows : Expanded(rows, q) = Expanded(rows, s)  BY SameExpanded, Zenon
<1>3. \A o : SortedOccurrences(o, q) = SortedOccurrences(o, s)  BY SameSortedOccurrences, Zenon
<1>4. /\ q.nth = s.nth /\ q.mode = s.mode /\ q.terms = s.terms /\ q.zh = s.zh /\ q.en = s.en  BY DEF SamePairs
<1>5. PairOrder(pairs, q) = PairOrder(pairs, s)  BY <1>1, <1>2, <1>3, <1>4 DEF PairOrder
<1>6. ValidPairQuery(q) = ValidPairQuery(s)  BY <1>4 DEF ValidPairQuery
<1> QED BY <1>5, <1>6, Zenon

-----------------------------------------------------------------------------
(* Answers to a parallel search *)

\* The form of the concordance makes a query.
LEMMA KwicFormIsQuery ==
    ASSUME NEW r \in RequestsOf("kwic"), NEW languages
    PROVE  KwicQuery(KwicForm(r, languages))
  BY KwicFormFields, Zenon DEF KwicQuery

\* The form of the parallel search makes a query (ParallelSearchForm).
LEMMA PairFormFields ==
    ASSUME NEW r \in RequestsOf("pairs"), NEW units
    PROVE  PairQuery(PairForm(r, units))
<1> DEFINE defaults ==
      [mode |-> "search", terms |-> <<>>, side |-> "zh", zh |-> <<>>, en |-> <<>>, zhNot |-> <<>>, enNot |-> <<>>,
              file |-> "", confidence |-> 0, unit |-> units[1], whole |-> FALSE, case |-> FALSE, sort |-> <<>>,
              context |-> 20, nth |-> 1, page |-> 1, size |-> 50]
           q == Extended(r, defaults)
<1>1. PICK p \in Requests : p.query = r /\ p.view = "pairs"  BY Zenon DEF RequestsOf
<1>0. q = PairForm(r, units)  BY Zenon DEF PairForm
<1>2. "page" \in DOMAIN r => r["page"] \in Int  BY <1>1, RequestsAssumption
<1>3. "size" \in DOMAIN r => r["size"] \in Nat \ {0}
  <2>1. "size" \in DOMAIN r => r.size \in Int /\ r.size >= 1  BY <1>1, RequestsAssumption
  <2> QED BY <2>1
<1>3a. "context" \in DOMAIN r => r["context"] \in Nat
  <2>1. "context" \in DOMAIN r => r.context \in Nat  BY <1>1, RequestsAssumption
  <2> QED BY <2>1
<1>4. \A f \in {"terms", "zh", "en", "sort"} : f \in DOMAIN r => IsList(r[f])
  <2>1. \A f \in {"terms", "list", "items", "sort", "zh", "en"} \cap DOMAIN r : IsList(r[f])
    BY <1>1, RequestsAssumption, Zenon
  <2> QED BY <2>1, Zenon
<1>5. IsList(<<>>)  BY EmptySeq, Zenon DEF IsList
<1>6. /\ DOMAIN defaults = PairFields /\ defaults["page"] = 1 /\ defaults["size"] = 50 /\ defaults["context"] = 20
      /\ \A f \in {"terms", "zh", "en", "sort"} : defaults[f] = <<>>
  BY DEF PairFields
<1> HIDE DEF defaults
<1>7. PairFields \subseteq DOMAIN q  BY <1>6 DEF Extended
<1>8. q["page"] \in Int /\ q["size"] \in Nat \ {0} /\ q["context"] \in Nat
  <2>1. \A f \in {"page", "size", "context"} : q[f] = IF f \in DOMAIN r THEN r[f] ELSE defaults[f]
    BY <1>6 DEF Extended, PairFields
  <2> HIDE DEF q
  <2> QED BY <2>1, <1>2, <1>3, <1>3a, <1>6
<1>9. \A f \in {"terms", "zh", "en", "sort"} : IsList(q[f])
  <2>1. \A f \in {"terms", "zh", "en", "sort"} : q[f] = IF f \in DOMAIN r THEN r[f] ELSE defaults[f]
    BY <1>6 DEF Extended, PairFields
  <2> HIDE DEF q
  <2> QED BY <2>1, <1>4, <1>5, <1>6
<1> HIDE DEF q
<1>10. PairQuery(q)  BY <1>7, <1>8, <1>9 DEF PairQuery
<1> QED BY <1>0, <1>10, Zenon

\* An answer to a search of pairs that shows page p of the occurrences in order.
ShowsPairs(answer, ordered, p, size) ==
    /\ ~IsError(answer)
    /\ answer.total = Len(ordered)
    /\ answer.page = EffectivePage(p, NumPages(Len(ordered), size))
    /\ answer.pages = NumPages(Len(ordered), size)
    /\ answer.hits = [i \in DOMAIN PageOf(ordered, p, size) |-> answer.hits[i]]
    /\ \A i \in DOMAIN PageOf(ordered, p, size) :
            /\ answer.hits[i].position = PageOf(ordered, p, size)[i].row.position
            /\ answer.hits[i].ordinal = PageOf(ordered, p, size)[i].ordinal

\* A parallel search refuses the invalid queries and shows a page of its occurrences for all others.
LEMMA PairSearchAnswers ==
    ASSUME NEW pairs, NEW q
    PROVE  /\ ~ValidPairQuery(q) => IsError(PairSearch(pairs, q))
           /\ ValidPairQuery(q) => ShowsPairs(PairSearch(pairs, q), PairOrder(pairs, q), q.page, q.size)
<1> DEFINE rows == RowsOfPairs(pairs, q)
           raw == Expanded(rows, q)
           kept == PairOrder(pairs, q)
           shown == PageOf(kept, q.page, q.size)
           quality == Quality(rows)
           length == Len(raw)
           hits == [i \in DOMAIN shown |-> RowToHit(shown[i], q)]
           page == EffectivePage(q.page, NumPages(Len(kept), q.size))
           pages == NumPages(Len(kept), q.size)
           total == Len(kept)
           answer == [hits |-> hits, total |-> total, raw |-> length, quality |-> quality, page |-> page, pages |-> pages]
<1>1. PairSearch(pairs, q) = IF ~ValidPairQuery(q) THEN QueryError ELSE answer
  BY Zenon DEF PairSearch, PairOrder
<1>2. CASE ~ValidPairQuery(q)
  <2>1. PairSearch(pairs, q) = QueryError  BY <1>1, <1>2, Zenon
  <2>2. IsError(QueryError)  BY DEF IsError, QueryError
  <2> QED BY <1>2, <2>1, <2>2, Zenon
<1>3. CASE ValidPairQuery(q)
  <2>1. \A o : RowToHit(o, q).position = o.row.position /\ RowToHit(o, q).ordinal = o.ordinal  BY DEF RowToHit
  <2>2. /\ hits = [i \in DOMAIN shown |-> hits[i]]
        /\ \A i \in DOMAIN shown : hits[i].position = shown[i].row.position /\ hits[i].ordinal = shown[i].ordinal
    <3>1. \A i \in DOMAIN shown : hits[i] = RowToHit(shown[i], q)  BY Zenon
    <3>2. hits = [i \in DOMAIN shown |-> hits[i]]  BY Zenon
    <3> HIDE DEF hits, shown
    <3> QED BY <2>1, <3>1, <3>2, Zenon
  <2> HIDE DEF quality, length, hits, page, pages, total, shown, kept
  <2>3. /\ answer.hits = hits /\ answer.total = total /\ answer.page = page /\ answer.pages = pages
        /\ ~IsError(answer)
    BY DEF IsError
  <2> HIDE DEF answer
  <2>4. PairSearch(pairs, q) = answer  BY <1>1, <1>3, Zenon
  <2>5. ShowsPairs(answer, kept, q.page, q.size)
    BY <2>2, <2>3, Zenon DEF ShowsPairs, page, pages, total, shown
  <2> QED BY <1>3, <2>4, <2>5, Zenon DEF kept
<1> QED BY <1>2, <1>3, Zenon

-----------------------------------------------------------------------------
(* Turning the pages of a parallel search, and its export *)

\* Where the occurrences of a sequence are.
OccurrencePlaces(s) == [i \in DOMAIN s |-> [position |-> s[i].row.position, ordinal |-> s[i].ordinal]]

\* Turning the page keeps the parallel search.
LEMMA SamePageOfPairs ==
    ASSUME NEW q, PairQuery(q), NEW p, NEW s, OnPage(s, q, p)
    PROVE  SamePairs(q, s) /\ s.page = p /\ s.size = q.size
<1>1. s = [q EXCEPT !.page = p] /\ PairFields \subseteq DOMAIN q  BY Zenon DEF OnPage, PairQuery
<1>2. s.page = p  BY <1>1 DEF PairFields
<1>3. \A f \in PairFields \ {"page"} : s[f] = q[f]  BY <1>1
<1> QED BY <1>2, <1>3 DEF SamePairs, PairFields

\* A hit of pairs that stands for an occurrence.
StandsFor(s, t) ==
    /\ Len(s) = Len(t)
    /\ \A i \in 1..Len(s) : s[i].position = t[i].row.position /\ s[i].ordinal = t[i].ordinal

\* A list of n sequences of hits, each of the occurrences in another list.
ListsOfPairs(n, seqs, sems) ==
    /\ n \in Nat \ {0}
    /\ seqs = [p \in 1..n |-> seqs[p]] /\ sems = [p \in 1..n |-> sems[p]]
    /\ \A p \in 1..n : (\E Y : seqs[p] \in Seq(Y)) /\ (\E X : sems[p] \in Seq(X)) /\ StandsFor(seqs[p], sems[p])

\* When the hits of every page stand for its occurrences, all hits stand for all occurrences.
LEMMA JoinedPairs ==
    ASSUME NEW n, NEW seqs, NEW sems, ListsOfPairs(n, seqs, sems)
    PROVE  PlacesOf(FlattenSeq(seqs)) = OccurrencePlaces(FlattenSeq(sems))
<1>1. PICK Y : seqs \in [1..n -> Seq(Y)]
  <2>1. seqs = [p \in 1..n |-> seqs[p]] /\ \A p \in 1..n : \E Y : seqs[p] \in Seq(Y)  BY Zenon DEF ListsOfPairs
  <2> QED BY <2>1, CommonElements, Zenon
<1>2. PICK X : sems \in [1..n -> Seq(X)]
  <2>1. sems = [p \in 1..n |-> sems[p]] /\ \A p \in 1..n : \E X : sems[p] \in Seq(X)  BY Zenon DEF ListsOfPairs
  <2> QED BY <2>1, CommonElements, Zenon
<1>3. n \in Nat \ {0} /\ \A p \in 1..n : StandsFor(seqs[p], sems[p])  BY Zenon DEF ListsOfPairs
<1> DEFINE Rel == {d \in Y \X X : d[1].position = d[2].row.position /\ d[1].ordinal = d[2].ordinal}
<1>4. \A p \in 1..n : Related(seqs[p], sems[p], Rel)
  <2> SUFFICES ASSUME NEW p \in 1..n PROVE Related(seqs[p], sems[p], Rel)
    OBVIOUS
  <2> DEFINE s == seqs[p]
             t == sems[p]
  <2>1. s \in Seq(Y) /\ t \in Seq(X) /\ StandsFor(s, t)  BY <1>1, <1>2, <1>3, Zenon
  <2> HIDE DEF s, t
  <2>2. \A i \in 1..Len(s) : <<s[i], t[i]>> \in Rel
    <3> TAKE i \in 1..Len(s)
    <3>1. s[i] \in Y /\ t[i] \in X  BY <2>1 DEF StandsFor
    <3> QED BY <2>1, <3>1 DEF StandsFor
  <2> HIDE DEF Rel
  <2> QED BY <2>1, <2>2, Zenon DEF Related, StandsFor, s, t
<1> DEFINE a == FlattenSeq(seqs)
           b == FlattenSeq(sems)
<1>5. Related(a, b, Rel)
  <2> HIDE DEF Rel
  <2> QED BY <1>1, <1>2, <1>3, <1>4, FlattenRelated, Zenon
<1>6. a \in Seq(Y) /\ b \in Seq(X)
  <2>1. n \in Nat  BY <1>3
  <2> QED BY <1>1, <1>2, <2>1, FlattenTyped, Zenon
<1> HIDE DEF a, b
<1>7. PlacesOf(a) = OccurrencePlaces(b)
  <2>1. DOMAIN a = 1..Len(a) /\ DOMAIN b = 1..Len(a)  BY <1>5, <1>6 DEF Related
  <2>2. \A i \in 1..Len(a) : a[i].position = b[i].row.position /\ a[i].ordinal = b[i].ordinal
    <3> TAKE i \in 1..Len(a)
    <3>1. <<a[i], b[i]>> \in Rel  BY <1>5, Zenon DEF Related
    <3> QED BY <3>1
  <2> QED BY <2>1, <2>2 DEF PlacesOf, OccurrencePlaces
<1> QED BY <1>7 DEF a, b

\* The pages of a parallel search, turned one after the other, are the occurrences in order.
LEMMA TurnedPairs ==
    ASSUME NEW pairs \in Seq(PairRecords), NEW q, PairQuery(q), ~IsError(PairSearch(pairs, q)),
           NEW pages, pages = PairSearch(pairs, q).pages
    PROVE  PlacesOf(FlattenSeq([p \in 1..pages |-> PairSearch(pairs, [q EXCEPT !.page = p]).hits])) =
                OccurrencePlaces(PairOrder(pairs, q))
<1> DEFINE ordered == PairOrder(pairs, q)
           size == q.size
           s(p) == [q EXCEPT !.page = p]
           seqs == [p \in 1..pages |-> PairSearch(pairs, s(p)).hits]
           sems == [p \in 1..pages |-> PageOf(ordered, p, size)]
<1>1. ValidPairQuery(q) /\ ShowsPairs(PairSearch(pairs, q), ordered, q.page, size)  BY PairSearchAnswers, Zenon
<1>2. PICK X : ordered \in Seq(X)  BY <1>1, PairOrderIsSequence, Zenon
<1>3. Len(ordered) \in Nat /\ size \in Nat \ {0}
  <2>1. size \in Nat \ {0}  BY Zenon DEF PairQuery
  <2> QED BY <1>2, <2>1, LenProperties, Zenon
<1>4. pages = NumPages(Len(ordered), size)  BY <1>1, Zenon DEF ShowsPairs
<1> HIDE DEF ordered, size
<1>5. pages \in Nat \ {0}  BY <1>3, <1>4, PagesCount
<1>6. \A p \in 1..pages : /\ sems[p] \in Seq(X)
                          /\ \E Y : seqs[p] \in Seq(Y)
                          /\ StandsFor(seqs[p], sems[p])
  <2> SUFFICES ASSUME NEW p \in 1..pages
               PROVE  sems[p] \in Seq(X) /\ (\E Y : seqs[p] \in Seq(Y)) /\ StandsFor(seqs[p], sems[p])
    OBVIOUS
  <2> DEFINE shown == PageOf(ordered, p, size)
             t == s(p)
             answer == PairSearch(pairs, t)
             hits == answer.hits
  <2>1. p \in Nat \ {0}  BY <1>5
  <2>2. shown \in Seq(X)  BY <1>2, <1>3, <2>1, PageIsPart, Zenon
  <2>3. OnPage(t, q, p)  BY <2>1, Zenon DEF OnPage
  <2>4. seqs[p] = hits /\ sems[p] = shown  BY Zenon
  <2> HIDE DEF t, shown
  <2>5. SamePairs(q, t) /\ t.page = p /\ t.size = size  BY <2>3, SamePageOfPairs, Zenon DEF size
  <2>6. PairOrder(pairs, t) = ordered /\ ValidPairQuery(t)
    <3>1. PairOrder(pairs, q) = PairOrder(pairs, t) /\ ValidPairQuery(q) = ValidPairQuery(t)
      BY <2>5, SamePairOrder, Zenon
    <3> QED BY <1>1, <3>1, Zenon DEF ordered
  <2>7. ShowsPairs(answer, ordered, p, size)  BY <2>5, <2>6, PairSearchAnswers, Zenon
  <2> HIDE DEF answer
  <2>8. /\ hits = [i \in DOMAIN shown |-> hits[i]]
        /\ \A i \in DOMAIN shown : hits[i].position = shown[i].row.position /\ hits[i].ordinal = shown[i].ordinal
    BY <2>7, Zenon DEF ShowsPairs, shown
  <2> HIDE DEF hits
  <2>9. DOMAIN shown = 1..Len(shown) /\ Len(shown) \in Nat  BY <2>2, LenProperties, Zenon
  <2>10. (\E Y : hits \in Seq(Y)) /\ Len(hits) = Len(shown)
    <3>1. hits = [i \in 1..Len(shown) |-> hits[i]]  BY <2>8, <2>9, Zenon
    <3> QED BY <2>9, <3>1, FunctionIsSequence, Zenon
  <2>11. StandsFor(hits, shown)  BY <2>8, <2>9, <2>10, Zenon DEF StandsFor
  <2> HIDE DEF seqs, sems
  <2> QED BY <2>2, <2>4, <2>10, <2>11, Zenon
<1>7. sems = [p \in 1..pages |-> sems[p]] /\ seqs = [p \in 1..pages |-> seqs[p]]  BY Zenon
<1>8. FlattenSeq(sems) = ordered  BY <1>2, <1>3, <1>4, PagesJoined, Zenon
<1> HIDE DEF seqs, sems
<1>9. ListsOfPairs(pages, seqs, sems)  BY <1>5, <1>6, <1>7, Zenon DEF ListsOfPairs
<1>10. PlacesOf(FlattenSeq(seqs)) = OccurrencePlaces(FlattenSeq(sems))  BY <1>9, JoinedPairs, Zenon
<1> QED BY <1>8, <1>10, Zenon DEF ordered, seqs

\* The export of pairs has a row for every occurrence in order.
LEMMA PairsExported ==
    ASSUME NEW pairs, NEW q, ValidPairQuery(q)
    PROVE  PairExportRows(pairs, q).rows = OccurrencePlaces(PairOrder(pairs, q))
<1> DEFINE kept == PairOrder(pairs, q)
           rows == OccurrencePlaces(kept)
<1>1. PairExportRows(pairs, q) = [rows |-> rows]  BY Zenon DEF PairExportRows, PairOrder, OccurrencePlaces
<1> HIDE DEF rows
<1>2. [rows |-> rows].rows = rows  OBVIOUS
<1> QED BY <1>1, <1>2, Zenon DEF rows

\* The export of a concordance, page by page: what is behind a page is that page longer.
LEMMA ExportGrows ==
    ASSUME NEW X, NEW ordered \in Seq(X), NEW p \in 1..NumPages(Len(ordered), ExportSize)
    PROVE  HitsOf(FirstPages(ordered, ExportSize, p - 1)) \o HitsOf(PageOf(ordered, p, ExportSize)) =
                HitsOf(FirstPages(ordered, ExportSize, p))
<1> DEFINE n == Len(ordered)
           before == FirstPages(ordered, ExportSize, p - 1)
           page == PageOf(ordered, p, ExportSize)
<1>1. ExportSize \in Nat \ {0} /\ n \in Nat  BY BoundsAssumption, LenProperties
<1>2. p \in Nat \ {0}  BY <1>1, PagesCount
<1>3. page \in Seq(X)  BY <1>1, <1>2, PageIsPart, Zenon
<1>4. before \in Seq(X)
  <2>1. Lower((p - 1) * ExportSize, n) \in 0..n  BY <1>1, <1>2 DEF Lower
  <2> QED BY <2>1, <1>1, SubSeqProperties DEF FirstPages
<1>5. FirstPages(ordered, ExportSize, p) = before \o page  BY <1>1, NextPage, Zenon
<1> HIDE DEF before, page
<1> QED BY <1>3, <1>4, <1>5, HitsOfConcat, Zenon DEF before, page

\* What a query of collocates is made of.
CollocateFields ==
    {"lang", "terms", "leftSpan", "rightSpan", "minFrequency", "minRange", "tag", "symbols", "by", "size", "page"}

CollocateQuery(q) ==
    /\ CollocateFields \subseteq DOMAIN q
    /\ q.page \in Int /\ q.leftSpan \in Int /\ q.rightSpan \in Int /\ q.size \in Nat \ {0}
    /\ IsList(q.terms) /\ ToSet(q.terms) \subseteq DOMAIN Normal

\* The form of the collocates makes a query (CollocateForm).
LEMMA CollocateFormFields ==
    ASSUME NEW r \in RequestsOf("collocates"), NEW languages
    PROVE  CollocateQuery(CollocateForm(r, languages))
<1> DEFINE defaults ==
      [lang |-> languages[1], terms |-> <<>>, leftSpan |-> 5, rightSpan |-> 5, minFrequency |-> 2, minRange |-> 1,
              tag |-> "", symbols |-> FALSE, by |-> "log_dice", size |-> 50, page |-> 1]
           q == Extended(r, defaults)
<1>1. PICK p \in Requests : p.query = r /\ p.view = "collocates"  BY Zenon DEF RequestsOf
<1>0. q = CollocateForm(r, languages)  BY Zenon DEF CollocateForm
<1>2. \A f \in {"page", "leftSpan", "rightSpan"} : f \in DOMAIN r => r[f] \in Int  BY <1>1, RequestsAssumption
<1>3. "size" \in DOMAIN r => r["size"] \in Nat \ {0}
  <2>1. "size" \in DOMAIN r => r.size \in Int /\ r.size >= 1  BY <1>1, RequestsAssumption
  <2> QED BY <2>1
<1>4. "terms" \in DOMAIN r => IsList(r["terms"]) /\ ToSet(r["terms"]) \subseteq DOMAIN Normal
  <2>1. \A f \in {"terms", "list", "items", "sort", "zh", "en"} \cap DOMAIN r : IsList(r[f])
    BY <1>1, RequestsAssumption, Zenon
  <2>2. "terms" \in DOMAIN r => ToSet(r.terms) \subseteq DOMAIN Normal  BY <1>1, RequestsAssumption, Zenon
  <2> QED BY <2>1, <2>2, Zenon
<1>5. IsList(<<>>) /\ ToSet(<<>>) \subseteq DOMAIN Normal
  <2>1. IsList(<<>>)  BY EmptySeq, Zenon DEF IsList
  <2>2. ToSet(<<>>) = {}  BY DEF ToSet
  <2> QED BY <2>1, <2>2, Zenon
<1>6. /\ DOMAIN defaults = CollocateFields /\ defaults["page"] = 1 /\ defaults["size"] = 50
      /\ defaults["leftSpan"] = 5 /\ defaults["rightSpan"] = 5 /\ defaults["terms"] = <<>>
  BY DEF CollocateFields
<1> HIDE DEF defaults
<1>7. CollocateFields \subseteq DOMAIN q  BY <1>6 DEF Extended
<1>8. \A f \in {"page", "leftSpan", "rightSpan", "size", "terms"} : q[f] = IF f \in DOMAIN r THEN r[f] ELSE defaults[f]
  BY <1>6 DEF Extended, CollocateFields
<1> HIDE DEF q
<1>9. q["page"] \in Int /\ q["leftSpan"] \in Int /\ q["rightSpan"] \in Int /\ q["size"] \in Nat \ {0}
  BY <1>8, <1>2, <1>3, <1>6
<1>10. IsList(q["terms"]) /\ ToSet(q["terms"]) \subseteq DOMAIN Normal
  <2>1. q["terms"] = IF "terms" \in DOMAIN r THEN r["terms"] ELSE <<>>  BY <1>8, <1>6
  <2> QED BY <2>1, <1>4, <1>5, Zenon
<1>11. CollocateQuery(q)  BY <1>7, <1>9, <1>10 DEF CollocateQuery
<1> QED BY <1>0, <1>11, Zenon

\* What a query of a word list, and one of n-grams, is made of.
WordsFields ==
    {"lang", "display", "minFrequency", "minRange", "filter", "tag", "symbols", "by", "size", "page", "case", "invert",
     "listMode", "listTerms"}
WordsQuery(q) == WordsFields \subseteq DOMAIN q /\ q.page \in Int /\ q.size \in Nat \ {0}

GramsFields == {"lang", "n", "slot", "minFrequency", "minRange", "filter", "symbols", "by", "size", "page"}
GramsQuery(q) == GramsFields \subseteq DOMAIN q /\ q.page \in Int /\ q.size \in Nat \ {0} /\ q.slot \in Nat

\* A query with the fields of a form: page, size and slot are numbers.
TakesForm(q, defaults) ==
    /\ DOMAIN defaults \subseteq DOMAIN q /\ q["page"] \in Int /\ q["size"] \in Nat \ {0}
    /\ "slot" \in DOMAIN defaults /\ defaults["slot"] \in Nat => q["slot"] \in Nat

\* A form takes what a request says, and the rest from its defaults.
LEMMA FormFields ==
    ASSUME NEW tool, tool # "kwic", NEW r \in RequestsOf(tool), NEW defaults, {"page", "size"} \subseteq DOMAIN defaults,
           defaults["page"] \in Int, defaults["size"] \in Nat \ {0}
    PROVE  TakesForm(Extended(r, defaults), defaults)
<1> DEFINE q == Extended(r, defaults)
<1>1. PICK p \in Requests : p.query = r /\ p.view = tool  BY Zenon DEF RequestsOf
<1>2. ("page" \in DOMAIN r => r["page"] \in Int) /\ ("size" \in DOMAIN r => r["size"] \in Int)
  BY <1>1, RequestsAssumption
<1>3. "size" \in DOMAIN r => r["size"] \in Nat \ {0}
  <2>1. "size" \in DOMAIN r => r.size >= 1  BY <1>1, RequestsAssumption, Zenon
  <2> QED BY <1>2, <2>1
<1>4. "slot" \in DOMAIN r => r["slot"] \in Nat
  <2>1. "slot" \in DOMAIN r => r.slot \in Nat  BY <1>1, RequestsAssumption, Zenon
  <2> QED BY <2>1
<1>5. DOMAIN defaults \subseteq DOMAIN q /\ \A f \in DOMAIN defaults : q[f] = IF f \in DOMAIN r THEN r[f] ELSE defaults[f]
  BY DEF Extended
<1> HIDE DEF q
<1>6. q["page"] \in Int /\ q["size"] \in Nat \ {0}  BY <1>2, <1>3, <1>5
<1>7. "slot" \in DOMAIN defaults /\ defaults["slot"] \in Nat => q["slot"] \in Nat  BY <1>4, <1>5
<1> QED BY <1>5, <1>6, <1>7, Zenon DEF TakesForm, q

\* The forms of a word list and of n-grams make a query (WordListForm, NgramForm).
LEMMA WordsFormFields ==
    ASSUME NEW r \in RequestsOf("words"), NEW languages
    PROVE  WordsQuery(WordListForm(r, languages))
<1> DEFINE blank == ""
           defaults ==
      [lang |-> languages[1], display |-> "type", minFrequency |-> 1, minRange |-> 1, filter |-> blank, tag |-> blank,
              symbols |-> FALSE, by |-> "frequency", size |-> 50, page |-> 1, case |-> FALSE, invert |-> FALSE,
              listMode |-> "none", listTerms |-> {}]
           q == Extended(r, defaults)
<1>1. q = WordListForm(r, languages)  BY Zenon DEF WordListForm
<1> HIDE DEF blank
<1>2. DOMAIN defaults = WordsFields /\ defaults["page"] = 1 /\ defaults["size"] = 50  BY DEF WordsFields
<1>3. {"page", "size"} \subseteq DOMAIN defaults /\ defaults["page"] \in Int /\ defaults["size"] \in Nat \ {0}
  BY <1>2 DEF WordsFields
<1> HIDE DEF defaults
<1>4. DOMAIN defaults \subseteq DOMAIN q /\ q["page"] \in Int /\ q["size"] \in Nat \ {0}
  BY <1>3, FormFields, "words" # "kwic" DEF TakesForm
<1> QED BY <1>1, <1>2, <1>4, Zenon DEF WordsQuery

\* So does the form of n-grams.
LEMMA GramsFormFields ==
    ASSUME NEW r \in RequestsOf("ngrams"), NEW languages
    PROVE  GramsQuery(NgramForm(r, languages))
<1> DEFINE blank == ""
           defaults ==
      [lang |-> languages[1], n |-> 2, slot |-> 0, minFrequency |-> 2, minRange |-> 1, filter |-> blank,
              symbols |-> FALSE, by |-> "frequency", size |-> 50, page |-> 1]
           q == Extended(r, defaults)
<1>1. q = NgramForm(r, languages)  BY Zenon DEF NgramForm
<1> HIDE DEF blank
<1>2. DOMAIN defaults = GramsFields /\ defaults["page"] = 1 /\ defaults["size"] = 50 /\ defaults["slot"] = 0
  BY DEF GramsFields
<1>3. /\ {"page", "size"} \subseteq DOMAIN defaults /\ defaults["page"] \in Int /\ defaults["size"] \in Nat \ {0}
      /\ "slot" \in DOMAIN defaults /\ defaults["slot"] \in Nat
  BY <1>2 DEF GramsFields
<1> HIDE DEF defaults
<1>4. DOMAIN defaults \subseteq DOMAIN q /\ q["page"] \in Int /\ q["size"] \in Nat \ {0} /\ q["slot"] \in Nat
  BY <1>3, FormFields, "ngrams" # "kwic" DEF TakesForm
<1> QED BY <1>1, <1>2, <1>4, Zenon DEF GramsQuery

-----------------------------------------------------------------------------
(* The inductive invariant *)

\* A file is opened from a hit: one of the concordance of its own corpus,
\* unless that was published in between.
OpenedFrom(page, hit, from) ==
    /\ page.answer = Extended(FileView(page.corpus.index, page.query, hit.doc, hit.row), [row |-> hit.row, from |-> from])
    /\ from = page.version =>
            /\ ~IsError(KwicSearch(page.corpus.index, page.query))
            /\ \E i \in DOMAIN KwicSearch(page.corpus.index, page.query).hits :
                    hit = KwicSearch(page.corpus.index, page.query).hits[i]

\* A word list and n-grams answer a query, or are an error.
WordsShown(index, page) ==
    WordsQuery(page.query) /\ (IsError(page.answer) \/ (page.answer = WordList(index, page.query) /\ page.query.page >= 1))
GramsShown(index, page) ==
    GramsQuery(page.query) /\ (IsError(page.answer) \/ (page.answer = Ngrams(index, page.query) /\ page.query.page >= 1))

\* A page shows what the tool answers for its query on the corpus it was opened on.
ShownPage(page) ==
    /\ DOMAIN page = {"query", "answer", "view", "corpus", "version"}
    /\ \E c \in Corpora : page.corpus = Artifacts(c)
    /\ page.view = "kwic" =>
            /\ KwicQuery(page.query)
            /\ \/ IsError(page.answer)
               \/ page.answer = KwicSearch(page.corpus.index, page.query) /\ page.query.windowFrom <= page.query.windowTo
    /\ page.view = "pairs" =>
            /\ PairQuery(page.query)
            /\ \/ IsError(page.answer)
               \/ page.answer = PairSearch(page.corpus.pairs, page.query) /\ page.query.page >= 1
    /\ page.view = "collocates" =>
            /\ CollocateQuery(page.query)
            /\ \/ IsError(page.answer)
               \/ page.answer = Collocates(page.corpus.index, page.query) /\ page.query.page >= 1
    /\ page.view = "words" => WordsShown(page.corpus.index, page)
    /\ page.view = "ngrams" => GramsShown(page.corpus.index, page)
    /\ page.view = "file" => KwicQuery(page.query) /\ \E hit, from : OpenedFrom(page, hit, from)

\* The rows that an export of a concordance has written are the hits of the
\* whole result on the pages before the one it comes to.
WrittenHits(page, exported) ==
    LET ordered == SearchOrder(page.corpus.index, page.query) IN
    /\ exported.state = "running" =>
            /\ exported.page \in 1..NumPages(Len(ordered), ExportSize)
            /\ exported.rows = HitsOf(FirstPages(ordered, ExportSize, exported.page - 1))
    /\ exported.state = "done" => exported.rows = HitsOf(ordered)

\* The rows of an export of pairs are the occurrences in order.
WrittenPairs(page, exported) ==
    exported.state = "done" /\ (exported.streamed \/ page.query = ExportedConditions(page.query)) =>
        exported.rows = OccurrencePlaces(PairOrder(page.corpus.pairs, page.query))

\* An export whose pages so far were all read from the corpus of its screen
\* holds what the screen asks for.
Written(page, exported) ==
    /\ exported.state # "none" => page.view \in {"kwic", "pairs"} /\ ~IsError(page.answer)
    /\ page.view = "kwic" /\ exported.versions \subseteq {page.version} => WrittenHits(page, exported)
    /\ page.view = "pairs" /\ exported.versions \subseteq {page.version} => WrittenPairs(page, exported)

ExportFields == {"state", "streamed", "rows", "page", "versions"}

ExportTyped(exported, upTo) ==
    /\ DOMAIN exported = ExportFields
    /\ exported.state \in {"none", "running", "done", "failed"}
    /\ exported.versions \subseteq 1..upTo
    /\ exported.state = "none" => exported = NoExport
    /\ exported.state = "running" => exported.streamed = FALSE

PagesInvariant ==
    /\ version \in 1..MaxPublications
    /\ \E c \in Corpora : corpus = Artifacts(c)
    /\ \/ visit = NoVisit
       \/ /\ ShownPage(visit)
          /\ visit.version \in 1..version
          /\ visit.version = version => visit.corpus = corpus
    /\ ExportTyped(export, version)
    /\ Written(visit, export)

\* Before an export there is nothing to compare.
LEMMA NoExportWritten ==
    ASSUME NEW page
    PROVE  Written(page, NoExport)
<1>1. NoExport.state = "none"  BY DEF NoExport
<1> QED BY <1>1 DEF Written, WrittenHits, WrittenPairs

\* Before an export its record is that of the first state.
LEMMA NoExportTyped ==
    ASSUME NEW upTo
    PROVE  ExportTyped(NoExport, upTo)
  BY DEF ExportTyped, ExportFields, NoExport

\* The invariant holds at first.
LEMMA PagesInit ==
    Init => PagesInvariant
<1> SUFFICES ASSUME Init PROVE PagesInvariant
  OBVIOUS
<1>1. visit = NoVisit /\ export = NoExport /\ version = 1 /\ \E c \in Corpora : corpus = Artifacts(c)
  BY DEF Init
<1>2. version \in 1..MaxPublications  BY <1>1, BoundsAssumption
<1> QED BY <1>1, <1>2, NoExportWritten, NoExportTyped, Zenon DEF PagesInvariant

\* What a tool gives to the page that shows it.
Fits(tool, page) ==
    /\ tool \notin {"none", "file"}
    /\ tool = "kwic" =>
            /\ KwicQuery(page.query)
            /\ \/ IsError(page.answer)
               \/ page.answer = KwicSearch(corpus.index, page.query) /\ page.query.windowFrom <= page.query.windowTo
    /\ tool = "pairs" =>
            /\ PairQuery(page.query)
            /\ IsError(page.answer) \/ (page.answer = PairSearch(corpus.pairs, page.query) /\ page.query.page >= 1)
    /\ tool = "collocates" =>
            /\ CollocateQuery(page.query)
            /\ IsError(page.answer) \/ (page.answer = Collocates(corpus.index, page.query) /\ page.query.page >= 1)
    /\ tool = "words" => WordsShown(corpus.index, page)
    /\ tool = "ngrams" => GramsShown(corpus.index, page)

\* Every tool keeps it if what it shows fits to the corpus that is published.
LEMMA NewPage ==
    ASSUME PagesInvariant, NEW tool, NEW page, Fits(tool, page), Answered(tool, page)
    PROVE  PagesInvariant'
<1> DEFINE shown == [query |-> page.query, answer |-> page.answer, view |-> tool, corpus |-> corpus, version |-> version]
<1>1. visit = NoVisit /\ visit' = shown /\ UNCHANGED <<corpus, version, export>>  BY Zenon DEF Answered
<1>2. /\ shown.query = page.query /\ shown.answer = page.answer /\ shown.view = tool
      /\ shown.corpus = corpus /\ shown.version = version
      /\ DOMAIN shown = {"query", "answer", "view", "corpus", "version"}
  OBVIOUS
<1> HIDE DEF shown
<1>3. ShownPage(shown)
  <2>1. \E c \in Corpora : shown.corpus = Artifacts(c)  BY <1>2, Zenon DEF PagesInvariant
  <2>2. tool # "file"  BY DEF Fits
  <2> QED BY <1>2, <2>1, <2>2, Zenon DEF ShownPage, Fits, WordsShown, GramsShown
<1>4. version \in 1..version  BY BoundsAssumption DEF PagesInvariant
<1>5. export = NoExport
  <2>1. NoVisit.view = "none"  BY DEF NoVisit
  <2>2. export.state = "none"  BY <1>1, <2>1 DEF PagesInvariant, Written
  <2> QED BY <2>2, Zenon DEF PagesInvariant, ExportTyped
<1>6. visit' = shown /\ corpus' = corpus /\ version' = version /\ export' = NoExport  BY <1>1, <1>5
<1> QED BY <1>2, <1>3, <1>4, <1>6, NoExportWritten, NoExportTyped, Zenon DEF PagesInvariant

\* The concordance keeps it (kwic_search).
LEMMA KwicPageStep == PagesInvariant /\ KwicPage => PagesInvariant'
<1> SUFFICES ASSUME PagesInvariant, NEW r \in RequestsOf("kwic"),
                    Answered("kwic", KwicView(corpus.index, corpus.languages, r))
             PROVE  PagesInvariant'
  BY Zenon DEF KwicPage
<1> DEFINE page == KwicView(corpus.index, corpus.languages, r)
           q == KwicForm(r, corpus.languages)
           answer == IF FormAccepts(q, corpus.languages) THEN KwicSearch(corpus.index, q) ELSE QueryError
<1>1. KwicQuery(q)  BY KwicFormIsQuery, Zenon
<1>2. page = [query |-> q, answer |-> answer]  BY Zenon DEF KwicView
<1>3. IsError(answer) \/ (answer = KwicSearch(corpus.index, q) /\ q.windowFrom <= q.windowTo)
  <2>1. IsError(QueryError)  BY DEF IsError, QueryError
  <2>2. FormAccepts(q, corpus.languages) => q.windowFrom <= q.windowTo  BY Zenon DEF FormAccepts
  <2> QED BY <2>1, <2>2, Zenon
<1> HIDE DEF q, answer
<1>4. page.query = q /\ page.answer = answer  BY <1>2
<1> HIDE DEF page
<1>5. Fits("kwic", page)  BY <1>1, <1>3, <1>4 DEF Fits
<1> QED BY <1>5, NewPage, Zenon DEF page

\* The parallel search keeps it (parallel_search).
LEMMA PairPageStep == PagesInvariant /\ PairPage => PagesInvariant'
<1> SUFFICES ASSUME PagesInvariant, NEW r \in RequestsOf("pairs"),
                    Answered("pairs", PairView(corpus.pairs, corpus.units, r))
             PROVE  PagesInvariant'
  BY Zenon DEF PairPage
<1> DEFINE page == PairView(corpus.pairs, corpus.units, r)
           q == PairForm(r, corpus.units)
           answer == IF q.unit \notin ToSet(corpus.units) \/ q.page < 1 THEN QueryError ELSE PairSearch(corpus.pairs, q)
<1>1. PairQuery(q)  BY PairFormFields, Zenon
<1>2. page = [query |-> q, answer |-> answer]  BY Zenon DEF PairView
<1> HIDE DEF q
<1>3. IsError(answer) \/ (answer = PairSearch(corpus.pairs, q) /\ q.page >= 1)
  <2>1. IsError(QueryError)  BY DEF IsError, QueryError
  <2>2. ~(q.page < 1) => q.page >= 1  BY <1>1 DEF PairQuery
  <2> QED BY <2>1, <2>2, Zenon
<1> HIDE DEF answer
<1>4. page.query = q /\ page.answer = answer  BY <1>2
<1> HIDE DEF page
<1>5. Fits("pairs", page)  BY <1>1, <1>3, <1>4 DEF Fits
<1> QED BY <1>5, NewPage, Zenon DEF page

\* The collocates keep it (collocates).
LEMMA CollocatePageStep == PagesInvariant /\ CollocatePage => PagesInvariant'
<1> SUFFICES ASSUME PagesInvariant, NEW r \in RequestsOf("collocates"),
                    Answered("collocates", CollocateView(corpus.index, corpus.languages, r))
             PROVE  PagesInvariant'
  BY Zenon DEF CollocatePage
<1> DEFINE page == CollocateView(corpus.index, corpus.languages, r)
           q == CollocateForm(r, corpus.languages)
           answer == IF LanguageRefused(q, corpus.languages) \/ QueryFails(q) \/ (q.leftSpan = 0 /\ q.rightSpan = 0)
                     THEN QueryError ELSE Collocates(corpus.index, q)
<1>1. CollocateQuery(q)  BY CollocateFormFields, Zenon
<1>2. page = [query |-> q, answer |-> answer]  BY Zenon DEF CollocateView, View
<1> HIDE DEF q
<1>3. IsError(answer) \/ (answer = Collocates(corpus.index, q) /\ q.page >= 1)
  <2>1. IsError(QueryError)  BY DEF IsError, QueryError
  <2>2. ~LanguageRefused(q, corpus.languages) => ~(q.page < 1)
    BY <1>1 DEF LanguageRefused, CollocateQuery, CollocateFields
  <2>3. ~(q.page < 1) => q.page >= 1  BY <1>1 DEF CollocateQuery
  <2> QED BY <2>1, <2>2, <2>3, Zenon
<1> HIDE DEF answer
<1>4. page.query = q /\ page.answer = answer  BY <1>2
<1> HIDE DEF page
<1>5. Fits("collocates", page)  BY <1>1, <1>3, <1>4 DEF Fits
<1> QED BY <1>5, NewPage, Zenon DEF page

\* The word list keeps it (word_list).
LEMMA WordListPageStep == PagesInvariant /\ WordListPage => PagesInvariant'
<1> SUFFICES ASSUME PagesInvariant, NEW r \in RequestsOf("words"),
                    Answered("words", WordListView(corpus.index, corpus.languages, r))
             PROVE  PagesInvariant'
  BY Zenon DEF WordListPage
<1> DEFINE page == WordListView(corpus.index, corpus.languages, r)
           q == WordListForm(r, corpus.languages)
           answer == IF WordListRefused(q, corpus.languages) THEN QueryError ELSE WordList(corpus.index, q)
<1>1. WordsQuery(q)  BY WordsFormFields, Zenon
<1>2. page = [query |-> q, answer |-> answer]  BY Zenon DEF WordListView, View
<1> HIDE DEF q
<1>3. IsError(answer) \/ (answer = WordList(corpus.index, q) /\ q.page >= 1)
  <2>1. IsError(QueryError)  BY DEF IsError, QueryError
  <2>2. "page" \in DOMAIN q /\ q.page \in Int  BY <1>1 DEF WordsQuery, WordsFields
  <2>3. ~WordListRefused(q, corpus.languages) => ~(q.page < 1)
    BY <2>2, Zenon DEF WordListRefused, LanguageRefused
  <2>4. ~(q.page < 1) => q.page >= 1  BY <2>2
  <2> QED BY <2>1, <2>3, <2>4, Zenon
<1> HIDE DEF answer
<1>4. page.query = q /\ page.answer = answer  BY <1>2
<1> HIDE DEF page
<1>5. Fits("words", page)
  <2>1. WordsShown(corpus.index, page)  BY <1>1, <1>3, <1>4, Zenon DEF WordsShown
  <2> QED BY <2>1 DEF Fits
<1> QED BY <1>5, NewPage, Zenon DEF page

\* The n-grams keep it (ngrams).
LEMMA NgramPageStep == PagesInvariant /\ NgramPage => PagesInvariant'
<1> SUFFICES ASSUME PagesInvariant, NEW r \in RequestsOf("ngrams"),
                    Answered("ngrams", NgramView(corpus.index, corpus.languages, r))
             PROVE  PagesInvariant'
  BY Zenon DEF NgramPage
<1> DEFINE page == NgramView(corpus.index, corpus.languages, r)
           q == NgramForm(r, corpus.languages)
           answer == IF LanguageRefused(q, corpus.languages) \/ q.slot > q.n THEN QueryError ELSE Ngrams(corpus.index, q)
<1>1. GramsQuery(q)  BY GramsFormFields, Zenon
<1>2. page = [query |-> q, answer |-> answer]  BY Zenon DEF NgramView, View
<1> HIDE DEF q
<1>3. IsError(answer) \/ (answer = Ngrams(corpus.index, q) /\ q.page >= 1)
  <2>1. IsError(QueryError)  BY DEF IsError, QueryError
  <2>2. "page" \in DOMAIN q /\ q.page \in Int  BY <1>1 DEF GramsQuery, GramsFields
  <2>3. ~LanguageRefused(q, corpus.languages) => ~(q.page < 1)  BY <2>2, Zenon DEF LanguageRefused
  <2>4. ~(q.page < 1) => q.page >= 1  BY <2>2
  <2> QED BY <2>1, <2>3, <2>4, Zenon
<1> HIDE DEF answer
<1>4. page.query = q /\ page.answer = answer  BY <1>2
<1> HIDE DEF page
<1>5. Fits("ngrams", page)
  <2>1. GramsShown(corpus.index, page)  BY <1>1, <1>3, <1>4, Zenon DEF GramsShown
  <2> QED BY <2>1 DEF Fits
<1> QED BY <1>5, NewPage, Zenon DEF page

\* The other tools, of which nothing more has to be known.
LEMMA StatisticsPageStep ==
    PagesInvariant /\ (ClusterPage \/ KeywordPage \/ WordcloudPage \/ PlotPage) => PagesInvariant'
<1> SUFFICES ASSUME PagesInvariant, NEW tool \in {"clusters", "keywords", "cloud", "plot"}, NEW page, Answered(tool, page)
             PROVE  PagesInvariant'
  BY Zenon DEF ClusterPage, KeywordPage, WordcloudPage, PlotPage
<1>1. tool \notin {"none", "file", "kwic", "pairs", "collocates", "words", "ngrams"}  OBVIOUS
<1>2. Fits(tool, page)  BY <1>1 DEF Fits
<1> QED BY <1>2, NewPage, Zenon

\* The view of a file keeps it (file_view): there is no export of it.
LEMMA FilePageStep == PagesInvariant /\ FilePage => PagesInvariant'
<1> SUFFICES ASSUME PagesInvariant, FilePage PROVE PagesInvariant'
  OBVIOUS
<1>1. visit # NoVisit
  <2>1. visit.view = "kwic"  BY Zenon DEF FilePage
  <2> QED BY <2>1 DEF NoVisit
<1>2. DOMAIN visit = {"query", "answer", "view", "corpus", "version"}
  BY <1>1, Zenon DEF PagesInvariant, ShownPage
<1> DEFINE Answer(hit) == Extended(FileView(corpus.index, visit.query, hit.doc, hit.row),
                                   [row |-> hit.row, from |-> visit.version])
<1>3. PICK i \in DOMAIN visit.answer.hits :
          visit' = [visit EXCEPT !.view = "file", !.corpus = corpus, !.version = version,
                                 !.answer = Answer(visit.answer.hits[i])]
  BY Zenon DEF FilePage
<1> DEFINE hit == visit.answer.hits[i]
<1> HIDE DEF Answer, hit
<1>3a. visit' = [visit EXCEPT !.view = "file", !.corpus = corpus, !.version = version, !.answer = Answer(hit)]
  BY <1>3, Zenon DEF hit
<1>4. /\ DOMAIN visit' = {"query", "answer", "view", "corpus", "version"}
      /\ visit'.view = "file" /\ visit'.corpus = corpus /\ visit'.version = version
      /\ visit'.query = visit.query /\ visit'.answer = Answer(hit)
  BY <1>2, <1>3a
<1>5. corpus' = corpus /\ version' = version /\ export' = export /\ export = NoExport
  <2>1. export.state = "none" /\ corpus' = corpus /\ version' = version /\ export' = export  BY DEF FilePage
  <2> QED BY <2>1, Zenon DEF PagesInvariant, ExportTyped
<1>6. version \in 1..version  BY BoundsAssumption DEF PagesInvariant
<1>7. ShownPage(visit')
  <2>1. \E c \in Corpora : visit'.corpus = Artifacts(c)  BY <1>4, Zenon DEF PagesInvariant
  <2>2. visit'.view \notin {"kwic", "pairs", "collocates", "words", "ngrams"}  BY <1>4
  <2>3. KwicQuery(visit.query) /\ visit.answer = KwicSearch(visit.corpus.index, visit.query)
    <3>1. visit.view = "kwic" /\ ~IsError(visit.answer)  BY Zenon DEF FilePage
    <3> QED BY <1>1, <3>1, Zenon DEF PagesInvariant, ShownPage
  <2>4. visit.version = version => visit.corpus = corpus  BY <1>1, Zenon DEF PagesInvariant
  <2>5. ~IsError(visit.answer)  BY Zenon DEF FilePage
  <2>6. hit = visit.answer.hits[i]  BY Zenon DEF hit
  <2>7. visit.version = version =>
          /\ ~IsError(KwicSearch(corpus.index, visit.query))
          /\ \E j \in DOMAIN KwicSearch(corpus.index, visit.query).hits : hit = KwicSearch(corpus.index, visit.query).hits[j]
    BY <2>3, <2>4, <2>5, <2>6, Zenon
  <2>8. OpenedFrom(visit', hit, visit.version)  BY <1>4, <2>7, Zenon DEF OpenedFrom, Answer
  <2> QED BY <1>4, <2>1, <2>2, <2>3, <2>8, Zenon DEF ShownPage
<1>8. visit'.version \in 1..version' /\ visit'.corpus = corpus' /\ version' \in 1..MaxPublications
      /\ \E c \in Corpora : corpus' = Artifacts(c)
  BY <1>4, <1>5, <1>6, Zenon DEF PagesInvariant
<1>9. ExportTyped(export', version') /\ Written(visit', export')
  BY <1>5, NoExportWritten, NoExportTyped, Zenon
<1> QED BY <1>7, <1>8, <1>9, Zenon DEF PagesInvariant

\* A publication keeps it: the page on the screen is then one of an earlier corpus.
LEMMA PublishStep == PagesInvariant /\ Publish => PagesInvariant'
<1> SUFFICES ASSUME PagesInvariant, Publish PROVE PagesInvariant'
  OBVIOUS
<1>1. visit' = visit /\ export' = export /\ version' = version + 1 /\ version < MaxPublications
      /\ \E c \in Corpora : corpus' = Artifacts(c)
  BY DEF Publish
<1>2. version \in Nat \ {0} /\ version' \in 1..MaxPublications  BY <1>1, BoundsAssumption DEF PagesInvariant
<1>3. visit.version \in 1..version => visit.version \in 1..version' /\ visit.version # version'  BY <1>1, <1>2
<1>4. \/ visit' = NoVisit
      \/ /\ ShownPage(visit')
         /\ visit'.version \in 1..version'
         /\ visit'.version = version' => visit'.corpus = corpus'
  BY <1>1, <1>3, Zenon DEF PagesInvariant
<1>5. 1..version \subseteq 1..version'  BY <1>1, <1>2
<1>6. ExportTyped(export', version')  BY <1>1, <1>5, Zenon DEF PagesInvariant, ExportTyped
<1>7. Written(visit', export')  BY <1>1, Zenon DEF PagesInvariant
<1> QED BY <1>1, <1>2, <1>4, <1>6, <1>7, Zenon DEF PagesInvariant

-----------------------------------------------------------------------------
(* Steps of the export *)

\* What is known of a page of the concordance that can be exported.
Exportable ==
    /\ Tokens(visit.corpus.index.tokens)
    /\ KwicQuery(visit.query) /\ ValidOptions(visit.query) /\ ~Unsound(visit.query)
    /\ visit.answer = KwicSearch(visit.corpus.index, visit.query)
    /\ Answers(visit.corpus.index, visit.query, visit.answer)
    /\ \E X : SearchOrder(visit.corpus.index, visit.query) \in Seq(X)

\* A page of the concordance that is no error is the answer to a sound query.
LEMMA ShownConcordance ==
    ASSUME PagesInvariant, visit.view = "kwic", ~IsError(visit.answer)
    PROVE  Exportable
<1>1. visit # NoVisit  BY DEF NoVisit
<1>2. ShownPage(visit)  BY <1>1, Zenon DEF PagesInvariant
<1>3. PICK c \in Corpora : visit.corpus = Artifacts(c)  BY <1>2, Zenon DEF ShownPage
<1>4. Tokens(visit.corpus.index.tokens)  BY <1>3, ArtifactsFields, Zenon
<1>5. KwicQuery(visit.query) /\ visit.answer = KwicSearch(visit.corpus.index, visit.query)
  BY <1>2, Zenon DEF ShownPage
<1>6. /\ ValidOptions(visit.query) /\ ~Unsound(visit.query)
      /\ Answers(visit.corpus.index, visit.query, visit.answer)
  BY <1>4, <1>5, KwicSearchAnswers, Zenon
<1>7. \E X : SearchOrder(visit.corpus.index, visit.query) \in Seq(X)
  BY <1>4, <1>5, SearchOrderIsSequence, Zenon
<1> QED BY <1>4, <1>5, <1>6, <1>7, Zenon DEF Exportable

\* What is known of a page of pairs that can be exported.
PairsExportable ==
    /\ visit.corpus.pairs \in Seq(PairRecords)
    /\ PairQuery(visit.query) /\ ValidPairQuery(visit.query) /\ visit.query.page >= 1
    /\ visit.answer = PairSearch(visit.corpus.pairs, visit.query)

\* A page of pairs that is no error is the answer to a valid query.
LEMMA ShownPairs ==
    ASSUME PagesInvariant, visit.view = "pairs", ~IsError(visit.answer)
    PROVE  PairsExportable
<1>1. visit # NoVisit  BY DEF NoVisit
<1>2. ShownPage(visit)  BY <1>1, Zenon DEF PagesInvariant
<1>3. PICK c \in Corpora : visit.corpus = Artifacts(c)  BY <1>2, Zenon DEF ShownPage
<1>4. visit.corpus.pairs \in Seq(PairRecords)  BY <1>3, ArtifactsFields, Zenon
<1>5. /\ PairQuery(visit.query) /\ visit.query.page >= 1
      /\ visit.answer = PairSearch(visit.corpus.pairs, visit.query)
  BY <1>2, Zenon DEF ShownPage
<1>6. ValidPairQuery(visit.query)  BY <1>5, PairSearchAnswers, Zenon
<1> QED BY <1>4, <1>5, <1>6, Zenon DEF PairsExportable

\* A step of the export keeps the rest of the invariant.
LEMMA ExportOnly ==
    ASSUME PagesInvariant, UNCHANGED <<corpus, version, visit>>,
           ExportTyped(export', version), Written(visit, export')
    PROVE  PagesInvariant'
<1>1. corpus' = corpus /\ version' = version /\ visit' = visit  OBVIOUS
<1>2. ExportTyped(export', version') /\ Written(visit', export')  BY <1>1, Zenon
<1>3. /\ version' \in 1..MaxPublications
      /\ \E c \in Corpora : corpus' = Artifacts(c)
      /\ \/ visit' = NoVisit
         \/ /\ ShownPage(visit')
            /\ visit'.version \in 1..version'
            /\ visit'.version = version' => visit'.corpus = corpus'
  BY <1>1, Zenon DEF PagesInvariant
<1> QED BY <1>2, <1>3, Zenon DEF PagesInvariant

\* The start of an export keeps the invariant.
LEMMA StartExportStep == PagesInvariant /\ StartExport => PagesInvariant'
<1> SUFFICES ASSUME PagesInvariant, StartExport PROVE PagesInvariant'
  OBVIOUS
<1>1. /\ visit.view \in {"kwic", "pairs"} /\ ~IsError(visit.answer) /\ export.state = "none"
      /\ export' = [export EXCEPT !.state = "running"]
      /\ UNCHANGED <<corpus, version, visit>>
  BY DEF StartExport
<1>2. export = NoExport  BY <1>1, Zenon DEF PagesInvariant, ExportTyped
<1>3. /\ DOMAIN export' = ExportFields /\ export'.state = "running" /\ export'.rows = <<>> /\ export'.page = 1
      /\ export'.versions = {} /\ export'.streamed = FALSE
  BY <1>1, <1>2 DEF NoExport, ExportFields
<1>4. ExportTyped(export', version)  BY <1>3 DEF ExportTyped
<1>5. visit.view = "kwic" => WrittenHits(visit, export')
  <2> SUFFICES ASSUME visit.view = "kwic" PROVE WrittenHits(visit, export')
    OBVIOUS
  <2> DEFINE ordered == SearchOrder(visit.corpus.index, visit.query)
  <2>1. PICK X : ordered \in Seq(X)  BY <1>1, ShownConcordance, Zenon DEF Exportable
  <2> HIDE DEF ordered
  <2>2. FirstPages(ordered, ExportSize, 0) = <<>>  BY <2>1, NoPageAndAll, BoundsAssumption, Zenon
  <2>3. 1 \in 1..NumPages(Len(ordered), ExportSize)  BY <2>1, PagesCount, BoundsAssumption, LenProperties
  <2>4. HitsOf(<<>>) = <<>>  BY DEF HitsOf
  <2>5. export'.page - 1 = 0 /\ export'.state # "done"  BY <1>3
  <2> QED BY <1>3, <2>2, <2>3, <2>4, <2>5, Zenon DEF WrittenHits, ordered
<1>6. WrittenPairs(visit, export')  BY <1>3 DEF WrittenPairs
<1>7. Written(visit, export')  BY <1>1, <1>5, <1>6, Zenon DEF Written
<1> QED BY <1>1, <1>4, <1>7, ExportOnly, Zenon

\* A round of the export of a concordance.
LEMMA ExportKwicPageStep == PagesInvariant /\ ExportKwicPage => PagesInvariant'
<1> SUFFICES ASSUME PagesInvariant, ExportKwicPage PROVE PagesInvariant'
  OBVIOUS
<1> DEFINE q == visit.query
           ordered == SearchOrder(visit.corpus.index, q)
           pages == NumPages(Len(ordered), ExportSize)
           s == [ExportedQuery(q) EXCEPT !.page = export.page]
           result == KwicSearch(corpus.index, s)
           last == export.page >= result.pages
<1>1. visit.view = "kwic" /\ export.state = "running" /\ UNCHANGED <<corpus, version, visit>>
  BY DEF ExportKwicPage
<1>2. export' = WithPage(result)  BY Zenon DEF ExportKwicPage
<1>3. ExportTyped(export, version) /\ Written(visit, export) /\ version \in 1..MaxPublications
  BY Zenon DEF PagesInvariant
<1>4. ~IsError(visit.answer)  BY <1>1, <1>3 DEF Written
<1>5. Exportable  BY <1>1, <1>4, ShownConcordance, Zenon
<1>6. DOMAIN export = ExportFields /\ export.versions \subseteq 1..version /\ export.streamed = FALSE
  BY <1>1, <1>3, Zenon DEF ExportTyped
<1>7. version \in 1..version  BY <1>3, BoundsAssumption
<1>8. CASE IsError(result)
  <2>1. export' = [export EXCEPT !.state = "failed"]  BY <1>2, <1>8, Zenon DEF WithPage
  <2>2. DOMAIN export' = ExportFields /\ export'.state = "failed" /\ export'.versions = export.versions
    BY <1>6, <2>1 DEF ExportFields
  <2>3. ExportTyped(export', version)  BY <1>6, <2>2 DEF ExportTyped
  <2>4. Written(visit, export')  BY <1>1, <1>4, <2>2 DEF Written, WrittenHits
  <2> QED BY <1>1, <2>3, <2>4, ExportOnly, Zenon
<1>9. CASE ~IsError(result)
  <2> DEFINE hits == HitsOf(result.hits)
  <2>1. export' = [export EXCEPT !.state = IF last THEN "done" ELSE "running", !.rows = @ \o hits,
                                 !.page = IF last THEN @ ELSE @ + 1, !.versions = @ \cup {version}]
    BY <1>2, <1>9, Zenon DEF WithPage
  <2> HIDE DEF hits, last
  <2>2. /\ DOMAIN export' = ExportFields
        /\ export'.state = IF last THEN "done" ELSE "running"
        /\ export'.rows = export.rows \o hits
        /\ export'.page = IF last THEN export.page ELSE export.page + 1
        /\ export'.versions = export.versions \cup {version}
        /\ export'.streamed = export.streamed
    BY <1>6, <2>1 DEF ExportFields
  <2>3. ExportTyped(export', version)  BY <1>6, <1>7, <2>2 DEF ExportTyped
  <2>4. ASSUME export'.versions \subseteq {visit.version} PROVE WrittenHits(visit, export')
    <3>1. version = visit.version /\ export.versions \subseteq {visit.version}  BY <2>2, <2>4
    <3>2. visit.corpus = corpus
      <4>1. visit # NoVisit  BY <1>1 DEF NoVisit
      <4> QED BY <3>1, <4>1, Zenon DEF PagesInvariant
    <3>3. export.page \in 1..pages /\ export.rows = HitsOf(FirstPages(ordered, ExportSize, export.page - 1))
      BY <1>1, <1>3, <3>1, Zenon DEF Written, WrittenHits
    <3>4. PICK X : ordered \in Seq(X)  BY <1>5, Zenon DEF Exportable
    <3> HIDE DEF ordered
    <3>5. export.page \in Nat \ {0} /\ pages \in Nat
      <4>1. Len(ordered) \in Nat /\ ExportSize \in Nat \ {0}  BY <3>4, BoundsAssumption, LenProperties, Zenon
      <4>2. pages \in Nat \ {0}  BY <4>1, PagesCount, Zenon
      <4> HIDE DEF pages
      <4> QED BY <3>3, <4>2
    <3>6. ShowsPage(result, ordered, export.page, ExportSize)
      <4> HIDE DEF s, q
      <4>1. ExportedOnPage(s, q, export.page)  BY <3>5, Zenon DEF ExportedOnPage, s
      <4>2. KwicQuery(q) /\ ValidOptions(q) /\ ~Unsound(q) /\ Tokens(corpus.index.tokens)
        BY <1>5, <3>2, Zenon DEF Exportable, q
      <4>3. PageQuery(s, q, export.page, ExportSize, 0)  BY <4>1, <4>2, ExportedPage, Zenon
      <4>4. ShowsPage(KwicSearch(corpus.index, s), SearchOrder(corpus.index, q), export.page, ExportSize)
        BY <3>5, <4>2, <4>3, PageShown, Zenon
      <4> QED BY <3>2, <4>4, Zenon DEF ordered, q
    <3>7. result.pages = pages /\ hits = HitsOf(PageOf(ordered, export.page, ExportSize))
      BY <3>6, Zenon DEF ShowsPage, Displays, hits
    <3>8. export'.rows = HitsOf(FirstPages(ordered, ExportSize, export.page))
      BY <2>2, <3>3, <3>4, <3>7, ExportGrows, Zenon
    <3> HIDE DEF pages, result
    <3>9. CASE last
      <4>1. export.page = pages  BY <3>3, <3>5, <3>7, <3>9 DEF last
      <4>2. FirstPages(ordered, ExportSize, pages) = ordered
        BY <3>4, NoPageAndAll, BoundsAssumption, Zenon DEF pages
      <4>3. export'.state = "done" /\ export'.state # "running"  BY <2>2, <3>9
      <4> QED BY <3>8, <4>1, <4>2, <4>3, Zenon DEF WrittenHits, ordered
    <3>10. CASE ~last
      <4>1. export'.page = export.page + 1 /\ export'.page \in 1..pages /\ export'.page - 1 = export.page
        BY <2>2, <3>3, <3>5, <3>7, <3>10 DEF last
      <4>2. export'.state # "done"  BY <2>2, <3>10
      <4> QED BY <3>8, <4>1, <4>2, Zenon DEF WrittenHits, ordered, pages
    <3> QED BY <3>9, <3>10, Zenon
  <2>5. Written(visit, export')  BY <1>1, <1>4, <2>4 DEF Written
  <2> QED BY <1>1, <2>3, <2>5, ExportOnly, Zenon
<1> QED BY <1>8, <1>9, Zenon

\* The rows of pairs that are read from the corpus of the screen.
LEMMA PairRowsWritten ==
    ASSUME PagesInvariant, visit.view = "pairs", ~IsError(visit.answer), visit.version = version
    PROVE  PairExportRows(corpus.pairs, visit.query).rows = OccurrencePlaces(PairOrder(visit.corpus.pairs, visit.query))
<1>1. visit # NoVisit  BY DEF NoVisit
<1>2. visit.corpus = corpus  BY <1>1, Zenon DEF PagesInvariant
<1>3. ValidPairQuery(visit.query)  BY ShownPairs, Zenon DEF PairsExportable
<1> QED BY <1>2, <1>3, PairsExported, Zenon

\* The export job of pairs keeps the invariant (_parallel_rows).
LEMMA ExportPairsStep == PagesInvariant /\ ExportPairs => PagesInvariant'
<1> SUFFICES ASSUME PagesInvariant, ExportPairs PROVE PagesInvariant'
  OBVIOUS
<1> DEFINE result == PairExportRows(corpus.pairs, ExportedConditions(visit.query))
           rows == result.rows
<1>1. visit.view = "pairs" /\ export.state = "running" /\ UNCHANGED <<corpus, version, visit>>
  BY DEF ExportPairs
<1>2. export' = IF IsError(result) THEN [export EXCEPT !.state = "failed"]
                ELSE [export EXCEPT !.state = "done", !.rows = rows, !.versions = {version}]
  BY Zenon DEF ExportPairs
<1>3. ExportTyped(export, version) /\ Written(visit, export) /\ version \in 1..MaxPublications
  BY Zenon DEF PagesInvariant
<1>4. ~IsError(visit.answer)  BY <1>1, <1>3 DEF Written
<1>5. DOMAIN export = ExportFields /\ export.versions \subseteq 1..version /\ export.streamed = FALSE
  BY <1>1, <1>3, Zenon DEF ExportTyped
<1>6. version \in 1..version  BY <1>3, BoundsAssumption
<1>7. CASE IsError(result)
  <2>1. export' = [export EXCEPT !.state = "failed"]  BY <1>2, <1>7, Zenon
  <2>2. DOMAIN export' = ExportFields /\ export'.state = "failed" /\ export'.versions = export.versions
    BY <1>5, <2>1 DEF ExportFields
  <2>3. ExportTyped(export', version)  BY <1>5, <2>2 DEF ExportTyped
  <2>4. Written(visit, export')  BY <1>1, <1>4, <2>2 DEF Written, WrittenPairs
  <2> QED BY <1>1, <2>3, <2>4, ExportOnly, Zenon
<1>8. CASE ~IsError(result)
  <2>1. export' = [export EXCEPT !.state = "done", !.rows = rows, !.versions = {version}]  BY <1>2, <1>8, Zenon
  <2>2. ExportedConditions(visit.query) = visit.query => rows = PairExportRows(corpus.pairs, visit.query).rows
    BY Zenon
  <2> HIDE DEF rows
  <2>3. /\ DOMAIN export' = ExportFields /\ export'.state = "done" /\ export'.rows = rows
        /\ export'.versions = {version} /\ export'.streamed = export.streamed
    BY <1>5, <2>1 DEF ExportFields
  <2>4. ExportTyped(export', version)  BY <1>5, <1>6, <2>3 DEF ExportTyped
  <2>5. ASSUME export'.versions \subseteq {visit.version} PROVE WrittenPairs(visit, export')
    <3>1. visit.version = version  BY <2>3, <2>5
    <3>2. PairExportRows(corpus.pairs, visit.query).rows = OccurrencePlaces(PairOrder(visit.corpus.pairs, visit.query))
      BY <1>1, <1>4, <3>1, PairRowsWritten, Zenon
    <3> QED BY <1>5, <2>2, <2>3, <3>2, Zenon DEF WrittenPairs
  <2>6. Written(visit, export')  BY <1>1, <1>4, <2>5 DEF Written
  <2> QED BY <1>1, <2>4, <2>6, ExportOnly, Zenon
<1> QED BY <1>7, <1>8, Zenon

\* The stream of pairs keeps the invariant (parallel_export).
LEMMA StreamPairsStep == PagesInvariant /\ StreamPairs => PagesInvariant'
<1> SUFFICES ASSUME PagesInvariant, StreamPairs PROVE PagesInvariant'
  OBVIOUS
<1> DEFINE rows == PairExportRows(corpus.pairs, visit.query).rows
<1>1. visit.view = "pairs" /\ ~IsError(visit.answer) /\ export.state = "none" /\ UNCHANGED <<corpus, version, visit>>
  BY DEF StreamPairs
<1>2. export' = [export EXCEPT !.state = "done", !.streamed = TRUE, !.versions = {version}, !.rows = rows]
  BY Zenon DEF StreamPairs
<1>3. DOMAIN export = ExportFields /\ version \in 1..MaxPublications  BY Zenon DEF PagesInvariant, ExportTyped
<1>4. version \in 1..version  BY <1>3, BoundsAssumption
<1>5. visit.version = version => rows = OccurrencePlaces(PairOrder(visit.corpus.pairs, visit.query))
  BY <1>1, PairRowsWritten, Zenon
<1> HIDE DEF rows
<1>6. /\ DOMAIN export' = ExportFields /\ export'.state = "done" /\ export'.rows = rows
      /\ export'.versions = {version}
  BY <1>2, <1>3 DEF ExportFields
<1>7. ExportTyped(export', version)  BY <1>4, <1>6 DEF ExportTyped
<1>8. ASSUME export'.versions \subseteq {visit.version} PROVE WrittenPairs(visit, export')
  <2>1. visit.version = version  BY <1>6, <1>8
  <2> QED BY <1>5, <1>6, <2>1, Zenon DEF WrittenPairs
<1>9. Written(visit, export')  BY <1>1, <1>8 DEF Written
<1> QED BY <1>1, <1>7, <1>9, ExportOnly, Zenon

-----------------------------------------------------------------------------
(* Theorems *)

\* Every step keeps the invariant.
LEMMA PagesNext == PagesInvariant /\ [Next]_vars => PagesInvariant'
<1> SUFFICES ASSUME PagesInvariant, [Next]_vars PROVE PagesInvariant'
  OBVIOUS
<1>1. CASE UNCHANGED vars
  <2>1. UNCHANGED <<corpus, version, visit>> /\ export' = export  BY <1>1 DEF vars
  <2>2. ExportTyped(export', version) /\ Written(visit, export')  BY <2>1, Zenon DEF PagesInvariant
  <2> QED BY <2>1, <2>2, ExportOnly, Zenon
<1>2. CASE Next
  BY <1>2, KwicPageStep, FilePageStep, WordListPageStep, NgramPageStep, StatisticsPageStep, CollocatePageStep,
     PairPageStep, StartExportStep, ExportKwicPageStep, ExportPairsStep, StreamPairsStep, PublishStep, Zenon DEF Next
<1> QED BY <1>1, <1>2, Zenon

\* The screen shows what its search answers on the corpus it was opened on, and an
\* export read from that corpus alone has written the pages before its own.
THEOREM PagesAreInvariant == Spec => []PagesInvariant
  BY PagesInit, PagesNext, PTL DEF Spec

\* A page of pairs is one of the pages of its search, and does not show more than there is.
LEMMA PairBounds ==
    ASSUME PairsExportable
    PROVE  visit.answer.page \in 1..visit.answer.pages /\ Len(visit.answer.hits) <= visit.answer.total
<1> DEFINE q == visit.query
           answer == visit.answer
           ordered == PairOrder(visit.corpus.pairs, q)
           shown == PageOf(ordered, q.page, q.size)
           hits == answer.hits
<1>1. PairQuery(q) /\ ValidPairQuery(q) /\ q.page >= 1 /\ visit.corpus.pairs \in Seq(PairRecords)
  BY Zenon DEF PairsExportable
<1>2. ShowsPairs(answer, ordered, q.page, q.size)  BY PairSearchAnswers, Zenon DEF PairsExportable
<1>3. PICK X : ordered \in Seq(X)  BY <1>1, PairOrderIsSequence, Zenon
<1>4. q.page \in Nat \ {0} /\ q.size \in Nat \ {0}  BY <1>1 DEF PairQuery
<1> HIDE DEF ordered, q, answer
<1>5. Len(ordered) \in Nat  BY <1>3, LenProperties, Zenon
<1>6. answer.page \in 1..answer.pages
  <2> DEFINE pages == NumPages(Len(ordered), q.size)
  <2>1. \A p \in Nat \ {0} : EffectivePage(p, pages) \in 1..pages  BY <1>4, <1>5, PagesCount, Zenon
  <2>2. answer.page = EffectivePage(q.page, pages) /\ answer.pages = pages  BY <1>2, Zenon DEF ShowsPairs
  <2> HIDE DEF pages
  <2> QED BY <1>4, <2>1, <2>2, Zenon
<1>7. shown \in Seq(X) /\ Len(shown) <= Len(ordered)  BY <1>3, <1>4, PageIsPart, Zenon
<1> HIDE DEF hits
<1>8. hits = [i \in DOMAIN shown |-> hits[i]]  BY <1>2, Zenon DEF ShowsPairs, hits
<1> HIDE DEF shown
<1>9. DOMAIN shown = 1..Len(shown) /\ Len(shown) \in Nat  BY <1>7, LenProperties, Zenon
<1>10. hits = [i \in 1..Len(shown) |-> hits[i]]  BY <1>8, <1>9, Zenon
<1>11. Len(hits) = Len(shown)  BY <1>9, <1>10, FunctionIsSequence, Zenon
<1>12. answer.total = Len(ordered)  BY <1>2, Zenon DEF ShowsPairs
<1> QED BY <1>6, <1>7, <1>11, <1>12, Zenon DEF hits, answer

\* A page belongs to a publication and shows one of the pages of its search.
THEOREM PagesAreTyped == Spec => []TypeOK
<1>1. PagesInvariant => TypeOK
  <2> SUFFICES ASSUME PagesInvariant PROVE TypeOK
    OBVIOUS
  <2>1. corpus.name \in {c.name : c \in Corpora}
    <3>1. PICK c \in Corpora : corpus = Artifacts(c)  BY Zenon DEF PagesInvariant
    <3>2. corpus.name = c.name  BY <3>1, ArtifactsFields, Zenon
    <3> QED BY <3>2
  <2>2. version \in 1..MaxPublications /\ (visit # NoVisit => visit.version \in 1..version)
    BY Zenon DEF PagesInvariant
  <2>3. ASSUME visit.view = "kwic", ~IsError(visit.answer)
        PROVE  visit.answer.page \in 1..visit.answer.pages /\ Len(visit.answer.hits) <= visit.answer.total
    BY <2>3, ShownConcordance, AnswerBounds, Zenon DEF Exportable
  <2>4. ASSUME visit.view = "pairs", ~IsError(visit.answer)
        PROVE  visit.answer.page \in 1..visit.answer.pages /\ Len(visit.answer.hits) <= visit.answer.total
    BY <2>4, ShownPairs, PairBounds, Zenon
  <2>5. visit.view \in {"kwic", "pairs"} => visit.view = "kwic" \/ visit.view = "pairs"  OBVIOUS
  <2>6. export.state \in {"none", "running", "done", "failed"} /\ export.versions \subseteq 1..version
    BY Zenon DEF PagesInvariant, ExportTyped
  <2> QED BY <2>1, <2>2, <2>3, <2>4, <2>5, <2>6, Zenon DEF TypeOK
<1> QED BY <1>1, PagesAreInvariant, PTL

\* A finished export of one publication holds the hits of all pages in their order.
THEOREM ExportsAreTheSearch == Spec => []ExportIsTheSearch
<1>1. PagesInvariant => ExportIsTheSearch
  <2> SUFFICES ASSUME PagesInvariant, Comparable
               PROVE  IF visit.view = "pairs"
                      THEN export.streamed \/ visit.query = ExportedConditions(visit.query) =>
                              export.rows = PlacesOf(PairPages)
                      ELSE visit.query.sample = 0 => export.rows = HitsOf(KwicPages)
    BY Zenon DEF ExportIsTheSearch
  <2>1. export.state = "done" /\ export.versions = {visit.version} /\ export.state # "none"  BY DEF Comparable
  <2>2. visit.view \in {"kwic", "pairs"} /\ ~IsError(visit.answer) /\ export.versions \subseteq {visit.version}
    BY <2>1, Zenon DEF PagesInvariant, Written
  <2>3. CASE visit.view = "pairs"
    <3>1. PairsExportable  BY <2>2, <2>3, ShownPairs, Zenon
    <3>2. WrittenPairs(visit, export)  BY <2>2, <2>3, Zenon DEF PagesInvariant, Written
    <3>3. PlacesOf(PairPages) = OccurrencePlaces(PairOrder(visit.corpus.pairs, visit.query))
      <4> DEFINE pages == visit.answer.pages
      <4>1. /\ visit.corpus.pairs \in Seq(PairRecords) /\ PairQuery(visit.query)
            /\ ~IsError(PairSearch(visit.corpus.pairs, visit.query))
            /\ pages = PairSearch(visit.corpus.pairs, visit.query).pages
        BY <2>2, <3>1, Zenon DEF PairsExportable
      <4> HIDE DEF pages
      <4>2. PlacesOf(FlattenSeq([p \in 1..pages |->
              PairSearch(visit.corpus.pairs, [visit.query EXCEPT !.page = p]).hits])) =
              OccurrencePlaces(PairOrder(visit.corpus.pairs, visit.query))
        BY <4>1, TurnedPairs, Zenon
      <4> QED BY <4>2, Zenon DEF PairPages, pages
    <3> QED BY <2>1, <2>3, <3>2, <3>3, Zenon DEF WrittenPairs
  <2>4. CASE visit.view = "kwic"
    <3>1. Exportable  BY <2>2, <2>4, ShownConcordance, Zenon
    <3>2. WrittenHits(visit, export)  BY <2>2, <2>4, Zenon DEF PagesInvariant, Written
    <3>3. ASSUME visit.query.sample = 0
          PROVE  HitsOf(KwicPages) = HitsOf(SearchOrder(visit.corpus.index, visit.query))
      <4> DEFINE pages == visit.answer.pages
      <4>1. /\ Tokens(visit.corpus.index.tokens) /\ KwicQuery(visit.query)
            /\ ~IsError(KwicSearch(visit.corpus.index, visit.query))
            /\ pages = KwicSearch(visit.corpus.index, visit.query).pages
        BY <2>2, <3>1, Zenon DEF Exportable
      <4> HIDE DEF pages
      <4>2. HitsOf(FlattenSeq([p \in 1..pages |->
              KwicSearch(visit.corpus.index, [visit.query EXCEPT !.page = p]).hits])) =
              HitsOf(SearchOrder(visit.corpus.index, visit.query))
        BY <3>3, <4>1, TurnedPages, Zenon
      <4> QED BY <4>2, Zenon DEF KwicPages, pages
    <3>4. visit.view # "pairs"  BY <2>4
    <3> QED BY <2>1, <3>2, <3>3, <3>4, Zenon DEF WrittenHits
  <2> QED BY <2>2, <2>3, <2>4
<1> QED BY <1>1, PagesAreInvariant, PTL

-----------------------------------------------------------------------------
(* Lists of numbers and lists of values are compared *)

\* Where one sequence falls below another.
FallsBelow(s, t, i) ==
    /\ i <= Len(t)
    /\ \A j \in 1..(i - 1) : j <= Len(s) /\ s[j] = t[j]
    /\ i > Len(s) \/ s[i] < t[i]

\* A sequence is less where it falls below the other.
LEMMA SeqLessAt ==
    ASSUME NEW s, NEW t, NEW i \in 1..(Len(s) + 1), FallsBelow(s, t, i)
    PROVE  SeqLess(s, t)
  BY DEF SeqLess, FallsBelow

\* The comparison of sequences of numbers is a strict total order.
LEMMA SeqLessIrreflexive ==
    ASSUME NEW s \in Seq(Int)
    PROVE  ~SeqLess(s, s)
<1> QED BY LenProperties, ElementOfSeq DEF SeqLess

\* Of three lists, each below the next, the first is below the last.
LEMMA SeqLessTransitive ==
    ASSUME NEW s \in Seq(Int), NEW t \in Seq(Int), NEW u \in Seq(Int), SeqLess(s, t), SeqLess(t, u)
    PROVE  SeqLess(s, u)
<1>1. /\ Len(s) \in Nat /\ \A i \in 1..Len(s) : s[i] \in Int
      /\ Len(t) \in Nat /\ \A i \in 1..Len(t) : t[i] \in Int
      /\ Len(u) \in Nat /\ \A i \in 1..Len(u) : u[i] \in Int
  BY LenProperties, ElementOfSeq
<1>2. PICK i \in 1..(Len(s) + 1) :
          FallsBelow(s, t, i)
  BY DEF SeqLess, FallsBelow
<1>3. PICK k \in 1..(Len(t) + 1) :
          FallsBelow(t, u, k)
  BY DEF SeqLess, FallsBelow
<1>a. /\ i <= Len(t) /\ \A j \in 1..(i - 1) : j <= Len(s) /\ s[j] = t[j]
      /\ i > Len(s) \/ s[i] < t[i]
  BY <1>2 DEF FallsBelow
<1>b. /\ k <= Len(u) /\ \A j \in 1..(k - 1) : j <= Len(t) /\ t[j] = u[j]
      /\ k > Len(t) \/ t[k] < u[k]
  BY <1>3 DEF FallsBelow
<1>4. CASE i < k
  <2>1. i \in 1..(Len(s) + 1) /\ i \in 1..(k - 1)  BY <1>1, <1>4
  <2>2. t[i] = u[i] /\ i <= Len(u)  BY <2>1, <1>b, <1>1, <1>4
  <2>3. \A j \in 1..(i - 1) : j <= Len(s) /\ s[j] = u[j]
    <3> TAKE j \in 1..(i - 1)
    <3>1. j \in 1..(k - 1)  BY <1>4
    <3> QED BY <3>1, <1>a, <1>b
  <2> QED BY <2>1, <1>a, <2>2, <2>3, SeqLessAt DEF FallsBelow
<1>5. CASE i = k
  <2>1. i \in 1..(Len(s) + 1) /\ k <= Len(t)  BY <1>5, <1>a
  <2>2. t[i] < u[i] /\ t[i] \in Int /\ u[i] \in Int  BY <2>1, <1>b, <1>1, <1>5
  <2>3. i > Len(s) \/ s[i] < u[i]
    <3>1. CASE i <= Len(s)
      <4>1. s[i] \in Int /\ s[i] < t[i]  BY <3>1, <1>a, <1>1
      <4> DEFINE a == s[i]
                 b == t[i]
                 c == u[i]
      <4>2. a \in Int /\ b \in Int /\ c \in Int /\ a < b /\ b < c  BY <4>1, <2>2, Zenon
      <4> HIDE DEF a, b, c
      <4>3. a < c  BY <4>2
      <4> QED BY <4>3, Zenon DEF a, c
    <3> QED BY <3>1, <1>1
  <2> QED BY <2>1, <1>b, <1>5, <1>a, <2>3, SeqLessAt DEF FallsBelow
<1>6. CASE k < i
  <2>1. k \in 1..(i - 1) /\ k \in 1..(Len(s) + 1)  BY <1>6, <1>1
  <2>2. \A j \in 1..(k - 1) : j <= Len(s) /\ s[j] = u[j]
    <3> TAKE j \in 1..(k - 1)
    <3>1. j \in 1..(i - 1)  BY <1>6
    <3> QED BY <3>1, <1>a, <1>b
  <2>3. FallsBelow(s, u, k)  BY <1>b, <2>1, <1>a, <1>6, <1>1, <2>2 DEF FallsBelow
  <2> QED BY <2>1, <2>3, SeqLessAt
<1> QED BY <1>1, <1>2, <1>3, <1>4, <1>5, <1>6

\* Of two different lists one is below the other.
LEMMA SeqLessTotal ==
    ASSUME NEW s \in Seq(Int), NEW t \in Seq(Int)
    PROVE  s = t \/ SeqLess(s, t) \/ SeqLess(t, s)
<1>1. /\ Len(s) \in Nat /\ \A i \in 1..Len(s) : s[i] \in Int
      /\ Len(t) \in Nat /\ \A i \in 1..Len(t) : t[i] \in Int
  BY LenProperties, ElementOfSeq
<1> DEFINE differ == {i \in Nat \ {0} : i > Len(s) \/ i > Len(t) \/ s[i] # t[i]}
<1>2. Len(s) + 1 \in differ  BY <1>1
<1>3. PICK i \in differ : \A j \in differ : i <= j  BY <1>2, LeastNumber
<1>4. \A j \in 1..(i - 1) : j <= Len(s) /\ j <= Len(t) /\ s[j] = t[j]  BY <1>1, <1>3
<1>5. CASE i > Len(s) /\ i > Len(t)
  <2>1. Len(s) = i - 1 /\ Len(t) = i - 1  BY <1>4, <1>1, <1>5, <1>3
  <2> QED BY <2>1, <1>4, SeqEqual
<1>6. CASE i > Len(s) /\ i <= Len(t)
  <2>1. FallsBelow(s, t, i)  BY <1>1, <1>3, <1>4, <1>6 DEF FallsBelow
  <2> QED BY <1>1, <1>3, <1>2, <2>1, SeqLessAt
<1>7. CASE i > Len(t) /\ i <= Len(s)
  <2>1. FallsBelow(t, s, i)  BY <1>1, <1>3, <1>4, <1>7 DEF FallsBelow
  <2> QED BY <1>1, <1>3, <2>1, SeqLessAt
<1>8. CASE i <= Len(t) /\ i <= Len(s)
  <2>1. CASE s[i] < t[i]
    <3>1. FallsBelow(s, t, i)  BY <1>1, <1>3, <1>4, <1>8, <2>1 DEF FallsBelow
    <3> QED BY <1>1, <1>3, <1>8, <3>1, SeqLessAt
  <2>2. CASE t[i] < s[i]
    <3>1. FallsBelow(t, s, i)  BY <1>1, <1>3, <1>4, <1>8, <2>2 DEF FallsBelow
    <3> QED BY <1>1, <1>3, <1>8, <3>1, SeqLessAt
  <2> QED BY <1>1, <1>3, <1>8, <2>1, <2>2
<1> QED BY <1>1, <1>3, <1>5, <1>6, <1>7, <1>8

\* The values of the sort keys of a match: one sequence of numbers for each key.
KeyValues(n) == [1..n -> Seq(Int)]

\* Where one list of values is below another.
ValuesBelow(v, w, i) == SeqLess(v[i], w[i]) /\ \A j \in 1..(i - 1) : v[j] = w[j]

\* The comparison of values, key after key, is a strict total order.
LEMMA ValuesLessIrreflexive ==
    ASSUME NEW n \in Nat, NEW v \in KeyValues(n)
    PROVE  ~ValuesLess(v, v)
<1>1. \A i \in 1..n : v[i] \in Seq(Int)  BY DEF KeyValues
<1>2. DOMAIN v = 1..n  BY DEF KeyValues
<1> QED BY <1>1, SeqLessIrreflexive, <1>2, Zenon DEF ValuesLess

\* The values below those that are below others are below these.
LEMMA ValuesLessTransitive ==
    ASSUME NEW n \in Nat, NEW v \in KeyValues(n), NEW w \in KeyValues(n), NEW x \in KeyValues(n),
           ValuesLess(v, w), ValuesLess(w, x)
    PROVE  ValuesLess(v, x)
<1>1. /\ DOMAIN v = 1..n /\ \A i \in 1..n : v[i] \in Seq(Int)
      /\ DOMAIN w = 1..n /\ \A i \in 1..n : w[i] \in Seq(Int)
      /\ \A i \in 1..n : x[i] \in Seq(Int)
  BY DEF KeyValues
<1>2. PICK i \in 1..n : ValuesBelow(v, w, i)  BY <1>1, Zenon DEF ValuesLess, ValuesBelow
<1>3. PICK k \in 1..n : ValuesBelow(w, x, k)  BY <1>1, Zenon DEF ValuesLess, ValuesBelow
<1>a. SeqLess(v[i], w[i]) /\ \A j \in 1..(i - 1) : v[j] = w[j]  BY <1>2, Zenon DEF ValuesBelow
<1>b. SeqLess(w[k], x[k]) /\ \A j \in 1..(k - 1) : w[j] = x[j]  BY <1>3, Zenon DEF ValuesBelow
<1>4. CASE i < k
  <2>1. i \in 1..(k - 1) /\ \A j \in 1..(i - 1) : j \in 1..(k - 1)  BY <1>4
  <2> QED BY <2>1, <1>a, <1>b, <1>1, Zenon DEF ValuesLess
<1>5. CASE i = k
  <2>1. SeqLess(v[i], x[i])  BY <1>b, <1>5, <1>a, <1>1, SeqLessTransitive, Zenon
  <2> QED BY <1>a, <1>b, <1>5, <2>1, <1>1, Zenon DEF ValuesLess
<1>6. CASE k < i
  <2>1. k \in 1..(i - 1) /\ \A j \in 1..(k - 1) : j \in 1..(i - 1)  BY <1>6
  <2> QED BY <2>1, <1>a, <1>b, <1>1, Zenon DEF ValuesLess
<1> QED BY <1>4, <1>5, <1>6

\* Of different values one is below the other.
LEMMA ValuesLessTotal ==
    ASSUME NEW n \in Nat, NEW v \in KeyValues(n), NEW w \in KeyValues(n)
    PROVE  v = w \/ ValuesLess(v, w) \/ ValuesLess(w, v)
<1>1. /\ DOMAIN v = 1..n /\ \A i \in 1..n : v[i] \in Seq(Int)
      /\ DOMAIN w = 1..n /\ \A i \in 1..n : w[i] \in Seq(Int)
      /\ v = [i \in 1..n |-> v[i]] /\ w = [i \in 1..n |-> w[i]]
  BY DEF KeyValues
<1> DEFINE differ == {i \in 1..n : v[i] # w[i]}
<1>2. CASE differ = {}  BY <1>1, <1>2
<1>3. CASE differ # {}
  <2>1. differ \subseteq Nat  OBVIOUS
  <2>2. PICK i \in differ : \A j \in differ : i <= j
    <3> HIDE DEF differ
    <3> QED BY <1>3, <2>1, LeastNumber
  <2>3. i \in 1..n /\ v[i] # w[i] /\ \A j \in 1..(i - 1) : v[j] = w[j]  BY <2>2
  <2> QED BY <2>3, SeqLessTotal, <1>1, Zenon DEF ValuesLess
<1> QED BY <1>2, <1>3

\* What is before each element of S in the order of their keys.
BeforeByKey(S, key) == [x \in S |-> {y \in S : SeqLess(key[y], key[x])}]

\* Different keys put a finite set into a strict total order.
LEMMA KeysOrder ==
    ASSUME NEW S, IsFiniteSet(S), NEW key \in [S -> Seq(Int)], \A x, y \in S : key[x] = key[y] => x = y
    PROVE  Orders(S, BeforeByKey(S, key))
<1> DEFINE before == BeforeByKey(S, key)
<1>1. \A x \in S : key[x] \in Seq(Int)  OBVIOUS
<1>2. before \in [S -> SUBSET S]  BY DEF BeforeByKey
<1>3. \A x, y \in S : y \in before[x] <=> SeqLess(key[y], key[x])  BY Zenon DEF BeforeByKey
<1> HIDE DEF before
<1>4. \A x, y \in S : y \in before[x] => before[y] \subseteq before[x]
  <2> SUFFICES ASSUME NEW x \in S, NEW y \in S, y \in before[x], NEW z \in before[y] PROVE z \in before[x]
    BY Zenon
  <2>1. z \in S  BY <1>2
  <2> QED BY <2>1, <1>1, <1>3, SeqLessTransitive, Zenon
<1> QED BY <1>2, <1>1, <1>3, SeqLessIrreflexive, <1>4, SeqLessTotal, Zenon DEF Orders, before

-----------------------------------------------------------------------------
(* Sorting arranges what is sorted *)

\* By how often its values occur, then by the values, then by the place in the corpus.
Precedes(count, values, place, y, x) ==
    \/ count[y] > count[x]
    \/ count[y] = count[x] /\ ValuesLess(values[y], values[x])
    \/ count[y] = count[x] /\ values[y] = values[x] /\ SeqLess(place[y], place[x])

BeforeByValue(S, count, values, place) == [x \in S |-> {y \in S : Precedes(count, values, place, y, x)}]

\* What a finite set is sorted by: no two elements have the same place.
SortedBy(S, n, count, values, place) ==
    /\ IsFiniteSet(S) /\ n \in Nat
    /\ \A x \in S : count[x] \in Nat /\ values[x] \in KeyValues(n) /\ place[x] \in Seq(Int)
    /\ \A x, y \in S : place[x] = place[y] => x = y

\* What precedes something that precedes another precedes the other.
LEMMA PrecedesTransitive ==
    ASSUME NEW S, NEW n, NEW count, NEW values, NEW place, SortedBy(S, n, count, values, place),
           NEW x \in S, NEW y \in S, NEW z \in S,
           Precedes(count, values, place, z, y), Precedes(count, values, place, y, x)
    PROVE  Precedes(count, values, place, z, x)
<1>1. /\ count[x] \in Nat /\ count[y] \in Nat /\ count[z] \in Nat
      /\ n \in Nat /\ values[x] \in KeyValues(n) /\ values[y] \in KeyValues(n) /\ values[z] \in KeyValues(n)
      /\ place[x] \in Seq(Int) /\ place[y] \in Seq(Int) /\ place[z] \in Seq(Int)
  BY Zenon DEF SortedBy
<1>2. ValuesLess(values[z], values[y]) /\ ValuesLess(values[y], values[x]) => ValuesLess(values[z], values[x])
  BY <1>1, ValuesLessTransitive, Zenon
<1>3. SeqLess(place[z], place[y]) /\ SeqLess(place[y], place[x]) => SeqLess(place[z], place[x])
  BY <1>1, SeqLessTransitive, Zenon
<1> DEFINE a == count[x]
           b == count[y]
           c == count[z]
<1>4. c >= b /\ b >= a  BY <1>1 DEF Precedes
<1>5. CASE c > b \/ b > a
  <2>1. c > a  BY <1>1, <1>4, <1>5
  <2> QED BY <2>1, Zenon DEF Precedes
<1>6. CASE c = b /\ b = a
  <2>1. ~(c > b) /\ ~(b > a)  BY <1>6, <1>1
  <2> QED BY <2>1, <1>2, <1>3, <1>6, Zenon DEF Precedes
<1> QED BY <1>1, <1>4, <1>5, <1>6

\* The order of a sort in memory is a strict total order.
LEMMA SortingOrders ==
    ASSUME NEW S, NEW n, NEW count, NEW values, NEW place, SortedBy(S, n, count, values, place)
    PROVE  Orders(S, BeforeByValue(S, count, values, place))
<1> DEFINE before == BeforeByValue(S, count, values, place)
<1>1. /\ IsFiniteSet(S) /\ n \in Nat
      /\ \A x \in S : count[x] \in Nat /\ values[x] \in KeyValues(n) /\ place[x] \in Seq(Int)
      /\ \A x, y \in S : place[x] = place[y] => x = y
  BY Zenon DEF SortedBy
<1>2. before \in [S -> SUBSET S]  BY DEF BeforeByValue
<1>3. \A x, y \in S : y \in before[x] <=> Precedes(count, values, place, y, x)  BY Zenon DEF BeforeByValue
<1> HIDE DEF before
<1>4. \A x \in S : x \notin before[x]
  <2> TAKE x \in S
  <2>1. ~(count[x] > count[x])  BY <1>1
  <2> QED BY <1>1, ValuesLessIrreflexive, SeqLessIrreflexive, <2>1, <1>3, Zenon DEF Precedes
<1>5. \A x, y \in S : y \in before[x] => before[y] \subseteq before[x]
  <2> SUFFICES ASSUME NEW x \in S, NEW y \in S, y \in before[x], NEW z \in before[y] PROVE z \in before[x]
    BY Zenon
  <2>1. z \in S  BY <1>2
  <2> QED BY <2>1, <1>3, PrecedesTransitive, Zenon
<1>6. \A x, y \in S : x = y \/ x \in before[y] \/ y \in before[x]
  <2> TAKE x, y \in S
  <2>1. count[x] = count[y] \/ count[x] > count[y] \/ count[y] > count[x]  BY <1>1
  <2> QED BY <1>1, ValuesLessTotal, SeqLessTotal, <2>1, <1>3, Zenon DEF Precedes
<1> QED BY <1>1, <1>2, <1>4, <1>5, <1>6, Zenon DEF Orders, before

\* A sequence that holds every element of a finite set once.
Arranges(s, S) ==
    /\ IsFiniteSet(S) /\ Cardinality(S) \in Nat
    /\ s \in Seq(S) /\ Len(s) = Cardinality(S)
    /\ \A i, j \in 1..Len(s) : s[i] = s[j] => i = j
    /\ \A x \in S : \E i \in 1..Len(s) : s[i] = x

\* What enumerates a finite set in an order arranges it.
LEMMA EnumeratedArranged ==
    ASSUME NEW S, NEW before, IsFiniteSet(S), NEW s, Enumerates(s, S, before)
    PROVE  Arranges(s, S)
<1> QED BY FS_CardinalityType, LenOfFunction, Zenon DEF Arranges, Enumerates

\* What matches are sorted by: numbers for every key, and places of their own.
Sortable(tokens, matches, loaded, keys, inSql) ==
    /\ IsFiniteSet(matches)
    /\ \E n \in Nat : \A m \in matches : SortValues(tokens, loaded, m, keys, inSql) \in KeyValues(n)
    /\ \A m \in matches : Place(m) \in Seq(Int)
    /\ \A m, n \in matches : Place(m) = Place(n) => m = n

\* Sorted matches are every match once (_sort_clauses, _sort_matches_in_memory).
LEMMA SortedArranges ==
    ASSUME NEW tokens, NEW matches, NEW loaded, NEW keys, NEW order, NEW inSql,
           Sortable(tokens, matches, loaded, keys, inSql)
    PROVE  Arranges(Sorted(tokens, matches, loaded, keys, order, inSql), matches)
<1> DEFINE Values(m) == SortValues(tokens, loaded, m, keys, inSql)
           Group(m) == CountedValues(tokens, loaded, m, keys, inSql)
           Same(m) == Cardinality({n \in matches : Group(n) = Group(m)})
           Count(m) == IF order = "frequency" /\ keys # <<>> THEN Same(m) ELSE 0
           f == [m \in matches |-> [match |-> m, values |-> Values(m), count |-> Count(m)]]
           counted == {f[m] : m \in matches}
           Less(d, e) ==
              \/ d.count > e.count
              \/ d.count = e.count /\ ValuesLess(d.values, e.values)
              \/ d.count = e.count /\ d.values = e.values /\ SeqLess(Place(d.match), Place(e.match))
           ordered == InOrder(counted, Less)
           s == Sorted(tokens, matches, loaded, keys, order, inSql)
           count == [d \in counted |-> d.count]
           values == [d \in counted |-> d.values]
           place == [d \in counted |-> Place(d.match)]
           before == BeforeByValue(counted, count, values, place)
<1>1. PICK n \in Nat : \A m \in matches : Values(m) \in KeyValues(n)  BY Zenon DEF Sortable
<1>2. /\ IsFiniteSet(matches)
      /\ \A m \in matches : Place(m) \in Seq(Int)
      /\ \A m, k \in matches : Place(m) = Place(k) => m = k
  BY Zenon DEF Sortable
<1>3. s = [i \in DOMAIN ordered |-> ordered[i].match]
  <2>1. counted = {[match |-> m, values |-> Values(m), count |-> IF order = "frequency" /\ keys # <<>> THEN Same(m) ELSE 0] : m \in matches}
    BY Zenon
  <2> HIDE DEF counted, f, Values, Group, Same
  <2> QED BY <2>1, Zenon DEF Sorted, Values, Group, Same
<1>4. \A m \in matches : Count(m) \in Nat
  <2> TAKE m \in matches
  <2>1. Same(m) \in Nat  BY <1>2, FS_Subset, FS_CardinalityType, Zenon
  <2> HIDE DEF Same
  <2> QED BY <2>1
<1>5. \A m \in matches : f[m].match = m /\ f[m].values = Values(m) /\ f[m].count = Count(m)
  <2> HIDE DEF Values, Count
  <2> QED OBVIOUS
<1>6. \A d \in counted : \E m \in matches : d = f[m]  BY Zenon
<1>7. \A m \in matches : f[m] \in counted  BY Zenon
<1> HIDE DEF f, Values, Count
<1>8. \A d \in counted : /\ d.match \in matches /\ d = f[d.match] /\ d.count \in Nat /\ d.values \in KeyValues(n)
                         /\ Place(d.match) \in Seq(Int)
  <2> TAKE d \in counted
  <2>1. PICK m \in matches : d = f[m]  BY <1>6, Zenon
  <2> QED BY <2>1, <1>5, <1>1, <1>2, <1>4, Zenon
<1>9. IsFiniteSet(counted)  BY <1>2, ImageFinite, Zenon DEF Image
<1> HIDE DEF counted
<1>10. SortedBy(counted, n, count, values, place)
  <2>1. \A d \in counted : count[d] = d.count /\ values[d] = d.values /\ place[d] = Place(d.match)  BY Zenon
  <2> HIDE DEF count, values, place
  <2>2. \A d, e \in counted : place[d] = place[e] => d = e
    <3> SUFFICES ASSUME NEW d \in counted, NEW e \in counted, place[d] = place[e] PROVE d = e
      BY Zenon
    <3>1. Place(d.match) = Place(e.match) /\ d.match \in matches /\ e.match \in matches  BY <2>1, <1>8, Zenon
    <3>2. d.match = e.match  BY <3>1, <1>2, Zenon
    <3> QED BY <3>2, <1>8, Zenon
  <2> QED BY <2>2, <2>1, <1>8, <1>1, <1>9, Zenon DEF SortedBy
<1>11. ordered = Ranked(counted, before)
  <2> DEFINE A(x) == [at |-> Cardinality({y \in counted : Less(y, x)}), element |-> x]
             B(x) == [at |-> Cardinality(before[x]), element |-> x]
             Value(all) == [i \in 1..Cardinality(counted) |-> (CHOOSE p \in all : p.at = i - 1).element]
  <2>1. ordered = Value({A(x) : x \in counted})  BY Zenon DEF InOrder
  <2>2. Ranked(counted, before) = Value({B(x) : x \in counted})  BY Zenon DEF Ranked
  <2>3. \A x \in counted : A(x) = B(x)
    <3> TAKE x \in counted
    <3>1. \A y \in counted : Less(y, x) <=> Precedes(count, values, place, y, x)
      <4> TAKE y \in counted
      <4>1. /\ count[x] = x.count /\ values[x] = x.values /\ place[x] = Place(x.match)
            /\ count[y] = y.count /\ values[y] = y.values /\ place[y] = Place(y.match)
        BY Zenon
      <4> HIDE DEF count, values, place
      <4> QED BY <4>1, Zenon DEF Precedes
    <3>2. before[x] = {y \in counted : Precedes(count, values, place, y, x)}  BY Zenon DEF BeforeByValue
    <3> HIDE DEF before, Less, count, values, place
    <3> QED BY <3>1, <3>2, Zenon
  <2> HIDE DEF A, B, Value, before, ordered
  <2>4. {A(x) : x \in counted} = {B(x) : x \in counted}  BY <2>3
  <2> QED BY <2>1, <2>2, <2>4, Zenon
<1> HIDE DEF count, values, place
<1>12. Arranges(ordered, counted)
  BY <1>10, SortingOrders, RankedEnumerates, <1>9, <1>11, EnumeratedArranged, Zenon
<1>13. Cardinality(counted) = Cardinality(matches)
  <2>1. f \in Bijection(matches, counted)
    <3>1. f \in [matches -> counted]  BY <1>7 DEF f
    <3>2. IsInjective(f)  BY <1>5, <3>1 DEF IsInjective
    <3> QED BY <3>1, <1>8, <3>2, Zenon DEF Bijection, Injection, Surjection
  <2> QED BY <2>1, <1>2, FS_Bijection, Zenon DEF ExistsBijection
<1> HIDE DEF ordered, s, before
<1> DEFINE n0 == Cardinality(matches)
<1>14. /\ n0 \in Nat /\ ordered \in Seq(counted) /\ Len(ordered) = n0
       /\ \A i, j \in 1..n0 : ordered[i] = ordered[j] => i = j
       /\ \A x \in counted : \E i \in 1..n0 : ordered[i] = x
  BY <1>12, <1>13, Zenon DEF Arranges
<1> HIDE DEF n0
<1>15. DOMAIN ordered = 1..n0 /\ \A i \in 1..n0 : ordered[i] \in counted
  BY <1>14, LenProperties, ElementOfSeq, Zenon
<1>16. s \in [1..n0 -> matches] /\ \A i \in 1..n0 : s[i] = ordered[i].match  BY <1>3, <1>8, <1>15
<1>17. s \in Seq(matches) /\ Len(s) = n0  BY <1>14, <1>16, LenOfFunction, Zenon
<1>18. \A i, j \in 1..n0 : s[i] = s[j] => i = j
  <2> SUFFICES ASSUME NEW i \in 1..n0, NEW j \in 1..n0, s[i] = s[j] PROVE i = j
    BY Zenon
  <2>1. ordered[i] \in counted /\ ordered[j] \in counted /\ ordered[i].match = ordered[j].match
    BY <1>15, <1>16, Zenon
  <2>2. ordered[i] = ordered[j]  BY <2>1, <1>8, Zenon
  <2> QED BY <2>2, <1>14, Zenon
<1>19. \A m \in matches : \E i \in 1..n0 : s[i] = m
  <2> TAKE m \in matches
  <2>1. f[m] \in counted /\ f[m].match = m  BY <1>5, <1>7, Zenon
  <2>2. PICK i \in 1..n0 : ordered[i] = f[m]  BY <2>1, <1>14, Zenon
  <2> QED BY <2>1, <2>2, <1>16, Zenon
<1> QED BY <1>2, <1>14, <1>17, <1>18, <1>19, Zenon DEF Arranges, n0, s

-----------------------------------------------------------------------------
(* Matches and where they are *)

\* Rows of one document and language.
SameStream(tokens, g, h) ==
    tokens[g].word.doc = tokens[h].word.doc /\ tokens[g].word.lang = tokens[h].word.lang

\* The words of a stream are numbered in the order of their rows.
LEMMA StreamsIncrease ==
    ASSUME NEW tokens, Tokens(tokens)
    PROVE  /\ \A g \in DOMAIN tokens : /\ g \in Nat \ {0} /\ tokens[g].stream \in Nat \ {0}
                                       /\ tokens[g].word \in WordRecords
           /\ \A g, h \in DOMAIN tokens : SameStream(tokens, g, h) /\ g < h => tokens[g].stream < tokens[h].stream
<1>1. PICK n \in Nat :
          /\ DOMAIN tokens = 1..n
          /\ \A g \in 1..n :
              /\ tokens[g].word \in WordRecords
              /\ tokens[g].stream = Cardinality({h \in 1..g : /\ tokens[h].word.doc = tokens[g].word.doc
                                                              /\ tokens[h].word.lang = tokens[g].word.lang})
  BY Zenon DEF Tokens
<1> DEFINE upTo(g) == {h \in 1..g : /\ tokens[h].word.doc = tokens[g].word.doc
                                    /\ tokens[h].word.lang = tokens[g].word.lang}
<1>2. \A g \in 1..n : g \in Nat \ {0}  OBVIOUS
<1>3. \A g \in 1..n : /\ upTo(g) \in SUBSET (1..g) /\ g \in upTo(g)
                      /\ tokens[g].stream = Cardinality(upTo(g))
  BY <1>1
<1>4. \A g \in 1..n : tokens[g].stream \in Nat \ {0}
  <2> TAKE g \in 1..n
  <2> HIDE DEF upTo
  <2>1. Cardinality(upTo(g)) \in Nat /\ (Cardinality(upTo(g)) = 0 <=> upTo(g) = {})
    BY <1>3, <1>2, PlacesAreFinite, Zenon
  <2>2. upTo(g) # {}  BY <1>3, Zenon
  <2> QED BY <1>3, <2>1, <2>2
<1>5. ASSUME NEW g \in 1..n, NEW h \in 1..n, SameStream(tokens, g, h), g < h
      PROVE  tokens[g].stream < tokens[h].stream
  <2>1. upTo(g) \in SUBSET (upTo(h) \ {h}) /\ h \in upTo(h)  BY <1>5 DEF SameStream
  <2>2. upTo(h) \in SUBSET (1..h) /\ h \in Nat  BY <1>2, <1>3
  <2> HIDE DEF upTo
  <2>3. IsFiniteSet(upTo(h) \ {h}) /\ Cardinality(upTo(h) \ {h}) = Cardinality(upTo(h)) - 1
    BY <2>1, <2>2, PlacesAreFinite, FS_RemoveElement, Zenon
  <2>4. Cardinality(upTo(g)) <= Cardinality(upTo(h) \ {h})  BY <2>1, <2>3, FS_Subset, Zenon
  <2>5. Cardinality(upTo(h)) \in Nat /\ Cardinality(upTo(g)) \in Nat  BY <1>3, <1>4, Zenon
  <2> QED BY <1>3, <2>3, <2>4, <2>5
<1> QED BY <1>1, <1>2, <1>4, <1>5, Zenon

\* A row of a stream is known by its number in it.
LEMMA StreamsDiffer ==
    ASSUME NEW tokens, Tokens(tokens), NEW g \in DOMAIN tokens, NEW h \in DOMAIN tokens,
           SameStream(tokens, g, h), tokens[g].stream = tokens[h].stream
    PROVE  g = h
<1>1. g \in Nat /\ h \in Nat /\ tokens[g].stream \in Nat /\ tokens[h].stream \in Nat  BY StreamsIncrease, Zenon
<1>2. SameStream(tokens, h, g)  BY DEF SameStream
<1>3. ~(g < h)
  <2>1. g < h => tokens[g].stream < tokens[h].stream  BY StreamsIncrease, Zenon
  <2> QED BY <1>1, <2>1
<1>4. ~(h < g)
  <2>1. h < g => tokens[h].stream < tokens[g].stream  BY <1>2, StreamsIncrease, Zenon
  <2> QED BY <1>1, <2>1
<1> QED BY <1>1, <1>3, <1>4

\* There is at most one row beside another at a distance, and the row itself at none.
LEMMA BesideIsOne ==
    ASSUME NEW tokens, Tokens(tokens), NEW g \in DOMAIN tokens
    PROVE  /\ \A d : \A h, k \in Beside(tokens, g, d) : h = k
           /\ Beside(tokens, g, 0) = {g}
<1>1. ASSUME NEW d, NEW h \in Beside(tokens, g, d), NEW k \in Beside(tokens, g, d) PROVE h = k
  <2>1. /\ h \in DOMAIN tokens /\ k \in DOMAIN tokens /\ SameStream(tokens, h, k)
        /\ tokens[h].stream = tokens[k].stream
    BY DEF Beside, SameStream
  <2> QED BY <2>1, StreamsDiffer, Zenon
<1>2. g \in Beside(tokens, g, 0)
  <2>1. tokens[g].stream \in Nat  BY StreamsIncrease, Zenon
  <2>2. tokens[g].stream = tokens[g].stream + 0  BY <2>1
  <2> QED BY <2>2, Zenon DEF Beside
<1> QED BY <1>1, <1>2

\* The matches of a search: each begins in a row of the table, goes on along
\* its stream, and is told from the others by its row and its length.  A
\* match ends with its last word, or `cut` characters earlier.
MatchAt(tokens, g, n, cut) ==
    [row |-> g, length |-> n,
     from |-> StartOf(tokens[g].stream), to |-> EndOf(tokens[g].stream + n - 1) - cut]

\* A match of n words has n words of its stream at hand.
Along(tokens, g, n) == n \in Nat /\ \A i \in 1..n : Beside(tokens, g, i - 1) # {}

\* A finite set of matches.
AreMatches(tokens, matches, cut) ==
    /\ IsFiniteSet(matches)
    /\ \A m \in matches : \E g \in DOMAIN tokens : \E n \in Nat :
            m = MatchAt(tokens, g, n, cut) /\ Along(tokens, g, n)

\* What sorting and showing need of them.
WellPlaced(tokens, matches) ==
    /\ IsFiniteSet(matches)
    /\ \A m \in matches : /\ m.row \in DOMAIN tokens /\ m.from \in Int
                          /\ Along(tokens, m.row, m.length)
    /\ \A m, k \in matches : m.row = k.row /\ m.length = k.length => m = k

\* All matches are.
LEMMA MatchesArePlaced ==
    ASSUME NEW tokens, Tokens(tokens), NEW matches, NEW cut, AreMatches(tokens, matches, cut)
    PROVE  WellPlaced(tokens, matches)
<1>1. \A m \in matches : /\ m = MatchAt(tokens, m.row, m.length, cut) /\ m.row \in DOMAIN tokens
                         /\ m.from = StartOf(tokens[m.row].stream) /\ Along(tokens, m.row, m.length)
  <2> TAKE m \in matches
  <2>1. PICK g \in DOMAIN tokens, n \in Nat : m = MatchAt(tokens, g, n, cut) /\ Along(tokens, g, n)
    BY Zenon DEF AreMatches
  <2>2. m.row = g /\ m.length = n /\ m.from = StartOf(tokens[g].stream)  BY <2>1 DEF MatchAt
  <2> QED BY <2>1, <2>2, Zenon
<1>2. \A m \in matches : m.from \in Int
  <2> TAKE m \in matches
  <2>1. tokens[m.row].stream \in Nat  BY <1>1, StreamsIncrease, Zenon
  <2>2. m.from = StartOf(tokens[m.row].stream)  BY <1>1, Zenon
  <2> QED BY <2>1, <2>2 DEF StartOf, WordWidth
<1> QED BY <1>1, <1>2, Zenon DEF WellPlaced, AreMatches

\* A list of matchers or filters.
Numbered(s) == Len(s) \in Nat /\ DOMAIN s = 1..Len(s)

\* What is made of the places of a list is a list as long.
LEMMA NumberedFunction ==
    ASSUME NEW n \in Nat, NEW s, DOMAIN s = 1..n, s = [i \in 1..n |-> s[i]]
    PROVE  Numbered(s) /\ Len(s) = n
<1>1. PICK X : s \in Seq(X) /\ Len(s) = n  BY FunctionIsSequence, Zenon
<1> QED BY <1>1 DEF Numbered

\* So is every sequence.
LEMMA SequenceNumbered ==
    ASSUME NEW X, NEW s \in Seq(X)
    PROVE  Numbered(s)
  BY LenProperties DEF Numbered

\* What the segmenter makes of the texts of a query (token_matches).
Taken(terms) == [i \in DOMAIN terms |-> IF terms[i] \in DOMAIN Compound THEN Compound[terms[i]] ELSE <<terms[i]>>]

\* Each text becomes a list of words.
LEMMA TakenTyped ==
    ASSUME NEW terms, IsList(terms)
    PROVE  /\ Len(terms) \in Nat /\ DOMAIN terms = 1..Len(terms)
           /\ \E Y : Taken(terms) \in [1..Len(terms) -> Seq(Y)]
<1> DEFINE seqs == Taken(terms)
           n == Len(terms)
<1>1. n \in Nat /\ DOMAIN terms = 1..n  BY SequenceNumbered, Zenon DEF IsList, Numbered
<1>2. \A i \in 1..n : \E Y : seqs[i] \in Seq(Y)
  <2> TAKE i \in 1..n
  <2>1. seqs[i] = IF terms[i] \in DOMAIN Compound THEN Compound[terms[i]] ELSE <<terms[i]>>
    BY <1>1, Zenon DEF Taken
  <2>2. \A t : <<t>> \in Seq({t})  OBVIOUS
  <2> HIDE DEF seqs
  <2> QED BY <2>1, <2>2, RankAssumption, Zenon
<1>3. seqs = [i \in 1..n |-> seqs[i]]  BY <1>1, Zenon DEF Taken
<1> HIDE DEF seqs, n
<1>4. \E Y : seqs \in [1..n -> Seq(Y)]  BY <1>2, <1>3, CommonElements, Zenon
<1> QED BY <1>1, <1>4, Zenon DEF seqs, n

\* A query that is taken apart is a list.
LEMMA TokenizedIsSequence ==
    ASSUME NEW terms, IsList(terms)
    PROVE  \E Y : Tokenized(terms) \in Seq(Y)
<1>1. Tokenized(terms) = FlattenSeq(Taken(terms))  BY Zenon DEF Tokenized, Taken
<1>2. PICK Y : Taken(terms) \in [1..Len(terms) -> Seq(Y)]  BY TakenTyped, Zenon
<1>3. FlattenSeq(Taken(terms)) \in Seq(Y)  BY <1>2, TakenTyped, FlattenTyped, Zenon
<1> QED BY <1>1, <1>3, Zenon

\* So is the list of terms of a query.
LEMMA SegmentedIsSequence ==
    ASSUME NEW terms, IsList(terms)
    PROVE  \E Y : Segmented(terms) \in Seq(Y)
  BY TokenizedIsSequence, Zenon DEF Segmented, IsList

\* No words are no query.
LEMMA NoWordsNoQuery ==
    ASSUME NEW opts
    PROVE  CompileQuery(<<>>, opts) = <<>>
<1> DEFINE none == <<>>
           parts == Segmented(none)
           Value(i) == Matcher(parts[i], opts)
<1>1. Len(none) = 0 /\ DOMAIN none = {} /\ \A f : [i \in {} |-> f[i]] = none  OBVIOUS
<1>2. Len(Taken(none)) = 0 /\ Taken(none) = none  BY <1>1 DEF Taken
<1>3. parts = none
  <2> HIDE DEF none
  <2>1. FlattenSeq(Taken(none)) = none  BY <1>2, Zenon DEF FlattenSeq
  <2> QED BY <2>1, Zenon DEF Segmented, Tokenized, Taken
<1>4. CompileQuery(none, opts) = IF Len(parts) > MaxQueryTerms THEN <<>> ELSE [i \in DOMAIN parts |-> Value(i)]
  <2> HIDE DEF none
  <2> QED BY Zenon DEF CompileQuery
<1> HIDE DEF Value, parts
<1>5. [i \in DOMAIN parts |-> Value(i)] = <<>>
  <2>1. DOMAIN parts = {}  BY <1>1, <1>3, Zenon
  <2> QED BY <2>1
<1> QED BY <1>4, <1>5, Zenon DEF none

\* A query is compiled into a list of matchers (compile_query).
LEMMA CompiledNumbered ==
    ASSUME NEW terms, IsList(terms), NEW opts
    PROVE  Numbered(CompileQuery(terms, opts))
<1> DEFINE parts == Segmented(terms)
           matchers == [i \in DOMAIN parts |-> Matcher(parts[i], opts)]
<1>1. Numbered(parts)  BY SegmentedIsSequence, SequenceNumbered, Zenon
<1>2. CompileQuery(terms, opts) = IF Len(parts) > MaxQueryTerms THEN <<>> ELSE matchers
  BY Zenon DEF CompileQuery
<1>3. Numbered(matchers)
  <2>1. Len(parts) \in Nat /\ DOMAIN parts = 1..Len(parts)  BY <1>1, Zenon DEF Numbered
  <2>2. DOMAIN matchers = 1..Len(parts) /\ matchers = [i \in 1..Len(parts) |-> matchers[i]]
    <3> HIDE DEF parts
    <3> QED BY <2>1, Zenon
  <2> HIDE DEF matchers, parts
  <2> QED BY <2>1, <2>2, NumberedFunction, Zenon
<1>4. Numbered(<<>>)  BY DEF Numbered
<1> HIDE DEF matchers, parts
<1> QED BY <1>2, <1>3, <1>4, Zenon

\* So is a Chinese query that is a word (_resolve_chinese_terms).
LEMMA ResolvedNumbered ==
    ASSUME NEW terms, IsList(terms), NEW tokens, NEW q
    PROVE  Numbered(ResolvedTerms(tokens, q, terms))
<1>1. ResolvedTerms(tokens, q, terms) \in {<<Matcher(terms[1], q)>>, CompileQuery(terms, q)}
  BY Zenon DEF ResolvedTerms
<1>2. Numbered(CompileQuery(terms, q))  BY CompiledNumbered, Zenon
<1> QED BY <1>1, <1>2 DEF Numbered

\* The elements of a list.
LEMMA ElementOfList ==
    ASSUME NEW s, NEW i \in DOMAIN s
    PROVE  s[i] \in ToSet(s)
  BY Zenon DEF ToSet

\* A CQP query becomes a list of filters (parse_query).
LEMMA ParsedNumbered ==
    ASSUME NEW items, IsList(items), \A i \in ToSet(items) : IsList(i.terms)
    PROVE  Numbered(ParseQuery(items))
<1> DEFINE seqs == [i \in DOMAIN items |-> ParsedItem(items[i])]
           n == Len(items)
<1>1. Len(items) \in Nat /\ DOMAIN items = 1..Len(items)  BY SequenceNumbered, Zenon DEF IsList, Numbered
<1>2. \A i \in DOMAIN items : \E Y : seqs[i] \in Seq(Y)
  <2> TAKE i \in DOMAIN items
  <2>1. IsList(items[i].terms)  BY ElementOfList, Zenon
  <2> DEFINE words == Segmented(items[i].terms)
             phrase == [j \in DOMAIN words |-> [on |-> "word", term |-> words[j], whole |-> TRUE]]
  <2>2. \E Y : phrase \in Seq(Y)
    <3> HIDE DEF words
    <3>1. Len(words) \in Nat /\ DOMAIN words = 1..Len(words)
      BY <2>1, SegmentedIsSequence, SequenceNumbered, Zenon DEF Numbered, words
    <3>2. phrase = [j \in 1..Len(words) |-> phrase[j]]  BY <3>1, Zenon
    <3> HIDE DEF phrase
    <3> QED BY <3>1, <3>2, FunctionIsSequence, Zenon
  <2>3. \A f : \E Y : <<f>> \in Seq(Y)
    <3> TAKE f
    <3>1. <<f>> \in Seq({f})  OBVIOUS
    <3> QED BY <3>1, Zenon
  <2>4. \/ seqs[i] = phrase
        \/ \E f : seqs[i] = <<f>>
    <3>1. seqs[i] = ParsedItem(items[i])  BY Zenon
    <3>2. \/ ParsedItem(items[i]) = phrase
          \/ ParsedItem(items[i]) = <<[on |-> "word", term |-> items[i].terms[1], whole |-> FALSE]>>
          \/ ParsedItem(items[i]) = <<[on |-> "pos", term |-> items[i].terms[1], whole |-> TRUE]>>
          \/ ParsedItem(items[i]) = <<[on |-> "any", term |-> "", whole |-> TRUE]>>
      BY Zenon DEF ParsedItem
    <3> HIDE DEF phrase, seqs
    <3> QED BY <3>1, <3>2, Zenon
  <2> HIDE DEF phrase, seqs
  <2> QED BY <2>2, <2>3, <2>4, Zenon
<1>3. seqs = [i \in 1..n |-> seqs[i]]  BY <1>1, Zenon
<1>4. ParseQuery(items) \in {<<>>, FlattenSeq(seqs)}  BY Zenon DEF ParseQuery
<1> HIDE DEF seqs
<1>5. \E Y : seqs \in [1..n -> Seq(Y)]  BY <1>1, <1>2, <1>3, CommonElements, Zenon
<1>6. Numbered(FlattenSeq(seqs))
  <2>1. PICK Y : seqs \in [1..n -> Seq(Y)]  BY <1>5, Zenon
  <2> QED BY <1>1, <2>1, FlattenTyped, SequenceNumbered, Zenon
<1> QED BY <1>4, <1>6 DEF Numbered

\* A match of a list of n terms.
LEMMA MatchOfList ==
    ASSUME NEW tokens, Tokens(tokens), NEW g \in DOMAIN tokens, NEW n \in Nat
    PROVE  MatchOf(tokens, g, n) = MatchAt(tokens, g, n, 0)
<1>1. tokens[g].stream \in Nat  BY StreamsIncrease, Zenon
<1>2. EndOf(tokens[g].stream + n - 1) - 0 = EndOf(tokens[g].stream + n - 1)
  BY <1>1 DEF EndOf, StartOf, WordWidth
<1> QED BY <1>2, Zenon DEF MatchOf, MatchAt

\* Matches of one list begin in some rows and go on for its length.
LEMMA MatchesOfList ==
    ASSUME NEW tokens, Tokens(tokens), NEW n \in Nat, NEW rows \in SUBSET (DOMAIN tokens),
           \A g \in rows : Along(tokens, g, n),
           NEW matches, matches = MatchesAt(tokens, rows, n)
    PROVE  AreMatches(tokens, matches, 0) /\ \A m \in matches : m.length = n
<1>1. \A m \in matches : \E g \in rows : m = MatchOf(tokens, g, n)  BY Zenon DEF MatchesAt
<1>2. \A m \in matches : \E g \in DOMAIN tokens : \E k \in Nat :
          m = MatchAt(tokens, g, k, 0) /\ Along(tokens, g, k)
  <2> TAKE m \in matches
  <2>1. PICK g \in rows : m = MatchOf(tokens, g, n)  BY <1>1, Zenon
  <2> QED BY <2>1, MatchOfList, Zenon
<1>3. \A m \in matches : m.length = n
  <2> TAKE m \in matches
  <2>1. PICK g \in rows : m = MatchOf(tokens, g, n)  BY <1>1, Zenon
  <2> QED BY <2>1 DEF MatchOf
<1> QED BY MatchesAtFinite, <1>2, <1>3, Zenon DEF AreMatches

\* The matches of the simple search (_match_sql).
LEMMA MatchesAreMatches ==
    ASSUME NEW tokens, Tokens(tokens), NEW lang, NEW matchers, Numbered(matchers), NEW tag
    PROVE  /\ AreMatches(tokens, Matches(tokens, lang, matchers, tag), 0)
           /\ \A m \in Matches(tokens, lang, matchers, tag) : m.length = Len(matchers)
<1> DEFINE rows == {h \in DOMAIN tokens :
                      /\ tokens[h].word.lang = lang
                      /\ tag # "" => tokens[h].word.tag = tag
                      /\ \A i \in DOMAIN matchers : \E k \in Beside(tokens, h, i - 1) :
                              Accepts(matchers[i], tokens[k].word.text)}
           n == Len(matchers)
<1>1. Len(matchers) \in Nat /\ DOMAIN matchers = 1..Len(matchers)  BY Zenon DEF Numbered
<1>2. \A g \in rows : Along(tokens, g, n)  BY <1>1, Zenon DEF Along
<1>3. Matches(tokens, lang, matchers, tag) = MatchesAt(tokens, rows, n)  BY Zenon DEF Matches, MatchesAt
<1>4. rows \in SUBSET (DOMAIN tokens)  BY Zenon
<1> HIDE DEF rows
<1> QED BY <1>1, <1>2, <1>3, <1>4, MatchesOfList, Zenon

\* The matches of a CQP plan (_page_plan).
LEMMA PlanMatchesAreMatches ==
    ASSUME NEW tokens, Tokens(tokens), NEW lang, NEW filters, Numbered(filters), NEW tag
    PROVE  AreMatches(tokens, PlanMatches(tokens, lang, filters, tag), 0)
<1> DEFINE rows == {h \in DOMAIN tokens :
                      /\ tokens[h].word.lang = lang
                      /\ tag # "" => tokens[h].word.tag = tag
                      /\ \A i \in DOMAIN filters : \E k \in Beside(tokens, h, i - 1) :
                              FilterAccepts(filters[i], tokens[k].word)}
           n == Len(filters)
<1>1. Len(filters) \in Nat /\ DOMAIN filters = 1..Len(filters)  BY Zenon DEF Numbered
<1>2. \A g \in rows : Along(tokens, g, n)  BY <1>1, Zenon DEF Along
<1>3. PlanMatches(tokens, lang, filters, tag) = MatchesAt(tokens, rows, n)  BY Zenon DEF PlanMatches, MatchesAt
<1>4. rows \in SUBSET (DOMAIN tokens)  BY Zenon
<1> HIDE DEF rows
<1> QED BY <1>1, <1>2, <1>3, <1>4, MatchesOfList, Zenon

\* The matches of the advanced search (search_advanced): those of some queries, as far as the context allows.
LEMMA AdvancedAreMatches ==
    ASSUME NEW index, Tokens(index.tokens), NEW q, NEW queries, IsFiniteSet(queries), \A t \in queries : IsList(t)
    PROVE  AreMatches(index.tokens, AdvancedMatches(index, q, queries), 0)
<1> DEFINE tokens == index.tokens
           of(t) == Matches(tokens, q.lang, ResolvedTerms(tokens, q, t), q.tag)
<1>1. \A t \in queries : AreMatches(tokens, of(t), 0)  BY ResolvedNumbered, MatchesAreMatches, Zenon
<1>2. \A m \in AdvancedMatches(index, q, queries) : \E t \in queries : m \in of(t)
  BY Zenon DEF AdvancedMatches
<1> HIDE DEF of
<1> QED BY <1>1, <1>2, AdvancedMatchesFinite, Zenon DEF AreMatches

\* The comparison of two pairs of numbers.
LEMMA PairLess ==
    ASSUME NEW a \in Int, NEW b \in Int, NEW c \in Int, NEW d \in Int
    PROVE  SeqLess(<<a, b>>, <<c, d>>) <=> (a < c \/ (a = c /\ b < d))
<1> DEFINE s == <<a, b>>
           t == <<c, d>>
<1>1. Len(s) = 2 /\ Len(t) = 2 /\ s[1] = a /\ s[2] = b /\ t[1] = c /\ t[2] = d  OBVIOUS
<1> HIDE DEF s, t
<1>2. ASSUME a < c PROVE SeqLess(s, t)  BY <1>1, <1>2, SeqLessAt DEF FallsBelow
<1>3. ASSUME a = c, b < d PROVE SeqLess(s, t)
  <2>1. FallsBelow(s, t, 2)  BY <1>1, <1>3 DEF FallsBelow
  <2> QED BY <1>1, <2>1, SeqLessAt
<1>4. ASSUME SeqLess(s, t) PROVE a < c \/ (a = c /\ b < d)
  <2>1. PICK i \in 1..(Len(s) + 1) : FallsBelow(s, t, i)  BY <1>4, Zenon DEF SeqLess, FallsBelow
  <2> QED BY <1>1, <2>1 DEF FallsBelow
<1> QED BY <1>2, <1>3, <1>4 DEF s, t

\* Spans of a text: no two begin and end at the same places.
Spans(spans) ==
    /\ IsFiniteSet(spans)
    /\ \A s \in spans : s.from \in Int /\ s.to \in Int
    /\ \A s, t \in spans : s.from = t.from /\ s.to = t.to => s = t

\* Where spans begin and end.
Ends(spans) == [s \in spans |-> <<s.from, s.to>>]

\* Spans have an order in the text.
LEMMA SpansInOrder ==
    ASSUME NEW spans, Spans(spans)
    PROVE  Enumerates(InText(spans), spans, BeforeByKey(spans, Ends(spans)))
<1> DEFINE key == Ends(spans)
           before == BeforeByKey(spans, key)
           Less(s, t) == s.from < t.from \/ (s.from = t.from /\ s.to < t.to)
<1>1. /\ IsFiniteSet(spans)
      /\ \A s \in spans : s.from \in Int /\ s.to \in Int
      /\ \A s, t \in spans : s.from = t.from /\ s.to = t.to => s = t
  BY Zenon DEF Spans
<1>2. \A s \in spans : key[s] = <<s.from, s.to>>  BY Zenon DEF Ends
<1>3. key \in [spans -> Seq(Int)]
  <2>1. \A s \in spans : <<s.from, s.to>> \in Seq(Int)  BY <1>1
  <2> QED BY <2>1, Zenon DEF Ends
<1> HIDE DEF key
<1>4. \A s, t \in spans : key[s] = key[t] => s = t
  <2> SUFFICES ASSUME NEW s \in spans, NEW t \in spans, key[s] = key[t] PROVE s = t
    BY Zenon
  <2>1. s.from = t.from /\ s.to = t.to  BY <1>2
  <2> QED BY <2>1, <1>1, Zenon
<1>5. Orders(spans, before)  BY <1>1, <1>3, <1>4, KeysOrder, Zenon
<1>6. \A x \in spans : {y \in spans : Less(y, x)} = before[x]
  <2> TAKE x \in spans
  <2>1. \A y \in spans : Less(y, x) <=> SeqLess(key[y], key[x])
    <3> TAKE y \in spans
    <3>1. x.from \in Int /\ x.to \in Int /\ y.from \in Int /\ y.to \in Int  BY <1>1, Zenon
    <3>2. key[x] = <<x.from, x.to>> /\ key[y] = <<y.from, y.to>>  BY <1>2
    <3> QED BY <3>1, PairLess, <3>2
  <2>2. before[x] = {y \in spans : SeqLess(key[y], key[x])}  BY Zenon DEF BeforeByKey
  <2> HIDE DEF before, Less
  <2> QED BY <2>1, <2>2, Zenon
<1>7. InText(spans) = Ranked(spans, before)
  <2> DEFINE A(x) == [at |-> Cardinality({y \in spans : Less(y, x)}), element |-> x]
             B(x) == [at |-> Cardinality(before[x]), element |-> x]
             Value(all) == [i \in 1..Cardinality(spans) |-> (CHOOSE p \in all : p.at = i - 1).element]
  <2>1. InText(spans) = Value({A(x) : x \in spans})  BY Zenon DEF InText, InOrder
  <2>2. Ranked(spans, before) = Value({B(x) : x \in spans})  BY Zenon DEF Ranked
  <2>3. \A x \in spans : A(x) = B(x)
    <3> HIDE DEF before, Less
    <3> QED BY <1>6, Zenon
  <2> HIDE DEF A, B, Value, before
  <2>4. {A(x) : x \in spans} = {B(x) : x \in spans}  BY <2>3
  <2> QED BY <2>1, <2>2, <2>4, Zenon
<1> HIDE DEF before
<1> QED BY <1>5, <1>7, RankedEnumerates, Zenon DEF before, key

\* Only spans that were found are marked (finditer takes some of the places where the expression fits).
LEMMA MarkedAreSpans ==
    ASSUME NEW spans, Spans(spans)
    PROVE  Marked(spans) \in Seq(spans) /\ \A s \in ToSet(Marked(spans)) : s \in spans
<1>1. Marked(spans) \in Seq(spans)  BY SpansInOrder, MarkedTyped, Zenon DEF Spans, Enumerates
<1>2. \A s \in ToSet(Marked(spans)) : s \in spans
  <2> DEFINE marked == Marked(spans)
  <2> HIDE DEF marked
  <2> SUFFICES ASSUME marked \in Seq(spans), NEW s \in ToSet(marked) PROVE s \in spans
    BY <1>1, Zenon DEF marked
  <2>1. PICK i \in DOMAIN marked : s = marked[i]  BY Zenon DEF ToSet
  <2> QED BY <2>1, LenProperties, ElementOfSeq, Zenon
<1> QED BY <1>1, <1>2, Zenon

\* The span of n words from row g, less the characters that are cut off.
SpanAt(tokens, g, n, cut) ==
    [from |-> StartOf(tokens[g].stream), to |-> EndOf(tokens[g].stream + n - 1) - cut]

\* The numbers of such a span.
LEMMA SpanNumbers ==
    ASSUME NEW a \in Int, NEW n \in Nat, NEW cut \in {0, 1}
    PROVE  StartOf(a) \in Int /\ EndOf(a + n - 1) - cut \in Int
  BY DEF EndOf, StartOf, WordWidth

\* The words of a stream that a span overlaps.
LEMMA OverlapIsBetween ==
    ASSUME NEW a \in Int, NEW h \in Int, NEW n \in Nat, NEW cut \in {0, 1}
    PROVE  (EndOf(h) > StartOf(a) /\ StartOf(h) < EndOf(a + n - 1) - cut) <=> (a <= h /\ h <= a + n - 1)
  BY DEF EndOf, StartOf, WordWidth

\* The span that an expression of n words has matched is mapped to these words (_search_full_regex).
LEMMA RegexMatchIsMatch ==
    ASSUME NEW tokens, Tokens(tokens), NEW doc, NEW lang, NEW g \in StreamOf(tokens, doc, lang),
           NEW n \in Nat, Along(tokens, g, n), NEW cut \in {0, 1}
    PROVE  RegexMatch(tokens, doc, lang, SpanAt(tokens, g, n, cut)) \in {{}, {MatchAt(tokens, g, n, cut)}}
<1> DEFINE span == SpanAt(tokens, g, n, cut)
           a == tokens[g].stream
           rows == {h \in StreamOf(tokens, doc, lang) :
                      EndOf(tokens[h].stream) > span.from /\ StartOf(tokens[h].stream) < span.to}
           match == [row |-> CHOOSE h \in rows : \A k \in rows : h <= k,
                     length |-> Cardinality(rows), from |-> span.from, to |-> span.to]
<1>1. RegexMatch(tokens, doc, lang, span) = IF rows = {} THEN {} ELSE {match}  BY Zenon DEF RegexMatch
<1>2. \A h \in DOMAIN tokens : h \in Nat /\ tokens[h].stream \in Nat \ {0}  BY StreamsIncrease, Zenon
<1>3. /\ \A h : h \in StreamOf(tokens, doc, lang) => h \in DOMAIN tokens /\ SameStream(tokens, g, h) /\ SameStream(tokens, h, g)
      /\ \A h \in DOMAIN tokens : SameStream(tokens, g, h) => h \in StreamOf(tokens, doc, lang)
  BY DEF StreamOf, SameStream
<1>4. span.from = StartOf(a) /\ span.to = EndOf(a + n - 1) - cut  BY DEF SpanAt
<1> HIDE DEF span
<1>5. \A h \in StreamOf(tokens, doc, lang) : h \in rows <=> a <= tokens[h].stream /\ tokens[h].stream <= a + n - 1
  <2> TAKE h \in StreamOf(tokens, doc, lang)
  <2>1. a \in Int /\ tokens[h].stream \in Int  BY <1>2, <1>3
  <2>2. h \in rows <=> EndOf(tokens[h].stream) > StartOf(a) /\ StartOf(tokens[h].stream) < EndOf(a + n - 1) - cut
    BY <1>4, Zenon
  <2> QED BY <2>1, <2>2, OverlapIsBetween, Zenon
<1>6. \A h \in rows : h \in StreamOf(tokens, doc, lang)  BY Zenon
<1> HIDE DEF rows
<1>7. CASE rows = {}
  <2>1. RegexMatch(tokens, doc, lang, span) = {}
    <3> HIDE DEF match
    <3> QED BY <1>1, <1>7
  <2> QED BY <2>1 DEF span
<1>8. CASE rows # {}
  <2> HIDE DEF a
  <2>0. a \in Nat /\ \A h \in rows : tokens[h].stream \in Nat /\ h \in Nat /\ h \in DOMAIN tokens
    BY <1>2, <1>3, <1>6 DEF a
  <2>1. n >= 1
    <3>1. PICK h \in rows : TRUE  BY <1>8, Zenon
    <3>2. a <= tokens[h].stream /\ tokens[h].stream <= a + n - 1  BY <1>5, <1>6, Zenon
    <3> QED BY <3>2, <2>0
  <2>2. g \in rows  BY <2>0, <2>1, <1>5 DEF a
  <2>3. \A h \in rows : g <= h
    <3> TAKE h \in rows
    <3>1. h < g => tokens[h].stream < a  BY <1>3, <1>6, StreamsIncrease, Zenon DEF a
    <3>2. a <= tokens[h].stream  BY <1>5, <1>6, Zenon
    <3> QED BY <2>0, <2>2, <3>1, <3>2
  <2>4. (CHOOSE h \in rows : \A k \in rows : h <= k) = g
    <3> DEFINE first == CHOOSE h \in rows : \A k \in rows : h <= k
    <3>1. first \in rows /\ \A k \in rows : first <= k  BY <2>2, <2>3, Zenon
    <3> HIDE DEF first
    <3>2. first <= g /\ g <= first  BY <2>2, <2>3, <3>1, Zenon
    <3> QED BY <2>0, <2>2, <3>1, <3>2 DEF first
  <2>5. Cardinality(rows) = n
    <3> DEFINE f == [i \in 1..n |-> CHOOSE h \in Beside(tokens, g, i - 1) : TRUE]
    <3>1. \A i \in 1..n : f[i] \in Beside(tokens, g, i - 1)  BY Zenon DEF Along
    <3>2. f = [i \in 1..n |-> f[i]]  OBVIOUS
    <3> HIDE DEF f
    <3>3. \A i \in 1..n : f[i] \in StreamOf(tokens, doc, lang) /\ tokens[f[i]].stream = a + i - 1
      <4> TAKE i \in 1..n
      <4> QED BY <3>1, <1>3, <2>0 DEF Beside, SameStream, a
    <3>4. \A i \in 1..n : f[i] \in rows
      <4> TAKE i \in 1..n
      <4> QED BY <2>0, <3>3, <1>5
    <3>5. \A i, j \in 1..n : f[i] = f[j] => i = j
      <4> SUFFICES ASSUME NEW i \in 1..n, NEW j \in 1..n, f[i] = f[j] PROVE i = j
        BY Zenon
      <4> QED BY <3>3, <2>0
    <3>6. \A h \in rows : \E i \in 1..n : f[i] = h
      <4> TAKE h \in rows
      <4>1. a <= tokens[h].stream /\ tokens[h].stream <= a + n - 1  BY <1>5, <1>6, Zenon
      <4> DEFINE i == tokens[h].stream - a + 1
      <4>2. i \in 1..n /\ tokens[h].stream = a + (i - 1)  BY <4>1, <2>0
      <4> HIDE DEF i
      <4>3. h \in Beside(tokens, g, i - 1)  BY <4>2, <1>3, <1>6 DEF Beside, SameStream, a
      <4>4. g \in DOMAIN tokens  BY <2>0, <2>2
      <4>5. f[i] = h  BY <3>1, <4>2, <4>3, <4>4, BesideIsOne, Zenon
      <4> QED BY <4>2, <4>5, Zenon
    <3>7. f \in Bijection(1..n, rows)
      BY <3>2, <3>4, <3>5, <3>6 DEF Bijection, Injection, Surjection, IsInjective
    <3>8. IsFiniteSet(1..n) /\ Cardinality(1..n) = n  BY FS_Interval
    <3> QED BY <3>8, <3>7, FS_Bijection, Zenon DEF ExistsBijection
  <2>6. match = MatchAt(tokens, g, n, cut)  BY <1>4, <2>4, <2>5, Zenon DEF MatchAt, a
  <2> HIDE DEF match
  <2> QED BY <1>1, <1>8, <2>6, Zenon DEF span
<1> QED BY <1>7, <1>8

\* What a regular expression marks in a text are spans of as many words as it has, from a word on (finditer).
LEMMA RegexSpansAt ==
    ASSUME NEW tokens, Tokens(tokens), NEW q, IsList(q.terms), NEW d, NEW s \in RegexSpans(tokens, d, q)
    PROVE  \E g \in StreamOf(tokens, d, q.lang) :
                s = SpanAt(tokens, g, Len(q.terms), IF q.prefix THEN 1 ELSE 0) /\ Along(tokens, g, Len(q.terms))
<1> DEFINE cut == IF q.prefix THEN 1 ELSE 0
           n == Len(q.terms)
<1>0a. n \in Nat /\ DOMAIN q.terms = 1..n  BY SequenceNumbered, Zenon DEF IsList, Numbered
<1>0b. cut \in {0, 1}  BY Zenon
<1> HIDE DEF cut
<1> DEFINE stream == StreamOf(tokens, d, q.lang)
           WordAccepts(g, i) == \E h \in Beside(tokens, g, i - 1) :
                    Accepts([term |-> q.terms[i], whole |-> TRUE, case |-> q.case], tokens[h].word.text)
           starts == {g \in stream : \A i \in DOMAIN q.terms : WordAccepts(g, i)}
           spans == {SpanAt(tokens, g, n, cut) : g \in starts}
<1>1. RegexSpans(tokens, d, q) = ToSet(Marked(spans))  BY Zenon DEF RegexSpans, SpanAt, cut
<1>2. \A g \in starts : g \in stream /\ Along(tokens, g, n)  BY <1>0a, Zenon DEF Along
<1>3. starts \in SUBSET stream /\ stream \in SUBSET (DOMAIN tokens)  BY DEF StreamOf
<1> HIDE DEF starts, stream
<1>4. Spans(spans)
  <2>1. IsFiniteSet(starts)  BY <1>3, TokensFinite, Zenon
  <2>2. IsFiniteSet(spans)
    <3> DEFINE f == [g \in starts |-> SpanAt(tokens, g, n, cut)]
    <3>1. Image(spans, f, starts)  BY Zenon DEF Image
    <3> QED BY <2>1, <3>1, ImageFinite, Zenon
  <2>3. \A g \in starts : tokens[g].stream \in Nat  BY <1>3, StreamsIncrease, Zenon
  <2>4. \A r \in spans : r.from \in Int /\ r.to \in Int
    <3> TAKE r \in spans
    <3>1. PICK g \in starts : r = SpanAt(tokens, g, n, cut)  BY Zenon
    <3>2. tokens[g].stream \in Int  BY <2>3
    <3>3. r.from = StartOf(tokens[g].stream) /\ r.to = EndOf(tokens[g].stream + n - 1) - cut
      BY <3>1 DEF SpanAt
    <3> QED BY <3>2, <3>3, <1>0a, <1>0b, SpanNumbers, Zenon
  <2>5. \A r, t \in spans : r.from = t.from /\ r.to = t.to => r = t
    <3> SUFFICES ASSUME NEW r \in spans, NEW t \in spans, r.from = t.from, r.to = t.to PROVE r = t
      BY Zenon
    <3>1. (\E g \in starts : r = SpanAt(tokens, g, n, cut)) /\ (\E g \in starts : t = SpanAt(tokens, g, n, cut))
      BY Zenon
    <3> HIDE DEF spans
    <3>2. r = [from |-> r.from, to |-> r.to] /\ t = [from |-> t.from, to |-> t.to]  BY <3>1 DEF SpanAt
    <3> QED BY <3>2, Zenon
  <2> QED BY <2>2, <2>4, <2>5, Zenon DEF Spans
<1>5. PICK g \in starts : s = SpanAt(tokens, g, n, cut)  BY <1>1, <1>4, MarkedAreSpans, Zenon
<1> QED BY <1>2, <1>5, Zenon DEF stream, cut

\* The matches of a regular expression (_search_full_regex).
LEMMA RegexAreMatches ==
    ASSUME NEW index, Tokens(index.tokens), NEW q, IsList(q.terms)
    PROVE  AreMatches(index.tokens, RegexFound(index, q), IF q.prefix THEN 1 ELSE 0)
<1> DEFINE tokens == index.tokens
           cut == IF q.prefix THEN 1 ELSE 0
           n == Len(q.terms)
<1>1. n \in Nat /\ DOMAIN q.terms = 1..n  BY SequenceNumbered, Zenon DEF IsList, Numbered
<1>2. cut \in {0, 1}  BY Zenon
<1> HIDE DEF cut
<1>3. \A m \in RegexFound(index, q) : \E d : \E s \in RegexSpans(tokens, d, q) : m \in RegexMatch(tokens, d, q.lang, s)
  <2> DEFINE docs == {index.tokens[g].word.doc : g \in DOMAIN index.tokens}
             found(d) == UNION {RegexMatch(tokens, d, q.lang, s) : s \in RegexSpans(tokens, d, q)}
  <2>1. RegexFound(index, q) = UNION {found(d) : d \in docs}  BY Zenon DEF RegexFound
  <2>2. \A d : \A m \in found(d) : \E s \in RegexSpans(tokens, d, q) : m \in RegexMatch(tokens, d, q.lang, s)
    BY Zenon
  <2> HIDE DEF found, docs
  <2> SUFFICES ASSUME NEW m \in UNION {found(d) : d \in docs}
               PROVE  \E d : \E s \in RegexSpans(tokens, d, q) : m \in RegexMatch(tokens, d, q.lang, s)
    BY <2>1, Zenon
  <2>3. PICK d \in docs : m \in found(d)  BY Zenon
  <2> QED BY <2>2, <2>3, Zenon
<1>4. ASSUME NEW d, NEW s \in RegexSpans(tokens, d, q)
      PROVE  \E g \in StreamOf(tokens, d, q.lang) : s = SpanAt(tokens, g, n, cut) /\ Along(tokens, g, n)
  BY RegexSpansAt, Zenon DEF cut
<1>5. \A m \in RegexFound(index, q) : \E g \in DOMAIN tokens : \E k \in Nat :
          m = MatchAt(tokens, g, k, cut) /\ Along(tokens, g, k)
  <2> TAKE m \in RegexFound(index, q)
  <2>1. PICK d : \E s \in RegexSpans(tokens, d, q) : m \in RegexMatch(tokens, d, q.lang, s)  BY <1>3, Zenon
  <2>2. PICK s \in RegexSpans(tokens, d, q) : m \in RegexMatch(tokens, d, q.lang, s)  BY <2>1, Zenon
  <2>3. PICK g \in StreamOf(tokens, d, q.lang) : s = SpanAt(tokens, g, n, cut) /\ Along(tokens, g, n)
    BY <1>4, Zenon
  <2>4. RegexMatch(tokens, d, q.lang, SpanAt(tokens, g, n, cut)) \in {{}, {MatchAt(tokens, g, n, cut)}}
    BY <1>1, <1>2, <2>3, RegexMatchIsMatch, Zenon
  <2>5. g \in DOMAIN tokens  BY DEF StreamOf
  <2> QED BY <1>1, <2>3, <2>2, <2>4, <2>5, Zenon
<1> QED BY RegexFoundFinite, <1>5, Zenon DEF AreMatches, cut

\* A match begins at its first word, in the language that was asked for.
Begins(tokens, lang, m) ==
    /\ m.row \in DOMAIN tokens /\ tokens[m.row].word.lang = lang
    /\ m.from = StartOf(tokens[m.row].stream)

\* So does every match that is found.
LEMMA MatchBegins ==
    ASSUME NEW tokens, NEW lang, NEW matchers, NEW tag, NEW m \in Matches(tokens, lang, matchers, tag)
    PROVE  Begins(tokens, lang, m)
<1> DEFINE rows == {h \in DOMAIN tokens :
                      /\ tokens[h].word.lang = lang
                      /\ tag # "" => tokens[h].word.tag = tag
                      /\ \A i \in DOMAIN matchers : \E k \in Beside(tokens, h, i - 1) :
                              Accepts(matchers[i], tokens[k].word.text)}
           n == Len(matchers)
<1>1. Matches(tokens, lang, matchers, tag) = {MatchOf(tokens, g, n) : g \in rows}  BY Zenon DEF Matches
<1>2. \A h \in rows : h \in DOMAIN tokens /\ tokens[h].word.lang = lang  BY Zenon
<1> HIDE DEF rows, n
<1>3. PICK g \in rows : m = MatchOf(tokens, g, n)  BY <1>1, Zenon
<1>4. m.row = g /\ m.from = StartOf(tokens[g].stream)  BY <1>3 DEF MatchOf
<1> QED BY <1>2, <1>4, Zenon DEF Begins

-----------------------------------------------------------------------------
(* What is found, in which order it is shown, and samples *)

\* Some matches are as well placed as all of them.
LEMMA PartIsPlaced ==
    ASSUME NEW tokens, NEW matches, WellPlaced(tokens, matches), NEW part \in SUBSET matches
    PROVE  WellPlaced(tokens, part)
<1> QED BY FS_Subset, Zenon DEF WellPlaced

\* The queries of a request are finitely many lists.
LEMMA QueriesAreLists ==
    ASSUME NEW q, KwicQuery(q)
    PROVE  IsFiniteSet(Queries(q)) /\ \A t \in Queries(q) : IsList(t)
<1>1. IsList(q.terms) /\ IsList(q.list) /\ \A t \in ToSet(q.list) : IsList(t)
  BY Zenon DEF KwicQuery, SoundLists
<1>2. IsFiniteSet(ToSet(q.list))  BY <1>1, ElementsFinite, Zenon DEF IsList
<1>3. IsFiniteSet({q.terms} \cup ToSet(q.list))
  <2>1. IsFiniteSet(ToSet(q.list) \cup {q.terms})  BY <1>2, FS_AddElement, Zenon
  <2> QED BY <2>1, Zenon
<1>4. Queries(q) \in SUBSET ({q.terms} \cup ToSet(q.list))  BY DEF Queries
<1>5. IsFiniteSet(Queries(q))  BY <1>3, <1>4, FS_Subset, Zenon
<1>6. \A t \in Queries(q) : IsList(t)  BY <1>1, <1>4, Zenon
<1> QED BY <1>5, <1>6

\* Whichever engine finds them, matches begin in a row of the table, go on
\* along its stream and differ in their row or their length.
LEMMA FoundArePlaced ==
    ASSUME NEW index, Tokens(index.tokens), NEW q, KwicQuery(q)
    PROVE  WellPlaced(index.tokens, Found(index, q))
<1>1. /\ IsList(q.terms) /\ IsList(q.items)
      /\ \A i \in ToSet(q.items) : IsList(i.terms)
  BY Zenon DEF KwicQuery, SoundLists
<1>2. Numbered(ParseQuery(q.items)) /\ Numbered(ResolvedTerms(index.tokens, q, q.terms))
  BY <1>1, ParsedNumbered, ResolvedNumbered, Zenon
<1>3. WellPlaced(index.tokens, RegexFound(index, q))  BY <1>1, RegexAreMatches, MatchesArePlaced, Zenon
<1>4. WellPlaced(index.tokens, AdvancedMatches(index, q, Queries(q)))
  BY QueriesAreLists, AdvancedAreMatches, MatchesArePlaced, Zenon
<1> QED BY <1>2, PlanMatchesAreMatches, MatchesArePlaced, <1>3, <1>4, MatchesAreMatches, Zenon DEF Found

-----------------------------------------------------------------------------
(* Sort values *)

\* The sort keys are a list, and none is blank.
LEMMA KeysAreList ==
    ASSUME NEW sort, IsList(sort)
    PROVE  Numbered(NormalizeSortKeys(sort))
<1> DEFINE places == {i \in DOMAIN sort : sort[i].by # "" /\ \A j \in 1..(i - 1) : sort[j] # sort[i]}
<1>1. Len(sort) \in Nat /\ DOMAIN sort = 1..Len(sort)  BY SequenceNumbered, Zenon DEF IsList, Numbered
<1>2. places \in SUBSET (1..Len(sort))  BY <1>1, Zenon
<1>3. NormalizeSortKeys(sort) = At(sort, places)  BY Zenon DEF NormalizeSortKeys
<1> HIDE DEF places
<1>4. PICK X : At(sort, places) \in Seq(X)  BY <1>1, <1>2, PlacesAreFinite, AtIsSequence, Zenon
<1> QED BY <1>3, <1>4, SequenceNumbered, Zenon

\* A word has a rank.
LEMMA RankTyped ==
    ASSUME NEW tokens, Tokens(tokens), NEW g \in DOMAIN tokens
    PROVE  Rank[NormalAt(tokens, g)] \in Int
<1>1. tokens[g].word \in WordRecords  BY StreamsIncrease, Zenon
<1>2. tokens[g].word.text \in DOMAIN Normal  BY <1>1 DEF WordRecords
<1> QED BY <1>2, RankAssumption, Zenon DEF NormalAt

\* A match is sorted by numbers.
LEMMA SortValueTyped ==
    ASSUME NEW tokens, Tokens(tokens), NEW matches, WellPlaced(tokens, matches), NEW m \in matches,
           NEW loaded, NEW k, NEW inSql
    PROVE  SortValue(tokens, loaded, m, k, inSql) \in Seq(Int)
<1>1. m.row \in DOMAIN tokens /\ Along(tokens, m.row, m.length)  BY Zenon DEF WellPlaced
<1>2. m.row \in Int /\ tokens[m.row].word \in WordRecords
  <2>1. m.row \in Nat  BY <1>1, StreamsIncrease, Zenon
  <2> QED BY <1>1, <2>1, StreamsIncrease
<1>3. FilePlace(tokens[m.row].word.doc, inSql) \in Int
  <2>1. tokens[m.row].word.doc \in DOMAIN FileName  BY <1>2 DEF WordRecords
  <2> QED BY <2>1, RankAssumption, Zenon DEF FilePlace
<1>4. \A x \in Int : <<x>> \in Seq(Int)  OBVIOUS
<1>5. Rank[NormalAt(tokens, m.row)] \in Int  BY <1>1, RankTyped, Zenon
<1>6. Keyword(tokens, m) \in Seq(Int)
  <2> DEFINE n == m.length
             word(i) == Rank[NormalAt(tokens, CHOOSE g \in Beside(tokens, m.row, i - 1) : TRUE)]
             keyword == [i \in 1..n |-> word(i)]
  <2>1. n \in Nat /\ \A i \in 1..n : Beside(tokens, m.row, i - 1) # {}  BY <1>1, Zenon DEF Along
  <2>2. \A i \in 1..n : word(i) \in Int
    <3> TAKE i \in 1..n
    <3> QED BY <2>1, RankTyped, Zenon DEF Beside
  <2>3. keyword = Keyword(tokens, m)  BY Zenon DEF Keyword
  <2> HIDE DEF n, word
  <2>4. keyword \in [1..n -> Int]  BY <2>2
  <2> QED BY <2>1, <2>3, <2>4, LenOfFunction, Zenon
<1>7. \A rows \in SUBSET (DOMAIN tokens) : RankOf(tokens, rows) \in Seq(Int)
  <2> TAKE rows \in SUBSET (DOMAIN tokens)
  <2>1. CASE rows = {}
    <3>1. RankOf(tokens, rows) = <<1000>>  BY <2>1, Zenon DEF RankOf, Absent
    <3> QED BY <3>1
  <2>2. CASE rows # {}  BY <1>4, RankTyped, <2>2, Zenon DEF RankOf
  <2> QED BY <2>1, <2>2
<1>8. RankOf(tokens, TokenAt(tokens, loaded, m, SortOffset(k, m.length))) \in Seq(Int)
  <2>1. TokenAt(tokens, loaded, m, SortOffset(k, m.length)) \in SUBSET (DOMAIN tokens)  BY DEF TokenAt, Beside
  <2> QED BY <1>7, <2>1, Zenon
<1>9. SortValue(tokens, loaded, m, k, inSql) \in
          {<<m.row>>, <<FilePlace(tokens[m.row].word.doc, inSql)>>, <<Rank[NormalAt(tokens, m.row)]>>, Keyword(tokens, m),
           RankOf(tokens, TokenAt(tokens, loaded, m, SortOffset(k, m.length)))}
  BY Zenon DEF SortValue
<1> QED BY <1>2, <1>3, <1>4, <1>5, <1>6, <1>8, <1>9

\* Matches have places of their own.
LEMMA PlacesTyped ==
    ASSUME NEW tokens, Tokens(tokens), NEW matches, WellPlaced(tokens, matches)
    PROVE  /\ \A m \in matches : m.row \in Nat /\ Place(m) \in Seq(Int)
           /\ \A m, k \in matches : Place(m) = Place(k) => m = k
<1>1. \A m \in matches : m.row \in Nat /\ m.from \in Int /\ m.length \in Nat
  BY StreamsIncrease, Zenon DEF WellPlaced, Along
<1>2. \A m, k \in matches : Place(m) = Place(k) => m = k
  <2> SUFFICES ASSUME NEW m \in matches, NEW k \in matches, Place(m) = Place(k) PROVE m = k
    BY Zenon
  <2>1. m.row = k.row /\ m.length = k.length  BY DEF Place
  <2> QED BY <2>1, Zenon DEF WellPlaced
<1> QED BY <1>1, <1>2 DEF Place

\* Placed matches can be sorted by any list of keys.
LEMMA PlacedSortable ==
    ASSUME NEW tokens, Tokens(tokens), NEW matches, WellPlaced(tokens, matches),
           NEW loaded, NEW keys, Numbered(keys), NEW inSql
    PROVE  Sortable(tokens, matches, loaded, keys, inSql)
<1> DEFINE n == Len(keys)
<1>1. n \in Nat /\ DOMAIN keys = 1..n  BY Zenon DEF Numbered
<1>2. \A m \in matches : SortValues(tokens, loaded, m, keys, inSql) \in KeyValues(n)
  <2> TAKE m \in matches
  <2> DEFINE value(k) == SortValue(tokens, loaded, m, k, inSql)
  <2>1. \A k : value(k) \in Seq(Int)  BY SortValueTyped, Zenon
  <2>2. SortValues(tokens, loaded, m, keys, inSql) = [i \in 1..n |-> value(keys[i])]
    BY <1>1, Zenon DEF SortValues
  <2> HIDE DEF value, n
  <2> QED BY <2>1, <2>2, Zenon DEF KeyValues
<1> QED BY <1>1, <1>2, PlacesTyped, Zenon DEF Sortable, WellPlaced

\* The pseudo-random place of a row is a number (_sample_matches).
LEMMA SampleHashTyped ==
    ASSUME NEW row \in Nat, NEW seed \in Int
    PROVE  SampleHash(row, seed) \in Int
<1> DEFINE product == row * HashFactor
<1>1. product \in Int  BY HashAssumption
<1> HIDE DEF product
<1>2. (product + seed) % HashSize \in Int  BY <1>1, HashAssumption
<1> QED BY <1>2, Zenon DEF SampleHash, product

\* What a sample is drawn by: a number and the place in the corpus.
SampleKey(m, seed) == <<SampleHash(m.row, seed)>> \o Place(m)

\* The pseudo-random order holds every match once.
LEMMA SampleOrderArranged ==
    ASSUME NEW tokens, Tokens(tokens), NEW matches, WellPlaced(tokens, matches), NEW q, q.seed \in Int
    PROVE  Arranges(SampleOrder(matches, q), matches)
<1> DEFINE key == [m \in matches |-> SampleKey(m, q.seed)]
           before == BeforeByKey(matches, key)
<1>1. IsFiniteSet(matches)  BY Zenon DEF WellPlaced
<1>2. /\ \A m \in matches : m.row \in Nat /\ Place(m) \in Seq(Int)
      /\ \A m, k \in matches : Place(m) = Place(k) => m = k
  BY PlacesTyped, Zenon
<1>3. \A m \in matches : key[m] = SampleKey(m, q.seed)  BY Zenon
<1>4. \A m \in matches : SampleKey(m, q.seed) \in Seq(Int)
  <2> TAKE m \in matches
  <2>1. SampleHash(m.row, q.seed) \in Int /\ Place(m) \in Seq(Int)  BY <1>2, SampleHashTyped, Zenon
  <2>2. <<SampleHash(m.row, q.seed)>> \in Seq(Int)  BY <2>1
  <2> QED BY <2>1, <2>2, ConcatProperties, Zenon DEF SampleKey
<1>5. key \in [matches -> Seq(Int)]  BY <1>4, Zenon
<1> HIDE DEF key
<1>6. \A m, k \in matches : key[m] = key[k] => m = k
  <2> SUFFICES ASSUME NEW m \in matches, NEW k \in matches, key[m] = key[k] PROVE m = k
    BY Zenon
  <2>1. ASSUME NEW x \in matches
        PROVE  SampleKey(x, q.seed)[2] = x.row /\ SampleKey(x, q.seed)[4] = x.length
    <3> DEFINE hash == SampleHash(x.row, q.seed)
               place == Place(x)
    <3>1. hash \in Int /\ place \in Seq(Int)  BY <1>2, SampleHashTyped, Zenon
    <3>2. place[1] = x.row /\ place[3] = x.length /\ Len(place) = 3  BY DEF Place
    <3> HIDE DEF hash, place
    <3>3. (<<hash>> \o place)[2] = place[1] /\ (<<hash>> \o place)[4] = place[3]
      <4> DEFINE head == <<hash>>
      <4>1. head \in Seq(Int) /\ Len(head) = 1  BY <3>1
      <4> HIDE DEF head
      <4> DEFINE both == head \o place
      <4>2. \A i \in 1..(Len(head) + Len(place)) : both[i] = IF i <= Len(head) THEN head[i] ELSE place[i - Len(head)]
        BY <3>1, <4>1, ConcatProperties, Zenon
      <4> HIDE DEF both
      <4>3. both[2] = place[1] /\ both[4] = place[3]  BY <3>2, <4>1, <4>2
      <4> QED BY <4>3 DEF head, both
    <3> QED BY <3>2, <3>3, Zenon DEF SampleKey, hash, place
  <2>2. m.row = k.row /\ m.length = k.length  BY <1>3, <2>1, Zenon
  <2> QED BY <2>2, Zenon DEF WellPlaced
<1>7. Orders(matches, before)  BY <1>1, <1>5, <1>6, KeysOrder, Zenon
<1>8. SampleOrder(matches, q) = Ranked(matches, before)
  <2> DEFINE Less(m, n) == SeqLess(SampleKey(m, q.seed), SampleKey(n, q.seed))
             A(x) == [at |-> Cardinality({y \in matches : Less(y, x)}), element |-> x]
             B(x) == [at |-> Cardinality(before[x]), element |-> x]
             Value(all) == [i \in 1..Cardinality(matches) |-> (CHOOSE p \in all : p.at = i - 1).element]
  <2>1. SampleOrder(matches, q) = Value({A(x) : x \in matches})  BY Zenon DEF SampleOrder, InOrder, SampleKey
  <2>2. Ranked(matches, before) = Value({B(x) : x \in matches})  BY Zenon DEF Ranked
  <2>3. \A x \in matches : A(x) = B(x)
    <3> TAKE x \in matches
    <3>1. before[x] = {y \in matches : SeqLess(key[y], key[x])}  BY Zenon DEF BeforeByKey
    <3>2. \A y \in matches : Less(y, x) <=> SeqLess(key[y], key[x])  BY <1>3, Zenon
    <3> HIDE DEF before, Less
    <3> QED BY <3>1, <3>2, Zenon
  <2> HIDE DEF A, B, Value, before
  <2>4. {A(x) : x \in matches} = {B(x) : x \in matches}  BY <2>3
  <2> QED BY <2>1, <2>2, <2>4, Zenon
<1> HIDE DEF before
<1> QED BY <1>1, <1>7, <1>8, RankedEnumerates, EnumeratedArranged, Zenon

\* A sample is made of matches.
LEMMA SampleIsPart ==
    ASSUME NEW tokens, Tokens(tokens), NEW matches, WellPlaced(tokens, matches),
           NEW q, q.seed \in Int, q.sample \in Nat
    PROVE  Sample(matches, q) \in SUBSET matches /\ WellPlaced(tokens, Sample(matches, q))
<1> DEFINE order == SampleOrder(matches, q)
           n == Lower(q.sample, Cardinality(matches))
<1>1. order \in Seq(matches) /\ Len(order) = Cardinality(matches) /\ Cardinality(matches) \in Nat
  BY SampleOrderArranged, Zenon DEF Arranges
<1>2. n \in Nat /\ n <= Len(order)  BY <1>1 DEF Lower
<1>3. Sample(matches, q) = ToSet(SubSeq(order, 1, n))  BY Zenon DEF Sample
<1> HIDE DEF order, n
<1>4. SubSeq(order, 1, n) \in Seq(matches)  BY <1>1, <1>2
<1>5. \A s \in Seq(matches) : ToSet(s) \in SUBSET matches
  <2> TAKE s \in Seq(matches)
  <2> QED BY DEF ToSet
<1> QED BY <1>3, <1>4, <1>5, PartIsPlaced, Zenon

\* The matches in order are every match once.
LEMMA SearchArranged ==
    ASSUME NEW index, Tokens(index.tokens), NEW q, KwicQuery(q)
    PROVE  Arranges(SearchOrder(index, q), Found(index, q))
<1> DEFINE loaded == IF InMemory(q) THEN Context(index.tokens, Found(index, q), 5) ELSE DOMAIN index.tokens
           keys == NormalizeSortKeys(q.sort)
<1>1. Numbered(keys)  BY KeysAreList, Zenon DEF KwicQuery, SoundLists
<1> HIDE DEF keys, loaded
<1>2. Sortable(index.tokens, Found(index, q), loaded, keys, ~InMemory(q))
  BY <1>1, FoundArePlaced, PlacedSortable, Zenon
<1> QED BY <1>2, SortedArranges, Zenon DEF SearchOrder, loaded, keys

\* So is a sample in the order in which it is shown.
LEMMA SampledArranged ==
    ASSUME NEW index, Tokens(index.tokens), NEW q, KwicQuery(q), q.sample \in Nat
    PROVE  /\ Arranges(SampledOrder(index, q), Sample(Found(index, q), q))
           /\ WellPlaced(index.tokens, Sample(Found(index, q), q))
<1> DEFINE tokens == index.tokens
           found == Found(index, q)
           sampled == Sample(found, q)
           loaded == Context(tokens, sampled, 5)
           keys == NormalizeSortKeys(q.sort)
           sorted == Sorted(tokens, sampled, loaded, keys, q.order, FALSE)
<1>1. Numbered(keys) /\ q.seed \in Int  BY KeysAreList, Zenon DEF KwicQuery, SoundLists
<1>2. WellPlaced(tokens, sampled)  BY <1>1, FoundArePlaced, SampleIsPart, Zenon
<1>3. SampledOrder(index, q) \in {SampleOrder(sampled, q), sorted}  BY Zenon DEF SampledOrder
<1> HIDE DEF keys, sampled, loaded
<1>4. Arranges(sorted, sampled)  BY <1>1, <1>2, PlacedSortable, SortedArranges, Zenon
<1> HIDE DEF sorted
<1>5. Arranges(SampledOrder(index, q), sampled)  BY <1>3, <1>4, <1>1, <1>2, SampleOrderArranged, Zenon
<1> QED BY <1>2, <1>5, Zenon DEF sampled

-----------------------------------------------------------------------------
(* Turning the pages of a concordance *)

\* What is shown are the elements of the whole behind the first ones.
FollowsOn(shown, ordered, skipped) ==
    \A i \in 1..Len(shown) : skipped + i \in 1..Len(ordered) /\ shown[i] = ordered[skipped + i]

\* A hit on a page is the element of the whole that the page begins with, and so on.
LEMMA PageElements ==
    ASSUME NEW X, NEW ordered \in Seq(X), NEW size \in Nat \ {0}, NEW page \in Nat \ {0},
           NEW p, p = EffectivePage(page, NumPages(Len(ordered), size))
    PROVE  FollowsOn(PageOf(ordered, page, size), ordered, (p - 1) * size)
<1> DEFINE n == Len(ordered)
           first == (p - 1) * size + 1
           last == Lower(p * size, n)
<1>1. n \in Nat  BY LenProperties, Zenon
<1>2. p \in Nat \ {0}
  <2>1. NumPages(n, size) \in Nat \ {0} /\ EffectivePage(page, NumPages(n, size)) \in 1..NumPages(n, size)
    BY <1>1, PagesCount, Zenon
  <2> QED BY <2>1
<1>3. (p - 1) * size \in Nat /\ p * size \in Nat  BY <1>2
<1>4. first \in Nat \ {0} /\ last \in Nat /\ last <= n
  <2> DEFINE a == (p - 1) * size
             b == p * size
  <2> HIDE DEF a, b
  <2> QED BY <1>1, <1>3 DEF Lower, a, b
<1>5. PageOf(ordered, page, size) = SubSeq(ordered, first, last)  BY Zenon DEF PageOf
<1> DEFINE shown == SubSeq(ordered, first, last)
<1>6. \A i \in 1..Len(shown) : first + i - 1 \in 1..n /\ shown[i] = ordered[first + i - 1]
  <2> HIDE DEF first, last
  <2> QED BY <1>1, <1>4
<1>7. \A i \in 1..Len(shown) : first + i - 1 = (p - 1) * size + i
  <2> DEFINE a == (p - 1) * size
  <2>1. a \in Nat /\ first = a + 1  BY <1>3
  <2> HIDE DEF a, first
  <2> HIDE DEF shown
  <2> QED BY <2>1, <1>1, <1>4 DEF a
<1> HIDE DEF shown, first
<1>8. \A i \in 1..Len(shown) : (p - 1) * size + i \in 1..n /\ shown[i] = ordered[(p - 1) * size + i]
  <2> TAKE i \in 1..Len(shown)
  <2> DEFINE j == (p - 1) * size + i
  <2> HIDE DEF j
  <2> QED BY <1>6, <1>7, Zenon DEF j
<1> QED BY <1>5, <1>8, Zenon DEF shown, FollowsOn

\* A sample is shown on one page.
LEMMA OnePage ==
    ASSUME NEW n \in Nat
    PROVE  NumPages(n, Higher(1, n)) = 1
<1>1. CASE n = 0  BY <1>1 DEF NumPages
<1>2. CASE n > 0
  <2> DEFINE pages == NumPages(n, n)
  <2>1. pages \in Nat \ {0} /\ (pages - 1) * n < n  BY <1>2, PagesCount
  <2> HIDE DEF pages
  <2>2. pages = 1
    <3> SUFFICES ASSUME pages > 1 PROVE FALSE
      BY <2>1
    <3> DEFINE k == pages - 2
    <3> HIDE DEF k
    <3> QED BY <2>1
  <2> QED BY <1>2, <2>2 DEF pages, Higher
<1> QED BY <1>1, <1>2

\* Hits at the places of different matches differ.
LEMMA HitsDiffer ==
    ASSUME NEW tokens, NEW matches, WellPlaced(tokens, matches), NEW s, Arranges(s, matches)
    PROVE  IsInjective(HitsOf(s)) /\ Len(HitsOf(s)) = Len(s) /\ DOMAIN HitsOf(s) = 1..Len(s)
<1> DEFINE n == Len(s)
           hits == HitsOf(s)
<1>1. /\ n \in Nat /\ DOMAIN s = 1..n /\ \A i \in 1..n : s[i] \in matches
      /\ \A i, j \in 1..n : s[i] = s[j] => i = j
  BY LenProperties, ElementOfSeq, Zenon DEF Arranges
<1>2. hits = [i \in 1..n |-> [row |-> s[i].row, length |-> s[i].length]]  BY <1>1, Zenon DEF HitsOf
<1>3. hits = [i \in 1..n |-> hits[i]] /\ DOMAIN hits = 1..n  BY <1>2
<1>4. Len(hits) = n
  <2> HIDE DEF hits, n
  <2> QED BY <1>1, <1>3, FunctionIsSequence, Zenon
<1>5. \A i \in 1..n : hits[i].row = s[i].row /\ hits[i].length = s[i].length  BY <1>2
<1> HIDE DEF hits, n
<1>6. \A i, j \in 1..n : hits[i] = hits[j] => i = j
  <2> SUFFICES ASSUME NEW i \in 1..n, NEW j \in 1..n, hits[i] = hits[j] PROVE i = j
    BY Zenon
  <2>1. s[i].row = s[j].row /\ s[i].length = s[j].length  BY <1>5
  <2> QED BY <1>1, <2>1, Zenon DEF WellPlaced
<1> QED BY <1>3, <1>4, <1>6, Zenon DEF hits, n, IsInjective

\* A list of one sequence.
LEMMA FlattenOne ==
    ASSUME NEW s
    PROVE  FlattenSeq([p \in 1..1 |-> s]) = s
<1> DEFINE seqs == [p \in 1..1 |-> s]
           g == [i \in 1..Len(seqs) |-> s]
<1>1. Len(seqs) = 1 /\ seqs[1] = s  OBVIOUS
<1>2. Flattens(g, seqs)
  <2> HIDE DEF seqs
  <2> QED BY <1>1 DEF Flattens
<1>3. g[Len(seqs)] = s  BY <1>1
<1> HIDE DEF seqs, g
<1>4. FlattenSeq(seqs) = g[Len(seqs)]  BY <1>1, <1>2, FlattenIs
<1> QED BY <1>3, <1>4 DEF seqs

\* A sample does not depend on the page.
LEMMA SameSample ==
    ASSUME NEW q, NEW s, SameSearch(q, s), q.sample = s.sample, q.seed = s.seed, NEW index
    PROVE  SampledOrder(index, q) = SampledOrder(index, s)
<1> DEFINE found == Found(index, q)
<1>1. Found(index, s) = found  BY SameFound, Zenon
<1>2. q.mode = s.mode /\ q.list = s.list /\ q.near = s.near /\ q.sort = s.sort /\ q.order = s.order
  BY Zenon DEF SameSearch
<1> DEFINE S(sample) == ToSet(SubSeq(SampleOrder(found, q), 1, Lower(sample, Cardinality(found))))
<1>3. \A matches : SampleOrder(matches, q) = SampleOrder(matches, s)
  <2> TAKE matches
  <2> DEFINE O(seed) == InOrder(matches, LAMBDA m, n :
                  SeqLess(<<SampleHash(m.row, seed)>> \o Place(m), <<SampleHash(n.row, seed)>> \o Place(n)))
  <2>1. SampleOrder(matches, q) = O(q.seed) /\ SampleOrder(matches, s) = O(s.seed)  BY Zenon DEF SampleOrder
  <2> HIDE DEF O
  <2> QED BY <2>1
<1>4. Sample(found, q) = Sample(found, s)
  <2>1. Sample(found, q) = S(q.sample)  BY Zenon DEF Sample
  <2>2. Sample(found, s) = ToSet(SubSeq(SampleOrder(found, s), 1, Lower(s.sample, Cardinality(found))))
    BY Zenon DEF Sample
  <2>3. Sample(found, s) = S(s.sample)
    <3> HIDE DEF found
    <3> QED BY <1>3, <2>2, Zenon
  <2> HIDE DEF S
  <2> QED BY <2>1, <2>3
<1> DEFINE sampled == Sample(found, q)
           T(sort, order) == Sorted(index.tokens, sampled, Context(index.tokens, sampled, 5), NormalizeSortKeys(sort), order, FALSE)
           U(f, sort) == ~f /\ NormalizeSortKeys(sort) = <<>>
<1>5. SampledOrder(index, q) = IF U(InMemory(q), q.sort) THEN SampleOrder(sampled, q) ELSE T(q.sort, q.order)
  BY Zenon DEF SampledOrder
<1>6. SampledOrder(index, s) = IF U(InMemory(s), s.sort) THEN SampleOrder(sampled, s) ELSE T(s.sort, s.order)
  <2> DEFINE R(matches) == LET few == Sample(matches, s)
                               keys == NormalizeSortKeys(s.sort)
                           IN  IF ~InMemory(s) /\ keys = <<>> THEN SampleOrder(few, s)
                               ELSE Sorted(index.tokens, few, Context(index.tokens, few, 5), keys, s.order, FALSE)
             V(few) == IF U(InMemory(s), s.sort) THEN SampleOrder(few, s)
                       ELSE Sorted(index.tokens, few, Context(index.tokens, few, 5), NormalizeSortKeys(s.sort), s.order, FALSE)
  <2>1. SampledOrder(index, s) = R(Found(index, s))  BY Zenon DEF SampledOrder
  <2>2. R(found) = V(Sample(found, s))  BY Zenon
  <2>3. V(sampled) = IF U(InMemory(s), s.sort) THEN SampleOrder(sampled, s) ELSE T(s.sort, s.order)  BY Zenon
  <2> HIDE DEF R, V
  <2>4. R(Found(index, s)) = R(found)  BY <1>1
  <2>5. V(Sample(found, s)) = V(sampled)  BY <1>4
  <2> QED BY <2>1, <2>2, <2>3, <2>4, <2>5, Zenon
<1> HIDE DEF T, U, sampled
<1> QED BY <1>3, <1>5, <1>6, <1>2 DEF InMemory

\* All pages of a search, one after the other.
TurnedHits(index, q, pages) ==
    FlattenSeq([p \in 1..pages |-> KwicSearch(index, [q EXCEPT !.page = p]).hits])

\* All matches, or the sample of them.
Shown(index, q) == IF q.sample = 0 \/ q.mode = "cqp" THEN SearchOrder(index, q) ELSE SampledOrder(index, q)

\* They are different matches of the table.
LEMMA ShownArranged ==
    ASSUME NEW index, Tokens(index.tokens), NEW q, KwicQuery(q), ValidOptions(q)
    PROVE  \E matches : WellPlaced(index.tokens, matches) /\ Arranges(Shown(index, q), matches)
<1>1. q.sample \in Nat  BY DEF KwicQuery, ValidOptions
<1>2. CASE q.sample = 0 \/ q.mode = "cqp"  BY <1>2, FoundArePlaced, SearchArranged, Zenon DEF Shown
<1>3. CASE ~(q.sample = 0 \/ q.mode = "cqp")  BY <1>3, <1>1, SampledArranged, Zenon DEF Shown
<1> QED BY <1>2, <1>3, Zenon

\* Turning the pages shows all matches, or the sample, in order.
LEMMA TurnedAreShown ==
    ASSUME NEW index, Tokens(index.tokens), NEW q, KwicQuery(q), NEW answer, answer = KwicSearch(index, q),
           ~IsError(answer)
    PROVE  /\ HitsOf(TurnedHits(index, q, answer.pages)) = HitsOf(Shown(index, q))
           /\ answer.total = Len(Shown(index, q))
<1>1. ValidOptions(q) /\ ~Unsound(q) /\ Answers(index, q, answer)  BY KwicSearchAnswers, Zenon
<1>2. q.sample \in Nat  BY <1>1 DEF KwicQuery, ValidOptions
<1>3. CASE q.sample = 0 \/ q.mode = "cqp"
  <2>1. Shown(index, q) = SearchOrder(index, q)  BY <1>3, Zenon DEF Shown
  <2>2. HitsOf(TurnedHits(index, q, answer.pages)) = HitsOf(SearchOrder(index, q))
    BY <1>3, TurnedPages, Zenon DEF TurnedHits
  <2>3. ~(q.sample > 0 /\ q.mode # "cqp")  BY <1>2, <1>3
  <2>4. answer.total = Len(SearchOrder(index, q))  BY <1>1, <2>3, Zenon DEF Answers, Displays
  <2> QED BY <2>1, <2>2, <2>4
<1>4. CASE ~(q.sample = 0 \/ q.mode = "cqp")
  <2> DEFINE shown == SampledOrder(index, q)
             n == Len(shown)
             pages == NumPages(n, Higher(1, n))
             s == [q EXCEPT !.page = 1]
             first == KwicSearch(index, s)
  <2>1. Shown(index, q) = shown  BY <1>4, Zenon DEF Shown
  <2>2. Displays(answer, shown, n, 1, pages) /\ \E X : shown \in Seq(X)  BY <1>1, <1>4, Zenon DEF Answers
  <2>3. n \in Nat  BY <2>2, LenProperties, Zenon
  <2>4. answer.pages = 1 /\ answer.total = n
    <3>1. pages = 1  BY <2>3, OnePage, Zenon
    <3> HIDE DEF n, pages, shown
    <3> QED BY <2>2, <3>1, Zenon DEF Displays
  <2>5. PageQuery(s, q, 1, q.size, q.sample) /\ s.seed = q.seed
    <3>1. s.seed = q.seed  OBVIOUS
    <3> HIDE DEF s
    <3>2. OnPage(s, q, 1)  BY DEF OnPage, s
    <3> QED BY <1>1, <3>1, <3>2, OtherPage, Zenon
  <2> HIDE DEF s
  <2>6. KwicQuery(s) /\ ValidOptions(s) /\ SameSearch(s, q) /\ SameSearch(q, s) /\ s.sample = q.sample /\ s.mode = q.mode
    BY <2>5 DEF PageQuery, SameSearch
  <2>7. Answers(index, s, first)  BY <2>6, <1>1, SameOrdering, KwicSearchAnswers, Zenon
  <2>8. SampledOrder(index, s) = shown  BY <2>5, <2>6, SameSample, Zenon
  <2> HIDE DEF shown
  <2>9. Displays(first, shown, n, 1, pages)
    <3> HIDE DEF first, s
    <3> QED BY <2>7, <2>8, <1>4, <2>6, Zenon DEF Answers
  <2>10. TurnedHits(index, q, 1) = first.hits
    <3> DEFINE seqs == [p \in 1..1 |-> KwicSearch(index, [q EXCEPT !.page = p]).hits]
    <3>1. TurnedHits(index, q, 1) = FlattenSeq(seqs)  BY Zenon DEF TurnedHits
    <3>2. seqs = [p \in 1..1 |-> first.hits]
      <4>1. \A p \in 1..1 : p = 1  OBVIOUS
      <4> QED BY <4>1, Zenon DEF s
    <3> HIDE DEF seqs, first
    <3>3. FlattenSeq([p \in 1..1 |-> first.hits]) = first.hits  BY FlattenOne, Zenon
    <3> QED BY <3>1, <3>2, <3>3
  <2>11. HitsOf(first.hits) = HitsOf(shown)  BY <2>2, <2>9, DisplaysHits, Zenon
  <2> QED BY <2>1, <2>4, <2>10, <2>11
<1> QED BY <1>3, <1>4, Zenon

\* The hits of an answer are those of the whole behind the pages before it.
IsPageOf(answer, size, all) ==
    \A i \in DOMAIN answer.hits : HitsOf(answer.hits)[i] = all[(answer.page - 1) * size + i]

\* A page without a sample is a part of all pages.
LEMMA PageOfTurned ==
    ASSUME NEW index, Tokens(index.tokens), NEW q, KwicQuery(q), NEW answer, answer = KwicSearch(index, q),
           ~IsError(answer), q.sample = 0
    PROVE  IsPageOf(answer, q.size, HitsOf(SearchOrder(index, q)))
<1> DEFINE ordered == SearchOrder(index, q)
           shown == PageOf(ordered, q.page, q.size)
           p == EffectivePage(q.page, NumPages(Len(ordered), q.size))
           place(i) == (p - 1) * q.size + i
<1>1. ValidOptions(q) /\ Answers(index, q, answer)  BY KwicSearchAnswers, Zenon
<1>2. q.page \in Nat \ {0} /\ q.size \in Nat \ {0}  BY <1>1 DEF ValidOptions, KwicQuery
<1>3. Displays(answer, shown, Len(ordered), p, NumPages(Len(ordered), q.size))
  <2>1. ~(q.sample > 0)  OBVIOUS
  <2> QED BY <1>1, <2>1, Zenon DEF Answers
<1>4. PICK X : ordered \in Seq(X)  BY SearchOrderIsSequence, Zenon
<1>5. shown \in Seq(X)  BY <1>2, <1>4, PageIsPart, Zenon
<1>6. \A i \in 1..Len(shown) : place(i) \in 1..Len(ordered) /\ shown[i] = ordered[place(i)]
  <2>1. FollowsOn(shown, ordered, (p - 1) * q.size)
    <3> HIDE DEF ordered
    <3> DEFINE page == q.page
               size == q.size
               cut == PageOf(ordered, page, size)
               at == EffectivePage(page, NumPages(Len(ordered), size))
    <3>1. page \in Nat \ {0} /\ size \in Nat \ {0}  BY <1>2
    <3> HIDE DEF page, size
    <3> QED BY <3>1, <1>4, PageElements, Zenon DEF page, size
  <2> QED BY <2>1, Zenon DEF FollowsOn
<1>7. DOMAIN ordered = 1..Len(ordered) /\ DOMAIN shown = 1..Len(shown)  BY <1>4, <1>5, LenProperties, Zenon
<1> HIDE DEF ordered, shown, place
<1>8. HitsOf(answer.hits) = HitsOf(shown)  BY <1>3, <1>5, DisplaysHits, Zenon
<1>9. DOMAIN answer.hits = 1..Len(shown) /\ answer.page = p
  <2> HIDE DEF p
  <2> QED BY <1>3, <1>7 DEF Displays
<1>10. \A i \in 1..Len(shown) : HitsOf(shown)[i] = HitsOf(ordered)[place(i)]
  <2> TAKE i \in 1..Len(shown)
  <2>1. HitsOf(shown)[i] = [row |-> shown[i].row, length |-> shown[i].length]  BY <1>7 DEF HitsOf
  <2> QED BY <1>6, <2>1, <1>7, Zenon DEF HitsOf
<1> HIDE DEF p
<1> QED BY <1>8, <1>9, <1>10, Zenon DEF place, ordered, IsPageOf

\* Whoever turns the pages of a concordance to the last sees every match once.
LEMMA ConcordanceOnce ==
    ASSUME PagesInvariant
    PROVE  KwicPagesPartition
<1> SUFFICES ASSUME visit.view = "kwic", ~IsError(visit.answer) PROVE HitsOnce(HitsOf(KwicPages))
  BY Zenon DEF KwicPagesPartition, Shows
<1> DEFINE index == visit.corpus.index
           q == visit.query
           answer == visit.answer
           shown == Shown(index, q)
           all == HitsOf(shown)
<1>1. /\ Tokens(index.tokens) /\ KwicQuery(q) /\ ValidOptions(q)
      /\ answer = KwicSearch(index, q) /\ ~IsError(answer)
  BY ShownConcordance, Zenon DEF Exportable
<1>2. KwicPages = TurnedHits(index, q, answer.pages)  BY Zenon DEF KwicPages, TurnedHits
<1>3. HitsOf(KwicPages) = all /\ answer.total = Len(shown)
  <2> HIDE DEF index, q, answer
  <2> QED BY <1>1, <1>2, TurnedAreShown, Zenon
<1>4. IsInjective(all) /\ Len(all) = Len(shown)
  <2>1. PICK matches : WellPlaced(index.tokens, matches) /\ Arranges(shown, matches)
    BY <1>1, ShownArranged, Zenon
  <2> QED BY <2>1, HitsDiffer, Zenon
<1>5. q.sample = 0 => \A i \in DOMAIN answer.hits : HitsOf(answer.hits)[i] = all[(answer.page - 1) * q.size + i]
  <2> SUFFICES ASSUME q.sample = 0
               PROVE  \A i \in DOMAIN answer.hits : HitsOf(answer.hits)[i] = all[(answer.page - 1) * q.size + i]
    OBVIOUS
  <2> HIDE DEF index, q, answer
  <2>1. IsPageOf(answer, q.size, HitsOf(SearchOrder(index, q)))  BY <1>1, PageOfTurned, Zenon
  <2> QED BY <2>1, Zenon DEF IsPageOf, Shown
<1> HIDE DEF all, shown
<1> QED BY <1>3, <1>4, <1>5, Zenon DEF HitsOnce, q, answer

-----------------------------------------------------------------------------
(* Spans of a term in a text of a pair *)

\* Spans of a term of n words in a text: whole words, or the beginning of a single one.
SpansOfTerm(words, n) ==
    {s \in [from : Int, to : Int] : \E i \in 1..(words - n + 1) :
        /\ s.from = StartOf(i)
        /\ s.to = EndOf(i + n - 1) \/ (n = 1 /\ s.to = EndOf(i) - 1)}

\* Elements of a smaller set are elements of a larger one.
LEMMA SequenceOfMore ==
    ASSUME NEW A, NEW B, A \subseteq B, NEW s \in Seq(A)
    PROVE  s \in Seq(B)
  OBVIOUS

\* What is found of a term in a text are spans of the term (_literal_spans).
LEMMA LiteralSpansAreSpans ==
    ASSUME NEW S, NEW words \in Seq(S), NEW terms, IsList(terms), terms # <<>>, NEW case
    PROVE  LiteralSpans(words, terms, case) \in Seq(SpansOfTerm(Len(words), Len(terms)))
<1> DEFINE Same(i, j) == Accepts([term |-> terms[j], whole |-> TRUE, case |-> case], words[i + j - 1])
           Within(i) == Accepts([term |-> terms[1], whole |-> FALSE, case |-> case], words[i])
           n == Len(terms)
           last == Len(words) - n + 1
           starts == {k \in 1..last : \A j \in DOMAIN terms : Same(k, j)}
           insides == {k \in DOMAIN words : ~Same(k, 1) /\ Within(k)}
           f == [i \in starts |-> [from |-> StartOf(i), to |-> EndOf(i + n - 1)]]
           g == [i \in insides |-> [from |-> StartOf(i), to |-> EndOf(i) - 1]]
           full == {f[i] : i \in starts}
           parts == {g[i] : i \in insides}
           partial == IF n # 1 THEN {} ELSE parts
           spans == full \cup partial
           of == SpansOfTerm(Len(words), n)
<1>1. LiteralSpans(words, terms, case) = Marked(spans)
  <2>1. full = {[from |-> StartOf(i), to |-> EndOf(i + n - 1)] : i \in starts}  BY Zenon
  <2>2. parts = {[from |-> StartOf(i), to |-> EndOf(i) - 1] : i \in insides}  BY Zenon
  <2> HIDE DEF full, parts
  <2> QED BY <2>1, <2>2, Zenon DEF LiteralSpans
<1>2. Len(words) \in Nat /\ DOMAIN words = 1..Len(words) /\ n \in Nat  BY DEF IsList
<1>3. last \in Int /\ starts \in SUBSET (1..last)
  <2>1. last \in Int  BY <1>2
  <2> QED BY <2>1, Zenon
<1>4. insides \in SUBSET (1..Len(words))
  <2>1. insides \in SUBSET (DOMAIN words)  BY Zenon
  <2> HIDE DEF insides
  <2> QED BY <1>2, <2>1
<1>5. \A i \in starts : f[i] \in of
  <2> SUFFICES ASSUME NEW i \in starts PROVE [from |-> StartOf(i), to |-> EndOf(i + n - 1)] \in of
    BY Zenon
  <2>1. i \in 1..last /\ EndOf(i + n - 1) \in Int
    <3>1. i \in 1..last  BY <1>3, Zenon
    <3> QED BY <1>2, <1>3, <3>1 DEF StartOf, EndOf, WordWidth
  <2> DEFINE a == StartOf(i)
             b == EndOf(i + n - 1)
             span == [from |-> a, to |-> b]
  <2>2. span.from = a /\ span.to = b  OBVIOUS
  <2>3. span \in [from : Int, to : Int]  BY <2>1 DEF StartOf, WordWidth
  <2> HIDE DEF span
  <2> QED BY <2>1, <2>2, <2>3, Zenon DEF span, SpansOfTerm
<1>6. n = 1 => \A i \in insides : g[i] \in of
  <2> SUFFICES ASSUME n = 1, NEW i \in insides PROVE [from |-> StartOf(i), to |-> EndOf(i) - 1] \in of
    BY Zenon
  <2>1. i \in 1..last /\ i + n - 1 = i
    <3>1. i \in 1..Len(words)  BY <1>4, Zenon
    <3> HIDE DEF insides
    <3> QED BY <1>2, <3>1
  <2> DEFINE a == StartOf(i)
             b == EndOf(i) - 1
             span == [from |-> a, to |-> b]
  <2>2. span.from = a /\ span.to = b  OBVIOUS
  <2>3. span \in [from : Int, to : Int]  BY <2>1, <1>3 DEF StartOf, EndOf, WordWidth
  <2> HIDE DEF span
  <2> QED BY <2>1, <2>2, <2>3, Zenon DEF span, SpansOfTerm
<1>7. Image(full, f, starts) /\ Image(parts, g, insides)  BY Zenon DEF Image
<1>8. full \subseteq of /\ partial \subseteq of
  <2>1. n = 1 => parts \subseteq of  BY <1>6, Zenon
  <2> HIDE DEF parts, of
  <2> QED BY <1>5, <2>1, Zenon
<1> HIDE DEF full, parts, f, g, starts, insides, last
<1>9. IsFiniteSet(parts)
  <2>1. Len(words) \in Int  BY <1>2
  <2> QED BY <1>4, <1>7, <2>1, PlacedFinite, Zenon
<1>10. IsFiniteSet(partial)  BY <1>9, FS_EmptySet, Zenon
<1> HIDE DEF partial, of
<1>11. IsFiniteSet(spans) /\ spans \subseteq of  BY <1>8, <1>3, <1>7, PlacedFinite, <1>10, FS_Union, Zenon
<1> HIDE DEF spans
<1>12. Spans(spans)
  <2>1. \A s \in spans : s \in [from : Int, to : Int]  BY <1>11, Zenon DEF of, SpansOfTerm
  <2>2. \A s, t \in spans : s.from = t.from /\ s.to = t.to => s = t  BY <2>1
  <2>3. \A s \in spans : s.from \in Int /\ s.to \in Int  BY <2>1
  <2> QED BY <1>11, <2>2, <2>3, Zenon DEF Spans
<1> QED BY <1>1, <1>11, <1>12, MarkedAreSpans, SequenceOfMore, Zenon DEF of

\* So are those that begin and end where words do (_term_spans).
LEMMA TermSpansAreSpans ==
    ASSUME NEW S, NEW words \in Seq(S), NEW terms, IsList(terms), terms # <<>>, NEW q
    PROVE  TermSpans(words, terms, q) \in Seq(SpansOfTerm(Len(words), Len(terms)))
<1> DEFINE spans == LiteralSpans(words, terms, q.case)
           of == SpansOfTerm(Len(words), Len(terms))
           places == {k \in DOMAIN spans :
                      \E i, j \in DOMAIN words : spans[k].from = StartOf(i) /\ spans[k].to = EndOf(j)}
<1>1. spans \in Seq(of)  BY LiteralSpansAreSpans, Zenon
<1>2. TermSpans(words, terms, q) = IF q.whole THEN At(spans, places) ELSE spans
  BY Zenon DEF TermSpans, WholeWords
<1>3. places \in SUBSET (DOMAIN spans)  BY Zenon
<1> HIDE DEF spans, places, of
<1>4. spans \in [1..Len(spans) -> of]  BY <1>1
<1>5. At(spans, places) \in Seq(of)  BY <1>3, <1>1, LenProperties, <1>4, AtElements, Zenon
<1> QED BY <1>1, <1>2, <1>5, Zenon DEF of

\* A set of no spans in order.
LEMMA NothingInOrder ==
    ASSUME NEW order, order = [i \in 1..Cardinality({}) |-> order[i]]
    PROVE  order = <<>>
<1>1. Cardinality({}) = 0  BY FS_EmptySet, Zenon
<1> QED BY <1>1

\* Without a term there are no spans.
LEMMA NoTermNoSpans ==
    ASSUME NEW words, NEW q
    PROVE  ToSet(TermSpans(words, <<>>, q)) = {}
<1> DEFINE spans == LiteralSpans(words, <<>>, q.case)
           places == {k \in DOMAIN spans :
                      \E i, j \in DOMAIN words : spans[k].from = StartOf(i) /\ spans[k].to = EndOf(j)}
           order == InOrder(places, <)
           chosen == [i \in DOMAIN order |-> spans[order[i]]]
<1>1. spans = <<>>  BY Zenon DEF LiteralSpans
<1>2. TermSpans(words, <<>>, q) = IF q.whole THEN chosen ELSE spans  BY Zenon DEF TermSpans, WholeWords, At
<1>3. DOMAIN spans = {} /\ ToSet(spans) = {}
  <2> HIDE DEF spans
  <2> QED BY <1>1 DEF ToSet
<1>4. places = {}  BY <1>3, Zenon
<1>5. DOMAIN order = {}
  <2> HIDE DEF places
  <2>1. DOMAIN order = 1..Cardinality(places)  BY Zenon DEF InOrder
  <2>2. Cardinality(places) = 0  BY <1>4, FS_EmptySet, Zenon
  <2> HIDE DEF order
  <2> QED BY <2>1, <2>2
<1> HIDE DEF order, spans
<1>6. ToSet(chosen) = {}  BY <1>5 DEF ToSet
<1> HIDE DEF chosen
<1> QED BY <1>2, <1>3, <1>6, Zenon

-----------------------------------------------------------------------------
(* The occurrences of an anchor, row by row *)

\* Of two occurrences the first is the one in an earlier row, or the earlier one of a row.
Sooner(o, p) ==
    \/ o.row.position < p.row.position
    \/ o.row.position = p.row.position /\ o.ordinal < p.ordinal

\* Occurrences as they come in the table and in its texts.
InSequence(s) == \A i, j \in 1..Len(s) : i < j => Sooner(s[i], s[j])

\* All occurrences are in rows up to a place.
UpTo(s, place) == \A i \in 1..Len(s) : s[i].row.position \in Int /\ s[i].row.position <= place

\* Later occurrences behind earlier ones are in sequence.
LEMMA ConcatInSequence ==
    ASSUME NEW X, NEW s \in Seq(X), NEW t \in Seq(X), NEW a \in Int, NEW b \in Int, a < b,
           InSequence(s), InSequence(t), UpTo(s, a), \A i \in 1..Len(t) : t[i].row.position = b
    PROVE  InSequence(s \o t) /\ UpTo(s \o t, b)
<1> DEFINE u == s \o t
           k == Len(s)
           n == Len(t)
<1>1. k \in Nat /\ n \in Nat  BY LenProperties, Zenon
<1>2. Len(u) = k + n /\ \A i \in 1..(k + n) : u[i] = IF i <= k THEN s[i] ELSE t[i - k]
  BY ConcatProperties, Zenon
<1>3. \A i \in 1..k : s[i].row.position \in Int /\ s[i].row.position <= a  BY Zenon DEF UpTo
<1>4. /\ \A i, j \in 1..k : i < j => Sooner(s[i], s[j])
      /\ \A i, j \in 1..n : i < j => Sooner(t[i], t[j])
  BY Zenon DEF InSequence
<1> HIDE DEF u, k, n
<1>5. \A i, j \in 1..Len(u) : i < j => Sooner(u[i], u[j])
  <2> SUFFICES ASSUME NEW i \in 1..Len(u), NEW j \in 1..Len(u), i < j PROVE Sooner(u[i], u[j])
    BY Zenon
  <2>1. CASE j <= k
    <3>1. i \in 1..k /\ j \in 1..k /\ i <= k  BY <1>1, <1>2, <2>1
    <3>2. u[i] = s[i] /\ u[j] = s[j]  BY <1>2, <2>1, <3>1
    <3> QED BY <1>4, <3>1, <3>2, Zenon
  <2>2. CASE i > k
    <3>1. i - k \in 1..n /\ j - k \in 1..n /\ i - k < j - k /\ ~(i <= k) /\ ~(j <= k)  BY <1>1, <1>2, <2>2
    <3>2. u[i] = t[i - k] /\ u[j] = t[j - k]  BY <1>2, <3>1
    <3> QED BY <1>4, <3>1, <3>2, Zenon
  <2>3. CASE i <= k /\ ~(j <= k)
    <3>1. i \in 1..k /\ j - k \in 1..n  BY <1>1, <1>2, <2>3
    <3>2. u[i] = s[i] /\ u[j] = t[j - k]  BY <1>2, <2>3
    <3>3. s[i].row.position < b
      <4> DEFINE x == s[i].row.position
      <4>1. x \in Int /\ x <= a  BY <1>3, <3>1, Zenon
      <4> HIDE DEF x
      <4> QED BY <4>1 DEF x
    <3> QED BY <3>2, <3>1, <3>3, Zenon DEF Sooner, n
  <2>4. j <= k \/ i > k \/ (i <= k /\ ~(j <= k))  BY <1>1, <1>2
  <2> QED BY <2>1, <2>2, <2>3, <2>4, Zenon
<1>6. \A i \in 1..Len(u) : u[i].row.position \in Int /\ u[i].row.position <= b
  <2> TAKE i \in 1..Len(u)
  <2>1. CASE i <= k
    <3>1. i \in 1..k /\ u[i] = s[i]  BY <1>1, <1>2, <2>1
    <3> DEFINE x == s[i].row.position
    <3>2. x \in Int /\ x <= a  BY <1>3, <3>1, Zenon
    <3> HIDE DEF x
    <3>3. x <= b  BY <3>2
    <3> QED BY <3>1, <3>2, <3>3, Zenon DEF x
  <2>2. CASE ~(i <= k)
    <3>1. i - k \in 1..n /\ u[i] = t[i - k]  BY <1>1, <1>2, <2>2
    <3>2. t[i - k].row.position = b  BY <3>1, Zenon DEF n
    <3> QED BY <3>1, <3>2
  <2> QED BY <2>1, <2>2, Zenon
<1> QED BY <1>5, <1>6, Zenon DEF InSequence, UpTo, u

\* The occurrences of ascending rows, row by row.
RowByRow(n, seqs, at) ==
    /\ \A p \in 1..n : at[p] \in Int /\ InSequence(seqs[p]) /\ \A i \in 1..Len(seqs[p]) : seqs[p][i].row.position = at[p]
    /\ \A p, r \in 1..n : p < r => at[p] < at[r]

\* Joined they are in sequence.
LEMMA JoinedInSequence ==
    ASSUME NEW X, NEW n \in Nat, NEW seqs \in [1..n -> Seq(X)], NEW at, RowByRow(n, seqs, at)
    PROVE  InSequence(FlattenSeq(seqs))
<1>0. Len(seqs) = n  BY LenOfFunction
<1>1. /\ \A p \in 1..n : at[p] \in Int /\ InSequence(seqs[p]) /\ \A i \in 1..Len(seqs[p]) : seqs[p][i].row.position = at[p]
      /\ \A p, r \in 1..n : p < r => at[p] < at[r]
  BY Zenon DEF RowByRow
<1>2. CASE n = 0
  <2>1. \A i \in 1..Len(seqs) : FALSE  BY <1>0, <1>2
  <2> QED BY <1>0, <1>2, <2>1, Zenon DEF InSequence, FlattenSeq
<1>3. CASE n # 0
  <2>0. n \in Nat \ {0}  BY <1>3
  <2>1. PICK g \in [1..n -> Seq(X)] : Flattens(g, seqs)  BY <2>0, FlattenFunction, Zenon
  <2>2. \A i \in 1..n : g[i] = IF i = 1 THEN seqs[i] ELSE g[i - 1] \o seqs[i]
    BY <2>1, <1>0, Zenon DEF Flattens
  <2> DEFINE Good(k) == InSequence(g[k]) /\ UpTo(g[k], at[k])
             T == {k \in 1..n : ~Good(k)}
  <2>3. T = {}
    <3> SUFFICES ASSUME T # {} PROVE FALSE
      OBVIOUS
    <3>1. PICK k \in T : \A j \in T : k <= j
      <4>1. T \subseteq Nat  OBVIOUS
      <4> HIDE DEF T
      <4> QED BY <4>1, LeastNumber, Zenon
    <3>2. k \in 1..n /\ ~Good(k)  BY Zenon
    <3>3. CASE k = 1
      <4>1. UpTo(seqs[k], at[k])
        <5>1. at[k] <= at[k]  BY <1>1, <3>2
        <5> QED BY <1>1, <3>2, <5>1, Zenon DEF UpTo
      <4> QED BY <1>1, <3>2, <2>2, <3>3, <4>1, Zenon
    <3>4. CASE k # 1
      <4>1. k - 1 \in 1..n /\ k - 1 < k /\ k - 1 \notin T
        <5>1. k - 1 \in 1..n /\ k - 1 < k /\ ~(k <= k - 1)
          <6> HIDE DEF T
          <6> QED BY <3>4, <3>2
        <5> HIDE DEF T
        <5> QED BY <3>1, <5>1, Zenon
      <4> DEFINE s == g[k - 1]
                 t == seqs[k]
                 a == at[k - 1]
                 b == at[k]
      <4>2. s \in Seq(X) /\ t \in Seq(X)  BY <2>1, <3>2, <4>1, Zenon
      <4>3. a \in Int /\ b \in Int /\ a < b  BY <1>1, <3>2, <4>1, Zenon
      <4>4. InSequence(s) /\ UpTo(s, a) /\ InSequence(t) /\ \A i \in 1..Len(t) : t[i].row.position = b
        BY <1>1, <3>2, <4>1, Zenon
      <4>5. g[k] = s \o t  BY <2>2, <3>2, <3>4, Zenon
      <4> HIDE DEF s, t, a, b, T
      <4>6. InSequence(s \o t) /\ UpTo(s \o t, b)  BY <4>2, <4>3, <4>4, ConcatInSequence, Zenon
      <4>7. Good(k)  BY <4>5, <4>6, Zenon DEF b
      <4> HIDE DEF Good
      <4> QED BY <3>2, <4>7, Zenon
    <3> QED BY <3>3, <3>4, Zenon
  <2>4. n \in 1..n  BY <2>0
  <2>5. InSequence(g[n])  BY <2>3, <2>4, Zenon
  <2> HIDE DEF T, Good
  <2> QED BY <2>5, <1>0, <2>0, <2>1, FlattenIs, Zenon
<1> QED BY <1>2, <1>3, Zenon

\* Every nth occurrence of a sequence.
LEMMA ThinnedInSequence ==
    ASSUME NEW X, NEW s \in Seq(X), InSequence(s), NEW n \in Nat \ {0}
    PROVE  InSequence(Thinned(s, n))
<1> DEFINE t == Thinned(s, n)
           m == CeilDiv(Len(s), n)
<1>1. Len(t) = m  BY ThinnedTyped, Zenon
<1>2. t = [i \in 1..m |-> s[(i - 1) * n + 1]]  BY Zenon DEF Thinned
<1>3. Len(s) \in Nat  BY LenProperties, Zenon
<1>4. \A i \in 1..m : (i - 1) * n + 1 \in 1..Len(s)
  <2> DEFINE a == Len(s)
  <2> HIDE DEF a
  <2>1. a \in Nat  BY <1>3 DEF a
  <2>2. CASE a = 0
    <3>1. CeilDiv(a, n) = 0  BY <2>2 DEF CeilDiv
    <3> QED BY <3>1 DEF a
  <2>3. CASE a # 0
    <3>1. CeilDiv(a, n) \in Nat \ {0} /\ (CeilDiv(a, n) - 1) * n < a  BY <2>1, <2>3, CeilDivBounds
    <3> DEFINE k == CeilDiv(a, n)
    <3> HIDE DEF k
    <3>2. \A i \in 1..k : (i - 1) * n + 1 \in 1..a
      <4> SUFFICES ASSUME NEW i \in 1..k PROVE (i - 1) * n + 1 \in 1..a
        OBVIOUS
      <4> QED BY <2>1, <3>1 DEF k
    <3> QED BY <3>2, Zenon DEF a, k
  <2> QED BY <2>2, <2>3, Zenon
<1>5. \A i, j \in 1..m : i < j => (i - 1) * n + 1 < (j - 1) * n + 1
  <2> HIDE DEF m
  <2> SUFFICES ASSUME NEW i \in 1..m, NEW j \in 1..m, i < j PROVE (i - 1) * n + 1 < (j - 1) * n + 1
    OBVIOUS
  <2> DEFINE d == j - i
             a == (i - 1) * n
  <2>1. d \in Nat \ {0} /\ a \in Int /\ i \in Int  OBVIOUS
  <2>2. d * n >= n
    <3> HIDE DEF d
    <3> QED BY <2>1
  <2> DEFINE b == d * n
  <2> HIDE DEF a, b, d
  <2>3. (i - 1) * n = a  BY DEF a
  <2> QED BY <2>1, <2>2, <2>3 DEF b
<1> HIDE DEF m
<1>6. \A i, j \in 1..m : i < j => Sooner(t[i], t[j])
  <2> SUFFICES ASSUME NEW i \in 1..m, NEW j \in 1..m, i < j PROVE Sooner(t[i], t[j])
    BY Zenon
  <2> DEFINE a == (i - 1) * n + 1
             b == (j - 1) * n + 1
  <2>1. a \in 1..Len(s) /\ b \in 1..Len(s) /\ a < b  BY <1>4, <1>5, Zenon
  <2>2. t[i] = s[a] /\ t[j] = s[b]  BY <1>2, Zenon
  <2> HIDE DEF a, b, t
  <2> QED BY <2>1, <2>2, Zenon DEF InSequence
<1> HIDE DEF t
<1> QED BY <1>1, <1>6, Zenon DEF InSequence, t

\* A row knows its place in the table.
LEMMA RowPosition ==
    ASSUME NEW pairs \in Seq(PairRecords), NEW i \in DOMAIN pairs
    PROVE  Extended(pairs[i], [position |-> i]).position = i
<1> DEFINE R == PairRecords
           pair == pairs[i]
           W == Seq(DOMAIN Normal)
<1>1. pair \in R
  <2>1. pairs \in Seq(R)  OBVIOUS
  <2> HIDE DEF R
  <2> QED BY <2>1
<1>2. "position" \notin DOMAIN pair
  <2>1. pair \in [zh : W, en : W, unit : STRING, method : STRING, confidence : Nat, zhFile : STRING, enFile : STRING]
    BY <1>1, Zenon DEF PairRecords
  <2> HIDE DEF pair, W
  <2> QED BY <2>1
<1> HIDE DEF pair
<1> QED BY <1>2 DEF pair, Extended

\* The rows of a parallel search come in the order of the table.
LEMMA RowsAscend ==
    ASSUME NEW pairs \in Seq(PairRecords), NEW q
    PROVE  LET rows == RowsOfPairs(pairs, q) IN
           /\ \A i \in 1..Len(rows) : rows[i].position \in Int
           /\ \A i, j \in 1..Len(rows) : i < j => rows[i].position < rows[j].position
<1> DEFINE f == [i \in DOMAIN pairs |-> Extended(pairs[i], [position |-> i])]
           places == {i \in DOMAIN pairs : Passes(pairs[i], q)}
           order == InOrder(places, <)
           n == Cardinality(places)
           rows == RowsOfPairs(pairs, q)
<1>1. DOMAIN pairs = 1..Len(pairs) /\ Len(pairs) \in Nat  BY LenProperties, Zenon
<1>2. rows = [i \in DOMAIN order |-> f[order[i]]]  BY Zenon DEF RowsOfPairs, At
<1>3. places \in SUBSET (1..Len(pairs))  BY <1>1, Zenon
<1>4. \A p \in places : f[p].position = p  BY RowPosition, Zenon
<1> HIDE DEF f, places
<1>5. n \in Nat  BY <1>1, <1>3, PlacesAreFinite, Zenon
<1>6. order \in [1..n -> places] /\ \A i, j \in 1..n : i < j => order[i] \in Earlier(places)[order[j]]
  BY <1>1, <1>3, PlacesInOrder, Zenon DEF Enumerates
<1> HIDE DEF order, rows, n
<1>7. \A i, j \in 1..n : i < j => order[i] < order[j]
  <2> SUFFICES ASSUME NEW i \in 1..n, NEW j \in 1..n, i < j PROVE order[i] < order[j]
    OBVIOUS
  <2> QED BY <1>6, Zenon DEF Earlier
<1>8. rows = [i \in 1..n |-> rows[i]] /\ \A i \in 1..n : rows[i] = f[order[i]]  BY <1>2, <1>6, Zenon
<1>9. Len(rows) = n  BY <1>5, <1>8, FunctionIsSequence, Zenon
<1>10. \A i \in 1..n : rows[i].position = order[i] /\ order[i] \in Int
  <2> TAKE i \in 1..n
  <2>1. order[i] \in places  BY <1>6, Zenon
  <2>2. rows[i].position = order[i]  BY <1>4, <1>8, <2>1, Zenon
  <2>3. order[i] \in Int
    <3> DEFINE k == Len(pairs)
    <3>1. k \in Nat /\ places \in SUBSET (1..k)  BY <1>1, <1>3
    <3> HIDE DEF k
    <3>2. \A x \in 1..k : x \in Int  OBVIOUS
    <3> QED BY <2>1, <3>1, <3>2, Zenon
  <2> QED BY <2>2, <2>3
<1> QED BY <1>9, <1>10, <1>7, Zenon DEF rows

\* Where an occurrence of the anchor can be in a row.
AnchorSpans(row, q) ==
    IF Anchor(q).terms = <<>> THEN {NoSpan}
    ELSE SpansOfTerm(Len(Text(row, Anchor(q).side)), Len(Anchor(q).terms))

\* What an occurrence is: a row of the table, a number and a span in its text.
IsOccurrence(o, pairs, q) ==
    /\ o.row \in RowRecords(pairs)
    /\ o.ordinal \in Nat
    /\ o.span \in AnchorSpans(o.row, q)

\* The anchor is a list of words.
LEMMA AnchorIsList ==
    ASSUME NEW q, PairQuery(q)
    PROVE  IsList(Anchor(q).terms)
<1> DEFINE terms == Anchor(q).terms
<1> HIDE DEF terms
<1>1. terms \in {q.terms, q.zh, q.en, <<>>}  BY DEF terms, Anchor
<1>2. IsList(terms)  BY EmptySeq, <1>1, Zenon DEF PairQuery, IsList
<1> QED BY <1>2 DEF terms

\* The occurrences of a row: numbered from 1, each where the anchor is.
RowOccurrences(s, row, pairs, q) ==
    /\ InSequence(s)
    /\ \A i \in 1..Len(s) : s[i].row = row /\ IsOccurrence(s[i], pairs, q)

\* That is how a row is expanded (_expand_occurrences).
LEMMA ExpandedRow ==
    ASSUME NEW pairs \in Seq(PairRecords), NEW row \in RowRecords(pairs), NEW q, PairQuery(q)
    PROVE  RowOccurrences(OccurrencesOf(row, q), row, pairs, q)
<1> DEFINE terms == Anchor(q).terms
           words == Text(row, Anchor(q).side)
           spans == TermSpans(words, terms, q)
           none == <<[row |-> row, ordinal |-> 1, span |-> NoSpan]>>
           all == [i \in DOMAIN spans |-> [row |-> row, ordinal |-> i, span |-> spans[i]]]
           W == DOMAIN Normal
<1>1. OccurrencesOf(row, q) = IF terms = <<>> THEN none ELSE all  BY Zenon DEF OccurrencesOf
<1>2. IsList(terms)  BY AnchorIsList, Zenon
<1>3. words \in Seq(W)  BY RowsTyped, Zenon DEF Text
<1>4. CASE terms = <<>>
  <2>1. Len(none) = 1 /\ none[1] = [row |-> row, ordinal |-> 1, span |-> NoSpan] /\ \A i \in 1..Len(none) : i = 1
    OBVIOUS
  <2>2. NoSpan \in AnchorSpans(row, q)  BY <1>4 DEF AnchorSpans
  <2> HIDE DEF none
  <2> DEFINE o == none[1]
  <2>3. o.row = row /\ o.ordinal = 1 /\ o.span = NoSpan  BY <2>1
  <2> HIDE DEF o
  <2>3a. 1 \in Nat  OBVIOUS
  <2>4. \A i, j \in 1..Len(none) : ~(i < j)  BY <2>1
  <2>5. RowOccurrences(none, row, pairs, q)
    BY <2>1, <2>3, <2>2, <2>3a, <2>4, Zenon DEF RowOccurrences, InSequence, o, IsOccurrence
  <2> QED BY <2>5, <1>1, <1>4, Zenon
<1>5. CASE terms # <<>>
  <2> DEFINE of == SpansOfTerm(Len(words), Len(terms))
  <2>1. of = AnchorSpans(row, q)  BY <1>5, Zenon DEF AnchorSpans
  <2> HIDE DEF terms, words, of
  <2>2. spans \in Seq(of)  BY <1>2, <1>3, <1>5, TermSpansAreSpans, Zenon DEF of
  <2> HIDE DEF spans
  <2>3. DOMAIN spans = 1..Len(spans) /\ Len(spans) \in Nat /\ \A i \in 1..Len(spans) : spans[i] \in of  BY <2>2
  <2>4. \A i \in 1..Len(spans) : all[i].row = row /\ all[i].ordinal = i /\ all[i].span = spans[i]  BY <2>3
  <2>5. all = [i \in 1..Len(spans) |-> all[i]]  BY <2>3
  <2> HIDE DEF all
  <2>6. Len(all) = Len(spans)  BY <2>3, <2>5, FunctionIsSequence, Zenon
  <2>7. \A i \in 1..Len(all) : all[i].row = row /\ IsOccurrence(all[i], pairs, q)
    <3> TAKE i \in 1..Len(all)
    <3>1. i \in Nat /\ i \in 1..Len(spans)  BY <2>3, <2>6
    <3> QED BY <3>1, <2>1, <2>3, <2>4, Zenon DEF IsOccurrence
  <2>8. InSequence(all)  BY <2>4, <2>6, Zenon DEF InSequence, Sooner
  <2>9. OccurrencesOf(row, q) = all
    <3> HIDE DEF none
    <3> QED BY <1>1, <1>5, Zenon
  <2> QED BY <2>7, <2>8, <2>9, Zenon DEF RowOccurrences
<1> QED BY <1>4, <1>5, Zenon

\* The occurrences of a parallel search in the order of the table and the texts.
OccurrencesInSequence(s, pairs, q) ==
    /\ \E X : s \in Seq(X)
    /\ InSequence(s)
    /\ \A i \in 1..Len(s) : IsOccurrence(s[i], pairs, q)

\* That is how the rows are expanded.
LEMMA ExpandedInSequence ==
    ASSUME NEW pairs \in Seq(PairRecords), NEW q, PairQuery(q)
    PROVE  OccurrencesInSequence(Expanded(RowsOfPairs(pairs, q), q), pairs, q)
<1> DEFINE rows == RowsOfPairs(pairs, q)
           n == Len(rows)
           seqs == [i \in DOMAIN rows |-> OccurrencesOf(rows[i], q)]
           R == RowRecords(pairs)
           W == DOMAIN Normal
           at == [i \in 1..n |-> rows[i].position]
<1>1. rows \in Seq(R) /\ \A row \in R : row.zh \in Seq(W) /\ row.en \in Seq(W)  BY RowsTyped, Zenon
<1>2. Expanded(rows, q) = FlattenSeq(seqs)  BY Zenon DEF Expanded
<1>2a. /\ \A i \in 1..n : at[i] \in Int /\ at[i] = rows[i].position
       /\ \A i, j \in 1..n : i < j => at[i] < at[j]
  <2>1. /\ \A i \in 1..n : rows[i].position \in Int
        /\ \A i, j \in 1..n : i < j => rows[i].position < rows[j].position
    BY RowsAscend, Zenon
  <2> HIDE DEF n, rows
  <2> QED BY <2>1, Zenon
<1> HIDE DEF rows, W, at, R, n
<1>3. DOMAIN rows = 1..n /\ n \in Nat /\ \A i \in 1..n : rows[i] \in R  BY <1>1 DEF n
<1>4. \A i \in 1..n : seqs[i] = OccurrencesOf(rows[i], q) /\ \E Y : seqs[i] \in Seq(Y)
  <2> TAKE i \in 1..n
  <2> DEFINE row == rows[i]
  <2>1. seqs[i] = OccurrencesOf(row, q)  BY <1>3, Zenon
  <2> HIDE DEF row, seqs
  <2> QED BY <2>1, <1>1, <1>3, OccurrencesTyped, Zenon DEF row
<1>5. seqs = [i \in 1..n |-> seqs[i]]
  <2>1. seqs = [i \in 1..n |-> OccurrencesOf(rows[i], q)]  BY <1>3, Zenon
  <2> HIDE DEF seqs
  <2> QED BY <2>1, Zenon
<1> HIDE DEF seqs
<1>6. PICK Y : seqs \in [1..n -> Seq(Y)]  BY <1>4, <1>5, CommonElements, Zenon
<1>7. \A i \in 1..n : RowOccurrences(seqs[i], rows[i], pairs, q)  BY <1>3, <1>4, ExpandedRow, Zenon DEF R
<1> DEFINE X == {y \in Y : IsOccurrence(y, pairs, q)}
<1>8. seqs \in [1..n -> Seq(X)]
  <2>1. \A i \in 1..n : seqs[i] \in Seq(X)
    <3> TAKE i \in 1..n
    <3> DEFINE s == seqs[i]
    <3>1. s \in Seq(Y) /\ \A j \in 1..Len(s) : IsOccurrence(s[j], pairs, q)
      BY <1>6, <1>7, Zenon DEF RowOccurrences
    <3> HIDE DEF s
    <3>2. \A j \in 1..Len(s) : s[j] \in X  BY <3>1
    <3> HIDE DEF X
    <3> QED BY <3>1, <3>2 DEF s
  <2> HIDE DEF X
  <2> QED BY <1>5, <2>1, Zenon
<1>9. FlattenSeq(seqs) \in Seq(X)
  <2> HIDE DEF X
  <2> QED BY <1>3, <1>8, FlattenTyped, Zenon
<1>10. RowByRow(n, seqs, at)  BY <1>2a, <1>7, Zenon DEF RowByRow, RowOccurrences
<1>11. InSequence(FlattenSeq(seqs))
  <2> HIDE DEF X
  <2> QED BY <1>3, <1>8, <1>10, JoinedInSequence, Zenon
<1> DEFINE all == FlattenSeq(seqs)
<1> HIDE DEF all
<1>12. \A i \in 1..Len(all) : IsOccurrence(all[i], pairs, q)
  <2>1. all \in Seq(X)  BY <1>9 DEF all
  <2>2. \A i \in 1..Len(all) : all[i] \in X
    <3> HIDE DEF X
    <3> QED BY <2>1
  <2> QED BY <2>2, Zenon
<1> HIDE DEF X
<1> QED BY <1>2, <1>9, <1>11, <1>12, Zenon DEF all, OccurrencesInSequence, rows

-----------------------------------------------------------------------------
(* Sorting the occurrences *)

\* The text of an anchor is sorted by three numbers.
LEMMA CenterTyped ==
    ASSUME NEW o, NEW side, Text(o.row, side) \in Seq(DOMAIN Normal)
    PROVE  Center(o, side) \in Seq(Int) /\ Len(Center(o, side)) = 3
<1> DEFINE W == DOMAIN Normal
           words == Text(o.row, side)
           n == Len(words)
           inside == {j \in DOMAIN words : StartOf(j) >= o.span.from /\ StartOf(j) < o.span.to}
           first == CHOOSE j \in inside : \A k \in inside : j <= k
           value(i) == IF i > Cardinality(inside) THEN 0 ELSE Rank[Normal[words[first + i - 1]]]
           center == [i \in 1..3 |-> value(i)]
<1>1. Center(o, side) = center  BY Zenon DEF Center
<1>2. n \in Nat /\ DOMAIN words = 1..n /\ \A i \in 1..n : words[i] \in W
  <2> DEFINE ws == words
  <2>1. ws \in Seq(W)  OBVIOUS
  <2> HIDE DEF W, ws
  <2> QED BY <2>1 DEF ws
<1>3. inside \in SUBSET (1..n)  BY <1>2, Zenon
<1>4. \A i \in 1..3 : value(i) \in Int
  <2> SUFFICES ASSUME NEW i \in 1..3 PROVE value(i) \in Int
    BY Zenon
  <2>1. CASE i > Cardinality(inside)
    <3>1. value(i) = 0  BY <2>1, Zenon
    <3> HIDE DEF value
    <3> QED BY <3>1
  <2>2. CASE ~(i > Cardinality(inside))
    <3> HIDE DEF inside, W, words, n
    <3>1. IsFiniteSet(inside) /\ Cardinality(inside) \in Nat /\ (Cardinality(inside) = 0 <=> inside = {})
      BY <1>2, <1>3, PlacesAreFinite, Zenon
    <3>2. inside # {} /\ i <= Cardinality(inside)  BY <2>2, <3>1
    <3>3. inside \subseteq Nat  BY <1>2, <1>3
    <3>4. first \in inside /\ \A k \in inside : first <= k  BY <3>2, <3>3, LeastNumber, Zenon
    <3> HIDE DEF first
    <3>5. first \in 1..n  BY <1>3, <3>4, Zenon
    <3>6. inside \in SUBSET (first..n)
      <4>1. \A k \in 1..n : first <= k => k \in first..n  BY <1>2, <3>5
      <4> QED BY <1>3, <3>4, <4>1, Zenon
    <3>7. IsFiniteSet(first..n) /\ Cardinality(first..n) = n - first + 1
      <4>1. first \in Int /\ n \in Int /\ ~(first > n)  BY <1>2, <3>5
      <4> QED BY <4>1, FS_Interval, Zenon
    <3>8. Cardinality(inside) <= n - first + 1  BY <3>6, <3>7, FS_Subset, Zenon
    <3>9. first + i - 1 \in 1..n  BY <1>2, <3>1, <3>2, <3>5, <3>8
    <3>10. Normal[words[first + i - 1]] \in {Normal[s] : s \in W}
      <4> DEFINE k == first + i - 1
      <4> HIDE DEF k
      <4> QED BY <1>2, <3>9, Zenon DEF k
    <3> QED BY <2>2, <3>10, RankAssumption, Zenon DEF W
  <2> QED BY <2>1, <2>2, Zenon
<1> HIDE DEF value
<1>5. center \in [1..3 -> Int]  BY <1>4
<1>6. 3 \in Nat  OBVIOUS
<1> HIDE DEF center
<1> QED BY <1>1, <1>5, <1>6, LenOfFunction, Zenon

\* A word beside the anchor is sorted by a number.
LEMMA SortWordTyped ==
    ASSUME NEW o, NEW at, NEW side, Text(o.row, side) \in Seq(DOMAIN Normal)
    PROVE  <<SortWord(o, at, side)>> \in Seq(Int) /\ Len(<<SortWord(o, at, side)>>) = 1
<1> DEFINE W == DOMAIN Normal
           words == Text(o.row, side)
           left == Cardinality({i \in DOMAIN words : EndOf(i) <= o.span.from})
           right == Cardinality({i \in DOMAIN words : StartOf(i) < o.span.to})
           place == IF at < 0 THEN left + at + 1 ELSE right + at
           value(i) == IF o.span = NoSpan \/ i \notin DOMAIN words THEN 0 ELSE Rank[Normal[words[i]]]
<1>1. \A i \in DOMAIN words : words[i] \in W
  <2> DEFINE ws == words
  <2>1. ws \in Seq(W)  OBVIOUS
  <2> HIDE DEF W, ws
  <2> QED BY <2>1 DEF ws
<1>2. \A i : value(i) \in Int
  <2> TAKE i
  <2>1. CASE o.span = NoSpan \/ i \notin DOMAIN words
    <3>1. value(i) = 0  BY <2>1, Zenon
    <3> HIDE DEF value
    <3> QED BY <3>1
  <2>2. CASE ~(o.span = NoSpan \/ i \notin DOMAIN words)  BY <1>1, RankAssumption, <2>2, Zenon
  <2> QED BY <2>1, <2>2, Zenon
<1>3. SortWord(o, at, side) \in Int  BY <1>2, Zenon DEF SortWord
<1> DEFINE x == SortWord(o, at, side)
<1> HIDE DEF x
<1> QED BY <1>3 DEF x

\* The values of the sort keys of an occurrence, one after the other.
KeyHead(o, q) ==
    FlattenSeq([i \in DOMAIN q.sort |->
        IF q.sort[i].by = "C" THEN Center(o, Anchor(q).side) ELSE <<SortWord(o, q.sort[i].at, Anchor(q).side)>>])

\* They are numbers, as many for one occurrence as for another (_sort_context).
LEMMA KeyHeadTyped ==
    ASSUME NEW q, IsList(q.sort), q.sort # <<>>, NEW o, NEW p,
           Text(o.row, Anchor(q).side) \in Seq(DOMAIN Normal), Text(p.row, Anchor(q).side) \in Seq(DOMAIN Normal)
    PROVE  KeyHead(o, q) \in Seq(Int) /\ Len(KeyHead(o, q)) = Len(KeyHead(p, q))
<1> DEFINE side == Anchor(q).side
           n == Len(q.sort)
           Value(x, k) == IF k.by = "C" THEN Center(x, side) ELSE <<SortWord(x, k.at, side)>>
           seqs == [i \in 1..n |-> Value(o, q.sort[i])]
           sems == [i \in 1..n |-> Value(p, q.sort[i])]
           Rel == Int \X Int
<1>1. DOMAIN q.sort = 1..n /\ n \in Nat \ {0}
  <2> DEFINE sort == q.sort
  <2> HIDE DEF sort
  <2> QED BY DEF sort, IsList
<1>2. KeyHead(o, q) = FlattenSeq(seqs) /\ KeyHead(p, q) = FlattenSeq(sems)  BY <1>1, Zenon DEF KeyHead
<1>3. \A k : /\ Value(o, k) \in Seq(Int) /\ Value(p, k) \in Seq(Int)
             /\ Len(Value(o, k)) = Len(Value(p, k))
  BY CenterTyped, SortWordTyped, Zenon
<1> HIDE DEF Value, n
<1>4. seqs \in [1..n -> Seq(Int)] /\ sems \in [1..n -> Seq(Int)]  BY <1>3, Zenon
<1>5. \A i \in 1..n : Related(seqs[i], sems[i], Rel)
  <2> TAKE i \in 1..n
  <2> DEFINE s == seqs[i]
             t == sems[i]
  <2>1. s \in Seq(Int) /\ t \in Seq(Int) /\ Len(s) = Len(t)  BY <1>3, Zenon
  <2> HIDE DEF s, t
  <2>2. \A j \in 1..Len(s) : s[j] \in Int /\ t[j] \in Int  BY <2>1
  <2>3. \A x, y \in Int : <<x, y>> \in Rel  OBVIOUS
  <2> QED BY <2>1, <2>2, <2>3, Zenon DEF Related, s, t
<1> HIDE DEF seqs, sems, Rel
<1>6. Related(FlattenSeq(seqs), FlattenSeq(sems), Rel)  BY <1>1, <1>4, <1>5, FlattenRelated, Zenon
<1>7. FlattenSeq(seqs) \in Seq(Int)
  <2>1. n \in Nat  BY <1>1
  <2> QED BY <1>4, <2>1, FlattenTyped, Zenon
<1> QED BY <1>2, <1>6, <1>7, Zenon DEF Related

\* The key of an occurrence: its values, and where it is.
LEMMA KeyOfOccurrence ==
    ASSUME NEW o, NEW q
    PROVE  OccurrenceKey(o, q) = KeyHead(o, q) \o <<o.row.position, o.ordinal>>
  BY Zenon DEF OccurrenceKey, KeyHead

\* A list of numbers that has two behind its first n.
EndsWith(key, n, a, b) == key \in Seq(Int) /\ key[n + 1] = a /\ key[n + 2] = b

\* What two numbers are put behind ends with them.
LEMMA LastTwo ==
    ASSUME NEW s \in Seq(Int), NEW a \in Int, NEW b \in Int
    PROVE  EndsWith(s \o <<a, b>>, Len(s), a, b)
<1> DEFINE u == <<a, b>>
           n == Len(s)
           x == s \o u
<1>1. u \in Seq(Int) /\ Len(u) = 2 /\ u[1] = a /\ u[2] = b  OBVIOUS
<1>2. n \in Nat  OBVIOUS
<1> HIDE DEF u, x
<1>3. s \o u \in Seq(Int) /\ \A i \in 1..(Len(s) + Len(u)) : (s \o u)[i] = IF i <= Len(s) THEN s[i] ELSE u[i - Len(s)]
  BY <1>1, ConcatProperties, Zenon
<1>4. \A i \in 1..(n + 2) : x[i] = IF i <= n THEN s[i] ELSE u[i - n]  BY <1>1, <1>3 DEF x
<1> HIDE DEF n
<1>5. x[n + 1] = u[1] /\ x[n + 2] = u[2]  BY <1>4, <1>2
<1> QED BY <1>1, <1>3, <1>5 DEF x, n, u, EndsWith

\* An occurrence has numbers for its place and texts with words.
LEMMA OccurrenceTyped ==
    ASSUME NEW pairs \in Seq(PairRecords), NEW q, NEW o, IsOccurrence(o, pairs, q)
    PROVE  /\ o.row.position \in Int /\ o.ordinal \in Int
           /\ \A side : Text(o.row, side) \in Seq(DOMAIN Normal)
<1>1. PICK i \in DOMAIN pairs : o.row = Extended(pairs[i], [position |-> i])
  BY Zenon DEF IsOccurrence, RowRecords
<1>2. i \in Int
  <2>1. DOMAIN pairs = 1..Len(pairs) /\ Len(pairs) \in Nat  BY LenProperties, Zenon
  <2> HIDE DEF RowRecords
  <2> QED BY <2>1
<1>3. o.ordinal \in Int  BY DEF IsOccurrence
<1> QED BY <1>1, RowPosition, <1>2, <1>3, RowsTyped, Zenon DEF Text, IsOccurrence

\* No two occurrences of a sequence are at the same place.
PlacedApart(s) ==
    \A i, j \in 1..Len(s) : s[i].row.position = s[j].row.position /\ s[i].ordinal = s[j].ordinal => i = j

\* Occurrences that come one after the other are at different places.
LEMMA SequencePlacedApart ==
    ASSUME NEW pairs \in Seq(PairRecords), NEW q, NEW s, OccurrencesInSequence(s, pairs, q)
    PROVE  PlacedApart(s)
<1>1. \A i \in 1..Len(s) : s[i].row.position \in Int /\ s[i].ordinal \in Int
  BY OccurrenceTyped, Zenon DEF OccurrencesInSequence
<1>2. \A i, j \in 1..Len(s) : i < j => Sooner(s[i], s[j])  BY Zenon DEF OccurrencesInSequence, InSequence
<1>3. Len(s) \in Nat  BY LenProperties, Zenon DEF OccurrencesInSequence
<1>4. \A i, j \in 1..Len(s) :
          i < j => ~(s[i].row.position = s[j].row.position /\ s[i].ordinal = s[j].ordinal)
  <2> SUFFICES ASSUME NEW i \in 1..Len(s), NEW j \in 1..Len(s), i < j,
                      s[i].row.position = s[j].row.position /\ s[i].ordinal = s[j].ordinal
               PROVE  FALSE
    BY Zenon
  <2> DEFINE a == s[i].row.position
             b == s[i].ordinal
  <2>1. a \in Int /\ b \in Int  BY <1>1, Zenon
  <2>2. a < a \/ b < b  BY <1>2, Zenon DEF Sooner
  <2> HIDE DEF a, b
  <2> QED BY <2>1, <2>2
<1>5. \A i, j \in 1..Len(s) : i = j \/ i < j \/ j < i  BY <1>3
<1> QED BY <1>4, <1>5, Zenon DEF PlacedApart

\* A sequence whose elements differ has as many of them as places.
LEMMA AsManyAsPlaces ==
    ASSUME NEW X, NEW s \in Seq(X), \A i, j \in 1..Len(s) : s[i] = s[j] => i = j
    PROVE  IsFiniteSet(ToSet(s)) /\ Cardinality(ToSet(s)) = Len(s) /\ Len(s) \in Nat
<1> DEFINE n == Len(s)
           S == ToSet(s)
<1>1. n \in Nat /\ DOMAIN s = 1..n  BY LenProperties, Zenon
<1>2. S = {s[i] : i \in 1..n}  BY <1>1, Zenon DEF ToSet
<1>3. s = [i \in 1..n |-> s[i]]
  <2> HIDE DEF n
  <2> QED BY <1>1
<1> HIDE DEF n, S
<1>4. s \in Bijection(1..n, S)  BY <1>2, <1>3, <1>1, Zenon DEF Bijection, Injection, Surjection, IsInjective, n
<1> QED BY <1>1, <1>4, FS_CountingElements, ElementsFinite, Zenon DEF n, S, ExistsBijection

\* Occurrences of which no two are at the same place.
Occurrences(s, pairs, q) ==
    /\ \E X : s \in Seq(X)
    /\ PlacedApart(s)
    /\ \A i \in 1..Len(s) : IsOccurrence(s[i], pairs, q)

\* Sorting keeps every occurrence once (_sort_occurrences).
LEMMA SortingKeepsOccurrences ==
    ASSUME NEW pairs \in Seq(PairRecords), NEW q, PairQuery(q), NEW s, Occurrences(s, pairs, q)
    PROVE  /\ Occurrences(SortedOccurrences(s, q), pairs, q)
           /\ Len(SortedOccurrences(s, q)) = Len(s)
<1>1. CASE q.sort = <<>>  BY <1>1, Zenon DEF SortedOccurrences
<1>2. CASE q.sort # <<>>
  <2> DEFINE S == ToSet(s)
             key == [o \in S |-> OccurrenceKey(o, q)]
             before == BeforeByKey(S, key)
             t == SortedOccurrences(s, q)
  <2>1. PICK X : s \in Seq(X)  BY Zenon DEF Occurrences
  <2>2. \A i, j \in 1..Len(s) : s[i] = s[j] => i = j
    <3> SUFFICES ASSUME NEW i \in 1..Len(s), NEW j \in 1..Len(s), s[i] = s[j] PROVE i = j
      BY Zenon
    <3> QED BY Zenon DEF Occurrences, PlacedApart
  <2>3. IsFiniteSet(S) /\ Cardinality(S) = Len(s)  BY <2>1, <2>2, AsManyAsPlaces, Zenon
  <2>4. \A o \in S : \E i \in 1..Len(s) : s[i] = o  BY <2>1, LenProperties, Zenon DEF ToSet
  <2>5. \A o \in S : IsOccurrence(o, pairs, q)  BY <2>4, Zenon DEF Occurrences
  <2>6. \A o, p \in S : o.row.position = p.row.position /\ o.ordinal = p.ordinal => o = p
    BY <2>4, Zenon DEF Occurrences, PlacedApart
  <2> HIDE DEF S
  <2>7. \A o \in S : /\ o.row.position \in Int /\ o.ordinal \in Int
                     /\ Text(o.row, Anchor(q).side) \in Seq(DOMAIN Normal)
    BY <2>5, OccurrenceTyped, Zenon
  <2>8. \A o, p \in S : KeyHead(o, q) \in Seq(Int) /\ Len(KeyHead(o, q)) = Len(KeyHead(p, q))
    BY <1>2, <2>7, KeyHeadTyped, Zenon DEF PairQuery
  <2>9. \A o \in S : /\ key[o] = OccurrenceKey(o, q)
                     /\ OccurrenceKey(o, q) \in Seq(Int)
                     /\ OccurrenceKey(o, q)[Len(KeyHead(o, q)) + 1] = o.row.position
                     /\ OccurrenceKey(o, q)[Len(KeyHead(o, q)) + 2] = o.ordinal
    <3> TAKE o \in S
    <3> DEFINE head == KeyHead(o, q)
               a == o.row.position
               b == o.ordinal
    <3>1. head \in Seq(Int) /\ a \in Int /\ b \in Int  BY <2>7, <2>8, Zenon
    <3> HIDE DEF head, a, b
    <3>2. EndsWith(head \o <<a, b>>, Len(head), a, b)  BY <3>1, LastTwo, Zenon
    <3> QED BY KeyOfOccurrence, <3>2, Zenon DEF head, a, b, EndsWith
  <2>10. key \in [S -> Seq(Int)]  BY <2>9, Zenon
  <2> HIDE DEF key
  <2>11. \A o, p \in S : key[o] = key[p] => o = p
    <3> SUFFICES ASSUME NEW o \in S, NEW p \in S, key[o] = key[p] PROVE o = p
      BY Zenon
    <3>1. o.row.position = p.row.position /\ o.ordinal = p.ordinal  BY <2>9, <2>8, Zenon
    <3> QED BY <2>6, <3>1, Zenon
  <2>12. Orders(S, before)  BY <2>3, <2>10, <2>11, KeysOrder, Zenon
  <2>13. t = Ranked(S, before)
    <3> DEFINE Less(o, p) == SeqLess(OccurrenceKey(o, q), OccurrenceKey(p, q))
               A(x) == [at |-> Cardinality({y \in S : Less(y, x)}), element |-> x]
               B(x) == [at |-> Cardinality(before[x]), element |-> x]
               Value(all) == [i \in 1..Cardinality(S) |-> (CHOOSE p \in all : p.at = i - 1).element]
    <3>1. t = Value({A(x) : x \in S})  BY <1>2, Zenon DEF SortedOccurrences, InOrder, S
    <3>2. Ranked(S, before) = Value({B(x) : x \in S})  BY Zenon DEF Ranked
    <3>3. \A x \in S : A(x) = B(x)
      <4> TAKE x \in S
      <4>1. before[x] = {y \in S : SeqLess(key[y], key[x])}  BY Zenon DEF BeforeByKey
      <4>2. \A y \in S : Less(y, x) <=> SeqLess(key[y], key[x])  BY <2>9, Zenon
      <4> HIDE DEF before, Less
      <4> QED BY <4>1, <4>2, Zenon
    <3> HIDE DEF A, B, Value, before, t
    <3>4. {A(x) : x \in S} = {B(x) : x \in S}  BY <3>3
    <3> QED BY <3>1, <3>2, <3>4, Zenon
  <2> HIDE DEF before, t
  <2>14. Arranges(t, S)  BY <2>3, <2>12, <2>13, RankedEnumerates, EnumeratedArranged, Zenon
  <2>15. /\ t \in Seq(S) /\ Len(t) = Cardinality(S)
         /\ \A i, j \in 1..Len(t) : t[i] = t[j] => i = j
    BY <2>14, Zenon DEF Arranges
  <2>16. Occurrences(t, pairs, q)  BY <2>15, <2>6, ElementOfSeq, <2>5, Zenon DEF Occurrences, PlacedApart
  <2> QED BY <2>3, <2>15, <2>16 DEF t
<1> QED BY <1>1, <1>2, Zenon

\* The occurrences that a parallel search shows: every nth, at different places.
LEMMA PairOrderPlaced ==
    ASSUME NEW pairs \in Seq(PairRecords), NEW q, PairQuery(q), ValidPairQuery(q)
    PROVE  /\ Occurrences(PairOrder(pairs, q), pairs, q)
           /\ Len(PairOrder(pairs, q)) = CeilDiv(Len(Expanded(RowsOfPairs(pairs, q), q)), q.nth)
<1> DEFINE raw == Expanded(RowsOfPairs(pairs, q), q)
           thinned == Thinned(raw, q.nth)
<1>1. OccurrencesInSequence(raw, pairs, q)  BY ExpandedInSequence, Zenon
<1> DEFINE n == q.nth
<1>2. n \in Nat \ {0}  BY DEF ValidPairQuery
<1> HIDE DEF n, raw
<1>3. PICK Y : raw \in Seq(Y)  BY <1>1, Zenon DEF OccurrencesInSequence
<1> DEFINE X == {y \in Y : IsOccurrence(y, pairs, q)}
<1>4. raw \in Seq(X)
  <2>1. \A i \in 1..Len(raw) : raw[i] \in X  BY <1>1, <1>3, ElementOfSeq, Zenon DEF OccurrencesInSequence
  <2> HIDE DEF X
  <2> QED BY <1>3, <2>1
<1> HIDE DEF X
<1>5. Thinned(raw, n) \in Seq(X) /\ Len(Thinned(raw, n)) = CeilDiv(Len(raw), n) /\ InSequence(Thinned(raw, n))
  BY <1>1, <1>2, <1>4, ThinnedTyped, ThinnedInSequence, Zenon DEF OccurrencesInSequence
<1>6. thinned = Thinned(raw, n)  BY DEF n
<1> HIDE DEF thinned
<1>7. \A i \in 1..Len(thinned) : IsOccurrence(thinned[i], pairs, q)
  <2>1. \A i \in 1..Len(thinned) : thinned[i] \in X  BY <1>5, <1>6, ElementOfSeq, Zenon
  <2> QED BY <2>1, Zenon DEF X
<1>8. OccurrencesInSequence(thinned, pairs, q)  BY <1>5, <1>6, <1>7, Zenon DEF OccurrencesInSequence
<1>9. Occurrences(thinned, pairs, q)  BY <1>5, <1>6, <1>7, <1>8, SequencePlacedApart, Zenon DEF Occurrences
<1>10. Occurrences(SortedOccurrences(thinned, q), pairs, q) /\ Len(SortedOccurrences(thinned, q)) = Len(thinned)
  BY <1>9, SortingKeepsOccurrences, Zenon
<1> QED BY <1>5, <1>6, <1>10, Zenon DEF n, raw, PairOrder, thinned

-----------------------------------------------------------------------------
(* What is marked in an excerpt *)

\* Segments that end within a text.
Within(segments, length) == \A j \in DOMAIN segments : segments[j].to <= length

\* What is put behind at most one element is a sequence.
LEMMA BehindAtMostOne ==
    ASSUME NEW b, NEW h, NEW g, g = <<b>> \/ g = <<>>
    PROVE  Append(g, h) \in Seq({b, h})
<1> DEFINE S == {b, h}
<1>1. b \in S /\ h \in S  OBVIOUS
<1> HIDE DEF S
<1>2. g \in Seq(S)
  <2>1. <<b>> \in Seq(S)  BY <1>1
  <2> QED BY <2>1, EmptySeq, Zenon
<1> QED BY <1>1, <1>2 DEF S

\* What is cut at spans within the text ends within the text (_segments).
LEMMA SegmentsWithin ==
    ASSUME NEW n \in Nat, NEW marked, marked = [i \in 1..n |-> marked[i]], NEW length \in Int,
           \A i \in 1..n : marked[i].from <= length /\ marked[i].to <= length
    PROVE  Within(Segments(marked, length), length)
<1> DEFINE Before(i) == IF i = 1 THEN 0 ELSE marked[i - 1].to
           before(i) == [from |-> Before(i), to |-> marked[i].from, row |-> 0, hit |-> FALSE]
           hit(i) == [from |-> marked[i].from, to |-> marked[i].to, row |-> marked[i].row, hit |-> TRUE]
           Gap(i) == IF marked[i].from > Before(i) THEN <<before(i)>> ELSE <<>>
           seqs == [i \in 1..n |-> Append(Gap(i), hit(i))]
           last == IF marked = <<>> THEN 0 ELSE Last(marked).to
           tail == IF last < length THEN <<[from |-> last, to |-> length, row |-> 0, hit |-> FALSE]>> ELSE <<>>
<1>1. Segments(marked, length) = FlattenSeq(seqs) \o tail
  <2>1. Segments(marked, length) = FlattenSeq([i \in DOMAIN marked |-> Append(Gap(i), hit(i))]) \o tail
    BY Zenon DEF Segments
  <2> HIDE DEF tail, Gap, hit
  <2> QED BY <2>1, Zenon
<1>2. \A i \in 1..n : before(i).to <= length /\ hit(i).to <= length  OBVIOUS
<1>3. \A i \in 1..n : \E Y : seqs[i] \in Seq(Y)
  <2> TAKE i \in 1..n
  <2> DEFINE g == Gap(i)
             h == hit(i)
             b == before(i)
  <2> HIDE DEF g, h, b
  <2> QED BY BehindAtMostOne, Zenon DEF g, h
<1>4. seqs = [i \in 1..n |-> seqs[i]]  BY Zenon
<1>5. \A i \in 1..n : Within(seqs[i], length)
  <2> TAKE i \in 1..n
  <2> DEFINE g == Gap(i)
             h == hit(i)
             b == before(i)
  <2>1. g = <<b>> \/ g = <<>>  BY Zenon
  <2>2. b.to <= length /\ h.to <= length  BY <1>2, Zenon
  <2>3. seqs[i] = Append(g, h)  BY Zenon
  <2> HIDE DEF g, h, b
  <2>4. Within(Append(g, h), length)  BY <2>1, <2>2 DEF Within
  <2> QED BY <2>3, <2>4, Zenon
<1> HIDE DEF seqs
<1>6. PICK Y : seqs \in [1..n -> Seq(Y)]  BY <1>3, <1>4, CommonElements, Zenon
<1> DEFINE X == {y \in Y \cup {[from |-> last, to |-> length, row |-> 0, hit |-> FALSE]} : y.to <= length}
<1>7. \A i \in 1..n : seqs[i] \in Seq(X)
  <2> TAKE i \in 1..n
  <2> DEFINE s == seqs[i]
  <2>1. s \in Seq(Y) /\ Within(s, length)  BY <1>5, <1>6, Zenon
  <2> HIDE DEF s
  <2>2. \A j \in 1..Len(s) : s[j] \in Y /\ s[j].to <= length  BY <2>1 DEF Within
  <2>3. \A j \in 1..Len(s) : s[j] \in X  BY <2>2, Zenon
  <2> HIDE DEF X
  <2>4. s \in Seq(X)  BY <2>1, <2>3
  <2> QED BY <2>4, Zenon DEF s
<1>8. tail \in Seq(X)
  <2> DEFINE end == [from |-> last, to |-> length, row |-> 0, hit |-> FALSE]
  <2> HIDE DEF last
  <2>1. end.to <= length  OBVIOUS
  <2>2. tail = IF last < length THEN <<end>> ELSE <<>>  BY Zenon
  <2>3. end \in X  BY <2>1, Zenon
  <2> HIDE DEF X, end, tail
  <2> QED BY <2>2, <2>3
<1> HIDE DEF X, tail
<1>9. FlattenSeq(seqs) \in Seq(X)  BY <1>4, <1>7, FlattenTyped, Zenon
<1> DEFINE all == FlattenSeq(seqs)
           joined == all \o tail
<1>10. joined \in Seq(X)
  <2> HIDE DEF all
  <2> QED BY <1>8, <1>9 DEF all
<1> HIDE DEF joined
<1>11. \A j \in DOMAIN joined : joined[j] \in X  BY <1>10
<1> QED BY <1>1, <1>11, Zenon DEF joined, X, Within

\* Spans that are marked in a text of which nothing is marked: none.
LEMMA NothingHighlighted ==
    ASSUME NEW words, NEW S, words \in Seq(S), NEW phrases, NEW q, phrases \subseteq {<<>>}
    PROVE  Within(Highlighted(words, phrases, q), TextLength(Len(words)))
<1> DEFINE spans == UNION {ToSet(TermSpans(words, t, q)) : t \in phrases}
           ordered == InOrder(spans, LAMBDA s, t : s.from < t.from \/ (s.from = t.from /\ s.to > t.to))
           marked == FoldLeft(LAMBDA done, s : IF done # <<>> /\ s.from < Last(done).to THEN done ELSE Append(done, s),
                              <<>>, ordered)
           shown == [i \in DOMAIN marked |-> Extended(marked[i], [row |-> 0])]
           length == TextLength(Len(words))
<1>1. Highlighted(words, phrases, q) = Segments(shown, length)  BY Zenon DEF Highlighted
<1>2. spans = {}  BY NoTermNoSpans, Zenon
<1>3. ordered = <<>>
  <2> DEFINE Before(s, t) == s.from < t.from \/ (s.from = t.from /\ s.to > t.to)
             places == {[at |-> Cardinality({y \in spans : Before(y, x)}), element |-> x] : x \in spans}
             Value(i) == (CHOOSE p \in places : p.at = i - 1).element
  <2>1. ordered = [i \in 1..Cardinality(spans) |-> Value(i)]  BY Zenon DEF InOrder
  <2> HIDE DEF ordered, spans, Value
  <2> QED BY <1>2, <2>1, NothingInOrder, Zenon
<1>4. marked = <<>>
  <2> DEFINE Mark(done, s) == IF done # <<>> /\ s.from < Last(done).to THEN done ELSE Append(done, s)
             Value(g) == [s \in SUBSET {} |-> IF s = {} THEN <<>>
                              ELSE LET x == Max(s) IN Mark(g[s \ {x}], ordered[x])]
             g0 == [s \in SUBSET {} |-> <<>>]
             iter == CHOOSE g : g = Value(g)
  <2>1. DOMAIN ordered = {}
    <3> HIDE DEF ordered
    <3> QED BY <1>3
  <2>2. marked = (CHOOSE g : g = [s \in SUBSET DOMAIN ordered |-> IF s = {} THEN <<>>
                              ELSE LET x == Max(s) IN Mark(g[s \ {x}], ordered[x])])[DOMAIN ordered]
    BY Zenon DEF FoldLeft, MapThenFoldSet
  <2> HIDE DEF Mark, ordered, marked
  <2>3. marked = iter[{}]  BY <2>1, <2>2, Zenon
  <2>4. \A s \in SUBSET {} : s = {}  OBVIOUS
  <2>5. \A g : Value(g) = g0  BY <2>4, Zenon
  <2> HIDE DEF Value
  <2>6. iter = g0  BY <2>5, Zenon
  <2>7. g0[{}] = <<>>  OBVIOUS
  <2> HIDE DEF iter, g0
  <2> QED BY <2>3, <2>6, <2>7
<1> HIDE DEF marked
<1>5. shown = [i \in 1..0 |-> shown[i]]
  <2>1. DOMAIN marked = 1..0  BY <1>4
  <2> QED BY <2>1, Zenon
<1>6. length \in Int  BY DEF TextLength, EndOf, StartOf, WordWidth
<1> HIDE DEF length, shown
<1>7. \A i \in 1..0 : shown[i].from <= length /\ shown[i].to <= length  OBVIOUS
<1>8. Within(Segments(shown, length), length)
  <2>1. 0 \in Nat  OBVIOUS
  <2> QED BY <1>5, <1>6, <1>7, <2>1, SegmentsWithin, Zenon
<1> QED BY <1>1, <1>8, Zenon DEF length

\* An excerpt in which a term of n words is marked.
MarksTerm(slice, n) ==
    /\ slice.length \in Int /\ slice.anchor.from <= slice.length /\ slice.anchor.to <= slice.length
    /\ slice.anchor.to - slice.anchor.from \in {EndOf(n), EndOf(n) - 1}
    /\ slice.from > 0 => slice.anchor.from > 0

\* A span of a term of n words that begins at word i.
TermBegins(span, i, n) ==
    span.from = StartOf(i) /\ (span.to = EndOf(i + n - 1) \/ (n = 1 /\ span.to = EndOf(i) - 1))

\* A span with so many words on its left and on its right.
LiesBetween(words, span, left, right) ==
    /\ Cardinality({k \in DOMAIN words : EndOf(k) <= span.from}) = left
    /\ Cardinality({k \in DOMAIN words : StartOf(k) >= span.to}) = right

\* How many words are left and right of a span of a term.
LEMMA WordsBeside ==
    ASSUME NEW S, NEW words \in Seq(S), NEW n \in Nat \ {0}, NEW i \in 1..(Len(words) - n + 1),
           NEW span, TermBegins(span, i, n)
    PROVE  LiesBetween(words, span, i - 1, Len(words) - (i + n - 1))
<1> DEFINE w == Len(words)
           left == {k \in DOMAIN words : EndOf(k) <= span.from}
           right == {k \in DOMAIN words : StartOf(k) >= span.to}
           a == span.from
           b == span.to
<1>1. w \in Nat /\ DOMAIN words = 1..w /\ i \in 1..(w - n + 1)  BY LenProperties, Zenon
<1>2. left = {k \in 1..w : EndOf(k) <= a} /\ right = {k \in 1..w : StartOf(k) >= b}  BY <1>1, Zenon
<1>3. a = 3 * (i - 1) /\ (b = 3 * (i + n - 2) + 2 \/ (n = 1 /\ b = 3 * (i - 1) + 1))
  BY <1>1 DEF TermBegins, StartOf, EndOf, WordWidth
<1> HIDE DEF w, left, right, a, b
<1>4. left = 1..(i - 1)
  <2>1. \A k \in 1..w : EndOf(k) <= a <=> k <= i - 1  BY <1>1, <1>3 DEF StartOf, EndOf, WordWidth
  <2>2. left = {k \in 1..w : k <= i - 1}  BY <1>2, <2>1, Zenon
  <2> QED BY <1>1, <2>2
<1>5. right = (i + n)..w
  <2>1. \A k \in 1..w : StartOf(k) >= b <=> i + n <= k  BY <1>1, <1>3 DEF StartOf, EndOf, WordWidth
  <2>2. right = {k \in 1..w : i + n <= k}  BY <1>2, <2>1, Zenon
  <2> QED BY <1>1, <2>2
<1>6. Cardinality(1..(i - 1)) = i - 1
  <2>1. i - 1 \in Int /\ 1 \in Int /\ (IF 1 > i - 1 THEN 0 ELSE (i - 1) - 1 + 1) = i - 1  BY <1>1
  <2>2. Cardinality(1..(i - 1)) = IF 1 > i - 1 THEN 0 ELSE (i - 1) - 1 + 1  BY <2>1, FS_Interval, Zenon
  <2> QED BY <2>1, <2>2
<1>7. Cardinality((i + n)..w) = w - (i + n - 1)
  <2>1. i + n \in Int /\ w \in Int /\ (IF i + n > w THEN 0 ELSE w - (i + n) + 1) = w - (i + n - 1)  BY <1>1
  <2>2. Cardinality((i + n)..w) = IF i + n > w THEN 0 ELSE w - (i + n) + 1  BY <2>1, FS_Interval, Zenon
  <2> QED BY <2>1, <2>2
<1> QED BY <1>4, <1>5, <1>6, <1>7 DEF left, right, a, b, w, LiesBetween

\* The excerpt around a span keeps it whole, behind the ellipsis (_context_slice).
LEMMA SliceMarksTerm ==
    ASSUME NEW S, NEW words \in Seq(S), NEW n \in Nat \ {0}, NEW span \in SpansOfTerm(Len(words), n),
           NEW size \in Nat
    PROVE  MarksTerm(ContextSlice(words, span, size), n)
<1>1. PICK i \in 1..(Len(words) - n + 1) : TermBegins(span, i, n)  BY Zenon DEF SpansOfTerm, TermBegins
<1> DEFINE w == Len(words)
           a == span.from
           b == span.to
           left == Cardinality({k \in DOMAIN words : EndOf(k) <= a})
           right == Cardinality({k \in DOMAIN words : StartOf(k) >= b})
           from == IF left >= size THEN StartOf(left - size + 1) ELSE 0
           to == IF right >= size THEN EndOf(w - right + size) ELSE TextLength(w)
           prefix == IF from > 0 THEN 1 ELSE 0
           suffix == IF to < TextLength(w) THEN 1 ELSE 0
           slice == [from |-> from, to |-> to, length |-> prefix + to - from + suffix,
                     anchor |-> [from |-> prefix + a - from, to |-> prefix + b - from]]
<1>2. ContextSlice(words, span, size) = slice  BY Zenon DEF ContextSlice
<1>3. left = i - 1 /\ right = w - (i + n - 1)
  <2>1. LiesBetween(words, span, i - 1, Len(words) - (i + n - 1))  BY <1>1, WordsBeside, Zenon
  <2> QED BY <2>1, Zenon DEF LiesBetween
<1>4. w \in Nat /\ i \in 1..(w - n + 1)  BY LenProperties, Zenon
<1>5. a = 3 * (i - 1) /\ (b = 3 * (i + n - 2) + 2 \/ (n = 1 /\ b = 3 * (i - 1) + 1))
  BY <1>1, <1>4 DEF TermBegins, StartOf, EndOf, WordWidth
<1> HIDE DEF w, a, b, left, right
<1>6. from \in Int /\ from <= a /\ 0 <= from  BY <1>3, <1>4, <1>5 DEF StartOf, WordWidth
<1>7. to \in Int /\ b <= to  BY <1>3, <1>4, <1>5 DEF StartOf, EndOf, WordWidth, TextLength
<1>8. prefix \in 0..1 /\ suffix \in 0..1 /\ (from > 0 => prefix = 1)
  <2> DEFINE T == TextLength(w)
  <2> HIDE DEF from, to, T
  <2> QED OBVIOUS
<1>9. a \in Int /\ b \in Int /\ a <= b /\ b - a \in {EndOf(n), EndOf(n) - 1}
  BY <1>4, <1>5 DEF StartOf, EndOf, WordWidth
<1> HIDE DEF from, to, prefix, suffix
<1>10. slice.length \in Int /\ slice.anchor.from <= slice.length /\ slice.anchor.to <= slice.length
  BY <1>6, <1>7, <1>8, <1>9
<1>11. slice.anchor.to - slice.anchor.from = b - a  BY <1>6, <1>8, <1>9
<1>12. slice.from > 0 => slice.anchor.from > 0  BY <1>6, <1>8, <1>9
<1> HIDE DEF slice
<1> QED BY <1>2, <1>9, <1>10, <1>11, <1>12 DEF MarksTerm

\* No span of a term is the mark for no span.
LEMMA SpanIsReal ==
    ASSUME NEW words \in Int, NEW n \in Nat \ {0}, NEW span \in SpansOfTerm(words, n)
    PROVE  span # NoSpan
<1>1. PICK i \in 1..(words - n + 1) : TermBegins(span, i, n)  BY Zenon DEF SpansOfTerm, TermBegins
<1> DEFINE a == span.from
           b == span.to
<1>2. a < b
  <2>1. a = StartOf(i) /\ (b = EndOf(i + n - 1) \/ (n = 1 /\ b = EndOf(i) - 1))  BY <1>1, Zenon DEF TermBegins
  <2> HIDE DEF a, b
  <2> QED BY <2>1 DEF StartOf, EndOf, WordWidth
<1>3. NoSpan.from = 0 /\ NoSpan.to = 0  BY DEF NoSpan
<1>4. ~(0 < 0)  OBVIOUS
<1> QED BY <1>2, <1>3, <1>4, Zenon

\* A hit of pairs whose marked words lie in its excerpt, and whose anchor is as long as the term.
AnchorShown(hit, q) ==
    \A j \in DOMAIN hit.fragments :
        /\ hit.fragments[j].to <= hit.shown.length
        /\ hit.fragments[j].hit /\ q.terms # <<>> =>
            /\ hit.shown.anchor.to - hit.shown.anchor.from \in {EndOf(Len(q.terms)), EndOf(Len(q.terms)) - 1}
            /\ hit.shown.from > 0 => hit.shown.anchor.from > 0

\* Without an anchor there is no term in the query.
LEMMA NoAnchorNoTerms ==
    ASSUME NEW q, Anchor(q).terms = <<>>
    PROVE  q.terms = <<>> /\ q.zh = <<>> /\ q.en = <<>>
  BY DEF Anchor

\* A term of the query is the anchor.
LEMMA TermIsAnchor ==
    ASSUME NEW q, q.terms # <<>>
    PROVE  Anchor(q).terms = q.terms
  BY DEF Anchor

\* What is shown of an occurrence: its text around the anchor (_row_to_hit).
LEMMA HitMarksAnchor ==
    ASSUME NEW pairs \in Seq(PairRecords), NEW q, PairQuery(q), NEW o, IsOccurrence(o, pairs, q)
    PROVE  AnchorShown(RowToHit(o, q), q)
<1> DEFINE side == Anchor(q).side
           terms == Anchor(q).terms
           words == Text(o.row, side)
           Phrases(s) == {IF s = "zh" THEN q.zh ELSE q.en} \cup (IF s = q.side THEN {q.terms} ELSE {})
           phrases == Phrases(side)
           slice == ContextSlice(words, o.span, q.context)
           length == TextLength(Len(words))
           whole == [from |-> 0, to |-> length, length |-> length, anchor |-> NoSpan]
           marked == <<Extended(slice.anchor, [row |-> 0])>>
           hit == RowToHit(o, q)
<1>1. hit.shown = IF o.span = NoSpan THEN whole ELSE slice  BY DEF RowToHit
<1>2. hit.fragments = IF o.span = NoSpan THEN Highlighted(words, phrases, q) ELSE Segments(marked, slice.length)
  BY DEF RowToHit
<1>3. words \in Seq(DOMAIN Normal)  BY OccurrenceTyped, Zenon
<1>4. IsList(terms)  BY AnchorIsList, Zenon
<1>5. o.span \in IF terms = <<>> THEN {NoSpan} ELSE SpansOfTerm(Len(words), Len(terms))
  BY Zenon DEF IsOccurrence, AnchorSpans
<1>6. terms # <<>> => Len(terms) \in Nat \ {0}
  <2> HIDE DEF terms
  <2> QED BY <1>4 DEF IsList
<1>7. CASE terms = <<>>
  <2>1. q.terms = <<>> /\ q.zh = <<>> /\ q.en = <<>>  BY <1>7, NoAnchorNoTerms, Zenon
  <2>2. phrases \subseteq {<<>>}  BY <2>1, Zenon
  <2>3. hit.shown = whole /\ hit.fragments = Highlighted(words, phrases, q)  BY <1>1, <1>2, <1>5, <1>7, Zenon
  <2>4. whole.length = length  OBVIOUS
  <2> HIDE DEF hit, words, phrases, whole
  <2> QED BY <2>1, <2>3, <2>4, <1>3, <2>2, NothingHighlighted, Zenon DEF AnchorShown, Within, hit
<1>8. CASE terms # <<>>
  <2> DEFINE n == Len(terms)
  <2>1. n \in Nat \ {0} /\ o.span \in SpansOfTerm(Len(words), n)  BY <1>5, <1>6, <1>8, Zenon
  <2>2. Len(words) \in Int  BY <1>3
  <2>3. hit.shown = slice /\ hit.fragments = Segments(marked, slice.length)
    BY <1>1, <1>2, <2>1, <2>2, SpanIsReal, Zenon
  <2>4. MarksTerm(slice, n)  BY <1>3, <2>1, SliceMarksTerm, Zenon DEF PairQuery
  <2>5. q.terms # <<>> => n = Len(q.terms)  BY TermIsAnchor, Zenon
  <2>6. DOMAIN slice.anchor = {"from", "to"}  BY DEF ContextSlice
  <2> HIDE DEF hit, slice, n
  <2> DEFINE anchor == slice.anchor
             mark == Extended(anchor, [row |-> 0])
  <2>7. mark.from = anchor.from /\ mark.to = anchor.to
    <3>1. DOMAIN anchor = {"from", "to"}  BY <2>6, Zenon
    <3> HIDE DEF anchor
    <3> QED BY <3>1 DEF Extended
  <2>8. Within(Segments(marked, slice.length), slice.length)
    <3> HIDE DEF mark
    <3>1. marked = <<mark>>  BY Zenon DEF mark
    <3> HIDE DEF marked
    <3>2. marked = [i \in 1..1 |-> marked[i]] /\ \A i \in 1..1 : marked[i] = mark  BY <3>1
    <3>3. 1 \in Nat /\ slice.length \in Int  BY <2>4 DEF MarksTerm
    <3> QED BY <3>2, <2>4, <2>7, <3>3, SegmentsWithin, Zenon DEF MarksTerm
  <2> QED BY <2>3, <2>4, <2>5, <2>8, Zenon DEF AnchorShown, Within, MarksTerm, hit
<1> QED BY <1>7, <1>8, Zenon

-----------------------------------------------------------------------------
(* Turning the pages of a parallel search *)

\* Turning the page keeps a query of pairs a query of pairs.
LEMMA OtherPairPage ==
    ASSUME NEW q, PairQuery(q), NEW p \in Int, NEW s, OnPage(s, q, p)
    PROVE  PairQuery(s)
<1>1. s = [q EXCEPT !.page = p] /\ PairFields \subseteq DOMAIN q  BY Zenon DEF OnPage, PairQuery
<1>2. DOMAIN s = DOMAIN q /\ s.page = p  BY <1>1 DEF PairFields
<1>3. /\ s.size = q.size /\ s.context = q.context
      /\ s.terms = q.terms /\ s.zh = q.zh /\ s.en = q.en /\ s.sort = q.sort
  BY <1>1 DEF PairFields
<1> QED BY <1>1, <1>2, <1>3, Zenon DEF PairQuery

\* A sequence of hits that all show their anchor.
AnchorsShown(hits, q) ==
    /\ \E Y : hits \in Seq(Y)
    /\ \A i \in 1..Len(hits) : AnchorShown(hits[i], q)

\* The hits of a page show their anchors.
LEMMA PageShowsAnchors ==
    ASSUME NEW pairs \in Seq(PairRecords), NEW q, PairQuery(q), ValidPairQuery(q), q.page \in Nat \ {0}
    PROVE  AnchorsShown(PairSearch(pairs, q).hits, q)
<1> DEFINE ordered == PairOrder(pairs, q)
           shown == PageOf(ordered, q.page, q.size)
           hits == [i \in DOMAIN shown |-> RowToHit(shown[i], q)]
<1>1. PairSearch(pairs, q).hits = hits
  <2> DEFINE rows == RowsOfPairs(pairs, q)
             raw == Expanded(rows, q)
             quality == Quality(rows)
             length == Len(raw)
             page == EffectivePage(q.page, NumPages(Len(ordered), q.size))
             pages == NumPages(Len(ordered), q.size)
             total == Len(ordered)
             answer == [hits |-> hits, total |-> total, raw |-> length, quality |-> quality,
                        page |-> page, pages |-> pages]
  <2>1. PairSearch(pairs, q) = answer  BY Zenon DEF PairSearch, PairOrder
  <2> HIDE DEF hits, total, length, quality, page, pages
  <2>2. answer.hits = hits  OBVIOUS
  <2> QED BY <2>1, <2>2, Zenon
<1>2. Occurrences(ordered, pairs, q)  BY PairOrderPlaced, Zenon
<1>3. PICK Y : ordered \in Seq(Y)  BY <1>2, Zenon DEF Occurrences
<1> DEFINE X == {y \in Y : IsOccurrence(y, pairs, q)}
<1> HIDE DEF ordered
<1>4. ordered \in Seq(X)
  <2>1. \A i \in 1..Len(ordered) : ordered[i] \in X  BY <1>2, <1>3, ElementOfSeq, Zenon DEF Occurrences
  <2> HIDE DEF X
  <2> QED BY <1>3, <2>1
<1>5. shown \in Seq(X)
  <2> HIDE DEF X
  <2> QED BY <1>4, PageIsPart, Zenon DEF PairQuery
<1> HIDE DEF shown
<1>6. DOMAIN shown = 1..Len(shown) /\ Len(shown) \in Nat  BY <1>5, LenProperties, Zenon
<1>7. \A i \in 1..Len(shown) : AnchorShown(hits[i], q)
  <2> TAKE i \in 1..Len(shown)
  <2>1. shown[i] \in X
    <3> HIDE DEF X
    <3> QED BY <1>5, ElementOfSeq, Zenon
  <2> QED BY <2>1, HitMarksAnchor, <1>6, Zenon
<1>8. hits = [i \in 1..Len(shown) |-> hits[i]]  BY <1>6, Zenon
<1> HIDE DEF hits
<1> QED BY <1>1, <1>7, <1>6, <1>8, FunctionIsSequence, Zenon DEF AnchorsShown

\* An anchor does not depend on the page.
LEMMA SameAnchorShown ==
    ASSUME NEW q, NEW s, SamePairs(q, s), NEW hit, AnchorShown(hit, s)
    PROVE  AnchorShown(hit, q)
<1>1. q.sort = s.sort /\ q.terms = s.terms  BY DEF SamePairs
<1> QED BY <1>1, Zenon DEF AnchorShown

\* All pages of a parallel search show their anchors.
LEMMA AllPagesShowAnchors ==
    ASSUME NEW pairs \in Seq(PairRecords), NEW q, PairQuery(q), ValidPairQuery(q), NEW pages \in Nat
    PROVE  AnchorsShown(FlattenSeq([p \in 1..pages |-> PairSearch(pairs, [q EXCEPT !.page = p]).hits]), q)
<1> DEFINE s(p) == [q EXCEPT !.page = p]
           seqs == [p \in 1..pages |-> PairSearch(pairs, s(p)).hits]
           all == FlattenSeq(seqs)
<1>1. \A p \in 1..pages : AnchorsShown(seqs[p], q)
  <2> SUFFICES ASSUME NEW p \in 1..pages PROVE AnchorsShown(seqs[p], q)
    OBVIOUS
  <2> DEFINE t == s(p)
             hits == PairSearch(pairs, t).hits
  <2>1. p \in Nat \ {0} /\ p \in Int  OBVIOUS
  <2>2. OnPage(t, q, p)  BY <2>1, Zenon DEF OnPage
  <2>3. seqs[p] = hits  BY Zenon
  <2> HIDE DEF t
  <2>4. SamePairs(q, t) /\ t.page = p  BY <2>2, SamePageOfPairs, Zenon
  <2>5. ValidPairQuery(t)  BY <2>4, SamePairOrder, Zenon
  <2>6. AnchorsShown(hits, t)  BY <2>1, <2>4, <2>2, OtherPairPage, <2>5, PageShowsAnchors, Zenon
  <2> HIDE DEF hits
  <2> QED BY <2>3, <2>4, <2>6, SameAnchorShown, Zenon DEF AnchorsShown
<1>2. seqs = [p \in 1..pages |-> seqs[p]]  BY Zenon
<1> HIDE DEF seqs
<1>3. PICK Y : seqs \in [1..pages -> Seq(Y)]  BY <1>2, <1>1, CommonElements, Zenon DEF AnchorsShown
<1> DEFINE X == {y \in Y : AnchorShown(y, q)}
<1>4. \A p \in 1..pages : seqs[p] \in Seq(X)
  <2> TAKE p \in 1..pages
  <2> DEFINE a == seqs[p]
  <2>1. a \in Seq(Y) /\ AnchorsShown(a, q)  BY <1>1, <1>3, Zenon
  <2> HIDE DEF a
  <2>2. \A i \in 1..Len(a) : a[i] \in X  BY <2>1, ElementOfSeq, Zenon DEF AnchorsShown
  <2> HIDE DEF X
  <2>3. a \in Seq(X)  BY <2>1, <2>2
  <2> QED BY <2>3, Zenon DEF a
<1>5. all \in Seq(X)
  <2> HIDE DEF X
  <2> QED BY <1>2, <1>4, FlattenTyped, Zenon
<1> HIDE DEF all
<1>6. \A i \in 1..Len(all) : AnchorShown(all[i], q)
  <2>1. \A i \in 1..Len(all) : all[i] \in X
    <3> HIDE DEF X
    <3> QED BY <1>5, ElementOfSeq, Zenon
  <2> QED BY <2>1, Zenon
<1> HIDE DEF X
<1> QED BY <1>5, <1>6, Zenon DEF all, seqs, AnchorsShown

\* Sequences whose hits and occurrences are at the same places are equally long.
LEMMA SamePlaces ==
    ASSUME NEW X, NEW Y, NEW all \in Seq(X), NEW ordered \in Seq(Y), PlacesOf(all) = OccurrencePlaces(ordered)
    PROVE  StandsFor(all, ordered)
<1> DEFINE a == PlacesOf(all)
           b == OccurrencePlaces(ordered)
           n == Len(all)
           m == Len(ordered)
<1>1. DOMAIN all = 1..n /\ DOMAIN ordered = 1..m /\ n \in Nat /\ m \in Nat  BY LenProperties, Zenon
<1>2. DOMAIN a = 1..n /\ DOMAIN b = 1..m  BY <1>1, Zenon DEF PlacesOf, OccurrencePlaces
<1>3. /\ \A i \in 1..n : a[i].position = all[i].position /\ a[i].ordinal = all[i].ordinal
      /\ \A i \in 1..m : b[i].position = ordered[i].row.position /\ b[i].ordinal = ordered[i].ordinal
  <2> HIDE DEF n, m
  <2> QED BY <1>1 DEF PlacesOf, OccurrencePlaces
<1>4. a = b  BY Zenon
<1> HIDE DEF a, b, n, m
<1>5. n = m
  <2>1. 1..n = 1..m  BY <1>2, <1>4, Zenon
  <2> QED BY <1>1, <2>1
<1> QED BY <1>3, <1>4, <1>5, Zenon DEF StandsFor, n, m

\* Hits that stand for occurrences at different places are at different places.
LEMMA PlacesDiffer ==
    ASSUME NEW X, NEW all \in Seq(X), NEW ordered, StandsFor(all, ordered), PlacedApart(ordered)
    PROVE  IsInjective([i \in DOMAIN all |-> <<all[i].position, all[i].ordinal>>])
<1> DEFINE f == [i \in DOMAIN all |-> <<all[i].position, all[i].ordinal>>]
<1>1. DOMAIN all = 1..Len(all) /\ Len(all) = Len(ordered)  BY LenProperties, Zenon DEF StandsFor
<1>2. DOMAIN f = 1..Len(all) /\ \A i \in 1..Len(all) : f[i] = <<all[i].position, all[i].ordinal>>
  BY <1>1, Zenon
<1> HIDE DEF f
<1>3. \A i, j \in 1..Len(all) : f[i] = f[j] => i = j
  <2> SUFFICES ASSUME NEW i \in 1..Len(all), NEW j \in 1..Len(all), f[i] = f[j] PROVE i = j
    OBVIOUS
  <2>1. <<all[i].position, all[i].ordinal>> = <<all[j].position, all[j].ordinal>>  BY <1>2, Zenon
  <2>2. all[i].position = all[j].position /\ all[i].ordinal = all[j].ordinal  BY <2>1
  <2> QED BY <1>1, <2>2, Zenon DEF PlacedApart, StandsFor
<1> QED BY <1>2, <1>3, Zenon DEF IsInjective, f

\* The number of occurrences before thinning is that of the answer.
LEMMA RawOccurrences ==
    ASSUME NEW pairs, NEW q, ValidPairQuery(q)
    PROVE  PairSearch(pairs, q).raw = Len(Expanded(RowsOfPairs(pairs, q), q))
<1> DEFINE rows == RowsOfPairs(pairs, q)
           ordered == PairOrder(pairs, q)
           shown == PageOf(ordered, q.page, q.size)
           hits == [i \in DOMAIN shown |-> RowToHit(shown[i], q)]
           quality == Quality(rows)
           length == Len(Expanded(rows, q))
           page == EffectivePage(q.page, NumPages(Len(ordered), q.size))
           pages == NumPages(Len(ordered), q.size)
           total == Len(ordered)
           answer == [hits |-> hits, total |-> total, raw |-> length, quality |-> quality, page |-> page, pages |-> pages]
<1> HIDE DEF hits, total, length, quality, page, pages
<1>1. answer.raw = length  OBVIOUS
<1> QED BY <1>1, Zenon DEF length, PairSearch, PairOrder

\* Whoever turns the pages of a parallel search to the last sees every nth occurrence once.
LEMMA ParallelOnce ==
    ASSUME PagesInvariant
    PROVE  PairPagesPartition
<1> SUFFICES ASSUME visit.view = "pairs", ~IsError(visit.answer) PROVE PairsOnce(PairPages)
  BY Zenon DEF PairPagesPartition, Shows
<1> DEFINE pairs == visit.corpus.pairs
           q == visit.query
           answer == visit.answer
           ordered == PairOrder(pairs, q)
           all == PairPages
           pages == answer.pages
<1>1. pairs \in Seq(PairRecords) /\ PairQuery(q) /\ ValidPairQuery(q) /\ answer = PairSearch(pairs, q)
  BY ShownPairs, Zenon DEF PairsExportable
<1>2. ShowsPairs(answer, ordered, q.page, q.size)  BY <1>1, PairSearchAnswers, Zenon
<1>3. all = FlattenSeq([p \in 1..pages |-> PairSearch(pairs, [q EXCEPT !.page = p]).hits])
  BY Zenon DEF PairPages
<1> HIDE DEF pairs, q, all, answer
<1>4. Occurrences(ordered, pairs, q) /\ Len(ordered) = CeilDiv(Len(Expanded(RowsOfPairs(pairs, q), q)), q.nth)
  BY <1>1, PairOrderPlaced, Zenon
<1>5. answer.raw = Len(Expanded(RowsOfPairs(pairs, q), q))  BY <1>1, RawOccurrences, Zenon
<1>6. PICK X : ordered \in Seq(X)  BY <1>4, Zenon DEF Occurrences
<1>7. pages \in Nat
  <2>1. q.size \in Nat \ {0}  BY <1>1, Zenon DEF PairQuery
  <2>2. Len(ordered) \in Nat  BY <1>6, LenProperties, Zenon
  <2>3. pages = NumPages(Len(ordered), q.size)  BY <1>2, Zenon DEF ShowsPairs
  <2> HIDE DEF ordered, pages
  <2> QED BY <2>1, <2>2, <2>3, PagesCount
<1>8. PlacesOf(all) = OccurrencePlaces(ordered)
  <2>1. ~IsError(PairSearch(pairs, q)) /\ pages = PairSearch(pairs, q).pages
    BY <1>1, <1>2, Zenon DEF ShowsPairs
  <2> HIDE DEF pages
  <2> QED BY <1>1, <1>3, <2>1, TurnedPairs, Zenon
<1>9. AnchorsShown(all, q)
  <2> HIDE DEF pages
  <2> QED BY <1>1, <1>3, <1>7, AllPagesShowAnchors, Zenon
<1>10. PICK Y : all \in Seq(Y)  BY <1>9, Zenon DEF AnchorsShown
<1> HIDE DEF ordered
<1>11. StandsFor(all, ordered)  BY <1>6, <1>8, <1>10, SamePlaces, Zenon
<1>12. IsInjective([i \in DOMAIN all |-> <<all[i].position, all[i].ordinal>>])
  BY <1>4, <1>10, <1>11, PlacesDiffer, Zenon DEF Occurrences
<1>13. Len(all) = answer.total /\ Len(all) = CeilDiv(answer.raw, q.nth)
  BY <1>4, <1>5, <1>11, <1>2, Zenon DEF StandsFor, ShowsPairs
<1>14. \A i \in DOMAIN all : AnchorShown(all[i], q)  BY <1>9, <1>10, LenProperties, Zenon DEF AnchorsShown
<1> QED BY <1>12, <1>13, <1>14, Zenon DEF PairsOnce, AnchorShown, all, answer, q

\* The pages of the concordance and of a parallel search always partition
\* what they show (search, search_advanced, _search_hits and _row_to_hit):
\* whoever turns them to the last sees every match, and every nth occurrence
\* of a pair, once and in its place.
THEOREM PagesAlwaysPartition == Spec => []PagesPartition
<1>1. PagesInvariant => PagesPartition  BY ConcordanceOnce, ParallelOnce, Zenon DEF PagesPartition
<1> QED BY <1>1, PagesAreInvariant, PTL

-----------------------------------------------------------------------------
(* The same values in memory and in SQL *)

\* Matches have the same values in two sorts: in what was loaded for them, in memory or in SQL.
ValuesAlike(tokens, matches, keys, loaded, inSql, others, elsewhere) ==
    \A m \in matches : SortValues(tokens, loaded, m, keys, inSql) = SortValues(tokens, others, m, keys, elsewhere)

\* Matches that one sort counts together the other counts together, if they are counted.
GroupedAlike(tokens, matches, keys, order, loaded, inSql, others, elsewhere) ==
    order = "frequency" => \A m, n \in matches :
        CountedValues(tokens, loaded, n, keys, inSql) = CountedValues(tokens, loaded, m, keys, inSql) <=>
        CountedValues(tokens, others, n, keys, elsewhere) = CountedValues(tokens, others, m, keys, elsewhere)

SortedAlike(tokens, matches, keys, order, loaded, inSql, others, elsewhere) ==
    Sorted(tokens, matches, loaded, keys, order, inSql) = Sorted(tokens, matches, others, keys, order, elsewhere)

\* Then the two sorts leave them in the same order.
LEMMA SameValuesSortAlike ==
    ASSUME NEW tokens, NEW matches, NEW keys, NEW order, NEW loaded, NEW inSql, NEW others, NEW elsewhere,
           ValuesAlike(tokens, matches, keys, loaded, inSql, others, elsewhere),
           GroupedAlike(tokens, matches, keys, order, loaded, inSql, others, elsewhere)
    PROVE  SortedAlike(tokens, matches, keys, order, loaded, inSql, others, elsewhere)
<1> DEFINE V(m) == SortValues(tokens, loaded, m, keys, inSql)
           W(m) == SortValues(tokens, others, m, keys, elsewhere)
           GroupV(m) == CountedValues(tokens, loaded, m, keys, inSql)
           GroupW(m) == CountedValues(tokens, others, m, keys, elsewhere)
           SameV(m) == Cardinality({n \in matches : GroupV(n) = GroupV(m)})
           SameW(m) == Cardinality({n \in matches : GroupW(n) = GroupW(m)})
           A(m) == [match |-> m, values |-> V(m), count |-> IF order = "frequency" /\ keys # <<>> THEN SameV(m) ELSE 0]
           B(m) == [match |-> m, values |-> W(m), count |-> IF order = "frequency" /\ keys # <<>> THEN SameW(m) ELSE 0]
           Less(d, e) ==
              \/ d.count > e.count
              \/ d.count = e.count /\ ValuesLess(d.values, e.values)
              \/ d.count = e.count /\ d.values = e.values /\ SeqLess(Place(d.match), Place(e.match))
           Enumerated(counted) == LET ordered == InOrder(counted, Less) IN [i \in DOMAIN ordered |-> ordered[i].match]
<1>1. Sorted(tokens, matches, loaded, keys, order, inSql) = Enumerated({A(m) : m \in matches})
  BY Zenon DEF Sorted
<1>2. Sorted(tokens, matches, others, keys, order, elsewhere) = Enumerated({B(m) : m \in matches})
  BY Zenon DEF Sorted
<1> HIDE DEF Enumerated
<1>3. \A m \in matches : V(m) = W(m)  BY Zenon DEF ValuesAlike
<1>4. ASSUME order = "frequency" PROVE \A m \in matches : SameV(m) = SameW(m)
  <2> TAKE m \in matches
  <2>0. \A n \in matches : GroupV(n) = GroupV(m) <=> GroupW(n) = GroupW(m)  BY <1>4, Zenon DEF GroupedAlike
  <2> HIDE DEF GroupV, GroupW
  <2>1. {n \in matches : GroupV(n) = GroupV(m)} = {n \in matches : GroupW(n) = GroupW(m)}  BY <2>0
  <2> QED BY <2>1, Zenon
<1> HIDE DEF V, W, SameV, SameW
<1>5. \A m \in matches : A(m) = B(m)  BY <1>3, <1>4, Zenon
<1> HIDE DEF A, B
<1>6. {A(m) : m \in matches} = {B(m) : m \in matches}  BY <1>5
<1> QED BY <1>1, <1>2, <1>6, Zenon DEF SortedAlike

\* Sort keys are keys of the request, and none is blank.
LEMMA KeysAreChosen ==
    ASSUME NEW sort, IsList(sort), NEW i \in DOMAIN NormalizeSortKeys(sort)
    PROVE  \E j \in DOMAIN sort : NormalizeSortKeys(sort)[i] = sort[j] /\ sort[j].by # ""
<1> DEFINE places == {k \in DOMAIN sort : sort[k].by # "" /\ \A j \in 1..(k - 1) : sort[j] # sort[k]}
           order == InOrder(places, <)
<1>1. Len(sort) \in Nat /\ DOMAIN sort = 1..Len(sort)  BY SequenceNumbered, Zenon DEF IsList, Numbered
<1>2. places \in SUBSET (1..Len(sort))  BY <1>1, Zenon
<1>3. NormalizeSortKeys(sort) = [k \in DOMAIN order |-> sort[order[k]]]  BY Zenon DEF NormalizeSortKeys, At
<1>4. \A k \in places : sort[k].by # "" /\ k \in DOMAIN sort  BY Zenon
<1> HIDE DEF places
<1>5. order \in [1..Cardinality(places) -> places]  BY <1>1, <1>2, PlacesInOrder, Zenon DEF Enumerates
<1> HIDE DEF order
<1>6. i \in 1..Cardinality(places) /\ NormalizeSortKeys(sort)[i] = sort[order[i]]  BY <1>3, <1>5, Zenon
<1> QED BY <1>4, <1>6, <1>5, Zenon

\* What is loaded around matches holds every word they may be sorted by.
LEMMA LoadedToSortBy ==
    ASSUME NEW tokens, NEW matches, NEW m \in matches, m.length \in Nat, NEW radius \in Nat, radius >= 5,
           NEW k, k.at \in (-5..5) \ {0}
    PROVE  TokenAt(tokens, Context(tokens, matches, radius), m, SortOffset(k, m.length)) =
           TokenAt(tokens, DOMAIN tokens, m, SortOffset(k, m.length))
<1> DEFINE offset == SortOffset(k, m.length)
           loaded == Context(tokens, matches, radius)
           Around(n) == UNION {Beside(tokens, n.row, d) : d \in (0 - radius)..(n.length - 1 + radius)}
<1>1. offset \in (0 - radius)..(m.length - 1 + radius)
  <2> DEFINE at == k.at
             n == m.length
  <2>1. at \in Int /\ -5 <= at /\ at <= 5 /\ at # 0 /\ n \in Nat  OBVIOUS
  <2>2. offset = IF at < 0 THEN at ELSE n + at - 1  BY Zenon DEF SortOffset
  <2> HIDE DEF at, n, offset
  <2> QED BY <2>1, <2>2 DEF n
<1> HIDE DEF offset
<1>2. Beside(tokens, m.row, offset) \subseteq Around(m)  BY <1>1, Zenon
<1>3. loaded = UNION {Around(n) : n \in matches}  BY Zenon DEF Context
<1> HIDE DEF Around, loaded
<1> QED BY <1>2, <1>3, Zenon DEF offset, loaded, TokenAt, Beside

\* A key of a sort: the match itself, its file, its row, or a word up to five words beside it.
ChosenKey(k) == k.by \in {"C", "FILE", "ROW_ID"} \/ k.at \in (-5..5) \ {0}

\* What is loaded has all that the value of a match depends on.
LoadedFor(tokens, loaded, m, k, inSql) == SortValue(tokens, loaded, m, k, inSql) = SortValue(tokens, DOMAIN tokens, m, k, inSql)

\* A match has the same value in whatever is loaded around it.
LEMMA SameValueLoaded ==
    ASSUME NEW tokens, NEW matches, NEW m \in matches, m.length \in Nat, NEW radius \in Nat, radius >= 5,
           NEW k, ChosenKey(k), NEW inSql
    PROVE  LoadedFor(tokens, Context(tokens, matches, radius), m, k, inSql)
<1> DEFINE loaded == Context(tokens, matches, radius)
           Value(r) == CASE k.by = "ROW_ID" -> <<m.row>>
                         [] k.by = "FILE" -> <<FilePlace(tokens[m.row].word.doc, inSql)>>
                         [] k.by = "C" -> IF inSql THEN <<Rank[NormalAt(tokens, m.row)]>> ELSE Keyword(tokens, m)
                         [] OTHER -> r
           Beyond(r) == RankOf(tokens, TokenAt(tokens, r, m, SortOffset(k, m.length)))
<1> SUFFICES SortValue(tokens, loaded, m, k, inSql) = SortValue(tokens, DOMAIN tokens, m, k, inSql)
  BY Zenon DEF LoadedFor
<1>1. \A r : SortValue(tokens, r, m, k, inSql) = Value(Beyond(r))  BY Zenon DEF SortValue
<1>2. CASE k.at \in (-5..5) \ {0}
  <2>1. Beyond(loaded) = Beyond(DOMAIN tokens)
    <3>1. TokenAt(tokens, loaded, m, SortOffset(k, m.length)) = TokenAt(tokens, DOMAIN tokens, m, SortOffset(k, m.length))
      BY <1>2, LoadedToSortBy, Zenon
    <3> HIDE DEF loaded
    <3> QED BY <3>1, Zenon
  <2> HIDE DEF Value, Beyond
  <2> QED BY <1>1, <2>1, Zenon
<1>3. CASE k.by \in {"C", "FILE", "ROW_ID"}
  <2>1. \A r, s : Value(r) = Value(s)
    <3> TAKE r, s
    <3>1. CASE k.by = "ROW_ID"  BY <3>1, Zenon
    <3>2. CASE k.by = "FILE"
      <4>1. k.by # "ROW_ID"  BY <3>2
      <4> QED BY <3>2, <4>1, Zenon
    <3>3. CASE k.by = "C"
      <4>1. k.by # "ROW_ID" /\ k.by # "FILE"  BY <3>3
      <4> QED BY <3>3, <4>1, Zenon
    <3> QED BY <1>3, <3>1, <3>2, <3>3, Zenon
  <2> HIDE DEF Value, Beyond
  <2> QED BY <1>1, <2>1, Zenon
<1> QED BY <1>2, <1>3, Zenon DEF ChosenKey

\* Both engines sort a match by the same value: by key C a match of one word, by FILE one in a file whose name both fold alike.
LEMMA SameValueInSql ==
    ASSUME NEW tokens, Tokens(tokens), NEW m, m.row \in DOMAIN tokens, NEW loaded, NEW k, m.length = 1 \/ k.by # "C",
           k.by = "FILE" => FileRank[tokens[m.row].word.doc] = FoldedRank[tokens[m.row].word.doc]
    PROVE  SortValue(tokens, loaded, m, k, TRUE) = SortValue(tokens, loaded, m, k, FALSE)
<1> DEFINE doc == tokens[m.row].word.doc
           Value(v, p) == CASE k.by = "ROW_ID" -> <<m.row>>
                            [] k.by = "FILE" -> <<p>>
                            [] k.by = "C" -> v
                            [] OTHER -> RankOf(tokens, TokenAt(tokens, loaded, m, SortOffset(k, m.length)))
           first == <<Rank[NormalAt(tokens, m.row)]>>
<1>1. SortValue(tokens, loaded, m, k, TRUE) = Value(first, FileRank[doc])  BY Zenon DEF SortValue, FilePlace
<1>2. SortValue(tokens, loaded, m, k, FALSE) = Value(Keyword(tokens, m), FoldedRank[doc])
  BY Zenon DEF SortValue, FilePlace
<1>3. \A v : Value(v, FileRank[doc]) = Value(v, FoldedRank[doc])
  <2> TAKE v
  <2>1. CASE k.by = "FILE"  BY <2>1, Zenon
  <2>2. CASE k.by = "ROW_ID"  BY <2>2, Zenon
  <2>3. CASE k.by # "ROW_ID" /\ k.by # "FILE"  BY <2>3, Zenon
  <2> QED BY <2>1, <2>2, <2>3, Zenon
<1>4. CASE k.by # "C"
  <2>1. \A v, w, p : Value(v, p) = Value(w, p)
    <3> TAKE v, w, p
    <3>1. CASE k.by = "ROW_ID"  BY <3>1, Zenon
    <3>2. CASE k.by # "ROW_ID" /\ k.by = "FILE"  BY <3>2, Zenon
    <3>3. CASE k.by # "ROW_ID" /\ k.by # "FILE"  BY <1>4, <3>3, Zenon
    <3> QED BY <3>1, <3>2, <3>3, Zenon
  <2> HIDE DEF Value
  <2> QED BY <1>1, <1>2, <1>3, <2>1, Zenon
<1>5. CASE m.length = 1
  <2>1. Keyword(tokens, m) = first
    <3> DEFINE word(i) == Rank[NormalAt(tokens, CHOOSE g \in Beside(tokens, m.row, i - 1) : TRUE)]
    <3>1. Keyword(tokens, m) = [i \in 1..1 |-> word(i)]  BY <1>5, Zenon DEF Keyword
    <3>2. word(1) = Rank[NormalAt(tokens, m.row)]
      <4>1. Beside(tokens, m.row, 1 - 1) = {m.row}
        <5>1. 1 - 1 = 0  OBVIOUS
        <5> QED BY <5>1, BesideIsOne, Zenon
      <4> QED BY <4>1, Zenon
    <3> HIDE DEF word
    <3>3. [i \in 1..1 |-> word(i)] = <<word(1)>>  OBVIOUS
    <3> QED BY <3>1, <3>2, <3>3, Zenon
  <2> HIDE DEF Value, first
  <2> QED BY <1>1, <1>2, <1>3, <2>1, Zenon
<1> QED BY <1>4, <1>5, Zenon

-----------------------------------------------------------------------------
(* What each engine shows *)

\* The matches as they are sorted in memory, all of them or a sample ...
SortedInMemory(index, q, found) ==
    LET kept == IF q.sample > 0 THEN Sample(found, q) ELSE found
    IN  Sorted(index.tokens, kept, Context(index.tokens, kept, 5), NormalizeSortKeys(q.sort), q.order, FALSE)

\* ... or in SQL.
SortedInSql(index, q, found) ==
    Sorted(index.tokens, found, DOMAIN index.tokens, NormalizeSortKeys(q.sort), q.order, TRUE)

\* The page that a query asks for; a sample is shown as a whole.
CutOut(ordered, q) == IF q.sample > 0 THEN ordered ELSE PageOf(ordered, q.page, q.size)

\* An answer has these hits and this total.
ShowsHits(answer, hits, total) == HitsOf(answer.hits) = HitsOf(hits) /\ answer.total = total

\* A page that is cut out of a sequence is a sequence.
LEMMA CutOutIsSequence ==
    ASSUME NEW X, NEW ordered \in Seq(X), NEW q, KwicQuery(q), ValidOptions(q)
    PROVE  CutOut(ordered, q) \in Seq(X)
<1>1. q.page \in Nat \ {0} /\ q.size \in Nat \ {0}
  <2>1. q.page \in Int /\ q.size \in Int /\ q.page >= 1 /\ q.size >= 1  BY Zenon DEF ValidOptions, KwicQuery
  <2> QED BY <2>1
<1> QED BY <1>1, PageIsPart, Zenon DEF CutOut

\* What the searches in memory share shows its page of the matches sorted there.
LEMMA InMemoryShows ==
    ASSUME NEW index, Tokens(index.tokens), NEW q, KwicQuery(q), ValidOptions(q),
           NEW found, IsFiniteSet(found)
    PROVE  ShowsHits(InMemoryPage(index, q, found), CutOut(SortedInMemory(index, q, found), q),
                     Len(SortedInMemory(index, q, found)))
<1> DEFINE tokens == index.tokens
           keys == NormalizeSortKeys(q.sort)
           kept == IF q.sample > 0 THEN Sample(found, q) ELSE found
           ordered == Sorted(tokens, kept, Context(tokens, kept, 5), keys, q.order, FALSE)
           shown == IF q.sample > 0 THEN ordered ELSE PageOf(ordered, q.page, q.size)
           total == Len(ordered)
           answer == PageAnswer(tokens, q, keys, shown, total, Cardinality(found), kept)
           size == IF q.sample > 0 THEN Higher(1, total) ELSE q.size
<1>1. InMemoryPage(index, q, found) = answer  BY Zenon DEF InMemoryPage
<1>2. q.sample \in Nat  BY DEF ValidOptions, KwicQuery
<1>3. IsFiniteSet(kept)  BY <1>2, SampleFinite, Zenon
<1>4. SortedInMemory(index, q, found) = ordered  BY Zenon DEF SortedInMemory
<1>5. shown = CutOut(ordered, q)  BY Zenon DEF CutOut
<1> HIDE DEF kept, keys
<1>6. PICK X : ordered \in Seq(X)  BY <1>3, SortedIsSequence, Zenon
<1> HIDE DEF ordered
<1>7. Displays(answer, shown, total,
               IF q.sample > 0 THEN 1 ELSE EffectivePage(q.page, NumPages(total, size)), NumPages(total, size))
  <2> HIDE DEF shown, total
  <2> QED BY PageAnswerDisplays, Zenon
<1> HIDE DEF answer, shown
<1>8. HitsOf(answer.hits) = HitsOf(shown) /\ answer.total = total
  BY <1>5, <1>6, CutOutIsSequence, <1>7, DisplaysHits, Zenon DEF Displays
<1> QED BY <1>1, <1>4, <1>5, <1>8, Zenon DEF ShowsHits

\* The CQP search shows its page of the matches of its plan sorted in SQL.
LEMMA ComplexShows ==
    ASSUME NEW index, Tokens(index.tokens), NEW q, KwicQuery(q), ValidOptions(q), q.sample = 0,
           ParseQuery(q.items) # <<>>, NEW found, found = PlanMatches(index.tokens, q.lang, ParseQuery(q.items), q.tag),
           IsFiniteSet(found)
    PROVE  HitsOf(SearchComplex(index, q).hits) = HitsOf(CutOut(SortedInSql(index, q, found), q))
<1> DEFINE tokens == index.tokens
           plan == ParseQuery(q.items)
           keys == NormalizeSortKeys(q.sort)
           ordered == Sorted(tokens, found, DOMAIN tokens, keys, q.order, TRUE)
           shown == PageOf(ordered, q.page, q.size)
           whole == [q EXCEPT !.sample = 0]
           total == Cardinality(found)
           answer == PageAnswer(tokens, whole, keys, shown, total, 0, {})
           uncounted == [answer EXCEPT !.hits = [i \in DOMAIN shown |-> [answer.hits[i] EXCEPT !.kpf = 1]]]
           page == IF whole.sample > 0 THEN 1 ELSE EffectivePage(whole.page, NumPages(total, whole.size))
           size == IF whole.sample > 0 THEN Higher(1, total) ELSE whole.size
           pageOfSize == IF whole.sample > 0 THEN 1 ELSE EffectivePage(whole.page, NumPages(total, size))
<1>1. SearchComplex(index, q) = uncounted
  <2> DEFINE Answer(f) ==
          LET shown1 == PageOf(Sorted(tokens, f, DOMAIN tokens, keys, q.order, TRUE), q.page, q.size)
              answer1 == PageAnswer(tokens, whole, keys, shown1, Cardinality(f), 0, {})
          IN  [answer1 EXCEPT !.hits = [i \in DOMAIN shown1 |-> [answer1.hits[i] EXCEPT !.kpf = 1]]]
  <2>1. SearchComplex(index, q) = Answer(PlanMatches(tokens, q.lang, plan, q.tag))  BY Zenon DEF SearchComplex
  <2>2. uncounted = Answer(found)  BY Zenon
  <2> HIDE DEF Answer, uncounted
  <2> QED BY <2>1, <2>2, Zenon
<1>2. ~(q.sample > 0)  OBVIOUS
<1>3. shown = CutOut(SortedInSql(index, q, found), q)  BY <1>2, Zenon DEF CutOut, SortedInSql
<1> HIDE DEF keys, whole
<1>4. PICK X : ordered \in Seq(X)  BY SortedIsSequence, Zenon
<1> HIDE DEF ordered
<1>5. shown \in Seq(X)
  <2>1. shown = CutOut(ordered, q)  BY <1>2, Zenon DEF CutOut
  <2> HIDE DEF shown
  <2> QED BY <1>4, CutOutIsSequence, <2>1, Zenon
<1> HIDE DEF shown, total
<1>6. Displays(answer, shown, total, pageOfSize, NumPages(total, size))  BY PageAnswerDisplays, Zenon
<1> HIDE DEF answer, pageOfSize, size
<1>7. Displays(uncounted, shown, total, pageOfSize, NumPages(total, size))  BY <1>6, DisplaysUncounted, Zenon
<1> HIDE DEF uncounted
<1> QED BY <1>1, <1>3, <1>5, <1>7, DisplaysHits, Zenon

\* A query of the simple search: one list of terms, no context words.
Plain(q) ==
    /\ KwicQuery(q) /\ ValidOptions(q) /\ ~Unsound(q)
    /\ q.mode = "simple" /\ q.list = <<>> /\ q.near = <<>>

\* Its matches.
PlainMatches(index, q) == Matches(index.tokens, q.lang, ResolvedTerms(index.tokens, q, q.terms), q.tag)

\* A query that is compiled has terms.
LEMMA PlainHasTerms ==
    ASSUME NEW q, Plain(q)
    PROVE  q.terms # <<>> /\ CompileQuery(q.terms, q) # <<>> /\ ~InMemory(q)
<1>1. ~InMemory(q) /\ q.mode # "cqp" /\ q.mode # "full_regex"  BY DEF Plain, InMemory
<1>2. CompileQuery(<<>>, q) = <<>>  BY NoWordsNoQuery, Zenon
<1> QED BY <1>1, <1>2, Zenon DEF Plain, Unsound

\* The advanced search finds the same matches for it (search_advanced).
LEMMA AdvancedOfPlain ==
    ASSUME NEW index, NEW q, Plain(q), q.windowFrom <= q.windowTo
    PROVE  SearchAdvanced(index, q) = InMemoryPage(index, q, PlainMatches(index, q))
<1> DEFINE queries == ({q.terms} \cup ToSet(q.list)) \ {<<>>}
           of(t) == Matches(index.tokens, q.lang, ResolvedTerms(index.tokens, q, t), q.tag)
<1>1. q.terms # <<>> /\ CompileQuery(q.terms, q) # <<>>  BY PlainHasTerms, Zenon
<1>2. ValidOptions(q) /\ q.list = <<>> /\ q.near = <<>>  BY Zenon DEF Plain
<1>3. queries = {q.terms}
  <2>1. ToSet(<<>>) = {}  BY DEF ToSet
  <2> QED BY <1>1, <1>2, <2>1, Zenon
<1>4. AdvancedMatches(index, q, queries) = UNION {of(t) : t \in queries}  BY <1>2, Zenon DEF AdvancedMatches
<1>5. of(q.terms) = PlainMatches(index, q)  BY Zenon DEF PlainMatches
<1>6. SearchAdvanced(index, q) =
          IF \/ queries = {} \/ ~ValidOptions(q) \/ q.windowFrom > q.windowTo
             \/ ~NearWords(q) \/ \E t \in queries : CompileQuery(t, q) = <<>>
          THEN QueryError ELSE InMemoryPage(index, q, AdvancedMatches(index, q, queries))
  BY Zenon DEF SearchAdvanced
<1>7. NearWords(q)
  <2>1. DOMAIN <<>> = {}  OBVIOUS
  <2> QED BY <1>2, <2>1, Zenon DEF NearWords
<1> HIDE DEF queries, of
<1>8. ~(q.windowFrom > q.windowTo) => SearchAdvanced(index, q) = InMemoryPage(index, q, AdvancedMatches(index, q, queries))
  BY <1>2, <1>6, <1>1, <1>3, <1>7, Zenon
<1>9. AdvancedMatches(index, q, queries) = PlainMatches(index, q)  BY <1>3, <1>4, <1>5, Zenon
<1>10. ~(q.windowFrom > q.windowTo)
  <2>1. q.windowFrom \in Int /\ q.windowTo \in Int  BY Zenon DEF Plain, KwicQuery
  <2> QED BY <2>1
<1> QED BY <1>8, <1>9, <1>10, Zenon

-----------------------------------------------------------------------------
(* A phrase of plain words *)

\* The quoted phrase of the terms of a query, in CQP.
PhraseOf(q) == <<[kind |-> "quoted", terms |-> q.terms]>>

FilterOf(term) == [on |-> "word", term |-> term, whole |-> TRUE]

\* What a matcher of whole words in any case accepts, the filter of its term accepts (compile_token_filter).
LEMMA FilterIsMatcher ==
    ASSUME NEW term, NEW q, q.whole, ~q.case, NEW word
    PROVE  FilterAccepts(FilterOf(term), word) <=> Accepts(Matcher(term, q), word.text)
<1> DEFINE f == FilterOf(term)
           m == [term |-> f.term, whole |-> f.whole, case |-> FALSE]
           n == Matcher(term, q)
           Variants == IF term \in DOMAIN Pattern THEN Pattern[term] ELSE {term}
<1>1. f.on = "word" /\ f.term = term /\ f.whole  BY DEF FilterOf
<1>2. FilterAccepts(f, word) <=> Accepts(m, word.text)  BY <1>1 DEF FilterAccepts
<1>3. m.term = term /\ m.whole /\ ~m.case  BY <1>1
<1>4. n.term = term /\ n.whole = q.whole /\ n.case = q.case  BY DEF Matcher
<1> HIDE DEF f, m, n
<1>5. \A r, v : ~r.case => Seen(r, v) = Normal[v]  BY Zenon DEF Seen
<1>6. Accepts(m, word.text) <=> \E v \in Variants : Normal[v] = Normal[word.text]
  <2>1. \A v : Seen(m, v) = Normal[v]  BY <1>3, <1>5, Zenon
  <2> QED BY <1>3, <2>1, Zenon DEF Accepts
<1>7. Accepts(n, word.text) <=> \E v \in Variants : Normal[v] = Normal[word.text]
  <2>1. \A v : Seen(n, v) = Normal[v]  BY <1>4, <1>5, Zenon
  <2> QED BY <1>4, <2>1, Zenon DEF Accepts
<1> QED BY <1>2, <1>6, <1>7, Zenon DEF f, n

\* A phrase of as many terms as a query may have is one filter for each term (parse_query).
LEMMA PlanOfPhrase ==
    ASSUME NEW q, IsList(q.terms), NEW words, words = Segmented(q.terms), ~(Len(words) > MaxQueryTerms)
    PROVE  ParseQuery(PhraseOf(q)) = [i \in DOMAIN words |-> FilterOf(words[i])]
<1> DEFINE items == PhraseOf(q)
           item == [kind |-> "quoted", terms |-> q.terms]
           filters == [i \in DOMAIN words |-> FilterOf(words[i])]
           seqs == [i \in DOMAIN items |-> ParsedItem(items[i])]
<1>1. DOMAIN items = 1..1 /\ items[1] = item  BY DEF PhraseOf
<1>2. item.kind = "quoted" /\ item.terms = q.terms  OBVIOUS
<1> HIDE DEF item
<1>3. ParsedItem(item) = filters
  <2>1. item.kind \in {"quoted", "bare"}  BY <1>2
  <2> QED BY <1>2, <2>1, Zenon DEF FilterOf, ParsedItem
<1> HIDE DEF items
<1>4. seqs = [i \in 1..1 |-> filters]
  <2>1. \A i \in 1..1 : i = 1  OBVIOUS
  <2> HIDE DEF filters
  <2>2. seqs = [i \in DOMAIN items |-> filters]  BY <1>1, <1>3, <2>1, Zenon
  <2> HIDE DEF seqs
  <2> QED BY <1>1, <2>2
<1>5. Len(filters) = Len(words)
  <2>1. Len(words) \in Nat /\ DOMAIN words = 1..Len(words)
    BY SegmentedIsSequence, SequenceNumbered, Zenon DEF Numbered
  <2>2. DOMAIN filters = 1..Len(words) /\ filters = [i \in 1..Len(words) |-> filters[i]]  BY <2>1, Zenon
  <2> HIDE DEF filters
  <2> QED BY <2>1, <2>2, NumberedFunction, Zenon
<1> HIDE DEF filters
<1>6. ParseQuery(items) = IF Len(FlattenSeq(seqs)) > MaxQueryTerms \/ \E i \in DOMAIN items : items[i].kind = "malformed"
                          THEN <<>> ELSE FlattenSeq(seqs)
  BY Zenon DEF ParseQuery
<1> HIDE DEF seqs
<1>7. ~\E i \in DOMAIN items : items[i].kind = "malformed"
  <2>1. \A i \in 1..1 : items[i] = item  BY <1>1
  <2>2. item.kind # "malformed"  BY <1>2
  <2> QED BY <1>1, <2>1, <2>2, Zenon
<1>8. ~(Len(filters) > MaxQueryTerms)  BY <1>5
<1> QED BY <1>4, FlattenOne, <1>6, <1>7, <1>8, Zenon DEF items, filters

\* Whole words in English, none of them a wildcard.
PlainWords(q) == q.whole /\ ~q.case /\ q.lang = "en" /\ ToSet(q.terms) \cap DOMAIN Pattern = {}

\* Such a query finds what its phrase finds.
LEMMA PhraseFindsTheSame ==
    ASSUME NEW index, NEW q, Plain(q), PlainWords(q)
    PROVE  /\ ParseQuery(PhraseOf(q)) # <<>>
           /\ PlanMatches(index.tokens, q.lang, ParseQuery(PhraseOf(q)), q.tag) = PlainMatches(index, q)
<1> DEFINE tokens == index.tokens
           terms == Segmented(q.terms)
           matchers == [i \in DOMAIN terms |-> Matcher(terms[i], q)]
           filters == [i \in DOMAIN terms |-> FilterOf(terms[i])]
<1>1. IsList(q.terms)  BY Zenon DEF Plain, KwicQuery, SoundLists
<1>2. Len(terms) \in Nat /\ DOMAIN terms = 1..Len(terms)
  BY <1>1, SegmentedIsSequence, SequenceNumbered, Zenon DEF Numbered
<1>3. CompileQuery(q.terms, q) # <<>>  BY PlainHasTerms, Zenon
<1>4. CompileQuery(q.terms, q) = IF Len(terms) > MaxQueryTerms THEN <<>> ELSE matchers
  BY Zenon DEF CompileQuery
<1> HIDE DEF matchers, filters
<1>5. CompileQuery(q.terms, q) = matchers /\ ~(Len(terms) > MaxQueryTerms)  BY <1>3, <1>4, Zenon
<1>6. ResolvedTerms(tokens, q, q.terms) = matchers
  <2>1. q.lang # "zh"  BY DEF PlainWords
  <2> HIDE DEF terms, tokens
  <2> QED BY <1>5, <2>1, Zenon DEF ResolvedTerms
<1>7. /\ DOMAIN filters = DOMAIN terms /\ DOMAIN matchers = DOMAIN terms
      /\ Len(filters) = Len(terms) /\ Len(matchers) = Len(terms)
  <2> HIDE DEF terms
  <2> QED BY <1>2, NumberedFunction, Zenon DEF filters, matchers
<1>8. \A i \in DOMAIN terms : \A word : FilterAccepts(filters[i], word) <=> Accepts(matchers[i], word.text)
  BY FilterIsMatcher, Zenon DEF filters, matchers, PlainWords
<1>9. filters # <<>>
  <2>1. Len(filters) # 0
    <3> HIDE DEF terms
    <3>1. terms = <<>> => matchers = <<>>  BY DEF matchers
    <3>2. Len(terms) # 0
      <4>1. PICK X : terms \in Seq(X)  BY <1>1, SegmentedIsSequence, Zenon DEF terms
      <4> QED BY <1>3, <1>5, <3>1, <4>1
    <3> QED BY <1>7, <3>2, Zenon
  <2> QED BY <2>1
<1> DEFINE ByPlan == {h \in DOMAIN tokens :
                      /\ tokens[h].word.lang = q.lang
                      /\ q.tag # "" => tokens[h].word.tag = q.tag
                      /\ \A i \in DOMAIN filters : \E k \in Beside(tokens, h, i - 1) :
                              FilterAccepts(filters[i], tokens[k].word)}
           ByTerms == {h \in DOMAIN tokens :
                      /\ tokens[h].word.lang = q.lang
                      /\ q.tag # "" => tokens[h].word.tag = q.tag
                      /\ \A i \in DOMAIN matchers : \E k \in Beside(tokens, h, i - 1) :
                              Accepts(matchers[i], tokens[k].word.text)}
<1>10. ByPlan = ByTerms
  <2> HIDE DEF terms
  <2> QED BY <1>7, <1>8, Zenon
<1>11. PlanMatches(tokens, q.lang, filters, q.tag) = {MatchOf(tokens, g, Len(filters)) : g \in ByPlan}
  BY Zenon DEF PlanMatches
<1>12. Matches(tokens, q.lang, matchers, q.tag) = {MatchOf(tokens, g, Len(matchers)) : g \in ByTerms}
  BY Zenon DEF Matches
<1> HIDE DEF ByPlan, ByTerms
<1>13. PlanMatches(tokens, q.lang, filters, q.tag) = Matches(tokens, q.lang, matchers, q.tag)
  BY <1>10, <1>11, <1>12, <1>7, Zenon
<1> QED
  <2>1. ParseQuery(PhraseOf(q)) = filters  BY <1>1, <1>5, PlanOfPhrase, Zenon DEF filters
  <2> QED BY <2>1, <1>9, <1>13, <1>6, Zenon DEF PlainMatches

-----------------------------------------------------------------------------
(* The engines agree *)

\* Sequences that arrange the same matches have the same hits.
LEMMA SameMatchesSameHits ==
    ASSUME NEW S, NEW s, Arranges(s, S), NEW t, Arranges(t, S)
    PROVE  Len(s) = Len(t) /\ ToSet(HitsOf(s)) = ToSet(HitsOf(t))
<1> DEFINE hits == {[row |-> m.row, length |-> m.length] : m \in S}
<1>1. ASSUME NEW u, Arranges(u, S) PROVE ToSet(HitsOf(u)) = hits
  <2>1. /\ DOMAIN u = 1..Len(u)
        /\ \A i \in 1..Len(u) : u[i] \in S
        /\ \A x \in S : \E i \in 1..Len(u) : u[i] = x
    BY <1>1, LenProperties, ElementOfSeq, Zenon DEF Arranges
  <2>2. HitsOf(u) = [i \in DOMAIN u |-> [row |-> u[i].row, length |-> u[i].length]]  BY Zenon DEF HitsOf
  <2>3. ToSet(HitsOf(u)) = {[row |-> u[i].row, length |-> u[i].length] : i \in DOMAIN u}
    <3> DEFINE Hit(i) == [row |-> u[i].row, length |-> u[i].length]
               f == [i \in DOMAIN u |-> Hit(i)]
    <3>1. DOMAIN f = DOMAIN u /\ \A i \in DOMAIN u : f[i] = Hit(i)  BY Zenon
    <3>2. HitsOf(u) = f  BY <2>2, Zenon
    <3> HIDE DEF f, Hit
    <3>3. ToSet(f) = {Hit(i) : i \in DOMAIN u}  BY <3>1 DEF ToSet
    <3> QED BY <3>2, <3>3, Zenon DEF Hit
  <2> DEFINE Hit(m) == [row |-> m.row, length |-> m.length]
  <2>4. ToSet(HitsOf(u)) = {Hit(u[i]) : i \in DOMAIN u}  BY <2>3, Zenon
  <2>5. hits = {Hit(m) : m \in S}  BY Zenon
  <2> HIDE DEF Hit, hits
  <2>6. {Hit(u[i]) : i \in DOMAIN u} = {Hit(m) : m \in S}  BY <2>1
  <2> QED BY <2>4, <2>5, <2>6, Zenon
<1> QED BY <1>1, Zenon DEF Arranges

\* Matches of one query are as long as the query.
LEMMA PlainArePlaced ==
    ASSUME NEW index, Tokens(index.tokens), NEW q, KwicQuery(q)
    PROVE  /\ WellPlaced(index.tokens, PlainMatches(index, q))
           /\ \A m \in PlainMatches(index, q) : m.length = Len(ResolvedTerms(index.tokens, q, q.terms))
<1>1. Numbered(ResolvedTerms(index.tokens, q, q.terms))  BY ResolvedNumbered, Zenon DEF KwicQuery, SoundLists
<1>2. \A m \in Matches(index.tokens, q.lang, ResolvedTerms(index.tokens, q, q.terms), q.tag) :
          m.length = Len(ResolvedTerms(index.tokens, q, q.terms))
  BY <1>1, MatchesAreMatches, SMT
<1> QED BY <1>1, MatchesAreMatches, MatchesArePlaced, <1>2, Zenon DEF PlainMatches

\* A file's name is sorted alike by SQL and in memory, and counted alike if it is counted.
FileAlike(d, e, order) ==
    /\ FileRank[d] = FoldedRank[d]
    /\ order = "frequency" => (FoldedRank[d] = FoldedRank[e] <=> FileName[d] = FileName[e])

\* Two matches count as one in SQL if they do in memory.
CountedTogether(tokens, m, n, loaded, k) ==
    CountedValue(tokens, loaded, n, k, FALSE) = CountedValue(tokens, loaded, m, k, FALSE) <=>
    CountedValue(tokens, DOMAIN tokens, n, k, TRUE) = CountedValue(tokens, DOMAIN tokens, m, k, TRUE)

\* Where all names are, matches are counted together by one key in SQL if they are in memory.
LEMMA SameCountedInSql ==
    ASSUME NEW tokens, NEW m, NEW n, NEW loaded, NEW k,
           \A a \in {m, n} : SortValue(tokens, loaded, a, k, FALSE) = SortValue(tokens, DOMAIN tokens, a, k, TRUE),
           k.by = "FILE" => FileAlike(tokens[m.row].word.doc, tokens[n.row].word.doc, "frequency")
    PROVE  CountedTogether(tokens, m, n, loaded, k)
<1> DEFINE M(a) == SortValue(tokens, loaded, a, k, FALSE)
           S(a) == SortValue(tokens, DOMAIN tokens, a, k, TRUE)
           Doc(a) == tokens[a.row].word.doc
<1>1. \A a : CountedValue(tokens, loaded, a, k, FALSE) = M(a)  BY Zenon DEF CountedValue
<1>2. CASE k.by # "FILE"
  <2>1. \A a : CountedValue(tokens, DOMAIN tokens, a, k, TRUE) = S(a)  BY <1>2, Zenon DEF CountedValue
  <2>2. M(m) = S(m) /\ M(n) = S(n)  BY Zenon
  <2> HIDE DEF M, S
  <2> QED BY <1>1, <2>1, <2>2 DEF CountedTogether
<1>3. CASE k.by = "FILE"
  <2>1. \A a : CountedValue(tokens, DOMAIN tokens, a, k, TRUE) = <<FileName[Doc(a)]>>
    BY <1>3, Zenon DEF CountedValue
  <2>2. \A a : M(a) = <<FoldedRank[Doc(a)]>>
    <3>1. k.by # "ROW_ID"  BY <1>3
    <3> QED BY <1>3, <3>1, Zenon DEF SortValue, FilePlace
  <2>3. FoldedRank[Doc(m)] = FoldedRank[Doc(n)] <=> FileName[Doc(m)] = FileName[Doc(n)]
    BY <1>3, Zenon DEF FileAlike
  <2> DEFINE In(a) == CountedValue(tokens, loaded, a, k, FALSE)
             Sql(a) == CountedValue(tokens, DOMAIN tokens, a, k, TRUE)
  <2>4. \A a : In(a) = <<FoldedRank[Doc(a)]>> /\ Sql(a) = <<FileName[Doc(a)]>>  BY <1>1, <2>1, <2>2, Zenon
  <2> HIDE DEF M, S, Doc, In, Sql
  <2>5. In(n) = In(m) <=> Sql(n) = Sql(m)
    <3>1. In(n) = In(m) <=> FoldedRank[Doc(n)] = FoldedRank[Doc(m)]  BY <2>4
    <3>2. Sql(n) = Sql(m) <=> FileName[Doc(n)] = FileName[Doc(m)]  BY <2>4
    <3> QED BY <2>3, <3>1, <3>2
  <2> QED BY <2>5, Zenon DEF CountedTogether, In, Sql
<1> QED BY <1>2, <1>3, Zenon

\* The documents of matches are among those whose names are alike.
LEMMA FilesOfMatches ==
    ASSUME NEW tokens, Tokens(tokens), NEW q, FilesAlike(tokens, q), NEW i \in DOMAIN q.sort, q.sort[i].by = "FILE",
           NEW m, m.row \in DOMAIN tokens, NEW n, n.row \in DOMAIN tokens
    PROVE  FileAlike(tokens[m.row].word.doc, tokens[n.row].word.doc, q.order)
<1> DEFINE d == tokens[m.row].word.doc
           e == tokens[n.row].word.doc
<1>1. /\ FileRank[d] = FoldedRank[d]
      /\ q.order = "frequency" /\ FoldedRank[d] = FoldedRank[e] => FileName[d] = FileName[e]
  BY Zenon DEF FilesAlike
<1>2. tokens[m.row].word \in WordRecords /\ tokens[n.row].word \in WordRecords  BY StreamsIncrease, Zenon
<1>3. d \in DOMAIN FileName /\ e \in DOMAIN FileName  BY <1>2 DEF WordRecords
<1>4. FileName[d] = FileName[e] => FoldedRank[d] = FoldedRank[e]  BY <1>3, NamesAssumption, Zenon
<1> QED BY <1>1, <1>4, Zenon DEF FileAlike

\* Then the order in memory (_sort_matches_in_memory) is that of SQL (_sort_clauses).
LEMMA MemorySortsAsSql ==
    ASSUME NEW tokens, Tokens(tokens), NEW found, WellPlaced(tokens, found),
           NEW q, IsList(q.sort), \A k \in ToSet(q.sort) : SortKey(k), WordsAlike(tokens, q), FilesAlike(tokens, q),
           \A m \in found : m.length = Len(ResolvedTerms(tokens, q, q.terms))
    PROVE  Sorted(tokens, found, Context(tokens, found, 5), NormalizeSortKeys(q.sort), q.order, FALSE) =
           Sorted(tokens, found, DOMAIN tokens, NormalizeSortKeys(q.sort), q.order, TRUE)
<1> DEFINE keys == NormalizeSortKeys(q.sort)
           loaded == Context(tokens, found, 5)
           words == Len(ResolvedTerms(tokens, q, q.terms))
<1>1. \A m \in found : m.row \in DOMAIN tokens /\ m.length \in Nat  BY Zenon DEF WellPlaced, Along
<1> HIDE DEF words
<1>2. \A i \in DOMAIN keys :
          /\ ChosenKey(keys[i]) /\ (words = 1 \/ keys[i].by # "C")
          /\ keys[i].by = "FILE" => \A m, n \in found : FileAlike(tokens[m.row].word.doc, tokens[n.row].word.doc, q.order)
  <2> TAKE i \in DOMAIN keys
  <2>1. PICK j \in DOMAIN q.sort : keys[i] = q.sort[j] /\ q.sort[j].by # ""  BY KeysAreChosen, Zenon
  <2>2. ChosenKey(keys[i]) /\ (words = 1 \/ keys[i].by # "C")
    BY <2>1, ElementOfList, Zenon DEF WordsAlike, SortKey, ChosenKey, words
  <2>3. keys[i].by = "FILE" => \A m, n \in found : FileAlike(tokens[m.row].word.doc, tokens[n.row].word.doc, q.order)
    BY <2>1, <1>1, FilesOfMatches, Zenon
  <2> HIDE DEF keys
  <2> QED BY <2>2, <2>3, Zenon
<1> HIDE DEF keys
<1>3. \A m \in found : \A k : ChosenKey(k) => SortValue(tokens, loaded, m, k, FALSE) = SortValue(tokens, DOMAIN tokens, m, k, FALSE)
  <2> SUFFICES ASSUME NEW m \in found, NEW k, ChosenKey(k)
               PROVE  SortValue(tokens, loaded, m, k, FALSE) = SortValue(tokens, DOMAIN tokens, m, k, FALSE)
    BY Zenon
  <2> DEFINE radius == 5
  <2>1. radius \in Nat /\ radius >= 5 /\ m.length \in Nat  BY <1>1
  <2> HIDE DEF radius
  <2>2. LoadedFor(tokens, Context(tokens, found, radius), m, k, FALSE)  BY <2>1, SameValueLoaded, Zenon
  <2> QED BY <2>2, Zenon DEF LoadedFor, radius
<1>4. \A m \in found : \A k :
          (m.length = 1 \/ k.by # "C") /\ (k.by = "FILE" => FileRank[tokens[m.row].word.doc] = FoldedRank[tokens[m.row].word.doc]) =>
          SortValue(tokens, DOMAIN tokens, m, k, TRUE) = SortValue(tokens, DOMAIN tokens, m, k, FALSE)
  BY <1>1, SameValueInSql, Zenon
<1> HIDE DEF loaded
<1>5. \A m \in found : \A i \in DOMAIN keys :
          SortValue(tokens, loaded, m, keys[i], FALSE) = SortValue(tokens, DOMAIN tokens, m, keys[i], TRUE)
  <2> TAKE m \in found
  <2> TAKE i \in DOMAIN keys
  <2>1. m.length = 1 \/ keys[i].by # "C"  BY <1>2, Zenon DEF words
  <2>2. keys[i].by = "FILE" => FileRank[tokens[m.row].word.doc] = FoldedRank[tokens[m.row].word.doc]
    BY <1>2, Zenon DEF FileAlike
  <2> QED BY <1>2, <1>3, <1>4, <2>1, <2>2, Zenon
<1>6. \A m \in found : SortValues(tokens, loaded, m, keys, FALSE) = SortValues(tokens, DOMAIN tokens, m, keys, TRUE)
  <2> TAKE m \in found
  <2> DEFINE A(k) == SortValue(tokens, loaded, m, k, FALSE)
             B(k) == SortValue(tokens, DOMAIN tokens, m, k, TRUE)
  <2>1. SortValues(tokens, loaded, m, keys, FALSE) = [i \in DOMAIN keys |-> A(keys[i])]
    BY Zenon DEF SortValues
  <2>2. SortValues(tokens, DOMAIN tokens, m, keys, TRUE) = [i \in DOMAIN keys |-> B(keys[i])]
    BY Zenon DEF SortValues
  <2>3. \A i \in DOMAIN keys : A(keys[i]) = B(keys[i])  BY <1>5, Zenon
  <2> HIDE DEF A, B
  <2>4. [i \in DOMAIN keys |-> A(keys[i])] = [i \in DOMAIN keys |-> B(keys[i])]  BY <2>3
  <2> QED BY <2>1, <2>2, <2>4, Zenon
<1>7. ASSUME q.order = "frequency", NEW m \in found, NEW n \in found
      PROVE  CountedValues(tokens, loaded, n, keys, FALSE) = CountedValues(tokens, loaded, m, keys, FALSE) <=>
             CountedValues(tokens, DOMAIN tokens, n, keys, TRUE) = CountedValues(tokens, DOMAIN tokens, m, keys, TRUE)
  <2> DEFINE A(a, i) == CountedValue(tokens, loaded, a, keys[i], FALSE)
             B(a, i) == CountedValue(tokens, DOMAIN tokens, a, keys[i], TRUE)
  <2>1. \A a : CountedValues(tokens, loaded, a, keys, FALSE) = [i \in DOMAIN keys |-> A(a, i)]
    BY Zenon DEF CountedValues
  <2>2. \A a : CountedValues(tokens, DOMAIN tokens, a, keys, TRUE) = [i \in DOMAIN keys |-> B(a, i)]
    BY Zenon DEF CountedValues
  <2>3. \A i \in DOMAIN keys : A(n, i) = A(m, i) <=> B(n, i) = B(m, i)
    <3> TAKE i \in DOMAIN keys
    <3>1. \A a \in {m, n} : SortValue(tokens, loaded, a, keys[i], FALSE) = SortValue(tokens, DOMAIN tokens, a, keys[i], TRUE)
      BY <1>5
    <3>2. keys[i].by = "FILE" => FileAlike(tokens[m.row].word.doc, tokens[n.row].word.doc, "frequency")
      BY <1>2, <1>7, Zenon
    <3>3. CountedTogether(tokens, m, n, loaded, keys[i])  BY <3>1, <3>2, SameCountedInSql, Zenon
    <3> QED BY <3>3 DEF CountedTogether
  <2> DEFINE FA(a) == [i \in DOMAIN keys |-> A(a, i)]
             FB(a) == [i \in DOMAIN keys |-> B(a, i)]
  <2> HIDE DEF A, B
  <2>4. FA(n) = FA(m) <=> \A i \in DOMAIN keys : A(n, i) = A(m, i)  OBVIOUS
  <2>5. FB(n) = FB(m) <=> \A i \in DOMAIN keys : B(n, i) = B(m, i)  OBVIOUS
  <2>6. FA(n) = FA(m) <=> FB(n) = FB(m)
    <3> HIDE DEF FA, FB
    <3> QED BY <2>3, <2>4, <2>5
  <2>7. /\ CountedValues(tokens, loaded, n, keys, FALSE) = FA(n) /\ CountedValues(tokens, loaded, m, keys, FALSE) = FA(m)
        /\ CountedValues(tokens, DOMAIN tokens, n, keys, TRUE) = FB(n) /\ CountedValues(tokens, DOMAIN tokens, m, keys, TRUE) = FB(m)
    BY <2>1, <2>2, Zenon
  <2> HIDE DEF FA, FB
  <2> QED BY <2>6, <2>7, Zenon
<1>8. Sorted(tokens, found, loaded, keys, q.order, FALSE) = Sorted(tokens, found, DOMAIN tokens, keys, q.order, TRUE)
  <2>1. GroupedAlike(tokens, found, keys, q.order, loaded, FALSE, DOMAIN tokens, TRUE)
    BY <1>7, Zenon DEF GroupedAlike
  <2>2. SortedAlike(tokens, found, keys, q.order, loaded, FALSE, DOMAIN tokens, TRUE)
    BY <1>6, <2>1, SameValuesSortAlike, Zenon DEF ValuesAlike
  <2> QED BY <2>2, Zenon DEF SortedAlike
<1> QED BY <1>8, Zenon DEF keys, loaded

\* The simple search shows its page of the matches in order, or the sample.
LEMMA PlainShows ==
    ASSUME NEW index, Tokens(index.tokens), NEW q, Plain(q), NEW answer, answer = KwicSearch(index, q), ~IsError(answer)
    PROVE  ShowsHits(answer, CutOut(Shown(index, q), q), Len(Shown(index, q)))
<1>1. KwicQuery(q) /\ ValidOptions(q) /\ q.mode # "cqp"  BY DEF Plain
<1>2. q.sample \in Nat  BY <1>1 DEF KwicQuery, ValidOptions
<1>3. Answers(index, q, answer)  BY <1>1, KwicSearchAnswers, Zenon
<1>4. PICK matches : Arranges(Shown(index, q), matches)  BY <1>1, ShownArranged, Zenon
<1>5. \E total, page, pages : Displays(answer, CutOut(Shown(index, q), q), total, page, pages)
  <2>1. CASE q.sample = 0
    <3>1. ~(q.sample > 0)  BY <2>1
    <3> QED BY <2>1, <3>1, <1>3, Zenon DEF Shown, CutOut, Answers
  <2>2. CASE q.sample # 0
    <3>1. q.sample > 0  BY <1>2, <2>2
    <3> QED BY <1>1, <2>2, <3>1, <1>3, Zenon DEF Shown, CutOut, Answers
  <2> QED BY <2>1, <2>2, Zenon
<1>6. HitsOf(answer.hits) = HitsOf(CutOut(Shown(index, q), q))
  BY <1>1, <1>4, CutOutIsSequence, <1>5, DisplaysHits, Zenon DEF Arranges
<1> QED BY <1>1, TurnedAreShown, <1>6, Zenon DEF ShowsHits

\* What the simple search finds for a plain query, and in which order it shows it.
LEMMA PlainOrder ==
    ASSUME NEW index, NEW q, Plain(q), NEW found, found = PlainMatches(index, q)
    PROVE  /\ Found(index, q) = found
           /\ q.sample = 0 => Shown(index, q) = SearchOrder(index, q) /\ SearchOrder(index, q) = SortedInSql(index, q, found)
           /\ q.sample # 0 => Shown(index, q) = SampledOrder(index, q)
           /\ q.sample > 0 /\ NormalizeSortKeys(q.sort) # <<>> => SampledOrder(index, q) = SortedInMemory(index, q, found)
<1>1. q.mode # "cqp" /\ q.mode # "full_regex" /\ ~(q.mode = "simple" /\ (q.list # <<>> \/ q.near # <<>>))
  BY DEF Plain
<1>2. Found(index, q) = found  BY <1>1, Zenon DEF Found, PlainMatches
<1>3. ~InMemory(q)  BY PlainHasTerms, Zenon
<1>4. SearchOrder(index, q) = SortedInSql(index, q, found)
  <2>1. SearchOrder(index, q) =
          Sorted(index.tokens, Found(index, q), DOMAIN index.tokens, NormalizeSortKeys(q.sort), q.order, ~InMemory(q))
    BY <1>3, Zenon DEF SearchOrder
  <2>2. SortedInSql(index, q, Found(index, q)) =
          Sorted(index.tokens, Found(index, q), DOMAIN index.tokens, NormalizeSortKeys(q.sort), q.order, TRUE)
    BY Zenon DEF SortedInSql
  <2> QED BY <1>2, <1>3, <2>1, <2>2
<1>5. ASSUME q.sample > 0, NormalizeSortKeys(q.sort) # <<>>
      PROVE  SampledOrder(index, q) = SortedInMemory(index, q, found)
  <2> DEFINE Order(kept) ==
          Sorted(index.tokens, kept, Context(index.tokens, kept, 5), NormalizeSortKeys(q.sort), q.order, FALSE)
  <2>1. SampledOrder(index, q) = Order(Sample(Found(index, q), q))  BY <1>5, Zenon DEF SampledOrder
  <2>2. SortedInMemory(index, q, found) = Order(Sample(found, q))  BY <1>5, Zenon DEF SortedInMemory
  <2> HIDE DEF Order
  <2> QED BY <1>2, <2>1, <2>2, Zenon
<1> QED BY <1>2, <1>4, <1>1, <1>5, Zenon DEF Shown

\* Both searches arrange the same matches: all that were found, or the sample of them.
LEMMA MemoryArrangesShown ==
    ASSUME NEW index, Tokens(index.tokens), NEW q, Plain(q), NEW found, found = PlainMatches(index, q)
    PROVE  \E kept : Arranges(SortedInMemory(index, q, found), kept) /\ Arranges(Shown(index, q), kept)
<1> DEFINE tokens == index.tokens
           kept == IF q.sample > 0 THEN Sample(found, q) ELSE found
           keys == NormalizeSortKeys(q.sort)
           loaded == Context(tokens, kept, 5)
           ordered == Sorted(tokens, kept, loaded, keys, q.order, FALSE)
<1>1. KwicQuery(q) /\ ValidOptions(q)  BY Zenon DEF Plain
<1>2. q.sample \in Nat /\ (q.sample # 0 => q.sample > 0) /\ (q.sample = 0 => ~(q.sample > 0))
  BY <1>1 DEF KwicQuery, ValidOptions
<1>3. Numbered(keys)  BY <1>1, KeysAreList, Zenon DEF KwicQuery, SoundLists
<1>4. Found(index, q) = found  BY PlainOrder, Zenon
<1>5. WellPlaced(tokens, kept) /\ Arranges(Shown(index, q), kept)
  <2>1. CASE q.sample = 0
    <3>1. kept = Found(index, q)  BY <1>2, <1>4, <2>1, Zenon
    <3> HIDE DEF kept
    <3> QED BY <2>1, PlainOrder, <1>1, FoundArePlaced, SearchArranged, <3>1, Zenon
  <2>2. CASE q.sample # 0
    <3>1. kept = Sample(Found(index, q), q)  BY <1>2, <1>4, <2>2, Zenon
    <3> HIDE DEF kept
    <3> QED BY <2>2, PlainOrder, <1>1, <1>2, SampledArranged, <3>1, Zenon
  <2> QED BY <2>1, <2>2, Zenon
<1>6. SortedInMemory(index, q, found) = ordered  BY Zenon DEF SortedInMemory
<1> HIDE DEF kept, keys, loaded
<1>7. Arranges(ordered, kept)  BY <1>3, <1>5, PlacedSortable, SortedArranges, Zenon
<1> QED BY <1>5, <1>6, <1>7, Zenon

\* Queries that both searches answer in one order: without a sample if they
\* sort by the same values, with one if there is a key to sort it by.
OrderedAlike(index, q) ==
    IF q.sample > 0 THEN NormalizeSortKeys(q.sort) # <<>>
    ELSE WordsAlike(index.tokens, q) /\ FilesAlike(index.tokens, q)

\* What is found for such a query is sorted in memory as it is shown.
LEMMA MemoryOrder ==
    ASSUME NEW index, Tokens(index.tokens), NEW q, Plain(q), OrderedAlike(index, q)
    PROVE  SortedInMemory(index, q, PlainMatches(index, q)) = Shown(index, q)
<1> DEFINE tokens == index.tokens
           found == PlainMatches(index, q)
<1>1. KwicQuery(q) /\ ValidOptions(q)  BY Zenon DEF Plain
<1>2. q.sample \in Nat /\ (q.sample # 0 => q.sample > 0) /\ (q.sample = 0 => ~(q.sample > 0))
  BY <1>1 DEF KwicQuery, ValidOptions
<1>3. CASE q.sample # 0
  <2> HIDE DEF found
  <2> QED BY <1>2, <1>3, PlainOrder, Zenon DEF found, OrderedAlike
<1>4. CASE q.sample = 0
  <2>1. SortedInMemory(index, q, found) =
          Sorted(tokens, found, Context(tokens, found, 5), NormalizeSortKeys(q.sort), q.order, FALSE)
    <3> HIDE DEF found
    <3> QED BY <1>2, <1>4, Zenon DEF SortedInMemory
  <2>2. SortedInSql(index, q, found) = Sorted(tokens, found, DOMAIN tokens, NormalizeSortKeys(q.sort), q.order, TRUE)
    <3> HIDE DEF found
    <3> QED BY Zenon DEF SortedInSql
  <2>3. WellPlaced(tokens, found) /\ \A m \in found : m.length = Len(ResolvedTerms(tokens, q, q.terms))
    BY <1>1, PlainArePlaced, Zenon
  <2>4. WordsAlike(tokens, q) /\ FilesAlike(tokens, q)  BY <1>2, <1>4, Zenon DEF OrderedAlike
  <2> HIDE DEF found
  <2>5. Sorted(tokens, found, Context(tokens, found, 5), NormalizeSortKeys(q.sort), q.order, FALSE) =
        Sorted(tokens, found, DOMAIN tokens, NormalizeSortKeys(q.sort), q.order, TRUE)
    BY <2>3, <1>1, <2>4, MemorySortsAsSql, Zenon DEF KwicQuery, SoundLists
  <2> QED BY <2>1, <2>2, <1>4, PlainOrder, <2>5, Zenon DEF found
<1> QED BY <1>3, <1>4, Zenon

\* The answer that the simple search gives to a plain query.
AnswersPlain(index, q, answer) ==
    Tokens(index.tokens) /\ Plain(q) /\ answer = KwicSearch(index, q) /\ ~IsError(answer)

SameHits(advanced, answer) == HitsOf(advanced.hits) = HitsOf(answer.hits)

\* It is that of another search: the same total, the same sample, and the same
\* page if both sort alike.
AnswersAlike(index, q, advanced, answer) ==
    /\ advanced.total = answer.total
    /\ q.sample > 0 => ToSet(HitsOf(advanced.hits)) = ToSet(HitsOf(answer.hits))
    /\ OrderedAlike(index, q) => SameHits(advanced, answer)

\* The advanced search shows for a plain query what the simple search shows.
LEMMA AdvancedAgrees ==
    ASSUME NEW index, NEW q, NEW answer, AnswersPlain(index, q, answer), q.windowFrom <= q.windowTo
    PROVE  AnswersAlike(index, q, SearchAdvanced(index, q), answer)
<1> DEFINE advanced == SearchAdvanced(index, q)
           found == PlainMatches(index, q)
           memory == SortedInMemory(index, q, found)
           shown == Shown(index, q)
<1> USE DEF AnswersPlain
<1>1. KwicQuery(q) /\ ValidOptions(q)  BY Zenon DEF Plain
<1>2. IsFiniteSet(found)  BY <1>1, PlainArePlaced, Zenon DEF WellPlaced
<1>3. advanced = InMemoryPage(index, q, found)  BY AdvancedOfPlain, Zenon
<1>4. \E kept : Arranges(memory, kept) /\ Arranges(shown, kept)  BY MemoryArrangesShown, Zenon
<1>5. OrderedAlike(index, q) => memory = shown  BY MemoryOrder, Zenon
<1>6. ShowsHits(answer, CutOut(shown, q), Len(shown))  BY PlainShows, Zenon
<1>7. ShowsHits(InMemoryPage(index, q, found), CutOut(memory, q), Len(memory))
  <2> HIDE DEF found
  <2> QED BY <1>1, <1>2, InMemoryShows, Zenon
<1> HIDE DEF memory, shown, found, advanced, AnswersPlain
<1>8. HitsOf(answer.hits) = HitsOf(CutOut(shown, q)) /\ answer.total = Len(shown)  BY <1>6, Zenon DEF ShowsHits
<1>9. Len(memory) = Len(shown) /\ ToSet(HitsOf(memory)) = ToSet(HitsOf(shown))
  BY <1>4, SameMatchesSameHits, Zenon
<1>10. q.sample > 0 => CutOut(memory, q) = memory /\ CutOut(shown, q) = shown  BY Zenon DEF CutOut
<1> QED BY <1>5, <1>3, <1>7, <1>8, <1>9, <1>10, Zenon DEF AnswersAlike, SameHits, advanced, ShowsHits

\* The words of a query as one phrase.
WithPhrase(q) == [q EXCEPT !.items = PhraseOf(q)]

\* A query whose words are put to the CQP search as a phrase is the same query otherwise.
LEMMA PhraseIsQuery ==
    ASSUME NEW q, Plain(q), NEW s, s = WithPhrase(q)
    PROVE  /\ KwicQuery(s) /\ ValidOptions(s) /\ s.items = PhraseOf(q)
           /\ \A f \in KwicFields \ {"items"} : s[f] = q[f]
<1>1. KwicFields \subseteq DOMAIN q /\ KwicQuery(q) /\ ValidOptions(q)  BY Zenon DEF Plain, KwicQuery
<1> DEFINE items == PhraseOf(q)
           item == [kind |-> "quoted", terms |-> q.terms]
<1> HIDE DEF items
<1>2. /\ DOMAIN s = DOMAIN q /\ s.items = items
      /\ \A f \in DOMAIN q \ {"items"} : s[f] = q[f]
  BY <1>1 DEF items, WithPhrase, KwicFields
<1>3. \A f \in KwicFields \ {"items"} : s[f] = q[f]  BY <1>1, <1>2, Zenon
<1>4. /\ s.page = q.page /\ s.size = q.size /\ s.sample = q.sample /\ s.seed = q.seed
      /\ s.context = q.context /\ s.windowFrom = q.windowFrom /\ s.windowTo = q.windowTo
      /\ s.terms = q.terms /\ s.list = q.list /\ s.sort = q.sort
  BY <1>3 DEF KwicFields
<1>5. IsList(items) /\ \A i \in ToSet(items) : IsList(i.terms)
  <2>1. items = <<item>>  BY Zenon DEF items, PhraseOf
  <2> DEFINE given == q.terms
  <2>2. item.terms = given  BY Zenon
  <2> HIDE DEF item
  <2>3. ToSet(items) = {item}  BY <2>1 DEF ToSet
  <2>4. items \in Seq({item})  BY <2>1
  <2> QED BY <1>1, <2>2, <2>3, <2>4, Zenon DEF IsList, KwicQuery, SoundLists
<1>6. SoundLists(s)  BY <1>4, <1>1, <1>2, <1>5, Zenon DEF SoundLists, KwicQuery
<1> QED BY <1>2, <1>3, <1>1, <1>4, <1>6, Zenon DEF items, KwicQuery, ValidOptions

\* The CQP search shows for the phrase of plain words what the simple search shows for the words.
LEMMA ComplexAgrees ==
    ASSUME NEW index, NEW q, NEW answer, AnswersPlain(index, q, answer), PlainWords(q), q.sample = 0
    PROVE  SameHits(SearchComplex(index, WithPhrase(q)), answer)
<1> DEFINE s == WithPhrase(q)
           found == PlainMatches(index, q)
<1> USE DEF AnswersPlain
<1>1. /\ KwicQuery(s) /\ ValidOptions(s) /\ s.items = PhraseOf(q)
      /\ \A f \in KwicFields \ {"items"} : s[f] = q[f]
  BY PhraseIsQuery, Zenon
<1> HIDE DEF s
<1>2. s.page = q.page /\ s.size = q.size /\ s.sample = q.sample /\ s.sort = q.sort /\ s.order = q.order
      /\ s.lang = q.lang /\ s.tag = q.tag
  BY <1>1 DEF KwicFields
<1>3. IsFiniteSet(found)  BY PlainArePlaced, Zenon DEF Plain, WellPlaced
<1>4. ParseQuery(s.items) # <<>> /\ found = PlanMatches(index.tokens, s.lang, ParseQuery(s.items), s.tag)
  BY <1>1, <1>2, PhraseFindsTheSame, Zenon
<1>5. Shown(index, q) = SortedInSql(index, q, found)  BY PlainOrder, Zenon
<1> HIDE DEF found
<1>6. HitsOf(SearchComplex(index, s).hits) = HitsOf(CutOut(SortedInSql(index, s, found), s))
  BY <1>1, <1>2, <1>3, <1>4, ComplexShows, Zenon
<1>7. SortedInSql(index, s, found) = SortedInSql(index, q, found)  BY <1>2, Zenon DEF SortedInSql
<1> DEFINE ordered == SortedInSql(index, q, found)
<1>8. CutOut(ordered, s) = CutOut(ordered, q)
  <2> HIDE DEF ordered
  <2> QED BY <1>2, Zenon DEF CutOut
<1> QED BY <1>5, PlainShows, <1>6, <1>7, <1>8, Zenon DEF s, SameHits, ShowsHits

\* A page of the simple search shows what the other engines find for its query.
LEMMA SearchesAgree ==
    ASSUME PagesInvariant
    PROVE  EnginesAgree
<1> SUFFICES ASSUME Shows("kwic"), visit.query.mode = "simple", visit.query.list = <<>>, visit.query.near = <<>>
             PROVE  EnginesAgree
  BY Zenon DEF EnginesAgree
<1> DEFINE q == visit.query
           index == visit.corpus.index
           answer == visit.answer
           advanced == SearchAdvanced(index, q)
           phrase == [q EXCEPT !.items = <<[kind |-> "quoted", terms |-> q.terms]>>]
           cqp == SearchComplex(index, phrase)
<1>1. visit.view = "kwic" /\ ~IsError(answer)  BY Zenon DEF Shows
<1>2. visit # NoVisit  BY <1>1 DEF NoVisit
<1>3. q.windowFrom <= q.windowTo  BY <1>1, <1>2, Zenon DEF ShownPage, PagesInvariant
<1>4. AnswersPlain(index, q, answer)  BY <1>1, ShownConcordance, Zenon DEF AnswersPlain, Plain, Exportable
<1>5. phrase = WithPhrase(q)  BY Zenon DEF PhraseOf, WithPhrase
<1> HIDE DEF q, index, answer, phrase
<1>6. AnswersAlike(index, q, advanced, answer)  BY <1>3, <1>4, AdvancedAgrees, Zenon
<1>7. q.sample = 0 /\ PlainWords(q) => SameHits(cqp, answer)  BY <1>4, <1>5, ComplexAgrees, Zenon
<1> QED
  BY <1>6, <1>7, Zenon DEF EnginesAgree, AnswersAlike, SameHits, OrderedAlike, PlainWords, q, index, answer, phrase

\* The simple search, which sorts and counts in SQL (search), the advanced
\* search, which does so in memory (search_advanced), and the CQP search
\* (ComplexQueryEngine.search) always answer the same words with the same
\* hits in the same order, on every page: the two in SQL for whole words in
\* English, SQL and memory unless they sort phrases by what was found, or
\* files by names that the two fold or count differently.
THEOREM EnginesAlwaysAgree == Spec => []EnginesAgree
<1>1. PagesInvariant => EnginesAgree  BY SearchesAgree, Zenon
<1> QED BY <1>1, PagesAreInvariant, PTL

=============================================================================
