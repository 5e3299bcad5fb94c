---------------------------- MODULE CorpusProofs -----------------------------
(***************************************************************************)
(* What holds of the dataset for every catalogue, every file of seeds,     *)
(* target, --n, query, number of examples and size of the write buffer.    *)
(***************************************************************************)
EXTENDS Corpus, FiniteSetTheorems, SequenceTheorems, WellFoundedInduction, TLAPS

-----------------------------------------------------------------------------
(* Recursion over a sequence: what the loops of the builders add up to.    *)

LEMMA SmallestOf ==
  ASSUME NEW T \in SUBSET Nat, T # {}
  PROVE  \E x \in T : \A y \in T : x <= y
<1> DEFINE R == OpToRel(<, Nat)
<1>1. IsWellFoundedOn(R, Nat)
  BY NatLessThanWellFounded
<1>2. \A x, y \in Nat : y < x => << y, x >> \in R
  BY DEF OpToRel
<1> HIDE DEF R
<1>3. \E x \in T : \A y \in T : ~(<< y, x >> \in R)
  BY <1>1, WFMin
<1>4. PICK x \in T : \A y \in T : ~(<< y, x >> \in R)
  BY <1>3
<1>5. ASSUME NEW y \in T PROVE x <= y
  <2>1. x \in Nat /\ y \in Nat
    OBVIOUS
  <2>2. ~(y < x)
    BY <1>2, <1>4, <2>1, Zenon
  <2>3. QED
    BY <2>1, <2>2, SMT
<1>6. QED
  BY <1>5, Zenon

(* What holds of 0 and is handed from i to i + 1 holds up to n.            *)
LEMMA InductionUpTo ==
  ASSUME NEW n \in Nat, NEW P,
         0 \in P,
         \A i \in 0..(n - 1) : i \in P => i + 1 \in P
  PROVE  0..n \subseteq P
<1> DEFINE T == (0..n) \ P
<1> SUFFICES ASSUME T # {} PROVE FALSE
  OBVIOUS
<1>1. PICK x \in T : \A y \in T : x <= y
  <2>1. T \in SUBSET Nat
    OBVIOUS
  <2> HIDE DEF T
  <2>2. QED
    BY <2>1, SmallestOf
<1>2. x \in 1..n
  BY <1>1
<1>3. x - 1 \in P
  BY <1>1, <1>2
<1>4. (x - 1) + 1 \in P
  BY <1>2, <1>3
<1>5. QED
  BY <1>1, <1>2, <1>4

(* Pieces put one after another.                                           *)
Added(pieces, n, g) ==
  g = [i \in 0..n |-> IF i = 0 THEN << >> ELSE g[i - 1] \o pieces[i]]

LEMMA AddedExists ==
  ASSUME NEW pieces, NEW n \in Nat
  PROVE  \E g : Added(pieces, n, g)
<1> DEFINE P == {k \in 0..n : \E g : Added(pieces, k, g)}
<1>1. 0 \in P
  <2> DEFINE g == [i \in 0..0 |-> << >>]
  <2>1. /\ g = [i \in 0..0 |-> g[i]]
        /\ \A i \in 0..0 : g[i] = IF i = 0 THEN << >> ELSE g[i - 1] \o pieces[i]
    OBVIOUS
  <2> HIDE DEF g
  <2>2. Added(pieces, 0, g)
    BY <2>1 DEF Added
  <2> QED BY <2>2
<1>2. ASSUME NEW k \in 0..(n - 1), k \in P PROVE k + 1 \in P
  <2>1. PICK g : Added(pieces, k, g)
    BY <1>2
  <2> DEFINE last == g[k] \o pieces[k + 1]
             h == [i \in 0..(k + 1) |-> IF i <= k THEN g[i] ELSE last]
  <2>2. \A i \in 0..k : g[i] = IF i = 0 THEN << >> ELSE g[i - 1] \o pieces[i]
    BY <2>1 DEF Added
  <2>3. /\ h = [i \in 0..(k + 1) |-> h[i]]
        /\ \A i \in 0..k : h[i] = g[i]
        /\ h[k + 1] = last
    <3> HIDE DEF last
    <3> QED OBVIOUS
  <2> HIDE DEF h
  <2>4. h[k + 1] = h[k] \o pieces[k + 1]
    <3>1. k \in 0..k
      OBVIOUS
    <3>2. h[k] = g[k]
      BY <2>3, <3>1, Zenon
    <3> QED BY <2>3, <3>2, Zenon
  <2>5. ASSUME NEW i \in 0..(k + 1)
        PROVE  h[i] = IF i = 0 THEN << >> ELSE h[i - 1] \o pieces[i]
    <3>1. CASE i = 0
      <4>1. 0 \in 0..k
        OBVIOUS
      <4> QED BY <2>2, <2>3, <3>1, <4>1, Zenon
    <3>2. CASE i \in 1..k
      <4>1. i \in 0..k /\ i - 1 \in 0..k /\ i # 0
        BY <3>2
      <4> QED BY <2>2, <2>3, <4>1, Zenon
    <3>3. CASE i = k + 1
      <4>1. i # 0 /\ i - 1 = k
        BY <3>3
      <4> QED BY <2>4, <3>3, <4>1, Zenon
    <3>4. i = 0 \/ i \in 1..k \/ i = k + 1
      OBVIOUS
    <3> QED BY <3>1, <3>2, <3>3, <3>4
  <2>6. Added(pieces, k + 1, h)
    BY <2>3, <2>5 DEF Added
  <2> QED BY <2>6
<1> HIDE DEF P
<1>3. 0..n \subseteq P
  BY <1>1, <1>2, InductionUpTo
<1> QED BY <1>3 DEF P

(* Flattening, unfolded: the i-th step adds the i-th piece.                *)
Flattening(pieces, n, g) ==
  g[0] = << >> /\ \A i \in 1..n : g[i] = g[i - 1] \o pieces[i]

LEMMA FlattenUnfolds ==
  ASSUME NEW S, NEW pieces \in Seq(Seq(S))
  PROVE  \E g : Flattening(pieces, Len(pieces), g) /\ FlattenSeq(pieces) = g[Len(pieces)]
<1> DEFINE n == Len(pieces)
           Flat(g) == g = [i \in 1..n |-> IF i = 1 THEN pieces[i] ELSE g[i - 1] \o pieces[i]]
           flatten == CHOOSE g : Flat(g)
<1>1. n \in Nat /\ \A i \in 1..n : pieces[i] \in Seq(S)
  OBVIOUS
<1>2. CASE n = 0
  <2>1. pieces = << >>
    BY <1>2
  <2>2. FlattenSeq(pieces) = pieces
    BY <1>2 DEF FlattenSeq
  <2> DEFINE g == [i \in 0..0 |-> << >>]
  <2>3. g[0] = << >> /\ 1..0 = {}
    OBVIOUS
  <2> HIDE DEF g
  <2>4. Flattening(pieces, 0, g)
    BY <2>3, Zenon DEF Flattening
  <2> QED BY <1>2, <2>1, <2>2, <2>3, <2>4, Zenon
<1>3. CASE n # 0
  <2>1. PICK g : Added(pieces, n, g)
    BY <1>1, AddedExists
  <2> DEFINE h == [i \in 1..n |-> g[i]]
  <2>2. Flat(h)
    <3>1. \A i \in 0..n : g[i] = IF i = 0 THEN << >> ELSE g[i - 1] \o pieces[i]
      BY <2>1 DEF Added
    <3> HIDE DEF n
    <3>2. ASSUME NEW i \in 1..n
          PROVE  g[i] = IF i = 1 THEN pieces[i] ELSE h[i - 1] \o pieces[i]
      <4>1. i \in 0..n /\ i # 0 /\ i - 1 \in 0..n /\ (i # 1 => i - 1 \in 1..n)
            /\ 0 \in 0..n
        BY <1>1
      <4>2. g[i] = g[i - 1] \o pieces[i] /\ g[0] = << >>
        BY <3>1, <4>1, Zenon
      <4>3. i # 1 => h[i - 1] = g[i - 1]
        BY <4>1
      <4>4. i = 1 => i - 1 = 0
        OBVIOUS
      <4>5. << >> \o pieces[i] = pieces[i]
        BY <1>1, ConcatEmptySeq
      <4> QED BY <4>2, <4>3, <4>4, <4>5, Zenon
    <3> QED BY <3>2
  <2>3. Flat(flatten)
    BY <2>2, Zenon
  <2>4. FlattenSeq(pieces) = flatten[n]
    BY <1>3, Zenon DEF FlattenSeq
  <2> HIDE DEF flatten
  <2> DEFINE f == [i \in 0..n |-> IF i = 0 THEN << >> ELSE flatten[i]]
  <2>5. f[0] = << >> /\ \A i \in 1..n : f[i] = flatten[i]
    <3> HIDE DEF n
    <3> QED BY <1>1
  <2> HIDE DEF f, n
  <2>6. ASSUME NEW i \in 1..n PROVE f[i] = f[i - 1] \o pieces[i]
    <3>1. flatten[i] = IF i = 1 THEN pieces[i] ELSE flatten[i - 1] \o pieces[i]
      BY <2>3
    <3>2. CASE i = 1
      <4>1. << >> \o pieces[i] = pieces[i] /\ i - 1 = 0
        BY <1>1, <3>2, ConcatEmptySeq
      <4> QED BY <2>5, <3>1, <3>2, <4>1, Zenon
    <3>3. CASE i # 1
      <4>1. i - 1 \in 1..n
        BY <1>1, <3>3
      <4> QED BY <2>5, <3>1, <3>3, <4>1, Zenon
    <3> QED BY <3>2, <3>3
  <2>7. f[n] = flatten[n]
    <3>1. n \in 1..n
      BY <1>1, <1>3
    <3> QED BY <2>5, <3>1, Zenon
  <2>8. Flattening(pieces, n, f)
    BY <2>5, <2>6, Zenon DEF Flattening
  <2> QED BY <2>4, <2>7, <2>8, Zenon DEF n
<1> QED BY <1>2, <1>3

(* The flattened sequence has the elements of its pieces and no other.     *)
LEMMA Flattened ==
  ASSUME NEW S, NEW pieces \in Seq(Seq(S))
  PROVE  FlattenSeq(pieces) \in Seq(S)
<1> DEFINE n == Len(pieces)
<1>1. n \in Nat /\ \A i \in 1..n : pieces[i] \in Seq(S)
  OBVIOUS
<1>2. PICK g : Flattening(pieces, n, g) /\ FlattenSeq(pieces) = g[n]
  BY FlattenUnfolds
<1>3. g[0] = << >> /\ \A i \in 1..n : g[i] = g[i - 1] \o pieces[i]
  BY <1>2, Zenon DEF Flattening
<1> HIDE DEF n
<1> DEFINE P == {i \in 0..n : g[i] \in Seq(S)}
<1>4. 0 \in P
  <2>1. << >> \in Seq(S) /\ 0 \in 0..n
    BY <1>1
  <2> QED BY <1>3, <2>1, Zenon
<1>5. ASSUME NEW i \in 0..(n - 1), i \in P PROVE i + 1 \in P
  <2>1. i + 1 \in 1..n /\ i + 1 \in 0..n /\ (i + 1) - 1 = i
    BY <1>1
  <2>2. g[i + 1] = g[i] \o pieces[i + 1]
    BY <1>3, <2>1, Zenon
  <2>3. g[i] \in Seq(S) /\ pieces[i + 1] \in Seq(S)
    BY <1>1, <1>5, <2>1, Zenon
  <2>4. g[i + 1] \in Seq(S)
    BY <2>2, <2>3, ConcatProperties
  <2> QED BY <2>1, <2>4
<1> HIDE DEF P
<1>6. 0..n \subseteq P
  BY <1>1, <1>4, <1>5, InductionUpTo
<1>7. g[n] \in Seq(S)
  <2>1. n \in 0..n
    BY <1>1
  <2> QED BY <1>6, <2>1, Zenon DEF P
<1> QED BY <1>2, <1>7, Zenon

(* Sequences of whatever they hold.                                        *)
LEMMA SeqIs ==
  ASSUME NEW S, NEW s \in Seq(S)
  PROVE  IsSeq(s) /\ Len(s) \in Nat /\ DOMAIN s = 1..Len(s) /\ \A i \in DOMAIN s : s[i] \in S
BY DEF IsSeq, ToSet

LEMMA ElementsOfSeq ==
  ASSUME NEW s, IsSeq(s), NEW S, \A i \in DOMAIN s : s[i] \in S
  PROVE  s \in Seq(S)
BY DEF IsSeq, ToSet

LEMMA SeqOfPieces ==
  ASSUME NEW n \in Nat, NEW f, f \in [1..n -> {f[i] : i \in 1..n}]
  PROVE  IsSeq(f) /\ Len(f) = n /\ DOMAIN f = 1..n
BY DEF IsSeq, ToSet

(* Those of a sequence are elements of it that pass the test: stated for   *)
(* any set the test picks out.                                             *)
LEMMA Filtered ==
  ASSUME NEW s, IsSeq(s), NEW T, NEW p,
         p = [i \in DOMAIN s |-> p[i]],
         \A i \in DOMAIN s : p[i] = << >> \/ (p[i] = << s[i] >> /\ s[i] \in T)
  PROVE  FlattenSeq(p) \in Seq(T)
<1>1. DOMAIN s = 1..Len(s) /\ Len(s) \in Nat
  BY DEF IsSeq
<1>2. ASSUME NEW i \in DOMAIN s PROVE p[i] \in Seq(T)
  <2>1. << >> \in Seq(T) /\ \A x \in T : << x >> \in Seq(T)
    OBVIOUS
  <2> QED BY <2>1, Zenon
<1>3. p \in Seq(Seq(T))
  <2>1. p \in [1..Len(s) -> Seq(T)]
    BY <1>1, <1>2
  <2> QED BY <1>1, <2>1
<1> QED BY <1>3, Flattened

(* The store holds lines of the file of its split.                         *)
LEMMA StoreIsOfTrain ==
  ASSUME IsSeq(file)
  PROVE  Store \in Seq({r \in ToSet(file) : r.split = "train"})
<1> DEFINE T == {r \in ToSet(file) : r.split = "train"}
           p == [i \in DOMAIN file |-> IF file[i].split = "train" THEN << file[i] >> ELSE << >>]
<1>1. \A i \in DOMAIN file : file[i].split = "train" => file[i] \in T
  BY DEF ToSet
<1>2. Those(file, InIndex) = FlattenSeq(p)
  BY Zenon DEF Those, InIndex
<1>3. /\ p = [i \in DOMAIN file |-> p[i]]
      /\ \A i \in DOMAIN file : p[i] = << >> \/ (p[i] = << file[i] >> /\ file[i].split = "train")
  BY Zenon
<1> HIDE DEF T, p
<1>4. FlattenSeq(p) \in Seq(T)
  BY <1>1, <1>3, Filtered, Zenon
<1>5. << >> \in Seq(T)
  OBVIOUS
<1> QED BY <1>2, <1>4, <1>5 DEF Store, T

(* Sorting keeps the examples, and so does taking the first K that share a *)
(* word with the question.                                                 *)
LEMMA PlaceIsInside ==
  ASSUME NEW S, NEW seq \in Seq(S), NEW e, NEW q
  PROVE  Place(seq, e, q) \in 0..Len(seq)
<1> DEFINE A == {i \in DOMAIN seq : ~Closer(q, e, seq[i])}
<1>1. A \subseteq 1..Len(seq) /\ Len(seq) \in Nat
  OBVIOUS
<1>2. IsFiniteSet(1..Len(seq)) /\ Cardinality(1..Len(seq)) = Len(seq)
  <2> DEFINE n == Len(seq)
  <2>1. n \in Nat
    BY <1>1
  <2> HIDE DEF n
  <2>2. IsFiniteSet(1..n) /\ Cardinality(1..n) = n
    BY <2>1, FS_Interval
  <2> QED BY <2>2 DEF n
<1> HIDE DEF A
<1>3. Cardinality(A) \in Nat /\ Cardinality(A) <= Len(seq)
  BY <1>1, <1>2, FS_Subset, FS_CardinalityType
<1> QED BY <1>1, <1>3 DEF Place, A

LEMMA InsertedIn ==
  ASSUME NEW S, NEW seq \in Seq(S), NEW e \in S, NEW q
  PROVE  /\ Inserted(seq, e, q) \in Seq(S)
         /\ Len(Inserted(seq, e, q)) = Len(seq) + 1
<1> DEFINE k == Place(seq, e, q)
<1>1. k \in 0..Len(seq) /\ Len(seq) \in Nat
  BY PlaceIsInside
<1> HIDE DEF k
<1>2. /\ SubSeq(seq, 1, k) \in Seq(S) /\ Len(SubSeq(seq, 1, k)) = k
      /\ SubSeq(seq, k + 1, Len(seq)) \in Seq(S)
      /\ Len(SubSeq(seq, k + 1, Len(seq))) = Len(seq) - k
  BY <1>1, SubSeqProperties
<1>3. (k + 1) - 1 = k
  BY <1>1
<1>4. Inserted(seq, e, q) = SubSeq(seq, 1, k) \o << e >> \o SubSeq(seq, k + 1, Len(seq))
  BY <1>3, Zenon DEF Inserted, InsertAt, k
<1> DEFINE a == SubSeq(seq, 1, k)
           c == SubSeq(seq, k + 1, Len(seq))
<1>5. a \in Seq(S) /\ c \in Seq(S) /\ Len(a) = k /\ Len(c) = Len(seq) - k
  BY <1>2
<1> HIDE DEF a, c
<1>6. a \o << e >> \o c \in Seq(S) /\ Len(a \o << e >> \o c) = Len(a) + 1 + Len(c)
  <2> DEFINE b == << e >>
             ab == a \o b
  <2>1. b \in Seq(S) /\ Len(b) = 1
    OBVIOUS
  <2> HIDE DEF b
  <2>2. ab \in Seq(S) /\ Len(ab) = Len(a) + Len(b)
    BY <1>5, <2>1, ConcatProperties, Zenon
  <2> HIDE DEF ab
  <2>3. ab \o c \in Seq(S) /\ Len(ab \o c) = Len(ab) + Len(c)
    BY <1>5, <2>2, ConcatProperties, Zenon
  <2>4. Len(ab \o c) = Len(a) + 1 + Len(c)
    BY <2>1, <2>2, <2>3, Zenon
  <2> QED BY <2>3, <2>4 DEF ab, b
<1>7. Len(a) + 1 + Len(c) = Len(seq) + 1
  BY <1>1, <1>5
<1> QED BY <1>4, <1>6, <1>7 DEF a, c

(* The sorted examples, unfolded: the n-th step inserts the n-th example.  *)
Sorting(pool, q, n, g) ==
  g = [i \in 0..n |-> IF i = 0 THEN << >> ELSE Inserted(g[i - 1], pool[i], q)]

LEMMA SortingExists ==
  ASSUME NEW pool, NEW q, NEW n \in Nat
  PROVE  \E g : Sorting(pool, q, n, g)
<1> DEFINE P == {k \in 0..n : \E g : Sorting(pool, q, k, g)}
<1>1. 0 \in P
  <2> DEFINE g == [i \in 0..0 |-> << >>]
  <2>1. /\ g = [i \in 0..0 |-> g[i]]
        /\ \A i \in 0..0 : g[i] = IF i = 0 THEN << >> ELSE Inserted(g[i - 1], pool[i], q)
    OBVIOUS
  <2> HIDE DEF g
  <2>2. Sorting(pool, q, 0, g)
    BY <2>1 DEF Sorting
  <2> QED BY <2>2
<1>2. ASSUME NEW k \in 0..(n - 1), k \in P PROVE k + 1 \in P
  <2>1. PICK g : Sorting(pool, q, k, g)
    BY <1>2
  <2> DEFINE last == Inserted(g[k], pool[k + 1], q)
             h == [i \in 0..(k + 1) |-> IF i <= k THEN g[i] ELSE last]
  <2>2. \A i \in 0..k : g[i] = IF i = 0 THEN << >> ELSE Inserted(g[i - 1], pool[i], q)
    BY <2>1 DEF Sorting
  <2>3. /\ h = [i \in 0..(k + 1) |-> h[i]]
        /\ \A i \in 0..k : h[i] = g[i]
        /\ h[k + 1] = last
    <3> HIDE DEF last
    <3> QED OBVIOUS
  <2> HIDE DEF h
  <2>4. h[k + 1] = Inserted(h[k], pool[k + 1], q)
    <3>1. k \in 0..k
      OBVIOUS
    <3>2. h[k] = g[k]
      BY <2>3, <3>1, Zenon
    <3> QED BY <2>3, <3>2, Zenon
  <2>5. ASSUME NEW i \in 0..(k + 1)
        PROVE  h[i] = IF i = 0 THEN << >> ELSE Inserted(h[i - 1], pool[i], q)
    <3>1. CASE i = 0
      <4>1. 0 \in 0..k
        OBVIOUS
      <4> QED BY <2>2, <2>3, <3>1, <4>1, Zenon
    <3>2. CASE i \in 1..k
      <4>1. i \in 0..k /\ i - 1 \in 0..k /\ i # 0
        BY <3>2
      <4> QED BY <2>2, <2>3, <4>1, Zenon
    <3>3. CASE i = k + 1
      <4>1. i # 0 /\ i - 1 = k
        BY <3>3
      <4> QED BY <2>4, <3>3, <4>1, Zenon
    <3>4. i = 0 \/ i \in 1..k \/ i = k + 1
      OBVIOUS
    <3> QED BY <3>1, <3>2, <3>3, <3>4
  <2>6. Sorting(pool, q, k + 1, h)
    BY <2>3, <2>5 DEF Sorting
  <2> QED BY <2>6
<1> HIDE DEF P
<1>3. 0..n \subseteq P
  BY <1>1, <1>2, InductionUpTo
<1> QED BY <1>3 DEF P

(* What a run is shown.  The measures of two examples are compared as      *)
(* fractions; "not closer" is transitive because no denominator is 0.      *)
Measured(q, S) ==
  \A e \in S :
    /\ Common(q, e) \in Nat
    /\ Union(q, e) \in Nat
    /\ Union(q, e) > 0
    /\ Common(q, e) > 0 <=> q \cap tokens(e) # {}

LEMMA FiniteWordsAreMeasured ==
  ASSUME NEW q, IsFiniteSet(q), NEW S, \A e \in S : IsFiniteSet(tokens(e))
  PROVE  Measured(q, S)
<1> SUFFICES ASSUME NEW e \in S
             PROVE  /\ Common(q, e) \in Nat
                    /\ Union(q, e) \in Nat
                    /\ Union(q, e) > 0
                    /\ Common(q, e) > 0 <=> q \cap tokens(e) # {}
  BY DEF Measured
<1> DEFINE both == q \cap tokens(e)
           all == q \cup tokens(e)
           n == Cardinality(all)
<1>1. IsFiniteSet(all)
  BY FS_Union
<1>2. IsFiniteSet(both) /\ Cardinality(both) \in Nat /\ (Cardinality(both) = 0 <=> both = {})
  <2>1. IsFiniteSet(both)
    BY FS_Intersection
  <2> HIDE DEF both
  <2> QED BY <2>1, FS_CardinalityType, FS_EmptySet
<1> HIDE DEF both, all
<1>3. n \in Nat
  BY <1>1, FS_CardinalityType
<1> HIDE DEF n
<1>4. Max({1, n}) \in Nat /\ Max({1, n}) > 0
  BY <1>3 DEF Max
<1>5. Common(q, e) = Cardinality(both) /\ Union(q, e) = Max({1, n})
  BY Zenon DEF Common, Union, both, all, n
<1> HIDE DEF Common, Union
<1>6. both = q \cap tokens(e)
  BY DEF both
<1> QED BY <1>2, <1>4, <1>5, <1>6

LEMMA MeasuredOne ==
  ASSUME NEW q, NEW S, Measured(q, S), NEW e \in S
  PROVE  /\ Common(q, e) \in Nat
         /\ Union(q, e) \in Nat
         /\ Union(q, e) > 0
         /\ Common(q, e) > 0 <=> q \cap tokens(e) # {}
BY DEF Measured

LEMMA Multiplied ==
  ASSUME NEW a \in Nat, NEW b \in Nat, NEW c \in Nat
  PROVE  /\ a <= b => a * c <= b * c
         /\ c > 0 /\ a * c <= b * c => a <= b
<1>1. a <= b => a * c <= b * c
  OBVIOUS
<1>2. b + 1 <= a => (b + 1) * c <= a * c
  OBVIOUS
<1>3. (b + 1) * c = b * c + c
  OBVIOUS
<1>4. a * c \in Nat /\ b * c \in Nat
  OBVIOUS
<1> DEFINE x == a * c
           y == b * c
           z == (b + 1) * c
<1> HIDE DEF x, y, z
<1>5. x \in Nat /\ y \in Nat /\ z = y + c /\ (b + 1 <= a => z <= x)
  BY <1>2, <1>3, <1>4 DEF x, y, z
<1>6. c > 0 /\ x <= y => a <= b
  BY <1>5
<1> QED BY <1>1, <1>6 DEF x, y

LEMMA NotCloserIsTransitive ==
  ASSUME NEW q, NEW S, Measured(q, S), NEW e \in S, NEW f \in S, NEW g \in S,
         ~Closer(q, f, e), ~Closer(q, g, f)
  PROVE  ~Closer(q, g, e)
<1> DEFINE a == Common(q, e)
           b == Common(q, f)
           c == Common(q, g)
           u == Union(q, e)
           v == Union(q, f)
           w == Union(q, g)
<1>1. a \in Nat /\ b \in Nat /\ c \in Nat /\ u \in Nat /\ v \in Nat /\ w \in Nat /\ v > 0
  BY MeasuredOne, Zenon
<1>2. ~(b * u > a * v) /\ ~(c * v > b * w)
  BY DEF Closer
<1>3. Closer(q, g, e) <=> c * u > a * w
  BY Zenon DEF Closer
<1> HIDE DEF a, b, c, u, v, w
<1>4. /\ b * u \in Nat /\ a * v \in Nat /\ c * v \in Nat /\ b * w \in Nat
      /\ c * u \in Nat /\ a * w \in Nat
  BY <1>1
<1>5. b * u <= a * v /\ c * v <= b * w
  BY <1>2, <1>4
<1>6. (b * u) * w <= (a * v) * w
  BY <1>1, <1>4, <1>5, Multiplied
<1>7. (c * v) * u <= (b * w) * u
  BY <1>1, <1>4, <1>5, Multiplied
<1>8. (b * w) * u = (b * u) * w
  BY <1>1
<1>9. (c * v) * u = (c * u) * v /\ (a * v) * w = (a * w) * v
  BY <1>1
<1>10. (c * u) * v \in Nat /\ (a * w) * v \in Nat /\ (b * u) * w \in Nat
  BY <1>1, <1>4
<1>11. (c * u) * v <= (a * w) * v
  BY <1>6, <1>7, <1>8, <1>9, <1>10
<1>12. c * u <= a * w
  BY <1>1, <1>4, <1>11, Multiplied
<1> QED BY <1>3, <1>4, <1>12

LEMMA CloserIsNotFurther ==
  ASSUME NEW q, NEW S, Measured(q, S), NEW e \in S, NEW f \in S, Closer(q, e, f)
  PROVE  ~Closer(q, f, e)
<1> DEFINE x == Common(q, e) * Union(q, f)
           y == Common(q, f) * Union(q, e)
<1>1. x \in Nat /\ y \in Nat
  <2> DEFINE a == Common(q, e)
             b == Common(q, f)
             u == Union(q, e)
             v == Union(q, f)
  <2>1. a \in Nat /\ b \in Nat /\ u \in Nat /\ v \in Nat
    BY MeasuredOne, Zenon
  <2> HIDE DEF a, b, u, v
  <2>2. a * v \in Nat /\ b * u \in Nat
    BY <2>1
  <2> QED BY <2>2 DEF a, b, u, v
<1>2. (Closer(q, e, f) <=> x > y) /\ (Closer(q, f, e) <=> y > x)
  BY Zenon DEF Closer
<1> HIDE DEF x, y
<1> QED BY <1>1, <1>2

(* What is not further than an example that shares a word shares one, too. *)
LEMMA CommonAbove ==
  ASSUME NEW q, NEW S, Measured(q, S), NEW e \in S, NEW f \in S,
         ~Closer(q, f, e), Common(q, f) > 0
  PROVE  Common(q, e) > 0
<1> DEFINE a == Common(q, e)
           b == Common(q, f)
           u == Union(q, e)
           v == Union(q, f)
<1>1. a \in Nat /\ b \in Nat /\ u \in Nat /\ v \in Nat /\ u > 0 /\ b > 0
  BY MeasuredOne, Zenon
<1>2. ~(b * u > a * v)
  BY DEF Closer
<1> HIDE DEF a, b, u, v
<1>3. a = 0 => a * v = 0
  BY <1>1
<1>4. b * u > 0
  BY <1>1
<1>5. a > 0
  BY <1>1, <1>2, <1>3, <1>4
<1> QED BY <1>5 DEF a

LEMMA PastThePlace ==
  ASSUME NEW n \in Nat, NEW k \in 0..n, NEW i \in (k + 2)..(n + 1)
  PROVE  /\ i \in 1..(n + 1) /\ ~(i <= k + 1)
         /\ i - (k + 1) \in 1..(n - k)
         /\ k + (i - (k + 1)) = i - 1
<1>1. n \in Int /\ k \in Int /\ i \in Int /\ 0 <= k /\ k <= n /\ k + 2 <= i /\ i <= n + 1
  OBVIOUS
<1>2. i \in 1..(n + 1) /\ ~(i <= k + 1)
  BY <1>1
<1>3. i - (k + 1) \in 1..(n - k)
  BY <1>1
<1>4. k + (i - (k + 1)) = i - 1
  BY <1>1
<1> QED BY <1>2, <1>3, <1>4

InsertedRight(seq, e, k, t) ==
  /\ k \in 0..Len(seq) /\ Len(t) = Len(seq) + 1
  /\ \A i \in 1..k : t[i] = seq[i]
  /\ t[k + 1] = e
  /\ \A i \in (k + 2)..(Len(seq) + 1) : t[i] = seq[i - 1]

LEMMA InsertedAt ==
  ASSUME NEW S, NEW seq \in Seq(S), NEW e \in S, NEW q
  PROVE  InsertedRight(seq, e, Place(seq, e, q), Inserted(seq, e, q))
<1> DEFINE k == Place(seq, e, q)
           t == Inserted(seq, e, q)
<1>1. k \in 0..Len(seq) /\ Len(seq) \in Nat
  BY PlaceIsInside
<1> HIDE DEF k
<1> DEFINE n == Len(seq)
           a == SubSeq(seq, 1, k)
           b == << e >>
           c == SubSeq(seq, k + 1, n)
<1>2. /\ a \in Seq(S) /\ Len(a) = k /\ \A i \in 1..k : a[i] = seq[i]
  <2>1. \A i \in 1..k : 1 + i - 1 = i
    BY <1>1
  <2>2. 1 \in 1..(n + 1) /\ k \in 0..n
    BY <1>1
  <2> QED BY <1>1, <2>1, <2>2, SubSeqProperties
<1>3. /\ c \in Seq(S) /\ Len(c) = n - k /\ \A i \in 1..(n - k) : c[i] = seq[k + i]
  <2>1. \A i \in 1..(n - k) : (k + 1) + i - 1 = k + i
    BY <1>1
  <2>2. k + 1 \in 1..(n + 1) /\ n \in k..n
    BY <1>1
  <2> QED BY <1>1, <2>1, <2>2, SubSeqProperties
<1>4. b \in Seq(S) /\ Len(b) = 1 /\ b[1] = e
  OBVIOUS
<1>5. t = (a \o b) \o c
  <2>1. (k + 1) - 1 = k
    BY <1>1
  <2> QED BY <2>1, Zenon DEF Inserted, InsertAt, k
<1> HIDE DEF t
<1> HIDE DEF a, b, c
<1> DEFINE ab == a \o b
<1>6. /\ ab \in Seq(S) /\ Len(ab) = k + 1 /\ \A i \in 1..k : ab[i] = seq[i]
      /\ ab[k + 1] = e
  <2>1. /\ ab \in Seq(S) /\ Len(ab) = Len(a) + Len(b)
        /\ \A i \in 1..(Len(a) + Len(b)) :
              ab[i] = IF i <= Len(a) THEN a[i] ELSE b[i - Len(a)]
    BY <1>2, <1>4, ConcatProperties, Zenon
  <2>2. \A i \in 1..k : i \in 1..(k + 1) /\ i <= k
    BY <1>1
  <2>3. k + 1 \in 1..(k + 1) /\ ~(k + 1 <= k) /\ (k + 1) - k = 1
    BY <1>1
  <2> HIDE DEF ab
  <2>4. \A i \in 1..(k + 1) : ab[i] = IF i <= k THEN a[i] ELSE b[i - k]
    BY <1>2, <1>4, <2>1, Zenon
  <2> QED BY <1>2, <1>4, <2>1, <2>2, <2>3, <2>4, Zenon
<1> HIDE DEF ab
<1>7. /\ Len(t) = (k + 1) + (n - k)
      /\ \A i \in 1..((k + 1) + (n - k)) :
            t[i] = IF i <= k + 1 THEN ab[i] ELSE c[i - (k + 1)]
  <2>1. /\ Len(ab \o c) = Len(ab) + Len(c)
        /\ \A i \in 1..(Len(ab) + Len(c)) :
              (ab \o c)[i] = IF i <= Len(ab) THEN ab[i] ELSE c[i - Len(ab)]
    BY <1>3, <1>6, ConcatProperties, Zenon
  <2> QED BY <1>3, <1>5, <1>6, <2>1, Zenon DEF ab
<1>8. (k + 1) + (n - k) = n + 1
  BY <1>1
<1>9. \A i \in 1..k : i \in 1..(n + 1) /\ i <= k + 1
  BY <1>1
<1>10. k + 1 \in 1..(n + 1) /\ k + 1 <= k + 1
  BY <1>1
<1>11. ASSUME NEW i \in (k + 2)..(n + 1)
       PROVE  /\ i \in 1..(n + 1) /\ ~(i <= k + 1)
              /\ i - (k + 1) \in 1..(n - k)
              /\ k + (i - (k + 1)) = i - 1
  <2>1. n \in Nat /\ k \in 0..n
    BY <1>1
  <2> HIDE DEF n
  <2> QED BY <2>1, PastThePlace
<1>12. \A i \in 1..k : t[i] = seq[i]
  BY <1>6, <1>7, <1>8, <1>9, Zenon
<1>13. t[k + 1] = e
  BY <1>6, <1>7, <1>8, <1>10, Zenon
<1>14. \A i \in (k + 2)..(n + 1) : t[i] = seq[i - 1]
  BY <1>3, <1>7, <1>8, <1>11, Zenon
<1>15. Len(t) = n + 1
  BY <1>7, <1>8, Zenon
<1>16. InsertedRight(seq, e, k, t)
  BY <1>1, <1>12, <1>13, <1>14, <1>15, Zenon DEF InsertedRight
<1> QED BY <1>16, Zenon DEF k, t

(* The place of an example divides those that are not further from the     *)
(* others.                                                                 *)
LEMMA PlaceDivides ==
  ASSUME NEW q, NEW S, Measured(q, S), NEW seq \in Seq(S), NEW e \in S,
         \A i, j \in 1..Len(seq) : i < j => ~Closer(q, seq[j], seq[i])
  PROVE  \A i \in 1..Len(seq) : ~Closer(q, e, seq[i]) <=> i <= Place(seq, e, q)
<1> DEFINE n == Len(seq)
           A == {i \in DOMAIN seq : ~Closer(q, e, seq[i])}
           B == {i \in 1..n : Closer(q, e, seq[i])}
<1>1. n \in Nat /\ DOMAIN seq = 1..n /\ \A i \in 1..n : seq[i] \in S
  OBVIOUS
<1>2. ASSUME NEW i \in 1..n, NEW j \in 1..n, i < j, j \in A PROVE i \in A
  <2>1. ~Closer(q, e, seq[j]) /\ ~Closer(q, seq[j], seq[i])
    BY <1>1, <1>2
  <2>2. ~Closer(q, e, seq[i])
    BY <1>1, <2>1, NotCloserIsTransitive, Zenon
  <2> QED BY <1>1, <2>2
<1>3. A \subseteq 1..n /\ B \subseteq 1..n /\ \A i \in 1..n : i \in A <=> i \notin B
  BY <1>1
<1>4. Place(seq, e, q) = Cardinality(A)
  BY Zenon DEF Place
<1>5. \A i \in 1..n : i \in A <=> ~Closer(q, e, seq[i])
  BY <1>1
<1> HIDE DEF A, B, n
<1>6. \E m \in 0..n : A = 1..m
  <2>1. CASE B = {}
    <3>1. A = 1..n
      BY <1>3, <2>1
    <3> QED BY <1>1, <3>1
  <2>2. CASE B # {}
    <3>1. PICK m \in B : \A y \in B : m <= y
      <4>1. B \in SUBSET Nat
        BY <1>3
      <4> QED BY <2>2, <4>1, SmallestOf
    <3>2. m \in 1..n
      BY <1>3, <3>1
    <3>3. ASSUME NEW i \in 1..n, i < m PROVE i \in A
      BY <1>3, <3>1, <3>2, <3>3
    <3>4. ASSUME NEW i \in 1..n, i \in A PROVE i < m
      <4>1. SUFFICES ASSUME ~(i < m) PROVE FALSE
        OBVIOUS
      <4>2. i = m \/ m < i
        BY <3>2, <4>1
      <4>3. m \in A
        BY <1>2, <3>2, <3>4, <4>2
      <4> QED BY <1>3, <3>1, <3>2, <4>3
    <3>5. \A i \in A : i \in 1..n /\ i < m
      BY <1>3, <3>4, Zenon
    <3>6. \A i \in 1..(m - 1) : i \in 1..n /\ i < m
      BY <1>1, <3>2
    <3>7. \A i \in A : i \in 1..(m - 1)
      BY <3>2, <3>5
    <3>8. \A i \in 1..(m - 1) : i \in A
      BY <3>3, <3>6, Zenon
    <3>9. A = 1..(m - 1)
      BY <3>7, <3>8, Zenon
    <3>10. m - 1 \in 0..n
      BY <1>1, <3>2
    <3> QED BY <3>9, <3>10, Zenon
  <2> QED BY <2>1, <2>2
<1>7. PICK m \in 0..n : A = 1..m
  BY <1>6
<1>8. Cardinality(A) = m
  <2>1. m \in Nat
    BY <1>1
  <2> QED BY <1>7, <2>1, FS_Interval
<1>9. \A i \in 1..n : i \in A <=> i <= m
  BY <1>1, <1>7
<1> QED BY <1>4, <1>5, <1>8, <1>9, Zenon DEF n

(* A stable order of the first n examples: all of them, none before one    *)
(* that is closer, and two that are equally close as they came.            *)
CameBefore(pool, n, x, y) ==
  \E a, b \in 1..n : a < b /\ pool[a] = x /\ pool[b] = y

Orderly(q, pool, n, s) ==
  /\ \A i, j \in 1..n : i < j => ~Closer(q, s[j], s[i])
  /\ \A i, j \in 1..n : i < j => Closer(q, s[i], s[j]) \/ CameBefore(pool, n, s[i], s[j])
  /\ \A i \in 1..n : \E a \in 1..n : pool[a] = s[i]
  /\ \A a \in 1..n : \E i \in 1..n : s[i] = pool[a]

LEMMA InsertionKeepsOrder ==
  ASSUME NEW q, NEW S, Measured(q, S), NEW pool, NEW n \in Nat, NEW s \in Seq(S), Len(s) = n,
         Orderly(q, pool, n, s), pool[n + 1] \in S, NEW t, t = Inserted(s, pool[n + 1], q)
  PROVE  Orderly(q, pool, n + 1, t)
<1> DEFINE e == pool[n + 1]
           k == Place(s, e, q)
           old(i) == IF i <= k THEN i ELSE i - 1
<1>1. /\ k \in 0..n
      /\ \A i \in 1..k : t[i] = s[i]
      /\ t[k + 1] = e
      /\ \A i \in (k + 2)..(n + 1) : t[i] = s[i - 1]
  <2>1. e \in S /\ k = Place(s, e, q) /\ t = Inserted(s, e, q)
    OBVIOUS
  <2> HIDE DEF e, k
  <2>2. InsertedRight(s, e, k, t)
    BY <2>1, InsertedAt, Zenon
  <2> QED BY <2>2, Zenon DEF InsertedRight
<1>2. \A i \in 1..n : s[i] \in S
  OBVIOUS
<1>3. \A i \in 1..n : ~Closer(q, e, s[i]) <=> i <= k
  <2>1. \A i, j \in 1..n : i < j => ~Closer(q, s[j], s[i])
    BY Zenon DEF Orderly
  <2> QED BY <2>1, PlaceDivides, Zenon
<1>4. e \in S /\ e = pool[n + 1]
  OBVIOUS
<1> HIDE DEF e, k
<1>5. ASSUME NEW i \in 1..(n + 1), i # k + 1
      PROVE  /\ old(i) \in 1..n /\ t[i] = s[old(i)]
             /\ i < k + 1 => old(i) <= k
             /\ i > k + 1 => ~(old(i) <= k)
  <2>1. CASE i <= k
    BY <1>1, <2>1
  <2>2. CASE ~(i <= k)
    <3>1. i \in (k + 2)..(n + 1) /\ i - 1 \in 1..n /\ ~(i - 1 <= k) /\ ~(i < k + 1)
      BY <1>1, <1>5, <2>2
    <3> QED BY <1>1, <2>2, <3>1
  <2> QED BY <2>1, <2>2
<1>6. ASSUME NEW i \in 1..(n + 1), NEW j \in 1..(n + 1), i < j, i # k + 1, j # k + 1
      PROVE  old(i) < old(j)
  BY <1>1, <1>6
<1>7. \A x, y : CameBefore(pool, n, x, y) => CameBefore(pool, n + 1, x, y)
  <2>1. 1..n \subseteq 1..(n + 1)
    OBVIOUS
  <2> QED BY <2>1, Zenon DEF CameBefore
<1>8. ASSUME NEW i \in 1..n PROVE CameBefore(pool, n + 1, s[i], e)
  <2>1. PICK a \in 1..n : pool[a] = s[i]
    BY Zenon DEF Orderly
  <2>2. a \in 1..(n + 1) /\ n + 1 \in 1..(n + 1) /\ a < n + 1
    BY <2>1
  <2> QED BY <1>4, <2>1, <2>2, Zenon DEF CameBefore
<1> HIDE DEF old
<1>9. ASSUME NEW i \in 1..(n + 1), NEW j \in 1..(n + 1), i < j
      PROVE  /\ ~Closer(q, t[j], t[i])
             /\ Closer(q, t[i], t[j]) \/ CameBefore(pool, n + 1, t[i], t[j])
  <2>1. CASE i # k + 1 /\ j # k + 1
    <3>1. /\ old(i) \in 1..n /\ old(j) \in 1..n /\ old(i) < old(j)
          /\ t[i] = s[old(i)] /\ t[j] = s[old(j)]
      BY <1>5, <1>6, <1>9, <2>1, Zenon
    <3>2. /\ ~Closer(q, s[old(j)], s[old(i)])
          /\ Closer(q, s[old(i)], s[old(j)]) \/ CameBefore(pool, n, s[old(i)], s[old(j)])
      BY <3>1, Zenon DEF Orderly
    <3> QED BY <1>7, <3>1, <3>2, Zenon
  <2>2. CASE j = k + 1
    <3>1. i < k + 1 /\ i # k + 1
      BY <1>1, <1>9, <2>2
    <3>2. old(i) \in 1..n /\ old(i) <= k /\ t[i] = s[old(i)] /\ t[j] = e
      BY <1>1, <1>5, <2>2, <3>1, Zenon
    <3>3. ~Closer(q, e, s[old(i)])
      BY <1>3, <3>2, Zenon
    <3>4. CameBefore(pool, n + 1, s[old(i)], e)
      BY <1>8, <3>2, Zenon
    <3> QED BY <3>2, <3>3, <3>4, Zenon
  <2>3. CASE i = k + 1
    <3>1. j > k + 1 /\ j # k + 1
      BY <1>1, <1>9, <2>3
    <3>2. old(j) \in 1..n /\ ~(old(j) <= k) /\ t[j] = s[old(j)] /\ t[i] = e
      BY <1>1, <1>5, <2>3, <3>1, Zenon
    <3>3. Closer(q, e, s[old(j)])
      BY <1>3, <3>2, Zenon
    <3>4. ~Closer(q, s[old(j)], e)
      BY <1>2, <1>4, <3>2, <3>3, CloserIsNotFurther, Zenon
    <3> QED BY <3>2, <3>3, <3>4, Zenon
  <2> QED BY <2>1, <2>2, <2>3, Zenon
<1>10. ASSUME NEW i \in 1..(n + 1) PROVE \E a \in 1..(n + 1) : pool[a] = t[i]
  <2>1. CASE i = k + 1
    <3>1. n + 1 \in 1..(n + 1)
      OBVIOUS
    <3> QED BY <1>1, <1>4, <2>1, <3>1, Zenon
  <2>2. CASE i # k + 1
    <3>1. old(i) \in 1..n /\ t[i] = s[old(i)]
      BY <1>5, <2>2, Zenon
    <3>2. PICK a \in 1..n : pool[a] = s[old(i)]
      BY <3>1, Zenon DEF Orderly
    <3>3. a \in 1..(n + 1)
      BY <3>2
    <3> QED BY <3>1, <3>2, <3>3, Zenon
  <2> QED BY <2>1, <2>2
<1>11. ASSUME NEW a \in 1..(n + 1) PROVE \E i \in 1..(n + 1) : t[i] = pool[a]
  <2>1. CASE a = n + 1
    <3>1. k + 1 \in 1..(n + 1)
      BY <1>1
    <3> QED BY <1>1, <1>4, <2>1, <3>1, Zenon
  <2>2. CASE a \in 1..n
    <3>1. PICK i \in 1..n : s[i] = pool[a]
      BY <2>2, Zenon DEF Orderly
    <3>2. CASE i <= k
      <4>1. i \in 1..k /\ i \in 1..(n + 1)
        BY <1>1, <3>1, <3>2
      <4> QED BY <1>1, <3>1, <4>1, Zenon
    <3>3. CASE ~(i <= k)
      <4>1. i + 1 \in (k + 2)..(n + 1) /\ i + 1 \in 1..(n + 1) /\ (i + 1) - 1 = i
        BY <1>1, <3>1, <3>3
      <4>2. t[i + 1] = s[i]
        BY <1>1, <4>1, Zenon
      <4> QED BY <3>1, <4>1, <4>2, Zenon
    <3> QED BY <3>2, <3>3
  <2>3. a = n + 1 \/ a \in 1..n
    OBVIOUS
  <2> QED BY <2>1, <2>2, <2>3
<1> QED BY <1>9, <1>10, <1>11, Zenon DEF Orderly

LEMMA RankUnfolds ==
  ASSUME NEW S, NEW pool \in Seq(S), NEW q
  PROVE  \E g : Sorting(pool, q, Len(pool), g) /\ rank(pool, q) = Top(g[Len(pool)], q)
<1> DEFINE n == Len(pool)
           Sorted(g) == g = [i \in 0..n |->
                               IF i = 0 THEN << >> ELSE Inserted(g[i - 1], pool[i], q)]
           sorted == CHOOSE g : Sorted(g)
<1>1. n \in Nat
  OBVIOUS
<1>2. PICK g : Sorting(pool, q, n, g)
  BY <1>1, SortingExists
<1>3. Sorted(sorted)
  BY <1>2, Zenon DEF Sorting
<1>4. rank(pool, q) = Top(sorted[n], q)
  BY Zenon DEF rank
<1> QED BY <1>3, <1>4, Zenon DEF Sorting

LEMMA SortingSteps ==
  ASSUME NEW S, NEW pool \in Seq(S), NEW q, NEW sorted, Sorting(pool, q, Len(pool), sorted)
  PROVE  /\ sorted[0] = << >>
         /\ \A i \in 0..(Len(pool) - 1) :
               sorted[i + 1] = Inserted(sorted[i], pool[i + 1], q) /\ pool[i + 1] \in S
<1> DEFINE n == Len(pool)
<1>1. n \in Nat /\ \A i \in 1..n : pool[i] \in S
  OBVIOUS
<1> HIDE DEF n
<1>2. sorted = [i \in 0..n |-> IF i = 0 THEN << >> ELSE Inserted(sorted[i - 1], pool[i], q)]
  BY Zenon DEF Sorting, n
<1>3. sorted[0] = << >>
  <2>1. 0 \in 0..n
    BY <1>1
  <2> QED BY <1>2, <2>1
<1>4. ASSUME NEW i \in 0..(n - 1)
      PROVE  sorted[i + 1] = Inserted(sorted[i], pool[i + 1], q) /\ pool[i + 1] \in S
  <2>1. i + 1 \in 1..n /\ (i + 1) - 1 = i /\ i + 1 # 0 /\ i + 1 \in 0..n
    BY <1>1
  <2>2. sorted[i + 1] = IF i + 1 = 0 THEN << >> ELSE Inserted(sorted[(i + 1) - 1], pool[i + 1], q)
    BY <1>2, <2>1, Zenon
  <2> QED BY <1>1, <2>1, <2>2, Zenon
<1> QED BY <1>3, <1>4 DEF n

LEMMA SortedIn ==
  ASSUME NEW S, NEW pool \in Seq(S), NEW q
  PROVE  \E s \in Seq(S) :
           /\ Len(s) = Len(pool)
           /\ rank(pool, q) = Top(s, q)
           /\ Measured(q, S) => Orderly(q, pool, Len(pool), s)
<1> DEFINE n == Len(pool)
<1>1. n \in Nat
  OBVIOUS
<1>2. PICK sorted : Sorting(pool, q, n, sorted) /\ rank(pool, q) = Top(sorted[n], q)
  BY RankUnfolds
<1>3. /\ sorted[0] = << >>
      /\ \A i \in 0..(n - 1) :
            sorted[i + 1] = Inserted(sorted[i], pool[i + 1], q) /\ pool[i + 1] \in S
  BY <1>2, SortingSteps
<1> HIDE DEF n
<1> DEFINE Good(i) == /\ sorted[i] \in Seq(S) /\ Len(sorted[i]) = i
                      /\ Measured(q, S) => Orderly(q, pool, i, sorted[i])
           P == {i \in 0..n : Good(i)}
<1>4. 0 \in P
  <2>1. 0 \in 0..n
    BY <1>1
  <2>2. << >> \in Seq(S) /\ Len(<< >>) = 0
    BY EmptySeq, Zenon
  <2>3. 1..0 = {}
    OBVIOUS
  <2>4. Orderly(q, pool, 0, sorted[0])
    BY <2>3, Zenon DEF Orderly
  <2> QED BY <1>3, <2>1, <2>2, <2>4, Zenon
<1>5. ASSUME NEW i \in 0..(n - 1), i \in P PROVE i + 1 \in P
  <2>1. i + 1 \in 0..n /\ i \in Nat
    BY <1>1
  <2>2. sorted[i + 1] = Inserted(sorted[i], pool[i + 1], q) /\ pool[i + 1] \in S
    BY <1>3, Zenon
  <2>3. sorted[i] \in Seq(S) /\ Len(sorted[i]) = i
        /\ (Measured(q, S) => Orderly(q, pool, i, sorted[i]))
    BY <1>5, Zenon
  <2>4. sorted[i + 1] \in Seq(S) /\ Len(sorted[i + 1]) = i + 1
    BY <2>2, <2>3, InsertedIn
  <2>5. Measured(q, S) => Orderly(q, pool, i + 1, sorted[i + 1])
    BY <2>1, <2>2, <2>3, InsertionKeepsOrder, Zenon
  <2> QED BY <2>1, <2>4, <2>5, Zenon
<1> HIDE DEF P
<1>6. 0..n \subseteq P
  BY <1>1, <1>4, <1>5, InductionUpTo
<1>7. Good(n)
  <2>1. n \in 0..n
    BY <1>1
  <2> QED BY <1>6, <2>1, Zenon DEF P
<1> QED BY <1>2, <1>7, Zenon DEF n

LEMMA MinOf ==
  ASSUME NEW a \in Int, NEW b \in Int
  PROVE  /\ Min({a, b}) \in {a, b} /\ Min({a, b}) <= a /\ Min({a, b}) <= b
BY DEF Min

LEMMA RankKeeps ==
  ASSUME NEW S, NEW pool \in Seq(S), NEW q
  PROVE  rank(pool, q) \in Seq(S)
<1>1. PICK s \in Seq(S) :
        /\ Len(s) = Len(pool)
        /\ rank(pool, q) = Top(s, q)
  BY SortedIn
<1> DEFINE m == Min({K, Len(s)})
           first == SubSeq(s, 1, m)
           p == [i \in DOMAIN first |-> IF Common(q, first[i]) > 0 THEN << first[i] >> ELSE << >>]
<1>2. m \in Int /\ m <= Len(s)
  <2>1. K \in Int /\ Len(s) \in Int
    BY LimitsAssumption
  <2> QED BY <1>1, <2>1, MinOf
<1> HIDE DEF m
<1>3. first \in Seq(S)
  BY <1>2, SubSeqProperties
<1> HIDE DEF first
<1>4. IsSeq(first) /\ \A i \in DOMAIN first : first[i] \in S
  BY <1>3, SeqIs
<1>5. rank(pool, q) = FlattenSeq(p)
  BY <1>1, Zenon DEF Top, Those, first, m
<1>6. /\ p = [i \in DOMAIN first |-> p[i]]
      /\ \A i \in DOMAIN first : p[i] = << >> \/ p[i] = << first[i] >>
  BY Zenon
<1> HIDE DEF p
<1>7. FlattenSeq(p) \in Seq(S)
  BY <1>4, <1>6, Filtered, Zenon
<1> QED BY <1>5, <1>7

(* Taking those of a sequence that pass a test which its first m pass and  *)
(* the others fail leaves these m.                                         *)
LEMMA PrefixKept ==
  ASSUME NEW S, NEW s \in Seq(S), NEW m \in 0..Len(s), NEW p,
         p = [i \in DOMAIN s |-> p[i]],
         \A i \in DOMAIN s : p[i] = IF i <= m THEN << s[i] >> ELSE << >>
  PROVE  Len(FlattenSeq(p)) = m /\ \A i \in 1..m : FlattenSeq(p)[i] = s[i]
<1> DEFINE n == Len(s)
<1>1. n \in Nat /\ DOMAIN s = 1..n /\ m \in 0..n /\ \A i \in 1..n : s[i] \in S
  OBVIOUS
<1>2. p \in Seq(Seq(S)) /\ Len(p) = n
  <2>1. ASSUME NEW i \in 1..n PROVE p[i] \in Seq(S)
    <3>1. << >> \in Seq(S) /\ << s[i] >> \in Seq(S)
      BY <1>1
    <3> QED BY <1>1, <3>1, Zenon
  <2>2. p \in [1..n -> Seq(S)]
    <3> HIDE DEF n
    <3> QED BY <1>1, <2>1
  <2> HIDE DEF n
  <2> QED BY <1>1, <2>2
<1>3. PICK g : Flattening(p, n, g) /\ FlattenSeq(p) = g[n]
  BY <1>2, FlattenUnfolds, Zenon
<1>4. g[0] = << >> /\ \A i \in 1..n : g[i] = g[i - 1] \o p[i]
  BY <1>3, Zenon DEF Flattening
<1>5. \A i \in 1..n : p[i] = IF i <= m THEN << s[i] >> ELSE << >>
  BY <1>1, Zenon
<1> HIDE DEF n
<1> DEFINE kept(i) == IF i <= m THEN i ELSE m
           Good(i) == /\ g[i] \in Seq(S) /\ Len(g[i]) = kept(i)
                      /\ \A j \in 1..kept(i) : g[i][j] = s[j]
           P == {i \in 0..n : Good(i)}
<1>6. 0 \in P
  <2>1. 0 \in 0..n /\ kept(0) = 0 /\ 1..0 = {}
    BY <1>1
  <2>2. << >> \in Seq(S) /\ Len(<< >>) = 0
    BY EmptySeq, Zenon
  <2> HIDE DEF kept
  <2> QED BY <1>4, <2>1, <2>2, Zenon
<1>7. ASSUME NEW i \in 0..(n - 1), i \in P PROVE i + 1 \in P
  <2>1. i + 1 \in 1..n /\ i + 1 \in 0..n /\ (i + 1) - 1 = i /\ i \in Nat /\ m \in Nat
    BY <1>1
  <2>2. g[i + 1] = g[i] \o p[i + 1]
    BY <1>4, <2>1, Zenon
  <2>3. /\ g[i] \in Seq(S) /\ Len(g[i]) = kept(i)
        /\ \A j \in 1..kept(i) : g[i][j] = s[j]
    BY <1>7, Zenon
  <2>4. CASE i + 1 <= m
    <3>1. kept(i) = i /\ kept(i + 1) = i + 1
      BY <2>1, <2>4
    <3>2. p[i + 1] = << s[i + 1] >>
      BY <1>5, <2>1, <2>4, Zenon
    <3> DEFINE e == s[i + 1]
               a == g[i]
               b == << e >>
    <3>3. a \in Seq(S) /\ b \in Seq(S) /\ Len(a) = i /\ Len(b) = 1 /\ b[1] = e
      <4>1. e \in S
        BY <1>1, <2>1
      <4> HIDE DEF e, a
      <4>2. b \in Seq(S) /\ Len(b) = 1 /\ b[1] = e
        BY <4>1
      <4> QED BY <2>3, <3>1, <4>2, Zenon DEF a
    <3>4. g[i + 1] = a \o b
      BY <2>2, <3>2, Zenon
    <3>5. \A j \in 1..i : a[j] = s[j]
      BY <2>3, <3>1, Zenon
    <3> HIDE DEF a, b, kept
    <3>6. /\ a \o b \in Seq(S) /\ Len(a \o b) = i + 1
          /\ \A j \in 1..(i + 1) : (a \o b)[j] = IF j <= i THEN a[j] ELSE b[j - i]
      <4>1. /\ a \o b \in Seq(S) /\ Len(a \o b) = Len(a) + Len(b)
            /\ \A j \in 1..(Len(a) + Len(b)) :
                  (a \o b)[j] = IF j <= Len(a) THEN a[j] ELSE b[j - Len(a)]
        BY <3>3, ConcatProperties, Zenon
      <4> QED BY <3>3, <4>1, Zenon
    <3>7. ASSUME NEW j \in 1..(i + 1) PROVE (a \o b)[j] = s[j]
      <4>1. CASE j <= i
        <5>1. j \in 1..i
          BY <2>1, <4>1
        <5> QED BY <3>5, <3>6, <4>1, <5>1, Zenon
      <4>2. CASE ~(j <= i)
        <5>1. j = i + 1 /\ j - i = 1
          BY <2>1, <4>2
        <5> QED BY <3>3, <3>6, <4>2, <5>1, Zenon DEF e
      <4> QED BY <4>1, <4>2
    <3>8. Good(i + 1)
      BY <3>1, <3>4, <3>6, <3>7, Zenon
    <3> QED BY <2>1, <3>8, Zenon
  <2>5. CASE ~(i + 1 <= m)
    <3>1. kept(i) = m /\ kept(i + 1) = m
      BY <2>1, <2>5
    <3>2. p[i + 1] = << >>
      BY <1>5, <2>1, <2>5, Zenon
    <3>3. g[i + 1] = g[i]
      BY <2>2, <2>3, <3>2, ConcatEmptySeq, Zenon
    <3> HIDE DEF kept
    <3>4. Good(i + 1)
      BY <2>3, <3>1, <3>3, Zenon
    <3> QED BY <2>1, <3>4, Zenon
  <2> QED BY <2>4, <2>5
<1> HIDE DEF P
<1>8. 0..n \subseteq P
  BY <1>1, <1>6, <1>7, InductionUpTo
<1>9. Good(n)
  <2>1. n \in 0..n
    BY <1>1
  <2> QED BY <1>8, <2>1, Zenon DEF P
<1>10. kept(n) = m
  BY <1>1
<1> HIDE DEF kept
<1> QED BY <1>3, <1>9, <1>10, Zenon

(* What rank returns are the closest examples, for every pool, question    *)
(* and K.                                                                  *)
LEMMA RankIsClosest ==
  ASSUME NEW S, NEW pool \in Seq(S), NEW q, Measured(q, S)
  PROVE  Closest(rank(pool, q), pool, q)
<1>1. PICK s \in Seq(S) :
        /\ Len(s) = Len(pool)
        /\ rank(pool, q) = Top(s, q)
        /\ Orderly(q, pool, Len(pool), s)
  BY SortedIn, Zenon
<1> DEFINE n == Len(pool)
           m == Min({K, Len(s)})
           first == SubSeq(s, 1, m)
           given == rank(pool, q)
<1>2. /\ n \in Nat /\ DOMAIN pool = 1..n /\ Len(s) = n /\ DOMAIN s = 1..n
      /\ \A i \in 1..n : pool[i] \in S /\ s[i] \in S
  BY <1>1
<1>3. m \in 0..n /\ (m < n => m = K)
  <2>1. K \in Nat /\ n \in Nat /\ Len(s) = n
    BY <1>2, LimitsAssumption
  <2> HIDE DEF n
  <2>2. K \in Int /\ n \in Int
    BY <2>1
  <2>3. Min({K, n}) \in {K, n} /\ Min({K, n}) <= K /\ Min({K, n}) <= n
    BY <2>2, MinOf
  <2> QED BY <2>1, <2>3
<1>4. /\ \A i, j \in 1..n : i < j => ~Closer(q, s[j], s[i])
      /\ \A i, j \in 1..n : i < j => Closer(q, s[i], s[j]) \/ CameBefore(pool, n, s[i], s[j])
      /\ \A i \in 1..n : \E a \in 1..n : pool[a] = s[i]
      /\ \A a \in 1..n : \E i \in 1..n : s[i] = pool[a]
  BY <1>1, Zenon DEF Orderly
<1> HIDE DEF n, m
<1>5. first \in Seq(S) /\ Len(first) = m /\ \A i \in 1..m : first[i] = s[i]
  <2>1. 1 \in 1..(n + 1) /\ m \in 0..n /\ \A i \in 1..m : 1 + i - 1 = i
    BY <1>2, <1>3
  <2>2. m \in (1 - 1)..Len(s) /\ 1 \in 1..(Len(s) + 1)
    BY <1>2, <2>1
  <2> QED BY <2>1, <2>2, SubSeqProperties
<1> HIDE DEF first
<1> DEFINE p == [i \in DOMAIN first |-> IF Common(q, first[i]) > 0 THEN << first[i] >> ELSE << >>]
<1>6. given = FlattenSeq(p)
  BY <1>1, Zenon DEF Top, Those, first, m
<1>7. ASSUME NEW i \in 1..n, NEW j \in 1..n, i < j, Common(q, s[j]) > 0
      PROVE  Common(q, s[i]) > 0
  <2>1. ~Closer(q, s[j], s[i]) /\ s[i] \in S /\ s[j] \in S
    BY <1>2, <1>4, <1>7, Zenon
  <2> QED BY <1>7, <2>1, CommonAbove, Zenon
(* How far the examples that share a word go.                              *)
<1>8. PICK l \in 0..m : \A i \in 1..m : Common(q, s[i]) > 0 <=> i <= l
  <2> DEFINE B == {i \in 1..m : ~(Common(q, s[i]) > 0)}
  <2>1. CASE B = {}
    <3>1. m \in 0..m /\ \A i \in 1..m : i <= m
      BY <1>3
    <3>2. \A i \in 1..m : Common(q, s[i]) > 0
      BY <2>1
    <3> QED BY <3>1, <3>2
  <2>2. CASE B # {}
    <3>1. PICK k \in B : \A y \in B : k <= y
      <4>1. B \in SUBSET Nat
        OBVIOUS
      <4> HIDE DEF B
      <4> QED BY <2>2, <4>1, SmallestOf
    <3>2. k \in 1..m /\ ~(Common(q, s[k]) > 0)
      BY <3>1
    <3>3. ASSUME NEW i \in 1..m PROVE Common(q, s[i]) > 0 <=> i <= k - 1
      <4>1. ASSUME ~(Common(q, s[i]) > 0) PROVE ~(i <= k - 1)
        <5>1. i \in B
          BY <4>1
        <5> HIDE DEF B
        <5>2. k <= i
          BY <3>1, <5>1
        <5> QED BY <1>3, <3>2, <5>2
      <4>2. ASSUME Common(q, s[i]) > 0 PROVE i <= k - 1
        <5>1. i # k
          BY <3>2, <4>2
        <5>2. ~(k < i)
          <6>1. k \in 1..n /\ i \in 1..n
            BY <1>2, <1>3, <3>2
          <6> QED BY <1>7, <3>2, <4>2, <6>1, Zenon
        <5> HIDE DEF B
        <5> QED BY <1>3, <3>2, <5>1, <5>2
      <4> QED BY <4>1, <4>2, Zenon
    <3>4. k - 1 \in 0..m
      BY <1>3, <3>2
    <3> QED BY <3>3, <3>4, Zenon
  <2> QED BY <2>1, <2>2
<1>9. l \in 0..n /\ l \in 0..Len(first) /\ \A i \in 1..l : i \in 1..m /\ i \in 1..n
  BY <1>2, <1>3, <1>5, <1>8
<1>10. DOMAIN first = 1..m
  BY <1>5
<1>11. /\ p = [i \in DOMAIN first |-> p[i]]
       /\ \A i \in DOMAIN first : p[i] = IF i <= l THEN << first[i] >> ELSE << >>
  BY <1>5, <1>8, <1>10, Zenon
<1> HIDE DEF p, given
<1>12. Len(given) = l /\ \A i \in 1..l : given[i] = s[i]
  <2>1. Len(FlattenSeq(p)) = l /\ \A i \in 1..l : FlattenSeq(p)[i] = first[i]
    BY <1>5, <1>9, <1>11, PrefixKept, Zenon
  <2> QED BY <1>5, <1>6, <1>9, <2>1, Zenon
<1>13. DOMAIN given = 1..l
  <2>1. given \in Seq(S)
    BY RankKeeps, Zenon DEF given
  <2> QED BY <1>12, <2>1
<1>14. ASSUME NEW i \in DOMAIN given
       PROVE  /\ given[i] = s[i] /\ given[i] \in S /\ i \in 1..n
              /\ Common(q, s[i]) > 0 /\ i <= l
  <2>1. i \in 1..l /\ i <= l
    BY <1>8, <1>13
  <2> QED BY <1>2, <1>8, <1>9, <1>12, <2>1, Zenon
<1>15. ASSUME NEW i \in DOMAIN given, NEW j \in DOMAIN given, i < j
       PROVE  /\ ~Closer(q, given[j], given[i])
              /\ Closer(q, given[i], given[j]) \/
                   \E a, b \in DOMAIN pool :
                     a < b /\ pool[a] = given[i] /\ pool[b] = given[j]
  <2>1. i \in 1..n /\ j \in 1..n /\ given[i] = s[i] /\ given[j] = s[j]
    BY <1>14
  <2>2. ~Closer(q, s[j], s[i])
    BY <1>4, <1>15, <2>1, Zenon
  <2>3. Closer(q, s[i], s[j]) \/ CameBefore(pool, n, s[i], s[j])
    BY <1>4, <1>15, <2>1, Zenon
  <2>4. CASE CameBefore(pool, n, s[i], s[j])
    <3>1. PICK a \in 1..n, b \in 1..n : a < b /\ pool[a] = s[i] /\ pool[b] = s[j]
      BY <2>4, Zenon DEF CameBefore
    <3>2. a \in DOMAIN pool /\ b \in DOMAIN pool
      BY <1>2, <3>1
    <3> QED BY <2>1, <2>2, <3>1, <3>2, Zenon
  <2> QED BY <2>1, <2>2, <2>3, <2>4, Zenon
<1>16. ASSUME NEW e \in ToSet(given)
       PROVE  e \in ToSet(pool) /\ q \cap tokens(e) # {}
  <2>1. PICK i \in DOMAIN given : e = given[i]
    BY DEF ToSet
  <2>2. Common(q, e) > 0 /\ e \in S /\ i \in 1..n /\ e = s[i]
    BY <1>14, <2>1, Zenon
  <2>3. q \cap tokens(e) # {}
    BY <2>2, MeasuredOne, Zenon
  <2>4. PICK a \in 1..n : pool[a] = s[i]
    BY <1>4, <2>2, Zenon
  <2>5. e \in ToSet(pool)
    BY <1>2, <2>2, <2>4 DEF ToSet
  <2> QED BY <2>3, <2>5
<1>17. ASSUME NEW e \in ToSet(pool) \ ToSet(given), q \cap tokens(e) # {}
       PROVE  Len(given) = K /\ \A g \in ToSet(given) : ~Closer(q, e, g)
  <2>1. PICK a \in 1..n : e = pool[a]
    BY <1>2 DEF ToSet
  <2>2. PICK i \in 1..n : s[i] = e
    BY <1>4, <2>1, Zenon
  <2>3. Common(q, s[i]) > 0
    BY <1>2, <1>17, <2>2, MeasuredOne, Zenon
  <2>4. ~(i <= l)
    <3>1. SUFFICES ASSUME i <= l PROVE FALSE
      OBVIOUS
    <3>2. i \in 1..l
      BY <1>9, <2>2, <3>1
    <3>3. e \in ToSet(given)
      BY <1>12, <1>13, <2>2, <3>2 DEF ToSet
    <3> QED BY <1>17, <3>3
  <2>5. ~(i <= m)
    <3>1. SUFFICES ASSUME i <= m PROVE FALSE
      OBVIOUS
    <3>2. i \in 1..m
      BY <1>3, <2>2, <3>1
    <3> QED BY <1>8, <2>3, <2>4, <3>2, Zenon
  <2>6. m = K /\ m < i
    BY <1>2, <1>3, <2>2, <2>5
  <2>7. l = m
    <3>1. SUFFICES ASSUME l # m PROVE FALSE
      OBVIOUS
    <3>2. m \in 1..m /\ m \in 1..n /\ ~(m <= l)
      BY <1>2, <1>3, <1>8, <3>1
    <3>3. Common(q, s[m]) > 0
      BY <1>7, <2>3, <2>6, <3>2, Zenon
    <3> QED BY <1>8, <3>2, <3>3, Zenon
  <2>8. ASSUME NEW g \in ToSet(given) PROVE ~Closer(q, e, g)
    <3>1. PICK j \in DOMAIN given : g = given[j]
      BY DEF ToSet
    <3>2. g = s[j] /\ j \in 1..n /\ j <= l
      BY <1>14, <3>1, Zenon
    <3>3. j < i
      BY <1>2, <1>3, <2>2, <2>6, <2>7, <3>2
    <3> QED BY <1>4, <2>2, <3>2, <3>3, Zenon
  <2> QED BY <1>12, <2>6, <2>7, <2>8, Zenon
<1>18. Closest(given, pool, q)
  BY <1>15, <1>16, <1>17, Zenon DEF Closest
<1> QED BY <1>18, Zenon DEF given

(* Whatever a run is shown are train lines of the file it opened.          *)
Train == {r \in ToSet(file) : r.split = "train"}

LEMMA StoreParts ==
  ASSUME IsSeq(file)
  PROVE  /\ Positives \in Seq(Train) /\ Negatives \in Seq(Train)
         /\ \A classes : NegativesOf(classes) \in Seq(Train)
         /\ NegativesOf({}) = << >>
<1>1. Store \in Seq(Train)
  BY StoreIsOfTrain DEF Train
<1>2. Positives \in Seq(Train)
  <2> DEFINE s == Store
             p == [i \in DOMAIN s |-> IF ~s[i].is_vulnerable THEN << s[i] >> ELSE << >>]
  <2>1. IsSeq(s) /\ \A i \in DOMAIN s : s[i] \in Train
    BY <1>1, SeqIs
  <2>2. Positives = FlattenSeq(p)
    BY Zenon DEF Positives, Those
  <2>3. /\ p = [i \in DOMAIN s |-> p[i]]
        /\ \A i \in DOMAIN s : p[i] = << >> \/ p[i] = << s[i] >>
    BY Zenon
  <2> HIDE DEF s, p
  <2>4. FlattenSeq(p) \in Seq(Train)
    BY <2>1, <2>3, Filtered, Zenon
  <2> QED BY <2>2, <2>4, Zenon
<1>3. Negatives \in Seq(Train)
  <2> DEFINE s == Store
             p == [i \in DOMAIN s |-> IF s[i].is_vulnerable THEN << s[i] >> ELSE << >>]
  <2>1. IsSeq(s) /\ \A i \in DOMAIN s : s[i] \in Train
    BY <1>1, SeqIs
  <2>2. Negatives = FlattenSeq(p)
    BY Zenon DEF Negatives, Those
  <2>3. /\ p = [i \in DOMAIN s |-> p[i]]
        /\ \A i \in DOMAIN s : p[i] = << >> \/ p[i] = << s[i] >>
    BY Zenon
  <2> HIDE DEF s, p
  <2>4. FlattenSeq(p) \in Seq(Train)
    BY <2>1, <2>3, Filtered, Zenon
  <2> QED BY <2>2, <2>4, Zenon
<1>4. ASSUME NEW classes
      PROVE  NegativesOf(classes) \in Seq(Train) /\ (classes = {} => NegativesOf(classes) = << >>)
  <2> DEFINE s == Negatives
             p == [i \in DOMAIN s |-> IF s[i].vuln_class \in classes THEN << s[i] >> ELSE << >>]
  <2>1. IsSeq(s) /\ \A i \in DOMAIN s : s[i] \in Train
    BY <1>3, SeqIs
  <2>2. NegativesOf(classes) = FlattenSeq(p)
    BY Zenon DEF NegativesOf, Those
  <2>3. /\ p = [i \in DOMAIN s |-> p[i]]
        /\ \A i \in DOMAIN s :
             p[i] = << >> \/ (p[i] = << s[i] >> /\ s[i].vuln_class \in classes)
    BY Zenon
  <2> HIDE DEF s, p
  <2>4. FlattenSeq(p) \in Seq(Train)
    BY <2>1, <2>3, Filtered, Zenon
  <2>5. ASSUME classes = {} PROVE FlattenSeq(p) = << >>
    <3>1. \A i \in DOMAIN s : p[i] = << >>
      BY <2>3, <2>5, Zenon
    <3>2. FlattenSeq(p) \in Seq({})
      BY <2>1, <2>3, <3>1, Filtered, Zenon
    <3> QED BY <3>2
  <2> QED BY <2>2, <2>4, <2>5, Zenon
<1> QED BY <1>2, <1>3, <1>4, Zenon

LEMMA RunsSeeTrain ==
  ASSUME IsSeq(file), NEW q, NEW classes
  PROVE  ToSet(retrieve_positive(q)) \cup ToSet(retrieve_negative(q, classes))
           \subseteq {r \in ToSet(file) : r.split = "train"}
<1>1. retrieve_positive(q) \in Seq(Train) /\ retrieve_negative(q, classes) \in Seq(Train)
  BY StoreParts, RankKeeps, Zenon DEF retrieve_positive, retrieve_negative
<1>2. /\ ToSet(retrieve_positive(q)) \subseteq Train
      /\ ToSet(retrieve_negative(q, classes)) \subseteq Train
  BY <1>1, SeqIs DEF ToSet
<1> QED BY <1>2 DEF Train

-----------------------------------------------------------------------------
(* The candidates.  A pair is written as two records only if its good      *)
(* version is not its bad one: for every table, of every class, it is not. *)
(* Both are words in order, so that their words can be counted.            *)
Proper(c) == c.bad # c.good /\ Phrased(c.nl, c.bad) /\ Phrased(c.nl, c.good)
AllProper(pool) == IsSeq(pool) /\ \A i \in DOMAIN pool : Proper(pool[i])

LEMMA ProperOfSeq ==
  ASSUME NEW S, NEW pool \in Seq(S), \A c \in S : Proper(c)
  PROVE  AllProper(pool)
BY SeqIs DEF AllProper

LEMMA ProperElements ==
  ASSUME NEW pool, AllProper(pool)
  PROVE  pool \in Seq(ToSet(pool)) /\ \A c \in ToSet(pool) : Proper(c)
BY DEF AllProper, IsSeq, ToSet

LEMMA ProperBoth ==
  ASSUME NEW a, NEW b, AllProper(a), AllProper(b)
  PROVE  AllProper(a \o b)
<1> DEFINE S == ToSet(a) \cup ToSet(b)
<1>1. /\ a \in Seq(ToSet(a)) /\ b \in Seq(ToSet(b))
      /\ \A c \in S : Proper(c)
  BY ProperElements
<1>2. ToSet(a) \subseteq S /\ ToSet(b) \subseteq S
  OBVIOUS
<1> HIDE DEF S
<1>3. a \in Seq(S) /\ b \in Seq(S)
  BY <1>1, <1>2, SeqMonotonic
<1>4. a \o b \in Seq(S)
  BY <1>3, ConcatProperties
<1> QED BY <1>1, <1>4, ProperOfSeq

LEMMA ProperPieces ==
  ASSUME NEW n \in Nat, NEW pieces, pieces = [i \in 1..n |-> pieces[i]],
         \A i \in 1..n : AllProper(pieces[i])
  PROVE  AllProper(FlattenSeq(pieces))
<1> DEFINE S == UNION {ToSet(pieces[i]) : i \in 1..n}
<1>1. ASSUME NEW i \in 1..n PROVE pieces[i] \in Seq(S)
  <2>1. pieces[i] \in Seq(ToSet(pieces[i]))
    BY ProperElements
  <2>2. ToSet(pieces[i]) \subseteq S
    OBVIOUS
  <2> HIDE DEF S
  <2> QED BY <2>1, <2>2, SeqMonotonic
<1>2. ASSUME NEW c \in S PROVE Proper(c)
  BY ProperElements
<1> HIDE DEF S
<1>3. pieces \in Seq(Seq(S))
  BY <1>1
<1>4. FlattenSeq(pieces) \in Seq(S)
  BY <1>3, Flattened
<1> QED BY <1>2, <1>4, ProperOfSeq

LEMMA ProperNone == AllProper(<< >>)
BY EmptySeq DEF AllProper, IsSeq

LEMMA ProperOne ==
  ASSUME NEW words, NEW bad, NEW good, bad # good,
         Phrased(words, bad), Phrased(words, good)
  PROVE  AllProper(Candidate(words, bad, good))
<1> DEFINE c == [nl |-> words, bad |-> bad, good |-> good]
<1>1. Proper(c)
  BY DEF Proper
<1> HIDE DEF c
<1>2. << c >> \in Seq({c})
  OBVIOUS
<1>3. AllProper(<< c >>)
  <2> DEFINE S == {c}
  <2>1. << c >> \in Seq(S) /\ \A x \in S : Proper(x)
    BY <1>1, <1>2
  <2> HIDE DEF S
  <2> QED BY <2>1, ProperOfSeq, Zenon
<1> QED BY <1>3 DEF Candidate, c

(* Words in order.                                                         *)
LEMMA TextOfWords ==
  ASSUME NEW a, NEW b, NEW c, NEW d
  PROVE  /\ IsSeq(<< >>) /\ IsSeq(<< a >>) /\ IsSeq(<< a, b >>)
         /\ IsSeq(<< a, b, c >>) /\ IsSeq(<< a, b, c, d >>)
<1> DEFINE S == {a, b, c, d}
<1>1. /\ << >> \in Seq(S) /\ << a >> \in Seq(S) /\ << a, b >> \in Seq(S)
      /\ << a, b, c >> \in Seq(S) /\ << a, b, c, d >> \in Seq(S)
  OBVIOUS
<1> HIDE DEF S
<1> QED BY <1>1, SeqIs, Zenon

LEMMA TextJoined ==
  ASSUME NEW a, NEW b, IsSeq(a), IsSeq(b)
  PROVE  IsSeq(a \o b)
<1> DEFINE S == ToSet(a) \cup ToSet(b)
<1>1. a \in Seq(ToSet(a)) /\ b \in Seq(ToSet(b)) /\ ToSet(a) \subseteq S /\ ToSet(b) \subseteq S
  BY DEF IsSeq
<1> HIDE DEF S
<1>2. a \in Seq(S) /\ b \in Seq(S)
  BY <1>1, SeqMonotonic
<1>3. a \o b \in Seq(S)
  BY <1>2, ConcatProperties
<1> QED BY <1>3, SeqIs, Zenon

LEMMA TextAppended ==
  ASSUME NEW a, IsSeq(a), NEW x
  PROVE  IsSeq(Append(a, x))
<1> DEFINE S == ToSet(a) \cup {x}
<1>1. a \in Seq(ToSet(a)) /\ ToSet(a) \subseteq S /\ x \in S
  BY DEF IsSeq
<1> HIDE DEF S
<1>2. a \in Seq(S)
  BY <1>1, SeqMonotonic
<1>3. Append(a, x) \in Seq(S)
  BY <1>1, <1>2, AppendProperties
<1> QED BY <1>3, SeqIs, Zenon

LEMMA StatementPhrased ==
  ASSUME NEW words, IsSeq(words), NEW cols, IsSeq(cols), NEW where, IsSeq(where),
         NEW tail, IsSeq(tail), NEW do, NEW from, NEW limit
  PROVE  Phrased(words, Statement(do, cols, from, where, tail, limit))
BY DEF Statement, Phrased

LEMMA ActiveIsSeq ==
  ASSUME NEW t
  PROVE  IsSeq(Active(t))
BY TextOfWords, Zenon DEF Active

(* Two statements differ when one of their parts does.                     *)
LEMMA StatementsDiffer ==
  ASSUME NEW do, NEW from, NEW cols, NEW cols2, NEW where, NEW where2,
         NEW tail, NEW tail2, NEW limit, NEW limit2,
         cols # cols2 \/ where # where2 \/ tail # tail2 \/ limit # limit2
  PROVE  Statement(do, cols, from, where, tail, limit)
           # Statement(do, cols2, from, where2, tail2, limit2)
BY DEF Statement
(* Parts of statements that differ.                                        *)
LEMMA PartsDiffer ==
  ASSUME NEW x, NEW a, NEW b
  PROVE  /\ << a >> # << >> /\ << a, b >> # << >> /\ << a >> # << a, b >>
         /\ a # b => << a >> # << b >> /\ << x, a >> # << x, b >>
         /\ << a >> # << x, b >>
         /\ << x, a >> # << b >>
OBVIOUS

(* A list of columns that starts with the id of the table.                 *)
LEMMA FirstIsSeq ==
  ASSUME NEW s
  PROVE  IsSeq(First(s)) /\ Len(First(s)) \in 0..1
<1> DEFINE x == Head(s)
<1>1. First(s) = << >> \/ First(s) = << x >>
  BY DEF First
<1> HIDE DEF x
<1>2. << x >> \in Seq({x}) /\ Len(<< x >>) = 1
  OBVIOUS
<1>3. IsSeq(<< x >>) /\ IsSeq(<< >>) /\ Len(<< >>) = 0
  BY <1>2, SeqIs, EmptySeq
<1> QED BY <1>1, <1>2, <1>3

LEMMA IdLeads ==
  ASSUME NEW a, IsSeq(a)
  PROVE  /\ IsSeq(<< "id" >> \o a) /\ (<< "id" >> \o a)[1] = "id"
         /\ 1 \in DOMAIN (<< "id" >> \o a)
<1> DEFINE S == ToSet(a) \cup {"id"}
           b == << "id" >>
<1>1. a \in Seq(ToSet(a)) /\ ToSet(a) \subseteq S
  BY DEF IsSeq
<1>2. b \in Seq({"id"}) /\ {"id"} \subseteq S /\ Len(b) = 1 /\ b[1] = "id"
  OBVIOUS
<1> HIDE DEF S, b
<1>3. a \in Seq(S) /\ b \in Seq(S)
  BY <1>1, <1>2, SeqMonotonic
<1>4. b \o a \in Seq(S) /\ Len(b \o a) = Len(b) + Len(a) /\ Len(a) \in Nat
      /\ (b \o a)[1] = b[1]
  BY <1>2, <1>3, ConcatProperties
<1>5. IsSeq(b \o a) /\ DOMAIN (b \o a) = 1..Len(b \o a)
  BY <1>4, SeqIs, Zenon
<1>6. 1 \in DOMAIN (b \o a)
  BY <1>2, <1>4, <1>5
<1> QED BY <1>2, <1>4, <1>5, <1>6 DEF b

LEMMA MoreColumns ==
  ASSUME NEW a, IsSeq(a), 1 \in DOMAIN a, NEW b, IsSeq(b)
  PROVE  IsSeq(a \o b) /\ (a \o b)[1] = a[1] /\ 1 \in DOMAIN (a \o b)
<1> DEFINE S == ToSet(a) \cup ToSet(b)
<1>1. /\ a \in Seq(ToSet(a)) /\ ToSet(a) \subseteq S
      /\ b \in Seq(ToSet(b)) /\ ToSet(b) \subseteq S
  BY DEF IsSeq
<1> HIDE DEF S
<1>2. a \in Seq(S) /\ b \in Seq(S)
  BY <1>1, SeqMonotonic
<1>3. a \o b \in Seq(S) /\ Len(a \o b) = Len(a) + Len(b) /\ Len(a) \in Nat /\ Len(b) \in Nat
      /\ Len(a) >= 1 /\ (a \o b)[1] = a[1]
  BY <1>2, ConcatProperties
<1>4. IsSeq(a \o b) /\ DOMAIN (a \o b) = 1..Len(a \o b)
  BY <1>3, SeqIs, Zenon
<1> QED BY <1>3, <1>4

LEMMA LimitsAreLimits ==
  ASSUME NEW i \in Nat
  PROVE  Nth(LIMITS, i) # ""
<1>1. Len(LIMITS) = 5
  BY DEF LIMITS
<1>2. (i % 5) + 1 \in 1..5
  OBVIOUS
<1>3. \A k \in 1..5 : LIMITS[k] # ""
  <2>1. /\ LIMITS[1] # "" /\ LIMITS[2] # "" /\ LIMITS[3] # "" /\ LIMITS[4] # ""
        /\ LIMITS[5] # ""
    BY DEF LIMITS
  <2>2. \A k \in 1..5 : k = 1 \/ k = 2 \/ k = 3 \/ k = 4 \/ k = 5
    OBVIOUS
  <2> QED BY <2>1, <2>2, Zenon
<1> QED BY <1>1, <1>2, <1>3 DEF Nth

LEMMA NoPaginationIsProper ==
  ASSUME NEW t, NEW i \in Nat, IsSeq(t.name_col)
  PROVE  AllProper(gen_no_pagination(t, i))
<1> DEFINE order == IF t.dates # << >> THEN First(t.dates) ELSE << "id" >>
           Listing(limit) == Select(<< "id" >> \o t.name_col \o First(t.nums), t, << >>,
                                    Append(order, "DESC"), limit)
<1>1. Listing("") # Listing(Nth(LIMITS, i))
  BY LimitsAreLimits, StatementsDiffer, Zenon DEF Select
<1>3. ASSUME NEW limit PROVE Phrased(<< "export", t.label >>, Listing(limit))
  <2> DEFINE words == << "export", t.label >>
             cols == << "id" >> \o t.name_col \o First(t.nums)
             tail == Append(order, "DESC")
  <2>1. IsSeq(words) /\ IsSeq(<< >>) /\ IsSeq(<< "id" >>)
    BY TextOfWords, Zenon
  <2>2. IsSeq(cols)
    BY <2>1, FirstIsSeq, TextJoined, Zenon
  <2>3. IsSeq(tail)
    BY <2>1, FirstIsSeq, TextAppended, Zenon
  <2> HIDE DEF words, cols, tail
  <2>4. Phrased(words, Statement("SELECT", cols, t.name, << >>, tail, limit))
    BY <2>1, <2>2, <2>3, StatementPhrased, Zenon
  <2> QED BY <2>4, Zenon DEF words, cols, tail, Select
<1>2. gen_no_pagination(t, i) = IF ~Named(t) THEN << >>
        ELSE Candidate(<< "export", t.label >>, Listing(""), Listing(Nth(LIMITS, i)))
  BY Zenon DEF gen_no_pagination
<1> HIDE DEF Listing
<1> QED BY <1>1, <1>2, <1>3, ProperOne, ProperNone, Zenon

LEMMA DmlIsProper ==
  ASSUME NEW t, NEW i \in Nat
  PROVE  AllProper(gen_dml_no_where(t, i))
<1> DEFINE Delete(where) == Statement("DELETE", << >>, t.name, where, << >>, "")
           Close(where) == Statement("UPDATE", << "status" >>, t.name, where, << >>, "")
           Remove1(bad, good) == Candidate(<< "remove", t.label >>, bad, good)
           Close1(bad, good) == Candidate(<< "close", t.label >>, bad, good)
<1>1. /\ Close(<< >>) # Close(<< "id = $1" >>)
      /\ Delete(<< >>) # Delete(<< "id = $1" >>)
      /\ Delete(<< "1 = 1" >>) # Delete(<< "id = $1", "status = 0" >>)
      /\ Close(<< "1 = 1" >>) # Close(<< "id = $1" >>)
  <2>1. "1 = 1" # "id = $1"
    OBVIOUS
  <2> QED BY <2>1, PartsDiffer, StatementsDiffer, Zenon
<1>3. ASSUME NEW where, IsSeq(where)
      PROVE  /\ Phrased(<< "remove", t.label >>, Delete(where))
             /\ Phrased(<< "close", t.label >>, Close(where))
  <2>1. /\ IsSeq(<< "remove", t.label >>) /\ IsSeq(<< "close", t.label >>)
        /\ IsSeq(<< >>) /\ IsSeq(<< "status" >>)
    BY TextOfWords, Zenon
  <2> QED BY <1>3, <2>1, StatementPhrased, Zenon
<1>4. /\ IsSeq(<< >>) /\ IsSeq(<< "id = $1" >>) /\ IsSeq(<< "1 = 1" >>)
      /\ IsSeq(<< "id = $1", "status = 0" >>)
  BY TextOfWords, Zenon
<1>2. \/ gen_dml_no_where(t, i) = << >>
      \/ gen_dml_no_where(t, i) = Close1(Close(<< >>), Close(<< "id = $1" >>))
      \/ gen_dml_no_where(t, i) = Remove1(Delete(<< >>), Delete(<< "id = $1" >>))
      \/ gen_dml_no_where(t, i) = Remove1(Delete(<< "1 = 1" >>),
                                         Delete(<< "id = $1", "status = 0" >>))
      \/ gen_dml_no_where(t, i) = Close1(Close(<< "1 = 1" >>), Close(<< "id = $1" >>))
  <2>1. i % 4 = 0 \/ i % 4 = 1 \/ i % 4 = 2 \/ i % 4 = 3
    OBVIOUS
  <2>2. gen_dml_no_where(t, i) =
          IF ~(t.id_col /\ t.has_status) THEN << >>
          ELSE CASE i % 4 = 0 -> Close1(Close(<< >>), Close(<< "id = $1" >>))
                 [] i % 4 = 1 -> Remove1(Delete(<< >>), Delete(<< "id = $1" >>))
                 [] i % 4 = 2 -> Remove1(Delete(<< "1 = 1" >>),
                                         Delete(<< "id = $1", "status = 0" >>))
                 [] i % 4 = 3 -> Close1(Close(<< "1 = 1" >>), Close(<< "id = $1" >>))
    BY Zenon DEF gen_dml_no_where
  <2> DEFINE p == Close1(Close(<< >>), Close(<< "id = $1" >>))
             q == Remove1(Delete(<< >>), Delete(<< "id = $1" >>))
             r == Remove1(Delete(<< "1 = 1" >>), Delete(<< "id = $1", "status = 0" >>))
             s == Close1(Close(<< "1 = 1" >>), Close(<< "id = $1" >>))
             out == gen_dml_no_where(t, i)
  <2> HIDE DEF Delete, Close, Remove1, Close1, p, q, r, s, out
  <2>3. out = IF ~(t.id_col /\ t.has_status) THEN << >>
              ELSE CASE i % 4 = 0 -> p [] i % 4 = 1 -> q [] i % 4 = 2 -> r [] i % 4 = 3 -> s
    BY <2>2, Zenon DEF p, q, r, s, out
  <2>4. out = << >> \/ out = p \/ out = q \/ out = r \/ out = s
    BY <2>1, <2>3
  <2> QED BY <2>4, Zenon DEF p, q, r, s, out
<1> HIDE DEF Delete, Close
<1> QED BY <1>1, <1>2, <1>3, <1>4, ProperOne, ProperNone, Zenon

LEMMA SlowQueryIsProper ==
  ASSUME NEW t, NEW i \in Nat, IsSeq(t.name_col)
  PROVE  AllProper(gen_slow_query(t, i))
<1> DEFINE text == Nth(t.texts, i)
           Find(where) == Select(<< "id" >> \o t.name_col, t, where, << >>, "1000")
           Page(where, tail) == Select(<< "id" >> \o t.name_col, t, where, tail, "50")
           p == Candidate(<< "search", t.label, text >>,
                          Find(<< text, "LIKE", "%abv%" >>), Find(<< text, "LIKE", "$1" >>))
           q == Candidate(<< "find", t.label, text >>,
                          Find(<< "LOWER", text, "abv" >>), Find(<< text, "= $1" >>))
           r == Candidate(<< "page", t.label >>,
                          Page(<< >>, << "id", "OFFSET" >>), Page(<< "id > $1" >>, << "id" >>))
           out == gen_slow_query(t, i)
<1>1. /\ Find(<< text, "LIKE", "%abv%" >>) # Find(<< text, "LIKE", "$1" >>)
      /\ Find(<< "LOWER", text, "abv" >>) # Find(<< text, "= $1" >>)
      /\ Page(<< >>, << "id", "OFFSET" >>) # Page(<< "id > $1" >>, << "id" >>)
  <2> HIDE DEF text
  <2>1. /\ << text, "LIKE", "%abv%" >> # << text, "LIKE", "$1" >>
        /\ << "LOWER", text, "abv" >> # << text, "= $1" >>
        /\ << >> # << "id > $1" >>
    OBVIOUS
  <2> QED BY <2>1, StatementsDiffer, Zenon DEF Select
<1>2. out = IF ~(t.id_col /\ t.texts # << >>) THEN << >>
            ELSE CASE i % 3 = 0 -> p [] i % 3 = 1 -> q [] i % 3 = 2 -> r
  BY Zenon DEF gen_slow_query
<1>7. ASSUME NEW words, IsSeq(words), NEW where, IsSeq(where), NEW tail, IsSeq(tail)
      PROVE  Phrased(words, Find(where)) /\ Phrased(words, Page(where, tail))
  <2> DEFINE cols == << "id" >> \o t.name_col
  <2>1. IsSeq(<< >>) /\ IsSeq(<< "id" >>)
    BY TextOfWords, Zenon
  <2>2. IsSeq(cols)
    BY <2>1, TextJoined, Zenon
  <2> QED BY <1>7, <2>1, <2>2, StatementPhrased, Zenon DEF Select
<1>8. /\ IsSeq(<< "search", t.label, text >>) /\ IsSeq(<< "find", t.label, text >>)
      /\ IsSeq(<< "page", t.label >>)
      /\ IsSeq(<< text, "LIKE", "%abv%" >>) /\ IsSeq(<< text, "LIKE", "$1" >>)
      /\ IsSeq(<< "LOWER", text, "abv" >>) /\ IsSeq(<< text, "= $1" >>)
      /\ IsSeq(<< >>) /\ IsSeq(<< "id", "OFFSET" >>) /\ IsSeq(<< "id > $1" >>)
      /\ IsSeq(<< "id" >>)
  BY TextOfWords, Zenon
<1> HIDE DEF Find, Page
<1>3. AllProper(p) /\ AllProper(q) /\ AllProper(r)
  BY <1>1, <1>7, <1>8, ProperOne, Zenon
<1> HIDE DEF p, q, r, out
<1>4. i % 3 = 0 \/ i % 3 = 1 \/ i % 3 = 2
  OBVIOUS
<1>5. out = << >> \/ out = p \/ out = q \/ out = r
  BY <1>2, <1>4
<1>6. AllProper(out)
  BY <1>3, <1>5, ProperNone, Zenon
<1> QED BY <1>6 DEF out

LEMMA InjectedIsProper ==
  ASSUME NEW t, IsSeq(t.name_col), NEW words, IsSeq(words), NEW where, IsSeq(where),
         NEW tail, IsSeq(tail), NEW good, IsSeq(good), where # good
  PROVE  AllProper(Injected(t, words, where, tail, good))
<1> DEFINE cols == << "id" >> \o t.name_col
           Injecting(condition, order) == Select(cols, t, condition, order, "")
<1>1. IsSeq(<< >>) /\ IsSeq(<< "id" >>)
  BY TextOfWords, Zenon
<1>2. IsSeq(cols)
  BY <1>1, TextJoined, Zenon
<1>3. Phrased(words, Injecting(where, tail)) /\ Phrased(words, Injecting(good, << >>))
  BY <1>1, <1>2, StatementPhrased, Zenon DEF Select
<1>4. Injecting(where, tail) # Injecting(good, << >>)
  BY StatementsDiffer, Zenon DEF Select
<1>5. Injected(t, words, where, tail, good)
        = Candidate(words, Injecting(where, tail), Injecting(good, << >>))
  BY Zenon DEF Injected
<1> HIDE DEF Injecting
<1> QED BY <1>3, <1>4, <1>5, ProperOne, Zenon

LEMMA ClassicIsProper ==
  ASSUME NEW t, NEW i, IsSeq(t.name_col)
  PROVE  AllProper(gen_sqli_classic(t, i))
<1> DEFINE text == Nth(t.texts, i)
<1>1. << text, "user_input" >> # << text, "= $1" >>
  <2> HIDE DEF text
  <2> QED OBVIOUS
<1>2. /\ IsSeq(<< "find", t.label, text, "user" >>) /\ IsSeq(<< text, "user_input" >>)
      /\ IsSeq(<< >>) /\ IsSeq(<< text, "= $1" >>)
  BY TextOfWords, Zenon
<1> QED BY <1>1, <1>2, InjectedIsProper, ProperNone, Zenon DEF gen_sqli_classic

LEMMA UnionIsProper ==
  ASSUME NEW t, NEW i, IsSeq(t.name_col)
  PROVE  AllProper(gen_sqli_union(t, i))
<1> DEFINE text == Nth(t.texts, i)
<1>1. << text, "LIKE", "x" >> # << text, "LIKE", "$1" >>
  <2> HIDE DEF text
  <2> QED OBVIOUS
<1>2. /\ IsSeq(<< "search", t.label, text, "user" >>) /\ IsSeq(<< text, "LIKE", "x" >>)
      /\ IsSeq(<< "UNION", "sys_object" >>) /\ IsSeq(<< text, "LIKE", "$1" >>)
  BY TextOfWords, Zenon
<1> QED BY <1>1, <1>2, InjectedIsProper, ProperNone, Zenon DEF gen_sqli_union

LEMMA TimeIsProper ==
  ASSUME NEW t, NEW i
  PROVE  AllProper(gen_sqli_time(t, i))
<1>1. << "id = 1", "OR", "pg_sleep" >> # << "id = $1" >>
  OBVIOUS
<1> DEFINE words == << "check", t.label, "id" >>
           Check(where) == Select(<< "id" >>, t, where, << >>, "")
<1>2. /\ IsSeq(words) /\ IsSeq(<< "id" >>) /\ IsSeq(<< >>)
      /\ IsSeq(<< "id = 1", "OR", "pg_sleep" >>) /\ IsSeq(<< "id = $1" >>)
  BY TextOfWords, Zenon
<1>3. \A where : IsSeq(where) => Phrased(words, Check(where))
  BY <1>2, StatementPhrased, Zenon DEF Select
<1>4. Check(<< "id = 1", "OR", "pg_sleep" >>) # Check(<< "id = $1" >>)
  BY <1>1, StatementsDiffer, Zenon DEF Select
<1>5. gen_sqli_time(t, i) =
        IF ~t.id_col THEN << >>
        ELSE Candidate(words, Check(<< "id = 1", "OR", "pg_sleep" >>), Check(<< "id = $1" >>))
  BY Zenon DEF gen_sqli_time
<1> HIDE DEF Check, words
<1> QED BY <1>2, <1>3, <1>4, <1>5, ProperOne, ProperNone, Zenon

LEMMA PrivEscalateIsProper ==
  ASSUME NEW t, NEW i
  PROVE  AllProper(gen_priv_escalate(t, i))
<1> DEFINE col == IF t.nums # << >> THEN First(t.nums) ELSE First(t.texts)
           Wrapper(path) == Statement("CREATE get", col, t.name,
                                      << "SECURITY DEFINER" >> \o path, << >>, "")
<1>1. << "SECURITY DEFINER" >> \o << >> # << "SECURITY DEFINER" >> \o << "search_path" >>
  OBVIOUS
<1>2. Wrapper(<< >>) # Wrapper(<< "search_path" >>)
  BY <1>1, StatementsDiffer, Zenon
<1>3. gen_priv_escalate(t, i) =
        IF ~t.id_col \/ col = << >> THEN << >>
        ELSE Candidate(<< "wrapper", t.label, Head(col) >>,
                       Wrapper(<< >>), Wrapper(<< "search_path" >>))
  BY Zenon DEF gen_priv_escalate
<1>4. ASSUME NEW path, IsSeq(path)
      PROVE  Phrased(<< "wrapper", t.label, Head(col) >>, Wrapper(path))
  <2> DEFINE words == << "wrapper", t.label, Head(col) >>
             where == << "SECURITY DEFINER" >> \o path
  <2>1. IsSeq(words) /\ IsSeq(<< "SECURITY DEFINER" >>) /\ IsSeq(<< >>)
    BY TextOfWords, Zenon
  <2>2. IsSeq(col)
    BY FirstIsSeq, Zenon
  <2>3. IsSeq(where)
    BY <1>4, <2>1, TextJoined, Zenon
  <2> HIDE DEF words, where, col
  <2>4. Phrased(words, Statement("CREATE get", col, t.name, where, << >>, ""))
    BY <2>1, <2>2, <2>3, StatementPhrased, Zenon
  <2> QED BY <2>4, Zenon DEF words, where
<1>5. IsSeq(<< >>) /\ IsSeq(<< "search_path" >>)
  BY TextOfWords, Zenon
<1> HIDE DEF Wrapper, col
<1> QED BY <1>2, <1>3, <1>4, <1>5, ProperOne, ProperNone, Zenon

LEMMA PlpgsqlIsProper ==
  ASSUME NEW t, NEW i
  PROVE  AllProper(gen_plpgsql_unsafe(t, i))
<1> DEFINE text == Nth(t.texts, i)
<1>1. << text, "|| p" >> # << text, "USING p" >>
  <2> HIDE DEF text
  <2> QED OBVIOUS
<1> DEFINE words == << "function", t.label, text >>
           Search(where) == Statement("CREATE find", << "*" >>, t.name, where, << >>, "")
<1>2. /\ IsSeq(words) /\ IsSeq(<< "*" >>) /\ IsSeq(<< >>)
      /\ IsSeq(<< text, "|| p" >>) /\ IsSeq(<< text, "USING p" >>)
  BY TextOfWords, Zenon
<1>3. \A where : IsSeq(where) => Phrased(words, Search(where))
  BY <1>2, StatementPhrased, Zenon
<1>4. Search(<< text, "|| p" >>) # Search(<< text, "USING p" >>)
  BY <1>1, StatementsDiffer, Zenon
<1>5. gen_plpgsql_unsafe(t, i) =
        IF t.texts = << >> THEN << >>
        ELSE Candidate(words, Search(<< text, "|| p" >>), Search(<< text, "USING p" >>))
  BY Zenon DEF gen_plpgsql_unsafe
<1> HIDE DEF Search, words
<1> QED BY <1>2, <1>3, <1>4, <1>5, ProperOne, ProperNone, Zenon

LEMMA SelectStarIsProper ==
  ASSUME NEW t, NEW i, IsSeq(t.name_col)
  PROVE  AllProper(gen_select_star(t, i))
<1> DEFINE n == Nth(LIMITS, i)
           cols == << "id" >> \o t.name_col \o First(t.nums) \o First(t.dates)
<1>1. cols[1] = "id"
  <2> DEFINE a == << "id" >> \o t.name_col
             b == a \o First(t.nums)
             c == b \o First(t.dates)
  <2>1. IsSeq(First(t.nums)) /\ IsSeq(First(t.dates))
    BY FirstIsSeq
  <2>2. IsSeq(a) /\ a[1] = "id" /\ 1 \in DOMAIN a
    BY IdLeads
  <2> HIDE DEF a
  <2>3. IsSeq(b) /\ b[1] = "id" /\ 1 \in DOMAIN b
    BY <2>1, <2>2, MoreColumns
  <2> HIDE DEF b
  <2>4. c[1] = "id"
    BY <2>1, <2>3, MoreColumns
  <2> QED BY <2>4, Zenon DEF a, b, c
<1>5. IsSeq(cols)
  <2>1. IsSeq(<< "id" >>)
    BY TextOfWords, Zenon
  <2> QED BY <2>1, FirstIsSeq, TextJoined, Zenon
<1> HIDE DEF cols
<1>2. << "*" >>[1] = "*" /\ "*" # "id"
  OBVIOUS
<1>3. cols # << "*" >>
  BY <1>1, <1>2, Zenon
<1>4. gen_select_star(t, i) =
        IF ~Named(t) THEN << >>
        ELSE Candidate(<< "show", t.label, "all" >>,
                       Statement("SELECT", << "*" >>, t.name, Active(t), << >>, n),
                       Statement("SELECT", cols, t.name, Active(t), << >>, n))
  BY Zenon DEF gen_select_star, Select, cols
<1> DEFINE words == << "show", t.label, "all" >>
           Show(list) == Statement("SELECT", list, t.name, Active(t), << >>, n)
<1>6. IsSeq(words) /\ IsSeq(<< "*" >>) /\ IsSeq(<< >>) /\ IsSeq(Active(t))
  BY TextOfWords, ActiveIsSeq, Zenon
<1>7. \A list : IsSeq(list) => Phrased(words, Show(list))
  <2> HIDE DEF n, words
  <2> QED BY <1>6, StatementPhrased, Zenon
<1>8. Show(<< "*" >>) # Show(cols)
  BY <1>3, StatementsDiffer, Zenon
<1>9. gen_select_star(t, i) =
        IF ~Named(t) THEN << >> ELSE Candidate(words, Show(<< "*" >>), Show(cols))
  BY <1>4, Zenon
<1> HIDE DEF n, words, Show
<1> QED BY <1>5, <1>6, <1>7, <1>8, <1>9, ProperOne, ProperNone, Zenon

(* The sensitive columns.  None is the id, which a masked list leads with. *)
Sensitive ==
  {"first_name", "second_name", "sur_name", "email", "phone", "birthday",
   "inn", "contact_phone", "attr_email", "credit_amount", "special_purpose",
   "financial_position", "reserve_size", "turnover_debit", "turnover_credit",
   "output_balance_debit", "full_name", "passport", "snils", "birth_date",
   "address", "card_number", "cvv", "expiry", "pan", "login", "password_hash",
   "api_token"}

LEMMA SensitiveColumns ==
  ASSUME NEW name
  PROVE  SENSITIVE_COLS(name) \in Seq(Sensitive)
<1> DEFINE S == Sensitive
<1>1. << "first_name", "second_name", "sur_name", "email", "phone", "birthday" >> \in Seq(S)
  BY DEF Sensitive
<1>2. << "inn", "contact_phone", "attr_email" >> \in Seq(S)
  BY DEF Sensitive
<1>3. << "credit_amount", "special_purpose", "financial_position", "reserve_size" >> \in Seq(S)
  BY DEF Sensitive
<1>4. << "turnover_debit", "turnover_credit", "output_balance_debit" >> \in Seq(S)
  BY DEF Sensitive
<1>5. << "full_name", "passport", "snils", "inn", "phone", "email", "birth_date", "address" >>
        \in Seq(S)
  BY DEF Sensitive
<1>6. << "card_number", "cvv", "expiry", "pan" >> \in Seq(S)
  BY DEF Sensitive
<1>7. << "login", "password_hash", "api_token", "phone" >> \in Seq(S)
  BY DEF Sensitive
<1>8. << >> \in Seq(S)
  OBVIOUS
<1> HIDE DEF S
<1>9. SENSITIVE_COLS(name) \in
        {<< "first_name", "second_name", "sur_name", "email", "phone", "birthday" >>,
         << "inn", "contact_phone", "attr_email" >>,
         << "credit_amount", "special_purpose", "financial_position", "reserve_size" >>,
         << "turnover_debit", "turnover_credit", "output_balance_debit" >>,
         << "full_name", "passport", "snils", "inn", "phone", "email", "birth_date",
            "address" >>,
         << "card_number", "cvv", "expiry", "pan" >>,
         << "login", "password_hash", "api_token", "phone" >>, << >>}
  BY DEF SENSITIVE_COLS
<1> QED BY <1>1, <1>2, <1>3, <1>4, <1>5, <1>6, <1>7, <1>8, <1>9, Zenon DEF S

LEMMA MaskedIsSeq ==
  ASSUME NEW t, NEW col
  PROVE  IsSeq(mask_expr(t, col))
<1> DEFINE w == IF col \in {"card_number", "pan", "inn"} THEN "last4"
                ELSE IF col \in {"first_name", "second_name", "sur_name", "full_name"}
                THEN "initial" ELSE "masked"
<1>1. mask_expr(t, col) = << >> \/ mask_expr(t, col) = << col, w >>
  BY Zenon DEF mask_expr
<1> HIDE DEF w
<1>2. << col, w >> \in Seq({col, w})
  OBVIOUS
<1>3. IsSeq(<< col, w >>) /\ IsSeq(<< >>)
  BY <1>2, SeqIs, EmptySeq
<1> QED BY <1>1, <1>3, Zenon

LEMMA FlattenedIsSeq ==
  ASSUME NEW n \in Nat, NEW pieces, pieces = [i \in 1..n |-> pieces[i]],
         \A i \in 1..n : IsSeq(pieces[i])
  PROVE  IsSeq(FlattenSeq(pieces))
<1> DEFINE S == UNION {ToSet(pieces[i]) : i \in 1..n}
<1>1. ASSUME NEW i \in 1..n PROVE pieces[i] \in Seq(S)
  <2>1. pieces[i] \in Seq(ToSet(pieces[i]))
    BY DEF IsSeq
  <2>2. ToSet(pieces[i]) \subseteq S
    OBVIOUS
  <2> HIDE DEF S
  <2> QED BY <2>1, <2>2, SeqMonotonic
<1> HIDE DEF S
<1>2. pieces \in Seq(Seq(S))
  BY <1>1
<1> QED BY <1>2, Flattened, SeqIs
(* A chunk of sensitive columns is never what it is masked to.             *)
MaskedColumns(t, chunk) ==
  LET masks == FlattenSeq([i \in DOMAIN chunk |-> mask_expr(t, chunk[i])])
  IN  << "id" >> \o (IF masks = << >> THEN << "id" >> ELSE masks)

LEMMA MaskingChanges ==
  ASSUME NEW t, NEW chunk \in Seq(Sensitive)
  PROVE  chunk # MaskedColumns(t, chunk) /\ IsSeq(MaskedColumns(t, chunk))
<1> DEFINE pieces == [i \in DOMAIN chunk |-> mask_expr(t, chunk[i])]
           masks == FlattenSeq(pieces)
           more == IF masks = << >> THEN << "id" >> ELSE masks
<1>1. IsSeq(masks)
  <2>1. DOMAIN chunk = 1..Len(chunk) /\ Len(chunk) \in Nat
    OBVIOUS
  <2>2. pieces = [i \in 1..Len(chunk) |-> pieces[i]]
    BY <2>1
  <2>3. \A i \in 1..Len(chunk) : IsSeq(pieces[i])
    BY <2>1, MaskedIsSeq, Zenon
  <2> HIDE DEF pieces
  <2> QED BY <2>1, <2>2, <2>3, FlattenedIsSeq
<1> HIDE DEF masks
<1>2. IsSeq(more)
  <2>1. << "id" >> \in Seq({"id"})
    OBVIOUS
  <2>2. IsSeq(<< "id" >>)
    BY <2>1, SeqIs, Zenon
  <2> QED BY <1>1, <2>2, Zenon
<1>3. MaskedColumns(t, chunk) = << "id" >> \o more
  BY Zenon DEF MaskedColumns, masks
<1> HIDE DEF more
<1>4. 1 \in DOMAIN MaskedColumns(t, chunk) /\ MaskedColumns(t, chunk)[1] = "id"
  BY <1>2, <1>3, IdLeads, Zenon
<1>6. IsSeq(MaskedColumns(t, chunk))
  BY <1>2, <1>3, IdLeads, Zenon
<1>5. \A i \in DOMAIN chunk : chunk[i] # "id"
  <2>1. \A c \in Sensitive : c # "id"
    BY DEF Sensitive
  <2>2. \A i \in DOMAIN chunk : chunk[i] \in Sensitive
    BY SeqIs
  <2> QED BY <2>1, <2>2, Zenon
<1> QED BY <1>4, <1>5, <1>6, Zenon

LEMMA DirectSensitiveIsProper ==
  ASSUME NEW t, IsSeq(t.name_col)
  PROVE  AllProper(gen_direct_sensitive(t))
<1> DEFINE sens == Those(SENSITIVE_COLS(t.name), LAMBDA c : c \in t.cols)
           text_sens == Those(sens, LAMBDA c : ~Contains(t.nums, c))
           num_sens == Those(sens, LAMBDA c : Contains(t.nums, c))
           Window(start) == SubSeq(text_sens, start, Min({start + 1, Len(text_sens)}))
           Shown(words, chunk, where, limit) ==
               Candidate(words \o << t.label >> \o chunk,
                   Select(chunk, t, where, << >>, limit),
                   Select(MaskedColumns(t, chunk), t, where, << >>, limit))
           windows == [w \in 1..((Len(text_sens) + 1) \div 2) |->
                          Shown(<< "export" >>, Window(2 * w - 1), << >>, "1000")]
           group == IF t.fks # << >> THEN Head(t.fks) ELSE "type_id"
           card == IF text_sens = << >> \/ ~t.id_col THEN << >>
                   ELSE Shown(<< "card" >>, Window(1), << "id = $1" >>, "")
           report == IF num_sens = << >> \/ t.name_col = << >> THEN << >>
                     ELSE Candidate(<< "report", t.label, Head(num_sens) >>,
                            Select(t.name_col \o First(num_sens), t, << >>, << >>, "1000"),
                            Select(<< group, "SUM", Head(num_sens), "COUNT" >>, t, << >>,
                                   << "GROUP", group >>, ""))
<1>1. gen_direct_sensitive(t) = FlattenSeq(windows) \o card \o report
  BY Zenon DEF gen_direct_sensitive, MaskedColumns
<1>2. sens \in Seq(Sensitive)
  <2> DEFINE s == SENSITIVE_COLS(t.name)
             p == [i \in DOMAIN s |-> IF s[i] \in t.cols THEN << s[i] >> ELSE << >>]
  <2>1. IsSeq(s) /\ \A i \in DOMAIN s : s[i] \in Sensitive
    BY SensitiveColumns, SeqIs
  <2>2. sens = FlattenSeq(p)
    BY Zenon DEF Those
  <2>3. /\ p = [i \in DOMAIN s |-> p[i]]
        /\ \A i \in DOMAIN s : p[i] = << >> \/ p[i] = << s[i] >>
    BY Zenon
  <2> HIDE DEF s, p
  <2>4. FlattenSeq(p) \in Seq(Sensitive)
    BY <2>1, <2>3, Filtered, Zenon
  <2> QED BY <2>2, <2>4, Zenon
<1> HIDE DEF sens
<1>3. text_sens \in Seq(Sensitive)
  <2> DEFINE s == sens
             p == [i \in DOMAIN s |-> IF ~Contains(t.nums, s[i]) THEN << s[i] >> ELSE << >>]
  <2>1. IsSeq(s) /\ \A i \in DOMAIN s : s[i] \in Sensitive
    BY <1>2, SeqIs
  <2>2. text_sens = FlattenSeq(p)
    BY Zenon DEF Those
  <2>3. /\ p = [i \in DOMAIN s |-> p[i]]
        /\ \A i \in DOMAIN s : p[i] = << >> \/ p[i] = << s[i] >>
    BY Zenon
  <2> HIDE DEF s, p
  <2>4. FlattenSeq(p) \in Seq(Sensitive)
    BY <2>1, <2>3, Filtered, Zenon
  <2> QED BY <2>2, <2>4, Zenon
<1> HIDE DEF text_sens, num_sens, group
<1>4. Len(text_sens) \in Nat
  BY <1>3
<1>5. ASSUME NEW start \in Nat \ {0} PROVE Window(start) \in Seq(Sensitive)
  <2> DEFINE m == Min({start + 1, Len(text_sens)})
  <2>1. m \in Int /\ m <= Len(text_sens)
    <3> DEFINE x == start + 1
               y == Len(text_sens)
    <3>1. x \in Int /\ y \in Int
      BY <1>4
    <3> HIDE DEF x, y
    <3>2. Min({x, y}) \in {x, y} /\ Min({x, y}) <= y
      BY <3>1, MinOf
    <3>3. Min({x, y}) \in Int /\ Min({x, y}) <= y
      BY <3>1, <3>2
    <3> QED BY <3>3 DEF x, y
  <2> HIDE DEF m
  <2>2. SubSeq(text_sens, start, m) \in Seq(Sensitive)
    BY <1>3, <1>4, <2>1, SubSeqProperties
  <2> QED BY <2>2 DEF m
<1> HIDE DEF Window
<1>6. ASSUME NEW words, IsSeq(words), NEW chunk \in Seq(Sensitive),
             NEW where, IsSeq(where), NEW limit
      PROVE  AllProper(Shown(words, chunk, where, limit))
  <2> DEFINE all == words \o << t.label >> \o chunk
             Export(cols) == Select(cols, t, where, << >>, limit)
             masked == MaskedColumns(t, chunk)
  <2>1. IsSeq(<< t.label >>) /\ IsSeq(<< >>) /\ IsSeq(chunk)
    BY TextOfWords, SeqIs, Zenon
  <2>2. IsSeq(all)
    BY <1>6, <2>1, TextJoined, Zenon
  <2>3. chunk # masked /\ IsSeq(masked)
    BY MaskingChanges, Zenon
  <2> HIDE DEF all, masked
  <2>4. \A cols : IsSeq(cols) => Phrased(all, Export(cols))
    BY <1>6, <2>1, <2>2, StatementPhrased, Zenon DEF Select
  <2>5. Export(chunk) # Export(masked)
    BY <2>3, StatementsDiffer, Zenon DEF Select
  <2>6. Shown(words, chunk, where, limit) = Candidate(all, Export(chunk), Export(masked))
    BY Zenon DEF all, masked
  <2> HIDE DEF Export
  <2> QED BY <2>1, <2>3, <2>4, <2>5, <2>6, ProperOne, Zenon
<1>10. /\ IsSeq(<< "export" >>) /\ IsSeq(<< "card" >>) /\ IsSeq(<< "id = $1" >>)
       /\ IsSeq(<< >>)
  BY TextOfWords, Zenon
<1> HIDE DEF Shown
<1>7. AllProper(FlattenSeq(windows))
  <2> DEFINE n == (Len(text_sens) + 1) \div 2
  <2>1. n \in Nat
    BY <1>4
  <2>2. \A w \in 1..n : 2 * w - 1 \in Nat \ {0}
    BY <2>1
  <2> HIDE DEF n
  <2>3. windows = [w \in 1..n |-> windows[w]]
        /\ \A w \in 1..n : AllProper(windows[w])
    BY <1>5, <1>6, <1>10, <2>2, Zenon DEF n
  <2> HIDE DEF windows
  <2> QED BY <2>1, <2>3, ProperPieces
<1>8. AllProper(card)
  <2>1. 1 \in Nat \ {0}
    OBVIOUS
  <2> QED BY <1>5, <1>6, <1>10, <2>1, ProperNone, Zenon
<1>9. AllProper(report)
  <2>1. << >> # << "GROUP", group >>
    OBVIOUS
  <2> DEFINE words == << "report", t.label, Head(num_sens) >>
             sums == << group, "SUM", Head(num_sens), "COUNT" >>
             by == << "GROUP", group >>
             cols == t.name_col \o First(num_sens)
             bad == Select(cols, t, << >>, << >>, "1000")
             good == Select(sums, t, << >>, by, "")
  <2>2. IsSeq(words) /\ IsSeq(sums) /\ IsSeq(by) /\ IsSeq(<< >>)
    BY TextOfWords, Zenon
  <2>3. IsSeq(cols)
    BY FirstIsSeq, TextJoined, Zenon
  <2>4. report = IF num_sens = << >> \/ t.name_col = << >> THEN << >>
                 ELSE Candidate(words, bad, good)
    BY Zenon
  <2>5. bad # good
    BY <2>1, StatementsDiffer, Zenon DEF Select
  <2> HIDE DEF words, sums, by, cols, report
  <2>6. Phrased(words, bad) /\ Phrased(words, good)
    BY <2>2, <2>3, StatementPhrased, Zenon DEF Select
  <2> HIDE DEF bad, good
  <2> QED BY <2>4, <2>5, <2>6, ProperOne, ProperNone, Zenon
<1> HIDE DEF windows, card, report
<1> QED BY <1>1, <1>7, <1>8, <1>9, ProperBoth, Zenon
(* The tables a builder works on.                                          *)
LEMMA TablesTyped ==
  ASSUME NEW catalog, catalog \in Seq(ToSet(catalog))
  PROVE  /\ IsSeq(load_tables(catalog))
         /\ \A i \in DOMAIN load_tables(catalog) : IsSeq(load_tables(catalog)[i].name_col)
<1> DEFINE business == Those(catalog, LAMBDA u : ~u.container /\ Len(u.columns) >= 4)
           all == business \o SIM_TABLES
           tables == [i \in DOMAIN all |-> classify(all[i])]
<1>1. load_tables(catalog) = tables
  BY Zenon DEF load_tables
<1>2. IsSeq(business)
  <2> DEFINE s == catalog
             p == [i \in DOMAIN s |-> IF ~s[i].container /\ Len(s[i].columns) >= 4
                                      THEN << s[i] >> ELSE << >>]
             T == ToSet(catalog)
  <2>1. IsSeq(s) /\ \A i \in DOMAIN s : s[i] \in T
    BY DEF IsSeq, ToSet
  <2>2. business = FlattenSeq(p)
    BY Zenon DEF Those
  <2>3. /\ p = [i \in DOMAIN s |-> p[i]]
        /\ \A i \in DOMAIN s : p[i] = << >> \/ p[i] = << s[i] >>
    BY Zenon
  <2> HIDE DEF s, p, T
  <2>4. FlattenSeq(p) \in Seq(T)
    BY <2>1, <2>3, Filtered, Zenon
  <2> QED BY <2>2, <2>4, SeqIs, Zenon
<1> HIDE DEF business
<1>3. IsSeq(SIM_TABLES)
  <2> DEFINE a == SIM_TABLES[1]
             b == SIM_TABLES[2]
             c == SIM_TABLES[3]
  <2>1. SIM_TABLES = << a, b, c >>
    BY DEF SIM_TABLES
  <2> HIDE DEF a, b, c
  <2>2. << a, b, c >> \in Seq({a, b, c})
    OBVIOUS
  <2>3. IsSeq(<< a, b, c >>)
    BY <2>2, SeqIs, Zenon
  <2> QED BY <2>1, <2>3, Zenon
<1>4. DOMAIN all = 1..Len(all) /\ Len(all) \in Nat
  <2> DEFINE S == ToSet(business) \cup ToSet(SIM_TABLES)
  <2>1. /\ business \in Seq(ToSet(business)) /\ ToSet(business) \subseteq S
        /\ SIM_TABLES \in Seq(ToSet(SIM_TABLES)) /\ ToSet(SIM_TABLES) \subseteq S
    BY <1>2, <1>3 DEF IsSeq
  <2> HIDE DEF S
  <2>2. business \in Seq(S) /\ SIM_TABLES \in Seq(S)
    BY <2>1, SeqMonotonic
  <2>3. all \in Seq(S)
    BY <2>2, ConcatProperties
  <2> QED BY <2>3, SeqIs, Zenon
<1> HIDE DEF all
<1>5. tables = [i \in 1..Len(all) |-> tables[i]]
      /\ \A i \in 1..Len(all) : tables[i] = classify(all[i])
  BY <1>4
<1> HIDE DEF tables
<1>6. IsSeq(tables) /\ DOMAIN tables = 1..Len(all)
  BY <1>4, <1>5, SeqOfPieces
<1>7. ASSUME NEW raw PROVE IsSeq(classify(raw).name_col)
  <2>1. \E texts, b : classify(raw).name_col = IF b THEN << "name" >> ELSE First(texts)
    BY DEF classify
  <2>2. << "name" >> \in Seq({"name"})
    OBVIOUS
  <2>3. IsSeq(<< "name" >>)
    BY <2>2, SeqIs, Zenon
  <2> QED BY <2>1, <2>3, FirstIsSeq, Zenon
<1> QED BY <1>1, <1>5, <1>6, <1>7, Zenon

LEMMA PoolsAreProper ==
  ASSUME NEW tables, IsSeq(tables), \A i \in DOMAIN tables : IsSeq(tables[i].name_col),
         NEW class \in ToSet(Classes)
  PROVE  AllProper(build_vuln_pools(tables)[class])
<1> DEFINE n == Len(tables)
<1>1. DOMAIN tables = 1..n /\ n \in Nat
      /\ \A i \in 1..n : IsSeq(tables[i].name_col)
  BY DEF IsSeq
<1> HIDE DEF n
<1>2. ASSUME NEW shift \in Nat PROVE AllProper(Pass(gen_sqli_classic, tables, shift))
  <2> DEFINE p == [i \in 1..n |-> gen_sqli_classic(tables[i], i - 1 + shift)]
  <2>1. p = [i \in 1..n |-> p[i]] /\ \A i \in 1..n : p[i] = gen_sqli_classic(tables[i], i - 1 + shift)
    OBVIOUS
  <2> HIDE DEF p
  <2>2. \A i \in 1..n : i - 1 + shift \in Nat
    BY <1>1
  <2>3. \A i \in 1..n : AllProper(p[i])
    BY <1>1, <2>1, <2>2, ClassicIsProper, Zenon
  <2>4. AllProper(FlattenSeq(p))
    BY <1>1, <2>1, <2>3, ProperPieces
  <2> QED BY <1>1, <2>4, Zenon DEF Pass, p
<1>3. ASSUME NEW shift \in Nat PROVE AllProper(Pass(gen_dml_no_where, tables, shift))
  <2> DEFINE p == [i \in 1..n |-> gen_dml_no_where(tables[i], i - 1 + shift)]
  <2>1. p = [i \in 1..n |-> p[i]] /\ \A i \in 1..n : p[i] = gen_dml_no_where(tables[i], i - 1 + shift)
    OBVIOUS
  <2> HIDE DEF p
  <2>2. \A i \in 1..n : i - 1 + shift \in Nat
    BY <1>1
  <2>3. \A i \in 1..n : AllProper(p[i])
    BY <1>1, <2>1, <2>2, DmlIsProper, Zenon
  <2>4. AllProper(FlattenSeq(p))
    BY <1>1, <2>1, <2>3, ProperPieces
  <2> QED BY <1>1, <2>4, Zenon DEF Pass, p
<1>4. ASSUME NEW shift \in Nat PROVE AllProper(Pass(gen_select_star, tables, shift))
  <2> DEFINE p == [i \in 1..n |-> gen_select_star(tables[i], i - 1 + shift)]
  <2>1. p = [i \in 1..n |-> p[i]] /\ \A i \in 1..n : p[i] = gen_select_star(tables[i], i - 1 + shift)
    OBVIOUS
  <2> HIDE DEF p
  <2>2. \A i \in 1..n : i - 1 + shift \in Nat
    BY <1>1
  <2>3. \A i \in 1..n : AllProper(p[i])
    BY <1>1, <2>1, <2>2, SelectStarIsProper, Zenon
  <2>4. AllProper(FlattenSeq(p))
    BY <1>1, <2>1, <2>3, ProperPieces
  <2> QED BY <1>1, <2>4, Zenon DEF Pass, p
<1>5. ASSUME NEW shift \in Nat PROVE AllProper(Pass(gen_no_pagination, tables, shift))
  <2> DEFINE p == [i \in 1..n |-> gen_no_pagination(tables[i], i - 1 + shift)]
  <2>1. p = [i \in 1..n |-> p[i]] /\ \A i \in 1..n : p[i] = gen_no_pagination(tables[i], i - 1 + shift)
    OBVIOUS
  <2> HIDE DEF p
  <2>2. \A i \in 1..n : i - 1 + shift \in Nat
    BY <1>1
  <2>3. \A i \in 1..n : AllProper(p[i])
    BY <1>1, <2>1, <2>2, NoPaginationIsProper, Zenon
  <2>4. AllProper(FlattenSeq(p))
    BY <1>1, <2>1, <2>3, ProperPieces
  <2> QED BY <1>1, <2>4, Zenon DEF Pass, p
<1>6. ASSUME NEW shift \in Nat PROVE AllProper(Pass(gen_sqli_union, tables, shift))
  <2> DEFINE p == [i \in 1..n |-> gen_sqli_union(tables[i], i - 1 + shift)]
  <2>1. p = [i \in 1..n |-> p[i]] /\ \A i \in 1..n : p[i] = gen_sqli_union(tables[i], i - 1 + shift)
    OBVIOUS
  <2> HIDE DEF p
  <2>2. \A i \in 1..n : i - 1 + shift \in Nat
    BY <1>1
  <2>3. \A i \in 1..n : AllProper(p[i])
    BY <1>1, <2>1, <2>2, UnionIsProper, Zenon
  <2>4. AllProper(FlattenSeq(p))
    BY <1>1, <2>1, <2>3, ProperPieces
  <2> QED BY <1>1, <2>4, Zenon DEF Pass, p
<1>7. ASSUME NEW shift \in Nat PROVE AllProper(Pass(gen_sqli_time, tables, shift))
  <2> DEFINE p == [i \in 1..n |-> gen_sqli_time(tables[i], i - 1 + shift)]
  <2>1. p = [i \in 1..n |-> p[i]] /\ \A i \in 1..n : p[i] = gen_sqli_time(tables[i], i - 1 + shift)
    OBVIOUS
  <2> HIDE DEF p
  <2>2. \A i \in 1..n : i - 1 + shift \in Nat
    BY <1>1
  <2>3. \A i \in 1..n : AllProper(p[i])
    BY <1>1, <2>1, <2>2, TimeIsProper, Zenon
  <2>4. AllProper(FlattenSeq(p))
    BY <1>1, <2>1, <2>3, ProperPieces
  <2> QED BY <1>1, <2>4, Zenon DEF Pass, p
<1>8. ASSUME NEW shift \in Nat PROVE AllProper(Pass(gen_slow_query, tables, shift))
  <2> DEFINE p == [i \in 1..n |-> gen_slow_query(tables[i], i - 1 + shift)]
  <2>1. p = [i \in 1..n |-> p[i]] /\ \A i \in 1..n : p[i] = gen_slow_query(tables[i], i - 1 + shift)
    OBVIOUS
  <2> HIDE DEF p
  <2>2. \A i \in 1..n : i - 1 + shift \in Nat
    BY <1>1
  <2>3. \A i \in 1..n : AllProper(p[i])
    BY <1>1, <2>1, <2>2, SlowQueryIsProper, Zenon
  <2>4. AllProper(FlattenSeq(p))
    BY <1>1, <2>1, <2>3, ProperPieces
  <2> QED BY <1>1, <2>4, Zenon DEF Pass, p
<1>9. ASSUME NEW shift \in Nat PROVE AllProper(Pass(gen_priv_escalate, tables, shift))
  <2> DEFINE p == [i \in 1..n |-> gen_priv_escalate(tables[i], i - 1 + shift)]
  <2>1. p = [i \in 1..n |-> p[i]] /\ \A i \in 1..n : p[i] = gen_priv_escalate(tables[i], i - 1 + shift)
    OBVIOUS
  <2> HIDE DEF p
  <2>2. \A i \in 1..n : i - 1 + shift \in Nat
    BY <1>1
  <2>3. \A i \in 1..n : AllProper(p[i])
    BY <1>1, <2>1, <2>2, PrivEscalateIsProper, Zenon
  <2>4. AllProper(FlattenSeq(p))
    BY <1>1, <2>1, <2>3, ProperPieces
  <2> QED BY <1>1, <2>4, Zenon DEF Pass, p
<1>10. ASSUME NEW shift \in Nat PROVE AllProper(Pass(gen_plpgsql_unsafe, tables, shift))
  <2> DEFINE p == [i \in 1..n |-> gen_plpgsql_unsafe(tables[i], i - 1 + shift)]
  <2>1. p = [i \in 1..n |-> p[i]] /\ \A i \in 1..n : p[i] = gen_plpgsql_unsafe(tables[i], i - 1 + shift)
    OBVIOUS
  <2> HIDE DEF p
  <2>2. \A i \in 1..n : i - 1 + shift \in Nat
    BY <1>1
  <2>3. \A i \in 1..n : AllProper(p[i])
    BY <1>1, <2>1, <2>2, PlpgsqlIsProper, Zenon
  <2>4. AllProper(FlattenSeq(p))
    BY <1>1, <2>1, <2>3, ProperPieces
  <2> QED BY <1>1, <2>4, Zenon DEF Pass, p
<1>11. AllProper(FlattenSeq([i \in DOMAIN tables |-> gen_direct_sensitive(tables[i])]))
  <2> DEFINE p == [i \in 1..n |-> gen_direct_sensitive(tables[i])]
  <2>1. p = [i \in 1..n |-> p[i]] /\ \A i \in 1..n : p[i] = gen_direct_sensitive(tables[i])
    OBVIOUS
  <2> HIDE DEF p
  <2>2. \A i \in 1..n : AllProper(p[i])
    BY <1>1, <2>1, DirectSensitiveIsProper, Zenon
  <2>3. AllProper(FlattenSeq(p))
    BY <1>1, <2>1, <2>2, ProperPieces
  <2> QED BY <1>1, <2>3, Zenon DEF p
<1> DEFINE a == Pass(gen_sqli_classic, tables, 0)
           b == Pass(gen_dml_no_where, tables, 0) \o Pass(gen_dml_no_where, tables, 1)
           c == Pass(gen_select_star, tables, 0)
           d == Pass(gen_no_pagination, tables, 0)
           e == FlattenSeq([i \in DOMAIN tables |-> gen_direct_sensitive(tables[i])])
           f == Pass(gen_sqli_union, tables, 0)
           g == Pass(gen_sqli_time, tables, 0)
           h == Pass(gen_slow_query, tables, 0) \o Pass(gen_slow_query, tables, 1)
           i == Pass(gen_priv_escalate, tables, 0)
           j == Pass(gen_plpgsql_unsafe, tables, 0)
<1>12. AllProper(a) /\ AllProper(b) /\ AllProper(c) /\ AllProper(d) /\ AllProper(e)
       /\ AllProper(f) /\ AllProper(g) /\ AllProper(h) /\ AllProper(i) /\ AllProper(j)
  <2>1. 0 \in Nat /\ 1 \in Nat
    OBVIOUS
  <2> QED BY <2>1, <1>2, <1>3, <1>4, <1>5, <1>6, <1>7, <1>8, <1>9, <1>10, <1>11, ProperBoth, Zenon
<1>13. build_vuln_pools(tables) =
         [SQL_INJ_CLASSIC |-> a,
          DML_NO_WHERE |-> b,
          SELECT_STAR |-> c,
          NO_PAGINATION |-> d,
          DIRECT_SENSITIVE |-> e,
          SQL_INJ_UNION |-> f,
          SQL_INJ_TIME |-> g,
          SLOW_QUERY |-> h,
          PRIV_ESCALATE |-> i,
          PLPGSQL_UNSAFE |-> j]
  BY Zenon DEF build_vuln_pools
<1> HIDE DEF a, b, c, d, e, f, g, h, i, j
<1>14. class \in {"SQL_INJ_CLASSIC", "DML_NO_WHERE", "SELECT_STAR", "NO_PAGINATION", 
                  "DIRECT_SENSITIVE", "SQL_INJ_UNION", "SQL_INJ_TIME", "SLOW_QUERY", 
                  "PRIV_ESCALATE", "PLPGSQL_UNSAFE"}
  BY DEF ToSet, Classes
<1>15. build_vuln_pools(tables)[class] \in {a, b, c, d, e, f, g, h, i, j}
  BY <1>13, <1>14
<1> QED BY <1>12, <1>15, Zenon
LEMMA ClassesAre ==
  /\ Len(Classes) = 10 /\ DOMAIN Classes = 1..10
  /\ \A i \in 1..10 : Classes[i] \in ToSet(Classes) /\ Classes[i] # "safe"
  /\ \A i, j \in 1..10 : Classes[i] = Classes[j] => i = j
<1>1. Len(Classes) = 10 /\ DOMAIN Classes = 1..10
  BY DEF Classes
<1>2. /\ Classes[1] = "SQL_INJ_CLASSIC" /\ Classes[2] = "DML_NO_WHERE"
      /\ Classes[3] = "SELECT_STAR" /\ Classes[4] = "NO_PAGINATION"
      /\ Classes[5] = "DIRECT_SENSITIVE" /\ Classes[6] = "SQL_INJ_UNION"
      /\ Classes[7] = "SQL_INJ_TIME" /\ Classes[8] = "SLOW_QUERY"
      /\ Classes[9] = "PRIV_ESCALATE" /\ Classes[10] = "PLPGSQL_UNSAFE"
  BY DEF Classes
<1>3. \A i \in 1..10 : \/ i = 1 \/ i = 2 \/ i = 3 \/ i = 4 \/ i = 5
                        \/ i = 6 \/ i = 7 \/ i = 8 \/ i = 9 \/ i = 10
  OBVIOUS
<1>4. \A i \in 1..10 : Classes[i] \in ToSet(Classes)
  BY <1>1, Zenon DEF ToSet
<1>5. \A i \in 1..10 : Classes[i] # "safe"
  BY <1>2, <1>3
<1>6. \A i, j \in 1..10 : Classes[i] = Classes[j] => i = j
  BY <1>2, <1>3
<1> QED BY <1>1, <1>4, <1>5, <1>6

(* What a job is made of.                                                  *)
JobTyped ==
  job \in [builder : {"generate", "build"}, catalog : Catalogs,
           seeds : SeedFiles, total : Totals]

LEMMA SeedsAre ==
  ASSUME JobTyped
  PROVE  /\ IsSeq(Seeds)
         /\ \A s \in ToSet(Seeds) :
               /\ SeedIsValid(s)
               /\ Phrased(s.nl, s.good)
               /\ s.bad # << >> => Head(s.bad) # s.good /\ Phrased(s.nl, Head(s.bad))
<1>1. job.seeds \in SeedFiles
  BY DEF JobTyped
<1>2. /\ IsSeq(job.seeds)
      /\ \A i \in DOMAIN job.seeds :
            /\ Phrased(job.seeds[i].nl, job.seeds[i].good)
            /\ job.seeds[i].bad # << >> =>
                 /\ Head(job.seeds[i].bad) # job.seeds[i].good
                 /\ Phrased(job.seeds[i].nl, Head(job.seeds[i].bad))
  BY <1>1, SeedsAssumption, Zenon
<1>3. CASE Imported(job.seeds)
  <2>1. Seeds = job.seeds
    BY <1>3, Zenon DEF Seeds
  <2>2. \A s \in ToSet(job.seeds) : \E i \in DOMAIN job.seeds : s = job.seeds[i]
    BY DEF ToSet
  <2>3. \A s \in ToSet(job.seeds) : SeedIsValid(s)
    BY <1>3, <2>2, Zenon DEF Imported
  <2>4. ASSUME NEW s \in ToSet(job.seeds)
        PROVE  /\ Phrased(s.nl, s.good)
               /\ s.bad # << >> => Head(s.bad) # s.good /\ Phrased(s.nl, Head(s.bad))
    <3>1. PICK i \in DOMAIN job.seeds : s = job.seeds[i]
      BY <2>2, <2>4, Zenon
    <3> QED BY <1>2, <3>1, Zenon
  <2> QED BY <1>2, <2>1, <2>3, <2>4, Zenon
<1>4. CASE ~Imported(job.seeds)
  <2>1. Seeds = << >>
    BY <1>4, Zenon DEF Seeds
  <2>2. IsSeq(<< >>) /\ ToSet(<< >>) = {}
    BY EmptySeq DEF IsSeq, ToSet
  <2> QED BY <2>1, <2>2
<1> QED BY <1>3, <1>4

LEMMA SeedsOfAClass ==
  ASSUME JobTyped, NEW class
  PROVE  SeedsOf(class) \in Seq({s \in ToSet(Seeds) : s.vuln_class = class})
<1> DEFINE T == {s \in ToSet(Seeds) : s.vuln_class = class}
           p == [i \in DOMAIN Seeds |-> IF Seeds[i].vuln_class = class THEN << Seeds[i] >> ELSE << >>]
<1>1. \A i \in DOMAIN Seeds : Seeds[i].vuln_class = class => Seeds[i] \in T
  BY DEF ToSet
<1>2. SeedsOf(class) = FlattenSeq(p)
  BY Zenon DEF SeedsOf, Those
<1>3. /\ p = [i \in DOMAIN Seeds |-> p[i]]
      /\ \A i \in DOMAIN Seeds :
            p[i] = << >> \/ (p[i] = << Seeds[i] >> /\ Seeds[i].vuln_class = class)
  BY Zenon
<1>4. IsSeq(Seeds)
  BY SeedsAre
<1> HIDE DEF T, p
<1>5. FlattenSeq(p) \in Seq(T)
  BY <1>1, <1>3, <1>4, Filtered, Zenon
<1> QED BY <1>2, <1>5 DEF T

LEMMA PoolIsProper ==
  ASSUME JobTyped, cls \in 1..Len(Classes)
  PROVE  AllProper(Pool)
<1> DEFINE class == Classes[cls]
           mine == SeedsOf(class)
           seeds == SeedVuln(class)
<1>1. class \in ToSet(Classes) /\ class # "safe"
  BY ClassesAre
<1> HIDE DEF class
<1>2. AllProper(seeds)
  <2>1. mine \in Seq({s \in ToSet(Seeds) : s.vuln_class = class})
    BY SeedsOfAClass
  <2>2. /\ DOMAIN mine = 1..Len(mine) /\ Len(mine) \in Nat
        /\ \A i \in 1..Len(mine) : mine[i] \in ToSet(Seeds) /\ mine[i].vuln_class = class
    BY <2>1, SeqIs
  <2>3. seeds = [i \in 1..Len(mine) |-> [nl |-> mine[i].nl, bad |-> Head(mine[i].bad),
                                          good |-> mine[i].good]]
    BY <2>2, Zenon DEF SeedVuln
  <2>4. \A i \in 1..Len(mine) :
          /\ mine[i].bad # << >> /\ Head(mine[i].bad) # mine[i].good
          /\ Phrased(mine[i].nl, Head(mine[i].bad)) /\ Phrased(mine[i].nl, mine[i].good)
    BY <1>1, <2>2, SeedsAre, Zenon DEF SeedIsValid
  <2> HIDE DEF mine, seeds
  <2>5. \A i \in 1..Len(mine) : /\ seeds[i].bad = Head(mine[i].bad)
                                /\ seeds[i].good = mine[i].good
                                /\ seeds[i].nl = mine[i].nl
    BY <2>3
  <2>6. IsSeq(seeds) /\ DOMAIN seeds = 1..Len(mine)
    <3>1. seeds = [i \in 1..Len(mine) |-> seeds[i]]
      BY <2>3
    <3> QED BY <2>2, <3>1, SeqOfPieces
  <2> QED BY <2>4, <2>5, <2>6, Zenon DEF AllProper, Proper
<1>3. AllProper(VulnPools[job.catalog][class])
  <2>1. job.catalog \in Catalogs
    BY DEF JobTyped
  <2>2. VulnPools[job.catalog] = build_vuln_pools(load_tables(job.catalog))
    BY <2>1, Zenon DEF VulnPools, Tables
  <2>3. job.catalog \in Seq(ToSet(job.catalog))
    BY <2>1, CatalogsAssumption, Zenon
  <2> QED BY <1>1, <2>2, <2>3, TablesTyped, PoolsAreProper, Zenon
<1>4. Pool = seeds \o VulnPools[job.catalog][class]
  BY Zenon DEF Pool, class
<1> HIDE DEF seeds
<1> QED BY <1>2, <1>3, <1>4, ProperBoth, Zenon

(* The safe templates of a table, and the safe statements of a catalogue.  *)
SafeProper(pool) == IsSeq(pool) /\ \A i \in DOMAIN pool : Phrased(pool[i].nl, pool[i].good)

LEMMA SafeOfSeq ==
  ASSUME NEW S, NEW pool \in Seq(S), \A c \in S : Phrased(c.nl, c.good)
  PROVE  SafeProper(pool)
BY SeqIs DEF SafeProper

LEMMA SafeElements ==
  ASSUME NEW pool, SafeProper(pool)
  PROVE  pool \in Seq(ToSet(pool)) /\ \A c \in ToSet(pool) : Phrased(c.nl, c.good)
BY DEF SafeProper, IsSeq, ToSet

LEMMA SafeBoth ==
  ASSUME NEW a, NEW b, SafeProper(a), SafeProper(b)
  PROVE  SafeProper(a \o b)
<1> DEFINE S == ToSet(a) \cup ToSet(b)
<1>1. /\ a \in Seq(ToSet(a)) /\ b \in Seq(ToSet(b))
      /\ \A c \in S : Phrased(c.nl, c.good)
  BY SafeElements
<1>2. ToSet(a) \subseteq S /\ ToSet(b) \subseteq S
  OBVIOUS
<1> HIDE DEF S
<1>3. a \in Seq(S) /\ b \in Seq(S)
  BY <1>1, <1>2, SeqMonotonic
<1>4. a \o b \in Seq(S)
  BY <1>3, ConcatProperties
<1> QED BY <1>1, <1>4, SafeOfSeq

LEMMA SafePieces ==
  ASSUME NEW n \in Nat, NEW pieces, pieces = [i \in 1..n |-> pieces[i]],
         \A i \in 1..n : SafeProper(pieces[i])
  PROVE  SafeProper(FlattenSeq(pieces))
<1> DEFINE S == UNION {ToSet(pieces[i]) : i \in 1..n}
<1>1. ASSUME NEW i \in 1..n PROVE pieces[i] \in Seq(S)
  <2>1. pieces[i] \in Seq(ToSet(pieces[i]))
    BY SafeElements
  <2>2. ToSet(pieces[i]) \subseteq S
    OBVIOUS
  <2> HIDE DEF S
  <2> QED BY <2>1, <2>2, SeqMonotonic
<1>2. ASSUME NEW c \in S PROVE Phrased(c.nl, c.good)
  BY SafeElements
<1> HIDE DEF S
<1>3. pieces \in Seq(Seq(S))
  BY <1>1
<1>4. FlattenSeq(pieces) \in Seq(S)
  BY <1>3, Flattened
<1> QED BY <1>2, <1>4, SafeOfSeq

LEMMA SafeNone == SafeProper(<< >>)
BY EmptySeq DEF SafeProper, IsSeq

LEMMA SafeOne ==
  ASSUME NEW c, Phrased(c.nl, c.good)
  PROVE  SafeProper(<< c >>)
<1> DEFINE S == {c}
<1>1. << c >> \in Seq(S) /\ \A x \in S : Phrased(x.nl, x.good)
  OBVIOUS
<1> HIDE DEF S
<1> QED BY <1>1, SafeOfSeq, Zenon

LEMMA SafeTemplate ==
  ASSUME NEW t, NEW words, IsSeq(words), NEW cols, IsSeq(cols), NEW where, IsSeq(where),
         NEW tail, IsSeq(tail), NEW limit
  PROVE  SafeProper(<< [nl |-> words, good |-> Select(cols, t, where, tail, limit)] >>)
<1> DEFINE sql == Select(cols, t, where, tail, limit)
           c == [nl |-> words, good |-> sql]
<1>1. Phrased(words, sql)
  BY StatementPhrased, Zenon DEF Select
<1> HIDE DEF sql
<1>2. c.nl = words /\ c.good = sql
  OBVIOUS
<1> HIDE DEF c
<1>3. SafeProper(<< c >>)
  BY <1>1, <1>2, SafeOne
<1> QED BY <1>3 DEF c, sql

LEMMA SafeTemplatesAreProper ==
  ASSUME NEW t, NEW i, IsSeq(t.name_col)
  PROVE  SafeProper(SafeTemplates(t, i))
<1> DEFINE n == Nth(LIMITS, i)
           num == Nth(t.nums, i)
           num2 == Nth(t.nums, i + 1)
           fk == Nth(t.fks, i)
           fk2 == Nth(t.fks, i + 1)
           date == Nth(t.dates, i)
           later == Nth(t.dates, i + 1)
           period == Nth(PERIODS, i)
           lead == << "id" >> \o t.name_col
           p1 == Template(Named(t) /\ t.nums # << >>, << "top", t.label, num >>,
                   Select(Append(lead, num), t, Active(t), << num, "DESC" >>, n))
           p2 == Template(t.fks # << >>, << "count", t.label, fk >>,
                   Select(<< fk, "COUNT" >>, t, Active(t), << "GROUP", fk, "cnt", "DESC" >>, n))
           p3 == Template(t.fks # << >> /\ t.nums # << >>, << "total", t.label, fk, num2 >>,
                   Select(<< fk, "SUM", num2, "COUNT" >>, t, << >>,
                          << "GROUP", fk, "total", "DESC" >>, n))
           p4 == Template(Named(t) /\ t.dates # << >>, << "last", t.label, date >>,
                   Select(Append(lead, date), t, << >>, << date, "DESC" >>, n))
           p5 == Template(Named(t) /\ t.dates # << >>, << "period", t.label, later >>,
                   Select(Append(lead, later), t, << later, period >>, << later, "DESC" >>, n))
           p6 == Template(Named(t), << "find", t.label, "id" >>,
                   Select(lead \o First(t.nums), t, << "id = $1" >>, << >>, ""))
           p7 == Template(t.nums # << >>, << "average", t.label, num >>,
                   Select(<< "MIN", "MAX", "AVG", num >>, t, Active(t), << >>, ""))
           p8 == Template(t.fks # << >>, << "unique", t.label, fk2 >>,
                   Select(<< "DISTINCT", fk2 >>, t, Active(t), << fk2 >>, n))
           p9 == Template(t.has_status, << "active", t.label >>,
                   Select(<< "COUNT" >>, t, << "status = 1" >>, << >>, ""))
<1>1. SafeTemplates(t, i) = p1 \o p2 \o p3 \o p4 \o p5 \o p6 \o p7 \o p8 \o p9
  BY Zenon DEF SafeTemplates
<1> HIDE DEF n, num, num2, fk, fk2, date, later, period
<1>2. /\ IsSeq(<< >>) /\ IsSeq(<< "id" >>) /\ IsSeq(Active(t))
      /\ IsSeq(lead) /\ IsSeq(lead \o First(t.nums))
      /\ \A x : IsSeq(Append(lead, x))
  <2>1. IsSeq(<< "id" >>) /\ IsSeq(<< >>)
    BY TextOfWords, Zenon
  <2>2. IsSeq(lead)
    BY <2>1, TextJoined, Zenon
  <2> HIDE DEF lead
  <2> QED BY <2>1, <2>2, FirstIsSeq, TextJoined, TextAppended, ActiveIsSeq, Zenon
<1> HIDE DEF lead
<1>3. SafeProper(p1)
  <2>1. IsSeq(<< "top", t.label, num >>) /\ IsSeq(<< num, "DESC" >>)
    BY TextOfWords, Zenon
  <2> QED BY <1>2, <2>1, SafeTemplate, SafeNone, Zenon DEF Template
<1>4. SafeProper(p2)
  <2>1. /\ IsSeq(<< "count", t.label, fk >>) /\ IsSeq(<< fk, "COUNT" >>)
        /\ IsSeq(<< "GROUP", fk, "cnt", "DESC" >>)
    BY TextOfWords, Zenon
  <2> QED BY <1>2, <2>1, SafeTemplate, SafeNone, Zenon DEF Template
<1>5. SafeProper(p3)
  <2>1. /\ IsSeq(<< "total", t.label, fk, num2 >>) /\ IsSeq(<< fk, "SUM", num2, "COUNT" >>)
        /\ IsSeq(<< "GROUP", fk, "total", "DESC" >>)
    BY TextOfWords, Zenon
  <2> QED BY <1>2, <2>1, SafeTemplate, SafeNone, Zenon DEF Template
<1>6. SafeProper(p4)
  <2>1. IsSeq(<< "last", t.label, date >>) /\ IsSeq(<< date, "DESC" >>)
    BY TextOfWords, Zenon
  <2> QED BY <1>2, <2>1, SafeTemplate, SafeNone, Zenon DEF Template
<1>7. SafeProper(p5)
  <2>1. /\ IsSeq(<< "period", t.label, later >>) /\ IsSeq(<< later, "DESC" >>)
        /\ IsSeq(<< later, period >>)
    BY TextOfWords, Zenon
  <2> QED BY <1>2, <2>1, SafeTemplate, SafeNone, Zenon DEF Template
<1>8. SafeProper(p6)
  <2>1. IsSeq(<< "find", t.label, "id" >>) /\ IsSeq(<< "id = $1" >>)
    BY TextOfWords, Zenon
  <2> QED BY <1>2, <2>1, SafeTemplate, SafeNone, Zenon DEF Template
<1>9. SafeProper(p7)
  <2>1. IsSeq(<< "average", t.label, num >>) /\ IsSeq(<< "MIN", "MAX", "AVG", num >>)
    BY TextOfWords, Zenon
  <2> QED BY <1>2, <2>1, SafeTemplate, SafeNone, Zenon DEF Template
<1>10. SafeProper(p8)
  <2>1. /\ IsSeq(<< "unique", t.label, fk2 >>) /\ IsSeq(<< "DISTINCT", fk2 >>)
        /\ IsSeq(<< fk2 >>)
    BY TextOfWords, Zenon
  <2> QED BY <1>2, <2>1, SafeTemplate, SafeNone, Zenon DEF Template
<1>11. SafeProper(p9)
  <2>1. IsSeq(<< "active", t.label >>) /\ IsSeq(<< "COUNT" >>) /\ IsSeq(<< "status = 1" >>)
    BY TextOfWords, Zenon
  <2> QED BY <1>2, <2>1, SafeTemplate, SafeNone, Zenon DEF Template
<1> HIDE DEF p1, p2, p3, p4, p5, p6, p7, p8, p9
<1>12. SafeProper(p1 \o p2 \o p3 \o p4 \o p5)
  BY <1>3, <1>4, <1>5, <1>6, <1>7, SafeBoth, Zenon
<1>13. SafeProper(p1 \o p2 \o p3 \o p4 \o p5 \o p6 \o p7 \o p8 \o p9)
  BY <1>8, <1>9, <1>10, <1>11, <1>12, SafeBoth, Zenon
<1> QED BY <1>1, <1>13, Zenon

LEMMA SafeStatementsAreProper ==
  ASSUME NEW tables, IsSeq(tables), \A i \in DOMAIN tables : IsSeq(tables[i].name_col)
  PROVE  SafeProper(gen_safe(tables))
<1> DEFINE n == Len(tables)
           per_table == [i \in DOMAIN tables |-> SafeTemplates(tables[i], i - 1)]
           Cell(r, i) == IF r <= Len(per_table[i]) THEN << per_table[i][r] >> ELSE << >>
           Row(r) == FlattenSeq([i \in DOMAIN tables |-> Cell(r, i)])
           rows == [r \in 1..9 |-> Row(r)]
<1>1. n \in Nat /\ DOMAIN tables = 1..n
  BY DEF IsSeq
<1>2. gen_safe(tables) = FlattenSeq(rows)
  BY Zenon DEF gen_safe
<1>3. ASSUME NEW i \in 1..n PROVE SafeProper(per_table[i])
  <2>1. per_table[i] = SafeTemplates(tables[i], i - 1) /\ IsSeq(tables[i].name_col)
    BY <1>1, Zenon
  <2> QED BY <2>1, SafeTemplatesAreProper, Zenon
<1> HIDE DEF per_table, n
<1>4. ASSUME NEW r \in 1..9, NEW i \in 1..n PROVE SafeProper(Cell(r, i))
  <2>1. SafeProper(per_table[i]) /\ Len(per_table[i]) \in Nat
        /\ DOMAIN per_table[i] = 1..Len(per_table[i])
    BY <1>3 DEF SafeProper, IsSeq
  <2>2. CASE r <= Len(per_table[i])
    <3>1. r \in DOMAIN per_table[i]
      BY <2>1, <2>2
    <3>2. Phrased(per_table[i][r].nl, per_table[i][r].good)
      BY <2>1, <3>1, Zenon DEF SafeProper
    <3> QED BY <2>2, <3>2, SafeOne, Zenon
  <2>3. CASE ~(r <= Len(per_table[i]))
    BY <2>3, SafeNone, Zenon
  <2> QED BY <2>2, <2>3
<1> HIDE DEF Cell
<1>5. ASSUME NEW r \in 1..9 PROVE SafeProper(Row(r))
  <2> DEFINE p == [i \in 1..n |-> Cell(r, i)]
  <2>1. p = [i \in 1..n |-> p[i]] /\ \A i \in 1..n : p[i] = Cell(r, i)
    OBVIOUS
  <2>2. Row(r) = FlattenSeq(p)
    BY <1>1, Zenon
  <2> HIDE DEF p, Row
  <2>3. \A i \in 1..n : SafeProper(p[i])
    BY <1>4, <2>1, Zenon
  <2>4. SafeProper(FlattenSeq(p))
    BY <1>1, <2>1, <2>3, SafePieces
  <2> QED BY <2>2, <2>4, Zenon
<1> HIDE DEF Row
<1>6. 9 \in Nat /\ rows = [r \in 1..9 |-> rows[r]] /\ \A r \in 1..9 : rows[r] = Row(r)
  OBVIOUS
<1> HIDE DEF rows
<1>7. \A r \in 1..9 : SafeProper(rows[r])
  BY <1>5, <1>6, Zenon
<1>8. SafeProper(FlattenSeq(rows))
  BY <1>6, <1>7, SafePieces
<1> QED BY <1>2, <1>8, Zenon

LEMMA SafePoolIsProper ==
  ASSUME JobTyped
  PROVE  SafeProper(SafePool)
<1> DEFINE mine == SeedsOf("safe")
           seeds == SeedSafe
<1>1. SafeProper(seeds)
  <2>1. mine \in Seq({s \in ToSet(Seeds) : s.vuln_class = "safe"})
    BY SeedsOfAClass
  <2>2. /\ DOMAIN mine = 1..Len(mine) /\ Len(mine) \in Nat
        /\ \A i \in 1..Len(mine) : mine[i] \in ToSet(Seeds)
    BY <2>1, SeqIs
  <2>3. seeds = [i \in 1..Len(mine) |-> [nl |-> mine[i].nl, good |-> mine[i].good]]
    BY <2>2, Zenon DEF SeedSafe
  <2>4. \A i \in 1..Len(mine) : Phrased(mine[i].nl, mine[i].good)
    BY <2>2, SeedsAre, Zenon
  <2> HIDE DEF mine, seeds
  <2>5. \A i \in 1..Len(mine) : seeds[i].good = mine[i].good /\ seeds[i].nl = mine[i].nl
    BY <2>3
  <2>6. IsSeq(seeds) /\ DOMAIN seeds = 1..Len(mine)
    <3>1. seeds = [i \in 1..Len(mine) |-> seeds[i]]
      BY <2>3
    <3> QED BY <2>2, <3>1, SeqOfPieces
  <2> QED BY <2>4, <2>5, <2>6, Zenon DEF SafeProper
<1>2. SafeProper(SafePools[job.catalog])
  <2>1. job.catalog \in Catalogs
    BY DEF JobTyped
  <2>2. SafePools[job.catalog] = gen_safe(load_tables(job.catalog))
    BY <2>1, Zenon DEF SafePools, Tables
  <2>3. job.catalog \in Seq(ToSet(job.catalog))
    BY <2>1, CatalogsAssumption, Zenon
  <2> QED BY <2>2, <2>3, TablesTyped, SafeStatementsAreProper, Zenon
<1> HIDE DEF seeds
<1> QED BY <1>1, <1>2, SafeBoth, Zenon DEF SafePool, seeds

-----------------------------------------------------------------------------
(* The records.  A flaw was written with its twin right after it (or, for  *)
(* the seeds, two places before), under a number no other pair has; --n    *)
(* can part them only where it cuts.                                       *)
Twinned(recs, total) ==
  \A k \in DOMAIN recs : recs[k].is_vulnerable =>
    /\ \A j \in DOMAIN recs \ {k} :
          recs[j].seed_id = recs[k].seed_id => ~recs[j].is_vulnerable
    /\ \/ k = total
       \/ \E j \in {k - 2, k + 1} \cap DOMAIN recs : recs[j].seed_id = recs[k].seed_id

NumberedIn(recs, ids) == \A i \in DOMAIN recs : recs[i].seed_id \in ids

(* No statement is there twice.                                            *)
Distinct(recs) == \A i, j \in DOMAIN recs : recs[i].sql = recs[j].sql => i = j

Whole(r) ==
  /\ r = [seed_id |-> r.seed_id, nl |-> r.nl, sql |-> r.sql, vuln_class |-> r.vuln_class,
          is_vulnerable |-> r.is_vulnerable, split |-> r.split]
  /\ r.vuln_class \in ToSet(Classes) \cup {"safe"}
  /\ Phrased(r.nl, r.sql)
WholeRecords(recs) == IsSeq(recs) /\ \A i \in DOMAIN recs : Whole(recs[i])

LEMMA Appended ==
  ASSUME NEW recs, IsSeq(recs), NEW r
  PROVE  /\ IsSeq(Append(recs, r))
         /\ Len(recs) \in Nat /\ DOMAIN recs = 1..Len(recs)
         /\ Len(Append(recs, r)) = Len(recs) + 1
         /\ DOMAIN Append(recs, r) = 1..(Len(recs) + 1)
         /\ \A i \in 1..Len(recs) : Append(recs, r)[i] = recs[i]
         /\ Append(recs, r)[Len(recs) + 1] = r
<1> DEFINE S == ToSet(recs) \cup {r}
<1>1. recs \in Seq(ToSet(recs)) /\ ToSet(recs) \subseteq S /\ r \in S
  BY DEF IsSeq
<1> HIDE DEF S
<1>2. recs \in Seq(S)
  BY <1>1, SeqMonotonic
<1>3. /\ Append(recs, r) \in Seq(S) /\ Len(Append(recs, r)) = Len(recs) + 1
      /\ \A i \in 1..Len(recs) : Append(recs, r)[i] = recs[i]
      /\ Append(recs, r)[Len(recs) + 1] = r
  BY <1>1, <1>2, AppendProperties
<1>4. IsSeq(Append(recs, r)) /\ DOMAIN Append(recs, r) = 1..Len(Append(recs, r))
  BY <1>3, SeqIs, Zenon
<1>5. Len(recs) \in Nat /\ DOMAIN recs = 1..Len(recs)
  BY <1>2, SeqIs, Zenon
<1> QED BY <1>3, <1>4, <1>5, Zenon

LEMMA AppendedWhole ==
  ASSUME NEW recs, WholeRecords(recs), NEW r, Whole(r)
  PROVE  WholeRecords(Append(recs, r))
<1>1. /\ IsSeq(Append(recs, r)) /\ DOMAIN recs = 1..Len(recs) /\ Len(recs) \in Nat
      /\ DOMAIN Append(recs, r) = 1..(Len(recs) + 1)
      /\ \A i \in 1..Len(recs) : Append(recs, r)[i] = recs[i]
      /\ Append(recs, r)[Len(recs) + 1] = r
  BY Appended DEF WholeRecords
<1>2. \A i \in 1..(Len(recs) + 1) : i \in 1..Len(recs) \/ i = Len(recs) + 1
  BY <1>1
<1> QED BY <1>1, <1>2, Zenon DEF WholeRecords

LEMMA AppendedNumbers ==
  ASSUME NEW recs, IsSeq(recs), NEW r, NEW ids, NumberedIn(recs, ids), NEW more,
         ids \subseteq more, r.seed_id \in more
  PROVE  NumberedIn(Append(recs, r), more)
<1>1. /\ DOMAIN recs = 1..Len(recs) /\ Len(recs) \in Nat
      /\ DOMAIN Append(recs, r) = 1..(Len(recs) + 1)
      /\ \A i \in 1..Len(recs) : Append(recs, r)[i] = recs[i]
      /\ Append(recs, r)[Len(recs) + 1] = r
  BY Appended
<1>2. \A i \in 1..(Len(recs) + 1) : i \in 1..Len(recs) \/ i = Len(recs) + 1
  BY <1>1
<1> QED BY <1>1, <1>2, Zenon DEF NumberedIn

LEMMA AppendedDistinct ==
  ASSUME NEW recs, IsSeq(recs), Distinct(recs), NEW r, r.sql \notin SqlOf(recs)
  PROVE  Distinct(Append(recs, r))
<1>1. /\ DOMAIN recs = 1..Len(recs) /\ Len(recs) \in Nat
      /\ DOMAIN Append(recs, r) = 1..(Len(recs) + 1)
      /\ \A i \in 1..Len(recs) : Append(recs, r)[i] = recs[i]
      /\ Append(recs, r)[Len(recs) + 1] = r
  BY Appended
<1>2. \A i \in 1..(Len(recs) + 1) : i \in 1..Len(recs) \/ i = Len(recs) + 1
  BY <1>1
<1>3. \A i \in 1..Len(recs) : recs[i].sql # r.sql
  BY <1>1 DEF SqlOf
<1> QED BY <1>1, <1>2, <1>3, Zenon DEF Distinct

LEMMA AppendedSql ==
  ASSUME NEW recs, IsSeq(recs), NEW r
  PROVE  SqlOf(Append(recs, r)) = SqlOf(recs) \cup {r.sql}
<1>1. /\ DOMAIN recs = 1..Len(recs) /\ Len(recs) \in Nat
      /\ DOMAIN Append(recs, r) = 1..(Len(recs) + 1)
      /\ \A i \in 1..Len(recs) : Append(recs, r)[i] = recs[i]
      /\ Append(recs, r)[Len(recs) + 1] = r
  BY Appended
<1>2. \A i \in 1..(Len(recs) + 1) : i \in 1..Len(recs) \/ i = Len(recs) + 1
  BY <1>1
<1>3. Len(recs) + 1 \in 1..(Len(recs) + 1) /\ \A i \in 1..Len(recs) : i \in 1..(Len(recs) + 1)
  BY <1>1
<1>4. SqlOf(Append(recs, r)) \subseteq SqlOf(recs) \cup {r.sql}
  BY <1>1, <1>2, Zenon DEF SqlOf
<1>5. SqlOf(recs) \cup {r.sql} \subseteq SqlOf(Append(recs, r))
  BY <1>1, <1>3, Zenon DEF SqlOf
<1> QED BY <1>4, <1>5

(* A safe record disturbs no pair, if no flaw has its number.              *)
LEMMA SafeJoins ==
  ASSUME NEW recs, IsSeq(recs), NEW total, Twinned(recs, total), NEW r, ~r.is_vulnerable
  PROVE  Twinned(Append(recs, r), total)
<1> DEFINE n == Len(recs)
           a == Append(recs, r)
<1>1. /\ DOMAIN recs = 1..n /\ n \in Nat /\ DOMAIN a = 1..(n + 1)
      /\ \A i \in 1..n : a[i] = recs[i]
      /\ a[n + 1] = r
  BY Appended
<1> HIDE DEF n, a
<1>2. SUFFICES ASSUME NEW k \in DOMAIN a, a[k].is_vulnerable
      PROVE  /\ \A j \in DOMAIN a \ {k} : a[j].seed_id = a[k].seed_id => ~a[j].is_vulnerable
             /\ \/ k = total
                \/ \E j \in {k - 2, k + 1} \cap DOMAIN a : a[j].seed_id = a[k].seed_id
  BY Zenon DEF Twinned, a
<1>3. k \in 1..n
  <2>1. k # n + 1
    BY <1>1, <1>2, Zenon
  <2> QED BY <1>1, <2>1
<1>4. a[k] = recs[k] /\ recs[k].is_vulnerable
  BY <1>1, <1>2, <1>3, Zenon
<1>5. /\ \A j \in DOMAIN recs \ {k} :
           recs[j].seed_id = recs[k].seed_id => ~recs[j].is_vulnerable
      /\ \/ k = total
         \/ \E j \in {k - 2, k + 1} \cap DOMAIN recs : recs[j].seed_id = recs[k].seed_id
  BY <1>1, <1>3, <1>4, Zenon DEF Twinned
<1>6. ASSUME NEW j \in DOMAIN a \ {k}, a[j].seed_id = a[k].seed_id PROVE ~a[j].is_vulnerable
  <2>1. j = n + 1 \/ j \in 1..n
    BY <1>1
  <2> QED BY <1>1, <1>4, <1>5, <1>6, <2>1, Zenon
<1>7. \A j \in DOMAIN recs : j \in DOMAIN a /\ a[j] = recs[j]
  BY <1>1
<1> QED BY <1>4, <1>5, <1>6, <1>7, Zenon
(* A flaw and its twin, under a number nobody has.                         *)
LEMMA PairJoins ==
  ASSUME NEW recs, IsSeq(recs), NEW total, Twinned(recs, total),
         NEW ids, NumberedIn(recs, ids), NEW id, id \notin ids,
         NEW bad, bad.seed_id = id, bad.is_vulnerable,
         NEW good, good.seed_id = id, ~good.is_vulnerable
  PROVE  Twinned(Append(Append(recs, bad), good), total)
<1> DEFINE n == Len(recs)
           b == Append(recs, bad)
           a == Append(b, good)
<1>1. /\ DOMAIN recs = 1..n /\ n \in Nat /\ DOMAIN b = 1..(n + 1) /\ Len(b) = n + 1
      /\ \A i \in 1..n : b[i] = recs[i]
      /\ b[n + 1] = bad /\ IsSeq(b)
  BY Appended
<1> HIDE DEF n, b
<1>2. /\ DOMAIN a = 1..(Len(b) + 1) /\ a[Len(b) + 1] = good
      /\ \A i \in 1..Len(b) : a[i] = b[i]
  BY <1>1, Appended
<1> HIDE DEF a
<1>3. /\ DOMAIN a = 1..(n + 2) /\ a[n + 1] = bad /\ a[n + 2] = good
      /\ \A i \in 1..n : a[i] = recs[i]
  <2>1. (n + 1) + 1 = n + 2 /\ n + 1 \in 1..(n + 1) /\ \A i \in 1..n : i \in 1..(n + 1)
    BY <1>1
  <2> QED BY <1>1, <1>2, <2>1, Zenon
<1>4. SUFFICES ASSUME NEW k \in DOMAIN a, a[k].is_vulnerable
      PROVE  /\ \A j \in DOMAIN a \ {k} : a[j].seed_id = a[k].seed_id => ~a[j].is_vulnerable
             /\ \/ k = total
                \/ \E j \in {k - 2, k + 1} \cap DOMAIN a : a[j].seed_id = a[k].seed_id
  BY Zenon DEF Twinned, a, b
<1>5. \A j \in DOMAIN a : j \in 1..n \/ j = n + 1 \/ j = n + 2
  BY <1>1, <1>3
<1>6. \A j \in 1..n : a[j].seed_id \in ids
  BY <1>1, <1>3, Zenon DEF NumberedIn
<1>7. CASE k = n + 1
  <2>1. \A j \in DOMAIN a \ {k} : j \in 1..n \/ j = n + 2
    BY <1>5, <1>7, Zenon
  <2>2. \A j \in DOMAIN a \ {k} : a[j].seed_id = a[k].seed_id => ~a[j].is_vulnerable
    BY <1>3, <1>6, <1>7, <2>1, Zenon
  <2>3. n + 2 \in {k - 2, k + 1} \cap DOMAIN a
    BY <1>1, <1>3, <1>7
  <2>4. a[n + 2].seed_id = a[k].seed_id
    BY <1>3, <1>7, Zenon
  <2> QED BY <2>2, <2>3, <2>4, Zenon
<1>8. CASE k \in 1..n
  <2>1. recs[k].is_vulnerable /\ a[k] = recs[k]
    BY <1>3, <1>4, <1>8, Zenon
  <2>2. /\ \A j \in DOMAIN recs \ {k} :
             recs[j].seed_id = recs[k].seed_id => ~recs[j].is_vulnerable
        /\ \/ k = total
           \/ \E j \in {k - 2, k + 1} \cap DOMAIN recs : recs[j].seed_id = recs[k].seed_id
    <3>1. k \in DOMAIN recs
      BY <1>1, <1>8
    <3> QED BY <2>1, <3>1, Zenon DEF Twinned
  <2>3. a[k].seed_id # id
    BY <1>6, <1>8, Zenon
  <2>4. ASSUME NEW j \in DOMAIN a \ {k}, a[j].seed_id = a[k].seed_id
        PROVE  ~a[j].is_vulnerable
    <3>1. j \in 1..n
      BY <1>3, <1>5, <2>3, <2>4, Zenon
    <3> QED BY <1>1, <1>3, <2>1, <2>2, <2>4, <3>1, Zenon
  <2>5. \A j \in DOMAIN recs : j \in DOMAIN a /\ a[j] = recs[j]
    BY <1>1, <1>3
  <2> QED BY <2>1, <2>2, <2>4, <2>5, Zenon
<1>9. k # n + 2
  BY <1>3, <1>4, Zenon
<1> QED BY <1>5, <1>7, <1>8, <1>9, Zenon

(* The records of a seed: two wordings of the good version, then the bad.  *)
LEMMA SeedJoins ==
  ASSUME NEW recs, IsSeq(recs), NEW total, Twinned(recs, total),
         NEW ids, NumberedIn(recs, ids), NEW id, id \notin ids,
         NEW one, one.seed_id = id, ~one.is_vulnerable,
         NEW two, two.seed_id = id, ~two.is_vulnerable,
         NEW bad, bad.seed_id = id, bad.is_vulnerable
  PROVE  Twinned(Append(Append(Append(recs, one), two), bad), total)
<1> DEFINE n == Len(recs)
           b == Append(recs, one)
           c == Append(b, two)
           a == Append(c, bad)
<1>1. /\ DOMAIN recs = 1..n /\ n \in Nat /\ DOMAIN b = 1..(n + 1) /\ Len(b) = n + 1
      /\ \A i \in 1..n : b[i] = recs[i]
      /\ b[n + 1] = one /\ IsSeq(b)
  BY Appended
<1> HIDE DEF n, b
<1>2. /\ DOMAIN c = 1..(Len(b) + 1) /\ c[Len(b) + 1] = two /\ Len(c) = Len(b) + 1
      /\ \A i \in 1..Len(b) : c[i] = b[i]
      /\ IsSeq(c)
  BY <1>1, Appended
<1> HIDE DEF c
<1>3. /\ DOMAIN a = 1..(Len(c) + 1) /\ a[Len(c) + 1] = bad
      /\ \A i \in 1..Len(c) : a[i] = c[i]
  BY <1>2, Appended
<1> HIDE DEF a
<1>4. /\ DOMAIN a = 1..(n + 3) /\ a[n + 1] = one /\ a[n + 2] = two /\ a[n + 3] = bad
      /\ \A i \in 1..n : a[i] = recs[i]
  <2>1. /\ (n + 1) + 1 = n + 2 /\ (n + 2) + 1 = n + 3
        /\ n + 1 \in 1..(n + 1) /\ n + 1 \in 1..(n + 2) /\ n + 2 \in 1..(n + 2)
        /\ \A i \in 1..n : i \in 1..(n + 1) /\ i \in 1..(n + 2)
    BY <1>1
  <2>2. Len(c) = n + 2 /\ c[n + 2] = two /\ \A i \in 1..(n + 1) : c[i] = b[i]
    BY <1>1, <1>2, <2>1, Zenon
  <2>3. DOMAIN a = 1..(n + 3) /\ a[n + 3] = bad /\ \A i \in 1..(n + 2) : a[i] = c[i]
    BY <1>3, <2>1, <2>2, Zenon
  <2>4. a[n + 2] = two /\ a[n + 1] = b[n + 1] /\ \A i \in 1..n : a[i] = b[i]
    BY <2>1, <2>2, <2>3, Zenon
  <2> QED BY <1>1, <2>3, <2>4, Zenon
<1>5. SUFFICES ASSUME NEW k \in DOMAIN a, a[k].is_vulnerable
      PROVE  /\ \A j \in DOMAIN a \ {k} : a[j].seed_id = a[k].seed_id => ~a[j].is_vulnerable
             /\ \/ k = total
                \/ \E j \in {k - 2, k + 1} \cap DOMAIN a : a[j].seed_id = a[k].seed_id
  BY Zenon DEF Twinned, a, b, c
<1>6. \A j \in DOMAIN a : j \in 1..n \/ j = n + 1 \/ j = n + 2 \/ j = n + 3
  BY <1>1, <1>4
<1>7. \A j \in 1..n : a[j].seed_id \in ids
  BY <1>1, <1>4, Zenon DEF NumberedIn
<1>8. CASE k = n + 3
  <2>1. \A j \in DOMAIN a \ {k} : j \in 1..n \/ j = n + 1 \/ j = n + 2
    BY <1>6, <1>8, Zenon
  <2>2. \A j \in DOMAIN a \ {k} : a[j].seed_id = a[k].seed_id => ~a[j].is_vulnerable
    BY <1>4, <1>7, <1>8, <2>1, Zenon
  <2>3. n + 1 \in {k - 2, k + 1} \cap DOMAIN a
    BY <1>1, <1>4, <1>8
  <2>4. a[n + 1].seed_id = a[k].seed_id
    BY <1>4, <1>8, Zenon
  <2> QED BY <2>2, <2>3, <2>4, Zenon
<1>9. CASE k \in 1..n
  <2>1. recs[k].is_vulnerable /\ a[k] = recs[k]
    BY <1>4, <1>5, <1>9, Zenon
  <2>2. /\ \A j \in DOMAIN recs \ {k} :
             recs[j].seed_id = recs[k].seed_id => ~recs[j].is_vulnerable
        /\ \/ k = total
           \/ \E j \in {k - 2, k + 1} \cap DOMAIN recs : recs[j].seed_id = recs[k].seed_id
    <3>1. k \in DOMAIN recs
      BY <1>1, <1>9
    <3> QED BY <2>1, <3>1, Zenon DEF Twinned
  <2>3. a[k].seed_id # id
    BY <1>7, <1>9, Zenon
  <2>4. ASSUME NEW j \in DOMAIN a \ {k}, a[j].seed_id = a[k].seed_id
        PROVE  ~a[j].is_vulnerable
    <3>1. j \in 1..n
      BY <1>4, <1>6, <2>3, <2>4, Zenon
    <3> QED BY <1>1, <1>4, <2>1, <2>2, <2>4, <3>1, Zenon
  <2>5. \A j \in DOMAIN recs : j \in DOMAIN a /\ a[j] = recs[j]
    BY <1>1, <1>4
  <2> QED BY <2>1, <2>2, <2>4, <2>5, Zenon
<1>10. k # n + 1 /\ k # n + 2
  BY <1>4, <1>5, Zenon
<1> QED BY <1>6, <1>8, <1>9, <1>10, Zenon

(* What --n leaves.                                                        *)
LEMMA Shortened ==
  ASSUME NEW recs, IsSeq(recs), NEW m \in Nat, m <= Len(recs)
  PROVE  /\ IsSeq(SubSeq(recs, 1, m)) /\ Len(SubSeq(recs, 1, m)) = m
         /\ DOMAIN SubSeq(recs, 1, m) = 1..m
         /\ DOMAIN recs = 1..Len(recs) /\ Len(recs) \in Nat
         /\ \A i \in 1..m : SubSeq(recs, 1, m)[i] = recs[i]
<1> DEFINE S == ToSet(recs)
<1>1. recs \in Seq(S)
  BY DEF IsSeq
<1> HIDE DEF S
<1>2. \A i \in 1..m : recs[i] \in S
  BY <1>1
<1>3. /\ SubSeq(recs, 1, m) \in Seq(S) /\ Len(SubSeq(recs, 1, m)) = m
      /\ \A i \in 1..m : SubSeq(recs, 1, m)[i] = recs[i]
  BY <1>1, <1>2
<1>4. IsSeq(SubSeq(recs, 1, m)) /\ DOMAIN SubSeq(recs, 1, m) = 1..Len(SubSeq(recs, 1, m))
  BY <1>3, SeqIs, Zenon
<1>5. DOMAIN recs = 1..Len(recs) /\ Len(recs) \in Nat
  BY <1>1, SeqIs, Zenon
<1> QED BY <1>3, <1>4, <1>5, Zenon

LEMMA CutKeeps ==
  ASSUME NEW recs, WholeRecords(recs), job.total \in Nat, Twinned(recs, job.total),
         NEW ids, NumberedIn(recs, ids)
  PROVE  /\ WholeRecords(Cut(recs)) /\ Twinned(Cut(recs), job.total)
         /\ NumberedIn(Cut(recs), ids)
         /\ Distinct(recs) => Distinct(Cut(recs))
<1> DEFINE m == Min({job.total, Len(recs)})
           c == SubSeq(recs, 1, m)
<1>1. IsSeq(recs) /\ Len(recs) \in Nat
  BY SeqIs DEF WholeRecords, IsSeq
<1>2. m \in Nat /\ m <= Len(recs) /\ m <= job.total /\ (m = job.total \/ m = Len(recs))
  <2> DEFINE x == job.total
             y == Len(recs)
             z == Min({x, y})
  <2>1. x \in Nat /\ y \in Nat
    BY <1>1
  <2> HIDE DEF x, y
  <2>2. z \in {x, y} /\ z <= x /\ z <= y
    BY <2>1, MinOf
  <2> HIDE DEF z
  <2>3. z \in Nat /\ z <= y /\ z <= x /\ (z = x \/ z = y)
    BY <2>1, <2>2
  <2> QED BY <2>3 DEF x, y, z
<1> HIDE DEF m
<1>3. /\ IsSeq(c) /\ DOMAIN c = 1..m /\ DOMAIN recs = 1..Len(recs)
      /\ \A i \in 1..m : c[i] = recs[i]
  BY <1>1, <1>2, Shortened
<1>4. Cut(recs) = c
  BY Zenon DEF Cut, m
<1> HIDE DEF c
<1>5. \A i \in 1..m : i \in DOMAIN recs
  <2>1. \A i \in 1..m : i \in 1..Len(recs)
    BY <1>1, <1>2
  <2> QED BY <1>3, <2>1, Zenon
<1>6. WholeRecords(c)
  BY <1>3, <1>5, Zenon DEF WholeRecords
<1>7. NumberedIn(c, ids)
  BY <1>3, <1>5, Zenon DEF NumberedIn
<1>8. Distinct(recs) => Distinct(c)
  BY <1>3, <1>5, Zenon DEF Distinct
<1>9. Twinned(c, job.total)
  <2>1. SUFFICES ASSUME NEW k \in DOMAIN c, c[k].is_vulnerable
        PROVE  /\ \A j \in DOMAIN c \ {k} :
                    c[j].seed_id = c[k].seed_id => ~c[j].is_vulnerable
               /\ \/ k = job.total
                  \/ \E j \in {k - 2, k + 1} \cap DOMAIN c : c[j].seed_id = c[k].seed_id
    BY Zenon DEF Twinned
  <2>2. k \in DOMAIN recs /\ c[k] = recs[k] /\ recs[k].is_vulnerable
    BY <1>3, <1>5, <2>1, Zenon
  <2>3. /\ \A j \in DOMAIN recs \ {k} :
             recs[j].seed_id = recs[k].seed_id => ~recs[j].is_vulnerable
        /\ \/ k = job.total
           \/ \E j \in {k - 2, k + 1} \cap DOMAIN recs : recs[j].seed_id = recs[k].seed_id
    BY <2>2, Zenon DEF Twinned
  <2>4. \A j \in DOMAIN c \ {k} : c[j].seed_id = c[k].seed_id => ~c[j].is_vulnerable
    BY <1>3, <1>5, <2>2, <2>3, Zenon
  <2>5. ASSUME k # job.total
        PROVE  \E j \in {k - 2, k + 1} \cap DOMAIN c : c[j].seed_id = c[k].seed_id
    <3>1. PICK j \in {k - 2, k + 1} \cap DOMAIN recs : recs[j].seed_id = recs[k].seed_id
      BY <2>3, <2>5, Zenon
    <3>2. j \in 1..m
      <4>1. j \in 1..Len(recs) /\ k \in 1..m /\ (j = k - 2 \/ j = k + 1)
        BY <1>3, <2>1, <3>1
      <4> QED BY <1>1, <1>2, <2>5, <4>1
    <3> QED BY <1>3, <2>2, <3>1, <3>2, Zenon
  <2> QED BY <2>4, <2>5, Zenon
<1> QED BY <1>4, <1>6, <1>7, <1>8, <1>9
-----------------------------------------------------------------------------
(* The inductive invariant.                                                *)
NumberedNames == ToSet(Classes) \cup {"safe"}

CorpusTyped ==
  /\ JobTyped
  /\ pc \in {"vulnerable", "safe", "seeds", "split", "write", "done"}
  /\ cls \in 0..11 /\ at \in Nat \ {0}
  /\ counter \in [NumberedNames -> Nat]
  /\ WholeRecords(records) /\ IsSeq(file)

(* Each builder goes through steps of its own up to the split.             *)
StepsInOrder ==
  /\ pc \in {"vulnerable", "safe"} => job.builder = "generate"
  /\ pc = "seeds" => job.builder = "build"
  /\ pc = "vulnerable" => cls \in 1..10
  /\ pc = "split" => cls \in 0..10

(* The numbers given out so far.                                           *)
Numbers ==
  IF job.builder = "generate"
  THEN {id \in NumberedNames \X Nat : id[2] \in 1..counter[id[1]]}
  ELSE {<< "seed", n >> : n \in 1..(at - 1)}

RecordsInv ==
  /\ Twinned(records, job.total)
  /\ NumberedIn(records, Numbers)
  /\ job.builder = "generate" => Distinct(records)

(* The file holds the first of the records.                                *)
FileInv ==
  /\ \A i \in DOMAIN file : i \in DOMAIN records /\ file[i] = records[i]
  /\ pc \notin {"write", "done"} => file = << >>

ShownInv ==
  ToSet(shown.positives) \cup ToSet(shown.negatives)
    \subseteq {r \in ToSet(file) : r.split = "train"}

(* A class that was split is measured, and has an example if it has two    *)
(* records.                                                                *)
Balanced(recs, class) ==
  LET mine == OfClass(recs, class)
      eval == {i \in mine : recs[i].split = "eval"}
  IN  mine # {} => eval # {} /\ (Cardinality(mine) > 1 => eval # mine)

ClassNo(c) == IF c = 0 THEN "safe" ELSE Classes[c]

BalanceInv ==
  /\ pc = "split" => \A c \in 0..(cls - 1) : Balanced(records, ClassNo(c))
  /\ pc \in {"write", "done"} => \A c \in 0..10 : Balanced(records, ClassNo(c))

CorpusInv == CorpusTyped /\ StepsInOrder /\ RecordsInv /\ FileInv /\ ShownInv /\ BalanceInv

LEMMA TotalIsNat ==
  ASSUME JobTyped
  PROVE  job.total \in Nat /\ job.builder \in {"generate", "build"}
BY LimitsAssumption DEF JobTyped

LEMMA NewNumber ==
  ASSUME counter \in [NumberedNames -> Nat], NEW prefix \in NumberedNames,
         job.builder = "generate", job' = job, counter' = Counted(prefix)
  PROVE  /\ NextId(prefix) \notin Numbers
         /\ Numbers \subseteq Numbers'
         /\ NextId(prefix) \in Numbers'
         /\ counter' \in [NumberedNames -> Nat]
<1> DEFINE id == NextId(prefix)
<1>1. id \in NumberedNames \X Nat /\ id[1] = prefix /\ id[2] = counter[prefix] + 1
  BY DEF NextId
<1> HIDE DEF id
<1>2. /\ counter' \in [NumberedNames -> Nat]
      /\ \A p \in NumberedNames : counter'[p] = IF p = prefix THEN counter[p] + 1 ELSE counter[p]
  BY DEF Counted
<1>3. Numbers = {x \in NumberedNames \X Nat : x[2] \in 1..counter[x[1]]}
      /\ Numbers' = {x \in NumberedNames \X Nat : x[2] \in 1..counter'[x[1]]}
  BY Zenon DEF Numbers
<1>4. id \notin Numbers
  BY <1>1, <1>3
<1>5. Numbers \subseteq Numbers'
  <2>1. ASSUME NEW x \in Numbers PROVE x \in Numbers'
    <3>1. x \in NumberedNames \X Nat /\ x[1] \in NumberedNames /\ x[2] \in 1..counter[x[1]]
      BY <1>3
    <3>2. counter[x[1]] \in Nat /\ counter'[x[1]] >= counter[x[1]] /\ counter'[x[1]] \in Nat
      BY <1>2, <3>1
    <3>3. x[2] \in 1..counter'[x[1]]
      BY <3>1, <3>2
    <3> QED BY <1>3, <3>1, <3>3
  <2> QED BY <2>1
<1>6. id \in Numbers'
  <2>1. id[2] \in 1..counter'[id[1]]
    BY <1>1, <1>2
  <2> QED BY <1>1, <1>3, <2>1
<1> QED BY <1>2, <1>4, <1>5, <1>6 DEF id

LEMMA CorpusStarts == Init => CorpusInv
<1> SUFFICES ASSUME Init PROVE CorpusInv
  OBVIOUS
<1>1. JobTyped
  BY DEF Init, JobTyped
<1>2. /\ pc = IF job.builder = "generate" THEN "vulnerable" ELSE "seeds"
      /\ cls = 1 /\ at = 1 /\ records = << >> /\ file = << >> /\ shown = Nothing
      /\ counter = [p \in NumberedNames |-> 0]
  BY DEF Init, NumberedNames
<1>3. IsSeq(<< >>) /\ DOMAIN << >> = {} /\ ToSet(<< >>) = {}
  BY EmptySeq DEF IsSeq, ToSet
<1>4. CorpusTyped
  <2>1. pc \in {"vulnerable", "seeds"}
    BY <1>2
  <2>2. WholeRecords(records)
    BY <1>2, <1>3, Zenon DEF WholeRecords
  <2>3. counter \in [NumberedNames -> Nat] /\ cls \in 0..11 /\ at \in Nat \ {0}
    BY <1>2
  <2> QED BY <1>1, <1>2, <1>3, <2>1, <2>2, <2>3 DEF CorpusTyped
<1>5. StepsInOrder
  BY <1>1, <1>2, TotalIsNat DEF StepsInOrder
<1>6. RecordsInv
  BY <1>2, <1>3, Zenon DEF RecordsInv, Twinned, NumberedIn, Distinct
<1>7. FileInv
  BY <1>2, <1>3, Zenon DEF FileInv
<1>8. ShownInv
  BY <1>2, <1>3 DEF ShownInv, Nothing
<1>9. BalanceInv
  BY <1>2 DEF BalanceInv
<1> QED BY <1>4, <1>5, <1>6, <1>7, <1>8, <1>9 DEF CorpusInv

-----------------------------------------------------------------------------
(* The steps.                                                              *)

(* A step that leaves the file alone, before the split.                    *)
LEMMA BeforeTheSplit ==
  ASSUME CorpusInv, UNCHANGED << file, shown >>,
         pc \notin {"write", "done"}, pc' \notin {"write", "done"},
         pc' = "split" => cls' = 0,
         \A i \in DOMAIN file : i \in DOMAIN records' /\ file[i] = records'[i]
  PROVE  FileInv' /\ ShownInv' /\ BalanceInv'
<1>1. FileInv'
  BY DEF CorpusInv, FileInv
<1>2. ShownInv'
  BY DEF CorpusInv, ShownInv
<1>3. BalanceInv'
  <2>1. pc' = "split" => 0..(cls' - 1) = {}
    OBVIOUS
  <2> QED BY <2>1 DEF BalanceInv
<1> QED BY <1>1, <1>2, <1>3

LEMMA NoFileYet ==
  ASSUME CorpusInv, pc \notin {"write", "done"}
  PROVE  file = << >> /\ DOMAIN file = {}
BY DEF CorpusInv, FileInv

LEMMA AddNew ==
  ASSUME NEW recs, NEW r, r.sql \notin SqlOf(recs)
  PROVE  Add(recs, r) = Append(recs, r)
BY DEF Add

LEMMA CorpusTakesPair == CorpusInv /\ TakePair => CorpusInv'
<1> SUFFICES ASSUME CorpusInv, TakePair PROVE CorpusInv'
  OBVIOUS
<1> DEFINE class == Classes[cls]
           c == Pool[at]
           id == NextId(class)
           bad == Record(id, c.nl, c.bad, class, TRUE)
           good == Record(id, c.nl, c.good, "safe", FALSE)
<1>1. /\ pc = "vulnerable" /\ cls <= Len(Classes) /\ ~ClassIsDone
      /\ IF Fresh(c)
         THEN /\ counter' = Counted(class) /\ records' = Add(Add(records, bad), good)
         ELSE counter' = counter /\ records' = records
      /\ at' = at + 1
      /\ job' = job /\ pc' = pc /\ cls' = cls /\ file' = file /\ shown' = shown
  BY Zenon DEF TakePair
<1>2. /\ JobTyped /\ cls \in 1..10 /\ at \in Nat \ {0} /\ counter \in [NumberedNames -> Nat]
      /\ WholeRecords(records) /\ IsSeq(records) /\ job.builder = "generate"
      /\ Twinned(records, job.total) /\ NumberedIn(records, Numbers) /\ Distinct(records)
      /\ IsSeq(file)
  BY <1>1 DEF CorpusInv, CorpusTyped, StepsInOrder, RecordsInv, WholeRecords
<1>3. class \in NumberedNames /\ "safe" \in NumberedNames
  BY <1>2, ClassesAre DEF NumberedNames
<1>4. c.bad # c.good /\ Phrased(c.nl, c.bad) /\ Phrased(c.nl, c.good)
  <2>1. AllProper(Pool)
    BY <1>2, ClassesAre, PoolIsProper
  <2>2. at <= Len(Pool)
    <3>1. Len(Pool) \in Nat
      BY <2>1 DEF AllProper, IsSeq
    <3> QED BY <1>1, <1>2, <3>1 DEF ClassIsDone
  <2>3. at \in DOMAIN Pool
    BY <1>2, <2>1, <2>2 DEF AllProper, IsSeq
  <2> QED BY <2>1, <2>3, Zenon DEF AllProper, Proper
<1>5. WholeRecords(records') /\ counter' \in [NumberedNames -> Nat] /\ RecordsInv'
  <2>1. CASE ~Fresh(c)
    <3>1. records' = records /\ counter' = counter
      BY <1>1, <2>1, Zenon
    <3>2. Numbers' = Numbers
      BY <1>1, <1>2, <3>1, Zenon DEF Numbers
    <3> QED BY <1>1, <1>2, <3>1, <3>2 DEF RecordsInv
  <2>2. CASE Fresh(c)
    <3>1. records' = Add(Add(records, bad), good) /\ counter' = Counted(class)
      BY <1>1, <2>2, Zenon
    <3>2. /\ Whole(bad) /\ bad.seed_id = id /\ bad.sql = c.bad /\ bad.is_vulnerable
          /\ Whole(good) /\ good.seed_id = id /\ good.sql = c.good /\ ~good.is_vulnerable
      <4> HIDE DEF c, class, id
      <4>1. /\ Whole(bad) /\ bad.seed_id = id /\ bad.sql = c.bad /\ bad.is_vulnerable
        BY <1>3, <1>4 DEF Record, Whole, NumberedNames
      <4>2. /\ Whole(good) /\ good.seed_id = id /\ good.sql = c.good /\ ~good.is_vulnerable
        BY <1>3, <1>4 DEF Record, Whole, NumberedNames
      <4> QED BY <4>1, <4>2
    <3>3. /\ id \notin Numbers /\ Numbers \subseteq Numbers' /\ id \in Numbers'
          /\ counter' \in [NumberedNames -> Nat]
      BY <1>1, <1>2, <1>3, <3>1, NewNumber, Zenon
    <3>4. c.bad \notin SqlOf(records) /\ c.good \notin SqlOf(records)
      BY <2>2 DEF Fresh
    <3> HIDE DEF c, class, id, bad, good
    <3> DEFINE one == Append(records, bad)
               two == Append(one, good)
    <3>5. Add(records, bad) = one
      BY <3>2, <3>4, AddNew
    <3>6. /\ IsSeq(one) /\ WholeRecords(one) /\ Distinct(one) /\ NumberedIn(one, Numbers')
          /\ SqlOf(one) = SqlOf(records) \cup {c.bad}
      <4>1. IsSeq(one)
        BY <1>2, Appended, Zenon
      <4>2. WholeRecords(one)
        BY <1>2, <3>2, AppendedWhole, Zenon
      <4>3. Distinct(one)
        BY <1>2, <3>2, <3>4, AppendedDistinct, Zenon
      <4>4. NumberedIn(one, Numbers')
        BY <1>2, <3>2, <3>3, AppendedNumbers, Zenon
      <4>5. SqlOf(one) = SqlOf(records) \cup {c.bad}
        BY <1>2, <3>2, AppendedSql, Zenon
      <4> QED BY <4>1, <4>2, <4>3, <4>4, <4>5
    <3>7. Add(one, good) = two
      <4>1. good.sql \notin SqlOf(one)
        BY <1>4, <3>2, <3>4, <3>6
      <4> HIDE DEF one
      <4> QED BY <4>1, AddNew
    <3>8. Twinned(two, job.total)
      BY <1>2, <3>2, <3>3, PairJoins, Zenon
    <3> HIDE DEF one
    <3>9. WholeRecords(two) /\ NumberedIn(two, Numbers') /\ Distinct(two)
      <4>1. good.sql \notin SqlOf(one)
        BY <1>4, <3>2, <3>4, <3>6
      <4>2. WholeRecords(two)
        BY <3>2, <3>6, AppendedWhole, Zenon
      <4>3. Distinct(two)
        BY <3>6, <4>1, AppendedDistinct, Zenon
      <4>4. NumberedIn(two, Numbers')
        <5>1. Numbers' \subseteq Numbers'
          OBVIOUS
        <5> QED BY <3>2, <3>3, <3>6, <5>1, AppendedNumbers, Zenon
      <4> QED BY <4>2, <4>3, <4>4
    <3>10. records' = two
      BY <3>1, <3>5, <3>7, Zenon
    <3> HIDE DEF two
    <3> QED BY <1>1, <3>3, <3>8, <3>9, <3>10 DEF RecordsInv
  <2> QED BY <2>1, <2>2
<1>6. CorpusTyped'
  BY <1>1, <1>2, <1>5 DEF CorpusInv, CorpusTyped, JobTyped
<1>7. StepsInOrder'
  BY <1>1 DEF CorpusInv, StepsInOrder
<1>8. FileInv' /\ ShownInv' /\ BalanceInv'
  BY <1>1, NoFileYet, BeforeTheSplit
<1> QED BY <1>5, <1>6, <1>7, <1>8 DEF CorpusInv
LEMMA CorpusNextClass == CorpusInv /\ NextClass => CorpusInv'
<1> SUFFICES ASSUME CorpusInv, NextClass PROVE CorpusInv'
  OBVIOUS
<1>1. /\ pc = "vulnerable" /\ cls' = cls + 1 /\ at' = 1
      /\ pc' = IF cls = Len(Classes) THEN "safe" ELSE pc
      /\ UNCHANGED << job, counter, records, file, torn, shown >>
  BY DEF NextClass
<1>2. cls \in 1..10 /\ job.builder = "generate" /\ Len(Classes) = 10
  BY <1>1, ClassesAre DEF CorpusInv, StepsInOrder
<1>3. CorpusTyped'
  BY <1>1, <1>2 DEF CorpusInv, CorpusTyped, JobTyped
<1>4. StepsInOrder'
  BY <1>1, <1>2 DEF StepsInOrder
<1>5. Numbers' = Numbers
  BY <1>1, <1>2, Zenon DEF Numbers
<1>6. RecordsInv'
  BY <1>1, <1>5 DEF CorpusInv, RecordsInv
<1>7. FileInv' /\ ShownInv' /\ BalanceInv'
  <2>1. pc' \in {"vulnerable", "safe"}
    BY <1>1
  <2> QED BY <1>1, <2>1, NoFileYet, BeforeTheSplit
<1> QED BY <1>3, <1>4, <1>6, <1>7 DEF CorpusInv

LEMMA CorpusTakesSafe == CorpusInv /\ TakeSafe => CorpusInv'
<1> SUFFICES ASSUME CorpusInv, TakeSafe PROVE CorpusInv'
  OBVIOUS
<1> DEFINE c == SafePool[at]
           r == Record(NextId("safe"), c.nl, c.good, "safe", FALSE)
<1>1. /\ pc = "safe" /\ records' = Add(records, r)
      /\ counter' = Counted("safe") /\ at' = at + 1
      /\ job' = job /\ pc' = pc /\ cls' = cls /\ file' = file /\ shown' = shown
  BY Zenon DEF TakeSafe
<1>2. /\ JobTyped /\ at \in Nat \ {0} /\ counter \in [NumberedNames -> Nat]
      /\ WholeRecords(records) /\ IsSeq(records) /\ job.builder = "generate"
      /\ Twinned(records, job.total) /\ NumberedIn(records, Numbers) /\ Distinct(records)
  BY <1>1 DEF CorpusInv, CorpusTyped, StepsInOrder, RecordsInv, WholeRecords
<1>3. "safe" \in NumberedNames
  BY DEF NumberedNames
<1>4. /\ NextId("safe") \notin Numbers /\ Numbers \subseteq Numbers'
      /\ NextId("safe") \in Numbers' /\ counter' \in [NumberedNames -> Nat]
  BY <1>1, <1>2, <1>3, NewNumber, Zenon
<1>10. Phrased(c.nl, c.good)
  <2>1. SafeProper(SafePool)
    BY <1>2, SafePoolIsProper
  <2>2. at <= Len(SafePool)
    <3>1. Len(SafePool) \in Nat
      BY <2>1 DEF SafeProper, IsSeq
    <3> QED BY <1>2, <3>1 DEF TakeSafe, SafeIsDone
  <2>3. at \in DOMAIN SafePool
    BY <1>2, <2>1, <2>2 DEF SafeProper, IsSeq
  <2> QED BY <2>1, <2>3, Zenon DEF SafeProper
<1>5. /\ Whole(r) /\ r.seed_id = NextId("safe") /\ ~r.is_vulnerable
  <2> HIDE DEF c
  <2> QED BY <1>3, <1>10 DEF Record, Whole, NumberedNames
<1> HIDE DEF c, r
<1>6. WholeRecords(records') /\ RecordsInv'
  <2>1. CASE r.sql \in SqlOf(records)
    <3>1. records' = records
      BY <1>1, <2>1 DEF Add
    <3>2. NumberedIn(records, Numbers')
      BY <1>2, <1>4 DEF NumberedIn
    <3> QED BY <1>1, <1>2, <3>1, <3>2, Zenon DEF RecordsInv
  <2>2. CASE r.sql \notin SqlOf(records)
    <3> DEFINE a == Append(records, r)
    <3>1. records' = a
      BY <1>1, <2>2, AddNew
    <3>2. WholeRecords(a)
      BY <1>2, <1>5, AppendedWhole, Zenon
    <3>3. Distinct(a)
      BY <1>2, <2>2, AppendedDistinct, Zenon
    <3>4. NumberedIn(a, Numbers')
      BY <1>2, <1>4, <1>5, AppendedNumbers, Zenon
    <3>5. Twinned(a, job.total)
      BY <1>2, <1>5, SafeJoins, Zenon
    <3> HIDE DEF a
    <3> QED BY <1>1, <3>1, <3>2, <3>3, <3>4, <3>5, Zenon DEF RecordsInv
  <2> QED BY <2>1, <2>2
<1>7. CorpusTyped'
  BY <1>1, <1>2, <1>4, <1>6 DEF CorpusInv, CorpusTyped, JobTyped
<1>8. StepsInOrder'
  BY <1>1 DEF CorpusInv, StepsInOrder
<1>9. FileInv' /\ ShownInv' /\ BalanceInv'
  BY <1>1, NoFileYet, BeforeTheSplit
<1> QED BY <1>6, <1>7, <1>8, <1>9 DEF CorpusInv

LEMMA CorpusEndsRecords == CorpusInv /\ EndRecords => CorpusInv'
<1> SUFFICES ASSUME CorpusInv, EndRecords PROVE CorpusInv'
  OBVIOUS
<1>1. /\ pc = "safe" /\ records' = Cut(records) /\ pc' = "split" /\ cls' = 0
      /\ UNCHANGED << job, at, counter, file, torn, shown >>
  BY DEF EndRecords
<1>2. /\ JobTyped /\ job.total \in Nat /\ WholeRecords(records) /\ RecordsInv
  BY TotalIsNat DEF CorpusInv, CorpusTyped
<1>3. Numbers' = Numbers
  BY <1>1, Zenon DEF Numbers
<1>4. WholeRecords(records') /\ RecordsInv'
  BY <1>1, <1>2, <1>3, CutKeeps, Zenon DEF RecordsInv
<1>5. CorpusTyped'
  BY <1>1, <1>4 DEF CorpusInv, CorpusTyped, JobTyped
<1>6. StepsInOrder'
  BY <1>1 DEF StepsInOrder
<1>7. FileInv' /\ ShownInv' /\ BalanceInv'
  BY <1>1, NoFileYet, BeforeTheSplit
<1> QED BY <1>4, <1>5, <1>6, <1>7 DEF CorpusInv

LEMMA CorpusEndsSeeds == CorpusInv /\ EndSeeds => CorpusInv'
<1> SUFFICES ASSUME CorpusInv, EndSeeds PROVE CorpusInv'
  OBVIOUS
<1>1. /\ pc = "seeds" /\ pc' = "split" /\ cls' = 0
      /\ UNCHANGED << job, at, counter, records, file, torn, shown >>
  BY DEF EndSeeds
<1>2. Numbers' = Numbers
  BY <1>1, Zenon DEF Numbers
<1>3. RecordsInv'
  BY <1>1, <1>2, Zenon DEF CorpusInv, RecordsInv
<1>4. CorpusTyped'
  BY <1>1 DEF CorpusInv, CorpusTyped, JobTyped
<1>5. StepsInOrder'
  BY <1>1 DEF StepsInOrder
<1>6. FileInv' /\ ShownInv' /\ BalanceInv'
  BY <1>1, NoFileYet, BeforeTheSplit
<1> QED BY <1>3, <1>4, <1>5, <1>6 DEF CorpusInv

LEMMA CorpusFlushes == CorpusInv /\ Flush => CorpusInv'
<1> SUFFICES ASSUME CorpusInv, Flush PROVE CorpusInv'
  OBVIOUS
<1> DEFINE n == Min({Len(file) + Block, Len(records)})
<1>1. /\ pc = "write" /\ pc' \in {"write", "done"}
      /\ file' = SubSeq(records, 1, n) /\ shown' = Nothing
      /\ UNCHANGED << job, cls, at, counter, records >>
  BY DEF Flush
<1>2. /\ IsSeq(records) /\ Len(records) \in Nat /\ IsSeq(file) /\ Len(file) \in Nat
  BY DEF CorpusInv, CorpusTyped, WholeRecords, IsSeq
<1>3. n \in Nat /\ n <= Len(records)
  <2> DEFINE x == Len(file) + Block
             y == Len(records)
             z == Min({x, y})
  <2>1. x \in Nat /\ y \in Nat
    BY <1>2, LimitsAssumption
  <2> HIDE DEF x, y
  <2>2. z \in {x, y} /\ z <= x /\ z <= y
    BY <2>1, MinOf
  <2> HIDE DEF z
  <2>3. z \in Nat /\ z <= y
    BY <2>1, <2>2
  <2> QED BY <2>3 DEF x, y, z
<1> HIDE DEF n
<1>4. /\ IsSeq(file') /\ DOMAIN file' = 1..n /\ DOMAIN records = 1..Len(records)
      /\ \A i \in 1..n : file'[i] = records[i]
  BY <1>1, <1>2, <1>3, Shortened
<1>5. CorpusTyped'
  BY <1>1, <1>4 DEF CorpusInv, CorpusTyped, JobTyped
<1>6. StepsInOrder'
  BY <1>1 DEF StepsInOrder
<1>7. Numbers' = Numbers
  BY <1>1, Zenon DEF Numbers
<1>8. RecordsInv'
  BY <1>1, <1>7, Zenon DEF CorpusInv, RecordsInv
<1>9. FileInv'
  <2>1. \A i \in 1..n : i \in 1..Len(records)
    BY <1>2, <1>3
  <2> QED BY <1>1, <1>4, <2>1 DEF FileInv
<1>10. ShownInv'
  <2>1. ToSet(<< >>) = {}
    BY DEF ToSet
  <2> QED BY <1>1, <2>1 DEF ShownInv, Nothing
<1>11. BalanceInv'
  BY <1>1 DEF CorpusInv, BalanceInv
<1> QED BY <1>5, <1>6, <1>8, <1>9, <1>10, <1>11 DEF CorpusInv

LEMMA CorpusServes == CorpusInv /\ ServeRun => CorpusInv'
<1> SUFFICES ASSUME CorpusInv, ServeRun PROVE CorpusInv'
  OBVIOUS
<1>1. UNCHANGED << job, pc, cls, at, counter, records, file >>
  BY DEF ServeRun
<1>2. PICK q \in Queries, classes \in Asked :
        shown' = [positives |-> retrieve_positive(q), negatives |-> retrieve_negative(q, classes),
                  words |-> q, of |-> classes]
  BY Zenon DEF ServeRun
<1>3. shown'.positives = retrieve_positive(q) /\ shown'.negatives = retrieve_negative(q, classes)
  BY <1>2
<1>4. IsSeq(file)
  BY DEF CorpusInv, CorpusTyped
<1>5. ShownInv'
  BY <1>1, <1>3, <1>4, RunsSeeTrain, Zenon DEF ShownInv
<1>6. Numbers' = Numbers
  BY <1>1, Zenon DEF Numbers
<1>7. CorpusTyped' /\ StepsInOrder' /\ RecordsInv' /\ FileInv' /\ BalanceInv'
  BY <1>1, <1>6 DEF CorpusInv, CorpusTyped, JobTyped, StepsInOrder, RecordsInv, FileInv, BalanceInv
<1> QED BY <1>5, <1>7 DEF CorpusInv

LEMMA CorpusRests == CorpusInv /\ UNCHANGED vars => CorpusInv'
<1> SUFFICES ASSUME CorpusInv, UNCHANGED vars PROVE CorpusInv'
  OBVIOUS
<1>1. UNCHANGED << job, pc, cls, at, counter, records, file, shown >>
  BY DEF vars
<1>2. Numbers' = Numbers
  BY <1>1, Zenon DEF Numbers
<1> QED BY <1>1, <1>2 DEF CorpusInv, CorpusTyped, JobTyped, StepsInOrder, RecordsInv, FileInv,
                          ShownInv, BalanceInv
LEMMA JoinedOnes ==
  ASSUME NEW recs, IsSeq(recs), NEW x, NEW y
  PROVE  /\ recs \o << >> = recs /\ recs \o << x >> = Append(recs, x)
         /\ recs \o << x, y >> = Append(Append(recs, x), y)
<1> DEFINE S == ToSet(recs) \cup {x, y}
           a == << x >>
           b == << x, y >>
<1>1. recs \in Seq(ToSet(recs)) /\ ToSet(recs) \subseteq S /\ x \in S /\ y \in S
  BY DEF IsSeq
<1> HIDE DEF S
<1>2. recs \in Seq(S)
  BY <1>1, SeqMonotonic
<1>3. /\ a \in Seq(S) /\ Len(a) = 1 /\ a[1] = x
      /\ b \in Seq(S) /\ Len(b) = 2 /\ b[1] = x /\ b[2] = y
  BY <1>1
<1> HIDE DEF a, b
<1>4. recs \o a = Append(recs, x)
  BY <1>1, <1>2, AppendIsConcat, Zenon DEF a
<1>5. recs \o b = Append(Append(recs, x), y)
  <2> DEFINE c == Append(recs, x)
             d == Append(c, y)
             e == recs \o b
             n == Len(recs)
  <2>1. n \in Nat
    BY <1>2
  <2>2. c \in Seq(S) /\ Len(c) = n + 1 /\ c[n + 1] = x /\ \A i \in 1..n : c[i] = recs[i]
    BY <1>1, <1>2, AppendProperties
  <2> HIDE DEF c
  <2>3. d \in Seq(S) /\ Len(d) = Len(c) + 1 /\ d[Len(c) + 1] = y
        /\ \A i \in 1..Len(c) : d[i] = c[i]
    BY <1>1, <2>2, AppendProperties
  <2>4. e \in Seq(S) /\ Len(e) = n + 2 /\ \A i \in 1..(n + 2) :
          e[i] = IF i <= n THEN recs[i] ELSE b[i - n]
    <3>1. e \in Seq(S) /\ Len(e) = n + Len(b) /\ \A i \in 1..(n + Len(b)) :
            e[i] = IF i <= n THEN recs[i] ELSE b[i - n]
      BY <1>2, <1>3, ConcatProperties, Zenon
    <3> QED BY <1>3, <3>1, Zenon
  <2> HIDE DEF d, e, n
  <2>5. ASSUME NEW i \in 1..(n + 2) PROVE e[i] = d[i]
    <3>1. CASE i \in 1..n
      <4>1. i \in 1..Len(c) /\ i <= n
        BY <2>1, <2>2, <3>1
      <4> QED BY <2>2, <2>3, <2>4, <3>1, <4>1, Zenon
    <3>2. CASE i = n + 1
      <4>1. ~(i <= n) /\ i - n = 1 /\ i \in 1..Len(c)
        BY <2>1, <2>2, <3>2
      <4> QED BY <1>3, <2>2, <2>3, <2>4, <3>2, <4>1, Zenon
    <3>3. CASE i = n + 2
      <4>1. ~(i <= n) /\ i - n = 2 /\ i = Len(c) + 1
        BY <2>1, <2>2, <3>3
      <4> QED BY <1>3, <2>3, <2>4, <4>1, Zenon
    <3> QED BY <2>1, <3>1, <3>2, <3>3
  <2>6. Len(e) = Len(d) /\ \A i \in 1..Len(e) : e[i] = d[i]
    BY <2>1, <2>2, <2>3, <2>4, <2>5
  <2>7. e = d
    BY <2>3, <2>4, <2>6, SeqEqual
  <2> QED BY <2>7 DEF e, d, c
<1>6. recs \o << >> = recs
  BY <1>2, ConcatEmptySeq
<1> QED BY <1>4, <1>5, <1>6 DEF a, b

LEMMA CorpusTakesSeed == CorpusInv /\ TakeSeed => CorpusInv'
<1> SUFFICES ASSUME CorpusInv, TakeSeed PROVE CorpusInv'
  OBVIOUS
<1> DEFINE s == job.seeds[at]
           id == << "seed", at >>
           wordings == mock_back_translate(s.nl)
           one == Record(id, wordings[1], s.good, "safe", FALSE)
           two == Record(id, wordings[2], s.good, "safe", FALSE)
           bad == Record(id, wordings[1], Head(s.bad), s.vuln_class, TRUE)
           a == Append(records, one)
           b == Append(a, two)
           c == Append(b, bad)
<1>1. /\ pc = "seeds" /\ Imported(job.seeds) /\ at <= Len(job.seeds)
      /\ records' = records \o << one, two >> \o (IF s.bad = << >> THEN << >> ELSE << bad >>)
      /\ at' = at + 1
      /\ UNCHANGED << job, pc, cls, counter, file, shown >>
  BY Zenon DEF TakeSeed
<1>2. /\ JobTyped /\ at \in Nat \ {0}
      /\ WholeRecords(records) /\ IsSeq(records) /\ job.builder = "build"
      /\ Twinned(records, job.total) /\ NumberedIn(records, Numbers)
  BY <1>1 DEF CorpusInv, CorpusTyped, StepsInOrder, RecordsInv, WholeRecords
<1>3. /\ s.vuln_class \in NumberedNames /\ "safe" \in NumberedNames
      /\ Phrased(s.nl, s.good) /\ (s.bad # << >> => Phrased(s.nl, Head(s.bad)))
  <2>1. job.seeds \in SeedFiles
    BY <1>2 DEF JobTyped
  <2>2. job.seeds \in Seq(ToSet(job.seeds))
    BY <2>1, SeedsAssumption, Zenon DEF IsSeq
  <2>3. at \in DOMAIN job.seeds
    BY <1>1, <1>2, <2>2
  <2>4. Phrased(s.nl, s.good) /\ (s.bad # << >> => Phrased(s.nl, Head(s.bad)))
    BY <2>1, <2>3, SeedsAssumption, Zenon
  <2> QED BY <1>1, <2>3, <2>4, Zenon DEF Imported, SeedIsValid, NumberedNames
<1>15. /\ Phrased(wordings[1], s.good) /\ Phrased(wordings[2], s.good)
       /\ s.bad # << >> => Phrased(wordings[1], Head(s.bad))
  <2> DEFINE asked == << "need", "query" >> \o s.nl
  <2>1. wordings[1] = s.nl /\ wordings[2] = asked
    <3> HIDE DEF asked, s
    <3>1. << s.nl, asked >>[1] = s.nl /\ << s.nl, asked >>[2] = asked
      OBVIOUS
    <3> QED BY <3>1, Zenon DEF mock_back_translate, asked
  <2>2. IsSeq(s.nl)
    BY <1>3, Zenon DEF Phrased
  <2>3. IsSeq(asked)
    BY <2>2, TextOfWords, TextJoined, Zenon
  <2> HIDE DEF asked, s, wordings
  <2> QED BY <1>3, <2>1, <2>3, Zenon DEF Phrased
<1>4. id \notin Numbers /\ Numbers \subseteq Numbers' /\ id \in Numbers'
  <2>1. Numbers = {<< "seed", n >> : n \in 1..(at - 1)}
    BY <1>2, Zenon DEF Numbers
  <2>2. Numbers' = {<< "seed", n >> : n \in 1..at}
    <3>1. at' - 1 = at
      BY <1>1, <1>2
    <3> QED BY <1>1, <1>2, <3>1, Zenon DEF Numbers
  <2>3. \A n \in 1..(at - 1) : n # at /\ n \in 1..at
    BY <1>2
  <2>4. at \in 1..at
    BY <1>2
  <2>5. \A n : << "seed", n >> = << "seed", at >> => n = at
    OBVIOUS
  <2> QED BY <2>1, <2>2, <2>3, <2>4, <2>5, Zenon
<1> HIDE DEF s, id, wordings
<1>5. /\ Whole(one) /\ one.seed_id = id /\ ~one.is_vulnerable
      /\ Whole(two) /\ two.seed_id = id /\ ~two.is_vulnerable
  BY <1>3, <1>15 DEF Record, Whole, NumberedNames
<1>6. /\ bad.seed_id = id /\ bad.is_vulnerable
      /\ s.bad # << >> => Whole(bad)
  BY <1>3, <1>15 DEF Record, Whole, NumberedNames
<1> HIDE DEF one, two, bad
<1>7. /\ IsSeq(a) /\ WholeRecords(a) /\ NumberedIn(a, Numbers') /\ Twinned(a, job.total)
  <2>1. WholeRecords(a)
    BY <1>2, <1>5, AppendedWhole, Zenon
  <2>2. NumberedIn(a, Numbers')
    BY <1>2, <1>4, <1>5, AppendedNumbers, Zenon
  <2>3. Twinned(a, job.total)
    BY <1>2, <1>4, <1>5, SafeJoins, Zenon
  <2> HIDE DEF a
  <2> QED BY <2>1, <2>2, <2>3, Zenon DEF WholeRecords
<1>8. /\ IsSeq(b) /\ WholeRecords(b) /\ NumberedIn(b, Numbers') /\ Twinned(b, job.total)
  <2> HIDE DEF a
  <2>1. Numbers' \subseteq Numbers'
    OBVIOUS
  <2>2. WholeRecords(b)
    BY <1>5, <1>7, AppendedWhole, Zenon
  <2>3. NumberedIn(b, Numbers')
    BY <1>4, <1>5, <1>7, <2>1, AppendedNumbers, Zenon
  <2>4. Twinned(b, job.total)
    BY <1>4, <1>5, <1>7, <2>1, SafeJoins, Zenon
  <2> HIDE DEF b
  <2> QED BY <2>2, <2>3, <2>4, Zenon DEF WholeRecords
<1>9. /\ NumberedIn(c, Numbers') /\ Twinned(c, job.total)
      /\ s.bad # << >> => WholeRecords(c)
  <2>1. Twinned(c, job.total)
    BY <1>2, <1>4, <1>5, <1>6, SeedJoins, Zenon
  <2> HIDE DEF b
  <2>2. Numbers' \subseteq Numbers'
    OBVIOUS
  <2>3. NumberedIn(c, Numbers') /\ (s.bad # << >> => WholeRecords(c))
    BY <1>4, <1>6, <1>8, <2>2, AppendedWhole, AppendedNumbers, Zenon
  <2> QED BY <2>1, <2>3
<1>10. records' = b \/ (s.bad # << >> /\ records' = c)
  <2>1. records \o << one, two >> = b
    BY <1>2, JoinedOnes
  <2> HIDE DEF b
  <2>2. b \o << >> = b /\ b \o << bad >> = c
    BY <1>8, JoinedOnes, Zenon
  <2>3. records' = b \o (IF s.bad = << >> THEN << >> ELSE << bad >>)
    BY <1>1, <2>1, Zenon
  <2> QED BY <2>2, <2>3, Zenon
<1> HIDE DEF a, b, c
<1>11. WholeRecords(records') /\ RecordsInv'
  <2>1. job'.total = job.total /\ job'.builder # "generate"
    BY <1>1, <1>2
  <2> QED BY <1>8, <1>9, <1>10, <2>1, Zenon DEF RecordsInv
<1>12. CorpusTyped'
  BY <1>1, <1>2, <1>11 DEF CorpusInv, CorpusTyped, JobTyped
<1>13. StepsInOrder'
  BY <1>1 DEF CorpusInv, StepsInOrder
<1>14. FileInv' /\ ShownInv' /\ BalanceInv'
  BY <1>1, NoFileYet, BeforeTheSplit
<1> QED BY <1>11, <1>12, <1>13, <1>14 DEF CorpusInv
(* Splitting a class: at least one record is measured, and of two or more  *)
(* not all are.                                                            *)
LEMMA EvalSizeIs ==
  ASSUME NEW n \in Nat, n >= 1
  PROVE  EvalSize(n) \in 1..n /\ (n > 1 => EvalSize(n) < n)
<1>1. n \div 5 \in Nat /\ n \div 5 <= n /\ (n > 1 => n \div 5 < n)
  OBVIOUS
<1>2. EvalSize(n) \in {1, n \div 5} /\ EvalSize(n) >= 1
  <2> DEFINE m == n \div 5
  <2> HIDE DEF m
  <2>1. m \in Nat
    BY <1>1 DEF m
  <2>2. Max({1, m}) \in {1, m} /\ Max({1, m}) >= 1
    BY <2>1 DEF Max
  <2> QED BY <2>2 DEF EvalSize, m
<1> QED BY <1>1, <1>2

LEMMA SplitBalances ==
  ASSUME NEW mine, IsFiniteSet(mine), mine # {},
         NEW eval \in kSubset(EvalSize(Cardinality(mine)), mine)
  PROVE  eval \subseteq mine /\ eval # {} /\ (Cardinality(mine) > 1 => eval # mine)
<1>1. eval \subseteq mine /\ Cardinality(eval) = EvalSize(Cardinality(mine))
  BY DEF kSubset
<1>2. Cardinality(mine) \in Nat /\ Cardinality(mine) # 0
  BY FS_CardinalityType, FS_EmptySet
<1>3. /\ EvalSize(Cardinality(mine)) >= 1
      /\ Cardinality(mine) > 1 => EvalSize(Cardinality(mine)) < Cardinality(mine)
  <2> DEFINE n == Cardinality(mine)
  <2>1. n \in Nat /\ n >= 1
    BY <1>2
  <2> HIDE DEF n
  <2>2. EvalSize(n) \in 1..n /\ (n > 1 => EvalSize(n) < n)
    BY <2>1, EvalSizeIs
  <2> QED BY <2>1, <2>2 DEF n
<1>4. eval # {}
  <2>1. Cardinality({}) = 0
    BY FS_EmptySet
  <2> QED BY <1>1, <1>3, <2>1
<1>5. Cardinality(mine) > 1 => eval # mine
  <2>1. SUFFICES ASSUME Cardinality(mine) > 1, eval = mine PROVE FALSE
    OBVIOUS
  <2>2. Cardinality(mine) = EvalSize(Cardinality(mine))
    BY <1>1, <2>1, Zenon
  <2> QED BY <1>2, <1>3, <2>1, <2>2
<1> QED BY <1>1, <1>4, <1>5

(* Records that differ in the split alone.                                 *)
SplitOnly(recs, other) ==
  /\ DOMAIN other = DOMAIN recs
  /\ \A i \in DOMAIN recs :
        /\ other[i].seed_id = recs[i].seed_id /\ other[i].sql = recs[i].sql
        /\ other[i].vuln_class = recs[i].vuln_class
        /\ other[i].is_vulnerable <=> recs[i].is_vulnerable

LEMMA SplitKeeps ==
  ASSUME NEW recs, NEW other, SplitOnly(recs, other), NEW total, NEW ids
  PROVE  /\ Twinned(recs, total) => Twinned(other, total)
         /\ NumberedIn(recs, ids) => NumberedIn(other, ids)
         /\ Distinct(recs) => Distinct(other)
         /\ \A class : OfClass(other, class) = OfClass(recs, class)
<1>1. NumberedIn(recs, ids) => NumberedIn(other, ids)
  BY Zenon DEF SplitOnly, NumberedIn
<1>2. Distinct(recs) => Distinct(other)
  BY Zenon DEF SplitOnly, Distinct
<1>3. \A class : OfClass(other, class) = OfClass(recs, class)
  BY DEF SplitOnly, OfClass
<1>4. ASSUME Twinned(recs, total) PROVE Twinned(other, total)
  <2>1. SUFFICES ASSUME NEW k \in DOMAIN other, other[k].is_vulnerable
        PROVE  /\ \A j \in DOMAIN other \ {k} :
                    other[j].seed_id = other[k].seed_id => ~other[j].is_vulnerable
               /\ \/ k = total
                  \/ \E j \in {k - 2, k + 1} \cap DOMAIN other :
                        other[j].seed_id = other[k].seed_id
    BY Zenon DEF Twinned
  <2>2. k \in DOMAIN recs /\ recs[k].is_vulnerable
    BY <2>1, Zenon DEF SplitOnly
  <2>3. /\ \A j \in DOMAIN recs \ {k} :
             recs[j].seed_id = recs[k].seed_id => ~recs[j].is_vulnerable
        /\ \/ k = total
           \/ \E j \in {k - 2, k + 1} \cap DOMAIN recs : recs[j].seed_id = recs[k].seed_id
    BY <1>4, <2>2, Zenon DEF Twinned
  <2> QED BY <2>2, <2>3, Zenon DEF SplitOnly
<1> QED BY <1>1, <1>2, <1>3, <1>4

LEMMA CorpusSplits == CorpusInv /\ SplitClass => CorpusInv'
<1> SUFFICES ASSUME CorpusInv, SplitClass PROVE CorpusInv'
  OBVIOUS
<1> DEFINE class == IF cls = 0 THEN "safe" ELSE Classes[cls]
           mine == OfClass(records, class)
<1>1. /\ pc = "split" /\ cls <= Len(Classes) /\ cls' = cls + 1
      /\ pc' = IF cls = Len(Classes) THEN "write" ELSE pc
      /\ UNCHANGED << job, at, counter, file, shown >>
      /\ IF mine = {} THEN records' = records
         ELSE \E eval \in kSubset(EvalSize(Cardinality(mine)), mine) :
                records' = [i \in DOMAIN records |->
                    IF i \notin mine THEN records[i]
                    ELSE [records[i] EXCEPT !.split = IF i \in eval THEN "eval" ELSE "train"]]
  BY Zenon DEF SplitClass
<1>2. cls \in 0..10 /\ Len(Classes) = 10 /\ class = ClassNo(cls)
  BY <1>1, ClassesAre DEF CorpusInv, StepsInOrder, ClassNo
<1>3. /\ WholeRecords(records) /\ RecordsInv /\ DOMAIN records = 1..Len(records)
      /\ Len(records) \in Nat
      /\ \A c \in 0..(cls - 1) : Balanced(records, ClassNo(c))
  BY <1>1 DEF CorpusInv, CorpusTyped, WholeRecords, IsSeq, BalanceInv
<1>4. IsFiniteSet(mine) /\ mine \subseteq DOMAIN records
  <2>1. mine \subseteq 1..Len(records)
    BY <1>3 DEF OfClass
  <2> HIDE DEF mine
  <2>2. IsFiniteSet(1..Len(records))
    BY <1>3, FS_Interval
  <2>3. IsFiniteSet(mine)
    BY <2>1, <2>2, FS_Subset, Zenon
  <2> QED BY <1>3, <2>1, <2>3
<1> HIDE DEF class
<1>5. /\ WholeRecords(records') /\ SplitOnly(records, records')
      /\ Balanced(records', class)
      /\ \A d : Balanced(records, d) => Balanced(records', d) \/ d = class
  <2>1. CASE mine = {}
    <3>1. records' = records
      BY <1>1, <2>1, Zenon
    <3>2. Balanced(records, class)
      BY <2>1, Zenon DEF Balanced
    <3> QED BY <1>3, <3>1, <3>2, Zenon DEF SplitOnly
  <2>2. CASE mine # {}
    <3>1. PICK eval \in kSubset(EvalSize(Cardinality(mine)), mine) :
            records' = [i \in DOMAIN records |->
                IF i \notin mine THEN records[i]
                ELSE [records[i] EXCEPT !.split = IF i \in eval THEN "eval" ELSE "train"]]
      BY <1>1, <2>2, Zenon
    <3>2. eval \subseteq mine /\ eval # {} /\ (Cardinality(mine) > 1 => eval # mine)
      BY <1>4, <2>2, SplitBalances
    <3> DEFINE Split(r, where) == [r EXCEPT !.split = where]
    <3>3. ASSUME NEW r, Whole(r), NEW where \in {"eval", "train"}
          PROVE  /\ Whole(Split(r, where)) /\ Split(r, where).split = where
                 /\ Split(r, where).seed_id = r.seed_id /\ Split(r, where).sql = r.sql
                 /\ Split(r, where).vuln_class = r.vuln_class
                 /\ Split(r, where).is_vulnerable <=> r.is_vulnerable
      BY <3>3 DEF Whole
    <3>4. records' = [i \in DOMAIN records |-> records'[i]]
          /\ \A i \in DOMAIN records :
               records'[i] = IF i \notin mine THEN records[i]
                             ELSE Split(records[i], IF i \in eval THEN "eval" ELSE "train")
      <4> HIDE DEF mine
      <4> QED BY <3>1
    <3> HIDE DEF Split, mine
    <3>5. \A i \in DOMAIN records : Whole(records[i])
      BY <1>3, Zenon DEF WholeRecords
    <3>6. \A i \in DOMAIN records :
            \/ i \notin mine /\ records'[i] = records[i]
            \/ i \in eval /\ records'[i] = Split(records[i], "eval")
            \/ i \in mine \ eval /\ records'[i] = Split(records[i], "train")
      BY <3>2, <3>4, Zenon
    <3>7. "eval" \in {"eval", "train"} /\ "train" \in {"eval", "train"}
      OBVIOUS
    <3>8. ASSUME NEW i \in DOMAIN records
          PROVE  /\ Whole(records'[i])
                 /\ records'[i].seed_id = records[i].seed_id /\ records'[i].sql = records[i].sql
                 /\ records'[i].vuln_class = records[i].vuln_class
                 /\ records'[i].is_vulnerable <=> records[i].is_vulnerable
                 /\ i \in eval => records'[i].split = "eval"
                 /\ i \in mine \ eval => records'[i].split = "train"
      <4>1. Whole(records[i])
        BY <3>5, Zenon
      <4>2. CASE i \notin mine /\ records'[i] = records[i]
        BY <3>2, <4>1, <4>2
      <4> DEFINE r == records[i]
                 e == Split(r, "eval")
                 t == Split(r, "train")
      <4> HIDE DEF r, e, t
      <4>5. /\ Whole(e) /\ e.split = "eval" /\ e.seed_id = r.seed_id
            /\ e.sql = r.sql /\ e.vuln_class = r.vuln_class
            /\ e.is_vulnerable <=> r.is_vulnerable
        BY <3>3, <3>7, <4>1, Zenon DEF e, r
      <4>6. /\ Whole(t) /\ t.split = "train" /\ t.seed_id = r.seed_id
            /\ t.sql = r.sql /\ t.vuln_class = r.vuln_class
            /\ t.is_vulnerable <=> r.is_vulnerable
        BY <3>3, <3>7, <4>1, Zenon DEF t, r
      <4>3. CASE i \in eval /\ records'[i] = Split(records[i], "eval")
        <5>1. records'[i] = e /\ records[i] = r /\ i \notin mine \ eval
          BY <4>3, Zenon DEF e, r
        <5> QED BY <4>3, <4>5, <5>1, Zenon
      <4>4. CASE i \in mine \ eval /\ records'[i] = Split(records[i], "train")
        <5>1. records'[i] = t /\ records[i] = r /\ i \notin eval
          BY <4>4, Zenon DEF t, r
        <5> QED BY <4>4, <4>6, <5>1, Zenon
      <4> QED BY <3>6, <4>2, <4>3, <4>4, Zenon
    <3>9. IsSeq(records') /\ DOMAIN records' = DOMAIN records
      <4> DEFINE f == records'
      <4>1. f = [i \in 1..Len(records) |-> f[i]]
        BY <1>3, <3>4, Zenon
      <4> HIDE DEF f
      <4>2. IsSeq(f) /\ DOMAIN f = 1..Len(records)
        BY <1>3, <4>1, SeqOfPieces
      <4> QED BY <1>3, <4>2, Zenon DEF f
    <3>10. WholeRecords(records')
      BY <3>8, <3>9, Zenon DEF WholeRecords
    <3>11. SplitOnly(records, records')
      BY <3>8, <3>9, Zenon DEF SplitOnly
    <3>12. \A d : OfClass(records', d) = OfClass(records, d)
      BY <3>11, SplitKeeps, Zenon
    <3>13. Balanced(records', class)
      <4>1. {i \in mine : records'[i].split = "eval"} = eval
        BY <1>4, <3>2, <3>8
      <4>2. OfClass(records', class) = mine
        BY <3>12, Zenon DEF mine
      <4> QED BY <3>2, <4>1, <4>2, Zenon DEF Balanced
    <3>14. ASSUME NEW d, Balanced(records, d), d # class PROVE Balanced(records', d)
      <4> DEFINE of == OfClass(records, d)
      <4>1. \A i \in of : i \in DOMAIN records /\ i \notin mine
        BY <3>14 DEF OfClass, mine
      <4>2. \A i \in of : records'[i] = records[i]
        BY <3>2, <3>6, <4>1, Zenon
      <4>3. OfClass(records', d) = of
        BY <3>12, Zenon
      <4> HIDE DEF of
      <4>4. {i \in of : records'[i].split = "eval"} = {i \in of : records[i].split = "eval"}
        BY <4>2
      <4>5. OfClass(records, d) = of
        BY DEF of
      <4> QED BY <3>14, <4>3, <4>4, <4>5, Zenon DEF Balanced
    <3> QED BY <3>10, <3>11, <3>13, <3>14, Zenon
  <2> QED BY <2>1, <2>2
<1> HIDE DEF mine
<1>6. CorpusTyped'
  BY <1>1, <1>2, <1>5 DEF CorpusInv, CorpusTyped, JobTyped
<1>7. StepsInOrder'
  BY <1>1, <1>2 DEF StepsInOrder
<1>8. Numbers' = Numbers
  BY <1>1, Zenon DEF Numbers
<1>9. RecordsInv'
  BY <1>1, <1>3, <1>5, <1>8, SplitKeeps, Zenon DEF RecordsInv
<1>10. FileInv' /\ ShownInv'
  <2>1. file = << >> /\ DOMAIN file = {}
    BY <1>1, NoFileYet
  <2> QED BY <1>1, <2>1 DEF CorpusInv, FileInv, ShownInv
<1>11. BalanceInv'
  <2>1. ASSUME NEW c \in 0..cls PROVE Balanced(records', ClassNo(c))
    <3>1. c \in 0..(cls - 1) \/ c = cls
      BY <1>2
    <3> QED BY <1>2, <1>3, <1>5, <3>1, Zenon
  <2>2. pc' = "split" => cls' - 1 = cls
    BY <1>1, <1>2
  <2>3. pc' \in {"write", "done"} => cls = 10
    BY <1>1, <1>2
  <2> QED BY <2>1, <2>2, <2>3 DEF BalanceInv
<1> QED BY <1>6, <1>7, <1>9, <1>10, <1>11 DEF CorpusInv

-----------------------------------------------------------------------------
(* The theorems.                                                           *)

LEMMA CorpusInductive == CorpusInv /\ [Next]_vars => CorpusInv'
<1> SUFFICES ASSUME CorpusInv, [Next]_vars PROVE CorpusInv'
  OBVIOUS
<1>1. CASE TakePair
  BY <1>1, CorpusTakesPair, Zenon
<1>2. CASE NextClass
  BY <1>2, CorpusNextClass, Zenon
<1>3. CASE TakeSafe
  BY <1>3, CorpusTakesSafe, Zenon
<1>4. CASE EndRecords
  BY <1>4, CorpusEndsRecords, Zenon
<1>5. CASE TakeSeed
  BY <1>5, CorpusTakesSeed, Zenon
<1>6. CASE EndSeeds
  BY <1>6, CorpusEndsSeeds, Zenon
<1>7. CASE SplitClass
  BY <1>7, CorpusSplits, Zenon
<1>8. CASE Flush
  BY <1>8, CorpusFlushes, Zenon
<1>9. CASE ServeRun
  BY <1>9, CorpusServes, Zenon
<1>10. CASE UNCHANGED vars
  BY <1>10, CorpusRests, Zenon
<1> QED BY <1>1, <1>2, <1>3, <1>4, <1>5, <1>6, <1>7, <1>8, <1>9, <1>10, Zenon DEF Next

LEMMA CorpusAlways == Spec => []CorpusInv
  BY CorpusStarts, CorpusInductive, PTL DEF Spec

(* Whatever the catalogue, the seeds, the targets and --n, every vulnerable *)
(* record stands beside a safe record of its own seed and beside no other   *)
(* flaw of it, except for the last record when --n cut its twin off: the    *)
(* promise of build_records in dataset/generate_dataset.py, kept as well by *)
(* dataset/build_dataset.py, at every step of the building.                 *)
THEOREM FlawsAlwaysHaveTwins == Spec => []FlawsHaveTwins
<1>1. CorpusInv => FlawsHaveTwins
  <2>1. SUFFICES ASSUME CorpusInv, NEW k \in DOMAIN records, records[k].is_vulnerable
        PROVE  LET kin == {j \in DOMAIN records \ {k} :
                              records[j].seed_id = records[k].seed_id}
               IN  /\ \A j \in kin : ~records[j].is_vulnerable
                   /\ kin # {} \/ k = job.total
    BY Zenon DEF FlawsHaveTwins
  <2>2. /\ \A j \in DOMAIN records \ {k} :
              records[j].seed_id = records[k].seed_id => ~records[j].is_vulnerable
        /\ \/ k = job.total
           \/ \E j \in {k - 2, k + 1} \cap DOMAIN records :
                 records[j].seed_id = records[k].seed_id
    BY <2>1, Zenon DEF CorpusInv, RecordsInv, Twinned
  <2>3. k \in Nat
    BY <2>1 DEF CorpusInv, CorpusTyped, WholeRecords, IsSeq
  <2>4. \A j \in {k - 2, k + 1} : j # k
    BY <2>3
  <2> QED BY <2>2, <2>4, Zenon
<1> QED BY <1>1, CorpusAlways, PTL

(* No statement a metric is measured on is ever shown to the generator or   *)
(* to the judge by the few-shot store of retrieval/fewshot.py, whenever a   *)
(* run opens it while the file of the catalogue's dataset is being written, *)
(* and the split leaves no class without a measurement, nor a class of two  *)
(* records without an example, in either builder.                           *)
THEOREM EvaluationIsAlwaysFair == Spec => []EvaluationIsFair
<1>1. CorpusInv => NothingEvaluatedIsShown
  <2>1. SUFFICES ASSUME CorpusInv, job.builder = "generate",
                        NEW r \in ToSet(file), r.split = "eval",
                        NEW s \in ToSet(shown.positives) \cup ToSet(shown.negatives),
                        s.sql = r.sql
        PROVE  FALSE
    BY DEF NothingEvaluatedIsShown, SqlOf, ToSet
  <2>2. s \in ToSet(file) /\ s.split = "train"
    BY <2>1, Zenon DEF CorpusInv, ShownInv
  <2>3. PICK i \in DOMAIN file : file[i] = r
    BY <2>1 DEF ToSet
  <2>4. PICK j \in DOMAIN file : file[j] = s
    BY <2>2 DEF ToSet
  <2>5. /\ i \in DOMAIN records /\ records[i] = r
        /\ j \in DOMAIN records /\ records[j] = s
    BY <2>1, <2>3, <2>4, Zenon DEF CorpusInv, FileInv
  <2>6. i = j
    BY <2>1, <2>5, Zenon DEF CorpusInv, RecordsInv, Distinct
  <2>7. "eval" # "train"
    OBVIOUS
  <2> QED BY <2>1, <2>2, <2>5, <2>6, <2>7, Zenon
<1>2. CorpusInv => EveryClassIsEvaluated
  <2>1. SUFFICES ASSUME CorpusInv, pc \in {"write", "done"}, NEW x \in ToSet(records)
        PROVE  Balanced(records, x.vuln_class) /\ OfClass(records, x.vuln_class) # {}
    BY Zenon DEF EveryClassIsEvaluated, Balanced
  <2>2. PICK i \in DOMAIN records : records[i] = x
    BY <2>1 DEF ToSet
  <2>3. OfClass(records, x.vuln_class) # {}
    BY <2>2 DEF OfClass
  <2>4. x.vuln_class \in ToSet(Classes) \cup {"safe"}
    BY <2>1, <2>2, Zenon DEF CorpusInv, CorpusTyped, WholeRecords, Whole
  <2>5. \E c \in 0..10 : x.vuln_class = ClassNo(c)
    <3>1. CASE x.vuln_class = "safe"
      BY <3>1 DEF ClassNo
    <3>2. CASE x.vuln_class \in ToSet(Classes)
      <4>1. PICK c \in DOMAIN Classes : x.vuln_class = Classes[c]
        BY <3>2 DEF ToSet
      <4>2. c \in 1..10
        BY <4>1, ClassesAre
      <4> QED BY <4>1, <4>2 DEF ClassNo
    <3> QED BY <2>4, <3>1, <3>2
  <2> QED BY <2>1, <2>3, <2>5, Zenon DEF CorpusInv, BalanceInv
<1>3. CorpusInv => EvaluationIsFair
  BY <1>1, <1>2 DEF EvaluationIsFair
<1> QED BY <1>3, CorpusAlways, PTL

(* The words of an example can be counted.                                 *)
LEMMA WordsAreFinite ==
  ASSUME NEW s, IsSeq(s)
  PROVE  IsFiniteSet(ToSet(s))
<1> DEFINE n == Len(s)
           T == ToSet(s)
<1>1. n \in Nat /\ DOMAIN s = 1..n /\ s \in [1..n -> T] /\ \A x \in T : \E i \in 1..n : s[i] = x
  BY DEF IsSeq, ToSet
<1> HIDE DEF n, T
<1>2. s \in Surjection(1..n, T)
  BY <1>1 DEF Surjection
<1>3. IsFiniteSet(1..n)
  BY <1>1, FS_Interval
<1>4. IsFiniteSet(T)
  BY <1>2, <1>3, FS_Surjection
<1> QED BY <1>4 DEF T

LEMMA TokensAreFinite ==
  ASSUME NEW e, Phrased(e.nl, e.sql)
  PROVE  IsFiniteSet(tokens(e))
<1> DEFINE a == ToSet(e.nl)
           b == {e.sql.do, e.sql.from, e.sql.limit}
           c == ToSet(e.sql.cols)
           d == ToSet(e.sql.where)
           f == ToSet(e.sql.tail)
<1>1. IsFiniteSet(a) /\ IsFiniteSet(c) /\ IsFiniteSet(d) /\ IsFiniteSet(f)
  BY WordsAreFinite, Zenon DEF Phrased
<1>2. IsFiniteSet(b)
  <2> DEFINE x == e.sql.do
             y == e.sql.from
             z == e.sql.limit
  <2> HIDE DEF x, y, z
  <2>1. IsFiniteSet({} \cup {x})
    BY FS_EmptySet, FS_AddElement, Zenon
  <2>2. IsFiniteSet(({} \cup {x}) \cup {y})
    BY <2>1, FS_AddElement, Zenon
  <2>3. IsFiniteSet((({} \cup {x}) \cup {y}) \cup {z})
    BY <2>2, FS_AddElement, Zenon
  <2>4. (({} \cup {x}) \cup {y}) \cup {z} = {x, y, z}
    OBVIOUS
  <2> QED BY <2>3, <2>4, Zenon DEF x, y, z
<1>3. tokens(e) = ((((a \cup b) \cup c) \cup d) \cup f) \ {""}
  BY Zenon DEF tokens
<1> HIDE DEF a, b, c, d, f
<1>4. IsFiniteSet((((a \cup b) \cup c) \cup d) \cup f)
  BY <1>1, <1>2, FS_Union, Zenon
<1>5. IsFiniteSet(((((a \cup b) \cup c) \cup d) \cup f) \ {""})
  BY <1>4, FS_Difference, Zenon
<1> QED BY <1>3, <1>5, Zenon

(* Whatever a run asks, at whatever moment of the writing of the file, it   *)
(* is shown the closest examples of the store: the stable sort by Jaccard   *)
(* similarity in FewShotStore._rank (retrieval/fewshot.py) leaves out none  *)
(* that is closer than one it shows, shows none that shares no word, keeps  *)
(* equals in the order of the file, and the judge's are of the classes it   *)
(* asked for whenever the store has any.                                    *)
THEOREM ClosestAreAlwaysShown == Spec => ClosestAreShown
<1>1. ASSUME CorpusInv, [Next]_vars PROVE [ShownAreClosest]_vars
  <2> SUFFICES ASSUME shown' # shown
      PROVE  /\ Closest(shown'.positives, Positives, shown'.words)
             /\ Closest(shown'.negatives,
                        IF NegativesOf(shown'.of) = << >> THEN Negatives
                        ELSE NegativesOf(shown'.of), shown'.words)
    BY Zenon DEF ShownAreClosest
  <2>1. CASE Flush
    <3>1. shown' = Nothing
      BY <2>1 DEF Flush
    <3>2. shown'.positives = << >> /\ shown'.negatives = << >> /\ shown'.words = {}
      BY <3>1 DEF Nothing
    <3>3. DOMAIN << >> = {} /\ ToSet(<< >>) = {} /\ \A x : {} \cap x = {}
      BY EmptySeq DEF ToSet
    <3>4. \A pool : Closest(<< >>, pool, {})
      BY <3>3, Zenon DEF Closest
    <3> QED BY <3>2, <3>4, Zenon
  <2>2. CASE ServeRun
    <3>1. PICK q \in Queries, classes \in Asked :
            shown' = [positives |-> retrieve_positive(q),
                      negatives |-> retrieve_negative(q, classes),
                      words |-> q, of |-> classes]
      BY <2>2, Zenon DEF ServeRun
    <3>2. /\ shown'.positives = retrieve_positive(q)
          /\ shown'.negatives = retrieve_negative(q, classes)
          /\ shown'.words = q /\ shown'.of = classes
      BY <3>1, Zenon
    <3>3. IsSeq(file)
      BY <1>1, Zenon DEF CorpusInv, CorpusTyped
    <3>4. Measured(q, Train)
      <4>1. ASSUME NEW e \in Train PROVE IsFiniteSet(tokens(e))
        <5>1. PICK i \in DOMAIN file : file[i] = e
          BY DEF Train, ToSet
        <5>2. i \in DOMAIN records /\ records[i] = e
          BY <1>1, <5>1, Zenon DEF CorpusInv, FileInv
        <5>3. Whole(e)
          BY <1>1, <5>2, Zenon DEF CorpusInv, CorpusTyped, WholeRecords
        <5> QED BY <5>3, TokensAreFinite, Zenon DEF Whole
      <4>2. IsFiniteSet(q)
        BY QueriesAssumption
      <4> QED BY <4>1, <4>2, FiniteWordsAreMeasured, Zenon
    <3>5. Closest(retrieve_positive(q), Positives, q)
      BY <3>3, <3>4, StoreParts, RankIsClosest, Zenon DEF retrieve_positive
    <3> DEFINE pool == IF NegativesOf(classes) = << >> THEN Negatives ELSE NegativesOf(classes)
    <3>6. pool \in Seq(Train) /\ retrieve_negative(q, classes) = rank(pool, q)
      <4>1. /\ Negatives \in Seq(Train) /\ NegativesOf(classes) \in Seq(Train)
            /\ classes = {} => NegativesOf(classes) = << >>
        BY <3>3, StoreParts, Zenon
      <4>2. retrieve_negative(q, classes)
              = rank(IF classes = {} \/ NegativesOf(classes) = << >> THEN Negatives
                     ELSE NegativesOf(classes), q)
        BY Zenon DEF retrieve_negative
      <4>3. CASE NegativesOf(classes) = << >>
        BY <4>1, <4>2, <4>3, Zenon
      <4>4. CASE NegativesOf(classes) # << >>
        BY <4>1, <4>2, <4>4, Zenon
      <4> QED BY <4>3, <4>4, Zenon
    <3> HIDE DEF pool
    <3>7. Closest(retrieve_negative(q, classes), pool, q)
      BY <3>4, <3>6, RankIsClosest, Zenon
    <3> QED BY <3>2, <3>5, <3>7, Zenon DEF pool
  <2>3. Flush \/ ServeRun
    BY <1>1 DEF Next, vars, TakePair, NextClass, TakeSafe, EndRecords, TakeSeed, EndSeeds,
                SplitClass
  <2> QED BY <2>1, <2>2, <2>3
<1> QED BY <1>1, CorpusAlways, PTL DEF Spec, ClosestAreShown

-----------------------------------------------------------------------------
(* Where the elements of the pieces are once they were put one after       *)
(* another: those of an earlier piece all come before any of a later one.  *)
Within(pieces, n, m, f) ==
  \A q \in 1..n : \A e \in DOMAIN pieces[q] : \E y \in 1..m : f[y] = pieces[q][e]
From(pieces, r, x, f) ==
  /\ \E e \in DOMAIN pieces[r] : f[x] = pieces[r][e]
  /\ Within(pieces, r - 1, x - 1, f)
Placed(pieces, n, f) ==
  /\ \A x \in 1..Len(f) : \E r \in 1..n : From(pieces, r, x, f)
  /\ Within(pieces, n, Len(f), f)

LEMMA PlacedOn ==
  ASSUME NEW S, NEW pieces, NEW n \in Nat, NEW f \in Seq(S), Placed(pieces, n, f),
         pieces[n + 1] \in Seq(S)
  PROVE  Placed(pieces, n + 1, f \o pieces[n + 1])
<1> DEFINE p == pieces[n + 1]
           h == f \o p
           k == Len(f)
           l == Len(p)
<1>1. k \in Nat /\ l \in Nat /\ DOMAIN p = 1..l
  OBVIOUS
<1>2. Len(h) = k + l /\ \A x \in 1..(k + l) : h[x] = IF x <= k THEN f[x] ELSE p[x - k]
  <2>1. p \in Seq(S)
    OBVIOUS
  <2> HIDE DEF p
  <2> QED BY <2>1, ConcatProperties, Zenon
<1>3. \A x \in 1..k : x \in 1..(k + l) /\ h[x] = f[x]
  <2>1. \A x \in 1..k : x \in 1..(k + l) /\ x <= k
    BY <1>1
  <2> HIDE DEF h, k, l, p
  <2> QED BY <1>2, <2>1, Zenon
<1>4. \A e \in 1..l : k + e \in 1..(k + l) /\ h[k + e] = p[e]
  <2>1. \A e \in 1..l : k + e \in 1..(k + l) /\ ~(k + e <= k) /\ (k + e) - k = e
    BY <1>1
  <2> HIDE DEF h, k, l, p
  <2> QED BY <1>2, <2>1, Zenon
<1>5. /\ \A x \in 1..k : \E r \in 1..n : From(pieces, r, x, f)
      /\ Within(pieces, n, k, f)
  BY Zenon DEF Placed
<1>6. n + 1 \in 1..(n + 1) /\ (n + 1) - 1 = n /\ \A r \in 1..n : r \in 1..(n + 1)
  OBVIOUS
<1>7. \A x \in 1..k : \A y \in 1..(x - 1) : y \in 1..k
  BY <1>1
<1>8. \A i \in 1..(n + 1) : i \in 1..n \/ i = n + 1
  OBVIOUS
<1> HIDE DEF h, k, l, p
<1>9. ASSUME NEW r, NEW m, Within(pieces, r, m, f), \A y \in 1..m : y \in 1..k
      PROVE  Within(pieces, r, m, h)
  <2>1. ASSUME NEW q \in 1..r, NEW e \in DOMAIN pieces[q]
        PROVE  \E y \in 1..m : h[y] = pieces[q][e]
    <3>1. PICK y \in 1..m : f[y] = pieces[q][e]
      BY <1>9, Zenon DEF Within
    <3>2. h[y] = f[y]
      BY <1>3, <1>9, Zenon
    <3> QED BY <3>1, <3>2, Zenon
  <2> QED BY <2>1, Zenon DEF Within
<1>10. ASSUME NEW x \in 1..(k + l)
       PROVE  \E r \in 1..(n + 1) : From(pieces, r, x, h)
  <2>1. CASE x \in 1..k
    <3>1. PICK r \in 1..n : From(pieces, r, x, f)
      BY <1>5, <2>1, Zenon
    <3>2. Within(pieces, r - 1, x - 1, h)
      BY <1>7, <1>9, <2>1, <3>1, Zenon DEF From
    <3>3. PICK e \in DOMAIN pieces[r] : f[x] = pieces[r][e]
      BY <3>1, Zenon DEF From
    <3>4. h[x] = pieces[r][e]
      BY <1>3, <2>1, <3>3, Zenon
    <3>5. From(pieces, r, x, h)
      BY <3>2, <3>4, Zenon DEF From
    <3> QED BY <1>6, <3>5, Zenon
  <2>2. CASE x \notin 1..k
    <3>1. x - k \in 1..l /\ k + (x - k) = x /\ \A y \in 1..k : y \in 1..(x - 1)
      BY <1>1, <2>2
    <3>2. x - k \in DOMAIN p /\ h[x] = p[x - k]
      <4>1. x - k \in DOMAIN p
        BY <1>1, <3>1, Zenon
      <4>2. h[k + (x - k)] = p[x - k]
        BY <1>4, <3>1, Zenon
      <4> QED BY <3>1, <4>1, <4>2, Zenon
    <3>3. Within(pieces, n, k, h)
      BY <1>5, <1>9, Zenon
    <3>4. Within(pieces, n, x - 1, h)
      BY <3>1, <3>3, Zenon DEF Within
    <3>5. From(pieces, n + 1, x, h)
      <4>1. \E e \in DOMAIN pieces[n + 1] : h[x] = pieces[n + 1][e]
        BY <3>2, Zenon DEF p
      <4>2. Within(pieces, (n + 1) - 1, x - 1, h)
        BY <1>6, <3>4, Zenon
      <4> QED BY <4>1, <4>2, Zenon DEF From
    <3> QED BY <1>6, <3>5, Zenon
  <2> QED BY <2>1, <2>2, Zenon
<1>11. Within(pieces, n + 1, k + l, h)
  <2>1. ASSUME NEW q \in 1..(n + 1), NEW e \in DOMAIN pieces[q]
        PROVE  \E y \in 1..(k + l) : h[y] = pieces[q][e]
    <3>1. CASE q \in 1..n
      <4>1. Within(pieces, n, k, h)
        BY <1>5, <1>9, Zenon
      <4>2. PICK y \in 1..k : h[y] = pieces[q][e]
        BY <3>1, <4>1, Zenon DEF Within
      <4> QED BY <1>3, <4>2, Zenon
    <3>2. CASE q = n + 1
      <4>1. pieces[q] = p
        BY <3>2, Zenon DEF p
      <4>2. e \in 1..l /\ pieces[q][e] = p[e]
        BY <1>1, <4>1, Zenon
      <4> QED BY <1>4, <4>2, Zenon
    <3> QED BY <1>8, <3>1, <3>2, Zenon
  <2> QED BY <2>1, Zenon DEF Within
<1>12. Placed(pieces, n + 1, h)
  BY <1>2, <1>10, <1>11, Zenon DEF Placed
<1> QED BY <1>12, Zenon DEF h, p

LEMMA FlatPlaces ==
  ASSUME NEW S, NEW pieces \in Seq(Seq(S))
  PROVE  FlattenSeq(pieces) \in Seq(S) /\ Placed(pieces, Len(pieces), FlattenSeq(pieces))
<1> DEFINE n == Len(pieces)
<1>1. n \in Nat /\ \A i \in 1..n : pieces[i] \in Seq(S)
  OBVIOUS
<1>2. PICK g : Flattening(pieces, n, g) /\ FlattenSeq(pieces) = g[n]
  BY FlattenUnfolds
<1>3. g[0] = << >> /\ \A i \in 1..n : g[i] = g[i - 1] \o pieces[i]
  BY <1>2, Zenon DEF Flattening
<1> HIDE DEF n
<1> DEFINE P == {i \in 0..n : g[i] \in Seq(S) /\ Placed(pieces, i, g[i])}
<1>4. 0 \in P
  <2>1. << >> \in Seq(S) /\ 0 \in 0..n /\ 1..Len(<< >>) = {} /\ 1..0 = {}
    BY <1>1
  <2>2. Placed(pieces, 0, << >>)
    BY <2>1, Zenon DEF Placed, Within
  <2> QED BY <1>3, <2>1, <2>2, Zenon
<1>5. ASSUME NEW i \in 0..(n - 1), i \in P PROVE i + 1 \in P
  <2>1. i \in Nat /\ i + 1 \in 1..n /\ i + 1 \in 0..n /\ (i + 1) - 1 = i
    BY <1>1
  <2>2. g[i + 1] = g[i] \o pieces[i + 1]
    BY <1>3, <2>1, Zenon
  <2>3. g[i] \in Seq(S) /\ pieces[i + 1] \in Seq(S) /\ Placed(pieces, i, g[i])
    BY <1>1, <1>5, <2>1, Zenon
  <2>4. g[i + 1] \in Seq(S)
    BY <2>2, <2>3, ConcatProperties
  <2>5. Placed(pieces, i + 1, g[i + 1])
    BY <2>1, <2>2, <2>3, PlacedOn, Zenon
  <2> QED BY <2>1, <2>4, <2>5
<1> HIDE DEF P
<1>6. 0..n \subseteq P
  BY <1>1, <1>4, <1>5, InductionUpTo
<1>7. n \in P
  <2>1. n \in 0..n
    BY <1>1
  <2> QED BY <1>6, <2>1, Zenon
<1> QED BY <1>2, <1>7, Zenon DEF P, n

(* A safe statement of some round comes after every statement of the       *)
(* rounds before, of all the tables.                                       *)
Earlier(per_table, n, r, x, f) ==
  \A q \in 1..(r - 1), j \in 1..n :
     q <= Len(per_table[j]) => \E y \in 1..(x - 1) : f[y] = per_table[j][q]
InRounds(per_table, n, f) ==
  \A x \in 1..Len(f) : \E r \in 1..9, i \in 1..n :
    /\ r <= Len(per_table[i]) /\ f[x] = per_table[i][r]
    /\ Earlier(per_table, n, r, x, f)

LEMMA RowsAreRounds ==
  ASSUME NEW n \in Nat, NEW per_table, \A i \in 1..n : IsSeq(per_table[i]), NEW rows,
         rows = [r \in 1..9 |-> FlattenSeq([i \in 1..n |->
                   IF r <= Len(per_table[i]) THEN << per_table[i][r] >> ELSE << >>])]
  PROVE  IsSeq(FlattenSeq(rows)) /\ InRounds(per_table, n, FlattenSeq(rows))
<1> DEFINE S == UNION {ToSet(per_table[i]) : i \in 1..n}
           Cell(r, i) == IF r <= Len(per_table[i]) THEN << per_table[i][r] >> ELSE << >>
           Cells(r) == [i \in 1..n |-> Cell(r, i)]
<1>1. \A r \in 1..9 : rows[r] = FlattenSeq(Cells(r))
  OBVIOUS
<1>2. rows = [r \in 1..9 |-> rows[r]]
  OBVIOUS
<1>3. ASSUME NEW r \in 1..9, NEW i \in 1..n, r <= Len(per_table[i])
      PROVE  per_table[i][r] \in S
  <2>1. Len(per_table[i]) \in Nat /\ DOMAIN per_table[i] = 1..Len(per_table[i])
    <3>1. per_table[i] \in Seq(ToSet(per_table[i]))
      BY Zenon DEF IsSeq
    <3> QED BY <3>1, SeqIs, Zenon
  <2>2. r \in DOMAIN per_table[i]
    BY <1>3, <2>1
  <2>3. per_table[i][r] \in ToSet(per_table[i])
    BY <2>2 DEF ToSet
  <2> QED BY <2>3
<1> HIDE DEF S
<1>4. ASSUME NEW r \in 1..9, NEW i \in 1..n PROVE Cell(r, i) \in Seq(S)
  <2>1. << >> \in Seq(S) /\ \A x \in S : << x >> \in Seq(S)
    OBVIOUS
  <2> QED BY <1>3, <2>1, Zenon
<1>5. ASSUME NEW r \in 1..9, NEW i \in 1..n
      PROVE  /\ r <= Len(per_table[i]) =>
                  DOMAIN Cell(r, i) = {1} /\ Cell(r, i)[1] = per_table[i][r]
             /\ ~(r <= Len(per_table[i])) => DOMAIN Cell(r, i) = {}
  <2>1. \A x : DOMAIN << x >> = {1} /\ << x >>[1] = x
    OBVIOUS
  <2>2. DOMAIN << >> = {}
    OBVIOUS
  <2> QED BY <2>1, <2>2, Zenon
<1> HIDE DEF Cell
<1>6. ASSUME NEW r \in 1..9
      PROVE  /\ Cells(r) \in Seq(Seq(S)) /\ Len(Cells(r)) = n
             /\ \A i \in 1..n : Cells(r)[i] = Cell(r, i)
  <2> DEFINE T == Seq(S)
             made == Cells(r)
  <2>1. \A i \in 1..n : made[i] = Cell(r, i)
    BY Zenon
  <2>2. \A i \in 1..n : made[i] \in T
    BY <1>4, <2>1, Zenon
  <2>3. made = [i \in 1..n |-> made[i]]
    OBVIOUS
  <2> HIDE DEF T, made
  <2>4. made \in Seq(T) /\ Len(made) = n
    <3>1. made \in [1..n -> T]
      BY <2>2, <2>3, Zenon
    <3> QED BY <3>1
  <2> QED BY <2>1, <2>4, Zenon DEF T, made
<1> HIDE DEF Cells
<1>7. ASSUME NEW r \in 1..9
      PROVE  rows[r] \in Seq(S) /\ Placed(Cells(r), n, rows[r])
  BY <1>1, <1>6, FlatPlaces, Zenon
<1>8. rows \in Seq(Seq(S)) /\ Len(rows) = 9
  BY <1>2, <1>7
<1> HIDE DEF S
<1> DEFINE f == FlattenSeq(rows)
<1>9. f \in Seq(S) /\ Placed(rows, 9, f)
  BY <1>8, FlatPlaces, Zenon
<1> HIDE DEF f
<1>10. ASSUME NEW r \in 1..9
       PROVE  DOMAIN rows[r] = 1..Len(rows[r])
  BY <1>7, SeqIs, Zenon
<1>11. ASSUME NEW r \in 1..9, NEW e \in DOMAIN rows[r]
       PROVE  \E i \in 1..n : r <= Len(per_table[i]) /\ rows[r][e] = per_table[i][r]
  <2>1. e \in 1..Len(rows[r])
    BY <1>10, <1>11, Zenon
  <2>2. PICK i \in 1..n : From(Cells(r), i, e, rows[r])
    BY <1>7, <2>1, Zenon DEF Placed
  <2>3. PICK d \in DOMAIN Cells(r)[i] : rows[r][e] = Cells(r)[i][d]
    BY <2>2, Zenon DEF From
  <2>4. d \in DOMAIN Cell(r, i) /\ rows[r][e] = Cell(r, i)[d]
    BY <1>6, <2>3, Zenon
  <2>5. r <= Len(per_table[i]) /\ d \in {1}
    BY <1>5, <2>4, Zenon
  <2>6. d = 1
    BY <2>5
  <2> QED BY <1>5, <2>4, <2>5, <2>6, Zenon
<1>12. ASSUME NEW r \in 1..9, NEW i \in 1..n, r <= Len(per_table[i])
       PROVE  \E e \in DOMAIN rows[r] : rows[r][e] = per_table[i][r]
  <2>1. 1 \in DOMAIN Cells(r)[i] /\ Cells(r)[i][1] = per_table[i][r]
    <3>1. 1 \in {1}
      OBVIOUS
    <3> QED BY <1>5, <1>6, <1>12, <3>1, Zenon
  <2>2. Within(Cells(r), n, Len(rows[r]), rows[r])
    BY <1>7, Zenon DEF Placed
  <2>3. PICK y \in 1..Len(rows[r]) : rows[r][y] = Cells(r)[i][1]
    BY <2>1, <2>2, Zenon DEF Within
  <2> QED BY <1>10, <2>1, <2>3, Zenon
<1>13. ASSUME NEW x \in 1..Len(f)
       PROVE  \E r \in 1..9, i \in 1..n :
                /\ r <= Len(per_table[i]) /\ f[x] = per_table[i][r]
                /\ Earlier(per_table, n, r, x, f)
  <2>1. PICK r \in 1..9 : From(rows, r, x, f)
    BY <1>9, Zenon DEF Placed
  <2>2. PICK e \in DOMAIN rows[r] : f[x] = rows[r][e]
    BY <2>1, Zenon DEF From
  <2>3. PICK i \in 1..n : r <= Len(per_table[i]) /\ rows[r][e] = per_table[i][r]
    BY <1>11, Zenon
  <2>4. \A q \in 1..(r - 1) : q \in 1..9
    OBVIOUS
  <2>5. ASSUME NEW q \in 1..(r - 1), NEW j \in 1..n, q <= Len(per_table[j])
        PROVE  \E y \in 1..(x - 1) : f[y] = per_table[j][q]
    <3>1. PICK d \in DOMAIN rows[q] : rows[q][d] = per_table[j][q]
      BY <1>12, <2>4, <2>5, Zenon
    <3>2. PICK y \in 1..(x - 1) : f[y] = rows[q][d]
      BY <2>1, Zenon DEF From, Within
    <3> QED BY <3>1, <3>2, Zenon
  <2>6. Earlier(per_table, n, r, x, f)
    BY <2>5, Zenon DEF Earlier
  <2> QED BY <2>2, <2>3, <2>6, Zenon
<1>14. IsSeq(f)
  BY <1>9, SeqIs, Zenon
<1> QED BY <1>13, <1>14, Zenon DEF InRounds, f

LEMMA SafeStatementsInRounds ==
  ASSUME NEW tables, IsSeq(tables), \A i \in DOMAIN tables : IsSeq(tables[i].name_col)
  PROVE  /\ IsSeq(gen_safe(tables))
         /\ InRounds([i \in DOMAIN tables |-> SafeTemplates(tables[i], i - 1)],
                     Len(tables), gen_safe(tables))
<1> DEFINE n == Len(tables)
           per_table == [i \in DOMAIN tables |-> SafeTemplates(tables[i], i - 1)]
           rows == [r \in 1..9 |-> FlattenSeq([i \in 1..n |->
                      IF r <= Len(per_table[i]) THEN << per_table[i][r] >> ELSE << >>])]
<1>1. n \in Nat /\ DOMAIN tables = 1..n
  BY DEF IsSeq
<1>2. gen_safe(tables) = FlattenSeq(rows)
  BY <1>1, Zenon DEF gen_safe
<1>3. ASSUME NEW i \in 1..n PROVE IsSeq(per_table[i])
  <2>1. per_table[i] = SafeTemplates(tables[i], i - 1) /\ IsSeq(tables[i].name_col)
    BY <1>1, Zenon
  <2> QED BY <2>1, SafeTemplatesAreProper, Zenon DEF SafeProper
<1>4. rows = [r \in 1..9 |-> FlattenSeq([i \in 1..n |->
                IF r <= Len(per_table[i]) THEN << per_table[i][r] >> ELSE << >>])]
  OBVIOUS
<1> HIDE DEF rows, per_table, n
<1>5. IsSeq(FlattenSeq(rows)) /\ InRounds(per_table, n, FlattenSeq(rows))
  BY <1>1, <1>3, <1>4, RowsAreRounds
<1> QED BY <1>2, <1>5, Zenon DEF per_table, n

(* The templates of a table are told apart by the lengths of their parts;  *)
(* top and last rows, which look alike, by the column they are ordered by. *)
PartsKind(nums, cols, where, tail) ==
  IF Len(tail) = 4 THEN IF Len(cols) = 2 THEN 2 ELSE 3
  ELSE IF Len(tail) = 2
       THEN IF Len(where) = 2 THEN 5 ELSE IF tail[1] \in ToSet(nums) THEN 1 ELSE 4
  ELSE IF Len(tail) = 1 THEN 8
  ELSE IF Len(cols) = 1 THEN 9
  ELSE IF Len(cols) = 4 THEN 7 ELSE 6
KindOf(nums, sql) == PartsKind(nums, sql.cols, sql.where, sql.tail)

(* Templates of kinds up to k, each of a later kind than those before.     *)
Kinds(t, k, f) ==
  /\ IsSeq(f)
  /\ \A x \in 1..Len(f) : f[x].good.from = t.name
  /\ \A x \in 1..Len(f) : KindOf(t.nums, f[x].good) \in 1..k
  /\ \A x, y \in 1..Len(f) : x < y => KindOf(t.nums, f[x].good) < KindOf(t.nums, f[y].good)

LEMMA KindsOn ==
  ASSUME NEW t, NEW k \in Nat, NEW f, Kinds(t, k, f), NEW p,
         p = << >> \/ \E c : p = << c >> /\ c.good.from = t.name /\ KindOf(t.nums, c.good) = k + 1
  PROVE  Kinds(t, k + 1, f \o p)
<1>1. IsSeq(f) /\ Len(f) \in Nat
  BY DEF Kinds, IsSeq
<1>2. CASE p = << >>
  <2>1. f \o p = f
    BY <1>1, <1>2, JoinedOnes, Zenon
  <2>2. \A m \in 1..k : m \in 1..(k + 1)
    OBVIOUS
  <2> QED BY <2>1, <2>2, Zenon DEF Kinds
<1>3. ASSUME NEW c, p = << c >>, c.good.from = t.name, KindOf(t.nums, c.good) = k + 1
      PROVE  Kinds(t, k + 1, f \o p)
  <2> DEFINE h == Append(f, c)
             n == Len(f)
             Of(x) == KindOf(t.nums, h[x].good)
  <2>1. f \o p = h
    BY <1>1, <1>3, JoinedOnes, Zenon
  <2>2. /\ IsSeq(h) /\ Len(h) = n + 1 /\ n \in Nat
        /\ \A i \in 1..n : h[i] = f[i]
        /\ h[n + 1] = c
    BY <1>1, Appended
  <2> HIDE DEF h, n
  <2>3. /\ \A x \in 1..n : Of(x) \in 1..k
        /\ \A x, y \in 1..n : x < y => Of(x) < Of(y)
        /\ Of(n + 1) = k + 1
    BY <1>3, <2>2, Zenon DEF Kinds, n
  <2> HIDE DEF Of
  <2>4. \A x \in 1..(n + 1) : Of(x) \in 1..(k + 1)
    <3>1. \A x \in 1..(n + 1) : x \in 1..n \/ x = n + 1
      BY <2>2
    <3>2. k + 1 \in 1..(k + 1) /\ \A m \in 1..k : m \in 1..(k + 1)
      OBVIOUS
    <3> QED BY <2>3, <3>1, <3>2, Zenon
  <2>5. ASSUME NEW x \in 1..(n + 1), NEW y \in 1..(n + 1), x < y PROVE Of(x) < Of(y)
    <3>1. x \in 1..n /\ (y \in 1..n \/ y = n + 1)
      BY <2>2, <2>5
    <3>2. \A m \in 1..k : m < k + 1
      OBVIOUS
    <3> QED BY <2>3, <2>5, <3>1, <3>2, Zenon
  <2>6. \A x \in 1..(n + 1) : h[x].good.from = t.name
    <3>1. \A x \in 1..(n + 1) : x \in 1..n \/ x = n + 1
      BY <2>2
    <3> QED BY <1>3, <2>2, <3>1, Zenon DEF Kinds, n
  <2>7. Kinds(t, k + 1, h)
    BY <2>2, <2>4, <2>5, <2>6, Zenon DEF Kinds, Of
  <2> QED BY <2>1, <2>7, Zenon
<1> QED BY <1>2, <1>3, Zenon

(* What the classification makes sure of.                                  *)
Classified(t) ==
  /\ IsSeq(t.name_col) /\ Len(t.name_col) \in 0..1
  /\ t.name_col # << >> => Len(t.name_col) = 1
  /\ IsSeq(t.nums) /\ IsSeq(t.dates) /\ ToSet(t.nums) \cap ToSet(t.dates) = {}

LEMMA NthIn ==
  ASSUME NEW s, IsSeq(s), s # << >>, NEW i \in Nat
  PROVE  Nth(s, i) \in ToSet(s)
<1>1. Len(s) \in Nat /\ DOMAIN s = 1..Len(s) /\ s \in Seq(ToSet(s))
  BY DEF IsSeq
<1>2. Len(s) # 0
  BY <1>1, EmptySeq
<1> DEFINE n == Len(s)
           k == i % n
<1>3. k \in 0..(n - 1)
  <2>1. n \in Nat \ {0}
    BY <1>1, <1>2
  <2> HIDE DEF n
  <2> QED BY <2>1
<1>4. Nth(s, i) = s[k + 1]
  BY Zenon DEF Nth
<1> HIDE DEF k
<1>5. k + 1 \in DOMAIN s
  BY <1>1, <1>3
<1> HIDE DEF n
<1> QED BY <1>4, <1>5 DEF ToSet

LEMMA TextLengths ==
  ASSUME NEW a, NEW b, NEW c, NEW d
  PROVE  /\ Len(<< >>) = 0 /\ Len(<< a >>) = 1 /\ Len(<< a, b >>) = 2
         /\ Len(<< a, b, c, d >>) = 4 /\ << a, b >>[1] = a
OBVIOUS

LEMMA NamedLengths ==
  ASSUME NEW t, Classified(t), Named(t), NEW s
  PROVE  LET lead == << "id" >> \o t.name_col
         IN  /\ \A x : Len(Append(lead, x)) = 3
             /\ Len(lead \o First(s)) \in 2..3
<1> DEFINE id == << "id" >>
           a == t.name_col
           lead == id \o a
           b == First(s)
<1>1. IsSeq(a) /\ Len(a) = 1
  BY DEF Classified, Named
<1>2. IsSeq(b) /\ Len(b) \in 0..1
  BY FirstIsSeq
<1>3. id \in Seq({"id"}) /\ Len(id) = 1
  OBVIOUS
<1>4. IsSeq(id)
  BY <1>3, SeqIs, Zenon
<1> HIDE DEF id, a, b
<1>5. ASSUME NEW u, IsSeq(u), NEW v, IsSeq(v)
      PROVE  IsSeq(u \o v) /\ Len(u \o v) = Len(u) + Len(v)
  <2> DEFINE S == ToSet(u) \cup ToSet(v)
  <2>1. u \in Seq(ToSet(u)) /\ v \in Seq(ToSet(v)) /\ ToSet(u) \subseteq S /\ ToSet(v) \subseteq S
    BY <1>5 DEF IsSeq
  <2> HIDE DEF S
  <2>2. u \in Seq(S) /\ v \in Seq(S)
    BY <2>1, SeqMonotonic
  <2>3. u \o v \in Seq(S) /\ Len(u \o v) = Len(u) + Len(v)
    BY <2>2, ConcatProperties, Zenon
  <2> QED BY <2>3, SeqIs, Zenon
<1>6. IsSeq(lead) /\ Len(lead) = 1 + 1
  BY <1>1, <1>3, <1>4, <1>5, Zenon
<1> HIDE DEF lead
<1>7. \A x : Len(Append(lead, x)) = (1 + 1) + 1
  BY <1>6, Appended, Zenon
<1>8. Len(lead \o b) = (1 + 1) + Len(b)
  BY <1>2, <1>5, <1>6, Zenon
<1>9. Len(lead \o b) \in 2..3 /\ (1 + 1) + 1 = 3
  <2>1. (1 + 1) + 1 = 3 /\ \A m \in 0..1 : (1 + 1) + m \in 2..3
    OBVIOUS
  <2> QED BY <1>2, <1>8, <2>1, Zenon
<1> QED BY <1>7, <1>9, Zenon DEF lead, id, a, b

LEMMA TemplatesAreOfKinds ==
  ASSUME NEW t, Classified(t), NEW i \in Nat
  PROVE  Kinds(t, 9, SafeTemplates(t, i))
<1> DEFINE n == Nth(LIMITS, i)
           num == Nth(t.nums, i)
           num2 == Nth(t.nums, i + 1)
           fk == Nth(t.fks, i)
           fk2 == Nth(t.fks, i + 1)
           date == Nth(t.dates, i)
           later == Nth(t.dates, i + 1)
           period == Nth(PERIODS, i)
           lead == << "id" >> \o t.name_col
           Kinded(p, k) == p = << >> \/ \E c : p = << c >> /\ c.good.from = t.name
                                          /\ KindOf(t.nums, c.good) = k
           p1 == Template(Named(t) /\ t.nums # << >>, << "top", t.label, num >>,
                   Select(Append(lead, num), t, Active(t), << num, "DESC" >>, n))
           p2 == Template(t.fks # << >>, << "count", t.label, fk >>,
                   Select(<< fk, "COUNT" >>, t, Active(t), << "GROUP", fk, "cnt", "DESC" >>, n))
           p3 == Template(t.fks # << >> /\ t.nums # << >>, << "total", t.label, fk, num2 >>,
                   Select(<< fk, "SUM", num2, "COUNT" >>, t, << >>,
                          << "GROUP", fk, "total", "DESC" >>, n))
           p4 == Template(Named(t) /\ t.dates # << >>, << "last", t.label, date >>,
                   Select(Append(lead, date), t, << >>, << date, "DESC" >>, n))
           p5 == Template(Named(t) /\ t.dates # << >>, << "period", t.label, later >>,
                   Select(Append(lead, later), t, << later, period >>, << later, "DESC" >>, n))
           p6 == Template(Named(t), << "find", t.label, "id" >>,
                   Select(lead \o First(t.nums), t, << "id = $1" >>, << >>, ""))
           p7 == Template(t.nums # << >>, << "average", t.label, num >>,
                   Select(<< "MIN", "MAX", "AVG", num >>, t, Active(t), << >>, ""))
           p8 == Template(t.fks # << >>, << "unique", t.label, fk2 >>,
                   Select(<< "DISTINCT", fk2 >>, t, Active(t), << fk2 >>, n))
           p9 == Template(t.has_status, << "active", t.label >>,
                   Select(<< "COUNT" >>, t, << "status = 1" >>, << >>, ""))
<1>1. SafeTemplates(t, i) = p1 \o p2 \o p3 \o p4 \o p5 \o p6 \o p7 \o p8 \o p9
  BY Zenon DEF SafeTemplates
<1>2. /\ t.nums # << >> => num \in ToSet(t.nums)
      /\ t.dates # << >> => date \notin ToSet(t.nums)
  <2>1. IsSeq(t.nums) /\ IsSeq(t.dates) /\ ToSet(t.nums) \cap ToSet(t.dates) = {}
    BY DEF Classified
  <2>2. t.nums # << >> => num \in ToSet(t.nums)
    BY <2>1, NthIn, Zenon
  <2>3. t.dates # << >> => date \in ToSet(t.dates)
    BY <2>1, NthIn, Zenon
  <2> HIDE DEF num, date
  <2> QED BY <2>1, <2>2, <2>3
<1> HIDE DEF n, num, num2, fk, fk2, date, later, period
<1>3. Named(t) => /\ \A x : Len(Append(lead, x)) = 3
                  /\ Len(lead \o First(t.nums)) \in 2..3
  BY NamedLengths, Zenon
<1> HIDE DEF lead
<1>4. Active(t) = << >> \/ Active(t) = << "status = 1" >>
  BY Zenon DEF Active
<1>5. 1 # 2 /\ 0 # 2 /\ 0 # 4 /\ 0 # 1 /\ 1 # 4 /\ 4 # 2 /\ 2 # 4 /\ 4 # 1 /\ 2 # 1
      /\ 3 # 2 /\ 3 # 1 /\ 3 # 4 /\ (\A x \in 2..3 : x # 1 /\ x # 4)
  OBVIOUS
<1>6. Len(Active(t)) # 2
  BY <1>4, <1>5, TextLengths, Zenon
<1>7. Kinded(p1, 1)
  <2> DEFINE words == << "top", t.label, num >>
             cols == Append(lead, num)
             where == Active(t)
             tail == << num, "DESC" >>
             sql == Select(cols, t, where, tail, n)
             c == [nl |-> words, good |-> sql]
  <2>1. p1 = IF Named(t) /\ t.nums # << >> THEN << c >> ELSE << >>
    BY Zenon DEF Template
  <2>2. Len(tail) = 2 /\ tail[1] = num /\ Len(where) # 2
    BY <1>6, TextLengths, Zenon
  <2> HIDE DEF p1, words, cols, where, tail
  <2>3. sql.tail = tail /\ sql.cols = cols /\ sql.where = where /\ sql.from = t.name
    BY DEF Select, Statement
  <2> HIDE DEF sql
  <2>4. c.good = sql
    OBVIOUS
  <2> HIDE DEF c
  <2>5. Named(t) /\ t.nums # << >> => PartsKind(t.nums, cols, where, tail) = 1
    BY <1>5, <1>2, <2>2, Zenon DEF PartsKind
  <2>6. KindOf(t.nums, c.good) = PartsKind(t.nums, cols, where, tail)
    BY <2>3, <2>4, Zenon DEF KindOf
  <2> QED BY <2>1, <2>3, <2>4, <2>5, <2>6, Zenon
<1>8. Kinded(p2, 2)
  <2> DEFINE words == << "count", t.label, fk >>
             cols == << fk, "COUNT" >>
             where == Active(t)
             tail == << "GROUP", fk, "cnt", "DESC" >>
             sql == Select(cols, t, where, tail, n)
             c == [nl |-> words, good |-> sql]
  <2>1. p2 = IF t.fks # << >> THEN << c >> ELSE << >>
    BY Zenon DEF Template
  <2>2. Len(tail) = 4 /\ Len(cols) = 2
    BY TextLengths, Zenon
  <2> HIDE DEF p2, words, cols, where, tail
  <2>3. sql.tail = tail /\ sql.cols = cols /\ sql.where = where /\ sql.from = t.name
    BY DEF Select, Statement
  <2> HIDE DEF sql
  <2>4. c.good = sql
    OBVIOUS
  <2> HIDE DEF c
  <2>5. t.fks # << >> => PartsKind(t.nums, cols, where, tail) = 2
    BY <1>5, <2>2, Zenon DEF PartsKind
  <2>6. KindOf(t.nums, c.good) = PartsKind(t.nums, cols, where, tail)
    BY <2>3, <2>4, Zenon DEF KindOf
  <2> QED BY <2>1, <2>3, <2>4, <2>5, <2>6, Zenon
<1>9. Kinded(p3, 3)
  <2> DEFINE words == << "total", t.label, fk, num2 >>
             cols == << fk, "SUM", num2, "COUNT" >>
             where == << >>
             tail == << "GROUP", fk, "total", "DESC" >>
             sql == Select(cols, t, where, tail, n)
             c == [nl |-> words, good |-> sql]
  <2>1. p3 = IF t.fks # << >> /\ t.nums # << >> THEN << c >> ELSE << >>
    BY Zenon DEF Template
  <2>2. Len(tail) = 4 /\ Len(cols) # 2
    BY <1>5, TextLengths, Zenon
  <2> HIDE DEF p3, words, cols, where, tail
  <2>3. sql.tail = tail /\ sql.cols = cols /\ sql.where = where /\ sql.from = t.name
    BY DEF Select, Statement
  <2> HIDE DEF sql
  <2>4. c.good = sql
    OBVIOUS
  <2> HIDE DEF c
  <2>5. t.fks # << >> /\ t.nums # << >> => PartsKind(t.nums, cols, where, tail) = 3
    BY <1>5, <2>2, Zenon DEF PartsKind
  <2>6. KindOf(t.nums, c.good) = PartsKind(t.nums, cols, where, tail)
    BY <2>3, <2>4, Zenon DEF KindOf
  <2> QED BY <2>1, <2>3, <2>4, <2>5, <2>6, Zenon
<1>10. Kinded(p4, 4)
  <2> DEFINE words == << "last", t.label, date >>
             cols == Append(lead, date)
             where == << >>
             tail == << date, "DESC" >>
             sql == Select(cols, t, where, tail, n)
             c == [nl |-> words, good |-> sql]
  <2>1. p4 = IF Named(t) /\ t.dates # << >> THEN << c >> ELSE << >>
    BY Zenon DEF Template
  <2>2. Len(tail) = 2 /\ tail[1] = date /\ Len(where) # 2
    BY <1>5, TextLengths, Zenon
  <2> HIDE DEF p4, words, cols, where, tail
  <2>3. sql.tail = tail /\ sql.cols = cols /\ sql.where = where /\ sql.from = t.name
    BY DEF Select, Statement
  <2> HIDE DEF sql
  <2>4. c.good = sql
    OBVIOUS
  <2> HIDE DEF c
  <2>5. Named(t) /\ t.dates # << >> => PartsKind(t.nums, cols, where, tail) = 4
    BY <1>5, <1>2, <2>2, Zenon DEF PartsKind
  <2>6. KindOf(t.nums, c.good) = PartsKind(t.nums, cols, where, tail)
    BY <2>3, <2>4, Zenon DEF KindOf
  <2> QED BY <2>1, <2>3, <2>4, <2>5, <2>6, Zenon
<1>11. Kinded(p5, 5)
  <2> DEFINE words == << "period", t.label, later >>
             cols == Append(lead, later)
             where == << later, period >>
             tail == << later, "DESC" >>
             sql == Select(cols, t, where, tail, n)
             c == [nl |-> words, good |-> sql]
  <2>1. p5 = IF Named(t) /\ t.dates # << >> THEN << c >> ELSE << >>
    BY Zenon DEF Template
  <2>2. Len(tail) = 2 /\ Len(where) = 2
    BY TextLengths, Zenon
  <2> HIDE DEF p5, words, cols, where, tail
  <2>3. sql.tail = tail /\ sql.cols = cols /\ sql.where = where /\ sql.from = t.name
    BY DEF Select, Statement
  <2> HIDE DEF sql
  <2>4. c.good = sql
    OBVIOUS
  <2> HIDE DEF c
  <2>5. Named(t) /\ t.dates # << >> => PartsKind(t.nums, cols, where, tail) = 5
    BY <1>5, <2>2, Zenon DEF PartsKind
  <2>6. KindOf(t.nums, c.good) = PartsKind(t.nums, cols, where, tail)
    BY <2>3, <2>4, Zenon DEF KindOf
  <2> QED BY <2>1, <2>3, <2>4, <2>5, <2>6, Zenon
<1>12. Kinded(p6, 6)
  <2> DEFINE words == << "find", t.label, "id" >>
             cols == lead \o First(t.nums)
             where == << "id = $1" >>
             tail == << >>
             sql == Select(cols, t, where, tail, "")
             c == [nl |-> words, good |-> sql]
  <2>1. p6 = IF Named(t) THEN << c >> ELSE << >>
    BY Zenon DEF Template
  <2>2. Len(tail) = 0 /\ (Named(t) => Len(cols) # 1 /\ Len(cols) # 4)
    BY <1>3, <1>5, TextLengths, Zenon
  <2> HIDE DEF p6, words, cols, where, tail
  <2>3. sql.tail = tail /\ sql.cols = cols /\ sql.where = where /\ sql.from = t.name
    BY DEF Select, Statement
  <2> HIDE DEF sql
  <2>4. c.good = sql
    OBVIOUS
  <2> HIDE DEF c
  <2>5. Named(t) => PartsKind(t.nums, cols, where, tail) = 6
    BY <1>5, <2>2, Zenon DEF PartsKind
  <2>6. KindOf(t.nums, c.good) = PartsKind(t.nums, cols, where, tail)
    BY <2>3, <2>4, Zenon DEF KindOf
  <2> QED BY <2>1, <2>3, <2>4, <2>5, <2>6, Zenon
<1>13. Kinded(p7, 7)
  <2> DEFINE words == << "average", t.label, num >>
             cols == << "MIN", "MAX", "AVG", num >>
             where == Active(t)
             tail == << >>
             sql == Select(cols, t, where, tail, "")
             c == [nl |-> words, good |-> sql]
  <2>1. p7 = IF t.nums # << >> THEN << c >> ELSE << >>
    BY Zenon DEF Template
  <2>2. Len(tail) = 0 /\ Len(cols) # 1 /\ Len(cols) = 4
    BY <1>5, TextLengths, Zenon
  <2> HIDE DEF p7, words, cols, where, tail
  <2>3. sql.tail = tail /\ sql.cols = cols /\ sql.where = where /\ sql.from = t.name
    BY DEF Select, Statement
  <2> HIDE DEF sql
  <2>4. c.good = sql
    OBVIOUS
  <2> HIDE DEF c
  <2>5. t.nums # << >> => PartsKind(t.nums, cols, where, tail) = 7
    BY <1>5, <2>2, Zenon DEF PartsKind
  <2>6. KindOf(t.nums, c.good) = PartsKind(t.nums, cols, where, tail)
    BY <2>3, <2>4, Zenon DEF KindOf
  <2> QED BY <2>1, <2>3, <2>4, <2>5, <2>6, Zenon
<1>14. Kinded(p8, 8)
  <2> DEFINE words == << "unique", t.label, fk2 >>
             cols == << "DISTINCT", fk2 >>
             where == Active(t)
             tail == << fk2 >>
             sql == Select(cols, t, where, tail, n)
             c == [nl |-> words, good |-> sql]
  <2>1. p8 = IF t.fks # << >> THEN << c >> ELSE << >>
    BY Zenon DEF Template
  <2>2. Len(tail) = 1
    BY TextLengths, Zenon
  <2> HIDE DEF p8, words, cols, where, tail
  <2>3. sql.tail = tail /\ sql.cols = cols /\ sql.where = where /\ sql.from = t.name
    BY DEF Select, Statement
  <2> HIDE DEF sql
  <2>4. c.good = sql
    OBVIOUS
  <2> HIDE DEF c
  <2>5. t.fks # << >> => PartsKind(t.nums, cols, where, tail) = 8
    BY <1>5, <2>2, Zenon DEF PartsKind
  <2>6. KindOf(t.nums, c.good) = PartsKind(t.nums, cols, where, tail)
    BY <2>3, <2>4, Zenon DEF KindOf
  <2> QED BY <2>1, <2>3, <2>4, <2>5, <2>6, Zenon
<1>15. Kinded(p9, 9)
  <2> DEFINE words == << "active", t.label >>
             cols == << "COUNT" >>
             where == << "status = 1" >>
             tail == << >>
             sql == Select(cols, t, where, tail, "")
             c == [nl |-> words, good |-> sql]
  <2>1. p9 = IF t.has_status THEN << c >> ELSE << >>
    BY Zenon DEF Template
  <2>2. Len(tail) = 0 /\ Len(cols) = 1
    BY TextLengths, Zenon
  <2> HIDE DEF p9, words, cols, where, tail
  <2>3. sql.tail = tail /\ sql.cols = cols /\ sql.where = where /\ sql.from = t.name
    BY DEF Select, Statement
  <2> HIDE DEF sql
  <2>4. c.good = sql
    OBVIOUS
  <2> HIDE DEF c
  <2>5. t.has_status => PartsKind(t.nums, cols, where, tail) = 9
    BY <1>5, <2>2, Zenon DEF PartsKind
  <2>6. KindOf(t.nums, c.good) = PartsKind(t.nums, cols, where, tail)
    BY <2>3, <2>4, Zenon DEF KindOf
  <2> QED BY <2>1, <2>3, <2>4, <2>5, <2>6, Zenon
<1> HIDE DEF p1, p2, p3, p4, p5, p6, p7, p8, p9
<1>16. Kinds(t, 1, p1)
  <2>1. Kinds(t, 0, << >>)
    <3>1. IsSeq(<< >>)
      BY TextOfWords, Zenon
    <3>2. 1..Len(<< >>) = {}
      OBVIOUS
    <3> QED BY <3>1, <3>2, Zenon DEF Kinds
  <2>2. 0 \in Nat /\ 0 + 1 = 1
    OBVIOUS
  <2>3. Kinds(t, 0 + 1, << >> \o p1)
    BY <1>7, <2>1, <2>2, KindsOn, Zenon
  <2>4. << >> \o p1 = p1
    <3>1. IsSeq(p1)
      BY <1>7, TextOfWords, Zenon
    <3> QED BY <3>1, ConcatEmptySeq, Zenon DEF IsSeq
  <2> QED BY <2>2, <2>3, <2>4, Zenon
<1> HIDE DEF Kinded
<1>17. /\ 1 \in Nat /\ 2 \in Nat /\ 3 \in Nat /\ 4 \in Nat /\ 5 \in Nat /\ 6 \in Nat
       /\ 7 \in Nat /\ 8 \in Nat
       /\ 1 + 1 = 2 /\ 2 + 1 = 3 /\ 3 + 1 = 4 /\ 4 + 1 = 5 /\ 5 + 1 = 6 /\ 6 + 1 = 7
       /\ 7 + 1 = 8 /\ 8 + 1 = 9
  OBVIOUS
<1>18. ASSUME NEW k \in Nat, NEW f, Kinds(t, k, f), NEW p, Kinded(p, k + 1)
       PROVE  Kinds(t, k + 1, f \o p)
  BY <1>18, KindsOn, Zenon DEF Kinded
<1>19. Kinds(t, 3, p1 \o p2 \o p3)
  BY <1>8, <1>9, <1>16, <1>17, <1>18, Zenon
<1>20. Kinds(t, 5, p1 \o p2 \o p3 \o p4 \o p5)
  BY <1>10, <1>11, <1>17, <1>18, <1>19, Zenon
<1>21. Kinds(t, 7, p1 \o p2 \o p3 \o p4 \o p5 \o p6 \o p7)
  BY <1>12, <1>13, <1>17, <1>18, <1>20, Zenon
<1>22. Kinds(t, 9, p1 \o p2 \o p3 \o p4 \o p5 \o p6 \o p7 \o p8 \o p9)
  BY <1>14, <1>15, <1>17, <1>18, <1>21, Zenon
<1> QED BY <1>1, <1>22, Zenon

(* One sequence after another.                                             *)
Joint(a, b, h) ==
  /\ IsSeq(h) /\ Len(h) = Len(a) + Len(b) /\ DOMAIN h = 1..(Len(a) + Len(b))
  /\ Len(a) \in Nat /\ DOMAIN a = 1..Len(a) /\ Len(b) \in Nat /\ DOMAIN b = 1..Len(b)
  /\ \A i \in 1..Len(a) : i \in DOMAIN h /\ h[i] = a[i]
  /\ \A i \in 1..Len(b) : Len(a) + i \in DOMAIN h /\ h[Len(a) + i] = b[i]
  /\ \A x \in DOMAIN h : x \in 1..Len(a) \/ \E i \in 1..Len(b) : x = Len(a) + i

LEMMA Joined ==
  ASSUME NEW a, IsSeq(a), NEW b, IsSeq(b)
  PROVE  Joint(a, b, a \o b)
<1> DEFINE S == ToSet(a) \cup ToSet(b)
           h == a \o b
           k == Len(a)
           l == Len(b)
<1>1. a \in Seq(ToSet(a)) /\ b \in Seq(ToSet(b)) /\ ToSet(a) \subseteq S /\ ToSet(b) \subseteq S
  BY DEF IsSeq
<1> HIDE DEF S
<1>2. a \in Seq(S) /\ b \in Seq(S)
  BY <1>1, SeqMonotonic
<1>3. h \in Seq(S) /\ Len(h) = k + l /\ \A x \in 1..(k + l) : h[x] = IF x <= k THEN a[x] ELSE b[x - k]
  BY <1>2, ConcatProperties, Zenon
<1>4. k \in Nat /\ DOMAIN a = 1..k /\ l \in Nat /\ DOMAIN b = 1..l
  BY <1>2, SeqIs, Zenon
<1> HIDE DEF h, k, l
<1>5. IsSeq(h) /\ DOMAIN h = 1..(k + l)
  BY <1>3, SeqIs, Zenon
<1>6. \A i \in 1..k : i \in 1..(k + l) /\ i <= k
  BY <1>4
<1>7. \A i \in 1..l : k + i \in 1..(k + l) /\ ~(k + i <= k) /\ (k + i) - k = i
  BY <1>4
<1>8. \A x \in 1..(k + l) : x \in 1..k \/ (x - k \in 1..l /\ x = k + (x - k))
  BY <1>4
<1>9. \A i \in 1..k : h[i] = a[i]
  BY <1>3, <1>6, Zenon
<1>10. \A i \in 1..l : h[k + i] = b[i]
  BY <1>3, <1>7, Zenon
<1>11. \A x \in 1..(k + l) : x \in 1..k \/ \E i \in 1..l : x = k + i
  BY <1>8, Zenon
<1> QED BY <1>3, <1>4, <1>5, <1>6, <1>7, <1>9, <1>10, <1>11, Zenon DEF Joint, h, k, l

NamesApart(s) == \A i, j \in DOMAIN s : s[i].name = s[j].name => i = j

(* Of tables with different names some are left out.                       *)
SomeOf(s, f) ==
  /\ IsSeq(f) /\ NamesApart(f)
  /\ \A x \in DOMAIN f : \E j \in DOMAIN s : f[x] = s[j]

LEMMA FilteredApart ==
  ASSUME NEW s, IsSeq(s), NamesApart(s), NEW p,
         p = [i \in DOMAIN s |-> p[i]],
         \A i \in DOMAIN s : p[i] = << >> \/ p[i] = << s[i] >>
  PROVE  SomeOf(s, FlattenSeq(p))
<1> DEFINE S == ToSet(s)
           n == Len(s)
<1>1. n \in Nat /\ DOMAIN s = 1..n /\ \A i \in 1..n : s[i] \in S
  BY DEF IsSeq, ToSet
<1>2. ASSUME NEW i \in 1..n PROVE p[i] \in Seq(S)
  <2>1. << >> \in Seq(S) /\ \A x \in S : << x >> \in Seq(S)
    OBVIOUS
  <2> QED BY <1>1, <2>1, Zenon
<1>3. p \in Seq(Seq(S)) /\ Len(p) = n
  <2>1. p \in [1..n -> Seq(S)]
    BY <1>1, <1>2
  <2> HIDE DEF n
  <2> QED BY <1>1, <2>1
<1>4. PICK g : Flattening(p, n, g) /\ FlattenSeq(p) = g[n]
  BY <1>3, FlattenUnfolds, Zenon
<1>5. g[0] = << >> /\ \A i \in 1..n : g[i] = g[i - 1] \o p[i]
  BY <1>4, Zenon DEF Flattening
<1> HIDE DEF n, S
<1> DEFINE P == {k \in 0..n : /\ IsSeq(g[k]) /\ NamesApart(g[k])
                              /\ \A x \in DOMAIN g[k] : \E j \in 1..k : g[k][x] = s[j]}
<1>6. 0 \in P
  <2>1. DOMAIN << >> = {} /\ 0 \in 0..n
    BY <1>1
  <2>2. NamesApart(<< >>)
    BY <2>1, Zenon DEF NamesApart
  <2>3. IsSeq(<< >>)
    BY TextOfWords, Zenon
  <2> QED BY <1>5, <2>1, <2>2, <2>3, Zenon
<1>7. ASSUME NEW k \in 0..(n - 1), k \in P PROVE k + 1 \in P
  <2>1. /\ k + 1 \in 1..n /\ k + 1 \in 0..n /\ (k + 1) - 1 = k /\ k \in 0..n
        /\ \A j \in 1..k : j \in 1..(k + 1) /\ j \in 1..n /\ j # k + 1
        /\ k + 1 \in 1..(k + 1)
    BY <1>1
  <2>2. g[k + 1] = g[k] \o p[k + 1]
    BY <1>5, <2>1, Zenon
  <2>3. IsSeq(g[k]) /\ NamesApart(g[k]) /\ \A x \in DOMAIN g[k] : \E j \in 1..k : g[k][x] = s[j]
    BY <1>7
  <2>4. CASE p[k + 1] = << >>
    <3>1. g[k + 1] = g[k]
      BY <2>2, <2>3, <2>4, JoinedOnes, Zenon
    <3>2. \A x \in DOMAIN g[k] : \E j \in 1..(k + 1) : g[k][x] = s[j]
      BY <2>1, <2>3, Zenon
    <3> QED BY <2>1, <2>3, <3>1, <3>2
  <2>5. CASE p[k + 1] = << s[k + 1] >>
    <3> DEFINE h == Append(g[k], s[k + 1])
               m == Len(g[k])
    <3>1. g[k + 1] = h
      <4>1. g[k] \o << s[k + 1] >> = h
        BY <2>3, JoinedOnes, Zenon
      <4> HIDE DEF h
      <4> QED BY <2>2, <2>5, <4>1, Zenon
    <3>2. /\ IsSeq(h) /\ m \in Nat /\ DOMAIN g[k] = 1..m /\ DOMAIN h = 1..(m + 1)
          /\ \A i \in 1..m : h[i] = g[k][i]
          /\ h[m + 1] = s[k + 1]
      BY <2>3, Appended
    <3> HIDE DEF h, m
    <3>3. \A x \in 1..(m + 1) : x \in 1..m \/ x = m + 1
      BY <3>2
    <3>4. \A x \in 1..m : \E j \in 1..k : h[x] = s[j]
      BY <2>3, <3>2, Zenon
    <3>5. \A x \in 1..(m + 1) : \E j \in 1..(k + 1) : h[x] = s[j]
      BY <2>1, <3>2, <3>3, <3>4, Zenon
    <3>6. \A x \in 1..m : h[x].name # h[m + 1].name
      <4>1. \A j \in 1..k : s[j].name # s[k + 1].name
        BY <1>1, <2>1, Zenon DEF NamesApart
      <4> QED BY <3>2, <3>4, <4>1, Zenon
    <3>7. NamesApart(h)
      <4>1. ASSUME NEW x \in 1..m, NEW y \in 1..m, h[x].name = h[y].name PROVE x = y
        <5>1. g[k][x].name = g[k][y].name
          BY <3>2, <4>1, Zenon
        <5> QED BY <2>3, <3>2, <5>1, Zenon DEF NamesApart
      <4>2. ASSUME NEW x \in 1..(m + 1), NEW y \in 1..(m + 1), h[x].name = h[y].name
            PROVE  x = y
        BY <3>3, <3>6, <4>1, <4>2, Zenon
      <4> QED BY <3>2, <4>2, Zenon DEF NamesApart
    <3> QED BY <2>1, <3>1, <3>2, <3>5, <3>7, Zenon
  <2> QED BY <1>1, <2>1, <2>4, <2>5, Zenon
<1> HIDE DEF P
<1>8. 0..n \subseteq P
  BY <1>1, <1>6, <1>7, InductionUpTo
<1>9. n \in P
  <2>1. n \in 0..n
    BY <1>1
  <2> QED BY <1>8, <2>1, Zenon
<1> QED BY <1>1, <1>4, <1>9, Zenon DEF P, SomeOf

LEMMA OfTypeIs ==
  ASSUME NEW columns, IsSeq(columns), NEW type
  PROVE  /\ IsSeq(OfType(columns, type))
         /\ \A x \in ToSet(OfType(columns, type)) :
               \E a \in DOMAIN columns : columns[a][1] = x /\ columns[a][2] = type
<1> DEFINE T == {c \in ToSet(columns) : c[2] = type}
           p == [i \in DOMAIN columns |-> IF columns[i][1] # "id" /\ columns[i][2] = type
                                          THEN << columns[i] >> ELSE << >>]
           f == FlattenSeq(p)
           names == NamesOf(f)
<1>1. OfType(columns, type) = names
  BY Zenon DEF OfType, Those
<1>2. \A i \in DOMAIN columns : columns[i][2] = type => columns[i] \in T
  BY DEF ToSet
<1>3. /\ p = [i \in DOMAIN columns |-> p[i]]
      /\ \A i \in DOMAIN columns :
            p[i] = << >> \/ (p[i] = << columns[i] >> /\ columns[i][2] = type)
  BY Zenon
<1>4. \A c \in T : \E a \in DOMAIN columns : columns[a] = c /\ c[2] = type
  BY DEF ToSet
<1> HIDE DEF T, p
<1>5. f \in Seq(T)
  BY <1>2, <1>3, Filtered, Zenon
<1> HIDE DEF f
<1>6. Len(f) \in Nat /\ DOMAIN f = 1..Len(f) /\ \A i \in 1..Len(f) : f[i] \in T
  BY <1>5
<1>7. names = [i \in 1..Len(f) |-> names[i]] /\ \A i \in 1..Len(f) : names[i] = f[i][1]
  BY <1>6 DEF NamesOf
<1> HIDE DEF names
<1>8. IsSeq(names) /\ DOMAIN names = 1..Len(f)
  BY <1>6, <1>7, SeqOfPieces
<1>9. \A x \in ToSet(names) : \E i \in 1..Len(f) : x = names[i]
  BY <1>8 DEF ToSet
<1>10. ASSUME NEW x \in ToSet(names)
       PROVE  \E a \in DOMAIN columns : columns[a][1] = x /\ columns[a][2] = type
  <2>1. PICK i \in 1..Len(f) : x = names[i]
    BY <1>9, Zenon
  <2>2. f[i] \in T /\ x = f[i][1]
    BY <1>6, <1>7, <2>1, Zenon
  <2>3. PICK a \in DOMAIN columns : columns[a] = f[i] /\ f[i][2] = type
    BY <1>4, <2>2, Zenon
  <2> QED BY <2>2, <2>3, Zenon
<1> QED BY <1>1, <1>8, <1>10, Zenon

LEMMA ClassifiedTable ==
  ASSUME NEW raw, IsSeq(raw.columns),
         \A a, b \in DOMAIN raw.columns : raw.columns[a][1] = raw.columns[b][1] => a = b
  PROVE  Classified(classify(raw)) /\ classify(raw).name = raw.name
<1> DEFINE t == classify(raw)
           nums == OfType(raw.columns, "numeric")
           dates == OfType(raw.columns, "date")
<1>1. /\ t.name = raw.name /\ t.nums = nums /\ t.dates = dates
      /\ \E texts, b : t.name_col = IF b THEN << "name" >> ELSE First(texts)
  BY DEF classify
<1> HIDE DEF t
<1>2. IsSeq(nums) /\ IsSeq(dates) /\ ToSet(nums) \cap ToSet(dates) = {}
  <2>1. /\ IsSeq(nums)
        /\ \A x \in ToSet(nums) :
             \E a \in DOMAIN raw.columns : raw.columns[a][1] = x /\ raw.columns[a][2] = "numeric"
    BY OfTypeIs
  <2>2. /\ IsSeq(dates)
        /\ \A x \in ToSet(dates) :
             \E a \in DOMAIN raw.columns : raw.columns[a][1] = x /\ raw.columns[a][2] = "date"
    BY OfTypeIs
  <2> HIDE DEF nums, dates
  <2>3. "numeric" # "date"
    OBVIOUS
  <2>4. ASSUME NEW x, x \in ToSet(nums), x \in ToSet(dates) PROVE FALSE
    <3>1. PICK a \in DOMAIN raw.columns : raw.columns[a][1] = x /\ raw.columns[a][2] = "numeric"
      BY <2>1, <2>4, Zenon
    <3>2. PICK b \in DOMAIN raw.columns : raw.columns[b][1] = x /\ raw.columns[b][2] = "date"
      BY <2>2, <2>4, Zenon
    <3>3. a = b
      BY <3>1, <3>2, Zenon
    <3> QED BY <2>3, <3>1, <3>2, <3>3, Zenon
  <2> QED BY <2>1, <2>2, <2>4
<1> HIDE DEF nums, dates
<1>3. IsSeq(t.name_col) /\ Len(t.name_col) \in 0..1 /\ (t.name_col # << >> => Len(t.name_col) = 1)
  <2>1. PICK texts, b : t.name_col = IF b THEN << "name" >> ELSE First(texts)
    BY <1>1
  <2>2. IsSeq(<< "name" >>) /\ Len(<< "name" >>) = 1 /\ 1 \in 0..1
    <3>1. IsSeq(<< "name" >>)
      BY TextOfWords, Zenon
    <3>2. Len(<< "name" >>) = 1 /\ 1 \in 0..1
      OBVIOUS
    <3> QED BY <3>1, <3>2
  <2>3. IsSeq(First(texts)) /\ Len(First(texts)) \in 0..1
    BY FirstIsSeq
  <2>4. First(texts) # << >> => Len(First(texts)) = 1
    <3> DEFINE s == First(texts)
    <3>1. s \in Seq(ToSet(s)) /\ Len(s) \in 0..1
      BY <2>3 DEF IsSeq
    <3> HIDE DEF s
    <3>2. s # << >> => Len(s) # 0
      BY <3>1, EmptySeq
    <3> QED BY <3>1, <3>2 DEF s
  <2> QED BY <2>1, <2>2, <2>3, <2>4, Zenon
<1>4. Classified(t)
  BY <1>1, <1>2, <1>3, Zenon DEF Classified
<1> QED BY <1>1, <1>4, Zenon DEF t

LEMMA SimTablesAreSeq == IsSeq(SIM_TABLES)
<1> DEFINE a == SIM_TABLES[1]
           b == SIM_TABLES[2]
           c == SIM_TABLES[3]
<1>1. SIM_TABLES = << a, b, c >>
  BY DEF SIM_TABLES
<1> HIDE DEF a, b, c
<1> QED BY <1>1, TextOfWords, Zenon

LEMMA TablesClassified ==
  ASSUME NEW catalog \in Catalogs
  PROVE  /\ IsSeq(load_tables(catalog)) /\ NamesApart(load_tables(catalog))
         /\ \A i \in DOMAIN load_tables(catalog) : Classified(load_tables(catalog)[i])
<1> DEFINE whole == catalog \o SIM_TABLES
           business == Those(catalog, LAMBDA u : ~u.container /\ Len(u.columns) >= 4)
           all == business \o SIM_TABLES
           tables == [i \in DOMAIN all |-> classify(all[i])]
           k == Len(catalog)
           l == Len(SIM_TABLES)
           m == Len(business)
<1>1. load_tables(catalog) = tables
  BY Zenon DEF load_tables
<1>2. IsSeq(catalog) /\ IsSeq(SIM_TABLES)
  BY CatalogsAssumption, SimTablesAreSeq, Zenon DEF IsSeq
<1>3. /\ NamesApart(whole)
      /\ \A i \in DOMAIN whole :
           /\ IsSeq(whole[i].columns)
           /\ \A a, b \in DOMAIN whole[i].columns :
                 whole[i].columns[a][1] = whole[i].columns[b][1] => a = b
  BY CatalogsAssumption, Zenon DEF NamesApart
<1>4. /\ k \in Nat /\ DOMAIN catalog = 1..k /\ l \in Nat /\ DOMAIN SIM_TABLES = 1..l
      /\ \A i \in 1..k : i \in DOMAIN whole /\ whole[i] = catalog[i]
      /\ \A i \in 1..l : k + i \in DOMAIN whole /\ whole[k + i] = SIM_TABLES[i]
  <2>1. Joint(catalog, SIM_TABLES, whole)
    BY <1>2, Joined, Zenon
  <2> HIDE DEF whole
  <2> QED BY <2>1, Zenon DEF Joint
<1> HIDE DEF whole
<1>5. NamesApart(catalog)
  BY <1>3, <1>4, Zenon DEF NamesApart
<1>6. /\ IsSeq(business) /\ NamesApart(business)
      /\ \A x \in DOMAIN business : \E j \in 1..k : business[x] = catalog[j]
  <2> DEFINE s == catalog
             p == [i \in DOMAIN s |-> IF ~s[i].container /\ Len(s[i].columns) >= 4
                                      THEN << s[i] >> ELSE << >>]
  <2>1. business = FlattenSeq(p)
    BY Zenon DEF Those
  <2>2. /\ p = [i \in DOMAIN s |-> p[i]]
        /\ \A i \in DOMAIN s : p[i] = << >> \/ p[i] = << s[i] >>
    BY Zenon
  <2> HIDE DEF p, business
  <2>3. IsSeq(s) /\ NamesApart(s) /\ DOMAIN s = 1..k
    BY <1>2, <1>4, <1>5, Zenon
  <2>4. SomeOf(s, FlattenSeq(p))
    <3> HIDE DEF s
    <3> QED BY <2>2, <2>3, FilteredApart, Zenon
  <2> QED BY <2>1, <2>3, <2>4, Zenon DEF SomeOf
<1> HIDE DEF business
<1>7. /\ IsSeq(all) /\ m \in Nat /\ DOMAIN all = 1..(m + l) /\ DOMAIN business = 1..m
      /\ \A i \in 1..m : i \in DOMAIN all /\ all[i] = business[i]
      /\ \A i \in 1..l : m + i \in DOMAIN all /\ all[m + i] = SIM_TABLES[i]
      /\ \A x \in DOMAIN all : x \in 1..m \/ \E i \in 1..l : x = m + i
  <2>1. Joint(business, SIM_TABLES, all)
    BY <1>2, <1>6, Joined, Zenon
  <2> HIDE DEF all
  <2> QED BY <2>1, Zenon DEF Joint
<1> HIDE DEF all, m
<1>8. /\ \A x \in 1..m : \E j \in 1..k : j \in DOMAIN whole /\ all[x] = whole[j]
      /\ \A i \in 1..l : k + i \in DOMAIN whole /\ all[m + i] = whole[k + i]
  <2>1. ASSUME NEW x \in 1..m PROVE \E j \in 1..k : j \in DOMAIN whole /\ all[x] = whole[j]
    <3>1. x \in DOMAIN business /\ all[x] = business[x]
      BY <1>7, Zenon
    <3>2. PICK j \in 1..k : business[x] = catalog[j]
      BY <1>6, <3>1, Zenon
    <3> QED BY <1>4, <3>1, <3>2, Zenon
  <2>2. ASSUME NEW i \in 1..l PROVE k + i \in DOMAIN whole /\ all[m + i] = whole[k + i]
    BY <1>4, <1>7, Zenon
  <2> QED BY <2>1, <2>2, Zenon
<1>9. \A i \in 1..k, j \in 1..l : i # k + j
  BY <1>4
<1>10. ASSUME NEW x \in DOMAIN all, NEW y \in DOMAIN all, all[x].name = all[y].name
       PROVE  x = y
  <2>1. CASE x \in 1..m /\ y \in 1..m
    BY <1>6, <1>7, <1>10, <2>1, Zenon DEF NamesApart
  <2>2. ASSUME NEW u \in 1..m, NEW i \in 1..l, all[u].name = all[m + i].name
        PROVE  FALSE
    <3>1. PICK j \in 1..k : j \in DOMAIN whole /\ all[u] = whole[j]
      BY <1>8, Zenon
    <3>2. k + i \in DOMAIN whole /\ all[m + i] = whole[k + i]
      BY <1>8, Zenon
    <3>3. whole[j].name = whole[k + i].name
      BY <2>2, <3>1, <3>2, Zenon
    <3>4. j = k + i
      BY <1>3, <3>1, <3>2, <3>3, Zenon DEF NamesApart
    <3> QED BY <1>9, <3>4, Zenon
  <2>3. CASE x \in 1..m /\ y \notin 1..m
    BY <1>7, <1>10, <2>2, <2>3, Zenon
  <2>4. CASE x \notin 1..m /\ y \in 1..m
    BY <1>7, <1>10, <2>2, <2>4, Zenon
  <2>5. CASE x \notin 1..m /\ y \notin 1..m
    <3>1. PICK i \in 1..l : x = m + i
      BY <1>7, <2>5, Zenon
    <3>2. PICK j \in 1..l : y = m + j
      BY <1>7, <2>5, Zenon
    <3>3. whole[k + i].name = whole[k + j].name
      <4>1. all[m + i] = whole[k + i] /\ all[m + j] = whole[k + j]
        BY <1>8, Zenon
      <4>2. all[m + i].name = all[m + j].name
        BY <1>10, <3>1, <3>2, Zenon
      <4> QED BY <4>1, <4>2, Zenon
    <3>4. k + i = k + j
      BY <1>3, <1>4, <3>3, Zenon DEF NamesApart
    <3>5. i = j
      BY <1>4, <3>4
    <3> QED BY <3>1, <3>2, <3>5, Zenon
  <2> QED BY <2>1, <2>3, <2>4, <2>5, Zenon
<1>11. \A x \in DOMAIN all :
         /\ IsSeq(all[x].columns)
         /\ \A a, b \in DOMAIN all[x].columns :
               all[x].columns[a][1] = all[x].columns[b][1] => a = b
  <2>1. ASSUME NEW x \in DOMAIN all PROVE \E j \in DOMAIN whole : all[x] = whole[j]
    <3>1. CASE x \in 1..m
      BY <1>8, <3>1, Zenon
    <3>2. ASSUME NEW i \in 1..l, x = m + i
          PROVE  \E j \in DOMAIN whole : all[x] = whole[j]
      BY <1>8, <3>2, Zenon
    <3>3. x \in 1..m \/ \E i \in 1..l : x = m + i
      BY <1>7, Zenon
    <3> QED BY <3>1, <3>2, <3>3, Zenon
  <2>2. ASSUME NEW x \in DOMAIN all
        PROVE  /\ IsSeq(all[x].columns)
               /\ \A a, b \in DOMAIN all[x].columns :
                     all[x].columns[a][1] = all[x].columns[b][1] => a = b
    <3>1. PICK j \in DOMAIN whole : all[x] = whole[j]
      BY <2>1, Zenon
    <3> DEFINE c == whole[j].columns
    <3>2. IsSeq(c) /\ \A a, b \in DOMAIN c : c[a][1] = c[b][1] => a = b
      BY <1>3, Zenon
    <3>3. all[x].columns = c
      BY <3>1, Zenon
    <3> HIDE DEF c
    <3> QED BY <3>2, <3>3, Zenon
  <2> QED BY <2>2, Zenon
<1>12. DOMAIN all = 1..Len(all) /\ Len(all) \in Nat
  BY <1>7 DEF IsSeq
<1>13. tables = [i \in 1..Len(all) |-> tables[i]]
       /\ \A i \in 1..Len(all) : tables[i] = classify(all[i])
  BY <1>12
<1> HIDE DEF tables
<1>14. IsSeq(tables) /\ DOMAIN tables = 1..Len(all)
  BY <1>12, <1>13, SeqOfPieces
<1>15. \A i \in DOMAIN tables : Classified(tables[i]) /\ tables[i].name = all[i].name
  BY <1>11, <1>12, <1>13, <1>14, ClassifiedTable, Zenon
<1>16. NamesApart(tables)
  BY <1>10, <1>12, <1>14, <1>15, Zenon DEF NamesApart
<1> QED BY <1>1, <1>14, <1>15, <1>16, Zenon

(* No statement is a template twice, of the same table or of two.          *)
LEMMA TemplatesApart ==
  ASSUME NEW catalog \in Catalogs
  PROVE  LET tables == load_tables(catalog)
             per_table == [i \in DOMAIN tables |-> SafeTemplates(tables[i], i - 1)]
         IN  \A i, j \in DOMAIN tables :
               \A n \in 1..Len(per_table[i]), m \in 1..Len(per_table[j]) :
                 per_table[i][n].good = per_table[j][m].good => i = j /\ n = m
<1> DEFINE tables == load_tables(catalog)
           per_table == [i \in DOMAIN tables |-> SafeTemplates(tables[i], i - 1)]
<1>1. IsSeq(tables) /\ NamesApart(tables) /\ \A i \in DOMAIN tables : Classified(tables[i])
  BY TablesClassified
<1> HIDE DEF tables
<1>2. \A i \in DOMAIN tables : i - 1 \in Nat
  BY <1>1 DEF IsSeq
<1>3. \A i \in DOMAIN tables : per_table[i] = SafeTemplates(tables[i], i - 1)
  OBVIOUS
<1> HIDE DEF per_table
<1>4. \A i \in DOMAIN tables : Kinds(tables[i], 9, per_table[i])
  BY <1>1, <1>2, <1>3, TemplatesAreOfKinds, Zenon
<1>5. SUFFICES ASSUME NEW i \in DOMAIN tables, NEW j \in DOMAIN tables,
                      NEW n \in 1..Len(per_table[i]), NEW m \in 1..Len(per_table[j]),
                      per_table[i][n].good = per_table[j][m].good
               PROVE  i = j /\ n = m
  BY Zenon DEF tables, per_table
<1>6. i = j
  <2>1. tables[i].name = tables[j].name
    BY <1>4, <1>5, Zenon DEF Kinds
  <2> QED BY <1>1, <2>1, Zenon DEF NamesApart
<1>7. n = m
  <2> DEFINE f == per_table[i]
             Of(x) == KindOf(tables[i].nums, f[x].good)
  <2>1. /\ \A x \in 1..Len(f) : Of(x) \in 1..9
        /\ \A x, y \in 1..Len(f) : x < y => Of(x) < Of(y)
    BY <1>4, Zenon DEF Kinds
  <2>2. Of(n) = Of(m) /\ m \in 1..Len(f) /\ n \in 1..Len(f)
    BY <1>5, <1>6, Zenon
  <2> HIDE DEF f, Of
  <2>3. Of(n) \in Nat /\ ~(Of(n) < Of(n))
    BY <2>1, <2>2
  <2>4. ~(n < m) /\ ~(m < n)
    BY <2>1, <2>2, <2>3, Zenon
  <2> QED BY <2>2, <2>4
<1> QED BY <1>6, <1>7

(* The safe records are filled in the order of the pool: whatever came     *)
(* before a statement that was filled in is in the dataset, and before it. *)
Filled(recs, pool) ==
  \A k \in DOMAIN recs : recs[k].seed_id[1] = "safe" =>
    /\ recs[k].seed_id[2] \in 1..Len(pool)
    /\ recs[k].sql = pool[recs[k].seed_id[2]].good
    /\ \A q \in 1..(recs[k].seed_id[2] - 1) : \E m \in 1..(k - 1) : recs[m].sql = pool[q].good

FillInv ==
  job.builder = "generate" =>
    /\ Filled(records, SafePool)
    /\ pc = "vulnerable" => counter["safe"] = 0
    /\ pc = "safe" => /\ counter["safe"] = at - 1
                      /\ \A q \in 1..(at - 1) : SafePool[q].good \in SqlOf(records)

LEMMA PoolStays ==
  ASSUME job' = job
  PROVE  SafePool' = SafePool
<1>1. Seeds' = Seeds
  BY Zenon DEF Seeds
<1>2. SeedsOf("safe")' = SeedsOf("safe")
  BY <1>1, Zenon DEF SeedsOf, Those
<1>3. SeedSafe' = SeedSafe
  BY <1>2, Zenon DEF SeedSafe
<1> QED BY <1>3, Zenon DEF SafePool

LEMMA FilledStarts == Init => FillInv
<1> SUFFICES ASSUME Init, job.builder = "generate"
             PROVE  /\ Filled(records, SafePool)
                    /\ pc = "vulnerable" => counter["safe"] = 0
                    /\ pc = "safe" => /\ counter["safe"] = at - 1
                                      /\ \A q \in 1..(at - 1) : SafePool[q].good \in SqlOf(records)
  BY DEF FillInv
<1>1. pc = "vulnerable" /\ records = << >> /\ counter = [p \in NumberedNames |-> 0]
  BY DEF Init, NumberedNames
<1>2. "safe" \in NumberedNames
  BY DEF NumberedNames
<1>3. DOMAIN << >> = {}
  OBVIOUS
<1>4. Filled(records, SafePool)
  BY <1>1, <1>3, Zenon DEF Filled
<1>5. counter["safe"] = 0
  BY <1>1, <1>2
<1> QED BY <1>1, <1>4, <1>5

LEMMA FilledTakesPair == CorpusInv /\ CorpusInv' /\ FillInv /\ TakePair => FillInv'
<1> SUFFICES ASSUME CorpusInv, CorpusInv', FillInv, TakePair PROVE FillInv'
  OBVIOUS
<1> DEFINE class == Classes[cls]
<1>1. /\ pc = "vulnerable" /\ pc' = pc /\ job' = job
      /\ counter' = Counted(class) \/ counter' = counter
  BY DEF TakePair
<1>2. /\ cls \in 1..10 /\ counter \in [NumberedNames -> Nat] /\ job.builder = "generate"
      /\ counter["safe"] = 0
  BY <1>1 DEF CorpusInv, CorpusTyped, StepsInOrder, FillInv
<1>3. class # "safe" /\ "safe" \in NumberedNames
  BY <1>2, ClassesAre DEF NumberedNames
<1> HIDE DEF class
<1>4. counter'["safe"] = 0
  BY <1>1, <1>2, <1>3 DEF Counted
<1>5. NumberedIn(records', Numbers')
  BY DEF CorpusInv, RecordsInv
<1>6. Filled(records', SafePool')
  <2>1. job'.builder = "generate"
    BY <1>1, <1>2
  <2>2. Numbers' = {id \in NumberedNames \X Nat : id[2] \in 1..counter'[id[1]]}
    BY <2>1, Zenon DEF Numbers
  <2>3. ASSUME NEW k \in DOMAIN records' PROVE records'[k].seed_id[1] # "safe"
    <3>1. records'[k].seed_id \in {id \in NumberedNames \X Nat : id[2] \in 1..counter'[id[1]]}
      BY <1>5, <2>2, Zenon DEF NumberedIn
    <3>2. records'[k].seed_id[2] \in 1..counter'[records'[k].seed_id[1]]
      BY <3>1
    <3>3. 1..0 = {}
      OBVIOUS
    <3> QED BY <1>4, <3>2, <3>3
  <2> QED BY <2>3, Zenon DEF Filled
<1> QED BY <1>1, <1>4, <1>6 DEF FillInv

LEMMA FilledNextClass == CorpusInv /\ FillInv /\ NextClass => FillInv'
<1> SUFFICES ASSUME CorpusInv, FillInv, NextClass PROVE FillInv'
  OBVIOUS
<1>1. /\ pc = "vulnerable" /\ at' = 1 /\ job' = job /\ counter' = counter /\ records' = records
      /\ pc' = IF cls = Len(Classes) THEN "safe" ELSE pc
  BY DEF NextClass
<1>2. job.builder = "generate" /\ counter["safe"] = 0 /\ Filled(records, SafePool)
  BY <1>1 DEF CorpusInv, StepsInOrder, FillInv
<1>3. Filled(records', SafePool')
  BY <1>1, <1>2, PoolStays, Zenon
<1>4. at' - 1 = 0 /\ 1..(at' - 1) = {}
  BY <1>1
<1> QED BY <1>1, <1>2, <1>3, <1>4 DEF FillInv

LEMMA FilledAppended ==
  ASSUME NEW recs, IsSeq(recs), NEW pool, Filled(recs, pool), NEW p \in 1..Len(pool),
         NEW r, r.seed_id[2] = p, r.sql = pool[p].good,
         \A q \in 1..(p - 1) : pool[q].good \in SqlOf(recs)
  PROVE  Filled(Append(recs, r), pool)
<1> DEFINE n == Len(recs)
           a == Append(recs, r)
<1>1. /\ DOMAIN recs = 1..n /\ n \in Nat /\ DOMAIN a = 1..(n + 1)
      /\ \A i \in 1..n : a[i] = recs[i]
      /\ a[n + 1] = r
  BY Appended
<1> HIDE DEF n, a
<1>2. /\ \A i \in 1..(n + 1) : i \in 1..n \/ i = n + 1
      /\ (n + 1) - 1 = n
      /\ \A k \in 1..n : \A m \in 1..(k - 1) : m \in 1..n
  BY <1>1
<1>3. ASSUME NEW k \in 1..(n + 1), a[k].seed_id[1] = "safe"
      PROVE  /\ a[k].seed_id[2] \in 1..Len(pool)
             /\ a[k].sql = pool[a[k].seed_id[2]].good
             /\ \A q \in 1..(a[k].seed_id[2] - 1) : \E m \in 1..(k - 1) : a[m].sql = pool[q].good
  <2>1. CASE k \in 1..n
    <3>1. a[k] = recs[k] /\ k \in DOMAIN recs
      BY <1>1, <2>1, Zenon
    <3>2. /\ recs[k].seed_id[2] \in 1..Len(pool)
          /\ recs[k].sql = pool[recs[k].seed_id[2]].good
          /\ \A q \in 1..(recs[k].seed_id[2] - 1) : \E m \in 1..(k - 1) : recs[m].sql = pool[q].good
      BY <1>3, <3>1, Zenon DEF Filled
    <3> QED BY <1>1, <1>2, <2>1, <3>1, <3>2, Zenon
  <2>2. CASE k = n + 1
    <3>1. a[k] = r /\ k - 1 = n
      BY <1>1, <1>2, <2>2, Zenon
    <3>2. \A q \in 1..(p - 1) : \E m \in 1..n : recs[m].sql = pool[q].good
      <4>1. \A x \in SqlOf(recs) : \E m \in 1..n : recs[m].sql = x
        BY <1>1 DEF SqlOf
      <4> QED BY <4>1, Zenon
    <3>3. ASSUME NEW q \in 1..(p - 1) PROVE \E m \in 1..n : a[m].sql = pool[q].good
      <4>1. PICK m \in 1..n : recs[m].sql = pool[q].good
        BY <3>2, Zenon
      <4>2. a[m] = recs[m]
        BY <1>1, Zenon
      <4> QED BY <4>1, <4>2, Zenon
    <3> QED BY <3>1, <3>3, Zenon
  <2> QED BY <1>2, <2>1, <2>2, Zenon
<1> QED BY <1>1, <1>3, Zenon DEF Filled, a

LEMMA FilledTakesSafe == CorpusInv /\ FillInv /\ TakeSafe => FillInv'
<1> SUFFICES ASSUME CorpusInv, FillInv, TakeSafe PROVE FillInv'
  OBVIOUS
<1> DEFINE pool == SafePool
           c == pool[at]
           r == Record(NextId("safe"), c.nl, c.good, "safe", FALSE)
<1>1. /\ pc = "safe" /\ records' = Add(records, r)
      /\ counter' = Counted("safe") /\ at' = at + 1
      /\ job' = job /\ pc' = pc
  BY Zenon DEF TakeSafe
<1>2. /\ JobTyped /\ at \in Nat \ {0} /\ counter \in [NumberedNames -> Nat]
      /\ IsSeq(records) /\ job.builder = "generate"
      /\ Filled(records, pool) /\ counter["safe"] = at - 1
      /\ \A q \in 1..(at - 1) : pool[q].good \in SqlOf(records)
  BY <1>1 DEF CorpusInv, CorpusTyped, StepsInOrder, WholeRecords, FillInv
<1>3. at \in 1..Len(pool)
  <2>1. Len(pool) \in Nat
    BY <1>2, SafePoolIsProper DEF SafeProper, IsSeq
  <2> HIDE DEF pool
  <2> QED BY <1>2, <2>1 DEF TakeSafe, SafeIsDone, pool
<1>4. /\ counter'["safe"] = at /\ at' - 1 = at
      /\ counter["safe"] + 1 = at
  <2>1. "safe" \in NumberedNames
    BY DEF NumberedNames
  <2> QED BY <1>1, <1>2, <2>1 DEF Counted
<1>5. r.seed_id[2] = at /\ r.sql = c.good
  <2> HIDE DEF c
  <2>1. NextId("safe")[2] = at
    BY <1>4 DEF NextId
  <2>2. r.seed_id = NextId("safe") /\ r.sql = c.good
    BY DEF Record
  <2> QED BY <2>1, <2>2
<1> HIDE DEF pool, r
<1>6. Filled(records', pool) /\ SqlOf(records') = SqlOf(records) \cup {c.good}
  <2>1. CASE r.sql \in SqlOf(records)
    <3>1. records' = records
      BY <1>1, <2>1 DEF Add
    <3> QED BY <1>2, <1>5, <2>1, <3>1
  <2>2. CASE r.sql \notin SqlOf(records)
    <3>1. records' = Append(records, r)
      BY <1>1, <2>2, AddNew
    <3>2. Filled(Append(records, r), pool)
      BY <1>2, <1>3, <1>5, FilledAppended
    <3>3. SqlOf(Append(records, r)) = SqlOf(records) \cup {r.sql}
      BY <1>2, AppendedSql
    <3> QED BY <1>5, <3>1, <3>2, <3>3
  <2> QED BY <2>1, <2>2
<1>7. \A q \in 1..at : pool[q].good \in SqlOf(records')
  <2>1. \A q \in 1..at : q \in 1..(at - 1) \/ q = at
    BY <1>2
  <2> QED BY <1>2, <1>6, <2>1
<1>8. SafePool' = pool
  BY <1>1, PoolStays, Zenon DEF pool
<1> QED BY <1>1, <1>4, <1>6, <1>7, <1>8, Zenon DEF FillInv

(* Records that are cut, or differ in the split alone.                     *)
LEMMA FilledLike ==
  ASSUME NEW recs, NEW other, NEW pool, Filled(recs, pool),
         \A k \in DOMAIN other : /\ k \in DOMAIN recs
                                 /\ other[k].seed_id = recs[k].seed_id
                                 /\ other[k].sql = recs[k].sql
                                 /\ \A m \in 1..(k - 1) : m \in DOMAIN other
  PROVE  Filled(other, pool)
<1> SUFFICES ASSUME NEW k \in DOMAIN other, other[k].seed_id[1] = "safe"
             PROVE  /\ other[k].seed_id[2] \in 1..Len(pool)
                    /\ other[k].sql = pool[other[k].seed_id[2]].good
                    /\ \A q \in 1..(other[k].seed_id[2] - 1) :
                          \E m \in 1..(k - 1) : other[m].sql = pool[q].good
  BY Zenon DEF Filled
<1> DEFINE p == recs[k].seed_id[2]
<1>1. other[k].seed_id[2] = p /\ recs[k].seed_id[1] = "safe" /\ other[k].sql = recs[k].sql
  BY Zenon
<1>2. /\ p \in 1..Len(pool) /\ recs[k].sql = pool[p].good
      /\ \A q \in 1..(p - 1) : \E m \in 1..(k - 1) : recs[m].sql = pool[q].good
  BY <1>1, Zenon DEF Filled
<1> HIDE DEF p
<1>3. ASSUME NEW q \in 1..(p - 1) PROVE \E m \in 1..(k - 1) : other[m].sql = pool[q].good
  <2>1. PICK m \in 1..(k - 1) : recs[m].sql = pool[q].good
    BY <1>2, Zenon
  <2>2. other[m].sql = recs[m].sql
    BY Zenon
  <2> QED BY <2>1, <2>2, Zenon
<1> QED BY <1>1, <1>2, <1>3, Zenon

LEMMA FilledEndsRecords == CorpusInv /\ FillInv /\ EndRecords => FillInv'
<1> SUFFICES ASSUME CorpusInv, FillInv, EndRecords PROVE FillInv'
  OBVIOUS
<1> DEFINE pool == SafePool
           m == Min({job.total, Len(records)})
           c == SubSeq(records, 1, m)
<1>1. pc = "safe" /\ records' = Cut(records) /\ pc' = "split" /\ job' = job
  BY DEF EndRecords
<1>2. /\ IsSeq(records) /\ job.total \in Nat /\ Filled(records, pool) /\ Len(records) \in Nat
  BY <1>1, TotalIsNat DEF CorpusInv, CorpusTyped, StepsInOrder, WholeRecords, FillInv, IsSeq
<1>3. m \in Nat /\ m <= Len(records)
  <2> DEFINE x == job.total
             y == Len(records)
             z == Min({x, y})
  <2>1. x \in Nat /\ y \in Nat
    BY <1>2
  <2> HIDE DEF x, y
  <2>2. z \in {x, y} /\ z <= x /\ z <= y
    BY <2>1, MinOf
  <2> HIDE DEF z
  <2>3. z \in Nat /\ z <= y
    BY <2>1, <2>2
  <2> QED BY <2>3 DEF x, y, z
<1>4. Cut(records) = c
  BY Zenon DEF Cut
<1> HIDE DEF m
<1>5. /\ DOMAIN c = 1..m /\ DOMAIN records = 1..Len(records)
      /\ \A i \in 1..m : c[i] = records[i]
  BY <1>2, <1>3, Shortened
<1>6. /\ \A i \in 1..m : i \in 1..Len(records)
      /\ \A k \in 1..m : \A i \in 1..(k - 1) : i \in 1..m
  BY <1>2, <1>3
<1> HIDE DEF c, pool
<1>7. Filled(c, pool)
  <2>1. \A k \in DOMAIN c : /\ k \in DOMAIN records /\ c[k] = records[k]
                            /\ \A i \in 1..(k - 1) : i \in DOMAIN c
    BY <1>5, <1>6, Zenon
  <2> QED BY <1>2, <2>1, FilledLike, Zenon
<1>8. SafePool' = pool
  BY <1>1, PoolStays, Zenon DEF pool
<1> QED BY <1>1, <1>4, <1>7, <1>8, Zenon DEF FillInv

LEMMA FilledSplits == CorpusInv /\ FillInv /\ SplitClass => FillInv'
<1> SUFFICES ASSUME CorpusInv, FillInv, SplitClass, job'.builder = "generate" PROVE FillInv'
  BY DEF FillInv
<1> DEFINE class == IF cls = 0 THEN "safe" ELSE Classes[cls]
           mine == OfClass(records, class)
           pool == SafePool
<1>1. /\ pc = "split" /\ job' = job /\ pc' \in {"split", "write"}
      /\ IF mine = {} THEN records' = records
         ELSE \E eval \in kSubset(EvalSize(Cardinality(mine)), mine) :
                records' = [i \in DOMAIN records |->
                    IF i \notin mine THEN records[i]
                    ELSE [records[i] EXCEPT !.split = IF i \in eval THEN "eval" ELSE "train"]]
  BY DEF SplitClass
<1>2. WholeRecords(records) /\ Filled(records, pool)
  BY <1>1 DEF CorpusInv, CorpusTyped, FillInv
<1> HIDE DEF class, mine, pool
<1>3. /\ DOMAIN records' = DOMAIN records
      /\ \A i \in DOMAIN records :
            records'[i].seed_id = records[i].seed_id /\ records'[i].sql = records[i].sql
  <2>1. CASE mine = {}
    BY <1>1, <2>1, Zenon
  <2>2. CASE mine # {}
    <3>1. PICK eval \in kSubset(EvalSize(Cardinality(mine)), mine) :
            records' = [i \in DOMAIN records |->
                IF i \notin mine THEN records[i]
                ELSE [records[i] EXCEPT !.split = IF i \in eval THEN "eval" ELSE "train"]]
      BY <1>1, <2>2, Zenon
    <3>2. ASSUME NEW s, Whole(s), NEW where
          PROVE  /\ [s EXCEPT !.split = where].seed_id = s.seed_id
                 /\ [s EXCEPT !.split = where].sql = s.sql
      BY <3>2 DEF Whole
    <3>3. /\ DOMAIN records' = DOMAIN records
          /\ \A i \in DOMAIN records :
               records'[i] = IF i \notin mine THEN records[i]
                             ELSE [records[i] EXCEPT !.split = IF i \in eval THEN "eval" ELSE "train"]
      BY <3>1, Zenon
    <3>4. \A i \in DOMAIN records : Whole(records[i])
      BY <1>2, Zenon DEF WholeRecords
    <3>5. ASSUME NEW i \in DOMAIN records
          PROVE  records'[i].seed_id = records[i].seed_id /\ records'[i].sql = records[i].sql
      <4>1. CASE i \notin mine
        BY <3>3, <4>1, Zenon
      <4>2. CASE i \in mine
        <5> DEFINE where == IF i \in eval THEN "eval" ELSE "train"
        <5>1. records'[i] = [records[i] EXCEPT !.split = where]
          BY <3>3, <4>2, Zenon
        <5> HIDE DEF where
        <5> DEFINE s == records[i]
                   u == [s EXCEPT !.split = where]
        <5>2. Whole(s)
          BY <3>4, Zenon
        <5>3. records'[i] = u
          BY <5>1, Zenon
        <5> HIDE DEF s
        <5>4. u.seed_id = s.seed_id /\ u.sql = s.sql
          BY <3>2, <5>2, Zenon
        <5> HIDE DEF u
        <5> QED BY <5>3, <5>4, Zenon DEF s
      <4> QED BY <4>1, <4>2
    <3> QED BY <3>3, <3>5, Zenon
  <2> QED BY <2>1, <2>2
<1>4. Filled(records', pool)
  <2>1. \A k \in DOMAIN records : \A m \in 1..(k - 1) : m \in DOMAIN records
    BY <1>2 DEF WholeRecords, IsSeq
  <2> DEFINE after == records'
  <2>2. \A k \in DOMAIN after : /\ k \in DOMAIN records
                                /\ after[k].seed_id = records[k].seed_id
                                /\ after[k].sql = records[k].sql
                                /\ \A m \in 1..(k - 1) : m \in DOMAIN after
    BY <1>3, <2>1, Zenon
  <2> HIDE DEF after
  <2>3. Filled(after, pool)
    BY <1>2, <2>2, FilledLike, Zenon
  <2> QED BY <2>3, Zenon DEF after
<1>5. SafePool' = pool
  BY <1>1, PoolStays, Zenon DEF pool
<1> QED BY <1>1, <1>4, <1>5 DEF FillInv

LEMMA FilledInductive == CorpusInv /\ CorpusInv' /\ FillInv /\ [Next]_vars => FillInv'
<1> SUFFICES ASSUME CorpusInv, CorpusInv', FillInv, [Next]_vars PROVE FillInv'
  OBVIOUS
<1>1. CASE TakePair
  BY <1>1, FilledTakesPair, Zenon
<1>2. CASE NextClass
  BY <1>2, FilledNextClass, Zenon
<1>3. CASE TakeSafe
  BY <1>3, FilledTakesSafe, Zenon
<1>4. CASE EndRecords
  BY <1>4, FilledEndsRecords, Zenon
<1>5. CASE TakeSeed \/ EndSeeds
  <2>1. pc = "seeds" /\ job' = job
    BY <1>5 DEF TakeSeed, EndSeeds
  <2>2. job'.builder # "generate"
    BY <2>1 DEF CorpusInv, StepsInOrder
  <2> QED BY <2>2, Zenon DEF FillInv
<1>6. CASE SplitClass
  BY <1>6, FilledSplits, Zenon
<1>7. CASE Flush \/ ServeRun \/ UNCHANGED vars
  <2>1. /\ job' = job /\ records' = records
        /\ \/ pc' \in {"write", "done"}
           \/ pc' = pc /\ counter' = counter /\ at' = at
    BY <1>7 DEF Flush, ServeRun, vars
  <2>2. SafePool' = SafePool
    BY <2>1, PoolStays, Zenon
  <2> QED BY <2>1, <2>2 DEF FillInv
<1> QED BY <1>1, <1>2, <1>3, <1>4, <1>5, <1>6, <1>7, Zenon DEF Next

LEMMA FilledAlways == Spec => []FillInv
  BY CorpusAlways, FilledStarts, FilledInductive, PTL DEF Spec

(* However few records --n asks for, whatever the catalogue, the seeds and  *)
(* the statements the pairs already brought in: no table has got its next   *)
(* safe template from gen_safe of dataset/generate_dataset.py before every  *)
(* table had the one before, so the first records cover the most tables.    *)
THEOREM CoverageIsAlwaysEven == Spec => []CoverageIsEven
<1>1. CorpusInv /\ FillInv => CoverageIsEven
  <2> DEFINE tables == load_tables(job.catalog)
             per_table == [i \in DOMAIN tables |-> SafeTemplates(tables[i], i - 1)]
             templates == TemplatesOf[job.catalog]
             filled == {r.sql : r \in {x \in ToSet(records) :
                          x.seed_id[1] = "safe" /\ x.seed_id[2] > Len(SeedSafe)}}
             safe == gen_safe(tables)
             k == Len(SeedSafe)
  <2>1. SUFFICES ASSUME CorpusInv, FillInv, NEW i \in DOMAIN templates,
                        NEW j \in DOMAIN templates, NEW n \in 2..Len(templates[i]),
                        templates[i][n].good \in filled, n - 1 <= Len(templates[j])
                 PROVE  templates[j][n - 1].good \in SqlOf(records)
    BY Zenon DEF CoverageIsEven
  <2>2. JobTyped /\ job.catalog \in Catalogs /\ IsSeq(records)
    BY <2>1 DEF CorpusInv, CorpusTyped, JobTyped, WholeRecords
  <2>3. templates = per_table
    BY <2>2, Zenon DEF TemplatesOf, Tables
  <2>4. SafePools[job.catalog] = safe
    BY <2>2, Zenon DEF SafePools, Tables
  <2>5. PICK y \in DOMAIN records :
          /\ records[y].seed_id[1] = "safe" /\ records[y].seed_id[2] > k
          /\ records[y].sql = templates[i][n].good
    BY <2>1 DEF ToSet
  <2>6. job.builder = "generate"
    <3>1. CASE job.builder = "build"
      <4>1. "build" # "generate"
        OBVIOUS
      <4>2. Numbers = {<< "seed", p >> : p \in 1..(at - 1)}
        BY <3>1, <4>1, Zenon DEF Numbers
      <4>3. records[y].seed_id \in {<< "seed", p >> : p \in 1..(at - 1)}
        BY <2>1, <4>2, Zenon DEF CorpusInv, RecordsInv, NumberedIn
      <4>4. records[y].seed_id[1] = "seed" /\ "seed" # "safe"
        BY <4>3
      <4> QED BY <2>5, <4>4
    <3> QED BY <2>2, <3>1, TotalIsNat
  <2> DEFINE p == records[y].seed_id[2]
             pool == SafePool
  <2>7. /\ p \in 1..Len(pool) /\ records[y].sql = pool[p].good
        /\ \A q \in 1..(p - 1) : \E m \in 1..(y - 1) : records[m].sql = pool[q].good
    BY <2>1, <2>5, <2>6, Zenon DEF FillInv, Filled
  <2>8. /\ IsSeq(tables) /\ \A u \in DOMAIN tables : IsSeq(tables[u].name_col)
        /\ Len(tables) \in Nat /\ DOMAIN tables = 1..Len(tables)
    <3>1. IsSeq(tables) /\ \A u \in DOMAIN tables : Classified(tables[u])
      BY <2>2, TablesClassified, Zenon
    <3>2. \A u \in DOMAIN tables : IsSeq(tables[u].name_col)
      BY <3>1, Zenon DEF Classified
    <3> HIDE DEF tables
    <3> QED BY <3>1, <3>2 DEF IsSeq
  <2>9. IsSeq(safe) /\ InRounds(per_table, Len(tables), safe)
    BY <2>8, SafeStatementsInRounds, Zenon
  <2>10. IsSeq(SeedSafe)
    <3> DEFINE mine == SeedsOf("safe")
               s == SeedSafe
    <3>1. mine \in Seq({x \in ToSet(Seeds) : x.vuln_class = "safe"})
      BY <2>2, SeedsOfAClass
    <3>2. DOMAIN mine = 1..Len(mine) /\ Len(mine) \in Nat
      BY <3>1, SeqIs
    <3>3. s = [u \in 1..Len(mine) |-> [nl |-> mine[u].nl, good |-> mine[u].good]]
      BY <3>2, Zenon DEF SeedSafe
    <3> HIDE DEF mine, s
    <3>4. s = [u \in 1..Len(mine) |-> s[u]]
      BY <3>3
    <3>5. IsSeq(s)
      BY <3>2, <3>4, SeqOfPieces
    <3> QED BY <3>5 DEF s
  <2>11. /\ k \in Nat /\ Len(safe) \in Nat /\ Len(pool) = k + Len(safe)
         /\ \A x \in 1..Len(safe) : pool[k + x] = safe[x]
    <3> DEFINE seeds == SeedSafe
    <3>1. pool = seeds \o safe
      BY <2>4, Zenon DEF SafePool
    <3> HIDE DEF safe, pool, seeds
    <3>2. IsSeq(seeds) /\ IsSeq(safe)
      BY <2>9, <2>10, Zenon DEF seeds
    <3>3. Joint(seeds, safe, pool)
      BY <3>1, <3>2, Joined, Zenon
    <3> QED BY <3>3, Zenon DEF Joint, seeds
  <2>12. \A u, v \in DOMAIN tables :
           \A a \in 1..Len(per_table[u]), b \in 1..Len(per_table[v]) :
             per_table[u][a].good = per_table[v][b].good => u = v /\ a = b
    BY <2>2, TemplatesApart, Zenon
  <2>13. i \in DOMAIN tables /\ j \in DOMAIN tables /\ DOMAIN per_table = DOMAIN tables
    BY <2>1, <2>3
  <2> HIDE DEF tables, per_table, templates, filled, safe, k, pool
  <2> DEFINE x == p - k
  <2>14. p > k
    BY <2>5
  <2> HIDE DEF p
  <2>15. x \in 1..Len(safe) /\ k + x = p
    BY <2>7, <2>11, <2>14
  <2>16. PICK r \in 1..9, u \in 1..Len(tables) :
           /\ r <= Len(per_table[u]) /\ safe[x] = per_table[u][r]
           /\ Earlier(per_table, Len(tables), r, x, safe)
    BY <2>9, <2>15, Zenon DEF InRounds
  <2>17. per_table[u][r].good = per_table[i][n].good
    <3>1. pool[p] = safe[x]
      BY <2>11, <2>15, Zenon
    <3> QED BY <2>3, <2>5, <2>7, <2>16, <3>1, Zenon
  <2>18. r = n
    <3>1. r \in 1..Len(per_table[u]) /\ n \in 1..Len(per_table[i])
      <4>1. IsSeq(per_table[u])
        <5>1. per_table[u] = SafeTemplates(tables[u], u - 1) /\ IsSeq(tables[u].name_col)
          BY <2>8, <2>16 DEF per_table
        <5> QED BY <5>1, SafeTemplatesAreProper, Zenon DEF SafeProper
      <4>2. Len(per_table[u]) \in Nat
        BY <4>1 DEF IsSeq
      <4>3. n \in 2..Len(per_table[i])
        BY <2>1, <2>3
      <4> QED BY <2>16, <4>2, <4>3
    <3>2. u \in DOMAIN tables
      BY <2>8, <2>16, Zenon
    <3> QED BY <2>12, <2>13, <2>17, <3>1, <3>2, Zenon
  <2>19. PICK z \in 1..(x - 1) : safe[z] = per_table[j][n - 1]
    <3>1. n - 1 \in 1..(r - 1) /\ j \in 1..Len(tables)
      BY <2>1, <2>8, <2>13, <2>18
    <3>2. n - 1 <= Len(per_table[j])
      BY <2>1, <2>3, Zenon
    <3> QED BY <2>16, <3>1, <3>2, Zenon DEF Earlier
  <2>20. z \in 1..Len(safe) /\ k + z \in 1..(p - 1)
    BY <2>11, <2>15, <2>19
  <2>21. PICK m \in 1..(y - 1) : records[m].sql = pool[k + z].good
    BY <2>7, <2>20, Zenon
  <2>22. m \in DOMAIN records
    BY <2>2, <2>5, <2>21 DEF IsSeq
  <2>23. records[m].sql = templates[j][n - 1].good
    BY <2>3, <2>11, <2>19, <2>20, <2>21, Zenon
  <2>24. records[m].sql \in SqlOf(records)
    BY <2>22 DEF SqlOf
  <2> QED BY <2>23, <2>24, Zenon
<1> QED BY <1>1, CorpusAlways, FilledAlways, PTL
=============================================================================
