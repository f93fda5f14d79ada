------------------------ MODULE CronValidatorProofs ------------------------
(***************************************************************************)
(* Proofs about the validator of package cron: for any bounds, any names   *)
(* and any numbers it accepts exactly its grammar, in fields of any length.*)
(***************************************************************************)
EXTENDS MCCron, CountingLemmas

-----------------------------------------------------------------------------
(* Splitting a field.                                                      *)

\* In a finite set of naturals each rank belongs to one number, and the
\* ranks follow the order.
LEMMA RanksFollowOrder ==
    ASSUME NEW C \in SUBSET Nat, IsFiniteSet(C)
    PROVE  /\ \A c \in C : Rank(C, c) \in 0 .. Cardinality(C) - 1
           /\ \A c, d \in C : c < d => Rank(C, c) < Rank(C, d)
           /\ \A r \in 0 .. Cardinality(C) - 1 : \E c \in C : Rank(C, c) = r
<1> DEFINE below(c) == {b \in C : b < c}
<1>1. Cardinality(C) \in Nat
  BY FS_CardinalityType
<1>2. \A c \in C : IsFiniteSet(below(c)) /\ Cardinality(below(c)) \in Nat
  <2> TAKE c \in C
  <2>1. below(c) \in SUBSET C
    OBVIOUS
  <2> QED
    BY <2>1, FS_Subset, FS_CardinalityType
<1>3. \A c \in C : Rank(C, c) \in 0 .. Cardinality(C) - 1
  <2> TAKE c \in C
  <2>1. below(c) \in SUBSET C /\ c \notin below(c)
    OBVIOUS
  <2>2. Cardinality(below(c)) <= Cardinality(C) /\ Cardinality(below(c)) # Cardinality(C)
    BY <2>1, FS_Subset
  <2>3. Rank(C, c) = Cardinality(below(c))
    BY DEF Rank
  <2> QED
    BY <1>1, <1>2, <2>2, <2>3
<1>4. \A c, d \in C : c < d => Rank(C, c) < Rank(C, d)
  <2> SUFFICES ASSUME NEW c \in C, NEW d \in C, c < d
               PROVE  Rank(C, c) < Rank(C, d)
    OBVIOUS
  <2>0. c \in Nat /\ d \in Nat /\ \A b \in C : b \in Nat
    OBVIOUS
  <2>1. below(c) \in SUBSET below(d) /\ c \in below(d) /\ c \notin below(c)
    <3>1. \A b \in C : b < c => b < d
      BY <2>0
    <3>2. ~(c < c)
      BY <2>0
    <3> QED
      BY <3>1, <3>2
  <2>2. Cardinality(below(c)) <= Cardinality(below(d))
        /\ Cardinality(below(c)) # Cardinality(below(d))
    BY <1>2, <2>1, FS_Subset
  <2>3. Rank(C, c) = Cardinality(below(c)) /\ Rank(C, d) = Cardinality(below(d))
    BY DEF Rank
  <2> QED
    BY <1>2, <2>2, <2>3
<1>5. \A r \in 0 .. Cardinality(C) - 1 : \E c \in C : Rank(C, c) = r
  <2> DEFINE R == 0 .. Cardinality(C) - 1
             f == [c \in C |-> Rank(C, c)]
  <2>1. f \in [C -> R]
    BY <1>3
  <2>2. \A c, d \in C : f[c] = f[d] => c = d
    <3> SUFFICES ASSUME NEW c \in C, NEW d \in C, c # d
                 PROVE  Rank(C, c) # Rank(C, d)
      OBVIOUS
    <3>1. c < d \/ d < c
      OBVIOUS
    <3>2. Rank(C, c) \in Int /\ Rank(C, d) \in Int
      BY <1>3
    <3> QED
      BY <3>1, <3>2, <1>4
  <2>3. f \in Injection(C, R)
    BY <2>1, <2>2, Fun_IsInj
  <2>4. IsFiniteSet(R) /\ Cardinality(R) = Cardinality(C)
    <3> DEFINE n == Cardinality(C)
    <3>1. n \in Nat /\ R = 0 .. n - 1
      BY <1>1
    <3> HIDE DEF n, R
    <3>2. 0 \in Int /\ n - 1 \in Int /\ n = IF 0 > n - 1 THEN 0 ELSE (n - 1) - 0 + 1
      BY <3>1
    <3>3. IsFiniteSet(0 .. n - 1)
      BY <3>2, FS_Interval
    <3>4. Cardinality(0 .. n - 1) = IF 0 > n - 1 THEN 0 ELSE (n - 1) - 0 + 1
      BY <3>2, FS_Interval
    <3> QED
      BY <3>1, <3>2, <3>3, <3>4 DEF n
  <2>5. f \in Surjection(C, R)
    BY <2>3, <2>4, FS_Injection
  <2>6. \A r \in R : \E c \in C : f[c] = r
    <3> HIDE DEF f, R
    <3> QED
      BY <2>5, Fun_SurjectionProperties
  <2> QED
    BY <2>6
<1> QED
  BY <1>3, <1>4, <1>5

\* the pieces of a field lie between neighbouring cuts
Neighbours(cuts, c, d) ==
    c \in cuts /\ d \in cuts /\ c < d /\ \A e \in cuts : e <= c \/ d <= e

\* The cuts of a field are finitely many, the first before it, the last after.
LEMMA CutsOfField ==
    ASSUME NEW T, NEW f \in Seq(T), NEW s
    PROVE  /\ Len(f) \in Nat /\ DOMAIN f = 1 .. Len(f)
           /\ Cuts(f, s) \in SUBSET (0 .. Len(f) + 1)
           /\ IsFiniteSet(Cuts(f, s)) /\ Cardinality(Cuts(f, s)) \in Nat
           /\ 0 \in Cuts(f, s) /\ Len(f) + 1 \in Cuts(f, s)
<1>1. Len(f) \in Nat /\ DOMAIN f = 1 .. Len(f)
  BY LenProperties
<1>2. Cuts(f, s) \in SUBSET (0 .. Len(f) + 1) /\ 0 \in Cuts(f, s) /\ Len(f) + 1 \in Cuts(f, s)
  BY <1>1 DEF Cuts
<1>3. IsFiniteSet(0 .. Len(f) + 1)
  BY <1>1, FS_Interval
<1> QED
  BY <1>1, <1>2, <1>3, FS_Subset, FS_CardinalityType

\* Numbers that follow each other in the set have ranks that do, and conversely.
LEMMA NeighboursByRank ==
    ASSUME NEW C \in SUBSET Nat, IsFiniteSet(C), NEW c \in C, NEW d \in C
    PROVE  Neighbours(C, c, d) <=> Rank(C, d) = Rank(C, c) + 1
<1>1. \A a \in C : Rank(C, a) \in Int
  BY RanksFollowOrder, FS_CardinalityType
<1>2. \A a, b \in C : a < b => Rank(C, a) < Rank(C, b)
  BY RanksFollowOrder
<1>3. ASSUME Neighbours(C, c, d)
      PROVE  Rank(C, d) = Rank(C, c) + 1
  <2>1. {b \in C : b < d} = {b \in C : b < c} \cup {c}
    <3>1. c < d /\ \A e \in C : e <= c \/ d <= e
      BY <1>3 DEF Neighbours
    <3>2. \A e \in C : e < d <=> (e < c \/ e = c)
      <4> TAKE e \in C
      <4>1. e \in Nat /\ c \in Nat /\ d \in Nat
        OBVIOUS
      <4>2. e <= c \/ d <= e
        BY <3>1
      <4> QED
        BY <3>1, <4>1, <4>2
    <3> QED
      BY <3>2
  <2>2. {b \in C : b < c} \in SUBSET C /\ c \notin {b \in C : b < c}
    OBVIOUS
  <2>3. IsFiniteSet({b \in C : b < c})
    BY <2>2, FS_Subset
  <2> QED
    BY <2>1, <2>2, <2>3, FS_AddElement DEF Rank
<1>4. ASSUME Rank(C, d) = Rank(C, c) + 1
      PROVE  Neighbours(C, c, d)
  <2>1. c < d
    <3>1. c # d
      BY <1>1, <1>4
    <3>2. ~(d < c)
      <4> SUFFICES ASSUME d < c PROVE FALSE
        OBVIOUS
      <4>1. Rank(C, d) < Rank(C, c)
        BY <1>2
      <4> QED
        BY <4>1, <1>1, <1>4
    <3> QED
      BY <3>1, <3>2
  <2>2. ASSUME NEW e \in C, c < e, e < d
        PROVE  FALSE
    <3>1. Rank(C, c) < Rank(C, e) /\ Rank(C, e) < Rank(C, d)
      BY <1>2, <2>2
    <3>2. Rank(C, c) \in Int /\ Rank(C, e) \in Int /\ Rank(C, d) \in Int
      BY <1>1
    <3> QED
      BY <3>1, <3>2, <1>4
  <2>3. \A e \in C : e <= c \/ d <= e
    BY <2>2
  <2> QED
    BY <2>1, <2>3 DEF Neighbours
<1> QED
  BY <1>3, <1>4

\* The k-th piece lies between the cuts of rank k - 1 and k.
LEMMA PieceByRank ==
    ASSUME NEW T, NEW f \in Seq(T), NEW s, NEW c \in Cuts(f, s), NEW d \in Cuts(f, s),
           NEW k \in 1 .. Cardinality(Cuts(f, s)) - 1,
           Rank(Cuts(f, s), c) = k - 1, Rank(Cuts(f, s), d) = k
    PROVE  /\ DOMAIN Split(f, s) = 1 .. Cardinality(Cuts(f, s)) - 1
           /\ Split(f, s)[k] = SubSeq(f, c + 1, d - 1)
<1> DEFINE C == Cuts(f, s)
           cut == [r \in 0 .. Cardinality(C) - 1 |-> CHOOSE a \in C : Rank(C, a) = r]
<1>1. C \in SUBSET Nat /\ IsFiniteSet(C) /\ Cardinality(C) \in Nat
  BY CutsOfField
<1>2. \A a \in C : Rank(C, a) \in Int
  BY <1>1, RanksFollowOrder
<1>3. \A a, b \in C : Rank(C, a) = Rank(C, b) => a = b
  <2> SUFFICES ASSUME NEW a \in C, NEW b \in C, a # b
               PROVE  Rank(C, a) # Rank(C, b)
    OBVIOUS
  <2>1. a < b \/ b < a
    BY <1>1
  <2>2. Rank(C, a) < Rank(C, b) \/ Rank(C, b) < Rank(C, a)
    BY <1>1, <2>1, RanksFollowOrder
  <2> QED
    BY <2>2, <1>2
<1>4. cut[k - 1] = c
  <2>1. k - 1 \in 0 .. Cardinality(C) - 1
    BY <1>1
  <2>2. cut[k - 1] = CHOOSE a \in C : Rank(C, a) = k - 1
    BY <2>1
  <2> QED
    BY <2>2, <1>3
<1>5. cut[k] = d
  <2>1. k \in 0 .. Cardinality(C) - 1
    BY <1>1
  <2>2. cut[k] = CHOOSE a \in C : Rank(C, a) = k
    BY <2>1
  <2> QED
    BY <2>2, <1>3
<1>6. Split(f, s) = [j \in 1 .. Cardinality(C) - 1 |-> SubSeq(f, cut[j - 1] + 1, cut[j] - 1)]
  BY DEF Split
<1>7. DOMAIN Split(f, s) = 1 .. Cardinality(C) - 1
  BY <1>6
<1>8. Split(f, s)[k] = SubSeq(f, cut[k - 1] + 1, cut[k] - 1)
  BY <1>6
<1> QED
  BY <1>4, <1>5, <1>7, <1>8

\* The pieces are what lies between neighbouring cuts.
LEMMA Pieces ==
    ASSUME NEW T, NEW f \in Seq(T), NEW s
    PROVE  /\ \A k \in DOMAIN Split(f, s) : \E c, d \in Cuts(f, s) :
                 Neighbours(Cuts(f, s), c, d) /\ Split(f, s)[k] = SubSeq(f, c + 1, d - 1)
           /\ \A c, d \in Cuts(f, s) : Neighbours(Cuts(f, s), c, d) =>
                 \E k \in DOMAIN Split(f, s) : Split(f, s)[k] = SubSeq(f, c + 1, d - 1)
<1> DEFINE C == Cuts(f, s)
<1>1. C \in SUBSET Nat /\ IsFiniteSet(C) /\ Cardinality(C) \in Nat
  BY CutsOfField
<1>2. DOMAIN Split(f, s) = 1 .. Cardinality(C) - 1
  BY DEF Split
<1>3. ASSUME NEW k \in DOMAIN Split(f, s)
      PROVE  \E c, d \in C : Neighbours(C, c, d) /\ Split(f, s)[k] = SubSeq(f, c + 1, d - 1)
  <2>1. k - 1 \in 0 .. Cardinality(C) - 1 /\ k \in 0 .. Cardinality(C) - 1
    BY <1>1, <1>2, <1>3
  <2>2. PICK c \in C : Rank(C, c) = k - 1
    BY <1>1, <2>1, RanksFollowOrder
  <2>3. PICK d \in C : Rank(C, d) = k
    BY <1>1, <2>1, RanksFollowOrder
  <2>4. Rank(C, d) = Rank(C, c) + 1
    BY <2>1, <2>2, <2>3
  <2>5. Neighbours(C, c, d)
    BY <1>1, <2>4, NeighboursByRank
  <2>6. k \in 1 .. Cardinality(C) - 1
    BY <1>2
  <2>7. Split(f, s)[k] = SubSeq(f, c + 1, d - 1)
    BY <2>2, <2>3, <2>6, PieceByRank
  <2> QED
    BY <2>5, <2>7
<1>4. ASSUME NEW c \in C, NEW d \in C, Neighbours(C, c, d)
      PROVE  \E k \in DOMAIN Split(f, s) : Split(f, s)[k] = SubSeq(f, c + 1, d - 1)
  <2> DEFINE k == Rank(C, d)
  <2>1. k = Rank(C, c) + 1
    BY <1>1, <1>4, NeighboursByRank
  <2>2. Rank(C, c) \in 0 .. Cardinality(C) - 1 /\ k \in 0 .. Cardinality(C) - 1
    BY <1>1, RanksFollowOrder
  <2> HIDE DEF k
  <2>3. k \in 1 .. Cardinality(C) - 1 /\ Rank(C, c) = k - 1
    BY <1>1, <2>1, <2>2
  <2>4. Rank(C, d) = k
    BY DEF k
  <2>5. Split(f, s)[k] = SubSeq(f, c + 1, d - 1)
    BY <2>3, <2>4, PieceByRank
  <2> QED
    BY <1>2, <2>3, <2>5
<1> QED
  BY <1>3, <1>4

\* what the stretch of f from a to b is
StretchOf(T, f, a, b) ==
    /\ SubSeq(f, a, b) \in Seq(T)
    /\ Len(SubSeq(f, a, b)) = IF a <= b THEN b - a + 1 ELSE 0
    /\ \A i \in 1 .. b - a + 1 : SubSeq(f, a, b)[i] = f[a + i - 1]

\* A stretch of a sequence.
LEMMA Stretch ==
    ASSUME NEW T, NEW f \in Seq(T), NEW a \in 1 .. Len(f) + 1, NEW b \in 0 .. Len(f)
    PROVE  StretchOf(T, f, a, b)
<1>1. Len(f) \in Nat
  BY LenProperties
<1>2. \A i \in a .. b : i \in 1 .. Len(f)
  BY <1>1
<1>3. \A i \in a .. b : f[i] \in T
  BY <1>2, ElementOfSeq
<1>4. a \in Int /\ b \in Int
  BY <1>1
<1> QED
  BY <1>3, <1>4, SubSeqProperties DEF StretchOf

\* A field is split into one part more than it has separators, all of its tokens.
LEMMA PartsAreTexts ==
    ASSUME NEW T, NEW f \in Seq(T), NEW s
    PROVE  /\ Len(Split(f, s)) = Cardinality(Cuts(f, s)) - 1
           /\ \A k \in 1 .. Len(Split(f, s)) : Split(f, s)[k] \in Seq(T)
<1> DEFINE m == Cardinality(Cuts(f, s)) - 1
<1>1. Cuts(f, s) \in SUBSET (0 .. Len(f) + 1) /\ Len(f) \in Nat
  BY CutsOfField
<1>2. m \in Nat
  <2>1. IsFiniteSet(Cuts(f, s)) /\ Cardinality(Cuts(f, s)) \in Nat /\ Cuts(f, s) # {}
    BY CutsOfField
  <2>2. Cardinality(Cuts(f, s)) # 0
    BY <2>1, FS_EmptySet
  <2> QED
    BY <2>1, <2>2
<1>3. \A k \in 1 .. m : Split(f, s)[k] \in Seq(T)
  <2> TAKE k \in 1 .. m
  <2>1. k \in DOMAIN Split(f, s)
    BY DEF Split
  <2>2. PICK c \in Cuts(f, s), d \in Cuts(f, s) :
           Neighbours(Cuts(f, s), c, d) /\ Split(f, s)[k] = SubSeq(f, c + 1, d - 1)
    BY <2>1, Pieces
  <2>3. c + 1 \in 1 .. Len(f) + 1 /\ d - 1 \in 0 .. Len(f)
    BY <1>1, <2>2 DEF Neighbours
  <2> QED
    BY <2>2, <2>3, Stretch DEF StretchOf
<1>4. Split(f, s) \in [1 .. m -> Seq(T)]
  <2> DEFINE C == Cuts(f, s)
             cut == [r \in 0 .. Cardinality(C) - 1 |-> CHOOSE a \in C : Rank(C, a) = r]
             piece(k) == SubSeq(f, cut[k - 1] + 1, cut[k] - 1)
  <2>1. Split(f, s) = [k \in 1 .. m |-> piece(k)]
    BY DEF Split
  <2> HIDE DEF m, piece
  <2>2. \A k \in 1 .. m : piece(k) \in Seq(T)
    BY <1>3, <2>1
  <2> QED
    BY <2>1, <2>2
<1> HIDE DEF m
<1>5. Len(Split(f, s)) = m
  BY <1>2, <1>4, SequenceOfLength
<1> QED
  BY <1>3, <1>5 DEF m

\* x and y are two, and z is a third
TwoAndThird(x, y, z) == /\ IsFiniteSet({x, y}) /\ Cardinality({x, y}) = 2
                        /\ Cardinality({x, y} \cup {z}) = 3

\* Elements that differ.
LEMMA TwoAndThree ==
    ASSUME NEW x, NEW y, NEW z, x # y, x # z, y # z
    PROVE  TwoAndThird(x, y, z)
<1>1. IsFiniteSet({x}) /\ Cardinality({x}) = 1
  BY FS_Singleton
<1>2. /\ IsFiniteSet({x} \cup {y})
      /\ Cardinality({x} \cup {y}) = Cardinality({x}) + 1
  <2>1. y \notin {x}
    OBVIOUS
  <2> QED
    BY <1>1, <2>1, FS_AddElement
<1>3. {x, y} = {x} \cup {y}
  OBVIOUS
<1>4. Cardinality({x, y} \cup {z}) = Cardinality({x, y}) + 1
  <2>1. z \notin {x, y}
    OBVIOUS
  <2> QED
    BY <1>2, <1>3, <2>1, FS_AddElement
<1>5. PICK m, n, o : m = Cardinality({x}) /\ n = Cardinality({x, y})
                     /\ o = Cardinality({x, y} \cup {z})
  OBVIOUS
<1>6. m = 1 /\ n = m + 1 /\ o = n + 1
  BY <1>1, <1>2, <1>3, <1>4, <1>5
<1>7. n = 2 /\ o = 3
  BY <1>6
<1> QED
  BY <1>2, <1>3, <1>5, <1>7 DEF TwoAndThird

\* the token s stands at i and nowhere else
OnlyAt(f, s, i) == \A j \in DOMAIN f : f[j] = s <=> j = i

\* A field has two parts when it has one separator: what is before, what is after.
LEMMA SplitInTwo ==
    ASSUME NEW T, NEW f \in Seq(T), NEW s
    PROVE  /\ Len(Split(f, s)) = 2 => \E i \in DOMAIN f : OnlyAt(f, s, i)
           /\ \A i \in DOMAIN f : OnlyAt(f, s, i) =>
                 /\ Len(Split(f, s)) = 2
                 /\ Split(f, s)[1] = SubSeq(f, 1, i - 1)
                 /\ Split(f, s)[2] = SubSeq(f, i + 1, Len(f))
<1> DEFINE C == Cuts(f, s)
           n == Len(f) + 1
<1>1. /\ Len(f) \in Nat /\ DOMAIN f = 1 .. Len(f)
      /\ C \in SUBSET (0 .. n) /\ C \in SUBSET Nat
      /\ IsFiniteSet(C) /\ Cardinality(C) \in Nat /\ 0 \in C /\ n \in C
  BY CutsOfField
<1>2. \A c \in C : c = 0 \/ c = n \/ (c \in DOMAIN f /\ f[c] = s)
  BY DEF Cuts
<1>3. \A c \in DOMAIN f : f[c] = s => c \in C
  BY DEF Cuts
<1> HIDE DEF C
<1>0. n \in Nat /\ \A c \in C : c \in Nat /\ c <= n
  BY <1>1
<1>4. Rank(C, 0) = 0
  <2>1. \A b \in C : ~(b < 0)
    BY <1>0
  <2>2. {b \in C : b < 0} = {}
    BY <2>1
  <2> QED
    BY <2>2, FS_EmptySet DEF Rank
<1>5. Len(Split(f, s)) = Cardinality(C) - 1
  BY PartsAreTexts DEF C
<1>6. ASSUME Len(Split(f, s)) = 2
      PROVE  \E i \in DOMAIN f : OnlyAt(f, s, i)
  <2>1. Cardinality(C) = 3
    <3>1. Cardinality(C) \in Nat /\ Cardinality(C) - 1 = 2
      BY <1>1, <1>5, <1>6
    <3> QED
      BY <3>1
  <2>2. \A c \in C : Rank(C, c) \in 0 .. 2
    BY <1>1, <2>1, RanksFollowOrder
  <2>3. \A c, d \in C : c < d => Rank(C, c) < Rank(C, d)
    BY <1>1, RanksFollowOrder
  <2>4. \A r \in 0 .. 2 : \E c \in C : Rank(C, c) = r
    BY <1>1, <2>1, RanksFollowOrder
  <2>5. PICK i \in C : Rank(C, i) = 1
    BY <2>4
  <2>6. PICK l \in C : Rank(C, l) = 2
    BY <2>4
  <2>7. i # 0
    BY <2>5, <1>4
  <2>8. i # n
    <3> SUFFICES ASSUME i = n PROVE FALSE
      OBVIOUS
    <3>1. l # i
      BY <2>5, <2>6
    <3>2. l < i
      BY <3>1, <1>1
    <3>3. Rank(C, l) < Rank(C, i)
      BY <3>2, <2>3
    <3> QED
      BY <3>3, <2>5, <2>6
  <2>9. i \in DOMAIN f /\ f[i] = s
    BY <1>2, <2>7, <2>8
  <2>10. \A j \in DOMAIN f : f[j] = s => j = i
    <3> SUFFICES ASSUME NEW j \in DOMAIN f, f[j] = s, j # i
                 PROVE  FALSE
      OBVIOUS
    <3>1. j \in C /\ 0 < j /\ j < n
      BY <1>1, <1>3
    <3>2. Rank(C, 0) < Rank(C, j) /\ Rank(C, j) < Rank(C, n)
      BY <3>1, <2>3, <1>1
    <3>3. Rank(C, j) \in 0 .. 2 /\ Rank(C, n) \in 0 .. 2
      BY <3>1, <2>2, <1>1
    <3>4. Rank(C, j) = 1
      BY <3>2, <3>3, <1>4
    <3>5. j < i \/ i < j
      BY <1>1, <3>1, <2>9
    <3>6. Rank(C, j) < Rank(C, i) \/ Rank(C, i) < Rank(C, j)
      BY <3>1, <3>5, <2>3
    <3> QED
      BY <3>4, <3>6, <2>5
  <2> QED
    BY <2>9, <2>10 DEF OnlyAt
<1>7. ASSUME NEW i \in DOMAIN f, OnlyAt(f, s, i)
      PROVE  /\ Len(Split(f, s)) = 2
             /\ Split(f, s)[1] = SubSeq(f, 1, i - 1)
             /\ Split(f, s)[2] = SubSeq(f, i + 1, Len(f))
  <2>1. i \in C /\ 0 < i /\ i < n
    BY <1>1, <1>3, <1>7 DEF OnlyAt
  <2>2. \A c \in C : c = 0 \/ c = i \/ c = n
    BY <1>2, <1>7 DEF OnlyAt
  <2>3. C = ({0} \cup {i}) \cup {n}
    BY <1>1, <2>1, <2>2
  <2>4. IsFiniteSet({0, i}) /\ Cardinality({0, i}) = 2 /\ Cardinality({0, i} \cup {n}) = 3
    <3>1. PICK x, y, z : x = 0 /\ y = i /\ z = n
      OBVIOUS
    <3>2. x # y /\ x # z /\ y # z
      BY <1>0, <2>1, <3>1
    <3>3. TwoAndThird(x, y, z)
      BY <3>2, TwoAndThree
    <3> QED
      BY <3>1, <3>3 DEF TwoAndThird
  <2>5. Cardinality(C) = 3
    <3>1. C = {0, i} \cup {n}
      BY <2>3
    <3> QED
      BY <2>4, <3>1
  <2>6. Rank(C, i) = 1
    <3>1. \A b \in C : b < i <=> b = 0
      BY <1>0, <2>1, <2>2
    <3>2. {b \in C : b < i} = {0}
      BY <3>1, <1>1
    <3> QED
      BY <3>2, FS_Singleton DEF Rank
  <2>7. Rank(C, n) = 2
    <3>1. \A b \in C : b < n <=> b \in {0, i}
      BY <1>0, <2>1, <2>2
    <3>2. {b \in C : b < n} = {0, i}
      BY <3>1, <2>1, <1>1
    <3> QED
      BY <3>2, <2>4 DEF Rank
  <2>8. Len(Split(f, s)) = 2
    BY <1>5, <2>5
  <2>9. Split(f, s)[1] = SubSeq(f, 0 + 1, i - 1)
    <3>1. 1 \in 1 .. Cardinality(C) - 1 /\ Rank(C, 0) = 1 - 1 /\ Rank(C, i) = 1
      BY <1>4, <2>5, <2>6
    <3>2. 0 \in C /\ i \in C
      BY <1>1, <2>1
    <3> QED
      BY <3>1, <3>2, PieceByRank DEF C
  <2>10. Split(f, s)[2] = SubSeq(f, i + 1, n - 1)
    <3>1. 2 \in 1 .. Cardinality(C) - 1 /\ Rank(C, i) = 2 - 1 /\ Rank(C, n) = 2
      BY <2>5, <2>6, <2>7
    <3>2. i \in C /\ n \in C
      BY <1>1, <2>1
    <3> QED
      BY <3>1, <3>2, PieceByRank DEF C
  <2>11. 0 + 1 = 1 /\ n - 1 = Len(f)
    BY <1>1
  <2> QED
    BY <2>8, <2>9, <2>10, <2>11
<1> QED
  BY <1>6, <1>7

\* A field is split into p and q at the token s when it is p, s, q.
LEMMA SplitTriple ==
    ASSUME NEW T, NEW f \in Seq(T), NEW s, NEW p \in T, NEW q \in T, p # s, q # s
    PROVE  f = <<p, s, q>> <=> /\ Len(Split(f, s)) = 2
                               /\ Split(f, s)[1] = <<p>> /\ Split(f, s)[2] = <<q>>
<1>1. Len(f) \in Nat /\ DOMAIN f = 1 .. Len(f)
  BY LenProperties
<1>2. ASSUME NEW i \in DOMAIN f
      PROVE  /\ Len(SubSeq(f, 1, i - 1)) = i - 1
             /\ i > 1 => SubSeq(f, 1, i - 1)[1] = f[1]
             /\ Len(SubSeq(f, i + 1, Len(f))) = Len(f) - i
             /\ i < Len(f) => SubSeq(f, i + 1, Len(f))[1] = f[i + 1]
             /\ SubSeq(f, 1, i - 1) \in Seq(T) /\ SubSeq(f, i + 1, Len(f)) \in Seq(T)
  <2>1. 1 \in 1 .. Len(f) + 1 /\ i - 1 \in 0 .. Len(f)
        /\ i + 1 \in 1 .. Len(f) + 1 /\ Len(f) \in 0 .. Len(f)
    BY <1>1
  <2>2. /\ SubSeq(f, 1, i - 1) \in Seq(T)
        /\ Len(SubSeq(f, 1, i - 1)) = IF 1 <= i - 1 THEN (i - 1) - 1 + 1 ELSE 0
        /\ \A j \in 1 .. (i - 1) - 1 + 1 : SubSeq(f, 1, i - 1)[j] = f[1 + j - 1]
    BY <2>1, Stretch DEF StretchOf
  <2>3. /\ SubSeq(f, i + 1, Len(f)) \in Seq(T)
        /\ Len(SubSeq(f, i + 1, Len(f))) = IF i + 1 <= Len(f) THEN Len(f) - (i + 1) + 1 ELSE 0
        /\ \A j \in 1 .. Len(f) - (i + 1) + 1 :
              SubSeq(f, i + 1, Len(f))[j] = f[(i + 1) + j - 1]
    BY <2>1, Stretch DEF StretchOf
  <2> QED
    BY <1>1, <2>2, <2>3
<1>3. ASSUME Len(Split(f, s)) = 2, Split(f, s)[1] = <<p>>, Split(f, s)[2] = <<q>>
      PROVE  f = <<p, s, q>>
  <2>1. PICK i \in DOMAIN f : OnlyAt(f, s, i)
    BY <1>3, SplitInTwo
  <2>2. SubSeq(f, 1, i - 1) = <<p>> /\ SubSeq(f, i + 1, Len(f)) = <<q>>
    BY <1>3, <2>1, SplitInTwo
  <2>3. i - 1 = 1 /\ Len(f) - i = 1
    BY <1>2, <2>2
  <2>4. i \in Nat /\ Len(f) \in Nat
    BY <1>1
  <2>5. i = 2 /\ Len(f) = 3
    BY <2>3, <2>4
  <2>6. f[1] = p /\ f[3] = q
    <3>1. i > 1 /\ i < Len(f) /\ i + 1 = 3
      BY <2>5
    <3>2. SubSeq(f, 1, i - 1)[1] = f[1] /\ SubSeq(f, i + 1, Len(f))[1] = f[3]
      BY <1>2, <3>1
    <3>3. <<p>>[1] = p /\ <<q>>[1] = q
      OBVIOUS
    <3> QED
      BY <2>2, <3>2, <3>3
  <2>7. f[2] = s
    BY <2>1, <2>5 DEF OnlyAt
  <2> QED
    BY <2>5, <2>6, <2>7
<1>4. ASSUME f = <<p, s, q>>
      PROVE  /\ Len(Split(f, s)) = 2
             /\ Split(f, s)[1] = <<p>> /\ Split(f, s)[2] = <<q>>
  <2>1. Len(f) = 3 /\ f[1] = p /\ f[2] = s /\ f[3] = q
    BY <1>4
  <2>2. 2 \in DOMAIN f /\ OnlyAt(f, s, 2)
    BY <1>1, <2>1 DEF OnlyAt
  <2>3. /\ Len(Split(f, s)) = 2
        /\ Split(f, s)[1] = SubSeq(f, 1, 2 - 1) /\ Split(f, s)[2] = SubSeq(f, 2 + 1, Len(f))
    BY <2>2, SplitInTwo
  <2>4. PICK a \in Seq(T), b \in Seq(T) :
           a = SubSeq(f, 1, 2 - 1) /\ b = SubSeq(f, 2 + 1, Len(f))
    BY <1>2, <2>2
  <2>5. /\ Len(a) = 2 - 1 /\ Len(b) = 3 - 2
        /\ a[1] = f[1] /\ b[1] = f[2 + 1]
    BY <1>2, <2>1, <2>2, <2>4
  <2>6. a = <<p>>
    BY <2>1, <2>5
  <2>7. b = <<q>>
    BY <2>1, <2>5
  <2> QED
    BY <2>3, <2>4, <2>6, <2>7
<1> QED
  BY <1>3, <1>4

-----------------------------------------------------------------------------
(* One item of a list.                                                     *)

\* every number and every name
Words == {Number(n) : n \in Int} \cup {Name(i) : i \in Int}

\* bounds and names of any field
AnySpec == [min : Int, max : Int, names : Nat]

\* A token is a separator, and not a word, or a word with its value.
LEMMA TokensAre ==
    ASSUME NEW words \in SUBSET Words, NEW t \in Tokens(words)
    PROVE  /\ t \in words <=> t[1] \in {"number", "name"}
           /\ t \in words => t[2] \in Int /\ t \notin {Star, Question, Comma, Dash, Slash}
<1>0. /\ Star[1] = "*" /\ Question[1] = "?" /\ Comma[1] = "," /\ Dash[1] = "-"
      /\ Slash[1] = "/"
  BY DEF Star, Question, Comma, Dash, Slash
<1>1. CASE t \in words
  <2>1. PICK n \in Int : t = <<"number", n>> \/ t = <<"name", n>>
    BY <1>1 DEF Words, Number, Name
  <2>2. t[1] \in {"number", "name"} /\ t[2] = n
    BY <2>1
  <2>3. t \notin {Star, Question, Comma, Dash, Slash}
    BY <1>0, <2>2
  <2> QED
    BY <1>1, <2>2, <2>3
<1>2. CASE t \notin words
  <2>1. t \in {Star, Question, Comma, Dash, Slash}
    BY <1>2 DEF Tokens
  <2>2. t[1] \notin {"number", "name"}
    BY <1>0, <2>1
  <2> QED
    BY <1>2, <2>2
<1> QED
  BY <1>1, <1>2

\* The separators differ.
LEMMA SeparatorsDiffer ==
    /\ Star # Question /\ Star # Comma /\ Star # Dash /\ Star # Slash
    /\ Question # Comma /\ Question # Dash /\ Question # Slash
    /\ Comma # Dash /\ Comma # Slash /\ Dash # Slash
BY DEF Star, Question, Comma, Dash, Slash

\* A text of one token is that token.
LEMMA OneToken ==
    ASSUME NEW T, NEW text \in Seq(T), Len(text) = 1
    PROVE  text[1] \in T /\ text = <<text[1]>>
<1>1. text[1] \in T
  BY ElementOfSeq
<1>2. text = <<text[1]>>
  OBVIOUS
<1> QED
  BY <1>1, <1>2

\* What the three tests of a text accept.
LEMMA TextsAccepted ==
    ASSUME NEW words \in SUBSET Words, NEW spec \in AnySpec,
           NEW text \in Seq(Tokens(words))
    PROVE  /\ InBounds(text, spec) <=>
                 \E v \in Values(spec, words) : v[1] = "number" /\ text = <<v>>
           /\ IsName(text, spec) <=>
                 \E v \in Values(spec, words) : v[1] = "name" /\ text = <<v>>
           /\ IsNumber(text, Nat \ {0}) <=>
                 \E v \in words : v[1] = "number" /\ v[2] > 0 /\ text = <<v>>
<1>0. spec.min \in Int /\ spec.max \in Int /\ spec.names \in Nat
  BY DEF AnySpec
<1>1. CASE Len(text) = 1
  <2>1. PICK t \in Tokens(words) : text = <<t>> /\ text[1] = t
    BY <1>1, OneToken
  <2>2. \A v : text = <<v>> <=> v = t
    BY <2>1
  <2>3. /\ t \in words <=> t[1] \in {"number", "name"}
        /\ t \in words => t[2] \in Int
    BY TokensAre
  <2>4. t \in Values(spec, words) <=>
          /\ t \in words
          /\ t[1] = "number" => spec.min <= t[2] /\ t[2] <= spec.max
          /\ t[1] # "number" => 0 <= t[2] /\ t[2] < spec.names
    BY DEF Values
  <2>5. InBounds(text, spec) <=> t \in Values(spec, words) /\ t[1] = "number"
    <3>1. InBounds(text, spec) <=> t[1] = "number" /\ t[2] \in spec.min .. spec.max
      BY <1>1, <2>1 DEF InBounds, IsNumber
    <3>2. t[1] = "number" => t \in words /\ t[2] \in Int
      BY <2>3
    <3> QED
      BY <1>0, <2>4, <3>1, <3>2
  <2>6. IsName(text, spec) <=> t \in Values(spec, words) /\ t[1] = "name"
    <3>1. IsName(text, spec) <=> t[1] = "name" /\ t[2] \in 0 .. spec.names - 1
      BY <1>1, <2>1 DEF IsName
    <3>2. t[1] = "name" => t \in words /\ t[2] \in Int /\ t[1] # "number"
      BY <2>3
    <3> QED
      BY <1>0, <2>4, <3>1, <3>2
  <2>7. IsNumber(text, Nat \ {0}) <=> t \in words /\ t[1] = "number" /\ t[2] > 0
    <3>1. IsNumber(text, Nat \ {0}) <=> t[1] = "number" /\ t[2] \in Nat \ {0}
      BY <1>1, <2>1 DEF IsNumber
    <3> QED
      BY <2>3, <3>1
  <2> QED
    BY <2>2, <2>5, <2>6, <2>7 DEF Values
<1>2. CASE Len(text) # 1
  <2>1. \A v : text # <<v>>
    BY <1>2
  <2> QED
    BY <1>2, <2>1 DEF InBounds, IsName, IsNumber
<1> QED
  BY <1>1, <1>2

\* A dash between texts: both ends names, or both numbers, in order.
LEMMA RangesAccepted ==
    ASSUME NEW words \in SUBSET Words, NEW spec \in AnySpec,
           NEW item \in Seq(Tokens(words))
    PROVE  ValidateRange(item, spec) <=> item \in Ranges(spec, words)
<1> DEFINE T == Tokens(words)
           ends == Split(item, Dash)
           Pair(u, v) == /\ u \in Values(spec, words) /\ v \in Values(spec, words)
                         /\ u[1] = v[1] /\ u[2] <= v[2]
<1>1. \A v \in Values(spec, words) : /\ v \in T /\ v # Dash
                                     /\ v[1] \in {"number", "name"}
  BY TokensAre DEF Values, Tokens
<1>2. ValidateRange(item, spec) <=>
        /\ Len(ends) = 2
        /\ \/ IsName(ends[1], spec) /\ IsName(ends[2], spec)
           \/ InBounds(ends[1], spec) /\ InBounds(ends[2], spec)
        /\ ends[1][1][2] <= ends[2][1][2]
  BY DEF ValidateRange
<1>3. item \in Ranges(spec, words) <=> \E u, v : Pair(u, v) /\ item = <<u, Dash, v>>
  <2>1. ASSUME item \in Ranges(spec, words)
        PROVE  \E u, v : Pair(u, v) /\ item = <<u, Dash, v>>
    <3>1. PICK w \in Values(spec, words) \X Values(spec, words) :
             /\ w[1][1] = w[2][1] /\ w[1][2] <= w[2][2]
             /\ item = <<w[1], Dash, w[2]>>
      BY <2>1 DEF Ranges
    <3> QED
      BY <3>1
  <2>2. ASSUME NEW u, NEW v, Pair(u, v), item = <<u, Dash, v>>
        PROVE  item \in Ranges(spec, words)
    <3>1. PICK w : w = <<u, v>>
      OBVIOUS
    <3>2. /\ w \in Values(spec, words) \X Values(spec, words)
          /\ w[1] = u /\ w[2] = v
      BY <2>2, <3>1
    <3> QED
      BY <2>2, <3>2 DEF Ranges
  <2> QED
    BY <2>1, <2>2
<1>4. ASSUME NEW u, NEW v, Pair(u, v), item = <<u, Dash, v>>
      PROVE  ValidateRange(item, spec)
  <2>1. u \in T /\ v \in T /\ u # Dash /\ v # Dash /\ item \in Seq(T)
    BY <1>1, <1>4
  <2>2. Len(ends) = 2 /\ ends[1] = <<u>> /\ ends[2] = <<v>>
    <3> HIDE DEF T, Pair
    <3>1. item = <<u, Dash, v>> <=> Len(ends) = 2 /\ ends[1] = <<u>> /\ ends[2] = <<v>>
      BY <2>1, SplitTriple
    <3> QED
      BY <1>4, <3>1
  <2>3. <<u>> \in Seq(T) /\ <<v>> \in Seq(T)
    BY <2>1
  <2>4. <<u>>[1] = u /\ <<v>>[1] = v
    OBVIOUS
  <2>5. CASE u[1] = "name"
    <3>0. /\ u \in Values(spec, words) /\ v \in Values(spec, words)
          /\ u[1] = "name" /\ v[1] = "name"
      BY <1>4, <2>5
    <3>1. IsName(<<u>>, spec) /\ IsName(<<v>>, spec)
      BY <2>3, <3>0, TextsAccepted
    <3> QED
      BY <1>2, <1>4, <2>2, <2>4, <3>1
  <2>6. CASE u[1] = "number"
    <3>0. /\ u \in Values(spec, words) /\ v \in Values(spec, words)
          /\ u[1] = "number" /\ v[1] = "number"
      BY <1>4, <2>6
    <3>1. InBounds(<<u>>, spec) /\ InBounds(<<v>>, spec)
      BY <2>3, <3>0, TextsAccepted
    <3> QED
      BY <1>2, <1>4, <2>2, <2>4, <3>1
  <2> QED
    BY <1>1, <1>4, <2>5, <2>6
<1>5. ASSUME ValidateRange(item, spec)
      PROVE  \E u, v : Pair(u, v) /\ item = <<u, Dash, v>>
  <2>1. Len(ends) = 2 /\ ends[1] \in Seq(T) /\ ends[2] \in Seq(T)
    <3>1. \A k \in 1 .. Len(ends) : ends[k] \in Seq(T)
      BY PartsAreTexts
    <3>2. Len(ends) = 2
      BY <1>2, <1>5
    <3> QED
      BY <3>1, <3>2
  <2>2. PICK kind \in {"number", "name"}, u \in Values(spec, words), v \in Values(spec, words) :
           u[1] = kind /\ v[1] = kind /\ ends[1] = <<u>> /\ ends[2] = <<v>>
    BY <1>2, <1>5, <2>1, TextsAccepted
  <2>3. <<u>>[1] = u /\ <<v>>[1] = v
    OBVIOUS
  <2>4. Pair(u, v)
    BY <1>2, <1>5, <2>2, <2>3
  <2>5. item = <<u, Dash, v>>
    BY <1>1, <2>1, <2>2, SplitTriple
  <2> QED
    BY <2>4, <2>5
<1> QED
  BY <1>3, <1>4, <1>5

\* A slash between a start and a positive number.
LEMMA StepsAccepted ==
    ASSUME NEW words \in SUBSET Words, NEW spec \in AnySpec,
           NEW item \in Seq(Tokens(words))
    PROVE  ValidateStep(item, spec) <=> item \in Steps(spec, words)
<1> DEFINE T == Tokens(words)
           parts == Split(item, Slash)
           Starts == {Star} \cup {v \in Values(spec, words) : v[1] = "number"}
           Strides == {w \in words : w[1] = "number" /\ w[2] > 0}
<1>1. /\ \A u \in Starts : u \in T /\ u # Slash
      /\ \A w \in Strides : w \in T /\ w # Slash
  BY TokensAre, SeparatorsDiffer DEF Values, Tokens
<1>2. item \in Steps(spec, words) <=>
         \E u \in Starts, w \in Strides : item = <<u, Slash, w>>
  BY DEF Steps, StepLengths
<1>3. ASSUME NEW u \in Starts, NEW w \in Strides, item = <<u, Slash, w>>
      PROVE  ValidateStep(item, spec)
  <2>1. Len(parts) = 2 /\ parts[1] = <<u>> /\ parts[2] = <<w>>
    <3>1. u \in T /\ w \in T /\ u # Slash /\ w # Slash /\ item \in Seq(T)
      BY <1>1
    <3> HIDE DEF T, Starts, Strides
    <3>2. item = <<u, Slash, w>> <=>
            Len(parts) = 2 /\ parts[1] = <<u>> /\ parts[2] = <<w>>
      BY <3>1, SplitTriple
    <3> QED
      BY <1>3, <3>2
  <2>2. <<u>> \in Seq(T) /\ <<w>> \in Seq(T)
    BY <1>1
  <2>3. IsNumber(<<w>>, Nat \ {0})
    BY <2>2, TextsAccepted
  <2>4. <<u>> = <<Star>> \/ InBounds(<<u>>, spec)
    BY <2>2, TextsAccepted
  <2> QED
    BY <2>1, <2>3, <2>4 DEF ValidateStep
<1>4. ASSUME ValidateStep(item, spec)
      PROVE  \E u \in Starts, w \in Strides : item = <<u, Slash, w>>
  <2>1. /\ Len(parts) = 2 /\ parts[1] \in Seq(T) /\ parts[2] \in Seq(T)
        /\ parts[1] = <<Star>> \/ InBounds(parts[1], spec)
        /\ IsNumber(parts[2], Nat \ {0})
    <3>1. \A k \in 1 .. Len(parts) : parts[k] \in Seq(T)
      BY PartsAreTexts
    <3>2. /\ Len(parts) = 2
          /\ parts[1] = <<Star>> \/ InBounds(parts[1], spec)
          /\ IsNumber(parts[2], Nat \ {0})
      BY <1>4 DEF ValidateStep
    <3> QED
      BY <3>1, <3>2
  <2>2. PICK w \in Strides : parts[2] = <<w>>
    BY <2>1, TextsAccepted
  <2>3. PICK u \in Starts : parts[1] = <<u>>
    BY <2>1, TextsAccepted
  <2>4. item = <<u, Slash, w>>
    BY <1>1, <2>1, <2>2, <2>3, SplitTriple
  <2> QED
    BY <2>4
<1> QED
  BY <1>2, <1>3, <1>4

\* The order in which an item is tried does not matter: no two forms overlap.
LEMMA ItemsAccepted ==
    ASSUME NEW words \in SUBSET Words, NEW spec \in AnySpec,
           NEW item \in Seq(Tokens(words))
    PROVE  ValidateItem(item, spec) <=> item \in Items(spec, words)
<1>1. \A v \in Values(spec, words) : /\ v # Dash
                                     /\ v[1] = "number" \/ v[1] = "name"
  BY TokensAre DEF Values, Tokens
<1>2. IsName(item, spec) \/ InBounds(item, spec) <=>
        \E v \in Values(spec, words) : item = <<v>>
  BY <1>1, TextsAccepted
<1>3. item \in Ranges(spec, words) => Contains(item, Dash)
  <2>1. SUFFICES ASSUME NEW v \in Values(spec, words) \X Values(spec, words),
                        item = <<v[1], Dash, v[2]>>
                 PROVE  Contains(item, Dash)
    BY DEF Ranges
  <2>2. Len(item) = 3 /\ item[2] = Dash
    BY <2>1
  <2>3. 2 \in 1 .. Len(item)
    BY <2>2
  <2> QED
    BY <2>2, <2>3 DEF Contains
<1>4. item \in Steps(spec, words) => Contains(item, Slash) /\ ~Contains(item, Dash)
  <2>1. SUFFICES ASSUME NEW start \in {Star} \cup {v \in Values(spec, words) : v[1] = "number"},
                        NEW step \in {w \in words : w[1] = "number" /\ w[2] > 0},
                        item = <<start, Slash, step>>
                 PROVE  Contains(item, Slash) /\ ~Contains(item, Dash)
    BY DEF Steps, StepLengths
  <2>2. start # Dash /\ step # Dash /\ Slash # Dash
    BY <1>1, TokensAre, SeparatorsDiffer DEF Tokens
  <2>3. Len(item) = 3 /\ item[1] = start /\ item[2] = Slash /\ item[3] = step
    BY <2>1
  <2>4. 2 \in 1 .. Len(item) /\ \A i \in 1 .. Len(item) : i = 1 \/ i = 2 \/ i = 3
    BY <2>3
  <2> QED
    BY <2>2, <2>3, <2>4 DEF Contains
<1>5. ValidateRange(item, spec) <=> item \in Ranges(spec, words)
  BY RangesAccepted
<1>6. ValidateStep(item, spec) <=> item \in Steps(spec, words)
  BY StepsAccepted
<1>7. item \in {<<v>> : v \in Values(spec, words)} <=>
        \E v \in Values(spec, words) : item = <<v>>
  OBVIOUS
<1> QED
  BY <1>2, <1>3, <1>4, <1>5, <1>6, <1>7 DEF ValidateItem, Items

-----------------------------------------------------------------------------
(* Lists of items.                                                         *)

\* A field is accepted when what lies between neighbouring commas is.
LEMMA FieldByPieces ==
    ASSUME NEW T, NEW f \in Seq(T), NEW spec
    PROVE  ValidateField(f, spec) <=>
             \A c, d \in Cuts(f, Comma) : Neighbours(Cuts(f, Comma), c, d) =>
                ValidateItem(SubSeq(f, c + 1, d - 1), spec)
<1>1. /\ \A k \in DOMAIN Split(f, Comma) : \E c, d \in Cuts(f, Comma) :
            /\ Neighbours(Cuts(f, Comma), c, d)
            /\ Split(f, Comma)[k] = SubSeq(f, c + 1, d - 1)
      /\ \A c, d \in Cuts(f, Comma) : Neighbours(Cuts(f, Comma), c, d) =>
            \E k \in DOMAIN Split(f, Comma) : Split(f, Comma)[k] = SubSeq(f, c + 1, d - 1)
  BY Pieces
<1> QED
  BY <1>1 DEF ValidateField

\* A field without a comma is one item.
LEMMA SingleItem ==
    ASSUME NEW T, NEW f \in Seq(T), NEW spec, \A i \in DOMAIN f : f[i] # Comma
    PROVE  ValidateField(f, spec) <=> ValidateItem(f, spec)
<1>1. Len(f) \in Nat /\ DOMAIN f = 1 .. Len(f)
  BY LenProperties
<1>2. \A c : c \in Cuts(f, Comma) <=> c = 0 \/ c = Len(f) + 1
  BY DEF Cuts
<1>3. \A c, d \in Cuts(f, Comma) : Neighbours(Cuts(f, Comma), c, d) <=> c = 0 /\ d = Len(f) + 1
  <2> TAKE c, d \in Cuts(f, Comma)
  <2>1. PICK n \in Nat : n = Len(f) + 1 /\ n > 0
    BY <1>1
  <2>2. c \in {0, n} /\ d \in {0, n} /\ \A e \in Cuts(f, Comma) : e \in {0, n}
    BY <1>2, <2>1
  <2>3. c < d <=> c = 0 /\ d = n
    BY <2>1, <2>2
  <2>4. \A e \in Cuts(f, Comma) : e <= 0 \/ n <= e
    BY <2>1, <2>2
  <2> QED
    BY <2>1, <2>3, <2>4 DEF Neighbours
<1>4. SubSeq(f, 0 + 1, (Len(f) + 1) - 1) = f
  <2>1. 0 + 1 = 1 /\ (Len(f) + 1) - 1 = Len(f)
    BY <1>1
  <2>2. SubSeq(f, 1, Len(f)) = f
    OBVIOUS
  <2> QED
    BY <2>1, <2>2
<1>5. ValidateField(f, spec) <=>
        \A c, d \in Cuts(f, Comma) : Neighbours(Cuts(f, Comma), c, d) =>
           ValidateItem(SubSeq(f, c + 1, d - 1), spec)
  BY FieldByPieces
<1>6. 0 \in Cuts(f, Comma) /\ Len(f) + 1 \in Cuts(f, Comma)
  BY <1>2
<1>7. ASSUME ValidateField(f, spec)
      PROVE  ValidateItem(f, spec)
  <2>1. Neighbours(Cuts(f, Comma), 0, Len(f) + 1)
    BY <1>3, <1>6
  <2>2. ValidateItem(SubSeq(f, 0 + 1, (Len(f) + 1) - 1), spec)
    BY <1>5, <1>6, <1>7, <2>1
  <2> QED
    BY <1>4, <2>2
<1>8. ASSUME ValidateItem(f, spec)
      PROVE  ValidateField(f, spec)
  <2>1. ASSUME NEW c \in Cuts(f, Comma), NEW d \in Cuts(f, Comma),
               Neighbours(Cuts(f, Comma), c, d)
        PROVE  ValidateItem(SubSeq(f, c + 1, d - 1), spec)
    <3>1. c = 0 /\ d = Len(f) + 1
      BY <1>3, <2>1
    <3> QED
      BY <1>4, <1>8, <3>1
  <2> QED
    BY <1>5, <2>1
<1> QED
  BY <1>7, <1>8

\* the bounds of a stretch of k tokens between c and d in the last m of n
\* tokens, and of the same stretch seen from the start, i tokens earlier
Bounds(n, m, i, c, d, k) ==
    /\ c + 1 \in 1 .. m + 1 /\ d - 1 \in 0 .. m
    /\ (c + i) + 1 \in 1 .. n + 1 /\ (d + i) - 1 \in 0 .. n
    /\ (IF c + 1 <= d - 1 THEN (d - 1) - (c + 1) + 1 ELSE 0) = k
    /\ (d - 1) - (c + 1) + 1 = k
    /\ (IF (c + i) + 1 <= (d + i) - 1
        THEN ((d + i) - 1) - ((c + i) + 1) + 1 ELSE 0) = k
    /\ ((d + i) - 1) - ((c + i) + 1) + 1 = k
    /\ \A j \in 1 .. k : /\ (c + 1) + j - 1 \in 1 .. m
                         /\ ((c + 1) + j - 1) + i = ((c + i) + 1) + j - 1

\* Those bounds are right.
LEMMA ShiftedBounds ==
    ASSUME NEW n \in Nat, NEW m \in Nat, NEW i \in Nat, NEW c \in Nat, NEW d \in Nat,
           NEW k \in Nat, 1 <= i, i <= n, m = n - i, d <= m + 1, k = d - 1 - c
    PROVE  Bounds(n, m, i, c, d, k)
<1>1. /\ c + 1 \in 1 .. m + 1 /\ d - 1 \in 0 .. m
      /\ (c + i) + 1 \in 1 .. n + 1 /\ (d + i) - 1 \in 0 .. n
  OBVIOUS
<1>2. (d - 1) - (c + 1) + 1 = k /\ ((d + i) - 1) - ((c + i) + 1) + 1 = k
  OBVIOUS
<1>3. /\ (IF c + 1 <= d - 1 THEN (d - 1) - (c + 1) + 1 ELSE 0) = k
      /\ (IF (c + i) + 1 <= (d + i) - 1
          THEN ((d + i) - 1) - ((c + i) + 1) + 1 ELSE 0) = k
  OBVIOUS
<1>4. ASSUME NEW j \in 1 .. k
      PROVE  /\ (c + 1) + j - 1 \in 1 .. m
             /\ ((c + 1) + j - 1) + i = ((c + i) + 1) + j - 1
  <2>1. (c + 1) + j - 1 = c + j /\ ((c + i) + 1) + j - 1 = (c + j) + i
    OBVIOUS
  <2>2. c + j >= 1 /\ c + j <= m
    OBVIOUS
  <2>3. c + j \in 1 .. m
    BY <2>2
  <2> QED
    BY <2>1, <2>3
<1> QED
  BY <1>1, <1>2, <1>3, <1>4 DEF Bounds

\* a place in the last m of n tokens, and the same place i tokens earlier
Place(n, m, i, e) ==
    /\ e + i # 0
    /\ e + i = n + 1 <=> e = m + 1
    /\ e + i \in 1 .. n <=> e = 0 \/ e \in 1 .. m

\* A place after the first i tokens is no other.
LEMMA ShiftedPlaces ==
    ASSUME NEW n \in Nat, NEW m \in Nat, NEW i \in 1 .. n, NEW e \in Nat, m = n - i
    PROVE  Place(n, m, i, e)
<1>1. e + i # 0
  OBVIOUS
<1>2. e + i = n + 1 <=> e = m + 1
  OBVIOUS
<1>3. ASSUME e = 0 \/ e \in 1 .. m
      PROVE  e + i \in 1 .. n
  BY <1>3
<1>4. ASSUME e + i \in 1 .. n
      PROVE  e = 0 \/ e \in 1 .. m
  <2>1. e <= m
    BY <1>4
  <2> QED
    BY <2>1
<1> QED
  BY <1>1, <1>2, <1>3, <1>4 DEF Place

\* the cuts c and d of g are cuts of f, i tokens on, with the same piece
SameCuts(f, g, i, c, d) ==
    /\ c \in Cuts(g, Comma) <=> c + i \in Cuts(f, Comma)
    /\ c \in Cuts(g, Comma) /\ d \in Cuts(g, Comma) /\ c < d =>
         SubSeq(g, c + 1, d - 1) = SubSeq(f, (c + i) + 1, (d + i) - 1)

\* The pieces of what follows a comma are the pieces of the field after it.
LEMMA PiecesOfRest ==
    ASSUME NEW T, NEW f \in Seq(T), NEW i \in DOMAIN f, f[i] = Comma,
           NEW g, g = SubSeq(f, i + 1, Len(f)), NEW c \in Nat, NEW d \in Nat
    PROVE  SameCuts(f, g, i, c, d)
<1>1. Len(f) \in Nat /\ DOMAIN f = 1 .. Len(f)
  BY LenProperties
<1>2. PICK n \in Nat : n = Len(f)
  BY <1>1
<1>3. i \in 1 .. n /\ i \in Nat
  BY <1>1, <1>2
<1>4. i + 1 \in 1 .. Len(f) + 1 /\ Len(f) \in 0 .. Len(f)
  BY <1>2, <1>3
<1>5. /\ SubSeq(f, i + 1, Len(f)) \in Seq(T)
      /\ Len(SubSeq(f, i + 1, Len(f))) = IF i + 1 <= Len(f) THEN Len(f) - (i + 1) + 1 ELSE 0
      /\ \A j \in 1 .. Len(f) - (i + 1) + 1 :
            SubSeq(f, i + 1, Len(f))[j] = f[(i + 1) + j - 1]
  BY <1>4, Stretch DEF StretchOf
<1>6. PICK m \in Nat : m = n - i
  BY <1>3
<1>7. g \in Seq(T) /\ Len(g) = m /\ DOMAIN g = 1 .. m
  <2>1. g \in Seq(T) /\ Len(g) = m
    BY <1>2, <1>3, <1>5, <1>6
  <2> QED
    BY <2>1, LenProperties
<1>8. \A j \in 1 .. m : g[j] = f[j + i]
  <2> TAKE j \in 1 .. m
  <2>1. j \in 1 .. Len(f) - (i + 1) + 1 /\ (i + 1) + j - 1 = j + i
    BY <1>2, <1>3, <1>6
  <2> QED
    BY <1>5, <2>1
<1>9. \A e \in Nat : Place(n, m, i, e)
  BY <1>3, <1>6, ShiftedPlaces
<1>10. \A e \in Nat : e \in Cuts(g, Comma) <=> e + i \in Cuts(f, Comma)
  <2> TAKE e \in Nat
  <2>1. e \in Cuts(g, Comma) <=> e = 0 \/ e = m + 1 \/ (e \in 1 .. m /\ g[e] = Comma)
    BY <1>7 DEF Cuts
  <2>2. e + i \in Cuts(f, Comma) <=>
          e + i = 0 \/ e + i = n + 1 \/ (e + i \in 1 .. n /\ f[e + i] = Comma)
    BY <1>1, <1>2 DEF Cuts
  <2>3. /\ e + i # 0
        /\ e + i = n + 1 <=> e = m + 1
        /\ e + i \in 1 .. n <=> e = 0 \/ e \in 1 .. m
    BY <1>9 DEF Place
  <2>4. e = 0 => f[e + i] = Comma
    BY <1>3
  <2>5. e \in 1 .. m => g[e] = f[e + i]
    BY <1>8
  <2> QED
    BY <2>1, <2>2, <2>3, <2>4, <2>5
<1>11. ASSUME c \in Cuts(g, Comma), d \in Cuts(g, Comma), c < d
       PROVE  SubSeq(g, c + 1, d - 1) = SubSeq(f, (c + i) + 1, (d + i) - 1)
  <2>1. d <= m + 1
    BY <1>7, <1>11 DEF Cuts
  <2>2. 1 <= i /\ i <= n /\ i \in Nat
    BY <1>3
  <2>3. PICK k \in Nat : k = d - 1 - c
    BY <1>11
  <2>4. Bounds(n, m, i, c, d, k)
    BY <1>6, <2>1, <2>2, <2>3, ShiftedBounds
  <2>5. PICK a \in Seq(T) : /\ a = SubSeq(g, c + 1, d - 1)
                            /\ Len(a) = k
                            /\ \A j \in 1 .. k : a[j] = g[(c + 1) + j - 1]
    <3>1. c + 1 \in 1 .. Len(g) + 1 /\ d - 1 \in 0 .. Len(g)
      BY <1>7, <2>4 DEF Bounds
    <3>2. /\ SubSeq(g, c + 1, d - 1) \in Seq(T)
          /\ Len(SubSeq(g, c + 1, d - 1)) =
                IF c + 1 <= d - 1 THEN (d - 1) - (c + 1) + 1 ELSE 0
          /\ \A j \in 1 .. (d - 1) - (c + 1) + 1 :
                SubSeq(g, c + 1, d - 1)[j] = g[(c + 1) + j - 1]
      <4>1. StretchOf(T, g, c + 1, d - 1)
        BY <1>7, <3>1, Stretch
      <4> QED
        BY <4>1 DEF StretchOf
    <3> QED
      BY <2>4, <3>2 DEF Bounds
  <2>6. PICK b \in Seq(T) : /\ b = SubSeq(f, (c + i) + 1, (d + i) - 1)
                            /\ Len(b) = k
                            /\ \A j \in 1 .. k : b[j] = f[((c + i) + 1) + j - 1]
    <3>1. (c + i) + 1 \in 1 .. Len(f) + 1 /\ (d + i) - 1 \in 0 .. Len(f)
      BY <1>2, <2>4 DEF Bounds
    <3>2. /\ SubSeq(f, (c + i) + 1, (d + i) - 1) \in Seq(T)
          /\ Len(SubSeq(f, (c + i) + 1, (d + i) - 1)) =
                IF (c + i) + 1 <= (d + i) - 1
                THEN ((d + i) - 1) - ((c + i) + 1) + 1 ELSE 0
          /\ \A j \in 1 .. ((d + i) - 1) - ((c + i) + 1) + 1 :
                SubSeq(f, (c + i) + 1, (d + i) - 1)[j] = f[((c + i) + 1) + j - 1]
      BY <3>1, Stretch DEF StretchOf
    <3> QED
      BY <2>4, <3>2 DEF Bounds
  <2>7. \A j \in 1 .. k : a[j] = b[j]
    BY <1>8, <2>4, <2>5, <2>6 DEF Bounds
  <2>8. a = b
    BY <2>5, <2>6, <2>7, SeqEqual
  <2> QED
    BY <2>5, <2>6, <2>8
<1> QED
  BY <1>10, <1>11 DEF SameCuts

\* A field with a comma is accepted when its first item is, and the rest of it.
LEMMA FirstItem ==
    ASSUME NEW T, NEW f \in Seq(T), NEW spec, NEW i \in DOMAIN f, f[i] = Comma,
           \A j \in 1 .. i - 1 : f[j] # Comma
    PROVE  ValidateField(f, spec) <=>
             /\ ValidateItem(SubSeq(f, 1, i - 1), spec)
             /\ ValidateField(SubSeq(f, i + 1, Len(f)), spec)
<1> DEFINE g == SubSeq(f, i + 1, Len(f))
           C == Cuts(f, Comma)
           D == Cuts(g, Comma)
           Piece(h, c, d) == SubSeq(h, c + 1, d - 1)
<1>1. Len(f) \in Nat /\ i \in 1 .. Len(f)
  BY LenProperties
<1>2. i + 1 \in 1 .. Len(f) + 1 /\ Len(f) \in 0 .. Len(f)
  BY <1>1
<1>3. g \in Seq(T)
  BY <1>2, Stretch DEF StretchOf
<1>4. PICK p \in Nat : p = i /\ p > 0
  BY <1>1
<1>5. C \in SUBSET Nat /\ D \in SUBSET Nat
  <2>1. \A h \in Seq(T) : Cuts(h, Comma) \in SUBSET Nat
    <3> TAKE h \in Seq(T)
    <3>1. Cuts(h, Comma) \in SUBSET (0 .. Len(h) + 1) /\ Len(h) \in Nat
      BY CutsOfField
    <3>2. 0 .. Len(h) + 1 \in SUBSET Nat
      BY <3>1
    <3> QED
      BY <3>1, <3>2
  <2> QED
    BY <1>3, <2>1
<1>6. 0 \in C /\ p \in C /\ \A e \in C : e = 0 \/ e >= p
  <2>1. \A e : e \in C <=> e = 0 \/ e = Len(f) + 1 \/ (e \in 1 .. Len(f) /\ f[e] = Comma)
    BY LenProperties DEF Cuts
  <2>2. ASSUME NEW e \in C, e # 0
        PROVE  e >= i
    <3>1. e \in Nat /\ i \in Nat
      BY <1>1, <1>5
    <3>2. CASE e = Len(f) + 1
      BY <1>1, <3>2
    <3>3. CASE e \in 1 .. Len(f) /\ f[e] = Comma
      <4>1. ~(e \in 1 .. i - 1)
        BY <3>3
      <4> QED
        BY <3>1, <3>3, <4>1
    <3> QED
      BY <2>1, <2>2, <3>2, <3>3
  <2> QED
    BY <1>1, <1>4, <2>1, <2>2
<1>7. \A c, d \in Nat : /\ c \in D <=> c + p \in C
                        /\ c \in D /\ d \in D /\ c < d =>
                             Piece(g, c, d) = Piece(f, c + p, d + p)
  <2> TAKE c, d \in Nat
  <2> HIDE DEF g
  <2>1. g = SubSeq(f, i + 1, Len(f))
    BY DEF g
  <2>2. SameCuts(f, g, i, c, d)
    BY <2>1, PiecesOfRest
  <2> QED
    BY <1>4, <2>2 DEF SameCuts
<1>8. ValidateField(f, spec) <=>
        \A c, d \in C : Neighbours(C, c, d) => ValidateItem(Piece(f, c, d), spec)
  BY FieldByPieces
<1>9. ValidateField(g, spec) <=>
        \A c, d \in D : Neighbours(D, c, d) => ValidateItem(Piece(g, c, d), spec)
  BY <1>3, FieldByPieces
<1>10. Piece(f, 0, p) = SubSeq(f, 1, i - 1)
  <2>1. 0 + 1 = 1
    OBVIOUS
  <2> QED
    BY <1>4, <2>1
<1> HIDE DEF g, C, D, Piece
<1>11. Neighbours(C, 0, p)
  BY <1>4, <1>6 DEF Neighbours
<1>12. ASSUME NEW c \in D, NEW d \in D
       PROVE  Neighbours(D, c, d) <=> Neighbours(C, c + p, d + p)
  <2>1. c \in Nat /\ d \in Nat /\ c + p \in C /\ d + p \in C
    BY <1>5, <1>7
  <2>2. c < d <=> c + p < d + p
    BY <2>1
  <2>3. ASSUME \A e \in D : e <= c \/ d <= e, NEW e \in C
        PROVE  e <= c + p \/ d + p <= e
    <3>1. CASE e = 0
      BY <2>1, <3>1
    <3>2. CASE e >= p
      <4>1. PICK x \in Nat : x + p = e
        <5>1. e \in Nat /\ e - p \in Nat /\ (e - p) + p = e
          BY <1>5, <3>2
        <5> QED
          BY <5>1
      <4>2. x \in D
        BY <1>7, <4>1
      <4>3. x <= c \/ d <= x
        BY <2>3, <4>2
      <4> QED
        BY <2>1, <4>1, <4>3
    <3> QED
      BY <1>6, <3>1, <3>2
  <2>4. ASSUME \A e \in C : e <= c + p \/ d + p <= e, NEW e \in D
        PROVE  e <= c \/ d <= e
    <3>1. e \in Nat /\ e + p \in C
      BY <1>5, <1>7
    <3>2. e + p <= c + p \/ d + p <= e + p
      BY <2>4, <3>1
    <3> QED
      BY <2>1, <3>1, <3>2
  <2> QED
    BY <2>1, <2>2, <2>3, <2>4 DEF Neighbours
<1>13. ASSUME NEW c \in C, NEW d \in C, Neighbours(C, c, d)
       PROVE  \/ c = 0 /\ d = p
              \/ \E a, b \in D : c = a + p /\ d = b + p
  <2>1. c \in Nat /\ d \in Nat /\ c < d /\ (p <= c \/ d <= p)
    BY <1>5, <1>6, <1>13 DEF Neighbours
  <2>2. CASE c = 0
    <3>1. d # 0 /\ d <= p
      BY <1>4, <2>1, <2>2
    <3> QED
      BY <1>6, <2>1, <2>2, <3>1
  <2>3. CASE c >= p
    <3>1. PICK a \in Nat, b \in Nat : c = a + p /\ d = b + p
      <4>1. c - p \in Nat /\ d - p \in Nat /\ c = (c - p) + p /\ d = (d - p) + p
        BY <2>1, <2>3
      <4> QED
        BY <4>1
    <3>2. a \in D /\ b \in D
      BY <1>7, <3>1
    <3> QED
      BY <3>1, <3>2
  <2> QED
    BY <1>6, <2>2, <2>3
<1>14. ASSUME ValidateField(f, spec)
       PROVE  ValidateItem(Piece(f, 0, p), spec) /\ ValidateField(g, spec)
  <2>1. ValidateItem(Piece(f, 0, p), spec)
    BY <1>6, <1>8, <1>11, <1>14
  <2>2. ASSUME NEW c \in D, NEW d \in D, Neighbours(D, c, d)
        PROVE  ValidateItem(Piece(g, c, d), spec)
    <3>1. Neighbours(C, c + p, d + p)
      BY <1>12, <2>2
    <3>2. c \in Nat /\ d \in Nat /\ c + p \in C /\ d + p \in C /\ c < d
      BY <1>5, <1>7, <2>2 DEF Neighbours
    <3>3. Piece(g, c, d) = Piece(f, c + p, d + p)
      BY <1>7, <3>2
    <3> QED
      BY <1>8, <1>14, <3>1, <3>2, <3>3
  <2> QED
    BY <1>9, <2>1, <2>2
<1>15. ASSUME ValidateItem(Piece(f, 0, p), spec), ValidateField(g, spec)
       PROVE  ValidateField(f, spec)
  <2>1. ASSUME NEW c \in C, NEW d \in C, Neighbours(C, c, d)
        PROVE  ValidateItem(Piece(f, c, d), spec)
    <3>1. CASE c = 0 /\ d = p
      BY <1>15, <3>1
    <3>2. CASE \E a, b \in D : c = a + p /\ d = b + p
      <4>1. PICK a \in D, b \in D : c = a + p /\ d = b + p
        BY <3>2
      <4>2. Neighbours(D, a, b)
        BY <1>12, <2>1, <4>1
      <4>3. a \in Nat /\ b \in Nat /\ a < b
        BY <1>5, <4>2 DEF Neighbours
      <4>4. Piece(g, a, b) = Piece(f, c, d)
        BY <1>7, <4>1, <4>3
      <4> QED
        BY <1>9, <1>15, <4>2, <4>4
    <3> QED
      BY <1>13, <2>1, <3>1, <3>2
  <2> QED
    BY <1>8, <2>1
<1> QED
  BY <1>10, <1>14, <1>15 DEF g

\* A field is what is before one of its tokens, the token, and what is after it.
LEMMA CutAt ==
    ASSUME NEW T, NEW f \in Seq(T), NEW i \in DOMAIN f
    PROVE  /\ SubSeq(f, 1, i - 1) \in Seq(T) /\ SubSeq(f, i + 1, Len(f)) \in Seq(T)
           /\ f = SubSeq(f, 1, i - 1) \o <<f[i]>> \o SubSeq(f, i + 1, Len(f))
           /\ \A j \in DOMAIN SubSeq(f, 1, i - 1) :
                 j \in 1 .. i - 1 /\ SubSeq(f, 1, i - 1)[j] = f[j]
<1>1. Len(f) \in Nat /\ i \in 1 .. Len(f) /\ i \in Nat
  BY LenProperties
<1>2. 1 \in 1 .. Len(f) + 1 /\ i - 1 \in 0 .. Len(f)
      /\ i + 1 \in 1 .. Len(f) + 1 /\ Len(f) \in 0 .. Len(f)
      /\ i \in 1 .. Len(f) + 1 /\ i \in 0 .. Len(f)
  BY <1>1
<1>3. /\ SubSeq(f, 1, i - 1) \in Seq(T) /\ SubSeq(f, i, i) \in Seq(T)
      /\ SubSeq(f, i + 1, Len(f)) \in Seq(T)
  BY <1>2, Stretch DEF StretchOf
<1>4. SubSeq(f, 1, i - 1) \o SubSeq(f, i, i) = SubSeq(f, 1, i)
  <2>1. i - 1 \in 1 - 1 .. Len(f) /\ i \in i - 1 .. Len(f)
    BY <1>1
  <2>2. SubSeq(f, 1, i - 1) \o SubSeq(f, (i - 1) + 1, i) = SubSeq(f, 1, i)
    BY <1>2, <2>1, ConcatAdjacentSubSeq
  <2>3. (i - 1) + 1 = i
    BY <1>1
  <2> QED
    BY <2>2, <2>3
<1>5. SubSeq(f, 1, i) \o SubSeq(f, i + 1, Len(f)) = SubSeq(f, 1, Len(f))
  <2>1. i \in 1 - 1 .. Len(f) /\ Len(f) \in i .. Len(f)
    BY <1>1
  <2> QED
    BY <1>2, <2>1, ConcatAdjacentSubSeq
<1>6. SubSeq(f, 1, Len(f)) = f
  OBVIOUS
<1>7. SubSeq(f, i, i) = <<f[i]>>
  <2>1. PICK t \in Seq(T) : t = SubSeq(f, i, i)
    BY <1>3
  <2>2. /\ Len(SubSeq(f, i, i)) = IF i <= i THEN i - i + 1 ELSE 0
        /\ \A j \in 1 .. i - i + 1 : SubSeq(f, i, i)[j] = f[i + j - 1]
    BY <1>2, Stretch DEF StretchOf
  <2>3. i <= i /\ i - i + 1 = 1 /\ 1 \in 1 .. 1 /\ i + 1 - 1 = i
    BY <1>1
  <2>4. Len(t) = 1 /\ t[1] = f[i]
    BY <2>1, <2>2, <2>3
  <2>5. t = <<t[1]>>
    BY <2>4, OneToken
  <2> QED
    BY <2>1, <2>4, <2>5
<1>8. f = SubSeq(f, 1, i - 1) \o <<f[i]>> \o SubSeq(f, i + 1, Len(f))
  BY <1>4, <1>5, <1>6, <1>7
<1>9. ASSUME NEW j \in DOMAIN SubSeq(f, 1, i - 1)
      PROVE  j \in 1 .. i - 1 /\ SubSeq(f, 1, i - 1)[j] = f[j]
  <2>1. /\ Len(SubSeq(f, 1, i - 1)) = IF 1 <= i - 1 THEN (i - 1) - 1 + 1 ELSE 0
        /\ \A k \in 1 .. (i - 1) - 1 + 1 : SubSeq(f, 1, i - 1)[k] = f[1 + k - 1]
    BY <1>2, Stretch DEF StretchOf
  <2>2. DOMAIN SubSeq(f, 1, i - 1) = 1 .. Len(SubSeq(f, 1, i - 1))
    BY <1>3, LenProperties
  <2>3. Len(SubSeq(f, 1, i - 1)) = i - 1 /\ (i - 1) - 1 + 1 = i - 1
    BY <1>1, <2>1
  <2>4. j \in 1 .. i - 1
    BY <2>2, <2>3
  <2>5. 1 + j - 1 = j
    BY <2>4
  <2> QED
    BY <2>1, <2>3, <2>4, <2>5
<1> QED
  BY <1>3, <1>8, <1>9

\* Two fields joined by a token are found again before and after it.
LEMMA Joined ==
    ASSUME NEW T, NEW a \in Seq(T), NEW g \in Seq(T), NEW s \in T,
           NEW f, f = a \o <<s>> \o g
    PROVE  /\ f \in Seq(T) /\ Len(f) = Len(a) + 1 + Len(g)
           /\ Len(a) \in Nat /\ Len(a) + 1 \in DOMAIN f /\ f[Len(a) + 1] = s
           /\ \A j \in 1 .. Len(a) : f[j] = a[j]
           /\ SubSeq(f, 1, (Len(a) + 1) - 1) = a
           /\ SubSeq(f, (Len(a) + 1) + 1, Len(f)) = g
<1>1. PICK n \in Nat, m \in Nat : n = Len(a) /\ m = Len(g)
  BY LenProperties
<1>2. <<s>> \in Seq(T) /\ Len(<<s>>) = 1 /\ <<s>>[1] = s
  OBVIOUS
<1>3. /\ a \o <<s>> \in Seq(T) /\ Len(a \o <<s>>) = n + 1
      /\ \A j \in 1 .. n + 1 : (a \o <<s>>)[j] = IF j <= n THEN a[j] ELSE <<s>>[j - n]
  BY <1>1, <1>2, ConcatProperties
<1>4. /\ f \in Seq(T) /\ Len(f) = (n + 1) + m
      /\ \A j \in 1 .. (n + 1) + m : f[j] =
            IF j <= n + 1 THEN (a \o <<s>>)[j] ELSE g[j - (n + 1)]
  BY <1>1, <1>3, ConcatProperties
<1>5. DOMAIN f = 1 .. (n + 1) + m
  BY <1>4, LenProperties
<1>6. n + 1 \in DOMAIN f /\ f[n + 1] = s
  <2>1. n + 1 \in 1 .. (n + 1) + m /\ n + 1 \in 1 .. n + 1 /\ ~(n + 1 <= n)
        /\ n + 1 - n = 1 /\ n + 1 <= n + 1
    OBVIOUS
  <2> QED
    BY <1>2, <1>3, <1>4, <1>5, <2>1
<1>7. \A j \in 1 .. n : f[j] = a[j]
  <2> TAKE j \in 1 .. n
  <2>1. j \in 1 .. n + 1 /\ j \in 1 .. (n + 1) + m /\ j <= n /\ j <= n + 1
    OBVIOUS
  <2> QED
    BY <1>3, <1>4, <2>1
<1>8. \A j \in 1 .. m : f[(n + 1) + j] = g[j]
  <2> TAKE j \in 1 .. m
  <2>1. PICK k \in Nat : k = (n + 1) + j
    OBVIOUS
  <2>2. k \in 1 .. (n + 1) + m /\ ~(k <= n + 1) /\ k - (n + 1) = j
    BY <2>1
  <2>3. f[k] = g[k - (n + 1)]
    BY <1>4, <2>2
  <2> QED
    BY <2>1, <2>2, <2>3
<1>9. SubSeq(f, 1, n) = a
  <2>1. 1 \in 1 .. Len(f) + 1 /\ n \in 0 .. Len(f)
    BY <1>4
  <2>2. /\ SubSeq(f, 1, n) \in Seq(T)
        /\ Len(SubSeq(f, 1, n)) = IF 1 <= n THEN n - 1 + 1 ELSE 0
        /\ \A j \in 1 .. n - 1 + 1 : SubSeq(f, 1, n)[j] = f[1 + j - 1]
    BY <1>4, <2>1, Stretch DEF StretchOf
  <2>3. PICK b \in Seq(T) : b = SubSeq(f, 1, n)
    BY <2>2
  <2>4. (IF 1 <= n THEN n - 1 + 1 ELSE 0) = n /\ n - 1 + 1 = n
    OBVIOUS
  <2>5. Len(b) = n /\ \A j \in 1 .. n : b[j] = f[1 + j - 1]
    BY <2>2, <2>3, <2>4
  <2>6. \A j \in 1 .. n : 1 + j - 1 = j
    OBVIOUS
  <2>7. b = a
    BY <1>1, <1>7, <2>5, <2>6, SeqEqual
  <2> QED
    BY <2>3, <2>7
<1>10. SubSeq(f, (n + 1) + 1, (n + 1) + m) = g
  <2>1. (n + 1) + 1 \in 1 .. Len(f) + 1 /\ (n + 1) + m \in 0 .. Len(f)
    BY <1>4
  <2>2. /\ SubSeq(f, (n + 1) + 1, (n + 1) + m) \in Seq(T)
        /\ Len(SubSeq(f, (n + 1) + 1, (n + 1) + m)) =
              IF (n + 1) + 1 <= (n + 1) + m THEN ((n + 1) + m) - ((n + 1) + 1) + 1 ELSE 0
        /\ \A j \in 1 .. ((n + 1) + m) - ((n + 1) + 1) + 1 :
              SubSeq(f, (n + 1) + 1, (n + 1) + m)[j] = f[((n + 1) + 1) + j - 1]
    <3>1. StretchOf(T, f, (n + 1) + 1, (n + 1) + m)
      BY <1>4, <2>1, Stretch
    <3> QED
      BY <3>1 DEF StretchOf
  <2>9. PICK b \in Seq(T) : b = SubSeq(f, (n + 1) + 1, (n + 1) + m)
    BY <2>2
  <2>3. /\ (IF (n + 1) + 1 <= (n + 1) + m
           THEN ((n + 1) + m) - ((n + 1) + 1) + 1 ELSE 0) = m
        /\ ((n + 1) + m) - ((n + 1) + 1) + 1 = m
        /\ \A j \in 1 .. m : ((n + 1) + 1) + j - 1 = (n + 1) + j
    OBVIOUS
  <2>4. Len(b) = m /\ \A j \in 1 .. m : b[j] = f[(n + 1) + j]
    BY <2>2, <2>9, <2>3
  <2>5. b = g
    BY <1>1, <1>8, <2>4, SeqEqual
  <2> QED
    BY <2>9, <2>5
<1>11. (n + 1) - 1 = n
  OBVIOUS
<1> QED
  BY <1>1, <1>4, <1>6, <1>7, <1>9, <1>10, <1>11

\* An item is one token or three, none of them a comma.
LEMMA ItemsAreTexts ==
    ASSUME NEW words \in SUBSET Words, NEW spec \in AnySpec, NEW item \in Items(spec, words)
    PROVE  /\ item \in Seq(Tokens(words))
           /\ \A j \in DOMAIN item : item[j] # Comma
           /\ \/ Len(item) = 3
              \/ \E v \in {Star, Question} \cup Values(spec, words) : item = <<v>>
<1> DEFINE T == Tokens(words)
           Singles == {Star, Question} \cup Values(spec, words)
<1>1. \A v \in Values(spec, words) : v \in T /\ v # Comma
  BY TokensAre DEF Values, Tokens
<1>2. Star \in T /\ Question \in T /\ Dash \in T /\ Slash \in T
  BY DEF Tokens
<1>3. \A v \in Singles : v \in T /\ v # Comma
  BY <1>1, <1>2, SeparatorsDiffer
<1>4. \A w \in words : w \in T /\ w # Comma
  BY TokensAre DEF Tokens
<1>5. CASE \E v \in Singles : item = <<v>>
  <2>1. PICK v \in Singles : item = <<v>>
    BY <1>5
  <2>2. item \in Seq(T) /\ DOMAIN item = {1} /\ item[1] = v
    BY <1>3, <2>1
  <2> QED
    BY <1>3, <1>5, <2>2
<1>6. CASE \E u, s, v \in T : u # Comma /\ s # Comma /\ v # Comma /\ item = <<u, s, v>>
  <2>1. PICK u \in T, s \in T, v \in T :
           u # Comma /\ s # Comma /\ v # Comma /\ item = <<u, s, v>>
    BY <1>6
  <2> HIDE DEF T
  <2>2. /\ item \in Seq(T) /\ Len(item) = 3 /\ DOMAIN item = 1 .. 3
        /\ item[1] = u /\ item[2] = s /\ item[3] = v
    BY <2>1
  <2>3. \A j \in 1 .. 3 : j = 1 \/ j = 2 \/ j = 3
    OBVIOUS
  <2>4. \A j \in DOMAIN item : item[j] # Comma
    BY <2>1, <2>2, <2>3
  <2> QED
    BY <2>2, <2>4 DEF T
<1>7. CASE item \in Ranges(spec, words)
  <2>1. PICK v \in Values(spec, words) \X Values(spec, words) : item = <<v[1], Dash, v[2]>>
    BY <1>7 DEF Ranges
  <2> QED
    BY <1>1, <1>2, <1>6, <2>1, SeparatorsDiffer
<1>8. CASE item \in Steps(spec, words)
  <2>1. PICK start \in {Star} \cup Values(spec, words), step \in words :
           item = <<start, Slash, step>>
    BY <1>8 DEF Steps, StepLengths
  <2> QED
    BY <1>1, <1>2, <1>4, <1>6, <2>1, SeparatorsDiffer
<1> QED
  BY <1>5, <1>7, <1>8 DEF Items

(***************************************************************************)
(* The validator accepts an item, and an item followed by a comma and a    *)
(* field it accepts, and nothing else: for any bounds and names of the     *)
(* field, any set of words, and fields of any length.  It cuts at every    *)
(* comma before it looks at anything else, and an item at its first dash   *)
(* or slash, so the proof shows that the cuts find the items again         *)
(* (ValidateField, validator.go).                                          *)
(***************************************************************************)
THEOREM ListsAccepted ==
    ASSUME NEW words \in SUBSET Words, NEW spec \in AnySpec,
           NEW field \in Seq(Tokens(words))
    PROVE  ValidateField(field, spec) <=>
             \/ field \in Items(spec, words)
             \/ \E item \in Items(spec, words), rest \in Seq(Tokens(words)) :
                   field = Listed(item, rest) /\ ValidateField(rest, spec)
<1> DEFINE T == Tokens(words)
           Found(item, rest) == /\ item \in Items(spec, words) /\ rest \in Seq(T)
                                /\ field = Listed(item, rest)
                                /\ ValidateField(rest, spec)
<1>1. Comma \in T
  BY DEF Tokens
<1>2. ASSUME field \in Items(spec, words)
      PROVE  ValidateField(field, spec)
  <2>1. \A j \in DOMAIN field : field[j] # Comma
    BY <1>2, ItemsAreTexts
  <2>2. ValidateItem(field, spec)
    BY <1>2, ItemsAccepted
  <2> QED
    BY <2>1, <2>2, SingleItem
<1>3. ASSUME NEW item, NEW rest, Found(item, rest)
      PROVE  ValidateField(field, spec)
  <2>1. item \in Seq(T) /\ \A j \in DOMAIN item : item[j] # Comma
    BY <1>3, ItemsAreTexts
  <2>2. ValidateItem(item, spec)
    BY <1>3, <2>1, ItemsAccepted
  <2>3. /\ Len(item) \in Nat
        /\ Len(item) + 1 \in DOMAIN field /\ field[Len(item) + 1] = Comma
        /\ \A j \in 1 .. Len(item) : field[j] = item[j]
        /\ SubSeq(field, 1, (Len(item) + 1) - 1) = item
        /\ SubSeq(field, (Len(item) + 1) + 1, Len(field)) = rest
    BY <1>1, <1>3, <2>1, Joined DEF Listed
  <2>4. PICK i \in DOMAIN field : i = Len(item) + 1
    BY <2>3
  <2>5. 1 .. i - 1 = DOMAIN item
    BY <2>1, <2>3, <2>4, LenProperties
  <2>6. \A j \in 1 .. i - 1 : field[j] # Comma
    BY <2>1, <2>3, <2>5, LenProperties
  <2>7. /\ field[i] = Comma /\ ValidateItem(SubSeq(field, 1, i - 1), spec)
        /\ ValidateField(SubSeq(field, i + 1, Len(field)), spec)
    BY <1>3, <2>2, <2>3, <2>4
  <2> QED
    BY <2>6, <2>7, FirstItem
<1>4. ASSUME ValidateField(field, spec)
      PROVE  field \in Items(spec, words) \/ \E item, rest : Found(item, rest)
  <2>1. CASE \A j \in DOMAIN field : field[j] # Comma
    BY <1>4, <2>1, SingleItem, ItemsAccepted
  <2>2. CASE \E j \in DOMAIN field : field[j] = Comma
    <3> DEFINE Commas == {j \in DOMAIN field : field[j] = Comma}
    <3>1. DOMAIN field = 1 .. Len(field) /\ Len(field) \in Nat
      BY LenProperties
    <3>2. Commas \in SUBSET Nat /\ Commas # {}
      BY <2>2, <3>1
    <3>3. PICK i \in Commas : \A j \in Commas : i <= j
      <4> HIDE DEF Commas
      <4> QED
        BY <3>2, LeastNatural
    <3>4. i \in DOMAIN field /\ field[i] = Comma
      OBVIOUS
    <3>5. \A j \in 1 .. i - 1 : field[j] # Comma
      <4> SUFFICES ASSUME NEW j \in 1 .. i - 1, field[j] = Comma
                   PROVE  FALSE
        OBVIOUS
      <4>1. j \in DOMAIN field /\ ~(i <= j)
        BY <3>1, <3>4
      <4> QED
        BY <3>3, <4>1
    <3> DEFINE item == SubSeq(field, 1, i - 1)
               rest == SubSeq(field, i + 1, Len(field))
    <3>6. ValidateItem(item, spec) /\ ValidateField(rest, spec)
      BY <1>4, <3>4, <3>5, FirstItem
    <3>7. /\ item \in Seq(T) /\ rest \in Seq(T)
          /\ field = item \o <<field[i]>> \o rest
      BY <3>4, CutAt
    <3>8. item \in Items(spec, words)
      BY <3>6, <3>7, ItemsAccepted
    <3>9. Found(item, rest)
      BY <3>4, <3>6, <3>7, <3>8 DEF Listed
    <3> QED
      BY <3>9
  <2> QED
    BY <2>1, <2>2
<1> QED
  BY <1>2, <1>3, <1>4

-----------------------------------------------------------------------------
(* The fields the run asks about.                                          *)

\* The kinds of field, and the words tried on them, are such as above.
LEMMA FieldsOfTheCode ==
    ASSUME NEW k \in DOMAIN FieldSpecs
    PROVE  k \in 1 .. 6 /\ FieldSpecs[k] \in AnySpec /\ WordsFor(FieldSpecs[k]) \in SUBSET Words
<1>1. k \in 1 .. 6
  BY DEF FieldSpecs
<1>2. FieldSpecs[k] \in AnySpec
  <2>1. k = 1 \/ k = 2 \/ k = 3 \/ k = 4 \/ k = 5 \/ k = 6
    BY <1>1
  <2> QED
    BY <2>1 DEF FieldSpecs, AnySpec
<1>3. ASSUME NEW spec \in AnySpec
      PROVE  WordsFor(spec) \in SUBSET Words
  <2>1. spec.min \in Int /\ spec.max \in Int /\ spec.names \in Int
    BY DEF AnySpec
  <2>2. {0, spec.min, spec.max, spec.max + 1} \in SUBSET Int
        /\ {-1, 0, spec.names - 1} \in SUBSET Int
    BY <2>1
  <2> QED
    BY <2>2 DEF WordsFor, Words
<1> QED
  BY <1>1, <1>2, <1>3

\* Nothing empty is accepted.
LEMMA AcceptedNotEmpty ==
    ASSUME NEW words \in SUBSET Words, NEW spec \in AnySpec,
           NEW field \in Seq(Tokens(words)), ValidateField(field, spec)
    PROVE  /\ Len(field) \in Nat /\ Len(field) >= 1
           /\ Len(field) = 1 =>
                \E v \in {Star, Question} \cup Values(spec, words) : field = <<v>>
<1>1. CASE field \in Items(spec, words)
  <2>1. \/ Len(field) = 3
        \/ \E v \in {Star, Question} \cup Values(spec, words) : field = <<v>>
    BY <1>1, ItemsAreTexts
  <2>2. CASE Len(field) = 3
    BY <2>2
  <2>3. CASE \E v \in {Star, Question} \cup Values(spec, words) : field = <<v>>
    <3>1. Len(field) = 1
      BY <2>3
    <3> QED
      BY <2>3, <3>1
  <2> QED
    BY <2>1, <2>2, <2>3
<1>2. CASE \E item \in Items(spec, words), rest \in Seq(Tokens(words)) :
              field = Listed(item, rest)
  <2>1. PICK item \in Items(spec, words), rest \in Seq(Tokens(words)) :
            field = Listed(item, rest)
    BY <1>2
  <2>2. item \in Seq(Tokens(words)) /\ Comma \in Tokens(words)
    BY ItemsAreTexts DEF Tokens
  <2>3. Len(field) = Len(item) + 1 + Len(rest)
    BY <2>1, <2>2, Joined DEF Listed
  <2>4. Len(item) \in Nat /\ Len(item) >= 1 /\ Len(rest) \in Nat
    <3>1. Len(item) = 3 \/ \E v : item = <<v>>
      BY ItemsAreTexts
    <3>2. Len(item) >= 1
      BY <3>1
    <3> QED
      BY <2>2, <3>2, LenProperties
  <2>5. PICK n \in Nat, m \in Nat : n = Len(item) /\ m = Len(rest) /\ n >= 1
    BY <2>4
  <2>6. Len(field) = n + 1 + m
    BY <2>3, <2>5
  <2>7. n + 1 + m \in Nat /\ n + 1 + m >= 2
    BY <2>5
  <2> QED
    BY <2>6, <2>7
<1> QED
  BY <1>1, <1>2, ListsAccepted

\* Items of one token.
LEMMA SinglesAreItems ==
    ASSUME NEW words, NEW spec, NEW v \in {Star, Question} \cup Values(spec, words)
    PROVE  <<v>> \in Items(spec, words)
BY DEF Items

\* Up to five tokens, the lists are those of up to three items.
LEMMA ListsOfThree ==
    ASSUME NEW spec \in AnySpec, WordsFor(spec) \in SUBSET Words,
           NEW field \in Seq(Tokens(WordsFor(spec))), Len(field) <= 5
    PROVE  ValidateField(field, spec) <=> field \in Lists(spec)
<1> DEFINE W == WordsFor(spec)
           T == Tokens(W)
           I == Items(spec, W)
           S == {Star, Question} \cup Values(spec, W)
<1>1. Comma \in T
  BY DEF Tokens
<1>2. I \in SUBSET Seq(T)
  BY ItemsAreTexts
<1>3. \A f \in Seq(T) : ValidateField(f, spec) <=>
        f \in I \/ \E a \in I, g \in Seq(T) : f = Listed(a, g) /\ ValidateField(g, spec)
  BY ListsAccepted
<1>4. \A v \in S : <<v>> \in I
  BY SinglesAreItems
<1>5. \A f \in Seq(T) : ValidateField(f, spec) =>
        Len(f) \in Nat /\ Len(f) >= 1 /\ (Len(f) = 1 => \E v \in S : f = <<v>>)
  BY AcceptedNotEmpty
<1>6. \A a, g \in Seq(T) : /\ Listed(a, g) \in Seq(T)
                           /\ Len(Listed(a, g)) = Len(a) + 1 + Len(g)
  BY <1>1, Joined DEF Listed
<1>7. field \in Lists(spec) <=>
        \/ field \in I
        \/ \E a, b \in I : field = Listed(a, b)
        \/ \E a, b, c \in S : field = Listed(<<a>>, Listed(<<b>>, <<c>>))
  BY DEF Lists
<1> HIDE DEF W, T, I, S
<1>9. \A a \in I : a \in Seq(T) /\ ValidateField(a, spec)
  BY <1>2, <1>3
<1>10. ASSUME NEW a \in I, NEW g \in Seq(T), ValidateField(g, spec)
       PROVE  ValidateField(Listed(a, g), spec)
  <2>1. Listed(a, g) \in Seq(T)
    BY <1>6, <1>9
  <2> QED
    BY <1>3, <1>10, <2>1
<1>11. ASSUME field \in Lists(spec)
       PROVE  ValidateField(field, spec)
  <2>1. CASE \E a, b, c \in S : field = Listed(<<a>>, Listed(<<b>>, <<c>>))
    <3>1. PICK a \in S, b \in S, c \in S : field = Listed(<<a>>, Listed(<<b>>, <<c>>))
      BY <2>1
    <3>2. <<a>> \in I /\ <<b>> \in I /\ <<c>> \in I
      BY <1>4
    <3>3. /\ Listed(<<b>>, <<c>>) \in Seq(T)
          /\ ValidateField(Listed(<<b>>, <<c>>), spec)
      BY <1>6, <1>9, <1>10, <3>2
    <3> QED
      BY <1>10, <3>1, <3>2, <3>3
  <2> QED
    BY <1>7, <1>9, <1>10, <1>11, <2>1
<1>12. ASSUME ValidateField(field, spec)
       PROVE  field \in Lists(spec)
  <2>0. field \in Seq(T)
    BY DEF T, W
  <2>1. SUFFICES ASSUME NEW a \in I, NEW g \in Seq(T), field = Listed(a, g),
                        ValidateField(g, spec), g \notin I
                 PROVE  field \in Lists(spec)
    BY <1>3, <1>7, <1>12, <2>0
  <2>2. PICK b \in I, h \in Seq(T) : g = Listed(b, h) /\ ValidateField(h, spec)
    BY <1>3, <2>1
  <2>3. /\ a \in Seq(T) /\ ValidateField(a, spec)
        /\ b \in Seq(T) /\ ValidateField(b, spec)
    BY <1>9
  <2>4. PICK n \in Nat, m \in Nat, l \in Nat :
           /\ n = Len(a) /\ m = Len(b) /\ l = Len(h)
           /\ n >= 1 /\ m >= 1 /\ l >= 1
    BY <1>5, <2>2, <2>3
  <2>5. Len(g) = m + 1 + l /\ Len(field) = n + 1 + Len(g)
    BY <1>6, <2>1, <2>2, <2>3, <2>4
  <2>6. n + 1 + (m + 1 + l) <= 5
    BY <2>5
  <2>7. n = 1 /\ m = 1 /\ l = 1
    BY <2>4, <2>6
  <2>8. PICK x \in S, y \in S, z \in S : a = <<x>> /\ b = <<y>> /\ h = <<z>>
    <3>1. /\ \E v \in S : a = <<v>>
          /\ \E v \in S : b = <<v>>
          /\ \E v \in S : h = <<v>>
      BY <1>5, <2>2, <2>3, <2>4, <2>7
    <3> QED
      BY <3>1
  <2>9. field = Listed(<<x>>, Listed(<<y>>, <<z>>))
    BY <2>1, <2>2, <2>8
  <2> QED
    BY <1>7, <2>9
<1> QED
  BY <1>11, <1>12

\* A field the run tries is a text of its tokens, no longer than it says.
LEMMA FieldsTried ==
    ASSUME NEW spec, NEW n \in Nat, NEW f \in Fields(spec, n)
    PROVE  f \in Seq(Tokens(WordsFor(spec))) /\ Len(f) \in Nat /\ Len(f) <= n
<1> DEFINE T == Tokens(WordsFor(spec))
<1>1. PICK m \in 0 .. n : f \in [1 .. m -> T]
  BY DEF Fields, BoundedSeq, SeqOf
<1> HIDE DEF T
<1>2. m \in Nat /\ m <= n
  OBVIOUS
<1>3. f \in Seq(T) /\ Len(f) = m
  BY <1>1, <1>2, SequenceOfLength
<1> QED
  BY <1>2, <1>3 DEF T

\* A single field decides over an expression that is "*" everywhere else.
LEMMA OneFieldDecides ==
    ASSUME NEW k \in DOMAIN FieldSpecs, NEW f \in Fields(FieldSpecs[k], 1)
    PROVE  ValidateCronExpression([i \in 1 .. 6 |-> IF i = k THEN f ELSE <<Star>>]) <=>
             ValidateField(f, FieldSpecs[k])
<1> DEFINE expression == [i \in 1 .. 6 |-> IF i = k THEN f ELSE <<Star>>]
<1>1. \A i \in 1 .. 6 : ValidateField(<<Star>>, FieldSpecs[i])
  <2> TAKE i \in 1 .. 6
  <2>1. i \in DOMAIN FieldSpecs
    BY DEF FieldSpecs
  <2>2. FieldSpecs[i] \in AnySpec /\ {} \in SUBSET Words
    BY <2>1, FieldsOfTheCode
  <2>3. Star \in Tokens({}) /\ Star \in {Star, Question} \cup Values(FieldSpecs[i], {})
    BY DEF Tokens
  <2>4. <<Star>> \in Items(FieldSpecs[i], {})
    BY <2>3, SinglesAreItems
  <2>5. <<Star>> \in Seq(Tokens({}))
    BY <2>3
  <2> QED
    BY <2>2, <2>4, <2>5, ListsAccepted
<1>2. k \in 1 .. 6
  BY FieldsOfTheCode
<1>3. expression \in [1 .. 6 -> {f, <<Star>>}]
  OBVIOUS
<1>4. Len(expression) = 6
  <2> HIDE DEF expression
  <2>1. 6 \in Nat
    OBVIOUS
  <2> QED
    BY <1>3, <2>1, SequenceOfLength
<1>5. \A i \in 1 .. 6 : expression[i] = IF i = k THEN f ELSE <<Star>>
  OBVIOUS
<1> HIDE DEF expression
<1>6. ValidateCronExpression(expression) <=>
        \A i \in 1 .. 6 : ValidateField(expression[i], FieldSpecs[i])
  BY <1>4 DEF ValidateCronExpression
<1>7. ValidateCronExpression(expression) <=> ValidateField(f, FieldSpecs[k])
  BY <1>1, <1>2, <1>5, <1>6
<1> QED
  BY <1>7 DEF expression

(***************************************************************************)
(* In every reachable state the validator accepts, of the fields and the   *)
(* expressions tried, a range with a step apart, exactly those of its      *)
(* grammar (ValidateField, ValidateCronExpression, validator.go).          *)
(***************************************************************************)
THEOREM ValidatorCorrect == Spec => []ValidatorFollowsGrammar
<1>1. ASSUME NEW k \in DOMAIN FieldSpecs, NEW n \in 0 .. 5, NEW f \in Fields(FieldSpecs[k], n)
      PROVE  ValidateField(f, FieldSpecs[k]) <=> f \in Lists(FieldSpecs[k])
  <2>1. FieldSpecs[k] \in AnySpec /\ WordsFor(FieldSpecs[k]) \in SUBSET Words
    BY FieldsOfTheCode
  <2>2. n \in Nat /\ n <= 5
    OBVIOUS
  <2>3. f \in Seq(Tokens(WordsFor(FieldSpecs[k]))) /\ Len(f) \in Nat /\ Len(f) <= n
    BY <2>2, FieldsTried
  <2>4. Len(f) <= 5
    BY <2>2, <2>3
  <2> QED
    BY <2>1, <2>3, <2>4, ListsOfThree
<1>2. ASSUME NEW k \in DOMAIN FieldSpecs, NEW f \in Fields(FieldSpecs[k], 1)
      PROVE  ValidateCronExpression([i \in 1 .. 6 |-> IF i = k THEN f ELSE <<Star>>]) <=>
               f \in Lists(FieldSpecs[k])
  <2>1. 1 \in 0 .. 5
    OBVIOUS
  <2>2. ValidateField(f, FieldSpecs[k]) <=> f \in Lists(FieldSpecs[k])
    BY <1>1, <2>1
  <2> QED
    BY <2>2, OneFieldDecides
<1>3. ASSUME NEW n \in {5, 7}
      PROVE  ~ValidateCronExpression([i \in 1 .. n |-> <<Star>>])
  <2> DEFINE expression == [i \in 1 .. n |-> <<Star>>]
  <2>1. n \in Nat /\ n # 6 /\ expression \in [1 .. n -> {<<Star>>}]
    OBVIOUS
  <2> HIDE DEF expression
  <2>2. Len(expression) = n
    BY <2>1, SequenceOfLength
  <2>3. ~ValidateCronExpression(expression)
    BY <2>1, <2>2 DEF ValidateCronExpression
  <2> QED
    BY <2>3 DEF expression
<1>4. ValidatorFollowsGrammar
  <2>1. \A k : (IF k = 5 THEN 5 ELSE 4) \in 0 .. 5
    OBVIOUS
  <2> QED
    BY <1>1, <1>2, <1>3, <2>1 DEF ValidatorFollowsGrammar
<1> QED
  BY <1>4, PTL

=============================================================================
