--------------------------- MODULE CountingLemmas ---------------------------
(***************************************************************************)
(* Lemmas about numbers and counting that the proofs about the components  *)
(* share: least elements, lengths, places in a queue, subsets of a finite  *)
(* set.                                                                    *)
(***************************************************************************)
EXTENDS Integers, Sequences, FiniteSets, FiniteSetTheorems, FunctionTheorems,
        SequenceTheorems, WellFoundedInduction, TLAPS

\* A set of naturals with a member has a least one.
LEMMA LeastNatural ==
    ASSUME NEW S \in SUBSET Nat, S # {}
    PROVE  \E x \in S : \A y \in S : x <= y
<1>1. PICK x \in S : \A y \in S : ~(<<y, x>> \in OpToRel(<, Nat))
  BY NatLessThanWellFounded, WFMin
<1>2. \A y \in S : x <= y
  <2> TAKE y \in S
  <2>1. ~(<<y, x>> \in OpToRel(<, Nat))
    BY <1>1
  <2>2. ~(y < x)
    BY <2>1 DEF OpToRel
  <2> QED
    BY <2>2
<1> QED
  BY <1>2

\* A function on 1 .. m is a sequence of length m.
LEMMA SequenceOfLength ==
    ASSUME NEW D, NEW m \in Nat, NEW s \in [1 .. m -> D]
    PROVE  s \in Seq(D) /\ Len(s) = m
<1>1. s \in Seq(D)
  BY IsASeq
<1>2. 1 .. Len(s) = 1 .. m /\ Len(s) \in Nat
  BY <1>1, LenProperties
<1> QED
  BY <1>1, <1>2

\* where a sequence holds x
Places(q, x) == {k \in DOMAIN q : q[k] = x}

\* The places in a sequence are finitely many.
LEMMA PlacesFinite ==
    ASSUME NEW S, NEW q \in Seq(S), NEW x
    PROVE  IsFiniteSet(Places(q, x)) /\ Cardinality(Places(q, x)) \in Nat
<1>1. DOMAIN q = 1 .. Len(q) /\ Len(q) \in Nat
  BY LenProperties
<1>2. IsFiniteSet(1 .. Len(q))
  BY <1>1, FS_Interval
<1>3. IsFiniteSet(Places(q, x))
  BY <1>1, <1>2, FS_Subset DEF Places
<1> QED
  BY <1>3, FS_CardinalityType

\* A send on the channel adds a place.
LEMMA PlacesAppend ==
    ASSUME NEW S, NEW q \in Seq(S), NEW y \in S, NEW x
    PROVE  Cardinality(Places(Append(q, y), x)) =
              Cardinality(Places(q, x)) + IF y = x THEN 1 ELSE 0
<1>1. /\ DOMAIN q = 1 .. Len(q) /\ Len(q) \in Nat
      /\ DOMAIN Append(q, y) = 1 .. Len(q) + 1
      /\ \A k \in 1 .. Len(q) : Append(q, y)[k] = q[k]
      /\ Append(q, y)[Len(q) + 1] = y
  BY LenProperties, AppendProperties
<1>2. IsFiniteSet(Places(q, x)) /\ Cardinality(Places(q, x)) \in Nat
  BY PlacesFinite
<1>3. CASE y = x
  <2>1. Places(Append(q, y), x) = Places(q, x) \cup {Len(q) + 1}
    BY <1>1, <1>3 DEF Places
  <2>2. Len(q) + 1 \notin Places(q, x)
    BY <1>1 DEF Places
  <2> QED
    BY <1>2, <1>3, <2>1, <2>2, FS_AddElement
<1>4. CASE y # x
  <2>1. Places(Append(q, y), x) = Places(q, x)
    BY <1>1, <1>4 DEF Places
  <2> QED
    BY <1>2, <1>4, <2>1
<1> QED
  BY <1>3, <1>4

\* A receive takes one away.
LEMMA PlacesTail ==
    ASSUME NEW S, NEW q \in Seq(S), q # <<>>, NEW x
    PROVE  Cardinality(Places(q, x)) =
              Cardinality(Places(Tail(q), x)) + IF Head(q) = x THEN 1 ELSE 0
<1>1. /\ DOMAIN q = 1 .. Len(q) /\ Len(q) \in Nat \ {0}
      /\ Tail(q) \in Seq(S) /\ DOMAIN Tail(q) = 1 .. Len(q) - 1
      /\ \A k \in 1 .. Len(q) - 1 : Tail(q)[k] = q[k + 1]
      /\ Head(q) = q[1]
  BY LenProperties, HeadTailProperties, EmptySeq
<1>a. PICK T, R : T = Places(Tail(q), x) /\ R = Places(q, x) \ {1}
  OBVIOUS
<1>b. PICK shift : shift = [k \in T |-> k + 1]
  OBVIOUS
<1>2. IsFiniteSet(T) /\ Cardinality(T) \in Nat
  BY <1>1, <1>a, PlacesFinite
<1>3. T \subseteq 1 .. Len(q) - 1 /\ R \subseteq 2 .. Len(q)
  BY <1>1, <1>a DEF Places
<1>4. \A k \in T : k + 1 \in R
  BY <1>1, <1>a DEF Places
<1>5. \A r \in R : r - 1 \in T
  BY <1>1, <1>a DEF Places
<1>6. shift \in [T -> R]
  BY <1>4, <1>b
<1>7. shift \in Bijection(T, R)
  <2>1. \A j, k \in T : shift[j] = shift[k] => j = k
    BY <1>3, <1>b
  <2>2. \A r \in R : \E k \in T : shift[k] = r
    <3> TAKE r \in R
    <3>1. r - 1 \in T /\ shift[r - 1] = r
      BY <1>3, <1>5, <1>b
    <3> QED
      BY <3>1
  <2> QED
    BY <1>6, <2>1, <2>2, Fun_IsBij
<1>8. IsFiniteSet(R) /\ Cardinality(R) = Cardinality(T)
  BY <1>2, <1>7, FS_Bijection DEF ExistsBijection
<1>9. CASE Head(q) = x
  <2>1. Places(q, x) = R \cup {1} /\ 1 \notin R
    BY <1>1, <1>9, <1>a DEF Places
  <2>2. Cardinality(Places(q, x)) = Cardinality(T) + 1
    BY <1>2, <1>8, <2>1, FS_AddElement
  <2> QED
    BY <1>9, <1>a, <2>2
<1>10. CASE Head(q) # x
  <2>1. Places(q, x) = R
    BY <1>1, <1>10, <1>a DEF Places
  <2>2. Cardinality(Places(q, x)) = Cardinality(T) + 0
    BY <1>2, <1>8, <2>1
  <2> QED
    BY <1>10, <1>a, <2>2
<1> QED
  BY <1>9, <1>10

\* When one member of a finite set may change sides, so may the count by one.
LEMMA OneMoves ==
    ASSUME NEW S, IsFiniteSet(S), NEW A \in SUBSET S, NEW B \in SUBSET S, NEW w \in S,
           \A v \in S : v # w => (v \in A <=> v \in B)
    PROVE  /\ Cardinality(A) \in Nat /\ Cardinality(B) \in Nat
           /\ Cardinality(B) + (IF w \in A THEN 1 ELSE 0) =
                 Cardinality(A) + (IF w \in B THEN 1 ELSE 0)
<1>1. IsFiniteSet(A) /\ IsFiniteSet(B)
  BY FS_Subset
<1>2. Cardinality(A) \in Nat /\ Cardinality(B) \in Nat
  BY <1>1, FS_CardinalityType
<1>3. CASE w \in A /\ w \notin B
  <2>1. B = A \ {w}
    BY <1>3
  <2> QED
    BY <1>1, <1>2, <1>3, <2>1, FS_RemoveElement
<1>4. CASE w \notin A /\ w \in B
  <2>1. B = A \cup {w}
    BY <1>4
  <2> QED
    BY <1>1, <1>2, <1>4, <2>1, FS_AddElement
<1>5. CASE w \in A <=> w \in B
  <2>1. A = B
    BY <1>5
  <2> QED
    BY <1>2, <1>5, <2>1
<1> QED
  BY <1>3, <1>4, <1>5

=============================================================================
