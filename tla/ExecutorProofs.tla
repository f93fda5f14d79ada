---------------------------- MODULE ExecutorProofs ----------------------------
(***************************************************************************)
(* The books of both executors balance: each submission is in one place,   *)
(* and the counters follow the records, for any finite pool of workers,    *)
(* any number of goroutines that record, any queue size, any jobs and any  *)
(* moment of the shutdown.                                                 *)
(***************************************************************************)
EXTENDS JobServiceProofs

-----------------------------------------------------------------------------
(* The workers, counted.                                                   *)

InHand == {"request", "record"}

\* in f, the workers that have job id in hand, those about to record an outcome ok,
\* and those about to count one
Busy(f, id) == {w \in Workers : f[w].id = id /\ f[w].at \in InHand}
Way(f, ok) == {w \in Workers : f[w].at = "record" /\ f[w].success = ok}
Counting(f, ok) == {w \in Workers : f[w].at = "count" /\ f[w].success = ok}

\* what a worker in state c adds to the three counts
Hand(c, id) == IF c.id = id /\ c.at \in InHand THEN 1 ELSE 0
AtRecord(c, ok) == IF c.at = "record" /\ c.success = ok THEN 1 ELSE 0
AtCount(c, ok) == IF c.at = "count" /\ c.success = ok THEN 1 ELSE 0

\* One worker goes on from f[w] to b: those with job id in hand.
LEMMA BusyCounts ==
    ASSUME IsFiniteSet(Workers), NEW f, NEW w \in Workers, NEW b, NEW g,
           g[w] = b, \A v \in Workers : v # w => g[v] = f[v], NEW id
    PROVE  /\ Cardinality(Busy(f, id)) \in Nat
           /\ Cardinality(Busy(g, id)) \in Nat
           /\ Cardinality(Busy(g, id)) + Hand(f[w], id) = Cardinality(Busy(f, id)) + Hand(b, id)
<1>1. PICK A, B : A = Busy(f, id) /\ B = Busy(g, id)
  OBVIOUS
<1>2. /\ A \in SUBSET Workers /\ B \in SUBSET Workers
      /\ \A v \in Workers : v # w => (v \in A <=> v \in B)
      /\ w \in A <=> f[w].id = id /\ f[w].at \in InHand
      /\ w \in B <=> b.id = id /\ b.at \in InHand
  BY <1>1 DEF Busy
<1>3. /\ Cardinality(A) \in Nat /\ Cardinality(B) \in Nat
      /\ Cardinality(B) + (IF w \in A THEN 1 ELSE 0) =
            Cardinality(A) + (IF w \in B THEN 1 ELSE 0)
  BY <1>2, OneMoves
<1>4. /\ Hand(f[w], id) = IF w \in A THEN 1 ELSE 0
      /\ Hand(b, id) = IF w \in B THEN 1 ELSE 0
  BY <1>2 DEF Hand
<1> QED
  BY <1>1, <1>3, <1>4

\* The same for those about to record.
LEMMA WayCounts ==
    ASSUME IsFiniteSet(Workers), NEW f, NEW w \in Workers, NEW b, NEW g,
           g[w] = b, \A v \in Workers : v # w => g[v] = f[v], NEW ok
    PROVE  /\ Cardinality(Way(f, ok)) \in Nat
           /\ Cardinality(Way(g, ok)) \in Nat
           /\ Cardinality(Way(g, ok)) + AtRecord(f[w], ok) =
                 Cardinality(Way(f, ok)) + AtRecord(b, ok)
<1>1. PICK A, B : A = Way(f, ok) /\ B = Way(g, ok)
  OBVIOUS
<1>2. /\ A \in SUBSET Workers /\ B \in SUBSET Workers
      /\ \A v \in Workers : v # w => (v \in A <=> v \in B)
      /\ w \in A <=> f[w].at = "record" /\ f[w].success = ok
      /\ w \in B <=> b.at = "record" /\ b.success = ok
  BY <1>1 DEF Way
<1>3. /\ Cardinality(A) \in Nat /\ Cardinality(B) \in Nat
      /\ Cardinality(B) + (IF w \in A THEN 1 ELSE 0) =
            Cardinality(A) + (IF w \in B THEN 1 ELSE 0)
  BY <1>2, OneMoves
<1>4. /\ AtRecord(f[w], ok) = IF w \in A THEN 1 ELSE 0
      /\ AtRecord(b, ok) = IF w \in B THEN 1 ELSE 0
  BY <1>2 DEF AtRecord
<1> QED
  BY <1>1, <1>3, <1>4

\* And for those about to count.
LEMMA CountingCounts ==
    ASSUME IsFiniteSet(Workers), NEW f, NEW w \in Workers, NEW b, NEW g,
           g[w] = b, \A v \in Workers : v # w => g[v] = f[v], NEW ok
    PROVE  /\ Cardinality(Counting(f, ok)) \in Nat
           /\ Cardinality(Counting(g, ok)) \in Nat
           /\ Cardinality(Counting(g, ok)) + AtCount(f[w], ok) =
                 Cardinality(Counting(f, ok)) + AtCount(b, ok)
<1>1. PICK A, B : A = Counting(f, ok) /\ B = Counting(g, ok)
  OBVIOUS
<1>2. /\ A \in SUBSET Workers /\ B \in SUBSET Workers
      /\ \A v \in Workers : v # w => (v \in A <=> v \in B)
      /\ w \in A <=> f[w].at = "count" /\ f[w].success = ok
      /\ w \in B <=> b.at = "count" /\ b.success = ok
  BY <1>1 DEF Counting
<1>3. /\ Cardinality(A) \in Nat /\ Cardinality(B) \in Nat
      /\ Cardinality(B) + (IF w \in A THEN 1 ELSE 0) =
            Cardinality(A) + (IF w \in B THEN 1 ELSE 0)
  BY <1>2, OneMoves
<1>4. /\ AtCount(f[w], ok) = IF w \in A THEN 1 ELSE 0
      /\ AtCount(b, ok) = IF w \in B THEN 1 ELSE 0
  BY <1>2 DEF AtCount
<1> QED
  BY <1>1, <1>3, <1>4

-----------------------------------------------------------------------------
(* The goroutines that record, counted.                                    *)

Waits == {"start", "record"}

\* in the bag b, the goroutines that have yet to record an execution of job id,
\* and those that have yet to record an outcome ok
Owed(b, id) == {g \in Goroutines(b) : g[1].at \in Waits /\ g[1].id = id}
OwedAs(b, ok) == {g \in Goroutines(b) : g[1].at \in Waits /\ g[1].success = ok}

\* what a goroutine with the locals r adds to the two counts
Debt(r, id) == IF r.at \in Waits /\ r.id = id THEN 1 ELSE 0
DebtAs(r, ok) == IF r.at \in Waits /\ r.success = ok THEN 1 ELSE 0

BagOK(b) == IsABag(b) /\ IsFiniteSet(Goroutines(b))

\* Finitely many goroutines are counted in natural numbers.
LEMMA DebtsAreNat ==
    ASSUME NEW b, BagOK(b)
    PROVE  /\ \A id : Cardinality(Owed(b, id)) \in Nat
           /\ \A ok : Cardinality(OwedAs(b, ok)) \in Nat
<1>1. \A A : A \in SUBSET Goroutines(b) => Cardinality(A) \in Nat
  BY FS_Subset, FS_CardinalityType DEF BagOK
<1>2. /\ \A id : Owed(b, id) \in SUBSET Goroutines(b)
      /\ \A ok : OwedAs(b, ok) \in SUBSET Goroutines(b)
  BY DEF Owed, OwedAs
<1> QED
  BY <1>1, <1>2

\* the bag c has all that b has yet to record, and what r has
OwesMore(c, b, r) ==
    /\ \A id : Cardinality(Owed(c, id)) = Cardinality(Owed(b, id)) + Debt(r, id)
    /\ \A ok : Cardinality(OwedAs(c, ok)) = Cardinality(OwedAs(b, ok)) + DebtAs(r, ok)

\* One goroutine more, with locals r, counts for what it has yet to record.
LEMMA OneMore ==
    ASSUME NEW b, BagOK(b), NEW c, IsABag(c), NEW r, NEW n,
           <<r, n>> \notin Goroutines(b), Goroutines(c) = Goroutines(b) \cup {<<r, n>>}
    PROVE  BagOK(c) /\ OwesMore(c, b, r)
<1>1. PICK x : x = <<r, n>>
  OBVIOUS
<1>2. IsFiniteSet(Goroutines(c)) /\ x[1] = r
  BY <1>1, FS_AddElement DEF BagOK
<1>3. ASSUME NEW id
      PROVE  Cardinality(Owed(c, id)) = Cardinality(Owed(b, id)) + Debt(r, id)
  <2>1. PICK A, B : A = Owed(b, id) /\ B = Owed(c, id)
    OBVIOUS
  <2>2. /\ A \in SUBSET Goroutines(c) /\ B \in SUBSET Goroutines(c) /\ x \in Goroutines(c)
        /\ \A v \in Goroutines(c) : v # x => (v \in A <=> v \in B)
        /\ x \notin A
        /\ x \in B <=> r.at \in Waits /\ r.id = id
    BY <1>1, <1>2, <2>1 DEF Owed
  <2>3. /\ Cardinality(A) \in Nat /\ Cardinality(B) \in Nat
        /\ Cardinality(B) + (IF x \in A THEN 1 ELSE 0) =
              Cardinality(A) + (IF x \in B THEN 1 ELSE 0)
    BY <1>2, <2>2, OneMoves
  <2> QED
    BY <2>1, <2>2, <2>3 DEF Debt
<1>4. ASSUME NEW ok
      PROVE  Cardinality(OwedAs(c, ok)) = Cardinality(OwedAs(b, ok)) + DebtAs(r, ok)
  <2>1. PICK A, B : A = OwedAs(b, ok) /\ B = OwedAs(c, ok)
    OBVIOUS
  <2>2. /\ A \in SUBSET Goroutines(c) /\ B \in SUBSET Goroutines(c) /\ x \in Goroutines(c)
        /\ \A v \in Goroutines(c) : v # x => (v \in A <=> v \in B)
        /\ x \notin A
        /\ x \in B <=> r.at \in Waits /\ r.success = ok
    BY <1>1, <1>2, <2>1 DEF OwedAs
  <2>3. /\ Cardinality(A) \in Nat /\ Cardinality(B) \in Nat
        /\ Cardinality(B) + (IF x \in A THEN 1 ELSE 0) =
              Cardinality(A) + (IF x \in B THEN 1 ELSE 0)
    BY <1>2, <2>2, OneMoves
  <2> QED
    BY <2>1, <2>2, <2>3 DEF DebtAs
<1> QED
  BY <1>2, <1>3, <1>4 DEF BagOK, OwesMore

\* go adds a goroutine to the bag.
LEMMA BagJoins ==
    ASSUME NEW b, BagOK(b), NEW r, NEW c, c = b (+) SetToBag({r})
    PROVE  BagOK(c) /\ DOMAIN c \subseteq DOMAIN b \cup {r} /\ OwesMore(c, b, r)
<1>1. PICK n : n = IF r \in DOMAIN b THEN b[r] + 1 ELSE 1
  OBVIOUS
<1>2. \A q \in DOMAIN b : b[q] \in Nat \ {0}
  BY DEF BagOK, IsABag
<1>3. /\ DOMAIN c = DOMAIN b \cup {r} /\ c[r] = n
      /\ \A q \in DOMAIN b : q # r => c[q] = b[q]
      /\ c = [q \in DOMAIN b \cup {r} |-> c[q]]
  BY <1>1, <1>2 DEF (+), SetToBag
<1>4. n \in Nat \ {0}
  BY <1>1, <1>2
<1>5. IsABag(c)
  BY <1>2, <1>3, <1>4 DEF IsABag
<1>6. <<r, n>> \notin Goroutines(b)
  BY <1>1, <1>2 DEF Goroutines
<1>7. Goroutines(c) = Goroutines(b) \cup {<<r, n>>}
  <2>1. \A q \in DOMAIN c : q # r => q \in DOMAIN b /\ c[q] = b[q]
    BY <1>3
  <2>2. \A k : k \in 1 .. n <=> (r \in DOMAIN b /\ k \in 1 .. b[r]) \/ k = n
    BY <1>1, <1>2
  <2>3. \A g : g \in Goroutines(c) <=>
               \E q \in DOMAIN c : \E k \in 1 .. c[q] : g = <<q, k>>
    BY DEF Goroutines
  <2>4. \A g : g \in Goroutines(b) <=>
               \E q \in DOMAIN b : \E k \in 1 .. b[q] : g = <<q, k>>
    BY DEF Goroutines
  <2>5. ASSUME NEW g \in Goroutines(c) PROVE g \in Goroutines(b) \cup {<<r, n>>}
    <3>1. PICK q, k : q \in DOMAIN c /\ k \in 1 .. c[q] /\ g = <<q, k>>
      BY <2>3
    <3> QED
      BY <3>1, <2>1, <2>2, <2>4, <1>3
  <2>6. ASSUME NEW g \in Goroutines(b) PROVE g \in Goroutines(c)
    <3>1. PICK q, k : q \in DOMAIN b /\ k \in 1 .. b[q] /\ g = <<q, k>>
      BY <2>4
    <3> QED
      BY <3>1, <2>2, <2>3, <1>3
  <2>7. <<r, n>> \in Goroutines(c)
    <3>1. r \in DOMAIN c /\ n \in 1 .. c[r]
      BY <1>3, <1>4
    <3> QED
      BY <2>3, <3>1
  <2> QED
    BY <2>5, <2>6, <2>7
<1> QED
  BY <1>3, <1>5, <1>6, <1>7, OneMore

\* A goroutine that ends leaves the bag.
LEMMA BagLeaves ==
    ASSUME NEW b, BagOK(b), NEW r \in DOMAIN b, NEW c, c = b (-) SetToBag({r})
    PROVE  BagOK(c) /\ DOMAIN c \subseteq DOMAIN b /\ OwesMore(b, c, r)
<1>1. PICK n : n = b[r]
  OBVIOUS
<1>2. (\A q \in DOMAIN b : b[q] \in Nat \ {0}) /\ n \in Nat \ {0}
  BY <1>1 DEF BagOK, IsABag
<1>3. PICK d : d = [q \in DOMAIN b |-> IF q = r THEN n - 1 ELSE b[q]]
  OBVIOUS
<1>4. c = [q \in {p \in DOMAIN d : d[p] > 0} |-> d[q]]
  BY <1>1, <1>3 DEF (-), SetToBag
<1>5. /\ DOMAIN c \subseteq DOMAIN b
      /\ \A q \in DOMAIN b : q # r => q \in DOMAIN c /\ c[q] = b[q]
      /\ r \in DOMAIN c <=> n > 1
      /\ r \in DOMAIN c => c[r] = n - 1
  BY <1>2, <1>3, <1>4
<1>6. IsABag(c)
  <2>1. \A q \in DOMAIN c : c[q] \in {m \in Nat : m > 0}
    BY <1>2, <1>5
  <2>2. c = [q \in DOMAIN c |-> c[q]]
    BY <1>4
  <2> QED
    BY <2>1, <2>2 DEF IsABag
<1>7. \A g : g \in Goroutines(c) <=> \E q \in DOMAIN c : \E k \in 1 .. c[q] : g = <<q, k>>
  BY DEF Goroutines
<1>8. \A g : g \in Goroutines(b) <=> \E q \in DOMAIN b : \E k \in 1 .. b[q] : g = <<q, k>>
  BY DEF Goroutines
<1>9. <<r, n>> \notin Goroutines(c)
  <2>1. ASSUME NEW q, NEW k, q \in DOMAIN c, k \in 1 .. c[q], <<r, n>> = <<q, k>>
        PROVE  FALSE
    <3>1. q = r /\ k = n
      BY <2>1
    <3>2. c[r] = n - 1 /\ n \in 1 .. c[r]
      BY <1>5, <2>1, <3>1
    <3> QED
      BY <1>2, <3>2
  <2> QED
    BY <1>7, <2>1
<1>10. Goroutines(b) = Goroutines(c) \cup {<<r, n>>}
  <2>1. ASSUME NEW g \in Goroutines(b) PROVE g \in Goroutines(c) \cup {<<r, n>>}
    <3>1. PICK q, k : q \in DOMAIN b /\ k \in 1 .. b[q] /\ g = <<q, k>>
      BY <1>8
    <3>2. CASE q # r
      BY <3>1, <3>2, <1>5, <1>7
    <3>3. CASE q = r /\ k # n
      <4>1. k \in 1 .. n /\ k # n
        BY <3>1, <3>3, <1>1
      <4>2. k \in 1 .. n - 1 /\ n > 1
        BY <1>2, <4>1
      <4> QED
        BY <3>1, <3>3, <4>2, <1>5, <1>7
    <3> QED
      BY <3>1, <3>2, <3>3
  <2>2. ASSUME NEW g \in Goroutines(c) PROVE g \in Goroutines(b)
    <3>1. PICK q, k : q \in DOMAIN c /\ k \in 1 .. c[q] /\ g = <<q, k>>
      BY <1>7
    <3>2. q \in DOMAIN b /\ k \in 1 .. b[q]
      <4>1. CASE q # r
        BY <3>1, <4>1, <1>5
      <4>2. CASE q = r
        <5>1. k \in 1 .. n - 1
          BY <3>1, <4>2, <1>5
        <5>2. k \in 1 .. n
          BY <1>2, <5>1
        <5> QED
          BY <3>1, <4>2, <5>2, <1>1, <1>5
      <4> QED
        BY <4>1, <4>2
    <3> QED
      BY <3>1, <3>2, <1>8
  <2>3. <<r, n>> \in Goroutines(b)
    BY <1>1, <1>2, <1>8
  <2> QED
    BY <2>1, <2>2, <2>3
<1>11. BagOK(c)
  <2>1. Goroutines(c) \in SUBSET Goroutines(b)
    BY <1>10
  <2> QED
    BY <1>6, <2>1, FS_Subset DEF BagOK
<1>12. IsABag(b)
  BY DEF BagOK
<1> QED
  BY <1>5, <1>9, <1>10, <1>11, <1>12, OneMore

\* A goroutine r that goes on as s.
LEMMA BecomesCounts ==
    ASSUME BagOK(recorders), NEW r \in DOMAIN recorders, NEW s, Becomes(r, {s})
    PROVE  /\ BagOK(recorders') /\ DOMAIN recorders' \subseteq DOMAIN recorders \cup {s}
           /\ \A id : Cardinality(Owed(recorders', id)) + Debt(r, id) =
                         Cardinality(Owed(recorders, id)) + Debt(s, id)
           /\ \A ok : Cardinality(OwedAs(recorders', ok)) + DebtAs(r, ok) =
                         Cardinality(OwedAs(recorders, ok)) + DebtAs(s, ok)
<1>1. PICK a, b, c : /\ a = recorders /\ b = a (-) SetToBag({r})
                     /\ c = b (+) SetToBag({s}) /\ c = recorders'
  BY DEF Becomes
<1>a. BagOK(a) /\ r \in DOMAIN a
  BY <1>1
<1>2. /\ BagOK(b) /\ DOMAIN b \subseteq DOMAIN a
      /\ \A id : Cardinality(Owed(a, id)) = Cardinality(Owed(b, id)) + Debt(r, id)
      /\ \A ok : Cardinality(OwedAs(a, ok)) = Cardinality(OwedAs(b, ok)) + DebtAs(r, ok)
  <2>1. BagOK(b) /\ DOMAIN b \subseteq DOMAIN a /\ OwesMore(a, b, r)
    BY <1>1, <1>a, BagLeaves
  <2> QED
    BY <2>1 DEF OwesMore
<1>b. BagOK(b) /\ c = b (+) SetToBag({s})
  BY <1>1, <1>2
<1>3. /\ BagOK(c) /\ DOMAIN c \subseteq DOMAIN b \cup {s}
      /\ \A id : Cardinality(Owed(c, id)) = Cardinality(Owed(b, id)) + Debt(s, id)
      /\ \A ok : Cardinality(OwedAs(c, ok)) = Cardinality(OwedAs(b, ok)) + DebtAs(s, ok)
  <2>1. BagOK(c) /\ DOMAIN c \subseteq DOMAIN b \cup {s} /\ OwesMore(c, b, s)
    BY <1>b, BagJoins
  <2> QED
    BY <2>1 DEF OwesMore
<1>4. ASSUME NEW id
      PROVE  Cardinality(Owed(c, id)) + Debt(r, id) = Cardinality(Owed(a, id)) + Debt(s, id)
  <2>1. PICK n, d, e : n = Cardinality(Owed(b, id)) /\ d = Debt(r, id) /\ e = Debt(s, id)
    OBVIOUS
  <2>2. n \in Nat /\ d \in Nat /\ e \in Nat
    BY <1>2, <2>1, DebtsAreNat DEF Debt
  <2>3. Cardinality(Owed(a, id)) = n + d /\ Cardinality(Owed(c, id)) = n + e
    BY <1>2, <1>3, <2>1
  <2> QED
    BY <2>1, <2>2, <2>3
<1>5. ASSUME NEW ok
      PROVE  Cardinality(OwedAs(c, ok)) + DebtAs(r, ok) =
                Cardinality(OwedAs(a, ok)) + DebtAs(s, ok)
  <2>1. PICK n, d, e : n = Cardinality(OwedAs(b, ok)) /\ d = DebtAs(r, ok) /\ e = DebtAs(s, ok)
    OBVIOUS
  <2>2. n \in Nat /\ d \in Nat /\ e \in Nat
    BY <1>2, <2>1, DebtsAreNat DEF DebtAs
  <2>3. Cardinality(OwedAs(a, ok)) = n + d /\ Cardinality(OwedAs(c, ok)) = n + e
    BY <1>2, <1>3, <2>1
  <2> QED
    BY <2>1, <2>2, <2>3
<1> QED
  BY <1>1, <1>2, <1>3, <1>4, <1>5

\* A goroutine that has recorded ends.
LEMMA EndsCounts ==
    ASSUME BagOK(recorders), NEW r \in DOMAIN recorders, Becomes(r, {}), r.at \notin Waits
    PROVE  /\ BagOK(recorders') /\ DOMAIN recorders' \subseteq DOMAIN recorders
           /\ \A id : Cardinality(Owed(recorders', id)) = Cardinality(Owed(recorders, id))
           /\ \A ok : Cardinality(OwedAs(recorders', ok)) = Cardinality(OwedAs(recorders, ok))
<1>1. PICK a, b : a = recorders /\ b = a (-) SetToBag({r})
  OBVIOUS
<1>a. BagOK(a) /\ r \in DOMAIN a
  BY <1>1
<1>2. /\ BagOK(b) /\ DOMAIN b \subseteq DOMAIN a
      /\ \A id : Cardinality(Owed(a, id)) = Cardinality(Owed(b, id)) + Debt(r, id)
      /\ \A ok : Cardinality(OwedAs(a, ok)) = Cardinality(OwedAs(b, ok)) + DebtAs(r, ok)
  <2>1. BagOK(b) /\ DOMAIN b \subseteq DOMAIN a /\ OwesMore(a, b, r)
    BY <1>1, <1>a, BagLeaves
  <2> QED
    BY <2>1 DEF OwesMore
<1>3. b = recorders'
  <2>1. recorders' = b (+) SetToBag({})
    BY <1>1 DEF Becomes
  <2>2. \A q \in DOMAIN b : b[q] \in Nat
    BY <1>2 DEF BagOK, IsABag
  <2>3. b = [q \in DOMAIN b |-> b[q]]
    BY <1>2 DEF BagOK, IsABag
  <2>4. b (+) SetToBag({}) = [q \in DOMAIN b |-> b[q] + 0]
    BY DEF (+), SetToBag
  <2> QED
    BY <2>1, <2>2, <2>3, <2>4
<1>4. /\ \A id : Cardinality(Owed(b, id)) \in Nat /\ Debt(r, id) = 0
      /\ \A ok : Cardinality(OwedAs(b, ok)) \in Nat /\ DebtAs(r, ok) = 0
  BY <1>2, DebtsAreNat DEF Debt, DebtAs
<1>5. /\ \A id : Cardinality(Owed(b, id)) = Cardinality(Owed(a, id))
      /\ \A ok : Cardinality(OwedAs(b, ok)) = Cardinality(OwedAs(a, ok))
  BY <1>2, <1>4
<1> QED
  BY <1>1, <1>2, <1>3, <1>5

-----------------------------------------------------------------------------
(* The invariant.                                                          *)

\* main starts the workers first and waits for them last; jobs are submitted,
\* and submissions dropped, of jobs that exist
BooksOK ==
    /\ clock \in Nat \ {0}
    /\ DOMAIN submitted \subseteq DOMAIN jobs /\ DOMAIN dropped \subseteq DOMAIN jobs
    /\ \A i \in DOMAIN dropped : dropped[i] \in Nat
    /\ \A w \in Workers : /\ "at" \in DOMAIN worker[w]
                          /\ worker[w].at = "count" => worker[w].success \in BOOLEAN
    /\ BagOK(recorders)
    /\ \A r \in DOMAIN recorders : "at" \in DOMAIN r /\ r.success \in BOOLEAN
    /\ mainPC = "startExecutor" => \A w \in Workers : worker[w].at = "absent"
    /\ mainPC = "exited" => WorkersDone

\* each executor leaves the other's state alone
Apart ==
    IF optimized
      THEN /\ \A w \in Workers : worker[w].at \notin {"record", "touch"}
           /\ executionsTotal.success = 0 /\ executionsTotal.failure = 0
      ELSE /\ \A w \in Workers : worker[w].at # "count"
           /\ DOMAIN recorders = {} /\ DOMAIN dropped = {}
           /\ processed = 0 /\ failed = 0

\* where a submission of job id is that is not in a worker's hand
Elsewhere(id) ==
    Cardinality(Places(queue, id)) + Cardinality(Owed(recorders, id)) + Len(jobExecMap[id])
        + CountIn(dropped, id)

\* SubmissionsConserved, in these terms
Balance ==
    \A id \in DOMAIN jobs : Count(id) = Cardinality(Busy(worker, id)) + Elsewhere(id)

\* the outcomes ok on record or with a goroutine that is to record them,
Registered(ok) == RecordsWith(ok) + Cardinality(OwedAs(recorders, ok))

\* those of workers that have counted and not recorded, or recorded and not counted,
Held(f, ok) == Cardinality(Way(f, ok)) - Cardinality(Counting(f, ok))

\* and those that the counters of the executors tell of
Told(ok) == IF ok THEN executionsTotal.success + (processed - failed)
                  ELSE executionsTotal.failure + failed

\* every success is told of, and no failure that did not happen
CountersOK ==
    /\ \E s, f \in Int : executionsTotal = [success |-> s, failure |-> f]
    /\ processed \in Int /\ failed \in Int
    /\ \A ok \in BOOLEAN :
          /\ Told(ok) <= Registered(ok) + Held(worker, ok)
          /\ ok => Told(ok) = Registered(ok) + Held(worker, ok)

\* with the standard executor, a job with a record has its time, or a worker is
\* about to store one
TouchOK ==
    /\ \A w \in Workers : worker[w].at \in {"record", "touch"} => worker[w].completedAt # Nil
    /\ \A id \in DOMAIN jobs : Len(jobExecMap[id]) > 0 =>
          \/ jobs[id].lastExecuted # Nil
          \/ \E w \in Workers : worker[w].at = "touch" /\ worker[w].id = id

AInv == BooksOK /\ Apart /\ Balance /\ CountersOK /\ (~optimized => TouchOK)

-----------------------------------------------------------------------------
(* The records, counted.                                                   *)

Having(f, ok) == {e \in DOMAIN f : f[e].success = ok}

\* A record that is added is counted once.
LEMMA RecordCounts ==
    ASSUME NEW f, IsFiniteSet(DOMAIN f), NEW n, n \notin DOMAIN f, NEW x,
           NEW g, g = With(f, n, x)
    PROVE  \A ok : /\ Cardinality(Having(f, ok)) \in Nat
                   /\ Cardinality(Having(g, ok)) =
                         Cardinality(Having(f, ok)) + (IF x.success = ok THEN 1 ELSE 0)
<1> SUFFICES ASSUME NEW ok
             PROVE  /\ Cardinality(Having(f, ok)) \in Nat
                    /\ Cardinality(Having(g, ok)) =
                          Cardinality(Having(f, ok)) + (IF x.success = ok THEN 1 ELSE 0)
  OBVIOUS
<1>1. DOMAIN g = DOMAIN f \cup {n} /\ g[n] = x /\ \A e \in DOMAIN f : g[e] = f[e]
  BY DEF With
<1>2. PICK A, B : A = Having(f, ok) /\ B = Having(g, ok)
  OBVIOUS
<1>3. IsFiniteSet(DOMAIN g)
  BY <1>1, FS_AddElement
<1>4. /\ A \in SUBSET DOMAIN g /\ B \in SUBSET DOMAIN g /\ n \in DOMAIN g
      /\ \A v \in DOMAIN g : v # n => (v \in A <=> v \in B)
      /\ n \notin A
      /\ n \in B <=> x.success = ok
  BY <1>1, <1>2 DEF Having
<1>5. /\ Cardinality(A) \in Nat /\ Cardinality(B) \in Nat
      /\ Cardinality(B) + (IF n \in A THEN 1 ELSE 0) =
            Cardinality(A) + (IF n \in B THEN 1 ELSE 0)
  BY <1>3, <1>4, OneMoves
<1>6. Cardinality(B) = Cardinality(A) + (IF n \in B THEN 1 ELSE 0)
  BY <1>4, <1>5
<1> QED
  BY <1>2, <1>4, <1>5, <1>6

\* There are finitely many records.
LEMMA RecordsFinite ==
    ASSUME LInv
    PROVE  /\ IsFiniteSet(DOMAIN executions)
           /\ \A ok : /\ RecordsWith(ok) = Cardinality(Having(executions, ok))
                      /\ RecordsWith(ok) \in Nat
<1>1. DOMAIN executions \subseteq 1 .. idCounter - 1 /\ idCounter \in Nat
  BY DEF LInv, StoreInv
<1>2. IsFiniteSet(1 .. idCounter - 1)
  BY <1>1, FS_Interval
<1>3. IsFiniteSet(DOMAIN executions)
  BY <1>1, <1>2, FS_Subset
<1>4. ASSUME NEW ok
      PROVE  /\ RecordsWith(ok) = Cardinality(Having(executions, ok))
             /\ RecordsWith(ok) \in Nat
  <2>1. RecordsWith(ok) = Cardinality(Having(executions, ok))
    BY DEF RecordsWith, Having
  <2>2. Having(executions, ok) \in SUBSET DOMAIN executions
    BY DEF Having
  <2>3. IsFiniteSet(Having(executions, ok))
    BY <1>3, <2>2, FS_Subset
  <2> QED
    BY <2>1, <2>3, FS_CardinalityType
<1> QED
  BY <1>3, <1>4

\* What is added up are natural numbers.
LEMMA CountsAreNat ==
    ASSUME IsFiniteSet(Workers), LInv, BooksOK
    PROVE  /\ \A id : /\ Cardinality(Places(queue, id)) \in Nat
                      /\ Cardinality(Busy(worker, id)) \in Nat
                      /\ Cardinality(Owed(recorders, id)) \in Nat
                      /\ CountIn(dropped, id) \in Nat
           /\ \A id \in DOMAIN jobs : Len(jobExecMap[id]) \in Nat /\ Elsewhere(id) \in Nat
           /\ \A ok : Registered(ok) \in Nat /\ Held(worker, ok) \in Int
<1>1. \A id : Cardinality(Places(queue, id)) \in Nat
  BY PlacesFinite DEF LInv, QueueOK
<1>2. \A A : A \in SUBSET Workers => Cardinality(A) \in Nat
  BY FS_Subset, FS_CardinalityType
<1>3. /\ \A id : Busy(worker, id) \in SUBSET Workers
      /\ \A ok : Way(worker, ok) \in SUBSET Workers /\ Counting(worker, ok) \in SUBSET Workers
  BY DEF Busy, Way, Counting
<1>4. /\ \A id : Cardinality(Owed(recorders, id)) \in Nat
      /\ \A ok : Cardinality(OwedAs(recorders, ok)) \in Nat
  BY DebtsAreNat DEF BooksOK
<1>5. \A id : CountIn(dropped, id) \in Nat
  BY DEF BooksOK, CountIn
<1>6. \A id \in DOMAIN jobs : Len(jobExecMap[id]) \in Nat
  BY LenProperties DEF LInv, StoreInv
<1>7. \A id \in DOMAIN jobs : Elsewhere(id) \in Nat
  BY <1>1, <1>4, <1>5, <1>6 DEF Elsewhere
<1>8. \A ok : Registered(ok) \in Nat
  BY <1>4, RecordsFinite DEF Registered
<1>9. \A ok : Held(worker, ok) \in Int
  <2>1. \A ok : Cardinality(Way(worker, ok)) \in Nat /\ Cardinality(Counting(worker, ok)) \in Nat
    BY <1>2, <1>3
  <2> QED
    BY <2>1 DEF Held
<1> QED
  BY <1>1, <1>2, <1>3, <1>4, <1>5, <1>6, <1>7, <1>8, <1>9

-----------------------------------------------------------------------------
(* The invariant holds initially.                                          *)

\* Nothing is submitted, in hand or on record when the service starts.
LEMMA InitAInv == Init => AInv
<1> SUFFICES ASSUME Init PROVE AInv
  OBVIOUS
<1>1. \A w \in Workers : worker[w].at = "absent" /\ "at" \in DOMAIN worker[w]
  BY DEF Init, ExecutorInit, Worker
<1>2. /\ DOMAIN recorders = {} /\ DOMAIN dropped = {} /\ DOMAIN submitted = {}
      /\ DOMAIN jobs = {} /\ DOMAIN executions = {}
      /\ processed = 0 /\ failed = 0
      /\ executionsTotal = [success |-> 0, failure |-> 0]
      /\ clock = 1 /\ mainPC = "startExecutor"
  BY DEF Init, RepoInit, OptimizedInit, ExecutorInit, EmptyBag, SetToBag
<1>3. BagOK(recorders)
  <2>1. Goroutines(recorders) = {}
    BY <1>2 DEF Goroutines
  <2>2. IsABag(recorders)
    BY DEF Init, OptimizedInit, EmptyBag, SetToBag, IsABag
  <2> QED
    BY <2>1, <2>2, FS_EmptySet DEF BagOK
<1>4. BooksOK
  BY <1>1, <1>2, <1>3 DEF BooksOK
<1>5. Apart
  BY <1>1, <1>2 DEF Apart
<1>6. Balance
  BY <1>2 DEF Balance
<1>7. CountersOK
  <2>1. ASSUME NEW ok \in BOOLEAN
        PROVE  Told(ok) = 0 /\ Registered(ok) = 0 /\ Held(worker, ok) = 0
    <3>1. Told(ok) = 0
      BY <1>2 DEF Told
    <3>2. Way(worker, ok) = {} /\ Counting(worker, ok) = {}
      BY <1>1 DEF Way, Counting
    <3>3. OwedAs(recorders, ok) = {}
      BY <1>2 DEF OwedAs, Goroutines
    <3>4. {e \in DOMAIN executions : executions[e].success = ok} = {}
      BY <1>2
    <3> QED
      BY <3>1, <3>2, <3>3, <3>4, FS_EmptySet DEF Registered, Held, RecordsWith
  <2>2. \E s, f \in Int : executionsTotal = [success |-> s, failure |-> f]
    BY <1>2
  <2>3. \A ok \in BOOLEAN :
           /\ Told(ok) <= Registered(ok) + Held(worker, ok)
           /\ ok => Told(ok) = Registered(ok) + Held(worker, ok)
    BY <2>1
  <2> QED
    BY <1>2, <2>2, <2>3 DEF CountersOK
<1>8. TouchOK
  BY <1>1, <1>2 DEF TouchOK
<1> QED
  BY <1>4, <1>5, <1>6, <1>7, <1>8 DEF AInv

-----------------------------------------------------------------------------
(* What a step has to do to the counts, part by part.                      *)

\* what leaves the hand of a worker that goes on from a to b turns up elsewhere
Moves(a, b) ==
    \A id \in DOMAIN jobs : /\ Elsewhere(id)' \in Int
                            /\ Elsewhere(id)' + Hand(b, id) = Elsewhere(id) + Hand(a, id)

\* what is told of more is registered or held more
Follows(a, b) ==
    \A ok \in BOOLEAN :
        LET before == Registered(ok) + AtRecord(a, ok) - AtCount(a, ok)
            after  == Registered(ok)' + AtRecord(b, ok) - AtCount(b, ok)
        IN  /\ Told(ok)' \in Int /\ Registered(ok)' \in Int
            /\ Told(ok)' - Told(ok) <= after - before
            /\ ok => Told(ok)' - Told(ok) = after - before

\* Then the balance is kept,
LEMMA BalanceKept ==
    ASSUME IsFiniteSet(Workers), LInv, AInv, NEW w \in Workers, NEW b,
           worker' = [worker EXCEPT ![w] = b], submitted' = submitted,
           DOMAIN jobs' = DOMAIN jobs, Moves(worker[w], b)
    PROVE  Balance'
<1> SUFFICES ASSUME NEW id \in DOMAIN jobs
             PROVE  CountIn(submitted, id) = Cardinality(Busy(worker', id)) + Elsewhere(id)'
  BY DEF Balance, Count
<1>1. PICK f, g : f = worker /\ g = worker'
  OBVIOUS
<1>2. CountIn(submitted, id) = Cardinality(Busy(f, id)) + Elsewhere(id)
  BY <1>1 DEF AInv, Balance, Count
<1>3. g[w] = b /\ \A v \in Workers : v # w => g[v] = f[v]
  BY <1>1 DEF LInv, WorkersOK
<1>4. /\ Cardinality(Busy(f, id)) \in Nat /\ Cardinality(Busy(g, id)) \in Nat
      /\ Cardinality(Busy(g, id)) + Hand(f[w], id) = Cardinality(Busy(f, id)) + Hand(b, id)
  BY <1>3, BusyCounts
<1>5. PICK p, u, k, v, h, j :
         /\ p = Elsewhere(id) /\ k = Elsewhere(id)'
         /\ u = Cardinality(Busy(f, id)) /\ v = Cardinality(Busy(g, id))
         /\ h = Hand(f[w], id) /\ j = Hand(b, id)
  OBVIOUS
<1>6. p \in Nat /\ k \in Int /\ k + j = p + h
  BY <1>1, <1>5, CountsAreNat DEF Moves, AInv
<1>7. u \in Nat /\ v \in Nat /\ h \in Nat /\ j \in Nat /\ v + h = u + j
  BY <1>4, <1>5 DEF Hand
<1>8. u + p = v + k
  <2>1. p \in Int /\ u \in Int /\ v \in Int /\ h \in Int /\ j \in Int /\ k \in Int
    BY <1>6, <1>7
  <2>2. k = p + h - j /\ v = u + j - h
    BY <1>6, <1>7, <2>1
  <2> QED
    BY <2>1, <2>2
<1> QED
  BY <1>1, <1>2, <1>5, <1>8

\* and so are the counters.
LEMMA CountersKept ==
    ASSUME IsFiniteSet(Workers), LInv, AInv, NEW w \in Workers, NEW b,
           worker' = [worker EXCEPT ![w] = b], Follows(worker[w], b),
           \E s, f \in Int : executionsTotal' = [success |-> s, failure |-> f],
           processed' \in Int, failed' \in Int
    PROVE  CountersOK'
<1> SUFFICES ASSUME NEW ok \in BOOLEAN
             PROVE  /\ Told(ok)' <= Registered(ok)' + Held(worker', ok)
                    /\ ok => Told(ok)' = Registered(ok)' + Held(worker', ok)
  BY DEF CountersOK
<1>1. PICK f, g : f = worker /\ g = worker'
  OBVIOUS
<1>2. g[w] = b /\ \A v \in Workers : v # w => g[v] = f[v]
  BY <1>1 DEF LInv, WorkersOK
<1>3. PICK u, v, m, n : /\ u = Cardinality(Way(f, ok)) /\ v = Cardinality(Way(g, ok))
                        /\ m = Cardinality(Counting(f, ok))
                        /\ n = Cardinality(Counting(g, ok))
  OBVIOUS
<1>4. PICK c, d, h, k : /\ c = AtRecord(f[w], ok) /\ d = AtRecord(b, ok)
                        /\ h = AtCount(f[w], ok) /\ k = AtCount(b, ok)
  OBVIOUS
<1>5. u \in Nat /\ v \in Nat /\ v + c = u + d
  BY <1>2, <1>3, <1>4, WayCounts
<1>6. m \in Nat /\ n \in Nat /\ n + h = m + k
  BY <1>2, <1>3, <1>4, CountingCounts
<1>7. c \in Nat /\ d \in Nat /\ h \in Nat /\ k \in Nat
  BY <1>4 DEF AtRecord, AtCount
<1>8. PICK t, x, r, y : /\ t = Told(ok) /\ x = Told(ok)'
                        /\ r = Registered(ok) /\ y = Registered(ok)'
  OBVIOUS
<1>9. /\ r \in Nat /\ y \in Int /\ x \in Int
      /\ x - t <= (y + d - k) - (r + c - h)
      /\ ok => x - t = (y + d - k) - (r + c - h)
  BY <1>1, <1>4, <1>8, CountsAreNat DEF Follows, AInv
<1>10. t <= r + (u - m) /\ (ok => t = r + (u - m))
  BY <1>1, <1>3, <1>8 DEF AInv, CountersOK, Held
<1>11. t \in Int
  <2>1. PICK s \in Int, e \in Int : executionsTotal = [success |-> s, failure |-> e]
    BY DEF AInv, CountersOK
  <2> QED
    BY <1>8, <2>1 DEF AInv, CountersOK, Told
<1>12. x <= y + (v - n) /\ (ok => x = y + (v - n))
  BY <1>5, <1>6, <1>7, <1>9, <1>10, <1>11
<1> QED
  BY <1>1, <1>3, <1>8, <1>12 DEF Held

\* No worker moves: the balance stays as it is when each job has as many elsewhere,
LEMMA BalanceStays ==
    ASSUME AInv, UNCHANGED <<worker, submitted>>, DOMAIN jobs' = DOMAIN jobs,
           \A id \in DOMAIN jobs : Elsewhere(id)' = Elsewhere(id)
    PROVE  Balance'
BY DEF AInv, Balance, Count

\* and the counters when each outcome is registered as often.
LEMMA CountersStay ==
    ASSUME AInv, UNCHANGED <<worker, executionsTotal, processed, failed>>,
           \A ok \in BOOLEAN : Registered(ok)' = Registered(ok)
    PROVE  CountersOK'
<1>1. \A ok \in BOOLEAN : Told(ok)' = Told(ok) /\ Held(worker', ok) = Held(worker, ok)
  BY DEF Told
<1>2. \A ok \in BOOLEAN :
         /\ Told(ok)' <= Registered(ok)' + Held(worker', ok)
         /\ ok => Told(ok)' = Registered(ok)' + Held(worker', ok)
  BY <1>1 DEF AInv, CountersOK
<1> QED
  BY <1>2 DEF AInv, CountersOK

-----------------------------------------------------------------------------
(* Steps of main, of the scheduler and of the requests.                    *)

(***************************************************************************)
(* A step that leaves channel, workers, goroutines and records alone, and  *)
(* may at most add a job, which nobody has submitted yet.                  *)
(***************************************************************************)
LEMMA QuietKeeps ==
    ASSUME LInv, AInv, StoreGrows,
           UNCHANGED <<submitted, queue, worker, recorders, executionsTotal, executions>>,
           UNCHANGED <<processed, failed, dropped, optimized>>,
           clock' \in Nat \ {0}, mainPC' = "startExecutor" => mainPC = "startExecutor",
           mainPC' = "exited" => mainPC = "exited" \/ WorkersDone,
           \A i \in DOMAIN jobs : jobs'[i].lastExecuted = jobs[i].lastExecuted,
           \A i \in DOMAIN jobs : jobExecMap'[i] = jobExecMap[i],
           \A i \in DOMAIN jobs' \ DOMAIN jobs : jobExecMap'[i] = <<>>
    PROVE  AInv'
<1>1. BooksOK'
  BY DEF AInv, BooksOK, StoreGrows, WorkersDone
<1>2. Apart'
  BY DEF AInv, Apart
<1>3. Balance'
  <2> SUFFICES ASSUME NEW id \in DOMAIN jobs'
               PROVE  CountIn(submitted, id) = Cardinality(Busy(worker, id)) + Elsewhere(id)'
    BY DEF Balance, Count
  <2>1. CASE id \in DOMAIN jobs
    <3>1. Elsewhere(id)' = Elsewhere(id)
      BY <2>1 DEF Elsewhere
    <3> QED
      BY <2>1, <3>1 DEF AInv, Balance, Count
  <2>2. CASE id \notin DOMAIN jobs
    <3>1. Places(queue, id) = {}
      BY <2>2, ElementOfSeq, LenProperties DEF LInv, QueueOK, Places
    <3>2. Busy(worker, id) = {}
      BY <2>2 DEF LInv, WorkersOK, Busy, InHand
    <3>3. CountIn(submitted, id) = 0 /\ CountIn(dropped, id) = 0
      BY <2>2 DEF CountIn, AInv, BooksOK
    <3>4. Len(jobExecMap'[id]) = 0
      BY <2>2
    <3>5. Owed(recorders, id) = {}
      <4>1. \A g \in Goroutines(recorders) : g[1] \in DOMAIN recorders
        BY DEF Goroutines
      <4>2. \A r \in DOMAIN recorders : r.id # id
        BY <2>2 DEF LInv, RecordersOK, BagToSet
      <4> QED
        BY <4>1, <4>2 DEF Owed
    <3>6. Elsewhere(id)' = 0
      BY <3>1, <3>3, <3>4, <3>5, FS_EmptySet DEF Elsewhere
    <3> QED
      BY <3>2, <3>3, <3>6, FS_EmptySet
  <2> QED
    BY <2>1, <2>2
<1>4. CountersOK'
  BY CountersStay DEF Registered, RecordsWith
<1>5. ~optimized' => TouchOK'
  <2> SUFFICES ASSUME ~optimized, NEW id \in DOMAIN jobs', Len(jobExecMap'[id]) > 0
               PROVE  \/ jobs'[id].lastExecuted # Nil
                      \/ \E w \in Workers : worker[w].at = "touch" /\ worker[w].id = id
    BY DEF AInv, TouchOK
  <2>1. id \in DOMAIN jobs
    <3>1. CASE id \notin DOMAIN jobs
      <4>1. jobExecMap'[id] = <<>>
        BY <3>1
      <4> QED
        BY <4>1
    <3> QED
      BY <3>1
  <2> QED
    BY <2>1 DEF AInv, TouchOK
<1> QED
  BY <1>1, <1>2, <1>3, <1>4, <1>5 DEF AInv

\* A step outside the repository and the executor.
LEMMA AsideKeeps ==
    ASSUME LInv, AInv, UNCHANGED repoVars,
           UNCHANGED <<submitted, queue, worker, executionsTotal, optimized>>, UNCHANGED optVars,
           clock' \in Nat \ {0}, mainPC' = "startExecutor" => mainPC = "startExecutor",
           mainPC' = "exited" => mainPC = "exited" \/ WorkersDone
    PROVE  AInv'
<1>1. StoreGrows
  BY StoreUntouched
<1>2. UNCHANGED <<jobs, jobExecMap, executions>> /\ UNCHANGED <<processed, failed, dropped, recorders>>
  BY DEF repoVars, optVars
<1> QED
  BY <1>1, <1>2, QuietKeeps

\* StartExecutor makes the workers idle; nobody has anything in hand.
LEMMA StartKeeps ==
    ASSUME LInv, AInv, StartExecutor, UNCHANGED <<clock, submitted, optimized>>,
           UNCHANGED repoVars, UNCHANGED optVars
    PROVE  AInv'
<1>1. /\ \A w \in Workers : worker[w].at = "absent"
      /\ worker' = [w \in Workers |-> IdleWorker] /\ IdleWorker.at = "select"
      /\ UNCHANGED <<queue, executionsTotal>> /\ mainPC' = "startScheduler"
  BY DEF StartExecutor, MainGoes, StartWorkers, IdleWorker, Worker, AInv, BooksOK
<1>2. PICK g : /\ g = worker' /\ \A w \in Workers : g[w].at = "select"
               /\ \A w \in Workers : "at" \in DOMAIN g[w]
  BY <1>1 DEF IdleWorker, Worker
<1>3. /\ UNCHANGED <<jobs, jobExecMap, executions>>
      /\ UNCHANGED <<processed, failed, dropped, recorders>>
  BY DEF repoVars, optVars
<1>4. \A id : Busy(worker, id) = {} /\ Busy(g, id) = {}
  BY <1>1, <1>2 DEF Busy, InHand
<1>5. \A ok : /\ Way(worker, ok) = {} /\ Way(g, ok) = {}
              /\ Counting(worker, ok) = {} /\ Counting(g, ok) = {}
  BY <1>1, <1>2 DEF Way, Counting
<1>6. BooksOK'
  BY <1>1, <1>2, <1>3 DEF AInv, BooksOK
<1>7. Apart'
  BY <1>1, <1>2, <1>3 DEF AInv, Apart
<1>8. Balance'
  BY <1>1, <1>2, <1>3, <1>4 DEF AInv, Balance, Count, Elsewhere
<1>9. CountersOK'
  <2>1. \A ok \in BOOLEAN : /\ Told(ok)' = Told(ok) /\ Registered(ok)' = Registered(ok)
                            /\ Held(g, ok) = Held(worker, ok)
    BY <1>1, <1>3, <1>5 DEF Told, Registered, RecordsWith, Held
  <2>2. \A ok \in BOOLEAN :
           /\ Told(ok)' <= Registered(ok)' + Held(worker', ok)
           /\ ok => Told(ok)' = Registered(ok)' + Held(worker', ok)
    BY <1>2, <2>1 DEF AInv, CountersOK
  <2> QED
    BY <1>1, <1>3, <2>2 DEF AInv, CountersOK
<1>10. ~optimized' => TouchOK'
  BY <1>1, <1>2, <1>3 DEF AInv, TouchOK
<1> QED
  BY <1>6, <1>7, <1>8, <1>9, <1>10 DEF AInv

\* main, but for StartExecutor, waits, cancels and closes.
LEMMA MainBalances ==
    ASSUME LInv, AInv, MainStep
    PROVE  AInv'
<1>1. /\ UNCHANGED repoVars /\ UNCHANGED optVars
      /\ UNCHANGED <<clock, submitted, optimized>>
  BY DEF MainStep
<1>2. CASE StartExecutor
  BY <1>1, <1>2, StartKeeps
<1>3. CASE ~StartExecutor
  <2>1. UNCHANGED <<queue, worker, executionsTotal>>
    BY <1>3 DEF MainStep, StartScheduler, BeginShutdown, RequestsDrained, StopScheduler,
           SchedulerStopped, StopWorkers, CancelWorkers, CloseQueue, WorkersStopped,
           execVars
  <2>2. mainPC' # "startExecutor" /\ (mainPC' = "exited" => WorkersDone)
    BY <1>3 DEF MainStep, StartScheduler, BeginShutdown, RequestsDrained, StopScheduler,
           SchedulerStopped, StopWorkers, WorkersStopped, MainGoes
  <2>3. clock' \in Nat \ {0}
    BY <1>1 DEF AInv, BooksOK
  <2> QED
    BY <1>1, <2>1, <2>2, <2>3, AsideKeeps
<1> QED
  BY <1>2, <1>3

\* Counting one more of job y.
LEMMA OneMoreOf ==
    ASSUME NEW f, NEW y, NEW n, n = CountIn(f, y) + 1, NEW g, g = With(f, y, n),
           NEW id, CountIn(f, id) \in Int
    PROVE  CountIn(g, id) = CountIn(f, id) + (IF y = id THEN 1 ELSE 0)
<1>1. /\ DOMAIN g = DOMAIN f \cup {y} /\ g[y] = n
      /\ \A i \in DOMAIN f : i # y => g[i] = f[i]
  BY DEF With
<1>2. CASE y = id
  BY <1>1, <1>2 DEF CountIn
<1>3. CASE y # id
  <2>1. CountIn(g, id) = CountIn(f, id)
    BY <1>1, <1>3 DEF CountIn
  <2> QED
    BY <1>3, <2>1
<1> QED
  BY <1>2, <1>3

\* Submit counts the job, and puts it into the channel or drops it.
LEMMA SubmitKeeps ==
    ASSUME IsFiniteSet(Workers), LInv, AInv, Submit, UNCHANGED <<clock, mainPC, optimized>>
    PROVE  AInv'
<1>1. PICK y : y = dueJobs[cursor] /\ y \in DOMAIN jobs
  BY DEF Submit, SubmitNext, LInv, SweepOK
<1>2. /\ UNCHANGED <<worker, executionsTotal, recorders, jobs, executions, jobExecMap>>
      /\ UNCHANGED <<processed, failed>>
      /\ \/ queue' = Append(queue, y) /\ dropped' = dropped
         \/ /\ queue' = queue /\ optimized
            /\ dropped' = With(dropped, y, CountIn(dropped, y) + 1)
  BY <1>1 DEF Submit, OfferOrDrop, Enqueue, optVars, execVars, repoVars
<1>3. submitted' = With(submitted, y, CountIn(submitted, y) + 1)
  BY <1>1 DEF Submit, Count
<1>4. queue \in Seq(DOMAIN jobs)
  BY DEF LInv, QueueOK
<1>5. /\ \A id : CountIn(dropped, id) \in Nat
      /\ \A id \in DOMAIN jobs : CountIn(submitted, id) \in Int
  BY CountsAreNat DEF AInv, Balance, Count
<1>6. BooksOK'
  <2>1. \A i \in DOMAIN dropped' : dropped'[i] \in Nat
    <3>1. CASE dropped' = dropped
      BY <3>1 DEF AInv, BooksOK
    <3>2. CASE dropped' = With(dropped, y, CountIn(dropped, y) + 1)
      <4>1. CountIn(dropped, y) + 1 \in Nat
        BY <1>5
      <4> QED
        BY <3>2, <4>1 DEF With, AInv, BooksOK
    <3> QED
      BY <1>2, <3>1, <3>2
  <2>2. DOMAIN submitted' \subseteq DOMAIN jobs' /\ DOMAIN dropped' \subseteq DOMAIN jobs'
    BY <1>1, <1>2, <1>3 DEF AInv, BooksOK, With
  <2> QED
    BY <1>2, <2>1, <2>2 DEF AInv, BooksOK, WorkersDone
<1>7. Apart'
  BY <1>2 DEF AInv, Apart
<1>8. Balance'
  <2>1. PICK q, d, s : q = queue' /\ d = dropped' /\ s = submitted'
    OBVIOUS
  <2> SUFFICES ASSUME NEW id \in DOMAIN jobs
               PROVE  CountIn(s, id) = Cardinality(Busy(worker, id)) + Elsewhere(id)'
    BY <1>2, <2>1 DEF Balance, Count
  <2>2. CountIn(s, id) = CountIn(submitted, id) + (IF y = id THEN 1 ELSE 0)
    <3>1. PICK n : n = CountIn(submitted, y) + 1 /\ s = With(submitted, y, n)
      BY <1>3, <2>1
    <3>2. CountIn(submitted, id) \in Int
      BY <1>5
    <3> QED
      BY <3>1, <3>2, OneMoreOf
  <2>3. Cardinality(Places(q, id)) + CountIn(d, id) =
           Cardinality(Places(queue, id)) + CountIn(dropped, id) + (IF y = id THEN 1 ELSE 0)
    <3>1. CASE q = Append(queue, y) /\ d = dropped
      <4>1. /\ Cardinality(Places(q, id)) =
                  Cardinality(Places(queue, id)) + (IF y = id THEN 1 ELSE 0)
            /\ Cardinality(Places(queue, id)) \in Nat
        BY <1>1, <1>4, <3>1, PlacesAppend, PlacesFinite
      <4> QED
        BY <1>5, <3>1, <4>1
    <3>2. CASE q = queue /\ d = With(dropped, y, CountIn(dropped, y) + 1)
      <4>1. CountIn(d, id) = CountIn(dropped, id) + (IF y = id THEN 1 ELSE 0)
        <5>1. PICK j : j = CountIn(dropped, y) + 1 /\ d = With(dropped, y, j)
          BY <3>2
        <5>2. CountIn(dropped, id) \in Int
          BY <1>5
        <5> QED
          BY <5>1, <5>2, OneMoreOf
      <4>2. Cardinality(Places(queue, id)) \in Nat
        BY <1>4, PlacesFinite
      <4> QED
        BY <1>5, <3>2, <4>1, <4>2
    <3> QED
      BY <1>2, <2>1, <3>1, <3>2
  <2>4. /\ Cardinality(Busy(worker, id)) \in Nat /\ Cardinality(Owed(recorders, id)) \in Nat
        /\ Len(jobExecMap[id]) \in Nat /\ CountIn(dropped, id) \in Nat
        /\ Cardinality(Places(queue, id)) \in Nat
    BY CountsAreNat DEF AInv
  <2>5. CountIn(submitted, id) = Cardinality(Busy(worker, id)) + Elsewhere(id)
    BY DEF AInv, Balance, Count
  <2>6. Elsewhere(id)' = Cardinality(Places(q, id)) + Cardinality(Owed(recorders, id))
                            + Len(jobExecMap[id]) + CountIn(d, id)
    BY <1>2, <2>1 DEF Elsewhere
  <2>7. PICK p, o, l, c, u, m, n, z, x :
           /\ p = Cardinality(Places(queue, id)) /\ o = Cardinality(Owed(recorders, id))
           /\ l = Len(jobExecMap[id]) /\ c = CountIn(dropped, id)
           /\ u = Cardinality(Busy(worker, id)) /\ m = Cardinality(Places(q, id))
           /\ n = CountIn(d, id) /\ z = CountIn(submitted, id)
           /\ x = IF y = id THEN 1 ELSE 0
    OBVIOUS
  <2>8. /\ p \in Nat /\ o \in Nat /\ l \in Nat /\ c \in Nat /\ u \in Nat /\ x \in Nat
        /\ m + n = p + c + x /\ z = u + (p + o + l + c)
    BY <2>3, <2>4, <2>5, <2>7 DEF Elsewhere
  <2>9. m \in Nat /\ n \in Nat
    <3>1. m \in Nat
      BY <1>1, <1>2, <1>4, <2>1, <2>7, PlacesFinite, AppendProperties
    <3>2. n \in Nat
      BY <1>6, <2>1, <2>7 DEF BooksOK, CountIn
    <3> QED
      BY <3>1, <3>2
  <2>10. z + x = u + (m + o + l + n)
    BY <2>8, <2>9
  <2> QED
    BY <2>2, <2>6, <2>7, <2>10
<1>9. CountersOK'
  BY <1>2, CountersStay DEF Registered, RecordsWith
<1>10. ~optimized' => TouchOK'
  BY <1>2 DEF AInv, TouchOK
<1> QED
  BY <1>6, <1>7, <1>8, <1>9, <1>10 DEF AInv

\* The scheduler submits, or moves next runs on, which no count looks at.
LEMMA SchedulerBalances ==
    ASSUME IsFiniteSet(Workers), LInv, AInv, SchedulerStep
    PROVE  AInv'
<1>1. UNCHANGED <<clock, mainPC, optimized>> /\ clock' \in Nat \ {0}
  BY DEF SchedulerStep, mainVars, AInv, BooksOK
<1>2. CASE Submit
  BY <1>1, <1>2, SubmitKeeps
<1>3. CASE SweepStep
  <2>1. UNCHANGED <<submitted, queue, worker, executionsTotal>> /\ UNCHANGED optVars
    BY <1>3 DEF SweepStep, execVars
  <2>2. CASE UNCHANGED repoVars
    BY <1>1, <2>1, <2>2, AsideKeeps
  <2>3. CASE ~UNCHANGED repoVars
    <3>1. PICK id, n : UpdateJobNextRun(id, n)
      BY <1>3, <2>3 DEF SweepStep, AdvanceNext
    <3>2. /\ StoreGrows /\ DOMAIN jobs' = DOMAIN jobs
          /\ \A i \in DOMAIN jobs : jobs'[i].lastExecuted = jobs[i].lastExecuted
      BY <3>1, NextRunKeeps DEF LInv
    <3>3. UNCHANGED <<executions, jobExecMap>>
      BY <3>1 DEF UpdateJobNextRun
    <3>4. UNCHANGED <<processed, failed, recorders, dropped>>
      BY <2>1 DEF optVars
    <3> QED
      BY <1>1, <2>1, <3>2, <3>3, <3>4, QuietKeeps
  <2> QED
    BY <2>2, <2>3
<1> QED
  BY <1>2, <1>3 DEF SchedulerStep

\* Requests add jobs that nobody has submitted, and mark jobs deleted.
LEMMA HandlerBalances ==
    ASSUME LInv, AInv, HandlerStep
    PROVE  AInv'
<1>1. /\ UNCHANGED <<submitted, queue, worker, executionsTotal, mainPC, clock, optimized>>
      /\ UNCHANGED optVars /\ clock' \in Nat \ {0}
  BY DEF HandlerStep, execVars, mainVars, AInv, BooksOK
<1>2. UNCHANGED <<processed, failed, recorders, dropped>>
  BY <1>1 DEF optVars
<1>3. PICK h \in Handlers :
         \/ UNCHANGED repoVars
         \/ \E id \in DOMAIN jobs : Delete(h, id)
         \/ StoreJob(h)
  BY DEF HandlerStep, ReceiveCreate, IncGauge, DecGauge
<1>4. CASE UNCHANGED repoVars
  BY <1>1, <1>4, AsideKeeps
<1>5. CASE \E id \in DOMAIN jobs : Delete(h, id)
  <2>1. PICK id \in DOMAIN jobs : DeleteJob(id)
    BY <1>5 DEF Delete
  <2>2. /\ StoreGrows /\ DOMAIN jobs' = DOMAIN jobs
        /\ \A i \in DOMAIN jobs : jobs'[i].lastExecuted = jobs[i].lastExecuted
    BY <2>1, DeleteKeeps DEF LInv
  <2>3. UNCHANGED <<executions, jobExecMap>>
    BY <2>1 DEF DeleteJob
  <2> QED
    BY <1>1, <1>2, <2>2, <2>3, QuietKeeps
<1>6. CASE StoreJob(h)
  <2>1. PICK j : j = req[h].job /\ CreateJob(NoID, j) /\ IsJob(j) /\ j.lastExecuted = Nil
    BY <1>6 DEF StoreJob, LInv, RequestsOK
  <2>2. /\ StoreGrows
        /\ \A i \in DOMAIN jobs : jobs'[i] = jobs[i]
        /\ executions' = executions
        /\ \A i \in DOMAIN jobs : jobExecMap'[i] = jobExecMap[i]
        /\ \A i \in DOMAIN jobs' \ DOMAIN jobs : jobExecMap'[i] = <<>>
    BY <2>1, CreateJobGrows DEF LInv
  <2> QED
    BY <1>1, <1>2, <2>2, QuietKeeps
<1> QED
  BY <1>3, <1>4, <1>5, <1>6

-----------------------------------------------------------------------------
(* Steps of the workers.                                                   *)

\* A worker goes on: what the books say besides.
LEMMA BooksKept ==
    ASSUME LInv, AInv, NEW w \in Workers, NEW b, worker' = [worker EXCEPT ![w] = b],
           worker[w].at # "absent", mainPC # "exited",
           "at" \in DOMAIN b, b.at = "count" => b.success \in BOOLEAN,
           UNCHANGED <<clock, mainPC, submitted, dropped>>, DOMAIN jobs' = DOMAIN jobs,
           BagOK(recorders'),
           \A r \in DOMAIN recorders' : "at" \in DOMAIN r /\ r.success \in BOOLEAN
    PROVE  BooksOK'
<1>1. worker'[w] = b /\ \A v \in Workers : v # w => worker'[v] = worker[v]
  BY DEF LInv, WorkersOK
<1>2. ASSUME NEW v \in Workers
      PROVE  /\ "at" \in DOMAIN worker'[v]
             /\ worker'[v].at = "count" => worker'[v].success \in BOOLEAN
  <2>1. CASE v = w
    BY <1>1, <2>1, Zenon
  <2>2. CASE v # w
    <3>1. worker'[v] = worker[v]
      BY <1>1, <2>2
    <3> QED
      BY <3>1, Zenon DEF AInv, BooksOK
  <2> QED
    BY <2>1, <2>2
<1>3. mainPC' # "startExecutor" /\ mainPC' # "exited"
  BY DEF AInv, BooksOK
<1> QED
  BY <1>2, <1>3 DEF AInv, BooksOK

\* The same when no goroutine comes or goes.
LEMMA BooksAlone ==
    ASSUME LInv, AInv, NEW w \in Workers, NEW b, worker' = [worker EXCEPT ![w] = b],
           worker[w].at # "absent", mainPC # "exited",
           "at" \in DOMAIN b, b.at = "count" => b.success \in BOOLEAN,
           UNCHANGED <<clock, mainPC, submitted, dropped, recorders>>, DOMAIN jobs' = DOMAIN jobs
    PROVE  BooksOK'
<1>1. BagOK(recorders')
  BY DEF AInv, BooksOK
<1>2. \A r \in DOMAIN recorders' : "at" \in DOMAIN r /\ r.success \in BOOLEAN
  BY DEF AInv, BooksOK
<1>3. UNCHANGED <<clock, mainPC, submitted, dropped>>
  OBVIOUS
<1> QED
  BY <1>1, <1>2, <1>3, BooksKept

\* A worker that keeps what it has in hand.
LEMMA BalanceAlone ==
    ASSUME IsFiniteSet(Workers), LInv, AInv, NEW w \in Workers, NEW b,
           worker' = [worker EXCEPT ![w] = b], DOMAIN jobs' = DOMAIN jobs,
           UNCHANGED <<queue, recorders, jobExecMap, dropped, submitted>>,
           \A id : Hand(b, id) = Hand(worker[w], id)
    PROVE  Balance'
<1>1. \A id \in DOMAIN jobs : Elsewhere(id)' = Elsewhere(id) /\ Elsewhere(id) \in Nat
  BY CountsAreNat DEF Elsewhere, AInv
<1>2. Moves(worker[w], b)
  BY <1>1 DEF Moves
<1> QED
  BY <1>2, BalanceKept

\* A worker that has nothing to record or count, and will have nothing.
LEMMA CountersAlone ==
    ASSUME IsFiniteSet(Workers), LInv, AInv, NEW w \in Workers, NEW b,
           worker' = [worker EXCEPT ![w] = b],
           worker[w].at \notin {"record", "count"}, b.at \notin {"record", "count"},
           UNCHANGED <<executions, executionsTotal, processed, failed, recorders>>
    PROVE  CountersOK'
<1>1. \A ok : /\ AtRecord(worker[w], ok) = 0 /\ AtCount(worker[w], ok) = 0
              /\ AtRecord(b, ok) = 0 /\ AtCount(b, ok) = 0
  BY DEF AtRecord, AtCount
<1>2. /\ \E s, f \in Int : executionsTotal = [success |-> s, failure |-> f]
      /\ processed \in Int /\ failed \in Int
  BY DEF AInv, CountersOK
<1>3. \A ok \in BOOLEAN : Told(ok)' = Told(ok) /\ Told(ok) \in Int
  BY <1>2 DEF Told
<1>4. \A ok \in BOOLEAN : Registered(ok)' = Registered(ok) /\ Registered(ok) \in Int
  BY CountsAreNat DEF Registered, RecordsWith, AInv
<1>5. Follows(worker[w], b)
  BY <1>1, <1>3, <1>4 DEF Follows
<1> QED
  BY <1>2, <1>5, CountersKept

\* A worker goes on that is not about to give a job its time.
LEMMA TouchKept ==
    ASSUME LInv, AInv, ~optimized, NEW w \in Workers, NEW b,
           worker' = [worker EXCEPT ![w] = b], worker[w].at # "touch",
           b.at \in {"record", "touch"} => b.completedAt # Nil,
           UNCHANGED <<jobs, jobExecMap>>
    PROVE  TouchOK'
<1>1. /\ DOMAIN worker' = Workers /\ worker'[w] = b
      /\ \A v \in Workers : v # w => worker'[v] = worker[v]
  BY DEF LInv, WorkersOK
<1>2. \A v \in Workers :
         worker'[v].at \in {"record", "touch"} => worker'[v].completedAt # Nil
  BY <1>1 DEF AInv, TouchOK
<1>3. ASSUME NEW i \in DOMAIN jobs, Len(jobExecMap[i]) > 0
      PROVE  \/ jobs[i].lastExecuted # Nil
             \/ \E v \in Workers : worker'[v].at = "touch" /\ worker'[v].id = i
  BY <1>1, <1>3 DEF AInv, TouchOK
<1> QED
  BY <1>2, <1>3 DEF TouchOK

\* Each executor's workers stay in its own states.
LEMMA ApartKept ==
    ASSUME LInv, AInv, NEW w \in Workers, NEW b, worker' = [worker EXCEPT ![w] = b],
           UNCHANGED optimized,
           b.at # IF optimized THEN "record" ELSE "count", optimized => b.at # "touch",
           optimized => UNCHANGED executionsTotal,
           ~optimized => UNCHANGED <<recorders, dropped, processed, failed>>
    PROVE  Apart'
<1>1. worker'[w] = b /\ \A v \in Workers : v # w => worker'[v] = worker[v]
  BY DEF LInv, WorkersOK
<1> QED
  BY <1>1 DEF AInv, Apart

\* A worker takes a job from the channel.
LEMMA TakeKeeps ==
    ASSUME IsFiniteSet(Workers), LInv, AInv, NEW w \in Workers, Take(w), mainPC # "exited",
           UNCHANGED <<clock, mainPC, submitted, optimized>>, UNCHANGED optVars
    PROVE  AInv'
<1>1. PICK b : b = Worker("request", Head(queue), FALSE, Nil)
  OBVIOUS
<1>2. /\ worker[w].at = "select" /\ queue # <<>> /\ queue' = Tail(queue)
      /\ worker' = [worker EXCEPT ![w] = b] /\ b.at = "request" /\ b.id = Head(queue)
      /\ "at" \in DOMAIN b
      /\ UNCHANGED <<jobs, executions, jobExecMap, executionsTotal>>
      /\ UNCHANGED <<processed, failed, recorders, dropped>>
  BY <1>1 DEF Take, repoVars, optVars, Worker
<1>3. BooksOK'
  BY <1>2, BooksAlone
<1>4. Apart'
  BY <1>2, ApartKept
<1>5. Balance'
  <2>1. ASSUME NEW id \in DOMAIN jobs
        PROVE  /\ Elsewhere(id)' \in Int
               /\ Elsewhere(id)' + Hand(b, id) = Elsewhere(id) + Hand(worker[w], id)
    <3>1. PICK q : q = Tail(queue)
      OBVIOUS
    <3>2. queue \in Seq(DOMAIN jobs) /\ q \in Seq(DOMAIN jobs)
      BY <1>2, <3>1, HeadTailProperties DEF LInv, QueueOK
    <3>3. /\ Cardinality(Places(q, id)) \in Nat
          /\ Cardinality(Places(queue, id)) =
                Cardinality(Places(q, id)) + IF Head(queue) = id THEN 1 ELSE 0
      BY <1>2, <3>1, <3>2, PlacesFinite, PlacesTail
    <3>4. Hand(worker[w], id) = 0 /\ Hand(b, id) = IF Head(queue) = id THEN 1 ELSE 0
      BY <1>2 DEF Hand, InHand
    <3>5. PICK n, h, o, l, d :
             /\ n = Cardinality(Places(q, id)) /\ h = Hand(b, id)
             /\ o = Cardinality(Owed(recorders, id)) /\ l = Len(jobExecMap[id])
             /\ d = CountIn(dropped, id)
      OBVIOUS
    <3>6. n \in Nat /\ h \in Nat /\ o \in Nat /\ l \in Nat /\ d \in Nat
      BY <3>3, <3>4, <3>5, CountsAreNat DEF AInv
    <3>7. Elsewhere(id) = (n + h) + o + l + d
      BY <3>3, <3>4, <3>5 DEF Elsewhere
    <3>8. Elsewhere(id)' = n + o + l + d
      BY <1>2, <3>1, <3>5 DEF Elsewhere
    <3>9. PICK e, x, j : e = Elsewhere(id) /\ x = Elsewhere(id)' /\ j = Hand(worker[w], id)
      OBVIOUS
    <3>10. x \in Int /\ x + h = e + j
      BY <3>4, <3>6, <3>7, <3>8, <3>9
    <3> QED
      BY <3>5, <3>9, <3>10
  <2>2. Moves(worker[w], b)
    BY <2>1 DEF Moves
  <2> QED
    BY <1>2, <2>2, BalanceKept
<1>6. CountersOK'
  BY <1>2, CountersAlone
<1>7. ~optimized' => TouchOK'
  BY <1>2, TouchKept
<1> QED
  BY <1>3, <1>4, <1>5, <1>6, <1>7 DEF AInv

\* A worker leaves its select for good.
LEMMA ExitKeeps ==
    ASSUME IsFiniteSet(Workers), LInv, AInv, NEW w \in Workers, Exit(w, signalled),
           mainPC # "exited", UNCHANGED <<clock, mainPC, submitted, optimized>>,
           UNCHANGED optVars
    PROVE  AInv'
<1>1. PICK b : b = ExitedWorker
  OBVIOUS
<1>2. /\ worker[w].at = "select" /\ worker' = [worker EXCEPT ![w] = b] /\ b.at = "exited"
      /\ "at" \in DOMAIN b
      /\ UNCHANGED <<jobs, executions, jobExecMap, executionsTotal, queue>>
      /\ UNCHANGED <<processed, failed, recorders, dropped>> /\ UNCHANGED submitted
  BY <1>1 DEF Exit, repoVars, optVars, ExitedWorker, Worker
<1>3. BooksOK'
  BY <1>2, BooksAlone
<1>4. Apart'
  BY <1>2, ApartKept
<1>5. Balance'
  <2>1. \A id : Hand(b, id) = Hand(worker[w], id)
    BY <1>2 DEF Hand, InHand
  <2> QED
    BY <1>2, <2>1, BalanceAlone
<1>6. CountersOK'
  BY <1>2, CountersAlone
<1>7. ~optimized' => TouchOK'
  BY <1>2, TouchKept
<1> QED
  BY <1>3, <1>4, <1>5, <1>6, <1>7 DEF AInv


\* A worker of the standard executor gets an answer, or none.
LEMMA AnswerKeeps ==
    ASSUME IsFiniteSet(Workers), LInv, AInv, ~optimized, NEW w \in Workers,
           (\E success \in BOOLEAN : Respond(w, success)) \/ NoResponse(w),
           mainPC # "exited", UNCHANGED <<clock, mainPC, submitted, optimized>>,
           UNCHANGED optVars
    PROVE  AInv'
<1>1. PICK s \in Int, n \in Int : executionsTotal = [success |-> s, failure |-> n]
  BY DEF AInv, CountersOK
<1>2. PICK ok, t, m :
         /\ worker' = [worker EXCEPT ![w] = Worker("record", @.id, ok, clock)]
         /\ executionsTotal' = [success |-> t, failure |-> m]
         /\ \/ ok = TRUE /\ t = s + 1 /\ m = n
            \/ ok = FALSE /\ t = s /\ m \in {n, n + 1}
  <2>1. CASE NoResponse(w)
    BY <1>1, <2>1 DEF NoResponse
  <2>2. CASE \E success \in BOOLEAN : Respond(w, success)
    BY <1>1, <2>2 DEF Respond
  <2> QED
    BY <2>1, <2>2
<1>3. PICK b : b = Worker("record", worker[w].id, ok, clock)
  OBVIOUS
<1>4. /\ worker[w].at = "request" /\ worker' = [worker EXCEPT ![w] = b]
      /\ b.at = "record" /\ b.id = worker[w].id /\ b.success = ok /\ b.completedAt = clock
      /\ "at" \in DOMAIN b
      /\ UNCHANGED <<jobs, executions, jobExecMap, queue>> /\ submitted' = submitted
      /\ UNCHANGED <<processed, failed, recorders, dropped>>
  BY <1>2, <1>3 DEF NoResponse, Respond, repoVars, Worker, optVars
<1>5. BooksOK'
  BY <1>4, BooksAlone
<1>6. Apart'
  BY <1>4, ApartKept
<1>7. Balance'
  <2>1. \A id : Hand(b, id) = Hand(worker[w], id)
    BY <1>4 DEF Hand, InHand
  <2> QED
    BY <1>4, <2>1, BalanceAlone
<1>8. CountersOK'
  <2>1. ASSUME NEW k \in BOOLEAN
        PROVE  /\ Told(k)' \in Int /\ Registered(k)' \in Int
               /\ Told(k)' - Told(k) <= (Registered(k)' + AtRecord(b, k) - AtCount(b, k))
                     - (Registered(k) + AtRecord(worker[w], k) - AtCount(worker[w], k))
               /\ k => Told(k)' - Told(k) = (Registered(k)' + AtRecord(b, k) - AtCount(b, k))
                     - (Registered(k) + AtRecord(worker[w], k) - AtCount(worker[w], k))
    <3>1. /\ AtRecord(worker[w], k) = 0 /\ AtCount(worker[w], k) = 0 /\ AtCount(b, k) = 0
          /\ AtRecord(b, k) = IF ok = k THEN 1 ELSE 0
      BY <1>4 DEF AtRecord, AtCount
    <3>2. Registered(k)' = Registered(k) /\ Registered(k) \in Int
      BY <1>4, CountsAreNat DEF Registered, RecordsWith, AInv
    <3>3. PICK p \in Int, f \in Int : p = processed /\ f = failed
      BY DEF AInv, CountersOK
    <3>4. /\ Told(k) = IF k THEN s + (p - f) ELSE n + f
          /\ Told(k)' = IF k THEN t + (p - f) ELSE m + f
      BY <1>1, <1>2, <1>4, <3>3 DEF Told
    <3>5. PICK r, a, c, g, h, x, y, z :
             /\ r = Registered(k) /\ a = AtRecord(worker[w], k) /\ c = AtCount(worker[w], k)
             /\ g = AtRecord(b, k) /\ h = AtCount(b, k) /\ x = Told(k) /\ y = Told(k)'
             /\ z = Registered(k)'
      OBVIOUS
    <3>6. /\ y \in Int /\ x \in Int /\ y - x <= g /\ (k => y - x = g)
          /\ a = 0 /\ c = 0 /\ h = 0 /\ g \in Int /\ z = r /\ r \in Int
      <4>1. CASE k
        <5>1. x = s + (p - f) /\ y = t + (p - f) /\ t \in Int
          BY <1>2, <3>4, <3>5, <4>1
        <5>2. y - x = t - s
          BY <5>1
        <5>3. (ok = TRUE => g = 1) /\ (ok = FALSE => g = 0)
          BY <2>1, <3>1, <3>5, <4>1, Zenon
        <5>4. g = t - s
          BY <1>2, <5>3
        <5> QED
          BY <3>1, <3>2, <3>5, <5>1, <5>2, <5>4
      <4>2. CASE ~k
        <5>1. x = n + f /\ y = m + f /\ m \in Int
          BY <1>2, <3>4, <3>5, <4>2
        <5>2. y - x = m - n
          BY <5>1
        <5>3. (ok = TRUE => g = 0) /\ (ok = FALSE => g = 1)
          BY <2>1, <3>1, <3>5, <4>2, Zenon
        <5>4. m - n <= g
          BY <1>2, <5>3
        <5> QED
          BY <3>1, <3>2, <3>5, <4>2, <5>1, <5>2, <5>4
      <4> QED
        BY <4>1, <4>2
    <3>7. /\ z \in Int /\ y - x <= (z + g - h) - (r + a - c)
          /\ k => y - x = (z + g - h) - (r + a - c)
      BY <3>6
    <3> QED
      BY <3>5, <3>6, <3>7
  <2>2. Follows(worker[w], b)
    BY <2>1 DEF Follows
  <2>3. t \in Int /\ m \in Int /\ processed' \in Int /\ failed' \in Int
    BY <1>2, <1>4 DEF AInv, CountersOK
  <2> QED
    BY <1>2, <1>4, <2>2, <2>3, CountersKept
<1>9. ~optimized' => TouchOK'
  <2>1. clock # Nil
    BY DEF AInv, BooksOK, Nil
  <2> QED
    BY <1>4, <2>1, TouchKept
<1> QED
  BY <1>5, <1>6, <1>7, <1>8, <1>9 DEF AInv

(***************************************************************************)
(* A record that is written is one more of its job and of its outcome; and *)
(* no job, no submission is touched by it.                                 *)
(***************************************************************************)
LEMMA RecordWritten ==
    ASSUME IsFiniteSet(Workers), LInv, AInv, NEW ex, ex.jobID \in DOMAIN jobs,
           CreateExecution(NoID, ex), NEW x, x = [ex EXCEPT !.executedAt = clock],
           x.completedAt = ex.completedAt
    PROVE  /\ jobs' = jobs
           /\ \A i \in DOMAIN jobs :
                 Len(jobExecMap'[i]) = Len(jobExecMap[i]) + IF i = ex.jobID THEN 1 ELSE 0
           /\ \A ok : RecordsWith(ok)' = RecordsWith(ok) + IF x.success = ok THEN 1 ELSE 0
<1>1. /\ jobs' = jobs
      /\ \A i \in DOMAIN jobs :
            Len(jobExecMap'[i]) = Len(jobExecMap[i]) + IF i = ex.jobID THEN 1 ELSE 0
  BY CreateExecutionGrows DEF LInv
<1>2. PICK e, f, new, y : /\ e = executions /\ f = executions' /\ new \notin DOMAIN e
                       /\ f = With(e, new, y) /\ y = x
  BY CreateExecutionGrows DEF LInv
<1>3. \A ok : /\ Cardinality(Having(f, ok)) =
                    Cardinality(Having(e, ok)) + (IF y.success = ok THEN 1 ELSE 0)
              /\ RecordsWith(ok) = Cardinality(Having(e, ok))
  <2>1. /\ IsFiniteSet(DOMAIN e)
        /\ \A ok : RecordsWith(ok) = Cardinality(Having(e, ok))
    BY <1>2, RecordsFinite
  <2>2. new \notin DOMAIN e /\ f = With(e, new, y)
    BY <1>2
  <2>3. \A ok : /\ Cardinality(Having(e, ok)) \in Nat
                /\ Cardinality(Having(f, ok)) =
                      Cardinality(Having(e, ok)) + (IF y.success = ok THEN 1 ELSE 0)
    BY <2>1, <2>2, RecordCounts
  <2> QED
    BY <2>1, <2>3
<1>4. \A ok : RecordsWith(ok)' = Cardinality(Having(f, ok))
  BY <1>2 DEF RecordsWith, Having
<1> QED
  BY <1>1, <1>2, <1>3, <1>4

\* A worker writes the record: what it had in hand is on record now.
LEMMA RecordKeeps ==
    ASSUME IsFiniteSet(Workers), LInv, AInv, ~optimized, NEW w \in Workers,
           RecordExecution(w), mainPC # "exited",
           UNCHANGED <<clock, mainPC, submitted, optimized>>, UNCHANGED optVars
    PROVE  AInv'
<1>1. PICK id, b, ex, y : /\ id = worker[w].id /\ b = [worker[w] EXCEPT !.at = "touch"]
                          /\ ex = Outcome(w) /\ y = [ex EXCEPT !.executedAt = clock]
  OBVIOUS
<1>2. worker[w].at = "record" /\ id \in DOMAIN jobs /\ worker[w].completedAt # Nil
  BY <1>1 DEF RecordExecution, LInv, WorkersOK, AInv, TouchOK
<1>3. /\ ex.jobID = id /\ ex.completedAt = y.completedAt /\ y.success = worker[w].success
  BY <1>1 DEF Outcome
<1>4. /\ worker' = [worker EXCEPT ![w] = b] /\ CreateExecution(NoID, ex)
      /\ UNCHANGED <<queue, executionsTotal>> /\ submitted' = submitted
      /\ UNCHANGED <<processed, failed, recorders, dropped>>
  BY <1>1, <1>2 DEF RecordExecution, optVars
<1>5. b.id = id /\ b.completedAt = worker[w].completedAt /\ b.success = worker[w].success
  BY <1>1
<1>6. b.at = "touch" /\ "at" \in DOMAIN b
  <2>1. "at" \in DOMAIN worker[w]
    BY DEF AInv, BooksOK
  <2> QED
    BY <1>1, <2>1
<1>7. /\ jobs' = jobs
      /\ \A i \in DOMAIN jobs :
            Len(jobExecMap'[i]) = Len(jobExecMap[i]) + IF i = id THEN 1 ELSE 0
      /\ \A ok : RecordsWith(ok)' = RecordsWith(ok) + IF y.success = ok THEN 1 ELSE 0
  <2>1. /\ ex.jobID \in DOMAIN jobs /\ CreateExecution(NoID, ex)
        /\ y = [ex EXCEPT !.executedAt = clock] /\ y.completedAt = ex.completedAt
    BY <1>1, <1>2, <1>3, <1>4
  <2> QED
    BY <1>3, <2>1, RecordWritten, ZenonT(30)
<1>8. BooksOK'
  BY <1>2, <1>4, <1>6, <1>7, BooksAlone
<1>9. Apart'
  BY <1>4, <1>6, ApartKept
<1>10. Balance'
  <2>1. ASSUME NEW i \in DOMAIN jobs
        PROVE  /\ Elsewhere(i)' \in Int
               /\ Elsewhere(i)' + Hand(b, i) = Elsewhere(i) + Hand(worker[w], i)
    <3>1. PICK p, o, l, d, j, m, e, x, h :
             /\ p = Cardinality(Places(queue, i)) /\ o = Cardinality(Owed(recorders, i))
             /\ l = Len(jobExecMap[i]) /\ d = CountIn(dropped, i)
             /\ j = Hand(worker[w], i) /\ m = Len(jobExecMap'[i])
             /\ e = Elsewhere(i) /\ x = Elsewhere(i)' /\ h = Hand(b, i)
      OBVIOUS
    <3>2. p \in Nat /\ o \in Nat /\ l \in Nat /\ d \in Nat /\ j \in Nat
      BY <3>1, CountsAreNat DEF AInv, Hand
    <3>3. h = 0 /\ m = l + j
      BY <1>1, <1>2, <1>6, <1>7, <3>1 DEF Hand, InHand
    <3>4. e = p + o + l + d /\ x = p + o + m + d
      BY <1>4, <3>1 DEF Elsewhere
    <3>5. x \in Int /\ x + h = e + j
      BY <3>2, <3>3, <3>4
    <3> QED
      BY <3>1, <3>5
  <2>2. Moves(worker[w], b)
    BY <2>1 DEF Moves
  <2> QED
    BY <1>4, <1>7, <2>2, BalanceKept
<1>11. CountersOK'
  <2>1. /\ \E s, f \in Int : executionsTotal = [success |-> s, failure |-> f]
        /\ processed \in Int /\ failed \in Int
    BY DEF AInv, CountersOK
  <2>2. ASSUME NEW ok \in BOOLEAN
        PROVE  /\ Told(ok)' \in Int /\ Registered(ok)' \in Int
               /\ Told(ok)' - Told(ok) = (Registered(ok)' + AtRecord(b, ok) - AtCount(b, ok))
                     - (Registered(ok) + AtRecord(worker[w], ok) - AtCount(worker[w], ok))
               /\ Told(ok)' - Told(ok) <= (Registered(ok)' + AtRecord(b, ok) - AtCount(b, ok))
                     - (Registered(ok) + AtRecord(worker[w], ok) - AtCount(worker[w], ok))
    <3>1. Told(ok)' = Told(ok) /\ Told(ok) \in Int
      BY <1>4, <2>1 DEF Told
    <3>2. /\ AtRecord(b, ok) = 0 /\ AtCount(b, ok) = 0 /\ AtCount(worker[w], ok) = 0
          /\ AtRecord(worker[w], ok) = IF y.success = ok THEN 1 ELSE 0
      BY <1>2, <1>3, <1>6 DEF AtRecord, AtCount
    <3>3. PICK r, u, x : /\ r = RecordsWith(ok) /\ u = Cardinality(OwedAs(recorders, ok))
                         /\ x = IF y.success = ok THEN 1 ELSE 0
      OBVIOUS
    <3>4. r \in Nat /\ u \in Nat /\ x \in Nat
      BY <3>3, RecordsFinite, DebtsAreNat DEF AInv, BooksOK
    <3>5. Registered(ok) = r + u /\ Registered(ok)' = (r + x) + u
      BY <1>4, <1>7, <3>3 DEF Registered
    <3>6. PICK t, z, q, a : /\ t = Told(ok) /\ z = Registered(ok)' /\ q = Registered(ok)
                            /\ a = AtRecord(worker[w], ok)
      OBVIOUS
    <3>7. /\ t \in Int /\ z \in Int
          /\ t - t = (z + 0 - 0) - (q + a - 0) /\ t - t <= (z + 0 - 0) - (q + a - 0)
      BY <3>1, <3>2, <3>3, <3>4, <3>5, <3>6
    <3> QED
      BY <3>1, <3>2, <3>6, <3>7
  <2>3. Follows(worker[w], b)
    BY <2>2 DEF Follows
  <2> QED
    BY <1>4, <2>1, <2>3, CountersKept
<1>12. ~optimized' => TouchOK'
  <2>1. /\ DOMAIN worker' = Workers /\ worker'[w] = b
        /\ \A v \in Workers : v # w => worker'[v] = worker[v]
    BY <1>4 DEF LInv, WorkersOK
  <2>2. \A v \in Workers :
           worker'[v].at \in {"record", "touch"} => worker'[v].completedAt # Nil
    BY <1>2, <1>5, <2>1 DEF AInv, TouchOK
  <2>3. ASSUME NEW i \in DOMAIN jobs, Len(jobExecMap'[i]) > 0
        PROVE  \/ jobs[i].lastExecuted # Nil
               \/ \E v \in Workers : worker'[v].at = "touch" /\ worker'[v].id = i
    <3>1. CASE i = id
      BY <1>5, <1>6, <2>1, <3>1
    <3>2. CASE i # id
      <4>1. Len(jobExecMap'[i]) = Len(jobExecMap[i]) + 0
        BY <1>7, <3>2
      <4>2. Len(jobExecMap[i]) > 0
        BY <2>3, <4>1, CountsAreNat DEF AInv
      <4>3. \/ jobs[i].lastExecuted # Nil
            \/ \E v \in Workers : worker[v].at = "touch" /\ worker[v].id = i
        BY <4>2 DEF AInv, TouchOK
      <4> QED
        BY <1>2, <2>1, <4>3
    <3> QED
      BY <3>1, <3>2
  <2> QED
    BY <1>7, <2>2, <2>3 DEF TouchOK
<1> QED
  BY <1>8, <1>9, <1>10, <1>11, <1>12 DEF AInv

\* A worker gives the job its time, and is done with it.
LEMMA TouchKeeps ==
    ASSUME IsFiniteSet(Workers), LInv, AInv, ~optimized, NEW w \in Workers,
           TouchJob(w), mainPC # "exited",
           UNCHANGED <<clock, mainPC, submitted, optimized>>, UNCHANGED optVars
    PROVE  AInv'
<1>1. PICK id, t, b : id = worker[w].id /\ t = worker[w].completedAt /\ b = IdleWorker
  OBVIOUS
<1>2. /\ worker[w].at = "touch" /\ worker' = [worker EXCEPT ![w] = b] /\ b.at = "select"
      /\ "at" \in DOMAIN b /\ UpdateJobLastExecuted(id, t)
      /\ UNCHANGED <<queue, executionsTotal, executions, jobExecMap>>
      /\ UNCHANGED <<processed, failed, recorders, dropped>> /\ submitted' = submitted
  BY <1>1 DEF TouchJob, IdleWorker, Worker, UpdateJobLastExecuted, optVars
<1>3. t # Nil
  BY <1>1, <1>2 DEF AInv, TouchOK
<1>4. /\ DOMAIN jobs' = DOMAIN jobs
      /\ \A i \in DOMAIN jobs :
            jobs'[i].lastExecuted = IF i = id THEN t ELSE jobs[i].lastExecuted
  BY <1>2, LastExecutedSet DEF LInv
<1>5. BooksOK'
  BY <1>2, <1>4, BooksAlone
<1>6. Apart'
  BY <1>2, ApartKept
<1>7. Balance'
  <2>1. \A i : Hand(b, i) = Hand(worker[w], i)
    BY <1>2 DEF Hand, InHand
  <2> QED
    BY <1>2, <1>4, <2>1, BalanceAlone
<1>8. CountersOK'
  BY <1>2, CountersAlone
<1>9. ~optimized' => TouchOK'
  <2>1. /\ DOMAIN worker' = Workers /\ worker'[w] = b
        /\ \A v \in Workers : v # w => worker'[v] = worker[v]
    BY <1>2 DEF LInv, WorkersOK
  <2>2. \A v \in Workers :
           worker'[v].at \in {"record", "touch"} => worker'[v].completedAt # Nil
    BY <1>2, <2>1 DEF AInv, TouchOK
  <2>3. ASSUME NEW i \in DOMAIN jobs, Len(jobExecMap[i]) > 0
        PROVE  \/ jobs'[i].lastExecuted # Nil
               \/ \E v \in Workers : worker'[v].at = "touch" /\ worker'[v].id = i
    <3>1. CASE i = id
      BY <1>3, <1>4, <3>1
    <3>2. CASE i # id
      <4>1. \/ jobs[i].lastExecuted # Nil
            \/ \E v \in Workers : worker[v].at = "touch" /\ worker[v].id = i
        BY <2>3 DEF AInv, TouchOK
      <4>2. jobs'[i].lastExecuted = jobs[i].lastExecuted
        BY <1>4, <3>2
      <4> QED
        BY <1>1, <2>1, <3>2, <4>1, <4>2
    <3> QED
      BY <3>1, <3>2
  <2> QED
    BY <1>2, <1>4, <2>2, <2>3 DEF TouchOK
<1> QED
  BY <1>5, <1>6, <1>7, <1>8, <1>9 DEF AInv

\* go recordExecution: one goroutine more that owes a record.
LEMMA SpawnCounts ==
    ASSUME BagOK(recorders), \A r \in DOMAIN recorders : "at" \in DOMAIN r /\ r.success \in BOOLEAN,
           NEW y, NEW s, Spawn(y, s)
    PROVE  /\ BagOK(recorders')
           /\ s \in BOOLEAN =>
                 \A r \in DOMAIN recorders' : "at" \in DOMAIN r /\ r.success \in BOOLEAN
           /\ \A i : Cardinality(Owed(recorders', i)) =
                        Cardinality(Owed(recorders, i)) + (IF i = y THEN 1 ELSE 0)
           /\ \A ok : Cardinality(OwedAs(recorders', ok)) =
                         Cardinality(OwedAs(recorders, ok)) + (IF s = ok THEN 1 ELSE 0)
<1>1. PICK a, c, q : /\ a = recorders /\ c = recorders' /\ q = Recorder("start", y, s, Nil)
                     /\ c = a (+) SetToBag({q})
  BY DEF Spawn
<1>2. q.at \in Waits /\ q.id = y /\ q.success = s /\ "at" \in DOMAIN q
  BY <1>1 DEF Recorder, Waits
<1>a. BagOK(a)
  BY <1>1
<1>3. c = a (+) SetToBag({q})
  BY <1>1
<1>4. /\ BagOK(c) /\ DOMAIN c \subseteq DOMAIN a \cup {q}
      /\ \A i : Cardinality(Owed(c, i)) = Cardinality(Owed(a, i)) + Debt(q, i)
      /\ \A ok : Cardinality(OwedAs(c, ok)) = Cardinality(OwedAs(a, ok)) + DebtAs(q, ok)
  <2>1. BagOK(c) /\ DOMAIN c \subseteq DOMAIN a \cup {q} /\ OwesMore(c, a, q)
    BY <1>a, <1>3, BagJoins
  <2> QED
    BY <2>1 DEF OwesMore
<1>5. /\ \A i : Debt(q, i) = IF i = y THEN 1 ELSE 0
      /\ \A ok : DebtAs(q, ok) = IF s = ok THEN 1 ELSE 0
  BY <1>2 DEF Debt, DebtAs
<1>6. ASSUME s \in BOOLEAN, NEW z \in DOMAIN c
      PROVE  "at" \in DOMAIN z /\ z.success \in BOOLEAN
  <2>1. CASE z \in DOMAIN a
    BY <1>1, <2>1
  <2>2. CASE z = q
    BY <1>2, <1>6, <2>2, Zenon
  <2> QED
    BY <1>4, <1>6, <2>1, <2>2
<1> QED
  BY <1>1, <1>4, <1>5, <1>6

(***************************************************************************)
(* A worker hands its outcome over.  What was in its hand is a goroutine's *)
(* to record; and the worker is about to count it, or the outcome is a     *)
(* failure that is not counted.                                            *)
(***************************************************************************)
LEMMA HandOverKeeps ==
    ASSUME IsFiniteSet(Workers), LInv, AInv, optimized, NEW w \in Workers, NEW s \in BOOLEAN,
           worker[w].at = "request", Spawn(worker[w].id, s),
           NEW b, worker' = [worker EXCEPT ![w] = b], "at" \in DOMAIN b,
           (b.at = "count" /\ b.success = s) \/ (b.at = "select" /\ s = FALSE),
           UNCHANGED <<queue, executionsTotal, processed, failed, dropped>>,
           UNCHANGED repoVars, mainPC # "exited",
           UNCHANGED <<clock, mainPC, submitted, optimized>>
    PROVE  AInv'
<1>1. UNCHANGED <<jobs, executions, jobExecMap>>
  BY DEF repoVars
<1>2. /\ BagOK(recorders')
      /\ \A r \in DOMAIN recorders' : "at" \in DOMAIN r /\ r.success \in BOOLEAN
      /\ \A i : Cardinality(Owed(recorders', i)) =
                   Cardinality(Owed(recorders, i)) + (IF i = worker[w].id THEN 1 ELSE 0)
      /\ \A ok : Cardinality(OwedAs(recorders', ok)) =
                    Cardinality(OwedAs(recorders, ok)) + (IF s = ok THEN 1 ELSE 0)
  <2>1. /\ BagOK(recorders)
        /\ \A r \in DOMAIN recorders : "at" \in DOMAIN r /\ r.success \in BOOLEAN
    BY DEF AInv, BooksOK
  <2> QED
    BY <2>1, SpawnCounts
<1>3. BooksOK'
  BY <1>1, <1>2, BooksKept
<1>4. Apart'
  BY ApartKept
<1>5. Balance'
  <2>1. ASSUME NEW i \in DOMAIN jobs
        PROVE  /\ Elsewhere(i)' \in Int
               /\ Elsewhere(i)' + Hand(b, i) = Elsewhere(i) + Hand(worker[w], i)
    <3>1. PICK p, o, l, d, j, m, e, x, h :
             /\ p = Cardinality(Places(queue, i)) /\ o = Cardinality(Owed(recorders, i))
             /\ l = Len(jobExecMap[i]) /\ d = CountIn(dropped, i)
             /\ j = Hand(worker[w], i) /\ m = Cardinality(Owed(recorders', i))
             /\ e = Elsewhere(i) /\ x = Elsewhere(i)' /\ h = Hand(b, i)
      OBVIOUS
    <3>2. p \in Nat /\ o \in Nat /\ l \in Nat /\ d \in Nat /\ j \in Nat
      BY <3>1, CountsAreNat DEF AInv, Hand
    <3>3. h = 0 /\ m = o + j
      BY <1>2, <3>1 DEF Hand, InHand
    <3>4. e = p + o + l + d /\ x = p + m + l + d
      BY <1>1, <3>1 DEF Elsewhere
    <3>5. x \in Int /\ x + h = e + j
      BY <3>2, <3>3, <3>4
    <3> QED
      BY <3>1, <3>5
  <2>2. Moves(worker[w], b)
    BY <2>1 DEF Moves
  <2> QED
    BY <1>1, <2>2, BalanceKept
<1>6. CountersOK'
  <2>1. /\ \E t, f \in Int : executionsTotal = [success |-> t, failure |-> f]
        /\ processed \in Int /\ failed \in Int
    BY DEF AInv, CountersOK
  <2>2. ASSUME NEW ok \in BOOLEAN
        PROVE  /\ Told(ok)' \in Int /\ Registered(ok)' \in Int
               /\ Told(ok)' - Told(ok) <= (Registered(ok)' + AtRecord(b, ok) - AtCount(b, ok))
                     - (Registered(ok) + AtRecord(worker[w], ok) - AtCount(worker[w], ok))
               /\ ok => Told(ok)' - Told(ok) = (Registered(ok)' + AtRecord(b, ok) - AtCount(b, ok))
                     - (Registered(ok) + AtRecord(worker[w], ok) - AtCount(worker[w], ok))
    <3>1. PICK t, q, z, x, k :
             /\ t = Told(ok) /\ q = Registered(ok) /\ z = Registered(ok)'
             /\ x = (IF s = ok THEN 1 ELSE 0) /\ k = AtCount(b, ok)
      OBVIOUS
    <3>2. Told(ok)' = t /\ t \in Int
      BY <2>1, <3>1 DEF Told
    <3>3. AtRecord(worker[w], ok) = 0 /\ AtCount(worker[w], ok) = 0 /\ AtRecord(b, ok) = 0
      BY DEF AtRecord, AtCount
    <3>4. x \in Nat /\ k \in Nat /\ k <= x /\ (ok => k = x)
      <4>1. CASE b.at = "count"
        BY <3>1, <4>1 DEF AtCount
      <4>2. CASE b.at = "select"
        <5>1. k = 0 /\ s = FALSE /\ x \in {0, 1}
          BY <3>1, <4>2 DEF AtCount
        <5>2. ok => x = 0
          BY <3>1, <5>1, Zenon
        <5> QED
          BY <5>1, <5>2
      <4> QED
        BY <4>1, <4>2
    <3>5. q \in Int /\ z = q + x
      <4>1. PICK r, u : r = RecordsWith(ok) /\ u = Cardinality(OwedAs(recorders, ok))
        OBVIOUS
      <4>2. r \in Nat /\ u \in Nat
        BY <4>1, RecordsFinite, DebtsAreNat DEF AInv, BooksOK
      <4>3. q = r + u /\ z = r + (u + x)
        BY <1>1, <1>2, <3>1, <4>1 DEF Registered, RecordsWith
      <4> QED
        BY <3>4, <4>2, <4>3
    <3>6. /\ z \in Int /\ t - t <= (z + 0 - k) - (q + 0 - 0)
          /\ ok => t - t = (z + 0 - k) - (q + 0 - 0)
      BY <3>2, <3>4, <3>5
    <3> QED
      BY <3>1, <3>2, <3>3, <3>6
  <2>3. Follows(worker[w], b)
    BY <2>2 DEF Follows
  <2> QED
    BY <2>1, <2>3, CountersKept
<1> QED
  BY <1>3, <1>4, <1>5, <1>6 DEF AInv

\* A worker counts what it has handed over.
LEMMA CountKeeps ==
    ASSUME IsFiniteSet(Workers), LInv, AInv, optimized, NEW w \in Workers,
           CountProcessed(w), mainPC # "exited",
           UNCHANGED <<clock, mainPC, submitted, optimized>>
    PROVE  AInv'
<1>1. PICK b : b = IdleWorker
  OBVIOUS
<1>2. /\ worker[w].at = "count" /\ worker' = [worker EXCEPT ![w] = b] /\ b.at = "select"
      /\ "at" \in DOMAIN b
      /\ UNCHANGED <<jobs, executions, jobExecMap, queue, executionsTotal, recorders, dropped>>
      /\ submitted' = submitted
  BY <1>1 DEF CountProcessed, IdleWorker, Worker, repoVars
<1>3. PICK s \in Int, n \in Int : executionsTotal = [success |-> s, failure |-> n]
  BY DEF AInv, CountersOK
<1>4. PICK p \in Int, f \in Int, g \in Int :
         /\ p = processed /\ f = failed
         /\ processed' = p + 1 /\ failed' = g
         /\ \/ worker[w].success = TRUE /\ g = f
            \/ worker[w].success = FALSE /\ g = f + 1
  <2>1. processed \in Int /\ failed \in Int /\ worker[w].success \in BOOLEAN
    BY <1>2 DEF AInv, CountersOK, BooksOK
  <2>2. /\ processed' = processed + 1
        /\ failed' = IF worker[w].success THEN failed ELSE failed + 1
    BY DEF CountProcessed
  <2> QED
    BY <2>1, <2>2
<1>5. BooksOK'
  BY <1>2, BooksAlone
<1>6. Apart'
  BY <1>2, ApartKept
<1>7. Balance'
  <2>1. \A id : Hand(b, id) = Hand(worker[w], id)
    BY <1>2 DEF Hand, InHand
  <2> QED
    BY <1>2, <2>1, BalanceAlone
<1>8. CountersOK'
  <2>1. ASSUME NEW k \in BOOLEAN
        PROVE  /\ Told(k)' \in Int /\ Registered(k)' \in Int
               /\ Told(k)' - Told(k) <= (Registered(k)' + AtRecord(b, k) - AtCount(b, k))
                     - (Registered(k) + AtRecord(worker[w], k) - AtCount(worker[w], k))
               /\ k => Told(k)' - Told(k) = (Registered(k)' + AtRecord(b, k) - AtCount(b, k))
                     - (Registered(k) + AtRecord(worker[w], k) - AtCount(worker[w], k))
    <3>1. /\ AtRecord(worker[w], k) = 0 /\ AtRecord(b, k) = 0 /\ AtCount(b, k) = 0
          /\ AtCount(worker[w], k) = IF worker[w].success = k THEN 1 ELSE 0
      BY <1>2 DEF AtRecord, AtCount
    <3>2. Registered(k)' = Registered(k) /\ Registered(k) \in Int
      BY <1>2, CountsAreNat DEF Registered, RecordsWith, AInv
    <3>3. /\ Told(k) = IF k THEN s + (p - f) ELSE n + f
          /\ Told(k)' = IF k THEN s + ((p + 1) - g) ELSE n + g
      BY <1>2, <1>3, <1>4 DEF Told
    <3>4. PICK r, c, x, y : /\ r = Registered(k) /\ c = AtCount(worker[w], k)
                            /\ x = Told(k) /\ y = Told(k)'
      OBVIOUS
    <3>5. y \in Int /\ x \in Int /\ y - x = c /\ c \in Int
      <4>1. CASE k
        <5>1. x = s + (p - f) /\ y = s + ((p + 1) - g)
          BY <3>3, <3>4, <4>1
        <5>2. /\ worker[w].success = TRUE => c = 1
              /\ worker[w].success = FALSE => c = 0
          BY <2>1, <3>1, <3>4, <4>1, Zenon
        <5>3. c = 1 + (f - g)
          BY <1>4, <5>2
        <5> QED
          BY <5>1, <5>3
      <4>2. CASE ~k
        <5>1. x = n + f /\ y = n + g
          BY <3>3, <3>4, <4>2
        <5>2. /\ worker[w].success = TRUE => c = 0
              /\ worker[w].success = FALSE => c = 1
          BY <2>1, <3>1, <3>4, <4>2, Zenon
        <5>3. c = g - f
          BY <1>4, <5>2
        <5> QED
          BY <5>1, <5>3
      <4> QED
        BY <4>1, <4>2
    <3>6. /\ r \in Int /\ y - x <= (r + 0 - 0) - (r + 0 - c)
          /\ y - x = (r + 0 - 0) - (r + 0 - c)
      BY <3>2, <3>4, <3>5
    <3> QED
      BY <3>1, <3>2, <3>4, <3>5, <3>6
  <2>2. Follows(worker[w], b)
    BY <2>1 DEF Follows
  <2>3. processed' \in Int /\ failed' \in Int
    BY <1>4
  <2> QED
    BY <1>2, <1>3, <2>2, <2>3, CountersKept
<1> QED
  BY <1>2, <1>5, <1>6, <1>7, <1>8 DEF AInv

-----------------------------------------------------------------------------
(* Steps of the goroutines that record.                                    *)

\* A goroutine goes on or ends: what has to be shown of the counts.
LEMMA RecorderMoves ==
    ASSUME AInv, optimized, BagOK(recorders'),
           \A r \in DOMAIN recorders' : "at" \in DOMAIN r /\ r.success \in BOOLEAN,
           UNCHANGED <<clock, mainPC, submitted, optimized>>,
           UNCHANGED <<worker, executionsTotal, processed, failed, dropped>>,
           DOMAIN jobs' = DOMAIN jobs,
           \A i \in DOMAIN jobs : Elsewhere(i)' = Elsewhere(i),
           \A ok \in BOOLEAN : Registered(ok)' = Registered(ok)
    PROVE  AInv'
<1>1. BooksOK'
  BY DEF AInv, BooksOK, WorkersDone
<1>2. Apart'
  BY DEF AInv, Apart
<1>3. Balance'
  BY BalanceStays
<1>4. CountersOK'
  BY CountersStay
<1> QED
  BY <1>1, <1>2, <1>3, <1>4 DEF AInv

\* It reads the clock: it owes its record as before.
LEMMA StampKeeps ==
    ASSUME AInv, optimized, NEW r \in DOMAIN recorders, StampRecord(r),
           UNCHANGED <<clock, mainPC, submitted, optimized>>
    PROVE  AInv'
<1>1. PICK s : s = Recorder("record", r.id, r.success, clock)
  OBVIOUS
<1>2. /\ r.at \in Waits /\ s.at \in Waits /\ s.id = r.id /\ s.success = r.success
      /\ "at" \in DOMAIN s /\ Becomes(r, {s})
      /\ UNCHANGED <<jobs, executions, jobExecMap>> /\ UNCHANGED <<queue, worker, executionsTotal>>
      /\ UNCHANGED <<processed, failed, dropped>>
  BY <1>1 DEF StampRecord, Recorder, Waits, repoVars, execVars
<1>3. BagOK(recorders) /\ \A q \in DOMAIN recorders : "at" \in DOMAIN q /\ q.success \in BOOLEAN
  BY DEF AInv, BooksOK
<1>4. /\ BagOK(recorders') /\ DOMAIN recorders' \subseteq DOMAIN recorders \cup {s}
      /\ \A id : Cardinality(Owed(recorders', id)) + Debt(r, id) =
                    Cardinality(Owed(recorders, id)) + Debt(s, id)
      /\ \A ok : Cardinality(OwedAs(recorders', ok)) + DebtAs(r, ok) =
                    Cardinality(OwedAs(recorders, ok)) + DebtAs(s, ok)
  BY <1>2, <1>3, BecomesCounts
<1>5. ASSUME NEW q \in DOMAIN recorders' PROVE "at" \in DOMAIN q /\ q.success \in BOOLEAN
  <2>1. CASE q \in DOMAIN recorders
    BY <1>3, <2>1
  <2>2. CASE q = s
    <3>1. r.success \in BOOLEAN
      BY <1>3
    <3> QED
      BY <1>2, <2>2, <3>1, Zenon
  <2> QED
    BY <1>4, <2>1, <2>2
<1>6. /\ \A id : Debt(r, id) = Debt(s, id) /\ Debt(r, id) \in Int
      /\ \A ok : DebtAs(r, ok) = DebtAs(s, ok) /\ DebtAs(r, ok) \in Int
  BY <1>2 DEF Debt, DebtAs
<1>7. /\ \A id : Cardinality(Owed(recorders, id)) \in Nat /\ Cardinality(Owed(recorders', id)) \in Nat
      /\ \A ok : /\ Cardinality(OwedAs(recorders, ok)) \in Nat
                 /\ Cardinality(OwedAs(recorders', ok)) \in Nat
  BY <1>3, <1>4, DebtsAreNat
<1>8. /\ \A id : Cardinality(Owed(recorders', id)) = Cardinality(Owed(recorders, id))
      /\ \A ok : Cardinality(OwedAs(recorders', ok)) = Cardinality(OwedAs(recorders, ok))
  BY <1>4, <1>6, <1>7
<1>9. /\ \A i \in DOMAIN jobs : Elsewhere(i)' = Elsewhere(i)
      /\ \A ok \in BOOLEAN : Registered(ok)' = Registered(ok)
  BY <1>2, <1>8 DEF Elsewhere, Registered, RecordsWith
<1> QED
  BY <1>2, <1>4, <1>5, <1>9, RecorderMoves

\* It writes its record: what it owed is on record now.
LEMMA StoreKeeps ==
    ASSUME IsFiniteSet(Workers), LInv, AInv, optimized, NEW r \in DOMAIN recorders,
           StoreRecord(r), UNCHANGED <<clock, mainPC, submitted, optimized>>
    PROVE  AInv'
<1>1. PICK s, id, ok, ex, y :
         /\ s = [r EXCEPT !.at = "touch"] /\ id = r.id /\ ok = r.success
         /\ ex = [jobID |-> r.id, executedAt |-> clock,
                  completedAt |-> r.completedAt, success |-> r.success]
         /\ y = [ex EXCEPT !.executedAt = clock]
  OBVIOUS
<1>2. /\ BagOK(recorders) /\ \A q \in DOMAIN recorders : "at" \in DOMAIN q /\ q.success \in BOOLEAN
      /\ r.id \in DOMAIN jobs
  BY DEF AInv, BooksOK, LInv, RecordersOK, BagToSet
<1>3. /\ r.at = "record" /\ s.at = "touch" /\ s.success = ok /\ "at" \in DOMAIN s
      /\ Becomes(r, {s}) /\ CreateExecution(NoID, ex)
      /\ UNCHANGED <<queue, worker, executionsTotal>> /\ UNCHANGED <<processed, failed, dropped>>
  BY <1>1, <1>2 DEF StoreRecord, execVars
<1>4. /\ jobs' = jobs
      /\ \A i \in DOMAIN jobs :
            Len(jobExecMap'[i]) = Len(jobExecMap[i]) + IF i = id THEN 1 ELSE 0
      /\ \A k : RecordsWith(k)' = RecordsWith(k) + IF ok = k THEN 1 ELSE 0
  <2>1. /\ ex.jobID = id /\ ex.jobID \in DOMAIN jobs /\ y.completedAt = ex.completedAt
        /\ y.success = ok
    BY <1>1, <1>2
  <2>2. y = [ex EXCEPT !.executedAt = clock]
    BY <1>1
  <2> QED
    BY <1>3, <2>1, <2>2, RecordWritten, ZenonT(30)
<1>5. /\ BagOK(recorders') /\ DOMAIN recorders' \subseteq DOMAIN recorders \cup {s}
      /\ \A i : Cardinality(Owed(recorders', i)) + Debt(r, i) =
                   Cardinality(Owed(recorders, i)) + Debt(s, i)
      /\ \A k : Cardinality(OwedAs(recorders', k)) + DebtAs(r, k) =
                   Cardinality(OwedAs(recorders, k)) + DebtAs(s, k)
  BY <1>2, <1>3, BecomesCounts
<1>6. ASSUME NEW q \in DOMAIN recorders' PROVE "at" \in DOMAIN q /\ q.success \in BOOLEAN
  <2>1. CASE q \in DOMAIN recorders
    BY <1>2, <2>1
  <2>2. CASE q = s
    <3>1. ok \in BOOLEAN
      BY <1>1, <1>2, Zenon
    <3> QED
      BY <1>3, <2>2, <3>1, Zenon
  <2> QED
    BY <1>5, <2>1, <2>2
<1>7. /\ \A i : Debt(s, i) = 0 /\ Debt(r, i) = IF i = id THEN 1 ELSE 0
      /\ \A k : DebtAs(s, k) = 0 /\ DebtAs(r, k) = IF ok = k THEN 1 ELSE 0
  BY <1>1, <1>3 DEF Debt, DebtAs, Waits
<1>8. /\ \A i : Cardinality(Owed(recorders, i)) \in Nat /\ Cardinality(Owed(recorders', i)) \in Nat
      /\ \A k : /\ Cardinality(OwedAs(recorders, k)) \in Nat
                /\ Cardinality(OwedAs(recorders', k)) \in Nat
  BY <1>2, <1>5, DebtsAreNat
<1>9. ASSUME NEW i \in DOMAIN jobs PROVE Elsewhere(i)' = Elsewhere(i)
  <2>1. PICK p, o, l, d, j, m, n, e, x :
           /\ p = Cardinality(Places(queue, i)) /\ o = Cardinality(Owed(recorders, i))
           /\ l = Len(jobExecMap[i]) /\ d = CountIn(dropped, i)
           /\ j = Debt(r, i) /\ m = Cardinality(Owed(recorders', i))
           /\ n = Len(jobExecMap'[i]) /\ e = Elsewhere(i) /\ x = Elsewhere(i)'
    OBVIOUS
  <2>2. p \in Nat /\ o \in Nat /\ l \in Nat /\ d \in Nat /\ m \in Nat /\ j \in Nat
    BY <1>8, <2>1, CountsAreNat DEF AInv, Debt
  <2>3. n = l + j /\ m + j = o + 0
    BY <1>4, <1>5, <1>7, <2>1
  <2>4. e = p + o + l + d /\ x = p + m + n + d
    BY <1>3, <2>1 DEF Elsewhere
  <2>5. x = e
    BY <2>2, <2>3, <2>4
  <2> QED
    BY <2>1, <2>5
<1>10. ASSUME NEW k \in BOOLEAN PROVE Registered(k)' = Registered(k)
  <2>1. PICK u, v, c, d, j :
           /\ u = Cardinality(OwedAs(recorders, k)) /\ v = Cardinality(OwedAs(recorders', k))
           /\ c = RecordsWith(k) /\ d = RecordsWith(k)' /\ j = DebtAs(r, k)
    OBVIOUS
  <2>2. u \in Nat /\ v \in Nat /\ c \in Nat /\ j \in Nat
    BY <1>8, <2>1, RecordsFinite DEF DebtAs
  <2>3. d = c + j /\ v + j = u + 0
    BY <1>4, <1>5, <1>7, <2>1
  <2>4. Registered(k) = c + u /\ Registered(k)' = d + v
    BY <2>1 DEF Registered
  <2> QED
    BY <2>2, <2>3, <2>4
<1> QED
  BY <1>3, <1>4, <1>5, <1>6, <1>9, <1>10, RecorderMoves

\* It gives the job its time, and ends; it owed nothing any more.
LEMMA EndKeeps ==
    ASSUME LInv, AInv, optimized, NEW r \in DOMAIN recorders, TouchRecord(r),
           UNCHANGED <<clock, mainPC, submitted, optimized>>
    PROVE  AInv'
<1>1. /\ r.at \notin Waits /\ Becomes(r, {}) /\ UpdateJobLastExecuted(r.id, r.completedAt)
      /\ UNCHANGED <<queue, worker, executionsTotal>> /\ UNCHANGED <<processed, failed, dropped>>
  BY DEF TouchRecord, Waits, execVars
<1>2. BagOK(recorders) /\ \A q \in DOMAIN recorders : "at" \in DOMAIN q /\ q.success \in BOOLEAN
  BY DEF AInv, BooksOK
<1>3. DOMAIN jobs' = DOMAIN jobs /\ UNCHANGED <<executions, jobExecMap>>
  BY <1>1, LastExecutedSet DEF LInv, UpdateJobLastExecuted
<1>4. /\ BagOK(recorders') /\ DOMAIN recorders' \subseteq DOMAIN recorders
      /\ \A id : Cardinality(Owed(recorders', id)) = Cardinality(Owed(recorders, id))
      /\ \A ok : Cardinality(OwedAs(recorders', ok)) = Cardinality(OwedAs(recorders, ok))
  BY <1>1, <1>2, EndsCounts
<1>5. /\ \A i \in DOMAIN jobs : Elsewhere(i)' = Elsewhere(i)
      /\ \A ok \in BOOLEAN : Registered(ok)' = Registered(ok)
  BY <1>1, <1>3, <1>4 DEF Elsewhere, Registered, RecordsWith
<1>6. \A q \in DOMAIN recorders' : "at" \in DOMAIN q /\ q.success \in BOOLEAN
  BY <1>2, <1>4
<1> QED
  BY <1>1, <1>3, <1>4, <1>5, <1>6, RecorderMoves

\* There are goroutines that record with the optimized executor only.
LEMMA RecorderBalances ==
    ASSUME IsFiniteSet(Workers), LInv, AInv, RecordStep
    PROVE  AInv'
<1>1. PICK r \in BagToSet(recorders) : RecorderStep(r)
  BY DEF RecordStep
<1>2. r \in DOMAIN recorders /\ optimized
  BY <1>1 DEF BagToSet, AInv, Apart
<1>3. UNCHANGED <<clock, mainPC, submitted, optimized>>
  BY DEF RecordStep, mainVars
<1>4. CASE StampRecord(r)
  BY <1>2, <1>3, <1>4, StampKeeps
<1>5. CASE StoreRecord(r)
  BY <1>2, <1>3, <1>5, StoreKeeps
<1>6. CASE TouchRecord(r)
  BY <1>2, <1>3, <1>6, EndKeeps
<1> QED
  BY <1>1, <1>4, <1>5, <1>6 DEF RecorderStep

\* The steps of the workers, whichever executor was started.
LEMMA WorkerBalances ==
    ASSUME IsFiniteSet(Workers), LInv, AInv, NEW w \in Workers, WorkerStep(w)
    PROVE  AInv'
<1>1. mainPC # "exited" /\ UNCHANGED <<clock, mainPC, submitted, optimized>>
  BY DEF WorkerStep, mainVars, Running
<1>2. CASE (Take(w) \/ Exit(w, signalled)) /\ UNCHANGED optVars
  BY <1>1, <1>2, TakeKeeps, ExitKeeps
<1>3. CASE StandardStep(w)
  <2>1. ~optimized /\ UNCHANGED optVars
    BY <1>3 DEF StandardStep
  <2>2. CASE (\E success \in BOOLEAN : Respond(w, success)) \/ NoResponse(w)
    BY <1>1, <2>1, <2>2, AnswerKeeps
  <2>3. CASE RecordExecution(w)
    BY <1>1, <2>1, <2>3, RecordKeeps
  <2>4. CASE TouchJob(w)
    BY <1>1, <2>1, <2>4, TouchKeeps
  <2> QED
    BY <1>3, <2>2, <2>3, <2>4 DEF StandardStep
<1>4. CASE OptimizedStep(w)
  <2>1. optimized
    BY <1>4 DEF OptimizedStep
  <2>2. CASE \E success \in BOOLEAN : HandOver(w, success)
    <3>1. PICK s \in BOOLEAN : HandOver(w, s)
      BY <2>2
    <3>2. PICK b : b = Worker("count", worker[w].id, s, Nil)
      OBVIOUS
    <3>3. /\ worker[w].at = "request" /\ Spawn(worker[w].id, s)
          /\ worker' = [worker EXCEPT ![w] = b] /\ "at" \in DOMAIN b
          /\ b.at = "count" /\ b.success = s
          /\ UNCHANGED <<queue, executionsTotal, processed, failed, dropped>>
          /\ UNCHANGED repoVars
      BY <3>1, <3>2 DEF HandOver, Worker
    <3>4. (b.at = "count" /\ b.success = s) \/ (b.at = "select" /\ s = FALSE)
      BY <3>3
    <3> QED
      BY <1>1, <2>1, <3>3, <3>4, HandOverKeeps
  <2>3. CASE HandOverFailure(w)
    <3>1. PICK s, b : s \in BOOLEAN /\ s = FALSE /\ b = IdleWorker
      OBVIOUS
    <3>2. /\ worker[w].at = "request" /\ Spawn(worker[w].id, s)
          /\ worker' = [worker EXCEPT ![w] = b] /\ "at" \in DOMAIN b
          /\ b.at = "select" /\ s = FALSE
          /\ UNCHANGED <<queue, executionsTotal, processed, failed, dropped>>
          /\ UNCHANGED repoVars
      BY <2>3, <3>1 DEF HandOverFailure, IdleWorker, Worker
    <3> QED
      BY <1>1, <2>1, <3>2, HandOverKeeps
  <2>4. CASE CountProcessed(w)
    BY <1>1, <2>1, <2>4, CountKeeps
  <2> QED
    BY <1>4, <2>2, <2>3, <2>4 DEF OptimizedStep
<1> QED
  BY <1>2, <1>3, <1>4 DEF WorkerStep

-----------------------------------------------------------------------------
(* The invariant, and what the service promises.                           *)

\* Every step balances the books.
LEMMA StepAInv ==
    ASSUME IsFiniteSet(Workers), LInv, AInv, [Next]_vars
    PROVE  AInv'
<1>1. CASE MainStep
  BY <1>1, MainBalances
<1>2. CASE SchedulerStep
  BY <1>2, SchedulerBalances
<1>3. CASE \E w \in Workers : WorkerStep(w)
  BY <1>3, WorkerBalances
<1>4. CASE RecordStep
  BY <1>4, RecorderBalances
<1>5. CASE HandlerStep
  BY <1>5, HandlerBalances
<1>6. CASE Interruption
  <2>1. /\ UNCHANGED repoVars /\ UNCHANGED optVars
        /\ UNCHANGED <<submitted, queue, worker, executionsTotal, optimized, clock>>
    BY <1>6 DEF Interruption, execVars
  <2>2. mainPC' \notin {"startExecutor", "exited"} \/ mainPC' = mainPC
    BY <1>6 DEF Interruption, MainGoes
  <2>3. clock' \in Nat \ {0}
    BY <2>1 DEF AInv, BooksOK
  <2> QED
    BY <2>1, <2>2, <2>3, AsideKeeps
<1>7. CASE Time
  <2>1. /\ UNCHANGED repoVars /\ UNCHANGED optVars
        /\ UNCHANGED <<submitted, queue, worker, executionsTotal, optimized, mainPC>>
    BY <1>7 DEF Time, execVars, mainVars, Tick
  <2>2. clock' \in Nat \ {0}
    BY <1>7 DEF Time, Tick, AInv, BooksOK
  <2> QED
    BY <2>1, <2>2, AsideKeeps
<1>8. CASE UNCHANGED vars
  <2>1. /\ UNCHANGED repoVars /\ UNCHANGED optVars
        /\ UNCHANGED <<submitted, queue, worker, executionsTotal, optimized, mainPC, clock>>
    BY <1>8 DEF vars, execVars, mainVars
  <2>2. clock' \in Nat \ {0}
    BY <2>1 DEF AInv, BooksOK
  <2> QED
    BY <2>1, <2>2, AsideKeeps
<1> QED
  BY <1>1, <1>2, <1>3, <1>4, <1>5, <1>6, <1>7, <1>8 DEF Next

\* The books always balance.
LEMMA AlwaysAInv ==
    ASSUME IsFiniteSet(Workers)
    PROVE  Spec => [](LInv /\ AInv)
<1>1. Init => LInv /\ AInv
  BY InitLInv, InitAInv
<1>2. LInv /\ AInv /\ [Next]_vars => (LInv /\ AInv)'
  BY StepLInv, StepAInv
<1> QED
  BY <1>1, <1>2, PTL DEF Spec

(***************************************************************************)
(* Every submission is in exactly one place, with either executor: in the  *)
(* channel, with a worker, with a goroutine that is to record it, on       *)
(* record, or dropped (JobExecutor, OptimizedJobExecutor).                 *)
(***************************************************************************)
THEOREM SubmissionsHold ==
    ASSUME IsFiniteSet(Workers)
    PROVE  Spec => []SubmissionsConserved
<1>1. ASSUME LInv, AInv PROVE SubmissionsConserved
  <2> SUFFICES ASSUME NEW id \in DOMAIN jobs
               PROVE  Count(id) = Queued(id) + Executing(id) + Unrecorded(id) + Recorded(id)
                                     + CountIn(dropped, id)
    BY DEF SubmissionsConserved
  <2>1. Queued(id) = Cardinality(Places(queue, id))
    BY DEF Queued, Places
  <2>2. Executing(id) = Cardinality(Busy(worker, id))
    BY DEF Executing, Busy, InHand
  <2>3. Unrecorded(id) = Cardinality(Owed(recorders, id))
    <3>1. \A g \in Goroutines(recorders) : g[1].success \in BOOLEAN
      BY <1>1 DEF Goroutines, AInv, BooksOK
    <3>2. Owed(recorders, id) =
             {g \in Goroutines(recorders) :
                 g[1].at \in {"start", "record"} /\ g[1].id \in {id} /\ g[1].success \in BOOLEAN}
      BY <3>1 DEF Owed, Waits
    <3> QED
      BY <3>2 DEF Unrecorded, Recording
  <2>4. PICK q, u, o, l, d : /\ q = Queued(id) /\ u = Executing(id) /\ o = Unrecorded(id)
                             /\ l = Recorded(id) /\ d = CountIn(dropped, id)
    OBVIOUS
  <2>5. q \in Nat /\ u \in Nat /\ o \in Nat /\ l \in Nat /\ d \in Nat
    BY <1>1, <2>1, <2>2, <2>3, <2>4, CountsAreNat DEF AInv, Recorded
  <2>6. Count(id) = u + (q + o + l + d)
    BY <1>1, <2>1, <2>2, <2>3, <2>4 DEF AInv, Balance, Elsewhere, Recorded
  <2>7. u + (q + o + l + d) = q + u + o + l + d
    BY <2>5
  <2> QED
    BY <2>4, <2>6, <2>7
<1> QED
  BY <1>1, AlwaysAInv, PTL

(***************************************************************************)
(* When run returns, the standard executor leaves no execution half        *)
(* recorded (JobExecutor.Stop waits for the workers).                      *)
(***************************************************************************)
THEOREM ExitHolds ==
    ASSUME IsFiniteSet(Workers)
    PROVE  Spec => []ExitLeavesNoHalfRecord
<1>1. ASSUME LInv, AInv PROVE ExitLeavesNoHalfRecord
  <2> SUFFICES ASSUME mainPC = "exited", ~optimized, NEW id \in DOMAIN jobs
               PROVE  /\ Count(id) = Queued(id) + Recorded(id)
                      /\ Recorded(id) > 0 => jobs[id].lastExecuted # Nil
    BY DEF ExitLeavesNoHalfRecord
  <2>1. /\ \A w \in Workers : worker[w].at = "exited"
        /\ DOMAIN recorders = {} /\ DOMAIN dropped = {}
    BY <1>1 DEF AInv, BooksOK, Apart, WorkersDone
  <2>2. Cardinality(Busy(worker, id)) = 0 /\ Cardinality(Owed(recorders, id)) = 0
    <3>1. Busy(worker, id) = {} /\ Owed(recorders, id) = {}
      BY <2>1 DEF Busy, InHand, Owed, Goroutines
    <3> QED
      BY <3>1, FS_EmptySet
  <2>3. CountIn(dropped, id) = 0
    BY <2>1 DEF CountIn
  <2>4. PICK q, l : q = Queued(id) /\ l = Recorded(id)
    OBVIOUS
  <2>5. q = Cardinality(Places(queue, id)) /\ l = Len(jobExecMap[id])
    BY <2>4 DEF Queued, Places, Recorded
  <2>6. q \in Nat /\ l \in Nat
    BY <1>1, <2>5, CountsAreNat DEF AInv
  <2>7. Count(id) = 0 + (q + 0 + l + 0)
    BY <1>1, <2>2, <2>3, <2>5 DEF AInv, Balance, Elsewhere
  <2>8. Count(id) = q + l
    BY <2>6, <2>7
  <2>9. l > 0 => jobs[id].lastExecuted # Nil
    BY <1>1, <2>1, <2>5 DEF AInv, TouchOK
  <2> QED
    BY <2>4, <2>8, <2>9
<1> QED
  BY <1>1, AlwaysAInv, PTL

(***************************************************************************)
(* The Prometheus counters of the standard executor: each success is       *)
(* counted once, and no failure that is not recorded or about to be.       *)
(***************************************************************************)
THEOREM MetricsHold ==
    ASSUME IsFiniteSet(Workers)
    PROVE  Spec => []MetricsBoundRecords
<1>1. ASSUME LInv, AInv PROVE MetricsBoundRecords
  <2> SUFFICES ASSUME ~optimized
               PROVE  /\ executionsTotal.success = RecordsWith(TRUE) + OnTheWay(TRUE)
                      /\ executionsTotal.failure <= RecordsWith(FALSE) + OnTheWay(FALSE)
    BY DEF MetricsBoundRecords
  <2>1. /\ \A w \in Workers : worker[w].at # "count"
        /\ DOMAIN recorders = {} /\ processed = 0 /\ failed = 0
    BY <1>1 DEF AInv, Apart
  <2>2. PICK t, m : /\ t \in Int /\ m \in Int
                    /\ executionsTotal = [success |-> t, failure |-> m]
    BY <1>1 DEF AInv, CountersOK
  <2>3. ASSUME NEW ok \in BOOLEAN
        PROVE  LET e == IF ok THEN t ELSE m
               IN  /\ e <= RecordsWith(ok) + OnTheWay(ok)
                   /\ ok => e = RecordsWith(ok) + OnTheWay(ok)
    <3>1. Cardinality(Counting(worker, ok)) = 0 /\ Cardinality(OwedAs(recorders, ok)) = 0
      <4>1. Counting(worker, ok) = {} /\ OwedAs(recorders, ok) = {}
        BY <2>1 DEF Counting, OwedAs, Goroutines
      <4> QED
        BY <4>1, FS_EmptySet
    <3>2. OnTheWay(ok) = Cardinality(Way(worker, ok))
      BY DEF OnTheWay, Way
    <3>3. PICK e, r, u : /\ e = (IF ok THEN t ELSE m)
                         /\ r = RecordsWith(ok) /\ u = OnTheWay(ok)
      OBVIOUS
    <3>4. e \in Int /\ Told(ok) = e
      BY <2>1, <2>2, <3>3 DEF Told
    <3>5. r \in Nat /\ u \in Nat
      <4>1. Way(worker, ok) \in SUBSET Workers
        BY DEF Way
      <4>2. Cardinality(Way(worker, ok)) \in Nat
        BY <4>1, FS_Subset, FS_CardinalityType
      <4> QED
        BY <1>1, <3>2, <3>3, <4>2, RecordsFinite
    <3>6. Registered(ok) = r + 0 /\ Held(worker, ok) = u - 0
      BY <3>1, <3>2, <3>3 DEF Registered, Held
    <3>7. e <= (r + 0) + (u - 0) /\ (ok => e = (r + 0) + (u - 0))
      BY <1>1, <3>4, <3>6 DEF AInv, CountersOK
    <3> QED
      BY <3>3, <3>4, <3>5, <3>7
  <2>4. t = RecordsWith(TRUE) + OnTheWay(TRUE) /\ m <= RecordsWith(FALSE) + OnTheWay(FALSE)
    BY <2>3, Zenon
  <2> QED
    BY <2>2, <2>4
<1> QED
  BY <1>1, AlwaysAInv, PTL

(***************************************************************************)
(* The counters of the optimized executor: the successes counted or about  *)
(* to be are those recorded or about to be, and failures counted are among *)
(* those recorded (OptimizedJobExecutor.processJob).                       *)
(***************************************************************************)
THEOREM CountersHold ==
    ASSUME IsFiniteSet(Workers)
    PROVE  Spec => []CountersMatchRecords
<1>1. ASSUME LInv, AInv, optimized
      PROVE  \A ok \in BOOLEAN :
                LET e == IF ok THEN processed - failed ELSE failed
                    n == RecordsWith(ok)
                            + Recording({"start", "record"}, DOMAIN jobs, {ok})
                    u == Cardinality({w \in Workers : worker[w].at = "count"
                                                         /\ worker[w].success = ok})
                IN  e + u <= n /\ (ok => e + u = n)
  <2>1. /\ executionsTotal = [success |-> 0, failure |-> 0]
        /\ \A w \in Workers : worker[w].at # "record"
        /\ processed \in Int /\ failed \in Int
    BY <1>1 DEF AInv, Apart, CountersOK
  <2> SUFFICES ASSUME NEW ok \in BOOLEAN
               PROVE  LET e == IF ok THEN processed - failed ELSE failed
                          n == RecordsWith(ok)
                                  + Recording({"start", "record"}, DOMAIN jobs, {ok})
                          u == Cardinality({w \in Workers : worker[w].at = "count"
                                                               /\ worker[w].success = ok})
                      IN  e + u <= n /\ (ok => e + u = n)
    OBVIOUS
  <2>2. Recording({"start", "record"}, DOMAIN jobs, {ok}) = Cardinality(OwedAs(recorders, ok))
    <3>1. \A g \in Goroutines(recorders) : g[1].id \in DOMAIN jobs
      BY <1>1 DEF Goroutines, LInv, RecordersOK, BagToSet
    <3>2. OwedAs(recorders, ok) =
             {g \in Goroutines(recorders) :
                 /\ g[1].at \in {"start", "record"} /\ g[1].id \in DOMAIN jobs
                 /\ g[1].success \in {ok}}
      BY <3>1 DEF OwedAs, Waits
    <3> QED
      BY <3>2 DEF Recording
  <2>3. {w \in Workers : worker[w].at = "count" /\ worker[w].success = ok} = Counting(worker, ok)
    BY DEF Counting
  <2>4. Cardinality(Way(worker, ok)) = 0
    <3>1. Way(worker, ok) = {}
      BY <2>1 DEF Way
    <3> QED
      BY <3>1, FS_EmptySet
  <2>5. PICK e, r, o, u :
           /\ e = (IF ok THEN processed - failed ELSE failed) /\ r = RecordsWith(ok)
           /\ o = Cardinality(OwedAs(recorders, ok)) /\ u = Cardinality(Counting(worker, ok))
    OBVIOUS
  <2>6. r \in Nat /\ o \in Nat /\ u \in Nat
    <3>1. Counting(worker, ok) \in SUBSET Workers
      BY DEF Counting
    <3>2. Cardinality(Counting(worker, ok)) \in Nat
      BY <3>1, FS_Subset, FS_CardinalityType
    <3> QED
      BY <1>1, <2>5, <3>2, RecordsFinite, DebtsAreNat DEF AInv, BooksOK
  <2>7. e \in Int /\ Told(ok) = e
    <3>1. Told(ok) = IF ok THEN 0 + (processed - failed) ELSE 0 + failed
      BY <2>1 DEF Told
    <3> QED
      BY <2>1, <2>5, <3>1
  <2>8. Registered(ok) = r + o /\ Held(worker, ok) = 0 - u
    BY <2>4, <2>5 DEF Registered, Held
  <2>9. e <= (r + o) + (0 - u) /\ (ok => e = (r + o) + (0 - u))
    BY <1>1, <2>7, <2>8 DEF AInv, CountersOK
  <2>10. e + u <= r + o /\ (ok => e + u = r + o)
    BY <2>6, <2>7, <2>9
  <2> QED
    BY <2>2, <2>3, <2>5, <2>10
<1>2. ASSUME LInv, AInv PROVE CountersMatchRecords
  <2> SUFFICES ASSUME optimized PROVE CountersMatchRecords
    BY DEF CountersMatchRecords
  <2>1. \A ok \in BOOLEAN :
           LET e == IF ok THEN processed - failed ELSE failed
               n == RecordsWith(ok) + Recording({"start", "record"}, DOMAIN jobs, {ok})
               u == Cardinality({w \in Workers : worker[w].at = "count"
                                                    /\ worker[w].success = ok})
           IN  e + u <= n /\ (ok => e + u = n)
    BY <1>1, <1>2, Zenon
  <2>2. /\ processed - failed
              + Cardinality({w \in Workers : worker[w].at = "count" /\ worker[w].success = TRUE})
           = RecordsWith(TRUE) + Recording({"start", "record"}, DOMAIN jobs, {TRUE})
        /\ failed
              + Cardinality({w \in Workers : worker[w].at = "count" /\ worker[w].success = FALSE})
           <= RecordsWith(FALSE) + Recording({"start", "record"}, DOMAIN jobs, {FALSE})
    BY <2>1, Zenon
  <2>3. GetMetrics.processed = processed /\ GetMetrics.failed = failed
    BY DEF GetMetrics
  <2> QED
    BY <2>2, <2>3, Zenon DEF CountersMatchRecords
<1> QED
  BY <1>2, AlwaysAInv, PTL
=============================================================================
