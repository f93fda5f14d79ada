------------------------- MODULE JobSchedulingProofs -------------------------
(***************************************************************************)
(* Proofs about module JobScheduling, for every horizon, every set of      *)
(* expressions, every number of handlers and requests.                     *)
(***************************************************************************)
EXTENDS JobScheduling, CountingLemmas

-----------------------------------------------------------------------------
(* The cron parser.                                                        *)

\* A non-empty set of naturals has a least element, and Min picks it.
LEMMA MinOfNaturals ==
    ASSUME NEW S \in SUBSET Nat, S # {}
    PROVE  Min(S) \in S /\ \A y \in S : Min(S) <= y
BY LeastNatural DEF Min

\* GetNextRun of an expression that fires is its first slot after from.
LEMMA NextRunIsFirstSlot ==
    ASSUME NEW e \in Expressions, Fires[e] # {}, NEW from \in 0 .. MaxTime
    PROVE  /\ GetNextRun(e, from) \in Fires[e]
           /\ GetNextRun(e, from) > from
           /\ \A s \in Fires[e] : s > from => GetNextRun(e, from) <= s
<1>1. Later(e, from) \in SUBSET Nat
  BY FiresAssumption DEF Later
<1>2. Later(e, from) # {}
  BY FiresAssumption, MaxTimeAssumption DEF Later
<1>3. GetNextRun(e, from) = Min(Later(e, from))
  BY <1>2 DEF GetNextRun, Validate
<1> QED
  BY <1>1, <1>2, <1>3, MinOfNaturals DEF Later

\* GetNextRun is an instant in every case.
LEMMA NextRunIsInstant ==
    ASSUME NEW e \in Expressions, NEW from \in Nat
    PROVE  GetNextRun(e, from) \in Nat
<1>1. Later(e, from) \in SUBSET Nat
  BY FiresAssumption DEF Later
<1> QED
  BY <1>1, MinOfNaturals DEF GetNextRun, ZeroTime, Later

(***************************************************************************)
(* GetNextNRuns.  Its loop is a function defined by recursion; that there  *)
(* is one, for every n, and what its runs are, follow from the least index *)
(* at which they would fail.                                               *)
(***************************************************************************)
RunAfter(run, i, e, from) ==
    IF i = 0 THEN from
    ELSE IF i > 1 /\ run[i - 1] = ZeroTime THEN ZeroTime
    ELSE GetNextRun(e, run[i - 1])

Runs(run, n, e, from) == run = [i \in 0 .. n |-> RunAfter(run, i, e, from)]

\* The recursion has a solution.
LEMMA RunsExist ==
    ASSUME NEW e, NEW from, NEW n \in Nat
    PROVE  \E run : Runs(run, n, e, from)
<1> SUFFICES ASSUME ~\E run : Runs(run, n, e, from) PROVE FALSE
  OBVIOUS
<1>1. PICK T : T = {m \in 0 .. n : ~\E run : Runs(run, m, e, from)}
  OBVIOUS
<1>2. PICK m \in T : \A k \in T : m <= k
  <2>1. T \in SUBSET Nat /\ n \in T
    BY <1>1
  <2> QED
    BY <2>1, LeastNatural
<1>3. m \in 0 .. n /\ ~\E run : Runs(run, m, e, from)
  BY <1>1, <1>2
<1>4. CASE m = 0
  <2>1. PICK run : run = [i \in 0 .. 0 |-> from]
    OBVIOUS
  <2>2. Runs(run, 0, e, from)
    BY <2>1 DEF Runs, RunAfter
  <2> QED
    BY <1>3, <1>4, <2>2
<1>5. CASE m # 0
  <2>1. PICK k : k = m - 1
    OBVIOUS
  <2>2. k \in 0 .. n /\ m = k + 1 /\ k \notin T /\ k \in Nat
    BY <1>2, <1>3, <1>5, <2>1
  <2>3. PICK short : Runs(short, k, e, from)
    BY <1>1, <2>2
  <2>4. PICK run : run = [i \in 0 .. k + 1 |-> IF i = k + 1 THEN RunAfter(short, k + 1, e, from)
                                                            ELSE short[i]]
    OBVIOUS
  <2>5. \A i \in 0 .. k : run[i] = short[i]
    BY <2>2, <2>4
  <2>6. \A i \in 0 .. k + 1 : i # 0 => i - 1 \in 0 .. k
    BY <2>2
  <2>7. \A i \in 0 .. k + 1 : RunAfter(run, i, e, from) = RunAfter(short, i, e, from)
    BY <2>5, <2>6 DEF RunAfter
  <2>8. \A i \in 0 .. k : short[i] = RunAfter(short, i, e, from)
    BY <2>3 DEF Runs
  <2>9. \A i \in 0 .. k + 1 : run[i] = RunAfter(run, i, e, from)
    <3> TAKE i \in 0 .. k + 1
    <3>1. CASE i = k + 1
      BY <2>4, <2>7, <3>1
    <3>2. CASE i # k + 1
      <4>1. i \in 0 .. k
        BY <2>2, <3>2
      <4> QED
        BY <2>5, <2>7, <2>8, <4>1
    <3> QED
      BY <3>1, <3>2
  <2>10. run = [i \in 0 .. k + 1 |-> RunAfter(run, i, e, from)]
    <3>1. run = [i \in 0 .. k + 1 |-> run[i]]
      BY <2>4
    <3> QED
      BY <2>9, <3>1
  <2>11. Runs(run, m, e, from)
    BY <2>2, <2>10 DEF Runs
  <2> QED
    BY <1>3, <2>11
<1> QED
  BY <1>4, <1>5

\* GetNextRun of any instant: the least later slot, or zero when there is none.
LEMMA NextRunIsLeast ==
    ASSUME NEW e \in Expressions, NEW from \in Nat, NEW next, next = GetNextRun(e, from)
    PROVE  /\ next \in Nat
           /\ next # 0 => next \in Fires[e] /\ from < next
           /\ \A s \in Fires[e] : from < s => next # 0 /\ next <= s
<1>1. Later(e, from) \in SUBSET (Nat \ {0}) /\ Later(e, from) = {s \in Fires[e] : s > from}
  BY FiresAssumption DEF Later
<1>2. CASE Later(e, from) = {}
  BY <1>1, <1>2 DEF GetNextRun, ZeroTime
<1>3. CASE Later(e, from) # {}
  <2>1. next = Min(Later(e, from))
    BY <1>3 DEF GetNextRun, Validate
  <2>2. next \in Later(e, from) /\ \A s \in Later(e, from) : next <= s
    BY <1>1, <1>3, <2>1, MinOfNaturals
  <2> QED
    BY <1>1, <2>2
<1> QED
  BY <1>2, <1>3

(***************************************************************************)
(* The i-th run is the i-th later slot: past the runs before it, with no   *)
(* later slot left out up to it; or there were fewer than i.               *)
(***************************************************************************)
RunOK(run, i, e, from) ==
    /\ run[i] \in Nat
    /\ run[i] # 0 => run[i] \in Fires[e] /\ from < run[i]
    /\ run[i] # 0 => \A j \in 1 .. i - 1 : run[j] \in Nat \ {0} /\ run[j] < run[i]
    /\ \A s \in Fires[e] : from < s /\ (run[i] = 0 \/ s <= run[i]) =>
          \E j \in 1 .. i : run[j] = s

\* Each run is as it should be if the one before it is.
LEMMA RunFollows ==
    ASSUME NEW e \in Expressions, NEW from \in Nat, NEW n \in Nat, NEW run,
           Runs(run, n, e, from), NEW k \in 1 .. n, k + 1 \in 1 .. n, RunOK(run, k, e, from)
    PROVE  RunOK(run, k + 1, e, from)
<1>1. PICK p, q : p = run[k] /\ q = run[k + 1]
  OBVIOUS
<1>2. run[k + 1] = RunAfter(run, k + 1, e, from)
  <2>1. k + 1 \in 0 .. n
    OBVIOUS
  <2> QED
    BY <2>1 DEF Runs
<1>3. q = IF p = 0 THEN 0 ELSE GetNextRun(e, p)
  BY <1>1, <1>2 DEF RunAfter, ZeroTime
<1>4. /\ p \in Nat
      /\ p # 0 => p \in Fires[e] /\ from < p
      /\ p # 0 => \A j \in 1 .. k - 1 : run[j] \in Nat \ {0} /\ run[j] < p
      /\ \A s \in Fires[e] : from < s /\ (p = 0 \/ s <= p) => \E j \in 1 .. k : run[j] = s
  BY <1>1 DEF RunOK
<1>5. Fires[e] \subseteq Nat \ {0}
  BY FiresAssumption
<1>6. \A j \in 1 .. k : j \in 1 .. k + 1 /\ (j # k => j \in 1 .. k - 1)
  OBVIOUS
<1>7. k + 1 \in 1 .. k + 1 /\ 1 .. k + 1 - 1 = 1 .. k
  OBVIOUS
<1>8. CASE p = 0
  <2>1. q = 0
    BY <1>3, <1>8
  <2>2. \A s \in Fires[e] : from < s => \E j \in 1 .. k + 1 : run[j] = s
    BY <1>4, <1>6, <1>8
  <2> QED
    BY <1>1, <2>1, <2>2 DEF RunOK
<1>9. CASE p # 0
  <2>1. q = GetNextRun(e, p)
    BY <1>3, <1>9
  <2>2. /\ q \in Nat
        /\ q # 0 => q \in Fires[e] /\ p < q
        /\ \A s \in Fires[e] : p < s => q # 0 /\ q <= s
    BY <1>4, <2>1, NextRunIsLeast
  <2>3. q # 0 => q \in Fires[e] /\ from < q
    BY <1>4, <1>9, <2>2
  <2>4. q # 0 => \A j \in 1 .. k : run[j] \in Nat \ {0} /\ run[j] < q
    <3> SUFFICES ASSUME q # 0, NEW j \in 1 .. k PROVE run[j] \in Nat \ {0} /\ run[j] < q
      OBVIOUS
    <3>1. CASE j = k
      BY <1>1, <1>4, <1>9, <2>2, <3>1
    <3>2. CASE j # k
      <4>1. run[j] \in Nat \ {0} /\ run[j] < p
        BY <1>4, <1>6, <1>9, <3>2
      <4>2. PICK a : a = run[j]
        OBVIOUS
      <4>3. a \in Nat \ {0} /\ a < p
        BY <4>1, <4>2
      <4> QED
        BY <1>4, <2>2, <4>2, <4>3
    <3> QED
      BY <3>1, <3>2
  <2>5. \A s \in Fires[e] : from < s /\ (q = 0 \/ s <= q) => \E j \in 1 .. k + 1 : run[j] = s
    <3> SUFFICES ASSUME NEW s \in Fires[e], from < s, q = 0 \/ s <= q
                 PROVE  \E j \in 1 .. k + 1 : run[j] = s
      OBVIOUS
    <3>1. CASE s <= p
      BY <1>4, <1>6, <3>1
    <3>2. CASE p < s
      <4>1. q # 0 /\ q <= s /\ s \in Nat
        BY <1>5, <2>2, <3>2
      <4>2. s = q
        BY <2>2, <4>1
      <4> QED
        BY <1>1, <1>7, <4>2
    <3> QED
      BY <1>4, <1>5, <3>1, <3>2
  <2> QED
    BY <1>1, <1>7, <2>2, <2>3, <2>4, <2>5 DEF RunOK
<1> QED
  BY <1>8, <1>9

\* So all of them are.
LEMMA RunsAreRight ==
    ASSUME NEW e \in Expressions, NEW from \in Nat, NEW n \in Nat, NEW run,
           Runs(run, n, e, from)
    PROVE  \A i \in 1 .. n : RunOK(run, i, e, from)
<1> SUFFICES ASSUME NEW i \in 1 .. n, ~RunOK(run, i, e, from) PROVE FALSE
  OBVIOUS
<1>1. PICK T : T = {j \in 1 .. n : ~RunOK(run, j, e, from)}
  OBVIOUS
<1>2. PICK m \in T : \A j \in T : m <= j
  <2>1. T \in SUBSET Nat /\ i \in T
    BY <1>1
  <2> QED
    BY <2>1, LeastNatural
<1>3. m \in 1 .. n /\ ~RunOK(run, m, e, from)
  BY <1>1, <1>2
<1>4. CASE m = 1
  <2>1. run[0] = from /\ run[1] = GetNextRun(e, from)
    <3>1. 0 \in 0 .. n /\ 1 \in 0 .. n
      BY <1>3
    <3>2. run[0] = RunAfter(run, 0, e, from) /\ run[1] = RunAfter(run, 1, e, from)
      BY <3>1 DEF Runs
    <3> QED
      BY <3>2 DEF RunAfter
  <2>2. PICK q : q = run[1]
    OBVIOUS
  <2>3. /\ q \in Nat
        /\ q # 0 => q \in Fires[e] /\ from < q
        /\ \A s \in Fires[e] : from < s => q # 0 /\ q <= s
    BY <2>1, <2>2, NextRunIsLeast
  <2>4. \A s \in Fires[e] : from < s /\ (q = 0 \/ s <= q) => s = q
    <3>1. Fires[e] \subseteq Nat
      BY FiresAssumption
    <3> QED
      BY <2>3, <3>1
  <2> QED
    BY <1>3, <1>4, <2>2, <2>3, <2>4 DEF RunOK
<1>5. CASE m # 1
  <2>1. PICK k : k = m - 1
    OBVIOUS
  <2>2. k \in 1 .. n /\ k + 1 = m /\ k \notin T
    BY <1>2, <1>3, <1>5, <2>1
  <2>3. RunOK(run, k, e, from)
    BY <1>1, <2>2
  <2>4. k + 1 \in 1 .. n
    BY <1>3, <2>2
  <2>5. RunOK(run, k + 1, e, from)
    BY <2>2, <2>3, <2>4, RunFollows
  <2> QED
    BY <1>3, <2>2, <2>5
<1> QED
  BY <1>4, <1>5

\* The runs found are the first ones: once one is zero, all later ones are.
LEMMA FoundComeFirst ==
    ASSUME NEW e \in Expressions, NEW from \in Nat, NEW n \in Nat, NEW run,
           \A i \in 1 .. n : RunOK(run, i, e, from),
           NEW found, found = {i \in 1 .. n : run[i] # ZeroTime}
    PROVE  /\ Cardinality(found) \in 0 .. n
           /\ found = 1 .. Cardinality(found)
<1>1. PICK T : T = {j \in 1 .. n : run[j] = 0} \cup {n + 1}
  OBVIOUS
<1>2. PICK m \in T : \A j \in T : m <= j
  <2>1. T \in SUBSET Nat /\ n + 1 \in T
    BY <1>1
  <2> QED
    BY <2>1, LeastNatural
<1>3. PICK k : k = m - 1
  OBVIOUS
<1>4. m \in 1 .. n + 1 /\ k \in 0 .. n /\ m = k + 1
  BY <1>1, <1>2, <1>3
<1>5. ASSUME NEW j \in 1 .. n
      PROVE  run[j] # 0 <=> j \in 1 .. k
  <2>1. CASE j < m
    <3>1. j \notin T
      BY <1>2, <1>4, <2>1
    <3> QED
      BY <1>1, <1>4, <2>1, <3>1
  <2>2. CASE j >= m
    <3>1. m \in 1 .. n /\ run[m] = 0
      BY <1>1, <1>2, <1>4, <2>2
    <3>2. j # m => m \in 1 .. j - 1
      BY <1>4, <2>2
    <3>3. run[j] # 0 => \A i \in 1 .. j - 1 : run[i] \in Nat \ {0}
      BY DEF RunOK
    <3>4. run[j] = 0
      BY <3>1, <3>2, <3>3
    <3> QED
      BY <1>4, <2>2, <3>4
  <2> QED
    BY <1>4, <2>1, <2>2
<1>6. found = 1 .. k
  <2>1. 1 .. k \subseteq 1 .. n
    BY <1>4
  <2>2. found = {j \in 1 .. n : run[j] # 0}
    BY DEF ZeroTime
  <2> QED
    BY <1>5, <2>1, <2>2
<1>7. Cardinality(1 .. k) = k
  <2>1. 1 \in Int /\ k \in Int
    BY <1>4
  <2>2. Cardinality(1 .. k) = IF 1 > k THEN 0 ELSE k - 1 + 1
    BY <2>1, FS_Interval
  <2> QED
    BY <1>4, <2>2
<1> QED
  BY <1>4, <1>6, <1>7

\* What the list of runs is.
FirstSlots(runs, n, e, from) ==
    /\ Len(runs) <= n
    /\ \A i, j \in DOMAIN runs : i < j => runs[i] < runs[j]
    /\ \A i \in DOMAIN runs : runs[i] \in {s \in Fires[e] : from < s}
    /\ \A s \in {s \in Fires[e] : from < s} :
          \/ \E i \in DOMAIN runs : runs[i] = s
          \/ Len(runs) = n /\ \A i \in DOMAIN runs : runs[i] < s

\* The runs up to the first zero are such a list.
LEMMA ListIsFirstSlots ==
    ASSUME NEW e \in Expressions, NEW from \in Nat, NEW n \in Nat, NEW run,
           \A i \in 1 .. n : RunOK(run, i, e, from),
           NEW k \in 0 .. n, \A i \in 1 .. n : run[i] # 0 <=> i \in 1 .. k,
           NEW runs, runs = [i \in 1 .. k |-> run[i]]
    PROVE  FirstSlots(runs, n, e, from)
<1>1. DOMAIN runs = 1 .. k /\ 1 .. k \subseteq 1 .. n /\ \A i \in 1 .. k : runs[i] = run[i] /\ run[i] # 0
  OBVIOUS
<1>2. Len(runs) = k
  <2>1. runs \in [1 .. k -> {runs[i] : i \in 1 .. k}]
    BY <1>1
  <2> QED
    BY <2>1, SequenceOfLength
<1>3. Fires[e] \subseteq Nat
  BY FiresAssumption
<1>4. \A i \in 1 .. k : runs[i] \in Nat /\ runs[i] \in {s \in Fires[e] : from < s}
  BY <1>1 DEF RunOK
<1>5. \A i, j \in 1 .. k : i < j => runs[i] < runs[j]
  <2> SUFFICES ASSUME NEW i \in 1 .. k, NEW j \in 1 .. k, i < j PROVE run[i] < run[j]
    BY <1>1
  <2>1. i \in 1 .. j - 1 /\ run[j] # 0
    BY <1>1
  <2> QED
    BY <1>1, <2>1 DEF RunOK
<1>6. ASSUME NEW s \in Fires[e], from < s, \A i \in 1 .. k : runs[i] # s
      PROVE  k = n /\ \A i \in 1 .. k : runs[i] < s
  <2>1. \A i \in 1 .. n : run[i] # s
    <3>1. s # 0
      BY <1>6, <1>3
    <3> QED
      BY <1>1, <1>6, <3>1
  <2>2. \A i \in 1 .. n : ~(run[i] = 0 \/ s <= run[i])
    <3> TAKE i \in 1 .. n
    <3>1. 1 .. i \subseteq 1 .. n
      OBVIOUS
    <3>2. (run[i] = 0 \/ s <= run[i]) => \E j \in 1 .. i : run[j] = s
      BY <1>6 DEF RunOK
    <3> QED
      BY <2>1, <3>1, <3>2
  <2>3. k = n
    <3>1. CASE k < n
      <4>1. k + 1 \in 1 .. n /\ k + 1 \notin 1 .. k
        BY <3>1
      <4> QED
        BY <2>2, <4>1
    <3> QED
      BY <3>1
  <2>4. \A i \in 1 .. k : runs[i] < s
    BY <1>1, <1>3, <1>4, <2>2
  <2> QED
    BY <2>3, <2>4
<1> QED
  BY <1>1, <1>2, <1>4, <1>5, <1>6, SMTT(30) DEF FirstSlots

\* GetNextNRuns returns it.
LEMMA GetNextNRunsIsRight ==
    ASSUME NEW e \in Expressions, NEW from \in Nat, NEW n \in Nat
    PROVE  FirstSlots(GetNextNRuns(e, n, from), n, e, from)
<1> DEFINE rec[i \in 0 .. n] == RunAfter(rec, i, e, from)
<1>1. Runs(rec, n, e, from)
  <2>1. \E run : run = [i \in 0 .. n |-> RunAfter(run, i, e, from)]
    <3>1. PICK run : Runs(run, n, e, from)
      BY RunsExist
    <3> QED
      BY <3>1 DEF Runs
  <2>2. rec = [i \in 0 .. n |-> RunAfter(rec, i, e, from)]
    BY <2>1
  <2> QED
    BY <2>2 DEF Runs
<1>2. PICK found, k : found = {i \in 1 .. n : rec[i] # ZeroTime} /\ k = Cardinality(found)
  OBVIOUS
<1>3. GetNextNRuns(e, n, from) = IF n <= 0 THEN <<>> ELSE [i \in 1 .. k |-> rec[i]]
  BY <1>2 DEF GetNextNRuns, Validate, RunAfter
<1> HIDE DEF rec
<1>4. \A i \in 1 .. n : RunOK(rec, i, e, from)
  BY <1>1, RunsAreRight
<1>5. k \in 0 .. n /\ found = 1 .. k
  BY <1>2, <1>4, FoundComeFirst, SMTT(30)
<1>6. \A i \in 1 .. n : rec[i] # 0 <=> i \in 1 .. k
  BY <1>2, <1>5 DEF ZeroTime
<1>7. FirstSlots([i \in 1 .. k |-> rec[i]], n, e, from)
  BY <1>4, <1>5, <1>6, ListIsFirstSlots
<1>8. n = 0 => [i \in 1 .. k |-> rec[i]] = <<>>
  BY <1>5
<1>9. GetNextNRuns(e, n, from) = [i \in 1 .. k |-> rec[i]]
  <2>1. CASE n = 0
    <3>1. n <= 0
      BY <2>1
    <3>2. GetNextNRuns(e, n, from) = <<>>
      BY <1>3, <3>1, Zenon
    <3> QED
      BY <1>8, <2>1, <3>2
  <2>2. CASE n # 0
    <3>1. ~(n <= 0)
      BY <2>2
    <3> QED
      BY <1>3, <3>1, Zenon
  <2> QED
    BY <2>1, <2>2
<1> QED
  BY <1>7, <1>9

-----------------------------------------------------------------------------
(* The inductive invariant, one lemma per action.                          *)

\* The service starts with an empty store and an idle scheduler.
LEMMA InitIInv ==
    Init => IInv
<1> SUFFICES ASSUME Init PROVE IInv
  OBVIOUS
<1> USE DEF Init, RepoInit, SchedulerInit, HandlerInit
<1>1. TypeOK
  BY MaxTimeAssumption
  DEF TypeOK, SchedPCs, RequestOK, SomeID, HandlerPCs, IdleRequest, NoJobs, ZeroTime
<1>2. SweepOK /\ LateOK /\ NeverEarly
  BY DEF SweepOK, InSweep, LateOK, NeverEarly
<1>2a. PutOK
  BY DEF PutOK, Replaces, IdleRequest
<1>3. CopyOK /\ SlotOK /\ NoSlotLost
  BY DEF CopyOK, SlotOK, NoSlotLost
<1> QED
  BY <1>1, <1>2, <1>2a, <1>3 DEF IInv

(***************************************************************************)
(* Submit adds one dispatch and moves the cursor past its job.             *)
(***************************************************************************)
LEMMA SubmitStep ==
    IInv /\ Submit => IInv'
<1> SUFFICES ASSUME IInv, Submit PROVE IInv'
  OBVIOUS
<1> USE DEF IInv, Submit, SubmitNext
<1> DEFINE id == dueJobs[cursor]
<1>0. /\ UNCHANGED <<jobs, idCounter, clock, req, since, raced>>
      /\ UNCHANGED <<schedPC, snapshot, now, dueJobs>>
      /\ schedPC = "submit" /\ cursor \in DOMAIN dueJobs /\ cursor' = cursor + 1
      /\ log' = log \cup {Dispatch}
  BY DEF repoVars, handlerVars
<1>u. \A i : /\ Undisturbed(i)' <=> Undisturbed(i)
             /\ Satisfiable(i)' <=> Satisfiable(i)
             /\ Pending(i)' <=> Pending(i)
             /\ \A h : Replaces(h, i)' <=> Replaces(h, i)
  BY <1>0 DEF Undisturbed, BeingReplaced, Replaces, Satisfiable, Pending
<1>a. /\ \A k \in DOMAIN dueJobs : dueJobs[k] = id => k = cursor
      /\ snapshot[id].nextRun \in Nat /\ snapshot[id].nextRun <= now /\ now >= 1
  BY <1>0 DEF SweepOK, InSweep
<1>b. /\ DOMAIN dueJobs \subseteq Int /\ cursor \in Nat
      /\ id \in DOMAIN snapshot /\ id \in DOMAIN jobs /\ jobs[id] \in JobRecords
      /\ now \in 0 .. clock /\ clock \in Nat
  BY <1>0 DEF TypeOK
<1>1. /\ id \in DOMAIN snapshot /\ id \in DOMAIN jobs /\ jobs[id] \in JobRecords
      /\ snapshot[id].nextRun \in Nat /\ snapshot[id].nextRun <= now
      /\ now \in 1 .. clock /\ clock \in Nat /\ cursor \in Nat
      /\ Pending(id) /\ ToSubmit(id) /\ ~Submitted(id)
  BY <1>0, <1>a, <1>b DEF Pending, ToSubmit, Submitted
<1>2. /\ Dispatch.id = id /\ Dispatch.slot = snapshot[id].nextRun
      /\ Dispatch.sweep = now /\ Dispatch.status = jobs[id].status
      /\ Dispatch.schedule = jobs[id].schedule /\ Dispatch.since = since[id]
  BY DEF Dispatch
<1>3. TypeOK'
  BY <1>0, <1>1, <1>2 DEF TypeOK, RequestOK, SomeID, JobRecords
<1>4. SweepOK'
  BY <1>0 DEF SweepOK, InSweep
<1>4a. PutOK'
  <2> SUFFICES ASSUME NEW h \in Handlers, NEW i \in DOMAIN jobs', Replaces(h, i)', i \notin raced'
               PROVE  HasToItself(h, i)'
    BY DEF PutOK
  <2>1. HasToItself(h, i) /\ i # id
    BY <1>0, <1>1, <1>u, ZenonT(30) DEF PutOK, HasToItself
  <2>2. \A d \in log' : d.id = i => d \in log
    BY <2>1, <1>0, <1>2
  <2> QED
    BY <2>1, <2>2, <1>0, <1>u DEF HasToItself
<1>5. CopyOK'
  BY <1>0, <1>u DEF CopyOK
<1>6. SlotOK'
  <2> SUFFICES ASSUME NEW i \in DOMAIN jobs, Undisturbed(i), Satisfiable(i)
               PROVE  /\ jobs[i].nextRun \in Fires[jobs[i].schedule]
                      /\ since[i] < jobs[i].nextRun
                      /\ IF Submitted(i)'
                           THEN /\ \A d \in log' : d.id = i => d.sweep <= now
                                /\ \E d \in log' : /\ d.id = i /\ d.schedule = jobs[i].schedule
                                                    /\ d.slot = jobs[i].nextRun /\ d.sweep = now
                           ELSE \A d \in log' : d.id = i => d.sweep < jobs[i].nextRun
    BY <1>0, <1>u DEF SlotOK
  <2>1. CASE i = id
    <3>1. snapshot[id].nextRun = jobs[id].nextRun
      BY <2>1, <1>1 DEF CopyOK
    <3>2. \A d \in log : d.id = id => d.sweep < jobs[id].nextRun
      BY <2>1, <1>1 DEF SlotOK
    <3>3. \A d \in log' : d.id = i => d.sweep <= now
      BY <2>1, <1>0, <1>1, <1>2, <3>1, <3>2 DEF TypeOK
    <3>4. Submitted(i)'
      BY <2>1, <1>0, <1>1 DEF Submitted
    <3> QED
      BY <2>1, <1>0, <1>1, <1>2, <3>1, <3>3, <3>4 DEF SlotOK
  <2>2. CASE i # id
    <3>1. Submitted(i)' <=> Submitted(i)
      BY <2>2, <1>0, <1>1 DEF Submitted, TypeOK
    <3>2. \A d \in log' : d.id = i => d \in log
      BY <2>2, <1>0, <1>2
    <3> QED
      BY <1>0, <3>1, <3>2 DEF SlotOK
  <2> QED
    BY <2>1, <2>2
<1>7. NoSlotLost'
  BY <1>0, <1>u DEF NoSlotLost, CoveredBy
<1>8. NeverEarly'
  <2>1. ASSUME id \notin raced, Satisfiable(id)
        PROVE  /\ snapshot[id].nextRun \in Fires[jobs[id].schedule]
               /\ since[id] < snapshot[id].nextRun
    <3>1. Undisturbed(id)
      BY <2>1, <1>1 DEF PutOK, HasToItself, Undisturbed, BeingReplaced
    <3> QED
      BY <2>1, <3>1, <1>1 DEF CopyOK, SlotOK
  <2> QED
    BY <2>1, <1>0, <1>1, <1>2 DEF NeverEarly, Satisfiable
<1>9. LateOK'
  <2>1. \A i : i = id => ~ToSubmit(i)'
    BY <1>0, <1>a, <1>b DEF ToSubmit
  <2>2. \A i : ToSubmit(i)' => ToSubmit(i)
    BY <1>0, <1>1 DEF ToSubmit, TypeOK
  <2> QED
    BY <2>1, <2>2, <1>0, <1>1, <1>2 DEF LateOK
<1> QED
  BY <1>3, <1>4, <1>4a, <1>5, <1>6, <1>7, <1>8, <1>9

(***************************************************************************)
(* Advance moves one job's next run to the first slot after now, the       *)
(* instant up to which its dispatch covers every slot.                     *)
(***************************************************************************)
LEMMA AdvanceStep ==
    IInv /\ Advance => IInv'
<1> SUFFICES ASSUME IInv, Advance PROVE IInv'
  OBVIOUS
<1> USE DEF IInv, Advance, AdvanceNext
<1>1. PICK id : id = dueJobs[cursor]
  OBVIOUS
<1>2. /\ schedPC = "advance" /\ cursor \in DOMAIN dueJobs /\ cursor \in Nat
      /\ id \in DOMAIN snapshot /\ id \in DOMAIN jobs
      /\ snapshot[id] \in JobRecords /\ jobs[id] \in JobRecords
      /\ now \in 1 .. clock /\ clock \in 1 .. MaxTime /\ MaxTime \in Nat
      /\ snapshot[id].schedule \in Expressions
      /\ Pending(id) /\ Submitted(id)
  BY <1>1, MaxTimeAssumption DEF TypeOK, SweepOK, InSweep, JobRecords, Pending, Submitted
<1> DEFINE next == GetNextRun(snapshot[id].schedule, now)
<1>3. next \in Nat
  BY <1>2, NextRunIsInstant
<1>4. /\ jobs' = [jobs EXCEPT ![id].nextRun = next]
      /\ UNCHANGED <<idCounter, clock, req, log, since, raced>>
      /\ UNCHANGED <<schedPC, snapshot, now, dueJobs>>
      /\ cursor' = cursor + 1
  BY <1>1, <1>2 DEF UpdateJobNextRun, Validate, handlerVars, historyVars
<1>5. /\ DOMAIN jobs' = DOMAIN jobs
      /\ jobs'[id] = [jobs[id] EXCEPT !.nextRun = next]
      /\ \A i \in DOMAIN jobs : i # id => jobs'[i] = jobs[i]
      /\ \A i \in DOMAIN jobs : /\ jobs'[i].schedule = jobs[i].schedule
                                /\ jobs'[i].status = jobs[i].status
  BY <1>2, <1>4 DEF JobRecords, TypeOK
<1>6. TypeOK'
  BY <1>2, <1>3, <1>4, <1>5 DEF TypeOK, RequestOK, SomeID, JobRecords, Instants
<1>u. \A i : /\ Undisturbed(i)' <=> Undisturbed(i)
             /\ \A h : Replaces(h, i)' <=> Replaces(h, i)
  BY <1>4, <1>5 DEF Undisturbed, BeingReplaced, Replaces
<1>v. \A i \in DOMAIN jobs : Satisfiable(i)' <=> Satisfiable(i)
  BY <1>5 DEF Satisfiable
<1>7. SweepOK'
  BY <1>4, <1>5 DEF SweepOK, InSweep
<1>8. /\ ~Pending(id)' /\ ~Submitted(id)'
      /\ \A i : i # id => (Pending(i)' <=> Pending(i)) /\ (Submitted(i)' <=> Submitted(i))
  <2>1. \A k \in DOMAIN dueJobs : k \in Int /\ (dueJobs[k] = id => k = cursor)
    BY <1>1, <1>2 DEF SweepOK, InSweep, TypeOK
  <2> QED
    BY <2>1, <1>1, <1>2, <1>4 DEF Pending, Submitted
<1>8a. PutOK'
  <2> SUFFICES ASSUME NEW h \in Handlers, NEW i \in DOMAIN jobs', Replaces(h, i)', i \notin raced'
               PROVE  HasToItself(h, i)'
    BY DEF PutOK
  <2>1. HasToItself(h, i)
    BY <1>4, <1>5, <1>u DEF PutOK
  <2>2. i # id
    BY <2>1, <1>2 DEF HasToItself
  <2> QED
    BY <2>1, <2>2, <1>4, <1>5, <1>8, <1>u DEF HasToItself
<1>9. CopyOK'
  BY <1>4, <1>5, <1>8, <1>u DEF CopyOK
<1>10. ASSUME Undisturbed(id), Satisfiable(id)
       PROVE  /\ next \in Fires[jobs[id].schedule] /\ next > now
              /\ \A s \in Fires[jobs[id].schedule] : s > now => next <= s
  <2>1. snapshot[id].schedule = jobs[id].schedule
    BY <1>2, <1>10 DEF CopyOK
  <2> QED
    BY <2>1, <1>2, <1>10, NextRunIsFirstSlot DEF Satisfiable
<1>11. SlotOK'
  <2> SUFFICES ASSUME NEW i \in DOMAIN jobs, Undisturbed(i), Satisfiable(i)
               PROVE  /\ jobs'[i].nextRun \in Fires[jobs[i].schedule]
                      /\ since[i] < jobs'[i].nextRun
                      /\ IF Submitted(i)'
                           THEN /\ \A d \in log : d.id = i => d.sweep <= now
                                /\ \E d \in log : /\ d.id = i /\ d.schedule = jobs'[i].schedule
                                                   /\ d.slot = jobs'[i].nextRun /\ d.sweep = now
                           ELSE \A d \in log : d.id = i => d.sweep < jobs'[i].nextRun
    BY <1>4, <1>5, <1>u, <1>v DEF SlotOK
  <2>1. CASE i = id
    <3>1. /\ next \in Fires[jobs[id].schedule] /\ next > now
          /\ jobs'[id].nextRun = next
      BY <2>1, <1>2, <1>5, <1>10 DEF JobRecords
    <3>2. /\ \A d \in log : d.id = id => d.sweep <= now
          /\ since[id] < jobs[id].nextRun
          /\ \E d \in log : /\ d.id = id /\ d.schedule = jobs[id].schedule
                            /\ d.slot = jobs[id].nextRun /\ d.sweep = now
      BY <2>1, <1>2 DEF SlotOK
    <3>3. snapshot[id].nextRun = jobs[id].nextRun /\ snapshot[id].nextRun <= now
      BY <2>1, <1>1, <1>2 DEF CopyOK, SweepOK, InSweep
    <3>4. \A d \in log : d.sweep \in Nat
      BY DEF TypeOK
    <3>5. since[id] \in Nat /\ jobs[id].nextRun \in Int
      BY <1>2 DEF TypeOK, JobRecords, Instants, Nil
    <3> QED
      BY <2>1, <3>1, <3>2, <3>3, <3>4, <3>5, <1>2, <1>3, <1>8
  <2>2. CASE i # id
    BY <2>2, <1>5, <1>8 DEF SlotOK
  <2> QED
    BY <2>1, <2>2
<1>12. NoSlotLost'
  <2> SUFFICES ASSUME NEW i \in DOMAIN jobs, Undisturbed(i),
                      NEW s \in Fires[jobs[i].schedule],
                      since[i] < s, s < jobs'[i].nextRun
               PROVE  \E d \in log : CoveredBy(d, i, s)
    BY <1>4, <1>5, <1>u DEF NoSlotLost, CoveredBy
  <2>1. CASE i = id
    <3>1. Undisturbed(id) /\ Satisfiable(id)
      BY <2>1 DEF Satisfiable
    <3>2. s <= now
      <4>1. jobs'[id].nextRun = next
        BY <1>2, <1>5 DEF JobRecords
      <4>2. s \in Nat
        BY <2>1, <1>2, FiresAssumption DEF JobRecords
      <4> QED
        BY <4>1, <4>2, <2>1, <3>1, <1>2, <1>3, <1>10
    <3>3. CASE s < jobs[id].nextRun
      BY <2>1, <3>3 DEF NoSlotLost
    <3>4. CASE ~(s < jobs[id].nextRun)
      <4>1. PICK d \in log : /\ d.id = id /\ d.schedule = jobs[id].schedule
                              /\ d.slot = jobs[id].nextRun /\ d.sweep = now
        BY <3>1, <1>2 DEF SlotOK
      <4>2. s \in Nat /\ jobs[id].nextRun \in Int
        BY <2>1, <1>2, FiresAssumption DEF JobRecords, Instants, Nil
      <4> QED
        BY <2>1, <3>2, <3>4, <4>1, <4>2 DEF CoveredBy
    <3> QED
      BY <3>3, <3>4
  <2>2. CASE i # id
    BY <2>2, <1>5 DEF NoSlotLost
  <2> QED
    BY <2>1, <2>2
<1>13. NeverEarly'
  BY <1>4 DEF NeverEarly
<1>14. LateOK'
  BY <1>2, <1>4, <1>5 DEF LateOK, ToSubmit, TypeOK
<1> QED
  BY <1>6, <1>7, <1>8a, <1>9, <1>11, <1>12, <1>13, <1>14

(***************************************************************************)
(* A sweep begins: the copies are the active jobs as they stand.           *)
(***************************************************************************)
LEMMA PollStep ==
    IInv /\ SweepStart => IInv'
<1> SUFFICES ASSUME IInv, SweepStart PROVE IInv'
  OBVIOUS
<1> USE DEF IInv, SweepStart, Poll
<1>1. /\ UNCHANGED <<jobs, idCounter, clock, req, log, since>>
      /\ UNCHANGED <<now, dueJobs, cursor>>
      /\ schedPC \in {"started", "waiting"} /\ schedPC' = "collect"
      /\ snapshot' = GetActiveJobs
      /\ raced' = raced \cup {id \in DOMAIN GetActiveJobs : BeingReplaced(id)}
  BY DEF repoVars, handlerVars
<1>2. /\ DOMAIN GetActiveJobs \subseteq DOMAIN jobs
      /\ \A i \in DOMAIN GetActiveJobs :
            GetActiveJobs[i] = jobs[i] /\ jobs[i].status = StatusActive
  BY DEF GetActiveJobs
<1>3. dueJobs = <<>>
  BY <1>1 DEF SweepOK, InSweep
<1>4. TypeOK'
  BY <1>1, <1>2, <1>3 DEF TypeOK, RequestOK, SomeID, SchedPCs
<1>5. SweepOK'
  BY <1>1, <1>3 DEF SweepOK, InSweep
<1>6. \A i : /\ Undisturbed(i)' => Undisturbed(i)
             /\ \A h : Replaces(h, i)' <=> Replaces(h, i)
             /\ ~Submitted(i) /\ ~Submitted(i)'
  BY <1>1 DEF Undisturbed, BeingReplaced, Replaces, Submitted
<1>7. PutOK'
  <2>1. \A h \in Handlers : \A i : Replaces(h, i) /\ i \notin raced' => ~Pending(i)'
    BY <1>1 DEF Pending, BeingReplaced
  <2> QED
    BY <2>1, <1>1, <1>6 DEF PutOK, HasToItself
<1>8. CopyOK'
  BY <1>1, <1>2 DEF CopyOK, Pending
<1>9. SlotOK'
  BY <1>1, <1>6 DEF SlotOK, Satisfiable
<1>10. NoSlotLost' /\ NeverEarly'
  BY <1>1, <1>6 DEF NoSlotLost, CoveredBy, NeverEarly
<1>11. LateOK'
  BY <1>1, <1>2 DEF LateOK, ToSubmit, StatusActive, StatusDeleted
<1> QED
  BY <1>4, <1>5, <1>7, <1>8, <1>9, <1>10, <1>11

(***************************************************************************)
(* The due jobs are put in some order, each once; their copies stay.       *)
(***************************************************************************)
LEMMA CollectDueStep ==
    IInv /\ CollectDue /\ UNCHANGED <<repoVars, clock, handlerVars, historyVars>> => IInv'
<1> SUFFICES ASSUME IInv, CollectDue,
                    UNCHANGED <<repoVars, clock, handlerVars, historyVars>>
             PROVE  IInv'
  OBVIOUS
<1> USE DEF IInv, CollectDue
<1> DEFINE due == DueIn(snapshot, clock)
<1>1. /\ UNCHANGED <<jobs, idCounter, clock, req, log, since, raced>>
      /\ schedPC = "collect" /\ schedPC' = "submit" /\ cursor' = 1
      /\ now' = clock /\ snapshot' = Restrict(snapshot, due)
  BY DEF repoVars, handlerVars, historyVars
<1>2. /\ DOMAIN snapshot' = due /\ due \subseteq DOMAIN snapshot
      /\ \A i \in due : /\ snapshot'[i] = snapshot[i]
                        /\ snapshot[i].nextRun # Nil /\ ~(clock < snapshot[i].nextRun)
  BY <1>1 DEF Restrict, DueIn
<1>3. /\ DOMAIN dueJobs' = 1 .. Cardinality(due) /\ Cardinality(due) \in Nat
      /\ \A k \in DOMAIN dueJobs' : dueJobs'[k] \in due
      /\ \A k, l \in DOMAIN dueJobs' : dueJobs'[k] = dueJobs'[l] => k = l
  <2>1. due \subseteq 1 .. idCounter - 1 /\ idCounter - 1 \in Int
    BY <1>2 DEF TypeOK
  <2>2. Cardinality(due) \in Nat
    <3>1. IsFiniteSet(1 .. idCounter - 1)
      BY <2>1, FS_Interval
    <3>2. IsFiniteSet(due)
      BY <2>1, <3>1, FS_Subset
    <3> QED
      BY <3>2, FS_CardinalityType
  <2> QED
    BY <2>2 DEF SetToSeqs
<1>4. clock \in 1 .. MaxTime /\ clock \in Nat
  BY MaxTimeAssumption DEF TypeOK
<1>5. TypeOK'
  BY <1>1, <1>2, <1>3, <1>4 DEF TypeOK, RequestOK, SomeID, SchedPCs
<1>6. SweepOK'
  <2> SUFFICES ASSUME NEW k \in DOMAIN dueJobs'
               PROVE  /\ snapshot'[dueJobs'[k]].nextRun \in Nat
                      /\ snapshot'[dueJobs'[k]].nextRun <= clock
    BY <1>1, <1>3, <1>4 DEF SweepOK, InSweep
  <2> QED
    BY <1>2, <1>3, <1>4 DEF TypeOK, JobRecords, Instants
<1>u. \A i : /\ Undisturbed(i)' <=> Undisturbed(i)
             /\ Satisfiable(i)' <=> Satisfiable(i)
             /\ \A h : Replaces(h, i)' <=> Replaces(h, i)
  BY <1>1 DEF Undisturbed, BeingReplaced, Replaces, Satisfiable
<1>7. PutOK'
  <2>1. \A i : Pending(i)' => Pending(i)
    BY <1>1, <1>2, <1>3 DEF Pending
  <2> QED
    BY <2>1, <1>1, <1>u DEF PutOK, HasToItself
<1>8. CopyOK'
  BY <1>1, <1>2, <1>3, <1>u DEF CopyOK, Pending
<1>9. SlotOK'
  <2>1. \A i : ~Submitted(i) /\ ~Submitted(i)'
    BY <1>1, <1>3 DEF Submitted
  <2> QED
    BY <1>1, <2>1, <1>u DEF SlotOK
<1>10. NoSlotLost' /\ NeverEarly'
  BY <1>1, <1>u DEF NoSlotLost, CoveredBy, NeverEarly
<1>11. LateOK'
  BY <1>1, <1>2, <1>3 DEF LateOK, ToSubmit
<1> QED
  BY <1>5, <1>6, <1>7, <1>8, <1>9, <1>10, <1>11

(***************************************************************************)
(* The submit loop ends: every due job is submitted, none is advanced.     *)
(***************************************************************************)
LEMMA AllSubmittedStep ==
    IInv /\ AllSubmitted /\ UNCHANGED <<repoVars, clock, handlerVars, historyVars>> => IInv'
<1> SUFFICES ASSUME IInv, AllSubmitted,
                    UNCHANGED <<repoVars, clock, handlerVars, historyVars>>
             PROVE  IInv'
  OBVIOUS
<1> USE DEF IInv, AllSubmitted
<1>1. /\ UNCHANGED <<jobs, idCounter, clock, req, log, since, raced>>
      /\ UNCHANGED <<snapshot, now, dueJobs>>
      /\ schedPC = "submit" /\ schedPC' = "advance"
      /\ cursor \notin DOMAIN dueJobs /\ cursor' = 1
  BY DEF repoVars, handlerVars, historyVars
<1>2. \A k \in DOMAIN dueJobs : k < cursor /\ k >= 1
  BY <1>1 DEF SweepOK, InSweep
<1>3. TypeOK'
  BY <1>1 DEF TypeOK, RequestOK, SomeID, SchedPCs
<1>u. \A i : /\ Undisturbed(i)' <=> Undisturbed(i)
             /\ Satisfiable(i)' <=> Satisfiable(i)
             /\ \A h : Replaces(h, i)' <=> Replaces(h, i)
  BY <1>1 DEF Undisturbed, BeingReplaced, Replaces, Satisfiable
<1>4. SweepOK'
  BY <1>1, <1>2 DEF SweepOK, InSweep
<1>5. \A i : /\ Pending(i)' <=> Pending(i)
             /\ Submitted(i)' <=> Submitted(i)
             /\ ~ToSubmit(i)'
  BY <1>1, <1>2 DEF Pending, Submitted, ToSubmit
<1>6. CopyOK' /\ LateOK' /\ PutOK'
  BY <1>1, <1>5, <1>u DEF CopyOK, LateOK, PutOK, HasToItself
<1>7. SlotOK'
  BY <1>1, <1>5, <1>u DEF SlotOK
<1>8. NoSlotLost' /\ NeverEarly'
  BY <1>1, <1>u DEF NoSlotLost, CoveredBy, NeverEarly
<1> QED
  BY <1>3, <1>4, <1>6, <1>7, <1>8

(***************************************************************************)
(* The advance loop ends: nothing is submitted or pending any more.        *)
(***************************************************************************)
LEMMA SweepDoneStep ==
    IInv /\ SweepDone /\ UNCHANGED <<repoVars, clock, handlerVars, historyVars>> => IInv'
<1> SUFFICES ASSUME IInv, SweepDone,
                    UNCHANGED <<repoVars, clock, handlerVars, historyVars>>
             PROVE  IInv'
  OBVIOUS
<1> USE DEF IInv, SweepDone
<1>1. /\ UNCHANGED <<jobs, idCounter, clock, req, log, since, raced>>
      /\ schedPC = "advance" /\ schedPC' = "waiting"
      /\ cursor \notin DOMAIN dueJobs /\ cursor' = 1
      /\ snapshot' = NoJobs /\ now' = 0 /\ dueJobs' = <<>>
  BY DEF repoVars, handlerVars, historyVars, ZeroTime
<1>2. \A k \in DOMAIN dueJobs : k < cursor
  BY <1>1 DEF SweepOK, InSweep
<1>3. TypeOK'
  BY <1>1, MaxTimeAssumption DEF TypeOK, RequestOK, SomeID, SchedPCs, NoJobs
<1>u. \A i : /\ Undisturbed(i)' <=> Undisturbed(i)
             /\ Satisfiable(i)' <=> Satisfiable(i)
             /\ \A h : Replaces(h, i)' <=> Replaces(h, i)
  BY <1>1 DEF Undisturbed, BeingReplaced, Replaces, Satisfiable
<1>4. SweepOK'
  BY <1>1 DEF SweepOK, InSweep
<1>5. \A i : ~Pending(i)' /\ ~Submitted(i)' /\ ~Submitted(i) /\ ~ToSubmit(i)'
  BY <1>1, <1>2 DEF Pending, Submitted, ToSubmit, TypeOK
<1>6. CopyOK' /\ LateOK' /\ PutOK'
  BY <1>1, <1>5, <1>u DEF CopyOK, LateOK, PutOK, HasToItself
<1>7. SlotOK'
  BY <1>1, <1>5, <1>u DEF SlotOK
<1>8. NoSlotLost' /\ NeverEarly'
  BY <1>1, <1>u DEF NoSlotLost, CoveredBy, NeverEarly
<1> QED
  BY <1>3, <1>4, <1>6, <1>7, <1>8

(***************************************************************************)
(* A stored job is new to everybody: it is in no sweep and no dispatch.    *)
(***************************************************************************)
LEMMA StoreStep ==
    IInv /\ HandlerStore => IInv'
<1> SUFFICES ASSUME IInv, HandlerStore PROVE IInv'
  OBVIOUS
<1> USE DEF IInv
<1>1. PICK h \in Handlers :
        /\ StoreJob(h)
        /\ since' = With(since, CreatedID(NoID), req[h].stamp)
        /\ UNCHANGED <<clock, schedVars, log, raced>>
  BY DEF HandlerStore
<1>2. PICK e \in Expressions, t \in JobTypes :
        req[h].job = NewJob(e, t, GetNextRun(e, req[h].stamp))
  BY <1>1 DEF StoreJob, TypeOK, RequestOK, SomeID
<1>3. PICK id, stamp, first :
        id = idCounter /\ stamp = req[h].stamp /\ first = GetNextRun(e, stamp)
  OBVIOUS
<1>4. /\ id \in Nat \ {0} /\ idCounter' = id + 1
      /\ id \notin DOMAIN jobs
      /\ stamp \in 1 .. clock /\ clock \in 1 .. MaxTime /\ MaxTime \in Nat
  BY <1>1, <1>3, MaxTimeAssumption
  DEF StoreJob, CreateJob, NextCounter, NoID, TypeOK, RequestOK, SomeID
<1>5. /\ jobs' = With(jobs, id, [req[h].job EXCEPT !.status = StatusActive])
      /\ since' = With(since, id, stamp)
      /\ UNCHANGED <<clock, log, raced>>
      /\ UNCHANGED <<schedPC, snapshot, now, dueJobs, cursor>>
      /\ req' = [req EXCEPT ![h] = [IdleRequest EXCEPT !.at = "inc"]]
  BY <1>1, <1>3, <1>4 DEF StoreJob, CreateJob, CreatedID, schedVars
<1>6. first \in Nat
  BY <1>3, <1>4, NextRunIsInstant
<1>7. /\ DOMAIN jobs' = DOMAIN jobs \cup {id}
      /\ jobs'[id] \in JobRecords
      /\ jobs'[id].schedule = e /\ jobs'[id].nextRun = first
      /\ jobs'[id].status = StatusActive
      /\ \A i \in DOMAIN jobs : i # id /\ jobs'[i] = jobs[i]
      /\ DOMAIN since' = DOMAIN jobs'
      /\ since'[id] = stamp
      /\ \A i \in DOMAIN jobs : since'[i] = since[i]
  <2>1. PICK job : job = [req[h].job EXCEPT !.status = StatusActive]
    OBVIOUS
  <2>2. job \in JobRecords /\ job.schedule = e /\ job.nextRun = first /\ job.status = StatusActive
    <3>1. req[h].job = NewJob(e, t, first)
      BY <1>2, <1>3
    <3>2. job = [NewJob(e, t, first) EXCEPT !.status = StatusActive]
      BY <3>1, <2>1
    <3> QED
      BY <3>2, <1>6 DEF NewJob, JobRecords, StatusActive, JobStatuses, Instants
  <2>3. DOMAIN since = DOMAIN jobs
    BY DEF TypeOK
  <2>4. /\ jobs' = With(jobs, id, job)
        /\ since' = With(since, id, stamp)
    BY <2>1, <1>5
  <2> QED
    <3>1. /\ DOMAIN jobs' = DOMAIN jobs \cup {id} /\ jobs'[id] = job
          /\ \A i \in DOMAIN jobs : i # id /\ jobs'[i] = jobs[i]
      BY <2>4, <1>4 DEF With
    <3>2. /\ DOMAIN since' = DOMAIN jobs \cup {id} /\ since'[id] = stamp
          /\ \A i \in DOMAIN jobs : since'[i] = since[i]
      BY <2>3, <2>4, <1>4 DEF With
    <3> QED
      BY <3>1, <3>2, <2>2
<1>8. \A g \in Handlers : req'[g] = req[g] \/ req'[g] = [IdleRequest EXCEPT !.at = "inc"]
  BY <1>5
<1>9. TypeOK'
  <2>2. \A i \in DOMAIN jobs' : i \in 1 .. idCounter' - 1 /\ jobs'[i] \in JobRecords
    BY <1>3, <1>4, <1>7 DEF TypeOK
  <2>3. \A g \in Handlers : RequestOK(req'[g]) /\ clock' = clock
    BY <1>5, <1>8 DEF RequestOK, SomeID, HandlerPCs, IdleRequest, TypeOK
  <2>4. \A g \in Handlers : RequestOK(req[g])'
    BY <2>3, <1>7 DEF RequestOK, SomeID
  <2> QED
    BY <2>2, <2>4, <1>4, <1>5, <1>7 DEF TypeOK
<1>10. SweepOK'
  BY <1>5 DEF SweepOK, InSweep
<1>11. /\ \A g \in Handlers : \A i : Replaces(g, i)' <=> Replaces(g, i)
       /\ \A g \in Handlers : ~Replaces(g, id)
       /\ \A i \in DOMAIN jobs : Undisturbed(i)' <=> Undisturbed(i)
  <2>1. \A g \in Handlers : req[g].at \in {"reschedule", "apply"} =>
                             req[g].id \in DOMAIN jobs \cup {NoID}
    BY DEF TypeOK, RequestOK, SomeID
  <2>2. req[h].at = "store" /\ DOMAIN req = Handlers
    BY <1>1 DEF StoreJob, TypeOK
  <2>3. \A g \in Handlers : \A i : Replaces(g, i)' <=> Replaces(g, i)
    BY <2>2, <1>5 DEF Replaces, IdleRequest
  <2> QED
    BY <2>1, <2>3, <1>4, <1>5, <1>7, ZenonT(30) DEF Replaces, NoID, Undisturbed, BeingReplaced
<1>12. ~Pending(id) /\ ~Submitted(id)
  BY <1>4 DEF Pending, Submitted, TypeOK
<1>13. /\ \A i : Pending(i)' <=> Pending(i)
       /\ \A i : Submitted(i)' <=> Submitted(i)
       /\ \A i : ToSubmit(i)' <=> ToSubmit(i)
  BY <1>5 DEF Pending, Submitted, ToSubmit
<1>13a. PutOK'
  <2> SUFFICES ASSUME NEW g \in Handlers, NEW i \in DOMAIN jobs', Replaces(g, i)', i \notin raced'
               PROVE  HasToItself(g, i)'
    BY DEF PutOK
  <2>1. i \in DOMAIN jobs /\ Replaces(g, i) /\ req'[g] = req[g]
    BY <1>7, <1>8, <1>11 DEF Replaces, IdleRequest
  <2>2. HasToItself(g, i)
    BY <2>1, <1>5 DEF PutOK
  <2> QED
    BY <2>1, <2>2, <1>5, <1>7, <1>11, <1>13 DEF HasToItself
<1>14. CopyOK'
  BY <1>5, <1>7, <1>11, <1>12, <1>13 DEF CopyOK
<1>15. ASSUME Fires[e] # {}
       PROVE  first \in Fires[e] /\ first > stamp /\ \A s \in Fires[e] : s > stamp => first <= s
  BY <1>3, <1>4, <1>15, NextRunIsFirstSlot
<1>16. \A d \in log : d.id \in DOMAIN jobs
  BY DEF TypeOK
<1>17. SlotOK'
  BY <1>4, <1>5, <1>7, <1>11, <1>12, <1>13, <1>15, <1>16 DEF SlotOK, Satisfiable
<1>18. NoSlotLost'
  <2>1. \A s \in Fires[e] : ~(stamp < s /\ s < first)
    BY <1>4, <1>6, <1>15, FiresAssumption
  <2> QED
    BY <2>1, <1>5, <1>7, <1>11 DEF NoSlotLost, CoveredBy
<1>19. NeverEarly'
  BY <1>5 DEF NeverEarly
<1>20. LateOK'
  BY <1>5, <1>7, <1>13, <1>16 DEF LateOK
<1> QED
  BY <1>9, <1>10, <1>13a, <1>14, <1>17, <1>18, <1>19, <1>20

(***************************************************************************)
(* A PUT writes a next run.  The job is its own until the PUT is done, or  *)
(* raced.                                                                  *)
(***************************************************************************)
LEMMA RescheduleStep ==
    ASSUME IInv, NEW h \in Handlers, Reschedule(h),
           UNCHANGED <<clock, schedVars, historyVars>>
    PROVE  IInv'
<1> USE DEF IInv
<1>2. PICK id, next, stamp :
        id = req[h].id /\ next = req[h].nextRun /\ stamp = req[h].stamp
  OBVIOUS
<1>3. /\ jobs' = IF id \in DOMAIN jobs THEN [jobs EXCEPT ![id].nextRun = next] ELSE jobs
      /\ UNCHANGED <<idCounter, clock, log, since, raced>>
      /\ UNCHANGED <<schedPC, snapshot, now, dueJobs, cursor>>
      /\ req' = [req EXCEPT ![h] = [IdleRequest EXCEPT
                    !.at = "apply", !.id = id, !.updates = req[h].updates, !.stamp = stamp]]
      /\ RequestOK(req[h]) /\ req[h].at = "reschedule"
      /\ DOMAIN req = Handlers
  BY <1>2 DEF Reschedule, UpdateJobNextRun, TypeOK, schedVars, historyVars
<1>3a. /\ next \in Nat /\ Reschedules(req[h].updates) /\ stamp \in 1 .. clock
       /\ next = GetNextRun(req[h].updates.schedule.val, stamp)
  <2>1. /\ Reschedules(req[h].updates) /\ Validate(req[h].updates.schedule.val)
        /\ stamp \in 1 .. clock /\ clock \in 1 .. MaxTime /\ MaxTime \in Nat
        /\ next = GetNextRun(req[h].updates.schedule.val, stamp)
    BY <1>2, <1>3, MaxTimeAssumption DEF RequestOK, TypeOK
  <2> QED
    BY <2>1, NextRunIsInstant DEF Validate
<1>4. /\ DOMAIN jobs' = DOMAIN jobs
      /\ \A i \in DOMAIN jobs : /\ i # id => jobs'[i] = jobs[i]
                                /\ i = id => jobs'[i].nextRun = next
                                /\ jobs'[i].schedule = jobs[i].schedule
                                /\ jobs'[i].status = jobs[i].status
                                /\ jobs'[i] \in JobRecords
  BY <1>3, <1>3a DEF TypeOK, JobRecords, Instants
<1>5. /\ \A g \in Handlers : g # h => req'[g] = req[g]
      /\ req'[h] = [IdleRequest EXCEPT
                    !.at = "apply", !.id = id, !.updates = req[h].updates, !.stamp = stamp]
  BY <1>3
<1>6. TypeOK'
  <2>1. \A g \in Handlers : RequestOK(req'[g])
    <3>1. RequestOK(req'[h])
      BY <1>2, <1>3, <1>3a, <1>5 DEF RequestOK, IdleRequest, HandlerPCs
    <3> QED
      BY <3>1, <1>5 DEF TypeOK
  <2>2. \A g \in Handlers : RequestOK(req[g])'
    BY <2>1, <1>3, <1>4 DEF RequestOK, SomeID
  <2> QED
    BY <2>2, <1>3, <1>4 DEF TypeOK
<1>7. SweepOK'
  BY <1>3 DEF SweepOK, InSweep
<1>8. /\ \A g \in Handlers : \A i : Replaces(g, i)' <=> Replaces(g, i)
      /\ Replaces(h, id)
  BY <1>2, <1>3, <1>3a, <1>5 DEF Replaces, IdleRequest
<1>9. \A i \in DOMAIN jobs :
        /\ Undisturbed(i)' <=> Undisturbed(i)
        /\ Undisturbed(i) => i # id
        /\ Satisfiable(i)' <=> Satisfiable(i)
        /\ Pending(i)' <=> Pending(i)
        /\ Submitted(i)' <=> Submitted(i)
  BY <1>3, <1>4, <1>8 DEF Undisturbed, BeingReplaced, Satisfiable, Pending, Submitted
<1>10. PutOK'
  <2> SUFFICES ASSUME NEW g \in Handlers, NEW i \in DOMAIN jobs', Replaces(g, i)', i \notin raced'
               PROVE  HasToItself(g, i)'
    BY DEF PutOK
  <2>1. HasToItself(g, i) /\ Replaces(g, i)
    BY <1>3, <1>4, <1>8 DEF PutOK
  <2>2. CASE g = h
    <3>1. i = id /\ req'[h].stamp = stamp
      BY <2>1, <2>2, <1>2, <1>5 DEF Replaces, IdleRequest
    <3>2. jobs'[i].nextRun = GetNextRun(req'[h].updates.schedule.val, req'[h].stamp)
      BY <2>1, <3>1, <1>2, <1>3a, <1>4, <1>5 DEF IdleRequest
    <3> QED
      BY <2>1, <2>2, <3>1, <3>2, <1>2, <1>3, <1>4, <1>8, <1>9 DEF HasToItself
  <2>3. CASE g # h
    <3>1. i # id
      BY <2>1, <2>3, <1>8 DEF HasToItself
    <3> QED
      BY <2>1, <2>3, <3>1, <1>3, <1>4, <1>5, <1>8, <1>9 DEF HasToItself
  <2> QED
    BY <2>2, <2>3
<1>11. CopyOK'
  BY <1>3, <1>4, <1>9 DEF CopyOK
<1>12. SlotOK'
  BY <1>3, <1>4, <1>9 DEF SlotOK
<1>13. NoSlotLost'
  BY <1>3, <1>4, <1>9 DEF NoSlotLost, CoveredBy
<1>14. NeverEarly'
  BY <1>3 DEF NeverEarly
<1>15. LateOK'
  BY <1>3, <1>4 DEF LateOK, ToSubmit, TypeOK
<1> QED
  BY <1>6, <1>7, <1>10, <1>11, <1>12, <1>13, <1>14, <1>15

(***************************************************************************)
(* Apply may change the schedule; a JSON string changes neither type nor   *)
(* status.                                                                 *)
(***************************************************************************)
LEMMA AppliedUpdates ==
    ASSUME NEW job \in JobRecords, NEW u \in Updates,
           Reschedules(u) => Validate(u.schedule.val)
    PROVE  /\ ApplyUpdates(job, u) \in JobRecords
           /\ ApplyUpdates(job, u).nextRun = job.nextRun
           /\ ApplyUpdates(job, u).status = job.status
           /\ ApplyUpdates(job, u).schedule =
                 IF Reschedules(u) THEN u.schedule.val ELSE job.schedule
<1>1. u \in [schedule: JSONValues, type: JSONValues, status: JSONValues]
  BY UpdatesAssumption
<1>2. u.type.go # "models.JobType" /\ u.status.go # "models.JobStatus"
  BY <1>1 DEF JSONValues, JSONTypes
<1>3. ApplyUpdates(job, u) =
        [job EXCEPT !.schedule = Asserted(u.schedule, "string", job.schedule)]
  BY <1>2 DEF ApplyUpdates, Asserted, JobRecords
<1> QED
  BY <1>3 DEF Asserted, JobRecords, Reschedules, Validate

\* repo.UpdateJob replaces the schedule: a job without a race has no dispatch
\* after the PUT's instant, and its next run is the new schedule's first slot.
LEMMA ApplyStep ==
    IInv /\ HandlerApply => IInv'
<1> SUFFICES ASSUME IInv, HandlerApply PROVE IInv'
  OBVIOUS
<1> USE DEF IInv
<1>0. PICK h \in Handlers :
        /\ Apply(h)
        /\ since' = IF Reschedules(req[h].updates) /\ req[h].id \in DOMAIN jobs
                      THEN [since EXCEPT ![req[h].id] = req[h].stamp]
                      ELSE since
        /\ UNCHANGED <<clock, schedVars, log, raced>>
  BY DEF HandlerApply
<1>1. PICK id, u, stamp : id = req[h].id /\ u = req[h].updates /\ stamp = req[h].stamp
  OBVIOUS
<1>2. /\ jobs' = IF id \in DOMAIN jobs THEN [jobs EXCEPT ![id] = ApplyUpdates(@, u)] ELSE jobs
      /\ since' = IF Reschedules(u) /\ id \in DOMAIN jobs
                    THEN [since EXCEPT ![id] = stamp] ELSE since
      /\ UNCHANGED <<idCounter, clock, log, raced>>
      /\ UNCHANGED <<schedPC, snapshot, now, dueJobs, cursor>>
      /\ req' = [req EXCEPT ![h] = IdleRequest] /\ DOMAIN req = Handlers
      /\ u \in Updates /\ req[h].at = "apply"
      /\ Reschedules(u) => Validate(u.schedule.val) /\ stamp \in 1 .. clock
  BY <1>0, <1>1 DEF Apply, UpdateJob, TypeOK, RequestOK, schedVars
<1>3. /\ DOMAIN jobs' = DOMAIN jobs /\ DOMAIN since' = DOMAIN jobs /\ DOMAIN since = DOMAIN jobs
      /\ \A i \in DOMAIN jobs :
            /\ jobs'[i] \in JobRecords
            /\ jobs'[i].nextRun = jobs[i].nextRun
            /\ jobs'[i].status = jobs[i].status
            /\ jobs'[i].schedule =
                  IF i = id /\ Reschedules(u) THEN u.schedule.val ELSE jobs[i].schedule
            /\ since'[i] = IF i = id /\ Reschedules(u) THEN stamp ELSE since[i]
  <2>0. DOMAIN since = DOMAIN jobs /\ \A i \in DOMAIN jobs : jobs[i] \in JobRecords
    BY DEF TypeOK
  <2>1. CASE id \in DOMAIN jobs
    <3>1. jobs[id] \in JobRecords
      BY <2>1 DEF TypeOK
    <3>2. /\ ApplyUpdates(jobs[id], u) \in JobRecords
          /\ ApplyUpdates(jobs[id], u).nextRun = jobs[id].nextRun
          /\ ApplyUpdates(jobs[id], u).status = jobs[id].status
          /\ ApplyUpdates(jobs[id], u).schedule =
                IF Reschedules(u) THEN u.schedule.val ELSE jobs[id].schedule
      BY <3>1, <1>2, AppliedUpdates
    <3>3. /\ DOMAIN jobs' = DOMAIN jobs
          /\ \A i \in DOMAIN jobs :
                jobs'[i] = IF i = id THEN ApplyUpdates(jobs[id], u) ELSE jobs[i]
      BY <2>1, <1>2
    <3>4. /\ DOMAIN since' = DOMAIN jobs
          /\ \A i \in DOMAIN jobs :
                since'[i] = IF i = id /\ Reschedules(u) THEN stamp ELSE since[i]
      BY <2>0, <2>1, <1>2
    <3> QED
      BY <2>0, <3>2, <3>3, <3>4
  <2>2. CASE id \notin DOMAIN jobs
    BY <2>0, <2>2, <1>2
  <2> QED
    BY <2>1, <2>2
<1>4. \A g \in Handlers : req'[g] = IF g = h THEN IdleRequest ELSE req[g]
  BY <1>2
<1>5. TypeOK'
  <2>1. \A g \in Handlers : RequestOK(req'[g])
    BY <1>4 DEF TypeOK, RequestOK, SomeID, IdleRequest, HandlerPCs
  <2>2. \A g \in Handlers : RequestOK(req[g])'
    BY <2>1, <1>2, <1>3 DEF RequestOK, SomeID
  <2> QED
    BY <2>2, <1>2, <1>3 DEF TypeOK
<1>6. SweepOK'
  BY <1>2 DEF SweepOK, InSweep
<1>7. /\ \A g \in Handlers : \A i : Replaces(g, i)' <=> Replaces(g, i) /\ g # h
      /\ \A i : Replaces(h, i) <=> i = id /\ Reschedules(u)
      /\ \A i : Pending(i)' <=> Pending(i)
      /\ \A i : Submitted(i)' <=> Submitted(i)
      /\ \A i : ToSubmit(i)' <=> ToSubmit(i)
  BY <1>1, <1>2, <1>4 DEF Replaces, IdleRequest, Pending, Submitted, ToSubmit
<1>8. \A i \in DOMAIN jobs : i # id \/ ~Reschedules(u) =>
        /\ Undisturbed(i)' <=> Undisturbed(i)
        /\ Satisfiable(i)' <=> Satisfiable(i)
        /\ jobs'[i].schedule = jobs[i].schedule /\ since'[i] = since[i]
  BY <1>2, <1>3, <1>7 DEF Undisturbed, BeingReplaced, Satisfiable
<1>9. PutOK'
  <2> SUFFICES ASSUME NEW g \in Handlers, NEW i \in DOMAIN jobs', Replaces(g, i)', i \notin raced'
               PROVE  HasToItself(g, i)'
    BY DEF PutOK
  <2>1. HasToItself(g, i) /\ req'[g] = req[g]
    BY <1>2, <1>3, <1>4, <1>7 DEF PutOK
  <2> QED
    BY <2>1, <1>2, <1>3, <1>7 DEF HasToItself
<1>10. ASSUME id \in DOMAIN jobs, Undisturbed(id)', Reschedules(u)
       PROVE  /\ ~Pending(id) /\ ~Submitted(id)
              /\ \A d \in log : d.id = id => d.sweep <= stamp
              /\ Fires[jobs'[id].schedule] # {} =>
                    /\ jobs'[id].nextRun \in Fires[jobs'[id].schedule]
                    /\ jobs'[id].nextRun > stamp
              /\ \A s \in Fires[jobs'[id].schedule] : s > stamp => jobs'[id].nextRun <= s
  <2>1. id \notin raced /\ Replaces(h, id)
    BY <1>2, <1>7, <1>10 DEF Undisturbed
  <2>2. /\ ~Pending(id)
        /\ \A d \in log : d.id = id => d.sweep <= stamp
        /\ jobs'[id].nextRun = GetNextRun(u.schedule.val, stamp)
    BY <2>1, <1>1, <1>2, <1>3, <1>10 DEF PutOK, HasToItself
  <2>3. ~Submitted(id)
    BY <2>2 DEF Pending, Submitted
  <2>4. /\ jobs'[id].schedule = u.schedule.val /\ u.schedule.val \in Expressions
        /\ stamp \in 0 .. MaxTime
    BY <1>2, <1>3, <1>10, MaxTimeAssumption DEF Validate, TypeOK
  <2> QED
    BY <2>2, <2>3, <2>4, NextRunIsFirstSlot
<1>11. CopyOK'
  <2>1. \A i \in DOMAIN jobs : i = id /\ Reschedules(u) /\ Undisturbed(i)' => ~Pending(i)'
    BY <1>7, <1>10
  <2> QED
    BY <2>1, <1>2, <1>3, <1>7, <1>8 DEF CopyOK
<1>12. SlotOK'
  <2> SUFFICES ASSUME NEW i \in DOMAIN jobs, Undisturbed(i)', Satisfiable(i)'
               PROVE  /\ jobs'[i].nextRun \in Fires[jobs'[i].schedule]
                      /\ since'[i] < jobs'[i].nextRun
                      /\ IF Submitted(i)'
                           THEN /\ \A d \in log : d.id = i => d.sweep <= now
                                /\ \E d \in log : /\ d.id = i /\ d.schedule = jobs'[i].schedule
                                                   /\ d.slot = jobs'[i].nextRun /\ d.sweep = now
                           ELSE \A d \in log : d.id = i => d.sweep < jobs'[i].nextRun
    BY <1>2, <1>3 DEF SlotOK
  <2>1. CASE i = id /\ Reschedules(u)
    <3>1. /\ jobs'[id].nextRun \in Fires[jobs'[id].schedule] /\ jobs'[id].nextRun > stamp
          /\ ~Submitted(id)' /\ since'[id] = stamp
          /\ \A d \in log : d.id = id => d.sweep <= stamp
      BY <2>1, <1>3, <1>7, <1>10 DEF Satisfiable
    <3>2. /\ stamp \in Nat /\ jobs'[id].nextRun \in Int
          /\ \A d \in log : d.sweep \in Nat
      BY <2>1, <1>2, <1>3, MaxTimeAssumption DEF TypeOK, JobRecords, Instants, Nil
    <3> QED
      BY <2>1, <3>1, <3>2
  <2>2. CASE ~(i = id /\ Reschedules(u))
    BY <2>2, <1>3, <1>7, <1>8 DEF SlotOK
  <2> QED
    BY <2>1, <2>2
<1>13. NoSlotLost'
  <2> SUFFICES ASSUME NEW i \in DOMAIN jobs, Undisturbed(i)',
                      NEW s \in Fires[jobs'[i].schedule],
                      since'[i] < s, s < jobs'[i].nextRun
               PROVE  \E d \in log : CoveredBy(d, i, s)'
    BY <1>2, <1>3 DEF NoSlotLost
  <2>1. CASE i = id /\ Reschedules(u)
    <3>1. jobs'[id].nextRun <= s /\ since'[id] = stamp
      BY <2>1, <1>3, <1>10
    <3>2. s \in Nat /\ jobs'[id].nextRun \in Int
      BY <2>1, <1>3, FiresAssumption DEF JobRecords, Instants, Nil
    <3> QED
      BY <2>1, <3>1, <3>2
  <2>2. CASE ~(i = id /\ Reschedules(u))
    BY <2>2, <1>3, <1>8 DEF NoSlotLost, CoveredBy
  <2> QED
    BY <2>1, <2>2
<1>14. NeverEarly'
  BY <1>2 DEF NeverEarly
<1>15. LateOK'
  BY <1>2, <1>3, <1>7 DEF LateOK, TypeOK
<1> QED
  BY <1>5, <1>6, <1>9, <1>11, <1>12, <1>13, <1>14, <1>15

(***************************************************************************)
(* A deletion changes one job's status, and only to DELETED.               *)
(***************************************************************************)
LEMMA DeleteStep ==
    ASSUME IInv, NEW h \in Handlers, NEW id \in SomeID, Delete(h, id),
           UNCHANGED <<clock, schedVars, historyVars>>
    PROVE  IInv'
<1> USE DEF IInv
<1>1. /\ jobs' = IF id \in DOMAIN jobs THEN [jobs EXCEPT ![id].status = StatusDeleted] ELSE jobs
      /\ UNCHANGED <<idCounter, clock, log, since, raced>>
      /\ UNCHANGED <<schedPC, snapshot, now, dueJobs, cursor>>
      /\ \A g \in Handlers : \/ req'[g] = req[g]
                             \/ req'[g] = IdleRequest
                             \/ req'[g] = [IdleRequest EXCEPT !.at = "dec"]
      /\ DOMAIN req' = Handlers
  BY DEF TypeOK, Delete, DeleteJob, schedVars, historyVars
<1>2. /\ DOMAIN jobs' = DOMAIN jobs
      /\ \A i \in DOMAIN jobs :
            /\ jobs'[i] \in JobRecords
            /\ jobs'[i].schedule = jobs[i].schedule
            /\ jobs'[i].nextRun = jobs[i].nextRun
            /\ jobs[i].status = StatusDeleted => jobs'[i].status = StatusDeleted
  BY <1>1 DEF TypeOK, JobRecords, JobStatuses
<1>3. TypeOK'
  <2>1. \A g \in Handlers : RequestOK(req'[g])
    BY <1>1 DEF TypeOK, RequestOK, IdleRequest, HandlerPCs
  <2>2. \A g \in Handlers : RequestOK(req[g])'
    BY <2>1, <1>1, <1>2 DEF RequestOK, SomeID
  <2> QED
    BY <2>2, <1>1, <1>2 DEF TypeOK
<1>4. SweepOK'
  BY <1>1 DEF SweepOK, InSweep
<1>5. \A g \in Handlers : \A i : /\ Replaces(g, i)' <=> Replaces(g, i)
                                 /\ Replaces(g, i) => req'[g] = req[g]
  <2>1. req[h].at = "idle" /\ \A g \in Handlers : g # h => req'[g] = req[g]
    BY DEF Delete, Receive, TypeOK
  <2> QED
    BY <2>1, <1>1 DEF Replaces, IdleRequest
<1>6. \A i \in DOMAIN jobs : /\ Undisturbed(i)' <=> Undisturbed(i)
                             /\ Pending(i)' <=> Pending(i)
                             /\ Submitted(i)' <=> Submitted(i)
                             /\ Satisfiable(i)' <=> Satisfiable(i)
  <2> TAKE i \in DOMAIN jobs
  <2>1. Undisturbed(i)' <=> Undisturbed(i)
    BY <1>1, <1>2, <1>5 DEF Undisturbed, BeingReplaced
  <2>2. (Pending(i)' <=> Pending(i)) /\ (Submitted(i)' <=> Submitted(i))
    BY <1>1 DEF Pending, Submitted
  <2>3. Satisfiable(i)' <=> Satisfiable(i)
    BY <1>2 DEF Satisfiable
  <2> QED
    BY <2>1, <2>2, <2>3
<1>6a. PutOK'
  <2> SUFFICES ASSUME NEW g \in Handlers, NEW i \in DOMAIN jobs', Replaces(g, i)', i \notin raced'
               PROVE  HasToItself(g, i)'
    BY DEF PutOK
  <2>1. HasToItself(g, i)
    BY <1>1, <1>2, <1>5 DEF PutOK
  <2> QED
    BY <2>1, <1>1, <1>2, <1>5, <1>6 DEF HasToItself
<1>7. CopyOK'
  BY <1>1, <1>2, <1>6 DEF CopyOK
<1>8. SlotOK'
  BY <1>1, <1>2, <1>6 DEF SlotOK
<1>9. NoSlotLost'
  BY <1>1, <1>2, <1>6 DEF NoSlotLost, CoveredBy
<1>10. NeverEarly'
  BY <1>1 DEF NeverEarly
<1>11. LateOK'
  BY <1>1, <1>2 DEF LateOK, ToSubmit, TypeOK
<1> QED
  BY <1>3, <1>4, <1>6a, <1>7, <1>8, <1>9, <1>10, <1>11

(***************************************************************************)
(* Steps of a handler that touch neither the store nor the history.        *)
(***************************************************************************)
LocalStep(h) ==
    \/ \E e \in Expressions \cup Malformed, t \in JobTypes : ReceiveCreate(h, e, t)
    \/ IncGauge(h)
    \/ DecGauge(h)

\* Neither the store nor the sweep nor the log moves: IInv can only break in
\* what it says of requests and of the clock.
LEMMA StoreUntouched ==
    ASSUME IInv,
           UNCHANGED <<repoVars, schedVars, log, since>>, raced \subseteq raced',
           clock' \in 1 .. MaxTime, clock <= clock',
           DOMAIN req' = Handlers, \A g \in Handlers : RequestOK(req[g])',
           \A i \in DOMAIN jobs : Undisturbed(i)' => Undisturbed(i),
           PutOK'
    PROVE  IInv'
<1> USE DEF IInv
<1>1. /\ UNCHANGED <<jobs, idCounter, log, since>>
      /\ UNCHANGED <<schedPC, snapshot, now, dueJobs, cursor>>
      /\ clock \in 1 .. MaxTime /\ MaxTime \in Nat
  BY MaxTimeAssumption DEF repoVars, schedVars, TypeOK
<1>2. TypeOK'
  BY <1>1 DEF TypeOK
<1>3. SweepOK'
  BY <1>1 DEF SweepOK, InSweep
<1>4. CopyOK' /\ NoSlotLost' /\ LateOK'
  BY <1>1 DEF CopyOK, NoSlotLost, LateOK, Pending, CoveredBy, ToSubmit
<1>5. SlotOK'
  BY <1>1 DEF SlotOK, Satisfiable, Submitted
<1>6. NeverEarly'
  <2>1. \A d \in log : d.sweep \in Nat /\ (d.sweep <= clock => d.sweep <= clock')
    BY <1>1 DEF TypeOK
  <2> QED
    BY <2>1, <1>1 DEF NeverEarly
<1> QED
  BY <1>2, <1>3, <1>4, <1>5, <1>6

\* PutOK and Undisturbed speak only of the requests that replace a schedule.
LEMMA SameReplacements ==
    ASSUME IInv, UNCHANGED <<repoVars, schedVars, historyVars>>,
           \A g \in Handlers : \A i : /\ Replaces(g, i)' <=> Replaces(g, i)
                                      /\ Replaces(g, i) => req'[g] = req[g]
    PROVE  PutOK' /\ \A i \in DOMAIN jobs : Undisturbed(i)' => Undisturbed(i)
<1>1. UNCHANGED <<jobs, log, raced>> /\ \A i : Pending(i)' <=> Pending(i)
  BY DEF repoVars, schedVars, historyVars, Pending
<1>2. PutOK'
  BY <1>1 DEF IInv, PutOK, HasToItself
<1> QED
  BY <1>1, <1>2 DEF Undisturbed, BeingReplaced

\* The local steps of a handler keep IInv: a schedule that is about to be
\* stored has been validated.
LEMMA LocalHandlerStep ==
    ASSUME IInv, NEW h \in Handlers, LocalStep(h), UNCHANGED <<clock, schedVars, historyVars>>
    PROVE  IInv'
<1>1. UNCHANGED repoVars /\ DOMAIN req' = Handlers
  BY DEF LocalStep, ReceiveCreate, IncGauge, DecGauge, IInv, TypeOK
<1>2. /\ UNCHANGED <<jobs, clock, log, since, raced>>
      /\ clock \in 1 .. MaxTime /\ clock \in Nat /\ clock' \in 1 .. MaxTime /\ clock <= clock'
  BY <1>1, MaxTimeAssumption DEF repoVars, historyVars, IInv, TypeOK
<1>3. \A g \in Handlers :
        \/ req'[g] = req[g]
        \/ /\ RequestOK(req'[g])
           /\ req[g].at \in {"idle", "inc", "dec"} /\ req'[g].at \in {"idle", "store"}
  <2>1. ASSUME NEW e \in Expressions \cup Malformed, NEW t \in JobTypes, ReceiveCreate(h, e, t),
               NEW g \in Handlers, g = h
        PROVE  /\ RequestOK(req'[g])
               /\ req[g].at \in {"idle", "inc", "dec"} /\ req'[g].at \in {"idle", "store"}
    <3>1. /\ e \in Expressions /\ req[h].at = "idle"
          /\ req'[h] = [IdleRequest EXCEPT !.at = "store", !.stamp = clock,
                           !.job = NewJob(e, t, GetNextRun(e, clock))]
      BY <2>1 DEF ReceiveCreate, Receive, Validate, IInv, TypeOK
    <3> QED
      BY <2>1, <3>1, <1>2 DEF RequestOK, IdleRequest, HandlerPCs
  <2>2. ASSUME IncGauge(h) \/ DecGauge(h), NEW g \in Handlers, g = h
        PROVE  /\ RequestOK(req'[g])
               /\ req[g].at \in {"idle", "inc", "dec"} /\ req'[g].at \in {"idle", "store"}
    BY <2>2 DEF IncGauge, DecGauge, IInv, TypeOK, RequestOK, IdleRequest, HandlerPCs
  <2>3. \A g \in Handlers : g # h => req'[g] = req[g]
    BY DEF LocalStep, ReceiveCreate, IncGauge, DecGauge, IInv, TypeOK
  <2> QED
    BY <2>1, <2>2, <2>3 DEF LocalStep
<1>4. \A g \in Handlers : RequestOK(req[g])'
  <2>1. \A g \in Handlers : RequestOK(req'[g])
    BY <1>3 DEF IInv, TypeOK
  <2> QED
    BY <2>1, <1>2 DEF RequestOK, SomeID
<1>5. \A g \in Handlers : \A i : /\ Replaces(g, i)' <=> Replaces(g, i)
                                 /\ Replaces(g, i) => req'[g] = req[g]
  BY <1>3 DEF Replaces
<1>6. PutOK' /\ \A i \in DOMAIN jobs : Undisturbed(i)' => Undisturbed(i)
  BY <1>1, <1>5, SameReplacements DEF historyVars
<1>7. UNCHANGED schedVars
  OBVIOUS
<1> QED
  BY <1>1, <1>2, <1>4, <1>6, <1>7, StoreUntouched

\* A PUT is received: its job is raced from here on if a sweep or another PUT
\* is at work on it; if not, no dispatch of the job lies after this instant.
LEMMA PutStep ==
    IInv /\ HandlerPut => IInv'
<1> SUFFICES ASSUME IInv, HandlerPut PROVE IInv'
  OBVIOUS
<1>1. PICK h \in Handlers, id \in SomeID, u \in Updates :
        /\ ReceiveUpdate(h, id, u)
        /\ raced' = IF Reschedules(u) /\ (Pending(id) \/ BeingReplaced(id))
                      THEN raced \cup {id} ELSE raced
        /\ UNCHANGED <<clock, schedVars, log, since>>
  BY DEF HandlerPut
<1>2. /\ UNCHANGED <<repoVars, jobs, clock, log, since>> /\ raced \subseteq raced'
      /\ clock \in 1 .. MaxTime /\ clock \in Nat /\ clock' \in 1 .. MaxTime /\ clock <= clock'
      /\ \A i : Pending(i)' <=> Pending(i)
      /\ DOMAIN req' = Handlers /\ req[h].at = "idle"
      /\ Reschedules(u) => u.schedule.val \in Expressions
  BY <1>1, MaxTimeAssumption
  DEF ReceiveUpdate, Receive, Validate, repoVars, schedVars, Pending, IInv, TypeOK
<1>3. /\ \A g \in Handlers : g # h => req'[g] = req[g]
      /\ req'[h] = IF Reschedules(u)
                     THEN [IdleRequest EXCEPT
                             !.at = "reschedule", !.id = id, !.updates = u,
                             !.nextRun = GetNextRun(u.schedule.val, clock), !.stamp = clock]
                     ELSE [IdleRequest EXCEPT !.at = "apply", !.id = id, !.updates = u]
  BY <1>1 DEF ReceiveUpdate, IInv, TypeOK
<1>4. \A g \in Handlers : RequestOK(req[g])'
  <2> SUFFICES ASSUME NEW g \in Handlers PROVE RequestOK(req'[g])
    BY <1>2 DEF RequestOK, SomeID
  <2>1. CASE g # h
    BY <2>1, <1>3 DEF IInv, TypeOK
  <2>2. CASE g = h /\ Reschedules(u)
    BY <2>2, <1>2, <1>3 DEF RequestOK, IdleRequest, HandlerPCs, Validate
  <2>3. CASE g = h /\ ~Reschedules(u)
    BY <2>3, <1>3 DEF RequestOK, IdleRequest, HandlerPCs
  <2> QED
    BY <2>1, <2>2, <2>3
<1>5. /\ \A g \in Handlers : \A i : g # h => (Replaces(g, i)' <=> Replaces(g, i))
      /\ \A i : ~Replaces(h, i) /\ (Replaces(h, i)' <=> i = id /\ Reschedules(u))
  BY <1>2, <1>3 DEF Replaces, IdleRequest
<1>6. \A i \in DOMAIN jobs : Undisturbed(i)' => Undisturbed(i)
  BY <1>2, <1>5 DEF Undisturbed, BeingReplaced
<1>7. PutOK'
  <2> SUFFICES ASSUME NEW g \in Handlers, NEW i \in DOMAIN jobs', Replaces(g, i)', i \notin raced'
               PROVE  HasToItself(g, i)'
    BY DEF PutOK
  <2>1. CASE g = h
    <3>1. /\ i = id /\ Reschedules(u) /\ ~Pending(id) /\ ~BeingReplaced(id)
          /\ req'[h].at = "reschedule" /\ req'[h].stamp = clock
      BY <2>1, <1>1, <1>3, <1>5 DEF IdleRequest
    <3>2. \A d \in log : d.sweep <= clock
      BY <1>2 DEF IInv, TypeOK
    <3> QED
      BY <2>1, <3>1, <3>2, <1>2, <1>5 DEF BeingReplaced, HasToItself
  <2>2. CASE g # h
    <3>1. Replaces(g, i) /\ req'[g] = req[g] /\ HasToItself(g, i)
      BY <2>2, <1>2, <1>3, <1>5 DEF IInv, PutOK
    <3>2. ~Replaces(h, i)'
      BY <2>2, <3>1, <1>1, <1>5 DEF BeingReplaced
    <3> QED
      BY <2>2, <3>1, <3>2, <1>2, <1>5 DEF HasToItself
  <2> QED
    BY <2>1, <2>2
<1> QED
  BY <1>1, <1>2, <1>4, <1>6, <1>7, StoreUntouched

\* The clock moves on; instants that were in the past stay there.
LEMMA TimeStep ==
    IInv /\ Time => IInv'
<1> SUFFICES ASSUME IInv, Time PROVE IInv'
  OBVIOUS
<1>1. /\ UNCHANGED <<repoVars, schedVars, historyVars, log, since, raced, req>>
      /\ clock < MaxTime /\ clock' = clock + 1
  BY DEF Time, Tick, handlerVars, historyVars
<1>2. clock' \in 1 .. MaxTime /\ clock <= clock' /\ clock \in 1 .. MaxTime
  BY <1>1, MaxTimeAssumption DEF IInv, TypeOK
<1>3. DOMAIN req' = Handlers /\ \A g \in Handlers : RequestOK(req[g])'
  BY <1>1, <1>2, MaxTimeAssumption DEF IInv, TypeOK, RequestOK, SomeID, repoVars
<1>4. PutOK' /\ \A i \in DOMAIN jobs : Undisturbed(i)' => Undisturbed(i)
  BY <1>1, SameReplacements DEF Replaces
<1> QED
  BY <1>1, <1>2, <1>3, <1>4, StoreUntouched

\* Every step, and every stutter, keeps IInv.
LEMMA NextIInv ==
    IInv /\ [Next]_vars => IInv'
<1> SUFFICES ASSUME IInv, [Next]_vars PROVE IInv'
  OBVIOUS
<1>1. CASE SchedulerStep
  <2>1. CASE SweepStart
    BY <2>1, PollStep
  <2>2. CASE Submit
    BY <2>2, SubmitStep
  <2>3. CASE Advance
    BY <2>3, AdvanceStep
  <2>4. CASE SweepControl
    BY <2>4, CollectDueStep, AllSubmittedStep, SweepDoneStep DEF SweepControl
  <2> QED
    BY <1>1, <2>1, <2>2, <2>3, <2>4 DEF SchedulerStep
<1>2. CASE HandlerStore
  BY <1>2, StoreStep
<1>3. CASE HandlerPut
  BY <1>3, PutStep
<1>4. CASE HandlerApply
  BY <1>4, ApplyStep
<1>5. CASE HandlerOther
  <2>1. PICK h \in Handlers :
          \/ LocalStep(h)
          \/ Reschedule(h)
          \/ \E id \in SomeID : Delete(h, id)
    BY <1>5 DEF HandlerOther, LocalStep
  <2>2. UNCHANGED <<clock, schedVars, historyVars>>
    BY <1>5 DEF HandlerOther
  <2> QED
    BY <2>1, <2>2, LocalHandlerStep, RescheduleStep, DeleteStep
<1>6. CASE Time
  BY <1>6, TimeStep
<1>7. CASE UNCHANGED vars
  <2>1. /\ UNCHANGED <<repoVars, schedVars, historyVars, log, since, raced, req>>
        /\ clock' = clock /\ clock \in 1 .. MaxTime
    BY <1>7 DEF vars, handlerVars, historyVars, IInv, TypeOK
  <2>2. DOMAIN req' = Handlers /\ \A g \in Handlers : RequestOK(req[g])'
    BY <2>1 DEF IInv, TypeOK, RequestOK, SomeID, repoVars
  <2>3. PutOK' /\ \A i \in DOMAIN jobs : Undisturbed(i)' => Undisturbed(i)
    BY <2>1, SameReplacements DEF Replaces
  <2>4. clock' \in 1 .. MaxTime /\ clock <= clock'
    BY <2>1, MaxTimeAssumption
  <2> QED
    BY <2>1, <2>2, <2>3, <2>4, StoreUntouched
<1> QED
  BY <1>1, <1>2, <1>3, <1>4, <1>5, <1>6, <1>7 DEF Next

\* The inductive invariant holds throughout: the scheduler's sweep and the
\* handlers' requests, interleaved in any way (scheduler.go, api/handler.go).
THEOREM Invariance == Spec => []IInv
<1>1. Init => IInv
  BY InitIInv
<1>2. IInv /\ [Next]_vars => IInv'
  BY NextIInv
<1> QED
  BY <1>1, <1>2, PTL DEF Spec

-----------------------------------------------------------------------------
(* The theorems.                                                           *)

\* Type correctness; in particular every stored expression parses.
THEOREM TypeCorrect == Spec => []TypeOK
<1>1. IInv => TypeOK
  BY DEF IInv
<1> QED
  BY <1>1, Invariance, PTL

\* No slot of an undisturbed job between its creation and its next run is
\* left without a dispatch that covers it (Scheduler.dispatchDueJobs).
THEOREM NothingLost == Spec => []NoSlotLost
<1>1. IInv => NoSlotLost
  BY DEF IInv
<1> QED
  BY <1>1, Invariance, PTL

\* Every dispatch of an undisturbed job answers a slot of its expression,
\* later than its creation and not later than the sweep.
THEOREM NothingEarly == Spec => []NeverEarly
<1>1. IInv => NeverEarly
  BY DEF IInv
<1> QED
  BY <1>1, Invariance, PTL

\* No slot of an undisturbed job is dispatched twice: the sweep counts the
\* next run from the instant it began (Scheduler.dispatchDueJobs).
THEOREM NothingTwice == Spec => AtMostOncePerSlot
<1>1. IInv /\ [Next]_vars =>
        [Submit => LET new == Dispatch
                   IN  Undisturbed(new.id) /\ Satisfiable(new.id) =>
                         \A d \in log : d.id = new.id => d.sweep < new.slot]_vars
  <2> SUFFICES ASSUME IInv, Submit,
                      Undisturbed(dueJobs[cursor]), Satisfiable(dueJobs[cursor]),
                      NEW d \in log, d.id = dueJobs[cursor]
               PROVE  d.sweep < snapshot[dueJobs[cursor]].nextRun
    BY DEF Dispatch
  <2>1. /\ Pending(dueJobs[cursor]) /\ ~Submitted(dueJobs[cursor])
        /\ dueJobs[cursor] \in DOMAIN jobs
    BY DEF IInv, Submit, SubmitNext, SweepOK, InSweep, Pending, Submitted, TypeOK
  <2>2. snapshot[dueJobs[cursor]].nextRun = jobs[dueJobs[cursor]].nextRun
    BY <2>1 DEF IInv, CopyOK
  <2> QED
    BY <2>1, <2>2 DEF IInv, SlotOK
<1> QED
  BY <1>1, Invariance, PTL DEF Spec, AtMostOncePerSlot

\* A deleted job is dispatched at most once after its deletion: only a sweep
\* that copied it before can still hold it (MemoryRepository.GetActiveJobs).
THEOREM AtMostOneAfterDeletion == Spec => AtMostOneLateDispatch
<1>1. IInv /\ [Next]_vars =>
        [Submit => LET new == Dispatch
                   IN  new.status = StatusDeleted =>
                         ~\E d \in log : d.id = new.id /\ d.status = StatusDeleted]_vars
  <2> SUFFICES ASSUME IInv, Submit,
                      NEW d \in log, d.id = dueJobs[cursor], d.status = StatusDeleted
               PROVE  FALSE
    BY DEF Dispatch
  <2>1. ToSubmit(dueJobs[cursor])
    BY DEF IInv, Submit, SubmitNext, ToSubmit, TypeOK
  <2> QED
    BY <2>1 DEF IInv, LateOK
<1> QED
  BY <1>1, Invariance, PTL DEF Spec, AtMostOneLateDispatch

\* A deleted job stays deleted, whatever is requested: a status in a PUT
\* body is a plain string, which UpdateJob ignores.
THEOREM DeletionIsFinal == Spec => DeletedForever
<1> DEFINE Kept == \A id \in DOMAIN jobs : jobs[id].status = StatusDeleted =>
                      id \in DOMAIN jobs' /\ jobs'[id].status = StatusDeleted
<1>1. IInv /\ [Next]_vars => [Kept]_vars
  <2> SUFFICES ASSUME IInv, Next,
                      NEW id \in DOMAIN jobs, jobs[id].status = StatusDeleted
               PROVE  id \in DOMAIN jobs' /\ jobs'[id].status = StatusDeleted
    OBVIOUS
  <2>1. /\ jobs[id] \in JobRecords /\ id # idCounter
        /\ \A h \in Handlers : RequestOK(req[h])
    BY DEF IInv, TypeOK
  <2>2. ASSUME NEW i, NEW n, jobs' = [jobs EXCEPT ![i].nextRun = n]
        PROVE  id \in DOMAIN jobs' /\ jobs'[id].status = StatusDeleted
    BY <2>1, <2>2 DEF JobRecords
  <2>3. CASE UNCHANGED jobs
    BY <2>3
  <2>4. CASE Advance
    BY <2>2, <2>3, <2>4 DEF Advance, AdvanceNext, UpdateJobNextRun, repoVars
  <2>5. CASE HandlerStore
    BY <2>1, <2>5, <2>3
    DEF HandlerStore, StoreJob, CreateJob, CreatedID, NoID, With
  <2>6. ASSUME NEW h \in Handlers, Reschedule(h)
        PROVE  id \in DOMAIN jobs' /\ jobs'[id].status = StatusDeleted
    BY <2>2, <2>3, <2>6 DEF Reschedule, UpdateJobNextRun
  <2>7. ASSUME NEW h \in Handlers, Apply(h)
        PROVE  id \in DOMAIN jobs' /\ jobs'[id].status = StatusDeleted
    <3>1. /\ req[h].updates \in Updates
          /\ Reschedules(req[h].updates) => Validate(req[h].updates.schedule.val)
      BY <2>1, <2>7 DEF Apply, RequestOK
    <3>2. ApplyUpdates(jobs[id], req[h].updates).status = StatusDeleted
      BY <2>1, <3>1, AppliedUpdates
    <3> QED
      BY <2>7, <3>2 DEF Apply, UpdateJob
  <2>8. ASSUME NEW h \in Handlers, NEW i \in SomeID, Delete(h, i)
        PROVE  id \in DOMAIN jobs' /\ jobs'[id].status = StatusDeleted
    BY <2>1, <2>8 DEF Delete, DeleteJob, JobRecords
  <2>9. CASE HandlerOther
    <3>1. PICK h \in Handlers : \/ LocalStep(h)
                                \/ Reschedule(h)
                                \/ \E i \in SomeID : Delete(h, i)
      BY <2>9 DEF HandlerOther, LocalStep
    <3>2. LocalStep(h) => UNCHANGED jobs
      BY DEF LocalStep, ReceiveCreate, IncGauge, DecGauge, repoVars
    <3> QED
      BY <3>1, <3>2, <2>3, <2>6, <2>8
  <2>10. SweepStart \/ Submit \/ SweepControl \/ HandlerPut \/ Time => UNCHANGED jobs
    BY DEF SweepStart, Submit, SweepControl, HandlerPut, ReceiveUpdate, Time, Tick, repoVars
  <2>11. HandlerApply => \E h \in Handlers : Apply(h)
    BY DEF HandlerApply
  <2> QED
    BY <2>3, <2>4, <2>5, <2>7, <2>9, <2>10, <2>11 DEF Next, SchedulerStep
<1> QED
  BY <1>1, Invariance, PTL DEF Spec, DeletedForever

(***************************************************************************)
(* GetNextNRuns lists the first n slots after the instant asked for, each  *)
(* once and in order, and all there are when there are fewer, for every n  *)
(* and every set of slots.                                                 *)
(***************************************************************************)
THEOREM RunsHold == Spec => []RunsAreTheFirstSlots
<1>1. TypeOK => RunsAreTheFirstSlots
  <2> SUFFICES ASSUME TypeOK, NEW e \in Expressions, NEW n \in 0 .. MaxTime
               PROVE  FirstSlots(GetNextNRuns(e, n, clock), n, e, clock)
    BY DEF RunsAreTheFirstSlots, FirstSlots
  <2>1. clock \in Nat /\ n \in Nat
    BY MaxTimeAssumption DEF TypeOK
  <2> QED
    BY <2>1, GetNextNRunsIsRight
<1> QED
  BY <1>1, TypeCorrect, PTL

(***************************************************************************)
(* IsWithinTimeWindow answers for the slots of the window, but for one     *)
(* that passes between its two readings of the clock.                      *)
(***************************************************************************)
THEOREM WindowHolds == Spec => []WindowSeesTheSlot
<1>1. TypeOK => WindowSeesTheSlot
  <2> SUFFICES ASSUME TypeOK, NEW e \in Expressions, NEW window \in 0 .. MaxTime,
                      NEW asked \in 1 .. clock, NEW near,
                      near = {s \in Fires[e] : asked < s /\ clock <= s /\ s <= clock + window}
               PROVE  IF IsWithinTimeWindow(e, window, asked, clock)
                        THEN near # {}
                        ELSE near = {} \/ \E s \in Fires[e] : asked < s /\ s < clock
    BY Zenon DEF WindowSeesTheSlot
  <2>1. clock \in Nat \ {0} /\ window \in Nat /\ asked \in Nat
    BY MaxTimeAssumption DEF TypeOK
  <2>2. PICK next : next = GetNextRun(e, asked)
    OBVIOUS
  <2>3. /\ next \in Nat
        /\ next # 0 => next \in Fires[e] /\ asked < next
        /\ \A s \in Fires[e] : asked < s => next # 0 /\ next <= s
    BY <2>1, <2>2, NextRunIsLeast
  <2>4. IsWithinTimeWindow(e, window, asked, clock) <=>
          next - clock <= window /\ next - clock >= 0
    BY <2>2 DEF IsWithinTimeWindow, Validate
  <2>5. Fires[e] \subseteq Nat
    BY FiresAssumption
  <2>6. CASE next - clock <= window /\ next - clock >= 0
    <3>1. next \in near
      BY <2>1, <2>3, <2>6
    <3> QED
      BY <2>4, <2>6, <3>1
  <2>7. CASE next - clock > window
    <3>1. near = {}
      BY <2>1, <2>3, <2>5, <2>7
    <3> QED
      BY <2>1, <2>3, <2>4, <2>7, <3>1
  <2>8. CASE next < clock /\ next # 0
    BY <2>1, <2>3, <2>4, <2>8
  <2>9. CASE next = 0
    <3>1. near = {}
      BY <2>3, <2>9
    <3> QED
      BY <2>1, <2>4, <2>9, <3>1
  <2> QED
    BY <2>1, <2>3, <2>6, <2>7, <2>8, <2>9
<1> QED
  BY <1>1, TypeCorrect, PTL

-----------------------------------------------------------------------------
(* The gauge jobs_active never shows more jobs than are active, up to the  *)
(* deletions under way, for any finite number of handlers.                 *)

\* the handlers about to raise, and about to lower the gauge
Incs == {h \in Handlers : req[h].at = "inc"}
Decs == {h \in Handlers : req[h].at = "dec"}

(***************************************************************************)
(* GaugeNeverOverstates is not inductive: IncGauge raises the gauge for a  *)
(* job stored earlier.  What is kept in every step is the bound with the   *)
(* creations under way on the side of the gauge.                           *)
(***************************************************************************)
GaugeInv ==
    /\ jobsActive \in Int
    /\ jobsActive + Cardinality(Incs)
         <= Cardinality(ActiveJobs) + Cardinality(Decs)

-----------------------------------------------------------------------------
(* The sets that are counted.                                              *)

\* They are finite.
LEMMA CountsAreFinite ==
    ASSUME IsFiniteSet(Handlers), IInv
    PROVE  /\ IsFiniteSet(ActiveJobs) /\ Cardinality(ActiveJobs) \in Nat
           /\ IsFiniteSet(Incs) /\ Cardinality(Incs) \in Nat
           /\ IsFiniteSet(Decs) /\ Cardinality(Decs) \in Nat
<1>1. ActiveJobs \subseteq 1 .. idCounter - 1 /\ idCounter \in Nat
  BY DEF IInv, TypeOK, ActiveJobs
<1>2. IsFiniteSet(1 .. idCounter - 1)
  BY <1>1, FS_Interval
<1>3. IsFiniteSet(ActiveJobs)
  BY <1>1, <1>2, FS_Subset
<1>4. Incs \subseteq Handlers /\ Decs \subseteq Handlers
  BY DEF Incs, Decs
<1>5. IsFiniteSet(Incs) /\ IsFiniteSet(Decs)
  BY <1>4, FS_Subset
<1> QED
  BY <1>3, <1>5, FS_CardinalityType

(***************************************************************************)
(* A handler that goes on to another point of its code joins the set it    *)
(* comes to and leaves the one it was in.                                  *)
(***************************************************************************)
LEMMA Moves ==
    ASSUME IInv, NEW h \in Handlers, NEW r, req' = [req EXCEPT ![h] = r]
    PROVE  /\ h \in Incs <=> req[h].at = "inc"
           /\ h \in Decs <=> req[h].at = "dec"
           /\ r.at = "inc" => Incs' = Incs \cup {h}
           /\ r.at = "dec" => Decs' = Decs \cup {h}
           /\ r.at # "inc" => Incs' = Incs \ {h}
           /\ r.at # "dec" => Decs' = Decs \ {h}
           /\ r.at # "inc" /\ req[h].at # "inc" => Incs' = Incs
           /\ r.at # "dec" /\ req[h].at # "dec" => Decs' = Decs
<1>1. DOMAIN req = Handlers
  BY DEF IInv, TypeOK
<1>2. req'[h] = r /\ \A g \in Handlers : g # h => req'[g] = req[g]
  BY <1>1
<1>3. h \in Incs <=> req[h].at = "inc"
  BY DEF Incs
<1>4. h \in Decs <=> req[h].at = "dec"
  BY DEF Decs
<1>5. /\ r.at = "inc" => Incs' = Incs \cup {h}
      /\ r.at # "inc" => Incs' = Incs \ {h}
      /\ r.at # "inc" /\ req[h].at # "inc" => Incs' = Incs
  BY <1>2 DEF Incs
<1>6. /\ r.at = "dec" => Decs' = Decs \cup {h}
      /\ r.at # "dec" => Decs' = Decs \ {h}
      /\ r.at # "dec" /\ req[h].at # "dec" => Decs' = Decs
  BY <1>2 DEF Decs
<1> QED
  BY <1>3, <1>4, <1>5, <1>6

\* A step that leaves the jobs' statuses alone leaves the set of active jobs.
LEMMA SameStatuses ==
    ASSUME DOMAIN jobs' = DOMAIN jobs,
           \A i \in DOMAIN jobs : jobs'[i].status = jobs[i].status
    PROVE  ActiveJobs' = ActiveJobs
BY DEF ActiveJobs

(***************************************************************************)
(* A request that is taken up, or goes on to its next call, changes no     *)
(* count as long as it is neither about to raise nor to lower the gauge.   *)
(***************************************************************************)
LEMMA QuietMove ==
    ASSUME IInv, GaugeInv, NEW h \in Handlers, NEW r,
           req[h].at \notin {"inc", "dec"}, r.at \notin {"inc", "dec"},
           req' = [req EXCEPT ![h] = r], UNCHANGED jobsActive, ActiveJobs' = ActiveJobs
    PROVE  GaugeInv'
<1>1. DOMAIN req = Handlers
  BY DEF IInv, TypeOK
<1>2. Incs' = Incs /\ Decs' = Decs
  BY <1>1 DEF Incs, Decs
<1> QED
  BY <1>2 DEF GaugeInv

-----------------------------------------------------------------------------
(* The steps that count.                                                   *)

\* CreateJob: one more active job, and one more handler about to count it.
LEMMA StoreCounts ==
    ASSUME IsFiniteSet(Handlers), IInv, GaugeInv, NEW h \in Handlers, StoreJob(h)
    PROVE  GaugeInv'
<1>1. PICK new : new = idCounter
  OBVIOUS
<1>2. new \notin DOMAIN jobs
  BY <1>1 DEF IInv, TypeOK
<1>3. PICK job : job = [req[h].job EXCEPT !.status = StatusActive]
  OBVIOUS
<1>4. /\ jobs' = With(jobs, new, job)
      /\ req' = [req EXCEPT ![h] = [IdleRequest EXCEPT !.at = "inc"]]
      /\ req[h].at = "store" /\ jobsActive' = jobsActive
  BY <1>1, <1>2, <1>3 DEF StoreJob, CreateJob, CreatedID, NoID
<1>5. job.status = StatusActive
  <2>1. PICK e \in Expressions, t \in JobTypes :
          req[h].job = NewJob(e, t, GetNextRun(e, req[h].stamp))
    BY <1>4 DEF IInv, TypeOK, RequestOK
  <2>2. PICK first : first = GetNextRun(e, req[h].stamp)
    OBVIOUS
  <2>3. job = [NewJob(e, t, first) EXCEPT !.status = StatusActive]
    BY <1>3, <2>1, <2>2
  <2> QED
    BY <2>3 DEF NewJob
<1>6. ActiveJobs' = ActiveJobs \cup {new} /\ new \notin ActiveJobs
  BY <1>2, <1>4, <1>5 DEF With, ActiveJobs
<1>7. PICK r : r = [IdleRequest EXCEPT !.at = "inc"]
  OBVIOUS
<1>8. Incs' = Incs \cup {h} /\ h \notin Incs /\ Decs' = Decs
  <2>1. r.at = "inc" /\ req' = [req EXCEPT ![h] = r] /\ req[h].at = "store"
    BY <1>4, <1>7 DEF IdleRequest
  <2> QED
    BY <2>1, Moves
<1>9. /\ Cardinality(ActiveJobs') = Cardinality(ActiveJobs) + 1
      /\ Cardinality(Incs') = Cardinality(Incs) + 1
  BY <1>6, <1>8, CountsAreFinite, FS_AddElement
<1> QED
  BY <1>4, <1>8, <1>9, CountsAreFinite DEF GaugeInv

\* JobsActiveGauge.Inc: the gauge takes over from the handler.
LEMMA IncCounts ==
    ASSUME IsFiniteSet(Handlers), IInv, GaugeInv, NEW h \in Handlers, IncGauge(h)
    PROVE  GaugeInv'
<1>1. /\ req' = [req EXCEPT ![h] = IdleRequest] /\ req[h].at = "inc"
      /\ jobsActive' = jobsActive + 1 /\ jobs' = jobs
  BY DEF IncGauge, repoVars
<1>2. Incs' = Incs \ {h} /\ h \in Incs /\ Decs' = Decs
  <2>1. PICK r : r = IdleRequest
    OBVIOUS
  <2>2. r.at = "idle" /\ req' = [req EXCEPT ![h] = r]
    BY <1>1, <2>1 DEF IdleRequest
  <2> QED
    BY <1>1, <2>2, Moves
<1>3. Cardinality(Incs') = Cardinality(Incs) - 1
  BY <1>2, CountsAreFinite, FS_RemoveElement
<1>4. ActiveJobs' = ActiveJobs
  BY <1>1 DEF ActiveJobs
<1> QED
  BY <1>1, <1>2, <1>3, <1>4, CountsAreFinite DEF GaugeInv

\* JobsActiveGauge.Dec: the same for a deletion.
LEMMA DecCounts ==
    ASSUME IsFiniteSet(Handlers), IInv, GaugeInv, NEW h \in Handlers, DecGauge(h)
    PROVE  GaugeInv'
<1>1. /\ req' = [req EXCEPT ![h] = IdleRequest] /\ req[h].at = "dec"
      /\ jobsActive' = jobsActive - 1 /\ jobs' = jobs
  BY DEF DecGauge, repoVars
<1>2. Decs' = Decs \ {h} /\ h \in Decs /\ Incs' = Incs
  <2>1. PICK r : r = IdleRequest
    OBVIOUS
  <2>2. r.at = "idle" /\ req' = [req EXCEPT ![h] = r]
    BY <1>1, <2>1 DEF IdleRequest
  <2> QED
    BY <1>1, <2>2, Moves
<1>3. Cardinality(Decs') = Cardinality(Decs) - 1
  BY <1>2, CountsAreFinite, FS_RemoveElement
<1>4. ActiveJobs' = ActiveJobs
  BY <1>1 DEF ActiveJobs
<1> QED
  BY <1>1, <1>2, <1>3, <1>4, CountsAreFinite DEF GaugeInv

(***************************************************************************)
(* DeleteJob: at most one active job less, and one more handler about to   *)
(* lower the gauge, also when the job was deleted before.                  *)
(***************************************************************************)
LEMMA DeleteCounts ==
    ASSUME IsFiniteSet(Handlers), IInv, GaugeInv,
           NEW h \in Handlers, NEW id \in SomeID, Delete(h, id)
    PROVE  GaugeInv'
<1>1. CASE id \notin DOMAIN jobs
  <2>1. /\ req' = [req EXCEPT ![h] = IdleRequest] /\ req[h].at = "idle"
        /\ jobsActive' = jobsActive /\ jobs' = jobs
    BY <1>1 DEF Delete, DeleteJob, Receive
  <2>2. ActiveJobs' = ActiveJobs
    BY <2>1 DEF ActiveJobs
  <2> QED
    BY <2>1, <2>2, QuietMove DEF IdleRequest
<1>2. CASE id \in DOMAIN jobs
  <2>1. /\ req' = [req EXCEPT ![h] = [IdleRequest EXCEPT !.at = "dec"]]
        /\ req[h].at = "idle" /\ jobsActive' = jobsActive
        /\ jobs' = [jobs EXCEPT ![id].status = StatusDeleted]
    BY <1>2 DEF Delete, DeleteJob, Receive
  <2>2. /\ DOMAIN jobs' = DOMAIN jobs /\ jobs'[id].status # StatusActive
        /\ \A i \in DOMAIN jobs : i # id => jobs'[i] = jobs[i]
    <3>1. jobs[id] \in JobRecords
      BY <1>2 DEF IInv, TypeOK
    <3> QED
      BY <1>2, <2>1, <3>1 DEF JobRecords, StatusActive, StatusDeleted
  <2>3. ActiveJobs' = ActiveJobs \ {id}
    BY <2>2 DEF ActiveJobs
  <2>4. PICK r : r = [IdleRequest EXCEPT !.at = "dec"]
    OBVIOUS
  <2>5. Decs' = Decs \cup {h} /\ h \notin Decs /\ Incs' = Incs
    <3>1. r.at = "dec" /\ req' = [req EXCEPT ![h] = r]
      BY <2>1, <2>4 DEF IdleRequest
    <3> QED
      BY <2>1, <3>1, Moves
  <2>6. /\ Cardinality(ActiveJobs') >= Cardinality(ActiveJobs) - 1
        /\ Cardinality(ActiveJobs') \in Nat
        /\ Cardinality(Decs') = Cardinality(Decs) + 1
    <3>1. Cardinality(ActiveJobs \ {id}) =
            IF id \in ActiveJobs THEN Cardinality(ActiveJobs) - 1 ELSE Cardinality(ActiveJobs)
      BY CountsAreFinite, FS_RemoveElement
    <3>2. IsFiniteSet(ActiveJobs \ {id}) /\ Cardinality(ActiveJobs \ {id}) \in Nat
      BY CountsAreFinite, FS_RemoveElement, FS_CardinalityType
    <3>3. Cardinality(Decs \cup {h}) = Cardinality(Decs) + 1
      BY <2>5, CountsAreFinite, FS_AddElement
    <3> QED
      BY <2>3, <2>5, <3>1, <3>2, <3>3, CountsAreFinite
  <2> QED
    BY <2>1, <2>5, <2>6, CountsAreFinite DEF GaugeInv
<1> QED
  BY <1>1, <1>2

-----------------------------------------------------------------------------
(* The steps that do not count.                                            *)

(***************************************************************************)
(* The scheduler and the clock: next runs may move, statuses do not.       *)
(***************************************************************************)
LEMMA SchedulerCounts ==
    ASSUME IInv, GaugeInv, SchedulerStep \/ Time \/ UNCHANGED vars
    PROVE  GaugeInv'
<1>1. UNCHANGED <<req, jobsActive>>
  BY DEF SchedulerStep, SweepStart, Submit, Advance, SweepControl, Time, vars, handlerVars
<1>2. /\ DOMAIN jobs' = DOMAIN jobs
      /\ \A i \in DOMAIN jobs : jobs'[i].status = jobs[i].status
  <2>1. \A i \in DOMAIN jobs : jobs[i] \in JobRecords
    BY DEF IInv, TypeOK
  <2>2. CASE Advance
    <3>1. ASSUME NEW id, NEW n, jobs' = [jobs EXCEPT ![id].nextRun = n]
          PROVE  \A i \in DOMAIN jobs : jobs'[i].status = jobs[i].status
      BY <2>1, <3>1 DEF JobRecords
    <3> QED
      BY <2>2, <3>1 DEF Advance, AdvanceNext, UpdateJobNextRun, repoVars
  <2>3. CASE SweepStart \/ Submit \/ SweepControl \/ Time \/ UNCHANGED vars
    BY <2>3 DEF SweepStart, Submit, SweepControl, Time, Tick, vars, repoVars
  <2> QED
    BY <2>2, <2>3 DEF SchedulerStep
<1>3. ActiveJobs' = ActiveJobs
  BY <1>2, SameStatuses
<1>4. Incs' = Incs /\ Decs' = Decs
  BY <1>1 DEF Incs, Decs
<1> QED
  BY <1>1, <1>3, <1>4 DEF GaugeInv

(***************************************************************************)
(* Requests taken up, and the two writes of a PUT: UpdateJob leaves the    *)
(* status of a job alone, because JSON gives it as a plain string.         *)
(***************************************************************************)
LEMMA ReceiveCreateCounts ==
    ASSUME IInv, GaugeInv, NEW h \in Handlers, NEW e, NEW t, ReceiveCreate(h, e, t)
    PROVE  GaugeInv'
<1>1. PICK first : first = GetNextRun(e, clock)
  OBVIOUS
<1>2. PICK r : r = [IdleRequest EXCEPT !.at = "store", !.stamp = clock,
                                       !.job = NewJob(e, t, first)]
  OBVIOUS
<1>3. /\ req' = [req EXCEPT ![h] = r] /\ r.at = "store" /\ req[h].at = "idle"
      /\ jobs' = jobs /\ jobsActive' = jobsActive
  BY <1>1, <1>2 DEF ReceiveCreate, Receive, IdleRequest, repoVars
<1>4. ActiveJobs' = ActiveJobs
  BY <1>3 DEF ActiveJobs
<1> QED
  BY <1>3, <1>4, QuietMove

\* A PUT is taken up.
LEMMA PutCounts ==
    ASSUME IInv, GaugeInv, NEW h \in Handlers, NEW id, NEW u, ReceiveUpdate(h, id, u)
    PROVE  GaugeInv'
<1>1. req[h].at = "idle" /\ jobs' = jobs /\ jobsActive' = jobsActive
  BY DEF ReceiveUpdate, Receive, repoVars
<1>2. ActiveJobs' = ActiveJobs
  BY <1>1 DEF ActiveJobs
<1>3. CASE Reschedules(u)
  <2>1. PICK first : first = GetNextRun(u.schedule.val, clock)
    OBVIOUS
  <2>2. PICK r : r = [IdleRequest EXCEPT !.at = "reschedule", !.id = id, !.updates = u,
                                         !.nextRun = first, !.stamp = clock]
    OBVIOUS
  <2>3. r.at = "reschedule"
    BY <2>2 DEF IdleRequest
  <2>4. req' = [req EXCEPT ![h] = r]
    BY <1>3, <2>1, <2>2 DEF ReceiveUpdate
  <2> QED
    BY <1>1, <1>2, <2>3, <2>4, QuietMove
<1>4. CASE ~Reschedules(u)
  <2>1. PICK r : r = [IdleRequest EXCEPT !.at = "apply", !.id = id, !.updates = u]
    OBVIOUS
  <2>2. r.at = "apply"
    BY <2>1 DEF IdleRequest
  <2>3. req' = [req EXCEPT ![h] = r]
    BY <1>4, <2>1 DEF ReceiveUpdate
  <2> QED
    BY <1>1, <1>2, <2>2, <2>3, QuietMove
<1> QED
  BY <1>3, <1>4

\* A PUT stores the next run.
LEMMA RescheduleCounts ==
    ASSUME IInv, GaugeInv, NEW h \in Handlers, Reschedule(h)
    PROVE  GaugeInv'
<1>1. PICK r : r = [IdleRequest EXCEPT !.at = "apply", !.id = req[h].id,
                                       !.updates = req[h].updates, !.stamp = req[h].stamp]
  OBVIOUS
<1>2. /\ req' = [req EXCEPT ![h] = r] /\ r.at = "apply" /\ req[h].at = "reschedule"
      /\ jobsActive' = jobsActive
  BY <1>1 DEF Reschedule, IdleRequest
<1>3. /\ DOMAIN jobs' = DOMAIN jobs
      /\ \A i \in DOMAIN jobs : jobs'[i].status = jobs[i].status
  <2>1. \A i \in DOMAIN jobs : jobs[i] \in JobRecords
    BY DEF IInv, TypeOK
  <2> QED
    BY <2>1 DEF Reschedule, UpdateJobNextRun, JobRecords
<1>4. ActiveJobs' = ActiveJobs
  BY <1>3, SameStatuses
<1> QED
  BY <1>2, <1>4, QuietMove

\* A PUT stores its body.
LEMMA ApplyCounts ==
    ASSUME IInv, GaugeInv, NEW h \in Handlers, Apply(h)
    PROVE  GaugeInv'
<1>1. PICK r : r = IdleRequest
  OBVIOUS
<1>2. /\ req' = [req EXCEPT ![h] = r] /\ r.at = "idle" /\ req[h].at = "apply"
      /\ jobsActive' = jobsActive
  BY <1>1 DEF Apply, IdleRequest
<1>3. PICK u : u = req[h].updates
  OBVIOUS
<1>4. u \in Updates /\ (Reschedules(u) => Validate(u.schedule.val))
  BY <1>2, <1>3 DEF IInv, TypeOK, RequestOK
<1>5. \A i \in DOMAIN jobs : ApplyUpdates(jobs[i], u).status = jobs[i].status
  <2>1. \A i \in DOMAIN jobs : jobs[i] \in JobRecords
    BY DEF IInv, TypeOK
  <2> QED
    BY <1>4, <2>1, AppliedUpdates
<1>6. /\ DOMAIN jobs' = DOMAIN jobs
      /\ \A i \in DOMAIN jobs : jobs'[i].status = jobs[i].status
  BY <1>3, <1>5 DEF Apply, UpdateJob
<1>7. ActiveJobs' = ActiveJobs
  BY <1>6, SameStatuses
<1> QED
  BY <1>2, <1>7, QuietMove

-----------------------------------------------------------------------------

\* Every step keeps the bound.
LEMMA StepCounts ==
    ASSUME IsFiniteSet(Handlers), IInv, GaugeInv, [Next]_vars
    PROVE  GaugeInv'
<1>1. CASE SchedulerStep \/ Time \/ UNCHANGED vars
  BY <1>1, SchedulerCounts
<1>2. CASE HandlerStore
  BY <1>2, StoreCounts DEF HandlerStore
<1>3. CASE HandlerPut
  BY <1>3, PutCounts DEF HandlerPut
<1>4. CASE HandlerApply
  BY <1>4, ApplyCounts DEF HandlerApply
<1>5. CASE HandlerOther
  BY <1>5, ReceiveCreateCounts, DeleteCounts, RescheduleCounts, IncCounts, DecCounts
  DEF HandlerOther
<1> QED
  BY <1>1, <1>2, <1>3, <1>4, <1>5 DEF Next

(***************************************************************************)
(* jobs_active is at most the number of active jobs plus the deletions     *)
(* that have not lowered it yet (handler.go, metrics.go).                  *)
(***************************************************************************)
THEOREM GaugeBounded ==
    ASSUME IsFiniteSet(Handlers)
    PROVE  Spec => []GaugeNeverOverstates
<1>1. Init => GaugeInv
  <2> SUFFICES ASSUME Init PROVE GaugeInv
    OBVIOUS
  <2>1. Incs = {} /\ Decs = {} /\ ActiveJobs = {} /\ jobsActive = 0
    BY DEF Init, RepoInit, HandlerInit, IdleRequest, Incs, Decs, ActiveJobs
  <2> QED
    BY <2>1, FS_EmptySet DEF GaugeInv
<1>2. IInv /\ GaugeInv /\ [Next]_vars => GaugeInv'
  BY StepCounts
<1>3. IInv /\ GaugeInv => GaugeNeverOverstates
  <2> SUFFICES ASSUME IInv, GaugeInv PROVE GaugeNeverOverstates
    OBVIOUS
  <2>1. jobsActive <= Cardinality(ActiveJobs) + Cardinality(Decs)
    BY CountsAreFinite DEF GaugeInv
  <2> QED
    BY <2>1 DEF GaugeNeverOverstates, Decs
<1> QED
  BY Invariance, <1>1, <1>2, <1>3, PTL DEF Spec

-----------------------------------------------------------------------------
(***************************************************************************)
(* The scheduler and the write handlers implement SlotDispatch: every step *)
(* of JobScheduling is a step of it, or changes nothing it can see.        *)
(***************************************************************************)

\* The initial states correspond: no job, no answer, the same instant.
LEMMA InitRefines ==
    Init => Slots!Init
<1> SUFFICES ASSUME Init PROVE Slots!Init
  OBVIOUS
<1>1. clock = 1 /\ DOMAIN jobs = {} /\ log = {}
  BY DEF Init, RepoInit
<1>2. Promised = [id \in {} |-> [schedule |-> "", from |-> 0]]
  BY <1>1 DEF Promised, Vouched
<1>3. Answers = {}
  BY <1>1 DEF Answers
<1> QED
  BY <1>1, <1>2, <1>3 DEF Slots!Init

\* A step that keeps schedules, their starts, the log and the races is
\* invisible to SlotDispatch, but for the clock.
LEMMA Invisible ==
    ASSUME UNCHANGED <<log, since, raced>>, DOMAIN jobs' = DOMAIN jobs,
           \A i \in DOMAIN jobs : i \notin raced => jobs'[i].schedule = jobs[i].schedule
    PROVE  UNCHANGED <<Promised, Answers>>
<1>1. Vouched' = Vouched
  BY DEF Vouched
<1>2. Promised' = Promised
  BY <1>1 DEF Promised, Vouched
<1>3. Answers' = Answers
  BY <1>1 DEF Answers
<1> QED
  BY <1>2, <1>3

\* Submit answers the oldest open slot of a job no race has touched; a
\* dispatch of another job, or of one that never fires, is invisible.
LEMMA SubmitRefines ==
    ASSUME IInv, Submit
    PROVE  Slots!Next \/ UNCHANGED <<clock, Promised, Answers>>
<1>1. PICK id : id = dueJobs[cursor]
  OBVIOUS
<1>2. /\ UNCHANGED <<jobs, clock, since, raced>>
      /\ log' = log \cup {Dispatch}
      /\ Dispatch.id = id /\ Dispatch.slot = snapshot[id].nextRun /\ Dispatch.sweep = now
      /\ Dispatch.schedule = jobs[id].schedule
  BY <1>1 DEF Submit, Dispatch, repoVars
<1>3. /\ id \in DOMAIN jobs /\ now \in 1 .. clock /\ snapshot[id].nextRun <= now
      /\ Pending(id) /\ ~Submitted(id)
  BY <1>1 DEF IInv, TypeOK, Submit, SubmitNext, SweepOK, InSweep, Pending, Submitted
<1>4. UNCHANGED <<Promised, Vouched>>
  BY <1>2 DEF Promised, Vouched
<1>5. CASE ~(id \in Vouched /\ Satisfiable(id))
  <2>1. {x \in log' : x.id \in Vouched /\ Fires[x.schedule] # {}} =
        {x \in log : x.id \in Vouched /\ Fires[x.schedule] # {}}
    BY <1>2, <1>5 DEF Satisfiable
  <2> QED
    BY <2>1, <1>2, <1>4 DEF Answers
<1>6. CASE id \in Vouched /\ Satisfiable(id)
  <2> DEFINE slot == jobs[id].nextRun
             Good(l) == {x \in l : x.id \in Vouched /\ Fires[x.schedule] # {}}
  <2>1. Undisturbed(id)
    BY <1>3, <1>6 DEF IInv, PutOK, HasToItself, Undisturbed, BeingReplaced, Vouched
  <2>2. /\ snapshot[id].nextRun = slot
        /\ slot \in Fires[jobs[id].schedule] /\ since[id] < slot
        /\ \A d \in log : d.id = id => d.sweep < slot
    BY <2>1, <1>3, <1>6 DEF IInv, CopyOK, SlotOK
  <2>3. /\ Promised[id].schedule = jobs[id].schedule /\ Promised[id].from = since[id]
        /\ id \in DOMAIN Promised
    BY <1>6 DEF Promised
  <2>4. /\ Fires[jobs[id].schedule] \subseteq Nat
        /\ \A d \in log : d.sweep \in Int
        /\ since[id] \in Int
    BY <1>3, FiresAssumption DEF IInv, TypeOK, JobRecords
  <2>5. slot \in Slots!Unanswered(id)
    <3>1. \A a \in Answers : a.id = id => a.sweep < slot /\ a.sweep \in Int
      BY <2>2, <2>4 DEF Answers
    <3> QED
      BY <3>1, <2>2, <2>3, <2>4 DEF Slots!Unanswered
  <2>6. \A s \in Slots!Unanswered(id) : slot <= s
    <3> SUFFICES ASSUME NEW s \in Slots!Unanswered(id), ~(slot <= s) PROVE FALSE
      OBVIOUS
    <3>1. /\ s \in Fires[jobs[id].schedule] /\ since[id] < s
          /\ ~\E a \in Answers : a.id = id /\ a.slot <= s /\ s <= a.sweep
      BY <2>3 DEF Slots!Unanswered
    <3>2. s < slot
      BY <3>1, <2>2, <2>4
    <3>3. PICK d \in log : CoveredBy(d, id, s)
      BY <3>1, <3>2, <2>1, <1>3 DEF IInv, NoSlotLost
    <3>4. [id |-> d.id, slot |-> d.slot, sweep |-> d.sweep] \in Answers
      BY <3>3, <1>6 DEF Answers, CoveredBy, Satisfiable
    <3> QED
      BY <3>1, <3>3, <3>4 DEF CoveredBy
  <2>7. Slots!Unanswered(id) \subseteq Nat
    BY <2>3, <2>4 DEF Slots!Unanswered
  <2>8. Min(Slots!Unanswered(id)) = slot
    <3>1. PICK m : m = Min(Slots!Unanswered(id))
      OBVIOUS
    <3>2. m \in Slots!Unanswered(id) /\ m <= slot
      BY <3>1, <2>5, <2>7, MinOfNaturals
    <3> QED
      BY <3>1, <3>2, <2>5, <2>6, <2>7
  <2>9. Answers' = Answers \cup {[id |-> id, slot |-> slot, sweep |-> now]}
    <3>1. Good(log') = Good(log) \cup {Dispatch}
      BY <1>2, <1>6 DEF Satisfiable
    <3> QED
      BY <3>1, <1>2, <1>4, <2>2 DEF Answers
  <2>10. Slots!Answer
    <3>1. /\ Slots!Unanswered(id) # {} /\ Min(Slots!Unanswered(id)) <= now
          /\ Answers' = Answers \cup
                {[id |-> id, slot |-> Min(Slots!Unanswered(id)), sweep |-> now]}
          /\ UNCHANGED <<clock, Promised>>
      BY <2>2, <2>5, <2>8, <2>9, <1>2, <1>3, <1>4
    <3>2. id \in DOMAIN Promised /\ now \in 1 .. clock
      BY <2>3, <1>3
    <3>3. Slots!Min(Slots!Unanswered(id)) = Min(Slots!Unanswered(id))
      BY DEF Slots!Min, Min
    <3> QED
      BY <3>1, <3>2, <3>3 DEF Slots!Answer
  <2> QED
    BY <2>10 DEF Slots!Next
<1> QED
  BY <1>5, <1>6

\* A race releases the scheduler from its promise; nothing else changes.
LEMMA RaceRefines ==
    ASSUME UNCHANGED <<jobs, clock, log, since>>, raced \subseteq raced'
    PROVE  Slots!Next
<1>1. Vouched' \subseteq Vouched /\ DOMAIN Promised' = Vouched' /\ DOMAIN Promised = Vouched
  BY DEF Vouched, Promised
<1>2. Promised' = [id \in DOMAIN Promised' |-> Promised[id]]
  BY <1>1 DEF Promised
<1>3. Answers' = {a \in Answers : a.id \in DOMAIN Promised'}
  BY <1>1 DEF Answers
<1>4. Slots!Release
  BY <1>1, <1>2, <1>3 DEF Slots!Release
<1> QED
  BY <1>4 DEF Slots!Next

\* A job gets a schedule that counts from an instant of the past, past all
\* its dispatches: SlotDispatch makes a new promise.
LEMMA PromiseRefines ==
    ASSUME NEW id, id \in DOMAIN jobs', id \notin raced,
           UNCHANGED <<clock, log, raced>>, DOMAIN jobs' = DOMAIN jobs \cup {id},
           \A i \in DOMAIN jobs : i # id => /\ jobs'[i].schedule = jobs[i].schedule
                                            /\ since'[i] = since[i],
           jobs'[id].schedule \in Expressions, since'[id] <= clock,
           \A d \in log : d.id \in DOMAIN jobs,
           \A d \in log : d.id = id => d.sweep <= since'[id]
    PROVE  Slots!Next
<1>1. Vouched' = Vouched \cup {id} /\ id \in Vouched'
  BY DEF Vouched
<1>2. /\ DOMAIN Promised' = DOMAIN Promised \cup {id}
      /\ Promised'[id].schedule = jobs'[id].schedule /\ Promised'[id].from = since'[id]
  BY <1>1 DEF Promised
<1>3. Promised' = [i \in DOMAIN Promised \cup {id} |->
                      IF i = id THEN Promised'[id] ELSE Promised[i]]
  BY <1>1 DEF Promised, Vouched
<1>4. Answers' = Answers
  <2>1. \A d \in log : d.id \in Vouched' <=> d.id \in Vouched
    BY DEF Vouched
  <2> QED
    BY <2>1 DEF Answers
<1>5. \A a \in Answers : a.id = id => a.sweep <= since'[id]
  BY DEF Answers
<1>6. Slots!Promise
  BY <1>2, <1>3, <1>4, <1>5 DEF Slots!Promise
<1> QED
  BY <1>6 DEF Slots!Next

\* Every step of the scheduler and the handlers is a step of SlotDispatch, or
\* leaves what it sees alone.
LEMMA StepRefines ==
    IInv /\ [Next]_vars => [Slots!Next]_(Slots!absVars)
<1> SUFFICES ASSUME IInv, [Next]_vars
             PROVE  Slots!Next \/ UNCHANGED <<clock, Promised, Answers>>
  BY DEF Slots!absVars
<1>0. /\ \A d \in log : d.id \in DOMAIN jobs
      /\ \A i \in DOMAIN jobs : jobs[i] \in JobRecords
      /\ DOMAIN since = DOMAIN jobs
  BY DEF IInv, TypeOK
<1>1. CASE SweepStart
  BY <1>1, RaceRefines DEF SweepStart, repoVars
<1>2. CASE Submit
  BY <1>2, SubmitRefines
<1>3. CASE Advance
  <2>1. /\ UNCHANGED <<log, since, raced, clock>> /\ DOMAIN jobs' = DOMAIN jobs
        /\ \A i \in DOMAIN jobs : jobs'[i].schedule = jobs[i].schedule
    BY <1>0, <1>3 DEF Advance, AdvanceNext, UpdateJobNextRun, historyVars, repoVars, JobRecords
  <2> QED
    BY <2>1, Invisible
<1>4. CASE SweepControl
  <2>1. UNCHANGED <<log, since, raced, clock, jobs>>
    BY <1>4 DEF SweepControl, historyVars, repoVars
  <2> QED
    BY <2>1, Invisible
<1>5. CASE HandlerStore
  <2>1. PICK h \in Handlers :
          /\ StoreJob(h)
          /\ since' = With(since, CreatedID(NoID), req[h].stamp)
          /\ UNCHANGED <<clock, schedVars, log, raced>>
    BY <1>5 DEF HandlerStore
  <2>2. PICK id : id = idCounter
    OBVIOUS
  <2>3. id \notin DOMAIN jobs /\ CreatedID(NoID) = id
    BY <2>2 DEF IInv, TypeOK, CreatedID, NoID
  <2>4. /\ req[h].stamp <= clock
        /\ \E e \in Expressions, t \in JobTypes :
              req[h].job = NewJob(e, t, GetNextRun(e, req[h].stamp))
    BY <2>1 DEF IInv, TypeOK, RequestOK, StoreJob
  <2>5. /\ jobs' = With(jobs, id, [req[h].job EXCEPT !.status = StatusActive])
        /\ since' = With(since, id, req[h].stamp)
    BY <2>1, <2>3 DEF StoreJob, CreateJob
  <2>6. [req[h].job EXCEPT !.status = StatusActive].schedule \in Expressions
    <3>1. PICK e \in Expressions, t \in JobTypes :
            req[h].job = NewJob(e, t, GetNextRun(e, req[h].stamp))
      BY <2>4
    <3>2. PICK first : first = GetNextRun(e, req[h].stamp)
      OBVIOUS
    <3>3. [req[h].job EXCEPT !.status = StatusActive]
            = [NewJob(e, t, first) EXCEPT !.status = StatusActive]
      BY <3>1, <3>2
    <3>4. [NewJob(e, t, first) EXCEPT !.status = StatusActive].schedule = e
      BY DEF NewJob
    <3> QED
      BY <3>3, <3>4
  <2>7. /\ DOMAIN jobs' = DOMAIN jobs \cup {id} /\ jobs'[id].schedule \in Expressions
        /\ \A i \in DOMAIN jobs : jobs'[i] = jobs[i]
    BY <2>3, <2>5, <2>6 DEF With
  <2>8. since'[id] <= clock /\ \A i \in DOMAIN jobs : since'[i] = since[i]
    BY <1>0, <2>3, <2>4, <2>5 DEF With
  <2>9. CASE id \notin raced
    BY <1>0, <2>1, <2>3, <2>7, <2>8, <2>9, PromiseRefines
  <2>10. CASE id \in raced
    <3>1. Vouched' = Vouched
      BY <2>1, <2>7, <2>10 DEF Vouched
    <3> QED
      BY <3>1, <2>1, <2>7, <2>8 DEF Promised, Answers, Vouched
  <2> QED
    BY <2>9, <2>10
<1>6. CASE HandlerPut
  <2>1. UNCHANGED <<jobs, clock, log, since>> /\ raced \subseteq raced'
    BY <1>6 DEF HandlerPut, ReceiveUpdate, repoVars
  <2> QED
    BY <2>1, RaceRefines
<1>7. CASE HandlerApply
  <2>1. PICK h \in Handlers :
          /\ Apply(h)
          /\ since' = IF Reschedules(req[h].updates) /\ req[h].id \in DOMAIN jobs
                        THEN [since EXCEPT ![req[h].id] = req[h].stamp]
                        ELSE since
          /\ UNCHANGED <<clock, schedVars, log, raced>>
    BY <1>7 DEF HandlerApply
  <2>2. PICK id, u, stamp : id = req[h].id /\ u = req[h].updates /\ stamp = req[h].stamp
    OBVIOUS
  <2>3. /\ jobs' = IF id \in DOMAIN jobs THEN [jobs EXCEPT ![id] = ApplyUpdates(@, u)] ELSE jobs
        /\ since' = IF Reschedules(u) /\ id \in DOMAIN jobs
                      THEN [since EXCEPT ![id] = stamp] ELSE since
        /\ u \in Updates /\ req[h].at = "apply"
        /\ Reschedules(u) => u.schedule.val \in Expressions /\ stamp \in 1 .. clock
    BY <2>1, <2>2 DEF Apply, UpdateJob, IInv, TypeOK, RequestOK, Validate
  <2>4. /\ DOMAIN jobs' = DOMAIN jobs
        /\ \A i \in DOMAIN jobs : jobs'[i].schedule =
              IF i = id /\ Reschedules(u) THEN u.schedule.val ELSE jobs[i].schedule
    <3>1. \A i \in DOMAIN jobs : ApplyUpdates(jobs[i], u).schedule =
            IF Reschedules(u) THEN u.schedule.val ELSE jobs[i].schedule
      BY <1>0, <2>3, AppliedUpdates DEF Validate
    <3> QED
      BY <2>3, <3>1
  <2>5. CASE id \in DOMAIN jobs \ raced /\ Reschedules(u)
    <3>1. Replaces(h, id)
      BY <2>2, <2>3, <2>5 DEF Replaces
    <3>2. \A d \in log : d.id = id => d.sweep <= stamp
      BY <3>1, <2>2, <2>5 DEF IInv, PutOK, HasToItself
    <3>3. since'[id] = stamp /\ \A i \in DOMAIN jobs : i # id => since'[i] = since[i]
      BY <1>0, <2>3, <2>5
    <3>4. stamp <= clock /\ jobs'[id].schedule \in Expressions
      BY <2>3, <2>4, <2>5 DEF IInv, TypeOK
    <3>5. DOMAIN jobs' = DOMAIN jobs \cup {id} /\ id \in DOMAIN jobs' /\ id \notin raced
      BY <2>4, <2>5
    <3> QED
      BY <1>0, <2>1, <2>4, <3>2, <3>3, <3>4, <3>5, PromiseRefines
  <2>6. CASE ~(id \in DOMAIN jobs \ raced /\ Reschedules(u))
    <3>1. /\ Vouched' = Vouched
          /\ \A i \in Vouched : jobs'[i].schedule = jobs[i].schedule /\ since'[i] = since[i]
      BY <1>0, <2>1, <2>3, <2>4, <2>6 DEF Vouched
    <3> QED
      BY <3>1, <2>1 DEF Promised, Answers
  <2> QED
    BY <2>5, <2>6
<1>8. CASE HandlerOther
  <2>1. PICK h \in Handlers :
          \/ LocalStep(h)
          \/ Reschedule(h)
          \/ \E id \in SomeID : Delete(h, id)
    BY <1>8 DEF HandlerOther, LocalStep
  <2>2. UNCHANGED <<log, since, raced, clock>>
    BY <1>8 DEF HandlerOther, historyVars
  <2>3. /\ DOMAIN jobs' = DOMAIN jobs
        /\ \A i \in DOMAIN jobs : jobs'[i].schedule = jobs[i].schedule
    <3>1. CASE LocalStep(h)
      BY <3>1 DEF LocalStep, ReceiveCreate, IncGauge, DecGauge, repoVars
    <3>2. CASE Reschedule(h)
      BY <1>0, <3>2 DEF Reschedule, UpdateJobNextRun, JobRecords
    <3>3. CASE \E id \in SomeID : Delete(h, id)
      BY <1>0, <3>3 DEF Delete, DeleteJob, JobRecords
    <3> QED
      BY <2>1, <3>1, <3>2, <3>3
  <2> QED
    BY <2>2, <2>3, Invisible
<1>9. CASE Time
  <2>1. UNCHANGED <<log, since, raced, jobs>> /\ clock' = clock + 1
    BY <1>9 DEF Time, Tick, historyVars, repoVars
  <2>2. UNCHANGED <<Promised, Answers>>
    BY <2>1, Invisible
  <2> QED
    BY <2>1, <2>2 DEF Slots!Pass, Slots!Next
<1>10. CASE UNCHANGED vars
  <2>1. UNCHANGED <<log, since, raced, jobs, clock>>
    BY <1>10 DEF vars, historyVars, repoVars
  <2> QED
    BY <2>1, Invisible
<1> QED
  BY <1>1, <1>2, <1>3, <1>4, <1>5, <1>6, <1>7, <1>8, <1>9, <1>10 DEF Next, SchedulerStep

\* The scheduler and the handlers implement SlotDispatch: every slot of a job
\* no race has touched is answered in order, once, and not before it comes
\* (Scheduler.dispatchDueJobs, Handler.CreateJob, Handler.UpdateJob).
THEOREM Refinement == Spec => SlotsAnsweredInOrder
<1>1. Init => Slots!Init
  BY InitRefines
<1>2. IInv /\ [Next]_vars => [Slots!Next]_(Slots!absVars)
  BY StepRefines
<1> QED
  BY <1>1, <1>2, Invariance, PTL DEF Spec, SlotsAnsweredInOrder, Slots!Spec

=============================================================================
