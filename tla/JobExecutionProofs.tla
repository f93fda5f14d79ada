------------------------- MODULE JobExecutionProofs -------------------------
(***************************************************************************)
(* Either executor, with the scheduler, the handlers and main around it,   *)
(* implements JobExecution: every step of JobService is a step of it, or   *)
(* changes nothing it can see.                                             *)
(***************************************************************************)
EXTENDS ExecutorProofs

-----------------------------------------------------------------------------
(* What the steps rely on.                                                 *)

\* an outcome about to be recorded is one, and its time has passed
OutcomesOK ==
    /\ clock \in Nat \ {0}
    /\ \A w \in Workers : worker[w].at = "record" =>
          worker[w].success \in BOOLEAN /\ worker[w].completedAt \in 1 .. clock
    /\ \A r \in DOMAIN recorders : r.at = "record" => r.completedAt \in 1 .. clock

\* the submissions of job id that are neither waiting, nor on record, nor dropped
Rest(id) ==
    Count(id) - Cardinality(Places(queue, id)) - Len(jobExecMap[id]) - CountIn(dropped, id)

\* are those under way: what JobExecution sees of the workers and the
\* recording goroutines follows from what it sees of the rest
RestOK ==
    \A id \in DOMAIN jobs :
        /\ Underway(id) = Rest(id) /\ Underway(id) \in Nat
        /\ Count(id) \in Int /\ Cardinality(Places(queue, id)) \in Nat
        /\ Len(jobExecMap[id]) \in Nat /\ CountIn(dropped, id) \in Nat

\* what the standard executor's Stop waits for
LeftOK ==
    mainPC = "exited" /\ ~optimized =>
        \A id \in DOMAIN jobs :
            Underway(id) = 0 /\ (jobExecMap[id] # <<>> => jobs[id].lastExecuted # Nil)

PInv == StopOrder /\ LInv /\ AInv /\ TInv /\ OutcomesOK /\ RestOK /\ LeftOK

\* The times of outcomes are read from the clock, which does not go back.
LEMMA StepOutcomes ==
    ASSUME LInv, TInv, AInv, OutcomesOK, [Next]_vars
    PROVE  OutcomesOK'
<1>0. clock' \in Nat \ {0} /\ 1 .. clock \subseteq 1 .. clock'
  <2>1. clock' \in {clock, clock + 1}
    BY DEF Next, MainStep, Interruption, SchedulerStep, WorkerStep, RecordStep, HandlerStep,
           Time, Tick, vars
  <2> QED
    BY <2>1 DEF OutcomesOK
<1>1. CASE UNCHANGED <<worker, recorders>>
  BY <1>0, <1>1 DEF OutcomesOK
<1>2. CASE MainStep
  <2>1. recorders' = recorders
    BY <1>2 DEF MainStep, optVars
  <2>2. worker' = worker \/ worker' = [w \in Workers |-> IdleWorker]
    BY <1>2 DEF MainStep, StartExecutor, StartWorkers, StartScheduler, BeginShutdown,
                RequestsDrained, StopScheduler, SchedulerStopped, StopWorkers, CancelWorkers,
                CloseQueue, WorkersStopped, execVars
  <2>3. IdleWorker.at # "record"
    BY DEF IdleWorker, Worker
  <2> QED
    BY <1>0, <2>1, <2>2, <2>3 DEF OutcomesOK
<1>3. ASSUME NEW w \in Workers, WorkerStep(w) PROVE OutcomesOK'
  <2>0. DOMAIN worker = Workers /\ clock' = clock
    BY <1>3 DEF LInv, WorkersOK, WorkerStep
  <2>1. PICK b : /\ worker' = [worker EXCEPT ![w] = b]
                 /\ b.at = "record" => b.success \in BOOLEAN /\ b.completedAt = clock
    <3> DEFINE Good(b) == /\ worker' = [worker EXCEPT ![w] = b]
                          /\ b.at = "record" => b.success \in BOOLEAN /\ b.completedAt = clock
    <3>1. CASE Take(w)
      <4>1. Good(Worker("request", Head(queue), FALSE, Nil))
        BY <3>1 DEF Take, Worker
      <4> QED
        BY <4>1
    <3>2. CASE Exit(w, signalled)
      <4>1. Good(ExitedWorker)
        BY <3>2 DEF Exit, ExitedWorker, Worker
      <4> QED
        BY <4>1
    <3>3. ASSUME NEW ok \in BOOLEAN, Respond(w, ok) \/ (ok = FALSE /\ NoResponse(w))
          PROVE  \E b : Good(b)
      <4>1. PICK id : id = worker[w].id
        OBVIOUS
      <4>2. Good(Worker("record", id, ok, clock))
        BY <2>0, <3>3, <4>1 DEF Respond, NoResponse, Worker
      <4> QED
        BY <4>2
    <3>4. CASE RecordExecution(w)
      <4>1. worker[w].id \in DOMAIN jobs /\ IsWorker(worker[w])
        BY <3>4 DEF RecordExecution, LInv, WorkersOK, TInv, WorkerTyped
      <4>2. PICK i, s, c : worker[w] = Worker("record", i, s, c)
        BY <3>4, <4>1 DEF IsWorker, RecordExecution
      <4>3. [worker[w] EXCEPT !.at = "touch"].at = "touch"
        BY <4>2 DEF Worker
      <4>4. Good([worker[w] EXCEPT !.at = "touch"])
        BY <2>0, <3>4, <4>1, <4>3 DEF RecordExecution
      <4> QED
        BY <4>4
    <3>5. CASE TouchJob(w) \/ CountProcessed(w) \/ HandOverFailure(w)
      <4>1. Good(IdleWorker)
        BY <3>5 DEF TouchJob, CountProcessed, HandOverFailure, IdleWorker, Worker
      <4> QED
        BY <4>1
    <3>6. ASSUME NEW ok \in BOOLEAN, HandOver(w, ok) PROVE \E b : Good(b)
      <4>1. PICK id : id = worker[w].id
        OBVIOUS
      <4>2. Good(Worker("count", id, ok, Nil))
        BY <2>0, <3>6, <4>1 DEF HandOver, Worker
      <4> QED
        BY <4>2
    <3>7. \E b : Good(b)
      BY <1>3, <3>1, <3>2, <3>3, <3>4, <3>5, <3>6 DEF WorkerStep, StandardStep, OptimizedStep
    <3> QED
      BY <3>7
  <2>2. \A r \in DOMAIN recorders' : r.at = "record" => r \in DOMAIN recorders
    <3>1. CASE recorders' = recorders
      BY <3>1
    <3>2. ASSUME NEW ok, Spawn(worker[w].id, ok)
          PROVE  \A r \in DOMAIN recorders' : r.at = "record" => r \in DOMAIN recorders
      <4>1. PICK a, c, q : /\ a = recorders /\ c = recorders'
                           /\ q = Recorder("start", worker[w].id, ok, Nil)
                           /\ c = a (+) SetToBag({q})
        BY <3>2 DEF Spawn
      <4>2. BagOK(a) /\ c = a (+) SetToBag({q})
        BY <4>1 DEF AInv, BooksOK
      <4>3. DOMAIN c \subseteq DOMAIN a \cup {q}
        BY <4>2, BagJoins
      <4>4. q.at = "start"
        BY <4>1 DEF Recorder
      <4> QED
        BY <4>1, <4>3, <4>4
    <3> QED
      BY <1>3, <3>1, <3>2 DEF WorkerStep, StandardStep, OptimizedStep, HandOver, HandOverFailure,
                              CountProcessed, optVars
  <2> QED
    BY <2>0, <2>1, <2>2 DEF OutcomesOK
<1>4. CASE RecordStep
  <2>1. PICK r \in DOMAIN recorders : RecorderStep(r)
    BY <1>4 DEF RecordStep, BagToSet
  <2>2. worker' = worker /\ clock' = clock
    BY <1>4, <2>1 DEF RecordStep, RecorderStep, StampRecord, StoreRecord, TouchRecord, execVars
  <2>3. BagOK(recorders)
    BY DEF AInv, BooksOK
  <2>4. CASE StampRecord(r)
    <3>1. PICK s : s = Recorder("record", r.id, r.success, clock)
      OBVIOUS
    <3>2. DOMAIN recorders' \subseteq DOMAIN recorders \cup {s}
      BY <2>3, <2>4, <3>1, BecomesCounts DEF StampRecord
    <3>3. s.completedAt = clock
      BY <3>1 DEF Recorder
    <3> QED
      BY <2>2, <3>2, <3>3 DEF OutcomesOK
  <2>5. CASE StoreRecord(r)
    <3>1. PICK s : s = [r EXCEPT !.at = "touch"]
      OBVIOUS
    <3>2. DOMAIN recorders' \subseteq DOMAIN recorders \cup {s}
      BY <2>3, <2>5, <3>1, BecomesCounts DEF StoreRecord
    <3>3. s.at = "touch"
      BY <3>1 DEF AInv, BooksOK
    <3> QED
      BY <2>2, <3>2, <3>3 DEF OutcomesOK
  <2>6. CASE TouchRecord(r)
    <3>1. r.at \notin Waits
      BY <2>6 DEF TouchRecord, Waits
    <3>2. DOMAIN recorders' \subseteq DOMAIN recorders
      BY <2>3, <2>6, <3>1, EndsCounts DEF TouchRecord
    <3> QED
      BY <2>2, <3>2 DEF OutcomesOK
  <2> QED
    BY <2>1, <2>4, <2>5, <2>6 DEF RecorderStep
<1> QED
  BY <1>1, <1>2, <1>3, <1>4
     DEF Next, Interruption, SchedulerStep, Submit, SweepStep, Enqueue, OfferOrDrop, HandlerStep,
         Time, execVars, optVars, vars

\* What the books say of the submissions under way.
LEMMA BooksTell ==
    ASSUME IsFiniteSet(Workers), LInv, AInv
    PROVE  RestOK /\ LeftOK
<1>1. ASSUME NEW id \in DOMAIN jobs
      PROVE  /\ Underway(id) = Rest(id) /\ Underway(id) \in Nat
             /\ Count(id) \in Int /\ Cardinality(Places(queue, id)) \in Nat
             /\ Len(jobExecMap[id]) \in Nat /\ CountIn(dropped, id) \in Nat
             /\ mainPC = "exited" /\ ~optimized => Underway(id) = 0
  <2>1. Executing(id) = Cardinality(Busy(worker, id))
    BY DEF Executing, Busy, InHand
  <2>2. Unrecorded(id) = Cardinality(Owed(recorders, id))
    <3>1. \A g \in Goroutines(recorders) : g[1].success \in BOOLEAN
      BY DEF Goroutines, AInv, BooksOK
    <3>2. Owed(recorders, id) =
             {g \in Goroutines(recorders) :
                 g[1].at \in {"start", "record"} /\ g[1].id \in {id} /\ g[1].success \in BOOLEAN}
      BY <3>1 DEF Owed, Waits
    <3> QED
      BY <3>2 DEF Unrecorded, Recording
  <2>3. PICK c, q, u, o, l, d :
          /\ c = Count(id) /\ q = Cardinality(Places(queue, id))
          /\ u = Cardinality(Busy(worker, id)) /\ o = Cardinality(Owed(recorders, id))
          /\ l = Len(jobExecMap[id]) /\ d = CountIn(dropped, id)
    OBVIOUS
  <2>4. q \in Nat /\ u \in Nat /\ o \in Nat /\ l \in Nat /\ d \in Nat
    BY <2>3, CountsAreNat DEF AInv
  <2>5. c = u + (q + o + l + d)
    BY <2>3 DEF AInv, Balance, Elsewhere
  <2>6. c \in Int /\ u + o = c - q - l - d /\ u + o \in Nat
    BY <2>4, <2>5
  <2>7. mainPC = "exited" /\ ~optimized => u = 0 /\ o = 0
    <3> SUFFICES ASSUME mainPC = "exited", ~optimized PROVE u = 0 /\ o = 0
      OBVIOUS
    <3>1. (\A w \in Workers : worker[w].at = "exited") /\ DOMAIN recorders = {}
      BY DEF AInv, BooksOK, Apart, WorkersDone
    <3>2. Busy(worker, id) = {} /\ Owed(recorders, id) = {}
      BY <3>1 DEF Busy, InHand, Owed, Goroutines
    <3> QED
      BY <2>3, <3>2, FS_EmptySet
  <2> QED
    BY <2>1, <2>2, <2>3, <2>4, <2>6, <2>7 DEF Underway, Rest
<1>2. ASSUME mainPC = "exited", ~optimized, NEW id \in DOMAIN jobs, jobExecMap[id] # <<>>
      PROVE  jobs[id].lastExecuted # Nil
  <2>1. \A w \in Workers : worker[w].at = "exited"
    BY <1>2 DEF AInv, BooksOK, WorkersDone
  <2>2. Len(jobExecMap[id]) > 0
    <3>1. jobExecMap[id] \in Seq(DOMAIN executions)
      BY <1>2 DEF LInv, StoreInv
    <3> QED
      BY <1>2, <3>1, EmptySeq, LenProperties
  <2> QED
    BY <1>2, <2>1, <2>2 DEF AInv, TouchOK
<1> QED
  BY <1>1, <1>2 DEF RestOK, LeftOK

\* All of it always holds.
LEMMA AlwaysPInv ==
    ASSUME IsFiniteSet(Workers)
    PROVE  Spec => []PInv
<1> DEFINE Base == StopOrder /\ LInv /\ AInv /\ TInv /\ OutcomesOK
<1>1. Init => Base
  <2>1. Init => OutcomesOK
    BY DEF Init, RepoInit, ExecutorInit, OptimizedInit, OutcomesOK, Worker, EmptyBag, SetToBag
  <2> QED
    BY <2>1, InitStopOrder, InitLInv, InitAInv, InitTInv
<1>2. Base /\ [Next]_vars => Base'
  BY StepStopOrder, StepLInv, StepAInv, StepTInv, StepOutcomes
<1>3. Base => PInv
  BY BooksTell DEF PInv
<1> QED
  BY <1>1, <1>2, <1>3, PTL DEF Spec


-----------------------------------------------------------------------------
(* What a step does to the accounts.                                       *)

Entry(asked, running, history, last) ==
    [asked |-> asked, running |-> running, history |-> history, last |-> last]

Account(id) == Entry(Count(id), Underway(id), History(id), jobs[id].lastExecuted)

\* The accounts hold an entry for each job.
LEMMA AccountsAre ==
    Accounts = [id \in DOMAIN jobs |-> Account(id)]
BY DEF Accounts, Account, Entry

\* A step that changes the account of job id alone.
LEMMA OneAccount ==
    ASSUME NEW id \in DOMAIN jobs, DOMAIN jobs' = DOMAIN jobs, NEW a, Account(id)' = a,
           \A i \in DOMAIN jobs : i # id => Account(i)' = Account(i)
    PROVE  Accounts' = [Accounts EXCEPT ![id] = a]
BY DEF Accounts, Account, Entry

\* The histories stand when no record is written.
LEMMA HistoriesStay ==
    ASSUME UNCHANGED <<jobExecMap, executions>>
    PROVE  \A i : History(i)' = History(i)
BY DEF History

\* What is under way is told by the rest: where the rest stays, so do the
\* accounts, whatever the workers and the recording goroutines do.
LEMMA AccountsStay ==
    ASSUME RestOK, RestOK', UNCHANGED <<jobExecMap, executions, queue, submitted, dropped>>,
           DOMAIN jobs' = DOMAIN jobs,
           \A i \in DOMAIN jobs : jobs'[i].lastExecuted = jobs[i].lastExecuted
    PROVE  Accounts' = Accounts
<1>1. \A i \in DOMAIN jobs : Underway(i)' = Underway(i)
  <2> TAKE i \in DOMAIN jobs
  <2>1. Rest(i)' = Rest(i)
    BY DEF Rest, Count, CountIn, Places
  <2>2. Underway(i) = Rest(i) /\ Underway(i)' = Rest(i)'
    BY DEF RestOK
  <2> QED
    BY <2>1, <2>2
<1>2. \A i : Count(i)' = Count(i) /\ History(i)' = History(i)
  BY HistoriesStay DEF Count, CountIn
<1> QED
  BY <1>1, <1>2 DEF Accounts

\* A step that also leaves the clock, the phase and the line alone is invisible.
LEMMA Unseen ==
    ASSUME RestOK, RestOK', UNCHANGED <<jobExecMap, executions, queue, submitted, dropped>>,
           DOMAIN jobs' = DOMAIN jobs,
           \A i \in DOMAIN jobs : jobs'[i].lastExecuted = jobs[i].lastExecuted,
           UNCHANGED <<clock, optimized, Phase>>
    PROVE  UNCHANGED (Promise!absVars)
BY AccountsStay DEF Promise!absVars

\* A negation is a truth value.
LEMMA NegationIsBoolean ==
    ASSUME NEW x
    PROVE  (~x) \in BOOLEAN
<1>1. CASE x
  <2>1. (~x) = FALSE
    BY <1>1, Zenon
  <2> QED
    BY <2>1
<1>2. CASE ~x
  <2>1. (~x) = TRUE
    BY <1>2, Zenon
  <2> QED
    BY <2>1
<1> QED
  BY <1>1, <1>2

\* The initial states correspond: nothing is known or asked for.
LEMMA ServiceBegins ==
    Init => Promise!Init
<1> SUFFICES ASSUME Init PROVE Promise!Init
  OBVIOUS
<1>1. clock = 1 /\ queue = <<>> /\ DOMAIN jobs = {} /\ optimized \in BOOLEAN
  BY ModesAssumption DEF Init, RepoInit, ExecutorInit
<1>2. Phase = "open"
  BY DEF Init, ExecutorInit, Phase
<1>3. Accounts = [id \in {} |-> Promise!Fresh]
  BY <1>1 DEF Accounts
<1>4. (~optimized) \in BOOLEAN
  BY NegationIsBoolean, Zenon
<1> QED
  BY <1>1, <1>2, <1>3, <1>4 DEF Promise!Init

-----------------------------------------------------------------------------
(* The steps that JobExecution sees.                                       *)

\* main closes the channel, and leaves; its other steps are invisible.
LEMMA MainPromise ==
    ASSUME PInv, PInv', MainStep
    PROVE  Promise!Next \/ UNCHANGED (Promise!absVars)
<1>0. RestOK /\ RestOK'
  BY DEF PInv
<1>1. /\ UNCHANGED <<jobExecMap, executions, submitted, dropped, jobs, clock, optimized, queue>>
      /\ \A i \in DOMAIN jobs : jobs'[i].lastExecuted = jobs[i].lastExecuted
  BY DEF MainStep, repoVars, optVars, StartExecutor, StartWorkers, StartScheduler, BeginShutdown,
         RequestsDrained, StopScheduler, SchedulerStopped, StopWorkers, CancelWorkers,
         CloseQueue, WorkersStopped, execVars
<1>2. Accounts' = Accounts
  BY <1>0, <1>1, AccountsStay
<1>3. CASE MainGoes("closeQueue", "awaitWorkers") /\ CloseQueue
  <2>1. Phase = "open" /\ Phase' = "closed"
    BY <1>3 DEF MainGoes, CloseQueue, Phase, PInv, StopOrder
  <2> QED
    BY <1>1, <1>2, <2>1 DEF Promise!Close, Promise!Next
<1>4. CASE WorkersStopped
  <2>1. mainPC = "awaitWorkers" /\ mainPC' = "exited"
    BY <1>4 DEF WorkersStopped, MainGoes
  <2>2. Phase' = "gone"
    BY <2>1 DEF Phase
  <2>3. Phase = "closed"
    BY <2>1 DEF Phase, PInv, StopOrder
  <2>4. ~optimized => Promise!Settled
    <3> SUFFICES ASSUME ~optimized PROVE Promise!Settled
      OBVIOUS
    <3>1. \A i \in DOMAIN jobs :
             Underway(i)' = 0 /\ (jobExecMap[i] # <<>> => jobs[i].lastExecuted # Nil)
      BY <1>1, <2>1 DEF PInv, LeftOK
    <3>2. DOMAIN Accounts = DOMAIN jobs
      BY DEF Accounts
    <3>3. ASSUME NEW i \in DOMAIN jobs
          PROVE  /\ Accounts[i].running = 0
                 /\ Accounts[i].history # <<>> => Accounts[i].last # Promise!Never
      <4>1. /\ Accounts[i].running = Underway(i)'
            /\ Accounts[i].history = History(i) /\ Accounts[i].last = jobs[i].lastExecuted
        BY <1>1, <1>2 DEF Accounts
      <4>2. jobExecMap[i] = <<>> => History(i) = <<>>
        BY DEF History
      <4> QED
        BY <3>1, <4>1, <4>2 DEF Promise!Never, Nil
    <3> QED
      BY <3>2, <3>3 DEF Promise!Settled
  <2> QED
    BY <1>1, <1>2, <2>2, <2>3, <2>4 DEF Promise!Leave, Promise!Next
<1>5. CASE ~(MainGoes("closeQueue", "awaitWorkers") /\ CloseQueue) /\ ~WorkersStopped
  <2>1. queueClosed' = queueClosed /\ mainPC # "exited" /\ mainPC' # "exited"
    BY <1>5 DEF MainStep, StartExecutor, StartWorkers, StartScheduler, BeginShutdown,
         RequestsDrained, StopScheduler, SchedulerStopped, StopWorkers, CancelWorkers,
         execVars, MainGoes
  <2>2. Phase' = Phase
    BY <2>1 DEF Phase
  <2> QED
    BY <1>1, <1>2, <2>2 DEF Promise!absVars
<1> QED
  BY <1>3, <1>4, <1>5

\* Submit: a job is accepted, or turned away from a full channel.
LEMMA SubmitPromise ==
    ASSUME PInv, PInv', Submit, UNCHANGED <<clock, mainPC, optimized>>, mainPC # "exited"
    PROVE  Promise!Next \/ UNCHANGED (Promise!absVars)
<1>1. PICK id, n : id = dueJobs[cursor] /\ n = Count(id) + 1
  OBVIOUS
<1>2. /\ id \in DOMAIN jobs /\ schedPC = "submit"
      /\ UNCHANGED <<jobs, jobExecMap, executions>> /\ queueClosed' = queueClosed
      /\ submitted' = With(submitted, id, n)
  BY <1>1 DEF Submit, SubmitNext, PInv, LInv, SweepOK, repoVars, OfferOrDrop, Enqueue, execVars
<1>3. Phase = "open" /\ Phase' = "open"
  BY <1>2 DEF PInv, StopOrder, Phase
<1>4. Count(id)' = n /\ \A i : i # id => Count(i)' = Count(i)
  BY <1>2 DEF Count, CountIn, With
<1>5. \A i : History(i)' = History(i)
  BY <1>2, HistoriesStay
<1>6. /\ queue \in Seq(DOMAIN jobs) /\ RestOK /\ RestOK'
      /\ Len(queue) <= MaxQueueSize /\ Len(queue) \in Nat
  BY LenProperties DEF PInv, LInv, QueueOK, TInv, PlacesTyped
<1>7. \/ queue' = Append(queue, id) /\ dropped' = dropped /\ Len(queue) < MaxQueueSize
      \/ /\ queue' = queue /\ optimized /\ Len(queue) = MaxQueueSize
         /\ dropped' = With(dropped, id, CountIn(dropped, id) + 1)
  <2>1. CASE Len(queue) < MaxQueueSize
    BY <1>1, <2>1 DEF Submit, OfferOrDrop, Enqueue, optVars
  <2>2. CASE ~(Len(queue) < MaxQueueSize)
    <3>1. Len(queue) = MaxQueueSize
      BY <1>6, <2>2, MaxQueueSizeAssumption
    <3> QED
      BY <1>1, <2>2, <3>1 DEF Submit, OfferOrDrop, Enqueue, execVars
  <2> QED
    BY <2>1, <2>2
<1>8. \A i \in DOMAIN jobs : Underway(i)' = Underway(i)
  <2> TAKE i \in DOMAIN jobs
  <2>1. PICK c, q, l, d, c2, q2, d2 :
          /\ c = Count(i) /\ c2 = Count(i)'
          /\ q = Cardinality(Places(queue, i)) /\ q2 = Cardinality(Places(queue, i))'
          /\ d = CountIn(dropped, i) /\ d2 = CountIn(dropped, i)'
          /\ l = Len(jobExecMap[i])
    OBVIOUS
  <2>2. c \in Int /\ q \in Nat /\ d \in Nat /\ l \in Nat
    BY <1>6, <2>1 DEF RestOK
  <2>3. c2 = c + IF i = id THEN 1 ELSE 0
    BY <1>1, <1>4, <2>1, <2>2
  <2>4. CASE queue' = Append(queue, id) /\ dropped' = dropped
    <3>1. q2 = q + IF i = id THEN 1 ELSE 0
      BY <1>2, <1>6, <2>1, <2>4, PlacesAppend
    <3>2. d2 = d
      BY <2>1, <2>4 DEF CountIn
    <3>3. c2 - q2 - l - d2 = c - q - l - d
      BY <2>2, <2>3, <3>1, <3>2
    <3> QED
      BY <1>2, <1>6, <2>1, <3>3 DEF RestOK, Rest
  <2>5. CASE queue' = queue /\ dropped' = With(dropped, id, CountIn(dropped, id) + 1)
    <3>1. q2 = q
      BY <2>1, <2>5 DEF Places
    <3>2. PICK m : m = CountIn(dropped, id) + 1
      OBVIOUS
    <3>3. d2 = d + IF i = id THEN 1 ELSE 0
      <4>1. dropped' = With(dropped, id, m)
        BY <2>5, <3>2
      <4> QED
        BY <2>1, <2>2, <3>2, <4>1, OneMoreOf DEF CountIn
    <3>4. c2 - q2 - l - d2 = c - q - l - d
      BY <2>2, <2>3, <3>1, <3>3
    <3> QED
      BY <1>2, <1>6, <2>1, <3>4 DEF RestOK, Rest
  <2> QED
    BY <1>7, <2>4, <2>5
<1>9. Accounts' = [Accounts EXCEPT ![id].asked = @ + 1]
  <2>1. PICK u, h, x : u = Underway(id) /\ h = History(id) /\ x = jobs[id].lastExecuted
    OBVIOUS
  <2>2. Account(id)' = Entry(n, u, h, x)
    BY <1>2, <1>4, <1>5, <1>8, <2>1 DEF Account
  <2>3. \A i \in DOMAIN jobs : i # id => Account(i)' = Account(i)
    BY <1>2, <1>4, <1>5, <1>8 DEF Account
  <2>4. Accounts' = [Accounts EXCEPT ![id] = Entry(n, u, h, x)]
    BY <1>2, <2>2, <2>3, OneAccount
  <2>5. PICK f, c : f = Accounts /\ c = Count(id)
    OBVIOUS
  <2>6. f[id] = Entry(c, u, h, x)
    BY <1>2, <2>1, <2>5, AccountsAre DEF Account
  <2>7. [f EXCEPT ![id].asked = @ + 1] = [f EXCEPT ![id] = Entry(c + 1, u, h, x)]
    <3>1. [f[id] EXCEPT !.asked = @ + 1] = Entry(c + 1, u, h, x)
      BY <2>6 DEF Entry
    <3> QED
      BY <3>1
  <2> QED
    BY <1>1, <2>4, <2>5, <2>7
<1>10. id \in DOMAIN Accounts
  BY <1>2 DEF Accounts
<1>11. CASE queue' = Append(queue, id) /\ Len(queue) < MaxQueueSize
  <2>1. Promise!Accept(id)
    BY <1>3, <1>9, <1>11 DEF Promise!Accept
  <2> QED
    BY <1>10, <2>1 DEF Promise!Next
<1>12. CASE queue' = queue /\ optimized /\ Len(queue) = MaxQueueSize
  <2>1. Promise!TurnAway(id)
    BY <1>3, <1>9, <1>12 DEF Promise!TurnAway
  <2> QED
    BY <1>10, <2>1 DEF Promise!Next
<1> QED
  BY <1>7, <1>11, <1>12

\* Take: an execution begins.
LEMMA TakePromise ==
    ASSUME PInv, PInv', NEW w \in Workers, Take(w),
           UNCHANGED <<clock, mainPC, optimized, submitted, dropped>>, mainPC # "exited"
    PROVE  Promise!Next
<1>1. PICK id : id = Head(queue)
  OBVIOUS
<1>2. /\ queue # <<>> /\ queue' = Tail(queue) /\ queueClosed' = queueClosed
      /\ UNCHANGED <<jobs, jobExecMap, executions>>
  BY DEF Take, repoVars
<1>3. queue \in Seq(DOMAIN jobs) /\ RestOK /\ RestOK'
  BY DEF PInv, LInv, QueueOK
<1>4. id \in DOMAIN jobs
  BY <1>1, <1>2, <1>3, HeadTailProperties
<1>5. Phase' = Phase /\ Phase # "gone"
  BY <1>2 DEF Phase
<1>6. \A i : History(i)' = History(i) /\ Count(i)' = Count(i)
  BY <1>2, HistoriesStay DEF Count, CountIn
<1>7. \A i \in DOMAIN jobs : Underway(i)' = Underway(i) + IF i = id THEN 1 ELSE 0
  <2> TAKE i \in DOMAIN jobs
  <2>1. PICK c, q, l, d, q2 :
          /\ c = Count(i) /\ d = CountIn(dropped, i) /\ l = Len(jobExecMap[i])
          /\ q = Cardinality(Places(queue, i)) /\ q2 = Cardinality(Places(queue, i))'
    OBVIOUS
  <2>2. c \in Int /\ q \in Nat /\ d \in Nat /\ l \in Nat /\ q2 \in Nat
    BY <1>2, <1>3, <2>1 DEF RestOK
  <2>3. q = q2 + IF i = id THEN 1 ELSE 0
    BY <1>1, <1>2, <1>3, <2>1, PlacesTail
  <2>4. c - q2 - l - d = (c - q - l - d) + IF i = id THEN 1 ELSE 0
    BY <2>2, <2>3
  <2>5. Underway(i) = c - q - l - d
    BY <1>3, <2>1 DEF RestOK, Rest
  <2>6. Underway(i)' = c - q2 - l - d
    BY <1>2, <1>3, <1>6, <2>1 DEF RestOK, Rest, CountIn
  <2> QED
    BY <2>4, <2>5, <2>6
<1>8. Accounts' = [Accounts EXCEPT ![id].running = @ + 1]
  <2>1. PICK c, u, h, x : /\ c = Count(id) /\ u = Underway(id)
                          /\ h = History(id) /\ x = jobs[id].lastExecuted
    OBVIOUS
  <2>2. Account(id)' = Entry(c, u + 1, h, x)
    BY <1>2, <1>4, <1>6, <1>7, <2>1 DEF Account
  <2>3. \A i \in DOMAIN jobs : i # id => Account(i)' = Account(i)
    <3> SUFFICES ASSUME NEW i \in DOMAIN jobs, i # id PROVE Account(i)' = Account(i)
      OBVIOUS
    <3>1. Underway(i)' = Underway(i)
      BY <1>3, <1>7 DEF RestOK
    <3> QED
      BY <1>2, <1>6, <3>1 DEF Account
  <2>4. Accounts' = [Accounts EXCEPT ![id] = Entry(c, u + 1, h, x)]
    BY <1>2, <1>4, <2>2, <2>3, OneAccount
  <2>5. PICK f : f = Accounts
    OBVIOUS
  <2>6. f[id] = Entry(c, u, h, x)
    BY <1>4, <2>1, <2>5, AccountsAre DEF Account
  <2>7. [f EXCEPT ![id].running = @ + 1] = [f EXCEPT ![id] = Entry(c, u + 1, h, x)]
    <3>1. [f[id] EXCEPT !.running = @ + 1] = Entry(c, u + 1, h, x)
      BY <2>6 DEF Entry
    <3> QED
      BY <3>1
  <2> QED
    BY <2>4, <2>5, <2>7
<1> QED
  BY <1>1, <1>2, <1>5, <1>8 DEF Promise!Begin, Promise!Next

\* A record that is written ends up last in the history of its job.
LEMMA HistoryGrows ==
    ASSUME StoreInv, NEW id \in DOMAIN jobs, NEW ex, NEW new, new \notin DOMAIN executions,
           executions' = With(executions, new, ex),
           jobExecMap' = [jobExecMap EXCEPT ![id] = Append(@, new)]
    PROVE  /\ History(id)' = Append(History(id), ex)
           /\ \A i \in DOMAIN jobs : i # id => History(i)' = History(i)
           /\ \A i \in DOMAIN jobs :
                 Len(jobExecMap[i])' = Len(jobExecMap[i]) + IF i = id THEN 1 ELSE 0
<1>1. /\ \A i \in DOMAIN jobs : jobExecMap[i] \in Seq(DOMAIN executions)
      /\ \A e \in DOMAIN executions : executions'[e] = executions[e]
      /\ executions'[new] = ex /\ DOMAIN executions' = DOMAIN executions \cup {new}
      /\ DOMAIN jobExecMap = DOMAIN jobs
  BY DEF StoreInv, With
<1>2. /\ \A i \in DOMAIN jobs : i # id => jobExecMap'[i] = jobExecMap[i]
      /\ jobExecMap'[id] = Append(jobExecMap[id], new)
  BY <1>1
<1>3. ASSUME NEW i \in DOMAIN jobs, i # id PROVE History(i)' = History(i)
  <2>1. \A k \in DOMAIN jobExecMap[i] : jobExecMap[i][k] \in DOMAIN executions
    BY <1>1, LenProperties
  <2> QED
    BY <1>1, <1>2, <1>3, <2>1 DEF History
<1>4. PICK q, n, D : /\ q = jobExecMap[id] /\ n = Len(q)
                     /\ D = {executions[e] : e \in DOMAIN executions} \cup {ex}
  OBVIOUS
<1>5. /\ q \in Seq(DOMAIN executions) /\ n \in Nat /\ DOMAIN q = 1 .. n
      /\ \A k \in 1 .. n : q[k] \in DOMAIN executions
  BY <1>1, <1>4, LenProperties
<1>6. PICK r : r = Append(q, new)
  OBVIOUS
<1>7. /\ DOMAIN r = 1 .. n + 1 /\ Len(r) = n + 1
      /\ \A k \in 1 .. n : r[k] = q[k]
      /\ r[n + 1] = new
  <2>1. q \in Seq(DOMAIN executions \cup {new})
    BY <1>5
  <2> QED
    BY <1>4, <1>6, <2>1, AppendProperties, LenProperties
<1>8. PICK h, g : /\ h = [k \in DOMAIN q |-> executions[q[k]]]
                  /\ g = [k \in DOMAIN r |-> executions'[r[k]]]
  OBVIOUS
<1>9. h \in Seq(D) /\ Len(h) = n
  <2>1. h \in [1 .. n -> D]
    BY <1>4, <1>5, <1>8
  <2> QED
    BY <1>5, <2>1, SequenceOfLength
<1>10. g \in Seq(D) /\ Len(g) = n + 1
  <2>1. \A k \in 1 .. n + 1 : executions'[r[k]] \in D
    <3>1. \A k \in 1 .. n + 1 : k \in 1 .. n \/ k = n + 1
      BY <1>5
    <3> QED
      BY <1>1, <1>4, <1>5, <1>7, <3>1
  <2>2. g \in [1 .. n + 1 -> D]
    BY <1>7, <1>8, <2>1
  <2> QED
    BY <1>5, <2>2, SequenceOfLength
<1>11. PICK a : a = Append(h, ex)
  OBVIOUS
<1>12. /\ a \in Seq(D) /\ Len(a) = n + 1 /\ a[n + 1] = ex
       /\ \A k \in 1 .. n : a[k] = h[k]
  <2>1. ex \in D
    BY <1>4
  <2> QED
    BY <1>9, <1>11, <2>1, AppendProperties
<1>13. \A k \in 1 .. n + 1 : g[k] = a[k]
  <2>1. \A k \in 1 .. n + 1 : k \in 1 .. n \/ k = n + 1
    BY <1>5
  <2>2. \A k \in 1 .. n : g[k] = executions[q[k]] /\ a[k] = executions[q[k]]
    BY <1>1, <1>5, <1>7, <1>8, <1>12
  <2>3. g[n + 1] = ex
    BY <1>1, <1>5, <1>7, <1>8
  <2> QED
    BY <1>12, <2>1, <2>2, <2>3
<1>14. g = a
  BY <1>10, <1>12, <1>13, SeqEqual
<1>15. History(id)' = Append(History(id), ex)
  BY <1>2, <1>4, <1>6, <1>8, <1>11, <1>14 DEF History
<1>16. \A i \in DOMAIN jobs :
          Len(jobExecMap[i])' = Len(jobExecMap[i]) + IF i = id THEN 1 ELSE 0
  BY <1>1, <1>2, <1>4, <1>6, <1>7, LenProperties
<1> QED
  BY <1>3, <1>15, <1>16

\* CreateExecution for an execution under way: it is recorded.
LEMMA RecordPromise ==
    ASSUME PInv, PInv', NEW id \in DOMAIN jobs, NEW ok \in BOOLEAN, NEW t \in 1 .. clock,
           NEW ex, ex = [jobID |-> id, executedAt |-> clock, completedAt |-> t, success |-> ok],
           CreateExecution(NoID, ex), mainPC # "exited",
           UNCHANGED <<clock, mainPC, optimized, submitted, queue, queueClosed, dropped>>
    PROVE  Promise!Next
<1>1. PICK new : new = idCounter
  OBVIOUS
<1>2. StoreInv /\ RestOK /\ RestOK'
  BY DEF PInv, LInv
<1>3. new \notin DOMAIN executions
  BY <1>1, <1>2 DEF StoreInv
<1>4. ex.jobID = id /\ [ex EXCEPT !.executedAt = clock] = ex
  OBVIOUS
<1>5. /\ executions' = With(executions, new, ex) /\ jobs' = jobs
      /\ jobExecMap' = [jobExecMap EXCEPT ![id] = Append(@, new)]
  BY <1>1, <1>4 DEF CreateExecution, CreatedID, NoID
<1>6. /\ History(id)' = Append(History(id), ex)
      /\ \A i \in DOMAIN jobs : i # id => History(i)' = History(i)
      /\ \A i \in DOMAIN jobs :
            Len(jobExecMap[i])' = Len(jobExecMap[i]) + IF i = id THEN 1 ELSE 0
  BY <1>2, <1>3, <1>5, HistoryGrows
<1>7. \A i : Count(i)' = Count(i)
  BY DEF Count, CountIn
<1>8. \A i \in DOMAIN jobs : /\ Underway(i)' \in Nat
                             /\ Underway(i) = Underway(i)' + IF i = id THEN 1 ELSE 0
  <2> TAKE i \in DOMAIN jobs
  <2>1. PICK c, q, l, d, l2 :
          /\ c = Count(i) /\ d = CountIn(dropped, i) /\ q = Cardinality(Places(queue, i))
          /\ l = Len(jobExecMap[i]) /\ l2 = Len(jobExecMap[i])'
    OBVIOUS
  <2>2. c \in Int /\ q \in Nat /\ d \in Nat /\ l \in Nat
    BY <1>2, <2>1 DEF RestOK
  <2>3. l2 = l + IF i = id THEN 1 ELSE 0
    BY <1>6, <2>1
  <2>4. c - q - l - d = (c - q - l2 - d) + IF i = id THEN 1 ELSE 0
    BY <2>2, <2>3
  <2>5. Underway(i) = c - q - l - d
    BY <1>2, <2>1 DEF RestOK, Rest
  <2>6. Underway(i)' = c - q - l2 - d /\ Underway(i)' \in Nat
    BY <1>2, <1>5, <1>7, <2>1 DEF RestOK, Rest, Places, CountIn
  <2> QED
    BY <2>4, <2>5, <2>6
<1>9. PICK c, u, h, x, v : /\ c = Count(id) /\ u = Underway(id) /\ h = History(id)
                           /\ x = jobs[id].lastExecuted /\ v = Underway(id)'
  OBVIOUS
<1>10. v \in Nat /\ u = v + 1
  BY <1>8, <1>9
<1>11. u > 0 /\ v = u - 1
  BY <1>10
<1>12. PICK f : f = Accounts
  OBVIOUS
<1>13. f[id] = Entry(c, u, h, x) /\ id \in DOMAIN f
  BY <1>9, <1>12, AccountsAre DEF Account
<1>14. Accounts' = [f EXCEPT ![id] = Entry(c, v, Append(h, ex), x)]
  <2>1. Account(id)' = Entry(c, v, Append(h, ex), x)
    BY <1>5, <1>6, <1>7, <1>9 DEF Account
  <2>2. \A i \in DOMAIN jobs : i # id => Account(i)' = Account(i)
    <3> SUFFICES ASSUME NEW i \in DOMAIN jobs, i # id PROVE Account(i)' = Account(i)
      OBVIOUS
    <3>1. Underway(i)' = Underway(i)
      BY <1>8
    <3> QED
      BY <1>5, <1>6, <1>7, <3>1 DEF Account
  <2> QED
    BY <1>5, <1>12, <2>1, <2>2, OneAccount
<1>15. [f EXCEPT ![id].running = @ - 1, ![id].history = Append(@, ex)] =
          [f EXCEPT ![id] = Entry(c, v, Append(h, ex), x)]
  <2>1. PICK g : g = Append(h, ex)
    OBVIOUS
  <2>2. f[id].running - 1 = v /\ f[id].history = h
    BY <1>11, <1>13 DEF Entry
  <2>3. [Entry(c, u, h, x) EXCEPT !.running = v] = Entry(c, v, h, x)
    BY DEF Entry
  <2>4. [Entry(c, v, h, x) EXCEPT !.history = g] = Entry(c, v, g, x)
    BY DEF Entry
  <2>5. [[f[id] EXCEPT !.running = v] EXCEPT !.history = g] = Entry(c, v, g, x)
    BY <1>13, <2>3, <2>4
  <2>6. [f EXCEPT ![id].running = @ - 1, ![id].history = Append(@, ex)] =
           [f EXCEPT ![id] = [[f[id] EXCEPT !.running = v] EXCEPT !.history = g]]
    BY <2>1, <2>2
  <2> QED
    BY <2>1, <2>5, <2>6
<1>16. f[id].running > 0
  BY <1>11, <1>13 DEF Entry
<1>17. Phase' = Phase /\ Phase # "gone"
  BY DEF Phase
<1>18. Promise!Record(id)
  BY <1>11, <1>12, <1>14, <1>15, <1>16, <1>17 DEF Promise!Record
<1> QED
  BY <1>12, <1>13, <1>18 DEF Promise!Next

\* UpdateJobLastExecuted with a time on record: it is noted.
LEMMA NotePromise ==
    ASSUME PInv, PInv', NEW id \in DOMAIN jobs, NEW t, t \in Completions[id],
           UpdateJobLastExecuted(id, t), mainPC # "exited",
           UNCHANGED <<clock, mainPC, optimized, submitted, queue, queueClosed, dropped>>
    PROVE  Promise!Next
<1>1. StoreInv /\ RestOK /\ RestOK'
  BY DEF PInv, LInv
<1>2. /\ DOMAIN jobs' = DOMAIN jobs /\ UNCHANGED <<executions, jobExecMap>>
      /\ \A i \in DOMAIN jobs :
            jobs'[i].lastExecuted = IF i = id THEN t ELSE jobs[i].lastExecuted
  BY <1>1, LastExecutedSet DEF UpdateJobLastExecuted
<1>3. \A i : History(i)' = History(i) /\ Count(i)' = Count(i)
  BY <1>2, HistoriesStay DEF Count, CountIn
<1>4. \A i \in DOMAIN jobs : Underway(i)' = Underway(i)
  <2> TAKE i \in DOMAIN jobs
  <2>1. Rest(i)' = Rest(i)
    BY <1>2 DEF Rest, Count, CountIn, Places
  <2> QED
    BY <1>1, <1>2, <2>1 DEF RestOK
<1>5. PICK c, u, h, x, f : /\ c = Count(id) /\ u = Underway(id) /\ h = History(id)
                           /\ x = jobs[id].lastExecuted /\ f = Accounts
  OBVIOUS
<1>6. f[id] = Entry(c, u, h, x) /\ id \in DOMAIN f
  BY <1>5, AccountsAre DEF Account
<1>7. Accounts' = [f EXCEPT ![id] = Entry(c, u, h, t)]
  <2>1. Account(id)' = Entry(c, u, h, t)
    BY <1>2, <1>3, <1>4, <1>5 DEF Account
  <2>2. \A i \in DOMAIN jobs : i # id => Account(i)' = Account(i)
    BY <1>2, <1>3, <1>4 DEF Account
  <2> QED
    BY <1>2, <1>5, <2>1, <2>2, OneAccount
<1>8. [f EXCEPT ![id].last = t] = [f EXCEPT ![id] = Entry(c, u, h, t)]
  <2>1. [f[id] EXCEPT !.last = t] = Entry(c, u, h, t)
    BY <1>6 DEF Entry
  <2> QED
    BY <2>1
<1>9. PICK k \in DOMAIN h : h[k].completedAt = t
  BY <1>5 DEF Completions, History
<1>10. f[id].history = h
  BY <1>6 DEF Entry
<1>11. Phase' = Phase /\ Phase # "gone"
  BY DEF Phase
<1>12. k \in DOMAIN f[id].history /\ f[id].history[k].completedAt = t
  BY <1>9, <1>10
<1>13. Accounts' = [f EXCEPT ![id].last = f[id].history[k].completedAt]
  BY <1>7, <1>8, <1>12
<1>14. Promise!Note(id)
  BY <1>5, <1>11, <1>12, <1>13 DEF Promise!Note
<1> QED
  BY <1>5, <1>6, <1>14 DEF Promise!Next

-----------------------------------------------------------------------------
(* The steps of each process.                                              *)

\* Submit is seen; the scheduler's other steps are invisible.
LEMMA SchedulerPromise ==
    ASSUME PInv, PInv', SchedulerStep
    PROVE  Promise!Next \/ UNCHANGED (Promise!absVars)
<1>1. UNCHANGED <<clock, mainPC, optimized>> /\ mainPC # "exited"
  BY DEF SchedulerStep, mainVars, Running
<1>2. CASE Submit
  BY <1>1, <1>2, SubmitPromise
<1>3. CASE SweepStep
  <2>1. /\ UNCHANGED <<queue, submitted, dropped, jobExecMap, executions, queueClosed>>
        /\ DOMAIN jobs' = DOMAIN jobs
        /\ \A i \in DOMAIN jobs : jobs'[i].lastExecuted = jobs[i].lastExecuted
    <3>1. UNCHANGED <<queue, submitted, dropped, queueClosed>>
      BY <1>3 DEF SweepStep, execVars, optVars
    <3>2. CASE UNCHANGED repoVars
      BY <3>1, <3>2 DEF repoVars
    <3>3. CASE AdvanceNext
      <4>1. PICK id, n : UpdateJobNextRun(id, n) \/ UNCHANGED repoVars
        BY <3>3 DEF AdvanceNext
      <4>2. CASE UpdateJobNextRun(id, n)
        <5>1. StoreInv
          BY DEF PInv, LInv
        <5>2. UNCHANGED <<jobExecMap, executions>>
          BY <4>2 DEF UpdateJobNextRun
        <5> QED
          BY <3>1, <4>2, <5>1, <5>2, NextRunKeeps
      <4> QED
        BY <3>1, <4>1, <4>2 DEF repoVars
    <3> QED
      BY <1>3, <3>2, <3>3 DEF SweepStep
  <2>2. Phase' = Phase
    BY <1>1, <2>1 DEF Phase
  <2> QED
    BY <1>1, <2>1, <2>2, Unseen DEF PInv
<1> QED
  BY <1>2, <1>3 DEF SchedulerStep

\* A POST makes a job known; the other requests are invisible.
LEMMA HandlerPromise ==
    ASSUME PInv, PInv', HandlerStep
    PROVE  Promise!Next \/ UNCHANGED (Promise!absVars)
<1>0. /\ StoreInv /\ RestOK /\ RestOK'
      /\ queue \in Seq(DOMAIN jobs) /\ DOMAIN submitted \subseteq DOMAIN jobs
      /\ DOMAIN dropped \subseteq DOMAIN jobs
  BY DEF PInv, LInv, QueueOK, AInv, BooksOK
<1>1. /\ UNCHANGED <<clock, mainPC, optimized, queue, queueClosed, submitted, dropped>>
      /\ Phase' = Phase
  BY DEF HandlerStep, mainVars, execVars, optVars, Phase
<1>2. PICK h \in Handlers :
        \/ \E e \in Expressions, t \in JobTypes : ReceiveCreate(h, e, t)
        \/ \E id \in DOMAIN jobs : Delete(h, id)
        \/ StoreJob(h)
        \/ IncGauge(h)
        \/ DecGauge(h)
  BY DEF HandlerStep
<1>3. CASE UNCHANGED repoVars
  BY <1>0, <1>1, <1>3, Unseen DEF repoVars
<1>4. ASSUME NEW id, DeleteJob(id)
      PROVE  UNCHANGED (Promise!absVars)
  <2>1. UNCHANGED <<jobExecMap, executions>>
    BY <1>4 DEF DeleteJob
  <2>2. /\ DOMAIN jobs' = DOMAIN jobs
        /\ \A i \in DOMAIN jobs : jobs'[i].lastExecuted = jobs[i].lastExecuted
    BY <1>0, <1>4, DeleteKeeps
  <2> QED
    BY <1>0, <1>1, <2>1, <2>2, Unseen
<1>5. CASE StoreJob(h)
  <2>1. PICK job : job = req[h].job
    OBVIOUS
  <2>2. CreateJob(NoID, job) /\ IsJob(job) /\ job.lastExecuted = Nil
    BY <1>5, <2>1 DEF StoreJob, PInv, LInv, RequestsOK
  <2>3. /\ \A i \in DOMAIN jobs : jobs'[i] = jobs[i]
        /\ \A i \in DOMAIN jobs' \ DOMAIN jobs : jobs'[i].lastExecuted = Nil
        /\ executions' = executions
        /\ \A i \in DOMAIN jobs : jobExecMap'[i] = jobExecMap[i]
        /\ \A i \in DOMAIN jobs' \ DOMAIN jobs : jobExecMap'[i] = <<>>
    BY <1>0, <2>2, CreateJobGrows
  <2>4. PICK id : id \notin DOMAIN jobs /\ DOMAIN jobs' = DOMAIN jobs \cup {id}
    <3>1. idCounter \notin DOMAIN jobs
      BY <1>0 DEF StoreInv
    <3>2. DOMAIN jobs' = DOMAIN jobs \cup {idCounter}
      BY <2>2, <3>1 DEF CreateJob, CreatedID, NoID, With
    <3> QED
      BY <3>1, <3>2
  <2>5. \A i : Count(i)' = Count(i)
    BY <1>1 DEF Count, CountIn
  <2>6. \A i \in DOMAIN jobs : Account(i)' = Account(i)
    <3> SUFFICES ASSUME NEW i \in DOMAIN jobs PROVE Account(i)' = Account(i)
      OBVIOUS
    <3>1. History(i)' = History(i)
      BY <2>3 DEF History
    <3>2. Rest(i)' = Rest(i)
      BY <1>1, <2>3, <2>5 DEF Rest, Places, CountIn
    <3>3. Underway(i)' = Underway(i)
      BY <1>0, <2>4, <3>2 DEF RestOK
    <3> QED
      BY <2>3, <2>5, <3>1, <3>3 DEF Account
  <2>7. Account(id)' = Promise!Fresh
    <3>1. Count(id)' = 0 /\ CountIn(dropped, id)' = 0
      BY <1>0, <1>1, <2>4 DEF Count, CountIn
    <3>2. Places(queue, id)' = {}
      <4>1. \A k \in DOMAIN queue : queue[k] \in DOMAIN jobs
        BY <1>0, LenProperties
      <4> QED
        BY <1>1, <2>4, <4>1 DEF Places
    <3>3. Cardinality(Places(queue, id))' = 0 /\ Len(jobExecMap[id])' = 0
      BY <2>3, <2>4, <3>2, FS_EmptySet
    <3>4. Rest(id)' = 0
      BY <3>1, <3>3 DEF Rest
    <3>5. Underway(id)' = 0
      BY <1>0, <2>4, <3>4 DEF RestOK
    <3>6. History(id)' = <<>> /\ jobs'[id].lastExecuted = Nil
      BY <2>3, <2>4 DEF History
    <3> QED
      BY <3>1, <3>5, <3>6 DEF Account, Entry, Promise!Fresh, Promise!Never, Nil
  <2>8. Accounts' = [i \in DOMAIN Accounts \cup {id} |->
                        IF i = id THEN Promise!Fresh ELSE Accounts[i]]
    BY <2>4, <2>6, <2>7, AccountsAre DEF Accounts, Account, Entry
  <2>9. id \in DOMAIN Accounts' \ DOMAIN Accounts
    BY <2>4 DEF Accounts
  <2>10. Promise!Register
    BY <1>1, <2>8, <2>9 DEF Promise!Register
  <2> QED
    BY <2>10 DEF Promise!Next
<1> QED
  BY <1>2, <1>3, <1>4, <1>5 DEF ReceiveCreate, IncGauge, DecGauge, Delete

\* The workers: what the answer is, and who counts it when, is invisible.
LEMMA WorkerPromise ==
    ASSUME PInv, PInv', NEW w \in Workers, WorkerStep(w)
    PROVE  Promise!Next \/ UNCHANGED (Promise!absVars)
<1>0. /\ UNCHANGED <<clock, mainPC, optimized, submitted>> /\ mainPC # "exited"
      /\ RestOK /\ RestOK'
  BY DEF WorkerStep, mainVars, Running, PInv
<1>1. CASE UNCHANGED repoVars /\ UNCHANGED <<queue, queueClosed, dropped>>
  <2>1. Phase' = Phase
    BY <1>0, <1>1 DEF Phase
  <2> QED
    BY <1>0, <1>1, <2>1, Unseen DEF repoVars
<1>2. CASE Take(w) /\ UNCHANGED optVars
  BY <1>0, <1>2, TakePromise DEF optVars
<1>3. CASE RecordExecution(w) /\ UNCHANGED optVars
  <2>1. PICK id, ok, t, ex :
          /\ id = worker[w].id /\ ok = worker[w].success /\ t = worker[w].completedAt
          /\ ex = [jobID |-> id, executedAt |-> clock, completedAt |-> t, success |-> ok]
    OBVIOUS
  <2>2. worker[w].at = "record" /\ CreateExecution(NoID, ex)
    BY <1>3, <2>1 DEF RecordExecution, Outcome
  <2>3. id \in DOMAIN jobs /\ ok \in BOOLEAN /\ t \in 1 .. clock
    BY <2>1, <2>2 DEF PInv, LInv, WorkersOK, OutcomesOK
  <2>4. UNCHANGED <<queue, queueClosed, dropped>>
    BY <1>3 DEF RecordExecution, optVars
  <2> QED
    BY <1>0, <2>1, <2>2, <2>3, <2>4, RecordPromise
<1>4. CASE TouchJob(w) /\ UNCHANGED optVars
  <2>1. PICK id, t : id = worker[w].id /\ t = worker[w].completedAt
    OBVIOUS
  <2>2. worker[w].at = "touch" /\ UpdateJobLastExecuted(id, t)
    BY <1>4, <2>1 DEF TouchJob
  <2>3. id \in DOMAIN jobs /\ t \in Completions[id]
    BY <2>1, <2>2 DEF PInv, LInv, WorkersOK
  <2>4. UNCHANGED <<queue, queueClosed, dropped>>
    BY <1>4 DEF TouchJob, optVars
  <2> QED
    BY <1>0, <2>2, <2>3, <2>4, NotePromise
<1> QED
  BY <1>1, <1>2, <1>3, <1>4
     DEF WorkerStep, StandardStep, OptimizedStep, Exit, Respond, NoResponse, HandOver,
         CountProcessed, HandOverFailure, optVars

\* The recording goroutines do to a job what the standard worker does.
LEMMA RecorderPromise ==
    ASSUME PInv, PInv', RecordStep
    PROVE  Promise!Next \/ UNCHANGED (Promise!absVars)
<1>0. /\ UNCHANGED <<clock, mainPC, optimized, submitted>> /\ mainPC # "exited"
      /\ RestOK /\ RestOK'
  BY DEF RecordStep, mainVars, Running, PInv
<1>1. PICK r \in BagToSet(recorders) : RecorderStep(r)
  BY DEF RecordStep
<1>2. r \in DOMAIN recorders
  BY DEF BagToSet
<1>3. UNCHANGED <<queue, queueClosed, dropped>>
  BY <1>1 DEF RecorderStep, StampRecord, StoreRecord, TouchRecord, execVars
<1>4. CASE StampRecord(r)
  <2>1. Phase' = Phase /\ UNCHANGED repoVars
    BY <1>0, <1>3, <1>4 DEF Phase, StampRecord
  <2> QED
    BY <1>0, <1>3, <2>1, Unseen DEF repoVars
<1>5. CASE StoreRecord(r)
  <2>1. PICK id, ok, t, ex :
          /\ id = r.id /\ ok = r.success /\ t = r.completedAt
          /\ ex = [jobID |-> id, executedAt |-> clock, completedAt |-> t, success |-> ok]
    OBVIOUS
  <2>2. r.at = "record" /\ CreateExecution(NoID, ex)
    BY <1>5, <2>1 DEF StoreRecord
  <2>3. id \in DOMAIN jobs /\ t \in 1 .. clock
    BY <1>2, <2>1, <2>2 DEF PInv, LInv, RecordersOK, OutcomesOK
  <2>4. ok \in BOOLEAN
    BY <1>2, <2>1 DEF PInv, AInv, BooksOK
  <2> QED
    BY <1>0, <1>3, <2>1, <2>2, <2>3, <2>4, RecordPromise
<1>6. CASE TouchRecord(r)
  <2>1. PICK id, t : id = r.id /\ t = r.completedAt
    OBVIOUS
  <2>2. r.at = "touch" /\ UpdateJobLastExecuted(id, t)
    BY <1>6, <2>1 DEF TouchRecord
  <2>3. id \in DOMAIN jobs /\ t \in Completions[id]
    BY <2>1, <2>2 DEF PInv, LInv, RecordersOK
  <2> QED
    BY <1>0, <1>3, <2>2, <2>3, NotePromise
<1> QED
  BY <1>1, <1>4, <1>5, <1>6 DEF RecorderStep

\* Every step of the service is a step of JobExecution, or leaves what it sees alone.
LEMMA StepPromise ==
    PInv /\ PInv' /\ [Next]_vars => [Promise!Next]_(Promise!absVars)
<1> SUFFICES ASSUME PInv, PInv', [Next]_vars
             PROVE  Promise!Next \/ UNCHANGED (Promise!absVars)
  OBVIOUS
<1>1. CASE Interruption
  <2>1. /\ UNCHANGED repoVars
        /\ UNCHANGED <<clock, optimized, queue, queueClosed, submitted, dropped>>
    BY <1>1 DEF Interruption, execVars, optVars
  <2>2. Phase' = Phase
    BY <1>1, <2>1 DEF Interruption, Running, MainGoes, Phase
  <2> QED
    BY <2>1, <2>2, Unseen DEF repoVars, PInv
<1>2. CASE Time
  <2>1. /\ UNCHANGED repoVars
        /\ UNCHANGED <<mainPC, optimized, queue, queueClosed, submitted, dropped>>
        /\ mainPC # "exited" /\ clock' = clock + 1
    BY <1>2 DEF Time, Tick, Running, execVars, optVars, mainVars
  <2>2. Phase' = Phase /\ Phase # "gone"
    BY <2>1 DEF Phase
  <2>3. Accounts' = Accounts
    BY <2>1, AccountsStay DEF PInv, repoVars
  <2>4. Promise!Pass
    BY <2>1, <2>2, <2>3 DEF Promise!Pass
  <2> QED
    BY <2>4 DEF Promise!Next
<1>3. CASE UNCHANGED vars
  <2>1. /\ UNCHANGED repoVars
        /\ UNCHANGED <<clock, mainPC, optimized, queue, queueClosed, submitted, dropped>>
    BY <1>3 DEF vars, execVars, optVars, mainVars
  <2>2. Phase' = Phase
    BY <2>1 DEF Phase
  <2> QED
    BY <2>1, <2>2, Unseen DEF repoVars, PInv
<1> QED
  BY <1>1, <1>2, <1>3, MainPromise, SchedulerPromise, WorkerPromise, RecorderPromise,
     HandlerPromise DEF Next

(***************************************************************************)
(* Both executors keep the promise of JobExecution, for any finite set of  *)
(* workers and any number of recording goroutines, jobs and requests.      *)
(***************************************************************************)
THEOREM PromiseKept ==
    ASSUME IsFiniteSet(Workers)
    PROVE  Spec => ExecutorsKeepPromise
<1>1. Spec => []PInv
  BY AlwaysPInv
<1> QED
  BY <1>1, ServiceBegins, StepPromise, PTL DEF Spec, ExecutorsKeepPromise, Promise!Spec

=============================================================================
