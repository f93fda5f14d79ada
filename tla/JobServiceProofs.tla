-------------------------- MODULE JobServiceProofs --------------------------
(***************************************************************************)
(* Proofs about the shutdown of the service, and that a job's last         *)
(* execution time is always the completion time of one of its records,     *)
(* with either executor, any number of workers, recording goroutines,      *)
(* requests and jobs, and any queue size.                                  *)
(***************************************************************************)
EXTENDS JobService, CountingLemmas

-----------------------------------------------------------------------------
(* The shutdown.                                                           *)

(***************************************************************************)
(* The order of main.go's deferred calls, as an invariant: the channel is  *)
(* closed only in the last phase of JobExecutor.Stop, and main gets to     *)
(* that Stop only when the scheduler's goroutine has returned for good.    *)
(***************************************************************************)
StopOrder ==
    /\ queueClosed => mainPC \in {"awaitWorkers", "exited"}
    /\ mainPC \in {"cancelWorkers", "closeQueue", "awaitWorkers", "exited"}
         => schedPC = "returned"
    /\ mainPC \in {"awaitWorkers", "exited"} => queueClosed

(***************************************************************************)
(* StopOrder holds while main starts up.                                   *)
(***************************************************************************)
LEMMA InitStopOrder ==
    Init => StopOrder
BY DEF Init, ExecutorInit, StopOrder

(***************************************************************************)
(* Main's own steps keep it: each phase of the unwinding waits for the one *)
(* before.                                                                 *)
(***************************************************************************)
LEMMA MainStopOrder ==
    StopOrder /\ MainStep => StopOrder'
<1> SUFFICES ASSUME StopOrder, MainStep PROVE StopOrder'
  OBVIOUS
<1>0. schedPC' = schedPC
  BY DEF MainStep, schedVars
<1>1. CASE SchedulerStopped
  BY <1>0, <1>1 DEF SchedulerStopped, MainGoes, execVars, StopOrder
<1>2. CASE StopWorkers
  BY <1>0, <1>2 DEF StopWorkers, MainGoes, CancelWorkers, CloseQueue, StopOrder
<1>3. CASE WorkersStopped
  BY <1>0, <1>3 DEF WorkersStopped, MainGoes, execVars, StopOrder
<1>4. CASE StartExecutor
  BY <1>0, <1>4 DEF StartExecutor, MainGoes, StartWorkers, StopOrder
<1>5. CASE StartScheduler \/ BeginShutdown \/ RequestsDrained \/ StopScheduler
  BY <1>0, <1>5
     DEF StartScheduler, BeginShutdown, RequestsDrained, StopScheduler,
         MainGoes, execVars, StopOrder
<1> QED
  BY <1>1, <1>2, <1>3, <1>4, <1>5 DEF MainStep

(***************************************************************************)
(* The scheduler's steps keep it: a goroutine that has returned takes none.*)
(***************************************************************************)
LEMMA SchedulerStopOrder ==
    StopOrder /\ SchedulerStep => StopOrder'
<1> SUFFICES ASSUME StopOrder, SchedulerStep PROVE StopOrder'
  OBVIOUS
<1>1. schedPC # "returned"
  BY DEF SchedulerStep, Submit, SweepStep, SubmitNext, Poll, CollectDue, AllSubmitted,
         SweepDone, Return, AdvanceNext
<1>2. mainPC' = mainPC /\ queueClosed' = queueClosed
  BY DEF SchedulerStep, Submit, SweepStep, mainVars, execVars, Enqueue, OfferOrDrop
<1> QED
  BY <1>1, <1>2 DEF StopOrder

(***************************************************************************)
(* No other step touches main, the scheduler's position or the closing of  *)
(* the channel, except that a failing server starts the unwinding.         *)
(***************************************************************************)
LEMMA OtherStopOrder ==
    /\ StopOrder
    /\ \/ Interruption \/ (\E w \in Workers : WorkerStep(w)) \/ RecordStep
       \/ HandlerStep \/ Time
    => StopOrder'
<1> SUFFICES ASSUME StopOrder,
                    \/ Interruption \/ (\E w \in Workers : WorkerStep(w)) \/ RecordStep
                    \/ HandlerStep \/ Time
             PROVE  StopOrder'
  OBVIOUS
<1>1. CASE Interruption
  BY <1>1 DEF Interruption, MainGoes, schedVars, execVars, StopOrder
<1>2. ASSUME NEW w \in Workers, WorkerStep(w)
      PROVE  UNCHANGED <<mainPC, schedPC, queueClosed>>
  <2>1. UNCHANGED <<mainPC, schedPC>>
    BY <1>2 DEF WorkerStep, mainVars, schedVars
  <2>2. CASE StandardStep(w)
    BY <2>1, <2>2 DEF StandardStep, Respond, NoResponse, RecordExecution, TouchJob
  <2>3. CASE OptimizedStep(w)
    BY <2>1, <2>3 DEF OptimizedStep, HandOver, CountProcessed, HandOverFailure
  <2>4. CASE Take(w) \/ Exit(w, signalled)
    BY <2>1, <2>4 DEF Take, Exit
  <2> QED
    BY <1>2, <2>2, <2>3, <2>4 DEF WorkerStep
<1>3. CASE HandlerStep
  BY <1>3 DEF HandlerStep, mainVars, schedVars, execVars, StopOrder
<1>4. CASE Time
  BY <1>4 DEF Time, mainVars, schedVars, execVars, StopOrder
<1>5. CASE RecordStep
  BY <1>5 DEF RecordStep, RecorderStep, StampRecord, StoreRecord, TouchRecord,
              mainVars, schedVars, execVars, StopOrder
<1> QED
  BY <1>1, <1>2, <1>3, <1>4, <1>5 DEF StopOrder

(***************************************************************************)
(* So every step keeps it.                                                 *)
(***************************************************************************)
LEMMA StepStopOrder ==
    StopOrder /\ [Next]_vars => StopOrder'
<1> SUFFICES ASSUME StopOrder, [Next]_vars PROVE StopOrder'
  OBVIOUS
<1>1. CASE UNCHANGED vars
  BY <1>1 DEF vars, mainVars, schedVars, execVars, StopOrder
<1>2. CASE Next
  BY <1>2, MainStopOrder, SchedulerStopOrder, OtherStopOrder DEF Next
<1> QED
  BY <1>1, <1>2

(***************************************************************************)
(* The scheduler never sends on the closed channel, on any path through    *)
(* the shutdown.                                                           *)
(***************************************************************************)
THEOREM NoPanicOnShutdown == Spec => []NoSendAfterClose
<1>1. StopOrder => NoSendAfterClose
  BY DEF StopOrder, NoSendAfterClose
<1> QED
  BY InitStopOrder, StepStopOrder, <1>1, PTL DEF Spec

-----------------------------------------------------------------------------
(* Last execution times.                                                   *)

\* a value with the fields of a job, whatever they hold
IsJob(j) ==
    j = [schedule |-> j.schedule, type |-> j.type, status |-> j.status,
         nextRun |-> j.nextRun, lastExecuted |-> j.lastExecuted]

\* the completion times on record, by job
Completions ==
    [id \in DOMAIN jobs |->
        {executions[jobExecMap[id][k]].completedAt : k \in DOMAIN jobExecMap[id]}]

\* ids come from the counter, and each job has a list of records that exist
StoreInv ==
    /\ idCounter \in Nat \ {0}
    /\ \A i \in DOMAIN jobs : i \in 1 .. idCounter - 1 /\ IsJob(jobs[i])
    /\ \A e \in DOMAIN executions : e \in 1 .. idCounter - 1
    /\ DOMAIN jobExecMap = DOMAIN jobs
    /\ \A i \in DOMAIN jobs : jobExecMap[i] \in Seq(DOMAIN executions)

\* the time a job was last executed is on record
JobsOK ==
    \A id \in DOMAIN jobs :
        jobs[id].lastExecuted # Nil => jobs[id].lastExecuted \in Completions[id]

\* what a sweep works on, and what waits in the channel, are ids of jobs
SweepOK ==
    /\ DOMAIN snapshot \subseteq DOMAIN jobs
    /\ \A k \in DOMAIN dueJobs : dueJobs[k] \in DOMAIN jobs

QueueOK == queue \in Seq(DOMAIN jobs)

\* so is what a worker works on, and the time it is about to store is on record
WorkersOK ==
    /\ DOMAIN worker = Workers
    /\ \A w \in Workers :
          /\ worker[w].at \in {"request", "record", "touch"} => worker[w].id \in DOMAIN jobs
          /\ worker[w].at = "touch" => worker[w].completedAt \in Completions[worker[w].id]

\* the same of a goroutine that records
RecordersOK ==
    \A r \in BagToSet(recorders) :
        /\ r.id \in DOMAIN jobs
        /\ r.at = "touch" => r.completedAt \in Completions[r.id]

\* a job about to be created has not been executed
RequestsOK ==
    /\ DOMAIN req = Handlers
    /\ \A h \in Handlers :
          req[h].at = "store" => IsJob(req[h].job) /\ req[h].job.lastExecuted = Nil

LInv == StoreInv /\ JobsOK /\ SweepOK /\ QueueOK /\ WorkersOK /\ RecordersOK /\ RequestsOK

-----------------------------------------------------------------------------
(* What a repository call does to the store.                               *)

\* the store keeps its shape, and no time on record is lost
StoreGrows ==
    /\ StoreInv'
    /\ DOMAIN jobs \subseteq DOMAIN jobs'
    /\ \A id \in DOMAIN jobs : Completions[id] \subseteq Completions'[id]

\* A call that replaces the contents of jobs grows the store trivially.
LEMMA ContentsReplaced ==
    ASSUME StoreInv, DOMAIN jobs' = DOMAIN jobs,
           \A i \in DOMAIN jobs : IsJob(jobs'[i]),
           UNCHANGED <<executions, jobExecMap, idCounter>>
    PROVE  StoreGrows /\ Completions' = Completions
<1>1. Completions' = Completions
  BY DEF Completions
<1>2. StoreInv'
  BY DEF StoreInv
<1> QED
  BY <1>1, <1>2 DEF StoreGrows

\* UpdateJobNextRun and DeleteJob leave the last execution times alone.
LEMMA NextRunKeeps ==
    ASSUME StoreInv, NEW id, NEW n, UpdateJobNextRun(id, n)
    PROVE  /\ StoreGrows /\ Completions' = Completions /\ DOMAIN jobs' = DOMAIN jobs
           /\ \A i \in DOMAIN jobs : jobs'[i].lastExecuted = jobs[i].lastExecuted
<1>1. \A i \in DOMAIN jobs : IsJob(jobs[i])
  BY DEF StoreInv
<1>2. /\ DOMAIN jobs' = DOMAIN jobs
      /\ \A i \in DOMAIN jobs : jobs'[i] \in {jobs[i], [jobs[i] EXCEPT !.nextRun = n]}
      /\ UNCHANGED <<executions, jobExecMap, idCounter>>
  BY DEF UpdateJobNextRun
<1>3. ASSUME NEW i \in DOMAIN jobs
      PROVE  IsJob(jobs'[i]) /\ jobs'[i].lastExecuted = jobs[i].lastExecuted
  <2>1. PICK s, y, u, m, l : jobs[i] = [schedule |-> s, type |-> y, status |-> u,
                                        nextRun |-> m, lastExecuted |-> l]
    BY <1>1 DEF IsJob
  <2>2. \/ jobs'[i] = jobs[i]
        \/ jobs'[i] = [schedule |-> s, type |-> y, status |-> u,
                       nextRun |-> n, lastExecuted |-> l]
    BY <1>2, <2>1
  <2> QED
    BY <2>1, <2>2 DEF IsJob
<1> QED
  BY <1>2, <1>3, ContentsReplaced

\* The same for a deletion.
LEMMA DeleteKeeps ==
    ASSUME StoreInv, NEW id, DeleteJob(id)
    PROVE  /\ StoreGrows /\ Completions' = Completions /\ DOMAIN jobs' = DOMAIN jobs
           /\ \A i \in DOMAIN jobs : jobs'[i].lastExecuted = jobs[i].lastExecuted
<1>1. \A i \in DOMAIN jobs : IsJob(jobs[i])
  BY DEF StoreInv
<1>2. /\ DOMAIN jobs' = DOMAIN jobs
      /\ \A i \in DOMAIN jobs :
            jobs'[i] \in {jobs[i], [jobs[i] EXCEPT !.status = StatusDeleted]}
      /\ UNCHANGED <<executions, jobExecMap, idCounter>>
  BY DEF DeleteJob
<1>3. ASSUME NEW i \in DOMAIN jobs
      PROVE  IsJob(jobs'[i]) /\ jobs'[i].lastExecuted = jobs[i].lastExecuted
  <2>1. PICK s, y, u, m, l : jobs[i] = [schedule |-> s, type |-> y, status |-> u,
                                        nextRun |-> m, lastExecuted |-> l]
    BY <1>1 DEF IsJob
  <2>2. \/ jobs'[i] = jobs[i]
        \/ jobs'[i] = [schedule |-> s, type |-> y, status |-> StatusDeleted,
                       nextRun |-> m, lastExecuted |-> l]
    BY <1>2, <2>1
  <2> QED
    BY <2>1, <2>2 DEF IsJob
<1> QED
  BY <1>2, <1>3, ContentsReplaced

\* UpdateJobLastExecuted gives one job the time, and no other.
LEMMA LastExecutedSet ==
    ASSUME StoreInv, NEW id, NEW t, UpdateJobLastExecuted(id, t)
    PROVE  /\ StoreGrows /\ Completions' = Completions /\ DOMAIN jobs' = DOMAIN jobs
           /\ \A i \in DOMAIN jobs :
                 jobs'[i].lastExecuted = IF i = id THEN t ELSE jobs[i].lastExecuted
<1>1. \A i \in DOMAIN jobs : IsJob(jobs[i])
  BY DEF StoreInv
<1>2. /\ DOMAIN jobs' = DOMAIN jobs
      /\ \A i \in DOMAIN jobs :
            jobs'[i] = IF i = id THEN [jobs[i] EXCEPT !.lastExecuted = t] ELSE jobs[i]
      /\ UNCHANGED <<executions, jobExecMap, idCounter>>
  BY DEF UpdateJobLastExecuted
<1>3. ASSUME NEW i \in DOMAIN jobs
      PROVE  IsJob(jobs'[i]) /\ jobs'[i].lastExecuted = IF i = id THEN t ELSE jobs[i].lastExecuted
  <2>1. PICK s, y, u, m, l : jobs[i] = [schedule |-> s, type |-> y, status |-> u,
                                        nextRun |-> m, lastExecuted |-> l]
    BY <1>1 DEF IsJob
  <2>2. \/ jobs'[i] = jobs[i] /\ i # id
        \/ jobs'[i] = [schedule |-> s, type |-> y, status |-> u,
                       nextRun |-> m, lastExecuted |-> t] /\ i = id
    BY <1>2, <2>1
  <2> QED
    BY <2>1, <2>2 DEF IsJob
<1> QED
  BY <1>2, <1>3, ContentsReplaced

\* CreateJob adds a job that has not been executed and has no records.
LEMMA CreateJobGrows ==
    ASSUME StoreInv, NEW job, IsJob(job), job.lastExecuted = Nil, CreateJob(NoID, job)
    PROVE  /\ StoreGrows
           /\ \A i \in DOMAIN jobs : jobs'[i] = jobs[i]
           /\ \A i \in DOMAIN jobs' \ DOMAIN jobs : jobs'[i].lastExecuted = Nil
           /\ executions' = executions
           /\ \A i \in DOMAIN jobs : jobExecMap'[i] = jobExecMap[i]
           /\ \A i \in DOMAIN jobs' \ DOMAIN jobs : jobExecMap'[i] = <<>>
<1>1. PICK new : new = idCounter
  OBVIOUS
<1>2. new \notin DOMAIN jobs /\ idCounter' = new + 1 /\ new \in Nat \ {0}
  BY <1>1 DEF StoreInv, CreateJob, NextCounter, NoID
<1>3. PICK j : j = [job EXCEPT !.status = StatusActive]
  OBVIOUS
<1>4. /\ jobs' = With(jobs, new, j) /\ jobExecMap' = With(jobExecMap, new, <<>>)
      /\ executions' = executions
  BY <1>1, <1>2, <1>3 DEF CreateJob, CreatedID, NoID
<1>5. IsJob(j) /\ j.lastExecuted = Nil
  <2>1. PICK s, y, u, m, l : job = [schedule |-> s, type |-> y, status |-> u,
                                    nextRun |-> m, lastExecuted |-> l]
    BY DEF IsJob
  <2>2. j = [schedule |-> s, type |-> y, status |-> StatusActive,
             nextRun |-> m, lastExecuted |-> l]
    BY <1>3, <2>1
  <2> QED
    BY <2>1, <2>2 DEF IsJob
<1>6. /\ DOMAIN jobs' = DOMAIN jobs \cup {new} /\ jobs'[new] = j
      /\ \A i \in DOMAIN jobs : i # new /\ jobs'[i] = jobs[i]
  BY <1>2, <1>4 DEF With
<1>7. /\ DOMAIN jobExecMap' = DOMAIN jobs \cup {new} /\ jobExecMap'[new] = <<>>
      /\ \A i \in DOMAIN jobs : jobExecMap'[i] = jobExecMap[i]
  BY <1>2, <1>4 DEF With, StoreInv
<1>8. StoreInv'
  <2>1. \A i \in DOMAIN jobs' : i \in 1 .. idCounter' - 1 /\ IsJob(jobs'[i])
    BY <1>1, <1>2, <1>5, <1>6 DEF StoreInv
  <2>2. \A i \in DOMAIN jobs' : jobExecMap'[i] \in Seq(DOMAIN executions')
    <3>1. jobExecMap'[new] \in Seq(DOMAIN executions')
      BY <1>7
    <3>2. \A i \in DOMAIN jobs : jobExecMap'[i] \in Seq(DOMAIN executions')
      BY <1>4, <1>7 DEF StoreInv
    <3> QED
      BY <1>6, <3>1, <3>2
  <2>3. \A e \in DOMAIN executions' : e \in 1 .. idCounter' - 1
    BY <1>1, <1>2, <1>4 DEF StoreInv
  <2> QED
    BY <1>2, <1>6, <1>7, <2>1, <2>2, <2>3 DEF StoreInv
<1>9. \A id \in DOMAIN jobs : Completions'[id] = Completions[id]
  BY <1>4, <1>6, <1>7 DEF Completions
<1> QED
  BY <1>4, <1>5, <1>6, <1>7, <1>8, <1>9 DEF StoreGrows

\* CreateExecution puts the completion time of a job's execution on record.
LEMMA CreateExecutionGrows ==
    ASSUME StoreInv, NEW ex, ex.jobID \in DOMAIN jobs, CreateExecution(NoID, ex),
           NEW x, x = [ex EXCEPT !.executedAt = clock], x.completedAt = ex.completedAt
    PROVE  /\ StoreGrows /\ jobs' = jobs
           /\ ex.completedAt \in Completions'[ex.jobID]
           /\ \A i \in DOMAIN jobs :
                 Len(jobExecMap'[i]) = Len(jobExecMap[i]) + IF i = ex.jobID THEN 1 ELSE 0
           /\ \E new : new \notin DOMAIN executions /\ executions' = With(executions, new, x)
<1>1. PICK new, id : new = idCounter /\ id = ex.jobID
  OBVIOUS
<1>2. /\ new \notin DOMAIN executions /\ idCounter' = new + 1 /\ new \in Nat \ {0}
      /\ id \in DOMAIN jobs
  BY <1>1 DEF StoreInv, CreateExecution, NextCounter, NoID
<1>3. /\ executions' = With(executions, new, x)
      /\ jobExecMap' = [jobExecMap EXCEPT ![id] = Append(@, new)]
      /\ jobs' = jobs
  BY <1>1, <1>2 DEF CreateExecution, CreatedID, NoID
<1>4. /\ DOMAIN executions' = DOMAIN executions \cup {new} /\ executions'[new] = x
      /\ \A e \in DOMAIN executions : executions'[e] = executions[e]
  BY <1>2, <1>3 DEF With
<1>5. /\ DOMAIN jobExecMap' = DOMAIN jobs
      /\ jobExecMap'[id] = Append(jobExecMap[id], new)
      /\ \A i \in DOMAIN jobs : i # id => jobExecMap'[i] = jobExecMap[i]
  BY <1>2, <1>3 DEF StoreInv
<1>6. \A i \in DOMAIN jobs :
        /\ jobExecMap[i] \in Seq(DOMAIN executions)
        /\ jobExecMap[i] \in Seq(DOMAIN executions')
        /\ \A k \in DOMAIN jobExecMap[i] : jobExecMap[i][k] \in DOMAIN executions
  BY <1>4, SeqMonotonic, LenProperties, ElementOfSeq DEF StoreInv
<1>7. PICK list : list = jobExecMap[id]
  OBVIOUS
<1>8. /\ Append(list, new) \in Seq(DOMAIN executions')
      /\ DOMAIN list \subseteq DOMAIN Append(list, new)
      /\ \A k \in DOMAIN list : Append(list, new)[k] = list[k]
      /\ \E k \in DOMAIN Append(list, new) : Append(list, new)[k] = new
  <2>1. list \in Seq(DOMAIN executions') /\ new \in DOMAIN executions'
    BY <1>2, <1>4, <1>6, <1>7
  <2>2. /\ Append(list, new) \in Seq(DOMAIN executions')
        /\ Len(Append(list, new)) = Len(list) + 1
        /\ \A k \in 1 .. Len(list) : Append(list, new)[k] = list[k]
        /\ Append(list, new)[Len(list) + 1] = new
    BY <2>1, AppendProperties
  <2>3. /\ DOMAIN list = 1 .. Len(list) /\ Len(list) \in Nat
        /\ DOMAIN Append(list, new) = 1 .. Len(list) + 1
    BY <2>1, <2>2, LenProperties
  <2> QED
    BY <2>2, <2>3
<1>9. StoreInv'
  <2>1. \A i \in DOMAIN jobs : jobExecMap'[i] \in Seq(DOMAIN executions')
    BY <1>2, <1>5, <1>6, <1>7, <1>8
  <2>2. /\ \A e \in DOMAIN executions' : e \in 1 .. idCounter' - 1
        /\ \A i \in DOMAIN jobs : i \in 1 .. idCounter' - 1 /\ IsJob(jobs[i])
    BY <1>1, <1>2, <1>4 DEF StoreInv
  <2>3. idCounter' \in Nat \ {0} /\ DOMAIN jobExecMap' = DOMAIN jobs'
    BY <1>2, <1>3, <1>5
  <2>4. /\ \A i \in DOMAIN jobs' : i \in 1 .. idCounter' - 1 /\ IsJob(jobs'[i])
        /\ \A i \in DOMAIN jobs' : jobExecMap'[i] \in Seq(DOMAIN executions')
    BY <1>3, <2>1, <2>2
  <2> QED
    BY <2>2, <2>3, <2>4 DEF StoreInv
<1>10. \A i \in DOMAIN jobs :
         /\ i \in DOMAIN Completions /\ i \in DOMAIN Completions'
         /\ Completions[i] = {executions[jobExecMap[i][k]].completedAt : k \in DOMAIN jobExecMap[i]}
         /\ Completions'[i] =
               {executions'[jobExecMap'[i][k]].completedAt : k \in DOMAIN jobExecMap'[i]}
  BY <1>3 DEF Completions
<1>11. ASSUME NEW i \in DOMAIN jobs, NEW t \in Completions[i] PROVE t \in Completions'[i]
  <2>1. PICK k \in DOMAIN jobExecMap[i] : t = executions[jobExecMap[i][k]].completedAt
    BY <1>10, <1>11
  <2>2. k \in DOMAIN jobExecMap'[i] /\ jobExecMap'[i][k] = jobExecMap[i][k]
    BY <1>5, <1>7, <1>8, <2>1
  <2>3. executions'[jobExecMap'[i][k]] = executions[jobExecMap[i][k]]
    BY <1>4, <1>6, <2>1, <2>2
  <2> QED
    BY <1>10, <2>1, <2>2, <2>3
<1>12. x.completedAt \in Completions'[id]
  <2>1. PICK k \in DOMAIN jobExecMap'[id] : jobExecMap'[id][k] = new
    BY <1>5, <1>7, <1>8
  <2>2. executions'[jobExecMap'[id][k]] = x
    BY <1>4, <2>1
  <2>3. Completions'[id] =
          {executions'[jobExecMap'[id][i]].completedAt : i \in DOMAIN jobExecMap'[id]}
    BY <1>2, <1>10
  <2> QED
    BY <2>1, <2>2, <2>3, ZenonT(30)
<1>13. \A i \in DOMAIN jobs :
         Len(jobExecMap'[i]) = Len(jobExecMap[i]) + IF i = id THEN 1 ELSE 0
  <2>1. Len(Append(list, new)) = Len(list) + 1
    BY <1>6, <1>7, <1>2, <1>4, AppendProperties
  <2>2. \A i \in DOMAIN jobs : Len(jobExecMap[i]) \in Nat
    BY <1>6, LenProperties
  <2>3. jobExecMap'[id] = Append(list, new) /\ list = jobExecMap[id]
    BY <1>5, <1>7
  <2>4. ASSUME NEW i \in DOMAIN jobs, i # id
        PROVE  Len(jobExecMap'[i]) = Len(jobExecMap[i]) + 0
    BY <1>5, <2>2, <2>4
  <2> QED
    BY <2>1, <2>3, <2>4
<1> QED
  BY <1>1, <1>2, <1>3, <1>9, <1>11, <1>12, <1>13 DEF StoreGrows

-----------------------------------------------------------------------------
(* What a step leaves alone stays as it should be while the store grows.   *)

\* The parts of LInv that a step does not assign to.
LEMMA Carried ==
    ASSUME LInv, StoreGrows
    PROVE  /\ UNCHANGED <<snapshot, dueJobs>> => SweepOK'
           /\ UNCHANGED queue => QueueOK'
           /\ UNCHANGED worker => WorkersOK'
           /\ UNCHANGED recorders => RecordersOK'
           /\ UNCHANGED req => RequestsOK'
<1>1. UNCHANGED <<snapshot, dueJobs>> => SweepOK'
  BY DEF LInv, StoreGrows, SweepOK
<1>2. UNCHANGED queue => QueueOK'
  BY SeqMonotonic DEF LInv, StoreGrows, QueueOK
<1>3. UNCHANGED worker => WorkersOK'
  BY DEF LInv, StoreGrows, WorkersOK
<1>4. UNCHANGED recorders => RecordersOK'
  BY DEF LInv, StoreGrows, RecordersOK
<1>5. UNCHANGED req => RequestsOK'
  BY DEF LInv, RequestsOK
<1> QED
  BY <1>1, <1>2, <1>3, <1>4, <1>5

\* A step outside the repository.
LEMMA StoreUntouched ==
    ASSUME LInv, UNCHANGED repoVars
    PROVE  StoreGrows /\ JobsOK'
<1>1. UNCHANGED <<jobs, executions, jobExecMap, idCounter>>
  BY DEF repoVars
<1>2. Completions' = Completions
  BY <1>1 DEF Completions
<1>3. StoreInv'
  BY <1>1 DEF LInv, StoreInv
<1> QED
  BY <1>1, <1>2, <1>3 DEF LInv, JobsOK, StoreGrows

\* Old jobs keep their last execution time, new ones have none.
LEMMA TimesKept ==
    ASSUME LInv, StoreGrows,
           \A i \in DOMAIN jobs : jobs'[i].lastExecuted = jobs[i].lastExecuted,
           \A i \in DOMAIN jobs' \ DOMAIN jobs : jobs'[i].lastExecuted = Nil
    PROVE  JobsOK'
BY DEF LInv, JobsOK, StoreGrows

\* A worker goes on.
LEMMA WorkerMoves ==
    ASSUME LInv, StoreGrows, NEW w \in Workers, NEW x, worker' = [worker EXCEPT ![w] = x],
           x.at \in {"request", "record", "touch"} => x.id \in DOMAIN jobs,
           x.at = "touch" => x.completedAt \in Completions'[x.id]
    PROVE  WorkersOK'
<1>1. DOMAIN worker = Workers
  BY DEF LInv, WorkersOK
<1>2. /\ DOMAIN worker' = Workers /\ worker'[w] = x
      /\ \A v \in Workers : v # w => worker'[v] = worker[v]
  BY <1>1
<1>3. ASSUME NEW v \in Workers, v # w
      PROVE  /\ worker'[v].at \in {"request", "record", "touch"}
                  => worker'[v].id \in DOMAIN jobs'
             /\ worker'[v].at = "touch" => worker'[v].completedAt \in Completions'[worker'[v].id]
  BY <1>2, <1>3 DEF LInv, WorkersOK, StoreGrows
<1>4. x.at \in {"request", "record", "touch"} => x.id \in DOMAIN jobs'
  BY DEF StoreGrows
<1> QED
  BY <1>2, <1>3, <1>4 DEF WorkersOK

\* Recording goroutines come, go on or end.
LEMMA RecordersMove ==
    ASSUME LInv, StoreGrows, NEW S,
           BagToSet(recorders') \subseteq BagToSet(recorders) \cup S,
           \A r \in S : /\ r.id \in DOMAIN jobs
                        /\ r.at = "touch" => r.completedAt \in Completions'[r.id]
    PROVE  RecordersOK'
BY DEF LInv, RecordersOK, StoreGrows

\* A request goes on.
LEMMA RequestMoves ==
    ASSUME LInv, NEW h \in Handlers, NEW x, req' = [req EXCEPT ![h] = x],
           x.at = "store" => IsJob(x.job) /\ x.job.lastExecuted = Nil
    PROVE  RequestsOK'
<1>1. DOMAIN req = Handlers
  BY DEF LInv, RequestsOK
<1>2. /\ DOMAIN req' = Handlers /\ req'[h] = x
      /\ \A g \in Handlers : g # h => req'[g] = req[g]
  BY <1>1
<1> QED
  BY <1>2 DEF LInv, RequestsOK

\* What joins the bag of goroutines is what Spawn or Becomes adds.
LEMMA Spawned ==
    ASSUME NEW id, NEW ok, Spawn(id, ok)
    PROVE  BagToSet(recorders') \subseteq
              BagToSet(recorders) \cup {Recorder("start", id, ok, Nil)}
BY DEF Spawn, BagToSet, (+), SetToBag

\* The same for a goroutine that goes on or ends.
LEMMA Became ==
    ASSUME NEW r, NEW S, Becomes(r, S)
    PROVE  BagToSet(recorders') \subseteq BagToSet(recorders) \cup S
BY DEF Becomes, BagToSet, (+), (-), SetToBag

-----------------------------------------------------------------------------
(* The invariant holds initially and is kept by every step.                *)

\* The service starts without jobs, requests or goroutines.
LEMMA InitLInv == Init => LInv
<1> SUFFICES ASSUME Init PROVE LInv
  OBVIOUS
<1>1. StoreInv /\ JobsOK
  BY DEF Init, RepoInit, StoreInv, JobsOK
<1>2. SweepOK
  BY DEF Init, SchedulerInit, NoJobs, SweepOK
<1>3. QueueOK
  BY DEF Init, ExecutorInit, QueueOK
<1>4. WorkersOK
  BY DEF Init, ExecutorInit, Worker, WorkersOK
<1>5. RecordersOK
  BY DEF Init, OptimizedInit, EmptyBag, SetToBag, BagToSet, RecordersOK
<1>6. RequestsOK
  BY DEF Init, HandlerInit, IdleRequest, RequestsOK
<1> QED
  BY <1>1, <1>2, <1>3, <1>4, <1>5, <1>6 DEF LInv

\* main starts the workers idle and otherwise touches only its own state.
LEMMA MainKeeps ==
    ASSUME LInv, MainStep
    PROVE  LInv'
<1>1. StoreGrows /\ JobsOK'
  BY StoreUntouched DEF MainStep
<1>2. UNCHANGED <<snapshot, dueJobs, req, recorders, queue>>
  BY DEF MainStep, schedVars, handlerVars, optVars, StartExecutor, StartWorkers,
         StartScheduler, BeginShutdown, RequestsDrained, StopScheduler,
         SchedulerStopped, StopWorkers, CancelWorkers, CloseQueue, WorkersStopped,
         execVars
<1>3. WorkersOK'
  <2>1. CASE StartExecutor
    <3>1. worker' = [w \in Workers |-> IdleWorker] /\ IdleWorker.at = "select"
      BY <2>1 DEF StartExecutor, StartWorkers, IdleWorker, Worker
    <3> QED
      BY <3>1 DEF WorkersOK
  <2>2. CASE ~StartExecutor
    <3>1. UNCHANGED worker
      BY <2>2 DEF MainStep, StartScheduler, BeginShutdown, RequestsDrained, StopScheduler,
             SchedulerStopped, StopWorkers, CancelWorkers, CloseQueue, WorkersStopped,
             execVars
    <3> QED
      BY <1>1, <3>1, Carried
  <2> QED
    BY <2>1, <2>2
<1> QED
  BY <1>1, <1>2, <1>3, Carried DEF LInv, StoreGrows

\* A sweep copies jobs, submits them and moves their next run on.
LEMMA SchedulerKeeps ==
    ASSUME LInv, SchedulerStep
    PROVE  LInv'
<1>1. UNCHANGED <<req, worker, recorders>>
  BY DEF SchedulerStep, handlerVars, Submit, SweepStep, Enqueue, OfferOrDrop,
         execVars, optVars
<1>2. CASE Submit
  <2>1. StoreGrows /\ JobsOK'
    BY <1>2, StoreUntouched DEF Submit
  <2>2. UNCHANGED <<snapshot, dueJobs>>
    BY <1>2 DEF Submit, SubmitNext
  <2>3. PICK id : id = dueJobs[cursor] /\ id \in DOMAIN jobs
    BY <1>2 DEF Submit, SubmitNext, LInv, SweepOK
  <2>4. queue' \in {queue, Append(queue, id)}
    BY <1>2, <2>3 DEF Submit, OfferOrDrop, Enqueue, execVars
  <2>5. queue' \in Seq(DOMAIN jobs)
    BY <2>3, <2>4, AppendProperties DEF LInv, QueueOK
  <2>6. QueueOK'
    BY <2>1, <2>5, SeqMonotonic DEF QueueOK, StoreGrows
  <2> QED
    BY <1>1, <2>1, <2>2, <2>6, Carried DEF LInv, StoreGrows
<1>3. CASE SweepStep
  <2>1. UNCHANGED queue
    BY <1>3 DEF SweepStep, execVars
  <2>2. CASE AdvanceNext
    <3>1. UNCHANGED <<snapshot, dueJobs>>
      BY <2>2 DEF AdvanceNext
    <3>2. CASE UNCHANGED repoVars
      BY <1>1, <2>1, <3>1, <3>2, StoreUntouched, Carried DEF LInv, StoreGrows
    <3>3. CASE ~UNCHANGED repoVars
      <4>1. PICK id, n : UpdateJobNextRun(id, n)
        BY <2>2, <3>3 DEF AdvanceNext
      <4>2. /\ StoreGrows /\ DOMAIN jobs' = DOMAIN jobs
            /\ \A i \in DOMAIN jobs : jobs'[i].lastExecuted = jobs[i].lastExecuted
        BY <4>1, NextRunKeeps DEF LInv
      <4>3. JobsOK'
        BY <4>2, TimesKept
      <4> QED
        BY <1>1, <2>1, <3>1, <4>2, <4>3, Carried DEF LInv, StoreGrows
    <3> QED
      BY <3>2, <3>3
  <2>3. CASE ~AdvanceNext
    <3>1. StoreGrows /\ JobsOK'
      BY <1>3, <2>3, StoreUntouched DEF SweepStep
    <3>2. DOMAIN jobs' = DOMAIN jobs
      BY <1>3, <2>3 DEF SweepStep, repoVars
    <3>3. SweepOK'
      <4>1. CASE Poll
        BY <3>2, <4>1 DEF Poll, GetActiveJobs, LInv, SweepOK
      <4>2. CASE CollectDue
        <5>1. PICK due : due = DueIn(snapshot, clock) /\ due \subseteq DOMAIN jobs
          BY DEF DueIn, LInv, SweepOK
        <5>2. DOMAIN snapshot' = due
          BY <4>2, <5>1 DEF CollectDue, Restrict
        <5>3. \A k \in DOMAIN dueJobs' : dueJobs'[k] \in due
          BY <4>2, <5>1 DEF CollectDue, SetToSeqs
        <5> QED
          BY <3>2, <5>1, <5>2, <5>3 DEF SweepOK
      <4>3. CASE AllSubmitted \/ Return(signalled \/ SchedulerCancelled)
        BY <3>2, <4>3 DEF AllSubmitted, Return, LInv, SweepOK
      <4>4. CASE SweepDone
        BY <4>4 DEF SweepDone, NoJobs, SweepOK
      <4> QED
        BY <1>3, <2>3, <4>1, <4>2, <4>3, <4>4 DEF SweepStep
    <3> QED
      BY <1>1, <2>1, <3>1, <3>3, Carried DEF LInv, StoreGrows
  <2> QED
    BY <2>2, <2>3
<1> QED
  BY <1>2, <1>3 DEF SchedulerStep

\* executeJob of the standard executor: the record first, then the job's time.
LEMMA StandardKeeps ==
    ASSUME LInv, NEW w \in Workers, StandardStep(w), UNCHANGED <<schedVars, handlerVars>>
    PROVE  LInv'
<1>1. UNCHANGED <<snapshot, dueJobs, req, recorders, queue>>
  BY DEF schedVars, handlerVars, StandardStep, optVars, Respond, NoResponse,
         RecordExecution, TouchJob
<1>2. CASE NoResponse(w) \/ \E success \in BOOLEAN : Respond(w, success)
  <2>1. PICK ok, t : worker' = [worker EXCEPT ![w] = Worker("record", @.id, ok, t)]
    BY <1>2 DEF NoResponse, Respond
  <2>2. PICK x : x = Worker("record", worker[w].id, ok, t)
    OBVIOUS
  <2>3. worker' = [worker EXCEPT ![w] = x] /\ x.at = "record" /\ x.id = worker[w].id
    BY <2>1, <2>2 DEF Worker
  <2>4. worker[w].at = "request" /\ UNCHANGED repoVars
    BY <1>2 DEF NoResponse, Respond
  <2>5. StoreGrows /\ JobsOK'
    BY <2>4, StoreUntouched
  <2>6. x.id \in DOMAIN jobs
    BY <2>3, <2>4 DEF LInv, WorkersOK
  <2>7. WorkersOK'
    BY <2>3, <2>5, <2>6, WorkerMoves
  <2> QED
    BY <1>1, <2>5, <2>7, Carried DEF LInv, StoreGrows
<1>3. CASE RecordExecution(w)
  <2>1. worker[w].at = "record" /\ worker[w].id \in DOMAIN jobs
    BY <1>3 DEF RecordExecution, LInv, WorkersOK
  <2>2. PICK ex : ex = Outcome(w)
    OBVIOUS
  <2>3. CreateExecution(NoID, ex)
    BY <1>3, <2>2 DEF RecordExecution
  <2>4. PICK y : y = [ex EXCEPT !.executedAt = clock]
    OBVIOUS
  <2>5. /\ ex.jobID = worker[w].id /\ ex.completedAt = worker[w].completedAt
        /\ y.completedAt = ex.completedAt
    BY <2>2, <2>4 DEF Outcome
  <2>6. /\ StoreGrows /\ jobs' = jobs
        /\ worker[w].completedAt \in Completions'[worker[w].id]
    BY <2>1, <2>3, <2>4, <2>5, CreateExecutionGrows DEF LInv
  <2>7. JobsOK'
    BY <2>6, TimesKept
  <2>8. PICK x : x = [worker[w] EXCEPT !.at = "touch"]
    OBVIOUS
  <2>9. worker' = [worker EXCEPT ![w] = x]
    BY <1>3, <2>1, <2>8 DEF RecordExecution
  <2>10. x.id = worker[w].id /\ x.completedAt = worker[w].completedAt
    BY <2>8
  <2>11. WorkersOK'
    BY <2>1, <2>6, <2>9, <2>10, WorkerMoves
  <2> QED
    BY <1>1, <2>6, <2>7, <2>11, Carried DEF LInv, StoreGrows
<1>4. CASE TouchJob(w)
  <2>1. PICK id, t : id = worker[w].id /\ t = worker[w].completedAt
    OBVIOUS
  <2>2. worker[w].at = "touch" /\ UpdateJobLastExecuted(id, t)
    BY <1>4, <2>1 DEF TouchJob
  <2>3. t \in Completions[id]
    BY <2>1, <2>2 DEF LInv, WorkersOK
  <2>4. /\ StoreGrows /\ Completions' = Completions /\ DOMAIN jobs' = DOMAIN jobs
        /\ \A i \in DOMAIN jobs :
              jobs'[i].lastExecuted = IF i = id THEN t ELSE jobs[i].lastExecuted
    BY <2>2, LastExecutedSet DEF LInv
  <2>5. JobsOK'
    BY <2>3, <2>4 DEF LInv, JobsOK
  <2>6. PICK x : x = IdleWorker
    OBVIOUS
  <2>7. worker' = [worker EXCEPT ![w] = x] /\ x.at = "select"
    BY <1>4, <2>6 DEF TouchJob, IdleWorker, Worker
  <2>8. WorkersOK'
    BY <2>4, <2>7, WorkerMoves
  <2> QED
    BY <1>1, <2>4, <2>5, <2>8, Carried DEF LInv, StoreGrows
<1> QED
  BY <1>2, <1>3, <1>4 DEF StandardStep

\* executeJob of the optimized executor hands the record to a goroutine.
LEMMA OptimizedKeeps ==
    ASSUME LInv, NEW w \in Workers, OptimizedStep(w), UNCHANGED <<schedVars, handlerVars>>
    PROVE  LInv'
<1>1. UNCHANGED <<snapshot, dueJobs, req, queue>> /\ UNCHANGED repoVars
  BY DEF schedVars, handlerVars, OptimizedStep, HandOver, CountProcessed, HandOverFailure
<1>2. StoreGrows /\ JobsOK'
  BY <1>1, StoreUntouched
<1>3. PICK x : worker' = [worker EXCEPT ![w] = x] /\ x.at \in {"select", "count"}
  <2>1. CASE \E success \in BOOLEAN : HandOver(w, success)
    <3>1. PICK success \in BOOLEAN : HandOver(w, success)
      BY <2>1
    <3>2. PICK x : x = Worker("count", worker[w].id, success, Nil)
      OBVIOUS
    <3>3. worker' = [worker EXCEPT ![w] = x] /\ x.at = "count"
      BY <3>1, <3>2 DEF HandOver, Worker
    <3> QED
      BY <3>3
  <2>2. CASE CountProcessed(w) \/ HandOverFailure(w)
    <3>1. worker' = [worker EXCEPT ![w] = IdleWorker] /\ IdleWorker.at = "select"
      BY <2>2 DEF CountProcessed, HandOverFailure, IdleWorker, Worker
    <3> QED
      BY <3>1
  <2> QED
    BY <2>1, <2>2 DEF OptimizedStep
<1>4. WorkersOK'
  BY <1>2, <1>3, WorkerMoves
<1>5. RecordersOK'
  <2>1. CASE CountProcessed(w)
    <3>1. UNCHANGED recorders
      BY <2>1 DEF CountProcessed
    <3> QED
      BY <1>2, <3>1, Carried
  <2>2. CASE ~CountProcessed(w)
    <3>1. PICK ok : Spawn(worker[w].id, ok) /\ worker[w].at = "request"
      BY <2>2 DEF OptimizedStep, HandOver, HandOverFailure
    <3>2. PICK r : r = Recorder("start", worker[w].id, ok, Nil)
      OBVIOUS
    <3>3. BagToSet(recorders') \subseteq BagToSet(recorders) \cup {r}
      BY <3>1, <3>2, Spawned
    <3>4. r.at = "start" /\ r.id = worker[w].id /\ worker[w].id \in DOMAIN jobs
      BY <3>1, <3>2 DEF Recorder, LInv, WorkersOK
    <3>5. PICK S : S = {r}
      OBVIOUS
    <3>6. /\ BagToSet(recorders') \subseteq BagToSet(recorders) \cup S
          /\ \A q \in S : q.id \in DOMAIN jobs /\ q.at # "touch"
      BY <3>3, <3>4, <3>5
    <3> QED
      BY <1>2, <3>6, RecordersMove
  <2> QED
    BY <2>1, <2>2
<1> QED
  BY <1>1, <1>2, <1>4, <1>5, Carried DEF LInv, StoreGrows

\* The workers' select, and whatever the executor does then.
LEMMA WorkerKeeps ==
    ASSUME LInv, NEW w \in Workers, WorkerStep(w)
    PROVE  LInv'
<1>1. UNCHANGED <<schedVars, handlerVars>>
  BY DEF WorkerStep
<1>2. CASE Take(w)
  <2>1. UNCHANGED <<snapshot, dueJobs, req, recorders>> /\ UNCHANGED repoVars
    BY <1>2 DEF Take, WorkerStep, schedVars, handlerVars, optVars, StandardStep,
                OptimizedStep, Respond, NoResponse, RecordExecution, TouchJob,
                HandOver, CountProcessed, HandOverFailure
  <2>2. StoreGrows /\ JobsOK' /\ DOMAIN jobs' = DOMAIN jobs
    BY <2>1, StoreUntouched DEF repoVars
  <2>3. queue \in Seq(DOMAIN jobs) /\ queue # <<>> /\ queue' = Tail(queue)
    BY <1>2 DEF Take, LInv, QueueOK
  <2>4. Head(queue) \in DOMAIN jobs /\ Tail(queue) \in Seq(DOMAIN jobs)
    BY <2>3, HeadTailProperties
  <2>5. QueueOK'
    BY <2>2, <2>3, <2>4 DEF QueueOK
  <2>6. PICK x : x = Worker("request", Head(queue), FALSE, Nil)
    OBVIOUS
  <2>7. worker' = [worker EXCEPT ![w] = x] /\ x.at = "request" /\ x.id = Head(queue)
    BY <1>2, <2>6 DEF Take, Worker
  <2>8. WorkersOK'
    BY <2>2, <2>4, <2>7, WorkerMoves
  <2> QED
    BY <2>1, <2>2, <2>5, <2>8, Carried DEF LInv, StoreGrows
<1>3. CASE Exit(w, signalled) /\ UNCHANGED optVars
  <2>1. UNCHANGED <<snapshot, dueJobs, req, recorders, queue>> /\ UNCHANGED repoVars
    BY <1>1, <1>3 DEF Exit, schedVars, handlerVars, optVars
  <2>2. StoreGrows /\ JobsOK'
    BY <2>1, StoreUntouched
  <2>3. PICK x : x = ExitedWorker
    OBVIOUS
  <2>4. worker' = [worker EXCEPT ![w] = x] /\ x.at = "exited"
    BY <1>3, <2>3 DEF Exit, ExitedWorker, Worker
  <2>5. WorkersOK'
    BY <2>2, <2>4, WorkerMoves
  <2> QED
    BY <2>1, <2>2, <2>5, Carried DEF LInv, StoreGrows
<1> QED
  BY <1>1, <1>2, <1>3, StandardKeeps, OptimizedKeeps DEF WorkerStep

\* recordExecution: stamp, record, and only then give the job the time.
LEMMA RecorderKeeps ==
    ASSUME LInv, RecordStep
    PROVE  LInv'
<1>1. PICK r \in BagToSet(recorders) : RecorderStep(r)
  BY DEF RecordStep
<1>2. UNCHANGED <<snapshot, dueJobs, req, queue, worker>>
  BY <1>1 DEF RecordStep, schedVars, handlerVars, RecorderStep, StampRecord, StoreRecord,
              TouchRecord, execVars
<1>3. r.id \in DOMAIN jobs
  BY <1>1 DEF LInv, RecordersOK
<1>4. CASE StampRecord(r)
  <2>1. StoreGrows /\ JobsOK'
    BY <1>4, StoreUntouched DEF StampRecord
  <2>2. PICK q : q = Recorder("record", r.id, r.success, clock)
    OBVIOUS
  <2>3. q.at = "record" /\ q.id = r.id
    BY <2>2 DEF Recorder
  <2>4. PICK S : S = {q}
    OBVIOUS
  <2>5. Becomes(r, S)
    BY <1>4, <2>2, <2>4 DEF StampRecord
  <2>6. BagToSet(recorders') \subseteq BagToSet(recorders) \cup S
    BY <2>5, Became
  <2>7. RecordersOK'
    BY <1>3, <2>1, <2>3, <2>4, <2>6, RecordersMove
  <2> QED
    BY <1>2, <2>1, <2>7, Carried DEF LInv, StoreGrows
<1>5. CASE StoreRecord(r)
  <2>1. PICK ex : ex = [jobID |-> r.id, executedAt |-> clock,
                        completedAt |-> r.completedAt, success |-> r.success]
    OBVIOUS
  <2>2. PICK y : y = [ex EXCEPT !.executedAt = clock]
    OBVIOUS
  <2>3. /\ ex.jobID = r.id /\ ex.completedAt = r.completedAt
        /\ y.completedAt = ex.completedAt
    BY <2>1, <2>2
  <2>4. CreateExecution(NoID, ex)
    BY <1>5, <2>1 DEF StoreRecord
  <2>5. StoreGrows /\ jobs' = jobs /\ r.completedAt \in Completions'[r.id]
    BY <1>3, <2>2, <2>3, <2>4, CreateExecutionGrows DEF LInv
  <2>6. JobsOK'
    BY <2>5, TimesKept
  <2>7. PICK q : q = [r EXCEPT !.at = "touch"]
    OBVIOUS
  <2>8. PICK S : S = {q}
    OBVIOUS
  <2>9. Becomes(r, S)
    BY <1>5, <2>7, <2>8 DEF StoreRecord
  <2>10. BagToSet(recorders') \subseteq BagToSet(recorders) \cup S
    BY <2>9, Became
  <2>11. q.id = r.id /\ q.completedAt = r.completedAt
    BY <2>7
  <2>12. RecordersOK'
    BY <1>3, <2>5, <2>8, <2>10, <2>11, RecordersMove
  <2> QED
    BY <1>2, <2>5, <2>6, <2>12, Carried DEF LInv, StoreGrows
<1>6. CASE TouchRecord(r)
  <2>1. PICK id, t : id = r.id /\ t = r.completedAt
    OBVIOUS
  <2>2. r.at = "touch" /\ UpdateJobLastExecuted(id, t)
    BY <1>6, <2>1 DEF TouchRecord
  <2>3. t \in Completions[id]
    BY <1>1, <2>1, <2>2 DEF LInv, RecordersOK
  <2>4. /\ StoreGrows /\ Completions' = Completions /\ DOMAIN jobs' = DOMAIN jobs
        /\ \A i \in DOMAIN jobs :
              jobs'[i].lastExecuted = IF i = id THEN t ELSE jobs[i].lastExecuted
    BY <2>2, LastExecutedSet DEF LInv
  <2>5. JobsOK'
    BY <2>3, <2>4 DEF LInv, JobsOK
  <2>6. PICK S : S = {}
    OBVIOUS
  <2>7. Becomes(r, S)
    BY <1>6, <2>6 DEF TouchRecord
  <2>8. BagToSet(recorders') \subseteq BagToSet(recorders) \cup S
    BY <2>7, Became
  <2>9. RecordersOK'
    BY <2>4, <2>6, <2>8, RecordersMove
  <2> QED
    BY <1>2, <2>4, <2>5, <2>9, Carried DEF LInv, StoreGrows
<1> QED
  BY <1>1, <1>4, <1>5, <1>6 DEF RecorderStep

\* Requests create jobs that have not been executed, and mark jobs deleted.
LEMMA HandlerKeeps ==
    ASSUME LInv, HandlerStep
    PROVE  LInv'
<1>1. UNCHANGED <<snapshot, dueJobs, queue, worker, recorders>>
  BY DEF HandlerStep, schedVars, execVars, optVars
<1>2. PICK h \in Handlers :
         \/ \E e \in Expressions, t \in JobTypes : ReceiveCreate(h, e, t)
         \/ \E id \in DOMAIN jobs : Delete(h, id)
         \/ StoreJob(h)
         \/ IncGauge(h)
         \/ DecGauge(h)
  BY DEF HandlerStep
<1>3. CASE \E e \in Expressions, t \in JobTypes : ReceiveCreate(h, e, t)
  <2>1. PICK e, t : ReceiveCreate(h, e, t)
    BY <1>3
  <2>2. StoreGrows /\ JobsOK'
    BY <2>1, StoreUntouched DEF ReceiveCreate
  <2>3. PICK n, c : n = GetNextRun(e, clock) /\ c = clock
    OBVIOUS
  <2>4. PICK j : j = NewJob(e, t, n)
    OBVIOUS
  <2>5. IsJob(j) /\ j.lastExecuted = Nil
    BY <2>4 DEF NewJob, IsJob
  <2>6. PICK x : x = [IdleRequest EXCEPT !.at = "store", !.stamp = c, !.job = j]
    OBVIOUS
  <2>7. x.job = j
    BY <2>6 DEF IdleRequest
  <2>8. req' = [req EXCEPT ![h] = x]
    BY <2>1, <2>3, <2>4, <2>6 DEF ReceiveCreate
  <2>9. RequestsOK'
    BY <2>5, <2>7, <2>8, RequestMoves
  <2> QED
    BY <1>1, <2>2, <2>9, Carried DEF LInv, StoreGrows
<1>4. CASE \E id \in DOMAIN jobs : Delete(h, id)
  <2>1. PICK id \in DOMAIN jobs : Delete(h, id)
    BY <1>4
  <2>2. /\ StoreGrows /\ DOMAIN jobs' = DOMAIN jobs
        /\ \A i \in DOMAIN jobs : jobs'[i].lastExecuted = jobs[i].lastExecuted
    BY <2>1, DeleteKeeps DEF Delete, LInv
  <2>3. JobsOK'
    BY <2>2, TimesKept
  <2>4. PICK x : x = [IdleRequest EXCEPT !.at = "dec"]
    OBVIOUS
  <2>5. req' = [req EXCEPT ![h] = x] /\ x.at = "dec"
    BY <2>1, <2>4 DEF Delete, IdleRequest
  <2>6. RequestsOK'
    BY <2>5, RequestMoves
  <2> QED
    BY <1>1, <2>2, <2>3, <2>6, Carried DEF LInv, StoreGrows
<1>5. CASE StoreJob(h)
  <2>1. PICK j : j = req[h].job
    OBVIOUS
  <2>2. req[h].at = "store" /\ CreateJob(NoID, j)
    BY <1>5, <2>1 DEF StoreJob
  <2>3. IsJob(j) /\ j.lastExecuted = Nil
    BY <2>1, <2>2 DEF LInv, RequestsOK
  <2>4. /\ StoreGrows
        /\ \A i \in DOMAIN jobs : jobs'[i] = jobs[i]
        /\ \A i \in DOMAIN jobs' \ DOMAIN jobs : jobs'[i].lastExecuted = Nil
    BY <2>2, <2>3, CreateJobGrows DEF LInv
  <2>5. JobsOK'
    BY <2>4, TimesKept
  <2>6. PICK x : x = IF CreatedID(NoID) \in DOMAIN jobs
                       THEN IdleRequest
                       ELSE [IdleRequest EXCEPT !.at = "inc"]
    OBVIOUS
  <2>7. req' = [req EXCEPT ![h] = x] /\ x.at # "store"
    BY <1>5, <2>6 DEF StoreJob, IdleRequest
  <2>8. RequestsOK'
    BY <2>7, RequestMoves
  <2> QED
    BY <1>1, <2>4, <2>5, <2>8, Carried DEF LInv, StoreGrows
<1>6. CASE IncGauge(h) \/ DecGauge(h)
  <2>1. StoreGrows /\ JobsOK'
    BY <1>6, StoreUntouched DEF IncGauge, DecGauge
  <2>2. PICK x : x = IdleRequest
    OBVIOUS
  <2>3. req' = [req EXCEPT ![h] = x] /\ x.at = "idle"
    BY <1>6, <2>2 DEF IncGauge, DecGauge, IdleRequest
  <2>4. RequestsOK'
    BY <2>3, RequestMoves
  <2> QED
    BY <1>1, <2>1, <2>4, Carried DEF LInv, StoreGrows
<1> QED
  BY <1>2, <1>3, <1>4, <1>5, <1>6

-----------------------------------------------------------------------------

\* Every step of the service keeps the invariant.
LEMMA StepLInv == LInv /\ [Next]_vars => LInv'
<1> SUFFICES ASSUME LInv, [Next]_vars PROVE LInv'
  OBVIOUS
<1>1. CASE Interruption \/ Time \/ UNCHANGED vars
  <2>1. UNCHANGED repoVars
    BY <1>1 DEF Interruption, Time, Tick, vars
  <2>2. UNCHANGED <<snapshot, dueJobs, queue, worker, recorders, req>>
    BY <1>1 DEF Interruption, Time, vars, schedVars, execVars, optVars, handlerVars
  <2>3. StoreGrows /\ JobsOK'
    BY <2>1, StoreUntouched
  <2> QED
    BY <2>2, <2>3, Carried DEF LInv, StoreGrows
<1>2. CASE MainStep
  BY <1>2, MainKeeps
<1>3. CASE SchedulerStep
  BY <1>3, SchedulerKeeps
<1>4. CASE \E w \in Workers : WorkerStep(w)
  BY <1>4, WorkerKeeps
<1>5. CASE RecordStep
  BY <1>5, RecorderKeeps
<1>6. CASE HandlerStep
  BY <1>6, HandlerKeeps
<1> QED
  BY <1>1, <1>2, <1>3, <1>4, <1>5, <1>6 DEF Next

(***************************************************************************)
(* A job's last execution time is on record, with either executor and      *)
(* however the goroutines that execute the job interleave.                 *)
(***************************************************************************)
THEOREM LastExecutedHolds == Spec => []LastExecutedIsRecorded
<1>1. LInv => LastExecutedIsRecorded
  <2> SUFFICES ASSUME LInv, NEW id \in DOMAIN jobs, jobs[id].lastExecuted # Nil
               PROVE  \E e \in Range(jobExecMap[id]) :
                         executions[e].completedAt = jobs[id].lastExecuted
    BY DEF LastExecutedIsRecorded
  <2>1. PICK k \in DOMAIN jobExecMap[id] :
           executions[jobExecMap[id][k]].completedAt = jobs[id].lastExecuted
    BY DEF LInv, JobsOK, Completions
  <2> QED
    BY <2>1 DEF Range
<1> QED
  BY InitLInv, StepLInv, <1>1, PTL DEF Spec

-----------------------------------------------------------------------------
(* Types.                                                                  *)

IsWorker(r) == r = Worker(r.at, r.id, r.success, r.completedAt)
IsRecorder(r) == r = Recorder(r.at, r.id, r.success, r.completedAt)

\* the type of each part of the state; the ids have theirs in LInv
PlacesTyped ==
    /\ mainPC \in MainPCs /\ signalled \in BOOLEAN
    /\ schedPC \in SchedPCs /\ clock \in Instants
    /\ queueClosed \in BOOLEAN /\ execCancelled \in BOOLEAN
    /\ Len(queue) <= MaxQueueSize

WorkerTyped(r) ==
    /\ IsWorker(r) /\ r.at \in WorkerPCs \cup {"count"}
    /\ r.at \in {"record", "touch"} => r.completedAt \in Instants

RecordTyped(x) == x.executedAt \in Instants /\ x.completedAt \in Instants

RecorderTyped(r) ==
    /\ IsRecorder(r) /\ r.at \in {"start", "record", "touch"}
    /\ r.at # "start" => r.completedAt \in Instants

CountersTyped ==
    /\ executionsTotal \in [{"success", "failure"} -> Nat]
    /\ processed \in Nat /\ failed \in 0 .. processed
    /\ DOMAIN submitted \subseteq DOMAIN jobs
    /\ ~optimized => recorders = EmptyBag /\ processed = 0

TInv ==
    /\ PlacesTyped
    /\ \A w \in Workers : WorkerTyped(worker[w])
    /\ \A e \in DOMAIN executions : RecordTyped(executions[e])
    /\ IsABag(recorders) /\ \A r \in DOMAIN recorders : RecorderTyped(r)
    /\ CountersTyped

\* A new process has the types.
LEMMA InitTInv == Init => TInv
<1> SUFFICES ASSUME Init PROVE TInv
  OBVIOUS
<1> USE DEF Init
<1>1. PlacesTyped
  <2>1. clock = 1 /\ schedPC = "started" /\ queue = <<>> /\ mainPC = "startExecutor"
    BY DEF ExecutorInit, SchedulerInit, RepoInit
  <2>2. signalled \in BOOLEAN /\ queueClosed \in BOOLEAN /\ execCancelled \in BOOLEAN
    BY Zenon DEF ExecutorInit
  <2>3. clock \in Instants
    BY <2>1, MaxTimeAssumption DEF Instants
  <2>4. Len(queue) <= MaxQueueSize
    BY <2>1, MaxQueueSizeAssumption
  <2>5. mainPC \in MainPCs /\ schedPC \in SchedPCs
    BY <2>1 DEF MainPCs, SchedPCs
  <2> QED
    BY <2>2, <2>3, <2>4, <2>5 DEF PlacesTyped
<1>2. \A w \in Workers : WorkerTyped(worker[w])
  <2>1. WorkerTyped(Worker("absent", NoID, FALSE, Nil))
    BY DEF WorkerTyped, IsWorker, Worker, WorkerPCs
  <2> QED
    BY <2>1 DEF ExecutorInit
<1>3. \A e \in DOMAIN executions : RecordTyped(executions[e])
  BY DEF RepoInit
<1>4. IsABag(recorders) /\ \A r \in DOMAIN recorders : RecorderTyped(r)
  BY DEF OptimizedInit, EmptyBag, SetToBag, IsABag
<1>5. CountersTyped
  <2>1. executionsTotal \in [{"success", "failure"} -> Nat]
    BY DEF ExecutorInit
  <2> QED
    BY <2>1 DEF CountersTyped, OptimizedInit
<1> QED
  BY <1>1, <1>2, <1>3, <1>4, <1>5 DEF TInv

\* one worker goes on
LEMMA OneWorkerTyped ==
    ASSUME LInv, TInv, NEW w \in Workers, NEW x, worker' = [worker EXCEPT ![w] = x],
           WorkerTyped(x)
    PROVE  \A v \in Workers : WorkerTyped(worker'[v])
<1>1. /\ worker'[w] = x
      /\ \A v \in Workers : v # w => worker'[v] = worker[v]
  BY DEF LInv, WorkersOK
<1> QED
  BY <1>1 DEF TInv

\* adding an execution, or a job, leaves the other executions and jobs
LEMMA CreatedTypes ==
    ASSUME TInv, NEW ex, CreateExecution(NoID, ex), ex.completedAt \in Instants,
           "executedAt" \in DOMAIN ex, "completedAt" \in DOMAIN ex
    PROVE  /\ DOMAIN jobs' = DOMAIN jobs
           /\ \A e \in DOMAIN executions' : RecordTyped(executions'[e])
<1>1. PICK x : x = [ex EXCEPT !.executedAt = clock]
  OBVIOUS
<1>2. RecordTyped(x)
  BY <1>1 DEF RecordTyped, TInv, PlacesTyped
<1>3. jobs' = jobs /\ \/ executions' = executions
                      \/ executions' = With(executions, CreatedID(NoID), x)
  BY <1>1 DEF CreateExecution
<1> QED
  BY <1>2, <1>3 DEF With, TInv

\* The bag of goroutines gains one, or one of them goes on or ends.
LEMMA BagSpawned ==
    ASSUME NEW b, IsABag(b), NEW r, NEW c, c = b (+) SetToBag({r})
    PROVE  IsABag(c) /\ DOMAIN c \subseteq DOMAIN b \cup {r}
<1>1. \A e \in DOMAIN b : b[e] \in Nat /\ b[e] > 0
  BY DEF IsABag
<1> QED
  BY <1>1 DEF IsABag, (+), SetToBag

\* One goroutine gives way to others: still a bag, of what there was and they.
LEMMA BagBecame ==
    ASSUME NEW b, IsABag(b), NEW r \in DOMAIN b, NEW S,
           NEW c, c = (b (-) SetToBag({r})) (+) SetToBag(S)
    PROVE  IsABag(c) /\ DOMAIN c \subseteq DOMAIN b \cup S
<1>1. \A e \in DOMAIN b : b[e] \in Nat /\ b[e] > 0
  BY DEF IsABag
<1>2. PICK d : d = b (-) SetToBag({r})
  OBVIOUS
<1>3. IsABag(d) /\ DOMAIN d \subseteq DOMAIN b
  <2> DEFINE f == [e \in DOMAIN b |-> IF e \in {r} THEN b[e] - 1 ELSE b[e]]
  <2>1. SetToBag({r}) = [e \in {r} |-> 1]
    BY DEF SetToBag
  <2>2. d = [e \in {y \in DOMAIN f : f[y] > 0} |-> f[e]]
    BY <1>2, <2>1 DEF (-)
  <2>3. DOMAIN f = DOMAIN b /\ \A e \in DOMAIN f : f[e] \in Int
    BY <1>1
  <2> HIDE DEF f
  <2> QED
    BY <2>2, <2>3 DEF IsABag
<1>4. \A e \in DOMAIN d : d[e] \in Nat /\ d[e] > 0
  BY <1>3 DEF IsABag
<1> QED
  BY <1>2, <1>3, <1>4 DEF IsABag, (+), SetToBag

\* Main, the signal and the clock.
LEMMA MainTypes ==
    ASSUME LInv, TInv, MainStep \/ Interruption \/ Time
    PROVE  TInv'
<1>1. /\ UNCHANGED <<repoVars, optVars, submitted, optimized, schedPC>>
      /\ UNCHANGED <<queue, executionsTotal>>
  BY DEF MainStep, Interruption, Time, Tick, StartExecutor, StartScheduler, BeginShutdown,
         RequestsDrained, StopScheduler, SchedulerStopped, StopWorkers, WorkersStopped,
         StartWorkers, CancelWorkers, CloseQueue, execVars, schedVars, mainVars
<1>2. /\ mainPC' = mainPC \/ mainPC' \in MainPCs
      /\ worker' = worker \/ worker' = [w \in Workers |-> IdleWorker]
  BY DEF MainStep, Interruption, Time, StartExecutor, StartScheduler, BeginShutdown,
         RequestsDrained, StopScheduler, SchedulerStopped, StopWorkers, WorkersStopped,
         StartWorkers, CancelWorkers, CloseQueue, execVars, mainVars, MainGoes, MainPCs
<1>3. clock' \in Instants
  <2>1. clock' = clock \/ (clock < MaxTime /\ clock' = clock + 1)
    BY DEF MainStep, Interruption, Time, Tick
  <2> QED
    BY <2>1, MaxTimeAssumption DEF TInv, PlacesTyped, Instants
<1>4. signalled' \in BOOLEAN /\ queueClosed' \in BOOLEAN /\ execCancelled' \in BOOLEAN
  <2>1. \/ UNCHANGED <<signalled, queueClosed, execCancelled>>
        \/ signalled' = TRUE /\ UNCHANGED <<queueClosed, execCancelled>>
        \/ execCancelled' = TRUE /\ UNCHANGED <<signalled, queueClosed>>
        \/ queueClosed' = TRUE /\ UNCHANGED <<signalled, execCancelled>>
    BY DEF MainStep, Interruption, Time, StartExecutor, StartScheduler, BeginShutdown,
           RequestsDrained, StopScheduler, SchedulerStopped, StopWorkers, WorkersStopped,
           StartWorkers, CancelWorkers, CloseQueue, execVars, mainVars
  <2>2. signalled \in BOOLEAN /\ queueClosed \in BOOLEAN /\ execCancelled \in BOOLEAN
    BY DEF TInv, PlacesTyped
  <2> QED
    BY <2>1, <2>2, Zenon
<1>5. PlacesTyped'
  BY <1>1, <1>2, <1>3, <1>4 DEF TInv, PlacesTyped
<1>6. \A w \in Workers : WorkerTyped(worker'[w])
  <2>1. WorkerTyped(IdleWorker)
    BY DEF WorkerTyped, IsWorker, IdleWorker, Worker, WorkerPCs
  <2> QED
    BY <1>2, <2>1 DEF TInv
<1> QED
  BY <1>1, <1>5, <1>6 DEF TInv, CountersTyped, repoVars, optVars

\* The scheduler: the channel takes no more than it holds.
LEMMA SchedulerTypes ==
    ASSUME LInv, TInv, SchedulerStep
    PROVE  TInv'
<1>1. /\ UNCHANGED <<clock, mainPC, signalled, optimized>>
      /\ UNCHANGED <<queueClosed, execCancelled, worker, executionsTotal>>
      /\ UNCHANGED <<executions, processed, failed, recorders>>
  BY DEF SchedulerStep, mainVars, Submit, SweepStep, Enqueue, OfferOrDrop, execVars, optVars,
         repoVars, AdvanceNext, UpdateJobNextRun
<1>2. schedPC' \in SchedPCs
  BY DEF SchedulerStep, Submit, SweepStep, Poll, CollectDue, SubmitNext, AllSubmitted,
         SweepDone, Return, AdvanceNext, SchedPCs, TInv, PlacesTyped
<1>3. Len(queue') <= MaxQueueSize
  <2>1. \/ queue' = queue
        \/ Len(queue) < MaxQueueSize /\ queue' = Append(queue, dueJobs[cursor])
    BY DEF SchedulerStep, Submit, SweepStep, Enqueue, OfferOrDrop, execVars
  <2>2. queue \in Seq(DOMAIN jobs)
    BY DEF LInv, QueueOK
  <2>3. CASE queue' = queue
    BY <2>3 DEF TInv, PlacesTyped
  <2>4. CASE Len(queue) < MaxQueueSize /\ queue' = Append(queue, dueJobs[cursor])
    <3>1. PICK y : y = dueJobs[cursor]
      OBVIOUS
    <3>2. Len(queue') = Len(queue) + 1 /\ Len(queue) \in Nat
      <4>1. queue \in Seq(DOMAIN jobs \cup {y})
        BY <2>2, SeqMonotonic
      <4> QED
        BY <2>4, <3>1, <4>1, AppendProperties, LenProperties
    <3> QED
      BY <2>4, <3>2, MaxQueueSizeAssumption
  <2> QED
    BY <2>1, <2>3, <2>4
<1>4. DOMAIN submitted' \subseteq DOMAIN jobs'
  <2>1. CASE Submit
    <3>1. PICK y : y = dueJobs[cursor] /\ y \in DOMAIN jobs
      BY <2>1 DEF Submit, SubmitNext, LInv, SweepOK
    <3>2. DOMAIN submitted' = DOMAIN submitted \cup {y} /\ jobs' = jobs
      BY <2>1, <3>1 DEF Submit, With, repoVars
    <3> QED
      BY <3>1, <3>2 DEF TInv, CountersTyped
  <2>2. CASE SweepStep
    <3>1. DOMAIN jobs' = DOMAIN jobs /\ submitted' = submitted
      BY <2>2 DEF SweepStep, repoVars, AdvanceNext, UpdateJobNextRun
    <3> QED
      BY <3>1 DEF TInv, CountersTyped
  <2> QED
    BY <2>1, <2>2 DEF SchedulerStep
<1>5. PlacesTyped'
  BY <1>1, <1>2, <1>3 DEF TInv, PlacesTyped
<1> QED
  BY <1>1, <1>4, <1>5 DEF TInv, CountersTyped

\* Requests store jobs, or mark them deleted.
LEMMA HandlerTypes ==
    ASSUME LInv, TInv, HandlerStep
    PROVE  TInv'
<1>1. UNCHANGED <<clock, schedVars, execVars, optVars, mainVars, submitted>>
  BY DEF HandlerStep
<1>2. executions' = executions /\ DOMAIN jobs \subseteq DOMAIN jobs'
  BY ZenonT(30) DEF HandlerStep, ReceiveCreate, Delete, DeleteJob, StoreJob, CreateJob, IncGauge,
         DecGauge, repoVars, With
<1>3. PlacesTyped'
  BY <1>1 DEF TInv, PlacesTyped, schedVars, execVars, mainVars
<1>4. CountersTyped'
  BY <1>1, <1>2 DEF TInv, CountersTyped, execVars, optVars, mainVars
<1> QED
  BY <1>1, <1>2, <1>3, <1>4 DEF TInv, execVars, optVars

\* The steps of a worker that touch no record and start no goroutine.
LEMMA WorkerTypes ==
    ASSUME LInv, TInv, NEW w \in Workers, WorkerStep(w)
    PROVE  TInv'
<1>1. UNCHANGED <<clock, mainPC, signalled, optimized, schedPC, submitted>>
  BY DEF WorkerStep, mainVars, schedVars
<1>2. /\ UNCHANGED <<queueClosed, execCancelled>>
      /\ queue' = queue \/ (queue # <<>> /\ queue' = Tail(queue))
  <2>1. CASE Take(w)
    BY <2>1 DEF Take
  <2>2. CASE Exit(w, signalled)
    BY <2>2 DEF Exit
  <2>3. CASE StandardStep(w)
    BY <2>3 DEF StandardStep, Respond, NoResponse, RecordExecution, TouchJob
  <2>4. CASE OptimizedStep(w)
    BY <2>4 DEF OptimizedStep, HandOver, CountProcessed, HandOverFailure
  <2> QED
    BY <2>1, <2>2, <2>3, <2>4 DEF WorkerStep
<1>3. Len(queue') <= MaxQueueSize
  <2>1. queue \in Seq(DOMAIN jobs) /\ Len(queue) <= MaxQueueSize
    BY DEF LInv, QueueOK, TInv, PlacesTyped
  <2>2. queue # <<>> => Len(Tail(queue)) = Len(queue) - 1 /\ Len(queue) \in Nat
    BY <2>1, HeadTailProperties, LenProperties
  <2> QED
    BY <1>2, <2>1, <2>2, MaxQueueSizeAssumption
<1>4. PlacesTyped'
  BY <1>1, <1>2, <1>3 DEF TInv, PlacesTyped
<1>5. /\ clock \in Instants /\ WorkerTyped(worker[w]) /\ WorkerTyped(IdleWorker)
      /\ WorkerTyped(ExitedWorker)
  BY DEF TInv, PlacesTyped, WorkerTyped, IsWorker, IdleWorker, ExitedWorker, Worker, WorkerPCs
<1>6. \A id, ok, t : /\ WorkerTyped(Worker("request", id, ok, t))
                     /\ WorkerTyped(Worker("count", id, ok, t))
                     /\ t \in Instants => WorkerTyped(Worker("record", id, ok, t))
                     /\ t \in Instants => WorkerTyped(Worker("touch", id, ok, t))
  BY DEF WorkerTyped, IsWorker, Worker, WorkerPCs
<1>7. DOMAIN worker = Workers
  BY DEF LInv, WorkersOK
<1>8. PICK x : worker' = [worker EXCEPT ![w] = x] /\ WorkerTyped(x)
  <2>1. CASE Take(w) \/ Exit(w, signalled)
    <3>1. PICK x : /\ x = Worker("request", Head(queue), FALSE, Nil) \/ x = ExitedWorker
                   /\ worker' = [worker EXCEPT ![w] = x]
      BY <2>1 DEF Take, Exit
    <3> QED
      BY <1>5, <1>6, <3>1
  <2>2. CASE StandardStep(w)
    <3>1. CASE (\E ok \in BOOLEAN : Respond(w, ok)) \/ NoResponse(w)
      <4>1. PICK x, ok : /\ x = Worker("record", worker[w].id, ok, clock)
                         /\ worker' = [worker EXCEPT ![w] = x]
        BY <1>7, <3>1 DEF Respond, NoResponse
      <4> QED
        BY <1>5, <1>6, <4>1
    <3>2. CASE RecordExecution(w)
      <4>1. PICK y : y = [worker[w] EXCEPT !.at = "touch"]
        OBVIOUS
      <4>2. PICK x : (x = y \/ x = IdleWorker) /\ worker' = [worker EXCEPT ![w] = x]
        BY <1>7, <3>2, <4>1 DEF RecordExecution
      <4>3. worker[w].at = "record"
        BY <3>2 DEF RecordExecution
      <4>4. WorkerTyped(y)
        <5>1. PICK id, ok, t : worker[w] = Worker("record", id, ok, t) /\ t \in Instants
          BY <1>5, <4>3 DEF WorkerTyped, IsWorker
        <5>2. y = Worker("touch", id, ok, t)
          BY <4>1, <5>1 DEF Worker
        <5> QED
          BY <1>6, <5>1, <5>2
      <4> QED
        BY <1>5, <4>2, <4>4
    <3>3. CASE TouchJob(w)
      BY <1>5, <3>3 DEF TouchJob
    <3> QED
      BY <2>2, <3>1, <3>2, <3>3 DEF StandardStep
  <2>3. CASE OptimizedStep(w)
    <3>1. PICK x : /\ x = IdleWorker \/ \E ok : x = Worker("count", worker[w].id, ok, Nil)
                   /\ worker' = [worker EXCEPT ![w] = x]
      BY <1>7, <2>3 DEF OptimizedStep, HandOver, CountProcessed, HandOverFailure
    <3> QED
      BY <1>5, <1>6, <3>1
  <2> QED
    BY <2>1, <2>2, <2>3 DEF WorkerStep
<1>9. \A v \in Workers : WorkerTyped(worker'[v])
  BY <1>8, OneWorkerTyped
<1>10. DOMAIN jobs' = DOMAIN jobs /\ \A e \in DOMAIN executions' : RecordTyped(executions'[e])
  <2>1. CASE UNCHANGED repoVars
    BY <2>1 DEF repoVars, TInv
  <2>2. CASE RecordExecution(w)
    <3>1. /\ CreateExecution(NoID, Outcome(w)) /\ worker[w].at = "record"
          /\ Outcome(w).completedAt = worker[w].completedAt
          /\ "executedAt" \in DOMAIN Outcome(w) /\ "completedAt" \in DOMAIN Outcome(w)
      BY <2>2 DEF RecordExecution, Outcome
    <3>2. Outcome(w).completedAt \in Instants
      BY <1>5, <3>1 DEF WorkerTyped
    <3> QED
      BY <3>1, <3>2, CreatedTypes
  <2>3. CASE TouchJob(w)
    BY <2>3 DEF TouchJob, UpdateJobLastExecuted, TInv
  <2> QED
    BY <2>1, <2>2, <2>3
       DEF WorkerStep, Take, Exit, StandardStep, OptimizedStep, Respond, NoResponse,
           HandOver, CountProcessed, HandOverFailure
<1>11. IsABag(recorders') /\ \A r \in DOMAIN recorders' : RecorderTyped(r)
  <2>1. CASE recorders' = recorders
    BY <2>1 DEF TInv
  <2>2. CASE \E ok : Spawn(worker[w].id, ok)
    <3>1. PICK r, ok : r = Recorder("start", worker[w].id, ok, Nil)
                       /\ recorders' = recorders (+) SetToBag({r})
      BY <2>2 DEF Spawn
    <3>2. RecorderTyped(r)
      BY <3>1 DEF RecorderTyped, IsRecorder, Recorder
    <3>3. IsABag(recorders') /\ DOMAIN recorders' \subseteq DOMAIN recorders \cup {r}
      BY <3>1, BagSpawned DEF TInv
    <3> QED
      BY <3>2, <3>3 DEF TInv
  <2> QED
    BY <2>1, <2>2
       DEF WorkerStep, StandardStep, OptimizedStep, HandOver, CountProcessed, HandOverFailure, optVars
<1>12. CountersTyped'
  <2>1. executionsTotal' \in [{"success", "failure"} -> Nat]
    <3>1. executionsTotal \in [{"success", "failure"} -> Nat]
      BY DEF TInv, CountersTyped
    <3>2. \/ executionsTotal' = executionsTotal
          \/ executionsTotal' = [executionsTotal EXCEPT !.success = @ + 1]
          \/ executionsTotal' = [executionsTotal EXCEPT !.failure = @ + 1]
      BY DEF WorkerStep, Take, Exit, StandardStep, OptimizedStep, Respond, NoResponse,
             RecordExecution, TouchJob, HandOver, CountProcessed, HandOverFailure
    <3> QED
      BY <3>1, <3>2
  <2>2. processed' \in Nat /\ failed' \in 0 .. processed'
    <3>1. processed \in Nat /\ failed \in 0 .. processed
      BY DEF TInv, CountersTyped
    <3>2. \/ UNCHANGED <<processed, failed>>
          \/ processed' = processed + 1 /\ (failed' = failed \/ failed' = failed + 1)
      BY DEF WorkerStep, StandardStep, OptimizedStep, HandOver, CountProcessed,
             HandOverFailure, optVars
    <3> QED
      BY <3>1, <3>2
  <2>3. ~optimized' => recorders' = EmptyBag /\ processed' = 0
    BY <1>1 DEF TInv, CountersTyped, WorkerStep, StandardStep, OptimizedStep, optVars
  <2>4. DOMAIN submitted' \subseteq DOMAIN jobs'
    BY <1>1, <1>10 DEF TInv, CountersTyped
  <2> QED
    BY <2>1, <2>2, <2>3, <2>4 DEF CountersTyped
<1> QED
  BY <1>4, <1>9, <1>10, <1>11, <1>12 DEF TInv

\* A goroutine that records goes on; there is one with the optimized executor only.
LEMMA RecorderTypes ==
    ASSUME LInv, TInv, RecordStep
    PROVE  TInv'
<1>1. PICK r \in BagToSet(recorders) : RecorderStep(r)
  BY DEF RecordStep
<1>2. r \in DOMAIN recorders /\ RecorderTyped(r) /\ optimized /\ clock \in Instants
  BY <1>1 DEF BagToSet, TInv, CountersTyped, EmptyBag, SetToBag, PlacesTyped
<1>3. /\ UNCHANGED <<clock, mainPC, signalled, optimized, schedPC, submitted>>
      /\ UNCHANGED <<queue, queueClosed, execCancelled, worker, executionsTotal>>
      /\ UNCHANGED <<processed, failed>>
  BY <1>1 DEF RecordStep, RecorderStep, StampRecord, StoreRecord, TouchRecord, mainVars,
              schedVars, execVars
<1>4. PICK id, ok, t : r = Recorder(r.at, id, ok, t) /\ r.id = id /\ r.success = ok /\ r.completedAt = t
                       /\ (r.at # "start" => t \in Instants)
  BY <1>2 DEF RecorderTyped, IsRecorder
<1>5. \A i, o, c : /\ c \in Instants => RecorderTyped(Recorder("record", i, o, c))
                   /\ c \in Instants => RecorderTyped(Recorder("touch", i, o, c))
  BY DEF RecorderTyped, IsRecorder, Recorder
<1>6. PICK S : Becomes(r, S) /\ \A s \in S : RecorderTyped(s)
  <2>1. CASE StampRecord(r)
    <3>1. Becomes(r, {Recorder("record", r.id, r.success, clock)})
      BY <2>1 DEF StampRecord
    <3> QED
      BY <1>2, <1>5, <3>1
  <2>2. CASE StoreRecord(r)
    <3>1. Becomes(r, {[r EXCEPT !.at = "touch"]}) /\ r.at = "record"
      BY <2>2 DEF StoreRecord
    <3>2. [r EXCEPT !.at = "touch"] = Recorder("touch", id, ok, t)
      BY <1>4 DEF Recorder
    <3> QED
      BY <1>4, <1>5, <3>1, <3>2
  <2>3. CASE TouchRecord(r)
    BY <2>3 DEF TouchRecord
  <2> QED
    BY <1>1, <2>1, <2>2, <2>3 DEF RecorderStep
<1>7. IsABag(recorders') /\ \A s \in DOMAIN recorders' : RecorderTyped(s)
  <2>1. recorders' = (recorders (-) SetToBag({r})) (+) SetToBag(S)
    BY <1>6 DEF Becomes
  <2>2. IsABag(recorders') /\ DOMAIN recorders' \subseteq DOMAIN recorders \cup S
    BY <1>2, <2>1, BagBecame DEF TInv
  <2> QED
    BY <1>6, <2>2 DEF TInv
<1>8. DOMAIN jobs' = DOMAIN jobs /\ \A e \in DOMAIN executions' : RecordTyped(executions'[e])
  <2>1. CASE StampRecord(r)
    BY <2>1 DEF StampRecord, repoVars, TInv
  <2>2. CASE StoreRecord(r)
    <3>1. PICK ex : /\ ex = [jobID |-> r.id, executedAt |-> clock,
                             completedAt |-> r.completedAt, success |-> r.success]
                    /\ CreateExecution(NoID, ex)
      BY <2>2 DEF StoreRecord
    <3>2. /\ ex.completedAt \in Instants
          /\ "executedAt" \in DOMAIN ex /\ "completedAt" \in DOMAIN ex
      BY <1>4, <2>2, <3>1 DEF StoreRecord
    <3> QED
      BY <3>1, <3>2, CreatedTypes
  <2>3. CASE TouchRecord(r)
    BY <2>3 DEF TouchRecord, UpdateJobLastExecuted, TInv
  <2> QED
    BY <1>1, <2>1, <2>2, <2>3 DEF RecorderStep
<1>9. PlacesTyped'
  BY <1>3 DEF TInv, PlacesTyped
<1>10. CountersTyped'
  BY <1>2, <1>3, <1>8 DEF TInv, CountersTyped
<1> QED
  BY <1>3, <1>7, <1>8, <1>9, <1>10 DEF TInv

\* Every step keeps the types.
LEMMA StepTInv == LInv /\ TInv /\ [Next]_vars => TInv'
<1> SUFFICES ASSUME LInv, TInv, [Next]_vars PROVE TInv'
  OBVIOUS
<1>1. CASE MainStep \/ Interruption \/ Time
  BY <1>1, MainTypes
<1>2. CASE SchedulerStep
  BY <1>2, SchedulerTypes
<1>3. CASE \E w \in Workers : WorkerStep(w)
  BY <1>3, WorkerTypes
<1>4. CASE RecordStep
  BY <1>4, RecorderTypes
<1>5. CASE HandlerStep
  BY <1>5, HandlerTypes
<1>6. CASE UNCHANGED vars
  BY <1>6 DEF vars, TInv, PlacesTyped, CountersTyped, repoVars, schedVars, execVars, optVars, mainVars
<1> QED
  BY <1>1, <1>2, <1>3, <1>4, <1>5, <1>6 DEF Next

(***************************************************************************)
(* The service is type correct, with either executor: the channel never    *)
(* holds more than its capacity, every id in the pipeline is a job's, and  *)
(* every completion time that is used was read from the clock before.      *)
(***************************************************************************)
THEOREM ServiceTypeCorrect == Spec => []TypeOK
<1>1. Init => LInv /\ TInv
  BY InitLInv, InitTInv
<1>2. (LInv /\ TInv) /\ [Next]_vars => (LInv /\ TInv)'
  BY StepLInv, StepTInv
<1>3. LInv /\ TInv => TypeOK
  <2> SUFFICES ASSUME LInv, TInv PROVE TypeOK
    OBVIOUS
  <2>1. \A r \in BagToSet(recorders) :
          /\ r.at \in {"start", "record", "touch"} /\ r.id \in DOMAIN jobs
          /\ r.at # "start" => r.completedAt \in Instants
    BY DEF BagToSet, LInv, RecordersOK, TInv, RecorderTyped
  <2>2. \A w \in Workers :
          /\ worker[w].at \in WorkerPCs \cup {"count"}
          /\ worker[w].at \in {"request", "record", "touch"} => worker[w].id \in DOMAIN jobs
          /\ worker[w].at \in {"record", "touch"} => worker[w].completedAt \in Instants
    BY DEF LInv, WorkersOK, TInv, WorkerTyped
  <2>3. \A l \in {"success", "failure"} : executionsTotal[l] \in Nat
    BY DEF TInv, CountersTyped
  <2> QED
    BY <2>1, <2>2, <2>3 DEF TypeOK, TInv, PlacesTyped, CountersTyped, RecordTyped, LInv, QueueOK
<1> QED
  BY <1>1, <1>2, <1>3, PTL DEF Spec
=============================================================================
