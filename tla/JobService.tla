----------------------------- MODULE JobService -----------------------------
(***************************************************************************)
(* The whole service: run in main.go starts the worker pool of one of the  *)
(* two executors, the scheduler and the HTTP server, waits for a signal or *)
(* for the server to fail, and unwinds: server.Shutdown, then the deferred *)
(* Scheduler.Stop and the executor's Stop.                                 *)
(*                                                                         *)
(* A signal cancels the context that the scheduler and the workers derive  *)
(* theirs from, so both see it before main.go gets to their Stop.          *)
(***************************************************************************)
EXTENDS Scheduler, Handler, OptimizedExecutor

CONSTANT Modes   \* the values of -optimized to start the service with

ASSUME ModesAssumption == Modes \subseteq BOOLEAN

VARIABLES
    optimized,    \* cfg.Optimized: the executor is OptimizedJobExecutor
    mainPC,       \* where run is
    signalled,    \* ctx, the context of signal.NotifyContext, is cancelled
    submitted     \* history: submitted[id] counts the sends of job id

mainVars == <<mainPC, signalled, optimized>>

vars == <<repoVars, clock, schedVars, handlerVars, execVars, optVars, mainVars, submitted>>

MainPCs == {"startExecutor", "startScheduler", "serving", "drainRequests",
            "stopScheduler", "awaitScheduler", "cancelWorkers", "closeQueue",
            "awaitWorkers", "exited"}

\* mutant: Scheduler.Stop does not cancel
NeverCancelled == FALSE

\* the deferred calls run: Scheduler.Stop has cancelled the scheduler's context
SchedulerCancelled ==
    mainPC \in {"awaitScheduler", "cancelWorkers", "closeQueue", "awaitWorkers"}

-----------------------------------------------------------------------------

Init ==
    /\ RepoInit
    /\ SchedulerInit
    /\ HandlerInit
    /\ ExecutorInit
    /\ OptimizedInit
    /\ optimized \in Modes
    /\ mainPC = "startExecutor"
    /\ signalled = FALSE
    /\ submitted = [i \in {} |-> 0]

MainGoes(from, to) == mainPC = from /\ mainPC' = to

\* the process ends with run, whatever its goroutines are doing
Running == mainPC # "exited"

StartExecutor ==
    /\ MainGoes("startExecutor", "startScheduler")
    /\ StartWorkers

StartScheduler ==
    /\ MainGoes("startScheduler", "serving")
    /\ UNCHANGED execVars

BeginShutdown ==
    /\ MainGoes("serving", "drainRequests")
    /\ signalled
    /\ UNCHANGED execVars

\* server.Shutdown returns: the requests are done, or the timeout has passed
RequestsDrained ==
    /\ MainGoes("drainRequests", "stopScheduler")
    /\ UNCHANGED execVars

StopScheduler ==
    /\ MainGoes("stopScheduler", "awaitScheduler")
    /\ UNCHANGED execVars

\* mutant: Scheduler.Stop does not wait for its goroutine
SchedulerLeft ==
    /\ MainGoes("awaitScheduler", "cancelWorkers")
    /\ UNCHANGED execVars

SchedulerStopped ==
    /\ MainGoes("awaitScheduler", "cancelWorkers")
    /\ schedPC = "returned"
    /\ UNCHANGED execVars

StopWorkers ==
    \/ MainGoes("cancelWorkers", "closeQueue") /\ CancelWorkers
    \/ MainGoes("closeQueue", "awaitWorkers") /\ CloseQueue

WorkersStopped ==
    /\ MainGoes("awaitWorkers", "exited")
    /\ WorkersDone
    /\ UNCHANGED execVars

MainStep ==
    /\ \/ StartExecutor \/ StartScheduler \/ BeginShutdown \/ RequestsDrained
       \/ StopScheduler \/ SchedulerStopped \/ StopWorkers \/ WorkersStopped
    /\ UNCHANGED <<repoVars, clock, schedVars, handlerVars, optVars>>
    /\ UNCHANGED <<signalled, optimized, submitted>>

\* a signal may come at any time, the server may fail while it serves
Interruption ==
    /\ Running
    /\ \/ ~signalled /\ signalled' = TRUE /\ UNCHANGED mainPC
       \/ MainGoes("serving", "stopScheduler") /\ UNCHANGED signalled
    /\ UNCHANGED <<repoVars, clock, schedVars, handlerVars, execVars, optVars>>
    /\ UNCHANGED <<optimized, submitted>>

-----------------------------------------------------------------------------

Count(id) == CountIn(submitted, id)

Submit ==
    /\ SubmitNext
    /\ IF optimized THEN OfferOrDrop(dueJobs[cursor])
                    ELSE Enqueue(dueJobs[cursor]) /\ UNCHANGED optVars
    /\ submitted' = With(submitted, dueJobs[cursor], Count(dueJobs[cursor]) + 1)
    /\ UNCHANGED repoVars

SweepStep ==
    /\ \/ (Poll \/ CollectDue \/ AllSubmitted \/ SweepDone) /\ UNCHANGED repoVars
       \/ Return(signalled \/ SchedulerCancelled) /\ UNCHANGED repoVars
       \/ AdvanceNext
    /\ UNCHANGED <<execVars, optVars, submitted>>

SchedulerStep ==
    /\ Running /\ mainPC \notin {"startExecutor", "startScheduler"}
    /\ Submit \/ SweepStep
    /\ UNCHANGED <<clock, handlerVars, mainVars>>

\* executeJob of the executor that was started
StandardStep(w) ==
    /\ ~optimized
    /\ \/ \E success \in BOOLEAN : Respond(w, success)
       \/ NoResponse(w)
       \/ RecordExecution(w)
       \/ TouchJob(w)
    /\ UNCHANGED optVars

OptimizedStep(w) ==
    /\ optimized
    /\ \/ \E success \in BOOLEAN : HandOver(w, success)
       \/ CountProcessed(w)
       \/ HandOverFailure(w)

WorkerStep(w) ==
    /\ Running
    /\ \/ (Take(w) \/ Exit(w, signalled)) /\ UNCHANGED optVars
       \/ StandardStep(w)
       \/ OptimizedStep(w)
    /\ UNCHANGED <<clock, schedVars, handlerVars, mainVars, submitted>>

RecordStep ==
    /\ Running
    /\ \E r \in BagToSet(recorders) : RecorderStep(r)
    /\ UNCHANGED <<clock, schedVars, handlerVars, mainVars, submitted>>

(***************************************************************************)
(* POST and DELETE requests.  (A PUT changes when a job is submitted, not  *)
(* what happens to it then: module JobScheduling has it.)  Requests arrive *)
(* while the server serves; those begun then run on.                       *)
(***************************************************************************)
HandlerStep ==
    /\ Running
    /\ \E h \in Handlers :
          \/ /\ mainPC = "serving"
             /\ \E e \in Expressions, t \in JobTypes : ReceiveCreate(h, e, t)
          \/ mainPC = "serving" /\ \E id \in DOMAIN jobs : Delete(h, id)
          \/ StoreJob(h)
          \/ IncGauge(h)
          \/ DecGauge(h)
    /\ UNCHANGED <<clock, schedVars, execVars, optVars, mainVars, submitted>>

Time ==
    /\ Running
    /\ Tick(MaxTime)
    /\ UNCHANGED <<schedVars, handlerVars, execVars, optVars, mainVars, submitted>>

Next ==
    \/ MainStep
    \/ Interruption
    \/ SchedulerStep
    \/ \E w \in Workers : WorkerStep(w)
    \/ RecordStep
    \/ HandlerStep
    \/ Time

Spec == Init /\ [][Next]_vars

(***************************************************************************)
(* Goroutines that can run do run: main, the scheduler, whose timer keeps  *)
(* firing, and each worker, whose request ends by RequestTimeout.  The     *)
(* scheduler's select is fair to a cancelled context: Go picks among ready *)
(* cases at random.  Requests, signals and failures need not come.         *)
(***************************************************************************)
Fairness ==
    /\ WF_vars(MainStep)
    /\ WF_vars(SchedulerStep)
    /\ SF_vars(SchedulerStep /\ Return(signalled \/ SchedulerCancelled))
    /\ \A w \in Workers :
          /\ WF_vars(WorkerStep(w))
          /\ SF_vars(WorkerStep(w) /\ Exit(w, signalled))
    /\ WF_vars(RecordStep)

FairSpec == Spec /\ Fairness

-----------------------------------------------------------------------------

Instants == 1 .. MaxTime

(***************************************************************************)
(* Type correctness.                                                       *)
(***************************************************************************)
TypeOK ==
    /\ mainPC \in MainPCs /\ signalled \in BOOLEAN
    /\ schedPC \in SchedPCs
    /\ queue \in Seq(DOMAIN jobs) /\ Len(queue) <= MaxQueueSize
    /\ queueClosed \in BOOLEAN /\ execCancelled \in BOOLEAN
    /\ \A w \in Workers :
          /\ worker[w].at \in WorkerPCs \cup {"count"}
          /\ worker[w].at \in {"request", "record", "touch"} => worker[w].id \in DOMAIN jobs
          /\ worker[w].at \in {"record", "touch"} => worker[w].completedAt \in Instants
    /\ \A e \in DOMAIN executions :
          executions[e].executedAt \in Instants /\ executions[e].completedAt \in Instants
    /\ DOMAIN submitted \subseteq DOMAIN jobs
    /\ \A l \in {"success", "failure"} : executionsTotal[l] \in Nat
    /\ IsABag(recorders) /\ \A r \in BagToSet(recorders) :
          /\ r.at \in {"start", "record", "touch"} /\ r.id \in DOMAIN jobs
          /\ r.at # "start" => r.completedAt \in Instants
    /\ failed \in 0 .. processed
    /\ ~optimized => recorders = EmptyBag /\ processed = 0

-----------------------------------------------------------------------------
(* What becomes of a submitted job.                                        *)

Queued(id) == Cardinality({k \in DOMAIN queue : queue[k] = id})

Executing(id) == Cardinality({w \in Workers : /\ worker[w].id = id
                                              /\ worker[w].at \in {"request", "record"}})

Recorded(id) == Len(jobExecMap[id])

\* the goroutines in a bag, numbered where several are at the same point
Goroutines(b) == UNION {{r} \X (1 .. b[r]) : r \in DOMAIN b}

\* the recordExecution goroutines under way at one of the given points
Recording(ats, ids, outcomes) ==
    Cardinality({g \in Goroutines(recorders) :
                    g[1].at \in ats /\ g[1].id \in ids /\ g[1].success \in outcomes})

Unrecorded(id) == Recording({"start", "record"}, {id}, BOOLEAN)

(***************************************************************************)
(* Every submission is in exactly one place: waiting in the channel, with  *)
(* a worker, with a goroutine that is to record it, recorded as one        *)
(* execution of its job, or dropped.  So none is executed twice, none is   *)
(* recorded under another job, and none vanishes but those the optimized   *)
(* Submit drops, whatever the answers are and whenever the service is told *)
(* to stop (executor.go, executor_optimized.go).                           *)
(***************************************************************************)
SubmissionsConserved ==
    \A id \in DOMAIN jobs :
        Count(id) = Queued(id) + Executing(id) + Unrecorded(id) + Recorded(id)
                        + CountIn(dropped, id)

(***************************************************************************)
(* Nothing is sent on the closed channel, which would panic: when Stop     *)
(* closes it no goroutine is left that could submit (main.go defers the    *)
(* two Stops in that order).                                               *)
(***************************************************************************)
NoSendAfterClose ==
    queueClosed => schedPC \notin {"started", "collect", "submit"}

(***************************************************************************)
(* A job's last execution time is the completion time of one of its        *)
(* recorded executions: the record is written first (executor.go).         *)
(***************************************************************************)
LastExecutedIsRecorded ==
    \A id \in DOMAIN jobs : jobs[id].lastExecuted # Nil =>
        \E e \in Range(jobExecMap[id]) : executions[e].completedAt = jobs[id].lastExecuted

(***************************************************************************)
(* When run returns, no execution is half recorded: whatever was submitted *)
(* and is not still in the channel has its record, and the job knows when  *)
(* it was last executed (JobExecutor.Stop waits for the workers).  Stop of *)
(* the optimized executor does not wait for the goroutines that record,    *)
(* and what they have not written is lost with the process.                *)
(***************************************************************************)
ExitLeavesNoHalfRecord ==
    mainPC = "exited" /\ ~optimized =>
        \A id \in DOMAIN jobs :
            /\ Count(id) = Queued(id) + Recorded(id)
            /\ Recorded(id) > 0 => jobs[id].lastExecuted # Nil

OnTheWay(ok) == Cardinality({w \in Workers : worker[w].at = "record" /\ worker[w].success = ok})
RecordsWith(ok) == Cardinality({e \in DOMAIN executions : executions[e].success = ok})

(***************************************************************************)
(* The metrics never count an execution that is not on its way to a        *)
(* record, and count each success: the counter is raised before the record *)
(* is written.                                                             *)
(***************************************************************************)
MetricsBoundRecords ==
    ~optimized =>
        /\ executionsTotal.success = RecordsWith(TRUE) + OnTheWay(TRUE)
        /\ executionsTotal.failure <= RecordsWith(FALSE) + OnTheWay(FALSE)

(***************************************************************************)
(* The optimized executor counts an answer and records it in goroutines    *)
(* that do not wait for each other, yet none is lost between them: the     *)
(* successes recorded or about to be are those counted or about to be.     *)
(* Failures recorded may be more, because requests without an answer are   *)
(* not counted.                                                            *)
(***************************************************************************)
CountersMatchRecords ==
    optimized =>
        LET Begun(ok) == RecordsWith(ok) + Recording({"start", "record"}, DOMAIN jobs, {ok})
            Uncounted(ok) == Cardinality({w \in Workers : worker[w].at = "count"
                                                            /\ worker[w].success = ok})
        IN  /\ GetMetrics.processed - GetMetrics.failed + Uncounted(TRUE) = Begun(TRUE)
            /\ GetMetrics.failed + Uncounted(FALSE) <= Begun(FALSE)

-----------------------------------------------------------------------------
(* What the executors implement.                                           *)

\* Stop has closed the channel, run has returned
Phase == IF mainPC = "exited" THEN "gone" ELSE IF queueClosed THEN "closed" ELSE "open"

Underway(id) == Executing(id) + Unrecorded(id)

History(id) == [k \in DOMAIN jobExecMap[id] |-> executions[jobExecMap[id][k]]]

Accounts ==
    [id \in DOMAIN jobs |->
        [asked |-> Count(id), running |-> Underway(id),
         history |-> History(id), last |-> jobs[id].lastExecuted]]

Promise == INSTANCE JobExecution
    WITH Capacity <- MaxQueueSize, time <- clock, patient <- ~optimized, phase <- Phase,
         line <- queue, account <- Accounts

(***************************************************************************)
(* Either executor, under the scheduler, the handlers and main, implements *)
(* JobExecution: submissions are begun in the order they came, each one    *)
(* begun becomes one record of its own job, stamped when it is written, a  *)
(* job's last execution time only ever becomes that of a record made       *)
(* before, and a submission is dropped only by the optimized Submit, and   *)
(* only when the channel is full (executor.go, executor_optimized.go).     *)
(***************************************************************************)
ExecutorsKeepPromise == Promise!Spec

-----------------------------------------------------------------------------
(* Progress.                                                               *)

Stopping == signalled \/ mainPC \notin {"startExecutor", "startScheduler", "serving"}

Outstanding(id) ==
    IF id \in DOMAIN jobs THEN Count(id) > Recorded(id) + CountIn(dropped, id) ELSE FALSE

(***************************************************************************)
(* Until the service stops, every submission that is not dropped is        *)
(* executed and recorded.                                                  *)
(***************************************************************************)
SubmissionsRecorded ==
    \A id \in 1 .. MaxRequests :
        Outstanding(id) ~> Stopping \/ ~Outstanding(id)

(***************************************************************************)
(* Until the service stops, a sweep never stays blocked on the full        *)
(* channel: the scheduler always gets back to its timer.                   *)
(***************************************************************************)
SweepsEnd == (schedPC # "waiting") ~> (Stopping \/ schedPC = "waiting")

(***************************************************************************)
(* The service that is told to stop does exit, unless it is a signal that  *)
(* stops the standard executor.  After a failure of the server the workers *)
(* run until the scheduler has returned, so a submission that is blocked   *)
(* goes through (main.go: no context is cancelled but by Stop); and the    *)
(* optimized Submit never waits for workers a signal has sent away.        *)
(***************************************************************************)
StopTerminates == Stopping ~> (mainPC = "exited" \/ (signalled /\ ~optimized))

-----------------------------------------------------------------------------
(* What the repository's documents promise and this code does not keep.    *)

(***************************************************************************)
(* README, "Graceful Shutdown: Clean service termination": after a signal  *)
(* the service terminates.  (executor.go says that a Submit blocks until   *)
(* "the context is canceled"; it does not look at any context, and the     *)
(* signal sends away the workers that would make room for it.)             *)
(***************************************************************************)
SignalTerminates == signalled ~> (mainPC = "exited")

(***************************************************************************)
(* models/job.go, ATLEAST_ONCE: "Retry on failure".  With nothing queued   *)
(* or running, a job with a failed execution has been attempted more often *)
(* than the scheduler submitted it.                                        *)
(***************************************************************************)
FailureIsRetried ==
    (queue = <<>> /\ \A w \in Workers : worker[w].at = "select") =>
        \A id \in DOMAIN jobs :
            /\ jobs[id].type = "ATLEAST_ONCE"
            /\ \E e \in Range(jobExecMap[id]) : ~executions[e].success
            => Recorded(id) > Count(id)

=============================================================================
