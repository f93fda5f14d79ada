------------------------------ MODULE Executor ------------------------------
(***************************************************************************)
(* JobExecutor of package executor: a buffered channel and a pool of       *)
(* worker goroutines.  Submit blocks while the channel is full.  A worker  *)
(* posts the webhook once, records the outcome, and then notes in the job  *)
(* when it was executed: two repository calls.                             *)
(*                                                                         *)
(* A queued job is its id; the webhook's URL, answer and duration are left *)
(* out except for success or failure.                                      *)
(***************************************************************************)
EXTENDS Repository

CONSTANTS
    Workers,        \* config.WorkerCount goroutines
    MaxQueueSize    \* config.MaxQueueSize, the capacity of the channel

ASSUME MaxQueueSizeAssumption == MaxQueueSize \in Nat \ {0}

VARIABLES
    queue,            \* the channel's buffer
    queueClosed,      \* close(e.queue) has run
    execCancelled,    \* e.cancel() has run
    worker,           \* worker[w]: where goroutine w is, and its locals
    executionsTotal   \* metrics.JobExecutionsTotal, by its label

execVars == <<queue, queueClosed, execCancelled, worker, executionsTotal>>

WorkerPCs == {"absent", "select", "request", "record", "touch", "exited"}

Worker(at, id, success, completedAt) ==
    [at |-> at, id |-> id, success |-> success, completedAt |-> completedAt]

IdleWorker == Worker("select", NoID, FALSE, Nil)
ExitedWorker == Worker("exited", NoID, FALSE, Nil)

ExecutorInit ==
    /\ queue = <<>>
    /\ queueClosed = FALSE
    /\ execCancelled = FALSE
    /\ worker = [w \in Workers |-> Worker("absent", NoID, FALSE, Nil)]
    /\ executionsTotal = [success |-> 0, failure |-> 0]

-----------------------------------------------------------------------------

\* Start: the worker pool
StartWorkers ==
    /\ worker' = [w \in Workers |-> IdleWorker]
    /\ UNCHANGED <<queue, queueClosed, execCancelled, executionsTotal>>

\* mutants: a channel that holds one job too many, or one too few
EnqueueOver(id) ==
    /\ Len(queue) <= MaxQueueSize
    /\ queue' = Append(queue, id)
    /\ UNCHANGED <<queueClosed, execCancelled, worker, executionsTotal>>

EnqueueUnder(id) ==
    /\ Len(queue) + 1 < MaxQueueSize
    /\ queue' = Append(queue, id)
    /\ UNCHANGED <<queueClosed, execCancelled, worker, executionsTotal>>

\* Submit: a send on the channel; it waits for room, whatever is cancelled
Enqueue(id) ==
    /\ Len(queue) < MaxQueueSize
    /\ queue' = Append(queue, id)
    /\ UNCHANGED <<queueClosed, execCancelled, worker, executionsTotal>>

\* select takes either ready case: a queued job, even after a cancellation,
Take(w) ==
    /\ worker[w].at = "select"
    /\ queue # <<>>
    /\ queue' = Tail(queue)
    /\ worker' = [worker EXCEPT ![w] = Worker("request", Head(queue), FALSE, Nil)]
    /\ UNCHANGED <<queueClosed, execCancelled, executionsTotal, repoVars>>

\* mutant: a worker that finds the queue empty returns
ExitWhenEmpty(w, parentCancelled) ==
    /\ worker[w].at = "select"
    /\ parentCancelled \/ execCancelled \/ queue = <<>>
    /\ worker' = [worker EXCEPT ![w] = ExitedWorker]
    /\ UNCHANGED <<queue, queueClosed, execCancelled, executionsTotal, repoVars>>

\* or the cancellation, even with jobs queued (closed and empty also ends it)
Exit(w, parentCancelled) ==
    /\ worker[w].at = "select"
    /\ parentCancelled \/ execCancelled \/ (queueClosed /\ queue = <<>>)
    /\ worker' = [worker EXCEPT ![w] = ExitedWorker]
    /\ UNCHANGED <<queue, queueClosed, execCancelled, executionsTotal, repoVars>>

\* mutant: every answer is counted as a success
RespondOK(w, success) ==
    /\ worker[w].at = "request"
    /\ worker' = [worker EXCEPT ![w] = Worker("record", @.id, success, clock)]
    /\ executionsTotal' = [executionsTotal EXCEPT !.success = @ + 1]
    /\ UNCHANGED <<queue, queueClosed, execCancelled, repoVars>>

\* an answer came: its status decides, it is counted, and time.Now() is read
Respond(w, success) ==
    /\ worker[w].at = "request"
    /\ worker' = [worker EXCEPT ![w] = Worker("record", @.id, success, clock)]
    /\ executionsTotal' = IF success
                            THEN [executionsTotal EXCEPT !.success = @ + 1]
                            ELSE [executionsTotal EXCEPT !.failure = @ + 1]
    /\ UNCHANGED <<queue, queueClosed, execCancelled, repoVars>>

\* mutant: a request without an answer is dropped
DropRequest(w) ==
    /\ worker[w].at = "request"
    /\ worker' = [worker EXCEPT ![w] = IdleWorker]
    /\ UNCHANGED <<queue, queueClosed, execCancelled, executionsTotal, repoVars>>

\* no answer: refused, timed out or cancelled; the metrics do not count it
NoResponse(w) ==
    /\ worker[w].at = "request"
    /\ worker' = [worker EXCEPT ![w] = Worker("record", @.id, FALSE, clock)]
    /\ UNCHANGED <<queue, queueClosed, execCancelled, executionsTotal, repoVars>>

Outcome(w) ==
    [jobID |-> worker[w].id, executedAt |-> clock,
     completedAt |-> worker[w].completedAt, success |-> worker[w].success]

\* repo.CreateExecution; on its error the worker is done with the job
RecordExecution(w) ==
    /\ worker[w].at = "record"
    /\ CreateExecution(NoID, Outcome(w))
    /\ worker' = [worker EXCEPT ![w] =
                    IF @.id \in DOMAIN jobs THEN [@ EXCEPT !.at = "touch"] ELSE IdleWorker]
    /\ UNCHANGED <<queue, queueClosed, execCancelled, executionsTotal>>

\* mutant: the job gets the time of the update
TouchNow(w) ==
    /\ worker[w].at = "touch"
    /\ UpdateJobLastExecuted(worker[w].id, clock)
    /\ worker' = [worker EXCEPT ![w] = IdleWorker]
    /\ UNCHANGED <<queue, queueClosed, execCancelled, executionsTotal>>

\* repo.UpdateJobLastExecuted with the time taken before the record was made
TouchJob(w) ==
    /\ worker[w].at = "touch"
    /\ UpdateJobLastExecuted(worker[w].id, worker[w].completedAt)
    /\ worker' = [worker EXCEPT ![w] = IdleWorker]
    /\ UNCHANGED <<queue, queueClosed, execCancelled, executionsTotal>>

-----------------------------------------------------------------------------
(* Stop: cancel, close the channel, wait for the workers.                  *)

CancelWorkers ==
    /\ execCancelled' = TRUE
    /\ UNCHANGED <<queue, queueClosed, worker, executionsTotal>>

CloseQueue ==
    /\ queueClosed' = TRUE
    /\ UNCHANGED <<queue, execCancelled, worker, executionsTotal>>

\* mutant: Stop does not wait
NoWait == TRUE

WorkersDone == \A w \in Workers : worker[w].at = "exited"

=============================================================================
