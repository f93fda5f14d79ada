-------------------------- MODULE OptimizedExecutor --------------------------
(***************************************************************************)
(* OptimizedJobExecutor of package executor, the pool that main.go starts  *)
(* with -optimized.  Its channel, its workers' select, Start and Stop are  *)
(* those of JobExecutor (module Executor).  It differs in three ways:      *)
(* Submit never waits, a full channel drops the job; an outcome is         *)
(* recorded by a goroutine of its own, which nothing waits for; and it     *)
(* keeps its own counters instead of the Prometheus metrics.               *)
(*                                                                         *)
(* Its reportMetrics goroutine only logs, and returns when Stop cancels.   *)
(***************************************************************************)
EXTENDS Executor

VARIABLES
    processed,   \* e.processed: requests answered
    failed,      \* e.failed: of these, with a status that is no success
    recorders,   \* bag of the recordExecution goroutines under way
    dropped      \* history: dropped[id] counts the submissions dropped

optVars == <<processed, failed, recorders, dropped>>

Recorder(at, id, success, completedAt) ==
    [at |-> at, id |-> id, success |-> success, completedAt |-> completedAt]

OptimizedInit ==
    /\ processed = 0 /\ failed = 0
    /\ recorders = EmptyBag
    /\ dropped = [i \in {} |-> 0]

CountIn(f, id) == IF id \in DOMAIN f THEN f[id] ELSE 0

Spawn(id, success) == recorders' = recorders (+) SetToBag({Recorder("start", id, success, Nil)})

-----------------------------------------------------------------------------

\* mutant: Submit waits for room
OfferAndWait(id) == Enqueue(id) /\ UNCHANGED optVars

\* mutant: the job is dropped while there is one place left
OfferOrDropEarly(id) ==
    IF Len(queue) + 1 < MaxQueueSize
      THEN Enqueue(id) /\ UNCHANGED optVars
      ELSE /\ dropped' = With(dropped, id, CountIn(dropped, id) + 1)
           /\ UNCHANGED <<execVars, processed, failed, recorders>>

\* Submit: the job is queued, or dropped with a warning
OfferOrDrop(id) ==
    IF Len(queue) < MaxQueueSize
      THEN Enqueue(id) /\ UNCHANGED optVars
      ELSE /\ dropped' = With(dropped, id, CountIn(dropped, id) + 1)
           /\ UNCHANGED <<execVars, processed, failed, recorders>>

\* an answer came: its record is handed to a goroutine
HandOver(w, success) ==
    /\ worker[w].at = "request"
    /\ Spawn(worker[w].id, success)
    /\ worker' = [worker EXCEPT ![w] = Worker("count", @.id, success, Nil)]
    /\ UNCHANGED <<queue, queueClosed, execCancelled, executionsTotal>>
    /\ UNCHANGED <<processed, failed, dropped, repoVars>>

\* mutant: a failed answer is not counted as processed
CountEither(w) ==
    /\ worker[w].at = "count"
    /\ processed' = IF worker[w].success THEN processed + 1 ELSE processed
    /\ failed' = IF worker[w].success THEN failed ELSE failed + 1
    /\ worker' = [worker EXCEPT ![w] = IdleWorker]
    /\ UNCHANGED <<queue, queueClosed, execCancelled, executionsTotal>>
    /\ UNCHANGED <<recorders, dropped, repoVars>>

\* and then counted, both counters under the mutex
CountProcessed(w) ==
    /\ worker[w].at = "count"
    /\ processed' = processed + 1
    /\ failed' = IF worker[w].success THEN failed ELSE failed + 1
    /\ worker' = [worker EXCEPT ![w] = IdleWorker]
    /\ UNCHANGED <<queue, queueClosed, execCancelled, executionsTotal>>
    /\ UNCHANGED <<recorders, dropped, repoVars>>

\* recordFailure: no answer, recorded like a failed one but not counted
HandOverFailure(w) ==
    /\ worker[w].at = "request"
    /\ Spawn(worker[w].id, FALSE)
    /\ worker' = [worker EXCEPT ![w] = IdleWorker]
    /\ UNCHANGED <<queue, queueClosed, execCancelled, executionsTotal>>
    /\ UNCHANGED <<processed, failed, dropped, repoVars>>

-----------------------------------------------------------------------------
(* recordExecution, a goroutine r; its context is nobody's to cancel.      *)

Becomes(r, s) ==
    recorders' = (recorders (-) SetToBag({r})) (+) SetToBag(s)

\* completedAt := time.Now()
StampRecord(r) ==
    /\ r.at = "start"
    /\ Becomes(r, {Recorder("record", r.id, r.success, clock)})
    /\ UNCHANGED <<repoVars, execVars, processed, failed, dropped>>

\* repo.CreateExecution; an error is logged and the goroutine goes on
StoreRecord(r) ==
    /\ r.at = "record"
    /\ CreateExecution(NoID, [jobID |-> r.id, executedAt |-> clock,
                              completedAt |-> r.completedAt, success |-> r.success])
    /\ Becomes(r, {[r EXCEPT !.at = "touch"]})
    /\ UNCHANGED <<execVars, processed, failed, dropped>>

\* repo.UpdateJobLastExecuted, and the goroutine ends
TouchRecord(r) ==
    /\ r.at = "touch"
    /\ UpdateJobLastExecuted(r.id, r.completedAt)
    /\ Becomes(r, {})
    /\ UNCHANGED <<execVars, processed, failed, dropped>>

RecorderStep(r) == StampRecord(r) \/ StoreRecord(r) \/ TouchRecord(r)

-----------------------------------------------------------------------------

GetMetrics == [processed |-> processed, failed |-> failed, queueDepth |-> Len(queue)]

=============================================================================
