# Job Scheduler Service: TLA+ models, checks and proofs

This directory models the service of this repository in TLA+. TLC checks the
models on small instances, and TLAPS proves the central properties for every
value of the constants. Paths below are relative to the repository's root.

## 1. The system

The service keeps jobs (a cron expression with seconds, and a webhook), polls
for the ones that have come due, posts their webhooks from a pool of workers,
and records the outcomes. Everything is in memory.

| Component | State | Operations | Model |
|---|---|---|---|
| repository (`repository/memory.go`) | `jobs`, `executions`, `jobExecMap`, `idCounter`, one `RWMutex` | create, update, delete, next run, last executed; create and update executions; pages; statistics | `Repository`, `RepositoryReads`, `RepositoryClient` |
| cron parser (`cron/parser.go`) | none | `Validate`, `GetNextRun`, `GetNextNRuns`, `IsWithinTimeWindow` | `Cron` |
| cron validator (`cron/validator.go`) | none | `ValidateField`, `ValidateCronExpression` | `CronValidator` |
| scheduler (`scheduler/scheduler.go`) | one goroutine, the locals of a sweep | `Start`, poll, collect, submit, advance, `Stop` | `Scheduler` |
| handlers (`api/handler.go`) | one goroutine per request, the gauge `jobs_active` | `CreateJob`, `UpdateJob`, `DeleteJob`; paging of `GetAllJobs`, `GetJob` | `Handler`, `RepositoryReads` |
| router and middleware (`api/router.go`, `api/middleware.go`) | the order of the chain, two counters | recovery, CORS, request metrics, limiter, handler | `Router` |
| rate limiter (`api/middleware.go`) | window start, counts by client, one mutex | `Allow` | `RateLimiter` |
| standard executor (`executor/executor.go`) | channel, worker goroutines, wait group | `Start`, `Submit`, `executeJob`, `Stop` | `Executor` |
| optimized executor (`executor/executor_optimized.go`) | channel, workers, two counters, goroutines nothing waits for | `Start`, dropping `Submit`, `executeJob`, `recordExecution`, `GetMetrics`, `Stop` | `OptimizedExecutor` |
| lifecycle (`main.go`, `api/server.go`) | signal context, deferred calls | `run` | `JobService` |
| scripts, containers, dashboards | none of their own | | not modelled |

**Interaction.** The components share the repository; each of its methods is one
critical section. The scheduler copies the active jobs (`GetActiveJobs`), sends
the due ones to the executor through a bounded channel, and then writes each
one's next run back. The standard `Submit` blocks while the channel is full; the
optimized one drops the job. Workers post the webhook; the record
(`CreateExecution`) and the job's last execution time (`UpdateJobLastExecuted`)
are two repository calls, made by the standard worker itself and by a fresh
goroutine in the optimized executor. A request passes the middleware, whose
limiter and counters all requests share; its handler makes one or two repository
calls and then changes the gauge. A signal cancels the context that the
scheduler's and the workers' contexts derive from; `Scheduler.Stop` and the
executor's `Stop` run as deferred calls when `run` returns.

**What is hard.** A sweep is a long read-modify-write over the repository with a
blocking call in the middle. A PUT is two critical sections. The clock moves
between any two of these, also between a request's reading of it and the
limiter's mutex. A worker's `select` may take a job or the cancellation. Shutdown
depends on the order of the deferred calls and on who has already seen the
cancelled context. `PROJECT.json` lists each hazard at its line.

**What makes the components correct.**

- repository: the maps and the index agree, history is never lost, pages
  partition the history and miss nothing while it grows, listings fill their
  pages, the two statistics tell one story;
- scheduler with handlers: each slot of a job is dispatched, once, not early; a
  deleted job stays deleted and is dispatched at most once more;
- executors: each accepted job is executed and recorded once, the counters agree
  with the records, only the optimized `Submit` loses anything;
- limiter and router: a client's rate is bounded, a client is refused only for its
  own requests, the metrics account for the traffic;
- lifecycle: the channel is closed after the last send, the service exits, and
  exit leaves no half-written record;
- cron functions: the runs listed are the first slots, the window test finds the
  slot, the validator accepts exactly its grammar (a range with a step left open,
  section 4).

## 2. Modules

```
Cron          Repository --------------- RepositoryReads
   \         /    |    \                        |
   Scheduler  Handler   Executor         RepositoryClient
      |          |         |               |         |
      |          |   OptimizedExecutor  MCRepository RepositoryProofs
      +----+-----+         |
           |     \         |
           |      +--- JobService - - implements - - >  JobExecution
           |               +--- MCJobService
           |               +--- JobServiceProofs --- ExecutorProofs
           |                                              \--- JobExecutionProofs
     JobScheduling  - - implements - - >  SlotDispatch
           +--- MCJobScheduling --- MCCron (with CronValidator)
           |                           \--- CronValidatorProofs
           +--- JobSchedulingProofs

RateLimiter --- Router --- MCRouter
                      \--- RouterProofs
```

`CountingLemmas` has the lemmas on least numbers, places in a sequence and
subsets of a finite set; all proof modules extend it.

**Repository.** One operator per method, over the four fields of the struct and
the clock. A method takes the lock on its first line and gives it back at its
end, so it is one atomic step. `ApplyUpdates` keeps the dynamic Go type of each
value of an update, because the code's type assertions decide what an update
changes. A generated id is its counter value; an id that a caller supplies is
negative.

**RepositoryReads** has the methods that only read, as state functions, and the
handlers that page through their answers. `start + limit` is a sum of machine
integers (`Wrapped` at `MaxInt`), because `limit` comes from the query unbounded, and
so is the difference at which the loop of `GetJobExecutions` stops (`LastIndex`): when
`end` has wrapped, the difference wraps back below zero and the loop runs to the oldest
record. A panic of the slice expression is part of the answer. A listing takes
the matching jobs in some order, as the code's iteration over a map does; the loop
over a page's ids is a function defined by recursion on its rounds.
**RepositoryClient** calls all methods in any order. The ids of jobs and executions
are generated, or new ones that the client supplies. It never repeats an id of an
execution: `CreateExecution` does not look whether it is in use (section 4), and no
caller or test supplies any.

**Cron.** An expression is the set of whole seconds at which it fires.
`GetNextRun` is the first of them after an instant, or the zero time when there
is none or the expression does not parse. An expression either never fires or
goes on firing after the model's last instant (`FiresAssumption`).

**CronValidator.** A field is a sequence of tokens (the separators, numbers,
names); the nested early returns are those of the code. `Split` takes what lies
between neighbouring cuts, found by their rank. The grammar it is compared with is
generated, not recognised, over a set of words that the run fixes for each field.

**Scheduler.** `dispatchDueJobs` in five kinds of step, cut where the code makes
a call that others can interleave with: `Poll` (copy the active jobs),
`CollectDue` (read the clock, select the due ones, in any order, because the
copies come from a Go map), `SubmitNext`, `AdvanceNext` (from the copy's schedule
and the sweep's instant), `SweepDone`. `snapshot`, `now`, `dueJobs` and `cursor`
are its locals. After `CollectDue` the copies of jobs that are not due are
dropped, since the code does not use them again.

**Handler.** Each request is a process: a POST validates and computes the first
run, stores the job, raises the gauge; a PUT with a schedule validates it and
computes the next run, stores the next run, stores the body; a DELETE marks the
job and lowers the gauge. A request refused before its first write changes
nothing and is no action. `Updates` is a set of decoded JSON bodies; by
`UpdatesAssumption` no value in them has one of the model package's named types.

**JobScheduling** composes the two over the repository, with an executor that
takes every job at once, as the scheduler's own tests have it. Its history
variables restrict no step: `log` has the dispatches, `since` the instant from
which a job's present schedule counts, `raced` the jobs whose schedule a PUT
replaced while a sweep or another PUT was at work on them.

**SlotDispatch** is the abstract specification of dispatching, without sweeps,
copies, handlers or a repository: the slots of a job's schedule are answered
oldest first, each once, never early; one answer may stand for several slots.
`JobScheduling` implements it under the mapping of `Slots` (run `core`, theorem
`Refinement`).

**Executor.** The channel is a sequence of at most `MaxQueueSize` job ids. A
worker is at its `select`, at the request, before the record, before the update
of the job, or gone. When the context is cancelled and jobs are queued, `Take`
and `Exit` are both possible, as in Go. **OptimizedExecutor** adds what differs
with `-optimized`: `OfferOrDrop`, the bag `recorders` of the goroutines that
record, and the counters `processed` and `failed`.

**JobService** composes scheduler, POST and DELETE handlers, either executor
(`optimized`, chosen from `Modes` at the start) and `run`. A signal may come at
any time; the server may fail while it serves. Requests begin only while the
server serves, and run on after that. PUT requests are left to `JobScheduling`:
they change when a job is submitted, not what happens to it then. The history
variables `submitted` and `dropped` count sends and drops.

**JobExecution** is the abstract specification of an executor, without workers,
goroutines, requests or a repository: submissions wait in a line of bounded length
and are begun first come, first served; one that is begun adds one record to the
history of its own job, stamped with the instant of the record; a job's last
execution time is only ever set to a completion time of its history. A *patient*
executor turns nobody away and leaves only when all it has begun is on record and
noted; the other may turn a submission away when the line is full, and leave at any
time. `JobService` implements it under the mapping of `Promise`: the line is the
channel, the patient executor the standard one, a job's history what the repository
has recorded for it, and what is under way are its places with workers that execute
it and with goroutines that have not made its record yet (run `service`,
theorem `PromiseKept`).

**RateLimiter** is `Allow` in its two steps, the reading of the clock and the
critical section. **Router** runs it under concurrent connections, inside the
chain that `api/router.go` builds: an OPTIONS request is answered by CORS before
the metrics, a refused one is counted, a panic goes past the metrics to
`gin.Recovery`. Its history variables count what was sent and admitted, and when.

**Abstractions.** `API`, metadata, bodies, response times, `CreatedAt` and
`UpdatedAt`, log lines and durations are left out. Time is in whole seconds:
slots are whole seconds, and both "not before the slot" and "first slot after an
instant" depend on the floor of the instant only. The clock does not go
backwards. Repository calls are given a context, which they do not look at.

Each definition named "mutant" is a small wrong variant of the one below it, which
a run must reject; nothing else uses it.

## 3. Runs

| Run | Instance | What it shows |
|---|---|---|
| `repository` | ids below 4, up to 2 jobs, one id that may be supplied for a job or an execution, 2 instants, `MaxInt` = 4 | the maps and the index agree, history only grows, pages and walks, listings under overflow, statistics |
| `router` | 2 clients, 3 connections, 4 requests, limit 1, window 2, clock to 4 | the bounds of the limiter and what the metrics tell |
| `core` | 2 handlers, 3 requests, 2 expressions and one that does not parse, 4 instants | the slot properties, the refinement, deletion, the gauge's bound, the inductive invariant |
| `live` | 1 handler, 2 requests, 3 expressions, 4 instants | every slot is eventually dispatched; the pure functions of package `cron` |
| `service` | both executors, 1 job, 2 workers, queue of 1, 3 instants | executions of one job that overlap, drops, every shutdown path, and the refinement of `JobExecution` |
| `progress` | both executors, 1 job, 1 worker, queue of 1, 3 instants | the counters of the optimized executor; submissions are recorded, a blocked sweep goes on, the service exits |

Six more runs end in a violation; section 4 has them.

The bounds (`MaxTime`, `MaxRequests`, `MaxJobs`, `MaxIDs`, `Horizon`, `MaxInt` and
the queue's capacity) are large enough for the cases that matter. Three requests
are enough for a job, a PUT in two halves and a DELETE or a second PUT that races
it. Four instants hold three slots of `often`, so that slots pass during a sweep,
are merged, and the next sweep finds one more. A queue of one is full after one
send. Two workers with one job store their completion times in either order. A
`MaxInt` of 4 is passed by the sum of an offset and a limit over two jobs, and over a
history of three. Three
connections let two judge with instants older than the window the third has
opened, and four instants hold two windows. Handlers, workers, clients and
connections are symmetric where no liveness is checked.

The pure functions of package `cron` are invariants of the `live` run: the parser's
are asked at each instant the clock shows; the validator (`MCCron`) is asked once,
in the first state: fields of up to four tokens (five for months) from a vocabulary that sits
at and just past each field's bounds.

**The main properties.** A job is *undisturbed* unless a PUT replaced its schedule
while a sweep or another PUT was at work on it, or is replacing it now;
*satisfiable* if its expression fires at all.

- `NoSlotLost`: between the start of a job's schedule and its next run, every slot
  is covered by a dispatch, i.e. lies between the slot that made the dispatch due
  and the instant of that sweep. Slots that pass while the scheduler is busy are
  merged into one dispatch; they are not skipped. It depends on the code computing
  the next run from `now` of the sweep and not from a new `time.Now()`.
- `AtMostOncePerSlot`: a dispatch is for a slot later than all earlier sweeps that
  dispatched the job. `NeverEarly`: it is a slot of the schedule, and has come.
- `SlotsAnsweredInOrder`: the three together, as a refinement of `SlotDispatch`.
- `AtMostOneLateDispatch`, `DeletedForever`: as their names say.
- `GaugeNeverOverstates`: `jobs_active` is at most the number of active jobs, up
  to deletions in flight. (It can be less: see below.)
- `SubmissionsConserved`: each send is in the channel, with a worker, with a
  goroutine that will record it, recorded as one execution of its own job, or
  dropped by the optimized `Submit`; also after shutdown.
- `ExecutorsKeepPromise`: either executor implements `JobExecution`. It says what the
  balance of `SubmissionsConserved` cannot: the order, the moment of each record, and
  that a drop happens only while the channel is full. With one job in the run the order
  is not seen; the theorem has it for all jobs, and the run passes as well with
  `MaxRequests` and `MaxQueueSize` at 2 and `MaxTime` at 2.
- `MetricsBoundRecords`, `CountersMatchRecords`: how `job_executions_total` and the
  optimized executor's counters relate to the records. Requests without an answer
  are recorded but not counted.
- `StopTerminates`: a service told to stop exits, except the standard executor
  after a signal (`signal_exit` below).
- `LongRunRate`, `BurstBound`, `RefusedOnlyAtLimit`: before n windows have passed a
  client is let through at most n times the limit; in any one window's length at
  most twice the limit, requests judged by a stale instant aside; and a refused
  client did use up its limit.
- `TrafficAccounted`: the answers of handlers and limiter are counted once each, a
  refusal by both counters, and no request is lost between its arrival and its answer.
  It says nothing of the metrics of preflights and panics (section 4).
- `PagesShowWholeHistory`: a page is the stretch of the history its limit and offset
  ask for, newest first, for every limit and offset that is an `int`. Where their
  sum overflows the page is right all the same, because the loop's difference
  overflows too and its test `i >= 0` stops it. `WalkMissesNothing`: a client that
  pages through a history while it grows, with pages of any size, may see a record
  twice but misses none. (The service's own handler asks for ten records from the
  newest on; walking is what the method offers.) `JobPagesFill`: what a listing
  guarantees over a map in random order, and that it panics exactly when `start +
  limit` overflows. `StatsAgree`: the statistics of the jobs add up to the
  scheduler's.
- `RunsAreTheFirstSlots`, `WindowSeesTheSlot`: `GetNextNRuns` lists the first slots
  after an instant, and `IsWithinTimeWindow` misses a slot only when one passed
  between its two readings of the clock.
- `ValidatorFollowsGrammar`: the validator accepts exactly the lists of its grammar,
  in whatever order the separators stand. Ranges with a step are left out of the
  comparison, because code and comment disagree on them (section 4).

**Fairness.** `live` assumes weak fairness of the scheduler's goroutine, whose
timer keeps firing. `progress` and `signal_exit` assume weak fairness of main,
the scheduler, the recording goroutines and each worker (a request ends by
`RequestTimeout`), and strong fairness of returning on a cancelled context: Go's
`select` chooses at random among ready cases, so it cannot prefer the timer for
ever. Requests, signals, failures and time are not fair. Deadlock is not checked
in the `JobService` runs, where the process really ends, and in `router`, whose
requests and clock are bounded.

## 4. Where the code and its documents disagree

Each has a run whose property TLC finds violated; `PROJECT.json` quotes the lines.

- `status_update`: a PUT with a `"status"` answers 200 and leaves the status.
- `active_gauge`: a second DELETE of the same job lowers `jobs_active` again.
- `put_next_run`: a sweep in progress overwrites the next run that a PUT has just
  stored, so the job runs once more at a second of its old schedule. Two racing
  PUTs can leave one's schedule with the other's next run.
- `never_fires`: an expression such as `0 0 0 30 2 *` is accepted, its next run is
  the zero time, and every sweep dispatches the job.
- `signal_exit`: a signal sends the workers away while the scheduler may be
  blocked in the standard `Submit` on the full channel; `Scheduler.Stop` then never
  returns. `StopTerminates` shows that this is the only case: after a server
  failure, and with the optimized executor, the service does exit.
- `retry`: a failed `ATLEAST_ONCE` execution is not retried.

Also seen, without a run of their own:

- a PUT of the schedule during a sweep can make the slot just submitted due again,
  so it is dispatched twice (the reason for `raced`); a PUT between a slot of the
  old schedule and the next sweep drops that slot;
- `Stop` of either executor does not drain the channel (`executor/executor.go:81`);
  `ExitLeavesNoHalfRecord` accounts for the jobs that stay in it. Records the
  optimized executor has handed to goroutines are lost at exit;
- with `-optimized`, `job_executions_total` stays at zero, although
  `metrics/metrics.go:29` and the repository's README call it the total number of job
  executions; no property asserts either;
- a limit near the largest `int` makes `GET /api/v1/jobs` panic, and be answered
  500, when the offset is not zero (`JobPagesFill`);
- preflights and panics are missing from `http_requests_total`, the "total number of
  HTTP requests" (`metrics/metrics.go:78`); no property asserts either. The limiter
  stands before `/metrics` and `/healthz` too;
- `cron/validator.go:64` names `0-30/5` as a step, which `ValidateField` rejects: a
  dash is taken for a range first. `ValidatorFollowsGrammar` takes neither side. Only
  the tests call the validator;
- `CreateExecution` (`repository/memory.go:192`) uses an id that its caller supplies
  without looking whether it is in use: a repeated one would overwrite a record and
  stand twice in the index. No caller supplies one.

## 5. Proofs

All proofs are for any value of the constants, under the named assumptions of
`Cron`, `Handler`, `Executor`, `JobService`, `RepositoryClient`, `RateLimiter` and
`Router`.

**JobSchedulingProofs**: `TypeOK`, `NoSlotLost`, `NeverEarly` (invariants),
`AtMostOncePerSlot`, `AtMostOneLateDispatch`, `DeletedForever` (action
properties). The slot properties are not inductive: nothing in
`AtMostOncePerSlot` says where a next run stands while a sweep is halfway. `IInv`
adds

- `SweepOK`: the slice names each job once, all of them due at `now`;
- `PutOK`: a PUT that overlaps neither a sweep nor another PUT has its job to
  itself: every dispatch lies before its instant and the next run it writes stays;
- `CopyOK`: for an undisturbed job the sweep's copy still has the job's schedule
  and next run;
- `SlotOK`: an undisturbed job's next run is a slot of its expression, later than
  every sweep that dispatched it, *except* between its submission and its
  advance, when it is the slot just dispatched;
- `LateOK`: a job dispatched after its deletion is not submitted again by the
  sweep at work.

`core` checks `IInv` as an invariant. The proof has one lemma per action, and
under it one step per conjunct the action can disturb. The advance step is the
heart: `NextRunIsFirstSlot` says that no slot lies between `now` and the new next
run, and `SlotOK` says that the dispatch just made covers all slots up to `now`.
The module also has `RunsAreTheFirstSlots` and `WindowSeesTheSlot`, for every count,
window and set of slots: `RunsExist` shows that the recursion of `GetNextNRuns` has
a solution for every count, and `RunsAreRight` that its i-th value is the i-th later
slot, both from the least index at which they would fail. Last comes `GaugeBounded`,
for a finite set of handlers: the property is not inductive, since `IncGauge` raises
the gauge for a job stored earlier; `GaugeInv` moves the creations in flight to the
gauge's side: the gauge plus the creations it has yet to count is at most the active
jobs plus the deletions that have not lowered it yet.

`Refinement`, also in **JobSchedulingProofs**: `JobScheduling` implements
`SlotDispatch`. Only four kinds of step are visible through the mapping. `Submit`
answers the oldest open slot, because by `SlotOK` and `NoSlotLost` the next run is
the least slot no dispatch covers; storing a job and the second half of a PUT
begin a promise at an instant no answer reaches past (`PutOK`); a race releases
its job. Everything else stutters or lets time pass.

**RepositoryProofs**: `TypeOK`, `IndexConsistent`, `HistoryKept`, and what the reads
answer. The invariant `RInv` says that every id in use is below the counter, so a
generated id is new; that the list of a job holds its own records, none twice; and
that each record is listed. `OInv` adds what the statistics rest on: the jobs are
finitely many, and a list is in the order of its records' times, because a record is
stamped under the lock that appends it.

- `PagesShowWholeHistory`: `Clamps` does the arithmetic of a page once, for a sum
  that overflows and one that does not; where it does, the second overflow puts the
  loop's last index below zero, which is where it would have been without the
  first. `NewestFirstIsReversed` says what the loop returns. An explicit function satisfies the loop's recursive equation, and two
  functions that satisfy it agree, by the least round at which they would not.
- `WalkMissesNothing`: a record is met on the first page that ends behind it
  (`WalkMeets`). While the list grows the record only moves towards later pages, so
  no page before that one can have passed it by.
- `JobPagesFill`: the same clamps over any enumeration of the matching jobs.
- `StatsAgree`: a job counts the places in its list. Because the index names each
  record once, the places of all jobs together are in bijection with the records
  (`TotalCounts`), so the sums over the jobs are the scheduler's counts.

**JobServiceProofs**, for either executor: `TypeOK` (from `TInv`);
`NoSendAfterClose`, from `StopOrder`: main closes the channel only after the
scheduler's goroutine has returned; and `LastExecutedIsRecorded`. For the last,
`LInv` follows a completion time on its way: who is about to store it in the job, a
worker or a recording goroutine, finds it on record, because the record was made
first; `StoreGrows` says that no call takes a time off record.

**ExecutorProofs**, for a finite set of workers and either executor:
`SubmissionsConserved`, `CountersMatchRecords`, `ExitLeavesNoHalfRecord` and
`MetricsBoundRecords`. None but the last is near to inductive; `AInv` has for every
moment the balance of places (`Balance`: a submission is in the channel, with a
worker, with a goroutine that will record it, on record, or dropped), what the two
counters and the metric owe to what has been recorded and to what still will be
(`CountersOK`), that each executor leaves the other's state alone (`Apart`), and
that, with the standard executor, a job with a record has its last execution time or
a worker about to store one (`TouchOK`). The proof counts: a receive takes one place from the
channel (`PlacesTail`, by a bijection), a worker that goes on moves at most one
between the sets that are counted (`OneMoves`), and a goroutine of the bag gives way
to its successor, one for one (`Goroutines`).

**JobExecutionProofs**: `PromiseKept`, that `JobService` implements `JobExecution`
with either executor, for a finite set of workers. The mapping counts what is under
way among workers and goroutines, while the proof never counts them again: by
`AInv` (its `Balance`) what is under way is also what the rest of the books leaves,
submissions less those in the channel, on record or dropped (`RestOK`, `BooksTell`),
and each step changes at most two of these by one. `PInv` adds to
`AInv` and `LInv` that an outcome about to be recorded has come to pass
(`OutcomesOK`), and that the standard executor has left only when nothing was under
way (`LeftOK`); that main is past the close of the channel then is a third part of
`StopOrder`. There is one lemma per kind of step: `Submit` accepts or turns away, a
receive begins, the repository calls record and note, main closes and leaves, a
POST registers; everything else is invisible.

**RouterProofs**: `TypeOK`, `LongRunRate`, and, for a finite set of connections where
a count needs one, `BurstBound`, `RefusedOnlyAtLimit` and `TrafficAccounted`. `RateOK`
says that the k-th window begins after k window lengths even if its instant was
stale, and that a client's total is at most the limit for each window begun before,
plus its present count. `BurstInv` ties the counts of the limiter to the log of
admissions: what was let through since the window opened is the present count, and
any stretch of one window's length meets at most two windows; a sum over an interval
of instants is the number of units spent in it. `TrafficInv` adds that an answer on
its way to the metrics is a handler's or a refusal; each step moves at most one
connection between the sets that the account counts (`OneMoves`).

**CronValidatorProofs**: `ListsAccepted`, for any bounds and names of a field, any
numbers and names in it, and fields of any length: `ValidateField` accepts an item,
or an item, a comma and a field it accepts, and nothing else. This is what the code
does, so a range with a step is no item here. `ValidatorCorrect`,
which is `ValidatorFollowsGrammar`, follows by taking at most two items off a field
of five tokens. The cuts of a field are a finite set of numbers, and a cut is found
by its rank; `RanksFollowOrder` says that ranks are the numbers from zero on, so the
pieces are what lies between neighbouring cuts (`Pieces`), with no induction. An
item then is one token or two texts around one separator (`SplitTriple`), and no two
of its forms overlap (`ItemsAccepted`). For a list, the pieces of what follows the
first comma are the remaining pieces of the field, moved (`PiecesOfRest`,
`FirstItem`). `ListsAccepted` takes one item off a field; it is not unfolded into a
statement about all items of a list at once.

Only model-checked: the liveness properties and all that rests on fairness (out of
the prover's reach).

## 6. Not modelled

- `ExplainExpression` words an expression; `reportMetrics` of the optimized
  executor, the logging and the response types only format.
- Flags, environment variables, the log file and the HTTP server's own timeouts.
- Histograms and counters that are only written; `jobs_active`,
  `job_executions_total`, `http_requests_total` and the limiter's counter are
  modelled.
- The webhook's request and answer beyond success, failure or no answer; its URL,
  metadata and `RetryCount`, which nothing reads.
- Scripts, containers and dashboards: no program logic.

## 7. What is left

- PUT requests in `JobService`, to see a job change while it waits in the channel.
