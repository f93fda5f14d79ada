-------------------------- MODULE RepositoryReads --------------------------
(***************************************************************************)
(* The methods of MemoryRepository that only read, and the two handlers    *)
(* that page through their answers.  They take the read lock from first    *)
(* line to last, so each is an operator on one state.                      *)
(***************************************************************************)
EXTENDS Repository

CONSTANT MaxInt   \* the largest value of Go's int

ASSUME ReadsAssumption == MaxInt \in Nat

AnyStatus == ""   \* a nil status filter

\* the int that a sum or difference n comes out as: past MaxInt it wraps
Wrapped(n) == IF n > MaxInt THEN n - 2 * (MaxInt + 1) ELSE n

\* the start and end a page of total entries is cut at
PageStart(total, offset) == IF offset > total THEN total ELSE offset
PageEnd(total, start, limit) ==
    LET end == Wrapped(start + limit) IN IF end > total THEN total ELSE end

-----------------------------------------------------------------------------
(* Jobs.                                                                   *)

\* GetJob, through the handler of the same name
GetJob(id) == IF id \in DOMAIN jobs THEN [code |-> 200, job |-> jobs[id]]
                                    ELSE [code |-> 404]

\* the jobs of which the loop of GetAllJobs keeps a copy
Matching(status) == {i \in DOMAIN jobs : status \in {AnyStatus, jobs[i].status}}

\* mutant: a page ends one entry late
GetAllJobsLong(filtered, limit, offset) ==
    LET start == PageStart(Len(filtered), offset)
        end   == PageEnd(Len(filtered), start, limit + 1)
    IN  [panics |-> end < start,
         page   |-> SubSeq(filtered, start + 1, end),
         total  |-> Len(filtered)]

(***************************************************************************)
(* GetAllJobs: filtered has the matching jobs in the order in which the    *)
(* iteration over the map, random in Go, came by them.  The slice          *)
(* filtered[start:end] panics when an overflow has put end before start.   *)
(***************************************************************************)
GetAllJobs(filtered, limit, offset) ==
    LET start == PageStart(Len(filtered), offset)
        end   == PageEnd(Len(filtered), start, limit)
    IN  [panics |-> end < start,
         page   |-> SubSeq(filtered, start + 1, end),
         total  |-> Len(filtered)]

\* the handler GetAllJobs: query parameters checked, a panic answered 500
ListJobs(filtered, limit, offset) ==
    IF limit <= 0 \/ offset < 0 THEN [code |-> 400]
    ELSE LET answer == GetAllJobs(filtered, limit, offset)
         IN  IF answer.panics THEN [code |-> 500]
             ELSE [code |-> 200, page |-> answer.page, total |-> answer.total]

-----------------------------------------------------------------------------
(* Executions.                                                             *)

(***************************************************************************)
(* The loop of GetJobExecutions, from the zero-based index first down to   *)
(* last: each round appends the execution of its id, if there is one.      *)
(***************************************************************************)
NewestFirst(execIDs, first, last) ==
    LET rounds == IF last > first THEN 0 ELSE first - last + 1
        result[k \in 0 .. rounds] ==
            IF k = 0 THEN <<>>
            ELSE LET id == execIDs[first + 2 - k]
                 IN  IF id \in DOMAIN executions THEN Append(result[k - 1], id)
                                                 ELSE result[k - 1]
    IN  result[rounds]

\* the index at which the loop over a page stops, by the two tests
\* i >= len(execIDs)-end and i >= 0; the difference wraps where end has wrapped
LastIndex(total, end) ==
    LET last == Wrapped(total - end) IN IF last > 0 THEN last ELSE 0

\* mutant: the loop over a page stops one index early
PageShort(execIDs, limit, offset) ==
    LET total == Len(execIDs)
        start == PageStart(total, offset)
        end   == PageEnd(total, start, limit)
    IN  NewestFirst(execIDs, total - 1 - start, LastIndex(total, end) + 1)

\* mutant: a page begins limit entries after its offset, except the first
PageSkips(execIDs, limit, offset) ==
    LET total == Len(execIDs)
        start == PageStart(total, IF offset = 0 THEN 0 ELSE offset + limit)
        end   == PageEnd(total, start, limit)
    IN  NewestFirst(execIDs, total - 1 - start, LastIndex(total, end))

\* the ids of one page of a history
Page(execIDs, limit, offset) ==
    LET total == Len(execIDs)
        start == PageStart(total, offset)
        end   == PageEnd(total, start, limit)
    IN  NewestFirst(execIDs, total - 1 - start, LastIndex(total, end))

GetJobExecutions(id, limit, offset) == Page(jobExecMap[id], limit, offset)

\* mutant: the last execution time is compared the wrong way round
GetJobStatsFirst(id) ==
    LET outcomes == {executions[jobExecMap[id][k]] : k \in DOMAIN jobExecMap[id]}
        Number(ok) == Cardinality({k \in DOMAIN jobExecMap[id] :
                                    executions[jobExecMap[id][k]].success = ok})
    IN  [totalExecutions      |-> Len(jobExecMap[id]),
         successfulExecutions |-> Number(TRUE),
         failedExecutions     |-> Number(FALSE),
         lastExecutionTime    |-> IF outcomes = {} THEN Nil
                                  ELSE Min({o.executedAt : o \in outcomes}),
         nextScheduledTime    |-> jobs[id].nextRun]

GetJobStats(id) ==
    LET listed == {k \in DOMAIN jobExecMap[id] : jobExecMap[id][k] \in DOMAIN executions}
        At(k) == executions[jobExecMap[id][k]]
        times == {At(k).executedAt : k \in listed}
    IN  [totalExecutions      |-> Len(jobExecMap[id]),
         successfulExecutions |-> Cardinality({k \in listed : At(k).success}),
         failedExecutions     |-> Cardinality({k \in listed : ~At(k).success}),
         lastExecutionTime    |-> IF times = {} THEN Nil ELSE Max(times),
         nextScheduledTime    |-> jobs[id].nextRun]

\* GetSchedulerStats: executions strictly inside the period (from, to)
GetSchedulerStats(from, to) ==
    LET withStatus(s) == Cardinality({i \in DOMAIN jobs : jobs[i].status = s})
        inPeriod == {e \in DOMAIN executions :
                        executions[e].executedAt > from /\ executions[e].executedAt < to}
    IN  [totalJobs       |-> Cardinality(DOMAIN jobs),
         activeJobs      |-> withStatus(StatusActive),
         inactiveJobs    |-> withStatus(StatusInactive),
         deletedJobs     |-> withStatus(StatusDeleted),
         totalExecutions |-> Cardinality(inPeriod),
         successfulRuns  |-> Cardinality({e \in inPeriod : executions[e].success}),
         failedRuns      |-> Cardinality({e \in inPeriod : ~executions[e].success})]

=============================================================================
