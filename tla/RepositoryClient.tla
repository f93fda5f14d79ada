-------------------------- MODULE RepositoryClient --------------------------
(***************************************************************************)
(* The repository under an arbitrary client: any method, in any order,     *)
(* with the arguments of the program's callers and of its tests, and ids   *)
(* of the client's own.  What holds here holds for every interleaving of   *)
(* goroutines, because a method is one critical section.                   *)
(*                                                                         *)
(* One call is left out.  CreateExecution takes a supplied id without a    *)
(* look whether it is in use, unlike CreateJob: one that is would replace  *)
(* its record and stand in the index twice.  No caller supplies an id of   *)
(* an execution at all; the client here supplies only new ones.            *)
(***************************************************************************)
EXTENDS RepositoryReads

CONSTANTS
    SuppliedIDs,   \* ids of jobs and executions a caller chooses itself
    MaxJobs,       \* bound on the number of jobs
    MaxIDs,        \* bound on idCounter
    Horizon        \* bound on the clock

ASSUME ClientAssumption ==
    /\ SuppliedIDs \subseteq Int
    /\ \A i \in SuppliedIDs : i < 0
    /\ MaxJobs \in Nat /\ MaxIDs \in Nat /\ Horizon \in Nat

vars == <<repoVars, clock>>

-----------------------------------------------------------------------------

\* a job as a caller hands it over, before CreateJob sets its status
JobRecord ==
    [schedule |-> "s", type |-> "ATLEAST_ONCE", status |-> "",
     nextRun |-> Nil, lastExecuted |-> Nil]

ExecutionRecord(jobID, success) ==
    [jobID |-> jobID, executedAt |-> 0, completedAt |-> clock, success |-> success]

StatusUpdate(value) ==
    [schedule |-> Absent, type |-> Absent, status |-> value]

\* ids a caller may pass: those in the store, and one that is not
SomeJobID == DOMAIN jobs \cup {NoID}
SomeExecutionID == DOMAIN executions \cup {NoID}

CallCreateJob ==
    /\ idCounter < MaxIDs /\ Cardinality(DOMAIN jobs) < MaxJobs
    /\ \E id \in {NoID} \cup SuppliedIDs : CreateJob(id, JobRecord)

\* a models.JobStatus, as the tests pass, and a plain string, as JSON gives
CallUpdateJob ==
    \E id \in SomeJobID, goType \in {"models.JobStatus", "string"}, s \in JobStatuses :
        UpdateJob(id, StatusUpdate(GoValue(goType, s)))

CallDeleteJob == \E id \in SomeJobID : DeleteJob(id)

CallUpdateJobNextRun == \E id \in SomeJobID : UpdateJobNextRun(id, Horizon)

CallUpdateJobLastExecuted == \E id \in SomeJobID : UpdateJobLastExecuted(id, Horizon)

\* an execution under a generated or a new id, while the lists have a length
\* that is an int
CallCreateExecution ==
    /\ idCounter < MaxIDs
    /\ \A i \in DOMAIN jobExecMap : Len(jobExecMap[i]) < MaxInt
    /\ \E own \in {NoID} \cup (SuppliedIDs \ DOMAIN executions),
          id \in SomeJobID, ok \in BOOLEAN : CreateExecution(own, ExecutionRecord(id, ok))

CallUpdateExecution ==
    \E id \in SomeExecutionID, ok \in BOOLEAN :
        UpdateExecution(id, [success     |-> GoValue("bool", ok),
                             completedAt |-> Absent])

Next ==
    \/ /\ \/ CallCreateJob
          \/ CallUpdateJob
          \/ CallDeleteJob
          \/ CallUpdateJobNextRun
          \/ CallUpdateJobLastExecuted
          \/ CallCreateExecution
          \/ CallUpdateExecution
       /\ UNCHANGED clock
    \/ Tick(Horizon)

Spec == RepoInit /\ [][Next]_vars

-----------------------------------------------------------------------------

Times == Int

(***************************************************************************)
(* Type correctness.  idCounter is above every id in use.                  *)
(***************************************************************************)
TypeOK ==
    /\ \A i \in DOMAIN jobs :
          /\ i < idCounter
          /\ jobs[i].status \in JobStatuses
          /\ jobs[i].nextRun \in Times /\ jobs[i].lastExecuted \in Times
    /\ \A e \in DOMAIN executions :
          /\ e \in Int \ {NoID} /\ e < idCounter
          /\ executions[e].executedAt \in 1 .. clock
          /\ executions[e].success \in BOOLEAN
    /\ \A i \in DOMAIN jobExecMap : jobExecMap[i] \in Seq(Int \ {NoID})
    /\ idCounter \in Nat /\ clock \in Nat

(***************************************************************************)
(* The index and the records agree: the index has a list for exactly the   *)
(* jobs there are, and each execution stands exactly once, in the list of  *)
(* its own job (CreateJob, CreateExecution: three maps written together).  *)
(***************************************************************************)
IndexConsistent ==
    /\ DOMAIN jobExecMap = DOMAIN jobs
    /\ \A i \in DOMAIN jobExecMap : Range(jobExecMap[i]) \subseteq DOMAIN executions
    /\ \A e \in DOMAIN executions :
          \E i \in DOMAIN jobs :
             /\ executions[e].jobID = i
             /\ \E k \in DOMAIN jobExecMap[i] :
                   \A j \in DOMAIN jobs : \A l \in DOMAIN jobExecMap[j] :
                       jobExecMap[j][l] = e <=> j = i /\ l = k

(***************************************************************************)
(* A page of a job's history is the stretch that begins offset executions  *)
(* before the newest, newest first, and is cut short only by the end of    *)
(* the history: so pages of one size, laid end to end, show each execution *)
(* once.  That is so also when start + limit overflows, which makes a      *)
(* listing of jobs panic: the difference in the loop's condition then      *)
(* overflows too, and its second test, i >= 0, stops it at the oldest      *)
(* record (GetJobExecutions).                                              *)
(***************************************************************************)
PagesShowWholeHistory ==
    \A i \in DOMAIN jobs, limit \in 1 .. MaxInt, offset \in 0 .. MaxInt :
        LET history == jobExecMap[i]
            total == Len(history)
            left == IF offset < total THEN total - offset ELSE 0
            page == GetJobExecutions(i, limit, offset)
        IN  /\ Len(page) = IF limit < left THEN limit ELSE left
            /\ \A k \in DOMAIN page : page[k] = history[total + 1 - offset - k]

(***************************************************************************)
(* A client that walks the pages while executions are recorded, so that    *)
(* each page comes from a longer history than the last (length[p] of them  *)
(* at page p), may see a record twice but never misses one that was there  *)
(* when it began, whatever the size of its pages.                          *)
(***************************************************************************)
WalkMissesNothing ==
    \A i \in DOMAIN jobs : jobExecMap[i] # <<>> => \A limit \in 1 .. MaxInt :
        LET history == jobExecMap[i]
            all == Len(history)
            pages == 0 .. (all - 1) \div limit
            Seen(p, length) == Page(SubSeq(history, 1, length[p]), limit, p * limit)
        IN  \A length \in [pages -> 1 .. all] :
               (\A p, q \in pages : p < q => length[p] <= length[q]) =>
               \A r \in 1 .. length[0] :
                  \E p \in pages : history[r] \in Range(Seen(p, length))

(***************************************************************************)
(* Listing the jobs, whatever order the map is iterated in.  The request   *)
(* panics, and is answered 500, exactly when start + limit overflows; any  *)
(* other page holds as many jobs of the wanted status as are left after    *)
(* its offset, none twice, and reports their number.  Over one order the   *)
(* pages together hold every such job; over changing orders they need not. *)
(***************************************************************************)
JobPagesFill ==
    \A status \in {StatusActive, AnyStatus} : \A order \in SetToSeqs(Matching(status)) :
        LET wanted == {i \in DOMAIN jobs : status = AnyStatus \/ jobs[i].status = status}
            total == Cardinality(wanted)
        IN  /\ \A limit \in 1 .. MaxInt, offset \in 0 .. MaxInt :
                  LET left == IF offset < total THEN total - offset ELSE 0
                      answer == ListJobs(order, limit, offset)
                  IN  IF limit > MaxInt - (total - left)
                        THEN answer.code = 500
                        ELSE /\ answer.code = 200 /\ answer.total = total
                             /\ IsInjective(answer.page)
                             /\ Range(answer.page) \subseteq wanted
                             /\ Len(answer.page) = IF limit < left THEN limit ELSE left
            /\ total < MaxInt =>
                  \A i \in wanted : \E p \in 0 .. total :
                     i \in Range(ListJobs(order, 1, p).page)

\* the sum of f's values, as the number of the units they are made of
Total(f) == Cardinality(UNION {{i} \X (1 .. f[i]) : i \in DOMAIN f})

(***************************************************************************)
(* The two statistics endpoints tell one story: over a period that covers  *)
(* everything, the system totals are the sums of the jobs' totals, success *)
(* and failure add up to the total, the status counts add up to the number *)
(* of jobs and match what the listing and the single reads show as active, *)
(* and a job's last execution is the one at the head of its history: its   *)
(* records stand in the order of their times.                              *)
(***************************************************************************)
StatsAgree ==
    LET system == GetSchedulerStats(0, clock + 1)
        stats == [i \in DOMAIN jobs |-> GetJobStats(i)]
    IN  /\ system.totalExecutions = Total([i \in DOMAIN jobs |-> stats[i].totalExecutions])
        /\ system.successfulRuns = Total([i \in DOMAIN jobs |-> stats[i].successfulExecutions])
        /\ system.failedRuns = Total([i \in DOMAIN jobs |-> stats[i].failedExecutions])
        /\ system.totalJobs = system.activeJobs + system.inactiveJobs + system.deletedJobs
        /\ \A order \in SetToSeqs(Matching(StatusActive)) :
              GetAllJobs(order, 1, 0).total = system.activeJobs
        /\ DOMAIN GetActiveJobs =
              {i \in SomeJobID : GetJob(i).code = 200 /\ GetJob(i).job.status = StatusActive}
        /\ \A i \in DOMAIN jobs :
              LET s == stats[i]
                  history == jobExecMap[i]
              IN  /\ s.totalExecutions = s.successfulExecutions + s.failedExecutions
                  /\ s.lastExecutionTime =
                        IF history = <<>> THEN Nil
                        ELSE executions[history[Len(history)]].executedAt

(***************************************************************************)
(* No call loses or moves history: jobs stay (deletion is soft), each list *)
(* only grows at its end, and a record keeps its job and its time.         *)
(***************************************************************************)
HistoryKept ==
    [][ /\ DOMAIN jobs \subseteq DOMAIN jobs'
        /\ \A i \in DOMAIN jobExecMap :
              i \in DOMAIN jobExecMap' /\ IsPrefix(jobExecMap[i], jobExecMap'[i])
        /\ \A e \in DOMAIN executions :
              /\ e \in DOMAIN executions'
              /\ executions'[e].jobID = executions[e].jobID
              /\ executions'[e].executedAt = executions[e].executedAt ]_vars

=============================================================================
