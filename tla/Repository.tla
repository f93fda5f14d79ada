----------------------------- MODULE Repository -----------------------------
(***************************************************************************)
(* MemoryRepository of package repository: jobs, execution records and the *)
(* index from a job to its executions, behind one RWMutex.  Every method   *)
(* holds the lock from its first line to its last, so a method is one      *)
(* atomic step; the read methods are operators on the state.               *)
(*                                                                         *)
(* An id "" is NoID.  A generated id is the value of idCounter, the part   *)
(* that makes job_<nanos>_<counter> unique; ids supplied by a caller are   *)
(* negative, so that the two kinds never collide.                          *)
(***************************************************************************)
EXTENDS Integers, Sequences, SequencesExt

VARIABLES
    jobs,         \* r.jobs: job id -> job
    executions,   \* r.executions: execution id -> execution record
    jobExecMap,   \* r.jobExecMap: job id -> sequence of execution ids
    idCounter,    \* r.idCounter
    clock         \* time.Now(), in whole seconds

repoVars == <<jobs, executions, jobExecMap, idCounter>>

-----------------------------------------------------------------------------

NoID == 0          \* the empty id
Nil  == -1         \* a nil *time.Time

StatusActive   == "ACTIVE"
StatusInactive == "INACTIVE"
StatusDeleted  == "DELETED"
JobStatuses    == {StatusActive, StatusInactive, StatusDeleted}

With(f, k, v) == [x \in DOMAIN f \cup {k} |-> IF x = k THEN v ELSE f[x]]

(***************************************************************************)
(* A value stored in a map[string]interface{} carries its dynamic Go type; *)
(* the type switch of an update keeps the old field unless the assertion   *)
(* value.(goType) succeeds.  Absent stands for a key that is not there.    *)
(***************************************************************************)
GoValue(goType, value) == [go |-> goType, val |-> value]
Absent == GoValue("absent", "")
Asserted(v, goType, old) == IF v.go = goType THEN v.val ELSE old

\* mutant: UpdateJob takes a status that is a plain string
ApplyStringStatus(job, updates) ==
    [job EXCEPT !.schedule = Asserted(updates.schedule, "string", @),
                !.type     = Asserted(updates.type, "models.JobType", @),
                !.status   = Asserted(updates.status, "string", @)]

ApplyUpdates(job, updates) ==
    [job EXCEPT !.schedule = Asserted(updates.schedule, "string", @),
                !.type     = Asserted(updates.type, "models.JobType", @),
                !.status   = Asserted(updates.status, "models.JobStatus", @)]

-----------------------------------------------------------------------------
(* Write methods.                                                          *)

CreatedID(id) == IF id = NoID THEN idCounter ELSE id
\* mutant: generateID forgets to count
StuckCounter(id) == idCounter

NextCounter(id) == IF id = NoID THEN idCounter + 1 ELSE idCounter

\* mutant: CreateJob without the check that the id is new
CreateJobUnchecked(id, job) ==
    /\ idCounter' = NextCounter(id)
    /\ jobs' = With(jobs, CreatedID(id), [job EXCEPT !.status = StatusActive])
    /\ jobExecMap' = With(jobExecMap, CreatedID(id), <<>>)
    /\ UNCHANGED executions

\* CreateJob: fails on an id already in use, after the counter has moved
CreateJob(id, job) ==
    /\ idCounter' = NextCounter(id)
    /\ IF CreatedID(id) \in DOMAIN jobs
         THEN UNCHANGED <<jobs, jobExecMap>>
         ELSE /\ jobs' = With(jobs, CreatedID(id),
                              [job EXCEPT !.status = StatusActive])
              /\ jobExecMap' = With(jobExecMap, CreatedID(id), <<>>)
    /\ UNCHANGED executions

UpdateJob(id, updates) ==
    /\ jobs' = IF id \in DOMAIN jobs
                 THEN [jobs EXCEPT ![id] = ApplyUpdates(@, updates)]
                 ELSE jobs
    /\ UNCHANGED <<executions, jobExecMap, idCounter>>

\* DeleteJob only marks the job; it stays in the map
DeleteJob(id) ==
    /\ jobs' = IF id \in DOMAIN jobs
                 THEN [jobs EXCEPT ![id].status = StatusDeleted]
                 ELSE jobs
    /\ UNCHANGED <<executions, jobExecMap, idCounter>>

UpdateJobNextRun(id, nextRun) ==
    /\ jobs' = IF id \in DOMAIN jobs
                 THEN [jobs EXCEPT ![id].nextRun = nextRun]
                 ELSE jobs
    /\ UNCHANGED <<executions, jobExecMap, idCounter>>

UpdateJobLastExecuted(id, lastExecuted) ==
    /\ jobs' = IF id \in DOMAIN jobs
                 THEN [jobs EXCEPT ![id].lastExecuted = lastExecuted]
                 ELSE jobs
    /\ UNCHANGED <<executions, jobExecMap, idCounter>>

\* mutant: the newest execution goes to the front of the index
CreateExecutionInFront(id, execution) ==
    /\ idCounter' = NextCounter(id)
    /\ IF execution.jobID \in DOMAIN jobs
         THEN /\ executions' = With(executions, CreatedID(id),
                                    [execution EXCEPT !.executedAt = clock])
              /\ jobExecMap' = [jobExecMap EXCEPT ![execution.jobID] =
                                    <<CreatedID(id)>> \o @]
         ELSE UNCHANGED <<executions, jobExecMap>>
    /\ UNCHANGED jobs

\* CreateExecution: the id is drawn before the job is looked up
CreateExecution(id, execution) ==
    /\ idCounter' = NextCounter(id)
    /\ IF execution.jobID \in DOMAIN jobs
         THEN /\ executions' = With(executions, CreatedID(id),
                                    [execution EXCEPT !.executedAt = clock])
              /\ jobExecMap' = [jobExecMap EXCEPT ![execution.jobID] =
                                    Append(@, CreatedID(id))]
         ELSE UNCHANGED <<executions, jobExecMap>>
    /\ UNCHANGED jobs

UpdateExecution(id, updates) ==
    /\ executions' = IF id \in DOMAIN executions
                       THEN [executions EXCEPT
                               ![id].success     = Asserted(updates.success, "bool", @),
                               ![id].completedAt = Asserted(updates.completedAt, "time.Time", @)]
                       ELSE executions
    /\ UNCHANGED <<jobs, jobExecMap, idCounter>>

-----------------------------------------------------------------------------
(* The read method of the polling loop; RepositoryReads has the others.    *)

\* mutant: GetActiveJobs without the test of the status
GetEveryJob == jobs

GetActiveJobs == [id \in {i \in DOMAIN jobs : jobs[i].status = StatusActive} |-> jobs[id]]

-----------------------------------------------------------------------------

RepoInit ==
    /\ jobs = [i \in {} |-> Nil]
    /\ executions = [i \in {} |-> Nil]
    /\ jobExecMap = [i \in {} |-> <<>>]
    /\ idCounter = 1
    /\ clock = 1

\* time.Now() does not go backwards within a process; horizon bounds it
Tick(horizon) ==
    /\ clock < horizon
    /\ clock' = clock + 1
    /\ UNCHANGED repoVars

=============================================================================
