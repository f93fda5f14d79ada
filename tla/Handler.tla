------------------------------- MODULE Handler -------------------------------
(***************************************************************************)
(* The HTTP handlers of package api that write: CreateJob, UpdateJob and   *)
(* DeleteJob.  net/http runs each request on a goroutine of its own, so a  *)
(* handler is a small process whose repository calls interleave with those *)
(* of other requests and of the scheduler.  A request that is refused      *)
(* before its first write (a body that does not bind, an expression that   *)
(* does not parse) changes nothing and is no action.                       *)
(***************************************************************************)
EXTENDS Repository, Cron

CONSTANTS
    Handlers,      \* goroutines serving requests
    JobTypes,      \* models.JobType values a create request may carry
    Updates,       \* decoded bodies of update requests
    MaxRequests    \* bound on the number of write requests

ASSUME MaxRequestsAssumption == MaxRequests \in Nat

(***************************************************************************)
(* The values encoding/json decodes into an interface{}: a string is a Go  *)
(* string, never one of the model's named string types.                    *)
(***************************************************************************)
JSONTypes == {"string", "float64", "bool", "slice", "map", "nil"}
JSONValues == [go: JSONTypes \cup {"absent"}, val: STRING]

ASSUME UpdatesAssumption ==
    Updates \subseteq [schedule: JSONValues, type: JSONValues, status: JSONValues]

VARIABLES
    req,           \* req[h]: the request handler h is serving
    requests,      \* number of write requests received
    jobsActive     \* metrics.JobsActiveGauge

handlerVars == <<req, requests, jobsActive>>

-----------------------------------------------------------------------------

HandlerPCs == {"idle", "store", "inc", "reschedule", "apply", "dec"}

NewJob(schedule, type, nextRun) ==
    [schedule |-> schedule, type |-> type, status |-> "",
     nextRun |-> nextRun, lastExecuted |-> Nil]

NoJob == NewJob("", "", Nil)
NoUpdates == [schedule |-> Absent, type |-> Absent, status |-> Absent]

(***************************************************************************)
(* A handler's locals.  stamp is the time.Now() the next run was computed  *)
(* from; the code does not keep it, the properties read it.                *)
(***************************************************************************)
IdleRequest == [at |-> "idle", id |-> NoID, job |-> NoJob, updates |-> NoUpdates,
                nextRun |-> Nil, stamp |-> ZeroTime]

HandlerInit ==
    /\ req = [h \in Handlers |-> IdleRequest]
    /\ requests = 0
    /\ jobsActive = 0

Receive(h) ==
    /\ req[h].at = "idle"
    /\ requests < MaxRequests
    /\ requests' = requests + 1

-----------------------------------------------------------------------------
(* POST /api/v1/jobs                                                       *)

\* validate, and compute the first run from time.Now()
ReceiveCreate(h, schedule, type) ==
    /\ Receive(h)
    /\ Validate(schedule)
    /\ req' = [req EXCEPT ![h] =
                 [IdleRequest EXCEPT
                    !.at = "store", !.stamp = clock,
                    !.job = NewJob(schedule, type, GetNextRun(schedule, clock))]]
    /\ UNCHANGED <<repoVars, jobsActive>>

\* repo.CreateJob, which draws the id; on its error the handler returns
StoreJob(h) ==
    /\ req[h].at = "store"
    /\ CreateJob(NoID, req[h].job)
    /\ req' = [req EXCEPT ![h] =
                 IF CreatedID(NoID) \in DOMAIN jobs
                   THEN IdleRequest
                   ELSE [IdleRequest EXCEPT !.at = "inc"]]
    /\ UNCHANGED <<requests, jobsActive>>

IncGauge(h) ==
    /\ req[h].at = "inc"
    /\ jobsActive' = jobsActive + 1
    /\ req' = [req EXCEPT ![h] = IdleRequest]
    /\ UNCHANGED <<repoVars, requests>>

-----------------------------------------------------------------------------
(* PUT /api/v1/jobs/:id                                                    *)

Reschedules(updates) == updates.schedule.go = "string"

\* mutant: the new schedule is not validated
ReceiveUpdateUnchecked(h, id, updates) ==
    /\ Receive(h)
    /\ req' = [req EXCEPT ![h] =
                 [IdleRequest EXCEPT !.at = "apply", !.id = id, !.updates = updates]]
    /\ UNCHANGED <<repoVars, jobsActive>>

\* with a schedule: validate it and compute the next run from time.Now()
ReceiveUpdate(h, id, updates) ==
    /\ Receive(h)
    /\ Reschedules(updates) => Validate(updates.schedule.val)
    /\ req' = [req EXCEPT ![h] =
                 IF Reschedules(updates)
                   THEN [IdleRequest EXCEPT
                           !.at = "reschedule", !.id = id, !.updates = updates,
                           !.nextRun = GetNextRun(updates.schedule.val, clock),
                           !.stamp = clock]
                   ELSE [IdleRequest EXCEPT
                           !.at = "apply", !.id = id, !.updates = updates]]
    /\ UNCHANGED <<repoVars, jobsActive>>

\* mutant: the job keeps its next run when its schedule changes
RescheduleNothing(h) ==
    /\ req[h].at = "reschedule"
    /\ req' = [req EXCEPT ![h].at = "apply"]
    /\ UNCHANGED <<repoVars, requests, jobsActive>>

\* repo.UpdateJobNextRun; its error is ignored
Reschedule(h) ==
    /\ req[h].at = "reschedule"
    /\ UpdateJobNextRun(req[h].id, req[h].nextRun)
    /\ req' = [req EXCEPT ![h] =
                 [IdleRequest EXCEPT
                    !.at = "apply", !.id = req[h].id, !.updates = req[h].updates,
                    !.stamp = req[h].stamp]]
    /\ UNCHANGED <<requests, jobsActive>>

\* repo.UpdateJob, then the response
Apply(h) ==
    /\ req[h].at = "apply"
    /\ UpdateJob(req[h].id, req[h].updates)
    /\ req' = [req EXCEPT ![h] = IdleRequest]
    /\ UNCHANGED <<requests, jobsActive>>

-----------------------------------------------------------------------------
(* DELETE /api/v1/jobs/:id                                                 *)

\* mutant: the gauge is not lowered
DeleteOnly(h, id) ==
    /\ Receive(h)
    /\ DeleteJob(id)
    /\ UNCHANGED <<req, jobsActive>>

\* repo.DeleteJob succeeds on every job it knows, deleted or not
Delete(h, id) ==
    /\ Receive(h)
    /\ DeleteJob(id)
    /\ req' = [req EXCEPT ![h] =
                 IF id \in DOMAIN jobs
                   THEN [IdleRequest EXCEPT !.at = "dec"]
                   ELSE IdleRequest]
    /\ UNCHANGED jobsActive

DecGauge(h) ==
    /\ req[h].at = "dec"
    /\ jobsActive' = jobsActive - 1
    /\ req' = [req EXCEPT ![h] = IdleRequest]
    /\ UNCHANGED <<repoVars, requests>>

=============================================================================
