---------------------------- MODULE JobScheduling ----------------------------
(***************************************************************************)
(* The scheduler and the write handlers of the API over one repository,    *)
(* under every interleaving of their critical sections and of the clock.   *)
(* The executor here accepts every job at once, as the scheduler's own     *)
(* tests have it; module Executor models the real one.                     *)
(*                                                                         *)
(* The question: which of a job's slots (the seconds its expression names) *)
(* lead to a dispatch, and how often.                                      *)
(***************************************************************************)
EXTENDS Scheduler, Handler

(***************************************************************************)
(* History variables: they record what happened and restrict no step.      *)
(***************************************************************************)
VARIABLES
    log,      \* the dispatches: job, its next run then, the sweep's instant,
              \* and what the store said of the job at that moment
    since,    \* since[id]: the instant job id's next runs are counted from
    raced     \* ids whose schedule a PUT replaced while a sweep or another
              \* PUT was at work on the same job

historyVars == <<log, since, raced>>

vars == <<repoVars, clock, schedVars, handlerVars, historyVars>>

-----------------------------------------------------------------------------

Init ==
    /\ RepoInit
    /\ SchedulerInit
    /\ HandlerInit
    /\ log = {}
    /\ since = [i \in {} |-> ZeroTime]
    /\ raced = {}

Dispatch ==
    LET id == dueJobs[cursor]
    IN  [id |-> id, slot |-> snapshot[id].nextRun, sweep |-> now,
         status |-> jobs[id].status, schedule |-> jobs[id].schedule, since |-> since[id]]

\* the sweep still works with its copy of job id
Pending(id) ==
    \/ schedPC = "collect" /\ id \in DOMAIN snapshot
    \/ schedPC = "submit" /\ \E k \in DOMAIN dueJobs : dueJobs[k] = id
    \/ schedPC = "advance" /\ \E k \in DOMAIN dueJobs : k >= cursor /\ dueJobs[k] = id

\* handler h is replacing the schedule of job id
Replaces(h, id) ==
    /\ req[h].at \in {"reschedule", "apply"}
    /\ Reschedules(req[h].updates)
    /\ req[h].id = id

BeingReplaced(id) == \E h \in Handlers : Replaces(h, id)

SweepStart ==
    /\ Poll
    /\ raced' = raced \cup {id \in DOMAIN snapshot' : BeingReplaced(id)}
    /\ UNCHANGED <<repoVars, clock, handlerVars, log, since>>

Submit ==
    /\ SubmitNext
    /\ log' = log \cup {Dispatch}
    /\ UNCHANGED <<repoVars, clock, handlerVars, since, raced>>

Advance ==
    /\ AdvanceNext
    /\ UNCHANGED <<clock, handlerVars, historyVars>>

SweepControl ==
    /\ CollectDue \/ AllSubmitted \/ SweepDone
    /\ UNCHANGED <<repoVars, clock, handlerVars, historyVars>>

SchedulerStep == SweepStart \/ Submit \/ Advance \/ SweepControl

HandlerStore ==
    \E h \in Handlers :
        /\ StoreJob(h)
        /\ since' = With(since, CreatedID(NoID), req[h].stamp)
        /\ UNCHANGED <<clock, schedVars, log, raced>>

\* ids a client may name: those in the store, and one that is not
SomeID == DOMAIN jobs \cup {NoID}

HandlerPut ==
    \E h \in Handlers, id \in SomeID, u \in Updates :
        /\ ReceiveUpdate(h, id, u)
        /\ raced' = IF Reschedules(u) /\ (Pending(id) \/ BeingReplaced(id))
                      THEN raced \cup {id}
                      ELSE raced
        /\ UNCHANGED <<clock, schedVars, log, since>>

HandlerApply ==
    \E h \in Handlers :
        /\ Apply(h)
        /\ since' = IF Reschedules(req[h].updates) /\ req[h].id \in DOMAIN jobs
                      THEN [since EXCEPT ![req[h].id] = req[h].stamp]
                      ELSE since
        /\ UNCHANGED <<clock, schedVars, log, raced>>

HandlerOther ==
    /\ \E h \in Handlers :
          \/ \E e \in Expressions \cup Malformed, t \in JobTypes : ReceiveCreate(h, e, t)
          \/ \E id \in SomeID : Delete(h, id)
          \/ Reschedule(h)
          \/ IncGauge(h)
          \/ DecGauge(h)
    /\ UNCHANGED <<clock, schedVars, historyVars>>

Time == Tick(MaxTime) /\ UNCHANGED <<schedVars, handlerVars, historyVars>>

Next ==
    \/ SchedulerStep
    \/ HandlerStore
    \/ HandlerPut
    \/ HandlerApply
    \/ HandlerOther
    \/ Time

Spec == Init /\ [][Next]_vars

(***************************************************************************)
(* The scheduler goroutine is never blocked here, and its timer keeps      *)
(* firing: weak fairness of its steps.  Requests and time need not come.   *)
(***************************************************************************)
FairSpec == Spec /\ WF_vars(SchedulerStep)

-----------------------------------------------------------------------------
(* Type correctness.                                                       *)

Instants == Nat \cup {Nil}

JobRecords == [schedule: Expressions, type: JobTypes, status: JobStatuses,
               nextRun: Instants, lastExecuted: Instants]

\* what a handler in the middle of a request has established
RequestOK(r) ==
    /\ r.at \in HandlerPCs
    /\ r.at = "store" =>
          /\ r.stamp \in 1 .. clock
          /\ \E e \in Expressions, t \in JobTypes :
                r.job = NewJob(e, t, GetNextRun(e, r.stamp))
    /\ r.at = "reschedule" =>
          /\ Reschedules(r.updates)
          /\ r.nextRun = GetNextRun(r.updates.schedule.val, r.stamp)
    /\ r.at \in {"reschedule", "apply"} =>
          /\ r.id \in SomeID
          /\ r.updates \in Updates
          /\ Reschedules(r.updates) =>
                Validate(r.updates.schedule.val) /\ r.stamp \in 1 .. clock

(***************************************************************************)
(* Every stored job has an expression that parses, whatever clients send:  *)
(* the handlers validate before they write (handler.go, CreateJob and      *)
(* UpdateJob).  A stored expression that does not parse would be due for   *)
(* ever, because GetNextRun would give it the zero time.                   *)
(***************************************************************************)
TypeOK ==
    /\ \A i \in DOMAIN jobs : i \in 1 .. idCounter - 1 /\ jobs[i] \in JobRecords
    /\ idCounter \in Nat \ {0}
    /\ clock \in 1 .. MaxTime
    /\ schedPC \in SchedPCs
    /\ DOMAIN snapshot \subseteq DOMAIN jobs
    /\ \A i \in DOMAIN snapshot : snapshot[i] \in JobRecords
    /\ now \in 0 .. clock
    /\ \A k \in DOMAIN dueJobs : k \in Int /\ dueJobs[k] \in DOMAIN snapshot
    /\ cursor \in Nat
    /\ DOMAIN req = Handlers
    /\ \A h \in Handlers : RequestOK(req[h])
    /\ DOMAIN since = DOMAIN jobs
    /\ \A i \in DOMAIN jobs : since[i] \in 1 .. clock
    /\ \A d \in log : d.id \in DOMAIN jobs /\ d.sweep \in 1 .. clock
    /\ \A d \in log : d.slot \in Nat /\ d.status \in JobStatuses /\ d.schedule \in Expressions

-----------------------------------------------------------------------------
(* Which slots are dispatched.  A client may replace a job's schedule, and *)
(* the promises below then hold of the new one from the instant of the     *)
(* request, unless the PUT overlapped a sweep or another PUT of the job.   *)

Undisturbed(id) == id \in DOMAIN jobs /\ id \notin raced /\ ~BeingReplaced(id)

Satisfiable(id) == Fires[jobs[id].schedule] # {}

CoveredBy(d, id, slot) ==
    /\ d.id = id /\ d.schedule = jobs[id].schedule
    /\ d.slot <= slot /\ slot <= d.sweep

(***************************************************************************)
(* No slot is skipped: every slot of an undisturbed job between the start  *)
(* of its schedule and its next run is covered by a dispatch, i.e. lies    *)
(* between the slot that made a dispatch due and the instant of that       *)
(* sweep.  Slots that pass while the scheduler is busy are merged into one *)
(* dispatch, but a slot that passes between the sweep's reading of the     *)
(* clock and the update of the next run must not be (scheduler.go:         *)
(* GetNextRun(.., now)).                                                   *)
(***************************************************************************)
NoSlotLost ==
    \A id \in DOMAIN jobs : Undisturbed(id) =>
        \A s \in Fires[jobs[id].schedule] :
            since[id] < s /\ s < jobs[id].nextRun =>
                \E d \in log : CoveredBy(d, id, s)

(***************************************************************************)
(* A dispatch is never early and never for a second the expression does    *)
(* not name: it answers a slot, after the start of the schedule, that had  *)
(* come when the sweep read the clock.  A PUT that replaces the schedule   *)
(* of a job between two sweeps keeps this true (handler.go, UpdateJob).    *)
(***************************************************************************)
NeverEarly ==
    \A d \in log : d.id \notin raced /\ Fires[d.schedule] # {} =>
        /\ d.slot \in Fires[d.schedule]
        /\ d.since < d.slot
        /\ d.slot <= d.sweep /\ d.sweep <= clock

(***************************************************************************)
(* No slot is dispatched twice: a new dispatch of an undisturbed job is    *)
(* for a slot later than every earlier sweep that dispatched it.  This is  *)
(* the exactly-once core of both delivery types (models/job.go).           *)
(***************************************************************************)
AtMostOncePerSlot ==
    [][Submit => LET new == Dispatch
                 IN  Undisturbed(new.id) /\ Satisfiable(new.id) =>
                       \A d \in log : d.id = new.id => d.sweep < new.slot]_vars

(***************************************************************************)
(* A deleted job may be dispatched once more, by the sweep that copied it  *)
(* before the deletion, and never again after that.                        *)
(***************************************************************************)
AtMostOneLateDispatch ==
    [][Submit => LET new == Dispatch
                 IN  new.status = StatusDeleted =>
                       ~\E d \in log : d.id = new.id /\ d.status = StatusDeleted]_vars

(***************************************************************************)
(* Deletion is final: no request, in any order with others, brings a       *)
(* deleted job back (UpdateJob does not look at the status it overwrites). *)
(***************************************************************************)
DeletedForever ==
    [][\A id \in DOMAIN jobs : jobs[id].status = StatusDeleted =>
           id \in DOMAIN jobs' /\ jobs'[id].status = StatusDeleted]_vars

(***************************************************************************)
(* The gauge jobs_active never shows more jobs than are active, up to the  *)
(* deletions whose handler has not reached its Dec yet.                    *)
(***************************************************************************)
ActiveJobs == {id \in DOMAIN jobs : jobs[id].status = StatusActive}

GaugeNeverOverstates ==
    jobsActive <= Cardinality(ActiveJobs)
                    + Cardinality({h \in Handlers : req[h].at = "dec"})

(***************************************************************************)
(* Every slot of an undisturbed active job that the clock reaches is       *)
(* eventually dispatched, unless the job is deleted or given another       *)
(* schedule first (the polling loop; at-least-once of README's Delivery    *)
(* Guarantees, up to the executor's inlet).                                *)
(***************************************************************************)
Owed(id, s) ==
    /\ Undisturbed(id)
    /\ jobs[id].status = StatusActive
    /\ s \in Fires[jobs[id].schedule]
    /\ since[id] < s /\ s <= clock

EverySlotDispatched ==
    \A id \in 1 .. MaxRequests, s \in 1 .. MaxTime :
        Owed(id, s) ~> (\E d \in log : CoveredBy(d, id, s)) \/ ~Owed(id, s)

-----------------------------------------------------------------------------
(* What the scheduler and the handlers implement together.                 *)

\* the jobs no race has touched, and their dispatches at slots
Vouched == DOMAIN jobs \ raced

Promised == [id \in Vouched |-> [schedule |-> jobs[id].schedule, from |-> since[id]]]

Answers == {[id |-> d.id, slot |-> d.slot, sweep |-> d.sweep] :
               d \in {x \in log : x.id \in Vouched /\ Fires[x.schedule] # {}}}

Slots == INSTANCE SlotDispatch WITH time <- clock, promised <- Promised, answers <- Answers

(***************************************************************************)
(* The sweeps, interleaved with creations, PUTs and DELETEs, implement the *)
(* exactly-once promise of SlotDispatch: every dispatch of a job that no   *)
(* race has touched answers the oldest slot still open (scheduler.go).     *)
(***************************************************************************)
SlotsAnsweredInOrder == Slots!Spec

-----------------------------------------------------------------------------
(* What the parser answers, asked at any instant the clock shows.          *)

(***************************************************************************)
(* GetNextNRuns lists the first n slots after the instant asked for, each  *)
(* once and in order, and all there are when there are fewer (parser.go).  *)
(***************************************************************************)
RunsAreTheFirstSlots ==
    \A e \in Expressions, n \in 0 .. MaxTime :
        LET runs == GetNextNRuns(e, n, clock)
            later == {s \in Fires[e] : clock < s}
        IN  /\ Len(runs) <= n
            /\ \A i, j \in DOMAIN runs : i < j => runs[i] < runs[j]
            /\ \A i \in DOMAIN runs : runs[i] \in later
            /\ \A s \in later :
                  \/ \E i \in DOMAIN runs : runs[i] = s
                  \/ Len(runs) = n /\ \A i \in DOMAIN runs : runs[i] < s

(***************************************************************************)
(* IsWithinTimeWindow, asked earlier and answering now, says yes only if a *)
(* slot lies in the window that starts now; it says no only if none lies   *)
(* there, or if a slot passed between its two readings of the clock and    *)
(* hid the ones after it (parser.go).                                      *)
(***************************************************************************)
WindowSeesTheSlot ==
    \A e \in Expressions, window \in 0 .. MaxTime, asked \in 1 .. clock :
        LET near == {s \in Fires[e] : asked < s /\ clock <= s /\ s <= clock + window}
        IN  IF IsWithinTimeWindow(e, window, asked, clock)
              THEN near # {}
              ELSE near = {} \/ \E s \in Fires[e] : asked < s /\ s < clock

-----------------------------------------------------------------------------
(* What the repository's documents promise and this code does not keep.    *)

(***************************************************************************)
(* README, "Update Job": PUT with "status": "INACTIVE" makes a job         *)
(* inactive.  Stated of the step that applies a body to a job it finds.    *)
(***************************************************************************)
StatusUpdateTakesEffect ==
    [][\A h \in Handlers :
          /\ Apply(h)
          /\ req[h].id \in DOMAIN jobs
          /\ req[h].updates.status # Absent
          => jobs'[req[h].id].status = req[h].updates.status.val]_vars

(***************************************************************************)
(* metrics.go: jobs_active is the current number of active jobs.  Stated   *)
(* when no request is in flight.                                           *)
(***************************************************************************)
GaugeCountsActiveJobs ==
    (\A h \in Handlers : req[h].at = "idle") => jobsActive = Cardinality(ActiveJobs)

(***************************************************************************)
(* handler.go: an update of the schedule updates the next run time.  When  *)
(* no request is in flight and no sweep runs, an active job's next run is  *)
(* a slot of its schedule.                                                 *)
(***************************************************************************)
NextRunFollowsSchedule ==
    (schedPC = "waiting" /\ \A h \in Handlers : req[h].at = "idle") =>
        \A id \in ActiveJobs :
            Satisfiable(id) => jobs[id].nextRun \in Fires[jobs[id].schedule]

(***************************************************************************)
(* README: webhooks are executed on CRON schedules.  A job is dispatched   *)
(* only for a second that its expression names.                            *)
(***************************************************************************)
DispatchedOnSchedule ==
    \A d \in log : d.id \notin raced => d.slot \in Fires[d.schedule]

-----------------------------------------------------------------------------
(* Why the properties hold: an inductive invariant.                        *)

InSweep == schedPC \in {"submit", "advance"}

\* the sweep may still submit job id
ToSubmit(id) ==
    \/ schedPC = "collect" /\ id \in DOMAIN snapshot
    \/ schedPC = "submit" /\ \E k \in DOMAIN dueJobs : k >= cursor /\ dueJobs[k] = id

\* the sweep submitted job id and has not moved its next run on yet
Submitted(id) ==
    \/ schedPC = "submit" /\ \E k \in DOMAIN dueJobs : k < cursor /\ dueJobs[k] = id
    \/ schedPC = "advance" /\ \E k \in DOMAIN dueJobs : k >= cursor /\ dueJobs[k] = id

\* the slice names each job once, and every job in it had come due
SweepOK ==
    IF InSweep
      THEN /\ Len(dueJobs) \in Nat /\ DOMAIN dueJobs = 1 .. Len(dueJobs)
           /\ cursor \in 1 .. Len(dueJobs) + 1
           /\ \A k, l \in DOMAIN dueJobs : dueJobs[k] = dueJobs[l] => k = l
           /\ \A k \in DOMAIN dueJobs :
                 /\ snapshot[dueJobs[k]].nextRun \in Nat
                 /\ snapshot[dueJobs[k]].nextRun <= now
           /\ now >= 1
      ELSE dueJobs = <<>>

(***************************************************************************)
(* A PUT that overlaps neither a sweep nor another PUT of its job has the  *)
(* job to itself until it is done: every dispatch lies before its instant, *)
(* and the next run it writes stays.                                       *)
(***************************************************************************)
HasToItself(h, id) ==
    /\ ~Pending(id)
    /\ \A g \in Handlers : Replaces(g, id) => g = h
    /\ \A d \in log : d.id = id => d.sweep <= req[h].stamp
    /\ req[h].at = "apply" =>
          jobs[id].nextRun = GetNextRun(req[h].updates.schedule.val, req[h].stamp)

PutOK ==
    \A h \in Handlers, id \in DOMAIN jobs :
        Replaces(h, id) /\ id \notin raced => HasToItself(h, id)

\* for an undisturbed job the copy is as good as the original
CopyOK ==
    \A id \in DOMAIN jobs : Undisturbed(id) /\ Pending(id) =>
        /\ snapshot[id].schedule = jobs[id].schedule
        /\ snapshot[id].nextRun = jobs[id].nextRun

(***************************************************************************)
(* Where an undisturbed job's next run stands relative to its dispatches:  *)
(* past all of them, except between its submission and its advance, when   *)
(* it is the slot just dispatched.                                         *)
(***************************************************************************)
SlotOK ==
    \A id \in DOMAIN jobs : Undisturbed(id) /\ Satisfiable(id) =>
        /\ jobs[id].nextRun \in Fires[jobs[id].schedule]
        /\ since[id] < jobs[id].nextRun
        /\ IF Submitted(id)
             THEN /\ \A d \in log : d.id = id => d.sweep <= now
                  /\ \E d \in log : /\ d.id = id /\ d.schedule = jobs[id].schedule
                                    /\ d.slot = jobs[id].nextRun /\ d.sweep = now
             ELSE \A d \in log : d.id = id => d.sweep < jobs[id].nextRun

\* a job dispatched after its deletion is not submitted again
LateOK ==
    \A d \in log : d.status = StatusDeleted =>
        jobs[d.id].status = StatusDeleted /\ ~ToSubmit(d.id)

IInv ==
    /\ TypeOK
    /\ SweepOK
    /\ PutOK
    /\ CopyOK
    /\ SlotOK
    /\ NoSlotLost
    /\ NeverEarly
    /\ LateOK

=============================================================================
