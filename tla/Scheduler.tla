------------------------------ MODULE Scheduler ------------------------------
(***************************************************************************)
(* The goroutine Scheduler.run of package scheduler.  One sweep            *)
(* (dispatchDueJobs) copies the active jobs, reads the clock, submits      *)
(* every due job to the executor and only then moves each job's next run   *)
(* on, from the copy's schedule and from the instant the sweep began.      *)
(* Between any two of these calls other goroutines may run.                *)
(*                                                                         *)
(* What the executor does with a submitted job is left to the module that  *)
(* composes: SubmitNext only says which job is handed over, and when.      *)
(***************************************************************************)
EXTENDS Repository, Cron

VARIABLES
    schedPC,    \* where the goroutine is
    snapshot,   \* the job copies the sweep works on: id -> job
    now,        \* the instant read after loading the jobs
    dueJobs,    \* the due jobs' ids, in the order of the slice
    cursor      \* index of the running range loop over dueJobs

schedVars == <<schedPC, snapshot, now, dueJobs, cursor>>

SchedPCs == {"started", "waiting", "collect", "submit", "advance", "returned"}

NoJobs == [i \in {} |-> Nil]

-----------------------------------------------------------------------------

SchedulerInit ==
    /\ schedPC = "started"
    /\ snapshot = NoJobs
    /\ now = ZeroTime
    /\ dueJobs = <<>>
    /\ cursor = 1

(***************************************************************************)
(* A sweep begins: GetActiveJobs copies every active job under the lock.   *)
(* The first sweep starts at once, the others at a tick of the poll timer. *)
(***************************************************************************)
Poll ==
    /\ schedPC \in {"started", "waiting"}
    /\ snapshot' = GetActiveJobs
    /\ schedPC' = "collect"
    /\ UNCHANGED <<now, dueJobs, cursor>>

\* mutants: a job is due one second early; only after its second has passed
DueEarly(copies, instant) ==
    {id \in DOMAIN copies : copies[id].nextRun # Nil /\ instant + 1 >= copies[id].nextRun}

DueLate(copies, instant) ==
    {id \in DOMAIN copies : copies[id].nextRun # Nil /\ copies[id].nextRun < instant}

DueIn(copies, instant) ==
    {id \in DOMAIN copies : copies[id].nextRun # Nil /\ ~(instant < copies[id].nextRun)}

(***************************************************************************)
(* The clock is read after the copy is made.  The copies come from a Go    *)
(* map, so the due jobs stand in any order; the others are not used again. *)
(***************************************************************************)
CollectDue ==
    /\ schedPC = "collect"
    /\ now' = clock
    /\ dueJobs' \in SetToSeqs(DueIn(snapshot, clock))
    /\ snapshot' = Restrict(snapshot, DueIn(snapshot, clock))
    /\ cursor' = 1
    /\ schedPC' = "submit"

\* executor.Submit(job) for the next due job
SubmitNext ==
    /\ schedPC = "submit"
    /\ cursor \in DOMAIN dueJobs
    /\ cursor' = cursor + 1
    /\ UNCHANGED <<schedPC, snapshot, now, dueJobs>>

AllSubmitted ==
    /\ schedPC = "submit"
    /\ cursor \notin DOMAIN dueJobs
    /\ cursor' = 1
    /\ schedPC' = "advance"
    /\ UNCHANGED <<snapshot, now, dueJobs>>

\* mutants: the next run counted from a new time.Now(), or from the slot left
AdvanceFromClock ==
    /\ schedPC = "advance"
    /\ cursor \in DOMAIN dueJobs
    /\ UpdateJobNextRun(dueJobs[cursor],
                        GetNextRun(snapshot[dueJobs[cursor]].schedule, clock))
    /\ cursor' = cursor + 1
    /\ UNCHANGED <<schedPC, snapshot, now, dueJobs>>

AdvanceFromSlot ==
    /\ schedPC = "advance"
    /\ cursor \in DOMAIN dueJobs
    /\ LET copy == snapshot[dueJobs[cursor]]
       IN  UpdateJobNextRun(dueJobs[cursor], GetNextRun(copy.schedule, copy.nextRun))
    /\ cursor' = cursor + 1
    /\ UNCHANGED <<schedPC, snapshot, now, dueJobs>>

\* a schedule that does not parse is logged and skipped
AdvanceNext ==
    /\ schedPC = "advance"
    /\ cursor \in DOMAIN dueJobs
    /\ LET id == dueJobs[cursor]
           schedule == snapshot[id].schedule
       IN  IF Validate(schedule)
             THEN UpdateJobNextRun(id, GetNextRun(schedule, now))
             ELSE UNCHANGED repoVars
    /\ cursor' = cursor + 1
    /\ UNCHANGED <<schedPC, snapshot, now, dueJobs>>

\* the loop's select sees a cancelled context: the goroutine returns
Return(cancelled) ==
    /\ cancelled
    /\ schedPC = "waiting"
    /\ schedPC' = "returned"
    /\ UNCHANGED <<snapshot, now, dueJobs, cursor>>

\* dispatchDueJobs returns; its locals are gone
SweepDone ==
    /\ schedPC = "advance"
    /\ cursor \notin DOMAIN dueJobs
    /\ schedPC' = "waiting"
    /\ snapshot' = NoJobs
    /\ now' = ZeroTime
    /\ dueJobs' = <<>>
    /\ cursor' = 1

=============================================================================
