---------------------------- MODULE JobExecution ----------------------------
(***************************************************************************)
(* What an executor promises to whoever submits a job, without workers,    *)
(* recording goroutines, requests or a repository: the submissions wait in *)
(* a line of bounded length; one after the other is begun; each one begun  *)
(* adds one record to the history of its own job, later and with either    *)
(* outcome; and the time a job was last executed at is one of its history. *)
(*                                                                         *)
(* A patient executor turns nobody away, and does not leave before all it  *)
(* has begun is on record.  One that is not patient may turn a submission  *)
(* away when the line is full, and leave at any time.                      *)
(***************************************************************************)
EXTENDS Integers, Sequences

CONSTANT Capacity   \* how many submissions can wait

VARIABLES
    time,      \* the current instant
    patient,   \* whether the executor is a patient one
    phase,     \* "open" to submissions, "closed", or "gone"
    line,      \* the jobs whose submissions wait, first come first
    account    \* account[id]: what job id has asked for and got

absVars == <<time, patient, phase, line, account>>

Never == -1

\* submissions, executions begun and not recorded, records, last execution time
Fresh == [asked |-> 0, running |-> 0, history |-> <<>>, last |-> Never]

Init ==
    /\ time = 1
    /\ patient \in BOOLEAN
    /\ phase = "open"
    /\ line = <<>>
    /\ account = [id \in {} |-> Fresh]

-----------------------------------------------------------------------------

\* a job becomes known
Register ==
    /\ \E id \in DOMAIN account' \ DOMAIN account :
          account' = [i \in DOMAIN account \cup {id} |->
                        IF i = id THEN Fresh ELSE account[i]]
    /\ UNCHANGED <<time, patient, phase, line>>

Accept(id) ==
    /\ phase = "open"
    /\ Len(line) < Capacity
    /\ line' = Append(line, id)
    /\ account' = [account EXCEPT ![id].asked = @ + 1]
    /\ UNCHANGED <<time, patient, phase>>

TurnAway(id) ==
    /\ phase = "open" /\ ~patient
    /\ Len(line) = Capacity
    /\ account' = [account EXCEPT ![id].asked = @ + 1]
    /\ UNCHANGED <<time, patient, phase, line>>

Begin ==
    /\ phase # "gone"
    /\ line # <<>>
    /\ line' = Tail(line)
    /\ account' = [account EXCEPT ![Head(line)].running = @ + 1]
    /\ UNCHANGED <<time, patient, phase>>

\* an execution that has ended is recorded, now
Record(id) ==
    /\ phase # "gone"
    /\ account[id].running > 0
    /\ \E success \in BOOLEAN, completedAt \in 1 .. time :
          account' = [account EXCEPT
              ![id].running = @ - 1,
              ![id].history = Append(@, [jobID |-> id, executedAt |-> time,
                                         completedAt |-> completedAt, success |-> success])]
    /\ UNCHANGED <<time, patient, phase, line>>

Note(id) ==
    /\ phase # "gone"
    /\ \E k \in DOMAIN account[id].history :
          account' = [account EXCEPT ![id].last = account[id].history[k].completedAt]
    /\ UNCHANGED <<time, patient, phase, line>>

-----------------------------------------------------------------------------

Close ==
    /\ phase = "open"
    /\ phase' = "closed"
    /\ UNCHANGED <<time, patient, line, account>>

\* nothing is under way: every record is there, and every job with one knows of it
Settled ==
    \A id \in DOMAIN account :
        /\ account[id].running = 0
        /\ account[id].history # <<>> => account[id].last # Never

Leave ==
    /\ phase = "closed"
    /\ patient => Settled
    /\ phase' = "gone"
    /\ UNCHANGED <<time, patient, line, account>>

Pass ==
    /\ phase # "gone"
    /\ time' = time + 1
    /\ UNCHANGED <<patient, phase, line, account>>

Next ==
    \/ Register
    \/ \E id \in DOMAIN account : Accept(id) \/ TurnAway(id) \/ Record(id) \/ Note(id)
    \/ Begin
    \/ Close
    \/ Leave
    \/ Pass

Spec == Init /\ [][Next]_absVars

=============================================================================
