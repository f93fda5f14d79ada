---------------------------- MODULE SlotDispatch ----------------------------
(***************************************************************************)
(* What the scheduler promises to whoever creates a job, without sweeps,   *)
(* copies, handlers or a repository: the slots of a job's schedule are     *)
(* answered oldest first, each exactly once, and never before they come.   *)
(* One answer may stand for several slots, those between the slot that     *)
(* caused it and the instant the scheduler answers from.                   *)
(***************************************************************************)
EXTENDS Integers, FiniteSetsExt

CONSTANTS
    Expressions,   \* the schedules a job may have
    Fires          \* Fires[e]: the seconds at which expression e fires

VARIABLES
    time,          \* the current instant
    promised,      \* promised[id]: the schedule job id has, and from when
    answers        \* the answers given for promised jobs

absVars == <<time, promised, answers>>

Init ==
    /\ time = 1
    /\ promised = [id \in {} |-> [schedule |-> "", from |-> 0]]
    /\ answers = {}

\* the slots of job id that have no answer yet
Unanswered(id) ==
    {s \in Fires[promised[id].schedule] :
        /\ promised[id].from < s
        /\ ~\E a \in answers : a.id = id /\ a.slot <= s /\ s <= a.sweep}

-----------------------------------------------------------------------------

(***************************************************************************)
(* A job is created, or gets another schedule: its slots count from an     *)
(* instant that no earlier answer reaches past.                            *)
(***************************************************************************)
Promise ==
    /\ \E id \in DOMAIN promised' :
          /\ promised'[id].schedule \in Expressions
          /\ promised'[id].from <= time
          /\ \A a \in answers : a.id = id => a.sweep <= promised'[id].from
          /\ promised' = [i \in DOMAIN promised \cup {id} |->
                            IF i = id THEN promised'[id] ELSE promised[i]]
    /\ UNCHANGED <<time, answers>>

\* the scheduler no longer vouches for some jobs
Release ==
    /\ DOMAIN promised' \subseteq DOMAIN promised
    /\ promised' = [id \in DOMAIN promised' |-> promised[id]]
    /\ answers' = {a \in answers : a.id \in DOMAIN promised'}
    /\ UNCHANGED time

\* the oldest unanswered slot of a job is answered, once it has come
Answer ==
    \E id \in DOMAIN promised, sweep \in 1 .. time :
        /\ Unanswered(id) # {}
        /\ Min(Unanswered(id)) <= sweep
        /\ answers' = answers \cup
              {[id |-> id, slot |-> Min(Unanswered(id)), sweep |-> sweep]}
        /\ UNCHANGED <<time, promised>>

Pass ==
    /\ time' = time + 1
    /\ UNCHANGED <<promised, answers>>

Next == Promise \/ Release \/ Answer \/ Pass

Spec == Init /\ [][Next]_absVars

=============================================================================
