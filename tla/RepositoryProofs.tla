-------------------------- MODULE RepositoryProofs --------------------------
(***************************************************************************)
(* Proofs about the repository under an arbitrary client, for any number   *)
(* of jobs, executions and supplied ids.                                   *)
(***************************************************************************)
EXTENDS RepositoryClient, CountingLemmas

(***************************************************************************)
(* Why the maps and the index agree.  A generated id is new because it is  *)
(* the counter, which every id in use is below; so a list that grows by it *)
(* still names each execution once.                                        *)
(***************************************************************************)
IdsBelowCounter ==
    /\ idCounter \in Nat \ {0}
    /\ DOMAIN jobs \subseteq Int
    /\ \A i \in DOMAIN jobs : i < idCounter
    /\ DOMAIN executions \subseteq Int \ {NoID}
    /\ \A e \in DOMAIN executions : e < idCounter

ListsHoldOwnRecords ==
    /\ DOMAIN jobExecMap = DOMAIN jobs
    /\ \A i \in DOMAIN jobs :
          /\ jobExecMap[i] \in Seq(DOMAIN executions)
          /\ \A k \in DOMAIN jobExecMap[i] : executions[jobExecMap[i][k]].jobID = i
          /\ \A k, l \in DOMAIN jobExecMap[i] :
                jobExecMap[i][k] = jobExecMap[i][l] => k = l

RecordsAreListed ==
    \A e \in DOMAIN executions :
        /\ executions[e].jobID \in DOMAIN jobs
        /\ \E k \in DOMAIN jobExecMap[executions[e].jobID] :
              jobExecMap[executions[e].jobID][k] = e

RInv ==
    /\ TypeOK /\ clock >= 1
    /\ IdsBelowCounter
    /\ ListsHoldOwnRecords
    /\ RecordsAreListed

(***************************************************************************)
(* RInv is what IndexConsistent asks for.                                  *)
(***************************************************************************)
LEMMA RInvSuffices == RInv => IndexConsistent
<1> SUFFICES ASSUME RInv PROVE IndexConsistent
  OBVIOUS
<1> USE DEF RInv, ListsHoldOwnRecords
<1>1. \A i \in DOMAIN jobExecMap : Range(jobExecMap[i]) \subseteq DOMAIN executions
  <2> TAKE i \in DOMAIN jobExecMap
  <2>1. jobExecMap[i] \in Seq(DOMAIN executions)
    OBVIOUS
  <2> QED
    BY <2>1, RangeOfSeq
<1>2. ASSUME NEW e \in DOMAIN executions
      PROVE  \E i \in DOMAIN jobs :
                /\ executions[e].jobID = i
                /\ \E k \in DOMAIN jobExecMap[i] :
                      \A j \in DOMAIN jobs : \A l \in DOMAIN jobExecMap[j] :
                          jobExecMap[j][l] = e <=> j = i /\ l = k
  <2>1. PICK i \in DOMAIN jobs : executions[e].jobID = i
    BY DEF RecordsAreListed
  <2>2. PICK k \in DOMAIN jobExecMap[i] : jobExecMap[i][k] = e
    BY <2>1 DEF RecordsAreListed
  <2>3. \A j \in DOMAIN jobs : \A l \in DOMAIN jobExecMap[j] :
            jobExecMap[j][l] = e <=> j = i /\ l = k
    BY <2>1, <2>2
  <2> QED
    BY <2>1, <2>2, <2>3
<1> QED
  BY <1>1, <1>2 DEF IndexConsistent

-----------------------------------------------------------------------------
(* The steps.  Kept says what HistoryKept says of one step.                *)

Kept ==
    /\ DOMAIN jobs \subseteq DOMAIN jobs'
    /\ \A i \in DOMAIN jobExecMap :
          i \in DOMAIN jobExecMap' /\ IsPrefix(jobExecMap[i], jobExecMap'[i])
    /\ \A e \in DOMAIN executions :
          /\ e \in DOMAIN executions'
          /\ executions'[e].jobID = executions[e].jobID
          /\ executions'[e].executedAt = executions[e].executedAt

(***************************************************************************)
(* The empty repository has an empty index.                                *)
(***************************************************************************)
LEMMA InitRInv == RepoInit => RInv
BY DEF RepoInit, RInv, TypeOK, IdsBelowCounter, ListsHoldOwnRecords, RecordsAreListed

(***************************************************************************)
(* A list that no call touches has itself as its prefix.                   *)
(***************************************************************************)
LEMMA PrefixOfItself ==
    ASSUME NEW S, NEW s \in Seq(S)
    PROVE  IsPrefix(s, s)
BY LenProperties DEF IsPrefix

\* The same of the list before and after CreateExecution's append.
LEMMA PrefixOfAppend ==
    ASSUME NEW S, NEW s \in Seq(S), NEW x \in S
    PROVE  IsPrefix(s, Append(s, x))
<1>1. /\ Append(s, x) \in Seq(S)
      /\ Len(Append(s, x)) = Len(s) + 1
      /\ \A i \in 1 .. Len(s) : Append(s, x)[i] = s[i]
  BY AppendProperties
<1>2. Len(s) \in Nat
  BY LenProperties
<1>3. SubSeq(s, 1, Len(s)) = s
  BY SubSeqFull
<1>4. \A i \in 1 .. Len(s) : Append(s, x)[i] \in S /\ s[i] \in S
  BY <1>1, ElementOfSeq
<1>5. /\ SubSeq(Append(s, x), 1, Len(s)) \in Seq(S)
      /\ Len(SubSeq(Append(s, x), 1, Len(s))) = Len(s)
      /\ \A i \in 1 .. Len(s) : SubSeq(Append(s, x), 1, Len(s))[i] = s[i]
  <2>1. /\ SubSeq(Append(s, x), 1, Len(s)) \in Seq(S)
        /\ Len(SubSeq(Append(s, x), 1, Len(s))) = IF 1 <= Len(s) THEN Len(s) - 1 + 1 ELSE 0
        /\ \A i \in 1 .. Len(s) - 1 + 1 :
              SubSeq(Append(s, x), 1, Len(s))[i] = Append(s, x)[1 + i - 1]
    BY <1>2, <1>4, SubSeqProperties
  <2> QED
    BY <2>1, <1>1, <1>2
<1>6. SubSeq(Append(s, x), 1, Len(s)) = s
  BY <1>5, SeqEqual
<1> QED
  BY <1>1, <1>2, <1>3, <1>6 DEF IsPrefix

(***************************************************************************)
(* A call that replaces the contents of one job, and touches nothing else, *)
(* keeps RInv when the new contents have their types.                      *)
(***************************************************************************)
JobChanged ==
    /\ DOMAIN jobs' = DOMAIN jobs
    /\ \A i \in DOMAIN jobs :
          /\ jobs'[i].status \in JobStatuses
          /\ jobs'[i].nextRun \in Times /\ jobs'[i].lastExecuted \in Times
    /\ UNCHANGED <<executions, jobExecMap, idCounter, clock>>

\* Such a call keeps the invariant and the history.
LEMMA JobChangedKeeps == RInv /\ JobChanged => RInv' /\ Kept
<1> SUFFICES ASSUME RInv, JobChanged PROVE RInv' /\ Kept
  OBVIOUS
<1>1. TypeOK'
  BY DEF RInv, JobChanged, TypeOK
<1>2. IdsBelowCounter' /\ ListsHoldOwnRecords' /\ RecordsAreListed'
  BY DEF RInv, JobChanged, IdsBelowCounter, ListsHoldOwnRecords, RecordsAreListed
<1>3. Kept
  BY PrefixOfItself DEF RInv, ListsHoldOwnRecords, JobChanged, Kept
<1> QED
  BY <1>1, <1>2, <1>3 DEF RInv, JobChanged

(***************************************************************************)
(* The calls that change one job's contents, and deletion, which marks it. *)
(***************************************************************************)
LEMMA JobCallsKeep ==
    RInv /\ UNCHANGED clock
         /\ (CallUpdateJob \/ CallDeleteJob \/ CallUpdateJobNextRun \/ CallUpdateJobLastExecuted)
    => RInv' /\ Kept
<1> SUFFICES ASSUME RInv, UNCHANGED clock,
                    CallUpdateJob \/ CallDeleteJob \/ CallUpdateJobNextRun
                      \/ CallUpdateJobLastExecuted
             PROVE  JobChanged
  BY JobChangedKeeps
<1>0. \A i \in DOMAIN jobs : /\ jobs[i].status \in JobStatuses
                             /\ jobs[i].nextRun \in Times /\ jobs[i].lastExecuted \in Times
  BY DEF RInv, TypeOK
<1>1. CASE CallUpdateJob
  <2>1. PICK id \in SomeJobID, goType \in {"models.JobStatus", "string"}, s \in JobStatuses :
          UpdateJob(id, StatusUpdate(GoValue(goType, s)))
    BY <1>1 DEF CallUpdateJob
  <2>2. ASSUME NEW job, job.status \in JobStatuses
        PROVE  /\ ApplyUpdates(job, StatusUpdate(GoValue(goType, s))).status \in JobStatuses
               /\ ApplyUpdates(job, StatusUpdate(GoValue(goType, s))).nextRun = job.nextRun
               /\ ApplyUpdates(job, StatusUpdate(GoValue(goType, s))).lastExecuted
                    = job.lastExecuted
    BY <2>2 DEF ApplyUpdates, StatusUpdate, GoValue, Asserted, Absent
  <2>3. PICK next : next = [i \in DOMAIN jobs |->
                              ApplyUpdates(jobs[i], StatusUpdate(GoValue(goType, s)))]
    OBVIOUS
  <2>4. /\ DOMAIN jobs' = DOMAIN jobs
        /\ \A i \in DOMAIN jobs : jobs'[i] = jobs[i] \/ jobs'[i] = next[i]
    BY <2>1, <2>3 DEF UpdateJob
  <2>5. \A i \in DOMAIN jobs :
          /\ next[i].status \in JobStatuses
          /\ next[i].nextRun \in Times /\ next[i].lastExecuted \in Times
    BY <1>0, <2>2, <2>3
  <2> QED
    BY <1>0, <2>1, <2>4, <2>5 DEF JobChanged, UpdateJob
<1>2. CASE CallDeleteJob
  BY <1>0, <1>2 DEF CallDeleteJob, DeleteJob, JobChanged, JobStatuses
<1>3. CASE CallUpdateJobNextRun
  BY <1>0, <1>3, ClientAssumption DEF CallUpdateJobNextRun, UpdateJobNextRun, JobChanged, Times
<1>4. CASE CallUpdateJobLastExecuted
  BY <1>0, <1>4, ClientAssumption
     DEF CallUpdateJobLastExecuted, UpdateJobLastExecuted, JobChanged, Times
<1> QED
  BY <1>1, <1>2, <1>3, <1>4

(***************************************************************************)
(* CreateJob: an id that is in use is refused, a new one gets a list.      *)
(***************************************************************************)
LEMMA CreateJobKeeps == RInv /\ CallCreateJob /\ UNCHANGED clock => RInv' /\ Kept
<1> SUFFICES ASSUME RInv, CallCreateJob, UNCHANGED clock PROVE RInv' /\ Kept
  OBVIOUS
<1>1. PICK id \in {NoID} \cup SuppliedIDs : CreateJob(id, JobRecord)
  BY DEF CallCreateJob
<1>2. PICK new : new = CreatedID(id)
  OBVIOUS
<1>3. /\ new \in Int /\ idCounter' \in Nat \ {0}
      /\ new < idCounter' /\ idCounter <= idCounter' /\ idCounter \in Nat \ {0}
  BY <1>1, <1>2, ClientAssumption
  DEF RInv, IdsBelowCounter, CreatedID, NextCounter, CreateJob, NoID
<1>4. CASE new \in DOMAIN jobs
  <2>1. UNCHANGED <<jobs, executions, jobExecMap, clock>>
    BY <1>1, <1>2, <1>4 DEF CreateJob
  <2>2. TypeOK'
    BY <1>3, <2>1 DEF RInv, TypeOK, IdsBelowCounter
  <2>3. IdsBelowCounter' /\ ListsHoldOwnRecords' /\ RecordsAreListed'
    BY <1>3, <2>1 DEF RInv, IdsBelowCounter, ListsHoldOwnRecords, RecordsAreListed
  <2>4. Kept
    BY <2>1, PrefixOfItself DEF RInv, ListsHoldOwnRecords, Kept
  <2> QED
    BY <2>1, <2>2, <2>3, <2>4 DEF RInv
<1>5. CASE new \notin DOMAIN jobs
  <2>1. /\ jobs' = With(jobs, new, [JobRecord EXCEPT !.status = StatusActive])
        /\ jobExecMap' = With(jobExecMap, new, <<>>)
        /\ UNCHANGED <<executions, clock>>
    BY <1>1, <1>2, <1>5 DEF CreateJob
  <2>2. /\ DOMAIN jobs' = DOMAIN jobs \cup {new}
        /\ \A i \in DOMAIN jobs : jobs'[i] = jobs[i]
        /\ jobs'[new].status \in JobStatuses
        /\ jobs'[new].nextRun \in Times /\ jobs'[new].lastExecuted \in Times
    <3>1. PICK job : job = [JobRecord EXCEPT !.status = StatusActive]
      OBVIOUS
    <3>2. job.status \in JobStatuses /\ job.nextRun \in Times /\ job.lastExecuted \in Times
      <4>1. job.status = StatusActive
        BY <3>1 DEF JobRecord
      <4>2. job.nextRun = Nil /\ job.lastExecuted = Nil
        BY <3>1 DEF JobRecord
      <4> QED
        BY <4>1, <4>2 DEF JobStatuses, Times, Nil
    <3>3. jobs' = With(jobs, new, job)
      BY <2>1, <3>1
    <3> QED
      BY <1>5, <3>2, <3>3 DEF With
  <2>3. /\ DOMAIN jobExecMap' = DOMAIN jobs'
        /\ \A i \in DOMAIN jobs : jobExecMap'[i] = jobExecMap[i]
        /\ jobExecMap'[new] = <<>>
    BY <1>5, <2>1, <2>2 DEF With, RInv, ListsHoldOwnRecords
  <2>4. TypeOK'
    <3>1. \A i \in DOMAIN jobExecMap' : jobExecMap'[i] \in Seq(Int \ {NoID})
      <4> TAKE i \in DOMAIN jobExecMap'
      <4>1. CASE i = new
        BY <2>3, <4>1
      <4>2. CASE i # new
        <5>1. i \in DOMAIN jobExecMap /\ jobExecMap'[i] = jobExecMap[i]
          BY <2>2, <2>3, <4>2 DEF RInv, ListsHoldOwnRecords
        <5> QED
          BY <5>1 DEF RInv, TypeOK
      <4> QED
        BY <4>1, <4>2
    <3>2. \A e \in DOMAIN executions' : e \in Int \ {NoID} /\ e < idCounter'
      BY <1>3, <2>1 DEF RInv, IdsBelowCounter
    <3> QED
      BY <1>3, <2>1, <2>2, <3>1, <3>2 DEF RInv, TypeOK, IdsBelowCounter
  <2>5. IdsBelowCounter'
    BY <1>3, <2>1, <2>2 DEF RInv, IdsBelowCounter
  <2>6. ListsHoldOwnRecords' /\ RecordsAreListed'
    <3>1. /\ jobExecMap'[new] \in Seq(DOMAIN executions')
          /\ DOMAIN jobExecMap'[new] = {}
      BY <2>3
    <3>2. ListsHoldOwnRecords'
      BY <2>1, <2>2, <2>3, <3>1 DEF RInv, ListsHoldOwnRecords
    <3>3. RecordsAreListed'
      BY <2>1, <2>2, <2>3 DEF RInv, RecordsAreListed
    <3> QED
      BY <3>2, <3>3
  <2>7. Kept
    BY <2>1, <2>2, <2>3, PrefixOfItself DEF RInv, ListsHoldOwnRecords, Kept
  <2> QED
    BY <2>1, <2>4, <2>5, <2>6, <2>7 DEF RInv
<1> QED
  BY <1>4, <1>5

(***************************************************************************)
(* CreateExecution: the record and the entry at the end of its job's list  *)
(* come together, under an id that no record has, the counter's or one of  *)
(* the client's own; for a job that is not there only the counter moves.   *)
(***************************************************************************)
LEMMA CreateExecutionKeeps ==
    RInv /\ CallCreateExecution /\ UNCHANGED clock => RInv' /\ Kept
<1> SUFFICES ASSUME RInv, CallCreateExecution, UNCHANGED clock PROVE RInv' /\ Kept
  OBVIOUS
<1>1. PICK own \in {NoID} \cup (SuppliedIDs \ DOMAIN executions), id \in SomeJobID, ok \in BOOLEAN :
         CreateExecution(own, ExecutionRecord(id, ok))
  BY DEF CallCreateExecution
<1>2. PICK new : new = CreatedID(own)
  OBVIOUS
<1>3. /\ new \in Int \ {NoID} /\ new < idCounter' /\ jobs' = jobs
      /\ idCounter' \in Nat \ {0} /\ idCounter <= idCounter' /\ idCounter \in Nat \ {0}
      /\ new \notin DOMAIN executions
  BY <1>1, <1>2, ClientAssumption
  DEF CreateExecution, CreatedID, NextCounter, NoID, RInv, IdsBelowCounter
<1>4. CASE id \notin DOMAIN jobs
  <2>1. UNCHANGED <<jobs, executions, jobExecMap, clock>>
    BY <1>1, <1>4 DEF CreateExecution, ExecutionRecord
  <2>2. TypeOK'
    BY <1>3, <2>1 DEF RInv, TypeOK, IdsBelowCounter
  <2>3. IdsBelowCounter' /\ ListsHoldOwnRecords' /\ RecordsAreListed'
    BY <1>3, <2>1 DEF RInv, IdsBelowCounter, ListsHoldOwnRecords, RecordsAreListed
  <2>4. Kept
    BY <2>1, PrefixOfItself DEF RInv, ListsHoldOwnRecords, Kept
  <2> QED
    BY <2>1, <2>2, <2>3, <2>4 DEF RInv
<1>5. CASE id \in DOMAIN jobs
  <2>1. PICK record : record = [ExecutionRecord(id, ok) EXCEPT !.executedAt = clock]
    OBVIOUS
  <2>2. record.jobID = id /\ record.executedAt = clock /\ record.success = ok
    BY <2>1 DEF ExecutionRecord
  <2>3. /\ executions' = With(executions, new, record)
        /\ jobExecMap' = [jobExecMap EXCEPT ![id] = Append(@, new)]
    BY <1>1, <1>2, <1>5, <2>1 DEF CreateExecution, ExecutionRecord
  <2>4. /\ DOMAIN executions' = DOMAIN executions \cup {new}
        /\ executions'[new] = record
        /\ \A e \in DOMAIN executions : executions'[e] = executions[e]
    BY <1>3, <2>3 DEF With
  <2>5. /\ DOMAIN jobExecMap = DOMAIN jobs /\ DOMAIN jobExecMap' = DOMAIN jobs
        /\ jobExecMap'[id] = Append(jobExecMap[id], new)
        /\ \A i \in DOMAIN jobs : i # id => jobExecMap'[i] = jobExecMap[i]
    BY <1>5, <2>3 DEF RInv, ListsHoldOwnRecords
  <2>6. \A i \in DOMAIN jobs :
          jobExecMap[i] \in Seq(DOMAIN executions) /\ jobExecMap[i] \in Seq(DOMAIN executions')
    BY <2>4, SeqMonotonic DEF RInv, ListsHoldOwnRecords
  <2>7. PICK list : list = jobExecMap[id]
    OBVIOUS
  <2>8. /\ list \in Seq(DOMAIN executions)
        /\ Len(list) \in Nat /\ DOMAIN list = 1 .. Len(list)
        /\ \A k \in DOMAIN list : list[k] \in DOMAIN executions
    BY <1>5, <2>6, <2>7, LenProperties, ElementOfSeq
  <2>9. /\ Append(list, new) \in Seq(DOMAIN executions')
        /\ DOMAIN Append(list, new) = DOMAIN list \cup {Len(list) + 1}
        /\ \A k \in DOMAIN list : Append(list, new)[k] = list[k]
        /\ Append(list, new)[Len(list) + 1] = new
    <3>1. list \in Seq(DOMAIN executions') /\ new \in DOMAIN executions'
      BY <1>5, <2>4, <2>6, <2>7
    <3>2. /\ Append(list, new) \in Seq(DOMAIN executions')
          /\ Len(Append(list, new)) = Len(list) + 1
          /\ \A k \in 1 .. Len(list) : Append(list, new)[k] = list[k]
          /\ Append(list, new)[Len(list) + 1] = new
      BY <3>1, AppendProperties
    <3>3. DOMAIN Append(list, new) = 1 .. Len(list) + 1
      BY <3>2, LenProperties
    <3> QED
      BY <2>8, <3>2, <3>3
  <2>10. ListsHoldOwnRecords'
    <3>1. DOMAIN jobExecMap' = DOMAIN jobs'
      BY <1>3, <2>5
    <3>2. ASSUME NEW i \in DOMAIN jobs, i # id
          PROVE  /\ jobExecMap'[i] \in Seq(DOMAIN executions')
                 /\ \A k \in DOMAIN jobExecMap'[i] : executions'[jobExecMap'[i][k]].jobID = i
                 /\ \A k, l \in DOMAIN jobExecMap'[i] :
                       jobExecMap'[i][k] = jobExecMap'[i][l] => k = l
      <4>1. jobExecMap'[i] = jobExecMap[i] /\ jobExecMap'[i] \in Seq(DOMAIN executions')
        BY <2>5, <2>6, <3>2
      <4>2. \A k \in DOMAIN jobExecMap[i] : jobExecMap[i][k] \in DOMAIN executions
        BY <2>6, LenProperties, ElementOfSeq
      <4> QED
        BY <2>4, <4>1, <4>2 DEF RInv, ListsHoldOwnRecords
    <3>3. /\ jobExecMap'[id] \in Seq(DOMAIN executions')
          /\ \A k \in DOMAIN jobExecMap'[id] : executions'[jobExecMap'[id][k]].jobID = id
          /\ \A k, l \in DOMAIN jobExecMap'[id] :
                jobExecMap'[id][k] = jobExecMap'[id][l] => k = l
      <4>1. jobExecMap'[id] = Append(list, new)
        BY <2>5, <2>7
      <4>2. /\ \A k \in DOMAIN list : executions[list[k]].jobID = id
            /\ \A k, l \in DOMAIN list : list[k] = list[l] => k = l
        BY <1>5, <2>7 DEF RInv, ListsHoldOwnRecords
      <4>3. \A k \in DOMAIN list : list[k] # new
        BY <1>3, <2>8
      <4> QED
        BY <2>2, <2>4, <2>8, <2>9, <4>1, <4>2, <4>3
    <3> QED
      BY <1>3, <3>1, <3>2, <3>3 DEF ListsHoldOwnRecords
  <2>11. RecordsAreListed'
    <3>1. ASSUME NEW e \in DOMAIN executions, NEW i, i = executions[e].jobID
          PROVE  i \in DOMAIN jobs /\ \E k \in DOMAIN jobExecMap'[i] : jobExecMap'[i][k] = e
      <4>1. i \in DOMAIN jobs /\ \E k \in DOMAIN jobExecMap[i] : jobExecMap[i][k] = e
        BY <3>1 DEF RInv, RecordsAreListed
      <4> QED
        BY <2>5, <2>7, <2>9, <4>1
    <3>2. \E k \in DOMAIN jobExecMap'[id] : jobExecMap'[id][k] = new
      BY <2>5, <2>7, <2>9
    <3> QED
      BY <1>3, <1>5, <2>2, <2>4, <3>1, <3>2 DEF RecordsAreListed
  <2>12. IdsBelowCounter'
    BY <1>3, <2>4 DEF RInv, IdsBelowCounter
  <2>13. TypeOK'
    <3>1. \A i \in DOMAIN jobExecMap' : jobExecMap'[i] \in Seq(Int \ {NoID})
      BY <2>5, <2>10, <2>12, <1>3, SeqMonotonic DEF ListsHoldOwnRecords, IdsBelowCounter
    <3>2. \A e \in DOMAIN executions' :
            /\ e \in Int \ {NoID} /\ e < idCounter'
            /\ executions'[e].executedAt \in 1 .. clock
            /\ executions'[e].success \in BOOLEAN
      <4>1. \A e \in DOMAIN executions' : e \in Int \ {NoID} /\ e < idCounter'
        BY <2>12 DEF IdsBelowCounter
      <4>2. clock \in 1 .. clock
        BY DEF RInv, TypeOK
      <4> QED
        BY <2>2, <2>4, <4>1, <4>2 DEF RInv, TypeOK
    <3> QED
      BY <1>3, <3>1, <3>2 DEF RInv, TypeOK, IdsBelowCounter
  <2>14. Kept
    <3>1. \A i \in DOMAIN jobExecMap : IsPrefix(jobExecMap[i], jobExecMap'[i])
      <4> TAKE i \in DOMAIN jobExecMap
      <4>1. CASE i = id
        <5>1. list \in Seq(DOMAIN executions') /\ new \in DOMAIN executions'
          BY <1>5, <2>4, <2>6, <2>7
        <5>2. IsPrefix(list, Append(list, new))
          BY <5>1, PrefixOfAppend
        <5> QED
          BY <2>5, <2>7, <4>1, <5>2
      <4>2. CASE i # id
        BY <2>5, <2>6, <4>2, PrefixOfItself
      <4> QED
        BY <4>1, <4>2
    <3> QED
      BY <1>3, <2>4, <2>5, <3>1 DEF Kept
  <2> QED
    BY <2>10, <2>11, <2>12, <2>13, <2>14 DEF RInv
<1> QED
  BY <1>4, <1>5

(***************************************************************************)
(* UpdateExecution: the outcome of a record may change, its job and its    *)
(* time do not.                                                            *)
(***************************************************************************)
LEMMA UpdateExecutionKeeps ==
    RInv /\ CallUpdateExecution /\ UNCHANGED clock => RInv' /\ Kept
<1> SUFFICES ASSUME RInv, CallUpdateExecution, UNCHANGED clock PROVE RInv' /\ Kept
  OBVIOUS
<1>1. /\ UNCHANGED <<jobs, jobExecMap, idCounter>>
      /\ DOMAIN executions' = DOMAIN executions
      /\ \A e \in DOMAIN executions :
            /\ executions'[e].jobID = executions[e].jobID
            /\ executions'[e].executedAt = executions[e].executedAt
            /\ executions'[e].success \in BOOLEAN
  <2>1. PICK id \in SomeExecutionID, ok \in BOOLEAN :
          UpdateExecution(id, [success |-> GoValue("bool", ok), completedAt |-> Absent])
    BY DEF CallUpdateExecution
  <2>2. \A e \in DOMAIN executions : executions[e].success \in BOOLEAN
    BY DEF RInv, TypeOK
  <2> QED
    BY <2>1, <2>2 DEF UpdateExecution, GoValue, Absent, Asserted
<1>2. TypeOK'
  BY <1>1 DEF RInv, TypeOK
<1>3. IdsBelowCounter'
  BY <1>1 DEF RInv, IdsBelowCounter
<1>4. ListsHoldOwnRecords'
  <2>1. \A i \in DOMAIN jobs : \A k \in DOMAIN jobExecMap[i] :
          jobExecMap[i][k] \in DOMAIN executions
    BY LenProperties, ElementOfSeq DEF RInv, ListsHoldOwnRecords
  <2> QED
    BY <1>1, <2>1 DEF RInv, ListsHoldOwnRecords
<1>5. RecordsAreListed'
  BY <1>1 DEF RInv, RecordsAreListed
<1>6. Kept
  BY <1>1, PrefixOfItself DEF RInv, ListsHoldOwnRecords, Kept
<1> QED
  BY <1>2, <1>3, <1>4, <1>5, <1>6 DEF RInv

(***************************************************************************)
(* The clock, and a step of the environment that changes nothing.          *)
(***************************************************************************)
LEMMA ClockKeeps == RInv /\ (Tick(Horizon) \/ UNCHANGED vars) => RInv' /\ Kept
<1> SUFFICES ASSUME RInv, Tick(Horizon) \/ UNCHANGED vars PROVE RInv' /\ Kept
  OBVIOUS
<1>1. UNCHANGED repoVars /\ clock' \in Nat /\ clock <= clock' /\ clock \in Nat
  BY DEF Tick, vars, RInv, TypeOK
<1>2. TypeOK'
  BY <1>1 DEF RInv, TypeOK, repoVars
<1>3. IdsBelowCounter' /\ ListsHoldOwnRecords' /\ RecordsAreListed'
  BY <1>1 DEF RInv, IdsBelowCounter, ListsHoldOwnRecords, RecordsAreListed, repoVars
<1>4. Kept
  BY <1>1, PrefixOfItself DEF RInv, ListsHoldOwnRecords, Kept, repoVars
<1> QED
  BY <1>1, <1>2, <1>3, <1>4 DEF RInv

-----------------------------------------------------------------------------

\* Every step keeps RInv and the history.
LEMMA StepKeeps == RInv /\ [Next]_vars => RInv' /\ Kept
<1> SUFFICES ASSUME RInv, [Next]_vars PROVE RInv' /\ Kept
  OBVIOUS
<1> QED
  BY JobCallsKeep, CreateJobKeeps, CreateExecutionKeeps, UpdateExecutionKeeps, ClockKeeps
  DEF Next

(***************************************************************************)
(* RInv holds in every state of every run.                                 *)
(***************************************************************************)
THEOREM RepositoryInvariance == Spec => []RInv
<1>1. RepoInit => RInv
  BY InitRInv
<1>2. RInv /\ [Next]_vars => RInv'
  BY StepKeeps
<1> QED
  BY <1>1, <1>2, PTL DEF Spec

(***************************************************************************)
(* Types are kept, and no id in use reaches the counter (generateID).      *)
(***************************************************************************)
THEOREM RepositoryTypeCorrect == Spec => []TypeOK
<1>1. RInv => TypeOK
  BY DEF RInv
<1> QED
  BY RepositoryInvariance, <1>1, PTL

(***************************************************************************)
(* Each execution stands exactly once, in the list of its own job, as long *)
(* as a client that supplies an execution's id supplies a new one: then    *)
(* CreateExecution, which does not look, replaces no record.               *)
(***************************************************************************)
THEOREM IndexAgrees == Spec => []IndexConsistent
BY RepositoryInvariance, RInvSuffices, PTL

(***************************************************************************)
(* No call loses or moves history.                                         *)
(***************************************************************************)
THEOREM HistoryIsKept == Spec => HistoryKept
<1>1. RInv /\ [Next]_vars => [Kept]_vars
  BY StepKeeps
<1> QED
  BY RepositoryInvariance, <1>1, PTL DEF Spec, HistoryKept, Kept

-----------------------------------------------------------------------------
(* Reading.                                                                *)

(***************************************************************************)
(* What the reads rest on besides RInv: jobs and records are finitely      *)
(* many, and a list has a length that is an int, and its records in the    *)
(* order of their times.                                                   *)
(***************************************************************************)
InOrder(list) ==
    \A k, l \in DOMAIN list :
        k < l => executions[list[k]].executedAt <= executions[list[l]].executedAt

OInv ==
    /\ IsFiniteSet(DOMAIN jobs) /\ IsFiniteSet(DOMAIN executions)
    /\ \A i \in DOMAIN jobs : InOrder(jobExecMap[i]) /\ Len(jobExecMap[i]) <= MaxInt

\* The calls that add no job and no record.
SameShape ==
    /\ DOMAIN jobs' = DOMAIN jobs /\ jobExecMap' = jobExecMap
    /\ DOMAIN executions' = DOMAIN executions
    /\ \A e \in DOMAIN executions : executions'[e].executedAt = executions[e].executedAt

\* A list has its entries at 1 .. Len, and each is on record.
LEMMA ListElements ==
    ASSUME RInv, NEW i \in DOMAIN jobs
    PROVE  /\ Len(jobExecMap[i]) \in Nat
           /\ DOMAIN jobExecMap[i] = 1 .. Len(jobExecMap[i])
           /\ \A k \in DOMAIN jobExecMap[i] : jobExecMap[i][k] \in DOMAIN executions
BY LenProperties, ElementOfSeq DEF RInv, ListsHoldOwnRecords

\* Such a call leaves the lists in order.
LEMMA SameShapeKeeps == RInv /\ OInv /\ SameShape => OInv'
<1> SUFFICES ASSUME RInv, OInv, SameShape PROVE OInv'
  OBVIOUS
<1>1. ASSUME NEW i \in DOMAIN jobs PROVE InOrder(jobExecMap[i])' /\ Len(jobExecMap'[i]) <= MaxInt
  BY ListElements DEF OInv, SameShape, InOrder
<1> QED
  BY <1>1 DEF OInv, SameShape

\* A new job adds one key and an empty list.
LEMMA CreateJobOrder == RInv /\ OInv /\ CallCreateJob => OInv'
<1> SUFFICES ASSUME RInv, OInv, CallCreateJob PROVE OInv'
  OBVIOUS
<1>1. PICK id \in {NoID} \cup SuppliedIDs : CreateJob(id, JobRecord)
  BY DEF CallCreateJob
<1>2. CASE CreatedID(id) \in DOMAIN jobs
  BY <1>1, <1>2, SameShapeKeeps DEF CreateJob, SameShape
<1>3. CASE CreatedID(id) \notin DOMAIN jobs
  <2>1. PICK new : new = CreatedID(id)
    OBVIOUS
  <2>2. /\ DOMAIN jobs' = DOMAIN jobs \cup {new} /\ executions' = executions
        /\ \A i \in DOMAIN jobs : jobExecMap'[i] = jobExecMap[i]
        /\ jobExecMap'[new] = <<>>
    BY <1>1, <1>3, <2>1 DEF CreateJob, With, RInv, ListsHoldOwnRecords
  <2>3. IsFiniteSet(DOMAIN jobs') /\ IsFiniteSet(DOMAIN executions')
    BY <2>2, FS_AddElement DEF OInv
  <2>4. \A i \in DOMAIN jobs' : InOrder(jobExecMap[i])' /\ Len(jobExecMap'[i]) <= MaxInt
    BY <2>2, ReadsAssumption DEF OInv, InOrder
  <2> QED
    BY <2>3, <2>4 DEF OInv
<1> QED
  BY <1>2, <1>3

\* A new record is stamped now, so its list stays in order with it at the end.
LEMMA CreateExecutionOrder ==
    RInv /\ OInv /\ CallCreateExecution /\ UNCHANGED clock => OInv'
<1> SUFFICES ASSUME RInv, OInv, CallCreateExecution PROVE OInv'
  OBVIOUS
<1>1. PICK own \in {NoID} \cup (SuppliedIDs \ DOMAIN executions), id \in SomeJobID, ok \in BOOLEAN :
         CreateExecution(own, ExecutionRecord(id, ok))
  BY DEF CallCreateExecution
<1>2. CASE id \notin DOMAIN jobs
  BY <1>1, <1>2, SameShapeKeeps DEF CreateExecution, ExecutionRecord, SameShape
<1>3. CASE id \in DOMAIN jobs
  <2>1. PICK record : record = [ExecutionRecord(id, ok) EXCEPT !.executedAt = clock]
    OBVIOUS
  <2>2. PICK new : new = CreatedID(own)
    OBVIOUS
  <2>3. /\ executions' = With(executions, new, record) /\ record.executedAt = clock
        /\ jobExecMap' = [jobExecMap EXCEPT ![id] = Append(@, new)]
        /\ jobs' = jobs
    BY <1>1, <1>3, <2>1, <2>2 DEF CreateExecution, ExecutionRecord
  <2>n. new \notin DOMAIN executions
    BY <1>1, <2>2 DEF CreatedID, RInv, IdsBelowCounter
  <2>4. /\ new \notin DOMAIN executions
        /\ \A e \in DOMAIN executions : /\ executions[e].executedAt \in 1 .. clock
                                        /\ executions'[e] = executions[e]
        /\ executions'[new].executedAt = clock /\ clock \in Nat
    BY <2>3, <2>n DEF With, RInv, TypeOK
  <2>5. PICK list, m : list = jobExecMap[id] /\ m = Len(list)
    OBVIOUS
  <2>6. /\ m \in Nat /\ DOMAIN list = 1 .. m
        /\ \A k \in 1 .. m : list[k] \in DOMAIN executions
        /\ InOrder(list)
    BY <1>3, <2>5, ListElements DEF OInv
  <2>7. PICK longer : longer = Append(list, new)
    OBVIOUS
  <2>8. /\ DOMAIN longer = 1 .. m + 1 /\ longer[m + 1] = new
        /\ \A k \in 1 .. m : longer[k] = list[k]
    <3>1. list \in Seq(DOMAIN executions \cup {new})
      BY <1>3, <2>5, SeqMonotonic DEF RInv, ListsHoldOwnRecords
    <3> QED
      BY <2>5, <2>7, <3>1, AppendProperties, LenProperties
  <2>9. InOrder(longer)'
    <3> SUFFICES ASSUME NEW k \in 1 .. m + 1, NEW l \in 1 .. m + 1, k < l
                 PROVE  executions'[longer[k]].executedAt <= executions'[longer[l]].executedAt
      BY <2>8 DEF InOrder
    <3>1. k \in 1 .. m /\ longer[k] = list[k]
      BY <2>6, <2>8
    <3>2. CASE l = m + 1
      BY <2>4, <2>6, <2>8, <3>1, <3>2
    <3>3. CASE l # m + 1
      <4>1. l \in 1 .. m /\ longer[l] = list[l]
        BY <2>6, <2>8, <3>3
      <4> QED
        BY <2>4, <2>6, <3>1, <4>1 DEF InOrder
    <3> QED
      BY <3>2, <3>3
  <2>10. ASSUME NEW i \in DOMAIN jobs, i # id
         PROVE  InOrder(jobExecMap[i])' /\ Len(jobExecMap'[i]) <= MaxInt
    <3>1. jobExecMap'[i] = jobExecMap[i]
      BY <2>3, <2>10 DEF RInv, ListsHoldOwnRecords
    <3>2. /\ InOrder(jobExecMap[i]) /\ Len(jobExecMap[i]) <= MaxInt
          /\ \A k \in DOMAIN jobExecMap[i] : jobExecMap[i][k] \in DOMAIN executions
      BY <2>10, ListElements DEF OInv
    <3> QED
      BY <2>4, <3>1, <3>2 DEF InOrder
  <2>11. InOrder(jobExecMap[id])' /\ Len(jobExecMap'[id]) <= MaxInt
    <3>1. jobExecMap'[id] = longer
      BY <1>3, <2>3, <2>5, <2>7 DEF RInv, ListsHoldOwnRecords
    <3>2. m < MaxInt
      BY <1>3, <2>5 DEF CallCreateExecution, RInv, ListsHoldOwnRecords
    <3>3. Len(longer) = m + 1
      <4>1. list \in Seq(DOMAIN executions \cup {new})
        BY <1>3, <2>5, SeqMonotonic DEF RInv, ListsHoldOwnRecords
      <4> QED
        BY <2>5, <2>7, <4>1, AppendProperties
    <3>4. Len(longer) <= MaxInt
      BY <2>6, <3>2, <3>3, ReadsAssumption
    <3> QED
      BY <2>9, <3>1, <3>4 DEF InOrder
  <2>12. IsFiniteSet(DOMAIN executions')
    <3>1. DOMAIN executions' = DOMAIN executions \cup {new}
      BY <2>3 DEF With
    <3> QED
      BY <3>1, FS_AddElement DEF OInv
  <2> QED
    BY <2>3, <2>10, <2>11, <2>12 DEF OInv
<1> QED
  BY <1>2, <1>3

\* Every call keeps jobs and records finite and the lists short and in order.
LEMMA StepOrder == RInv /\ OInv /\ [Next]_vars => OInv'
<1> SUFFICES ASSUME RInv, OInv, [Next]_vars PROVE OInv'
  OBVIOUS
<1>1. CASE CallUpdateJob \/ CallDeleteJob \/ CallUpdateJobNextRun \/ CallUpdateJobLastExecuted
  <2>1. SameShape
    BY <1>1 DEF CallUpdateJob, CallDeleteJob, CallUpdateJobNextRun, CallUpdateJobLastExecuted,
                UpdateJob, DeleteJob, UpdateJobNextRun, UpdateJobLastExecuted, SameShape
  <2> QED
    BY <2>1, SameShapeKeeps
<1>2. CASE CallUpdateExecution
  <2>1. PICK id, u : UpdateExecution(id, u)
    BY <1>2 DEF CallUpdateExecution
  <2>2. SameShape
    BY <2>1 DEF UpdateExecution, SameShape
  <2> QED
    BY <2>2, SameShapeKeeps
<1>3. CASE Tick(Horizon) \/ UNCHANGED vars
  <2>1. SameShape
    BY <1>3 DEF Tick, vars, repoVars, SameShape
  <2> QED
    BY <2>1, SameShapeKeeps
<1>4. CASE CallCreateJob
  BY <1>4, CreateJobOrder
<1>5. CASE CallCreateExecution /\ UNCHANGED clock
  BY <1>5, CreateExecutionOrder
<1> QED
  BY <1>1, <1>2, <1>3, <1>4, <1>5 DEF Next

\* What the reads rest on holds throughout.
LEMMA ReadingInvariance == Spec => [](RInv /\ OInv)
<1>1. RepoInit => OInv
  BY FS_EmptySet DEF RepoInit, OInv
<1>2. OInv /\ RInv /\ [Next]_vars => OInv'
  BY StepOrder
<1> QED
  BY <1>1, <1>2, RepositoryInvariance, PTL DEF Spec

RoundsBetween(first, last) == IF last > first THEN 0 ELSE first - last + 1

\* The n entries of a list below the one at top, downwards.
Downwards(ids, top, size) == [k \in 1 .. size |-> ids[top - k]]

DownwardsOnRecord(ids, top, size) ==
    \A k \in 1 .. size : ids[top - k] \in DOMAIN executions

(***************************************************************************)
(* The loop over a page, when all its ids are on record: it visits the     *)
(* list backwards and leaves nothing out.  The list after k rounds is      *)
(* defined by recursion; an explicit function satisfies the same equation, *)
(* and two that do agree, by the least index at which they would not.      *)
(***************************************************************************)
LEMMA NewestFirstIsReversed ==
    ASSUME NEW list, NEW first \in Int, NEW last \in Int, NEW n \in Nat,
           n = RoundsBetween(first, last),
           DownwardsOnRecord(list, first + 2, n)
    PROVE  NewestFirst(list, first, last) = Downwards(list, first + 2, n)
<1> DEFINE at(k) == list[first + 2 - k]
           step(f, k) == IF k = 0 THEN <<>>
                         ELSE IF at(k) \in DOMAIN executions THEN Append(f[k - 1], at(k))
                              ELSE f[k - 1]
           result[k \in 0 .. n] == step(result, k)
           shown(k) == [j \in 1 .. k |-> at(j)]
           g == [k \in 0 .. n |-> shown(k)]
<1>1. NewestFirst(list, first, last) = result[n]
  BY DEF NewestFirst, RoundsBetween
<1>0. \A k \in 1 .. n : at(k) \in DOMAIN executions
  BY DEF DownwardsOnRecord
<1>2. g = [k \in 0 .. n |-> step(g, k)]
  <2> SUFFICES ASSUME NEW k \in 0 .. n PROVE shown(k) = step(g, k)
    OBVIOUS
  <2>1. CASE k = 0
    BY <2>1
  <2>2. CASE k # 0
    <3>1. k - 1 \in 0 .. n /\ k \in 1 .. n /\ at(k) \in DOMAIN executions
      BY <1>0, <2>2
    <3>2. g[k - 1] = shown(k - 1) /\ step(g, k) = Append(g[k - 1], at(k))
      BY <2>2, <3>1
    <3>3. PICK s, t, x, m : /\ s = shown(k - 1) /\ t = shown(k) /\ x = at(k) /\ m = k - 1
      OBVIOUS
    <3>4. /\ s \in Seq(DOMAIN executions) /\ x \in DOMAIN executions
          /\ Len(s) = m /\ m \in Nat
      <4>1. m \in Nat /\ 1 .. m \subseteq 1 .. n
        BY <3>1, <3>3
      <4>2. \A j \in 1 .. n : at(j) \in DOMAIN executions
        BY <1>0
      <4>3. s = [j \in 1 .. m |-> at(j)]
        BY <3>3
      <4> HIDE DEF at
      <4>4. s \in [1 .. m -> DOMAIN executions]
        BY <4>1, <4>2, <4>3
      <4>5. s \in Seq(DOMAIN executions) /\ Len(s) = m
        BY <4>1, <4>4, SequenceOfLength
      <4> QED
        BY <3>1, <3>3, <4>1, <4>5
    <3>5. /\ Append(s, x) \in Seq(DOMAIN executions)
          /\ Len(Append(s, x)) = m + 1
          /\ \A j \in 1 .. m : Append(s, x)[j] = s[j]
          /\ Append(s, x)[m + 1] = x
      BY <3>4, AppendProperties
    <3>6. /\ t \in Seq(DOMAIN executions) /\ Len(t) = m + 1
          /\ \A j \in 1 .. m : t[j] = s[j]
          /\ t[m + 1] = x
      <4>1. \A j \in 1 .. m + 1 : at(j) \in DOMAIN executions
        <5>1. \A j \in 1 .. m + 1 : j \in 1 .. n
          BY <3>1, <3>3
        <5> QED
          BY <1>0, <5>1
      <4>2. /\ t = [j \in 1 .. m + 1 |-> at(j)] /\ s = [j \in 1 .. m |-> at(j)]
            /\ x = at(m + 1)
        BY <3>1, <3>3
      <4> HIDE DEF at
      <4>3. t \in [1 .. m + 1 -> DOMAIN executions] /\ m + 1 \in Nat
        BY <3>4, <4>1, <4>2
      <4>4. t \in Seq(DOMAIN executions) /\ Len(t) = m + 1
        BY <4>3, SequenceOfLength
      <4> QED
        BY <3>4, <4>2, <4>4
    <3>7. t = Append(s, x)
      <4>1. \A j \in 1 .. m + 1 : t[j] = Append(s, x)[j]
        BY <3>4, <3>5, <3>6
      <4> QED
        BY <3>5, <3>6, <4>1, SeqEqual
    <3> QED
      BY <3>2, <3>3, <3>7
  <2> QED
    BY <2>1, <2>2
<1> HIDE DEF g
<1>3. result = [k \in 0 .. n |-> step(result, k)]
  <2>1. \E f : f = [k \in 0 .. n |-> step(f, k)]
    BY <1>2
  <2> HIDE DEF step
  <2> QED
    BY <2>1
<1> HIDE DEF result
<1>4. \A k \in 0 .. n : result[k] = g[k]
  <2> SUFFICES ASSUME NEW k \in 0 .. n, result[k] # g[k] PROVE FALSE
    OBVIOUS
  <2>1. PICK T : T = {j \in 0 .. n : result[j] # g[j]}
    OBVIOUS
  <2>2. PICK j \in T : \A i \in T : j <= i
    BY <2>1, LeastNatural
  <2>3. result[j] = step(result, j) /\ g[j] = step(g, j)
    <3>1. j \in 0 .. n
      BY <2>1
    <3> HIDE DEF step
    <3> QED
      BY <1>2, <1>3, <3>1
  <2>4. CASE j = 0
    BY <2>1, <2>3, <2>4
  <2>5. CASE j # 0
    <3>1. j - 1 \in 0 .. n /\ j - 1 \notin T
      BY <2>1, <2>2, <2>5
    <3>2. result[j - 1] = g[j - 1]
      BY <2>1, <3>1
    <3> QED
      BY <2>1, <2>3, <2>5, <3>2
  <2> QED
    BY <2>4, <2>5
<1>5. g[n] = Downwards(list, first + 2, n)
  BY DEF g, Downwards
<1> QED
  BY <1>1, <1>4, <1>5

\* how many entries of a list a page can have, and has
Left(total, offset) == IF offset < total THEN total - offset ELSE 0
Cut(limit, left) == IF limit < left THEN limit ELSE left

\* The rounds of the loop, from the index total - 1 - start down to LastIndex.
Rounds(total, start, end) == RoundsBetween(total - 1 - start, LastIndex(total, end))

\* The k-th entry of the page, by the index of the loop and from the newest.
Backwards(total, start, offset, n) ==
    \A k \in 1 .. n : /\ total - 1 - start + 2 - k \in 1 .. total
                     /\ total - 1 - start + 2 - k = total + 1 - offset - k

Fits(total, left, limit, max) == total - left + limit <= max

\* A request for n of a list's total entries, left of them after offset.
Request(total, limit, offset, max, left, n) ==
    /\ total \in Nat /\ limit \in Nat \ {0} /\ offset \in Nat
    /\ max \in Nat /\ max = MaxInt
    /\ left = Left(total, offset) /\ n = Cut(limit, left)

\* The end of a page, in terms of the sum that may have wrapped.
LEMMA EndOfPage ==
    ASSUME NEW total \in Nat, NEW start \in Nat, NEW limit \in Nat, NEW max \in Nat, max = MaxInt
    PROVE  \E sum : /\ sum = IF start + limit > max THEN start + limit - 2 * (max + 1)
                                                    ELSE start + limit
                    /\ PageEnd(total, start, limit) = IF sum > total THEN total ELSE sum
<1>1. PICK sum : sum = Wrapped(start + limit)
  OBVIOUS
<1>2. sum = IF start + limit > max THEN start + limit - 2 * (max + 1) ELSE start + limit
  <2>1. PICK n : n = start + limit
    OBVIOUS
  <2>2. sum = IF n > max THEN n - 2 * (max + 1) ELSE n
    BY <1>1, <2>1, Zenon DEF Wrapped
  <2> QED
    BY <2>1, <2>2
<1>3. PageEnd(total, start, limit) = IF sum > total THEN total ELSE sum
  BY <1>1 DEF PageEnd
<1> QED
  BY <1>2, <1>3

(***************************************************************************)
(* The clamps of a page.  Where start + limit wraps, end is far below zero *)
(* and the difference total - end wraps in its turn, to left - limit; that *)
(* is where the loop would stop had nothing wrapped, and it is below zero. *)
(***************************************************************************)
LEMMA Clamps ==
    ASSUME NEW total, NEW limit, NEW offset, NEW max, NEW left, NEW n,
           Request(total, limit, offset, max, left, n), total <= max, limit <= max,
           NEW start, start = PageStart(total, offset),
           NEW end, end = PageEnd(total, start, limit)
    PROVE  /\ left \in Nat /\ n \in Nat /\ start \in Nat /\ end \in Int
           /\ LastIndex(total, end) \in Nat
           /\ n = Rounds(total, start, end)
           /\ Backwards(total, start, offset, n)
<1> USE DEF Request, Left, Cut, PageStart
<1>1. /\ left \in Nat /\ start \in Nat /\ start = total - left /\ left <= total
      /\ n \in Nat /\ n <= left
  OBVIOUS
<1>0. PICK sum : /\ sum = IF start + limit > max THEN start + limit - 2 * (max + 1)
                                                 ELSE start + limit
                 /\ end = IF sum > total THEN total ELSE sum
  BY <1>1, EndOfPage
<1>2. sum \in Int /\ end \in Int
  BY <1>0, <1>1
<1>3. PICK difference, last :
         /\ difference = IF total - end > max THEN total - end - 2 * (max + 1) ELSE total - end
         /\ last = IF difference > 0 THEN difference ELSE 0
  OBVIOUS
<1>4. LastIndex(total, end) = last
  BY <1>3 DEF LastIndex, Wrapped
<1>r. Rounds(total, start, end) = IF last > total - 1 - start THEN 0 ELSE total - 1 - start - last + 1
  BY <1>4 DEF Rounds, RoundsBetween
<1>5. ASSUME start + limit > max
      PROVE  n = Rounds(total, start, end)
  <2>1. end = start + limit - 2 * (max + 1)
    BY <1>0, <1>1, <1>5
  <2>2. difference = left - limit /\ left < limit
    BY <1>1, <1>3, <1>5, <2>1
  <2>3. last = 0 /\ n = left
    BY <1>1, <1>3, <2>2
  <2> QED
    BY <1>1, <1>r, <2>3
<1>6. ASSUME ~(start + limit > max)
      PROVE  n = Rounds(total, start, end)
  <2>1. end = start + n
    BY <1>0, <1>1, <1>6
  <2>2. last = left - n
    BY <1>1, <1>3, <2>1
  <2> QED
    BY <1>1, <1>r, <2>2
<1>7. LastIndex(total, end) \in Nat /\ n = Rounds(total, start, end)
  <2>1. last \in Nat
    BY <1>1, <1>2, <1>3
  <2> QED
    BY <1>4, <1>5, <1>6, <2>1
<1>8. Backwards(total, start, offset, n)
  BY <1>1 DEF Backwards
<1> QED
  BY <1>1, <1>2, <1>7, <1>8

\* A request for n records of a list of which all are on record.
PageAsked(list, limit, offset, n) ==
    /\ Request(Len(list), limit, offset, MaxInt, Left(Len(list), offset), n)
    /\ Len(list) <= MaxInt /\ limit <= MaxInt
    /\ DownwardsOnRecord(list, Len(list) + 1, Len(list))

(***************************************************************************)
(* What a page shows, for any limit and offset that are ints.              *)
(***************************************************************************)
LEMMA PageIsStretch ==
    ASSUME NEW list, NEW limit, NEW offset, NEW n, PageAsked(list, limit, offset, n)
    PROVE  /\ n \in Nat
           /\ Page(list, limit, offset) = Downwards(list, Len(list) + 1 - offset, n)
<1>0. PICK total, left, max :
         total = Len(list) /\ left = Left(total, offset) /\ max = MaxInt
  OBVIOUS
<1>a. /\ Request(total, limit, offset, max, left, n) /\ total <= max /\ limit <= max
      /\ DownwardsOnRecord(list, total + 1, total)
  BY <1>0, Zenon DEF PageAsked
<1>1. PICK start, end : start = PageStart(total, offset) /\ end = PageEnd(total, start, limit)
  OBVIOUS
<1>2. PICK first, last : first = total - 1 - start /\ last = LastIndex(total, end)
  OBVIOUS
<1>3. Page(list, limit, offset) = NewestFirst(list, first, last)
  <2>1. Page(list, limit, offset) = NewestFirst(list, total - 1 - start, LastIndex(total, end))
    BY <1>0, <1>1 DEF Page
  <2> QED
    BY <1>2, <2>1
<1>4. /\ left \in Nat /\ n \in Nat /\ start \in Nat
      /\ LastIndex(total, end) \in Nat
      /\ n = Rounds(total, start, end)
      /\ Backwards(total, start, offset, n)
  BY <1>a, <1>1, Clamps
<1>5. total \in Nat /\ limit \in Nat /\ offset \in Nat
  BY <1>a DEF Request
<1>6. first \in Int /\ last \in Int /\ n \in Nat
  BY <1>2, <1>4, <1>5
<1>7. n = RoundsBetween(first, last)
  BY <1>2, <1>4, Zenon DEF Rounds
<1>8. \A k \in 1 .. n : /\ first + 2 - k \in 1 .. total
                        /\ first + 2 - k = total + 1 - offset - k
  <2>1. \A k \in 1 .. n : /\ total - 1 - start + 2 - k \in 1 .. total
                          /\ total - 1 - start + 2 - k = total + 1 - offset - k
    BY <1>4, Zenon DEF Backwards
  <2> QED
    BY <1>2, <2>1
<1>9. DownwardsOnRecord(list, first + 2, n)
  <2>0. PICK top, above : top = first + 2 /\ above = total + 1
    OBVIOUS
  <2>1. DownwardsOnRecord(list, above, total)
    BY <1>a, <2>0, Zenon
  <2>2. \A k \in 1 .. n : list[top - k] \in DOMAIN executions
    <3> SUFFICES ASSUME NEW k \in 1 .. n PROVE list[top - k] \in DOMAIN executions
      OBVIOUS
    <3>1. PICK j : j = above - (top - k)
      OBVIOUS
    <3>2. j \in 1 .. total /\ above - j = top - k
      BY <1>4, <1>5, <1>6, <1>8, <2>0, <3>1
    <3>3. list[above - j] \in DOMAIN executions
      BY <2>1, <3>2 DEF DownwardsOnRecord
    <3> QED
      BY <3>2, <3>3
  <2>3. DownwardsOnRecord(list, top, n)
    BY <2>2 DEF DownwardsOnRecord
  <2> QED
    BY <2>0, <2>3, Zenon
<1>10. NewestFirst(list, first, last) = Downwards(list, first + 2, n)
  BY <1>6, <1>7, <1>9, NewestFirstIsReversed, Zenon
<1>11. Downwards(list, first + 2, n) = Downwards(list, total + 1 - offset, n)
  <2>0. PICK top, other : top = first + 2 /\ other = total + 1 - offset
    OBVIOUS
  <2>1. \A k \in 1 .. n : top - k = other - k
    BY <1>5, <1>6, <1>8, <2>0
  <2>2. Downwards(list, top, n) = Downwards(list, other, n)
    BY <2>1 DEF Downwards
  <2> QED
    BY <2>0, <2>2, Zenon
<1> QED
  BY <1>0, <1>3, <1>6, <1>10, <1>11

(***************************************************************************)
(* A page is a stretch of the history, newest first.                       *)
(***************************************************************************)
LEMMA PagesFollow == RInv /\ OInv => PagesShowWholeHistory
<1> DEFINE Shown(i, limit, offset) ==
             LET history == jobExecMap[i]
                 total == Len(history)
                 left == IF offset < total THEN total - offset ELSE 0
                 page == GetJobExecutions(i, limit, offset)
             IN  /\ Len(page) = IF limit < left THEN limit ELSE left
                 /\ \A k \in DOMAIN page : page[k] = history[total + 1 - offset - k]
<1>1. ASSUME RInv, OInv, NEW i \in DOMAIN jobs,
             NEW limit \in 1 .. MaxInt, NEW offset \in 0 .. MaxInt
      PROVE  Shown(i, limit, offset)
  <2>0. PICK list, total, left, page :
          /\ list = jobExecMap[i] /\ total = Len(list)
          /\ left = Left(total, offset)
          /\ page = Page(list, limit, offset)
    OBVIOUS
  <2>1. PICK n, max : n = Cut(limit, left) /\ max = MaxInt
    OBVIOUS
  <2>2. max \in Nat /\ limit \in Nat \ {0} /\ offset \in Nat /\ limit <= max
    BY <2>1, ReadsAssumption
  <2>3. /\ total \in Nat /\ total <= max
        /\ DownwardsOnRecord(list, total + 1, total)
    <3>1. /\ total \in Nat /\ total <= max
          /\ \A k \in 1 .. total : list[k] \in DOMAIN executions
      BY <1>1, <2>0, <2>1, ListElements DEF OInv
    <3> QED
      BY <3>1 DEF DownwardsOnRecord
  <2>r. Request(total, limit, offset, max, left, n)
    BY <2>0, <2>1, <2>2, <2>3 DEF Request
  <2>p. PageAsked(list, limit, offset, n)
    BY <2>0, <2>1, <2>2, <2>3, <2>r, Zenon DEF PageAsked
  <2>s. n \in Nat /\ Page(list, limit, offset) = Downwards(list, Len(list) + 1 - offset, n)
    BY <2>p, PageIsStretch, Zenon
  <2>t. page = [k \in 1 .. n |-> list[total + 1 - offset - k]]
    <3>0. PICK top : top = total + 1 - offset
      OBVIOUS
    <3>1. page = Downwards(list, top, n)
      BY <2>0, <2>s, <3>0, Zenon
    <3>2. page = [k \in 1 .. n |-> list[top - k]]
      BY <3>1 DEF Downwards
    <3> QED
      BY <2>2, <2>3, <2>s, <3>0, <3>2
  <2> HIDE DEF Shown
  <2>4. Shown(i, limit, offset) <=>
          Len(page) = n /\ \A k \in DOMAIN page : page[k] = list[total + 1 - offset - k]
    BY <2>0, <2>1, Zenon DEF Shown, GetJobExecutions, Left, Cut
  <2>5. Len(page) = n
    <3>1. page \in [1 .. n -> {page[j] : j \in 1 .. n}]
      BY <2>t
    <3> QED
      BY <2>s, <3>1, SequenceOfLength
  <2> QED
    BY <2>t, <2>4, <2>5
<1> QED
  BY <1>1, Zenon DEF PagesShowWholeHistory

\* The pages up to the last reach the end of the list.
LEMMA LastPage ==
    ASSUME NEW all \in Nat \ {0}, NEW limit \in Nat \ {0}
    PROVE  /\ (all - 1) \div limit \in Nat
           /\ all <= ((all - 1) \div limit) * limit + limit
<1>1. PICK a : a = all - 1
  OBVIOUS
<1>2. a \in Nat /\ all = a + 1
  BY <1>1
<1>3. PICK q : q = a \div limit
  OBVIOUS
<1>4. q \in Nat /\ a < q * limit + limit
  BY <1>2, <1>3
<1>5. q * limit \in Nat
  BY <1>4
<1> QED
  BY <1>1, <1>2, <1>3, <1>4, <1>5

(***************************************************************************)
(* The page on which a walk meets the r-th record: the first that, on the  *)
(* list as it then is, begins at or before the record's place from the     *)
(* newest and ends behind it.  While the list grows the record only moves  *)
(* towards later pages, so no page before it can have passed it by.        *)
(***************************************************************************)
LEMMA WalkMeets ==
    ASSUME NEW all \in Nat, NEW limit \in Nat \ {0}, NEW last \in Nat,
           all <= last * limit + limit,
           NEW length \in [0 .. last -> 1 .. all],
           \A p, q \in 0 .. last : p < q => length[p] <= length[q],
           NEW r \in 1 .. length[0]
    PROVE  \E p \in 0 .. last :
              /\ p * limit \in Nat
              /\ r + p * limit <= length[p] /\ length[p] < r + p * limit + limit
<1>0. length[0] \in 1 .. all /\ r \in Nat \ {0} /\ r <= length[0]
  OBVIOUS
<1>1. PICK T : T = {p \in 0 .. last : length[p] < r + p * limit + limit}
  OBVIOUS
<1>2. last \in T
  <2>1. PICK L, m : L = length[last] /\ m = last * limit
    OBVIOUS
  <2>2. L \in 1 .. all /\ m \in Nat /\ all <= m + limit
    BY <2>1
  <2>3. L < r + m + limit
    BY <1>0, <2>2
  <2> QED
    BY <1>1, <2>1, <2>3
<1>3. PICK p \in T : \A q \in T : p <= q
  <2>1. T \subseteq 0 .. last
    BY <1>1, Zenon
  <2>2. T \in SUBSET Nat
    BY <2>1
  <2>3. T # {}
    BY <1>2
  <2> QED
    BY <2>2, <2>3, LeastNatural
<1>4. p \in 0 .. last /\ length[p] \in 1 .. all /\ p * limit \in Nat
  BY <1>1, <1>3
<1>5. r + p * limit <= length[p]
  <2>1. CASE p = 0
    BY <1>0, <2>1
  <2>2. CASE p # 0
    <3>1. PICK q : q = p - 1
      OBVIOUS
    <3>2. q \in 0 .. last /\ q < p /\ q \notin T /\ p = q + 1
      BY <1>3, <1>4, <2>2, <3>1
    <3>3. PICK Lq, Lp, mq, mp :
            /\ Lq = length[q] /\ Lp = length[p] /\ mq = q * limit /\ mp = p * limit
      OBVIOUS
    <3>4. mp = mq + limit /\ mq \in Nat
      BY <3>2, <3>3
    <3>5. Lq \in 1 .. all /\ Lp \in 1 .. all /\ Lq <= Lp
      BY <1>4, <3>2, <3>3
    <3>6. ~(Lq < r + mq + limit)
      BY <1>1, <3>2, <3>3
    <3>7. r + mp <= Lp
      BY <1>0, <3>4, <3>5, <3>6
    <3> QED
      BY <3>3, <3>7
  <2> QED
    BY <2>1, <2>2
<1> QED
  BY <1>1, <1>3, <1>4, <1>5

(***************************************************************************)
(* A walk over a growing history misses nothing.                           *)
(***************************************************************************)
LEMMA WalkFollows == RInv /\ OInv => WalkMissesNothing
<1> DEFINE Growing(length, last) == \A p, q \in 0 .. last : p < q => length[p] <= length[q]
           Met(history, length, p, limit, r) ==
               history[r] \in Range(Page(SubSeq(history, 1, length[p]), limit, p * limit))
<1>1. ASSUME RInv, OInv, NEW i \in DOMAIN jobs, NEW history, history = jobExecMap[i],
             history # <<>>, NEW limit \in 1 .. MaxInt, NEW last, last = (Len(history) - 1) \div limit,
             NEW length \in [0 .. last -> 1 .. Len(history)], Growing(length, last),
             NEW r \in 1 .. length[0]
      PROVE  \E p \in 0 .. last : Met(history, length, p, limit, r)
  <2>1. PICK all, max : all = Len(history) /\ max = MaxInt
    OBVIOUS
  <2>2. /\ all \in Nat \ {0} /\ limit \in Nat \ {0} /\ limit <= max /\ all <= max /\ max \in Nat
        /\ \A k \in 1 .. all : history[k] \in DOMAIN executions
    <3>1. /\ all \in Nat /\ all <= max
          /\ \A k \in 1 .. all : history[k] \in DOMAIN executions
      BY <1>1, <2>1, ListElements DEF OInv
    <3>2. history \in Seq(DOMAIN executions)
      BY <1>1 DEF RInv, ListsHoldOwnRecords
    <3>3. all # 0
      BY <1>1, <2>1, <3>2, EmptySeq
    <3> QED
      BY <2>1, <3>1, <3>3, ReadsAssumption
  <2>3. last \in Nat /\ all <= last * limit + limit
    BY <1>1, <2>1, <2>2, LastPage
  <2>4. PICK p \in 0 .. last :
          /\ p * limit \in Nat
          /\ r + p * limit <= length[p] /\ length[p] < r + p * limit + limit
    BY <1>1, <2>1, <2>2, <2>3, WalkMeets
  <2>5. PICK sub, total, offset : /\ sub = SubSeq(history, 1, length[p])
                                  /\ total = length[p] /\ offset = p * limit
    OBVIOUS
  <2>6. /\ total \in 1 .. all /\ offset \in Nat /\ r + offset <= total
        /\ total < r + offset + limit
    BY <1>1, <2>1, <2>4, <2>5
  <2>7. /\ Len(sub) = total
        /\ \A k \in 1 .. total : sub[k] = history[k]
        /\ \A k \in 1 .. total : sub[k] \in DOMAIN executions
    <3>1. \A k \in 1 .. total : history[k] \in DOMAIN executions
      BY <2>2, <2>6
    <3>2. total \in Int /\ 1 <= total /\ sub = SubSeq(history, 1, total)
      BY <2>5, <2>6
    <3>3. /\ Len(sub) = IF 1 <= total THEN total - 1 + 1 ELSE 0
          /\ \A k \in 1 .. total - 1 + 1 : sub[k] = history[1 + k - 1]
      BY <3>1, <3>2, SubSeqProperties
    <3> QED
      BY <3>1, <3>2, <3>3
  <2>8. PICK left, n : left = Left(total, offset) /\ n = Cut(limit, left)
    OBVIOUS
  <2>9. r \in Nat \ {0}
    BY <1>1, <2>1
  <2>10. left = total - offset /\ left \in Nat /\ r <= left
    BY <2>6, <2>8, <2>9 DEF Left
  <2>11. Request(total, limit, offset, max, left, n)
    BY <2>1, <2>2, <2>6, <2>8 DEF Request
  <2>12. total <= max /\ limit <= max
    BY <2>2, <2>6
  <2>top. PICK top : top = total + 1 - offset
    OBVIOUS
  <2>13. Page(sub, limit, offset) = [k \in 1 .. n |-> sub[top - k]]
    <3>1. DownwardsOnRecord(sub, total + 1, total)
      BY <2>6, <2>7 DEF DownwardsOnRecord
    <3>2. PageAsked(sub, limit, offset, n)
      BY <2>1, <2>7, <2>8, <2>11, <2>12, <3>1, Zenon DEF PageAsked
    <3>3. Page(sub, limit, offset) = Downwards(sub, Len(sub) + 1 - offset, n)
      BY <3>2, PageIsStretch, Zenon
    <3>4. Page(sub, limit, offset) = Downwards(sub, top, n)
      BY <2>7, <2>top, <3>3, Zenon
    <3> QED
      BY <3>4 DEF Downwards
  <2>14. PICK k : k = top - r
    OBVIOUS
  <2>15. k \in 1 .. n /\ top - k = r
    BY <2>2, <2>6, <2>8, <2>9, <2>10, <2>top, <2>14 DEF Cut
  <2>16. r \in 1 .. total
    BY <2>6, <2>9
  <2>17. Page(sub, limit, offset)[k] = history[r] /\ k \in DOMAIN Page(sub, limit, offset)
    BY <2>7, <2>13, <2>15, <2>16
  <2> QED
    BY <2>5, <2>17 DEF Range
<1> QED
  BY <1>1, Zenon DEF WalkMissesNothing

(***************************************************************************)
(* A listing over one order of the jobs that match.                        *)
(***************************************************************************)

\* An enumeration of a finite set names each member, once.
LEMMA Enumerates ==
    ASSUME NEW S, IsFiniteSet(S), NEW order \in SetToSeqs(S),
           NEW total, total = Cardinality(S)
    PROVE  /\ total \in Nat /\ order \in Seq(S) /\ Len(order) = total
           /\ DOMAIN order = 1 .. total
           /\ \A j, k \in 1 .. total : order[j] = order[k] => j = k
           /\ \A x \in S : \E k \in 1 .. total : order[k] = x
<1>1. /\ total \in Nat /\ order \in [1 .. total -> S]
      /\ \A j, k \in 1 .. total : order[j] = order[k] => j = k
  <2>1. total \in Nat
    BY FS_CardinalityType
  <2>2. /\ order \in [1 .. total -> S]
        /\ \A j, k \in 1 .. total : j # k => order[j] # order[k]
    BY DEF SetToSeqs
  <2> QED
    BY <2>1, <2>2
<1>2. order \in Injection(1 .. total, S)
  BY <1>1 DEF Injection, IsInjective
<1>3. IsFiniteSet(1 .. total) /\ Cardinality(1 .. total) = total
  BY <1>1, FS_Interval
<1>4. order \in Surjection(1 .. total, S)
  BY <1>2, <1>3, FS_Injection
<1>5. \A x \in S : \E k \in 1 .. total : order[k] = x
  BY <1>4 DEF Surjection
<1>6. order \in Seq(S) /\ Len(order) = total
  BY <1>1, SequenceOfLength
<1> QED
  BY <1>1, <1>5, <1>6

\* GetAllJobs over one order: the clamps as for a page of a history.
LEMMA ListingIsStretch ==
    ASSUME NEW total, NEW limit, NEW offset, NEW max, NEW left, NEW n,
           Request(total, limit, offset, max, left, n), limit <= max, offset <= max,
           NEW S, NEW order \in Seq(S), Len(order) = total
    PROVE  LET answer == ListJobs(order, limit, offset)
           IN  /\ left \in Nat /\ n \in Nat
               /\ ~Fits(total, left, limit, max) => answer.code = 500
               /\ Fits(total, left, limit, max) =>
                     /\ answer.code = 200 /\ answer.total = total
                     /\ answer.page \in Seq(S) /\ Len(answer.page) = n
                     /\ \A k \in 1 .. n : offset + k \in 1 .. total
                                          /\ answer.page[k] = order[offset + k]
<1>1. PICK start, end : start = PageStart(total, offset) /\ end = PageEnd(total, start, limit)
  OBVIOUS
<1>3. total \in Nat /\ limit \in Nat \ {0} /\ offset \in Nat /\ max \in Nat /\ max = MaxInt
  BY DEF Request
<1>2. left \in Nat /\ n \in Nat /\ start \in Nat /\ end \in Int
  BY <1>1, <1>3, SMTT(30) DEF Request, Left, Cut, PageStart, PageEnd, Wrapped
<1>4. PICK page : page = SubSeq(order, start + 1, end)
  OBVIOUS
<1>5. ListJobs(order, limit, offset) =
         IF end < start THEN [code |-> 500] ELSE [code |-> 200, page |-> page, total |-> total]
  <2>1. ~(limit <= 0 \/ offset < 0)
    BY <1>3
  <2>2. GetAllJobs(order, limit, offset) =
           [panics |-> end < start, page |-> page, total |-> total]
    BY <1>1, <1>4, Zenon DEF GetAllJobs
  <2>3. PICK a : a = GetAllJobs(order, limit, offset)
    OBVIOUS
  <2>4. /\ a.page = page /\ a.total = total
        /\ a.panics = (end < start)
    BY <2>2, <2>3
  <2>5. ListJobs(order, limit, offset) =
           IF a.panics THEN [code |-> 500] ELSE [code |-> 200, page |-> a.page, total |-> a.total]
    BY <2>1, <2>3, ZenonT(30) DEF ListJobs
  <2> QED
    BY <2>4, <2>5, ZenonT(30)
<1>6. CASE ~Fits(total, left, limit, max)
  <2>1. end < start
    <3>1. total - left + limit > max /\ start = total - left /\ start <= max
      BY <1>1, <1>2, <1>3, <1>6 DEF Fits, PageStart, Request, Left
    <3>2. PICK sum : /\ sum = IF start + limit > max THEN start + limit - 2 * (max + 1)
                                                     ELSE start + limit
                     /\ end = IF sum > total THEN total ELSE sum
      <4>1. start \in Nat /\ limit \in Nat /\ end = PageEnd(total, start, limit)
        BY <1>1, <1>2, <1>3
      <4> QED
        BY <1>3, <4>1, EndOfPage
    <3> QED
      BY <1>2, <1>3, <3>1, <3>2
  <2> QED
    BY <1>2, <1>5, <1>6, <2>1
<1>7. CASE Fits(total, left, limit, max)
  <2>1. /\ end = start + n /\ start = total - left /\ end <= total
        /\ \A k \in 1 .. n : start = offset
    <3>1. /\ total - left + limit <= max /\ start = total - left
          /\ left <= total /\ n <= left /\ n <= limit
          /\ n = limit \/ n = left
          /\ left > 0 => start = offset
      BY <1>1, <1>2, <1>3, <1>7 DEF Fits, PageStart, Request, Left, Cut
    <3>2. PICK sum : /\ sum = IF start + limit > max THEN start + limit - 2 * (max + 1)
                                                     ELSE start + limit
                     /\ end = IF sum > total THEN total ELSE sum
      <4>1. start \in Nat /\ limit \in Nat /\ end = PageEnd(total, start, limit)
        BY <1>1, <1>2, <1>3
      <4> QED
        BY <1>3, <4>1, EndOfPage
    <3>3. sum = start + limit
      BY <1>2, <1>3, <3>1, <3>2
    <3> QED
      BY <1>2, <1>3, <3>1, <3>2, <3>3
  <2>2. \A k \in start + 1 .. end : order[k] \in S
    <3>1. DOMAIN order = 1 .. total
      BY LenProperties
    <3>2. \A k \in start + 1 .. end : k \in 1 .. total
      BY <1>2, <1>3, <2>1
    <3> QED
      BY <3>1, <3>2, ElementOfSeq
  <2>3. /\ page \in Seq(S)
        /\ Len(page) = IF start + 1 <= end THEN end - (start + 1) + 1 ELSE 0
        /\ \A k \in 1 .. end - (start + 1) + 1 : page[k] = order[start + 1 + k - 1]
    BY <1>2, <1>4, <2>2, SubSeqProperties
  <2>4. /\ Len(page) = n
        /\ \A k \in 1 .. n : page[k] = order[start + k] /\ start + k \in 1 .. total
    BY <1>2, <1>3, <2>1, <2>3
  <2>5. ~(end < start)
    BY <1>2, <2>1
  <2> QED
    <3>1. PICK answer : answer = ListJobs(order, limit, offset)
      OBVIOUS
    <3>2. answer = [code |-> 200, page |-> page, total |-> total]
      BY <1>5, <2>5, <3>1, Zenon
    <3>3. answer.code = 200 /\ answer.total = total /\ answer.page = page
      BY <3>2
    <3>4. \A k \in 1 .. n : offset + k \in 1 .. total /\ page[k] = order[offset + k]
      BY <2>1, <2>4
    <3> QED
      BY <1>2, <1>7, <2>3, <2>4, <3>1, <3>3, <3>4
<1> QED
  BY <1>6, <1>7

(***************************************************************************)
(* What a listing guarantees.                                              *)
(***************************************************************************)
LEMMA ListingFollows == OInv => JobPagesFill
<1> DEFINE Filled(wanted, order, limit, offset) ==
             LET total == Cardinality(wanted)
                 left == IF offset < total THEN total - offset ELSE 0
                 answer == ListJobs(order, limit, offset)
             IN  IF limit > MaxInt - (total - left)
                   THEN answer.code = 500
                   ELSE /\ answer.code = 200 /\ answer.total = total
                        /\ IsInjective(answer.page)
                        /\ Range(answer.page) \subseteq wanted
                        /\ Len(answer.page) = IF limit < left THEN limit ELSE left
           Found(wanted, order) ==
             LET total == Cardinality(wanted)
             IN  total < MaxInt =>
                    \A i \in wanted : \E p \in 0 .. total :
                       i \in Range(ListJobs(order, 1, p).page)
<1>1. ASSUME OInv, NEW status, NEW wanted, wanted = Matching(status)
      PROVE  IsFiniteSet(wanted)
  BY <1>1, FS_Subset DEF OInv, Matching
<1>2. ASSUME NEW wanted, IsFiniteSet(wanted), NEW order \in SetToSeqs(wanted),
             NEW limit \in 1 .. MaxInt, NEW offset \in 0 .. MaxInt
      PROVE  Filled(wanted, order, limit, offset)
  <2>1. PICK total, max : total = Cardinality(wanted) /\ max = MaxInt
    OBVIOUS
  <2>2. PICK left : left = Left(total, offset)
    OBVIOUS
  <2>3. PICK n : n = Cut(limit, left)
    OBVIOUS
  <2>4. /\ total \in Nat /\ order \in Seq(wanted) /\ Len(order) = total
        /\ DOMAIN order = 1 .. total
        /\ \A j, k \in 1 .. total : order[j] = order[k] => j = k
    BY <1>2, <2>1, Enumerates
  <2>5. /\ max \in Nat /\ limit \in Nat \ {0} /\ offset \in Nat
        /\ limit <= max /\ offset <= max
    BY <2>1, ReadsAssumption
  <2>6. Request(total, limit, offset, max, left, n)
    BY <2>1, <2>2, <2>3, <2>4, <2>5 DEF Request
  <2>7. PICK answer : answer = ListJobs(order, limit, offset)
    OBVIOUS
  <2>8. /\ left \in Nat /\ n \in Nat
        /\ ~Fits(total, left, limit, max) => answer.code = 500
        /\ Fits(total, left, limit, max) =>
              /\ answer.code = 200 /\ answer.total = total
              /\ answer.page \in Seq(wanted) /\ Len(answer.page) = n
              /\ \A k \in 1 .. n : offset + k \in 1 .. total
                                   /\ answer.page[k] = order[offset + k]
    BY <2>4, <2>5, <2>6, <2>7, ListingIsStretch
  <2>9. Filled(wanted, order, limit, offset) <=>
          IF limit > max - (total - left)
            THEN answer.code = 500
            ELSE /\ answer.code = 200 /\ answer.total = total
                 /\ IsInjective(answer.page)
                 /\ Range(answer.page) \subseteq wanted
                 /\ Len(answer.page) = n
    BY <2>1, <2>2, <2>3, <2>7, ZenonT(30) DEF Left, Cut
  <2>10. limit > max - (total - left) <=> ~Fits(total, left, limit, max)
    BY <2>4, <2>5, <2>8 DEF Fits
  <2>11. CASE ~Fits(total, left, limit, max)
    BY <2>8, <2>9, <2>10, <2>11
  <2>12. CASE Fits(total, left, limit, max)
    <3>1. PICK page : page = answer.page
      OBVIOUS
    <3>2. /\ page \in Seq(wanted) /\ DOMAIN page = 1 .. n
          /\ \A k \in 1 .. n : offset + k \in 1 .. total /\ page[k] = order[offset + k]
      BY <2>8, <2>12, <3>1, LenProperties
    <3>3. IsInjective(page)
      <4>1. ASSUME NEW j \in 1 .. n, NEW k \in 1 .. n, page[j] = page[k] PROVE j = k
        <5>1. offset + j = offset + k
          BY <2>4, <3>2, <4>1
        <5> QED
          BY <2>5, <5>1
      <4> QED
        BY <3>2, <4>1 DEF IsInjective
    <3>4. Range(page) \subseteq wanted
      BY <3>2, RangeOfSeq
    <3> QED
      BY <2>8, <2>9, <2>10, <2>12, <3>1, <3>3, <3>4
  <2> QED
    BY <2>11, <2>12
<1>3. ASSUME NEW wanted, IsFiniteSet(wanted), NEW order \in SetToSeqs(wanted)
      PROVE  Found(wanted, order)
  <2> SUFFICES ASSUME NEW total, total = Cardinality(wanted), total < MaxInt, NEW i \in wanted
               PROVE  \E p \in 0 .. total : i \in Range(ListJobs(order, 1, p).page)
    BY Zenon
  <2>1. /\ total \in Nat /\ order \in Seq(wanted) /\ Len(order) = total
        /\ \A x \in wanted : \E k \in 1 .. total : order[k] = x
    BY <1>3, Enumerates
  <2>2. PICK k \in 1 .. total : order[k] = i
    BY <2>1
  <2>3. PICK p, max : p = k - 1 /\ max = MaxInt
    OBVIOUS
  <2>4. /\ p \in 0 .. total /\ p < total /\ p \in Nat /\ max \in Nat /\ k = p + 1
        /\ total < max
    BY <2>1, <2>3, ReadsAssumption
  <2>5. PICK left : left = Left(total, p)
    OBVIOUS
  <2>6. PICK n : n = Cut(1, left)
    OBVIOUS
  <2>7. left = total - p /\ n = 1 /\ 1 <= max /\ p <= max
    BY <2>1, <2>4, <2>5, <2>6 DEF Left, Cut
  <2>8. Request(total, 1, p, max, left, n)
    BY <2>1, <2>3, <2>4, <2>5, <2>6 DEF Request
  <2>9. Fits(total, left, 1, max)
    BY <2>1, <2>4, <2>7 DEF Fits
  <2>10. PICK answer : answer = ListJobs(order, 1, p)
    OBVIOUS
  <2>11. /\ answer.page \in Seq(wanted) /\ Len(answer.page) = n
         /\ \A j \in 1 .. n : answer.page[j] = order[p + j]
    <3>1. PICK limit : limit = 1
      OBVIOUS
    <3>2. /\ Request(total, limit, p, max, left, n) /\ Fits(total, left, limit, max)
          /\ limit <= max /\ p <= max /\ answer = ListJobs(order, limit, p)
      BY <2>7, <2>8, <2>9, <2>10, <3>1
    <3> QED
      BY <2>1, <3>2, ListingIsStretch
  <2>12. DOMAIN answer.page = 1 .. n
    BY <2>11, LenProperties
  <2>13. 1 \in DOMAIN answer.page /\ answer.page[1] = i
    BY <2>2, <2>4, <2>7, <2>11, <2>12
  <2> QED
    BY <2>4, <2>10, <2>13 DEF Range
<1> DEFINE Wanted(status) == {i \in DOMAIN jobs : status = AnyStatus \/ jobs[i].status = status}
<1>4. \A status : Matching(status) = Wanted(status)
  BY DEF Matching
<1> HIDE DEF Filled, Found, Wanted
<1>5. ASSUME OInv, NEW status, NEW order \in SetToSeqs(Matching(status))
      PROVE  /\ \A limit \in 1 .. MaxInt, offset \in 0 .. MaxInt :
                   Filled(Wanted(status), order, limit, offset)
             /\ Found(Wanted(status), order)
  <2>1. IsFiniteSet(Wanted(status)) /\ order \in SetToSeqs(Wanted(status))
    BY <1>1, <1>4, <1>5
  <2> QED
    BY <1>2, <1>3, <2>1
<1>6. ASSUME \A status \in {StatusActive, AnyStatus} : \A order \in SetToSeqs(Matching(status)) :
                /\ \A limit \in 1 .. MaxInt, offset \in 0 .. MaxInt :
                      Filled(Wanted(status), order, limit, offset)
                /\ Found(Wanted(status), order)
      PROVE  JobPagesFill
  BY <1>6 DEF JobPagesFill, Filled, Found, Wanted
<1> QED
  BY <1>5, <1>6, Zenon

(***************************************************************************)
(* The statistics.                                                         *)
(***************************************************************************)

\* Two halves of a finite set.
LEMMA TwoHalves ==
    ASSUME NEW S, IsFiniteSet(S), NEW A, NEW B, A \cup B = S, A \cap B = {}
    PROVE  /\ IsFiniteSet(A) /\ IsFiniteSet(B)
           /\ Cardinality(A) \in Nat /\ Cardinality(B) \in Nat
           /\ Cardinality(S) = Cardinality(A) + Cardinality(B)
<1>1. IsFiniteSet(A) /\ IsFiniteSet(B)
  BY FS_Subset
<1>2. Cardinality(A) \in Nat /\ Cardinality(B) \in Nat /\ Cardinality({}) = 0
  BY <1>1, FS_CardinalityType, FS_EmptySet
<1>3. Cardinality(A \cup B) = Cardinality(A) + Cardinality(B) - Cardinality(A \cap B)
  BY <1>1, FS_Union
<1>4. PICK a, b, c : a = Cardinality(A) /\ b = Cardinality(B) /\ c = Cardinality(S)
  OBVIOUS
<1>5. c = a + b - 0 /\ a \in Nat /\ b \in Nat
  BY <1>2, <1>3, <1>4
<1>6. c = a + b
  BY <1>5
<1> QED
  BY <1>1, <1>2, <1>4, <1>6

(***************************************************************************)
(* A sum over the jobs counts a set of records, when each record stands    *)
(* exactly once in the job's list, at one of the places the job counts.    *)
(***************************************************************************)
StandsOnce(lists, places, records) ==
    /\ \A i \in DOMAIN places : \A k \in places[i] : lists[i][k] \in records
    /\ \A i, j \in DOMAIN places : \A k \in places[i], l \in places[j] :
          lists[i][k] = lists[j][l] => i = j /\ k = l
    /\ \A e \in records : \E i \in DOMAIN places : \E k \in places[i] : lists[i][k] = e

\* Such a sum is the number of the records.
LEMMA TotalCounts ==
    ASSUME NEW lists, NEW places, NEW records, StandsOnce(lists, places, records),
           IsFiniteSet(records),
           NEW f, DOMAIN f = DOMAIN places,
           \A i \in DOMAIN places : IsFiniteSet(places[i]) /\ f[i] = Cardinality(places[i])
    PROVE  Total(f) = Cardinality(records)
<1>1. PICK pick : pick = [i \in DOMAIN places |->
                            CHOOSE b : b \in Bijection(1 .. f[i], places[i])]
  OBVIOUS
<1>2. \A i \in DOMAIN places : pick[i] \in Bijection(1 .. f[i], places[i])
  <2> TAKE i \in DOMAIN places
  <2>1. \E b : b \in Bijection(1 .. f[i], places[i])
    BY FS_CardinalityType DEF ExistsBijection
  <2> QED
    BY <1>1, <2>1
<1>3. \A i \in DOMAIN places :
         /\ \A n \in 1 .. f[i] : pick[i][n] \in places[i]
         /\ \A m, n \in 1 .. f[i] : pick[i][m] = pick[i][n] => m = n
         /\ \A k \in places[i] : \E n \in 1 .. f[i] : pick[i][n] = k
  <2> TAKE i \in DOMAIN places
  <2>1. PICK b, N, P : b = pick[i] /\ N = 1 .. f[i] /\ P = places[i]
    OBVIOUS
  <2>2. b \in Bijection(N, P)
    BY <1>2, <2>1
  <2>3. /\ \A n \in N : b[n] \in P
        /\ \A m, n \in N : b[m] = b[n] => m = n
        /\ \A k \in P : \E n \in N : b[n] = k
    BY <2>2 DEF Bijection, Injection, Surjection, IsInjective
  <2> QED
    BY <2>1, <2>3
<1>4. PICK units : units = UNION {{i} \X (1 .. f[i]) : i \in DOMAIN f}
  OBVIOUS
<1>5. \A u : u \in units <=> \E i \in DOMAIN places : \E n \in 1 .. f[i] : u = <<i, n>>
  BY <1>4
<1>6. PICK g : g = [u \in units |-> lists[u[1]][pick[u[1]][u[2]]]]
  OBVIOUS
<1>7. \A i \in DOMAIN places : \A n \in 1 .. f[i] :
         <<i, n>> \in units /\ g[<<i, n>>] = lists[i][pick[i][n]]
  BY <1>5, <1>6
<1>8. g \in [units -> records]
  <2> SUFFICES ASSUME NEW u \in units PROVE g[u] \in records
    BY <1>6
  <2>1. PICK i \in DOMAIN places : \E n \in 1 .. f[i] : u = <<i, n>>
    BY <1>5
  <2>2. PICK n \in 1 .. f[i] : u = <<i, n>>
    BY <2>1
  <2> QED
    BY <1>3, <1>7, <2>2 DEF StandsOnce
<1>9. \A u, v \in units : g[u] = g[v] => u = v
  <2> SUFFICES ASSUME NEW u \in units, NEW v \in units, g[u] = g[v] PROVE u = v
    OBVIOUS
  <2>1. PICK i \in DOMAIN places : \E n \in 1 .. f[i] : u = <<i, n>>
    BY <1>5
  <2>2. PICK n \in 1 .. f[i] : u = <<i, n>>
    BY <2>1
  <2>3. PICK j \in DOMAIN places : \E m \in 1 .. f[j] : v = <<j, m>>
    BY <1>5
  <2>4. PICK m \in 1 .. f[j] : v = <<j, m>>
    BY <2>3
  <2>5. lists[i][pick[i][n]] = lists[j][pick[j][m]]
    BY <1>7, <2>2, <2>4
  <2>6. pick[i][n] \in places[i] /\ pick[j][m] \in places[j]
    BY <1>3
  <2>7. i = j /\ pick[i][n] = pick[j][m]
    BY <2>5, <2>6 DEF StandsOnce
  <2>8. n = m
    BY <1>3, <2>7
  <2> QED
    BY <2>2, <2>4, <2>7, <2>8
<1>10. \A e \in records : \E u \in units : g[u] = e
  <2> TAKE e \in records
  <2>1. PICK i \in DOMAIN places : \E k \in places[i] : lists[i][k] = e
    BY DEF StandsOnce
  <2>2. PICK k \in places[i] : lists[i][k] = e
    BY <2>1
  <2>3. PICK n \in 1 .. f[i] : pick[i][n] = k
    BY <1>3
  <2> QED
    BY <1>7, <2>2, <2>3
<1>11. g \in Bijection(units, records)
  BY <1>8, <1>9, <1>10, Fun_IsBij
<1>12. g \in Injection(units, records)
  BY <1>11 DEF Bijection
<1>13. IsFiniteSet(units)
  BY <1>12, FS_Injection
<1>14. Cardinality(records) = Cardinality(units)
  BY <1>11, <1>13, FS_Bijection DEF ExistsBijection
<1> QED
  BY <1>4, <1>14 DEF Total

\* In the records of a list in order, the last one's time is the greatest.
LEMMA LastIsLatest ==
    ASSUME RInv, OInv, NEW i \in DOMAIN jobs, NEW list, list = jobExecMap[i],
           NEW m, m = Len(list), m # 0
    PROVE  Max({executions[list[k]].executedAt : k \in DOMAIN list})
              = executions[list[m]].executedAt
<1>1. /\ m \in Nat /\ DOMAIN list = 1 .. m /\ InOrder(list)
      /\ \A k \in 1 .. m : list[k] \in DOMAIN executions
  BY ListElements DEF OInv
<1>2. PICK S, v : S = {executions[list[k]].executedAt : k \in DOMAIN list}
                  /\ v = executions[list[m]].executedAt
  OBVIOUS
<1>3. S \subseteq Nat
  <2>1. \A k \in 1 .. m : executions[list[k]].executedAt \in Nat
    BY <1>1 DEF RInv, TypeOK
  <2> QED
    BY <1>1, <1>2, <2>1
<1>4. v \in S /\ \A x \in S : v >= x
  <2>1. m \in 1 .. m
    BY <1>1
  <2>2. v \in S
    BY <1>1, <1>2, <2>1
  <2>3. ASSUME NEW k \in 1 .. m PROVE v >= executions[list[k]].executedAt
    <3>1. executions[list[k]].executedAt \in Nat /\ v \in Nat
      BY <1>1, <1>2, <1>3, <2>2
    <3>2. k = m \/ k < m
      BY <1>1
    <3>3. executions[list[k]].executedAt <= v
      BY <1>1, <1>2, <2>1, <3>1, <3>2 DEF InOrder
    <3> QED
      BY <3>1, <3>3
  <2> QED
    BY <1>1, <1>2, <2>2, <2>3
<1>5. \A y \in S : (\A x \in S : y >= x) => y = v
  BY <1>3, <1>4
<1>6. Max(S) = v
  BY <1>4, <1>5 DEF Max
<1> QED
  BY <1>2, <1>6

\* the places at which the jobs' lists name records of a set
PlacesIn(records) ==
    [i \in DOMAIN jobs |-> {k \in DOMAIN jobExecMap[i] : jobExecMap[i][k] \in records}]

\* The index has each record once, so sums over the jobs count the records.
LEMMA RecordsStandOnce ==
    ASSUME RInv, NEW records \in SUBSET DOMAIN executions
    PROVE  StandsOnce(jobExecMap, PlacesIn(records), records)
<1>1. \A i \in DOMAIN jobs : \A k \in DOMAIN jobExecMap[i] :
         jobExecMap[i][k] \in DOMAIN executions /\ executions[jobExecMap[i][k]].jobID = i
  BY ListElements DEF RInv, ListsHoldOwnRecords
<1>2. \A i, j \in DOMAIN jobs : \A k \in DOMAIN jobExecMap[i], l \in DOMAIN jobExecMap[j] :
         jobExecMap[i][k] = jobExecMap[j][l] => i = j /\ k = l
  BY <1>1 DEF RInv, ListsHoldOwnRecords
<1>3. \A e \in DOMAIN executions :
         \E i \in DOMAIN jobs : \E k \in DOMAIN jobExecMap[i] : jobExecMap[i][k] = e
  BY DEF RInv, RecordsAreListed
<1> QED
  BY <1>1, <1>2, <1>3 DEF StandsOnce, PlacesIn

\* A statistic that counts such places in each job's list adds up to the records.
LEMMA SumOverJobs ==
    ASSUME RInv, OInv, NEW records \in SUBSET DOMAIN executions,
           NEW f, DOMAIN f = DOMAIN jobs,
           \A i \in DOMAIN jobs : f[i] = Cardinality(PlacesIn(records)[i])
    PROVE  IsFiniteSet(records) /\ Total(f) = Cardinality(records)
<1>1. IsFiniteSet(records)
  BY FS_Subset DEF OInv
<1>2. DOMAIN PlacesIn(records) = DOMAIN jobs
  BY DEF PlacesIn
<1>3. ASSUME NEW i \in DOMAIN jobs PROVE IsFiniteSet(PlacesIn(records)[i])
  <2>1. IsFiniteSet(DOMAIN jobExecMap[i])
    BY ListElements, FS_Interval
  <2> QED
    BY <2>1, FS_Subset DEF PlacesIn
<1>4. StandsOnce(jobExecMap, PlacesIn(records), records)
  BY RecordsStandOnce
<1> QED
  BY <1>1, <1>2, <1>3, <1>4, TotalCounts

(***************************************************************************)
(* What each job's statistics count, and what the scheduler's do.          *)
(***************************************************************************)
Succeeded == {e \in DOMAIN executions : executions[e].success}
Failed == {e \in DOMAIN executions : ~executions[e].success}

\* Each job counts its own places, and its last record is its last execution.
LEMMA JobStatsCount ==
    ASSUME RInv, OInv, NEW i \in DOMAIN jobs, NEW list, list = jobExecMap[i],
           NEW s, s = GetJobStats(i)
    PROVE  /\ s.totalExecutions = Cardinality(PlacesIn(DOMAIN executions)[i])
           /\ s.successfulExecutions = Cardinality(PlacesIn(Succeeded)[i])
           /\ s.failedExecutions = Cardinality(PlacesIn(Failed)[i])
           /\ s.totalExecutions = s.successfulExecutions + s.failedExecutions
           /\ s.lastExecutionTime = IF list = <<>> THEN Nil ELSE executions[list[Len(list)]].executedAt
<1>1. PICK m : m = Len(list)
  OBVIOUS
<1>2. /\ m \in Nat /\ DOMAIN list = 1 .. m
      /\ \A k \in 1 .. m : list[k] \in DOMAIN executions
  BY <1>1, ListElements
<1>3. PICK listed, times :
        /\ listed = {k \in DOMAIN list : list[k] \in DOMAIN executions}
        /\ times = {executions[list[k]].executedAt : k \in listed}
  OBVIOUS
<1>4. listed = DOMAIN list
  BY <1>2, <1>3
<1>5. /\ s.totalExecutions = m
      /\ s.successfulExecutions = Cardinality({k \in listed : executions[list[k]].success})
      /\ s.failedExecutions = Cardinality({k \in listed : ~executions[list[k]].success})
      /\ s.lastExecutionTime = IF times = {} THEN Nil ELSE Max(times)
  BY <1>1, <1>3, Zenon DEF GetJobStats
<1>6. PICK ok, bad : ok = PlacesIn(Succeeded)[i] /\ bad = PlacesIn(Failed)[i]
  OBVIOUS
<1>7. /\ ok = {k \in listed : executions[list[k]].success}
      /\ bad = {k \in listed : ~executions[list[k]].success}
      /\ listed = PlacesIn(DOMAIN executions)[i]
  <2>1. \A R : PlacesIn(R)[i] = {k \in DOMAIN list : list[k] \in R}
    BY DEF PlacesIn
  <2> QED
    BY <1>2, <1>3, <1>4, <1>6, <2>1 DEF Succeeded, Failed
<1>8. /\ IsFiniteSet(listed) /\ Cardinality(listed) = m
      /\ ok \cup bad = listed /\ ok \cap bad = {}
  <2>1. IsFiniteSet(1 .. m) /\ Cardinality(1 .. m) = m
    <3>1. 1 \in Int /\ m \in Int
      BY <1>2
    <3>2. IsFiniteSet(1 .. m) /\ Cardinality(1 .. m) = IF 1 > m THEN 0 ELSE m - 1 + 1
      BY <3>1, FS_Interval
    <3> QED
      BY <1>2, <3>2
  <2>2. listed = 1 .. m
    BY <1>2, <1>4
  <2>3. ok \cup bad = listed /\ ok \cap bad = {}
    BY <1>7, Zenon
  <2> QED
    BY <2>1, <2>2, <2>3
<1>9. Cardinality(listed) = Cardinality(ok) + Cardinality(bad)
  <2>1. IsFiniteSet(listed) /\ ok \cup bad = listed /\ ok \cap bad = {}
    BY <1>8
  <2> QED
    BY <2>1, TwoHalves
<1>10. s.lastExecutionTime = IF list = <<>> THEN Nil ELSE executions[list[m]].executedAt
  <2>1. CASE m = 0
    <3>1. times = {} /\ list = <<>>
      <4>1. list \in Seq(DOMAIN executions)
        BY DEF RInv, ListsHoldOwnRecords
      <4>2. list = <<>>
        BY <1>1, <2>1, <4>1, EmptySeq
      <4>3. listed = {}
        BY <1>2, <1>4, <2>1
      <4>4. times = {}
        BY <1>3, <4>3
      <4> QED
        BY <4>2, <4>4
    <3> QED
      BY <1>5, <3>1
  <2>2. CASE m # 0
    <3>1. times # {} /\ list # <<>>
      <4>1. 1 \in listed
        BY <1>2, <1>4, <2>2
      <4>2. executions[list[1]].executedAt \in times
        BY <1>3, <4>1
      <4>3. DOMAIN list # {}
        BY <1>4, <4>1
      <4> QED
        BY <4>2, <4>3
    <3>2. Max(times) = executions[list[m]].executedAt
      BY <1>1, <1>3, <1>4, <2>2, LastIsLatest
    <3> QED
      BY <1>5, <3>1, <3>2
  <2> QED
    BY <2>1, <2>2
<1> QED
  BY <1>1, <1>5, <1>6, <1>7, <1>8, <1>9, <1>10

\* The scheduler counts all records and all jobs.
LEMMA SchedulerStatsCount ==
    ASSUME RInv, OInv, NEW s, s = GetSchedulerStats(0, clock + 1)
    PROVE  /\ s.totalExecutions = Cardinality(DOMAIN executions)
           /\ s.successfulRuns = Cardinality(Succeeded)
           /\ s.failedRuns = Cardinality(Failed)
           /\ s.activeJobs = Cardinality(Matching(StatusActive))
           /\ s.totalJobs = s.activeJobs + s.inactiveJobs + s.deletedJobs
<1>1. PICK period : period = {e \in DOMAIN executions :
                                 executions[e].executedAt > 0 /\ executions[e].executedAt < clock + 1}
  OBVIOUS
<1>2. period = DOMAIN executions
  <2>1. ASSUME NEW e \in DOMAIN executions
        PROVE  executions[e].executedAt > 0 /\ executions[e].executedAt < clock + 1
    <3>1. PICK at : at = executions[e].executedAt
      OBVIOUS
    <3>2. at \in 1 .. clock /\ clock \in Nat
      BY <3>1 DEF RInv, TypeOK
    <3> QED
      BY <3>1, <3>2
  <2> QED
    BY <1>1, <2>1
<1>3. PICK A, I, D : /\ A = {i \in DOMAIN jobs : jobs[i].status = StatusActive}
                     /\ I = {i \in DOMAIN jobs : jobs[i].status = StatusInactive}
                     /\ D = {i \in DOMAIN jobs : jobs[i].status = StatusDeleted}
  OBVIOUS
<1>4. /\ s.totalExecutions = Cardinality(period)
      /\ s.successfulRuns = Cardinality({e \in period : executions[e].success})
      /\ s.failedRuns = Cardinality({e \in period : ~executions[e].success})
      /\ s.totalJobs = Cardinality(DOMAIN jobs) /\ s.activeJobs = Cardinality(A)
      /\ s.inactiveJobs = Cardinality(I) /\ s.deletedJobs = Cardinality(D)
  BY <1>1, <1>3, Zenon DEF GetSchedulerStats
<1>5. A = Matching(StatusActive)
  BY <1>3 DEF Matching, StatusActive, AnyStatus
<1>6. /\ A \cup (I \cup D) = DOMAIN jobs /\ A \cap (I \cup D) = {} /\ I \cap D = {}
  BY <1>3 DEF RInv, TypeOK, JobStatuses, StatusActive, StatusInactive, StatusDeleted
<1>7. PICK R : R = I \cup D
  OBVIOUS
<1>8. /\ Cardinality(DOMAIN jobs) = Cardinality(A) + Cardinality(R) /\ IsFiniteSet(R)
      /\ Cardinality(A) \in Nat
  <2>1. IsFiniteSet(DOMAIN jobs) /\ A \cup R = DOMAIN jobs /\ A \cap R = {}
    BY <1>6, <1>7 DEF OInv
  <2> QED
    BY <2>1, TwoHalves
<1>9. /\ Cardinality(R) = Cardinality(I) + Cardinality(D)
      /\ Cardinality(I) \in Nat /\ Cardinality(D) \in Nat
  BY <1>6, <1>7, <1>8, TwoHalves
<1> QED
  BY <1>2, <1>4, <1>5, <1>8, <1>9 DEF Succeeded, Failed

(***************************************************************************)
(* The two statistics agree.                                               *)
(***************************************************************************)
LEMMA StatsFollow == RInv /\ OInv => StatsAgree
<1> SUFFICES ASSUME RInv, OInv PROVE StatsAgree
  OBVIOUS
<1>1. PICK system, stats : /\ system = GetSchedulerStats(0, clock + 1)
                           /\ stats = [i \in DOMAIN jobs |-> GetJobStats(i)]
  OBVIOUS
<1>2. /\ system.totalExecutions = Cardinality(DOMAIN executions)
      /\ system.successfulRuns = Cardinality(Succeeded)
      /\ system.failedRuns = Cardinality(Failed)
      /\ system.activeJobs = Cardinality(Matching(StatusActive))
      /\ system.totalJobs = system.activeJobs + system.inactiveJobs + system.deletedJobs
  BY <1>1, SchedulerStatsCount
<1>3. \A i \in DOMAIN jobs :
         /\ stats[i].totalExecutions = Cardinality(PlacesIn(DOMAIN executions)[i])
         /\ stats[i].successfulExecutions = Cardinality(PlacesIn(Succeeded)[i])
         /\ stats[i].failedExecutions = Cardinality(PlacesIn(Failed)[i])
         /\ stats[i].totalExecutions = stats[i].successfulExecutions + stats[i].failedExecutions
         /\ stats[i].lastExecutionTime =
               IF jobExecMap[i] = <<>> THEN Nil
               ELSE executions[jobExecMap[i][Len(jobExecMap[i])]].executedAt
  <2> TAKE i \in DOMAIN jobs
  <2>1. PICK s, list : s = GetJobStats(i) /\ list = jobExecMap[i]
    OBVIOUS
  <2>2. stats[i] = s
    BY <1>1, <2>1
  <2> QED
    BY <2>1, <2>2, JobStatsCount
<1>4. /\ Total([i \in DOMAIN jobs |-> stats[i].totalExecutions]) = Cardinality(DOMAIN executions)
      /\ Total([i \in DOMAIN jobs |-> stats[i].successfulExecutions]) = Cardinality(Succeeded)
      /\ Total([i \in DOMAIN jobs |-> stats[i].failedExecutions]) = Cardinality(Failed)
  <2>1. PICK f, g, h : /\ f = [i \in DOMAIN jobs |-> stats[i].totalExecutions]
                       /\ g = [i \in DOMAIN jobs |-> stats[i].successfulExecutions]
                       /\ h = [i \in DOMAIN jobs |-> stats[i].failedExecutions]
    OBVIOUS
  <2>2. /\ DOMAIN f = DOMAIN jobs /\ DOMAIN g = DOMAIN jobs /\ DOMAIN h = DOMAIN jobs
        /\ \A i \in DOMAIN jobs : /\ f[i] = Cardinality(PlacesIn(DOMAIN executions)[i])
                                  /\ g[i] = Cardinality(PlacesIn(Succeeded)[i])
                                  /\ h[i] = Cardinality(PlacesIn(Failed)[i])
    BY <1>3, <2>1
  <2>3. Succeeded \subseteq DOMAIN executions /\ Failed \subseteq DOMAIN executions
    BY DEF Succeeded, Failed
  <2>4. Total(f) = Cardinality(DOMAIN executions)
    BY <2>2, SumOverJobs
  <2>5. Total(g) = Cardinality(Succeeded)
    BY <2>2, <2>3, SumOverJobs
  <2>6. Total(h) = Cardinality(Failed)
    BY <2>2, <2>3, SumOverJobs
  <2> QED
    BY <2>1, <2>4, <2>5, <2>6
<1>5. ASSUME NEW order \in SetToSeqs(Matching(StatusActive))
      PROVE  GetAllJobs(order, 1, 0).total = system.activeJobs
  <2>1. IsFiniteSet(Matching(StatusActive))
    BY FS_Subset DEF OInv, Matching
  <2>2. Len(order) = Cardinality(Matching(StatusActive))
    BY <2>1, Enumerates
  <2> QED
    BY <1>2, <2>2 DEF GetAllJobs
<1>6. DOMAIN GetActiveJobs =
         {i \in SomeJobID : GetJob(i).code = 200 /\ GetJob(i).job.status = StatusActive}
  BY DEF GetActiveJobs, GetJob, SomeJobID
<1> QED
  BY <1>1, <1>2, <1>3, <1>4, <1>5, <1>6, Zenon DEF StatsAgree

(***************************************************************************)
(* A page of GetJobExecutions shows, newest first, exactly the stretch of  *)
(* the job's history its limit and offset ask for, also when the int sum   *)
(* of the two overflows.                                                   *)
(***************************************************************************)
THEOREM PagesHold == Spec => []PagesShowWholeHistory
BY ReadingInvariance, PagesFollow, PTL

(***************************************************************************)
(* A client that walks a job's history page by page, while executions are  *)
(* added, is shown every record that was there when it began.              *)
(***************************************************************************)
THEOREM WalkHolds == Spec => []WalkMissesNothing
BY ReadingInvariance, WalkFollows, PTL

(***************************************************************************)
(* ListJobs panics, and is answered 500, exactly when start + limit        *)
(* overflows; any other page has as many of the matching jobs as its       *)
(* offset leaves, none twice, and over one order of the map the pages      *)
(* together have them all.                                                 *)
(***************************************************************************)
THEOREM ListingHolds == Spec => []JobPagesFill
BY ReadingInvariance, ListingFollows, PTL

(***************************************************************************)
(* The statistics of the jobs add up to those of the whole scheduler.      *)
(***************************************************************************)
THEOREM StatsHold == Spec => []StatsAgree
BY ReadingInvariance, StatsFollow, PTL

=============================================================================
