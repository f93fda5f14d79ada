---------------------------- MODULE RouterProofs ----------------------------
(***************************************************************************)
(* Type correctness of the router; the rate, the bursts and the refusals   *)
(* of its limiter, for any number of clients and connections and any       *)
(* options; and the accounts of its traffic, for finitely many connections.*)
(***************************************************************************)
EXTENDS Router, CountingLemmas

(***************************************************************************)
(* The rate needs one more fact than the types: windows do not overlap,    *)
(* even when an instant is stale, so the k-th begins after k window        *)
(* lengths; and a client's total is spread over the windows begun.         *)
(***************************************************************************)
RateOK ==
    /\ windows * Window <= windowStart
    /\ \A c \in Clients : admitted[c] <= windows * Limit + requests[c]

RInv == TypeOK /\ RateOK

-----------------------------------------------------------------------------

\* the options NewRouter hands on are positive
LEMMA OptionsPositive == Limit \in Nat \ {0} /\ Window \in Nat \ {0}
BY OptionsAssumption DEF Limit, Window

\* fewer windows hold fewer requests
LEMMA TimesMonotone ==
    ASSUME NEW m \in Nat, NEW n \in Nat, NEW w \in Nat, m <= n
    PROVE  m * w <= n * w /\ m * w \in Nat /\ n * w \in Nat
OBVIOUS

\* windows that end before the clock are fewer than those it has room for
LEMMA TimesCancel ==
    ASSUME NEW m \in Nat, NEW n \in Nat, NEW w \in Nat \ {0}, m * w < n * w
    PROVE  m < n
<1>1. CASE n <= m
  BY <1>1, TimesMonotone
<1> QED
  BY <1>1

\* Multiplication by a successor.
LEMMA SuccTimes ==
    ASSUME NEW m \in Nat, NEW w \in Nat
    PROVE  (m + 1) * w = m * w + w
OBVIOUS

\* The router starts with nothing received and nothing sent.
LEMMA InitRInv == Init => RInv
<1> SUFFICES ASSUME Init PROVE RInv
  OBVIOUS
<1> USE OptionsPositive, OptionsAssumption, RouterAssumption
<1>1. TypeOK
  BY DEF TypeOK, Init, LimiterInit, NoRequests, NoAdmissions, Requests, Idle, Statuses
<1>2. RateOK
  BY DEF RateOK, Init, LimiterInit, NoRequests
<1> QED
  BY <1>1, <1>2 DEF RInv

\* what the steps that leave the limiter and the clock alone have to keep
LEMMA LimiterUntouched ==
    ASSUME RInv, UNCHANGED <<clock, limiterVars, admissions, timely, admitted>>,
           conn' \in [Conns -> Requests], received' \in Nat,
           httpRequestsTotal' \in [Statuses -> Nat], rateLimitExceeded' \in Nat,
           sent' \in [Statuses -> Nat]
    PROVE  RInv'
<1>1. TypeOK'
  <2>1. Requests' = Requests
    BY DEF Requests
  <2>2. UNCHANGED <<clock, windowStart, requests, windows, admissions, timely, admitted>>
    BY DEF limiterVars
  <2> QED
    BY <2>1, <2>2 DEF RInv, TypeOK
<1>2. RateOK'
  BY DEF RInv, RateOK, limiterVars
<1> QED
  BY <1>1, <1>2 DEF RInv

\* what a connection's record holds in the states that use it
LEMMA RequestFields ==
    ASSUME TypeOK, NEW q \in Conns
    PROVE  /\ conn[q].pc \in {"received", "waiting"} => conn[q].client \in Clients
           /\ conn[q].pc = "waiting" => conn[q].now \in 0 .. clock
           /\ conn[q].pc = "answered" => conn[q].status \in Statuses
<1>1. conn[q] \in Requests
  BY DEF TypeOK
<1>2. CASE conn[q] = Idle \/ conn[q] = Admitted
  BY <1>2 DEF Idle, Admitted
<1>3. CASE \E c \in Clients : conn[q] = Arrived(c)
  BY <1>3 DEF Arrived
<1>4. CASE \E c \in Clients, t \in 0 .. clock :
              conn[q] = Waiting(c, t) \/ conn[q] = Refused(c, t)
  BY <1>4 DEF Waiting, Refused
<1>5. CASE \E s \in Statuses : conn[q] = Answered(s)
  BY <1>5 DEF Answered
<1> QED
  BY <1>1, <1>2, <1>3, <1>4, <1>5 DEF Requests

\* Counting an answer keeps the counts numbers.
LEMMA SendCounts ==
    ASSUME NEW s \in Statuses, sent \in [Statuses -> Nat], Send(s)
    PROVE  sent' \in [Statuses -> Nat]
BY DEF Send

\* Counting an instant of a client keeps its row of counts.
LEMMA LogCounts ==
    ASSUME NEW log \in [Clients -> [0 .. Horizon -> Nat]],
           NEW c \in Clients, NEW t \in 0 .. Horizon
    PROVE  [log EXCEPT ![c][t] = @ + 1] \in [Clients -> [0 .. Horizon -> Nat]]
<1> DEFINE row == log[c]
<1>1. row \in [0 .. Horizon -> Nat]
  OBVIOUS
<1>2. [row EXCEPT ![t] = row[t] + 1] \in [0 .. Horizon -> Nat]
  <2> HIDE DEF row
  <2>1. row[t] + 1 \in Nat
    BY <1>1
  <2> QED
    BY <1>1, <2>1
<1> QED
  BY <1>2

\* every step of a request but the critical section of Allow
LEMMA OtherSteps ==
    ASSUME RInv, NEW q \in Conns,
           Preflight(q) \/ Receive(q) \/ ReadClock(q) \/ Refuse(q)
             \/ Handle(q) \/ Panic(q) \/ Count(q)
    PROVE  RInv'
<1>1. /\ OK \in Statuses /\ NoContent \in Statuses
      /\ TooManyRequests \in Statuses /\ InternalError \in Statuses
  BY DEF Statuses
<1>2. /\ Idle \in Requests /\ Admitted \in Requests
      /\ \A c \in Clients : Arrived(c) \in Requests
      /\ \A s \in Statuses : Answered(s) \in Requests
  BY DEF Requests
<1>3. /\ TypeOK /\ clock \in 0 .. clock
      /\ conn \in [Conns -> Requests] /\ sent \in [Statuses -> Nat]
      /\ httpRequestsTotal \in [Statuses -> Nat]
      /\ received + 1 \in Nat /\ rateLimitExceeded + 1 \in Nat
      /\ received \in Nat /\ rateLimitExceeded \in Nat
  BY RouterAssumption DEF RInv, TypeOK
<1>4. CASE Preflight(q)
  <2>1. sent' \in [Statuses -> Nat]
    BY <1>1, <1>3, <1>4, SendCounts DEF Preflight
  <2> QED
    BY <1>3, <1>4, <2>1, LimiterUntouched DEF Preflight, metricVars
<1>5. CASE Receive(q)
  BY <1>2, <1>3, <1>5, LimiterUntouched DEF Receive, metricVars
<1>6. CASE ReadClock(q)
  <2>1. conn[q].client \in Clients
    BY <1>3, <1>6, RequestFields DEF ReadClock
  <2>2. Waiting(conn[q].client, clock) \in Requests
    BY <1>3, <2>1 DEF Requests
  <2> QED
    BY <1>3, <1>6, <2>2, LimiterUntouched DEF ReadClock, metricVars, historyVars
<1>7. CASE Refuse(q)
  <2>1. sent' \in [Statuses -> Nat]
    BY <1>1, <1>3, <1>7, SendCounts DEF Refuse
  <2> QED
    BY <1>1, <1>2, <1>3, <1>7, <2>1, LimiterUntouched DEF Refuse
<1>8. CASE Handle(q) \/ Panic(q)
  <2>1. sent' \in [Statuses -> Nat]
    BY <1>1, <1>3, <1>8, SendCounts DEF Handle, Panic
  <2> QED
    BY <1>1, <1>2, <1>3, <1>8, <2>1, LimiterUntouched DEF Handle, Panic, metricVars
<1>9. CASE Count(q)
  <2>1. conn[q].status \in Statuses
    BY <1>3, <1>9, RequestFields DEF Count
  <2> QED
    BY <1>2, <1>3, <1>9, <2>1, LimiterUntouched DEF Count, historyVars
<1> QED
  BY <1>4, <1>5, <1>6, <1>7, <1>8, <1>9

\* the critical section: a new window begins a whole length after the last,
\* and what the old one counted is at most the limit
LEMMA JudgeStep ==
    ASSUME RInv, NEW q \in Conns, Judge(q)
    PROVE  RInv'
<1> DEFINE client == conn[q].client
           now == conn[q].now
<1> USE DEF RInv, TypeOK
<1>1. client \in Clients /\ now \in 0 .. clock
  BY RequestFields DEF Judge
<1>2. clock' = clock /\ Allow(client, now)
  BY DEF Judge
<1>3. requests' \in [Clients -> 0 .. Limit] /\ Counted(now) \in [Clients -> 0 .. Limit]
  <2>1. Counted(now) \in [Clients -> 0 .. Limit]
    BY OptionsPositive DEF Counted, NoRequests
  <2> QED
    BY <1>1, <1>2, <2>1, OptionsPositive DEF Allow, Allows
<1>4. /\ windowStart' \in 0 .. clock' /\ windows' \in Nat
      /\ windows' * Window <= windowStart'
  <2>1. CASE Expires(now)
    <3>1. windowStart' = now /\ windows' = windows + 1
      BY <1>2, <2>1 DEF Allow
    <3>2. (windows + 1) * Window = windows * Window + Window
      BY SuccTimes, OptionsPositive
    <3>3. windows * Window \in Nat
      BY TimesMonotone, OptionsPositive
    <3> HIDE DEF now
    <3> QED
      BY <1>1, <1>2, <2>1, <3>1, <3>2, <3>3, OptionsPositive DEF Expires, RateOK
  <2>2. CASE ~Expires(now)
    BY <1>2, <2>2 DEF Allow, RateOK
  <2> QED
    BY <2>1, <2>2
<1>5. admitted' = IF Allows(client, now)
                    THEN [admitted EXCEPT ![client] = @ + 1] ELSE admitted
  BY DEF Judge
<1>6. \A c \in Clients : admitted[c] <= windows' * Limit + Counted(now)[c]
  <2>1. CASE Expires(now)
    <3>1. windows' = windows + 1 /\ Counted(now) = NoRequests
      BY <1>2, <2>1 DEF Allow, Counted
    <3>2. (windows + 1) * Limit = windows * Limit + Limit
      BY SuccTimes, OptionsPositive
    <3>3. windows * Limit \in Nat
      BY TimesMonotone, OptionsPositive
    <3> QED
      BY <3>1, <3>2, <3>3, OptionsPositive DEF RateOK, NoRequests
  <2>2. CASE ~Expires(now)
    BY <1>2, <2>2 DEF Allow, Counted, RateOK
  <2> QED
    BY <2>1, <2>2
<1>7. admitted' \in [Clients -> Nat] /\ RateOK'
  <2>1. windows' * Limit \in Nat
    <3> DEFINE begun == windows'
    <3>1. begun \in Nat
      BY <1>4
    <3> HIDE DEF begun
    <3>2. begun * Limit \in Nat
      BY <3>1, TimesMonotone, OptionsPositive
    <3> QED
      BY <3>2 DEF begun
  <2>2. requests' = IF Allows(client, now)
                      THEN [Counted(now) EXCEPT ![client] = @ + 1] ELSE Counted(now)
    BY <1>2 DEF Allow
  <2> HIDE DEF client, now
  <2>3. admitted' \in [Clients -> Nat]
    BY <1>1, <1>5
  <2>4. \A c \in Clients : admitted'[c] <= windows' * Limit + requests'[c]
    <3> SUFFICES ASSUME NEW c \in Clients
                 PROVE  admitted'[c] <= windows' * Limit + requests'[c]
      OBVIOUS
    <3>1. CASE Allows(client, now) /\ c = client
      <4>1. admitted'[c] = admitted[c] + 1 /\ requests'[c] = Counted(now)[c] + 1
        BY <1>3, <1>5, <2>2, <3>1
      <4> QED
        BY <1>3, <1>6, <2>1, <4>1
    <3>2. CASE ~(Allows(client, now) /\ c = client)
      <4>1. admitted'[c] = admitted[c] /\ requests'[c] = Counted(now)[c]
        BY <1>3, <1>5, <2>2, <3>2
      <4> QED
        BY <1>6, <4>1
    <3> QED
      BY <3>1, <3>2
  <2> QED
    BY <1>4, <2>3, <2>4 DEF RateOK
<1>8. conn' \in [Conns -> Requests']
  <2>1. Admitted \in Requests' /\ Refused(client, now) \in Requests'
    BY <1>1, <1>2 DEF Requests
  <2>2. Requests' = Requests
    BY <1>2 DEF Requests
  <2> QED
    BY <2>1, <2>2 DEF Judge
<1>9. /\ admissions' \in [Clients -> [0 .. Horizon -> Nat]]
      /\ timely' \in [Clients -> [0 .. Horizon -> Nat]]
  <2>1. \A log \in [Clients -> [0 .. Horizon -> Nat]] :
           [log EXCEPT ![client][clock] = @ + 1] \in [Clients -> [0 .. Horizon -> Nat]]
    BY <1>1, LogCounts
  <2>2. /\ \/ admissions' = admissions
           \/ admissions' = [admissions EXCEPT ![client][clock] = @ + 1]
        /\ \/ timely' = timely
           \/ timely' = [timely EXCEPT ![client][clock] = @ + 1]
    BY DEF Judge
  <2> QED
    BY <2>1, <2>2
<1>10. UNCHANGED <<clock, httpRequestsTotal, rateLimitExceeded, sent, received>>
  BY DEF Judge, metricVars
<1> QED
  BY <1>3, <1>4, <1>7, <1>8, <1>9, <1>10

\* The clock keeps RInv.
LEMMA TickStep ==
    ASSUME RInv, Tick
    PROVE  RInv'
<1> USE DEF RInv, TypeOK
<1>1. clock' \in 0 .. Horizon /\ clock <= clock'
  BY RouterAssumption DEF Tick
<1>2. conn' \in [Conns -> Requests']
  <2>1. Requests \subseteq Requests'
    BY <1>1, RouterAssumption DEF Requests
  <2> QED
    BY <2>1 DEF Tick
<1>3. TypeOK'
  BY <1>1, <1>2, RouterAssumption DEF Tick, limiterVars, metricVars, historyVars
<1>4. RateOK'
  BY DEF Tick, RateOK, limiterVars, historyVars
<1> QED
  BY <1>3, <1>4

\* every step keeps the invariant
LEMMA NextRInv == RInv /\ [Next]_vars => RInv'
<1> SUFFICES ASSUME RInv, [Next]_vars PROVE RInv'
  OBVIOUS
<1>1. CASE Tick
  BY <1>1, TickStep
<1>2. CASE \E q \in Conns : Judge(q)
  BY <1>2, JudgeStep
<1>3. CASE \E q \in Conns : Preflight(q) \/ Receive(q) \/ ReadClock(q) \/ Refuse(q)
                              \/ Handle(q) \/ Panic(q) \/ Count(q)
  BY <1>3, OtherSteps
<1>4. CASE UNCHANGED vars
  BY <1>4, LimiterUntouched DEF vars, historyVars, metricVars, RInv, TypeOK
<1> QED
  BY <1>1, <1>2, <1>3, <1>4 DEF Next, Proceed

\* RInv holds throughout.
LEMMA RouterInvariance == Spec => []RInv
BY InitRInv, NextRInv, PTL DEF Spec

-----------------------------------------------------------------------------

(***************************************************************************)
(* No counter of a window passes the limit and no window begins in the     *)
(* future, whatever the requests and their staleness.                      *)
(***************************************************************************)
THEOREM RouterTypeCorrect == Spec => []TypeOK
<1>1. RInv => TypeOK
  BY DEF RInv
<1> QED
  BY <1>1, RouterInvariance, PTL

(***************************************************************************)
(* Before n windows have passed a client is let through at most n * Limit  *)
(* times, for every number of clients and connections, every limit and     *)
(* window, and every schedule of the goroutines inside Allow.              *)
(***************************************************************************)
THEOREM RateIsBounded == Spec => []LongRunRate
<1>1. RInv => LongRunRate
  <2> SUFFICES ASSUME RInv, NEW c \in Clients, NEW n \in 1 .. clock + 1, clock < n * Window
               PROVE  admitted[c] <= n * Limit
    BY DEF LongRunRate
  <2> USE OptionsPositive DEF RInv, TypeOK
  <2>0. n \in Nat /\ clock \in Nat /\ windows \in Nat
    OBVIOUS
  <2>1. windows * Window \in Nat /\ n * Window \in Nat
    BY <2>0, TimesMonotone
  <2>2. windows * Window < n * Window
    <3> DEFINE begun == windows * Window
               room  == n * Window
    <3>1. begun <= windowStart /\ windowStart \in 0 .. clock /\ clock < room
      BY DEF RateOK
    <3>2. begun \in Nat /\ room \in Nat
      BY <2>1
    <3> HIDE DEF begun, room
    <3>3. begun < room
      BY <2>0, <3>1, <3>2
    <3> QED
      BY <3>3 DEF begun, room
  <2>3. windows + 1 <= n
    BY <2>0, <2>2, TimesCancel
  <2>4. (windows + 1) * Limit <= n * Limit /\ n * Limit \in Nat
    BY <2>0, <2>3, TimesMonotone
  <2>5. (windows + 1) * Limit = windows * Limit + Limit /\ windows * Limit \in Nat
    BY <2>0, SuccTimes, TimesMonotone
  <2>6. admitted[c] <= windows * Limit + requests[c] /\ requests[c] \in 0 .. Limit
    BY DEF RateOK
  <2> DEFINE spread == windows * Limit
             bound  == n * Limit
  <2>7. /\ spread + Limit <= bound /\ spread \in Nat /\ bound \in Nat
        /\ admitted[c] <= spread + requests[c] /\ admitted[c] \in Nat
    BY <2>4, <2>5, <2>6
  <2> HIDE DEF spread, bound
  <2>8. admitted[c] <= bound
    BY <2>6, <2>7
  <2> QED
    BY <2>8 DEF bound
<1> QED
  BY <1>1, RouterInvariance, PTL

-----------------------------------------------------------------------------
(* What a client is let through between two instants.                      *)

\* the requests of a client's log between two instants
Spent(row, from, to) == {u \in Units(row) : from <= u[1] /\ u[1] <= to}

\* the log with one request more at instant s
Grown(row, s) == [row EXCEPT ![s] = @ + 1]

\* One request more at instant s is one unit more.
LEMMA UnitsGrow ==
    ASSUME NEW row \in [0 .. Horizon -> Nat], NEW s \in 0 .. Horizon
    PROVE  /\ Units([row EXCEPT ![s] = @ + 1]) = Units(row) \cup {<<s, row[s] + 1>>}
           /\ <<s, row[s] + 1>> \notin Units(row)
<1> DEFINE new == [row EXCEPT ![s] = @ + 1]
           more == <<s, row[s] + 1>>
<1>1. \A u, r : r \in [0 .. Horizon -> Nat] =>
         (u \in Units(r) <=> \E t \in 0 .. Horizon, k \in Nat :
                                 k >= 1 /\ k <= r[t] /\ u = <<t, k>>)
  <2> SUFFICES ASSUME NEW u, NEW r \in [0 .. Horizon -> Nat]
               PROVE  u \in Units(r) <=> \E t \in 0 .. Horizon, k \in Nat :
                                            k >= 1 /\ k <= r[t] /\ u = <<t, k>>
    OBVIOUS
  <2>1. u \in Units(r) <=> \E t \in 0 .. Horizon : u \in {t} \X (1 .. r[t])
    BY DEF Units
  <2>2. \A t \in 0 .. Horizon : u \in {t} \X (1 .. r[t]) <=>
           \E k \in Nat : k >= 1 /\ k <= r[t] /\ u = <<t, k>>
    <3> TAKE t \in 0 .. Horizon
    <3>1. r[t] \in Nat
      OBVIOUS
    <3>2. u \in {t} \X (1 .. r[t]) <=> \E k \in 1 .. r[t] : u = <<t, k>>
      OBVIOUS
    <3>3. \A k : k \in 1 .. r[t] <=> k \in Nat /\ k >= 1 /\ k <= r[t]
      BY <3>1
    <3> QED
      BY <3>2, <3>3
  <2> QED
    BY <2>1, <2>2
<1>2. /\ new \in [0 .. Horizon -> Nat] /\ new[s] = row[s] + 1 /\ row[s] \in Nat
      /\ \A t \in 0 .. Horizon : t # s => new[t] = row[t]
  <2>1. row[s] \in Nat /\ row[s] + 1 \in Nat
    OBVIOUS
  <2> QED
    BY <2>1
<1> HIDE DEF new
<1>3. \A u : u \in Units(new) <=> u \in Units(row) \/ u = more
  <2> SUFFICES ASSUME NEW u PROVE u \in Units(new) <=> u \in Units(row) \/ u = more
    OBVIOUS
  <2>1. u \in Units(row) => u \in Units(new)
    <3> SUFFICES ASSUME NEW t \in 0 .. Horizon, NEW k \in Nat, k >= 1, k <= row[t], u = <<t, k>>
                 PROVE  u \in Units(new)
      BY <1>1
    <3>1. k <= new[t]
      BY <1>2
    <3> QED
      BY <1>1, <1>2, <3>1
  <2>2. more \in Units(new)
    <3>1. row[s] + 1 \in Nat /\ row[s] + 1 >= 1 /\ row[s] + 1 <= new[s]
      BY <1>2
    <3> QED
      BY <1>1, <1>2, <3>1
  <2>3. u \in Units(new) => u \in Units(row) \/ u = more
    <3> SUFFICES ASSUME NEW t \in 0 .. Horizon, NEW k \in Nat, k >= 1, k <= new[t], u = <<t, k>>
                 PROVE  u \in Units(row) \/ u = more
      BY <1>1, <1>2
    <3>1. CASE k <= row[t]
      BY <1>1, <3>1
    <3>2. CASE ~(k <= row[t])
      <4>1. t = s /\ k = row[s] + 1
        BY <1>2, <3>2
      <4> QED
        BY <4>1
    <3> QED
      BY <3>1, <3>2
  <2> QED
    BY <2>1, <2>2, <2>3
<1>4. more \notin Units(row)
  <2> SUFFICES ASSUME NEW t \in 0 .. Horizon, NEW k \in Nat, k <= row[t], more = <<t, k>>
               PROVE  FALSE
    BY <1>1
  <2>1. t = s /\ k = row[s] + 1
    OBVIOUS
  <2> QED
    BY <1>2, <2>1
<1> QED
  BY <1>3, <1>4 DEF new

\* It counts in the stretches that hold s.
LEMMA SpentGrows ==
    ASSUME NEW row \in [0 .. Horizon -> Nat], NEW s \in 0 .. Horizon,
           IsFiniteSet(Units(row)), NEW new, new = Grown(row, s)
    PROVE  /\ IsFiniteSet(Units(new))
           /\ \A from, to :
                 /\ Cardinality(Spent(row, from, to)) \in Nat
                 /\ Cardinality(Spent(new, from, to)) =
                       Cardinality(Spent(row, from, to))
                         + IF from <= s /\ s <= to THEN 1 ELSE 0
<1> DEFINE more == <<s, row[s] + 1>>
<1>1. Units(new) = Units(row) \cup {more} /\ more \notin Units(row) /\ more[1] = s
  BY UnitsGrow DEF Grown
<1> HIDE DEF more
<1>2. IsFiniteSet(Units(new))
  BY <1>1, FS_AddElement
<1>3. ASSUME NEW from, NEW to
      PROVE  /\ Cardinality(Spent(row, from, to)) \in Nat
             /\ Cardinality(Spent(new, from, to)) =
                   Cardinality(Spent(row, from, to))
                     + IF from <= s /\ s <= to THEN 1 ELSE 0
  <2>1. IsFiniteSet(Spent(row, from, to)) /\ Cardinality(Spent(row, from, to)) \in Nat
    <3>1. Spent(row, from, to) \in SUBSET Units(row)
      BY DEF Spent
    <3> QED
      BY <3>1, FS_Subset, FS_CardinalityType
  <2>2. CASE from <= s /\ s <= to
    <3>1. /\ Spent(new, from, to) = Spent(row, from, to) \cup {more}
          /\ more \notin Spent(row, from, to)
      BY <1>1, <2>2 DEF Spent
    <3>2. Cardinality(Spent(new, from, to)) = Cardinality(Spent(row, from, to)) + 1
      BY <2>1, <3>1, FS_AddElement
    <3> QED
      BY <2>1, <2>2, <3>2
  <2>3. CASE ~(from <= s /\ s <= to)
    <3>1. Spent(new, from, to) = Spent(row, from, to)
      BY <1>1, <2>3 DEF Spent
    <3> QED
      BY <2>1, <2>3, <3>1
  <2> QED
    BY <2>2, <2>3
<1> QED
  BY <1>2, <1>3

\* A longer stretch holds more.
LEMMA SpentWider ==
    ASSUME NEW row \in [0 .. Horizon -> Nat], IsFiniteSet(Units(row)),
           NEW from \in Int, NEW to \in Int, NEW from2 \in Int, NEW to2 \in Int,
           \A s \in 0 .. Horizon : row[s] > 0 /\ from <= s /\ s <= to => from2 <= s /\ s <= to2
    PROVE  /\ Cardinality(Spent(row, from, to)) \in Nat
           /\ Cardinality(Spent(row, from2, to2)) \in Nat
           /\ Cardinality(Spent(row, from, to)) <= Cardinality(Spent(row, from2, to2))
<1>1. \A u \in Units(row) : u[1] \in 0 .. Horizon /\ row[u[1]] > 0
  <2> SUFFICES ASSUME NEW t \in 0 .. Horizon, NEW u \in {t} \X (1 .. row[t])
               PROVE  u[1] \in 0 .. Horizon /\ row[u[1]] > 0
    BY DEF Units
  <2>1. PICK k \in 1 .. row[t] : u = <<t, k>>
    OBVIOUS
  <2>2. row[t] \in Nat /\ row[t] > 0
    OBVIOUS
  <2> QED
    BY <2>1, <2>2
<1>2. Spent(row, from, to) \in SUBSET Spent(row, from2, to2)
  BY <1>1 DEF Spent
<1>3. Spent(row, from2, to2) \in SUBSET Units(row)
  BY DEF Spent
<1>4. IsFiniteSet(Spent(row, from2, to2))
  BY <1>3, FS_Subset
<1>5. IsFiniteSet(Spent(row, from, to))
  BY <1>2, <1>4, FS_Subset
<1> QED
  BY <1>2, <1>4, <1>5, FS_Subset, FS_CardinalityType

\* Two adjacent stretches hold what they hold together.
LEMMA SpentSplit ==
    ASSUME NEW row \in [0 .. Horizon -> Nat], IsFiniteSet(Units(row)),
           NEW from \in Int, NEW to \in Int, NEW mid \in Int
    PROVE  /\ Cardinality(Spent(row, from, to)) \in Nat
           /\ Cardinality(Spent(row, from, mid - 1)) \in Nat
           /\ Cardinality(Spent(row, mid, to)) \in Nat
           /\ Cardinality(Spent(row, from, to)) <=
                 Cardinality(Spent(row, from, mid - 1)) + Cardinality(Spent(row, mid, to))
<1> DEFINE A == Spent(row, from, mid - 1)
           B == Spent(row, mid, to)
<1>1. \A u \in Units(row) : u[1] \in 0 .. Horizon
  <2> SUFFICES ASSUME NEW t \in 0 .. Horizon, NEW u \in {t} \X (1 .. row[t])
               PROVE  u[1] \in 0 .. Horizon
    BY DEF Units
  <2> QED
    OBVIOUS
<1>2. \A x \in 0 .. Horizon : from <= x /\ x <= to =>
         (from <= x /\ x <= mid - 1) \/ (mid <= x /\ x <= to)
  BY RouterAssumption
<1>3. Spent(row, from, to) \in SUBSET (A \cup B)
  BY <1>1, <1>2 DEF Spent
<1>4. IsFiniteSet(A) /\ IsFiniteSet(B)
  <2>1. A \in SUBSET Units(row) /\ B \in SUBSET Units(row)
    BY DEF Spent
  <2> QED
    BY <2>1, FS_Subset
<1> HIDE DEF A, B
<1>5. IsFiniteSet(A \cup B) /\ Cardinality(A \cup B) <= Cardinality(A) + Cardinality(B)
  <2>1. IsFiniteSet(A \cap B)
    BY <1>4, FS_Intersection
  <2>2. /\ Cardinality(A) \in Nat /\ Cardinality(B) \in Nat /\ Cardinality(A \cap B) \in Nat
    BY <1>4, <2>1, FS_CardinalityType
  <2>3. /\ IsFiniteSet(A \cup B)
        /\ Cardinality(A \cup B) = Cardinality(A) + Cardinality(B) - Cardinality(A \cap B)
    BY <1>4, FS_Union
  <2> QED
    BY <2>2, <2>3
<1>6. /\ IsFiniteSet(Spent(row, from, to))
      /\ Cardinality(Spent(row, from, to)) <= Cardinality(A \cup B)
  BY <1>3, <1>5, FS_Subset
<1>7. /\ Cardinality(A) \in Nat /\ Cardinality(B) \in Nat /\ Cardinality(A \cup B) \in Nat
      /\ Cardinality(Spent(row, from, to)) \in Nat
  BY <1>4, <1>5, <1>6, FS_CardinalityType
<1> QED
  BY <1>5, <1>6, <1>7 DEF A, B


-----------------------------------------------------------------------------

(***************************************************************************)
(* The burst and the refusals need to know what the limiter's counters     *)
(* count.  A timely request is judged in the window its instant lies in:   *)
(* those of the present window are within its counters, and those of one   *)
(* window's length before it lie in the window before and are within the   *)
(* limit, because no two windows overlap.                                  *)
(***************************************************************************)
LogsOK ==
    \A c \in Clients :
        /\ IsFiniteSet(Units(admissions[c])) /\ IsFiniteSet(Units(timely[c]))
        /\ \A s \in 0 .. Horizon : timely[c][s] > 0 => s < windowStart + Window
        /\ requests[c] <= During(admissions, c, windowStart, clock)
        /\ During(timely, c, windowStart, Horizon) <= requests[c]
        /\ During(timely, c, windowStart - Window, windowStart - 1) <= Limit

BurstInv == LogsOK /\ BurstBound /\ RefusedOnlyAtLimit

\* Admissions in an interval are the units spent in it.
LEMMA DuringSpent ==
    \A log, c, from, to : During(log, c, from, to) = Cardinality(Spent(log[c], from, to))
BY DEF During, Spent

\* The types of the limiters' state, as plain facts.
LEMMA LimiterTypes ==
    ASSUME RInv
    PROVE  /\ clock \in 0 .. Horizon /\ windowStart \in 0 .. clock
           /\ clock \in Int /\ windowStart \in Int /\ Horizon \in Nat
           /\ Limit \in Nat \ {0} /\ Window \in Nat \ {0}
           /\ \A c \in Clients :
                 /\ requests[c] \in 0 .. Limit
                 /\ admissions[c] \in [0 .. Horizon -> Nat]
                 /\ timely[c] \in [0 .. Horizon -> Nat]
BY OptionsPositive, RouterAssumption DEF RInv, TypeOK

\* what the record of a refused request holds
LEMMA RefusedFields ==
    ASSUME TypeOK, NEW q \in Conns, conn[q].pc = "refused"
    PROVE  conn[q].client \in Clients /\ conn[q].now \in Int
<1>1. conn[q] \in Requests
  BY DEF TypeOK
<1>2. \E c \in Clients, t \in 0 .. clock : conn[q] = Refused(c, t)
  BY <1>1 DEF Requests, Idle, Admitted, Arrived, Waiting, Answered
<1>3. 0 .. clock \subseteq Int
  BY RouterAssumption DEF TypeOK
<1> QED
  BY <1>2, <1>3 DEF Refused

\* At first nobody has been admitted.
LEMMA InitBurstInv == Init => BurstInv
<1> SUFFICES ASSUME Init PROVE BurstInv
  OBVIOUS
<1>1. /\ clock = 0 /\ windowStart = 0 /\ Horizon \in Nat
      /\ Limit \in Nat \ {0} /\ Window \in Nat \ {0}
      /\ \A c \in Clients : requests[c] = 0
  BY OptionsPositive, RouterAssumption DEF Init, LimiterInit, NoRequests
<1>2. \A c \in Clients : \A s \in 0 .. Horizon : timely[c][s] = 0 /\ admissions[c][s] = 0
  BY DEF Init, NoAdmissions
<1>3. \A c \in Clients : Units(timely[c]) = {} /\ Units(admissions[c]) = {}
  <2>1. \A k : k \notin 1 .. 0
    OBVIOUS
  <2>2. \A c \in Clients : DOMAIN timely[c] = 0 .. Horizon /\ DOMAIN admissions[c] = 0 .. Horizon
    BY DEF Init, NoAdmissions
  <2>3. 1 .. 0 = {}
    OBVIOUS
  <2> QED
    BY <1>2, <2>2, <2>3 DEF Units
<1>4. \A c \in Clients : \A from, to : During(timely, c, from, to) = 0 /\ During(admissions, c, from, to) = 0
  BY <1>3, FS_EmptySet DEF During
<1>5. LogsOK
  <2>1. \A c \in Clients : IsFiniteSet(Units(admissions[c])) /\ IsFiniteSet(Units(timely[c]))
    BY <1>3, FS_EmptySet
  <2> QED
    <3> SUFFICES ASSUME NEW c \in Clients
                 PROVE  /\ \A s \in 0 .. Horizon : timely[c][s] > 0 => s < windowStart + Window
                        /\ requests[c] <= During(admissions, c, windowStart, clock)
                        /\ During(timely, c, windowStart, Horizon) <= requests[c]
                        /\ During(timely, c, windowStart - Window, windowStart - 1) <= Limit
      BY <2>1 DEF LogsOK
    <3>1. \A s \in 0 .. Horizon : ~(timely[c][s] > 0)
      BY <1>2
    <3>2. /\ During(admissions, c, windowStart, clock) = 0
          /\ During(timely, c, windowStart, Horizon) = 0
          /\ During(timely, c, windowStart - Window, windowStart - 1) = 0
      BY <1>4
    <3>3. requests[c] = 0 /\ 0 <= Limit
      BY <1>1
    <3> QED
      BY <3>1, <3>2, <3>3
<1>6. BurstBound
  BY <1>1, <1>4 DEF BurstBound
<1>7. RefusedOnlyAtLimit
  BY DEF Init, Idle, RefusedOnlyAtLimit
<1> QED
  BY <1>5, <1>6, <1>7 DEF BurstInv

\* what the steps that leave the limiter alone have to keep
LEMMA LogsUntouched ==
    ASSUME BurstInv, RInv, UNCHANGED <<limiterVars, admissions, timely>>,
           clock' \in Int, clock <= clock',
           \A q \in Conns : conn'[q].pc = "refused" => conn'[q] = conn[q],
           \A q \in Conns : conn[q].pc = "refused" =>
               conn[q].client \in Clients /\ conn[q].now \in Int
    PROVE  BurstInv'
<1>1. /\ windowStart' = windowStart /\ requests' = requests
      /\ admissions' = admissions /\ timely' = timely
  BY DEF limiterVars
<1>2. \A c \in Clients, from \in Int :
         /\ During(admissions, c, from, clock) \in Nat
         /\ During(admissions, c, from, clock') \in Nat
         /\ During(admissions, c, from, clock) <= During(admissions, c, from, clock')
  <2> SUFFICES ASSUME NEW c \in Clients, NEW from \in Int
               PROVE  /\ During(admissions, c, from, clock) \in Nat
                      /\ During(admissions, c, from, clock') \in Nat
                      /\ During(admissions, c, from, clock) <= During(admissions, c, from, clock')
    OBVIOUS
  <2>1. PICK row, old, new : row = admissions[c] /\ old = clock /\ new = clock'
    OBVIOUS
  <2>2. /\ row \in [0 .. Horizon -> Nat] /\ IsFiniteSet(Units(row))
        /\ old \in Int /\ new \in Int /\ old <= new /\ Horizon \in Nat
    BY <2>1, LimiterTypes DEF BurstInv, LogsOK
  <2>3. \A s \in 0 .. Horizon : row[s] > 0 /\ from <= s /\ s <= old => from <= s /\ s <= new
    BY <2>2
  <2>4. /\ Cardinality(Spent(row, from, old)) \in Nat /\ Cardinality(Spent(row, from, new)) \in Nat
        /\ Cardinality(Spent(row, from, old)) <= Cardinality(Spent(row, from, new))
    BY <2>2, <2>3, SpentWider
  <2> QED
    BY <2>1, <2>4, DuringSpent
<1>3. LogsOK'
  <2> SUFFICES ASSUME NEW c \in Clients
               PROVE  requests[c] <= During(admissions, c, windowStart, clock')
    BY <1>1 DEF BurstInv, LogsOK, During
  <2>1. requests[c] <= During(admissions, c, windowStart, clock) /\ requests[c] \in Int
    BY LimiterTypes DEF BurstInv, LogsOK
  <2>2. /\ During(admissions, c, windowStart, clock) \in Nat
        /\ During(admissions, c, windowStart, clock') \in Nat
        /\ During(admissions, c, windowStart, clock) <= During(admissions, c, windowStart, clock')
    BY <1>2, LimiterTypes
  <2> QED
    BY <2>1, <2>2
<1>4. BurstBound'
  BY <1>1 DEF BurstInv, BurstBound, During
<1>5. RefusedOnlyAtLimit'
  <2> SUFFICES ASSUME NEW q \in Conns, conn'[q].pc = "refused"
               PROVE  During(admissions, conn[q].client, conn[q].now - Window + 1, clock') >= Limit
    BY <1>1 DEF RefusedOnlyAtLimit, During
  <2>1. conn[q].pc = "refused" /\ conn'[q] = conn[q]
    OBVIOUS
  <2>2. PICK c, from : c = conn[q].client /\ from = conn[q].now - Window + 1
    OBVIOUS
  <2>3. c \in Clients /\ from \in Int
    BY <2>1, <2>2, OptionsPositive
  <2>4. During(admissions, c, from, clock) >= Limit
    BY <2>1, <2>2 DEF BurstInv, RefusedOnlyAtLimit
  <2>5. During(admissions, c, from, clock') >= Limit
    BY <1>2, <2>3, <2>4, OptionsPositive
  <2> QED
    BY <2>2, <2>5
<1> QED
  BY <1>3, <1>4, <1>5 DEF BurstInv


\* what a step of the critical section does to the counter and the logs of client c,
\* in the window that then is the present one
LEMMA JudgeLogs ==
    ASSUME RInv, NEW q \in Conns, Judge(q), NEW c \in Clients
    PROVE  \E hit, prompt \in BOOLEAN :
             /\ prompt => hit
             /\ windowStart' \in Int /\ windowStart <= windowStart'
             /\ windowStart' = windowStart \/ windowStart + Window <= windowStart'
             /\ windowStart' <= clock
             /\ prompt => clock < windowStart' + Window
             /\ requests'[c] = (IF windowStart' = windowStart THEN requests[c] ELSE 0)
                                  + (IF hit THEN 1 ELSE 0)
             /\ admissions'[c] = IF hit THEN Grown(admissions[c], clock)
                                 ELSE admissions[c]
             /\ timely'[c] = IF prompt THEN Grown(timely[c], clock)
                             ELSE timely[c]
<1> DEFINE client == conn[q].client
           now == conn[q].now
           hit == c = client /\ Allows(client, now)
           prompt == hit /\ now = clock
<1>1. client \in Clients /\ now \in 0 .. clock
  BY RequestFields DEF RInv, Judge
<1>2. Allow(client, now)
  BY DEF Judge
<1>3. /\ windowStart' = IF Expires(now) THEN now ELSE windowStart
      /\ Expires(now) <=> now - windowStart >= Window
      /\ requests' = IF Allows(client, now)
                       THEN [Counted(now) EXCEPT ![client] = @ + 1]
                       ELSE Counted(now)
      /\ Counted(now) = IF Expires(now) THEN NoRequests ELSE requests
  BY <1>2 DEF Allow, Expires, Counted
<1>4. /\ admissions' = IF Allows(client, now)
                         THEN [admissions EXCEPT ![client][clock] = @ + 1] ELSE admissions
      /\ timely' = IF Allows(client, now) /\ now = clock
                     THEN [timely EXCEPT ![client][clock] = @ + 1] ELSE timely
  BY DEF Judge
<1>5. requests \in [Clients -> 0 .. Limit] /\ NoRequests \in [Clients -> {0}]
  BY DEF RInv, TypeOK, NoRequests
<1>6. DOMAIN admissions = Clients /\ DOMAIN timely = Clients
  BY DEF RInv, TypeOK
<1>7. PICK n, cl : n = now /\ cl = client
  OBVIOUS
<1> HIDE DEF client, now
<1>8. /\ windowStart' \in Int /\ windowStart <= windowStart'
      /\ windowStart' = windowStart \/ windowStart + Window <= windowStart'
      /\ windowStart' <= clock
      /\ now = clock => clock < windowStart' + Window
      /\ Expires(now) <=> windowStart' # windowStart
  BY <1>1, <1>3, LimiterTypes
<1>9. requests'[c] = (IF windowStart' = windowStart THEN requests[c] ELSE 0)
                        + (IF hit THEN 1 ELSE 0)
  <2>1. /\ Counted(now) \in [Clients -> Int]
        /\ Counted(now)[c] = IF windowStart' = windowStart THEN requests[c] ELSE 0
    BY <1>3, <1>5, <1>8
  <2>2. requests'[c] = IF hit THEN Counted(now)[c] + 1 ELSE Counted(now)[c]
    BY <1>1, <1>3, <2>1
  <2>3. Counted(now)[c] \in Int
    BY <2>1
  <2> HIDE DEF hit
  <2> QED
    BY <2>1, <2>2, <2>3
<1>10. /\ admissions'[c] = IF hit THEN Grown(admissions[c], clock)
                           ELSE admissions[c]
       /\ timely'[c] = IF prompt THEN Grown(timely[c], clock) ELSE timely[c]
  BY <1>1, <1>4, <1>6 DEF Grown
<1>11. hit \in BOOLEAN /\ prompt \in BOOLEAN /\ (prompt => hit) /\ (prompt => now = clock)
  OBVIOUS
<1> HIDE DEF hit, prompt
<1> QED
  BY <1>8, <1>9, <1>10, <1>11

\* The log of timely requests fits a counter that stands at used, in a window
\* that began at start: what LogsOK and BurstBound say of one client.
LogFits(row, start, used, width, most) ==
    /\ IsFiniteSet(Units(row))
    /\ \A s \in 0 .. Horizon : row[s] > 0 => s < start + width
    /\ Cardinality(Spent(row, start, Horizon)) <= used
    /\ Cardinality(Spent(row, start - width, start - 1)) <= most
    /\ \A t \in 0 .. Horizon : Cardinality(Spent(row, t, t + width - 1)) <= 2 * most

(***************************************************************************)
(* The counting in the critical section, in one client's log: start is the *)
(* window's instant before the step and begin the one after it, used and   *)
(* uses the client's counter before and after.                             *)
(***************************************************************************)
LEMMA LogAdvances ==
    ASSUME NEW row \in [0 .. Horizon -> Nat], NEW new, NEW at \in 0 .. Horizon, NEW prompt \in BOOLEAN,
           new = IF prompt THEN Grown(row, at) ELSE row,
           NEW width \in Nat \ {0}, NEW most \in Nat,
           NEW start \in Int, NEW begin \in Int, begin = start \/ start + width <= begin,
           begin <= at, prompt => at < begin + width,
           NEW used \in 0 .. most, NEW uses \in 0 .. most,
           uses >= (IF begin = start THEN used ELSE 0) + (IF prompt THEN 1 ELSE 0),
           LogFits(row, start, used, width, most)
    PROVE  LogFits(new, begin, uses, width, most)
<1>f. /\ IsFiniteSet(Units(row))
      /\ \A s \in 0 .. Horizon : row[s] > 0 => s < start + width
      /\ Cardinality(Spent(row, start, Horizon)) <= used
      /\ Cardinality(Spent(row, start - width, start - 1)) <= most
      /\ \A t \in 0 .. Horizon : Cardinality(Spent(row, t, t + width - 1)) <= 2 * most
  BY DEF LogFits
<1>0. Horizon \in Nat /\ at \in Int
  BY RouterAssumption
<1>1. /\ IsFiniteSet(Units(new)) /\ new \in [0 .. Horizon -> Nat]
      /\ \A from, to :
            /\ Cardinality(Spent(row, from, to)) \in Nat
            /\ Cardinality(Spent(new, from, to)) =
                  Cardinality(Spent(row, from, to))
                    + IF prompt /\ from <= at /\ at <= to THEN 1 ELSE 0
  <2>1. CASE prompt
    <3>1. new = Grown(row, at)
      BY <2>1
    <3>2. row[at] + 1 \in Nat
      OBVIOUS
    <3>3. /\ IsFiniteSet(Units(new))
          /\ \A from, to :
                /\ Cardinality(Spent(row, from, to)) \in Nat
                /\ Cardinality(Spent(new, from, to)) =
                      Cardinality(Spent(row, from, to))
                        + IF from <= at /\ at <= to THEN 1 ELSE 0
      BY <1>f, <3>1, SpentGrows
    <3>4. new \in [0 .. Horizon -> Nat]
      BY <3>1, <3>2 DEF Grown
    <3> QED
      BY <2>1, <3>3, <3>4
  <2>2. CASE ~prompt
    <3>1. new = row
      BY <2>2
    <3>2. \A from, to : Cardinality(Spent(row, from, to)) \in Nat
      <4>1. \A from, to : Spent(row, from, to) \in SUBSET Units(row)
        BY DEF Spent
      <4> QED
        BY <1>f, <4>1, FS_Subset, FS_CardinalityType
    <3> QED
      BY <1>f, <2>2, <3>1, <3>2
  <2> QED
    BY <2>1, <2>2
<1>2. \A s \in 0 .. Horizon : new[s] > 0 => s < begin + width
  <2> SUFFICES ASSUME NEW s \in 0 .. Horizon, new[s] > 0
               PROVE  s < begin + width
    OBVIOUS
  <2>1. CASE prompt /\ s = at
    BY <2>1
  <2>2. CASE ~(prompt /\ s = at)
    <3>1. new[s] = row[s]
      BY <2>2 DEF Grown
    <3>2. s < start + width
      BY <1>f, <3>1
    <3> QED
      BY <1>0, <3>2
  <2> QED
    BY <2>1, <2>2
<1>3. PICK one \in {0, 1} : one = IF prompt THEN 1 ELSE 0
  OBVIOUS
<1>4. /\ Cardinality(Spent(new, begin, Horizon)) = Cardinality(Spent(row, begin, Horizon)) + one
      /\ Cardinality(Spent(new, begin - width, begin - 1)) =
            Cardinality(Spent(row, begin - width, begin - 1))
  <2>1. begin <= at /\ at <= Horizon /\ ~(at <= begin - 1)
    BY <1>0
  <2>2. Cardinality(Spent(new, begin, Horizon)) = Cardinality(Spent(row, begin, Horizon)) + one
    BY <1>1, <1>3, <2>1
  <2>3. PICK from, to : from = begin - width /\ to = begin - 1
    OBVIOUS
  <2>4. /\ Cardinality(Spent(row, from, to)) \in Nat
        /\ Cardinality(Spent(new, from, to)) = Cardinality(Spent(row, from, to)) + 0
    BY <1>1, <2>1, <2>3
  <2>5. Cardinality(Spent(new, from, to)) = Cardinality(Spent(row, from, to))
    BY <2>4
  <2> QED
    BY <2>2, <2>3, <2>5
<1>5. Cardinality(Spent(new, begin, Horizon)) <= uses
  <2>0. Cardinality(Spent(row, begin, Horizon)) \in Nat
    BY <1>1
  <2>1. CASE begin = start
    <3>1. uses >= used + one
      BY <1>3, <2>1
    <3> QED
      BY <1>f, <1>3, <1>4, <2>0, <2>1, <3>1
  <2>2. CASE begin # start
    <3>1. \A s \in 0 .. Horizon : row[s] > 0 /\ begin <= s /\ s <= Horizon => 1 <= s /\ s <= 0
      BY <1>0, <1>f, <2>2
    <3>2. Cardinality(Spent(row, begin, Horizon)) <= Cardinality(Spent(row, 1, 0))
      <4>1. 1 \in Int /\ 0 \in Int /\ Horizon \in Int
        BY <1>0
      <4>2. PICK a \in Int, b \in Int, h \in Int : a = 1 /\ b = 0 /\ h = Horizon
        BY <4>1
      <4>3. \A s \in 0 .. Horizon : row[s] > 0 /\ begin <= s /\ s <= h => a <= s /\ s <= b
        BY <3>1, <4>2
      <4>4. Cardinality(Spent(row, begin, h)) <= Cardinality(Spent(row, a, b))
        BY <4>3, <1>f, SpentWider
      <4> QED
        BY <4>2, <4>4
    <3>3. Cardinality(Spent(row, 1, 0)) = 0
      <4>1. \A u \in Units(row) : u[1] \in Int
        <5> SUFFICES ASSUME NEW t \in 0 .. Horizon, NEW u \in {t} \X (1 .. row[t])
                     PROVE  u[1] \in Int
          BY DEF Units
        <5> QED
          OBVIOUS
      <4>2. \A x \in Int : ~(1 <= x /\ x <= 0)
        OBVIOUS
      <4>3. Spent(row, 1, 0) = {}
        BY <4>1, <4>2 DEF Spent
      <4> QED
        BY <4>3, FS_EmptySet
    <3>4. uses >= one
      BY <1>3, <2>2
    <3> QED
      BY <1>f, <1>3, <1>4, <2>0, <3>2, <3>3, <3>4
  <2> QED
    BY <2>1, <2>2
<1>6. Cardinality(Spent(new, begin - width, begin - 1)) <= most
  <2>1. CASE begin = start
    BY <1>4, <1>f, <2>1
  <2>2. CASE begin # start
    <3>1. \A s \in 0 .. Horizon : row[s] > 0 /\ begin - width <= s /\ s <= begin - 1
             => start <= s /\ s <= Horizon
      BY <1>0, <1>f, <2>2
    <3>2. /\ Cardinality(Spent(row, begin - width, begin - 1)) \in Nat
          /\ Cardinality(Spent(row, start, Horizon)) \in Nat
          /\ Cardinality(Spent(row, begin - width, begin - 1)) <=
                Cardinality(Spent(row, start, Horizon))
      <4>1. PICK from \in Int, to \in Int, h \in Int :
                from = begin - width /\ to = begin - 1 /\ h = Horizon
        BY <1>0
      <4>2. \A s \in 0 .. Horizon : row[s] > 0 /\ from <= s /\ s <= to => start <= s /\ s <= h
        BY <3>1, <4>1
      <4>3. /\ Cardinality(Spent(row, from, to)) \in Nat
            /\ Cardinality(Spent(row, start, h)) \in Nat
            /\ Cardinality(Spent(row, from, to)) <= Cardinality(Spent(row, start, h))
        BY <4>2, <1>f, SpentWider
      <4> QED
        BY <4>1, <4>3
    <3> QED
      BY <1>4, <1>f, <3>2
  <2> QED
    BY <2>1, <2>2
<1>7. ASSUME NEW t \in 0 .. Horizon
      PROVE  Cardinality(Spent(new, t, t + width - 1)) <= 2 * most
  <2>1. CASE begin - width <= t
    <3>1. PICK from, to : from = begin - width /\ to = Horizon
      OBVIOUS
    <3>2. from \in Int /\ to \in Int /\ t \in Int /\ t + width - 1 \in Int /\ begin \in Int
      BY <1>0, <3>1
    <3>3. \A s \in 0 .. Horizon : new[s] > 0 /\ t <= s /\ s <= t + width - 1
             => from <= s /\ s <= to
      BY <1>0, <2>1, <3>1
    <3>4. /\ Cardinality(Spent(new, t, t + width - 1)) \in Nat
          /\ Cardinality(Spent(new, t, t + width - 1)) <= Cardinality(Spent(new, from, to))
      BY <1>1, <3>2, <3>3, <1>f, SpentWider
    <3>5. /\ Cardinality(Spent(new, from, to)) \in Nat
          /\ Cardinality(Spent(new, from, begin - 1)) \in Nat
          /\ Cardinality(Spent(new, begin, to)) \in Nat
          /\ Cardinality(Spent(new, from, to)) <=
                Cardinality(Spent(new, from, begin - 1)) + Cardinality(Spent(new, begin, to))
      BY <1>1, <3>2, <1>f, SpentSplit
    <3>6. /\ Cardinality(Spent(new, from, begin - 1)) <= most
          /\ Cardinality(Spent(new, begin, to)) <= uses
      BY <1>5, <1>6, <3>1
    <3> QED
      BY <3>4, <3>5, <3>6
  <2>2. CASE ~(begin - width <= t)
    <3>1. ~(at <= t + width - 1)
      BY <1>0, <1>f, <2>2
    <3>2. Cardinality(Spent(new, t, t + width - 1)) = Cardinality(Spent(row, t, t + width - 1)) + 0
      BY <1>1, <3>1
    <3>3. /\ Cardinality(Spent(row, t, t + width - 1)) \in Nat
          /\ Cardinality(Spent(row, t, t + width - 1)) <= 2 * most
      BY <1>1, <1>f
    <3> QED
      BY <3>2, <3>3
  <2> QED
    BY <2>1, <2>2
<1> QED
  BY <1>1, <1>2, <1>5, <1>6, <1>7 DEF LogFits


\* The critical section keeps the logs in step with the counters.
LEMMA JudgeBurst ==
    ASSUME BurstInv, RInv, RInv', NEW q \in Conns, Judge(q)
    PROVE  LogsOK' /\ BurstBound'
<1>1. clock' = clock
  BY DEF Judge
<1>2. ASSUME NEW c \in Clients
      PROVE  /\ IsFiniteSet(Units(admissions'[c])) /\ IsFiniteSet(Units(timely'[c]))
             /\ \A s \in 0 .. Horizon : timely'[c][s] > 0 => s < windowStart' + Window
             /\ requests'[c] <= Cardinality(Spent(admissions'[c], windowStart', clock))
             /\ Cardinality(Spent(timely'[c], windowStart', Horizon)) <= requests'[c]
             /\ Cardinality(Spent(timely'[c], windowStart' - Window, windowStart' - 1)) <= Limit
             /\ \A t \in 0 .. Horizon :
                   Cardinality(Spent(timely'[c], t, t + Window - 1)) <= 2 * Limit
  <2>1. PICK hit \in BOOLEAN, prompt \in BOOLEAN :
             /\ prompt => hit
             /\ windowStart' \in Int /\ windowStart <= windowStart'
             /\ windowStart' = windowStart \/ windowStart + Window <= windowStart'
             /\ windowStart' <= clock
             /\ prompt => clock < windowStart' + Window
             /\ requests'[c] = (IF windowStart' = windowStart THEN requests[c] ELSE 0)
                                  + (IF hit THEN 1 ELSE 0)
             /\ admissions'[c] = IF hit THEN Grown(admissions[c], clock)
                                 ELSE admissions[c]
             /\ timely'[c] = IF prompt THEN Grown(timely[c], clock)
                             ELSE timely[c]
    BY JudgeLogs
  <2>2. PICK all, allNext, row, new, at, start, begin, used, uses, width, most :
            /\ all = admissions[c] /\ allNext = admissions'[c]
            /\ row = timely[c] /\ new = timely'[c] /\ at = clock
            /\ start = windowStart /\ begin = windowStart'
            /\ used = requests[c] /\ uses = requests'[c]
            /\ width = Window /\ most = Limit
    OBVIOUS
  <2>3. /\ row \in [0 .. Horizon -> Nat] /\ all \in [0 .. Horizon -> Nat]
        /\ at \in 0 .. Horizon /\ start \in Int /\ width \in Nat \ {0} /\ most \in Nat
        /\ used \in 0 .. most
    BY <2>2, LimiterTypes
  <2>4. uses \in 0 .. most /\ begin \in Int
    <3>1. requests'[c] \in 0 .. Limit
      BY DEF RInv, TypeOK
    <3> QED
      BY <2>1, <2>2, <3>1
  <2>5. /\ begin = start \/ start + width <= begin
        /\ begin <= at /\ start <= begin
        /\ prompt => at < begin + width
        /\ new = IF prompt THEN Grown(row, at) ELSE row
        /\ allNext = IF hit THEN Grown(all, at) ELSE all
        /\ uses = (IF begin = start THEN used ELSE 0) + (IF hit THEN 1 ELSE 0)
    BY <2>1, <2>2
  <2>6. uses >= (IF begin = start THEN used ELSE 0) + (IF prompt THEN 1 ELSE 0)
    BY <2>1, <2>3, <2>4, <2>5
  <2>7. /\ IsFiniteSet(Units(row)) /\ IsFiniteSet(Units(all))
        /\ \A s \in 0 .. Horizon : row[s] > 0 => s < start + width
        /\ used <= Cardinality(Spent(all, start, at))
        /\ Cardinality(Spent(row, start, Horizon)) <= used
        /\ Cardinality(Spent(row, start - width, start - 1)) <= most
    BY <2>2, DuringSpent DEF BurstInv, LogsOK
  <2>8. \A t \in 0 .. Horizon : Cardinality(Spent(row, t, t + width - 1)) <= 2 * most
    BY <2>2, DuringSpent DEF BurstInv, BurstBound
  <2>9. LogFits(row, start, used, width, most)
    BY <2>7, <2>8 DEF LogFits
  <2>12. LogFits(new, begin, uses, width, most)
    BY <2>3, <2>4, <2>5, <2>6, <2>9, LogAdvances
  <2>10. IsFiniteSet(Units(allNext)) /\ uses <= Cardinality(Spent(allNext, begin, at))
    <3>1. CASE hit
      <4>1. allNext = Grown(all, at)
        BY <2>5, <3>1
      <4>2. /\ IsFiniteSet(Units(allNext))
            /\ Cardinality(Spent(all, begin, at)) \in Nat
            /\ Cardinality(Spent(allNext, begin, at)) =
                  Cardinality(Spent(all, begin, at))
                    + IF begin <= at /\ at <= at THEN 1 ELSE 0
        BY <2>3, <2>7, <4>1, SpentGrows
      <4>3. begin <= at /\ at <= at
        BY <2>3, <2>5
      <4>4. begin = start => used <= Cardinality(Spent(all, begin, at))
        BY <2>7
      <4> QED
        BY <2>3, <2>5, <3>1, <4>2, <4>3, <4>4
    <3>2. CASE ~hit
      <4>1. allNext = all
        BY <2>5, <3>2
      <4>2. Cardinality(Spent(all, begin, at)) \in Nat
        <5>1. Spent(all, begin, at) \in SUBSET Units(all)
          BY DEF Spent
        <5> QED
          BY <2>7, <5>1, FS_Subset, FS_CardinalityType
      <4>3. begin = start => used <= Cardinality(Spent(all, begin, at))
        BY <2>7
      <4> QED
        BY <2>3, <2>5, <2>7, <3>2, <4>1, <4>2, <4>3
    <3> QED
      BY <3>1, <3>2
  <2> QED
    BY <2>2, <2>10, <2>12 DEF LogFits
<1>3. LogsOK'
  BY <1>1, <1>2 DEF LogsOK, During, Spent
<1>4. BurstBound'
  BY <1>2 DEF BurstBound, During, Spent
<1> QED
  BY <1>3, <1>4

(***************************************************************************)
(* A client is refused in the window it used up, which began at most one   *)
(* window's length before the instant it is judged by.                     *)
(***************************************************************************)
LEMMA JudgeRefuses ==
    ASSUME BurstInv, RInv, NEW q \in Conns, Judge(q)
    PROVE  RefusedOnlyAtLimit'
<1> SUFFICES ASSUME NEW p \in Conns, conn'[p].pc = "refused"
             PROVE  During(admissions', conn'[p].client, conn'[p].now - Window + 1, clock') >= Limit
  BY DEF RefusedOnlyAtLimit, During
<1>1. /\ clock' = clock /\ DOMAIN conn = Conns
      /\ conn[q].client \in Clients /\ conn[q].now \in 0 .. clock
  BY RequestFields DEF RInv, TypeOK, Judge
<1>2. CASE p = q
  <2>1. PICK c, now : c = conn[q].client /\ now = conn[q].now
    OBVIOUS
  <2>2. ~Allows(c, now) /\ conn'[q] = Refused(c, now) /\ admissions' = admissions
    <3>1. Admitted.pc # "refused"
      BY DEF Admitted
    <3> QED
      BY <1>1, <1>2, <2>1, <3>1 DEF Judge
  <2>3. conn'[p].client = c /\ conn'[p].now = now
    BY <1>2, <2>2 DEF Refused
  <2>4. c \in Clients /\ now \in Int
    BY <1>1, <2>1, LimiterTypes
  <2>5. requests[c] >= Limit /\ now - windowStart < Window
    <3>1. ~(Counted(now)[c] < Limit)
      BY <2>2 DEF Allows
    <3>2. CASE Expires(now)
      <4>1. Counted(now)[c] = 0
        BY <2>4, <3>2 DEF Counted, NoRequests
      <4> QED
        BY <3>1, <4>1, OptionsPositive
    <3>3. CASE ~Expires(now)
      <4>1. Counted(now)[c] = requests[c]
        BY <3>3 DEF Counted
      <4> QED
        BY <2>4, <3>1, <3>3, <4>1, LimiterTypes DEF Expires
    <3> QED
      BY <3>2, <3>3
  <2>6. PICK row, start, from, at : /\ row = admissions[c] /\ start = windowStart
                                    /\ from = now - Window + 1 /\ at = clock
    OBVIOUS
  <2>7. /\ row \in [0 .. Horizon -> Nat] /\ IsFiniteSet(Units(row))
        /\ start \in Int /\ from \in Int /\ at \in Int /\ from <= start
    BY <2>4, <2>5, <2>6, LimiterTypes DEF BurstInv, LogsOK
  <2>8. \A s \in 0 .. Horizon : row[s] > 0 /\ start <= s /\ s <= at => from <= s /\ s <= at
    BY <2>7
  <2>9. /\ Cardinality(Spent(row, start, at)) \in Nat /\ Cardinality(Spent(row, from, at)) \in Nat
        /\ Cardinality(Spent(row, start, at)) <= Cardinality(Spent(row, from, at))
    BY <2>7, <2>8, SpentWider
  <2>10. requests[c] <= Cardinality(Spent(row, start, at)) /\ requests[c] \in Int
    BY <2>4, <2>6, DuringSpent, LimiterTypes DEF BurstInv, LogsOK
  <2>11. Cardinality(Spent(row, from, at)) >= Limit
    BY <2>5, <2>9, <2>10, OptionsPositive
  <2> QED
    BY <1>1, <2>2, <2>3, <2>6, <2>11, DuringSpent
<1>3. CASE p # q
  <2>1. conn'[p] = conn[p] /\ conn[p].pc = "refused"
    BY <1>1, <1>3 DEF Judge
  <2>2. conn[p].client \in Clients /\ conn[p].now \in Int
    BY <2>1, RefusedFields DEF RInv
  <2>3. PICK c, from, at : c = conn[p].client /\ from = conn[p].now - Window + 1 /\ at = clock
    OBVIOUS
  <2>4. During(admissions, c, from, at) >= Limit
    BY <2>1, <2>3 DEF BurstInv, RefusedOnlyAtLimit
  <2>5. During(admissions', c, from, at) >= Limit
    <3>1. PICK row, new : row = admissions[c] /\ new = admissions'[c]
      OBVIOUS
    <3>2. c \in Clients /\ row \in [0 .. Horizon -> Nat] /\ IsFiniteSet(Units(row)) /\ at \in 0 .. Horizon
      BY <2>2, <2>3, <3>1, LimiterTypes DEF BurstInv, LogsOK
    <3>3. new = row \/ new = Grown(row, at)
      BY <2>3, <3>1, <3>2, JudgeLogs
    <3>4. CASE new = row
      BY <2>4, <3>1, <3>4, DuringSpent
    <3>5. CASE new = Grown(row, at)
      <4>1. /\ Cardinality(Spent(row, from, at)) \in Nat
            /\ Cardinality(Spent(new, from, at)) =
                  Cardinality(Spent(row, from, at)) + IF from <= at /\ at <= at THEN 1 ELSE 0
        BY <3>2, <3>5, SpentGrows
      <4>2. Cardinality(Spent(row, from, at)) >= Limit
        BY <2>4, <3>1, DuringSpent
      <4>3. Cardinality(Spent(new, from, at)) >= Limit
        BY <4>1, <4>2, OptionsPositive
      <4> QED
        BY <3>1, <4>3, DuringSpent
    <3> QED
      BY <3>3, <3>4, <3>5
  <2> QED
    BY <1>1, <2>1, <2>3, <2>5
<1> QED
  BY <1>2, <1>3

\* every step keeps the books of the limiter
LEMMA NextBurstInv == BurstInv /\ RInv /\ RInv' /\ [Next]_vars => BurstInv'
<1> SUFFICES ASSUME BurstInv, RInv, RInv', [Next]_vars PROVE BurstInv'
  OBVIOUS
<1>1. CASE \E q \in Conns : Judge(q)
  BY <1>1, JudgeBurst, JudgeRefuses DEF BurstInv
<1>2. CASE ~\E q \in Conns : Judge(q)
  <2>1. UNCHANGED <<limiterVars, admissions, timely>> /\ clock' \in Int /\ clock <= clock'
    <3>1. clock \in Int /\ clock' \in Int
      BY LimiterTypes, RouterAssumption DEF RInv, TypeOK
    <3> QED
      BY <1>2, <3>1
         DEF Next, Proceed, Preflight, Receive, ReadClock, Refuse, Handle, Panic, Count, Tick,
             vars, historyVars
  <2>2. \A p \in Conns : conn'[p].pc = "refused" => conn'[p] = conn[p]
    <3>1. DOMAIN conn = Conns
      BY DEF RInv, TypeOK
    <3>2. /\ Idle.pc # "refused" /\ \A c : Arrived(c).pc # "refused"
          /\ \A c, t : Waiting(c, t).pc # "refused" /\ \A s : Answered(s).pc # "refused"
      BY DEF Idle, Arrived, Waiting, Answered
    <3> QED
      BY <1>2, <3>1, <3>2
         DEF Next, Proceed, Preflight, Receive, ReadClock, Refuse, Handle, Panic, Count, Tick,
             vars
  <2>3. \A p \in Conns : conn[p].pc = "refused" =>
            conn[p].client \in Clients /\ conn[p].now \in Int
    BY RefusedFields DEF RInv
  <2> QED
    BY <2>1, <2>2, <2>3, LogsUntouched
<1> QED
  BY <1>1, <1>2

\* The account of the limiters holds throughout.
LEMMA BurstInvariance == Spec => [](RInv /\ BurstInv)
<1>1. Init => RInv /\ BurstInv
  BY InitRInv, InitBurstInv
<1>2. RInv /\ BurstInv /\ [Next]_vars => (RInv /\ BurstInv)'
  BY NextRInv, NextBurstInv
<1> QED
  BY <1>1, <1>2, PTL DEF Spec

(***************************************************************************)
(* In any stretch of one window's length a client is let through at most   *)
(* twice the limit, requests judged by a stale instant aside.              *)
(***************************************************************************)
THEOREM BurstIsBounded == Spec => []BurstBound
<1>1. RInv /\ BurstInv => BurstBound
  BY DEF BurstInv
<1> QED
  BY <1>1, BurstInvariance, PTL

(***************************************************************************)
(* A client is refused only for what it did itself, however old the        *)
(* instant by which it is judged and whatever the other clients do.        *)
(***************************************************************************)
THEOREM RefusedFairly == Spec => []RefusedOnlyAtLimit
<1>1. RInv /\ BurstInv => RefusedOnlyAtLimit
  BY DEF BurstInv
<1> QED
  BY <1>1, BurstInvariance, PTL


-----------------------------------------------------------------------------
(* The traffic, counted.                                                   *)

\* what a connection in state r adds to the requests without an answer, and to
\* the answers s still to be counted
Serves(r) == IF r.pc \in {"received", "waiting", "admitted", "refused"} THEN 1 ELSE 0
Awaits(r, s) == IF r = Answered(s) THEN 1 ELSE 0

\* One connection goes on to b.
LEMMA ConnMoves ==
    ASSUME IsFiniteSet(Conns), TypeOK, NEW q \in Conns, NEW b, conn' = [conn EXCEPT ![q] = b]
    PROVE  /\ Cardinality(Serving) \in Nat /\ Cardinality(Serving') \in Nat
           /\ Cardinality(Serving') + Serves(conn[q]) = Cardinality(Serving) + Serves(b)
           /\ \A s : /\ Cardinality(Uncounted(s)) \in Nat /\ Cardinality(Uncounted(s)') \in Nat
                     /\ Cardinality(Uncounted(s)') + Awaits(conn[q], s) =
                           Cardinality(Uncounted(s)) + Awaits(b, s)
<1>1. conn'[q] = b /\ \A p \in Conns : p # q => conn'[p] = conn[p]
  BY DEF TypeOK
<1>2. /\ Cardinality(Serving) \in Nat /\ Cardinality(Serving') \in Nat
      /\ Cardinality(Serving') + Serves(conn[q]) = Cardinality(Serving) + Serves(b)
  <2>1. PICK A, B : A = Serving /\ B = Serving'
    OBVIOUS
  <2>2. /\ A \in SUBSET Conns /\ B \in SUBSET Conns
        /\ \A p \in Conns : p # q => (p \in A <=> p \in B)
        /\ Serves(conn[q]) = (IF q \in A THEN 1 ELSE 0)
        /\ Serves(b) = (IF q \in B THEN 1 ELSE 0)
    BY <1>1, <2>1 DEF Serving, Serves
  <2>3. /\ Cardinality(A) \in Nat /\ Cardinality(B) \in Nat
        /\ Cardinality(B) + (IF q \in A THEN 1 ELSE 0) =
              Cardinality(A) + (IF q \in B THEN 1 ELSE 0)
    BY <2>2, OneMoves
  <2> QED
    BY <2>1, <2>2, <2>3
<1>3. ASSUME NEW s
      PROVE  /\ Cardinality(Uncounted(s)) \in Nat /\ Cardinality(Uncounted(s)') \in Nat
             /\ Cardinality(Uncounted(s)') + Awaits(conn[q], s) =
                   Cardinality(Uncounted(s)) + Awaits(b, s)
  <2>1. PICK A, B : A = Uncounted(s) /\ B = Uncounted(s)'
    OBVIOUS
  <2>2. /\ A \in SUBSET Conns /\ B \in SUBSET Conns
        /\ \A p \in Conns : p # q => (p \in A <=> p \in B)
        /\ Awaits(conn[q], s) = (IF q \in A THEN 1 ELSE 0)
        /\ Awaits(b, s) = (IF q \in B THEN 1 ELSE 0)
    BY <1>1, <2>1 DEF Uncounted, Awaits, Answered
  <2>3. /\ Cardinality(A) \in Nat /\ Cardinality(B) \in Nat
        /\ Cardinality(B) + (IF q \in A THEN 1 ELSE 0) =
              Cardinality(A) + (IF q \in B THEN 1 ELSE 0)
    BY <2>2, OneMoves
  <2> QED
    BY <2>1, <2>2, <2>3
<1> QED
  BY <1>2, <1>3

(***************************************************************************)
(* The metrics count the answers the handlers and the limiter give; that   *)
(* no connection has another to be counted is part of the invariant.       *)
(***************************************************************************)
TrafficInv ==
    /\ TrafficAccounted
    /\ \A q \in Conns : conn[q].pc = "answered" => conn[q].status \in {OK, TooManyRequests}

\* No traffic at first.
LEMMA InitTraffic ==
    ASSUME Init PROVE TrafficInv
<1>1. \A q \in Conns : conn[q] = Idle /\ conn[q].pc = "idle"
  BY DEF Init, Idle
<1>2. Serving = {} /\ \A s : Uncounted(s) = {}
  BY <1>1 DEF Serving, Uncounted, Answered
<1>3. Cardinality(Serving) = 0 /\ \A s : Cardinality(Uncounted(s)) = 0
  BY <1>2, FS_EmptySet
<1>4. /\ received = 0 /\ rateLimitExceeded = 0
      /\ \A s \in Statuses : sent[s] = 0 /\ httpRequestsTotal[s] = 0
  BY DEF Init
<1>5. {OK, NoContent, TooManyRequests, InternalError} = Statuses
  BY DEF Statuses
<1> QED
  BY <1>1, <1>3, <1>4, <1>5 DEF TrafficInv, TrafficAccounted

\* the counters, one by one
LEMMA CountersRead ==
    ASSUME TypeOK
    PROVE  /\ received \in Nat /\ rateLimitExceeded \in Nat
           /\ sent[OK] \in Nat /\ sent[NoContent] \in Nat
           /\ sent[TooManyRequests] \in Nat /\ sent[InternalError] \in Nat
           /\ httpRequestsTotal[OK] \in Nat /\ httpRequestsTotal[NoContent] \in Nat
           /\ httpRequestsTotal[TooManyRequests] \in Nat
           /\ httpRequestsTotal[InternalError] \in Nat
BY DEF TypeOK, Statuses

\* an answer sent is one more under its status
LEMMA OneSent ==
    ASSUME TypeOK, NEW s \in Statuses, Send(s)
    PROVE  \A r \in Statuses : sent'[r] = sent[r] + IF r = s THEN 1 ELSE 0
BY DEF TypeOK, Send

\* The statuses are distinct.
LEMMA StatusesDiffer ==
    /\ {OK, NoContent, TooManyRequests, InternalError} = Statuses
    /\ OK # NoContent /\ OK # TooManyRequests /\ OK # InternalError
    /\ NoContent # TooManyRequests /\ NoContent # InternalError
    /\ TooManyRequests # InternalError
    /\ \A s, r : Answered(s) = Answered(r) => s = r
BY DEF Statuses, OK, NoContent, TooManyRequests, InternalError, Answered

\* all answers that the counts f tell of
Total(f) == f[OK] + f[NoContent] + f[TooManyRequests] + f[InternalError]

\* what moves on one side of an equation moves on the other
LEMMA Balances ==
    ASSUME NEW x \in Nat, NEW xx \in Nat, NEW y \in Nat, NEW yy \in Nat,
           NEW z \in Nat, NEW zz \in Nat, NEW d \in Nat, NEW dd \in Nat,
           x = y + z, xx + y + d = x + yy + dd, zz + d = z + dd
    PROVE  xx = yy + zz
OBVIOUS

\* every step of a connection keeps the balance
LEMMA TrafficMoves ==
    ASSUME IsFiniteSet(Conns), TypeOK, TrafficInv,
           NEW q \in Conns, NEW b, conn' = [conn EXCEPT ![q] = b],
           b.pc = "answered" => b.status \in {OK, TooManyRequests},
           received' + Total(sent) + Serves(conn[q]) = received + Total(sent') + Serves(b),
           \A s \in {OK, TooManyRequests} :
               sent'[s] + httpRequestsTotal[s] + Awaits(conn[q], s)
                 = sent[s] + httpRequestsTotal'[s] + Awaits(b, s),
           rateLimitExceeded' + sent[TooManyRequests] = rateLimitExceeded + sent'[TooManyRequests],
           TypeOK'
    PROVE  TrafficInv'
<1>1. /\ Cardinality(Serving) \in Nat /\ Cardinality(Serving') \in Nat
      /\ Cardinality(Serving') + Serves(conn[q]) = Cardinality(Serving) + Serves(b)
      /\ \A s : /\ Cardinality(Uncounted(s)) \in Nat /\ Cardinality(Uncounted(s)') \in Nat
                /\ Cardinality(Uncounted(s)') + Awaits(conn[q], s) =
                      Cardinality(Uncounted(s)) + Awaits(b, s)
  BY ConnMoves
<1>2. \A r, s : Serves(r) \in Nat /\ Awaits(r, s) \in Nat
  BY DEF Serves, Awaits
<1>3. /\ received \in Nat /\ Total(sent) \in Nat
      /\ \A s \in {OK, TooManyRequests} : sent[s] \in Nat /\ httpRequestsTotal[s] \in Nat
  BY CountersRead DEF Total
<1>4. sent' \in [Statuses -> Nat] /\ httpRequestsTotal' \in [Statuses -> Nat]
  BY DEF TypeOK
<1>5. /\ received' \in Nat /\ Total(sent') \in Nat
      /\ \A s \in {OK, TooManyRequests} : sent'[s] \in Nat /\ httpRequestsTotal'[s] \in Nat
  <2>1. \A s \in Statuses : sent'[s] \in Nat /\ httpRequestsTotal'[s] \in Nat
    BY <1>4
  <2>2. received' \in Nat
    BY DEF TypeOK
  <2> QED
    BY <2>1, <2>2, StatusesDiffer DEF Total
<1>6. received' = Total(sent') + Cardinality(Serving')
  <2>1. received = Total(sent) + Cardinality(Serving)
    BY DEF TrafficInv, TrafficAccounted, Total
  <2> QED
    <3>1. PICK x, xx, y, yy, z, zz, d, dd :
              /\ x = received /\ xx = received' /\ y = Total(sent) /\ yy = Total(sent')
              /\ z = Cardinality(Serving) /\ zz = Cardinality(Serving')
              /\ d = Serves(conn[q]) /\ dd = Serves(b)
      OBVIOUS
    <3>2. /\ x \in Nat /\ xx \in Nat /\ y \in Nat /\ yy \in Nat
          /\ z \in Nat /\ zz \in Nat /\ d \in Nat /\ dd \in Nat
      BY <1>1, <1>2, <1>3, <1>5, <3>1
    <3>3. x = y + z /\ xx + y + d = x + yy + dd /\ zz + d = z + dd
      BY <1>1, <2>1, <3>1
    <3>4. xx = yy + zz
      BY <3>2, <3>3, Balances
    <3> QED
      BY <3>1, <3>4
<1>7. ASSUME NEW s \in {OK, TooManyRequests}
      PROVE  sent'[s] = httpRequestsTotal'[s] + Cardinality(Uncounted(s)')
  <2>1. sent'[s] + httpRequestsTotal[s] + Awaits(conn[q], s)
           = sent[s] + httpRequestsTotal'[s] + Awaits(b, s)
    OBVIOUS
  <2>2. sent[s] = httpRequestsTotal[s] + Cardinality(Uncounted(s))
    BY DEF TrafficInv, TrafficAccounted
  <2>3. /\ Cardinality(Uncounted(s)) \in Nat /\ Cardinality(Uncounted(s)') \in Nat
        /\ Cardinality(Uncounted(s)') + Awaits(conn[q], s) =
              Cardinality(Uncounted(s)) + Awaits(b, s)
    BY <1>1
  <2>4. Awaits(conn[q], s) \in Nat /\ Awaits(b, s) \in Nat
    BY <1>2
  <2>5. /\ sent[s] \in Nat /\ httpRequestsTotal[s] \in Nat
        /\ sent'[s] \in Nat /\ httpRequestsTotal'[s] \in Nat
    BY <1>3, <1>5
  <2> QED
    <3>1. PICK x, xx, y, yy, z, zz, d, dd :
              /\ x = sent[s] /\ xx = sent'[s]
              /\ y = httpRequestsTotal[s] /\ yy = httpRequestsTotal'[s]
              /\ z = Cardinality(Uncounted(s)) /\ zz = Cardinality(Uncounted(s)')
              /\ d = Awaits(conn[q], s) /\ dd = Awaits(b, s)
      OBVIOUS
    <3>2. /\ x \in Nat /\ xx \in Nat /\ y \in Nat /\ yy \in Nat
          /\ z \in Nat /\ zz \in Nat /\ d \in Nat /\ dd \in Nat
      BY <2>3, <2>4, <2>5, <3>1
    <3>3. x = y + z /\ xx + y + d = x + yy + dd /\ zz + d = z + dd
      BY <2>1, <2>2, <2>3, <3>1
    <3>4. xx = yy + zz
      BY <3>2, <3>3, Balances
    <3> QED
      BY <3>1, <3>4
<1>8. rateLimitExceeded' = sent'[TooManyRequests]
  <2>1. rateLimitExceeded = sent[TooManyRequests]
    BY DEF TrafficInv, TrafficAccounted
  <2>2. sent[TooManyRequests] \in Nat /\ sent'[TooManyRequests] \in Nat /\ rateLimitExceeded' \in Nat
    BY <1>3, <1>5 DEF TypeOK
  <2> QED
    BY <2>1, <2>2
<1>9. \A p \in Conns : conn'[p].pc = "answered" => conn'[p].status \in {OK, TooManyRequests}
  <2>1. conn'[q] = b /\ \A p \in Conns : p # q => conn'[p] = conn[p]
    BY DEF TypeOK
  <2> QED
    BY <2>1 DEF TrafficInv
<1>10. TrafficAccounted'
  BY <1>6, <1>7, <1>8 DEF TrafficAccounted, Total
<1> QED
  BY <1>9, <1>10 DEF TrafficInv


\* what the records of connections add to the counts
LEMMA RecordsCount ==
    /\ Serves(Idle) = 0 /\ Serves(Admitted) = 1
    /\ \A c : Serves(Arrived(c)) = 1
    /\ \A c, t : Serves(Waiting(c, t)) = 1 /\ Serves(Refused(c, t)) = 1
    /\ \A s : Serves(Answered(s)) = 0
    /\ \A s : Awaits(Idle, s) = 0 /\ Awaits(Admitted, s) = 0
    /\ \A s, c : Awaits(Arrived(c), s) = 0
    /\ \A s, c, t : Awaits(Waiting(c, t), s) = 0 /\ Awaits(Refused(c, t), s) = 0
    /\ \A s, r : Awaits(Answered(r), s) = IF r = s THEN 1 ELSE 0
<1>1. \A s : /\ Answered(s).pc = "answered" /\ Answered(s) # Idle /\ Answered(s) # Admitted
             /\ \A c, t : /\ Answered(s) # Arrived(c) /\ Answered(s) # Waiting(c, t)
                          /\ Answered(s) # Refused(c, t)
  BY DEF Answered, Idle, Admitted, Arrived, Waiting, Refused
<1> QED
  BY <1>1, StatusesDiffer DEF Serves, Awaits, Idle, Admitted, Arrived, Waiting, Refused

\* The same by the point a connection has reached.
LEMMA PointsCount ==
    ASSUME TypeOK, NEW q \in Conns
    PROVE  /\ conn[q].pc \in {"received", "waiting", "admitted", "refused"} =>
                 Serves(conn[q]) = 1 /\ \A s : Awaits(conn[q], s) = 0
           /\ conn[q].pc = "answered" =>
                 conn[q] = Answered(conn[q].status) /\ conn[q].status \in Statuses
<1>1. conn[q] \in Requests
  BY DEF TypeOK
<1>2. CASE conn[q] = Idle \/ conn[q] = Admitted
  BY <1>2, RecordsCount DEF Idle, Admitted
<1>3. CASE \E c \in Clients : conn[q] = Arrived(c)
  BY <1>3, RecordsCount DEF Arrived
<1>4. CASE \E c \in Clients, t \in 0 .. clock :
              conn[q] = Waiting(c, t) \/ conn[q] = Refused(c, t)
  BY <1>4, RecordsCount DEF Waiting, Refused
<1>5. CASE \E s \in Statuses : conn[q] = Answered(s)
  BY <1>5 DEF Answered
<1> QED
  BY <1>1, <1>2, <1>3, <1>4, <1>5 DEF Requests

\* What has been sent, by status.
LEMMA SentTotal ==
    ASSUME TypeOK, NEW s \in Statuses, Send(s)
    PROVE  /\ Total(sent) \in Nat /\ Total(sent') = Total(sent) + 1
           /\ \A r \in Statuses : sent[r] \in Nat /\ sent'[r] = sent[r] + IF r = s THEN 1 ELSE 0
<1>1. \A r \in Statuses : sent'[r] = sent[r] + IF r = s THEN 1 ELSE 0
  BY OneSent
<1>2. \A r \in Statuses : sent[r] \in Nat
  BY DEF TypeOK
<1>3. Total(sent) \in Nat /\ Total(sent') = Total(sent) + 1
  BY <1>1, <1>2, StatusesDiffer DEF Total
<1> QED
  BY <1>1, <1>2, <1>3

\* A step that changes no connection changes no count of connections.
LEMMA SameConns ==
    ASSUME conn' = conn
    PROVE  /\ Serving' = Serving /\ \A s : Uncounted(s)' = Uncounted(s)
BY DEF Serving, Uncounted, Answered

\* A preflight keeps the account of the traffic.
LEMMA PreflightTraffic ==
    ASSUME IsFiniteSet(Conns), TypeOK, TrafficInv, NEW q \in Conns, Preflight(q)
    PROVE  TrafficInv'
<1>1. /\ conn' = conn /\ received' = received + 1 /\ Send(NoContent)
      /\ httpRequestsTotal' = httpRequestsTotal /\ rateLimitExceeded' = rateLimitExceeded
  BY DEF Preflight, metricVars
<1>2. NoContent \in Statuses /\ received \in Nat
  BY StatusesDiffer DEF TypeOK
<1>3. /\ Total(sent) \in Nat /\ Total(sent') = Total(sent) + 1
      /\ \A r \in {OK, TooManyRequests} : sent'[r] = sent[r]
  BY <1>1, <1>2, SentTotal, StatusesDiffer
<1>4. Serving' = Serving /\ \A s : Uncounted(s)' = Uncounted(s)
  BY <1>1, SameConns
<1>5. received' = Total(sent') + Cardinality(Serving')
  <2>1. received = Total(sent) + Cardinality(Serving)
    BY DEF TrafficInv, TrafficAccounted, Total
  <2>2. Cardinality(Serving) \in Nat
    <3>1. Serving \in SUBSET Conns
      BY DEF Serving
    <3> QED
      BY <3>1, FS_Subset, FS_CardinalityType
  <2> QED
    BY <1>1, <1>3, <1>4, <2>1, <2>2
<1>6. TrafficAccounted'
  BY <1>1, <1>3, <1>4, <1>5 DEF TrafficInv, TrafficAccounted, Total
<1> QED
  BY <1>1, <1>6 DEF TrafficInv

\* the steps that neither answer nor count
LEMMA QuietTraffic ==
    ASSUME IsFiniteSet(Conns), TypeOK, TypeOK', TrafficInv, NEW q \in Conns,
           Receive(q) \/ ReadClock(q) \/ Judge(q)
    PROVE  TrafficInv'
<1>1. /\ sent' = sent /\ httpRequestsTotal' = httpRequestsTotal
      /\ rateLimitExceeded' = rateLimitExceeded
  BY DEF Receive, ReadClock, Judge, metricVars, historyVars
<1>2. Total(sent) \in Nat /\ received \in Nat /\ rateLimitExceeded \in Nat
  BY CountersRead DEF Total
<1>3. PICK b : /\ conn' = [conn EXCEPT ![q] = b] /\ b.pc # "answered"
               /\ received' + Serves(conn[q]) = received + Serves(b)
               /\ \A s : Awaits(conn[q], s) = 0 /\ Awaits(b, s) = 0
  <2>1. CASE Receive(q)
    <3>1. PICK b : (\E c \in Clients : b = Arrived(c)) /\ conn' = [conn EXCEPT ![q] = b]
      BY <2>1 DEF Receive
    <3>2. /\ received' = received + 1
          /\ Serves(conn[q]) = 0 /\ \A s : Awaits(conn[q], s) = 0
      BY <2>1, RecordsCount DEF Receive
    <3>3. b.pc # "answered" /\ Serves(b) = 1 /\ \A s : Awaits(b, s) = 0
      BY <3>1, RecordsCount DEF Arrived
    <3>4. received' + Serves(conn[q]) = received + Serves(b)
      BY <1>2, <3>2, <3>3
    <3> QED
      BY <3>1, <3>2, <3>3, <3>4
  <2>2. CASE ReadClock(q)
    <3>1. PICK b : b = Waiting(conn[q].client, clock) /\ conn' = [conn EXCEPT ![q] = b]
      BY <2>2 DEF ReadClock
    <3>2. received' = received /\ conn[q].pc = "received"
      BY <2>2 DEF ReadClock, historyVars
    <3>3. b.pc # "answered" /\ Serves(b) = 1 /\ \A s : Awaits(b, s) = 0
      BY <3>1, RecordsCount DEF Waiting
    <3>4. Serves(conn[q]) = 1 /\ \A s : Awaits(conn[q], s) = 0
      BY <3>2, PointsCount
    <3> QED
      BY <3>1, <3>2, <3>3, <3>4
  <2>3. CASE Judge(q)
    <3>1. PICK b : /\ b = Admitted \/ b = Refused(conn[q].client, conn[q].now)
                   /\ conn' = [conn EXCEPT ![q] = b]
      BY <2>3 DEF Judge
    <3>2. received' = received /\ conn[q].pc = "waiting"
      BY <2>3 DEF Judge
    <3>3. b.pc # "answered" /\ Serves(b) = 1 /\ \A s : Awaits(b, s) = 0
      BY <3>1, RecordsCount DEF Admitted, Refused
    <3> QED
      BY <1>2, <3>1, <3>2, <3>3, PointsCount
  <2> QED
    BY <2>1, <2>2, <2>3
<1>4. received' + Total(sent) + Serves(conn[q]) = received + Total(sent') + Serves(b)
  <2>1. Serves(conn[q]) \in Nat /\ Serves(b) \in Nat /\ received' \in Nat
    BY DEF Serves, TypeOK
  <2> QED
    BY <1>1, <1>2, <1>3, <2>1
<1>5. \A s \in {OK, TooManyRequests} :
          sent'[s] + httpRequestsTotal[s] + Awaits(conn[q], s)
            = sent[s] + httpRequestsTotal'[s] + Awaits(b, s)
  BY <1>1, <1>3
<1>6. rateLimitExceeded' + sent[TooManyRequests] = rateLimitExceeded + sent'[TooManyRequests]
  BY <1>1
<1>7. b.pc = "answered" => b.status \in {OK, TooManyRequests}
  BY <1>3
<1>8. conn' = [conn EXCEPT ![q] = b]
  BY <1>3
<1> QED
  BY <1>4, <1>5, <1>6, <1>7, <1>8, TrafficMoves


\* the steps that answer
LEMMA AnswerTraffic ==
    ASSUME IsFiniteSet(Conns), TypeOK, TypeOK', TrafficInv, NEW q \in Conns,
           Refuse(q) \/ Handle(q) \/ Panic(q)
    PROVE  TrafficInv'
<1>1. PICK b, s, refusal :
         /\ s \in {OK, TooManyRequests, InternalError} /\ refusal \in {0, 1}
         /\ conn' = [conn EXCEPT ![q] = b] /\ Send(s)
         /\ b = IF s = InternalError THEN Idle ELSE Answered(s)
         /\ refusal = IF s = TooManyRequests THEN 1 ELSE 0
         /\ rateLimitExceeded' = rateLimitExceeded + refusal
  <2>0. rateLimitExceeded + 0 = rateLimitExceeded
    BY DEF TypeOK
  <2>1. CASE Refuse(q)
    <3>1. PICK b : b = Answered(TooManyRequests) /\ conn' = [conn EXCEPT ![q] = b]
      BY <2>1 DEF Refuse
    <3>2. rateLimitExceeded' = rateLimitExceeded + 1 /\ Send(TooManyRequests)
      BY <2>1 DEF Refuse
    <3> QED
      BY <3>1, <3>2, StatusesDiffer
  <2>2. CASE Handle(q)
    <3>1. PICK b : b = Answered(OK) /\ conn' = [conn EXCEPT ![q] = b]
      BY <2>2 DEF Handle
    <3>2. rateLimitExceeded' = rateLimitExceeded + 0 /\ Send(OK)
      BY <2>0, <2>2 DEF Handle, metricVars
    <3> QED
      BY <3>1, <3>2, StatusesDiffer
  <2>3. CASE Panic(q)
    <3>1. PICK b : b = Idle /\ conn' = [conn EXCEPT ![q] = b]
      BY <2>3 DEF Panic
    <3>2. rateLimitExceeded' = rateLimitExceeded + 0 /\ Send(InternalError)
      BY <2>0, <2>3 DEF Panic, metricVars
    <3> QED
      BY <3>1, <3>2, StatusesDiffer
  <2> QED
    BY <2>1, <2>2, <2>3
<1>2. /\ httpRequestsTotal' = httpRequestsTotal /\ received' = received
      /\ conn[q].pc \in {"admitted", "refused"}
  BY DEF Refuse, Handle, Panic, metricVars
<1>3. Serves(conn[q]) = 1 /\ \A r : Awaits(conn[q], r) = 0
  BY <1>2, PointsCount
<1>4. /\ Serves(b) = 0
      /\ \A r \in {OK, TooManyRequests} : Awaits(b, r) = IF r = s THEN 1 ELSE 0
      /\ b.pc = "answered" => b.status \in {OK, TooManyRequests}
  <2>1. Idle.pc # "answered" /\ \A r : Answered(r).status = r
    BY DEF Idle, Answered
  <2> QED
    BY <1>1, <2>1, RecordsCount, StatusesDiffer
<1>5. /\ Total(sent) \in Nat /\ Total(sent') = Total(sent) + 1
      /\ \A r \in Statuses : sent[r] \in Nat /\ sent'[r] = sent[r] + IF r = s THEN 1 ELSE 0
  BY <1>1, StatusesDiffer, SentTotal
<1>6. received' + Total(sent) + Serves(conn[q]) = received + Total(sent') + Serves(b)
  <2>1. received \in Nat
    BY DEF TypeOK
  <2> QED
    BY <1>2, <1>3, <1>4, <1>5, <2>1
<1>7. ASSUME NEW r \in {OK, TooManyRequests}
      PROVE  sent'[r] + httpRequestsTotal[r] + Awaits(conn[q], r)
               = sent[r] + httpRequestsTotal'[r] + Awaits(b, r)
  <2>1. httpRequestsTotal[r] \in Nat /\ r \in Statuses
    BY CountersRead, StatusesDiffer
  <2>2. PICK x, xx, h, one : /\ x = sent[r] /\ xx = sent'[r] /\ h = httpRequestsTotal[r]
                             /\ one = IF r = s THEN 1 ELSE 0
    OBVIOUS
  <2>3. /\ x \in Nat /\ h \in Nat /\ one \in Nat /\ xx = x + one
        /\ Awaits(b, r) = one /\ Awaits(conn[q], r) = 0
    BY <1>3, <1>4, <1>5, <2>1, <2>2
  <2>4. xx + h + 0 = x + h + one
    BY <2>3
  <2> QED
    BY <1>2, <2>2, <2>3, <2>4
<1>8. rateLimitExceeded' + sent[TooManyRequests] = rateLimitExceeded + sent'[TooManyRequests]
  <2>1. sent[TooManyRequests] \in Nat /\ sent'[TooManyRequests] = sent[TooManyRequests] + refusal
    BY <1>1, <1>5, StatusesDiffer
  <2>2. rateLimitExceeded \in Nat /\ refusal \in Nat
    BY <1>1 DEF TypeOK
  <2> QED
    BY <1>1, <2>1, <2>2
<1>9. conn' = [conn EXCEPT ![q] = b] /\ (b.pc = "answered" => b.status \in {OK, TooManyRequests})
  BY <1>1, <1>4
<1> QED
  BY <1>6, <1>7, <1>8, <1>9, TrafficMoves

\* the step that counts
LEMMA CountTraffic ==
    ASSUME IsFiniteSet(Conns), TypeOK, TypeOK', TrafficInv, NEW q \in Conns, Count(q)
    PROVE  TrafficInv'
<1>1. PICK b, s : /\ b = Idle /\ s = conn[q].status /\ conn' = [conn EXCEPT ![q] = b]
                  /\ conn[q].pc = "answered"
                  /\ httpRequestsTotal' = [httpRequestsTotal EXCEPT ![s] = @ + 1]
  BY DEF Count
<1>2. /\ sent' = sent /\ received' = received /\ rateLimitExceeded' = rateLimitExceeded
  BY DEF Count, historyVars
<1>3. conn[q] = Answered(s) /\ s \in {OK, TooManyRequests}
  BY <1>1, PointsCount DEF TrafficInv
<1>4. /\ Serves(conn[q]) = 0 /\ Serves(b) = 0
      /\ \A r : Awaits(conn[q], r) = (IF s = r THEN 1 ELSE 0) /\ Awaits(b, r) = 0
  BY <1>1, <1>3, RecordsCount
<1>5. /\ \A r \in Statuses : httpRequestsTotal'[r] = httpRequestsTotal[r] + IF r = s THEN 1 ELSE 0
      /\ \A r \in Statuses : httpRequestsTotal[r] \in Nat /\ sent[r] \in Nat
      /\ received \in Nat
  BY <1>1, <1>3, StatusesDiffer, SMTT(30) DEF TypeOK
<1>6. received' + Total(sent) + Serves(conn[q]) = received + Total(sent') + Serves(b)
  BY <1>2, <1>4
<1>7. ASSUME NEW r \in {OK, TooManyRequests}
      PROVE  sent'[r] + httpRequestsTotal[r] + Awaits(conn[q], r)
               = sent[r] + httpRequestsTotal'[r] + Awaits(b, r)
  <2>1. r \in Statuses
    BY StatusesDiffer
  <2>2. PICK x, h, hh, one : /\ x = sent[r] /\ h = httpRequestsTotal[r]
                             /\ hh = httpRequestsTotal'[r] /\ one = IF r = s THEN 1 ELSE 0
    OBVIOUS
  <2>3. /\ x \in Nat /\ h \in Nat /\ one \in Nat /\ hh = h + one
        /\ Awaits(b, r) = 0 /\ Awaits(conn[q], r) = one
    BY <1>4, <1>5, <2>1, <2>2
  <2>4. x + h + one = x + hh + 0
    BY <2>3
  <2> QED
    BY <1>2, <2>2, <2>3, <2>4
<1>8. rateLimitExceeded' + sent[TooManyRequests] = rateLimitExceeded + sent'[TooManyRequests]
  BY <1>2
<1>9. conn' = [conn EXCEPT ![q] = b] /\ (b.pc = "answered" => b.status \in {OK, TooManyRequests})
  BY <1>1 DEF Idle
<1> QED
  BY <1>6, <1>7, <1>8, <1>9, TrafficMoves

\* Every step keeps the account of the traffic.
LEMMA NextTraffic ==
    ASSUME IsFiniteSet(Conns), RInv, RInv', TrafficInv, [Next]_vars
    PROVE  TrafficInv'
<1>1. TypeOK /\ TypeOK'
  BY DEF RInv
<1>2. CASE \E q \in Conns : Preflight(q)
  BY <1>1, <1>2, PreflightTraffic
<1>3. CASE \E q \in Conns : Receive(q) \/ ReadClock(q) \/ Judge(q)
  BY <1>1, <1>3, QuietTraffic
<1>4. CASE \E q \in Conns : Refuse(q) \/ Handle(q) \/ Panic(q)
  BY <1>1, <1>4, AnswerTraffic
<1>5. CASE \E q \in Conns : Count(q)
  BY <1>1, <1>5, CountTraffic
<1>6. CASE Tick \/ UNCHANGED vars
  <2>1. UNCHANGED <<conn, httpRequestsTotal, rateLimitExceeded, sent, received>>
    BY <1>6 DEF Tick, vars, metricVars, historyVars
  <2>2. Serving' = Serving /\ \A s : Uncounted(s)' = Uncounted(s)
    BY <2>1, SameConns
  <2> QED
    BY <2>1, <2>2 DEF TrafficInv, TrafficAccounted
<1> QED
  BY <1>2, <1>3, <1>4, <1>5, <1>6 DEF Next, Proceed

(***************************************************************************)
(* The metrics account for what handlers and limiter answer, for any       *)
(* finite number of connections (TrafficAccounted).                        *)
(***************************************************************************)
THEOREM TrafficHolds ==
    ASSUME IsFiniteSet(Conns)
    PROVE  Spec => []TrafficAccounted
<1>1. Init => RInv /\ TrafficInv
  BY InitRInv, InitTraffic
<1>2. (RInv /\ TrafficInv) /\ [Next]_vars => (RInv /\ TrafficInv)'
  BY NextRInv, NextTraffic
<1>3. RInv /\ TrafficInv => TrafficAccounted
  BY DEF TrafficInv
<1> QED
  BY <1>1, <1>2, <1>3, PTL DEF Spec

=============================================================================
