------------------------------- MODULE Router -------------------------------
(***************************************************************************)
(* The chain of middleware a request passes in api/router.go: recovery,    *)
(* CORS, request metrics, rate limiter, handler.  Each connection is a     *)
(* goroutine of net/http; they share the limiter and the counters.         *)
(*                                                                         *)
(*   Receive --> ReadClock --> Judge --> Refuse --> Count                  *)
(*      |                        |                    ^                    *)
(*   (OPTIONS: 204)              +-----> Handle ------+                    *)
(*                                         |                               *)
(*                                      (panic: 500 from gin.Recovery)     *)
(***************************************************************************)
EXTENDS RateLimiter, FiniteSets

CONSTANTS
    Conns,         \* goroutines that serve requests
    MaxRequests,   \* bound on the requests received
    Horizon        \* bound on the clock

ASSUME RouterAssumption == MaxRequests \in Nat /\ Horizon \in Nat

VARIABLES
    conn,                \* connection -> the request it is serving
    httpRequestsTotal,   \* metrics.HTTPRequestsTotal, by status
    rateLimitExceeded,   \* metrics.HTTPRateLimitExceeded
    sent,                \* history: responses sent, by status
    received,            \* history: number of requests received
    admissions,          \* history: client -> instant -> requests let through
    timely,              \* history: those judged by the instant of the judgement
    admitted             \* history: client -> number of requests let through

metricVars == <<httpRequestsTotal, rateLimitExceeded>>
historyVars == <<sent, received, admissions, timely, admitted>>
vars == <<clock, limiterVars, conn, metricVars, historyVars>>

-----------------------------------------------------------------------------

Idle == [pc |-> "idle"]
Arrived(client)       == [pc |-> "received", client |-> client]
Waiting(client, now)  == [pc |-> "waiting", client |-> client, now |-> now]
Refused(client, now)  == [pc |-> "refused", client |-> client, now |-> now]
Admitted              == [pc |-> "admitted"]
Answered(status)      == [pc |-> "answered", status |-> status]

NoContent       == 204
OK              == 200
TooManyRequests == 429
InternalError   == 500
Statuses        == {OK, NoContent, TooManyRequests, InternalError}

NoAdmissions == [c \in Clients |-> [t \in 0 .. Horizon |-> 0]]

Init ==
    /\ LimiterInit
    /\ conn = [q \in Conns |-> Idle]
    /\ httpRequestsTotal = [s \in Statuses |-> 0]
    /\ rateLimitExceeded = 0
    /\ sent = [s \in Statuses |-> 0]
    /\ received = 0
    /\ admissions = NoAdmissions /\ timely = NoAdmissions
    /\ admitted = NoRequests

Send(status) == sent' = [sent EXCEPT ![status] = @ + 1]

\* corsMiddleware answers an OPTIONS request before the metrics and the limiter
Preflight(q) ==
    /\ conn[q] = Idle /\ received < MaxRequests
    /\ received' = received + 1
    /\ Send(NoContent)
    /\ UNCHANGED <<clock, limiterVars, conn, metricVars, admissions, timely, admitted>>

Receive(q) ==
    /\ conn[q] = Idle /\ received < MaxRequests
    /\ received' = received + 1
    /\ \E client \in Clients : conn' = [conn EXCEPT ![q] = Arrived(client)]
    /\ UNCHANGED <<clock, limiterVars, metricVars, sent, admissions, timely, admitted>>

\* Allow, up to the mutex
ReadClock(q) ==
    /\ conn[q].pc = "received"
    /\ conn' = [conn EXCEPT ![q] = Waiting(@.client, clock)]
    /\ UNCHANGED <<clock, limiterVars, metricVars, historyVars>>

\* Allow, under the mutex
Judge(q) ==
    /\ conn[q].pc = "waiting"
    /\ LET client == conn[q].client
           now == conn[q].now
           CountIn(log) == [log EXCEPT ![client][clock] = @ + 1]
       IN  /\ Allow(client, now)
           /\ IF Allows(client, now)
                THEN /\ conn' = [conn EXCEPT ![q] = Admitted]
                     /\ admissions' = CountIn(admissions)
                     /\ timely' = IF now = clock THEN CountIn(timely) ELSE timely
                     /\ admitted' = [admitted EXCEPT ![client] = @ + 1]
                ELSE /\ conn' = [conn EXCEPT ![q] = Refused(client, now)]
                     /\ UNCHANGED <<admissions, timely, admitted>>
    /\ UNCHANGED <<clock, metricVars, sent, received>>

Refuse(q) ==
    /\ conn[q].pc = "refused"
    /\ rateLimitExceeded' = rateLimitExceeded + 1
    /\ Send(TooManyRequests)
    /\ conn' = [conn EXCEPT ![q] = Answered(TooManyRequests)]
    /\ UNCHANGED <<clock, limiterVars, httpRequestsTotal, received, admissions, timely, admitted>>

\* any handler, as far as the chain can tell: it answers
Handle(q) ==
    /\ conn[q].pc = "admitted"
    /\ Send(OK)
    /\ conn' = [conn EXCEPT ![q] = Answered(OK)]
    /\ UNCHANGED <<clock, limiterVars, metricVars, received, admissions, timely, admitted>>

\* or it panics, as GetAllJobs may: gin.Recovery answers, and the request
\* metrics, which do not defer their work, are passed over
Panic(q) ==
    /\ conn[q].pc = "admitted"
    /\ Send(InternalError)
    /\ conn' = [conn EXCEPT ![q] = Idle]
    /\ UNCHANGED <<clock, limiterVars, metricVars, received, admissions, timely, admitted>>

\* mutant: prometheusMiddleware behind the limiter, which aborts the chain
CountUnlessRefused(q) ==
    /\ conn[q].pc = "answered"
    /\ httpRequestsTotal' = IF conn[q].status = TooManyRequests THEN httpRequestsTotal
                            ELSE [httpRequestsTotal EXCEPT ![conn[q].status] = @ + 1]
    /\ conn' = [conn EXCEPT ![q] = Idle]
    /\ UNCHANGED <<clock, limiterVars, rateLimitExceeded, historyVars>>

\* prometheusMiddleware, behind c.Next()
Count(q) ==
    /\ conn[q].pc = "answered"
    /\ httpRequestsTotal' = [httpRequestsTotal EXCEPT ![conn[q].status] = @ + 1]
    /\ conn' = [conn EXCEPT ![q] = Idle]
    /\ UNCHANGED <<clock, limiterVars, rateLimitExceeded, historyVars>>

Tick ==
    /\ clock < Horizon
    /\ clock' = clock + 1
    /\ UNCHANGED <<limiterVars, conn, metricVars, historyVars>>

Proceed(q) ==
    \/ ReadClock(q)
    \/ Judge(q)
    \/ Refuse(q)
    \/ Handle(q)
    \/ Panic(q)
    \/ Count(q)

Next ==
    \/ \E q \in Conns : Preflight(q) \/ Receive(q) \/ Proceed(q)
    \/ Tick

Spec == Init /\ [][Next]_vars

-----------------------------------------------------------------------------

Requests ==
    {Idle, Admitted} \cup {Arrived(c) : c \in Clients}
        \cup {Waiting(c, t) : c \in Clients, t \in 0 .. clock}
        \cup {Refused(c, t) : c \in Clients, t \in 0 .. clock}
        \cup {Answered(s) : s \in Statuses}

(***************************************************************************)
(* Type correctness.  No counter of the window passes the limit, and the   *)
(* window never begins in the future.                                      *)
(***************************************************************************)
TypeOK ==
    /\ clock \in 0 .. Horizon /\ windowStart \in 0 .. clock
    /\ requests \in [Clients -> 0 .. Limit]
    /\ windows \in Nat
    /\ conn \in [Conns -> Requests]
    /\ httpRequestsTotal \in [Statuses -> Nat] /\ rateLimitExceeded \in Nat
    /\ sent \in [Statuses -> Nat] /\ received \in Nat
    /\ admissions \in [Clients -> [0 .. Horizon -> Nat]]
    /\ timely \in [Clients -> [0 .. Horizon -> Nat]]
    /\ admitted \in [Clients -> Nat]

(***************************************************************************)
(* The rate over the life of the process: before n windows have passed, a  *)
(* client has been let through at most n * Limit times, however old the    *)
(* instants were by which requests were judged (Allow begins a new window  *)
(* with an instant read before the mutex, but never one that overlaps the  *)
(* last).                                                                  *)
(***************************************************************************)
LongRunRate ==
    \A c \in Clients, n \in 1 .. clock + 1 :
        clock < n * Window => admitted[c] <= n * Limit

\* what a client was let through between two instants, request by request
Units(row) == UNION {{t} \X (1 .. row[t]) : t \in DOMAIN row}

During(log, c, from, to) ==
    Cardinality({u \in Units(log[c]) : from <= u[1] /\ u[1] <= to})

(***************************************************************************)
(* The burst a fixed window allows: in any stretch of one window's length  *)
(* a client is let through at most twice the limit, not counting requests  *)
(* that were judged by an instant already past.                            *)
(***************************************************************************)
BurstBound ==
    \A c \in Clients, t \in 0 .. Horizon :
        During(timely, c, t, t + Window - 1) <= 2 * Limit

(***************************************************************************)
(* A client is refused only for what it did itself: since one window       *)
(* before the instant it is judged by, it has been let through the full    *)
(* limit (one map of counters, reset for everybody at once).               *)
(***************************************************************************)
RefusedOnlyAtLimit ==
    \A q \in Conns : conn[q].pc = "refused" =>
        During(admissions, conn[q].client, conn[q].now - Window + 1, clock) >= Limit

\* the connections whose request has no answer yet, and those whose answer is
\* still to be counted
Serving == {q \in Conns : conn[q].pc \in {"received", "waiting", "admitted", "refused"}}
Uncounted(s) == {q \in Conns : conn[q] = Answered(s)}

(***************************************************************************)
(* What the metrics tell of the traffic.  The answers of handlers and      *)
(* limiter are counted once each, a refusal by both counters, and no       *)
(* request is lost between its arrival and its answer.  Of preflights and  *)
(* panics, which the code leaves out of a metric that is to be the total   *)
(* number of requests (metrics.go), nothing is said.                       *)
(***************************************************************************)
TrafficAccounted ==
    /\ received = sent[OK] + sent[NoContent] + sent[TooManyRequests]
                    + sent[InternalError] + Cardinality(Serving)
    /\ \A s \in {OK, TooManyRequests} :
          sent[s] = httpRequestsTotal[s] + Cardinality(Uncounted(s))
    /\ rateLimitExceeded = sent[TooManyRequests]

=============================================================================
