---------------------------- MODULE RateLimiter ----------------------------
(***************************************************************************)
(* The fixed-window rate limiter of api/middleware.go, shared by every     *)
(* request.  Allow reads the clock before it takes the mutex, so the       *)
(* instant a request is judged by may be older than the window it is       *)
(* judged in.                                                              *)
(***************************************************************************)
EXTENDS Integers

CONSTANTS
    Clients,             \* client IP addresses
    RateLimitRequests,   \* RouterOptions.RateLimitRequests
    RateLimitWindow      \* RouterOptions.RateLimitWindow

ASSUME OptionsAssumption ==
    RateLimitRequests \in Int /\ RateLimitWindow \in Int

VARIABLES
    clock,         \* time.Now(), monotonic
    windowStart,   \* rl.windowStart
    requests,      \* rl.requests: client -> requests let through in the window
    windows        \* history: windows begun since the first

limiterVars == <<windowStart, requests, windows>>

-----------------------------------------------------------------------------

\* the defaults NewRouter puts in place of options that are not positive
Limit  == IF RateLimitRequests <= 0 THEN 60 ELSE RateLimitRequests
Window == IF RateLimitWindow <= 0 THEN 60 ELSE RateLimitWindow

NoRequests == [c \in Clients |-> 0]

\* mutant: an instant before the window also begins a new one
ExpiresBackwards(now) == now - windowStart >= Window \/ now < windowStart

\* a request judged by instant now begins a new window
Expires(now) == now - windowStart >= Window

Counted(now) == IF Expires(now) THEN NoRequests ELSE requests

\* mutant: Allow counts the requests of all clients together
AllowsJointly(client, now) ==
    \A c \in Clients : Counted(now)[c] < Limit

\* mutant: one request too many in a window
AllowsOneMore(client, now) == Counted(now)[client] <= Limit

Allows(client, now) == Counted(now)[client] < Limit

\* the critical section of Allow
Allow(client, now) ==
    /\ windowStart' = IF Expires(now) THEN now ELSE windowStart
    /\ windows' = IF Expires(now) THEN windows + 1 ELSE windows
    /\ requests' = IF Allows(client, now)
                     THEN [Counted(now) EXCEPT ![client] = @ + 1]
                     ELSE Counted(now)

LimiterInit ==
    /\ clock = 0 /\ windowStart = 0
    /\ requests = NoRequests
    /\ windows = 0

=============================================================================
