------------------------------ MODULE ApiLimiter ------------------------------
(* The rate limit of the dashboard's API (dashboard/main.py, require_api_key  *)
(* and RateLimiter).  The limiter has a window for each key; as only requests *)
(* with the one valid key reach it (others are answered 401 before), that is  *)
(* one window for all clients.                                                *)
EXTENDS SlidingWindow

CONSTANTS MaxRequests,   \* 100
          WindowSeconds, \* 60
          LastSecond     \* bound: how long the model runs

ASSUME LimiterAssumption == MaxRequests \in Nat \ {0} /\ {WindowSeconds, LastSecond} \subseteq Nat

VARIABLES second,    \* time.monotonic()
          requests,  \* _requests[API_KEY]
          let        \* history: when requests were let through

limiterVars == <<second, requests, let>>

LimiterInit == second = 0 /\ requests = << >> /\ let = << >>

\* check: what is in the list is in order, so the expired ones are its first.
Unexpired == Since(requests, second - WindowSeconds + 1)
Through == requests' = Append(Unexpired, second) /\ let' = Append(let, second) /\ UNCHANGED second
\* Mutant: one too many is let through.
AllowOneMore == Len(Unexpired) <= MaxRequests /\ Through
Allow == Len(Unexpired) < MaxRequests /\ Through
Deny ==
    /\ Len(Unexpired) >= MaxRequests
    /\ requests' = Unexpired /\ UNCHANGED <<second, let>>

SecondGoes == second < LastSecond /\ second' = second + 1 /\ UNCHANGED <<requests, let>>

LimiterNext == Allow \/ Deny \/ SecondGoes
LimiterSpec == LimiterInit /\ [][LimiterNext]_limiterVars

-----------------------------------------------------------------------------
(* Properties.                                                                *)

\* Refused requests count for nothing: a client is told to wait exactly while
\* MaxRequests others were let through in the last WindowSeconds, however often
\* it asks meanwhile.
RefusedRightly ==
    Len(Unexpired) >= MaxRequests <=>
        /\ Len(let) >= MaxRequests
        /\ second - let[Len(let) + 1 - MaxRequests] < WindowSeconds

\* No stretch of WindowSeconds sees more than MaxRequests requests.
LimiterPromise == INSTANCE RateWindow
    WITH Limit <- MaxRequests, Span <- WindowSeconds, clock <- second, admitted <- let
LimiterKeepsTheLimit == LimiterPromise!WindowSpec
=============================================================================
