------------------------------- MODULE Alerting -------------------------------
(* The forwarder of the CTI that posts severe events to a webhook             *)
(* (cti/alerting.py).  One task calls it, the collector's pull loop, which    *)
(* waits for each call; events may be redelivered, so any event may come at   *)
(* any time.  Time is in seconds.  The formatters and the validation of the   *)
(* webhook's URL are left out; the forwarder is enabled.                      *)
EXTENDS SlidingWindow

CONSTANTS
    Threshold,    \* level of ALERT_MIN_SEVERITY, 0 (info) to 4 (critical)
    RateLimit,    \* rate_limit
    Window,       \* 60: the stretch of time the limit is about
    Gap,          \* 2: the least time between two alerts
    Attempts,     \* 3
    PostTimeout,  \* bound: a request is answered or given up in this time
    MaxTime       \* bound: how long the model runs

ASSUME AlertingAssumption ==
    /\ Threshold \in 0 .. 4 /\ RateLimit \in Nat \ {0}
    /\ {Window, Gap, PostTimeout, MaxTime} \subseteq Nat
    /\ Attempts = 3 /\ Gap <= Window

VARIABLES
    time,        \* time.monotonic()
    sendTimes,   \* _send_times
    call,        \* where maybe_send is, its attempt, since when, until when it sleeps
    delivered    \* history: when alerts were answered with success

alertVars == <<time, sendTimes, call, delivered>>

NoCall == [at |-> "idle", attempt |-> 0, began |-> 0, since |-> 0, until |-> 0]
\* 2 ** attempt
Backoff(attempt) == <<1, 2, 4>>[attempt + 1]

AlertInit ==
    /\ time = 0 /\ sendTimes = << >> /\ call = NoCall
    /\ delivered = << >>

-----------------------------------------------------------------------------
\* _rate_limited: entries at the front that are older than the window go ...
Purged == Since(sendTimes, time - Window)
\* Mutant: the limit is passed by one.
LimitedLate(times) ==
    \/ times # << >> /\ time - times[Len(times)] < Gap
    \/ Len(times) > RateLimit
\* ... and the rest decide.
Limited(times) ==
    \/ times # << >> /\ time - times[Len(times)] < Gap
    \/ Len(times) >= RateLimit

\* maybe_send: an event below the threshold changes nothing.
Drop(level) ==
    /\ call.at = "idle" /\ level >= Threshold
    /\ Limited(Purged)
    /\ sendTimes' = Purged
    /\ UNCHANGED <<time, call, delivered>>
Post(attempt) == call' = [call EXCEPT !.at = "posting", !.attempt = attempt, !.since = time]
Dispatch(level) ==
    /\ call.at = "idle" /\ level >= Threshold
    /\ ~ Limited(Purged)
    /\ sendTimes' = Purged
    /\ call' = [NoCall EXCEPT !.at = "posting", !.began = time, !.since = time]
    /\ UNCHANGED <<time, delivered>>

\* _post: what a request may come to.  A success is recorded when it is known.
Return == call' = NoCall
Sleep == call' = [call EXCEPT !.at = "waiting", !.until = time + Backoff(call.attempt)]
Succeed ==
    /\ call.at = "posting"
    /\ sendTimes' = Append(sendTimes, time) /\ delivered' = Append(delivered, time)
    /\ Return /\ UNCHANGED time
\* Any other answer below 500 but 429.
Refuse ==
    /\ call.at = "posting"
    /\ Return /\ UNCHANGED <<time, sendTimes, delivered>>
\* 429 or 5xx: the code sleeps after the last attempt as well.
Busy ==
    /\ call.at = "posting"
    /\ Sleep /\ UNCHANGED <<time, sendTimes, delivered>>
\* An error of the connection or a timeout, also of a request the service took.
Fail ==
    /\ call.at = "posting"
    /\ IF call.attempt < Attempts - 1 THEN Sleep ELSE Return
    /\ UNCHANGED <<time, sendTimes, delivered>>

Wake ==
    /\ call.at = "waiting" /\ time >= call.until
    /\ IF call.attempt < Attempts - 1 THEN Post(call.attempt + 1) ELSE Return
    /\ UNCHANGED <<time, sendTimes, delivered>>

\* A request has its timeout, and a sleep is not overslept.
SecondPasses ==
    /\ time < MaxTime
    /\ call.at = "posting" => time < call.since + PostTimeout
    /\ call.at = "waiting" => time < call.until
    /\ time' = time + 1
    /\ UNCHANGED <<sendTimes, call, delivered>>

AlertNext ==
    \/ \E level \in 0 .. 4 : Drop(level) \/ Dispatch(level)
    \/ Succeed \/ Refuse \/ Busy \/ Fail \/ Wake \/ SecondPasses
AlertSpec == AlertInit /\ [][AlertNext]_alertVars

-----------------------------------------------------------------------------
(* Properties.                                                                *)

\* A call keeps the collector's loop from its next event for at most three
\* requests and the sleeps after them, the useless one after the last among them.
HoldUp == Attempts * PostTimeout + Backoff(0) + Backoff(1) + Backoff(2)

AlertTypeOK ==
    /\ {time} \cup {delivered[i] : i \in DOMAIN delivered} \subseteq Nat
    /\ sendTimes \in Seq(Nat) /\ delivered \in Seq(Nat)
    /\ call \in [at : {"idle", "posting", "waiting"}, attempt : 0 .. Attempts - 1,
                 began : Nat, since : Nat, until : Nat]
    /\ call.at # "idle" => time - call.began <= HoldUp

\* The limiter judges by what it remembers as it would by all that was sent: it
\* drops an alert exactly if one was delivered less than Gap ago, or RateLimit
\* of them no more than Window ago.
Recent(span) == {i \in DOMAIN delivered : time - delivered[i] <= span}
JudgesRightly ==
    Limited(Purged) <=>
        \/ delivered # << >> /\ time - delivered[Len(delivered)] < Gap
        \/ Len(delivered) >= RateLimit /\ Len(delivered) + 1 - RateLimit \in Recent(Window)

\* Between the check and the record the request is awaited; all the same no
\* stretch of Window seconds sees more than RateLimit alerts delivered.
Promise == INSTANCE RateWindow
    WITH Limit <- RateLimit, Span <- Window, clock <- time, admitted <- delivered
KeepsTheLimit == Promise!WindowSpec

\* Alerts are Gap seconds apart.
Spaced == \A i \in 1 .. Len(delivered) - 1 : delivered[i + 1] - delivered[i] >= Gap
=============================================================================
