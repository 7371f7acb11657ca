------------------------------ MODULE RateWindow ------------------------------
(* What a sliding-window limiter promises: whatever is admitted, no stretch   *)
(* of Span seconds holds more than Limit of it.  The webhook forwarder of the *)
(* CTI (Alerting) and the dashboard's API (ApiLimiter) implement it.          *)
EXTENDS Integers, Sequences

CONSTANTS Limit, Span

VARIABLES clock,    \* seconds
          admitted  \* when something was admitted, in order

\* Of the last Limit admissions one is Span seconds old: there is room.
Room == Len(admitted) >= Limit => clock - admitted[Len(admitted) + 1 - Limit] >= Span

WindowInit == clock = 0 /\ admitted = << >>
TimePasses == clock' = clock + 1 /\ UNCHANGED admitted
Admit == Room /\ admitted' = Append(admitted, clock) /\ UNCHANGED clock
WindowNext == TimePasses \/ Admit
WindowSpec == WindowInit /\ [][WindowNext]_<<clock, admitted>>

\* An admission and the Limit-th after it are Span seconds apart.
WithinLimit ==
    \A i \in 1 .. Len(admitted) - Limit : admitted[i + Limit] - admitted[i] >= Span
=============================================================================
