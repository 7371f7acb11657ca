---------------------------- MODULE SlidingWindow ----------------------------
(* What the sliding-window limiters remember: a list of times, from the front *)
(* of which the expired ones are taken.                                       *)
EXTENDS Integers, Sequences

\* Mutant: nothing is ever taken away.
SinceNever(times, from) == times
\* The rest of the times, from the first one that is not earlier than from.
Expired(times, from) ==
    {n \in 0 .. Len(times) : \A i \in 1 .. n : times[i] < from}
Since(times, from) ==
    LET n == CHOOSE m \in Expired(times, from) : \A k \in Expired(times, from) : k <= m
    IN SubSeq(times, n + 1, Len(times))
=============================================================================
