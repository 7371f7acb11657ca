--------------------------- MODULE MCSiemForwarder ---------------------------
(* Two streams: one with two messages, so that batches fill and fail in part, *)
(* one with a single message, whose flushes race the other's on the breaker.  *)
EXTENDS SiemForwarder, TLC
CONSTANTS events, alerts, e1, e2, a1

MCStreams == {events, alerts}
MCMessages == {e1, e2, a1}
MCStreamOf == [m \in MCMessages |-> IF m = a1 THEN alerts ELSE events]

\* The two events are interchangeable.
Symmetry == Permutations({e1, e2})
=============================================================================
