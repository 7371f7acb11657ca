---------------------------- MODULE MCSiemLiveness ----------------------------
(* One message on each of two streams, which is enough for one goroutine's    *)
(* failures to shed the other's batch.                                        *)
EXTENDS SiemForwarder
CONSTANTS events, alerts, e1, a1

MCStreams == {events, alerts}
MCMessages == {e1, a1}
MCStreamOf == [m \in MCMessages |-> IF m = a1 THEN alerts ELSE events]
=============================================================================
