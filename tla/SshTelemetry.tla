----------------------------- MODULE SshTelemetry -----------------------------
(* Telemetry of the SSH decoy in the background and its end                   *)
(* (ssh-decoy/server.py): the tasks that emit an event without being waited   *)
(* for, which _pending_emits keeps, and the shutdown in main, which waits for *)
(* them.  Shells wait for the events they emit (SshServer) and are cut off    *)
(* when main returns.  A task and main are coroutines of one event loop.      *)
EXTENDS Naturals, FiniteSets

CONSTANTS Emits,      \* the events emitted in the background
          MaxPending  \* _MAX_PENDING_EMITS

ASSUME TelemetryAssumption == IsFiniteSet(Emits) /\ MaxPending \in Nat

VARIABLES
    main,      \* where main is
    emit,      \* what became of an event
    pending,   \* _pending_emits
    gathered,  \* the tasks main waits for
    gaveUp,    \* main gave up waiting for them
    early,     \* history: the events whose task was made before main looked
    nats       \* the connection to NATS: "up", "draining" or "closed"

telemetryVars == <<main, emit, pending, gathered, gaveUp, early, nats>>
mainVars == <<main, gathered, gaveUp, nats>>

Alive == main # "stopped"
Finished(t) == emit[t] \notin {"none", "waiting"}

TelemetryInit ==
    /\ main = "serving" /\ nats = "up"
    /\ emit = [t \in Emits |-> "none"] /\ pending = {} /\ gathered = {} /\ early = {}
    /\ gaveUp = FALSE

-----------------------------------------------------------------------------
(* Events in the background.                                                  *)

\* Mutant: at capacity the task is not cancelled, and not kept either.
TrackLoosely(t) ==
    /\ emit' = [emit EXCEPT ![t] = "waiting"]
    /\ pending' = IF Cardinality(pending) > MaxPending THEN pending ELSE pending \cup {t}
\* _track_emit: more than _MAX_PENDING_EMITS tasks are pending, or one more is.
Track(t) ==
    IF Cardinality(pending) > MaxPending
    THEN emit' = [emit EXCEPT ![t] = "dropped"] /\ UNCHANGED pending
    ELSE emit' = [emit EXCEPT ![t] = "waiting"] /\ pending' = pending \cup {t}
\* connection_made, server_requested, connection_requested, a finished upload.
Emit(t) ==
    /\ Alive /\ emit[t] = "none"
    /\ Track(t)
    /\ early' = IF main \in {"serving", "closing"} THEN early \cup {t} ELSE early
    /\ UNCHANGED mainVars

\* EventEmitter.emit: the publish may take its time, and fails once the
\* connection drains; an error is logged and the event gone.
Publish(t) ==
    /\ Alive /\ emit[t] = "waiting"
    /\ \/ nats = "up" /\ emit' = [emit EXCEPT ![t] = "published"]
       \/ emit' = [emit EXCEPT ![t] = "failed"]
    /\ UNCHANGED <<pending, early, mainVars>>
\* _log_emit_error, when the loop gets round to the callbacks of the task.
Discard(t) ==
    /\ Alive /\ t \in pending /\ Finished(t)
    /\ pending' = pending \ {t}
    /\ UNCHANGED <<emit, early, mainVars>>

-----------------------------------------------------------------------------
(* The shutdown.                                                              *)

\* The signal handler; server.close() stops the listening and nothing else.
Shutdown ==
    /\ main = "serving" /\ main' = "closing"
    /\ UNCHANGED <<emit, pending, gathered, gaveUp, early, nats>>
\* wait_closed returned, or ten seconds are over.
Closed ==
    /\ main = "closing"
    /\ IF pending = {} THEN main' = "leaving" /\ UNCHANGED gathered
       ELSE main' = "gathering" /\ gathered' = pending
    /\ UNCHANGED <<emit, pending, gaveUp, early, nats>>
Gathered ==
    /\ main = "gathering" /\ \A t \in gathered : Finished(t)
    /\ main' = "leaving"
    /\ UNCHANGED <<emit, pending, gathered, gaveUp, early, nats>>

Cancelled(tasks) ==
    [t \in Emits |-> IF t \in tasks /\ emit[t] = "waiting" THEN "cancelled" ELSE emit[t]]
\* wait_for: after five seconds gather is cancelled and with it its tasks.
GatherTimesOut ==
    /\ main = "gathering"
    /\ emit' = Cancelled(gathered) /\ gaveUp' = TRUE /\ main' = "leaving"
    /\ UNCHANGED <<pending, gathered, early, nats>>
\* router.shutdown, then emitter.close: nothing is published from now on.
CloseEmitter ==
    /\ main = "leaving" /\ main' = "draining" /\ nats' = "draining"
    /\ UNCHANGED <<emit, pending, gathered, gaveUp, early>>
\* main returns, and asyncio.run cancels whatever is left.
Return ==
    /\ main = "draining" /\ main' = "stopped" /\ nats' = "closed"
    /\ emit' = Cancelled(Emits)
    /\ UNCHANGED <<pending, gathered, gaveUp, early>>

MainStep == Closed \/ Gathered \/ GatherTimesOut \/ CloseEmitter \/ Return
TelemetryNext ==
    \/ \E t \in Emits : Emit(t) \/ Publish(t) \/ Discard(t)
    \/ Shutdown \/ MainStep
TelemetrySpec == TelemetryInit /\ [][TelemetryNext]_telemetryVars

-----------------------------------------------------------------------------
(* Properties.                                                                *)

\* The type invariant: tasks pile up to one above the limit and no further.
TelemetryTypeOK ==
    /\ main \in {"serving", "closing", "gathering", "leaving", "draining", "stopped"}
    /\ emit \in [Emits -> {"none", "waiting", "published", "failed", "dropped", "cancelled"}]
    /\ pending \subseteq Emits /\ Cardinality(pending) <= MaxPending + 1
    /\ gathered \subseteq Emits /\ early \subseteq Emits
    /\ gaveUp \in BOOLEAN /\ nats \in {"up", "draining", "closed"}

\* Whenever main closes NATS, each event emitted before it looked has come to
\* its end: none is lost but by the overflow, an error of NATS, or the five
\* seconds.  No task that is still at work is ever out of main's sight.
DrainedFirst ==
    /\ \A t \in Emits : emit[t] = "waiting" => t \in pending
    /\ main \in {"leaving", "draining", "stopped"} =>
          \A t \in early : Finished(t) /\ (emit[t] = "cancelled" => gaveUp)
=============================================================================
