----------------------------- MODULE CtiPipeline -----------------------------
(* The CTI collector and the Falco correlator (cti/pipeline.py and            *)
(* cti/falco_correlator.py) around the SessionAnalyzer: one asyncio process   *)
(* with three tasks that interleave at their awaits (the pull loop with       *)
(* _process_message, the idle sweeper, the Falco callback) over two JetStream *)
(* consumers and the tables decoy_events, engage_outcomes and falco_alerts.   *)
(* JetStream and TimescaleDB are external: a call to them may fail.           *)
EXTENDS SessionAnalyzer

CONSTANTS
    NoSession,     \* SessionOf an event with an empty session_id
    Ends,          \* the session.end events
    Keyed,         \* events that carry their own event_id and timestamp
    Rejected,      \* oversized, malformed or spoofed: discarded before analysis
    Choking,       \* JSON on which _process_message raises before analysis: no object,
                   \* or a port or tier of Infinity
    Local,         \* from 127.0.0.1: stored but not republished
    FalcoAlerts,
    Suspects,      \* the sessions of the decoy whose pod an alert names
    BatchSize, MaxDeliver,
    MaxFaults      \* bound: database and NATS calls that fail and processes that die

ASSUME PipelineAssumption ==
    /\ NoSession \in Sessions
    /\ UNION {Ends, Keyed, Rejected, Choking, Local} \subseteq Events /\ IsFiniteSet(Events)
    /\ Rejected \cap Choking = {}
    /\ Suspects \in [FalcoAlerts -> SUBSET (Sessions \ {NoSession})]
    /\ {BatchSize, MaxDeliver} \subseteq Nat \ {0}
    /\ MaxFaults \in Nat

VARIABLES
    analyzer, forgotten,   \* the analyzer; sessions it dropped other than at their end
    broker, deliveries,    \* JetStream's side of the events
    inbox, stage,          \* the messages fetched, the current one first, and where it is
    todo, alerts,          \* summaries to write and alerts to publish for it
    sweeping,              \* summaries the sweeper has still to write
    stored, storeFailed,   \* rows of an event in decoy_events; events an insert failed for
    enriched, published,   \* events republished; alerts published per session and key
    rows,                  \* engage_outcomes: summarised events and Falco count, 0 and 0 for no row
    falcoQueue, falco,     \* JetStream's side of the Falco alerts; the callback's progress
    falcoRows, injected,   \* falco_alerts rows per correlated session; falco.escape events
    faults

collectorVars == <<inbox, stage, todo, alerts>>
eventVars     == <<broker, deliveries>>
tableVars     == <<stored, storeFailed, rows, falcoRows, injected>>
busVars       == <<enriched, published>>
falcoVars     == <<falcoQueue, falco>>
memoryVars    == <<analyzer, forgotten>>
vars == <<collectorVars, eventVars, tableVars, busVars, falcoVars, memoryVars,
          sweeping, faults>>

----------------------------------------------------------------------------
(* Calls that leave the process: each succeeds, or fails while the bound on   *)
(* faults lasts.                                                              *)
Fault == faults < MaxFaults /\ faults' = faults + 1
Fine  == UNCHANGED faults

\* A message that is delivered max_deliver times without an Ack is not again.
AfterRequeue(delivered) == IF delivered >= MaxDeliver THEN "exhausted" ELSE "ready"

\* msg.ack(): counts after the ack wait too; one that is lost changes nothing.
Ack(e) ==
    \/ Fine /\ broker' = [broker EXCEPT ![e] = IF @ = "exhausted" THEN @ ELSE "acked"]
    \/ Fault /\ UNCHANGED broker

\* msg.nak(): one that comes after the ack wait, or is lost, changes nothing.
Nak(e) ==
    \/ Fine /\ broker' = [broker EXCEPT ![e] = IF @ = "pending" THEN AfterRequeue(deliveries[e]) ELSE @]
    \/ Fault /\ UNCHANGED broker

\* The ack wait runs out, be the message still in the inbox or not: a batch of
\* up to 100 messages is processed one after the other.
AckWait(e) ==
    /\ broker[e] = "pending"
    /\ broker' = [broker EXCEPT ![e] = AfterRequeue(deliveries[e])]
    /\ UNCHANGED <<deliveries, collectorVars, tableVars, busVars, falcoVars, memoryVars,
                   sweeping, faults>>

\* Mutant: a summary replaces the whole row, the Falco columns included.
ReplaceRow(summary) ==
    rows' = [rows EXCEPT ![summary.session] = [count |-> summary.count, falco |-> 0]]

\* _write_session_summary: the upsert leaves the Falco columns alone.
WriteRow(summary) == rows' = [rows EXCEPT ![summary.session].count = summary.count]

\* A failed write is logged and given up.
TryWriteRow(summary) ==
    \/ Fine /\ WriteRow(summary)
    \/ Fault /\ UNCHANGED rows

----------------------------------------------------------------------------
(* The pull loop and _process_message                                         *)
Current == Head(inbox)

\* Mutant: messages are acknowledged on receipt.
FetchAcks ==
    /\ stage = "next" /\ inbox = <<>>
    /\ \E S \in SUBSET {e \in Events : broker[e] = "ready"} \ {{}} :
        /\ Cardinality(S) <= BatchSize
        /\ inbox' \in SetToSeqs(S)
        /\ broker' = [e \in Events |-> IF e \in S THEN "acked" ELSE broker[e]]
        /\ deliveries' = [e \in Events |-> deliveries[e] + IF e \in S THEN 1 ELSE 0]
    /\ UNCHANGED <<stage, todo, alerts, tableVars, busVars, falcoVars, memoryVars, sweeping, faults>>

Fetch ==
    /\ stage = "next" /\ inbox = <<>>
    /\ \E S \in SUBSET {e \in Events : broker[e] = "ready"} \ {{}} :
        /\ Cardinality(S) <= BatchSize
        /\ inbox' \in SetToSeqs(S)
        /\ broker' = [e \in Events |-> IF e \in S THEN "pending" ELSE broker[e]]
        /\ deliveries' = [e \in Events |-> deliveries[e] + IF e \in S THEN 1 ELSE 0]
    /\ UNCHANGED <<stage, todo, alerts, tableVars, busVars, falcoVars, memoryVars,
                   sweeping, faults>>

\* Oversized, malformed and spoofed messages are acked: a retry would not help.
Reject ==
    /\ stage = "next" /\ inbox # <<>> /\ Current \in Rejected
    /\ Ack(Current)
    /\ inbox' = Tail(inbox)
    /\ UNCHANGED <<stage, todo, alerts, deliveries, tableVars, busVars, falcoVars, memoryVars,
                   sweeping>>

\* Any other exception: the message is nakked, at every delivery anew.
HandBack ==
    /\ stage = "next" /\ inbox # <<>> /\ Current \in Choking
    /\ Nak(Current)
    /\ inbox' = Tail(inbox)
    /\ UNCHANGED <<stage, todo, alerts, deliveries, tableVars, busVars, falcoVars, memoryVars,
                   sweeping>>

\* The session-level analysis, up to its first await.  For a session.end the
\* verdict of ingest is dropped and only the summary of close_session is kept.
AnalyseEnd(e, old) ==
    LET ingested == Ingest(analyzer, e, old)
        s == SessionOf[e]
    IN  /\ \E F \in Trims(ingested, s) :
            /\ analyzer' = CloseSession(ingested, s, F)
            /\ forgotten' = forgotten \cup {x.session : x \in ToSet(ingested.evicted)} \cup F
        /\ todo' = IF s \in DOMAIN ingested.tracked THEN <<SummaryOf(ingested, s)>> ELSE <<>>
        /\ alerts' = {}

AnalyseOther(e, old) ==
    LET ingested == Ingest(analyzer, e, old)
    IN  /\ analyzer' = DrainEvicted(ingested)
        /\ forgotten' = forgotten \cup {x.session : x \in ToSet(ingested.evicted)}
        /\ todo' = ingested.evicted
        /\ alerts' = NewAlerts(analyzer, e)

\* What the handler awaits next.
NextStage == IF todo' # <<>> THEN "summary" ELSE IF alerts' # {} THEN "alerts" ELSE "insert"

Analyse ==
    /\ stage = "next" /\ inbox # <<>> /\ Current \notin Rejected \cup Choking
    /\ IF SessionOf[Current] = NoSession
       THEN UNCHANGED <<memoryVars, todo, alerts>>
       ELSE \E old \in 0..Len(analyzer.processed) :
                IF Current \in Ends THEN AnalyseEnd(Current, old) ELSE AnalyseOther(Current, old)
    /\ stage' = NextStage
    /\ UNCHANGED <<inbox, eventVars, tableVars, busVars, falcoVars, sweeping, faults>>

WriteSummary ==
    /\ stage = "summary"
    /\ TryWriteRow(Head(todo))
    /\ todo' = Tail(todo) /\ UNCHANGED alerts
    /\ stage' = NextStage
    /\ UNCHANGED <<inbox, eventVars, stored, storeFailed, falcoRows, injected, busVars, falcoVars,
                   memoryVars, sweeping>>

\* An alert whose publication fails is logged and not tried again.
PublishAlert ==
    /\ stage = "alerts"
    /\ \E k \in alerts :
        /\ \/ Fine /\ published' = [published EXCEPT ![<<SessionOf[Current], k>>] = @ + 1]
           \/ Fault /\ UNCHANGED published
        /\ alerts' = alerts \ {k}
    /\ UNCHANGED todo
    /\ stage' = NextStage
    /\ UNCHANGED <<inbox, eventVars, tableVars, enriched, falcoVars, memoryVars, sweeping>>

\* ON CONFLICT (event_id, timestamp) DO NOTHING: without its own key an event
\* gets a fresh one at every delivery.
InsertEvent(e) ==
    stored' = [stored EXCEPT ![e] = IF e \in Keyed /\ @ > 0 THEN @ ELSE @ + 1]

\* An insert that fails is logged and the message goes on to its Ack.
Insert ==
    /\ stage = "insert"
    /\ \/ Fine /\ InsertEvent(Current) /\ UNCHANGED storeFailed
       \/ Fault /\ storeFailed' = storeFailed \cup {Current} /\ UNCHANGED stored
    /\ stage' = IF Current \in Local THEN "ack" ELSE "publish"
    /\ UNCHANGED <<inbox, todo, alerts, eventVars, rows, falcoRows, injected, busVars, falcoVars,
                   memoryVars, sweeping>>

Republish ==
    /\ stage = "publish"
    /\ \/ Fine /\ enriched' = enriched \cup {Current}
       \/ Fault /\ UNCHANGED enriched
    /\ stage' = "ack"
    /\ UNCHANGED <<inbox, todo, alerts, eventVars, tableVars, published, falcoVars, memoryVars,
                   sweeping>>

Finish ==
    /\ stage = "ack"
    /\ Ack(Current)
    /\ inbox' = Tail(inbox) /\ stage' = "next"
    /\ UNCHANGED <<todo, alerts, deliveries, tableVars, busVars, falcoVars, memoryVars,
                   sweeping>>

----------------------------------------------------------------------------
(* _sweep_idle_sessions, once its last summaries are written: a session with  *)
(* an event in process is not idle.                                           *)
Sweep ==
    /\ sweeping = <<>>
    /\ \E n \in 1..Len(analyzer.order) :
        LET idle == Idle(analyzer, n)
        IN  /\ stage # "next" => ~Contains(idle, SessionOf[Current])
            /\ sweeping' = [i \in 1..n |-> SummaryOf(analyzer, idle[i])]
            /\ analyzer' = SweepIdle(analyzer, n)
            /\ forgotten' = forgotten \cup ToSet(idle)
    /\ UNCHANGED <<collectorVars, eventVars, tableVars, busVars, falcoVars, faults>>

WriteSwept ==
    /\ sweeping # <<>>
    /\ TryWriteRow(Head(sweeping))
    /\ sweeping' = Tail(sweeping)
    /\ UNCHANGED <<collectorVars, eventVars, stored, storeFailed, falcoRows, injected, busVars,
                   falcoVars, memoryVars>>

----------------------------------------------------------------------------
(* on_falco_alert and process_alert.  NATS runs the callback for one message  *)
(* at a time and acks when it returns; an error the code does not expect (a   *)
(* refused connection, say) is nakked.                                        *)
FalcoIdle == [pc |-> "idle"]

\* _find_active_session: a session of the decoy with a stored command or
\* connection event, if one is close enough in time and the query succeeds.
FalcoCorrelate ==
    /\ falco = FalcoIdle
    /\ \E a \in FalcoAlerts :
        /\ falcoQueue[a].state = "ready"
        /\ falcoQueue' = [falcoQueue EXCEPT ![a] = [state |-> "pending", deliveries |-> @.deliveries + 1]]
        /\ \E s \in {NoSession} \cup
               {t \in Suspects[a] : \E e \in Events \ Ends : SessionOf[e] = t /\ stored[e] > 0} :
            falco' = [pc |-> "store", alert |-> a, session |-> s]
    /\ UNCHANGED <<collectorVars, eventVars, tableVars, busVars, memoryVars, sweeping, faults>>

FalcoGoto(l) == falco' = [falco EXCEPT !.pc = l] /\ UNCHANGED falcoQueue

\* The callback returns and its message is acked.
FalcoReturn ==
    /\ falco' = FalcoIdle
    /\ falcoQueue' = [falcoQueue EXCEPT ![falco.alert].state = IF @ = "exhausted" THEN @ ELSE "acked"]

\* The callback fails: a Nak, which comes too late after the ack wait.
FalcoFail ==
    /\ falco' = FalcoIdle
    /\ falcoQueue' = [falcoQueue EXCEPT ![falco.alert].state =
            IF @ = "pending" THEN AfterRequeue(falcoQueue[falco.alert].deliveries) ELSE @]

\* Mutant: the outcome is marked whether or not the alert could be stored.
FalcoStoreGoesOn ==
    /\ falco.pc = "store"
    /\ \/ Fine /\ falcoRows' = [falcoRows EXCEPT ![falco.session] = @ + 1]
       \/ Fault /\ UNCHANGED falcoRows
    /\ IF falco.session = NoSession THEN FalcoReturn ELSE FalcoGoto("mark")
    /\ UNCHANGED <<collectorVars, eventVars, stored, storeFailed, rows, injected, busVars,
                   memoryVars, sweeping>>

\* A store that fails the expected way ends the handling.
FalcoStore ==
    /\ falco.pc = "store"
    /\ \/ /\ Fine /\ falcoRows' = [falcoRows EXCEPT ![falco.session] = @ + 1]
          /\ IF falco.session = NoSession THEN FalcoReturn ELSE FalcoGoto("mark")
       \/ Fault /\ UNCHANGED falcoRows /\ (FalcoReturn \/ FalcoFail)
    /\ UNCHANGED <<collectorVars, eventVars, stored, storeFailed, rows, injected, busVars,
                   memoryVars, sweeping>>

\* _mark_escape_attempt: an upsert that counts.  A failure of the expected kind
\* does not keep the event from being injected.
FalcoMark ==
    /\ falco.pc = "mark"
    /\ \/ Fine /\ rows' = [rows EXCEPT ![falco.session].falco = @ + 1] /\ FalcoGoto("inject")
       \/ Fault /\ UNCHANGED rows /\ (FalcoGoto("inject") \/ FalcoFail)
    /\ UNCHANGED <<collectorVars, eventVars, stored, storeFailed, falcoRows, injected, busVars,
                   memoryVars, sweeping>>

\* _inject_escape_event
FalcoInject ==
    /\ falco.pc = "inject"
    /\ \/ Fine /\ injected' = injected \cup {falco.session} /\ FalcoReturn
       \/ Fault /\ UNCHANGED injected /\ (FalcoReturn \/ FalcoFail)
    /\ UNCHANGED <<collectorVars, eventVars, stored, storeFailed, rows, falcoRows, busVars,
                   memoryVars, sweeping>>

FalcoAckWait(a) ==
    /\ falcoQueue[a].state = "pending"
    /\ falcoQueue' = [falcoQueue EXCEPT ![a].state = AfterRequeue(falcoQueue[a].deliveries)]
    /\ UNCHANGED <<falco, collectorVars, eventVars, tableVars, busVars, memoryVars, sweeping,
                   faults>>

----------------------------------------------------------------------------
(* The process ends, by a crash or by the cancellation of its tasks at an     *)
(* await (main waits 30 s for tasks that do not end by themselves and only    *)
(* then sets _shutting_down), and a new one starts with nothing in memory.    *)
Restart ==
    /\ Fault
    /\ analyzer' = NewAnalyzer /\ forgotten' = Sessions
    /\ inbox' = <<>> /\ stage' = "next" /\ todo' = <<>> /\ alerts' = {}
    /\ sweeping' = <<>> /\ falco' = FalcoIdle
    /\ UNCHANGED <<eventVars, tableVars, busVars, falcoQueue>>

Init ==
    /\ analyzer = NewAnalyzer /\ forgotten = {}
    /\ inbox = <<>> /\ stage = "next" /\ todo = <<>> /\ alerts = {}
    /\ sweeping = <<>> /\ falco = FalcoIdle
    /\ broker = [e \in Events |-> "ready"] /\ deliveries = [e \in Events |-> 0]
    /\ falcoQueue = [a \in FalcoAlerts |-> [state |-> "ready", deliveries |-> 0]]
    /\ stored = [e \in Events |-> 0] /\ storeFailed = {}
    /\ rows = [s \in Sessions |-> [count |-> 0, falco |-> 0]]
    /\ falcoRows = [s \in Sessions |-> 0] /\ injected = {}
    /\ enriched = {} /\ published = [p \in Sessions \X AlertKeys |-> 0]
    /\ faults = 0

CollectorStep ==
    \/ Fetch \/ Reject \/ HandBack \/ Analyse \/ WriteSummary \/ PublishAlert
    \/ Insert \/ Republish \/ Finish

FalcoStep == FalcoCorrelate \/ FalcoStore \/ FalcoMark \/ FalcoInject

Next ==
    \/ CollectorStep
    \/ Sweep \/ WriteSwept
    \/ FalcoStep
    \/ \E e \in Events : AckWait(e)
    \/ \E a \in FalcoAlerts : FalcoAckWait(a)
    \/ Restart

Spec == Init /\ [][Next]_vars

----------------------------------------------------------------------------
Deliveries == 0..MaxDeliver
MessageStates == {"ready", "pending", "acked", "exhausted"}

(* The variables hold what the code can put into them, and the analyzer's     *)
(* memory is consistent whenever a task can look at it, with the pull loop    *)
(* and the sweeper interleaving at their awaits.                              *)
TypeOK ==
    /\ broker \in [Events -> MessageStates] /\ deliveries \in [Events -> Deliveries]
    /\ stage \in {"next", "summary", "alerts", "insert", "publish", "ack"}
    /\ inbox \in Seq(Events) /\ Len(inbox) <= BatchSize
    /\ stage # "next" => inbox # <<>>
    /\ alerts \subseteq AlertKeys
    /\ forgotten \subseteq Sessions
    /\ stored \in [Events -> Deliveries] /\ storeFailed \subseteq Events /\ enriched \subseteq Events
    /\ published \in [Sessions \X AlertKeys -> Nat]
    /\ rows \in [Sessions -> [count : Nat, falco : Nat]]
    /\ falcoQueue \in [FalcoAlerts -> [state : MessageStates, deliveries : Deliveries]]
    /\ falco.pc \in {"idle", "store", "mark", "inject"}
    /\ falcoRows \in [Sessions -> Nat] /\ injected \subseteq Sessions
    /\ faults \in 0..MaxFaults
    /\ TrackingOK(analyzer)

(* An event leaves the queue, or reaches the dashboards and the SIEM, only    *)
(* after its insert into decoy_events was attempted: a crash, a lost Ack or a *)
(* redelivery at any await cannot let one slip by.                            *)
NothingSlipsBy ==
    \A e \in Events \ Rejected :
        broker[e] = "acked" \/ e \in enriched => stored[e] > 0 \/ e \in storeFailed

(* However often an event with an identity of its own is delivered, it is one *)
(* row.  A session that stays in memory until its end raises each alert at    *)
(* most once, whatever is redelivered: late events, a second session.end (the *)
(* SSH decoy emits two) included.                                             *)
OnceEach ==
    /\ \A e \in Keyed : stored[e] <= 1
    /\ \A s \in Sessions \ forgotten, k \in AlertKeys : published[s, k] <= 1

(* While the analyzer knows that a session is closed and never dropped it,    *)
(* nothing that comes later for it, an event that is redelivered or overtaken *)
(* by the session.end, replaces its summary by one that saw less or raises an *)
(* alert for it.  After a restart, an eviction, a sweep or a trimmed closed   *)
(* set it can: the session starts anew.                                       *)
ClosedRowIsFinal ==
    [][\A s \in analyzer.closed \ forgotten :
          /\ rows[s].count > 0 => rows'[s].count = rows[s].count
          /\ \A k \in AlertKeys : published'[s, k] = published[s, k]]_vars

(* An escape attempt on a session's row, and the falco.escape event in its    *)
(* timeline, go back to stored Falco alerts: each increment of the count to   *)
(* one of its own, whichever of the three writes fails and is redelivered.    *)
EscapeIsBacked ==
    \A s \in Sessions :
        /\ rows[s].falco <= falcoRows[s]
        /\ s \in injected => falcoRows[s] > 0

(* The two writers of engage_outcomes do not undo each other: no summary,     *)
(* late or stale, takes an escape attempt back.                               *)
EscapeSticks == [][\A s \in Sessions : rows'[s].falco >= rows[s].falco]_vars
=============================================================================
