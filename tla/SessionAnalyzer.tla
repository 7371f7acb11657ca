--------------------------- MODULE SessionAnalyzer ---------------------------
(* The CTI pipeline's in-memory session tracking (cti/session_analyzer.py).   *)
(* Every method holds self._lock over a body without an await, so each is one *)
(* step of its caller; the callers are modelled in CtiPipeline.  The analyzer *)
(* is a record:                                                               *)
(*   tracked   _sessions: what is accumulated of each session in memory       *)
(*   order     its sessions by last_event_time, the least recent first        *)
(*   closed    _closed_sessions                                               *)
(*   processed _processed_event_ids, oldest first                             *)
(*   evicted   _evicted_summaries                                             *)
(* The evidence an event adds to a session (tactics, tools, severity) is a    *)
(* set; an alert key is triggered by any of the sets of evidence it requires  *)
(* (detect_kill_chain and the dangerous progressions are such families).      *)
EXTENDS Naturals, Sequences, SequencesExt

CONSTANTS Sessions, Events,
          SessionOf,    \* the session_id of an event
          Fingerprint,  \* the hash ingest computes of it: pipeline.py passes no event_id
          Evidence,     \* what enrichment found in it
          AlertKeys, Requires,
          MaxSessions, ProcessedCap, ClosedCap, EvictedCap

\* The bookkeeping bound of a trimmed cache is halved when it overflows.
ASSUME AnalyzerAssumption ==
    /\ SessionOf \in [Events -> Sessions]
    /\ DOMAIN Fingerprint = Events
    /\ DOMAIN Requires = AlertKeys
    /\ \A c \in {MaxSessions, ProcessedCap, ClosedCap, EvictedCap} : c \in Nat \ {0}
    /\ ProcessedCap >= 2

NewAnalyzer == [tracked |-> <<>>, order |-> <<>>, closed |-> {}, processed |-> <<>>, evicted |-> <<>>]

NewSession == [count |-> 0, evidence |-> {}, raised |-> {}]

Triggered(evidence) == {k \in AlertKeys : \E R \in Requires[k] : R \subseteq evidence}

\* Sessions are added to the memory, and taken out of it and of its order.
Tracking(tracked, s) ==
    [t \in DOMAIN tracked \cup {s} |-> IF t = s THEN NewSession ELSE tracked[t]]
Forget(order, s) == RemoveAt(order, CHOOSE i \in DOMAIN order : order[i] = s)
Without(tracked, S) == Restrict(tracked, DOMAIN tracked \ S)

\* What close_session, sweep_idle and _evict_lru return of a session.
SummaryOf(an, s) == [session |-> s, count |-> an.tracked[s].count]

----------------------------------------------------------------------------
\* _processed_event_ids: over the cap, what is older than ten minutes goes (the
\* first `old` entries), and the oldest half when that was nothing.
Remember(q, f, old) ==
    LET grown == Append(q, f)
        drop  == IF old > 0 THEN old ELSE ProcessedCap \div 2
    IN  IF Len(grown) > ProcessedCap THEN SubSeq(grown, drop + 1, Len(grown)) ELSE grown

\* _evict_lru with the append to the bounded deque, which drops its oldest.
EvictLru(an) ==
    LET s == Head(an.order)
        kept == IF Len(an.evicted) >= EvictedCap THEN Tail(an.evicted) ELSE an.evicted
    IN  [an EXCEPT !.tracked = Without(@, {s}), !.order = Tail(@),
                   !.evicted = Append(kept, SummaryOf(an, s))]

\* Mutant: room is made one session too late.
GetOrCreateLate(an, s) ==
    IF s \in DOMAIN an.tracked
    THEN [an EXCEPT !.order = Append(Forget(@, s), s)]
    ELSE LET room == IF Cardinality(DOMAIN an.tracked) > MaxSessions THEN EvictLru(an) ELSE an
         IN  [room EXCEPT !.tracked = Tracking(@, s), !.order = Append(@, s)]

\* _get_or_create and the refresh of last_event_time.
GetOrCreate(an, s) ==
    IF s \in DOMAIN an.tracked
    THEN [an EXCEPT !.order = Append(Forget(@, s), s)]
    ELSE LET room == IF Cardinality(DOMAIN an.tracked) >= MaxSessions THEN EvictLru(an) ELSE an
         IN  [room EXCEPT !.tracked = Tracking(@, s), !.order = Append(@, s)]

\* Mutant: the keys an alert was raised for are not remembered.
UpdateForgetsAlerts(st, e) ==
    [count |-> st.count + 1, evidence |-> st.evidence \cup Evidence[e], raised |-> {}]

\* _update_state and what _check_alerts adds to previous_alerts.
Update(st, e) ==
    LET seen == st.evidence \cup Evidence[e]
    IN  [count |-> st.count + 1, evidence |-> seen, raised |-> st.raised \cup Triggered(seen)]

\* Mutant: events of closed sessions are let in.
IgnoredIfSeen(an, e) == Contains(an.processed, Fingerprint[e])

\* Whether ingest drops an event: its session is closed or it was seen before.
Ignored(an, e) == SessionOf[e] \in an.closed \/ Contains(an.processed, Fingerprint[e])

Ingest(an, e, old) ==
    LET s == SessionOf[e]
        a == GetOrCreate([an EXCEPT !.processed = Remember(@, Fingerprint[e], old)], s)
    IN  IF Ignored(an, e) THEN an ELSE [a EXCEPT !.tracked[s] = Update(@, e)]

\* The alert_triggers of the verdict ingest returns: the keys it has just added.
NewAlerts(an, e) ==
    LET s == SessionOf[e]
        before == IF s \in DOMAIN an.tracked THEN an.tracked[s] ELSE NewSession
    IN  IF Ignored(an, e) THEN {} ELSE Triggered(before.evidence \cup Evidence[e]) \ before.raised

----------------------------------------------------------------------------
\* close_session: over the cap, half of the closed set goes, which half is
\* left to the hash order (the set `forget`).
CloseSession(an, s, forget) ==
    IF s \notin DOMAIN an.tracked THEN an
    ELSE [an EXCEPT !.tracked = Without(@, {s}), !.order = Forget(@, s),
                    !.closed = (@ \cup {s}) \ forget]

\* The sets close_session may trim when it closes s.
Trims(an, s) ==
    LET full == an.closed \cup {s}
    IN  IF s \in DOMAIN an.tracked /\ Cardinality(full) > ClosedCap
        THEN {F \in SUBSET full : Cardinality(F) = (ClosedCap + 1) \div 2}
        ELSE {{}}

\* sweep_idle: the n sessions whose last event is the longest ago are idle.
Idle(an, n) == SubSeq(an.order, 1, n)

SweepIdle(an, n) ==
    [an EXCEPT !.tracked = Without(@, ToSet(Idle(an, n))),
               !.order = SubSeq(@, n + 1, Len(@))]

DrainEvicted(an) == [an EXCEPT !.evicted = <<>>]

----------------------------------------------------------------------------
(* What the memory of the analyzer looks like between two calls: the recency  *)
(* order lists exactly the tracked sessions, the caps hold, a closed session  *)
(* is not tracked, and no session is tracked without an event.                *)
TrackingOK(an) ==
    /\ ToSet(an.order) = DOMAIN an.tracked
    /\ Len(an.order) = Cardinality(DOMAIN an.tracked)
    /\ Len(an.order) <= MaxSessions
    /\ DOMAIN an.tracked \cap an.closed = {}
    /\ Cardinality(an.closed) <= ClosedCap
    /\ Len(an.processed) <= ProcessedCap
    /\ Len(an.evicted) <= EvictedCap
    /\ \A s \in DOMAIN an.tracked : an.tracked[s].count > 0
=============================================================================
