------------------------------- MODULE Dashboard -------------------------------
(* The live half of the dashboard (dashboard/main.py): what the handler of    *)
(* NATS messages adds to an event from the cache of sessions, and the queues  *)
(* of the open event streams.  The handler's locks are never held across a    *)
(* wait, so it runs as one step.  An event is its place among all events; the *)
(* buffer of the last 500 has no reader that works (FirstStep) and is left    *)
(* out, as are the database's views.                                          *)
EXTENDS SequencesExt

CONSTANTS
    Sids, Values,     \* session_ids; addresses and user names
    NoValue,          \* a key that is missing, or empty
    Fields,           \* "source_ip" and "username"
    MaxSessionCache,  \* MAX_SESSION_CACHE
    QueueSize,        \* 100: what the queue of a stream holds
    Clients,          \* connections of browsers
    MaxEvents         \* bound: events

ASSUME DashboardAssumption ==
    /\ NoValue \notin Sids \cup Values
    /\ {MaxSessionCache, QueueSize} \subseteq Nat \ {0} /\ MaxEvents \in Nat

VARIABLES
    order,        \* the sessions in session_cache, the least recently told first
    told,         \* session_cache: the fields known of a session
    eventCount,   \* how many events there were
    latest,       \* the last of them: its session, own fields and fields as shown
    subscribers,  \* subscribers, a queue by its client
    queue,        \* what waits in a client's queue
    stream,       \* where a client's request is
    said,         \* history: the fields a session announced last
    announced,    \* history: the event with which a session announced any last
    forgotten,    \* history: sessions the cache dropped
    joined        \* history: how many events there were when a client subscribed

cacheVars == <<order, told, eventCount, latest, said, announced, forgotten>>
streamVars == <<subscribers, queue, stream, joined>>
dashboardVars == <<cacheVars, streamVars>>

Known == [Fields -> Values \cup {NoValue}]
Nothing == [f \in Fields |-> NoValue]

DashboardInit ==
    /\ order = << >> /\ told = [s \in Sids |-> Nothing] /\ eventCount = 0
    /\ latest = [sid |-> NoValue, own |-> Nothing, shown |-> Nothing]
    /\ subscribers = {} /\ queue = [c \in Clients |-> << >>]
    /\ stream = [c \in Clients |-> "none"]
    /\ said = [s \in Sids |-> Nothing] /\ announced = [s \in Sids |-> 0]
    /\ forgotten = {} /\ joined = [c \in Clients |-> 0]

-----------------------------------------------------------------------------
(* The handler.                                                               *)

\* Mutant: an announcement replaces what is known.
UpdateReplaces(fields, own) == own
\* dict.update with the fields that are there.
Update(fields, own) == [f \in Fields |-> IF own[f] # NoValue THEN own[f] ELSE fields[f]]

\* OrderedDict.move_to_end of a session, which may be new.
Position(sid) == CHOOSE i \in DOMAIN order : order[i] = sid
Moved(sid) ==
    Append(IF sid \in ToSet(order) THEN RemoveAt(order, Position(sid)) ELSE order, sid)

\* _cache_session.
CacheSession(sid, own) ==
    LET kept == [told EXCEPT ![sid] = Update(@, own)]
        evicted == Head(Moved(sid))
    IN IF Len(Moved(sid)) <= MaxSessionCache
       THEN order' = Moved(sid) /\ told' = kept /\ UNCHANGED forgotten
       ELSE /\ order' = Tail(Moved(sid)) /\ told' = [kept EXCEPT ![evicted] = Nothing]
            /\ forgotten' = forgotten \cup {evicted}

\* Mutant: the cached fields come before those of the event.
ShownCached(fields, own) == Update(own, fields)
\* The event as it is shown: its own fields, else those cached.
Shown(fields, own) == Update(fields, own)

\* Mutant: a queue that is full stays subscribed.
OfferAll ==
    /\ queue' = [c \in Clients |-> IF c \in subscribers /\ Len(queue[c]) < QueueSize
                                   THEN Append(queue[c], eventCount') ELSE queue[c]]
    /\ UNCHANGED <<subscribers, stream, joined>>
\* Every queue gets the event; one that is full is discarded.
Offer ==
    /\ subscribers' = {c \in subscribers : Len(queue[c]) < QueueSize}
    /\ queue' = [c \in Clients |->
                    IF c \in subscribers' THEN Append(queue[c], eventCount') ELSE queue[c]]
    /\ UNCHANGED <<stream, joined>>

\* nats_handler: sid may be missing; connection.new, auth.success and
\* session.start announce the fields they have.
Announces(sid, opens, own) == sid # NoValue /\ opens /\ \E f \in Fields : own[f] # NoValue
Receive(sid, opens, own) ==
    /\ eventCount < MaxEvents
    /\ eventCount' = eventCount + 1
    /\ IF Announces(sid, opens, own)
       THEN /\ CacheSession(sid, own)
            /\ said' = [said EXCEPT ![sid] = Update(@, own)]
            /\ announced' = [announced EXCEPT ![sid] = eventCount']
       ELSE UNCHANGED <<order, told, said, announced, forgotten>>
    /\ latest' = [sid |-> sid, own |-> own,
                  shown |-> Shown(IF sid = NoValue THEN Nothing ELSE told'[sid], own)]
    /\ Offer

-----------------------------------------------------------------------------
(* The event streams.                                                         *)

\* event_stream: the queue is subscribed before the response starts.
OpenStream(c) ==
    /\ stream[c] \in {"none", "failed"}
    /\ subscribers' = subscribers \cup {c} /\ queue' = [queue EXCEPT ![c] = << >>]
    /\ stream' = [stream EXCEPT ![c] = "opening"]
    /\ joined' = [joined EXCEPT ![c] = eventCount]
    /\ UNCHANGED cacheVars

\* generate: event_buffer is a deque, and to slice one is a TypeError, so the
\* first step of a stream is its last; the queue is discarded on the way out.
FirstStep(c) ==
    /\ stream[c] = "opening"
    /\ subscribers' = subscribers \ {c}
    /\ stream' = [stream EXCEPT ![c] = "failed"]
    /\ UNCHANGED <<queue, joined, cacheVars>>

\* A client that goes before the first step leaves a generator that was never
\* started, and its queue subscribed.
Leave(c) ==
    /\ stream[c] = "opening"
    /\ stream' = [stream EXCEPT ![c] = "left"]
    /\ UNCHANGED <<subscribers, queue, joined, cacheVars>>

DashboardNext ==
    \/ \E sid \in Sids \cup {NoValue}, opens \in BOOLEAN, own \in Known : Receive(sid, opens, own)
    \/ \E c \in Clients : OpenStream(c) \/ FirstStep(c) \/ Leave(c)
DashboardSpec == DashboardInit /\ [][DashboardNext]_dashboardVars

-----------------------------------------------------------------------------
(* Properties.                                                                *)

DashboardTypeOK ==
    /\ order \in Seq(Sids) /\ Len(order) <= MaxSessionCache
    /\ told \in [Sids -> Known] /\ eventCount \in 0 .. MaxEvents
    /\ latest \in [sid : Sids \cup {NoValue}, own : Known, shown : Known]
    /\ subscribers \subseteq Clients /\ queue \in [Clients -> Seq(Nat)]
    /\ stream \in [Clients -> {"none", "opening", "failed", "left"}]
    /\ said \in [Sids -> Known] /\ announced \in [Sids -> 0 .. eventCount]
    /\ forgotten \subseteq Sids /\ joined \in [Clients -> 0 .. eventCount]

\* An event is shown with its own fields, and one it lacks is what its session
\* announced last: never another session's, never one superseded, and missing
\* only if it was never announced or the cache has been full since.
RightlyAttributed ==
    \A f \in Fields :
        LET sid == latest.sid
        IN IF latest.own[f] # NoValue THEN latest.shown[f] = latest.own[f]
           ELSE IF sid = NoValue THEN latest.shown[f] = NoValue
           ELSE \/ latest.shown[f] = said[sid][f]
                \/ latest.shown[f] = NoValue /\ sid \in forgotten

\* The cache holds the sessions that announced something last, each once, and
\* forgets none before it is full.
LeastRecentlyTold ==
    /\ \A i, j \in DOMAIN order : i < j => announced[order[i]] < announced[order[j]]
    /\ \A s \in Sids \ ToSet(order) : announced[s] # 0 =>
          /\ Len(order) = MaxSessionCache
          /\ \A t \in ToSet(order) : announced[s] < announced[t]

\* The queue of a subscriber holds every event since it joined, in order, and
\* no more than QueueSize: one that no stream will ever read does not stay.
SubscribersSeeAll ==
    \A c \in subscribers :
        /\ eventCount - joined[c] <= QueueSize
        /\ queue[c] = [i \in 1 .. eventCount - joined[c] |-> joined[c] + i]
=============================================================================
