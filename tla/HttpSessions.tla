----------------------------- MODULE HttpSessions -----------------------------
(***************************************************************************)
(* The sessions of the HTTP decoy: http-decoy/http_session.py, the         *)
(* middleware in main.py that opens a session for every request, and the   *)
(* routes that look the session up again (login pages, form posts, probes).*)
(*                                                                         *)
(* Requests are coroutines of one event loop.  They give way only where    *)
(* they wait: for the body of a post and for an event to be published.     *)
(* No method of SessionTracker waits, so each is one piece of a step.      *)
(*                                                                         *)
(* Session identifiers and tokens are random and never repeat: they are    *)
(* numbered here in the order they are drawn.  A cookie is signed, so what *)
(* a client may send is an identifier the decoy has issued, from whatever  *)
(* address.  The user agent, the request counter and the metrics of a      *)
(* session are left out: nothing in the decoy reads them.                  *)
(***************************************************************************)
EXTENDS Integers, Sequences, FiniteSets, Functions

CONSTANTS Requests,        \* the requests that can be in progress together
          Addresses,       \* source addresses
          MaxSessions,     \* MAX_SESSIONS
          MaxPerAddress,   \* MAX_SESSIONS_PER_IP
          SessionCap,      \* credentials kept per session (1000)
          GlobalCap,       \* _GLOBAL_CREDENTIAL_CAP
          MaxIds,          \* bound: sessions opened
          MaxPages         \* bound: login pages rendered

ASSUME LimitsAssumption ==
    /\ MaxSessions \in Nat \ {0} /\ MaxPerAddress \in Nat \ {0}
    /\ SessionCap \in Nat /\ GlobalCap \in Nat
    /\ MaxIds \in Nat /\ MaxPages \in Nat

VARIABLES
    live,        \* _sessions: identifier -> session, see Session
    perAddress,  \* _sessions_per_ip, an absent address counted as 0
    total,       \* _total_credentials
    drawn,       \* identifiers of the sessions opened so far: 1 .. drawn
    pages,       \* login pages rendered: to whom, and who got the token accepted
    request      \* the requests in progress

vars == <<live, perAddress, total, drawn, pages, request>>

Ids == 1 .. MaxIds
None == 0                       \* no cookie, no token

\* Two fields are history: whether a client has the session's cookie, and the
\* number of connection.new events emitted for it.
Session == [ip : Addresses, seen : BOOLEAN, token : 0 .. MaxPages,
            credentials : 0 .. SessionCap, known : BOOLEAN, greetings : Nat]

Kinds == {"login page", "login form", "probe", "other"}
Idle == [at |-> "idle"]
Arrived == [at : {"arrived"}, from : Addresses, kind : Kinds,
            cookie : Ids \cup {None}, token : 0 .. MaxPages, outer : Ids]
Waiting == [at : {"greeting", "emitting"}, from : Addresses, outer : Ids,
            inner : Ids \cup {None}]
Busy(r) == request[r].at # "idle"
Named(r) == IF request[r].at = "arrived" THEN {request[r].outer}
            ELSE {request[r].outer, request[r].inner}

-----------------------------------------------------------------------------
(* SessionTracker *)

Count(sessions, a) == Cardinality({i \in DOMAIN sessions : sessions[i].ip = a})

\* A lookup l is a call of get_or_create_session: the address it comes from,
\* its cookie, and the sessions that are idle for longer than SESSION_TTL.

\* _evict_stale: the idle sessions go, and their addresses are counted down.
\* Its hard cap is dead code: there are never more than MaxSessions.
Kept(l) == Restrict(live, DOMAIN live \ l.idle)
\* Mutant: eviction does not count the address down.
CountedDownNever(l, a) == perAddress[a]
CountedDown(l, a) == perAddress[a] - Count(Restrict(live, l.idle), a)

\* A cookie names a session only if that is alive and of the same address.
\* Mutant: the address of a cookie is not compared.
OwnsAnywhere(l) == l.cookie \in DOMAIN Kept(l)
Owns(l) == l.cookie \in DOMAIN Kept(l) /\ Kept(l)[l.cookie].ip = l.from
Full(l) == \/ Cardinality(DOMAIN Kept(l)) >= MaxSessions
           \/ CountedDown(l, l.from) >= MaxPerAddress
Opens(l) == ~ Owns(l) /\ ~ Full(l)
Refuses(l) == ~ Owns(l) /\ Full(l)

NewSession(a) == [ip |-> a, seen |-> FALSE, token |-> None, credentials |-> 0,
                  known |-> FALSE, greetings |-> 0]

\* What get_or_create_session returns, and the sessions and counts it leaves.
\* The dummy session of a refused request has a random identifier that nothing
\* keeps: None stands for it.
Chosen(l) == CASE Owns(l) -> l.cookie
               [] Opens(l) -> drawn + 1
               [] Refuses(l) -> None
Sessions(l) ==
    IF Opens(l)
    THEN [i \in DOMAIN Kept(l) \cup {drawn + 1} |->
             IF i = drawn + 1 THEN NewSession(l.from) ELSE live[i]]
    ELSE Kept(l)
Counts(l) ==
    [a \in Addresses |->
        CountedDown(l, a) + (IF Opens(l) /\ a = l.from THEN 1 ELSE 0)]
GetOrCreate(l) ==
    /\ drawn' = IF Opens(l) THEN drawn + 1 ELSE drawn
    /\ drawn' <= MaxIds
    /\ perAddress' = Counts(l)

\* The other methods, on the sessions that get_or_create_session left.
FirstVisit(sessions, i) == i \in DOMAIN sessions /\ ~ sessions[i].seen
MarkSeen(sessions, i) ==
    IF i \in DOMAIN sessions THEN [sessions EXCEPT ![i].seen = TRUE] ELSE sessions
StoreToken(sessions, i, t) ==
    IF i \in DOMAIN sessions THEN [sessions EXCEPT ![i].token = t] ELSE sessions
Validates(sessions, i, t) ==
    i \in DOMAIN sessions /\ t # None /\ sessions[i].token = t
\* Mutant: an accepted token stays valid.
ConsumeNot(sessions, i) == sessions
Consume(sessions, i) == [sessions EXCEPT ![i].token = None]
Records(sessions, i) ==
    sessions[i].credentials < SessionCap /\ total < GlobalCap
RecordCredential(sessions, i) ==
    IF Records(sessions, i)
    THEN [sessions EXCEPT ![i].credentials = @ + 1] ELSE sessions

-----------------------------------------------------------------------------
(* The requests *)

Init == /\ live = << >> /\ perAddress = [a \in Addresses |-> 0]
        /\ total = 0 /\ drawn = 0 /\ pages = << >>
        /\ request = [r \in Requests |-> Idle]

\* The sessions that may have been idle for a day.  A request in progress has
\* just used its session, and only waiting for a post's body can take so long.
Resting == {i \in DOMAIN live : \A r \in Requests :
    /\ Busy(r) /\ i \in Named(r)
    => request[r].at = "arrived" /\ request[r].kind # "login page"}

\* What a client may send.  A cookie is verified, and is as good as none when
\* its session is gone; so is a token that no session has.  Only the routes of
\* the login portals look at the token, the others need not look at either.
Cookies == {None} \cup {i \in DOMAIN live : live[i].known}
Tokens(kind) == IF kind = "login form"
                THEN {None} \cup {live[i].token : i \in DOMAIN live} ELSE {None}

\* decoy_middleware up to call_next.  A refused request is answered 429 at
\* once; any other is passed on.
Arrive(r, l, kind, token) ==
    /\ ~ Busy(r)
    /\ GetOrCreate(l)
    /\ live' = Sessions(l)
    /\ \/ Refuses(l) /\ UNCHANGED request
       \/ /\ ~ Refuses(l)
          /\ request' = [request EXCEPT ![r] =
                [at |-> "arrived", from |-> l.from, kind |-> kind,
                 cookie |-> IF kind = "other" THEN None ELSE l.cookie,
                 token |-> token, outer |-> Chosen(l)]]
    /\ UNCHANGED <<total, pages>>

\* The route sets a cookie for its session, then the middleware one for its
\* own; a client may have taken either.
Respond(r, inner, sessions) ==
    /\ live' = [i \in DOMAIN sessions |->
                  [sessions[i] EXCEPT !.known = @ \/ i \in {request[r].outer, inner}]]
    /\ request' = [request EXCEPT ![r] = Idle]
Emit(r, inner, place) ==
    request' = [request EXCEPT ![r] =
        [at |-> place, from |-> @.from, outer |-> @.outer, inner |-> inner]]

At(r, kind) == request[r].at = "arrived" /\ request[r].kind = kind

\* The end of _handle_get: a fresh token goes into the session, if it is
\* still there, and into the page.
Render(r, inner, sessions) ==
    /\ Len(pages) < MaxPages
    /\ pages' = Append(pages, [to |-> request[r].from, acceptedFrom |-> << >>])
    /\ Respond(r, inner, StoreToken(sessions, inner, Len(pages) + 1))
    /\ UNCHANGED total

\* _handle_get, in a session that has been greeted already, or in a dummy.
ShowPage(r, l) ==
    /\ At(r, "login page") /\ GetOrCreate(l)
    /\ ~ FirstVisit(Sessions(l), Chosen(l))
    /\ Render(r, Chosen(l), Sessions(l))

\* _handle_get on the first visit: connection.new is emitted, the page waits.
Greet(r, l) ==
    /\ At(r, "login page") /\ GetOrCreate(l)
    /\ FirstVisit(Sessions(l), Chosen(l))
    /\ live' = [MarkSeen(Sessions(l), Chosen(l)) EXCEPT ![Chosen(l)].greetings = @ + 1]
    /\ Emit(r, Chosen(l), "greeting")
    /\ UNCHANGED <<total, pages>>
ShowFirstPage(r) ==
    /\ request[r].at = "greeting"
    /\ Render(r, request[r].inner, live)
    /\ UNCHANGED <<perAddress, drawn>>

\* _handle_post with a token that is not the session's: back to the form.
RefuseForm(r, l) ==
    /\ At(r, "login form") /\ GetOrCreate(l)
    /\ ~ Validates(Sessions(l), Chosen(l), request[r].token)
    /\ Respond(r, Chosen(l), Sessions(l))
    /\ UNCHANGED <<total, pages>>

\* _handle_post: the token is used up, the credential recorded unless a cap
\* is reached, and auth.attempt emitted either way.
AcceptForm(r, l) ==
    LET used == Consume(Sessions(l), Chosen(l)) IN
    /\ At(r, "login form") /\ GetOrCreate(l)
    /\ Validates(Sessions(l), Chosen(l), request[r].token)
    /\ live' = RecordCredential(used, Chosen(l))
    /\ total' = IF Records(used, Chosen(l)) THEN total + 1 ELSE total
    /\ pages' = [pages EXCEPT ![request[r].token].acceptedFrom =
                    Append(@, request[r].from)]
    /\ Emit(r, Chosen(l), "emitting")

\* _emit_probe and the API's _emit.
Probe(r, l) ==
    /\ At(r, "probe") /\ GetOrCreate(l)
    /\ live' = Sessions(l)
    /\ Emit(r, Chosen(l), "emitting")
    /\ UNCHANGED <<total, pages>>
Emitted(r) ==
    /\ request[r].at = "emitting"
    /\ Respond(r, request[r].inner, live)
    /\ UNCHANGED <<perAddress, total, drawn, pages>>

\* Any other route, the catch-all, and what fails on the way leave the sessions alone.
Other(r) ==
    /\ At(r, "other")
    /\ Respond(r, request[r].outer, live)
    /\ UNCHANGED <<perAddress, total, drawn, pages>>

\* The decoy restarts: nothing is persisted.  The key of the signature comes
\* from the environment, so old cookies are still well signed.
Restart ==
    /\ live' = << >> /\ perAddress' = [a \in Addresses |-> 0]
    /\ total' = 0
    /\ request' = [r \in Requests |-> Idle]
    /\ UNCHANGED <<drawn, pages>>

\* The route a request is passed to looks its session up once more.
Lookups(a, cookies) == [from : a, cookie : cookies, idle : SUBSET Resting]
Route(r) ==
    \E l \in Lookups({request[r].from}, {request[r].cookie}) :
        ShowPage(r, l) \/ Greet(r, l) \/ RefuseForm(r, l) \/ AcceptForm(r, l)
        \/ Probe(r, l)

Next ==
    \/ \E r \in Requests, l \in Lookups(Addresses, Cookies), kind \in Kinds :
          \E t \in Tokens(kind) : Arrive(r, l, kind, t)
    \/ \E r \in Requests :
          \/ request[r].at = "arrived" /\ Route(r)
          \/ ShowFirstPage(r) \/ Emitted(r) \/ Other(r)
    \/ Restart

Spec == Init /\ [][Next]_vars

-----------------------------------------------------------------------------
(* Properties *)

\* The shape of the state.
TypeOK ==
    /\ DOMAIN live \subseteq 1 .. drawn /\ live \in [DOMAIN live -> Session]
    /\ perAddress \in [Addresses -> Nat]
    /\ total \in Nat /\ drawn \in 0 .. MaxIds
    /\ pages \in Seq([to : Addresses, acceptedFrom : Seq(Addresses)])
    /\ Len(pages) <= MaxPages
    /\ request \in [Requests -> {Idle} \cup Arrived \cup Waiting]

\* The credentials that sessions hold, the n-th of session i as <<i, n>>.
Held(sessions) ==
    {p \in (DOMAIN sessions) \X (1 .. SessionCap) : p[2] <= sessions[p[1]].credentials}

\* The counter of an address is the number of its live sessions, whatever was
\* opened and evicted in between, and neither limit is passed, although a
\* request without a cookie opens two sessions.  The global count of credentials
\* is at least what the live sessions hold, so its cap is a cap on the memory.
CountersAgree ==
    /\ TypeOK
    /\ \A a \in Addresses : perAddress[a] = Count(live, a)
    /\ \A a \in Addresses : perAddress[a] <= MaxPerAddress
    /\ Cardinality(DOMAIN live) <= MaxSessions
    /\ Cardinality(Held(live)) <= total
    /\ total <= GlobalCap

\* A request, and with it every event it reports, is put down to a session of
\* its own address: a cookie that is sent from elsewhere opens a new session,
\* and requests of two addresses never report under one identifier.
OneAddressPerSession ==
    \A r \in Requests : Busy(r) => \A i \in Named(r) \ {None} :
        /\ i \in DOMAIN live => live[i].ip = request[r].from
        /\ \A q \in Requests :
              Busy(q) /\ i \in Named(q) => request[q].from = request[r].from

\* connection.new is emitted once for a session however its requests overlap,
\* and for every session that has a token or credentials.
GreetedOnce ==
    \A i \in DOMAIN live :
        /\ live[i].greetings <= 1
        /\ live[i].token # None \/ live[i].credentials > 0
           => live[i].greetings = 1

\* The token of a page is accepted once at most, and only from the address
\* the page was rendered for.
TokenSpentOnce ==
    \A t \in DOMAIN pages :
        /\ Len(pages[t].acceptedFrom) <= 1
        /\ \A k \in DOMAIN pages[t].acceptedFrom :
              pages[t].acceptedFrom[k] = pages[t].to
=============================================================================
