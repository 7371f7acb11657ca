-------------------------- MODULE HttpSessionsProofs --------------------------
(* Proofs about the sessions of the HTTP decoy, for any requests, addresses   *)
(* and limits.                                                                *)
EXTENDS HttpSessions, SequenceTheorems, FiniteSetTheorems, TLAPS

-----------------------------------------------------------------------------
(* The inductive invariant, over a table s of sessions, the number n of       *)
(* identifiers drawn, the pages pg and the requests rq: an action goes        *)
(* through several tables before it is done.                                  *)
Page == [to : Addresses, acceptedFrom : Seq(Addresses)]
PagesFit(pg) ==
    /\ pg \in Seq(Page)
    /\ \A t \in 1 .. Len(pg) :
          /\ Len(pg[t].acceptedFrom) <= 1
          /\ \A k \in 1 .. Len(pg[t].acceptedFrom) : pg[t].acceptedFrom[k] = pg[t].to

(* The token a session holds was not accepted yet and is on a page that its   *)
(* address was sent.                                                          *)
SessionFits(x, pg) ==
    /\ DOMAIN x = {"ip", "seen", "token", "credentials", "known", "greetings"}
    /\ x.ip \in Addresses /\ x.seen \in BOOLEAN /\ x.credentials \in Nat
    /\ x.greetings = IF x.seen THEN 1 ELSE 0
    /\ x.token \in 0 .. Len(pg)
    /\ x.token # None \/ x.credentials > 0 => x.seen
    /\ x.token # None => pg[x.token].to = x.ip /\ pg[x.token].acceptedFrom = << >>
TableFits(s, n, pg) ==
    /\ DOMAIN s \subseteq 1 .. n
    /\ \A i \in DOMAIN s : SessionFits(s[i], pg)
    /\ \A i, j \in DOMAIN s : s[i].token # None /\ s[i].token = s[j].token => i = j

(* A request names sessions of its own address, also those that are gone.     *)
Active(q) == q.at # "idle"
Names(q) == IF q.at = "arrived" THEN {q.outer} ELSE {q.outer, q.inner}
RequestFits(q, s, n) ==
    /\ q.at \in {"idle", "arrived", "greeting", "emitting"}
    /\ Active(q) => q.from \in Addresses /\ q.outer \in 1 .. n
    /\ q.at \in {"greeting", "emitting"} => q.inner \in 0 .. n
    /\ Active(q) => \A i \in Names(q) \cap DOMAIN s : s[i].ip = q.from
    /\ q.at = "greeting" /\ q.inner \in DOMAIN s => s[q.inner].seen
RequestsFit(s, n, rq) ==
    /\ DOMAIN rq = Requests
    /\ \A r \in Requests : RequestFits(rq[r], s, n)
    /\ \A q, r \in Requests : Active(rq[q]) /\ Active(rq[r]) =>
          \A i \in Names(rq[q]) \cap Names(rq[r]) : i # None => rq[q].from = rq[r].from

State(s, n, pg, rq) ==
    n \in Nat /\ PagesFit(pg) /\ TableFits(s, n, pg) /\ RequestsFit(s, n, rq)
HttpInv == State(live, drawn, pages, request)

-----------------------------------------------------------------------------
(* A table that changes neither its sessions nor their addresses, and forgets *)
(* no visit, suits the requests as before.                                    *)
Same(s, t) ==
    /\ DOMAIN t = DOMAIN s
    /\ \A i \in DOMAIN s : t[i].ip = s[i].ip /\ (s[i].seen => t[i].seen)

LEMMA SameRequests ==
    ASSUME NEW s, NEW t, NEW n, NEW rq, RequestsFit(s, n, rq), Same(s, t)
    PROVE  RequestsFit(t, n, rq)
<1>1. \A r \in Requests : RequestFits(rq[r], t, n)
  BY DEF RequestsFit, RequestFits, Same
<1> QED
  BY <1>1 DEF RequestsFit

(* A request that goes on names sessions of its address in the table, or      *)
(* those it named before.                                                     *)
LEMMA NewRequest ==
    ASSUME NEW s, NEW n \in Nat, NEW rq, RequestsFit(s, n, rq), NEW r \in Requests, NEW new,
           RequestFits(new, s, n), DOMAIN s \subseteq 1 .. n,
           Active(new) => \A i \in Names(new) :
               \/ i = None
               \/ i \in DOMAIN s
               \/ Active(rq[r]) /\ i \in Names(rq[r]) /\ rq[r].from = new.from
    PROVE  RequestsFit(s, n, [rq EXCEPT ![r] = new])
<1> DEFINE after == [rq EXCEPT ![r] = new]
<1>1. DOMAIN after = Requests /\ after[r] = new /\ \A q \in Requests \ {r} : after[q] = rq[q]
  BY DEF RequestsFit
<1>2. \A q \in Requests : RequestFits(after[q], s, n)
  BY <1>1 DEF RequestsFit
<1>3. ASSUME NEW q \in Requests, q # r, Active(rq[q]), Active(new),
             NEW i \in Names(rq[q]) \cap Names(new), i # None
      PROVE  rq[q].from = new.from
  <2>1. CASE i \in DOMAIN s
    <3>1. RequestFits(rq[q], s, n)
      BY DEF RequestsFit
    <3> QED
      BY <1>3, <2>1, <3>1 DEF RequestFits
  <2>2. CASE Active(rq[r]) /\ i \in Names(rq[r]) /\ rq[r].from = new.from
    BY <1>3, <2>2 DEF RequestsFit
  <2> QED
    BY <1>3, <2>1, <2>2
<1>4. ASSUME NEW p \in Requests, NEW q \in Requests, Active(after[p]), Active(after[q]),
             NEW i \in Names(after[p]) \cap Names(after[q]), i # None
      PROVE  after[p].from = after[q].from
  <2>1. CASE p # r /\ q # r
    BY <1>1, <1>4, <2>1 DEF RequestsFit
  <2>2. CASE p = r /\ q = r
    BY <2>2
  <2>3. CASE p = r /\ q # r
    BY <1>1, <1>3, <1>4, <2>3
  <2>4. CASE p # r /\ q = r
    BY <1>1, <1>3, <1>4, <2>4
  <2> QED
    BY <2>1, <2>2, <2>3, <2>4
<1> HIDE DEF after
<1> QED
  BY <1>1, <1>2, <1>4 DEF RequestsFit, after

LEMMA RequestEnds ==
    ASSUME NEW s, NEW n \in Nat, NEW rq, RequestsFit(s, n, rq), DOMAIN s \subseteq 1 .. n,
           NEW r \in Requests
    PROVE  RequestsFit(s, n, [rq EXCEPT ![r] = Idle])
<1>1. RequestFits(Idle, s, n) /\ ~ Active(Idle)
  BY DEF RequestFits, Active, Idle
<1> QED
  BY <1>1, NewRequest

-----------------------------------------------------------------------------
(* get_or_create_session.                                                     *)
LEMMA LookupKeeps ==
    ASSUME HttpInv, NEW l, l.from \in Addresses, l.idle \subseteq DOMAIN live, GetOrCreate(l)
    PROVE  /\ State(Sessions(l), drawn', pages, request)
           /\ Chosen(l) \in 0 .. drawn'
           /\ Refuses(l) => Chosen(l) = None
           /\ ~ Refuses(l) => Chosen(l) \in DOMAIN Sessions(l)
           /\ Chosen(l) \in DOMAIN Sessions(l) => Sessions(l)[Chosen(l)].ip = l.from
<1> DEFINE s == Sessions(l)
<1>0. drawn \in Nat /\ PagesFit(pages) /\ TableFits(live, drawn, pages)
      /\ RequestsFit(live, drawn, request)
  BY DEF HttpInv, State
<1>1. DOMAIN Kept(l) = DOMAIN live \ l.idle /\ \A i \in DOMAIN Kept(l) : Kept(l)[i] = live[i]
  BY DEF Kept, Restrict
<1>2. drawn + 1 \notin DOMAIN live /\ 0 \notin DOMAIN live
  BY <1>0 DEF TableFits
<1>3. CASE Opens(l)
  <2>1. drawn' = drawn + 1
    BY <1>3 DEF GetOrCreate
  <2>2. DOMAIN s = DOMAIN Kept(l) \cup {drawn + 1} /\ s[drawn + 1] = NewSession(l.from)
        /\ \A i \in DOMAIN Kept(l) : s[i] = live[i]
    BY <1>1, <1>2, <1>3 DEF Sessions
  <2>3. Chosen(l) = drawn + 1 /\ ~ Refuses(l)
    BY <1>3 DEF Chosen, Opens, Refuses
  <2>4. SessionFits(NewSession(l.from), pages)
    <3>1. Len(pages) \in Nat
      BY <1>0 DEF PagesFit
    <3> QED
      BY <3>1 DEF SessionFits, NewSession, None
  <2>5. TableFits(s, drawn', pages)
    <3>1. DOMAIN s \subseteq 1 .. drawn'
      BY <1>0, <1>1, <2>1, <2>2 DEF TableFits
    <3>2. \A i \in DOMAIN s : SessionFits(s[i], pages)
      BY <1>0, <1>1, <2>2, <2>4 DEF TableFits
    <3>3. \A i, j \in DOMAIN s : s[i].token # None /\ s[i].token = s[j].token => i = j
      BY <1>0, <1>1, <2>2 DEF TableFits, NewSession
    <3> QED
      BY <3>1, <3>2, <3>3 DEF TableFits
  <2>6. RequestsFit(s, drawn', request)
    <3>1. ASSUME NEW r \in Requests PROVE RequestFits(request[r], s, drawn')
      <4>1. RequestFits(request[r], live, drawn)
        BY <1>0 DEF RequestsFit
      <4>2. Active(request[r]) => drawn + 1 \notin Names(request[r])
        BY <1>0, <4>1 DEF RequestFits, Names, Active
      <4>3. Active(request[r]) => \A i \in Names(request[r]) \cap DOMAIN s : s[i].ip = request[r].from
        BY <1>1, <2>2, <4>1, <4>2 DEF RequestFits
      <4>4. request[r].at = "greeting" /\ request[r].inner \in DOMAIN s => s[request[r].inner].seen
        BY <1>1, <2>2, <4>1, <4>2 DEF RequestFits, Names, Active
      <4> QED
        BY <1>0, <2>1, <4>1, <4>3, <4>4 DEF RequestFits
    <3> QED
      BY <1>0, <3>1 DEF RequestsFit
  <2> QED
    BY <1>0, <2>1, <2>2, <2>3, <2>5, <2>6 DEF State, NewSession
<1>4. CASE ~ Opens(l)
  <2>1. drawn' = drawn /\ s = Kept(l)
    BY <1>4 DEF GetOrCreate, Sessions
  <2>2. TableFits(s, drawn', pages)
    BY <1>0, <1>1, <2>1 DEF TableFits
  <2>3. RequestsFit(s, drawn', request)
    BY <1>0, <1>1, <2>1 DEF RequestsFit, RequestFits
  <2>4. Owns(l) \/ Refuses(l)
    BY <1>4 DEF Opens, Refuses
  <2>5. CASE Owns(l)
    <3>1. Chosen(l) = l.cookie /\ l.cookie \in DOMAIN s /\ s[l.cookie].ip = l.from
      <4>1. Chosen(l) = l.cookie
        BY <2>5 DEF Chosen, Opens, Refuses
      <4>2. l.cookie \in DOMAIN Kept(l) /\ Kept(l)[l.cookie].ip = l.from
        BY <2>5 DEF Owns
      <4> QED
        BY <2>1, <4>1, <4>2
    <3>2. l.cookie \in 0 .. drawn' /\ ~ Refuses(l)
      BY <1>0, <2>1, <2>2, <2>5, <3>1 DEF TableFits, Refuses
    <3>3. State(s, drawn', pages, request)
      BY <1>0, <2>1, <2>2, <2>3 DEF State
    <3> QED
      BY <3>1, <3>2, <3>3
  <2>6. CASE Refuses(l)
    <3>1. Chosen(l) = 0 /\ 0 \notin DOMAIN s
      BY <1>1, <1>2, <1>4, <2>1, <2>6 DEF Chosen, Refuses, None
    <3> QED
      BY <1>0, <2>1, <2>2, <2>3, <2>6, <3>1 DEF State, None
  <2> QED
    BY <2>4, <2>5, <2>6
<1> QED
  BY <1>3, <1>4

-----------------------------------------------------------------------------
(* The steps of a request.                                                    *)

(* An answer: clients learn cookies, the request is over.                     *)
LEMMA RespondKeeps ==
    ASSUME NEW s, NEW n, NEW pg, State(s, n, pg, request), NEW r \in Requests, NEW inner,
           Respond(r, inner, s)
    PROVE  State(live', n, pg, request')
<1>0. n \in Nat /\ PagesFit(pg) /\ TableFits(s, n, pg) /\ RequestsFit(s, n, request)
  BY DEF State
<1>1. DOMAIN live' = DOMAIN s
  BY DEF Respond
<1>2. ASSUME NEW i \in DOMAIN s
      PROVE  /\ SessionFits(live'[i], pg)
             /\ live'[i].ip = s[i].ip /\ live'[i].seen = s[i].seen /\ live'[i].token = s[i].token
  <2>1. SessionFits(s[i], pg)
    BY <1>0 DEF TableFits
  <2>2. live'[i] = [s[i] EXCEPT !.known = s[i].known \/ i \in {request[r].outer, inner}]
    BY DEF Respond
  <2> QED
    BY <2>1, <2>2 DEF SessionFits
<1>3. TableFits(live', n, pg)
  BY <1>0, <1>1, <1>2 DEF TableFits
<1>4. Same(s, live')
  BY <1>1, <1>2 DEF Same
<1>5. RequestsFit(live', n, request)
  BY <1>0, <1>4, SameRequests
<1>6. RequestsFit(live', n, request')
  BY <1>0, <1>3, <1>5, RequestEnds DEF Respond, TableFits
<1> QED
  BY <1>0, <1>3, <1>6 DEF State

(* The page of a session that is gone or was greeted.                         *)
LEMMA RenderKeeps ==
    ASSUME NEW s, NEW n, State(s, n, pages, request), NEW r \in Requests, Active(request[r]),
           NEW inner, inner \in DOMAIN s => s[inner].ip = request[r].from /\ s[inner].seen,
           Render(r, inner, s)
    PROVE  State(live', n, pages', request')
<1> DEFINE t == Len(pages) + 1
           new == [to |-> request[r].from, acceptedFrom |-> << >>]
           after == StoreToken(s, inner, t)
<1>0. n \in Nat /\ PagesFit(pages) /\ TableFits(s, n, pages) /\ RequestsFit(s, n, request)
  BY DEF State
<1>1. pages \in Seq(Page) /\ Len(pages) \in Nat
  BY <1>0 DEF PagesFit
<1>2. new \in Page
  BY <1>0 DEF RequestsFit, RequestFits, Page
<1>3. pages' = Append(pages, new)
  BY DEF Render
<1>4. /\ pages' \in Seq(Page) /\ Len(pages') = t /\ pages'[t] = new
      /\ \A k \in 1 .. Len(pages) : pages'[k] = pages[k]
  BY <1>1, <1>2, <1>3, AppendProperties
<1>5. PagesFit(pages')
  <2> SUFFICES ASSUME NEW k \in 1 .. t
               PROVE  /\ Len(pages'[k].acceptedFrom) <= 1
                      /\ \A j \in 1 .. Len(pages'[k].acceptedFrom) :
                            pages'[k].acceptedFrom[j] = pages'[k].to
    BY <1>4 DEF PagesFit
  <2>1. CASE k = t
    BY <1>4, <2>1
  <2>2. CASE k \in 1 .. Len(pages)
    BY <1>0, <1>4, <2>2 DEF PagesFit
  <2> QED
    BY <1>1, <2>1, <2>2
<1>6. DOMAIN after = DOMAIN s
  BY DEF StoreToken
<1>7. ASSUME NEW i \in DOMAIN s, i # inner
      PROVE  after[i] = s[i] /\ SessionFits(after[i], pages') /\ after[i].token # t
  <2>1. after[i] = s[i]
    BY <1>7 DEF StoreToken
  <2>2. SessionFits(s[i], pages)
    BY <1>0 DEF TableFits
  <2>3. s[i].token \in 0 .. Len(pages)
    BY <2>2 DEF SessionFits
  <2>4. s[i].token # None => pages'[s[i].token] = pages[s[i].token]
    BY <1>4, <2>3 DEF None
  <2>5. s[i].token \in 0 .. Len(pages') /\ s[i].token # t
    BY <1>1, <1>4, <2>3
  <2> QED
    BY <2>1, <2>2, <2>4, <2>5 DEF SessionFits
<1>8. ASSUME inner \in DOMAIN s
      PROVE  after[inner] = [s[inner] EXCEPT !.token = t] /\ SessionFits(after[inner], pages')
             /\ after[inner].token = t
  <2>1. after[inner] = [s[inner] EXCEPT !.token = t]
    BY <1>8 DEF StoreToken
  <2>2. SessionFits(s[inner], pages)
    BY <1>0, <1>8 DEF TableFits
  <2>3. t \in 0 .. Len(pages') /\ t # None
    BY <1>1, <1>4 DEF None
  <2> HIDE DEF t, after
  <2> QED
    BY <1>4, <1>8, <2>1, <2>2, <2>3 DEF SessionFits
<1> HIDE DEF t, after
<1>9. TableFits(after, n, pages')
  <2>1. \A i \in DOMAIN s : SessionFits(after[i], pages')
    BY <1>7, <1>8
  <2>2. \A i, j \in DOMAIN s : after[i].token # None /\ after[i].token = after[j].token => i = j
    BY <1>0, <1>7, <1>8 DEF TableFits
  <2> QED
    BY <1>0, <1>6, <2>1, <2>2 DEF TableFits
<1>10. Same(s, after)
  <2>1. ASSUME NEW i \in DOMAIN s
        PROVE  after[i].ip = s[i].ip /\ after[i].seen = s[i].seen
    <3>1. SessionFits(s[i], pages)
      BY <1>0 DEF TableFits
    <3> QED
      BY <1>7, <1>8, <3>1 DEF SessionFits
  <2> QED
    BY <1>6, <2>1 DEF Same
<1>11. State(after, n, pages', request)
  BY <1>0, <1>5, <1>9, <1>10, SameRequests DEF State
<1>12. Respond(r, inner, after)
  BY DEF Render, after, t
<1> QED
  BY <1>11, <1>12, RespondKeeps

(* A request that goes on to wait, with the session it was given.             *)
LEMMA EmitKeeps ==
    ASSUME NEW s, NEW n, NEW pg, State(s, n, pg, request), NEW r \in Requests,
           Active(request[r]), NEW inner \in 0 .. n,
           inner \in DOMAIN s => s[inner].ip = request[r].from,
           inner # None => inner \in DOMAIN s,
           NEW place \in {"greeting", "emitting"},
           place = "greeting" /\ inner \in DOMAIN s => s[inner].seen,
           Emit(r, inner, place)
    PROVE  State(s, n, pg, request')
<1> DEFINE new == [at |-> place, from |-> request[r].from, outer |-> request[r].outer,
                   inner |-> inner]
<1>0. n \in Nat /\ TableFits(s, n, pg) /\ RequestsFit(s, n, request)
  BY DEF State
<1>1. request' = [request EXCEPT ![r] = new]
  BY DEF Emit
<1>2. RequestFits(request[r], s, n)
  BY <1>0 DEF RequestsFit
<1>3. Names(new) = {request[r].outer, inner} /\ request[r].outer \in Names(request[r])
  BY DEF Names
<1>4. RequestFits(new, s, n)
  BY <1>2, <1>3 DEF RequestFits, Active
<1>5. RequestsFit(s, n, request')
  BY ZenonT(30), <1>0, <1>1, <1>3, <1>4, NewRequest DEF TableFits
<1> QED
  BY <1>5 DEF State

(* The first visit of a session is noted and counted once.                    *)
LEMMA GreetKeeps ==
    ASSUME NEW s, NEW n, NEW pg, State(s, n, pg, request), NEW c \in DOMAIN s, ~ s[c].seen,
           NEW t, t = [MarkSeen(s, c) EXCEPT ![c].greetings = @ + 1]
    PROVE  State(t, n, pg, request) /\ Same(s, t) /\ t[c].seen
<1>0. n \in Nat /\ PagesFit(pg) /\ TableFits(s, n, pg) /\ RequestsFit(s, n, request)
  BY DEF State
<1>1. SessionFits(s[c], pg)
  BY <1>0 DEF TableFits
<1>2. /\ DOMAIN t = DOMAIN s /\ \A i \in DOMAIN s \ {c} : t[i] = s[i]
      /\ t[c] = [[s[c] EXCEPT !.seen = TRUE] EXCEPT !.greetings = @ + 1]
  BY DEF MarkSeen
<1>3. /\ DOMAIN t[c] = DOMAIN s[c] /\ t[c].ip = s[c].ip /\ t[c].token = s[c].token
      /\ t[c].credentials = s[c].credentials /\ t[c].seen = TRUE /\ t[c].greetings = 0 + 1
  BY <1>1, <1>2 DEF SessionFits
<1>4. SessionFits(t[c], pg)
  <2>1. s[c].token = None
    BY <1>1 DEF SessionFits
  <2>2. t[c].greetings = 1 /\ t[c].seen \in BOOLEAN /\ t[c].seen
    <3>1. 0 + 1 = 1 /\ TRUE \in BOOLEAN
      OBVIOUS
    <3> QED
      BY <1>3, <3>1, Zenon
  <2>3. t[c].greetings = IF t[c].seen THEN 1 ELSE 0
    BY <2>2
  <2>4. t[c].token # None \/ t[c].credentials > 0 => t[c].seen
    BY <2>2
  <2> QED
    BY <1>1, <1>3, <2>1, <2>2, <2>3, <2>4 DEF SessionFits
<1>5. TableFits(t, n, pg)
  <2>1. \A i \in DOMAIN t : SessionFits(t[i], pg)
    BY <1>0, <1>2, <1>4 DEF TableFits
  <2>2. \A i \in DOMAIN s : t[i].token = s[i].token
    BY <1>2, <1>3
  <2>3. \A i, j \in DOMAIN t : t[i].token # None /\ t[i].token = t[j].token => i = j
    BY <1>0, <1>2, <2>2 DEF TableFits
  <2>4. DOMAIN t \subseteq 1 .. n
    BY <1>0, <1>2 DEF TableFits
  <2> QED
    BY <2>1, <2>3, <2>4 DEF TableFits
<1>6. Same(s, t)
  BY <1>2, <1>3 DEF Same
<1> QED
  BY <1>0, <1>3, <1>5, <1>6, SameRequests DEF State

(* A token is used up by the form that is accepted for it.                    *)
AcceptedOn(tok, a) ==
    [pages EXCEPT ![tok].acceptedFrom = Append(pages[tok].acceptedFrom, a)]

LEMMA AcceptKeeps ==
    ASSUME NEW s, NEW n, State(s, n, pages, request), NEW c \in DOMAIN s, NEW tok,
           s[c].token = tok, tok # None,
           NEW t, t = RecordCredential(Consume(s, c), c),
           NEW pg, pg = AcceptedOn(tok, s[c].ip)
    PROVE  State(t, n, pg, request) /\ Same(s, t)
<1>0. n \in Nat /\ PagesFit(pages) /\ TableFits(s, n, pages) /\ RequestsFit(s, n, request)
  BY DEF State
<1>1. SessionFits(s[c], pages)
  BY <1>0 DEF TableFits
<1>2. /\ tok \in 1 .. Len(pages) /\ s[c].ip \in Addresses /\ pages[tok].to = s[c].ip
      /\ pages[tok].acceptedFrom = << >> /\ s[c].seen
  BY <1>0, <1>1 DEF SessionFits, None
<1>3. pages \in Seq(Page) /\ Len(pages) \in Nat /\ pages[tok] \in Page
  BY <1>0, <1>2 DEF PagesFit
<1> DEFINE new == [pages[tok] EXCEPT !.acceptedFrom = Append(pages[tok].acceptedFrom, s[c].ip)]
<1>4. /\ pg = [pages EXCEPT ![tok] = new]
      /\ new.acceptedFrom = <<s[c].ip>> /\ new.to = s[c].ip /\ new \in Page
  <2>1. pg = [pages EXCEPT ![tok] = new]
    BY DEF AcceptedOn
  <2>2. Append(pages[tok].acceptedFrom, s[c].ip) = <<s[c].ip>>
    BY <1>2
  <2>3. new.acceptedFrom = <<s[c].ip>> /\ new.to = s[c].ip
    BY <1>2, <1>3, <2>2 DEF Page
  <2>4. new \in Page
    <3>1. <<s[c].ip>> \in Seq(Addresses)
      BY <1>2
    <3>2. new = [pages[tok] EXCEPT !.acceptedFrom = <<s[c].ip>>]
      BY <2>2
    <3> QED
      BY <1>3, <3>1, <3>2 DEF Page
  <2> QED
    BY <2>1, <2>3, <2>4
<1> HIDE DEF new
<1>5. /\ pg \in Seq(Page) /\ Len(pg) = Len(pages) /\ pg[tok] = new
      /\ \A k \in 1 .. Len(pages) : k # tok => pg[k] = pages[k]
  BY <1>2, <1>3, <1>4
<1>6. PagesFit(pg)
  <2>1. ASSUME NEW k \in 1 .. Len(pg)
        PROVE  /\ Len(pg[k].acceptedFrom) <= 1
               /\ \A j \in 1 .. Len(pg[k].acceptedFrom) : pg[k].acceptedFrom[j] = pg[k].to
    <3>1. CASE k = tok
      <4>1. pg[k].acceptedFrom = <<s[c].ip>> /\ pg[k].to = s[c].ip
        BY <1>4, <1>5, <3>1
      <4>2. Len(<<s[c].ip>>) = 1 /\ \A j \in 1 .. 1 : <<s[c].ip>>[j] = s[c].ip
        OBVIOUS
      <4> QED
        BY <4>1, <4>2
    <3>2. CASE k # tok
      BY <1>0, <1>5, <3>2 DEF PagesFit
    <3> QED
      BY <3>1, <3>2
  <2> QED
    BY <1>5, <2>1 DEF PagesFit
<1>7. /\ DOMAIN t = DOMAIN s /\ \A i \in DOMAIN s \ {c} : t[i] = s[i]
      /\ DOMAIN t[c] = DOMAIN s[c] /\ t[c].ip = s[c].ip /\ t[c].seen = s[c].seen
      /\ t[c].token = None /\ t[c].greetings = s[c].greetings
      /\ t[c].credentials \in {s[c].credentials, s[c].credentials + 1}
  BY <1>1 DEF Consume, RecordCredential, SessionFits
<1>8. SessionFits(t[c], pg)
  BY <1>1, <1>2, <1>5, <1>7 DEF SessionFits, None
<1>9. ASSUME NEW i \in DOMAIN s \ {c} PROVE SessionFits(t[i], pg)
  <2>1. SessionFits(s[i], pages) /\ s[i].token # tok
    BY <1>0, <1>9 DEF TableFits
  <2>2. s[i].token # None => pg[s[i].token] = pages[s[i].token]
    BY <1>5, <2>1 DEF SessionFits, None
  <2>3. t[i] = s[i]
    BY <1>7
  <2> QED
    BY <1>5, <2>1, <2>2, <2>3 DEF SessionFits
<1>10. TableFits(t, n, pg)
  <2>1. \A i \in DOMAIN t : SessionFits(t[i], pg)
    BY <1>7, <1>8, <1>9
  <2>2. \A i, j \in DOMAIN s : s[i].token # None /\ s[i].token = s[j].token => i = j
    BY <1>0 DEF TableFits
  <2>3. \A i, j \in DOMAIN t : t[i].token # None /\ t[i].token = t[j].token => i = j
    BY <1>7, <2>2
  <2>4. DOMAIN t \subseteq 1 .. n
    BY <1>0, <1>7 DEF TableFits
  <2> QED
    BY <2>1, <2>3, <2>4 DEF TableFits
<1>11. Same(s, t)
  BY <1>7 DEF Same
<1> QED
  BY <1>0, <1>6, <1>10, <1>11, SameRequests DEF State

-----------------------------------------------------------------------------
(* Every step.                                                                *)
LEMMA InitInv == Init => HttpInv
<1> SUFFICES ASSUME Init PROVE HttpInv
  OBVIOUS
<1>1. PagesFit(pages)
  BY DEF Init, PagesFit
<1>2. TableFits(live, drawn, pages)
  BY DEF Init, TableFits
<1>3. RequestsFit(live, drawn, request)
  BY DEF Init, RequestsFit, RequestFits, Idle, Active
<1> QED
  BY <1>1, <1>2, <1>3 DEF Init, HttpInv, State

LEMMA LookupsFit ==
    ASSUME NEW A, NEW C, NEW l \in Lookups(A, C)
    PROVE  l.from \in A /\ l.cookie \in C /\ l.idle \subseteq DOMAIN live
BY DEF Lookups, Resting

LEMMA ArriveKeeps ==
    ASSUME HttpInv, NEW r \in Requests, NEW l \in Lookups(Addresses, Cookies), NEW kind, NEW token,
           Arrive(r, l, kind, token)
    PROVE  HttpInv'
<1>1. /\ State(Sessions(l), drawn', pages, request) /\ l.from \in Addresses
      /\ Chosen(l) \in 0 .. drawn'
      /\ ~ Refuses(l) => Chosen(l) \in DOMAIN Sessions(l)
      /\ Chosen(l) \in DOMAIN Sessions(l) => Sessions(l)[Chosen(l)].ip = l.from
  BY LookupsFit, LookupKeeps DEF Arrive
<1>2. live' = Sessions(l) /\ pages' = pages
  BY DEF Arrive
<1>3. CASE Refuses(l) /\ UNCHANGED request
  BY <1>1, <1>2, <1>3 DEF HttpInv
<1>4. CASE ~ Refuses(l) /\ ~ UNCHANGED request
  <2> DEFINE new == [at |-> "arrived", from |-> l.from, kind |-> kind,
                     cookie |-> IF kind = "other" THEN None ELSE l.cookie,
                     token |-> token, outer |-> Chosen(l)]
  <2>1. request' = [request EXCEPT ![r] = new]
    BY <1>4 DEF Arrive
  <2>2. new.at = "arrived" /\ new.from = l.from /\ new.outer = Chosen(l) /\ Names(new) = {Chosen(l)}
    BY DEF Names
  <2>3. drawn' \in Nat /\ TableFits(Sessions(l), drawn', pages)
        /\ RequestsFit(Sessions(l), drawn', request)
    BY <1>1 DEF State
  <2>4. Chosen(l) \in 1 .. drawn'
    BY <1>1, <1>4, <2>3 DEF TableFits
  <2> HIDE DEF new
  <2>5. RequestFits(new, Sessions(l), drawn')
    BY <1>1, <1>4, <2>2, <2>4 DEF RequestFits, Active
  <2>6. RequestsFit(Sessions(l), drawn', request')
    BY <1>1, <1>4, <2>1, <2>2, <2>3, <2>5, NewRequest DEF TableFits
  <2> QED
    BY <1>1, <1>2, <2>6 DEF HttpInv, State
<1>5. CASE ~ Refuses(l) /\ UNCHANGED request
  BY <1>1, <1>2, <1>5 DEF HttpInv
<1> QED
  BY <1>3, <1>4, <1>5 DEF Arrive

(* The routes, in the table that the second lookup leaves.                    *)
LEMMA RouteKeeps ==
    ASSUME HttpInv, NEW r \in Requests, request[r].at = "arrived", Route(r)
    PROVE  HttpInv'
<1>0. RequestFits(request[r], live, drawn) /\ Active(request[r])
  BY DEF HttpInv, State, RequestsFit, Active
<1>1. PICK l \in Lookups({request[r].from}, {request[r].cookie}) :
          ShowPage(r, l) \/ Greet(r, l) \/ RefuseForm(r, l) \/ AcceptForm(r, l) \/ Probe(r, l)
  BY DEF Route
<1> DEFINE s == Sessions(l)
           c == Chosen(l)
<1>2. l.from = request[r].from /\ l.from \in Addresses /\ GetOrCreate(l) /\ l.idle \subseteq DOMAIN live
  <2>1. GetOrCreate(l)
    BY <1>1 DEF ShowPage, Greet, RefuseForm, AcceptForm, Probe
  <2>2. l.from = request[r].from /\ l.idle \subseteq DOMAIN live
    BY <1>1, LookupsFit
  <2> QED
    BY <1>0, <2>1, <2>2 DEF RequestFits
<1>3. /\ State(s, drawn', pages, request) /\ c \in 0 .. drawn'
      /\ c # None => c \in DOMAIN s
      /\ c \in DOMAIN s => s[c].ip = request[r].from
  BY <1>2, LookupKeeps
<1> HIDE DEF s, c
<1>4. CASE ShowPage(r, l)
  <2>1. Render(r, c, s) /\ ~ FirstVisit(s, c)
    BY <1>4 DEF ShowPage, s, c
  <2>2. c \in DOMAIN s => s[c].seen
    BY <2>1 DEF FirstVisit
  <2> QED
    BY <1>0, <1>3, <2>1, <2>2, RenderKeeps DEF HttpInv
<1>5. CASE Greet(r, l)
  <2>1. c \in DOMAIN s /\ ~ s[c].seen /\ live' = [MarkSeen(s, c) EXCEPT ![c].greetings = @ + 1]
        /\ Emit(r, c, "greeting") /\ pages' = pages
    BY <1>5 DEF Greet, FirstVisit, s, c
  <2>2. State(live', drawn', pages, request) /\ Same(s, live') /\ live'[c].seen
    BY <1>3, <2>1, GreetKeeps
  <2>3. c \in DOMAIN live' /\ live'[c].ip = request[r].from
    BY <1>3, <2>1, <2>2 DEF Same
  <2>4. State(live', drawn', pages, request')
    BY <1>0, <1>3, <2>1, <2>2, <2>3, EmitKeeps
  <2> QED
    BY <2>1, <2>4 DEF HttpInv
<1>6. CASE RefuseForm(r, l)
  <2>1. Respond(r, c, s) /\ pages' = pages
    BY <1>6 DEF RefuseForm, s, c
  <2> QED
    BY <1>3, <2>1, RespondKeeps DEF HttpInv
<1>7. CASE AcceptForm(r, l)
  <2> DEFINE tok == request[r].token
  <2>1. c \in DOMAIN s /\ tok # None /\ s[c].token = tok /\ live' = RecordCredential(Consume(s, c), c)
        /\ pages' = [pages EXCEPT ![tok].acceptedFrom = Append(@, request[r].from)]
        /\ Emit(r, c, "emitting")
    BY <1>7 DEF AcceptForm, Validates, s, c
  <2>2. pages' = AcceptedOn(tok, s[c].ip)
    BY <1>3, <2>1 DEF AcceptedOn
  <2> HIDE DEF tok
  <2>3. State(live', drawn', pages', request) /\ Same(s, live')
    BY <1>3, <2>1, <2>2, AcceptKeeps
  <2>4. c \in DOMAIN live' /\ live'[c].ip = request[r].from
    BY <1>3, <2>1, <2>3 DEF Same
  <2>5. State(live', drawn', pages', request')
    BY <1>0, <1>3, <2>1, <2>3, <2>4, EmitKeeps
  <2> QED
    BY <2>5 DEF HttpInv
<1>8. CASE Probe(r, l)
  <2>1. live' = s /\ Emit(r, c, "emitting") /\ pages' = pages
    BY <1>8 DEF Probe, s, c
  <2>2. State(s, drawn', pages, request')
    BY <1>0, <1>3, <2>1, EmitKeeps
  <2> QED
    BY <2>1, <2>2 DEF HttpInv
<1> QED
  BY <1>1, <1>4, <1>5, <1>6, <1>7, <1>8

LEMMA StepKeeps == HttpInv /\ [Next]_vars => HttpInv'
<1> SUFFICES ASSUME HttpInv, [Next]_vars PROVE HttpInv'
  OBVIOUS
<1>1. ASSUME NEW r \in Requests, NEW l \in Lookups(Addresses, Cookies), NEW kind \in Kinds,
             NEW t \in Tokens(kind), Arrive(r, l, kind, t)
      PROVE  HttpInv'
  BY <1>1, ArriveKeeps
<1>2. ASSUME NEW r \in Requests, request[r].at = "arrived", Route(r) PROVE HttpInv'
  BY <1>2, RouteKeeps
<1>3. ASSUME NEW r \in Requests, ShowFirstPage(r) PROVE HttpInv'
  <2>1. RequestFits(request[r], live, drawn) /\ request[r].at = "greeting"
    BY <1>3 DEF HttpInv, State, RequestsFit, ShowFirstPage
  <2>2. Active(request[r]) /\ request[r].inner \in Names(request[r])
    BY <2>1 DEF Active, Names
  <2>3. request[r].inner \in DOMAIN live =>
            live[request[r].inner].ip = request[r].from /\ live[request[r].inner].seen
    BY <2>1, <2>2 DEF RequestFits
  <2>4. Render(r, request[r].inner, live) /\ drawn' = drawn
    BY <1>3 DEF ShowFirstPage
  <2> QED
    BY <2>2, <2>3, <2>4, RenderKeeps DEF HttpInv
<1>4. ASSUME NEW r \in Requests, Emitted(r) PROVE HttpInv'
  BY <1>4, RespondKeeps DEF HttpInv, Emitted
<1>5. ASSUME NEW r \in Requests, Other(r) PROVE HttpInv'
  BY <1>5, RespondKeeps DEF HttpInv, Other
<1>6. CASE Restart
  <2>1. TableFits(live', drawn', pages')
    BY <1>6 DEF Restart, TableFits
  <2>2. RequestsFit(live', drawn', request')
    BY <1>6 DEF Restart, RequestsFit, RequestFits, Idle, Active
  <2> QED
    BY <1>6, <2>1, <2>2 DEF Restart, HttpInv, State
<1>7. CASE UNCHANGED vars
  BY <1>7 DEF HttpInv, vars
<1> QED
  BY <1>1, <1>2, <1>3, <1>4, <1>5, <1>6, <1>7 DEF Next

-----------------------------------------------------------------------------
(* The counters.  A table s of sessions, the counts of its addresses and the  *)
(* global count, after n identifiers.                                         *)
Of(s, a) == {i \in DOMAIN s : s[i].ip = a}
Table(s, n) == n \in 0 .. MaxIds /\ DOMAIN s \subseteq 1 .. n /\ s \in [DOMAIN s -> Session]
Counted(s, per) ==
    /\ per \in [Addresses -> Nat]
    /\ \A a \in Addresses : per[a] = Count(s, a) /\ per[a] <= MaxPerAddress
    /\ Cardinality(DOMAIN s) <= MaxSessions
Covered(s, tot) == tot \in Nat /\ tot <= GlobalCap /\ Cardinality(Held(s)) <= tot
Fine(s, per, tot, n) == Table(s, n) /\ Counted(s, per) /\ Covered(s, tot)
RequestsTyped(rq) == rq \in [Requests -> {Idle} \cup Arrived \cup Waiting]
CountersInv ==
    /\ Fine(live, perAddress, total, drawn) /\ RequestsTyped(request)
    /\ Len(pages) <= MaxPages

LEMMA LimitsAreNaturals ==
    /\ MaxSessions \in Nat /\ MaxPerAddress \in Nat /\ SessionCap \in Nat /\ GlobalCap \in Nat
    /\ MaxIds \in Nat /\ MaxPages \in Nat
BY LimitsAssumption

LEMMA CountIsOf == \A s, a : Count(s, a) = Cardinality(Of(s, a))
BY DEF Count, Of

LEMMA Pairs ==
    ASSUME NEW A, NEW B, NEW p \in A \X B
    PROVE  /\ p[1] \in A /\ p[2] \in B
           /\ \A C : p[1] \in C => p \in C \X B
OBVIOUS

Nth == 1 .. SessionCap
LEMMA HeldBy ==
    ASSUME NEW s
    PROVE  /\ Held(s) \subseteq (DOMAIN s) \X Nth
           /\ \A p : p \in Held(s) <=>
                  /\ p \in (DOMAIN s) \X Nth /\ p[1] \in DOMAIN s
                  /\ p[2] \in Nth /\ p[2] <= s[p[1]].credentials
<1>1. Held(s) = {p \in (DOMAIN s) \X Nth : p[2] <= s[p[1]].credentials}
  BY DEF Held, Nth
<1> QED
  BY <1>1, Pairs

\* What another table holds of the same.
LEMMA HeldToo ==
    ASSUME NEW s, NEW t, NEW p \in Held(s), p[1] \in DOMAIN t,
           t[p[1]].credentials = s[p[1]].credentials
    PROVE  p \in Held(t)
<1>1. p \in (DOMAIN s) \X Nth /\ p[2] \in Nth /\ p[2] <= s[p[1]].credentials
  BY HeldBy
<1>2. p \in (DOMAIN t) \X Nth
  BY <1>1, Pairs
<1> QED
  BY <1>1, <1>2, HeldBy

LEMMA TableIsFinite ==
    ASSUME NEW s, NEW n, Table(s, n)
    PROVE  /\ IsFiniteSet(DOMAIN s) /\ Cardinality(DOMAIN s) \in Nat
           /\ \A a : IsFiniteSet(Of(s, a)) /\ Cardinality(Of(s, a)) \in Nat
           /\ IsFiniteSet(Held(s)) /\ Cardinality(Held(s)) \in Nat
<1>1. n \in Nat /\ SessionCap \in Nat
  BY LimitsAreNaturals DEF Table
<1>2. IsFiniteSet(1 .. n) /\ IsFiniteSet(Nth)
  BY <1>1, FS_Interval DEF Nth
<1>3. IsFiniteSet(DOMAIN s)
  BY <1>2, FS_Subset DEF Table
<1>4. ASSUME NEW a PROVE IsFiniteSet(Of(s, a))
  <2>1. Of(s, a) \in SUBSET (DOMAIN s)
    BY DEF Of
  <2> QED
    BY <1>3, <2>1, FS_Subset
<1>5. IsFiniteSet((DOMAIN s) \X Nth)
  BY <1>2, <1>3, FS_Product
<1>6. IsFiniteSet(Held(s))
  BY <1>5, HeldBy, FS_Subset
<1> QED
  BY <1>3, <1>4, <1>6, FS_CardinalityType

\* A table that keeps the sessions, their addresses and their credentials.
LEMMA FineStays ==
    ASSUME NEW s, NEW per, NEW tot, NEW n, Fine(s, per, tot, n),
           NEW t, DOMAIN t = DOMAIN s, t \in [DOMAIN s -> Session],
           \A i \in DOMAIN s : t[i].ip = s[i].ip /\ t[i].credentials = s[i].credentials
    PROVE  Fine(t, per, tot, n)
<1>1. \A a : Of(t, a) = Of(s, a)
  BY DEF Of
<1>2. Held(t) = Held(s)
  <2>1. ASSUME NEW p \in Held(t) PROVE p \in Held(s)
    BY HeldBy, HeldToo
  <2>2. ASSUME NEW p \in Held(s) PROVE p \in Held(t)
    BY HeldBy, HeldToo
  <2> QED
    BY <2>1, <2>2
<1>3. Table(t, n)
  BY DEF Fine, Table
<1>4. Counted(t, per)
  BY <1>1, CountIsOf DEF Fine, Counted
<1>5. Covered(t, tot)
  BY <1>2 DEF Fine, Covered
<1> QED
  BY <1>3, <1>4, <1>5 DEF Fine

-----------------------------------------------------------------------------
(* get_or_create_session counts what it evicts and what it opens.             *)
LEMMA KeptIsFine ==
    ASSUME CountersInv, NEW l, l.idle \subseteq DOMAIN live
    PROVE  /\ Fine(Kept(l), [a \in Addresses |-> CountedDown(l, a)], total, drawn)
           /\ DOMAIN Kept(l) = DOMAIN live \ l.idle
           /\ \A i \in DOMAIN Kept(l) : Kept(l)[i] = live[i]
<1> DEFINE k == Kept(l)
           gone == Restrict(live, l.idle)
           per == [a \in Addresses |-> CountedDown(l, a)]
<1>1. Table(live, drawn) /\ Counted(live, perAddress) /\ Covered(live, total)
  BY DEF CountersInv, Fine
<1>2. DOMAIN k = DOMAIN live \ l.idle /\ \A i \in DOMAIN k : k[i] = live[i]
  BY DEF Kept, Restrict
<1>3. DOMAIN gone = l.idle /\ \A i \in DOMAIN gone : gone[i] = live[i]
  BY DEF Restrict
<1>4. k \in [DOMAIN k -> Session]
  BY <1>1, <1>2 DEF Table, Kept, Restrict
<1>5. Table(k, drawn)
  BY <1>1, <1>2, <1>4 DEF Table
<1>6. ASSUME NEW a \in Addresses
      PROVE  per[a] = Count(k, a) /\ per[a] \in Nat /\ per[a] <= MaxPerAddress
  <2>1. Of(k, a) = Of(live, a) \ Of(gone, a) /\ Of(live, a) \cap Of(gone, a) = Of(gone, a)
    BY <1>2, <1>3 DEF Of
  <2>2. IsFiniteSet(Of(live, a)) /\ IsFiniteSet(Of(k, a)) /\ Cardinality(Of(k, a)) \in Nat
        /\ Cardinality(Of(live, a)) \in Nat
    BY <1>1, <1>5, TableIsFinite
  <2> HIDE DEF k, gone
  <2>3. /\ Cardinality(Of(k, a)) = Cardinality(Of(live, a)) - Cardinality(Of(gone, a))
        /\ IsFiniteSet(Of(gone, a))
    <3>1. Cardinality(Of(live, a) \ Of(gone, a))
              = Cardinality(Of(live, a)) - Cardinality(Of(live, a) \cap Of(gone, a))
      BY <2>2, FS_Difference
    <3>2. IsFiniteSet(Of(live, a) \cap Of(gone, a))
      BY <2>2, FS_Intersection
    <3> QED
      BY <2>1, <3>1, <3>2
  <2>4. Cardinality(Of(gone, a)) \in Nat
    BY <2>3, FS_CardinalityType
  <2>5. per[a] = perAddress[a] - Cardinality(Of(gone, a))
    BY CountIsOf DEF CountedDown, gone
  <2>6. perAddress[a] = Cardinality(Of(live, a)) /\ perAddress[a] <= MaxPerAddress
    BY <1>1, CountIsOf DEF Counted
  <2>7. Count(k, a) = Cardinality(Of(k, a)) /\ MaxPerAddress \in Nat
    BY CountIsOf, LimitsAreNaturals
  <2> HIDE DEF per
  <2> QED
    BY <2>2, <2>3, <2>4, <2>5, <2>6, <2>7
<1>7. per \in [Addresses -> Nat]
  BY <1>6
<1>8. IsFiniteSet(DOMAIN live) /\ IsFiniteSet(Held(live)) /\ Cardinality(Held(live)) \in Nat
      /\ Cardinality(DOMAIN live) \in Nat
  BY <1>1, TableIsFinite
<1>9. IsFiniteSet(DOMAIN k) /\ Cardinality(DOMAIN k) <= Cardinality(DOMAIN live)
      /\ Cardinality(DOMAIN k) \in Nat
  BY <1>2, <1>8, FS_Subset, FS_CardinalityType
<1>10. Held(k) \subseteq Held(live)
  <2> HIDE DEF k
  <2>1. ASSUME NEW p \in Held(k) PROVE p \in Held(live)
    BY <1>2, HeldBy, HeldToo
  <2> QED
    BY <2>1
<1>11. Cardinality(Held(k)) <= Cardinality(Held(live)) /\ Cardinality(Held(k)) \in Nat
  BY <1>8, <1>10, FS_Subset, FS_CardinalityType
<1> HIDE DEF k, per
<1>12. Counted(k, per)
  <2>1. Cardinality(DOMAIN live) <= MaxSessions /\ MaxSessions \in Nat
    BY <1>1, LimitsAreNaturals DEF Counted
  <2>2. Cardinality(DOMAIN k) <= MaxSessions
    BY <1>8, <1>9, <2>1
  <2> QED
    BY <1>6, <1>7, <2>2 DEF Counted
<1>13. Covered(k, total)
  <2>1. Cardinality(Held(live)) <= total /\ total \in Nat /\ total <= GlobalCap
    BY <1>1 DEF Covered
  <2>2. Cardinality(Held(k)) <= total
    BY <1>8, <1>11, <2>1
  <2> QED
    BY <2>1, <2>2 DEF Covered
<1> QED
  BY <1>2, <1>5, <1>12, <1>13 DEF Fine, k, per

LEMMA OpenedIsFine ==
    ASSUME NEW k, NEW per, NEW n, Fine(k, per, total, n), NEW a \in Addresses, n + 1 <= MaxIds,
           Cardinality(DOMAIN k) < MaxSessions, per[a] < MaxPerAddress,
           NEW s, DOMAIN s = DOMAIN k \cup {n + 1}, s \in [DOMAIN s -> Session],
           s[n + 1] = NewSession(a), \A i \in DOMAIN k : s[i] = k[i],
           NEW after, after = [b \in Addresses |-> per[b] + (IF b = a THEN 1 ELSE 0)]
    PROVE  Fine(s, after, total, n + 1)
<1>1. Table(k, n) /\ Counted(k, per) /\ Covered(k, total) /\ n \in Nat /\ MaxIds \in Nat
  BY LimitsAreNaturals DEF Fine, Table
<1>2. n + 1 \notin DOMAIN k
  BY <1>1 DEF Table
<1>3. Table(s, n + 1)
  BY <1>1 DEF Table
<1>4. IsFiniteSet(DOMAIN k) /\ Cardinality(DOMAIN k) \in Nat
  BY <1>1, TableIsFinite
<1>5. Cardinality(DOMAIN s) <= MaxSessions
  <2>1. Cardinality(DOMAIN s) = Cardinality(DOMAIN k) + 1
    BY <1>2, <1>4, FS_AddElement
  <2> QED
    BY <1>4, <2>1, LimitsAreNaturals
<1>6. ASSUME NEW b \in Addresses
      PROVE  after[b] = Count(s, b) /\ after[b] \in Nat /\ after[b] <= MaxPerAddress
  <2>1. /\ IsFiniteSet(Of(k, b)) /\ Cardinality(Of(k, b)) \in Nat
        /\ per[b] = Cardinality(Of(k, b)) /\ per[b] <= MaxPerAddress /\ MaxPerAddress \in Nat
        /\ Count(s, b) = Cardinality(Of(s, b))
    BY <1>1, TableIsFinite, CountIsOf, LimitsAreNaturals DEF Counted
  <2>2. CASE b = a
    <3>1. Of(s, b) = Of(k, b) \cup {n + 1} /\ n + 1 \notin Of(k, b)
      BY <1>2, <2>2 DEF Of, NewSession
    <3>2. Cardinality(Of(s, b)) = Cardinality(Of(k, b)) + 1
      BY <2>1, <3>1, FS_AddElement
    <3> QED
      BY <2>1, <2>2, <3>2
  <2>3. CASE b # a
    <3>1. Of(s, b) = Of(k, b)
      BY <1>2, <2>3 DEF Of, NewSession
    <3> QED
      BY <2>1, <2>3, <3>1
  <2> QED
    BY <2>2, <2>3
<1>7. after \in [Addresses -> Nat]
  BY <1>6
<1>8. Held(s) = Held(k)
  <2>1. ASSUME NEW p \in Held(s) PROVE p \in Held(k)
    <3>1. p[1] \in DOMAIN s /\ p[2] \in Nth /\ p[2] <= s[p[1]].credentials
      BY HeldBy
    <3>2. s[n + 1].credentials = 0 /\ \A h \in Nth : ~ (h <= 0)
      BY LimitsAreNaturals DEF NewSession, Nth
    <3>3. p[1] # n + 1
      BY <3>1, <3>2
    <3>4. p[1] \in DOMAIN k /\ s[p[1]] = k[p[1]]
      BY <3>1, <3>3
    <3> QED
      BY <3>4, HeldToo
  <2>2. ASSUME NEW p \in Held(k) PROVE p \in Held(s)
    BY HeldBy, HeldToo
  <2> QED
    BY <2>1, <2>2
<1>9. Counted(s, after)
  BY <1>5, <1>6, <1>7 DEF Counted
<1>10. Covered(s, total)
  BY <1>1, <1>8 DEF Covered
<1> QED
  BY <1>3, <1>9, <1>10 DEF Fine

LEMMA LookupIsFine ==
    ASSUME CountersInv, NEW l, l.from \in Addresses, l.idle \subseteq DOMAIN live, GetOrCreate(l)
    PROVE  Fine(Sessions(l), perAddress', total, drawn')
<1> DEFINE k == Kept(l)
           per == [a \in Addresses |-> CountedDown(l, a)]
<1>1. /\ Fine(k, per, total, drawn) /\ DOMAIN k = DOMAIN live \ l.idle
      /\ \A i \in DOMAIN k : k[i] = live[i]
  BY KeptIsFine
<1>2. /\ drawn' = IF Opens(l) THEN drawn + 1 ELSE drawn
      /\ drawn' <= MaxIds
      /\ perAddress' = [a \in Addresses |->
             CountedDown(l, a) + (IF Opens(l) /\ a = l.from THEN 1 ELSE 0)]
  BY DEF GetOrCreate, Counts
<1>3. CASE Opens(l)
  <2>1. ~ (Cardinality(DOMAIN k) >= MaxSessions) /\ ~ (per[l.from] >= MaxPerAddress)
    BY <1>3 DEF Opens, Full
  <2>2. /\ Cardinality(DOMAIN k) \in Nat /\ per[l.from] \in Nat
        /\ MaxSessions \in Nat /\ MaxPerAddress \in Nat
    BY <1>1, TableIsFinite, LimitsAreNaturals DEF Fine, Counted
  <2>3. perAddress' = [a \in Addresses |-> per[a] + (IF a = l.from THEN 1 ELSE 0)]
    BY <1>2, <1>3
  <2> DEFINE s == Sessions(l)
  <2>4. /\ s = [i \in DOMAIN k \cup {drawn + 1} |->
                   IF i = drawn + 1 THEN NewSession(l.from) ELSE live[i]]
    BY <1>3 DEF Sessions
  <2>5. drawn + 1 \notin DOMAIN k /\ drawn \in Nat
    BY <1>1, LimitsAreNaturals DEF Fine, Table
  <2>6. NewSession(l.from) \in Session
    BY LimitsAreNaturals DEF NewSession, Session, None
  <2>7. \A i \in DOMAIN k : live[i] \in Session
    BY <1>1 DEF Fine, Table
  <2> HIDE DEF k, per, s
  <2>8. /\ DOMAIN s = DOMAIN k \cup {drawn + 1} /\ s[drawn + 1] = NewSession(l.from)
        /\ \A i \in DOMAIN k : s[i] = k[i]
    BY <1>1, <2>4, <2>5
  <2>9. s \in [DOMAIN s -> Session]
    BY <2>4, <2>6, <2>7
  <2>10. Cardinality(DOMAIN k) < MaxSessions /\ per[l.from] < MaxPerAddress
    BY <2>1, <2>2
  <2>11. Fine(s, perAddress', total, drawn + 1)
    BY <1>1, <1>2, <1>3, <2>3, <2>8, <2>9, <2>10, OpenedIsFine
  <2> QED
    BY <1>2, <1>3, <2>11 DEF s
<1>4. CASE ~ Opens(l)
  <2>1. Sessions(l) = k /\ drawn' = drawn
    BY <1>2, <1>4 DEF Sessions
  <2>2. \A a \in Addresses : CountedDown(l, a) \in Nat
    BY <1>1 DEF Fine, Counted
  <2>3. perAddress' = per
    BY <1>2, <1>4, <2>2
  <2> QED
    BY <1>1, <2>1, <2>3
<1> QED
  BY <1>3, <1>4

-----------------------------------------------------------------------------
(* The other methods and the requests leave the counters fine.                *)
LEMMA RespondIsFine ==
    ASSUME NEW s, NEW per, NEW tot, NEW n, Fine(s, per, tot, n), RequestsTyped(request),
           NEW r \in Requests, NEW inner, Respond(r, inner, s)
    PROVE  Fine(live', per, tot, n) /\ RequestsTyped(request')
<1>1. /\ live' = [i \in DOMAIN s |-> [s[i] EXCEPT !.known = s[i].known \/ i \in {request[r].outer, inner}]]
      /\ request' = [request EXCEPT ![r] = Idle]
  BY DEF Respond
<1>2. ASSUME NEW i \in DOMAIN s
      PROVE  live'[i] \in Session /\ live'[i].ip = s[i].ip /\ live'[i].credentials = s[i].credentials
  <2>1. s[i] \in Session
    BY DEF Fine, Table
  <2> DEFINE known == s[i].known \/ i \in {request[r].outer, inner}
  <2>2. known \in BOOLEAN
    BY <2>1 DEF Session
  <2>3. live'[i] = [s[i] EXCEPT !.known = known]
    BY <1>1
  <2> HIDE DEF known
  <2> QED
    BY <2>1, <2>2, <2>3 DEF Session
<1>3. Fine(live', per, tot, n)
  <2>1. DOMAIN live' = DOMAIN s /\ live' \in [DOMAIN s -> Session]
    BY <1>1, <1>2
  <2> QED
    BY <1>2, <2>1, FineStays
<1>4. RequestsTyped(request')
  BY <1>1 DEF RequestsTyped
<1> QED
  BY <1>3, <1>4

LEMMA RenderIsFine ==
    ASSUME NEW s, NEW per, NEW n, Fine(s, per, total, n), RequestsTyped(request),
           Len(pages) \in Nat, NEW r \in Requests, NEW inner, Render(r, inner, s)
    PROVE  Fine(live', per, total', n) /\ RequestsTyped(request') /\ Len(pages) + 1 <= MaxPages
<1> DEFINE x == Len(pages) + 1
           t == StoreToken(s, inner, x)
<1>1. Len(pages) < MaxPages /\ Respond(r, inner, t) /\ total' = total /\ MaxPages \in Nat
  BY LimitsAreNaturals DEF Render
<1>2. x \in 0 .. MaxPages /\ x <= MaxPages
  BY <1>1
<1> HIDE DEF x
<1>3. DOMAIN t = DOMAIN s /\ s \in [DOMAIN s -> Session]
  BY DEF StoreToken, Fine, Table
<1>4. ASSUME NEW i \in DOMAIN s
      PROVE  t[i] \in Session /\ t[i].ip = s[i].ip /\ t[i].credentials = s[i].credentials
  <2>1. s[i] \in Session
    BY <1>3
  <2>2. t[i] = s[i] \/ t[i] = [s[i] EXCEPT !.token = x]
    BY <1>3 DEF StoreToken
  <2> HIDE DEF t
  <2> QED
    BY <1>2, <2>1, <2>2 DEF Session
<1>5. t \in [DOMAIN s -> Session]
  <2>1. t = [i \in DOMAIN s |-> t[i]]
    BY <1>3 DEF StoreToken
  <2> HIDE DEF t
  <2> QED
    BY <1>4, <2>1
<1> HIDE DEF t
<1>6. Fine(t, per, total, n)
  BY <1>3, <1>4, <1>5, FineStays
<1> QED
  BY <1>1, <1>2, <1>6, RespondIsFine DEF x

LEMMA EmitIsTyped ==
    ASSUME RequestsTyped(request), NEW r \in Requests, Active(request[r]),
           NEW inner \in Ids \cup {None}, NEW place \in {"greeting", "emitting"}, Emit(r, inner, place)
    PROVE  RequestsTyped(request')
<1> DEFINE new == [at |-> place, from |-> request[r].from, outer |-> request[r].outer, inner |-> inner]
<1>1. request[r] \in Arrived \cup Waiting
  BY DEF RequestsTyped, Active, Idle
<1>2. request[r].from \in Addresses /\ request[r].outer \in Ids
  BY <1>1 DEF Arrived, Waiting
<1>3. new \in Waiting
  BY <1>2 DEF Waiting
<1>4. request' = [request EXCEPT ![r] = new]
  BY DEF Emit
<1> HIDE DEF new
<1> QED
  BY <1>3, <1>4 DEF RequestsTyped

\* A credential that is kept is counted.
LEMMA RecordIsFine ==
    ASSUME NEW s, NEW per, NEW n, Fine(s, per, total, n), NEW c \in DOMAIN s,
           NEW u, u = Consume(s, c), NEW t, t = RecordCredential(u, c),
           NEW tot, tot = IF Records(u, c) THEN total + 1 ELSE total
    PROVE  Fine(t, per, tot, n)
<1>0. s \in [DOMAIN s -> Session] /\ s[c] \in Session /\ total \in Nat /\ total <= GlobalCap
  BY DEF Fine, Table, Covered
<1>1. /\ DOMAIN u = DOMAIN s /\ u = [s EXCEPT ![c] = [s[c] EXCEPT !.token = None]]
  BY DEF Consume
<1>2. ASSUME NEW i \in DOMAIN s
      PROVE  u[i] \in Session /\ u[i].ip = s[i].ip /\ u[i].credentials = s[i].credentials
  <2>1. s[i] \in Session /\ None \in 0 .. MaxPages
    BY <1>0, LimitsAreNaturals DEF None
  <2>2. u[i] = s[i] \/ u[i] = [s[i] EXCEPT !.token = None]
    BY <1>0, <1>1
  <2> QED
    BY <2>1, <2>2 DEF Session
<1>3. u \in [DOMAIN s -> Session]
  <2>1. [s[c] EXCEPT !.token = None] \in Session
    BY <1>0, <1>1, <1>2
  <2> QED
    BY <1>0, <1>1, <2>1
<1>4. Fine(u, per, total, n)
  BY <1>1, <1>2, <1>3, FineStays
<1>5. CASE ~ Records(u, c)
  <2>1. t = u /\ tot = total
    BY <1>5 DEF RecordCredential
  <2> QED
    BY <1>4, <2>1
<1>6. CASE Records(u, c)
  <2> DEFINE k == u[c].credentials + 1
             x == [u[c] EXCEPT !.credentials = k]
  <2>1. /\ u[c] \in Session /\ u[c].credentials \in Nat /\ u[c].credentials < SessionCap
        /\ total < GlobalCap /\ SessionCap \in Nat /\ GlobalCap \in Nat
    BY <1>2, <1>6, LimitsAreNaturals DEF Records, Session
  <2>2. k \in 0 .. SessionCap
    BY <2>1
  <2>3. t = [u EXCEPT ![c] = x] /\ tot = total + 1
    BY <1>6 DEF RecordCredential
  <2> HIDE DEF k
  <2>4. x \in Session /\ x.ip = u[c].ip /\ x.credentials = k
    BY <2>1, <2>2 DEF Session
  <2> HIDE DEF x
  <2>5. /\ DOMAIN t = DOMAIN s /\ t \in [DOMAIN s -> Session] /\ t[c] = x
        /\ \A i \in DOMAIN s : i # c => t[i] = u[i]
    BY <1>1, <1>3, <2>3, <2>4
  <2>6. \A a : Of(t, a) = Of(u, a)
    BY <1>1, <2>4, <2>5 DEF Of
  <2>7. Table(t, n) /\ Counted(t, per)
    BY <1>1, <1>4, <2>5, <2>6, CountIsOf DEF Fine, Table, Counted
  <2>8. Held(t) \subseteq Held(u) \cup {<<c, k>>}
    <3> SUFFICES ASSUME NEW p \in Held(t) PROVE p \in Held(u) \cup {<<c, k>>}
      OBVIOUS
    <3>1. p \in (DOMAIN t) \X Nth /\ p[1] \in DOMAIN t /\ p[2] \in Nth /\ p[2] <= t[p[1]].credentials
      BY HeldBy
    <3>2. CASE p[1] # c
      BY <1>1, <2>5, <3>1, <3>2, HeldToo
    <3>3. CASE p[1] = c
      <4>1. p[2] <= k /\ p[2] \in Nat
        BY <2>1, <2>4, <2>5, <3>1, <3>3 DEF Nth
      <4>2. CASE p[2] = k
        <5>1. p = <<p[1], p[2]>>
          BY <3>1
        <5> QED
          BY <3>3, <4>2, <5>1
      <4>3. CASE p[2] # k
        <5>1. p[2] <= u[c].credentials
          BY <2>1, <4>1, <4>3 DEF k
        <5>2. p \in (DOMAIN u) \X Nth /\ p[1] \in DOMAIN u
          BY <1>1, <2>5, <3>1
        <5> QED
          BY <3>1, <3>3, <5>1, <5>2, HeldBy
      <4> QED
        BY <4>2, <4>3
    <3> QED
      BY <3>2, <3>3
  <2>9. Covered(t, tot)
    <3>1. IsFiniteSet(Held(u)) /\ Cardinality(Held(u)) \in Nat /\ Cardinality(Held(u)) <= total
      BY <1>4, TableIsFinite DEF Fine, Covered
    <3>2. /\ IsFiniteSet(Held(u) \cup {<<c, k>>})
          /\ Cardinality(Held(u) \cup {<<c, k>>}) <= Cardinality(Held(u)) + 1
          /\ Cardinality(Held(u) \cup {<<c, k>>}) \in Nat
      <4>1. /\ IsFiniteSet(Held(u) \cup {<<c, k>>})
            /\ \/ Cardinality(Held(u) \cup {<<c, k>>}) = Cardinality(Held(u))
               \/ Cardinality(Held(u) \cup {<<c, k>>}) = Cardinality(Held(u)) + 1
        BY <3>1, FS_AddElement, Zenon
      <4> QED
        BY <3>1, <4>1
    <3>3. Cardinality(Held(t)) <= Cardinality(Held(u) \cup {<<c, k>>}) /\ Cardinality(Held(t)) \in Nat
      BY <2>8, <3>2, FS_Subset, FS_CardinalityType
    <3>4. Cardinality(Held(t)) <= total + 1
      BY <1>0, <3>1, <3>2, <3>3
    <3> QED
      BY <1>0, <2>1, <2>3, <3>4 DEF Covered
  <2> QED
    BY <2>7, <2>9 DEF Fine
<1> QED
  BY <1>5, <1>6

-----------------------------------------------------------------------------
(* Every step leaves the counters fine.                                       *)
LEMMA EmptyIsFine ==
    ASSUME NEW n \in 0 .. MaxIds
    PROVE  Fine(<< >>, [a \in Addresses |-> 0], 0, n)
<1> DEFINE s == << >>
           per == [a \in Addresses |-> 0]
<1>1. DOMAIN s = {} /\ s \in [{} -> Session]
  OBVIOUS
<1>2. \A a : Of(s, a) = {}
  BY <1>1 DEF Of
<1> HIDE DEF s
<1>3. Held(s) = {}
  BY <1>1, HeldBy
<1>4. Table(s, n)
  BY <1>1 DEF Table
<1>5. \A a : Count(s, a) = 0
  BY <1>2, CountIsOf, FS_EmptySet
<1>6. Cardinality(DOMAIN s) = 0
  BY <1>1, FS_EmptySet
<1>7. Counted(s, per)
  BY <1>5, <1>6, LimitsAreNaturals DEF Counted
<1>8. Covered(s, 0)
  BY <1>3, FS_EmptySet, LimitsAreNaturals DEF Covered
<1> QED
  BY <1>4, <1>7, <1>8 DEF Fine, s

LEMMA InitCounters == Init => CountersInv
<1> SUFFICES ASSUME Init PROVE CountersInv
  OBVIOUS
<1>1. live = << >> /\ total = 0 /\ drawn = 0 /\ pages = << >>
      /\ perAddress = [a \in Addresses |-> 0] /\ request = [r \in Requests |-> Idle]
  BY DEF Init
<1>2. Fine(live, perAddress, total, drawn)
  BY <1>1, EmptyIsFine, LimitsAreNaturals
<1>3. RequestsTyped(request) /\ Len(pages) <= MaxPages
  BY <1>1, LimitsAreNaturals DEF RequestsTyped
<1> QED
  BY <1>2, <1>3 DEF CountersInv

LEMMA PagesAreCounted == HttpInv => pages \in Seq(Page) /\ Len(pages) \in Nat
BY DEF HttpInv, State, PagesFit

LEMMA ArriveIsFine ==
    ASSUME HttpInv, CountersInv, NEW r \in Requests, NEW l \in Lookups(Addresses, Cookies),
           NEW kind \in Kinds, NEW token \in Tokens(kind), Arrive(r, l, kind, token)
    PROVE  CountersInv'
<1>1. /\ l.from \in Addresses /\ l.cookie \in Cookies /\ l.idle \subseteq DOMAIN live
      /\ GetOrCreate(l) /\ live' = Sessions(l) /\ UNCHANGED <<total, pages>>
  BY LookupsFit DEF Arrive
<1>2. Fine(live', perAddress', total', drawn')
  BY <1>1, LookupIsFine
<1>3. RequestsTyped(request')
  <2>1. CASE UNCHANGED request
    BY <2>1 DEF CountersInv
  <2>2. CASE ~ UNCHANGED request
    <3> DEFINE cookie == IF kind = "other" THEN None ELSE l.cookie
               new == [at |-> "arrived", from |-> l.from, kind |-> kind,
                       cookie |-> cookie, token |-> token, outer |-> Chosen(l)]
    <3>1. ~ Refuses(l) /\ request' = [request EXCEPT ![r] = new]
      BY <2>2 DEF Arrive
    <3>2. Table(live, drawn) /\ Table(live', drawn')
      BY <1>2 DEF CountersInv, Fine
    <3>3. DOMAIN live \subseteq Ids /\ DOMAIN live' \subseteq Ids /\ MaxPages \in Nat
      BY <3>2, LimitsAreNaturals DEF Table, Ids
    <3>4. cookie \in Ids \cup {None}
      BY <1>1, <3>3 DEF Cookies
    <3>5. token \in 0 .. MaxPages
      <4>1. \A i \in DOMAIN live : live[i].token \in 0 .. MaxPages
        BY <3>2 DEF Table, Session
      <4>2. token = None \/ token \in {live[i].token : i \in DOMAIN live}
        BY DEF Tokens
      <4>3. None \in 0 .. MaxPages
        BY <3>3 DEF None
      <4> QED
        BY <4>1, <4>2, <4>3
    <3>6. Chosen(l) \in Ids
      BY <1>1, <3>1, <3>3, LookupKeeps
    <3> HIDE DEF cookie
    <3>7. new \in Arrived
      BY <1>1, <3>4, <3>5, <3>6 DEF Arrived
    <3> HIDE DEF new
    <3> QED
      BY <3>1, <3>7 DEF CountersInv, RequestsTyped
  <2> QED
    BY <2>1, <2>2
<1> QED
  BY <1>1, <1>2, <1>3 DEF CountersInv

LEMMA RouteIsFine ==
    ASSUME HttpInv, CountersInv, NEW r \in Requests, request[r].at = "arrived", Route(r)
    PROVE  CountersInv'
<1>0. RequestFits(request[r], live, drawn) /\ Active(request[r]) /\ RequestsTyped(request)
      /\ Len(pages) \in Nat /\ Len(pages) <= MaxPages
  BY PagesAreCounted DEF HttpInv, State, RequestsFit, Active, CountersInv
<1>1. PICK l \in Lookups({request[r].from}, {request[r].cookie}) :
          ShowPage(r, l) \/ Greet(r, l) \/ RefuseForm(r, l) \/ AcceptForm(r, l) \/ Probe(r, l)
  BY DEF Route
<1> DEFINE s == Sessions(l)
           c == Chosen(l)
<1>2. l.from \in Addresses /\ GetOrCreate(l) /\ l.idle \subseteq DOMAIN live
  <2>1. GetOrCreate(l)
    BY <1>1 DEF ShowPage, Greet, RefuseForm, AcceptForm, Probe
  <2>2. l.from = request[r].from /\ l.idle \subseteq DOMAIN live
    BY <1>1, LookupsFit
  <2> QED
    BY <1>0, <2>1, <2>2 DEF RequestFits
<1>3. /\ State(s, drawn', pages, request) /\ c \in 0 .. drawn'
      /\ Fine(s, perAddress', total, drawn')
  BY <1>2, LookupKeeps, LookupIsFine
<1>4. c \in Ids \cup {None} /\ drawn' \in Nat
  BY <1>3, LimitsAreNaturals DEF Fine, Table, Ids, None
<1> HIDE DEF s, c
<1>5. CASE ShowPage(r, l)
  <2>1. Render(r, c, s)
    BY <1>5 DEF ShowPage, s, c
  <2>2. Len(pages') = Len(pages) + 1
    <3>1. pages' = Append(pages, [to |-> request[r].from, acceptedFrom |-> << >>])
          /\ [to |-> request[r].from, acceptedFrom |-> << >>] \in Page /\ pages \in Seq(Page)
      BY <1>0, <2>1, PagesAreCounted DEF Render, Page, RequestFits
    <3> QED
      BY <3>1, AppendProperties
  <2> QED
    BY <1>0, <1>3, <2>1, <2>2, RenderIsFine DEF CountersInv
<1>6. CASE Greet(r, l)
  <2>1. /\ c \in DOMAIN s /\ live' = [MarkSeen(s, c) EXCEPT ![c].greetings = @ + 1]
        /\ Emit(r, c, "greeting") /\ UNCHANGED <<total, pages>>
    BY <1>6 DEF Greet, FirstVisit, s, c
  <2>2. s \in [DOMAIN s -> Session] /\ s[c] \in Session
    BY <1>3, <2>1 DEF Fine, Table
  <2> DEFINE seen == [s[c] EXCEPT !.seen = TRUE]
             x == [seen EXCEPT !.greetings = seen.greetings + 1]
  <2>3. live' = [s EXCEPT ![c] = x]
    <3>1. MarkSeen(s, c) = [s EXCEPT ![c] = seen]
      BY <2>1 DEF MarkSeen
    <3> HIDE DEF seen
    <3>2. live' = [[s EXCEPT ![c] = seen] EXCEPT ![c].greetings = @ + 1]
      BY <2>1, <3>1
    <3> QED
      BY <2>1, <2>2, <3>2
  <2>4. seen \in Session /\ seen.ip = s[c].ip /\ seen.credentials = s[c].credentials
    BY <2>2 DEF Session
  <2>5. x \in Session /\ x.ip = s[c].ip /\ x.credentials = s[c].credentials
    <3> HIDE DEF seen
    <3>1. seen.greetings + 1 \in Nat
      BY <2>4 DEF Session
    <3> QED
      BY <2>4, <3>1 DEF Session
  <2> HIDE DEF x, seen
  <2>6. Fine(live', perAddress', total, drawn')
    <3>1. DOMAIN live' = DOMAIN s /\ live' \in [DOMAIN s -> Session]
      BY <2>2, <2>3, <2>5
    <3>2. \A i \in DOMAIN s : live'[i].ip = s[i].ip /\ live'[i].credentials = s[i].credentials
      BY <2>1, <2>2, <2>3, <2>5
    <3> QED
      BY <1>3, <3>1, <3>2, FineStays
  <2>7. RequestsTyped(request')
    BY <1>0, <1>4, <2>1, EmitIsTyped
  <2> QED
    BY <1>0, <2>1, <2>6, <2>7 DEF CountersInv
<1>7. CASE RefuseForm(r, l)
  <2>1. Respond(r, c, s) /\ UNCHANGED <<total, pages>>
    BY <1>7 DEF RefuseForm, s, c
  <2> QED
    BY <1>0, <1>3, <2>1, RespondIsFine DEF CountersInv
<1>8. CASE AcceptForm(r, l)
  <2> DEFINE u == Consume(s, c)
  <2>1. /\ c \in DOMAIN s /\ live' = RecordCredential(u, c)
        /\ total' = IF Records(u, c) THEN total + 1 ELSE total
        /\ pages' = [pages EXCEPT ![request[r].token].acceptedFrom = Append(@, request[r].from)]
        /\ Emit(r, c, "emitting")
    BY <1>8 DEF AcceptForm, Validates, s, c
  <2> HIDE DEF u
  <2>2. Fine(live', perAddress', total', drawn')
    BY <1>3, <2>1, RecordIsFine DEF u
  <2>3. RequestsTyped(request')
    BY <1>0, <1>4, <2>1, EmitIsTyped
  <2>4. Len(pages') = Len(pages)
    BY <2>1, PagesAreCounted
  <2> QED
    BY <1>0, <2>2, <2>3, <2>4 DEF CountersInv
<1>9. CASE Probe(r, l)
  <2>1. live' = s /\ Emit(r, c, "emitting") /\ UNCHANGED <<total, pages>>
    BY <1>9 DEF Probe, s, c
  <2>2. RequestsTyped(request')
    BY <1>0, <1>4, <2>1, EmitIsTyped
  <2> QED
    BY <1>0, <1>3, <2>1, <2>2 DEF CountersInv
<1> QED
  BY <1>1, <1>5, <1>6, <1>7, <1>8, <1>9

LEMMA StepIsFine == HttpInv /\ CountersInv /\ [Next]_vars => CountersInv'
<1> SUFFICES ASSUME HttpInv, CountersInv, [Next]_vars PROVE CountersInv'
  OBVIOUS
<1>0. Fine(live, perAddress, total, drawn) /\ RequestsTyped(request)
      /\ Len(pages) <= MaxPages /\ Len(pages) \in Nat
  BY PagesAreCounted DEF CountersInv
<1>1. ASSUME NEW r \in Requests, NEW l \in Lookups(Addresses, Cookies), NEW kind \in Kinds,
             NEW t \in Tokens(kind), Arrive(r, l, kind, t)
      PROVE  CountersInv'
  BY <1>1, ArriveIsFine
<1>2. ASSUME NEW r \in Requests, request[r].at = "arrived", Route(r) PROVE CountersInv'
  BY <1>2, RouteIsFine
<1>3. ASSUME NEW r \in Requests, ShowFirstPage(r) PROVE CountersInv'
  <2>1. Render(r, request[r].inner, live) /\ UNCHANGED <<perAddress, drawn>>
        /\ request[r].at = "greeting"
    BY <1>3 DEF ShowFirstPage
  <2>2. Len(pages') = Len(pages) + 1
    <3>1. pages' = Append(pages, [to |-> request[r].from, acceptedFrom |-> << >>])
      BY <2>1 DEF Render
    <3>2. request[r].from \in Addresses
      BY <2>1 DEF HttpInv, State, RequestsFit, RequestFits, Active
    <3>3. [to |-> request[r].from, acceptedFrom |-> << >>] \in Page
      BY <3>2 DEF Page
    <3> QED
      BY <3>1, <3>3, PagesAreCounted, AppendProperties
  <2> QED
    BY <1>0, <2>1, <2>2, RenderIsFine DEF CountersInv
<1>4. ASSUME NEW r \in Requests, Emitted(r) \/ Other(r) PROVE CountersInv'
  <2>1. \E inner : Respond(r, inner, live)
    BY <1>4 DEF Emitted, Other
  <2>2. UNCHANGED <<perAddress, total, drawn, pages>>
    BY <1>4 DEF Emitted, Other
  <2> QED
    BY <1>0, <2>1, <2>2, RespondIsFine DEF CountersInv
<1>5. CASE Restart
  <2>1. /\ live' = << >> /\ total' = 0 /\ drawn' = drawn /\ pages' = pages
        /\ perAddress' = [a \in Addresses |-> 0] /\ request' = [r \in Requests |-> Idle]
    BY <1>5 DEF Restart
  <2>2. Fine(live', perAddress', total', drawn')
    BY <1>0, <2>1, EmptyIsFine DEF Fine, Table
  <2>3. RequestsTyped(request')
    BY <2>1 DEF RequestsTyped
  <2> QED
    BY <1>0, <2>1, <2>2, <2>3 DEF CountersInv
<1>6. CASE UNCHANGED vars
  BY <1>6 DEF CountersInv, vars
<1> QED
  BY <1>1, <1>2, <1>3, <1>4, <1>5, <1>6 DEF Next

-----------------------------------------------------------------------------
(* Theorems.                                                                  *)

\* The inductive invariant: what a session, its token and every request that
\* names it know of each other, also when the session is gone.
THEOREM InvAlways == Spec => []HttpInv
<1>1. Init => HttpInv
  BY InitInv
<1>2. HttpInv /\ [Next]_vars => HttpInv'
  BY StepKeeps
<1> QED
  BY <1>1, <1>2, PTL DEF Spec

\* A request, and every event it reports, is put down to a session of its own
\* address, whatever cookies the clients send and whatever is evicted meanwhile.
THEOREM AlwaysOneAddress == Spec => []OneAddressPerSession
<1>1. HttpInv => OneAddressPerSession
  <2> SUFFICES ASSUME HttpInv, NEW r \in Requests, Busy(r), NEW i \in Named(r) \ {None}
               PROVE  /\ i \in DOMAIN live => live[i].ip = request[r].from
                      /\ \A q \in Requests :
                            Busy(q) /\ i \in Named(q) => request[q].from = request[r].from
    BY DEF OneAddressPerSession
  <2>1. \A q \in Requests : Named(q) = Names(request[q]) /\ (Busy(q) <=> Active(request[q]))
    BY DEF Named, Names, Busy, Active
  <2>2. RequestsFit(live, drawn, request)
    BY DEF HttpInv, State
  <2> QED
    BY <2>1, <2>2 DEF RequestsFit, RequestFits
<1> QED
  BY <1>1, InvAlways, PTL

\* connection.new is emitted once for a session, and for every session that has
\* a token or credentials, however its requests overlap.
THEOREM AlwaysGreetedOnce == Spec => []GreetedOnce
<1>1. HttpInv => GreetedOnce
  BY DEF HttpInv, State, TableFits, SessionFits, GreetedOnce
<1> QED
  BY <1>1, InvAlways, PTL

\* The token of a page is accepted once at most, from the page's address.
THEOREM TokensSpentOnce == Spec => []TokenSpentOnce
<1>1. HttpInv => TokenSpentOnce
  <2> SUFFICES ASSUME HttpInv, NEW t \in DOMAIN pages
               PROVE  /\ Len(pages[t].acceptedFrom) <= 1
                      /\ \A k \in DOMAIN pages[t].acceptedFrom :
                            pages[t].acceptedFrom[k] = pages[t].to
    BY DEF TokenSpentOnce
  <2>1. PagesFit(pages) /\ t \in 1 .. Len(pages) /\ pages[t] \in Page
    BY DEF HttpInv, State, PagesFit
  <2> QED
    BY <2>1 DEF PagesFit, Page
<1> QED
  BY <1>1, InvAlways, PTL

\* The counters agree with the table they count, within both limits, whatever is
\* opened and evicted (http_session.py, _evict_stale, get_or_create_session), and
\* the global count covers the credentials that are kept (record_credential).
THEOREM CountersAlwaysAgree == Spec => []CountersAgree
<1>1. Init => HttpInv /\ CountersInv
  BY InitInv, InitCounters
<1>2. HttpInv /\ CountersInv /\ [Next]_vars => (HttpInv /\ CountersInv)'
  BY StepKeeps, StepIsFine
<1>3. HttpInv /\ CountersInv => CountersAgree
  <2> SUFFICES ASSUME HttpInv, CountersInv PROVE CountersAgree
    OBVIOUS
  <2>1. TypeOK
    BY PagesAreCounted DEF CountersInv, Fine, Table, Counted, Covered, RequestsTyped, TypeOK, Page
  <2> QED
    BY <2>1 DEF CountersInv, Fine, Counted, Covered, CountersAgree
<1> QED
  BY <1>1, <1>2, <1>3, PTL DEF Spec
=============================================================================
