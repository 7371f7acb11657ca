----------------------------- MODULE AdaptiveTier -----------------------------
(* The adaptive tier: sessions of one SSH decoy share a CommandRouter with    *)
(* its cache of answers (command_router.py, _route_single, _handle_adaptive), *)
(* which asks the inference gateway, with a cache of its own (inference/      *)
(* server.py, process_command, ResponseCache), which asks the model.          *)
(*                                                                            *)
(* Both processes run one event loop: a step goes from one await to the next. *)
(* What a command answers depends on its key, the directory and the command;  *)
(* texts are numbered as the model produces them.                             *)
EXTENDS Integers, Sequences, FiniteSets, SequencesExt

CONSTANTS Sessions,
          Keys,        \* records [cwd, cmd] that reach the tier
          None,        \* no key
          Cacheable,   \* those whose command matches CACHEABLE_PATTERNS
          Snapshot,    \* the filesystem_snapshot a request carries: field |-> its kind
          DecoyCap,    \* entries of the router's cache (1000 in the code)
          GatewayCap,  \* entries of the gateway's cache (10000)
          MaxTexts     \* bound: texts the model produces

ASSUME AdaptiveAssumption ==
    /\ Cacheable \subseteq Keys
    /\ DecoyCap \in Nat \ {0} /\ GatewayCap \in Nat \ {0} /\ MaxTexts \in Nat

VARIABLES
    pc,       \* where a session's command is
    asked,    \* its key, as cwd and command were when it was typed
    reply,    \* what the gateway answered: a text, and whether it may be kept
    shown,    \* the text the session is shown
    answers,  \* response_cache: entries [key, text], the next to be evicted first
    source,   \* last_source of the router
    own,      \* what the session's own command set it to
    stirred,  \* another session's command has set it since
    cache,    \* the gateway's cache
    orphans,  \* keys the gateway works on for nobody (equal ones are one)
    made      \* the key each text was made for

routerVars == <<answers, source, own, stirred>>
gatewayVars == <<cache, orphans, made>>
vars == <<pc, asked, reply, shown, routerVars, gatewayVars>>

NotFound == -1     \* "command not found"
Empty == 0         \* the text was blanked by the response filter
Failed == [text |-> NotFound, keep |-> FALSE, ok |-> FALSE]
Gives(text, keep) == [text |-> text, keep |-> keep, ok |-> TRUE]

----------------------------------------------------------------------------
(* The two LRU caches, sequences with the least recently used entry first.    *)
KeysOf(c) == {c[i].key : i \in DOMAIN c}
Place(c, k) == CHOOSE i \in DOMAIN c : c[i].key = k
Lookup(c, k) == c[Place(c, k)].text

MoveToEnd(c, k) == Append(RemoveAt(c, Place(c, k)), c[Place(c, k)])

Evicted(c, cap) == IF Len(c) > cap THEN Tail(c) ELSE c

\* The router's: an assignment to a key that is there leaves it in its place.
Keep(c, k, text) ==
    IF k \in KeysOf(c)
    THEN [i \in DOMAIN c |-> IF c[i].key = k THEN [c[i] EXCEPT !.text = text] ELSE c[i]]
    ELSE Evicted(Append(c, [key |-> k, text |-> text]), DecoyCap)

\* Mutant: a key of the command alone.
MakeKeyOfCommand(k) == k.cmd

\* The gateway's, whose keys are made of profile, host, directory and command.
MakeKey(k) == k
Put(c, k, text) ==
    LET others == IF k \in KeysOf(c) THEN RemoveAt(c, Place(c, k)) ELSE c
    IN  Evicted(Append(others, [key |-> k, text |-> text]), GatewayCap)

----------------------------------------------------------------------------
(* The contract.  The decoy's snapshot has lists in it; the gateway's         *)
(* validator wants every value to be a string.                                *)
DecoySnapshot == [cwd |-> "string", cwd_contents |-> "list", parent_contents |-> "list"]
Accepts(snapshot) == \A field \in DOMAIN snapshot : snapshot[field] = "string"

----------------------------------------------------------------------------
(* The router.                                                                *)
Goto(s, l) == pc' = [pc EXCEPT ![s] = l]

SetSource(s, from) ==
    /\ source' = from
    /\ own' = [own EXCEPT ![s] = from]
    /\ stirred' = [t \in Sessions |-> IF t = s THEN FALSE ELSE stirred[t] \/ pc[t] = "event"]

\* The route ends with a text; the session then waits for the latency to pass
\* before it emits command.response.
Show(s, text, from) ==
    /\ shown' = [shown EXCEPT ![s] = text]
    /\ SetSource(s, from)
    /\ Goto(s, "event")

\* A command that an earlier stage answers, in one step.
RouteHandled(s) ==
    /\ pc[s] = "idle"
    /\ SetSource(s, "handled") /\ Goto(s, "event")
    /\ UNCHANGED <<asked, reply, shown, answers, gatewayVars>>

\* A refused sudo, and a command longer than MAX_INPUT_LENGTH, are answered
\* without a word on their source.
RouteUnsourced(s) ==
    /\ pc[s] = "idle"
    /\ own' = [own EXCEPT ![s] = "none"] /\ stirred' = [stirred EXCEPT ![s] = FALSE]
    /\ Goto(s, "event")
    /\ UNCHANGED <<asked, reply, shown, answers, source, gatewayVars>>

\* _handle_adaptive: a hit is held back for a moment, a miss is sent.
HandleAdaptive(s) ==
    /\ pc[s] = "idle"
    /\ \E k \in Keys :
         /\ asked' = [asked EXCEPT ![s] = k]
         /\ IF k \in KeysOf(answers)
            THEN /\ SetSource(s, "llm_cache") /\ answers' = MoveToEnd(answers, k)
                 /\ Goto(s, "delay")
            ELSE /\ Goto(s, "sent") /\ UNCHANGED routerVars
    /\ UNCHANGED <<reply, shown, gatewayVars>>

\* The session reads its next command: nothing is shown any more.
Finish(s) ==
    /\ Goto(s, "idle")
    /\ asked' = [asked EXCEPT ![s] = None] /\ shown' = [shown EXCEPT ![s] = NotFound]
    /\ own' = [own EXCEPT ![s] = "none"] /\ stirred' = [stirred EXCEPT ![s] = FALSE]

\* It is then read again.  If it was evicted in the meantime the lookup raises:
\* the command shows nothing and has no command.response.
AnswerFromCache(s) ==
    /\ pc[s] = "delay"
    /\ IF asked[s] \in KeysOf(answers)
       THEN Show(s, Lookup(answers, asked[s]), "llm") /\ UNCHANGED asked
       ELSE Finish(s) /\ UNCHANGED source
    /\ UNCHANGED <<reply, answers, gatewayVars>>

\* Mutant: the source is not set after an answer.
ReceiveSilently(s) ==
    /\ pc[s] = "replied" /\ reply[s].ok
    /\ shown' = [shown EXCEPT ![s] = reply[s].text]
    /\ own' = [own EXCEPT ![s] = "llm"] /\ Goto(s, "event")
    /\ answers' = IF reply[s].keep THEN Keep(answers, asked[s], reply[s].text) ELSE answers
    /\ reply' = [reply EXCEPT ![s] = Failed]
    /\ UNCHANGED <<asked, source, stirred, gatewayVars>>

Receive(s) ==
    /\ pc[s] = "replied" /\ reply[s].ok
    /\ Show(s, reply[s].text, "llm")
    /\ answers' = IF reply[s].keep THEN Keep(answers, asked[s], reply[s].text) ELSE answers
    /\ reply' = [reply EXCEPT ![s] = Failed]
    /\ UNCHANGED <<asked, gatewayVars>>

\* Any exception of the request, a status that is no success among them: the
\* scripted answer after a moment.
ReceiveError(s) ==
    /\ pc[s] = "replied" /\ ~reply[s].ok /\ Goto(s, "jitter")
    /\ UNCHANGED <<asked, reply, shown, routerVars, gatewayVars>>

\* The request is lost, or has taken 10 s; the gateway goes on with it.
TimesOut(s) ==
    /\ pc[s] \in {"sent", "inference"} /\ Goto(s, "jitter")
    /\ orphans' = IF pc[s] = "inference" THEN orphans \cup {asked[s]} ELSE orphans
    /\ UNCHANGED <<asked, reply, shown, routerVars, cache, made>>

AnswerScripted(s) ==
    /\ pc[s] = "jitter" /\ Show(s, NotFound, "llm")
    /\ UNCHANGED <<asked, reply, answers, gatewayVars>>

\* _handle_command emits command.response with whatever last_source is now.
EmitResponse(s) ==
    /\ pc[s] = "event" /\ Finish(s)
    /\ UNCHANGED <<reply, answers, source, gatewayVars>>

----------------------------------------------------------------------------
(* The gateway.                                                               *)
Reply(s, r) == reply' = [reply EXCEPT ![s] = r] /\ Goto(s, "replied")

\* The request is validated and looked up; then the prompts are built, which
\* may fail.
ProcessCommand(s) ==
    LET k == MakeKey(asked[s])
    IN /\ pc[s] = "sent"
       /\ \/ ~Accepts(Snapshot) /\ Reply(s, Failed) /\ UNCHANGED cache
          \/ /\ Accepts(Snapshot) /\ k \in KeysOf(cache)
             /\ cache' = MoveToEnd(cache, k) /\ Reply(s, Gives(Lookup(cache, k), TRUE))
          \/ /\ Accepts(Snapshot) /\ k \notin KeysOf(cache) /\ UNCHANGED cache
             /\ \/ Reply(s, Gives(NotFound, FALSE))
                \/ Goto(s, "inference") /\ UNCHANGED reply
       /\ UNCHANGED <<asked, shown, routerVars, orphans, made>>

\* A text that the filter leaves empty is not put into the cache.
Produce(k, text) ==
    /\ Len(made) < MaxTexts
    /\ text = Len(made) + 1 /\ made' = Append(made, k)
    /\ cache' = IF k \in Cacheable THEN Put(cache, MakeKey(k), text) ELSE cache

Generate(s) ==
    LET k == asked[s]
    IN /\ pc[s] = "inference"
       /\ \/ Produce(k, Len(made) + 1) /\ Reply(s, Gives(Len(made) + 1, k \in Cacheable))
          \/ Reply(s, Gives(Empty, k \in Cacheable)) /\ UNCHANGED <<cache, made>>
          \/ Reply(s, Gives(NotFound, FALSE)) /\ UNCHANGED <<cache, made>> \* nothing generated
          \/ Reply(s, Failed) /\ UNCHANGED <<cache, made>>               \* 500, 502, 503, 504
       /\ UNCHANGED <<asked, shown, routerVars, orphans>>

GenerateForNobody(k) ==
    /\ k \in orphans /\ orphans' = orphans \ {k}
    /\ Produce(k, Len(made) + 1) \/ UNCHANGED <<cache, made>>
    /\ UNCHANGED <<pc, asked, reply, shown, routerVars>>

FlushCache ==
    /\ cache # << >> /\ cache' = << >>
    /\ UNCHANGED <<pc, asked, reply, shown, routerVars, orphans, made>>

----------------------------------------------------------------------------
Init ==
    /\ pc = [s \in Sessions |-> "idle"] /\ asked = [s \in Sessions |-> None]
    /\ reply = [s \in Sessions |-> Failed] /\ shown = [s \in Sessions |-> NotFound]
    /\ answers = << >> /\ source = "unknown"
    /\ own = [s \in Sessions |-> "none"] /\ stirred = [s \in Sessions |-> FALSE]
    /\ cache = << >> /\ orphans = {} /\ made = << >>

RouterStep(s) ==
    \/ RouteHandled(s) \/ RouteUnsourced(s) \/ HandleAdaptive(s) \/ AnswerFromCache(s)
    \/ Receive(s) \/ ReceiveError(s) \/ TimesOut(s) \/ AnswerScripted(s) \/ EmitResponse(s)
GatewayStep(s) == ProcessCommand(s) \/ Generate(s)

Next ==
    \/ \E s \in Sessions : RouterStep(s) \/ GatewayStep(s)
    \/ \E k \in Keys : GenerateForNobody(k)
    \/ FlushCache

Spec == Init /\ [][Next]_vars
----------------------------------------------------------------------------
(* Properties.                                                                *)

NoKeyTwice(c) == Cardinality(KeysOf(c)) = Len(c)

\* The variables hold what the code can put into them: both caches stay within
\* their capacity with one entry per key, and hold nothing that is not cacheable.
TypeOK ==
    /\ pc \in [Sessions -> {"idle", "delay", "sent", "inference", "replied", "jitter",
                            "event"}]
    /\ asked \in [Sessions -> Keys \cup {None}] /\ orphans \subseteq Keys /\ Range(made) \subseteq Keys
    /\ reply \in [Sessions -> [text : NotFound..MaxTexts, keep : BOOLEAN, ok : BOOLEAN]]
    /\ shown \in [Sessions -> NotFound..MaxTexts]
    /\ source \in {"unknown", "handled", "llm_cache", "llm"}
    /\ own \in [Sessions -> {"none", "handled", "llm_cache", "llm"}]
    /\ stirred \in [Sessions -> BOOLEAN]
    /\ Len(answers) <= DecoyCap /\ NoKeyTwice(answers) /\ KeysOf(answers) \subseteq Cacheable
    /\ Len(cache) <= GatewayCap /\ NoKeyTwice(cache)

\* A text is shown to whoever asked the question it was made for, in the same
\* directory, through two caches, overlapping requests, evictions and flushes.
AnswersFit ==
    /\ \A s \in Sessions : shown[s] > 0 => made[shown[s]] = asked[s]
    /\ \A i \in DOMAIN answers : answers[i].text > 0 => made[answers[i].text] = answers[i].key

\* A command asked of the tier ends without a command.response only if its hit was
\* held back, while the cache was at its capacity and others took its place.
LostOnlyWhenFull ==
    [][\A s \in Sessions : pc'[s] = "idle" /\ pc[s] \notin {"idle", "event"} =>
            pc[s] = "delay" /\ Len(answers) = DecoyCap /\ asked[s] \notin KeysOf(answers)]_vars

\* The source in a session's event is that of its own command unless the command
\* of another session was routed while it waited.
SourceIsOwn ==
    \A s \in Sessions : pc[s] = "event" /\ own[s] # "none" => source = own[s] \/ stirred[s]

\* The gateway takes what the decoy sends (handle_command: "The decoy sends the
\* raw command + full session context. We return the terminal output the attacker
\* should see.").
ContextIsAccepted ==
    [][\A s \in Sessions : ProcessCommand(s) => reply'[s] # Failed]_vars
=============================================================================
