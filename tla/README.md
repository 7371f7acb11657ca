# CICDecoy in TLA+

A verification development kept beside the CICDecoy sources: TLA+ models of the
parts whose control is hard to get right (concurrent consumers, redelivery,
partial failures, layered state), the TLC configurations that check them on
small instances, and proofs, checked by TLAPS, of what matters most for every
value of the constants. Paths below are relative to `src/`.

## 1. Inventory

CICDecoy is a deception platform. Decoys (SSH and HTTP) record what a visitor
does and publish events on NATS JetStream. The CTI collector stores, enriches and
summarises them; the SIEM forwarder ships them to a SIEM; the dashboard shows
them; an operator creates decoys in Kubernetes; adapters feed events of other
honeypots in.

| Component | State it keeps | Operations | Hard behaviour | What makes it correct |
|---|---|---|---|---|
| SIEM forwarder (`siem-forwarder/consumer.go`, `resilience.go`, `main.go`) | a batch per stream, a circuit breaker shared by all streams | fetch, flush, send, retry, dead-letter, ack and nak, shutdown | goroutines interleave on the breaker, sends fail in part, Acks and Naks get lost, ack waits run out, the process dies holding messages | a message is acked only when delivered or dead-lettered; nothing is left behind; nothing is sent again without a fault; every message settles |
| SIEM formatter and sinks (`siem-forwarder/formatter`, `output`) | none | format, send | partial results of a bulk request | the result names exactly the failed records |
| CTI collector (`cti/pipeline.py`) | the fetched batch; tables `decoy_events`, `engage_outcomes` | fetch, analyse, write a summary, publish alerts, insert, republish, ack | an await between any two of these, redelivery at each, the idle sweeper running in between | an event is stored, once if it has a key; an alert goes out once; the row of a session known to be closed is final |
| CTI session analyzer (`cti/session_analyzer.py`) | tracked sessions (LRU), closed set, seen events, evicted summaries | ingest, close, sweep, evict | four caps trimmed in four ways | the order lists the tracked sessions, a closed one is not tracked, the caps hold |
| CTI Falco correlator (`cti/falco_correlator.py`) | tables `falco_alerts`, `engage_outcomes` | store, mark the outcome, inject an event | three writes without a transaction, redelivery, another writer of the same row | an escape in the outcome is backed by an alert and never erased |
| CTI alerting (`cti/alerting.py`) | a sliding window | admit, post with retries, record | the window is read before an await and recorded after it; answers get lost | the limit holds for what is delivered; a call ends in time |
| CTI enrichment, Engage mapper (`cti/enrichment.py`, `engage_mapper.py`) | none | classify | none (pure tables) | |
| SSH filesystem (`ssh-decoy/cow_filesystem.py`) | overlay tree, tombstones, a count | create, append, mkdir, remove, rmdir, copy-up, delta | two layers and tombstones under long legal sequences; a quota that runs out half way | the overlay is a tree; what was removed stays removed, what was written is seen; the quota holds; the delta is complete |
| SSH shell files, SFTP, SCP (`ssh-decoy/command_router.py`, `server.py`) | open SFTP files | file commands, requests | channels of one connection share one overlay | a command touches only what it names |
| SSH shell lines and pipes (`ssh-decoy/command_router.py`) | directory, environment, sudo flag | take a line apart, run its commands, filter their output | operators are searched for in a fixed order over the text; a status is guessed from what was printed; edges of the filters | a line takes the session where a shell would, a filter prints what its program prints |
| SSH adaptive tier and inference gateway (`ssh-decoy/command_router.py`, `inference/server.py`) | an LRU cache in each, `last_source` | route, ask, time out, cache, flush | sessions interleave at every await, the decoy gives up before the gateway does, two caches with their own keys | an answer is shown for the question it was made for; what one side sends the other accepts |
| SSH connections, authentication, sessions (`ssh-decoy/server.py`, `auth_handler.py`, `session.py`) | connection and shell counters, attempts and lockout per address, pending telemetry tasks | accept, authenticate, open a shell, read and answer, end, emit in the background, shut down | callbacks and coroutines share counters; a connection is lost at any await and its shell lives on | the counters agree with reality; a lockout bounds the guesses of an address; a shell that ends says so and gives its slot back; what was emitted before the shutdown is sent first |
| HTTP decoy (`http-decoy`) | sessions per address, CSRF tokens, credential count | get or create, record, validate, evict | the session may be gone or another one between two awaits of a request | the limits and counters agree; a token is good once and in its session |
| Operator (`platform/operator/reconciler.py`) | the Decoy's status, a Secret, a Deployment, a Service | handle a creation or an edit: read and write each object, post a phase; delete | any API call may fail, with or without effect; edits, a deletion and a crash during a handling | references between objects resolve; a handling without an error has applied everything; the last edit is handled; a deletion leaves nothing |
| Adapters (`adapters/cmd/adapter`, `adapters`, `pkg/nats`) | a bounded channel, two counters | scan a line, translate, send, receive, publish with fallback and retry, shut down | two goroutines look at the cancelled context each in its own place, a publish fails after the event was stored | every event read is published or counted; the stream keeps the log's order; a shutdown ends |
| Dashboard (`dashboard/main.py`, `dashboard/src`) | a window of requests, session cache (LRU), event buffer, subscriber queues | limit requests, receive, complete from the cache, fan out, stream, list page by page | evictions, slow or lost subscribers, a table that is written while it is paged through | an event is attributed to its own session; a subscriber's queue has every event; a client that pages misses nothing, where the order leaves no choice |
| Command line client (`platform/cli`), schema, charts, profiles, scripts | none | | | |

Interactions. The decoys, the adapters and the Falco sidecar publish on
JetStream; the collector, the forwarder and the dashboard consume it. The
collector and the correlator share the table `engage_outcomes`. In a decoy, the
shell, SFTP and SCP channels of a connection share a `SessionFilesystem`. The
operator only touches Kubernetes. JetStream and TimescaleDB are external: they are
modelled by what the code can observe of them (ack wait, `max_deliver`, the keys
of `ON CONFLICT`), in definitions that the map marks external.

`PROJECT.json` lists, under `components`, what is modelled of each part and, under
`hazards`, everything in this code that is hard to test, at its line, with the
properties that would catch it going wrong.

## 2. Plan

Order: what loses or forges data first.

1. **SIEM forwarder** (done): `CircuitBreaker`, `SiemForwarder` on top of it, the
   abstract `SiemDelivery` it implements, proofs in `SiemForwarderProofs`.
2. **CTI** (done): `SessionAnalyzer` (pure operators on a record),
   `CtiPipeline` on top of it with the collector, the sweeper and the correlator,
   proofs in `CtiPipelineProofs`.
3. **SSH filesystem** (done): `CowFilesystem` (pure operators on a record),
   `SessionFiles` with the channels, proofs in `SessionFilesProofs`.
4. **HTTP decoy** (done): `HttpSessions`, requests as processes over the tracker,
   proofs in `HttpSessionsProofs`.
5. **SSH server** (done): `SshAuth` (who is let in), `SshServer` on top of it
   (connections and shells), proofs in `SshServerProofs`.
6. **Adapters** (done): `Adapters`, proofs in `AdaptersProofs`.
7. **Operator** (done): `Operator`, proofs in `OperationsProofs`.
8. **Shell lines** (done): `PipeFilters` (pure operators, each beside the program it
   stands for), `ShellLines` on top of it; proofs in `CommandsProofs`.
9. **Adaptive tier** (done): `AdaptiveTier` composes the router's and the gateway's
   side of a request, proofs in `CommandsProofs`.

10. **Alerting and the dashboard** (done): the abstract `RateWindow`, which `Alerting`
    and `ApiLimiter` implement over the memory of `SlidingWindow`; `Dashboard` (cache and
    queues), `DashboardPages` (lists read while they are written); proofs in `OperationsProofs`.
11. **Telemetry and shutdown of the SSH decoy** (done): `SshTelemetry`, proofs in
    `SshServerProofs`.

Left: the dashboard's statistics and its kill-chain list, which are queries; exec channels
and public keys of the SSH decoy.

## 3. The modules and the code

### SIEM forwarder

`CircuitBreaker` is `resilience.go`: its four variables are the struct's fields
(time is reduced to `cooled`, the one comparison the code makes), each method, being
under the mutex, is one action. `SiemForwarder` has one process per stream, whose
`pc` is the place in `consumeStream` and `flushBatch`: `idle` is the select loop,
`send` the first or a repeated `sink.Send`, `settle` its result, `backoff` the wait
for `delay` or `ctx.Done`, `deadletter` the exhausted branch. `batch` is what is
still held (`batch`, then `failed`), `reported` the records the last send did not
report. JetStream's side of a message is `broker` and `deliveries`. `Restart` is the
crash as well as `main` returning five seconds after the signal, whatever the
goroutines still hold. `SiemDelivery` is the promise: three sets that only grow, and
a message enters `acked` only from `stored` or `dead`; `ImplementsDelivery` is the
refinement.

Acks and Naks are fire and forget (their errors are not read), so `AckAndNak` lets the
connection lose any of them, at most `MaxLost` in all.

Abstractions: formatting leaves no trace; a message that cannot be parsed is like any other,
since the code wraps it as a raw record and sends it (249-259); `MaxWorkers` is at least the
number of streams; a fetch that times out changes nothing.

### CTI

`SessionAnalyzer` operates on a record `an`: `tracked`, `order` (the LRU order),
`closed`, `processed` (seen fingerprints, newest last), `evicted`. `CtiPipeline` is the
asyncio process: `inbox` and `stage` are the pull loop's batch and the await
`_process_message` is at; `todo` and `alerts` what it has still to write and publish;
`sweeping` the sweeper's; `falco` the callback's. Between two awaits nothing else
runs, so each piece of code from one await to the next is one action. Every
external call succeeds or, while `MaxFaults` lasts, fails. A message on which
`_process_message` raises anything but a decoding error (`Choking`) is handed back at each of its
deliveries (`HandBack`), until they are used up; that happens before the first await, so
nothing of it was done.

The memory is lost at a restart, a session that was evicted or swept is not in the closed set,
and when that is full any half of it goes. An event of such a session, redelivered or late, starts
it anew, and its summary replaces the row. `forgotten` has these sessions, and `OnceEach` and
`ClosedRowIsFinal` speak of all others: while the analyzer knows that a session is closed, no
event replaces its row by less or raises an alert.

Abstractions: an event is a model value with a session, a fingerprint (what ingest
hashes) and evidence (what the enrichment found in it); an alert key is triggered
by the evidence it requires. The time window of the deduplication is a choice of
how many of the seen fingerprints are old. The naks of a shutdown (182-185) are left out: the
loop is cancelled before it could send one, and a message nobody settled is redelivered.

### SSH filesystem

`CowFilesystem` has an operator per method of `SessionFilesystem`, on a record
`[overlay, gone, count, ok]`; `ok` is what the method returned. A path is the
sequence of its components, a node is `"dir"` or a file's content, and `Put` (a node
is replaced, what was below it is gone) is what assigning to `children[name]`
does. `SessionFiles` calls it from the shell, SFTP and SCP: each command runs without
an await, so it is one action, and what interleaves is whole commands and an SFTP
file that stays open (`handles`) while others change the tree. `last` remembers the
last command and its paths for the properties.

Abstractions: owners, permissions and times; the text of an append (the content is
the whole one after it); a command with several targets is a sequence of actions.

### HTTP decoy

`HttpSessions` has the tracker's maps as `live` (the sessions), `perAddress`
(`_sessions_per_ip`) and `total` (`_total_credentials`). A request is a process whose
place is where it waits: it has arrived (the middleware has looked up `outer`, the
route may wait for a body), its route, which looks a session up again by the same
cookie (`inner`), emits `connection.new` or another event, and it is answered, with
both cookies. A lookup `l` is a call of `get_or_create_session`, with the sessions that
`_evict_stale` finds idle in it as a choice among those no request has just used. What
clients may send is any cookie that was set and not yet dead, from any address, and any
token a session has. `pages`, `greetings` and `known` are history.

Abstractions: session ids and tokens are numbers in the order they are drawn; the
user agent, the request counter, metrics and the contents of pages are left out; the
probes of the admin and API routes are one.

### SSH server

`SshAuth` is `AuthHandler`: `check_password` never waits and runs on the one event
loop, so it is one step (`CheckPassword`), of which each return is an operator.
`attempts`, `lockout` and `rejected` are the three dictionaries by address, time is
reduced to whether a lockout is over; `guesses` is history.
`SshServer` has `conn`, where a connection's login is (between `check_password` and
the answer lie the delay and the event), `shell`, the await at which `_run` is and how
often it emitted `session.end`, and the two global counters. `dropped` is history. `Lose` is
`connection_lost` and may come at any of these places; a shell goes on without its
connection, looks at the lines it has already read, and any write may fail then.

Abstractions: asyncssh is external: it calls `connection_lost` for every connection
that was made, also for one closed in `connection_made`, tries one password after
another and opens channels after one was accepted. One shell per connection at a
time; public keys, exec, SCP and SFTP channels (they touch none of these
variables), the list of seen credentials, the attempts log are
left out; the two read timeouts are among the ways the loop ends.

`SshTelemetry` is the rest of the process: `_track_emit` and the set it keeps (`pending`),
the task of an event from its start to its callback (`emit`), and `main` from the signal to
its end. `gathered` are the tasks `main` hands to `gather`; those emitted later are not among
them. `early` is history. A shell emits its own events, waited for by nobody but itself, and
is cut off when `main` returns.

Abstractions: what a task publishes and the retries inside the NATS client are an outcome,
chosen freely; `router.shutdown` closes a client and changes nothing here.

### Shell lines

`PipeFilters` has an operator per branch of `_apply_pipe` and of `_pipe_awk`, and beside
it what the program of that name does (`Program`), written over sets and positions
instead of the code's loops, slices and flags; `Differs` says where the two are known to
part. A text is its lines and whether the last one is ended, since the code splits and
joins at newlines; a line is a sequence of fields, a field a number, which is enough
for a pattern, an order and a delimiter.

`ShellLines` is `route` and what it calls: `Route` splits a line in the order in which
the code looks for operators, a part that still has operators in it is handed on as one
command (`RunJumble`), and the state is that of `SessionState` with one file for the
session's files. `Shell` is the reference: it runs the same line as a shell does, with
statuses, and its `plain` turns false where the code is known to do something else (each
place is listed under `findings`): where `&&` or `||` cannot tell from what was printed
whether a command failed, where a refused sudo hides the rest, and where a line sets PWD, which
`update_from_command` undoes, and where a loop has more items than `LoopCap`. A line that
raises (`cd - | cut -d ' ' -f1`) shows nothing and the session goes on: the loop in `_run`
catches the exception, so what the line did stays and `update_from_command` is skipped.
`raised` says that the line before this one did so, and then PWD may be that of an earlier
directory; the shell's own (`Upright`) never is. Lines with a pipe, with an assignment before a command or with
operators of two kinds are run by the model and never plain: a shell runs the commands of a pipe
on copies of its state, and the code takes `a && b || c` apart wrongly; of a pipe of more than `MaxPipeDepth` segments nothing is run. What a filter makes of a
text is compared filter by filter (`FiltersAgree`). A line is one action, since nothing else of
the session runs in it; what is checked is every line in every state that earlier lines lead to.

Abstractions: a line is a list of commands and operators, a loop or an if, not a string;
quoting, globs, brace and arithmetic expansion, `tr`, `sudo`'s flags and the texts of the
commands that only print are left out; a pattern is one field.

### Adaptive tier

`AdaptiveTier` has both processes, each one event loop: a step lasts from one await to the
next. A session's command is routed, found in `answers` (`response_cache`) or sent; the
gateway validates it, finds it in `cache` or asks the model; the decoy may have given up by
then (`TimesOut`), in which case the gateway goes on for nobody (`orphans`). `source` is the
router's `last_source`, which all sessions of the process share; `own`, `stirred` and `made`
are history. The operator of an LRU cache is a sequence, the least recently used entry
first; the router's assignment leaves a key that is there in its place, the gateway's does not.
A hit that was evicted while the session slept raises; the command then shows nothing and has no
`command.response`, and the session reads the next one (`Finish`).

Abstractions: a key is a directory and a command (profile and host are one decoy's); a
text is a number; prompts, filters (a text may come out empty), statistics and the
backend's semaphore are left out. The snapshot that goes with a request is a constant: the
passing run sends none, as the gateway's own tests do (`tests/inference/test_inference_api.py:39`);
with the one the decoy really sends (`DecoySnapshot`) the gateway refuses every request,
which is what `adaptive_contract` shows.

### Adapters

`Adapters` is one process: `main` (`process`, `ctxDone`, `conn`), the reader in `Start`
(`reader`, `pos`, `hand`), the channel, and the publisher in `Run` (`publisher`, `inFlight` and
the two counters). The reader looks at the context at its select only, not while it sends;
the publisher at its own select, where a cancelled context and a waiting event are both
ready. A publish is JetStream's and, after an error, core NATS's: each may fail, and may
have stored the event all the same. Exits are those of the code: the health check, the
panic of the `tpot` source, `Start` returning, with the deferred calls.

Abstractions: a line is its kind, an event the number of its line. External: the log and
its honeypot, NATS, and `bufio.Scanner`, which having returned false once does so for good.

### Operator

`Operator` follows one Decoy: the user creates, edits and deletes it, kopf calls
`reconcile_decoy` while the spec differs from the one handled last, and each call to the
Kubernetes API is an action: a read, then a create or a patch, for each of three objects,
and the posting of the phase. A call succeeds, fails without effect, or fails after it was
carried out. `Crash` is the end of the operator's process at any of these places. External:
kopf, garbage collection, pods, and the strategic merge patch (`Mergeable`,
`PatchedDeployment`), which decides what becomes of a changed port or an entry that was dropped.

Abstractions: of a spec the port and whether it allows credentials are kept; the validation
of required fields is left out (the CRD requires them too), and so are other Decoys, which
share nothing with this one.

### Alerting and the dashboard

`SlidingWindow` is what the two limiters have in common, a list of times of which the expired
ones are taken from the front; `RateWindow` is what such a limiter promises. `Alerting` is
`maybe_send` as the collector's loop calls it, one call after another: `call` is the await it is
at (a request or a sleep), its attempt, when it began and until when it sleeps; `sendTimes` is the
deque. Each outcome of a request is an action; a request that the service took and whose answer
was lost is one that failed, as for the code. `delivered` is history. `ApiLimiter` is
`require_api_key` for the one key that is valid.

`Dashboard` is `nats_handler` and `event_stream`. The handler's awaits are uncontended locks,
so a message is one step: what it announces goes into the cache (`order`, `told`), what it
lacks is taken from there, and every subscribed queue gets it. A stream is subscribed, then
fails in its first step, as the code does (`event_buffer[-50:]` on a deque), or is left before
that. `said`, `announced`, `forgotten` and `joined` are history.

`DashboardPages` has the table the API reads and one client that walks through a list: a
request counts in one statement and reads a page in the next, and the collector may write
before, between and after. Three lists stand for the endpoints: sessions by their last event,
the events of one session, all events. `Ahead` is what `ORDER BY` puts before an item. The lists are
ordered by the timestamp alone, and rows may share one (dionaea gives whole seconds), so `Orders`
has every order that a statement may put the items in, and `Page` is what `LIMIT` and `OFFSET`
leave of the one it has. `before` is the table as it was. An item is `Alone` if no other row has
its timestamp: those that are not may be on two pages or on none, as the code has it (a finding),
and `NoneSkipped` and `EachOnce` say so.

Abstractions: time is in seconds; formats and URLs of the webhooks are left out; an event is
its number, the fields it brings and its session; the buffer of recent events has no reader
that works; a row is its `event_id`, its session, its timestamp and the lists it is kept from; the
filter by severity, retention after 90 days and the columns are left out.

## 4. Runs

| Run | Module | What it checks and shows | Size |
|---|---|---|---|
| `siem_forwarder` | `MCSiemForwarder` | `BreakerCountersAgree`, `NothingForgotten`, `ConfirmedOnce` and the refinement `ImplementsDelivery`: goroutines race on the breaker, a batch fails in part, a message is redelivered after each kind of fault, lost Acks and Naks included, and a message settles only once handled | two streams, three messages, a batch of two, one retry, two deliveries, one restart, one lost Ack or Nak, dead-letter publishes that may fail |
| `siem_liveness` | `MCSiemLiveness` | `EveryMessageSettles`, with a lost Ack or Nak and a restart | one message per stream |
| `cti_pipeline` | `MCCtiPipeline` | `TypeOK`, `NothingSlipsBy`, `OnceEach`, `ClosedRowIsFinal`: the collector and the sweeper over two sessions in a memory for one, one fault | six events, one of them handed back, two deliveries |
| `cti_falco` | `MCCtiFalco` | `EscapeIsBacked`, `EscapeSticks`: the correlator against the collector's summary, two faults. | one session, one alert of Falco |
| `session_files` | `MCSessionFiles` | `TypeOK`, `QuotaHolds`, `WrittenIsSeen`, `RelatedPathsOnly`, `RemovalOnlyHides`: any sequence of commands, one file open over SFTP | six paths, a quota of two |
| `http_sessions` | `MCHttpSessions` | `CountersAgree`, `OneAddressPerSession`, `TokenSpentOnce` under requests that interleave, idle sessions and restarts | two requests, two addresses, three sessions, two per address, caps of one, two pages |
| `ssh_server` | `MCSshServer` (with `SshTelemetry`) | `CountersAgree` (both counters and the lockout), `EndReported`, and the liveness `SlotComesBack` of a shell that lost its connection. `DrainedFirst`: events, callbacks and the shutdown in any order | three connections of one address, two shells, one rejection, two lines in a read; three events, a limit of one |
| `commands` | `MCCommands` (`ShellLines` with `AdaptiveTier`) | `LinesAgree`, `FiltersAgree`: lines and filters against the shell and the programs they stand for, also after lines that raised. `AnswersFit`, `SourceIsOwn`: two caches, timeouts, flushes | two directories, a text of up to three lines, 162 lines and 104 filters with their flags, loops cut after three turns, pipes of more than three segments refused; two sessions, three keys, caches of one, two texts |
| `adaptive_contract` (violation) | `MCAdaptiveTier`, `MCAdaptiveContract.cfg` | `ContextIsAccepted` fails: with the decoy's snapshot the gateway refuses every request | the bounds of `commands` for the adaptive tier |
| `adapters` | `MCAdapters` | `EveryEventAccounted`, `StreamFollowsLog` and the liveness `ShutdownEndsOrSticks` | the three sources, a channel of one, logs of up to four lines |
| `operator` | `MCOperator` | `ReferencesResolve`, `CompleteIsApplied` and the liveness `LatestSpecHandled`, `EverythingCollected` | three specs, three edits, one crash, any call failing any number of times |
| `dashboard` | `MCDashboard` (`Dashboard`, `DashboardPages`, `ApiLimiter`, `Alerting`) | `RightlyAttributed`, `SubscribersSeeAll`: the cache and the queues. `NoneSkipped`: rows are written, also late ones and ones of equal timestamps, between any two statements. The refinement `LimiterKeepsTheLimit` of `RateWindow`. `JudgesRightly` and the refinement `KeepsTheLimit` of `RateWindow`: the webhook forwarder | four events of three sessions, a cache and a queue of two, one client; three sessions, three rows at three times, pages of one; three requests in four seconds, ten seconds; two alerts in six seconds, requests of up to two, eighteen seconds |

Three runs check parts that share no variable with each other: a variable `part`, fixed in
the initial state, says of which one a behaviour is, so the states of a run are those of its
parts side by side. Interleaving the parts would add nothing, for each property speaks of the
variables of one.

Why the bounds are enough. *Forwarder*: every branch of `flushBatch` depends on
empty, partial or full failure of a batch and on the breaker's state, which two
messages on a stream and one on another exercise in every order; thresholds of 1
and 2 reach each transition of the breaker with a late result in each state. *CTI*:
a memory for one session makes the second one evict it at every stage; caps of one
or two are hit in every run; two deliveries give one redelivery at every await.
*Files*: the rules are about a node, what is above it and what is below it, in two
layers; six paths in three levels have a base file, a base directory, a base file
below one and a path below a file, and a quota of two runs out at each of the three
places where it is checked.
*HTTP*: two requests are what it takes for one to act between two awaits of the other, in one session or in two; two
sessions of three for an address let each limit be the one that refuses, with and
without an idle session to evict. *SSH*: two connections that are let in and a third
one show the drift and what it lets in; a lockout at the third attempt can be reached
with attempts of two connections; two lines in a read let a command run after its
connection is lost. *Shell*: a line has at most three commands because the code takes
apart one operator, then hands the rest on; two lines of two fields tell a textual from a
numeric order, the first from the last group and a missing field from an empty one; a
loop of four items and a pipe of four segments pass the limits by one.
*Adaptive tier*: caches of one make every answer evict another; three keys differ in the
directory, in the command and in whether they may be kept. *Adapters*: with a channel of
one, three events put one in each of hand, channel and flight, a fourth line waits; more lines
repeat this. *Operator*: three specs differ in the port, in the credentials and in both, and
three edits lead through each change and back, so that a handling can meet objects left
by two earlier ones. *Telemetry*: with a limit of one, two tasks fill the set and the third is
dropped, or comes once a callback made room, before, while or after `main` looks. *Alerting*:
six seconds hold two alerts and the gap between, less than the longest call, so entries expire
while one is on its way; eighteen are three windows. *Dashboard*: the third session evicts one
that may announce itself again; the third event overflows a queue. *Pages*: three rows are three
full pages and an empty one; with the second written between the count and the page, and the
third late and older than both or as old as one of them, each place in front of and behind the
offset is reached.

Symmetry is used only in runs without liveness. `CHECK_DEADLOCK FALSE` where the
system may really stop: all messages settled, all goroutines returned, all
deliveries used, the quota reached with nothing left that succeeds (files), the session
over (shell), the process exited (adapters, telemetry), the Decoy gone and its objects
collected (operator), the bound on time, on events or on timestamps reached with no call on its
way (alerting, limiter, dashboard), the list read (pages).

Fairness (`FairSpec` of `SiemForwarder`): weak fairness of each goroutine's step (the
Go scheduler, the flush ticker, JetStream serving a pull), of the ack wait of each
message and of the breaker's cooldown (time passes) and of the end of a signalled
process. No fairness on faults. Retries and deliveries being bounded, weak fairness
is enough. `FairSpec` of `SshServer`: weak fairness of a shell's coroutine where it
waits for an event of the decoy's own or has lost its connection (the event loop
resumes it, reading from a lost connection returns); none on input. `FairSpec` of
`Adapters`: weak fairness of the reader, of the publisher and of `main`, three goroutines
whose calls return (JetStream's publish has a timeout); none on the honeypot and on signals. A
reader that waits to send to a full channel is not enabled, so the hang that
`ShutdownEndsOrSticks` admits is the code's, not a lack of fairness. `FairSpec` of
`Operator`: weak fairness of the operator's one process (kopf calls a handler that is due,
a request returns or fails) and of garbage collection; none on the user, the pods, or
the success of a call.

A violation run states what a docstring or document of the repository says. It has an entry under
`findings` in `PROJECT.json`, next to the further disagreements between code, comments and
documents that were met while modelling; the models follow the code in all of them.

## 5. Proofs

All proof modules are for every value of the constants that meets the named
assumptions (`ForwarderAssumption` and `ThresholdAssumption`; `AnalyzerAssumption` and
`PipelineAssumption`; `FilesystemAssumption` and `ShellAssumption`; `AuthAssumption` and `ServerAssumption`; `AdaptersAssumption`;
`OperatorAssumption`; `LimitsAssumption`; `AdaptiveAssumption`; `TelemetryAssumption`;
`AlertingAssumption`, `LimiterAssumption`, `DashboardAssumption` and `PagesAssumption`), which TLC evaluates in the runs.

`SiemForwarderProofs`: the properties of the forwarder are not inductive one by one.
That an acked message is handled needs to know, at the step that acks, that the
records reported delivered are confirmed; that nothing is sent twice needs to know
that a confirmed record is either about to be acked or acked; that nothing is
forgotten needs to know that a goroutine that returned holds nothing. `HoldingInv`
says these things, `ForwarderInv` is its conjunction with the properties, and the
theorem `ForwarderInvariant` proves it inductive with a lemma per action. From it follow
type correctness, the safety invariants (with `AckedIsHandled`, which no run lists because
`ImplementsDelivery` implies it), `BreakerLeavesOpenByCooldown` and the refinement
`ForwarderImplementsDelivery`.

`CtiPipelineProofs` is first about one call: each method of the analyzer keeps its memory
consistent (`Memory`: the recency order lists the tracked sessions without repetition,
from which its length follows, a closed session is not tracked, every cap holds). It needs a
cap of at least two on the seen events, for half of one is nothing and the trim would
leave the overflow; the code's cap is 100000.
It then carries this through the awaits. `CtiInv` has a part for each group of
variables and a lemma for each part, since the properties fail to be inductive for different
reasons: that an event is stored at most as often as it was delivered needs to know which
messages in the batch have their insert still before them (`StoreInv`); that an alert goes out
once, that one still to be published was not published and is remembered by the analyzer
(`RaisedInv`); that a row is final, that the one summary still to be written of a closed
session is for a row nobody has written, while all others are of forgotten sessions
(`FinalInv`); that nothing is raised for a closed session, that an alert still in hand is of a session
that is open or forgotten (`OpenInv`); that an escape is backed, that a mark is only ahead of an alert already
stored (`FalcoInv`). All properties that the two CTI runs check follow, for any number
of sessions, events, alerts and faults.

`SessionFilesProofs`: first the facts about paths (those above a path form a chain),
then that replacing a node keeps a tree a tree, then what `_ensure_overlay_dir` makes:
the missing directories form a chain of which it makes the upper part, and its
count cannot pass the quota (by taking, among those made, one below all others:
the library's minimum of a non-empty set under a well-founded order). `Sound` (a tree, within
its quota) is then kept by every operation and so by every command. `TypeCorrect`,
`QuotaAlways` and `NoOrphansAlways` follow. The second half is about what is seen. That a
written file is seen where its directory is needs to know that no path holds a tombstone and
a file at once (`FilesHere`), which every operation keeps; `Local` says of an operation that
nothing but what lies above or below its path is seen differently, and of a removal that it
shows nothing new. A step then keeps `Written`, the part of `WrittenIsSeen` about the last
command, and is a `RelatedStep` and a `HidingStep`: one lemma per command (`StepDone`) gives
the invariant and both action properties.

`AdaptersProofs`: that the stream follows the log is not inductive, since an event is
out of the model's sight in between. `AdaptersInv` orders all places at once: what is
stored comes before what is in flight, that before the channel, that before what the
reader holds, and the one exception is the copy that a failed first attempt leaves at
the stream's end. `EveryEventAccounted` counts the events among the lines that were read:
only `ScanLine` adds one (the interval grows by one line), and every other action moves
one from one place to the next.

`OperationsProofs`, the operator: that a handling without an error has applied everything needs to
know, at each place of the handler, what is applied already (`AppliedSoFar`): the secret
when the deployment is read, both when the service is read. One exception is the code's own: a spec without
credentials takes nothing away, so what the deployment then has is from an earlier spec, with its
secret still there. `Handling` ties the handler's
place to the Decoy, to what kopf recorded and to what the last read returned. From
`OperatorInv` follow type correctness (hence that the phase is only ever one the CRD
admits), `ReferencesAlwaysResolve` and `CompleteAlwaysApplied`.

`OperationsProofs`, the limiters: a limiter forgets, and yet decides as one that does not.
`Remembers` says how: what it holds is the history from some place on, and all before that place
has expired. Purging and recording keep this, and `CountTells` derives from it that the length
of what is held and one entry of the history tell the same. That the limit holds although
the request is awaited between the check and the record needs a second fact, `Cleared`: while
a call is on its way, the limiter would still let it through, since time only makes entries
older and no other call records any. With it each step of both limiters maps to a step or a
stutter of `RateWindow` (`AlertsImplementRateWindow`, `LimiterImplementsRateWindow`), of which
`DeliveredWithinLimit` and `LetThroughWithinLimit` spell out the promise. How long a call holds
the loop up is counted by `Spent`, attempt by attempt.

`OperationsProofs`, the dashboard: that an event is attributed to its own session needs to know
that what is cached of a session is what it said, or nothing once it was forgotten (`Tells`). That
the cache is in the order of the last announcements is kept by moving an entry to the end
(`MovedIs`), from which follows that no session is in it twice; that of evicting, that all which
is forgotten is older. The pages rest on this: an order a statement
has the items in is a bijection to the numbers from 0, so the size of a page
follows from its offset alone (`PageSize`), whatever order the statement has. An item that is
alone has in each of these orders the place that its rank is (`AlonePlace`), and a row that is
written, early or late, neither lowers the rank of an item that stays nor makes one alone that was
not (`RankGrows`).

`SshServerProofs`: the counters are sets counted elsewhere (`RunningOnes`, `OpenOnes`), so
each action is shown to add a connection to its set, to take one out or to leave it.
`AddressFits` carries the lockout: guesses are at most the attempts counted while there is no
lockout, below the limit during one, and none after it. `ShellFits` says at each place of a
shell how often it has reported its end, from which `EndAlwaysReported`, an action property,
follows together with `CountersAlwaysAgree`. For the telemetry, `Sighted` says that a task
at work is in the set, that nothing is cancelled before `main` has done its waiting, and that
during it each early task that has not ended is one `main` waits for; `AlwaysDrainedFirst`
follows, for any events and any limit.

`HttpSessionsProofs`: an action goes through several tables of sessions (what eviction
leaves, what the lookup opens, what the route writes), so the invariant `State` speaks of any
table, number of identifiers, pages and requests. `TableFits`: a live session's token was not
accepted yet and is on a page its address was sent, no two sessions hold one token, and a
session is greeted exactly when it was seen. `RequestsFit`: requests name sessions of
their own address, also sessions that are gone, which is why identifiers must not be drawn
twice. From these follow `AlwaysOneAddress`, `AlwaysGreetedOnce` and `TokensSpentOnce`, for
any number of requests, addresses and sessions, whatever is evicted and at any restart.
`CountersAgree` counts the credentials the live sessions hold as pairs of a session and a
place (`Held`), so that a step adds at most one pair for one added to the total and eviction
takes pairs away: a sum over the sessions would need induction over data.

`CommandsProofs`, the adaptive tier: the two caches are sequences without a repeated key (`Distinct`); taking
an entry out, moving it to the end, and putting one in with the oldest evicted, keep them so and
within their capacity. `Sound` adds that each entry's text was made for its key. A request on
its way carries its key, and what it may yet answer was made for that key (`CommandInv`,
`Fits`): that is what overlapping requests, a gateway that goes on for nobody and a flush
between lookup and insertion might have broken. `LostWhenFull` follows from the place the
session was at: a command ends without its event only there, a hit was in the router's cache when
it was found, and only a `Put` at capacity takes an entry away without putting it back.

`CommandsProofs`, the shell. Folds over a line's commands and a text's lines are what the code's
loops are, and induction over data is out of reach; so a fold is turned into the sequence of its
intermediate results. The library defines a fold by a `CHOOSE` of a function that satisfies the
recursion: `FoldExists` builds one, a number at a time, so the chosen one gives each step
(`IsFold`). What then holds of every step follows from the least number at which it would fail
(`LeastNumber`, `StepByStep`, `StaysIn`): induction for a set of numbers instead of an operator,
from the library's theorem that the naturals are well-founded.

- Filters. Each branch of `_apply_pipe` has a lemma that compares it with its program, for any
  text: `uniq`'s groups are its runs, `sort`'s ranks are a stable permutation in the program's
  order, `cut`, `awk` and `grep` keep the lines the program's positions name. `FilterAgrees` puts
  them together.
- Sessions. `LinesInv` is inductive: a session is in `State` (a directory, a value for each
  variable, a text or nothing in the file), and PWD is the directory between lines, unless the
  one before raised; within a line it lags behind. `LineState` gives the first part for every line, the lines the
  code takes apart wrongly included. With `FilterAgrees` it gives `FiltersDo`.
- Lines. Decoy and shell run side by side. `Alike` relates their states within a line (equal
  but for PWD), `Follows` the outcome of one command, `CommandFollows` proves it for each
  command and `Matches` carries it along a list, a loop or a branch: the outputs the decoy joins
  are the lines the shell prints, in that order, empty lines and error messages aside. The PWD
  a line begins with may be stale: it is plain if no command shows it where the shell's is another. `DecoyFollowsShell` is the result for one line from any state, `LinesDo` for a session.
- Pipes. `Shell` is never plain for a line with a pipe, so `PipesRunPrograms` says of it what can
  be said: beyond the limit nothing is run; up to it the first command leaves what it leaves on a line of its own, and along the pipe each
  filter prints what its program prints of what it was handed, whatever the filters before it
  did, listed differences included; every output is a text again (`FilterType`), and after a
  filter that raises there is none.

What `ShellAssumption` says of the constants is their type: the lines are lines (`IsLine`), of
any length, the filters are filters, texts are texts, and the numbers that stand for error
messages are numbers. Nothing is assumed of how many there are.

Some invariants are proved and stand in no run, for a run would only repeat the proof on a few
values: the type invariants of the forwarder, the adapters, the operator, the adaptive tier, the
shell's sessions, telemetry, alerting and the dashboard (with the bounds in them: on the tasks in
the background, on the time a call to the webhook takes, on the cache), `GreetedOnce`,
`LostOnlyWhenFull`, `Spaced`, `RefusedRightly`, `LeastRecentlyTold` and `EachOnce`.

Every invariant and every action property of the runs is proved. Only model-checked are the
liveness properties, for which there is no prover here: `EveryMessageSettles` of the forwarder,
`SlotComesBack` of the SSH server, `ShutdownEndsOrSticks` of the adapters, `LatestSpecHandled` and
`EverythingCollected` of the operator. `ContextIsAccepted` is a claim the code refutes.

## 6. Not modelled, and why

Pure tables and conversions (enrichment, Engage mapper, formatter, HiFi engine and base
filesystem, prompts and response filters, the fast path's and the profile's tables of the
shell), because no control depends on them. The dashboard's
statistics and its other lists, which are queries that render what they read. The command
line client, which keeps no state. Charts, schema, profiles and scripts, which are
declarations and data. T-Pot's translations, which the code cannot reach. The language
model, NATS, TimescaleDB, asyncssh, kopf and Kubernetes themselves are external.

One limit of the operator that the model has and no property asserts away: when the
operator dies between two objects and the user reverts the edit before it is back, kopf
sees nothing to handle and the objects of the abandoned spec stay.
