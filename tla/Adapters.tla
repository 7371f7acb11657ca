------------------------------- MODULE Adapters -------------------------------
(* A honeypot adapter process (adapters/cmd/adapter/main.go): the main        *)
(* goroutine reads a honeypot's log and sends what it translates over a       *)
(* bounded channel to the publisher goroutine, which publishes to NATS; a     *)
(* signal cancels the context both look at, each in its own place.            *)
(*                                                                            *)
(* The log file, the honeypot that writes it, NATS and the Go scanner are     *)
(* external.  A line is its kind, an event the number of the line it was      *)
(* translated from.                                                           *)
EXTENDS Naturals, Sequences, FiniteSets

CONSTANTS Sources,   \* values of ADAPTER_TYPE
          Native,    \* the kinds of lines a source writes
          Capacity,  \* size of the channel
          MaxLines   \* bound: lines of the log file

ASSUME AdaptersAssumption ==
    /\ Sources \subseteq {"cowrie", "dionaea", "tpot"}
    /\ Capacity \in Nat \ {0}
    /\ MaxLines \in Nat

VARIABLES
    source,     \* ADAPTER_TYPE
    file,       \* the kinds of the lines in the log, in order
    begin,      \* the lines that were there when Start sought the end
    pos,        \* the lines the scanner has returned, those before begin included
    scanner,    \* "open", or "ended" once Scan has returned false
    reader,     \* where the main goroutine is in Start
    hand,       \* the event it is sending, 0 for none
    channel,    \* the events sent and not received
    publisher,  \* where the publisher goroutine is in Run
    inFlight,   \* the event it is publishing, 0 for none
    published, errors, \* its counters
    stream,     \* what the stream has stored, in order
    conn,       \* the NATS connection
    ctxDone,    \* ctx is cancelled
    process     \* where main is

logVars == <<source, file>>
readerVars == <<begin, pos, scanner, reader, hand>>
publisherVars == <<publisher, inFlight, published, errors, stream>>
mainVars == <<conn, ctxDone, process>>
vars == <<logVars, readerVars, channel, publisherVars, mainVars>>

----------------------------------------------------------------------------
(* Translation: the schema's type of a native event, Untranslated for a kind  *)
(* that translate leaves out (it returns nil and no error).                   *)
Untranslated == "none"

CowrieType(kind) ==
    CASE kind \in {"cowrie.session.connect", "cowrie.client.version"}  -> "connection"
      [] kind \in {"cowrie.login.success", "cowrie.login.failed"}      -> "auth.attempt"
      [] kind \in {"cowrie.command.input", "cowrie.command.failed"}    -> "command.exec"
      [] kind \in {"cowrie.session.file_download",
                   "cowrie.session.file_upload"}                       -> "file.access"
      [] kind = "cowrie.session.closed"                                -> "session.closed"
      [] OTHER                                                         -> Untranslated

DionaeaType(kind) ==
    CASE kind = "connection" -> "connection"
      [] kind = "download"   -> "file.access"
      [] kind = "login"      -> "auth.attempt"
      [] OTHER               -> Untranslated

\* Lines that are no JSON object: translate returns an error.
NotJson == {"garbled"}
\* A line longer than the scanner's buffer of 64 kB.
TooLong == {"overlong"}

EventType(kind) == IF source = "cowrie" THEN CowrieType(kind) ELSE DionaeaType(kind)

\* Is line i one that becomes an event?
IsEvent(i) == /\ file[i] \notin NotJson \cup TooLong
              /\ EventType(file[i]) # Untranslated

----------------------------------------------------------------------------
(* The honeypot appends lines, from before the adapter starts.                *)
WriteLine ==
    /\ process # "exited" /\ Len(file) < MaxLines
    /\ \E kind \in Native[source] : file' = Append(file, kind)
    /\ UNCHANGED <<source, readerVars, channel, publisherVars, mainVars>>

----------------------------------------------------------------------------
(* main.  tpot's HealthCheck returns nil without looking, the others' stats   *)
(* the log; a log that cannot be opened ends the process at once.             *)
Alive == process \in {"running", "exiting"}

Refuse ==
    /\ process = "starting" /\ source # "tpot"
    /\ process' = "exited"
    /\ UNCHANGED <<logVars, readerVars, channel, publisherVars, conn, ctxDone>>

\* HealthCheck, the publisher's goroutine and Start up to its loop, which seeks
\* to the end of the log.
Begin ==
    /\ process = "starting"
    /\ process' = "running"
    /\ publisher' = "select"
    /\ reader' = "loop" /\ begin' = Len(file) /\ pos' = Len(file)
    /\ UNCHANGED <<logVars, scanner, hand, channel, inFlight, published, errors, stream,
                   conn, ctxDone>>

\* SIGINT or SIGTERM: the signal goroutine cancels ctx.
Signal ==
    /\ process \in {"starting", "running"} /\ ~ctxDone
    /\ ctxDone' = TRUE
    /\ UNCHANGED <<logVars, readerVars, channel, publisherVars, conn, process>>

\* Mutant: main waits for the channel to be drained.
MainReturnsDrained ==
    /\ process = "running" /\ reader = "returned" /\ channel = <<>>
    /\ process' = "exiting" /\ ctxDone' = TRUE /\ conn' = "closed"
    /\ UNCHANGED <<logVars, readerVars, channel, publisherVars>>

\* Start has returned: main's deferred calls cancel ctx and close the connection.
MainReturns ==
    /\ process = "running" /\ reader = "returned"
    /\ process' = "exiting" /\ ctxDone' = TRUE /\ conn' = "closed"
    /\ UNCHANGED <<logVars, readerVars, channel, publisherVars>>

\* The process ends with whatever the publisher and the channel hold.
Exit ==
    /\ process = "exiting"
    /\ process' = "exited"
    /\ UNCHANGED <<logVars, readerVars, channel, publisherVars, conn, ctxDone>>

----------------------------------------------------------------------------
(* Start of cowrie and dionaea: one turn of the loop, at its select.          *)
ReaderReady == process = "running" /\ reader = "loop"

StartReturns ==
    /\ ReaderReady /\ ctxDone /\ source # "tpot"
    /\ reader' = "returned"
    /\ UNCHANGED <<logVars, begin, pos, scanner, hand, channel, publisherVars, mainVars>>

\* Scan returns a line: what is no event is skipped, an event is to be sent.
ScanLine ==
    /\ ReaderReady /\ ~ctxDone /\ source # "tpot"
    /\ scanner = "open" /\ pos < Len(file) /\ file[pos + 1] \notin TooLong
    /\ pos' = pos + 1
    /\ IF IsEvent(pos + 1) THEN reader' = "send" /\ hand' = pos + 1
                           ELSE UNCHANGED <<reader, hand>>
    /\ UNCHANGED <<logVars, begin, scanner, channel, publisherVars, mainVars>>

\* Scan returns FALSE, at the end of the file or for a line that is too long.  A
\* bufio.Scanner that has returned FALSE never returns TRUE again; the loop
\* sleeps 100 ms and calls it again, which changes nothing.
ScanEnds ==
    /\ ReaderReady /\ ~ctxDone /\ source # "tpot"
    /\ scanner = "open"
    /\ pos < Len(file) => file[pos + 1] \in TooLong
    /\ scanner' = "ended"
    /\ UNCHANGED <<logVars, begin, pos, reader, hand, channel, publisherVars, mainVars>>

\* events <- *event: blocks while the channel is full, whatever ctx says.
Send ==
    /\ process = "running" /\ reader = "send" /\ Len(channel) < Capacity
    /\ channel' = Append(channel, hand)
    /\ reader' = "loop" /\ hand' = 0
    /\ UNCHANGED <<logVars, begin, pos, scanner, publisherVars, mainVars>>

\* Start of tpot: main leaves its PollInterval 0, for which time.NewTicker panics;
\* the deferred calls run and the process dies.
TpotPanics ==
    /\ ReaderReady /\ source = "tpot"
    /\ reader' = "returned" /\ process' = "exiting" /\ ctxDone' = TRUE /\ conn' = "closed"
    /\ UNCHANGED <<logVars, begin, pos, scanner, hand, channel, publisherVars>>

----------------------------------------------------------------------------
(* Run of the publisher.  When ctx is cancelled and an event is ready the     *)
(* select takes either.                                                       *)
PublisherStops ==
    /\ Alive /\ publisher = "select" /\ ctxDone
    /\ publisher' = "stopped" /\ conn' = "closed"
    /\ UNCHANGED <<logVars, readerVars, channel, inFlight, published, errors, stream,
                   ctxDone, process>>

Receive ==
    /\ Alive /\ publisher = "select" /\ channel # <<>>
    /\ inFlight' = Head(channel) /\ channel' = Tail(channel)
    /\ publisher' = "first"
    /\ UNCHANGED <<logVars, readerVars, published, errors, stream, mainVars>>

\* publish: JetStream, and core NATS when that returns an error.  An error of
\* JetStream's does not say that the event was not stored (its answer may be late
\* or lost), and core NATS returns before the event has left the process.
PublishOutcomes ==
    IF conn = "closed" THEN {[ok |-> FALSE, copies |-> 0]}
    ELSE [ok : {TRUE}, copies : 0..2] \cup [ok : {FALSE}, copies : 0..1]

Store(copies) == stream' = stream \o [i \in 1..copies |-> inFlight]

\* Mutant: an event that failed goes to the back of the channel.
PublishFirstRequeues ==
    /\ Alive /\ publisher = "first"
    /\ \E o \in PublishOutcomes :
        /\ Store(o.copies)
        /\ IF o.ok THEN published' = published + 1 /\ UNCHANGED channel
                   ELSE channel' = Append(channel, inFlight) /\ UNCHANGED published
    /\ publisher' = "select" /\ inFlight' = 0
    /\ UNCHANGED <<logVars, readerVars, errors, mainVars>>

\* The first attempt; after an error Run sleeps 100 ms and tries again.
PublishFirst ==
    /\ Alive /\ publisher = "first"
    /\ \E o \in PublishOutcomes :
        /\ Store(o.copies)
        /\ IF o.ok THEN publisher' = "select" /\ inFlight' = 0 /\ published' = published + 1
                   ELSE publisher' = "second" /\ UNCHANGED <<inFlight, published>>
    /\ UNCHANGED <<logVars, readerVars, channel, errors, mainVars>>

\* Mutant: the failed retry is not counted.
PublishSecondDrops ==
    /\ Alive /\ publisher = "second"
    /\ \E o \in PublishOutcomes :
        /\ Store(o.copies)
        /\ published' = published + (IF o.ok THEN 1 ELSE 0)
    /\ publisher' = "select" /\ inFlight' = 0
    /\ UNCHANGED <<logVars, readerVars, channel, errors, mainVars>>

\* The only retry: an event that fails again is counted and dropped.
PublishSecond ==
    /\ Alive /\ publisher = "second"
    /\ \E o \in PublishOutcomes :
        /\ Store(o.copies)
        /\ published' = published + (IF o.ok THEN 1 ELSE 0)
        /\ errors' = errors + (IF o.ok THEN 0 ELSE 1)
    /\ publisher' = "select" /\ inFlight' = 0
    /\ UNCHANGED <<logVars, readerVars, channel, mainVars>>

----------------------------------------------------------------------------
Init ==
    /\ source \in Sources /\ file = <<>>
    /\ begin = 0 /\ pos = 0 /\ scanner = "open" /\ reader = "starting" /\ hand = 0
    /\ channel = <<>>
    /\ publisher = "starting" /\ inFlight = 0 /\ published = 0 /\ errors = 0
    /\ stream = <<>>
    /\ conn = "open" /\ ctxDone = FALSE /\ process = "starting"

Reader == StartReturns \/ ScanLine \/ ScanEnds \/ Send \/ TpotPanics
Publisher == PublisherStops \/ Receive \/ PublishFirst \/ PublishSecond
Main == Refuse \/ Begin \/ MainReturns \/ Exit

Next == WriteLine \/ Signal \/ Reader \/ Publisher \/ Main

\* The goroutines run, and the calls they wait for return (JetStream's publish
\* after its timeout); the honeypot and the signals are nobody's duty.  A
\* goroutine's step stays enabled until it is taken but for PublisherStops and
\* Receive, which are one goroutine's choice.
Fairness == WF_vars(Reader) /\ WF_vars(Publisher) /\ WF_vars(Main)

Spec == Init /\ [][Next]_vars
FairSpec == Spec /\ Fairness

----------------------------------------------------------------------------
(* Properties.                                                                *)

\* The variables hold what the program can put into them; the reader holds an
\* event exactly while it sends, the publisher while it publishes.
TypeOK ==
    /\ source \in Sources
    /\ Len(file) <= MaxLines /\ begin \in 0..pos /\ pos \in 0..Len(file)
    /\ scanner \in {"open", "ended"}
    /\ reader \in {"starting", "loop", "send", "returned"}
    /\ hand \in 0..pos /\ (hand # 0 <=> reader = "send")
    /\ channel \in Seq(1..pos) /\ Len(channel) <= Capacity
    /\ publisher \in {"starting", "select", "first", "second", "stopped"}
    /\ inFlight \in 0..pos /\ (inFlight # 0 <=> publisher \in {"first", "second"})
    /\ published \in Nat /\ errors \in Nat /\ stream \in Seq(1..pos)
    /\ conn \in {"open", "closed"} /\ ctxDone \in BOOLEAN
    /\ process \in {"starting", "running", "exiting", "exited"}

Held(e) == IF e = 0 THEN 0 ELSE 1

\* Every event of a line the scanner returned is counted as published, counted as
\* an error, or is with the reader, in the channel or with the publisher: no path
\* through the two goroutines, the retry and the shutdown included, loses one
\* uncounted while the process lives, and none is counted twice.
EveryEventAccounted ==
    Cardinality({i \in begin + 1..pos : IsEvent(i)})
        = published + errors + Len(channel) + Held(hand) + Held(inFlight)

\* What is not settled yet, in the order in which it will be published.
Pending == (IF inFlight = 0 THEN <<>> ELSE <<inFlight>>) \o channel
             \o (IF hand = 0 THEN <<>> ELSE <<hand>>)

\* The stream holds events of lines written after the adapter began, in the
\* log's order: a fallback or a retry may store an event again (three copies at
\* most), but next to its first copy and before any later event, so a consumer
\* never sees an event older than one it has seen.
StreamFollowsLog ==
    /\ \A k \in 1..Len(stream) : stream[k] > begin /\ IsEvent(stream[k])
    /\ LET all == stream \o Pending IN
       \A j, k \in 1..Len(all) :
           j < k => \/ all[j] < all[k]
                    \/ all[j] = all[k] /\ k <= Len(stream) + Held(inFlight) /\ k - j < 3

\* A shutdown ends the process, or hangs for good in one way only: the reader
\* waits to send to a channel that is full and that the publisher has left.
StuckSending == /\ reader = "send" /\ Len(channel) = Capacity
                /\ publisher = "stopped"
ShutdownEndsOrSticks == ctxDone ~> (process = "exited" \/ StuckSending)
=============================================================================
