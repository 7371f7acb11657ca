---------------------------- MODULE SiemForwarder ----------------------------
(* The SIEM forwarder (siem-forwarder/consumer.go): one goroutine per         *)
(* JetStream stream pulls messages into a batch and flushes the batch to a    *)
(* sink through retries, a dead-letter subject and one circuit breaker that   *)
(* all goroutines share.                                                      *)
(*                                                                            *)
(* JetStream, the SIEM behind the sink and the NATS client are external: they *)
(* are modelled by what flushBatch can observe and what they may do to it (a  *)
(* send whose result is an error although the record was stored, an Ack that  *)
(* never arrives, an ack wait that runs out, a process that dies).  Messages  *)
(* are model values, formatting leaves no trace.                              *)
EXTENDS CircuitBreaker, FiniteSets

CONSTANTS Streams,      \* the configured stream/consumer pairs
          Messages,     \* all the messages of all the streams
          StreamOf,     \* the stream a message is published on
          BatchSize,    \* cfg.BatchSize
          MaxRetries,   \* RetryPolicy.MaxRetries
          MaxDeliver,   \* max_deliver of the durable consumers
          MaxRestarts,  \* bound: times the process may die and come back
          MaxLost,      \* bound: Acks and Naks the NATS connection may lose
          DlqFails,     \* whether nc.Publish may return an error
          Unbound       \* streams whose durable consumer nobody created

ASSUME ForwarderAssumption ==
    /\ StreamOf \in [Messages -> Streams]
    /\ Unbound \subseteq Streams
    /\ BatchSize \in Nat \ {0}
    /\ MaxDeliver \in Nat \ {0}
    /\ MaxRetries \in Nat /\ MaxRestarts \in Nat /\ MaxLost \in Nat
    /\ IsFiniteSet(Messages)
    /\ DlqFails \in BOOLEAN

VARIABLES
    broker,     \* what the durable consumer holds of a message
    deliveries, \* how often it was delivered
    confirmed,  \* how often the sink reported it delivered; 2 stands for more
    dlq,        \* messages handed to nc.Publish(dlqSubject) without an error
    excused,    \* an Ack or Nak of it was lost, its ack wait ran out or its holder died
    pc,         \* where a stream's goroutine is
    batch,      \* the messages it holds and has not settled yet
    reported,   \* those the last Send reported without an error
    attempt,    \* the retry it is in, 0 for the first send
    ctxDone,    \* SIGTERM was received and ctx cancelled
    restarts, lost

brokerVars == <<broker, deliveries>>
sinkVars   == <<confirmed, dlq, excused>>
procVars   == <<pc, batch, reported, attempt>>
envVars    == <<ctxDone, restarts, lost>>
vars == <<brokerVars, sinkVars, procVars, envVars, cbVars>>

Locations == {"idle", "send", "settle", "backoff", "deadletter", "stopped"}

----------------------------------------------------------------------------
(* JetStream: a message is ready to be pulled, pending an acknowledgement,    *)
(* acked, or exhausted: delivered max_deliver times without an Ack.           *)
AfterRequeue(m) == IF deliveries[m] >= MaxDeliver THEN "exhausted" ELSE "ready"

\* The server's state after it has received Acks for A and Naks for N.  An Ack
\* still counts after the ack wait ran out, a Nak does not.
Settled(A, N) ==
    [m \in Messages |->
        IF m \in A THEN IF broker[m] = "exhausted" THEN "exhausted" ELSE "acked"
        ELSE IF m \in N /\ broker[m] = "pending" THEN AfterRequeue(m)
        ELSE broker[m]]

\* Acks and Naks are fire and forget: the connection may lose some of them.
AckAndNak(A, N) ==
    \E L \in SUBSET (A \cup N) :
        /\ lost + Cardinality(L) <= MaxLost
        /\ lost' = lost + Cardinality(L)
        /\ broker' = Settled(A \ L, N \ L)
        /\ excused' = excused \cup L
        /\ UNCHANGED deliveries

\* The ack wait of a pending message runs out.  A batch that is still being
\* filled is flushed within FlushInterval + MaxWait = 10 s, under the 30 s wait.
AckWait(m) ==
    /\ broker[m] = "pending"
    /\ \A s \in Streams : pc[s] = "idle" => m \notin batch[s]
    /\ broker' = [broker EXCEPT ![m] = AfterRequeue(m)]
    /\ excused' = excused \cup {m}
    /\ UNCHANGED <<deliveries, confirmed, dlq, procVars, envVars, cbVars>>

----------------------------------------------------------------------------
(* consumeStream.  Steps of a goroutine that only move it on, with nothing    *)
(* another goroutine or the server could see in between, are one step here.   *)
Goto(s, l) == pc' = [pc EXCEPT ![s] = l]

\* The default branch of the select: Fetch returns some of the messages that
\* are ready (a fetch that times out changes nothing).  A full batch is not
\* added to, so the only step left for it is the flush.
Fetch(s) ==
    /\ pc[s] = "idle" /\ ~ctxDone
    /\ \E S \in SUBSET {m \in Messages : StreamOf[m] = s /\ broker[m] = "ready"} \ {{}} :
        /\ Cardinality(batch[s] \cup S) <= BatchSize
        /\ batch' = [batch EXCEPT ![s] = @ \cup S]
        /\ broker' = [m \in Messages |-> IF m \in S THEN "pending" ELSE broker[m]]
        /\ deliveries' = [m \in Messages |-> deliveries[m] + IF m \in S THEN 1 ELSE 0]
    /\ UNCHANGED <<sinkVars, pc, reported, attempt, envVars, cbVars>>

\* ctx.Done with nothing held: the goroutine returns.
Stop(s) ==
    /\ pc[s] = "idle" /\ ctxDone /\ batch[s] = {}
    /\ Goto(s, "stopped")
    /\ UNCHANGED <<brokerVars, sinkVars, batch, reported, attempt, envVars, cbVars>>

----------------------------------------------------------------------------
(* flushBatch: called for a full batch, for any batch at a flush tick and for *)
(* what is held when ctx is cancelled.                                        *)
FlushDue(s) == pc[s] = "idle" /\ batch[s] # {}

\* Mutant: the batch is dropped and nobody tells the server.
DropBatch(s) ==
    /\ batch' = [batch EXCEPT ![s] = {}]
    /\ attempt' = [attempt EXCEPT ![s] = 0]
    /\ Goto(s, "idle")
    /\ UNCHANGED <<brokerVars, sinkVars, reported, envVars>>

\* Nak all that is held and return.
NakBatch(s) ==
    /\ AckAndNak({}, batch[s])
    /\ batch' = [batch EXCEPT ![s] = {}]
    /\ attempt' = [attempt EXCEPT ![s] = 0]
    /\ Goto(s, "idle")
    /\ UNCHANGED <<confirmed, dlq, reported, ctxDone, restarts>>

FlushAdmitted(s) ==
    /\ FlushDue(s)
    /\ AdmitFlush
    /\ Goto(s, "send")
    /\ UNCHANGED <<brokerVars, sinkVars, batch, reported, attempt, envVars>>

FlushRejected(s) ==
    /\ FlushDue(s)
    /\ RejectFlush
    /\ NakBatch(s)

\* sink.Send(failed): each record is reported delivered or failed.  A record the
\* SIEM stored may be reported failed (a response that timed out): to the
\* forwarder that is a failure like any other.
Send(s) ==
    /\ pc[s] = "send"
    /\ \E ok \in SUBSET batch[s] :
        /\ reported' = [reported EXCEPT ![s] = ok]
        /\ confirmed' = [m \in Messages |-> IF m \in ok /\ confirmed[m] < 2
                                             THEN confirmed[m] + 1 ELSE confirmed[m]]
    /\ Goto(s, "settle")
    /\ UNCHANGED <<brokerVars, dlq, excused, batch, attempt, envVars, cbVars>>

\* Mutant: the retry sends the whole batch again.
SettleKeepsBatch(s) ==
    /\ pc[s] = "settle"
    /\ AckAndNak(reported[s], {})
    /\ reported' = [reported EXCEPT ![s] = {}]
    /\ UNCHANGED <<batch, confirmed, dlq, ctxDone, restarts>>

\* Mutant: the whole batch is acknowledged once some of it was delivered.
SettleAcksBatch(s) ==
    /\ pc[s] = "settle"
    /\ AckAndNak(batch[s], {})
    /\ batch' = [batch EXCEPT ![s] = @ \ reported[s]]
    /\ reported' = [reported EXCEPT ![s] = {}]
    /\ UNCHANGED <<confirmed, dlq, ctxDone, restarts>>

\* Ack what was reported delivered and keep the rest.
Settle(s) ==
    /\ pc[s] = "settle"
    /\ AckAndNak(reported[s], {})
    /\ batch' = [batch EXCEPT ![s] = @ \ reported[s]]
    /\ reported' = [reported EXCEPT ![s] = {}]
    /\ UNCHANGED <<confirmed, dlq, ctxDone, restarts>>

\* Nothing failed: the breaker hears of a success.
SettleAll(s) ==
    /\ Settle(s)
    /\ batch[s] = reported[s]
    /\ RecordSuccess
    /\ attempt' = [attempt EXCEPT ![s] = 0]
    /\ Goto(s, "idle")

\* Some failed: they are retried or, the retries used up, given up.
SettleSome(s) ==
    /\ Settle(s)
    /\ batch[s] # reported[s]
    /\ Goto(s, IF attempt[s] < MaxRetries THEN "backoff" ELSE "deadletter")
    /\ UNCHANGED <<attempt, cbVars>>

\* Mutant: the attempts are not counted.
RetryForever(s) ==
    /\ pc[s] = "backoff"
    /\ Goto(s, "send")
    /\ UNCHANGED <<brokerVars, sinkVars, batch, reported, attempt, envVars, cbVars>>

\* time.After(delay): the failed records are sent again.
Retry(s) ==
    /\ pc[s] = "backoff"
    /\ attempt' = [attempt EXCEPT ![s] = @ + 1]
    /\ Goto(s, "send")
    /\ UNCHANGED <<brokerVars, sinkVars, batch, reported, envVars, cbVars>>

\* ctx.Done during the backoff: nak and return, with no breaker feedback.
CancelRetry(s) ==
    /\ pc[s] = "backoff" /\ ctxDone
    /\ NakBatch(s)
    /\ UNCHANGED cbVars

\* Exhausted records are published to the dead-letter subject and acked, or
\* nakked when the publish itself fails; the breaker hears of a failure.
DeadLetter(s) ==
    /\ pc[s] = "deadletter"
    /\ \E D \in SUBSET batch[s] :
        /\ DlqFails \/ D = batch[s]
        /\ dlq' = dlq \cup D
        /\ AckAndNak(D, batch[s] \ D)
    /\ RecordFailure
    /\ batch' = [batch EXCEPT ![s] = {}]
    /\ attempt' = [attempt EXCEPT ![s] = 0]
    /\ Goto(s, "idle")
    /\ UNCHANGED <<confirmed, reported, ctxDone, restarts>>

----------------------------------------------------------------------------
(* The process                                                                *)
Everywhere(v) == [s \in Streams |-> v]

\* consumeStream binds to the durable consumer first; without one it returns.
Subscribed == [s \in Streams |-> IF s \in Unbound THEN "stopped" ELSE "idle"]

\* SIGTERM.  A process that was signalled is replaced by the Deployment.
Signal ==
    /\ ~ctxDone /\ restarts < MaxRestarts
    /\ ctxDone' = TRUE
    /\ UNCHANGED <<brokerVars, sinkVars, procVars, restarts, lost, cbVars>>

\* The process ends, by a crash at any time or because main returns 5 s after
\* the signal whatever its goroutines do, and a new one starts.  What was held
\* stays pending at the server.
Restart ==
    /\ restarts < MaxRestarts
    /\ restarts' = restarts + 1
    /\ excused' = excused \cup UNION {batch[s] : s \in Streams}
    /\ pc' = Subscribed
    /\ batch' = Everywhere({}) /\ reported' = Everywhere({}) /\ attempt' = Everywhere(0)
    /\ ctxDone' = FALSE
    /\ BreakerNew
    /\ UNCHANGED <<brokerVars, confirmed, dlq, lost>>

Init ==
    /\ broker = [m \in Messages |-> "ready"]
    /\ deliveries = [m \in Messages |-> 0]
    /\ confirmed = [m \in Messages |-> 0]
    /\ dlq = {}
    /\ excused = {}
    /\ restarts = 0
    /\ lost = 0
    /\ pc = Subscribed
    /\ batch = Everywhere({}) /\ reported = Everywhere({}) /\ attempt = Everywhere(0)
    /\ ctxDone = FALSE
    /\ BreakerInit

\* The steps of one goroutine.
Step(s) ==
    \/ Fetch(s) \/ Stop(s)
    \/ FlushAdmitted(s) \/ FlushRejected(s)
    \/ Send(s) \/ SettleAll(s) \/ SettleSome(s)
    \/ Retry(s) \/ CancelRetry(s) \/ DeadLetter(s)

TimePasses == CoolDown /\ UNCHANGED <<brokerVars, sinkVars, procVars, envVars>>

Next ==
    \/ \E s \in Streams : Step(s)
    \/ \E m \in Messages : AckWait(m)
    \/ TimePasses
    \/ Signal
    \/ Restart

Spec == Init /\ [][Next]_vars

(* A goroutine that can move is scheduled: the select takes a flush tick that *)
(* is due before it fetches again, and JetStream serves a pull while messages *)
(* are ready.  Of the environment, the ack wait and the cooldown run out, and *)
(* a signalled process ends.                                                  *)
Fairness ==
    /\ \A s \in Streams : WF_vars(Step(s))
    /\ \A m \in Messages : WF_vars(AckWait(m))
    /\ WF_vars(TimePasses)
    /\ WF_vars(ctxDone /\ Restart)

FairSpec == Spec /\ Fairness

----------------------------------------------------------------------------
TypeOK ==
    /\ broker \in [Messages -> {"ready", "pending", "acked", "exhausted"}]
    /\ deliveries \in [Messages -> 0..MaxDeliver]
    /\ confirmed \in [Messages -> 0..2]
    /\ dlq \in SUBSET Messages
    /\ excused \in SUBSET Messages
    /\ pc \in [Streams -> Locations]
    /\ batch \in [Streams -> SUBSET Messages]
    /\ \A s \in Streams : \A m \in batch[s] : StreamOf[m] = s
    /\ reported \in [Streams -> SUBSET Messages]
    /\ attempt \in [Streams -> 0..MaxRetries]
    /\ ctxDone \in BOOLEAN
    /\ restarts \in 0..MaxRestarts
    /\ lost \in 0..MaxLost
    /\ BreakerTypeOK

(* No message is acknowledged before the SIEM stored it or the dead-letter    *)
(* subject took it, whichever of the first send, a retry or the dead-letter   *)
(* branch of flushBatch acknowledges it (consumer.go 308, 344, 404).          *)
AckedIsHandled ==
    \A m \in Messages : broker[m] = "acked" => confirmed[m] > 0 \/ m \in dlq

(* flushBatch settles every message of its batch on every path out of it, the *)
(* shed batch (228), the cancelled backoff (326) and the failed dead-letter   *)
(* publish (389) included, and never one it does not hold: what the server    *)
(* waits for is exactly what a live goroutine holds, unless a fault outside   *)
(* the function (a lost Ack or Nak, an expired ack wait, a dead process)      *)
(* broke the correspondence for that message.                                 *)
NothingForgotten ==
    \A m \in Messages \ excused :
        broker[m] = "pending" <=> m \in batch[StreamOf[m]] /\ pc[StreamOf[m]] # "stopped"

(* The forwarder itself never sends again what the sink confirmed: a second   *)
(* confirmed copy needs a redelivery by the server after a fault.  The retry  *)
(* loop sends `failed` and never the batch (336), what was confirmed leaves   *)
(* it and is acknowledged, and the early returns nak only what is left.       *)
ConfirmedOnce ==
    \A m \in Messages \ excused : confirmed[m] <= 1

(* Only the cooldown lets an open breaker go, and only to half-open; results  *)
(* of flushes that were admitted before it tripped, which other goroutines    *)
(* may report at any time, never close it (RecordSuccess, 141-151).           *)
BreakerLeavesOpenByCooldown ==
    [][cbState = "open" /\ cbState' # "open"
       => (cbState' = "half-open" /\ cooled) \/ restarts' # restarts]_vars

(* Every message of a stream that could subscribe is in the end acknowledged  *)
(* or has used up its deliveries: no flush is stuck, no batch is held for     *)
(* ever, whatever the breaker does.                                           *)
EveryMessageSettles ==
    \A m \in Messages :
        StreamOf[m] \notin Unbound => <>(broker[m] \in {"acked", "exhausted"})

(* What holds the properties above together.  The result of a send names      *)
(* records of the batch, kept until they are acknowledged; a goroutine that   *)
(* returned holds nothing; nothing held is acknowledged; and a confirmed      *)
(* record is either about to be acknowledged or acknowledged.                 *)
HoldingInv ==
    /\ \A s \in Streams :
        /\ reported[s] \subseteq batch[s]
        /\ pc[s] # "settle" => reported[s] = {}
        /\ pc[s] = "stopped" => batch[s] = {}
        /\ pc[s] = "backoff" => attempt[s] < MaxRetries
        /\ \A m \in batch[s] : broker[m] # "acked"
        /\ \A m \in reported[s] : confirmed[m] > 0
    /\ \A m \in Messages : broker[m] = "ready" => deliveries[m] < MaxDeliver
    /\ \A m \in Messages \ excused :
        confirmed[m] > 0 => m \in reported[StreamOf[m]] \/ broker[m] = "acked"

ForwarderInv ==
    TypeOK /\ BreakerCountersAgree /\ AckedIsHandled /\ NothingForgotten
    /\ ConfirmedOnce /\ HoldingInv

----------------------------------------------------------------------------
(* The forwarder implements at-least-once delivery.                           *)
Acked == {m \in Messages : broker[m] = "acked"}

Delivery == INSTANCE SiemDelivery WITH
    stored <- {m \in Messages : confirmed[m] > 0},
    dead   <- dlq,
    acked  <- Acked

ImplementsDelivery == Delivery!Spec
=============================================================================
