------------------------- MODULE SiemForwarderProofs -------------------------
(* Proofs about the SIEM forwarder, for any streams, messages, batch size,    *)
(* retry and delivery limits and any number of restarts and lost Acks or Naks.*)
EXTENDS SiemForwarder, FiniteSetTheorems, TLAPS

(* The server's bookkeeping stays in its domain and touches only what it is   *)
(* told of: the one helper every settling step goes through.                  *)
LEMMA SettledType ==
    ASSUME TypeOK, NEW A \in SUBSET Messages, NEW N \in SUBSET Messages
    PROVE  /\ Settled(A, N) \in [Messages -> {"ready", "pending", "acked", "exhausted"}]
           /\ \A m \in Messages : Settled(A, N)[m] = "acked" => m \in A \/ broker[m] = "acked"
           /\ \A m \in Messages : Settled(A, N)[m] = "ready"
                 => broker[m] = "ready" \/ deliveries[m] < MaxDeliver
           /\ \A m \in Messages : broker[m] = "acked" => Settled(A, N)[m] = "acked"
           /\ \A m \in Messages :
                 Settled(A, N)[m] = "pending" <=> broker[m] = "pending" /\ m \notin A \cup N
           /\ \A m \in A : broker[m] = "pending" => Settled(A, N)[m] = "acked"
BY ForwarderAssumption DEF TypeOK, Settled, AfterRequeue

(* The same for any two sets, as the steps that name their own sets use it.   *)
LEMMA SettledAlways ==
    ASSUME TypeOK
    PROVE  \A X, Y \in SUBSET Messages :
           /\ Settled(X, Y) \in [Messages -> {"ready", "pending", "acked", "exhausted"}]
           /\ \A m \in Messages : Settled(X, Y)[m] = "acked" => m \in X \/ broker[m] = "acked"
           /\ \A m \in Messages : Settled(X, Y)[m] = "ready"
                 => broker[m] = "ready" \/ deliveries[m] < MaxDeliver
           /\ \A m \in Messages : broker[m] = "acked" => Settled(X, Y)[m] = "acked"
           /\ \A m \in Messages :
                 Settled(X, Y)[m] = "pending" <=> broker[m] = "pending" /\ m \notin X \cup Y
BY SettledType

(* AckAndNak keeps the counters of the environment in bounds and loses only   *)
(* Acks and Naks it was asked to send.                                        *)
LEMMA AckAndNakEffect ==
    ASSUME TypeOK, NEW A \in SUBSET Messages, NEW N \in SUBSET Messages, AckAndNak(A, N)
    PROVE  /\ lost' \in 0..MaxLost
           /\ UNCHANGED deliveries
           /\ \E L \in SUBSET (A \cup N) :
                 broker' = Settled(A \ L, N \ L) /\ excused' = excused \cup L
<1>1. PICK L \in SUBSET (A \cup N) : /\ lost + Cardinality(L) <= MaxLost
                                    /\ lost' = lost + Cardinality(L)
                                    /\ broker' = Settled(A \ L, N \ L)
                                    /\ excused' = excused \cup L
                                    /\ UNCHANGED deliveries
  BY DEF AckAndNak
<1>2. IsFiniteSet(L)
  BY ForwarderAssumption, FS_Subset
<1>3. Cardinality(L) \in Nat
  BY <1>2, FS_CardinalityType
<1>4. lost' \in 0..MaxLost
  BY <1>1, <1>3, ForwarderAssumption DEF TypeOK
<1> QED
  BY <1>1, <1>4

LEMMA InitInv == Init => ForwarderInv
<1> SUFFICES ASSUME Init PROVE ForwarderInv
  OBVIOUS
<1> USE DEF Init, BreakerInit, Everywhere, Subscribed
<1>0. BreakerTypeOK
  BY ThresholdAssumption DEF BreakerTypeOK, CircuitStates
<1>1. TypeOK
  <2>1. batch \in [Streams -> SUBSET Messages] /\ reported \in [Streams -> SUBSET Messages]
    OBVIOUS
  <2>2. pc \in [Streams -> Locations]
    BY DEF Locations
  <2>3. /\ deliveries \in [Messages -> 0..MaxDeliver]
        /\ attempt \in [Streams -> 0..MaxRetries]
        /\ restarts \in 0..MaxRestarts
        /\ lost \in 0..MaxLost
        /\ confirmed \in [Messages -> 0..2]
    BY ForwarderAssumption
  <2>4. \A s \in Streams : \A m \in batch[s] : StreamOf[m] = s
    OBVIOUS
  <2>5. ctxDone \in BOOLEAN
    OBVIOUS
  <2> QED
    BY <1>0, <2>1, <2>2, <2>3, <2>4, <2>5 DEF TypeOK
<1>2. BreakerCountersAgree
  BY ThresholdAssumption DEF BreakerCountersAgree
<1>3. AckedIsHandled
  BY DEF AckedIsHandled
<1>4. NothingForgotten
  BY ForwarderAssumption DEF NothingForgotten
<1>5. ConfirmedOnce
  BY DEF ConfirmedOnce
<1>6. HoldingInv
  BY ForwarderAssumption DEF HoldingInv
<1> QED
  BY <1>1, <1>2, <1>3, <1>4, <1>5, <1>6 DEF ForwarderInv

(* Every method of the breaker, called in whatever state late results find    *)
(* it, keeps its counters in agreement with its state.                        *)
LEMMA BreakerStep ==
    ASSUME BreakerTypeOK, BreakerCountersAgree,
           \/ AdmitFlush \/ RejectFlush \/ RecordSuccess \/ RecordFailure
           \/ CoolDown \/ BreakerNew \/ UNCHANGED cbVars
    PROVE  BreakerTypeOK' /\ BreakerCountersAgree'
<1> USE ThresholdAssumption DEF BreakerTypeOK, BreakerCountersAgree, CircuitStates
<1>1. CASE AdmitFlush
  BY <1>1 DEF AdmitFlush
<1>2. CASE RejectFlush \/ UNCHANGED cbVars
  BY <1>2 DEF RejectFlush, cbVars
<1>3. CASE RecordSuccess
  <2>1. cooled' \in BOOLEAN
    BY <1>3 DEF RecordSuccess
  <2>2. CASE SuccessInHalfOpen
    BY <1>3, <2>1, <2>2 DEF RecordSuccess, SuccessInHalfOpen
  <2>3. CASE ~SuccessInHalfOpen
    BY <1>3, <2>1, <2>3 DEF RecordSuccess
  <2> QED
    BY <2>2, <2>3
<1>4. CASE RecordFailure
  <2>1. cooled' \in BOOLEAN
    BY <1>4 DEF RecordFailure
  <2>2. CASE FailureInClosed
    BY <1>4, <2>1, <2>2 DEF RecordFailure, FailureInClosed
  <2>3. CASE cbState \in {"half-open", "open"} /\ cbState' = "open"
    BY <1>4, <2>1, <2>3 DEF RecordFailure, FailureInClosed
  <2> QED
    BY <1>4, <2>2, <2>3 DEF RecordFailure
<1>5. CASE CoolDown
  <2>1. cooled' \in BOOLEAN
    BY <1>5 DEF CoolDown
  <2> QED
    BY <1>5, <2>1 DEF CoolDown
<1>6. CASE BreakerNew
  <2>1. cooled' \in BOOLEAN
    BY <1>6 DEF BreakerNew
  <2> QED
    BY <1>6, <2>1 DEF BreakerNew
<1> QED
  BY <1>1, <1>2, <1>3, <1>4, <1>5, <1>6

----------------------------------------------------------------------------
(* One lemma per action that settles, sends or receives messages.             *)
LEMMA FetchInv ==
    ASSUME ForwarderInv, NEW s \in Streams, Fetch(s)
    PROVE  ForwarderInv'
<1> USE DEF ForwarderInv
<1>1. PICK S \in SUBSET {m \in Messages : StreamOf[m] = s /\ broker[m] = "ready"} :
        /\ batch' = [batch EXCEPT ![s] = @ \cup S]
        /\ broker' = [m \in Messages |-> IF m \in S THEN "pending" ELSE broker[m]]
        /\ deliveries' = [m \in Messages |-> deliveries[m] + IF m \in S THEN 1 ELSE 0]
  BY DEF Fetch
<1>2. BreakerTypeOK' /\ BreakerCountersAgree'
  BY BreakerStep DEF TypeOK, Fetch
<1>3. TypeOK'
  <2>1. deliveries' \in [Messages -> 0..MaxDeliver]
    BY <1>1, ForwarderAssumption DEF TypeOK, HoldingInv
  <2>2. broker' \in [Messages -> {"ready", "pending", "acked", "exhausted"}]
    BY <1>1 DEF TypeOK
  <2>3. batch' \in [Streams -> SUBSET Messages]
    BY <1>1 DEF TypeOK
  <2>4. \A t \in Streams : \A m \in batch'[t] : StreamOf[m] = t
    BY <1>1 DEF TypeOK
  <2> QED
    BY <1>2, <2>1, <2>2, <2>3, <2>4 DEF TypeOK, Fetch, sinkVars, envVars
<1>4. HoldingInv'
  BY <1>1 DEF HoldingInv, TypeOK, Fetch, sinkVars
<1>5. AckedIsHandled'
  BY <1>1 DEF AckedIsHandled, TypeOK, Fetch, sinkVars
<1>6. NothingForgotten'
  BY <1>1, ForwarderAssumption DEF NothingForgotten, TypeOK, Fetch, sinkVars, HoldingInv
<1>7. ConfirmedOnce'
  BY DEF ConfirmedOnce, Fetch, sinkVars
<1> QED
  BY <1>2, <1>3, <1>4, <1>5, <1>6, <1>7

(* A shed batch and a cancelled backoff: all that is held is nakked.          *)
LEMMA NakBatchInv ==
    ASSUME ForwarderInv, NEW s \in Streams, NakBatch(s),
           pc[s] # "settle", BreakerTypeOK', BreakerCountersAgree'
    PROVE  ForwarderInv'
<1> USE DEF ForwarderInv
<1> DEFINE N == batch[s]
<1>1. N \in SUBSET Messages
  BY DEF TypeOK
<1>2. /\ lost' \in 0..MaxLost
      /\ UNCHANGED deliveries
      /\ \E L \in SUBSET N : broker' = Settled({}, N \ L) /\ excused' = excused \cup L
  <2>1. AckAndNak({}, N) /\ {} \in SUBSET Messages
    BY DEF NakBatch
  <2>2. /\ lost' \in 0..MaxLost
        /\ UNCHANGED deliveries
        /\ \E L \in SUBSET ({} \cup N) : broker' = Settled({} \ L, N \ L) /\ excused' = excused \cup L
    BY <1>1, <2>1, AckAndNakEffect
  <2>3. {} \cup N = N /\ \A L : {} \ L = {}
    OBVIOUS
  <2> QED
    BY <2>2, <2>3
<1>9. PICK L \in SUBSET N : broker' = Settled({}, N \ L) /\ excused' = excused \cup L
  BY <1>2
<1>3. /\ broker' \in [Messages -> {"ready", "pending", "acked", "exhausted"}]
      /\ \A m \in Messages : broker'[m] = "ready" => broker[m] = "ready" \/ deliveries[m] < MaxDeliver
      /\ \A m \in Messages : broker'[m] = "acked" <=> broker[m] = "acked"
      /\ \A m \in Messages \ L : broker'[m] = "pending" <=> broker[m] = "pending" /\ m \notin N
  <2> DEFINE B == N \ L
  <2>1. B \in SUBSET Messages /\ {} \in SUBSET Messages /\ broker' = Settled({}, B)
    BY <1>1, <1>9
  <2>2. \A m \in Messages \ L : m \in B <=> m \in N
    OBVIOUS
  <2> HIDE DEF B, N
  <2> QED
    BY SMTT(30), <2>1, <2>2, SettledType
<1>4. batch' = [batch EXCEPT ![s] = {}] /\ pc' = [pc EXCEPT ![s] = "idle"]
  BY DEF NakBatch, Goto
<1>5. TypeOK'
  <2>1. /\ batch' \in [Streams -> SUBSET Messages]
        /\ \A t \in Streams : \A m \in batch'[t] : StreamOf[m] = t
        /\ pc' \in [Streams -> Locations]
    BY <1>4 DEF TypeOK, Locations
  <2>2. attempt' \in [Streams -> 0..MaxRetries]
    BY ForwarderAssumption DEF TypeOK, NakBatch
  <2>3. excused' \in SUBSET Messages
    BY <1>1, <1>9 DEF TypeOK
  <2> QED
    BY <1>2, <1>3, <2>1, <2>2, <2>3 DEF TypeOK, NakBatch
<1>6. HoldingInv'
  <2>1. \A t \in Streams : pc'[t] = "backoff" => attempt'[t] < MaxRetries
    BY <1>4 DEF HoldingInv, TypeOK, NakBatch
  <2>2. UNCHANGED <<confirmed, reported>>
    BY DEF NakBatch
  <2>3. \A t \in Streams : batch'[t] \subseteq batch[t] /\ (t # s => batch'[t] = batch[t])
    BY <1>4 DEF TypeOK
  <2>4. reported[s] = {}
    BY DEF HoldingInv
  <2>5. \A t \in Streams : /\ reported'[t] \subseteq batch'[t]
                           /\ pc'[t] # "settle" => reported'[t] = {}
                           /\ pc'[t] = "stopped" => batch'[t] = {}
    BY <1>4, <2>2, <2>4 DEF HoldingInv, TypeOK
  <2>6. \A t \in Streams : /\ \A m \in batch'[t] : broker'[m] # "acked"
                           /\ \A m \in reported'[t] : confirmed'[m] > 0
    <3>1. \A t \in Streams : \A m \in batch'[t] : m \in batch[t] /\ m \in Messages
      BY <2>3 DEF TypeOK
    <3> QED
      BY <1>3, <2>2, <3>1 DEF HoldingInv
  <2>7. \A m \in Messages : broker'[m] = "ready" => deliveries'[m] < MaxDeliver
    BY <1>2, <1>3 DEF HoldingInv
  <2>8. \A m \in Messages \ excused' :
           confirmed'[m] > 0 => m \in reported'[StreamOf[m]] \/ broker'[m] = "acked"
    <3>1. \A m \in Messages \ excused' : m \in Messages \ excused
      BY <1>9
    <3> QED
      BY <1>3, <2>2, <3>1 DEF HoldingInv
  <2> QED
    BY <2>1, <2>5, <2>6, <2>7, <2>8 DEF HoldingInv
<1>7. AckedIsHandled' /\ ConfirmedOnce'
  BY <1>2, <1>3, <1>9 DEF AckedIsHandled, ConfirmedOnce, NakBatch
<1>8. NothingForgotten'
  <2>1. SUFFICES ASSUME NEW m \in Messages \ excused'
                 PROVE  broker'[m] = "pending" <=>
                           m \in batch'[StreamOf[m]] /\ pc'[StreamOf[m]] # "stopped"
    BY DEF NothingForgotten
  <2>2. m \in Messages \ excused /\ m \in Messages \ L
    BY <1>9
  <2>3. broker'[m] = "pending" <=> broker[m] = "pending" /\ m \notin N
    BY <1>3, <2>2
  <2>4. broker[m] = "pending" <=> m \in batch[StreamOf[m]] /\ pc[StreamOf[m]] # "stopped"
    BY <2>2 DEF NothingForgotten
  <2>5. StreamOf[m] \in Streams
    BY ForwarderAssumption, <2>2
  <2>6. CASE StreamOf[m] = s
    BY <1>4, <2>3, <2>4, <2>6 DEF TypeOK
  <2>7. CASE StreamOf[m] # s
    <3>1. m \notin N
      BY <2>5, <2>7 DEF TypeOK
    <3>2. batch'[StreamOf[m]] = batch[StreamOf[m]] /\ pc'[StreamOf[m]] = pc[StreamOf[m]]
      BY <1>4, <2>5, <2>7 DEF TypeOK
    <3> QED
      BY <2>3, <2>4, <3>1, <3>2
  <2> QED
    BY <2>6, <2>7
<1> QED
  BY <1>5, <1>6, <1>7, <1>8

LEMMA SendInv ==
    ASSUME ForwarderInv, NEW s \in Streams, Send(s)
    PROVE  ForwarderInv'
<1> USE DEF ForwarderInv
<1>1. PICK ok \in SUBSET batch[s] :
        /\ reported' = [reported EXCEPT ![s] = ok]
        /\ confirmed' = [m \in Messages |-> IF m \in ok /\ confirmed[m] < 2
                                             THEN confirmed[m] + 1 ELSE confirmed[m]]
  BY DEF Send
<1>2. pc' = [pc EXCEPT ![s] = "settle"] /\ pc[s] = "send"
  BY DEF Send, Goto
<1>3. BreakerTypeOK' /\ BreakerCountersAgree'
  BY BreakerStep DEF TypeOK, Send
<1>4. confirmed' \in [Messages -> 0..2] /\ \A m \in Messages : confirmed[m] > 0 => confirmed'[m] > 0
  BY <1>1 DEF TypeOK
<1>5. TypeOK'
  BY <1>1, <1>2, <1>3, <1>4 DEF TypeOK, Locations, Send, brokerVars, envVars
<1>6. \A m \in batch[s] : m \in Messages /\ StreamOf[m] = s /\ broker[m] # "acked"
  BY DEF TypeOK, HoldingInv
<1>7. \A m \in batch[s] \ excused : confirmed[m] = 0
  BY <1>2, <1>6 DEF HoldingInv, TypeOK
<1>8. HoldingInv'
  <2>1. \A t \in Streams : \A m \in reported'[t] : confirmed'[m] > 0
    BY <1>1, <1>4, <1>6 DEF HoldingInv, TypeOK
  <2>2. \A m \in Messages \ excused :
          confirmed'[m] > 0 => m \in reported'[StreamOf[m]] \/ broker[m] = "acked"
    BY <1>1, <1>2, <1>6, ForwarderAssumption DEF HoldingInv, TypeOK
  <2> QED
    BY <1>1, <1>2, <2>1, <2>2 DEF HoldingInv, TypeOK, Send, brokerVars
<1>9. AckedIsHandled'
  BY <1>4 DEF AckedIsHandled, Send, brokerVars
<1>10. NothingForgotten'
  BY <1>2, ForwarderAssumption DEF NothingForgotten, Send, brokerVars, TypeOK
<1>11. ConfirmedOnce'
  BY <1>1, <1>7 DEF ConfirmedOnce, Send, TypeOK
<1> QED
  BY <1>3, <1>5, <1>8, <1>9, <1>10, <1>11

LEMMA SettleInv ==
    ASSUME ForwarderInv, NEW s \in Streams, SettleAll(s) \/ SettleSome(s)
    PROVE  ForwarderInv'
<1> USE DEF ForwarderInv
<1> DEFINE ok == reported[s]
<1>1. ok \in SUBSET Messages /\ ok \subseteq batch[s] /\ {} \in SUBSET Messages
  BY DEF TypeOK, HoldingInv
<1>2. Settle(s)
  BY DEF SettleAll, SettleSome
<1>3. /\ lost' \in 0..MaxLost
      /\ UNCHANGED deliveries
      /\ \E L \in SUBSET ok : broker' = Settled(ok \ L, {}) /\ excused' = excused \cup L
  <2>1. /\ lost' \in 0..MaxLost
        /\ UNCHANGED deliveries
        /\ \E L \in SUBSET (ok \cup {}) : broker' = Settled(ok \ L, {} \ L) /\ excused' = excused \cup L
    BY <1>1, <1>2, AckAndNakEffect DEF Settle
  <2>2. ok \cup {} = ok /\ \A L : {} \ L = {}
    OBVIOUS
  <2> QED
    BY <2>1, <2>2
<1>4. PICK L \in SUBSET ok : broker' = Settled(ok \ L, {}) /\ excused' = excused \cup L
  BY <1>3
<1>5. ok \ L \in SUBSET Messages /\ L \in SUBSET Messages
  BY <1>1
<1>6. /\ broker' \in [Messages -> {"ready", "pending", "acked", "exhausted"}]
      /\ \A m \in Messages : broker'[m] = "acked" => m \in ok \/ broker[m] = "acked"
      /\ \A m \in Messages : broker'[m] = "ready" => broker[m] = "ready" \/ deliveries[m] < MaxDeliver
      /\ \A m \in Messages : broker[m] = "acked" => broker'[m] = "acked"
      /\ \A m \in Messages : broker'[m] = "pending" <=> broker[m] = "pending" /\ m \notin ok \ L
      /\ \A m \in ok \ L : broker[m] = "pending" => broker'[m] = "acked"
  <2> DEFINE A == ok \ L
  <2>1. /\ Settled(A, {}) \in [Messages -> {"ready", "pending", "acked", "exhausted"}]
        /\ \A m \in Messages : Settled(A, {})[m] = "acked" => m \in A \/ broker[m] = "acked"
        /\ \A m \in Messages : Settled(A, {})[m] = "ready"
              => broker[m] = "ready" \/ deliveries[m] < MaxDeliver
        /\ \A m \in Messages : broker[m] = "acked" => Settled(A, {})[m] = "acked"
        /\ \A m \in Messages :
              Settled(A, {})[m] = "pending" <=> broker[m] = "pending" /\ m \notin A \cup {}
        /\ \A m \in A : broker[m] = "pending" => Settled(A, {})[m] = "acked"
    <3> HIDE DEF A
    <3>1. A \in SUBSET Messages
      BY <1>5 DEF A
    <3>2. TypeOK /\ {} \in SUBSET Messages
      OBVIOUS
    <3> QED
      BY ONLY <3>1, <3>2, SettledType
  <2>2. broker' = Settled(A, {})
    BY <1>4
  <2> QED
    BY <1>1, <2>1, <2>2
<1>7. /\ batch' = [batch EXCEPT ![s] = @ \ ok]
      /\ reported' = [reported EXCEPT ![s] = {}]
      /\ pc[s] = "settle" /\ UNCHANGED <<confirmed, dlq, ctxDone, restarts>>
  BY <1>2 DEF Settle
<1>8. \E l \in {"idle", "backoff", "deadletter"} :
         pc' = [pc EXCEPT ![s] = l] /\ (l = "backoff" => attempt[s] < MaxRetries /\ UNCHANGED attempt)
  BY DEF SettleAll, SettleSome, Goto
<1>9. attempt' = [attempt EXCEPT ![s] = 0] \/ UNCHANGED attempt
  BY DEF SettleAll, SettleSome
<1>10. BreakerTypeOK' /\ BreakerCountersAgree'
  BY BreakerStep DEF TypeOK, SettleAll, SettleSome
<1>11. TypeOK'
  <2>1. /\ batch' \in [Streams -> SUBSET Messages]
        /\ reported' \in [Streams -> SUBSET Messages]
        /\ \A t \in Streams : \A m \in batch'[t] : StreamOf[m] = t
    BY <1>7 DEF TypeOK
  <2>2. pc' \in [Streams -> Locations]
    BY <1>8 DEF TypeOK, Locations
  <2>3. attempt' \in [Streams -> 0..MaxRetries]
    BY <1>9, ForwarderAssumption DEF TypeOK
  <2>4. excused' \in SUBSET Messages
    BY <1>4, <1>5 DEF TypeOK
  <2> QED
    BY <1>3, <1>6, <1>7, <1>10, <2>1, <2>2, <2>3, <2>4 DEF TypeOK
<1>12. HoldingInv'
  <2>1. ASSUME NEW t \in Streams
        PROVE  /\ reported'[t] \subseteq batch'[t]
               /\ pc'[t] # "settle" => reported'[t] = {}
               /\ pc'[t] = "stopped" => batch'[t] = {}
               /\ pc'[t] = "backoff" => attempt'[t] < MaxRetries
               /\ \A m \in reported'[t] : confirmed'[m] > 0
    BY <1>7, <1>8, <1>9 DEF HoldingInv, TypeOK
  <2>2. ASSUME NEW t \in Streams, NEW m \in batch'[t]
        PROVE  broker'[m] # "acked"
    BY <1>1, <1>6, <1>7, <2>2 DEF HoldingInv, TypeOK
  <2>3. \A m \in Messages : broker'[m] = "ready" => deliveries'[m] < MaxDeliver
    BY <1>3, <1>6 DEF HoldingInv
  <2>4. ASSUME NEW m \in Messages \ excused', confirmed'[m] > 0
        PROVE  m \in reported'[StreamOf[m]] \/ broker'[m] = "acked"
    <3>1. m \notin excused /\ m \notin L /\ confirmed[m] > 0
      BY <1>4, <1>7, <2>4
    <3>2. CASE broker[m] = "acked"
      BY <1>6, <3>2
    <3>3. CASE m \in ok
      <4>1. StreamOf[m] = s /\ m \in batch[s] /\ broker[m] = "pending"
        BY <1>1, <1>7, <3>1, <3>3 DEF TypeOK, NothingForgotten
      <4> QED
        BY <1>6, <3>1, <3>3, <4>1
    <3>4. CASE m \in reported[StreamOf[m]] /\ m \notin ok
      BY <1>7, <3>4, ForwarderAssumption DEF TypeOK
    <3> QED
      BY <3>1, <3>2, <3>3, <3>4 DEF HoldingInv
  <2> QED
    BY <2>1, <2>2, <2>3, <2>4 DEF HoldingInv
<1>13. AckedIsHandled'
  BY <1>6, <1>7 DEF AckedIsHandled, HoldingInv
<1>14. NothingForgotten'
  <2>1. ASSUME NEW m \in Messages \ excused'
        PROVE  broker'[m] = "pending"
               <=> m \in batch'[StreamOf[m]] /\ pc'[StreamOf[m]] # "stopped"
    <3>1. m \notin excused /\ m \notin L
      BY <1>4, <2>1
    <3>2. broker[m] = "pending" <=> m \in batch[StreamOf[m]] /\ pc[StreamOf[m]] # "stopped"
      BY <3>1, <2>1 DEF NothingForgotten
    <3>3. m \in ok => StreamOf[m] = s
      BY <1>1 DEF TypeOK
    <3>4. StreamOf[m] \in Streams
      BY ForwarderAssumption
    <3>5. m \in batch'[StreamOf[m]] <=> m \in batch[StreamOf[m]] /\ m \notin ok
      BY <1>1, <1>7, <3>3, <3>4 DEF TypeOK
    <3>6. pc'[StreamOf[m]] # "stopped" <=> pc[StreamOf[m]] # "stopped"
      BY <1>7, <1>8, <3>4 DEF TypeOK
    <3> QED
      BY <1>6, <3>1, <3>2, <3>5, <3>6
  <2> QED
    BY <2>1 DEF NothingForgotten
<1>15. ConfirmedOnce'
  BY <1>4, <1>7 DEF ConfirmedOnce
<1> QED
  BY <1>10, <1>11, <1>12, <1>13, <1>14, <1>15

LEMMA DeadLetterInv ==
    ASSUME ForwarderInv, NEW s \in Streams, DeadLetter(s)
    PROVE  ForwarderInv'
<1> USE DEF ForwarderInv
<1>1. PICK D \in SUBSET batch[s] : dlq' = dlq \cup D /\ AckAndNak(D, batch[s] \ D)
  BY DEF DeadLetter
<1> DEFINE N == batch[s] \ D
<1>2. D \in SUBSET Messages /\ N \in SUBSET Messages
  BY DEF TypeOK
<1>3. /\ lost' \in 0..MaxLost
      /\ UNCHANGED deliveries
      /\ \E L \in SUBSET (D \cup N) :
            broker' = Settled(D \ L, N \ L) /\ excused' = excused \cup L
  BY <1>1, <1>2, AckAndNakEffect
<1>4. PICK L \in SUBSET (D \cup N) :
         broker' = Settled(D \ L, N \ L) /\ excused' = excused \cup L
  BY <1>3
<1>5. L \in SUBSET Messages
  BY <1>2
<1>6. /\ broker' \in [Messages -> {"ready", "pending", "acked", "exhausted"}]
      /\ \A m \in Messages : broker'[m] = "acked" => m \in D \/ broker[m] = "acked"
      /\ \A m \in Messages : broker'[m] = "ready" => broker[m] = "ready" \/ deliveries[m] < MaxDeliver
      /\ \A m \in Messages : broker[m] = "acked" => broker'[m] = "acked"
      /\ \A m \in Messages \ L : broker'[m] = "pending" <=> broker[m] = "pending" /\ m \notin batch[s]
  <2> DEFINE A == D \ L
             B == N \ L
  <2>1. /\ Settled(A, B) \in [Messages -> {"ready", "pending", "acked", "exhausted"}]
        /\ \A m \in Messages : Settled(A, B)[m] = "acked" => m \in A \/ broker[m] = "acked"
        /\ \A m \in Messages : Settled(A, B)[m] = "ready"
              => broker[m] = "ready" \/ deliveries[m] < MaxDeliver
        /\ \A m \in Messages : broker[m] = "acked" => Settled(A, B)[m] = "acked"
        /\ \A m \in Messages :
              Settled(A, B)[m] = "pending" <=> broker[m] = "pending" /\ m \notin A \cup B
    <3> HIDE DEF A, B, N
    <3>1. A \in SUBSET Messages /\ B \in SUBSET Messages
      BY <1>2 DEF A, B
    <3>2. TypeOK
      OBVIOUS
    <3> QED
      BY <3>1, <3>2, SettledAlways
  <2>2. broker' = Settled(A, B)
    BY <1>4
  <2>3. \A m \in Messages \ L : m \in A \cup B <=> m \in batch[s]
    OBVIOUS
  <2> HIDE DEF A, B, N
  <2>4. \A m \in A : m \in D
    BY DEF A
  <2> QED
    BY <2>1, <2>2, <2>3, <2>4
<1>7. /\ batch' = [batch EXCEPT ![s] = {}]
      /\ pc' = [pc EXCEPT ![s] = "idle"]
      /\ attempt' = [attempt EXCEPT ![s] = 0]
      /\ pc[s] = "deadletter" /\ UNCHANGED <<confirmed, reported, ctxDone, restarts>>
  BY DEF DeadLetter, Goto
<1>8. BreakerTypeOK' /\ BreakerCountersAgree'
  BY BreakerStep DEF TypeOK, DeadLetter
<1>9. TypeOK'
  <2>1. /\ batch' \in [Streams -> SUBSET Messages]
        /\ \A t \in Streams : \A m \in batch'[t] : StreamOf[m] = t
    BY <1>7 DEF TypeOK
  <2>2. pc' \in [Streams -> Locations]
    BY <1>7 DEF TypeOK, Locations
  <2>3. attempt' \in [Streams -> 0..MaxRetries]
    BY <1>7, ForwarderAssumption DEF TypeOK
  <2>4. excused' \in SUBSET Messages /\ dlq' \in SUBSET Messages
    BY <1>1, <1>2, <1>4, <1>5 DEF TypeOK
  <2> QED
    BY <1>3, <1>6, <1>7, <1>8, <2>1, <2>2, <2>3, <2>4 DEF TypeOK
<1>10. \A m \in D : m \in Messages /\ StreamOf[m] = s
  BY <1>2 DEF TypeOK
<1>11. HoldingInv'
  <2>1. ASSUME NEW t \in Streams
        PROVE  /\ reported'[t] \subseteq batch'[t]
               /\ pc'[t] # "settle" => reported'[t] = {}
               /\ pc'[t] = "stopped" => batch'[t] = {}
               /\ pc'[t] = "backoff" => attempt'[t] < MaxRetries
               /\ \A m \in reported'[t] : confirmed'[m] > 0
    BY <1>7 DEF HoldingInv, TypeOK
  <2>2. ASSUME NEW t \in Streams, NEW m \in batch'[t]
        PROVE  broker'[m] # "acked"
    <3>1. t # s /\ m \in batch[t] /\ m \in Messages /\ StreamOf[m] = t
      BY <1>7, <2>2 DEF TypeOK
    <3>2. broker[m] # "acked" /\ m \notin D
      BY <1>10, <3>1 DEF HoldingInv
    <3> QED
      BY <1>6, <3>1, <3>2
  <2>3. \A m \in Messages : broker'[m] = "ready" => deliveries'[m] < MaxDeliver
    BY <1>3, <1>6 DEF HoldingInv
  <2>4. ASSUME NEW m \in Messages \ excused', confirmed'[m] > 0
        PROVE  m \in reported'[StreamOf[m]] \/ broker'[m] = "acked"
    BY <1>4, <1>6, <1>7, <2>4 DEF HoldingInv
  <2> QED
    BY <2>1, <2>2, <2>3, <2>4 DEF HoldingInv
<1>12. AckedIsHandled'
  BY <1>1, <1>6, <1>7 DEF AckedIsHandled
<1>13. NothingForgotten'
  <2>1. ASSUME NEW m \in Messages \ excused'
        PROVE  broker'[m] = "pending"
               <=> m \in batch'[StreamOf[m]] /\ pc'[StreamOf[m]] # "stopped"
    <3>1. m \in Messages \ excused /\ m \in Messages \ L
      BY <1>4, <2>1
    <3>2. broker[m] = "pending" <=> m \in batch[StreamOf[m]] /\ pc[StreamOf[m]] # "stopped"
      BY <3>1 DEF NothingForgotten
    <3>3. StreamOf[m] \in Streams
      BY ForwarderAssumption
    <3>4. CASE StreamOf[m] = s
      BY <1>6, <1>7, <3>1, <3>2, <3>4 DEF TypeOK
    <3>5. CASE StreamOf[m] # s
      <4>1. m \notin batch[s]
        BY <3>5 DEF TypeOK
      <4> QED
        BY <1>6, <1>7, <3>1, <3>2, <3>3, <3>5, <4>1 DEF TypeOK
    <3> QED
      BY <3>4, <3>5
  <2> QED
    BY <2>1 DEF NothingForgotten
<1>14. ConfirmedOnce'
  BY <1>4, <1>7 DEF ConfirmedOnce
<1> QED
  BY <1>8, <1>9, <1>11, <1>12, <1>13, <1>14

(* Steps of a goroutine that move it on and settle nothing.                   *)
LEMMA MoveInv ==
    ASSUME ForwarderInv, NEW s \in Streams, Stop(s) \/ FlushAdmitted(s) \/ Retry(s)
    PROVE  ForwarderInv'
<1> USE DEF ForwarderInv
<1>1. PICK l \in {"stopped", "send"} :
        /\ pc' = [pc EXCEPT ![s] = l]
        /\ l = "stopped" => batch[s] = {}
        /\ pc[s] \in {"idle", "backoff"}
  BY DEF Stop, FlushAdmitted, Retry, Goto, FlushDue
<1>2. UNCHANGED <<broker, deliveries, confirmed, dlq, excused, batch, reported, ctxDone, restarts, lost>>
  BY DEF Stop, FlushAdmitted, Retry, brokerVars, sinkVars, envVars
<1>3. attempt' \in [Streams -> 0..MaxRetries] /\ \A t \in Streams \ {s} : attempt'[t] = attempt[t]
  BY ForwarderAssumption DEF Stop, FlushAdmitted, Retry, TypeOK, HoldingInv
<1>4. BreakerTypeOK' /\ BreakerCountersAgree'
  BY BreakerStep DEF TypeOK, Stop, FlushAdmitted, Retry
<1>5. TypeOK'
  BY <1>1, <1>2, <1>3, <1>4 DEF TypeOK, Locations
<1>6. HoldingInv'
  BY <1>1, <1>2, <1>3 DEF TypeOK, HoldingInv
<1>7. NothingForgotten'
  BY <1>1, <1>2, ForwarderAssumption DEF TypeOK, NothingForgotten
<1>8. AckedIsHandled' /\ ConfirmedOnce'
  BY <1>2 DEF AckedIsHandled, ConfirmedOnce
<1> QED
  BY <1>4, <1>5, <1>6, <1>7, <1>8

(* The faults: an ack wait that runs out and a process that ends break the    *)
(* correspondence only for messages they excuse.                              *)
LEMMA AckWaitInv ==
    ASSUME ForwarderInv, NEW n \in Messages, AckWait(n)
    PROVE  ForwarderInv'
<1> USE DEF ForwarderInv
<1>1. /\ broker' = [broker EXCEPT ![n] = AfterRequeue(n)]
      /\ excused' = excused \cup {n}
      /\ broker[n] = "pending"
      /\ AfterRequeue(n) \in {"ready", "exhausted"}
      /\ AfterRequeue(n) = "ready" => deliveries[n] < MaxDeliver
  BY ForwarderAssumption DEF AckWait, AfterRequeue, TypeOK
<1>2. UNCHANGED <<deliveries, confirmed, dlq, pc, batch, reported, attempt, ctxDone, restarts, lost>>
  BY DEF AckWait, procVars, envVars
<1>3. BreakerTypeOK' /\ BreakerCountersAgree'
  BY BreakerStep DEF TypeOK, AckWait
<1>4. TypeOK'
  BY <1>1, <1>2, <1>3 DEF TypeOK
<1>5. HoldingInv'
  BY <1>1, <1>2 DEF HoldingInv, TypeOK
<1>6. AckedIsHandled' /\ NothingForgotten' /\ ConfirmedOnce'
  BY <1>1, <1>2 DEF AckedIsHandled, NothingForgotten, ConfirmedOnce, TypeOK
<1> QED
  BY <1>3, <1>4, <1>5, <1>6

LEMMA RestartInv ==
    ASSUME ForwarderInv, Restart
    PROVE  ForwarderInv'
<1> USE DEF ForwarderInv
<1>1. BreakerTypeOK' /\ BreakerCountersAgree'
  BY BreakerStep DEF TypeOK, Restart
<1>2. /\ pc' = Subscribed /\ batch' = Everywhere({}) /\ reported' = Everywhere({})
      /\ attempt' = Everywhere(0) /\ ctxDone' = FALSE
      /\ restarts' = restarts + 1 /\ restarts < MaxRestarts
      /\ excused' = excused \cup UNION {batch[s] : s \in Streams}
      /\ UNCHANGED <<broker, deliveries, confirmed, dlq, lost>>
  BY DEF Restart, brokerVars
<1>3. \A m \in Messages \ excused' : m \notin excused /\ m \notin batch[StreamOf[m]]
  BY <1>2, ForwarderAssumption
<1>4. pc' \in [Streams -> Locations] /\ \A s \in Streams : pc'[s] \in {"idle", "stopped"}
  BY <1>2 DEF Subscribed, Locations
<1>5. TypeOK'
  <2>1. /\ batch' \in [Streams -> SUBSET Messages]
        /\ \A t \in Streams : \A m \in batch'[t] : StreamOf[m] = t
        /\ reported' \in [Streams -> SUBSET Messages]
    BY <1>2 DEF Everywhere
  <2>2. attempt' \in [Streams -> 0..MaxRetries] /\ restarts' \in 0..MaxRestarts
    BY <1>2, ForwarderAssumption DEF Everywhere, TypeOK
  <2>3. excused' \in SUBSET Messages
    BY <1>2 DEF TypeOK
  <2>4. ctxDone' \in BOOLEAN
    BY <1>2
  <2> QED
    BY <1>1, <1>2, <1>4, <2>1, <2>2, <2>3, <2>4 DEF TypeOK
<1>6. HoldingInv'
  <2>1. \A m \in Messages \ excused' : confirmed[m] > 0 => broker[m] = "acked"
    BY <1>3, ForwarderAssumption DEF HoldingInv, TypeOK
  <2>2. \A s \in Streams : batch'[s] = {} /\ reported'[s] = {} /\ pc'[s] \in {"idle", "stopped"}
    BY <1>2, <1>4 DEF Everywhere
  <2> QED
    BY <1>2, <2>1, <2>2 DEF HoldingInv
<1>7. NothingForgotten'
  <2>1. \A m \in Messages : m \notin batch'[StreamOf[m]]
    BY <1>2, ForwarderAssumption DEF Everywhere
  <2> QED
    BY <1>2, <1>3, <2>1 DEF NothingForgotten
<1>8. AckedIsHandled' /\ ConfirmedOnce'
  BY <1>2, <1>3 DEF AckedIsHandled, ConfirmedOnce
<1> QED
  BY <1>1, <1>5, <1>6, <1>7, <1>8

LEMMA QuietInv ==
    ASSUME ForwarderInv, TimePasses \/ Signal \/ UNCHANGED vars
    PROVE  ForwarderInv'
<1> USE DEF ForwarderInv
<1>1. BreakerTypeOK' /\ BreakerCountersAgree'
  BY BreakerStep DEF TypeOK, TimePasses, Signal, vars
<1>2. UNCHANGED <<broker, deliveries, confirmed, dlq, excused, pc, batch, reported, attempt, restarts, lost>>
  BY DEF TimePasses, Signal, vars, brokerVars, sinkVars, procVars, envVars
<1>3. ctxDone' \in BOOLEAN
  BY DEF TypeOK, TimePasses, Signal, vars, envVars
<1>4. TypeOK'
  BY <1>1, <1>2, <1>3 DEF TypeOK
<1>5. HoldingInv' /\ AckedIsHandled' /\ NothingForgotten' /\ ConfirmedOnce'
  BY <1>2 DEF HoldingInv, AckedIsHandled, NothingForgotten, ConfirmedOnce
<1> QED
  BY <1>1, <1>4, <1>5

LEMMA StepInv ==
    ASSUME ForwarderInv, NEW s \in Streams, Step(s)
    PROVE  ForwarderInv'
<1>1. CASE Fetch(s)
  BY <1>1, FetchInv
<1>2. CASE Stop(s) \/ FlushAdmitted(s) \/ Retry(s)
  BY <1>2, MoveInv
<1>3. CASE FlushRejected(s)
  <2>1. NakBatch(s) /\ pc[s] # "settle"
    BY <1>3 DEF FlushRejected, FlushDue
  <2>2. BreakerTypeOK' /\ BreakerCountersAgree'
    BY <1>3, BreakerStep DEF FlushRejected, ForwarderInv, TypeOK
  <2> QED
    BY <2>1, <2>2, NakBatchInv
<1>4. CASE CancelRetry(s)
  <2>1. NakBatch(s) /\ pc[s] # "settle"
    BY <1>4 DEF CancelRetry
  <2>2. BreakerTypeOK' /\ BreakerCountersAgree'
    BY <1>4, BreakerStep DEF CancelRetry, ForwarderInv, TypeOK
  <2> QED
    BY <2>1, <2>2, NakBatchInv
<1>5. CASE Send(s)
  BY <1>5, SendInv
<1>6. CASE SettleAll(s) \/ SettleSome(s)
  BY <1>6, SettleInv
<1>7. CASE DeadLetter(s)
  BY <1>7, DeadLetterInv
<1> QED
  BY <1>1, <1>2, <1>3, <1>4, <1>5, <1>6, <1>7 DEF Step

LEMMA NextInv == ForwarderInv /\ [Next]_vars => ForwarderInv'
<1> SUFFICES ASSUME ForwarderInv, [Next]_vars PROVE ForwarderInv'
  OBVIOUS
<1>1. ASSUME NEW s \in Streams, Step(s) PROVE ForwarderInv'
  BY <1>1, StepInv
<1>2. ASSUME NEW m \in Messages, AckWait(m) PROVE ForwarderInv'
  BY <1>2, AckWaitInv
<1>3. CASE Restart
  BY <1>3, RestartInv
<1>4. CASE TimePasses \/ Signal \/ UNCHANGED vars
  BY <1>4, QuietInv
<1> QED
  BY <1>1, <1>2, <1>3, <1>4 DEF Next

(* The inductive invariant: the properties together with what the goroutines  *)
(* hold, which ties the sink's confirmations to the server's bookkeeping.     *)
THEOREM ForwarderInvariant == Spec => []ForwarderInv
<1>1. ForwarderInv /\ [Next]_vars => ForwarderInv'
  BY NextInv
<1> QED
  BY InitInv, <1>1, PTL DEF Spec

(* Types and the range of every counter.                                      *)
THEOREM TypeCorrect == Spec => []TypeOK
<1>1. ForwarderInv => TypeOK
  BY DEF ForwarderInv
<1> QED
  BY ForwarderInvariant, <1>1, PTL

(* The breaker's counters agree with its state, whatever the order in which   *)
(* the goroutines report results of flushes admitted in earlier states.       *)
THEOREM CountersAgree == Spec => []BreakerCountersAgree
<1>1. ForwarderInv => BreakerCountersAgree
  BY DEF ForwarderInv
<1> QED
  BY ForwarderInvariant, <1>1, PTL

(* Nothing is acknowledged before the SIEM or the dead-letter subject has it. *)
THEOREM AcksAreHandled == Spec => []AckedIsHandled
<1>1. ForwarderInv => AckedIsHandled
  BY DEF ForwarderInv
<1> QED
  BY ForwarderInvariant, <1>1, PTL

(* Every path out of flushBatch settles what it holds.                        *)
THEOREM NothingIsForgotten == Spec => []NothingForgotten
<1>1. ForwarderInv => NothingForgotten
  BY DEF ForwarderInv
<1> QED
  BY ForwarderInvariant, <1>1, PTL

(* Without a fault the sink confirms a message at most once.                  *)
THEOREM NoDuplicates == Spec => []ConfirmedOnce
<1>1. ForwarderInv => ConfirmedOnce
  BY DEF ForwarderInv
<1> QED
  BY ForwarderInvariant, <1>1, PTL

(* Only the cooldown, or a new process, lets an open breaker go.              *)
THEOREM OpenUntilCooled == Spec => BreakerLeavesOpenByCooldown
<1> DEFINE Leaves == cbState = "open" /\ cbState' # "open"
                     => (cbState' = "half-open" /\ cooled) \/ restarts' # restarts
<1>1. ASSUME TypeOK, [Next]_vars PROVE [Leaves]_vars
  <2>1. CASE UNCHANGED vars
    BY <2>1
  <2>2. CASE Restart
    <3>1. restarts' # restarts
      BY <1>1, <2>2, ForwarderAssumption DEF Restart, TypeOK
    <3> QED
      BY <3>1
  <2>3. ASSUME NEW s \in Streams, Step(s) PROVE Leaves
    <3>1. CASE FlushAdmitted(s)
      BY <3>1 DEF FlushAdmitted, AdmitFlush, Allowed
    <3>2. CASE SettleAll(s)
      BY <3>2 DEF SettleAll, RecordSuccess, SuccessInHalfOpen
    <3>3. CASE DeadLetter(s)
      BY <3>3 DEF DeadLetter, RecordFailure, FailureInClosed
    <3>4. CASE UNCHANGED cbState
      BY <3>4
    <3> QED
      BY <2>3, <3>1, <3>2, <3>3, <3>4
      DEF Step, Fetch, Stop, FlushRejected, RejectFlush, Send, SettleSome, Retry, CancelRetry, cbVars
  <2>4. CASE TimePasses \/ Signal \/ \E m \in Messages : AckWait(m)
    BY <2>4 DEF TimePasses, CoolDown, Signal, AckWait, cbVars
  <2> QED
    BY <1>1, <2>1, <2>2, <2>3, <2>4 DEF Next
<1> QED
  BY TypeCorrect, <1>1, PTL DEF Spec, BreakerLeavesOpenByCooldown

----------------------------------------------------------------------------
(* The refinement: only Send stores, only the settling steps acknowledge, and *)
(* every other step stutters.                                                 *)
LEMMA AckedGrows ==
    ASSUME TypeOK, NEW A \in SUBSET Messages, NEW N \in SUBSET Messages, AckAndNak(A, N)
    PROVE  Acked \subseteq Acked' /\ Acked' \subseteq Acked \cup A
<1>1. PICK L \in SUBSET (A \cup N) : broker' = Settled(A \ L, N \ L)
  BY AckAndNakEffect
<1> DEFINE B == A \ L
           C == N \ L
<1>2. B \in SUBSET Messages /\ C \in SUBSET Messages
  OBVIOUS
<1>3. broker' = Settled(B, C)
  BY <1>1
<1>4. \A m \in B : m \in A
  OBVIOUS
<1> HIDE DEF B, C
<1>5. /\ \A m \in Messages : Settled(B, C)[m] = "acked" => m \in B \/ broker[m] = "acked"
      /\ \A m \in Messages : broker[m] = "acked" => Settled(B, C)[m] = "acked"
  BY <1>2, SettledType
<1> QED
  BY <1>3, <1>4, <1>5 DEF Acked

(* Any number of goroutines, retries, redeliveries and restarts implement     *)
(* at-least-once delivery to the SIEM or to the dead-letter subject.          *)
THEOREM ForwarderImplementsDelivery == Spec => ImplementsDelivery
<1> USE DEF Delivery!vars
<1>1. Init => Delivery!Init
  BY DEF Init, Delivery!Init, Acked
<1>2. ASSUME ForwarderInv, [Next]_vars PROVE [Delivery!Next]_(Delivery!vars)
  <2> USE <1>2
  <2>0. TypeOK /\ AckedIsHandled /\ HoldingInv
    BY DEF ForwarderInv
  <2> DEFINE Stored == {m \in Messages : confirmed[m] > 0}
  <2>1. ASSUME NEW s \in Streams, Send(s) PROVE Delivery!Store
    <3>1. PICK ok \in SUBSET batch[s] :
            confirmed' = [m \in Messages |-> IF m \in ok /\ confirmed[m] < 2
                                               THEN confirmed[m] + 1 ELSE confirmed[m]]
      BY <2>1 DEF Send
    <3>2. UNCHANGED <<dlq, broker>>
      BY <2>1 DEF Send, brokerVars
    <3>3. Stored \subseteq Stored' /\ Stored' \subseteq Stored \cup ok
      BY <2>0, <3>1 DEF TypeOK
    <3>4. ok \cap Acked = {}
      BY <2>0 DEF HoldingInv, Acked
    <3> QED
      BY <3>2, <3>3, <3>4 DEF Delivery!Store, Delivery!Gains, Acked
  <2>2. ASSUME NEW s \in Streams, SettleAll(s) \/ SettleSome(s) PROVE Delivery!Acknowledge
    <3>1. Settle(s)
      BY <2>2 DEF SettleAll, SettleSome
    <3>2. reported[s] \in SUBSET Messages /\ {} \in SUBSET Messages
      BY <2>0 DEF TypeOK
    <3>3. Acked \subseteq Acked' /\ Acked' \subseteq Acked \cup reported[s]
      BY <2>0, <3>1, <3>2, AckedGrows DEF Settle
    <3>4. UNCHANGED <<confirmed, dlq>>
      BY <3>1 DEF Settle
    <3>5. Acked \cup reported[s] \subseteq Stored \cup dlq
      BY <2>0, <3>2 DEF AckedIsHandled, HoldingInv, Acked
    <3>6. dlq \in SUBSET Messages
      BY <2>0 DEF TypeOK
    <3> QED
      BY <3>3, <3>4, <3>5, <3>6 DEF Delivery!Acknowledge, Delivery!Gains
  <2>3. ASSUME NEW s \in Streams, DeadLetter(s) PROVE Delivery!Acknowledge
    <3>1. PICK D \in SUBSET batch[s] : dlq' = dlq \cup D /\ AckAndNak(D, batch[s] \ D)
      BY <2>3 DEF DeadLetter
    <3>2. D \in SUBSET Messages /\ batch[s] \ D \in SUBSET Messages
      BY <2>0 DEF TypeOK
    <3>3. Acked \subseteq Acked' /\ Acked' \subseteq Acked \cup D
      BY <2>0, <3>1, <3>2, AckedGrows
    <3>4. UNCHANGED confirmed
      BY <2>3 DEF DeadLetter
    <3>5. Acked \subseteq Stored \cup dlq
      BY <2>0 DEF AckedIsHandled, Acked
    <3>6. D \cap Acked = {} /\ dlq \subseteq Messages
      BY <2>0 DEF HoldingInv, Acked, TypeOK
    <3> QED
      BY <3>1, <3>2, <3>3, <3>4, <3>5, <3>6 DEF Delivery!Acknowledge, Delivery!Gains
  <2>4. ASSUME NEW s \in Streams, FlushRejected(s) \/ CancelRetry(s)
        PROVE UNCHANGED <<confirmed, dlq, Acked>>
    <3>1. NakBatch(s)
      BY <2>4 DEF FlushRejected, CancelRetry
    <3>2. batch[s] \in SUBSET Messages /\ {} \in SUBSET Messages
      BY <2>0 DEF TypeOK
    <3>3. Acked' = Acked
      BY <2>0, <3>1, <3>2, AckedGrows DEF NakBatch
    <3> QED
      BY <3>1, <3>3 DEF NakBatch
  <2>5. ASSUME NEW s \in Streams, Fetch(s) PROVE UNCHANGED <<confirmed, dlq, Acked>>
    <3>1. PICK S \in SUBSET {m \in Messages : StreamOf[m] = s /\ broker[m] = "ready"} :
            broker' = [m \in Messages |-> IF m \in S THEN "pending" ELSE broker[m]]
      BY <2>5 DEF Fetch
    <3>2. Acked' = Acked
      BY <3>1 DEF Acked
    <3> QED
      BY <2>5, <3>2 DEF Fetch, sinkVars
  <2>6. ASSUME NEW n \in Messages, AckWait(n) PROVE UNCHANGED <<confirmed, dlq, Acked>>
    <3>1. Acked' = Acked
      BY <2>0, <2>6 DEF AckWait, Acked, AfterRequeue, TypeOK
    <3> QED
      BY <2>6, <3>1 DEF AckWait
  <2>7. ASSUME \/ \E s \in Streams : Stop(s) \/ FlushAdmitted(s) \/ Retry(s)
               \/ TimePasses \/ Signal \/ Restart \/ UNCHANGED vars
        PROVE UNCHANGED <<confirmed, dlq, Acked>>
    <3>1. UNCHANGED <<confirmed, dlq, broker>>
      BY <2>7 DEF Stop, FlushAdmitted, Retry, TimePasses, Signal, Restart, vars, brokerVars, sinkVars
    <3> QED
      BY <3>1 DEF Acked
  <2>8. UNCHANGED <<confirmed, dlq, Acked>> => UNCHANGED Delivery!vars
    OBVIOUS
  <2> QED
    BY <2>1, <2>2, <2>3, <2>4, <2>5, <2>6, <2>7, <2>8 DEF Next, Step, Delivery!Next
<1> QED
  BY ForwarderInvariant, <1>1, <1>2, PTL DEF Spec, ImplementsDelivery, Delivery!Spec
=============================================================================
