---------------------------- MODULE AdaptersProofs ----------------------------
(* Proofs about an adapter, for any log, any size of the channel and any      *)
(* outcomes of the publishes.                                                 *)
EXTENDS Adapters, FiniteSetTheorems, SequenceTheorems, TLAPS

----------------------------------------------------------------------------
(* The inductive invariant.                                                   *)
Kinds == UNION {Native[s] : s \in Sources}

Control ==
    /\ source \in Sources
    /\ scanner \in {"open", "ended"}
    /\ reader \in {"starting", "loop", "send", "returned"}
    /\ publisher \in {"starting", "select", "first", "second", "stopped"}
    /\ conn \in {"open", "closed"} /\ ctxDone \in BOOLEAN
    /\ process \in {"starting", "running", "exiting", "exited"}

Numbers ==
    /\ file \in Seq(Kinds) /\ channel \in Seq(Nat) /\ stream \in Seq(Nat)
    /\ begin \in Nat /\ pos \in Nat /\ begin <= pos /\ pos <= Len(file)
    /\ Len(file) <= MaxLines /\ Len(channel) <= Capacity
    /\ hand \in Nat /\ inFlight \in Nat /\ published \in Nat /\ errors \in Nat
    /\ hand # 0 <=> reader = "send"
    /\ inFlight # 0 <=> publisher \in {"first", "second"}
    /\ process = "starting" => pos = 0

(* Everything the two goroutines and the stream hold is an event that was     *)
(* read.                                                                      *)
Read(e) == e \in begin + 1..pos /\ IsEvent(e)
AllRead ==
    /\ \A i \in 1..Len(stream) : Read(stream[i])
    /\ \A i \in 1..Len(channel) : Read(channel[i])
    /\ hand # 0 => Read(hand)
    /\ inFlight # 0 => Read(inFlight)

(* What is stored comes before what is in flight, that before the channel,    *)
(* and that before what is in the reader's hand.  Only a first attempt that   *)
(* failed leaves a copy of what is in flight at the end of the stream.        *)
InOrder(s) ==
    \A i, j \in 1..Len(s) : i < j => s[i] < s[j] \/ (s[i] = s[j] /\ j - i < 3)
StreamInOrder == InOrder(stream)
ChannelInOrder ==
    \A i, j \in 1..Len(channel) : i < j => channel[i] < channel[j]
StoredFirst ==
    \A i \in 1..Len(stream) :
        /\ inFlight # 0 => \/ stream[i] < inFlight
                           \/ publisher = "second" /\ i = Len(stream) /\ stream[i] = inFlight
        /\ \A k \in 1..Len(channel) : stream[i] < channel[k]
        /\ hand # 0 => stream[i] < hand
QueuedInOrder ==
    /\ \A k \in 1..Len(channel) : /\ inFlight # 0 => inFlight < channel[k]
                                  /\ hand # 0 => channel[k] < hand
    /\ inFlight # 0 /\ hand # 0 => inFlight < hand
Order == AllRead /\ StreamInOrder /\ ChannelInOrder /\ StoredFirst /\ QueuedInOrder

AdaptersInv == Control /\ Numbers /\ Order /\ EveryEventAccounted

(* The events among the lines the scanner has returned.                       *)
Events == {i \in begin + 1..pos : IsEvent(i)}

LEMMA EventsFinite ==
    ASSUME NEW a \in Nat, NEW b \in Nat, NEW S \in SUBSET (a + 1..b)
    PROVE  IsFiniteSet(S) /\ Cardinality(S) \in Nat
<1>1. IsFiniteSet(a + 1..b)
  BY FS_Interval
<1> QED
  BY <1>1, FS_Subset, FS_CardinalityType

Counted == published + errors + Len(channel) + Held(hand) + Held(inFlight)

(* Concatenation, element by element.                                         *)
LEMMA ConcatNat ==
    ASSUME NEW s \in Seq(Nat), NEW t \in Seq(Nat)
    PROVE  /\ s \o t \in Seq(Nat) /\ Len(s \o t) = Len(s) + Len(t)
           /\ \A i \in 1..Len(s) + Len(t) :
                 (s \o t)[i] = IF i <= Len(s) THEN s[i] ELSE t[i - Len(s)]
BY ConcatProperties

(* Copies of an event behind a sequence.                                      *)
LEMMA Copies ==
    ASSUME NEW c \in 0..2, NEW e \in Nat
    PROVE  \E u \in Seq(Nat) : /\ u = [i \in 1..c |-> e] /\ Len(u) = c
                               /\ \A i \in 1..c : u[i] = e
<1> WITNESS [i \in 1..c |-> e] \in Seq(Nat)
<1> QED
  OBVIOUS

(* They keep it in order when the event comes after all of it but one copy.   *)
LEMMA CopiesInOrder ==
    ASSUME NEW s \in Seq(Nat), NEW t \in Seq(Nat), NEW c \in 0..2, NEW e \in Nat,
           Len(t) = Len(s) + c,
           \A i \in 1..Len(t) : t[i] = IF i <= Len(s) THEN s[i] ELSE e,
           \A i \in 1..Len(s) : s[i] < e \/ (i = Len(s) /\ s[i] = e),
           InOrder(s)
    PROVE  InOrder(t)
<1> SUFFICES ASSUME NEW i \in 1..Len(t), NEW j \in 1..Len(t), i < j
             PROVE  t[i] < t[j] \/ (t[i] = t[j] /\ j - i < 3)
  BY DEF InOrder
<1>1. Len(s) \in Nat /\ \A k \in 1..Len(s) : s[k] \in Nat
  BY LenProperties, ElementOfSeq
<1>2. CASE j <= Len(s)
  <2>1. i \in 1..Len(s) /\ j \in 1..Len(s) /\ t[i] = s[i] /\ t[j] = s[j]
    BY <1>1, <1>2
  <2> QED
    BY <2>1 DEF InOrder
<1>3. CASE i <= Len(s) /\ j > Len(s)
  BY SMTT(30), <1>1, <1>3
<1>4. CASE i > Len(s)
  BY <1>1, <1>4
<1> QED
  BY <1>1, <1>2, <1>3, <1>4

----------------------------------------------------------------------------
LEMMA InitInv == Init => AdaptersInv
<1> SUFFICES ASSUME Init PROVE AdaptersInv
  OBVIOUS
<1>1. Control
  BY DEF Init, Control
<1>2. Numbers
  BY AdaptersAssumption DEF Init, Numbers
<1>3. Order
  BY DEF Init, Order, AllRead, StreamInOrder, InOrder, ChannelInOrder, StoredFirst, QueuedInOrder
<1>4. EveryEventAccounted
  <2>1. Events = {}
    BY DEF Init, Events
  <2> QED
    BY <2>1, FS_EmptySet DEF Init, EveryEventAccounted, Events, Held
<1> QED
  BY <1>1, <1>2, <1>3, <1>4 DEF AdaptersInv

(* The steps that only move control.                                          *)
LEMMA ControlStep ==
    ASSUME AdaptersInv,
           Refuse \/ Signal \/ MainReturns \/ Exit \/ StartReturns \/ ScanEnds
                  \/ TpotPanics \/ PublisherStops
    PROVE  AdaptersInv'
<1> USE DEF AdaptersInv
<1>1. /\ UNCHANGED <<source, file, begin, pos, hand, channel, inFlight, published, errors, stream>>
      /\ reader' = reader \/ (reader = "loop" /\ reader' = "returned")
      /\ publisher' = publisher \/ (publisher = "select" /\ publisher' = "stopped")
      /\ process' = "starting" => process = "starting"
  BY DEF Refuse, Signal, MainReturns, Exit, StartReturns, ScanEnds, TpotPanics, PublisherStops,
         logVars, readerVars, publisherVars, mainVars, ReaderReady, Alive
<1>2. Control'
  BY DEF Control, Refuse, Signal, MainReturns, Exit, StartReturns, ScanEnds, TpotPanics,
         PublisherStops, logVars, readerVars, publisherVars, mainVars
<1>3. Numbers'
  BY <1>1 DEF Numbers
<1>4. Order'
  BY <1>1 DEF Order, AllRead, StreamInOrder, ChannelInOrder, StoredFirst, QueuedInOrder,
              Numbers, Read, IsEvent, EventType
<1>5. EveryEventAccounted'
  BY <1>1 DEF EveryEventAccounted, IsEvent, EventType
<1> QED
  BY <1>2, <1>3, <1>4, <1>5

(* A line is added to the log: those that were read stay what they are.       *)
LEMMA WriteLineStep ==
    ASSUME AdaptersInv, WriteLine PROVE AdaptersInv'
<1> USE DEF AdaptersInv
<1> PICK kind \in Native[source] : file' = Append(file, kind)
  BY DEF WriteLine
<1>1. /\ Len(file) < MaxLines
      /\ UNCHANGED <<source, begin, pos, scanner, reader, hand, channel, publisher, inFlight,
                     published, errors, stream, conn, ctxDone, process>>
  BY DEF WriteLine, readerVars, publisherVars, mainVars
<1>2. kind \in Kinds
  BY DEF Control, Kinds
<1>3. /\ file' \in Seq(Kinds) /\ Len(file') = Len(file) + 1
      /\ \A i \in 1..Len(file) : file'[i] = file[i]
  BY <1>2, AppendProperties DEF Numbers
<1>4. \A i \in begin + 1..pos : IsEvent(i)' <=> IsEvent(i)
  BY <1>1, <1>3 DEF IsEvent, EventType, Numbers
<1>5. Control'
  BY <1>1 DEF Control
<1>6. Numbers'
  BY <1>1, <1>3, AdaptersAssumption DEF Numbers
<1>7. Order'
  <2>1. \A e : Read(e) => Read(e)'
    BY <1>1, <1>4 DEF Read
  <2>2. AllRead'
    BY <1>1, <2>1 DEF AllRead, Order
  <2> QED
    BY <1>1, <2>2 DEF Order, StreamInOrder, ChannelInOrder, StoredFirst, QueuedInOrder
<1>8. EveryEventAccounted'
  BY <1>1, <1>4 DEF EveryEventAccounted
<1> QED
  BY <1>5, <1>6, <1>7, <1>8

(* The process begins at the end of the log, nothing having been read.        *)
LEMMA BeginStep ==
    ASSUME AdaptersInv, Begin PROVE AdaptersInv'
<1> USE DEF AdaptersInv
<1>1. /\ begin' = Len(file) /\ pos' = Len(file) /\ publisher' = "select" /\ reader' = "loop"
      /\ process' = "running" /\ process = "starting"
      /\ UNCHANGED <<source, file, scanner, hand, channel, inFlight, published, errors, stream,
                     conn, ctxDone>>
  BY DEF Begin, logVars
<1>2. pos = 0 /\ begin = 0 /\ Len(file) \in Nat
  BY <1>1 DEF Numbers
<1>3. \A e : ~Read(e)
  BY <1>2 DEF Read
<1>4. hand = 0 /\ inFlight = 0 /\ Len(channel) = 0 /\ Len(stream) = 0
  BY SMTT(30), <1>3 DEF Order, AllRead, Numbers
<1>5. Control'
  BY <1>1 DEF Control
<1>6. Numbers'
  BY <1>1, <1>2, <1>4 DEF Numbers
<1>7. Order'
  BY <1>1, <1>4 DEF Order, AllRead, StreamInOrder, ChannelInOrder, StoredFirst, QueuedInOrder
<1>8. EveryEventAccounted'
  <2>1. {i \in begin + 1..pos : IsEvent(i)} = {} /\ {i \in begin + 1..pos : IsEvent(i)}' = {}
    BY <1>1, <1>2
  <2> QED
    BY <1>1, <2>1 DEF EveryEventAccounted, Held
<1> QED
  BY <1>5, <1>6, <1>7, <1>8

(* A line is read: an event goes to the reader's hand, behind everything else.*)
LEMMA ScanLineStep ==
    ASSUME AdaptersInv, ScanLine PROVE AdaptersInv'
<1> USE DEF AdaptersInv
<1>1. /\ reader = "loop" /\ hand = 0 /\ pos < Len(file) /\ pos' = pos + 1
      /\ process = "running"
      /\ UNCHANGED <<source, file, begin, scanner, channel, publisher, inFlight, published,
                     errors, stream, conn, ctxDone, process>>
  BY DEF ScanLine, ReaderReady, Numbers, logVars, publisherVars, mainVars
<1>2. \/ IsEvent(pos + 1) /\ reader' = "send" /\ hand' = pos + 1
      \/ ~IsEvent(pos + 1) /\ reader' = reader /\ hand' = hand
  BY DEF ScanLine
<1>3. Control'
  BY <1>1, <1>2 DEF Control
<1>4. Numbers'
  BY <1>1, <1>2 DEF Numbers
<1>5. \A e : IsEvent(e)' <=> IsEvent(e)
  BY <1>1 DEF IsEvent, EventType
<1>6. Order'
  <2>0. begin \in Nat /\ pos \in Nat /\ begin <= pos
    BY DEF Numbers
  <2>1. \A e : Read(e) => Read(e)' /\ e \in Nat /\ e < pos + 1
    <3> SUFFICES ASSUME NEW e, e \in begin + 1..pos, IsEvent(e)
                 PROVE  e \in begin + 1..pos + 1 /\ IsEvent(e)' /\ e \in Nat /\ e < pos + 1
      BY <1>1 DEF Read
    <3> QED
      BY <1>5, <2>0
  <2>2. hand' # 0 => hand' = pos + 1 /\ hand' \in begin' + 1..pos' /\ IsEvent(hand)'
    <3>1. CASE IsEvent(pos + 1) /\ hand' = pos + 1
      BY <1>1, <1>5, <2>0, <3>1 DEF IsEvent, EventType
    <3>2. CASE hand' = 0
      BY <3>2
    <3> QED
      BY <1>1, <1>2, <3>1, <3>2
  <2>3. AllRead'
    <3>1. (hand # 0 => Read(hand))'
      BY <2>2 DEF Read
    <3>2. (\A i \in 1..Len(stream) : Read(stream[i]))'
      BY <1>1, <2>1 DEF AllRead, Order
    <3>3. (\A i \in 1..Len(channel) : Read(channel[i]))'
      BY <1>1, <2>1 DEF AllRead, Order
    <3>4. (inFlight # 0 => Read(inFlight))'
      BY <1>1, <2>1 DEF AllRead, Order
    <3> QED
      BY <3>1, <3>2, <3>3, <3>4 DEF AllRead
  <2>4. StreamInOrder' /\ ChannelInOrder'
    BY <1>1 DEF Order, StreamInOrder, ChannelInOrder
  <2>5. StoredFirst' /\ QueuedInOrder'
    BY <1>1, <2>1, <2>2 DEF Order, AllRead, StoredFirst, QueuedInOrder
  <2> QED
    BY <2>3, <2>4, <2>5 DEF Order
<1>7. EveryEventAccounted'
  <2>1. IsFiniteSet(Events) /\ Cardinality(Events) \in Nat
    BY EventsFinite DEF Events, Numbers
  <2>2. pos + 1 \notin Events
    BY DEF Events, Numbers
  <2>3. CASE IsEvent(pos + 1)
    <3>1. {i \in begin + 1..pos : IsEvent(i)}' = Events \cup {pos + 1}
      BY <1>1, <1>5, <2>3 DEF Events, Numbers
    <3>2. Cardinality(Events \cup {pos + 1}) = Cardinality(Events) + 1
      BY <2>1, <2>2, FS_AddElement
    <3>3. Held(hand) = 0 /\ Held(hand)' = 1
      BY <1>1, <1>2, <2>3 DEF Held, Numbers
    <3>4. /\ published \in Nat /\ errors \in Nat /\ Len(channel) \in Nat
          /\ Held(inFlight) \in Nat
      BY LenProperties DEF Numbers, Held
    <3>5. Counted' = Counted + 1
      BY <1>1, <3>3, <3>4 DEF Counted, Held
    <3>6. Cardinality(Events) = Counted
      BY DEF EveryEventAccounted, Events, Counted
    <3>7. Cardinality({i \in begin + 1..pos : IsEvent(i)}') = Counted'
      BY <3>1, <3>2, <3>5, <3>6
    <3> QED
      BY <3>7 DEF EveryEventAccounted, Counted
  <2>4. CASE ~IsEvent(pos + 1)
    <3>1. {i \in begin + 1..pos : IsEvent(i)}' = {i \in begin + 1..pos : IsEvent(i)}
      BY <1>1, <1>5, <2>4 DEF Numbers
    <3> QED
      BY <1>1, <1>2, <2>4, <3>1 DEF EveryEventAccounted
  <2> QED
    BY <2>3, <2>4
<1> QED
  BY <1>3, <1>4, <1>6, <1>7

(* The steps after it neither read a line nor change one.                     *)
LEMMA ReadStays ==
    ASSUME UNCHANGED <<source, file, begin, pos>>
    PROVE  /\ \A e : Read(e)' <=> Read(e)
           /\ {i \in begin + 1..pos : IsEvent(i)}' = {i \in begin + 1..pos : IsEvent(i)}
BY DEF Read, IsEvent, EventType

(* What is counted, held or queued in them stays the same.                    *)
LEMMA AccountStays ==
    ASSUME EveryEventAccounted, UNCHANGED <<source, file, begin, pos>>, Counted' = Counted
    PROVE  EveryEventAccounted'
BY ReadStays DEF EveryEventAccounted, Counted

(* The event in hand goes to the end of the channel.                          *)
LEMMA SendStep ==
    ASSUME AdaptersInv, Send PROVE AdaptersInv'
<1> USE DEF AdaptersInv
<1>1. /\ reader = "send" /\ Len(channel) < Capacity /\ channel' = Append(channel, hand)
      /\ reader' = "loop" /\ hand' = 0
      /\ UNCHANGED <<source, file, begin, pos, scanner, publisher, inFlight, published,
                     errors, stream, conn, ctxDone, process>>
  BY DEF Send, logVars, publisherVars, mainVars
<1>2. /\ channel' \in Seq(Nat) /\ Len(channel') = Len(channel) + 1
      /\ \A i \in 1..Len(channel) : channel'[i] = channel[i]
      /\ channel'[Len(channel) + 1] = hand
  BY <1>1, AppendProperties DEF Numbers
<1>3. hand # 0 /\ hand \in Nat /\ channel \in Seq(Nat) /\ stream \in Seq(Nat) /\ inFlight \in Nat
  BY <1>1 DEF Numbers
<1>4. Control'
  BY <1>1 DEF Control
<1>5. Numbers'
  BY <1>1, <1>2, AdaptersAssumption DEF Numbers
<1>6. Order'
  <2>1. AllRead'
    BY <1>1, <1>2, <1>3, ReadStays DEF AllRead, Order
  <2>2. StreamInOrder'
    BY <1>1 DEF Order, StreamInOrder
  <2>3. ChannelInOrder'
    BY <1>1, <1>2, <1>3 DEF Order, ChannelInOrder, QueuedInOrder
  <2>4. StoredFirst'
    BY <1>1, <1>2, <1>3 DEF Order, StoredFirst
  <2>5. QueuedInOrder'
    BY <1>1, <1>2, <1>3 DEF Order, QueuedInOrder
  <2> QED
    BY <2>1, <2>2, <2>3, <2>4, <2>5 DEF Order
<1>7. EveryEventAccounted'
  <2>1. Held(hand) = 1 /\ Held(hand') = 0
    BY <1>1, <1>3 DEF Held
  <2>2. Counted' = Counted
    BY <1>1, <1>2, <1>3, <2>1 DEF Counted, Held, Numbers
  <2> QED
    BY <1>1, <2>2, AccountStays
<1> QED
  BY <1>4, <1>5, <1>6, <1>7

(* The first event of the channel is taken.                                   *)
LEMMA ReceiveStep ==
    ASSUME AdaptersInv, Receive PROVE AdaptersInv'
<1> USE DEF AdaptersInv
<1>1. /\ publisher = "select" /\ channel # <<>> /\ inFlight = 0
      /\ inFlight' = Head(channel) /\ channel' = Tail(channel) /\ publisher' = "first"
      /\ UNCHANGED <<source, file, begin, pos, scanner, reader, hand, published, errors,
                     stream, conn, ctxDone, process>>
  BY DEF Receive, Numbers, logVars, readerVars, mainVars
<1>2. /\ channel' \in Seq(Nat) /\ Len(channel') = Len(channel) - 1
      /\ \A i \in 1..Len(channel') : channel'[i] = channel[i + 1]
      /\ Len(channel) \in Nat \ {0} /\ inFlight' = channel[1]
  BY <1>1, HeadTailProperties, LenProperties DEF Numbers
<1>3. hand \in Nat /\ channel \in Seq(Nat) /\ stream \in Seq(Nat)
  BY DEF Numbers
<1>4. Read(channel[1]) /\ channel[1] \in Nat /\ channel[1] # 0
  BY <1>2 DEF Order, AllRead, Read, Numbers
<1>5. Control'
  BY <1>1 DEF Control
<1>6. Numbers'
  <2>1. inFlight' \in Nat /\ inFlight' # 0 /\ Len(channel') <= Capacity
    BY <1>2, <1>4, AdaptersAssumption DEF Numbers
  <2>2. inFlight' # 0 <=> publisher' \in {"first", "second"}
    BY <1>1, <2>1
  <2>3. channel' \in Seq(Nat)
    BY <1>2
  <2> QED
    BY <1>1, <2>1, <2>2, <2>3 DEF Numbers
<1>7. Order'
  <2>1. AllRead'
    BY <1>1, <1>2, <1>4, ReadStays DEF AllRead, Order
  <2>2. StreamInOrder'
    BY <1>1 DEF Order, StreamInOrder
  <2>3. ChannelInOrder'
    BY <1>1, <1>2, <1>3 DEF Order, ChannelInOrder
  <2>4. StoredFirst'
    BY <1>1, <1>2, <1>3 DEF Order, StoredFirst
  <2>5. QueuedInOrder'
    BY <1>1, <1>2, <1>3 DEF Order, QueuedInOrder, ChannelInOrder
  <2> QED
    BY <2>1, <2>2, <2>3, <2>4, <2>5 DEF Order
<1>8. EveryEventAccounted'
  <2>1. Held(inFlight) = 0 /\ Held(inFlight') = 1
    BY <1>1, <1>2, <1>4 DEF Held
  <2>2. Counted' = Counted
    BY <1>1, <1>2, <1>3, <2>1 DEF Counted, Held, Numbers
  <2> QED
    BY <1>1, <2>2, AccountStays
<1> QED
  BY <1>5, <1>6, <1>7, <1>8

(* What an attempt at publishing may store.                                   *)
LEMMA OutcomesBounded ==
    ASSUME NEW o \in PublishOutcomes
    PROVE  o.copies \in 0..2 /\ (o.ok \/ o.copies \in 0..1) /\ o.ok \in BOOLEAN
<1>1. \/ o = [ok |-> FALSE, copies |-> 0]
      \/ o \in [ok : {TRUE}, copies : 0..2]
      \/ o \in [ok : {FALSE}, copies : 0..1]
  BY DEF PublishOutcomes
<1>2. CASE o = [ok |-> FALSE, copies |-> 0]
  BY <1>2
<1>3. CASE o \in [ok : {TRUE}, copies : 0..2]
  BY <1>3
<1>4. CASE o \in [ok : {FALSE}, copies : 0..1]
  <2>1. o.ok = FALSE /\ o.copies \in 0..1
    BY <1>4, Zenon
  <2>2. o.copies \in 0..2
    BY <2>1
  <2> QED
    BY <2>1, <2>2, Zenon
<1> QED
  BY <1>1, <1>2, <1>3, <1>4

(* The first attempt: the event leaves the publisher, or is tried again with  *)
(* one copy at most stored.                                                   *)
LEMMA PublishFirstStep ==
    ASSUME AdaptersInv, PublishFirst PROVE AdaptersInv'
<1> USE DEF AdaptersInv
<1> PICK o \in PublishOutcomes :
      /\ Store(o.copies)
      /\ IF o.ok THEN publisher' = "select" /\ inFlight' = 0 /\ published' = published + 1
                 ELSE publisher' = "second" /\ UNCHANGED <<inFlight, published>>
  BY DEF PublishFirst
<1>1. /\ publisher = "first" /\ inFlight # 0 /\ inFlight \in Nat
      /\ UNCHANGED <<source, file, begin, pos, scanner, reader, hand, channel, errors,
                     conn, ctxDone, process>>
  BY DEF PublishFirst, Numbers, logVars, readerVars, mainVars
<1>2. o.copies \in 0..2 /\ (o.ok \/ o.copies \in 0..1) /\ o.ok \in BOOLEAN
  BY OutcomesBounded
<1>3. \/ publisher' = "select" /\ inFlight' = 0 /\ published' = published + 1
      \/ /\ publisher' = "second" /\ inFlight' = inFlight /\ published' = published
         /\ o.copies \in 0..1
  BY <1>2
<1>4. /\ stream' \in Seq(Nat) /\ Len(stream') = Len(stream) + o.copies
      /\ \A i \in 1..Len(stream') :
            stream'[i] = IF i <= Len(stream) THEN stream[i] ELSE inFlight
  <2>1. stream' = stream \o [i \in 1..o.copies |-> inFlight]
    BY DEF Store
  <2>2. stream \in Seq(Nat)
    BY DEF Numbers
  <2> QED
    <3> PICK u \in Seq(Nat) : /\ u = [i \in 1..o.copies |-> inFlight] /\ Len(u) = o.copies
                              /\ \A i \in 1..o.copies : u[i] = inFlight
      BY <1>1, <1>2, Copies
    <3>1. stream' = stream \o u
      BY <2>1
    <3>2. /\ stream \o u \in Seq(Nat) /\ Len(stream \o u) = Len(stream) + Len(u)
          /\ \A i \in 1..Len(stream) + Len(u) :
                (stream \o u)[i] = IF i <= Len(stream) THEN stream[i] ELSE u[i - Len(stream)]
      BY <2>2, ConcatNat
    <3>3. \A i \in 1..Len(stream) + o.copies :
             i > Len(stream) => u[i - Len(stream)] = inFlight
      BY <1>2, <2>2
    <3> QED
      BY <1>2, <2>2, <3>1, <3>2, <3>3
<1>5. hand \in Nat /\ channel \in Seq(Nat) /\ stream \in Seq(Nat)
  BY DEF Numbers
<1>6. Control'
  BY <1>1, <1>3 DEF Control
<1>7. Numbers'
  BY <1>1, <1>3, <1>4 DEF Numbers
<1>8. Order'
  <2>1. \A i \in 1..Len(stream) : stream[i] < inFlight
    BY <1>1 DEF Order, StoredFirst
  <2>2. AllRead'
    BY <1>1, <1>3, <1>4, <1>5, ReadStays DEF AllRead, Order
  <2>3. StreamInOrder'
    BY <1>1, <1>2, <1>4, <1>5, <2>1, CopiesInOrder DEF Order, StreamInOrder
  <2>4. ChannelInOrder'
    BY <1>1 DEF Order, ChannelInOrder
  <2>5. StoredFirst'
    <3> SUFFICES ASSUME NEW i \in 1..Len(stream')
                 PROVE  /\ inFlight' # 0 =>
                              \/ stream'[i] < inFlight'
                              \/ /\ publisher' = "second" /\ i = Len(stream')
                                 /\ stream'[i] = inFlight'
                        /\ \A k \in 1..Len(channel) : stream'[i] < channel[k]
                        /\ hand # 0 => stream'[i] < hand
      BY <1>1 DEF StoredFirst
    <3>1. CASE i <= Len(stream)
      <4>1. i \in 1..Len(stream) /\ stream'[i] = stream[i]
        BY <3>1, <1>4, <1>5
      <4> QED
        BY <4>1, <1>1, <1>3, <2>1 DEF Order, StoredFirst
    <3>2. CASE i > Len(stream)
      <4>1. stream'[i] = inFlight
        BY <3>2, <1>4, <1>5
      <4>2. inFlight' # 0 => inFlight' = inFlight /\ publisher' = "second" /\ i = Len(stream')
        BY <3>2, <1>3, <1>4, <1>5
      <4> QED
        BY <4>1, <4>2, <1>1 DEF Order, QueuedInOrder
    <3> QED
      BY <3>1, <3>2, <1>5
  <2>6. QueuedInOrder'
    BY <1>1, <1>3 DEF Order, QueuedInOrder
  <2> QED
    BY <2>2, <2>3, <2>4, <2>5, <2>6 DEF Order
<1>9. EveryEventAccounted'
  <2>1. /\ published \in Nat /\ errors \in Nat /\ Len(channel) \in Nat
        /\ Held(hand) \in Nat
    BY LenProperties DEF Numbers, Held
  <2>2. Held(inFlight) = 1 /\ Held(0) = 0
    BY <1>1 DEF Held
  <2>3. Counted' = Counted
    BY <1>1, <1>3, <2>1, <2>2 DEF Counted, Held
  <2> QED
    BY <1>1, <2>3, AccountStays
<1> QED
  BY <1>6, <1>7, <1>8, <1>9

(* The retry: the event leaves the publisher, counted as one or the other.    *)
LEMMA PublishSecondStep ==
    ASSUME AdaptersInv, PublishSecond PROVE AdaptersInv'
<1> USE DEF AdaptersInv
<1> PICK o \in PublishOutcomes :
      /\ Store(o.copies)
      /\ published' = published + (IF o.ok THEN 1 ELSE 0)
      /\ errors' = errors + (IF o.ok THEN 0 ELSE 1)
  BY DEF PublishSecond
<1>1. /\ publisher = "second" /\ inFlight # 0 /\ inFlight \in Nat
      /\ publisher' = "select" /\ inFlight' = 0
      /\ UNCHANGED <<source, file, begin, pos, scanner, reader, hand, channel,
                     conn, ctxDone, process>>
  BY DEF PublishSecond, Numbers, logVars, readerVars, mainVars
<1>2. o.copies \in 0..2 /\ o.ok \in BOOLEAN
  BY OutcomesBounded
<1>3. \/ published' = published + 1 /\ errors' = errors
      \/ published' = published /\ errors' = errors + 1
  BY DEF Numbers
<1>4. /\ stream' \in Seq(Nat) /\ Len(stream') = Len(stream) + o.copies
      /\ \A i \in 1..Len(stream') :
            stream'[i] = IF i <= Len(stream) THEN stream[i] ELSE inFlight
  <2>1. stream' = stream \o [i \in 1..o.copies |-> inFlight]
    BY DEF Store
  <2>2. stream \in Seq(Nat)
    BY DEF Numbers
  <2> QED
    <3> PICK u \in Seq(Nat) : /\ u = [i \in 1..o.copies |-> inFlight] /\ Len(u) = o.copies
                              /\ \A i \in 1..o.copies : u[i] = inFlight
      BY <1>1, <1>2, Copies
    <3>1. stream' = stream \o u
      BY <2>1
    <3>2. /\ stream \o u \in Seq(Nat) /\ Len(stream \o u) = Len(stream) + Len(u)
          /\ \A i \in 1..Len(stream) + Len(u) :
                (stream \o u)[i] = IF i <= Len(stream) THEN stream[i] ELSE u[i - Len(stream)]
      BY <2>2, ConcatNat
    <3>3. \A i \in 1..Len(stream) + o.copies :
             i > Len(stream) => u[i - Len(stream)] = inFlight
      BY <1>2, <2>2
    <3> QED
      BY SMTT(30), <1>2, <2>2, <3>1, <3>2, <3>3
<1>5. hand \in Nat /\ channel \in Seq(Nat) /\ stream \in Seq(Nat)
  BY DEF Numbers
<1>6. Control'
  BY <1>1 DEF Control
<1>7. Numbers'
  BY <1>1, <1>3, <1>4 DEF Numbers
<1>8. Order'
  <2>1. \A i \in 1..Len(stream) :
           stream[i] < inFlight \/ (i = Len(stream) /\ stream[i] = inFlight)
    BY <1>1 DEF Order, StoredFirst
  <2>2. AllRead'
    <3>1. (\A i \in 1..Len(stream) : Read(stream[i]))'
      <4> SUFFICES ASSUME NEW i \in 1..Len(stream') PROVE Read(stream'[i])
        BY <1>1, ReadStays
      <4> QED
        BY SMTT(30), <1>1, <1>4, <1>5 DEF AllRead, Order
    <3> QED
      BY <1>1, <3>1, ReadStays DEF AllRead, Order
  <2>3. StreamInOrder'
    BY <1>1, <1>2, <1>4, <1>5, <2>1, CopiesInOrder DEF Order, StreamInOrder
  <2>4. ChannelInOrder'
    BY <1>1 DEF Order, ChannelInOrder
  <2>5. StoredFirst'
    <3> SUFFICES ASSUME NEW i \in 1..Len(stream')
                 PROVE  /\ \A k \in 1..Len(channel) : stream'[i] < channel[k]
                        /\ hand # 0 => stream'[i] < hand
      BY <1>1 DEF StoredFirst
    <3>1. CASE i <= Len(stream)
      <4>1. i \in 1..Len(stream) /\ stream'[i] = stream[i]
        BY <1>4, <1>5, <3>1, LenProperties
      <4> QED
        BY <4>1 DEF Order, StoredFirst
    <3>2. CASE ~ (i <= Len(stream))
      <4>1. stream'[i] = inFlight
        BY <1>4, <3>2
      <4> QED
        BY <1>1, <4>1 DEF Order, QueuedInOrder
    <3> QED
      BY <3>1, <3>2
  <2>6. QueuedInOrder'
    BY <1>1 DEF Order, QueuedInOrder
  <2> QED
    BY <2>2, <2>3, <2>4, <2>5, <2>6 DEF Order
<1>9. EveryEventAccounted'
  <2>1. /\ published \in Nat /\ errors \in Nat /\ Len(channel) \in Nat
        /\ Held(hand) \in Nat
    BY LenProperties DEF Numbers, Held
  <2>2. Held(inFlight) = 1 /\ Held(0) = 0
    BY <1>1 DEF Held
  <2>3. Counted' = Counted
    <3>1. published' + errors' = published + errors + 1
      BY <1>3, <2>1
    <3>2. published' \in Nat /\ errors' \in Nat
      BY <1>3, <2>1
    <3>3. Held(hand') = Held(hand) /\ Held(inFlight') = 0 /\ Len(channel') = Len(channel)
      BY <1>1, <2>2
    <3> QED
      BY <2>1, <2>2, <3>1, <3>2, <3>3 DEF Counted
  <2> QED
    BY <1>1, <2>3, AccountStays
<1> QED
  BY <1>6, <1>7, <1>8, <1>9

LEMMA StutterStep ==
    ASSUME AdaptersInv, UNCHANGED vars PROVE AdaptersInv'
BY DEF vars, logVars, readerVars, publisherVars, mainVars, AdaptersInv, Control, Numbers, Order,
       AllRead, StreamInOrder, ChannelInOrder, StoredFirst, QueuedInOrder, EveryEventAccounted,
       Read, IsEvent, EventType, Held

(* The invariant of an adapter, in every state it reaches.                    *)
THEOREM InvAlways == Spec => []AdaptersInv
<1>1. AdaptersInv /\ [Next]_vars => AdaptersInv'
  BY ControlStep, WriteLineStep, BeginStep, ScanLineStep, SendStep, ReceiveStep,
     PublishFirstStep, PublishSecondStep, StutterStep
  DEF Next, Reader, Publisher, Main
<1> QED
  BY InitInv, <1>1, PTL DEF Spec

----------------------------------------------------------------------------
(* What follows from it.                                                      *)
LEMMA InRange ==
    ASSUME NEW s \in Seq(Nat), NEW n \in Nat, \A i \in 1..Len(s) : s[i] \in 1..n
    PROVE  s \in Seq(1..n)
OBVIOUS

LEMMA InvTypes == AdaptersInv => TypeOK
<1> SUFFICES ASSUME AdaptersInv PROVE TypeOK
  OBVIOUS
<1> USE DEF AdaptersInv
<1>1. \A e : Read(e) => e \in 1..pos
  BY DEF Read, Numbers
<1>2. channel \in Seq(1..pos) /\ stream \in Seq(1..pos)
  BY <1>1, InRange DEF Order, AllRead, Numbers
<1>3. hand \in 0..pos /\ inFlight \in 0..pos
  BY <1>1 DEF Order, AllRead, Numbers
<1>4. begin \in 0..pos /\ pos \in 0..Len(file)
  BY DEF Numbers
<1> QED
  BY <1>2, <1>3, <1>4 DEF TypeOK, Control, Numbers

(* TypeOK for every log: what the goroutines and the stream hold are lines    *)
(* that were read, the reader has an event exactly while it sends.            *)
THEOREM TypeCorrect == Spec => []TypeOK
BY InvAlways, InvTypes, PTL

(* No event is lost uncounted or counted twice, whatever publishes fail and   *)
(* whenever the signal comes.                                                 *)
THEOREM EventsAlwaysAccounted == Spec => []EveryEventAccounted
<1>1. AdaptersInv => EveryEventAccounted
  BY DEF AdaptersInv
<1> QED
  BY InvAlways, <1>1, PTL

(* An element of a concatenation is one of a part's.                          *)
LEMMA InParts ==
    ASSUME NEW s \in Seq(Nat), NEW t \in Seq(Nat), NEW k \in 1..Len(s \o t)
    PROVE  \/ k \in 1..Len(s) /\ (s \o t)[k] = s[k]
           \/ \E m \in 1..Len(t) : k = Len(s) + m /\ (s \o t)[k] = t[m]
<1>1. Len(s) \in Nat /\ Len(t) \in Nat /\ k \in 1..Len(s) + Len(t)
  BY ConcatNat, LenProperties
<1>2. CASE k <= Len(s)
  BY <1>1, <1>2, ConcatNat
<1>3. CASE k > Len(s)
  <2> PICK m \in 1..Len(t) : k = Len(s) + m
    <3>1. k - Len(s) \in 1..Len(t) /\ k = Len(s) + (k - Len(s))
      BY <1>1, <1>3
    <3> QED
      BY <3>1
  <2>1. (s \o t)[k] = t[m]
    BY <1>1, <1>3, ConcatNat
  <2> QED
    BY <2>1
<1> QED
  BY <1>1, <1>2, <1>3

(* Where in the stream, followed by what is pending, an event stands.         *)
LEMMA Places ==
    ASSUME AdaptersInv, NEW all, all = stream \o Pending, NEW k \in 1..Len(all)
    PROVE  \/ k \in 1..Len(stream) /\ all[k] = stream[k]
           \/ inFlight # 0 /\ k = Len(stream) + 1 /\ all[k] = inFlight
           \/ \E m \in 1..Len(channel) :
                 k = Len(stream) + Held(inFlight) + m /\ all[k] = channel[m]
           \/ hand # 0 /\ k = Len(stream) + Held(inFlight) + Len(channel) + 1 /\ all[k] = hand
<1> DEFINE F == IF inFlight = 0 THEN <<>> ELSE <<inFlight>>
           H == IF hand = 0 THEN <<>> ELSE <<hand>>
           G == F \o channel
           P == G \o H
<1>1. /\ stream \in Seq(Nat) /\ channel \in Seq(Nat) /\ hand \in Nat /\ inFlight \in Nat
      /\ Len(stream) \in Nat /\ Len(channel) \in Nat
  BY LenProperties DEF AdaptersInv, Numbers
<1>0. Held(inFlight) \in Nat
  BY DEF Held
<1>2. /\ F \in Seq(Nat) /\ Len(F) = Held(inFlight)
      /\ \A m \in 1..Len(F) : inFlight # 0 /\ m = 1 /\ F[m] = inFlight
  BY <1>1 DEF Held
<1>3. /\ H \in Seq(Nat)
      /\ \A m \in 1..Len(H) : hand # 0 /\ m = 1 /\ H[m] = hand
  BY <1>1
<1>4. all = stream \o P
  BY DEF Pending
<1> HIDE DEF F, H
<1>5. G \in Seq(Nat) /\ Len(G) = Held(inFlight) + Len(channel)
  BY <1>1, <1>2, ConcatNat
<1>6. P \in Seq(Nat)
  BY <1>3, <1>5, ConcatNat
<1>7. CASE k \in 1..Len(stream) /\ all[k] = stream[k]
  BY <1>7
<1>8. ASSUME NEW p \in 1..Len(P), k = Len(stream) + p, all[k] = P[p]
      PROVE  \/ inFlight # 0 /\ k = Len(stream) + 1 /\ all[k] = inFlight
             \/ \E m \in 1..Len(channel) :
                   k = Len(stream) + Held(inFlight) + m /\ all[k] = channel[m]
             \/ hand # 0 /\ k = Len(stream) + Held(inFlight) + Len(channel) + 1 /\ all[k] = hand
  <2>1. CASE p \in 1..Len(G) /\ P[p] = G[p]
    <3>1. \/ p \in 1..Len(F) /\ G[p] = F[p]
          \/ \E m \in 1..Len(channel) : p = Len(F) + m /\ G[p] = channel[m]
      BY <1>1, <1>2, <2>1, InParts
    <3>2. CASE p \in 1..Len(F) /\ G[p] = F[p]
      BY <1>2, <1>8, <2>1, <3>2
    <3>3. CASE \E m \in 1..Len(channel) : p = Len(F) + m /\ G[p] = channel[m]
      <4> HIDE DEF G, P
      <4> PICK m \in 1..Len(channel) : p = Len(F) + m /\ G[p] = channel[m]
        BY <3>3
      <4>1. k = Len(stream) + Held(inFlight) + m /\ all[k] = channel[m]
        <5>1. k = Len(stream) + p /\ p = Held(inFlight) + m /\ all[k] = P[p] /\ P[p] = G[p]
          BY <1>2, <1>8, <2>1
        <5>2. all[k] = channel[m]
          BY <5>1
        <5>3. m \in Nat
          BY <1>1
        <5>4. Len(stream) + (Held(inFlight) + m) = Len(stream) + Held(inFlight) + m
          BY <1>0, <1>1, <5>3
        <5> QED
          BY <5>1, <5>2, <5>4
      <4> QED
        BY <4>1
    <3> QED
      BY <3>1, <3>2, <3>3
  <2>2. CASE \E m \in 1..Len(H) : p = Len(G) + m /\ P[p] = H[m]
    <3> HIDE DEF G, P
    <3> PICK m \in 1..Len(H) : p = Len(G) + m /\ P[p] = H[m]
      BY <2>2
    <3>1. hand # 0 /\ m = 1 /\ H[m] = hand
      BY <1>3
    <3> QED
      <4>1. k = Len(stream) + p /\ p = Held(inFlight) + Len(channel) + 1 /\ all[k] = P[p]
        BY <1>5, <1>8, <3>1
      <4>2. all[k] = hand
        BY <3>1, <4>1
      <4>3. Len(stream) + (Held(inFlight) + Len(channel) + 1)
              = Len(stream) + Held(inFlight) + Len(channel) + 1
        BY <1>0, <1>1
      <4> QED
        BY <3>1, <4>1, <4>2, <4>3
  <2>3. \/ p \in 1..Len(G) /\ P[p] = G[p]
        \/ \E m \in 1..Len(H) : p = Len(G) + m /\ P[p] = H[m]
    BY <1>3, <1>5, InParts
  <2> QED
    BY <2>1, <2>2, <2>3
<1> HIDE DEF P
<1>9. \/ k \in 1..Len(stream) /\ all[k] = stream[k]
      \/ \E p \in 1..Len(P) : k = Len(stream) + p /\ all[k] = P[p]
  BY SMTT(30), <1>1, <1>4, <1>6, InParts
<1> QED
  BY <1>7, <1>8, <1>9

LEMMA InvOrders == AdaptersInv => StreamFollowsLog
<1> SUFFICES ASSUME AdaptersInv PROVE StreamFollowsLog
  OBVIOUS
<1> DEFINE all == stream \o Pending
<1>1. \A k \in 1..Len(stream) : stream[k] > begin /\ IsEvent(stream[k])
  BY DEF AdaptersInv, Order, AllRead, Read, Numbers
<1>2. ASSUME NEW j \in 1..Len(all), NEW k \in 1..Len(all), j < k
      PROVE  \/ all[j] < all[k]
             \/ all[j] = all[k] /\ k <= Len(stream) + Held(inFlight) /\ k - j < 3
  <2>1. /\ stream \in Seq(Nat) /\ channel \in Seq(Nat) /\ hand \in Nat /\ inFlight \in Nat
        /\ Len(stream) \in Nat /\ Len(channel) \in Nat /\ j \in Nat /\ k \in Nat
    BY LenProperties DEF AdaptersInv, Numbers
  <2>2. Held(inFlight) = IF inFlight = 0 THEN 0 ELSE 1
    BY DEF Held
  <2> DEFINE At(i) ==
        \/ i \in 1..Len(stream) /\ all[i] = stream[i]
        \/ inFlight # 0 /\ i = Len(stream) + 1 /\ all[i] = inFlight
        \/ \E m \in 1..Len(channel) :
              i = Len(stream) + Held(inFlight) + m /\ all[i] = channel[m]
        \/ hand # 0 /\ i = Len(stream) + Held(inFlight) + Len(channel) + 1 /\ all[i] = hand
  <2>3. At(j) /\ At(k)
    BY Places
  <2> HIDE DEF all
  <2>4. CASE j \in 1..Len(stream) /\ all[j] = stream[j]
    <3>1. CASE k \in 1..Len(stream) /\ all[k] = stream[k]
      BY <1>2, <2>1, <2>2, <2>4, <3>1 DEF AdaptersInv, Order, StreamInOrder, InOrder
    <3>2. CASE inFlight # 0 /\ k = Len(stream) + 1 /\ all[k] = inFlight
      BY <1>2, <2>1, <2>2, <2>4, <3>2 DEF AdaptersInv, Order, StoredFirst
    <3>3. CASE \E m \in 1..Len(channel) : all[k] = channel[m]
      BY <2>1, <2>4, <3>3 DEF AdaptersInv, Order, StoredFirst
    <3>4. CASE hand # 0 /\ all[k] = hand
      BY <2>1, <2>4, <3>4 DEF AdaptersInv, Order, StoredFirst
    <3> QED
      BY <2>3, <3>1, <3>2, <3>3, <3>4
  <2>5. CASE inFlight # 0 /\ j = Len(stream) + 1 /\ all[j] = inFlight
    BY <1>2, <2>1, <2>2, <2>3, <2>5 DEF AdaptersInv, Order, QueuedInOrder
  <2>6. CASE \E m \in 1..Len(channel) :
               j = Len(stream) + Held(inFlight) + m /\ all[j] = channel[m]
    <3> PICK m \in 1..Len(channel) : j = Len(stream) + Held(inFlight) + m /\ all[j] = channel[m]
      BY <2>6
    <3>1. k > Len(stream) + Held(inFlight) + m
      BY <1>2, <2>1, <2>2
    <3>2. CASE \E n \in 1..Len(channel) :
                  k = Len(stream) + Held(inFlight) + n /\ all[k] = channel[n]
      <4> PICK n \in 1..Len(channel) :
              k = Len(stream) + Held(inFlight) + n /\ all[k] = channel[n]
        BY <3>2
      <4>1. m < n
        BY <2>1, <2>2, <3>1
      <4> QED
        BY <4>1 DEF AdaptersInv, Order, ChannelInOrder
    <3>3. CASE hand # 0 /\ all[k] = hand
      BY <2>1, <3>3 DEF AdaptersInv, Order, QueuedInOrder
    <3>4. k \notin 1..Len(stream) /\ k # Len(stream) + 1
      BY <2>1, <2>2, <3>1
    <3> QED
      BY <2>3, <3>2, <3>3, <3>4
  <2>7. CASE hand # 0 /\ j = Len(stream) + Held(inFlight) + Len(channel) + 1 /\ all[j] = hand
    BY <1>2, <2>1, <2>2, <2>3, <2>7
  <2> QED
    BY <2>3, <2>4, <2>5, <2>6, <2>7
<1> QED
  BY <1>1, <1>2 DEF StreamFollowsLog

(* The stream keeps the log's order, copies of an event standing together,    *)
(* whichever answers of JetStream are late or lost.                           *)
THEOREM StreamAlwaysFollowsLog == Spec => []StreamFollowsLog
BY InvAlways, InvOrders, PTL
=============================================================================
