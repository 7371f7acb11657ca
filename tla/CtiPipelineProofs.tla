-------------------------- MODULE CtiPipelineProofs --------------------------
(* Proofs about the CTI collector, for any sessions, events, alerts, caps and *)
(* faults: first what each method of the session analyzer keeps of its        *)
(* memory, then what the collector keeps across its awaits.                   *)
EXTENDS CtiPipeline, SequenceTheorems, FiniteSetTheorems, TLAPS

-----------------------------------------------------------------------------
(* Sequences without repetition.                                              *)
Distinct(q) == \A i, j \in 1 .. Len(q) : q[i] = q[j] => i = j
Lists(q, S) == q \in Seq(Sessions) /\ Distinct(q) /\ ToSet(q) = S

LEMMA ToSetIsElements ==
    ASSUME NEW T, NEW q \in Seq(T)
    PROVE  ToSet(q) = {q[i] : i \in 1 .. Len(q)} /\ ToSet(q) \subseteq T /\ Len(q) \in Nat
BY DEF ToSet

\* The list is as long as the set it lists is large.
LEMMA LengthIsCardinality ==
    ASSUME NEW q, NEW S, Lists(q, S)
    PROVE  IsFiniteSet(S) /\ Cardinality(S) = Len(q)
<1>1. Len(q) \in Nat /\ S = {q[i] : i \in 1 .. Len(q)} /\ DOMAIN q = 1 .. Len(q)
  BY ToSetIsElements DEF Lists
<1>2. q \in Bijection(1 .. Len(q), S)
  BY <1>1 DEF Lists, Distinct, Bijection, Injection, Surjection, IsInjective
<1>3. ExistsBijection(1 .. Len(q), S)
  BY <1>2 DEF ExistsBijection
<1> QED
  BY <1>1, <1>3, FS_CountingElements, FS_NatBijection

LEMMA Part ==
    ASSUME NEW T, NEW q \in Seq(T), NEW i \in 1 .. Len(q) + 1, NEW j \in i - 1 .. Len(q)
    PROVE  /\ SubSeq(q, i, j) \in Seq(T) /\ Len(SubSeq(q, i, j)) = j - i + 1
           /\ \A k \in 1 .. j - i + 1 : SubSeq(q, i, j)[k] = q[i + k - 1]
<1>1. Len(q) \in Nat /\ i \in Int /\ j \in Int
  OBVIOUS
<1>2. \A k \in i .. j : q[k] \in T
  BY <1>1, ElementOfSeq
<1>3. /\ SubSeq(q, i, j) \in Seq(T) /\ Len(SubSeq(q, i, j)) = IF i <= j THEN j - i + 1 ELSE 0
      /\ \A k \in 1 .. j - i + 1 : SubSeq(q, i, j)[k] = q[i + k - 1]
  BY <1>1, <1>2, SubSeqProperties
<1> QED
  BY <1>1, <1>3

LEMMA ForgetLists ==
    ASSUME NEW q, NEW S, Lists(q, S), NEW s \in S
    PROVE  Lists(Forget(q, s), S \ {s}) /\ Len(Forget(q, s)) = Len(q) - 1
<1> DEFINE k == CHOOSE i \in DOMAIN q : q[i] = s
           m == Len(q)
           a == SubSeq(q, 1, k - 1)
           b == SubSeq(q, k + 1, m)
           r == a \o b
<1>1. q \in Seq(Sessions) /\ m \in Nat /\ DOMAIN q = 1 .. m /\ S = {q[i] : i \in 1 .. m}
  BY ToSetIsElements DEF Lists
<1>2. k \in 1 .. m /\ q[k] = s
  BY <1>1
<1> HIDE DEF k
<1>3. /\ a \in Seq(Sessions) /\ Len(a) = k - 1 /\ \A i \in 1 .. k - 1 : a[i] = q[i]
      /\ b \in Seq(Sessions) /\ Len(b) = m - k /\ \A i \in 1 .. m - k : b[i] = q[k + i]
  <2>1. /\ a \in Seq(Sessions) /\ Len(a) = (k - 1) - 1 + 1
        /\ \A i \in 1 .. (k - 1) - 1 + 1 : a[i] = q[1 + i - 1]
    BY <1>1, <1>2, Part
  <2>2. /\ b \in Seq(Sessions) /\ Len(b) = m - (k + 1) + 1
        /\ \A i \in 1 .. m - (k + 1) + 1 : b[i] = q[(k + 1) + i - 1]
    <3>1. k + 1 \in 1 .. Len(q) + 1 /\ m \in (k + 1) - 1 .. Len(q)
      BY <1>1, <1>2
    <3> QED
      BY <1>1, <3>1, Part
  <2> HIDE DEF a, b
  <2> QED
    BY SMTT(30), <1>1, <1>2, <2>1, <2>2
<1> HIDE DEF a, b
<1>4. /\ r \in Seq(Sessions) /\ Len(r) = m - 1
      /\ \A i \in 1 .. m - 1 : r[i] = IF i < k THEN q[i] ELSE q[i + 1]
  <2>1. r \in Seq(Sessions) /\ Len(r) = Len(a) + Len(b)
        /\ \A i \in 1 .. Len(a) + Len(b) : r[i] = IF i <= Len(a) THEN a[i] ELSE b[i - Len(a)]
    BY <1>3, ConcatProperties
  <2>2. Len(r) = m - 1
    BY <1>1, <1>2, <1>3, <2>1
  <2>3. ASSUME NEW i \in 1 .. m - 1 PROVE r[i] = IF i < k THEN q[i] ELSE q[i + 1]
    <3>1. CASE i < k
      BY <1>1, <1>2, <1>3, <2>1, <3>1
    <3>2. CASE i >= k
      <4>1. i - (k - 1) \in 1 .. m - k /\ i \in 1 .. Len(a) + Len(b) /\ ~ (i <= Len(a))
        BY <1>1, <1>2, <1>3, <3>2
      <4>2. r[i] = b[i - (k - 1)]
        BY <1>3, <2>1, <4>1
      <4>3. b[i - (k - 1)] = q[k + (i - (k - 1))] /\ k + (i - (k - 1)) = i + 1
        BY <1>2, <1>3, <4>1
      <4> QED
        BY <1>2, <3>2, <4>2, <4>3
    <3>3. i < k \/ i >= k
      BY <1>1, <1>2
    <3> QED
      BY <3>1, <3>2, <3>3
  <2> HIDE DEF r, m, k
  <2>4. r \in Seq(Sessions)
    BY <2>1
  <2> QED
    BY <2>2, <2>3, <2>4
<1> HIDE DEF r
<1>5. Distinct(r)
  <2> DEFINE up(i) == IF i < k THEN i ELSE i + 1
  <2>1. \A i \in 1 .. m - 1 : up(i) \in 1 .. m /\ r[i] = q[up(i)]
    BY <1>1, <1>2, <1>4
  <2>2. \A i, j \in 1 .. m - 1 : up(i) = up(j) => i = j
    BY <1>1, <1>2
  <2>3. \A i, j \in 1 .. m : q[i] = q[j] => i = j
    BY DEF Lists, Distinct
  <2> HIDE DEF up, m
  <2>4. \A i, j \in 1 .. m - 1 : r[i] = r[j] => i = j
    BY <2>1, <2>2, <2>3
  <2> QED
    BY <1>4, <2>4 DEF Distinct
<1>6. ToSet(r) = S \ {s}
  <2>1. ToSet(r) = {r[i] : i \in 1 .. m - 1}
    BY <1>4, ToSetIsElements
  <2>2. ASSUME NEW i \in 1 .. m - 1 PROVE r[i] \in S \ {s}
    <3>1. CASE i < k
      BY <1>1, <1>2, <1>4, <3>1 DEF Lists, Distinct
    <3>2. CASE i >= k
      BY <1>1, <1>2, <1>4, <3>2 DEF Lists, Distinct
    <3> QED
      BY <1>2, <3>1, <3>2
  <2>3. ASSUME NEW x \in S \ {s} PROVE \E i \in 1 .. m - 1 : r[i] = x
    <3>1. PICK j \in 1 .. m : q[j] = x
      BY <1>1
    <3>2. CASE j < k
      BY <1>1, <1>2, <1>4, <3>1, <3>2
    <3>3. CASE j > k
      <4>1. j - 1 \in 1 .. m - 1 /\ ~ (j - 1 < k) /\ (j - 1) + 1 = j
        BY <1>1, <1>2, <3>3
      <4>2. r[j - 1] = q[j]
        BY <1>4, <4>1
      <4> QED
        BY <3>1, <4>1, <4>2
    <3> QED
      BY <1>2, <3>1, <3>2, <3>3
  <2> QED
    BY <2>1, <2>2, <2>3
<1>7. Forget(q, s) = r
  BY DEF Forget, RemoveAt, k, a, b, r
<1> QED
  BY <1>4, <1>5, <1>6, <1>7 DEF Lists

LEMMA AppendLists ==
    ASSUME NEW q, NEW S, Lists(q, S), NEW s \in Sessions \ S
    PROVE  Lists(Append(q, s), S \cup {s}) /\ Len(Append(q, s)) = Len(q) + 1
<1> DEFINE r == Append(q, s)
           m == Len(q)
<1>1. q \in Seq(Sessions) /\ m \in Nat /\ S = {q[i] : i \in 1 .. m}
  BY ToSetIsElements DEF Lists
<1>2. r \in Seq(Sessions) /\ Len(r) = m + 1 /\ r[m + 1] = s /\ \A i \in 1 .. m : r[i] = q[i]
  BY <1>1, AppendProperties
<1> HIDE DEF r
<1>3. Distinct(r)
  BY <1>1, <1>2 DEF Lists, Distinct
<1>4. ToSet(r) = S \cup {s}
  <2>1. ToSet(r) = {r[i] : i \in 1 .. m + 1}
    BY <1>2, ToSetIsElements
  <2>2. 1 .. m + 1 = (1 .. m) \cup {m + 1}
    BY <1>1
  <2> QED
    BY <1>1, <1>2, <2>1, <2>2
<1> QED
  BY <1>2, <1>3, <1>4 DEF Lists, r

LEMMA TailLists ==
    ASSUME NEW q, NEW S, Lists(q, S), q # << >>
    PROVE  /\ Head(q) \in S /\ Lists(Tail(q), S \ {Head(q)}) /\ Len(Tail(q)) = Len(q) - 1
<1> DEFINE r == Tail(q)
           m == Len(q)
<1>1. q \in Seq(Sessions) /\ m \in Nat \ {0} /\ S = {q[i] : i \in 1 .. m} /\ Head(q) = q[1]
  BY ToSetIsElements, EmptySeq DEF Lists
<1>2. r \in Seq(Sessions) /\ Len(r) = m - 1 /\ \A i \in 1 .. m - 1 : r[i] = q[i + 1]
  BY <1>1, HeadTailProperties
<1> HIDE DEF r
<1>3. Distinct(r)
  BY <1>1, <1>2 DEF Lists, Distinct
<1>4. ToSet(r) = S \ {Head(q)}
  <2>1. ToSet(r) = {r[i] : i \in 1 .. m - 1}
    BY <1>2, ToSetIsElements
  <2>2. ASSUME NEW i \in 1 .. m - 1 PROVE r[i] \in S \ {Head(q)}
    BY <1>1, <1>2 DEF Lists, Distinct
  <2>3. ASSUME NEW x \in S \ {Head(q)} PROVE \E i \in 1 .. m - 1 : r[i] = x
    <3>1. PICK j \in 1 .. m : q[j] = x
      BY <1>1
    <3>2. j - 1 \in 1 .. m - 1 /\ (j - 1) + 1 = j
      BY <1>1, <3>1
    <3> QED
      BY <1>2, <3>1, <3>2
  <2> QED
    BY <2>1, <2>2, <2>3
<1> QED
  BY <1>1, <1>2, <1>3, <1>4 DEF Lists, r

LEMMA SplitLists ==
    ASSUME NEW q, NEW S, Lists(q, S), NEW n \in 1 .. Len(q)
    PROVE  /\ Lists(SubSeq(q, 1, n), ToSet(SubSeq(q, 1, n)))
           /\ Len(SubSeq(q, 1, n)) = n /\ ToSet(SubSeq(q, 1, n)) \subseteq S
           /\ Lists(SubSeq(q, n + 1, Len(q)), S \ ToSet(SubSeq(q, 1, n)))
           /\ Len(SubSeq(q, n + 1, Len(q))) <= Len(q)
<1> DEFINE m == Len(q)
           a == SubSeq(q, 1, n)
           b == SubSeq(q, n + 1, m)
<1>1. q \in Seq(Sessions) /\ m \in Nat /\ S = {q[i] : i \in 1 .. m}
  BY ToSetIsElements DEF Lists
<1>2. /\ a \in Seq(Sessions) /\ Len(a) = n /\ \A i \in 1 .. n : a[i] = q[i]
      /\ b \in Seq(Sessions) /\ Len(b) = m - n /\ \A i \in 1 .. m - n : b[i] = q[n + i]
  <2>1. /\ a \in Seq(Sessions) /\ Len(a) = n - 1 + 1 /\ \A i \in 1 .. n - 1 + 1 : a[i] = q[1 + i - 1]
    BY <1>1, Part
  <2>2. /\ b \in Seq(Sessions) /\ Len(b) = m - (n + 1) + 1
        /\ \A i \in 1 .. m - (n + 1) + 1 : b[i] = q[(n + 1) + i - 1]
    BY <1>1, Part
  <2> HIDE DEF a, b
  <2> QED
    BY <1>1, <2>1, <2>2
<1> HIDE DEF a, b
<1>3. Distinct(a) /\ Distinct(b)
  <2>1. Distinct(q)
    BY DEF Lists
  <2>2. Distinct(a)
    BY <1>1, <1>2, <2>1 DEF Distinct
  <2>3. Distinct(b)
    <3> SUFFICES ASSUME NEW i \in 1 .. m - n, NEW j \in 1 .. m - n, b[i] = b[j] PROVE i = j
      BY <1>2 DEF Distinct
    <3>1. n + i \in 1 .. m /\ n + j \in 1 .. m /\ q[n + i] = q[n + j]
      BY <1>1, <1>2
    <3>2. n + i = n + j
      BY <2>1, <3>1 DEF Distinct
    <3> QED
      BY <1>1, <3>2
  <2> QED
    BY <2>2, <2>3
<1>4. ToSet(a) = {q[i] : i \in 1 .. n}
  <2>1. ToSet(a) = {a[i] : i \in 1 .. n}
    BY <1>2, ToSetIsElements
  <2>2. \A i \in 1 .. n : a[i] = q[i]
    BY <1>2
  <2> QED
    BY <2>1, <2>2, Zenon
<1>5. ToSet(b) = S \ ToSet(a)
  <2>1. ToSet(b) = {b[i] : i \in 1 .. m - n}
    BY <1>2, ToSetIsElements
  <2>2. ASSUME NEW i \in 1 .. m - n PROVE b[i] \in S \ ToSet(a)
    BY <1>1, <1>2, <1>4 DEF Lists, Distinct
  <2>3. ASSUME NEW x \in S \ ToSet(a) PROVE \E i \in 1 .. m - n : b[i] = x
    <3>1. PICK j \in 1 .. m : q[j] = x
      BY <1>1
    <3>2. ~ (j \in 1 .. n)
      BY <1>4, <3>1, <2>3
    <3>3. j - n \in 1 .. m - n /\ n + (j - n) = j
      BY <1>1, <3>2
    <3> QED
      BY <1>2, <3>1, <3>3
  <2> QED
    BY <2>1, <2>2, <2>3
<1> QED
  BY <1>1, <1>2, <1>3, <1>4, <1>5 DEF Lists, a, b

-----------------------------------------------------------------------------
(* The memory between two calls.                                              *)
Summary == [session : Sessions, count : Nat]
Prints == {Fingerprint[e] : e \in Events}
Gone(an) == {x.session : x \in ToSet(an.evicted)}

Shape(an) ==
    /\ DOMAIN an = {"tracked", "order", "closed", "processed", "evicted"}
    /\ Lists(an.order, DOMAIN an.tracked) /\ Len(an.order) <= MaxSessions
    /\ an.closed \subseteq Sessions /\ IsFiniteSet(an.closed) /\ Cardinality(an.closed) <= ClosedCap
    /\ DOMAIN an.tracked \cap an.closed = {}
    /\ an.processed \in Seq(Prints) /\ Len(an.processed) <= ProcessedCap
    /\ an.evicted \in Seq(Summary) /\ Len(an.evicted) <= EvictedCap
Memory(an) ==
    Shape(an) /\ \A s \in DOMAIN an.tracked : an.tracked[s].count \in Nat \ {0}

LEMMA CapsAreNaturals ==
    /\ MaxSessions \in Nat \ {0} /\ ProcessedCap \in Nat /\ ProcessedCap >= 2
    /\ ClosedCap \in Nat \ {0} /\ EvictedCap \in Nat \ {0}
BY AnalyzerAssumption

\* What every step's TypeOK says of the memory.
LEMMA MemoryTracks ==
    ASSUME NEW an, Memory(an)
    PROVE  TrackingOK(an)
<1>1. Len(an.order) = Cardinality(DOMAIN an.tracked)
  BY LengthIsCardinality DEF Memory, Shape
<1> QED
  BY <1>1 DEF Memory, Shape, Lists, TrackingOK

LEMMA NewAnalyzerFits == Memory(NewAnalyzer)
<1>1. Lists(<< >>, {})
  <2>1. << >> \in Seq(Sessions) /\ Len(<< >>) = 0
    OBVIOUS
  <2>2. ASSUME NEW q \in Seq(Sessions), Len(q) = 0 PROVE Lists(q, {})
    <3>1. ToSet(q) = {q[i] : i \in 1 .. Len(q)}
      BY ToSetIsElements
    <3>2. ToSet(q) = {}
      BY <2>2, <3>1
    <3> QED
      BY <2>2, <3>2 DEF Lists, Distinct
  <2> QED
    BY <2>1, <2>2
<1>2. DOMAIN << >> = {}
  OBVIOUS
<1>3. IsFiniteSet({}) /\ Cardinality({}) = 0
  BY FS_EmptySet
<1> QED
  BY <1>1, <1>2, <1>3, CapsAreNaturals DEF NewAnalyzer, Memory, Shape

LEMMA RememberFits ==
    ASSUME NEW q \in Seq(Prints), Len(q) <= ProcessedCap, NEW f \in Prints, NEW old \in 0 .. Len(q)
    PROVE  Remember(q, f, old) \in Seq(Prints) /\ Len(Remember(q, f, old)) <= ProcessedCap
<1> DEFINE grown == Append(q, f)
           drop == IF old > 0 THEN old ELSE ProcessedCap \div 2
<1>1. grown \in Seq(Prints) /\ Len(grown) = Len(q) + 1 /\ Len(q) \in Nat
  BY AppendProperties
<1>2. CASE Len(grown) > ProcessedCap
  <2>1. ProcessedCap \div 2 \in 1 .. ProcessedCap
    BY CapsAreNaturals
  <2>2. drop \in 1 .. Len(grown)
    BY <1>1, <1>2, <2>1, CapsAreNaturals
  <2> HIDE DEF grown, drop
  <2>3. drop + 1 \in 1 .. Len(grown) + 1 /\ Len(grown) \in (drop + 1) - 1 .. Len(grown)
    BY <1>1, <2>2
  <2>4. /\ SubSeq(grown, drop + 1, Len(grown)) \in Seq(Prints)
        /\ Len(SubSeq(grown, drop + 1, Len(grown))) = Len(grown) - (drop + 1) + 1
    BY <1>1, <2>3, Part
  <2>5. Len(grown) - (drop + 1) + 1 <= ProcessedCap
    BY <1>1, <2>2, CapsAreNaturals
  <2>6. Remember(q, f, old) = SubSeq(grown, drop + 1, Len(grown))
    BY <1>2 DEF Remember, grown, drop
  <2> QED
    BY <2>4, <2>5, <2>6
<1>3. CASE ~ (Len(grown) > ProcessedCap)
  BY <1>1, <1>3, CapsAreNaturals DEF Remember
<1> QED
  BY <1>2, <1>3

\* Eviction takes the least recent session out and keeps its summary.
LEMMA EvictFits ==
    ASSUME NEW an, Memory(an), DOMAIN an.tracked # {}
    PROVE  LET b == EvictLru(an)
               h == Head(an.order)
           IN  /\ Memory(b) /\ h \in DOMAIN an.tracked /\ h \in Gone(b)
               /\ DOMAIN b.tracked = DOMAIN an.tracked \ {h}
               /\ \A t \in DOMAIN b.tracked : b.tracked[t] = an.tracked[t]
               /\ b.closed = an.closed /\ Len(b.order) = Len(an.order) - 1
<1> DEFINE b == EvictLru(an)
           h == Head(an.order)
           kept == IF Len(an.evicted) >= EvictedCap THEN Tail(an.evicted) ELSE an.evicted
           x == SummaryOf(an, h)
<1>1. an.order # << >>
  <2>1. Len(<< >>) = 0 /\ << >> \in Seq(Sessions)
    OBVIOUS
  <2> QED
    BY <2>1, ToSetIsElements DEF Memory, Shape, Lists
<1>2. /\ h \in DOMAIN an.tracked /\ Lists(Tail(an.order), DOMAIN an.tracked \ {h})
      /\ Len(Tail(an.order)) = Len(an.order) - 1 /\ Len(an.order) \in Nat
  BY <1>1, TailLists, ToSetIsElements DEF Memory, Shape, Lists
<1>3. x \in Summary /\ x.session = h
  <2>1. h \in Sessions /\ an.tracked[h].count \in Nat
    BY <1>2, ToSetIsElements DEF Memory, Shape, Lists
  <2> QED
    BY <2>1 DEF SummaryOf, Summary
<1>4. kept \in Seq(Summary) /\ Len(kept) \in Nat /\ Len(kept) < EvictedCap
  <2>1. an.evicted \in Seq(Summary) /\ Len(an.evicted) \in Nat /\ Len(an.evicted) <= EvictedCap
    BY DEF Memory, Shape
  <2>2. CASE Len(an.evicted) >= EvictedCap
    <3>1. an.evicted # << >>
      BY <2>1, <2>2, CapsAreNaturals
    <3> QED
      BY <2>1, <2>2, <3>1, HeadTailProperties, CapsAreNaturals
  <2>3. CASE ~ (Len(an.evicted) >= EvictedCap)
    BY <2>1, <2>3, CapsAreNaturals
  <2> QED
    BY <2>2, <2>3
<1>5. /\ DOMAIN b = DOMAIN an /\ b.tracked = Without(an.tracked, {h}) /\ b.order = Tail(an.order)
      /\ b.closed = an.closed /\ b.processed = an.processed /\ b.evicted = Append(kept, x)
  BY DEF EvictLru, Memory, Shape
<1> HIDE DEF b, h, kept, x
<1>6. DOMAIN b.tracked = DOMAIN an.tracked \ {h} /\ \A t \in DOMAIN b.tracked : b.tracked[t] = an.tracked[t]
  BY <1>5 DEF Without, Restrict
<1>7. b.evicted \in Seq(Summary) /\ Len(b.evicted) = Len(kept) + 1 /\ b.evicted[Len(kept) + 1] = x
  BY <1>3, <1>4, <1>5, AppendProperties
<1>8. h \in Gone(b)
  <2>1. x \in ToSet(b.evicted)
    BY <1>4, <1>7, ToSetIsElements
  <2> QED
    BY <1>3, <2>1 DEF Gone
<1>9. Shape(b)
  <2>1. Len(b.order) <= MaxSessions /\ Len(b.evicted) <= EvictedCap
    BY <1>2, <1>4, <1>5, <1>7, CapsAreNaturals DEF Memory, Shape
  <2>2. Lists(b.order, DOMAIN b.tracked) /\ DOMAIN b.tracked \cap b.closed = {}
    BY <1>2, <1>5, <1>6 DEF Memory, Shape
  <2> QED
    BY <1>5, <1>7, <2>1, <2>2 DEF Memory, Shape
<1>10. Memory(b)
  BY <1>6, <1>9 DEF Memory
<1> QED
  BY <1>2, <1>5, <1>6, <1>8, <1>10 DEF b, h

\* _get_or_create: the session is tracked; what is tracked no more was evicted.
LEMMA GetOrCreateFits ==
    ASSUME NEW an, Memory(an), NEW s \in Sessions \ an.closed
    PROVE  LET b == GetOrCreate(an, s)
           IN  /\ Shape(b) /\ s \in DOMAIN b.tracked /\ b.closed = an.closed
               /\ b.tracked[s] = IF s \in DOMAIN an.tracked THEN an.tracked[s] ELSE NewSession
               /\ \A t \in DOMAIN b.tracked \ {s} : t \in DOMAIN an.tracked /\ b.tracked[t] = an.tracked[t]
               /\ DOMAIN an.tracked \ DOMAIN b.tracked \subseteq Gone(b)
<1> DEFINE b == GetOrCreate(an, s)
<1>1. CASE s \in DOMAIN an.tracked
  <2>1. Lists(an.order, DOMAIN an.tracked)
    BY DEF Memory, Shape
  <2>2. Lists(Forget(an.order, s), DOMAIN an.tracked \ {s}) /\ Len(Forget(an.order, s)) = Len(an.order) - 1
    BY <1>1, <2>1, ForgetLists
  <2>3. /\ Lists(Append(Forget(an.order, s), s), (DOMAIN an.tracked \ {s}) \cup {s})
        /\ Len(Append(Forget(an.order, s), s)) = Len(Forget(an.order, s)) + 1
    BY <2>2, AppendLists
  <2>4. (DOMAIN an.tracked \ {s}) \cup {s} = DOMAIN an.tracked /\ Len(an.order) \in Nat
    BY <1>1, <2>1 DEF Lists
  <2>5. /\ DOMAIN b = DOMAIN an /\ b.tracked = an.tracked /\ b.order = Append(Forget(an.order, s), s)
        /\ b.closed = an.closed /\ b.processed = an.processed /\ b.evicted = an.evicted
    BY <1>1 DEF GetOrCreate, Memory, Shape
  <2> HIDE DEF b
  <2>6. Shape(b)
    <3>1. Len(b.order) <= MaxSessions
      BY <2>2, <2>3, <2>4, <2>5 DEF Memory, Shape
    <3>2. Lists(b.order, DOMAIN b.tracked)
      BY <2>3, <2>4, <2>5
    <3> QED
      BY <2>5, <3>1, <3>2 DEF Memory, Shape
  <2> QED
    BY <1>1, <2>5, <2>6 DEF b
<1>2. CASE s \notin DOMAIN an.tracked
  <2> DEFINE room == IF Cardinality(DOMAIN an.tracked) >= MaxSessions THEN EvictLru(an) ELSE an
  <2>1. /\ Memory(room) /\ room.closed = an.closed /\ Len(room.order) < MaxSessions
        /\ DOMAIN room.tracked \subseteq DOMAIN an.tracked
        /\ \A t \in DOMAIN room.tracked : room.tracked[t] = an.tracked[t]
        /\ DOMAIN an.tracked \ DOMAIN room.tracked \subseteq Gone(room)
    <3>1. Cardinality(DOMAIN an.tracked) = Len(an.order) /\ Len(an.order) \in Nat /\ Len(an.order) <= MaxSessions
      BY LengthIsCardinality DEF Memory, Shape, Lists
    <3>2. CASE Cardinality(DOMAIN an.tracked) >= MaxSessions
      <4>1. DOMAIN an.tracked # {}
        BY <3>2, FS_EmptySet, CapsAreNaturals
      <4> QED
        BY <3>1, <3>2, <4>1, EvictFits, CapsAreNaturals
    <3>3. CASE ~ (Cardinality(DOMAIN an.tracked) >= MaxSessions)
      BY <3>1, <3>3, CapsAreNaturals
    <3> QED
      BY <3>2, <3>3
  <2>2. b = [room EXCEPT !.tracked = Tracking(room.tracked, s), !.order = Append(room.order, s)]
    BY <1>2 DEF GetOrCreate
  <2> HIDE DEF room
  <2>3. /\ DOMAIN b = DOMAIN room /\ b.tracked = Tracking(room.tracked, s) /\ b.order = Append(room.order, s)
        /\ b.closed = room.closed /\ b.processed = room.processed /\ b.evicted = room.evicted
    BY <2>1, <2>2 DEF Memory, Shape
  <2> HIDE DEF b
  <2>4. /\ DOMAIN b.tracked = DOMAIN room.tracked \cup {s} /\ b.tracked[s] = NewSession
        /\ \A t \in DOMAIN room.tracked : t # s => b.tracked[t] = room.tracked[t]
    BY <2>3 DEF Tracking
  <2>5. Lists(b.order, DOMAIN b.tracked) /\ Len(b.order) = Len(room.order) + 1 /\ Len(room.order) \in Nat
    BY <1>2, <2>1, <2>3, <2>4, AppendLists DEF Memory, Shape, Lists
  <2>6. Shape(b)
    BY <2>1, <2>3, <2>4, <2>5, CapsAreNaturals DEF Memory, Shape
  <2> QED
    BY <1>2, <2>1, <2>3, <2>4, <2>6 DEF b, Gone
<1> QED
  BY <1>1, <1>2

\* ingest: an event that is not ignored adds its evidence to its session, of
\* which the triggered keys are raised from then on.
LEMMA IngestFits ==
    ASSUME NEW an, Memory(an), NEW e \in Events, NEW old \in 0 .. Len(an.processed)
    PROVE  LET b == Ingest(an, e, old)
               s == SessionOf[e]
           IN  /\ Memory(b) /\ b.closed = an.closed
               /\ DOMAIN an.tracked \ DOMAIN b.tracked \subseteq Gone(b)
               /\ \A t \in DOMAIN b.tracked \ {s} : t \in DOMAIN an.tracked /\ b.tracked[t] = an.tracked[t]
               /\ Ignored(an, e) => b = an
               /\ s \in DOMAIN an.tracked /\ s \in DOMAIN b.tracked =>
                     an.tracked[s].raised \subseteq b.tracked[s].raised
               /\ s \in DOMAIN b.tracked => NewAlerts(an, e) \subseteq b.tracked[s].raised
               /\ s \notin DOMAIN b.tracked => NewAlerts(an, e) = {}
<1> DEFINE b == Ingest(an, e, old)
           s == SessionOf[e]
           fed == [an EXCEPT !.processed = Remember(an.processed, Fingerprint[e], old)]
           a == GetOrCreate(fed, s)
<1>1. s \in Sessions /\ Fingerprint[e] \in Prints
  BY AnalyzerAssumption DEF Prints
<1>2. CASE Ignored(an, e)
  BY <1>2 DEF Ingest, NewAlerts
<1>3. CASE ~ Ignored(an, e)
  <2>1. s \notin an.closed
    BY <1>3 DEF Ignored
  <2>2. /\ Remember(an.processed, Fingerprint[e], old) \in Seq(Prints)
        /\ Len(Remember(an.processed, Fingerprint[e], old)) <= ProcessedCap
    BY <1>1, RememberFits DEF Memory, Shape
  <2>3. /\ DOMAIN fed = DOMAIN an /\ fed.tracked = an.tracked /\ fed.order = an.order
        /\ fed.closed = an.closed /\ fed.evicted = an.evicted
        /\ fed.processed = Remember(an.processed, Fingerprint[e], old)
    BY DEF Memory, Shape
  <2> HIDE DEF fed
  <2>4. Memory(fed)
    BY <2>2, <2>3 DEF Memory, Shape
  <2>5. /\ Shape(a) /\ s \in DOMAIN a.tracked /\ a.closed = an.closed
        /\ a.tracked[s] = IF s \in DOMAIN an.tracked THEN an.tracked[s] ELSE NewSession
        /\ \A t \in DOMAIN a.tracked \ {s} : t \in DOMAIN an.tracked /\ a.tracked[t] = an.tracked[t]
        /\ DOMAIN an.tracked \ DOMAIN a.tracked \subseteq Gone(a)
    BY <1>1, <2>1, <2>3, <2>4, GetOrCreateFits
  <2>6. b = [a EXCEPT !.tracked = [a.tracked EXCEPT ![s] = Update(a.tracked[s], e)]]
    BY <1>3 DEF Ingest, fed
  <2> HIDE DEF a
  <2>7. /\ DOMAIN b = DOMAIN a /\ b.tracked = [a.tracked EXCEPT ![s] = Update(a.tracked[s], e)]
        /\ b.order = a.order /\ b.closed = a.closed /\ b.processed = a.processed /\ b.evicted = a.evicted
    BY <2>5, <2>6 DEF Shape
  <2> HIDE DEF b
  <2>8. /\ DOMAIN b.tracked = DOMAIN a.tracked /\ b.tracked[s] = Update(a.tracked[s], e)
        /\ \A t \in DOMAIN b.tracked \ {s} : b.tracked[t] = a.tracked[t]
    BY <2>5, <2>7
  <2>9. /\ b.tracked[s].count = a.tracked[s].count + 1
        /\ b.tracked[s].raised = a.tracked[s].raised \cup Triggered(a.tracked[s].evidence \cup Evidence[e])
    BY <2>8 DEF Update
  <2>10. Shape(b)
    BY <2>5, <2>7, <2>8 DEF Shape
  <2>11. Memory(b)
    <3>1. a.tracked[s].count \in Nat
      BY <2>5 DEF Memory, NewSession
    <3>2. \A t \in DOMAIN b.tracked \ {s} : b.tracked[t].count \in Nat \ {0}
      BY <2>5, <2>8 DEF Memory
    <3> QED
      BY SMTT(30), <2>9, <2>10, <3>1, <3>2 DEF Memory
  <2>12. NewAlerts(an, e) \subseteq b.tracked[s].raised
    BY <1>3, <2>5, <2>9 DEF NewAlerts
  <2> QED
    BY <1>3, <2>5, <2>7, <2>8, <2>9, <2>11, <2>12 DEF b, Gone
<1> QED
  BY <1>2, <1>3

LEMMA NewAlertsAreNew ==
    ASSUME NEW an, NEW e
    PROVE  /\ NewAlerts(an, e) \subseteq AlertKeys
           /\ SessionOf[e] \in an.closed => NewAlerts(an, e) = {}
           /\ SessionOf[e] \in DOMAIN an.tracked =>
                 NewAlerts(an, e) \cap an.tracked[SessionOf[e]].raised = {}
BY DEF NewAlerts, Triggered, Ignored

\* close_session
LEMMA CloseFits ==
    ASSUME NEW an, Memory(an), NEW s \in Sessions, NEW F \in Trims(an, s)
    PROVE  LET b == CloseSession(an, s, F)
           IN  /\ Memory(b) /\ F \subseteq Sessions
               /\ DOMAIN b.tracked = DOMAIN an.tracked \ {s}
               /\ \A t \in DOMAIN b.tracked : b.tracked[t] = an.tracked[t]
               /\ b.closed = IF s \in DOMAIN an.tracked THEN (an.closed \cup {s}) \ F ELSE an.closed
<1> DEFINE b == CloseSession(an, s, F)
           full == an.closed \cup {s}
<1>1. F \subseteq full /\ full \subseteq Sessions
  BY DEF Trims, Memory, Shape
<1>2. CASE s \notin DOMAIN an.tracked
  BY <1>1, <1>2 DEF CloseSession
<1>3. CASE s \in DOMAIN an.tracked
  <2>1. Lists(Forget(an.order, s), DOMAIN an.tracked \ {s}) /\ Len(Forget(an.order, s)) = Len(an.order) - 1
        /\ Len(an.order) \in Nat
    BY <1>3, ForgetLists DEF Memory, Shape, Lists
  <2>2. /\ DOMAIN b = DOMAIN an /\ b.tracked = Without(an.tracked, {s}) /\ b.order = Forget(an.order, s)
        /\ b.closed = full \ F /\ b.processed = an.processed /\ b.evicted = an.evicted
    BY <1>3 DEF CloseSession, Memory, Shape
  <2> HIDE DEF b
  <2>3. DOMAIN b.tracked = DOMAIN an.tracked \ {s} /\ \A t \in DOMAIN b.tracked : b.tracked[t] = an.tracked[t]
    BY <2>2 DEF Without, Restrict
  <2>4. IsFiniteSet(full \ F) /\ Cardinality(full \ F) <= ClosedCap
    <3>1. IsFiniteSet(an.closed) /\ Cardinality(an.closed) \in Nat /\ Cardinality(an.closed) <= ClosedCap
      BY FS_CardinalityType DEF Memory, Shape
    <3>2. IsFiniteSet(full) /\ Cardinality(full) \in Nat /\ Cardinality(full) <= Cardinality(an.closed) + 1
      <4>1. IsFiniteSet(full) /\ Cardinality(full) \in {Cardinality(an.closed), Cardinality(an.closed) + 1}
        BY <3>1, FS_AddElement
      <4> QED
        BY <3>1, <4>1
    <3>3. IsFiniteSet(full \ F) /\ Cardinality(full \ F) \in Nat /\ Cardinality(full \ F) <= Cardinality(full)
      BY <3>2, FS_Subset, FS_CardinalityType
    <3>4. CASE Cardinality(full) > ClosedCap
      <4>1. Cardinality(F) = (ClosedCap + 1) \div 2
        BY <1>3, <3>4 DEF Trims
      <4>2. Cardinality(F) # 0
        BY <4>1, CapsAreNaturals
      <4>3. F # {}
        BY <4>2, FS_EmptySet
      <4>4. full \ F # full
        BY <1>1, <4>3
      <4>5. Cardinality(full \ F) # Cardinality(full)
        BY <3>2, <4>4, FS_Subset
      <4> QED
        BY <3>1, <3>2, <3>3, <4>5, CapsAreNaturals
    <3>5. CASE ~ (Cardinality(full) > ClosedCap)
      BY <3>2, <3>3, <3>5, CapsAreNaturals
    <3> QED
      BY <3>4, <3>5
  <2>5. Shape(b)
    <3>1. Len(b.order) <= MaxSessions /\ Lists(b.order, DOMAIN b.tracked)
      BY <2>1, <2>2, <2>3, CapsAreNaturals DEF Memory, Shape
    <3>2. DOMAIN b.tracked \cap b.closed = {}
      BY <2>2, <2>3 DEF Memory, Shape
    <3> QED
      BY <1>1, <2>2, <2>4, <3>1, <3>2 DEF Memory, Shape
  <2> QED
    BY <1>1, <1>3, <2>2, <2>3, <2>5 DEF Memory, b
<1> QED
  BY <1>2, <1>3

\* sweep_idle and drain_evicted
LEMMA SweepFits ==
    ASSUME NEW an, Memory(an), NEW n \in 1 .. Len(an.order)
    PROVE  LET b == SweepIdle(an, n)
               idle == Idle(an, n)
           IN  /\ Memory(b) /\ b.closed = an.closed
               /\ Lists(idle, ToSet(idle)) /\ Len(idle) = n /\ ToSet(idle) \subseteq DOMAIN an.tracked
               /\ DOMAIN b.tracked = DOMAIN an.tracked \ ToSet(idle)
               /\ \A t \in DOMAIN b.tracked : b.tracked[t] = an.tracked[t]
<1> DEFINE b == SweepIdle(an, n)
           idle == Idle(an, n)
<1>1. Lists(an.order, DOMAIN an.tracked) /\ Len(an.order) \in Nat /\ Len(an.order) <= MaxSessions
  BY DEF Memory, Shape, Lists
<1>2. /\ Lists(idle, ToSet(idle)) /\ Len(idle) = n /\ ToSet(idle) \subseteq DOMAIN an.tracked
      /\ Lists(SubSeq(an.order, n + 1, Len(an.order)), DOMAIN an.tracked \ ToSet(idle))
      /\ Len(SubSeq(an.order, n + 1, Len(an.order))) <= Len(an.order)
  BY <1>1, SplitLists DEF Idle
<1>3. /\ DOMAIN b = DOMAIN an /\ b.tracked = Without(an.tracked, ToSet(idle))
      /\ b.order = SubSeq(an.order, n + 1, Len(an.order))
      /\ b.closed = an.closed /\ b.processed = an.processed /\ b.evicted = an.evicted
  BY DEF SweepIdle, Memory, Shape
<1> HIDE DEF b, idle
<1>4. DOMAIN b.tracked = DOMAIN an.tracked \ ToSet(idle) /\ \A t \in DOMAIN b.tracked : b.tracked[t] = an.tracked[t]
  BY <1>3 DEF Without, Restrict
<1>5. Shape(b)
  <2>1. Lists(b.order, DOMAIN b.tracked) /\ Len(b.order) \in Nat
    BY <1>2, <1>3, <1>4 DEF Lists
  <2>2. Len(b.order) <= MaxSessions
    BY <1>1, <1>2, <1>3, <2>1, CapsAreNaturals
  <2>3. DOMAIN b.tracked \cap b.closed = {}
    BY <1>3, <1>4 DEF Memory, Shape
  <2> QED
    BY <1>3, <2>1, <2>2, <2>3 DEF Memory, Shape
<1> QED
  BY <1>2, <1>3, <1>4, <1>5 DEF Memory, b, idle

LEMMA DrainFits ==
    ASSUME NEW an, Memory(an)
    PROVE  LET b == DrainEvicted(an)
           IN  Memory(b) /\ b.tracked = an.tracked /\ b.closed = an.closed
<1>1. << >> \in Seq(Summary) /\ Len(<< >>) = 0
  OBVIOUS
<1> QED
  BY <1>1, CapsAreNaturals DEF DrainEvicted, Memory, Shape

-----------------------------------------------------------------------------
(* The inductive invariant, one part for each group of variables.             *)

\* The queue and the batch in hand.
Stages == {"next", "summary", "alerts", "insert", "publish", "ack"}
QueueInv ==
    /\ broker \in [Events -> MessageStates] /\ deliveries \in [Events -> Deliveries]
    /\ \A e \in Events : broker[e] = "ready" => deliveries[e] < MaxDeliver
    /\ inbox \in Seq(Events) /\ Len(inbox) <= BatchSize /\ Distinct(inbox)
    /\ stage \in Stages
    /\ stage # "next" => inbox # << >> /\ Current \notin Rejected

\* An event in hand will be inserted once, unless its insert is behind it.
Inserted == stage \in {"publish", "ack"}
Coming(e) == \E i \in 1 .. Len(inbox) : inbox[i] = e /\ ~ (Inserted /\ i = 1)
Touched(e) == stored[e] > 0 \/ e \in storeFailed
StoreInv ==
    /\ stored \in [Events -> Nat] /\ storeFailed \subseteq Events /\ enriched \subseteq Events
    /\ \A e \in Events : stored[e] <= deliveries[e] /\ (Coming(e) => stored[e] < deliveries[e])
    /\ \A e \in Keyed : stored[e] <= 1
    /\ Inserted => Touched(Current)
    /\ \A e \in Events \ Rejected : broker[e] = "acked" \/ e \in enriched => Touched(e)

\* The analyzer, and what of it is in the hands of the tasks.
MemoryInv ==
    /\ Memory(analyzer) /\ forgotten \subseteq Sessions
    /\ todo \in Seq(Summary) /\ sweeping \in Seq(Summary) /\ alerts \subseteq AlertKeys
    /\ stage = "summary" <=> todo # << >>
    /\ stage \notin {"summary", "alerts"} => alerts = {}

\* An alert of a session that was never forgotten is to be published or was
\* published, not both, and the analyzer knows.
Pending(s, k) == k \in alerts /\ SessionOf[Current] = s
Known(s, k) ==
    \/ s \in analyzer.closed
    \/ s \in DOMAIN analyzer.tracked /\ k \in analyzer.tracked[s].raised
RaisedInv ==
    /\ published \in [Sessions \X AlertKeys -> Nat]
    /\ \A s \in Sessions \ forgotten, k \in AlertKeys :
          /\ published[<<s, k>>] <= 1
          /\ Pending(s, k) => published[<<s, k>>] = 0
          /\ Pending(s, k) \/ published[<<s, k>>] # 0 => Known(s, k)

\* The alerts in hand are of a session that is not closed.
OpenInv == alerts # {} => SessionOf[Current] \notin analyzer.closed

\* The row of such a session is written once, when it is closed.
FinalInv ==
    /\ rows \in [Sessions -> [count : Nat, falco : Nat]]
    /\ \A s \in Sessions \ forgotten : s \notin analyzer.closed => rows[s].count = 0
    /\ \A i \in 1 .. Len(todo) :
          \/ todo[i].session \in forgotten
          \/ /\ Len(todo) = 1 /\ todo[i].session \in analyzer.closed
             /\ rows[todo[i].session].count = 0
    /\ \A i \in 1 .. Len(sweeping) : sweeping[i].session \in forgotten

\* A stored Falco alert comes before its mark on the row and its event.
Marking(s) == falco.pc = "mark" /\ falco.session = s
FalcoInv ==
    /\ \A s \in Sessions : rows[s].falco \in Nat
    /\ falcoRows \in [Sessions -> Nat] /\ injected \subseteq Sessions
    /\ falco.pc \in {"idle", "store", "mark", "inject"}
    /\ falco.pc # "idle" => /\ DOMAIN falco = {"pc", "alert", "session"}
                            /\ falco.alert \in FalcoAlerts /\ falco.session \in Sessions
    /\ \A s \in Sessions :
          /\ rows[s].falco <= falcoRows[s] /\ (Marking(s) => rows[s].falco < falcoRows[s])
          /\ s \in injected => falcoRows[s] > 0
    /\ falco.pc \in {"mark", "inject"} => falcoRows[falco.session] > 0

\* The queue of the Falco alerts, and the bound on faults.
AlertsInv ==
    /\ falcoQueue \in [FalcoAlerts -> [state : MessageStates, deliveries : Deliveries]]
    /\ \A a \in FalcoAlerts : falcoQueue[a].state = "ready" => falcoQueue[a].deliveries < MaxDeliver
    /\ faults \in 0 .. MaxFaults

CtiInv == /\ QueueInv /\ StoreInv /\ MemoryInv /\ RaisedInv /\ OpenInv /\ FinalInv
          /\ FalcoInv /\ AlertsInv

-----------------------------------------------------------------------------
(* The parts of a step.                                                       *)

LEMMA ConstantsFit ==
    /\ NoSession \in Sessions /\ Ends \subseteq Events /\ Keyed \subseteq Events
    /\ Rejected \subseteq Events /\ Choking \subseteq Events /\ Rejected \cap Choking = {}
    /\ Local \subseteq Events /\ IsFiniteSet(Events)
    /\ BatchSize \in Nat \ {0} /\ MaxDeliver \in Nat \ {0} /\ MaxFaults \in Nat
BY PipelineAssumption

\* The message in hand and those after it.
LEMMA InHand ==
    ASSUME QueueInv, inbox # << >>
    PROVE  /\ Current \in Events /\ Current = inbox[1] /\ Len(inbox) \in Nat \ {0}
           /\ Tail(inbox) \in Seq(Events) /\ Len(Tail(inbox)) = Len(inbox) - 1
           /\ Distinct(Tail(inbox))
           /\ \A i \in 1 .. Len(inbox) - 1 : Tail(inbox)[i] = inbox[i + 1] /\ inbox[i + 1] # Current
<1>1. inbox \in Seq(Events) /\ Distinct(inbox)
  BY DEF QueueInv
<1>2. Len(inbox) \in Nat \ {0} /\ Current = inbox[1] /\ Current \in Events
  BY <1>1, EmptySeq DEF Current
<1>3. /\ Tail(inbox) \in Seq(Events) /\ Len(Tail(inbox)) = Len(inbox) - 1
      /\ \A i \in 1 .. Len(inbox) - 1 : Tail(inbox)[i] = inbox[i + 1]
  BY <1>1, HeadTailProperties
<1>4. \A i \in 1 .. Len(inbox) - 1 : inbox[i + 1] # Current
  BY <1>1, <1>2 DEF Distinct
<1>5. Distinct(Tail(inbox))
  BY <1>1, <1>2, <1>3 DEF Distinct
<1> QED
  BY <1>2, <1>3, <1>4, <1>5

LEMMA AckFits ==
    ASSUME QueueInv, NEW e \in Events, Ack(e)
    PROVE  /\ broker' \in [Events -> MessageStates]
           /\ \A x \in Events : /\ broker'[x] = "ready" => broker[x] = "ready"
                                /\ broker'[x] = "acked" => broker[x] = "acked" \/ x = e
BY DEF QueueInv, Ack, Fine, Fault, MessageStates

LEMMA NakFits ==
    ASSUME QueueInv, NEW e \in Events, Nak(e)
    PROVE  /\ broker' \in [Events -> MessageStates]
           /\ \A x \in Events : /\ broker'[x] = "ready" => broker[x] = "ready" \/ deliveries[x] < MaxDeliver
                                /\ broker'[x] = "acked" => broker[x] = "acked"
<1>1. deliveries[e] \in Nat /\ MaxDeliver \in Nat
  BY ConstantsFit DEF QueueInv, Deliveries
<1>2. AfterRequeue(deliveries[e]) = IF deliveries[e] < MaxDeliver THEN "ready" ELSE "exhausted"
  BY <1>1 DEF AfterRequeue
<1> QED
  BY <1>2 DEF QueueInv, Nak, Fine, Fault, MessageStates

\* The batch that is fetched.
LEMMA FetchFits ==
    ASSUME QueueInv, Fetch
    PROVE  /\ inbox' \in Seq(Events) /\ Len(inbox') <= BatchSize /\ Distinct(inbox')
           /\ broker' \in [Events -> MessageStates] /\ deliveries' \in [Events -> Deliveries]
           /\ \A e \in Events : broker'[e] \in {broker[e], "pending"}
           /\ \A e \in Events : broker'[e] = "ready" => deliveries'[e] = deliveries[e]
           /\ \A e \in Events : deliveries'[e] >= deliveries[e]
           /\ \A i \in 1 .. Len(inbox') : deliveries'[inbox'[i]] = deliveries[inbox'[i]] + 1
<1>1. PICK S \in SUBSET {e \in Events : broker[e] = "ready"} \ {{}} :
          /\ Cardinality(S) <= BatchSize /\ inbox' \in SetToSeqs(S)
          /\ broker' = [e \in Events |-> IF e \in S THEN "pending" ELSE broker[e]]
          /\ deliveries' = [e \in Events |-> deliveries[e] + IF e \in S THEN 1 ELSE 0]
  BY DEF Fetch
<1>2. Cardinality(S) \in Nat
  BY ConstantsFit, FS_Subset, FS_CardinalityType
<1>3. /\ inbox' \in [1 .. Cardinality(S) -> S]
      /\ \A i, j \in 1 .. Cardinality(S) : i # j => inbox'[i] # inbox'[j]
  BY <1>1 DEF SetToSeqs
<1>4. inbox' \in Seq(S) /\ Len(inbox') = Cardinality(S)
  BY <1>2, <1>3, SeqDef
<1>5. inbox' \in Seq(Events) /\ Len(inbox') <= BatchSize /\ Distinct(inbox')
  BY <1>1, <1>3, <1>4, SeqMonotonic DEF Distinct
<1>6. \A e \in S : deliveries[e] \in Nat /\ deliveries[e] < MaxDeliver /\ e \in Events
  BY ConstantsFit DEF QueueInv, Deliveries
<1>7. deliveries' \in [Events -> Deliveries]
  <2> SUFFICES ASSUME NEW e \in Events PROVE deliveries'[e] \in Deliveries
    BY <1>1
  <2>1. CASE e \in S
    BY <1>1, <1>6, <2>1, ConstantsFit DEF QueueInv, Deliveries
  <2>2. CASE e \notin S
    BY <1>1, <2>2, ConstantsFit DEF QueueInv, Deliveries
  <2> QED
    BY <2>1, <2>2
<1>8. \A e \in Events : deliveries[e] \in Nat
  BY DEF QueueInv, Deliveries
<1>9. \A i \in 1 .. Len(inbox') : inbox'[i] \in S
  BY <1>3, <1>4
<1> QED
  BY <1>1, <1>5, <1>7, <1>8, <1>9 DEF QueueInv, MessageStates

-----------------------------------------------------------------------------
(* Every step keeps the queue's part.                                         *)
LEMMA QueueKept ==
    ASSUME CtiInv, [Next]_vars
    PROVE  QueueInv'
<1>0. QueueInv /\ MemoryInv
  BY DEF CtiInv
<1>1. CASE Fetch
  <2>1. \A e \in Events : broker'[e] = "ready" => deliveries'[e] < MaxDeliver
    BY <1>0, <1>1, FetchFits DEF QueueInv, MessageStates
  <2>2. stage' = "next"
    BY <1>1 DEF Fetch
  <2> QED
    BY <1>0, <1>1, <2>1, <2>2, FetchFits DEF QueueInv, Stages
<1>2. CASE Reject \/ Finish
  <2>1. /\ inbox # << >> /\ Ack(Current) /\ inbox' = Tail(inbox) /\ stage' = "next"
        /\ deliveries' = deliveries
    BY <1>0, <1>2 DEF Reject, Finish, QueueInv
  <2>2. Len(inbox) - 1 <= BatchSize
    BY <1>0, <2>1, InHand, ConstantsFit DEF QueueInv
  <2> QED
    BY <1>0, <2>1, <2>2, InHand, AckFits DEF QueueInv, Stages
<1>7. CASE HandBack
  <2>1. /\ inbox # << >> /\ Nak(Current) /\ inbox' = Tail(inbox) /\ stage' = "next"
        /\ deliveries' = deliveries
    BY <1>7 DEF HandBack
  <2>2. Len(inbox) - 1 <= BatchSize
    BY <1>0, <2>1, InHand, ConstantsFit DEF QueueInv
  <2> QED
    BY <1>0, <2>1, <2>2, InHand, NakFits DEF QueueInv, Stages
<1>3. CASE Analyse \/ WriteSummary \/ PublishAlert \/ Insert \/ Republish
  <2>1. inbox # << >> /\ Current \notin Rejected
    BY <1>0, <1>3 DEF Analyse, WriteSummary, PublishAlert, Insert, Republish, QueueInv
  <2>2. stage' \in Stages
    BY <1>3 DEF Analyse, WriteSummary, PublishAlert, Insert, Republish, NextStage, Stages
  <2>3. inbox' = inbox /\ broker' = broker /\ deliveries' = deliveries
    BY <1>3 DEF Analyse, WriteSummary, PublishAlert, Insert, Republish, eventVars
  <2> QED
    BY <1>0, <2>1, <2>2, <2>3 DEF QueueInv, Current
<1>4. CASE \E e \in Events : AckWait(e)
  <2>1. PICK e \in Events : AckWait(e)
    BY <1>4
  <2>2. broker' = [broker EXCEPT ![e] = AfterRequeue(deliveries[e])]
        /\ deliveries' = deliveries /\ inbox' = inbox /\ stage' = stage
    BY <2>1 DEF AckWait, collectorVars
  <2>3. deliveries[e] \in Nat /\ MaxDeliver \in Nat
    BY <1>0, ConstantsFit DEF QueueInv, Deliveries
  <2>4. AfterRequeue(deliveries[e]) \in MessageStates
        /\ (AfterRequeue(deliveries[e]) = "ready" => deliveries[e] < MaxDeliver)
    BY <2>3 DEF AfterRequeue, MessageStates
  <2> QED
    BY <1>0, <2>2, <2>4 DEF QueueInv, Current
<1>5. CASE Restart
  <2>1. << >> \in Seq(Events) /\ Len(<< >>) = 0
    OBVIOUS
  <2>2. inbox' = << >> /\ stage' = "next" /\ broker' = broker /\ deliveries' = deliveries
    BY <1>5 DEF Restart, eventVars
  <2>3. Distinct(inbox')
    BY <2>1, <2>2 DEF Distinct
  <2> QED
    BY <1>0, <2>1, <2>2, <2>3, ConstantsFit DEF QueueInv, Stages
<1>6. CASE \/ Sweep \/ WriteSwept \/ FalcoStep \/ (\E a \in FalcoAlerts : FalcoAckWait(a))
           \/ UNCHANGED vars
  <2>1. UNCHANGED <<broker, deliveries, inbox, stage>>
    BY <1>6 DEF Sweep, WriteSwept, FalcoStep, FalcoCorrelate, FalcoStore, FalcoMark, FalcoInject,
                FalcoAckWait, eventVars, collectorVars, vars
  <2> QED
    BY <1>0, <2>1 DEF QueueInv, Current
<1> QED
  BY <1>1, <1>2, <1>3, <1>4, <1>5, <1>6, <1>7 DEF Next, CollectorStep

-----------------------------------------------------------------------------
(* Every step keeps the part of the stored events.                            *)
LEMMA StoreKept ==
    ASSUME CtiInv, [Next]_vars
    PROVE  StoreInv'
<1>0. QueueInv /\ StoreInv /\ MemoryInv
  BY DEF CtiInv
<1>1. CASE Fetch
  <2>1. UNCHANGED <<stored, storeFailed, enriched>> /\ stage' = "next" /\ inbox = << >>
    BY <1>1 DEF Fetch, tableVars, busVars
  <2>2. \A e \in Events : stored[e] \in Nat /\ deliveries[e] \in Nat /\ deliveries'[e] \in Nat
    BY <1>0, <1>1, FetchFits DEF StoreInv, QueueInv, Deliveries
  <2>3. ASSUME NEW e \in Events
        PROVE  stored'[e] <= deliveries'[e] /\ (Coming(e)' => stored'[e] < deliveries'[e])
    <3>1. stored[e] <= deliveries[e]
      BY <1>0 DEF StoreInv
    <3>2. Coming(e)' => deliveries'[e] = deliveries[e] + 1
      BY <1>0, <1>1, FetchFits DEF Coming
    <3>3. deliveries'[e] >= deliveries[e]
      BY <1>0, <1>1, FetchFits
    <3> QED
      BY <2>1, <2>2, <3>1, <3>2, <3>3
  <2>4. \A e \in Events : broker'[e] = "acked" => broker[e] = "acked"
    BY <1>0, <1>1, FetchFits
  <2> QED
    BY <1>0, <2>1, <2>3, <2>4 DEF StoreInv, Inserted, Touched
<1>2. CASE Reject \/ HandBack \/ Finish
  <2>1. /\ inbox # << >> /\ inbox' = Tail(inbox) /\ stage' = "next"
        /\ deliveries' = deliveries /\ UNCHANGED <<stored, storeFailed, enriched>>
        /\ Nak(Current) \/ (Ack(Current) /\ (Current \in Rejected \/ Inserted))
    BY <1>0, <1>2 DEF Reject, HandBack, Finish, QueueInv, tableVars, busVars, Inserted
  <2>2. ASSUME NEW e \in Events, Coming(e)' PROVE Coming(e)
    <3>1. PICK i \in 1 .. Len(inbox) - 1 : Tail(inbox)[i] = e
      BY <1>0, <2>1, <2>2, InHand DEF Coming
    <3>2. i + 1 \in 1 .. Len(inbox) /\ i + 1 # 1 /\ inbox[i + 1] = e
      BY <1>0, <2>1, <3>1, InHand
    <3> QED
      BY <3>2 DEF Coming
  <2>3. \A e \in Events \ Rejected : broker'[e] = "acked" => Touched(e)
    BY <1>0, <2>1, AckFits, NakFits, InHand DEF StoreInv
  <2> QED
    BY <1>0, <2>1, <2>2, <2>3 DEF StoreInv, Inserted, Touched
<1>3. CASE Analyse \/ WriteSummary \/ PublishAlert
  <2>1. /\ UNCHANGED <<inbox, broker, deliveries, stored, storeFailed, enriched>>
        /\ ~ Inserted /\ ~ Inserted'
    BY <1>3 DEF Analyse, WriteSummary, PublishAlert, eventVars, tableVars, busVars, Inserted, NextStage
  <2>2. \A e \in Events : Coming(e)' => Coming(e)
    BY <2>1 DEF Coming
  <2> QED
    BY <1>0, <2>1, <2>2 DEF StoreInv, Touched
<1>4. CASE Insert
  <2>1. /\ UNCHANGED <<inbox, broker, deliveries, enriched>> /\ ~ Inserted /\ Inserted'
        /\ inbox # << >>
    BY <1>0, <1>4 DEF Insert, eventVars, busVars, Inserted, QueueInv
  <2>2. Current \in Events /\ Current = inbox[1] /\ Len(inbox) \in Nat \ {0}
    BY <1>0, <2>1, InHand
  <2>3. Coming(Current)
    BY <2>1, <2>2 DEF Coming
  <2>4. stored[Current] \in Nat /\ deliveries[Current] \in Nat /\ stored[Current] < deliveries[Current]
    BY <1>0, <2>2, <2>3 DEF StoreInv, QueueInv, Deliveries
  <2>5. \A e \in Events : e = Current => ~ Coming(e)'
    <3> SUFFICES ASSUME NEW i \in 1 .. Len(inbox), inbox[i] = Current, i # 1 PROVE FALSE
      BY <2>1 DEF Coming
    <3>1. i - 1 \in 1 .. Len(inbox) - 1 /\ (i - 1) + 1 = i
      BY <2>2
    <3> QED
      BY <1>0, <2>1, <3>1, InHand
  <2>6. \A e \in Events : Coming(e)' => Coming(e)
    BY <2>1 DEF Coming
  <2>7. /\ stored' \in [Events -> Nat] /\ storeFailed' \subseteq Events
        /\ \A e \in Events : e # Current => stored'[e] = stored[e]
        /\ stored'[Current] \in {stored[Current], stored[Current] + 1}
        /\ Current \in Keyed => stored'[Current] <= 1
        /\ storeFailed \subseteq storeFailed'
        /\ stored'[Current] > 0 \/ Current \in storeFailed'
    <3>1. CASE InsertEvent(Current) /\ UNCHANGED storeFailed
      <4>1. stored' = [stored EXCEPT ![Current] =
                IF Current \in Keyed /\ stored[Current] > 0 THEN stored[Current] ELSE stored[Current] + 1]
        BY <3>1 DEF InsertEvent
      <4>2. Current \in Keyed => stored[Current] <= 1
        BY <1>0 DEF StoreInv
      <4>3. stored'[Current] = IF Current \in Keyed /\ stored[Current] > 0
                               THEN stored[Current] ELSE stored[Current] + 1
        BY <1>0, <2>2, <4>1 DEF StoreInv
      <4>4. stored' \in [Events -> Nat] /\ \A e \in Events : e # Current => stored'[e] = stored[e]
        BY <1>0, <2>2, <2>4, <4>1 DEF StoreInv
      <4>5. stored'[Current] > 0 /\ (Current \in Keyed => stored'[Current] <= 1)
            /\ stored'[Current] \in {stored[Current], stored[Current] + 1}
        BY <2>4, <4>2, <4>3
      <4> QED
        BY <1>0, <3>1, <4>4, <4>5 DEF StoreInv
    <3>2. CASE storeFailed' = storeFailed \cup {Current} /\ UNCHANGED stored
      BY <1>0, <2>2, <3>2 DEF StoreInv
    <3> QED
      BY <1>4, <3>1, <3>2 DEF Insert
  <2>8. \A e \in Events : stored'[e] <= deliveries'[e] /\ (Coming(e)' => stored'[e] < deliveries'[e])
    <3>1. \A e \in Events : stored[e] <= deliveries[e] /\ (Coming(e) => stored[e] < deliveries[e])
      BY <1>0 DEF StoreInv
    <3>2. stored'[Current] <= deliveries[Current]
      BY <2>4, <2>7
    <3>3. \A e \in Events : e # Current => stored'[e] = stored[e]
      BY <2>7
    <3> QED
      BY <2>1, <2>5, <2>6, <3>1, <3>2, <3>3
  <2>9. \A e \in Keyed : stored'[e] <= 1
    BY <1>0, <2>7, ConstantsFit DEF StoreInv
  <2>10. \A e \in Events : Touched(e) => Touched(e)'
    BY <2>2, <2>7 DEF Touched
  <2>11. Touched(Current)' /\ Current' = Current
    BY <2>1, <2>2, <2>7 DEF Touched, Current
  <2> QED
    BY <1>0, <2>1, <2>7, <2>8, <2>9, <2>10, <2>11 DEF StoreInv, Touched
<1>5. CASE Republish
  <2>1. /\ UNCHANGED <<inbox, broker, deliveries, stored, storeFailed>> /\ Inserted /\ Inserted'
        /\ inbox # << >> /\ enriched' \in {enriched, enriched \cup {Current}}
    BY <1>0, <1>5 DEF Republish, eventVars, tableVars, Inserted, QueueInv
  <2>2. \A e \in Events : Coming(e)' => Coming(e)
    BY <2>1 DEF Coming
  <2>3. Touched(Current) /\ Current \in Events
    BY <1>0, <2>1, InHand DEF StoreInv
  <2> QED
    BY <1>0, <2>1, <2>2, <2>3 DEF StoreInv, Touched, Current
<1>6. CASE \E e \in Events : AckWait(e)
  <2>1. PICK e \in Events : AckWait(e)
    BY <1>6
  <2>2. UNCHANGED <<deliveries, inbox, stage, stored, storeFailed, enriched>>
        /\ broker' = [broker EXCEPT ![e] = AfterRequeue(deliveries[e])]
    BY <2>1 DEF AckWait, collectorVars, tableVars, busVars
  <2>3. \A x \in Events : broker'[x] = "acked" => broker[x] = "acked"
    BY <1>0, <2>2 DEF QueueInv, AfterRequeue
  <2> QED
    BY <1>0, <2>2, <2>3 DEF StoreInv, Coming, Inserted, Touched, Current
<1>7. CASE Restart
  <2>1. UNCHANGED <<broker, deliveries, stored, storeFailed, enriched>>
        /\ inbox' = << >> /\ stage' = "next"
    BY <1>7 DEF Restart, eventVars, tableVars, busVars
  <2>2. \A e \in Events : ~ Coming(e)'
    BY <2>1 DEF Coming
  <2> QED
    BY <1>0, <2>1, <2>2 DEF StoreInv, Inserted, Touched
<1>8. CASE \/ Sweep \/ WriteSwept \/ FalcoStep \/ (\E a \in FalcoAlerts : FalcoAckWait(a))
           \/ UNCHANGED vars
  <2>1. UNCHANGED <<broker, deliveries, inbox, stage, stored, storeFailed, enriched>>
    BY <1>8 DEF Sweep, WriteSwept, FalcoStep, FalcoCorrelate, FalcoStore, FalcoMark, FalcoInject,
                FalcoAckWait, eventVars, collectorVars, tableVars, busVars, vars
  <2> QED
    BY <1>0, <2>1 DEF StoreInv, Coming, Inserted, Touched, Current
<1> QED
  BY <1>1, <1>2, <1>3, <1>4, <1>5, <1>6, <1>7, <1>8 DEF Next, CollectorStep

-----------------------------------------------------------------------------
(* Every step keeps the part of the analyzer.                                 *)
LEMMA NoSummaries == << >> \in Seq(Summary) /\ Len(<< >>) = 0
OBVIOUS

LEMMA SummaryFits ==
    ASSUME NEW an, Memory(an), NEW s \in DOMAIN an.tracked
    PROVE  SummaryOf(an, s) \in Summary /\ SummaryOf(an, s).session = s
<1>1. s \in Sessions /\ an.tracked[s].count \in Nat
  BY ToSetIsElements DEF Memory, Shape, Lists
<1> QED
  BY <1>1 DEF SummaryOf, Summary

\* What the analysis of a session's event does, in terms of the analyzer a that
\* ingest leaves.
Analysed(a, s) ==
    /\ Memory(a) /\ a.closed = analyzer.closed
    /\ DOMAIN analyzer.tracked \ DOMAIN a.tracked \subseteq Gone(a)
    /\ \A t \in DOMAIN a.tracked \ {s} :
          t \in DOMAIN analyzer.tracked /\ a.tracked[t] = analyzer.tracked[t]
    /\ s \in DOMAIN analyzer.tracked /\ s \in DOMAIN a.tracked =>
          analyzer.tracked[s].raised \subseteq a.tracked[s].raised

LEMMA GoneFits ==
    ASSUME NEW an, Memory(an)
    PROVE  /\ an.evicted \in Seq(Summary) /\ Gone(an) \subseteq Sessions
           /\ \A i \in 1 .. Len(an.evicted) : an.evicted[i].session \in Gone(an)
<1>1. an.evicted \in Seq(Summary)
  BY DEF Memory, Shape
<1>2. ToSet(an.evicted) \subseteq Summary /\ ToSet(an.evicted) = {an.evicted[i] : i \in 1 .. Len(an.evicted)}
  BY <1>1, ToSetIsElements
<1> QED
  BY <1>1, <1>2 DEF Gone, Summary

LEMMA AnalyseCases ==
    ASSUME CtiInv, Analyse
    PROVE  /\ Current \in Events /\ inbox' = inbox /\ stage' = NextStage
           /\ \/ SessionOf[Current] = NoSession /\ UNCHANGED <<analyzer, forgotten, todo, alerts>>
              \/ \E a : /\ Analysed(a, SessionOf[Current])
                        /\ \E F \in Trims(a, SessionOf[Current]) :
                              /\ analyzer' = CloseSession(a, SessionOf[Current], F)
                              /\ forgotten' = forgotten \cup Gone(a) \cup F
                        /\ todo' = IF SessionOf[Current] \in DOMAIN a.tracked
                                   THEN <<SummaryOf(a, SessionOf[Current])>> ELSE << >>
                        /\ alerts' = {}
              \/ \E a : /\ Analysed(a, SessionOf[Current])
                        /\ analyzer' = DrainEvicted(a) /\ forgotten' = forgotten \cup Gone(a)
                        /\ todo' = a.evicted /\ alerts' = NewAlerts(analyzer, Current)
                        /\ SessionOf[Current] \in DOMAIN a.tracked =>
                              alerts' \subseteq a.tracked[SessionOf[Current]].raised
                        /\ SessionOf[Current] \notin DOMAIN a.tracked => alerts' = {}
<1> DEFINE s == SessionOf[Current]
<1>1. Current \in Events
  BY InHand DEF CtiInv, Analyse
<1>2. inbox' = inbox /\ stage' = NextStage
  BY DEF Analyse
<1>3. CASE s # NoSession
  <2>1. PICK old \in 0 .. Len(analyzer.processed) :
            IF Current \in Ends THEN AnalyseEnd(Current, old) ELSE AnalyseOther(Current, old)
    BY <1>3 DEF Analyse
  <2> DEFINE a == Ingest(analyzer, Current, old)
  <2>2. /\ Analysed(a, s)
        /\ s \in DOMAIN a.tracked => NewAlerts(analyzer, Current) \subseteq a.tracked[s].raised
        /\ s \notin DOMAIN a.tracked => NewAlerts(analyzer, Current) = {}
    BY <1>1, IngestFits DEF CtiInv, MemoryInv, Analysed
  <2>3. CASE Current \in Ends
    BY <1>1, <1>2, <2>1, <2>2, <2>3 DEF AnalyseEnd, Gone
  <2>4. CASE Current \notin Ends
    BY <1>1, <1>2, <2>1, <2>2, <2>4 DEF AnalyseOther, Gone
  <2> QED
    BY <2>3, <2>4
<1>4. CASE s = NoSession
  BY <1>1, <1>2, <1>4 DEF Analyse, memoryVars
<1> QED
  BY <1>3, <1>4

LEMMA MemoryKept ==
    ASSUME CtiInv, [Next]_vars
    PROVE  MemoryInv'
<1>0. MemoryInv /\ QueueInv
  BY DEF CtiInv
<1>1. CASE Analyse
  <2>1. UNCHANGED sweeping /\ Current \in Events /\ stage' = NextStage /\ SessionOf[Current] \in Sessions
    BY <1>1, AnalyseCases, AnalyzerAssumption DEF Analyse
  <2>2. ASSUME todo' \in Seq(Summary), alerts' \subseteq AlertKeys, Memory(analyzer'), forgotten' \subseteq Sessions
        PROVE  MemoryInv'
    BY <1>0, <2>1, <2>2 DEF MemoryInv, NextStage
  <2>3. CASE UNCHANGED <<analyzer, forgotten, todo, alerts>>
    BY <1>0, <2>2, <2>3 DEF MemoryInv
  <2>4. ASSUME NEW a, Analysed(a, SessionOf[Current]), NEW F \in Trims(a, SessionOf[Current]),
               analyzer' = CloseSession(a, SessionOf[Current], F),
               forgotten' = forgotten \cup Gone(a) \cup F,
               todo' = IF SessionOf[Current] \in DOMAIN a.tracked
                       THEN <<SummaryOf(a, SessionOf[Current])>> ELSE << >>,
               alerts' = {}
        PROVE  MemoryInv'
    <3>1. todo' \in Seq(Summary)
      BY <2>4, SummaryFits, NoSummaries DEF Analysed
    <3>2. Memory(analyzer') /\ F \subseteq Sessions
      BY <2>1, <2>4, CloseFits DEF Analysed
    <3>3. forgotten' \subseteq Sessions
      BY <1>0, <2>4, <3>2, GoneFits DEF Analysed, MemoryInv
    <3> QED
      BY <2>2, <2>4, <3>1, <3>2, <3>3
  <2>5. ASSUME NEW a, Analysed(a, SessionOf[Current]), analyzer' = DrainEvicted(a),
               forgotten' = forgotten \cup Gone(a), todo' = a.evicted,
               alerts' = NewAlerts(analyzer, Current)
        PROVE  MemoryInv'
    <3>1. todo' \in Seq(Summary) /\ forgotten' \subseteq Sessions
      BY <1>0, <2>5, GoneFits DEF Analysed, MemoryInv
    <3>2. Memory(analyzer') /\ alerts' \subseteq AlertKeys
      BY <2>5, DrainFits, NewAlertsAreNew DEF Analysed
    <3> QED
      BY <2>2, <3>1, <3>2
  <2> QED
    BY <1>1, <2>3, <2>4, <2>5, AnalyseCases
<1>2. CASE WriteSummary
  <2>1. stage = "summary" /\ todo' = Tail(todo) /\ stage' = NextStage
        /\ UNCHANGED <<analyzer, forgotten, alerts, sweeping>>
    BY <1>2 DEF WriteSummary, memoryVars
  <2>2. todo # << >> => todo' \in Seq(Summary)
    BY <1>0, <2>1, HeadTailProperties DEF MemoryInv
  <2> QED
    BY <1>0, <2>1, <2>2 DEF MemoryInv, NextStage
<1>3. CASE PublishAlert
  BY <1>0, <1>3 DEF MemoryInv, PublishAlert, NextStage, memoryVars
<1>4. CASE Insert \/ Republish \/ Finish \/ Reject \/ HandBack \/ Fetch
  <2>1. UNCHANGED <<analyzer, forgotten, todo, alerts, sweeping>>
        /\ stage \notin {"summary", "alerts"} /\ stage' \notin {"summary", "alerts"}
    BY <1>4 DEF Insert, Republish, Finish, Reject, HandBack, Fetch, memoryVars
  <2> QED
    BY <1>0, <2>1 DEF MemoryInv
<1>5. CASE Sweep
  <2>1. PICK n \in 1 .. Len(analyzer.order) :
            /\ sweeping' = [i \in 1 .. n |-> SummaryOf(analyzer, Idle(analyzer, n)[i])]
            /\ analyzer' = SweepIdle(analyzer, n)
            /\ forgotten' = forgotten \cup ToSet(Idle(analyzer, n))
    BY <1>5 DEF Sweep
  <2>2. /\ Memory(analyzer') /\ Len(Idle(analyzer, n)) = n
        /\ Lists(Idle(analyzer, n), ToSet(Idle(analyzer, n)))
        /\ ToSet(Idle(analyzer, n)) \subseteq DOMAIN analyzer.tracked
    BY <1>0, <2>1, SweepFits DEF MemoryInv
  <2>3. DOMAIN analyzer.tracked \subseteq Sessions /\ n \in Nat
    BY <1>0, ToSetIsElements DEF MemoryInv, Memory, Shape, Lists
  <2>4. \A i \in 1 .. n : Idle(analyzer, n)[i] \in DOMAIN analyzer.tracked
    BY <2>2, ToSetIsElements DEF Lists
  <2>5. \A i \in 1 .. n : SummaryOf(analyzer, Idle(analyzer, n)[i]) \in Summary
    BY <1>0, <2>4, SummaryFits DEF MemoryInv
  <2>6. sweeping' \in [1 .. n -> Summary]
    BY <2>1, <2>5
  <2>7. sweeping' \in Seq(Summary)
    BY <2>3, <2>6, SeqDef
  <2>8. UNCHANGED <<todo, alerts, stage>>
    BY <1>5 DEF Sweep, collectorVars
  <2> QED
    BY <1>0, <2>1, <2>2, <2>3, <2>7, <2>8 DEF MemoryInv
<1>6. CASE WriteSwept
  <2>1. sweeping # << >> /\ sweeping' = Tail(sweeping)
        /\ UNCHANGED <<analyzer, forgotten, todo, alerts, stage>>
    BY <1>6 DEF WriteSwept, memoryVars, collectorVars
  <2>2. sweeping' \in Seq(Summary)
    BY <1>0, <2>1, HeadTailProperties DEF MemoryInv
  <2> QED
    BY <1>0, <2>1, <2>2 DEF MemoryInv
<1>7. CASE Restart
  <2>1. /\ analyzer' = NewAnalyzer /\ forgotten' = Sessions /\ todo' = << >> /\ alerts' = {}
        /\ sweeping' = << >> /\ stage' = "next"
    BY <1>7 DEF Restart
  <2> QED
    BY <2>1, NewAnalyzerFits, NoSummaries DEF MemoryInv
<1>8. CASE \/ FalcoStep \/ (\E e \in Events : AckWait(e)) \/ (\E a \in FalcoAlerts : FalcoAckWait(a))
           \/ UNCHANGED vars
  <2>1. UNCHANGED <<analyzer, forgotten, todo, alerts, stage, sweeping>>
    BY <1>8 DEF FalcoStep, FalcoCorrelate, FalcoStore, FalcoMark, FalcoInject, AckWait,
                FalcoAckWait, memoryVars, collectorVars, vars
  <2> QED
    BY <1>0, <2>1 DEF MemoryInv
<1> QED
  BY <1>1, <1>2, <1>3, <1>4, <1>5, <1>6, <1>7, <1>8 DEF Next, CollectorStep

-----------------------------------------------------------------------------
(* Every step keeps the part of the published alerts.                         *)
LEMMA RaisedKept ==
    ASSUME CtiInv, [Next]_vars
    PROVE  RaisedInv'
<1>0. RaisedInv /\ MemoryInv /\ QueueInv
  BY DEF CtiInv
<1>1. CASE Analyse
  <2> DEFINE s == SessionOf[Current]
  <2>1. UNCHANGED <<published, inbox>> /\ alerts = {} /\ Current' = Current
    BY <1>0, <1>1 DEF Analyse, busVars, MemoryInv, Current
  <2>2. CASE UNCHANGED <<analyzer, forgotten, todo, alerts>>
    BY <1>0, <2>1, <2>2 DEF RaisedInv, Pending, Known
  <2>3. ASSUME NEW a, Analysed(a, s), NEW F \in Trims(a, s), analyzer' = CloseSession(a, s, F),
               forgotten' = forgotten \cup Gone(a) \cup F, alerts' = {}
        PROVE  RaisedInv'
    <3>1. s \in Sessions
      BY <1>1, AnalyseCases, AnalyzerAssumption
    <3>2. /\ DOMAIN analyzer'.tracked = DOMAIN a.tracked \ {s}
          /\ \A t \in DOMAIN analyzer'.tracked : analyzer'.tracked[t] = a.tracked[t]
          /\ analyzer'.closed = IF s \in DOMAIN a.tracked THEN (a.closed \cup {s}) \ F ELSE a.closed
      BY SMTT(30), <2>3, <3>1, CloseFits DEF Analysed
    <3>3. ASSUME NEW t \in Sessions \ forgotten', NEW k \in AlertKeys, Known(t, k) PROVE Known(t, k)'
      <4>1. t \notin Gone(a) /\ t \notin F
        BY <2>3, <3>3
      <4>2. CASE t \in analyzer.closed
        BY <2>3, <3>2, <4>1, <4>2 DEF Known, Analysed
      <4>3. CASE t \in DOMAIN analyzer.tracked /\ k \in analyzer.tracked[t].raised
        <5>1. t \in DOMAIN a.tracked /\ k \in a.tracked[t].raised
          BY <2>3, <4>1, <4>3 DEF Analysed
        <5>2. CASE t = s
          BY <3>2, <4>1, <5>1, <5>2 DEF Known
        <5>3. CASE t # s
          BY <3>2, <5>1, <5>3 DEF Known
        <5> QED
          BY <5>2, <5>3
      <4> QED
        BY <3>3, <4>2, <4>3 DEF Known
    <3> QED
      BY <1>0, <2>1, <2>3, <3>3 DEF RaisedInv, Pending
  <2>4. ASSUME NEW a, Analysed(a, s), analyzer' = DrainEvicted(a), forgotten' = forgotten \cup Gone(a),
               alerts' = NewAlerts(analyzer, Current),
               s \in DOMAIN a.tracked => alerts' \subseteq a.tracked[s].raised,
               s \notin DOMAIN a.tracked => alerts' = {}
        PROVE  RaisedInv'
    <3>1. analyzer'.tracked = a.tracked /\ analyzer'.closed = analyzer.closed
      BY <2>4, DrainFits DEF Analysed
    <3>2. ASSUME NEW t \in Sessions \ forgotten', NEW k \in AlertKeys, Known(t, k) PROVE Known(t, k)'
      <4>1. t \notin Gone(a)
        BY <2>4, <3>2
      <4>2. CASE t \in analyzer.closed
        BY <3>1, <4>2 DEF Known
      <4>3. CASE t \in DOMAIN analyzer.tracked /\ k \in analyzer.tracked[t].raised
        <5>1. t \in DOMAIN a.tracked /\ k \in a.tracked[t].raised
          BY <2>4, <4>1, <4>3 DEF Analysed
        <5> QED
          BY <3>1, <5>1 DEF Known
      <4> QED
        BY <3>2, <4>2, <4>3 DEF Known
    <3>3. ASSUME NEW t \in Sessions \ forgotten', NEW k \in AlertKeys, Pending(t, k)'
          PROVE  Known(t, k)' /\ published[<<t, k>>] = 0
      <4>1. t = s /\ k \in alerts' /\ s \in DOMAIN a.tracked
        BY <2>1, <2>4, <3>3 DEF Pending
      <4>2. Known(t, k)'
        BY <2>4, <3>1, <4>1 DEF Known
      <4>3. ~ Known(t, k)
        BY <2>4, <4>1, NewAlertsAreNew DEF Known
      <4>4. published[<<t, k>>] = 0
        BY <1>0, <2>4, <4>3 DEF RaisedInv
      <4> QED
        BY <4>2, <4>4
    <3>4. forgotten \subseteq forgotten'
      BY <2>4
    <3> QED
      BY <1>0, <2>1, <3>2, <3>3, <3>4 DEF RaisedInv
  <2> QED
    BY <1>1, <2>2, <2>3, <2>4, AnalyseCases
<1>2. CASE PublishAlert
  <2>1. PICK k \in alerts : /\ \/ published' = [published EXCEPT ![<<SessionOf[Current], k>>] = @ + 1]
                               \/ UNCHANGED published
                            /\ alerts' = alerts \ {k}
    BY <1>2 DEF PublishAlert
  <2>2. UNCHANGED <<analyzer, forgotten, inbox>> /\ Current' = Current /\ inbox # << >>
    BY <1>0, <1>2 DEF PublishAlert, memoryVars, Current, QueueInv
  <2>3. k \in AlertKeys /\ SessionOf[Current] \in Sessions
    BY <1>0, <2>1, <2>2, InHand, AnalyzerAssumption DEF MemoryInv
  <2>4. /\ published' \in [Sessions \X AlertKeys -> Nat]
        /\ \A t \in Sessions, j \in AlertKeys : t # SessionOf[Current] \/ j # k =>
              published'[<<t, j>>] = published[<<t, j>>]
        /\ published'[<<SessionOf[Current], k>>] \in
              {published[<<SessionOf[Current], k>>], published[<<SessionOf[Current], k>>] + 1}
    BY <1>0, <2>1, <2>3 DEF RaisedInv
  <2>5. ASSUME NEW t \in Sessions \ forgotten, NEW j \in AlertKeys
        PROVE  /\ published'[<<t, j>>] <= 1
               /\ Pending(t, j)' => published'[<<t, j>>] = 0
               /\ Pending(t, j)' \/ published'[<<t, j>>] # 0 => Known(t, j)'
    <3>0. Known(t, j)' <=> Known(t, j)
      BY <2>2 DEF Known
    <3>1. CASE t = SessionOf[Current] /\ j = k
      <4>1. Pending(t, j) /\ ~ Pending(t, j)'
        BY <2>1, <2>2, <3>1 DEF Pending
      <4>2. published[<<t, j>>] = 0 /\ Known(t, j)
        BY <1>0, <4>1 DEF RaisedInv
      <4>3. published'[<<t, j>>] \in {0, 1}
        BY <2>4, <3>1, <4>2
      <4> QED
        BY <3>0, <4>1, <4>2, <4>3
    <3>2. CASE ~ (t = SessionOf[Current] /\ j = k)
      <4>1. published'[<<t, j>>] = published[<<t, j>>] /\ (Pending(t, j)' => Pending(t, j))
        BY <2>1, <2>2, <2>4, <3>2 DEF Pending
      <4> QED
        BY <1>0, <3>0, <4>1 DEF RaisedInv
    <3> QED
      BY <3>1, <3>2
  <2> QED
    BY <2>2, <2>4, <2>5 DEF RaisedInv
<1>3. CASE Fetch \/ Reject \/ HandBack \/ Finish
  <2>1. UNCHANGED <<published, analyzer, forgotten, alerts>> /\ alerts = {}
    BY <1>0, <1>3 DEF Fetch, Reject, HandBack, Finish, busVars, memoryVars, MemoryInv
  <2> QED
    BY <1>0, <2>1 DEF RaisedInv, Pending, Known
<1>4. CASE Sweep
  <2>1. PICK n \in 1 .. Len(analyzer.order) :
            analyzer' = SweepIdle(analyzer, n) /\ forgotten' = forgotten \cup ToSet(Idle(analyzer, n))
    BY <1>4 DEF Sweep
  <2>2. UNCHANGED <<published, alerts, inbox>>
    BY <1>4 DEF Sweep, busVars, collectorVars
  <2>3. /\ analyzer'.closed = analyzer.closed
        /\ DOMAIN analyzer'.tracked = DOMAIN analyzer.tracked \ ToSet(Idle(analyzer, n))
        /\ \A t \in DOMAIN analyzer'.tracked : analyzer'.tracked[t] = analyzer.tracked[t]
    BY <1>0, <2>1, SweepFits DEF MemoryInv
  <2>4. \A t \in Sessions \ forgotten', k \in AlertKeys : Known(t, k) => Known(t, k)'
    BY <2>1, <2>3 DEF Known
  <2> QED
    BY <1>0, <2>1, <2>2, <2>4 DEF RaisedInv, Pending, Current
<1>5. CASE Restart
  BY <1>0, <1>5 DEF Restart, RaisedInv, busVars
<1>6. CASE \/ WriteSummary \/ Insert \/ Republish \/ WriteSwept \/ FalcoStep
           \/ (\E e \in Events : AckWait(e)) \/ (\E a \in FalcoAlerts : FalcoAckWait(a))
           \/ UNCHANGED vars
  <2>1. UNCHANGED <<published, analyzer, forgotten, alerts, inbox>>
    BY <1>6 DEF WriteSummary, Insert, Republish, WriteSwept, FalcoStep, FalcoCorrelate, FalcoStore,
                FalcoMark, FalcoInject, AckWait, FalcoAckWait, memoryVars, collectorVars, busVars, vars
  <2> QED
    BY <1>0, <2>1 DEF RaisedInv, Pending, Known, Current
<1> QED
  BY <1>1, <1>2, <1>3, <1>4, <1>5, <1>6 DEF Next, CollectorStep

\* Sessions are closed by the loop alone, which has then no alerts in hand.
LEMMA OpenKept ==
    ASSUME CtiInv, [Next]_vars
    PROVE  OpenInv'
<1>0. OpenInv /\ MemoryInv /\ QueueInv
  BY DEF CtiInv
<1>1. CASE Analyse
  <2> DEFINE s == SessionOf[Current]
  <2>1. alerts = {} /\ Current' = Current
    BY <1>0, <1>1 DEF Analyse, MemoryInv, Current
  <2>2. CASE UNCHANGED <<analyzer, forgotten, todo, alerts>>
    BY <2>1, <2>2 DEF OpenInv
  <2>3. CASE alerts' = {}
    BY <2>3 DEF OpenInv
  <2>4. ASSUME NEW a, Analysed(a, s), analyzer' = DrainEvicted(a), alerts' = NewAlerts(analyzer, Current)
        PROVE  OpenInv'
    <3>1. analyzer'.closed = analyzer.closed
      BY <2>4, DrainFits DEF Analysed
    <3> QED
      BY <2>1, <2>4, <3>1, NewAlertsAreNew DEF OpenInv
  <2> QED
    BY <1>1, <2>2, <2>3, <2>4, AnalyseCases
<1>2. CASE PublishAlert
  BY <1>0, <1>2 DEF PublishAlert, memoryVars, OpenInv, Current
<1>3. CASE Fetch \/ Reject \/ HandBack \/ Finish \/ Restart
  <2>1. alerts' = {}
    BY <1>0, <1>3 DEF Fetch, Reject, HandBack, Finish, Restart, MemoryInv
  <2> QED
    BY <2>1 DEF OpenInv
<1>4. CASE Sweep
  <2>1. analyzer'.closed = analyzer.closed
    BY <1>0, <1>4, SweepFits DEF Sweep, MemoryInv
  <2> QED
    BY <1>0, <1>4, <2>1 DEF Sweep, collectorVars, OpenInv, Current
<1>5. CASE \/ WriteSummary \/ Insert \/ Republish \/ WriteSwept \/ FalcoStep
           \/ (\E e \in Events : AckWait(e)) \/ (\E a \in FalcoAlerts : FalcoAckWait(a))
           \/ UNCHANGED vars
  <2>1. UNCHANGED <<analyzer, alerts, inbox>>
    BY <1>5 DEF WriteSummary, Insert, Republish, WriteSwept, FalcoStep, FalcoCorrelate, FalcoStore,
                FalcoMark, FalcoInject, AckWait, FalcoAckWait, memoryVars, collectorVars, vars
  <2> QED
    BY <1>0, <2>1 DEF OpenInv, Current
<1> QED
  BY <1>1, <1>2, <1>3, <1>4, <1>5 DEF Next, CollectorStep

-----------------------------------------------------------------------------
(* Every step keeps the part of the outcomes.                                 *)

\* A summary that is written changes the count of its row only.
LEMMA RowWritten ==
    ASSUME rows \in [Sessions -> [count : Nat, falco : Nat]], NEW x \in Summary, TryWriteRow(x)
    PROVE  /\ rows' \in [Sessions -> [count : Nat, falco : Nat]]
           /\ \A s \in Sessions : rows'[s].falco = rows[s].falco
           /\ \A s \in Sessions \ {x.session} : rows'[s] = rows[s]
BY DEF TryWriteRow, WriteRow, Summary

LEMMA HeadSummary ==
    ASSUME NEW q \in Seq(Summary), q # << >>
    PROVE  /\ Head(q) \in Summary /\ Head(q) = q[1] /\ Len(q) \in Nat \ {0} /\ 1 \in 1 .. Len(q)
           /\ Tail(q) \in Seq(Summary) /\ Len(Tail(q)) = Len(q) - 1
           /\ \A i \in 1 .. Len(q) - 1 : Tail(q)[i] = q[i + 1] /\ i + 1 \in 1 .. Len(q)
<1>1. Len(q) \in Nat \ {0} /\ Head(q) = q[1]
  BY EmptySeq
<1> QED
  BY <1>1, HeadTailProperties

LEMMA SummariesNameSessions ==
    ASSUME NEW q \in Seq(Summary), NEW i \in 1 .. Len(q)
    PROVE  q[i].session \in Sessions
<1>1. q[i] \in Summary
  BY ElementOfSeq
<1> QED
  BY <1>1 DEF Summary

LEMMA FinalKept ==
    ASSUME CtiInv, [Next]_vars
    PROVE  FinalInv'
<1>0. FinalInv /\ MemoryInv
  BY DEF CtiInv
<1>1. CASE Analyse
  <2> DEFINE s == SessionOf[Current]
  <2>1. UNCHANGED <<rows, sweeping>> /\ s \in Sessions
    BY <1>1, AnalyseCases, AnalyzerAssumption DEF Analyse, tableVars
  <2>2. CASE UNCHANGED <<analyzer, forgotten, todo, alerts>>
    BY <1>0, <2>1, <2>2 DEF FinalInv
  <2>3. ASSUME NEW a, Analysed(a, s), NEW F \in Trims(a, s), analyzer' = CloseSession(a, s, F),
               forgotten' = forgotten \cup Gone(a) \cup F,
               todo' = IF s \in DOMAIN a.tracked THEN <<SummaryOf(a, s)>> ELSE << >>
        PROVE  FinalInv'
    <3>1. analyzer'.closed = IF s \in DOMAIN a.tracked THEN (analyzer.closed \cup {s}) \ F ELSE analyzer.closed
      BY <2>1, <2>3, CloseFits DEF Analysed
    <3>2. \A t \in Sessions \ forgotten' : t \notin analyzer'.closed => rows[t].count = 0
      BY <1>0, <2>3, <3>1 DEF FinalInv
    <3>3. ASSUME NEW i \in 1 .. Len(todo')
          PROVE  \/ todo'[i].session \in forgotten'
                 \/ Len(todo') = 1 /\ todo'[i].session \in analyzer'.closed /\ rows[todo'[i].session].count = 0
      <4>1. s \in DOMAIN a.tracked /\ todo' = <<SummaryOf(a, s)>>
        BY <2>3, <3>3
      <4>2. Len(todo') = 1 /\ todo'[i] = SummaryOf(a, s)
        BY <3>3, <4>1
      <4>3. todo'[i].session = s /\ s \notin analyzer.closed
        BY <2>3, <4>1, <4>2, SummaryFits DEF Analysed, Memory, Shape
      <4> QED
        BY <1>0, <2>1, <2>3, <3>1, <4>1, <4>2, <4>3 DEF FinalInv
    <3> QED
      BY <1>0, <2>1, <2>3, <3>2, <3>3 DEF FinalInv
  <2>4. ASSUME NEW a, Analysed(a, s), analyzer' = DrainEvicted(a), forgotten' = forgotten \cup Gone(a),
               todo' = a.evicted
        PROVE  FinalInv'
    <3>1. analyzer'.closed = analyzer.closed
      BY <2>4, DrainFits DEF Analysed
    <3>2. \A i \in 1 .. Len(todo') : todo'[i].session \in forgotten'
      BY <2>4, GoneFits DEF Analysed
    <3> QED
      BY <1>0, <2>1, <2>4, <3>1, <3>2 DEF FinalInv
  <2> QED
    BY <1>1, <2>2, <2>3, <2>4, AnalyseCases
<1>2. CASE WriteSummary
  <2>1. /\ todo # << >> /\ TryWriteRow(Head(todo)) /\ todo' = Tail(todo)
        /\ UNCHANGED <<analyzer, forgotten, sweeping>>
    BY <1>0, <1>2 DEF WriteSummary, memoryVars, MemoryInv
  <2> DEFINE x == Head(todo)
  <2>2. /\ x \in Summary /\ x = todo[1] /\ Len(todo) \in Nat \ {0} /\ 1 \in 1 .. Len(todo)
        /\ Len(todo') = Len(todo) - 1
        /\ \A i \in 1 .. Len(todo) - 1 : todo'[i] = todo[i + 1] /\ i + 1 \in 1 .. Len(todo)
    BY <1>0, <2>1, HeadSummary DEF MemoryInv
  <2>3. /\ rows' \in [Sessions -> [count : Nat, falco : Nat]]
        /\ \A t \in Sessions \ {x.session} : rows'[t] = rows[t]
    BY <1>0, <2>1, <2>2, RowWritten DEF FinalInv
  <2>4. \/ x.session \in forgotten
        \/ Len(todo) = 1 /\ x.session \in analyzer.closed
    BY <1>0, <2>2 DEF FinalInv
  <2>5. \A t \in Sessions \ forgotten : t \notin analyzer.closed => rows'[t].count = 0
    BY <1>0, <2>3, <2>4 DEF FinalInv
  <2>6. ASSUME NEW i \in 1 .. Len(todo') PROVE todo'[i].session \in forgotten
    <3>1. todo'[i] = todo[i + 1] /\ i + 1 \in 1 .. Len(todo) /\ Len(todo) # 1
      BY <2>2
    <3> QED
      BY <1>0, <3>1 DEF FinalInv
  <2> QED
    BY <1>0, <2>1, <2>3, <2>5, <2>6 DEF FinalInv
<1>3. CASE WriteSwept
  <2>1. /\ sweeping # << >> /\ TryWriteRow(Head(sweeping)) /\ sweeping' = Tail(sweeping)
        /\ UNCHANGED <<analyzer, forgotten, todo>>
    BY <1>3 DEF WriteSwept, memoryVars, collectorVars
  <2> DEFINE x == Head(sweeping)
  <2>2. /\ x \in Summary /\ x = sweeping[1] /\ Len(sweeping) \in Nat \ {0} /\ 1 \in 1 .. Len(sweeping)
        /\ Len(sweeping') = Len(sweeping) - 1
        /\ \A i \in 1 .. Len(sweeping) - 1 : sweeping'[i] = sweeping[i + 1] /\ i + 1 \in 1 .. Len(sweeping)
    BY <1>0, <2>1, HeadSummary DEF MemoryInv
  <2>3. /\ rows' \in [Sessions -> [count : Nat, falco : Nat]]
        /\ \A t \in Sessions \ {x.session} : rows'[t] = rows[t]
    BY <1>0, <2>1, <2>2, RowWritten DEF FinalInv
  <2>4. x.session \in forgotten
    BY <1>0, <2>2 DEF FinalInv
  <2>5. \A t \in Sessions \ forgotten : rows'[t] = rows[t]
    BY <2>3, <2>4
  <2>6. \A i \in 1 .. Len(sweeping') : sweeping'[i].session \in forgotten
    BY <1>0, <2>2 DEF FinalInv
  <2>7. \A i \in 1 .. Len(todo) : todo[i].session \in Sessions
    BY <1>0, SummariesNameSessions DEF MemoryInv
  <2> QED
    BY <1>0, <2>1, <2>3, <2>5, <2>6, <2>7 DEF FinalInv
<1>4. CASE Sweep
  <2>1. PICK n \in 1 .. Len(analyzer.order) :
            /\ sweeping' = [i \in 1 .. n |-> SummaryOf(analyzer, Idle(analyzer, n)[i])]
            /\ analyzer' = SweepIdle(analyzer, n)
            /\ forgotten' = forgotten \cup ToSet(Idle(analyzer, n))
    BY <1>4 DEF Sweep
  <2>2. analyzer'.closed = analyzer.closed /\ Len(Idle(analyzer, n)) = n
        /\ Lists(Idle(analyzer, n), ToSet(Idle(analyzer, n))) /\ n \in Nat
    <3>1. Memory(analyzer) /\ Len(analyzer.order) \in Nat
      BY <1>0, ToSetIsElements DEF MemoryInv, Memory, Shape, Lists
    <3> QED
      BY <2>1, <3>1, SweepFits
  <2>3. UNCHANGED <<rows, todo>>
    BY <1>4 DEF Sweep, tableVars, collectorVars
  <2>4. Len(sweeping') = n
    BY <2>1, <2>2
  <2>5. ASSUME NEW i \in 1 .. n PROVE sweeping'[i].session \in forgotten'
    <3>1. Idle(analyzer, n)[i] \in ToSet(Idle(analyzer, n))
      BY <2>2, ToSetIsElements DEF Lists
    <3> QED
      BY <2>1, <3>1 DEF SummaryOf
  <2> QED
    BY <1>0, <2>1, <2>2, <2>3, <2>4, <2>5 DEF FinalInv
<1>5. CASE FalcoMark
  <2>1. UNCHANGED <<analyzer, forgotten, todo, sweeping>>
        /\ rows' \in {rows, [rows EXCEPT ![falco.session].falco = @ + 1]}
    BY <1>5 DEF FalcoMark, memoryVars, collectorVars
  <2>2. /\ rows' \in [Sessions -> [count : Nat, falco : Nat]]
        /\ \A t \in Sessions : rows'[t].count = rows[t].count
    <3>1. falco.session \in Sessions
      BY <1>5 DEF CtiInv, FalcoInv, FalcoMark
    <3>2. rows[falco.session] \in [count : Nat, falco : Nat]
      BY <1>0, <3>1 DEF FinalInv
    <3>3. [rows[falco.session] EXCEPT !.falco = rows[falco.session].falco + 1]
              \in [count : Nat, falco : Nat]
      BY <3>2
    <3>4. CASE rows' = rows
      BY <1>0, <3>4 DEF FinalInv
    <3>5. CASE rows' = [rows EXCEPT ![falco.session] =
                            [rows[falco.session] EXCEPT !.falco = rows[falco.session].falco + 1]]
      <4> DEFINE r == [rows[falco.session] EXCEPT !.falco = rows[falco.session].falco + 1]
      <4>1. r \in [count : Nat, falco : Nat] /\ r.count = rows[falco.session].count
        BY <3>2
      <4>2. rows' = [rows EXCEPT ![falco.session] = r]
        BY <3>5
      <4> HIDE DEF r
      <4> QED
        BY <1>0, <3>1, <4>1, <4>2 DEF FinalInv
    <3> QED
      BY <2>1, <3>4, <3>5
  <2>3. \A i \in 1 .. Len(todo) : todo[i].session \in Sessions
    BY <1>0, SummariesNameSessions DEF MemoryInv
  <2> QED
    BY <1>0, <2>1, <2>2, <2>3 DEF FinalInv
<1>6. CASE Restart
  <2>1. forgotten' = Sessions /\ todo' = << >> /\ sweeping' = << >> /\ rows' = rows
    BY <1>6 DEF Restart, tableVars
  <2> QED
    BY <1>0, <2>1, NoSummaries DEF FinalInv
<1>7. CASE \/ Fetch \/ Reject \/ HandBack \/ Finish \/ PublishAlert \/ Insert \/ Republish
           \/ FalcoCorrelate \/ FalcoStore \/ FalcoInject
           \/ (\E e \in Events : AckWait(e)) \/ (\E a \in FalcoAlerts : FalcoAckWait(a))
           \/ UNCHANGED vars
  <2>1. UNCHANGED <<rows, analyzer, forgotten, todo, sweeping>>
    BY <1>7 DEF Fetch, Reject, HandBack, Finish, PublishAlert, Insert, Republish, FalcoCorrelate, FalcoStore,
                FalcoInject, AckWait, FalcoAckWait, memoryVars, collectorVars, tableVars, vars
  <2> QED
    BY <1>0, <2>1 DEF FinalInv
<1> QED
  BY <1>1, <1>2, <1>3, <1>4, <1>5, <1>6, <1>7 DEF Next, CollectorStep, FalcoStep

-----------------------------------------------------------------------------
(* Every step keeps the part of the escapes.                                  *)
LEMMA FalcoMarks ==
    ASSUME CtiInv, FalcoMark
    PROVE  /\ falco.pc = "mark" /\ falco.session \in Sessions
           /\ \A s \in Sessions \ {falco.session} : rows'[s].falco = rows[s].falco
           /\ rows'[falco.session].falco \in {rows[falco.session].falco, rows[falco.session].falco + 1}
           /\ \A s \in Sessions : rows'[s].count = rows[s].count
<1>1. falco.pc = "mark" /\ falco.session \in Sessions /\ rows \in [Sessions -> [count : Nat, falco : Nat]]
  BY DEF CtiInv, FalcoInv, FalcoMark, FinalInv
<1>2. rows' \in {rows, [rows EXCEPT ![falco.session].falco = @ + 1]}
  BY DEF FalcoMark
<1> QED
  BY <1>1, <1>2

\* Nothing else changes the count of escapes on a row.
LEMMA RowsKeepEscapes ==
    ASSUME CtiInv, [Next]_vars, ~ FalcoMark
    PROVE  \A s \in Sessions : rows'[s].falco = rows[s].falco
<1>0. rows \in [Sessions -> [count : Nat, falco : Nat]]
  BY DEF CtiInv, FinalInv
<1>1. CASE WriteSummary
  <2>1. todo \in Seq(Summary) /\ todo # << >> /\ TryWriteRow(Head(todo))
    BY <1>1 DEF CtiInv, MemoryInv, WriteSummary
  <2> QED
    BY <1>0, <2>1, HeadSummary, RowWritten
<1>2. CASE WriteSwept
  <2>1. sweeping \in Seq(Summary) /\ sweeping # << >> /\ TryWriteRow(Head(sweeping))
    BY <1>2 DEF CtiInv, MemoryInv, WriteSwept
  <2> QED
    BY <1>0, <2>1, HeadSummary, RowWritten
<1>3. CASE ~ (WriteSummary \/ WriteSwept)
  <2>1. rows' = rows
    BY <1>3 DEF Next, CollectorStep, FalcoStep, Fetch, Reject, HandBack, Analyse, PublishAlert, Insert, Republish,
                Finish, Sweep, FalcoCorrelate, FalcoStore, FalcoInject, AckWait, FalcoAckWait, Restart,
                tableVars, vars
  <2> QED
    BY <2>1
<1> QED
  BY <1>1, <1>2, <1>3

LEMMA FalcoKept ==
    ASSUME CtiInv, [Next]_vars
    PROVE  FalcoInv'
<1>0. FalcoInv /\ \A s \in Sessions : rows[s].falco \in Nat /\ falcoRows[s] \in Nat
  BY DEF CtiInv, FalcoInv
<1>1. CASE FalcoCorrelate
  <2>1. PICK a \in FalcoAlerts : \E s \in {NoSession} \cup
             {t \in Suspects[a] : \E e \in Events \ Ends : SessionOf[e] = t /\ stored[e] > 0} :
                falco' = [pc |-> "store", alert |-> a, session |-> s]
    BY <1>1 DEF FalcoCorrelate
  <2>2. Suspects[a] \subseteq Sessions
    BY PipelineAssumption
  <2>3. PICK s \in Sessions : falco' = [pc |-> "store", alert |-> a, session |-> s]
    BY <2>1, <2>2, ConstantsFit
  <2>4. UNCHANGED <<rows, falcoRows, injected>>
    BY <1>1 DEF FalcoCorrelate, tableVars
  <2> QED
    BY <1>0, <2>3, <2>4 DEF FalcoInv, Marking
<1>2. CASE FalcoStore
  <2>1. /\ falco.pc = "store" /\ falco.session \in Sessions /\ DOMAIN falco = {"pc", "alert", "session"}
        /\ UNCHANGED <<rows, injected>>
    BY <1>0, <1>2 DEF FalcoStore, FalcoInv
  <2>2. CASE falcoRows' = [falcoRows EXCEPT ![falco.session] = @ + 1]
             /\ IF falco.session = NoSession THEN FalcoReturn ELSE FalcoGoto("mark")
    <3>1. /\ falcoRows' \in [Sessions -> Nat] /\ falcoRows'[falco.session] = falcoRows[falco.session] + 1
          /\ \A s \in Sessions \ {falco.session} : falcoRows'[s] = falcoRows[s]
      BY <1>0, <2>1, <2>2 DEF FalcoInv
    <3>2. CASE falco' = FalcoIdle
      BY <1>0, <2>1, <3>1, <3>2 DEF FalcoInv, Marking, FalcoIdle
    <3>3. CASE falco' = [falco EXCEPT !.pc = "mark"]
      <4>1. falco'.pc = "mark" /\ falco'.session = falco.session /\ falco'.alert = falco.alert
            /\ DOMAIN falco' = DOMAIN falco
        BY <2>1, <3>3
      <4>2. ASSUME NEW s \in Sessions
            PROVE  /\ rows[s].falco <= falcoRows'[s] /\ (Marking(s)' => rows[s].falco < falcoRows'[s])
                   /\ s \in injected => falcoRows'[s] > 0
        BY <1>0, <3>1, <4>1 DEF FalcoInv, Marking
      <4>3. falcoRows'[falco.session] > 0
        BY <1>0, <2>1, <3>1
      <4> QED
        BY <1>0, <2>1, <3>1, <4>1, <4>2, <4>3 DEF FalcoInv
    <3> QED
      BY <2>2, <3>2, <3>3 DEF FalcoReturn, FalcoGoto
  <2>3. CASE UNCHANGED falcoRows /\ (FalcoReturn \/ FalcoFail)
    <3>1. falco' = FalcoIdle
      BY <2>3 DEF FalcoReturn, FalcoFail
    <3> QED
      BY <1>0, <2>1, <2>3, <3>1 DEF FalcoInv, Marking, FalcoIdle
  <2> QED
    BY <1>2, <2>2, <2>3 DEF FalcoStore
<1>3. CASE FalcoMark
  <2>1. /\ falco.pc = "mark" /\ falco.session \in Sessions /\ DOMAIN falco = {"pc", "alert", "session"}
        /\ UNCHANGED <<falcoRows, injected>>
    BY <1>0, <1>3 DEF FalcoMark, FalcoInv
  <2>2. /\ \A s \in Sessions \ {falco.session} : rows'[s].falco = rows[s].falco
        /\ rows'[falco.session].falco \in {rows[falco.session].falco, rows[falco.session].falco + 1}
    BY <1>3, FalcoMarks
  <2>3. ~ Marking(falco.session)' /\ \A s \in Sessions : ~ Marking(s)'
    BY <1>3, <2>1 DEF FalcoMark, FalcoGoto, FalcoFail, FalcoIdle, Marking
  <2>4. ASSUME NEW s \in Sessions
        PROVE  rows'[s].falco \in Nat /\ rows'[s].falco <= falcoRows[s]
    <3>1. rows[falco.session].falco < falcoRows[falco.session]
      BY <1>0, <2>1 DEF FalcoInv, Marking
    <3> QED
      BY <1>0, <2>1, <2>2, <3>1 DEF FalcoInv
  <2>5. \/ falco'.pc = "idle"
        \/ falco'.pc = "inject" /\ falco'.session = falco.session /\ falco'.alert = falco.alert
           /\ DOMAIN falco' = DOMAIN falco
    BY <1>3, <2>1 DEF FalcoMark, FalcoGoto, FalcoFail, FalcoIdle
  <2> QED
    BY <1>0, <2>1, <2>3, <2>4, <2>5 DEF FalcoInv
<1>4. CASE FalcoInject
  <2>1. /\ falco.pc = "inject" /\ falco.session \in Sessions /\ falco' = FalcoIdle
        /\ UNCHANGED <<rows, falcoRows>> /\ injected' \in {injected, injected \cup {falco.session}}
    BY <1>0, <1>4 DEF FalcoInject, FalcoInv, FalcoReturn, FalcoFail
  <2> QED
    BY <1>0, <2>1 DEF FalcoInv, Marking, FalcoIdle
<1>5. CASE Restart
  <2>1. falco' = FalcoIdle /\ UNCHANGED <<rows, falcoRows, injected>>
    BY <1>5 DEF Restart, tableVars
  <2> QED
    BY <1>0, <2>1 DEF FalcoInv, Marking, FalcoIdle
<1>6. CASE ~ (FalcoStep \/ Restart)
  <2>1. UNCHANGED <<falco, falcoRows, injected>>
    BY <1>6 DEF Next, CollectorStep, Fetch, Reject, HandBack, Analyse, WriteSummary, PublishAlert, Insert, Republish,
                Finish, Sweep, WriteSwept, AckWait, FalcoAckWait, falcoVars, tableVars, vars
  <2>2. \A s \in Sessions : rows'[s].falco = rows[s].falco
    BY <1>6, RowsKeepEscapes DEF FalcoStep
  <2> QED
    BY <1>0, <2>1, <2>2 DEF FalcoInv, Marking
<1> QED
  BY <1>1, <1>2, <1>3, <1>4, <1>5, <1>6 DEF FalcoStep

-----------------------------------------------------------------------------
(* Every step keeps the part of the alerts' queue and the bound on faults.    *)
LEMMA AlertsKept ==
    ASSUME CtiInv, [Next]_vars
    PROVE  AlertsInv'
<1>0. AlertsInv
  BY DEF CtiInv
<1>1. faults' \in 0 .. MaxFaults
  <2>1. CASE CollectorStep
    <3>1. Fine \/ Fault
      <4>1. CASE Fetch \/ Analyse
        BY <4>1 DEF Fetch, Analyse, Fine
      <4>2. CASE Reject \/ Finish
        BY <4>2 DEF Reject, Finish, Ack
      <4>6. CASE HandBack
        BY <4>6 DEF HandBack, Nak
      <4>3. CASE WriteSummary
        BY <4>3 DEF WriteSummary, TryWriteRow
      <4>4. CASE PublishAlert
        BY <4>4 DEF PublishAlert
      <4>5. CASE Insert \/ Republish
        BY <4>5 DEF Insert, Republish
      <4> QED
        BY <2>1, <4>1, <4>2, <4>3, <4>4, <4>5, <4>6 DEF CollectorStep
    <3> QED
      BY <1>0, <3>1, ConstantsFit DEF AlertsInv, Fault, Fine
  <2>2. CASE FalcoStep
    BY <1>0, <2>2, ConstantsFit DEF AlertsInv, FalcoStep, FalcoCorrelate, FalcoStore, FalcoMark,
       FalcoInject, Fault, Fine
  <2>3. CASE ~ (CollectorStep \/ FalcoStep)
    BY <1>0, <2>3, ConstantsFit DEF AlertsInv, Next, Sweep, WriteSwept, AckWait, FalcoAckWait, Restart,
       TryWriteRow, Fault, Fine, vars
  <2> QED
    BY <2>1, <2>2, <2>3
<1>2. ASSUME falcoQueue' \in [FalcoAlerts -> [state : MessageStates, deliveries : Deliveries]],
             \A a \in FalcoAlerts :
                 falcoQueue'[a].state = "ready" => falcoQueue'[a].deliveries < MaxDeliver
      PROVE  AlertsInv'
  BY <1>1, <1>2 DEF AlertsInv
<1>3. CASE UNCHANGED falcoQueue
  BY <1>0, <1>2, <1>3 DEF AlertsInv
\* An entry of the queue is replaced by one that fits.
<1>4. ASSUME NEW a \in FalcoAlerts, NEW x \in [state : MessageStates, deliveries : Deliveries],
             x.state = "ready" => x.deliveries < MaxDeliver,
             falcoQueue' = [falcoQueue EXCEPT ![a] = x]
      PROVE  AlertsInv'
  BY <1>0, <1>2, <1>4 DEF AlertsInv
<1>5. \A d \in Deliveries : /\ AfterRequeue(d) \in MessageStates
                            /\ AfterRequeue(d) = "ready" => d < MaxDeliver
  BY ConstantsFit DEF Deliveries, AfterRequeue, MessageStates
<1>6. CASE FalcoCorrelate
  <2>1. PICK a \in FalcoAlerts :
            /\ falcoQueue[a].state = "ready"
            /\ falcoQueue' = [falcoQueue EXCEPT ![a] = [state |-> "pending", deliveries |-> @.deliveries + 1]]
    BY <1>6 DEF FalcoCorrelate
  <2>2. falcoQueue[a].deliveries + 1 \in Deliveries
    BY <1>0, <2>1, ConstantsFit DEF AlertsInv, Deliveries
  <2> QED
    BY <1>4, <2>1, <2>2 DEF MessageStates
<1>7. CASE FalcoStore \/ FalcoMark \/ FalcoInject
  <2> DEFINE a == falco.alert
  <2>1. a \in FalcoAlerts
    BY <1>7 DEF FalcoStore, FalcoMark, FalcoInject, CtiInv, FalcoInv
  <2>2. falcoQueue[a].state \in MessageStates /\ falcoQueue[a].deliveries \in Deliveries
        /\ (falcoQueue[a].state = "ready" => falcoQueue[a].deliveries < MaxDeliver)
        /\ DOMAIN falcoQueue[a] = {"state", "deliveries"}
    BY <1>0, <2>1 DEF AlertsInv
  <2>3. CASE FalcoReturn
    <3> DEFINE x == [falcoQueue[a] EXCEPT !.state =
                        IF falcoQueue[a].state = "exhausted" THEN falcoQueue[a].state ELSE "acked"]
    <3>1. falcoQueue' = [falcoQueue EXCEPT ![a] = x]
      BY <2>3 DEF FalcoReturn
    <3>2. x \in [state : MessageStates, deliveries : Deliveries] /\ x.state # "ready"
      BY <1>0, <2>1, <2>2 DEF AlertsInv, MessageStates
    <3> QED
      BY <1>4, <2>1, <3>1, <3>2
  <2>4. CASE FalcoFail
    <3> DEFINE x == [falcoQueue[a] EXCEPT !.state =
                        IF falcoQueue[a].state = "pending" THEN AfterRequeue(falcoQueue[a].deliveries)
                                                           ELSE falcoQueue[a].state]
    <3>1. falcoQueue' = [falcoQueue EXCEPT ![a] = x]
      BY <2>4 DEF FalcoFail
    <3>2. /\ x.deliveries = falcoQueue[a].deliveries
          /\ x.state = IF falcoQueue[a].state = "pending" THEN AfterRequeue(falcoQueue[a].deliveries)
                                                          ELSE falcoQueue[a].state
      BY <2>2
    <3>3. x \in [state : MessageStates, deliveries : Deliveries]
      BY <1>0, <1>5, <2>1, <2>2 DEF AlertsInv
    <3> QED
      BY <1>4, <1>5, <2>1, <2>2, <3>1, <3>2, <3>3
  <2> QED
    BY <1>3, <1>7, <2>3, <2>4 DEF FalcoStore, FalcoMark, FalcoInject, FalcoGoto
<1>8. CASE \E a \in FalcoAlerts : FalcoAckWait(a)
  <2>1. PICK a \in FalcoAlerts : FalcoAckWait(a)
    BY <1>8
  <2> DEFINE x == [falcoQueue[a] EXCEPT !.state = AfterRequeue(falcoQueue[a].deliveries)]
  <2>2. falcoQueue' = [falcoQueue EXCEPT ![a] = x]
    BY <2>1 DEF FalcoAckWait
  <2>3. falcoQueue[a].deliveries \in Deliveries /\ DOMAIN falcoQueue[a] = {"state", "deliveries"}
    BY <1>0 DEF AlertsInv
  <2>4. x \in [state : MessageStates, deliveries : Deliveries]
    BY <1>0, <1>5, <2>3 DEF AlertsInv
  <2>5. x.state = AfterRequeue(falcoQueue[a].deliveries) /\ x.deliveries = falcoQueue[a].deliveries
    BY <2>3
  <2> QED
    BY <1>4, <1>5, <2>2, <2>3, <2>4, <2>5
<1>9. CASE ~ (FalcoStep \/ \E a \in FalcoAlerts : FalcoAckWait(a))
  <2>1. UNCHANGED falcoQueue
    BY <1>9 DEF Next, CollectorStep, Fetch, Reject, HandBack, Analyse, WriteSummary, PublishAlert, Insert, Republish,
                Finish, Sweep, WriteSwept, AckWait, Restart, falcoVars, vars
  <2> QED
    BY <1>3, <2>1
<1> QED
  BY <1>6, <1>7, <1>8, <1>9 DEF FalcoStep

-----------------------------------------------------------------------------
(* The invariant holds in every reachable state.                              *)
LEMMA InitFits ==
    ASSUME Init
    PROVE  CtiInv
<1>1. << >> \in Seq(Events) /\ << >> \in Seq(Summary) /\ Len(<< >>) = 0
  OBVIOUS
<1>2. inbox = << >> /\ todo = << >> /\ sweeping = << >> /\ stage = "next" /\ alerts = {}
  BY DEF Init
<1>3. 1 .. 0 = {}
  OBVIOUS
<1>4. QueueInv
  <2>1. /\ broker = [e \in Events |-> "ready"] /\ deliveries = [e \in Events |-> 0]
    BY DEF Init
  <2>2. Distinct(inbox)
    BY <1>1, <1>2, <1>3 DEF Distinct
  <2> QED
    BY <1>1, <1>2, <2>1, <2>2, ConstantsFit DEF QueueInv, MessageStates, Deliveries, Stages
<1>5. StoreInv
  <2>1. /\ stored = [e \in Events |-> 0] /\ storeFailed = {} /\ enriched = {}
        /\ broker = [e \in Events |-> "ready"] /\ deliveries = [e \in Events |-> 0]
    BY DEF Init
  <2>2. \A e \in Events : ~ Coming(e)
    BY <1>1, <1>2, <1>3 DEF Coming
  <2> QED
    BY <1>2, <2>1, <2>2, ConstantsFit DEF StoreInv, Inserted, Touched
<1>6. MemoryInv
  <2>1. analyzer = NewAnalyzer /\ forgotten = {}
    BY DEF Init
  <2> QED
    BY <1>1, <1>2, <2>1, NewAnalyzerFits DEF MemoryInv
<1>7. RaisedInv
  <2>1. published = [p \in Sessions \X AlertKeys |-> 0]
    BY DEF Init
  <2>2. published \in [Sessions \X AlertKeys -> Nat]
        /\ \A s \in Sessions, k \in AlertKeys : published[<<s, k>>] = 0
    BY <2>1
  <2> QED
    BY <1>2, <2>2 DEF RaisedInv, Pending
<1>8. FinalInv
  <2>1. rows = [s \in Sessions |-> [count |-> 0, falco |-> 0]]
    BY DEF Init
  <2> QED
    BY <1>1, <1>2, <1>3, <2>1 DEF FinalInv
<1>9. FalcoInv
  <2>1. /\ rows = [s \in Sessions |-> [count |-> 0, falco |-> 0]]
        /\ falcoRows = [s \in Sessions |-> 0] /\ injected = {} /\ falco = FalcoIdle
    BY DEF Init
  <2> QED
    BY <2>1 DEF FalcoInv, Marking, FalcoIdle
<1>10. AlertsInv
  <2>1. /\ falcoQueue = [a \in FalcoAlerts |-> [state |-> "ready", deliveries |-> 0]] /\ faults = 0
    BY DEF Init
  <2> QED
    BY <2>1, ConstantsFit DEF AlertsInv, MessageStates, Deliveries
<1>11. OpenInv
  BY <1>2 DEF OpenInv
<1> QED
  BY <1>4, <1>5, <1>6, <1>7, <1>8, <1>9, <1>10, <1>11 DEF CtiInv

\* Every reachable state of the pipeline has the eight parts of the invariant.
THEOREM CtiAlways == Spec => []CtiInv
<1>1. CtiInv /\ [Next]_vars => CtiInv'
  BY QueueKept, StoreKept, MemoryKept, RaisedKept, OpenKept, FinalKept, FalcoKept, AlertsKept DEF CtiInv
<1> QED
  BY InitFits, <1>1, PTL DEF Spec

-----------------------------------------------------------------------------
\* The variables keep their types, and the memory of the analyzer (its recency
\* order, caps and closed sessions) is consistent at every await of the tasks.
THEOREM TypeCorrect == Spec => []TypeOK
<1>1. ASSUME CtiInv PROVE TypeOK
  <2>1. /\ broker \in [Events -> MessageStates] /\ deliveries \in [Events -> Deliveries]
        /\ inbox \in Seq(Events) /\ Len(inbox) <= BatchSize
        /\ stage \in {"next", "summary", "alerts", "insert", "publish", "ack"}
        /\ stage # "next" => inbox # << >>
    BY <1>1 DEF CtiInv, QueueInv, Stages
  <2>2. /\ stored \in [Events -> Deliveries] /\ storeFailed \subseteq Events /\ enriched \subseteq Events
    <3>1. /\ stored \in [Events -> Nat] /\ storeFailed \subseteq Events /\ enriched \subseteq Events
          /\ \A e \in Events : stored[e] <= deliveries[e]
      BY <1>1 DEF CtiInv, StoreInv
    <3>2. \A e \in Events : stored[e] \in Deliveries
      BY <2>1, <3>1, ConstantsFit DEF Deliveries
    <3> QED
      BY <3>1, <3>2
  <2>3. alerts \subseteq AlertKeys /\ forgotten \subseteq Sessions /\ TrackingOK(analyzer)
    BY <1>1, MemoryTracks DEF CtiInv, MemoryInv
  <2>4. /\ published \in [Sessions \X AlertKeys -> Nat]
        /\ rows \in [Sessions -> [count : Nat, falco : Nat]]
    BY <1>1 DEF CtiInv, RaisedInv, FinalInv
  <2>5. /\ falcoQueue \in [FalcoAlerts -> [state : MessageStates, deliveries : Deliveries]]
        /\ falco.pc \in {"idle", "store", "mark", "inject"}
        /\ falcoRows \in [Sessions -> Nat] /\ injected \subseteq Sessions
        /\ faults \in 0 .. MaxFaults
    BY <1>1 DEF CtiInv, FalcoInv, AlertsInv
  <2> QED
    BY <2>1, <2>2, <2>3, <2>4, <2>5 DEF TypeOK
<1> QED
  BY CtiAlways, <1>1, PTL

\* No event leaves the queue or goes on to the dashboards before its insert was
\* attempted, for any batches, faults, redeliveries and restarts.
THEOREM NothingSlips == Spec => []NothingSlipsBy
<1>1. CtiInv => NothingSlipsBy
  BY DEF CtiInv, StoreInv, Touched, NothingSlipsBy
<1> QED
  BY CtiAlways, <1>1, PTL

\* One row for an event with an identity of its own, and one alert of a kind for
\* a session that stayed in memory until its end.
THEOREM OnceAlways == Spec => []OnceEach
<1>1. CtiInv => OnceEach
  BY DEF CtiInv, StoreInv, RaisedInv, OnceEach
<1> QED
  BY CtiAlways, <1>1, PTL

\* No escape is counted or injected that no stored Falco alert stands behind.
THEOREM EscapesBacked == Spec => []EscapeIsBacked
<1>1. CtiInv => EscapeIsBacked
  BY DEF CtiInv, FalcoInv, EscapeIsBacked
<1> QED
  BY CtiAlways, <1>1, PTL

\* No step of either writer of engage_outcomes takes an escape attempt back.
THEOREM EscapesStick == Spec => EscapeSticks
<1>1. ASSUME CtiInv, [Next]_vars
      PROVE  \A s \in Sessions : rows'[s].falco >= rows[s].falco
  <2>1. \A s \in Sessions : rows[s].falco \in Nat
    BY <1>1 DEF CtiInv, FalcoInv
  <2>2. CASE FalcoMark
    BY <1>1, <2>1, <2>2, FalcoMarks
  <2>3. CASE ~ FalcoMark
    BY <1>1, <2>1, <2>3, RowsKeepEscapes
  <2> QED
    BY <2>2, <2>3
<1> QED
  BY CtiAlways, <1>1, PTL DEF Spec, EscapeSticks

\* While the analyzer knows that a session is closed and never dropped it, its row
\* is not replaced by a summary that saw less, and no alert is raised for it.
THEOREM RowsFinal == Spec => ClosedRowIsFinal
<1>1. ASSUME CtiInv, [Next]_vars, NEW s \in analyzer.closed \ forgotten, rows[s].count > 0
      PROVE  rows'[s].count = rows[s].count
  <2>1. /\ s \in Sessions /\ todo \in Seq(Summary) /\ sweeping \in Seq(Summary)
    BY <1>1 DEF CtiInv, MemoryInv, Memory, Shape
  <2>2. FinalInv
    BY <1>1 DEF CtiInv
  <2>3. CASE WriteSummary
    <3>1. todo # << >> /\ TryWriteRow(Head(todo))
      BY <1>1, <2>3 DEF CtiInv, MemoryInv, WriteSummary
    <3>2. Head(todo) \in Summary /\ Head(todo) = todo[1] /\ 1 \in 1 .. Len(todo)
      BY <2>1, <3>1, HeadSummary
    <3>3. Head(todo).session # s
      BY <1>1, <2>2, <3>2 DEF FinalInv
    <3> QED
      BY <2>1, <2>2, <3>1, <3>2, <3>3, RowWritten DEF FinalInv
  <2>4. CASE WriteSwept
    <3>1. sweeping # << >> /\ TryWriteRow(Head(sweeping))
      BY <2>4 DEF WriteSwept
    <3>2. Head(sweeping) \in Summary /\ Head(sweeping) = sweeping[1] /\ 1 \in 1 .. Len(sweeping)
      BY <2>1, <3>1, HeadSummary
    <3>3. Head(sweeping).session # s
      BY <1>1, <2>2, <3>2 DEF FinalInv
    <3> QED
      BY <2>1, <2>2, <3>1, <3>2, <3>3, RowWritten DEF FinalInv
  <2>5. CASE FalcoMark
    BY <1>1, <2>1, <2>5, FalcoMarks
  <2>6. CASE ~ (WriteSummary \/ WriteSwept \/ FalcoMark)
    <3>1. rows' = rows
      BY <1>1, <2>6 DEF Next, CollectorStep, FalcoStep, Fetch, Reject, HandBack, Analyse, PublishAlert, Insert,
                  Republish, Finish, Sweep, FalcoCorrelate, FalcoStore, FalcoInject, AckWait,
                  FalcoAckWait, Restart, tableVars, vars
    <3> QED
      BY <3>1
  <2> QED
    BY <2>3, <2>4, <2>5, <2>6
<1>2. ASSUME CtiInv, [Next]_vars, NEW s \in analyzer.closed \ forgotten, NEW k \in AlertKeys
      PROVE  published'[s, k] = published[s, k]
  <2>1. OpenInv /\ RaisedInv /\ MemoryInv /\ s \in Sessions
    BY <1>2 DEF CtiInv, MemoryInv, Memory, Shape
  <2>2. CASE PublishAlert
    <3>1. SessionOf[Current] # s
      BY <1>2, <2>1, <2>2 DEF OpenInv, PublishAlert
    <3>2. \/ published' = published
          \/ \E j \in alerts : published' = [published EXCEPT ![<<SessionOf[Current], j>>] = @ + 1]
      BY <2>2 DEF PublishAlert
    <3> QED
      BY <2>1, <3>1, <3>2 DEF RaisedInv
  <2>3. CASE ~ PublishAlert
    <3>1. published' = published
      BY <1>2, <2>3 DEF Next, CollectorStep, FalcoStep, Fetch, Reject, HandBack, Analyse, WriteSummary,
                  Insert, Republish, Finish, Sweep, WriteSwept, FalcoCorrelate, FalcoStore, FalcoMark,
                  FalcoInject, AckWait, FalcoAckWait, Restart, busVars, vars
    <3> QED
      BY <3>1
  <2> QED
    BY <2>2, <2>3
<1>3. CtiInv /\ [Next]_vars => \A s \in analyzer.closed \ forgotten :
                                   /\ rows[s].count > 0 => rows'[s].count = rows[s].count
                                   /\ \A k \in AlertKeys : published'[s, k] = published[s, k]
  BY <1>1, <1>2
<1> QED
  BY CtiAlways, <1>3, PTL DEF Spec, ClosedRowIsFinal
=============================================================================
