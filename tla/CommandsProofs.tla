---------------------------- MODULE CommandsProofs ----------------------------
(* The shell of the SSH decoy and the answers of the model behind it          *)
(* (command_router.py): from every state earlier lines can leave a session    *)
(* in, a line takes it where a shell goes and a filter prints what its        *)
(* program prints, where the decoy is not listed to differ; a session is      *)
(* shown the answer that was made for its own command.                        *)
EXTENDS AdaptiveTier, ShellLines,
        SequenceTheorems, FiniteSetTheorems, WellFoundedInduction, TLAPS

-----------------------------------------------------------------------------
(* A cache whose keys differ, with texts that were made for their keys.  The  *)
(* texts made so far are m.                                                   *)
Belongs(m, text, k) == text \in NotFound .. Len(m) /\ (text > 0 => m[text] = k)
Entry == [key : Cacheable, text : NotFound .. MaxTexts]
Distinct(c) == \A i, j \in 1 .. Len(c) : c[i].key = c[j].key => i = j
Sound(c, m, cap) ==
    /\ c \in Seq(Entry) /\ Len(c) <= cap /\ Distinct(c)
    /\ \A i \in 1 .. Len(c) : Belongs(m, c[i].text, c[i].key)

LEMMA CapsAreNaturals ==
    DecoyCap \in Nat \ {0} /\ GatewayCap \in Nat \ {0} /\ MaxTexts \in Nat /\ Cacheable \subseteq Keys
BY AdaptiveAssumption

LEMMA Elements ==
    ASSUME NEW c \in Seq(Entry)
    PROVE  /\ Len(c) \in Nat /\ DOMAIN c = 1 .. Len(c)
           /\ \A i \in 1 .. Len(c) : c[i] \in Entry
           /\ KeysOf(c) = {c[i].key : i \in 1 .. Len(c)} /\ KeysOf(c) \subseteq Cacheable
<1>1. Len(c) \in Nat /\ DOMAIN c = 1 .. Len(c)
  OBVIOUS
<1>2. \A i \in 1 .. Len(c) : c[i] \in Entry
  BY <1>1, ElementOfSeq
<1> QED
  BY <1>1, <1>2 DEF KeysOf, Entry

\* Where keys differ there are as many as there are entries.
LEMMA KeysAreCounted ==
    ASSUME NEW c \in Seq(Entry), Distinct(c)
    PROVE  NoKeyTwice(c)
<1> DEFINE f == [i \in 1 .. Len(c) |-> c[i].key]
<1>1. Len(c) \in Nat /\ KeysOf(c) = {c[i].key : i \in 1 .. Len(c)}
  BY Elements
<1>2. f \in Bijection(1 .. Len(c), KeysOf(c))
  BY <1>1 DEF Distinct, Bijection, Injection, Surjection, IsInjective
<1>3. ExistsBijection(1 .. Len(c), KeysOf(c))
  BY <1>2 DEF ExistsBijection
<1> QED
  BY <1>1, <1>3, FS_CountingElements, FS_NatBijection DEF NoKeyTwice

LEMMA Found ==
    ASSUME NEW c \in Seq(Entry), NEW k \in KeysOf(c)
    PROVE  Place(c, k) \in 1 .. Len(c) /\ c[Place(c, k)].key = k
<1>1. \E i \in DOMAIN c : c[i].key = k
  BY DEF KeysOf
<1>2. Place(c, k) \in DOMAIN c /\ c[Place(c, k)].key = k
  BY <1>1 DEF Place
<1> QED
  BY <1>2, Elements

\* What is left when an entry is taken out.
LEMMA RemovedAt ==
    ASSUME NEW c \in Seq(Entry), NEW p \in 1 .. Len(c)
    PROVE  /\ RemoveAt(c, p) \in Seq(Entry) /\ Len(RemoveAt(c, p)) = Len(c) - 1
           /\ \A i \in 1 .. Len(c) - 1 : RemoveAt(c, p)[i] = IF i < p THEN c[i] ELSE c[i + 1]
<1> DEFINE m == Len(c)
           a == SubSeq(c, 1, p - 1)
           b == SubSeq(c, p + 1, m)
           r == a \o b
<1>1. m \in Nat /\ p \in 1 .. m
  OBVIOUS
<1>2. /\ a \in Seq(Entry) /\ Len(a) = p - 1 /\ \A i \in 1 .. p - 1 : a[i] = c[i]
  <2>1. \A i \in 1 .. p - 1 : c[i] \in Entry
    BY <1>1, Elements
  <2>2. /\ a \in Seq(Entry) /\ Len(a) = IF 1 <= p - 1 THEN p - 1 - 1 + 1 ELSE 0
        /\ \A i \in 1 .. p - 1 - 1 + 1 : a[i] = c[1 + i - 1]
    BY <1>1, <2>1, SubSeqProperties
  <2>3. p - 1 - 1 + 1 = p - 1 /\ \A i \in 1 .. p - 1 : 1 + i - 1 = i
    BY <1>1
  <2> QED
    BY <1>1, <2>2, <2>3
<1>3. b \in Seq(Entry) /\ Len(b) = m - p /\ \A i \in 1 .. m - p : b[i] = c[p + i]
  <2>1. \A i \in p + 1 .. m : c[i] \in Entry
    BY <1>1, Elements
  <2>2. /\ b \in Seq(Entry) /\ Len(b) = IF p + 1 <= m THEN m - (p + 1) + 1 ELSE 0
        /\ \A i \in 1 .. m - (p + 1) + 1 : b[i] = c[p + 1 + i - 1]
    BY <1>1, <2>1, SubSeqProperties
  <2>3. m - (p + 1) + 1 = m - p /\ \A i \in 1 .. m - p : p + 1 + i - 1 = p + i
    BY <1>1
  <2> QED
    BY <1>1, <2>2, <2>3
<1> HIDE DEF a, b
<1>4. /\ r \in Seq(Entry) /\ Len(r) = Len(a) + Len(b)
      /\ \A i \in 1 .. Len(a) + Len(b) : r[i] = IF i <= Len(a) THEN a[i] ELSE b[i - Len(a)]
  BY <1>2, <1>3, ConcatProperties
<1>5. Len(r) = m - 1
  BY <1>1, <1>2, <1>3, <1>4
<1> HIDE DEF r, m
<1>6. ASSUME NEW i \in 1 .. m - 1 PROVE r[i] = IF i < p THEN c[i] ELSE c[i + 1]
  <2>1. CASE i < p
    BY <1>1, <1>2, <1>3, <1>4, <2>1
  <2>2. CASE i >= p
    <3>1. i - (p - 1) \in 1 .. m - p /\ i \in 1 .. Len(a) + Len(b) /\ ~ (i <= Len(a))
      BY <1>1, <1>2, <1>3, <2>2
    <3>2. r[i] = b[i - (p - 1)]
      BY <1>2, <1>4, <3>1
    <3>3. b[i - (p - 1)] = c[p + (i - (p - 1))] /\ p + (i - (p - 1)) = i + 1
      BY <1>1, <1>3, <3>1
    <3> QED
      BY <1>1, <2>2, <3>2, <3>3
  <2>3. i < p \/ i >= p
    BY <1>1
  <2> QED
    BY <2>1, <2>2, <2>3
<1>7. RemoveAt(c, p) = r
  BY DEF RemoveAt, r, a, b, m
<1> QED
  BY <1>4, <1>5, <1>6, <1>7 DEF m

LEMMA Removed ==
    ASSUME NEW c, NEW m, NEW cap \in Nat, Sound(c, m, cap), NEW k \in KeysOf(c)
    PROVE  LET r == RemoveAt(c, Place(c, k))
           IN  /\ Sound(r, m, cap) /\ Len(r) = Len(c) - 1 /\ KeysOf(r) = KeysOf(c) \ {k}
               /\ c[Place(c, k)] \in Entry /\ c[Place(c, k)].key = k
               /\ Belongs(m, Lookup(c, k), k) /\ Lookup(c, k) \in NotFound .. MaxTexts
<1> DEFINE p == Place(c, k)
           r == RemoveAt(c, p)
<1>1. c \in Seq(Entry) /\ Distinct(c) /\ Len(c) <= cap
  BY DEF Sound
<1>2. p \in 1 .. Len(c) /\ c[p].key = k /\ Len(c) \in Nat
  BY <1>1, Found
<1>3. /\ r \in Seq(Entry) /\ Len(r) = Len(c) - 1
      /\ \A i \in 1 .. Len(c) - 1 : r[i] = IF i < p THEN c[i] ELSE c[i + 1]
  BY <1>1, <1>2, RemovedAt
<1> HIDE DEF r, p
<1>4. \A i \in 1 .. Len(r) : \E j \in 1 .. Len(c) : r[i] = c[j] /\ j # p
  <2> SUFFICES ASSUME NEW i \in 1 .. Len(r) PROVE \E j \in 1 .. Len(c) : r[i] = c[j] /\ j # p
    OBVIOUS
  <2>1. CASE i < p
    BY <1>2, <1>3, <2>1
  <2>2. CASE ~ (i < p)
    <3>1. i + 1 \in 1 .. Len(c) /\ i + 1 # p
      BY <1>2, <1>3, <2>2
    <3> QED
      BY <1>3, <2>2, <3>1
  <2> QED
    BY <2>1, <2>2
<1>5. Distinct(r)
  <2> SUFFICES ASSUME NEW i \in 1 .. Len(r), NEW j \in 1 .. Len(r), r[i].key = r[j].key PROVE i = j
    BY DEF Distinct
  <2> DEFINE at(n) == IF n < p THEN n ELSE n + 1
  <2>1. at(i) \in 1 .. Len(c) /\ at(j) \in 1 .. Len(c)
    BY <1>2, <1>3
  <2>2. r[i] = c[at(i)] /\ r[j] = c[at(j)]
    BY <1>3
  <2>3. at(i) = at(j)
    BY <1>1, <2>1, <2>2 DEF Distinct
  <2> QED
    BY <1>2, <1>3, <2>3
<1>6. KeysOf(r) = KeysOf(c) \ {k}
  <2>1. KeysOf(r) = {r[i].key : i \in 1 .. Len(r)} /\ KeysOf(c) = {c[i].key : i \in 1 .. Len(c)}
    BY <1>1, <1>3, Elements
  <2>2. ASSUME NEW i \in 1 .. Len(r) PROVE r[i].key \in KeysOf(c) \ {k}
    <3>1. PICK j \in 1 .. Len(c) : r[i] = c[j] /\ j # p
      BY <1>4
    <3>2. c[j].key # c[p].key
      BY <1>1, <1>2, <3>1 DEF Distinct
    <3>3. c[j].key \in KeysOf(c)
      BY <2>1
    <3> QED
      BY <1>2, <3>1, <3>2, <3>3
  <2>3. ASSUME NEW j \in 1 .. Len(c), c[j].key # k PROVE c[j].key \in KeysOf(r)
    <3>1. CASE j < p
      BY <1>2, <1>3, <2>1, <3>1
    <3>2. CASE j > p
      <4>1. j - 1 \in 1 .. Len(c) - 1 /\ ~ (j - 1 < p) /\ (j - 1) + 1 = j
        BY <1>2, <3>2
      <4>2. r[j - 1] = c[j]
        BY <1>3, <4>1
      <4> QED
        BY <1>3, <2>1, <4>1, <4>2
    <3>3. j < p \/ j > p
      BY <1>2, <2>3
    <3> QED
      BY <3>1, <3>2, <3>3
  <2> QED
    BY <2>1, <2>2, <2>3
<1>7. Sound(r, m, cap)
  BY <1>1, <1>2, <1>3, <1>4, <1>5 DEF Sound
<1>8. c[p] \in Entry /\ Belongs(m, c[p].text, c[p].key)
  BY <1>1, <1>2, Elements DEF Sound
<1> QED
  BY <1>2, <1>3, <1>6, <1>7, <1>8 DEF p, r, Lookup, Entry

LEMMA Appended ==
    ASSUME NEW c, NEW m, NEW cap \in Nat, Sound(c, m, cap),
           NEW e \in Entry, e.key \notin KeysOf(c), Belongs(m, e.text, e.key)
    PROVE  /\ Sound(Append(c, e), m, cap + 1) /\ Len(Append(c, e)) = Len(c) + 1
           /\ KeysOf(Append(c, e)) = KeysOf(c) \cup {e.key}
<1> DEFINE r == Append(c, e)
<1>1. c \in Seq(Entry) /\ Distinct(c) /\ Len(c) <= cap /\ Len(c) \in Nat
  BY Elements DEF Sound
<1>2. /\ r \in Seq(Entry) /\ Len(r) = Len(c) + 1
      /\ \A i \in 1 .. Len(c) : r[i] = c[i]
      /\ r[Len(c) + 1] = e
  BY <1>1, AppendProperties
<1> HIDE DEF r
<1>3. KeysOf(c) = {c[i].key : i \in 1 .. Len(c)} /\ KeysOf(r) = {r[i].key : i \in 1 .. Len(r)}
  BY <1>1, <1>2, Elements
<1>4. Distinct(r)
  BY SMTT(30), <1>1, <1>2, <1>3 DEF Distinct
<1>5. KeysOf(r) = KeysOf(c) \cup {e.key}
  BY <1>1, <1>2, <1>3
<1>6. \A i \in 1 .. Len(r) : Belongs(m, r[i].text, r[i].key)
  BY <1>1, <1>2 DEF Sound
<1>7. Len(r) <= cap + 1
  BY <1>1, <1>2
<1> QED
  BY <1>2, <1>4, <1>5, <1>6, <1>7 DEF r, Sound

LEMMA EvictedFits ==
    ASSUME NEW c, NEW m, NEW cap \in Nat, Sound(c, m, cap + 1)
    PROVE  /\ Sound(Evicted(c, cap), m, cap)
           /\ Len(c) > cap => Len(Evicted(c, cap)) = cap
           /\ Len(c) <= cap => Evicted(c, cap) = c
<1>1. c \in Seq(Entry) /\ Distinct(c) /\ Len(c) <= cap + 1 /\ Len(c) \in Nat
  BY Elements DEF Sound
<1>2. CASE Len(c) > cap
  <2> DEFINE r == Tail(c)
  <2>1. c # << >> /\ Len(c) = cap + 1
    BY <1>1, <1>2
  <2>2. /\ r \in Seq(Entry) /\ Len(r) = Len(c) - 1
        /\ \A i \in 1 .. Len(r) : r[i] = c[i + 1]
    BY <1>1, <2>1, HeadTailProperties
  <2> HIDE DEF r
  <2>3. \A i \in 1 .. Len(r) : i + 1 \in 1 .. Len(c)
    BY <1>1, <2>2
  <2>4. Distinct(r) /\ Len(r) = cap
    BY <1>1, <2>1, <2>2, <2>3 DEF Distinct
  <2>5. Sound(r, m, cap)
    BY <2>2, <2>3, <2>4 DEF Sound
  <2> QED
    BY <1>2, <2>4, <2>5 DEF Evicted, r
<1>3. CASE Len(c) <= cap
  BY <1>1, <1>3 DEF Evicted, Sound
<1> QED
  BY <1>1, <1>2, <1>3

-----------------------------------------------------------------------------
(* What the operations of the two caches keep.                                *)

\* A hit is found with a text for its key, and keeps its entry.
LEMMA MoveFits ==
    ASSUME NEW c, NEW m, NEW cap \in Nat, Sound(c, m, cap), NEW k \in KeysOf(c)
    PROVE  /\ Sound(MoveToEnd(c, k), m, cap)
           /\ KeysOf(MoveToEnd(c, k)) = KeysOf(c) /\ Len(MoveToEnd(c, k)) = Len(c)
<1> DEFINE p == Place(c, k)
           r == RemoveAt(c, p)
           e == c[p]
<1>1. /\ Sound(r, m, cap) /\ Len(r) = Len(c) - 1 /\ KeysOf(r) = KeysOf(c) \ {k}
      /\ e \in Entry /\ e.key = k /\ Belongs(m, e.text, k)
  BY Removed DEF Lookup
<1>2. Len(c) \in Nat /\ Len(c) <= cap
  BY Elements DEF Sound
<1> HIDE DEF r, e, p
<1>3. /\ Sound(Append(r, e), m, cap + 1) /\ Len(Append(r, e)) = Len(r) + 1
      /\ KeysOf(Append(r, e)) = KeysOf(r) \cup {k}
  BY <1>1, Appended
<1>4. Sound(Append(r, e), m, cap)
  BY <1>1, <1>2, <1>3 DEF Sound
<1>5. MoveToEnd(c, k) = Append(r, e)
  BY DEF MoveToEnd, r, e, p
<1>6. KeysOf(Append(r, e)) = KeysOf(c)
  BY <1>1, <1>3
<1>7. Len(Append(r, e)) = Len(c)
  BY <1>1, <1>2, <1>3
<1> QED
  BY <1>4, <1>5, <1>6, <1>7

LEMMA PutFits ==
    ASSUME NEW c, NEW m, Sound(c, m, GatewayCap),
           NEW k \in Cacheable, NEW text \in NotFound .. MaxTexts, Belongs(m, text, k)
    PROVE  Sound(Put(c, k, text), m, GatewayCap)
<1> DEFINE others == IF k \in KeysOf(c) THEN RemoveAt(c, Place(c, k)) ELSE c
           e == [key |-> k, text |-> text]
<1>1. GatewayCap \in Nat
  BY CapsAreNaturals
<1>2. Sound(others, m, GatewayCap) /\ k \notin KeysOf(others)
  BY <1>1, Removed
<1>3. e \in Entry /\ e.key = k /\ e.text = text
  BY DEF Entry
<1> HIDE DEF others, e
<1>4. Sound(Append(others, e), m, GatewayCap + 1)
  BY <1>1, <1>2, <1>3, Appended
<1>5. Sound(Evicted(Append(others, e), GatewayCap), m, GatewayCap)
  BY <1>1, <1>4, EvictedFits
<1> QED
  BY <1>5 DEF Put, others, e

\* The router's cache never shrinks, and loses a key only at its capacity.
LEMMA KeepFits ==
    ASSUME NEW c, NEW m, Sound(c, m, DecoyCap),
           NEW k \in Cacheable, NEW text \in NotFound .. MaxTexts, Belongs(m, text, k)
    PROVE  /\ Sound(Keep(c, k, text), m, DecoyCap)
           /\ KeysOf(c) \subseteq KeysOf(Keep(c, k, text)) \/ Len(Keep(c, k, text)) = DecoyCap
           /\ Len(c) = DecoyCap => Len(Keep(c, k, text)) = DecoyCap
<1>1. /\ DecoyCap \in Nat /\ c \in Seq(Entry) /\ Distinct(c) /\ Len(c) <= DecoyCap /\ Len(c) \in Nat
      /\ \A i \in 1 .. Len(c) : c[i] \in Entry
      /\ DOMAIN c = 1 .. Len(c) /\ KeysOf(c) = {c[i].key : i \in 1 .. Len(c)}
  BY CapsAreNaturals, Elements DEF Sound
<1>2. CASE k \in KeysOf(c)
  <2> DEFINE r == [i \in 1 .. Len(c) |-> IF c[i].key = k THEN [c[i] EXCEPT !.text = text] ELSE c[i]]
  <2>1. \A i \in 1 .. Len(c) : /\ r[i] \in Entry /\ r[i].key = c[i].key
                               /\ r[i].text = IF c[i].key = k THEN text ELSE c[i].text
    BY <1>1 DEF Entry
  <2>2. r \in Seq(Entry) /\ Len(r) = Len(c)
    BY <1>1, <2>1, IsASeq
  <2>3. Keep(c, k, text) = r
    BY <1>1, <1>2 DEF Keep
  <2> HIDE DEF r
  <2>4. Distinct(r) /\ \A i \in 1 .. Len(r) : Belongs(m, r[i].text, r[i].key)
    BY <1>1, <2>1, <2>2 DEF Distinct, Sound
  <2>5. KeysOf(r) = {r[i].key : i \in 1 .. Len(r)}
    BY <2>2, Elements
  <2>6. KeysOf(c) \subseteq KeysOf(r)
    BY <1>1, <2>1, <2>2, <2>5
  <2> QED
    BY <1>1, <2>2, <2>3, <2>4, <2>6 DEF Sound
<1>3. CASE k \notin KeysOf(c)
  <2> DEFINE e == [key |-> k, text |-> text]
             r == Append(c, e)
  <2>1. e \in Entry /\ e.key = k /\ e.text = text
    BY DEF Entry
  <2> HIDE DEF e
  <2>2. Sound(r, m, DecoyCap + 1) /\ Len(r) = Len(c) + 1 /\ KeysOf(r) = KeysOf(c) \cup {k}
    BY <1>1, <1>3, <2>1, Appended
  <2> HIDE DEF r
  <2> DEFINE v == Evicted(r, DecoyCap)
  <2>3. /\ Sound(v, m, DecoyCap)
        /\ Len(r) > DecoyCap => Len(v) = DecoyCap
        /\ Len(r) <= DecoyCap => v = r
    BY <1>1, <2>2, EvictedFits
  <2>4. Keep(c, k, text) = v
    BY <1>3 DEF Keep, r, e, v
  <2> HIDE DEF v
  <2>5. Len(r) > DecoyCap \/ (Len(r) <= DecoyCap /\ Len(c) # DecoyCap)
    <3>1. Len(r) = Len(c) + 1 /\ Len(c) \in Nat /\ DecoyCap \in Nat
      BY <1>1, <2>2
    <3> QED
      BY <3>1
  <2>6. KeysOf(c) \subseteq KeysOf(v) \/ Len(v) = DecoyCap
    BY <2>2, <2>3, <2>5
  <2>7. Len(c) = DecoyCap => Len(v) = DecoyCap
    BY <2>3, <2>5
  <2> QED
    BY <2>3, <2>4, <2>6, <2>7
<1> QED
  BY <1>2, <1>3

\* Texts that were made stay made.
LEMMA MoreTexts ==
    ASSUME NEW m \in Seq(Keys), NEW k \in Keys
    PROVE  LET n == Append(m, k)
           IN  /\ n \in Seq(Keys) /\ Len(n) = Len(m) + 1 /\ Belongs(n, Len(m) + 1, k)
               /\ \A text, key : Belongs(m, text, key) => Belongs(n, text, key)
               /\ \A c, cap : Sound(c, m, cap) => Sound(c, n, cap)
<1> DEFINE n == Append(m, k)
<1>1. /\ Len(m) \in Nat /\ n \in Seq(Keys) /\ Len(n) = Len(m) + 1
      /\ \A i \in 1 .. Len(m) : n[i] = m[i]
      /\ n[Len(m) + 1] = k
  BY AppendProperties, LenProperties
<1> HIDE DEF n
<1>2. \A text, key : Belongs(m, text, key) => Belongs(n, text, key)
  BY <1>1 DEF Belongs, NotFound
<1>3. Belongs(n, Len(m) + 1, k)
  BY <1>1 DEF Belongs, NotFound
<1>4. \A c, cap : Sound(c, m, cap) => Sound(c, n, cap)
  BY <1>2 DEF Sound
<1> QED
  BY <1>1, <1>2, <1>3, <1>4 DEF n

-----------------------------------------------------------------------------
(* The inductive invariant.                                                   *)
Points == {"idle", "delay", "sent", "inference", "replied", "jitter", "event"}
Replies == [text : NotFound .. MaxTexts, keep : BOOLEAN, ok : BOOLEAN]
Sources == {"handled", "llm_cache", "llm"}

\* The two caches, and the texts.
CachesInv ==
    /\ made \in Seq(Keys) /\ Len(made) <= MaxTexts /\ orphans \subseteq Keys
    /\ Sound(answers, made, DecoyCap) /\ Sound(cache, made, GatewayCap)

\* What a session has asked, what was replied and what it is shown: a hit that is
\* held back is in the cache until the cache is full.
CommandInv(s) ==
    /\ pc[s] \in {"delay", "sent", "inference", "replied", "jitter"} => asked[s] \in Keys
    /\ reply[s].ok => /\ pc[s] = "replied" /\ Belongs(made, reply[s].text, asked[s])
                      /\ reply[s].keep => asked[s] \in Cacheable
    /\ Belongs(made, shown[s], asked[s]) /\ (shown[s] > 0 => pc[s] = "event")
    /\ pc[s] = "delay" => asked[s] \in KeysOf(answers) \/ Len(answers) = DecoyCap

CommandsInv ==
    /\ pc \in [Sessions -> Points] /\ asked \in [Sessions -> Keys \cup {None}]
    /\ reply \in [Sessions -> Replies] /\ shown \in [Sessions -> NotFound .. MaxTexts]
    /\ \A s \in Sessions : CommandInv(s)

\* The source and who set it.
SourceInv ==
    /\ source \in Sources \cup {"unknown"} /\ own \in [Sessions -> Sources \cup {"none"}]
    /\ stirred \in [Sessions -> BOOLEAN]
    /\ SourceIsOwn

TierInv == CachesInv /\ CommandsInv /\ SourceInv

LEMMA InitTier == Init => TierInv
<1> SUFFICES ASSUME Init PROVE TierInv
  OBVIOUS
<1>1. DecoyCap \in Nat /\ GatewayCap \in Nat /\ MaxTexts \in Nat
  BY CapsAreNaturals
<1>2. << >> \in Seq(Entry) /\ << >> \in Seq(Keys) /\ Len(<< >>) = 0
  BY EmptySeq
<1>3. CachesInv
  BY <1>1, <1>2 DEF Init, CachesInv, Sound, Distinct
<1>4. Failed \in Replies /\ NotFound \in NotFound .. MaxTexts /\ Belongs(made, NotFound, None)
  BY <1>1, <1>2 DEF Init, Failed, Replies, NotFound, Belongs
<1>5. CommandsInv
  BY <1>4 DEF Init, CommandsInv, CommandInv, Points, Failed, NotFound
<1>6. SourceInv
  BY DEF Init, SourceInv, SourceIsOwn, Sources
<1> QED
  BY <1>3, <1>5, <1>6 DEF TierInv

-----------------------------------------------------------------------------
(* The source.  Whoever sets it stirs every session that waits with its event.*)
LEMMA SetSourceKeeps ==
    ASSUME TierInv, NEW s \in Sessions, NEW from \in Sources, NEW l \in Points,
           SetSource(s, from), Goto(s, l)
    PROVE  SourceInv'
<1>1. /\ own \in [Sessions -> Sources \cup {"none"}] /\ stirred \in [Sessions -> BOOLEAN]
      /\ pc \in [Sessions -> Points]
  BY DEF TierInv, SourceInv, CommandsInv
<1>2. /\ source' = from /\ own' = [own EXCEPT ![s] = from] /\ pc' = [pc EXCEPT ![s] = l]
      /\ stirred' = [t \in Sessions |-> IF t = s THEN FALSE ELSE stirred[t] \/ pc[t] = "event"]
  BY DEF SetSource, Goto
<1>3. source' \in Sources \cup {"unknown"} /\ own' \in [Sessions -> Sources \cup {"none"}]
  BY <1>1, <1>2
<1>4. stirred' \in [Sessions -> BOOLEAN]
  BY <1>1, <1>2, Zenon
<1>5. ASSUME NEW t \in Sessions, pc'[t] = "event", own'[t] # "none"
      PROVE  source' = own'[t] \/ stirred'[t]
  <2>1. CASE t = s
    BY <1>1, <1>2, <2>1
  <2>2. CASE t # s
    <3>1. pc'[t] = pc[t]
      BY <1>1, <1>2, <2>2
    <3>2. stirred'[t] = (stirred[t] \/ pc[t] = "event")
      BY <1>2, <2>2
    <3> QED
      BY <1>5, <3>1, <3>2
  <2> QED
    BY <2>1, <2>2
<1> QED
  BY <1>3, <1>4, <1>5 DEF SourceInv, SourceIsOwn

\* Nothing happens to it when no session goes to its event.
LEMMA SourceStays ==
    ASSUME TierInv, UNCHANGED <<source, own, stirred>>,
           \A t \in Sessions : pc'[t] = "event" => pc[t] = "event"
    PROVE  SourceInv'
BY DEF TierInv, SourceInv, SourceIsOwn

\* A session that sets none of its own has nothing to compare.
LEMMA OwnNothing ==
    ASSUME TierInv, NEW s \in Sessions, NEW l \in Points, Goto(s, l), UNCHANGED source,
           own' = [own EXCEPT ![s] = "none"], stirred' = [stirred EXCEPT ![s] = FALSE]
    PROVE  SourceInv'
<1>1. /\ own \in [Sessions -> Sources \cup {"none"}] /\ stirred \in [Sessions -> BOOLEAN]
      /\ pc \in [Sessions -> Points] /\ pc' = [pc EXCEPT ![s] = l]
  BY DEF TierInv, SourceInv, CommandsInv, Goto
<1>2. own' \in [Sessions -> Sources \cup {"none"}]
  BY <1>1
<1>3. stirred' \in [Sessions -> BOOLEAN]
  BY <1>1
<1>4. ASSUME NEW t \in Sessions, pc'[t] = "event", own'[t] # "none"
      PROVE  source' = own'[t] \/ stirred'[t]
  <2>1. t # s /\ own'[t] = own[t] /\ pc'[t] = pc[t] /\ stirred'[t] = stirred[t]
    BY <1>1, <1>4
  <2>2. source = own[t] \/ stirred[t]
    BY <1>4, <2>1 DEF TierInv, SourceInv, SourceIsOwn
  <2> QED
    BY <2>1, <2>2
<1> QED
  BY <1>2, <1>3, <1>4 DEF TierInv, SourceInv, SourceIsOwn

-----------------------------------------------------------------------------
(* What one session does leaves the commands of the others as they were.      *)
TextsGrow == \A text, key : Belongs(made, text, key) => Belongs(made', text, key)
AnswersGrow ==
    /\ KeysOf(answers) \subseteq KeysOf(answers') \/ Len(answers') = DecoyCap
    /\ Len(answers) = DecoyCap => Len(answers') = DecoyCap

LEMMA Untouched ==
    ASSUME NEW t \in Sessions, CommandInv(t), TextsGrow, AnswersGrow,
           pc'[t] = pc[t], asked'[t] = asked[t], reply'[t] = reply[t], shown'[t] = shown[t]
    PROVE  CommandInv(t)'
<1>1. pc'[t] \in {"delay", "sent", "inference", "replied", "jitter"} => asked'[t] \in Keys
  BY DEF CommandInv
<1>2. reply'[t].ok => /\ pc'[t] = "replied" /\ Belongs(made', reply'[t].text, asked'[t])
                      /\ reply'[t].keep => asked'[t] \in Cacheable
  BY DEF CommandInv, TextsGrow
<1>3. Belongs(made', shown'[t], asked'[t]) /\ (shown'[t] > 0 => pc'[t] = "event")
  BY DEF CommandInv, TextsGrow
<1>4. pc'[t] = "delay" => asked'[t] \in KeysOf(answers') \/ Len(answers') = DecoyCap
  BY DEF CommandInv, AnswersGrow
<1> QED
  BY <1>1, <1>2, <1>3, <1>4 DEF CommandInv

LEMMA SameGrows ==
    /\ UNCHANGED made => TextsGrow
    /\ UNCHANGED answers => AnswersGrow
BY DEF TextsGrow, AnswersGrow

\* The session that moves has an invariant of its own to show.
LEMMA OneMoves ==
    ASSUME CommandsInv, NEW s \in Sessions, TextsGrow, AnswersGrow,
           NEW l \in Points, NEW k \in Keys \cup {None}, NEW r \in Replies,
           NEW x \in NotFound .. MaxTexts,
           pc' = [pc EXCEPT ![s] = l], asked' = [asked EXCEPT ![s] = k],
           reply' = [reply EXCEPT ![s] = r], shown' = [shown EXCEPT ![s] = x],
           l \in {"delay", "sent", "inference", "replied", "jitter"} => k \in Keys,
           r.ok => l = "replied" /\ Belongs(made', r.text, k) /\ (r.keep => k \in Cacheable),
           Belongs(made', x, k), x > 0 => l = "event",
           l = "delay" => k \in KeysOf(answers') \/ Len(answers') = DecoyCap
    PROVE  CommandsInv'
<1>1. /\ pc \in [Sessions -> Points] /\ asked \in [Sessions -> Keys \cup {None}]
      /\ reply \in [Sessions -> Replies] /\ shown \in [Sessions -> NotFound .. MaxTexts]
      /\ \A t \in Sessions : CommandInv(t)
  BY DEF CommandsInv
<1>2. pc' \in [Sessions -> Points] /\ asked' \in [Sessions -> Keys \cup {None}]
  BY <1>1
<1>3. reply' \in [Sessions -> Replies] /\ shown' \in [Sessions -> NotFound .. MaxTexts]
  BY <1>1
<1>4. pc'[s] = l /\ asked'[s] = k /\ reply'[s] = r /\ shown'[s] = x
  BY <1>1
<1>5. CommandInv(s)'
  BY <1>4 DEF CommandInv
<1>6. ASSUME NEW t \in Sessions, t # s PROVE CommandInv(t)'
  <2>1. pc'[t] = pc[t] /\ asked'[t] = asked[t] /\ reply'[t] = reply[t] /\ shown'[t] = shown[t]
    BY <1>1, <1>6
  <2> QED
    BY <1>1, <2>1, Untouched
<1> QED
  BY <1>2, <1>3, <1>5, <1>6 DEF CommandsInv

LEMMA NoneMoves ==
    ASSUME CommandsInv, TextsGrow, AnswersGrow, UNCHANGED <<pc, asked, reply, shown>>
    PROVE  CommandsInv'
<1>1. \A t \in Sessions : CommandInv(t)'
  BY Untouched DEF CommandsInv
<1> QED
  BY <1>1 DEF CommandsInv

-----------------------------------------------------------------------------
(* Every step keeps the invariant.  Router first.                             *)
LEMMA CommandHere ==
    ASSUME TierInv, NEW s \in Sessions
    PROVE  /\ pc = [pc EXCEPT ![s] = pc[s]] /\ asked = [asked EXCEPT ![s] = asked[s]]
           /\ reply = [reply EXCEPT ![s] = reply[s]] /\ shown = [shown EXCEPT ![s] = shown[s]]
           /\ pc[s] \in Points /\ asked[s] \in Keys \cup {None}
           /\ reply[s] \in Replies /\ shown[s] \in NotFound .. MaxTexts
           /\ CommandInv(s) /\ CommandsInv /\ CachesInv
BY DEF TierInv, CommandsInv

LEMMA Constants ==
    /\ Failed \in Replies /\ ~ Failed.ok
    /\ NotFound \in NotFound .. MaxTexts /\ ~ (NotFound > 0)
    /\ \A m, k : m \in Seq(Keys) => Belongs(m, NotFound, k)
<1>1. MaxTexts \in Nat
  BY CapsAreNaturals
<1>2. \A m : m \in Seq(Keys) => Len(m) \in Nat
  BY LenProperties
<1> QED
  BY <1>1, <1>2 DEF Failed, Replies, NotFound, Belongs

LEMMA RouteHandledKeeps == ASSUME TierInv, NEW s \in Sessions, RouteHandled(s) PROVE TierInv'
<1>1. CachesInv'
  BY DEF TierInv, CachesInv, RouteHandled, gatewayVars
<1>2. CommandsInv'
  <2>1. TextsGrow /\ AnswersGrow
    BY SameGrows DEF RouteHandled, gatewayVars
  <2>2. pc[s] = "idle" /\ pc' = [pc EXCEPT ![s] = "event"] /\ UNCHANGED <<asked, reply, shown, made>>
    BY DEF RouteHandled, Goto, gatewayVars
  <2>3. CommandInv(s)
    BY CommandHere
  <2>4. Belongs(made', shown[s], asked[s])
    BY <2>2, <2>3 DEF CommandInv
  <2>5. ~ reply[s].ok
    BY <2>2, <2>3 DEF CommandInv
  <2> QED
    BY ZenonT(30), <2>1, <2>2, <2>4, <2>5, CommandHere, OneMoves DEF Points
<1>3. SourceInv'
  <2>1. SetSource(s, "handled") /\ Goto(s, "event") /\ "handled" \in Sources /\ "event" \in Points
    BY DEF RouteHandled, Sources, Points
  <2> QED
    BY <2>1, SetSourceKeeps
<1> QED
  BY <1>1, <1>2, <1>3 DEF TierInv

LEMMA RouteUnsourcedKeeps == ASSUME TierInv, NEW s \in Sessions, RouteUnsourced(s) PROVE TierInv'
<1>1. CachesInv'
  BY DEF TierInv, CachesInv, RouteUnsourced, gatewayVars
<1>2. CommandsInv'
  <2>1. TextsGrow /\ AnswersGrow
    BY SameGrows DEF RouteUnsourced, gatewayVars
  <2>2. /\ pc[s] = "idle" /\ pc' = [pc EXCEPT ![s] = "event"]
        /\ UNCHANGED <<asked, reply, shown, made>>
    BY DEF RouteUnsourced, Goto, gatewayVars
  <2>3. CommandInv(s)
    BY CommandHere
  <2>4. Belongs(made', shown[s], asked[s])
    BY <2>2, <2>3 DEF CommandInv
  <2>5. ~ reply[s].ok
    BY <2>2, <2>3 DEF CommandInv
  <2> QED
    BY ZenonT(30), <2>1, <2>2, <2>4, <2>5, CommandHere, OneMoves DEF Points
<1>3. SourceInv'
  <2>1. /\ Goto(s, "event") /\ "event" \in Points /\ UNCHANGED source
        /\ own' = [own EXCEPT ![s] = "none"] /\ stirred' = [stirred EXCEPT ![s] = FALSE]
    BY DEF RouteUnsourced, Points
  <2> QED
    BY <2>1, OwnNothing
<1> QED
  BY <1>1, <1>2, <1>3 DEF TierInv

LEMMA HandleAdaptiveKeeps == ASSUME TierInv, NEW s \in Sessions, HandleAdaptive(s) PROVE TierInv'
<1>1. PICK k \in Keys :
        /\ asked' = [asked EXCEPT ![s] = k]
        /\ IF k \in KeysOf(answers)
           THEN /\ SetSource(s, "llm_cache") /\ answers' = MoveToEnd(answers, k)
                /\ Goto(s, "delay")
           ELSE /\ Goto(s, "sent") /\ UNCHANGED routerVars
  BY DEF HandleAdaptive
<1>2. pc[s] = "idle" /\ UNCHANGED <<reply, shown, cache, orphans, made>>
  BY DEF HandleAdaptive, gatewayVars
<1>3. CachesInv /\ CommandInv(s) /\ CommandsInv
  BY CommandHere
<1>4. ~ reply[s].ok /\ ~ (shown[s] > 0) /\ Belongs(made', shown[s], k)
  BY <1>2, <1>3 DEF CommandInv, Belongs
<1>5. CASE k \in KeysOf(answers)
  <2>1. SetSource(s, "llm_cache") /\ answers' = MoveToEnd(answers, k) /\ Goto(s, "delay")
    BY <1>1, <1>5
  <2>2. /\ Sound(answers', made, DecoyCap)
        /\ KeysOf(answers') = KeysOf(answers) /\ Len(answers') = Len(answers)
    BY <1>3, <1>5, <2>1, MoveFits, CapsAreNaturals DEF CachesInv
  <2>3. CachesInv'
    BY <1>2, <1>3, <2>2 DEF CachesInv
  <2>4. TextsGrow /\ AnswersGrow
    BY <1>2, <2>2, SameGrows DEF AnswersGrow
  <2>5. pc' = [pc EXCEPT ![s] = "delay"] /\ k \in KeysOf(answers')
    BY <1>5, <2>1, <2>2 DEF Goto
  <2>6. CommandsInv'
    BY <1>1, <1>2, <1>4, <2>4, <2>5, CommandHere, OneMoves DEF Points
  <2>7. SourceInv'
    BY <2>1, SetSourceKeeps DEF Sources, Points
  <2> QED
    BY <2>3, <2>6, <2>7 DEF TierInv
<1>6. CASE k \notin KeysOf(answers)
  <2>1. pc' = [pc EXCEPT ![s] = "sent"] /\ UNCHANGED <<answers, source, own, stirred>>
    BY <1>1, <1>6 DEF Goto, routerVars
  <2>2. CachesInv'
    BY <1>2, <1>3, <2>1 DEF CachesInv
  <2>3. TextsGrow /\ AnswersGrow
    BY <1>2, <2>1, SameGrows
  <2>4. CommandsInv'
    BY <1>1, <1>2, <1>4, <2>1, <2>3, CommandHere, OneMoves DEF Points
  <2>5. \A t \in Sessions : pc'[t] = "event" => pc[t] = "event"
    BY <1>3, <2>1 DEF CommandsInv
  <2>6. SourceInv'
    BY <2>1, <2>5, SourceStays
  <2> QED
    BY <2>2, <2>4, <2>6 DEF TierInv
<1> QED
  BY <1>5, <1>6

\* A command that is over, with its command.response or without.
LEMMA FinishKeeps ==
    ASSUME TierInv, NEW s \in Sessions, Finish(s), ~ reply[s].ok,
           UNCHANGED <<reply, answers, source, made>>
    PROVE  CommandsInv' /\ SourceInv'
<1>1. /\ pc' = [pc EXCEPT ![s] = "idle"] /\ Goto(s, "idle")
      /\ asked' = [asked EXCEPT ![s] = None] /\ shown' = [shown EXCEPT ![s] = NotFound]
      /\ own' = [own EXCEPT ![s] = "none"] /\ stirred' = [stirred EXCEPT ![s] = FALSE]
  BY DEF Finish, Goto
<1>2. TextsGrow /\ AnswersGrow
  BY SameGrows
<1>3. Belongs(made', NotFound, None)
  BY CommandHere, Constants DEF CachesInv
<1>4. CommandsInv'
  BY <1>1, <1>2, <1>3, CommandHere, Constants, OneMoves DEF Points
<1>5. SourceInv'
  BY <1>1, OwnNothing DEF Points
<1> QED
  BY <1>4, <1>5

LEMMA AnswerFromCacheKeeps == ASSUME TierInv, NEW s \in Sessions, AnswerFromCache(s) PROVE TierInv'
<1>1. pc[s] = "delay" /\ UNCHANGED <<reply, answers, cache, orphans, made>>
  BY DEF AnswerFromCache, gatewayVars
<1>2. CachesInv /\ CommandInv(s) /\ CommandsInv /\ CachesInv'
  BY <1>1, CommandHere DEF CachesInv
<1>3. TextsGrow /\ AnswersGrow
  BY <1>1, SameGrows
<1>4. asked[s] \in Keys /\ ~ reply[s].ok /\ ~ (shown[s] > 0) /\ Belongs(made', shown[s], asked[s])
  BY <1>1, <1>2 DEF CommandInv
<1>5. CASE asked[s] \in KeysOf(answers)
  <2> DEFINE x == Lookup(answers, asked[s])
  <2>1. /\ shown' = [shown EXCEPT ![s] = x] /\ SetSource(s, "llm") /\ Goto(s, "event")
        /\ UNCHANGED asked
    BY <1>5 DEF AnswerFromCache, Show
  <2>2. Belongs(made, x, asked[s]) /\ x \in NotFound .. MaxTexts
    BY <1>2, <1>5, Removed, CapsAreNaturals DEF CachesInv
  <2> HIDE DEF x
  <2>3. pc' = [pc EXCEPT ![s] = "event"] /\ Belongs(made', x, asked[s])
    BY <1>1, <2>1, <2>2 DEF Goto
  <2>4. CommandsInv'
    BY <1>1, <1>3, <1>4, <2>1, <2>2, <2>3, CommandHere, OneMoves DEF Points
  <2>5. SourceInv'
    BY <2>1, SetSourceKeeps DEF Sources, Points
  <2> QED
    BY <1>2, <2>4, <2>5 DEF TierInv
<1>6. CASE asked[s] \notin KeysOf(answers)
  <2>1. Finish(s) /\ UNCHANGED source
    BY <1>6 DEF AnswerFromCache
  <2>2. CommandsInv' /\ SourceInv'
    BY <1>1, <1>2, <1>4, <2>1, FinishKeeps
  <2> QED
    BY <1>2, <2>2 DEF TierInv
<1> QED
  BY <1>5, <1>6

LEMMA ReceiveKeeps == ASSUME TierInv, NEW s \in Sessions, Receive(s) PROVE TierInv'
<1> DEFINE x == reply[s].text
<1>1. /\ pc[s] = "replied" /\ reply[s].ok /\ shown' = [shown EXCEPT ![s] = x]
      /\ SetSource(s, "llm") /\ pc' = [pc EXCEPT ![s] = "event"] /\ Goto(s, "event")
      /\ reply' = [reply EXCEPT ![s] = Failed]
      /\ answers' = IF reply[s].keep THEN Keep(answers, asked[s], x) ELSE answers
      /\ UNCHANGED <<asked, cache, orphans, made>>
  BY DEF Receive, Show, Goto, gatewayVars
<1>2. CachesInv /\ CommandInv(s) /\ CommandsInv /\ reply[s] \in Replies
  BY CommandHere
<1>3. /\ Belongs(made, x, asked[s]) /\ x \in NotFound .. MaxTexts /\ asked[s] \in Keys
      /\ reply[s].keep => asked[s] \in Cacheable
  BY <1>1, <1>2 DEF CommandInv, Replies
<1> HIDE DEF x
<1>4. Sound(answers', made, DecoyCap) /\ AnswersGrow
  <2>1. CASE reply[s].keep
    BY <1>1, <1>2, <1>3, <2>1, KeepFits DEF CachesInv, AnswersGrow
  <2>2. CASE ~ reply[s].keep
    BY <1>1, <1>2, <2>2, SameGrows DEF CachesInv
  <2> QED
    BY <2>1, <2>2
<1>5. CachesInv'
  BY <1>1, <1>2, <1>4 DEF CachesInv
<1>6. TextsGrow /\ Belongs(made', x, asked[s])
  BY <1>1, <1>3, SameGrows
<1>7. CommandsInv'
  BY <1>1, <1>3, <1>4, <1>6, CommandHere, Constants, OneMoves DEF Points
<1>8. SourceInv'
  BY <1>1, SetSourceKeeps DEF Sources, Points
<1> QED
  BY <1>5, <1>7, <1>8 DEF TierInv

\* A request that came to nothing.
LEMMA JitterKeeps ==
    ASSUME TierInv, NEW s \in Sessions, pc[s] \in {"sent", "inference", "replied"}, ~ reply[s].ok,
           pc' = [pc EXCEPT ![s] = "jitter"], orphans' \subseteq orphans \cup {asked[s]},
           UNCHANGED <<asked, reply, shown, answers, source, own, stirred, cache, made>>
    PROVE  TierInv'
<1>1. CachesInv /\ CommandInv(s) /\ CommandsInv
  BY CommandHere
<1>2. asked[s] \in Keys /\ ~ (shown[s] > 0) /\ Belongs(made', shown[s], asked[s])
  BY <1>1 DEF CommandInv
<1>3. CachesInv'
  BY <1>1, <1>2 DEF CachesInv
<1>4. TextsGrow /\ AnswersGrow
  BY SameGrows
<1>5. CommandsInv'
  BY <1>2, <1>4, CommandHere, OneMoves DEF Points
<1>6. \A t \in Sessions : pc'[t] = "event" => pc[t] = "event"
  BY <1>1 DEF CommandsInv
<1>7. SourceInv'
  BY <1>6, SourceStays
<1> QED
  BY <1>3, <1>5, <1>7 DEF TierInv

LEMMA ReceiveErrorKeeps == ASSUME TierInv, NEW s \in Sessions, ReceiveError(s) PROVE TierInv'
<1>1. /\ pc[s] = "replied" /\ ~ reply[s].ok /\ pc' = [pc EXCEPT ![s] = "jitter"]
      /\ UNCHANGED <<asked, reply, shown, answers, source, own, stirred, cache, orphans, made>>
  BY DEF ReceiveError, Goto, routerVars, gatewayVars
<1> QED
  BY <1>1, JitterKeeps

LEMMA TimesOutKeeps == ASSUME TierInv, NEW s \in Sessions, TimesOut(s) PROVE TierInv'
<1>1. /\ pc[s] \in {"sent", "inference"} /\ pc' = [pc EXCEPT ![s] = "jitter"]
      /\ orphans' \subseteq orphans \cup {asked[s]}
      /\ UNCHANGED <<asked, reply, shown, answers, source, own, stirred, cache, made>>
  BY DEF TimesOut, Goto, routerVars
<1>2. ~ reply[s].ok
  BY <1>1, CommandHere DEF CommandInv
<1> QED
  BY <1>1, <1>2, JitterKeeps

LEMMA AnswerScriptedKeeps == ASSUME TierInv, NEW s \in Sessions, AnswerScripted(s) PROVE TierInv'
<1>1. /\ pc[s] = "jitter" /\ shown' = [shown EXCEPT ![s] = NotFound]
      /\ SetSource(s, "llm") /\ pc' = [pc EXCEPT ![s] = "event"] /\ Goto(s, "event")
      /\ UNCHANGED <<asked, reply, answers, cache, orphans, made>>
  BY DEF AnswerScripted, Show, Goto, gatewayVars
<1>2. CachesInv /\ CommandInv(s) /\ CachesInv'
  BY <1>1, CommandHere DEF CachesInv
<1>3. TextsGrow /\ AnswersGrow /\ ~ reply[s].ok
  BY <1>1, <1>2, SameGrows DEF CommandInv
<1>4. Belongs(made', NotFound, asked[s])
  BY <1>1, <1>2, Constants DEF CachesInv
<1>5. CommandsInv'
  BY <1>1, <1>3, <1>4, CommandHere, Constants, OneMoves DEF Points
<1>6. SourceInv'
  BY <1>1, SetSourceKeeps DEF Sources, Points
<1> QED
  BY <1>2, <1>5, <1>6 DEF TierInv

LEMMA EmitResponseKeeps == ASSUME TierInv, NEW s \in Sessions, EmitResponse(s) PROVE TierInv'
<1>1. pc[s] = "event" /\ Finish(s) /\ UNCHANGED <<reply, answers, source, cache, orphans, made>>
  BY DEF EmitResponse, gatewayVars
<1>2. CachesInv /\ CommandInv(s) /\ CachesInv'
  BY <1>1, CommandHere DEF CachesInv
<1>3. ~ reply[s].ok
  BY <1>1, <1>2 DEF CommandInv
<1>4. CommandsInv' /\ SourceInv'
  BY <1>1, <1>3, FinishKeeps
<1> QED
  BY <1>2, <1>4 DEF TierInv

-----------------------------------------------------------------------------
(* The gateway.                                                               *)

\* A session that is answered, or goes on to be.
LEMMA GatewayKeeps ==
    ASSUME TierInv, NEW s \in Sessions, pc[s] \in {"sent", "inference"},
           CachesInv', TextsGrow, NEW l \in {"replied", "inference"}, NEW r \in Replies,
           pc' = [pc EXCEPT ![s] = l], reply' = [reply EXCEPT ![s] = r],
           r.ok => l = "replied" /\ Belongs(made', r.text, asked[s]) /\ (r.keep => asked[s] \in Cacheable),
           UNCHANGED <<asked, shown, answers, source, own, stirred>>
    PROVE  TierInv'
<1>1. CachesInv /\ CommandInv(s) /\ CommandsInv
  BY CommandHere
<1>2. asked[s] \in Keys /\ ~ (shown[s] > 0)
  BY <1>1 DEF CommandInv
<1>3. AnswersGrow /\ Belongs(made', shown[s], asked[s])
  BY <1>1, SameGrows DEF CommandInv, TextsGrow
<1>4. CommandsInv'
  BY <1>2, <1>3, CommandHere, OneMoves DEF Points
<1>5. \A t \in Sessions : pc'[t] = "event" => pc[t] = "event"
  BY <1>1 DEF CommandsInv
<1>6. SourceInv'
  BY <1>5, SourceStays
<1> QED
  BY <1>4, <1>6 DEF TierInv

LEMMA ProcessCommandKeeps == ASSUME TierInv, NEW s \in Sessions, ProcessCommand(s) PROVE TierInv'
<1> DEFINE k == asked[s]
<1>1. /\ pc[s] = "sent"
      /\ UNCHANGED <<asked, shown, answers, source, own, stirred, orphans, made>>
  BY DEF ProcessCommand, routerVars
<1>2. CachesInv /\ CommandInv(s) /\ CommandsInv /\ TextsGrow
  BY <1>1, CommandHere, SameGrows
<1>3. ~ reply[s].ok /\ GatewayCap \in Nat
  BY <1>1, <1>2, CapsAreNaturals DEF CommandInv
<1>4. \/ Reply(s, Failed) /\ UNCHANGED cache
      \/ /\ k \in KeysOf(cache) /\ cache' = MoveToEnd(cache, k)
         /\ Reply(s, Gives(Lookup(cache, k), TRUE))
      \/ Reply(s, Gives(NotFound, FALSE)) /\ UNCHANGED cache
      \/ Goto(s, "inference") /\ UNCHANGED <<reply, cache>>
  BY DEF ProcessCommand, MakeKey
<1>5. UNCHANGED cache => CachesInv'
  BY <1>1, <1>2 DEF CachesInv
<1>6. CASE Reply(s, Failed) /\ UNCHANGED cache
  BY <1>1, <1>2, <1>5, <1>6, Constants, GatewayKeeps DEF Reply, Goto
<1>7. CASE /\ k \in KeysOf(cache) /\ cache' = MoveToEnd(cache, k)
           /\ Reply(s, Gives(Lookup(cache, k), TRUE))
  <2> DEFINE x == Lookup(cache, k)
             r == Gives(x, TRUE)
  <2>1. Sound(cache', made, GatewayCap)
    BY <1>2, <1>3, <1>7, MoveFits DEF CachesInv
  <2>2. CachesInv'
    BY <1>1, <1>2, <2>1 DEF CachesInv
  <2>3. Belongs(made, x, k) /\ x \in NotFound .. MaxTexts /\ k \in Cacheable
    BY <1>2, <1>3, <1>7, Removed, Elements DEF CachesInv, Sound
  <2>4. pc' = [pc EXCEPT ![s] = "replied"] /\ reply' = [reply EXCEPT ![s] = r]
    BY <1>7 DEF Reply, Goto
  <2>5. r \in Replies /\ r.text = x
    BY <2>3 DEF Gives, Replies
  <2> HIDE DEF x, r, k
  <2>6. Belongs(made', r.text, k)
    BY <1>1, <2>3, <2>5
  <2> QED
    BY <1>1, <1>2, <2>2, <2>3, <2>4, <2>5, <2>6, GatewayKeeps DEF k
<1>8. CASE Reply(s, Gives(NotFound, FALSE)) /\ UNCHANGED cache
  <2> DEFINE r == Gives(NotFound, FALSE)
  <2>1. r \in Replies /\ r.text = NotFound /\ ~ r.keep
    BY Constants DEF Gives, Replies
  <2>2. pc' = [pc EXCEPT ![s] = "replied"] /\ reply' = [reply EXCEPT ![s] = r]
    BY <1>8 DEF Reply, Goto
  <2> HIDE DEF r
  <2>3. Belongs(made', r.text, k)
    BY <1>1, <1>2, <2>1, Constants DEF CachesInv
  <2> QED
    BY <1>1, <1>2, <1>5, <1>8, <2>1, <2>2, <2>3, GatewayKeeps
<1>9. CASE Goto(s, "inference") /\ UNCHANGED <<reply, cache>>
  <2>1. pc' = [pc EXCEPT ![s] = "inference"] /\ reply' = [reply EXCEPT ![s] = reply[s]]
    BY <1>9, CommandHere DEF Goto
  <2> QED
    BY <1>1, <1>2, <1>3, <1>5, <1>9, <2>1, CommandHere, GatewayKeeps
<1> QED
  BY <1>4, <1>6, <1>7, <1>8, <1>9

\* A text is made for a key, and goes into the cache under that key or not at all.
LEMMA ProduceKeeps ==
    ASSUME CachesInv, NEW k \in Keys, Produce(k, Len(made) + 1),
           orphans' \subseteq orphans, UNCHANGED answers
    PROVE  /\ CachesInv' /\ TextsGrow
           /\ Belongs(made', Len(made) + 1, k) /\ Len(made) + 1 \in NotFound .. MaxTexts
<1> DEFINE text == Len(made) + 1
<1>1. /\ made \in Seq(Keys) /\ Len(made) < MaxTexts /\ made' = Append(made, k)
      /\ cache' = IF k \in Cacheable THEN Put(cache, k, text) ELSE cache
      /\ Len(made) \in Nat /\ MaxTexts \in Nat
  BY CapsAreNaturals, LenProperties DEF Produce, MakeKey, CachesInv
<1>2. /\ made' \in Seq(Keys) /\ Len(made') = Len(made) + 1 /\ Belongs(made', text, k)
      /\ \A t, key : Belongs(made, t, key) => Belongs(made', t, key)
      /\ \A c, cap : Sound(c, made, cap) => Sound(c, made', cap)
  BY <1>1, MoreTexts
<1>3. text \in NotFound .. MaxTexts
  BY <1>1 DEF NotFound
<1> HIDE DEF text
<1>4. Sound(answers', made', DecoyCap) /\ Sound(cache, made', GatewayCap)
  BY <1>2 DEF CachesInv
<1>5. Sound(cache', made', GatewayCap)
  <2>1. CASE k \in Cacheable
    BY <1>1, <1>2, <1>3, <1>4, <2>1, PutFits
  <2>2. CASE k \notin Cacheable
    BY <1>1, <1>4, <2>2
  <2> QED
    BY <2>1, <2>2
<1>6. Len(made') <= MaxTexts /\ orphans' \subseteq Keys
  BY <1>1, <1>2 DEF CachesInv
<1>7. CachesInv'
  BY <1>2, <1>4, <1>5, <1>6 DEF CachesInv
<1> QED
  BY <1>2, <1>3, <1>7 DEF TextsGrow, text

LEMMA GenerateKeeps == ASSUME TierInv, NEW s \in Sessions, Generate(s) PROVE TierInv'
<1> DEFINE k == asked[s]
           keep == k \in Cacheable
<1>1. pc[s] = "inference" /\ UNCHANGED <<asked, shown, answers, source, own, stirred, orphans>>
  BY DEF Generate, routerVars
<1>2. CachesInv /\ CommandInv(s) /\ CommandsInv /\ k \in Keys /\ keep \in BOOLEAN
  BY <1>1, CommandHere DEF CommandInv
<1>3. \/ Produce(k, Len(made) + 1) /\ Reply(s, Gives(Len(made) + 1, keep))
      \/ Reply(s, Gives(Empty, keep)) /\ UNCHANGED <<cache, made>>
      \/ Reply(s, Gives(NotFound, FALSE)) /\ UNCHANGED <<cache, made>>
      \/ Reply(s, Failed) /\ UNCHANGED <<cache, made>>
  BY DEF Generate
<1>4. ASSUME NEW text \in NotFound .. MaxTexts, NEW kept \in BOOLEAN, kept => keep,
             Reply(s, Gives(text, kept)), Belongs(made', text, k), CachesInv', TextsGrow
      PROVE  TierInv'
  <2> DEFINE r == Gives(text, kept)
  <2>1. r \in Replies /\ r.text = text /\ r.keep = kept
    BY DEF Gives, Replies
  <2>2. pc' = [pc EXCEPT ![s] = "replied"] /\ reply' = [reply EXCEPT ![s] = r]
    BY <1>4 DEF Reply, Goto
  <2> HIDE DEF r
  <2>3. Belongs(made', r.text, asked[s]) /\ (r.keep => asked[s] \in Cacheable)
    BY <1>4, <2>1
  <2> QED
    BY <1>1, <1>4, <2>1, <2>2, <2>3, GatewayKeeps
<1>5. UNCHANGED <<cache, made>> => CachesInv' /\ TextsGrow
  BY <1>1, <1>2, SameGrows DEF CachesInv
<1>6. CASE Produce(k, Len(made) + 1) /\ Reply(s, Gives(Len(made) + 1, keep))
  BY <1>1, <1>2, <1>4, <1>6, ProduceKeeps
<1>7. CASE Reply(s, Gives(Empty, keep)) /\ UNCHANGED <<cache, made>>
  <2>1. made \in Seq(Keys) /\ Len(made) \in Nat /\ MaxTexts \in Nat
    BY <1>2, CapsAreNaturals, LenProperties DEF CachesInv
  <2>2. Empty \in NotFound .. MaxTexts /\ Belongs(made', Empty, k)
    BY <1>7, <2>1 DEF Empty, NotFound, Belongs
  <2> QED
    BY <1>2, <1>4, <1>5, <1>7, <2>2
<1>8. CASE Reply(s, Gives(NotFound, FALSE)) /\ UNCHANGED <<cache, made>>
  <2>1. Belongs(made', NotFound, k) /\ NotFound \in NotFound .. MaxTexts
    BY <1>2, <1>8, Constants DEF CachesInv
  <2> QED
    BY <1>4, <1>5, <1>8, <2>1
<1>9. CASE Reply(s, Failed) /\ UNCHANGED <<cache, made>>
  BY <1>1, <1>2, <1>5, <1>9, Constants, GatewayKeeps DEF Reply, Goto
<1> QED
  BY <1>3, <1>6, <1>7, <1>8, <1>9

\* The gateway alone: no session notices.
LEMMA GatewayAloneKeeps ==
    ASSUME TierInv, CachesInv', TextsGrow,
           UNCHANGED <<pc, asked, reply, shown, answers, source, own, stirred>>
    PROVE  TierInv'
<1>1. AnswersGrow /\ CommandsInv
  BY SameGrows DEF TierInv
<1>2. CommandsInv'
  BY <1>1, NoneMoves
<1>3. SourceInv'
  BY SourceStays
<1> QED
  BY <1>2, <1>3 DEF TierInv

LEMMA GenerateForNobodyKeeps ==
    ASSUME TierInv, NEW k \in Keys, GenerateForNobody(k) PROVE TierInv'
<1>1. /\ orphans' \subseteq orphans
      /\ Produce(k, Len(made) + 1) \/ UNCHANGED <<cache, made>>
      /\ UNCHANGED <<pc, asked, reply, shown, answers, source, own, stirred>>
  BY DEF GenerateForNobody, routerVars
<1>2. CachesInv
  BY DEF TierInv
<1>3. CachesInv' /\ TextsGrow
  <2>1. CASE Produce(k, Len(made) + 1)
    BY <1>1, <1>2, <2>1, ProduceKeeps
  <2>2. CASE UNCHANGED <<cache, made>>
    BY <1>1, <1>2, <2>2, SameGrows DEF CachesInv
  <2> QED
    BY <1>1, <2>1, <2>2
<1> QED
  BY <1>1, <1>3, GatewayAloneKeeps

LEMMA FlushCacheKeeps == ASSUME TierInv, FlushCache PROVE TierInv'
<1>1. /\ cache' = << >> /\ UNCHANGED <<orphans, made>>
      /\ UNCHANGED <<pc, asked, reply, shown, answers, source, own, stirred>>
  BY DEF FlushCache, routerVars
<1>2. << >> \in Seq(Entry) /\ Len(<< >>) = 0 /\ GatewayCap \in Nat
  BY EmptySeq, CapsAreNaturals
<1>3. CachesInv' /\ TextsGrow
  BY <1>1, <1>2, SameGrows DEF TierInv, CachesInv, Sound, Distinct
<1> QED
  BY <1>1, <1>3, GatewayAloneKeeps

LEMMA NextTier == TierInv /\ [Next]_vars => TierInv'
<1> SUFFICES ASSUME TierInv, [Next]_vars PROVE TierInv'
  OBVIOUS
<1>1. ASSUME NEW s \in Sessions, RouterStep(s) PROVE TierInv'
  BY <1>1, RouteHandledKeeps, RouteUnsourcedKeeps, HandleAdaptiveKeeps, AnswerFromCacheKeeps,
     ReceiveKeeps, ReceiveErrorKeeps, TimesOutKeeps, AnswerScriptedKeeps, EmitResponseKeeps
     DEF RouterStep
<1>2. ASSUME NEW s \in Sessions, GatewayStep(s) PROVE TierInv'
  BY <1>2, ProcessCommandKeeps, GenerateKeeps DEF GatewayStep
<1>3. ASSUME NEW k \in Keys, GenerateForNobody(k) PROVE TierInv'
  BY <1>3, GenerateForNobodyKeeps
<1>4. CASE FlushCache
  BY <1>4, FlushCacheKeeps
<1>5. CASE UNCHANGED vars
  <2>1. /\ UNCHANGED <<pc, asked, reply, shown, answers, source, own, stirred>>
        /\ UNCHANGED <<cache, orphans, made>>
    BY <1>5 DEF vars, routerVars, gatewayVars
  <2>2. CachesInv' /\ TextsGrow
    BY <2>1, SameGrows DEF TierInv, CachesInv
  <2> QED
    BY <2>1, <2>2, GatewayAloneKeeps
<1> QED
  BY <1>1, <1>2, <1>3, <1>4, <1>5 DEF Next

-----------------------------------------------------------------------------
(* What follows from it.                                                      *)

\* The inductive invariant: entries of either cache have different keys and texts
\* made for them, and whatever a session is about to be told fits what it asked
\* (_handle_adaptive, process_command, ResponseCache).
THEOREM TierAlways == Spec => []TierInv
<1>1. Init => TierInv
  BY InitTier
<1>2. TierInv /\ [Next]_vars => TierInv'
  BY NextTier
<1> QED
  BY <1>1, <1>2, PTL DEF Spec

LEMMA TierTypes == TierInv => TypeOK
<1> SUFFICES ASSUME TierInv PROVE TypeOK
  OBVIOUS
<1>1. CachesInv /\ CommandsInv /\ SourceInv
  BY DEF TierInv
<1>2. Range(made) \subseteq Keys
  <2>1. made \in Seq(Keys)
    BY <1>1 DEF CachesInv
  <2>2. \A i \in DOMAIN made : made[i] \in Keys
    BY <2>1
  <2> QED
    BY <2>2 DEF Range
<1>3. /\ answers \in Seq(Entry) /\ Distinct(answers) /\ Len(answers) <= DecoyCap
      /\ cache \in Seq(Entry) /\ Distinct(cache) /\ Len(cache) <= GatewayCap
  BY <1>1 DEF CachesInv, Sound
<1>4. NoKeyTwice(answers) /\ NoKeyTwice(cache) /\ KeysOf(answers) \subseteq Cacheable
  BY <1>3, KeysAreCounted, Elements
<1> QED
  BY <1>1, <1>2, <1>3, <1>4
     DEF TypeOK, CachesInv, CommandsInv, SourceInv, Points, Replies, Sources

\* Both caches stay within their capacity with one entry for each key, and the
\* router's holds nothing that may not be kept (ResponseCache, response_cache).
THEOREM TypeCorrect == Spec => []TypeOK
BY TierAlways, TierTypes, PTL

\* A text is shown to whoever asked the question it was made for
\* (command_router.py, _handle_adaptive; inference/server.py, process_command).
THEOREM AnswersAlwaysFit == Spec => []AnswersFit
<1>1. TierInv => AnswersFit
  <2> SUFFICES ASSUME TierInv PROVE AnswersFit
    OBVIOUS
  <2>1. ASSUME NEW s \in Sessions, shown[s] > 0 PROVE made[shown[s]] = asked[s]
    BY <2>1 DEF TierInv, CommandsInv, CommandInv, Belongs
  <2>2. ASSUME NEW i \in DOMAIN answers, answers[i].text > 0
        PROVE  made[answers[i].text] = answers[i].key
    BY <2>2 DEF TierInv, CachesInv, Sound, Belongs
  <2> QED
    BY <2>1, <2>2 DEF AnswersFit
<1> QED
  BY <1>1, TierAlways, PTL

\* The source in an event is the session's own, unless another session's command
\* was routed while it waited (command_router.py, last_source).
THEOREM SourceAlwaysOwn == Spec => []SourceIsOwn
<1>1. TierInv => SourceIsOwn
  BY DEF TierInv, SourceInv
<1> QED
  BY <1>1, TierAlways, PTL

\* A hit that is held back is lost only at the capacity of the router's cache
\* (command_router.py, _handle_adaptive).
THEOREM LostWhenFull == Spec => LostOnlyWhenFull
<1> DEFINE P(s) == pc'[s] = "idle" /\ pc[s] \notin {"idle", "event"} =>
                       pc[s] = "delay" /\ Len(answers) = DecoyCap /\ asked[s] \notin KeysOf(answers)
<1>1. ASSUME TierInv, [Next]_vars, NEW s \in Sessions, pc'[s] = "idle", pc[s] \notin {"idle", "event"}
      PROVE  pc[s] = "delay" /\ Len(answers) = DecoyCap /\ asked[s] \notin KeysOf(answers)
  <2>1. pc \in [Sessions -> Points] /\ CommandInv(s)
    BY <1>1, CommandHere DEF CommandsInv
  <2>2. AnswerFromCache(s)
    <3>1. ASSUME NEW t \in Sessions, t # s, RouterStep(t) \/ GatewayStep(t) PROVE FALSE
      <4>1. \E l : pc' = [pc EXCEPT ![t] = l]
        BY <3>1 DEF RouterStep, GatewayStep, RouteHandled, RouteUnsourced, HandleAdaptive,
             AnswerFromCache, Receive, ReceiveError, TimesOut, AnswerScripted, EmitResponse,
             ProcessCommand, Generate, Show, Finish, Goto, Reply
      <4> QED
        BY <1>1, <2>1, <3>1, <4>1
    <3>2. RouterStep(s) => AnswerFromCache(s)
      BY <1>1, <2>1 DEF RouterStep, RouteHandled, RouteUnsourced, HandleAdaptive,
           AnswerFromCache, Receive, ReceiveError, TimesOut, AnswerScripted, EmitResponse,
           Show, Finish, Goto
    <3>3. ~ GatewayStep(s)
      BY <1>1, <2>1 DEF GatewayStep, ProcessCommand, Generate, Reply, Goto
    <3>4. ASSUME NEW k \in Keys, GenerateForNobody(k) PROVE FALSE
      BY <1>1, <3>4 DEF GenerateForNobody
    <3>5. ~ FlushCache
      BY <1>1 DEF FlushCache
    <3>6. ~ UNCHANGED vars
      BY <1>1 DEF vars
    <3> QED
      BY <1>1, <3>1, <3>2, <3>3, <3>4, <3>5, <3>6 DEF Next
  <2>3. pc[s] = "delay" /\ asked[s] \notin KeysOf(answers)
    BY <1>1, <2>1, <2>2 DEF AnswerFromCache, Show, Goto
  <2> QED
    BY <2>1, <2>3 DEF CommandInv
<1>2. TierInv /\ [Next]_vars => [\A s \in Sessions : P(s)]_vars
  BY <1>1
<1> HIDE DEF P
<1>3. Spec => [][\A s \in Sessions : P(s)]_vars
  BY <1>2, TierAlways, PTL DEF Spec
<1> QED
  BY <1>3 DEF LostOnlyWhenFull, P

-----------------------------------------------------------------------------
(* Numbers, and folds as functions.                                          *)

\* Numbers have a least one: what stands for induction below.
LEMMA LeastNumber ==
    ASSUME NEW T \in SUBSET Nat, T # {}
    PROVE  \E x \in T : \A y \in T : x <= y
<1>1. PICK x \in T : \A y \in T : ~ (<<y, x>> \in OpToRel(<, Nat))
  BY NatLessThanWellFounded, WFMin
<1>2. \A y \in T : ~ (y < x)
  BY <1>1 DEF OpToRel
<1> QED
  BY <1>2

\* Induction up to a number, for a set.
LEMMA StepByStep ==
    ASSUME NEW N \in Nat, NEW P, 0 \in P, \A i \in 1 .. N : i - 1 \in P => i \in P
    PROVE  \A i \in 0 .. N : i \in P
<1> SUFFICES ASSUME {i \in 0 .. N : i \notin P} # {}
             PROVE  FALSE
  OBVIOUS
<1>0. {i \in 0 .. N : i \notin P} \in SUBSET Nat
  OBVIOUS
<1>1. PICK x \in {i \in 0 .. N : i \notin P} : \A y \in {i \in 0 .. N : i \notin P} : x <= y
  BY <1>0, LeastNumber
<1>2. x # 0 /\ x \in 1 .. N /\ x - 1 \in 0 .. N
  BY <1>1
<1>3. x - 1 \in P
  BY <1>1, <1>2
<1> QED
  BY <1>1, <1>2, <1>3

\* A function over the sets of numbers up to N: a fold, as the library defines it.
LEMMA Max1 ==
    ASSUME NEW n \in Nat, NEW s \in SUBSET (1 .. n), n \in s
    PROVE  Max(s) = n
<1>1. \A x \in s : (\A y \in s : x >= y) <=> x = n
  OBVIOUS
<1> QED
  BY <1>1 DEF Max

\* The greatest of a set of numbers is one of them.
LEMMA MaxIn ==
    ASSUME NEW N \in Nat, NEW s \in SUBSET (1 .. N), s # {}
    PROVE  Max(s) \in s /\ Max(s) \in 1 .. N /\ \A y \in s : y <= Max(s)
<1> DEFINE T == {k \in Nat : N - k \in s}
<1>1. PICK i \in s : TRUE
  OBVIOUS
<1>2. i \in Nat /\ i <= N
  OBVIOUS
<1>3. N - i \in T
  BY <1>2
<1>4. PICK x \in T : \A y \in T : x <= y
  BY <1>3, LeastNumber
<1>5. N - x \in s
  OBVIOUS
<1>6. ASSUME NEW y \in s PROVE N - x >= y
  <2>1. y \in Nat /\ y <= N
    OBVIOUS
  <2>2. N - y \in T
    BY <2>1
  <2> QED
    BY <1>4, <2>1, <2>2
<1> HIDE DEF T
<1>7. Max(s) \in s /\ \A y \in s : Max(s) >= y
  BY <1>5, <1>6, Zenon DEF Max
<1>8. \A y \in s : y \in Int
  OBVIOUS
<1> QED
  BY <1>7, <1>8

IsFold(f, N, base, step) ==
    \A s \in SUBSET (1 .. N) :
        f[s] = IF s = {} THEN base ELSE step[<<f[s \ {Max(s)}], Max(s)>>]

\* A function as the folds of the library define one, and so the one they choose.
LEMMA FoldExists ==
    ASSUME NEW N \in Nat, NEW A, NEW base \in A, NEW step \in [A \X (1 .. N) -> A]
    PROVE  \E f \in [SUBSET (1 .. N) -> A] : IsFold(f, N, base, step)
<1> DEFINE Folds(n, f) == \A s \in SUBSET (1 .. n) :
                 f[s] = IF s = {} THEN base ELSE step[<<f[s \ {Max(s)}], Max(s)>>]
           P == {n \in 0 .. N : \E f \in [SUBSET (1 .. n) -> A] : Folds(n, f)}
<1>1. 0 \in P
  <2>1. SUBSET (1 .. 0) = {{}}
    OBVIOUS
  <2>2. [s \in SUBSET (1 .. 0) |-> base] \in [SUBSET (1 .. 0) -> A]
           /\ Folds(0, [s \in SUBSET (1 .. 0) |-> base])
    BY <2>1
  <2>3. 0 \in 0 .. N
    OBVIOUS
  <2> HIDE DEF Folds
  <2> QED
    BY <2>2, <2>3
<1>2. ASSUME NEW n \in 1 .. N, n - 1 \in P PROVE n \in P
  <2>1. PICK f \in [SUBSET (1 .. (n - 1)) -> A] : Folds(n - 1, f)
    BY <1>2
  <2> DEFINE g == [s \in SUBSET (1 .. n) |-> IF n \in s THEN step[<<f[s \ {n}], n>>] ELSE f[s]]
  <2>2. \A s \in SUBSET (1 .. n) : n \notin s => s \in SUBSET (1 .. (n - 1))
    OBVIOUS
  <2>3. \A s \in SUBSET (1 .. n) : s \ {n} \in SUBSET (1 .. (n - 1))
    OBVIOUS
  <2>4. g \in [SUBSET (1 .. n) -> A]
    <3> SUFFICES ASSUME NEW s \in SUBSET (1 .. n)
                 PROVE  (IF n \in s THEN step[<<f[s \ {n}], n>>] ELSE f[s]) \in A
      OBVIOUS
    <3>1. f[s \ {n}] \in A
      BY <2>3
    <3>2. <<f[s \ {n}], n>> \in A \X (1 .. N)
      BY <3>1
    <3>3. step[<<f[s \ {n}], n>>] \in A
      BY <3>2
    <3> QED
      BY <2>2, <3>3
  <2>5. ASSUME NEW s \in SUBSET (1 .. n), n \in s
        PROVE  g[s] = IF s = {} THEN base ELSE step[<<g[s \ {Max(s)}], Max(s)>>]
    <3>1. Max(s) = n
      BY <2>5, Max1
    <3>2. g[s \ {n}] = f[s \ {n}]
      BY <2>3
    <3> QED
      BY <3>1, <3>2, <2>5
  <2>6. ASSUME NEW s \in SUBSET (1 .. n), n \notin s
        PROVE  g[s] = IF s = {} THEN base ELSE step[<<g[s \ {Max(s)}], Max(s)>>]
    <3>1. g[s] = f[s] /\ s \in SUBSET (1 .. (n - 1))
      BY <2>2, <2>6
    <3>2. g[s \ {Max(s)}] = f[s \ {Max(s)}]
      BY <2>6
    <3>3. f[s] = IF s = {} THEN base ELSE step[<<f[s \ {Max(s)}], Max(s)>>]
      BY <2>1, <3>1
    <3> QED
      BY <3>1, <3>2, <3>3
  <2>7. Folds(n, g)
    BY <2>5, <2>6
  <2>8. n \in 0 .. N
    OBVIOUS
  <2> HIDE DEF Folds, g
  <2> QED
    BY <2>4, <2>7, <2>8
<1> HIDE DEF P
<1>3. N \in P
  BY <1>1, <1>2, StepByStep
<1> QED
  BY <1>3 DEF P, IsFold

-----------------------------------------------------------------------------
(* Ascending: the members of a set of places in order.                       *)

Increasing(p, m) == \A i, j \in 1 .. m : i < j => p[i] < p[j]
Image(p, m) == {p[i] : i \in 1 .. m}

\* An increasing list of numbers has as many members as places.
LEMMA ImageSize ==
    ASSUME NEW m \in Nat, NEW p \in [1 .. m -> Nat], Increasing(p, m)
    PROVE  IsFiniteSet(Image(p, m)) /\ Cardinality(Image(p, m)) = m
<1>1. \A i, j \in 1 .. m : p[i] = p[j] => i = j
  BY DEF Increasing
<1>2. p \in Bijection(1 .. m, Image(p, m))
  BY <1>1 DEF Image, Bijection, Injection, Surjection, IsInjective
<1>3. ExistsBijection(1 .. m, Image(p, m))
  BY <1>2 DEF ExistsBijection
<1> QED
  BY <1>3, FS_CountingElements, FS_NatBijection

\* Ascending returns the one increasing list of the members.
LEMMA Enumerated ==
    ASSUME NEW m \in Nat, NEW p \in [1 .. m -> Nat], Increasing(p, m)
    PROVE  Ascending(Image(p, m)) = p /\ Cardinality(Image(p, m)) = m
<1> DEFINE S == Image(p, m)
<1>1. Cardinality(S) = m
  BY ImageSize
<1>2. ASSUME NEW k \in 1 .. m
      PROVE  Cardinality({j \in S : j <= p[k]}) = k
  <2> DEFINE q == [i \in 1 .. k |-> p[i]]
  <2>1. k \in Nat /\ q \in [1 .. k -> Nat] /\ Increasing(q, k)
    BY DEF Increasing
  <2>2. \A i \in 1 .. m : p[i] <= p[k] <=> i <= k
    BY DEF Increasing
  <2>3. {j \in S : j <= p[k]} = Image(q, k)
    BY <2>2 DEF Image
  <2> QED
    BY <2>1, <2>3, ImageSize
<1>3. ASSUME NEW k \in 1 .. m
      PROVE  (CHOOSE i \in S : Cardinality({j \in S : j <= i}) = k) = p[k]
  <2>1. p[k] \in S /\ Cardinality({j \in S : j <= p[k]}) = k
    BY <1>2 DEF Image
  <2>2. ASSUME NEW i \in S, Cardinality({j \in S : j <= i}) = k
        PROVE  i = p[k]
    <3>1. PICK h \in 1 .. m : i = p[h]
      BY DEF Image
    <3>2. h = k
      BY <1>2, <2>2, <3>1
    <3> QED
      BY <3>1, <3>2
  <2> HIDE DEF S
  <2> QED
    BY <2>1, <2>2
<1>4. Ascending(S) = [k \in 1 .. m |-> p[k]]
  BY <1>1, <1>3, Zenon DEF Ascending
<1> QED
  BY <1>1, <1>4

\* Every set of places has such a list.
LEMMA Enumerates ==
    ASSUME NEW n \in Nat, NEW S \in SUBSET (1 .. n)
    PROVE  \E m \in Nat : \E p \in [1 .. m -> 1 .. n] : Increasing(p, m) /\ S = Image(p, m)
<1> DEFINE Enum(k, m, p) == Increasing(p, m) /\ S \cap (1 .. k) = Image(p, m)
           P == {k \in 0 .. n : \E m \in Nat : \E p \in [1 .. m -> 1 .. n] : Enum(k, m, p)}
<1>1. 0 \in P
  <2>1. [i \in 1 .. 0 |-> 1] \in [1 .. 0 -> 1 .. n] /\ Enum(0, 0, [i \in 1 .. 0 |-> 1])
    BY DEF Increasing, Image
  <2>2. 0 \in Nat /\ 0 \in 0 .. n
    OBVIOUS
  <2> HIDE DEF Enum
  <2> QED
    BY <2>1, <2>2
<1>2. ASSUME NEW k \in 1 .. n, k - 1 \in P PROVE k \in P
  <2>1. PICK m \in Nat : \E p \in [1 .. m -> 1 .. n] : Enum(k - 1, m, p)
    BY <1>2
  <2>2. PICK p \in [1 .. m -> 1 .. n] : Enum(k - 1, m, p)
    BY <2>1
  <2>3. CASE k \notin S
    <3>1. Enum(k, m, p)
      BY <2>2, <2>3
    <3> HIDE DEF Enum
    <3> QED
      BY <3>1
  <2>4. CASE k \in S
    <3> DEFINE q == [i \in 1 .. (m + 1) |-> IF i <= m THEN p[i] ELSE k]
    <3>1. q \in [1 .. (m + 1) -> 1 .. n]
      OBVIOUS
    <3>2. \A i \in 1 .. m : p[i] < k
      <4>1. \A i \in 1 .. m : p[i] \in S \cap (1 .. (k - 1))
        BY <2>2 DEF Image
      <4> QED
        BY <4>1
    <3>3. Increasing(q, m + 1)
      BY <2>2, <3>2 DEF Increasing
    <3>4. Image(q, m + 1) = Image(p, m) \cup {k}
      BY DEF Image
    <3>5. S \cap (1 .. k) = (S \cap (1 .. (k - 1))) \cup {k}
      BY <2>4
    <3>6. Enum(k, m + 1, q) /\ m + 1 \in Nat
      BY <2>2, <3>3, <3>4, <3>5
    <3> HIDE DEF Enum, q
    <3> QED
      BY <3>1, <3>6
  <2> QED
    BY <2>3, <2>4
<1> HIDE DEF P
<1>3. n \in P
  BY <1>1, <1>2, StepByStep
<1>4. S \cap (1 .. n) = S
  OBVIOUS
<1> QED
  BY <1>3, <1>4 DEF P

\* So Ascending of a set of places is an increasing list of them, all of them.
LEMMA AscendingIs ==
    ASSUME NEW n \in Nat, NEW S \in SUBSET (1 .. n)
    PROVE  /\ Cardinality(S) \in Nat /\ Ascending(S) \in [1 .. Cardinality(S) -> 1 .. n]
           /\ Increasing(Ascending(S), Cardinality(S)) /\ S = Image(Ascending(S), Cardinality(S))
<1>1. PICK m \in Nat : \E p \in [1 .. m -> 1 .. n] : Increasing(p, m) /\ S = Image(p, m)
  BY Enumerates
<1>2. PICK p \in [1 .. m -> 1 .. n] : Increasing(p, m) /\ S = Image(p, m)
  BY <1>1
<1>3. p \in [1 .. m -> Nat]
  OBVIOUS
<1>4. Ascending(S) = p /\ Cardinality(S) = m
  BY <1>2, <1>3, Enumerated
<1> QED
  BY <1>2, <1>4

\* The places up to i without the last.
LEMMA Intervals ==
    ASSUME NEW N \in Nat, NEW i \in 1 .. N
    PROVE  /\ 1 .. i \in SUBSET (1 .. N) /\ 1 .. i # {} /\ Max(1 .. i) = i
           /\ (1 .. i) \ {i} = 1 .. (i - 1)
<1>1. 1 .. i \in SUBSET (1 .. N) /\ 1 .. i # {} /\ i \in 1 .. i /\ i \in Nat
  OBVIOUS
<1>2. Max(1 .. i) = i
  BY <1>1, Max1
<1>3. (1 .. i) \ {i} = 1 .. (i - 1)
  OBVIOUS
<1> QED
  BY <1>1, <1>2, <1>3

\* Among, one line after another.
LEMMA AmongSteps ==
    ASSUME NEW E, NEW ls \in Seq(E), NEW K
    PROVE  \E g : /\ g[0] = << >>
                  /\ \A i \in 1 .. Len(ls) : g[i] = IF ls[i] \in K THEN Append(g[i - 1], ls[i])
                                                    ELSE g[i - 1]
                  /\ Among(ls, K) = g[Len(ls)]
<1> DEFINE N == Len(ls)
           iter == CHOOSE iter : iter = [s \in SUBSET (1 .. N) |->
                      IF s = {} THEN << >>
                      ELSE IF ls[Max(s)] \in K THEN Append(iter[s \ {Max(s)}], ls[Max(s)])
                           ELSE iter[s \ {Max(s)}]]
           step == [p \in Seq(E) \X (1 .. N) |-> IF ls[p[2]] \in K THEN Append(p[1], ls[p[2]]) ELSE p[1]]
<1>1. N \in Nat /\ DOMAIN ls = 1 .. N /\ \A i \in 1 .. N : ls[i] \in E
  BY ElementOfSeq
<1>2. Among(ls, K) = iter[1 .. N]
  BY <1>1 DEF Among, FoldLeft, MapThenFoldSet
<1>3. step \in [Seq(E) \X (1 .. N) -> Seq(E)]
  BY <1>1
<1>4. << >> \in Seq(E)
  OBVIOUS
<1>5. \E f \in [SUBSET (1 .. N) -> Seq(E)] : IsFold(f, N, << >>, step)
  <2>1. N \in Nat
    BY <1>1
  <2> HIDE DEF step, N, iter
  <2> QED
    BY ONLY <2>1, <1>3, <1>4, FoldExists
<1>6. PICK f \in [SUBSET (1 .. N) -> Seq(E)] : IsFold(f, N, << >>, step)
  BY <1>5
<1>7. f = [s \in SUBSET (1 .. N) |->
                      IF s = {} THEN << >>
                      ELSE IF ls[Max(s)] \in K THEN Append(f[s \ {Max(s)}], ls[Max(s)])
                           ELSE f[s \ {Max(s)}]]
  <2>1. ASSUME NEW s \in SUBSET (1 .. N), s # {}
        PROVE  step[<<f[s \ {Max(s)}], Max(s)>>] =
                 IF ls[Max(s)] \in K THEN Append(f[s \ {Max(s)}], ls[Max(s)]) ELSE f[s \ {Max(s)}]
    <3>1. Max(s) \in 1 .. N
      BY <1>1, <2>1, MaxIn
    <3>2. f[s \ {Max(s)}] \in Seq(E)
      OBVIOUS
    <3> QED
      BY <3>1, <3>2
  <2> HIDE DEF step
  <2> QED
    BY <1>6, <2>1 DEF IsFold
<1>8. iter = [s \in SUBSET (1 .. N) |->
                      IF s = {} THEN << >>
                      ELSE IF ls[Max(s)] \in K THEN Append(iter[s \ {Max(s)}], ls[Max(s)])
                           ELSE iter[s \ {Max(s)}]]
  BY <1>7, Zenon
<1> HIDE DEF iter, step, N
<1> DEFINE g == [i \in 0 .. N |-> iter[1 .. i]]
<1>9. g[0] = << >>
  <2>1. 1 .. 0 = {} /\ {} \in SUBSET (1 .. N) /\ 0 \in 0 .. N
    BY <1>1
  <2> QED
    BY <1>8, <2>1
<1>10. ASSUME NEW i \in 1 .. N
      PROVE  g[i] = IF ls[i] \in K THEN Append(g[i - 1], ls[i]) ELSE g[i - 1]
  <2>1. i \in 0 .. N /\ i - 1 \in 0 .. N
    BY <1>1
  <2>2. 1 .. i \in SUBSET (1 .. N) /\ 1 .. i # {} /\ Max(1 .. i) = i /\ (1 .. i) \ {i} = 1 .. (i - 1)
    BY <1>1, Intervals
  <2>3. iter[1 .. i] = IF ls[i] \in K THEN Append(iter[1 .. (i - 1)], ls[i]) ELSE iter[1 .. (i - 1)]
    BY <1>8, <2>2, Zenon
  <2> QED
    BY <2>1, <2>3
<1>11. Among(ls, K) = g[N]
  BY <1>1, <1>2
<1> HIDE DEF g
<1> QED
  BY <1>9, <1>10, <1>11 DEF N

\* One more number, above all the others.
With(p, m, k) == [i \in 1 .. (m + 1) |-> IF i <= m THEN p[i] ELSE k]

\* A place above the others goes to the end of the list.
LEMMA EnumeratedNext ==
    ASSUME NEW n \in Nat, NEW m \in Nat, NEW p \in [1 .. m -> 1 .. n], Increasing(p, m),
           NEW k \in Nat, k > n
    PROVE  /\ With(p, m, k) \in [1 .. (m + 1) -> 1 .. k] /\ Increasing(With(p, m, k), m + 1)
           /\ \A i : i \in Image(With(p, m, k), m + 1) <=> i \in Image(p, m) \/ i = k
<1>1. With(p, m, k) \in [1 .. (m + 1) -> 1 .. k]
  BY DEF With
<1>2. Increasing(With(p, m, k), m + 1)
  BY DEF Increasing, With
<1>3. \A i : i \in Image(With(p, m, k), m + 1) <=> i \in Image(p, m) \/ i = k
  BY DEF Image, With
<1> QED
  BY <1>1, <1>2, <1>3

\* Keeping lines by what they are keeps the places that hold them, in order.
LEMMA AmongPlaces ==
    ASSUME NEW E, NEW ls \in Seq(E), NEW K
    PROVE  /\ Among(ls, K) = LinesAt(ls, {i \in 1 .. Len(ls) : ls[i] \in K})
           /\ Among(ls, K) \in Seq(E)
<1> DEFINE N == Len(ls)
           Pl(k) == {i \in 1 .. k : ls[i] \in K}
<1>1. N \in Nat /\ DOMAIN ls = 1 .. N /\ \A i \in 1 .. N : ls[i] \in E
  BY ElementOfSeq
<1>2. PICK g : /\ g[0] = << >>
               /\ \A i \in 1 .. N : g[i] = IF ls[i] \in K THEN Append(g[i - 1], ls[i]) ELSE g[i - 1]
               /\ Among(ls, K) = g[N]
  BY AmongSteps
<1> DEFINE Enum(k, m, p) ==
             /\ Increasing(p, m) /\ Pl(k) = Image(p, m)
             /\ g[k] \in Seq(E) /\ Len(g[k]) = m /\ \A h \in 1 .. m : g[k][h] = ls[p[h]]
           P == {k \in 0 .. N : \E m \in Nat : \E p \in [1 .. m -> 1 .. k] : Enum(k, m, p)}
<1>3. 0 \in P
  <2>1. [i \in 1 .. 0 |-> 1] \in [1 .. 0 -> 1 .. 0] /\ Enum(0, 0, [i \in 1 .. 0 |-> 1])
    BY <1>2 DEF Increasing, Image
  <2>2. 0 \in Nat /\ 0 \in 0 .. N
    BY <1>1
  <2> HIDE DEF Enum, N
  <2> QED
    BY <2>1, <2>2
<1>4. ASSUME NEW k \in 1 .. N, k - 1 \in P PROVE k \in P
  <2>0. k \in Nat /\ k - 1 \in Nat /\ k > k - 1 /\ k \in 0 .. N /\ 1 .. (k - 1) \subseteq 1 .. k
    BY <1>1
  <2>1. PICK m \in Nat : \E p \in [1 .. m -> 1 .. (k - 1)] : Enum(k - 1, m, p)
    BY <1>4
  <2>2. PICK p \in [1 .. m -> 1 .. (k - 1)] : Enum(k - 1, m, p)
    BY <2>1
  <2> HIDE DEF N
  <2>3. CASE ls[k] \notin K
    <3>1. g[k] = g[k - 1]
      BY <1>2, <2>3 DEF N
    <3>2. Pl(k) = Pl(k - 1)
      BY <2>0, <2>3
    <3>3. Enum(k, m, p)
      BY <2>2, <3>1, <3>2
    <3>4. p \in [1 .. m -> 1 .. k]
      BY <2>0
    <3> HIDE DEF Enum
    <3> QED
      BY <2>0, <3>3, <3>4
  <2>4. CASE ls[k] \in K
    <3> DEFINE q == With(p, m, k)
    <3>1. /\ q \in [1 .. (m + 1) -> 1 .. k] /\ Increasing(q, m + 1)
          /\ \A i : i \in Image(q, m + 1) <=> i \in Image(p, m) \/ i = k
      <4> DEFINE n == k - 1
      <4>1. Increasing(p, m) /\ n \in Nat /\ k \in Nat /\ k > n /\ p \in [1 .. m -> 1 .. n]
        BY <2>0, <2>2
      <4> HIDE DEF n, Enum
      <4> QED
        BY <4>1, EnumeratedNext
    <3>2. Pl(k) = Pl(k - 1) \cup {k}
      BY <2>0, <2>4
    <3>3. g[k] = Append(g[k - 1], ls[k]) /\ ls[k] \in E
      BY <1>1, <1>2, <2>4 DEF N
    <3>4. /\ g[k] \in Seq(E) /\ Len(g[k]) = m + 1
          /\ \A h \in 1 .. m : g[k][h] = ls[p[h]]
          /\ g[k][m + 1] = ls[k]
      BY <2>2, <3>3, AppendProperties
    <3>5. \A h \in 1 .. (m + 1) : g[k][h] = ls[q[h]]
      BY <3>4 DEF With
    <3> HIDE DEF q
    <3>6. Enum(k, m + 1, q) /\ m + 1 \in Nat
      BY <2>2, <3>1, <3>2, <3>4, <3>5
    <3> HIDE DEF Enum
    <3> QED
      BY <2>0, <3>1, <3>6
  <2> QED
    BY <2>3, <2>4
<1>5. N \in P
  <2> HIDE DEF P, N
  <2> QED
    BY <1>1, <1>3, <1>4, StepByStep
<1>6. PICK m \in Nat : \E p \in [1 .. m -> 1 .. N] : Enum(N, m, p)
  BY <1>5
<1>7. PICK p \in [1 .. m -> 1 .. N] : Enum(N, m, p)
  BY <1>6
<1>8. p \in [1 .. m -> Nat]
  BY <1>1
<1>9. Ascending(Pl(N)) = p /\ Cardinality(Pl(N)) = m
  BY <1>7, <1>8, Enumerated
<1>10. g[N] = [h \in 1 .. m |-> ls[p[h]]]
  <2>1. g[N] \in Seq(E) /\ Len(g[N]) = m /\ \A h \in 1 .. m : g[N][h] = ls[p[h]]
    BY <1>7
  <2> HIDE DEF N, P, Pl
  <2> QED
    BY <2>1
<1> QED
  BY <1>2, <1>7, <1>9, <1>10 DEF LinesAt

-----------------------------------------------------------------------------
(* Filters that keep, count or cut lines.                                    *)

\* A slice keeps the places between its ends.
LEMMA SliceIs ==
    ASSUME NEW E, NEW ls \in Seq(E), NEW a \in Nat \ {0}, NEW b \in Int, b <= Len(ls)
    PROVE  SubSeq(ls, a, b) = LinesAt(ls, {i \in 1 .. Len(ls) : a <= i /\ i <= b})
<1> DEFINE N == Len(ls)
           S == {i \in 1 .. N : a <= i /\ i <= b}
           m == IF a <= b THEN b - a + 1 ELSE 0
           p == [i \in 1 .. m |-> a + i - 1]
<1>1. N \in Nat /\ \A i \in 1 .. N : ls[i] \in E
  BY ElementOfSeq
<1>2. m \in Nat /\ p \in [1 .. m -> Nat] /\ Increasing(p, m)
  BY DEF Increasing
<1>3. \A i : i \in S <=> i \in Image(p, m)
  <2>1. ASSUME NEW i \in S PROVE i \in Image(p, m)
    <3>1. i - a + 1 \in 1 .. m /\ p[i - a + 1] = i
      BY <1>1
    <3> HIDE DEF p, m
    <3> QED
      BY <3>1 DEF Image
  <2>2. ASSUME NEW i \in Image(p, m) PROVE i \in S
    <3>1. PICK h \in 1 .. m : i = p[h]
      BY DEF Image
    <3> QED
      BY <1>1, <3>1
  <2> QED
    BY <2>1, <2>2
<1>4. S = Image(p, m)
  BY <1>3
<1>5. Ascending(S) = p /\ Cardinality(S) = m
  BY <1>2, <1>4, Enumerated
<1>6. \A i \in a .. b : ls[i] \in E
  BY <1>1
<1>7. /\ SubSeq(ls, a, b) \in Seq(E) /\ Len(SubSeq(ls, a, b)) = m
      /\ \A i \in 1 .. b - a + 1 : SubSeq(ls, a, b)[i] = ls[a + i - 1]
  <2>1. a \in Int /\ b \in Int
    OBVIOUS
  <2> QED
    BY <1>6, <2>1, SubSeqProperties
<1>8. SubSeq(ls, a, b) = [i \in 1 .. m |-> ls[p[i]]]
  BY <1>2, <1>7
<1> HIDE DEF S, m, p
<1> QED
  BY <1>5, <1>8 DEF LinesAt, S

\* The fields of a text.
LEMMA LinesOf ==
    ASSUME NEW t \in Text
    PROVE  /\ t.lines \in Seq(Seq(Nat)) /\ Len(t.lines) \in Nat /\ DOMAIN t.lines = 1 .. Len(t.lines)
           /\ \A i \in 1 .. Len(t.lines) : t.lines[i] \in Seq(Nat)
           /\ t.ended \in BOOLEAN
<1>1. t.lines \in Seq(Seq(Nat)) /\ t.ended \in BOOLEAN
  BY DEF Text
<1> QED
  BY <1>1, ElementOfSeq

\* head keeps the first lines.
LEMMA HeadAgrees ==
    ASSUME NEW t \in Text, NEW f, f.cmd = "head", IsFilter(f), ~Differs(f, t)
    PROVE  Program(f, t.lines, ApplyPipe(f, t).lines)
<1> DEFINE ls == t.lines
           N == Len(ls)
           b == Least(N, IF f.n >= 0 THEN f.n ELSE N + f.n)
<1>1. f.n \in Int
  BY DEF IsFilter
<1>2. N \in Nat /\ DOMAIN ls = 1 .. N /\ ls \in Seq(Seq(Nat))
  BY LinesOf
<1>3. ApplyPipe(f, t) = EndedUnlessEmpty(Upto(f.n, ls))
  BY DEF ApplyPipe, PipeHead
<1>4. Upto(f.n, ls) # << << >> >>
  BY DEF Differs
<1>5. ApplyPipe(f, t).lines = Upto(f.n, ls)
  BY <1>3, <1>4 DEF EndedUnlessEmpty, Ended
<1>6. Upto(f.n, ls) = SubSeq(ls, 1, b)
  BY DEF Upto
<1>7. b \in Int /\ b <= N
  BY <1>1, <1>2 DEF Least
<1>8. SubSeq(ls, 1, b) = LinesAt(ls, {i \in 1 .. N : 1 <= i /\ i <= b})
  <2>1. 1 \in Nat \ {0} /\ b <= Len(ls) /\ ls \in Seq(Seq(Nat))
    BY <1>2, <1>7
  <2> HIDE DEF b, ls
  <2> QED
    BY <1>7, <2>1, SliceIs
<1>9. {i \in 1 .. N : 1 <= i /\ i <= b} = {i \in DOMAIN ls : i <= IF f.n >= 0 THEN f.n ELSE N + f.n}
  BY <1>1, <1>2 DEF Least
<1>10. Program(f, ls, LinesAt(ls, {i \in DOMAIN ls : i <= IF f.n >= 0 THEN f.n ELSE N + f.n}))
  BY DEF Program, KeptLines
<1> QED
  BY <1>5, <1>6, <1>8, <1>9, <1>10

\* tail keeps the last lines.
LEMMA TailAgrees ==
    ASSUME NEW t \in Text, NEW f, f.cmd = "tail", IsFilter(f), ~Differs(f, t)
    PROVE  Program(f, t.lines, ApplyPipe(f, t).lines)
<1> DEFINE ls == t.lines
           N == Len(ls)
           a == N - Least(f.n, N) + 1
<1>1. f.n \in Int /\ f.n > 0 /\ ~f.plus /\ LastOf(f.n, ls) # << << >> >>
  BY DEF IsFilter, Differs
<1>2. N \in Nat /\ DOMAIN ls = 1 .. N /\ ls \in Seq(Seq(Nat))
  BY LinesOf
<1>3. ApplyPipe(f, t) = EndedUnlessEmpty(LastOf(f.n, ls))
  BY <1>1 DEF ApplyPipe, PipeTail
<1>4. ApplyPipe(f, t).lines = LastOf(f.n, ls)
  BY <1>1, <1>3 DEF EndedUnlessEmpty, Ended
<1>5. LastOf(f.n, ls) = SubSeq(ls, a, N)
  <2>1. CASE f.n >= N
    <3>1. a = 1
      BY <1>1, <1>2, <2>1 DEF Least
    <3> QED
      BY <1>2, <2>1, <3>1, SubSeqFull DEF LastOf
  <2>2. CASE f.n < N
    <3>1. a = N + (-f.n) + 1 /\ ~(-f.n >= 0)
      BY <1>1, <1>2, <2>2 DEF Least
    <3>2. LastOf(f.n, ls) = From(-f.n, ls)
      BY <1>1, <1>2, <2>2 DEF LastOf
    <3>3. From(-f.n, ls) = SubSeq(ls, N + (-f.n) + 1, N)
      BY <3>1, Zenon DEF From
    <3> QED
      BY <3>1, <3>2, <3>3
  <2> QED
    BY <1>1, <1>2, <2>1, <2>2
<1>6. a \in Nat \ {0} /\ N \in Int /\ N <= N
  BY <1>1, <1>2 DEF Least
<1>7. SubSeq(ls, a, N) = LinesAt(ls, {i \in 1 .. N : a <= i /\ i <= N})
  <2> HIDE DEF a, ls
  <2> QED
    BY <1>2, <1>6, SliceIs
<1>8. {i \in 1 .. N : a <= i /\ i <= N} = {i \in DOMAIN ls : i > N - Least(f.n, N)}
  BY <1>1, <1>2 DEF Least
<1>9. Program(f, ls, LinesAt(ls, {i \in DOMAIN ls : i > N - Least(f.n, N)}))
  BY <1>1 DEF Program, KeptLines
<1> QED
  BY <1>4, <1>5, <1>7, <1>8, <1>9

\* wc counts lines and fields.
LEMMA WcAgrees ==
    ASSUME NEW t \in Text, NEW f, f.cmd = "wc", ~Differs(f, t)
    PROVE  Program(f, t.lines, ApplyPipe(f, t).lines)
<1>1. t.ended /\ Len(t.lines) \in Nat
  BY LinesOf DEF Differs
<1>2. ApplyPipe(f, t).lines = << <<Len(t.lines)>> >>
  BY <1>1 DEF ApplyPipe, PipeWc, NewLines, Ended
<1> QED
  BY <1>2 DEF Program

\* less and tee print what they read.
LEMMA PassesOn ==
    ASSUME NEW t \in Text, NEW f, f.cmd \in {"less", "tee"}
    PROVE  Program(f, t.lines, ApplyPipe(f, t).lines)
<1>1. ApplyPipe(f, t) = t
  BY DEF ApplyPipe, PassThrough
<1> QED
  BY <1>1 DEF Program

\* Flags that are looked up as the first letter of a token are all the flags
\* when no token has a second one.
LEMMA FlagsAreFound ==
    ASSUME NEW tokens \in Seq(Seq({"v", "c"}) \ {<< >>}), \A k \in DOMAIN tokens : ~(Len(tokens[k]) > 1)
    PROVE  \A x : HasToken(tokens, x) <=> x \in Flags(tokens)
<1>1. DOMAIN tokens = 1 .. Len(tokens)
  OBVIOUS
<1>2. ASSUME NEW k \in DOMAIN tokens
      PROVE  tokens[k] \in Seq({"v", "c"}) /\ Len(tokens[k]) = 1
  <2>1. tokens[k] \in Seq({"v", "c"}) \ {<< >>}
    BY <1>1, ElementOfSeq
  <2> DEFINE n == Len(tokens[k])
  <2>2. n \in Nat \ {0}
    BY <2>1, EmptySeq
  <2>3. ~(n > 1)
    OBVIOUS
  <2> HIDE DEF n
  <2>4. n = 1
    BY ONLY <2>2, <2>3
  <2> QED
    BY <2>1, <2>4 DEF n
<1>3. \A k \in DOMAIN tokens : Range(tokens[k]) = {tokens[k][1]}
  <2>1. ASSUME NEW k \in DOMAIN tokens
        PROVE  DOMAIN tokens[k] = {1}
    BY <1>2
  <2> QED
    BY <2>1 DEF Range
<1> QED
  BY <1>3, Zenon DEF HasToken, Flags

\* grep keeps the lines that match, or counts them.
LEMMA GrepAgrees ==
    ASSUME NEW t \in Text, NEW f, f.cmd = "grep", IsFilter(f), ~Differs(f, t)
    PROVE  Program(f, t.lines, ApplyPipe(f, t).lines)
<1> DEFINE ls == t.lines
           v == HasToken(f.tokens, "v")
           c == HasToken(f.tokens, "c")
           K == {l \in Range(ls) : f.pattern \in Range(l) <=> ~v}
           S == {i \in DOMAIN ls :
                   (\E k \in DOMAIN ls[i] : ls[i][k] = f.pattern) <=> "v" \notin Flags(f.tokens)}
<1>1. f.tokens \in Seq(Seq({"v", "c"}) \ {<< >>}) /\ \A k \in DOMAIN f.tokens : ~(Len(f.tokens[k]) > 1)
  BY DEF IsFilter, Differs
<1>2. (v <=> "v" \in Flags(f.tokens)) /\ (c <=> "c" \in Flags(f.tokens))
  BY <1>1, FlagsAreFound
<1>3. ls \in Seq(Seq(Nat)) /\ DOMAIN ls = 1 .. Len(ls)
  BY LinesOf
<1>4. Among(ls, K) = LinesAt(ls, {i \in 1 .. Len(ls) : ls[i] \in K})
  <2> HIDE DEF ls, K
  <2> QED
    BY <1>3, AmongPlaces
<1>5. {i \in 1 .. Len(ls) : ls[i] \in K} = S
  <2>1. ASSUME NEW i \in DOMAIN ls
        PROVE  ls[i] \in K <=> i \in S
    <3>1. ls[i] \in Range(ls)
      BY DEF Range
    <3>2. f.pattern \in Range(ls[i]) <=> \E k \in DOMAIN ls[i] : ls[i][k] = f.pattern
      BY DEF Range
    <3> HIDE DEF ls
    <3> QED
      BY <1>2, <3>1, <3>2
  <2> QED
    BY <1>3, <2>1
<1>6. ApplyPipe(f, t) = PipeGrep(f, t)
  BY DEF ApplyPipe
<1>7. PipeGrep(f, t) = IF c THEN Ended(<< <<Len(Among(ls, K))>> >>) ELSE Ended(Among(ls, K))
  BY DEF PipeGrep
<1>8. ProgramGrep(f, ls) = IF "c" \in Flags(f.tokens) THEN << <<Len(LinesAt(ls, S))>> >> ELSE LinesAt(ls, S)
  BY DEF ProgramGrep, KeptLines
<1>9. ApplyPipe(f, t).lines = ProgramGrep(f, ls)
  <2>1. CASE c
    <3>1. ApplyPipe(f, t).lines = << <<Len(Among(ls, K))>> >>
      BY <1>6, <1>7, <2>1 DEF Ended
    <3>2. ProgramGrep(f, ls) = << <<Len(LinesAt(ls, S))>> >>
      BY <1>2, <1>8, <2>1
    <3> QED
      BY <1>4, <1>5, <3>1, <3>2
  <2>2. CASE ~c
    <3>1. ApplyPipe(f, t).lines = Among(ls, K)
      BY <1>6, <1>7, <2>2 DEF Ended
    <3>2. ProgramGrep(f, ls) = LinesAt(ls, S)
      BY <1>2, <1>8, <2>2
    <3> QED
      BY <1>4, <1>5, <3>1, <3>2
  <2> QED
    BY <2>1, <2>2
<1> QED
  BY <1>9 DEF Program

\* awk prints a field of every line, or the line.
LEMMA AwkAgrees ==
    ASSUME NEW t \in Text, NEW f, f.cmd = "awk", IsFilter(f), ~Differs(f, t)
    PROVE  Program(f, t.lines, ApplyPipe(f, t).lines)
<1> DEFINE ls == t.lines
           N == Len(ls)
           numbered == [k \in DOMAIN ls |-> <<k, ls[k]>>]
           K == {p \in Range(numbered) : AwkSelects(f, p[2], p[1])}
           S == {i \in DOMAIN ls : AwkSelects(f, ls[i], i)}
           places == Ascending(S)
           chosen == Among(numbered, K)
<1>1. f.cond = "END" => f.arg = "NR"
  BY DEF Differs
<1>2. N \in Nat /\ DOMAIN ls = 1 .. N
  BY LinesOf
<1>3. ApplyPipe(f, t) = IF f.cond = "END" THEN Ended(<< <<N>> >>) ELSE Ended(AwkLines(f, t))
  BY DEF ApplyPipe, PipeAwk
<1>4. Program(f, ls, ProgramAwk(f, ls))
  BY DEF Program
<1>5. CASE f.cond = "END"
  <2>1. ProgramAwk(f, ls) = << <<N>> >>
    BY <1>1, <1>5 DEF ProgramAwk
  <2> QED
    BY <1>3, <1>4, <1>5, <2>1 DEF Ended
<1>6. CASE f.cond # "END"
  <2>1. numbered \in Seq((1 .. N) \X Range(ls)) /\ Len(numbered) = N
    <3>1. \A k \in 1 .. N : ls[k] \in Range(ls)
      BY <1>2 DEF Range
    <3> QED
      BY <1>2, <3>1
  <2>2. chosen = LinesAt(numbered, {i \in 1 .. N : numbered[i] \in K})
    <3> HIDE DEF numbered, K
    <3> QED
      BY <2>1, AmongPlaces
  <2>3. {i \in 1 .. N : numbered[i] \in K} = S
    <3>1. ASSUME NEW i \in DOMAIN ls
          PROVE  numbered[i] \in K <=> i \in S
      <4>1. numbered[i] = <<i, ls[i]>> /\ numbered[i] \in Range(numbered)
        BY DEF Range
      <4> HIDE DEF numbered
      <4> QED
        BY <4>1
    <3> QED
      BY <1>2, <3>1
  <2>4. S \in SUBSET (1 .. N)
    BY <1>2
  <2>5. Cardinality(S) \in Nat /\ places \in [1 .. Cardinality(S) -> 1 .. N]
    <3> HIDE DEF S
    <3> QED
      BY <1>2, <2>4, AscendingIs
  <2>6. chosen = [k \in 1 .. Cardinality(S) |-> numbered[places[k]]]
    <3>1. chosen = LinesAt(numbered, S)
      BY <2>2, <2>3
    <3> HIDE DEF S, chosen, numbered
    <3> QED
      BY <3>1 DEF LinesAt
  <2> HIDE DEF S, places, chosen
  <2>7. chosen = [k \in 1 .. Cardinality(S) |-> <<places[k], ls[places[k]]>>]
    BY <1>2, <2>5, <2>6
  <2>8. AwkLines(f, t) = [k \in DOMAIN chosen |-> AwkPrints(f, chosen[k][2], chosen[k][1])]
    BY DEF AwkLines, chosen
  <2>9. AwkLines(f, t) = [k \in 1 .. Cardinality(S) |-> AwkPrints(f, ls[places[k]], places[k])]
    BY <2>7, <2>8
  <2>10. ProgramAwk(f, ls) = [k \in DOMAIN places |-> AwkPrints(f, ls[places[k]], places[k])]
    BY <1>6 DEF ProgramAwk, S, places
  <2>11. AwkLines(f, t) = ProgramAwk(f, ls)
    BY <2>5, <2>9, <2>10
  <2> QED
    BY <1>3, <1>4, <1>6, <2>11 DEF Ended
<1> QED
  BY <1>5, <1>6

\* cut prints the fields it is asked for.
LEMMA CutAgrees ==
    ASSUME NEW t \in Text, NEW f, f.cmd = "cut", ~Differs(f, t)
    PROVE  Program(f, t.lines, ApplyPipe(f, t).lines)
<1> DEFINE ls == t.lines
           at(l) == {k \in 1 .. Len(l) : k \in f.list}
           zero(l) == IF 0 \in f.list /\ l # << >> THEN <<Last(l)>> ELSE << >>
           picked(l) == zero(l) \o LinesAt(l, at(l))
<1>1. f.list # {} /\ 0 \notin f.list /\ \A l \in Range(ls) : ~(Len(l) = 1 /\ 1 \notin f.list)
  BY DEF Differs
<1>2. Len(ls) \in Nat /\ DOMAIN ls = 1 .. Len(ls) /\ \A i \in DOMAIN ls : ls[i] \in Seq(Nat)
         /\ ls[i] \in Range(ls)
  BY LinesOf DEF Range
<1>3. ApplyPipe(f, t) = Ended([k \in DOMAIN ls |-> picked(ls[k])])
  <2>1. ApplyPipe(f, t) = PipeCut(f, t)
    BY DEF ApplyPipe
  <2> QED
    BY <1>1, <2>1 DEF PipeCut
<1>4. ASSUME NEW i \in DOMAIN ls
      PROVE  picked(ls[i]) = IF Len(ls[i]) <= 1 THEN ls[i]
                             ELSE LinesAt(ls[i], {k \in DOMAIN ls[i] : k \in f.list})
  <2> DEFINE l == ls[i]
             m == Cardinality(at(l))
  <2>1. l \in Seq(Nat) /\ Len(l) \in Nat /\ DOMAIN l = 1 .. Len(l) /\ l \in Range(ls)
    BY <1>2
  <2> HIDE DEF l
  <2>2. m \in Nat /\ Ascending(at(l)) \in [1 .. m -> 1 .. Len(l)]
    <3>1. at(l) \in SUBSET (1 .. Len(l))
      OBVIOUS
    <3> HIDE DEF at
    <3> QED
      BY <2>1, <3>1, AscendingIs
  <2>3. LinesAt(l, at(l)) \in Seq(Nat)
    <3>1. \A k \in 1 .. m : l[Ascending(at(l))[k]] \in Nat
      BY <2>1, <2>2, ElementOfSeq
    <3> HIDE DEF at
    <3> QED
      BY <2>2, <3>1 DEF LinesAt
  <2>4. picked(l) = LinesAt(l, at(l))
    <3>1. picked(l) = << >> \o LinesAt(l, at(l))
      BY <1>1
    <3> HIDE DEF picked, at
    <3> QED
      BY <2>3, <3>1, ConcatEmptySeq
  <2>5. CASE Len(l) = 0
    <3>1. at(l) = {}
      BY <2>5
    <3>2. Cardinality({}) = 0
      BY FS_EmptySet
    <3>3. LinesAt(l, at(l)) = << >> /\ l = << >>
      BY <2>1, <2>5, <3>1, <3>2 DEF LinesAt
    <3> QED
      BY <2>4, <2>5, <3>3 DEF l
  <2>6. CASE Len(l) = 1
    <3>1. at(l) = {i2 \in 1 .. 1 : 1 <= i2 /\ i2 <= 1}
      BY <1>1, <2>1, <2>6
    <3>2. SubSeq(l, 1, 1) = LinesAt(l, {i2 \in 1 .. Len(l) : 1 <= i2 /\ i2 <= 1})
      BY <2>1, <2>6, SliceIs
    <3>3. SubSeq(l, 1, 1) = l
      BY <2>1, <2>6, SubSeqFull
    <3>4. picked(l) = l
      BY <2>4, <2>6, <3>1, <3>2, <3>3
    <3> QED
      BY <2>6, <3>4 DEF l
  <2>7. CASE Len(l) > 1
    <3>1. at(l) = {k \in DOMAIN l : k \in f.list}
      BY <2>1
    <3>2. ~(Len(l) <= 1)
      BY <2>1, <2>7
    <3> QED
      BY <2>4, <3>1, <3>2 DEF l
  <2>8. Len(l) = 0 \/ Len(l) = 1 \/ Len(l) > 1
    BY <2>1
  <2> QED
    BY <2>5, <2>6, <2>7, <2>8
<1>5. ProgramCut(f, ls) = [i \in DOMAIN ls |-> IF Len(ls[i]) <= 1 THEN ls[i]
                             ELSE LinesAt(ls[i], {k \in DOMAIN ls[i] : k \in f.list})]
  BY DEF ProgramCut, KeptLines
<1>6. ApplyPipe(f, t).lines = ProgramCut(f, ls)
  <2> HIDE DEF picked, ls
  <2> QED
    BY <1>3, <1>4, <1>5 DEF Ended
<1> QED
  BY <1>6 DEF Program

\* Two places are two.
LEMMA Two ==
    ASSUME NEW i, NEW j, i # j
    PROVE  Cardinality({i} \cup {j}) = 2
<1>1. IsFiniteSet({i}) /\ Cardinality({i}) = 1
  BY FS_Singleton
<1>2. Cardinality({i} \cup {j}) = IF j \in {i} THEN Cardinality({i}) ELSE Cardinality({i}) + 1
  BY <1>1, FS_AddElement, Zenon
<1> QED
  BY <1>1, <1>2

\* sed replaces the first of a line, or all.
LEMMA SedAgrees ==
    ASSUME NEW t \in Text, NEW f, f.cmd = "sed", IsFilter(f), ~Differs(f, t)
    PROVE  Program(f, t.lines, ApplyPipe(f, t).lines)
<1> DEFINE ls == t.lines
           places(i) == Places(ls[i], f.old)
           hits == {i \in DOMAIN ls : f.old \in Range(ls[i])}
           first == CHOOSE i \in hits : \A j \in hits : i <= j
           changed(i) == IF f.g THEN places(i)
                         ELSE IF hits # {} /\ i = first
                              THEN {CHOOSE k \in places(i) : \A j \in places(i) : k <= j}
                         ELSE {}
           named(i) == {k \in places(i) : f.g \/ \A j \in 1 .. (k - 1) : ls[i][j] # f.old}
<1>1. f.g \in BOOLEAN /\ (~f.g => ~(Cardinality(hits) > 1))
  BY DEF IsFilter, Differs
<1>2. ls \in Seq(Seq(Nat)) /\ Len(ls) \in Nat /\ DOMAIN ls = 1 .. Len(ls)
         /\ \A i \in DOMAIN ls : ls[i] \in Seq(Nat)
  BY LinesOf
<1>3. ApplyPipe(f, t).lines = [i \in DOMAIN ls |-> Replaced(ls[i], changed(i), f.new)]
  <2>1. ApplyPipe(f, t) = [t EXCEPT !.lines = [i \in DOMAIN @ |-> Replaced(@[i], changed(i), f.new)]]
    BY DEF ApplyPipe, PipeSed
  <2>2. t \in [lines : Seq(Seq(Nat)), ended : BOOLEAN]
    BY DEF Text
  <2> HIDE DEF changed
  <2> QED
    BY <2>1, <2>2
<1>4. ProgramSed(f, ls) = [i \in DOMAIN ls |-> Replaced(ls[i], named(i), f.new)]
  BY DEF ProgramSed
<1>5. \A i \in DOMAIN ls : DOMAIN ls[i] = 1 .. Len(ls[i]) /\ places(i) \subseteq 1 .. Len(ls[i])
         /\ places(i) \subseteq Nat
  BY <1>2 DEF Places
<1>6. \A i \in DOMAIN ls : i \in hits <=> places(i) # {}
  BY DEF Range, Places
<1>7. hits \subseteq Nat /\ IsFiniteSet(hits)
  <2>1. IsFiniteSet(1 .. Len(ls))
    <3> DEFINE n == Len(ls)
    <3>1. 1 \in Int /\ n \in Int
      BY <1>2
    <3> HIDE DEF n
    <3> QED
      BY ONLY <3>1, FS_Interval DEF n
  <2> QED
    BY <1>2, <2>1, FS_Subset
<1>8. hits # {} => first \in hits
  <2>1. hits # {} => \E i \in hits : \A j \in hits : i <= j
    BY <1>7, LeastNumber
  <2> HIDE DEF hits
  <2> QED
    BY <2>1
<1> HIDE DEF first
<1>9. ASSUME NEW i \in DOMAIN ls
      PROVE  changed(i) = named(i)
  <2>1. CASE f.g
    BY <2>1
  <2>2. CASE ~f.g /\ i \notin hits
    BY <1>6, <1>8, <2>2
  <2>3. CASE ~f.g /\ i \in hits
    <3> DEFINE k0 == CHOOSE k \in places(i) : \A j \in places(i) : k <= j
    <3>1. \A j \in hits : j = i
      <4> SUFFICES ASSUME NEW j \in hits, j # i PROVE FALSE
        OBVIOUS
      <4>2. Cardinality({i} \cup {j}) = 2
        BY Two
      <4>3. {i} \cup {j} \in SUBSET hits
        BY <2>3
      <4>4. Cardinality({i} \cup {j}) <= Cardinality(hits) /\ Cardinality(hits) \in Nat
        BY <1>7, <4>3, FS_Subset, FS_CardinalityType
      <4> QED
        BY <1>1, <2>3, <4>2, <4>4
    <3>2. hits # {} /\ i = first
      BY <1>8, <2>3, <3>1
    <3>3. changed(i) = {k0}
      BY <2>3, <3>2
    <3>4. places(i) # {} /\ places(i) \subseteq Nat
      BY <1>5, <1>6, <2>3
    <3>5. k0 \in places(i) /\ \A j \in places(i) : k0 <= j
      <4>1. \E k \in places(i) : \A j \in places(i) : k <= j
        BY <3>4, LeastNumber
      <4> HIDE DEF places
      <4> QED
        BY <4>1
    <3> HIDE DEF k0
    <3>6. ASSUME NEW k \in places(i)
          PROVE  (\A j \in 1 .. (k - 1) : ls[i][j] # f.old) <=> k = k0
      <4>1. k \in 1 .. Len(ls[i]) /\ k0 \in 1 .. Len(ls[i]) /\ k0 <= k /\ ls[i][k0] = f.old
        BY <1>5, <3>5 DEF Places
      <4>2. Len(ls[i]) \in Nat
        BY <1>2
      <4>3. ASSUME k0 # k PROVE k0 \in 1 .. (k - 1)
        BY <4>1, <4>2, <4>3
      <4>4. ASSUME NEW j \in 1 .. (k - 1), k = k0, ls[i][j] = f.old PROVE FALSE
        <5>1. j \in places(i) /\ j < k
          BY <1>5, <4>1, <4>2, <4>4 DEF Places
        <5> QED
          BY <3>5, <4>4, <5>1, <4>1
      <4> QED
        BY <4>1, <4>3, <4>4
    <3>7. named(i) = {k0}
      <4> HIDE DEF places
      <4> QED
        BY <2>3, <3>5, <3>6
    <3> QED
      BY <3>3, <3>7
  <2> QED
    BY <1>1, <2>1, <2>2, <2>3
<1>10. ApplyPipe(f, t).lines = ProgramSed(f, ls)
  <2> HIDE DEF changed, named, ls
  <2> QED
    BY <1>3, <1>4, <1>9
<1> QED
  BY <1>10 DEF Program

-----------------------------------------------------------------------------
(* sort: where each line goes in a stable order.                             *)

\* A strict total order on S: R[a] is what comes before a.
Orders(R, S) ==
    /\ \A a \in S : a \notin R[a]
    /\ \A a, b \in S : a # b => a \in R[b] \/ b \in R[a]
    /\ \A a, b, c \in S : a \in R[b] /\ b \in R[c] => a \in R[c]

Below(R, n, i) == {j \in 1 .. n : j \in R[i]}

\* The places of n things in an order are 1 to n.
LEMMA Ranks ==
    ASSUME NEW n \in Nat, NEW R, Orders(R, 1 .. n),
           NEW r \in [1 .. n -> Nat], \A i \in 1 .. n : r[i] = 1 + Cardinality(Below(R, n, i))
    PROVE  r \in Bijection(1 .. n, 1 .. n) /\ \A i, j \in 1 .. n : r[i] < r[j] => i \in R[j]
<1> DEFINE B(i) == Below(R, n, i)
<1>1. IsFiniteSet(1 .. n) /\ Cardinality(1 .. n) = n
  BY FS_Interval
<1>2. ASSUME NEW i \in 1 .. n
      PROVE  B(i) \in SUBSET (1 .. n) /\ IsFiniteSet(B(i)) /\ Cardinality(B(i)) \in Nat
         /\ Cardinality(B(i)) < n
  <2>1. B(i) \in SUBSET (1 .. n) /\ i \notin B(i)
    BY DEF Orders, Below
  <2> HIDE DEF B
  <2>2. IsFiniteSet(B(i)) /\ Cardinality(B(i)) <= n /\ (n = Cardinality(B(i)) => 1 .. n = B(i))
    BY <1>1, <2>1, FS_Subset
  <2>3. Cardinality(B(i)) \in Nat
    BY <2>2, FS_CardinalityType
  <2> QED
    BY <2>1, <2>2, <2>3
<1>3. ASSUME NEW i \in 1 .. n, NEW j \in 1 .. n, i \in R[j]
      PROVE  r[i] < r[j]
  <2>1. B(i) \in SUBSET B(j) /\ i \in B(j) /\ i \notin B(i)
    BY <1>3 DEF Orders, Below
  <2>2. IsFiniteSet(B(j)) /\ Cardinality(B(j)) \in Nat /\ Cardinality(B(i)) \in Nat
    BY <1>2
  <2> HIDE DEF B
  <2>3. Cardinality(B(i)) <= Cardinality(B(j)) /\ (Cardinality(B(j)) = Cardinality(B(i)) => B(j) = B(i))
    BY <2>1, <2>2, FS_Subset
  <2>4. Cardinality(B(i)) < Cardinality(B(j))
    BY <2>1, <2>2, <2>3
  <2>5. r[i] = 1 + Cardinality(B(i)) /\ r[j] = 1 + Cardinality(B(j))
    BY DEF B
  <2> QED
    BY <2>2, <2>4, <2>5
<1>4. \A i \in 1 .. n : r[i] \in 1 .. n
  BY <1>2
<1>5. \A i, j \in 1 .. n : r[i] = r[j] => i = j
  <2> SUFFICES ASSUME NEW i \in 1 .. n, NEW j \in 1 .. n, r[i] = r[j], i # j
               PROVE  FALSE
    OBVIOUS
  <2>1. i \in R[j] \/ j \in R[i]
    BY DEF Orders
  <2> QED
    BY <1>3, <2>1
<1>6. r \in Injection(1 .. n, 1 .. n)
  BY <1>4, <1>5 DEF Injection, IsInjective
<1>7. r \in Surjection(1 .. n, 1 .. n)
  BY <1>1, <1>6, FS_Injection
<1>8. ASSUME NEW i \in 1 .. n, NEW j \in 1 .. n, r[i] < r[j]
      PROVE  i \in R[j]
  <2>1. i \in R[j] \/ j \in R[i]
    BY <1>8 DEF Orders
  <2> QED
    BY <1>3, <1>8, <2>1
<1> QED
  BY <1>6, <1>7, <1>8 DEF Bijection

\* Places by an order on the lines, and by where they were when they are equal.
ByLine(R, ls) ==
    [i \in DOMAIN ls |-> {j \in DOMAIN ls : ls[j] \in R[ls[i]] \/ (ls[i] \notin R[ls[j]] /\ j < i)}]

\* Where the lines are ordered, so are their places.
LEMMA OrdersPlaces ==
    ASSUME NEW E, NEW ls \in Seq(E), NEW R, Orders(R, Range(ls))
    PROVE  Orders(ByLine(R, ls), 1 .. Len(ls))
<1>1. DOMAIN ls = 1 .. Len(ls) /\ Len(ls) \in Nat /\ \A i \in DOMAIN ls : ls[i] \in Range(ls)
  BY DEF Range
<1> DEFINE D == DOMAIN ls
           Prec(i, j) == ls[i] \in R[ls[j]] \/ (ls[j] \notin R[ls[i]] /\ i < j)
<1>2. \A i, j \in D : i \in ByLine(R, ls)[j] <=> Prec(i, j)
  BY DEF ByLine
<1>3. \A i \in D : ~Prec(i, i)
  BY <1>1 DEF Orders
<1>4. \A i, j \in D : i # j => Prec(i, j) \/ Prec(j, i)
  BY <1>1 DEF Orders
<1>5. ASSUME NEW i \in D, NEW j \in D, NEW k \in D, Prec(i, j), Prec(j, k)
      PROVE  Prec(i, k)
  <2>1. \A h \in D : ls[h] \in Range(ls) /\ h \in Nat
    BY <1>1
  <2>2. CASE ls[i] \in R[ls[j]] /\ ls[j] \in R[ls[k]]
    BY <2>1, <2>2 DEF Orders
  <2>3. CASE ls[i] \in R[ls[j]] /\ ls[j] \notin R[ls[k]]
    <3>1. ls[j] = ls[k]
      BY <1>5, <2>1, <2>3 DEF Orders
    <3> QED
      BY <2>3, <3>1
  <2>4. CASE ls[i] \notin R[ls[j]] /\ ls[j] \in R[ls[k]]
    <3>1. ls[i] = ls[j]
      BY <1>5, <2>1, <2>4 DEF Orders
    <3> QED
      BY <2>4, <3>1
  <2>5. CASE ls[i] \notin R[ls[j]] /\ ls[j] \notin R[ls[k]]
    <3>1. ls[i] = ls[j] /\ ls[j] = ls[k]
      BY <1>5, <2>1, <2>5 DEF Orders
    <3>2. i < k
      BY <1>5, <2>1, <2>5
    <3>3. ls[k] \notin R[ls[i]]
      BY <2>1, <3>1 DEF Orders
    <3> QED
      BY <3>2, <3>3
  <2> QED
    BY <2>2, <2>3, <2>4, <2>5
<1> HIDE DEF Prec, D
<1>6. Orders(ByLine(R, ls), D)
  BY <1>2, <1>3, <1>4, <1>5 DEF Orders
<1> QED
  BY <1>1, <1>6 DEF D

\* q gives to each place the line whose rank it is.
ByRank(R, ls, q) ==
    \A k \in DOMAIN ls :
        (\E i \in DOMAIN ls : 1 + Cardinality(Below(ByLine(R, ls), Len(ls), i)) = k)
          => q[k] \in DOMAIN ls /\ 1 + Cardinality(Below(ByLine(R, ls), Len(ls), q[k])) = k

\* q takes every line once, and none before one that R puts ahead of it.
Arranges(R, ls, q) ==
    /\ \A k \in DOMAIN ls : q[k] \in DOMAIN ls
    /\ \A i \in DOMAIN ls : \E k \in DOMAIN ls : q[k] = i
    /\ \A k, h \in DOMAIN ls : q[k] = q[h] => k = h
    /\ \A k, h \in DOMAIN ls : k < h => ls[q[h]] \notin R[ls[q[k]]]

\* What a stable sort makes of the lines.
LEMMA Sorts ==
    ASSUME NEW E, NEW ls \in Seq(E), NEW R, Orders(R, Range(ls)), NEW q, ByRank(R, ls, q)
    PROVE  Arranges(R, ls, q)
<1> USE DEF ByRank, Arranges
<1> DEFINE n == Len(ls)
           P == ByLine(R, ls)
           r == [i \in 1 .. n |-> 1 + Cardinality(Below(P, n, i))]
<1>1. n \in Nat /\ DOMAIN ls = 1 .. n /\ \A i \in DOMAIN ls : ls[i] \in Range(ls)
  BY DEF Range
<1>2. Orders(P, 1 .. n)
  BY OrdersPlaces
<1>3. r \in [1 .. n -> Nat] /\ \A i \in 1 .. n : r[i] = 1 + Cardinality(Below(P, n, i))
  <2>1. ASSUME NEW i \in 1 .. n PROVE Cardinality(Below(P, n, i)) \in Nat
    <3>1. Below(P, n, i) \in SUBSET (1 .. n)
      BY DEF Below
    <3>2. IsFiniteSet(1 .. n)
      <4>1. 1 \in Int /\ n \in Int
        BY <1>1
      <4> HIDE DEF n
      <4> QED
        BY <4>1, FS_Interval
    <3> HIDE DEF P, n
    <3> QED
      BY <3>1, <3>2, FS_Subset, FS_CardinalityType
  <2> HIDE DEF P, n
  <2> QED
    BY <2>1
<1>4. r \in Bijection(1 .. n, 1 .. n) /\ \A i, j \in 1 .. n : r[i] < r[j] => i \in P[j]
  <2> HIDE DEF P, n, r
  <2> QED
    BY <1>1, <1>2, <1>3, Ranks
<1>5. /\ \A i \in 1 .. n : r[i] \in 1 .. n
      /\ \A k \in 1 .. n : \E i \in 1 .. n : r[i] = k
      /\ \A i, j \in 1 .. n : r[i] = r[j] => i = j
  <2> HIDE DEF P, n, r
  <2> QED
    BY <1>4 DEF Bijection, Injection, Surjection, IsInjective
<1>6. \A k \in 1 .. n : q[k] \in 1 .. n /\ r[q[k]] = k
  <2>1. \A k \in 1 .. n : (\E i \in 1 .. n : r[i] = k) => q[k] \in 1 .. n
           /\ 1 + Cardinality(Below(P, n, q[k])) = k
    BY <1>1, <1>3
  <2> HIDE DEF P, n, r
  <2> QED
    BY <1>3, <1>5, <2>1
<1>7. ASSUME NEW k \in 1 .. n, NEW h \in 1 .. n, k < h
      PROVE  ls[q[h]] \notin R[ls[q[k]]]
  <2> DEFINE a == q[k]
             b == q[h]
  <2>1. a \in 1 .. n /\ b \in 1 .. n /\ a \in P[b]
    BY <1>4, <1>6, <1>7
  <2>2. ls[a] \in R[ls[b]] \/ ls[b] \notin R[ls[a]]
    BY <2>1 DEF ByLine
  <2>3. ls[a] \in Range(ls) /\ ls[b] \in Range(ls)
    BY <1>1, <2>1
  <2> HIDE DEF a, b
  <2>4. ~(ls[a] \in R[ls[b]] /\ ls[b] \in R[ls[a]])
    BY <2>3 DEF Orders
  <2> QED
    BY <2>2, <2>4 DEF a, b
<1> HIDE DEF r, P, n
<1>8. ASSUME NEW i \in 1 .. n PROVE \E k \in 1 .. n : q[k] = i
  <2>1. r[i] \in 1 .. n
    BY <1>5
  <2>2. q[r[i]] \in 1 .. n /\ r[q[r[i]]] = r[i]
    BY <1>6, <2>1
  <2>3. q[r[i]] = i
    BY <1>5, <2>2
  <2> QED
    BY <2>1, <2>3
<1>9. \A k, h \in 1 .. n : q[k] = q[h] => k = h
  BY <1>6
<1>10. \A k \in 1 .. n : q[k] \in 1 .. n
  BY <1>6
<1> QED
  BY ONLY <1>1, <1>7, <1>8, <1>9, <1>10

-----------------------------------------------------------------------------
(* sort -u: the first of the lines that are equal.                           *)

\* FirstOfEach, one line after another.
LEMMA FirstSteps ==
    ASSUME NEW E, NEW s0 \in Seq(E)
    PROVE  \E g : /\ g[0] = << >> /\ g[0] \in Seq(E)
                  /\ \A i \in 1 .. Len(s0) : g[i - 1] \in Seq(E) =>
                          g[i] = IF s0[i] \in Range(g[i - 1]) THEN g[i - 1] ELSE Append(g[i - 1], s0[i])
                  /\ FirstOfEach(s0) = g[Len(s0)]
<1> DEFINE N == Len(s0)
           A == Seq(E)
           iter == CHOOSE iter : iter = [s \in SUBSET (1 .. N) |->
                      IF s = {} THEN << >>
                      ELSE IF s0[Max(s)] \in Range(iter[s \ {Max(s)}]) THEN iter[s \ {Max(s)}]
                                                ELSE Append(iter[s \ {Max(s)}], s0[Max(s)])]
           step == [p \in A \X (1 .. N) |-> IF s0[p[2]] \in Range(p[1]) THEN p[1]
                                            ELSE Append(p[1], s0[p[2]])]
<1>1. N \in Nat /\ DOMAIN s0 = 1 .. N /\ \A i \in 1 .. N : s0[i] \in E
  BY ElementOfSeq
<1>2. FirstOfEach(s0) = iter[1 .. N]
  BY <1>1 DEF FirstOfEach, FoldLeft, MapThenFoldSet
<1>3. step \in [A \X (1 .. N) -> A]
  BY <1>1
<1>4. << >> \in A
  OBVIOUS
<1>5. \E f \in [SUBSET (1 .. N) -> A] : IsFold(f, N, << >>, step)
  <2>1. N \in Nat
    BY <1>1
  <2> HIDE DEF step, N, iter, A
  <2> QED
    BY ONLY <2>1, <1>3, <1>4, FoldExists
<1>6. PICK f \in [SUBSET (1 .. N) -> A] : IsFold(f, N, << >>, step)
  BY <1>5
<1>7. f = [s \in SUBSET (1 .. N) |->
                      IF s = {} THEN << >>
                      ELSE IF s0[Max(s)] \in Range(f[s \ {Max(s)}]) THEN f[s \ {Max(s)}]
                                                ELSE Append(f[s \ {Max(s)}], s0[Max(s)])]
  <2>1. ASSUME NEW s \in SUBSET (1 .. N), s # {}
        PROVE  step[<<f[s \ {Max(s)}], Max(s)>>] = IF s0[Max(s)] \in Range(f[s \ {Max(s)}]) THEN f[s \ {Max(s)}]
                                                   ELSE Append(f[s \ {Max(s)}], s0[Max(s)])
    <3>1. Max(s) \in 1 .. N
      BY <1>1, <2>1, MaxIn
    <3>2. f[s \ {Max(s)}] \in A
      OBVIOUS
    <3> HIDE DEF A, N
    <3> QED
      BY <3>1, <3>2
  <2> HIDE DEF step, A, N
  <2> QED
    BY <1>6, <2>1 DEF IsFold
<1>8. iter = [s \in SUBSET (1 .. N) |->
                      IF s = {} THEN << >>
                      ELSE IF s0[Max(s)] \in Range(iter[s \ {Max(s)}]) THEN iter[s \ {Max(s)}]
                                                ELSE Append(iter[s \ {Max(s)}], s0[Max(s)])]
  BY <1>7, Zenon
<1> HIDE DEF iter, step, N
<1> DEFINE g == [i \in 0 .. N |-> iter[1 .. i]]
<1>9. g[0] = << >>
  <2>1. 1 .. 0 = {} /\ {} \in SUBSET (1 .. N) /\ 0 \in 0 .. N
    BY <1>1
  <2> HIDE DEF A
  <2> QED
    BY <1>8, <2>1
<1>10. ASSUME NEW i \in 1 .. N
      PROVE  g[i] = IF s0[i] \in Range(g[i - 1]) THEN g[i - 1] ELSE Append(g[i - 1], s0[i])
  <2>1. i \in 0 .. N /\ i - 1 \in 0 .. N
    BY <1>1
  <2>2. 1 .. i \in SUBSET (1 .. N) /\ 1 .. i # {} /\ Max(1 .. i) = i /\ (1 .. i) \ {i} = 1 .. (i - 1)
    BY <1>1, Intervals
  <2>3. iter[1 .. i] = IF s0[i] \in Range(iter[1 .. (i - 1)]) THEN iter[1 .. (i - 1)]
                       ELSE Append(iter[1 .. (i - 1)], s0[i])
    BY <1>8, <2>2, Zenon
  <2>4. g[i] = iter[1 .. i] /\ g[i - 1] = iter[1 .. (i - 1)]
    BY <2>1
  <2> HIDE DEF g
  <2> QED
    BY <2>3, <2>4, Zenon
<1>11. FirstOfEach(s0) = g[N]
  BY <1>1, <1>2
<1> HIDE DEF g
<1> QED
  BY <1>4, <1>9, <1>10, <1>11 DEF N, A

\* What is kept: every line once, in the order of the lines.
LEMMA FirstsAre ==
    ASSUME NEW E, NEW s \in Seq(E), NEW R,
           \A k, h \in 1 .. Len(s) : k < h => s[h] \notin R[s[k]]
    PROVE  /\ FirstOfEach(s) \in Seq(E) /\ Range(FirstOfEach(s)) = Range(s)
           /\ \A i, j \in 1 .. Len(FirstOfEach(s)) : FirstOfEach(s)[i] = FirstOfEach(s)[j] => i = j
           /\ \A i, j \in 1 .. Len(FirstOfEach(s)) : i < j => FirstOfEach(s)[j] \notin R[FirstOfEach(s)[i]]
<1> DEFINE N == Len(s)
<1>1. N \in Nat /\ DOMAIN s = 1 .. N /\ \A i \in 1 .. N : s[i] \in E
  BY ElementOfSeq
<1>2. PICK g : /\ g[0] = << >> /\ g[0] \in Seq(E)
               /\ \A i \in 1 .. N : g[i - 1] \in Seq(E) =>
                     g[i] = IF s[i] \in Range(g[i - 1]) THEN g[i - 1] ELSE Append(g[i - 1], s[i])
               /\ FirstOfEach(s) = g[N]
  BY FirstSteps
<1> DEFINE Good(k) ==
             /\ g[k] \in Seq(E)
             /\ \A l : (\E i \in 1 .. Len(g[k]) : g[k][i] = l) <=> (\E i \in 1 .. k : s[i] = l)
             /\ \A i, j \in 1 .. Len(g[k]) : g[k][i] = g[k][j] => i = j
             /\ \A i, j \in 1 .. Len(g[k]) : i < j => g[k][j] \notin R[g[k][i]]
           P == {k \in 0 .. N : Good(k)}
<1>3. 0 \in P
  <2>1. Good(0)
    BY <1>2
  <2> HIDE DEF Good
  <2> QED
    BY <1>1, <2>1
<1>4. ASSUME NEW k \in 1 .. N, k - 1 \in P PROVE k \in P
  <2> DEFINE h == g[k - 1]
             m == Len(h)
  <2>1. Good(k - 1) /\ k \in Nat /\ k \in 0 .. N
    BY <1>1, <1>4
  <2>2. h \in Seq(E) /\ m \in Nat /\ DOMAIN h = 1 .. m
    BY <2>1
  <2>3. \A l : l \in Range(h) <=> \E i \in 1 .. m : h[i] = l
    BY <2>2 DEF Range
  <2>4. g[k] = IF s[k] \in Range(h) THEN h ELSE Append(h, s[k])
    BY <1>2, <2>2
  <2>5. CASE s[k] \in Range(h)
    <3>1. g[k] = h
      BY <2>4, <2>5
    <3>2. \A l : (\E i \in 1 .. k : s[i] = l) <=> (\E i \in 1 .. (k - 1) : s[i] = l) \/ s[k] = l
      BY <2>1
    <3>3. \E i \in 1 .. (k - 1) : s[i] = s[k]
      BY <2>1, <2>3, <2>5
    <3>4. \A l : (\E i \in 1 .. k : s[i] = l) <=> (\E i \in 1 .. (k - 1) : s[i] = l)
      BY <3>2, <3>3
    <3>5. Good(k)
      BY <2>1, <3>1, <3>4
    <3> HIDE DEF Good
    <3> QED
      BY <2>1, <3>5
  <2>6. CASE s[k] \notin Range(h)
    <3>1. g[k] = Append(h, s[k]) /\ s[k] \in E
      BY <1>1, <2>4, <2>6
    <3> HIDE DEF N
    <3>2. /\ g[k] \in Seq(E) /\ Len(g[k]) = m + 1
          /\ \A i \in 1 .. m : g[k][i] = h[i]
          /\ g[k][m + 1] = s[k]
      <4> HIDE DEF h
      <4> QED
        BY <2>2, <3>1, AppendProperties
    <3>3. \A l : (\E i \in 1 .. k : s[i] = l) <=> (\E i \in 1 .. (k - 1) : s[i] = l) \/ s[k] = l
      BY <2>1
    <3>4. \A l : (\E i \in 1 .. m : h[i] = l) <=> (\E i \in 1 .. (k - 1) : s[i] = l)
      BY <2>1
    <3>5. \A l : (\E i \in 1 .. Len(g[k]) : g[k][i] = l) <=> (\E i \in 1 .. k : s[i] = l)
      <4>1. \A l : (\E i \in 1 .. (m + 1) : g[k][i] = l) <=> (\E i \in 1 .. m : h[i] = l) \/ s[k] = l
        <5> HIDE DEF h, m
        <5>1. \A i : i \in 1 .. (m + 1) <=> i \in 1 .. m \/ i = m + 1
          BY <2>2
        <5> QED
          BY <3>2, <5>1
      <4> HIDE DEF h, m, Good
      <4> QED
        BY <3>2, <3>3, <3>4, <4>1
    <3>6. \A i \in 1 .. m : h[i] # s[k]
      BY <2>3, <2>6
    <3>7. \A i, j \in 1 .. (m + 1) : g[k][i] = g[k][j] => i = j
      <4>1. \A i, j \in 1 .. m : h[i] = h[j] => i = j
        BY <2>1
      <4> HIDE DEF h, m, Good
      <4> QED
        BY <2>2, <3>2, <3>6, <4>1
    <3>8. \A i \in 1 .. m : s[k] \notin R[h[i]]
      <4> SUFFICES ASSUME NEW i \in 1 .. m PROVE s[k] \notin R[h[i]]
        OBVIOUS
      <4>1. PICK j \in 1 .. (k - 1) : s[j] = h[i]
        BY <3>4
      <4>2. j \in 1 .. Len(s) /\ k \in 1 .. Len(s) /\ j < k
        BY <2>1, <1>1 DEF N
      <4> QED
        BY <4>1, <4>2
    <3>9. \A i, j \in 1 .. (m + 1) : i < j => g[k][j] \notin R[g[k][i]]
      <4>1. \A i, j \in 1 .. m : i < j => h[j] \notin R[h[i]]
        BY <2>1
      <4> HIDE DEF h, m, Good
      <4> QED
        <5> SUFFICES ASSUME NEW i \in 1 .. (m + 1), NEW j \in 1 .. (m + 1), i < j
                     PROVE  g[k][j] \notin R[g[k][i]]
          OBVIOUS
        <5>1. i \in 1 .. m /\ g[k][i] = h[i]
          BY <2>2, <3>2
        <5>2. CASE j \in 1 .. m
          BY <3>2, <4>1, <5>1, <5>2
        <5>3. CASE j = m + 1
          BY <3>2, <3>8, <5>1, <5>3
        <5> QED
          BY <2>2, <5>2, <5>3
    <3>10. Good(k)
      <4> HIDE DEF h, m
      <4> QED
        BY <3>2, <3>5, <3>7, <3>9
    <3> HIDE DEF Good
    <3> QED
      BY <2>1, <3>10
  <2> QED
    BY <2>5, <2>6
<1>5. N \in P
  <2>1. N \in Nat
    BY <1>1
  <2>2. \A k \in 1 .. N : k - 1 \in P => k \in P
    BY <1>4
  <2> HIDE DEF P, N
  <2>3. \A k \in 0 .. N : k \in P
    BY <2>1, <2>2, <1>3, StepByStep
  <2> QED
    BY <2>1, <2>3
<1>6. Good(N)
  BY <1>5
<1>7. DOMAIN g[N] = 1 .. Len(g[N])
  BY <1>6
<1>8. Range(g[N]) = Range(s)
  <2>1. \A l : l \in Range(g[N]) <=> \E i \in 1 .. Len(g[N]) : g[N][i] = l
    BY <1>7 DEF Range
  <2>2. \A l : l \in Range(s) <=> \E i \in 1 .. N : s[i] = l
    BY <1>1 DEF Range
  <2> HIDE DEF N
  <2> QED
    BY <1>6, <2>1, <2>2
<1> QED
  BY <1>2, <1>6, <1>8

-----------------------------------------------------------------------------
(* The orders of sort.                                                       *)

\* A word ranks by its first digit, then by its second.
LEMMA RankType ==
    ASSUME NEW w \in Nat
    PROVE  /\ TextRank(w) \in Nat
           /\ w < 10 => TextRank(w) = 100 * w
           /\ w >= 10 => \E d, r \in Nat : r < 10 /\ w = 10 * d + r /\ TextRank(w) = 100 * d + 1 + r
<1> DEFINE d == w \div 10
           r == w % 10
<1>1. d \in Nat /\ r \in Nat /\ r < 10 /\ w = 10 * d + r
  OBVIOUS
<1>2. w >= 10 => TextRank(w) = 100 * d + 1 + r
  BY DEF TextRank
<1>3. w < 10 => TextRank(w) = 100 * w
  BY DEF TextRank
<1> HIDE DEF d, r
<1> QED
  BY <1>1, <1>2, <1>3

\* Different words, different ranks.
LEMMA RankTellsApart ==
    ASSUME NEW v \in Nat, NEW w \in Nat, TextRank(v) = TextRank(w)
    PROVE  v = w
<1>1. CASE v < 10 /\ w < 10
  BY <1>1, RankType
<1>2. CASE v < 10 /\ w >= 10
  BY <1>2, RankType
<1>3. CASE v >= 10 /\ w < 10
  BY <1>3, RankType
<1>4. CASE v >= 10 /\ w >= 10
  BY <1>4, RankType
<1> QED
  BY <1>1, <1>2, <1>3, <1>4

\* Every word of a line has a rank.
LEMMA RanksOfLine ==
    ASSUME NEW a \in Seq(Nat)
    PROVE  Len(a) \in Nat /\ \A i \in 1 .. Len(a) : a[i] \in Nat /\ TextRank(a[i]) \in Nat
<1>1. ASSUME NEW i \in 1 .. Len(a) PROVE a[i] \in Nat
  BY ElementOfSeq
<1>2. ASSUME NEW i \in 1 .. Len(a) PROVE TextRank(a[i]) \in Nat
  BY <1>1, RankType
<1> QED
  BY <1>1, <1>2

\* No line comes before itself.
LEMMA TextIrreflexive ==
    ASSUME NEW a \in Seq(Nat)
    PROVE  ~Textually(a, a)
<1>1. \A i \in 1 .. Len(a) : TextRank(a[i]) \in Nat /\ i <= Len(a)
  BY RanksOfLine
<1> QED
  BY <1>1 DEF Textually

\* Of two lines one comes first.
LEMMA TextTotal ==
    ASSUME NEW a \in Seq(Nat), NEW b \in Seq(Nat), a # b
    PROVE  Textually(a, b) \/ Textually(b, a)
<1> DEFINE m == Len(a)
           n == Len(b)
           D == {i \in Nat \ {0} : (i <= m \/ i <= n) /\ ~(i <= m /\ i <= n /\ a[i] = b[i])}
<1>0. m \in Nat /\ n \in Nat /\ (\A i \in 1 .. m : a[i] \in Nat) /\ (\A i \in 1 .. n : b[i] \in Nat)
  BY ElementOfSeq
<1>1. D # {}
  <2>1. CASE m # n
    <3>1. CASE m < n
      <4>1. n \in D
        BY <1>0, <3>1
      <4> QED
        BY <4>1
    <3>2. CASE n < m
      <4>1. m \in D
        BY <1>0, <3>2
      <4> QED
        BY <4>1
    <3> QED
      BY <1>0, <2>1, <3>1, <3>2
  <2>2. CASE m = n
    <3>1. PICK i \in 1 .. m : a[i] # b[i]
      <4>1. a = [i \in 1 .. m |-> a[i]] /\ b = [i \in 1 .. n |-> b[i]]
        OBVIOUS
      <4> HIDE DEF m, n
      <4> QED
        BY <2>2, <4>1
    <3>2. i \in D
      BY <2>2, <3>1, <1>0
    <3> QED
      BY <3>2
  <2> QED
    BY <2>1, <2>2
<1>2. D \in SUBSET Nat
  OBVIOUS
<1>3. PICK i \in D : \A j \in D : i <= j
  <2> HIDE DEF D
  <2> QED
    BY <1>1, <1>2, LeastNumber
<1>4. \A j \in 1 .. (i - 1) : j <= m /\ j <= n /\ a[j] = b[j]
  <2> SUFFICES ASSUME NEW j \in 1 .. (i - 1)
               PROVE  j <= m /\ j <= n /\ a[j] = b[j]
    OBVIOUS
  <2>1. j \in Nat \ {0} /\ j < i /\ i \in Nat
    BY <1>3
  <2>2. j \notin D
    <3> HIDE DEF D
    <3> QED
      BY <1>3, <2>1
  <2>3. j <= m \/ j <= n
    BY <1>0, <1>3, <2>1
  <2> QED
    BY <2>1, <2>2, <2>3
<1>5. CASE i > m
  <2>1. i \in 1 .. n
    BY <1>0, <1>3, <1>5
  <2>2. ~(i <= Len(a)) /\ (\A j \in 1 .. (i - 1) : j <= Len(a) /\ a[j] = b[j]) /\ i \in 1 .. Len(b)
    BY <1>0, <1>4, <1>5, <2>1
  <2> HIDE DEF D, m, n
  <2> QED
    BY <2>2 DEF Textually
<1>6. CASE i > n
  <2>1. i \in 1 .. m
    BY <1>0, <1>3, <1>6
  <2>2. ~(i <= Len(b)) /\ (\A j \in 1 .. (i - 1) : j <= Len(b) /\ b[j] = a[j]) /\ i \in 1 .. Len(a)
    BY <1>0, <1>4, <1>6, <2>1
  <2> HIDE DEF D, m, n
  <2> QED
    BY <2>2 DEF Textually
<1>7. CASE i <= m /\ i <= n
  <2>1. a[i] \in Nat /\ b[i] \in Nat /\ a[i] # b[i] /\ i \in 1 .. m /\ i \in 1 .. n
    BY <1>0, <1>3, <1>7
  <2>2. TextRank(a[i]) \in Nat /\ TextRank(b[i]) \in Nat /\ TextRank(a[i]) # TextRank(b[i])
    BY <2>1, RankType, RankTellsApart
  <2>3. CASE TextRank(a[i]) < TextRank(b[i])
    BY <1>4, <2>1, <2>3 DEF Textually
  <2>4. CASE TextRank(b[i]) < TextRank(a[i])
    BY <1>4, <2>1, <2>4 DEF Textually
  <2> QED
    BY <2>2, <2>3, <2>4
<1> QED
  BY <1>0, <1>3, <1>5, <1>6, <1>7

\* The order of texts is transitive.
LEMMA TextTransitive ==
    ASSUME NEW a \in Seq(Nat), NEW b \in Seq(Nat), NEW c \in Seq(Nat), Textually(a, b), Textually(b, c)
    PROVE  Textually(a, c)
<1>0. /\ Len(a) \in Nat /\ Len(b) \in Nat /\ Len(c) \in Nat
      /\ \A i \in 1 .. Len(a) : TextRank(a[i]) \in Nat
      /\ \A i \in 1 .. Len(b) : TextRank(b[i]) \in Nat
      /\ \A i \in 1 .. Len(c) : TextRank(c[i]) \in Nat
  BY RanksOfLine
<1>1. PICK i \in 1 .. Len(b) : /\ \A j \in 1 .. (i - 1) : j <= Len(a) /\ a[j] = b[j]
                               /\ i <= Len(a) => TextRank(a[i]) < TextRank(b[i])
  BY DEF Textually
<1>2. PICK k \in 1 .. Len(c) : /\ \A j \in 1 .. (k - 1) : j <= Len(b) /\ b[j] = c[j]
                               /\ k <= Len(b) => TextRank(b[k]) < TextRank(c[k])
  BY DEF Textually
<1>3. CASE i < k
  <2>1. i \in 1 .. (k - 1) /\ i \in 1 .. Len(c) /\ b[i] = c[i]
    BY <1>0, <1>2, <1>3
  <2>2. ASSUME NEW j \in 1 .. (i - 1) PROVE j <= Len(a) /\ a[j] = c[j]
    <3>1. j \in 1 .. (k - 1)
      BY <1>3
    <3> QED
      BY <1>1, <1>2, <3>1
  <2> QED
    BY <1>1, <2>1, <2>2 DEF Textually
<1>4. CASE i = k
  <2>1. \A j \in 1 .. (i - 1) : j <= Len(a) /\ a[j] = c[j]
    BY <1>1, <1>2, <1>4
  <2>2. i <= Len(a) => TextRank(a[i]) < TextRank(c[i])
    BY <1>0, <1>1, <1>2, <1>4
  <2> QED
    BY <1>2, <1>4, <2>1, <2>2 DEF Textually
<1>5. CASE k < i
  <2>1. k <= Len(a) /\ a[k] = b[k] /\ k <= Len(b)
    BY <1>0, <1>1, <1>2, <1>5
  <2>2. ASSUME NEW j \in 1 .. (k - 1) PROVE j <= Len(a) /\ a[j] = c[j]
    <3>1. j \in 1 .. (i - 1)
      BY <1>5
    <3> QED
      BY <1>1, <1>2, <3>1
  <2> QED
    BY <1>2, <2>1, <2>2 DEF Textually
<1> QED
  BY <1>0, <1>3, <1>4, <1>5

\* The order of sort and of its flags.
Key(f, a, b) == IF "n" \in f.flags THEN Numerically(a, b) ELSE Textually(a, b)
Prior(f, a, b) == IF "r" \in f.flags THEN Key(f, b, a) ELSE Key(f, a, b)
OrderOn(f, S) == [l \in S |-> {m \in S : Prior(f, m, l)}]

\* A line has a number.
LEMMA NumberType ==
    ASSUME NEW l \in Seq(Nat)
    PROVE  NumberOf(l) \in Nat
<1>1. CASE l = << >>
  BY <1>1 DEF NumberOf
<1>2. CASE l # << >>
  <2>1. Len(l) \in Nat /\ Len(l) # 0
    BY <1>2, EmptySeq
  <2>2. 1 \in 1 .. Len(l)
    BY <2>1
  <2>3. l[1] \in Nat
    BY <2>2, RanksOfLine
  <2> QED
    BY <1>2, <2>3 DEF NumberOf
<1> QED
  BY <1>1, <1>2

\* The order sort -n or sort uses, where no two lines have the same number.
LEMMA KeyOrders ==
    ASSUME NEW f, NEW S \in SUBSET Seq(Nat),
           "n" \in f.flags => \A l, m \in S : NumberOf(l) = NumberOf(m) => l = m
    PROVE  /\ \A a \in S : ~Key(f, a, a)
           /\ \A a, b \in S : a # b => Key(f, a, b) \/ Key(f, b, a)
           /\ \A a, b, c \in S : Key(f, a, b) /\ Key(f, b, c) => Key(f, a, c)
<1>1. CASE "n" \in f.flags
  <2>1. \A a, b : Key(f, a, b) <=> NumberOf(a) < NumberOf(b)
    BY <1>1 DEF Key, Numerically
  <2>2. \A a \in S : NumberOf(a) \in Nat
    BY NumberType
  <2> QED
    BY <1>1, <2>1, <2>2
<1>2. CASE "n" \notin f.flags
  <2>1. \A a, b : Key(f, a, b) <=> Textually(a, b)
    BY <1>2 DEF Key
  <2>2. \A a \in S : a \in Seq(Nat)
    OBVIOUS
  <2>3. \A a \in S : ~Key(f, a, a)
    BY <2>1, <2>2, TextIrreflexive
  <2>4. \A a, b \in S : a # b => Key(f, a, b) \/ Key(f, b, a)
    BY <2>1, <2>2, TextTotal
  <2>5. \A a, b, c \in S : Key(f, a, b) /\ Key(f, b, c) => Key(f, a, c)
    BY <2>1, <2>2, TextTransitive
  <2> QED
    BY <2>3, <2>4, <2>5
<1> QED
  BY <1>1, <1>2

\* Reversed or not, it orders the lines.
LEMMA PriorOrders ==
    ASSUME NEW f, NEW S \in SUBSET Seq(Nat),
           "n" \in f.flags => \A l, m \in S : NumberOf(l) = NumberOf(m) => l = m
    PROVE  Orders(OrderOn(f, S), S)
<1>1. /\ \A a \in S : ~Key(f, a, a)
      /\ \A a, b \in S : a # b => Key(f, a, b) \/ Key(f, b, a)
      /\ \A a, b, c \in S : Key(f, a, b) /\ Key(f, b, c) => Key(f, a, c)
  BY KeyOrders
<1>2. \A a, b \in S : a \in OrderOn(f, S)[b] <=> Prior(f, a, b)
  BY DEF OrderOn
<1>3. \A a \in S : ~Prior(f, a, a)
  BY <1>1 DEF Prior
<1>4. \A a, b \in S : a # b => Prior(f, a, b) \/ Prior(f, b, a)
  BY <1>1 DEF Prior
<1>5. \A a, b, c \in S : Prior(f, a, b) /\ Prior(f, b, c) => Prior(f, a, c)
  BY <1>1 DEF Prior
<1> QED
  BY <1>2, <1>3, <1>4, <1>5 DEF Orders

Placed(s, n, l) == {i \in 1 .. n : s[i] = l}

\* Permuting lines keeps how often each of them is there.
LEMMA CountKept ==
    ASSUME NEW n \in Nat, NEW s, NEW o, NEW q, NEW l,
           \A k \in 1 .. n : q[k] \in 1 .. n /\ o[k] = s[q[k]],
           \A i \in 1 .. n : \E k \in 1 .. n : q[k] = i,
           \A k, h \in 1 .. n : q[k] = q[h] => k = h
    PROVE  Cardinality(Placed(o, n, l)) = Cardinality(Placed(s, n, l))
<1> DEFINE A == Placed(o, n, l)
           B == Placed(s, n, l)
           g == [k \in A |-> q[k]]
<1>1. g \in [A -> B]
  BY DEF Placed
<1>2. \A i \in B : \E k \in A : g[k] = i
  BY DEF Placed
<1>3. \A k, h \in A : g[k] = g[h] => k = h
  BY DEF Placed
<1>4. g \in Bijection(A, B)
  <2> HIDE DEF g, A, B
  <2> QED
    BY <1>1, <1>2, <1>3 DEF Bijection, Injection, Surjection, IsInjective
<1>5. IsFiniteSet(A)
  <2>1. A \in SUBSET (1 .. n)
    BY DEF Placed
  <2>2. IsFiniteSet(1 .. n)
    BY FS_Interval
  <2> HIDE DEF A
  <2> QED
    BY <2>1, <2>2, FS_Subset
<1> HIDE DEF g, A, B
<1>6. Cardinality(A) = Cardinality(B)
  BY <1>4, <1>5, FS_Bijection, Zenon DEF ExistsBijection
<1> QED
  BY <1>6 DEF A, B

-----------------------------------------------------------------------------
(* sort does what sort does.                                                 *)

\* q takes each place of the result to a place of ls, all of them, in order.
Sorted(f, ls, q) ==
    /\ \A k \in DOMAIN ls : q[k] \in DOMAIN ls
    /\ \A i \in DOMAIN ls : \E k \in DOMAIN ls : q[k] = i
    /\ \A k, h \in DOMAIN ls : q[k] = q[h] => k = h
    /\ \A k, h \in DOMAIN ls : k < h => ~Prior(f, ls[q[h]], ls[q[k]])
Taken(ls, q) == [k \in DOMAIN ls |-> ls[q[k]]]

\* The lines of a text in the order of sort, all of them.
LEMMA OrderedIs ==
    ASSUME NEW t \in Text, NEW f, f.cmd = "sort", ~Differs(f, t)
    PROVE  \E q : /\ Sorted(f, t.lines, q)
                  /\ PipeSort(f, t).lines = IF "u" \in f.flags THEN FirstOfEach(Taken(t.lines, q))
                                                                ELSE Taken(t.lines, q)
<1> DEFINE ls == t.lines
           R == OrderOn(f, Range(ls))
           rank(i) == 1 + Cardinality({j \in DOMAIN ls : \/ Prior(f, ls[j], ls[i])
                                                         \/ ~Prior(f, ls[i], ls[j]) /\ j < i})
           q == [k \in DOMAIN ls |-> CHOOSE i \in DOMAIN ls : rank(i) = k]
<1>1. ls \in Seq(Seq(Nat)) /\ DOMAIN ls = 1 .. Len(ls) /\ (\A i \in DOMAIN ls : ls[i] \in Range(ls))
  BY LinesOf DEF Range
<1>2. Range(ls) \in SUBSET Seq(Nat)
  <2>1. \A i \in DOMAIN ls : ls[i] \in Seq(Nat)
    BY LinesOf
  <2> QED
    BY <2>1 DEF Range
<1>3. "n" \in f.flags => \A l, m \in Range(ls) : NumberOf(l) = NumberOf(m) => l = m
  BY DEF Differs
<1>4. Orders(R, Range(ls))
  BY <1>2, <1>3, PriorOrders
<1>5. \A i, j \in DOMAIN ls : ls[i] \in R[ls[j]] <=> Prior(f, ls[i], ls[j])
  BY <1>1 DEF OrderOn
<1>6. \A i \in DOMAIN ls : rank(i) = 1 + Cardinality(Below(ByLine(R, ls), Len(ls), i))
  <2>1. ASSUME NEW i \in DOMAIN ls
        PROVE  {j \in DOMAIN ls : Prior(f, ls[j], ls[i]) \/ (~Prior(f, ls[i], ls[j]) /\ j < i)}
                 = Below(ByLine(R, ls), Len(ls), i)
    <3> HIDE DEF ls, R
    <3>1. \A j \in DOMAIN ls :
            j \in ByLine(R, ls)[i] <=> Prior(f, ls[j], ls[i]) \/ (~Prior(f, ls[i], ls[j]) /\ j < i)
      BY <1>1, <1>5 DEF ByLine
    <3> QED
      BY <1>1, <3>1 DEF Below
  <2> HIDE DEF ls, R
  <2> QED
    BY <2>1
<1>7. \A k \in DOMAIN ls : (\E i \in DOMAIN ls : rank(i) = k) => q[k] \in DOMAIN ls /\ rank(q[k]) = k
  <2> HIDE DEF rank, ls
  <2> QED
    OBVIOUS
<1>8. ByRank(R, ls, q)
  <2> HIDE DEF q, rank, ls, R
  <2> QED
    BY <1>6, <1>7, Zenon DEF ByRank
<1>9. Arranges(R, ls, q)
  <2> HIDE DEF q, rank, ls, R
  <2> QED
    BY <1>1, <1>4, <1>8, Sorts
<1>10. Sorted(f, ls, q)
  <2> HIDE DEF q, rank, ls, R
  <2> QED
    BY <1>5, <1>9 DEF Sorted, Arranges
<1>11. PipeSort(f, t).lines = IF "u" \in f.flags THEN FirstOfEach(Taken(ls, q)) ELSE Taken(ls, q)
  <2>1. Taken(ls, q) = [k \in DOMAIN ls |-> ls[CHOOSE i \in DOMAIN ls : rank(i) = k]]
    <3> HIDE DEF rank, ls
    <3> QED
      BY DEF Taken
  <2> HIDE DEF q
  <2>2. PipeSort(f, t).lines = IF "u" \in f.flags
                               THEN FirstOfEach([k \in DOMAIN ls |-> ls[CHOOSE i \in DOMAIN ls : rank(i) = k]])
                               ELSE [k \in DOMAIN ls |-> ls[CHOOSE i \in DOMAIN ls : rank(i) = k]]
    BY DEF PipeSort, StableSort, Ended, Prior, Key
  <2> HIDE DEF ls, rank
  <2> QED
    BY <2>1, <2>2
<1> HIDE DEF q, rank, R
<1> QED
  BY <1>10, <1>11

\* sort breaks ties of the numbers by the text; there are none.
LEMMA SortAgrees ==
    ASSUME NEW t \in Text, NEW f, f.cmd = "sort", IsFilter(f), ~Differs(f, t)
    PROVE  Program(f, t.lines, ApplyPipe(f, t).lines)
<1> DEFINE ls == t.lines
           N == Len(ls)
           S == Range(ls)
<1>1. ls \in Seq(Seq(Nat)) /\ N \in Nat /\ DOMAIN ls = 1 .. N /\ \A i \in 1 .. N : ls[i] \in Seq(Nat)
  BY LinesOf
<1>2. PICK q : /\ Sorted(f, ls, q)
               /\ PipeSort(f, t).lines = IF "u" \in f.flags THEN FirstOfEach(Taken(ls, q)) ELSE Taken(ls, q)
  BY OrderedIs
<1> DEFINE o == Taken(ls, q)
           res == ApplyPipe(f, t).lines
<1>11. res = IF "u" \in f.flags THEN FirstOfEach(o) ELSE o
  BY <1>2 DEF ApplyPipe
<1> HIDE DEF ls
<1>12. /\ \A k \in 1 .. N : q[k] \in 1 .. N
       /\ \A i \in 1 .. N : \E k \in 1 .. N : q[k] = i
       /\ \A k, h \in 1 .. N : q[k] = q[h] => k = h
       /\ \A k, h \in 1 .. N : k < h => ~Prior(f, ls[q[h]], ls[q[k]])
  <2> HIDE DEF N
  <2> QED
    BY <1>1, <1>2 DEF Sorted
<1>3. o \in Seq(Seq(Nat)) /\ Len(o) = N /\ \A k \in 1 .. N : o[k] = ls[q[k]]
  <2>1. \A k \in 1 .. N : ls[q[k]] \in Seq(Nat)
    BY <1>1, <1>12
  <2>2. o = [k \in 1 .. N |-> ls[q[k]]]
    BY <1>1 DEF Taken
  <2> HIDE DEF N, o
  <2> QED
    BY <1>1, <2>1, <2>2
<1>13. \A k, h \in 1 .. N : k < h => ~Prior(f, o[h], o[k])
  <2> HIDE DEF o
  <2> QED
    BY <1>3, <1>12
<1> HIDE DEF ls, N, o
<1>5. S \in SUBSET Seq(Nat) /\ \A l : l \in S <=> \E i \in 1 .. N : ls[i] = l
  BY <1>1 DEF Range
<1> HIDE DEF S
<1>6. Range(o) = S
  <2>1. DOMAIN o = 1 .. N
    BY <1>1, <1>3
  <2>2. \A l : l \in Range(o) <=> \E k \in 1 .. N : ls[q[k]] = l
    BY <1>3, <2>1 DEF Range
  <2>3. \A l : (\E k \in 1 .. N : ls[q[k]] = l) <=> \E i \in 1 .. N : ls[i] = l
    BY <1>12
  <2> QED
    BY <1>5, <2>2, <2>3
<1>7. \A a, b \in S : Prior(f, a, b) <=>
         IF "r" \in f.flags
         THEN (IF "n" \in f.flags THEN Numerically(b, a) \/ (NumberOf(b) = NumberOf(a) /\ Textually(b, a))
               ELSE Textually(b, a))
         ELSE (IF "n" \in f.flags THEN Numerically(a, b) \/ (NumberOf(a) = NumberOf(b) /\ Textually(a, b))
               ELSE Textually(a, b))
  <2>1. "n" \in f.flags => \A l, m \in S : NumberOf(l) = NumberOf(m) => l = m
    BY DEF Differs, S, ls
  <2>2. \A a \in S : ~Textually(a, a)
    BY <1>5, TextIrreflexive
  <2> QED
    BY <2>1, <2>2 DEF Prior, Key
<1>8. Range(res) = S /\ (\A i, j \in DOMAIN res : i < j => ~Prior(f, res[j], res[i]))
      /\ (\A l \in S : Cardinality({i \in DOMAIN res : res[i] = l}) =
             IF "u" \in f.flags THEN 1 ELSE Cardinality({i \in DOMAIN ls : ls[i] = l}))
  <2>1. CASE "u" \notin f.flags
    <3>1. res = o /\ DOMAIN res = 1 .. N
      BY <1>3, <1>11, <2>1
    <3>2. \A i, j \in DOMAIN res : i < j => ~Prior(f, res[j], res[i])
      BY <1>13, <3>1
    <3>3. ASSUME NEW l \in S
          PROVE  Cardinality({i \in DOMAIN res : res[i] = l}) = Cardinality({i \in DOMAIN ls : ls[i] = l})
      <4>1. Cardinality(Placed(o, N, l)) = Cardinality(Placed(ls, N, l))
        <5>1. \A k \in 1 .. N : q[k] \in 1 .. N /\ o[k] = ls[q[k]]
          BY <1>3, <1>12
        <5>2. N \in Nat /\ (\A i \in 1 .. N : \E k \in 1 .. N : q[k] = i)
                 /\ (\A k, h \in 1 .. N : q[k] = q[h] => k = h)
          BY <1>1, <1>12
        <5> HIDE DEF res
        <5> QED
          BY ONLY <5>1, <5>2, CountKept
      <4> QED
        BY <1>1, <3>1, <4>1 DEF Placed
    <3> QED
      BY <1>6, <2>1, <3>1, <3>2, <3>3
  <2>2. CASE "u" \in f.flags
    <3> DEFINE R == OrderOn(f, S)
    <3>1. \A a, b \in S : a \in R[b] <=> Prior(f, a, b)
      BY DEF OrderOn
    <3>2. \A k \in 1 .. N : o[k] \in S
      <4>1. ASSUME NEW k \in 1 .. N PROVE o[k] \in S
        <5>1. q[k] \in 1 .. N /\ o[k] = ls[q[k]]
          BY <1>3, <1>12
        <5> QED
          BY <1>5, <5>1
      <4> QED
        BY <4>1
    <3> HIDE DEF R
    <3>3. \A k, h \in 1 .. Len(o) : k < h => o[h] \notin R[o[k]]
      <4>1. \A k, h \in 1 .. N : o[h] \in R[o[k]] <=> Prior(f, o[h], o[k])
        BY <3>1, <3>2
      <4> QED
        BY <1>3, <1>13, <4>1
    <3>4. /\ FirstOfEach(o) \in Seq(Seq(Nat)) /\ Range(FirstOfEach(o)) = Range(o)
          /\ \A i, j \in 1 .. Len(FirstOfEach(o)) : FirstOfEach(o)[i] = FirstOfEach(o)[j] => i = j
          /\ \A i, j \in 1 .. Len(FirstOfEach(o)) : i < j => FirstOfEach(o)[j] \notin R[FirstOfEach(o)[i]]
      BY <1>3, <3>3, FirstsAre
    <3>5. res = FirstOfEach(o)
      BY <1>11, <2>2
    <3> HIDE DEF res
    <3>6. DOMAIN res = 1 .. Len(res) /\ \A l : l \in S <=> \E i \in DOMAIN res : res[i] = l
      <4>1. DOMAIN res = 1 .. Len(res)
        BY <3>4, <3>5
      <4>2. S = {res[i] : i \in DOMAIN res}
        BY <1>6, <3>4, <3>5, Zenon DEF Range
      <4> QED
        BY <4>1, <4>2
    <3>7. \A i, j \in DOMAIN res : i < j => ~Prior(f, res[j], res[i])
      <4>1. \A i, j \in DOMAIN res : res[j] \in R[res[i]] <=> Prior(f, res[j], res[i])
        BY <3>1, <3>6
      <4> QED
        BY <3>4, <3>5, <3>6, <4>1
    <3>8. ASSUME NEW l \in S
          PROVE  Cardinality({i \in DOMAIN res : res[i] = l}) = 1
      <4>1. PICK i \in DOMAIN res : res[i] = l
        BY <3>6
      <4>2. {j \in DOMAIN res : res[j] = l} = {i}
        BY <3>4, <3>5, <3>6, <4>1
      <4> QED
        BY <4>2, FS_Singleton
    <3>9. Range(res) = S
      BY <1>6, <3>4, <3>5
    <3> QED
      BY <2>2, <3>7, <3>8, <3>9
  <2> QED
    BY <2>1, <2>2
<1>9. \A i \in DOMAIN res : res[i] \in S
  BY <1>8 DEF Range
<1>10. ProgramSorts(f, ls, res)
  <2> HIDE DEF res
  <2>1. Range(res) = Range(ls) /\ S = Range(ls)
    BY <1>8 DEF S
  <2>2. \A i, j \in DOMAIN res : i < j =>
         ~ IF "r" \in f.flags
         THEN (IF "n" \in f.flags
                THEN \/ Numerically(res[i], res[j])
                     \/ NumberOf(res[i]) = NumberOf(res[j]) /\ Textually(res[i], res[j])
               ELSE Textually(res[i], res[j]))
         ELSE (IF "n" \in f.flags
                THEN \/ Numerically(res[j], res[i])
                     \/ NumberOf(res[j]) = NumberOf(res[i]) /\ Textually(res[j], res[i])
               ELSE Textually(res[j], res[i]))
    BY <1>7, <1>8, <1>9
  <2> QED
    BY <1>8, <2>1, <2>2, Zenon DEF ProgramSorts
<1> QED
  BY <1>10 DEF Program, ls

-----------------------------------------------------------------------------
(* uniq: the runs of equal lines.                                            *)

Group(E) == [count : Nat, line : E]
\* One more line: of the last group, or of a new one.
Grown(gs, l) ==
    IF gs # << >> /\ Last(gs).line = l
    THEN [gs EXCEPT ![Len(gs)].count = @ + 1]
    ELSE Append(gs, [count |-> 1, line |-> l])

\* r is gs with one more line in its last group.
LastGrows(r, gs, E) ==
    /\ r \in Seq(Group(E)) /\ Len(r) = Len(gs) /\ Len(gs) > 0
    /\ \A h \in 1 .. Len(gs) : r[h].line = gs[h].line
    /\ \A h \in 1 .. (Len(gs) - 1) : r[h].count = gs[h].count
    /\ r[Len(gs)].count = gs[Len(gs)].count + 1

\* A line of the last group.
LEMMA GrownLast ==
    ASSUME NEW E, NEW gs \in Seq(Group(E)), NEW l \in E, gs # << >>, gs[Len(gs)].line = l
    PROVE  LastGrows(Grown(gs, l), gs, E)
<1> DEFINE m == Len(gs)
           r == [gs EXCEPT ![m].count = @ + 1]
<1>1. m \in Nat /\ m > 0 /\ DOMAIN gs = 1 .. m /\ \A h \in 1 .. m : gs[h] \in Group(E)
  BY EmptySeq, ElementOfSeq
<1>2. Grown(gs, l) = r
  BY DEF Grown, Last
<1>3. r = [h \in 1 .. m |-> IF h = m THEN [gs[m] EXCEPT !.count = @ + 1] ELSE gs[h]]
  <2> HIDE DEF m
  <2> QED
    BY <1>1
<1>4. gs[m].count \in Nat /\ gs[m].line \in E
  BY <1>1 DEF Group
<1>5. /\ [gs[m] EXCEPT !.count = @ + 1] \in Group(E)
      /\ [gs[m] EXCEPT !.count = @ + 1].line = gs[m].line
      /\ [gs[m] EXCEPT !.count = @ + 1].count = gs[m].count + 1
  <2>1. gs[m] \in Group(E)
    BY <1>1
  <2> HIDE DEF m
  <2> QED
    BY <1>4, <2>1 DEF Group
<1> HIDE DEF r, m
<1>6. r \in Seq(Group(E)) /\ Len(r) = m
  <2>1. \A h \in 1 .. m : (IF h = m THEN [gs[m] EXCEPT !.count = @ + 1] ELSE gs[h]) \in Group(E)
    BY <1>1, <1>5
  <2> DEFINE F(h) == IF h = m THEN [gs[m] EXCEPT !.count = @ + 1] ELSE gs[h]
  <2>2. r = [h \in 1 .. m |-> F(h)] /\ \A h \in 1 .. m : F(h) \in Group(E)
    BY <1>3, <2>1
  <2> HIDE DEF F
  <2> QED
    BY <1>1, <2>2
<1>7. \A h \in 1 .. m : r[h] = IF h = m THEN [gs[m] EXCEPT !.count = @ + 1] ELSE gs[h]
  BY <1>3, Zenon
<1>8. \A h \in 1 .. m : r[h].line = gs[h].line
  BY <1>5, <1>7
<1>9. \A h \in 1 .. (m - 1) : r[h].count = gs[h].count
  <2>1. \A h \in 1 .. (m - 1) : h \in 1 .. m /\ h # m
    BY <1>1
  <2> QED
    BY <1>7, <2>1
<1>10. r[m].count = gs[m].count + 1
  <2>1. m \in 1 .. m
    BY <1>1
  <2> QED
    BY <1>5, <1>7, <2>1
<1> QED
  BY <1>1, <1>2, <1>6, <1>8, <1>9, <1>10 DEF m, LastGrows

\* r is gs with one more group, of the line l.
OneGroupMore(r, gs, l, E) ==
    /\ r \in Seq(Group(E)) /\ Len(r) = Len(gs) + 1
    /\ \A h \in 1 .. Len(gs) : r[h] = gs[h]
    /\ r[Len(gs) + 1] = [count |-> 1, line |-> l]

\* A line of a new group.
LEMMA GrownNew ==
    ASSUME NEW E, NEW gs \in Seq(Group(E)), NEW l \in E, gs = << >> \/ gs[Len(gs)].line # l
    PROVE  OneGroupMore(Grown(gs, l), gs, l, E)
<1>1. Grown(gs, l) = Append(gs, [count |-> 1, line |-> l])
  BY DEF Grown, Last
<1>2. [count |-> 1, line |-> l] \in Group(E)
  BY DEF Group
<1> QED
  BY <1>1, <1>2, AppendProperties DEF OneGroupMore

\* Groups stay groups.
LEMMA GrownType ==
    ASSUME NEW E, NEW gs \in Seq(Group(E)), NEW l \in E
    PROVE  Grown(gs, l) \in Seq(Group(E))
<1>1. CASE gs # << >> /\ gs[Len(gs)].line = l
  BY <1>1, GrownLast DEF LastGrows
<1>2. CASE gs = << >> \/ gs[Len(gs)].line # l
  BY <1>2, GrownNew DEF OneGroupMore
<1> QED
  BY <1>1, <1>2

\* Groups, one line after another.
LEMMA GroupSteps ==
    ASSUME NEW E, NEW ls \in Seq(E)
    PROVE  \E g : /\ g[0] = << >> /\ g[0] \in Seq(Group(E))
                  /\ \A i \in 1 .. Len(ls) : g[i - 1] \in Seq(Group(E)) => g[i] = Grown(g[i - 1], ls[i])
                  /\ Groups(ls) = g[Len(ls)]
<1> DEFINE N == Len(ls)
           A == Seq(Group(E))
           iter == CHOOSE iter : iter = [s \in SUBSET (1 .. N) |->
                      IF s = {} THEN << >> ELSE Grown(iter[s \ {Max(s)}], ls[Max(s)])]
           step == [p \in A \X (1 .. N) |-> Grown(p[1], ls[p[2]])]
<1>1. N \in Nat /\ DOMAIN ls = 1 .. N /\ \A i \in 1 .. N : ls[i] \in E
  BY ElementOfSeq
<1>2. Groups(ls) = iter[1 .. N]
  BY <1>1 DEF Groups, Grown, FoldLeft, MapThenFoldSet
<1>3. step \in [A \X (1 .. N) -> A]
  BY <1>1, GrownType
<1>4. << >> \in A
  OBVIOUS
<1>5. \E f \in [SUBSET (1 .. N) -> A] : IsFold(f, N, << >>, step)
  <2>1. N \in Nat
    BY <1>1
  <2> HIDE DEF step, N, iter, A
  <2> QED
    BY ONLY <2>1, <1>3, <1>4, FoldExists
<1>6. PICK f \in [SUBSET (1 .. N) -> A] : IsFold(f, N, << >>, step)
  BY <1>5
<1>7. f = [s \in SUBSET (1 .. N) |->
                      IF s = {} THEN << >> ELSE Grown(f[s \ {Max(s)}], ls[Max(s)])]
  <2>1. ASSUME NEW s \in SUBSET (1 .. N), s # {}
        PROVE  step[<<f[s \ {Max(s)}], Max(s)>>] = Grown(f[s \ {Max(s)}], ls[Max(s)])
    <3>1. Max(s) \in 1 .. N
      BY <1>1, <2>1, MaxIn
    <3>2. f[s \ {Max(s)}] \in A
      OBVIOUS
    <3> HIDE DEF A, N
    <3> QED
      BY <3>1, <3>2
  <2> HIDE DEF step, A, N
  <2> QED
    BY <1>6, <2>1 DEF IsFold
<1>8. iter = [s \in SUBSET (1 .. N) |->
                      IF s = {} THEN << >> ELSE Grown(iter[s \ {Max(s)}], ls[Max(s)])]
  BY <1>7, Zenon
<1> HIDE DEF iter, step, N
<1> DEFINE g == [i \in 0 .. N |-> iter[1 .. i]]
<1>9. g[0] = << >>
  <2>1. 1 .. 0 = {} /\ {} \in SUBSET (1 .. N) /\ 0 \in 0 .. N
    BY <1>1
  <2> HIDE DEF A
  <2> QED
    BY <1>8, <2>1
<1>10. ASSUME NEW i \in 1 .. N
      PROVE  g[i] = Grown(g[i - 1], ls[i])
  <2>1. i \in 0 .. N /\ i - 1 \in 0 .. N
    BY <1>1
  <2>2. 1 .. i \in SUBSET (1 .. N) /\ 1 .. i # {} /\ Max(1 .. i) = i /\ (1 .. i) \ {i} = 1 .. (i - 1)
    BY <1>1, Intervals
  <2>3. iter[1 .. i] = Grown(iter[1 .. (i - 1)], ls[i])
    BY <1>8, <2>2, Zenon
  <2>4. g[i] = iter[1 .. i] /\ g[i - 1] = iter[1 .. (i - 1)]
    BY <2>1
  <2> HIDE DEF g
  <2> QED
    BY <2>3, <2>4, Zenon
<1>11. Groups(ls) = g[N]
  BY <1>1, <1>2
<1> HIDE DEF g
<1> QED
  BY <1>4, <1>9, <1>10, <1>11 DEF N, A

Starts(ls, i) == i = 1 \/ ls[i - 1] # ls[i]
EndOf(p, m, k, h) == IF h = m THEN k ELSE p[h + 1] - 1
\* The groups of the first k lines: where each begins, and how far it goes.
Grouped(gs, ls, k, m, p) ==
    /\ gs \in Seq(Group(Seq(Nat))) /\ Len(gs) = m
    /\ Increasing(p, m) /\ \A i : i \in Image(p, m) <=> i \in 1 .. k /\ Starts(ls, i)
    /\ \A h \in 1 .. m :
          /\ gs[h].line = ls[p[h]] /\ p[h] <= EndOf(p, m, k, h) /\ EndOf(p, m, k, h) \in Nat
          /\ gs[h].count = EndOf(p, m, k, h) - p[h] + 1
          /\ \A i \in p[h] .. EndOf(p, m, k, h) : ls[i] = ls[p[h]]

\* Groups of the first k - 1 lines, with the k-th, are groups of the first k.
LEMMA GroupedNext ==
    ASSUME NEW ls \in Seq(Seq(Nat)), NEW k \in 1 .. Len(ls), NEW gs, NEW m \in Nat,
           NEW p \in [1 .. m -> 1 .. (k - 1)], Grouped(gs, ls, k - 1, m, p)
    PROVE  \E n \in Nat : \E q \in [1 .. n -> 1 .. k] : Grouped(Grown(gs, ls[k]), ls, k, n, q)
<1> DEFINE nx == ls[k]
           G == Grown(gs, nx)
           W == Seq(Nat)
<1>1. k \in Nat /\ k > 0 /\ k - 1 \in Nat /\ 1 .. (k - 1) \subseteq 1 .. k /\ nx \in W
  BY ElementOfSeq
<1>2. gs \in Seq(Group(W)) /\ Len(gs) = m /\ (m = 0 <=> gs = << >>)
  <2>1. gs \in Seq(Group(W)) /\ Len(gs) = m
    BY DEF Grouped
  <2> HIDE DEF W
  <2> QED
    BY <2>1, EmptySeq
<1>3. m > 0 => /\ m \in 1 .. m /\ EndOf(p, m, k - 1, m) = k - 1
               /\ gs[m].line = ls[p[m]] /\ p[m] \in 1 .. (k - 1) /\ k - 1 \in p[m] .. (k - 1)
               /\ ls[k - 1] = ls[p[m]]
  <2> SUFFICES ASSUME m > 0
               PROVE  /\ m \in 1 .. m /\ EndOf(p, m, k - 1, m) = k - 1
                      /\ gs[m].line = ls[p[m]] /\ p[m] \in 1 .. (k - 1) /\ k - 1 \in p[m] .. (k - 1)
                      /\ ls[k - 1] = ls[p[m]]
    OBVIOUS
  <2>1. m \in 1 .. m /\ EndOf(p, m, k - 1, m) = k - 1
    BY DEF EndOf
  <2>2. p[m] \in 1 .. (k - 1)
    BY <2>1
  <2>3. k - 1 \in p[m] .. (k - 1)
    BY <1>1, <2>2
  <2>4. gs[m].line = ls[p[m]] /\ \A i \in p[m] .. EndOf(p, m, k - 1, m) : ls[i] = ls[p[m]]
    BY <2>1 DEF Grouped
  <2> QED
    BY <2>1, <2>2, <2>3, <2>4
<1>4. CASE m > 0 /\ ls[p[m]] = nx
  <2>1. /\ G \in Seq(Group(W)) /\ Len(G) = m
        /\ \A h \in 1 .. m : G[h].line = gs[h].line
        /\ \A h \in 1 .. (m - 1) : G[h].count = gs[h].count
        /\ G[m].count = gs[m].count + 1
    <3> HIDE DEF W
    <3>1. gs # << >> /\ gs[Len(gs)].line = nx
      BY <1>2, <1>3, <1>4
    <3> HIDE DEF nx
    <3>2. gs \in Seq(Group(W)) /\ nx \in W
      BY <1>1, <1>2
    <3>3. LastGrows(G, gs, W)
      BY <3>1, <3>2, GrownLast
    <3> HIDE DEF G
    <3> QED
      BY <1>2, <3>3 DEF LastGrows
  <2>2. ~Starts(ls, k)
    BY <1>1, <1>3, <1>4 DEF Starts
  <2>3. \A i : i \in Image(p, m) <=> i \in 1 .. k /\ Starts(ls, i)
    <3>1. \A i : i \in Image(p, m) <=> i \in 1 .. (k - 1) /\ Starts(ls, i)
      BY DEF Grouped
    <3>2. \A i : i \in 1 .. k <=> i \in 1 .. (k - 1) \/ i = k
      BY <1>1
    <3> QED
      BY <2>2, <3>1, <3>2
  <2>4. ASSUME NEW h \in 1 .. m
        PROVE  /\ G[h].line = ls[p[h]] /\ p[h] <= EndOf(p, m, k, h) /\ EndOf(p, m, k, h) \in Nat
               /\ G[h].count = EndOf(p, m, k, h) - p[h] + 1
               /\ \A i \in p[h] .. EndOf(p, m, k, h) : ls[i] = ls[p[h]]
    <3>1. /\ gs[h].line = ls[p[h]] /\ p[h] <= EndOf(p, m, k - 1, h) /\ EndOf(p, m, k - 1, h) \in Nat
          /\ gs[h].count = EndOf(p, m, k - 1, h) - p[h] + 1
          /\ \A i \in p[h] .. EndOf(p, m, k - 1, h) : ls[i] = ls[p[h]]
      BY DEF Grouped
    <3>2. CASE h # m
      <4>1. EndOf(p, m, k, h) = EndOf(p, m, k - 1, h) /\ h \in 1 .. (m - 1)
        BY <3>2 DEF EndOf
      <4> HIDE DEF G
      <4> QED
        BY <2>1, <3>1, <4>1
    <3>3. CASE h = m
      <4>1. EndOf(p, m, k, h) = k /\ EndOf(p, m, k - 1, h) = k - 1 /\ p[h] \in Nat
        BY <1>1, <1>3, <1>4, <3>3 DEF EndOf
      <4>2. \A i \in p[h] .. k : i \in p[h] .. (k - 1) \/ i = k
        BY <1>1, <4>1
      <4> HIDE DEF G
      <4>3. \A i \in p[h] .. k : ls[i] = ls[p[h]]
        BY <1>4, <3>1, <3>3, <4>1, <4>2
      <4>4. G[h].line = ls[p[h]]
        BY <2>1, <3>1
      <4>5. p[h] <= k /\ k \in Nat /\ gs[h].count = k - 1 - p[h] + 1
        BY <1>1, <3>1, <4>1
      <4>6. G[h].count = gs[h].count + 1
        BY <2>1, <3>3
      <4>7. G[h].count = k - p[h] + 1
        BY <1>1, <4>1, <4>5, <4>6
      <4> QED
        BY <4>1, <4>3, <4>4, <4>5, <4>7
    <3> QED
      BY <3>2, <3>3
  <2>5. Grouped(G, ls, k, m, p)
    <3> HIDE DEF G
    <3> QED
      BY <2>1, <2>3, <2>4 DEF Grouped
  <2>6. p \in [1 .. m -> 1 .. k]
    BY <1>1
  <2> HIDE DEF G
  <2> QED
    BY <2>5, <2>6 DEF G
<1>5. CASE m = 0 \/ ls[p[m]] # nx
  <2> DEFINE q == With(p, m, k)
  <2>1. /\ G \in Seq(Group(W)) /\ Len(G) = m + 1
        /\ \A h \in 1 .. m : G[h] = gs[h]
        /\ G[m + 1] = [count |-> 1, line |-> nx]
    <3> HIDE DEF W
    <3>1. gs = << >> \/ gs[Len(gs)].line # nx
      BY <1>2, <1>3, <1>5
    <3> HIDE DEF nx
    <3>2. OneGroupMore(Grown(gs, nx), gs, nx, W)
      <4>1. gs \in Seq(Group(W)) /\ nx \in W
        BY <1>1, <1>2
      <4> QED
        BY <4>1, <3>1, GrownNew
    <3> QED
      BY <1>2, <3>2 DEF OneGroupMore
  <2>2. Starts(ls, k)
    <3>1. CASE m = 0
      <4>1. ~ \E i : i \in Image(p, m)
        BY <3>1 DEF Image
      <4>2. 1 \notin 1 .. (k - 1)
        BY <4>1 DEF Grouped, Starts
      <4> QED
        BY <1>1, <4>2 DEF Starts
    <3>2. CASE m > 0 /\ ls[p[m]] # nx
      BY <1>3, <3>2 DEF Starts
    <3> QED
      BY <1>5, <3>1, <3>2
  <2>3. /\ q \in [1 .. (m + 1) -> 1 .. k] /\ Increasing(q, m + 1)
        /\ \A i : i \in Image(q, m + 1) <=> i \in Image(p, m) \/ i = k
    <3> DEFINE n == k - 1
    <3>1. Increasing(p, m) /\ n \in Nat /\ k \in Nat /\ k > n /\ p \in [1 .. m -> 1 .. n]
      BY <1>1 DEF Grouped
    <3> HIDE DEF n
    <3> QED
      BY <3>1, EnumeratedNext
  <2>4. \A i : i \in Image(q, m + 1) <=> i \in 1 .. k /\ Starts(ls, i)
    <3>1. \A i : i \in Image(p, m) <=> i \in 1 .. (k - 1) /\ Starts(ls, i)
      BY DEF Grouped
    <3>2. \A i : i \in 1 .. k <=> i \in 1 .. (k - 1) \/ i = k
      BY <1>1
    <3> HIDE DEF q
    <3> QED
      BY <2>2, <2>3, <3>1, <3>2
  <2>5. (\A h \in 1 .. m : q[h] = p[h]) /\ q[m + 1] = k
    BY DEF With
  <2> HIDE DEF q
  <2>6. ASSUME NEW h \in 1 .. (m + 1)
        PROVE  /\ G[h].line = ls[q[h]] /\ q[h] <= EndOf(q, m + 1, k, h) /\ EndOf(q, m + 1, k, h) \in Nat
               /\ G[h].count = EndOf(q, m + 1, k, h) - q[h] + 1
               /\ \A i \in q[h] .. EndOf(q, m + 1, k, h) : ls[i] = ls[q[h]]
    <3>1. CASE h = m + 1
      <4>1. EndOf(q, m + 1, k, h) = k /\ q[h] = k /\ G[h] = [count |-> 1, line |-> nx]
        BY <2>1, <2>5, <3>1 DEF EndOf
      <4> HIDE DEF G
      <4> QED
        BY <1>1, <4>1
    <3>2. CASE h # m + 1
      <4>1. h \in 1 .. m /\ q[h] = p[h] /\ G[h] = gs[h]
        <5>1. h \in 1 .. m
          BY <3>2
        <5> HIDE DEF G
        <5> QED
          BY <2>1, <2>5, <5>1
      <4>2. EndOf(q, m + 1, k, h) = EndOf(p, m, k - 1, h)
        <5>1. CASE h = m
          BY <2>5, <3>2, <5>1 DEF EndOf
        <5>2. CASE h # m
          <6>1. h + 1 \in 1 .. m
            BY <4>1, <5>2
          <6> QED
            BY <2>5, <3>2, <5>2, <6>1 DEF EndOf
        <5> QED
          BY <5>1, <5>2
      <4> HIDE DEF G
      <4>3. /\ gs[h].line = ls[p[h]] /\ p[h] <= EndOf(p, m, k - 1, h) /\ EndOf(p, m, k - 1, h) \in Nat
            /\ gs[h].count = EndOf(p, m, k - 1, h) - p[h] + 1
            /\ \A i \in p[h] .. EndOf(p, m, k - 1, h) : ls[i] = ls[p[h]]
        BY <4>1 DEF Grouped
      <4> QED
        BY <4>1, <4>2, <4>3
    <3> QED
      BY <3>1, <3>2
  <2>7. Grouped(G, ls, k, m + 1, q) /\ m + 1 \in Nat
    <3> HIDE DEF G
    <3> QED
      BY <2>1, <2>3, <2>4, <2>6 DEF Grouped
  <2> HIDE DEF G
  <2> QED
    BY <2>3, <2>7 DEF G
<1>6. (m > 0 /\ ls[p[m]] = nx) \/ m = 0 \/ ls[p[m]] # nx
  OBVIOUS
<1> HIDE DEF G, W
<1> QED
  BY <1>4, <1>5, <1>6

\* Groups are the runs of equal lines.
LEMMA GroupsAre ==
    ASSUME NEW ls \in Seq(Seq(Nat))
    PROVE  \E m \in Nat : \E p \in [1 .. m -> 1 .. Len(ls)] : Grouped(Groups(ls), ls, Len(ls), m, p)
<1> DEFINE N == Len(ls)
<1>1. N \in Nat
  OBVIOUS
<1>2. PICK g : /\ g[0] = << >> /\ g[0] \in Seq(Group(Seq(Nat)))
               /\ \A i \in 1 .. N : g[i - 1] \in Seq(Group(Seq(Nat))) => g[i] = Grown(g[i - 1], ls[i])
               /\ Groups(ls) = g[N]
  BY GroupSteps
<1> DEFINE Good(k) == \E m \in Nat : \E p \in [1 .. m -> 1 .. k] : Grouped(g[k], ls, k, m, p)
           P == {k \in 0 .. N : Good(k)}
<1>3. 0 \in P
  <2>1. [i \in 1 .. 0 |-> 1] \in [1 .. 0 -> 1 .. 0] /\ Grouped(g[0], ls, 0, 0, [i \in 1 .. 0 |-> 1])
    BY <1>2 DEF Grouped, Increasing, Image
  <2>2. Good(0)
    BY <2>1, Zenon DEF Grouped
  <2> HIDE DEF Good
  <2> QED
    BY <1>1, <2>2
<1>4. ASSUME NEW k \in 1 .. N, k - 1 \in P PROVE k \in P
  <2>1. Good(k - 1) /\ k \in 0 .. N
    <3> HIDE DEF Good
    <3> QED
      BY <1>1, <1>4
  <2>2. PICK m \in Nat : \E p \in [1 .. m -> 1 .. (k - 1)] : Grouped(g[k - 1], ls, k - 1, m, p)
    BY <2>1
  <2>3. PICK p \in [1 .. m -> 1 .. (k - 1)] : Grouped(g[k - 1], ls, k - 1, m, p)
    BY <2>2
  <2>4. g[k] = Grown(g[k - 1], ls[k])
    BY <1>2, <2>3 DEF Grouped
  <2>5. Good(k)
    BY <2>3, <2>4, GroupedNext
  <2> HIDE DEF Good
  <2> QED
    BY <2>1, <2>5
<1>5. N \in P
  <2>2. \A k \in 1 .. N : k - 1 \in P => k \in P
    BY <1>4
  <2> HIDE DEF P, N
  <2>3. \A k \in 0 .. N : k \in P
    BY <1>1, <2>2, <1>3, StepByStep
  <2> QED
    BY <1>1, <2>3
<1> QED
  BY <1>2, <1>5

RunOf(ls, i) == Cardinality({j \in i .. Len(ls) : \A k \in i .. j : ls[k] = ls[i]})

\* The count of a group is the length of the run that begins it.
LEMMA RunsAre ==
    ASSUME NEW ls \in Seq(Seq(Nat)), NEW gs, NEW m \in Nat, NEW p \in [1 .. m -> 1 .. Len(ls)],
           Grouped(gs, ls, Len(ls), m, p), NEW h \in 1 .. m
    PROVE  RunOf(ls, p[h]) = gs[h].count
<1> DEFINE N == Len(ls)
           e == EndOf(p, m, N, h)
           a == p[h]
<1>1. N \in Nat /\ a \in 1 .. N /\ a \in Nat
  OBVIOUS
<1>2. a <= e /\ e \in Nat /\ gs[h].count = e - a + 1 /\ \A i \in a .. e : ls[i] = ls[a]
  BY DEF Grouped
<1>3. e <= N
  <2>1. CASE h = m
    BY <1>1, <2>1 DEF EndOf
  <2>2. CASE h # m
    <3>1. h + 1 \in 1 .. m
      BY <2>2
    <3>2. p[h + 1] \in 1 .. N
      BY <3>1
    <3> QED
      BY <1>1, <2>2, <3>2 DEF EndOf
  <2> QED
    BY <2>1, <2>2
<1>4. ASSUME e < N PROVE e + 1 \in 1 .. N /\ ls[e + 1] # ls[a]
  <2>1. h # m /\ h + 1 \in 1 .. m
    <3>1. h # m
      BY <1>1, <1>4 DEF EndOf
    <3> QED
      BY <3>1
  <2>2. e + 1 = p[h + 1] /\ p[h + 1] \in 1 .. N
    BY <2>1 DEF EndOf
  <2>3. p[h + 1] \in Image(p, m)
    BY <2>1 DEF Image
  <2>4. Starts(ls, p[h + 1])
    BY <2>3 DEF Grouped
  <2> HIDE DEF e, a, N
  <2>5. e + 1 # 1 /\ (e + 1) - 1 = e /\ ls[e] = ls[a]
    BY <1>1, <1>2
  <2> QED
    BY <2>2, <2>4, <2>5 DEF Starts
<1> HIDE DEF e, N, a
<1>5. \A j : j \in a .. N /\ (\A k \in a .. j : ls[k] = ls[a]) <=> j \in a .. e
  <2>1. ASSUME NEW j \in a .. N, \A k \in a .. j : ls[k] = ls[a]
        PROVE  j \in a .. e
    <3>1. CASE j > e
      <4>1. e < N /\ e + 1 \in a .. j
        BY <1>1, <1>2, <2>1, <3>1
      <4> QED
        BY <1>4, <2>1, <4>1
    <3> QED
      BY <1>1, <1>2, <3>1
  <2>2. ASSUME NEW j \in a .. e
        PROVE  j \in a .. N /\ \A k \in a .. j : ls[k] = ls[a]
    <3>1. \A k \in a .. j : k \in a .. e
      BY <1>1, <1>2
    <3> QED
      BY <1>1, <1>2, <1>3, <3>1
  <2> QED
    BY <2>1, <2>2
<1>6. {j \in a .. N : \A k \in a .. j : ls[k] = ls[a]} = a .. e
  BY <1>5
<1>7. Cardinality(a .. e) = e - a + 1
  BY <1>1, <1>2, FS_Interval
<1> QED
  BY <1>2, <1>6, <1>7 DEF RunOf, a, N

\* uniq prints one line of each run, counted or only repeated ones.
LEMMA UniqAgrees ==
    ASSUME NEW t \in Text, NEW f, f.cmd = "uniq", IsFilter(f)
    PROVE  Program(f, t.lines, ApplyPipe(f, t).lines)
<1> DEFINE ls == t.lines
           N == Len(ls)
           gs == Groups(ls)
           K == {g \in Range(gs) : "d" \in f.flags => g.count >= 2}
           S == {i \in DOMAIN ls : (i = 1 \/ ls[i - 1] # ls[i]) /\ ("d" \in f.flags => RunOf(ls, i) > 1)}
<1>1. ls \in Seq(Seq(Nat)) /\ N \in Nat /\ DOMAIN ls = 1 .. N /\ \A i \in 1 .. N : ls[i] \in Seq(Nat)
  BY LinesOf
<1> HIDE DEF ls
<1>2. PICK m \in Nat : \E p \in [1 .. m -> 1 .. N] : Grouped(gs, ls, N, m, p)
  BY <1>1, GroupsAre
<1>3. PICK p \in [1 .. m -> 1 .. N] : Grouped(gs, ls, N, m, p)
  BY <1>2
<1>4. \A h \in 1 .. m : gs[h].count = RunOf(ls, p[h]) /\ gs[h].line = ls[p[h]] /\ p[h] \in 1 .. N
  <2>1. ASSUME NEW h \in 1 .. m PROVE gs[h].count = RunOf(ls, p[h])
    BY <1>1, <1>3, RunsAre
  <2> HIDE DEF gs, N
  <2> QED
    BY <1>3, <2>1 DEF Grouped
<1> DEFINE H == {h \in 1 .. Len(gs) : gs[h] \in K}
<1>5. gs \in Seq(Group(Seq(Nat))) /\ Len(gs) = m /\ DOMAIN gs = 1 .. m
  BY <1>3 DEF Grouped
<1> HIDE DEF gs
<1>18. \A h \in 1 .. m : RunOf(ls, p[h]) \in Nat
  <2>1. ASSUME NEW h \in 1 .. m PROVE gs[h] \in Group(Seq(Nat))
    BY <1>5, ElementOfSeq
  <2> QED
    BY <1>4, <2>1 DEF Group
<1>6. H \in SUBSET (1 .. m) /\ \A h \in 1 .. m : h \in H <=> ("d" \in f.flags => RunOf(ls, p[h]) >= 2)
  <2>1. \A h \in 1 .. m : gs[h] \in Range(gs)
    BY <1>5 DEF Range
  <2>2. H \in SUBSET (1 .. m)
    BY <1>5
  <2> QED
    BY <1>4, <1>5, <2>1, <2>2
<1> HIDE DEF H
<1> DEFINE c == Cardinality(H)
           a == Ascending(H)
<1>7. c \in Nat /\ a \in [1 .. c -> 1 .. m] /\ Increasing(a, c) /\ H = Image(a, c)
  BY <1>6, AscendingIs
<1>8. Among(gs, K) = [k \in 1 .. c |-> gs[a[k]]]
  <2>1. Among(gs, K) = LinesAt(gs, H)
    <3> HIDE DEF K
    <3> QED
      BY <1>5, AmongPlaces DEF H
  <2> QED
    BY <2>1 DEF LinesAt
<1> HIDE DEF a, c
<1> DEFINE pa == [k \in 1 .. c |-> p[a[k]]]
<1>9. \A k \in 1 .. c : a[k] \in 1 .. m /\ a[k] \in H /\ pa[k] = p[a[k]] /\ pa[k] \in 1 .. N
  <2>1. \A k \in 1 .. c : a[k] \in 1 .. m
    BY <1>7
  <2>2. \A k \in 1 .. c : a[k] \in H
    BY <1>7 DEF Image
  <2> QED
    BY <1>4, <2>1, <2>2
<1>10. pa \in [1 .. c -> Nat] /\ Increasing(pa, c)
  <2>1. pa \in [1 .. c -> Nat]
    BY <1>9
  <2>2. \A i, j \in 1 .. m : i < j => p[i] < p[j]
    BY <1>3 DEF Grouped, Increasing
  <2>3. \A i, j \in 1 .. c : i < j => a[i] < a[j]
    BY <1>7 DEF Increasing
  <2>4. \A i, j \in 1 .. c : i < j => pa[i] < pa[j]
    BY <1>9, <2>2, <2>3
  <2> HIDE DEF pa
  <2> QED
    BY <2>1, <2>4 DEF Increasing
<1>11. \A i \in 1 .. N : (i = 1 \/ ls[i - 1] # ls[i]) <=> \E h \in 1 .. m : i = p[h]
  <2>1. \A i : i \in Image(p, m) <=> i \in 1 .. N /\ Starts(ls, i)
    BY <1>3 DEF Grouped
  <2>2. \A i : i \in Image(p, m) <=> \E h \in 1 .. m : i = p[h]
    BY DEF Image
  <2> HIDE DEF N
  <2> QED
    BY <2>1, <2>2 DEF Starts
<1>12. S = Image(pa, c)
  <2>1. ASSUME NEW i \in S PROVE i \in Image(pa, c)
    <3>1. i \in 1 .. N /\ (i = 1 \/ ls[i - 1] # ls[i]) /\ ("d" \in f.flags => RunOf(ls, i) > 1)
      BY <1>1, <2>1
    <3> HIDE DEF S
    <3>2. PICK h \in 1 .. m : i = p[h]
      BY <1>11, <3>1
    <3>3. RunOf(ls, p[h]) \in Nat
      BY <1>18
    <3>4. h \in H
      BY <1>6, <3>1, <3>2, <3>3
    <3>5. PICK k \in 1 .. c : h = a[k]
      BY <1>7, <3>4 DEF Image
    <3> QED
      BY <1>9, <3>2, <3>5 DEF Image
  <2>2. ASSUME NEW i \in Image(pa, c) PROVE i \in S
    <3>1. PICK k \in 1 .. c : i = pa[k]
      BY <2>2 DEF Image
    <3> DEFINE h == a[k]
    <3>2. h \in 1 .. m /\ h \in H /\ i = p[h] /\ i \in 1 .. N
      BY <1>9, <3>1
    <3> HIDE DEF h, pa
    <3>3. RunOf(ls, p[h]) \in Nat
      BY <1>18, <3>2
    <3>4. "d" \in f.flags => RunOf(ls, i) > 1
      BY <1>6, <3>2, <3>3
    <3>5. i = 1 \/ ls[i - 1] # ls[i]
      BY <1>11, <3>2
    <3> QED
      BY <1>1, <3>2, <3>4, <3>5
  <2> HIDE DEF S, pa
  <2> QED
    BY <2>1, <2>2
<1>13. Ascending(S) = pa
  <2> HIDE DEF S, pa
  <2> QED
    BY <1>7, <1>10, <1>12, Enumerated
<1>14. ProgramUniq(f, ls) = [k \in 1 .. c |-> (IF "c" \in f.flags THEN <<RunOf(ls, pa[k])>>
                                               ELSE << >>) \o ls[pa[k]]]
  <2>1. DOMAIN pa = 1 .. c
    OBVIOUS
  <2> HIDE DEF pa
  <2>2. ProgramUniq(f, ls) = [k \in DOMAIN Ascending(S) |->
            (IF "c" \in f.flags THEN <<RunOf(ls, Ascending(S)[k])>> ELSE << >>) \o ls[Ascending(S)[k]]]
    BY DEF ProgramUniq, RunOf
  <2> HIDE DEF S
  <2> QED
    BY <1>13, <2>1, <2>2
<1>15. ApplyPipe(f, t).lines = [k \in 1 .. c |->
            IF "c" \in f.flags THEN <<gs[a[k]].count>> \o gs[a[k]].line ELSE gs[a[k]].line]
  <2>1. ApplyPipe(f, t) = PipeUniq(f, t)
    BY DEF ApplyPipe
  <2>2. PipeUniq(f, t).lines = [k \in DOMAIN Among(gs, K) |->
            IF "c" \in f.flags THEN <<Among(gs, K)[k].count>> \o Among(gs, K)[k].line
            ELSE Among(gs, K)[k].line]
    BY DEF PipeUniq, Ended, ls, gs
  <2> HIDE DEF K
  <2> QED
    BY <1>8, <2>1, <2>2
<1>16. \A k \in 1 .. c : (IF "c" \in f.flags THEN <<RunOf(ls, pa[k])>> ELSE << >>) \o ls[pa[k]]
                       = IF "c" \in f.flags THEN <<gs[a[k]].count>> \o gs[a[k]].line ELSE gs[a[k]].line
  <2> SUFFICES ASSUME NEW k \in 1 .. c
               PROVE  (IF "c" \in f.flags THEN <<RunOf(ls, pa[k])>> ELSE << >>) \o ls[pa[k]]
                       = IF "c" \in f.flags THEN <<gs[a[k]].count>> \o gs[a[k]].line ELSE gs[a[k]].line
    OBVIOUS
  <2> HIDE DEF pa
  <2>1. gs[a[k]].count = RunOf(ls, pa[k]) /\ gs[a[k]].line = ls[pa[k]] /\ ls[pa[k]] \in Seq(Nat)
    BY <1>1, <1>4, <1>9
  <2>2. << >> \o ls[pa[k]] = ls[pa[k]]
    BY <2>1, ConcatEmptySeq
  <2> QED
    BY <2>1, <2>2
<1>17. ApplyPipe(f, t).lines = ProgramUniq(f, ls)
  <2> HIDE DEF pa
  <2> QED
    BY <1>14, <1>15, <1>16
<1> QED
  BY <1>17 DEF Program, ls

-----------------------------------------------------------------------------
(* Every filter.                                                             *)

\* Every filter prints what its program prints, where the two are not known to differ.
THEOREM FilterAgrees ==
    ASSUME NEW t \in Text, NEW f, IsFilter(f), ~Raises(f, t), ~Differs(f, t)
    PROVE  Program(f, t.lines, ApplyPipe(f, t).lines)
<1>1. f.cmd \in {"head", "tail", "grep", "sort", "uniq", "sed", "cut", "awk", "wc", "less", "tee"}
  BY DEF IsFilter, Differs
<1>2. CASE f.cmd = "head"
  BY <1>2, HeadAgrees
<1>3. CASE f.cmd = "tail"
  BY <1>3, TailAgrees
<1>4. CASE f.cmd = "grep"
  BY <1>4, GrepAgrees
<1>5. CASE f.cmd = "sort"
  BY <1>5, SortAgrees
<1>6. CASE f.cmd = "uniq"
  BY <1>6, UniqAgrees
<1>7. CASE f.cmd = "sed"
  BY <1>7, SedAgrees
<1>8. CASE f.cmd = "cut"
  BY <1>8, CutAgrees
<1>9. CASE f.cmd = "awk"
  BY <1>9, AwkAgrees
<1>10. CASE f.cmd = "wc"
  BY <1>10, WcAgrees
<1>11. CASE f.cmd \in {"less", "tee"}
  BY <1>11, PassesOn
<1> QED
  BY <1>1, <1>2, <1>3, <1>4, <1>5, <1>6, <1>7, <1>8, <1>9, <1>10, <1>11

State == [cwd : Nat, sudo : BOOLEAN, file : Text \cup {Absent},
          env : [Variables -> Nat \cup {Unset}]]
Answers == [s : State, out : Text]

\* What a message prints.
LEMMA SaidIs ==
    /\ NoText \in Text /\ NoText.lines = << >>
    /\ \A m \in Nat : Says(m) \in Text /\ Says(m).lines = << <<m>> >>
<1>1. NoText \in Text /\ NoText.lines = << >>
  BY DEF NoText, Ended, Text
<1>2. ASSUME NEW m \in Nat PROVE Says(m) \in Text /\ Says(m).lines = << <<m>> >>
  <2>1. <<m>> \in Seq(Nat)
    OBVIOUS
  <2>2. << <<m>> >> \in Seq(Seq(Nat)) /\ << <<m>> >> # << >>
    BY <2>1
  <2> QED
    BY <2>2 DEF Says, Bare, Text
<1> QED
  BY <1>1, <1>2

\* The constants, as the proofs cite them.
LEMMA Consts ==
    /\ Home \in Nat /\ Dirs \subseteq Nat /\ "PWD" \in Variables /\ "OLDPWD" \in Variables
    /\ Error \in Nat /\ SudoSays \in Nat /\ Jumble \in Nat /\ Unset \notin Nat /\ Absent \notin Text
BY ShellAssumption

\* What each simple command does.
LEMMA Runs ==
    ASSUME NEW c, NEW s
    PROVE  /\ c.name = "echo" => Run(c, s) = Answer(s, Says(c.arg))
           /\ c.name = "echo $" => Run(c, s) = Answer(s, Says(IF s.env[c.var] = Unset THEN Jumble
                                                              ELSE s.env[c.var]))
           /\ c.name = "export" => Run(c, s) = Answer([s EXCEPT !.env[c.var] = c.arg], NoText)
           /\ c.name = "unset" => Run(c, s) = Answer([s EXCEPT !.env[c.var] = Unset], NoText)
           /\ c.name = "false" => Run(c, s) = Answer(s, NoText)
           /\ c.name = "cd" => Run(c, s) = Answer([s EXCEPT !.cwd = Home], NoText)
           /\ c.name = "cd -" => Run(c, s) =
                Answer([s EXCEPT !.env["OLDPWD"] = s.cwd,
                                 !.cwd = IF s.env["OLDPWD"] = Unset THEN Home ELSE s.env["OLDPWD"]],
                       Says(IF s.env["OLDPWD"] = Unset THEN Home ELSE s.env["OLDPWD"]))
           /\ c.name = "cd to" => Run(c, s) =
                IF c.arg \in Dirs THEN Answer([s EXCEPT !.env["OLDPWD"] = s.cwd, !.cwd = c.arg], NoText)
                                  ELSE Answer(s, Says(Error))
           /\ c.name \in {"cat", "rm"} /\ s.file = Absent => Run(c, s) = Answer(s, Says(Error))
           /\ c.name = "cat" /\ s.file # Absent => Run(c, s) = Answer(s, s.file)
           /\ c.name = "rm" /\ s.file # Absent => Run(c, s) = Answer([s EXCEPT !.file = Absent], NoText)
<1>1. c.name = "echo" => Run(c, s) = Answer(s, Says(c.arg))
  BY DEF Run, HandleBuiltin
<1>2. c.name = "echo $" => Run(c, s) = Answer(s, Says(IF s.env[c.var] = Unset THEN Jumble
                                                      ELSE s.env[c.var]))
  BY DEF Run, HandleBuiltin
<1>3. c.name = "export" => Run(c, s) = Answer([s EXCEPT !.env[c.var] = c.arg], NoText)
  BY DEF Run, HandleBuiltin
<1>4. c.name = "unset" => Run(c, s) = Answer([s EXCEPT !.env[c.var] = Unset], NoText)
  BY DEF Run, HandleBuiltin
<1>5. c.name = "false" => Run(c, s) = Answer(s, NoText)
  BY DEF Run, HandleBuiltin
<1>6. c.name \in {"cd", "cd -", "cd to"} => Run(c, s) = BuiltinCd(c, s)
  BY DEF Run, HandleBuiltin
<1>7. c.name = "cd" => Run(c, s) = Answer([s EXCEPT !.cwd = Home], NoText)
  BY <1>6 DEF BuiltinCd
<1>8. c.name = "cd -" => Run(c, s) =
                Answer([s EXCEPT !.env["OLDPWD"] = s.cwd,
                                 !.cwd = IF s.env["OLDPWD"] = Unset THEN Home ELSE s.env["OLDPWD"]],
                       Says(IF s.env["OLDPWD"] = Unset THEN Home ELSE s.env["OLDPWD"]))
  BY <1>6 DEF BuiltinCd
<1>9. c.name = "cd to" => Run(c, s) =
                IF c.arg \in Dirs THEN Answer([s EXCEPT !.env["OLDPWD"] = s.cwd, !.cwd = c.arg], NoText)
                                  ELSE Answer(s, Says(Error))
  BY <1>6 DEF BuiltinCd
<1>10. c.name \in {"cat", "rm"} => Run(c, s) = HandleCommon(c, s)
  BY DEF Run
<1>11. c.name \in {"cat", "rm"} /\ s.file = Absent => Run(c, s) = Answer(s, Says(Error))
  BY <1>10 DEF HandleCommon
<1>12. c.name = "cat" /\ s.file # Absent => Run(c, s) = Answer(s, s.file)
  BY <1>10 DEF HandleCommon
<1>13. c.name = "rm" /\ s.file # Absent => Run(c, s) = Answer([s EXCEPT !.file = Absent], NoText)
  BY <1>10 DEF HandleCommon
<1> QED
  BY <1>1, <1>2, <1>3, <1>4, <1>5, <1>7, <1>8, <1>9, <1>11, <1>12, <1>13

-----------------------------------------------------------------------------
(* What a command, and then a line, leaves of a session.                     *)

Values == Nat \cup {Unset}

\* The fields of a session.
LEMMA StateFields ==
    ASSUME NEW s \in State
    PROVE  /\ s.cwd \in Nat /\ s.sudo \in BOOLEAN /\ s.file \in Text \cup {Absent}
           /\ s.env \in [Variables -> Values] /\ \A v \in Variables : s.env[v] \in Values
BY DEF State, Values

\* A session with a variable set.
LEMMA SetsVariable ==
    ASSUME NEW s \in State, NEW v \in Variables, NEW x \in Values
    PROVE  /\ [s EXCEPT !.env[v] = x] \in State
           /\ [s EXCEPT !.env[v] = x].env = [s.env EXCEPT ![v] = x]
           /\ [s EXCEPT !.env[v] = x].cwd = s.cwd /\ [s EXCEPT !.env[v] = x].file = s.file
           /\ [s EXCEPT !.env[v] = x].sudo = s.sudo
BY DEF State, Values

\* A session in another directory.
LEMMA SetsDirectory ==
    ASSUME NEW s \in State, NEW d \in Nat
    PROVE  /\ [s EXCEPT !.cwd = d] \in State /\ [s EXCEPT !.cwd = d].env = s.env
           /\ [s EXCEPT !.cwd = d].cwd = d /\ [s EXCEPT !.cwd = d].file = s.file
           /\ [s EXCEPT !.cwd = d].sudo = s.sudo
BY DEF State

\* A session with another file.
LEMMA SetsFile ==
    ASSUME NEW s \in State, NEW t \in Text \cup {Absent}
    PROVE  /\ [s EXCEPT !.file = t] \in State /\ [s EXCEPT !.file = t].env = s.env
           /\ [s EXCEPT !.file = t].cwd = s.cwd /\ [s EXCEPT !.file = t].file = t
           /\ [s EXCEPT !.file = t].sudo = s.sudo
BY DEF State

\* A session after the refusal of sudo.
LEMMA SetsSudo ==
    ASSUME NEW s \in State
    PROVE  [s EXCEPT !.sudo = TRUE] \in State
BY DEF State

\* A session in another directory that remembers the one before.
LEMMA LeavesDirectory ==
    ASSUME NEW s \in State, NEW d \in Nat
    PROVE  /\ [s EXCEPT !.env["OLDPWD"] = s.cwd, !.cwd = d] \in State
           /\ [s EXCEPT !.env["OLDPWD"] = s.cwd, !.cwd = d].env = [s.env EXCEPT !["OLDPWD"] = s.cwd]
           /\ [s EXCEPT !.env["OLDPWD"] = s.cwd, !.cwd = d].cwd = d
           /\ [s EXCEPT !.env["OLDPWD"] = s.cwd, !.cwd = d].file = s.file
           /\ [s EXCEPT !.env["OLDPWD"] = s.cwd, !.cwd = d].sudo = s.sudo
<1>1. "OLDPWD" \in Variables
  BY Consts
<1> QED
  BY <1>1 DEF State, Values

\* An answer and its parts.
LEMMA AnswerType ==
    ASSUME NEW s \in State, NEW t \in Text
    PROVE  Answer(s, t) \in Answers /\ Answer(s, t).s = s /\ Answer(s, t).out = t
BY DEF Answer, Answers

\* The fields of a command.
LEMMA CommandFields ==
    ASSUME NEW c \in Command
    PROVE  /\ c.name \in {"echo", "echo $", "export", "unset", "false", "cd", "cd -", "cd to", "cat", "rm"}
           /\ c.arg \in Nat /\ c.var \in Variables /\ c.sudo \in BOOLEAN
BY DEF Command

\* A command leaves a session and prints a text.
LEMMA RunType ==
    ASSUME NEW c \in Command, NEW s \in State
    PROVE  Run(c, s) \in Answers
<1>0. /\ c.arg \in Nat /\ c.var \in Variables
      /\ s.cwd \in Nat /\ s.file \in Text \cup {Absent} /\ Absent \notin Text
      /\ \A v \in Variables : s.env[v] \in Values
      /\ "OLDPWD" \in Variables /\ Home \in Nat /\ Error \in Nat /\ Jumble \in Nat /\ Dirs \subseteq Nat
      /\ NoText \in Text /\ \A m \in Nat : Says(m) \in Text
  BY CommandFields, StateFields, Consts, SaidIs
<1>1. CASE c.name = "echo"
  <2>1. Run(c, s) = Answer(s, Says(c.arg))
    BY <1>1, Runs
  <2> QED
    BY <1>0, <2>1, AnswerType
<1>2. CASE c.name = "echo $"
  <2> DEFINE x == IF s.env[c.var] = Unset THEN Jumble ELSE s.env[c.var]
  <2>1. x \in Nat
    BY <1>0 DEF Values
  <2>2. Run(c, s) = Answer(s, Says(x))
    BY <1>2, Runs
  <2> HIDE DEF x
  <2> QED
    BY <1>0, <2>1, <2>2, AnswerType
<1>3. CASE c.name = "export"
  <2>1. Run(c, s) = Answer([s EXCEPT !.env[c.var] = c.arg], NoText)
    BY <1>3, Runs
  <2>2. [s EXCEPT !.env[c.var] = c.arg] \in State
    BY <1>0, SetsVariable DEF Values
  <2> QED
    BY <1>0, <2>1, <2>2, AnswerType
<1>4. CASE c.name = "unset"
  <2>1. Run(c, s) = Answer([s EXCEPT !.env[c.var] = Unset], NoText)
    BY <1>4, Runs
  <2>2. [s EXCEPT !.env[c.var] = Unset] \in State
    BY <1>0, SetsVariable DEF Values
  <2> QED
    BY <1>0, <2>1, <2>2, AnswerType
<1>5. CASE c.name = "false"
  <2>1. Run(c, s) = Answer(s, NoText)
    BY <1>5, Runs
  <2> QED
    BY <1>0, <2>1, AnswerType
<1>6. CASE c.name = "cd"
  <2>1. Run(c, s) = Answer([s EXCEPT !.cwd = Home], NoText)
    BY <1>6, Runs
  <2>2. [s EXCEPT !.cwd = Home] \in State
    BY <1>0, SetsDirectory
  <2> QED
    BY <1>0, <2>1, <2>2, AnswerType
<1>7. CASE c.name = "cd -"
  <2> DEFINE d == IF s.env["OLDPWD"] = Unset THEN Home ELSE s.env["OLDPWD"]
  <2>1. d \in Nat
    BY <1>0 DEF Values
  <2>2. Run(c, s) = Answer([s EXCEPT !.env["OLDPWD"] = s.cwd, !.cwd = d], Says(d))
    BY <1>7, Runs
  <2> HIDE DEF d
  <2>3. [s EXCEPT !.env["OLDPWD"] = s.cwd, !.cwd = d] \in State
    BY <2>1, LeavesDirectory
  <2> QED
    BY <1>0, <2>1, <2>2, <2>3, AnswerType
<1>8. CASE c.name = "cd to"
  <2>1. Run(c, s) = IF c.arg \in Dirs THEN Answer([s EXCEPT !.env["OLDPWD"] = s.cwd, !.cwd = c.arg], NoText)
                                      ELSE Answer(s, Says(Error))
    BY <1>8, Runs
  <2>2. [s EXCEPT !.env["OLDPWD"] = s.cwd, !.cwd = c.arg] \in State
    BY <1>0, LeavesDirectory
  <2> QED
    BY <1>0, <2>1, <2>2, AnswerType
<1>9. CASE c.name \in {"cat", "rm"} /\ s.file = Absent
  <2>1. Run(c, s) = Answer(s, Says(Error))
    BY <1>9, Runs
  <2> QED
    BY <1>0, <2>1, AnswerType
<1>10. CASE c.name = "cat" /\ s.file # Absent
  <2>1. Run(c, s) = Answer(s, s.file)
    BY <1>10, Runs
  <2> QED
    BY <1>0, <1>10, <2>1, AnswerType
<1>11. CASE c.name = "rm" /\ s.file # Absent
  <2>1. Run(c, s) = Answer([s EXCEPT !.file = Absent], NoText)
    BY <1>11 DEF Run, HandleCommon
  <2>2. [s EXCEPT !.file = Absent] \in State
    BY SetsFile
  <2> QED
    BY <1>0, <2>1, <2>2, AnswerType
<1> QED
  BY CommandFields, <1>1, <1>2, <1>3, <1>4, <1>5, <1>6, <1>7, <1>8, <1>9, <1>10, <1>11

\* What RouteSingle may be given.
IsJob(part) ==
    /\ Len(part.cmds) \in Nat \ {0} /\ DOMAIN part.cmds = 1 .. Len(part.cmds) /\ part.cmds[1] \in Command
    /\ \A k \in DOMAIN part.cmds : part.cmds[k].name = "export" => part.cmds[k] \in Command

\* So does what is left of a line.
LEMMA JumbleType ==
    ASSUME NEW part, IsJob(part), NEW s \in State
    PROVE  RunJumble(part, s) \in Answers
<1> DEFINE c == part.cmds[1]
           last == Last(part.cmds)
           of(v) == {k \in {k \in DOMAIN part.cmds : part.cmds[k].name = "export"} : part.cmds[k].var = v}
           val(v) == IF of(v) = {} THEN s.env[v]
                     ELSE part.cmds[CHOOSE k \in of(v) : \A j \in of(v) : j <= k].arg
<1>0. c \in Command
  BY DEF IsJob
<1>7. /\ Error \in Nat /\ Jumble \in Nat /\ NoText \in Text /\ \A m \in Nat : Says(m) \in Text
  BY Consts, SaidIs
<1>1. CASE c.name \in {"echo", "echo $"}
  <2>1. RunJumble(part, s) = Answer(s, Says(Jumble))
    BY <1>1 DEF RunJumble
  <2> QED
    BY <1>7, <2>1, AnswerType
<1>2. CASE c.name = "cat"
  <2>1. RunJumble(part, s) = IF last.name \in {"cat", "rm", "file"} THEN HandleCommon(c, s)
                                                                 ELSE Answer(s, Says(Error))
    BY <1>2 DEF RunJumble
  <2>2. HandleCommon(c, s) = Run(c, s)
    BY <1>2 DEF Run
  <2> HIDE DEF c, last
  <2> QED
    BY <1>0, <1>7, <2>1, <2>2, RunType, AnswerType
<1>3. CASE c.name = "rm"
  <2>1. RunJumble(part, s) = Answer([s EXCEPT !.file = Absent], Says(Error))
    BY <1>3 DEF RunJumble
  <2> QED
    BY <1>7, <2>1, AnswerType, SetsFile
<1>4. CASE c.name = "cd"
  <2>1. RunJumble(part, s) = Answer(s, Says(Error))
    BY <1>4 DEF RunJumble
  <2> QED
    BY <1>7, <2>1, AnswerType
<1>5. CASE c.name = "export"
  <2>1. RunJumble(part, s) = Answer([s EXCEPT !.env = [v \in Variables |-> val(v)]], NoText)
    BY <1>5 DEF RunJumble
  <2>2. ASSUME NEW v \in Variables PROVE val(v) \in Values
    <3>1. CASE of(v) = {}
      BY <3>1, StateFields
    <3>2. CASE of(v) # {}
      <4>1. of(v) \in SUBSET (1 .. Len(part.cmds)) /\ Len(part.cmds) \in Nat
        BY DEF IsJob
      <4>2. \A k \in of(v) : part.cmds[k] \in Command
        BY DEF IsJob
      <4> HIDE DEF of
      <4>3. Max(of(v)) \in of(v) /\ \A y \in of(v) : y <= Max(of(v))
        BY <3>2, <4>1, MaxIn
      <4> DEFINE k == CHOOSE k \in of(v) : \A j \in of(v) : j <= k
      <4>4. k \in of(v)
        BY <4>3
      <4> HIDE DEF k
      <4>5. part.cmds[k].arg \in Nat
        BY <4>2, <4>4, CommandFields
      <4> QED
        BY <3>2, <4>5 DEF k, Values
    <3> QED
      BY <3>1, <3>2
  <2> HIDE DEF val, of
  <2>3. [s EXCEPT !.env = [v \in Variables |-> val(v)]] \in State
    BY <2>2 DEF State, Values
  <2> QED
    BY <1>7, <2>1, <2>3, AnswerType
<1>6. CASE c.name \in {"unset", "false", "cd -", "cd to"}
  <2>1. RunJumble(part, s) = Run(c, s)
    BY <1>6 DEF RunJumble
  <2> QED
    BY <1>0, <2>1, RunType
<1> QED
  BY CommandFields, <1>0, <1>1, <1>2, <1>3, <1>4, <1>5, <1>6

\* So does a part of a line.
LEMMA SingleType ==
    ASSUME NEW part, IsJob(part), NEW s \in State
    PROVE  RouteSingle(part, s) \in Answers
<1>1. Answer([s EXCEPT !.sudo = TRUE], Says(SudoSays)) \in Answers
  BY Consts, SaidIs, SetsSudo, AnswerType
<1>2. Run(part.cmds[1], s) \in Answers
  BY RunType DEF IsJob
<1>3. RunJumble(part, s) \in Answers
  BY JumbleType
<1> QED
  BY <1>1, <1>2, <1>3 DEF RouteSingle

\* So does a command by itself.
LEMMA OneType ==
    ASSUME NEW c \in Command, NEW s \in State
    PROVE  Single(c, s) \in Answers
<1>1. IsJob([cmds |-> <<c>>])
  BY DEF IsJob
<1> QED
  BY <1>1, SingleType DEF Single

-----------------------------------------------------------------------------
(* The pieces of a line.                                                     *)

\* A sequence, as its length, its domain and its members.
LEMMA SeqShape ==
    ASSUME NEW S, NEW q \in Seq(S)
    PROVE  Len(q) \in Nat /\ DOMAIN q = 1 .. Len(q) /\ \A k \in 1 .. Len(q) : q[k] \in S
OBVIOUS

\* A function of the first numbers is a sequence.
LEMMA Counted ==
    ASSUME NEW c \in Nat, NEW p, NEW S, p \in [1 .. c -> S]
    PROVE  p \in Seq(S) /\ Len(p) = c /\ DOMAIN p = 1 .. c
<1>1. p \in Seq(S)
  BY SeqDef
<1> QED
  BY <1>1

\* Arithmetic of the place before.
LEMMA Before ==
    ASSUME NEW N \in Nat, NEW i \in 1 .. N
    PROVE  /\ i + 1 - 1 = i /\ i \in Nat /\ i - 1 \in 0 .. N
           /\ i # 1 => i - 1 \in 1 .. (N - 1) /\ (i - 1) + 1 = i /\ i - 1 < i /\ i - 1 \in 1 .. N
OBVIOUS

\* Arithmetic of one more.
LEMMA OneMore ==
    ASSUME NEW L \in Nat, NEW N, N = L + 1
    PROVE  N \in Nat /\ N >= 1 /\ L = N - 1
OBVIOUS

\* A line of N commands has N - 1 operators, and commands behind those that join.
LEMMA ListShape ==
    ASSUME NEW line, IsList(line)
    PROVE  /\ Size(line) \in Nat /\ Size(line) >= 1 /\ DOMAIN line.cmds = 1 .. Size(line)
           /\ DOMAIN line.ops = 1 .. (Size(line) - 1) /\ Len(line.ops) = Size(line) - 1
           /\ line.cmds \in Seq(Range(line.cmds)) /\ line.cmds[1] \in Command
           /\ \A k \in 1 .. (Size(line) - 1) :
                 /\ line.ops[k] \in {";", "&&", "||", "|", ">", ">>"}
                 /\ line.ops[k] \in {";", "&&", "||"} => line.cmds[k + 1] \in Command
           /\ \A k \in 1 .. Size(line) : line.cmds[k].name = "export" => line.cmds[k] \in Command
<1> DEFINE cmds == line.cmds
           ops == line.ops
           N == Len(cmds)
           L == Len(ops)
           Ops == {";", "&&", "||", "|", ">", ">>"}
           S == Range(cmds)
<1>1. /\ cmds \in Seq(S) /\ ops \in Seq(Ops) /\ N = L + 1 /\ cmds[1] \in Command
      /\ \A k \in DOMAIN ops :
            /\ ops[k] \in {";", "&&", "||"} => cmds[k + 1] \in Command
            /\ ops[k] = "|" => IsFilterPart(cmds[k + 1])
            /\ ops[k] \in {">", ">>"} => cmds[k + 1].name = "file"
  BY DEF IsList
<1>6. Size(line) = N
  BY DEF Size
<1> HIDE DEF cmds, ops, S
<1>2. DOMAIN cmds = 1 .. N
  BY <1>1, SeqShape
<1> HIDE DEF Ops
<1>3. L \in Nat /\ DOMAIN ops = 1 .. L /\ \A k \in 1 .. L : ops[k] \in Ops
  BY <1>1, SeqShape
<1> HIDE DEF L, N
<1>4. N \in Nat /\ N >= 1 /\ L = N - 1
  BY <1>1, <1>3, OneMore
<1>5. ASSUME NEW k \in 1 .. N, cmds[k].name = "export"
      PROVE  cmds[k] \in Command
  <2>1. CASE k = 1
    BY <1>1, <2>1
  <2>2. CASE k # 1
    <3> DEFINE h == k - 1
    <3>1. h \in 1 .. L /\ h + 1 = k
      BY <1>4, <2>2, Before
    <3> HIDE DEF h
    <3>2. ops[h] \notin {"|", ">", ">>"}
      BY <1>1, <1>3, <1>5, <3>1 DEF IsFilterPart
    <3> QED
      BY <1>1, <1>3, <3>1, <3>2 DEF Ops
  <2> QED
    BY <2>1, <2>2
<1>7. \A k \in 1 .. L : ops[k] \in {";", "&&", "||"} => cmds[k + 1] \in Command
  BY <1>1, <1>3
<1> QED
  BY <1>1, <1>2, <1>3, <1>4, <1>5, <1>6, <1>7 DEF cmds, ops, L, S, Ops

\* Arithmetic of a piece from i to j.
LEMMA Span ==
    ASSUME NEW N \in Nat, NEW i \in 1 .. N, NEW j \in 1 .. N, i <= j
    PROVE  /\ j - i + 1 \in Nat \ {0} /\ 1 \in 1 .. (j - i + 1)
           /\ \A k \in 1 .. (j - i + 1) : i + k - 1 \in 1 .. N
OBVIOUS

\* A piece from i to j, place by place.
LEMMA PieceIs ==
    ASSUME NEW q, NEW N \in Nat, q \in Seq(Range(q)), Len(q) = N,
           NEW i \in 1 .. N, NEW j \in 1 .. N, i <= j
    PROVE  /\ Len(SubSeq(q, i, j)) = j - i + 1 /\ DOMAIN SubSeq(q, i, j) = 1 .. (j - i + 1)
           /\ \A k \in 1 .. (j - i + 1) : SubSeq(q, i, j)[k] = q[i + k - 1]
           /\ SubSeq(q, i, j) \in Seq(Range(q))
<1> DEFINE p == SubSeq(q, i, j)
           S == Range(q)
<1>1. \A k \in i .. j : q[k] \in S
  <2>1. \A k \in i .. j : k \in 1 .. N
    OBVIOUS
  <2>2. \A k \in 1 .. N : q[k] \in S
    BY DEF Range
  <2> HIDE DEF S
  <2> QED
    BY <2>1, <2>2
<1> HIDE DEF S
<1>2. /\ p \in Seq(S) /\ Len(p) = IF i <= j THEN j - i + 1 ELSE 0
      /\ \A k \in 1 .. (j - i + 1) : p[k] = q[i + k - 1]
  BY <1>1, SubSeqProperties
<1>3. Len(p) = j - i + 1 /\ p \in Seq(S)
  BY <1>2
<1> HIDE DEF p
<1>4. DOMAIN p = 1 .. (j - i + 1)
  BY <1>3
<1> QED
  BY <1>2, <1>3, <1>4 DEF p, S

IsCut(p, q, i, j) ==
    /\ Len(p) = j - i + 1 /\ DOMAIN p = 1 .. (j - i + 1)
    /\ \A k \in 1 .. (j - i + 1) : p[k] = q[i + k - 1]

\* The commands of a piece.
LEMMA CommandsOf ==
    ASSUME NEW line, IsList(line), NEW N \in Nat, N = Size(line),
           NEW i \in 1 .. N, NEW j \in 1 .. N, i <= j
    PROVE  IsCut(SubSeq(line.cmds, i, j), line.cmds, i, j)
<1> DEFINE q == line.cmds
<1>1. q \in Seq(Range(q)) /\ Len(q) = N
  BY ListShape DEF Size
<1> HIDE DEF q
<1> QED
  BY <1>1, PieceIs DEF q, IsCut

\* A piece that starts with a command can be run.
LEMMA PartIsJob ==
    ASSUME NEW line, IsList(line), NEW N \in Nat, N = Size(line),
           NEW i \in 1 .. N, NEW j \in 1 .. N, i <= j,
           i # 1 => \E h \in 1 .. (N - 1) : h + 1 = i /\ line.ops[h] \in {";", "&&", "||"}
    PROVE  /\ IsJob(Part(line, i, j)) /\ Size(Part(line, i, j)) = j - i + 1
           /\ Part(line, i, j).cmds[1] = line.cmds[i] /\ line.cmds[i] \in Command
<1> DEFINE cmds == line.cmds
           p == SubSeq(cmds, i, j)
           L == j - i + 1
<1>1. /\ cmds \in Seq(Range(cmds)) /\ Len(cmds) = N
      /\ \A k \in 1 .. N : cmds[k].name = "export" => cmds[k] \in Command
  BY ListShape DEF Size
<1>2. cmds[i] \in Command
  <2>1. CASE i = 1
    BY <2>1, ListShape
  <2>2. CASE i # 1
    <3>1. PICK h \in 1 .. (N - 1) : h + 1 = i /\ line.ops[h] \in {";", "&&", "||"}
      BY <2>2
    <3>2. \A k \in 1 .. (N - 1) : line.ops[k] \in {";", "&&", "||"} => line.cmds[k + 1] \in Command
      BY ListShape
    <3> QED
      BY <3>1, <3>2
  <2> QED
    BY <2>1, <2>2
<1> HIDE DEF cmds
<1> HIDE DEF L
<1>3. /\ Len(p) = L /\ DOMAIN p = 1 .. L
      /\ \A k \in 1 .. L : p[k] = cmds[i + k - 1]
  <2>1. IsCut(p, cmds, i, j)
    BY CommandsOf DEF cmds
  <2> HIDE DEF p
  <2> QED
    BY <2>1 DEF L, IsCut
<1>4. /\ L \in Nat \ {0} /\ 1 \in 1 .. L
      /\ \A k \in 1 .. L : i + k - 1 \in 1 .. N
  BY Span DEF L
<1>5. i + 1 - 1 = i
  BY Before
<1> HIDE DEF p
<1>6. p[1] = cmds[i]
  BY <1>3, <1>4, <1>5
<1>7. Part(line, i, j).cmds = p
  BY DEF Part, p, cmds
<1>8. \A k \in DOMAIN p : p[k].name = "export" => p[k] \in Command
  BY <1>1, <1>3, <1>4
<1>9. IsJob(Part(line, i, j))
  BY <1>2, <1>3, <1>4, <1>6, <1>7, <1>8 DEF IsJob
<1>10. Size(Part(line, i, j)) = L
  BY <1>3, <1>7 DEF Size
<1> QED
  BY <1>2, <1>6, <1>7, <1>9, <1>10 DEF cmds, L

\* The first op is an op, and before the last command.
LEMMA FirstOpIs ==
    ASSUME NEW line, IsList(line), NEW op, Has(line, op)
    PROVE  /\ FirstOp(line, op) \in 1 .. (Size(line) - 1) /\ line.ops[FirstOp(line, op)] = op
<1> DEFINE T == {k \in DOMAIN line.ops : line.ops[k] = op}
<1>1. DOMAIN line.ops = 1 .. (Size(line) - 1) /\ Size(line) \in Nat
  BY ListShape
<1>2. T # {} /\ T \in SUBSET Nat
  BY <1>1 DEF Has, Range
<1>3. PICK k \in T : \A j \in T : k <= j
  BY <1>2, LeastNumber
<1>4. k \in DOMAIN line.ops /\ line.ops[k] = op /\ \A j \in 1 .. (k - 1) : line.ops[j] # op
  <2>1. k \in DOMAIN line.ops /\ line.ops[k] = op
    OBVIOUS
  <2>2. ASSUME NEW j \in 1 .. (k - 1), line.ops[j] = op PROVE FALSE
    <3>1. j \in T /\ k \in Nat
      BY <1>1, <2>1, <2>2
    <3> QED
      BY <1>3, <3>1
  <2> QED
    BY <2>1, <2>2
<1> HIDE DEF T
<1> QED
  BY <1>1, <1>4 DEF FirstOp

\* Both sides of an operator can be run.
LEMMA SidesAreJobs ==
    ASSUME NEW line, IsList(line), NEW op, Has(line, op)
    PROVE  IsJob(Left(line, op)) /\ (op \in {"&&", "||"} => IsJob(Right(line, op)))
<1> DEFINE k == FirstOp(line, op)
           N == Size(line)
<1>1. k \in 1 .. (N - 1) /\ line.ops[k] = op /\ N \in Nat
  BY FirstOpIs, ListShape
<1> HIDE DEF k, N
<1>2. 1 \in 1 .. N /\ k \in 1 .. N /\ k + 1 \in 1 .. N /\ N \in 1 .. N /\ 1 <= k /\ k + 1 <= N
  BY <1>1
<1>3. IsJob(Part(line, 1, k))
  BY <1>1, <1>2, PartIsJob DEF N
<1>4. op \in {"&&", "||"} => IsJob(Part(line, k + 1, N))
  BY <1>1, <1>2, PartIsJob DEF N
<1> QED
  BY <1>3, <1>4 DEF Left, Right, k, N

\* Every piece between ";" can be run.
LEMMA PiecesAreJobs ==
    ASSUME NEW line, IsList(line)
    PROVE  /\ Len(Pieces(line, ";")) \in Nat /\ DOMAIN Pieces(line, ";") = 1 .. Len(Pieces(line, ";"))
           /\ \A k \in 1 .. Len(Pieces(line, ";")) : IsJob(Pieces(line, ";")[k])
<1> DEFINE N == Size(line)
           S == {k \in DOMAIN line.ops : line.ops[k] = ";"}
           T == S \cup {N}
           ends == Ascending(T)
           c == Cardinality(T)
<1>1. N \in Nat /\ N >= 1 /\ DOMAIN line.ops = 1 .. (N - 1)
  BY ListShape
<1> HIDE DEF N
<1>2. T \in SUBSET (1 .. N)
  <2>1. 1 .. (N - 1) \in SUBSET (1 .. N) /\ N \in 1 .. N
    BY <1>1
  <2> QED
    BY <1>1, <2>1
<1>3. c \in Nat /\ ends \in [1 .. c -> 1 .. N] /\ Increasing(ends, c) /\ T = Image(ends, c)
  <2> HIDE DEF T
  <2> QED
    BY <1>1, <1>2, AscendingIs
<1> HIDE DEF c, ends
<1>4. Pieces(line, ";") = [k \in 1 .. c |-> Part(line, IF k = 1 THEN 1 ELSE ends[k - 1] + 1, ends[k])]
  <2>1. DOMAIN ends = 1 .. c
    BY <1>3
  <2>2. Pieces(line, ";") = [k \in DOMAIN ends |-> Part(line, IF k = 1 THEN 1
                                                              ELSE ends[k - 1] + 1, ends[k])]
    BY DEF Pieces, ends, N
  <2> QED
    BY <2>1, <2>2
<1>5. ASSUME NEW k \in 1 .. c
      PROVE  IsJob(Part(line, IF k = 1 THEN 1 ELSE ends[k - 1] + 1, ends[k]))
  <2>1. ends[k] \in 1 .. N /\ k \in Nat
    <3>1. ends[k] \in 1 .. N
      BY <1>3
    <3> QED
      BY <3>1
  <2>2. CASE k = 1
    <3> DEFINE d == ends[k]
    <3> HIDE DEF d
    <3>1. 1 \in 1 .. N /\ d \in 1 .. N /\ 1 <= d
      BY <1>1, <2>1 DEF d
    <3>2. IsJob(Part(line, 1, ends[k]))
      BY <1>1, <3>1, PartIsJob DEF N, d
    <3> QED
      BY <2>2, <3>2
  <2>3. CASE k # 1
    <3> DEFINE e == ends[k - 1]
    <3>1. k - 1 \in 1 .. c /\ k - 1 < k
      BY <1>3, <2>3, Before
    <3>2. e \in 1 .. N /\ e < ends[k]
      BY <1>3, <3>1 DEF Increasing
    <3>3. e \in T
      BY <1>3, <3>1 DEF Image
    <3>4. line.ops[e] = ";"
      <4> HIDE DEF e
      <4>1. e # N
        BY <1>1, <2>1, <3>2
      <4> QED
        BY <3>3, <4>1
    <3> HIDE DEF e
    <3> DEFINE d == ends[k]
    <3> HIDE DEF d
    <3>5. e + 1 \in 1 .. N /\ d \in 1 .. N /\ e + 1 <= d /\ e \in 1 .. (N - 1)
      BY <1>1, <2>1, <3>2 DEF d
    <3>6. IsJob(Part(line, e + 1, ends[k]))
      BY <1>1, <3>4, <3>5, PartIsJob DEF N, d
    <3> QED
      BY <2>3, <3>6 DEF e
  <2> QED
    BY <2>2, <2>3
<1> DEFINE P == Pieces(line, ";")
<1>6. P \in [1 .. c -> Range(P)] /\ \A k \in 1 .. c : IsJob(P[k])
  BY <1>4, <1>5 DEF Range
<1> HIDE DEF P
<1>7. Len(P) = c /\ DOMAIN P = 1 .. c
  BY <1>3, <1>6, Counted
<1> QED
  BY <1>3, <1>6, <1>7 DEF P

\* Joined texts are a text.
LEMMA JoinType ==
    ASSUME NEW t \in Text, NEW u \in Text
    PROVE  Join(t, u) \in Text
<1> DEFINE blank == IF t.ended THEN << << >> >> ELSE << >>
           ls == t.lines \o blank \o u.lines
<1>1. t.lines \in Seq(Seq(Nat)) /\ u.lines \in Seq(Seq(Nat)) /\ u.ended \in BOOLEAN
  BY LinesOf
<1>2. blank \in Seq(Seq(Nat))
  <2>1. << >> \in Seq(Nat)
    OBVIOUS
  <2>2. << << >> >> \in Seq(Seq(Nat)) /\ << >> \in Seq(Seq(Nat))
    BY <2>1
  <2> QED
    BY <2>2
<1> HIDE DEF blank
<1>3. t.lines \o blank \in Seq(Seq(Nat)) /\ Len(t.lines \o blank) \in Nat
  BY <1>1, <1>2, ConcatProperties
<1>4. ls \in Seq(Seq(Nat)) /\ Len(ls) = Len(t.lines \o blank) + Len(u.lines)
  BY <1>1, <1>3, ConcatProperties
<1>5. u.lines # << >> => ls # << >>
  <2>1. u.lines # << >> => Len(u.lines) \in Nat /\ Len(u.lines) # 0
    BY <1>1, EmptySeq
  <2> DEFINE x == Len(ls)
             y == Len(t.lines \o blank)
             z == Len(u.lines)
  <2>3. x = y + z /\ y \in Nat /\ (u.lines # << >> => z \in Nat /\ z # 0)
    BY <1>3, <1>4, <2>1
  <2> HIDE DEF x, y, z
  <2>4. u.lines # << >> => x # 0
    BY <2>3
  <2>2. u.lines # << >> => Len(ls) # 0
    BY <2>4 DEF x
  <2> QED
    BY <2>2
<1> HIDE DEF ls
<1>6. u.lines # << >> => [lines |-> ls, ended |-> u.ended] \in Text
  BY <1>1, <1>4, <1>5 DEF Text
<1> QED
  BY <1>6 DEF Join, ls, blank

\* An answer after an answer.
LEMMA ThenType ==
    ASSUME NEW a \in Answers, NEW b \in Answers
    PROVE  Then(a, b) \in Answers /\ Then(a, b).s = b.s /\ Then(a, b).out = Join(a.out, b.out)
<1>1. b.s \in State /\ a.out \in Text /\ b.out \in Text
  BY DEF Answers
<1> QED
  BY <1>1, JoinType, AnswerType DEF Then

-----------------------------------------------------------------------------
(* Loops and ";", step by step.                                              *)

\* A run of steps that keep to a set stays in it.
LEMMA StaysIn ==
    ASSUME NEW N \in Nat, NEW A, NEW g, g[0] \in A, \A i \in 1 .. N : g[i - 1] \in A => g[i] \in A
    PROVE  \A i \in 0 .. N : g[i] \in A
<1> DEFINE P == {k \in 0 .. N : g[k] \in A}
<1>1. 0 \in P
  OBVIOUS
<1>2. \A k \in 1 .. N : k - 1 \in P => k \in P
  OBVIOUS
<1> HIDE DEF P
<1>3. \A k \in 0 .. N : k \in P
  BY <1>1, <1>2, StepByStep
<1> QED
  BY <1>3 DEF P

\* The answer before the first piece.
LEMMA NothingYet ==
    ASSUME NEW s \in State
    PROVE  Answer(s, NoText) \in Answers
BY SaidIs, AnswerType

\* One more piece.
LEMMA PieceRuns ==
    ASSUME NEW line, IsList(line), NEW a \in Answers, NEW i \in 1 .. Len(Pieces(line, ";"))
    PROVE  Then(a, RouteSingle(Pieces(line, ";")[i], a.s)) \in Answers
<1>1. a.s \in State /\ IsJob(Pieces(line, ";")[i])
  BY PiecesAreJobs DEF Answers
<1>2. RouteSingle(Pieces(line, ";")[i], a.s) \in Answers
  BY <1>1, SingleType
<1> QED
  BY <1>2, ThenType

\* ';' one piece after another.
LEMMA SequenceSteps ==
    ASSUME NEW line, IsList(line), NEW s0 \in State
    PROVE  \E g : /\ g[0] = Answer(s0, NoText) /\ g[0] \in Answers
                  /\ \A i \in 1 .. Len(Pieces(line, ";")) : g[i - 1] \in Answers =>
                          g[i] = Then(g[i - 1], RouteSingle(Pieces(line, ";")[i], g[i - 1].s))
                  /\ RouteSequence(line, s0) = g[Len(Pieces(line, ";"))]
<1> DEFINE N == Len(Pieces(line, ";"))
           A == Answers
           iter == CHOOSE iter : iter = [s \in SUBSET (1 .. N) |->
                      IF s = {} THEN Answer(s0, NoText)
                      ELSE Then(iter[s \ {Max(s)}],
                                RouteSingle(Pieces(line, ";")[Max(s)], iter[s \ {Max(s)}].s))]
           step == [p \in A \X (1 .. N) |-> Then(p[1], RouteSingle(Pieces(line, ";")[p[2]], p[1].s))]
<1>1. N \in Nat
  BY PiecesAreJobs
<1>2. RouteSequence(line, s0) = iter[1 .. N]
  <2>1. DOMAIN Pieces(line, ";") = 1 .. N
    BY PiecesAreJobs
  <2> HIDE DEF N
  <2> QED
    BY <2>1 DEF RouteSequence, FoldLeft, MapThenFoldSet
<1>3. step \in [A \X (1 .. N) -> A]
  <2>1. \A a \in Answers : \A i \in 1 .. N : Then(a, RouteSingle(Pieces(line, ";")[i], a.s)) \in Answers
    BY PieceRuns
  <2> HIDE DEF N
  <2> QED
    BY <2>1
<1>4. Answer(s0, NoText) \in A
  BY NothingYet
<1>5. \E f \in [SUBSET (1 .. N) -> A] : IsFold(f, N, Answer(s0, NoText), step)
  <2>1. N \in Nat
    BY <1>1
  <2> HIDE DEF step, N, iter, A
  <2> QED
    BY ONLY <2>1, <1>3, <1>4, FoldExists
<1>6. PICK f \in [SUBSET (1 .. N) -> A] : IsFold(f, N, Answer(s0, NoText), step)
  BY <1>5
<1>7. f = [s \in SUBSET (1 .. N) |->
                      IF s = {} THEN Answer(s0, NoText)
                      ELSE Then(f[s \ {Max(s)}], RouteSingle(Pieces(line, ";")[Max(s)], f[s \ {Max(s)}].s))]
  <2>1. ASSUME NEW s \in SUBSET (1 .. N), s # {}
        PROVE  step[<<f[s \ {Max(s)}], Max(s)>>] =
                   Then(f[s \ {Max(s)}], RouteSingle(Pieces(line, ";")[Max(s)], f[s \ {Max(s)}].s))
    <3>1. Max(s) \in 1 .. N
      BY <1>1, <2>1, MaxIn
    <3>2. f[s \ {Max(s)}] \in A
      OBVIOUS
    <3> HIDE DEF A, N
    <3> QED
      BY <3>1, <3>2
  <2> HIDE DEF step, A, N
  <2> QED
    BY <1>6, <2>1 DEF IsFold
<1>8. iter = [s \in SUBSET (1 .. N) |->
                      IF s = {} THEN Answer(s0, NoText)
                      ELSE Then(iter[s \ {Max(s)}],
                                RouteSingle(Pieces(line, ";")[Max(s)], iter[s \ {Max(s)}].s))]
  BY <1>7, Zenon
<1> HIDE DEF iter, step, N
<1> DEFINE g == [i \in 0 .. N |-> iter[1 .. i]]
<1>9. g[0] = Answer(s0, NoText)
  <2>1. 1 .. 0 = {} /\ {} \in SUBSET (1 .. N) /\ 0 \in 0 .. N
    BY <1>1
  <2> HIDE DEF A
  <2> QED
    BY <1>8, <2>1
<1>10. ASSUME NEW i \in 1 .. N
      PROVE  g[i] = Then(g[i - 1], RouteSingle(Pieces(line, ";")[i], g[i - 1].s))
  <2>1. i \in 0 .. N /\ i - 1 \in 0 .. N
    BY <1>1
  <2>2. 1 .. i \in SUBSET (1 .. N) /\ 1 .. i # {} /\ Max(1 .. i) = i /\ (1 .. i) \ {i} = 1 .. (i - 1)
    BY <1>1, Intervals
  <2>3. iter[1 .. i] = Then(iter[1 .. (i - 1)], RouteSingle(Pieces(line, ";")[i], iter[1 .. (i - 1)].s))
    BY <1>8, <2>2, Zenon
  <2>4. g[i] = iter[1 .. i] /\ g[i - 1] = iter[1 .. (i - 1)]
    BY <2>1
  <2> HIDE DEF g
  <2> QED
    BY <2>3, <2>4, Zenon
<1>11. RouteSequence(line, s0) = g[N]
  BY <1>1, <1>2
<1> HIDE DEF g
<1> QED
  BY <1>4, <1>9, <1>10, <1>11 DEF N, A

\* ";" leaves a session and prints a text.
LEMMA SequenceType ==
    ASSUME NEW line, IsList(line), NEW s \in State
    PROVE  RouteSequence(line, s) \in Answers
<1> DEFINE N == Len(Pieces(line, ";"))
<1>1. PICK g : /\ g[0] = Answer(s, NoText) /\ g[0] \in Answers
               /\ \A i \in 1 .. N : g[i - 1] \in Answers =>
                       g[i] = Then(g[i - 1], RouteSingle(Pieces(line, ";")[i], g[i - 1].s))
               /\ RouteSequence(line, s) = g[N]
  BY SequenceSteps
<1>2. \A i \in 1 .. N : g[i - 1] \in Answers => g[i] \in Answers
  BY <1>1, PieceRuns
<1>3. N \in Nat
  BY PiecesAreJobs
<1> HIDE DEF N
<1>5. N \in 0 .. N
  BY <1>3
<1>4. \A i \in 0 .. N : g[i] \in Answers
  BY <1>1, <1>2, <1>3, StaysIn
<1> QED
  BY <1>1, <1>4, <1>5

\* A body with the item put in is a command.
LEMMA BoundType ==
    ASSUME NEW c \in Command, NEW v \in Variables, NEW item \in Nat
    PROVE  Bound(c, v, item) \in Command
BY DEF Bound, Command

IsFor(line) == /\ line.var \in Variables /\ line.items \in Seq(Nat) /\ line.body \in Command
Item(line, q, a, i) ==
    Then(a, Single(Bound(line.body, line.var, q[i]), [a.s EXCEPT !.env[line.var] = q[i]]))

\* The body run for the items q; of a loop's items the code takes the first ones.
RunsItems(line, q, s) ==
    FoldLeft(LAMBDA a, item :
                LET set == [a.s EXCEPT !.env[line.var] = item]
                IN Then(a, Single(Bound(line.body, line.var, item), set)),
             Answer(s, NoText), q)

LEMMA ForRunsItems ==
    ASSUME NEW line, NEW s
    PROVE  RouteFor(line, s) = RunsItems(line, FirstItems(line), s)
BY DEF RouteFor, RunsItems

LEMMA FirstItemsAre ==
    ASSUME NEW line, IsFor(line)
    PROVE  FirstItems(line) \in Seq(Nat) /\ (Len(line.items) <= LoopCap => FirstItems(line) = line.items)
<1> DEFINE q == line.items
           M == Least(LoopCap, Len(q))
<1>1. q \in Seq(Nat) /\ Len(q) \in Nat /\ LoopCap \in Nat
  BY SeqShape, ShellAssumption DEF IsFor
<1> HIDE DEF q
<1>2. M \in Nat /\ M <= Len(q) /\ (Len(q) <= LoopCap => M = Len(q))
  BY <1>1 DEF Least
<1>3. FirstItems(line) = SubSeq(q, 1, M)
  BY DEF FirstItems, q
<1> HIDE DEF M
<1>4. SubSeq(q, 1, M) \in Seq(Nat)
  BY <1>1, <1>2
<1>5. SubSeq(q, 1, Len(q)) = q
  BY <1>1
<1> QED
  BY <1>2, <1>3, <1>4, <1>5 DEF q

\* One more item.
LEMMA ItemRuns ==
    ASSUME NEW line, IsFor(line), NEW q \in Seq(Nat), NEW a \in Answers, NEW i \in 1 .. Len(q)
    PROVE  Item(line, q, a, i) \in Answers
<1> DEFINE x == q[i]
<1>1. a.s \in State /\ x \in Nat /\ line.var \in Variables /\ line.body \in Command
  <2>1. x \in Nat
    BY SeqShape
  <2> QED
    BY <2>1 DEF IsFor, Answers
<1> HIDE DEF x
<1>2. Bound(line.body, line.var, x) \in Command
  BY <1>1, BoundType
<1>3. [a.s EXCEPT !.env[line.var] = x] \in State
  BY <1>1, SetsVariable DEF Values
<1>4. Single(Bound(line.body, line.var, x), [a.s EXCEPT !.env[line.var] = x]) \in Answers
  BY <1>2, <1>3, OneType
<1> QED
  BY <1>4, ThenType DEF Item, x

\* A for loop, one item after another.
LEMMA ForSteps ==
    ASSUME NEW line, IsFor(line), NEW q \in Seq(Nat), NEW s0 \in State
    PROVE  \E g : /\ g[0] = Answer(s0, NoText) /\ g[0] \in Answers
                  /\ \A i \in 1 .. Len(q) : g[i - 1] \in Answers => g[i] = Item(line, q, g[i - 1], i)
                  /\ RunsItems(line, q, s0) = g[Len(q)]
<1> DEFINE N == Len(q)
           A == Answers
           iter == CHOOSE iter : iter = [s \in SUBSET (1 .. N) |->
                      IF s = {} THEN Answer(s0, NoText) ELSE Item(line, q, iter[s \ {Max(s)}], Max(s))]
           step == [p \in A \X (1 .. N) |-> Item(line, q, p[1], p[2])]
<1>1. N \in Nat /\ DOMAIN q = 1 .. N
  BY SeqShape
<1>2. RunsItems(line, q, s0) = iter[1 .. N]
  BY <1>1 DEF RunsItems, FoldLeft, MapThenFoldSet, Item
<1>3. step \in [A \X (1 .. N) -> A]
  <2>1. \A a \in Answers : \A i \in 1 .. N : Item(line, q, a, i) \in Answers
    BY ItemRuns
  <2> HIDE DEF N
  <2> QED
    BY <2>1
<1>4. Answer(s0, NoText) \in A
  BY NothingYet
<1>5. \E f \in [SUBSET (1 .. N) -> A] : IsFold(f, N, Answer(s0, NoText), step)
  <2>1. N \in Nat
    BY <1>1
  <2> HIDE DEF step, N, iter, A
  <2> QED
    BY ONLY <2>1, <1>3, <1>4, FoldExists
<1>6. PICK f \in [SUBSET (1 .. N) -> A] : IsFold(f, N, Answer(s0, NoText), step)
  BY <1>5
<1>7. f = [s \in SUBSET (1 .. N) |->
                      IF s = {} THEN Answer(s0, NoText) ELSE Item(line, q, f[s \ {Max(s)}], Max(s))]
  <2>1. ASSUME NEW s \in SUBSET (1 .. N), s # {}
        PROVE  step[<<f[s \ {Max(s)}], Max(s)>>] = Item(line, q, f[s \ {Max(s)}], Max(s))
    <3>1. Max(s) \in 1 .. N
      BY <1>1, <2>1, MaxIn
    <3>2. f[s \ {Max(s)}] \in A
      OBVIOUS
    <3> HIDE DEF A, N
    <3> QED
      BY <3>1, <3>2
  <2> HIDE DEF step, A, N
  <2> QED
    BY <1>6, <2>1 DEF IsFold
<1>8. iter = [s \in SUBSET (1 .. N) |->
                      IF s = {} THEN Answer(s0, NoText) ELSE Item(line, q, iter[s \ {Max(s)}], Max(s))]
  BY <1>7, Zenon
<1> HIDE DEF iter, step, N
<1> DEFINE g == [i \in 0 .. N |-> iter[1 .. i]]
<1>9. g[0] = Answer(s0, NoText)
  <2>1. 1 .. 0 = {} /\ {} \in SUBSET (1 .. N) /\ 0 \in 0 .. N
    BY <1>1
  <2> HIDE DEF A
  <2> QED
    BY <1>8, <2>1
<1>10. ASSUME NEW i \in 1 .. N
      PROVE  g[i] = Item(line, q, g[i - 1], i)
  <2>1. i \in 0 .. N /\ i - 1 \in 0 .. N
    BY <1>1
  <2>2. 1 .. i \in SUBSET (1 .. N) /\ 1 .. i # {} /\ Max(1 .. i) = i /\ (1 .. i) \ {i} = 1 .. (i - 1)
    BY <1>1, Intervals
  <2>3. iter[1 .. i] = Item(line, q, iter[1 .. (i - 1)], i)
    BY <1>8, <2>2, Zenon
  <2>4. g[i] = iter[1 .. i] /\ g[i - 1] = iter[1 .. (i - 1)]
    BY <2>1
  <2> HIDE DEF g
  <2> QED
    BY <2>3, <2>4, Zenon
<1>11. RunsItems(line, q, s0) = g[N]
  BY <1>1, <1>2
<1> HIDE DEF g
<1> QED
  BY <1>4, <1>9, <1>10, <1>11 DEF N, A

\* A for loop leaves a session and prints a text.
LEMMA ForType ==
    ASSUME NEW line, IsFor(line), NEW s \in State
    PROVE  RouteFor(line, s) \in Answers
<1> DEFINE q == FirstItems(line)
           N == Len(q)
<1>1. q \in Seq(Nat)
  BY FirstItemsAre
<1>2. RouteFor(line, s) = RunsItems(line, q, s)
  BY ForRunsItems
<1> HIDE DEF q
<1>3. PICK g : /\ g[0] = Answer(s, NoText) /\ g[0] \in Answers
               /\ \A i \in 1 .. N : g[i - 1] \in Answers => g[i] = Item(line, q, g[i - 1], i)
               /\ RunsItems(line, q, s) = g[N]
  BY <1>1, ForSteps
<1>4. \A i \in 1 .. N : g[i - 1] \in Answers => g[i] \in Answers
  BY <1>1, <1>3, ItemRuns
<1>5. N \in Nat
  BY <1>1, SeqShape
<1> HIDE DEF N
<1>6. N \in 0 .. N
  BY <1>5
<1>7. \A i \in 0 .. N : g[i] \in Answers
  BY <1>3, <1>4, <1>5, StaysIn
<1> QED
  BY <1>2, <1>3, <1>6, <1>7

Turns == [s : State, out : Text, on : BOOLEAN]
Turn(line, a) ==
    LET cond == Single(line.cond, a.s)
        b == Then(a, Single(line.body, cond.s))
    IN IF ~a.on THEN a
       ELSE IF IsError(cond.out) THEN [a EXCEPT !.s = cond.s, !.on = FALSE]
       ELSE [a EXCEPT !.s = b.s, !.out = b.out]
FirstTurn(s) == [s |-> s, out |-> NoText, on |-> TRUE]
AllTurns(line, s) == FoldLeft(LAMBDA a, k : Turn(line, a), FirstTurn(s), [k \in 1 .. LoopCap |-> k])

\* One more turn.
LEMMA TurnType ==
    ASSUME NEW line, line.cond \in Command, line.body \in Command, NEW a \in Turns
    PROVE  Turn(line, a) \in Turns
<1> DEFINE cond == Single(line.cond, a.s)
           body == Single(line.body, cond.s)
           b == Then(a, body)
<1>1. a.s \in State /\ a.out \in Text /\ a.on \in BOOLEAN
  BY DEF Turns
<1>2. cond.s \in State
  BY <1>1, OneType DEF Answers
<1>3. body.s \in State /\ body.out \in Text
  BY <1>2, OneType DEF Answers
<1> HIDE DEF cond, body
<1>4. b.s = body.s /\ b.out = Join(a.out, body.out)
  BY DEF Then, Answer
<1>5. b.s \in State /\ b.out \in Text
  BY <1>1, <1>3, <1>4, JoinType
<1> HIDE DEF b
<1>6. Turn(line, a) = IF ~a.on THEN a
       ELSE IF IsError(cond.out) THEN [a EXCEPT !.s = cond.s, !.on = FALSE]
       ELSE [a EXCEPT !.s = b.s, !.out = b.out]
  BY DEF Turn, cond, body, b
<1> QED
  BY <1>2, <1>5, <1>6 DEF Turns

\* The state before the first turn.
LEMMA FirstTurnType ==
    ASSUME NEW s \in State
    PROVE  FirstTurn(s) \in Turns
BY SaidIs DEF FirstTurn, Turns

\* A while loop, turn after turn.
LEMMA WhileSteps ==
    ASSUME NEW line, line.cond \in Command, line.body \in Command, NEW s0 \in State
    PROVE  \E g : /\ g[0] = FirstTurn(s0) /\ g[0] \in Turns
                  /\ \A i \in 1 .. LoopCap : g[i - 1] \in Turns => g[i] = Turn(line, g[i - 1])
                  /\ AllTurns(line, s0) = g[LoopCap]
<1> DEFINE N == LoopCap
           A == Turns
           iter == CHOOSE iter : iter = [s \in SUBSET (1 .. N) |->
                      IF s = {} THEN FirstTurn(s0) ELSE Turn(line, iter[s \ {Max(s)}])]
           step == [p \in A \X (1 .. N) |-> Turn(line, p[1])]
<1>1. N \in Nat
  BY ShellAssumption
<1>2. AllTurns(line, s0) = iter[1 .. N]
  BY <1>1 DEF AllTurns, FoldLeft, MapThenFoldSet
<1>3. step \in [A \X (1 .. N) -> A]
  <2>1. \A a \in Turns : Turn(line, a) \in Turns
    BY TurnType
  <2> HIDE DEF N
  <2> QED
    BY <2>1
<1>4. FirstTurn(s0) \in A
  BY FirstTurnType
<1>5. \E f \in [SUBSET (1 .. N) -> A] : IsFold(f, N, FirstTurn(s0), step)
  <2>1. N \in Nat
    BY <1>1
  <2> HIDE DEF step, N, iter, A
  <2> QED
    BY ONLY <2>1, <1>3, <1>4, FoldExists
<1>6. PICK f \in [SUBSET (1 .. N) -> A] : IsFold(f, N, FirstTurn(s0), step)
  BY <1>5
<1>7. f = [s \in SUBSET (1 .. N) |->
                      IF s = {} THEN FirstTurn(s0) ELSE Turn(line, f[s \ {Max(s)}])]
  <2>1. ASSUME NEW s \in SUBSET (1 .. N), s # {}
        PROVE  step[<<f[s \ {Max(s)}], Max(s)>>] = Turn(line, f[s \ {Max(s)}])
    <3>1. Max(s) \in 1 .. N
      BY <1>1, <2>1, MaxIn
    <3>2. f[s \ {Max(s)}] \in A
      OBVIOUS
    <3> HIDE DEF A, N
    <3> QED
      BY <3>1, <3>2
  <2> HIDE DEF step, A, N
  <2> QED
    BY <1>6, <2>1 DEF IsFold
<1>8. iter = [s \in SUBSET (1 .. N) |->
                      IF s = {} THEN FirstTurn(s0) ELSE Turn(line, iter[s \ {Max(s)}])]
  BY <1>7, Zenon
<1> HIDE DEF iter, step, N
<1> DEFINE g == [i \in 0 .. N |-> iter[1 .. i]]
<1>9. g[0] = FirstTurn(s0)
  <2>1. 1 .. 0 = {} /\ {} \in SUBSET (1 .. N) /\ 0 \in 0 .. N
    BY <1>1
  <2> HIDE DEF A
  <2> QED
    BY <1>8, <2>1
<1>10. ASSUME NEW i \in 1 .. N
      PROVE  g[i] = Turn(line, g[i - 1])
  <2>1. i \in 0 .. N /\ i - 1 \in 0 .. N
    BY <1>1
  <2>2. 1 .. i \in SUBSET (1 .. N) /\ 1 .. i # {} /\ Max(1 .. i) = i /\ (1 .. i) \ {i} = 1 .. (i - 1)
    BY <1>1, Intervals
  <2>3. iter[1 .. i] = Turn(line, iter[1 .. (i - 1)])
    BY <1>8, <2>2, Zenon
  <2>4. g[i] = iter[1 .. i] /\ g[i - 1] = iter[1 .. (i - 1)]
    BY <2>1
  <2> HIDE DEF g
  <2> QED
    BY <2>3, <2>4, Zenon
<1>11. AllTurns(line, s0) = g[N]
  BY <1>1, <1>2
<1> HIDE DEF g
<1> QED
  BY <1>4, <1>9, <1>10, <1>11 DEF N, A

\* The while loop of the decoy as turns.
LEMMA WhileIs ==
    ASSUME NEW line, NEW s0
    PROVE  RouteWhile(line, s0) = AllTurns(line, s0)
BY DEF RouteWhile, AllTurns, Turn, FirstTurn

\* A while loop leaves a session and prints a text.
LEMMA WhileType ==
    ASSUME NEW line, line.cond \in Command, line.body \in Command, NEW s \in State
    PROVE  RouteWhile(line, s) \in Turns
<1>1. PICK g : /\ g[0] = FirstTurn(s) /\ g[0] \in Turns
               /\ \A i \in 1 .. LoopCap : g[i - 1] \in Turns => g[i] = Turn(line, g[i - 1])
               /\ AllTurns(line, s) = g[LoopCap]
  BY WhileSteps
<1>2. \A i \in 1 .. LoopCap : g[i - 1] \in Turns => g[i] \in Turns
  BY <1>1, TurnType
<1>3. LoopCap \in Nat
  BY ShellAssumption
<1>5. LoopCap \in 0 .. LoopCap
  BY <1>3
<1>4. \A i \in 0 .. LoopCap : g[i] \in Turns
  BY <1>1, <1>2, <1>3, StaysIn
<1> QED
  BY <1>1, <1>4, <1>5, WhileIs

\* A slice of a sequence.
LEMMA CutType ==
    ASSUME NEW S, NEW q \in Seq(S), NEW a \in 1 .. 2, NEW b \in 0 .. Len(q)
    PROVE  SubSeq(q, a, b) \in Seq(S)
<1>1. Len(q) \in Nat /\ \A k \in 1 .. Len(q) : q[k] \in S
  BY SeqShape
<1>2. \A k \in a .. b : k \in 1 .. Len(q)
  BY <1>1
<1>3. \A k \in a .. b : q[k] \in S
  BY <1>1, <1>2
<1>4. b \in Int /\ a \in Int
  BY <1>1
<1> QED
  BY <1>3, <1>4, SubSeqProperties

\* A sequence without its first.
LEMMA AllButFirst ==
    ASSUME NEW S, NEW q \in Seq(S)
    PROVE  SubSeq(q, 2, Len(q)) \in Seq(S)
<1>1. Len(q) \in 0 .. Len(q)
  OBVIOUS
<1> QED
  BY <1>1, CutType

\* A sequence without its last, its last and its first.
LEMMA AllButLast ==
    ASSUME NEW S, NEW q \in Seq(S), q # << >>
    PROVE  /\ Front(q) \in Seq(S) /\ Last(q) \in S /\ q[1] \in S
<1>1. Len(q) \in Nat /\ Len(q) # 0 /\ \A k \in 1 .. Len(q) : q[k] \in S
  BY SeqShape, EmptySeq
<1>2. Len(q) - 1 \in 0 .. Len(q) /\ 1 \in 1 .. Len(q) /\ Len(q) \in 1 .. Len(q)
  BY <1>1
<1> QED
  BY <1>1, <1>2, CutType DEF Front, Last

\* Two lines made one.
LEMMA GluedType ==
    ASSUME NEW l \in Seq(Nat), NEW m \in Seq(Nat)
    PROVE  Glued(l, m) \in Seq(Nat)
<1>1. CASE l = << >> \/ m = << >>
  BY <1>1 DEF Glued
<1>2. CASE l # << >> /\ m # << >>
  <2> DEFINE a == Front(l)
             b == <<Jumble>>
             c == SubSeq(m, 2, Len(m))
  <2>1. a \in Seq(Nat) /\ c \in Seq(Nat)
    BY <1>2, AllButLast, AllButFirst
  <2>2. b \in Seq(Nat)
    BY Consts
  <2>3. Glued(l, m) = a \o b \o c
    BY <1>2 DEF Glued
  <2> HIDE DEF a, b, c
  <2>4. a \o b \in Seq(Nat)
    BY <2>1, <2>2, ConcatProperties
  <2> QED
    BY <2>1, <2>3, <2>4, ConcatProperties
<1> QED
  BY <1>1, <1>2

\* A sequence with something in the middle.
LEMMA NotEmpty ==
    ASSUME NEW S, NEW a \in Seq(S), NEW x \in S, NEW b \in Seq(S)
    PROVE  a \o <<x>> \o b \in Seq(S) /\ a \o <<x>> \o b # << >>
<1> DEFINE m == <<x>>
           p == a \o m
           q == p \o b
<1>1. m \in Seq(S) /\ Len(m) = 1
  OBVIOUS
<1> HIDE DEF m
<1>2. p \in Seq(S) /\ Len(p) = Len(a) + 1
  <2>1. p \in Seq(S) /\ Len(p) = Len(a) + Len(m)
    BY <1>1, ConcatProperties
  <2> HIDE DEF p
  <2> QED
    BY <1>1, <2>1
<1> HIDE DEF p
<1>3. q \in Seq(S) /\ Len(q) = Len(p) + Len(b)
  BY <1>2, ConcatProperties
<1>4. Len(a) \in Nat /\ Len(b) \in Nat
  BY SeqShape
<1> HIDE DEF q
<1>5. Len(q) # 0
  BY <1>2, <1>3, <1>4
<1>6. q # << >>
  BY <1>5
<1> QED
  BY <1>3, <1>6 DEF q, p, m

\* A text appended to a text is a text.
LEMMA ConcatType ==
    ASSUME NEW t \in Text, NEW u \in Text
    PROVE  Concat(t, u) \in Text
<1>1. t.lines \in Seq(Seq(Nat)) /\ u.lines \in Seq(Seq(Nat)) /\ t.ended \in BOOLEAN /\ u.ended \in BOOLEAN
  BY LinesOf
<1>2. (t.lines = << >> => t.ended) /\ (u.lines = << >> => u.ended)
  BY DEF Text
<1>3. CASE u.lines = << >>
  <2>1. t.lines \o u.lines = t.lines
    BY <1>1, <1>3
  <2>2. Concat(t, u) = [lines |-> t.lines, ended |-> t.ended]
    BY <1>3, <2>1 DEF Concat
  <2> QED
    BY <1>1, <1>2, <2>2 DEF Text
<1>4. CASE u.lines # << >> /\ t.ended
  <2> DEFINE ls == t.lines \o u.lines
  <2>1. Concat(t, u) = [lines |-> ls, ended |-> u.ended]
    BY <1>4 DEF Concat
  <2>2. ls \in Seq(Seq(Nat)) /\ Len(ls) = Len(t.lines) + Len(u.lines)
    BY <1>1, ConcatProperties
  <2>3. Len(t.lines) \in Nat /\ Len(u.lines) \in Nat /\ Len(u.lines) # 0
    BY <1>1, <1>4, EmptySeq, SeqShape
  <2> HIDE DEF ls
  <2>4. Len(ls) # 0
    <3> DEFINE x == Len(ls)
               y == Len(t.lines)
               z == Len(u.lines)
    <3>1. x = y + z /\ y \in Nat /\ z \in Nat /\ z # 0
      BY <2>2, <2>3
    <3> HIDE DEF x, y, z
    <3>2. x # 0
      BY <3>1
    <3> QED
      BY <3>2 DEF x
  <2>5. ls # << >>
    BY <2>4
  <2> QED
    BY <1>1, <2>1, <2>2, <2>5 DEF Text
<1>5. CASE u.lines # << >> /\ ~t.ended
  <2> DEFINE a == Front(t.lines)
             x == Glued(Last(t.lines), u.lines[1])
             b == SubSeq(u.lines, 2, Len(u.lines))
             ls == a \o <<x>> \o b
  <2>1. Concat(t, u) = [lines |-> ls, ended |-> u.ended]
    BY <1>5 DEF Concat
  <2>2. a \in Seq(Seq(Nat)) /\ Last(t.lines) \in Seq(Nat) /\ u.lines[1] \in Seq(Nat) /\ b \in Seq(Seq(Nat))
    BY <1>1, <1>2, <1>5, AllButLast, AllButFirst
  <2>3. x \in Seq(Nat)
    BY <2>2, GluedType
  <2> HIDE DEF a, x, b
  <2>4. ls \in Seq(Seq(Nat)) /\ ls # << >>
    BY <2>2, <2>3, NotEmpty
  <2> HIDE DEF ls
  <2> QED
    BY <1>1, <2>1, <2>4 DEF Text
<1> QED
  BY <1>1, <1>3, <1>4, <1>5

\* The first piece can be run, whatever the line is cut at.
LEMMA FirstPieceIsJob ==
    ASSUME NEW line, IsList(line), NEW op
    PROVE  IsJob(Pieces(line, op)[1])
<1> DEFINE N == Size(line)
           S == {k \in DOMAIN line.ops : line.ops[k] = op}
           T == S \cup {N}
           ends == Ascending(T)
           c == Cardinality(T)
<1>1. N \in Nat /\ N >= 1 /\ DOMAIN line.ops = 1 .. (N - 1)
  BY ListShape
<1> HIDE DEF N
<1>2. T \in SUBSET (1 .. N)
  <2>1. 1 .. (N - 1) \in SUBSET (1 .. N) /\ N \in 1 .. N
    BY <1>1
  <2> QED
    BY <1>1, <2>1
<1>3. c \in Nat /\ ends \in [1 .. c -> 1 .. N] /\ T = Image(ends, c)
  <2> HIDE DEF T
  <2> QED
    BY <1>1, <1>2, AscendingIs
<1>7. N \in T
  OBVIOUS
<1> HIDE DEF c, ends, T
<1>4. 1 \in 1 .. c
  BY <1>3, <1>7 DEF Image
<1>5. Pieces(line, op)[1] = Part(line, 1, ends[1])
  <2>1. DOMAIN ends = 1 .. c
    BY <1>3
  <2>2. Pieces(line, op) = [k \in DOMAIN ends |-> Part(line, IF k = 1 THEN 1 ELSE ends[k - 1] + 1, ends[k])]
    BY DEF Pieces, ends, T, N
  <2> QED
    BY <1>4, <2>1, <2>2
<1> DEFINE d == ends[1]
<1> HIDE DEF d
<1>6. d \in 1 .. N /\ 1 \in 1 .. N /\ 1 <= d
  BY <1>1, <1>3, <1>4 DEF d
<1>8. IsJob(Part(line, 1, d))
  BY <1>1, <1>6, PartIsJob DEF N
<1> QED
  BY <1>5, <1>8 DEF d

\* Redirection leaves a session.
LEMMA RedirectType ==
    ASSUME NEW t \in Text, NEW s \in State
    PROVE  RedirectWrite(t, s) \in State /\ RedirectAppend(t, s) \in State
<1>1. RedirectWrite(t, s) \in State
  BY SetsFile DEF RedirectWrite
<1> DEFINE u == IF s.file = Absent THEN t ELSE Concat(s.file, t)
<1>2. u \in Text \cup {Absent}
  <2>1. s.file \in Text \cup {Absent}
    BY StateFields
  <2>2. s.file \in Text => Concat(s.file, t) \in Text
    BY ConcatType
  <2> QED
    BY <2>1, <2>2
<1>3. RedirectAppend(t, s) = [s EXCEPT !.file = u]
  BY DEF RedirectAppend
<1> HIDE DEF u
<1>4. RedirectAppend(t, s) \in State
  BY <1>2, <1>3, SetsFile
<1> QED
  BY <1>1, <1>4

\* A list of commands leaves a session.
LEMMA ListState ==
    ASSUME NEW line, IsList(line), NEW s \in State
    PROVE  RouteList(line, s).s \in State
<1>1. CASE Has(line, ";")
  BY <1>1, SequenceType DEF RouteList, Answers
<1>2. CASE ~Has(line, ";") /\ Has(line, "&&")
  <2> DEFINE a == RouteSingle(Left(line, "&&"), s)
             b == RouteSingle(Right(line, "&&"), a.s)
  <2>1. a \in Answers
    BY <1>2, SidesAreJobs, SingleType
  <2>2. a.s \in State
    BY <2>1 DEF Answers
  <2>3. b \in Answers
    BY <1>2, <2>2, SidesAreJobs, SingleType
  <2>4. RouteList(line, s) = IF IsError(a.out) THEN a ELSE Then(a, b)
    BY <1>2 DEF RouteList, RouteAnd
  <2> HIDE DEF a, b
  <2>5. Then(a, b) \in Answers
    BY <2>1, <2>3, ThenType
  <2> QED
    BY <2>1, <2>4, <2>5 DEF Answers
<1>3. CASE ~Has(line, ";") /\ ~Has(line, "&&") /\ Has(line, "||")
  <2> DEFINE a == RouteSingle(Left(line, "||"), s)
             b == RouteSingle(Right(line, "||"), a.s)
  <2>1. a \in Answers
    BY <1>3, SidesAreJobs, SingleType
  <2>2. a.s \in State
    BY <2>1 DEF Answers
  <2>3. b \in Answers
    BY <1>3, <2>2, SidesAreJobs, SingleType
  <2>4. RouteList(line, s) = IF a.out.lines # << >> /\ ~IsError(a.out) THEN a ELSE b
    BY <1>3 DEF RouteList, RouteOr
  <2> HIDE DEF a, b
  <2> QED
    BY <2>1, <2>3, <2>4 DEF Answers
<1>4. CASE ~Has(line, ";") /\ ~Has(line, "&&") /\ ~Has(line, "||") /\ Has(line, "|")
  <2> DEFINE a == RouteSingle(Pieces(line, "|")[1], s)
  <2>1. a \in Answers
    BY FirstPieceIsJob, SingleType
  <2>2. RouteList(line, s) = RoutePipe(line, s)
    BY <1>4 DEF RouteList
  <2>3. RoutePipe(line, s).s \in {a.s, s}
    BY DEF RoutePipe, Answer
  <2> HIDE DEF a
  <2> QED
    BY <2>1, <2>2, <2>3 DEF Answers
<1>5. ASSUME NEW op, Has(line, op) PROVE RouteRedirect(line, op, s).s \in State
  <2> DEFINE a == RouteSingle(Left(line, op), s)
             written == IF op = ">" THEN RedirectWrite(a.out, a.s) ELSE RedirectAppend(a.out, a.s)
  <2>1. a \in Answers
    BY <1>5, SidesAreJobs, SingleType
  <2>2. a.s \in State /\ a.out \in Text
    BY <2>1 DEF Answers
  <2>3. RouteRedirect(line, op, s).s = IF Size(Right(line, op)) = 1 THEN written ELSE a.s
    BY DEF RouteRedirect, Answer
  <2> HIDE DEF a
  <2>4. written \in State
    BY <2>2, RedirectType
  <2> QED
    BY <2>2, <2>3, <2>4
<1>6. CASE /\ ~Has(line, ";") /\ ~Has(line, "&&") /\ ~Has(line, "||") /\ ~Has(line, "|")
           /\ Has(line, ">>") \/ Has(line, ">")
  BY <1>5, <1>6 DEF RouteList
<1>7. CASE /\ ~Has(line, ";") /\ ~Has(line, "&&") /\ ~Has(line, "||") /\ ~Has(line, "|")
           /\ ~Has(line, ">>") /\ ~Has(line, ">")
  <2>1. RouteList(line, s) = RouteSingle(line, s)
    BY <1>7 DEF RouteList
  <2>2. IsJob(line)
    <3> DEFINE N == Size(line)
    <3>1. /\ N \in Nat /\ N >= 1 /\ DOMAIN line.cmds = 1 .. N /\ line.cmds[1] \in Command
          /\ \A k \in 1 .. N : line.cmds[k].name = "export" => line.cmds[k] \in Command
      BY ListShape
    <3>2. Len(line.cmds) = N
      BY DEF Size
    <3> HIDE DEF N
    <3> QED
      BY <3>1, <3>2 DEF IsJob
  <2> QED
    BY <2>1, <2>2, SingleType DEF Answers
<1> QED
  BY <1>1, <1>2, <1>3, <1>4, <1>6, <1>7

\* An if leaves a session.
LEMMA IfState ==
    ASSUME NEW line, line.cond \in Command, line.then \in Command,
           line.else \in Command \/ line.else.name = "none", NEW s \in State
    PROVE  RouteIf(line, s).s \in State
<1> DEFINE a == Single(line.cond, s)
<1>1. a.s \in State
  BY OneType DEF Answers
<1>2. RouteIf(line, s) = IF ~IsError(a.out) THEN Single(line.then, a.s)
       ELSE IF line.else.name # "none" THEN Single(line.else, a.s) ELSE Answer(a.s, NoText)
  BY DEF RouteIf
<1> HIDE DEF a
<1>3. Single(line.then, a.s).s \in State
  BY <1>1, OneType DEF Answers
<1>4. line.else \in Command => Single(line.else, a.s).s \in State
  BY <1>1, OneType DEF Answers
<1>5. Answer(a.s, NoText).s = a.s
  BY DEF Answer
<1> QED
  BY <1>1, <1>2, <1>3, <1>4, <1>5

\* Whatever a line does, the session stays a state a session may be in.
THEOREM LineState ==
    ASSUME NEW line, IsLine(line), NEW s \in State
    PROVE  Route(line, s).s \in State
<1>1. CASE line.kind = "list"
  <2>1. IsList(line)
    BY <1>1 DEF IsLine
  <2>2. Route(line, s) = RouteList(line, s)
    BY <1>1 DEF Route
  <2> QED
    BY <2>1, <2>2, ListState
<1>2. CASE line.kind = "set"
  <2>1. IsList(line) /\ line.var \in Variables /\ line.arg \in Nat
    BY <1>2 DEF IsLine
  <2>2. Route(line, s) = RouteList(line, [s EXCEPT !.env[line.var] = line.arg])
    BY <1>2 DEF Route
  <2>3. [s EXCEPT !.env[line.var] = line.arg] \in State
    BY <2>1, SetsVariable DEF Values
  <2> QED
    BY <2>1, <2>2, <2>3, ListState
<1>3. CASE line.kind = "for"
  <2>1. IsFor(line)
    BY <1>3 DEF IsLine, IsFor
  <2>2. Route(line, s) = RouteFor(line, s)
    BY <1>3 DEF Route
  <2> QED
    BY <2>1, <2>2, ForType DEF Answers
<1>4. CASE line.kind = "if"
  <2>1. line.cond \in Command /\ line.then \in Command /\ (line.else \in Command \/ line.else.name = "none")
    BY <1>4 DEF IsLine
  <2>2. Route(line, s) = RouteIf(line, s)
    BY <1>4 DEF Route
  <2> QED
    BY <2>1, <2>2, IfState
<1>5. CASE line.kind = "while"
  <2>1. line.cond \in Command /\ line.body \in Command
    BY <1>5 DEF IsLine
  <2>2. Route(line, s) = RouteWhile(line, s)
    BY <1>5 DEF Route
  <2> QED
    BY <2>1, <2>2, WhileType DEF Turns
<1> QED
  BY <1>1, <1>2, <1>3, <1>4, <1>5 DEF IsLine

-----------------------------------------------------------------------------
(* The invariant of a session.                                               *)

LinesInv == session \in State /\ (~raised => session.env["PWD"] = session.cwd)

\* The session after update_from_command.
LEMMA UpdateType ==
    ASSUME NEW s \in State
    PROVE  /\ UpdateFromCommand(s) \in State /\ UpdateFromCommand(s).env = [s.env EXCEPT !["PWD"] = s.cwd]
           /\ UpdateFromCommand(s).env["PWD"] = s.cwd /\ UpdateFromCommand(s).cwd = s.cwd
           /\ UpdateFromCommand(s).file = s.file /\ UpdateFromCommand(s).sudo = s.sudo
<1>1. s.cwd \in Values /\ s.cwd \in Nat /\ "PWD" \in Variables /\ s.env \in [Variables -> Values]
  BY StateFields, Consts DEF Values
<1>2. [s.env EXCEPT !["PWD"] = s.cwd]["PWD"] = s.cwd
  BY <1>1
<1> QED
  BY <1>1, <1>2, SetsVariable DEF UpdateFromCommand

\* The invariant holds when a session opens.
LEMMA LinesInvInit == LinesInit => LinesInv
<1> SUFFICES ASSUME LinesInit PROVE LinesInv
  OBVIOUS
<1>1. PICK file \in Texts \cup {Absent} : session = NewSession(file)
  BY DEF LinesInit
<1>2. file \in Text \cup {Absent} /\ Home \in Nat /\ "PWD" \in Variables
  BY ShellAssumption
<1>3. [v \in Variables |-> IF v = "PWD" THEN Home ELSE Unset] \in [Variables -> Nat \cup {Unset}]
  BY <1>2
<1>4. NewSession(file) \in State /\ NewSession(file).env["PWD"] = NewSession(file).cwd
  BY <1>2, <1>3 DEF NewSession, State
<1> QED
  BY <1>1, <1>4 DEF LinesInit, LinesInv

\* Every line keeps it.
LEMMA LinesInvStep == LinesInv /\ [LinesNext]_linesVars => LinesInv'
<1> SUFFICES ASSUME LinesInv, [LinesNext]_linesVars PROVE LinesInv'
  OBVIOUS
<1>1. ASSUME NEW line \in Lines, HandleCommand(line) PROVE LinesInv'
  <2> DEFINE r == Route(line, session)
  <2>1. r.s \in State
    BY LineState, ShellAssumption DEF LinesInv
  <2>2. /\ raised' = (r.out = Absent)
        /\ session' = IF r.out = Absent THEN r.s ELSE UpdateFromCommand(r.s)
    BY <1>1 DEF HandleCommand
  <2> HIDE DEF r
  <2>3. CASE r.out = Absent
    BY <2>1, <2>2, <2>3 DEF LinesInv
  <2>4. CASE r.out # Absent
    <3>1. session' = UpdateFromCommand(r.s)
      BY <2>2, <2>4
    <3>2. UpdateFromCommand(r.s) \in State /\ UpdateFromCommand(r.s).env["PWD"] = UpdateFromCommand(r.s).cwd
      BY <2>1, UpdateType
    <3> QED
      BY <3>1, <3>2 DEF LinesInv
  <2> QED
    BY <2>3, <2>4
<1>2. CASE Exit \/ UNCHANGED linesVars
  BY <1>2 DEF Exit, linesVars, LinesInv
<1> QED
  BY <1>1, <1>2 DEF LinesNext

\* Between two lines a session is one: a directory, variables and a text in the
\* file, whatever the line was, plain or not; and PWD is the directory unless the
\* line before raised (_handle_command of server.py, which then skips
\* update_from_command).
THEOREM SessionStates == LinesSpec => []LinesInv
BY LinesInvInit, LinesInvStep, PTL DEF LinesSpec

\* In such a session every filter does what its program does.
LEMMA FiltersHold == LinesInv => FiltersAgree
<1> SUFFICES ASSUME LinesInv, session.file # Absent, NEW f \in Filters,
                    ~Raises(f, session.file), ~Differs(f, session.file)
             PROVE  Program(f, session.file.lines, ApplyPipe(f, session.file).lines)
  BY DEF FiltersAgree
<1>1. session.file \in Text
  BY StateFields DEF LinesInv
<1>2. IsFilter(f)
  BY ShellAssumption
<1> QED
  BY <1>1, <1>2, FilterAgrees

\* On every text a session can bring about, every filter prints what the program
\* of its name prints, the listed differences aside (pipe filters of
\* command_router.py).
THEOREM FiltersDo == LinesSpec => []FiltersAgree
BY SessionStates, FiltersHold, PTL

-----------------------------------------------------------------------------
(* What a shell leaves and prints.                                           *)

\* What a shell may leave and print.
Prints == Seq(Seq(Values))
Ends == [s : State, lines : Prints, ok : BOOLEAN, plain : BOOLEAN]
Known(c, s0) == ~c.sudo \/ IsRoot \/ s0.sudo

\* A session after cd, in a shell.
LEMMA EntersType ==
    ASSUME NEW s \in State, NEW d \in Nat
    PROVE  /\ Enters(s, d) \in State /\ Enters(s, d).cwd = d
           /\ Enters(s, d).env = [[s.env EXCEPT !["OLDPWD"] = s.cwd] EXCEPT !["PWD"] = d]
           /\ Enters(s, d).file = s.file /\ Enters(s, d).sudo = s.sudo
<1>1. "OLDPWD" \in Variables /\ "PWD" \in Variables
  BY Consts
<1> QED
  BY <1>1 DEF State, Values, Enters

\* The session of a shell at the start of a line.
LEMMA UprightType ==
    ASSUME NEW s \in State
    PROVE  /\ Upright(s) \in State /\ Upright(s).env = [s.env EXCEPT !["PWD"] = s.cwd]
           /\ Upright(s).env["PWD"] = s.cwd /\ Upright(s).cwd = s.cwd
           /\ Upright(s).file = s.file /\ Upright(s).sudo = s.sudo
<1>1. s.cwd \in Values /\ s.cwd \in Nat /\ "PWD" \in Variables /\ s.env \in [Variables -> Values]
  BY StateFields, Consts DEF Values
<1>2. [s.env EXCEPT !["PWD"] = s.cwd]["PWD"] = s.cwd
  BY <1>1
<1> QED
  BY <1>1, <1>2, SetsVariable DEF Upright

\* What a command in a shell leaves.
LEMMA RanType ==
    ASSUME NEW s, NEW l, NEW ok, NEW p, s \in State, l \in Prints, ok \in BOOLEAN, p \in BOOLEAN
    PROVE  Ran(s, l, ok, p) \in Ends
BY DEF Ran, Ends

\* What a shell may print.
LEMMA OneLine ==
    /\ << >> \in Prints /\ \A v \in Values : << <<v>> >> \in Prints
    /\ \A t \in Text : t.lines \in Prints
<1>1. << >> \in Prints
  BY DEF Prints
<1>2. ASSUME NEW v \in Values PROVE << <<v>> >> \in Prints
  <2>1. <<v>> \in Seq(Values)
    OBVIOUS
  <2> QED
    BY <2>1 DEF Prints
<1>3. ASSUME NEW S, NEW q \in Seq(Nat) PROVE q \in Seq(Values)
  <2>1. q \in [1 .. Len(q) -> Nat] /\ Len(q) \in Nat
    OBVIOUS
  <2>2. q \in [1 .. Len(q) -> Values]
    BY <2>1 DEF Values
  <2> QED
    BY <2>1, <2>2, SeqDef
<1>4. ASSUME NEW t \in Text PROVE t.lines \in Prints
  <2> DEFINE q == t.lines
  <2>1. q \in Seq(Seq(Nat))
    BY LinesOf
  <2> HIDE DEF q
  <2>2. q \in [1 .. Len(q) -> Seq(Nat)] /\ Len(q) \in Nat
    BY <2>1
  <2>3. q \in [1 .. Len(q) -> Seq(Values)]
    BY <1>3, <2>2
  <2> QED
    BY <2>2, <2>3, SeqDef DEF Prints, q
<1> QED
  BY <1>1, <1>2, <1>4

\* A command in a shell leaves a session and prints lines.
LEMMA ShellType ==
    ASSUME NEW c \in Command, NEW s \in State, NEW s0
    PROVE  ShellRuns(c, s, s0) \in Ends
<1>0. /\ c.arg \in Nat /\ c.var \in Variables /\ Home \in Nat /\ Dirs \subseteq Nat
      /\ s.file \in Text \cup {Absent} /\ "OLDPWD" \in Variables
      /\ \A v \in Variables : s.env[v] \in Values
      /\ << >> \in Prints /\ \A v \in Values : << <<v>> >> \in Prints
      /\ \A t \in Text : t.lines \in Prints
      /\ \A n \in Nat : n \in Values /\ Unset \in Values
  BY CommandFields, StateFields, Consts, OneLine DEF Values
<1>11. << >> \in Prints
  BY <1>0
<1>1. CASE c.name = "echo"
  <2>1. ShellRuns(c, s, s0) = Ran(s, << <<c.arg>> >>, TRUE, Known(c, s0))
    BY <1>1 DEF ShellRuns, Known
  <2>2. Known(c, s0) \in BOOLEAN
    BY DEF Known
  <2> QED
    BY <1>0, <2>1, <2>2, RanType
<1>2. CASE c.name = "echo $"
  <2> DEFINE p == Known(c, s0) /\ s.env[c.var] # Unset /\ (c.var = "PWD" => s.env[c.var] = s0.env["PWD"])
  <2>1. ShellRuns(c, s, s0) = Ran(s, << <<s.env[c.var]>> >>, TRUE, p)
    BY <1>2 DEF ShellRuns, Known
  <2>2. p \in BOOLEAN
    OBVIOUS
  <2> HIDE DEF p
  <2> QED
    BY <1>0, <2>1, <2>2, RanType
<1>3. CASE c.name = "export"
  <2> DEFINE p == Known(c, s0) /\ c.var # "PWD"
  <2>1. ShellRuns(c, s, s0) = Ran([s EXCEPT !.env[c.var] = c.arg], << >>, TRUE, p)
    BY <1>3 DEF ShellRuns, Known
  <2>2. p \in BOOLEAN
    OBVIOUS
  <2> DEFINE e == [s EXCEPT !.env[c.var] = c.arg]
  <2>3. e \in State
    BY <1>0, SetsVariable
  <2>4. ShellRuns(c, s, s0) = Ran(e, << >>, TRUE, p)
    BY <2>1
  <2> HIDE DEF p, e
  <2> QED
    BY <1>11, <2>2, <2>3, <2>4, RanType
<1>4. CASE c.name = "unset"
  <2> DEFINE p == Known(c, s0) /\ c.var # "PWD"
  <2>1. ShellRuns(c, s, s0) = Ran([s EXCEPT !.env[c.var] = Unset], << >>, TRUE, p)
    BY <1>4 DEF ShellRuns, Known
  <2>2. p \in BOOLEAN
    OBVIOUS
  <2> DEFINE e == [s EXCEPT !.env[c.var] = Unset]
  <2>3. e \in State
    BY <1>0, SetsVariable
  <2>4. ShellRuns(c, s, s0) = Ran(e, << >>, TRUE, p)
    BY <2>1
  <2> HIDE DEF p, e
  <2> QED
    BY <1>11, <2>2, <2>3, <2>4, RanType
<1>5. Known(c, s0) \in BOOLEAN
  BY DEF Known
<1>6. CASE c.name = "false"
  <2>1. ShellRuns(c, s, s0) = Ran(s, << >>, FALSE, Known(c, s0))
    BY <1>6 DEF ShellRuns, Known
  <2> QED
    BY <1>0, <1>5, <2>1, RanType
<1>7. CASE c.name = "cd"
  <2>1. ShellRuns(c, s, s0) = Ran(Enters(s, Home), << >>, TRUE, FALSE)
    BY <1>7 DEF ShellRuns, Known
  <2>2. Enters(s, Home) \in State
    BY <1>0, EntersType
  <2> QED
    BY <1>11, <2>1, <2>2, RanType
<1>8. CASE c.name = "cd to"
  <2>1. ShellRuns(c, s, s0) =
           IF c.arg \in Dirs THEN Ran(Enters(s, c.arg), << >>, TRUE, Known(c, s0))
           ELSE Ran(s, << >>, FALSE, Known(c, s0))
    BY <1>8 DEF ShellRuns, Known
  <2>2. c.arg \in Dirs => Enters(s, c.arg) \in State
    BY <1>0, EntersType
  <2> QED
    BY <1>11, <1>5, <2>1, <2>2, RanType
<1>9. CASE c.name = "cd -"
  <2> DEFINE d == s.env["OLDPWD"]
  <2>1. ShellRuns(c, s, s0) =
           IF d \in Dirs THEN Ran(Enters(s, d), << <<d>> >>, TRUE, Known(c, s0))
           ELSE Ran(s, << >>, FALSE, FALSE)
    BY <1>9 DEF ShellRuns, Known
  <2>2. d \in Dirs => d \in Nat
    BY <1>0
  <2> HIDE DEF d
  <2>3. d \in Dirs => Enters(s, d) \in State /\ << <<d>> >> \in Prints
    BY <1>0, <2>2, EntersType
  <2> QED
    BY <1>11, <1>5, <2>1, <2>3, RanType
<1>10. CASE c.name \in {"cat", "rm"}
  <2>1. ShellRuns(c, s, s0) =
                 IF s.file = Absent THEN Ran(s, << >>, FALSE, Known(c, s0))
                 ELSE IF c.name = "cat" THEN Ran(s, s.file.lines, TRUE, Known(c, s0))
                 ELSE Ran([s EXCEPT !.file = Absent], << >>, TRUE, Known(c, s0))
    BY <1>10 DEF ShellRuns, Known
  <2>2. [s EXCEPT !.file = Absent] \in State
    BY SetsFile
  <2> QED
    BY <1>0, <1>11, <1>5, <2>1, <2>2, RanType
<1> QED
  BY CommandFields, <1>1, <1>2, <1>3, <1>4, <1>6, <1>7, <1>8, <1>9, <1>10

-----------------------------------------------------------------------------
(* The lines that are compared.                                              *)

\* A line that is compared, and the places of these lines.
Shows(l) == l # << >> /\ Error \notin Range(l)
ShownAt(ls) == {i \in 1 .. Len(ls) : Shows(ls[i])}
Chosen(ls, p, m) == [k \in 1 .. m |-> ls[p[k]]]
Picks(ls, p, m) == /\ p \in [1 .. m -> 1 .. Len(ls)] /\ Increasing(p, m)
                   /\ \A i : i \in Image(p, m) <=> i \in ShownAt(ls)

\* The lines compared, by a list of their places.
LEMMA ShownIs ==
    ASSUME NEW E, NEW ls \in Seq(E), NEW m \in Nat, NEW p, Picks(ls, p, m)
    PROVE  Shown(ls) = Chosen(ls, p, m) /\ Chosen(ls, p, m) \in Seq(E) /\ Len(Chosen(ls, p, m)) = m
<1>1. Len(ls) \in Nat /\ DOMAIN ls = 1 .. Len(ls) /\ \A i \in 1 .. Len(ls) : ls[i] \in E
  BY SeqShape
<1>2. p \in [1 .. m -> Nat] /\ p \in [1 .. m -> 1 .. Len(ls)] /\ Increasing(p, m)
  BY <1>1 DEF Picks
<1>3. Image(p, m) = ShownAt(ls)
  BY DEF Picks
<1>4. Ascending(ShownAt(ls)) = p /\ Cardinality(ShownAt(ls)) = m
  BY <1>2, <1>3, Enumerated
<1>5. Shown(ls) = LinesAt(ls, ShownAt(ls))
  BY <1>1 DEF Shown, KeptLines, ShownAt, Shows
<1>6. Shown(ls) = Chosen(ls, p, m)
  BY <1>4, <1>5 DEF LinesAt, Chosen
<1>7. Chosen(ls, p, m) \in [1 .. m -> E]
  BY <1>1, <1>2 DEF Chosen
<1> QED
  BY <1>6, <1>7, Counted

\* There is such a list.
LEMMA ShownHas ==
    ASSUME NEW E, NEW ls \in Seq(E)
    PROVE  \E m \in Nat : \E p : Picks(ls, p, m)
<1> DEFINE n == Len(ls)
           S == ShownAt(ls)
<1>1. n \in Nat /\ S \in SUBSET (1 .. n)
  BY SeqShape DEF ShownAt
<1> HIDE DEF n, S
<1>2. /\ Cardinality(S) \in Nat /\ Ascending(S) \in [1 .. Cardinality(S) -> 1 .. n]
      /\ Increasing(Ascending(S), Cardinality(S)) /\ S = Image(Ascending(S), Cardinality(S))
  BY <1>1, AscendingIs
<1> QED
  BY <1>2 DEF Picks, n, S

\* What is shown of two texts, one after the other.
LEMMA ShownConcat ==
    ASSUME NEW E, NEW a \in Seq(E), NEW b \in Seq(E)
    PROVE  Shown(a \o b) = Shown(a) \o Shown(b) /\ Shown(a) \in Seq(E)
<1> DEFINE A == Len(a)
           B == Len(b)
           c == a \o b
<1>1. A \in Nat /\ B \in Nat
  BY SeqShape
<1>2. c \in Seq(E) /\ Len(c) = A + B /\ \A i \in 1 .. A + B : c[i] = IF i <= A THEN a[i] ELSE b[i - A]
  BY ConcatProperties
<1> HIDE DEF c
<1>3. PICK m \in Nat : \E p : Picks(a, p, m)
  BY ShownHas
<1>4. PICK p : Picks(a, p, m)
  BY <1>3
<1>5. PICK n \in Nat : \E q : Picks(b, q, n)
  BY ShownHas
<1>6. PICK q : Picks(b, q, n)
  BY <1>5
<1> DEFINE r == [k \in 1 .. (m + n) |-> IF k <= m THEN p[k] ELSE q[k - m] + A]
<1>7. /\ p \in [1 .. m -> 1 .. A] /\ \A i, j \in 1 .. m : i < j => p[i] < p[j]
      /\ \A i : (\E k \in 1 .. m : p[k] = i) <=> i \in 1 .. A /\ Shows(a[i])
  BY <1>4 DEF Picks, Increasing, Image, ShownAt
<1>8. /\ q \in [1 .. n -> 1 .. B] /\ \A i, j \in 1 .. n : i < j => q[i] < q[j]
      /\ \A i : (\E k \in 1 .. n : q[k] = i) <=> i \in 1 .. B /\ Shows(b[i])
  BY <1>6 DEF Picks, Increasing, Image, ShownAt
<1> HIDE DEF A, B
<1>9. r \in [1 .. (m + n) -> 1 .. (A + B)]
  BY <1>1, <1>7, <1>8
<1>10. Increasing(r, m + n)
  BY <1>1, <1>7, <1>8 DEF Increasing
<1>11. ASSUME NEW k \in 1 .. m PROVE r[k] = p[k] /\ k \in 1 .. (m + n) /\ r[k] \in 1 .. A
  BY <1>7
<1>12. ASSUME NEW k \in 1 .. n
       PROVE r[k + m] = q[k] + A /\ k + m \in 1 .. (m + n) /\ k + m - m = k /\ q[k] \in 1 .. B
  BY <1>8
<1>13. ASSUME NEW k \in 1 .. (m + n) PROVE k \in 1 .. m \/ \E h \in 1 .. n : k = h + m
  <2>1. CASE k > m
    <3>1. k - m \in 1 .. n /\ k = (k - m) + m
      BY <2>1
    <3> QED
      BY <3>1
  <2> QED
    BY <2>1
<1> HIDE DEF r
<1>14. \A i \in 1 .. A : c[i] = a[i] /\ i \in 1 .. (A + B)
  BY <1>1, <1>2
<1>15. \A i \in 1 .. B : c[i + A] = b[i] /\ i + A \in 1 .. (A + B)
  <2> SUFFICES ASSUME NEW i \in 1 .. B PROVE c[i + A] = b[i] /\ i + A \in 1 .. (A + B)
    OBVIOUS
  <2>1. i + A \in 1 .. (A + B) /\ ~(i + A <= A) /\ (i + A) - A = i
    BY <1>1
  <2> QED
    BY <1>2, <2>1
<1>16. ASSUME NEW i, i \in 1 .. (A + B), Shows(c[i]) PROVE \E k \in 1 .. (m + n) : r[k] = i
  <2>1. CASE i <= A
    <3>1. i \in 1 .. A
      BY <1>1, <1>16, <2>1
    <3>2. PICK k \in 1 .. m : p[k] = i
      BY <1>7, <1>14, <1>16, <3>1
    <3> QED
      BY <1>11, <3>2
  <2>2. CASE ~(i <= A)
    <3>1. i - A \in 1 .. B /\ i = (i - A) + A
      BY <1>1, <1>16, <2>2
    <3> DEFINE h == i - A
    <3> HIDE DEF h
    <3>3. h \in 1 .. B /\ i = h + A
      BY <3>1 DEF h
    <3>2. PICK k \in 1 .. n : q[k] = h
      BY <1>8, <1>15, <1>16, <3>3
    <3> QED
      BY <1>12, <3>2, <3>3
  <2> QED
    BY <2>1, <2>2
<1>17. ASSUME NEW k \in 1 .. (m + n) PROVE r[k] \in 1 .. (A + B) /\ Shows(c[r[k]])
  <2>1. CASE k \in 1 .. m
    BY <1>7, <1>11, <1>14, <2>1
  <2>2. ASSUME NEW h \in 1 .. n, k = h + m PROVE r[k] \in 1 .. (A + B) /\ Shows(c[r[k]])
    <3>1. r[k] = q[h] + A /\ q[h] \in 1 .. B /\ Shows(b[q[h]])
      BY <1>8, <1>12, <2>2
    <3> QED
      BY <1>15, <3>1
  <2> QED
    BY <1>13, <2>1, <2>2
<1>18. \A i : i \in Image(r, m + n) <=> i \in ShownAt(c)
  <2>1. \A i : i \in Image(r, m + n) <=> \E k \in 1 .. (m + n) : r[k] = i
    BY DEF Image
  <2>2. \A i : i \in ShownAt(c) <=> i \in 1 .. (A + B) /\ Shows(c[i])
    BY <1>2 DEF ShownAt
  <2> QED
    BY <1>16, <1>17, <2>1, <2>2
<1>19. m + n \in Nat
  OBVIOUS
<1>20. Picks(c, r, m + n)
  BY <1>2, <1>9, <1>10, <1>18 DEF Picks
<1> DEFINE x == Chosen(a, p, m)
           y == Chosen(b, q, n)
           z == Chosen(c, r, m + n)
<1>21. Shown(a) = x /\ x \in Seq(E) /\ Len(x) = m
  BY <1>4, ShownIs
<1>22. Shown(b) = y /\ y \in Seq(E) /\ Len(y) = n
  BY <1>6, ShownIs
<1>23. Shown(c) = z /\ z \in Seq(E) /\ Len(z) = m + n
  BY <1>2, <1>19, <1>20, ShownIs
<1>24. \A k \in 1 .. m : x[k] = a[p[k]] /\ z[k] = a[p[k]]
  BY <1>11, <1>14 DEF Chosen
<1>25. \A k \in 1 .. n : y[k] = b[q[k]] /\ z[k + m] = b[q[k]]
  BY <1>12, <1>15 DEF Chosen
<1> HIDE DEF x, y, z
<1> DEFINE w == x \o y
<1>26. w \in Seq(E) /\ Len(w) = Len(x) + Len(y)
          /\ \A i \in 1 .. Len(x) + Len(y) : w[i] = IF i <= Len(x) THEN x[i] ELSE y[i - Len(x)]
  BY <1>21, <1>22, ConcatProperties
<1> HIDE DEF w
<1>27. Len(w) = m + n /\ \A i \in 1 .. (m + n) : w[i] = IF i <= m THEN x[i] ELSE y[i - m]
  BY <1>21, <1>22, <1>26
<1>28. ASSUME NEW k \in 1 .. (m + n) PROVE w[k] = z[k]
  <2>1. CASE k \in 1 .. m
    BY <1>24, <1>27, <2>1
  <2>2. ASSUME NEW h \in 1 .. n, k = h + m PROVE w[k] = z[k]
    <3>1. ~(k <= m) /\ k - m = h
      BY <2>2
    <3> QED
      BY <1>25, <1>27, <2>2, <3>1
  <2> QED
    BY <1>13, <2>1, <2>2
<1>29. w = z
  BY <1>23, <1>26, <1>27, <1>28, SeqEqual
<1> QED
  BY <1>21, <1>22, <1>23, <1>29 DEF w, c

\* Nothing, a blank line and an error message show nothing.
LEMMA ShownNothing ==
    /\ Shown(<< >>) = << >> /\ Shown(<< << >> >>) = << >> /\ Shown(<< <<Error>> >>) = << >>
<1> DEFINE N == [k \in 1 .. 0 |-> 1]
<1>1. ASSUME NEW ls \in Seq(Seq(Nat)), \A i \in 1 .. Len(ls) : ~Shows(ls[i])
      PROVE  Shown(ls) = << >>
  <2>1. Picks(ls, N, 0)
    <3>1. N \in [1 .. 0 -> 1 .. Len(ls)] /\ Increasing(N, 0)
      BY DEF Increasing
    <3>2. \A i : i \in Image(N, 0) <=> i \in ShownAt(ls)
      BY <1>1 DEF Image, ShownAt
    <3> QED
      BY <3>1, <3>2 DEF Picks
  <2> HIDE DEF N
  <2> DEFINE x == Chosen(ls, N, 0)
  <2>2. Shown(ls) = x /\ x \in Seq(Seq(Nat)) /\ Len(x) = 0
    BY <2>1, ShownIs
  <2> HIDE DEF x
  <2>3. x = << >>
    BY <2>2, EmptySeq
  <2> QED
    BY <2>2, <2>3
<1>2. Shown(<< >>) = << >>
  <2>1. << >> \in Seq(Seq(Nat)) /\ \A i \in 1 .. Len(<< >>) : ~Shows(<< >>[i])
    OBVIOUS
  <2> QED
    BY <1>1, <2>1
<1>3. Shown(<< << >> >>) = << >>
  <2> DEFINE q == << << >> >>
  <2>0. << >> \in Seq(Nat)
    OBVIOUS
  <2>1. q \in Seq(Seq(Nat)) /\ Len(q) = 1 /\ q[1] = << >>
    BY <2>0
  <2> HIDE DEF q
  <2>2. \A i \in 1 .. Len(q) : ~Shows(q[i])
    BY <2>1 DEF Shows
  <2>3. Shown(q) = << >>
    BY <1>1, <2>1, <2>2
  <2> QED
    BY <2>3 DEF q
<1>4. Shown(<< <<Error>> >>) = << >>
  <2> DEFINE l == <<Error>>
             q == <<l>>
  <2>0. l \in Seq(Nat) /\ Error \in Range(l)
    BY Consts DEF Range
  <2> HIDE DEF l
  <2>1. q \in Seq(Seq(Nat)) /\ Len(q) = 1 /\ q[1] = l
    BY <2>0
  <2> HIDE DEF q
  <2>2. \A i \in 1 .. Len(q) : ~Shows(q[i])
    BY <2>0, <2>1 DEF Shows
  <2>3. Shown(q) = << >>
    BY <1>1, <2>1, <2>2
  <2> QED
    BY <2>3 DEF q, l
<1> QED
  BY <1>2, <1>3, <1>4

-----------------------------------------------------------------------------
(* A command of the decoy and of a shell.                                    *)

\* The newline the decoy joins outputs with shows nothing.
LEMMA ShownJoin ==
    ASSUME NEW t \in Text, NEW u \in Text
    PROVE  Shown(Join(t, u).lines) = Shown(t.lines) \o Shown(u.lines)
<1> DEFINE E == Seq(Nat)
           a == t.lines
           b == u.lines
           blank == << << >> >>
<1>1. a \in Seq(E) /\ b \in Seq(E)
  BY LinesOf
<1>2. blank \in Seq(E)
  <2>1. << >> \in Seq(Nat)
    OBVIOUS
  <2> QED
    BY <2>1
<1>3. Shown(<< >>) = << >> /\ Shown(blank) = << >>
  BY ShownNothing
<1> HIDE DEF a, b, E, blank
<1>4. Shown(a) \in Seq(E) /\ Shown(b) \in Seq(E)
  BY <1>1, ShownConcat
<1>5. CASE a = << >>
  <2>1. Join(t, u) = u
    BY <1>5 DEF Join, a
  <2>2. << >> \o Shown(b) = Shown(b)
    BY <1>4, ConcatEmptySeq
  <2> QED
    BY <1>3, <1>5, <2>1, <2>2 DEF a, b
<1>6. CASE a # << >> /\ b = << >>
  <2>1. Join(t, u) = t
    BY <1>6 DEF Join, a, b
  <2>2. Shown(a) \o << >> = Shown(a)
    BY <1>4, ConcatEmptySeq
  <2> QED
    BY <1>3, <1>6, <2>1, <2>2 DEF a, b
<1>7. CASE a # << >> /\ b # << >>
  <2> DEFINE gap == IF t.ended THEN blank ELSE << >>
             ab == a \o gap
  <2>1. Join(t, u).lines = ab \o b
    BY <1>7 DEF Join, a, b, blank
  <2>2. gap \in Seq(E) /\ Shown(gap) = << >>
    BY <1>2, <1>3, EmptySeq
  <2> HIDE DEF gap
  <2>3. ab \in Seq(E)
    BY <1>1, <2>2, ConcatProperties
  <2>4. Shown(ab) = Shown(a) \o Shown(gap)
    BY <1>1, <2>2, ShownConcat
  <2>5. Shown(ab) = Shown(a)
    BY <1>4, <2>2, <2>4, ConcatEmptySeq
  <2> HIDE DEF ab
  <2>6. Shown(ab \o b) = Shown(ab) \o Shown(b)
    BY <1>1, <2>3, ShownConcat
  <2> QED
    BY <2>1, <2>5, <2>6 DEF a, b
<1> QED
  BY <1>5, <1>6, <1>7

\* The decoy's session and a shell's in the middle of a line that began in s0:
\* the decoy has not set PWD yet, and knows no less of sudo.
SameButPwd(s, e) == \A v \in Variables : v # "PWD" => s.env[v] = e.env[v]
Alike(s, e, s0) ==
    /\ s \in State /\ e \in State /\ s.cwd = e.cwd /\ s.file = e.file
    /\ s.env["PWD"] = s0.env["PWD"] /\ e.env["PWD"] = e.cwd /\ SameButPwd(s, e)
    /\ s0.sudo => s.sudo

\* What a command of the decoy has to do with what the same command does in a shell.
Follows(r, o, s0, name) ==
    /\ r \in Answers /\ Alike(r.s, o.s, s0) /\ o.lines \in Seq(Seq(Nat))
    /\ o.ok => r.out.lines = o.lines
    /\ ~o.ok => o.lines = << >> /\ Shown(r.out.lines) = << >>
    /\ ~o.ok => r.out.lines = << >> \/ IsError(r.out)
    /\ ~o.ok /\ name # "false" => IsError(r.out)

\* An error message is an error, and shows nothing.
LEMMA SaysError ==
    IsError(Says(Error)) /\ Shown(Says(Error).lines) = << >>
<1> DEFINE l == <<Error>>
           q == <<l>>
<1>1. Says(Error).lines = q
  BY SaidIs, Consts
<1>2. Error \in Range(l)
  BY DEF Range
<1> HIDE DEF l
<1>3. l \in Range(q)
  BY DEF Range
<1>4. IsError(Says(Error))
  BY <1>1, <1>2, <1>3 DEF IsError
<1> QED
  BY <1>1, <1>4, ShownNothing DEF l

\* Both print t and go on.
LEMMA Succeeds ==
    ASSUME NEW s, NEW e, NEW s0, NEW t \in Text, NEW p, NEW name, Alike(s, e, s0)
    PROVE  Follows(Answer(s, t), Ran(e, t.lines, TRUE, p), s0, name)
<1>1. s \in State
  BY DEF Alike
<1>2. Answer(s, t) \in Answers /\ Answer(s, t).s = s /\ Answer(s, t).out = t
  BY <1>1, AnswerType
<1>3. t.lines \in Seq(Seq(Nat))
  BY LinesOf
<1> QED
  BY <1>2, <1>3 DEF Follows, Ran

\* The decoy prints an error, the shell fails.
LEMMA Fails ==
    ASSUME NEW s, NEW e, NEW s0, NEW p, NEW name, Alike(s, e, s0)
    PROVE  Follows(Answer(s, Says(Error)), Ran(e, << >>, FALSE, p), s0, name)
<1>1. s \in State
  BY DEF Alike
<1>2. /\ Answer(s, Says(Error)) \in Answers /\ Answer(s, Says(Error)).s = s
      /\ Answer(s, Says(Error)).out = Says(Error)
  BY <1>1, AnswerType, SaidIs, Consts
<1>3. << >> \in Seq(Seq(Nat))
  OBVIOUS
<1> QED
  BY <1>2, <1>3, SaysError DEF Follows, Ran

\* A variable set on both sides.
LEMMA AlikeSet ==
    ASSUME NEW s, NEW e, NEW s0, Alike(s, e, s0), NEW v \in Variables, v # "PWD", NEW x \in Values
    PROVE  Alike([s EXCEPT !.env[v] = x], [e EXCEPT !.env[v] = x], s0)
<1> DEFINE S == [s EXCEPT !.env[v] = x]
           D == [e EXCEPT !.env[v] = x]
<1>1. s \in State /\ e \in State
  BY DEF Alike
<1>2. S \in State /\ S.env = [s.env EXCEPT ![v] = x] /\ S.cwd = s.cwd /\ S.file = s.file /\ S.sudo = s.sudo
  BY <1>1, SetsVariable
<1>3. D \in State /\ D.env = [e.env EXCEPT ![v] = x] /\ D.cwd = e.cwd /\ D.file = e.file /\ D.sudo = e.sudo
  BY <1>1, SetsVariable
<1> HIDE DEF S, D
<1>4. s.env \in [Variables -> Values] /\ e.env \in [Variables -> Values] /\ "PWD" \in Variables
  BY <1>1, StateFields, Consts
<1>5. S.env["PWD"] = s.env["PWD"] /\ D.env["PWD"] = e.env["PWD"]
  BY <1>2, <1>3, <1>4
<1>6. SameButPwd(S, D)
  BY <1>2, <1>3, <1>4 DEF Alike, SameButPwd
<1>7. Alike(S, D, s0)
  BY <1>2, <1>3, <1>5, <1>6 DEF Alike
<1> QED
  BY <1>7 DEF S, D

\* The file set on both sides.
LEMMA AlikeFile ==
    ASSUME NEW s, NEW e, NEW s0, Alike(s, e, s0), NEW t \in Text \cup {Absent}
    PROVE  Alike([s EXCEPT !.file = t], [e EXCEPT !.file = t], s0)
<1> DEFINE S == [s EXCEPT !.file = t]
           D == [e EXCEPT !.file = t]
<1>1. s \in State /\ e \in State
  BY DEF Alike
<1>2. S \in State /\ S.env = s.env /\ S.cwd = s.cwd /\ S.file = t /\ S.sudo = s.sudo
  BY <1>1, SetsFile
<1>3. D \in State /\ D.env = e.env /\ D.cwd = e.cwd /\ D.file = t /\ D.sudo = e.sudo
  BY <1>1, SetsFile
<1> HIDE DEF S, D
<1>4. Alike(S, D, s0)
  BY <1>2, <1>3 DEF Alike, SameButPwd
<1> QED
  BY <1>4 DEF S, D

\* A directory entered on both sides: PWD follows later in the decoy.
LEMMA AlikeEnters ==
    ASSUME NEW s, NEW e, NEW s0, Alike(s, e, s0), NEW d \in Nat
    PROVE  Alike([s EXCEPT !.env["OLDPWD"] = s.cwd, !.cwd = d], Enters(e, d), s0)
<1> DEFINE S == [s EXCEPT !.env["OLDPWD"] = s.cwd, !.cwd = d]
           D == Enters(e, d)
<1>1. s \in State /\ e \in State
  BY DEF Alike
<1>2. S \in State /\ S.env = [s.env EXCEPT !["OLDPWD"] = s.cwd] /\ S.cwd = d /\ S.file = s.file
         /\ S.sudo = s.sudo
  BY <1>1, LeavesDirectory
<1>3. /\ D \in State /\ D.env = [[e.env EXCEPT !["OLDPWD"] = e.cwd] EXCEPT !["PWD"] = d]
      /\ D.cwd = d /\ D.file = e.file /\ D.sudo = e.sudo
  BY <1>1, EntersType
<1> HIDE DEF S, D
<1>4. s.env \in [Variables -> Values] /\ e.env \in [Variables -> Values] /\ "PWD" \in Variables
         /\ "OLDPWD" \in Variables
  BY <1>1, StateFields, Consts
<1>5. S.env["PWD"] = s.env["PWD"] /\ D.env["PWD"] = d
  BY <1>2, <1>3, <1>4
<1>6. SameButPwd(S, D)
  BY <1>2, <1>3, <1>4 DEF Alike, SameButPwd
<1>7. Alike(S, D, s0)
  BY <1>2, <1>3, <1>5, <1>6 DEF Alike
<1> QED
  BY <1>7 DEF S, D

\* A command the decoy does not refuse is run.
LEMMA SingleIs ==
    ASSUME NEW c \in Command, NEW s, NEW s0, Known(c, s0), s0.sudo => s.sudo
    PROVE  Single(c, s) = Run(c, s)
<1> DEFINE l == <<c>>
           x == [cmds |-> l]
<1>1. x.cmds = l /\ l[1] = c /\ Len(l) = 1
  OBVIOUS
<1>2. ~Refused(c, s)
  BY DEF Refused, Known
<1>3. Single(c, s) = RouteSingle(x, s)
  BY DEF Single
<1> HIDE DEF x, l
<1>4. RouteSingle(x, s) = Run(c, s)
  BY <1>1, <1>2 DEF RouteSingle
<1> QED
  BY <1>3, <1>4

\* A simple command does in the decoy what it does in a shell.
THEOREM CommandFollows ==
    ASSUME NEW c \in Command, NEW s, NEW e, NEW s0, Alike(s, e, s0), ShellRuns(c, e, s0).plain
    PROVE  Follows(Single(c, s), ShellRuns(c, e, s0), s0, c.name)
<1> DEFINE o == ShellRuns(c, e, s0)
<1>0. /\ c.arg \in Nat /\ c.var \in Variables /\ Home \in Nat /\ Dirs \subseteq Nat /\ Error \in Nat
      /\ s \in State /\ e \in State /\ s.file = e.file /\ s.file \in Text \cup {Absent} /\ s.cwd = e.cwd
      /\ s0.sudo => s.sudo
      /\ "PWD" \in Variables /\ "OLDPWD" \in Variables /\ Unset \notin Nat /\ Unset \in Values
         /\ c.arg \in Values
      /\ s.env[c.var] \in Values /\ s.env["OLDPWD"] = e.env["OLDPWD"] /\ s.env["OLDPWD"] \in Values
  BY CommandFields, StateFields, Consts DEF Alike, SameButPwd, Values
<1>1. Known(c, s0) => Single(c, s) = Run(c, s)
  BY <1>0, SingleIs
<1>2. /\ NoText \in Text /\ NoText.lines = << >>
      /\ \A m \in Nat : Says(m) \in Text /\ Says(m).lines = << <<m>> >>
  BY SaidIs
<1>3. CASE c.name = "echo"
  <2>1. o = Ran(e, << <<c.arg>> >>, TRUE, Known(c, s0))
    BY <1>3 DEF ShellRuns, Known
  <2>2. Known(c, s0)
    BY <2>1 DEF Ran
  <2>3. Run(c, s) = Answer(s, Says(c.arg))
    BY <1>3, Runs
  <2> DEFINE t == Says(c.arg)
             p == Known(c, s0)
  <2>4. t \in Text /\ o = Ran(e, t.lines, TRUE, p)
    BY <1>0, <1>2, <2>1
  <2> HIDE DEF t, o, p
  <2>5. Follows(Answer(s, t), Ran(e, t.lines, TRUE, p), s0, c.name)
    BY <2>4, Succeeds
  <2> QED
    BY <1>1, <2>2, <2>3, <2>4, <2>5 DEF t, o
<1>4. CASE c.name = "echo $"
  <2> DEFINE v == s.env[c.var]
             w == e.env[c.var]
             p == Known(c, s0) /\ w # Unset /\ (c.var = "PWD" => w = s0.env["PWD"])
             t == Says(v)
  <2>1. o = Ran(e, << <<w>> >>, TRUE, p)
    BY <1>4 DEF ShellRuns, Known
  <2>2. p
    <3> HIDE DEF p
    <3> QED
      BY <2>1 DEF Ran
  <2>3. v = w
    BY <1>0, <2>2 DEF Alike, SameButPwd
  <2>6. v \in Nat /\ v # Unset
    BY <1>0, <2>2, <2>3 DEF Values
  <2>7. Known(c, s0)
    BY <2>2
  <2>8. Run(c, s) = Answer(s, t)
    BY <1>4, <2>6, Runs
  <2> HIDE DEF v, w, p
  <2>4. t \in Text /\ o = Ran(e, t.lines, TRUE, p)
    BY <1>2, <2>1, <2>3, <2>6
  <2> HIDE DEF t, o
  <2>5. Follows(Answer(s, t), Ran(e, t.lines, TRUE, p), s0, c.name)
    BY <2>4, Succeeds
  <2> QED
    BY <1>1, <2>7, <2>8, <2>4, <2>5 DEF o
<1>5. CASE c.name = "export"
  <2> DEFINE p == Known(c, s0) /\ c.var # "PWD"
             S == [s EXCEPT !.env[c.var] = c.arg]
             D == [e EXCEPT !.env[c.var] = c.arg]
  <2>1. o = Ran(D, << >>, TRUE, p)
    BY <1>5 DEF ShellRuns, Known
  <2>2. p
    <3> HIDE DEF p, D
    <3> QED
      BY <2>1 DEF Ran
  <2>3. Run(c, s) = Answer(S, NoText)
    BY <1>5, Runs
  <2>4. Alike(S, D, s0)
    BY <1>0, <2>2, AlikeSet
  <2>7. Known(c, s0)
    BY <2>2
  <2> HIDE DEF p, S, D, o
  <2>5. o = Ran(D, NoText.lines, TRUE, p)
    BY <1>2, <2>1
  <2>6. Follows(Answer(S, NoText), Ran(D, NoText.lines, TRUE, p), s0, c.name)
    BY <1>2, <2>4, Succeeds
  <2> QED
    BY <1>1, <2>7, <2>3, <2>5, <2>6 DEF o
<1>6. CASE c.name = "unset"
  <2> DEFINE p == Known(c, s0) /\ c.var # "PWD"
             S == [s EXCEPT !.env[c.var] = Unset]
             D == [e EXCEPT !.env[c.var] = Unset]
  <2>1. o = Ran(D, << >>, TRUE, p)
    BY <1>6 DEF ShellRuns, Known
  <2>2. p
    <3> HIDE DEF p, D
    <3> QED
      BY <2>1 DEF Ran
  <2>3. Run(c, s) = Answer(S, NoText)
    BY <1>6, Runs
  <2>4. Alike(S, D, s0)
    BY <1>0, <2>2, AlikeSet
  <2>7. Known(c, s0)
    BY <2>2
  <2> HIDE DEF p, S, D, o
  <2>5. o = Ran(D, NoText.lines, TRUE, p)
    BY <1>2, <2>1
  <2>6. Follows(Answer(S, NoText), Ran(D, NoText.lines, TRUE, p), s0, c.name)
    BY <1>2, <2>4, Succeeds
  <2> QED
    BY <1>1, <2>7, <2>3, <2>5, <2>6 DEF o
<1>7. CASE c.name = "false"
  <2> DEFINE p == Known(c, s0)
  <2>1. o = Ran(e, << >>, FALSE, p)
    BY <1>7 DEF ShellRuns, Known
  <2>2. p
    BY <2>1 DEF Ran
  <2>3. Run(c, s) = Answer(s, NoText)
    BY <1>7, Runs
  <2>4. Answer(s, NoText) \in Answers /\ Answer(s, NoText).s = s /\ Answer(s, NoText).out = NoText
    BY <1>0, <1>2, AnswerType
  <2>5. << >> \in Seq(Seq(Nat)) /\ Shown(<< >>) = << >>
    BY ShownNothing
  <2>6. Follows(Answer(s, NoText), Ran(e, << >>, FALSE, p), s0, c.name)
    BY <1>2, <1>7, <2>4, <2>5 DEF Follows, Ran
  <2> QED
    BY <1>1, <2>1, <2>2, <2>3, <2>6
<1>8. CASE c.name = "cd"
  <2>1. o = Ran(Enters(e, Home), << >>, TRUE, FALSE)
    BY <1>8 DEF ShellRuns, Known
  <2>2. ~o.plain
    BY <2>1 DEF Ran
  <2> QED
    BY <2>2
<1>9. CASE c.name = "cd to"
  <2> DEFINE p == Known(c, s0)
  <2>1. o = IF c.arg \in Dirs THEN Ran(Enters(e, c.arg), << >>, TRUE, p) ELSE Ran(e, << >>, FALSE, p)
    BY <1>9 DEF ShellRuns, Known
  <2>2. p
    BY <2>1 DEF Ran
  <2> DEFINE S == [s EXCEPT !.env["OLDPWD"] = s.cwd, !.cwd = c.arg]
             D == Enters(e, c.arg)
  <2>3. Run(c, s) = IF c.arg \in Dirs THEN Answer(S, NoText) ELSE Answer(s, Says(Error))
    BY <1>9, Runs
  <2>4. Alike(S, D, s0)
    BY <1>0, AlikeEnters
  <2> HIDE DEF S, D
  <2>5. Follows(Answer(S, NoText), Ran(D, NoText.lines, TRUE, p), s0, c.name)
    BY <1>2, <2>4, Succeeds
  <2>6. Follows(Answer(s, Says(Error)), Ran(e, << >>, FALSE, p), s0, c.name)
    BY Fails
  <2> HIDE DEF o
  <2>7. Follows(Run(c, s), o, s0, c.name)
    BY <1>2, <2>1, <2>3, <2>5, <2>6 DEF D
  <2> QED
    BY <1>1, <2>2, <2>7 DEF o
<1>10. CASE c.name = "cd -"
  <2> DEFINE p == Known(c, s0)
             d == e.env["OLDPWD"]
  <2>1. o = IF d \in Dirs THEN Ran(Enters(e, d), << <<d>> >>, TRUE, p) ELSE Ran(e, << >>, FALSE, FALSE)
    BY <1>10 DEF ShellRuns, Known
  <2>2. d \in Dirs /\ p
    BY <2>1 DEF Ran
  <2>3. d \in Nat /\ d # Unset /\ s.env["OLDPWD"] = d
    BY <1>0, <2>2
  <2> DEFINE S == [s EXCEPT !.env["OLDPWD"] = s.cwd, !.cwd = d]
             D == Enters(e, d)
             t == Says(d)
  <2>4. Run(c, s) = Answer(S, t)
    <3> DEFINE x == IF s.env["OLDPWD"] = Unset THEN Home ELSE s.env["OLDPWD"]
    <3>1. Run(c, s) = Answer([s EXCEPT !.env["OLDPWD"] = s.cwd, !.cwd = x], Says(x))
      BY <1>10, Runs
    <3>2. x = d
      BY <2>3
    <3> QED
      BY <3>1, <3>2
  <2> HIDE DEF d
  <2>5. Alike(S, D, s0)
    BY <2>3, AlikeEnters
  <2> HIDE DEF S
  <2>6. t \in Text /\ o = Ran(D, t.lines, TRUE, p)
    BY <1>2, <2>1, <2>2, <2>3
  <2> HIDE DEF D, t, o
  <2>7. Follows(Answer(S, t), Ran(D, t.lines, TRUE, p), s0, c.name)
    BY <2>5, <2>6, Succeeds
  <2> QED
    BY <1>1, <2>2, <2>4, <2>6, <2>7 DEF o
<1>11. CASE c.name \in {"cat", "rm"}
  <2> DEFINE p == Known(c, s0)
  <2>1. o = IF e.file = Absent THEN Ran(e, << >>, FALSE, p)
                 ELSE IF c.name = "cat" THEN Ran(e, e.file.lines, TRUE, p)
                 ELSE Ran([e EXCEPT !.file = Absent], << >>, TRUE, p)
    BY <1>11 DEF ShellRuns, Known
  <2>2. p
    BY <2>1 DEF Ran
  <2>3. CASE s.file = Absent
    <3>1. o = Ran(e, << >>, FALSE, p)
      BY <1>0, <2>1, <2>3
    <3>2. Run(c, s) = Answer(s, Says(Error))
      BY <1>11, <2>3, Runs
    <3>3. Follows(Answer(s, Says(Error)), Ran(e, << >>, FALSE, p), s0, c.name)
      BY Fails
    <3> QED
      BY <1>1, <2>2, <3>1, <3>2, <3>3
  <2>4. CASE s.file # Absent /\ c.name = "cat"
    <3> DEFINE t == s.file
    <3>1. o = Ran(e, t.lines, TRUE, p)
      BY <1>0, <2>1, <2>4
    <3>2. Run(c, s) = Answer(s, t)
      BY <2>4, Runs
    <3>3. t \in Text
      BY <1>0, <2>4
    <3> HIDE DEF t
    <3>4. Follows(Answer(s, t), Ran(e, t.lines, TRUE, p), s0, c.name)
      BY <3>3, Succeeds
    <3> QED
      BY <1>1, <2>2, <3>1, <3>2, <3>4
  <2>5. CASE s.file # Absent /\ c.name = "rm"
    <3> DEFINE S == [s EXCEPT !.file = Absent]
               D == [e EXCEPT !.file = Absent]
    <3>1. o = Ran(D, << >>, TRUE, p)
      BY <1>0, <2>1, <2>5
    <3>2. Run(c, s) = Answer(S, NoText)
      BY <2>5 DEF Run, HandleCommon
    <3>3. Alike(S, D, s0)
      BY AlikeFile
    <3> HIDE DEF S, D
    <3>4. Follows(Answer(S, NoText), Ran(D, NoText.lines, TRUE, p), s0, c.name)
      BY <1>2, <3>3, Succeeds
    <3> QED
      BY <1>1, <1>2, <2>2, <3>1, <3>2, <3>4
  <2> QED
    BY <1>11, <2>3, <2>4, <2>5
<1> QED
  BY CommandFields, <1>3, <1>4, <1>5, <1>6, <1>7, <1>8, <1>9, <1>10, <1>11

-----------------------------------------------------------------------------
(* A line of the decoy and of a shell.                                       *)

\* The same session and the same lines shown.
Matches(r, o, s0) ==
    /\ r \in Answers /\ Alike(r.s, o.s, s0) /\ o.lines \in Seq(Seq(Nat))
    /\ Shown(r.out.lines) = Shown(o.lines)

\* A command that follows shows the same.
LEMMA FollowsMatches ==
    ASSUME NEW r, NEW o, NEW s0, NEW name, Follows(r, o, s0, name)
    PROVE  Matches(r, o, s0)
BY ShownNothing DEF Follows, Matches

\* One after another, what matches goes on to match.
LEMMA MatchesThen ==
    ASSUME NEW r, NEW o, NEW r2, NEW o2, NEW s0, Matches(r, o, s0), Matches(r2, o2, s0)
    PROVE  Matches(Then(r, r2), Both(o, o2), s0)
<1>1. /\ r \in Answers /\ r2 \in Answers /\ o.lines \in Seq(Seq(Nat)) /\ o2.lines \in Seq(Seq(Nat))
      /\ r.out \in Text /\ r2.out \in Text
  BY DEF Matches, Answers
<1>2. Then(r, r2) \in Answers /\ Then(r, r2).s = r2.s /\ Then(r, r2).out = Join(r.out, r2.out)
  BY <1>1, ThenType
<1>3. Shown(Join(r.out, r2.out).lines) = Shown(r.out.lines) \o Shown(r2.out.lines)
  BY <1>1, ShownJoin
<1>4. Shown(o.lines \o o2.lines) = Shown(o.lines) \o Shown(o2.lines)
  BY <1>1, ShownConcat
<1>5. o.lines \o o2.lines \in Seq(Seq(Nat))
  BY <1>1, ConcatProperties
<1>6. Both(o, o2).s = o2.s /\ Both(o, o2).lines = o.lines \o o2.lines
  BY DEF Both, Ran
<1> QED
  BY <1>2, <1>3, <1>4, <1>5, <1>6 DEF Matches

\* A command run in sessions that are alike matches.
LEMMA MatchesRun ==
    ASSUME NEW c \in Command, NEW s, NEW e, NEW s0, Alike(s, e, s0), ShellRuns(c, e, s0).plain
    PROVE  Matches(Single(c, s), ShellRuns(c, e, s0), s0)
BY CommandFollows, FollowsMatches

\* What LinesAgree says of one line.
LineAgrees(r, e) ==
    /\ UpdateFromCommand(r.s).env = e.s.env /\ r.s.cwd = e.s.cwd
    /\ (r.s.file = Absent) <=> (e.s.file = Absent)
    /\ r.s.file # Absent => r.s.file.lines = e.s.file.lines
    /\ r.out # Absent /\ Shown(r.out.lines) = Shown(e.lines)

\* At the end of the line PWD is caught up with.
LEMMA UpdatedAlike ==
    ASSUME NEW s, NEW e, NEW s0, Alike(s, e, s0)
    PROVE  UpdateFromCommand(s).env = e.env /\ s.cwd = e.cwd /\ s.file = e.file
<1>1. s \in State /\ e \in State /\ s.cwd = e.cwd /\ e.env["PWD"] = e.cwd /\ s.file = e.file
  BY DEF Alike
<1>2. s.env \in [Variables -> Values] /\ e.env \in [Variables -> Values] /\ "PWD" \in Variables
  BY <1>1, StateFields, Consts
<1>3. UpdateFromCommand(s).env = [s.env EXCEPT !["PWD"] = s.cwd]
  BY <1>1, UpdateType
<1>4. \A v \in Variables : [s.env EXCEPT !["PWD"] = s.cwd][v] = e.env[v]
  BY <1>1, <1>2 DEF Alike, SameButPwd
<1>5. [s.env EXCEPT !["PWD"] = s.cwd] = e.env
  BY <1>2, <1>4
<1> QED
  BY <1>1, <1>3, <1>5

\* So what matches in the end agrees.
LEMMA MatchesAgrees ==
    ASSUME NEW r, NEW o, NEW s0, Matches(r, o, s0)
    PROVE  LineAgrees(r, o)
<1>1. r.out \in Text /\ Absent \notin Text
  BY Consts DEF Matches, Answers
<1> QED
  BY <1>1, UpdatedAlike DEF Matches, LineAgrees

\* Before anything is run the two are alike.
LEMMA AlikeAtFirst ==
    ASSUME NEW s0 \in State
    PROVE  /\ Alike(s0, Upright(s0), s0)
           /\ Matches(Answer(s0, NoText), Ran(Upright(s0), << >>, TRUE, TRUE), s0)
<1> DEFINE e == Upright(s0)
<1>1. /\ e \in State /\ e.env = [s0.env EXCEPT !["PWD"] = s0.cwd] /\ e.env["PWD"] = s0.cwd
      /\ e.cwd = s0.cwd /\ e.file = s0.file /\ e.sudo = s0.sudo
      /\ s0.env \in [Variables -> Values] /\ "PWD" \in Variables
  BY UprightType, StateFields, Consts
<1> HIDE DEF e
<1>2. SameButPwd(s0, e)
  BY <1>1 DEF SameButPwd
<1>3. Alike(s0, e, s0)
  BY <1>1, <1>2 DEF Alike
<1>4. Answer(s0, NoText) \in Answers /\ Answer(s0, NoText).s = s0 /\ Answer(s0, NoText).out = NoText
  BY SaidIs, AnswerType
<1>5. << >> \in Seq(Seq(Nat))
  OBVIOUS
<1>6. Matches(Answer(s0, NoText), Ran(e, << >>, TRUE, TRUE), s0)
  BY <1>3, <1>4, <1>5, SaidIs DEF Matches, Ran
<1> QED
  BY <1>3, <1>6 DEF e

\* A part of one command is the command.
LEMMA OfOne ==
    ASSUME NEW part, Len(part.cmds) = 1, NEW c, part.cmds[1] = c, NEW s
    PROVE  RouteSingle(part, s) = Single(c, s)
<1> DEFINE l == <<c>>
           x == [cmds |-> l]
<1>1. x.cmds = l /\ l[1] = c /\ Len(l) = 1
  OBVIOUS
<1>2. Single(c, s) = RouteSingle(x, s)
  BY DEF Single
<1> HIDE DEF x, l
<1>3. RouteSingle(x, s) = RouteSingle(part, s)
  BY <1>1 DEF RouteSingle
<1> QED
  BY <1>2, <1>3

\* So is a piece from k to k.
LEMMA OneCommand ==
    ASSUME NEW line, IsList(line), NEW N \in Nat, N = Size(line), NEW k \in 1 .. N, NEW s
    PROVE  Size(Part(line, k, k)) = 1 /\ RouteSingle(Part(line, k, k), s) = Single(line.cmds[k], s)
<1> DEFINE p == SubSeq(line.cmds, k, k)
<1>1. IsCut(p, line.cmds, k, k)
  BY CommandsOf
<1>2. k - k + 1 = 1 /\ 1 \in 1 .. (k - k + 1) /\ k + 1 - 1 = k
  OBVIOUS
<1>3. Part(line, k, k).cmds = p
  BY DEF Part
<1> HIDE DEF p
<1>4. Len(p) = 1 /\ p[1] = line.cmds[k]
  BY <1>1, <1>2 DEF IsCut
<1> QED
  BY <1>3, <1>4, OfOne DEF Size

\* The two sides of the one operator.
LEMMA Sides ==
    ASSUME NEW line, IsList(line), NEW op, line.ops = <<op>>, NEW s
    PROVE  /\ Size(line) = 2 /\ Range(line.ops) = {op} /\ line.cmds[1] \in Command
           /\ RouteSingle(Left(line, op), s) = Single(line.cmds[1], s)
           /\ RouteSingle(Right(line, op), s) = Single(line.cmds[2], s)
           /\ Size(Right(line, op)) = 1
           /\ op \in {"&&", "||"} => line.cmds[2] \in Command
<1>1. Len(line.ops) = 1 /\ line.ops[1] = op /\ DOMAIN line.ops = {1}
  OBVIOUS
<1>2. Size(line) = 2
  <2>1. Size(line) = 1 + 1
    BY <1>1, ListShape DEF IsList, Size
  <2> QED
    BY <2>1
<1>3. Range(line.ops) = {op}
  BY <1>1 DEF Range
<1>4. FirstOp(line, op) = 1
  <2>1. Has(line, op)
    BY <1>3 DEF Has
  <2>2. FirstOp(line, op) \in 1 .. (2 - 1)
    BY <1>2, <2>1, FirstOpIs
  <2> QED
    BY <2>2
<1>5. Left(line, op) = Part(line, 1, 1)
  BY <1>4 DEF Left
<1>6. Right(line, op) = Part(line, 2, 2)
  BY <1>2, <1>4 DEF Right
<1>7. RouteSingle(Part(line, 1, 1), s) = Single(line.cmds[1], s)
  <2>1. 2 \in Nat /\ 1 \in 1 .. 2
    OBVIOUS
  <2> QED
    BY <1>2, <2>1, OneCommand
<1>8. Size(Part(line, 2, 2)) = 1 /\ RouteSingle(Part(line, 2, 2), s) = Single(line.cmds[2], s)
  <2>1. 2 \in Nat /\ 2 \in 1 .. 2
    OBVIOUS
  <2> QED
    BY <1>2, <2>1, OneCommand
<1>9. line.cmds[1] \in Command /\ (op \in {"&&", "||"} => line.cmds[2] \in Command)
  <2>1. \A k \in 1 .. (2 - 1) : line.ops[k] \in {";", "&&", "||"} => line.cmds[k + 1] \in Command
    BY <1>2, ListShape
  <2>2. 1 \in 1 .. (2 - 1) /\ 1 + 1 = 2
    OBVIOUS
  <2>3. op \in {"&&", "||"} => line.cmds[2] \in Command
    BY <1>1, <2>1, <2>2
  <2> QED
    BY <2>3, ListShape
<1> QED
  BY <1>2, <1>3, <1>5, <1>6, <1>7, <1>8, <1>9

\* A command that says no error and failed, or one that does and did not, is
\* not told by what it printed.
LEMMA TellsError ==
    ASSUME NEW c, NEW r, NEW o, NEW s0, Follows(r, o, s0, c.name), o.plain, TellsAnd(c, o)
    PROVE  IsError(r.out) <=> ~o.ok
<1>1. o.ok => ~IsError(r.out)
  BY DEF Follows, TellsAnd, Telling, IsError
<1>2. ~o.ok => IsError(r.out)
  BY DEF Follows, TellsAnd
<1> QED
  BY <1>1, <1>2

\* One command.
LEMMA AloneAgrees ==
    ASSUME NEW line, IsList(line), NEW s0 \in State, Size(line) = 1,
           Shell(line, s0).plain, line.kind = "list"
    PROVE  LineAgrees(Route(line, s0), Shell(line, s0))
<1> DEFINE c == line.cmds[1]
           o == ShellRuns(c, Upright(s0), s0)
<1>1. Shell(line, s0) = o
  BY DEF Shell, ShellRunsList
<1>2. \A op : ~Has(line, op)
  <2>1. DOMAIN line.ops = 1 .. (1 - 1)
    BY ListShape
  <2>2. DOMAIN line.ops = {}
    BY <2>1
  <2> QED
    BY <2>2 DEF Has, Range
<1>3. Route(line, s0) = RouteSingle(line, s0)
  BY <1>2 DEF Route, RouteList
<1>4. RouteSingle(line, s0) = Single(c, s0)
  BY OfOne DEF Size
<1>5. c \in Command
  BY ListShape
<1>6. Alike(s0, Upright(s0), s0)
  BY AlikeAtFirst
<1>7. o.plain
  BY <1>1
<1> HIDE DEF c
<1>8. Matches(Single(c, s0), o, s0)
  BY <1>5, <1>6, <1>7, MatchesRun
<1> HIDE DEF o
<1>9. LineAgrees(Single(c, s0), o)
  BY <1>8, MatchesAgrees
<1> QED
  BY <1>1, <1>3, <1>4, <1>9

\* Names differ, and so what is made of them.
LEMMA TwoNames ==
    /\ \A x, y : x # y => {x} # {y} /\ <<x>> # <<y>>
    /\ {"&&"} # {";"} /\ {"||"} # {";"} /\ <<"||">> # <<"&&">> /\ 2 # 1
<1>1. ASSUME NEW x, NEW y, x # y PROVE {x} # {y} /\ <<x>> # <<y>>
  <2>1. x \in {x} /\ x \notin {y}
    BY <1>1
  <2>2. <<x>>[1] = x /\ <<y>>[1] = y
    OBVIOUS
  <2>3. <<x>> # <<y>>
    BY <1>1, <2>2
  <2> QED
    BY <2>1, <2>3
<1>3. "&&" # ";" /\ "||" # ";" /\ "||" # "&&" /\ 2 # 1
  OBVIOUS
<1>2. {"&&"} # {";"} /\ {"||"} # {";"} /\ <<"||">> # <<"&&">>
  BY <1>1, <1>3, Zenon
<1> QED
  BY <1>1, <1>2, <1>3

\* Two commands joined by &&.
LEMMA AndAgrees ==
    ASSUME NEW line, IsList(line), NEW s0 \in State, line.ops = <<"&&">>,
           Shell(line, s0).plain, line.kind = "list"
    PROVE  LineAgrees(Route(line, s0), Shell(line, s0))
<1> DEFINE c == line.cmds[1]
           d == line.cmds[2]
           a == ShellRuns(c, Upright(s0), s0)
           b == ShellRuns(d, a.s, s0)
           r == Single(c, s0)
           q == Single(d, r.s)
           and == IF a.ok THEN Both(a, b) ELSE a
           o == [and EXCEPT !.plain = @ /\ TellsAnd(c, a)]
<1>1. /\ Size(line) = 2 /\ Range(line.ops) = {"&&"} /\ c \in Command /\ d \in Command
      /\ \A s : RouteSingle(Left(line, "&&"), s) = Single(c, s)
         /\ RouteSingle(Right(line, "&&"), s) = Single(d, s)
  BY Sides
<1>2. Shell(line, s0) = o
  <2>1. Size(line) # 1 /\ Range(line.ops) # {";"}
    BY <1>1, TwoNames
  <2>2. Shell(line, s0) = ShellRunsList(line, s0)
    BY DEF Shell
  <2> QED
    BY <2>1, <2>2 DEF ShellRunsList
<1>3. Route(line, s0) = IF IsError(r.out) THEN r ELSE Then(r, q)
  <2>1. Has(line, "&&") /\ ~Has(line, ";")
    BY <1>1 DEF Has
  <2>2. Route(line, s0) = RouteAnd(line, s0)
    BY <2>1 DEF Route, RouteList
  <2> QED
    BY <1>1, <2>2 DEF RouteAnd
<1>4. Alike(s0, Upright(s0), s0) /\ s0 \in State
  BY AlikeAtFirst
<1>5. a \in Ends
  BY <1>1, <1>4, ShellType, UprightType
<1> HIDE DEF c, d
<1>6. /\ a.s \in State
      /\ and = [s |-> and.s, lines |-> and.lines, ok |-> and.ok, plain |-> and.plain]
      /\ o.plain = (and.plain /\ TellsAnd(c, a)) /\ o.s = and.s /\ o.lines = and.lines
  BY <1>5 DEF Ends, Both, Ran
<1>7. a.plain /\ TellsAnd(c, a) /\ (a.ok => b.plain)
  <2>1. o.plain
    BY <1>2
  <2>2. Both(a, b).plain => a.plain /\ b.plain
    BY DEF Both, Ran
  <2> HIDE DEF o, a, b
  <2> QED
    BY <1>6, <2>1, <2>2
<1>8. Follows(r, a, s0, c.name)
  BY <1>1, <1>4, <1>7, CommandFollows
<1> HIDE DEF a
<1>9. IsError(r.out) <=> ~a.ok
  BY <1>7, <1>8, TellsError
<1>10. Matches(r, a, s0) /\ Alike(r.s, a.s, s0)
  BY <1>8, FollowsMatches DEF Follows
<1> HIDE DEF r
<1>11. a.ok => Matches(q, b, s0)
  BY <1>1, <1>7, <1>10, MatchesRun
<1>12. a.ok => Matches(Then(r, q), Both(a, b), s0)
  BY <1>10, <1>11, MatchesThen
<1> HIDE DEF q, b, o
<1>13. Matches(IF IsError(r.out) THEN r ELSE Then(r, q), and, s0)
  BY <1>9, <1>10, <1>12
<1>14. LineAgrees(Route(line, s0), and)
  BY <1>3, <1>13, MatchesAgrees
<1> QED
  BY <1>2, <1>6, <1>14 DEF LineAgrees

\* Two commands joined by ||.
LEMMA OrAgrees ==
    ASSUME NEW line, IsList(line), NEW s0 \in State, line.ops = <<"||">>,
           Shell(line, s0).plain, line.kind = "list"
    PROVE  LineAgrees(Route(line, s0), Shell(line, s0))
<1> DEFINE c == line.cmds[1]
           d == line.cmds[2]
           a == ShellRuns(c, Upright(s0), s0)
           b == ShellRuns(d, a.s, s0)
           r == Single(c, s0)
           q == Single(d, r.s)
           or == IF a.ok THEN a ELSE Both(a, b)
           o == [or EXCEPT !.plain = @ /\ TellsOr(c, a)]
<1>1. /\ Size(line) = 2 /\ Range(line.ops) = {"||"} /\ c \in Command /\ d \in Command
      /\ \A s : RouteSingle(Left(line, "||"), s) = Single(c, s)
         /\ RouteSingle(Right(line, "||"), s) = Single(d, s)
  BY Sides
<1>2. Shell(line, s0) = o
  <2>1. Size(line) # 1 /\ Range(line.ops) # {";"} /\ line.ops # <<"&&">>
    BY <1>1, TwoNames
  <2>2. Shell(line, s0) = ShellRunsList(line, s0)
    BY DEF Shell
  <2> QED
    BY <2>1, <2>2 DEF ShellRunsList
<1>3. Route(line, s0) = IF r.out.lines # << >> /\ ~IsError(r.out) THEN r ELSE q
  <2>1. Has(line, "||") /\ ~Has(line, ";") /\ ~Has(line, "&&")
    BY <1>1 DEF Has
  <2>2. Route(line, s0) = RouteOr(line, s0)
    BY <2>1 DEF Route, RouteList
  <2> QED
    BY <1>1, <2>2 DEF RouteOr
<1>4. Alike(s0, Upright(s0), s0) /\ s0 \in State
  BY AlikeAtFirst
<1>5. a \in Ends
  BY <1>1, <1>4, ShellType, UprightType
<1> HIDE DEF c, d
<1>6. /\ a.s \in State
      /\ o.plain = (or.plain /\ TellsOr(c, a)) /\ o.s = or.s /\ o.lines = or.lines
  BY <1>5 DEF Ends, Both, Ran
<1>7. a.plain /\ TellsOr(c, a) /\ (~a.ok => b.plain)
  <2>1. o.plain
    BY <1>2
  <2>2. Both(a, b).plain => a.plain /\ b.plain
    BY DEF Both, Ran
  <2> HIDE DEF o, a, b
  <2> QED
    BY <1>6, <2>1, <2>2
<1>8. Follows(r, a, s0, c.name)
  BY <1>1, <1>4, <1>7, CommandFollows
<1> HIDE DEF a, r
<1>9. (r.out.lines # << >> /\ ~IsError(r.out)) <=> a.ok
  <2>1. a.ok => r.out.lines # << >> /\ ~IsError(r.out)
    BY <1>7, <1>8 DEF Follows, TellsOr, Telling, IsError
  <2>2. ~a.ok => r.out.lines = << >> \/ IsError(r.out)
    BY <1>8 DEF Follows
  <2> QED
    BY <2>1, <2>2
<1>10. Matches(r, a, s0) /\ Alike(r.s, a.s, s0) /\ (~a.ok => a.lines = << >>)
  BY <1>8, FollowsMatches DEF Follows
<1>11. ~a.ok => Matches(q, b, s0)
  BY <1>1, <1>7, <1>10, MatchesRun
<1> HIDE DEF q, b, o
<1>12. ~a.ok => Matches(q, Both(a, b), s0)
  <2> SUFFICES ASSUME ~a.ok PROVE Matches(q, Both(a, b), s0)
    OBVIOUS
  <2>1. b.lines \in Seq(Seq(Nat))
    BY <1>11 DEF Matches
  <2>2. << >> \o b.lines = b.lines
    BY <2>1, ConcatEmptySeq
  <2>3. Both(a, b).s = b.s /\ Both(a, b).lines = b.lines
    BY <1>10, <2>2 DEF Both, Ran
  <2> QED
    BY <1>11, <2>3 DEF Matches
<1>13. Matches(IF r.out.lines # << >> /\ ~IsError(r.out) THEN r ELSE q, or, s0)
  BY <1>9, <1>10, <1>12
<1>14. LineAgrees(Route(line, s0), or)
  BY <1>3, <1>13, MatchesAgrees
<1> QED
  BY <1>2, <1>6, <1>14 DEF LineAgrees

\* A command redirected to the file, or appended to it.
LEMMA RedirectAgrees ==
    ASSUME NEW line, IsList(line), NEW s0 \in State, NEW op \in {">", ">>"}, line.ops = <<op>>,
           Shell(line, s0).plain, line.kind = "list"
    PROVE  LineAgrees(Route(line, s0), Shell(line, s0))
<1> DEFINE c == line.cmds[1]
           a == ShellRuns(c, Upright(s0), s0)
           r == Single(c, s0)
           held == IF op = ">" \/ a.s.file = Absent THEN << >> ELSE a.s.file.lines
           bare == op = ">>" /\ a.s.file # Absent /\ ~a.s.file.ended
           t == Ended(held \o a.lines)
           plain == a.plain /\ a.ok /\ ~bare /\ c.name \notin {"cat", "rm"}
           u == IF op = ">" \/ r.s.file = Absent THEN r.out ELSE Concat(r.s.file, r.out)
<1>1. /\ Size(line) = 2 /\ Range(line.ops) = {op} /\ c \in Command
      /\ RouteSingle(Left(line, op), s0) = r /\ Size(Right(line, op)) = 1
  BY Sides
<1>2. Shell(line, s0) = Ran([a.s EXCEPT !.file = t], << >>, a.ok, plain)
  <2>1. /\ Size(line) # 1 /\ Range(line.ops) # {";"} /\ line.ops # <<"&&">> /\ line.ops # <<"||">>
        /\ line.ops \in {<<">">>, <<">>">>} /\ line.ops[1] = op
    <3>1. op # ";" /\ op # "&&" /\ op # "||"
      OBVIOUS
    <3>2. Size(line) # 1 /\ Range(line.ops) # {";"} /\ line.ops # <<"&&">> /\ line.ops # <<"||">>
      BY <1>1, <3>1, TwoNames
    <3>3. line.ops[1] = op
      OBVIOUS
    <3>4. line.ops \in {<<">">>, <<">>">>}
      OBVIOUS
    <3> QED
      BY <3>2, <3>3, <3>4
  <2>2. Shell(line, s0) = ShellRunsList(line, s0)
    BY DEF Shell
  <2>3. Shell(line, s0) = ShellRedirects(line, s0)
    BY <2>1, <2>2 DEF ShellRunsList
  <2> QED
    BY <2>1, <2>3 DEF ShellRedirects
<1>3. Route(line, s0) = Answer([r.s EXCEPT !.file = u], NoText)
  <2>1. Has(line, op) /\ ~Has(line, ";") /\ ~Has(line, "&&") /\ ~Has(line, "||") /\ ~Has(line, "|")
        /\ (op = ">" => ~Has(line, ">>"))
    BY <1>1 DEF Has
  <2>2. Route(line, s0) = RouteList(line, s0)
    BY DEF Route
  <2>3. RouteList(line, s0) = RouteRedirect(line, op, s0)
    BY <2>1 DEF RouteList
  <2>4. RouteRedirect(line, op, s0) = Answer(IF op = ">" THEN RedirectWrite(r.out, r.s)
                                             ELSE RedirectAppend(r.out, r.s), NoText)
    BY <1>1 DEF RouteRedirect
  <2>5. (IF op = ">" THEN RedirectWrite(r.out, r.s)
         ELSE RedirectAppend(r.out, r.s)) = [r.s EXCEPT !.file = u]
    BY DEF RedirectWrite, RedirectAppend
  <2> QED
    BY <2>2, <2>3, <2>4, <2>5
<1>4. Alike(s0, Upright(s0), s0)
  BY AlikeAtFirst
<1> HIDE DEF c
<1>5. a.plain /\ a.ok /\ ~bare
  <2>1. plain
    <3> HIDE DEF plain, a, t
    <3> QED
      BY <1>2 DEF Ran
  <2> HIDE DEF a, bare
  <2> QED
    BY <2>1
<1>6. Follows(r, a, s0, c.name)
  BY <1>1, <1>4, <1>5, CommandFollows
<1> HIDE DEF a, r
<1>7. /\ Alike(r.s, a.s, s0) /\ r.out \in Text /\ r.out.lines = a.lines /\ r.s.file = a.s.file
      /\ r.s \in State /\ r.s.file \in Text \cup {Absent} /\ a.s \in State
  BY <1>5, <1>6, StateFields DEF Follows, Answers, Alike
<1>8. u \in Text /\ u.lines = held \o a.lines
  <2>1. CASE op = ">" \/ r.s.file = Absent
    <3>1. a.lines \in Seq(Seq(Nat))
      BY <1>6 DEF Follows
    <3>2. << >> \o a.lines = a.lines
      BY <3>1, ConcatEmptySeq
    <3> QED
      BY <1>7, <2>1, <3>2
  <2>2. CASE op = ">>" /\ r.s.file # Absent
    <3> DEFINE f == r.s.file
    <3>1. f \in Text /\ f.ended /\ held = f.lines /\ u = Concat(f, r.out)
      BY <1>5, <1>7, <2>2
    <3> HIDE DEF f, u
    <3>2. Concat(f, r.out).lines = f.lines \o r.out.lines
      BY <3>1 DEF Concat
    <3>3. Concat(f, r.out) \in Text
      BY <1>7, <3>1, ConcatType
    <3> QED
      BY <1>7, <3>1, <3>2, <3>3
  <2> QED
    BY <2>1, <2>2
<1>9. t \in Text /\ t.lines = held \o a.lines
  <2>1. u.lines \in Seq(Seq(Nat))
    <3> HIDE DEF u
    <3> QED
      BY <1>8, LinesOf
  <2>2. held \o a.lines \in Seq(Seq(Nat))
    BY <1>8, <2>1
  <2> HIDE DEF held
  <2> QED
    BY <2>2 DEF Ended, Text
<1> HIDE DEF t, u, held, plain
<1> DEFINE S == [r.s EXCEPT !.file = u]
           D == [a.s EXCEPT !.file = t]
<1>10. Absent \notin Text
  BY Consts
<1>11. S.cwd = r.s.cwd /\ S.file = u /\ D.env = a.s.env /\ D.cwd = a.s.cwd /\ D.file = t
  BY <1>7, <1>8, <1>9, SetsFile
<1>12. UpdateFromCommand(S).env = UpdateFromCommand(r.s).env
  <2>1. S \in State /\ S.env = r.s.env
    BY <1>7, <1>8, SetsFile
  <2>2. UpdateFromCommand(S).env = [S.env EXCEPT !["PWD"] = S.cwd]
    BY <2>1, UpdateType
  <2>3. UpdateFromCommand(r.s).env = [r.s.env EXCEPT !["PWD"] = r.s.cwd]
    BY <1>7, UpdateType
  <2> HIDE DEF S
  <2> QED
    BY <1>11, <2>1, <2>2, <2>3
<1>13. UpdateFromCommand(r.s).env = a.s.env /\ r.s.cwd = a.s.cwd
  BY <1>7, UpdatedAlike
<1> HIDE DEF S, D
<1>14. LineAgrees(Answer(S, NoText), Ran(D, << >>, a.ok, plain))
  BY <1>8, <1>9, <1>10, <1>11, <1>12, <1>13, SaidIs DEF LineAgrees, Answer, Ran
<1> QED
  BY <1>2, <1>3, <1>14 DEF S, D, plain

-----------------------------------------------------------------------------
(* ";" in the decoy and in a shell.                                          *)

\* Two commands in a shell, as one.
LEMMA BothType ==
    ASSUME NEW a \in Ends, NEW b \in Ends
    PROVE  Both(a, b) \in Ends
<1>1. b.s \in State /\ a.lines \in Prints /\ b.lines \in Prints /\ b.ok \in BOOLEAN
  BY DEF Ends
<1>2. a.lines \o b.lines \in Prints
  BY <1>1, ConcatProperties DEF Prints
<1> DEFINE p == a.plain /\ b.plain
<1>3. p \in BOOLEAN
  OBVIOUS
<1>4. Both(a, b) = Ran(b.s, a.lines \o b.lines, b.ok, p)
  BY DEF Both
<1> HIDE DEF p
<1> QED
  BY <1>1, <1>2, <1>3, <1>4, RanType

\* Plain together, plain each.
LEMMA BothPlain ==
    ASSUME NEW a, NEW b, Both(a, b).plain
    PROVE  a.plain /\ b.plain
BY DEF Both, Ran

\* One more command in a shell.
LEMMA BothRuns ==
    ASSUME NEW c \in Command, NEW a \in Ends, NEW s0
    PROVE  Both(a, ShellRuns(c, a.s, s0)) \in Ends
<1>1. a.s \in State
  BY DEF Ends
<1> QED
  BY <1>1, ShellType, BothType

IsRow(line) == IsList(line) /\ \A k \in 1 .. Size(line) : line.cmds[k] \in Command

\* A shell that has run nothing.
LEMMA NothingRan ==
    ASSUME NEW s \in State, NEW p \in BOOLEAN
    PROVE  Ran(s, << >>, TRUE, p) \in Ends
BY OneLine, RanType

\* ';' in a shell, one command after another.
LEMMA ShellAllSteps ==
    ASSUME NEW line, IsRow(line), NEW s0 \in State
    PROVE  \E g : /\ g[0] = Ran(Upright(s0), << >>, TRUE, TRUE) /\ g[0] \in Ends
                  /\ \A i \in 1 .. Size(line) : g[i - 1] \in Ends =>
                          g[i] = Both(g[i - 1], ShellRuns(line.cmds[i], g[i - 1].s, s0))
                  /\ ShellRunsAll(line, s0) = g[Size(line)]
<1> DEFINE N == Size(line)
           A == Ends
           iter == CHOOSE iter : iter = [s \in SUBSET (1 .. N) |->
                      IF s = {} THEN Ran(Upright(s0), << >>, TRUE, TRUE)
                      ELSE Both(iter[s \ {Max(s)}], ShellRuns(line.cmds[Max(s)], iter[s \ {Max(s)}].s, s0))]
           step == [p \in A \X (1 .. N) |-> Both(p[1], ShellRuns(line.cmds[p[2]], p[1].s, s0))]
<1>1. N \in Nat
  BY ListShape DEF IsRow
<1>2. ShellRunsAll(line, s0) = iter[1 .. N]
  <2>1. DOMAIN line.cmds = 1 .. N
    BY ListShape DEF IsRow
  <2> HIDE DEF N
  <2> QED
    BY <2>1 DEF ShellRunsAll, FoldLeft, MapThenFoldSet
<1>3. step \in [A \X (1 .. N) -> A]
  <2>1. \A a \in Ends : \A i \in 1 .. N : Both(a, ShellRuns(line.cmds[i], a.s, s0)) \in Ends
    BY BothRuns DEF IsRow
  <2> HIDE DEF N
  <2> QED
    BY <2>1
<1>4. Ran(Upright(s0), << >>, TRUE, TRUE) \in A
  BY NothingRan, UprightType
<1>5. \E f \in [SUBSET (1 .. N) -> A] : IsFold(f, N, Ran(Upright(s0), << >>, TRUE, TRUE), step)
  <2>1. N \in Nat
    BY <1>1
  <2> HIDE DEF step, N, iter, A
  <2> QED
    BY ONLY <2>1, <1>3, <1>4, FoldExists
<1>6. PICK f \in [SUBSET (1 .. N) -> A] : IsFold(f, N, Ran(Upright(s0), << >>, TRUE, TRUE), step)
  BY <1>5
<1>7. f = [s \in SUBSET (1 .. N) |->
                      IF s = {} THEN Ran(Upright(s0), << >>, TRUE, TRUE)
                      ELSE Both(f[s \ {Max(s)}], ShellRuns(line.cmds[Max(s)], f[s \ {Max(s)}].s, s0))]
  <2>1. ASSUME NEW s \in SUBSET (1 .. N), s # {}
        PROVE  step[<<f[s \ {Max(s)}], Max(s)>>] =
                   Both(f[s \ {Max(s)}], ShellRuns(line.cmds[Max(s)], f[s \ {Max(s)}].s, s0))
    <3>1. Max(s) \in 1 .. N
      BY <1>1, <2>1, MaxIn
    <3>2. f[s \ {Max(s)}] \in A
      OBVIOUS
    <3> HIDE DEF A, N
    <3> QED
      BY <3>1, <3>2
  <2> HIDE DEF step, A, N
  <2> QED
    BY <1>6, <2>1 DEF IsFold
<1>8. iter = [s \in SUBSET (1 .. N) |->
                      IF s = {} THEN Ran(Upright(s0), << >>, TRUE, TRUE)
                      ELSE Both(iter[s \ {Max(s)}], ShellRuns(line.cmds[Max(s)], iter[s \ {Max(s)}].s, s0))]
  BY <1>7, Zenon
<1> HIDE DEF iter, step, N
<1> DEFINE g == [i \in 0 .. N |-> iter[1 .. i]]
<1>9. g[0] = Ran(Upright(s0), << >>, TRUE, TRUE)
  <2>1. 1 .. 0 = {} /\ {} \in SUBSET (1 .. N) /\ 0 \in 0 .. N
    BY <1>1
  <2> HIDE DEF A
  <2> QED
    BY <1>8, <2>1
<1>10. ASSUME NEW i \in 1 .. N
      PROVE  g[i] = Both(g[i - 1], ShellRuns(line.cmds[i], g[i - 1].s, s0))
  <2>1. i \in 0 .. N /\ i - 1 \in 0 .. N
    BY <1>1
  <2>2. 1 .. i \in SUBSET (1 .. N) /\ 1 .. i # {} /\ Max(1 .. i) = i /\ (1 .. i) \ {i} = 1 .. (i - 1)
    BY <1>1, Intervals
  <2>3. iter[1 .. i] = Both(iter[1 .. (i - 1)], ShellRuns(line.cmds[i], iter[1 .. (i - 1)].s, s0))
    BY <1>8, <2>2, Zenon
  <2>4. g[i] = iter[1 .. i] /\ g[i - 1] = iter[1 .. (i - 1)]
    BY <2>1
  <2> HIDE DEF g
  <2> QED
    BY <2>3, <2>4, Zenon
<1>11. ShellRunsAll(line, s0) = g[N]
  BY <1>1, <1>2
<1> HIDE DEF g
<1> QED
  BY <1>4, <1>9, <1>10, <1>11 DEF N, A

\* The list of all places, and the last one of them.
LEMMA Identity ==
    ASSUME NEW N \in Nat
    PROVE  /\ \A k : k \in 1 .. N /\ N >= 1 <=> k \in 1 .. (N - 1) \/ (k = N /\ N >= 1)
           /\ [k \in 1 .. N |-> k] \in [1 .. N -> Nat]
           /\ Increasing([k \in 1 .. N |-> k], N) /\ Image([k \in 1 .. N |-> k], N) = 1 .. N
<1>1. \A k : k \in 1 .. N /\ N >= 1 <=> k \in 1 .. (N - 1) \/ (k = N /\ N >= 1)
  OBVIOUS
<1>2. [k \in 1 .. N |-> k] \in [1 .. N -> Nat]
  OBVIOUS
<1>3. Increasing([k \in 1 .. N |-> k], N)
  BY DEF Increasing
<1>4. Image([k \in 1 .. N |-> k], N) = 1 .. N
  BY DEF Image
<1> QED
  BY <1>1, <1>2, <1>3, <1>4

\* Two runs of steps that keep a relation end in it.
LEMMA Lockstep ==
    ASSUME NEW N \in Nat, NEW g, NEW h, NEW R, <<g[0], h[0]>> \in R,
           \A i \in 1 .. N : <<g[i - 1], h[i - 1]>> \in R => <<g[i], h[i]>> \in R
    PROVE  <<g[N], h[N]>> \in R
<1> DEFINE P == {i \in 0 .. N : <<g[i], h[i]>> \in R}
<1>1. 0 \in P
  OBVIOUS
<1>2. \A k \in 1 .. N : k - 1 \in P => k \in P
  OBVIOUS
<1> HIDE DEF P
<1>3. \A k \in 0 .. N : k \in P
  BY <1>1, <1>2, StepByStep
<1>4. N \in 0 .. N
  OBVIOUS
<1> QED
  BY <1>3, <1>4 DEF P

\* Where one operator stands between the commands, each is a piece of its own.
LEMMA UniformEnds ==
    ASSUME NEW line, IsList(line), NEW op, Range(line.ops) = {op}, NEW N \in Nat, N = Size(line)
    PROVE  /\ {k \in DOMAIN line.ops : line.ops[k] = op} \cup {N} = 1 .. N
           /\ \A k \in 1 .. (N - 1) : line.ops[k] = op
<1>1. N >= 1 /\ DOMAIN line.ops = 1 .. (N - 1)
  BY ListShape
<1>2. \A k \in DOMAIN line.ops : line.ops[k] = op
  <2>1. \A k \in DOMAIN line.ops : line.ops[k] \in Range(line.ops)
    BY DEF Range
  <2> QED
    BY <2>1
<1> DEFINE D == DOMAIN line.ops
           B == {k \in DOMAIN line.ops : line.ops[k] = op}
<1>3. B = D
  BY <1>2
<1>4. \A k : k \in 1 .. N /\ N >= 1 <=> k \in 1 .. (N - 1) \/ (k = N /\ N >= 1)
  BY Identity
<1>5. D = 1 .. (N - 1)
  BY <1>1
<1> HIDE DEF D, B
<1>6. B \cup {N} = 1 .. N
  <2>1. \A k : k \in B \cup {N} <=> k \in 1 .. (N - 1) \/ k = N
    BY <1>3, <1>5, Zenon
  <2>2. \A k : k \in B \cup {N} <=> k \in 1 .. N
    BY <1>1, <1>4, <2>1, Zenon
  <2> QED
    BY <2>2, Zenon
<1> QED
  BY <1>1, <1>2, <1>6 DEF B, D

\* So the pieces are the commands.
LEMMA UniformPieces ==
    ASSUME NEW line, IsList(line), NEW op, Range(line.ops) = {op}, NEW N \in Nat, N = Size(line)
    PROVE  /\ Len(Pieces(line, op)) = N /\ DOMAIN Pieces(line, op) = 1 .. N
           /\ Pieces(line, op) \in Seq(Range(Pieces(line, op)))
           /\ \A k \in 1 .. N : Pieces(line, op)[k] = Part(line, k, k)
<1> DEFINE T == {k \in DOMAIN line.ops : line.ops[k] = op} \cup {N}
           p == [k \in 1 .. N |-> k]
           ends == Ascending(T)
<1>1. N >= 1
  BY ListShape
<1>2. T = 1 .. N
  BY UniformEnds
<1>3. p \in [1 .. N -> Nat] /\ Increasing(p, N) /\ Image(p, N) = 1 .. N
  BY Identity
<1> HIDE DEF p, T
<1>4. ends = p
  BY <1>2, <1>3, Enumerated
<1>5. \A k \in 1 .. N : ends[k] = k
  BY <1>4 DEF p
<1>6. DOMAIN ends = 1 .. N
  BY <1>3, <1>4
<1> HIDE DEF ends
<1> DEFINE P == Pieces(line, op)
<1>7. P = [k \in 1 .. N |-> Part(line, IF k = 1 THEN 1 ELSE ends[k - 1] + 1, ends[k])]
  BY <1>6 DEF Pieces, ends, T
<1> HIDE DEF P
<1>8. P \in [1 .. N -> Range(P)]
  BY <1>7 DEF Range
<1>9. Len(P) = N /\ DOMAIN P = 1 .. N /\ P \in Seq(Range(P))
  BY <1>8, Counted
<1>10. ASSUME NEW k \in 1 .. N PROVE P[k] = Part(line, k, k)
  <2>1. CASE k = 1
    BY <1>5, <1>7, <2>1
  <2>2. CASE k # 1
    <3>1. k - 1 \in 1 .. N /\ (k - 1) + 1 = k
      BY <2>2, Before
    <3>2. ends[k - 1] = k - 1 /\ ends[k] = k
      BY <1>5, <3>1
    <3> QED
      BY <1>7, <2>2, <3>1, <3>2
  <2> QED
    BY <2>1, <2>2
<1> QED
  BY <1>9, <1>10 DEF P

\* So are those of a sequence.
LEMMA RowPieces ==
    ASSUME NEW line, IsList(line), Range(line.ops) = {";"}, NEW N \in Nat, N = Size(line)
    PROVE  /\ IsRow(line) /\ Len(Pieces(line, ";")) = N
           /\ \A k \in 1 .. N : \A s : RouteSingle(Pieces(line, ";")[k], s) = Single(line.cmds[k], s)
<1> DEFINE P == Pieces(line, ";")
<1>1. Len(P) = N /\ \A k \in 1 .. N : P[k] = Part(line, k, k)
  BY UniformPieces
<1>2. \A k \in 1 .. (N - 1) : line.ops[k] = ";"
  BY UniformEnds
<1> HIDE DEF P
<1>3. ASSUME NEW k \in 1 .. N, NEW s PROVE RouteSingle(P[k], s) = Single(line.cmds[k], s)
  <2>1. P[k] = Part(line, k, k)
    BY <1>1
  <2>2. RouteSingle(Part(line, k, k), s) = Single(line.cmds[k], s)
    BY OneCommand
  <2> QED
    BY <2>1, <2>2
<1>4. ASSUME NEW k \in 1 .. N PROVE line.cmds[k] \in Command
  <2>0. /\ line.cmds[1] \in Command
        /\ \A i \in 1 .. (N - 1) : line.ops[i] \in {";", "&&", "||"} => line.cmds[i + 1] \in Command
    BY ListShape
  <2>1. CASE k = 1
    BY <2>0, <2>1
  <2>2. CASE k # 1
    <3> DEFINE j == k - 1
    <3>1. j \in 1 .. (N - 1) /\ j + 1 = k
      BY <2>2, Before
    <3> HIDE DEF j
    <3> QED
      BY <1>2, <2>0, <3>1
  <2> QED
    BY <2>1, <2>2
<1> QED
  BY <1>1, <1>3, <1>4 DEF IsRow, P

\* One more command, on either side.
LEMMA RowStep ==
    ASSUME NEW c \in Command, NEW a \in Answers, NEW x \in Ends, NEW s0, x.plain => Matches(a, x, s0),
           Both(x, ShellRuns(c, x.s, s0)).plain
    PROVE  Matches(Then(a, Single(c, a.s)), Both(x, ShellRuns(c, x.s, s0)), s0)
<1> DEFINE o == ShellRuns(c, x.s, s0)
           r == Single(c, a.s)
<1>1. x.plain /\ o.plain
  BY BothPlain
<1>2. Matches(a, x, s0)
  BY <1>1
<1>3. Alike(a.s, x.s, s0)
  BY <1>2 DEF Matches
<1>4. Matches(r, o, s0)
  BY <1>1, <1>3, MatchesRun
<1> HIDE DEF o, r
<1>5. Matches(Then(a, r), Both(x, o), s0)
  BY <1>2, <1>4, MatchesThen
<1> QED
  BY <1>5 DEF o, r

\* Any number of commands joined by ";", in step.
LEMMA SequenceMatches ==
    ASSUME NEW line, IsList(line), NEW s0 \in State, Range(line.ops) = {";"}, ShellRunsAll(line, s0).plain
    PROVE  Matches(RouteSequence(line, s0), ShellRunsAll(line, s0), s0)
<1> DEFINE N == Size(line)
           R == {q \in Answers \X Ends : q[2].plain => Matches(q[1], q[2], s0)}
<1>1. N \in Nat
  BY ListShape
<1>2. /\ IsRow(line) /\ Len(Pieces(line, ";")) = N
      /\ \A k \in 1 .. N : \A s : RouteSingle(Pieces(line, ";")[k], s) = Single(line.cmds[k], s)
  BY <1>1, RowPieces
<1>3. s0 \in State
  OBVIOUS
<1>4. PICK g : /\ g[0] = Answer(s0, NoText) /\ g[0] \in Answers
               /\ \A i \in 1 .. N : g[i - 1] \in Answers =>
                       g[i] = Then(g[i - 1], RouteSingle(Pieces(line, ";")[i], g[i - 1].s))
               /\ RouteSequence(line, s0) = g[N]
  BY <1>2, <1>3, SequenceSteps
<1>5. PICK h : /\ h[0] = Ran(Upright(s0), << >>, TRUE, TRUE) /\ h[0] \in Ends
               /\ \A i \in 1 .. N : h[i - 1] \in Ends =>
                       h[i] = Both(h[i - 1], ShellRuns(line.cmds[i], h[i - 1].s, s0))
               /\ ShellRunsAll(line, s0) = h[N]
  BY <1>2, <1>3, ShellAllSteps
<1>6. \A i \in 1 .. N : line.cmds[i] \in Command
  BY <1>2 DEF IsRow
<1> HIDE DEF N
<1>7. /\ \A a \in Answers, x \in Ends : (x.plain => Matches(a, x, s0)) => <<a, x>> \in R
      /\ \A a, x : <<a, x>> \in R => a \in Answers /\ x \in Ends /\ (x.plain => Matches(a, x, s0))
  OBVIOUS
<1> HIDE DEF R
<1>8. <<g[0], h[0]>> \in R
  BY <1>4, <1>5, <1>7, AlikeAtFirst
<1>9. ASSUME NEW i \in 1 .. N, <<g[i - 1], h[i - 1]>> \in R
      PROVE  <<g[i], h[i]>> \in R
  <2> DEFINE a == g[i - 1]
             x == h[i - 1]
             c == line.cmds[i]
  <2>1. a \in Answers /\ x \in Ends /\ (x.plain => Matches(a, x, s0))
    BY <1>7, <1>9
  <2>2. g[i] = Then(a, Single(c, a.s)) /\ h[i] = Both(x, ShellRuns(c, x.s, s0))
    BY <1>2, <1>4, <1>5, <2>1
  <2>3. c \in Command
    BY <1>6
  <2> HIDE DEF a, x, c
  <2>4. Both(x, ShellRuns(c, x.s, s0)) \in Ends
    BY <1>3, <2>1, <2>3, BothRuns
  <2>5. Then(a, Single(c, a.s)) \in Answers
    <3>1. a.s \in State
      BY <2>1 DEF Answers
    <3>2. Single(c, a.s) \in Answers
      BY <2>3, <3>1, OneType
    <3> QED
      BY <2>1, <3>2, ThenType
  <2>6. h[i].plain => Matches(g[i], h[i], s0)
    BY <2>1, <2>2, <2>3, RowStep
  <2> QED
    BY <1>7, <2>2, <2>4, <2>5, <2>6
<1>10. <<g[N], h[N]>> \in R
  BY <1>1, <1>8, <1>9, Lockstep
<1>11. h[N].plain => Matches(g[N], h[N], s0)
  BY <1>7, <1>10
<1> QED
  BY <1>4, <1>5, <1>11

\* Any number of commands joined by ";".
LEMMA SequenceAgrees ==
    ASSUME NEW line, IsList(line), NEW s0 \in State, Range(line.ops) = {";"}, Size(line) # 1,
           Shell(line, s0).plain, line.kind = "list"
    PROVE  LineAgrees(Route(line, s0), Shell(line, s0))
<1>1. Shell(line, s0) = ShellRunsAll(line, s0)
  BY DEF Shell, ShellRunsList
<1>2. Route(line, s0) = RouteSequence(line, s0)
  BY DEF Route, RouteList, Has
<1> QED
  BY <1>1, <1>2, SequenceMatches, MatchesAgrees

-----------------------------------------------------------------------------
(* The for loop of the decoy and of a shell.                                 *)

\* A command is refused or run.
LEMMA SingleForm ==
    ASSUME NEW c, NEW s
    PROVE  Single(c, s) = IF Refused(c, s) THEN Answer([s EXCEPT !.sudo = TRUE], Says(SudoSays))
                          ELSE Run(c, s)
<1> DEFINE l == <<c>>
           x == [cmds |-> l]
<1>1. x.cmds = l /\ l[1] = c /\ Len(l) = 1
  OBVIOUS
<1>2. Single(c, s) = RouteSingle(x, s)
  BY DEF Single
<1> HIDE DEF x, l
<1> QED
  BY <1>1, <1>2 DEF RouteSingle

\* The item put in the place of the variable, and the variable that holds it.
LEMMA BoundSays ==
    ASSUME NEW c \in Command, NEW v \in Variables, NEW item \in Nat, NEW s \in State, s.env[v] = item
    PROVE  Single(Bound(c, v, item), s) = Single(c, s)
<1>1. CASE ~(c.name = "echo $" /\ c.var = v)
  BY <1>1 DEF Bound
<1>2. CASE c.name = "echo $" /\ c.var = v
  <2> DEFINE b == [c EXCEPT !.name = "echo", !.arg = item]
  <2>1. Bound(c, v, item) = b
    BY <1>2 DEF Bound
  <2>2. b.name = "echo" /\ b.arg = item /\ b.sudo = c.sudo
    BY DEF Command
  <2> HIDE DEF b
  <2>3. Run(b, s) = Answer(s, Says(item))
    BY <2>2, Runs
  <2>4. Run(c, s) = Answer(s, Says(item))
    <3>1. s.env[c.var] = item /\ item # Unset
      BY <1>2, Consts
    <3>2. Run(c, s) = Answer(s, Says(IF s.env[c.var] = Unset THEN Jumble ELSE s.env[c.var]))
      BY <1>2, Runs
    <3> QED
      BY <3>1, <3>2
  <2>5. Refused(b, s) <=> Refused(c, s)
    BY <2>2 DEF Refused
  <2> QED
    BY <2>1, <2>3, <2>4, <2>5, SingleForm
<1> QED
  BY <1>1, <1>2

ShellItem(line, x, i, s0) ==
    Both(x, ShellRuns(line.body, [x.s EXCEPT !.env[line.var] = line.items[i]], s0))

\* An item is a value.
LEMMA ItemOf ==
    ASSUME NEW line, IsFor(line), NEW i \in 1 .. Len(line.items)
    PROVE  line.items[i] \in Nat /\ line.items[i] \in Values
<1>1. line.items \in Seq(Nat)
  BY DEF IsFor
<1> QED
  BY <1>1, SeqShape DEF Values

\* One more item in a shell.
LEMMA ShellItemRuns ==
    ASSUME NEW line, IsFor(line), NEW x \in Ends, NEW i \in 1 .. Len(line.items), NEW s0
    PROVE  ShellItem(line, x, i, s0) \in Ends
<1> DEFINE y == line.items[i]
<1>1. x.s \in State /\ y \in Values /\ line.var \in Variables /\ line.body \in Command
  BY ItemOf DEF IsFor, Ends
<1> HIDE DEF y
<1>2. [x.s EXCEPT !.env[line.var] = y] \in State
  BY <1>1, SetsVariable
<1>3. ShellRuns(line.body, [x.s EXCEPT !.env[line.var] = y], s0) \in Ends
  BY <1>1, <1>2, ShellType
<1> QED
  BY <1>3, BothType DEF ShellItem, y

\* The loops of a shell that may be plain.
ForPlain(line) == line.var # "PWD" /\ Len(line.items) <= LoopCap

\* A loop in a shell before its first item.
LEMMA NoTurnYet ==
    ASSUME NEW line, NEW s \in State
    PROVE  Ran(s, << >>, TRUE, ForPlain(line)) \in Ends
<1>1. ForPlain(line) \in BOOLEAN
  BY DEF ForPlain
<1> QED
  BY <1>1, NothingRan

\* A for loop in a shell, one item after another.
LEMMA ShellForSteps ==
    ASSUME NEW line, IsFor(line), NEW s0 \in State
    PROVE  \E g : /\ g[0] = Ran(Upright(s0), << >>, TRUE, ForPlain(line)) /\ g[0] \in Ends
                  /\ \A i \in 1 .. Len(line.items) : g[i - 1] \in Ends =>
                          g[i] = ShellItem(line, g[i - 1], i, s0)
                  /\ ShellRunsFor(line, s0) = g[Len(line.items)]
<1> DEFINE N == Len(line.items)
           A == Ends
           iter == CHOOSE iter : iter = [s \in SUBSET (1 .. N) |->
                      IF s = {} THEN Ran(Upright(s0), << >>, TRUE, ForPlain(line))
                      ELSE ShellItem(line, iter[s \ {Max(s)}], Max(s), s0)]
           step == [p \in A \X (1 .. N) |-> ShellItem(line, p[1], p[2], s0)]
<1>1. N \in Nat
  BY SeqShape DEF IsFor
<1>2. ShellRunsFor(line, s0) = iter[1 .. N]
  <2>1. DOMAIN line.items = 1 .. N
    BY SeqShape DEF IsFor
  <2> HIDE DEF N
  <2> QED
    BY <2>1 DEF ShellRunsFor, ForPlain, ShellItem, FoldLeft, MapThenFoldSet
<1>3. step \in [A \X (1 .. N) -> A]
  <2>1. \A a \in Ends : \A i \in 1 .. N : ShellItem(line, a, i, s0) \in Ends
    BY ShellItemRuns
  <2> HIDE DEF N
  <2> QED
    BY <2>1
<1>4. Ran(Upright(s0), << >>, TRUE, ForPlain(line)) \in A
  BY NoTurnYet, UprightType
<1>5. \E f \in [SUBSET (1 .. N) -> A] : IsFold(f, N, Ran(Upright(s0), << >>, TRUE, ForPlain(line)), step)
  <2>1. N \in Nat
    BY <1>1
  <2> HIDE DEF step, N, iter, A
  <2> QED
    BY ONLY <2>1, <1>3, <1>4, FoldExists
<1>6. PICK f \in [SUBSET (1 .. N) -> A] : IsFold(f, N, Ran(Upright(s0), << >>, TRUE, ForPlain(line)), step)
  BY <1>5
<1>7. f = [s \in SUBSET (1 .. N) |->
                      IF s = {} THEN Ran(Upright(s0), << >>, TRUE, ForPlain(line))
                      ELSE ShellItem(line, f[s \ {Max(s)}], Max(s), s0)]
  <2>1. ASSUME NEW s \in SUBSET (1 .. N), s # {}
        PROVE  step[<<f[s \ {Max(s)}], Max(s)>>] = ShellItem(line, f[s \ {Max(s)}], Max(s), s0)
    <3>1. Max(s) \in 1 .. N
      BY <1>1, <2>1, MaxIn
    <3>2. f[s \ {Max(s)}] \in A
      OBVIOUS
    <3> HIDE DEF A, N
    <3> QED
      BY <3>1, <3>2
  <2> HIDE DEF step, A, N
  <2> QED
    BY <1>6, <2>1 DEF IsFold
<1>8. iter = [s \in SUBSET (1 .. N) |->
                      IF s = {} THEN Ran(Upright(s0), << >>, TRUE, ForPlain(line))
                      ELSE ShellItem(line, iter[s \ {Max(s)}], Max(s), s0)]
  BY <1>7, Zenon
<1> HIDE DEF iter, step, N
<1> DEFINE g == [i \in 0 .. N |-> iter[1 .. i]]
<1>9. g[0] = Ran(Upright(s0), << >>, TRUE, ForPlain(line))
  <2>1. 1 .. 0 = {} /\ {} \in SUBSET (1 .. N) /\ 0 \in 0 .. N
    BY <1>1
  <2> HIDE DEF A
  <2> QED
    BY <1>8, <2>1
<1>10. ASSUME NEW i \in 1 .. N
      PROVE  g[i] = ShellItem(line, g[i - 1], i, s0)
  <2>1. i \in 0 .. N /\ i - 1 \in 0 .. N
    BY <1>1
  <2>2. 1 .. i \in SUBSET (1 .. N) /\ 1 .. i # {} /\ Max(1 .. i) = i /\ (1 .. i) \ {i} = 1 .. (i - 1)
    BY <1>1, Intervals
  <2>3. iter[1 .. i] = ShellItem(line, iter[1 .. (i - 1)], i, s0)
    BY <1>8, <2>2, Zenon
  <2>4. g[i] = iter[1 .. i] /\ g[i - 1] = iter[1 .. (i - 1)]
    BY <2>1
  <2> HIDE DEF g
  <2> QED
    BY <2>3, <2>4, Zenon
<1>11. ShellRunsFor(line, s0) = g[N]
  BY <1>1, <1>2
<1> HIDE DEF g
<1> QED
  BY <1>4, <1>9, <1>10, <1>11 DEF N, A

\* One more item, on either side.
LEMMA ItemStep ==
    ASSUME NEW line, IsFor(line), line.var # "PWD", NEW i \in 1 .. Len(line.items),
           NEW a \in Answers, NEW x \in Ends, NEW s0, x.plain => Matches(a, x, s0),
           ShellItem(line, x, i, s0).plain
    PROVE  Matches(Item(line, line.items, a, i), ShellItem(line, x, i, s0), s0)
<1> DEFINE y == line.items[i]
           v == line.var
           c == line.body
           S == [a.s EXCEPT !.env[v] = y]
           D == [x.s EXCEPT !.env[v] = y]
           o == ShellRuns(c, D, s0)
           r == Single(Bound(c, v, y), S)
<1>1. y \in Nat /\ y \in Values /\ v \in Variables /\ c \in Command /\ v # "PWD"
  BY ItemOf DEF IsFor
<1>2. ShellItem(line, x, i, s0) = Both(x, o) /\ Item(line, line.items, a, i) = Then(a, r)
  BY DEF ShellItem, Item
<1> HIDE DEF y, v, c
<1>3. x.plain /\ o.plain
  <2> HIDE DEF o
  <2> QED
    BY <1>2, BothPlain
<1>4. Matches(a, x, s0)
  BY <1>3
<1>5. Alike(a.s, x.s, s0)
  BY <1>4 DEF Matches
<1>6. Alike(S, D, s0)
  BY <1>1, <1>5, AlikeSet
<1>7. S \in State /\ S.env[v] = y
  <2>1. a.s \in State
    BY <1>5 DEF Alike
  <2>2. S \in State /\ S.env = [a.s.env EXCEPT ![v] = y] /\ a.s.env \in [Variables -> Values]
    BY <1>1, <2>1, SetsVariable, StateFields
  <2> HIDE DEF S
  <2> QED
    BY <1>1, <2>2
<1> HIDE DEF S, D
<1>8. r = Single(c, S)
  BY <1>1, <1>7, BoundSays
<1>9. Matches(Single(c, S), o, s0)
  BY <1>1, <1>3, <1>6, MatchesRun
<1> HIDE DEF o, r
<1>10. Matches(Then(a, r), Both(x, o), s0)
  BY <1>4, <1>8, <1>9, MatchesThen
<1> QED
  BY <1>2, <1>10

\* A for loop, in step.
LEMMA ForMatches ==
    ASSUME NEW line, IsFor(line), NEW s0 \in State, ShellRunsFor(line, s0).plain
    PROVE  Matches(RouteFor(line, s0), ShellRunsFor(line, s0), s0)
<1> DEFINE N == Len(line.items)
           Good(a, x) == x.plain => Matches(a, x, s0) /\ ForPlain(line)
           R == {q \in Answers \X Ends : Good(q[1], q[2])}
<1>1. N \in Nat
  BY SeqShape DEF IsFor
<1>2. line.items \in Seq(Nat)
  BY DEF IsFor
<1>3. s0 \in State
  OBVIOUS
<1>4. PICK g : /\ g[0] = Answer(s0, NoText) /\ g[0] \in Answers
               /\ \A i \in 1 .. N : g[i - 1] \in Answers => g[i] = Item(line, line.items, g[i - 1], i)
               /\ RunsItems(line, line.items, s0) = g[N]
  BY <1>2, <1>3, ForSteps
<1>5. PICK h : /\ h[0] = Ran(Upright(s0), << >>, TRUE, ForPlain(line)) /\ h[0] \in Ends
               /\ \A i \in 1 .. N : h[i - 1] \in Ends => h[i] = ShellItem(line, h[i - 1], i, s0)
               /\ ShellRunsFor(line, s0) = h[N]
  BY <1>3, ShellForSteps
<1>6. \A i \in 1 .. N : \A a \in Answers, x \in Ends :
          /\ Item(line, line.items, a, i) \in Answers /\ ShellItem(line, x, i, s0) \in Ends
          /\ Good(a, x) => Good(Item(line, line.items, a, i), ShellItem(line, x, i, s0))
  <2> SUFFICES ASSUME NEW i \in 1 .. N, NEW a \in Answers, NEW x \in Ends
               PROVE  /\ Item(line, line.items, a, i) \in Answers /\ ShellItem(line, x, i, s0) \in Ends
                      /\ Good(a, x) => Good(Item(line, line.items, a, i), ShellItem(line, x, i, s0))
    OBVIOUS
  <2>1. Item(line, line.items, a, i) \in Answers /\ ShellItem(line, x, i, s0) \in Ends
    BY <1>2, ItemRuns, ShellItemRuns
  <2>2. ShellItem(line, x, i, s0).plain => x.plain
    BY BothPlain DEF ShellItem
  <2>3. Good(a, x) => Good(Item(line, line.items, a, i), ShellItem(line, x, i, s0))
    BY <2>2, ItemStep DEF ForPlain
  <2> QED
    BY <2>1, <2>3
<1> HIDE DEF N
<1>7. /\ \A a \in Answers, x \in Ends : Good(a, x) => <<a, x>> \in R
      /\ \A a, x : <<a, x>> \in R => a \in Answers /\ x \in Ends /\ Good(a, x)
  OBVIOUS
<1> HIDE DEF R
<1>8. <<g[0], h[0]>> \in R
  <2>1. ForPlain(line) => Matches(Answer(s0, NoText), h[0], s0)
    BY <1>5, AlikeAtFirst
  <2>2. h[0].plain => ForPlain(line)
    <3> DEFINE p == ForPlain(line)
    <3>1. h[0] = Ran(Upright(s0), << >>, TRUE, p)
      BY <1>5
    <3> HIDE DEF p
    <3>2. h[0].plain = p
      BY <3>1 DEF Ran
    <3> QED
      BY <3>2 DEF p
  <2>3. Good(g[0], h[0])
    BY <1>4, <2>1, <2>2
  <2> HIDE DEF Good
  <2> QED
    BY <1>4, <1>5, <1>7, <2>3
<1>9. ASSUME NEW i \in 1 .. N, <<g[i - 1], h[i - 1]>> \in R
      PROVE  <<g[i], h[i]>> \in R
  <2> HIDE DEF Good
  <2> DEFINE a == g[i - 1]
             x == h[i - 1]
  <2>1. a \in Answers /\ x \in Ends /\ Good(a, x)
    BY <1>7, <1>9
  <2>2. g[i] = Item(line, line.items, a, i) /\ h[i] = ShellItem(line, x, i, s0)
    BY <1>4, <1>5, <2>1
  <2> HIDE DEF a, x, Good
  <2>3. g[i] \in Answers /\ h[i] \in Ends /\ Good(g[i], h[i])
    BY <1>6, <2>1, <2>2
  <2> QED
    BY <1>7, <2>3
<1>10. <<g[N], h[N]>> \in R
  BY <1>1, <1>8, <1>9, Lockstep
<1>11. h[N].plain => Matches(g[N], h[N], s0) /\ ForPlain(line)
  BY <1>7, <1>10
<1>12. RouteFor(line, s0) = RunsItems(line, line.items, s0)
  BY <1>5, <1>11, ForRunsItems, FirstItemsAre DEF ForPlain
<1> QED
  BY <1>4, <1>5, <1>11, <1>12

-----------------------------------------------------------------------------
(* The if of the decoy and of a shell.                                       *)

\* A for loop.
LEMMA ForAgrees ==
    ASSUME NEW line, IsFor(line), NEW s0 \in State, Shell(line, s0).plain, line.kind = "for"
    PROVE  LineAgrees(Route(line, s0), Shell(line, s0))
<1>1. Shell(line, s0) = ShellRunsFor(line, s0)
  BY DEF Shell
<1>2. Route(line, s0) = RouteFor(line, s0)
  BY DEF Route
<1> QED
  BY <1>1, <1>2, ForMatches, MatchesAgrees

\* Both print nothing.
LEMMA NothingShown ==
    ASSUME NEW s, NEW e, NEW s0, Alike(s, e, s0)
    PROVE  Matches(Answer(s, NoText), Ran(e, << >>, TRUE, TRUE), s0)
<1>1. s \in State
  BY DEF Alike
<1>2. Answer(s, NoText) \in Answers /\ Answer(s, NoText).s = s /\ Answer(s, NoText).out = NoText
  BY <1>1, SaidIs, AnswerType
<1>3. << >> \in Seq(Seq(Nat))
  OBVIOUS
<1> QED
  BY <1>2, <1>3, SaidIs DEF Matches, Ran

\* A condition that is quiet and tells: both sides take the same way, from
\* sessions that are alike.
LEMMA ConditionTells ==
    ASSUME NEW c \in Command, NEW s, NEW e, NEW s0, Alike(s, e, s0),
           Quiet(ShellRuns(c, e, s0)), TellsAnd(c, ShellRuns(c, e, s0))
    PROVE  /\ IsError(Single(c, s).out) <=> ~ShellRuns(c, e, s0).ok
           /\ Alike(Single(c, s).s, ShellRuns(c, e, s0).s, s0)
           /\ ShellRuns(c, e, s0).lines = << >>
<1> DEFINE o == ShellRuns(c, e, s0)
           r == Single(c, s)
<1>1. o.plain /\ o.lines = << >>
  BY DEF Quiet
<1>2. Follows(r, o, s0, c.name)
  BY <1>1, CommandFollows
<1> HIDE DEF o, r
<1>3. TellsAnd(c, o)
  BY DEF o
<1>4. IsError(r.out) <=> ~o.ok
  BY <1>1, <1>2, <1>3, TellsError
<1>5. Alike(r.s, o.s, s0)
  BY <1>2 DEF Follows
<1> QED
  BY <1>1, <1>4, <1>5 DEF o, r

\* An if, with an else or without.
LEMMA IfAgrees ==
    ASSUME NEW line, line.cond \in Command, line.then \in Command,
           line.else \in Command \/ line.else.name = "none",
           NEW s0 \in State, Shell(line, s0).plain, line.kind = "if"
    PROVE  LineAgrees(Route(line, s0), Shell(line, s0))
<1> DEFINE c == line.cond
           x == line.then
           y == line.else
           a == ShellRuns(c, Upright(s0), s0)
           b == IF a.ok THEN ShellRuns(x, a.s, s0)
                ELSE IF y.name # "none" THEN ShellRuns(y, a.s, s0)
                ELSE Ran(a.s, << >>, TRUE, TRUE)
           r == Single(c, s0)
           q == IF ~IsError(r.out) THEN Single(x, r.s)
                ELSE IF y.name # "none" THEN Single(y, r.s) ELSE Answer(r.s, NoText)
           p == b.plain /\ Quiet(a) /\ TellsAnd(c, a)
           o == Ran(b.s, a.lines \o b.lines, b.ok, p)
<1>1. Shell(line, s0) = o
  <2>1. Shell(line, s0) = ShellRunsIf(line, s0)
    BY DEF Shell
  <2> QED
    BY <2>1 DEF ShellRunsIf
<1>2. Route(line, s0) = q
  <2>1. Route(line, s0) = RouteIf(line, s0)
    BY DEF Route
  <2> QED
    BY <2>1 DEF RouteIf
<1>3. c \in Command /\ x \in Command /\ (y.name # "none" => y \in Command)
  OBVIOUS
<1> HIDE DEF c, x, y
<1>4. p
  <2> HIDE DEF p, a, b
  <2> QED
    BY <1>1 DEF Ran
<1>5. b.plain /\ Quiet(a) /\ TellsAnd(c, a)
  BY <1>4
<1> HIDE DEF p
<1>6. Alike(s0, Upright(s0), s0)
  BY AlikeAtFirst
<1>7. (IsError(r.out) <=> ~a.ok) /\ Alike(r.s, a.s, s0) /\ a.lines = << >>
  <2>1. Quiet(ShellRuns(c, Upright(s0), s0)) /\ TellsAnd(c, ShellRuns(c, Upright(s0), s0))
    BY <1>5
  <2> QED
    BY <1>3, <1>6, <2>1, ConditionTells
<1> HIDE DEF a, r
<1>8. Matches(q, b, s0)
  <2>1. CASE a.ok
    <3>1. q = Single(x, r.s) /\ b = ShellRuns(x, a.s, s0)
      BY <1>7, <2>1
    <3>2. ShellRuns(x, a.s, s0).plain
      BY <1>5, <3>1
    <3>3. Matches(Single(x, r.s), ShellRuns(x, a.s, s0), s0)
      BY <1>3, <1>7, <3>2, MatchesRun
    <3> HIDE DEF q, b
    <3> QED
      BY <3>1, <3>3
  <2>2. CASE ~a.ok /\ y.name # "none"
    <3>1. q = Single(y, r.s) /\ b = ShellRuns(y, a.s, s0)
      BY <1>7, <2>2
    <3>2. ShellRuns(y, a.s, s0).plain
      BY <1>5, <3>1
    <3>3. Matches(Single(y, r.s), ShellRuns(y, a.s, s0), s0)
      BY <1>3, <1>7, <2>2, <3>2, MatchesRun
    <3> HIDE DEF q, b
    <3> QED
      BY <3>1, <3>3
  <2>3. CASE ~a.ok /\ y.name = "none"
    <3>1. q = Answer(r.s, NoText) /\ b = Ran(a.s, << >>, TRUE, TRUE)
      BY <1>7, <2>3
    <3> HIDE DEF q, b
    <3> QED
      BY <1>7, <3>1, NothingShown
  <2> QED
    BY <2>1, <2>2, <2>3
<1> HIDE DEF b, q
<1>9. a.lines \o b.lines = b.lines
  <2>1. b.lines \in Seq(Seq(Nat))
    BY <1>8 DEF Matches
  <2> QED
    BY <1>7, <2>1, ConcatEmptySeq
<1>10. Matches(q, o, s0)
  <2>1. o.s = b.s /\ o.lines = b.lines
    BY <1>9 DEF Ran
  <2> HIDE DEF o
  <2> QED
    BY <1>8, <2>1 DEF Matches
<1> HIDE DEF o
<1>11. LineAgrees(q, o)
  BY <1>10, MatchesAgrees
<1> QED
  BY <1>1, <1>2, <1>11

-----------------------------------------------------------------------------
(* The while loop of the decoy and of a shell.                               *)

\* One turn of a shell's while loop, and all of them.
ShellTurns == [s : State, lines : Prints, on : BOOLEAN, plain : BOOLEAN]
ShellTurn(line, x, s0) ==
    LET a == ShellRuns(line.cond, x.s, s0)
        b == ShellRuns(line.body, a.s, s0)
        tells == x.plain /\ Quiet(a) /\ TellsAnd(line.cond, a)
    IN IF ~x.on THEN x
       ELSE IF ~a.ok THEN [x EXCEPT !.s = a.s, !.on = FALSE, !.plain = tells]
       ELSE [x EXCEPT !.s = b.s, !.lines = @ \o b.lines, !.plain = tells /\ b.plain]
FirstShellTurn(s0) == [s |-> Upright(s0), lines |-> << >>, on |-> TRUE, plain |-> TRUE]
AllShellTurns(line, s0) ==
    FoldLeft(LAMBDA x, k : ShellTurn(line, x, s0), FirstShellTurn(s0), [k \in 1 .. LoopCap |-> k])

\* The while loop of a shell as turns.
LEMMA WhileInShell ==
    ASSUME NEW line, NEW s0
    PROVE  LET end == AllShellTurns(line, s0)
           IN ShellRunsWhile(line, s0) = Ran(end.s, end.lines, TRUE, end.plain /\ ~end.on)
BY DEF ShellRunsWhile, AllShellTurns, ShellTurn, FirstShellTurn

\* One more turn in a shell.
LEMMA ShellTurnType ==
    ASSUME NEW line, line.cond \in Command, line.body \in Command, NEW x \in ShellTurns, NEW s0
    PROVE  ShellTurn(line, x, s0) \in ShellTurns
<1> DEFINE a == ShellRuns(line.cond, x.s, s0)
           b == ShellRuns(line.body, a.s, s0)
           tells == x.plain /\ Quiet(a) /\ TellsAnd(line.cond, a)
           lines == x.lines \o b.lines
           plain == tells /\ b.plain
<1>1. x.s \in State /\ x.lines \in Prints /\ x.on \in BOOLEAN /\ x.plain \in BOOLEAN
  BY DEF ShellTurns
<1>2. a \in Ends
  BY <1>1, ShellType
<1>3. a.s \in State
  BY <1>2 DEF Ends
<1>4. b \in Ends
  BY <1>3, ShellType
<1> HIDE DEF a, b
<1>5. b.s \in State /\ b.lines \in Prints /\ b.plain \in BOOLEAN
  BY <1>4 DEF Ends
<1>6. tells \in BOOLEAN /\ plain \in BOOLEAN
  OBVIOUS
<1>7. lines \in Prints
  BY <1>1, <1>5, ConcatProperties DEF Prints
<1>8. ShellTurn(line, x, s0) = IF ~x.on THEN x
       ELSE IF ~a.ok THEN [x EXCEPT !.s = a.s, !.on = FALSE, !.plain = tells]
       ELSE [x EXCEPT !.s = b.s, !.lines = lines, !.plain = plain]
  BY DEF ShellTurn, a, b
<1> HIDE DEF tells, plain, lines
<1> QED
  BY <1>3, <1>5, <1>6, <1>7, <1>8 DEF ShellTurns

\* A shell before the first turn.
LEMMA FirstShellTurnType ==
    ASSUME NEW s0 \in State
    PROVE  FirstShellTurn(s0) \in ShellTurns
BY OneLine, UprightType DEF FirstShellTurn, ShellTurns

\* A while loop in a shell, turn after turn.
LEMMA ShellWhileSteps ==
    ASSUME NEW line, line.cond \in Command, line.body \in Command, NEW s0 \in State
    PROVE  \E g : /\ g[0] = FirstShellTurn(s0) /\ g[0] \in ShellTurns
                  /\ \A i \in 1 .. LoopCap : g[i - 1] \in ShellTurns => g[i] = ShellTurn(line, g[i - 1], s0)
                  /\ AllShellTurns(line, s0) = g[LoopCap]
<1> DEFINE N == LoopCap
           A == ShellTurns
           iter == CHOOSE iter : iter = [s \in SUBSET (1 .. N) |->
                      IF s = {} THEN FirstShellTurn(s0) ELSE ShellTurn(line, iter[s \ {Max(s)}], s0)]
           step == [p \in A \X (1 .. N) |-> ShellTurn(line, p[1], s0)]
<1>1. N \in Nat
  BY ShellAssumption
<1>2. AllShellTurns(line, s0) = iter[1 .. N]
  BY <1>1 DEF AllShellTurns, FoldLeft, MapThenFoldSet
<1>3. step \in [A \X (1 .. N) -> A]
  <2>1. \A a \in ShellTurns : ShellTurn(line, a, s0) \in ShellTurns
    BY ShellTurnType
  <2> HIDE DEF N
  <2> QED
    BY <2>1
<1>4. FirstShellTurn(s0) \in A
  BY FirstShellTurnType
<1>5. \E f \in [SUBSET (1 .. N) -> A] : IsFold(f, N, FirstShellTurn(s0), step)
  <2>1. N \in Nat
    BY <1>1
  <2> HIDE DEF step, N, iter, A
  <2> QED
    BY ONLY <2>1, <1>3, <1>4, FoldExists
<1>6. PICK f \in [SUBSET (1 .. N) -> A] : IsFold(f, N, FirstShellTurn(s0), step)
  BY <1>5
<1>7. f = [s \in SUBSET (1 .. N) |->
                      IF s = {} THEN FirstShellTurn(s0) ELSE ShellTurn(line, f[s \ {Max(s)}], s0)]
  <2>1. ASSUME NEW s \in SUBSET (1 .. N), s # {}
        PROVE  step[<<f[s \ {Max(s)}], Max(s)>>] = ShellTurn(line, f[s \ {Max(s)}], s0)
    <3>1. Max(s) \in 1 .. N
      BY <1>1, <2>1, MaxIn
    <3>2. f[s \ {Max(s)}] \in A
      OBVIOUS
    <3> HIDE DEF A, N
    <3> QED
      BY <3>1, <3>2
  <2> HIDE DEF step, A, N
  <2> QED
    BY <1>6, <2>1 DEF IsFold
<1>8. iter = [s \in SUBSET (1 .. N) |->
                      IF s = {} THEN FirstShellTurn(s0) ELSE ShellTurn(line, iter[s \ {Max(s)}], s0)]
  BY <1>7, Zenon
<1> HIDE DEF iter, step, N
<1> DEFINE g == [i \in 0 .. N |-> iter[1 .. i]]
<1>9. g[0] = FirstShellTurn(s0)
  <2>1. 1 .. 0 = {} /\ {} \in SUBSET (1 .. N) /\ 0 \in 0 .. N
    BY <1>1
  <2> HIDE DEF A
  <2> QED
    BY <1>8, <2>1
<1>10. ASSUME NEW i \in 1 .. N
      PROVE  g[i] = ShellTurn(line, g[i - 1], s0)
  <2>1. i \in 0 .. N /\ i - 1 \in 0 .. N
    BY <1>1
  <2>2. 1 .. i \in SUBSET (1 .. N) /\ 1 .. i # {} /\ Max(1 .. i) = i /\ (1 .. i) \ {i} = 1 .. (i - 1)
    BY <1>1, Intervals
  <2>3. iter[1 .. i] = ShellTurn(line, iter[1 .. (i - 1)], s0)
    BY <1>8, <2>2, Zenon
  <2>4. g[i] = iter[1 .. i] /\ g[i - 1] = iter[1 .. (i - 1)]
    BY <2>1
  <2> HIDE DEF g
  <2> QED
    BY <2>3, <2>4, Zenon
<1>11. AllShellTurns(line, s0) = g[N]
  BY <1>1, <1>2
<1> HIDE DEF g
<1> QED
  BY <1>4, <1>9, <1>10, <1>11 DEF N, A

\* A turn of the decoy's loop and one of a shell's, as far as the shell's is plain.
InTurn(a, x, s0) == x.plain => (a.on <=> x.on) /\ Matches(Answer(a.s, a.out), x, s0)

\* A turn of the body after those before.
LEMMA AskedAgain ==
    ASSUME NEW a, NEW x, NEW r, NEW o, NEW s0, Matches(Answer(a.s, a.out), x, s0), Matches(r, o, s0)
    PROVE  Matches(Answer(r.s, Join(a.out, r.out)), Both(x, o), s0)
<1> DEFINE A == Answer(a.s, a.out)
<1>1. A.out = a.out
  BY DEF Answer
<1> HIDE DEF A
<1>2. Then(A, r) = Answer(r.s, Join(a.out, r.out))
  BY <1>1 DEF Then
<1>3. Matches(A, x, s0)
  BY DEF A
<1>4. Matches(Then(A, r), Both(x, o), s0)
  BY <1>3, MatchesThen
<1> QED
  BY <1>2, <1>4

\* What matches depends on the session and the lines only.
LEMMA OnlyLooks ==
    ASSUME NEW r, NEW o, NEW p, NEW s0, Matches(r, o, s0), p.s = o.s, p.lines = o.lines
    PROVE  Matches(r, p, s0)
BY DEF Matches

\* One more turn, on either side.
LEMMA TurnStep ==
    ASSUME NEW line, line.cond \in Command, line.body \in Command, NEW s0,
           NEW a \in Turns, NEW x \in ShellTurns, InTurn(a, x, s0)
    PROVE  InTurn(Turn(line, a), ShellTurn(line, x, s0), s0)
<1> DEFINE c == line.cond
           d == line.body
           o == ShellRuns(c, x.s, s0)
           o2 == ShellRuns(d, o.s, s0)
           r == Single(c, a.s)
           r2 == Single(d, r.s)
           tells == x.plain /\ Quiet(o) /\ TellsAnd(c, o)
           plain == tells /\ o2.plain
           lines == x.lines \o o2.lines
           y == ShellTurn(line, x, s0)
           z == Turn(line, a)
<1>1. c \in Command /\ d \in Command
  OBVIOUS
<1>2. y = IF ~x.on THEN x
       ELSE IF ~o.ok THEN [x EXCEPT !.s = o.s, !.on = FALSE, !.plain = tells]
       ELSE [x EXCEPT !.s = o2.s, !.lines = lines, !.plain = plain]
  BY DEF ShellTurn
<1>3. z = IF ~a.on THEN a
       ELSE IF IsError(r.out) THEN [a EXCEPT !.s = r.s, !.on = FALSE]
       ELSE [a EXCEPT !.s = r2.s, !.out = Join(a.out, r2.out)]
  BY DEF Turn, Then, Answer
<1>4. a = [s |-> a.s, out |-> a.out, on |-> a.on]
         /\ x = [s |-> x.s, lines |-> x.lines, on |-> x.on, plain |-> x.plain]
  BY DEF Turns, ShellTurns
<1>5. tells <=> x.plain /\ Quiet(o) /\ TellsAnd(c, o)
  OBVIOUS
<1>6. plain <=> tells /\ o2.plain
  OBVIOUS
<1> HIDE DEF y, z, tells, plain, lines, c, d
<1> SUFFICES ASSUME y.plain
             PROVE  (z.on <=> y.on) /\ Matches(Answer(z.s, z.out), y, s0)
  BY DEF InTurn, y, z
<1>7. CASE ~x.on
  <2>1. y = x
    BY <1>2, <1>7
  <2>2. (a.on <=> x.on) /\ Matches(Answer(a.s, a.out), x, s0)
    BY <2>1 DEF InTurn
  <2>3. z = a
    BY <1>3, <1>7, <2>2
  <2> QED
    BY <2>1, <2>2, <2>3
<1>8. CASE x.on
  <2>1. tells /\ (o.ok => plain)
    <3>1. CASE ~o.ok
      <4>1. y = [x EXCEPT !.s = o.s, !.on = FALSE, !.plain = tells]
        BY <1>2, <1>8, <3>1
      <4> HIDE DEF o, r
      <4>2. y.plain = tells
        BY <1>4, <4>1
      <4> QED
        BY <3>1, <4>2
    <3>2. CASE o.ok
      <4>1. y = [x EXCEPT !.s = o2.s, !.lines = lines, !.plain = plain]
        BY <1>2, <1>8, <3>2
      <4> HIDE DEF o2, o
      <4>2. y.plain = plain
        BY <1>4, <4>1
      <4> QED
        BY <1>6, <4>2
    <3> QED
      BY <3>1, <3>2
  <2>2. x.plain /\ Quiet(o) /\ TellsAnd(c, o) /\ (o.ok => o2.plain)
    BY <1>5, <1>6, <2>1
  <2>3. a.on /\ Matches(Answer(a.s, a.out), x, s0)
    BY <1>8, <2>2 DEF InTurn
  <2>4. Alike(a.s, x.s, s0)
    BY <2>3 DEF Matches, Answer
  <2>5. (IsError(r.out) <=> ~o.ok) /\ Alike(r.s, o.s, s0)
    BY <1>1, <2>2, <2>4, ConditionTells
  <2>6. CASE ~o.ok
    <3>1. y = [x EXCEPT !.s = o.s, !.on = FALSE, !.plain = tells] /\ z = [a EXCEPT !.s = r.s, !.on = FALSE]
      BY <1>2, <1>3, <1>8, <2>3, <2>5, <2>6
    <3> HIDE DEF o, r
    <3>2. y.on = FALSE /\ z.on = FALSE /\ y.s = o.s /\ y.lines = x.lines /\ z.s = r.s /\ z.out = a.out
      BY <1>4, <3>1
    <3>3. Matches(Answer(r.s, a.out), y, s0)
      <4>1. a.out \in Text /\ r.s \in State
        BY <2>5 DEF Turns, Alike
      <4>2. Answer(r.s, a.out) \in Answers /\ Answer(r.s, a.out).s = r.s /\ Answer(r.s, a.out).out = a.out
        BY <4>1, AnswerType
      <4>3. x.lines \in Seq(Seq(Nat)) /\ Shown(a.out.lines) = Shown(x.lines)
        BY <2>3 DEF Matches, Answer
      <4> QED
        BY <2>5, <3>2, <4>2, <4>3 DEF Matches
    <3> QED
      BY <3>2, <3>3
  <2>7. CASE o.ok
    <3>1. /\ y = [x EXCEPT !.s = o2.s, !.lines = lines, !.plain = plain]
          /\ z = [a EXCEPT !.s = r2.s, !.out = Join(a.out, r2.out)]
      BY <1>2, <1>3, <1>8, <2>3, <2>5, <2>7
    <3>2. Matches(r2, o2, s0)
      BY <1>1, <2>2, <2>5, <2>7, MatchesRun
    <3> HIDE DEF o, r, o2, r2
    <3>3. y.on = x.on /\ z.on = a.on /\ y.s = o2.s /\ y.lines = lines /\ z.s = r2.s
             /\ z.out = Join(a.out, r2.out)
      BY <1>4, <3>1
    <3>4. Matches(Answer(r2.s, Join(a.out, r2.out)), Both(x, o2), s0)
      BY <2>3, <3>2, AskedAgain
    <3>5. Both(x, o2).s = o2.s /\ Both(x, o2).lines = lines
      BY DEF Both, Ran, lines
    <3>6. Matches(Answer(r2.s, Join(a.out, r2.out)), y, s0)
      BY <3>3, <3>4, <3>5, OnlyLooks
    <3> QED
      BY <1>8, <2>3, <3>3, <3>6
  <2> QED
    BY <2>6, <2>7
<1> QED
  BY <1>7, <1>8

\* A while loop, in step.
LEMMA WhileMatches ==
    ASSUME NEW line, line.cond \in Command, line.body \in Command, NEW s0 \in State
    PROVE  InTurn(AllTurns(line, s0), AllShellTurns(line, s0), s0)
<1> DEFINE N == LoopCap
           R == {q \in Turns \X ShellTurns : InTurn(q[1], q[2], s0)}
<1>1. N \in Nat
  BY ShellAssumption
<1>2. s0 \in State
  OBVIOUS
<1>3. PICK g : /\ g[0] = FirstTurn(s0) /\ g[0] \in Turns
               /\ \A i \in 1 .. N : g[i - 1] \in Turns => g[i] = Turn(line, g[i - 1])
               /\ AllTurns(line, s0) = g[N]
  BY <1>2, WhileSteps
<1>4. PICK h : /\ h[0] = FirstShellTurn(s0) /\ h[0] \in ShellTurns
               /\ \A i \in 1 .. N : h[i - 1] \in ShellTurns => h[i] = ShellTurn(line, h[i - 1], s0)
               /\ AllShellTurns(line, s0) = h[N]
  BY <1>2, ShellWhileSteps
<1> HIDE DEF N
<1>5. /\ \A a \in Turns, x \in ShellTurns : InTurn(a, x, s0) => <<a, x>> \in R
      /\ \A a, x : <<a, x>> \in R => a \in Turns /\ x \in ShellTurns /\ InTurn(a, x, s0)
  OBVIOUS
<1> HIDE DEF R
<1>6. <<g[0], h[0]>> \in R
  <2>1. Matches(Answer(s0, NoText), Ran(Upright(s0), << >>, TRUE, TRUE), s0)
    BY AlikeAtFirst
  <2>2. Matches(Answer(s0, NoText), h[0], s0)
    <3>1. h[0].s = Upright(s0) /\ h[0].lines = << >>
      BY <1>4 DEF FirstShellTurn
    <3>2. Ran(Upright(s0), << >>, TRUE, TRUE).s = Upright(s0) /\ Ran(Upright(s0), << >>, TRUE, TRUE).lines = << >>
      BY DEF Ran
    <3> QED
      BY <2>1, <3>1, <3>2, OnlyLooks
  <2>3. g[0].s = s0 /\ g[0].out = NoText /\ g[0].on = TRUE /\ h[0].on = TRUE
    BY <1>3, <1>4 DEF FirstTurn, FirstShellTurn
  <2>4. InTurn(g[0], h[0], s0)
    BY <2>2, <2>3 DEF InTurn
  <2> QED
    BY <1>3, <1>4, <1>5, <2>4
<1>7. ASSUME NEW i \in 1 .. N, <<g[i - 1], h[i - 1]>> \in R
      PROVE  <<g[i], h[i]>> \in R
  <2> DEFINE a == g[i - 1]
             x == h[i - 1]
  <2>1. a \in Turns /\ x \in ShellTurns /\ InTurn(a, x, s0)
    BY <1>5, <1>7
  <2>2. g[i] = Turn(line, a) /\ h[i] = ShellTurn(line, x, s0)
    BY <1>3, <1>4, <2>1
  <2> HIDE DEF a, x
  <2>3. g[i] \in Turns /\ h[i] \in ShellTurns /\ InTurn(g[i], h[i], s0)
    BY <2>1, <2>2, TurnType, ShellTurnType, TurnStep
  <2> QED
    BY <1>5, <2>3
<1>8. <<g[N], h[N]>> \in R
  BY <1>1, <1>6, <1>7, Lockstep
<1> QED
  BY <1>3, <1>4, <1>5, <1>8

\* A while loop.
LEMMA WhileAgrees ==
    ASSUME NEW line, line.cond \in Command, line.body \in Command,
           NEW s0 \in State, Shell(line, s0).plain, line.kind = "while"
    PROVE  LineAgrees(Route(line, s0), Shell(line, s0))
<1> DEFINE x == AllShellTurns(line, s0)
           a == AllTurns(line, s0)
           p == x.plain /\ ~x.on
           o == Ran(x.s, x.lines, TRUE, p)
<1>1. Shell(line, s0) = o
  <2>1. Shell(line, s0) = ShellRunsWhile(line, s0)
    BY DEF Shell
  <2> QED
    BY <2>1, WhileInShell
<1>2. Route(line, s0) = a
  <2>1. Route(line, s0) = RouteWhile(line, s0)
    BY DEF Route
  <2> QED
    BY <2>1, WhileIs
<1>3. InTurn(a, x, s0)
  BY WhileMatches
<1> HIDE DEF a, x
<1>4. p
  <2> HIDE DEF p
  <2> QED
    BY <1>1 DEF Ran
<1>5. Matches(Answer(a.s, a.out), x, s0)
  BY <1>3, <1>4 DEF InTurn
<1>6. o.s = x.s /\ o.lines = x.lines
  BY DEF Ran
<1> HIDE DEF o
<1>7. LineAgrees(Answer(a.s, a.out), o)
  BY <1>5, <1>6, OnlyLooks, MatchesAgrees
<1>8. Answer(a.s, a.out).s = a.s /\ Answer(a.s, a.out).out = a.out
  BY DEF Answer
<1>9. LineAgrees(a, o)
  BY <1>7, <1>8 DEF LineAgrees
<1> QED
  BY <1>1, <1>2, <1>9

-----------------------------------------------------------------------------
(* Every line.                                                               *)

\* A list of commands, whatever joins them.
LEMMA ListAgrees ==
    ASSUME NEW line, IsList(line), NEW s0 \in State, Shell(line, s0).plain, line.kind = "list"
    PROVE  LineAgrees(Route(line, s0), Shell(line, s0))
<1>1. CASE Size(line) = 1
  BY <1>1, AloneAgrees
<1>2. CASE Size(line) # 1 /\ Range(line.ops) = {";"}
  BY <1>2, SequenceAgrees
<1>3. CASE line.ops = <<"&&">>
  BY <1>3, AndAgrees
<1>4. CASE line.ops = <<"||">>
  BY <1>4, OrAgrees
<1>5. CASE line.ops \in {<<">">>, <<">>">>}
  <2>1. PICK op \in {">", ">>"} : line.ops = <<op>>
    BY <1>5
  <2> QED
    BY <2>1, RedirectAgrees
<1>6. CASE /\ Size(line) # 1 /\ Range(line.ops) # {";"} /\ line.ops # <<"&&">> /\ line.ops # <<"||">>
           /\ line.ops \notin {<<">">>, <<">>">>}
  <2>1. ShellRunsList(line, s0) = Ran(Upright(s0), << >>, TRUE, FALSE)
    BY <1>6 DEF ShellRunsList
  <2>2. Shell(line, s0) = ShellRunsList(line, s0)
    BY DEF Shell
  <2>3. ~Shell(line, s0).plain
    BY <2>1, <2>2 DEF Ran
  <2> QED
    BY <2>3
<1> QED
  BY <1>1, <1>2, <1>3, <1>4, <1>5, <1>6

\* From whatever state of the session, a stale PWD among them: where the shell is
\* plain, the decoy goes where it goes and shows what it shows (route of
\* command_router.py and update_from_command after it).
THEOREM DecoyFollowsShell ==
    ASSUME NEW line, IsLine(line), NEW s0 \in State, Shell(line, s0).plain
    PROVE  LineAgrees(Route(line, s0), Shell(line, s0))
<1>1. CASE line.kind = "list" /\ IsList(line)
  BY <1>1, ListAgrees
<1>2. CASE line.kind = "set"
  <2>1. Shell(line, s0) = Ran(Upright(s0), << >>, TRUE, FALSE)
    BY <1>2 DEF Shell
  <2> QED
    BY <2>1 DEF Ran
<1>3. CASE line.kind = "for" /\ IsFor(line)
  BY <1>3, ForAgrees
<1>4. CASE /\ line.kind = "if" /\ line.cond \in Command /\ line.then \in Command
           /\ line.else \in Command \/ line.else.name = "none"
  BY <1>4, IfAgrees
<1>5. CASE line.kind = "while" /\ line.cond \in Command /\ line.body \in Command
  BY <1>5, WhileAgrees
<1> QED
  BY <1>1, <1>2, <1>3, <1>4, <1>5 DEF IsLine, IsFor

\* In a session between two lines every line of Lines agrees, whether the line
\* before raised or not.
LEMMA LinesHold ==
    ASSUME LinesInv
    PROVE  LinesAgree
<1> SUFFICES ASSUME NEW line \in Lines, Shell(line, session).plain
             PROVE  LineAgrees(Route(line, session), Shell(line, session))
  BY DEF LinesAgree, LineAgrees
<1>1. session \in State
  BY DEF LinesInv
<1>2. IsLine(line)
  BY ShellAssumption
<1> QED
  BY <1>1, <1>2, DecoyFollowsShell

\* Lines typed one after another: each takes the session where a shell goes.
THEOREM LinesDo == LinesSpec => []LinesAgree
<1>1. LinesInv => LinesAgree
  BY LinesHold
<1> QED
  BY <1>1, SessionStates, PTL

-----------------------------------------------------------------------------
(* What a filter prints is a text again.                                     *)

\* Lines, each with its newline, are a text.
LEMMA EndedType ==
    ASSUME NEW ls \in Seq(Seq(Nat))
    PROVE  Ended(ls) \in Text
BY DEF Ended, Text

\* So is a line with one number.
LEMMA CountType ==
    ASSUME NEW n \in Nat
    PROVE  Ended(<< <<n>> >>) \in Text
<1>1. <<n>> \in Seq(Nat)
  OBVIOUS
<1>2. << <<n>> >> \in Seq(Seq(Nat))
  BY <1>1
<1> QED
  BY <1>2, EndedType

\* The lines at some places are lines.
LEMMA LinesAtType ==
    ASSUME NEW E, NEW ls \in Seq(E), NEW S \in SUBSET (1 .. Len(ls))
    PROVE  LinesAt(ls, S) \in Seq(E)
<1> DEFINE m == Cardinality(S)
           p == [k \in 1 .. m |-> ls[Ascending(S)[k]]]
<1>1. Len(ls) \in Nat /\ \A i \in 1 .. Len(ls) : ls[i] \in E
  BY ElementOfSeq
<1>2. m \in Nat /\ Ascending(S) \in [1 .. m -> 1 .. Len(ls)]
  BY <1>1, AscendingIs
<1>3. LinesAt(ls, S) = p
  BY DEF LinesAt
<1>4. p \in [1 .. m -> E]
  BY <1>1, <1>2
<1> HIDE DEF p, m
<1>5. p \in Seq(E)
  BY <1>2, <1>4, Counted
<1> QED
  BY <1>3, <1>5

\* A slice is lines.
LEMMA SliceType ==
    ASSUME NEW E, NEW ls \in Seq(E), NEW a \in Nat \ {0}, NEW b \in Int, b <= Len(ls)
    PROVE  SubSeq(ls, a, b) \in Seq(E)
<1>1. Len(ls) \in Nat /\ \A i \in 1 .. Len(ls) : ls[i] \in E
  BY ElementOfSeq
<1>2. \A i \in a .. b : ls[i] \in E
  BY <1>1
<1>3. a \in Int
  OBVIOUS
<1> QED
  BY <1>2, <1>3, SubSeqProperties

\* head and tail.
LEMMA UnlessEmptyType ==
    ASSUME NEW ls \in Seq(Seq(Nat))
    PROVE  EndedUnlessEmpty(ls) \in Text
BY EndedType, SaidIs DEF EndedUnlessEmpty

\* What is left of a text by a slice.
LEMMA EndsType ==
    ASSUME NEW t \in Text, NEW f, f.cmd \in {"head", "tail"}, IsFilter(f)
    PROVE  ApplyPipe(f, t) \in Text
<1> DEFINE ls == t.lines
           N == Len(ls)
<1>1. ls \in Seq(Seq(Nat)) /\ N \in Nat /\ f.n \in Int
  BY LinesOf DEF IsFilter
<1> HIDE DEF ls
<1>2. CASE f.cmd = "head"
  <2> DEFINE b == Least(N, IF f.n >= 0 THEN f.n ELSE N + f.n)
  <2>1. b \in Int /\ b <= N /\ 1 \in Nat \ {0}
    BY <1>1 DEF Least
  <2>2. Upto(f.n, ls) = SubSeq(ls, 1, b)
    BY DEF Upto
  <2> HIDE DEF b
  <2>3. SubSeq(ls, 1, b) \in Seq(Seq(Nat))
    BY <1>1, <2>1, SliceType
  <2>4. EndedUnlessEmpty(Upto(f.n, ls)) \in Text
    BY <2>2, <2>3, UnlessEmptyType
  <2>5. ApplyPipe(f, t) = EndedUnlessEmpty(Upto(f.n, ls))
    BY <1>2 DEF ApplyPipe, PipeHead, ls
  <2> QED
    BY <2>4, <2>5
<1>3. CASE f.cmd = "tail"
  <2> DEFINE r == IF f.n <= 0 THEN SubSeq(ls, 1 - f.n, N) ELSE LastOf(f.n, ls)
  <2>1. ASSUME f.n <= 0
        PROVE  r \in Seq(Seq(Nat))
    <3>1. 1 - f.n \in Nat \ {0} /\ N \in Int /\ N <= Len(ls)
      BY <1>1, <2>1
    <3>2. SubSeq(ls, 1 - f.n, N) \in Seq(Seq(Nat))
      <4> DEFINE a == 1 - f.n
      <4> HIDE DEF a, N
      <4> QED
        BY <1>1, <3>1, SliceType DEF a
    <3> QED
      BY <2>1, <3>2
  <2>2. ASSUME f.n > 0, f.n >= N
        PROVE  r \in Seq(Seq(Nat))
    <3>1. r = ls
      BY <1>1, <2>2 DEF LastOf
    <3> QED
      BY <1>1, <3>1
  <2>3. ASSUME f.n > 0, f.n < N
        PROVE  r \in Seq(Seq(Nat))
    <3> DEFINE a == N + (-f.n) + 1
    <3>1. a \in Nat \ {0} /\ N \in Int /\ N <= Len(ls) /\ ~(-f.n >= 0)
      BY <1>1, <2>3
    <3>2. From(-f.n, ls) = SubSeq(ls, a, N)
      BY <3>1, Zenon DEF From
    <3>3. r = From(-f.n, ls)
      BY <1>1, <2>3 DEF LastOf
    <3> HIDE DEF a, N, r
    <3>4. SubSeq(ls, a, N) \in Seq(Seq(Nat))
      BY <1>1, <3>1, SliceType
    <3> QED
      BY <3>2, <3>3, <3>4
  <2>4. f.n <= 0 \/ (f.n > 0 /\ f.n >= N) \/ (f.n > 0 /\ f.n < N)
    BY <1>1
  <2>5. r \in Seq(Seq(Nat))
    BY <2>1, <2>2, <2>3, <2>4
  <2>6. ApplyPipe(f, t) = EndedUnlessEmpty(r)
    BY <1>3 DEF ApplyPipe, PipeTail, ls
  <2> HIDE DEF r
  <2> QED
    BY <2>5, <2>6, UnlessEmptyType
<1> QED
  BY <1>2, <1>3

\* grep.
LEMMA GrepType ==
    ASSUME NEW t \in Text, NEW f, f.cmd = "grep"
    PROVE  ApplyPipe(f, t) \in Text
<1> DEFINE ls == t.lines
           v == HasToken(f.tokens, "v")
           c == HasToken(f.tokens, "c")
           K == {l \in Range(ls) : f.pattern \in Range(l) <=> ~v}
           r == Among(ls, K)
<1>1. ls \in Seq(Seq(Nat))
  BY LinesOf
<1>2. ApplyPipe(f, t) = IF c THEN Ended(<< <<Len(r)>> >>) ELSE Ended(r)
  BY DEF ApplyPipe, PipeGrep
<1>3. r \in Seq(Seq(Nat))
  <2> HIDE DEF ls, K
  <2> QED
    BY <1>1, AmongPlaces
<1> HIDE DEF r, c
<1>4. Len(r) \in Nat
  BY <1>3
<1> QED
  BY <1>2, <1>3, <1>4, EndedType, CountType

\* wc.
LEMMA WcType ==
    ASSUME NEW t \in Text, NEW f, f.cmd = "wc"
    PROVE  ApplyPipe(f, t) \in Text
<1>1. t.lines \in Seq(Seq(Nat)) /\ (t.lines = << >> => t.ended)
  BY DEF Text
<1>2. NewLines(t) \in Nat
  <2>1. Len(t.lines) \in Nat /\ (~t.ended => Len(t.lines) # 0)
    BY <1>1, EmptySeq
  <2> QED
    BY <2>1 DEF NewLines
<1>3. ApplyPipe(f, t) = Ended(<< <<NewLines(t)>> >>)
  BY DEF ApplyPipe, PipeWc
<1> QED
  BY <1>2, <1>3, CountType

\* sed.
LEMMA SedType ==
    ASSUME NEW t \in Text, NEW f, f.cmd = "sed", IsFilter(f)
    PROVE  ApplyPipe(f, t) \in Text
<1> DEFINE ls == t.lines
           places(i) == Places(ls[i], f.old)
           hits == {i \in DOMAIN ls : f.old \in Range(ls[i])}
           first == CHOOSE i \in hits : \A j \in hits : i <= j
           changed(i) == IF f.g THEN places(i)
                         ELSE IF hits # {} /\ i = first
                              THEN {CHOOSE k \in places(i) : \A j \in places(i) : k <= j}
                         ELSE {}
           r == [i \in DOMAIN ls |-> Replaced(ls[i], changed(i), f.new)]
<1>1. /\ Len(ls) \in Nat /\ DOMAIN ls = 1 .. Len(ls) /\ \A i \in DOMAIN ls : ls[i] \in Seq(Nat)
      /\ t \in [lines : Seq(Seq(Nat)), ended : BOOLEAN] /\ (ls = << >> => t.ended) /\ f.new \in Nat
  BY LinesOf DEF Text, IsFilter
<1>2. ApplyPipe(f, t) = [t EXCEPT !.lines = r]
  <2>1. ApplyPipe(f, t) = [t EXCEPT !.lines = [i \in DOMAIN @ |-> Replaced(@[i], changed(i), f.new)]]
    BY DEF ApplyPipe, PipeSed
  <2> HIDE DEF changed
  <2> QED
    BY <1>1, <2>1
<1> HIDE DEF ls, changed
<1>3. ASSUME NEW l \in Seq(Nat), NEW W PROVE Replaced(l, W, f.new) \in Seq(Nat)
  <2> DEFINE q == [k \in DOMAIN l |-> IF k \in W THEN f.new ELSE l[k]]
  <2>1. Len(l) \in Nat /\ DOMAIN l = 1 .. Len(l) /\ \A k \in 1 .. Len(l) : l[k] \in Nat
    BY ElementOfSeq
  <2>2. q \in [1 .. Len(l) -> Nat]
    BY <1>1, <2>1
  <2>3. Replaced(l, W, f.new) = q
    BY DEF Replaced
  <2> HIDE DEF q
  <2> QED
    BY <2>1, <2>2, <2>3, Counted
<1>4. r \in [1 .. Len(ls) -> Seq(Nat)]
  BY <1>1, <1>3
<1> HIDE DEF r
<1>5. r \in Seq(Seq(Nat)) /\ Len(r) = Len(ls)
  BY <1>1, <1>4, Counted
<1>6. r = << >> => ls = << >>
  <2>1. ls \in Seq(Seq(Nat))
    BY <1>1 DEF ls
  <2> QED
    BY <1>5, <2>1, EmptySeq
<1> QED
  BY <1>1, <1>2, <1>5, <1>6 DEF Text

\* uniq.
LEMMA UniqType ==
    ASSUME NEW t \in Text, NEW f, f.cmd = "uniq"
    PROVE  ApplyPipe(f, t) \in Text
<1> DEFINE ls == t.lines
           gs == Groups(ls)
           K == {g \in Range(gs) : "d" \in f.flags => g.count >= 2}
           kept == Among(gs, K)
           printed(g) == IF "c" \in f.flags THEN <<g.count>> \o g.line ELSE g.line
           r == [k \in DOMAIN kept |-> printed(kept[k])]
<1>1. ls \in Seq(Seq(Nat))
  BY LinesOf
<1>2. ApplyPipe(f, t) = Ended(r)
  BY DEF ApplyPipe, PipeUniq
<1> HIDE DEF ls
<1>3. gs \in Seq(Group(Seq(Nat)))
  BY <1>1, GroupsAre DEF Grouped
<1> HIDE DEF gs
<1>4. kept \in Seq(Group(Seq(Nat)))
  <2> HIDE DEF K
  <2> QED
    BY <1>3, AmongPlaces
<1> HIDE DEF kept
<1>5. /\ Len(kept) \in Nat /\ DOMAIN kept = 1 .. Len(kept)
      /\ \A k \in 1 .. Len(kept) : kept[k] \in Group(Seq(Nat))
  BY <1>4, ElementOfSeq
<1>6. ASSUME NEW g \in Group(Seq(Nat)) PROVE printed(g) \in Seq(Nat)
  <2>1. g.count \in Nat /\ g.line \in Seq(Nat)
    BY DEF Group
  <2>2. <<g.count>> \in Seq(Nat)
    BY <2>1
  <2>3. <<g.count>> \o g.line \in Seq(Nat)
    BY <2>1, <2>2, ConcatProperties
  <2> QED
    BY <2>1, <2>3
<1> HIDE DEF printed
<1>7. r \in [1 .. Len(kept) -> Seq(Nat)]
  BY <1>5, <1>6
<1> HIDE DEF r
<1>8. r \in Seq(Seq(Nat))
  BY <1>5, <1>7, Counted
<1> QED
  BY <1>2, <1>8, EndedType

\* cut.
LEMMA CutOutType ==
    ASSUME NEW t \in Text, NEW f, f.cmd = "cut"
    PROVE  ApplyPipe(f, t) \in Text
<1> DEFINE ls == t.lines
           at(l) == {k \in 1 .. Len(l) : k \in f.list}
           zero(l) == IF 0 \in f.list /\ l # << >> THEN <<Last(l)>> ELSE << >>
           picked(l) == zero(l) \o LinesAt(l, at(l))
           r == [k \in DOMAIN ls |-> picked(ls[k])]
<1>1. Len(ls) \in Nat /\ DOMAIN ls = 1 .. Len(ls) /\ \A i \in DOMAIN ls : ls[i] \in Seq(Nat)
  BY LinesOf
<1>2. ApplyPipe(f, t) = IF f.list = {} THEN t ELSE Ended(r)
  BY DEF ApplyPipe, PipeCut
<1> HIDE DEF ls
<1>3. ASSUME NEW l \in Seq(Nat) PROVE picked(l) \in Seq(Nat)
  <2>1. LinesAt(l, at(l)) \in Seq(Nat)
    <3>1. at(l) \in SUBSET (1 .. Len(l))
      OBVIOUS
    <3> HIDE DEF at
    <3> QED
      BY <3>1, LinesAtType
  <2>2. zero(l) \in Seq(Nat)
    <3>1. l # << >> => Last(l) \in Nat
      <4>1. l # << >> => Len(l) \in 1 .. Len(l)
        BY EmptySeq
      <4> QED
        BY <4>1, ElementOfSeq DEF Last
    <3>2. \A n \in Nat : <<n>> \in Seq(Nat)
      OBVIOUS
    <3>3. << >> \in Seq(Nat)
      OBVIOUS
    <3> QED
      BY <3>1, <3>2, <3>3
  <2> HIDE DEF zero, at
  <2> QED
    BY <2>1, <2>2, ConcatProperties
<1> HIDE DEF picked
<1>4. r \in [1 .. Len(ls) -> Seq(Nat)]
  BY <1>1, <1>3
<1> HIDE DEF r
<1>5. r \in Seq(Seq(Nat))
  BY <1>1, <1>4, Counted
<1>6. Ended(r) \in Text
  BY <1>5, EndedType
<1>7. CASE f.list = {}
  BY <1>2, <1>7
<1>8. CASE f.list # {}
  BY <1>2, <1>6, <1>8
<1> QED
  BY <1>7, <1>8

\* awk.
LEMMA AwkType ==
    ASSUME NEW t \in Text, NEW f, f.cmd = "awk", IsFilter(f)
    PROVE  ApplyPipe(f, t) \in Text
<1> DEFINE ls == t.lines
           N == Len(ls)
           E == Nat \X Seq(Nat)
           numbered == [k \in DOMAIN ls |-> <<k, ls[k]>>]
           K == {p \in Range(numbered) : AwkSelects(f, p[2], p[1])}
           chosen == Among(numbered, K)
           r == [k \in DOMAIN chosen |-> AwkPrints(f, chosen[k][2], chosen[k][1])]
<1>1. N \in Nat /\ DOMAIN ls = 1 .. N /\ \A i \in DOMAIN ls : ls[i] \in Seq(Nat)
  BY LinesOf
<1>2. ApplyPipe(f, t) = IF f.cond = "END" THEN Ended(<< <<N>> >>) ELSE Ended(r)
  BY DEF ApplyPipe, PipeAwk, AwkLines
<1> HIDE DEF ls
<1>3. numbered \in Seq(E)
  <2>1. numbered \in [1 .. N -> E]
    BY <1>1
  <2> HIDE DEF numbered, E
  <2> QED
    BY <1>1, <2>1, Counted
<1> HIDE DEF numbered, E
<1>4. chosen \in Seq(E)
  <2> HIDE DEF K
  <2> QED
    BY <1>3, AmongPlaces
<1> HIDE DEF chosen
<1>5. Len(chosen) \in Nat /\ DOMAIN chosen = 1 .. Len(chosen) /\ \A k \in 1 .. Len(chosen) : chosen[k] \in E
  BY <1>4, ElementOfSeq
<1>6. ASSUME NEW l \in Seq(Nat), NEW nr \in Nat PROVE AwkPrints(f, l, nr) \in Seq(Nat)
  <2>1. f.arg \in {"$0", "$2", "$NF", "NR"}
    BY DEF IsFilter
  <2>2. \A n \in Nat : <<n>> \in Seq(Nat)
    OBVIOUS
  <2>3. << >> \in Seq(Nat)
    OBVIOUS
  <2>4. l # << >> => Last(l) \in Nat
    <3>1. l # << >> => Len(l) \in 1 .. Len(l)
      BY EmptySeq
    <3> QED
      BY <3>1, ElementOfSeq DEF Last
  <2>5. Len(l) >= 2 => l[2] \in Nat
    <3>1. Len(l) >= 2 => 2 \in 1 .. Len(l)
      OBVIOUS
    <3> QED
      BY <3>1, ElementOfSeq
  <2> QED
    BY <2>1, <2>2, <2>3, <2>4, <2>5 DEF AwkPrints
<1>7. r \in [1 .. Len(chosen) -> Seq(Nat)]
  <2>1. \A k \in 1 .. Len(chosen) : chosen[k][1] \in Nat /\ chosen[k][2] \in Seq(Nat)
    BY <1>5 DEF E
  <2> QED
    BY <1>5, <1>6, <2>1
<1> HIDE DEF r
<1>8. r \in Seq(Seq(Nat))
  BY <1>5, <1>7, Counted
<1> QED
  BY <1>1, <1>2, <1>8, EndedType, CountType

\* What sort goes by has no ties that are not ties of all.
LEMMA PriorWeak ==
    ASSUME NEW f, NEW S \in SUBSET Seq(Nat)
    PROVE  /\ \A a \in S : ~Prior(f, a, a)
           /\ \A a, b, c \in S : Prior(f, a, b) /\ Prior(f, b, c) => Prior(f, a, c)
           /\ \A a, b, c \in S : ~Prior(f, a, b) /\ ~Prior(f, b, c) => ~Prior(f, a, c)
<1>1. CASE "n" \in f.flags
  <2>1. \A a, b : Key(f, a, b) <=> NumberOf(a) < NumberOf(b)
    BY <1>1 DEF Key, Numerically
  <2>2. \A a \in S : NumberOf(a) \in Nat
    BY NumberType
  <2> QED
    BY <2>1, <2>2 DEF Prior
<1>2. CASE "n" \notin f.flags
  <2>1. /\ \A a \in S : ~Key(f, a, a)
        /\ \A a, b \in S : a # b => Key(f, a, b) \/ Key(f, b, a)
        /\ \A a, b, c \in S : Key(f, a, b) /\ Key(f, b, c) => Key(f, a, c)
    BY <1>2, KeyOrders
  <2> QED
    BY <2>1, Zenon DEF Prior
<1> QED
  BY <1>1, <1>2

\* sort.
LEMMA SortType ==
    ASSUME NEW t \in Text, NEW f, f.cmd = "sort"
    PROVE  ApplyPipe(f, t) \in Text
<1> DEFINE ls == t.lines
           N == Len(ls)
           S == Range(ls)
           Prec(j, i) == Prior(f, ls[j], ls[i]) \/ (~Prior(f, ls[i], ls[j]) /\ j < i)
           R == [i \in 1 .. N |-> {j \in 1 .. N : Prec(j, i)}]
           rank(i) == 1 + Cardinality({j \in DOMAIN ls : Prec(j, i)})
           q == [k \in DOMAIN ls |-> ls[CHOOSE i \in DOMAIN ls : rank(i) = k]]
           r == [i \in 1 .. N |-> 1 + Cardinality(Below(R, N, i))]
<1>1. N \in Nat /\ DOMAIN ls = 1 .. N /\ \A i \in 1 .. N : ls[i] \in Seq(Nat) /\ ls[i] \in S
  BY LinesOf DEF Range
<1>2. S \in SUBSET Seq(Nat)
  BY <1>1 DEF Range
<1>3. ApplyPipe(f, t) = Ended(IF "u" \in f.flags THEN FirstOfEach(q) ELSE q)
  BY DEF ApplyPipe, PipeSort, StableSort, Prior, Key
<1> HIDE DEF ls, S
<1>4. Orders(R, 1 .. N)
  <2>1. \A i, j \in 1 .. N : j \in R[i] <=> Prec(j, i)
    <3> HIDE DEF N, Prec
    <3> QED
      OBVIOUS
  <2>2. /\ \A i \in 1 .. N : ~Prior(f, ls[i], ls[i])
        /\ \A i, j, k \in 1 .. N : Prior(f, ls[i], ls[j]) /\ Prior(f, ls[j], ls[k]) => Prior(f, ls[i], ls[k])
        /\ \A i, j, k \in 1 .. N : ~Prior(f, ls[i], ls[j]) /\ ~Prior(f, ls[j], ls[k]) => ~Prior(f, ls[i], ls[k])
    BY <1>1, <1>2, PriorWeak
  <2> DEFINE P(i, j) == Prior(f, ls[i], ls[j])
  <2> HIDE DEF R, N
  <2>3. \A i \in 1 .. N : ~Prec(i, i)
    BY <1>1, <2>2
  <2>4. \A i, j \in 1 .. N : i # j => Prec(i, j) \/ Prec(j, i)
    BY <1>1
  <2>5. \A i, j, k \in 1 .. N : Prec(i, j) /\ Prec(j, k) => Prec(i, k)
    <3> SUFFICES ASSUME NEW i \in 1 .. N, NEW j \in 1 .. N, NEW k \in 1 .. N, Prec(i, j), Prec(j, k)
                 PROVE  Prec(i, k)
      OBVIOUS
    <3>1. P(i, j) /\ P(j, k) => P(i, k)
      BY <2>2
    <3>2. P(k, i) /\ P(i, j) => P(k, j)
      BY <2>2
    <3>3. P(j, k) /\ P(k, i) => P(j, i)
      BY <2>2
    <3>4. ~P(i, k) /\ ~P(k, j) => ~P(i, j)
      BY <2>2
    <3>5. ~P(j, i) /\ ~P(i, k) => ~P(j, k)
      BY <2>2
    <3>6. ~P(k, j) /\ ~P(j, i) => ~P(k, i)
      BY <2>2
    <3>7. ~(P(i, j) /\ P(j, i)) /\ ~(P(j, k) /\ P(k, j))
      BY <2>2
    <3>8. i < j /\ j < k => i < k
      BY <1>1
    <3>9. P(i, j) \/ (~P(j, i) /\ i < j)
      OBVIOUS
    <3>10. P(j, k) \/ (~P(k, j) /\ j < k)
      OBVIOUS
    <3> HIDE DEF P
    <3>11. P(i, k) \/ (~P(k, i) /\ i < k)
      BY <3>1, <3>2, <3>3, <3>4, <3>5, <3>6, <3>7, <3>8, <3>9, <3>10
    <3> QED
      BY <3>11 DEF P
  <2> HIDE DEF Prec
  <2> QED
    BY <2>1, <2>3, <2>4, <2>5 DEF Orders
<1> HIDE DEF Prec
<1>5. \A i \in 1 .. N : Below(R, N, i) = {j \in DOMAIN ls : Prec(j, i)}
  <2>1. DOMAIN ls = 1 .. N
    BY <1>1
  <2> HIDE DEF N
  <2> QED
    BY <2>1 DEF Below
<1>6. r \in [1 .. N -> Nat]
  <2>1. ASSUME NEW i \in 1 .. N PROVE Cardinality(Below(R, N, i)) \in Nat
    <3>1. Below(R, N, i) \in SUBSET (1 .. N)
      BY DEF Below
    <3>2. IsFiniteSet(1 .. N)
      BY <1>1, FS_Interval
    <3> HIDE DEF R, N
    <3> QED
      BY <3>1, <3>2, FS_Subset, FS_CardinalityType
  <2> HIDE DEF R, N
  <2> QED
    BY <2>1
<1>7. \A i \in 1 .. N : rank(i) = r[i]
  <2>1. \A i \in 1 .. N : r[i] = 1 + Cardinality(Below(R, N, i))
    OBVIOUS
  <2> HIDE DEF r, R, N
  <2> QED
    BY <1>5, <2>1
<1>8. r \in Bijection(1 .. N, 1 .. N)
  <2>1. \A i \in 1 .. N : r[i] = 1 + Cardinality(Below(R, N, i))
    OBVIOUS
  <2> HIDE DEF R, r, N
  <2> QED
    BY <1>1, <1>4, <1>6, <2>1, Ranks
<1>9. \A k \in 1 .. N : \E i \in 1 .. N : rank(i) = k
  <2> HIDE DEF R, r, N, rank
  <2> QED
    BY <1>7, <1>8 DEF Bijection, Surjection
<1> HIDE DEF rank, r, R
<1>10. q \in [1 .. N -> Seq(Nat)]
  BY <1>1, <1>9
<1> HIDE DEF q
<1>11. q \in Seq(Seq(Nat))
  BY <1>1, <1>10, Counted
<1>12. FirstOfEach(q) \in Seq(Seq(Nat))
  <2> DEFINE E == Seq(Nat)
             M == Len(q)
  <2> HIDE DEF E
  <2>1. q \in Seq(E) /\ M \in Nat
    BY <1>11 DEF E
  <2>2. PICK g : /\ g[0] = << >> /\ g[0] \in Seq(E)
                 /\ \A i \in 1 .. M : g[i - 1] \in Seq(E) =>
                         g[i] = IF q[i] \in Range(g[i - 1]) THEN g[i - 1] ELSE Append(g[i - 1], q[i])
                 /\ FirstOfEach(q) = g[M]
    BY <2>1, FirstSteps
  <2>3. \A i \in 1 .. M : q[i] \in E
    BY <2>1, ElementOfSeq
  <2>4. ASSUME NEW i \in 1 .. M, g[i - 1] \in Seq(E) PROVE g[i] \in Seq(E)
    <3>1. q[i] \in E
      BY <2>3
    <3>2. Append(g[i - 1], q[i]) \in Seq(E)
      BY <2>4, <3>1, AppendProperties
    <3> QED
      BY <2>2, <2>4, <3>2
  <2>5. M \in 0 .. M
    BY <2>1
  <2> HIDE DEF M
  <2>6. \A i \in 0 .. M : g[i] \in Seq(E)
    BY <2>1, <2>2, <2>4, StaysIn
  <2> QED
    BY <2>2, <2>5, <2>6 DEF E
<1> QED
  BY <1>3, <1>11, <1>12, EndedType

\* Whatever the filter, and wherever it differs.
LEMMA FilterType ==
    ASSUME NEW t \in Text, NEW f, IsFilter(f)
    PROVE  ApplyPipe(f, t) \in Text
<1>1. f.cmd \in {"head", "tail", "grep", "sort", "uniq", "sed", "cut", "awk", "wc", "less", "tee",
                "xargs", "other"}
  BY DEF IsFilter
<1>2. CASE f.cmd \in {"less", "tee", "xargs", "other"}
  <2>1. ApplyPipe(f, t) = t
    BY <1>2 DEF ApplyPipe, PassThrough
  <2> QED
    BY <2>1
<1>3. CASE f.cmd \in {"head", "tail"}
  BY <1>3, EndsType
<1>4. CASE f.cmd = "grep"
  BY <1>4, GrepType
<1>5. CASE f.cmd = "sort"
  BY <1>5, SortType
<1>6. CASE f.cmd = "uniq"
  BY <1>6, UniqType
<1>7. CASE f.cmd = "sed"
  BY <1>7, SedType
<1>8. CASE f.cmd = "cut"
  BY <1>8, CutOutType
<1>9. CASE f.cmd = "awk"
  BY <1>9, AwkType
<1>10. CASE f.cmd = "wc"
  BY <1>10, WcType
<1> QED
  BY <1>1, <1>2, <1>3, <1>4, <1>5, <1>6, <1>7, <1>8, <1>9, <1>10

-----------------------------------------------------------------------------
(* A pipe.                                                                   *)

\* What one member of a pipe makes of what the one before it printed.
Passed(f, t) == IF t = Absent \/ Raises(f, t) THEN Absent ELSE ApplyPipe(f, t)
Carried == Text \cup {Absent}

\* A filter hands on a text, or nothing once one has raised.
LEMMA PassedType ==
    ASSUME NEW f, IsFilter(f), NEW t \in Carried
    PROVE  Passed(f, t) \in Carried
BY FilterType DEF Passed, Carried

\* The filters of a line of pipes.
LEMMA PipeFiltersOf ==
    ASSUME NEW line, IsList(line), Range(line.ops) = {"|"}, NEW k \in 1 .. (Size(line) - 1)
    PROVE  IsFilter(line.cmds[k + 1].filter)
<1>1. Size(line) \in Nat /\ DOMAIN line.ops = 1 .. (Size(line) - 1)
  BY ListShape
<1>2. line.ops[k] = "|"
  BY <1>1, UniformEnds
<1> QED
  BY <1>1, <1>2 DEF IsList, IsFilterPart

\* What is handed on: the pieces after the first, each a filter of its own.
LEMMA PipeSegments ==
    ASSUME NEW line, IsList(line), Range(line.ops) = {"|"}, NEW L \in Nat, L + 1 = Size(line),
           NEW q, q = SubSeq(Pieces(line, "|"), 2, Len(Pieces(line, "|")))
    PROVE  /\ DOMAIN q = 1 .. L
           /\ \A k \in 1 .. L : q[k].cmds[1].filter = line.cmds[k + 1].filter
<1> DEFINE P == Pieces(line, "|")
           N == L + 1
<1>1. N \in Nat /\ N = Size(line)
  OBVIOUS
<1> HIDE DEF N
<1>2. /\ Len(P) = N /\ P \in Seq(Range(P))
      /\ \A k \in 1 .. N : P[k] = Part(line, k, k)
  BY <1>1, UniformPieces
<1>3. L >= 1
  <2>1. DOMAIN line.ops = 1 .. L
    <3>1. DOMAIN line.ops = 1 .. (Size(line) - 1)
      BY ListShape
    <3>2. Size(line) - 1 = L
      OBVIOUS
    <3> QED
      BY <3>1, <3>2
  <2>2. "|" \in Range(line.ops)
    OBVIOUS
  <2>3. PICK k \in DOMAIN line.ops : line.ops[k] = "|"
    BY <2>2 DEF Range
  <2> QED
    BY <2>1, <2>3
<1>4. 2 \in 1 .. N /\ N \in 1 .. N /\ 2 <= N /\ N - 2 + 1 = L
  BY <1>3 DEF N
<1> HIDE DEF P
<1>5. q = SubSeq(P, 2, N)
  BY <1>2 DEF P
<1>6. DOMAIN q = 1 .. L /\ \A k \in 1 .. L : q[k] = P[2 + k - 1]
  <2>1. /\ DOMAIN SubSeq(P, 2, N) = 1 .. (N - 2 + 1)
        /\ \A k \in 1 .. (N - 2 + 1) : SubSeq(P, 2, N)[k] = P[2 + k - 1]
    BY ONLY <1>1, <1>2, <1>4, PieceIs
  <2> QED
    BY <1>4, <1>5, <2>1
<1>7. ASSUME NEW k \in 1 .. L PROVE q[k].cmds[1].filter = line.cmds[k + 1].filter
  <2>1. 2 + k - 1 = k + 1 /\ k + 1 \in 1 .. N /\ k + 1 <= k + 1
    BY DEF N
  <2>2. q[k] = Part(line, k + 1, k + 1)
    BY <1>2, <1>6, <2>1
  <2> DEFINE j == k + 1
             c == SubSeq(line.cmds, j, j)
  <2>3. IsCut(c, line.cmds, j, j)
    BY <1>1, <2>1, CommandsOf
  <2>4. j \in Nat /\ 1 \in 1 .. (j - j + 1) /\ j + 1 - 1 = j
    OBVIOUS
  <2>5. q[k].cmds = c
    <3>1. q[k] = Part(line, j, j)
      BY <2>2
    <3> HIDE DEF j
    <3>2. Part(line, j, j).cmds = c
      BY DEF Part
    <3> HIDE DEF c
    <3> QED
      BY <3>1, <3>2
  <2> HIDE DEF j, c
  <2>6. c[1] = line.cmds[j]
    BY <2>3, <2>4 DEF IsCut
  <2> QED
    BY <2>5, <2>6 DEF j
<1> QED
  BY <1>6, <1>7

\* ts is what the first command of a pipe of L + 1 segments prints and then what
\* each filter makes of it, the last of which the pipe answers.
PipeRun(line, L, s0, ts) ==
    /\ ts \in [0 .. L -> Carried]
    /\ ts[0] = Single(line.cmds[1], s0).out
    /\ \A k \in 1 .. L : ts[k] = Passed(line.cmds[k + 1].filter, ts[k - 1])
    /\ RoutePipe(line, s0) = Answer(Single(line.cmds[1], s0).s, ts[L])

\* A pipe, one filter after another.
LEMMA PipeSteps ==
    ASSUME NEW line, IsList(line), Range(line.ops) = {"|"}, NEW L \in Nat, L + 1 = Size(line),
           NEW s0 \in State, Size(line) <= MaxPipeDepth
    PROVE  \E ts : PipeRun(line, L, s0, ts)
<1> DEFINE a == RouteSingle(Pieces(line, "|")[1], s0)
           q == SubSeq(Pieces(line, "|"), 2, Len(Pieces(line, "|")))
           iter == CHOOSE iter : iter = [s \in SUBSET (1 .. L) |->
                      IF s = {} THEN a.out
                      ELSE IF iter[s \ {Max(s)}] = Absent
                              \/ Raises(q[Max(s)].cmds[1].filter, iter[s \ {Max(s)}])
                           THEN Absent
                           ELSE ApplyPipe(q[Max(s)].cmds[1].filter, iter[s \ {Max(s)}])]
           step == [p \in Carried \X (1 .. L) |-> Passed(q[p[2]].cmds[1].filter, p[1])]
<1>1. a = Single(line.cmds[1], s0) /\ a \in Answers /\ a.out \in Carried
  <2> HIDE DEF a, q, iter, step
  <2>1. 1 \in 1 .. Size(line) /\ Size(line) \in Nat
    <3>1. Size(line) = L + 1
      OBVIOUS
    <3> QED
      BY <3>1
  <2>2. Pieces(line, "|")[1] = Part(line, 1, 1)
    BY <2>1, UniformPieces
  <2>3. RouteSingle(Part(line, 1, 1), s0) = Single(line.cmds[1], s0)
    BY <2>1, OneCommand
  <2>4. line.cmds[1] \in Command
    BY ListShape
  <2>5. Single(line.cmds[1], s0) \in Answers
    BY <2>4, OneType
  <2>6. a = Single(line.cmds[1], s0)
    BY <2>2, <2>3 DEF a
  <2> QED
    BY <2>5, <2>6 DEF Answers, Carried
<1>2. DOMAIN q = 1 .. L /\ \A k \in 1 .. L : q[k].cmds[1].filter = line.cmds[k + 1].filter
  BY PipeSegments
<1>3. \A k \in 1 .. L : IsFilter(q[k].cmds[1].filter)
  <2> HIDE DEF q
  <2>1. ASSUME NEW k \in 1 .. L PROVE IsFilter(line.cmds[k + 1].filter)
    <3>1. k \in 1 .. (Size(line) - 1)
      OBVIOUS
    <3> QED
      BY <3>1, PipeFiltersOf
  <2> QED
    BY <1>2, <2>1
<1>4. RoutePipe(line, s0) = Answer(a.s, iter[1 .. L])
  <2>1. DOMAIN q = 1 .. L
    BY <1>2
  <2>2. ~(Len(Pieces(line, "|")) > MaxPipeDepth)
    <3>1. Size(line) \in Nat /\ MaxPipeDepth \in Nat
      BY ListShape, ShellAssumption
    <3>2. Len(Pieces(line, "|")) = Size(line)
      BY <3>1, UniformPieces
    <3> QED
      BY <3>1, <3>2
  <2> QED
    BY <2>1, <2>2 DEF RoutePipe, FoldLeft, MapThenFoldSet
<1> HIDE DEF a, q
<1>5. step \in [Carried \X (1 .. L) -> Carried]
  BY <1>3, PassedType
<1>6. \E f \in [SUBSET (1 .. L) -> Carried] : IsFold(f, L, a.out, step)
  <2>1. a.out \in Carried /\ L \in Nat
    BY <1>1
  <2> HIDE DEF step, iter
  <2> QED
    BY ONLY <2>1, <1>5, FoldExists
<1>7. PICK f \in [SUBSET (1 .. L) -> Carried] : IsFold(f, L, a.out, step)
  BY <1>6
<1>8. ASSUME NEW s \in SUBSET (1 .. L), s # {}
      PROVE  step[<<f[s \ {Max(s)}], Max(s)>>] = Passed(q[Max(s)].cmds[1].filter, f[s \ {Max(s)}])
  <2>1. Max(s) \in 1 .. L
    BY <1>8, MaxIn
  <2>2. f[s \ {Max(s)}] \in Carried
    OBVIOUS
  <2> QED
    BY <2>1, <2>2
<1> HIDE DEF step
<1>9. f = [s \in SUBSET (1 .. L) |->
                      IF s = {} THEN a.out
                      ELSE IF f[s \ {Max(s)}] = Absent
                              \/ Raises(q[Max(s)].cmds[1].filter, f[s \ {Max(s)}])
                           THEN Absent
                           ELSE ApplyPipe(q[Max(s)].cmds[1].filter, f[s \ {Max(s)}])]
  BY <1>7, <1>8 DEF IsFold, Passed
<1>10. iter = [s \in SUBSET (1 .. L) |->
                      IF s = {} THEN a.out
                      ELSE IF iter[s \ {Max(s)}] = Absent
                              \/ Raises(q[Max(s)].cmds[1].filter, iter[s \ {Max(s)}])
                           THEN Absent
                           ELSE ApplyPipe(q[Max(s)].cmds[1].filter, iter[s \ {Max(s)}])]
  BY <1>9, Zenon
<1> HIDE DEF iter
<1> DEFINE ts == [k \in 0 .. L |-> iter[1 .. k]]
<1>11. ts[0] = a.out
  <2>1. 1 .. 0 = {} /\ {} \in SUBSET (1 .. L) /\ 0 \in 0 .. L
    OBVIOUS
  <2> QED
    BY <1>10, <2>1
<1>12. ASSUME NEW k \in 1 .. L PROVE ts[k] = Passed(q[k].cmds[1].filter, ts[k - 1])
  <2>1. k \in 0 .. L /\ k - 1 \in 0 .. L
    OBVIOUS
  <2>2. 1 .. k \in SUBSET (1 .. L) /\ 1 .. k # {} /\ Max(1 .. k) = k /\ (1 .. k) \ {k} = 1 .. (k - 1)
    BY Intervals
  <2>3. iter[1 .. k] = Passed(q[k].cmds[1].filter, iter[1 .. (k - 1)])
    BY <1>10, <2>2, Zenon DEF Passed
  <2>4. ts[k] = iter[1 .. k] /\ ts[k - 1] = iter[1 .. (k - 1)]
    BY <2>1
  <2> HIDE DEF ts
  <2> QED
    BY <2>3, <2>4, Zenon
<1>13. ts[L] = iter[1 .. L]
  OBVIOUS
<1>14. DOMAIN ts = 0 .. L /\ ts = [k \in 0 .. L |-> ts[k]]
  OBVIOUS
<1> HIDE DEF ts
<1>15. \A k \in 0 .. L : ts[k] \in Carried
  <2>1. \A k \in 1 .. L : ts[k - 1] \in Carried => ts[k] \in Carried
    BY <1>3, <1>12, PassedType
  <2>2. ts[0] \in Carried
    BY <1>1, <1>11
  <2> QED
    BY <2>1, <2>2, StaysIn
<1>16. ts \in [0 .. L -> Carried]
  BY <1>14, <1>15
<1>17. \A k \in 1 .. L : ts[k] = Passed(line.cmds[k + 1].filter, ts[k - 1])
  BY <1>2, <1>12
<1>18. PipeRun(line, L, s0, ts)
  BY <1>1, <1>4, <1>11, <1>13, <1>16, <1>17 DEF PipeRun
<1> QED
  BY <1>18, Zenon

\* A pipe runs its first command as on a line of its own, and hands what it prints
\* from filter to filter: each prints what its program prints of what it was
\* handed, except where it is listed to differ, and one that raises ends it.  Of a
\* pipe longer than the code's limit nothing is run (route and _apply_pipe of
\* command_router.py).
THEOREM PipesRunPrograms ==
    ASSUME NEW line, line.kind = "list", IsList(line), Range(line.ops) = {"|"}, NEW s0 \in State
    PROVE  IF Size(line) > MaxPipeDepth THEN Route(line, s0) = Answer(s0, Says(Jumble))
           ELSE \E ts \in [0 .. Len(line.ops) -> Carried] :
              /\ ts[0] = Single(line.cmds[1], s0).out
              /\ Route(line, s0) = Answer(Single(line.cmds[1], s0).s, ts[Len(line.ops)])
              /\ \A k \in DOMAIN line.ops :
                    LET f == line.cmds[k + 1].filter
                        t == ts[k - 1]
                    IN \/ (t = Absent \/ Raises(f, t)) /\ ts[k] = Absent
                       \/ /\ t \in Text /\ ts[k] \in Text
                          /\ ~Differs(f, t) => Program(f, t.lines, ts[k].lines)
<1> DEFINE L == Len(line.ops)
<1>1. L \in Nat /\ L + 1 = Size(line) /\ DOMAIN line.ops = 1 .. L /\ L = Size(line) - 1
  <2>1. /\ Size(line) \in Nat /\ Size(line) >= 1
        /\ DOMAIN line.ops = 1 .. (Size(line) - 1) /\ Len(line.ops) = Size(line) - 1
    BY ListShape
  <2> HIDE DEF L
  <2>2. L = Size(line) - 1
    BY <2>1 DEF L
  <2> QED
    BY <2>1, <2>2
<1> HIDE DEF L
<1>2. Route(line, s0) = RoutePipe(line, s0)
  BY DEF Route, RouteList, Has
<1>3. CASE Size(line) > MaxPipeDepth
  <2>1. Size(line) \in Nat
    BY ListShape
  <2>2. Len(Pieces(line, "|")) = Size(line)
    BY <2>1, UniformPieces
  <2>3. RoutePipe(line, s0) = Answer(s0, Says(Jumble))
    BY <1>3, <2>2 DEF RoutePipe
  <2> QED
    BY <1>2, <1>3, <2>3
<1>4. CASE ~(Size(line) > MaxPipeDepth)
  <2>1. Size(line) <= MaxPipeDepth
    <3>1. Size(line) \in Nat /\ MaxPipeDepth \in Nat
      BY ListShape, ShellAssumption
    <3> QED
      BY <1>4, <3>1
  <2>2. PICK ts : PipeRun(line, L, s0, ts)
    <3>1. L \in Nat /\ L + 1 = Size(line)
      BY <1>1
    <3> QED
      BY <2>1, <3>1, PipeSteps, Zenon
  <2>3. /\ ts \in [0 .. L -> Carried]
        /\ ts[0] = Single(line.cmds[1], s0).out
        /\ \A k \in 1 .. L : ts[k] = Passed(line.cmds[k + 1].filter, ts[k - 1])
        /\ RoutePipe(line, s0) = Answer(Single(line.cmds[1], s0).s, ts[L])
    BY <2>2, Zenon DEF PipeRun
  <2>4. ASSUME NEW k \in 1 .. L, NEW f, f = line.cmds[k + 1].filter, NEW t, t = ts[k - 1]
        PROVE  \/ (t = Absent \/ Raises(f, t)) /\ ts[k] = Absent
               \/ /\ t \in Text /\ ts[k] \in Text
                  /\ ~Differs(f, t) => Program(f, t.lines, ts[k].lines)
    <3>1. ts[k] = Passed(f, t) /\ t \in Carried
      <4>1. k - 1 \in 0 .. L
        BY <1>1
      <4> QED
        BY <2>3, <2>4, <4>1
    <3>2. IsFilter(f)
      BY <1>1, <2>4, PipeFiltersOf
    <3>3. CASE t = Absent \/ Raises(f, t)
      BY <3>1, <3>3 DEF Passed
    <3>4. CASE ~(t = Absent \/ Raises(f, t))
      <4>1. t \in Text /\ ts[k] = ApplyPipe(f, t)
        BY <3>1, <3>4 DEF Passed, Carried
      <4>2. ApplyPipe(f, t) \in Text
        BY <3>2, <4>1, FilterType
      <4>3. ~Differs(f, t) => Program(f, t.lines, ApplyPipe(f, t).lines)
        BY <3>2, <3>4, <4>1, FilterAgrees
      <4> QED
        BY <4>1, <4>2, <4>3
    <3> QED
      BY <3>3, <3>4
  <2>5. \A k \in DOMAIN line.ops :
            LET f == line.cmds[k + 1].filter
                t == ts[k - 1]
            IN \/ (t = Absent \/ Raises(f, t)) /\ ts[k] = Absent
               \/ /\ t \in Text /\ ts[k] \in Text
                  /\ ~Differs(f, t) => Program(f, t.lines, ts[k].lines)
    BY <1>1, <2>4
  <2> QED
    BY <1>2, <1>4, <2>3, <2>5 DEF L
<1> QED
  BY <1>3, <1>4
=============================================================================
