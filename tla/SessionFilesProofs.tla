--------------------------- MODULE SessionFilesProofs ---------------------------
(* Proofs about the copy-on-write filesystem and the channels that share it:  *)
(* for every base tree, every set of paths and every quota.                   *)
EXTENDS SessionFiles, FiniteSetTheorems, TLAPS

(* Paths *)

LEMMA SubSeqOfSubSeq ==
    ASSUME NEW S, NEW p \in Seq(S), NEW n \in 0..Len(p), NEW m \in 0..n
    PROVE  /\ SubSeq(p, 1, n) \in Seq(S) /\ Len(SubSeq(p, 1, n)) = n
           /\ SubSeq(SubSeq(p, 1, n), 1, m) = SubSeq(p, 1, m)
OBVIOUS

(* The paths above a path are a chain, and those above one of them are too. *)
LEMMA AboveFacts ==
    ASSUME NEW p \in Paths
    PROVE  /\ Above[p] \subseteq Paths /\ p \notin Above[p]
           /\ \A q \in Above[p] : Above[q] \subseteq Above[p]
           /\ \A q, r \in Above[p] : q = r \/ q \in Above[r] \/ r \in Above[q]
<1>0. p \in Seq(Names) /\ Len(p) \in Nat
  BY FilesystemAssumption
<1>1. Above[p] \subseteq Paths
  BY FilesystemAssumption
<1>2. \A n \in 0..Len(p) : \A m \in 0..n :
        Len(SubSeq(p, 1, n)) = n /\ SubSeq(SubSeq(p, 1, n), 1, m) = SubSeq(p, 1, m)
  BY <1>0, SubSeqOfSubSeq
<1>3. p \notin Above[p]
  BY <1>0, <1>2 DEF Above
<1>4. ASSUME NEW q \in Above[p] PROVE Above[q] \subseteq Above[p]
  <2>1. PICK n \in 0..Len(p) - 1 : q = SubSeq(p, 1, n)
    BY DEF Above
  <2>2. q \in Paths /\ Len(q) = n
    BY <1>0, <1>1, <1>2, <2>1
  <2>3. ASSUME NEW r \in Above[q] PROVE r \in Above[p]
    <3>1. PICK m \in 0..n - 1 : r = SubSeq(q, 1, m)
      BY <2>2 DEF Above
    <3>2. r = SubSeq(p, 1, m) /\ m \in 0..Len(p) - 1
      BY <1>0, <1>2, <2>1, <3>1
    <3>. QED  BY <3>2 DEF Above
  <2>. QED  BY <2>3
<1>5. ASSUME NEW q \in Above[p], NEW r \in Above[p] PROVE q = r \/ q \in Above[r] \/ r \in Above[q]
  <2>1. PICK m \in 0..Len(p) - 1 : q = SubSeq(p, 1, m)
    BY DEF Above
  <2>2. PICK n \in 0..Len(p) - 1 : r = SubSeq(p, 1, n)
    BY DEF Above
  <2>3. q \in Paths /\ r \in Paths /\ Len(q) = m /\ Len(r) = n
    BY <1>0, <1>1, <1>2, <2>1, <2>2
  <2>4. CASE m < n
    <3>1. q = SubSeq(r, 1, m) /\ m \in 0..Len(r) - 1
      BY <1>0, <1>2, <2>1, <2>2, <2>3, <2>4
    <3>. QED  BY <2>3, <3>1 DEF Above
  <2>5. CASE n < m
    <3>1. r = SubSeq(q, 1, n) /\ n \in 0..Len(q) - 1
      BY <1>0, <1>2, <2>1, <2>2, <2>3, <2>5
    <3>. QED  BY <2>3, <3>1 DEF Above
  <2>. QED  BY <2>1, <2>2, <2>4, <2>5
<1>. QED  BY <1>1, <1>3, <1>4, <1>5

LEMMA UpToFacts ==
    ASSUME NEW p \in Paths
    PROVE  /\ UpTo[p] = Above[p] \cup {p} /\ UpTo[p] \subseteq Paths
           /\ \A q \in UpTo[p] : UpTo[q] \subseteq UpTo[p] /\ Above[q] \subseteq UpTo[p]
           /\ \A q, r \in UpTo[p] : q = r \/ q \in Above[r] \/ r \in Above[q]
<1>1. UpTo[p] = Above[p] \cup {p} /\ \A q \in Paths : UpTo[q] = Above[q] \cup {q}
  BY DEF UpTo
<1>. QED  BY <1>1, AboveFacts

LEMMA ParentFacts ==
    ASSUME NEW p \in Paths \ {Root}
    PROVE  Parent(p) \in Paths /\ UpTo[Parent(p)] = Above[p]
<1>0. p \in Seq(Names) /\ Len(p) \in Nat /\ Len(p) # 0
  BY FilesystemAssumption DEF Root
<1>1. Parent(p) \in Above[p] /\ Len(Parent(p)) = Len(p) - 1
  <2>1. Len(p) - 1 \in 0..Len(p) /\ Len(p) - 1 \in 0..Len(p) - 1
    BY <1>0
  <2>2. Len(Parent(p)) = Len(p) - 1
    BY ONLY <1>0, <2>1, SubSeqOfSubSeq DEF Parent
  <2>3. Above[p] = {SubSeq(p, 1, n) : n \in 0..Len(p) - 1}
    BY DEF Above
  <2>. QED  BY <2>1, <2>2, <2>3 DEF Parent
<1>2. Parent(p) \in Paths
  BY <1>1, AboveFacts
<1>3. \A m \in 0..Len(p) - 1 : SubSeq(Parent(p), 1, m) = SubSeq(p, 1, m)
  BY <1>0, SubSeqOfSubSeq DEF Parent
<1>4. Above[Parent(p)] = {SubSeq(p, 1, n) : n \in 0..Len(p) - 2}
  BY <1>0, <1>1, <1>2, <1>3 DEF Above
<1>5. Above[p] = {SubSeq(p, 1, n) : n \in 0..Len(p) - 2} \cup {SubSeq(p, 1, Len(p) - 1)}
  BY <1>0 DEF Above
<1>. QED  BY <1>2, <1>4, <1>5, UpToFacts DEF Parent

----------------------------------------------------------------------------
(* The overlay as a tree *)

\* A node is put where its parents are directories, or taken away.
LEMMA PutKeepsTree ==
    ASSUME NEW t, IsTree(t), NEW p \in Paths \ {Root}, NEW v \in Nodes,
           v = "none" \/ \A q \in Above[p] : t[q] = "dir"
    PROVE  IsTree(Put(t, p, v)) /\ Put(t, p, v)[p] = v
<1>1. Root \in Paths /\ Put(t, p, v) \in [Paths -> Nodes] /\ Put(t, p, v)[p] = v
  BY FilesystemAssumption DEF IsTree, Put, Nodes
<1>2. Put(t, p, v)[Root] = "dir"
  BY <1>1 DEF IsTree, Put, Above, Root
<1>3. ASSUME NEW q \in Paths, Put(t, p, v)[q] # "none", NEW r \in Above[q]
      PROVE  Put(t, p, v)[r] = "dir"
  <2>1. r \in Paths /\ r # q /\ Above[r] \subseteq Above[q]
    BY AboveFacts
  <2>2. CASE q = p
    BY <1>3, <2>1, <2>2, AboveFacts DEF Put
  <2>3. CASE q # p
    <3>1. p \notin Above[q] /\ t[q] # "none"
      BY <1>3, <2>3 DEF Put
    <3>2. r # p /\ p \notin Above[r] /\ t[r] = "dir"
      BY <2>1, <3>1 DEF IsTree
    <3>. QED  BY <2>1, <3>2 DEF Put
  <2>. QED  BY <2>2, <2>3
<1>. QED  BY <1>1, <1>2, <1>3 DEF IsTree

LEMMA FinitePaths == \A S \in SUBSET Paths : IsFiniteSet(S) /\ Cardinality(S) \in Nat
BY FilesystemAssumption, FS_Subset, FS_CardinalityType

LEMMA MadeFacts ==
    ASSUME NEW f, FilesystemOK(f), NEW p \in Paths
    PROVE  /\ Made(f, p) \subseteq UpTo[p] /\ Made(f, p) \subseteq Paths /\ IsFiniteSet(Made(f, p))
           /\ \A q \in Made(f, p) : f.overlay[q] = "none"
           /\ \A q \in Made(f, p) : \A r \in Above[q] : f.overlay[r] = "dir" \/ r \in Made(f, p)
<1>1. Made(f, p) \subseteq UpTo[p] /\ Made(f, p) \subseteq Paths
  BY UpToFacts DEF Made, Missing
<1>2. ASSUME NEW q \in Made(f, p), NEW r \in Above[q], f.overlay[r] # "dir"
      PROVE  r \in Made(f, p)
  <2>1. q \in Paths /\ q \in UpTo[p] /\ r \in UpTo[p] /\ r \in Paths /\ Above[r] \subseteq Above[q]
    BY <1>1, UpToFacts, AboveFacts
  <2>2. f.overlay[r] = "none"
    BY <1>2, <2>1 DEF Made, Blocked, FilesystemOK, IsTree, Nodes
  <2>3. Missing(f, p) \subseteq Paths
    BY UpToFacts DEF Missing
  <2>4. Cardinality(Missing(f, p) \cap Above[r]) <= Cardinality(Missing(f, p) \cap Above[q])
    <3>. DEFINE A == Missing(f, p) \cap Above[r]
                B == Missing(f, p) \cap Above[q]
    <3>1. A \in SUBSET B /\ IsFiniteSet(B)
      BY <2>1, <2>3, FinitePaths
    <3>. HIDE DEF A, B
    <3>2. Cardinality(A) <= Cardinality(B)
      BY <3>1, FS_Subset
    <3>. QED  BY <3>2 DEF A, B
  <2>5. /\ Cardinality(Missing(f, p) \cap Above[r]) \in Nat
        /\ Cardinality(Missing(f, p) \cap Above[q]) \in Nat
    BY <2>3, FinitePaths
  <2>6. f.count \in Nat /\ MaxFiles \in Nat
    BY FilesystemAssumption DEF FilesystemOK
  <2>7. f.count + Cardinality(Missing(f, p) \cap Above[q]) < MaxFiles /\ ~Blocked(f, p)
    BY DEF Made
  <2>8. f.count + Cardinality(Missing(f, p) \cap Above[r]) < MaxFiles
    BY ONLY <2>4, <2>5, <2>6, <2>7
  <2>. QED  BY <2>1, <2>2, <2>7, <2>8 DEF Made, Missing
<1>. QED  BY <1>1, <1>2, FinitePaths DEF Made, Missing

(* As many directories are made as the quota leaves room for: those made are  *)
(* a chain, and above the lowest one there were fewer than that.              *)
LEMMA MadeFitsQuota ==
    ASSUME NEW f, FilesystemOK(f), NEW p \in Paths
    PROVE  Made(f, p) = {} \/ f.count + Cardinality(Made(f, p)) <= MaxFiles
<1>. DEFINE M == Made(f, p)
            T == {M \ UpTo[q] : q \in M}
<1>. SUFFICES ASSUME M # {} PROVE f.count + Cardinality(M) <= MaxFiles
  OBVIOUS
<1>1. M \subseteq UpTo[p] /\ M \subseteq Paths /\ IsFiniteSet(M)
  BY MadeFacts
<1>2. \E x \in T : \A y \in T : ~(<<y, x>> \in StrictSubsetOrdering(M))
  <2>1. T \subseteq SUBSET M /\ T # {} /\ IsFiniteSet(M)
    BY <1>1
  <2>. HIDE DEF T, M
  <2>2. T \subseteq FiniteSubsetsOf(M)
    BY <2>1, FS_FiniteSubsetsOfFinite
  <2>. QED  BY <2>1, <2>2, FS_StrictSubsetOrderingWellFounded, WFMin
<1>3. PICK q \in M : \A y \in T : ~(<<y, M \ UpTo[q]>> \in StrictSubsetOrdering(M))
  BY <1>2
<1>4. M \subseteq UpTo[q]
  <2>1. SUFFICES ASSUME NEW r \in M, r \notin UpTo[q] PROVE FALSE
    OBVIOUS
  <2>2. q \in Above[r] /\ r \in Paths /\ q \in Paths
    BY <1>1, <2>1, UpToFacts
  <2>3. UpTo[q] \subseteq UpTo[r] /\ r \in UpTo[r]
    BY <2>2, UpToFacts
  <2>4. M \ UpTo[r] \subseteq M \ UpTo[q] /\ M \ UpTo[r] # M \ UpTo[q]
    BY <2>1, <2>3
  <2>5. <<M \ UpTo[r], M \ UpTo[q]>> \in StrictSubsetOrdering(M)
    BY <2>4 DEF StrictSubsetOrdering
  <2>. QED  BY <1>3, <2>1, <2>5
<1>5. M \subseteq (Missing(f, p) \cap Above[q]) \cup {q}
  BY <1>1, <1>4, UpToFacts DEF Made
<1>6. Missing(f, p) \cap Above[q] \subseteq Paths
  BY UpToFacts DEF Missing
<1>. DEFINE A == Missing(f, p) \cap Above[q]
<1>7. IsFiniteSet(A) /\ Cardinality(A) \in Nat /\ Cardinality(M) \in Nat
  BY <1>1, <1>6, FinitePaths
<1>8. Cardinality(M) <= Cardinality(A) + 1
  <2>1. M \subseteq A \cup {q}
    BY <1>5
  <2>. HIDE DEF A, M
  <2>2. IsFiniteSet(A \cup {q}) /\ Cardinality(A \cup {q}) <= Cardinality(A) + 1
    <3>1. IsFiniteSet(A) /\ Cardinality(A) \in Nat
      BY <1>7
    <3>2. /\ IsFiniteSet(A \cup {q})
          /\ Cardinality(A \cup {q}) = IF q \in A THEN Cardinality(A) ELSE Cardinality(A) + 1
      BY ONLY <3>1, FS_AddElement
    <3>. QED  BY ONLY <3>1, <3>2
  <2>3. Cardinality(M) <= Cardinality(A \cup {q}) /\ Cardinality(A \cup {q}) \in Nat
    BY <2>1, <2>2, FS_Subset, FS_CardinalityType
  <2>. QED  BY <1>7, <2>2, <2>3
<1>9. f.count + Cardinality(A) < MaxFiles
  BY DEF Made
<1>10. f.count \in Nat /\ MaxFiles \in Nat
  BY FilesystemAssumption DEF FilesystemOK
<1>. QED  BY ONLY <1>7, <1>8, <1>9, <1>10

----------------------------------------------------------------------------
(* The operations *)

Sound(f) == FilesystemOK(f) /\ QuotaOK(f)

\* If what is added to the overlay was counted, the quota holds on.
LEMMA AddedIsCounted ==
    ASSUME NEW f, Sound(f), NEW g, FilesystemOK(g), NEW S \in SUBSET Paths,
           Added(g) \subseteq Added(f) \cup S, f.count + Cardinality(S) <= g.count,
           g.count <= MaxFiles + 1
    PROVE  Sound(g)
<1>. DEFINE A == Added(f)
            B == Added(g)
<1>1. A \subseteq Paths /\ B \subseteq Paths /\ A \cup S \subseteq Paths /\ B \subseteq A \cup S
  BY DEF Added
<1>2. /\ Cardinality(A) <= f.count /\ f.count \in Nat /\ g.count \in Nat
      /\ f.count + Cardinality(S) <= g.count
  BY DEF Sound, QuotaOK, FilesystemOK
<1>. HIDE DEF A, B
<1>3. /\ IsFiniteSet(A) /\ IsFiniteSet(B) /\ IsFiniteSet(S) /\ IsFiniteSet(A \cup S)
      /\ Cardinality(A) \in Nat /\ Cardinality(B) \in Nat /\ Cardinality(S) \in Nat
      /\ Cardinality(A \cap S) \in Nat
  BY <1>1, FinitePaths
<1>4. Cardinality(A \cup S) = Cardinality(A) + Cardinality(S) - Cardinality(A \cap S)
  BY ONLY <1>3, FS_Union
<1>5. Cardinality(B) <= Cardinality(A \cup S)
  BY ONLY <1>1, <1>3, FS_Subset
<1>6. Cardinality(B) <= g.count
  BY ONLY <1>2, <1>3, <1>4, <1>5
<1>. QED  BY <1>6 DEF Sound, QuotaOK, B

LEMMA EnsureDirSound ==
    ASSUME NEW f, Sound(f), NEW p \in Paths
    PROVE  LET g == EnsureDir(f, p)
           IN  /\ Sound(g) /\ g.gone = f.gone
               /\ g.ok => \A q \in UpTo[p] : g.overlay[q] = "dir"
               /\ f.count < MaxFiles => g.count <= MaxFiles
<1>. DEFINE g == EnsureDir(f, p)
            M == Made(f, p)
<1>1. /\ f \in [overlay : [Paths -> Nodes], gone : SUBSET (Paths \ {Root}), count : Nat, ok : BOOLEAN]
      /\ IsTree(f.overlay) /\ f.count <= MaxFiles + 1 /\ MaxFiles \in Nat
  BY FilesystemAssumption DEF Sound, FilesystemOK, QuotaOK
<1>2. /\ M \subseteq Paths /\ IsFiniteSet(M) /\ Cardinality(M) \in Nat
      /\ \A q \in M : \A r \in Above[q] : f.overlay[r] = "dir" \/ r \in M
  BY MadeFacts, FinitePaths DEF Sound
<1>3. M = {} \/ f.count + Cardinality(M) <= MaxFiles
  BY MadeFitsQuota DEF Sound
<1>4. Cardinality({}) = 0
  BY FS_EmptySet
<1>5. /\ g.overlay = [q \in Paths |-> IF q \in M THEN "dir" ELSE f.overlay[q]]
      /\ g.count = f.count + Cardinality(M)
      /\ g.gone = f.gone
      /\ g.ok = (~Blocked(f, p) /\ M = Missing(f, p))
      /\ g \in [overlay : [Paths -> Nodes], gone : SUBSET (Paths \ {Root}), count : Nat, ok : BOOLEAN]
  <2>1. (~Blocked(f, p) /\ M = Missing(f, p)) \in BOOLEAN
    OBVIOUS
  <2>2. [q \in Paths |-> IF q \in M THEN "dir" ELSE f.overlay[q]] \in [Paths -> Nodes]
    BY <1>1 DEF Nodes
  <2>3. f.count + Cardinality(M) \in Nat
    BY <1>1, <1>2
  <2>. DEFINE o == [q \in Paths |-> IF q \in M THEN "dir" ELSE f.overlay[q]]
              n == f.count + Cardinality(M)
              b == (~Blocked(f, p) /\ M = Missing(f, p))
  <2>4. g = [f EXCEPT !.overlay = o, !.count = n, !.ok = b]
    BY DEF EnsureDir
  <2>5. o \in [Paths -> Nodes] /\ n \in Nat /\ b \in BOOLEAN
    BY <2>1, <2>2, <2>3
  <2>. HIDE DEF g, o, n, b
  <2>6. /\ g.overlay = o /\ g.count = n /\ g.gone = f.gone /\ g.ok = b
        /\ g \in [overlay : [Paths -> Nodes], gone : SUBSET (Paths \ {Root}), count : Nat, ok : BOOLEAN]
    BY ONLY <1>1, <2>4, <2>5
  <2>. QED  BY <2>6 DEF o, n, b
<1>6. IsTree(g.overlay)
  <2>1. g.overlay \in [Paths -> Nodes] /\ g.overlay[Root] = "dir"
    BY <1>1, <1>5, FilesystemAssumption DEF IsTree
  <2>2. ASSUME NEW q \in Paths, g.overlay[q] # "none", NEW r \in Above[q] PROVE g.overlay[r] = "dir"
    <3>1. r \in Paths
      BY AboveFacts
    <3>2. f.overlay[r] = "dir" \/ r \in M
      BY <1>1, <1>2, <1>5, <2>2 DEF IsTree
    <3>. QED  BY <1>5, <3>1, <3>2
  <2>. QED  BY <2>1, <2>2 DEF IsTree
<1>7. FilesystemOK(g)
  BY <1>5, <1>6 DEF FilesystemOK
<1>8. g.count <= MaxFiles + 1 /\ (f.count < MaxFiles => g.count <= MaxFiles)
  BY ONLY <1>1, <1>2, <1>3, <1>4, <1>5
<1>9. Sound(g)
  <2>1. Added(g) \subseteq Added(f) \cup M
    BY <1>5 DEF Added
  <2>2. f.count + Cardinality(M) <= g.count
    BY <1>1, <1>2, <1>5
  <2>. HIDE DEF g, M
  <2>. QED  BY <1>2, <1>7, <1>8, <2>1, <2>2, AddedIsCounted
<1>10. ASSUME g.ok, NEW q \in UpTo[p] PROVE g.overlay[q] = "dir"
  <2>1. q \in Paths /\ f.overlay[q] \in Nodes
    BY <1>1, UpToFacts
  <2>2. f.overlay[q] \notin Contents /\ (f.overlay[q] = "none" => q \in M)
    BY <1>5, <1>10 DEF Blocked, Missing
  <2>. QED  BY <1>5, <2>1, <2>2 DEF Nodes
<1>. QED  BY <1>5, <1>8, <1>9, <1>10

\* Only ok differs.
LEMMA ResultSound ==
    ASSUME NEW f, Sound(f), NEW b \in BOOLEAN
    PROVE  Sound(Result(f, b))
BY DEF Sound, FilesystemOK, QuotaOK, Added, Result

LEMMA AddNodeSound ==
    ASSUME NEW f, Sound(f), f.count < MaxFiles, NEW p \in Paths \ {Root},
           NEW v \in Contents \cup {"dir"}
    PROVE  Sound(AddNode(f, p, v))
<1>. DEFINE g == EnsureDir(f, Parent(p))
            h == [g EXCEPT !.overlay = Put(@, p, v), !.gone = @ \ {p}, !.count = @ + 1]
<1>1. /\ Sound(g) /\ g.count <= MaxFiles
      /\ g.ok => \A q \in Above[p] : g.overlay[q] = "dir"
  BY ParentFacts, EnsureDirSound
<1>2. CASE ~g.ok
  BY <1>1, <1>2 DEF AddNode
<1>3. CASE g.ok
  <2>0. /\ g \in [overlay : [Paths -> Nodes], gone : SUBSET (Paths \ {Root}), count : Nat, ok : BOOLEAN]
        /\ IsTree(g.overlay) /\ MaxFiles \in Nat /\ v \in Nodes
    BY <1>1, FilesystemAssumption DEF Sound, FilesystemOK, Nodes
  <2>. HIDE DEF g
  <2>1. IsTree(Put(g.overlay, p, v)) /\ Put(g.overlay, p, v) \in [Paths -> Nodes]
    BY <1>1, <1>3, <2>0, PutKeepsTree DEF IsTree
  <2>2. FilesystemOK(h) /\ h.count = g.count + 1 /\ h.overlay = Put(g.overlay, p, v)
    <3>. DEFINE o == Put(g.overlay, p, v)
                s == g.gone \ {p}
                n == g.count + 1
    <3>1. h = [g EXCEPT !.overlay = o, !.gone = s, !.count = n]
      OBVIOUS
    <3>2. /\ o \in [Paths -> Nodes] /\ IsTree(o) /\ n = g.count + 1
          /\ s \in SUBSET (Paths \ {Root}) /\ n \in Nat
      BY <2>0, <2>1
    <3>. HIDE DEF h, o, s, n
    <3>3. /\ h.overlay = o /\ h.count = g.count + 1
          /\ h \in [overlay : [Paths -> Nodes], gone : SUBSET (Paths \ {Root}), count : Nat, ok : BOOLEAN]
      BY ONLY <2>0, <3>1, <3>2
    <3>. QED  BY <3>2, <3>3 DEF FilesystemOK, o
  <2>3. Added(h) \subseteq Added(g) \cup {p}
    BY <2>2 DEF Added, Put
  <2>4. g.count + Cardinality({p}) <= h.count /\ h.count <= MaxFiles + 1
    <3>1. Cardinality({p}) = 1
      BY FS_Singleton
    <3>2. g.count \in Nat /\ g.count <= MaxFiles /\ h.count = g.count + 1
      BY <1>1, <2>0, <2>2
    <3>. HIDE DEF h
    <3>. QED  BY ONLY <2>0, <3>1, <3>2
  <2>. HIDE DEF h
  <2>5. Sound(h)
    BY <1>1, <2>2, <2>3, <2>4, AddedIsCounted
  <2>. QED  BY <1>3, <2>5 DEF AddNode, g, h
<1>. QED  BY <1>2, <1>3

LEMMA CreateFileSound ==
    ASSUME NEW f, Sound(f), NEW p \in Paths \ {Root}, NEW c \in Contents
    PROVE  Sound(CreateFile(f, p, c))
<1>1. f.count \in Nat /\ MaxFiles \in Nat
  BY FilesystemAssumption DEF Sound, FilesystemOK
<1>2. CASE f.count >= MaxFiles
  BY <1>2, ResultSound DEF CreateFile
<1>3. CASE f.count < MaxFiles
  <2>1. ~(f.count >= MaxFiles)
    BY <1>1, <1>3
  <2>. QED  BY <1>3, <2>1, AddNodeSound DEF CreateFile
<1>. QED  BY <1>1, <1>2, <1>3

LEMMA AppendFileSound ==
    ASSUME NEW f, Sound(f), NEW p \in Paths \ {Root}, NEW c \in Contents
    PROVE  Sound(AppendFile(f, p, c))
<1>1. CASE f.overlay[p] \in Contents
  <2>. DEFINE h == [f EXCEPT !.overlay[p] = c, !.ok = TRUE]
  <2>1. c \notin {"none", "dir"} /\ f.overlay[p] \notin {"none", "dir"} /\ c \in Nodes
    BY <1>1, FilesystemAssumption DEF Nodes
  <2>2. /\ FilesystemOK(f) /\ QuotaOK(f)
        /\ h.overlay = [f.overlay EXCEPT ![p] = c] /\ h.count = f.count
    BY DEF Sound, FilesystemOK
  <2>. DEFINE o == [f.overlay EXCEPT ![p] = c]
  <2>3. f.overlay \in [Paths -> Nodes] /\ o \in [Paths -> Nodes] /\ h = [f EXCEPT !.overlay = o, !.ok = TRUE]
    BY <2>1, <2>2 DEF FilesystemOK
  <2>4. /\ IsTree(o)
        /\ \A q \in Paths : (o[q] # "none") <=> (f.overlay[q] # "none")
    BY <2>1, <2>2, <2>3 DEF FilesystemOK, IsTree
  <2>. HIDE DEF h, o
  <2>5. h \in [overlay : [Paths -> Nodes], gone : SUBSET (Paths \ {Root}), count : Nat, ok : BOOLEAN]
        /\ h.overlay = o /\ h.count = f.count
    BY <2>2, <2>3 DEF FilesystemOK
  <2>6. Added(h) = Added(f)
    BY <2>4, <2>5 DEF Added
  <2>7. Sound(h)
    BY <2>2, <2>4, <2>5, <2>6 DEF FilesystemOK, QuotaOK, Sound
  <2>. QED  BY <1>1, <2>7 DEF AppendFile, h
<1>. QED  BY <1>1, CreateFileSound DEF AppendFile

LEMMA CreateDirectorySound ==
    ASSUME NEW f, Sound(f), NEW p \in Paths \ {Root}
    PROVE  Sound(CreateDirectory(f, p)) /\ Sound(CreateDirectories(f, p))
<1>1. f.count \in Nat /\ MaxFiles \in Nat
  BY FilesystemAssumption DEF Sound, FilesystemOK
<1>2. Sound(CreateDirectory(f, p))
  <2>1. CASE f.count >= MaxFiles \/ Lookup(f, p) # "none"
    BY <2>1, ResultSound DEF CreateDirectory
  <2>2. CASE ~(f.count >= MaxFiles \/ Lookup(f, p) # "none")
    <3>1. f.count < MaxFiles
      BY <1>1, <2>2
    <3>. QED  BY <2>2, <3>1, AddNodeSound DEF CreateDirectory
  <2>. QED  BY <2>1, <2>2
<1>3. Sound([EnsureDir(f, p) EXCEPT !.gone = @ \ {p}, !.ok = TRUE])
  <2>. DEFINE g == EnsureDir(f, p)
  <2>1. Sound(g)
    BY EnsureDirSound
  <2>. HIDE DEF g
  <2>2. Sound([g EXCEPT !.gone = @ \ {p}, !.ok = TRUE])
    BY <2>1 DEF Sound, FilesystemOK, QuotaOK, Added
  <2>. QED  BY <2>2 DEF g
<1>. QED  BY <1>2, <1>3, ResultSound DEF CreateDirectories

\* Nodes are taken from the overlay, and tombstones set.
LEMMA TakeAway ==
    ASSUME NEW f, Sound(f), NEW p \in Paths \ {Root}, NEW S \in SUBSET (Paths \ {Root})
    PROVE  /\ Sound([f EXCEPT !.overlay = Put(@, p, "none"), !.gone = @ \cup S, !.ok = TRUE])
           /\ Sound([f EXCEPT !.gone = @ \cup S, !.ok = TRUE])
<1>0. /\ f \in [overlay : [Paths -> Nodes], gone : SUBSET (Paths \ {Root}), count : Nat, ok : BOOLEAN]
      /\ IsTree(f.overlay) /\ "none" \in Nodes
      /\ Cardinality(Added(f)) <= f.count /\ f.count <= MaxFiles + 1
  BY DEF Sound, FilesystemOK, QuotaOK, Nodes
<1>. DEFINE h == [f EXCEPT !.overlay = Put(@, p, "none"), !.gone = @ \cup S, !.ok = TRUE]
<1>1. IsTree(Put(f.overlay, p, "none")) /\ Put(f.overlay, p, "none") \in [Paths -> Nodes]
  BY <1>0, PutKeepsTree DEF IsTree
<1>2. FilesystemOK(h) /\ h.overlay = Put(f.overlay, p, "none") /\ h.count = f.count
  BY <1>0, <1>1 DEF FilesystemOK
<1>3. Added(h) \subseteq Added(f) \cup {}
  BY <1>2 DEF Added, Put
<1>4. f.count + Cardinality({}) <= h.count /\ h.count <= MaxFiles + 1
  BY <1>0, <1>2, FS_EmptySet
<1>5. Sound(h)
  <2>. HIDE DEF h
  <2>. QED  BY <1>2, <1>3, <1>4, AddedIsCounted
<1>6. Sound([f EXCEPT !.gone = @ \cup S, !.ok = TRUE])
  BY <1>0 DEF Sound, FilesystemOK, QuotaOK, Added
<1>. QED  BY <1>5, <1>6

LEMMA RemoveFileSound ==
    ASSUME NEW f, Sound(f), NEW p \in Paths \ {Root}
    PROVE  Sound(RemoveFile(f, p))
<1>1. /\ Sound([f EXCEPT !.overlay = Put(@, p, "none"), !.gone = @ \cup {p}, !.ok = TRUE])
      /\ Sound([f EXCEPT !.gone = @ \cup {p}, !.ok = TRUE])
      /\ Sound(Result(f, FALSE))
  BY TakeAway, ResultSound
<1>2. CASE f.overlay[p] \in Contents
  BY <1>1, <1>2 DEF RemoveFile
<1>3. CASE f.overlay[p] \notin Contents
  <2>1. [f EXCEPT !.overlay = @, !.gone = @ \cup {p}, !.ok = TRUE] = [f EXCEPT !.gone = @ \cup {p}, !.ok = TRUE]
    BY DEF Sound, FilesystemOK
  <2>. QED  BY <1>1, <1>3, <2>1 DEF RemoveFile
<1>. QED  BY <1>2, <1>3

LEMMA RemoveDirectorySound ==
    ASSUME NEW f, Sound(f), NEW p \in Paths \ {Root}, NEW recursive \in BOOLEAN
    PROVE  Sound(RemoveDirectory(f, p, recursive))
<1>. DEFINE S == IF recursive THEN Doomed(f, p) ELSE {p}
<1>1. Root \in Paths /\ UpTo[Root] = {Root}
  BY FilesystemAssumption DEF UpTo, Above, Root
<1>2. S \in SUBSET (Paths \ {Root})
  BY <1>1 DEF Doomed, Listed
<1>. HIDE DEF S
<1>3. Sound([f EXCEPT !.overlay = Put(@, p, "none"), !.gone = @ \cup S, !.ok = TRUE])
  BY <1>2, TakeAway
<1>. QED  BY <1>3, ResultSound DEF RemoveDirectory, S

LEMMA CopyUpSound ==
    ASSUME NEW f, Sound(f), NEW p \in Paths \ {Root}
    PROVE  Sound(CopyUp(f, p))
<1>. DEFINE g == EnsureDir(f, Parent(p))
            h == [g EXCEPT !.overlay = Put(@, p, Base[p])]
<1>1. /\ Sound(g)
      /\ g.ok => \A q \in Above[p] : g.overlay[q] = "dir"
  BY ParentFacts, EnsureDirSound
<1>2. ASSUME g.ok, f.overlay[p] = "none", Lookup(f, p) # "none" PROVE Sound(h)
  <2>0. /\ g \in [overlay : [Paths -> Nodes], gone : SUBSET (Paths \ {Root}), count : Nat, ok : BOOLEAN]
        /\ IsTree(g.overlay) /\ g.count <= MaxFiles + 1 /\ Base[p] \in Nodes /\ Base[p] # "none"
    BY <1>1, <1>2, FilesystemAssumption DEF Sound, FilesystemOK, QuotaOK, IsTree, Lookup
  <2>. HIDE DEF g
  <2>1. IsTree(Put(g.overlay, p, Base[p])) /\ Put(g.overlay, p, Base[p]) \in [Paths -> Nodes]
    BY <1>1, <1>2, <2>0, PutKeepsTree DEF IsTree
  <2>2. FilesystemOK(h) /\ h.count = g.count /\ h.overlay = Put(g.overlay, p, Base[p])
    BY <2>0, <2>1 DEF FilesystemOK
  <2>3. Added(h) \subseteq Added(g) \cup {}
    BY <2>0, <2>2 DEF Added, Put
  <2>4. g.count + Cardinality({}) <= h.count
    BY <2>0, <2>2, FS_EmptySet
  <2>. HIDE DEF h
  <2>. QED  BY <1>1, <2>0, <2>2, <2>3, <2>4, AddedIsCounted
<1>. QED  BY <1>1, <1>2, ResultSound DEF CopyUp

----------------------------------------------------------------------------
(* The commands                                                               *)

HandlesOK == handles \subseteq Paths

LEMMA InitSound ==
    ASSUME Init
    PROVE  Sound(fs) /\ HandlesOK
<1>1. /\ fs.overlay = [p \in Paths |-> IF p = Root THEN "dir" ELSE "none"]
      /\ fs.gone = {} /\ fs.count = 0 /\ fs.ok = TRUE /\ handles = {}
      /\ fs = [overlay |-> fs.overlay, gone |-> {}, count |-> 0, ok |-> TRUE]
  BY DEF Init, NewFilesystem
<1>2. Root \in Paths /\ MaxFiles \in Nat /\ Base[Root] = "dir" /\ Above[Root] = {}
  BY FilesystemAssumption DEF IsTree, Above, Root
<1>3. FilesystemOK(fs)
  <2>1. fs.overlay \in [Paths -> Nodes]
    BY <1>1 DEF Nodes
  <2>2. \A p \in Paths : fs.overlay[p] # "none" => p = Root
    BY <1>1
  <2>3. IsTree(fs.overlay)
    BY <1>1, <1>2, <2>1, <2>2 DEF IsTree
  <2>4. {} \in SUBSET (Paths \ {Root}) /\ 0 \in Nat /\ TRUE \in BOOLEAN
    OBVIOUS
  <2>5. fs \in [overlay : [Paths -> Nodes], gone : SUBSET (Paths \ {Root}), count : Nat, ok : BOOLEAN]
    BY ONLY <1>1, <2>1, <2>4
  <2>. QED  BY <2>3, <2>5 DEF FilesystemOK
<1>4. Added(fs) = {}
  BY <1>1, <1>2 DEF Added
<1>. QED  BY <1>1, <1>2, <1>3, <1>4, FS_EmptySet DEF Sound, QuotaOK, HandlesOK

\* A file goes into a directory or takes the place of what is no directory,
\* which the root never is.
LEMMA TargetFacts ==
    ASSUME Sound(fs), NEW d \in Paths, NEW name \in Names, Target(d, name) \in Paths
    PROVE  Target(d, name) \in Paths \ {Root}
<1>1. UpTo[Root] = {Root} /\ Root \in Paths
  BY FilesystemAssumption DEF UpTo, Above, Root
<1>2. fs.overlay[Root] = "dir" /\ Root \notin fs.gone
  BY DEF Sound, FilesystemOK, IsTree
<1>3. Lookup(fs, Root) = "dir"
  BY <1>1, <1>2 DEF Lookup, IsTombstoned
<1>4. d \in Seq(Names)
  BY FilesystemAssumption
<1>5. Append(d, name) # Root
  <2>1. Len(Append(d, name)) = Len(d) + 1 /\ Len(d) \in Nat
    BY <1>4
  <2>2. Len(<<>>) = 0
    OBVIOUS
  <2>. QED  BY <2>1, <2>2 DEF Root
<1>. QED  BY <1>3, <1>5 DEF Target

LEMMA MoveToSound ==
    ASSUME Sound(fs), HandlesOK, NEW p \in Paths \ {Root}, NEW t, t \in Paths => t # Root, MoveTo(p, t)
    PROVE  Sound(fs)' /\ HandlesOK'
<1>. DEFINE copied == CreateFile(fs, t, Lookup(fs, p))
<1>1. t \in Paths \ {Root} /\ Lookup(fs, p) \in Contents
  BY DEF MoveTo, IsFile
<1>2. Sound(copied) /\ copied.ok \in BOOLEAN
  BY <1>1, CreateFileSound DEF Sound, FilesystemOK
<1>3. fs' = Result(RemoveFile(copied, p), copied.ok) /\ handles' = handles
  BY DEF MoveTo
<1>. HIDE DEF copied
<1>4. Sound(Result(RemoveFile(copied, p), copied.ok))
  BY <1>2, RemoveFileSound, ResultSound
<1>. QED  BY <1>3, <1>4 DEF HandlesOK

LEMMA ShellSound ==
    ASSUME Sound(fs), HandlesOK, NEW p \in Paths \ {Root}, Shell(p)
    PROVE  Sound(fs)' /\ HandlesOK'
<1>. USE DEF HandlesOK, Writes, Does
<1>0. Basename(p) \in Names
  <2>1. p \in Seq(Names) /\ p # <<>>
    BY FilesystemAssumption DEF Root
  <2>. QED  BY ONLY <2>1 DEF Basename
<1>1. CASE Touch(p)
  BY <1>1, CreateFileSound, ShellAssumption DEF Touch
<1>2. CASE RedirectWrite(p)
  BY <1>2, CreateFileSound DEF RedirectWrite
<1>3. CASE RedirectAppend(p)
  BY <1>3, AppendFileSound DEF RedirectAppend
<1>4. CASE Mkdir(p) \/ MkdirParents(p)
  BY <1>4, CreateDirectorySound DEF Mkdir, MkdirParents
<1>5. CASE Rm(p)
  BY <1>5, RemoveFileSound DEF Rm
<1>6. CASE RmRecursive(p) \/ Rmdir(p)
  BY <1>6, RemoveDirectorySound DEF RmRecursive, Rmdir
<1>7. CASE Chmod(p)
  BY <1>7, CopyUpSound DEF Chmod
<1>8. ASSUME NEW d \in Paths, Cp(p, d) PROVE Sound(fs)' /\ HandlesOK'
  <2>. DEFINE t == Target(d, Basename(p))
  <2>1. t \in Paths \ {Root} /\ Lookup(fs, p) \in Contents
    BY <1>0, <1>8, TargetFacts DEF Cp, IsFile
  <2>2. fs' = CreateFile(fs, t, Lookup(fs, p)) /\ handles' = handles
    BY <1>8 DEF Cp
  <2>. HIDE DEF t
  <2>. QED  BY <2>1, <2>2, CreateFileSound
<1>9. ASSUME NEW d \in Paths, Mv(p, d) PROVE Sound(fs)' /\ HandlesOK'
  BY <1>0, <1>9, TargetFacts, MoveToSound DEF Mv
<1>. QED  BY <1>1, <1>2, <1>3, <1>4, <1>5, <1>6, <1>7, <1>8, <1>9 DEF Shell

LEMMA TransferSound ==
    ASSUME Sound(fs), HandlesOK, NEW p \in AtHome, Transfer(p)
    PROVE  Sound(fs)' /\ HandlesOK'
<1>0. p \in Paths \ {Root}
  BY DEF AtHome
<1>1. CASE SftpOpen(p)
  BY <1>0, <1>1, CreateFileSound, ShellAssumption DEF SftpOpen, HandlesOK
<1>2. CASE SftpClose(p)
  BY <1>0, <1>2, CreateFileSound DEF SftpClose, Writes, HandlesOK
<1>3. CASE SftpMkdir(p)
  BY <1>0, <1>3, CreateDirectorySound DEF SftpMkdir, Does, HandlesOK
<1>4. CASE SftpRmdir(p)
  BY <1>0, <1>4, RemoveDirectorySound DEF SftpRmdir, Does, HandlesOK
<1>5. CASE SftpRemove(p)
  BY <1>0, <1>5, RemoveFileSound DEF SftpRemove, Does, HandlesOK
<1>6. ASSUME NEW t \in AtHome, SftpRename(p, t) PROVE Sound(fs)' /\ HandlesOK'
  BY <1>0, <1>6, MoveToSound DEF SftpRename, AtHome
<1>. QED  BY <1>1, <1>2, <1>3, <1>4, <1>5, <1>6 DEF Transfer

LEMMA ScpSound ==
    ASSUME Sound(fs), HandlesOK, NEW name \in Names, NEW d \in AtHome, ScpReceive(name, d)
    PROVE  Sound(fs)' /\ HandlesOK'
<1>. DEFINE t == Target(d, name)
<1>1. t \in Paths \ {Root}
  BY TargetFacts DEF ScpReceive, AtHome
<1>2. PICK c \in Contents : fs' = CreateFile(fs, t, c) /\ handles' = handles
  BY DEF ScpReceive, Writes
<1>. HIDE DEF t
<1>. QED  BY <1>1, <1>2, CreateFileSound DEF HandlesOK

(* The overlay is a tree within its quota after any commands of any channels. *)
THEOREM SoundAlways == Spec => [](Sound(fs) /\ HandlesOK)
<1>1. Init => Sound(fs) /\ HandlesOK
  BY InitSound
<1>2. Sound(fs) /\ HandlesOK /\ [Next]_vars => (Sound(fs) /\ HandlesOK)'
  <2>. SUFFICES ASSUME Sound(fs), HandlesOK, [Next]_vars PROVE Sound(fs)' /\ HandlesOK'
    OBVIOUS
  <2>1. ASSUME NEW p \in Paths \ {Root}, Shell(p) PROVE Sound(fs)' /\ HandlesOK'
    BY <2>1, ShellSound
  <2>2. ASSUME NEW p \in AtHome, Transfer(p) PROVE Sound(fs)' /\ HandlesOK'
    BY <2>2, TransferSound
  <2>3. ASSUME NEW name \in Names, NEW d \in AtHome, ScpReceive(name, d) PROVE Sound(fs)' /\ HandlesOK'
    BY <2>3, ScpSound
  <2>4. CASE UNCHANGED vars
    <3>1. fs' = fs /\ handles' = handles
      BY <2>4 DEF vars
    <3>. QED  BY <3>1 DEF HandlesOK
  <2>. QED  BY <2>1, <2>2, <2>3, <2>4 DEF Next
<1>. QED  BY <1>1, <1>2, PTL DEF Spec

(* The overlay stays a tree: every node's parents are directories, no         *)
(* tombstone lies on the root, and every open file is a path of the model.    *)
THEOREM TypeCorrect == Spec => []TypeOK
<1>1. Sound(fs) /\ HandlesOK => TypeOK
  BY DEF TypeOK, Sound, HandlesOK
<1>. QED  BY <1>1, SoundAlways, PTL

(* The quota, for every limit and every base: the nodes a session has added   *)
(* are counted, and the count passes MAX_FILES_PER_SESSION by one at most.    *)
THEOREM QuotaAlways == Spec => []QuotaHolds
<1>1. Sound(fs) /\ HandlesOK => QuotaHolds
  BY DEF QuotaHolds, Sound
<1>. QED  BY <1>1, SoundAlways, PTL

(* Above what can be looked up nothing is deleted.                            *)
THEOREM NoOrphansAlways == Spec => []NoOrphans
<1>1. ASSUME Sound(fs), NEW p \in Paths \ {Root}, Lookup(fs, p) # "none"
      PROVE  Lookup(fs, Parent(p)) # "none"
  <2>1. /\ IsTree(fs.overlay) /\ IsTree(Base)
        /\ \A q \in Paths : UpTo[q] = Above[q] \cup {q}
    BY <1>1, FilesystemAssumption DEF Sound, FilesystemOK, UpTo
  <2>2. Parent(p) \in Above[p] /\ Above[p] \subseteq Paths /\ UpTo[Parent(p)] = Above[p]
    BY ParentFacts, AboveFacts, <2>1
  <2>3. ~IsTombstoned(fs, p) /\ (fs.overlay[p] # "none" \/ Base[p] # "none")
    BY <1>1 DEF Lookup
  <2>4. ~IsTombstoned(fs, Parent(p))
    BY <2>1, <2>2, <2>3 DEF IsTombstoned
  <2>5. fs.overlay[Parent(p)] = "dir" \/ Base[Parent(p)] = "dir"
    BY <2>1, <2>2, <2>3 DEF IsTree
  <2>. QED  BY <2>4, <2>5 DEF Lookup
<1>2. Sound(fs) /\ HandlesOK => NoOrphans
  BY <1>1 DEF NoOrphans
<1>. QED  BY <1>2, SoundAlways, PTL

----------------------------------------------------------------------------
(* What an operation changes                                                  *)

Near(q, p) == q \in UpTo[p] \/ p \in UpTo[q]

\* Nothing is seen to change but what is near the path.
Local(f, g, p) == \A q \in Paths : Lookup(g, q) # Lookup(f, q) => Near(q, p)

\* Nothing is seen to change but what is at or below it, and that disappears.
Hides(f, g, p) ==
    /\ \A q \in Paths : Lookup(g, q) \in {Lookup(f, q), "none"}
    /\ \A q \in Paths : p \notin UpTo[q] => Lookup(g, q) = Lookup(f, q)

LEMMA NearFacts ==
    ASSUME NEW p \in Paths, NEW q \in Paths, ~Near(q, p), NEW r \in UpTo[q]
    PROVE  r \in Paths /\ p \notin UpTo[r]
<1>1. r \in Paths /\ UpTo[r] \subseteq UpTo[q]
  BY UpToFacts
<1>. QED  BY <1>1 DEF Near

\* Tombstones set or taken away at or below the path, nodes changed near it.
LEMMA ChangesAreLocal ==
    ASSUME NEW f, NEW g, NEW p \in Paths,
           \A q \in Paths : ~Near(q, p) => g.overlay[q] = f.overlay[q],
           \A q \in Paths : p \notin UpTo[q] => (q \in g.gone <=> q \in f.gone)
    PROVE  Local(f, g, p)
<1>. SUFFICES ASSUME NEW q \in Paths, ~Near(q, p) PROVE Lookup(g, q) = Lookup(f, q)
  BY DEF Local
<1>1. IsTombstoned(g, q) <=> IsTombstoned(f, q)
  BY NearFacts DEF IsTombstoned
<1>. QED  BY <1>1 DEF Lookup

LEMMA LocalTwice ==
    ASSUME NEW f, NEW g, NEW h, NEW p, NEW t, Local(f, g, t), Local(g, h, p)
    PROVE  \A q \in Paths : Lookup(h, q) # Lookup(f, q) => Near(q, p) \/ Near(q, t)
BY DEF Local

LEMMA SameIsLocal ==
    ASSUME NEW f, NEW p, NEW b
    PROVE  Local(f, f, p) /\ Hides(f, f, p)
BY DEF Local, Hides

\* ok is not seen.
LEMMA ResultIsUnseen ==
    ASSUME NEW f, FilesystemOK(f), NEW b \in BOOLEAN
    PROVE  /\ \A q \in Paths : Lookup(Result(f, b), q) = Lookup(f, q)
           /\ Result(f, b).ok = b
           /\ Result(f, b).overlay = f.overlay /\ Result(f, b).gone = f.gone
BY DEF FilesystemOK, Result, Lookup, IsTombstoned

LEMMA EnsureDirOverlay ==
    ASSUME NEW f, Sound(f), NEW p \in Paths
    PROVE  /\ EnsureDir(f, p).gone = f.gone
           /\ \A q \in Paths : EnsureDir(f, p).overlay[q] = IF q \in Made(f, p) THEN "dir" ELSE f.overlay[q]
           /\ Made(f, p) \subseteq UpTo[p]
<1>1. Made(f, p) \subseteq UpTo[p]
  BY MadeFacts DEF Sound
<1>. QED  BY <1>1 DEF EnsureDir, Sound, FilesystemOK

\* A directory that is made on the way is near whatever is made in it.
LEMMA NearParent ==
    ASSUME NEW p \in Paths \ {Root}
    PROVE  /\ Parent(p) \in Paths /\ UpTo[Parent(p)] \subseteq UpTo[p] /\ p \notin UpTo[Parent(p)]
           /\ p \in UpTo[p]
BY ParentFacts, UpToFacts, AboveFacts

----------------------------------------------------------------------------
(* Files that are removed are not in the overlay; directories may be.         *)
FilesHere(f) == \A q \in f.gone : f.overlay[q] \notin Contents

\* A node that is put: what it changes, and where it is seen.
LEMMA AddNodeSeen ==
    ASSUME NEW f, Sound(f), FilesHere(f), f.count < MaxFiles, NEW p \in Paths \ {Root},
           NEW v \in Contents \cup {"dir"}
    PROVE  LET h == AddNode(f, p, v)
           IN  /\ Local(f, h, p) /\ FilesHere(h)
               /\ h.ok => (Lookup(h, p) = v <=> Lookup(h, Parent(p)) = "dir")
<1>. DEFINE g == EnsureDir(f, Parent(p))
            h == [g EXCEPT !.overlay = Put(@, p, v), !.gone = @ \ {p}, !.count = @ + 1]
<1>1. /\ Sound(g) /\ g.gone = f.gone
      /\ g.ok => \A q \in Above[p] : g.overlay[q] = "dir"
  BY ParentFacts, EnsureDirSound
<1>2. /\ Parent(p) \in Paths /\ UpTo[Parent(p)] \subseteq UpTo[p] /\ p \in UpTo[p]
      /\ p \notin UpTo[Parent(p)] /\ UpTo[Parent(p)] = Above[p]
  BY NearParent, ParentFacts
<1>3. \A q \in Paths : g.overlay[q] = f.overlay[q] \/ (g.overlay[q] = "dir" /\ q \in UpTo[p])
  BY <1>2, EnsureDirOverlay
<1>4. /\ g \in [overlay : [Paths -> Nodes], gone : SUBSET (Paths \ {Root}), count : Nat, ok : BOOLEAN]
      /\ f.gone \subseteq Paths
  BY <1>1 DEF Sound, FilesystemOK
<1>. HIDE DEF g
<1>5. Local(f, g, p)
  <2>1. \A q \in Paths : ~Near(q, p) => g.overlay[q] = f.overlay[q]
    BY <1>3 DEF Near
  <2>. QED  BY <1>1, <2>1, ChangesAreLocal
<1>6. FilesHere(g)
  BY <1>1, <1>3, <1>4, FilesystemAssumption DEF FilesHere
<1>7. CASE ~g.ok
  BY <1>5, <1>6, <1>7 DEF AddNode, g
<1>8. CASE g.ok
  <2>1. h.overlay = Put(g.overlay, p, v) /\ h.gone = g.gone \ {p} /\ h.ok = g.ok
    BY <1>4
  <2>2. AddNode(f, p, v) = h
    BY <1>8 DEF AddNode, g
  <2>. HIDE DEF h
  <2>3. \A q \in Paths : h.overlay[q] = IF q = p THEN v ELSE IF p \in Above[q] THEN "none" ELSE g.overlay[q]
    BY <2>1 DEF Put
  <2>4. \A q \in Paths : p \notin UpTo[q] => h.overlay[q] = g.overlay[q]
    BY <2>3, UpToFacts
  <2>5. Local(f, h, p)
    <3>1. \A q \in Paths : ~Near(q, p) => h.overlay[q] = f.overlay[q]
      BY <1>3, <2>4 DEF Near
    <3>2. \A q \in Paths : p \notin UpTo[q] => q # p
      BY UpToFacts
    <3>3. \A q \in Paths : p \notin UpTo[q] => (q \in h.gone <=> q \in f.gone)
      BY <1>1, <2>1, <3>2
    <3>. QED  BY <3>1, <3>3, ChangesAreLocal
  <2>6. FilesHere(h)
    <3>1. \A q \in h.gone : q \in g.gone /\ q \in Paths /\ q # p
      BY <1>1, <1>4, <2>1
    <3>2. "none" \notin Contents
      BY FilesystemAssumption
    <3>. QED  BY <1>6, <2>3, <3>1, <3>2 DEF FilesHere
  <2>7. Lookup(h, p) = v <=> Lookup(h, Parent(p)) = "dir"
    <3>1. h.overlay[p] = v /\ v # "none"
      BY <2>3, FilesystemAssumption
    <3>2. h.overlay[Parent(p)] = "dir"
      <4>1. Parent(p) \in Above[p]
        BY <1>2, UpToFacts
      <4>. QED  BY <1>1, <1>2, <1>8, <2>4, <4>1
    <3>3. IsTombstoned(h, p) <=> IsTombstoned(h, Parent(p))
      <4>1. UpTo[p] = UpTo[Parent(p)] \cup {p} /\ p \notin h.gone
        BY <1>2, <2>1, UpToFacts
      <4>. QED  BY <4>1 DEF IsTombstoned
    <3>. QED  BY <3>1, <3>2, <3>3 DEF Lookup
  <2>. QED  BY <2>2, <2>5, <2>6, <2>7
<1>. QED  BY <1>7, <1>8

LEMMA CreateFileSeen ==
    ASSUME NEW f, Sound(f), FilesHere(f), NEW p \in Paths \ {Root}, NEW c \in Contents
    PROVE  LET h == CreateFile(f, p, c)
           IN  /\ Local(f, h, p) /\ FilesHere(h)
               /\ h.ok => (Lookup(h, p) = c <=> Lookup(h, Parent(p)) = "dir")
<1>1. f.count \in Nat /\ MaxFiles \in Nat /\ FilesystemOK(f)
  BY FilesystemAssumption DEF Sound, FilesystemOK
<1>2. CASE f.count >= MaxFiles
  <2>. DEFINE r == Result(f, FALSE)
  <2>1. CreateFile(f, p, c) = r
    BY <1>2 DEF CreateFile
  <2>2. /\ \A q \in Paths : Lookup(r, q) = Lookup(f, q)
        /\ r.ok = FALSE /\ r.overlay = f.overlay /\ r.gone = f.gone
    BY <1>1, ResultIsUnseen
  <2>. HIDE DEF r
  <2>3. Local(f, r, p)
    BY <2>2 DEF Local
  <2>4. FilesHere(r)
    BY <2>2 DEF FilesHere
  <2>. QED  BY <2>1, <2>2, <2>3, <2>4
<1>3. CASE ~(f.count >= MaxFiles)
  <2>1. f.count < MaxFiles
    BY <1>1, <1>3
  <2>2. CreateFile(f, p, c) = AddNode(f, p, c)
    BY <1>3 DEF CreateFile
  <2>. QED  BY <2>1, <2>2, AddNodeSeen
<1>. QED  BY <1>2, <1>3

LEMMA AppendFileSeen ==
    ASSUME NEW f, Sound(f), FilesHere(f), NEW p \in Paths \ {Root}, NEW c \in Contents
    PROVE  LET h == AppendFile(f, p, c)
           IN  /\ Local(f, h, p) /\ FilesHere(h)
               /\ h.ok => (Lookup(h, p) = c <=> Lookup(h, Parent(p)) = "dir")
<1>1. CASE f.overlay[p] \in Contents
  <2>. DEFINE h == [f EXCEPT !.overlay[p] = c, !.ok = TRUE]
  <2>1. /\ f \in [overlay : [Paths -> Nodes], gone : SUBSET (Paths \ {Root}), count : Nat, ok : BOOLEAN]
        /\ IsTree(f.overlay) /\ f.overlay[p] # "none" /\ c # "none"
    BY <1>1, FilesystemAssumption DEF Sound, FilesystemOK
  <2>2. h.overlay = [f.overlay EXCEPT ![p] = c] /\ h.gone = f.gone
    BY <2>1
  <2>. HIDE DEF h
  <2>3. h.overlay[p] = c /\ \A q \in Paths : q # p => h.overlay[q] = f.overlay[q]
    BY <2>1, <2>2
  <2>4. Local(f, h, p)
    <3>1. \A q \in Paths : ~Near(q, p) => q # p
      BY UpToFacts DEF Near
    <3>. QED  BY <2>2, <2>3, <3>1, ChangesAreLocal
  <2>5. p \notin f.gone
    BY <1>1 DEF FilesHere
  <2>6. FilesHere(h)
    BY <2>1, <2>2, <2>3, <2>5 DEF FilesHere
  <2>7. /\ Parent(p) \in Paths /\ p \notin UpTo[Parent(p)] /\ UpTo[Parent(p)] = Above[p]
        /\ UpTo[p] = Above[p] \cup {p} /\ Parent(p) \in Above[p]
    BY NearParent, ParentFacts, UpToFacts
  <2>8. f.overlay[Parent(p)] = "dir" /\ Parent(p) # p
    BY <2>1, <2>7, AboveFacts DEF IsTree
  <2>9. IsTombstoned(h, p) <=> IsTombstoned(h, Parent(p))
    BY <2>2, <2>5, <2>7 DEF IsTombstoned
  <2>10. Lookup(h, p) = c <=> Lookup(h, Parent(p)) = "dir"
    BY <2>1, <2>3, <2>7, <2>8, <2>9 DEF Lookup
  <2>. QED  BY <1>1, <2>4, <2>6, <2>10 DEF AppendFile, h
<1>2. CASE f.overlay[p] \notin Contents
  BY <1>2, CreateFileSeen DEF AppendFile
<1>. QED  BY <1>1, <1>2

LEMMA CreateDirectorySeen ==
    ASSUME NEW f, Sound(f), FilesHere(f), NEW p \in Paths \ {Root}
    PROVE  /\ Local(f, CreateDirectory(f, p), p) /\ FilesHere(CreateDirectory(f, p))
           /\ Local(f, CreateDirectories(f, p), p) /\ FilesHere(CreateDirectories(f, p))
<1>1. f.count \in Nat /\ MaxFiles \in Nat /\ FilesystemOK(f)
  BY FilesystemAssumption DEF Sound, FilesystemOK
<1>2. Local(f, Result(f, FALSE), p) /\ FilesHere(Result(f, FALSE))
  BY <1>1, ResultIsUnseen DEF Local, FilesHere
<1>3. Local(f, CreateDirectory(f, p), p) /\ FilesHere(CreateDirectory(f, p))
  <2>1. CASE f.count >= MaxFiles \/ Lookup(f, p) # "none"
    BY <1>2, <2>1 DEF CreateDirectory
  <2>2. CASE ~(f.count >= MaxFiles \/ Lookup(f, p) # "none")
    <3>1. f.count < MaxFiles /\ CreateDirectory(f, p) = AddNode(f, p, "dir")
      BY <1>1, <2>2 DEF CreateDirectory
    <3>. QED  BY <3>1, AddNodeSeen
  <2>. QED  BY <2>1, <2>2
<1>4. CASE f.count >= MaxFiles
  BY <1>2, <1>3, <1>4 DEF CreateDirectories
<1>5. CASE ~(f.count >= MaxFiles)
  <2>. DEFINE g == EnsureDir(f, p)
              h == [g EXCEPT !.gone = @ \ {p}, !.ok = TRUE]
  <2>1. /\ Sound(g) /\ g.gone = f.gone
        /\ \A q \in Paths : g.overlay[q] = f.overlay[q] \/ (g.overlay[q] = "dir" /\ q \in UpTo[p])
    BY EnsureDirSound, EnsureDirOverlay
  <2>. HIDE DEF g
  <2>2. /\ h.overlay = g.overlay /\ h.gone = f.gone \ {p}
        /\ f.gone \subseteq Paths
    BY <2>1 DEF Sound, FilesystemOK
  <2>. HIDE DEF h
  <2>3. Local(f, h, p)
    <3>1. \A q \in Paths : ~Near(q, p) => h.overlay[q] = f.overlay[q]
      BY <2>1, <2>2 DEF Near
    <3>2. \A q \in Paths : p \notin UpTo[q] => (q \in h.gone <=> q \in f.gone)
      BY <2>2, UpToFacts
    <3>. QED  BY <3>1, <3>2, ChangesAreLocal
  <2>4. FilesHere(h)
    BY <2>1, <2>2, FilesystemAssumption DEF FilesHere
  <2>. QED  BY <1>3, <1>5, <2>3, <2>4 DEF CreateDirectories, g, h
<1>. QED  BY <1>4, <1>5

LEMMA CopyUpSeen ==
    ASSUME NEW f, Sound(f), FilesHere(f), NEW p \in Paths \ {Root}
    PROVE  Local(f, CopyUp(f, p), p) /\ FilesHere(CopyUp(f, p))
<1>. DEFINE g == EnsureDir(f, Parent(p))
            h == [g EXCEPT !.overlay = Put(@, p, Base[p])]
<1>1. Sound(g) /\ g.gone = f.gone /\ FilesystemOK(f) /\ f.gone \subseteq Paths
  BY ParentFacts, EnsureDirSound DEF Sound, FilesystemOK
<1>2. /\ Parent(p) \in Paths /\ UpTo[Parent(p)] \subseteq UpTo[p] /\ p \in UpTo[p]
  BY NearParent
<1>3. \A q \in Paths : g.overlay[q] = f.overlay[q] \/ (g.overlay[q] = "dir" /\ q \in UpTo[p])
  BY <1>2, EnsureDirOverlay
<1>. HIDE DEF g
<1>4. Local(f, g, p)
  <2>1. \A q \in Paths : ~Near(q, p) => g.overlay[q] = f.overlay[q]
    BY <1>3 DEF Near
  <2>. QED  BY <1>1, <2>1, ChangesAreLocal
<1>5. FilesHere(g)
  BY <1>1, <1>3, FilesystemAssumption DEF FilesHere
<1>6. ASSUME f.overlay[p] = "none", Lookup(f, p) # "none" PROVE Local(f, h, p) /\ FilesHere(h)
  <2>1. h.overlay = Put(g.overlay, p, Base[p]) /\ h.gone = f.gone
    BY <1>1 DEF Sound, FilesystemOK
  <2>. HIDE DEF h
  <2>2. \A q \in Paths : h.overlay[q] = IF q = p THEN Base[p] ELSE IF p \in Above[q] THEN "none" ELSE g.overlay[q]
    BY <2>1 DEF Put
  <2>3. \A q \in Paths : ~Near(q, p) => h.overlay[q] = f.overlay[q]
    BY <1>3, <2>2, UpToFacts DEF Near
  <2>4. p \notin f.gone
    BY <1>2, <1>6 DEF Lookup, IsTombstoned
  <2>5. FilesHere(h)
    BY <1>1, <1>5, <2>1, <2>2, <2>4, FilesystemAssumption DEF FilesHere
  <2>. QED  BY <2>1, <2>3, <2>5, ChangesAreLocal
<1>7. \A b \in BOOLEAN : Local(f, Result(f, b), p) /\ FilesHere(Result(f, b))
  BY <1>1, ResultIsUnseen DEF Local, FilesHere
<1>. QED  BY <1>4, <1>5, <1>6, <1>7 DEF CopyUp, g, h

----------------------------------------------------------------------------
(* Removals                                                                   *)

\* A tombstone on the path, others below it; nodes go from where they are.
LEMMA TakenAwayHides ==
    ASSUME NEW f, Sound(f), FilesHere(f), NEW p \in Paths \ {Root}, NEW g, g.gone \subseteq Paths,
           p \in g.gone, f.gone \subseteq g.gone, \A q \in g.gone \ f.gone : p \in UpTo[q],
           \A q \in Paths : p \notin UpTo[q] => g.overlay[q] = f.overlay[q],
           \A q \in Paths : p \in UpTo[q] => g.overlay[q] = "none" \/ g.overlay[q] = f.overlay[q],
           \A q \in g.gone \ f.gone : g.overlay[q] \notin Contents
    PROVE  /\ Hides(f, g, p) /\ FilesHere(g)
           /\ \A q \in Paths : p \in UpTo[q] => Lookup(g, q) = "none"
<1>0. f.gone \subseteq Paths /\ "none" \notin Contents
  BY FilesystemAssumption DEF Sound, FilesystemOK
<1>1. \A q \in Paths : p \in UpTo[q] => Lookup(g, q) = "none"
  BY DEF Lookup, IsTombstoned
<1>2. ASSUME NEW q \in Paths, p \notin UpTo[q] PROVE Lookup(g, q) = Lookup(f, q)
  <2>1. \A r \in UpTo[q] : r \in Paths /\ p \notin UpTo[r]
    BY <1>2, UpToFacts
  <2>2. IsTombstoned(g, q) <=> IsTombstoned(f, q)
    BY <2>1 DEF IsTombstoned
  <2>. QED  BY <1>2, <2>2 DEF Lookup
<1>3. FilesHere(g)
  <2>1. ASSUME NEW q \in f.gone PROVE g.overlay[q] \notin Contents
    BY <1>0 DEF FilesHere
  <2>. QED  BY <2>1 DEF FilesHere
<1>. QED  BY <1>1, <1>2, <1>3 DEF Hides

LEMMA HidesIsLocal ==
    ASSUME NEW f, NEW g, NEW p, Hides(f, g, p)
    PROVE  Local(f, g, p)
BY DEF Hides, Local, Near

LEMMA RemoveFileSeen ==
    ASSUME NEW f, Sound(f), FilesHere(f), NEW p \in Paths \ {Root}
    PROVE  LET g == RemoveFile(f, p)
           IN  /\ Hides(f, g, p) /\ FilesHere(g)
               /\ g.ok \/ Lookup(f, p) \in Contents => Lookup(g, p) = "none"
<1>0. /\ f \in [overlay : [Paths -> Nodes], gone : SUBSET (Paths \ {Root}), count : Nat, ok : BOOLEAN]
      /\ FilesystemOK(f) /\ p \in UpTo[p] /\ "none" \notin Contents
  BY FilesystemAssumption, UpToFacts DEF Sound, FilesystemOK
<1>. DEFINE mine == f.overlay[p] \in Contents
            o == IF mine THEN Put(f.overlay, p, "none") ELSE f.overlay
            h == [f EXCEPT !.overlay = o, !.gone = @ \cup {p}, !.ok = TRUE]
<1>1. CASE mine \/ (Base[p] \in Contents /\ ~IsTombstoned(f, p))
  <2>1. RemoveFile(f, p) = h
    BY <1>1 DEF RemoveFile
  <2>2. h.overlay = o /\ h.gone = f.gone \cup {p}
    BY <1>0
  <2>3. \A q \in Paths : IF p \in UpTo[q] THEN o[q] = "none" \/ o[q] = f.overlay[q]
                                          ELSE o[q] = f.overlay[q]
    BY UpToFacts DEF Put
  <2>4. o[p] \notin Contents
    BY <1>0 DEF Put
  <2>. HIDE DEF h, o
  <2>5. Hides(f, h, p) /\ FilesHere(h) /\ Lookup(h, p) = "none"
    BY <1>0, <2>2, <2>3, <2>4, TakenAwayHides
  <2>. QED  BY <2>1, <2>5
<1>2. CASE ~(mine \/ (Base[p] \in Contents /\ ~IsTombstoned(f, p)))
  <2>1. RemoveFile(f, p) = Result(f, FALSE)
    BY <1>2 DEF RemoveFile
  <2>2. Lookup(f, p) \notin Contents
    BY <1>0, <1>2 DEF Lookup
  <2>. DEFINE r == Result(f, FALSE)
  <2>3. /\ \A q \in Paths : Lookup(r, q) = Lookup(f, q)
        /\ ~r.ok /\ r.overlay = f.overlay /\ r.gone = f.gone
    BY <1>0, ResultIsUnseen
  <2>. HIDE DEF r
  <2>4. Hides(f, r, p) /\ FilesHere(r)
    BY <2>3 DEF Hides, FilesHere
  <2>. QED  BY <2>1, <2>2, <2>3, <2>4 DEF r
<1>. QED  BY <1>1, <1>2

LEMMA RemoveDirectorySeen ==
    ASSUME NEW f, Sound(f), FilesHere(f), NEW p \in Paths \ {Root}, NEW recursive \in BOOLEAN
    PROVE  /\ Hides(f, RemoveDirectory(f, p, recursive), p)
           /\ FilesHere(RemoveDirectory(f, p, recursive))
<1>0. /\ f \in [overlay : [Paths -> Nodes], gone : SUBSET (Paths \ {Root}), count : Nat, ok : BOOLEAN]
      /\ FilesystemOK(f) /\ p \in UpTo[p] /\ "none" \notin Contents
  BY FilesystemAssumption, UpToFacts DEF Sound, FilesystemOK
<1>. DEFINE S == IF recursive THEN Doomed(f, p) ELSE {p}
            o == Put(f.overlay, p, "none")
            h == [f EXCEPT !.overlay = o, !.gone = @ \cup S, !.ok = TRUE]
<1>1. S \subseteq Paths /\ p \in S /\ \A q \in S : p \in UpTo[q]
  <2>1. ASSUME NEW q \in Paths, NEW c \in Listed(f, p) \cap UpTo[q] PROVE p \in UpTo[q]
    <3>1. c \in Paths \ {Root} /\ Parent(c) = p /\ UpTo[c] \subseteq UpTo[q]
      BY UpToFacts DEF Listed
    <3>2. Parent(c) \in UpTo[c]
      <4>1. UpTo[Parent(c)] \subseteq UpTo[c] /\ Parent(c) \in Paths
        BY <3>1, NearParent
      <4>. QED  BY <4>1, UpToFacts
    <3>. QED  BY <3>1, <3>2
  <2>. QED  BY <1>0, <2>1 DEF Doomed
<1>2. h.overlay = o /\ h.gone = f.gone \cup S
  BY <1>0
<1>3. \A q \in Paths : IF p \in UpTo[q] THEN o[q] = "none" ELSE o[q] = f.overlay[q]
  BY UpToFacts DEF Put
<1>. HIDE DEF h, o, S
<1>4. Hides(f, h, p) /\ FilesHere(h)
  <2>1. h.gone \subseteq Paths /\ p \in h.gone /\ f.gone \subseteq h.gone
        /\ \A q \in h.gone \ f.gone : q \in Paths /\ p \in UpTo[q]
    BY <1>0, <1>1, <1>2
  <2>. QED  BY <1>0, <1>2, <1>3, <2>1, TakenAwayHides
<1>5. Hides(f, Result(f, FALSE), p) /\ FilesHere(Result(f, FALSE))
  BY <1>0, ResultIsUnseen DEF Hides, FilesHere
<1>. QED  BY <1>4, <1>5 DEF RemoveDirectory, h, o, S

----------------------------------------------------------------------------
(* What every command is known by afterwards                                  *)

Written ==
    /\ last.name = "write" /\ fs.ok =>
        \A p \in last.on : Lookup(fs, p) = last.content <=> Lookup(fs, Parent(p)) = "dir"
    /\ last.name = "mv" /\ fs.ok /\ last.from \notin UpTo[last.to] /\ last.to \notin UpTo[last.from] =>
        /\ Lookup(fs, last.from) = "none"
        /\ Lookup(fs, last.to) = last.content <=> Lookup(fs, Parent(last.to)) = "dir"

RelatedStep == \A p \in Paths : Lookup(fs', p) # Lookup(fs, p) => \E q \in last'.on : Near(p, q)
HidingStep == last'.name = "rm" => \A p \in Paths : Lookup(fs', p) \in {Lookup(fs, p), "none"}

Before == Sound(fs) /\ FilesHere(fs) /\ Written
After == FilesHere(fs)' /\ Written' /\ RelatedStep /\ HidingStep

LEMMA NothingDone ==
    ASSUME Before, UNCHANGED <<fs, last>>
    PROVE  After
BY DEF Before, After, FilesHere, Written, RelatedStep, HidingStep

LEMMA FileWritten ==
    ASSUME Before, NEW p \in Paths \ {Root}, NEW c \in Contents, Did("write", {p}, c),
           fs' = CreateFile(fs, p, c) \/ fs' = AppendFile(fs, p, c)
    PROVE  After
<1>1. last' = [name |-> "write", on |-> {p}, content |-> c]
  BY DEF Did
<1>2. /\ Local(fs, fs', p) /\ FilesHere(fs')
      /\ fs'.ok => (Lookup(fs', p) = c <=> Lookup(fs', Parent(p)) = "dir")
  BY CreateFileSeen, AppendFileSeen DEF Before
<1>3. Written'
  BY <1>1, <1>2 DEF Written
<1>4. RelatedStep /\ HidingStep
  BY <1>1, <1>2 DEF RelatedStep, HidingStep, Local
<1>. QED  BY <1>2, <1>3, <1>4 DEF After

LEMMA DirectoryMadeOrCopied ==
    ASSUME Before, NEW p \in Paths \ {Root}, NEW name \in {"mkdir", "chmod"}, Did(name, {p}, "none"),
           \/ fs' = CreateDirectory(fs, p) \/ fs' = CreateDirectories(fs, p) \/ fs' = CopyUp(fs, p)
    PROVE  After
<1>1. last' = [name |-> name, on |-> {p}, content |-> "none"]
  BY DEF Did
<1>2. Local(fs, fs', p) /\ FilesHere(fs')
  BY CreateDirectorySeen, CopyUpSeen DEF Before
<1>3. Written'
  BY <1>1 DEF Written
<1>4. RelatedStep /\ HidingStep
  BY <1>1, <1>2 DEF RelatedStep, HidingStep, Local
<1>. QED  BY <1>2, <1>3, <1>4 DEF After

LEMMA SomethingRemoved ==
    ASSUME Before, NEW p \in Paths \ {Root}, Did("rm", {p}, "none"),
           fs' = RemoveFile(fs, p) \/ \E recursive \in BOOLEAN : fs' = RemoveDirectory(fs, p, recursive)
    PROVE  After
<1>1. last' = [name |-> "rm", on |-> {p}, content |-> "none"]
  BY DEF Did
<1>2. Hides(fs, fs', p) /\ FilesHere(fs')
  BY RemoveFileSeen, RemoveDirectorySeen DEF Before
<1>3. Written'
  BY <1>1 DEF Written
<1>4. RelatedStep /\ HidingStep
  BY <1>1, <1>2, HidesIsLocal DEF RelatedStep, HidingStep, Local, Hides
<1>. QED  BY <1>2, <1>3, <1>4 DEF After

\* A move of unrelated paths: the copy is not hidden by the removal, and the
\* removal still finds the file.
LEMMA FileMoved ==
    ASSUME Before, NEW p \in Paths \ {Root}, NEW t \in Paths \ {Root}, MoveTo(p, t)
    PROVE  After
<1>. DEFINE c == Lookup(fs, p)
            g == CreateFile(fs, t, c)
            h == RemoveFile(g, p)
<1>1. /\ c \in Contents /\ fs' = Result(h, g.ok)
      /\ last' = [name |-> "mv", on |-> {p, t}, from |-> p, to |-> t, content |-> c]
  BY DEF MoveTo, IsFile
<1>2. /\ Sound(g) /\ g.ok \in BOOLEAN /\ Local(fs, g, t) /\ FilesHere(g)
      /\ g.ok => (Lookup(g, t) = c <=> Lookup(g, Parent(t)) = "dir")
  <2>1. c \in Contents
    BY <1>1
  <2>. HIDE DEF c
  <2>2. Sound(g)
    BY <2>1, CreateFileSound DEF Before
  <2>3. /\ Local(fs, g, t) /\ FilesHere(g)
        /\ g.ok => (Lookup(g, t) = c <=> Lookup(g, Parent(t)) = "dir")
    BY <2>1, CreateFileSeen DEF Before
  <2>. HIDE DEF g
  <2>. QED  BY <2>2, <2>3 DEF Sound, FilesystemOK
<1>. HIDE DEF g
<1>3. /\ Sound(h) /\ Hides(g, h, p) /\ FilesHere(h)
      /\ Lookup(g, p) \in Contents => Lookup(h, p) = "none"
  BY <1>2, RemoveFileSound, RemoveFileSeen
<1>. HIDE DEF h, c
<1>4. /\ \A q \in Paths : Lookup(fs', q) = Lookup(h, q)
      /\ fs'.ok = g.ok /\ fs'.overlay = h.overlay /\ fs'.gone = h.gone
  BY <1>1, <1>2, <1>3, ResultIsUnseen DEF Sound
<1>5. FilesHere(fs)'
  BY <1>3, <1>4 DEF FilesHere
<1>6. RelatedStep
  BY <1>1, <1>2, <1>3, <1>4, HidesIsLocal DEF RelatedStep, Local
<1>7. HidingStep
  BY <1>1 DEF HidingStep
<1>8. ASSUME fs'.ok, p \notin UpTo[t], t \notin UpTo[p]
      PROVE  Lookup(fs', p) = "none" /\ (Lookup(fs', t) = c <=> Lookup(fs', Parent(t)) = "dir")
  <2>1. Lookup(g, p) = Lookup(fs, p)
    BY <1>2, <1>8 DEF Local, Near
  <2>2. Lookup(fs', p) = "none"
    BY <1>1, <1>3, <1>4, <2>1 DEF c
  <2>3. Parent(t) \in Paths /\ p \notin UpTo[Parent(t)]
    BY <1>8, NearParent
  <2>4. Lookup(fs', t) = Lookup(g, t) /\ Lookup(fs', Parent(t)) = Lookup(g, Parent(t))
    BY <1>3, <1>4, <1>8, <2>3 DEF Hides
  <2>. QED  BY <1>2, <1>4, <1>8, <2>2, <2>4
<1>9. Written'
  BY <1>1, <1>8 DEF Written
<1>. QED  BY <1>5, <1>6, <1>7, <1>9 DEF After

LEMMA ShellDone ==
    ASSUME Before, NEW p \in Paths \ {Root}, Shell(p)
    PROVE  After
<1>0. Basename(p) \in Names /\ Sound(fs)
  <2>1. p \in Seq(Names) /\ p # <<>>
    BY FilesystemAssumption DEF Root
  <2>2. Basename(p) \in Names
    BY ONLY <2>1 DEF Basename
  <2>. QED  BY <2>2 DEF Before
<1>1. CASE Touch(p)
  BY <1>1, FileWritten, ShellAssumption DEF Touch, Writes
<1>2. CASE RedirectWrite(p)
  BY <1>2, FileWritten DEF RedirectWrite, Writes
<1>3. CASE RedirectAppend(p)
  BY <1>3, FileWritten DEF RedirectAppend, Writes
<1>4. CASE Mkdir(p) \/ MkdirParents(p)
  BY <1>4, DirectoryMadeOrCopied DEF Mkdir, MkdirParents, Does
<1>5. CASE Rm(p)
  BY <1>5, SomethingRemoved DEF Rm, Does
<1>6. CASE RmRecursive(p) \/ Rmdir(p)
  BY <1>6, SomethingRemoved DEF RmRecursive, Rmdir, Does
<1>7. CASE Chmod(p)
  BY <1>7, DirectoryMadeOrCopied DEF Chmod, Does
<1>8. ASSUME NEW d \in Paths, Cp(p, d) PROVE After
  <2>. DEFINE t == Target(d, Basename(p))
              c == Lookup(fs, p)
  <2>1. t \in Paths \ {Root} /\ c \in Contents
    BY <1>0, <1>8, TargetFacts DEF Cp, IsFile
  <2>2. fs' = CreateFile(fs, t, c) /\ Did("write", {t}, c)
    BY <1>8 DEF Cp, Writes
  <2>. HIDE DEF t, c
  <2>. QED  BY <2>1, <2>2, FileWritten
<1>9. ASSUME NEW d \in Paths, Mv(p, d) PROVE After
  <2>. DEFINE t == Target(d, Basename(p))
  <2>1. MoveTo(p, t) /\ t \in Paths
    BY <1>9 DEF Mv, MoveTo
  <2>2. t \in Paths \ {Root}
    BY <1>0, <2>1, TargetFacts
  <2>. HIDE DEF t
  <2>. QED  BY <2>1, <2>2, FileMoved
<1>. QED  BY <1>1, <1>2, <1>3, <1>4, <1>5, <1>6, <1>7, <1>8, <1>9 DEF Shell

LEMMA TransferDone ==
    ASSUME Before, NEW p \in AtHome, Transfer(p)
    PROVE  After
<1>0. p \in Paths \ {Root}
  BY DEF AtHome
<1>1. CASE SftpOpen(p)
  <2>1. CASE Lookup(fs, p) = "none"
    BY <1>0, <1>1, <2>1, FileWritten, ShellAssumption DEF SftpOpen
  <2>2. CASE Lookup(fs, p) # "none"
    BY <1>1, <2>2, NothingDone DEF SftpOpen
  <2>. QED  BY <2>1, <2>2
<1>2. CASE SftpClose(p)
  BY <1>0, <1>2, FileWritten, NothingDone DEF SftpClose, Writes
<1>3. CASE SftpMkdir(p)
  BY <1>0, <1>3, DirectoryMadeOrCopied DEF SftpMkdir, Does
<1>4. CASE SftpRmdir(p)
  BY <1>0, <1>4, SomethingRemoved DEF SftpRmdir, Does
<1>5. CASE SftpRemove(p)
  BY <1>0, <1>5, SomethingRemoved DEF SftpRemove, Does
<1>6. ASSUME NEW t \in AtHome, SftpRename(p, t) PROVE After
  BY <1>0, <1>6, FileMoved DEF SftpRename, AtHome
<1>. QED  BY <1>1, <1>2, <1>3, <1>4, <1>5, <1>6 DEF Transfer

LEMMA ScpDone ==
    ASSUME Before, NEW name \in Names, NEW d \in AtHome, ScpReceive(name, d)
    PROVE  After
<1>. DEFINE t == Target(d, name)
<1>1. t \in Paths \ {Root}
  BY TargetFacts DEF ScpReceive, AtHome, Before
<1>2. PICK c \in Contents : fs' = CreateFile(fs, t, c) /\ Did("write", {t}, c)
  BY DEF ScpReceive, Writes
<1>. HIDE DEF t
<1>. QED  BY <1>1, <1>2, FileWritten

LEMMA StepDone == Before /\ [Next]_vars => After
<1>. SUFFICES ASSUME Before, [Next]_vars PROVE After
  OBVIOUS
<1>1. ASSUME NEW p \in Paths \ {Root}, Shell(p) PROVE After
  BY <1>1, ShellDone
<1>2. ASSUME NEW p \in AtHome, Transfer(p) PROVE After
  BY <1>2, TransferDone
<1>3. ASSUME NEW name \in Names, NEW d \in AtHome, ScpReceive(name, d) PROVE After
  BY <1>3, ScpDone
<1>4. CASE UNCHANGED vars
  BY <1>4, NothingDone DEF vars
<1>. QED  BY <1>1, <1>2, <1>3, <1>4 DEF Next

(* What was said to be written or moved, and files that are gone are not in   *)
(* the overlay: the part of the invariant that a tree alone does not say.     *)
THEOREM WrittenAlways == Spec => [](FilesHere(fs) /\ Written)
<1>1. Init => FilesHere(fs) /\ Written
  BY DEF Init, NewFilesystem, FilesHere, Written
<1>2. (Sound(fs) /\ HandlesOK) /\ (FilesHere(fs) /\ Written) /\ [Next]_vars => (FilesHere(fs) /\ Written)'
  BY StepDone DEF Before, After
<1>. QED  BY <1>1, <1>2, SoundAlways, PTL DEF Spec

(* What is no longer seen of the base, or with another content, is in the     *)
(* delta: from the shape of the record alone.                                 *)
LEMMA DeltaNamesIt ==
    ASSUME Sound(fs), NEW p \in Paths, Lookup(fs, p) \notin {Base[p], "dir"}
    PROVE  UpTo[p] \cap Delta(fs) # {}
<1>0. fs.overlay \in [Paths -> Nodes] /\ fs.gone \subseteq Paths /\ p \in UpTo[p]
  BY UpToFacts DEF Sound, FilesystemOK
<1>1. CASE IsTombstoned(fs, p)
  BY <1>1 DEF IsTombstoned, Delta
<1>2. CASE ~IsTombstoned(fs, p)
  <2>1. fs.overlay[p] \in Contents
    BY <1>0, <1>2 DEF Lookup, Nodes
  <2>. QED  BY <1>0, <2>1 DEF Delta
<1>. QED  BY <1>1, <1>2

(* A file the filesystem said it wrote is seen exactly where its directory    *)
(* is, a moved one at its new place only, and the delta names what changed    *)
(* (cow_filesystem.py, create_file, append_file, remove_file, get_delta).     *)
THEOREM WrittenIsAlwaysSeen == Spec => []WrittenIsSeen
<1>1. (Sound(fs) /\ HandlesOK) /\ (FilesHere(fs) /\ Written) => WrittenIsSeen
  BY DeltaNamesIt DEF Written, WrittenIsSeen
<1>. QED  BY <1>1, SoundAlways, WrittenAlways, PTL

(* A command changes nothing but the paths it is about, those above and those *)
(* below them, whatever the channels did before.                              *)
THEOREM OnlyRelatedPaths == Spec => RelatedPathsOnly
<1>1. (Sound(fs) /\ HandlesOK) /\ (FilesHere(fs) /\ Written) /\ [Next]_vars => [RelatedStep]_vars
  BY StepDone DEF Before, After
<1>2. Spec => [][RelatedStep]_vars
  BY <1>1, SoundAlways, WrittenAlways, PTL DEF Spec
<1>. QED  BY <1>2 DEF RelatedPathsOnly, RelatedStep, Near

(* A removal brings nothing back.                                             *)
THEOREM RemovalsOnlyHide == Spec => RemovalOnlyHides
<1>1. (Sound(fs) /\ HandlesOK) /\ (FilesHere(fs) /\ Written) /\ [Next]_vars => [HidingStep]_vars
  BY StepDone DEF Before, After
<1>2. Spec => [][HidingStep]_vars
  BY <1>1, SoundAlways, WrittenAlways, PTL DEF Spec
<1>. QED  BY <1>2 DEF RemovalOnlyHides, HidingStep
=============================================================================
