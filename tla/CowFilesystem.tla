---------------------------- MODULE CowFilesystem ----------------------------
(* The copy-on-write filesystem of a connection (ssh-decoy/cow_filesystem.py):*)
(* an overlay tree and a set of tombstones over a base tree nobody writes.    *)
(* Every method is an operator on a record f of the attributes and of ok, what*)
(* the last call returned.  A path is the sequence of its components; a node  *)
(* is "dir" or the content of a file, owner and permissions leave no trace.   *)
EXTENDS Naturals, Sequences, FiniteSets

CONSTANTS Names,     \* the components of paths
          Paths,     \* the paths anybody names
          Contents,  \* what a file may hold
          Base,      \* the node of the base filesystem at a path, or "none"
          MaxFiles   \* MAX_FILES_PER_SESSION

Root == <<>>
Parent(p) == SubSeq(p, 1, Len(p) - 1)
Above == [p \in Paths |-> {SubSeq(p, 1, n) : n \in 0..Len(p) - 1}]
UpTo == [p \in Paths |-> Above[p] \cup {p}]
Nodes == {"none", "dir"} \cup Contents

\* Parents are directories, all the way up.
IsTree(t) ==
    /\ t \in [Paths -> Nodes] /\ t[Root] = "dir"
    /\ \A p \in Paths : t[p] # "none" => \A q \in Above[p] : t[q] = "dir"

ASSUME FilesystemAssumption ==
    /\ Paths \subseteq Seq(Names)
    /\ IsFiniteSet(Paths) /\ Root \in Paths
    /\ \A p \in Paths : Above[p] \subseteq Paths
    /\ Contents \cap {"none", "dir"} = {}
    /\ IsTree(Base)
    /\ MaxFiles \in Nat

NewFilesystem ==
    [overlay |-> [p \in Paths |-> IF p = Root THEN "dir" ELSE "none"],
     gone |-> {}, count |-> 0, ok |-> TRUE]

Result(f, ok) == [f EXCEPT !.ok = ok]

----------------------------------------------------------------------------

IsTombstoned(f, p) == UpTo[p] \cap f.gone # {}

\* get_node, file_exists, is_directory and read_file all see this node.
Lookup(f, p) ==
    IF IsTombstoned(f, p) THEN "none"
    ELSE IF f.overlay[p] # "none" THEN f.overlay[p] ELSE Base[p]

IsFile(f, p) == Lookup(f, p) \in Contents

\* The children of the merged node of a directory.
Listed(f, d) ==
    {c \in Paths : c # Root /\ Parent(c) = d /\ ~IsTombstoned(f, c)
                   /\ (f.overlay[c] # "none" \/ Base[c] # "none")}

\* Mutant: what was below a node that is replaced stays.
PutKeepsBelow(overlay, p, node) == [overlay EXCEPT ![p] = node]

\* parent.children[name] = node, or its deletion: what was below is gone with it.
Put(overlay, p, node) ==
    [q \in Paths |-> IF q = p THEN node ELSE IF p \in Above[q] THEN "none" ELSE overlay[q]]

----------------------------------------------------------------------------
(* _ensure_overlay_dir walks down and makes what is missing, until the quota  *)
(* is reached; it stops at a file.                                            *)
Missing(f, p) == {q \in UpTo[p] : f.overlay[q] = "none"}

Blocked(f, p) == \E q \in UpTo[p] : f.overlay[q] \in Contents

Made(f, p) ==
    {q \in Missing(f, p) :
        ~Blocked(f, p) /\ f.count + Cardinality(Missing(f, p) \cap Above[q]) < MaxFiles}

\* Mutant: directories made on the way are not counted.
EnsureDirUncounted(f, p) ==
    [f EXCEPT !.overlay = [q \in Paths |-> IF q \in Made(f, p) THEN "dir" ELSE @[q]],
              !.ok = ~Blocked(f, p) /\ Made(f, p) = Missing(f, p)]

EnsureDir(f, p) ==
    [f EXCEPT !.overlay = [q \in Paths |-> IF q \in Made(f, p) THEN "dir" ELSE @[q]],
              !.count = @ + Cardinality(Made(f, p)),
              !.ok = ~Blocked(f, p) /\ Made(f, p) = Missing(f, p)]

\* Mutant: the tombstone of an earlier file stays.
AddNodeStillGone(f, p, node) ==
    LET g == EnsureDir(f, Parent(p))
    IN  IF ~g.ok THEN g ELSE [g EXCEPT !.overlay = Put(@, p, node), !.count = @ + 1]

\* A new node under a parent that is there, or was made.
AddNode(f, p, node) ==
    LET g == EnsureDir(f, Parent(p))
    IN  IF ~g.ok THEN g
        ELSE [g EXCEPT !.overlay = Put(@, p, node), !.gone = @ \ {p}, !.count = @ + 1]

CreateFile(f, p, content) ==
    IF f.count >= MaxFiles THEN Result(f, FALSE) ELSE AddNode(f, p, content)

\* The content is the whole one after the append, which starts from the base
\* file's when there is one to copy up.
AppendFile(f, p, content) ==
    IF f.overlay[p] \in Contents
    THEN [f EXCEPT !.overlay[p] = content, !.ok = TRUE]
    ELSE CreateFile(f, p, content)

\* mkdir: what is there already is not made again.
CreateDirectory(f, p) ==
    IF f.count >= MaxFiles \/ Lookup(f, p) # "none" THEN Result(f, FALSE)
    ELSE AddNode(f, p, "dir")

\* mkdir -p says yes whatever _ensure_overlay_dir answers.
CreateDirectories(f, p) ==
    IF f.count >= MaxFiles THEN Result(f, FALSE)
    ELSE [EnsureDir(f, p) EXCEPT !.gone = @ \ {p}, !.ok = TRUE]

\* Mutant: what was found in the overlay needs no tombstone.
RemoveFromOverlay(f, p) ==
    LET mine == f.overlay[p] \in Contents
    IN  IF mine THEN [f EXCEPT !.overlay = Put(@, p, "none"), !.ok = TRUE]
        ELSE IF Base[p] \in Contents /\ ~IsTombstoned(f, p)
        THEN [f EXCEPT !.gone = @ \cup {p}, !.ok = TRUE]
        ELSE Result(f, FALSE)

\* A file in the overlay goes even where a tombstone above hides it.
RemoveFile(f, p) ==
    LET mine == f.overlay[p] \in Contents
    IN  IF mine \/ (Base[p] \in Contents /\ ~IsTombstoned(f, p))
        THEN [f EXCEPT !.overlay = IF mine THEN Put(@, p, "none") ELSE @,
                       !.gone = @ \cup {p}, !.ok = TRUE]
        ELSE Result(f, FALSE)

\* Mutant: the walk starts one directory up.
DoomedFromParent(f, d) ==
    {d} \cup {q \in Paths : \E c \in Listed(f, Parent(d)) \cap UpTo[q] :
                  IF f.overlay[c] # "none" THEN f.overlay[q] # "none" ELSE Base[q] # "none"}

\* _tombstone_recursive walks the merged children of d but, below each of them,
\* only the tree that child is a node of.
Doomed(f, d) ==
    {d} \cup {q \in Paths : \E c \in Listed(f, d) \cap UpTo[q] :
                  IF f.overlay[c] # "none" THEN f.overlay[q] # "none" ELSE Base[q] # "none"}

RemoveDirectory(f, p, recursive) ==
    IF p = Root \/ Lookup(f, p) # "dir" \/ (~recursive /\ Listed(f, p) # {})
    THEN Result(f, FALSE)
    ELSE [f EXCEPT !.overlay = Put(@, p, "none"),
                   !.gone = @ \cup (IF recursive THEN Doomed(f, p) ELSE {p}), !.ok = TRUE]

\* chmod and chown: _copy_up, whose copy is shallow and not counted.
CopyUp(f, p) ==
    IF Lookup(f, p) = "none" THEN Result(f, FALSE)
    ELSE IF f.overlay[p] # "none" THEN Result(f, TRUE)
    ELSE LET g == EnsureDir(f, Parent(p))
         IN  IF g.ok THEN [g EXCEPT !.overlay = Put(@, p, Base[p])] ELSE g

\* get_delta: the paths it names, created, modified or deleted.
Delta(f) ==
    {p \in Paths : f.overlay[p] \in Contents \/ (f.overlay[p] = "dir" /\ Base[p] = "none")} \cup f.gone

----------------------------------------------------------------------------
FilesystemOK(f) ==
    /\ f \in [overlay : [Paths -> Nodes], gone : SUBSET (Paths \ {Root}), count : Nat, ok : BOOLEAN]
    /\ IsTree(f.overlay)

\* The overlay nodes that are not a base node's.
Added(f) == {p \in Paths : f.overlay[p] # "none" /\ Base[p] = "none"}

QuotaOK(f) == Cardinality(Added(f)) <= f.count /\ f.count <= MaxFiles + 1
=============================================================================
