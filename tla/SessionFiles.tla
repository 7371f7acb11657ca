----------------------------- MODULE SessionFiles -----------------------------
(* The channels of one SSH connection share one SessionFilesystem: the shell  *)
(* (ssh-decoy/command_router.py), the SFTP server and SCP (server.py).  Each  *)
(* command or request touches it without an await, so it is one action; what  *)
(* interleaves are the commands of the channels and an SFTP file held open.   *)
(* A command with several targets is a sequence of these.                     *)
EXTENDS CowFilesystem

CONSTANTS Empty,      \* the content of a file just touched
          HomeDir,    \* where the user's SFTP and SCP requests are confined to
          MaxHandles  \* bound: SFTP files open for writing at a time

ASSUME ShellAssumption == Empty \in Contents /\ HomeDir \in Paths /\ MaxHandles \in Nat

VARIABLES
    fs,       \* the SessionFilesystem
    handles,  \* the paths of SFTP files open for writing
    last      \* the last command, the paths it was about and, of a file written
              \* or moved, what that file holds

vars == <<fs, handles, last>>

Basename(p) == p[Len(p)]

\* The target of cp, mv and scp: a directory takes the file in.
Target(d, name) == IF Lookup(fs, d) = "dir" THEN Append(d, name) ELSE d

Did(name, on, content) == last' = [name |-> name, on |-> on, content |-> content]

Does(name, p, f) == fs' = f /\ Did(name, {p}, "none") /\ UNCHANGED handles

Writes(p, content, f) == fs' = f /\ Did("write", {p}, content)

\* SFTP resolves every path to one at or below the home directory, SCP refuses
\* the others.
AtHome == {p \in Paths \ {Root} : HomeDir \in UpTo[p]}

----------------------------------------------------------------------------
(* The shell                                                                  *)
Touch(p) ==
    /\ Lookup(fs, p) = "none"
    /\ Writes(p, Empty, CreateFile(fs, p, Empty)) /\ UNCHANGED handles

\* echo ... > p
RedirectWrite(p) ==
    \E c \in Contents : Writes(p, c, CreateFile(fs, p, c)) /\ UNCHANGED handles

\* echo ... >> p
RedirectAppend(p) ==
    \E c \in Contents : Writes(p, c, AppendFile(fs, p, c)) /\ UNCHANGED handles

Mkdir(p) == Lookup(fs, p) = "none" /\ Does("mkdir", p, CreateDirectory(fs, p))

MkdirParents(p) == Lookup(fs, p) = "none" /\ Does("mkdir", p, CreateDirectories(fs, p))

Rm(p) == IsFile(fs, p) /\ Does("rm", p, RemoveFile(fs, p))

RmRecursive(p) == Lookup(fs, p) = "dir" /\ Does("rm", p, RemoveDirectory(fs, p, TRUE))

Rmdir(p) ==
    /\ Lookup(fs, p) = "dir" /\ Listed(fs, p) = {}
    /\ Does("rm", p, RemoveDirectory(fs, p, FALSE))

Cp(p, d) ==
    LET t == Target(d, Basename(p))
    IN  /\ IsFile(fs, p) /\ t \in Paths
        /\ Writes(t, Lookup(fs, p), CreateFile(fs, t, Lookup(fs, p))) /\ UNCHANGED handles

\* A copy, whatever comes of it, and a removal.
MoveTo(p, t) ==
    /\ IsFile(fs, p) /\ t \in Paths
    /\ LET copied == CreateFile(fs, t, Lookup(fs, p))
       IN  fs' = Result(RemoveFile(copied, p), copied.ok)
    /\ last' = [name |-> "mv", on |-> {p, t}, from |-> p, to |-> t, content |-> Lookup(fs, p)]
    /\ UNCHANGED handles

Mv(p, d) == MoveTo(p, Target(d, Basename(p)))

Chmod(p) == Lookup(fs, p) # "none" /\ Does("chmod", p, CopyUp(fs, p))

----------------------------------------------------------------------------
(* SFTP and SCP                                                               *)
\* open for writing: a file is made if there is none, and a directory refused.
SftpOpen(p) ==
    /\ Cardinality(handles) < MaxHandles
    /\ fs' = IF Lookup(fs, p) = "none" THEN CreateFile(fs, p, Empty) ELSE fs
    /\ IF Lookup(fs, p) = "none" THEN Did("write", {p}, Empty) ELSE UNCHANGED last
    /\ handles' = IF IsFile(fs', p) THEN handles \cup {p} ELSE handles

\* close: what was written is stored, wherever the file has gone meanwhile.
SftpClose(p) ==
    /\ p \in handles /\ handles' = handles \ {p}
    /\ \/ \E c \in Contents : Writes(p, c, CreateFile(fs, p, c))
       \/ UNCHANGED <<fs, last>>

\* mkdir over SFTP, and a directory record of SCP.
SftpMkdir(p) == Does("mkdir", p, CreateDirectory(fs, p))

SftpRmdir(p) == Does("rm", p, RemoveDirectory(fs, p, FALSE))

SftpRemove(p) == Does("rm", p, RemoveFile(fs, p))

SftpRename(p, t) == MoveTo(p, t)

\* A file record of SCP for the target d.
ScpReceive(name, d) ==
    LET t == Target(d, name)
    IN  /\ t \in Paths
        /\ \E c \in Contents : Writes(t, c, CreateFile(fs, t, c)) /\ UNCHANGED handles

----------------------------------------------------------------------------
Init ==
    /\ fs = NewFilesystem /\ handles = {}
    /\ last = [name |-> "none", on |-> {}, content |-> "none"]

Shell(p) ==
    \/ Touch(p) \/ RedirectWrite(p) \/ RedirectAppend(p)
    \/ Mkdir(p) \/ MkdirParents(p)
    \/ Rm(p) \/ RmRecursive(p) \/ Rmdir(p) \/ Chmod(p)
    \/ \E d \in Paths : Cp(p, d) \/ Mv(p, d)

Transfer(p) ==
    \/ SftpOpen(p) \/ SftpClose(p) \/ SftpMkdir(p) \/ SftpRmdir(p) \/ SftpRemove(p)
    \/ \E t \in AtHome : SftpRename(p, t)

Next ==
    \/ \E p \in Paths \ {Root} : Shell(p)
    \/ \E p \in AtHome : Transfer(p)
    \/ \E name \in Names, d \in AtHome : ScpReceive(name, d)

Spec == Init /\ [][Next]_vars

----------------------------------------------------------------------------
TypeOK == FilesystemOK(fs) /\ handles \subseteq Paths

(* The quota bounds what a session adds: every overlay node that is not the   *)
(* copy of a base node was counted, and the count passes the limit by one at  *)
(* most (create_file checks it before it makes the directories on the way).   *)
QuotaHolds == QuotaOK(fs)

(* What can be named can be reached: whatever was removed, created or copied  *)
(* up, above a visible node there is no deleted one.                          *)
NoOrphans ==
    \A p \in Paths \ {Root} : Lookup(fs, p) # "none" => Lookup(fs, Parent(p)) # "none"

(* A file the filesystem said it wrote holds what was written, exactly when   *)
(* the directory it is in is there: touch /d/f after rm -r /d says yes and    *)
(* shows nothing, but an earlier removal of the file itself never hides it.   *)
(* mv and rename are a copy and a removal that nothing ties together: if the  *)
(* copy was taken and neither path is below the other, the file is at its new *)
(* place and not at the old one.  What can be seen of the base no longer, or  *)
(* with another content, the forensic delta names (a file that became a       *)
(* directory it does not).                                                    *)
WrittenIsSeen ==
    /\ last.name = "write" /\ fs.ok =>
        \A p \in last.on : Lookup(fs, p) = last.content <=> Lookup(fs, Parent(p)) = "dir"
    /\ last.name = "mv" /\ fs.ok /\ last.from \notin UpTo[last.to] /\ last.to \notin UpTo[last.from] =>
        /\ Lookup(fs, last.from) = "none"
        /\ Lookup(fs, last.to) = last.content <=> Lookup(fs, Parent(last.to)) = "dir"
    /\ \A p \in Paths : Lookup(fs, p) \notin {Base[p], "dir"} => UpTo[p] \cap Delta(fs) # {}

(* A command changes nothing but the paths it is about, those above them and  *)
(* those below them.                                                          *)
RelatedPathsOnly ==
    [][\A p \in Paths : Lookup(fs', p) # Lookup(fs, p) =>
          \E q \in last'.on : p \in UpTo[q] \/ q \in UpTo[p]]_vars

(* A removal brings nothing back: the base file under an overlay file that is *)
(* removed, or the one below a directory that is, does not shine through.     *)
RemovalOnlyHides ==
    [][last'.name = "rm" =>
          \A p \in Paths : Lookup(fs', p) \in {Lookup(fs, p), "none"}]_vars
=============================================================================
