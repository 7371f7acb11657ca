------------------------------- MODULE SshServer -------------------------------
(***************************************************************************)
(* Connections and shells of the SSH decoy: DecoySSHServer,                *)
(* DecoySSHSession._run and handle_client in ssh-decoy/server.py, with     *)
(* SshAuth for check_password.  Callbacks and coroutines share one event   *)
(* loop: a step lasts from one wait to the next.                           *)
(*                                                                         *)
(* A connection here has one shell at a time.  Exec, SCP and SFTP channels *)
(* touch none of this state (their files are in SessionFiles), and the     *)
(* tasks that emit events in the background are left out.  What asyncssh   *)
(* does is external: it authenticates a connection with one attempt after  *)
(* another and opens channels only after one was accepted, and a write to  *)
(* a channel whose connection is lost may fail.                            *)
(***************************************************************************)
EXTENDS SshAuth

CONSTANTS Connections,     \* connections that can exist together
          MaxConnections,  \* MAX_CONNECTIONS
          MaxSessions,     \* MAX_CONCURRENT_SESSIONS
          MaxRejections,   \* bound: connections rejected
          MaxLines         \* bound: lines of input that come in one read

ASSUME ServerAssumption ==
    /\ IsFiniteSet(Connections)
    /\ MaxConnections \in Nat \ {0} /\ MaxSessions \in Nat
    /\ MaxLines \in Nat \ {0}

VARIABLES
    conn,      \* the connections: where their login is, and from where
    shell,     \* the shell of a connection, which may outlive it
    active,    \* _active_connections
    sessions,  \* _active_sessions
    dropped    \* history: rejected connections that are lost by now

vars == <<conn, shell, active, sessions, dropped, authVars>>
serverVars == <<conn, shell, active, sessions, dropped>>

Free == [at |-> "free"]
TurnedAway == [at |-> "rejected"]
Login(a, stage) == [at |-> stage, from |-> a]
Stages == {"login", "accepting", "refusing", "in"}
Open(c) == conn[c].at \in Stages

\* A shell waits for: session.start to be emitted, input, a command, the
\* first session.end, fs_delta, the last session.end.  ended counts the
\* session.end events, more the lines that were read and not yet looked at.
Places == {"starting", "reading", "command", "leaving", "failing", "delta", "ending"}
NoShell == [at |-> "none", ended |-> 0, more |-> 0]
Running(c) == shell[c].at # "none"

Init == /\ AuthInit
        /\ conn = [c \in Connections |-> Free]
        /\ shell = [c \in Connections |-> NoShell]
        /\ active = 0 /\ sessions = 0 /\ dropped = 0

-----------------------------------------------------------------------------
(* Connections *)

\* connection_made: the connection that would be the MaxConnections-th is
\* rejected, and taken off the count again.
Connect(c, a) ==
    /\ conn[c] = Free /\ ~ Running(c)
    /\ active + 1 < MaxConnections
    /\ active' = active + 1
    /\ conn' = [conn EXCEPT ![c] = Login(a, "login")]
    /\ UNCHANGED <<shell, sessions, dropped, authVars>>
Reject(c) ==
    /\ conn[c] = Free /\ ~ Running(c) /\ dropped < MaxRejections
    /\ active + 1 >= MaxConnections
    /\ conn' = [conn EXCEPT ![c] = TurnedAway]
    /\ UNCHANGED <<shell, active, sessions, dropped, authVars>>

\* connection_lost, for every connection that was made.
\* Mutant: the connection is not taken off the count.
OneLessNever == active
OneLess == active - 1
Lose(c) ==
    /\ conn[c] # Free
    /\ active' = OneLess
    /\ conn' = [conn EXCEPT ![c] = Free]
    /\ dropped' = IF Open(c) THEN dropped ELSE dropped + 1
    /\ UNCHANGED <<shell, sessions, authVars>>

\* validate_password: check_password decides, the answer comes after the
\* delays and the event, whatever happened in between.
Attempt(c, u, p, accepted) ==
    /\ conn[c].at = "login"
    /\ CheckPassword(conn[c].from, u, p, accepted)
    /\ conn' = [conn EXCEPT ![c].at = IF accepted THEN "accepting" ELSE "refusing"]
    /\ UNCHANGED <<shell, active, sessions, dropped>>
Answer(c) ==
    /\ conn[c].at \in {"accepting", "refusing"}
    /\ conn' = [conn EXCEPT ![c].at = IF @ = "accepting" THEN "in" ELSE "login"]
    /\ UNCHANGED <<shell, active, sessions, dropped, authVars>>

-----------------------------------------------------------------------------
(* Shells *)

Put(c, place, ended, more) ==
    shell' = [shell EXCEPT ![c] = [at |-> place, ended |-> ended, more |-> more]]
Go(c, place) == Put(c, place, shell[c].ended, shell[c].more)
End(c, place) == Put(c, place, shell[c].ended + 1, 0)
Only == UNCHANGED <<conn, active, dropped, authVars>>

\* handle_client: at the limit the channel is closed at once.
OpenShell(c) ==
    /\ conn[c].at = "in" /\ ~ Running(c)
    /\ sessions < MaxSessions
    /\ sessions' = sessions + 1
    /\ Go(c, "starting") /\ Only

\* _run, after session.start has been emitted: the greeting is written.  It is
\* not yet inside the try block, so a failing write ends the coroutine there.
Greet(c) == shell[c].at = "starting" /\ Go(c, "reading") /\ Only /\ UNCHANGED sessions
Release(c) ==
    /\ shell' = [shell EXCEPT ![c] = NoShell]
    /\ sessions' = sessions - 1
    /\ Only
GreetFails(c) == shell[c].at = "starting" /\ ~ Open(c) /\ Release(c)

\* The loop: a command is routed and answered, and the next line taken, or the
\* answer cannot be written any more (session.error).  The lines of one read
\* are gone through although the connection may be lost by then.
Command(c) ==
    /\ shell[c].at = "reading" /\ Open(c)
    /\ \E n \in 0 .. MaxLines - 1 : Put(c, "command", shell[c].ended, n)
    /\ Only /\ UNCHANGED sessions
Respond(c) ==
    /\ shell[c].at = "command"
    /\ IF shell[c].more = 0 THEN Go(c, "reading")
       ELSE Put(c, "command", shell[c].ended, shell[c].more - 1)
    /\ Only /\ UNCHANGED sessions
RespondFails(c) ==
    /\ shell[c].at = "command" /\ ~ Open(c)
    /\ Put(c, "failing", shell[c].ended, 0)
    /\ Only /\ UNCHANGED sessions

\* exit, the first line of a read or a later one, is reported before the loop
\* is left.
AtExit(c) ==
    \/ shell[c].at = "reading" /\ Open(c)
    \/ shell[c].at = "command" /\ shell[c].more > 0
\* Mutant: after exit the loop reads on.
ExitReadsOn(c) == AtExit(c) /\ End(c, "reading") /\ Only /\ UNCHANGED sessions
Exit(c) == AtExit(c) /\ End(c, "leaving") /\ Only /\ UNCHANGED sessions

\* Mutant: the clean-up is not reached when the loop fails.
FinallyWithoutErrors(c) ==
    /\ shell[c].at \in {"reading", "leaving"}
    /\ Go(c, "delta") \/ End(c, "ending")
    /\ Only /\ UNCHANGED sessions
\* The loop ends: by exit, by an error, and while reading by Ctrl-D, the end of
\* the input, a lost connection or the read timeout.  finally: fs_delta is
\* emitted if files changed, then session.end, also after an exit.
Finally(c) ==
    /\ shell[c].at \in {"reading", "leaving", "failing"}
    /\ Go(c, "delta") \/ End(c, "ending")
    /\ Only /\ UNCHANGED sessions
Delta(c) ==
    /\ shell[c].at = "delta"
    /\ End(c, "ending") /\ Only /\ UNCHANGED sessions
Done(c) == shell[c].at = "ending" /\ Release(c)

\* A step of the shell's coroutine that waits for nobody but the decoy itself
\* or, when its connection is lost, for nothing.
Proceed(c) ==
    \/ Greet(c) \/ GreetFails(c) \/ Respond(c) \/ RespondFails(c)
    \/ ~ (shell[c].at = "reading" /\ Open(c)) /\ Finally(c)
    \/ Delta(c) \/ Done(c)

Next ==
    \/ \E c \in Connections :
          \/ \E a \in Addresses : Connect(c, a)
          \/ Reject(c) \/ Lose(c) \/ Answer(c)
          \/ \E u \in Users, p \in Passwords, accepted \in BOOLEAN :
                Attempt(c, u, p, accepted)
          \/ OpenShell(c) \/ Command(c) \/ Exit(c) \/ Proceed(c) \/ Finally(c)
    \/ \E a \in Addresses : LockoutEnds(a) /\ UNCHANGED serverVars

Spec == Init /\ [][Next]_vars
\* The event loop gets round to every coroutine that can go on.
FairSpec == Spec /\ \A c \in Connections : WF_vars(Proceed(c))

-----------------------------------------------------------------------------
(* Properties *)

TypeOK ==
    /\ AuthTypeOK
    /\ conn \in [Connections -> {Free, TurnedAway}
                   \cup [at : Stages, from : Addresses]]
    /\ shell \in [Connections -> {NoShell} \cup [at : Places, ended : 0 .. 2, more : 0 .. MaxLines]]
    /\ active \in Int /\ sessions \in Nat /\ dropped \in Nat

\* The slots taken are those of the shells that are running, also of shells
\* that have lost their connection or fail on the way.  The count of connections
\* is too low by the rejected ones that are gone, which were taken off twice, and
\* below its limit.  However an address spreads its attempts over connections, the
\* lockout holds.
CountersAgree ==
    /\ TypeOK
    /\ sessions = Cardinality({c \in Connections : Running(c)}) /\ sessions <= MaxSessions
    /\ active + dropped = Cardinality({c \in Connections : Open(c)})
    /\ active < MaxConnections
    /\ GuessesBounded

\* No input is read and no command run once session.end was emitted, and no
\* shell is gone without it but one whose greeting could not be written.
EndReported ==
    [][\A c \in Connections :
          /\ shell[c].ended > 0 => shell'[c].at \notin {"reading", "command"}
          /\ Running(c) /\ shell'[c] = NoShell =>
                shell[c].at = "starting" \/ shell[c].ended > 0]_vars

\* The slot of a shell whose connection is lost is given back.
SlotComesBack ==
    \A c \in Connections : Running(c) /\ conn[c] = Free ~> ~ Running(c)
=============================================================================
