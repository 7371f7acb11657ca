---------------------------- MODULE SshServerProofs ----------------------------
(* Proofs about connections and shells of the SSH decoy, for any number of    *)
(* connections, addresses and users, any limits and every mode, and about its *)
(* telemetry in the background, for any set of events.                        *)
EXTENDS SshServer, SshTelemetry, FiniteSetTheorems, TLAPS

-----------------------------------------------------------------------------
(* The inductive invariant.                                                   *)

(* Between two lockouts as many guesses are evaluated as attempts are counted *)
(* at most; a lockout that is over starts the count again.                    *)
AddressFits(a) ==
    /\ attempts[a] \in 0 .. LockoutAfter /\ guesses[a] \in Nat
    /\ lockout[a] \in {"none", "running", "over"}
    /\ lockout[a] = "none" => guesses[a] <= attempts[a] /\ attempts[a] < LockoutAfter
    /\ lockout[a] = "running" => guesses[a] < LockoutAfter
    /\ lockout[a] = "over" => guesses[a] = 0
AuthInv ==
    /\ DOMAIN attempts = Addresses /\ attempts = [a \in Addresses |-> attempts[a]]
    /\ DOMAIN lockout = Addresses /\ lockout = [a \in Addresses |-> lockout[a]]
    /\ DOMAIN guesses = Addresses /\ guesses = [a \in Addresses |-> guesses[a]]
    /\ rejected \in [Addresses -> [Users -> 0 .. FailBeforeSuccess]]
    /\ \A a \in Addresses : AddressFits(a)

(* A shell has reported its end once at the places after exit, and at the     *)
(* last place once or twice.                                                  *)
Shells == {NoShell} \cup [at : Places, ended : 0 .. 2, more : 0 .. MaxLines]
ShellFits(sh) ==
    /\ sh \in Shells
    /\ sh.at \in {"none", "starting", "reading", "command", "failing"} => sh.ended = 0
    /\ sh.at = "leaving" => sh.ended = 1
    /\ sh.at = "delta" => sh.ended \in {0, 1}
    /\ sh.at = "ending" => sh.ended \in {1, 2}
ShellInv ==
    /\ shell \in [Connections -> Shells]
    /\ \A c \in Connections : ShellFits(shell[c])

Conns == {Free, TurnedAway} \cup [at : Stages, from : Addresses]
OpenOnes == {c \in Connections : Open(c)}
RunningOnes == {c \in Connections : Running(c)}

Counts ==
    /\ conn \in [Connections -> Conns]
    /\ active \in Int /\ sessions \in Nat /\ dropped \in Nat
    /\ sessions = Cardinality(RunningOnes) /\ sessions <= MaxSessions
    /\ active + dropped = Cardinality(OpenOnes)
    /\ active < MaxConnections

ServerInv == AuthInv /\ ShellInv /\ Counts

-----------------------------------------------------------------------------
(* A counted set that gains or loses one connection.                          *)
LEMMA OneMore ==
    ASSUME NEW S \in SUBSET Connections, NEW c \in Connections, c \notin S
    PROVE  Cardinality(S \cup {c}) = Cardinality(S) + 1 /\ Cardinality(S) \in Nat
<1>1. IsFiniteSet(S)
  BY ServerAssumption, FS_Subset
<1> QED
  BY <1>1, FS_AddElement, FS_CardinalityType

LEMMA OneFewer ==
    ASSUME NEW S \in SUBSET Connections, NEW c \in S
    PROVE  Cardinality(S \ {c}) = Cardinality(S) - 1 /\ Cardinality(S) \in Nat
           /\ Cardinality(S \ {c}) \in Nat
<1>1. IsFiniteSet(S) /\ IsFiniteSet(S \ {c})
  BY ServerAssumption, FS_Subset
<1> QED
  BY <1>1, FS_RemoveElement, FS_CardinalityType

-----------------------------------------------------------------------------
(* Initially.                                                                 *)
LEMMA InitInv == Init => ServerInv
<1> SUFFICES ASSUME Init PROVE ServerInv
  OBVIOUS
<1>1. AuthInv
  BY AuthAssumption DEF Init, AuthInit, AuthInv, AddressFits
<1>2. ShellInv
  BY DEF Init, ShellInv, Shells, ShellFits, NoShell
<1>3. Counts
  <2>1. OpenOnes = {} /\ RunningOnes = {}
    BY DEF Init, OpenOnes, RunningOnes, Open, Stages, Running, NoShell, Free
  <2> QED
    BY <2>1, FS_EmptySet, ServerAssumption DEF Init, Counts, Conns
<1> QED
  BY <1>1, <1>2, <1>3 DEF ServerInv

-----------------------------------------------------------------------------
(* check_password and the end of a lockout.                                   *)
LEMMA CheckKeeps ==
    ASSUME AuthInv, NEW a \in Addresses, NEW u \in Users, NEW p \in Passwords,
           NEW accepted \in BOOLEAN, CheckPassword(a, u, p, accepted)
    PROVE  AuthInv'
<1>1. CASE UNCHANGED authVars
  BY <1>1 DEF AuthInv, AddressFits, authVars
<1>2. CASE TriggerLockout(a)
  <2>1. attempts' = [attempts EXCEPT ![a] = Counted(a) + 1] /\ Counted(a) + 1 >= LockoutAfter
        /\ lockout' = [lockout EXCEPT ![a] = "running"]
        /\ UNCHANGED <<rejected, guesses>> /\ lockout[a] # "running"
    BY <1>2 DEF TriggerLockout, ReachesLimit, LockedOut
  <2>2. AddressFits(a)'
    BY <2>1, AuthAssumption DEF AuthInv, AddressFits, Counted
  <2>3. \A b \in Addresses \ {a} : AddressFits(b)'
    BY <2>1 DEF AuthInv, AddressFits
  <2> QED
    BY <2>1, <2>2, <2>3 DEF AuthInv
<1>3. CASE Evaluate(a, u, p)
  <2>1. attempts' = [attempts EXCEPT ![a] = Counted(a) + 1] /\ ~(Counted(a) + 1 >= LockoutAfter)
        /\ lockout' = [lockout EXCEPT ![a] = "none"]
        /\ guesses' = [guesses EXCEPT ![a] = @ + 1] /\ lockout[a] # "running"
        /\ rejected' = Rejected(a, u, p)
    BY <1>3 DEF Evaluate, ReachesLimit, LockedOut
  <2>2. AddressFits(a)'
    BY <2>1, AuthAssumption DEF AuthInv, AddressFits, Counted
  <2>3. \A b \in Addresses \ {a} : AddressFits(b)'
    BY <2>1 DEF AuthInv, AddressFits
  <2>4. rejected' \in [Addresses -> [Users -> 0 .. FailBeforeSuccess]]
    BY <2>1, AuthAssumption DEF AuthInv, Rejected
  <2> QED
    BY <2>1, <2>2, <2>3, <2>4 DEF AuthInv
<1> QED
  BY <1>1, <1>2, <1>3 DEF CheckPassword, RefuseEmpty, RefuseLocked, authVars

LEMMA EndKeeps ==
    ASSUME AuthInv, NEW a \in Addresses, LockoutEnds(a)
    PROVE  AuthInv'
<1>1. \A b \in Addresses : AddressFits(b)'
  BY AuthAssumption DEF AuthInv, AddressFits, LockoutEnds
<1> QED
  BY <1>1 DEF AuthInv, LockoutEnds

-----------------------------------------------------------------------------
(* Connections.                                                               *)
LEMMA ConnectionKeeps ==
    ASSUME Counts, NEW c \in Connections, UNCHANGED <<shell, sessions>>,
           \/ \E a \in Addresses : Connect(c, a)
           \/ Reject(c) \/ Lose(c) \/ Answer(c)
           \/ \E a \in Addresses, u \in Users, p \in Passwords, accepted \in BOOLEAN :
                Attempt(c, u, p, accepted)
    PROVE  Counts'
<1>1. RunningOnes' = RunningOnes
  BY DEF RunningOnes, Running
<1>2. CASE \E a \in Addresses : Connect(c, a)
  <2>1. PICK a \in Addresses : Connect(c, a)
    BY <1>2
  <2>2. conn' \in [Connections -> Conns]
    BY <2>1 DEF Counts, Connect, Conns, Login, Stages
  <2>3. c \notin OpenOnes
    BY <2>1 DEF Connect, OpenOnes, Open, Free, Stages
  <2>4. OpenOnes' = OpenOnes \cup {c}
    BY <2>1 DEF Counts, Connect, OpenOnes, Open, Login, Stages
  <2>5. active' = active + 1 /\ active + 1 < MaxConnections /\ dropped' = dropped
    BY <2>1 DEF Connect
  <2>6. Cardinality(OpenOnes') = Cardinality(OpenOnes) + 1 /\ Cardinality(OpenOnes) \in Nat
    BY <2>3, <2>4, OneMore DEF OpenOnes
  <2> QED
    BY <1>1, <2>2, <2>5, <2>6 DEF Counts
<1>3. CASE Reject(c)
  <2>1. OpenOnes' = OpenOnes
    BY <1>3 DEF Counts, Reject, OpenOnes, Open, Free, TurnedAway, Stages
  <2>2. conn' \in [Connections -> Conns]
    BY <1>3 DEF Counts, Reject, Conns
  <2> QED
    BY <1>1, <1>3, <2>1, <2>2 DEF Counts, Reject
<1>4. CASE Lose(c)
  <2>1. conn' \in [Connections -> Conns]
    BY <1>4 DEF Counts, Lose, Conns
  <2>2. active' = active - 1 /\ dropped' = IF Open(c) THEN dropped ELSE dropped + 1
    BY <1>4 DEF Lose, OneLess
  <2>3. CASE Open(c)
    <3>1. OpenOnes' = OpenOnes \ {c} /\ c \in OpenOnes
      BY <1>4, <2>3 DEF Counts, Lose, OpenOnes, Open, Free, Stages
    <3>2. Cardinality(OpenOnes') = Cardinality(OpenOnes) - 1 /\ Cardinality(OpenOnes) \in Nat
      BY <3>1, OneFewer DEF OpenOnes
    <3> QED
      BY <1>1, <2>1, <2>2, <2>3, <3>2, ServerAssumption DEF Counts
  <2>4. CASE ~ Open(c)
    <3>1. OpenOnes' = OpenOnes
      BY <1>4, <2>4 DEF Counts, Lose, OpenOnes, Open, Free, Stages
    <3>2. Cardinality(OpenOnes') = Cardinality(OpenOnes)
      BY <3>1
    <3> QED
      BY <1>1, <2>1, <2>2, <2>4, <3>2, ServerAssumption DEF Counts
  <2> QED
    BY <2>3, <2>4
<1>5. ASSUME NEW place \in Stages, conn[c].at \in Stages,
             conn' = [conn EXCEPT ![c].at = place], UNCHANGED <<active, dropped>>
      PROVE  Counts'
  <2>1. conn[c] \in [at : Stages, from : Addresses]
    BY <1>5 DEF Counts, Conns, Free, TurnedAway, Stages
  <2>2. conn' \in [Connections -> Conns]
    BY <1>5, <2>1 DEF Counts, Conns
  <2>3. OpenOnes' = OpenOnes
    BY <1>5, <2>1 DEF Counts, OpenOnes, Open
  <2> QED
    BY <1>1, <1>5, <2>2, <2>3 DEF Counts
<1>6. CASE Answer(c)
  BY <1>5, <1>6 DEF Answer, Stages
<1>7. CASE \E a \in Addresses, u \in Users, p \in Passwords, accepted \in BOOLEAN :
             Attempt(c, u, p, accepted)
  BY <1>5, <1>7 DEF Attempt, Stages
<1> QED
  BY <1>2, <1>3, <1>4, <1>6, <1>7

-----------------------------------------------------------------------------
(* Shells.                                                                    *)

(* A shell that was running and goes to another place, its place and reports  *)
(* fitting.                                                                   *)
LEMMA MoveKeeps ==
    ASSUME ShellInv, Counts, NEW c \in Connections, NEW sh, ShellFits(sh),
           Running(c), sh # NoShell, shell' = [shell EXCEPT ![c] = sh],
           UNCHANGED <<conn, active, dropped, sessions>>
    PROVE  ShellInv' /\ Counts'
<1>1. sh.at # "none"
  BY DEF ShellFits, Shells, Places
<1>2. RunningOnes' = RunningOnes
  BY <1>1 DEF ShellInv, RunningOnes, Running
<1>3. OpenOnes' = OpenOnes
  BY DEF OpenOnes, Open
<1>4. ShellInv'
  BY DEF ShellInv, ShellFits
<1> QED
  BY <1>2, <1>3, <1>4 DEF Counts

LEMMA OpenShellKeeps ==
    ASSUME ShellInv, Counts, NEW c \in Connections, OpenShell(c)
    PROVE  ShellInv' /\ Counts'
<1> DEFINE sh == [at |-> "starting", ended |-> 0, more |-> 0]
<1>1. shell[c] = NoShell
  BY DEF OpenShell, Running, ShellInv, Shells, Places
<1>2. shell' = [shell EXCEPT ![c] = sh]
  BY <1>1 DEF OpenShell, Go, Put, NoShell
<1>3. ShellFits(sh)
  BY ServerAssumption DEF ShellFits, Shells, Places
<1>4. ShellInv'
  BY <1>2, <1>3 DEF ShellInv, ShellFits
<1>5. RunningOnes' = RunningOnes \cup {c} /\ c \notin RunningOnes
  BY <1>1, <1>2 DEF ShellInv, RunningOnes, Running, NoShell
<1>6. Cardinality(RunningOnes') = Cardinality(RunningOnes) + 1
  BY <1>5, OneMore DEF RunningOnes
<1>7. OpenOnes' = OpenOnes
  BY DEF OpenShell, Only, OpenOnes, Open
<1>8. sessions' = sessions + 1 /\ sessions < MaxSessions /\ UNCHANGED <<conn, active, dropped>>
  BY DEF OpenShell, Only
<1> QED
  BY <1>4, <1>6, <1>7, <1>8, ServerAssumption DEF Counts

LEMMA ReleaseKeeps ==
    ASSUME ShellInv, Counts, NEW c \in Connections, Running(c), Release(c)
    PROVE  ShellInv' /\ Counts'
<1>1. ShellInv'
  BY DEF ShellInv, ShellFits, Shells, NoShell, Release
<1>2. RunningOnes' = RunningOnes \ {c} /\ c \in RunningOnes
  BY DEF Release, ShellInv, RunningOnes, Running, NoShell
<1>3. Cardinality(RunningOnes') = Cardinality(RunningOnes) - 1 /\ Cardinality(RunningOnes') \in Nat
  BY <1>2, OneFewer DEF RunningOnes
<1>4. OpenOnes' = OpenOnes
  BY DEF Release, Only, OpenOnes, Open
<1>5. sessions' = sessions - 1 /\ UNCHANGED <<conn, active, dropped>>
  BY DEF Release, Only
<1> QED
  BY <1>1, <1>3, <1>4, <1>5, ServerAssumption DEF Counts

(* The steps of a running shell that take no slot and give none back.         *)
Moves(c) == \/ Greet(c) \/ Command(c) \/ Respond(c) \/ RespondFails(c)
            \/ Exit(c) \/ Finally(c) \/ Delta(c)

LEMMA MovesRun ==
    ASSUME ShellInv, NEW c \in Connections, Moves(c)
    PROVE  Running(c) /\ UNCHANGED <<conn, active, dropped, sessions, authVars>>
BY DEF Moves, Greet, Command, Respond, RespondFails, AtExit, Exit, Finally, Delta, Only, Running

LEMMA MovesFit ==
    ASSUME ShellInv, NEW c \in Connections, Moves(c)
    PROVE  \E sh : ShellFits(sh) /\ sh # NoShell /\ shell' = [shell EXCEPT ![c] = sh]
<1>1. ShellFits(shell[c])
  BY DEF ShellInv
<1>2. shell[c].ended \in 0 .. 2 /\ shell[c].more \in 0 .. MaxLines
  BY <1>1, MovesRun DEF ShellFits, Shells, NoShell, Running
<1>3. ASSUME NEW place \in Places, NEW ended \in 0 .. 2, NEW more \in 0 .. MaxLines,
             Put(c, place, ended, more),
             place \in {"starting", "reading", "command", "failing"} => ended = 0,
             place = "leaving" => ended = 1,
             place = "delta" => ended \in {0, 1},
             place = "ending" => ended \in {1, 2}
      PROVE  \E sh : ShellFits(sh) /\ sh # NoShell /\ shell' = [shell EXCEPT ![c] = sh]
  <2> DEFINE sh == [at |-> place, ended |-> ended, more |-> more]
  <2>1. shell' = [shell EXCEPT ![c] = sh]
    BY <1>3 DEF Put
  <2>2. sh # NoShell
    BY DEF NoShell, Places
  <2>3. sh \in Shells
    BY DEF Shells
  <2>4. ShellFits(sh)
    BY <1>3, <2>3 DEF ShellFits, Places
  <2> QED
    BY <2>1, <2>2, <2>4
<1>4. CASE Greet(c)
  <2>1. Put(c, "reading", 0, shell[c].more)
    BY <1>1, <1>4 DEF Greet, Go, ShellFits
  <2> QED
    BY <1>2, <1>3, <2>1 DEF Places
<1>5. CASE Command(c)
  <2>1. PICK n \in 0 .. MaxLines - 1 : Put(c, "command", 0, n)
    BY <1>1, <1>5 DEF Command, ShellFits
  <2>2. n \in 0 .. MaxLines
    BY ServerAssumption
  <2> QED
    BY <1>3, <2>1, <2>2 DEF Places
<1>6. CASE Respond(c)
  <2>1. CASE shell[c].more = 0
    <3>1. Put(c, "reading", 0, shell[c].more)
      BY <1>1, <1>6, <2>1 DEF Respond, Go, ShellFits
    <3> QED
      BY <1>2, <1>3, <3>1 DEF Places
  <2>2. CASE shell[c].more # 0
    <3>1. Put(c, "command", 0, shell[c].more - 1)
      BY <1>1, <1>6, <2>2 DEF Respond, ShellFits
    <3>2. shell[c].more - 1 \in 0 .. MaxLines
      BY <1>2, <2>2, ServerAssumption
    <3> QED
      BY <1>3, <3>1, <3>2 DEF Places
  <2> QED
    BY <2>1, <2>2
<1>7. CASE RespondFails(c)
  <2>1. Put(c, "failing", 0, 0) /\ 0 \in 0 .. MaxLines
    BY <1>1, <1>7, ServerAssumption DEF RespondFails, ShellFits
  <2> QED
    BY <1>3, <2>1 DEF Places
<1>8. CASE Exit(c)
  <2>1. shell[c].ended = 0
    BY <1>1, <1>8 DEF Exit, AtExit, ShellFits
  <2>2. Put(c, "leaving", 1, 0) /\ 0 \in 0 .. MaxLines
    BY <1>8, <2>1, ServerAssumption DEF Exit, End
  <2> QED
    BY <1>3, <2>2 DEF Places
<1>9. CASE Finally(c) \/ Delta(c)
  <2>1. shell[c].ended \in {0, 1}
    BY <1>1, <1>9 DEF Finally, Delta, ShellFits
  <2>2. CASE End(c, "ending")
    <3>1. Put(c, "ending", shell[c].ended + 1, 0) /\ 0 \in 0 .. MaxLines
          /\ shell[c].ended + 1 \in {1, 2}
      BY <2>1, <2>2, ServerAssumption DEF End
    <3> QED
      BY <1>3, <3>1 DEF Places
  <2>3. CASE Go(c, "delta")
    <3>1. Put(c, "delta", shell[c].ended, shell[c].more)
      BY <2>3 DEF Go
    <3> QED
      BY <1>2, <1>3, <2>1, <3>1 DEF Places
  <2> QED
    BY <1>9, <2>2, <2>3 DEF Finally, Delta
<1> QED
  BY <1>4, <1>5, <1>6, <1>7, <1>8, <1>9 DEF Moves

-----------------------------------------------------------------------------
(* Every step.                                                                *)
LEMMA NextCases ==
    ASSUME Next
    PROVE  \/ \E c \in Connections : \E a \in Addresses : Connect(c, a)
           \/ \E c \in Connections : Reject(c) \/ Lose(c) \/ Answer(c)
           \/ \E c \in Connections, u \in Users, p \in Passwords, accepted \in BOOLEAN :
                Attempt(c, u, p, accepted)
           \/ \E c \in Connections : OpenShell(c)
           \/ \E c \in Connections : Moves(c)
           \/ \E c \in Connections : GreetFails(c) \/ Done(c)
           \/ \E a \in Addresses : LockoutEnds(a) /\ UNCHANGED serverVars
BY DEF Next, Proceed, Moves

LEMMA StepKeeps == ServerInv /\ [Next]_vars => ServerInv'
<1> SUFFICES ASSUME ServerInv, [Next]_vars PROVE ServerInv'
  OBVIOUS
<1> USE DEF ServerInv
<1>0. ASSUME UNCHANGED authVars PROVE AuthInv'
  BY <1>0 DEF AuthInv, AddressFits, authVars
<1>s. ASSUME UNCHANGED shell PROVE ShellInv'
  BY <1>s DEF ShellInv, ShellFits
<1>c. ASSUME UNCHANGED <<conn, shell, active, sessions, dropped>> PROVE Counts'
  BY <1>c DEF Counts, OpenOnes, RunningOnes, Open, Running
<1>1. ASSUME NEW c \in Connections, NEW a \in Addresses, Connect(c, a) PROVE ServerInv'
  <2>1. UNCHANGED <<shell, sessions, dropped, authVars>>
    BY <1>1 DEF Connect
  <2> QED
    BY <1>0, <1>s, <1>1, <2>1, ConnectionKeeps
<1>2. ASSUME NEW c \in Connections, Reject(c) \/ Lose(c) \/ Answer(c) PROVE ServerInv'
  <2>1. UNCHANGED <<shell, sessions, authVars>>
    BY <1>2 DEF Reject, Lose, Answer
  <2> QED
    BY <1>0, <1>s, <1>2, <2>1, ConnectionKeeps
<1>3. ASSUME NEW c \in Connections, NEW u \in Users, NEW p \in Passwords,
             NEW accepted \in BOOLEAN, Attempt(c, u, p, accepted)
      PROVE  ServerInv'
  <2>1. UNCHANGED <<shell, sessions>> /\ CheckPassword(conn[c].from, u, p, accepted)
        /\ conn[c].at = "login"
    BY <1>3 DEF Attempt
  <2>2. conn[c].from \in Addresses
    BY <2>1 DEF Counts, Conns, Free, TurnedAway
  <2>3. AuthInv'
    BY <2>1, <2>2, CheckKeeps
  <2>4. Counts'
    BY <1>3, <2>1, <2>2, ConnectionKeeps
  <2> QED
    BY <1>s, <2>1, <2>3, <2>4
<1>4. ASSUME NEW c \in Connections, OpenShell(c) PROVE ServerInv'
  <2>1. UNCHANGED authVars
    BY <1>4 DEF OpenShell, Only
  <2> QED
    BY <1>0, <1>4, <2>1, OpenShellKeeps
<1>5. ASSUME NEW c \in Connections, Moves(c) PROVE ServerInv'
  <2>1. Running(c) /\ UNCHANGED <<conn, active, dropped, sessions, authVars>>
    BY <1>5, MovesRun
  <2>2. ShellInv' /\ Counts'
    BY <1>5, <2>1, MovesFit, MoveKeeps
  <2> QED
    BY <1>0, <2>1, <2>2
<1>6. ASSUME NEW c \in Connections, GreetFails(c) \/ Done(c) PROVE ServerInv'
  <2>1. UNCHANGED authVars /\ Running(c) /\ Release(c)
    BY <1>6 DEF GreetFails, Done, Release, Only, Running
  <2> QED
    BY <1>0, <2>1, ReleaseKeeps
<1>7. ASSUME NEW a \in Addresses, LockoutEnds(a), UNCHANGED serverVars PROVE ServerInv'
  BY <1>s, <1>c, <1>7, EndKeeps DEF serverVars
<1>8. CASE UNCHANGED vars
  BY <1>0, <1>s, <1>c, <1>8 DEF vars, authVars
<1> QED
  BY <1>1, <1>2, <1>3, <1>4, <1>5, <1>6, <1>7, <1>8, NextCases

-----------------------------------------------------------------------------
(* Theorems.                                                                  *)

\* The inductive invariant: who is let in, where every shell is and what it has
\* reported, and both counters, whatever connections, logins and shells do.
THEOREM InvAlways == Spec => []ServerInv
<1>1. Init => ServerInv
  BY InitInv
<1>2. ServerInv /\ [Next]_vars => ServerInv'
  BY StepKeeps
<1> QED
  BY <1>1, <1>2, PTL DEF Spec

\* Shells are counted as they run, open connections up to the rejected ones that
\* were taken off twice, and an address has fewer guesses than LockoutAfter
\* between two lockouts, for any number of connections, limits and modes.
THEOREM CountersAlwaysAgree == Spec => []CountersAgree
<1>1. ServerInv => CountersAgree
  <2> SUFFICES ASSUME ServerInv PROVE CountersAgree
    OBVIOUS
  <2>1. GuessesBounded
    BY AuthAssumption DEF ServerInv, AuthInv, AddressFits, GuessesBounded
  <2>2. AuthTypeOK
    BY DEF ServerInv, AuthInv, AddressFits, AuthTypeOK
  <2>3. TypeOK
    BY <2>2 DEF ServerInv, ShellInv, Shells, Counts, Conns, TypeOK
  <2> QED
    BY <2>1, <2>3 DEF ServerInv, Counts, OpenOnes, RunningOnes, CountersAgree
<1> QED
  BY <1>1, InvAlways, PTL

\* No shell runs a command after it reported its end, and none that was greeted
\* goes without reporting it.
THEOREM EndAlwaysReported == Spec => EndReported
<1> DEFINE Reports(c) ==
      /\ shell[c].ended > 0 => shell'[c].at \notin {"reading", "command"}
      /\ Running(c) /\ shell'[c] = NoShell => shell[c].at = "starting" \/ shell[c].ended > 0
<1>1. ServerInv /\ [Next]_vars => [\A c \in Connections : Reports(c)]_vars
  <2> SUFFICES ASSUME ServerInv, Next, NEW c \in Connections PROVE Reports(c)
    BY DEF vars
  <2>0. ShellFits(shell[c]) /\ shell \in [Connections -> Shells]
    BY DEF ServerInv, ShellInv
  <2>1. ASSUME shell'[c] = shell[c] PROVE Reports(c)
    BY <2>0, <2>1 DEF ShellFits, Running, NoShell
  <2>2. ASSUME NEW d \in Connections, Moves(d) \/ OpenShell(d) \/ GreetFails(d) \/ Done(d),
               c # d
        PROVE  Reports(c)
    <3>1. shell'[c] = shell[c]
      BY <2>0, <2>2 DEF Moves, OpenShell, GreetFails, Done, Greet, Command, Respond, RespondFails,
            AtExit, Exit, Finally, Delta, Go, End, Put, Release
    <3> QED
      BY <2>1, <3>1
  <2>3. CASE Moves(c)
    <3>1. PICK sh : ShellFits(sh) /\ sh # NoShell /\ shell' = [shell EXCEPT ![c] = sh]
      BY <2>3, MovesFit DEF ServerInv
    <3>2. shell'[c] = sh
      BY <2>0, <3>1
    <3>3. ASSUME shell[c].ended > 0 PROVE sh.at \notin {"reading", "command"}
      <4>1. shell[c].at \in {"leaving", "delta", "ending"}
        BY <2>0, <3>3 DEF ShellFits, Shells, NoShell, Places
      <4>2. CASE Exit(c)
        BY <2>0, <3>2, <4>2 DEF Exit, End, Put
      <4>3. CASE Finally(c)
        BY <2>0, <3>2, <4>3 DEF Finally, Go, End, Put
      <4>4. CASE Delta(c)
        BY <2>0, <3>2, <4>4 DEF Delta, End, Put
      <4> QED
        BY <2>3, <4>1, <4>2, <4>3, <4>4 DEF Moves, Greet, Command, Respond, RespondFails
    <3> QED
      BY <3>1, <3>2, <3>3
  <2>4. CASE OpenShell(c)
    <3>1. shell[c].at = "none" /\ shell[c].ended = 0
      BY <2>0, <2>4 DEF OpenShell, Running, ShellFits
    <3> QED
      BY <3>1 DEF Running
  <2>5. CASE GreetFails(c)
    BY <2>0, <2>5 DEF GreetFails, ShellFits
  <2>6. CASE Done(c)
    <3>1. shell[c].ended > 0 /\ shell'[c] = NoShell
      BY <2>0, <2>6 DEF Done, Release, ShellFits
    <3> QED
      BY <3>1 DEF NoShell
  <2>7. ASSUME UNCHANGED shell PROVE Reports(c)
    BY <2>1, <2>7
  <2> QED
    BY <2>2, <2>3, <2>4, <2>5, <2>6, <2>7, NextCases
      DEF Connect, Reject, Lose, Answer, Attempt, serverVars
<1> QED
  BY <1>1, InvAlways, PTL DEF Spec, EndReported

-----------------------------------------------------------------------------
(* Telemetry in the background and the shutdown.                              *)

(* Nothing is cancelled before main's wait is over, and while it waits each   *)
(* early event that has no end yet is one it waits for.                       *)
Sighted ==
    /\ \A t \in Emits : emit[t] = "waiting" => t \in pending
    /\ \A t \in early : emit[t] # "none"
    /\ main \in {"serving", "closing", "gathering"} => \A t \in Emits : emit[t] # "cancelled"
    /\ main = "gathering" => \A t \in early : emit[t] = "waiting" => t \in gathered
    /\ main \in {"leaving", "draining", "stopped"} =>
          \A t \in early : Finished(t) /\ (emit[t] = "cancelled" => gaveUp)
TelemetryInv == TelemetryTypeOK /\ Sighted

(* One more task keeps the set within its bound.                              *)
LEMMA OneMorePending ==
    ASSUME TelemetryTypeOK, NEW t \in Emits, Cardinality(pending) <= MaxPending
    PROVE  Cardinality(pending \cup {t}) <= MaxPending + 1
<1>1. IsFiniteSet(pending) /\ MaxPending \in Nat
  BY TelemetryAssumption, FS_Subset DEF TelemetryTypeOK
<1>2. Cardinality(pending) \in Nat
  BY <1>1, FS_CardinalityType
<1>3. Cardinality(pending \cup {t}) = IF t \in pending THEN Cardinality(pending) ELSE Cardinality(pending) + 1
  BY <1>1, FS_AddElement
<1> QED
  BY <1>1, <1>2, <1>3

(* One task less does, too.                                                   *)
LEMMA OneLessPending ==
    ASSUME TelemetryTypeOK, NEW t \in Emits
    PROVE  Cardinality(pending \ {t}) <= MaxPending + 1
<1>1. IsFiniteSet(pending) /\ MaxPending \in Nat
  BY TelemetryAssumption, FS_Subset DEF TelemetryTypeOK
<1>2. Cardinality(pending \ {t}) <= Cardinality(pending)
  BY <1>1, FS_Subset
<1>3. Cardinality(pending) \in Nat /\ Cardinality(pending \ {t}) \in Nat
  BY <1>1, FS_Subset, FS_CardinalityType
<1>4. Cardinality(pending) <= MaxPending + 1
  BY DEF TelemetryTypeOK
<1> QED
  BY <1>1, <1>2, <1>3, <1>4

(* At first nothing is emitted and nothing waited for.                        *)
LEMMA TelemetryStarts == ASSUME TelemetryInit PROVE TelemetryInv
<1>1. Cardinality(pending) = 0 /\ MaxPending \in Nat
  BY TelemetryAssumption, FS_EmptySet DEF TelemetryInit
<1>2. Cardinality(pending) <= MaxPending + 1
  BY <1>1
<1>3. TelemetryTypeOK
  BY <1>2 DEF TelemetryInit, TelemetryTypeOK
<1> QED
  BY <1>3 DEF TelemetryInit, TelemetryInv, Sighted

(* No step puts a value out of its range or the set above its bound.          *)
LEMMA TelemetryTypeKept ==
    ASSUME TelemetryTypeOK, [TelemetryNext]_telemetryVars PROVE TelemetryTypeOK'
<1>1. ASSUME NEW t \in Emits, Emit(t) PROVE TelemetryTypeOK'
  <2>1. pending' \subseteq Emits /\ Cardinality(pending') <= MaxPending + 1
        /\ emit' \in [Emits -> {"none", "waiting", "published", "failed", "dropped", "cancelled"}]
    <3>1. CASE Cardinality(pending) > MaxPending
      BY <1>1, <3>1 DEF Emit, Track, TelemetryTypeOK
    <3>2. CASE ~(Cardinality(pending) > MaxPending)
      <4>1. Cardinality(pending) <= MaxPending
        <5>1. Cardinality(pending) \in Nat /\ MaxPending \in Nat
          BY TelemetryAssumption, FS_Subset, FS_CardinalityType DEF TelemetryTypeOK
        <5> QED
          BY <5>1, <3>2
      <4>2. Cardinality(pending \cup {t}) <= MaxPending + 1
        BY <4>1, OneMorePending
      <4> QED
        BY <1>1, <3>2, <4>2 DEF Emit, Track, TelemetryTypeOK
    <3> QED
      BY <3>1, <3>2
  <2>2. early' \subseteq Emits
    BY <1>1 DEF Emit, TelemetryTypeOK
  <2> QED
    BY <1>1, <2>1, <2>2 DEF Emit, mainVars, TelemetryTypeOK
<1>2. ASSUME NEW t \in Emits, Publish(t) PROVE TelemetryTypeOK'
  BY <1>2 DEF Publish, mainVars, TelemetryTypeOK
<1>3. ASSUME NEW t \in Emits, Discard(t) PROVE TelemetryTypeOK'
  BY <1>3, OneLessPending DEF Discard, mainVars, TelemetryTypeOK
<1>4. CASE Shutdown
  BY <1>4 DEF Shutdown, TelemetryTypeOK
<1>5. CASE MainStep
  <2>1. CASE Closed
    BY <2>1 DEF Closed, TelemetryTypeOK
  <2>2. CASE Gathered
    BY <2>2 DEF Gathered, TelemetryTypeOK
  <2>3. CASE GatherTimesOut
    BY <2>3 DEF GatherTimesOut, Cancelled, TelemetryTypeOK
  <2>4. CASE CloseEmitter
    BY <2>4 DEF CloseEmitter, TelemetryTypeOK
  <2>5. CASE Return
    BY <2>5 DEF Return, Cancelled, TelemetryTypeOK
  <2> QED
    BY <1>5, <2>1, <2>2, <2>3, <2>4, <2>5 DEF MainStep
<1>6. CASE UNCHANGED telemetryVars
  BY <1>6 DEF telemetryVars, TelemetryTypeOK
<1> QED
  BY <1>1, <1>2, <1>3, <1>4, <1>5, <1>6 DEF TelemetryNext

(* No step loses sight of a task.                                             *)
LEMMA SightKept ==
    ASSUME TelemetryInv, [TelemetryNext]_telemetryVars PROVE Sighted'
<1>0. TelemetryTypeOK /\ Sighted
  BY DEF TelemetryInv
<1>1. ASSUME NEW t \in Emits, Emit(t) PROVE Sighted'
  <2>1. emit[t] = "none" /\ t \notin early
    BY <1>1, <1>0 DEF Emit, Sighted
  <2>2. /\ emit'[t] \in {"waiting", "dropped"} /\ (emit'[t] = "waiting" => t \in pending')
        /\ pending \subseteq pending' /\ \A u \in Emits \ {t} : emit'[u] = emit[u]
    BY <1>1, <1>0 DEF Emit, Track, TelemetryTypeOK
  <2>3. /\ main' = main /\ gathered' = gathered /\ gaveUp' = gaveUp /\ early \subseteq Emits
        /\ early' \subseteq early \cup {t}
        /\ main \notin {"serving", "closing"} => early' = early
    BY <1>1, <1>0 DEF Emit, mainVars, TelemetryTypeOK
  <2> QED
    BY <1>0, <2>1, <2>2, <2>3 DEF Sighted, Finished
<1>2. ASSUME NEW t \in Emits, Publish(t) PROVE Sighted'
  BY <1>2, <1>0 DEF Publish, mainVars, Sighted, Finished, TelemetryTypeOK
<1>3. ASSUME NEW t \in Emits, Discard(t) PROVE Sighted'
  BY <1>3, <1>0 DEF Discard, mainVars, Sighted, Finished
<1>4. CASE Shutdown
  BY <1>4, <1>0 DEF Shutdown, Sighted, Finished
<1>5. CASE MainStep
  <2>1. CASE Closed
    BY <2>1, <1>0 DEF Closed, Sighted, Finished, TelemetryTypeOK
  <2>2. CASE Gathered
    BY <2>2, <1>0 DEF Gathered, Sighted, Finished, TelemetryTypeOK
  <2>3. CASE GatherTimesOut
    BY <2>3, <1>0 DEF GatherTimesOut, Cancelled, Sighted, Finished, TelemetryTypeOK
  <2>4. CASE CloseEmitter
    BY <2>4, <1>0 DEF CloseEmitter, Sighted, Finished
  <2>5. CASE Return
    BY <2>5, <1>0 DEF Return, Cancelled, Sighted, Finished, TelemetryTypeOK
  <2> QED
    BY <1>5, <2>1, <2>2, <2>3, <2>4, <2>5 DEF MainStep
<1>6. CASE UNCHANGED telemetryVars
  BY <1>6, <1>0 DEF telemetryVars, Sighted, Finished
<1> QED
  BY <1>1, <1>2, <1>3, <1>4, <1>5, <1>6 DEF TelemetryNext

(* The inductive invariant of telemetry: the types, and that every task at    *)
(* work is in main's sight until main has done its waiting.                   *)
THEOREM TelemetryInvAlways == TelemetrySpec => []TelemetryInv
<1>1. TelemetryInit => TelemetryInv
  BY TelemetryStarts
<1>2. TelemetryInv /\ [TelemetryNext]_telemetryVars => TelemetryInv'
  BY TelemetryTypeKept, SightKept DEF TelemetryInv
<1> QED
  BY <1>1, <1>2, PTL DEF TelemetrySpec

(* _pending_emits never holds more than one task above its limit, whatever    *)
(* the number of events and in whatever order their tasks end.                *)
THEOREM TelemetryTypeCorrect == TelemetrySpec => []TelemetryTypeOK
<1>1. TelemetryInv => TelemetryTypeOK
  BY DEF TelemetryInv
<1> QED
  BY <1>1, TelemetryInvAlways, PTL

(* When main closes NATS, every event emitted before it looked has ended, and *)
(* was cancelled only if the five seconds ran out.                            *)
THEOREM AlwaysDrainedFirst == TelemetrySpec => []DrainedFirst
<1>1. TelemetryInv => DrainedFirst
  BY DEF TelemetryInv, Sighted, DrainedFirst
<1> QED
  BY <1>1, TelemetryInvAlways, PTL
=============================================================================
