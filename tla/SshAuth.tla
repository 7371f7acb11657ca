-------------------------------- MODULE SshAuth --------------------------------
(***************************************************************************)
(* Who the SSH decoy lets in: ssh-decoy/auth_handler.py.  check_password   *)
(* is called from coroutines of one event loop and never waits, so it is   *)
(* one step; its counters are shared by all connections of an address.     *)
(*                                                                         *)
(* A password is empty (or blank), the one configured for the user, or     *)
(* another one.  The log of attempts is left out: nothing reads it here.   *)
(***************************************************************************)
EXTENDS Integers, FiniteSets

CONSTANTS Addresses, Users,
          Mode,              \* auth_mode
          LockoutAfter,      \* lockout_after
          FailBeforeSuccess  \* fail_before_success

ASSUME AuthAssumption ==
    /\ Mode \in {"open", "selective", "realistic", "closed"}
    /\ LockoutAfter \in Nat \ {0} /\ FailBeforeSuccess \in Nat

VARIABLES
    attempts,  \* ip_attempt_counts, an absent address counted as 0
    lockout,   \* ip_lockout_until: absent, in the future, or past
    rejected,  \* ip_fail_counts per address and user, up to FailBeforeSuccess:
               \* what is counted beyond makes no difference
    guesses    \* history: attempts evaluated since the last lockout ended

authVars == <<attempts, lockout, rejected, guesses>>

Passwords == {"empty", "right", "wrong"}

AuthInit ==
    /\ attempts = [a \in Addresses |-> 0]
    /\ lockout = [a \in Addresses |-> "none"]
    /\ rejected = [a \in Addresses |-> [u \in Users |-> 0]]
    /\ guesses = [a \in Addresses |-> 0]

\* _is_locked_out: a lockout that is over is forgotten with the attempts.
LockedOut(a) == lockout[a] = "running"
Counted(a) == IF lockout[a] = "over" THEN 0 ELSE attempts[a]
ReachesLimit(a) == Counted(a) + 1 >= LockoutAfter

\* _evaluate
Accepts(a, u, p) ==
    \/ Mode = "open"
    \/ Mode = "selective" /\ p = "right"
    \/ Mode = "realistic" /\ p = "right" /\ rejected[a][u] >= FailBeforeSuccess
Rejected(a, u, p) ==
    IF Mode = "realistic" /\ ~ Accepts(a, u, p) /\ rejected[a][u] < FailBeforeSuccess
    THEN [rejected EXCEPT ![a][u] = @ + 1] ELSE rejected

\* check_password and whether it accepts.
RefuseEmpty(a, p) ==
    /\ Mode # "open" /\ p = "empty"
    /\ UNCHANGED <<attempts, lockout, rejected, guesses>>
RefuseLocked(a) ==
    /\ LockedOut(a)
    /\ UNCHANGED authVars
TriggerLockout(a) ==
    /\ ~ LockedOut(a) /\ ReachesLimit(a)
    /\ attempts' = [attempts EXCEPT ![a] = Counted(a) + 1]
    /\ lockout' = [lockout EXCEPT ![a] = "running"]
    /\ UNCHANGED <<rejected, guesses>>
Evaluate(a, u, p) ==
    /\ ~ LockedOut(a) /\ ~ ReachesLimit(a)
    /\ attempts' = [attempts EXCEPT ![a] = Counted(a) + 1]
    /\ lockout' = [lockout EXCEPT ![a] = "none"]
    /\ rejected' = Rejected(a, u, p)
    /\ guesses' = [guesses EXCEPT ![a] = @ + 1]

CheckPassword(a, u, p, accepted) ==
    \/ ~ accepted /\ RefuseEmpty(a, p)
    \/ /\ Mode = "open" \/ p # "empty"
       /\ \/ ~ accepted /\ RefuseLocked(a)
          \/ ~ accepted /\ TriggerLockout(a)
          \/ accepted = Accepts(a, u, p) /\ Evaluate(a, u, p)

\* lockout_duration passes.
LockoutEnds(a) ==
    /\ lockout[a] = "running"
    /\ lockout' = [lockout EXCEPT ![a] = "over"]
    /\ guesses' = [guesses EXCEPT ![a] = 0]
    /\ UNCHANGED <<attempts, rejected>>

AuthTypeOK ==
    /\ attempts \in [Addresses -> 0 .. LockoutAfter]
    /\ lockout \in [Addresses -> {"none", "running", "over"}]
    /\ rejected \in [Addresses -> [Users -> 0 .. FailBeforeSuccess]]
    /\ guesses \in [Addresses -> Nat]

-----------------------------------------------------------------------------
(* Properties *)

\* However an address spreads its attempts over connections, fewer than
\* LockoutAfter of them are looked at between two lockouts.
GuessesBounded == \A a \in Addresses : guesses[a] < LockoutAfter
=============================================================================
