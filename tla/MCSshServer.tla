------------------------------ MODULE MCSshServer ------------------------------
(* The connections and shells of the decoy, and its telemetry and shutdown:   *)
(* three connections for the limits of the first, three events for a limit of *)
(* one in the second.  The two modules share no variable, so a behaviour is   *)
(* one of the one or of the other, as `part` says.                            *)
EXTENDS SshServer, SshTelemetry
VARIABLE part

SshInit == part \in {"server", "telemetry"} /\ Init /\ TelemetryInit
\* The process has ended, and nothing more is to happen.
Ended == main = "stopped" /\ UNCHANGED telemetryVars
SshNext ==
    /\ UNCHANGED part
    /\ \/ part = "server" /\ Next /\ UNCHANGED telemetryVars
       \/ part = "telemetry" /\ (TelemetryNext \/ Ended) /\ UNCHANGED vars
SshSpec ==
    /\ SshInit /\ [][SshNext]_<<part, vars, telemetryVars>>
    /\ \A c \in Connections : WF_vars(Proceed(c))
=============================================================================
