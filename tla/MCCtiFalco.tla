----------------------------- MODULE MCCtiFalco -----------------------------
(* One session with a command and an end, and one Falco alert that may be     *)
(* correlated with it: the two writers of engage_outcomes race.               *)
EXTENDS CtiPipeline
CONSTANTS s1, none, x1, end1, f1, p1, alert

MCSessions == {s1, none}
MCEvents == {x1, end1}
MCSessionOf == [e \in MCEvents |-> s1]
MCFingerprint == [e \in MCEvents |-> e]
MCEvidence == [e \in MCEvents |-> IF e = x1 THEN {p1} ELSE {}]
MCRequires == alert :> {{p1}}
MCSuspects == f1 :> {s1}
=============================================================================
