---------------------------- MODULE MCCtiPipeline ----------------------------
(* Two sessions in a memory for one, so that each can push the other out.     *)
(* Session s1 has two events that are evidence for the same alert and an end; *)
(* any of them may be redelivered, also after it was forgotten.  The event of *)
(* s2 comes from the healthcheck address, two belong to no session and are    *)
(* one discarded, one handed back.                                            *)
EXTENDS CtiPipeline
CONSTANTS s1, s2, none, x1, x2, end1, y1, z, bad, p1, alert

MCSessions == {s1, s2, none}
MCEvents == {x1, x2, end1, y1, z, bad}
MCSessionOf == [e \in MCEvents |-> IF e = y1 THEN s2 ELSE IF e \in {z, bad} THEN none ELSE s1]
MCFingerprint == [e \in MCEvents |-> e]
\* The same command in both sessions: ingest hashes neither session nor event id.
MCSameCommand == [e \in MCEvents |-> IF e = y1 THEN x1 ELSE e]
MCEvidence == [e \in MCEvents |-> IF e \in {x1, x2, y1} THEN {p1} ELSE {}]
MCRequires == alert :> {{p1}}

\* No Falco alerts here: MCCtiFalco has them.
MCSuspects == <<>>

\* The two commands are interchangeable.
Symmetry == Permutations({x1, x2})
=============================================================================
