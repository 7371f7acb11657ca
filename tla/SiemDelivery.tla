---------------------------- MODULE SiemDelivery ----------------------------
(* What the SIEM forwarder promises of every message it consumes, whatever    *)
(* the number of goroutines, retries, redeliveries and restarts: at-least-once*)
(* delivery to the SIEM or to the dead-letter subject.  A message is          *)
(* acknowledged only after the SIEM stored it or the dead-letter subject took *)
(* it, none of the three is ever taken back, and nothing is sent once the     *)
(* message is acknowledged.                                                   *)
CONSTANT Messages
VARIABLES stored, dead, acked

vars == <<stored, dead, acked>>

Init == stored = {} /\ dead = {} /\ acked = {}

\* A set that only gains messages which are not acknowledged yet.
Gains(old, new) == new \in SUBSET Messages /\ old \subseteq new /\ (new \ old) \cap acked = {}

\* The SIEM stores records; an acknowledgement is another step.
Store == Gains(stored, stored') /\ UNCHANGED <<dead, acked>>

\* Acknowledge what was stored, and what the dead-letter subject takes just now.
Acknowledge ==
    /\ Gains(dead, dead')
    /\ acked \subseteq acked' /\ acked' \subseteq stored \cup dead'
    /\ UNCHANGED stored

Next == Store \/ Acknowledge

Spec == Init /\ [][Next]_vars
=============================================================================
