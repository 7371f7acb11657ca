------------------------------ MODULE MCOperator ------------------------------
(* A spec with credentials, one without, and one with another port.           *)
EXTENDS Operator

MCSpecs == {[port |-> 22, creds |-> TRUE], [port |-> 22, creds |-> FALSE],
            [port |-> 2222, creds |-> FALSE]}
=============================================================================
