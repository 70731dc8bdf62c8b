------------------------------ MODULE MCTransport ------------------------------
(* Instances of Transport: one caller, as the harvest engines are, or two.  *)
EXTENDS Transport

CONSTANTS c1, c2

OneCaller  == {c1}
TwoCallers == {c1, c2}
Delays     == [k \in 0 .. MaxRetries |-> k + 1]
=============================================================================
