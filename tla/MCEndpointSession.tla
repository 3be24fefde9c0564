--------------------------- MODULE MCEndpointSession ---------------------------
(* EndpointSession with two jobs, two agents and two openings for TLC.     *)
EXTENDS EndpointSession

\* A monitor without parameters beside an agent that has some, and with fewer
\* samples than it.
TwoKinds == {"monitor", "balancer"}
PolicyCounts == [k \in TwoKinds |-> IF k = "monitor" THEN 0 ELSE 4]
SampleCounts == [k \in TwoKinds |-> IF k = "monitor" THEN 1 ELSE 3]
===============================================================================
