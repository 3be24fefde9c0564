------------------------------ MODULE MCHandshake ------------------------------
(* Handshake with two or three ranks for TLC.                                *)
EXTENDS Handshake, TLC

\* Every rank on a CPU of its own; ranks 0 and 1 on one CPU; nobody on any;
\* one rank on none.
Own == {[r \in Rank |-> {r}]}
Shared == {[r \in Rank |-> IF r = 1 THEN {0} ELSE {r}]}
OwnOrNone == Own \cup {[r \in Rank |-> {}]}
AnyAffinity == OwnOrNone \cup {[r \in Rank |-> IF r = 2 THEN {} ELSE {r}]} \cup Shared

\* One or two tables of names; two and three tables.
OneOrTwo == [Rank -> {1, 2}]
TwoAndThree == {[r \in Rank |-> r + 2]}

\* Nobody's waits time out early, or anybody's.
Nobody == {{}}
NobodyOrAnybody == {{}, Actor}
===============================================================================
