----------------------------- MODULE MCStatusBoard -----------------------------
(* StatusBoard with two processes, on one CPU each, for TLC.                  *)
EXTENDS StatusBoard

TwoRanks == {"rank 0", "rank 1"}
TwoCpus == {0, 1}
OneEach == [r \in TwoRanks |-> IF r = "rank 0" THEN {0} ELSE {1}]
TwoRegions == [h \in {"solve", "MPI_Barrier"} |-> IF h = "solve" THEN "COMPUTE" ELSE "NETWORK"]
FirstCalls == [r \in TwoRanks |-> IF r = "rank 0" THEN 3 ELSE 0]
===============================================================================
