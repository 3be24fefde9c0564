----------------------------- MODULE MCAppSampler -----------------------------
(* AppSampler with two processes and two regions for TLC.                     *)
EXTENDS AppSampler

TwoRegions == {"MPI_Barrier", "solve"}

\* No filter, every second entry an epoch, and every one after the first.
ThreeFilters == {NoFilter, [calls |-> 2, startup |-> 0], [calls |-> 1, startup |-> 1]}
===============================================================================
