--------------------------- MODULE MCEpochDetector ---------------------------
(* EpochDetector with interchangeable regions, for TLC.                       *)
EXTENDS EpochDetector, TLC

AnyRegion == Permutations(Region)
==============================================================================
