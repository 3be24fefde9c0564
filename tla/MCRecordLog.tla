----------------------------- MODULE MCRecordLog -----------------------------
(* RecordLog on small instances for TLC. *)
EXTENDS RecordLog, TLC

CONSTANTS r1, r2

MCSymmetry == Permutations({r1, r2})
==============================================================================
