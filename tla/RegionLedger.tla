---------------------------- MODULE RegionLedger ----------------------------
(***************************************************************************)
(* What the path from Profile through the record log to                    *)
(* ProcessRegionAggregator promises, whatever the log does in between: the *)
(* controller's count of completed traversals of a region never exceeds    *)
(* the number of completions, and catches up with it.  A log that          *)
(* overflowed promises nothing.                                            *)
(***************************************************************************)
EXTENDS Naturals

CONSTANT Region

VARIABLES
    done,       \* completed traversals of each region
    reported,   \* those the controller has counted
    lost        \* the log overflowed

vars == <<done, reported, lost>>

Init ==
    /\ done = [h \in Region |-> 0]
    /\ reported = [h \in Region |-> 0]
    /\ lost = FALSE

Complete(h) ==
    /\ ~lost
    /\ done' = [done EXCEPT ![h] = @ + 1]
    /\ UNCHANGED <<reported, lost>>

Report(h) ==
    /\ ~lost
    /\ \E n \in reported[h] + 1 .. done[h] :
          reported' = [reported EXCEPT ![h] = n]
    /\ UNCHANGED <<done, lost>>

\* The call that overflows the log may complete a region.
Lose == ~lost /\ lost'

Lost == lost /\ lost'

Next ==
    \/ \E h \in Region : Complete(h) \/ Report(h)
    \/ Lose
    \/ Lost

Spec == Init /\ [][Next]_vars /\ \A h \in Region : WF_vars(Report(h))
==============================================================================
