----------------------------- MODULE StepBarrier -----------------------------
(***************************************************************************)
(* What the tree of controllers promises the leaves of the power balancer: *)
(* the steps of the algorithm are separated by barriers.  A leaf begins    *)
(* step s + 1 only when every leaf has completed step s, and the leaves    *)
(* never stop while steps are left.                                        *)
(***************************************************************************)
EXTENDS Integers

CONSTANTS
    Leaf,
    MaxStep

VARIABLES
    step,       \* the step each leaf executes, -1 before the first policy
    complete    \* whether it has completed it

vars == <<step, complete>>

Init ==
    /\ step = [l \in Leaf |-> -1]
    /\ complete = [l \in Leaf |-> TRUE]

Arrived(s) == \A l \in Leaf : step[l] > s \/ (step[l] = s /\ complete[l])

\* A step that only sends down a limit is complete at once.
Advance(l) ==
    /\ step[l] < MaxStep
    /\ Arrived(step[l])
    /\ step' = [step EXCEPT ![l] = @ + 1]
    /\ \E c \in BOOLEAN : complete' = [complete EXCEPT ![l] = c]

Complete(l) ==
    /\ ~complete[l]
    /\ complete' = [complete EXCEPT ![l] = TRUE]
    /\ UNCHANGED step

Next == \E l \in Leaf : Advance(l) \/ Complete(l)

Safety == Init /\ [][Next]_vars

Spec == Safety /\ WF_vars(Next)
==============================================================================
