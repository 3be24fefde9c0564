---------------------------- MODULE MCBalancerTree ----------------------------
(* BalancerTree on small trees for TLC.  FlatTree is one level of two nodes; *)
(* DeepTree is the fan-out {2, 2}: n1 hosts the root and t1, n3 hosts t2.    *)
EXTENDS BalancerTree, TLC

CONSTANTS n1, n2, n3, n4, t1, t2, root

FlatParent == [a \in {n1, n2} |-> root]
FlatHost == [t \in {root} |-> n1]

DeepParent == (n1 :> t1) @@ (n2 :> t1) @@ (n3 :> t2) @@ (n4 :> t2)
              @@ (t1 :> root) @@ (t2 :> root)
DeepHost == (root :> n1) @@ (t1 :> n1) @@ (t2 :> n3)

NoRmPolicy == {}
TwoBudgets == {Request(8), Request(10)}
\* Budgets at the ends of the range of the hardware and beyond them: other
\* policies than the last one, for which the root is called again, and the
\* same power cap once they are validated.
Rewrites == {Request(7), Request(8), Request(12), Request(13)}
===============================================================================
