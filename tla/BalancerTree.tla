----------------------------- MODULE BalancerTree -----------------------------
(***************************************************************************)
(* The tree of controllers that runs the power balancer: the control loop  *)
(* of Controller.cpp, the mailboxes of TreeCommLevel.cpp and the roles of  *)
(* PowerBalancerAgent.cpp.                                                 *)
(*                                                                         *)
(* A controller runs on every compute node.  It hosts the leaf role of its *)
(* node and, if it is rank zero of one or more levels, the tree roles of   *)
(* these levels.  It repeats, with no synchronisation between nodes,       *)
(*                                                                         *)
(*   walk_down   receive the policy of the topmost hosted role, split it   *)
(*               level by level, adjust the platform                       *)
(*   walk_up     sample the platform, aggregate samples level by level     *)
(*                                                                         *)
(* A mailbox holds one message and is overwritten.  A policy stays in its  *)
(* mailbox and is read in every loop; samples are consumed when all the    *)
(* children of a role have sent one.                                       *)
(*                                                                         *)
(* A node has one package here.  Run times are left out: whether a         *)
(* measurement is stable or a target met is any answer.                    *)
(***************************************************************************)
EXTENDS Integers, FiniteSetsExt

CONSTANTS
    Node,        \* compute nodes: the controllers, and their leaf roles
    Tree,        \* tree roles, the root among them
    Root,        \* the role at m_root_level
    Parent,      \* Parent[a]: the tree role above role a
    Host,        \* Host[t]: the node whose controller runs tree role t
    Endpoint,    \* policies come from an endpoint (else from a file)
    FileBudget,  \* POWER_PACKAGE_LIMIT_TOTAL of the policy file
    RmPolicy,    \* policies the resource manager writes to the endpoint
    MaxWrites,   \* bound on how often it does
    Tdp,         \* POWER_PACKAGE_TDP
    MinPower,    \* M_MIN_PKG_POWER_SETTING
    MaxPower,    \* M_MAX_PKG_POWER_SETTING
    Delta,       \* the first m_trial_delta
    MinDelta,    \* M_MIN_TRIAL_DELTA
    MaxStep      \* bound on the step count

Role == Node \cup Tree

ASSUME TreeAssumption ==
    /\ IsFiniteSet(Node) /\ IsFiniteSet(Tree) /\ Node \cap Tree = {}
    /\ Root \in Tree
    /\ Parent \in [Role \ {Root} -> Tree]
    /\ Host \in [Tree -> Node]
ASSUME PowerAssumption ==
    /\ MinPower \in Nat \ {0} /\ MaxPower \in Nat /\ MinPower <= MaxPower
    /\ Tdp \in MinPower .. MaxPower
    /\ FileBudget \in MinPower .. MaxPower
    /\ MinDelta \in Nat \ {0} /\ Delta \in Nat /\ MinDelta <= Delta
ASSUME BoundsAssumption ==
    Endpoint \in BOOLEAN /\ MaxWrites \in Nat /\ MaxStep \in Nat

VARIABLES
    \* Controller
    turn,        \* what the controller of a node does next, and for which role
    failed,      \* nodes whose controller ended with an exception
    \* the endpoint
    rm_policy,   \* the policy in its shared memory
    last_policy, \* m_last_policy
    writes,      \* how often the resource manager wrote
    \* TreeCommLevel: one mailbox per link, named by the role below
    policy_box,  \* m_policy_mailbox
    sample_box,  \* m_sample_mailbox
    \* Role, TreeRole, RootRole
    step,        \* m_step_count
    complete,    \* m_is_step_complete, of the package on a leaf
    root_policy, \* m_policy of the root
    root_cap,    \* m_root_cap
    \* LeafRole and PowerBalancer of each node
    cap,         \* m_power_cap
    limit,       \* m_power_limit
    actual,      \* package.actual_limit, the limit written to the hardware
    target_met,  \* m_is_target_met
    trial_delta, \* m_trial_delta
    out_of_bounds, \* package.is_out_of_bounds
    slack,       \* package.power_slack
    headroom,    \* package.power_headroom
    clipped      \* history: a limit was raised to the minimum unnoticed

loopVars == <<turn, failed>>
endpointVars == <<rm_policy, last_policy, writes>>
boxVars == <<policy_box, sample_box>>
roleVars == <<step, complete, root_policy, root_cap>>
leafVars == <<cap, limit, actual, target_met, trial_delta, out_of_bounds, slack,
              headroom, clipped>>
vars == <<loopVars, endpointVars, boxVars, roleVars, leafVars>>

-----------------------------------------------------------------------------
(* The tree.                                                               *)

HostOf(a) == IF a \in Node THEN a ELSE Host[a]
Children(t) == {a \in Role \ {Root} : Parent[a] = t}
\* Rank zero of a level is the child on the parent's own node.
Below(t) == CHOOSE a \in Children(t) : HostOf(a) = Host[t]
IsTop(a) == a = Root \/ HostOf(Parent[a]) # HostOf(a)
Top(n) == CHOOSE a \in Role : HostOf(a) = n /\ IsTop(a)

\* The roles are the levels of one tree, and every level has a rank zero.  The node
\* of the root hosts all the roles between its leaf and the root: it is rank zero
\* of every level.
ASSUME LevelAssumption ==
    /\ \A t \in Tree : \E a \in Children(t) : HostOf(a) = Host[t]
    /\ \E depth \in [Role -> 0 .. Cardinality(Tree)] :
          \A a \in Role \ {Root} : depth[a] = depth[Parent[a]] + 1
    /\ \A a \in Role \ {Root} : HostOf(a) = Host[Root] => HostOf(Parent[a]) = Host[Root]

(* Policies and samples.  NaN is the value of a field nobody has set.      *)

NaN == -1
Policy == [cap : Int, step : Int, slack : Int]
ASSUME RmPolicyAssumption ==
    \A p \in RmPolicy : p \in Policy /\ (p.cap = NaN \/ p.cap > 0)
NoPolicy == [cap |-> NaN, step |-> NaN, slack |-> NaN]
Request(budget) == [cap |-> budget, step |-> NaN, slack |-> NaN]
Sample == [step : Int, slack : Int, headroom : Int]
NoSample == [step |-> -2, slack |-> 0, headroom |-> 0]

MinOf(a, b) == IF a <= b THEN a ELSE b
MaxOf(a, b) == IF a >= b THEN a ELSE b
Clamp(power) == MaxOf(MinPower, MinOf(power, MaxPower))

\* Seeded fault: the budget is not brought into the range of the hardware.
ValidatedUnclamped(p) ==
    [cap   |-> IF p.cap = NaN THEN Tdp ELSE p.cap,
     step  |-> IF p.step = NaN THEN 0 ELSE p.step,
     slack |-> IF p.slack = NaN THEN 0 ELSE p.slack]

\* validate_policy(): defaults, and a budget within the range of the hardware.
\* The all-zero policy it refuses is not one the tree sends: a policy without
\* a cap has a step greater than zero.
Validated(p) ==
    [cap   |-> IF p.cap = NaN THEN Tdp ELSE IF p.cap = 0 THEN 0 ELSE Clamp(p.cap),
     step  |-> IF p.step = NaN THEN 0 ELSE p.step,
     slack |-> IF p.slack = NaN THEN 0 ELSE p.slack]

SendDownLimit(s) == s % 3 = 0
MeasureRuntime(s) == s % 3 = 1
ReduceLimit(s) == s % 3 = 2

\* Every field has its type, steps stay in range, and no cap or limit is above
\* what the hardware takes.  (A limit below the minimum is possible, for a node
\* that has been clipped.)
Power == {p \in Int : p <= MaxPower}
TypeOK ==
    /\ turn \in [Node -> {"descend", "adjust", "sample", "ascend"} \X Role]
    /\ failed \in SUBSET Node
    /\ rm_policy \in Policy /\ last_policy \in Policy /\ writes \in 0 .. MaxWrites
    /\ policy_box \in [Role \ {Root} -> Policy]
    /\ sample_box \in [Role \ {Root} -> Sample]
    /\ step \in [Role -> -1 .. MaxStep] /\ complete \in [Role -> BOOLEAN]
    /\ root_policy \in Policy /\ root_cap \in {NaN} \cup MinPower .. MaxPower
    /\ cap \in [Node -> Power] /\ limit \in [Node -> Power]
    /\ actual \in [Node -> {NaN} \cup MinPower .. MaxPower]
    /\ trial_delta \in [Node -> MinDelta .. Delta]
    /\ target_met \in [Node -> BOOLEAN] /\ out_of_bounds \in [Node -> BOOLEAN]
    /\ slack \in [Node -> Int] /\ headroom \in [Node -> Int]
    /\ clipped \in BOOLEAN

DownTo(a) == <<IF a \in Node THEN "adjust" ELSE "descend", a>>
Start(n) == DownTo(Top(n))

Init ==
    /\ turn = [n \in Node |-> Start(n)]
    /\ failed = {}
    /\ rm_policy = NoPolicy /\ last_policy = NoPolicy /\ writes = 0
    /\ policy_box = [a \in Role \ {Root} |-> NoPolicy]
    /\ sample_box = [a \in Role \ {Root} |-> NoSample]
    /\ step = [a \in Role |-> IF a = Root THEN 0 ELSE -1]
    /\ complete = [a \in Role |-> a # Root]
    /\ root_policy = NoPolicy /\ root_cap = NaN
    /\ cap = [n \in Node |-> NaN] /\ limit = [n \in Node |-> NaN]
    /\ actual = [n \in Node |-> NaN]
    /\ target_met = [n \in Node |-> FALSE]
    /\ trial_delta = [n \in Node |-> Delta]
    /\ out_of_bounds = [n \in Node |-> FALSE]
    /\ slack = [n \in Node |-> 0] /\ headroom = [n \in Node |-> 0]
    /\ clipped = FALSE

-----------------------------------------------------------------------------
(* The resource manager.                                                   *)

WritePolicy(p) ==
    /\ Endpoint
    /\ writes < MaxWrites
    /\ rm_policy' = p
    /\ writes' = writes + 1
    /\ UNCHANGED <<last_policy, loopVars, boxVars, roleVars, leafVars>>

-----------------------------------------------------------------------------
(* walk_down()                                                             *)

Turn(phase, a) ==
    /\ turn[HostOf(a)] = <<phase, a>>
    /\ HostOf(a) \notin failed

\* receive_down() for the role, or the policy of the root from the file or the
\* endpoint.  m_in_policy is what the controller was constructed with, the
\* policy file or NaN, until the first policy arrives: no mailbox is emptied.
\* Seeded fault: a controller starts without the policy file.
InitialPolicyUnset == NoPolicy

InitialPolicy == IF Endpoint THEN NoPolicy ELSE Request(FileBudget)

Received(a) ==
    Validated(IF a = Root THEN IF Endpoint THEN rm_policy ELSE Request(FileBudget)
              ELSE IF policy_box[a] = NoPolicy THEN InitialPolicy ELSE policy_box[a])

\* do_send when the role is reached: a message came, or the endpoint changed.
Arrived(a) ==
    IF a # Root THEN policy_box[a] # NoPolicy
    ELSE Endpoint => rm_policy # last_policy

\* Seeded fault: the policy goes to the mailboxes of every level.
SendDownEveryLevel(t, p) ==
    policy_box' = [a \in Role \ {Root} |->
                     IF t = Root \/ Parent[a] = t THEN p ELSE policy_box[a]]

\* send_down() of a policy to every child.
SendDown(t, p) ==
    policy_box' = [a \in Role \ {Root} |-> IF Parent[a] = t THEN p ELSE policy_box[a]]

Descending(t) ==
    /\ Turn("descend", t)
    /\ turn' = [turn EXCEPT ![Host[t]] = DownTo(Below(t))]
    /\ last_policy' = IF t = Root /\ Endpoint THEN rm_policy ELSE last_policy
    /\ UNCHANGED <<failed, rm_policy, writes, sample_box, leafVars>>

\* TreeRole::descend(): once the last step is complete, the next one or the
\* first one is passed on.
HasNewStep(t) == Arrived(t) /\ complete[t] /\ Received(t).step # step[t]

TreeDescend(t) ==
    LET p == Received(t)
    IN  /\ t # Root
        /\ Descending(t)
        /\ HasNewStep(t)
        /\ p.step \in {0, step[t] + 1}
        /\ step' = [step EXCEPT ![t] = p.step]
        /\ complete' = [complete EXCEPT ![t] = FALSE]
        /\ SendDown(t, p)
        /\ UNCHANGED <<root_policy, root_cap>>

TreeWaits(t) ==
    /\ t # Root
    /\ Descending(t)
    /\ ~HasNewStep(t)
    /\ UNCHANGED <<policy_box, roleVars>>

\* An exception ends the controller.
Throw(n) ==
    /\ n \notin failed
    /\ failed' = failed \cup {n}
    /\ UNCHANGED <<turn, endpointVars, boxVars, roleVars, leafVars>>

\* Seeded fault: a new budget does not reset the step count.
RootRestartsKeepsStep ==
    LET first == [cap |-> Received(Root).cap, step |-> 0, slack |-> 0]
    IN  /\ Descending(Root)
        /\ Arrived(Root)
        /\ first.cap # root_cap
        /\ root_cap' = first.cap
        /\ root_policy' = first
        /\ SendDown(Root, first)
        /\ UNCHANGED <<step, complete>>

\* RootRole::descend(): a new budget restarts the algorithm,
RootRestarts ==
    LET first == [cap |-> Received(Root).cap, step |-> 0, slack |-> 0]
    IN  /\ Descending(Root)
        /\ Arrived(Root)
        /\ first.cap # root_cap
        /\ root_cap' = first.cap
        /\ root_policy' = first
        /\ step' = [step EXCEPT ![Root] = 0]
        /\ SendDown(Root, first)
        /\ UNCHANGED complete

\* the policy that ascend() prepared begins the next step,
MayAdvance == root_policy.step = step[Root] + 1 /\ step[Root] < MaxStep

RootAdvances ==
    /\ Descending(Root)
    /\ Arrived(Root)
    /\ Received(Root).cap = root_cap
    /\ MayAdvance
    /\ step' = [step EXCEPT ![Root] = @ + 1]
    /\ complete' = [complete EXCEPT ![Root] = FALSE]
    /\ SendDown(Root, root_policy)
    /\ UNCHANGED <<root_policy, root_cap>>

\* or there is nothing to send.  (root_policy.step is step[Root] or one more;
\* descend() throws for any other.)
RootWaits ==
    /\ Descending(Root)
    /\ Arrived(Root) => Received(Root).cap = root_cap /\ ~MayAdvance
    /\ UNCHANGED <<policy_box, roleVars>>

-----------------------------------------------------------------------------
(* LeafRole::adjust_platform()                                             *)

\* The request is clipped to the minimum; the balancer hears of it only if
\* that changes what the hardware has.  A limit of zero is taken for unset.
Enforce(n, new_limit, met) ==
    LET request == IF new_limit = 0 THEN actual[n] ELSE MaxOf(new_limit, MinPower)
        changed == request # actual[n]
        below == new_limit # 0 /\ new_limit < MinPower
    IN  /\ actual' = [actual EXCEPT ![n] = request]
        /\ limit' = [limit EXCEPT ![n] = IF changed THEN request ELSE new_limit]
        /\ target_met' = [target_met EXCEPT ![n] = met \/ (changed /\ below)]
        /\ out_of_bounds' = [out_of_bounds EXCEPT ![n] = @ \/ below]
        /\ clipped' = (clipped \/ (below /\ ~changed))

Adjusting(n) ==
    /\ Turn("adjust", n)
    /\ turn' = [turn EXCEPT ![n] = <<"sample", n>>]
    /\ UNCHANGED <<failed, endpointVars, boxVars, root_policy, root_cap, trial_delta,
                   slack, headroom>>

\* "New power cap from resource manager, reset algorithm."
AdjustReset(n) ==
    LET p == Received(n)
    IN  /\ Adjusting(n)
        /\ p.cap # 0
        /\ step' = [step EXCEPT ![n] = 0]
        /\ complete' = [complete EXCEPT ![n] = TRUE]
        /\ cap' = [cap EXCEPT ![n] = p.cap]
        /\ Enforce(n, p.cap, target_met[n])

\* "Advance a step": the power cap is raised by the slack that the root
\* distributes, or a measurement begins, or the target run time is set.
AdjustAdvance(n) ==
    LET p == Received(n)
        s == step[n] + 1
    IN  /\ Adjusting(n)
        /\ p.cap = 0
        /\ p.step = s
        /\ step' = [step EXCEPT ![n] = s]
        /\ complete' = [complete EXCEPT ![n] = SendDownLimit(s)]
        /\ \E met \in BOOLEAN :
              /\ ~ReduceLimit(s) => met = target_met[n]
              /\ IF SendDownLimit(s)
                   THEN /\ cap' = [cap EXCEPT ![n] = limit[n] + p.slack]
                        /\ Enforce(n, limit[n] + p.slack, met)
                   ELSE UNCHANGED cap /\ Enforce(n, limit[n], met)

\* The policy step that was current is enforced again.
AdjustAgain(n) ==
    LET p == Received(n)
    IN  /\ Adjusting(n)
        /\ p.cap = 0
        /\ p.step = step[n]
        /\ Enforce(n, limit[n], target_met[n])
        /\ UNCHANGED <<step, complete, cap>>

\* "The policy step is out of sync with the agent step or first policy
\* received had a zero power cap.", and of a tree role "policy is out of sync
\* with agent step."
OutOfSync(a) ==
    LET p == Received(a)
    IN  /\ turn[HostOf(a)] = DownTo(a)
        /\ a # Root
        /\ IF a \in Node THEN p.cap = 0 /\ p.step \notin {step[a], step[a] + 1}
                        ELSE HasNewStep(a) /\ p.step \notin {0, step[a] + 1}
        /\ Throw(HostOf(a))

-----------------------------------------------------------------------------
(* LeafRole::sample_platform()                                             *)

\* A sample goes up when the step is complete.
\* Seeded fault: a sample goes up in every loop.
SendUpAlways(a, send, sample) == sample_box' = [sample_box EXCEPT ![a] = sample]

SendUp(a, send, sample) ==
    sample_box' = IF send THEN [sample_box EXCEPT ![a] = sample] ELSE sample_box

UpFrom(a) == IF IsTop(a) THEN Start(HostOf(a)) ELSE <<"ascend", Parent[a]>>

Sampling(n, done, new_slack, new_headroom) ==
    LET sample == [step |-> step[n], slack |-> new_slack, headroom |-> new_headroom]
    IN  /\ Turn("sample", n)
        /\ complete' = [complete EXCEPT ![n] = done]
        /\ slack' = [slack EXCEPT ![n] = new_slack]
        /\ headroom' = [headroom EXCEPT ![n] = new_headroom]
        /\ SendUp(n, done, sample)
        /\ turn' = [turn EXCEPT ![n] = UpFrom(n)]
        /\ UNCHANGED <<failed, endpointVars, policy_box, step, root_policy, root_cap,
                       cap, actual, clipped>>

\* No new epoch, or nothing left to do in this step.
SampleNothing(n) ==
    /\ Sampling(n, complete[n], slack[n], headroom[n])
    /\ UNCHANGED <<limit, target_met, trial_delta, out_of_bounds>>

\* The run time of the application is stable.
SampleMeasured(n) ==
    /\ MeasureRuntime(step[n]) /\ ~complete[n]
    /\ Sampling(n, TRUE, slack[n], headroom[n])
    /\ UNCHANGED <<limit, target_met, trial_delta, out_of_bounds>>

\* A new epoch while the limit is being reduced.  A node without slack tries
\* smaller reductions from now on.
Reducing(n, done, new_limit) ==
    /\ ReduceLimit(step[n]) /\ ~complete[n]
    /\ limit' = [limit EXCEPT ![n] = new_limit]
    /\ out_of_bounds' = [out_of_bounds EXCEPT ![n] = FALSE]
    /\ trial_delta' = [trial_delta EXCEPT ![n] =
                          IF cap[n] = new_limit THEN MaxOf(@ \div 2, MinDelta) ELSE @]
    /\ Sampling(n, done, cap[n] - new_limit, MaxPower - new_limit)

\* The minimum is reached, or the target is met from the start.
SampleAtTarget(n) ==
    /\ out_of_bounds[n] \/ target_met[n]
    /\ Reducing(n, TRUE, limit[n])
    /\ UNCHANGED target_met

MayReduce(n) == ~out_of_bounds[n] /\ ~target_met[n]

SampleUnstable(n) ==
    /\ MayReduce(n)
    /\ Reducing(n, FALSE, limit[n])
    /\ UNCHANGED target_met

\* Seeded fault: backing up ignores the power cap.
SampleSlowerUncapped(n) ==
    /\ MayReduce(n)
    /\ Reducing(n, TRUE, limit[n] + trial_delta[n])
    /\ target_met' = [target_met EXCEPT ![n] = TRUE]

\* Slower than the target: back up one step, and done.
SampleSlower(n) ==
    /\ MayReduce(n)
    /\ Reducing(n, TRUE, IF limit[n] < cap[n] THEN MinOf(limit[n] + trial_delta[n], cap[n]) ELSE limit[n])
    /\ target_met' = [target_met EXCEPT ![n] = TRUE]

\* Still faster than the target: reduce.
SampleFaster(n) ==
    /\ MayReduce(n)
    /\ Reducing(n, FALSE, limit[n] - trial_delta[n])
    /\ UNCHANGED target_met

-----------------------------------------------------------------------------
(* walk_up() above the leaves: receive_up(), aggregate_sample(), send_up() *)

Reported(t) == \A a \in Children(t) : sample_box[a] # NoSample

Total(t, field) == MapThenSumSet(LAMBDA a : sample_box[a][field], Children(t))
\* Seeded fault: the children's step is the highest one.
LeastIsMost(t, field) == Max({sample_box[a][field] : a \in Children(t)})

Least(t, field) == Min({sample_box[a][field] : a \in Children(t)})

Aggregate(t) == [step     |-> Least(t, "step"),
                 slack    |-> Total(t, "slack"),
                 headroom |-> Least(t, "headroom")]

\* Seeded fault: a sample of any step counts.
StepDoneAnyStep(t) == Reported(t) /\ ~complete[t]

\* All children have completed the step of the role, for the first time.
StepDone(t) == Reported(t) /\ ~complete[t] /\ Least(t, "step") = step[t]

Consumed(t) == [a \in Role \ {Root} |-> IF Parent[a] = t THEN NoSample ELSE sample_box[a]]

Ascending(t) ==
    /\ Turn("ascend", t)
    /\ turn' = [turn EXCEPT ![Host[t]] = UpFrom(t)]
    /\ UNCHANGED <<failed, endpointVars, policy_box, step, root_cap, leafVars>>

AscendNothing(t) ==
    /\ Ascending(t)
    /\ ~StepDone(t)
    /\ sample_box' = IF Reported(t) THEN Consumed(t) ELSE sample_box
    /\ UNCHANGED <<complete, root_policy>>

StepIsDone(t) ==
    /\ Ascending(t)
    /\ StepDone(t)
    /\ complete' = [complete EXCEPT ![t] = TRUE]

TreeAscend(t) ==
    /\ t # Root
    /\ StepIsDone(t)
    /\ sample_box' = [Consumed(t) EXCEPT ![t] = Aggregate(t)]
    /\ UNCHANGED root_policy

\* Seeded faults: every node is given the slack of all; the node with the
\* least headroom does not bound it.
RootAscendUndivided ==
    /\ StepIsDone(Root)
    /\ root_policy.step = step[Root]
    /\ sample_box' = Consumed(Root)
    /\ LET all == Aggregate(Root)
       IN  root_policy' = [cap   |-> IF SendDownLimit(step[Root]) THEN 0 ELSE root_policy.cap,
                           step  |-> step[Root] + 1,
                           slack |-> IF ReduceLimit(step[Root])
                                     THEN MinOf(all.slack, all.headroom)
                                     ELSE root_policy.slack]
RootAscendNoHeadroom ==
    /\ StepIsDone(Root)
    /\ root_policy.step = step[Root]
    /\ sample_box' = Consumed(Root)
    /\ LET all == Aggregate(Root)
       IN  root_policy' = [cap   |-> IF SendDownLimit(step[Root]) THEN 0 ELSE root_policy.cap,
                           step  |-> step[Root] + 1,
                           slack |-> IF ReduceLimit(step[Root])
                                     THEN all.slack \div Cardinality(Node)
                                     ELSE root_policy.slack]

\* RootRole::ascend() prepares the policy of the next step: no cap after the
\* first, and the slack of a reduction shared by all nodes.
RootAscend ==
    /\ StepIsDone(Root)
    /\ root_policy.step = step[Root]
    /\ sample_box' = Consumed(Root)
    /\ LET all == Aggregate(Root)
       IN  root_policy' = [cap   |-> IF SendDownLimit(step[Root]) THEN 0 ELSE root_policy.cap,
                           step  |-> step[Root] + 1,
                           slack |-> IF ReduceLimit(step[Root])
                                     THEN MinOf(all.slack \div Cardinality(Node), all.headroom)
                                     ELSE root_policy.slack]

\* "sample passed does not match current step_count."
RootOutOfSync ==
    /\ turn[Host[Root]] = <<"ascend", Root>>
    /\ StepDone(Root)
    /\ root_policy.step # step[Root]
    /\ Throw(Host[Root])

-----------------------------------------------------------------------------
StepCompletes(n) == SampleMeasured(n) \/ SampleAtTarget(n) \/ SampleSlower(n)

LeafStep(n) ==
    \/ AdjustReset(n) \/ AdjustAdvance(n) \/ AdjustAgain(n) \/ OutOfSync(n)
    \/ SampleNothing(n) \/ StepCompletes(n) \/ SampleUnstable(n) \/ SampleFaster(n)

TreeStep(t) ==
    \/ TreeDescend(t) \/ TreeWaits(t) \/ OutOfSync(t)
    \/ AscendNothing(t) \/ TreeAscend(t)

RootStep ==
    \/ RootRestarts \/ RootAdvances \/ RootWaits
    \/ RootAscend \/ RootOutOfSync

\* Controller::step() of node n, one role after the other.
LoopOf(n) ==
    \/ LeafStep(n)
    \/ \E t \in Tree : Host[t] = n /\ TreeStep(t)
    \/ Host[Root] = n /\ RootStep

Next ==
    \/ \E n \in Node : LoopOf(n)
    \/ \E p \in RmPolicy : WritePolicy(p)

Spec == Init /\ [][Next]_vars

\* The control loops are scheduled, and epochs of the application go on: a
\* step that can complete at a sample does so at one of them.
FairSpec ==
    /\ Spec
    /\ \A n \in Node : WF_vars(LoopOf(n)) /\ SF_vars(StepCompletes(n))

-----------------------------------------------------------------------------
(* Properties.                                                             *)

\* No exception of adjust_platform(), descend() or ascend() about a step that
\* does not match.
NoneOutOfSync == failed = {}

\* A role is never ahead of the role above it nor more than a step behind.
\* (A role that has seen no policy counts as being in the first step.)
StepOf(a) == MaxOf(step[a], 0)
LockStep ==
    \A a \in Role \ {Root} : StepOf(a) \in {StepOf(Parent[a]) - 1, StepOf(Parent[a])}

\* What the root holds is the policy of its step or of the next one: descend()
\* has no other to refuse ("policy passed does not match current step_count").
RootPolicyInStep ==
    root_policy # NoPolicy => root_policy.step \in {step[Root], step[Root] + 1}

\* "First the average power cap is sent down to all nodes. Each node measures
\* application performance under this power cap": the root is past the first
\* step only if every node has been given the budget of the root.
MeasuredUnderBudget ==
    step[Root] \in {1, 2} => \A n \in Node : cap[n] = root_cap

\* A node never draws more than its own share, whatever its limit has been
\* through: lowered, backed up, raised by slack or replaced by a new budget.
NodeUnderCap ==
    \A n \in Node : cap[n] # NaN => actual[n] <= MaxOf(cap[n], MinPower)

\* "The PowerBalancerAgent is designed to enforce an application wide average
\* per-compute-node power cap": the limits of the nodes that have one.  It is
\* kept until adjust_platform() clips a request without telling the balancer.
Enforced == {n \in Node : actual[n] # NaN}
BudgetKept ==
    ~clipped =>
      MapThenSumSet(LAMBDA n : actual[n], Enforced) <= Cardinality(Enforced) * FileBudget

\* The leaves see a barrier between the steps (module StepBarrier).
Barrier == INSTANCE StepBarrier WITH
    Leaf <- Node,
    step <- [n \in Node |-> step[n]],
    complete <- [n \in Node |-> complete[n]]
BarrierSpec == Barrier!Spec

\* "Each node measures application performance under this power cap".
MeasurementBegins ==
    (rm_policy # NoPolicy) ~> (\A n \in Node : step[n] > 0 \/ failed # {})
===============================================================================
