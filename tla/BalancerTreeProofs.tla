-------------------------- MODULE BalancerTreeProofs --------------------------
(***************************************************************************)
(* Proofs about BalancerTree, for any tree, any powers and any bound on    *)
(* the steps.                                                              *)
(*                                                                         *)
(* With a policy file the budget never changes, and everything a role and  *)
(* the role above it can disagree about is local to the link between them: *)
(* InSync relates the two by their mailboxes.  What holds between          *)
(* arbitrary roles, such as two leaves, follows by going down the tree.    *)
(*                                                                         *)
(* The budget is kept on average over the nodes, so the argument for the   *)
(* power counts: the slack in a sample is what all the leaves below have   *)
(* under their caps, and what the root hands out is no more than that.     *)
(* The root's policy reaches the leaves one after the other; a leaf that   *)
(* waits for it counts with what it is going to get.                       *)
(***************************************************************************)
EXTENDS BalancerTree, SumTheorems

(* The invariant of the root, also with an endpoint.                       *)

\* The root holds no policy before its first descend(), and later that of its
\* step or of the next one.
RootInv ==
    /\ DOMAIN step = Role /\ step[Root] \in Nat
    /\ root_policy = NoPolicy \/ root_policy.step \in {step[Root], step[Root] + 1}

(* The invariant with a policy file.                                       *)

Shapes ==
    /\ turn = [n \in Node |-> turn[n]]
    /\ policy_box = [a \in Role \ {Root} |-> policy_box[a]]
    /\ sample_box = [a \in Role \ {Root} |-> sample_box[a]]
    /\ step \in [Role -> Int] /\ complete \in [Role -> BOOLEAN]
    /\ cap = [n \in Node |-> cap[n]]
    /\ failed = {}

\* Before the first descend() nobody at the root's node does anything, then the
\* policy of the root is that of its step until all have completed it.
BudgetAt(s) == IF s = 0 THEN FileBudget ELSE 0
PolicyOf(s, p) == p = [cap |-> BudgetAt(s), step |-> s, slack |-> p.slack]
RootInSync ==
    /\ step[Root] \in 0 .. MaxStep
    /\ IF root_cap = NaN
       THEN /\ step[Root] = 0 /\ ~complete[Root]
            /\ turn[Host[Root]] = <<"descend", Root>>
       ELSE /\ root_cap = FileBudget
            /\ root_policy.step = IF complete[Root] THEN step[Root] + 1 ELSE step[Root]
            /\ PolicyOf(root_policy.step, root_policy)

\* Role a has not been sent a policy: the role above has none either, and at most
\* the policy file has been enforced.
Unsent(a) ==
    /\ policy_box[a] = NoPolicy
    /\ IF Parent[a] = Root THEN root_cap = NaN
       ELSE step[Parent[a]] = -1 /\ complete[Parent[a]]
    /\ complete[a]
    /\ step[a] = -1 \/ (a \in Node /\ step[a] = 0)

\* The policy in the mailbox is that of the step of the role above, and the role
\* is in that step too, or has completed the one before.
Sent(a) ==
    LET s == step[Parent[a]] IN
      /\ s \in Nat
      /\ Parent[a] = Root => root_cap # NaN
      /\ PolicyOf(s, policy_box[a])
      /\ step[a] = s \/ (step[a] = s - 1 /\ complete[a])

\* A role that has completed a step waits for the next, and so do those below.
Held(a) ==
    LET t == Parent[a] IN
      complete[t] /\ step[t] \in Nat => step[a] = step[t] /\ complete[a]

\* A sample tells of a step that the role has completed.
Honest(a) ==
    LET m == sample_box[a] IN
      \/ m = NoSample
      \/ /\ m = [step |-> m.step, slack |-> m.slack, headroom |-> m.headroom]
         /\ m.step \in Nat /\ m.step <= step[a]
         /\ m.step = step[a] => complete[a]

LinkInSync(a) == (Unsent(a) \/ Sent(a)) /\ Held(a) /\ Honest(a)

\* A leaf samples after it has adjusted, and keeps its share of the file's budget
\* up to the end of the first reduction.
LeafInSync(n) ==
    /\ turn[n] = <<"sample", n>> => step[n] \in Nat
    /\ step[n] \in 0 .. 2 => cap[n] = FileBudget

InSync ==
    /\ Shapes
    /\ RootInSync
    /\ \A a \in Role \ {Root} : LinkInSync(a)
    /\ \A n \in Node : LeafInSync(n)

-----------------------------------------------------------------------------
(* The constants, and what a role receives.                                *)

\* Parents are tree roles, and every role has a host.
LEMMA TreeFacts ==
    /\ Root \in Role /\ Root \notin Node /\ Tree \subseteq Role /\ Node \subseteq Role
    /\ \A a \in Role \ {Root} : Parent[a] \in Tree /\ Parent[a] \in Role /\ Parent[a] \notin Node
    /\ \A a \in Role : HostOf(a) \in Node
    /\ \A t \in Tree : HostOf(t) = Host[t] /\ Host[t] \in Node
    /\ \A n \in Node : HostOf(n) = n
  BY TreeAssumption DEF Role, HostOf

\* The root reads the budget of the file, as it is in range.
LEMMA RootReceives ==
    ASSUME ~Endpoint
    PROVE  Received(Root) = [cap |-> FileBudget, step |-> 0, slack |-> 0]
  BY PowerAssumption
     DEF Received, Validated, Request, NaN, Clamp, MinOf, MaxOf

\* Another role reads the file before it is sent a policy,
LEMMA UnsentReceives ==
    ASSUME ~Endpoint, NEW a \in Role \ {Root}, Unsent(a)
    PROVE  Received(a) = [cap |-> FileBudget, step |-> 0, slack |-> 0]
  BY PowerAssumption
     DEF Unsent, Received, InitialPolicy, Validated, Request, NaN, Clamp, MinOf, MaxOf

\* and then the policy of the step of the role above.
LEMMA SentReceives ==
    ASSUME NEW a \in Role \ {Root}, Sent(a)
    PROVE  /\ policy_box[a] # NoPolicy
           /\ Received(a).step = step[Parent[a]]
           /\ Received(a).cap = BudgetAt(step[Parent[a]])
           /\ Received(a) = [cap |-> Received(a).cap, step |-> Received(a).step,
                             slack |-> Received(a).slack]
<1> DEFINE s == step[Parent[a]]
           b == policy_box[a]
<1>1. s \in Nat /\ b = [cap |-> BudgetAt(s), step |-> s, slack |-> b.slack]
  BY DEF Sent, PolicyOf
<1>2. b.step = s /\ b.cap = BudgetAt(s) /\ b # NoPolicy
  BY <1>1 DEF NoPolicy, NaN
<1>3. BudgetAt(s) = 0 \/ (BudgetAt(s) \in Nat /\ Clamp(BudgetAt(s)) = BudgetAt(s) /\ BudgetAt(s) # 0)
  BY PowerAssumption DEF BudgetAt, Clamp, MinOf, MaxOf
<1>4. Received(a) = Validated(b)
  BY <1>2 DEF Received
<1> QED
  BY <1>1, <1>2, <1>3, <1>4 DEF Validated, NaN

-----------------------------------------------------------------------------
(* The initial state.                                                      *)

\* Nobody has a policy, every role but the root may begin.
LEMMA InitInSync == Init => InSync
<1> SUFFICES ASSUME Init PROVE InSync
  OBVIOUS
<1>1. Shapes
  BY TreeFacts DEF Init, Shapes
<1>2. turn[Host[Root]] = <<"descend", Root>>
  <2> DEFINE h == Host[Root]
  <2>1. h \in Node /\ HostOf(Root) = h /\ IsTop(Root)
    BY TreeFacts, TreeAssumption DEF IsTop
  <2>2. \A a \in Role : HostOf(a) = h /\ IsTop(a) => a = Root
    BY LevelAssumption, TreeFacts, TreeAssumption DEF IsTop
  <2>3. Top(h) = Root
    BY <2>1, <2>2, TreeFacts DEF Top
  <2> QED
    BY <2>1, <2>3, TreeFacts DEF Init, Start, DownTo
<1>3. RootInSync
  <2>1. step[Root] = 0 /\ ~complete[Root] /\ root_cap = NaN
    BY TreeFacts DEF Init
  <2> QED
    BY <1>2, <2>1, BoundsAssumption DEF RootInSync
<1>4. ASSUME NEW a \in Role \ {Root} PROVE LinkInSync(a)
  BY TreeFacts DEF Init, LinkInSync, Unsent, Held, Honest
<1>5. ASSUME NEW n \in Node PROVE LeafInSync(n)
  <2>1. turn[n] # <<"sample", n>>
    BY DEF Init, Start, DownTo
  <2> QED
    BY <2>1, TreeFacts DEF Init, LeafInSync
<1> QED
  BY <1>1, <1>3, <1>4, <1>5 DEF InSync

-----------------------------------------------------------------------------
(* A leaf samples.                                                         *)

\* Whatever it measures: a step that is complete stays complete, and only then
\* does a sample go up.
LEMMA SamplingInSync ==
    ASSUME InSync, NEW n \in Node, NEW done \in BOOLEAN, NEW s, NEW h,
           complete[n] => done, Sampling(n, done, s, h), UNCHANGED cap
    PROVE  InSync'
<1> DEFINE sample == [step |-> step[n], slack |-> s, headroom |-> h]
<1>1. /\ turn[n] = <<"sample", n>> /\ turn' = [turn EXCEPT ![n] = UpFrom(n)]
      /\ complete' = [complete EXCEPT ![n] = done]
      /\ sample_box' = IF done THEN [sample_box EXCEPT ![n] = sample] ELSE sample_box
      /\ UNCHANGED <<failed, policy_box, step, root_policy, root_cap, cap>>
  BY TreeFacts DEF Sampling, SendUp, Turn, boxVars, endpointVars
<1>2. Shapes /\ n \in Role \ {Root} /\ step[n] \in Nat
  BY <1>1, TreeFacts DEF InSync, LeafInSync
<1>3. Shapes'
  BY <1>1, <1>2 DEF Shapes
<1>4. \A a \in Role : a # n => complete'[a] = complete[a]
  BY <1>1, <1>2 DEF Shapes
<1>5. complete'[n] = done
  BY <1>1, <1>2 DEF Shapes
<1>6. UpFrom(n) # <<"sample", n>>
  BY DEF UpFrom, Start, DownTo
<1>7. RootInSync'
  <2>1. turn[Host[Root]] = <<"descend", Root>> => turn'[Host[Root]] = turn[Host[Root]]
    BY <1>1, <1>2, TreeFacts DEF Shapes
  <2> QED
    BY <1>1, <1>2, <1>4, <2>1, TreeFacts DEF InSync, RootInSync
<1>8. ASSUME NEW a \in Role \ {Root} PROVE LinkInSync(a)'
  <2>1. LinkInSync(a) /\ Parent[a] # n /\ Parent[a] \in Role
    BY TreeFacts DEF InSync
  <2>2. complete'[Parent[a]] = complete[Parent[a]] /\ (complete[a] => complete'[a])
    BY <1>4, <1>5, <2>1
  <2>3. Honest(a)'
    <3>1. CASE a = n
      BY <1>1, <1>2, <1>5, <2>1, <3>1 DEF Honest, LinkInSync, Shapes
    <3>2. CASE a # n
      BY <1>1, <1>2, <1>4, <2>1, <3>2 DEF Honest, LinkInSync, Shapes
    <3> QED
      BY <3>1, <3>2
  <2>4. Held(a)'
    BY <1>1, <2>1, <2>2 DEF LinkInSync, Held
  <2>5. Unsent(a) => Unsent(a)'
    BY <1>1, <2>1, <2>2 DEF Unsent
  <2>6. Sent(a) => Sent(a)'
    BY <1>1, <2>1, <2>2 DEF Sent
  <2> QED
    BY <2>1, <2>3, <2>4, <2>5, <2>6 DEF LinkInSync
<1>9. ASSUME NEW m \in Node PROVE LeafInSync(m)'
  <2>1. turn'[m] = <<"sample", m>> => turn[m] = <<"sample", m>>
    BY <1>1, <1>2, <1>6 DEF Shapes
  <2> QED
    BY <1>1, <2>1 DEF InSync, LeafInSync
<1> QED
  BY <1>3, <1>7, <1>8, <1>9 DEF InSync

-----------------------------------------------------------------------------
(* A leaf adjusts its platform.                                            *)

\* What follows when a leaf goes to step s from s - 1, or stays in it.
LEMMA AdjustInSync ==
    ASSUME InSync, NEW n \in Node, NEW s \in Nat, NEW done \in BOOLEAN,
           Adjusting(n),
           step' = [step EXCEPT ![n] = s], complete' = [complete EXCEPT ![n] = done],
           step[n] <= s, step[n] = s /\ complete[n] => done,
           Unsent(n) => s = 0 /\ done,
           Sent(n) => s = step[Parent[n]],
           cap' = [cap EXCEPT ![n] = cap'[n]], s \in 0 .. 2 => cap'[n] = FileBudget
    PROVE  InSync'
<1>1. /\ turn[n] = <<"adjust", n>> /\ turn' = [turn EXCEPT ![n] = <<"sample", n>>]
      /\ UNCHANGED <<failed, policy_box, sample_box, root_policy, root_cap>>
  BY TreeFacts DEF Adjusting, Turn, boxVars, endpointVars
<1>2. Shapes /\ n \in Role \ {Root} /\ step[n] \in Int
  BY TreeFacts DEF InSync, Shapes
<1>3. Shapes'
  BY <1>1, <1>2 DEF Shapes
<1>4. /\ \A a \in Role : a # n => step'[a] = step[a] /\ complete'[a] = complete[a]
      /\ step'[n] = s /\ complete'[n] = done
  BY <1>2 DEF Shapes
<1>5. RootInSync'
  <2>1. turn[Host[Root]] = <<"descend", Root>> => turn'[Host[Root]] = turn[Host[Root]]
    BY <1>1, <1>2, TreeFacts DEF Shapes
  <2> QED
    BY <1>1, <1>2, <1>4, <2>1, TreeFacts DEF InSync, RootInSync
<1>6. ASSUME NEW a \in Role \ {Root} PROVE LinkInSync(a)'
  <2> DEFINE t == Parent[a]
  <2>1. LinkInSync(a) /\ t # n /\ t \in Role
    BY TreeFacts DEF InSync
  <2>2. step'[t] = step[t] /\ complete'[t] = complete[t]
    BY <1>4, <2>1
  <2>3. CASE a # n
    <3>1. step'[a] = step[a] /\ complete'[a] = complete[a]
      BY <1>4, <2>3
    <3> QED
      BY <1>1, <2>1, <2>2, <3>1 DEF LinkInSync, Unsent, Sent, Held, Honest
  <2>4. CASE a = n
    <3>1. Honest(a)'
      BY <1>1, <1>2, <1>4, <2>1, <2>4 DEF LinkInSync, Honest
    <3>2. CASE Unsent(a)
      <4>1. Unsent(a)'
        BY <1>1, <1>4, <2>2, <2>4, <3>2 DEF Unsent
      <4>2. Held(a)'
        BY <1>2, <1>4, <2>1, <2>2, <2>4, <3>2, TreeFacts
           DEF Unsent, Held, InSync, RootInSync
      <4> QED
        BY <3>1, <4>1, <4>2 DEF LinkInSync
    <3>3. CASE Sent(a)
      <4>1. Sent(a)'
        BY <1>1, <1>4, <2>2, <2>4, <3>3 DEF Sent
      <4>2. Held(a)'
        BY <1>4, <2>1, <2>2, <2>4, <3>3 DEF LinkInSync, Held
      <4> QED
        BY <3>1, <4>1, <4>2 DEF LinkInSync
    <3> QED
      BY <2>1, <3>2, <3>3 DEF LinkInSync
  <2> QED
    BY <2>3, <2>4
<1>7. ASSUME NEW m \in Node PROVE LeafInSync(m)'
  <2>1. LeafInSync(m) /\ m \in Role
    BY TreeFacts DEF InSync
  <2>2. CASE m = n
    BY <1>4, <2>2 DEF LeafInSync
  <2>3. CASE m # n
    <3>1. turn'[m] = turn[m] /\ step'[m] = step[m] /\ cap'[m] = cap[m]
      BY <1>1, <1>2, <1>4, <2>1, <2>3 DEF Shapes
    <3> QED
      BY <2>1, <3>1 DEF LeafInSync
  <2> QED
    BY <2>2, <2>3
<1> QED
  BY <1>3, <1>5, <1>6, <1>7 DEF InSync

\* The policy that a leaf adjusts to, and the steps it may be in.
LEMMA LeafReceives ==
    ASSUME ~Endpoint, InSync, NEW n \in Node
    PROVE  /\ Unsent(n) \/ Sent(n)
           /\ Unsent(n) => /\ Received(n).cap = FileBudget /\ Received(n).step = 0
                           /\ step[n] \in {-1, 0} /\ complete[n]
           /\ Sent(n) => /\ step[Parent[n]] \in Nat
                         /\ Received(n).step = step[Parent[n]]
                         /\ Received(n).cap = BudgetAt(step[Parent[n]])
                         /\ step[n] \in {step[Parent[n]], step[Parent[n]] - 1}
           /\ Unsent(n) => ~Sent(n)
<1>1. n \in Role \ {Root} /\ LinkInSync(n)
  BY TreeFacts DEF InSync
<1>2. Unsent(n) => Received(n).cap = FileBudget /\ Received(n).step = 0
  BY <1>1, UnsentReceives
<1> QED
  BY <1>1, <1>2, SentReceives DEF LinkInSync, Unsent, Sent

\* A policy with a budget is that of step 0, which is complete at once.
LEMMA AdjustResetInSync ==
    ASSUME ~Endpoint, InSync, NEW n \in Node, AdjustReset(n)
    PROVE  InSync'
<1>1. /\ Adjusting(n) /\ Received(n).cap # 0
      /\ step' = [step EXCEPT ![n] = 0] /\ complete' = [complete EXCEPT ![n] = TRUE]
      /\ cap' = [cap EXCEPT ![n] = Received(n).cap]
  BY DEF AdjustReset
<1>2. Received(n).cap = FileBudget /\ (Sent(n) => step[Parent[n]] = 0)
  BY <1>1, LeafReceives DEF BudgetAt
<1>3. Shapes /\ n \in Role \ {Root} /\ LinkInSync(n) /\ Parent[n] \in Role /\ Parent[n] # n
  BY TreeFacts DEF InSync
<1>4. step[n] \in {-1, 0}
  BY <1>2, <1>3, LeafReceives
<1>5. cap'[n] = FileBudget /\ cap' = [cap EXCEPT ![n] = cap'[n]]
  BY <1>1, <1>2, <1>3 DEF Shapes
<1>6. (Sent(n) => step[Parent[n]] = 0) /\ step[n] <= 0
  BY <1>2, <1>4
<1>7. PICK s \in Nat : s = 0 /\ step' = [step EXCEPT ![n] = s]
  BY <1>1
<1> QED
  BY <1>1, <1>2, <1>5, <1>6, <1>7, AdjustInSync

\* A policy without a budget begins the next step, or is the one at hand.
LEMMA AdjustAdvanceInSync ==
    ASSUME ~Endpoint, InSync, NEW n \in Node, AdjustAdvance(n)
    PROVE  InSync'
<1> DEFINE s == step[n] + 1
<1>1. /\ Adjusting(n) /\ Received(n).cap = 0 /\ Received(n).step = s
      /\ step' = [step EXCEPT ![n] = s]
      /\ complete' = [complete EXCEPT ![n] = SendDownLimit(s)]
      /\ cap' = cap \/ (SendDownLimit(s) /\ cap' = [cap EXCEPT ![n] = limit[n] + Received(n).slack])
  BY DEF AdjustAdvance
<1>2. Shapes /\ SendDownLimit(s) \in BOOLEAN /\ LeafInSync(n) /\ step[n] \in Int
  BY TreeFacts DEF InSync, Shapes, SendDownLimit
<1>3. Sent(n) /\ s = step[Parent[n]] /\ s \in Nat \ {0}
  BY <1>1, LeafReceives, PowerAssumption DEF BudgetAt
<1>4. ~Unsent(n)
  BY <1>3, LeafReceives
<1>5. cap' = [cap EXCEPT ![n] = cap'[n]]
  BY <1>1, <1>2 DEF Shapes
<1>6. ASSUME s \in 0 .. 2 PROVE cap'[n] = FileBudget
  <2>1. s \in {1, 2} /\ step[n] \in 0 .. 2
    BY <1>2, <1>3, <1>6
  <2>2. ~SendDownLimit(s)
    BY <2>1 DEF SendDownLimit
  <2> QED
    BY <1>1, <1>2, <2>1, <2>2 DEF LeafInSync
<1>7. step[n] <= s /\ step[n] # s
  BY <1>2
<1>8. PICK done \in BOOLEAN : complete' = [complete EXCEPT ![n] = done]
  BY <1>1, <1>2
<1> HIDE DEF s
<1> QED
  BY <1>1, <1>3, <1>4, <1>5, <1>6, <1>7, <1>8, AdjustInSync

(* adjust_platform() of a turn in which no new policy has come. *)
LEMMA AdjustAgainInSync ==
    ASSUME ~Endpoint, InSync, NEW n \in Node, AdjustAgain(n)
    PROVE  InSync'
<1> DEFINE s == step[n]
<1>1. /\ Adjusting(n) /\ Received(n).cap = 0 /\ Received(n).step = s
      /\ UNCHANGED <<step, complete, cap>>
  BY DEF AdjustAgain
<1>2. Shapes /\ LeafInSync(n) /\ n \in Role
  BY TreeFacts DEF InSync
<1>3. Sent(n) /\ s = step[Parent[n]] /\ s \in Nat /\ ~Unsent(n)
  BY <1>1, LeafReceives, PowerAssumption
<1>4. step' = [step EXCEPT ![n] = s] /\ cap' = [cap EXCEPT ![n] = cap'[n]]
  BY <1>1, <1>2 DEF Shapes
<1>5. s \in 0 .. 2 => cap'[n] = FileBudget
  BY <1>1, <1>2 DEF LeafInSync
<1>6. PICK done \in BOOLEAN : complete[n] = done /\ complete' = [complete EXCEPT ![n] = done]
  BY <1>1, <1>2 DEF Shapes
<1>7. step[n] <= s
  BY <1>3
<1> HIDE DEF s
<1> QED
  BY <1>1, <1>3, <1>4, <1>5, <1>6, <1>7, AdjustInSync

-----------------------------------------------------------------------------
(* Exceptions.                                                             *)

\* Nobody receives a policy that does not match.
LEMMA NotOutOfSync ==
    ASSUME ~Endpoint, InSync, NEW a \in Role
    PROVE  ~OutOfSync(a)
<1> SUFFICES ASSUME OutOfSync(a) PROVE FALSE
  OBVIOUS
<1>1. CASE a \in Node
  <2>1. Received(a).cap = 0 /\ Received(a).step \notin {step[a], step[a] + 1}
    BY <1>1 DEF OutOfSync
  <2>2. step[a] \in Int
    BY DEF InSync, Shapes
  <2> QED
    BY <1>1, <2>1, <2>2, LeafReceives, PowerAssumption
<1>2. CASE a \notin Node
  <2>1. a # Root /\ HasNewStep(a) /\ Received(a).step \notin {0, step[a] + 1}
    BY <1>2 DEF OutOfSync
  <2>2. policy_box[a] # NoPolicy /\ complete[a] /\ Received(a).step # step[a]
    BY <2>1 DEF HasNewStep, Arrived
  <2>3. Sent(a) /\ step[a] \in Int
    BY <2>1, <2>2 DEF InSync, LinkInSync, Unsent, Shapes
  <2>4. Received(a).step = step[Parent[a]]
    BY <2>1, <2>3, SentReceives
  <2> QED
    BY <2>1, <2>2, <2>3, <2>4 DEF Sent
<1> QED
  BY <1>1, <1>2

-----------------------------------------------------------------------------
(* A tree role descends.                                                   *)

\* What a turn of a tree role leaves alone.
LEMMA DescendingFrame ==
    ASSUME Shapes, NEW t \in Tree, Descending(t)
    PROVE  /\ turn[Host[t]] = <<"descend", t>>
           /\ turn' = [n \in Node |-> turn'[n]]
           /\ \A n \in Node : turn'[n] = <<"sample", n>> => turn[n] = <<"sample", n>>
           /\ UNCHANGED <<failed, sample_box, cap>>
<1>1. turn[Host[t]] = <<"descend", t>> /\ Host[t] \in Node
  BY TreeFacts DEF Descending, Turn
<1>2. turn' = [turn EXCEPT ![Host[t]] = DownTo(Below(t))] /\ UNCHANGED <<failed, sample_box, cap>>
  BY DEF Descending, leafVars
<1>3. \A n \in Node : DownTo(Below(t)) # <<"sample", n>>
  BY DEF DownTo
<1> HIDE DEF DownTo
<1>4. turn' = [n \in Node |-> turn'[n]]
  BY <1>2 DEF Shapes
<1>5. \A n \in Node : turn'[n] = <<"sample", n>> => turn[n] = <<"sample", n>>
  BY <1>1, <1>2, <1>3 DEF Shapes
<1> QED
  BY <1>1, <1>2, <1>4, <1>5

\* A role that sends down a step for which all the roles below are ready.
LEMMA SendDownInSync ==
    ASSUME InSync, NEW t \in Tree, NEW p, NEW s \in Nat, Descending(t), SendDown(t, p),
           PolicyOf(s, p),
           step' = [step EXCEPT ![t] = s],
           complete' = [complete EXCEPT ![t] = FALSE],
           \A a \in Role \ {Root} : Parent[a] = t =>
               step[a] = s \/ (step[a] = s - 1 /\ complete[a]),
           t # Root => Sent(t) /\ step[t] = s - 1 /\ step[Parent[t]] = s,
           t = Root => root_cap' # NaN,
           t # Root => UNCHANGED root_cap,
           RootInSync'
    PROVE  InSync'
<1>1. Shapes /\ t \in Role /\ t \notin Node
  BY TreeFacts, TreeAssumption DEF InSync
<1>2. /\ step' \in [Role -> Int] /\ complete' \in [Role -> BOOLEAN]
      /\ step'[t] = s /\ ~complete'[t]
      /\ \A a \in Role : a # t => step'[a] = step[a] /\ complete'[a] = complete[a]
  BY <1>1 DEF Shapes
<1>3. \A a \in Role \ {Root} : policy_box'[a] = IF Parent[a] = t THEN p ELSE policy_box[a]
  BY DEF SendDown
<1>4. Shapes'
  BY <1>1, <1>2, DescendingFrame DEF Shapes, SendDown
<1>5. ASSUME NEW a \in Role \ {Root} PROVE LinkInSync(a)'
  <2> DEFINE u == Parent[a]
  <2>1. LinkInSync(a) /\ u \in Tree /\ u \in Role
    BY TreeFacts DEF InSync
  <2>2. sample_box'[a] = sample_box[a]
    BY <1>1, DescendingFrame
  <2>3. CASE a = t
    <3>. DEFINE v == u
    <3>0. step[t] = s - 1 /\ step[v] = s
      BY <2>3
    <3>. HIDE DEF v
    <3>1. v # t
      BY <3>0
    <3>2. v \in Role
      BY <2>1 DEF v
    <3>3. step'[v] = s /\ complete'[v] = complete[v]
      BY <1>2, <3>0, <3>1, <3>2
    <3>4. step'[u] = s /\ complete'[u] = complete[u]
      BY <3>3 DEF v
    <3>5. ~complete[u]
      BY <2>1, <2>3, <3>0 DEF LinkInSync, Held, v
    <3>6. Sent(a)'
      BY <1>2, <1>3, <2>3, <3>4 DEF Sent
    <3>7. Honest(a)'
      BY <1>2, <2>1, <2>2, <2>3 DEF LinkInSync, Honest
    <3> QED
      BY <3>4, <3>5, <3>6, <3>7 DEF LinkInSync, Held
  <2>4. CASE a # t /\ u = t
    <3>1. Sent(a)'
      BY <1>2, <1>3, <2>4 DEF Sent
    <3>2. Honest(a)'
      BY <1>2, <2>1, <2>2, <2>4 DEF LinkInSync, Honest
    <3> QED
      BY <1>2, <2>4, <3>1, <3>2 DEF LinkInSync, Held
  <2>5. CASE a # t /\ u # t
    <3>1. /\ policy_box'[a] = policy_box[a]
          /\ step'[a] = step[a] /\ complete'[a] = complete[a]
          /\ step'[u] = step[u] /\ complete'[u] = complete[u]
          /\ u = Root => root_cap' = root_cap
      BY <1>2, <1>3, <2>1, <2>5
    <3> QED
      BY <2>1, <2>2, <3>1 DEF LinkInSync, Unsent, Sent, Held, Honest
  <2> QED
    BY <2>3, <2>4, <2>5
<1>6. ASSUME NEW n \in Node PROVE LeafInSync(n)'
  <2>1. step'[n] = step[n] /\ cap'[n] = cap[n]
    BY <1>1, <1>2, TreeFacts, DescendingFrame
  <2> QED
    BY <1>1, <2>1, DescendingFrame DEF InSync, LeafInSync
<1> QED
  BY <1>4, <1>5, <1>6 DEF InSync

\* A turn that sends nothing.
LEMMA DescendNothingInSync ==
    ASSUME InSync, NEW t \in Tree, Descending(t), UNCHANGED <<policy_box, roleVars>>,
           t = Root => root_cap # NaN
    PROVE  InSync'
<1>1. Shapes /\ UNCHANGED <<policy_box, step, complete, root_policy, root_cap>>
  BY DEF InSync, roleVars
<1>2. Shapes'
  BY <1>1, DescendingFrame DEF Shapes
<1>3. RootInSync'
  <2>1. root_cap = NaN => t # Root
    OBVIOUS
  <2>2. ASSUME root_cap = NaN PROVE turn'[Host[Root]] = turn[Host[Root]]
    <3>1. turn[Host[Root]] = <<"descend", Root>> /\ turn[Host[t]] = <<"descend", t>>
      BY <1>1, <2>2, DescendingFrame DEF InSync, RootInSync
    <3>2. Host[t] # Host[Root]
      BY <2>1, <2>2, <3>1
    <3> QED
      BY <1>1, <3>2, TreeFacts, TreeAssumption DEF Descending, Shapes
  <2> QED
    BY <1>1, <2>2 DEF InSync, RootInSync
<1>4. ASSUME NEW a \in Role \ {Root} PROVE LinkInSync(a)'
  BY <1>1, DescendingFrame DEF InSync, LinkInSync, Unsent, Sent, Held, Honest
<1>5. ASSUME NEW n \in Node PROVE LeafInSync(n)'
  BY <1>1, DescendingFrame DEF InSync, LeafInSync
<1> QED
  BY <1>2, <1>3, <1>4, <1>5 DEF InSync

\* A tree role passes on the step that follows the one it has completed.
LEMMA TreeDescendInSync ==
    ASSUME InSync, NEW t \in Tree, TreeDescend(t)
    PROVE  InSync'
<1> DEFINE p == Received(t)
           s == p.step
<1>1. /\ t # Root /\ Descending(t) /\ SendDown(t, p)
      /\ policy_box[t] # NoPolicy /\ complete[t] /\ s # step[t]
      /\ step' = [step EXCEPT ![t] = s] /\ complete' = [complete EXCEPT ![t] = FALSE]
      /\ UNCHANGED <<root_policy, root_cap>>
  BY DEF TreeDescend, HasNewStep, Arrived
<1>2. Shapes /\ t \in Role \ {Root} /\ LinkInSync(t)
  BY <1>1, TreeFacts DEF InSync
<1>3. Sent(t)
  BY <1>1, <1>2 DEF LinkInSync, Unsent
<1>4. s = step[Parent[t]] /\ PolicyOf(s, p)
  BY <1>2, <1>3, SentReceives DEF PolicyOf
<1>5. s \in Nat /\ step[t] = s - 1
  BY <1>1, <1>3, <1>4 DEF Sent
<1>6. ASSUME NEW a \in Role \ {Root}, Parent[a] = t
      PROVE  step[a] = s \/ (step[a] = s - 1 /\ complete[a])
  <2>1. LinkInSync(a)
    BY DEF InSync
  <2>2. CASE step[t] \in Nat
    BY <1>1, <1>5, <1>6, <2>1, <2>2 DEF LinkInSync, Held
  <2>3. CASE step[t] \notin Nat
    <3>1. Unsent(a)
      BY <1>6, <2>1, <2>3 DEF LinkInSync, Sent
    <3>2. s = 0
      BY <1>5, <2>3
    <3> QED
      BY <3>1, <3>2 DEF Unsent
  <2> QED
    BY <2>2, <2>3
<1>7. RootInSync'
  <2>1. step'[Root] = step[Root] /\ complete'[Root] = complete[Root]
    BY <1>1, <1>2, TreeFacts DEF Shapes
  <2>2. ASSUME root_cap = NaN PROVE turn'[Host[Root]] = turn[Host[Root]]
    <3>1. turn[Host[Root]] = <<"descend", Root>> /\ turn[Host[t]] = <<"descend", t>>
      BY <1>1, <1>2, <2>2, DescendingFrame DEF InSync, RootInSync
    <3>2. Host[t] # Host[Root]
      BY <1>1, <3>1
    <3> QED
      BY <1>1, <1>2, <3>2, TreeFacts, TreeAssumption DEF Descending, Shapes
  <2> QED
    BY <1>1, <2>1, <2>2 DEF InSync, RootInSync
<1> HIDE DEF p, s
<1> QED
  BY <1>1, <1>3, <1>4, <1>5, <1>6, <1>7, SendDownInSync

\* The root begins the first step when it reads the file for the first time.
LEMMA RootRestartsInSync ==
    ASSUME ~Endpoint, InSync, RootRestarts
    PROVE  InSync'
<1> DEFINE first == [cap |-> FileBudget, step |-> 0, slack |-> 0]
<1>1. /\ Descending(Root) /\ FileBudget # root_cap /\ root_cap' = FileBudget
      /\ root_policy' = first /\ SendDown(Root, first)
      /\ step' = [step EXCEPT ![Root] = 0] /\ UNCHANGED complete
  BY RootReceives DEF RootRestarts
<1>2. Shapes /\ Root \in Tree /\ Root \in Role /\ FileBudget # NaN
  BY TreeAssumption, PowerAssumption, TreeFacts DEF InSync, NaN
<1>3. root_cap = NaN /\ step[Root] = 0 /\ ~complete[Root]
  BY <1>1 DEF InSync, RootInSync
<1>4. complete' = [complete EXCEPT ![Root] = FALSE]
  BY <1>1, <1>2, <1>3 DEF Shapes
<1>5. PolicyOf(0, first)
  BY DEF PolicyOf, BudgetAt
<1>6. ASSUME NEW a \in Role \ {Root}, Parent[a] = Root
      PROVE  step[a] = 0 \/ (step[a] = 0 - 1 /\ complete[a])
  BY <1>3, <1>6 DEF InSync, LinkInSync, Unsent, Sent
<1>7. RootInSync'
  BY <1>1, <1>2, <1>3, <1>5, BoundsAssumption DEF RootInSync, Shapes
<1> HIDE DEF first
<1>8. PICK s \in Nat : s = 0
  OBVIOUS
<1> QED
  BY <1>1, <1>2, <1>4, <1>5, <1>6, <1>7, <1>8, SendDownInSync

\* The root begins the next step when all have completed the one at hand.
LEMMA RootAdvancesInSync ==
    ASSUME ~Endpoint, InSync, RootAdvances
    PROVE  InSync'
<1> DEFINE s == step[Root] + 1
<1>1. /\ Descending(Root) /\ root_cap = FileBudget
      /\ root_policy.step = s /\ step[Root] < MaxStep
      /\ step' = [step EXCEPT ![Root] = s]
      /\ complete' = [complete EXCEPT ![Root] = FALSE]
      /\ SendDown(Root, root_policy) /\ UNCHANGED <<root_policy, root_cap>>
  BY RootReceives DEF RootAdvances, MayAdvance
<1>2. Shapes /\ Root \in Tree /\ Root \in Role /\ FileBudget # NaN
  BY TreeAssumption, PowerAssumption, TreeFacts DEF InSync, NaN
<1>3. /\ complete[Root] /\ step[Root] \in Nat /\ s \in Nat /\ s <= MaxStep
      /\ PolicyOf(s, root_policy)
  BY <1>1, <1>2, BoundsAssumption DEF InSync, RootInSync
<1>4. ASSUME NEW a \in Role \ {Root}, Parent[a] = Root
      PROVE  step[a] = s \/ (step[a] = s - 1 /\ complete[a])
  <2>1. step[a] = step[Root] /\ complete[a]
    BY <1>3, <1>4 DEF InSync, LinkInSync, Held
  <2> QED
    BY <1>3, <2>1
<1>5. RootInSync'
  BY <1>1, <1>2, <1>3 DEF RootInSync, Shapes
<1> HIDE DEF s
<1> QED
  BY <1>1, <1>2, <1>3, <1>4, <1>5, SendDownInSync

\* Nobody sends: a tree role has nothing new,
LEMMA TreeWaitsInSync ==
    ASSUME InSync, NEW t \in Tree, TreeWaits(t)
    PROVE  InSync'
  BY DescendNothingInSync DEF TreeWaits

\* and the root waits until its step is complete.
LEMMA RootWaitsInSync ==
    ASSUME ~Endpoint, InSync, RootWaits
    PROVE  InSync'
<1>1. root_cap = FileBudget
  BY RootReceives DEF RootWaits, Arrived
<1>2. root_cap # NaN /\ Root \in Tree
  BY <1>1, PowerAssumption, TreeAssumption DEF NaN
<1> QED
  BY <1>2, DescendNothingInSync DEF RootWaits

-----------------------------------------------------------------------------
(* Samples go up.                                                          *)

\* What a turn of a role on the way up leaves alone.
LEMMA AscendingFrame ==
    ASSUME InSync, NEW t \in Tree, Ascending(t)
    PROVE  /\ turn[Host[t]] = <<"ascend", t>>
           /\ turn' = [n \in Node |-> turn'[n]]
           /\ \A n \in Node : turn'[n] = <<"sample", n>> => turn[n] = <<"sample", n>>
           /\ root_cap = NaN => turn'[Host[Root]] = turn[Host[Root]]
           /\ UNCHANGED <<failed, policy_box, step, root_cap, cap>>
<1>1. /\ turn[Host[t]] = <<"ascend", t>>
      /\ turn' = [turn EXCEPT ![Host[t]] = UpFrom(t)]
      /\ UNCHANGED <<failed, policy_box, step, root_cap, cap>>
  BY TreeFacts DEF Ascending, Turn, leafVars
<1>2. turn = [n \in Node |-> turn[n]] /\ Host[t] \in Node
  BY TreeFacts DEF InSync, Shapes
<1>3. \A n \in Node : UpFrom(t) # <<"sample", n>>
  BY DEF UpFrom, Start, DownTo
<1>4. root_cap = NaN => turn[Host[Root]] = <<"descend", Root>>
  BY DEF InSync, RootInSync
<1>5. root_cap = NaN => Host[t] # Host[Root]
  BY <1>1, <1>4
<1> QED
  BY <1>1, <1>2, <1>3, <1>5, TreeFacts, TreeAssumption

\* A step is done when all the roles below have completed it: a role that has
\* been sent nothing has a role above that waits for nothing.
LEMMA DoneByAll ==
    ASSUME InSync, NEW t \in Tree, Ascending(t), StepDone(t)
    PROVE  /\ step[t] \in Nat /\ ~complete[t]
           /\ \A a \in Children(t) : /\ step[a] = step[t] /\ complete[a]
                                   /\ sample_box[a] # NoSample
                                   /\ sample_box[a].step = step[t]
           /\ t = Root => root_cap # NaN
           /\ t # Root => Sent(t)
<1>1. Reported(t) /\ ~complete[t] /\ Least(t, "step") = step[t]
  BY DEF StepDone
<1>2. t = Root => root_cap # NaN
  BY AscendingFrame DEF InSync, RootInSync
<1>3. t # Root => Sent(t)
  BY <1>1, TreeFacts DEF InSync, LinkInSync, Unsent
<1>4. step[t] \in Nat
  BY <1>1, <1>3, TreeFacts DEF InSync, RootInSync, Sent, Shapes
<1>5. ASSUME NEW a \in Children(t)
      PROVE  /\ step[a] = step[t] /\ complete[a]
             /\ sample_box[a] # NoSample /\ sample_box[a].step = step[t]
  <2>1. a \in Role \ {Root} /\ Parent[a] = t /\ LinkInSync(a)
    BY DEF Children, InSync
  <2>2. Sent(a)
    BY <1>1, <1>2, <2>1 DEF LinkInSync, Unsent
  <2> DEFINE S == {sample_box[b]["step"] : b \in Children(t)}
  <2>3. \A b \in Children(t) : sample_box[b].step \in Nat
    BY <1>1 DEF Children, InSync, LinkInSync, Honest, Reported
  <2>4. S \in SUBSET Nat /\ S # {} /\ sample_box[a].step \in S
    BY <2>3
  <2>5. PICK m \in S : \A k \in S : m <= k
    BY <2>4, LeastOf
  <2>6. Min(S) \in S /\ \A k \in S : Min(S) <= k
    BY <2>5 DEF Min
  <2>7. Min(S) = step[t]
    BY <1>1 DEF Least
  <2>8. step[t] <= sample_box[a].step
    BY <2>4, <2>6, <2>7
  <2>9. sample_box[a] # NoSample
    BY <1>1 DEF Reported
  <2>10. step[a] \in Int
    BY <2>1 DEF InSync, Shapes
  <2>11. /\ sample_box[a].step \in Nat /\ sample_box[a].step <= step[a]
         /\ sample_box[a].step = step[a] => complete[a]
    BY <2>1, <2>9 DEF LinkInSync, Honest
  <2> QED
    BY <1>4, <2>1, <2>2, <2>8, <2>9, <2>10, <2>11 DEF Sent
<1> QED
  BY <1>1, <1>2, <1>3, <1>4, <1>5

\* A sample is passed on only by a role whose step has just been completed; what
\* has been received is thrown away in any case.
LEMMA AscendInSync ==
    ASSUME InSync, NEW t \in Tree, Ascending(t), NEW done \in BOOLEAN,
           complete' = [complete EXCEPT ![t] = done], complete[t] => done,
           sample_box' = [a \in Role \ {Root} |-> sample_box'[a]],
           \A a \in Role \ {Root} :
              \/ sample_box'[a] \in {sample_box[a], NoSample}
              \/ /\ a = t /\ done /\ ~complete[t]
                 /\ \E s, h : sample_box'[a] = [step |-> step[t], slack |-> s, headroom |-> h],
           done /\ ~complete[t] => StepDone(t),
           RootInSync'
    PROVE  InSync'
<1>1. Shapes /\ t \in Role /\ t \notin Node
  BY TreeFacts, TreeAssumption DEF InSync
<1>2. UNCHANGED <<failed, policy_box, step, root_cap, cap>>
  BY AscendingFrame
<1>3. /\ complete'[t] = done /\ complete' \in [Role -> BOOLEAN]
      /\ \A a \in Role : a # t => complete'[a] = complete[a]
  BY <1>1 DEF Shapes
<1>4. Shapes'
  BY <1>1, <1>2, <1>3, AscendingFrame DEF Shapes
<1>5. ASSUME NEW a \in Role \ {Root} PROVE LinkInSync(a)'
  <2> DEFINE u == Parent[a]
  <2>1. LinkInSync(a) /\ u \in Role
    BY TreeFacts DEF InSync
  <2>2. complete[a] => complete'[a]
    BY <1>3
  <2>3. complete[u] => complete'[u]
    BY <1>3, <2>1
  <2>4. Honest(a)'
    <3>1. CASE sample_box'[a] \in {sample_box[a], NoSample}
      BY <1>2, <2>1, <2>2, <3>1 DEF LinkInSync, Honest
    <3>2. ASSUME a = t, done, ~complete[t],
                 NEW s, NEW h, sample_box'[a] = [step |-> step[t], slack |-> s, headroom |-> h]
          PROVE  Honest(a)'
      <4>1. step[a] \in Nat
        BY <3>2, DoneByAll
      <4> QED
        BY <1>2, <1>3, <3>2, <4>1 DEF Honest
    <3> QED
      BY <3>1, <3>2
  <2>5. Unsent(a) => Unsent(a)'
    BY <1>2, <2>2, <2>3 DEF Unsent
  <2>6. Sent(a) => Sent(a)'
    BY <1>2, <2>2 DEF Sent
  <2>7. Held(a)'
    <3>1. CASE complete'[u] = complete[u]
      BY <1>2, <2>1, <2>2, <3>1 DEF LinkInSync, Held
    <3>2. CASE complete'[u] # complete[u]
      <4>1. u = t /\ done /\ ~complete[t]
        BY <1>1, <1>3, <2>1, <2>3, <3>2 DEF Shapes
      <4>2. step[a] = step[t] /\ complete[a]
        BY <4>1, DoneByAll DEF Children
      <4> QED
        BY <1>2, <2>2, <4>1, <4>2 DEF Held
    <3> QED
      BY <3>1, <3>2
  <2> QED
    BY <2>1, <2>4, <2>5, <2>6, <2>7 DEF LinkInSync
<1>6. ASSUME NEW n \in Node PROVE LeafInSync(n)'
  BY <1>2, AscendingFrame DEF InSync, LeafInSync
<1> QED
  BY <1>4, <1>5, <1>6 DEF InSync

\* Some role below has not completed the step: samples are dropped at most.
LEMMA AscendNothingInSync ==
    ASSUME InSync, NEW t \in Tree, AscendNothing(t)
    PROVE  InSync'
<1>1. /\ Ascending(t) /\ UNCHANGED <<complete, root_policy>>
      /\ sample_box' = sample_box \/ sample_box' = Consumed(t)
  BY DEF AscendNothing
<1>2. Shapes /\ t \in Role
  BY TreeFacts DEF InSync
<1>3. PICK done \in BOOLEAN : done = complete[t]
  BY <1>2 DEF Shapes
<1>4. complete' = [complete EXCEPT ![t] = done]
  BY <1>1, <1>2, <1>3 DEF Shapes
<1>5. /\ sample_box' = [a \in Role \ {Root} |-> sample_box'[a]]
      /\ \A a \in Role \ {Root} : sample_box'[a] \in {sample_box[a], NoSample}
  BY <1>1, <1>2 DEF Shapes, Consumed
<1>6. RootInSync'
  BY <1>1, AscendingFrame DEF InSync, RootInSync, PolicyOf
<1> QED
  BY <1>1, <1>3, <1>4, <1>5, <1>6, AscendInSync

\* All the roles below have: their sample goes further up.
LEMMA TreeAscendInSync ==
    ASSUME InSync, NEW t \in Tree, TreeAscend(t)
    PROVE  InSync'
<1> DEFINE total == Aggregate(t)
<1>1. /\ t # Root /\ Ascending(t) /\ StepDone(t)
      /\ complete' = [complete EXCEPT ![t] = TRUE]
      /\ sample_box' = [Consumed(t) EXCEPT ![t] = total]
      /\ UNCHANGED root_policy
  BY DEF TreeAscend, StepIsDone
<1>2. Shapes /\ t \in Role \ {Root}
  BY <1>1, TreeFacts DEF InSync
<1>3. ~complete[t] /\ Least(t, "step") = step[t]
  BY <1>1 DEF StepDone
<1>4. \E s, h : total = [step |-> step[t], slack |-> s, headroom |-> h]
  BY <1>3 DEF Aggregate
<1>5. sample_box' = [a \in Role \ {Root} |-> sample_box'[a]]
  BY <1>1, <1>2 DEF Consumed
<1>6. /\ sample_box'[t] = total
      /\ \A a \in Role \ {Root} : a # t => sample_box'[a] \in {sample_box[a], NoSample}
  BY <1>1, <1>2 DEF Consumed
<1>7. RootInSync'
  <2>1. complete'[Root] = complete[Root]
    BY <1>1, <1>2, TreeFacts DEF Shapes
  <2> QED
    BY <1>1, <2>1, AscendingFrame DEF InSync, RootInSync, PolicyOf
<1> HIDE DEF total
<1>8. \A a \in Role \ {Root} :
         \/ sample_box'[a] \in {sample_box[a], NoSample}
         \/ /\ a = t /\ TRUE /\ ~complete[t]
            /\ \E s, h : sample_box'[a] = [step |-> step[t], slack |-> s, headroom |-> h]
  BY <1>3, <1>4, <1>6
<1> QED
  BY <1>1, <1>3, <1>5, <1>7, <1>8, AscendInSync

\* At the root it ends the step: the policy of the next one has no budget.
LEMMA RootAscendInSync ==
    ASSUME InSync, RootAscend
    PROVE  InSync'
<1>1. /\ Ascending(Root) /\ StepDone(Root) /\ root_policy.step = step[Root]
      /\ complete' = [complete EXCEPT ![Root] = TRUE]
      /\ sample_box' = Consumed(Root)
  BY DEF RootAscend, StepIsDone
<1>2. PICK s : root_policy' = [cap   |-> IF SendDownLimit(step[Root]) THEN 0 ELSE root_policy.cap,
                               step  |-> step[Root] + 1,
                               slack |-> s]
  BY DEF RootAscend
<1>3. Shapes /\ Root \in Tree /\ Root \in Role
  BY TreeAssumption, TreeFacts DEF InSync
<1>4. root_cap = FileBudget /\ ~complete[Root] /\ step[Root] \in Nat
      /\ PolicyOf(step[Root], root_policy)
  BY <1>1, <1>3, DoneByAll DEF InSync, RootInSync
<1>5. complete'[Root] /\ UNCHANGED <<step, root_cap>> /\ step[Root] <= MaxStep
  BY <1>1, <1>3, AscendingFrame DEF Shapes, InSync, RootInSync
<1>6. root_policy'.cap = 0
  BY <1>2, <1>4 DEF PolicyOf, BudgetAt, SendDownLimit
<1>7. root_policy' = [cap |-> 0, step |-> step[Root] + 1, slack |-> root_policy'.slack]
  BY <1>2, <1>6
<1>8. RootInSync'
  BY <1>3, <1>4, <1>5, <1>7, PowerAssumption DEF RootInSync, PolicyOf, BudgetAt, NaN
<1>9. /\ sample_box' = [a \in Role \ {Root} |-> sample_box'[a]]
      /\ \A a \in Role \ {Root} : sample_box'[a] \in {sample_box[a], NoSample}
  BY <1>1 DEF Consumed
<1> QED
  BY <1>1, <1>3, <1>8, <1>9, AscendInSync

\* The root never receives a sample of another step than that of its policy.
LEMMA RootNotOutOfSync ==
    ASSUME InSync
    PROVE  ~RootOutOfSync
  BY DEF InSync, RootInSync, RootOutOfSync, StepDone

-----------------------------------------------------------------------------
(* Every step.                                                             *)

\* A leaf that samples: its step stays complete, or it is completed now.
LEMMA LeafCases ==
    ASSUME NEW n \in Node, LeafStep(n)
    PROVE  \/ AdjustReset(n) \/ AdjustAdvance(n) \/ AdjustAgain(n) \/ OutOfSync(n)
           \/ /\ UNCHANGED cap
              /\ \E done, s, h : /\ Sampling(n, done, s, h)
                                 /\ done = complete[n] \/ done = TRUE \/ (done = FALSE /\ ~complete[n])
<1> SUFFICES ASSUME SampleNothing(n) \/ StepCompletes(n) \/ SampleUnstable(n) \/ SampleFaster(n)
             PROVE  \E done, s, h : /\ Sampling(n, done, s, h)
                                    /\ done = complete[n] \/ done = TRUE \/ (done = FALSE /\ ~complete[n])
  BY DEF LeafStep, Sampling
<1>1. CASE SampleNothing(n)
  BY <1>1 DEF SampleNothing
<1>2. CASE SampleMeasured(n)
  BY <1>2 DEF SampleMeasured
<1>3. CASE SampleAtTarget(n)
  BY <1>3 DEF SampleAtTarget, Reducing
<1>4. CASE SampleSlower(n)
  BY <1>4 DEF SampleSlower, Reducing
<1>5. CASE SampleUnstable(n)
  BY <1>5 DEF SampleUnstable, Reducing
<1>6. CASE SampleFaster(n)
  BY <1>6 DEF SampleFaster, Reducing
<1> QED
  BY <1>1, <1>2, <1>3, <1>4, <1>5, <1>6 DEF StepCompletes

\* The invariant is kept by what a leaf does in a turn.
LEMMA LeafStepInSync ==
    ASSUME ~Endpoint, InSync, NEW n \in Node, LeafStep(n)
    PROVE  InSync'
<1>1. n \in Role /\ complete[n] \in BOOLEAN
  BY TreeFacts DEF InSync, Shapes
<1>2. CASE AdjustReset(n)
  BY <1>2, AdjustResetInSync
<1>3. CASE AdjustAdvance(n)
  BY <1>3, AdjustAdvanceInSync
<1>4. CASE AdjustAgain(n)
  BY <1>4, AdjustAgainInSync
<1>5. CASE OutOfSync(n)
  BY <1>1, <1>5, NotOutOfSync
<1>6. CASE /\ UNCHANGED cap
           /\ \E done, s, h : /\ Sampling(n, done, s, h)
                              /\ done = complete[n] \/ done = TRUE \/ (done = FALSE /\ ~complete[n])
  <2>1. PICK done, s, h : /\ Sampling(n, done, s, h)
                          /\ done = complete[n] \/ done = TRUE \/ (done = FALSE /\ ~complete[n])
    BY <1>6
  <2>2. done \in BOOLEAN /\ (complete[n] => done)
    BY <1>1, <2>1
  <2> QED
    BY <1>6, <2>1, <2>2, SamplingInSync
<1> QED
  BY <1>2, <1>3, <1>4, <1>5, <1>6, LeafCases

\* By what a tree role does,
LEMMA TreeStepInSync ==
    ASSUME ~Endpoint, InSync, NEW t \in Tree, TreeStep(t)
    PROVE  InSync'
<1>1. ~OutOfSync(t)
  BY TreeFacts, NotOutOfSync
<1> QED
  BY <1>1, TreeDescendInSync, TreeWaitsInSync, AscendNothingInSync, TreeAscendInSync
     DEF TreeStep

\* and by what the root does.
LEMMA RootStepInSync ==
    ASSUME ~Endpoint, InSync, RootStep
    PROVE  InSync'
  BY RootRestartsInSync, RootAdvancesInSync, RootWaitsInSync, RootAscendInSync,
     RootNotOutOfSync
     DEF RootStep

\* Nothing else changes a variable of the invariant.
LEMMA StutterInSync ==
    ASSUME InSync, UNCHANGED vars
    PROVE  InSync'
<1>1. UNCHANGED <<turn, failed, policy_box, sample_box, step, complete, root_policy, root_cap, cap>>
  BY DEF vars, loopVars, boxVars, roleVars, leafVars
<1>2. Shapes' /\ RootInSync'
  BY <1>1 DEF InSync, Shapes, RootInSync, PolicyOf
<1>3. ASSUME NEW a \in Role \ {Root} PROVE LinkInSync(a)'
  BY <1>1 DEF InSync, LinkInSync, Unsent, Sent, Held, Honest, PolicyOf
<1>4. ASSUME NEW n \in Node PROVE LeafInSync(n)'
  BY <1>1 DEF InSync, LeafInSync
<1> QED
  BY <1>2, <1>3, <1>4 DEF InSync

\* So it is inductive.
LEMMA NextInSync ==
    ASSUME ~Endpoint, InSync, [Next]_vars
    PROVE  InSync'
<1>1. ASSUME NEW n \in Node, LoopOf(n) PROVE InSync'
  BY <1>1, LeafStepInSync, TreeStepInSync, RootStepInSync DEF LoopOf
<1>2. ASSUME NEW p \in RmPolicy, WritePolicy(p) PROVE InSync'
  BY <1>2 DEF WritePolicy
<1> QED
  BY <1>1, <1>2, StutterInSync DEF Next

\* With a policy file, every role and the one above it stay in sync.
THEOREM RolesInSync == ~Endpoint => (Spec => []InSync)
<1> SUFFICES ASSUME ~Endpoint PROVE Spec => []InSync
  OBVIOUS
<1>1. InSync /\ [Next]_vars => InSync'
  BY NextInSync
<1> QED
  BY <1>1, InitInSync, PTL DEF Spec

-----------------------------------------------------------------------------
(* From links to the whole tree.                                           *)

\* A role is in the step of the root, or has completed the one before.
InStep(a) == step[a] = step[Root] \/ (step[a] = step[Root] - 1 /\ complete[a])

\* If the role above is, so is the role itself.
LEMMA InStepBelow ==
    ASSUME InSync, NEW a \in Role \ {Root}, InStep(Parent[a])
    PROVE  InStep(a)
<1> DEFINE p == Parent[a]
           r == step[Root]
<1>1. LinkInSync(a) /\ r \in Nat /\ p \in Role /\ step[a] \in Int /\ step[p] \in Int
  BY TreeFacts, BoundsAssumption DEF InSync, RootInSync, Shapes
<1>2. CASE Unsent(a)
  <2>1. r = 0
    BY <1>1, <1>2 DEF Unsent, InStep, InSync, RootInSync
  <2> QED
    BY <1>2, <2>1 DEF Unsent, InStep
<1>3. CASE Sent(a)
  <2>1. CASE step[p] = r
    BY <1>3, <2>1 DEF Sent, InStep
  <2>2. CASE step[p] = r - 1 /\ complete[p]
    BY <1>1, <1>3, <2>2 DEF Sent, InStep, LinkInSync, Held
  <2> QED
    BY <2>1, <2>2 DEF InStep
<1> QED
  BY <1>1, <1>2, <1>3 DEF LinkInSync

\* What holds of the root, and of a role if of the role above, holds of all:
\* there would be a highest role of which it does not.
LEMMA TreeInduction ==
    ASSUME NEW S, Root \in S, \A a \in Role \ {Root} : Parent[a] \in S => a \in S
    PROVE  \A a \in Role : a \in S
<1> SUFFICES ASSUME \E a \in Role : a \notin S PROVE FALSE
  OBVIOUS
<1>1. PICK depth \in [Role -> 0 .. Cardinality(Tree)] :
         \A a \in Role \ {Root} : depth[a] = depth[Parent[a]] + 1
  BY LevelAssumption
<1> DEFINE D == {depth[a] : a \in {b \in Role : b \notin S}}
<1>2. \A a \in Role : depth[a] \in Nat
  <2>1. \A a \in Role : depth[a] \in 0 .. Cardinality(Tree)
    BY <1>1
  <2> QED
    BY <2>1
<1>3. D \in SUBSET Nat /\ D # {}
  BY <1>2
<1>4. PICK m \in D : \A k \in D : m <= k
  BY <1>3, LeastOf
<1>5. PICK a \in Role : a \notin S /\ m = depth[a]
  BY <1>4
<1>6. a # Root /\ Parent[a] \in Role /\ Parent[a] \notin S
  BY <1>5, TreeFacts
<1>7. m <= depth[Parent[a]]
  BY <1>4, <1>6
<1>8. depth[a] = depth[Parent[a]] + 1
  BY <1>1, <1>6
<1> QED
  BY <1>2, <1>5, <1>6, <1>7, <1>8

\* So all roles are in step with the root.
LEMMA AllInStep ==
    ASSUME InSync
    PROVE  \A a \in Role : InStep(a)
<1> DEFINE S == {a \in Role : InStep(a)}
<1>1. Root \in S
  BY TreeFacts DEF InStep
<1>2. \A a \in Role \ {Root} : Parent[a] \in S => a \in S
  BY InStepBelow
<1> HIDE DEF S
<1>3. \A a \in Role : a \in S
  BY <1>1, <1>2, TreeInduction
<1> QED
  BY <1>3 DEF S

\* No controller ends with an exception about a step that does not match, in
\* adjust_platform(), descend() or ascend().
THEOREM NobodyThrows == ~Endpoint => (Spec => []NoneOutOfSync)
<1>1. InSync => NoneOutOfSync
  BY DEF InSync, Shapes, NoneOutOfSync
<1> QED
  BY <1>1, RolesInSync, PTL

\* descend() of a role runs at most one step ahead of the role below.
THEOREM RolesInLockStep == ~Endpoint => (Spec => []LockStep)
<1>1. ASSUME InSync, NEW a \in Role \ {Root}
      PROVE  StepOf(a) \in {StepOf(Parent[a]) - 1, StepOf(Parent[a])}
  <2>1. LinkInSync(a) /\ step[a] \in Int /\ step[Parent[a]] \in Int
    BY <1>1, TreeFacts DEF InSync, Shapes
  <2>2. Unsent(a) => step[a] \in {-1, 0} /\ step[Parent[a]] \in {-1, 0}
    BY <1>1 DEF Unsent, InSync, RootInSync
  <2>3. Sent(a) => step[Parent[a]] \in Nat /\ step[a] \in {step[Parent[a]], step[Parent[a]] - 1}
    BY <1>1 DEF Sent
  <2> QED
    BY <2>1, <2>2, <2>3 DEF LinkInSync, StepOf, MaxOf
<1>2. InSync => LockStep
  BY <1>1 DEF LockStep
<1> QED
  BY <1>2, RolesInSync, PTL

\* When the root is in the first measurement or the first reduction, all the
\* leaves, however far below, have been given the budget of the file.
THEOREM MeasurementUnderBudget == ~Endpoint => (Spec => []MeasuredUnderBudget)
<1>1. ASSUME InSync, step[Root] \in {1, 2}, NEW n \in Node
      PROVE  cap[n] = root_cap
  <2>1. InStep(n) /\ LeafInSync(n)
    BY <1>1, AllInStep, TreeFacts DEF InSync
  <2>2. step[n] \in 0 .. 2
    BY <1>1, <2>1 DEF InStep
  <2>3. root_cap = FileBudget
    BY <1>1 DEF InSync, RootInSync
  <2> QED
    BY <2>1, <2>2, <2>3 DEF LeafInSync
<1>2. InSync => MeasuredUnderBudget
  BY <1>1 DEF MeasuredUnderBudget
<1> QED
  BY <1>2, RolesInSync, PTL

-----------------------------------------------------------------------------
(* The barrier.                                                            *)

\* A leaf completes its step, or goes to the next one when the root is there.
LEMMA LeafMoves ==
    ASSUME InSync, NEW n \in Node, NEW s \in Int, NEW done \in BOOLEAN,
           step' = [step EXCEPT ![n] = s], complete' = [complete EXCEPT ![n] = done],
           \/ s = step[n] /\ (complete[n] => done)
           \/ s = step[n] + 1 /\ s <= step[Root]
    PROVE  [Barrier!Next]_(Barrier!vars)
<1> DEFINE bstep == [l \in Node |-> step[l]]
           bcomplete == [l \in Node |-> complete[l]]
<1>1. /\ step \in [Role -> Int] /\ complete \in [Role -> BOOLEAN] /\ n \in Role
      /\ Node \subseteq Role /\ step[Root] \in Int /\ step[Root] <= MaxStep
  BY TreeFacts, BoundsAssumption DEF InSync, Shapes, RootInSync
<1>2. bstep' = [bstep EXCEPT ![n] = s] /\ bcomplete' = [bcomplete EXCEPT ![n] = done]
  BY <1>1
<1>3. CASE s = step[n] /\ (complete[n] => done)
  <2>1. bstep' = bstep
    BY <1>1, <1>2, <1>3
  <2>2. CASE done = complete[n]
    <3>1. bcomplete' = bcomplete
      BY <1>1, <1>2, <2>2
    <3> QED
      BY <2>1, <3>1 DEF Barrier!vars
  <2>3. CASE done # complete[n]
    <3>1. done = TRUE /\ ~bcomplete[n]
      BY <1>1, <1>3, <2>3
    <3>2. Barrier!Complete(n)
      BY <1>2, <2>1, <3>1 DEF Barrier!Complete
    <3> QED
      BY <3>2 DEF Barrier!Next
  <2> QED
    BY <2>2, <2>3
<1>4. CASE s = step[n] + 1 /\ s <= step[Root]
  <2>1. step[n] = step[Root] - 1
    BY <1>1, <1>4, AllInStep DEF InStep
  <2>2. \A l \in Node : bstep[l] > step[n] \/ (bstep[l] = step[n] /\ bcomplete[l])
    BY <1>1, <2>1, AllInStep DEF InStep
  <2>3. bstep[n] = step[n] /\ step[n] < MaxStep
    BY <1>1, <2>1, BoundsAssumption
  <2>4. Barrier!Arrived(bstep[n])
    BY <2>2, <2>3 DEF Barrier!Arrived
  <2>5. bstep' = [bstep EXCEPT ![n] = @ + 1]
    BY <1>2, <1>4, <2>3
  <2>6. Barrier!Advance(n)
    BY <1>2, <2>3, <2>4, <2>5 DEF Barrier!Advance
  <2> QED
    BY <2>6 DEF Barrier!Next
<1> QED
  BY <1>3, <1>4

\* A policy for the next step reaches a leaf only when the root is in that step.
LEMMA LeafStepIsBarrierStep ==
    ASSUME ~Endpoint, InSync, NEW n \in Node, LeafStep(n)
    PROVE  [Barrier!Next]_(Barrier!vars)
<1>1. /\ step \in [Role -> Int] /\ complete \in [Role -> BOOLEAN] /\ n \in Role
      /\ Parent[n] \in Role /\ step[Root] \in Nat
  BY TreeFacts, BoundsAssumption DEF InSync, Shapes, RootInSync
<1>2. step[Parent[n]] <= step[Root]
  <2>1. InStep(Parent[n]) /\ step[Parent[n]] \in Int
    BY <1>1, AllInStep
  <2> QED
    BY <1>1, <2>1 DEF InStep
<1>3. CASE AdjustReset(n)
  <2>1. /\ step' = [step EXCEPT ![n] = 0] /\ complete' = [complete EXCEPT ![n] = TRUE]
        /\ Received(n).cap # 0
    BY <1>3 DEF AdjustReset
  <2>2. step[n] \in {-1, 0}
    BY <2>1, LeafReceives DEF BudgetAt
  <2>3. PICK s \in Int : s = 0
    OBVIOUS
  <2>4. step' = [step EXCEPT ![n] = s]
    BY <2>1, <2>3
  <2>5. s = step[n] \/ (s = step[n] + 1 /\ s <= step[Root])
    BY <1>1, <2>2, <2>3
  <2> QED
    BY <2>1, <2>4, <2>5, LeafMoves
<1>4. CASE AdjustAdvance(n)
  <2> DEFINE s == step[n] + 1
  <2>1. /\ step' = [step EXCEPT ![n] = s]
        /\ complete' = [complete EXCEPT ![n] = SendDownLimit(s)]
        /\ Received(n).cap = 0 /\ Received(n).step = s
    BY <1>4 DEF AdjustAdvance
  <2>2. s <= step[Root]
    BY <1>2, <2>1, LeafReceives, PowerAssumption
  <2>3. PICK done \in BOOLEAN : complete' = [complete EXCEPT ![n] = done]
    BY <2>1 DEF SendDownLimit
  <2>4. s \in Int
    BY <1>1
  <2> QED
    BY <2>1, <2>2, <2>3, <2>4, LeafMoves
<1>5. CASE AdjustAgain(n)
  BY <1>5 DEF AdjustAgain, Barrier!vars
<1>6. CASE OutOfSync(n)
  BY <1>1, <1>6, NotOutOfSync
<1>7. CASE \E done, s, h : /\ Sampling(n, done, s, h)
                           /\ done = complete[n] \/ done = TRUE \/ (done = FALSE /\ ~complete[n])
  <2>1. PICK done, s, h : /\ Sampling(n, done, s, h)
                          /\ done = complete[n] \/ done = TRUE \/ (done = FALSE /\ ~complete[n])
    BY <1>7
  <2>2. done \in BOOLEAN /\ (complete[n] => done)
    BY <1>1, <2>1
  <2>3. complete' = [complete EXCEPT ![n] = done] /\ step' = [step EXCEPT ![n] = step[n]]
    BY <1>1, <2>1 DEF Sampling
  <2>4. step[n] \in Int
    BY <1>1
  <2> QED
    BY <2>2, <2>3, <2>4, LeafMoves
<1> QED
  BY <1>3, <1>4, <1>5, <1>6, <1>7, LeafCases

\* The steps of the roles above are invisible to the leaves.
LEMMA OtherStepsAreInvisible ==
    ASSUME Shapes, NEW t \in Tree, TreeStep(t) \/ RootStep
    PROVE  UNCHANGED Barrier!vars
<1>1. \A u \in Tree, n \in Node : u # n
  BY TreeAssumption
<1>2. Root \in Tree /\ Node \subseteq Role
  BY TreeAssumption, TreeFacts
<1>3. \A n \in Node : step'[n] = step[n] /\ complete'[n] = complete[n]
  <2>1. ASSUME NEW u \in Tree, NEW n \in Node, NEW s, NEW done,
               step' = step \/ step' = [step EXCEPT ![u] = s],
               complete' = complete \/ complete' = [complete EXCEPT ![u] = done]
        PROVE  step'[n] = step[n] /\ complete'[n] = complete[n]
    BY <1>1, <1>2, <2>1 DEF Shapes
  <2>2. CASE TreeStep(t)
    BY <2>1, <2>2 DEF TreeStep, TreeDescend, TreeWaits, OutOfSync, AscendNothing, TreeAscend,
                      StepIsDone, Ascending, Throw, roleVars
  <2>3. CASE RootStep
    BY <1>2, <2>1, <2>3 DEF RootStep, RootRestarts, RootAdvances, RootWaits, RootAscend,
                     RootOutOfSync, StepIsDone, Ascending, Throw, roleVars
  <2> QED
    BY <2>2, <2>3
<1> QED
  BY <1>3 DEF Barrier!vars

\* Every controller runs its loop at its own pace, and yet no leaf begins a step
\* before every leaf has completed the one before.
THEOREM TreeIsABarrier == ~Endpoint => (Spec => Barrier!Safety)
<1> SUFFICES ASSUME ~Endpoint PROVE Spec => Barrier!Safety
  OBVIOUS
<1>1. ASSUME Init PROVE Barrier!Init
  <2>1. \A n \in Node : step[n] = -1 /\ complete[n] = TRUE
    BY <1>1, TreeFacts DEF Init
  <2> QED
    BY <2>1 DEF Barrier!Init
<1>2. ASSUME InSync, [Next]_vars PROVE [Barrier!Next]_(Barrier!vars)
  <2>1. ASSUME NEW n \in Node, LoopOf(n) PROVE [Barrier!Next]_(Barrier!vars)
    <3>1. CASE LeafStep(n)
      BY <1>2, <3>1, LeafStepIsBarrierStep
    <3>2. CASE ~LeafStep(n)
      BY <1>2, <2>1, <3>2, OtherStepsAreInvisible, TreeAssumption DEF LoopOf, InSync
    <3> QED
      BY <3>1, <3>2
  <2>2. ASSUME NEW p \in RmPolicy, WritePolicy(p) PROVE FALSE
    BY <2>2 DEF WritePolicy
  <2>3. CASE UNCHANGED vars
    BY <2>3 DEF vars, roleVars, Barrier!vars
  <2> QED
    BY <1>2, <2>1, <2>2, <2>3 DEF Next
<1>3. InSync /\ [Next]_vars => [Barrier!Next]_(Barrier!vars)
  BY <1>2
<1>4. Init => Barrier!Init
  BY <1>1
<1> QED
  BY <1>3, <1>4, RolesInSync, PTL DEF Spec, Barrier!Safety

-----------------------------------------------------------------------------
(* The policy of the root, with a file or an endpoint.                     *)

\* The other roles leave the root alone.
LEMMA OthersKeepRoot ==
    ASSUME RootInv, NEW a \in Role \ {Root}, NEW s,
           step' = step \/ step' = [step EXCEPT ![a] = s], UNCHANGED root_policy
    PROVE  RootInv'
  BY TreeFacts DEF RootInv

\* An endpoint may change the budget at any time, which restarts the count of the
\* steps together with the policy; otherwise both advance in turn.
LEMMA NextRootInv ==
    ASSUME RootInv, [Next]_vars
    PROVE  RootInv'
<1>1. ASSUME NEW n \in Node, LeafStep(n) PROVE RootInv'
  <2>1. n \in Role \ {Root}
    BY TreeFacts
  <2>2. UNCHANGED root_policy
    BY <1>1 DEF LeafStep, AdjustReset, AdjustAdvance, AdjustAgain, Adjusting, OutOfSync, Throw,
                roleVars, SampleNothing, StepCompletes, SampleMeasured, SampleAtTarget,
                SampleSlower, SampleUnstable, SampleFaster, Reducing, Sampling
  <2>3. step' = step \/ \E s : step' = [step EXCEPT ![n] = s]
    BY <1>1 DEF LeafStep, AdjustReset, AdjustAdvance, AdjustAgain, OutOfSync, Throw,
                roleVars, SampleNothing, StepCompletes, SampleMeasured, SampleAtTarget,
                SampleSlower, SampleUnstable, SampleFaster, Reducing, Sampling
  <2> QED
    BY <2>1, <2>2, <2>3, OthersKeepRoot
<1>2. ASSUME NEW t \in Tree, TreeStep(t) PROVE RootInv'
  <2>1. UNCHANGED root_policy
    BY <1>2 DEF TreeStep, TreeDescend, TreeWaits, OutOfSync, Throw, roleVars, AscendNothing, TreeAscend
  <2>2. step' = step \/ (t # Root /\ \E s : step' = [step EXCEPT ![t] = s])
    BY <1>2 DEF TreeStep, TreeDescend, TreeWaits, OutOfSync, Throw, roleVars, AscendNothing, TreeAscend,
                StepIsDone, Ascending
  <2>3. CASE step' = step
    BY <2>1, <2>3 DEF RootInv
  <2>4. CASE t # Root /\ \E s : step' = [step EXCEPT ![t] = s]
    BY <2>1, <2>4, TreeFacts, OthersKeepRoot
  <2> QED
    BY <2>2, <2>3, <2>4
<1>3. ASSUME RootStep PROVE RootInv'
  <2>1. CASE RootRestarts
    BY <2>1, TreeFacts DEF RootRestarts, RootInv
  <2>2. CASE RootAdvances
    BY <2>2, TreeFacts DEF RootAdvances, MayAdvance, RootInv
  <2>3. CASE RootWaits \/ RootOutOfSync
    BY <2>3 DEF RootWaits, RootOutOfSync, Throw, roleVars, RootInv
  <2>4. CASE RootAscend
    BY <2>4 DEF RootAscend, StepIsDone, Ascending, RootInv
  <2> QED
    BY <1>3, <2>1, <2>2, <2>3, <2>4 DEF RootStep
<1>4. ASSUME NEW p \in RmPolicy, WritePolicy(p) PROVE RootInv'
  BY <1>4 DEF WritePolicy, roleVars, RootInv
<1>5. CASE UNCHANGED vars
  BY <1>5 DEF vars, roleVars, RootInv
<1> QED
  BY <1>1, <1>2, <1>3, <1>4, <1>5 DEF Next, LoopOf

\* descend() never meets a policy of another step than the current or the next
\* one ("policy passed does not match current step_count").
THEOREM RootHoldsMatchingPolicy == Spec => []RootPolicyInStep
<1>1. Init => RootInv
  BY TreeFacts DEF Init, RootInv
<1>2. RootInv /\ [Next]_vars => RootInv'
  BY NextRootInv
<1>3. RootInv => RootPolicyInStep
  BY DEF RootInv, RootPolicyInStep
<1> QED
  BY <1>1, <1>2, <1>3, PTL DEF Spec

-----------------------------------------------------------------------------
(* The roles above a role: what every set contains that contains the role   *)
(* and, with any role, the one above it.                                   *)
Upward(U) == \A b \in U \ {Root} : Parent[b] \in U
Above(a) == {b \in Role : \A U \in SUBSET Role : a \in U /\ Upward(U) => b \in U}
\* The leaves below a role.
Under(a) == {n \in Node : a \in Above(n)}

\* What a leaf has under its cap, and what the leaves below a role have.
Given == [n \in Node |-> cap[n] - limit[n]]
SlackUnder(a) == SumOver(Given, Under(a))

\* A leaf does not exceed its cap; a limit below what the hardware takes has been
\* noticed when it matters; and a reduction ends with the slack it made.
Noticed(n) ==
    /\ limit[n] < MinPower => actual[n] = MinPower
    /\ clipped \/ actual[n] <= limit[n]
Begun(n) ==
    /\ cap[n] \in 1 .. MaxPower
    /\ limit[n] \in 1 .. cap[n]
    /\ actual[n] \in MinPower .. MaxPower
    /\ actual[n] <= MaxOf(cap[n], MinPower)
    /\ cap[n] < MinPower => actual[n] = MinPower /\ clipped
    /\ turn[n] = <<"sample", n>> => Noticed(n) /\ (limit[n] < MinPower => out_of_bounds[n])
    /\ complete[n] => Noticed(n)
    /\ complete[n] /\ ReduceLimit(step[n]) =>
         slack[n] = cap[n] - limit[n] /\ headroom[n] = MaxPower - limit[n]
NotBegun(n) ==
    /\ cap[n] = NaN /\ limit[n] = NaN /\ actual[n] = NaN
    /\ turn[n] # <<"sample", n>>
LeafPower(n) == IF step[n] = -1 THEN NotBegun(n) ELSE Begun(n)

LeafShapes ==
    /\ limit = [n \in Node |-> limit[n]] /\ actual = [n \in Node |-> actual[n]]
    /\ slack = [n \in Node |-> slack[n]] /\ headroom = [n \in Node |-> headroom[n]]
    /\ out_of_bounds \in [Node -> BOOLEAN] /\ target_met \in [Node -> BOOLEAN]
    /\ trial_delta \in [Node -> MinDelta .. Delta]
    /\ clipped \in BOOLEAN

\* The sample of a reduction tells the slack of all the leaves below, and a
\* headroom that each of them has.
Covers(m, a) ==
    /\ m.slack = SlackUnder(a)
    /\ m.headroom \in Nat
    /\ \A n \in Under(a) : limit[n] + m.headroom <= MaxPower
SamplePower(a) ==
    LET m == sample_box[a]
    IN  m # NoSample /\ m.step = step[a] /\ ReduceLimit(m.step) => Covers(m, a)

\* The slack of the root's policy reaches everybody unchanged.
PolicyPower(a) ==
    policy_box[a] # NoPolicy =>
      /\ policy_box[a].slack \in Nat
      /\ policy_box[a].step = 0 => policy_box[a].slack = 0
      /\ policy_box[a].step = root_policy.step => policy_box[a].slack = root_policy.slack

\* A leaf that has not begun the step in which the root hands out the slack will
\* raise its cap from its limit.
Waiting(n) == SendDownLimit(root_policy.step) /\ step[n] = root_policy.step - 1
Share == [n \in Node |-> IF Waiting(n) THEN limit[n] + root_policy.slack ELSE cap[n]]
RootPower ==
    root_policy # NoPolicy =>
      /\ root_policy.slack \in Nat
      /\ root_policy.step >= 1 =>
           /\ \A n \in Node : Waiting(n) => limit[n] + root_policy.slack <= MaxPower
           /\ SumOver(Share, Node) <= Cardinality(Node) * FileBudget

PowerInv ==
    /\ LeafShapes
    /\ \A n \in Node : LeafPower(n)
    /\ \A a \in Role \ {Root} : SamplePower(a) /\ PolicyPower(a)
    /\ RootPower
    /\ root_cap = NaN => root_policy = NoPolicy

-----------------------------------------------------------------------------
(* The roles above a role, and the leaves below.                           *)

\* They contain the role and are the least such set.
LEMMA AboveFacts ==
    ASSUME NEW a \in Role
    PROVE  /\ a \in Above(a) /\ Above(a) \in SUBSET Role /\ Upward(Above(a))
           /\ \A U \in SUBSET Role : a \in U /\ Upward(U) => Above(a) \subseteq U
<1>1. a \in Above(a) /\ Above(a) \in SUBSET Role
  BY DEF Above
<1>2. Upward(Above(a))
  BY TreeFacts DEF Above, Upward
<1>3. \A U \in SUBSET Role : a \in U /\ Upward(U) => Above(a) \subseteq U
  BY DEF Above
<1> QED
  BY <1>1, <1>2, <1>3

\* A role is above another one by way of a role directly below it.
LEMMA AboveBy ==
    ASSUME NEW a \in Role, NEW t \in Above(a), t # a
    PROVE  \E b \in Children(t) : b \in Above(a)
<1> DEFINE W == Above(a) \ {t}
<1>1. W \in SUBSET Role /\ a \in W
  BY AboveFacts
<1>2. ~Upward(W)
  BY <1>1, AboveFacts
<1>3. PICK b \in W \ {Root} : Parent[b] \notin W
  BY <1>2 DEF Upward
<1>4. b \in Above(a) \ {Root} /\ b \in Role
  BY <1>1, <1>3
<1>5. Parent[b] \in Above(a)
  BY <1>4, AboveFacts DEF Upward
<1>6. Parent[b] = t
  BY <1>3, <1>5
<1> QED
  BY <1>4, <1>6 DEF Children

\* Below a leaf there is only the leaf,
LEMMA UnderLeaf ==
    ASSUME NEW n \in Node
    PROVE  Under(n) = {n}
<1>1. n \in Under(n)
  BY AboveFacts, TreeFacts DEF Under
<1>2. ASSUME NEW m \in Under(n) PROVE m = n
  <2> DEFINE U == {m} \cup Tree
  <2>1. m \in Node /\ n \in Above(m) /\ m \in Role
    BY TreeFacts DEF Under
  <2>2. U \in SUBSET Role /\ m \in U /\ Upward(U)
    BY <2>1, TreeFacts DEF Upward
  <2>3. n \in U
    BY <2>1, <2>2, AboveFacts
  <2> QED
    BY <2>3, TreeAssumption
<1> QED
  BY <1>1, <1>2

\* below the root are all,
LEMMA UnderRoot == Under(Root) = Node
<1>1. ASSUME NEW n \in Node PROVE Root \in Above(n)
  <2>1. n \in Role /\ Root \in Role
    BY TreeFacts
  <2>2. ASSUME NEW U \in SUBSET Role, n \in U, Upward(U), Root \notin U PROVE FALSE
    <3> DEFINE S == Role \ U
    <3>1. Root \in S /\ \A a \in Role \ {Root} : Parent[a] \in S => a \in S
      BY <2>1, <2>2 DEF Upward
    <3> HIDE DEF S
    <3>2. n \in S
      BY <2>1, <3>1, TreeInduction
    <3> QED
      BY <2>2, <3>2 DEF S
  <2> QED
    BY <2>1, <2>2 DEF Above
<1> QED
  BY <1>1 DEF Under

\* and below a tree role those below the roles directly below it,
LEMMA UnderTree ==
    ASSUME NEW t \in Tree
    PROVE  Under(t) = UNION {Under(a) : a \in Children(t)}
<1>1. ASSUME NEW n \in Under(t) PROVE \E a \in Children(t) : n \in Under(a)
  <2>1. n \in Node /\ n \in Role /\ t \in Above(n) /\ t # n
    BY TreeFacts, TreeAssumption DEF Under
  <2> QED
    BY <2>1, AboveBy DEF Under
<1>2. ASSUME NEW a \in Children(t), NEW n \in Under(a) PROVE n \in Under(t)
  <2>1. n \in Node /\ n \in Role /\ a \in Above(n) /\ a \in Role \ {Root} /\ Parent[a] = t
    BY TreeFacts DEF Under, Children
  <2>2. t \in Above(n)
    BY <2>1, AboveFacts DEF Upward
  <2> QED
    BY <2>1, <2>2 DEF Under
<1> QED
  BY <1>1, <1>2

\* each below one of them only: two roles of the same level above a leaf would
\* have two of the level below, and so on.
LEMMA UnderOne ==
    ASSUME NEW t \in Tree, NEW a \in Children(t), NEW b \in Children(t), a # b
    PROVE  Under(a) \cap Under(b) = {}
<1> SUFFICES ASSUME NEW n \in Node, a \in Above(n), b \in Above(n) PROVE FALSE
  BY DEF Under
<1> DEFINE A == Above(n)
           M == Cardinality(Tree)
<1>1. PICK depth \in [Role -> 0 .. M] :
         \A c \in Role \ {Root} : depth[c] = depth[Parent[c]] + 1
  BY LevelAssumption
<1>2. n \in Role /\ n \in A /\ A \in SUBSET Role /\ Upward(A)
      /\ \A U \in SUBSET Role : n \in U /\ Upward(U) => A \subseteq U
  BY AboveFacts, TreeFacts
<1>3. M \in Nat /\ \A c \in Role : depth[c] \in 0 .. M
  BY <1>1, TreeAssumption, FS_CardinalityType
<1> HIDE DEF M, A
<1>4. \A c \in A : c = n \/ depth[c] < depth[n]
  <2> DEFINE U == {c \in A : c = n \/ depth[c] < depth[n]}
  <2>1. ASSUME NEW c \in U \ {Root} PROVE Parent[c] \in U
    <3>1. c \in A /\ c \in Role \ {Root} /\ Parent[c] \in A /\ Parent[c] \in Role
      BY <1>2, <2>1, TreeFacts DEF Upward
    <3>2. depth[c] = depth[Parent[c]] + 1
      BY <1>1, <3>1
    <3>3. depth[c] \in Int /\ depth[Parent[c]] \in Int /\ depth[n] \in Int
      BY <1>2, <1>3, <3>1
    <3>4. depth[c] <= depth[n]
      BY <2>1, <3>3
    <3>5. depth[Parent[c]] < depth[n]
      BY <3>2, <3>3, <3>4
    <3> QED
      BY <3>1, <3>5
  <2>2. U \in SUBSET Role /\ n \in U /\ Upward(U)
    BY <1>2, <2>1 DEF Upward
  <2> QED
    BY <1>2, <2>2
<1> DEFINE Twins(c, d) == c \in A /\ d \in A /\ c # d /\ depth[c] = depth[d]
           S == {M - depth[c] : c \in {c \in A : \E d \in A : Twins(c, d)}}
<1>5. Twins(a, b)
  <2>1. a \in Role \ {Root} /\ b \in Role \ {Root} /\ Parent[a] = Parent[b]
    BY DEF Children
  <2> QED
    BY <1>1, <2>1 DEF A
<1>6. S \in SUBSET Nat /\ S # {}
  <2>1. \A c \in A : M - depth[c] \in Nat
    BY <1>2, <1>3
  <2>2. M - depth[a] \in S
    BY <1>5
  <2> QED
    BY <2>1, <2>2
<1>7. PICK m \in S : \A k \in S : m <= k
  BY <1>6, LeastOf
<1>8. PICK c \in A : (\E d \in A : Twins(c, d)) /\ m = M - depth[c]
  BY <1>7
<1>9. PICK d \in A : Twins(c, d)
  BY <1>8
<1>10. c # n /\ d # n /\ c \in Role /\ d \in Role
  <2>1. c \in Role /\ d \in Role /\ depth[c] \in Int /\ depth[d] \in Int /\ depth[n] \in Int
    BY <1>2, <1>3
  <2> QED
    BY <1>4, <1>9, <2>1
<1>11. PICK p \in Children(c) : p \in A
  BY <1>2, <1>10, AboveBy DEF A
<1>12. PICK q \in Children(d) : q \in A
  BY <1>2, <1>10, AboveBy DEF A
<1>13. /\ p \in Role \ {Root} /\ q \in Role \ {Root} /\ Parent[p] = c /\ Parent[q] = d
  BY <1>11, <1>12 DEF Children
<1>14. depth[p] = depth[c] + 1 /\ depth[q] = depth[d] + 1 /\ p # q
  BY <1>1, <1>9, <1>13
<1>15. Twins(p, q)
  BY <1>9, <1>11, <1>12, <1>14
<1>16. M - depth[p] \in S
  BY <1>11, <1>12, <1>15
<1>17. depth[c] \in Int /\ M \in Int
  BY <1>3, <1>10
<1>18. m <= M - depth[p]
  <2> HIDE DEF S
  <2> QED
    BY <1>7, <1>16
<1> QED
  BY <1>8, <1>14, <1>17, <1>18

\* What is below a role that has completed a step has completed it, too.
DoneSpreads ==
    \A a, b \in Role : a \in Above(b) /\ complete[a] /\ step[a] \in Nat =>
        step[b] = step[a] /\ complete[b]

\* This follows from link to link.
LEMMA DoneBelow == InSync => DoneSpreads
<1> SUFFICES ASSUME InSync, NEW a \in Role, NEW b \in Role, a \in Above(b),
                    complete[a], step[a] \in Nat
             PROVE  step[b] = step[a] /\ complete[b]
  BY DEF DoneSpreads
<1> DEFINE U == {c \in Role : ~(step[c] = step[a] /\ complete[c])}
<1>1. ASSUME NEW c \in U \ {Root}, Parent[c] \notin U PROVE FALSE
  <2>1. c \in Role \ {Root} /\ Parent[c] \in Role
    BY TreeFacts
  <2>2. step[Parent[c]] = step[a] /\ complete[Parent[c]] /\ Held(c)
    BY <1>1, <2>1 DEF InSync, LinkInSync
  <2> QED
    BY <1>1, <2>2 DEF Held
<1>2. U \in SUBSET Role /\ Upward(U)
  BY <1>1 DEF Upward
<1> QED
  BY <1>2, AboveFacts

\* The same after a step.
LEMMA DoneBelowNext == InSync' => DoneSpreads'
<1>1. (InSync => DoneSpreads)'
  BY DoneBelow, PTL
<1> QED
  BY <1>1

-----------------------------------------------------------------------------
(* What a turn of a leaf does to its power.                                *)

\* A leaf begins, or begins the step of the root's policy with its share of the
\* slack, or stays in its step and, if that is a reduction it has completed, at
\* its limit.
Starts(n) == step[n] = -1 /\ step'[n] = 0
Advances(n) ==
    /\ step'[n] = step[n] + 1 /\ step'[n] \in Nat \ {0} /\ root_policy.step = step'[n]
    /\ cap'[n] = IF SendDownLimit(step'[n]) THEN limit[n] + root_policy.slack ELSE cap[n]
Stays(n) ==
    /\ step'[n] = step[n] /\ cap'[n] = cap[n]
    /\ complete[n] /\ ReduceLimit(step[n]) => limit'[n] = limit[n]
Tells(n) ==
    \/ UNCHANGED sample_box
    \/ /\ complete'[n]
       /\ sample_box' = [sample_box EXCEPT ![n] =
                           [step |-> step'[n], slack |-> slack'[n], headroom |-> headroom'[n]]]
LeafEffect(n) ==
    /\ LeafShapes'
    /\ \A m \in Node : LeafPower(m)'
    /\ \A m \in Node \ {n} : cap'[m] = cap[m] /\ limit'[m] = limit[m]
    /\ \A a \in Role \ {n} : step'[a] = step[a]
    /\ Starts(n) \/ Advances(n) \/ Stays(n)
    /\ Tells(n)
    /\ UNCHANGED <<policy_box, root_policy, root_cap>>

\* A leaf of which nothing changes.
LEMMA SameLeaf ==
    ASSUME NEW m \in Node, LeafPower(m),
           step'[m] = step[m], complete'[m] = complete[m], cap'[m] = cap[m],
           limit'[m] = limit[m], actual'[m] = actual[m], slack'[m] = slack[m],
           headroom'[m] = headroom[m], out_of_bounds'[m] = out_of_bounds[m],
           turn'[m] = <<"sample", m>> => turn[m] = <<"sample", m>>,
           clipped => clipped'
    PROVE  LeafPower(m)'
<1>1. NotBegun(m) => NotBegun(m)'
  BY DEF NotBegun
<1>2. Noticed(m) => Noticed(m)'
  BY DEF Noticed
<1>3. Begun(m) => Begun(m)'
  BY <1>2 DEF Begun
<1> QED
  BY <1>1, <1>3 DEF LeafPower

\* What enforcing a limit does, if the limit is not zero.
LEMMA EnforceFacts ==
    ASSUME LeafShapes, NEW n \in Node, NEW l \in Nat \ {0}, NEW met \in BOOLEAN,
           Enforce(n, l, met)
    PROVE  /\ actual'[n] = MaxOf(l, MinPower)
           /\ limit'[n] = IF MaxOf(l, MinPower) # actual[n] THEN MaxOf(l, MinPower) ELSE l
           /\ l < MinPower => out_of_bounds'[n]
           /\ clipped => clipped'
           /\ l < MinPower /\ actual[n] = MinPower => clipped'
           /\ \A m \in Node \ {n} : /\ actual'[m] = actual[m] /\ limit'[m] = limit[m]
                                    /\ out_of_bounds'[m] = out_of_bounds[m]
           /\ limit' = [m \in Node |-> limit'[m]] /\ actual' = [m \in Node |-> actual'[m]]
           /\ out_of_bounds' \in [Node -> BOOLEAN] /\ target_met' \in [Node -> BOOLEAN]
           /\ clipped' \in BOOLEAN
<1> DEFINE request == MaxOf(l, MinPower)
           changed == request # actual[n]
           below == l < MinPower
<1>1. /\ actual' = [actual EXCEPT ![n] = request]
      /\ limit' = [limit EXCEPT ![n] = IF changed THEN request ELSE l]
      /\ target_met' = [target_met EXCEPT ![n] = met \/ (changed /\ below)]
      /\ out_of_bounds' = [out_of_bounds EXCEPT ![n] = out_of_bounds[n] \/ below]
      /\ clipped' = (clipped \/ (below /\ ~changed))
  BY DEF Enforce
<1>2. changed \in BOOLEAN /\ below \in BOOLEAN /\ (below => request = MinPower)
  BY PowerAssumption DEF MaxOf
<1>3. /\ limit = [m \in Node |-> limit[m]] /\ actual = [m \in Node |-> actual[m]]
      /\ out_of_bounds \in [Node -> BOOLEAN] /\ target_met \in [Node -> BOOLEAN]
      /\ clipped \in BOOLEAN
  BY DEF LeafShapes
<1>4. actual'[n] = request /\ limit'[n] = IF changed THEN request ELSE l
  BY <1>1, <1>3
<1>5. below => out_of_bounds'[n]
  BY <1>1, <1>3
<1>6. (clipped => clipped') /\ (below /\ ~changed => clipped') /\ clipped' \in BOOLEAN
  BY <1>1, <1>2, <1>3
<1>7. \A m \in Node \ {n} : /\ actual'[m] = actual[m] /\ limit'[m] = limit[m]
                             /\ out_of_bounds'[m] = out_of_bounds[m]
  BY <1>1, <1>3
<1>8. limit' = [m \in Node |-> limit'[m]] /\ actual' = [m \in Node |-> actual'[m]]
  BY <1>1, <1>3
<1>9. out_of_bounds' \in [Node -> BOOLEAN] /\ target_met' \in [Node -> BOOLEAN]
  BY <1>1, <1>2, <1>3
<1> QED
  BY <1>2, <1>4, <1>5, <1>6, <1>7, <1>8, <1>9

\* After it the leaf is within its cap.
LEMMA EnforcedBegun ==
    ASSUME LeafShapes, NEW n \in Node, NEW l \in Nat \ {0}, NEW met \in BOOLEAN,
           Enforce(n, l, met),
           cap'[n] \in 1 .. MaxPower, l <= cap'[n],
           cap'[n] < MinPower => actual[n] = MinPower,
           complete'[n] /\ ReduceLimit(step'[n]) =>
             /\ slack'[n] = cap'[n] - limit'[n]
             /\ headroom'[n] = MaxPower - limit'[n]
    PROVE  Begun(n)'
<1> DEFINE request == MaxOf(l, MinPower)
<1>1. /\ actual'[n] = request
      /\ limit'[n] = IF request # actual[n] THEN request ELSE l
      /\ l < MinPower => out_of_bounds'[n]
      /\ l < MinPower /\ actual[n] = MinPower => clipped'
  BY EnforceFacts
<1>2. request \in Nat /\ (l < MinPower => request = MinPower) /\ (l >= MinPower => request = l)
  BY PowerAssumption DEF MaxOf
<1>3. limit'[n] \in 1 .. cap'[n]
  BY <1>1, <1>2, PowerAssumption
<1>4. actual'[n] \in MinPower .. MaxPower
  BY <1>1, <1>2, PowerAssumption
<1>5. actual'[n] <= MaxOf(cap'[n], MinPower)
  BY <1>1, <1>2, PowerAssumption DEF MaxOf
<1>6. cap'[n] < MinPower => actual'[n] = MinPower /\ clipped'
  BY <1>1, <1>2, PowerAssumption
<1>7. limit'[n] < MinPower => l < MinPower /\ actual'[n] = MinPower
  BY <1>1, <1>2, PowerAssumption
<1>8. clipped' \/ actual'[n] <= limit'[n]
  BY <1>1, <1>2, PowerAssumption
<1> HIDE DEF request
<1>9. Noticed(n)'
  BY <1>7, <1>8 DEF Noticed
<1> QED
  BY <1>1, <1>3, <1>4, <1>5, <1>6, <1>7, <1>9 DEF Begun

\* The rest of a turn in which a leaf adjusts.
LEMMA AdjustEffect ==
    ASSUME InSync, PowerInv, NEW n \in Node, NEW l \in Nat \ {0}, NEW met \in BOOLEAN,
           Adjusting(n), Enforce(n, l, met), NEW s \in Nat,
           step' = [step EXCEPT ![n] = s],
           complete' \in [Role -> BOOLEAN],
           \A a \in Role \ {n} : complete'[a] = complete[a],
           \A m \in Node \ {n} : cap'[m] = cap[m],
           cap'[n] \in 1 .. MaxPower, l <= cap'[n],
           cap'[n] < MinPower => actual[n] = MinPower,
           complete'[n] /\ ReduceLimit(step'[n]) =>
             /\ slack'[n] = cap'[n] - limit'[n]
             /\ headroom'[n] = MaxPower - limit'[n],
           Starts(n) \/ Advances(n) \/ Stays(n)
    PROVE  LeafEffect(n)
<1>1. /\ turn' = [turn EXCEPT ![n] = <<"sample", n>>]
      /\ UNCHANGED <<policy_box, sample_box, root_policy, root_cap, trial_delta, slack, headroom>>
  BY DEF Adjusting, boxVars
<1>2. Shapes /\ LeafShapes
  BY DEF InSync, PowerInv
<1>3. /\ \A m \in Node \ {n} : turn'[m] = turn[m]
      /\ \A a \in Role \ {n} : step'[a] = step[a]
      /\ step'[n] = s
  BY <1>1, <1>2, TreeFacts DEF Shapes
<1>4. LeafShapes'
  <2>1. slack' = [m \in Node |-> slack'[m]] /\ headroom' = [m \in Node |-> headroom'[m]]
        /\ trial_delta' \in [Node -> MinDelta .. Delta]
    BY <1>1, <1>2 DEF LeafShapes
  <2> QED
    BY <1>2, <2>1, EnforceFacts DEF LeafShapes
<1>5. ASSUME NEW m \in Node, m # n PROVE LeafPower(m)'
  <2>1. /\ actual'[m] = actual[m] /\ limit'[m] = limit[m]
        /\ out_of_bounds'[m] = out_of_bounds[m] /\ (clipped => clipped')
    BY <1>2, <1>5, EnforceFacts
  <2>2. LeafPower(m) /\ m \in Role
    BY TreeFacts DEF PowerInv
  <2> QED
    BY <1>1, <1>3, <1>5, <2>1, <2>2, SameLeaf
<1>6. LeafPower(n)'
  <2>1. Begun(n)'
    BY <1>2, EnforcedBegun
  <2> QED
    BY <1>3, <2>1 DEF LeafPower
<1>7. \A m \in Node \ {n} : limit'[m] = limit[m]
  BY <1>2, EnforceFacts
<1> QED
  BY <1>1, <1>3, <1>4, <1>5, <1>6, <1>7 DEF LeafEffect, Tells

\* A budget: only that of the file, and only before the leaf has begun or in its
\* first step.
LEMMA AdjustResetEffect ==
    ASSUME ~Endpoint, InSync, PowerInv, NEW n \in Node, AdjustReset(n)
    PROVE  LeafEffect(n)
<1>1. /\ Adjusting(n) /\ Received(n).cap # 0
      /\ step' = [step EXCEPT ![n] = 0] /\ complete' = [complete EXCEPT ![n] = TRUE]
      /\ cap' = [cap EXCEPT ![n] = Received(n).cap]
      /\ Enforce(n, Received(n).cap, target_met[n])
  BY DEF AdjustReset
<1>2. Received(n).cap = FileBudget /\ (Sent(n) => step[Parent[n]] = 0)
  BY <1>1, LeafReceives DEF BudgetAt
<1>3. step[n] \in {-1, 0}
  BY <1>2, LeafReceives
<1>4. Shapes /\ LeafInSync(n) /\ LeafShapes /\ LeafPower(n) /\ n \in Role
  BY TreeFacts DEF InSync, PowerInv
<1>5. cap'[n] = FileBudget /\ \A m \in Node \ {n} : cap'[m] = cap[m]
  BY <1>1, <1>2, <1>4 DEF Shapes
<1>6. /\ step'[n] = 0 /\ complete' \in [Role -> BOOLEAN]
      /\ \A a \in Role \ {n} : complete'[a] = complete[a]
  BY <1>1, <1>4 DEF Shapes
<1>7. Starts(n) \/ Stays(n)
  <2>1. step[n] = 0 => cap'[n] = cap[n] /\ ~ReduceLimit(step[n])
    BY <1>4, <1>5 DEF LeafInSync, ReduceLimit
  <2> QED
    BY <1>3, <1>6, <2>1 DEF Starts, Stays
<1>8. ~ReduceLimit(step'[n])
  BY <1>6 DEF ReduceLimit
<1>9. FileBudget \in Nat \ {0} /\ FileBudget \in MinPower .. MaxPower /\ MinPower \in Nat \ {0}
      /\ MaxPower \in Nat
  BY PowerAssumption
<1>10. Enforce(n, FileBudget, target_met[n]) /\ target_met[n] \in BOOLEAN
  BY <1>1, <1>2, <1>4 DEF LeafShapes
<1>11. PICK s \in Nat : s = 0 /\ step' = [step EXCEPT ![n] = s]
  BY <1>1
<1>12. cap'[n] \in 1 .. MaxPower /\ FileBudget <= cap'[n] /\ ~(cap'[n] < MinPower)
  BY <1>5, <1>9
<1> QED
  BY <1>1, <1>5, <1>6, <1>7, <1>8, <1>9, <1>10, <1>11, <1>12, AdjustEffect

\* A leaf that is about to begin a step has completed the one before, and the
\* step is that of the root's policy.
LEMMA AdvanceOfRoot ==
    ASSUME InSync, NEW n \in Node, Sent(n), step[Parent[n]] = step[n] + 1
    PROVE  /\ complete[n] /\ step[n] + 1 = root_policy.step
           /\ root_cap # NaN /\ policy_box[n].step = root_policy.step /\ policy_box[n] # NoPolicy
<1>1. /\ n \in Role \ {Root} /\ Parent[n] \in Role
      /\ InStep(n) /\ InStep(Parent[n])
      /\ step[n] \in Int /\ step[Root] \in Nat /\ step[Parent[n]] \in Nat
  BY TreeFacts, AllInStep DEF InSync, Shapes, RootInSync, Sent
<1>2. complete[n]
  BY <1>1 DEF Sent
<1>3. step[Root] = step[n] + 1
  BY <1>1 DEF InStep
<1>4. ~complete[Root]
  <2>1. Root \in Above(n)
    BY UnderRoot DEF Under
  <2> QED
    BY <1>1, <1>3, <2>1, TreeFacts, DoneBelow DEF DoneSpreads
<1>5. root_cap # NaN
  <2>1. CASE root_cap = NaN
    <3>1. step[Root] = 0 /\ step[Parent[n]] = 0 /\ step[n] = -1
      BY <1>1, <1>3, <2>1 DEF InSync, RootInSync
    <3> DEFINE S == {a \in Role : a = Root \/ a \in Node \/ step[a] = -1}
    <3>2. ASSUME NEW a \in Role \ {Root}, Parent[a] \in S PROVE a \in S
      <4>1. LinkInSync(a) /\ Parent[a] \notin Node /\ Parent[a] \in Role
        BY TreeFacts DEF InSync
      <4>2. Unsent(a)
        BY <2>1, <3>2, <4>1 DEF LinkInSync, Sent, NaN
      <4> QED
        BY <4>2 DEF Unsent
    <3>3. Root \in S
      BY TreeFacts
    <3> HIDE DEF S
    <3>4. Parent[n] \in S
      BY <1>1, <3>2, <3>3, TreeInduction
    <3> QED
      BY <1>1, <2>1, <3>1, <3>4, TreeFacts DEF S, Sent
  <2> QED
    BY <2>1
<1>6. root_policy.step = step[Root]
  BY <1>4, <1>5 DEF InSync, RootInSync
<1>7. policy_box[n].step = step[Parent[n]] /\ policy_box[n] # NoPolicy
  BY <1>1, SentReceives DEF Sent, PolicyOf
<1> QED
  BY <1>2, <1>3, <1>5, <1>6, <1>7

\* A policy without a budget for the next step.
LEMMA AdjustAdvanceEffect ==
    ASSUME ~Endpoint, InSync, PowerInv, NEW n \in Node, AdjustAdvance(n)
    PROVE  LeafEffect(n)
<1> DEFINE s == step[n] + 1
           p == Received(n)
<1>1. /\ Adjusting(n) /\ p.cap = 0 /\ p.step = s
      /\ step' = [step EXCEPT ![n] = s]
      /\ complete' = [complete EXCEPT ![n] = SendDownLimit(s)]
  BY DEF AdjustAdvance
<1>2. Shapes /\ LeafShapes /\ LeafPower(n) /\ n \in Role \ {Root} /\ step[n] \in Int
      /\ SendDownLimit(s) \in BOOLEAN
  BY TreeFacts DEF InSync, PowerInv, Shapes, SendDownLimit
<1>3. Sent(n) /\ s = step[Parent[n]] /\ s \in Nat \ {0}
  BY <1>1, LeafReceives, PowerAssumption DEF BudgetAt
<1>4. /\ complete[n] /\ s = root_policy.step
      /\ policy_box[n].step = root_policy.step /\ policy_box[n] # NoPolicy
  BY <1>3, AdvanceOfRoot
<1>5. Begun(n) /\ Noticed(n)
  BY <1>2, <1>3, <1>4 DEF LeafPower, Begun
<1>6. root_policy # NoPolicy /\ root_policy.slack \in Nat /\ p.slack = root_policy.slack
  <2>1. root_policy # NoPolicy
    BY <1>3, <1>4 DEF NoPolicy, NaN
  <2>2. policy_box[n].slack = root_policy.slack /\ root_policy.slack \in Nat
    BY <1>2, <1>4, <2>1 DEF PowerInv, PolicyPower, RootPower
  <2>3. p = Validated(policy_box[n])
    BY <1>2, <1>4 DEF Received
  <2> QED
    BY <2>1, <2>2, <2>3 DEF Validated, NaN
<1>7. PICK met \in BOOLEAN :
         IF SendDownLimit(s)
         THEN /\ cap' = [cap EXCEPT ![n] = limit[n] + p.slack]
              /\ Enforce(n, limit[n] + p.slack, met)
         ELSE UNCHANGED cap /\ Enforce(n, limit[n], met)
  BY DEF AdjustAdvance
<1> HIDE DEF p
<1>8. /\ step'[n] = s /\ complete' \in [Role -> BOOLEAN] /\ complete'[n] = SendDownLimit(s)
      /\ \A a \in Role \ {n} : complete'[a] = complete[a]
  BY <1>1, <1>2 DEF Shapes
<1>9. ~(complete'[n] /\ ReduceLimit(step'[n]))
  <2>1. ~(SendDownLimit(s) /\ ReduceLimit(s))
    BY <1>3 DEF SendDownLimit, ReduceLimit
  <2> HIDE DEF s
  <2> QED
    BY <1>8, <2>1
<1> DEFINE l == IF SendDownLimit(s) THEN limit[n] + root_policy.slack ELSE limit[n]
<1>10. /\ cap'[n] = IF SendDownLimit(s) THEN limit[n] + root_policy.slack ELSE cap[n]
       /\ \A m \in Node \ {n} : cap'[m] = cap[m]
  BY <1>2, <1>6, <1>7 DEF Shapes
<1>11. SendDownLimit(s) => limit[n] + root_policy.slack <= MaxPower
  <2>1. root_policy.step >= 1 /\ step[n] = root_policy.step - 1
    BY <1>2, <1>3, <1>4
  <2> QED
    BY <1>4, <1>6, <2>1 DEF PowerInv, RootPower, Waiting
<1>12. l \in Nat \ {0} /\ l <= cap'[n] /\ cap'[n] \in 1 .. MaxPower
  BY <1>5, <1>6, <1>10, <1>11, PowerAssumption DEF Begun
<1>13. cap'[n] < MinPower => actual[n] = MinPower
  BY <1>5, <1>6, <1>10, PowerAssumption DEF Begun, Noticed
<1>14. Enforce(n, l, met)
  BY <1>6, <1>7
<1>15. Advances(n)
  BY <1>3, <1>4, <1>8, <1>10 DEF Advances
<1>16. s \in Nat /\ step' = [step EXCEPT ![n] = s]
  BY <1>1, <1>3
<1> HIDE DEF s, l
<1> QED
  BY <1>1, <1>8, <1>9, <1>10, <1>12, <1>13, <1>14, <1>15, <1>16, AdjustEffect

\* No new policy.
LEMMA AdjustAgainEffect ==
    ASSUME ~Endpoint, InSync, PowerInv, NEW n \in Node, AdjustAgain(n)
    PROVE  LeafEffect(n)
<1>1. /\ Adjusting(n) /\ Received(n).cap = 0 /\ Received(n).step = step[n]
      /\ UNCHANGED <<step, complete, cap>>
      /\ Enforce(n, limit[n], target_met[n])
  BY DEF AdjustAgain
<1>2. Shapes /\ LeafShapes /\ LeafPower(n) /\ n \in Role
  BY TreeFacts DEF InSync, PowerInv
<1>3. step[n] \in Nat
  BY <1>1, LeafReceives, PowerAssumption
<1>4. Begun(n)
  BY <1>2, <1>3 DEF LeafPower
<1>5. /\ limit[n] \in Nat \ {0} /\ limit[n] <= cap'[n] /\ cap'[n] \in 1 .. MaxPower
      /\ cap'[n] < MinPower => actual[n] = MinPower
      /\ target_met[n] \in BOOLEAN
  BY <1>1, <1>2, <1>4, PowerAssumption DEF Begun, LeafShapes
<1>6. step' = [step EXCEPT ![n] = step[n]] /\ complete' \in [Role -> BOOLEAN]
  BY <1>1, <1>2 DEF Shapes
<1>7. complete[n] /\ ReduceLimit(step[n]) => limit'[n] = limit[n]
  <2>1. limit'[n] = IF MaxOf(limit[n], MinPower) # actual[n] THEN MaxOf(limit[n], MinPower)
                    ELSE limit[n]
    BY <1>1, <1>2, <1>5, EnforceFacts
  <2>2. complete[n] => (limit[n] < MinPower => actual[n] = MinPower)
    BY <1>4 DEF Begun, Noticed
  <2> QED
    BY <1>5, <2>1, <2>2, PowerAssumption DEF MaxOf
<1>8. Stays(n)
  BY <1>1, <1>7 DEF Stays
<1>9. UNCHANGED <<slack, headroom>>
  BY <1>1 DEF Adjusting
<1>10. complete'[n] /\ ReduceLimit(step'[n]) =>
         slack'[n] = cap'[n] - limit'[n] /\ headroom'[n] = MaxPower - limit'[n]
  BY <1>1, <1>4, <1>7, <1>9 DEF Begun
<1> QED
  BY <1>1, <1>3, <1>5, <1>6, <1>8, <1>10, AdjustEffect

\* A turn in which a leaf samples, and may change its limit while a reduction
\* goes on.
LEMMA SamplingEffect ==
    ASSUME InSync, PowerInv, NEW n \in Node, NEW done \in BOOLEAN, NEW s, NEW h,
           Sampling(n, done, s, h), UNCHANGED cap,
           complete[n] => done, NEW l \in Int,
           limit' = [limit EXCEPT ![n] = l],
           Begun(n) => l \in 1 .. cap[n],
           complete[n] => l = limit[n],
           Begun(n) /\ done =>
             /\ l < MinPower => actual[n] = MinPower
             /\ clipped \/ actual[n] <= l,
           Begun(n) /\ done /\ ReduceLimit(step[n]) => s = cap[n] - l /\ h = MaxPower - l,
           \A m \in Node \ {n} : out_of_bounds'[m] = out_of_bounds[m],
           out_of_bounds' \in [Node -> BOOLEAN], target_met' \in [Node -> BOOLEAN],
           trial_delta' \in [Node -> MinDelta .. Delta]
    PROVE  LeafEffect(n)
<1>1. /\ turn[n] = <<"sample", n>> /\ turn' = [turn EXCEPT ![n] = UpFrom(n)]
      /\ complete' = [complete EXCEPT ![n] = done]
      /\ slack' = [slack EXCEPT ![n] = s] /\ headroom' = [headroom EXCEPT ![n] = h]
      /\ SendUp(n, done, [step |-> step[n], slack |-> s, headroom |-> h])
      /\ UNCHANGED <<step, policy_box, root_policy, root_cap, cap, actual, clipped>>
  BY TreeFacts DEF Sampling, Turn
<1>2. Shapes /\ LeafShapes /\ LeafPower(n) /\ n \in Role
  BY TreeFacts DEF InSync, PowerInv
<1>3. UpFrom(n) # <<"sample", n>>
  BY DEF UpFrom, Start, DownTo
<1>4. /\ turn'[n] # <<"sample", n>> /\ complete'[n] = done
      /\ slack'[n] = s /\ headroom'[n] = h /\ limit'[n] = l
      /\ \A m \in Node \ {n} : /\ turn'[m] = turn[m] /\ limit'[m] = limit[m]
                               /\ complete'[m] = complete[m]
                               /\ slack'[m] = slack[m] /\ headroom'[m] = headroom[m]
  BY <1>1, <1>2, <1>3, TreeFacts DEF Shapes, LeafShapes
<1>5. LeafShapes'
  BY <1>1, <1>2 DEF LeafShapes
<1>6. Begun(n)
  BY <1>1, <1>2 DEF LeafPower, NotBegun
<1>7. ASSUME NEW m \in Node, m # n PROVE LeafPower(m)'
  <2>1. LeafPower(m)
    BY DEF PowerInv
  <2> QED
    BY <1>1, <1>4, <1>7, <2>1, SameLeaf
<1>8. Begun(n)'
  <2>1. l \in 1 .. cap[n]
    BY <1>6
  <2>2. done => Noticed(n)'
    BY <1>1, <1>4, <1>6 DEF Noticed
  <2> QED
    BY <1>1, <1>4, <1>6, <2>1, <2>2 DEF Begun
<1>9. LeafPower(n)'
  BY <1>1, <1>2, <1>6, <1>8 DEF LeafPower, NotBegun, Begun, NaN
<1>10. Stays(n)
  BY <1>1, <1>4 DEF Stays
<1>11. Tells(n)
  BY <1>1, <1>4 DEF Tells, SendUp
<1> QED
  BY <1>1, <1>4, <1>5, <1>7, <1>9, <1>10, <1>11 DEF LeafEffect

\* The sampling that changes no limit.
LEMMA NothingEffect ==
    ASSUME InSync, PowerInv, NEW n \in Node, SampleNothing(n) \/ SampleMeasured(n)
    PROVE  LeafEffect(n)
<1>1. Shapes /\ LeafShapes /\ LeafPower(n) /\ n \in Role
  BY TreeFacts DEF InSync, PowerInv
<1>2. PICK done \in BOOLEAN :
         /\ Sampling(n, done, slack[n], headroom[n]) /\ (complete[n] => done)
         /\ done /\ ~complete[n] => ~ReduceLimit(step[n])
  <2>1. CASE SampleNothing(n)
    BY <1>1, <2>1 DEF SampleNothing, Shapes
  <2>2. CASE SampleMeasured(n)
    <3>1. Sampling(n, TRUE, slack[n], headroom[n]) /\ MeasureRuntime(step[n])
      BY <2>2 DEF SampleMeasured
    <3>2. ~ReduceLimit(step[n])
      BY <3>1 DEF MeasureRuntime, ReduceLimit
    <3> QED
      BY <3>1, <3>2
  <2> QED
    BY <2>1, <2>2
<1>3. UNCHANGED <<limit, target_met, trial_delta, out_of_bounds>>
  BY DEF SampleNothing, SampleMeasured
<1>4. turn[n] = <<"sample", n>> /\ UNCHANGED cap
  BY <1>2, TreeFacts DEF Sampling, Turn
<1>5. Begun(n) /\ Noticed(n)
  BY <1>1, <1>4 DEF LeafPower, NotBegun, Begun
<1>6. limit[n] \in Int /\ limit' = [limit EXCEPT ![n] = limit[n]]
  BY <1>1, <1>3, <1>5 DEF LeafShapes, Begun
<1>7. done /\ ReduceLimit(step[n]) => slack[n] = cap[n] - limit[n] /\ headroom[n] = MaxPower - limit[n]
  BY <1>2, <1>5 DEF Begun
<1>8. /\ out_of_bounds' \in [Node -> BOOLEAN] /\ target_met' \in [Node -> BOOLEAN]
      /\ trial_delta' \in [Node -> MinDelta .. Delta]
  BY <1>1, <1>3 DEF LeafShapes
<1>9. limit[n] \in 1 .. cap[n] /\ (limit[n] < MinPower => actual[n] = MinPower)
      /\ (clipped \/ actual[n] <= limit[n])
  BY <1>5 DEF Begun, Noticed
<1>10. Begun(n) /\ done /\ ReduceLimit(step[n]) =>
           slack[n] = cap[n] - limit[n] /\ headroom[n] = MaxPower - limit[n]
  BY <1>7
<1>11. \A m \in Node \ {n} : out_of_bounds'[m] = out_of_bounds[m]
  BY <1>3
<1> DEFINE l == limit[n] s == slack[n] h == headroom[n]
<1>12. /\ Sampling(n, done, s, h) /\ (complete[n] => done)
       /\ UNCHANGED cap /\ l \in Int /\ limit' = [limit EXCEPT ![n] = l]
       /\ l \in 1 .. cap[n] /\ (l < MinPower => actual[n] = MinPower)
       /\ clipped \/ actual[n] <= l
       /\ Begun(n) /\ done /\ ReduceLimit(step[n]) => s = cap[n] - l /\ h = MaxPower - l
       /\ complete[n] => l = limit[n]
  BY <1>2, <1>4, <1>6, <1>9, <1>10
<1> HIDE DEF l, s, h
<1> QED
  BY <1>8, <1>11, <1>12, SamplingEffect

\* The sampling of a reduction.
LEMMA ReducingEffect ==
    ASSUME InSync, PowerInv, NEW n \in Node, NEW done \in BOOLEAN, NEW l \in Int,
           Reducing(n, done, l), target_met' = target_met \/ target_met' = [target_met EXCEPT ![n] = TRUE],
           Begun(n) => l \in 1 .. cap[n],
           Begun(n) /\ done => /\ l < MinPower => actual[n] = MinPower
                               /\ clipped \/ actual[n] <= l
    PROVE  LeafEffect(n)
<1>1. /\ ~complete[n] /\ limit' = [limit EXCEPT ![n] = l]
      /\ out_of_bounds' = [out_of_bounds EXCEPT ![n] = FALSE]
      /\ trial_delta' = [trial_delta EXCEPT ![n] =
                          IF cap[n] = l THEN MaxOf(trial_delta[n] \div 2, MinDelta) ELSE trial_delta[n]]
      /\ Sampling(n, done, cap[n] - l, MaxPower - l)
  BY DEF Reducing
<1>2. Shapes /\ LeafShapes
  BY DEF InSync, PowerInv
<1>3. UNCHANGED cap
  BY <1>1 DEF Sampling
<1>4. trial_delta[n] \in MinDelta .. Delta
  BY <1>2 DEF LeafShapes
<1>5. MaxOf(trial_delta[n] \div 2, MinDelta) \in MinDelta .. Delta
  BY <1>4, PowerAssumption DEF MaxOf
<1>6. trial_delta' \in [Node -> MinDelta .. Delta]
  BY <1>1, <1>2, <1>4, <1>5 DEF LeafShapes
<1>7. /\ out_of_bounds' \in [Node -> BOOLEAN] /\ target_met' \in [Node -> BOOLEAN]
      /\ \A m \in Node \ {n} : out_of_bounds'[m] = out_of_bounds[m]
  BY <1>1, <1>2 DEF LeafShapes
<1>8. PICK s, h : s = cap[n] - l /\ h = MaxPower - l /\ Sampling(n, done, s, h)
  BY <1>1
<1>9. /\ complete[n] => done
      /\ complete[n] => l = limit[n]
      /\ Begun(n) /\ done /\ ReduceLimit(step[n]) => s = cap[n] - l /\ h = MaxPower - l
  BY <1>1, <1>8
<1>10. /\ limit' = [limit EXCEPT ![n] = l]
       /\ Begun(n) => l \in 1 .. cap[n]
       /\ Begun(n) /\ done => /\ l < MinPower => actual[n] = MinPower
                              /\ clipped \/ actual[n] <= l
  BY <1>1
<1> QED
  BY <1>3, <1>6, <1>7, <1>8, <1>9, <1>10, SamplingEffect

\* A leaf that samples is within its cap.
LEMMA ReducingBegun ==
    ASSUME InSync, PowerInv, NEW n \in Node, NEW done, NEW l, Reducing(n, done, l)
    PROVE  Begun(n) /\ Noticed(n) /\ (limit[n] < MinPower => out_of_bounds[n])
<1>1. turn[n] = <<"sample", n>>
  BY TreeFacts DEF Reducing, Sampling, Turn
<1> QED
  BY <1>1 DEF PowerInv, LeafPower, NotBegun, Begun

\* A leaf that stays at its limit, as its target is met or the time is unstable,
LEMMA AtTargetEffect ==
    ASSUME InSync, PowerInv, NEW n \in Node, SampleAtTarget(n) \/ SampleUnstable(n)
    PROVE  LeafEffect(n)
<1>1. PICK done \in BOOLEAN : Reducing(n, done, limit[n]) /\ UNCHANGED target_met
  BY DEF SampleAtTarget, SampleUnstable
<1>2. Begun(n) /\ Noticed(n)
  BY <1>1, ReducingBegun
<1>3. limit[n] \in 1 .. cap[n] /\ limit[n] \in Int
      /\ (limit[n] < MinPower => actual[n] = MinPower) /\ (clipped \/ actual[n] <= limit[n])
  BY <1>2 DEF Begun, Noticed
<1> QED
  BY <1>1, <1>3, ReducingEffect

\* one that backs up, at most to its cap,
LEMMA SlowerEffect ==
    ASSUME InSync, PowerInv, NEW n \in Node, SampleSlower(n)
    PROVE  LeafEffect(n)
<1> DEFINE l == IF limit[n] < cap[n] THEN MinOf(limit[n] + trial_delta[n], cap[n]) ELSE limit[n]
<1>1. /\ Reducing(n, TRUE, l) /\ target_met' = [target_met EXCEPT ![n] = TRUE] /\ ~out_of_bounds[n]
  BY DEF SampleSlower, MayReduce
<1>2. Begun(n) /\ Noticed(n) /\ (limit[n] < MinPower => out_of_bounds[n])
  BY <1>1, ReducingBegun
<1>3. trial_delta[n] \in Nat
  BY PowerAssumption DEF PowerInv, LeafShapes
<1>4. cap[n] \in Nat /\ limit[n] \in 1 .. cap[n] /\ actual[n] \in Int
      /\ limit[n] >= MinPower /\ (clipped \/ actual[n] <= limit[n])
  BY <1>1, <1>2, PowerAssumption DEF Begun, Noticed
<1>5. l \in limit[n] .. cap[n]
  BY <1>3, <1>4 DEF MinOf
<1>6. l \in Int /\ l \in 1 .. cap[n] /\ ~(l < MinPower) /\ (clipped \/ actual[n] <= l)
  BY <1>4, <1>5, PowerAssumption
<1> HIDE DEF l
<1>7. PICK done \in BOOLEAN : done = TRUE /\ Reducing(n, done, l)
  BY <1>1
<1> QED
  BY <1>1, <1>6, <1>7, ReducingEffect

\* and one that reduces: its limit is not below what the hardware takes, and the
\* reduction is smaller than that.
LEMMA FasterEffect ==
    ASSUME InSync, PowerInv, Delta < MinPower, NEW n \in Node, SampleFaster(n)
    PROVE  LeafEffect(n)
<1> DEFINE l == limit[n] - trial_delta[n]
<1>1. /\ Reducing(n, FALSE, l) /\ UNCHANGED target_met /\ ~out_of_bounds[n]
  BY DEF SampleFaster, MayReduce
<1>2. Begun(n) /\ Noticed(n) /\ (limit[n] < MinPower => out_of_bounds[n])
  BY <1>1, ReducingBegun
<1>3. trial_delta[n] \in MinDelta .. Delta
  BY DEF PowerInv, LeafShapes
<1>4. cap[n] \in Nat /\ limit[n] \in 1 .. cap[n] /\ limit[n] >= MinPower
  BY <1>1, <1>2, PowerAssumption DEF Begun
<1>5. l \in Int /\ l \in 1 .. cap[n]
  BY <1>3, <1>4, PowerAssumption
<1> HIDE DEF l
<1>6. PICK done \in BOOLEAN : done = FALSE /\ Reducing(n, done, l)
  BY <1>1
<1> QED
  BY <1>1, <1>5, <1>6, ReducingEffect

\* All that a leaf does.
LEMMA LeafStepEffect ==
    ASSUME ~Endpoint, Delta < MinPower, InSync, PowerInv, NEW n \in Node, LeafStep(n)
    PROVE  LeafEffect(n)
<1>1. ~OutOfSync(n)
  BY TreeFacts, NotOutOfSync
<1> QED
  BY <1>1, AdjustResetEffect, AdjustAdvanceEffect, AdjustAgainEffect, NothingEffect,
     AtTargetEffect, SlowerEffect, FasterEffect
     DEF LeafStep, StepCompletes

-----------------------------------------------------------------------------
(* The invariant is kept by the leaves.                                    *)

\* The sum over one leaf.
LEMMA SlackOfLeaf ==
    ASSUME NEW n \in Node, Given[n] \in Int
    PROVE  SlackUnder(n) = Given[n]
<1>1. IsFiniteSet({n}) /\ {n} \ {n} = {}
  BY FS_Singleton
<1>2. SumOver(Given, {n}) = Given[n] + SumOver(Given, {})
  BY <1>1, SumSplit
<1>3. SumOver(Given, {}) = 0
  BY SumEmpty
<1>4. SlackUnder(n) = SumOver(Given, {n})
  BY UnderLeaf DEF SlackUnder
<1> QED
  BY <1>2, <1>3, <1>4

\* What covers a role that keeps its leaves' caps and limits still does.
LEMMA StillCovers ==
    ASSUME NEW a \in Role, NEW m, Covers(m, a),
           \A n \in Under(a) : cap'[n] = cap[n] /\ limit'[n] = limit[n]
    PROVE  /\ m.slack = SumOver(Given', Under(a))
           /\ m.headroom \in Nat
           /\ \A n \in Under(a) : limit'[n] + m.headroom <= MaxPower
<1>1. Under(a) \in SUBSET Node /\ IsFiniteSet(Under(a))
  BY TreeAssumption, FS_Subset DEF Under
<1>2. \A n \in Under(a) : Given[n] = Given'[n]
  BY <1>1 DEF Given
<1>3. SumOver(Given, Under(a)) = SumOver(Given', Under(a))
  BY <1>1, <1>2, SumSame
<1> QED
  BY <1>3 DEF Covers, SlackUnder

\* When the root hands out a policy, all the leaves have begun, and those that
\* wait for it have completed the step before.
LEMMA RootBegun ==
    ASSUME InSync, PowerInv, root_policy # NoPolicy, root_policy.step >= 1, NEW n \in Node
    PROVE  /\ step[n] \in Nat
           /\ step[n] = root_policy.step - 1 => complete[n]
<1>1. /\ root_cap # NaN /\ step[Root] \in Nat /\ step[n] \in Int
      /\ root_policy.step = IF complete[Root] THEN step[Root] + 1 ELSE step[Root]
  BY TreeFacts DEF InSync, PowerInv, RootInSync, Shapes
<1>2. CASE complete[Root]
  <2>1. Root \in Above(n)
    BY UnderRoot DEF Under
  <2> QED
    BY <1>1, <1>2, <2>1, TreeFacts, DoneBelow DEF DoneSpreads
<1>3. CASE ~complete[Root]
  <2>1. InStep(n)
    BY TreeFacts, AllInStep
  <2> QED
    BY <1>1, <1>3, <2>1 DEF InStep
<1> QED
  BY <1>2, <1>3

\* The samples after a turn of a leaf.
LEMMA LeafKeepsSamples ==
    ASSUME InSync, InSync', PowerInv, NEW n \in Node, LeafEffect(n), NEW a \in Role \ {Root}
    PROVE  SamplePower(a)'
<1> DEFINE m == sample_box'[a]
<1> SUFFICES ASSUME m # NoSample, m.step = step'[a], ReduceLimit(m.step)
             PROVE  /\ m.slack = SumOver(Given', Under(a))
                    /\ m.headroom \in Nat
                    /\ \A k \in Under(a) : limit'[k] + m.headroom <= MaxPower
  BY DEF SamplePower, Covers, SlackUnder
<1>1. Shapes /\ LinkInSync(a) /\ SamplePower(a) /\ Honest(a) /\ n \in Role
  BY TreeFacts DEF InSync, PowerInv, LinkInSync
<1>2. step'[a] \in Nat /\ complete'[a]
  BY DEF InSync, LinkInSync, Honest
<1>3. ASSUME sample_box[a] = m PROVE step[a] = step'[a] /\ complete[a] /\ Covers(m, a)
  <2>1. m.step <= step[a] /\ (m.step = step[a] => complete[a])
    BY <1>1, <1>3 DEF Honest
  <2>2. step[a] = step'[a]
    <3>1. CASE a # n
      BY <3>1 DEF LeafEffect
    <3>2. CASE a = n
      <4>1. step[a] \in Int
        BY <1>1 DEF Shapes
      <4> QED
        BY <1>2, <2>1, <3>2, <4>1 DEF LeafEffect, Starts, Advances, Stays
    <3> QED
      BY <3>1, <3>2
  <2> QED
    BY <1>1, <1>3, <2>1, <2>2 DEF SamplePower
<1>4. CASE sample_box[a] = m
  <2>1. ASSUME NEW k \in Under(a) PROVE cap'[k] = cap[k] /\ limit'[k] = limit[k]
    <3>1. k \in Node /\ k \in Role /\ a \in Above(k)
      BY TreeFacts DEF Under
    <3>2. step[k] = step[a] /\ complete[k]
      BY <1>1, <1>2, <1>3, <1>4, <3>1, DoneBelow DEF DoneSpreads
    <3>3. step'[k] = step'[a]
      BY <1>2, <3>1, DoneBelowNext DEF DoneSpreads
    <3>4. CASE k # n
      BY <3>1, <3>4 DEF LeafEffect
    <3>5. CASE k = n
      <4>1. step'[n] = step[n] /\ step[n] \in Nat
        BY <1>2, <1>3, <1>4, <3>2, <3>3, <3>5
      <4>2. Stays(n)
        BY <4>1 DEF LeafEffect, Starts, Advances
      <4>3. ReduceLimit(step[n])
        BY <1>3, <1>4, <3>2, <3>5
      <4> QED
        BY <3>2, <3>5, <4>2, <4>3 DEF Stays
    <3> QED
      BY <3>4, <3>5
  <2> QED
    BY <1>3, <1>4, <2>1, StillCovers
<1>5. CASE sample_box[a] # m
  <2>1. /\ a = n /\ complete'[n]
        /\ m = [step |-> step'[n], slack |-> slack'[n], headroom |-> headroom'[n]]
    BY <1>1, <1>5 DEF LeafEffect, Tells, Shapes
  <2>2. Begun(n)'
    BY <1>2, <2>1 DEF LeafEffect, LeafPower
  <2>3. /\ m.slack = cap'[n] - limit'[n] /\ m.headroom = MaxPower - limit'[n]
        /\ cap'[n] \in 1 .. MaxPower /\ limit'[n] \in 1 .. cap'[n]
    BY <2>1, <2>2 DEF Begun
  <2>4. Under(a) = {n}
    BY <2>1, UnderLeaf
  <2>5. Given'[n] = cap'[n] - limit'[n] /\ Given'[n] \in Int
    BY <2>3 DEF Given
  <2>6. SumOver(Given', {n}) = Given'[n]
    <3>1. IsFiniteSet({n}) /\ {n} \ {n} = {}
      BY FS_Singleton
    <3>2. SumOver(Given', {n}) = Given'[n] + SumOver(Given', {})
      BY <2>5, <3>1, SumSplit
    <3> QED
      BY <2>5, <3>2, SumEmpty
  <2> HIDE DEF m
  <2> QED
    BY <2>3, <2>4, <2>5, <2>6, PowerAssumption
<1> QED
  BY <1>4, <1>5

\* What the root may hand out after a turn of a leaf.
LEMMA LeafKeepsShares ==
    ASSUME InSync, PowerInv, NEW n \in Node, LeafEffect(n)
    PROVE  RootPower'
<1>1. UNCHANGED root_policy
  BY DEF LeafEffect
<1> SUFFICES ASSUME root_policy # NoPolicy, root_policy.step >= 1
             PROVE  /\ \A k \in Node : Waiting(k)' => limit'[k] + root_policy.slack <= MaxPower
                    /\ SumOver(Share', Node) <= Cardinality(Node) * FileBudget
  BY <1>1 DEF PowerInv, RootPower
<1>2. /\ \A k \in Node : Waiting(k) => limit[k] + root_policy.slack <= MaxPower
      /\ SumOver(Share, Node) <= Cardinality(Node) * FileBudget
  BY DEF PowerInv, RootPower
<1>3. ASSUME NEW k \in Node
      PROVE  /\ Waiting(k)' => Waiting(k) /\ limit'[k] = limit[k]
             /\ Share'[k] = Share[k]
  <2>1. step[k] \in Nat /\ (step[k] = root_policy.step - 1 => complete[k]) /\ k \in Role
    BY RootBegun, TreeFacts
  <2>2. CASE k # n
    <3>1. step'[k] = step[k] /\ cap'[k] = cap[k] /\ limit'[k] = limit[k]
      BY <2>1, <2>2 DEF LeafEffect
    <3> QED
      BY <1>1, <3>1 DEF Waiting, Share
  <2>3. CASE k = n /\ Stays(n)
    <3>1. step'[k] = step[k] /\ cap'[k] = cap[k]
      BY <2>3 DEF Stays
    <3>2. ASSUME Waiting(k) PROVE limit'[k] = limit[k]
      <4>1. step[k] = root_policy.step - 1 /\ SendDownLimit(root_policy.step)
        BY <3>2 DEF Waiting
      <4>2. root_policy.step = step[k] + 1
        <5>1. step[Root] \in Int /\ root_policy.step \in Int
          BY DEF InSync, PowerInv, RootInSync
        <5> QED
          BY <4>1, <5>1
      <4>3. SendDownLimit(step[k] + 1)
        BY <4>1, <4>2
      <4>4. ReduceLimit(step[k])
        BY <2>1, <4>3 DEF SendDownLimit, ReduceLimit
      <4> QED
        BY <2>1, <2>3, <4>1, <4>4 DEF Stays
    <3> QED
      BY <1>1, <3>1, <3>2 DEF Waiting, Share
  <2>4. CASE k = n /\ Advances(n)
    <3>1. step'[k] = step[k] + 1 /\ root_policy.step = step'[k]
          /\ cap'[k] = IF SendDownLimit(step'[k]) THEN limit[k] + root_policy.slack ELSE cap[k]
      BY <2>4 DEF Advances
    <3>2. ~Waiting(k)'
      BY <1>1, <2>1, <3>1 DEF Waiting
    <3>3. Waiting(k) <=> SendDownLimit(step'[k])
      BY <2>1, <3>1 DEF Waiting
    <3> QED
      BY <3>1, <3>2, <3>3 DEF Share
  <2>5. ~Starts(n)
    BY <2>1, RootBegun DEF Starts
  <2> QED
    BY <2>2, <2>3, <2>4, <2>5 DEF LeafEffect
<1>4. SumOver(Share', Node) = SumOver(Share, Node)
  BY <1>3, TreeAssumption, SumSame
<1> QED
  BY <1>2, <1>3, <1>4

\* All together.
LEMMA LeafKeepsPower ==
    ASSUME InSync, InSync', PowerInv, NEW n \in Node, LeafEffect(n)
    PROVE  PowerInv'
<1>1. LeafShapes' /\ \A m \in Node : LeafPower(m)'
  BY DEF LeafEffect
<1>2. UNCHANGED <<policy_box, root_policy, root_cap>>
  BY DEF LeafEffect
<1>3. ASSUME NEW a \in Role \ {Root} PROVE PolicyPower(a)'
  BY <1>2 DEF PowerInv, PolicyPower
<1>4. ASSUME NEW a \in Role \ {Root} PROVE SamplePower(a)'
  BY LeafKeepsSamples
<1>5. RootPower'
  BY LeafKeepsShares
<1>6. (root_cap = NaN => root_policy = NoPolicy)'
  BY <1>2 DEF PowerInv
<1> QED
  BY <1>1, <1>3, <1>4, <1>5, <1>6 DEF PowerInv

-----------------------------------------------------------------------------
(* The invariant holds at first, and what keeps the leaves keeps most of it. *)

\* Nobody has a cap at first.
LEMMA InitPower == Init => PowerInv
<1> SUFFICES ASSUME Init PROVE PowerInv
  OBVIOUS
<1>1. LeafShapes
  <2>1. Delta \in MinDelta .. Delta
    BY PowerAssumption
  <2>2. trial_delta \in [Node -> MinDelta .. Delta]
    BY <2>1 DEF Init
  <2> QED
    BY <2>2 DEF Init, LeafShapes
<1>2. ASSUME NEW n \in Node PROVE LeafPower(n)
  <2>1. turn[n] # <<"sample", n>>
    BY DEF Init, Start, DownTo
  <2>2. step[n] = -1
    BY TreeFacts DEF Init
  <2> QED
    BY <2>1, <2>2 DEF Init, LeafPower, NotBegun
<1>3. ASSUME NEW a \in Role \ {Root} PROVE SamplePower(a) /\ PolicyPower(a)
  BY DEF Init, SamplePower, PolicyPower
<1>4. RootPower /\ root_policy = NoPolicy
  BY DEF Init, RootPower
<1> QED
  BY <1>1, <1>2, <1>3, <1>4 DEF PowerInv

\* A step of a tree role or of the root.
LeavesKept ==
    /\ UNCHANGED leafVars
    /\ \A n \in Node : /\ step'[n] = step[n] /\ complete'[n] = complete[n]
                       /\ turn'[n] = <<"sample", n>> => turn[n] = <<"sample", n>>
\* It keeps what the leaves have under their caps.
LEMMA KeptPower ==
    ASSUME PowerInv, LeavesKept
    PROVE  /\ LeafShapes' /\ \A n \in Node : LeafPower(n)'
           /\ \A a \in Role : SlackUnder(a)' = SlackUnder(a)
           /\ UNCHANGED <<cap, limit>>
<1>1. UNCHANGED <<cap, limit, actual, target_met, trial_delta, out_of_bounds, slack,
                  headroom, clipped>>
  BY DEF LeavesKept, leafVars
<1>2. LeafShapes'
  BY <1>1 DEF PowerInv, LeafShapes
<1>3. ASSUME NEW n \in Node PROVE LeafPower(n)'
  <2>1. LeafPower(n)
    BY DEF PowerInv
  <2>2. /\ step'[n] = step[n] /\ complete'[n] = complete[n]
        /\ turn'[n] = <<"sample", n>> => turn[n] = <<"sample", n>>
    BY DEF LeavesKept
  <2> QED
    BY <1>1, <2>1, <2>2, SameLeaf
<1>4. Given' = Given
  BY <1>1 DEF Given
<1>5. ASSUME NEW a \in Role PROVE SlackUnder(a)' = SlackUnder(a)
  BY <1>4 DEF SlackUnder
<1> QED
  BY <1>1, <1>2, <1>3, <1>5

\* A sample that is still there.
LEMMA KeptSample ==
    ASSUME PowerInv, LeavesKept, NEW a \in Role \ {Root},
           sample_box'[a] \in {sample_box[a], NoSample}, step'[a] = step[a]
    PROVE  SamplePower(a)'
<1>1. SamplePower(a) /\ SlackUnder(a)' = SlackUnder(a) /\ UNCHANGED limit
  BY KeptPower DEF PowerInv
<1> QED
  BY <1>1 DEF SamplePower, Covers

\* What the root may hand out.
LEMMA KeptShares ==
    ASSUME PowerInv, LeavesKept, UNCHANGED <<root_policy, root_cap>>
    PROVE  RootPower' /\ (root_cap = NaN => root_policy = NoPolicy)'
<1>1. UNCHANGED <<cap, limit>> /\ \A n \in Node : step'[n] = step[n]
  BY KeptPower DEF LeavesKept
<1>2. \A n \in Node : Waiting(n)' <=> Waiting(n)
  BY <1>1 DEF Waiting
<1>3. Share' = Share
  BY <1>1, <1>2 DEF Share
<1> QED
  BY <1>1, <1>2, <1>3 DEF PowerInv, RootPower

-----------------------------------------------------------------------------
(* Policies go down.                                                       *)

\* A role that sends one down keeps the leaves.
LEMMA DescendKeeps ==
    ASSUME InSync, NEW t \in Tree, Descending(t),
           \/ UNCHANGED <<step, complete>>
           \/ \E s, done : /\ step' = [step EXCEPT ![t] = s]
                           /\ complete' = complete \/ complete' = [complete EXCEPT ![t] = done]
    PROVE  /\ LeavesKept /\ UNCHANGED sample_box
           /\ \A a \in Role \ {t} : step'[a] = step[a]
<1>1. Shapes /\ t \in Role /\ \A n \in Node : n # t /\ n \in Role
  BY TreeFacts, TreeAssumption DEF InSync
<1>2. UNCHANGED leafVars
  BY DEF Descending
<1>3. UNCHANGED sample_box /\ \A n \in Node : turn'[n] = <<"sample", n>> => turn[n] = <<"sample", n>>
  BY <1>1, DescendingFrame
<1>4. \A a \in Role \ {t} : step'[a] = step[a] /\ complete'[a] = complete[a]
  BY <1>1 DEF Shapes
<1> QED
  BY <1>1, <1>2, <1>3, <1>4 DEF LeavesKept

\* A tree role passes on what it has received, slack included.
LEMMA TreeDescendPower ==
    ASSUME InSync, PowerInv, NEW t \in Tree, TreeDescend(t)
    PROVE  PowerInv'
<1> DEFINE p == Received(t)
<1>1. /\ t # Root /\ Descending(t) /\ SendDown(t, p)
      /\ policy_box[t] # NoPolicy /\ complete[t] /\ p.step # step[t]
      /\ step' = [step EXCEPT ![t] = p.step] /\ complete' = [complete EXCEPT ![t] = FALSE]
      /\ UNCHANGED <<root_policy, root_cap>>
  BY DEF TreeDescend, HasNewStep, Arrived
<1>2. Shapes /\ t \in Role \ {Root} /\ LinkInSync(t) /\ PolicyPower(t)
  BY <1>1, TreeFacts DEF InSync, PowerInv
<1>3. Sent(t)
  BY <1>1, <1>2 DEF LinkInSync, Unsent
<1>4. LeavesKept /\ UNCHANGED sample_box /\ \A a \in Role \ {t} : step'[a] = step[a]
  BY <1>1, DescendKeeps
<1>5. /\ p.step = policy_box[t].step /\ p.slack = policy_box[t].slack
      /\ p.step = step[Parent[t]] /\ p.step \in Nat
  <2>1. /\ policy_box[t].step = step[Parent[t]] /\ step[Parent[t]] \in Nat
    BY <1>3 DEF Sent, PolicyOf
  <2>2. policy_box[t].slack # NaN
    BY <1>1, <1>2 DEF PolicyPower, NaN
  <2>3. p.slack = policy_box[t].slack
    BY <1>1, <2>2 DEF Received, Validated
  <2> QED
    BY <1>2, <1>3, <2>1, <2>3, SentReceives
<1> HIDE DEF p
<1>6. ASSUME NEW a \in Role \ {Root} PROVE SamplePower(a)'
  <2>1. CASE a # t
    BY <1>4, <2>1, KeptSample
  <2>2. CASE a = t
    <3>1. step[t] = p.step - 1 /\ step'[t] = p.step
      BY <1>1, <1>2, <1>3, <1>5 DEF Sent, Shapes
    <3>2. sample_box[t] = NoSample \/ (sample_box[t].step \in Nat /\ sample_box[t].step <= step[t])
      BY <1>2 DEF LinkInSync, Honest
    <3> QED
      BY <1>4, <1>5, <2>2, <3>1, <3>2 DEF SamplePower
  <2> QED
    BY <2>1, <2>2
<1>7. ASSUME NEW a \in Role \ {Root} PROVE PolicyPower(a)'
  <2>1. PolicyPower(a)
    BY DEF PowerInv
  <2>2. policy_box'[a] = IF Parent[a] = t THEN p ELSE policy_box[a]
    BY <1>1 DEF SendDown
  <2> QED
    BY <1>1, <1>2, <1>5, <2>1, <2>2 DEF PolicyPower
<1> QED
  BY <1>1, <1>4, <1>6, <1>7, KeptPower, KeptShares DEF PowerInv

\* A role that has nothing to send.
LEMMA WaitPower ==
    ASSUME InSync, PowerInv, NEW t \in Tree, TreeWaits(t) \/ (t = Root /\ RootWaits)
    PROVE  PowerInv'
<1>1. Descending(t) /\ UNCHANGED <<policy_box, step, complete, root_policy, root_cap>>
  BY DEF TreeWaits, RootWaits, roleVars
<1>2. LeavesKept /\ UNCHANGED sample_box
  BY <1>1, DescendKeeps
<1>3. ASSUME NEW a \in Role \ {Root} PROVE SamplePower(a)'
  BY <1>1, <1>2, KeptSample
<1>4. ASSUME NEW a \in Role \ {Root} PROVE PolicyPower(a)'
  BY <1>1 DEF PowerInv, PolicyPower
<1> QED
  BY <1>1, <1>2, <1>3, <1>4, KeptPower, KeptShares DEF PowerInv

\* The root begins with no slack to hand out.
LEMMA RootRestartsPower ==
    ASSUME ~Endpoint, InSync, PowerInv, RootRestarts
    PROVE  PowerInv'
<1> DEFINE first == [cap |-> FileBudget, step |-> 0, slack |-> 0]
<1>1. /\ Descending(Root) /\ root_cap' = FileBudget
      /\ root_policy' = first /\ SendDown(Root, first)
      /\ step' = [step EXCEPT ![Root] = 0] /\ UNCHANGED complete
  BY RootReceives DEF RootRestarts
<1>2. LeavesKept /\ UNCHANGED sample_box /\ \A a \in Role \ {Root} : step'[a] = step[a]
  BY <1>1, DescendKeeps, TreeAssumption
<1>3. ASSUME NEW a \in Role \ {Root} PROVE SamplePower(a)'
  BY <1>2, KeptSample
<1>4. ASSUME NEW a \in Role \ {Root} PROVE PolicyPower(a)'
  <2>1. PolicyPower(a)
    BY DEF PowerInv
  <2>2. policy_box'[a] = IF Parent[a] = Root THEN first ELSE policy_box[a]
    BY <1>1 DEF SendDown
  <2> QED
    BY <1>1, <2>1, <2>2 DEF PolicyPower
<1>5. RootPower' /\ (root_cap = NaN => root_policy = NoPolicy)'
  BY <1>1, PowerAssumption DEF RootPower, NaN
<1> QED
  BY <1>2, <1>3, <1>4, <1>5, KeptPower DEF PowerInv

\* What it sends later it has prepared.
LEMMA RootAdvancesPower ==
    ASSUME ~Endpoint, InSync, PowerInv, RootAdvances
    PROVE  PowerInv'
<1>1. /\ Descending(Root) /\ root_policy.step = step[Root] + 1
      /\ step' = [step EXCEPT ![Root] = step[Root] + 1]
      /\ complete' = [complete EXCEPT ![Root] = FALSE]
      /\ SendDown(Root, root_policy) /\ UNCHANGED <<root_policy, root_cap>>
  BY DEF RootAdvances, MayAdvance
<1>2. LeavesKept /\ UNCHANGED sample_box /\ \A a \in Role \ {Root} : step'[a] = step[a]
  BY <1>1, DescendKeeps, TreeAssumption
<1>3. root_policy.step \in Nat \ {0} /\ root_policy.slack \in Nat
  <2>1. step[Root] \in Nat
    BY BoundsAssumption DEF InSync, RootInSync
  <2>2. root_policy # NoPolicy
    BY <1>1, <2>1 DEF NoPolicy, NaN
  <2> QED
    BY <1>1, <2>1, <2>2 DEF PowerInv, RootPower
<1>4. ASSUME NEW a \in Role \ {Root} PROVE SamplePower(a)'
  BY <1>2, KeptSample
<1>5. ASSUME NEW a \in Role \ {Root} PROVE PolicyPower(a)'
  <2>1. PolicyPower(a)
    BY DEF PowerInv
  <2>2. policy_box'[a] = IF Parent[a] = Root THEN root_policy ELSE policy_box[a]
    BY <1>1 DEF SendDown
  <2> QED
    BY <1>1, <1>3, <2>1, <2>2 DEF PolicyPower
<1> QED
  BY <1>1, <1>2, <1>4, <1>5, KeptPower, KeptShares DEF PowerInv

-----------------------------------------------------------------------------
(* Samples go up.                                                          *)

\* The roles below a role are finitely many, and there is one.
LEMMA ChildrenFacts ==
    ASSUME NEW t \in Tree
    PROVE  IsFiniteSet(Children(t)) /\ Children(t) # {}
<1>1. IsFiniteSet(Role)
  BY TreeAssumption, FS_Union DEF Role
<1>2. Children(t) \in SUBSET Role
  BY DEF Children
<1> QED
  BY <1>1, <1>2, FS_Subset, LevelAssumption

\* aggregate_sample() adds the slacks up.
LEMMA TotalIsSum ==
    ASSUME NEW t \in Tree
    PROVE  Total(t, "slack") = SumOver([a \in Children(t) |-> sample_box[a].slack], Children(t))
<1> DEFINE C == Children(t)
           f == [a \in C |-> sample_box[a].slack]
           P == PartialSums(f, C)
           Solves(g) == g = [T \in SUBSET C |->
                               IF T = {} THEN 0
                               ELSE sample_box[CHOOSE x \in T : TRUE]["slack"]
                                    + g[T \ {CHOOSE x \in T : TRUE}]]
           G == CHOOSE g : Solves(g)
           h == [T \in SUBSET C |-> P[T]]
<1>1. Total(t, "slack") = G[C]
  BY DEF Total, MapThenSumSet, MapThenFoldSet
<1>2. IsFiniteSet(C)
  BY ChildrenFacts
<1>3. \A T \in SUBSET C : SumsAt(f, P, T)
  <2> HIDE DEF C, f
  <2> QED
    BY <1>2, PartialSumsAt
<1> HIDE DEF P
<1>4. Solves(h)
  <2>1. ASSUME NEW T \in SUBSET C
        PROVE  h[T] = IF T = {} THEN 0
                      ELSE sample_box[CHOOSE x \in T : TRUE]["slack"]
                           + h[T \ {CHOOSE x \in T : TRUE}]
    <3>1. T # {} => (CHOOSE x \in T : TRUE) \in C
      OBVIOUS
    <3>2. T \ {CHOOSE x \in T : TRUE} \in SUBSET C
      OBVIOUS
    <3> QED
      BY <1>3, <3>1, <3>2 DEF SumsAt
  <2> QED
    BY <2>1
<1>5. Solves(G)
  <2> HIDE DEF h
  <2> QED
    BY <1>4
<1> HIDE DEF G
<1>6. Solution(f, G, C)
  <2>1. ASSUME NEW T \in SUBSET C PROVE SumsAt(f, G, T)
    <3>1. T # {} => (CHOOSE x \in T : TRUE) \in C
      OBVIOUS
    <3> QED
      BY <1>5, <3>1 DEF SumsAt
  <2> QED
    BY <2>1 DEF Solution
<1>7. G[C] = SumOver(f, C)
  <2> HIDE DEF C, f
  <2> QED
    BY <1>2, <1>6, SumBySolution
<1> QED
  BY <1>1, <1>7

\* It also takes the least headroom, so what it says of the roles below it says of
\* the role.
LEMMA AggregateCovers ==
    ASSUME InSync, PowerInv, NEW t \in Tree, Ascending(t), StepDone(t), ReduceLimit(step[t])
    PROVE  Covers(Aggregate(t), t)
<1> DEFINE C == Children(t)
           S == Under(t)
           sums == [a \in C |-> sample_box[a].slack]
           part == [a \in C |-> Under(a)]
           H == {sample_box[a]["headroom"] : a \in C}
<1>1. /\ step[t] \in Nat
      /\ \A a \in C : step[a] = step[t] /\ complete[a] /\ sample_box[a] # NoSample
                      /\ sample_box[a].step = step[t]
  BY DoneByAll
<1>2. IsFiniteSet(C) /\ C # {} /\ C \in SUBSET (Role \ {Root})
  BY ChildrenFacts DEF Children
<1>3. \A a \in C : Covers(sample_box[a], a)
  BY <1>1, <1>2 DEF PowerInv, SamplePower
<1>4. S = UNION {Under(a) : a \in C} /\ S \in SUBSET Node /\ IsFiniteSet(S)
  <2>1. S \in SUBSET Node
    BY DEF Under
  <2> QED
    BY <2>1, UnderTree, TreeAssumption, FS_Subset
<1>5. ASSUME NEW n \in S PROVE Given[n] \in Int /\ limit[n] \in Int
  <2>1. n \in Node /\ n \in Role
    BY <1>4, TreeFacts
  <2>2. PICK a \in C : a \in Above(n)
    BY <1>4 DEF Under
  <2>3. step[n] = step[t]
    BY <1>1, <1>2, <2>1, <2>2, DoneBelow DEF DoneSpreads
  <2>4. Begun(n)
    BY <1>1, <2>1, <2>3 DEF PowerInv, LeafPower
  <2>5. cap[n] \in Int /\ limit[n] \in Int
    BY <2>4 DEF Begun
  <2> QED
    BY <2>1, <2>5 DEF Given
<1>6. Aggregate(t).slack = SlackUnder(t)
  <2>1. Aggregate(t).slack = SumOver(sums, C)
    BY TotalIsSum DEF Aggregate
  <2>2. part \in [C -> SUBSET S]
    BY <1>4
  <2>3. \A a, b \in C : a # b => part[a] \cap part[b] = {}
    BY UnderOne
  <2>4. \A a \in C : sums[a] = SumOver(Given, part[a])
    BY <1>3 DEF Covers, SlackUnder
  <2>5. UNION {part[a] : a \in C} = S
    BY <1>4
  <2> HIDE DEF sums, part, S, C
  <2>6. SumOver(sums, C) = SumOver(Given, UNION {part[a] : a \in C})
    BY <1>2, <1>4, <1>5, <2>2, <2>3, <2>4, SumOfParts
  <2> QED
    BY <2>1, <2>5, <2>6 DEF SlackUnder, S
<1>7. Aggregate(t).headroom \in Nat /\ \A a \in C : Aggregate(t).headroom <= sample_box[a].headroom
  <2>1. \A a \in C : sample_box[a].headroom \in Nat
    BY <1>3 DEF Covers
  <2>2. H \in SUBSET Nat /\ H # {} /\ \A a \in C : sample_box[a].headroom \in H
    BY <1>2, <2>1
  <2>3. Aggregate(t).headroom = Min(H)
    BY DEF Aggregate, Least
  <2> HIDE DEF H
  <2>4. PICK m \in H : \A k \in H : m <= k
    BY <2>2, LeastOf
  <2>5. Min(H) \in H /\ \A k \in H : Min(H) <= k
    BY <2>4 DEF Min
  <2> QED
    BY <2>2, <2>3, <2>5
<1>8. ASSUME NEW n \in S PROVE limit[n] + Aggregate(t).headroom <= MaxPower
  <2>1. PICK a \in C : n \in Under(a)
    BY <1>4
  <2>2. limit[n] + sample_box[a].headroom <= MaxPower /\ sample_box[a].headroom \in Nat
    BY <1>3, <2>1 DEF Covers
  <2>3. Aggregate(t).headroom \in Nat /\ Aggregate(t).headroom <= sample_box[a].headroom
    BY <1>7
  <2>4. limit[n] \in Int /\ MaxPower \in Int
    BY <1>5, PowerAssumption
  <2> QED
    BY <2>2, <2>3, <2>4
<1> QED
  BY <1>6, <1>7, <1>8 DEF Covers

\* A role on the way up keeps the leaves.
LEMMA AscendKeeps ==
    ASSUME InSync, NEW t \in Tree, Ascending(t),
           complete' = complete \/ complete' = [complete EXCEPT ![t] = TRUE]
    PROVE  LeavesKept /\ UNCHANGED <<policy_box, step, root_cap>>
<1>1. Shapes /\ t \in Role /\ \A n \in Node : n # t /\ n \in Role
  BY TreeFacts, TreeAssumption DEF InSync
<1>2. UNCHANGED leafVars
  BY DEF Ascending
<1>3. /\ UNCHANGED <<policy_box, step, root_cap>>
      /\ \A n \in Node : turn'[n] = <<"sample", n>> => turn[n] = <<"sample", n>>
  BY AscendingFrame
<1>4. \A n \in Node : complete'[n] = complete[n]
  BY <1>1 DEF Shapes
<1> QED
  BY <1>2, <1>3, <1>4 DEF LeavesKept

\* A step that is not done,
LEMMA AscendNothingPower ==
    ASSUME InSync, PowerInv, NEW t \in Tree, AscendNothing(t)
    PROVE  PowerInv'
<1>1. /\ Ascending(t) /\ UNCHANGED <<complete, root_policy>>
      /\ sample_box' = sample_box \/ sample_box' = Consumed(t)
  BY DEF AscendNothing
<1>2. LeavesKept /\ UNCHANGED <<policy_box, step, root_cap>>
  BY <1>1, AscendKeeps
<1>3. ASSUME NEW a \in Role \ {Root} PROVE SamplePower(a)'
  <2>1. sample_box'[a] \in {sample_box[a], NoSample}
    BY <1>1 DEF Consumed
  <2> QED
    BY <1>2, <2>1, KeptSample
<1>4. ASSUME NEW a \in Role \ {Root} PROVE PolicyPower(a)'
  BY <1>1, <1>2 DEF PowerInv, PolicyPower
<1> QED
  BY <1>1, <1>2, <1>3, <1>4, KeptPower, KeptShares DEF PowerInv

\* one that is,
LEMMA TreeAscendPower ==
    ASSUME InSync, PowerInv, NEW t \in Tree, TreeAscend(t)
    PROVE  PowerInv'
<1> DEFINE total == Aggregate(t)
<1>1. /\ t # Root /\ Ascending(t) /\ StepDone(t)
      /\ complete' = [complete EXCEPT ![t] = TRUE]
      /\ sample_box' = [Consumed(t) EXCEPT ![t] = total]
      /\ UNCHANGED root_policy
  BY DEF TreeAscend, StepIsDone
<1>2. LeavesKept /\ UNCHANGED <<policy_box, step, root_cap>> /\ t \in Role \ {Root}
  BY <1>1, AscendKeeps, TreeFacts
<1>3. ASSUME NEW a \in Role \ {Root} PROVE SamplePower(a)'
  <2>1. CASE a # t
    <3>1. sample_box'[a] \in {sample_box[a], NoSample}
      BY <1>1, <2>1 DEF Consumed
    <3> QED
      BY <1>2, <3>1, KeptSample
  <2>2. CASE a = t
    <3>1. sample_box'[t] = total
      BY <1>1, <1>2 DEF Consumed
    <3>2. ReduceLimit(step[t]) => Covers(total, t)
      BY <1>1, AggregateCovers
    <3>3. SlackUnder(t)' = SlackUnder(t) /\ UNCHANGED limit
      BY <1>2, KeptPower
    <3> HIDE DEF total
    <3> QED
      BY <1>2, <2>2, <3>1, <3>2, <3>3 DEF SamplePower, Covers
  <2> QED
    BY <2>1, <2>2
<1>4. ASSUME NEW a \in Role \ {Root} PROVE PolicyPower(a)'
  BY <1>1, <1>2 DEF PowerInv, PolicyPower
<1> QED
  BY <1>1, <1>2, <1>3, <1>4, KeptPower, KeptShares DEF PowerInv

\* and the step of the root, which all the leaves have completed: they have no more
\* than the budget under their caps.
LEMMA CapsUnderBudget ==
    ASSUME InSync, PowerInv, Ascending(Root), StepDone(Root), root_policy.step = step[Root]
    PROVE  /\ step[Root] \in Nat /\ root_cap # NaN /\ root_policy.slack \in Nat
           /\ \A n \in Node : step[n] = step[Root] /\ complete[n] /\ Begun(n)
           /\ SumOver(cap, Node) <= Cardinality(Node) * FileBudget
<1>1. /\ step[Root] \in Nat /\ root_cap # NaN
      /\ \A a \in Children(Root) : step[a] = step[Root] /\ complete[a]
  BY DoneByAll, TreeAssumption
<1>2. ASSUME NEW n \in Node PROVE step[n] = step[Root] /\ complete[n] /\ Begun(n)
  <2>1. n \in Role /\ n \in UNION {Under(a) : a \in Children(Root)}
    BY UnderRoot, UnderTree, TreeFacts, TreeAssumption
  <2>2. PICK a \in Children(Root) : a \in Above(n)
    BY <2>1 DEF Under
  <2>3. a \in Role
    BY DEF Children
  <2>4. step[n] = step[a] /\ complete[n]
    BY <1>1, <2>1, <2>2, <2>3, DoneBelow DEF DoneSpreads
  <2> QED
    BY <1>1, <2>2, <2>4 DEF PowerInv, LeafPower
<1>3. root_policy # NoPolicy /\ root_policy.step # -1
  BY <1>1 DEF NoPolicy, NaN
<1>4. SumOver(cap, Node) <= Cardinality(Node) * FileBudget
  <2>1. CASE step[Root] = 0
    <3>1. \A n \in Node : cap[n] = FileBudget
      BY <1>2, <2>1 DEF InSync, LeafInSync
    <3>2. FileBudget \in Int /\ Cardinality(Node) \in Nat
      BY PowerAssumption, TreeAssumption, FS_CardinalityType
    <3>3. SumOver(cap, Node) = Cardinality(Node) * FileBudget
      BY <3>1, <3>2, TreeAssumption, SumConstant
    <3>4. Cardinality(Node) * FileBudget \in Int
      BY <3>2
    <3> QED
      BY <3>3, <3>4
  <2>2. CASE step[Root] # 0
    <3>1. SumOver(Share, Node) <= Cardinality(Node) * FileBudget
      BY <1>1, <1>3, <2>2 DEF PowerInv, RootPower
    <3>2. \A n \in Node : Share[n] = cap[n]
      BY <1>1, <1>2 DEF Share, Waiting
    <3>3. SumOver(Share, Node) = SumOver(cap, Node)
      BY <3>2, TreeAssumption, SumSame
    <3> QED
      BY <3>1, <3>3
  <2> QED
    BY <2>1, <2>2
<1> QED
  BY <1>1, <1>2, <1>3, <1>4 DEF PowerInv, RootPower

\* A share of the slack, for as many nodes as there are, is no more than the slack.
LEMMA QuotientFits ==
    ASSUME NEW N \in Nat \ {0}, NEW T \in Nat
    PROVE  T \div N \in Nat /\ N * (T \div N) <= T
  OBVIOUS

\* What the root prepares: of the slack of all, every node gets as much, and no more
\* than it has room for.
LEMMA SlackIsShared ==
    ASSUME InSync, PowerInv, Ascending(Root), StepDone(Root), root_policy.step = step[Root],
           ReduceLimit(step[Root]),
           NEW d, d = MinOf(Aggregate(Root).slack \div Cardinality(Node), Aggregate(Root).headroom)
    PROVE  /\ d \in Nat /\ \A n \in Node : limit[n] + d <= MaxPower
           /\ SumOver([n \in Node |-> limit[n] + d], Node) <= Cardinality(Node) * FileBudget
<1> DEFINE N == Cardinality(Node)
           total == Aggregate(Root)
           raised == [n \in Node |-> limit[n] + d]
           same == [n \in Node |-> d]
           none == [n \in Node |-> 0]
<1>1. /\ \A n \in Node : Begun(n)
      /\ SumOver(cap, Node) <= N * FileBudget
  BY CapsUnderBudget
<1>2. ASSUME NEW n \in Node
      PROVE  /\ cap[n] \in Int /\ limit[n] \in Int /\ Given[n] \in Nat
             /\ cap[n] = limit[n] + Given[n]
  <2>1. cap[n] \in Nat /\ limit[n] \in 1 .. cap[n]
    BY <1>1 DEF Begun
  <2> QED
    BY <2>1 DEF Given
<1>3. N \in Nat \ {0} /\ IsFiniteSet(Node)
  <2>1. Node # {}
    BY TreeFacts, TreeAssumption
  <2> QED
    BY <2>1, TreeAssumption, FS_CardinalityType, FS_EmptySet
<1>4. /\ total.slack = SumOver(Given, Node) /\ total.headroom \in Nat
      /\ \A n \in Node : limit[n] + total.headroom <= MaxPower
  BY AggregateCovers, UnderRoot, TreeAssumption DEF Covers, SlackUnder
<1>5. SumOver(Given, Node) \in Nat
  <2>1. SumOver(none, Node) = N * 0
    BY <1>3, SumConstant
  <2>2. SumOver(none, Node) <= SumOver(Given, Node)
    <3>1. \A n \in Node : none[n] \in Int /\ Given[n] \in Int /\ none[n] <= Given[n]
      BY <1>2
    <3> HIDE DEF none
    <3> QED
      BY <1>3, <3>1, SumMonotone
  <2>3. SumOver(Given, Node) \in Int
    BY <1>2, <1>3, SumInt
  <2> QED
    BY <1>3, <2>1, <2>2, <2>3
<1>6. d \in Nat /\ N * d <= SumOver(Given, Node) /\ d <= total.headroom
  <2>1. PICK q \in Nat : q = total.slack \div N /\ N * q <= SumOver(Given, Node)
    BY <1>3, <1>4, <1>5, QuotientFits
  <2>2. d = MinOf(q, total.headroom)
    BY <2>1
  <2>3. d \in Nat /\ d <= q /\ d <= total.headroom
    BY <1>4, <2>2 DEF MinOf
  <2>4. N * d <= N * q
    BY <1>3, <2>3
  <2>5. N * d \in Int /\ N * q \in Int
    BY <1>3, <2>3
  <2> QED
    BY <1>5, <2>1, <2>3, <2>4, <2>5
<1>7. ASSUME NEW n \in Node PROVE limit[n] + d <= MaxPower
  BY <1>2, <1>4, <1>6, PowerAssumption
<1>8. SumOver(cap, Node) = SumOver(limit, Node) + SumOver(Given, Node)
  BY <1>2, <1>3, SumAdd
<1>9. SumOver(raised, Node) = SumOver(limit, Node) + N * d
  <2>1. \A n \in Node : limit[n] \in Int /\ same[n] \in Int /\ raised[n] = limit[n] + same[n]
    BY <1>2, <1>6
  <2>2. \A n \in Node : same[n] = d
    OBVIOUS
  <2> HIDE DEF same, raised
  <2>3. SumOver(raised, Node) = SumOver(limit, Node) + SumOver(same, Node)
    BY <1>3, <2>1, SumAdd
  <2>4. SumOver(same, Node) = N * d
    BY <1>3, <1>6, <2>2, SumConstant
  <2> QED
    BY <2>3, <2>4
<1>10. SumOver(limit, Node) \in Int /\ N * d \in Int /\ N * FileBudget \in Int
  <2>1. SumOver(limit, Node) \in Int
    BY <1>2, <1>3, SumInt
  <2> QED
    BY <1>3, <1>6, <2>1, PowerAssumption
<1>11. SumOver(raised, Node) <= N * FileBudget
  BY <1>1, <1>5, <1>6, <1>8, <1>9, <1>10
<1> QED
  BY <1>6, <1>7, <1>11

\* All leaves wait for it: nobody has more than a share.
LEMMA RootAscendPower ==
    ASSUME InSync, PowerInv, RootAscend
    PROVE  PowerInv'
<1> DEFINE s == step[Root]
           d == MinOf(Aggregate(Root).slack \div Cardinality(Node), Aggregate(Root).headroom)
<1>1. /\ Ascending(Root) /\ StepDone(Root) /\ root_policy.step = s
      /\ complete' = [complete EXCEPT ![Root] = TRUE]
      /\ sample_box' = Consumed(Root)
      /\ root_policy'.step = s + 1
      /\ root_policy'.slack = IF ReduceLimit(s) THEN d ELSE root_policy.slack
  BY DEF RootAscend, StepIsDone
<1>2. LeavesKept /\ UNCHANGED <<policy_box, step, root_cap>> /\ Root \in Role
  BY <1>1, AscendKeeps, TreeFacts, TreeAssumption
<1>3. /\ s \in Nat /\ root_cap # NaN /\ root_policy.slack \in Nat
      /\ \A n \in Node : step[n] = s /\ cap[n] \in Int /\ cap[n] <= MaxPower
      /\ SumOver(cap, Node) <= Cardinality(Node) * FileBudget
  <2>1. \A n \in Node : Begun(n) => cap[n] \in Int /\ cap[n] <= MaxPower
    BY PowerAssumption DEF Begun
  <2> QED
    BY <1>1, <2>1, CapsUnderBudget
<1>4. ReduceLimit(s) =>
        /\ d \in Nat /\ \A n \in Node : limit[n] + d <= MaxPower
        /\ SumOver([n \in Node |-> limit[n] + d], Node) <= Cardinality(Node) * FileBudget
  BY <1>1, SlackIsShared
<1> HIDE DEF d
<1>5. SendDownLimit(s + 1) <=> ReduceLimit(s)
  BY <1>3 DEF SendDownLimit, ReduceLimit
<1>6. UNCHANGED <<cap, limit>> /\ \A n \in Node : step'[n] = s
  BY <1>2, <1>3, KeptPower
<1>7. \A n \in Node : Waiting(n)' <=> ReduceLimit(s)
  BY <1>1, <1>3, <1>5, <1>6 DEF Waiting
<1>8. RootPower'
  <2>1. CASE ReduceLimit(s)
    <3>1. Share' = [n \in Node |-> limit[n] + d]
      BY <1>1, <1>6, <1>7, <2>1 DEF Share
    <3> QED
      BY <1>1, <1>4, <1>6, <2>1, <3>1 DEF RootPower
  <2>2. CASE ~ReduceLimit(s)
    <3>1. Share' = [n \in Node |-> cap[n]]
      BY <1>6, <1>7, <2>2 DEF Share
    <3>2. SumOver(Share', Node) = SumOver(cap, Node)
      BY <3>1, TreeAssumption, SumSame
    <3> QED
      BY <1>1, <1>3, <1>7, <2>2, <3>2 DEF RootPower
  <2> QED
    BY <2>1, <2>2
<1>9. ASSUME NEW a \in Role \ {Root} PROVE SamplePower(a)'
  <2>1. sample_box'[a] \in {sample_box[a], NoSample}
    BY <1>1 DEF Consumed
  <2> QED
    BY <1>2, <2>1, KeptSample
<1>10. ASSUME NEW a \in Role \ {Root} PROVE PolicyPower(a)'
  <2>1. PolicyPower(a) /\ LinkInSync(a)
    BY DEF PowerInv, InSync
  <2>2. ASSUME policy_box[a] # NoPolicy PROVE policy_box[a].step # s + 1
    <3>1. policy_box[a].step = step[Parent[a]]
      BY <2>1, <2>2 DEF LinkInSync, Unsent, Sent, PolicyOf
    <3>2. InStep(Parent[a])
      BY TreeFacts, AllInStep
    <3> QED
      BY <1>3, <3>1, <3>2 DEF InStep
  <2> QED
    BY <1>1, <1>2, <2>1, <2>2 DEF PolicyPower
<1> QED
  BY <1>2, <1>3, <1>8, <1>9, <1>10, KeptPower DEF PowerInv

-----------------------------------------------------------------------------
(* The invariant.                                                          *)

\* Nothing else changes a variable of it.
LEMMA StutterPower ==
    ASSUME InSync, PowerInv, UNCHANGED vars
    PROVE  PowerInv'
<1>1. /\ LeavesKept
      /\ UNCHANGED <<policy_box, sample_box, step, root_policy, root_cap>>
  BY DEF vars, loopVars, boxVars, roleVars, LeavesKept
<1>2. ASSUME NEW a \in Role \ {Root} PROVE SamplePower(a)'
  BY <1>1, KeptSample
<1>3. ASSUME NEW a \in Role \ {Root} PROVE PolicyPower(a)'
  BY <1>1 DEF PowerInv, PolicyPower
<1> QED
  BY <1>1, <1>2, <1>3, KeptPower, KeptShares DEF PowerInv

\* With the roles in sync, it is inductive.
LEMMA NextPower ==
    ASSUME ~Endpoint, Delta < MinPower, InSync, InSync', PowerInv, [Next]_vars
    PROVE  PowerInv'
<1>1. ASSUME NEW n \in Node, LeafStep(n) PROVE PowerInv'
  BY <1>1, LeafStepEffect, LeafKeepsPower
<1>2. ASSUME NEW t \in Tree, TreeStep(t) PROVE PowerInv'
  <2>1. ~OutOfSync(t)
    BY TreeFacts, NotOutOfSync
  <2> QED
    BY <1>2, <2>1, TreeDescendPower, WaitPower, AscendNothingPower, TreeAscendPower
       DEF TreeStep
<1>3. ASSUME RootStep PROVE PowerInv'
  BY <1>3, RootRestartsPower, RootAdvancesPower, WaitPower, RootAscendPower,
     RootNotOutOfSync, TreeAssumption
     DEF RootStep
<1>4. ASSUME NEW p \in RmPolicy, WritePolicy(p) PROVE PowerInv'
  BY <1>4 DEF WritePolicy
<1> QED
  BY <1>1, <1>2, <1>3, <1>4, StutterPower DEF Next, LoopOf

\* With a policy file, and trial deltas below the least power of a package, the
\* power that nodes have under their caps is accounted for in every state.
THEOREM PowerAccounted ==
    ~Endpoint /\ Delta < MinPower => (Spec => [](InSync /\ PowerInv))
<1> SUFFICES ASSUME ~Endpoint, Delta < MinPower PROVE Spec => [](InSync /\ PowerInv)
  OBVIOUS
<1>1. Init => InSync /\ PowerInv
  BY InitInSync, InitPower
<1>2. InSync /\ PowerInv /\ [Next]_vars => InSync' /\ PowerInv'
  BY NextInSync, NextPower
<1> QED
  BY <1>1, <1>2, PTL DEF Spec

-----------------------------------------------------------------------------
(* What follows.                                                           *)

\* adjust_platform() never leaves a node with more than its own share, whatever its
\* limit has been through: lowered, backed up or raised by slack.
THEOREM NodesUnderCap ==
    ~Endpoint /\ Delta < MinPower => (Spec => []NodeUnderCap)
<1> SUFFICES ASSUME ~Endpoint, Delta < MinPower PROVE Spec => []NodeUnderCap
  OBVIOUS
<1>1. PowerInv => NodeUnderCap
  BY DEF PowerInv, LeafPower, NotBegun, Begun, NodeUnderCap
<1>2. Spec => [](InSync /\ PowerInv)
  BY PowerAccounted
<1> QED
  BY <1>1, <1>2, PTL

\* The limits that are in force, of nodes that have one.
LEMMA EnforcedInBudget ==
    ASSUME InSync, PowerInv, ~clipped
    PROVE  SumOver(actual, Enforced) <= Cardinality(Enforced) * FileBudget
<1> DEFINE all == [n \in Node |-> FileBudget]
<1>1. Enforced \in SUBSET Node /\ IsFiniteSet(Enforced) /\ Cardinality(Enforced) \in Nat
  BY TreeAssumption, FS_Subset, FS_CardinalityType DEF Enforced
<1>2. ASSUME NEW n \in Enforced PROVE step[n] # -1 /\ Begun(n) /\ actual[n] \in Int
  BY <1>1 DEF PowerInv, LeafPower, NotBegun, Begun, Enforced
<1>3. CASE root_policy # NoPolicy /\ root_policy.step >= 1
  <2>1. ASSUME NEW n \in Node
        PROVE  /\ n \in Enforced /\ actual[n] \in Int /\ Share[n] \in Int
               /\ actual[n] <= Share[n]
    <3>1. /\ step[n] \in Nat /\ (step[n] = root_policy.step - 1 => complete[n])
      BY <1>3, RootBegun
    <3>2. Begun(n) /\ root_policy.slack \in Nat
      BY <1>3, <3>1 DEF PowerInv, LeafPower, RootPower
    <3>3. /\ cap[n] \in 1 .. MaxPower /\ limit[n] \in 1 .. cap[n]
          /\ actual[n] \in MinPower .. MaxPower
          /\ actual[n] <= MaxOf(cap[n], MinPower) /\ ~(cap[n] < MinPower)
      BY <3>2 DEF Begun
    <3>4. /\ cap[n] \in Int /\ limit[n] \in Int /\ actual[n] \in Int
          /\ actual[n] <= cap[n] /\ actual[n] # NaN
      BY <3>3, PowerAssumption DEF MaxOf, NaN
    <3>5. Waiting(n) => actual[n] <= limit[n]
      BY <3>1, <3>2 DEF Waiting, Begun, Noticed
    <3> QED
      BY <3>2, <3>4, <3>5 DEF Share, Enforced
  <2>2. Enforced = Node
    BY <1>1, <2>1
  <2>3. SumOver(actual, Node) <= SumOver(Share, Node)
    BY <2>1, TreeAssumption, SumMonotone
  <2>4. SumOver(actual, Node) \in Int /\ SumOver(Share, Node) \in Int
    BY <2>1, TreeAssumption, SumInt
  <2>5. SumOver(Share, Node) <= Cardinality(Node) * FileBudget
    BY <1>3 DEF PowerInv, RootPower
  <2>6. Cardinality(Node) * FileBudget \in Int
    BY <1>1, <2>2, PowerAssumption
  <2> QED
    BY <2>2, <2>3, <2>4, <2>5, <2>6
<1>4. CASE ~(root_policy # NoPolicy /\ root_policy.step >= 1)
  <2>1. step[Root] = 0
    BY <1>4, BoundsAssumption DEF InSync, PowerInv, RootInSync, NoPolicy, NaN
  <2>2. ASSUME NEW n \in Enforced
        PROVE  /\ actual[n] \in Int /\ all[n] \in Int /\ actual[n] <= all[n]
    <3>1. n \in Node /\ InStep(n) /\ LeafInSync(n)
      BY <1>1, TreeFacts, AllInStep DEF InSync
    <3>2. cap[n] = FileBudget
      BY <1>2, <2>1, <3>1 DEF InStep, LeafInSync
    <3>3. actual[n] <= MaxOf(cap[n], MinPower)
      BY <1>2 DEF Begun
    <3> QED
      BY <1>2, <3>1, <3>2, <3>3, PowerAssumption DEF MaxOf
  <2>3. \A n \in Enforced : all[n] = FileBudget
    BY <1>1
  <2> HIDE DEF all
  <2>4. SumOver(actual, Enforced) <= SumOver(all, Enforced)
    BY <1>1, <2>2, SumMonotone
  <2>5. SumOver(all, Enforced) = Cardinality(Enforced) * FileBudget
    BY <1>1, <2>3, PowerAssumption, SumConstant
  <2> QED
    BY <2>4, <2>5
<1> QED
  BY <1>3, <1>4

\* Nodes that have a limit draw no more than the budget on average: the slack that
\* the root distributes is slack that others have given up.
THEOREM BudgetIsKept ==
    ~Endpoint /\ Delta < MinPower => (Spec => []BudgetKept)
<1> SUFFICES ASSUME ~Endpoint, Delta < MinPower PROVE Spec => []BudgetKept
  OBVIOUS
<1>1. MapThenSumSet(LAMBDA n : actual[n], Enforced) = SumOver(actual, Enforced)
  BY SumIsFold
<1>2. InSync /\ PowerInv => BudgetKept
  BY <1>1, EnforcedInBudget DEF BudgetKept
<1>3. Spec => [](InSync /\ PowerInv)
  BY PowerAccounted
<1> QED
  BY <1>2, <1>3, PTL

-----------------------------------------------------------------------------
(* Types.                                                                  *)

\* What the invariants leave open.  A headroom is never negative: it is what the
\* hardware takes less a limit that it takes.
Typed ==
    /\ turn \in [Node -> {"descend", "adjust", "sample", "ascend"} \X Role]
    /\ rm_policy \in Policy /\ last_policy \in Policy /\ writes \in 0 .. MaxWrites
    /\ slack \in [Node -> Int] /\ headroom \in [Node -> Nat]
    /\ \A a \in Role \ {Root} : sample_box[a].slack \in Int /\ sample_box[a].headroom \in Nat

\* The topmost role of a node is found going up from its leaf,
LEMMA TopIsRole ==
    ASSUME NEW n \in Node
    PROVE  Top(n) \in Role
<1> DEFINE S == {a \in Role : HostOf(a) = n => \E b \in Role : HostOf(b) = n /\ IsTop(b)}
<1>1. Root \in S
  BY TreeFacts DEF IsTop
<1>2. ASSUME NEW a \in Role \ {Root}, Parent[a] \in S PROVE a \in S
  BY <1>2 DEF IsTop
<1> HIDE DEF S
<1>3. n \in S
  BY <1>1, <1>2, TreeInduction, TreeFacts
<1>4. \E b \in Role : HostOf(b) = n /\ IsTop(b)
  BY <1>3, TreeFacts DEF S
<1> QED
  BY <1>4 DEF Top

\* so a controller always has a next turn.
LEMMA TurnsAreTyped ==
    /\ \A n \in Node : Start(n) \in {"descend", "adjust", "sample", "ascend"} \X Role
    /\ \A t \in Tree : DownTo(Below(t)) \in {"descend", "adjust", "sample", "ascend"} \X Role
    /\ \A a \in Role : UpFrom(a) \in {"descend", "adjust", "sample", "ascend"} \X Role
<1>1. \A n \in Node : Start(n) \in {"descend", "adjust", "sample", "ascend"} \X Role
  BY TopIsRole DEF Start, DownTo
<1>2. ASSUME NEW t \in Tree
      PROVE  DownTo(Below(t)) \in {"descend", "adjust", "sample", "ascend"} \X Role
  <2>1. Below(t) \in Children(t)
    BY LevelAssumption DEF Below
  <2>2. Below(t) \in Role
    BY <2>1 DEF Children
  <2> QED
    BY <2>2 DEF DownTo
<1>3. ASSUME NEW a \in Role
      PROVE  UpFrom(a) \in {"descend", "adjust", "sample", "ascend"} \X Role
  <2>1. CASE IsTop(a)
    BY <1>1, <2>1, TreeFacts DEF UpFrom
  <2>2. CASE ~IsTop(a)
    BY <2>2, TreeFacts DEF UpFrom, IsTop
  <2> QED
    BY <2>1, <2>2
<1> QED
  BY <1>1, <1>2, <1>3

\* Everything is of its type at first,
LEMMA InitTyped == Init => Typed
<1> SUFFICES ASSUME Init PROVE Typed
  OBVIOUS
<1>1. turn \in [Node -> {"descend", "adjust", "sample", "ascend"} \X Role]
  BY TurnsAreTyped DEF Init
<1>2. NoPolicy \in Policy
  BY DEF NoPolicy, NaN, Policy
<1>3. writes \in 0 .. MaxWrites
  BY BoundsAssumption DEF Init
<1>4. \A a \in Role \ {Root} : sample_box[a] = NoSample
  BY DEF Init
<1> QED
  BY <1>1, <1>2, <1>3, <1>4 DEF Init, Typed, NoSample

\* after a leaf has adjusted its platform,
LEMMA AdjustTyped ==
    ASSUME InSync, Typed, NEW n \in Node, Adjusting(n)
    PROVE  Typed'
<1>1. /\ turn' = [turn EXCEPT ![n] = <<"sample", n>>]
      /\ UNCHANGED <<rm_policy, last_policy, writes, sample_box, slack, headroom>>
  BY DEF Adjusting, endpointVars, boxVars
<1>2. n \in Role
  BY TreeFacts
<1>3. turn' \in [Node -> {"descend", "adjust", "sample", "ascend"} \X Role]
  BY <1>1, <1>2 DEF Typed
<1> QED
  BY <1>1, <1>3 DEF Typed

\* or sampled,
LEMMA SampleTyped ==
    ASSUME InSync, Typed, NEW n \in Node, NEW done, NEW s \in Int, NEW h \in Nat,
           Sampling(n, done, s, h)
    PROVE  Typed'
<1> DEFINE sample == [step |-> step[n], slack |-> s, headroom |-> h]
<1>1. /\ turn' = [turn EXCEPT ![n] = UpFrom(n)]
      /\ slack' = [slack EXCEPT ![n] = s] /\ headroom' = [headroom EXCEPT ![n] = h]
      /\ sample_box' = IF done THEN [sample_box EXCEPT ![n] = sample] ELSE sample_box
      /\ UNCHANGED <<rm_policy, last_policy, writes>>
  BY DEF Sampling, SendUp, endpointVars
<1>2. UpFrom(n) \in {"descend", "adjust", "sample", "ascend"} \X Role
  BY TurnsAreTyped, TreeFacts
<1>3. turn' \in [Node -> {"descend", "adjust", "sample", "ascend"} \X Role]
  BY <1>1, <1>2 DEF Typed
<1>4. slack' \in [Node -> Int] /\ headroom' \in [Node -> Nat]
  BY <1>1 DEF Typed
<1>5. ASSUME NEW a \in Role \ {Root}
      PROVE  sample_box'[a].slack \in Int /\ sample_box'[a].headroom \in Nat
  <2>1. sample_box'[a] = sample_box[a] \/ sample_box'[a] = sample
    BY <1>1 DEF InSync, Shapes
  <2> QED
    BY <2>1 DEF Typed
<1> QED
  BY <1>1, <1>3, <1>4, <1>5 DEF Typed

\* as the limit that it samples with is one that the hardware takes,
LEMMA LeafTyped ==
    ASSUME InSync, PowerInv, PowerInv', Typed, NEW n \in Node, LeafStep(n), ~OutOfSync(n)
    PROVE  Typed'
<1>1. CASE AdjustReset(n) \/ AdjustAdvance(n) \/ AdjustAgain(n)
  BY <1>1, AdjustTyped DEF AdjustReset, AdjustAdvance, AdjustAgain
<1>2. CASE SampleNothing(n) \/ SampleMeasured(n)
  <2>1. slack[n] \in Int /\ headroom[n] \in Nat
    BY DEF Typed
  <2> QED
    BY <1>2, <2>1, SampleTyped DEF SampleNothing, SampleMeasured
<1>3. ASSUME NEW done, NEW l, Reducing(n, done, l) PROVE Typed'
  <2>1. /\ Sampling(n, done, cap[n] - l, MaxPower - l)
        /\ limit' = [limit EXCEPT ![n] = l] /\ ReduceLimit(step[n])
    BY <1>3 DEF Reducing
  <2>2. Begun(n)
    BY <1>3, ReducingBegun, <2>1 DEF Reducing
  <2>3. step'[n] = step[n] /\ step[n] # -1 /\ limit'[n] = l /\ cap'[n] = cap[n]
    <3>1. limit'[n] = l
      BY <2>1 DEF PowerInv, LeafShapes
    <3>2. UNCHANGED <<step, cap>>
      BY <2>1 DEF Sampling
    <3>3. step[n] # -1
      BY <2>2 DEF PowerInv, LeafPower, NotBegun, Begun, NaN
    <3> QED
      BY <3>1, <3>2, <3>3
  <2>4. Begun(n)'
    BY <2>3 DEF PowerInv, LeafPower
  <2>5. cap[n] \in 1 .. MaxPower /\ l \in 1 .. cap[n]
    BY <2>3, <2>4 DEF Begun
  <2>6. cap[n] - l \in Int /\ MaxPower - l \in Nat
    BY <2>5, PowerAssumption
  <2> QED
    BY <2>1, <2>6, SampleTyped
<1> QED
  BY <1>1, <1>2, <1>3
     DEF LeafStep, StepCompletes, SampleAtTarget, SampleSlower, SampleUnstable, SampleFaster

\* after policies went down,
LEMMA DescendTyped ==
    ASSUME InSync, Typed, NEW t \in Tree, Descending(t)
    PROVE  Typed'
<1>1. /\ turn' = [turn EXCEPT ![Host[t]] = DownTo(Below(t))]
      /\ last_policy' \in {rm_policy, last_policy}
      /\ UNCHANGED <<rm_policy, writes, sample_box, slack, headroom>>
  BY DEF Descending, leafVars
<1>2. turn' \in [Node -> {"descend", "adjust", "sample", "ascend"} \X Role]
  BY <1>1, TurnsAreTyped DEF Typed
<1> QED
  BY <1>1, <1>2 DEF Typed

\* and after samples went up: a sum of integers, and the least of some headrooms.
LEMMA AggregateTyped ==
    ASSUME Typed, NEW t \in Tree
    PROVE  Aggregate(t).slack \in Int /\ Aggregate(t).headroom \in Nat
<1> DEFINE C == Children(t)
           sums == [a \in C |-> sample_box[a].slack]
           H == {sample_box[a]["headroom"] : a \in C}
<1>1. IsFiniteSet(C) /\ C # {} /\ C \in SUBSET (Role \ {Root})
  BY ChildrenFacts DEF Children
<1>2. \A a \in C : sums[a] \in Int
  BY <1>1 DEF Typed
<1>3. Aggregate(t).slack = SumOver(sums, C)
  BY TotalIsSum DEF Aggregate
<1>4. Aggregate(t).headroom = Min(H)
  BY DEF Aggregate, Least
<1>5. H \in SUBSET Nat /\ H # {}
  BY <1>1 DEF Typed
<1> HIDE DEF C, sums, H
<1>6. Aggregate(t).slack \in Int
  BY <1>1, <1>2, <1>3, SumInt
<1>7. PICK m \in H : \A k \in H : m <= k
  BY <1>5, LeastOf
<1>8. Min(H) \in H
  BY <1>7 DEF Min
<1> QED
  BY <1>4, <1>5, <1>6, <1>8

\* Nothing else goes up or into a mailbox.
LEMMA AscendTyped ==
    ASSUME InSync, Typed, NEW t \in Tree, Ascending(t),
           \A a \in Role \ {Root} : sample_box'[a] \in {sample_box[a], NoSample, Aggregate(t)}
    PROVE  Typed'
<1>1. /\ turn' = [turn EXCEPT ![Host[t]] = UpFrom(t)]
      /\ UNCHANGED <<rm_policy, last_policy, writes, slack, headroom>>
  BY DEF Ascending, leafVars, endpointVars
<1>2. turn' \in [Node -> {"descend", "adjust", "sample", "ascend"} \X Role]
  BY <1>1, TurnsAreTyped, TreeFacts DEF Typed
<1>3. ASSUME NEW a \in Role \ {Root}
      PROVE  sample_box'[a].slack \in Int /\ sample_box'[a].headroom \in Nat
  <2>1. CASE sample_box'[a] = sample_box[a]
    BY <2>1 DEF Typed
  <2>2. CASE sample_box'[a] = NoSample
    BY <2>2 DEF NoSample
  <2>3. CASE sample_box'[a] = Aggregate(t)
    BY <2>3, AggregateTyped
  <2> QED
    BY <2>1, <2>2, <2>3
<1> QED
  BY <1>1, <1>2, <1>3 DEF Typed

\* Every step keeps the types.
LEMMA NextTyped ==
    ASSUME ~Endpoint, InSync, PowerInv, PowerInv', Typed, [Next]_vars
    PROVE  Typed'
<1>1. ASSUME NEW n \in Node, LeafStep(n) PROVE Typed'
  BY <1>1, LeafTyped, NotOutOfSync, TreeFacts
<1>2. ASSUME NEW t \in Tree, AscendNothing(t) \/ TreeAscend(t) \/ (t = Root /\ RootAscend)
      PROVE  Typed'
  <2>1. Ascending(t)
    BY <1>2 DEF AscendNothing, TreeAscend, RootAscend, StepIsDone
  <2>2. \/ sample_box' = sample_box \/ sample_box' = Consumed(t)
        \/ sample_box' = [Consumed(t) EXCEPT ![t] = Aggregate(t)]
    BY <1>2 DEF AscendNothing, TreeAscend, RootAscend
  <2>3. ASSUME NEW a \in Role \ {Root}
        PROVE  sample_box'[a] \in {sample_box[a], NoSample, Aggregate(t)}
    BY <2>2 DEF Consumed
  <2> QED
    BY <2>1, <2>3, AscendTyped
<1>3. ASSUME NEW t \in Tree, Descending(t) PROVE Typed'
  BY <1>3, DescendTyped
<1>4. ASSUME NEW t \in Tree, TreeStep(t) PROVE Typed'
  <2>1. ~OutOfSync(t)
    BY TreeFacts, NotOutOfSync
  <2> QED
    BY <1>2, <1>3, <1>4, <2>1 DEF TreeStep, TreeDescend, TreeWaits
<1>5. ASSUME RootStep PROVE Typed'
  BY <1>2, <1>3, <1>5, RootNotOutOfSync, TreeAssumption
     DEF RootStep, RootRestarts, RootAdvances, RootWaits
<1>6. ASSUME NEW p \in RmPolicy, WritePolicy(p) PROVE Typed'
  BY <1>6 DEF WritePolicy
<1>7. ASSUME UNCHANGED vars PROVE Typed'
  BY <1>7 DEF vars, loopVars, endpointVars, boxVars, leafVars, Typed
<1> QED
  BY <1>1, <1>4, <1>5, <1>6, <1>7 DEF Next, LoopOf

\* The types follow from the three invariants.
LEMMA InvariantsGiveTypes ==
    ASSUME InSync, PowerInv, Typed
    PROVE  TypeOK
<1>1. /\ turn \in [Node -> {"descend", "adjust", "sample", "ascend"} \X Role]
      /\ failed \in SUBSET Node
      /\ rm_policy \in Policy /\ last_policy \in Policy /\ writes \in 0 .. MaxWrites
      /\ complete \in [Role -> BOOLEAN]
      /\ trial_delta \in [Node -> MinDelta .. Delta]
      /\ target_met \in [Node -> BOOLEAN] /\ out_of_bounds \in [Node -> BOOLEAN]
      /\ clipped \in BOOLEAN
      /\ slack \in [Node -> Int] /\ headroom \in [Node -> Int]
  BY DEF Typed, InSync, Shapes, PowerInv, LeafShapes
<1>2. \A s : BudgetAt(s) \in Int
  BY PowerAssumption DEF BudgetAt
<1>3. NoPolicy \in Policy /\ NoSample \in Sample
  BY DEF NoPolicy, NaN, Policy, NoSample, Sample
<1>4. ASSUME NEW a \in Role \ {Root} PROVE policy_box[a] \in Policy
  <2>1. LinkInSync(a) /\ PolicyPower(a)
    BY DEF InSync, PowerInv
  <2>2. CASE Sent(a)
    <3>1. step[Parent[a]] \in Nat /\ PolicyOf(step[Parent[a]], policy_box[a])
      BY <2>2 DEF Sent
    <3>2. policy_box[a] # NoPolicy
      BY <2>2, SentReceives
    <3> QED
      BY <1>2, <2>1, <3>1, <3>2 DEF PolicyPower, PolicyOf, Policy
  <2> QED
    BY <1>3, <2>1, <2>2 DEF LinkInSync, Unsent
<1>5. ASSUME NEW a \in Role \ {Root} PROVE sample_box[a] \in Sample
  <2>1. LinkInSync(a) /\ sample_box[a].slack \in Int /\ sample_box[a].headroom \in Nat
    BY DEF InSync, Typed
  <2> QED
    BY <1>3, <2>1 DEF LinkInSync, Honest, Sample
<1>6. policy_box \in [Role \ {Root} -> Policy] /\ sample_box \in [Role \ {Root} -> Sample]
  BY <1>4, <1>5 DEF InSync, Shapes
<1>7. ASSUME NEW a \in Role PROVE step[a] \in -1 .. MaxStep
  <2>1. InStep(a)
    BY AllInStep
  <2>2. step[a] \in Int /\ step[Root] \in 0 .. MaxStep
    BY DEF InSync, RootInSync, Shapes
  <2> QED
    BY <2>1, <2>2, BoundsAssumption DEF InStep
<1>8. step \in [Role -> -1 .. MaxStep]
  BY <1>7 DEF InSync, Shapes
<1>9. root_policy \in Policy
  <2>1. CASE root_policy = NoPolicy
    BY <1>3, <2>1
  <2>2. CASE root_policy # NoPolicy
    <3>1. root_cap # NaN /\ root_policy.slack \in Nat
      BY <2>2 DEF PowerInv, RootPower
    <3>2. root_policy.step \in Int /\ PolicyOf(root_policy.step, root_policy)
      BY <3>1, BoundsAssumption DEF InSync, RootInSync
    <3> QED
      BY <1>2, <3>1, <3>2 DEF PolicyOf, Policy
  <2> QED
    BY <2>1, <2>2
<1>10. root_cap \in {NaN} \cup MinPower .. MaxPower
  BY PowerAssumption DEF InSync, RootInSync
<1>11. ASSUME NEW n \in Node
       PROVE  cap[n] \in Power /\ limit[n] \in Power
              /\ actual[n] \in {NaN} \cup MinPower .. MaxPower
  <2>1. CASE NotBegun(n)
    BY <2>1, PowerAssumption DEF NotBegun, NaN, Power
  <2>2. CASE Begun(n)
    BY <2>2, PowerAssumption DEF Begun, Power
  <2> QED
    BY <2>1, <2>2 DEF PowerInv, LeafPower
<1>12. /\ cap \in [Node -> Power] /\ limit \in [Node -> Power]
       /\ actual \in [Node -> {NaN} \cup MinPower .. MaxPower]
  BY <1>11 DEF InSync, Shapes, PowerInv, LeafShapes
<1> QED
  BY <1>1, <1>6, <1>8, <1>9, <1>10, <1>12 DEF TypeOK

\* Every variable of the tree keeps to its type: steps stay in range, and no cap and
\* no limit that a balancer is given is above what the hardware takes.
THEOREM TypesOfTree ==
    ~Endpoint /\ Delta < MinPower => (Spec => []TypeOK)
<1> SUFFICES ASSUME ~Endpoint, Delta < MinPower PROVE Spec => []TypeOK
  OBVIOUS
<1>1. Init => InSync /\ PowerInv /\ Typed
  BY InitInSync, InitPower, InitTyped
<1>2. InSync /\ PowerInv /\ Typed /\ [Next]_vars => InSync' /\ PowerInv' /\ Typed'
  <2>1. InSync /\ PowerInv /\ [Next]_vars => InSync' /\ PowerInv'
    BY NextInSync, NextPower
  <2> QED
    BY <2>1, NextTyped
<1>3. InSync /\ PowerInv /\ Typed => TypeOK
  BY InvariantsGiveTypes
<1> QED
  BY <1>1, <1>2, <1>3, PTL DEF Spec
===============================================================================
