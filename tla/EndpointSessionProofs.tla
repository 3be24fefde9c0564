-------------------------- MODULE EndpointSessionProofs --------------------------
(***************************************************************************)
(* Proofs about EndpointSession, for any number of jobs, kinds of agent,   *)
(* sizes and openings.                                                     *)
(*                                                                         *)
(* The resource manager and the controllers share only the memory, the     *)
(* names and the host list files, so most of the argument is local: the    *)
(* invariant has parts that only one side can disturb, and two lemmas say  *)
(* what each side leaves alone.                                            *)
(***************************************************************************)
EXTENDS EndpointSession, TLAPS

JobOrNone == Job \cup {NoJob}
RegionOrNone == Region \cup {NoRegion}
CtlPc == {"start", "half attached", "mapped", "attached", "gone"}
Opening == {"open sample", "zero policy", "zero sample"}
OnOpen == {"wait", "sleep", "update", "profile", "policy"}

\* The private state of the resource manager has the types of its C++ members.
ManagerTypes ==
    /\ rm \in RmPc /\ m_is_open \in BOOLEAN /\ m_continue_loop \in BOOLEAN
    /\ m_num_policy \in Counts /\ m_num_sample \in Counts
    /\ call.awaits \in {"nothing", "attach", "detach"}
    /\ agent \in JobOrNone /\ profile_name \in JobOrNone

\* Names and mapped regions are among the regions made so far.
NameTypes ==
    /\ policy_made \in 0 .. MaxOpen /\ sample_made \in 0 .. MaxOpen
    /\ policy_name \in RegionOrNone /\ sample_name \in RegionOrNone
    /\ m_policy_shmem \in RegionOrNone /\ m_sample_shmem \in RegionOrNone

\* What the regions hold.
PolicyTypes ==
    policy_shm \in [Region -> [agent : JobOrNone, profile : JobOrNone, count : Counts]]
SampleTypes ==
    /\ sample_shm \in [Region -> [user : JobOrNone, hosts : JobOrNone, count : Counts]]
    /\ hostlist \subseteq Job

ControllerTypes ==
    /\ agent_of \in [Job -> Kind] /\ job \in Job /\ ctl \in CtlPc
    /\ c_policy \in RegionOrNone /\ c_sample \in RegionOrNone

\* Where the resource manager uses a region it has mapped it.
ManagerMapped ==
    /\ rm = "open sample" => sample_made < MaxOpen
    /\ rm \in Opening => m_policy_shmem # NoRegion /\ ~m_is_open
    /\ rm \in Opening \ {"open sample"} => m_sample_shmem # NoRegion
    /\ rm \in OnOpen => m_is_open
    /\ m_is_open => m_policy_shmem # NoRegion /\ m_sample_shmem # NoRegion

\* And so for the controller.
ControllerMapped ==
    /\ ctl \in {"half attached", "mapped", "attached"} => c_policy # NoRegion
    /\ ctl \in {"mapped", "attached"} => c_sample # NoRegion

\* In the update the sizes are those of the agent that its get_agent() saw.
Sized ==
    /\ result # "wrong size"
    /\ rm \in {"profile", "policy"} =>
         agent # NoJob /\ m_num_policy = NumPolicy[agent_of[agent]]

\* An agent that is shown was announced with its host list, and is that of the
\* job at hand only in the region that its controller has mapped.
ListedIn(r) ==
    LET s == sample_shm[r] IN
      /\ s.user # NoJob /\ s.user \notin unlisted => s.hosts = s.user /\ s.user \in hostlist
      /\ s.user <= job
      /\ s.user = job => ctl = "gone" \/ (ctl = "attached" /\ r = c_sample)
Listed == \A r \in Region : ListedIn(r)

ManagerInv == ManagerTypes /\ NameTypes /\ ManagerMapped
ControllerInv == ControllerTypes /\ ControllerMapped
IInv == ManagerInv /\ ControllerInv /\ PolicyTypes /\ SampleTypes /\ Sized /\ Listed

-----------------------------------------------------------------------------
(* Who leaves what alone.                                                   *)

\* The resource manager does nothing to the controllers and the host lists, and
\* writes the sample region in open() only.
LEMMA ManagerFrame ==
    /\ Manager => UNCHANGED <<agent_of, controller, hostlist>>
    /\ Manager => ZeroSample \/ UNCHANGED sample_shm
    /\ Manager => ZeroPolicy \/ UpdatePolicy \/ UNCHANGED policy_shm
  BY DEF Manager, ManagerStep, OpenPolicy, OpenSample, ZeroPolicy, ZeroSample, ClosePolicy,
         CloseSample, Restart, Wait, WaitPolls, WaitEnds, WaitGoesOn, WaitTimesOut, Stop,
         Reset, UpdateAgent, UpdateProfile, UpdatePolicy, UpdateFindsNone, ReadSample,
         GetHostnames, memory

\* A controller does nothing to the resource manager, the names and the policy.
LEMMA ControllerFrame == Controller => UNCHANGED <<manager, policy_shm, agent_of>>
  BY DEF Controller, AttachPolicy, AttachSample, AttachTimesOut, Announce, AnnounceFails,
         WriteSample, Detach, Crash, NextJob, memory

\* Sizes are sizes of some agent.
LEMMA SizesAreCounts ==
    /\ 0 \in Counts
    /\ \A k \in Kind : NumPolicy[k] \in Counts /\ NumSample[k] \in Counts
  BY DEF Counts

-----------------------------------------------------------------------------
(* The initial states.                                                      *)

\* Nothing is open, mapped, shown or listed at first.
LEMMA InitInv == Init => IInv
<1> SUFFICES ASSUME Init PROVE IInv
  OBVIOUS
<1>1. ManagerInv
  <2>1. ManagerTypes
    BY SizesAreCounts DEF Init, ManagerTypes, NoCall, JobOrNone, RmPc
  <2>2. NameTypes
    BY CountAssumption DEF Init, NameTypes, RegionOrNone
  <2>3. ManagerMapped
    BY DEF Init, ManagerMapped, Opening, OnOpen
  <2> QED
    BY <2>1, <2>2, <2>3 DEF ManagerInv
<1>2. ControllerInv
  BY CountAssumption
     DEF Init, ControllerInv, ControllerTypes, ControllerMapped, RegionOrNone, CtlPc, Job
<1>3. PolicyTypes
  <2>1. NoPolicy \in [agent : JobOrNone, profile : JobOrNone, count : Counts]
    BY SizesAreCounts DEF NoPolicy, JobOrNone
  <2> QED
    BY <2>1 DEF Init, PolicyTypes
<1>4. SampleTypes
  <2>1. NoSample \in [user : JobOrNone, hosts : JobOrNone, count : Counts]
    BY SizesAreCounts DEF NoSample, JobOrNone
  <2> QED
    BY <2>1 DEF Init, SampleTypes
<1>5. Sized
  BY DEF Init, Sized
<1>6. Listed
  BY DEF Init, Listed, ListedIn, NoSample, NoJob
<1> QED
  BY <1>1, <1>2, <1>3, <1>4, <1>5, <1>6 DEF IInv

-----------------------------------------------------------------------------
(* The resource manager.                                                    *)

\* A call that ends leaves nothing behind.
LEMMA EndsClean ==
    ASSUME NEW how, Ends(how)
    PROVE  /\ rm' = "idle" /\ rm' \in RmPc /\ rm' \notin Opening /\ rm' \notin OnOpen
           /\ result' = how /\ call'.awaits = "nothing"
           /\ agent' \in JobOrNone /\ profile_name' \in JobOrNone
  BY DEF Ends, NoCall, JobOrNone, RmPc, Opening, OnOpen

\* The next region is a region, as long as there may be one.
LEMMA NextRegion ==
    ASSUME NEW n \in 0 .. MaxOpen, n < MaxOpen
    PROVE  n + 1 \in 0 .. MaxOpen /\ n + 1 \in RegionOrNone /\ n + 1 # NoRegion
<1>1. MaxOpen \in Nat
  BY CountAssumption
<1> QED
  BY <1>1 DEF Region, RegionOrNone, NoRegion

\* Who is shown in an open endpoint is a job or nobody.
LEMMA ShownIsJob ==
    ASSUME ManagerInv, SampleTypes, m_is_open
    PROVE  Shown \in JobOrNone
<1>1. m_sample_shmem \in Region
  BY DEF ManagerInv, NameTypes, ManagerMapped, RegionOrNone
<1> QED
  BY <1>1 DEF SampleTypes, Shown

\* get_agent() returns a job or nobody, and leaves sizes of an agent.
LEMMA GetAgentTypes ==
    ASSUME ManagerInv, SampleTypes, ControllerTypes, m_is_open, GetAgent
    PROVE  /\ agent' \in JobOrNone /\ m_num_policy' \in Counts /\ m_num_sample' \in Counts
           /\ agent' # NoJob => m_num_policy' = NumPolicy[agent_of[agent']]
<1>1. Shown \in JobOrNone
  BY ShownIsJob
<1>2. Shown # NoJob => agent_of[Shown] \in Kind
  BY <1>1 DEF ControllerTypes, JobOrNone
<1> QED
  BY <1>1, <1>2, SizesAreCounts DEF GetAgent, ManagerInv, ManagerTypes, sizes

\* Its own state keeps its types, and what it uses stays mapped.
LEMMA ManagerKeepsItself ==
    ASSUME ManagerInv, SampleTypes, ControllerTypes, Manager
    PROVE  ManagerInv'
<1> USE DEF ManagerInv
<1>1. CASE OpenPolicy
  <2>1. UNCHANGED <<m_continue_loop, m_num_policy, m_num_sample, sample_made, sample_name,
                    m_sample_shmem, m_is_open>>
    BY <1>1 DEF OpenPolicy, sizes, names, object
  <2>2. rm' \in {"idle", "open sample"} /\ call'.awaits \in {"nothing", "attach", "detach"}
    BY <1>1, EndsClean DEF OpenPolicy, Proceeds, ManagerTypes, local
  <2>3. agent' \in JobOrNone /\ profile_name' \in JobOrNone
    BY <1>1, EndsClean DEF OpenPolicy, Proceeds, ManagerTypes, local
  <2>4. sample_made < MaxOpen /\ m_is_open = FALSE
    BY <1>1 DEF OpenPolicy, ManagerTypes
  <2>5. /\ policy_made' \in 0 .. MaxOpen
        /\ policy_name' \in RegionOrNone /\ m_policy_shmem' \in RegionOrNone
        /\ rm' = "open sample" => m_policy_shmem' # NoRegion
    <3>1. CASE m_policy_shmem # NoRegion /\ Proceeds("open sample") /\ UNCHANGED <<names, object>>
      BY <3>1 DEF NameTypes, names, object
    <3>2. CASE Ends("exists") /\ UNCHANGED <<names, object>>
      BY <3>2, EndsClean DEF NameTypes, names, object
    <3>3. CASE /\ policy_made' = policy_made + 1
               /\ policy_name' = policy_made' /\ m_policy_shmem' = policy_made'
      <4>1. policy_made \in 0 .. MaxOpen /\ policy_made < MaxOpen
        BY <1>1 DEF OpenPolicy, NameTypes
      <4> QED
        BY <3>3, <4>1, NextRegion
    <3> QED
      BY <1>1, <3>1, <3>2, <3>3 DEF OpenPolicy
  <2>6. ManagerTypes'
    BY <2>1, <2>2, <2>3 DEF ManagerTypes, RmPc
  <2>7. NameTypes'
    BY <2>1, <2>5 DEF NameTypes
  <2>8. ManagerMapped'
    BY <2>1, <2>2, <2>4, <2>5 DEF ManagerMapped, Opening, OnOpen
  <2> QED
    BY <2>6, <2>7, <2>8
<1>2. CASE OpenSample
  <2>1. UNCHANGED <<m_continue_loop, m_num_policy, m_num_sample, policy_made, policy_name,
                    m_policy_shmem, m_is_open>>
    BY <1>2 DEF OpenSample, sizes, names, object
  <2>2. rm' \in {"idle", "zero policy"} /\ call'.awaits \in {"nothing", "attach", "detach"}
    BY <1>2, EndsClean DEF OpenSample, Proceeds, ManagerTypes, local
  <2>3. agent' \in JobOrNone /\ profile_name' \in JobOrNone
    BY <1>2, EndsClean DEF OpenSample, Proceeds, ManagerTypes, local
  <2>4. sample_made < MaxOpen /\ m_is_open = FALSE /\ m_policy_shmem # NoRegion
    BY <1>2 DEF OpenSample, ManagerTypes, ManagerMapped, Opening
  <2>5. /\ sample_made' \in 0 .. MaxOpen
        /\ sample_name' \in RegionOrNone /\ m_sample_shmem' \in RegionOrNone
        /\ rm' = "zero policy" => m_sample_shmem' # NoRegion
    <3>1. CASE sample_name # NoRegion
      BY <1>2, <3>1, EndsClean DEF OpenSample, NameTypes, names, object
    <3>2. CASE sample_name = NoRegion
      <4>1. sample_made \in 0 .. MaxOpen
        BY DEF NameTypes
      <4>2. /\ sample_made' = sample_made + 1
            /\ sample_name' = sample_made' /\ m_sample_shmem' = sample_made'
        BY <1>2, <3>2 DEF OpenSample
      <4> QED
        BY <2>4, <4>1, <4>2, NextRegion
    <3> QED
      BY <3>1, <3>2
  <2>6. ManagerTypes'
    BY <2>1, <2>2, <2>3 DEF ManagerTypes, RmPc
  <2>7. NameTypes'
    BY <2>1, <2>5 DEF NameTypes
  <2>8. ManagerMapped'
    BY <2>1, <2>2, <2>4, <2>5 DEF ManagerMapped, Opening, OnOpen
  <2> QED
    BY <2>6, <2>7, <2>8
<1>3. CASE ZeroPolicy
  BY <1>3
     DEF ZeroPolicy, Proceeds, ManagerTypes, NameTypes, ManagerMapped, JobOrNone,
         RegionOrNone, RmPc, Opening, OnOpen, Region, object, sizes, local, names
<1>4. CASE ZeroSample
  BY <1>4, EndsClean, SizesAreCounts, CountAssumption
     DEF ZeroSample, ManagerTypes, NameTypes, ManagerMapped, JobOrNone, RegionOrNone,
         RmPc, Opening, OnOpen, Region, object, sizes, local, names
<1>5. CASE ClosePolicy
  BY <1>5
     DEF ClosePolicy, Proceeds, ManagerTypes, NameTypes, ManagerMapped, JobOrNone,
         RegionOrNone, RmPc, Opening, OnOpen, Region, object, sizes, local, names
<1>6. CASE CloseSample
  BY <1>6, EndsClean
     DEF CloseSample, ManagerTypes, NameTypes, ManagerMapped, JobOrNone,
         RegionOrNone, RmPc, Opening, OnOpen, Region, object, sizes, local, names
<1>7. CASE Restart
  BY <1>7, EndsClean, SizesAreCounts, CountAssumption
     DEF Restart, ManagerTypes, NameTypes, ManagerMapped, JobOrNone, RegionOrNone,
         RmPc, Opening, OnOpen, Region, object, sizes, local, names
<1>8. CASE Wait
  BY <1>8, GetAgentTypes
     DEF Wait, ManagerTypes, NameTypes, ManagerMapped, JobOrNone, RegionOrNone, RmPc,
         Opening, OnOpen, Region, object, sizes, local, names
<1>9. CASE WaitPolls
  BY <1>9, GetAgentTypes
     DEF WaitPolls, ManagerTypes, NameTypes, ManagerMapped, JobOrNone, RegionOrNone,
         RmPc, Opening, OnOpen, Region, object, sizes, local, names
<1>10. CASE WaitEnds
  <2>1. ManagerTypes'
    BY <1>10, EndsClean
       DEF WaitEnds, Proceeds, ManagerTypes, JobOrNone, RmPc, object, sizes, local,
         NoCall
  <2>2. NameTypes'
    BY <1>10, EndsClean, CountAssumption
       DEF WaitEnds, Proceeds, NameTypes, RegionOrNone, Region, object, names,
         ManagerTypes
  <2>3. ManagerMapped'
    BY <1>10, EndsClean, CountAssumption
       DEF WaitEnds, Proceeds, ManagerMapped, NameTypes, ManagerTypes, Region, Opening,
         OnOpen, object, names
  <2> QED
    BY <2>1, <2>2, <2>3
<1>11. CASE WaitGoesOn
  <2>1. ManagerTypes'
    BY <1>11 DEF WaitGoesOn, Proceeds, ManagerTypes, RmPc, object, sizes, local
  <2>2. NameTypes'
    BY <1>11 DEF WaitGoesOn, NameTypes, object, names
  <2>3. ManagerMapped'
    BY <1>11 DEF WaitGoesOn, Proceeds, ManagerMapped, Opening, OnOpen, object, names
  <2> QED
    BY <2>1, <2>2, <2>3
<1>12. CASE WaitTimesOut
  <2>1. ManagerTypes'
    BY <1>12, EndsClean DEF WaitTimesOut, ManagerTypes, JobOrNone, RmPc, object, sizes
  <2>2. NameTypes'
    BY <1>12 DEF WaitTimesOut, NameTypes, object, names
  <2>3. ManagerMapped'
    BY <1>12, EndsClean DEF WaitTimesOut, ManagerMapped, Opening, OnOpen, object, names
  <2> QED
    BY <2>1, <2>2, <2>3
<1>13. CASE Stop
  <2>1. ManagerTypes'
    BY <1>13 DEF Stop, ManagerTypes, object, sizes, local
  <2>2. NameTypes' /\ ManagerMapped'
    BY <1>13 DEF Stop, NameTypes, ManagerMapped, object, names
  <2> QED
    BY <2>1, <2>2
<1>14. CASE Reset
  <2>1. ManagerTypes'
    BY <1>14 DEF Reset, ManagerTypes, object, sizes, local
  <2>2. NameTypes' /\ ManagerMapped'
    BY <1>14 DEF Reset, NameTypes, ManagerMapped, object, names
  <2> QED
    BY <2>1, <2>2
<1>15. CASE UpdateAgent
  <2>1. m_is_open
    BY <1>15 DEF UpdateAgent, ManagerMapped, OnOpen
  <2>2. /\ agent' \in JobOrNone /\ m_num_policy' \in Counts /\ m_num_sample' \in Counts
    BY <1>15, <2>1, GetAgentTypes DEF UpdateAgent
  <2>3. rm' \in {"idle", "profile"} /\ call'.awaits \in {"nothing", "attach", "detach"}
    <3>1. CASE Shown = NoJob
      BY <1>15, <3>1 DEF UpdateAgent, NoCall
    <3>2. CASE Shown # NoJob
      BY <1>15, <3>2 DEF UpdateAgent, ManagerTypes
    <3> QED
      BY <3>1, <3>2
  <2>4. UNCHANGED <<m_is_open, m_continue_loop, profile_name>>
    BY <1>15 DEF UpdateAgent, object
  <2>5. ManagerTypes'
    BY <2>2, <2>3, <2>4 DEF ManagerTypes, RmPc
  <2>6. NameTypes' /\ ManagerMapped'
    BY <1>15, <2>1, <2>3
       DEF UpdateAgent, NameTypes, ManagerMapped, Opening, OnOpen, object, names
  <2> QED
    BY <2>5, <2>6
<1>16. CASE UpdateProfile
  BY <1>16, ShownIsJob
     DEF UpdateProfile, ManagerTypes, NameTypes, ManagerMapped, JobOrNone,
         RegionOrNone, RmPc, Opening, OnOpen, Region, object, sizes, local, names
<1>17. CASE UpdatePolicy
  <2>1. ManagerTypes'
    BY <1>17, EndsClean
       DEF UpdatePolicy, ManagerTypes, JobOrNone, RmPc, object, sizes, local, NoCall
  <2>2. NameTypes'
    BY <1>17, EndsClean, CountAssumption
       DEF UpdatePolicy, NameTypes, RegionOrNone, Region, object, names, ManagerTypes
  <2>3. ManagerMapped'
    BY <1>17, EndsClean, CountAssumption
       DEF UpdatePolicy, ManagerMapped, NameTypes, ManagerTypes, Region, Opening,
         OnOpen, object, names
  <2> QED
    BY <2>1, <2>2, <2>3
<1>18. CASE UpdateFindsNone
  BY <1>18, EndsClean
     DEF UpdateFindsNone, ManagerTypes, NameTypes, ManagerMapped, JobOrNone,
         RegionOrNone, RmPc, Opening, OnOpen, Region, object, sizes, local, names
<1>19. CASE ReadSample
  BY <1>19, EndsClean
     DEF ReadSample, ManagerTypes, NameTypes, ManagerMapped, JobOrNone, RegionOrNone,
         RmPc, Opening, OnOpen, Region, object, sizes, local, names
<1>20. CASE GetHostnames
  BY <1>20, EndsClean
     DEF GetHostnames, ManagerTypes, NameTypes, ManagerMapped, JobOrNone,
         RegionOrNone, RmPc, Opening, OnOpen, Region, object, sizes, local, names
<1> QED
  BY <1>1, <1>2, <1>3, <1>4, <1>5, <1>6, <1>7, <1>8, <1>9, <1>10, <1>11, <1>12,
         <1>13, <1>14, <1>15, <1>16, <1>17, <1>18, <1>19, <1>20
     DEF Manager, ManagerStep

\* No call leaves the policy with the wrong size: between get_agent() and
\* write_policy() the sizes stay those of the agent that was seen.
LEMMA ManagerKeepsSized ==
    ASSUME ManagerInv, SampleTypes, ControllerTypes, Sized, Manager
    PROVE  Sized'
<1>1. agent_of' = agent_of
  BY ManagerFrame
<1>2. CASE OpenPolicy \/ OpenSample \/ ZeroPolicy \/ ZeroSample \/ ClosePolicy \/ CloseSample
  <2>1. rm' \notin {"profile", "policy"}
    BY <1>2, EndsClean
       DEF OpenPolicy, OpenSample, ZeroPolicy, ZeroSample, ClosePolicy, CloseSample, Proceeds,
           OnOpen
  <2>2. result' \in {result, "exists", "ok"}
    BY <1>2, EndsClean
       DEF OpenPolicy, OpenSample, ZeroPolicy, ZeroSample, ClosePolicy, CloseSample, Proceeds
  <2> QED
    BY <2>1, <2>2 DEF Sized
<1>3. CASE Restart \/ WaitTimesOut \/ UpdateFindsNone \/ ReadSample \/ GetHostnames
  <2>1. rm' = "idle" /\ result' # "wrong size"
    BY <1>3 DEF Restart, WaitTimesOut, UpdateFindsNone, ReadSample, GetHostnames, Ends
  <2> QED
    BY <2>1 DEF Sized
<1>4. CASE Wait \/ WaitPolls \/ WaitEnds \/ WaitGoesOn
  <2>1. rm' \in {"wait", "sleep", "update", "idle"}
    BY <1>4, EndsClean DEF Wait, WaitPolls, WaitEnds, WaitGoesOn, Proceeds
  <2>2. result' \in {result, "none", "ok"}
    BY <1>4, EndsClean DEF Wait, WaitPolls, WaitEnds, WaitGoesOn, Proceeds
  <2> QED
    BY <2>1, <2>2 DEF Sized
<1>5. CASE Stop \/ Reset
  BY <1>1, <1>5 DEF Stop, Reset, Sized, sizes, local
<1>6. CASE UpdateAgent
  <2>1. m_is_open
    BY <1>6 DEF UpdateAgent, ManagerInv, ManagerMapped, OnOpen
  <2>2. agent' = Shown /\ (agent' # NoJob => m_num_policy' = NumPolicy[agent_of[agent']])
    BY <1>6, <2>1, GetAgentTypes DEF UpdateAgent, GetAgent
  <2>3. CASE Shown = NoJob
    BY <1>6, <2>3 DEF UpdateAgent, Sized
  <2>4. CASE Shown # NoJob
    BY <1>1, <1>6, <2>2, <2>4 DEF UpdateAgent, Sized
  <2> QED
    BY <2>3, <2>4
<1>7. CASE UpdateProfile
  BY <1>1, <1>7 DEF UpdateProfile, Sized, sizes
<1>8. CASE UpdatePolicy
  <2>1. NumPolicy[agent_of[agent]] = m_num_policy
    BY <1>8 DEF UpdatePolicy, Sized
  <2>2. rm' = "idle" /\ result' = "ok"
    BY <1>8, <2>1 DEF UpdatePolicy, Ends
  <2> QED
    BY <2>2 DEF Sized
<1> QED
  BY <1>2, <1>3, <1>4, <1>5, <1>6, <1>7, <1>8 DEF Manager, ManagerStep

\* write_policy() writes a policy of its types into a region that is mapped.
LEMMA ManagerKeepsPolicy ==
    ASSUME ManagerInv, PolicyTypes, Manager
    PROVE  PolicyTypes'
<1>1. CASE ZeroPolicy
  <2>1. NoPolicy \in [agent : JobOrNone, profile : JobOrNone, count : Counts]
    BY SizesAreCounts DEF NoPolicy, JobOrNone
  <2> QED
    BY <1>1, <2>1 DEF ZeroPolicy, PolicyTypes
<1>2. CASE UpdatePolicy
  <2>1. [agent |-> agent, profile |-> profile_name, count |-> m_num_policy]
          \in [agent : JobOrNone, profile : JobOrNone, count : Counts]
    BY DEF ManagerInv, ManagerTypes
  <2> QED
    BY <1>2, <2>1 DEF UpdatePolicy, PolicyTypes
<1>3. CASE UNCHANGED policy_shm
  BY <1>3 DEF PolicyTypes
<1> QED
  BY <1>1, <1>2, <1>3, ManagerFrame

\* open() shows nobody in the region it zeroes, and no other call of the
\* resource manager touches what the controllers wrote.
LEMMA ManagerKeepsShown ==
    ASSUME ManagerInv, SampleTypes, ControllerInv, Listed, Manager
    PROVE  SampleTypes' /\ Listed' /\ ControllerInv'
<1>1. UNCHANGED <<agent_of, job, ctl, c_policy, c_sample, unlisted, hostlist>>
  BY ManagerFrame DEF controller
<1>2. ControllerInv'
  BY <1>1 DEF ControllerInv, ControllerTypes, ControllerMapped
<1>3. CASE ZeroSample
  <2>1. NoSample \in [user : JobOrNone, hosts : JobOrNone, count : Counts]
    BY SizesAreCounts DEF NoSample, JobOrNone
  <2>2. SampleTypes'
    BY <1>1, <1>3, <2>1 DEF ZeroSample, SampleTypes
  <2>3. SUFFICES ASSUME NEW r \in Region PROVE ListedIn(r)'
    BY <1>2, <2>2 DEF Listed
  <2>4. ListedIn(r)
    BY DEF Listed
  <2>5. CASE sample_shm'[r] = sample_shm[r]
    BY <1>1, <2>4, <2>5 DEF ListedIn
  <2>6. CASE sample_shm'[r] = NoSample
    <3>1. sample_shm'[r].user = NoJob
      BY <2>6 DEF NoSample
    <3>2. job \in Job
      BY DEF ControllerInv, ControllerTypes
    <3>3. NoJob <= job /\ NoJob # job
      BY <3>2 DEF Job, NoJob
    <3> QED
      BY <1>1, <3>1, <3>3 DEF ListedIn
  <2> QED
    BY <1>3, <2>5, <2>6 DEF ZeroSample, SampleTypes
<1>4. CASE UNCHANGED sample_shm
  BY <1>1, <1>2, <1>4 DEF SampleTypes, Listed, ListedIn
<1> QED
  BY <1>3, <1>4, ManagerFrame

-----------------------------------------------------------------------------
(* The controllers.                                                         *)

\* A controller leaves what the resource manager keeps alone.
LEMMA ControllerLeavesManager ==
    ASSUME ManagerInv, PolicyTypes, Sized, Controller
    PROVE  ManagerInv' /\ PolicyTypes' /\ Sized'
<1>1. UNCHANGED <<rm, object, sizes, m_continue_loop, local, result, names, policy_shm,
                  agent_of>>
  BY ControllerFrame DEF manager
<1>2. ManagerTypes' /\ Sized'
  BY <1>1 DEF ManagerInv, ManagerTypes, Sized, object, sizes, local
<1>3. NameTypes' /\ ManagerMapped'
  BY <1>1 DEF ManagerInv, NameTypes, ManagerMapped, object, names
<1>4. PolicyTypes'
  BY <1>1 DEF PolicyTypes
<1> QED
  BY <1>2, <1>3, <1>4 DEF ManagerInv

\* The controller at hand has mapped what it uses, and the next one begins anew.
LEMMA ControllerKeepsItself ==
    ASSUME ControllerInv, NameTypes, Controller
    PROVE  ControllerInv'
<1> USE DEF ControllerInv
<1>1. agent_of' = agent_of
  BY ControllerFrame
<1>2. CASE AttachPolicy
  BY <1>1, <1>2 DEF AttachPolicy, ControllerTypes, ControllerMapped, NameTypes, CtlPc
<1>3. CASE AttachSample
  BY <1>1, <1>3 DEF AttachSample, ControllerTypes, ControllerMapped, NameTypes, CtlPc
<1>4. CASE AttachTimesOut \/ Announce \/ AnnounceFails \/ Detach \/ Crash
  BY <1>1, <1>4
     DEF AttachTimesOut, Announce, AnnounceFails, Detach, Crash, ControllerTypes,
         ControllerMapped, CtlPc
<1>5. CASE WriteSample
  BY <1>1, <1>5 DEF WriteSample, controller, ControllerTypes, ControllerMapped
<1>6. CASE NextJob
  <2>1. job' \in Job
    <3>1. NumJob \in Nat /\ job \in Job /\ job < NumJob /\ job' = job + 1
      BY <1>6, CountAssumption DEF NextJob, ControllerTypes
    <3> QED
      BY <3>1 DEF Job
  <2>2. ctl' = "start" /\ c_policy' = NoRegion /\ c_sample' = NoRegion
    BY <1>6 DEF NextJob
  <2> QED
    BY <1>1, <2>1, <2>2 DEF ControllerTypes, ControllerMapped, RegionOrNone, CtlPc
<1> QED
  BY <1>2, <1>3, <1>4, <1>5, <1>6 DEF Controller

\* What a controller that has mapped the sample region writes there has the
\* types of the struct.
LEMMA ControllerKeepsSample ==
    ASSUME ControllerInv, SampleTypes, Controller
    PROVE  SampleTypes'
<1>1. job \in Job /\ job \in JobOrNone /\ NoJob \in JobOrNone
  BY DEF ControllerInv, ControllerTypes, JobOrNone
<1>2. CASE Announce
  BY <1>1, <1>2 DEF Announce, SampleTypes
<1>3. CASE AnnounceFails
  BY <1>1, <1>3 DEF AnnounceFails, SampleTypes
<1>4. CASE WriteSample
  <2>1. NumSample[agent_of[job]] \in Counts
    BY <1>1, SizesAreCounts DEF ControllerInv, ControllerTypes
  <2> QED
    BY <1>4, <2>1 DEF WriteSample, SampleTypes
<1>5. CASE Detach
  BY <1>1, <1>5 DEF Detach, SampleTypes
<1>6. CASE UNCHANGED <<sample_shm, hostlist>>
  BY <1>6 DEF SampleTypes
<1>7. AttachPolicy \/ AttachSample \/ AttachTimesOut \/ Crash \/ NextJob
        => UNCHANGED <<sample_shm, hostlist>>
  BY DEF AttachPolicy, AttachSample, AttachTimesOut, Crash, NextJob, memory
<1> QED
  BY <1>2, <1>3, <1>4, <1>5, <1>6, <1>7 DEF Controller

\* Moving on and sampling leave what is shown
\* as it is, and only a controller whose agent is shown nowhere announces it.
LEMMA ControllerKeepsListed ==
    ASSUME ControllerInv, SampleTypes, Listed, Controller
    PROVE  Listed'
<1> SUFFICES ASSUME NEW r \in Region PROVE ListedIn(r)'
  BY DEF Listed
<1>1. ListedIn(r)
  BY DEF Listed
<1>2. job \in Job /\ job \in Nat /\ job # NoJob
  BY DEF ControllerInv, ControllerTypes, Job, NoJob
<1>3. sample_shm[r].user \in JobOrNone
  BY DEF SampleTypes
<1>4. CASE AttachPolicy \/ AttachSample \/ AttachTimesOut
  <2>1. /\ UNCHANGED <<sample_shm, hostlist, unlisted, job>>
        /\ ctl \in {"start", "half attached", "mapped"}
    BY <1>4 DEF AttachPolicy, AttachSample, AttachTimesOut, memory
  <2> QED
    BY <1>1, <2>1 DEF ListedIn
<1>5. CASE Announce
  <2>1. ctl = "mapped" /\ c_sample \in Region
    BY <1>5 DEF Announce, ControllerInv, ControllerTypes, ControllerMapped, RegionOrNone
  <2>2. sample_shm[r].user # job
    BY <1>1, <2>1 DEF ListedIn
  <2>3. /\ ctl' = "attached" /\ hostlist' = hostlist \cup {job}
        /\ UNCHANGED <<unlisted, job, c_sample>>
    BY <1>5 DEF Announce
  <2>4. CASE r = c_sample
    <3>1. sample_shm'[r].user = job /\ sample_shm'[r].hosts = job
      BY <1>5, <2>1, <2>4 DEF Announce, SampleTypes
    <3> QED
      BY <1>2, <2>3, <2>4, <3>1 DEF ListedIn
  <2>5. CASE r # c_sample
    <3>1. sample_shm'[r] = sample_shm[r]
      BY <1>5, <2>5 DEF Announce, SampleTypes
    <3> QED
      BY <1>1, <2>2, <2>3, <3>1 DEF ListedIn
  <2> QED
    BY <2>4, <2>5
<1>6. CASE AnnounceFails
  <2>1. ctl = "mapped" /\ c_sample \in Region
    BY <1>6 DEF AnnounceFails, ControllerInv, ControllerTypes, ControllerMapped, RegionOrNone
  <2>2. sample_shm[r].user # job
    BY <1>1, <2>1 DEF ListedIn
  <2>3. /\ ctl' = "gone" /\ unlisted' = unlisted \cup {job}
        /\ UNCHANGED <<hostlist, job, c_sample>>
    BY <1>6 DEF AnnounceFails
  <2>4. CASE r = c_sample
    <3>1. sample_shm'[r].user = job
      BY <1>6, <2>1, <2>4 DEF AnnounceFails, SampleTypes
    <3> QED
      BY <1>2, <2>3, <3>1 DEF ListedIn
  <2>5. CASE r # c_sample
    <3>1. sample_shm'[r] = sample_shm[r]
      BY <1>6, <2>5 DEF AnnounceFails, SampleTypes
    <3> QED
      BY <1>1, <2>2, <2>3, <3>1 DEF ListedIn
  <2> QED
    BY <2>4, <2>5
<1>7. CASE WriteSample
  <2>1. UNCHANGED <<hostlist, unlisted, job, ctl, c_sample>>
    BY <1>7 DEF WriteSample, controller
  <2>2. sample_shm'[r].user = sample_shm[r].user /\ sample_shm'[r].hosts = sample_shm[r].hosts
    BY <1>7 DEF WriteSample, SampleTypes
  <2> QED
    BY <1>1, <2>1, <2>2 DEF ListedIn
<1>8. CASE Detach
  <2>1. ctl = "attached" /\ c_sample \in Region
    BY <1>8 DEF Detach, ControllerInv, ControllerTypes, ControllerMapped, RegionOrNone
  <2>2. /\ ctl' = "gone" /\ hostlist' = hostlist \ {job}
        /\ UNCHANGED <<unlisted, job, c_sample>>
    BY <1>8 DEF Detach
  <2>3. CASE r = c_sample
    <3>1. sample_shm'[r].user = NoJob
      BY <1>8, <2>1, <2>3 DEF Detach, SampleTypes
    <3>2. NoJob <= job
      BY <1>2 DEF NoJob
    <3> QED
      BY <1>2, <2>2, <3>1, <3>2 DEF ListedIn
  <2>4. CASE r # c_sample
    <3>1. sample_shm'[r] = sample_shm[r]
      BY <1>8, <2>4 DEF Detach, SampleTypes
    <3>2. sample_shm[r].user # job
      BY <1>1, <2>1, <2>4 DEF ListedIn
    <3> QED
      BY <1>1, <2>2, <3>1, <3>2 DEF ListedIn
  <2> QED
    BY <2>3, <2>4
<1>9. CASE Crash
  BY <1>1, <1>9 DEF Crash, memory, ListedIn
<1>10. CASE NextJob
  <2>1. UNCHANGED <<sample_shm, hostlist, unlisted>> /\ job' = job + 1
    BY <1>10 DEF NextJob, memory
  <2>2. sample_shm[r].user \in Nat /\ sample_shm[r].user <= job
    BY <1>1, <1>3 DEF ListedIn, JobOrNone, Job, NoJob
  <2>3. sample_shm[r].user <= job + 1 /\ sample_shm[r].user # job + 1
    BY <1>2, <2>2
  <2> QED
    BY <1>1, <2>1, <2>3 DEF ListedIn
<1> QED
  BY <1>4, <1>5, <1>6, <1>7, <1>8, <1>9, <1>10 DEF Controller

-----------------------------------------------------------------------------
(* The invariant, and what follows from it.                                 *)

\* A step of either side keeps the whole invariant: each side's own lemmas for
\* what it disturbs, the frame lemmas for the rest.
LEMMA NextInv == IInv /\ [Next]_vars => IInv'
<1> SUFFICES ASSUME IInv, [Next]_vars PROVE IInv'
  OBVIOUS
<1> USE DEF IInv
<1>1. CASE Manager
  <2>1. ControllerTypes
    BY DEF ControllerInv
  <2> QED
    BY <1>1, <2>1, ManagerKeepsItself, ManagerKeepsSized, ManagerKeepsPolicy,
       ManagerKeepsShown
<1>2. CASE Controller
  <2>1. NameTypes
    BY DEF ManagerInv
  <2> QED
    BY <1>2, <2>1, ControllerLeavesManager, ControllerKeepsItself, ControllerKeepsSample,
       ControllerKeepsListed
<1>3. CASE UNCHANGED vars
  <2> USE <1>3 DEF vars, object, sizes, local, names, memory, controller
  <2>1. ManagerInv'
    BY DEF ManagerInv, ManagerTypes, NameTypes, ManagerMapped
  <2>2. ControllerInv'
    BY DEF ControllerInv, ControllerTypes, ControllerMapped
  <2>3. PolicyTypes' /\ SampleTypes' /\ Sized'
    BY DEF PolicyTypes, SampleTypes, Sized
  <2>4. Listed'
    BY DEF Listed, ListedIn
  <2> QED
    BY <2>1, <2>2, <2>3, <2>4
<1> QED
  BY <1>1, <1>2, <1>3 DEF Next

\* IInv holds in every reachable state.
LEMMA Invariance == Spec => []IInv
  BY InitInv, NextInv, PTL DEF Spec

\* The members of Endpoint, the names, the struct fields in shared memory and
\* the controller's mappings keep their types, and a region is mapped wherever
\* the code uses one.
THEOREM TypesKept == Spec => []TypeOK
<1>1. IInv => TypeOK
  <2> SUFFICES ASSUME IInv PROVE TypeOK
    OBVIOUS
  <2>1. /\ rm \in RmPc /\ m_is_open \in BOOLEAN /\ m_continue_loop \in BOOLEAN
        /\ m_num_policy \in Counts /\ m_num_sample \in Counts
        /\ call.awaits \in {"nothing", "attach", "detach"}
        /\ agent \in Job \cup {NoJob} /\ profile_name \in Job \cup {NoJob}
    BY DEF IInv, ManagerInv, ManagerTypes, JobOrNone
  <2>2. {m_policy_shmem, m_sample_shmem, policy_name, sample_name, c_policy, c_sample}
          \subseteq Region \cup {NoRegion}
    BY DEF IInv, ManagerInv, NameTypes, ControllerInv, ControllerTypes, RegionOrNone
  <2>3. /\ m_is_open => m_policy_shmem # NoRegion /\ m_sample_shmem # NoRegion
        /\ ctl = "attached" => c_policy # NoRegion /\ c_sample # NoRegion
    BY DEF IInv, ManagerInv, ManagerMapped, ControllerInv, ControllerMapped
  <2>4. /\ \A r \in Region : policy_shm[r].count \in Counts /\ sample_shm[r].count \in Counts
        /\ hostlist \subseteq Job
    BY DEF IInv, PolicyTypes, SampleTypes
  <2> QED
    BY <2>1, <2>2, <2>3, <2>4 DEF TypeOK
<1> QED
  BY <1>1, Invariance, PTL

\* The daemon's update never calls write_policy() with a policy of another size
\* than m_num_policy, however agents attach and detach, restart and crash between
\* its get_agent(), get_profile_name() and write_policy() (Daemon.cpp:77).
THEOREM SizesAlwaysMatch == Spec => []SizesMatch
<1>1. IInv => SizesMatch
  BY DEF IInv, Sized, SizesMatch
<1> QED
  BY <1>1, Invariance, PTL

\* get_hostnames() on an open endpoint finds the host list file of the job whose
\* agent it shows, through every order of attaching, detaching, crashing and
\* reopening: the only jobs without one are those whose mkstemp() failed.
THEOREM HostnamesAlwaysReadable == Spec => []HostnamesReadable
<1>1. IInv => HostnamesReadable
  <2> SUFFICES ASSUME IInv, m_is_open PROVE HostnamesReadable
    BY DEF HostnamesReadable
  <2>1. m_sample_shmem \in Region
    BY DEF IInv, ManagerInv, NameTypes, ManagerMapped, RegionOrNone
  <2>2. ListedIn(m_sample_shmem)
    BY <2>1 DEF IInv, Listed
  <2> QED
    BY <2>2 DEF HostnamesReadable, ListedIn
<1> QED
  BY <1>1, Invariance, PTL

================================================================================
