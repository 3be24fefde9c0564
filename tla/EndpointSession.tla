---------------------------- MODULE EndpointSession ----------------------------
(***************************************************************************)
(* The endpoint as the resource manager and the controllers share it:      *)
(* Endpoint.cpp, EndpointUser.cpp and Daemon.cpp over SharedMemory.cpp.    *)
(*                                                                         *)
(* An endpoint is two regions of shared memory, one for the policy and one *)
(* for the sample, each with a name and a lock.  Removing a name leaves    *)
(* the memory to those who have it mapped, so every creation is a region   *)
(* of its own here, numbered.  What is written under one lock changes in   *)
(* one action; what takes two locks, or one lock twice, takes two.         *)
(*                                                                         *)
(* Jobs run one after the other, and a job's number stands for the agent,  *)
(* profile and host list names that its controller writes.                 *)
(***************************************************************************)
EXTENDS Integers, FiniteSets

CONSTANTS
    NumJob,      \* jobs that run one after the other
    Kind,        \* agents the jobs may choose
    NumPolicy,   \* Agent::num_policy() of an agent
    NumSample,   \* Agent::num_sample() of an agent
    MaxOpen      \* bound on how often the endpoint is opened

Job == 1 .. NumJob
NoJob == 0
Region == 1 .. MaxOpen
NoRegion == 0

ASSUME CountAssumption ==
    /\ NumJob \in Nat \ {0} /\ MaxOpen \in Nat
    /\ NumPolicy \in [Kind -> Nat] /\ NumSample \in [Kind -> Nat]

VARIABLES
    \* the resource manager: an EndpointImp, and the call it is in
    rm,              \* what the calling thread does next
    m_policy_shmem,  \* its mapped regions
    m_sample_shmem,
    m_is_open,
    m_num_policy,
    m_num_sample,
    m_continue_loop,
    call,            \* what is waited for, whether not for ever, what follows
    agent,           \* the local variables agent and profile_name of the call:
    profile_name,    \* the job whose name was read
    result,          \* how the last call ended
    \* shared memory and files
    policy_made,     \* regions created so far
    sample_made,
    policy_name,     \* the region that the name -policy leads to
    sample_name,
    policy_shm,      \* what the regions hold
    sample_shm,
    hostlist,        \* jobs whose host list file exists
    \* the controllers
    agent_of,        \* the agent of a job
    job,             \* the job at hand
    ctl,             \* where its controller is
    c_policy,        \* the regions it has mapped
    c_sample,
    \* history
    crashed,         \* the resource manager ended without closing
    unlisted         \* jobs that could not write their host list

object == <<m_policy_shmem, m_sample_shmem, m_is_open>>
sizes == <<m_num_policy, m_num_sample>>
local == <<call, agent, profile_name>>
names == <<policy_made, sample_made, policy_name, sample_name>>
memory == <<policy_shm, sample_shm, hostlist>>
controller == <<job, ctl, c_policy, c_sample, unlisted>>
vars == <<rm, object, sizes, m_continue_loop, local, result, names, memory,
          agent_of, controller, crashed>>

NoPolicy == [agent |-> NoJob, profile |-> NoJob, count |-> 0]
NoSample == [user |-> NoJob, hosts |-> NoJob, count |-> 0]
NoCall == [awaits |-> "nothing", timed |-> FALSE, update |-> FALSE]

Init ==
    /\ rm = "idle"
    /\ m_policy_shmem = NoRegion /\ m_sample_shmem = NoRegion /\ m_is_open = FALSE
    /\ m_num_policy = 0 /\ m_num_sample = 0 /\ m_continue_loop = TRUE
    /\ call = NoCall /\ agent = NoJob /\ profile_name = NoJob /\ result = "none"
    /\ policy_made = 0 /\ sample_made = 0
    /\ policy_name = NoRegion /\ sample_name = NoRegion
    /\ policy_shm = [r \in Region |-> NoPolicy]
    /\ sample_shm = [r \in Region |-> NoSample]
    /\ hostlist = {}
    /\ agent_of \in [Job -> Kind] /\ job = 1 /\ ctl = "start"
    /\ c_policy = NoRegion /\ c_sample = NoRegion
    /\ crashed = FALSE /\ unlisted = {}

-----------------------------------------------------------------------------
(* The resource manager opens and closes the endpoint.                      *)

Ends(how) ==
    /\ rm' = "idle" /\ result' = how
    /\ call' = NoCall /\ agent' = NoJob /\ profile_name' = NoJob

Proceeds(pc) == rm' = pc /\ UNCHANGED <<local, result>>

\* open() while the endpoint is not open.  A policy region that an earlier,
\* failed open() made is kept.
OpenPolicy ==
    /\ rm = "idle" /\ ~m_is_open /\ policy_made < MaxOpen /\ sample_made < MaxOpen
    /\ \/ /\ m_policy_shmem # NoRegion
          /\ Proceeds("open sample") /\ UNCHANGED <<names, object>>
       \/ /\ m_policy_shmem = NoRegion /\ policy_name # NoRegion
          /\ Ends("exists") /\ UNCHANGED <<names, object>>
       \/ /\ m_policy_shmem = NoRegion /\ policy_name = NoRegion
          /\ policy_made' = policy_made + 1
          /\ policy_name' = policy_made' /\ m_policy_shmem' = policy_made'
          /\ Proceeds("open sample")
          /\ UNCHANGED <<sample_made, sample_name, m_sample_shmem, m_is_open>>
    /\ UNCHANGED <<sizes, m_continue_loop, memory, agent_of, controller, crashed>>

OpenSample ==
    /\ rm = "open sample"
    /\ IF sample_name # NoRegion
       THEN Ends("exists") /\ UNCHANGED <<names, object>>
       ELSE /\ sample_made' = sample_made + 1
            /\ sample_name' = sample_made' /\ m_sample_shmem' = sample_made'
            /\ Proceeds("zero policy")
            /\ UNCHANGED <<policy_made, policy_name, m_policy_shmem, m_is_open>>
    /\ UNCHANGED <<sizes, m_continue_loop, memory, agent_of, controller, crashed>>

ZeroPolicy ==
    /\ rm = "zero policy" /\ Proceeds("zero sample")
    /\ policy_shm' = [policy_shm EXCEPT ![m_policy_shmem] = NoPolicy]
    /\ UNCHANGED <<object, sizes, m_continue_loop, names, sample_shm, hostlist,
                   agent_of, controller, crashed>>

ZeroSample ==
    /\ rm = "zero sample" /\ Ends("ok")
    /\ sample_shm' = [sample_shm EXCEPT ![m_sample_shmem] = NoSample]
    /\ m_is_open' = TRUE
    /\ UNCHANGED <<m_policy_shmem, m_sample_shmem, sizes, m_continue_loop, names,
                   policy_shm, hostlist, agent_of, controller, crashed>>

ClosePolicy ==
    /\ rm = "idle" /\ m_policy_shmem # NoRegion /\ Proceeds("close sample")
    /\ policy_name' = NoRegion
    /\ UNCHANGED <<object, sizes, m_continue_loop, policy_made, sample_made,
                   sample_name, memory, agent_of, controller, crashed>>

\* Mutant: close() does not say that the endpoint is closed.
CloseSampleStaysOpen ==
    /\ rm = "close sample" /\ Ends("ok")
    /\ sample_name' = IF m_sample_shmem = NoRegion THEN sample_name ELSE NoRegion
    /\ m_policy_shmem' = NoRegion /\ m_sample_shmem' = NoRegion
    /\ UNCHANGED <<m_is_open, sizes, m_continue_loop, policy_made, sample_made,
                   policy_name, memory, agent_of, controller, crashed>>

CloseSample ==
    /\ rm = "close sample" /\ Ends("ok")
    /\ sample_name' = IF m_sample_shmem = NoRegion THEN sample_name ELSE NoRegion
    /\ m_policy_shmem' = NoRegion /\ m_sample_shmem' = NoRegion /\ m_is_open' = FALSE
    /\ UNCHANGED <<sizes, m_continue_loop, policy_made, sample_made, policy_name,
                   memory, agent_of, controller, crashed>>

\* The process dies, and another one takes its place: the names stay.
Restart ==
    /\ ~crashed /\ crashed' = TRUE
    /\ m_policy_shmem' = NoRegion /\ m_sample_shmem' = NoRegion /\ m_is_open' = FALSE
    /\ m_num_policy' = 0 /\ m_num_sample' = 0 /\ m_continue_loop' = TRUE
    /\ Ends("none")
    /\ UNCHANGED <<names, memory, agent_of, controller>>

-----------------------------------------------------------------------------
(* The calls on an open endpoint.                                           *)

Shown == sample_shm[m_sample_shmem].user

\* Mutant: the sizes are asked for once
GetAgentSizesOnce ==
    /\ agent' = Shown
    /\ IF Shown = NoJob \/ m_num_policy # 0 THEN UNCHANGED sizes
       ELSE /\ m_num_policy' = NumPolicy[agent_of[Shown]]
            /\ m_num_sample' = NumSample[agent_of[Shown]]

\* get_agent(): the sizes follow the agent that is attached.
GetAgent ==
    /\ agent' = Shown
    /\ IF Shown = NoJob THEN UNCHANGED sizes
       ELSE /\ m_num_policy' = NumPolicy[agent_of[Shown]]
            /\ m_num_sample' = NumSample[agent_of[Shown]]

Reached(awaits, who) == IF awaits = "attach" THEN who # NoJob ELSE who = NoJob

\* wait_for_agent_attach() and wait_for_agent_detach(), by themselves or, the
\* first, in the daemon's update.
Wait ==
    /\ rm = "idle" /\ m_is_open /\ rm' = "wait"
    /\ \E awaits \in {"attach", "detach"}, timed \in BOOLEAN, update \in BOOLEAN :
         /\ update => awaits = "attach"
         /\ call' = [awaits |-> awaits, timed |-> timed, update |-> update]
    /\ GetAgent /\ profile_name' = NoJob /\ result' = "none"
    /\ UNCHANGED <<object, m_continue_loop, names, memory, agent_of, controller, crashed>>

\* The head of the loop: ask again, then sleep.
WaitPolls ==
    /\ rm = "wait" /\ m_continue_loop /\ ~Reached(call.awaits, agent)
    /\ rm' = "sleep" /\ GetAgent
    /\ UNCHANGED <<object, m_continue_loop, call, profile_name, result, names, memory,
                   agent_of, controller, crashed>>

\* Mutant: the loop looks for the agent only
WaitEndsReached ==
    /\ rm = "wait" /\ Reached(call.awaits, agent)
    /\ IF call.update THEN Proceeds("update") ELSE Ends("ok")
    /\ UNCHANGED <<object, sizes, m_continue_loop, names, memory, agent_of, controller,
                   crashed>>

WaitEnds ==
    /\ rm = "wait" /\ (~m_continue_loop \/ Reached(call.awaits, agent))
    /\ IF call.update THEN Proceeds("update") ELSE Ends("ok")
    /\ UNCHANGED <<object, sizes, m_continue_loop, names, memory, agent_of, controller,
                   crashed>>

\* After the sleep the time is looked at before the agent is.
WaitGoesOn ==
    /\ rm = "sleep" /\ Proceeds("wait")
    /\ UNCHANGED <<object, sizes, m_continue_loop, names, memory, agent_of, controller,
                   crashed>>

WaitTimesOut ==
    /\ rm = "sleep" /\ call.timed /\ Ends("timed out")
    /\ UNCHANGED <<object, sizes, m_continue_loop, names, memory, agent_of, controller,
                   crashed>>

\* stop_wait_loop() and reset_wait_loop(), from a signal handler or a thread.
Stop ==
    /\ m_continue_loop' = FALSE
    /\ UNCHANGED <<rm, object, sizes, local, result, names, memory, agent_of, controller,
                   crashed>>

Reset ==
    /\ m_continue_loop' = TRUE
    /\ UNCHANGED <<rm, object, sizes, local, result, names, memory, agent_of, controller,
                   crashed>>

\* Mutant: the update takes the agent that its wait saw
UpdateAgentOfWait ==
    /\ rm = "update"
    /\ IF agent = NoJob
       THEN rm' = "idle" /\ result' = "ok" /\ call' = NoCall
       ELSE rm' = "profile" /\ UNCHANGED <<result, call>>
    /\ UNCHANGED <<object, sizes, m_continue_loop, agent, profile_name, names, memory,
                   agent_of, controller, crashed>>

\* update_endpoint_from_policystore() after its wait.
UpdateAgent ==
    /\ rm = "update" /\ GetAgent
    /\ IF Shown = NoJob
       THEN rm' = "idle" /\ result' = "ok" /\ call' = NoCall
       ELSE rm' = "profile" /\ UNCHANGED <<result, call>>
    /\ UNCHANGED <<object, m_continue_loop, profile_name, names, memory, agent_of,
                   controller, crashed>>

UpdateProfile ==
    /\ rm = "profile" /\ rm' = "policy"
    /\ profile_name' = Shown
    /\ UNCHANGED <<object, sizes, m_continue_loop, call, agent, result, names, memory,
                   agent_of, controller, crashed>>

\* get_best() returns a value for every parameter of the agent, or throws.
UpdatePolicy ==
    /\ rm = "policy"
    /\ IF NumPolicy[agent_of[agent]] # m_num_policy
       THEN Ends("wrong size") /\ UNCHANGED policy_shm
       ELSE /\ policy_shm' = [policy_shm EXCEPT ![m_policy_shmem] =
                 [agent |-> agent, profile |-> profile_name, count |-> m_num_policy]]
            /\ Ends("ok")
    /\ UNCHANGED <<object, sizes, m_continue_loop, names, sample_shm, hostlist,
                   agent_of, controller, crashed>>

UpdateFindsNone ==
    /\ rm = "policy" /\ NumPolicy[agent_of[agent]] # 0 /\ Ends("no policy")
    /\ UNCHANGED <<object, sizes, m_continue_loop, names, memory, agent_of, controller,
                   crashed>>

\* read_sample(), into a vector that the caller sized for an agent it has seen.
\* The sizes are compared after the values were copied.
ReadSample ==
    /\ rm = "idle" /\ m_is_open /\ m_num_sample > 0
    /\ Ends(IF sample_shm[m_sample_shmem].count = m_num_sample THEN "ok" ELSE "mismatch")
    /\ UNCHANGED <<object, sizes, m_continue_loop, names, memory, agent_of, controller,
                   crashed>>

GetHostnames ==
    /\ rm = "idle" /\ m_is_open /\ Shown # NoJob
    /\ Ends(IF sample_shm[m_sample_shmem].hosts \in hostlist THEN "ok" ELSE "no file")
    /\ UNCHANGED <<object, sizes, m_continue_loop, names, memory, agent_of, controller,
                   crashed>>

ManagerStep ==
    \/ OpenSample \/ ZeroPolicy \/ ZeroSample \/ CloseSample
    \/ WaitPolls \/ WaitEnds \/ WaitGoesOn \/ WaitTimesOut
    \/ UpdateAgent \/ UpdateProfile \/ UpdatePolicy \/ UpdateFindsNone

Manager ==
    \/ OpenPolicy \/ ClosePolicy \/ Restart \/ Wait \/ Stop \/ Reset
    \/ ReadSample \/ GetHostnames \/ ManagerStep

-----------------------------------------------------------------------------
(* The controller of the job at hand.                                       *)

manager == <<rm, object, sizes, m_continue_loop, local, result, names, crashed>>

AttachPolicy ==
    /\ ctl = "start" /\ policy_name # NoRegion
    /\ ctl' = "half attached" /\ c_policy' = policy_name
    /\ UNCHANGED <<manager, memory, agent_of, job, c_sample, unlisted>>

AttachSample ==
    /\ ctl = "half attached" /\ sample_name # NoRegion
    /\ ctl' = "mapped" /\ c_sample' = sample_name
    /\ UNCHANGED <<manager, memory, agent_of, job, c_policy, unlisted>>

AttachTimesOut ==
    /\ ctl \in {"start", "half attached"} /\ ctl' = "gone"
    /\ UNCHANGED <<manager, memory, agent_of, job, c_policy, c_sample, unlisted>>

\* Agent, profile and host list, under the lock of the sample region.
Announce ==
    /\ ctl = "mapped" /\ ctl' = "attached"
    /\ sample_shm' = [sample_shm EXCEPT ![c_sample].user = job, ![c_sample].hosts = job]
    /\ hostlist' = hostlist \cup {job}
    /\ UNCHANGED <<manager, policy_shm, agent_of, job, c_policy, c_sample, unlisted>>

\* mkstemp() fails: the agent is announced, and its controller ends.
AnnounceFails ==
    /\ ctl = "mapped" /\ ctl' = "gone"
    /\ sample_shm' = [sample_shm EXCEPT ![c_sample].user = job]
    /\ unlisted' = unlisted \cup {job}
    /\ UNCHANGED <<manager, policy_shm, hostlist, agent_of, job, c_policy, c_sample>>

WriteSample ==
    /\ ctl = "attached"
    /\ sample_shm' = [sample_shm EXCEPT ![c_sample].count = NumSample[agent_of[job]]]
    /\ UNCHANGED <<manager, policy_shm, hostlist, agent_of, controller>>

\* Mutant: the destructor forgets to clear the agent's name
DetachKeepsAgent ==
    /\ ctl = "attached" /\ ctl' = "gone"
    /\ sample_shm' = [sample_shm EXCEPT ![c_sample].hosts = NoJob]
    /\ hostlist' = hostlist \ {job}
    /\ UNCHANGED <<manager, policy_shm, agent_of, job, c_policy, c_sample, unlisted>>

\* The destructor, at the end or after an exception: read_policy() throws one
\* if there are more values than the agent has parameters.
Detach ==
    /\ ctl = "attached" /\ ctl' = "gone"
    /\ sample_shm' = [sample_shm EXCEPT ![c_sample].user = NoJob,
                                        ![c_sample].hosts = NoJob]
    /\ hostlist' = hostlist \ {job}
    /\ UNCHANGED <<manager, policy_shm, agent_of, job, c_policy, c_sample, unlisted>>

Crash ==
    /\ ctl = "attached" /\ ctl' = "gone"
    /\ UNCHANGED <<manager, memory, agent_of, job, c_policy, c_sample, unlisted>>

NextJob ==
    /\ ctl = "gone" /\ job < NumJob
    /\ job' = job + 1 /\ ctl' = "start"
    /\ c_policy' = NoRegion /\ c_sample' = NoRegion
    /\ UNCHANGED <<manager, memory, agent_of, unlisted>>

Controller ==
    \/ AttachPolicy \/ AttachSample \/ AttachTimesOut \/ Announce \/ AnnounceFails
    \/ WriteSample \/ Detach \/ Crash \/ NextJob

Next == Manager \/ Controller

Spec == Init /\ [][Next]_vars

\* A call that has begun is worked off, and the clock of a wait runs out.
FairSpec == Spec /\ WF_vars(ManagerStep) /\ SF_vars(WaitTimesOut)

-----------------------------------------------------------------------------
(* Properties.                                                              *)

RmPc == {"idle", "open sample", "zero policy", "zero sample", "close sample",
         "wait", "sleep", "update", "profile", "policy"}
Counts == {0} \cup {NumPolicy[k] : k \in Kind} \cup {NumSample[k] : k \in Kind}

\* Every variable has a value of its C++ type; an open endpoint has mapped
\* both regions, and a controller that is attached has too.
TypeOK ==
    /\ rm \in RmPc /\ m_is_open \in BOOLEAN /\ m_continue_loop \in BOOLEAN
    /\ m_num_policy \in Counts /\ m_num_sample \in Counts
    /\ call.awaits \in {"nothing", "attach", "detach"}
    /\ agent \in Job \cup {NoJob} /\ profile_name \in Job \cup {NoJob}
    /\ {m_policy_shmem, m_sample_shmem, policy_name, sample_name, c_policy, c_sample}
         \subseteq Region \cup {NoRegion}
    /\ m_is_open => m_policy_shmem # NoRegion /\ m_sample_shmem # NoRegion
    /\ ctl = "attached" => c_policy # NoRegion /\ c_sample # NoRegion
    /\ \A r \in Region : /\ policy_shm[r].count \in Counts
                        /\ sample_shm[r].count \in Counts
    /\ hostlist \subseteq Job

\* write_policy() in the daemon's update never throws for the size of the
\* policy: the size that get_agent() left in m_num_policy is that of the agent
\* the policy was looked up for, whoever attached and detached meanwhile.
SizesMatch == result # "wrong size"

\* get_hostnames() finds the file it is told of, and it is that of the job
\* whose agent is attached: the destructor of EndpointUserImp takes the file
\* away under the lock that it clears the names under.
HostnamesReadable ==
    LET s == sample_shm[m_sample_shmem] IN
      m_is_open /\ s.user # NoJob /\ s.user \notin unlisted
        => s.hosts = s.user /\ s.user \in hostlist

Waiting == rm \in {"wait", "sleep"}

\* A wait with a time-out comes to an end, and so does one that is stopped and
\* stays stopped (Endpoint.cpp:176-210).
WaitsEnd ==
    /\ Waiting /\ call.timed ~> ~Waiting
    /\ Waiting /\ ~m_continue_loop ~> ~Waiting \/ m_continue_loop

Seen == m_is_open /\ ctl = "attached" /\ Shown = job
Served ==
    /\ m_is_open
    /\ policy_shm[m_policy_shmem].agent = job /\ policy_shm[m_policy_shmem].profile = job

\* A job that is attached when the daemon's update waits, or attaches then, gets
\* its policy unless it leaves first, or the wait runs out of time, or the store
\* has no policy for it - a stop in between does not keep it from it.
UpdateServes ==
    Waiting /\ call.update /\ Seen
      ~> Served \/ ~Seen \/ result \in {"timed out", "no policy"}

===============================================================================
