------------------------------- MODULE Handshake -------------------------------
(***************************************************************************)
(* Start-up and shutdown of a node: the ranks of the application           *)
(* (Profile.cpp) and the controller (ProfileSampler.cpp) pass through the  *)
(* states of ControlMessage.cpp.                                           *)
(*                                                                         *)
(* Two status words in shared memory say how far each side is.  Rank zero  *)
(* writes for the application; the ranks keep together with barriers.      *)
(* wait() polls the other side's word for exactly the next state, and      *)
(* throws when it takes too long; loop_begin() and the barriers wait for   *)
(* ever.                                                                   *)
(*                                                                         *)
(* What an actor calls one after the other is its script; an action is one *)
(* call, at the place in the script that pc names.                         *)
(***************************************************************************)
EXTENDS Integers, Sequences, FiniteSets

CONSTANTS
    NumRank,     \* ranks of the application on the node
    Cpu,
    CpuSets,     \* the affinities of the ranks that may be: Rank -> SUBSET Cpu
    ChunkCounts, \* what the region names of the ranks may take: Rank -> Nat
    ImpatientSets, \* whose waits may time out although the other side is alive:
                 \* sets of actors
    CtlFails     \* the controller may end with an exception

Rank == 0 .. NumRank - 1
Ctl == -1
Actor == Rank \cup {Ctl}

ASSUME RankAssumption == NumRank \in Nat \ {0}
ASSUME CpuAssumption == CpuSets \subseteq [Rank -> SUBSET Cpu]
ASSUME ChunkAssumption == ChunkCounts \subseteq [Rank -> Nat \ {0}]
ASSUME FailureAssumption == ImpatientSets \subseteq SUBSET Actor /\ CtlFails \in BOOLEAN

VARIABLES
    \* geopm_ctl_message_s
    ctl_status, app_status, cpu_rank,
    \* of each actor: m_last_status, the next call, how it ended
    last_status, pc, fate,
    passed,      \* barriers that a rank has left
    shmem,       \* shared memory the controller has created
    tables,      \* ranks it has created a table for
    \* what differs from job to job: affinities, region names (in chunks of the
    \* size of a table), and whose waits are short
    cpu_set, chunks, impatient,
    buffer,      \* the chunk in the table of a rank
    position,    \* m_key_map_last: the chunk that is next
    is_done, all_done, \* is_done and is_all_done of send_names()
    finished,    \* m_is_name_finished
    names        \* m_name_set

statusVars == <<ctl_status, app_status, cpu_rank>>
actorVars == <<last_status, pc, fate, passed>>
shmemVars == <<shmem, tables>>
inputVars == <<cpu_set, chunks, impatient>>
nameVars == <<buffer, position, is_done, all_done, finished, names>>
vars == <<statusVars, actorVars, shmemVars, inputVars, nameVars>>

MapBegin == 1
SampleEnd == 4
NameBegin == 5
LoopBegin == 6
LoopEnd == 7
Shutdown == 9
Abort == 9999

-----------------------------------------------------------------------------
(* The scripts.                                                            *)

\* Seeded fault: rank zero checks the map without waiting for the others.
AppScriptMapNoBarrier ==
    <<"barrier", "attach", "barrier", "construct",
      "barrier", "step", "wait", "map", "check", "barrier", "step", "wait",
      "attach_table", "barrier", "step", "wait",
      "barrier", "attach_status", "barrier", "attach_log", "enable",
      "barrier", "step", "wait",
      "barrier", "step", "wait",
      "barrier", "loop_set", "loop_spin", "fill", "test", "step", "wait", "again",
      "barrier", "step", "wait",
      "barrier", "step">>

\* ProfileImp::init(), and from "enable" on shutdown().
AppScript ==
    <<"barrier", "attach", "barrier", "construct",            \* init_ctl_msg
      "barrier", "step", "wait", "map", "barrier", "check",   \* init_cpu_affinity
      "barrier", "step", "wait",
      "attach_table", "barrier", "step", "wait",              \* init_table
      "barrier", "attach_status", "barrier",                  \* init_app_status
      "attach_log", "enable",                                 \* init_app_record_log
      "barrier", "step", "wait",                              \* shutdown
      "barrier", "step", "wait",                              \* send_names
      "barrier", "loop_set", "loop_spin", "fill", "test", "step", "wait", "again",
      "barrier", "step", "wait",
      "barrier", "step">>

\* Controller::run() with ProfileSamplerImp.
CtlScript ==
    <<"create", "wait", "step", "wait", "read_map", "step",   \* initialize
      "connect", "wait", "step",                              \* controller_ready
      "update", "step", "names", "step",                      \* check_sample_end
      "loop_begin", "wait", "collect", "step", "again",       \* region_names
      "wait", "step", "wait">>

Script(a) == IF a = Ctl THEN CtlScript ELSE AppScript
Place(script, call) == CHOOSE i \in DOMAIN script : script[i] = call

At(a, call) == fate[a] = "running" /\ Script(a)[pc[a]] = call
Past(a, call) == pc[a] > Place(Script(a), call)

\* The call returns: go to the next one, or to another place.
Returns(a) ==
    /\ pc' = IF pc[a] < Len(Script(a)) THEN [pc EXCEPT ![a] = @ + 1] ELSE pc
    /\ fate' = IF pc[a] < Len(Script(a)) THEN fate ELSE [fate EXCEPT ![a] = "done"]
GoesTo(a, i) == pc' = [pc EXCEPT ![a] = i] /\ UNCHANGED fate
Ends(a) == fate' = [fate EXCEPT ![a] = "done"] /\ UNCHANGED pc

\* An exception: init() catches it and the rank runs without GEOPM; it ends
\* the shutdown of a rank, and the controller.
Throws(a) ==
    /\ fate' = [fate EXCEPT ![a] = IF a # Ctl /\ ~Past(a, "enable") THEN "off" ELSE "failed"]
    /\ UNCHANGED pc

Init ==
    /\ ctl_status = 0 /\ app_status = 0 /\ cpu_rank = [c \in Cpu |-> 0]
    /\ last_status = [a \in Actor |-> 0]
    /\ pc = [a \in Actor |-> 1]
    /\ fate = [a \in Actor |-> "running"]
    /\ passed = [r \in Rank |-> 0]
    /\ shmem = {} /\ tables = {}
    /\ cpu_set \in CpuSets /\ chunks \in ChunkCounts /\ impatient \in ImpatientSets
    /\ buffer = [r \in Rank |-> 0] /\ position = [r \in Rank |-> 1]
    /\ is_done = [r \in Rank |-> FALSE] /\ all_done = [r \in Rank |-> FALSE]
    /\ finished = {} /\ names = {}

-----------------------------------------------------------------------------
(* ControlMessage.                                                         *)

Seen(a) == IF a = Ctl THEN app_status ELSE ctl_status
After(status) == IF status = Shutdown THEN status ELSE status + 1

\* Seeded fault: every rank steps.
StepOfEveryRank(a) ==
    /\ At(a, "step")
    /\ IF a = Ctl
         THEN ctl_status' = After(ctl_status) /\ UNCHANGED app_status
         ELSE app_status' = After(app_status) /\ UNCHANGED ctl_status
    /\ Returns(a)
    /\ UNCHANGED <<cpu_rank, last_status, passed, shmemVars, inputVars, nameVars>>

Step(a) ==
    /\ At(a, "step")
    /\ ctl_status' = IF a = Ctl THEN After(ctl_status) ELSE ctl_status
    /\ app_status' = IF a = 0 THEN After(app_status) ELSE app_status
    /\ Returns(a)
    /\ UNCHANGED <<cpu_rank, last_status, passed, shmemVars, inputVars, nameVars>>

Wait(a) ==
    /\ At(a, "wait")
    /\ Seen(a) = After(last_status[a])
    /\ last_status' = [last_status EXCEPT ![a] = After(@)]
    /\ Returns(a)
    /\ UNCHANGED <<statusVars, passed, shmemVars, inputVars, nameVars>>

\* The other side has said that it gives up: the controller, in initialize().
WaitAborted(a) ==
    /\ At(a, "wait")
    /\ Seen(a) = Abort
    /\ Throws(a)
    /\ UNCHANGED <<statusVars, last_status, passed, shmemVars, inputVars, nameVars>>

\* Time-outs are long: what comes at all comes in time, but for an actor that
\* is impatient.
Gone(a) ==
    IF a = Ctl THEN \E r \in Rank : fate[r] \in {"off", "failed"}
               ELSE fate[Ctl] # "running"

TimesOut(a) ==
    /\ \/ At(a, "wait") /\ Seen(a) # After(last_status[a])
       \/ At(a, "attach") /\ "message" \notin shmem
    /\ a \in impatient \/ Gone(a)
    /\ Throws(a)
    /\ UNCHANGED <<statusVars, last_status, passed, shmemVars, inputVars, nameVars>>

\* The constructor: rank zero clears the message; the others see it cleared,
\* or in its first state.
Construct(r) ==
    /\ At(r, "construct")
    /\ r # 0 => app_status \in {0, MapBegin}
    /\ ctl_status' = IF r = 0 THEN 0 ELSE ctl_status
    /\ app_status' = IF r = 0 THEN 0 ELSE app_status
    /\ cpu_rank' = IF r = 0 THEN [c \in Cpu |-> 0] ELSE cpu_rank
    /\ Returns(r)
    /\ UNCHANGED <<last_status, passed, shmemVars, inputVars, nameVars>>

\* loop_begin(): every rank says so, and waits for the controller ...
LoopSet(r) ==
    /\ At(r, "loop_set")
    /\ app_status' = LoopBegin
    /\ Returns(r)
    /\ UNCHANGED <<ctl_status, cpu_rank, last_status, passed, shmemVars, inputVars, nameVars>>

LoopSpin(r) ==
    /\ At(r, "loop_spin")
    /\ ctl_status = LoopBegin
    /\ last_status' = [last_status EXCEPT ![r] = LoopBegin]
    /\ Returns(r)
    /\ UNCHANGED <<statusVars, passed, shmemVars, inputVars, nameVars>>

\* ... which answers.
CtlLoopBegin ==
    /\ At(Ctl, "loop_begin")
    /\ app_status = LoopBegin
    /\ ctl_status' = LoopBegin
    /\ last_status' = [last_status EXCEPT ![Ctl] = LoopBegin]
    /\ Returns(Ctl)
    /\ UNCHANGED <<app_status, cpu_rank, passed, shmemVars, inputVars, nameVars>>

-----------------------------------------------------------------------------
(* The application: calls of ProfileImp.                                   *)

\* The barrier is left when every rank has reached it.
AllReached(r) ==
    \A q \in Rank :
        \/ passed[q] > passed[r]
        \/ passed[q] = passed[r] /\ (At(q, "barrier") \/ At(q, "test"))

Barrier(r) ==
    /\ At(r, "barrier")
    /\ AllReached(r)
    /\ passed' = [passed EXCEPT ![r] = @ + 1]
    /\ Returns(r)
    /\ UNCHANGED <<statusVars, last_status, shmemVars, inputVars, nameVars>>

\* Shared memory of the controller is attached once it is there.
Attaches(r) ==
    /\ \/ At(r, "attach") /\ "message" \in shmem
       \/ At(r, "attach_table") /\ r \in tables
       \/ (At(r, "attach_status") \/ At(r, "attach_log")) /\ "status" \in shmem
    /\ Returns(r)
    /\ UNCHANGED <<statusVars, last_status, passed, shmemVars, inputVars, nameVars>>

\* A rank without CPUs has no table, whatever it waits.
NoTable(r) ==
    /\ At(r, "attach_table")
    /\ r \notin tables
    /\ Throws(r)
    /\ UNCHANGED <<statusVars, last_status, passed, shmemVars, inputVars, nameVars>>

\* The ranks take turns (a barrier ends each) to list themselves on their CPUs:
\* -1 is unassigned, -2 assigned twice.
Map(r) ==
    /\ At(r, "map")
    /\ \A q \in Rank : q < r => Past(q, "map")
    /\ cpu_rank' = [c \in Cpu |->
                      LET old == IF r = 0 THEN -1 ELSE cpu_rank[c]
                      IN  IF c \notin cpu_set[r] THEN old
                          ELSE IF old = -1 THEN r ELSE -2]
    /\ Returns(r)
    /\ UNCHANGED <<ctl_status, app_status, last_status, passed, shmemVars, inputVars, nameVars>>

\* "cpu_rank not initialized correctly."
Check(r) ==
    /\ At(r, "check")
    /\ IF r = 0 /\ \E c \in Cpu : cpu_rank[c] = -2 THEN Throws(r) ELSE Returns(r)
    /\ UNCHANGED <<statusVars, last_status, passed, shmemVars, inputVars, nameVars>>

\* m_is_enabled is set: the application runs, and shuts down one day.
Enable(r) ==
    /\ At(r, "enable")
    /\ Returns(r)
    /\ UNCHANGED <<statusVars, last_status, passed, shmemVars, inputVars, nameVars>>

\* name_fill(): the next chunk; after the last one it starts from the beginning.
Fill(r) ==
    /\ At(r, "fill")
    /\ buffer' = [buffer EXCEPT ![r] = position[r]]
    /\ is_done' = [is_done EXCEPT ![r] = position[r] = chunks[r]]
    /\ position' = [position EXCEPT ![r] = IF @ = chunks[r] THEN 1 ELSE @ + 1]
    /\ Returns(r)
    /\ UNCHANGED <<statusVars, last_status, passed, shmemVars, inputVars, all_done, finished, names>>

\* Seeded fault: a rank that is done does not ask the others.
TestOwnOnly(r) ==
    /\ At(r, "test")
    /\ all_done' = [all_done EXCEPT ![r] = is_done[r]]
    /\ Returns(r)
    /\ UNCHANGED <<statusVars, last_status, passed, shmemVars, inputVars, buffer, position,
                   is_done, finished, names>>

\* Comm::test(): whether all ranks are done.
Test(r) ==
    /\ At(r, "test")
    /\ AllReached(r)
    /\ passed' = [passed EXCEPT ![r] = @ + 1]
    /\ all_done' = [all_done EXCEPT ![r] = \A q \in Rank : is_done[q]]
    /\ Returns(r)
    /\ UNCHANGED <<statusVars, last_status, shmemVars, inputVars, buffer, position, is_done,
                   finished, names>>

\* while (!is_all_done)
RoundStart == Place(AppScript, "loop_set") - 1
Again(r) ==
    /\ At(r, "again")
    /\ IF all_done[r] THEN Returns(r) ELSE GoesTo(r, RoundStart)
    /\ UNCHANGED <<statusVars, last_status, passed, shmemVars, inputVars, nameVars>>

-----------------------------------------------------------------------------
(* The controller: calls of ProfileSamplerImp.                             *)

Create ==
    /\ At(Ctl, "create")
    /\ shmem' = shmem \cup {"message"}
    /\ Returns(Ctl)
    /\ UNCHANGED <<statusVars, last_status, passed, tables, inputVars, nameVars>>

\* initialize(): a table for every rank that is listed; without one, abort.
ReadMap ==
    LET rank_set == {cpu_rank[c] : c \in Cpu} \cap Rank
    IN  /\ At(Ctl, "read_map")
        /\ tables' = rank_set
        /\ IF rank_set = {}
             THEN ctl_status' = Abort /\ Throws(Ctl)
             ELSE UNCHANGED ctl_status /\ Returns(Ctl)
        /\ UNCHANGED <<app_status, cpu_rank, last_status, passed, shmem, inputVars, nameVars>>

\* ApplicationSampler::connect(): status and record logs.
Connect ==
    /\ At(Ctl, "connect")
    /\ shmem' = shmem \cup {"status"}
    /\ Returns(Ctl)
    /\ UNCHANGED <<statusVars, last_status, passed, tables, inputVars, nameVars>>

\* update() in every control loop looks for the end of sampling, and the loop
\* for the end of the application.
Update ==
    /\ At(Ctl, "update")
    /\ app_status \in {SampleEnd, Shutdown}
    /\ IF app_status = SampleEnd THEN Returns(Ctl) ELSE Ends(Ctl)
    /\ UNCHANGED <<statusVars, last_status, passed, shmemVars, inputVars, nameVars>>

\* Starting up or in the control loop, the agent or the platform may fail.
Fails ==
    /\ CtlFails
    /\ At(Ctl, "connect") \/ At(Ctl, "update")
    /\ Throws(Ctl)
    /\ UNCHANGED <<statusVars, last_status, passed, shmemVars, inputVars, nameVars>>

\* Polls, for ever, what the application does next.
Names ==
    /\ At(Ctl, "names")
    /\ app_status \in {NameBegin, Shutdown}
    /\ IF app_status = NameBegin THEN Returns(Ctl) ELSE Ends(Ctl)
    /\ UNCHANGED <<statusVars, last_status, passed, shmemVars, inputVars, nameVars>>

\* name_fill() of every rank sampler that has not finished.
Collect ==
    LET left == tables \ finished
    IN  /\ At(Ctl, "collect")
        /\ names' = names \cup {<<r, buffer[r]>> : r \in left}
        /\ finished' = finished \cup {r \in left : is_done[r]}
        /\ Returns(Ctl)
        /\ UNCHANGED <<statusVars, last_status, passed, shmemVars, inputVars, buffer, position,
                       is_done, all_done>>

\* Seeded fault: one finished rank ends the loop.
CtlAgainAny ==
    /\ At(Ctl, "again")
    /\ IF finished # {} THEN Returns(Ctl)
         ELSE GoesTo(Ctl, Place(CtlScript, "loop_begin"))
    /\ UNCHANGED <<statusVars, last_status, passed, shmemVars, inputVars, nameVars>>

CtlAgain ==
    /\ At(Ctl, "again")
    /\ IF finished = tables THEN Returns(Ctl)
         ELSE IF app_status = Shutdown THEN Throws(Ctl)
         ELSE GoesTo(Ctl, Place(CtlScript, "loop_begin"))
    /\ UNCHANGED <<statusVars, last_status, passed, shmemVars, inputVars, nameVars>>

-----------------------------------------------------------------------------
Either(a) == Step(a) \/ Wait(a) \/ WaitAborted(a) \/ TimesOut(a)

RankCall(r) ==
    \/ Either(r) \/ Construct(r) \/ LoopSet(r) \/ LoopSpin(r)
    \/ Barrier(r) \/ Attaches(r) \/ NoTable(r) \/ Map(r) \/ Check(r) \/ Enable(r)
    \/ Fill(r) \/ Test(r) \/ Again(r)

CtlCall ==
    \/ Either(Ctl) \/ CtlLoopBegin
    \/ Create \/ ReadMap \/ Connect \/ Update \/ Names \/ Collect \/ CtlAgain

Next == (\E r \in Rank : RankCall(r)) \/ CtlCall \/ Fails

Spec == Init /\ [][Next]_vars

\* Every thread is scheduled, and the application ends.
FairSpec == Spec /\ WF_vars(CtlCall) /\ \A r \in Rank : WF_vars(RankCall(r))

-----------------------------------------------------------------------------
(* Properties.                                                             *)

Status == 0 .. Shutdown \cup {Abort}
TypeOK ==
    /\ ctl_status \in Status /\ app_status \in 0 .. Shutdown
    /\ cpu_rank \in [Cpu -> Rank \cup {-1, -2}]
    /\ last_status \in [Actor -> 0 .. Shutdown]
    /\ pc \in [Actor -> Nat] /\ \A a \in Actor : pc[a] \in DOMAIN Script(a)
    /\ fate \in [Actor -> {"running", "off", "done", "failed"}]
    /\ passed \in [Rank -> Nat]
    /\ shmem \subseteq {"message", "status"} /\ tables \subseteq Rank
    /\ cpu_set \in CpuSets /\ chunks \in ChunkCounts /\ impatient \in ImpatientSets
    /\ buffer \in [Rank -> Nat] /\ position \in [Rank -> Nat]
    /\ \A r \in Rank : buffer[r] \in 0 .. chunks[r] /\ position[r] \in 1 .. chunks[r]
    /\ is_done \in [Rank -> BOOLEAN] /\ all_done \in [Rank -> BOOLEAN]
    /\ finished \subseteq tables /\ names \subseteq Rank \X Nat

\* wait() looks for exactly the next state: whoever is late, nobody's next state
\* is overwritten before it was seen.
NoStateMissed ==
    \A a \in Actor :
        At(a, "wait") => Seen(a) \in {last_status[a], After(last_status[a]), Abort}

\* When the controller has read the map every rank with CPUs of its own has a
\* table: no rank was late in listing itself, and no CPU is listed twice.
MapIsComplete == Past(Ctl, "read_map") => tables = {r \in Rank : cpu_set[r] # {}}

\* A table is read in the round in which it was filled: no rank writes to it
\* while the controller reads.
NobodyFills == At(Ctl, "collect") => \A r \in Rank : ~At(r, "fill")

\* The report has the names of all ranks.
NamesComplete ==
    Past(Ctl, "again") => \A r \in tables : {<<r, c>> : c \in 1 .. chunks[r]} \subseteq names

\* "The application and controller call this interface to synchronize each trip
\* through the buffering loop": both make the same number of trips.
SameTrips ==
    Past(Ctl, "again") => \A r \in Rank : ~At(r, "loop_set") /\ ~At(r, "loop_spin")

\* Start-up and shutdown come to an end on both sides, whether or not the
\* controller fails on the way, unless one rank alone has a reason to leave: a
\* wait that times out, or a CPU that is missing or shared.
Alike ==
    /\ impatient = {}
    /\ \/ \A r \in Rank : cpu_set[r] = {}
       \/ \A r \in Rank : cpu_set[r] # {} /\ \A q \in Rank \ {r} : cpu_set[q] \cap cpu_set[r] = {}
EverybodyLeaves == Alike => <>(\A a \in Actor : fate[a] # "running")
===============================================================================
