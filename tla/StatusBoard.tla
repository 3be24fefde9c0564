------------------------------- MODULE StatusBoard -------------------------------
(***************************************************************************)
(* The status of every CPU in shared memory: ApplicationStatus.cpp, what   *)
(* Profile.cpp writes to it (start-up, regions, hints, thread progress)    *)
(* and how ApplicationSampler::update() copies it and adds up hint times.  *)
(*                                                                         *)
(* There is no lock.  The words of a CPU are written one after the other,  *)
(* so an operation is the words it still has to write, for every CPU; the  *)
(* controller's copy is taken word by word as well.  A region of code is   *)
(* known by its hash, and has a hint.                                      *)
(***************************************************************************)
EXTENDS Integers, Sequences, FiniteSetsExt, Functions

CONSTANTS
    Rank,        \* application processes on the node
    Cpu,         \* Linux logical CPUs
    CpusOf,      \* m_cpu_set of a process
    HintOf,      \* the regions, and the hint each is entered with
    WorkUnits,   \* numbers of work units to announce
    MaxDepth,    \* bound on the nesting of regions
    MaxCall,     \* bound on the calls of every process
    MaxTime      \* bound on the clock

Region == DOMAIN HintOf
Hint == {HintOf[h] : h \in Region} \cup {"UNSET", "INACTIVE"}
NoRank == "nobody"

ASSUME StatusAssumption ==
    /\ NoRank \notin Rank /\ Cpu \subseteq Nat /\ IsFiniteSet(Region)
    /\ CpusOf \in [Rank -> SUBSET Cpu]
    /\ \A r, s \in Rank : r # s => CpusOf[r] \cap CpusOf[s] = {}
    /\ WorkUnits \subseteq Nat \ {0, 1}
    /\ MaxDepth \in Nat /\ MaxCall \in [Rank -> Nat] /\ MaxTime \in Nat

VARIABLES
    m_buffer,        \* shared memory: the words of every CPU
    \* a process
    stage,           \* of its start-up
    todo,            \* words that its current call still has to write
    m_current_hash,  \* Profile
    m_hint_stack,
    units,           \* work units that its threads were told of, for every CPU
    calls,           \* bounds the run
    \* the controller
    m_cache,
    uncopied,        \* words that update_cache() still has to copy
    curr_time,       \* the argument of update()
    m_is_first_update,
    m_update_time,
    m_hint_last,
    m_hint_time,
    now,             \* the clock
    \* history
    first_time,      \* the time of the first update
    rest,            \* how many updates began since a process wrote a word, up to two
    posted_before    \* completed_work of every CPU when the last update began

process == <<stage, todo, m_current_hash, m_hint_stack, units, calls>>
sampler == <<m_cache, uncopied, curr_time, m_is_first_update, m_update_time, m_hint_last,
             m_hint_time, first_time, posted_before>>
vars == <<m_buffer, process, sampler, rest, now>>

Layout == <<"process", "hint", "hash", "total_work", "completed_work">>
Field == Range(Layout)
Inactive == [process |-> NoRank, hint |-> "INACTIVE", hash |-> "INVALID",
             total_work |-> 0, completed_work |-> 0]

\* No words for any CPU; CPU c is the first that has some.
Nothing == [c \in Cpu |-> <<>>]
IsNext(c, words) == words[c] # <<>> /\ \A d \in Cpu : d < c => words[d] = <<>>

Init ==
    /\ m_buffer = [c \in Cpu |-> Inactive]
    /\ stage = [r \in Rank |-> "attach"] /\ todo = [r \in Rank |-> Nothing]
    /\ m_current_hash = [r \in Rank |-> "UNMARKED"]
    /\ m_hint_stack = [r \in Rank |-> <<>>]
    /\ units = [c \in Cpu |-> 0] /\ calls = [r \in Rank |-> 0]
    /\ m_cache = [c \in Cpu |-> Inactive] /\ uncopied = Nothing
    /\ curr_time = 0 /\ now = 0 /\ first_time = 0
    /\ m_is_first_update = TRUE /\ m_update_time = 0
    /\ m_hint_last = [c \in Cpu |-> "UNSET"]
    /\ m_hint_time = [c \in Cpu |-> [h \in Hint |-> 0]]
    /\ rest = [r \in Rank |-> 0] /\ posted_before = [c \in Cpu |-> 0]

-----------------------------------------------------------------------------
(* What the operations of ApplicationStatus write.                          *)

Word(field, value) == <<[field |-> field, value |-> value]>>
SetHint(hint) == Word("hint", hint)
SetHash(hash, hint) == Word("hash", hash) \o Word("hint", hint)
ResetWorkUnits == Word("total_work", 0) \o Word("completed_work", 0)
SetProcess(r) ==
    Word("process", r)
      \o IF r = NoRank THEN SetHash("INVALID", "INACTIVE") ELSE SetHash("UNMARKED", "UNSET")

\* A loop over a set of CPUs, which has them in order: the words for each.
Starts(r, cpus, words) ==
    todo' = [todo EXCEPT ![r] = [c \in Cpu |-> IF c \in cpus THEN words ELSE <<>>]]
Idle(r) == todo[r] = Nothing

\* The next word of a call.
Write(r) ==
    /\ \E c \in Cpu :
         /\ IsNext(c, todo[r])
         /\ LET w == Head(todo[r][c]) IN m_buffer' = [m_buffer EXCEPT ![c][w.field] = w.value]
         /\ todo' = [todo EXCEPT ![r][c] = Tail(@)]
    /\ rest' = [rest EXCEPT ![r] = 0]
    /\ UNCHANGED <<stage, m_current_hash, m_hint_stack, units, calls, sampler, now>>

-----------------------------------------------------------------------------
(* Start-up.                                                                *)

\* The constructor of ApplicationStatusImp runs in every process, and clears
\* the words of all CPUs.
Construct(r) ==
    /\ stage[r] = "attach" /\ stage' = [stage EXCEPT ![r] = "barrier"]
    /\ Starts(r, Cpu, SetProcess(NoRank))
    /\ UNCHANGED <<m_buffer, m_current_hash, m_hint_stack, units, calls, sampler, rest, now>>

\* Mutant: no barrier after the constructor in init_app_status().
PassBarrierAlone(r) ==
    /\ stage[r] = "barrier" /\ Idle(r)
    /\ stage' = [stage EXCEPT ![r] = "running"]
    /\ Starts(r, CpusOf[r], SetProcess(r))
    /\ UNCHANGED <<m_buffer, m_current_hash, m_hint_stack, units, calls, sampler, rest, now>>

\* Behind the barrier, init_app_record_log() takes the CPUs of the process.
PassBarrier(r) ==
    /\ stage[r] = "barrier"
    /\ \A s \in Rank : stage[s] # "attach" /\ (stage[s] = "barrier" => Idle(s))
    /\ stage' = [stage EXCEPT ![r] = "running"]
    /\ Starts(r, CpusOf[r], SetProcess(r))
    /\ UNCHANGED <<m_buffer, m_current_hash, m_hint_stack, units, calls, sampler, rest, now>>

-----------------------------------------------------------------------------
(* Regions, hints and thread progress.                                      *)

Call(r) ==
    /\ stage[r] = "running" /\ Idle(r)
    /\ calls[r] < MaxCall[r] /\ calls' = [calls EXCEPT ![r] = @ + 1]
    /\ UNCHANGED <<m_buffer, stage, sampler, rest, now>>

Enter(r, h) ==
    /\ Call(r) /\ Len(m_hint_stack[r]) < MaxDepth
    /\ m_hint_stack' = [m_hint_stack EXCEPT ![r] = <<HintOf[h]>> \o @]
    /\ IF m_current_hash[r] = "UNMARKED"
       THEN /\ m_current_hash' = [m_current_hash EXCEPT ![r] = h]
            /\ Starts(r, CpusOf[r], SetHash(h, HintOf[h]))
       ELSE /\ Starts(r, CpusOf[r], SetHint(HintOf[h]))
            /\ UNCHANGED m_current_hash
    /\ UNCHANGED units

\* Mutant: leaving a nested region keeps its hint.
ExitNestedKeepsHint(r) ==
    /\ Call(r) /\ Len(m_hint_stack[r]) > 1
    /\ m_hint_stack' = [m_hint_stack EXCEPT ![r] = Tail(@)]
    /\ UNCHANGED <<todo, m_current_hash, units>>

ExitNested(r) ==
    /\ Call(r) /\ Len(m_hint_stack[r]) > 1
    /\ m_hint_stack' = [m_hint_stack EXCEPT ![r] = Tail(@)]
    /\ Starts(r, CpusOf[r], SetHint(m_hint_stack[r][2]))
    /\ UNCHANGED <<m_current_hash, units>>

LeaveCpu == SetHash("UNMARKED", "UNSET") \o ResetWorkUnits

ExitOutermost(r) ==
    /\ Call(r) /\ Len(m_hint_stack[r]) = 1
    /\ m_hint_stack' = [m_hint_stack EXCEPT ![r] = <<>>]
    /\ m_current_hash' = [m_current_hash EXCEPT ![r] = "UNMARKED"]
    /\ Starts(r, CpusOf[r], LeaveCpu)
    /\ units' = [c \in Cpu |-> IF c \in CpusOf[r] THEN 0 ELSE units[c]]

\* geopm_tprof_init(), within a region; n work units on every CPU.
ThreadInit(r, n) ==
    /\ Call(r) /\ m_hint_stack[r] # <<>>
    /\ Starts(r, CpusOf[r], Word("total_work", n))
    /\ units' = [c \in Cpu |-> IF c \in CpusOf[r] THEN n ELSE units[c]]
    /\ UNCHANGED <<m_current_hash, m_hint_stack>>

\* geopm_tprof_post() of the thread on CPU c, as often as was announced and
\* before the main thread goes on; what the main thread writes meanwhile are
\* hints.
ThreadPost(r, c) ==
    /\ c \in CpusOf[r] /\ units[c] > 0
    /\ \A d \in Cpu : \A w \in Range(todo[r][d]) : w.field = "hint"
    /\ units' = [units EXCEPT ![c] = @ - 1]
    /\ m_buffer' = IF m_buffer[c].total_work = 0 THEN m_buffer
                   ELSE [m_buffer EXCEPT ![c].completed_work = @ + 1]
    /\ UNCHANGED <<stage, todo, m_current_hash, m_hint_stack, calls, sampler, rest, now>>

Application ==
    \E r \in Rank :
      \/ Write(r) \/ Construct(r) \/ PassBarrier(r)
      \/ \E h \in Region : Enter(r, h)
      \/ ExitNested(r) \/ ExitOutermost(r)
      \/ \E n \in WorkUnits : ThreadInit(r, n)
      \/ \E c \in Cpu : ThreadPost(r, c)

-----------------------------------------------------------------------------
(* The controller.                                                          *)

\* Mutant: only CPUs that entered or left a region are copied.
AllWordsChanged == [c \in Cpu |-> IF m_cache[c].hash = m_buffer[c].hash THEN <<>> ELSE Layout]

\* update_cache(): CPU by CPU, and the words of one as they lie in memory.
AllWords == [c \in Cpu |-> Layout]

BeginUpdate ==
    /\ uncopied = Nothing /\ curr_time = m_update_time
    /\ now > m_update_time
    /\ curr_time' = now /\ uncopied' = AllWords
    /\ rest' = [r \in Rank |-> IF rest[r] = 0 THEN 1 ELSE 2]
    /\ posted_before' = [c \in Cpu |-> m_buffer[c].completed_work]
    /\ UNCHANGED <<m_buffer, process, m_cache, m_is_first_update, m_update_time,
                   m_hint_last, m_hint_time, first_time, now>>

CopyWord ==
    /\ \E c \in Cpu :
         /\ IsNext(c, uncopied) /\ uncopied' = [uncopied EXCEPT ![c] = Tail(@)]
         /\ LET field == Head(uncopied[c])
            IN  m_cache' = [m_cache EXCEPT ![c][field] = m_buffer[c][field]]
    /\ UNCHANGED <<m_buffer, process, curr_time, m_is_first_update, m_update_time,
                   m_hint_last, m_hint_time, first_time, posted_before, rest, now>>

\* Mutant: the first update counts from time zero.
HintTimesFromZero ==
    /\ m_hint_time' = [c \in Cpu |->
         [m_hint_time[c] EXCEPT ![m_hint_last[c]] = @ + (curr_time - m_update_time)]]
    /\ first_time' = IF m_is_first_update THEN curr_time ELSE first_time

\* The time since the last update goes to the hint that was seen then.
HintTimes ==
    IF m_is_first_update
    THEN first_time' = curr_time /\ UNCHANGED m_hint_time
    ELSE /\ m_hint_time' = [c \in Cpu |->
              [m_hint_time[c] EXCEPT ![m_hint_last[c]] = @ + (curr_time - m_update_time)]]
         /\ UNCHANGED first_time

EndUpdate ==
    /\ uncopied = Nothing /\ curr_time # m_update_time /\ HintTimes
    /\ m_hint_last' = [c \in Cpu |-> m_cache[c].hint]
    /\ m_is_first_update' = FALSE /\ m_update_time' = curr_time
    /\ UNCHANGED <<m_buffer, process, m_cache, uncopied, curr_time, posted_before,
                   rest, now>>

Tick ==
    /\ now < MaxTime /\ now' = now + 1
    /\ UNCHANGED <<m_buffer, process, sampler, rest>>

Next == Application \/ BeginUpdate \/ CopyWord \/ EndUpdate \/ Tick

Spec == Init /\ [][Next]_vars

-----------------------------------------------------------------------------
(* Properties.                                                              *)

\* Every variable has a value of its C++ type, also the words not yet written.
Value == [process |-> Rank \cup {NoRank}, hint |-> Hint,
          hash |-> Region \cup {"UNMARKED", "INVALID"},
          total_work |-> Nat, completed_work |-> Nat]
Status == [process : Value.process, hint : Value.hint, hash : Value.hash,
           total_work : Nat, completed_work : Nat]
WordsOf(field) == [field : {field}, value : Value[field]]
Words == WordsOf("process") \cup WordsOf("hint") \cup WordsOf("hash")
           \cup WordsOf("total_work") \cup WordsOf("completed_work")
TypeOK ==
    /\ m_buffer \in [Cpu -> Status] /\ m_cache \in [Cpu -> Status]
    /\ stage \in [Rank -> {"attach", "barrier", "running"}]
    /\ todo \in [Rank -> [Cpu -> Seq(Words)]]
    /\ m_current_hash \in [Rank -> Region \cup {"UNMARKED"}]
    /\ m_hint_stack \in [Rank -> Seq(Hint)] /\ units \in [Cpu -> Nat]
    /\ m_hint_last \in [Cpu -> Hint] /\ m_hint_time \in [Cpu -> [Hint -> Nat]]
    /\ uncopied \in [Cpu -> Seq(Field)]

\* Once a process has taken its CPUs they stay its own, however late another one
\* runs the constructor that clears all of them: the barrier in
\* init_app_status() is between the two.
OwnerKept ==
    \A r \in Rank : stage[r] = "running" /\ Idle(r)
      => \A c \in CpusOf[r] : m_buffer[c].process = r

\* Between two calls of a process its CPUs show the region it is in and the hint
\* of the innermost one, in whatever way regions were nested and left.
HintMatchesStack ==
    \A r \in Rank : stage[r] = "running" /\ Idle(r)
      => \A c \in CpusOf[r] :
           /\ m_buffer[c].hash = m_current_hash[r]
           /\ m_buffer[c].hint = IF m_hint_stack[r] = <<>> THEN "UNSET"
                                 ELSE Head(m_hint_stack[r])

\* An update() during which a process writes nothing but the progress of its threads
\* has, of its CPUs, the words that they show, and a number of completed work units
\* between that at the beginning and at the end, so its progress is one that a thread
\* really had; if the process was at rest since the update before began, the time
\* between the two is booked to the hint that its CPUs had all the while.  Of a
\* process that writes meanwhile nothing is said: the copy mixes words of before and
\* after (ApplicationStatus.cpp:227-233), and a second geopm_tprof_init() in a region
\* raises total_work and keeps completed_work, so the progress that is seen may sink.
RestIsSeen ==
    [][m_update_time' # m_update_time =>
         \A r \in {r \in Rank : rest[r] > 0} : \A c \in CpusOf[r] :
           /\ \A f \in Field \ {"completed_work"} : m_cache[c][f] = m_buffer[c][f]
           /\ posted_before[c] <= m_cache[c].completed_work
           /\ m_cache[c].completed_work <= m_buffer[c].completed_work
           /\ rest[r] = 2 /\ ~m_is_first_update =>
                m_hint_time'[c][m_buffer[c].hint]
                  = m_hint_time[c][m_buffer[c].hint] + (m_update_time' - m_update_time)]_vars

\* The hint times of a CPU add up to the time between the first and the last
\* update, whatever mixture of words the copies hold.
HintTimeConserved ==
    \A c \in Cpu :
      MapThenSumSet(LAMBDA h : m_hint_time[c][h], Hint)
        = m_update_time - first_time

===============================================================================
