# TLA+ specifications of the GEOPM runtime

GEOPM (`src/geopm/src`) is a power-management runtime for HPC jobs.  A
*controller* runs on every compute node beside the application; the controllers
form a balanced tree.  Policies (a power budget, say) flow from the root to the
nodes, samples flow back, and an *agent* at each level of the tree decides what
to do with them.  On the node the controller learns what the application does
through shared memory that the GEOPM *profile* library writes inside the
application's processes.

This directory holds TLA+ models of the parts of that runtime in which several
actors interact, the TLC configurations that check them, and TLAPS proofs.

## 1. Inventory

Paths are relative to `src/geopm/src`.

| Component | State it keeps | Operations | Talks to |
|---|---|---|---|
| Record log (`ApplicationRecordLog`, `ValidateRecord`, `ProcessRegionAggregator`) | record table, short-region table (shared), private map of entered regions | `enter`, `exit`, `epoch`, `dump` | Profile writes, ApplicationSampler drains |
| Profile (`Profile`, `DefaultProfile`, PMPI and OMPT wrappers) | current region, hint stack, enabled flag | region enter/exit, epoch, thread progress, start-up and shutdown | record log, application status, control message, profile table |
| Control message (`ControlMessage`) | two status words per node, one local status per rank | `step`, `wait`, `loop_begin`, `abort` | every rank of the node and the node's controller |
| Profile sampler (`ProfileSampler`, `ApplicationIO`) | rank set, sampled names, done flags | `initialize`, `controller_ready`, `check_sample_end`, `region_names` | control message, profile table |
| Profile table (`ProfileTable`) | hash to name map in a shared buffer | `key`, `name_fill`, `name_set` | Profile, ProfileSampler |
| Application status (`ApplicationStatus`) | per-CPU hash, hint, progress (no lock) | setters, `update_cache` | Profile writes, ApplicationSampler reads |
| Application sampler and filters (`ApplicationSampler`, `*RecordFilter`, `EditDist*`) | merged record buffer of all processes, hint times | `update`, `connect` | record logs, status, IO groups |
| Tree communication (`TreeComm`, `TreeCommLevel`) | one policy and one sample mailbox per link (MPI windows) | `send_up`, `receive_up`, `send_down`, `receive_down` | the controllers of parent and children |
| Controller (`Controller`) | last policy, per-level policies and samples | `run`, `step`, `walk_down`, `walk_up` | tree, agents, application IO |
| Agents (`PowerBalancerAgent`, `PowerGovernorAgent`, `MonitorAgent`, `EnergyEfficientAgent`, `FrequencyMapAgent`) | per role: policy, step counter, completion | `validate_policy`, `split_policy`, `aggregate_sample`, `adjust_platform`, `sample_platform` | controller |
| Power balancer (`PowerBalancer`, `CircularBuffer`) | power cap, limit, runtime window, target | `power_cap`, `is_runtime_stable`, `is_target_met` | PowerBalancerAgent leaf |
| Endpoint (`Endpoint`, `EndpointUser`, `Daemon`, `PolicyStoreImp`, `FilePolicy`) | policy and sample shared memory, agent, profile, host list | attach, detach, read, write | resource manager and root controller |
| Platform IO (`PlatformIO`, `*IOGroup`, `MSRIO`, signals and controls) | pushed signals and controls, saved control state | `push_*`, `sample`, `adjust`, `read_batch`, `save_control`, `restore_control` | hardware |
| Signal statistics (`SampleAggregator`, `Accumulator`, `Agg`) | per-region accumulators | `update`, `sample_region` | agents, reporter |
| Output (`Reporter`, `Tracer`, `ProfileTracer`, `EndpointPolicyTracer`) | files | `update`, `generate` | controller |
| Configuration and tools (`Environment`, `PluginFactory`, `OptionParser`, `Admin`, `geopm*_main`) | options | parsing | everything, at start-up |
| geopmbench (`ModelRegion` and subclasses) | none that matters | run a kernel | none |

Outside `src/geopm/src` the repository holds vendored benchmarks
(`src/benchmarks`), Slurm job scripts (`src/tests`), GEOPM's own tests, manual
pages, the Python launcher and tutorials; they were read where they state what
the runtime should do.

### What is hard, and what makes each part correct

* **Record log.**  Two processes share two tables under a lock; the writer also
  keeps indices into them, and the reader empties them at any moment.  A region
  that began and ended between two dumps is compressed.  Correct: every
  completed traversal is counted once with its own run time, whatever the
  moment of the dump; the record stream always passes `ValidateRecord`; the
  tables are not overrun, or where they are (after a refused entry, section 4) it is
  known how; a full table loses data.
* **Tree and agents.**  Controllers run unsynchronised loops over one-place
  mailboxes whose content is overwritten.  The power balancer runs a three-step
  algorithm in lock step over the whole tree by means of a step counter carried
  in the policy.  Correct: no two nodes are more than one step apart, a level
  never answers for a step its children have not finished, what the root learns
  was measured under the budget it sent, a new budget restarts the algorithm.
* **Start-up and shutdown.**  All ranks of a node and its controller pass through
  a sequence of numbered states with barriers between the ranks and polls with
  time-outs between ranks and controller.  Correct: neither side overtakes the
  other, shared tables are used only when the other side created them, both
  sides leave together, a failure on one side is noticed by the other.
* **Endpoint.**  A resource manager and a job attach to and detach from the same
  shared memory at any time.  Correct: a policy is used only by the agent it was
  written for.
* **Application status.**  No lock: a reader can combine an old hash with a new
  hint.

## 2. Plan

Done:

1. `RecordLog` with `RegionLedger` (what the log promises): modelled and checked; its
   table invariants proved, that the controller accepts every record,
   that counts and times are conserved, and the safety part of the refinement
   (all in `RecordLogProofs`, with `SumTheorems`).
2. `BalancerTree` with `StepBarrier` (what the tree promises its leaves):
   modelled and checked; that the steps of its roles stay together, and the safety
   part of the refinement, proved; that power stays under the caps and the budget,
   proved (both in `BalancerTreeProofs`, with `SumTheorems`).
3. `Handshake`: modelled and checked; all its invariants proved (`HandshakeProofs`),
   `NoStateMissed` for ranks whose names take as many tables (it fails for others).
4. `EndpointSession`: the endpoint's two regions of shared memory, the resource
   manager or daemon and the controllers of successive jobs, crashes included:
   modelled and checked, with liveness; its invariants proved
   (`EndpointSessionProofs`).
5. `AppSampler`: the logs of several processes through the record filters, the
   validation and the common table of short regions to the two readers: modelled and
   checked; all its invariants proved (`AppSamplerProofs`).
6. `StatusBoard`: the status words of the CPUs, their writers in `ProfileImp` and
   the copy that `ApplicationSampler` takes: modelled and checked; all its
   properties proved (`StatusBoardProofs`).
7. `PlatformControl`: push, adjust, write, save and restore of controls over two IO
   groups, with accesses that fail: modelled and checked; that a restore undoes
   everything, proved (`PlatformControlProofs`).
8. `EpochDetector`: the edit-distance record filter, its periodicity detector and its
   state machine, against a definition of the edit distance.

Next, in this order:

9. `NameExchange`: `ProfileTable::key` with two threads, names with lengths in
    buffers of a size.
10. `LeafBalancer`: the numeric part of `PowerBalancer` with `CircularBuffer`, and
    the leaf that has no parent.
11. Signals in `PlatformIO`: `push_signal`, `sample` and the combined signals.

## 3. The modules and the code

In every module a definition that translates code is named in `PROJECT.json`
("map") with the lines it stands for.  A definition under a comment "Mutant" or
"Seeded fault" is not part of any specification: it is a mutation of the
definition after it, used to see that a property notices the fault.  `MC*` modules give
constants their values for TLC.

### RecordLog, RegionLedger

| Code | Model |
|---|---|
| `m_shared_table`: `record_table`, `num_record`, `region_table`, `num_region` | `record_table`, `region_table`, sequences cut at the counters |
| `m_hash_region_enter_map`, `m_entered_region_hash`, `m_epoch_count` | `enter_map`, `entered_hash`, `epoch_count` |
| `ProfileImp::enter/exit` (only outermost calls reach the log) | `current_hash`, `hint_depth`; `OutermostEnter`, `EnterNested`, ... |
| `enter()`, `exit()`, `epoch()`, each under the table's mutex | `EnterNew`, `EnterAgain`, `ExitLong`, `ExitFirstShort`, `ExitStillShort`, `ExitShortAgain`, `Epoch` and the same calls with a full table: `*Overflow`; `ExitBadIndex` is what a release build does where a debug build asserts |
| `dump()` and the loop of `ApplicationSampler::update()` | `Dump`, `Check`, `CheckThrows`, `LoopEnd` |
| `ValidateRecord::check()`, `ProcessRegionAggregator::update()` | `Accepts`, `Validated`, `AggregateRecord` |

A call that holds the mutex is one step.  `fault` tells whether `append_record()` has
thrown ("overflow") and whether an `exit()` has then written beyond `record_table`
("overrun", `ExitBadIndex`): a release build goes on, and what it overwrites is the
padding behind `num_region` and the first short region (`Overrun`).  The application nests its regions
properly and may call at any point of the control loop.  `RegionLedger` knows
only how often a region was completed and how often the controller counted it.

### BalancerTree, StepBarrier

| Code | Model |
|---|---|
| `Controller::step()`: `walk_down()`, `walk_up()` | `turn[n]`: which role of the node acts next, in which direction |
| `TreeCommLevel` mailboxes (MPI windows written under an exclusive lock) | `policy_box`, `sample_box`, named by the role below |
| `RootRole`, `TreeRole`: `m_step_count`, `m_is_step_complete`, `m_policy`, `m_root_cap` | `step`, `complete`, `root_policy`, `root_cap` |
| `LeafRole::m_package`, `PowerBalancerImp` | `cap`, `limit`, `actual`, `target_met`, `trial_delta`, `out_of_bounds`, `slack`, `headroom` |
| exceptions about steps that do not match | `OutOfSync`, `RootOutOfSync`: the controller ends (`failed`) |
| `EndpointUser::read_policy()` in `walk_down()` | `rm_policy`, `last_policy`; `WritePolicy` is the resource manager |

A role's receive, its handler and its send are one step.  This loses nothing:
every mailbox has one writer and one reader, so nobody else can act on what
happens between the read and the write of one role; the roles of a controller
are separate steps, because another node can act between them.  A policy stays
in its mailbox, so an empty one means that the role above never sent, and the
receiver then still holds the policy its controller was constructed with
(`Received`).  Watts are integers.  What the run times of an application make of
a measurement (stable or not, slower or faster than the target) is any answer,
so every property holds whatever the application does.

### Handshake

`AppScript` and `CtlScript` list the calls of the two sides in their order; `pc`
is the place in the script and an action is one call.  `app_status` and
`ctl_status` are the words of `geopm_ctl_message_s`, `last_status` the private
`m_last_status` of every actor.  A barrier is left when all ranks of the node
have reached it (`passed` counts).  `Wait` returns when the other side shows the
next state; it throws on an abort (`WaitAborted`) or when it took too long
(`TimesOut`).  A time-out is long compared with everything else, so it happens
when the other side is gone, or to an actor that is `impatient`.  The turns in
which the ranks list themselves on the CPUs are ordered by rank and the barriers
that end the turns are folded into that order.  A chunk of names is what fits into
a table; only whether a table held the last chunk matters.  Global process ids
and ranks on the node are the same numbers, as on a job of one node.

### EndpointSession

| Code | Model |
|---|---|
| `EndpointImp`: `m_policy_shmem`, `m_sample_shmem`, `m_is_open`, `m_num_policy`, `m_num_sample`, `m_continue_loop` | variables of these names; `rm` is what the calling thread does next, `call`, `agent` and `profile_name` are the locals of its call |
| `shm_open`, `shm_unlink`, `mmap` of `SharedMemory` | `policy_made`, `sample_made` number the regions, `policy_name`, `sample_name` lead to the one the name stands for; memory that is mapped outlives its name |
| `open()`, `close()` | `OpenPolicy`, `OpenSample`, `ZeroPolicy`, `ZeroSample`; `ClosePolicy`, `CloseSample`: a controller may attach in between |
| `get_agent()`, `wait_for_agent_attach/detach()`, `stop_wait_loop()`, `reset_wait_loop()` | `GetAgent`, `Wait`, `WaitPolls`, `WaitEnds`, `WaitGoesOn`, `WaitTimesOut`, `Stop`, `Reset` |
| `DaemonImp::update_endpoint_from_policystore()` | `Wait` with `update`, then `UpdateAgent`, `UpdateProfile`, `UpdatePolicy` or `UpdateFindsNone` |
| `read_sample()`, `get_hostnames()` | `ReadSample`, `GetHostnames` |
| `EndpointUserImp`: constructor, `write_sample()`, destructor | `AttachPolicy`, `AttachSample`, `AttachTimesOut`, `Announce`, `AnnounceFails`; `WriteSample`; `Detach` |
| the resource manager or a controller is killed, the next job starts | `Restart`, `Crash`, `NextJob` |

What is written while one lock is held changes in one action.  The number of a job
stands for the agent, profile and host list names that its controller writes.

### AppSampler

| Code | Model |
|---|---|
| a process and its `ApplicationRecordLog` | `current`, `carried`, `records`, `short_regions`, `epoch_count`; one action for every branch of `enter()`, `exit()` and `epoch()` |
| `ProxyEpochRecordFilter` | `m_count`, `FilterRecord`, `IsProxyEpoch`, `ProxySignal` |
| `ValidateRecord` | `valid`, `Check` |
| `ApplicationSampler::update()`: dump, filter, check, shift the indices | `Sample` with `Filtered`, `Shifted`, `Offset`, `short_region_buffer` |
| `ProcessRegionAggregator::update()`, `EpochIOGroup::read_batch()` | `Completed`, `LastEpoch` |

The log has no limits and no times here (`RecordLog` has both), so that there is
room for several processes.  `Sample` is one step: a process can only act between
the dumps of two logs, and those of different processes have nothing in common.

### EpochDetector

| Code | Model |
|---|---|
| `CircularBuffer` with `insert()` | `m_history_buffer`, the sequence of what is kept; `Insert` |
| `m_DP` with `Didx`, `Dset`, `Dget` | `m_DP` with three indices modulo `HistorySize`; `Kept`, `Dget` |
| `calc_period()` | `BaseDP` (the two loops of base cases), `Column` and `UpdatedDP` (the loop over `mm` and `ii`), `Candidates` and `Update` (the search for the lowest `mm`) |
| `find_smallest_repeating_pattern()` | `SmallestRepeatingPattern` |
| `epoch_detected()` | `SeekPeriod`, `FollowPeriod` |
| `filter()` | `Entry` for a region entry, `Other` for any other record |
| the constructor from a name | `ByName`, `Halves`: what is left of a factor behind an `int` |

The loop writes a distance into every slot that stands for a recent pair of
places, so the model defines the new table slot by slot: `Recent` is the place a slot
stands for.  Distances are numbers; what the code calls INF is a number far above
all distances.  The properties compare the table with `Distance`, which is
defined by the longest common subsequence and knows nothing of tables.

### StatusBoard

| Code | Model |
|---|---|
| `m_app_status_s` in shared memory, no lock | `m_buffer`: a record of words for every CPU |
| an operation of `ApplicationStatus` | the sequence of words it writes to a CPU (`SetHint`, `SetHash`, `ResetWorkUnits`, `SetProcess`) |
| a loop over a set of CPUs, which a `std::set` has in order | `Starts`: `todo` holds the words left for every CPU; `Write` writes one, of the first CPU that has any (`IsNext`) |
| `ProfileImp::init_app_status()`, `init_app_record_log()` | `Construct`, `PassBarrier` |
| `enter()`, `exit()`, `thread_init()`, `thread_post()` | `Enter`, `ExitNested`, `ExitOutermost`, `ThreadInit`, `ThreadPost` |
| `update_cache()` and the hint times of `ApplicationSampler::update()` | `BeginUpdate`, `CopyWord`, `HintTimes`, `EndUpdate` |

`completed_work` is incremented by a thread on its own CPU, so the increment is one
step.  Two variables are history for `RestIsSeen`: `rest` counts the updates that have
begun since a process wrote a word, `posted_before` keeps the completed work at the
beginning of an update.

### PlatformControl

| Code | Model |
|---|---|
| a register; a field of it; a setting | a set of bits, `MaskOf`, a subset of the field |
| `PlatformIOImp::push_control()` with `push_control_convert_domain()` | `PushControl`: the parts of a request, in order, up to one that throws |
| `adjust()` down to `MSRIOImp` and `SSTIOImp` | `Adjust`, `MsrAdjusted`, `SstAdjusted` |
| `write_batch()` | `WriteBatch`: `MsrBatch` is the two ioctls of `msr_ioctl_write()`, `SstWriteBatch` the parts of `SSTIOImp::write_batch()`, for the mailboxes and then for the registers in memory |
| the read masks of `SSTIO` | `Known`: the known fields of a mailbox or register; `Replaced`, `SstModified`: every write clears the other bits |
| `add_mbox_write()`, `add_mmio_write()` | `MboxAdd`: the controls of a mailbox share an entry; `MmioAdd`: in memory each has its own |
| `write_control()`; the limit enables itself | `WriteControl`, `Enables` |
| `save_control()`, `restore_control()` | `SaveControl` (it restores every SST control at once, which clears unknown bits, and drops those that cannot be written), `RestoreControl` |

One thread makes the calls, so a call is one step; where an access fails is
chosen freely, and what was done up to there stays done (`Performs`, `Performed`).

## 4. The runs

All runs are made with `tlc -config <cfg> <module>`.

| Run | Question | Distinct states |
|---|---|---|
| `RecordLog.cfg` | do records and short regions stay paired, the validator content, counts and run times right, wherever the dumps fall, and what is left of it when the table overflows; does every completion arrive (`LedgerSpec`) | 1.25 million |
| `TreeFlat.cfg` | two nodes, two rounds: nobody out of step, lock step, a barrier for the leaves that does not block (`BarrierSpec`), budget kept | 366 thousand |
| `TreeDeep.cfg` | four nodes, two levels, steps and samples relayed by intermediate roles: measuring only under the root's budget | 83 thousand |
| `EndpointRestart.cfg` | up to five budgets written at any time: the root's policy stays in step, no node above its cap | 460 thousand |
| `EndpointSession.cfg` | open, close, crash and restart of the resource manager against two jobs that attach, detach and die: sizes that match, a readable host list, waits that end, a daemon that serves the attached job | 872 thousand |
| `AppSampler.cfg` | two processes, three filters: nothing throws, no completion lost or booked elsewhere, epochs counted | 1.06 million |
| `EpochDetector.cfg` | any seven entries, then a pattern for ever: exact distances, the right period, one epoch for every repetition | 66 thousand |
| `StatusBoard.cfg` | words written and copied one by one: CPUs keep their owner, show the innermost hint, hint times add up, an update sees what a process at rest shows | 4.4 million |
| `PlatformControl.cfg` | two groups, shared mailboxes and failing accesses: restore undoes everything since the save, a batch writes what was adjusted last | 844 thousand |
| `Handshake.cfg` | start-up, name exchange and shutdown of three ranks, with time-outs, missing or shared CPUs and a failing controller | 79 thousand |

Bounds.  `RecordLog.cfg`: two regions (a property concerns one region and what
other regions put between), a table of three records (room for an entry record, a
short region and an epoch, and full after one more), seven calls (enter, exit,
enter, exit, so a short region is repeated; or three epochs, an enter that is
refused, its exit that writes beyond the table, and two more), one tick of the clock.  `TreeFlat.cfg`: six steps are two rounds, so the second
round starts from caps that slack has raised; the powers are so close to both
ends of the hardware's range that clipping and backing up occur.  `TreeDeep.cfg`
stops at step 1, the first that involves a measurement; with step 2 the state
space is beyond three million states.  `EndpointRestart.cfg`: budgets at the ends
of the hardware's range and just beyond them, so that a rewrite may or may not
change the validated power cap; step 2 is the first in which limits move.
`Handshake.cfg`: three ranks, so that one can be late while two others go on; one
or two tables of names.  `EndpointSession.cfg`: two jobs, so that one can replace
the other behind the resource manager's back, two kinds of agent of which one has
no parameters and more and fewer samples than the other, two openings and one
crash of the resource manager, so that names of a dead process are in the way.
`AppSampler.cfg`: two processes (the second has an offset), two regions of which
one is the proxy, five calls of each, which is a region that is short in one
window, carried over the dump and short again; no filter, one epoch for every
entry, and one for every second entry after one of start-up.  `EpochDetector.cfg`: a
history of six records, so that the table wraps four times; seven free records of three
regions fill it with any content; patterns up to four records, the longest this
history can find; both kinds of hysteresis (below and above the base period of two).
A pattern must be known after twelve records (`SettleTime`): eleven are not always
enough.  `StatusBoard.cfg`: one
rank makes three calls (nesting of two, or progress in a region), the other only
starts up; words are copied in the order of memory; two ticks of the clock are
two intervals, so a process may be at rest for a whole one.  `PlatformControl.cfg`: a
power limit over two registers of a package with its enable bit in the same
registers, a frequency, two mailboxes of two fields each (as
`SST::COREPRIORITY_ENABLE` has), one field being asked for on both at once, and a
register in memory with two fields (as `SST::COREPRIORITY:0`), and behind the fields
of these a bit that is set and belongs to none; the driver takes one mailbox at a time
(`BatchLimit = 1`), so there are more than it takes; it may refuse the enable bit or
one field of the mailboxes; settings are all or no bits of a field; six calls (save,
push, adjust, batch, one more, restore), one access that fails; the controller saves
once.

Fairness.  `RecordLog`: the control loop is a thread that is scheduled.
`BalancerTree`: the control loops are scheduled, and the epochs of the
application go on, so that a step that can complete at a sample again and again
does so at one of them (strong fairness of `StepCompletes`).  `Handshake`: every
process is scheduled, and an application that started also ends.
`EndpointSession`: a call of the resource manager that has begun is worked off
(`WF(ManagerStep)`), and the clock of a wait with a time-out runs out at one of
the looks at it (`SF(WaitTimesOut)`: the look comes back in every turn of the
loop).  Nothing is assumed of failures, of writes of the resource manager or of application calls.

Deadlock.  `RecordLog` stops when the bound on calls is reached, and `Handshake`
when everybody has left, or waits for somebody who will not come; these
configurations have `CHECK_DEADLOCK FALSE`, and `EverybodyLeaves` says when the
handshake must not block.  In the newer modules the calls, records, openings and jobs
are bounded, so they stop too.  The tree is checked for deadlock.

Types.  Every module states the types of its variables in `TypeOK`.  The runs of
`RecordLog`, `BalancerTree` and `EndpointSession` check it, and two of these are
proved; in the other modules it documents the variables, and the runs check what
relates them.

### What the violated runs show

Each checks one statement of the documentation, a comment or an assertion.

* `EndpointMeasure.cfg`: with an endpoint the root is asked for a new policy only
  if the resource manager's changed, so the balancer never measures.
* `HandshakeNames.cfg`: ranks that need two and three tables for their names are
  never done in the same trip before the sixth; the controller stops after the
  third.  In `Handshake.cfg` ranks need one or two, where the trips agree.

### Known limits found while modelling, not kept as runs

* Record log: `append_record()` throws after the private map or `m_epoch_count` was
  changed (`ApplicationRecordLog.cpp:121`), so log, `Profile` and controller disagree
  from then on.  After a refused `enter()` the map keeps an entry whose record was
  never written, and its `exit()` uses the index `M_MAX_RECORD`, which only a debug
  build asserts against (163).  A release build adds a short region that no record
  refers to and writes beyond `record_table`, over the first short region
  (`ExitBadIndex`, `Overrun`).  `ShortRegionsIndexed` and the second half of
  `RegionTableFits` hold until then and not after, and the properties of counts, times
  and validation hold of a log that never overflowed.
* Tree: a limit below the hardware's minimum is enforced at the minimum; if the
  hardware is there already the balancer is not told and reports slack that does
  not exist (`PowerBalancerAgent.cpp:266`).  `BudgetKept` shows that this is the
  only way to exceed the budget.  The slack that the headroom of one node cuts off
  is lost (572), the policies of measuring steps still carry the slack of the round
  before, and an intermediate role in its first step drops another budget (367).
* Endpoint and tree: before the first policy is in the endpoint the leaves run
  with the default and send samples, the root has no policy to match and its
  controller ends (436); a rewrite of the cap in the first step can replace a
  policy that a node has not read (458).
* Handshake: two ranks on one CPU: rank zero gives up before a barrier in which
  the others wait for ever (`Profile.cpp:303`); a single rank whose `wait()` times
  out leaves the others in the next barrier (`ControlMessage.cpp:104`).
* Daemon: between `get_agent()` and `write_policy()` the agent may leave and another
  attach, which then reads a policy that was looked up for the first
  (`Daemon.cpp:77-81`; the manual, `geopm_daemon_c.3.ronn:92-94`, speaks of the
  attached agent).  `UpdateServes` therefore speaks of an agent that stays.
* Status: `thread_init()` sets the total and keeps the completed work, so a second
  call in a region starts with progress, posts can pass the total, and with a larger
  total the progress sinks (`ApplicationStatus.cpp:165`; `ApplicationStatus.hpp:75-78`
  and `geopm_prof_c.3.ronn:161` say that the completed work is reset).  The progress a
  reader sees can sink for another reason: `update_cache()` copies word by word
  (`ApplicationStatus.cpp:227-233`), and a copy taken while a process writes may have
  the old hash with the work units already reset, or the hash of one region and
  the hint of another, to which the time is then booked.  `RestIsSeen` promises
  nothing of a process that writes such words during the copy.
* Proxy filter: an entry of the proxy region that was left in the same control loop
  arrives as a short region and is not counted (`ProxyEpochRecordFilter.cpp:162`,
  `geopmlaunch.1.ronn:363-373`).  `EpochsCounted` is about the entries that arrive.
* SST: what a batch reads is kept in `write_value` with OR (`SSTIO.cpp:345`), so a
  second batch sets a bit again that `write_control()` cleared in between in
  another field of the mailbox, as the two of `SST::COREPRIORITY_ENABLE`
  (`SSTIOGroup.cpp:214-215`).  `write_batch()` indexes the mailboxes and the masks by
  the place within a part (`SSTIO.cpp:341-349`): with more mailboxes than the driver
  takes at once, what is read for the later parts goes into the entries of the first,
  and fields that nobody adjusted change.  `BatchExact` says nothing of fields of SST
  that were not adjusted; the run has both cases, and restoring undoes them.
* SST, in memory: every control has an entry of its own (`SSTIO.cpp:248-268`), and all
  entries are read before any is written (368-402).  With two fields of one register
  pushed, as `WEIGHT` and `FREQUENCY_MIN` of `SST::COREPRIORITY:0`
  (`SSTIOGroup.cpp:223-227`), the second write puts the first field back.
  `BatchExact` excepts these registers (`WrittenTwice`); without that TLC finds it
  violated.
* SST, bits outside the known fields: every write clears them (`SSTIO.cpp:447-449`,
  499-500), the restore within `save_control()` included (`SSTIOGroup.cpp:509-510`).
  So `RestoreUndoes` compares with the registers as `save_control()` leaves them.
  Where the driver refuses one field of a mailbox and not another, batches write both and
  `restore_control()` only the latter: it excepts those (`PartlyRefused`).
* Period filter: the parsers of a filter's name return the hysteresis factors as
  `int` (`EditDistEpochRecordFilter.cpp:94-124`), so the 1.5 that is the default of
  the unstable one (281) becomes 1: a period of two records is given up after two
  deviations and not three, as `EditDistEpochRecordFilter.hpp:119-120` has it.  The
  model truncates too (`Halves`), and the runs use a filter made from its name;
  the unit tests use the other constructor.

## 5. What is proved

`RecordLogProofs` proves, for every set of regions, length of the table and bound
on calls, nesting and time:

* `TypeCorrect`: `Spec => []TypeOK`;
* `TablesFitUntilOverrun`: `append_record()` never writes beyond the record table,
  whatever happened before, and the region table holds no more entries than the
  record table, overflows included, until an `exit()` of a refused entry
  (`ExitBadIndex`) has written beyond it, which a release build does (section 4);
* `ShortRegionsOneToOne`: the short-region records of a log and the entries of its
  region table correspond one to one through the `signal` field, until such an `exit()`.

The assumptions are those of `RecordLog`: `NoRegion` is not a region, the table
has at least one record, the bounds are natural numbers.

The two safety invariants are not inductive by themselves: `exit()` turns an
entry record into a short-region record and appends to the region table, which
keeps the pairing only if the index in the private map really names an entry
record behind all short regions.  `IInv` adds that: an entry of the map that is
neither short nor a leftover of an overflow belongs to the region Profile is in
(`OpenEntryIsCurrent`), indices are in range or are the index a failed append left
(`EntryIndicesInRange`), and a hint is on the stack only inside a region.  TLC
checked `IInv` before it was proved.  The proof has a lemma per part of the state
(the application's calls, the log's methods, the controller), so that a step
only argues about the parts it changes, and four lemmas about the pairing of a
sequence of records with a sequence of regions when either is extended.

It also proves, from the same assumptions:

* `ControllerNeverThrows`: as long as the log does not overflow, `ValidateRecord`
  accepts every record;
* `ControllerKnowsRegion`: the controller that has checked everything knows the
  region and the epoch the application is in.

What the controller will accept depends on what it has seen, two dumps may lie between
an entry and its exit, and `exit()` rewrites an entry record that is not dumped yet.
The argument is a replay.  `Replays(recs, from, v, m)` says that the records from one
index on take `ValidateRecord` from the state `v` to the state `m`: times rise, there is
at most one exit and after it at most one entry (a region left and entered again
between two dumps is a short region), they leave and enter the regions of `v` and `m`,
and the epochs in between are all there, in order.  `InStep` says that the records not
yet checked replay from the controller's state to `LogState`, the state the log is in;
while a batch is being checked that goes by way of a state in between, which nothing
else in the program holds.  The application extends the replay at its end
(`ReplayAppend`), or rewrites its last entry (`ReplayConvert`); the controller consumes
it at its beginning (`ReplayStep`).  `EntriesTrue` says what the private map must know
for that: an entry is of the region being executed or names a short region with its
hash, and every entry record of the log is named by the entry of the region that
is open.

Last it proves, from the same assumptions and as long as the log does not overflow:

* `CompletionsCountedOnce`: every completed traversal is in the controller's total, in
  its batch or in the log, and in one of them only;
* `RunTimeIsTimeSpent`: a controller that has caught up attributes to a region the time
  the application spent in it;
* `LogKeepsLedger`: `Spec => Ledger!Init /\ [][Ledger!Next]_(Ledger!vars)`, the safety
  part of the refinement of `RegionLedger`.

The first two are one invariant for two fields of a short region, `AddsUp`: what the
application has done is the controller's total plus the *worth* of the records it
has not added.  A completion or a time is worth what a short region says; an exit
record is worth one completion, and the time since the entry of its region, which may
be in an earlier dump than the exit.  `EntrySeen` is the entry time the controller
will know when it has added its batch, and `EntryKnown` says that it is right for the region
being executed if the log holds no entry of it any more.  A batch holds no exit behind
an entry, so adding an entry does not change the worth of the rest.  The log's tables
change in three ways, each a lemma on sums: a record is appended (`TallyAppend`), an
entry record becomes a short region (`TallyConvert`), a short region grows
(`TallyGrow`), which changes the worth of the one record that names it: that is
`ShortRegionsIndexed`, proved before.  TLC checked these invariants on the
instance of `RecordLog.cfg` before they were proved.

`EndpointSessionProofs` proves, for any number of jobs, kinds of agent, numbers of
parameters and samples, and openings:

* `TypesKept`: `Spec => []TypeOK`, with the regions mapped wherever they are used;
* `SizesAlwaysMatch`: `write_policy()` in the daemon's update is never given a
  policy of another size;
* `HostnamesAlwaysReadable`: an open endpoint that shows an agent finds the host
  list of its job.

The assumptions are those of `EndpointSession`: there is a job, and the numbers
are natural.  The invariant that is inductive adds three things.  `ManagerMapped`
and `ControllerMapped` say at which places of the two scripts which region is
mapped.  `Sized` ties `m_num_policy` to the agent that the update has seen, while
it is between `get_agent()` and `write_policy()`.  `ListedIn` says of *every* region,
not only of the one that is open, that an agent shown there was announced with its
list, and that the job at hand is shown at most in the region its controller has
mapped: without it `Detach`, which removes the list of a job, could take it away
from another region that still shows the job.  Two frame lemmas say what each
side leaves alone, so that the rest of the argument is local to a side.

`BalancerTreeProofs` proves, for any tree of any depth, any powers and any number of
steps:

* `NobodyThrows`: `failed` stays empty: no role ever sees a policy or a sample of a
  step it cannot be in, and the exceptions of `adjust_platform()`, `ascend()` and
  `descend()` about steps are never thrown;
* `RolesInLockStep`: a role is never ahead of the role above it, nor more than one
  step behind;
* `MeasurementUnderBudget`: the root leaves the first step only when every leaf, at
  any depth, runs under the root's budget;
* `TreeIsABarrier`: `Spec => Barrier!Safety`, the safety part of the refinement of
  `StepBarrier`: a leaf that begins a step maps to an `Advance`, a leaf that
  completes one to a `Complete`, every other step to a stutter;
* `RootHoldsMatchingPolicy`: the policy the root holds is of its step or the next.

The last one holds with an endpoint as well.  The others have the hypothesis
`~Endpoint`: the budget comes from a policy file.  With an endpoint they are false
(TLC finds a counterexample to each within a thousand states or a few): a new
budget restarts the root while the tree is in the middle of a step.  What does hold
then is checked by `EndpointRestart.cfg`.  The assumptions are those of
`BalancerTree`.  One of them is about the shape of the tree: `LevelAssumption` says
that the roles are the levels of one tree, with the root's own node at the
first place of every level (`TreeComm` builds them so: rank zero of a level goes on
to the next).

Each of these relates roles that share no variable, two leaves of different
subtrees say.  The inductive invariant, `InSync`, is local to a link of the
tree: it relates a role, the role above it and the two mailboxes between them.  A
role has been sent nothing, or the mailbox holds the policy of the step of the role
above and the role is in that step or has completed the one before (`Sent`); a role
that has completed a step keeps those below in it (`Held`); a sample tells only of a
step that is completed (`Honest`).  That the whole tree stands behind a role that has
completed (`AllInStep`) follows by going down: among the roles that are out of
step, take one of the least depth; the role above it is in step, so `Held` says
that it is, too.  With that the refinement needs no history: a leaf that begins a
step has received the policy of a role that began it, hence the root has, and the
root begins a step only when all have completed the one before.

Of the power `BalancerTreeProofs` proves, for any tree, any powers and any number of steps:

* `NodesUnderCap`: the limit that a node has in force is never above its own cap
  (or the least that the hardware takes);
* `BudgetIsKept`: the limits in force of the nodes that have one are, on average, no
  more than the budget of the job, up to the first request that
  `adjust_platform()` clips without telling the balancer;
* `TypesOfTree`: `Spec => []TypeOK`, which says, beyond types, that steps stay in
  range and that no cap or limit is above what the hardware takes.

The hypotheses are a policy file (`~Endpoint`) and `Delta < MinPower`: the first trial
delta of `PowerBalancer` is 8 W (`PowerBalancer.cpp:73`), less than any package
can be limited to.  It keeps limits positive; a limit of zero would be taken for one
that is not set.  With an endpoint `BudgetKept` has no single budget to speak of.

The budget is a property of all the nodes together, kept by messages that each tell
of a few, and in some states it is not visible in the caps at all: while the
policy of a new step goes down, some leaves have raised their caps and others,
whose slack that is, still have theirs.  `PowerInv` therefore counts what the
root's policy *will* do: `Share[n]` is the cap of a leaf that has begun the step of
the policy, and the limit plus the slack of the policy for one that still has to
(`Waiting`).  The shares add up to at most the budget in every state.  A leaf that
begins the step leaves its share as it is; a leaf that has completed a reduction
keeps its limit, so its share does not move while it waits.  When the root
prepares a policy, nobody waits, and what it may hand out is known if the sample
of the tree is the slack of all leaves: `Covers` says of every sample of a
reduction that its slack is the sum over the leaves *below* its role and its
headroom one that each of them has.  The leaves below a role are defined by closure
(`Under`); that the roles of one level have disjoint sets of them (`UnderOne`), which
the sum over the levels needs, is where the shape of the tree matters.  The rest
of `PowerInv` is the state of one leaf (`Begun`): that a limit below what the
hardware takes has been noticed when it matters, and that a reduction ends with the
slack it made.  TLC checked `PowerInv` on the instances of the runs, with a larger
trial delta and more steps besides, before it was proved.

`SumTheorems` holds what these proofs need to know about `MapThenSumSet` of the
community modules: that a sum is that of its parts, over disjoint sets, of two
functions, is monotone, and is a product when all the terms are the same; and, for
the tables of the record log and the hint times, that of an interval with or without its first or last
element, and of a function changed at one place.  The
recursion of the fold is a choice of a recursive function over all the subsets,
so what a theorem prover needs first is that the choice has a solution
(`PartialSumsAt`) and only one (`SolutionsAgree`).  Induction is over sets of
instances (`SubsetInduction`), by the least size of a counterexample, as the
library's own induction theorems take an operator.

`StatusBoardProofs` proves, for any processes and sets of CPUs, any regions and any
number of calls and updates:

* `CpusKeepTheirOwner`: a process that has written the words of its start-up stays
  the owner of its CPUs;
* `CpusShowHints`: between two calls of a process its CPUs show its region and the
  innermost hint;
* `HintTimesAddUp`: the hint times of a CPU add up to the time between the first
  update and the last;
* `RestingProcessIsSeen`: `Spec => RestIsSeen`, an update sees of a process at rest
  what its CPUs show and books the time to its hint, an action property;
* `WordsHaveTypes`: `Spec => []TypeOK`.

The assumptions are those of `StatusBoard`: the processes have disjoint sets of CPUs,
which are numbers, and the regions are finitely many, as the hint times are a sum
over the hints.

The words of a call are written one by one, by all processes at once, so neither
property about what a CPU shows is inductive.  The invariant is about words that are
not written yet: `WillShow` says of a CPU and a field that every word that is still
to be written there has a value, and that the buffer has it if there is no such word.
Writing a word keeps that whichever word it is (`WriteShows`), so a call has to be
looked at only where it starts: its words must agree with where the process will be
(`CallShows`).  `OwnCpus` and `StartUp` say that nobody else has words for these CPUs:
`StartUp` is what the barrier of `init_app_status()` provides, that behind it every
process has constructed its own status and written all of it, and `Untouched` that
until a process runs its CPUs are as every constructor leaves them, so that the
constructors of the others change nothing (`WriteClears`).

For what an update sees, `RestInv` says of a process at rest that each word copied so
far (`Copied`) is the one its CPUs show, that its copied progress lies between that at
the beginning and the present one, and that the hint of the last update is still the one
shown if it was at rest then.  A step of the application that leaves `rest` above zero
changes nothing but the progress on these CPUs (`RestKeepsBuffer`).

`HandshakeProofs` proves, for any number of ranks, any affinities, any waits that
time out early, and a controller that may fail or not:

* `TypesOfHandshake`: the types, that a controller that gave up does not run, and that
  it has finished no table before it has read the map;
* `TablesForAll`: `Spec => []MapIsComplete`, the ranks that have CPUs, and no others,
  have a table once the controller has read the map;
* `NamesAtRest`: `Spec => []NobodyFills`, no rank writes names while the controller
  reads them;
* `NamesOfAllRanks`: `Spec => []NamesComplete`, the controller has every name of every
  rank with a table when it leaves the loop, however many tables each rank needs;
* `NothingMissed`: `Spec => [](SameTrips => NoStateMissed)`, no state is overwritten
  before the other side saw it, as long as both sides make the same trips;
* `NothingMissedWhenUniform`: `Spec => [](Uniform => SameTrips /\ NoStateMissed)`, they
  do, and no state is missed, where the names of all ranks take as many tables.

The hypotheses of the last two are not for the sake of the proof.  With ranks that
need two and three tables both `SameTrips` (the run `HandshakeNames`) and
`NoStateMissed` fail: the controller counts a rank that was done once, the
application needs all ranks to be done in the same trip, and a rank starts from the
beginning while the others go on.

The assumptions are those of `Handshake`: there is a rank, and the affinities are sets
of CPUs.  Nothing is assumed of who shares a CPU with whom.  Ranks list themselves one
after the other, the controller reads when a status word has the second value, and
between the two are two barriers and a check by rank zero, so `MapInv` relates all of
these.  `Pace` says that a rank that has left a barrier more than another is one
barrier ahead, with the other in front of that barrier; `Count` says how many barriers
a rank has left at each place up to the table.  From the two follows what one rank's
place says of another's: behind the barrier after the map all ranks have listed
themselves (`AllListed`), and a rank in the loop over the names knows that rank zero has
left the map behind (`ZeroSaid`), so that its write of the application's status word,
which only rank zero may write before, disturbs nobody.  `Listed` says what the map
holds in the middle of the ranks' turns: a CPU that is unassigned has no holder, one
that names a rank has it as its only holder.  `NoneShared` is what the check of rank
zero establishes, and `AppWord` and `CtlFollows` carry it to the controller.

Beyond the map the ranks go round in a loop, and the place of a rank does not say any
more how many barriers it has left.  `Aligned` replaces `Count` there: ranks that have
left as many barriers are on the same leg of the script (`Together`, with the loop's
last leg and the one into it joined at the barrier of place 29), a rank that is one
barrier ahead is on the next leg, and `test()` told all ranks of a round the same
(`DoneAlike`), so that they leave the loop together.  `TripInv` relates the two sides:
what the words say at each place (`AppSays`, `CtlSays`; the word of the application
depends on whether some rank has opened the next round already, `Opened`), what each
side saw last (`RanksSaw`, `CtlSaw`), that nobody is beyond what the other side has
said (`Waited`, `Heard`), that in a round all ranks are in it and have filled their
tables when the controller reads (`InRound`), and that after it none fills again before
the controller opens the next (`AfterRound`).  These hold for any numbers of tables:
where the trips differ the controller has left the loop, and ranks that open another
round wait in it.  `NobodyFills` is a part of `InRound`; `NoStateMissed` follows at each
place where an actor waits, but for the controller's wait behind the loop (place 19),
which needs `SameTrips`.  `NamesInv` adds what the controller has of the names: of a rank with a
full table all but the chunk in it, of the others all up to their position, of a
finished rank everything.  `Even`, under `Uniform`, says that all ranks fill the same
chunk in a round (`SameChunk`), so that all of them are done or none is, that what
`test()` told is still true until the next round, and that a rank that goes into
another round after the controller has answered does so because the ranks are not done
(`Told`).  TLC checked `TripInv`, `NamesInv` and `Even` before they were proved.

`PlatformControlProofs` proves, for any registers and controls, any requests of
several controls, any accesses that fail and any number of calls:

* `RestoredAll`: `Spec => []RestoreUndoes`, a `restore_control()` that returns leaves all
  registers as they were when `save_control()` returned, but for a mailbox or register
  in memory of which the driver refused one field and not another (`PartlyRefused`).

It has no hypothesis on the number of mailboxes or of fields in one.  The assumptions
are those of `PlatformControl`: controls have names, a request is of one control or
more, and what is enabled with a control is a control.

Half of the argument is about the restore itself: it writes every field that
`Restored` has, so the bits there are as before.  The other half is about all other
bits: nothing may have touched them.  `Own(r)` is what the available controls have of a
register (all of it if it is partly refused), and `Intact` says that outside of it the
registers are as before; a call keeps that whichever accesses it has made when it
fails, as each of them is harmless (`HarmlessAccesses`, `StaysIntact`).  What a call
will write may have been read by an earlier one: after a second ioctl that failed, the operations of the batch are still
writes with the old contents, and a mailbox still has what it read.  `OpFine` says that
the former agree with the registers of before outside of `Own`.  Of the latter that
need not be: with the indices of `SstModified` an entry may have any bits.  But it has no
other bits than the known fields of its register (`IfFine`, `ModifiedKept`), and outside
of these the register was cleared by the save already (`Clean`); so to write it as a
whole is harmless whatever was read before (`KnownHarmless`).  `SaveInv` adds that only
available controls were pushed, and none before the save.  The accesses of a call are a
fold over a sequence; `PerformedAgrees` shows what it leaves, by induction over sets of
places as for the sums, and `FlattenedElements` does the same for `FlattenSeq`.

`AppSamplerProofs` proves, for any number of processes, any regions, proxy region
and filter parameters, and any number and interleaving of calls and control loops:

* `NeverThrows`: `Spec => []NothingThrows`, neither `ValidateRecord::check()` nor
  `get_short_region()` throws, with a filter or without;
* `CountsEpochs`: `Spec => []EpochsCounted`, `EPOCH_COUNT` is the number of epochs of the
  process that the control loops have seen or, with a proxy filter, one for the first
  of every so many entry records after the start-up;
* `ConservesCounts`: `Spec => []CountsConserved`, what the aggregator has counted and what
  the log still has is what the process did;
* `LogsFit`: `Spec => []LogInv`, the invariant that these rest on.

The assumptions are those of `AppSampler`: numbers are natural, the proxy region is a
region, "no region" is none, and a filter's number of calls is not zero.

`LogInv` says how the log of a process fits the process and the controller
(`LogFits`).  With no times in the records it need not be a replay as in
`RecordLogProofs`; it says what is there at all: one record for each short region
(`Booked`), at most one entry, of the region the process is in (`EntryFits`), at most one
exit, of the region the controller knows of and before the entry (`ExitFits`), and
that a region is known to the controller, entered in the log, or was short in an
earlier window and is carried (`KnownFits`, `CarriedFits`, `CurrentFits`).  A window of such a
log passes the validation (`HashAt` is the region known after its first records) and
leaves a log that fits (`DumpFits`), also behind a filter that removes its epochs and adds others
(`FilterPasses`); with none the epochs are numbered on from the validated one
(`Numbered`), with one the validated epoch is what the count of proxy entries makes it
(`Made`), which is the manual's `EpochsOf` (`MadeIsEpochs`).  `EpochInv` adds that the report
has the validated epoch and that no entry record is without an entry.

For the counts `CountInv` is the property itself, written without folds: `Logged` is the
number of exit records and the sum over the table.  A call adds one completion to
both sides.  A control loop moves all of them: what the aggregator adds for a short
record is looked up in the common table, at the index that `update()` moved; the table
of process `p` begins there at the length of those before it (`FlatPlaces`), so the
look-up finds the short region of the process (`BufferAt`), and as `Booked` is a bijection
between short records and short regions, the sum over the records is the sum over
the table (`TotalLogged`).

The program's loops are folds from the left over a sequence, which the community
modules define by a recursion over sets of places.  `FoldsExist` says that this
recursion has a solution, by induction over the size of the set, and `FoldChain` that the
fold is the last of a chain of values, each made from the one before and an element: with
that an argument about a loop is one about its steps (`PlaceInduction`).

Only model-checked: liveness (`EverybodyLeaves` and the liveness part of the abstract
specifications, which the provers cannot reach); `BatchExact` of `PlatformControl`; and
`EpochDetector`, whose
properties are about what a recursive edit distance is for whole sequences, which takes
induction over data.

## 6. What is not modelled

The components with status `not_modelled` in `PROJECT.json`, with reasons there.
Inside the modelled components: process death at arbitrary points (the runtime
does not recover from it), memory ordering of the two volatile status words
(writes are assumed to become visible in order), nodes with several packages,
floating point, the construction of communicators, tracing and reporting.  The
endpoint: `open()` of an endpoint that is open, the time stamps, and a crash in the
middle of a creation.  The status: `geopm_tprof_post()` outside a region, which is an
error of the application.  Platform control: MSRIO without the batch driver, and the
signals.
