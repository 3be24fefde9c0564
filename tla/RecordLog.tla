------------------------------ MODULE RecordLog ------------------------------
(***************************************************************************)
(* One application process, the shared-memory record log it writes         *)
(* (ApplicationRecordLog.cpp) and the controller that drains it.           *)
(*                                                                         *)
(*   application   enters and leaves properly nested regions, marks epochs *)
(*   Profile       forwards only the outermost enter and exit to the log   *)
(*   log           compresses "entered and left between two dumps" into a  *)
(*                 short-region record with an aggregated count and time   *)
(*   controller    ApplicationSampler::update() dumps the log and checks   *)
(*                 each record, ProcessRegionAggregator::update() adds up  *)
(*                 counts and run times per region                         *)
(*                                                                         *)
(* enter(), exit(), epoch() and dump() hold the mutex of the shared region *)
(* for the whole call, so each is one step.  Indices (record_idx,          *)
(* region_idx, the signal of a short-region record) are the zero-based     *)
(* numbers of the C++ arrays: index i is element i + 1 of the sequence.    *)
(***************************************************************************)
EXTENDS Integers, Sequences, FiniteSetsExt

CONSTANTS
    Region,     \* region hashes the application uses
    NoRegion,   \* GEOPM_REGION_HASH_INVALID in the log, _UNMARKED in Profile
    Garbled,    \* a hash overwritten by a write beyond record_table: no region's
    MaxRecord,  \* M_MAX_RECORD, the length of record_table
    MaxCalls,   \* bound on the calls the application makes
    MaxDepth,   \* bound on how deep the application nests regions
    MaxTime     \* bound on the clock

ASSUME NoRegionAssumption == NoRegion \notin Region
ASSUME GarbledAssumption == Garbled \notin Region \cup {NoRegion}
ASSUME MaxRecordAssumption == MaxRecord \in Nat \ {0}
ASSUME BoundsAssumption == MaxCalls \in Nat /\ MaxDepth \in Nat /\ MaxTime \in Nat

VARIABLES
    \* the application
    app_stack,      \* regions entered and not yet left, innermost first
    app_enter_time, \* when the outermost of them was entered
    done,           \* completed outermost traversals of each region
    spent,          \* time spent in them
    now,            \* geopm_time()
    calls,          \* calls made so far
    \* ProfileImp
    current_hash,   \* m_current_hash
    hint_depth,     \* m_hint_stack.size()
    \* ApplicationRecordLogImp, the writer's private state
    enter_map,      \* m_hash_region_enter_map
    entered_hash,   \* m_entered_region_hash
    epoch_count,    \* m_epoch_count
    fault,          \* the worst so far: "none", "overflow" (append_record threw)
                    \* or "overrun" (exit() wrote beyond record_table)
    \* the shared memory: record_table and region_table up to num_record and
    \* num_region
    record_table,
    region_table,
    \* the controller
    ctl_pc,         \* which part of the control loop runs
    ctl_next,       \* index of the next record of the batch
    batch,          \* m_process_s::records, filled by dump()
    batch_regions,  \* m_process_s::short_regions, filled by dump()
    valid,          \* ValidateRecord: last time, open region, last epoch
    total_count,    \* ProcessRegionAggregator: region_info_s::total_count
    total_runtime,  \* region_info_s::total_runtime
    last_entry      \* region_info_s::last_entry_time

appVars  == <<app_stack, app_enter_time, done, spent, calls>>
profVars == <<current_hash, hint_depth>>
logVars  == <<enter_map, entered_hash, epoch_count, fault>>
tableVars == <<record_table, region_table>>
ctlVars  == <<ctl_pc, ctl_next, batch, batch_regions, valid,
              total_count, total_runtime, last_entry>>
vars == <<appVars, now, profVars, logVars, tableVars, ctlVars>>

-----------------------------------------------------------------------------
(* Types.  The 64-bit signal of a record is a hash, a region index or an   *)
(* epoch count depending on the event: "hash" holds the first, "num" the   *)
(* other two.                                                              *)

Event == {"ENTRY", "EXIT", "EPOCH", "SHORT"}
Record == [event : Event, hash : Region \cup {NoRegion}, num : Nat, time : Nat]
ShortRegion == [hash : Region \cup {Garbled}, num_complete : Nat, total_time : Int]
EnterInfo == [record_idx : Nat \cup {-1}, region_idx : Nat \cup {-1},
              enter_time : Nat, is_short : BOOLEAN]

RegionRecord(event, hash) ==
    [event |-> event, hash |-> hash, num |-> 0, time |-> now]
\* Seeded fault: the index taken after num_region was advanced.
ShortRecordAfterIncrement(idx, time) ==
    [event |-> "SHORT", hash |-> NoRegion, num |-> idx + 1, time |-> time]
ShortRecord(idx, time) ==
    [event |-> "SHORT", hash |-> NoRegion, num |-> idx, time |-> time]
EpochRecord(count) ==
    [event |-> "EPOCH", hash |-> NoRegion, num |-> count, time |-> now]

num_record == Len(record_table)
num_region == Len(region_table)
Full == num_record >= MaxRecord

AppTypeOK ==
    /\ app_stack \in Seq(Region)
    /\ app_enter_time \in Nat
    /\ done \in [Region -> Nat]
    /\ spent \in [Region -> Int]
    /\ now \in Nat
    /\ calls \in Nat

LogTypeOK ==
    /\ current_hash \in Region \cup {NoRegion}
    /\ hint_depth \in Nat
    /\ DOMAIN enter_map \in SUBSET Region
    /\ enter_map \in [DOMAIN enter_map -> EnterInfo]
    /\ entered_hash \in Region \cup {NoRegion}
    /\ epoch_count \in Nat
    /\ fault \in {"none", "overflow", "overrun"}

TableTypeOK ==
    /\ record_table \in Seq(Record)
    /\ region_table \in Seq(ShortRegion)

CtlTypeOK ==
    /\ ctl_pc \in {"idle", "check", "aggregate", "failed"}
    /\ ctl_next \in Nat \ {0}
    /\ batch \in Seq(Record)
    /\ batch_regions \in Seq(ShortRegion)
    /\ valid \in [time : Nat, region : Region \cup {NoRegion}, epoch : Nat]
    /\ total_count \in [Region -> Nat]
    /\ total_runtime \in [Region -> Int]
    /\ last_entry \in [Region -> Nat]

TypeOK == AppTypeOK /\ LogTypeOK /\ TableTypeOK /\ CtlTypeOK

NoEntries == [h \in {} |-> <<>>]

Init ==
    /\ app_stack = <<>> /\ app_enter_time = 0
    /\ done = [h \in Region |-> 0] /\ spent = [h \in Region |-> 0]
    /\ now = 0 /\ calls = 0
    /\ current_hash = NoRegion /\ hint_depth = 0
    /\ enter_map = NoEntries /\ entered_hash = NoRegion
    /\ epoch_count = 0 /\ fault = "none"
    /\ record_table = <<>> /\ region_table = <<>>
    /\ ctl_pc = "idle" /\ ctl_next = 1
    /\ batch = <<>> /\ batch_regions = <<>>
    /\ valid = [time |-> 0, region |-> NoRegion, epoch |-> 0]
    /\ total_count = [h \in Region |-> 0]
    /\ total_runtime = [h \in Region |-> 0]
    /\ last_entry = [h \in Region |-> 0]

-----------------------------------------------------------------------------
(* The application.  It nests regions properly and goes on after a failed  *)
(* call: geopm_prof_enter() and the others only return an error code.      *)

Call == calls < MaxCalls /\ calls' = calls + 1

AppEnter(h) ==
    /\ Call
    /\ Len(app_stack) < MaxDepth
    /\ app_stack' = <<h>> \o app_stack
    /\ app_enter_time' = IF app_stack = <<>> THEN now ELSE app_enter_time
    /\ UNCHANGED <<done, spent, now>>

AppExit(h) ==
    /\ Call
    /\ app_stack # <<>>
    /\ h = Head(app_stack)
    /\ app_stack' = Tail(app_stack)
    /\ IF Len(app_stack) = 1
         THEN /\ done' = [done EXCEPT ![h] = @ + 1]
              /\ spent' = [spent EXCEPT ![h] = @ + (now - app_enter_time)]
         ELSE UNCHANGED <<done, spent>>
    /\ UNCHANGED <<app_enter_time, now>>

Tick ==
    /\ now < MaxTime
    /\ now' = now + 1
    /\ UNCHANGED <<appVars, profVars, logVars, tableVars, ctlVars>>

-----------------------------------------------------------------------------
(* check_reset(): an empty table means the controller has dumped it.  Only *)
(* the entry of the region being executed survives, and only if the region *)
(* was already marked short; it then has no record in the new table.       *)

\* Seeded faults: the short entry is forgotten, or any open entry is kept.
LiveMapForgets == IF num_record # 0 THEN enter_map ELSE NoEntries
LiveMapKeepsOpen ==
    IF num_record # 0 THEN enter_map
    ELSE IF entered_hash \in DOMAIN enter_map
         THEN [h \in {entered_hash} |->
                 [enter_map[h] EXCEPT !.record_idx = -1, !.region_idx = -1]]
         ELSE NoEntries

LiveMap ==
    IF num_record # 0 THEN enter_map
    ELSE IF entered_hash \in DOMAIN enter_map /\ enter_map[entered_hash].is_short
         THEN [h \in {entered_hash} |->
                 [enter_map[h] EXCEPT !.record_idx = -1, !.region_idx = -1]]
         ELSE NoEntries

WithEntry(map, h, info) ==
    [k \in DOMAIN map \cup {h} |-> IF k = h THEN info ELSE map[k]]

Append1(record) == record_table' = Append(record_table, record)

\* append_record() throws.
Refused == fault' = IF fault = "none" THEN "overflow" ELSE fault

(* Profile::enter() outside of any region calls ApplicationRecordLog::     *)
(* enter().  It sets m_current_hash first and pushes m_hint_stack last, so *)
(* an exception of the log comes between the two.                          *)

NewInfo == [record_idx |-> num_record, region_idx |-> -1,
            enter_time |-> now, is_short |-> FALSE]

OutermostEnter(h) ==
    /\ AppEnter(h)
    /\ current_hash = NoRegion
    /\ current_hash' = h
    /\ UNCHANGED <<epoch_count, region_table, ctlVars>>

\* Seeded fault: the timer is not restarted.
EnterAgainKeepsTimer(h) ==
    /\ OutermostEnter(h)
    /\ h \in DOMAIN LiveMap
    /\ enter_map' = LiveMap
    /\ entered_hash' = h
    /\ hint_depth' = hint_depth + 1
    /\ UNCHANGED <<fault, record_table>>

\* The hash was already seen in this control interval: only restart the timer.
EnterAgain(h) ==
    /\ OutermostEnter(h)
    /\ h \in DOMAIN LiveMap
    /\ enter_map' = [LiveMap EXCEPT ![h].enter_time = now]
    /\ entered_hash' = h
    /\ hint_depth' = hint_depth + 1
    /\ UNCHANGED <<fault, record_table>>

\* First entry of the control interval: a region entry record.
EnterNew(h) ==
    /\ OutermostEnter(h)
    /\ h \notin DOMAIN LiveMap
    /\ ~Full
    /\ Append1(RegionRecord("ENTRY", h))
    /\ enter_map' = WithEntry(LiveMap, h, NewInfo)
    /\ entered_hash' = h
    /\ hint_depth' = hint_depth + 1
    /\ UNCHANGED fault

\* append_record() throws after the map entry was created.
EnterOverflow(h) ==
    /\ OutermostEnter(h)
    /\ h \notin DOMAIN LiveMap
    /\ Full
    /\ enter_map' = WithEntry(LiveMap, h, NewInfo)
    /\ Refused
    /\ UNCHANGED <<entered_hash, hint_depth, record_table>>

\* A nested enter only pushes a hint.
EnterNested(h) ==
    /\ AppEnter(h)
    /\ current_hash # NoRegion
    /\ hint_depth' = hint_depth + 1
    /\ UNCHANGED <<current_hash, logVars, tableVars, ctlVars>>

(* Profile::exit(): pops m_hint_stack and calls ApplicationRecordLog::     *)
(* exit() when that leaves it empty; m_current_hash is reset last.         *)

OutermostExit(h) ==
    /\ AppExit(h)
    /\ hint_depth = 1
    /\ hint_depth' = 0
    /\ UNCHANGED <<epoch_count, ctlVars>>

ExitReturns ==
    /\ current_hash' = NoRegion
    /\ entered_hash' = NoRegion
    /\ UNCHANGED fault

\* The entry went out with an earlier dump: a plain exit record.
ExitLong(h) ==
    /\ OutermostExit(h)
    /\ h \notin DOMAIN LiveMap
    /\ ~Full
    /\ Append1(RegionRecord("EXIT", h))
    /\ enter_map' = LiveMap
    /\ ExitReturns
    /\ UNCHANGED region_table

Elapsed(h) == now - LiveMap[h].enter_time

NewShortRegion(h) ==
    [hash |-> h, num_complete |-> 1, total_time |-> Elapsed(h)]

\* Seeded fault: the index of the short region is not kept in the map.
ExitFirstShortForgets(h) ==
    /\ OutermostExit(h)
    /\ h \in DOMAIN LiveMap
    /\ LiveMap[h].region_idx = -1
    /\ LiveMap[h].record_idx \in 0 .. num_record - 1
    /\ LET i == LiveMap[h].record_idx + 1
       IN  record_table' = [record_table EXCEPT
                              ![i] = ShortRecord(num_region, @.time)]
    /\ region_table' = Append(region_table, NewShortRegion(h))
    /\ enter_map' = [LiveMap EXCEPT ![h].is_short = TRUE]
    /\ ExitReturns

\* First completion in this control interval: the entry record becomes a
\* short-region record.
ExitFirstShort(h) ==
    /\ OutermostExit(h)
    /\ h \in DOMAIN LiveMap
    /\ LiveMap[h].region_idx = -1
    /\ LiveMap[h].record_idx \in 0 .. num_record - 1
    /\ LET i == LiveMap[h].record_idx + 1
       IN  record_table' = [record_table EXCEPT
                              ![i] = ShortRecord(num_region, @.time)]
    /\ region_table' = Append(region_table, NewShortRegion(h))
    /\ enter_map' = [LiveMap EXCEPT ![h].is_short = TRUE, ![h].region_idx = num_region]
    /\ ExitReturns

\* A region marked short in an earlier interval has no record yet: an entry
\* record is appended and at once converted.
ExitStillShort(h) ==
    /\ OutermostExit(h)
    /\ h \in DOMAIN LiveMap
    /\ LiveMap[h].record_idx = -1
    /\ ~Full
    /\ Append1(ShortRecord(num_region, now))
    /\ region_table' = Append(region_table, NewShortRegion(h))
    /\ enter_map' = [LiveMap EXCEPT ![h].record_idx = num_record,
                                    ![h].region_idx = num_region]
    /\ ExitReturns

\* Seeded fault: the time is added and the completion is not.
ExitShortAgainUncounted(h) ==
    /\ OutermostExit(h)
    /\ h \in DOMAIN LiveMap
    /\ LiveMap[h].record_idx # -1
    /\ LiveMap[h].region_idx # -1
    /\ LET k == LiveMap[h].region_idx + 1
       IN  region_table' = [region_table EXCEPT ![k].total_time = @ + Elapsed(h)]
    /\ enter_map' = LiveMap
    /\ ExitReturns
    /\ UNCHANGED record_table

\* Another completion of a region already in the short region table.
ExitShortAgain(h) ==
    /\ OutermostExit(h)
    /\ h \in DOMAIN LiveMap
    /\ LiveMap[h].record_idx # -1
    /\ LiveMap[h].region_idx # -1
    /\ LET k == LiveMap[h].region_idx + 1
       IN  region_table' = [region_table EXCEPT ![k].num_complete = @ + 1,
                                                ![k].total_time = @ + Elapsed(h)]
    /\ enter_map' = LiveMap
    /\ ExitReturns
    /\ UNCHANGED record_table

\* append_record() throws: the hint stack is popped, the region is not left.
ExitOverflow(h) ==
    /\ OutermostExit(h)
    /\ h \in DOMAIN LiveMap => LiveMap[h].record_idx = -1
    /\ Full
    /\ enter_map' = IF h \notin DOMAIN LiveMap THEN LiveMap
                    ELSE [LiveMap EXCEPT ![h].record_idx = num_record]
    /\ Refused
    /\ UNCHANGED <<current_hash, entered_hash, tableVars>>

\* The record of the entry was refused, so record_idx is M_MAX_RECORD.  "Invalid
\* record index" is an assertion of debug builds only: a release build adds a
\* short region that no record refers to and writes its index to
\* record_table[M_MAX_RECORD], which is the memory of num_region's padding and of
\* region_table[0]: the event falls on the upper half of its hash and the signal
\* on its num_complete.  When the new region is itself region_table[0] the order
\* of these stores is the compiler's.
Overrun(h) ==
    LET grown == Append(region_table, NewShortRegion(h))
        first(hash, count) ==
            [grown EXCEPT ![1].hash = hash, ![1].num_complete = count]
    IN  IF num_region > 0 THEN {first(Garbled, num_region)}
        ELSE {first(hash, count) : hash \in {h, Garbled}, count \in {0, 1}}

ExitBadIndex(h) ==
    /\ OutermostExit(h)
    /\ h \in DOMAIN LiveMap
    /\ LiveMap[h].region_idx = -1
    /\ LiveMap[h].record_idx >= num_record
    /\ region_table' \in Overrun(h)
    /\ enter_map' = [LiveMap EXCEPT ![h].is_short = TRUE, ![h].region_idx = num_region]
    /\ current_hash' = NoRegion
    /\ entered_hash' = NoRegion
    /\ fault' = "overrun"
    /\ UNCHANGED record_table

ExitNested(h) ==
    /\ AppExit(h)
    /\ hint_depth > 1
    /\ hint_depth' = hint_depth - 1
    /\ UNCHANGED <<current_hash, logVars, tableVars, ctlVars>>

\* Seeded fault: the empty m_hint_stack is popped.
ExitUnmatchedPops(h) ==
    /\ AppExit(h)
    /\ hint_depth = 0
    /\ hint_depth' = -1
    /\ UNCHANGED <<current_hash, logVars, tableVars, ctlVars>>

\* "expected at least one enter before exit call"
ExitUnmatched(h) ==
    /\ AppExit(h)
    /\ hint_depth = 0
    /\ UNCHANGED <<profVars, logVars, tableVars, ctlVars>>

(* Profile::epoch() calls ApplicationRecordLog::epoch() in or out of a     *)
(* region; the count is advanced before append_record() may throw.         *)

EpochCall ==
    /\ Call
    /\ epoch_count' = epoch_count + 1
    /\ enter_map' = LiveMap
    /\ UNCHANGED <<app_stack, app_enter_time, done, spent, now, profVars,
                   entered_hash, region_table, ctlVars>>

Epoch ==
    /\ EpochCall
    /\ ~Full
    /\ Append1(EpochRecord(epoch_count + 1))
    /\ UNCHANGED fault

EpochOverflow ==
    /\ EpochCall
    /\ Full
    /\ Refused
    /\ UNCHANGED record_table

-----------------------------------------------------------------------------
(* The controller.  dump() copies both tables and empties them under the   *)
(* lock; checking and aggregating then work on the private copy.           *)

Controller(pc) == ctl_pc = pc /\ UNCHANGED <<appVars, now, profVars, logVars>>

Dump ==
    /\ Controller("idle")
    /\ batch' = record_table
    /\ batch_regions' = region_table
    /\ record_table' = <<>>
    /\ region_table' = <<>>
    /\ ctl_pc' = "check"
    /\ ctl_next' = 1
    /\ UNCHANGED <<valid, total_count, total_runtime, last_entry>>

\* ValidateRecord::check() accepts the record.
Accepts(r) ==
    /\ r.time >= valid.time
    /\ r.event = "ENTRY" => valid.region = NoRegion
    /\ r.event = "EXIT" => valid.region # NoRegion /\ r.hash = valid.region
    /\ r.event = "EPOCH" => r.num = valid.epoch + 1

Validated(r) ==
    [time   |-> r.time,
     region |-> CASE r.event = "ENTRY" -> r.hash
                  [] r.event = "EXIT"  -> NoRegion
                  [] OTHER             -> valid.region,
     epoch  |-> IF r.event = "EPOCH" THEN r.num ELSE valid.epoch]

Loop(pc) ==
    /\ Controller(pc)
    /\ ctl_next <= Len(batch)
    /\ UNCHANGED <<tableVars, batch, batch_regions>>

Check ==
    /\ Loop("check")
    /\ Accepts(batch[ctl_next])
    /\ valid' = Validated(batch[ctl_next])
    /\ ctl_next' = ctl_next + 1
    /\ UNCHANGED <<ctl_pc, total_count, total_runtime, last_entry>>

\* The exception leaves Controller::run(): the controller is gone.
CheckThrows ==
    /\ Loop("check")
    /\ ~Accepts(batch[ctl_next])
    /\ ctl_pc' = "failed"
    /\ UNCHANGED <<ctl_next, valid, total_count, total_runtime, last_entry>>

\* Seeded fault: the loop over the batch may end at the last record.
LoopEndEarly(pc, next) ==
    /\ Controller(pc)
    /\ ctl_next >= Len(batch)
    /\ ctl_pc' = next
    /\ ctl_next' = 1
    /\ UNCHANGED <<tableVars, batch, batch_regions, valid,
                   total_count, total_runtime, last_entry>>

LoopEnd(pc, next) ==
    /\ Controller(pc)
    /\ ctl_next > Len(batch)
    /\ ctl_pc' = next
    /\ ctl_next' = 1
    /\ UNCHANGED <<tableVars, batch, batch_regions, valid,
                   total_count, total_runtime, last_entry>>

CheckDone == LoopEnd("check", "aggregate")
AggregateDone == LoopEnd("aggregate", "idle")

Aggregated(h, count, time) ==
    /\ total_count' = [total_count EXCEPT ![h] = @ + count]
    /\ total_runtime' = [total_runtime EXCEPT ![h] = @ + time]

\* ProcessRegionAggregator::update() for one record; epochs are ignored.
AggregateRecord(r) ==
    \/ /\ r.event = "ENTRY"
       /\ last_entry' = [last_entry EXCEPT ![r.hash] = r.time]
       /\ UNCHANGED <<total_count, total_runtime>>
    \/ /\ r.event = "EXIT"
       /\ Aggregated(r.hash, 1, r.time - last_entry[r.hash])
       /\ UNCHANGED last_entry
    \/ /\ r.event = "SHORT"
       /\ r.num < Len(batch_regions)
       /\ LET region == batch_regions[r.num + 1]
          IN  IF region.hash \in Region
                THEN Aggregated(region.hash, region.num_complete, region.total_time)
                ELSE UNCHANGED <<total_count, total_runtime>>
       /\ UNCHANGED last_entry
    \/ /\ r.event = "EPOCH"
       /\ UNCHANGED <<total_count, total_runtime, last_entry>>

Aggregate ==
    /\ Loop("aggregate")
    /\ AggregateRecord(batch[ctl_next])
    /\ ctl_next' = ctl_next + 1
    /\ UNCHANGED <<ctl_pc, valid>>

-----------------------------------------------------------------------------
Enter(h) == EnterAgain(h) \/ EnterNew(h) \/ EnterOverflow(h) \/ EnterNested(h)

Exit(h) ==
    \/ ExitLong(h) \/ ExitFirstShort(h) \/ ExitStillShort(h) \/ ExitShortAgain(h)
    \/ ExitOverflow(h) \/ ExitBadIndex(h)
    \/ ExitNested(h) \/ ExitUnmatched(h)

App == (\E h \in Region : Enter(h) \/ Exit(h)) \/ Epoch \/ EpochOverflow

Ctl == Dump \/ Check \/ CheckThrows \/ CheckDone \/ Aggregate \/ AggregateDone

Next == App \/ Tick \/ Ctl

Spec == Init /\ [][Next]_vars

\* The control loop is a thread or a process that the operating system runs.
FairSpec == Spec /\ WF_vars(Ctl)

-----------------------------------------------------------------------------
(* Properties.  Those that mention Sound speak of a log that never         *)
(* overflowed, those that mention Intact of one that may have overflowed   *)
(* (append_record() threw) but did not yet leave a region whose entry      *)
(* record was refused (ExitBadIndex).                                      *)

Sound == fault = "none"
Intact == fault # "overrun"

\* ApplicationRecordLog.hpp:172-177, dump(): "the "signal" in any sort region
\* events in the records output vector is the index into the short_regions
\* output vector, and the length of the short_regions vector will be equal to
\* the number of events with type EVENT_SHORT_REGION".  This survives an
\* append_record() that threw, and is lost with the write beyond record_table.
ShortIndices(records) == {i \in DOMAIN records : records[i].event = "SHORT"}

ShortRegionsMatch(records, regions) ==
    /\ \A i \in ShortIndices(records) : records[i].num < Len(regions)
    /\ \A k \in 1 .. Len(regions) :
          \E i \in ShortIndices(records) : records[i].num = k - 1
    /\ \A i, j \in ShortIndices(records) : records[i].num = records[j].num => i = j

ShortRegionsIndexed ==
    Intact => /\ ShortRegionsMatch(record_table, region_table)
              /\ ShortRegionsMatch(batch, batch_regions)

\* append_record() never writes beyond record_table, whatever happened before;
\* and until an exit() itself has written beyond it there are no more short
\* regions than records, which is why M_MAX_REGION = M_MAX_RECORD + 1 is enough.
RegionTableFits ==
    /\ num_record <= MaxRecord
    /\ Intact => num_region <= num_record

\* ValidateRecord never rejects what the log delivers, so the controller is
\* not brought down by the records of an application that nests properly.
ControllerSurvives == Sound => ctl_pc # "failed"

\* Once everything logged was checked, the controller's open region is the
\* region the application executes, unless that region was marked short (its
\* exit will be a short-region record), and no epoch is missing.
Outermost == app_stack[Len(app_stack)]

ControllerInStep ==
    (Sound /\ record_table = <<>> /\ ctl_pc \in {"idle", "aggregate"}) =>
        /\ valid.epoch = epoch_count
        /\ valid.region =
              IF app_stack # <<>> /\ Outermost \notin DOMAIN LiveMap
                THEN Outermost ELSE NoRegion

\* Every completed traversal of a region is counted exactly once: it is in the
\* controller's total, in the batch being processed or still in the log.
CompletionsOf(h, records, regions, from) ==
    MapThenSumSet(LAMBDA i : IF records[i].event = "EXIT" THEN 1
                             ELSE regions[records[i].num + 1].num_complete,
                  {i \in from .. Len(records) :
                     \/ records[i].event = "EXIT" /\ records[i].hash = h
                     \/ /\ records[i].event = "SHORT"
                        /\ regions[records[i].num + 1].hash = h})

Unaggregated(h) ==
    CASE ctl_pc = "check" -> CompletionsOf(h, batch, batch_regions, 1)
      [] ctl_pc = "aggregate" -> CompletionsOf(h, batch, batch_regions, ctl_next)
      [] OTHER -> 0

CompletionsConserved ==
    Sound => \A h \in Region :
        done[h] = total_count[h] + Unaggregated(h)
                    + CompletionsOf(h, record_table, region_table, 1)

\* When the controller has caught up, the run time it attributes to a region
\* is the time the application spent in it, however the dumps fell.
RuntimeConserved ==
    (Sound /\ record_table = <<>> /\ ctl_pc = "idle") => total_runtime = spent

-----------------------------------------------------------------------------
(* The strengthening that makes RegionTableFits and ShortRegionsIndexed    *)
(* inductive: an entry that is neither short nor a leftover of an overflow *)
(* belongs to the region Profile is in, its record is the entry record     *)
(* that exit() will convert, and it comes after the short regions.         *)

IsOpen(h) ==
    /\ h \in DOMAIN LiveMap
    /\ LiveMap[h].region_idx = -1
    /\ LiveMap[h].record_idx \in 0 .. num_record - 1

OpenEntryIsCurrent ==
    \A h \in Region : IsOpen(h) =>
        /\ h = current_hash
        /\ hint_depth \in 1 .. Len(app_stack)
        /\ app_stack[hint_depth] = h
        /\ record_table[LiveMap[h].record_idx + 1].event = "ENTRY"
        /\ num_region <= LiveMap[h].record_idx

EntryIndicesInRange ==
    \A h \in DOMAIN LiveMap :
        \/ LiveMap[h].record_idx = -1 /\ LiveMap[h].region_idx = -1
        \/ LiveMap[h].record_idx \in 0 .. num_record - 1
        \/ LiveMap[h].record_idx = MaxRecord /\ LiveMap[h].region_idx = -1

HintsOnlyInRegion == hint_depth > 0 => current_hash # NoRegion

IInv ==
    /\ TypeOK
    /\ RegionTableFits
    /\ ShortRegionsIndexed
    /\ Intact => OpenEntryIsCurrent /\ EntryIndicesInRange /\ HintsOnlyInRegion

\* What the log promises the controller (module RegionLedger): completions are
\* reported, never invented, and eventually all of them; an overflow voids it.
Ledger == INSTANCE RegionLedger WITH reported <- total_count, lost <- ~Sound
LedgerSpec == Ledger!Spec
==============================================================================
