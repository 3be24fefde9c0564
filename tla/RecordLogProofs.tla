--------------------------- MODULE RecordLogProofs ---------------------------
(***************************************************************************)
(* Proofs about RecordLog for every set of regions, every table length and *)
(* every bound: its types, that the tables are not overrun and that short- *)
(* region records and short regions match one to one until an exit() of a  *)
(* refused entry, and, of a log that never overflowed, that ValidateRecord *)
(* accepts every record and the controller that has caught up knows the    *)
(* region and the epoch the application is in.  Last, of such a log too,   *)
(* that every completed traversal of a region is counted exactly once,     *)
(* that the time the application spent in a region is the run time the     *)
(* controller adds up for it however the dumps fall, and that RecordLog    *)
(* makes only the steps of RegionLedger.                                   *)
(*                                                                         *)
(* Completions and time are conserved for the same reason and proved       *)
(* together: a record is worth what it will add to the controller's total, *)
(* and what the application has done is the total plus the worth of the    *)
(* records the controller has not added, in its batch and in the log.      *)
(***************************************************************************)
EXTENDS RecordLog, SequenceTheorems, SumTheorems, TLAPS

-----------------------------------------------------------------------------
(* check_reset() keeps the map well typed. *)
LEMMA LiveMapType ==
    ASSUME LogTypeOK
    PROVE  /\ DOMAIN LiveMap \in SUBSET Region
           /\ LiveMap \in [DOMAIN LiveMap -> EnterInfo]
<1>1. CASE num_record # 0
  BY <1>1 DEF LogTypeOK, LiveMap
<1>2. CASE num_record = 0 /\ entered_hash \in DOMAIN enter_map
           /\ enter_map[entered_hash].is_short
  <2> DEFINE info == [enter_map[entered_hash] EXCEPT !.record_idx = -1, !.region_idx = -1]
  <2>1. entered_hash \in Region /\ enter_map[entered_hash] \in EnterInfo
    BY <1>2 DEF LogTypeOK
  <2>2. info \in EnterInfo
    BY <2>1 DEF EnterInfo
  <2>3. LiveMap = [h \in {entered_hash} |-> info]
    BY <1>2 DEF LiveMap
  <2> HIDE DEF info
  <2> QED
    BY <2>1, <2>2, <2>3
<1>3. CASE num_record = 0 /\ ~(entered_hash \in DOMAIN enter_map
           /\ enter_map[entered_hash].is_short)
  BY <1>3 DEF LogTypeOK, LiveMap, NoEntries
<1>. QED  BY <1>1, <1>2, <1>3

(* An entry added to a well typed map gives a well typed map. *)
LEMMA WithEntryType ==
    ASSUME LogTypeOK, NEW h \in Region, NEW info \in EnterInfo
    PROVE  /\ DOMAIN WithEntry(LiveMap, h, info) \in SUBSET Region
           /\ WithEntry(LiveMap, h, info)
                \in [DOMAIN WithEntry(LiveMap, h, info) -> EnterInfo]
  BY LiveMapType DEF WithEntry

(* The initial states are well typed. *)
LEMMA InitTypeOK == Init => TypeOK
  BY DEF Init, TypeOK, AppTypeOK, LogTypeOK, TableTypeOK, CtlTypeOK, NoEntries

(* The application's own state. *)
LEMMA AppEnterType ==
    ASSUME AppTypeOK, NEW h \in Region, AppEnter(h)
    PROVE  AppTypeOK'
<1>1. <<h>> \o app_stack \in Seq(Region)
  BY DEF AppTypeOK
<1>. QED  BY <1>1 DEF AppTypeOK, AppEnter, Call

(* Leaving a region keeps the application's state well typed. *)
LEMMA AppExitType ==
    ASSUME AppTypeOK, NEW h \in Region, AppExit(h)
    PROVE  AppTypeOK'
<1>1. Tail(app_stack) \in Seq(Region)
  BY DEF AppTypeOK, AppExit
<1>2. done' \in [Region -> Nat] /\ spent' \in [Region -> Int]
  <2>1. CASE Len(app_stack) = 1
    <3>1. /\ done' = [done EXCEPT ![h] = @ + 1]
          /\ spent' = [spent EXCEPT ![h] = @ + (now - app_enter_time)]
      BY <2>1 DEF AppExit
    <3>2. done[h] + 1 \in Nat /\ spent[h] + (now - app_enter_time) \in Int
      BY DEF AppTypeOK
    <3>. QED  BY <3>1, <3>2 DEF AppTypeOK
  <2>2. CASE Len(app_stack) # 1
    BY <2>2 DEF AppTypeOK, AppExit
  <2>. QED  BY <2>1, <2>2
<1>3. /\ app_stack' = Tail(app_stack) /\ calls' = calls + 1
      /\ UNCHANGED <<app_enter_time, now>>
  BY DEF AppExit, Call
<1>. QED  BY <1>1, <1>2, <1>3 DEF AppTypeOK

(* So does every call of the application. *)
LEMMA AppType ==
    ASSUME TypeOK, App
    PROVE  AppTypeOK'
<1>1. CASE \E h \in Region : Enter(h)
  <2>1. PICK h \in Region : AppEnter(h)
    BY <1>1 DEF Enter, EnterAgain, EnterNew, EnterOverflow, EnterNested, OutermostEnter
  <2>. QED  BY <2>1, AppEnterType DEF TypeOK
<1>2. CASE \E h \in Region : Exit(h)
  <2>1. PICK h \in Region : AppExit(h)
    BY <1>2 DEF Exit, ExitLong, ExitFirstShort, ExitStillShort, ExitShortAgain,
                ExitOverflow, ExitBadIndex, ExitNested, ExitUnmatched, OutermostExit
  <2>. QED  BY <2>1, AppExitType DEF TypeOK
<1>3. CASE EpochCall
  BY <1>3 DEF EpochCall, Call, TypeOK, AppTypeOK
<1>. QED  BY <1>1, <1>2, <1>3 DEF App, Epoch, EpochOverflow

(* Profile's and the log's private state. *)
LEMMA EnterLogType ==
    ASSUME TypeOK, NEW h \in Region, Enter(h)
    PROVE  LogTypeOK'
<1>1. NewInfo \in EnterInfo
  BY DEF TypeOK, AppTypeOK, TableTypeOK, NewInfo, EnterInfo, num_record
<1>2. CASE EnterAgain(h)
  <2>1. LiveMap[h] \in EnterInfo /\ now \in Nat
    BY <1>2, LiveMapType DEF EnterAgain, TypeOK, AppTypeOK
  <2>2. [LiveMap[h] EXCEPT !.enter_time = now] \in EnterInfo
    BY <2>1 DEF EnterInfo
  <2>3. /\ DOMAIN enter_map' \in SUBSET Region
        /\ enter_map' \in [DOMAIN enter_map' -> EnterInfo]
    BY <1>2, <2>2, LiveMapType DEF EnterAgain, TypeOK
  <2>. QED
    BY <1>2, <2>3 DEF TypeOK, LogTypeOK, EnterAgain, OutermostEnter
<1>3. CASE EnterNew(h)
  BY <1>1, <1>3, WithEntryType
  DEF TypeOK, LogTypeOK, EnterNew, OutermostEnter
<1>4. CASE EnterOverflow(h)
  BY <1>1, <1>4, WithEntryType
  DEF TypeOK, LogTypeOK, EnterOverflow, OutermostEnter, Refused
<1>5. CASE EnterNested(h)
  BY <1>5 DEF TypeOK, LogTypeOK, EnterNested, logVars
<1>. QED  BY <1>2, <1>3, <1>4, <1>5 DEF Enter

(* exit() keeps the private map and Profile's state well typed. *)
LEMMA ExitLogType ==
    ASSUME TypeOK, NEW h \in Region, Exit(h)
    PROVE  LogTypeOK'
<1>. DEFINE MapOK == /\ DOMAIN enter_map' \in SUBSET Region
                     /\ enter_map' \in [DOMAIN enter_map' -> EnterInfo]
<1>1. /\ DOMAIN LiveMap \in SUBSET Region
      /\ LiveMap \in [DOMAIN LiveMap -> EnterInfo]
      /\ num_record \in Nat /\ num_region \in Nat
  BY LiveMapType DEF TypeOK, TableTypeOK, num_record, num_region
<1>2. CASE ExitLong(h)
  BY <1>1, <1>2 DEF TypeOK, LogTypeOK, ExitLong, OutermostExit, ExitReturns
<1>3. CASE ExitFirstShort(h)
  <2>1. [LiveMap[h] EXCEPT !.is_short = TRUE, !.region_idx = num_region] \in EnterInfo
    BY <1>1, <1>3 DEF ExitFirstShort, EnterInfo
  <2>2. MapOK
    BY <1>1, <1>3, <2>1 DEF ExitFirstShort
  <2>. QED
    BY <1>3, <2>2 DEF TypeOK, LogTypeOK, ExitFirstShort, OutermostExit, ExitReturns
<1>4. CASE ExitStillShort(h)
  <2>1. [LiveMap[h] EXCEPT !.record_idx = num_record, !.region_idx = num_region]
          \in EnterInfo
    BY <1>1, <1>4 DEF ExitStillShort, EnterInfo
  <2>2. MapOK
    BY <1>1, <1>4, <2>1 DEF ExitStillShort
  <2>. QED
    BY <1>4, <2>2 DEF TypeOK, LogTypeOK, ExitStillShort, OutermostExit, ExitReturns
<1>5. CASE ExitShortAgain(h)
  BY <1>1, <1>5 DEF TypeOK, LogTypeOK, ExitShortAgain, OutermostExit, ExitReturns
<1>6. CASE ExitOverflow(h)
  <2>1. h \in DOMAIN LiveMap
          => [LiveMap[h] EXCEPT !.record_idx = num_record] \in EnterInfo
    BY <1>1 DEF EnterInfo
  <2>2. MapOK
    BY <1>1, <1>6, <2>1 DEF ExitOverflow
  <2>. QED
    BY <1>6, <2>2 DEF TypeOK, LogTypeOK, ExitOverflow, OutermostExit, Refused
<1>7. CASE ExitBadIndex(h)
  <2>1. [LiveMap[h] EXCEPT !.is_short = TRUE, !.region_idx = num_region] \in EnterInfo
    BY <1>1, <1>7 DEF ExitBadIndex, EnterInfo
  <2>2. MapOK
    BY <1>1, <1>7, <2>1 DEF ExitBadIndex
  <2>. QED
    BY <1>7, <2>2 DEF TypeOK, LogTypeOK, ExitBadIndex, OutermostExit
<1>8. CASE ExitNested(h)
  BY <1>8 DEF TypeOK, LogTypeOK, ExitNested, logVars
<1>9. CASE ExitUnmatched(h)
  BY <1>9 DEF TypeOK, LogTypeOK, ExitUnmatched, logVars, profVars
<1>. QED
  BY <1>2, <1>3, <1>4, <1>5, <1>6, <1>7, <1>8, <1>9 DEF Exit

(* So does epoch(). *)
LEMMA EpochLogType ==
    ASSUME TypeOK, Epoch \/ EpochOverflow
    PROVE  LogTypeOK'
  BY LiveMapType
  DEF TypeOK, LogTypeOK, Epoch, EpochOverflow, EpochCall, profVars, Refused

(* The shared tables. *)
LEMMA RecordTypes ==
    ASSUME TypeOK
    PROVE  /\ \A h \in Region, e \in Event : RegionRecord(e, h) \in Record
           /\ \A i, t \in Nat : ShortRecord(i, t) \in Record
           /\ EpochRecord(epoch_count + 1) \in Record
           /\ \A h \in DOMAIN LiveMap : NewShortRegion(h) \in ShortRegion
<1>1. \A h \in DOMAIN LiveMap : h \in Region /\ Elapsed(h) \in Int
  BY LiveMapType DEF TypeOK, AppTypeOK, Elapsed, EnterInfo
<1>. QED
  BY <1>1 DEF TypeOK, AppTypeOK, LogTypeOK, RegionRecord, ShortRecord,
              EpochRecord, NewShortRegion, Record, ShortRegion, Event

(* What the write beyond the record table leaves of the region table. *)
LEMMA OverrunType ==
    ASSUME NEW h \in Region, region_table \in Seq(ShortRegion),
           NewShortRegion(h) \in ShortRegion
    PROVE  Overrun(h) \subseteq Seq(ShortRegion)
<1>. DEFINE grown == Append(region_table, NewShortRegion(h))
            first(hash, count) ==
                [grown EXCEPT ![1].hash = hash, ![1].num_complete = count]
<1>1. grown \in Seq(ShortRegion) /\ 1 \in 1 .. Len(grown)
  OBVIOUS
<1>2. ASSUME NEW hash \in {h, Garbled}, NEW count \in Nat
      PROVE  first(hash, count) \in Seq(ShortRegion)
  <2>. DEFINE new == [grown[1] EXCEPT !.hash = hash, !.num_complete = count]
  <2>. HIDE DEF grown
  <2>1. grown[1] \in ShortRegion
    BY <1>1
  <2>2. new \in ShortRegion
    BY <2>1 DEF ShortRegion
  <2>3. [grown EXCEPT ![1] = new] \in Seq(ShortRegion)
    BY <1>1, <2>2, ExceptSeq
  <2>4. first(hash, count) = [grown EXCEPT ![1] = new]
    BY <1>1, <2>1 DEF ShortRegion
  <2>. QED  BY <2>3, <2>4
<1>3. num_region \in Nat
  BY DEF num_region
<1>. HIDE DEF first
<1>4. ASSUME NEW tab \in Overrun(h)
      PROVE  \E hash \in {h, Garbled}, count \in Nat : tab = first(hash, count)
  <2>1. CASE num_region > 0
    <3>1. tab = first(Garbled, num_region)
      BY <1>4, <2>1 DEF Overrun, first
    <3>. QED  BY <1>3, <3>1
  <2>2. CASE ~(num_region > 0)
    <3>1. \E hash \in {h, Garbled}, count \in {0, 1} : tab = first(hash, count)
      BY <1>4, <2>2 DEF Overrun, first
    <3>. QED  BY <3>1
  <2>. QED  BY <2>1, <2>2
<1>. QED  BY <1>2, <1>4

(* Every call of the application keeps the shared tables well typed. *)
LEMMA AppTableType ==
    ASSUME TypeOK, App
    PROVE  TableTypeOK'
<1>1. /\ num_record \in Nat /\ num_region \in Nat /\ now \in Nat
      /\ record_table \in Seq(Record) /\ region_table \in Seq(ShortRegion)
  BY DEF TypeOK, AppTypeOK, TableTypeOK, num_record, num_region
<1>2. CASE \E h \in Region : EnterNew(h)
  <2>1. PICK h \in Region : EnterNew(h)
    BY <1>2
  <2>2. RegionRecord("ENTRY", h) \in Record
    BY RecordTypes DEF Event
  <2>. QED
    BY <1>1, <2>1, <2>2 DEF TableTypeOK, EnterNew, OutermostEnter, Append1
<1>3. CASE \E h \in Region : ExitLong(h)
  <2>1. PICK h \in Region : ExitLong(h)
    BY <1>3
  <2>2. RegionRecord("EXIT", h) \in Record
    BY RecordTypes DEF Event
  <2>. QED
    BY <1>1, <2>1, <2>2 DEF TableTypeOK, ExitLong, Append1
<1>4. CASE \E h \in Region : ExitFirstShort(h)
  <2>1. PICK h \in Region : ExitFirstShort(h)
    BY <1>4
  <2>. DEFINE i == LiveMap[h].record_idx + 1
  <2>2. i \in 1 .. Len(record_table)
    BY <1>1, <2>1 DEF ExitFirstShort, num_record
  <2>3. record_table[i] \in Record
    BY <1>1, <2>2
  <2>4. record_table[i].time \in Nat
    BY <2>3 DEF Record
  <2>5. ShortRecord(num_region, record_table[i].time) \in Record
    BY <1>1, <2>4, RecordTypes
  <2>6. record_table' = [record_table EXCEPT
                           ![i] = ShortRecord(num_region, record_table[i].time)]
    BY <2>1 DEF ExitFirstShort
  <2>7. record_table' \in Seq(Record)
    BY <1>1, <2>2, <2>5, <2>6, ExceptSeq
  <2>8. NewShortRegion(h) \in ShortRegion
    BY <2>1, RecordTypes DEF ExitFirstShort
  <2>. QED
    BY <1>1, <2>1, <2>7, <2>8 DEF TableTypeOK, ExitFirstShort
<1>5. CASE \E h \in Region : ExitStillShort(h)
  <2>1. PICK h \in Region : ExitStillShort(h)
    BY <1>5
  <2>2. NewShortRegion(h) \in ShortRegion /\ ShortRecord(num_region, now) \in Record
    BY <1>1, <2>1, RecordTypes DEF ExitStillShort
  <2>. QED
    BY <1>1, <2>1, <2>2 DEF TableTypeOK, ExitStillShort, Append1
<1>6. CASE \E h \in Region : ExitShortAgain(h)
  <2>1. PICK h \in Region : ExitShortAgain(h)
    BY <1>6
  <2>. DEFINE k == LiveMap[h].region_idx + 1
              old == region_table[k]
              new == [old EXCEPT !.num_complete = @ + 1,
                                 !.total_time = @ + Elapsed(h)]
  <2>2. region_table' = [region_table EXCEPT ![k] = new]
    BY <2>1 DEF ExitShortAgain
  <2>3. CASE k \in 1 .. Len(region_table)
    <3>1. old \in ShortRegion
      BY <1>1, <2>3
    <3>2. Elapsed(h) \in Int
      BY <2>1, LiveMapType DEF ExitShortAgain, Elapsed, EnterInfo, TypeOK, AppTypeOK
    <3>. HIDE DEF old
    <3>3. old.num_complete + 1 \in Nat /\ old.total_time + Elapsed(h) \in Int
      BY <3>1, <3>2 DEF ShortRegion
    <3>5. new \in ShortRegion
      BY <3>1, <3>3 DEF ShortRegion
    <3>4. region_table' \in Seq(ShortRegion)
      BY <1>1, <2>2, <2>3, <3>5, ExceptSeq
    <3>. QED  BY <1>1, <2>1, <3>4 DEF TableTypeOK, ExitShortAgain
  <2>4. CASE k \notin 1 .. Len(region_table)
    <3>1. region_table' = region_table
      BY <1>1, <2>2, <2>4
    <3>. QED  BY <1>1, <2>1, <3>1 DEF TableTypeOK, ExitShortAgain
  <2>. QED  BY <2>3, <2>4
<1>7. CASE Epoch
  BY <1>1, <1>7, RecordTypes DEF TableTypeOK, Epoch, EpochCall, Append1
<1>8. CASE UNCHANGED tableVars
  BY <1>1, <1>8 DEF TableTypeOK, tableVars
<1>9. CASE \E h \in Region : ExitBadIndex(h)
  <2>1. PICK h \in Region : ExitBadIndex(h)
    BY <1>9
  <2>2. region_table' \in Overrun(h) /\ record_table' = record_table
    BY <2>1 DEF ExitBadIndex
  <2>3. NewShortRegion(h) \in ShortRegion
    BY <2>1, RecordTypes DEF ExitBadIndex
  <2>. QED  BY <1>1, <2>2, <2>3, OverrunType DEF TableTypeOK
<1>. QED
  BY <1>2, <1>3, <1>4, <1>5, <1>6, <1>7, <1>8, <1>9
  DEF App, Enter, Exit, EnterAgain, EnterOverflow, EnterNested, OutermostEnter,
      ExitOverflow, ExitNested, ExitUnmatched, EpochOverflow,
      EpochCall, tableVars

(* The controller's copy and its totals. *)
LEMMA CtlType ==
    ASSUME TypeOK, Ctl
    PROVE  CtlTypeOK'
<1>1. /\ ctl_next \in Nat \ {0} /\ batch \in Seq(Record)
      /\ batch_regions \in Seq(ShortRegion)
      /\ record_table \in Seq(Record) /\ region_table \in Seq(ShortRegion)
  BY DEF TypeOK, CtlTypeOK, TableTypeOK
<1>2. CASE Dump
  BY <1>1, <1>2 DEF TypeOK, CtlTypeOK, Dump
<1>. DEFINE r == batch[ctl_next]
<1>3. ASSUME ctl_next <= Len(batch)
      PROVE  r \in Record
  BY <1>1, <1>3
<1>4. CASE Check
  <2>1. r \in Record /\ valid' = Validated(r)
    BY <1>3, <1>4 DEF Check, Loop
  <2>. HIDE DEF r
  <2>2. valid' \in [time : Nat, region : Region \cup {NoRegion}, epoch : Nat]
    BY <2>1 DEF TypeOK, CtlTypeOK, Validated, Record, Event
  <2>3. /\ ctl_next' = ctl_next + 1
        /\ UNCHANGED <<ctl_pc, total_count, total_runtime, last_entry>>
        /\ UNCHANGED <<batch, batch_regions>>
    BY <1>4 DEF Check, Loop
  <2>4. ctl_next + 1 \in Nat \ {0}
    BY ONLY <1>1
  <2>. QED  BY <2>2, <2>3, <2>4 DEF TypeOK, CtlTypeOK
<1>5. CASE CheckThrows
  BY <1>1, <1>5 DEF TypeOK, CtlTypeOK, CheckThrows, Loop
<1>6. CASE CheckDone \/ AggregateDone
  BY <1>1, <1>6 DEF TypeOK, CtlTypeOK, CheckDone, AggregateDone, LoopEnd
<1>7. CASE Aggregate
  <2>1. r \in Record /\ AggregateRecord(r)
    BY <1>3, <1>7 DEF Aggregate, Loop
  <2>. HIDE DEF r
  <2>2. /\ total_count \in [Region -> Nat] /\ total_runtime \in [Region -> Int]
        /\ last_entry \in [Region -> Nat] /\ r.time \in Nat /\ r.num \in Nat
        /\ r.hash \in Region \cup {NoRegion}
    BY <2>1 DEF TypeOK, CtlTypeOK, Record
  <2>. DEFINE CountsOK == /\ total_count' \in [Region -> Nat]
                          /\ total_runtime' \in [Region -> Int]
              EntryOK == last_entry' \in [Region -> Nat]
  <2>3. ASSUME NEW h \in Region \cup {NoRegion}, NEW n \in Nat, NEW t \in Int,
               Aggregated(h, n, t)
        PROVE  CountsOK
    <3>1. CASE h \in Region
      <4>1. total_count[h] + n \in Nat /\ total_runtime[h] + t \in Int
        BY <2>2, <3>1
      <4>. QED  BY <2>2, <2>3, <4>1 DEF Aggregated
    <3>2. CASE h = NoRegion
      BY <2>2, <2>3, <3>2, NoRegionAssumption DEF Aggregated
    <3>. QED  BY <3>1, <3>2
  <2>4. ASSUME r.event = "ENTRY"
        PROVE  CountsOK /\ EntryOK
    BY <2>1, <2>2, <2>4 DEF AggregateRecord
  <2>5. ASSUME r.event = "EXIT"
        PROVE  CountsOK /\ EntryOK
    <3>1. /\ Aggregated(r.hash, 1, r.time - last_entry[r.hash])
          /\ last_entry' = last_entry
      BY <2>1, <2>5 DEF AggregateRecord
    <3>2. CASE r.hash \in Region
      <4>1. r.time - last_entry[r.hash] \in Int
        BY <2>2, <3>2
      <4>2. CountsOK
        BY <2>2, <2>3, <3>1, <4>1
      <4>. QED  BY <2>2, <3>1, <4>2
    <3>3. CASE r.hash = NoRegion
      <4>1. total_count' = total_count /\ total_runtime' = total_runtime
        BY <2>2, <3>1, <3>3, NoRegionAssumption DEF Aggregated
      <4>. QED  BY <2>2, <3>1, <4>1
    <3>. QED  BY <2>2, <3>2, <3>3
  <2>6. ASSUME r.event = "SHORT"
        PROVE  CountsOK /\ EntryOK
    <3>. DEFINE region == batch_regions[r.num + 1]
    <3>1. r.num + 1 \in 1 .. Len(batch_regions)
      <4>1. r.num < Len(batch_regions)
        BY <2>1, <2>6 DEF AggregateRecord
      <4>2. Len(batch_regions) \in Nat /\ r.num \in Nat
        BY <1>1, <2>2
      <4>. QED  BY ONLY <4>1, <4>2
    <3>2. region \in ShortRegion
      BY <1>1, <3>1
    <3>3. /\ \/ /\ region.hash \in Region
                /\ Aggregated(region.hash, region.num_complete, region.total_time)
             \/ UNCHANGED <<total_count, total_runtime>>
          /\ last_entry' = last_entry
      BY <2>1, <2>6 DEF AggregateRecord
    <3>. HIDE DEF region
    <3>4. region.num_complete \in Nat /\ region.total_time \in Int
      BY <3>2 DEF ShortRegion
    <3>5. CountsOK
      <4>1. CASE region.hash \in Region
                 /\ Aggregated(region.hash, region.num_complete, region.total_time)
        BY <2>3, <3>4, <4>1
      <4>2. CASE UNCHANGED <<total_count, total_runtime>>
        BY <2>2, <4>2
      <4>. QED  BY <3>3, <4>1, <4>2
    <3>. QED  BY <2>2, <3>3, <3>5
  <2>7. ASSUME r.event = "EPOCH"
        PROVE  CountsOK /\ EntryOK
    <3>1. UNCHANGED <<total_count, total_runtime, last_entry>>
      BY <2>1, <2>7 DEF AggregateRecord
    <3>. QED  BY ONLY <2>2, <3>1
  <2>8. CountsOK /\ EntryOK
    <3>1. r.event \in Event
      BY ONLY <2>1 DEF Record
    <3>. HIDE DEF CountsOK, EntryOK
    <3>. QED  BY <2>4, <2>5, <2>6, <2>7, <3>1 DEF Event
  <2>9. /\ ctl_next' \in Nat \ {0}
        /\ UNCHANGED <<batch, batch_regions, ctl_pc, valid>>
    <3>1. /\ ctl_next' = ctl_next + 1
          /\ UNCHANGED <<batch, batch_regions, ctl_pc, valid>>
      BY <1>7 DEF Aggregate, Loop
    <3>2. ctl_next + 1 \in Nat \ {0}
      BY ONLY <1>1
    <3>. QED  BY ONLY <3>1, <3>2
  <2>10. /\ total_count' \in [Region -> Nat] /\ total_runtime' \in [Region -> Int]
         /\ last_entry' \in [Region -> Nat]
    BY ONLY <2>8
  <2>11. /\ ctl_pc \in {"idle", "check", "aggregate", "failed"}
         /\ valid \in [time : Nat, region : Region \cup {NoRegion}, epoch : Nat]
    BY DEF TypeOK, CtlTypeOK
  <2>. QED  BY ONLY <1>1, <2>9, <2>10, <2>11 DEF CtlTypeOK
<1>. QED  BY <1>2, <1>4, <1>5, <1>6, <1>7 DEF Ctl

(* Who changes what: the application leaves the controller alone, and the  *)
(* controller changes nothing of the application but empties the tables.   *)
LEMMA AppFrame == App => UNCHANGED <<now, ctlVars>>
<1>1. ASSUME NEW h \in Region, Enter(h)
      PROVE  UNCHANGED <<now, ctlVars>>
  <2>1. OutermostEnter(h) => UNCHANGED <<now, ctlVars>>
    BY ONLY DEF OutermostEnter, AppEnter
  <2>2. EnterNested(h) => UNCHANGED <<now, ctlVars>>
    BY ONLY DEF EnterNested, AppEnter
  <2>3. OutermostEnter(h) \/ EnterNested(h)
    BY ONLY <1>1 DEF Enter, EnterAgain, EnterNew, EnterOverflow
  <2>. QED  BY ONLY <2>1, <2>2, <2>3
<1>2. ASSUME NEW h \in Region, Exit(h)
      PROVE  UNCHANGED <<now, ctlVars>>
  <2>1. OutermostExit(h) => UNCHANGED <<now, ctlVars>>
    BY ONLY DEF OutermostExit, AppExit
  <2>2. ExitNested(h) => UNCHANGED <<now, ctlVars>>
    BY ONLY DEF ExitNested, AppExit
  <2>3. ExitUnmatched(h) => UNCHANGED <<now, ctlVars>>
    BY ONLY DEF ExitUnmatched, AppExit
  <2>4. ExitLong(h) \/ ExitFirstShort(h) => OutermostExit(h)
    BY ONLY DEF ExitLong, ExitFirstShort
  <2>5. ExitStillShort(h) \/ ExitShortAgain(h) => OutermostExit(h)
    BY ONLY DEF ExitStillShort, ExitShortAgain
  <2>6. ExitOverflow(h) \/ ExitBadIndex(h) => OutermostExit(h)
    BY ONLY DEF ExitOverflow, ExitBadIndex
  <2>. QED  BY ONLY <1>2, <2>1, <2>2, <2>3, <2>4, <2>5, <2>6 DEF Exit
<1>3. Epoch \/ EpochOverflow => UNCHANGED <<now, ctlVars>>
  BY ONLY DEF Epoch, EpochOverflow, EpochCall
<1>. QED  BY ONLY <1>1, <1>2, <1>3 DEF App

(* The controller changes nothing of the application but the tables. *)
LEMMA CtlFrame ==
    Ctl => /\ UNCHANGED <<appVars, now, profVars, logVars>>
           /\ UNCHANGED tableVars \/ (record_table' = <<>> /\ region_table' = <<>>)
  BY DEF Ctl, Dump, Check, CheckThrows, CheckDone, Aggregate, AggregateDone,
         LoopEnd, Loop, Controller

(* Every step keeps the types. *)
LEMMA TypeStep == TypeOK /\ [Next]_vars => TypeOK'
<1>. SUFFICES ASSUME TypeOK, [Next]_vars
              PROVE  TypeOK'
  OBVIOUS
<1>1. CASE App
  <2>1. AppTypeOK' /\ TableTypeOK'
    BY <1>1, AppType, AppTableType
  <2>2. LogTypeOK'
    BY <1>1, EnterLogType, ExitLogType, EpochLogType DEF App
  <2>3. CtlTypeOK'
    BY <1>1, AppFrame DEF TypeOK, CtlTypeOK, ctlVars
  <2>. QED  BY <2>1, <2>2, <2>3 DEF TypeOK
<1>2. CASE Tick
  <2>1. AppTypeOK'
    BY <1>2 DEF Tick, TypeOK, AppTypeOK, appVars
  <2>2. LogTypeOK' /\ TableTypeOK' /\ CtlTypeOK'
    BY <1>2 DEF Tick, TypeOK, LogTypeOK, TableTypeOK, CtlTypeOK,
                profVars, logVars, tableVars, ctlVars
  <2>. QED  BY <2>1, <2>2 DEF TypeOK
<1>3. CASE Ctl
  <2>1. AppTypeOK' /\ LogTypeOK'
    BY <1>3, CtlFrame DEF TypeOK, AppTypeOK, LogTypeOK, appVars, profVars, logVars
  <2>2. TableTypeOK'
    <3>1. CASE UNCHANGED tableVars
      BY <3>1 DEF TypeOK, TableTypeOK, tableVars
    <3>2. CASE record_table' = <<>> /\ region_table' = <<>>
      BY <3>2 DEF TableTypeOK
    <3>. QED  BY <1>3, <3>1, <3>2, CtlFrame
  <2>. QED  BY <1>3, <2>1, <2>2, CtlType DEF TypeOK
<1>4. CASE UNCHANGED vars
  BY <1>4 DEF vars, TypeOK, AppTypeOK, LogTypeOK, TableTypeOK, CtlTypeOK,
              appVars, profVars, logVars, tableVars, ctlVars
<1>. QED  BY <1>1, <1>2, <1>3, <1>4 DEF Next

(* Every variable keeps its type, for any set of regions and any bounds. *)
THEOREM TypeCorrect == Spec => []TypeOK
  BY InitTypeOK, TypeStep, PTL DEF Spec

-----------------------------------------------------------------------------
(* Short-region records and short regions under the ways the log changes   *)
(* its tables.                                                             *)
LEMMA MatchEmpty == ShortRegionsMatch(<<>>, <<>>)
  BY DEF ShortRegionsMatch, ShortIndices

(* A record of another kind is appended: the pairing stays. *)
LEMMA MatchAppendOther ==
    ASSUME NEW recs \in Seq(Record), NEW regs \in Seq(ShortRegion),
           NEW r \in Record, r.event # "SHORT", ShortRegionsMatch(recs, regs)
    PROVE  ShortRegionsMatch(Append(recs, r), regs)
<1>. DEFINE new == Append(recs, r)
<1>1. /\ DOMAIN new = 1 .. Len(recs) + 1 /\ DOMAIN recs = 1 .. Len(recs)
      /\ \A i \in 1 .. Len(recs) : new[i] = recs[i]
      /\ new[Len(recs) + 1] = r
      /\ Len(recs) \in Nat
  OBVIOUS
<1>. HIDE DEF new
<1>2. ShortIndices(new) = ShortIndices(recs)
  BY <1>1 DEF ShortIndices
<1>3. \A i \in ShortIndices(recs) : new[i] = recs[i]
  BY <1>1 DEF ShortIndices
<1>4. ShortRegionsMatch(new, regs)
  BY <1>2, <1>3 DEF ShortRegionsMatch
<1>. QED  BY <1>4 DEF new

(* A record that becomes, or is appended as, the record of a new short     *)
(* region: element i of the new table.                                     *)
LEMMA MatchNewShort ==
    ASSUME NEW recs \in Seq(Record), NEW regs \in Seq(ShortRegion),
           NEW new \in Seq(Record), NEW i \in 1 .. Len(new),
           NEW region \in ShortRegion,
           Len(new) >= Len(recs), Len(new) <= Len(recs) + 1,
           i <= Len(recs) => recs[i].event # "SHORT",
           \A j \in 1 .. Len(new) : j # i => j <= Len(recs) /\ new[j] = recs[j],
           new[i].event = "SHORT", new[i].num = Len(regs),
           ShortRegionsMatch(recs, regs)
    PROVE  ShortRegionsMatch(new, Append(regs, region))
<1>1. Len(Append(regs, region)) = Len(regs) + 1 /\ Len(regs) \in Nat
  OBVIOUS
<1>2. DOMAIN new = 1 .. Len(new) /\ DOMAIN recs = 1 .. Len(recs)
  OBVIOUS
<1>3. ShortIndices(new) = ShortIndices(recs) \cup {i}
  BY <1>2 DEF ShortIndices
<1>4. \A j \in ShortIndices(recs) : /\ j # i /\ new[j] = recs[j]
                                    /\ recs[j].num < Len(regs)
                                    /\ recs[j].num \in Nat
  <2>. TAKE j \in ShortIndices(recs)
  <2>1. j \in 1 .. Len(recs) /\ recs[j].event = "SHORT" /\ recs[j] \in Record
    BY <1>2 DEF ShortIndices
  <2>2. recs[j].num \in Nat
    BY <2>1 DEF Record
  <2>3. recs[j].num < Len(regs)
    BY DEF ShortRegionsMatch
  <2>4. j # i /\ j \in 1 .. Len(new)
    BY <1>2, <1>3, <2>1
  <2>. QED  BY <2>1, <2>2, <2>3, <2>4
<1>5. \A j \in ShortIndices(new) : new[j].num < Len(regs) + 1
  BY <1>1, <1>3, <1>4
<1>6. \A k \in 1 .. Len(regs) + 1 :
         \E j \in ShortIndices(new) : new[j].num = k - 1
  <2>. TAKE k \in 1 .. Len(regs) + 1
  <2>1. CASE k = Len(regs) + 1
    BY <1>1, <1>3, <2>1
  <2>2. CASE k \in 1 .. Len(regs)
    <3>1. PICK j \in ShortIndices(recs) : recs[j].num = k - 1
      BY <2>2 DEF ShortRegionsMatch
    <3>2. j \in ShortIndices(new) /\ new[j] = recs[j]
      BY <1>3, <1>4
    <3>. QED  BY ONLY <3>1, <3>2
  <2>3. k = Len(regs) + 1 \/ k \in 1 .. Len(regs)
    BY <1>1
  <2>. QED  BY ONLY <2>1, <2>2, <2>3
<1>7. \A j, k \in ShortIndices(new) : new[j].num = new[k].num => j = k
  <2>1. \A j, k \in ShortIndices(recs) : recs[j].num = recs[k].num => j = k
    BY DEF ShortRegionsMatch
  <2>2. \A j \in ShortIndices(recs) : new[j].num # new[i].num
    BY <1>1, <1>4
  <2>3. \A j \in ShortIndices(recs) : new[j] = recs[j]
    BY <1>4
  <2>. QED  BY ONLY <1>3, <2>1, <2>2, <2>3
<1>. QED  BY <1>1, <1>5, <1>6, <1>7 DEF ShortRegionsMatch

-----------------------------------------------------------------------------
(* An empty table: no region has an entry record to convert. *)
LEMMA EmptyTable ==
    TypeOK /\ record_table = <<>> => OpenEntryIsCurrent /\ EntryIndicesInRange
<1>. SUFFICES ASSUME TypeOK, record_table = <<>>
              PROVE  OpenEntryIsCurrent /\ EntryIndicesInRange
  OBVIOUS
<1>1. num_record = 0
  BY DEF num_record
<1>2. \A h \in DOMAIN LiveMap :
        LiveMap[h].record_idx = -1 /\ LiveMap[h].region_idx = -1
  BY <1>1 DEF LiveMap, NoEntries, TypeOK, LogTypeOK, EnterInfo
<1>3. \A h \in Region : ~IsOpen(h)
  BY <1>1, <1>2 DEF IsOpen
<1>. QED  BY <1>2, <1>3 DEF OpenEntryIsCurrent, EntryIndicesInRange

(* Otherwise check_reset() leaves the map alone. *)
LEMMA LiveMapNonEmpty ==
    TypeOK /\ record_table # <<>> => LiveMap = enter_map /\ num_record \in Nat \ {0}
  BY DEF LiveMap, num_record, TypeOK, TableTypeOK

(* The part of the invariant that a change of the log or of Profile can    *)
(* disturb; the controller's copy of the tables is treated at the end.     *)
TablesFit == num_region <= num_record /\ num_record <= MaxRecord

LogInv ==
    /\ TablesFit
    /\ ShortRegionsMatch(record_table, region_table)
    /\ OpenEntryIsCurrent
    /\ EntryIndicesInRange
    /\ HintsOnlyInRegion

(* When Profile enters an outermost region no region is open in the log. *)
LEMMA NoneOpenOutside ==
    ASSUME LogInv, NEW g, OutermostEnter(g), NEW h \in Region
    PROVE  ~IsOpen(h)
  BY NoRegionAssumption DEF LogInv, OpenEntryIsCurrent, OutermostEnter

(* When it leaves the outermost region h, only h can be open. *)
LEMMA OnlyOuterOpen ==
    ASSUME TypeOK, LogInv, NEW g \in Region, OutermostExit(g),
           NEW h \in Region, IsOpen(h)
    PROVE  h = g
<1>1. hint_depth = 1 /\ app_stack # <<>> /\ g = Head(app_stack)
  BY DEF OutermostExit, AppExit
<1>2. app_stack[1] = h
  BY <1>1 DEF LogInv, OpenEntryIsCurrent
<1>. QED  BY <1>1, <1>2 DEF TypeOK, AppTypeOK

(* What the step lemmas below have in common: the new state is well typed  *)
(* and its record table is not empty.                                      *)
LEMMA NewLiveMap ==
    ASSUME TypeOK', record_table' # <<>>
    PROVE  /\ LiveMap' = enter_map'
           /\ num_record' \in Nat \ {0}
<1>1. (TypeOK /\ record_table # <<>> => LiveMap = enter_map /\ num_record \in Nat \ {0})'
  BY LiveMapNonEmpty, PTL
<1>. QED  BY <1>1

(* The same of the state after a step. *)
LEMMA NewEmptyTable ==
    ASSUME TypeOK', record_table' = <<>>
    PROVE  OpenEntryIsCurrent' /\ EntryIndicesInRange'
<1>1. (TypeOK /\ record_table = <<>> => OpenEntryIsCurrent /\ EntryIndicesInRange)'
  BY EmptyTable, PTL
<1>. QED  BY <1>1

(* The counters and the live entries of a well typed table. *)
LEMMA TableFacts ==
    ASSUME TypeOK
    PROVE  /\ num_record \in Nat /\ num_region \in Nat /\ MaxRecord \in Nat \ {0}
           /\ \A h \in DOMAIN LiveMap : h \in Region /\ LiveMap[h] \in EnterInfo
           /\ DOMAIN record_table = 1 .. num_record
  BY LiveMapType, MaxRecordAssumption
  DEF TypeOK, TableTypeOK, num_record, num_region

(* enter() keeps the invariant. *)
LEMMA EnterLogInv ==
    ASSUME TypeOK, TypeOK', LogInv, NEW g \in Region, Enter(g)
    PROVE  LogInv'
<1>1. CASE EnterAgain(g)
  <2>1. /\ UNCHANGED <<record_table, region_table>> /\ current_hash' = g
        /\ enter_map' = [LiveMap EXCEPT ![g].enter_time = now]
        /\ g \in DOMAIN LiveMap
    BY <1>1 DEF EnterAgain, OutermostEnter
  <2>2. TablesFit' /\ ShortRegionsMatch(record_table, region_table)'
    BY <2>1 DEF LogInv, TablesFit, num_record, num_region
  <2>3. HintsOnlyInRegion'
    BY <2>1, NoRegionAssumption DEF HintsOnlyInRegion
  <2>4. CASE record_table' = <<>>
    BY <2>2, <2>3, <2>4, NewEmptyTable DEF LogInv
  <2>5. CASE record_table' # <<>>
    <3>1. /\ LiveMap' = enter_map' /\ num_record' = num_record
          /\ DOMAIN LiveMap' = DOMAIN LiveMap
      BY <2>1, <2>5, NewLiveMap DEF num_record
    <3>2. \A h \in DOMAIN LiveMap :
             /\ LiveMap'[h].record_idx = LiveMap[h].record_idx
             /\ LiveMap'[h].region_idx = LiveMap[h].region_idx
      BY <2>1, <3>1, TableFacts DEF EnterInfo
    <3>3. \A h \in Region : ~IsOpen(h)'
      BY <1>1, <3>1, <3>2, NoneOpenOutside DEF IsOpen, EnterAgain
    <3>4. EntryIndicesInRange'
      BY <3>1, <3>2 DEF LogInv, EntryIndicesInRange
    <3>. QED  BY <2>2, <2>3, <3>3, <3>4 DEF LogInv, OpenEntryIsCurrent
  <2>. QED  BY <2>4, <2>5
<1>2. CASE EnterNew(g)
  <2>. DEFINE r == RegionRecord("ENTRY", g)
  <2>1. /\ record_table' = Append(record_table, r) /\ r \in Record
        /\ r.event = "ENTRY"
        /\ region_table' = region_table /\ current_hash' = g
        /\ current_hash = NoRegion
        /\ hint_depth' = hint_depth + 1 /\ app_stack' = <<g>> \o app_stack
        /\ enter_map' = WithEntry(LiveMap, g, NewInfo)
        /\ num_record < MaxRecord
    <3>1. r \in Record /\ r.event = "ENTRY"
      BY RecordTypes DEF Event, RegionRecord
    <3>2. num_record < MaxRecord
      BY <1>2, TableFacts DEF EnterNew, Full
    <3>. QED
      BY <1>2, <3>1, <3>2 DEF EnterNew, OutermostEnter, AppEnter, Append1
  <2>. HIDE DEF r
  <2>2. /\ num_record' = num_record + 1 /\ num_region' = num_region
        /\ record_table' # <<>>
        /\ record_table'[num_record + 1] = r
    BY <2>1, AppendProperties DEF num_record, num_region, TypeOK, TableTypeOK
  <2>3. TablesFit'
    BY <2>1, <2>2, TableFacts DEF LogInv, TablesFit
  <2>4. ShortRegionsMatch(record_table, region_table)'
    BY <2>1, MatchAppendOther DEF LogInv, TypeOK, TableTypeOK
  <2>5. HintsOnlyInRegion'
    BY <2>1, NoRegionAssumption DEF HintsOnlyInRegion
  <2>6. LiveMap' = WithEntry(LiveMap, g, NewInfo)
    BY <2>1, <2>2, NewLiveMap
  <2>7. /\ DOMAIN LiveMap' = DOMAIN LiveMap \cup {g}
        /\ LiveMap'[g] = NewInfo
        /\ \A h \in DOMAIN LiveMap : h # g => LiveMap'[h] = LiveMap[h]
    BY <2>6 DEF WithEntry
  <2>8. EntryIndicesInRange'
    <3>1. NewInfo.record_idx = num_record' - 1
      BY <2>2, TableFacts DEF NewInfo
    <3>2. ASSUME NEW h \in DOMAIN LiveMap', h # g
          PROVE  /\ h \in DOMAIN LiveMap /\ LiveMap'[h] = LiveMap[h]
                 /\ \/ LiveMap[h].record_idx = -1 /\ LiveMap[h].region_idx = -1
                    \/ LiveMap[h].record_idx \in 0 .. num_record - 1
                    \/ LiveMap[h].record_idx = MaxRecord /\ LiveMap[h].region_idx = -1
      BY <2>7, <3>2 DEF LogInv, EntryIndicesInRange
    <3>3. num_record \in Nat /\ num_record' = num_record + 1
      BY <2>2, TableFacts
    <3>4. 0 .. num_record - 1 \subseteq 0 .. num_record' - 1
          /\ num_record' - 1 \in 0 .. num_record' - 1
      BY ONLY <3>3
    <3>5. ASSUME NEW h \in DOMAIN LiveMap', h # g
          PROVE  \/ LiveMap'[h].record_idx = -1 /\ LiveMap'[h].region_idx = -1
                 \/ LiveMap'[h].record_idx \in 0 .. num_record' - 1
                 \/ LiveMap'[h].record_idx = MaxRecord /\ LiveMap'[h].region_idx = -1
      BY ONLY <3>2, <3>4, <3>5
    <3>6. LiveMap'[g].record_idx \in 0 .. num_record' - 1
      BY ONLY <2>7, <3>1, <3>4
    <3>. QED  BY ONLY <3>5, <3>6 DEF EntryIndicesInRange
  <2>9. hint_depth = 0 /\ hint_depth' = 1 /\ Len(app_stack') \in Nat
        /\ Len(app_stack') >= 1 /\ app_stack'[1] = g
    <3>1. hint_depth \in Nat /\ app_stack \in Seq(Region)
      BY DEF TypeOK, LogTypeOK, AppTypeOK
    <3>2. ~(hint_depth > 0)
      BY <2>1 DEF LogInv, HintsOnlyInRegion
    <3>3. /\ Len(<<g>> \o app_stack) \in Nat /\ Len(<<g>> \o app_stack) >= 1
          /\ (<<g>> \o app_stack)[1] = g
      BY ONLY <3>1, g \in Region
    <3>. QED  BY ONLY <2>1, <3>1, <3>2, <3>3
  <2>10. ASSUME NEW h \in Region, IsOpen(h)'
         PROVE  h = g
    <3>1. SUFFICES ASSUME h # g PROVE FALSE
      OBVIOUS
    <3>2. /\ h \in DOMAIN LiveMap /\ LiveMap[h].region_idx = -1
          /\ LiveMap[h].record_idx \in 0 .. num_record
      BY <2>2, <2>7, <2>10, <3>1, TableFacts DEF IsOpen
    <3>3. LiveMap[h].record_idx \in 0 .. num_record - 1
      BY <2>1, <3>2, TableFacts DEF LogInv, EntryIndicesInRange
    <3>. QED  BY <1>2, <3>2, <3>3, NoneOpenOutside DEF IsOpen, EnterNew
  <2>11. OpenEntryIsCurrent'
    <3>. SUFFICES ASSUME NEW h \in Region, IsOpen(h)'
                  PROVE  /\ h = current_hash'
                         /\ hint_depth' \in 1 .. Len(app_stack')
                         /\ app_stack'[hint_depth'] = h
                         /\ record_table'[LiveMap'[h].record_idx + 1].event = "ENTRY"
                         /\ num_region' <= LiveMap'[h].record_idx
      BY DEF OpenEntryIsCurrent
    <3>1. h = g
      BY <2>10
    <3>2. LiveMap'[g].record_idx = num_record
      BY <2>7 DEF NewInfo
    <3>3. record_table'[num_record + 1].event = "ENTRY"
      BY <2>1, <2>2
    <3>4. num_region <= num_record
      BY DEF LogInv, TablesFit
    <3>5. h = current_hash'
      BY <2>1, <3>1
    <3>6. hint_depth' \in 1 .. Len(app_stack') /\ app_stack'[hint_depth'] = h
      BY <2>9, <3>1
    <3>7. /\ record_table'[LiveMap'[h].record_idx + 1].event = "ENTRY"
          /\ num_region' <= LiveMap'[h].record_idx
      BY <2>2, <3>1, <3>2, <3>3, <3>4
    <3>. QED  BY <3>5, <3>6, <3>7
  <2>. QED  BY <2>3, <2>4, <2>5, <2>8, <2>11 DEF LogInv
<1>3. CASE EnterOverflow(g)
  <2>1. /\ UNCHANGED <<record_table, region_table>> /\ current_hash' = g
        /\ enter_map' = WithEntry(LiveMap, g, NewInfo)
        /\ num_record >= MaxRecord
    BY <1>3 DEF EnterOverflow, OutermostEnter, Full
  <2>2. num_record = MaxRecord /\ num_record' = num_record /\ record_table' # <<>>
    BY <2>1, TableFacts DEF LogInv, TablesFit, num_record
  <2>3. TablesFit' /\ ShortRegionsMatch(record_table, region_table)'
    BY <2>1 DEF LogInv, TablesFit, num_record, num_region
  <2>4. HintsOnlyInRegion'
    BY <2>1, NoRegionAssumption DEF HintsOnlyInRegion
  <2>5. LiveMap' = WithEntry(LiveMap, g, NewInfo)
    BY <2>1, <2>2, NewLiveMap
  <2>6. /\ DOMAIN LiveMap' = DOMAIN LiveMap \cup {g}
        /\ LiveMap'[g] = NewInfo
        /\ \A h \in DOMAIN LiveMap : h # g => LiveMap'[h] = LiveMap[h]
    BY <2>5 DEF WithEntry
  <2>7. EntryIndicesInRange'
    BY <2>2, <2>6, TableFacts DEF LogInv, EntryIndicesInRange, NewInfo
  <2>8. ASSUME NEW h \in Region, IsOpen(h)'
        PROVE  FALSE
    <3>1. CASE h = g
      BY <2>2, <2>6, <2>8, <3>1, TableFacts DEF IsOpen, NewInfo
    <3>2. CASE h # g
      BY <1>3, <2>2, <2>6, <2>8, <3>2, NoneOpenOutside DEF IsOpen, EnterOverflow
    <3>. QED  BY <3>1, <3>2
  <2>. QED  BY <2>3, <2>4, <2>7, <2>8 DEF LogInv, OpenEntryIsCurrent
<1>4. CASE EnterNested(g)
  <2>1. /\ UNCHANGED <<record_table, region_table, enter_map, entered_hash, current_hash>>
        /\ current_hash # NoRegion
        /\ hint_depth' = hint_depth + 1 /\ app_stack' = <<g>> \o app_stack
    BY <1>4 DEF EnterNested, AppEnter, logVars, tableVars
  <2>2. LiveMap' = LiveMap /\ num_record' = num_record /\ num_region' = num_region
    BY <2>1 DEF LiveMap, num_record, num_region
  <2>3. ASSUME NEW h \in Region, IsOpen(h),
               hint_depth \in 1 .. Len(app_stack), app_stack[hint_depth] = h
        PROVE  hint_depth' \in 1 .. Len(app_stack') /\ app_stack'[hint_depth'] = h
    <3>1. app_stack \in Seq(Region) /\ hint_depth \in Nat
      BY DEF TypeOK, AppTypeOK, LogTypeOK
    <3>2. /\ Len(<<g>> \o app_stack) = Len(app_stack) + 1
          /\ (<<g>> \o app_stack)[hint_depth + 1] = app_stack[hint_depth]
      BY <2>3, <3>1
    <3>. QED  BY <2>1, <2>3, <3>1, <3>2
  <2>4. OpenEntryIsCurrent'
    BY <2>1, <2>2, <2>3 DEF LogInv, OpenEntryIsCurrent, IsOpen
  <2>. QED
    BY <2>1, <2>2, <2>4
    DEF LogInv, TablesFit, EntryIndicesInRange, HintsOnlyInRegion
<1>. QED  BY <1>1, <1>2, <1>3, <1>4 DEF Enter

(* A call that leaves Profile in no region or closes none: if no region is *)
(* open afterwards, two facts about the tables are all there is to check.  *)
LEMMA NoneOpenSuffices ==
    ASSUME TypeOK', TablesFit', ShortRegionsMatch(record_table, region_table)',
           record_table' # <<>> => EntryIndicesInRange' /\ \A h \in Region : ~IsOpen(h)',
           HintsOnlyInRegion'
    PROVE  LogInv'
<1>1. CASE record_table' = <<>>
  BY <1>1, NewEmptyTable DEF LogInv
<1>2. CASE record_table' # <<>>
  BY <1>2 DEF LogInv, OpenEntryIsCurrent
<1>. QED  BY <1>1, <1>2

(* exit() keeps the invariant: an entry becomes a short region. *)
LEMMA ExitLogInv ==
    ASSUME TypeOK, TypeOK', LogInv, NEW g \in Region, Exit(g), ~ExitBadIndex(g)
    PROVE  LogInv'
<1>. DEFINE SameEntry(h) == /\ LiveMap'[h].record_idx = LiveMap[h].record_idx
                            /\ LiveMap'[h].region_idx = LiveMap[h].region_idx
<1>1. OutermostExit(g) => HintsOnlyInRegion'
  BY DEF OutermostExit, HintsOnlyInRegion
<1>2. CASE ExitLong(g)
  <2>. DEFINE r == RegionRecord("EXIT", g)
  <2>1. /\ record_table' = Append(record_table, r) /\ region_table' = region_table
        /\ enter_map' = LiveMap /\ OutermostExit(g) /\ g \notin DOMAIN LiveMap
    BY <1>2 DEF ExitLong, Append1
  <2>2. r \in Record /\ r.event # "SHORT"
    BY RecordTypes DEF Event, RegionRecord
  <2>3. num_record < MaxRecord
    BY <1>2, TableFacts DEF ExitLong, Full
  <2>. HIDE DEF r
  <2>4. num_record' = num_record + 1 /\ num_region' = num_region /\ record_table' # <<>>
    BY <2>1, <2>2, AppendProperties DEF num_record, num_region, TypeOK, TableTypeOK
  <2>5. TablesFit'
    BY <2>3, <2>4, TableFacts DEF LogInv, TablesFit
  <2>6. ShortRegionsMatch(record_table, region_table)'
    BY <2>1, <2>2, MatchAppendOther DEF LogInv, TypeOK, TableTypeOK
  <2>7. LiveMap' = LiveMap
    BY <2>1, <2>4, NewLiveMap
  <2>8. EntryIndicesInRange'
    BY <2>4, <2>7, TableFacts DEF LogInv, EntryIndicesInRange
  <2>9. ASSUME NEW h \in Region, IsOpen(h)'
        PROVE  FALSE
    <3>1. IsOpen(h)
      BY <2>3, <2>4, <2>7, <2>9, TableFacts DEF IsOpen, LogInv, EntryIndicesInRange
    <3>. QED  BY <2>1, <3>1, OnlyOuterOpen DEF IsOpen
  <2>. QED  BY <1>1, <2>1, <2>5, <2>6, <2>8, <2>9, NoneOpenSuffices
<1>3. CASE ExitFirstShort(g)
  <2>. DEFINE i == LiveMap[g].record_idx + 1
              r == ShortRecord(num_region, record_table[i].time)
  <2>1. /\ record_table' = [record_table EXCEPT ![i] = r]
        /\ region_table' = Append(region_table, NewShortRegion(g))
        /\ enter_map' = [LiveMap EXCEPT ![g].is_short = TRUE, ![g].region_idx = num_region]
        /\ OutermostExit(g) /\ IsOpen(g)
    BY <1>3 DEF ExitFirstShort, IsOpen
  <2>2. i \in 1 .. num_record
    BY <2>1, TableFacts DEF IsOpen
  <2>3. r \in Record /\ r.event = "SHORT" /\ r.num = num_region
    <3>1. record_table[i] \in Record
      BY <2>2 DEF TypeOK, TableTypeOK, num_record
    <3>2. record_table[i].time \in Nat
      BY <3>1 DEF Record
    <3>. QED  BY <3>2, RecordTypes, TableFacts DEF ShortRecord
  <2>4. NewShortRegion(g) \in ShortRegion
    BY <2>1, RecordTypes DEF IsOpen
  <2>5. record_table[i].event = "ENTRY" /\ num_region < i
    BY <2>1, TableFacts DEF LogInv, OpenEntryIsCurrent, IsOpen
  <2>. HIDE DEF r
  <2>6. /\ record_table' \in Seq(Record) /\ Len(record_table') = Len(record_table)
        /\ record_table'[i] = r
        /\ \A j \in 1 .. Len(record_table) : j # i => record_table'[j] = record_table[j]
    BY <2>1, <2>2, <2>3, ExceptSeq DEF TypeOK, TableTypeOK, num_record
  <2>7. /\ num_record' = num_record /\ num_region' = num_region + 1
        /\ record_table' # <<>>
    BY <2>1, <2>2, <2>4, <2>6, AppendProperties
    DEF num_record, num_region, TypeOK, TableTypeOK
  <2>8. TablesFit'
    BY <2>2, <2>5, <2>7, TableFacts DEF LogInv, TablesFit
  <2>9. ShortRegionsMatch(record_table, region_table)'
    <3>1. i \in 1 .. Len(record_table') /\ Len(record_table) \in Nat
      BY <2>2, <2>6 DEF num_record, TypeOK, TableTypeOK
    <3>2. /\ record_table \in Seq(Record) /\ region_table \in Seq(ShortRegion)
          /\ ShortRegionsMatch(record_table, region_table)
          /\ r.num = Len(region_table)
      BY <2>3 DEF LogInv, TypeOK, TableTypeOK, num_region
    <3>3. /\ Len(record_table') >= Len(record_table)
          /\ Len(record_table') <= Len(record_table) + 1
          /\ record_table[i].event # "SHORT"
          /\ record_table'[i].event = "SHORT" /\ record_table'[i].num = Len(region_table)
          /\ \A j \in 1 .. Len(record_table') :
                j # i => j <= Len(record_table) /\ record_table'[j] = record_table[j]
      BY <2>3, <2>5, <2>6, <3>1, <3>2
    <3>. HIDE DEF i
    <3>4. ShortRegionsMatch(record_table', Append(region_table, NewShortRegion(g)))
      BY <2>4, <2>6, <3>1, <3>2, <3>3, MatchNewShort
    <3>. QED  BY <2>1, <3>4
  <2>10. LiveMap' = enter_map' /\ DOMAIN LiveMap' = DOMAIN LiveMap
    BY <2>1, <2>7, NewLiveMap
  <2>11. /\ LiveMap'[g].region_idx = num_region
         /\ LiveMap'[g].record_idx = LiveMap[g].record_idx
         /\ \A h \in DOMAIN LiveMap : h # g => LiveMap'[h] = LiveMap[h]
    <3>1. g \in DOMAIN LiveMap /\ LiveMap[g] \in EnterInfo
      BY <2>1, TableFacts DEF IsOpen
    <3>. QED  BY <2>1, <2>10, <3>1 DEF EnterInfo
  <2>12. EntryIndicesInRange'
    BY <2>1, <2>7, <2>10, <2>11 DEF LogInv, EntryIndicesInRange, IsOpen
  <2>13. ASSUME NEW h \in Region, IsOpen(h)'
         PROVE  FALSE
    <3>1. CASE h = g
      BY <2>11, <2>13, <3>1, TableFacts DEF IsOpen
    <3>2. CASE h # g
      BY <2>1, <2>7, <2>10, <2>11, <2>13, <3>2, OnlyOuterOpen DEF IsOpen
    <3>. QED  BY <3>1, <3>2
  <2>. QED  BY <1>1, <2>1, <2>8, <2>9, <2>12, <2>13, NoneOpenSuffices
<1>4. CASE ExitStillShort(g)
  <2>. DEFINE r == ShortRecord(num_region, now)
  <2>1. /\ record_table' = Append(record_table, r)
        /\ region_table' = Append(region_table, NewShortRegion(g))
        /\ enter_map' = [LiveMap EXCEPT ![g].record_idx = num_record,
                                        ![g].region_idx = num_region]
        /\ OutermostExit(g) /\ g \in DOMAIN LiveMap /\ LiveMap[g].record_idx = -1
    BY <1>4 DEF ExitStillShort, Append1
  <2>2. r \in Record /\ r.event = "SHORT" /\ r.num = num_region
    BY RecordTypes, TableFacts DEF ShortRecord, TypeOK, AppTypeOK
  <2>3. NewShortRegion(g) \in ShortRegion
    BY <2>1, RecordTypes
  <2>4. num_record < MaxRecord
    BY <1>4, TableFacts DEF ExitStillShort, Full
  <2>. HIDE DEF r
  <2>5. /\ record_table' \in Seq(Record) /\ Len(record_table') = Len(record_table) + 1
        /\ record_table'[num_record + 1] = r /\ record_table' # <<>>
        /\ \A j \in 1 .. num_record : record_table'[j] = record_table[j]
    BY <2>1, <2>2, AppendProperties DEF TypeOK, TableTypeOK, num_record
  <2>6. num_record' = num_record + 1 /\ num_region' = num_region + 1
    BY <2>1, <2>3, <2>5, AppendProperties
    DEF num_record, num_region, TypeOK, TableTypeOK
  <2>7. TablesFit'
    BY <2>4, <2>6, TableFacts DEF LogInv, TablesFit
  <2>8. ShortRegionsMatch(record_table, region_table)'
    <3>. DEFINE i == num_record + 1
    <3>1. /\ i \in 1 .. Len(record_table') /\ Len(record_table) \in Nat
          /\ ~(i <= Len(record_table))
          /\ \A j \in 1 .. Len(record_table') :
                j # i => j <= Len(record_table) /\ record_table'[j] = record_table[j]
      BY <2>5, TableFacts DEF num_record, TypeOK, TableTypeOK
    <3>2. /\ record_table \in Seq(Record) /\ region_table \in Seq(ShortRegion)
          /\ ShortRegionsMatch(record_table, region_table)
          /\ r.num = Len(region_table)
      BY <2>2 DEF LogInv, TypeOK, TableTypeOK, num_region
    <3>3. /\ Len(record_table') >= Len(record_table)
          /\ Len(record_table') <= Len(record_table) + 1
          /\ record_table'[i].event = "SHORT" /\ record_table'[i].num = Len(region_table)
      BY <2>2, <2>5, <3>1, <3>2
    <3>. HIDE DEF i
    <3>4. ShortRegionsMatch(record_table', Append(region_table, NewShortRegion(g)))
      BY <2>3, <2>5, <3>1, <3>2, <3>3, MatchNewShort
    <3>. QED  BY <2>1, <3>4
  <2>9. LiveMap' = enter_map' /\ DOMAIN LiveMap' = DOMAIN LiveMap
    BY <2>1, <2>5, NewLiveMap
  <2>10. /\ LiveMap'[g].region_idx = num_region
         /\ LiveMap'[g].record_idx = num_record
         /\ \A h \in DOMAIN LiveMap : h # g => LiveMap'[h] = LiveMap[h]
    BY <2>1, <2>9, TableFacts DEF EnterInfo
  <2>11. EntryIndicesInRange'
    BY <2>6, <2>9, <2>10, TableFacts DEF LogInv, EntryIndicesInRange
  <2>12. ASSUME NEW h \in Region, IsOpen(h)'
         PROVE  FALSE
    <3>1. CASE h = g
      BY <2>10, <2>12, <3>1, TableFacts DEF IsOpen
    <3>2. CASE h # g
      <4>1. IsOpen(h)
        BY <2>4, <2>6, <2>9, <2>10, <2>12, <3>2, TableFacts
        DEF IsOpen, LogInv, EntryIndicesInRange
      <4>. QED  BY <2>1, <3>2, <4>1, OnlyOuterOpen
    <3>. QED  BY <3>1, <3>2
  <2>. QED  BY <1>1, <2>1, <2>7, <2>8, <2>11, <2>12, NoneOpenSuffices
<1>5. CASE ExitShortAgain(g)
  <2>1. /\ record_table' = record_table
        /\ Len(region_table') = Len(region_table)
        /\ enter_map' = LiveMap /\ OutermostExit(g) /\ g \in DOMAIN LiveMap
        /\ LiveMap[g].record_idx # -1 /\ LiveMap[g].region_idx # -1
    BY <1>5 DEF ExitShortAgain, TypeOK, TableTypeOK
  <2>2. num_record' = num_record /\ num_region' = num_region
    BY <2>1 DEF num_record, num_region
  <2>3. TablesFit' /\ ShortRegionsMatch(record_table, region_table)'
    BY <2>1, <2>2 DEF LogInv, TablesFit, ShortRegionsMatch
  <2>4. num_record # 0
    BY <2>1, TableFacts DEF LogInv, EntryIndicesInRange
  <2>5. LiveMap' = LiveMap
    BY <2>1, <2>4, NewLiveMap DEF num_record
  <2>6. \A h \in Region : IsOpen(h)' => IsOpen(h)
    BY <2>2, <2>5 DEF IsOpen
  <2>7. EntryIndicesInRange'
    BY <2>2, <2>5 DEF LogInv, EntryIndicesInRange
  <2>8. \A h \in Region : ~IsOpen(h)'
    BY <2>1, <2>6, OnlyOuterOpen DEF IsOpen
  <2>. QED  BY <1>1, <2>1, <2>3, <2>7, <2>8, NoneOpenSuffices
<1>6. CASE ExitOverflow(g)
  <2>1. /\ UNCHANGED <<record_table, region_table>> /\ num_record >= MaxRecord
        /\ enter_map' = IF g \notin DOMAIN LiveMap THEN LiveMap
                        ELSE [LiveMap EXCEPT ![g].record_idx = num_record]
        /\ OutermostExit(g)
        /\ g \in DOMAIN LiveMap => LiveMap[g].record_idx = -1
    BY <1>6 DEF ExitOverflow, Full, tableVars
  <2>2. num_record = MaxRecord /\ num_record' = num_record /\ record_table' # <<>>
    BY <2>1, TableFacts DEF LogInv, TablesFit, num_record
  <2>3. TablesFit' /\ ShortRegionsMatch(record_table, region_table)'
    BY <2>1 DEF LogInv, TablesFit, num_record, num_region
  <2>4. LiveMap' = enter_map' /\ DOMAIN LiveMap' = DOMAIN LiveMap
    BY <2>1, <2>2, NewLiveMap
  <2>5. /\ \A h \in DOMAIN LiveMap : h # g => LiveMap'[h] = LiveMap[h]
        /\ g \in DOMAIN LiveMap => /\ LiveMap'[g].record_idx = num_record
                                  /\ LiveMap'[g].region_idx = LiveMap[g].region_idx
    BY <2>1, <2>4, TableFacts DEF EnterInfo
  <2>6. EntryIndicesInRange'
    BY <2>1, <2>2, <2>4, <2>5, TableFacts DEF LogInv, EntryIndicesInRange
  <2>7. ASSUME NEW h \in Region, IsOpen(h)'
        PROVE  FALSE
    <3>1. h # g
      BY <2>2, <2>4, <2>5, <2>7, TableFacts DEF IsOpen
    <3>2. IsOpen(h)
      BY <2>2, <2>4, <2>5, <2>7, <3>1 DEF IsOpen
    <3>. QED  BY <2>1, <3>1, <3>2, OnlyOuterOpen
  <2>. QED  BY <1>1, <2>1, <2>3, <2>6, <2>7, NoneOpenSuffices
<1>8. CASE ExitNested(g)
  <2>1. /\ UNCHANGED <<record_table, region_table, enter_map, entered_hash, current_hash>>
        /\ hint_depth > 1 /\ hint_depth' = hint_depth - 1
        /\ app_stack # <<>> /\ app_stack' = Tail(app_stack)
    BY <1>8 DEF ExitNested, AppExit, logVars, tableVars
  <2>2. LiveMap' = LiveMap /\ num_record' = num_record /\ num_region' = num_region
    BY <2>1 DEF LiveMap, num_record, num_region
  <2>3. ASSUME NEW h \in Region,
               hint_depth \in 1 .. Len(app_stack), app_stack[hint_depth] = h
        PROVE  hint_depth' \in 1 .. Len(app_stack') /\ app_stack'[hint_depth'] = h
    <3>1. app_stack \in Seq(Region) /\ hint_depth \in Nat
      BY DEF TypeOK, AppTypeOK, LogTypeOK
    <3>2. /\ Len(Tail(app_stack)) = Len(app_stack) - 1
          /\ \A j \in 1 .. Len(Tail(app_stack)) : Tail(app_stack)[j] = app_stack[j + 1]
      BY <2>1, <3>1, HeadTailProperties
    <3>. QED  BY <2>1, <2>3, <3>1, <3>2
  <2>4. OpenEntryIsCurrent'
    BY <2>1, <2>2, <2>3 DEF LogInv, OpenEntryIsCurrent, IsOpen
  <2>5. HintsOnlyInRegion'
    BY <2>1 DEF LogInv, HintsOnlyInRegion, TypeOK, LogTypeOK
  <2>. QED
    BY <2>1, <2>2, <2>4, <2>5 DEF LogInv, TablesFit, EntryIndicesInRange
<1>9. CASE ExitUnmatched(g)
  <2>1. /\ UNCHANGED <<record_table, region_table, enter_map, entered_hash, current_hash>>
        /\ hint_depth = 0 /\ hint_depth' = 0
    BY <1>9 DEF ExitUnmatched, logVars, profVars, tableVars
  <2>2. LiveMap' = LiveMap /\ num_record' = num_record /\ num_region' = num_region
    BY <2>1 DEF LiveMap, num_record, num_region
  <2>3. \A h \in Region : ~IsOpen(h)'
    BY <2>1, <2>2 DEF LogInv, OpenEntryIsCurrent, IsOpen
  <2>. QED
    BY <2>1, <2>2, <2>3
    DEF LogInv, TablesFit, EntryIndicesInRange, HintsOnlyInRegion, OpenEntryIsCurrent
<1>. QED
  BY <1>2, <1>3, <1>4, <1>5, <1>6, <1>8, <1>9 DEF Exit

(* epoch() keeps the invariant. *)
LEMMA EpochLogInv ==
    ASSUME TypeOK, TypeOK', LogInv, EpochCall, Epoch \/ EpochOverflow
    PROVE  LogInv'
<1>. DEFINE r == EpochRecord(epoch_count + 1)
<1>1. /\ region_table' = region_table /\ enter_map' = LiveMap
      /\ UNCHANGED <<app_stack, current_hash, hint_depth>>
  BY DEF EpochCall, profVars
<1>2. \/ record_table' = Append(record_table, r) /\ num_record < MaxRecord
      \/ record_table' = record_table /\ num_record >= MaxRecord
  BY TableFacts DEF Epoch, EpochOverflow, Append1, Full
<1>3. r \in Record /\ r.event # "SHORT"
  BY RecordTypes DEF EpochRecord
<1>. HIDE DEF r
<1>4. /\ record_table' # <<>> /\ num_region' = num_region
      /\ num_record' \in num_record .. num_record + 1 /\ num_record' <= MaxRecord
      /\ \A j \in 1 .. num_record : record_table'[j] = record_table[j]
      /\ num_record' # num_record => num_record < MaxRecord
  <2>1. record_table \in Seq(Record) /\ num_record = Len(record_table) /\ num_record <= MaxRecord
        /\ num_record' = Len(record_table') /\ num_region' = num_region
    BY <1>1 DEF num_record, num_region, TypeOK, TableTypeOK, LogInv, TablesFit
  <2>2. CASE record_table' = Append(record_table, r) /\ num_record < MaxRecord
    <3>1. /\ record_table' # <<>> /\ Len(record_table') = Len(record_table) + 1
          /\ \A j \in 1 .. Len(record_table) : record_table'[j] = record_table[j]
      BY <1>3, <2>1, <2>2, AppendProperties
    <3>. QED  BY <2>1, <2>2, <3>1, TableFacts
  <2>3. CASE record_table' = record_table /\ num_record >= MaxRecord
    <3>1. record_table # <<>>
      BY <2>1, <2>3, MaxRecordAssumption
    <3>. QED  BY <2>1, <2>3, <3>1, TableFacts
  <2>. QED  BY <1>2, <2>2, <2>3
<1>5. TablesFit'
  BY <1>4, TableFacts DEF LogInv, TablesFit
<1>6. ShortRegionsMatch(record_table, region_table)'
  BY <1>1, <1>2, <1>3, MatchAppendOther DEF LogInv, TypeOK, TableTypeOK
<1>7. LiveMap' = LiveMap
  BY <1>1, <1>4, NewLiveMap
<1>8. EntryIndicesInRange'
  BY <1>4, <1>7, TableFacts DEF LogInv, EntryIndicesInRange
<1>9. ASSUME NEW h \in Region, IsOpen(h)'
      PROVE  IsOpen(h)
  BY <1>4, <1>7, <1>9, TableFacts DEF IsOpen, LogInv, EntryIndicesInRange
<1>10. \A h \in Region : IsOpen(h) => LiveMap[h].record_idx + 1 \in 1 .. num_record
  BY TableFacts DEF IsOpen
<1>11. OpenEntryIsCurrent'
  BY <1>1, <1>4, <1>7, <1>9, <1>10 DEF LogInv, OpenEntryIsCurrent
<1>. QED
  BY <1>1, <1>5, <1>6, <1>8, <1>11 DEF LogInv, HintsOnlyInRegion

(* Steps that change neither the log nor Profile, and dump(). *)
LEMMA OtherLogInv ==
    ASSUME TypeOK, TypeOK', LogInv,
           UNCHANGED <<appVars, profVars, logVars>>,
           UNCHANGED tableVars \/ (record_table' = <<>> /\ region_table' = <<>>)
    PROVE  LogInv'
<1>1. UNCHANGED <<app_stack, current_hash, hint_depth, enter_map, entered_hash>>
  BY DEF appVars, profVars, logVars
<1>2. CASE UNCHANGED tableVars
  <2>1. /\ UNCHANGED <<record_table, region_table, LiveMap>>
        /\ UNCHANGED <<num_record, num_region>>
    BY <1>1, <1>2 DEF LiveMap, num_record, num_region, tableVars
  <2>2. TablesFit' /\ HintsOnlyInRegion' /\ EntryIndicesInRange'
    BY <1>1, <2>1
    DEF LogInv, TablesFit, EntryIndicesInRange, HintsOnlyInRegion
  <2>3. OpenEntryIsCurrent'
    BY <1>1, <2>1 DEF LogInv, OpenEntryIsCurrent, IsOpen
  <2>. QED  BY <2>1, <2>2, <2>3 DEF LogInv
<1>3. CASE record_table' = <<>> /\ region_table' = <<>>
  <2>1. TablesFit'
    BY <1>3, MaxRecordAssumption DEF TablesFit, num_record, num_region
  <2>2. ShortRegionsMatch(record_table, region_table)'
    BY <1>3, MatchEmpty
  <2>3. HintsOnlyInRegion'
    BY <1>1 DEF LogInv, HintsOnlyInRegion
  <2>. QED  BY <1>3, <2>1, <2>2, <2>3, NewEmptyTable DEF LogInv
<1>. QED  BY <1>2, <1>3

(* In an intact log the invariant of the tables is LogInv. *)
LEMMA IntactParts ==
    /\ IInv /\ Intact => LogInv
    /\ /\ TypeOK
       /\ num_record <= MaxRecord
       /\ Intact => LogInv /\ ShortRegionsMatch(batch, batch_regions)
       => IInv
  BY DEF IInv, LogInv, TablesFit, RegionTableFits, ShortRegionsIndexed

(* The invariant holds at first. *)
LEMMA InitIInv == Init => IInv
<1>. SUFFICES ASSUME Init PROVE IInv
  OBVIOUS
<1>1. TypeOK /\ record_table = <<>>
  BY InitTypeOK DEF Init
<1>2. TablesFit /\ HintsOnlyInRegion
  BY MaxRecordAssumption DEF Init, TablesFit, num_record, num_region, HintsOnlyInRegion
<1>3. /\ ShortRegionsMatch(record_table, region_table)
      /\ ShortRegionsMatch(batch, batch_regions)
  BY MatchEmpty DEF Init
<1>. QED  BY <1>1, <1>2, <1>3, EmptyTable, IntactParts DEF LogInv, TablesFit

(* append_record() writes no record beyond the table, and nobody else adds one. *)
LEMMA RecordTableFits ==
    ASSUME TypeOK, TypeOK', num_record <= MaxRecord, [Next]_vars
    PROVE  num_record' <= MaxRecord
<1>. DEFINE Grows == \E r \in Record : ~Full /\ record_table' = Append(record_table, r)
<1>1. /\ num_record \in Nat /\ MaxRecord \in Nat \ {0}
      /\ record_table \in Seq(Record) /\ now \in Nat /\ num_region \in Nat
  BY TableFacts DEF TypeOK, TableTypeOK, AppTypeOK
<1>2. CASE Grows
  <2>1. PICK r \in Record : ~Full /\ record_table' = Append(record_table, r)
    BY <1>2
  <2>2. Len(record_table') = Len(record_table) + 1
    BY <1>1, <2>1, AppendProperties
  <2>. QED  BY <1>1, <2>1, <2>2 DEF Full, num_record
<1>3. CASE record_table' = record_table
  BY <1>3 DEF num_record
<1>4. CASE record_table' = <<>>
  BY <1>1, <1>4 DEF num_record
<1>. HIDE DEF Grows
<1>5. ASSUME NEW h \in Region, ExitFirstShort(h)
      PROVE  num_record' <= MaxRecord
  <2>1. PICK i, r : record_table' = [record_table EXCEPT ![i] = r]
    BY <1>5 DEF ExitFirstShort
  <2>2. Len(record_table') = Len(record_table)
    BY <1>1, <2>1
  <2>. QED  BY <2>2 DEF num_record
<1>6. ASSUME NEW h \in Region, Enter(h)
      PROVE  Grows \/ record_table' = record_table
  <2>1. EnterNew(h) => Grows
    BY RecordTypes DEF EnterNew, Append1, Grows, Event
  <2>. QED  BY <1>6, <2>1 DEF Enter, EnterAgain, EnterOverflow, EnterNested, tableVars
<1>7. ASSUME NEW h \in Region, Exit(h), ~ExitFirstShort(h)
      PROVE  Grows \/ record_table' = record_table
  <2>1. ExitLong(h) => Grows
    BY RecordTypes DEF ExitLong, Append1, Grows, Event
  <2>2. ExitStillShort(h) => Grows
    BY <1>1, RecordTypes DEF ExitStillShort, Append1, Grows
  <2>. QED
    BY <1>7, <2>1, <2>2
    DEF Exit, ExitShortAgain, ExitOverflow, ExitBadIndex, ExitNested, ExitUnmatched, tableVars
<1>8. Epoch => Grows
  BY RecordTypes DEF Epoch, Append1, Grows
<1>9. EpochOverflow => record_table' = record_table
  BY DEF EpochOverflow
<1>10. CASE App
  BY <1>2, <1>3, <1>5, <1>6, <1>7, <1>8, <1>9, <1>10 DEF App
<1>11. CASE ~App
  <2>1. record_table' = record_table \/ record_table' = <<>>
    BY <1>11, CtlFrame DEF Next, Tick, vars, tableVars
  <2>. QED  BY <1>3, <1>4, <2>1
<1>. QED  BY <1>10, <1>11

(* A log that was overrun stays so, and only ExitBadIndex overruns it. *)
LEMMA IntactBefore ==
    ASSUME [Next]_vars, Intact'
    PROVE  Intact /\ \A h \in Region : ~ExitBadIndex(h)
<1>1. \A h \in Region : ~ExitBadIndex(h)
  BY DEF Intact, ExitBadIndex
<1>2. Refused \/ fault' = fault
  <2>1. ASSUME NEW h \in Region, Enter(h)
        PROVE  Refused \/ fault' = fault
    BY ONLY <2>1
    DEF Enter, EnterAgain, EnterNew, EnterOverflow, EnterNested, logVars
  <2>2. ASSUME NEW h \in Region, Exit(h)
        PROVE  Refused \/ fault' = fault
    BY ONLY <1>1, <2>2
    DEF Exit, ExitLong, ExitFirstShort, ExitStillShort, ExitShortAgain, ExitOverflow,
        ExitNested, ExitUnmatched, ExitReturns, logVars
  <2>3. Epoch \/ EpochOverflow => Refused \/ fault' = fault
    BY ONLY DEF Epoch, EpochOverflow
  <2>4. Tick \/ Ctl \/ UNCHANGED vars => fault' = fault
    BY ONLY CtlFrame DEF Tick, vars, logVars
  <2>. QED  BY <2>1, <2>2, <2>3, <2>4 DEF Next, App
<1>. QED  BY <1>1, <1>2 DEF Intact, Refused

(* Every step keeps the invariant. *)
LEMMA IInvStep == IInv /\ [Next]_vars => IInv'
<1>. SUFFICES ASSUME IInv, [Next]_vars
              PROVE  IInv'
  OBVIOUS
<1>1. TypeOK /\ TypeOK'
  BY TypeStep DEF IInv
<1>2. num_record' <= MaxRecord
  BY <1>1, RecordTableFits DEF IInv, RegionTableFits
<1>3. ASSUME Intact'
      PROVE  LogInv' /\ ShortRegionsMatch(batch, batch_regions)'
  <2>1. Intact /\ LogInv /\ \A h \in Region : ~ExitBadIndex(h)
    BY <1>3, IntactBefore, IntactParts
  <2>2. LogInv'
    <3>1. CASE App
      BY <1>1, <2>1, <3>1, EnterLogInv, ExitLogInv, EpochLogInv
      DEF App, Epoch, EpochOverflow
    <3>2. CASE Tick
      BY <1>1, <2>1, <3>2, OtherLogInv DEF Tick
    <3>3. CASE Ctl
      BY <1>1, <2>1, <3>3, CtlFrame, OtherLogInv
    <3>4. CASE UNCHANGED vars
      BY <1>1, <2>1, <3>4, OtherLogInv DEF vars
    <3>. QED  BY <3>1, <3>2, <3>3, <3>4 DEF Next
  <2>3. ShortRegionsMatch(batch, batch_regions)'
    <3>1. CASE Dump
      BY <2>1, <3>1 DEF Dump, LogInv
    <3>2. CASE UNCHANGED <<batch, batch_regions>>
      BY <2>1, <3>2 DEF IInv, ShortRegionsIndexed
    <3>. QED
      BY <3>1, <3>2, AppFrame
      DEF Next, Tick, Ctl, Check, CheckThrows, CheckDone, Aggregate, AggregateDone,
          Loop, LoopEnd, vars, ctlVars
  <2>. QED  BY <2>2, <2>3
<1>4. (/\ TypeOK
       /\ num_record <= MaxRecord
       /\ Intact => LogInv /\ ShortRegionsMatch(batch, batch_regions)
       => IInv)'
  BY IntactParts, PTL
<1>. QED  BY <1>1, <1>2, <1>3, <1>4

(* What the invariant says of a log that is intact, and of one that never  *)
(* overflowed: the sections below speak of such a log only.                *)
WholeInv == TypeOK /\ LogInv /\ ShortRegionsMatch(batch, batch_regions)

(* A log that never overflowed is intact. *)
LEMMA SoundIsWhole == IInv /\ Sound => WholeInv
<1>. SUFFICES ASSUME IInv, Sound PROVE WholeInv
  OBVIOUS
<1>1. Intact
  BY DEF Sound, Intact
<1>. QED  BY <1>1, IntactParts DEF WholeInv, IInv, ShortRegionsIndexed

(* The same of the state after a step. *)
LEMMA SoundIsWholeNext ==
    ASSUME IInv', Sound'
    PROVE  WholeInv'
<1>1. (IInv /\ Sound => WholeInv)'
  BY SoundIsWhole, PTL
<1>. QED  BY <1>1

(* The invariant holds in every reachable state. *)
LEMMA Invariance == Spec => []IInv
  BY InitIInv, IInvStep, PTL DEF Spec

(* append_record() never writes beyond the record table, whatever happened *)
(* before.  The region table has no more regions than there are records,   *)
(* after an append_record() that threw too, until an exit() of a region    *)
(* whose entry record was refused has written beyond the record table.     *)
THEOREM TablesFitUntilOverrun == Spec => []RegionTableFits
<1>1. IInv => RegionTableFits
  BY DEF IInv
<1>. QED  BY Invariance, <1>1, PTL

(* What dump() promises its caller: the signals of the short-region records *)
(* of a table and the indices of its short regions correspond one to one,   *)
(* in the shared memory and in the controller's copy; after an overflow     *)
(* too, until an exit() has written beyond the record table.                *)
THEOREM ShortRegionsOneToOne == Spec => []ShortRegionsIndexed
<1>1. IInv => ShortRegionsIndexed
  BY DEF IInv
<1>. QED  BY Invariance, <1>1, PTL

-----------------------------------------------------------------------------
(* What ValidateRecord accepts, by a replay of the records.                *)
(*                                                                         *)
(* A table of records takes ValidateRecord from one state to another       *)
(* without an exception (Replays); the records not yet checked take the    *)
(* controller's state to the state the log is in (InStep), possibly by way *)
(* of the state in between two dumps.  The application extends the last of *)
(* the tables at its end, the controller consumes the first at its         *)
(* beginning.                                                              *)

(* Replaying the records from one index on.                                *)

ValidState == [time : Nat, region : Region \cup {NoRegion}, epoch : Nat]

AtFrom(recs, from, e) == {i \in from .. Len(recs) : recs[i].event = e}

\* No record is older than the one before it, nor younger than the end.
TimesRise(recs, from, v, m) ==
    /\ v.time <= m.time
    /\ \A i \in from .. Len(recs) : v.time <= recs[i].time /\ recs[i].time <= m.time
    /\ \A i, j \in from .. Len(recs) : i <= j => recs[i].time <= recs[j].time

\* At most one exit and one entry, in this order: a region left and entered
\* again between two dumps is a short region.
ExitThenEntry(recs, from) ==
    /\ \A i, j \in AtFrom(recs, from, "EXIT") : i = j
    /\ \A i, j \in AtFrom(recs, from, "ENTRY") : i = j
    /\ \A i \in AtFrom(recs, from, "EXIT"), j \in AtFrom(recs, from, "ENTRY") : i < j

\* The exit leaves the region open before, the entry enters the one open after.
RegionFollows(recs, from, v, m) ==
    /\ \A i \in AtFrom(recs, from, "EXIT") :
          v.region # NoRegion /\ recs[i].hash = v.region
    /\ \A j \in AtFrom(recs, from, "ENTRY") :
          /\ m.region # NoRegion /\ recs[j].hash = m.region
          /\ v.region # NoRegion => AtFrom(recs, from, "EXIT") # {}
    /\ AtFrom(recs, from, "ENTRY") = {} =>
          m.region = IF AtFrom(recs, from, "EXIT") = {} THEN v.region ELSE NoRegion

\* Every epoch after the one before has its record, in order.
EpochsFollow(recs, from, v, m) ==
    /\ v.epoch <= m.epoch
    /\ \A i \in AtFrom(recs, from, "EPOCH") : recs[i].num \in v.epoch + 1 .. m.epoch
    /\ \A e \in v.epoch + 1 .. m.epoch :
          \E i \in AtFrom(recs, from, "EPOCH") : recs[i].num = e
    /\ \A i, j \in AtFrom(recs, from, "EPOCH") : i < j => recs[i].num < recs[j].num

Replays(recs, from, v, m) ==
    /\ TimesRise(recs, from, v, m)
    /\ ExitThenEntry(recs, from)
    /\ RegionFollows(recs, from, v, m)
    /\ EpochsFollow(recs, from, v, m)

-----------------------------------------------------------------------------
(* The inductive invariant.                                                *)

\* Profile, the log and the application agree on the region being executed.
SameRegion ==
    /\ hint_depth = Len(app_stack)
    /\ current_hash = IF app_stack = <<>> THEN NoRegion ELSE Outermost
    /\ entered_hash = current_hash

\* What an entry of m_hash_region_enter_map says is so.
EntryTrue(h) ==
    /\ LiveMap[h].record_idx \in -1 .. num_record - 1
    /\ LiveMap[h].region_idx = -1 => h = current_hash
    /\ LiveMap[h].region_idx # -1 =>
          /\ LiveMap[h].record_idx # -1
          /\ LiveMap[h].region_idx \in 0 .. num_region - 1
          /\ region_table[LiveMap[h].region_idx + 1].hash = h
    /\ LiveMap[h].is_short <=> ~IsOpen(h)
    /\ IsOpen(h) =>
          /\ record_table[LiveMap[h].record_idx + 1].hash = h
          /\ record_table[LiveMap[h].record_idx + 1].time = app_enter_time
    /\ h = current_hash => LiveMap[h].enter_time = app_enter_time

EntriesTrue ==
    /\ \A h \in DOMAIN LiveMap : EntryTrue(h)
    /\ \A i \in AtFrom(record_table, 1, "ENTRY") :
          \E h \in Region : IsOpen(h) /\ LiveMap[h].record_idx + 1 = i

\* The region whose exit will be a record of its own, or will turn its entry
\* record into a short-region record.
LoggedRegion ==
    IF app_stack # <<>> /\ (Outermost \notin DOMAIN LiveMap \/ IsOpen(Outermost))
      THEN Outermost ELSE NoRegion

LogState == [time |-> now, region |-> LoggedRegion, epoch |-> epoch_count]

\* The records not yet checked lead from the controller's state to the log's.
InStep ==
    IF ctl_pc = "check"
      THEN \E m \in ValidState : /\ Replays(batch, ctl_next, valid, m)
                                 /\ Replays(record_table, 1, m, LogState)
      ELSE Replays(record_table, 1, valid, LogState)

ReplayInv ==
    Sound =>
        /\ SameRegion
        /\ EntriesTrue
        /\ app_enter_time <= now
        /\ ctl_pc # "failed"
        /\ InStep
-----------------------------------------------------------------------------
(* The controller's side: records are consumed at the beginning.           *)

\* The indices of one kind, with and without the first record.
LEMMA AtFromNext ==
    ASSUME NEW recs \in Seq(Record), NEW from \in Nat \ {0}, from <= Len(recs), NEW e
    PROVE  /\ recs[from].event = e => AtFrom(recs, from, e) = AtFrom(recs, from + 1, e) \cup {from}
           /\ recs[from].event # e => AtFrom(recs, from, e) = AtFrom(recs, from + 1, e)
<1>1. from .. Len(recs) = (from + 1 .. Len(recs)) \cup {from}
  OBVIOUS
<1> QED
  BY <1>1 DEF AtFrom

\* Records further on have larger indices.
LEMMA AtFromAfter ==
    ASSUME NEW recs \in Seq(Record), NEW from \in Nat \ {0}, NEW e
    PROVE  \A i \in AtFrom(recs, from, e) :
              i \in Nat /\ i \in from .. Len(recs) /\ i >= from /\ recs[i].event = e /\ recs[i] \in Record
  BY DEF AtFrom

\* ValidateRecord::check() accepts the next record of a replay, and the rest
\* is a replay from the state it leaves.
LEMMA ReplayStep ==
    ASSUME NEW recs \in Seq(Record), NEW from \in Nat \ {0}, from <= Len(recs),
           valid \in ValidState, NEW m \in ValidState, Replays(recs, from, valid, m)
    PROVE  /\ Accepts(recs[from])
           /\ Validated(recs[from]) \in ValidState
           /\ Replays(recs, from + 1, Validated(recs[from]), m)
<1> DEFINE r == recs[from]
           w == Validated(r)
           X == AtFrom(recs, from, "EXIT")
           N == AtFrom(recs, from, "ENTRY")
           E == AtFrom(recs, from, "EPOCH")
           X1 == AtFrom(recs, from + 1, "EXIT")
           N1 == AtFrom(recs, from + 1, "ENTRY")
           E1 == AtFrom(recs, from + 1, "EPOCH")
<1>1. r \in Record
  OBVIOUS
<1>2. /\ r.event = "EXIT" => X = X1 \cup {from}
      /\ r.event # "EXIT" => X = X1
      /\ r.event = "ENTRY" => N = N1 \cup {from}
      /\ r.event # "ENTRY" => N = N1
      /\ r.event = "EPOCH" => E = E1 \cup {from}
      /\ r.event # "EPOCH" => E = E1
  <2>1. \A e : /\ recs[from].event = e => AtFrom(recs, from, e) = AtFrom(recs, from + 1, e) \cup {from}
               /\ recs[from].event # e => AtFrom(recs, from, e) = AtFrom(recs, from + 1, e)
    BY AtFromNext
  <2> QED
    BY <2>1
<1>3. /\ r.event \in Event /\ r.hash \in Region \cup {NoRegion}
      /\ r.num \in Nat /\ r.time \in Nat
      /\ valid.time \in Nat /\ valid.region \in Region \cup {NoRegion} /\ valid.epoch \in Nat
      /\ m.time \in Nat /\ m.region \in Region \cup {NoRegion} /\ m.epoch \in Nat
  BY <1>1 DEF Record, ValidState
<1>4. \A i \in X1 \cup N1 \cup E1 : i \in Nat /\ i > from /\ i # from
  BY AtFromAfter
<1>5. \A i \in X \cup N \cup E : i \in Nat /\ i >= from
  BY AtFromAfter
<1>6. \A i \in E : recs[i].num \in Nat
  <2> TAKE i \in E
  <2>1. recs[i] \in Record
    BY AtFromAfter
  <2> QED
    BY <2>1 DEF Record
<1>7. /\ w.time = r.time
      /\ r.event = "ENTRY" => w.region = r.hash
      /\ r.event = "EXIT" => w.region = NoRegion
      /\ r.event \notin {"ENTRY", "EXIT"} => w.region = valid.region
      /\ r.event = "EPOCH" => w.epoch = r.num
      /\ r.event # "EPOCH" => w.epoch = valid.epoch
      /\ w \in ValidState
  BY <1>3 DEF Validated, ValidState, Event
<1>8. TimesRise(recs, from, valid, m) /\ ExitThenEntry(recs, from)
      /\ RegionFollows(recs, from, valid, m) /\ EpochsFollow(recs, from, valid, m)
  BY DEF Replays
<1>9. valid.time <= r.time /\ TimesRise(recs, from + 1, w, m)
  <2>1. from \in from .. Len(recs) /\ from + 1 .. Len(recs) \in SUBSET (from .. Len(recs))
    OBVIOUS
  <2>2. valid.time <= r.time /\ r.time <= m.time
    BY <1>8, <2>1 DEF TimesRise
  <2>3. \A i \in from + 1 .. Len(recs) : r.time <= recs[i].time /\ recs[i].time <= m.time
    BY <1>8, <2>1 DEF TimesRise
  <2>4. \A i, j \in from + 1 .. Len(recs) : i <= j => recs[i].time <= recs[j].time
    BY <1>8, <2>1 DEF TimesRise
  <2> HIDE DEF w, r
  <2> QED
    BY <1>7, <2>2, <2>3, <2>4 DEF TimesRise
<1> HIDE DEF w, X1, N1, E1
<1>10. /\ \A i, j \in X : i = j
       /\ \A i, j \in N : i = j
       /\ \A i \in X, j \in N : i < j
       /\ \A i \in X : valid.region # NoRegion /\ recs[i].hash = valid.region
       /\ \A j \in N : /\ m.region # NoRegion /\ recs[j].hash = m.region
                       /\ valid.region # NoRegion => X # {}
       /\ N = {} => m.region = IF X = {} THEN valid.region ELSE NoRegion
  BY <1>8 DEF ExitThenEntry, RegionFollows
<1> HIDE DEF X, N, E
<1>11. ExitThenEntry(recs, from + 1)
  <2>1. X1 \in SUBSET X /\ N1 \in SUBSET N
    BY <1>2
  <2>2. /\ \A i, j \in X1 : i = j
        /\ \A i, j \in N1 : i = j
        /\ \A i \in X1, j \in N1 : i < j
    BY <1>10, <2>1
  <2> QED
    BY <2>2 DEF ExitThenEntry, X1, N1
<1>12. /\ r.event = "ENTRY" => valid.region = NoRegion
       /\ r.event = "EXIT" => valid.region # NoRegion /\ r.hash = valid.region
       /\ RegionFollows(recs, from + 1, w, m)
  <2>1. CASE r.event = "ENTRY"
    <3>1. from \in N /\ X = X1 /\ N = N1 \cup {from}
      BY <1>2, <2>1
    <3>2. X = {}
      <4>1. ASSUME NEW i \in X PROVE FALSE
        <5>1. i < from
          BY <1>10, <3>1, <4>1
        <5> QED
          BY <1>5, <4>1, <5>1
      <4> QED
        BY <4>1
    <3>3. N1 = {} /\ X1 = {}
      BY <1>4, <1>10, <3>1, <3>2
    <3>4. valid.region = NoRegion /\ m.region = r.hash
      BY <1>10, <3>1, <3>2
    <3> QED
      BY <1>7, <2>1, <3>3, <3>4 DEF RegionFollows, X1, N1
  <2>2. CASE r.event = "EXIT"
    <3>1. from \in X /\ X = X1 \cup {from} /\ N = N1
      BY <1>2, <2>2
    <3>2. X1 = {}
      BY <1>4, <1>10, <3>1
    <3>3. /\ valid.region # NoRegion /\ r.hash = valid.region
          /\ \A j \in N1 : m.region # NoRegion /\ recs[j].hash = m.region
          /\ N1 = {} => m.region = NoRegion
      BY <1>10, <3>1
    <3> QED
      BY <1>7, <2>2, <3>2, <3>3 DEF RegionFollows, X1, N1
  <2>3. CASE r.event \notin {"ENTRY", "EXIT"}
    <3>1. X = X1 /\ N = N1 /\ w.region = valid.region
      BY <1>2, <1>7, <2>3
    <3> QED
      BY <1>10, <2>3, <3>1 DEF RegionFollows, X1, N1
  <2> QED
    BY <2>1, <2>2, <2>3
<1>13. /\ valid.epoch <= m.epoch
       /\ \A i \in E : recs[i].num \in valid.epoch + 1 .. m.epoch
       /\ \A e \in valid.epoch + 1 .. m.epoch : \E i \in E : recs[i].num = e
       /\ \A i, j \in E : i < j => recs[i].num < recs[j].num
  BY <1>8 DEF EpochsFollow, E
<1>14. /\ r.event = "EPOCH" => r.num = valid.epoch + 1
       /\ EpochsFollow(recs, from + 1, w, m)
  <2>1. CASE r.event = "EPOCH"
    <3>1. from \in E /\ E = E1 \cup {from} /\ w.epoch = r.num
      BY <1>2, <1>7, <2>1
    <3>2. r.num \in valid.epoch + 1 .. m.epoch
      BY <1>13, <3>1
    <3>3. PICK i \in E : recs[i].num = valid.epoch + 1
      BY <1>3, <1>13, <3>2
    <3>4. r.num = valid.epoch + 1
      <4>1. CASE i = from
        BY <3>3, <4>1
      <4>2. CASE i # from
        <5>1. from < i
          BY <1>5, <3>1, <4>2
        <5>2. r.num < valid.epoch + 1
          BY <1>13, <3>1, <3>3, <5>1
        <5> QED
          BY <1>3, <3>2, <5>2
      <4> QED
        BY <4>1, <4>2
    <3>5. \A j \in E1 : j \in E /\ r.num < recs[j].num
      BY <1>4, <1>13, <3>1
    <3>6. ASSUME NEW j \in E1
          PROVE  recs[j].num \in w.epoch + 1 .. m.epoch
      <4>1. /\ w.epoch = r.num /\ r.num \in Nat /\ m.epoch \in Nat
            /\ valid.epoch \in Nat
        BY <1>3, <3>1
      <4>2. j \in E /\ r.num < recs[j].num
        BY <3>5
      <4>3. recs[j].num \in valid.epoch + 1 .. m.epoch
        BY <1>13, <4>2
      <4> QED
        BY ONLY <4>1, <4>2, <4>3
    <3>7. ASSUME NEW e \in w.epoch + 1 .. m.epoch
          PROVE  \E j \in E1 : recs[j].num = e
      <4>1. e \in valid.epoch + 1 .. m.epoch /\ e # r.num
        BY <1>3, <3>1, <3>4
      <4>2. PICK j \in E : recs[j].num = e
        BY <1>13, <4>1
      <4> QED
        BY <3>1, <4>1, <4>2
    <3>8. w.epoch <= m.epoch
      BY <1>3, <3>1, <3>2
    <3>9. \A i_1, j \in E1 : i_1 < j => recs[i_1].num < recs[j].num
      BY <1>13, <3>1
    <3> QED
      BY <3>4, <3>6, <3>7, <3>8, <3>9 DEF EpochsFollow, E1
  <2>2. CASE r.event # "EPOCH"
    <3>1. E = E1 /\ w.epoch = valid.epoch
      BY <1>2, <1>7, <2>2
    <3> QED
      BY <1>13, <2>2, <3>1 DEF EpochsFollow, E1
  <2> QED
    BY <2>1, <2>2
<1> HIDE DEF r
<1>15. Accepts(r)
  BY <1>3, <1>9, <1>12, <1>14 DEF Accepts
<1> QED
  BY <1>7, <1>9, <1>11, <1>12, <1>14, <1>15 DEF r, w, Replays

\* Once the last record is consumed the controller is where the replay leads.
LEMMA ReplayDone ==
    ASSUME NEW recs \in Seq(Record), NEW from \in Nat \ {0}, from > Len(recs),
           NEW v \in ValidState, NEW m \in ValidState, Replays(recs, from, v, m)
    PROVE  v.time <= m.time /\ v.region = m.region /\ v.epoch = m.epoch
<1>1. \A e : AtFrom(recs, from, e) = {}
  BY DEF AtFrom
<1>2. v.region = m.region
  BY <1>1 DEF Replays, RegionFollows
<1>3. v.epoch = m.epoch
  <2>1. v.epoch \in Nat /\ m.epoch \in Nat /\ v.epoch <= m.epoch
    BY DEF Replays, EpochsFollow, ValidState
  <2>2. \A e \in v.epoch + 1 .. m.epoch : FALSE
    BY <1>1 DEF Replays, EpochsFollow
  <2>3. ~(v.epoch + 1 <= m.epoch)
    BY <2>1, <2>2
  <2> QED
    BY <2>1, <2>3
<1> QED
  BY <1>2, <1>3 DEF Replays, TimesRise

-----------------------------------------------------------------------------
(* The log's side: the table grows at the end.                             *)

\* The state a record leaves: what append_record() makes of the log's state.
Leads(r, m, n) ==
    /\ m.time <= r.time /\ r.time <= n.time
    /\ \/ /\ r.event = "ENTRY"
          /\ m.region = NoRegion /\ n.region = r.hash /\ r.hash # NoRegion
          /\ n.epoch = m.epoch
       \/ /\ r.event = "EXIT"
          /\ m.region = r.hash /\ r.hash # NoRegion /\ n.region = NoRegion
          /\ n.epoch = m.epoch
       \/ /\ r.event = "EPOCH"
          /\ r.num = m.epoch + 1 /\ n.epoch = r.num
          /\ n.region = m.region
       \/ /\ r.event = "SHORT"
          /\ n.region = m.region /\ n.epoch = m.epoch

\* The indices of one kind in a longer table.
LEMMA AtFromAppend ==
    ASSUME NEW recs \in Seq(Record), NEW r \in Record, NEW e
    PROVE  /\ r.event = e => AtFrom(Append(recs, r), 1, e) = AtFrom(recs, 1, e) \cup {Len(recs) + 1}
           /\ r.event # e => AtFrom(Append(recs, r), 1, e) = AtFrom(recs, 1, e)
           /\ \A i \in AtFrom(recs, 1, e) : i \in Nat /\ i < Len(recs) + 1
<1> DEFINE new == Append(recs, r)
<1>1. /\ Len(new) = Len(recs) + 1 /\ Len(recs) \in Nat
      /\ \A i \in 1 .. Len(recs) : new[i] = recs[i]
      /\ new[Len(recs) + 1] = r
      /\ 1 .. Len(recs) + 1 = (1 .. Len(recs)) \cup {Len(recs) + 1}
  OBVIOUS
<1> HIDE DEF new
<1>2. \A i \in AtFrom(recs, 1, e) : i \in Nat /\ i < Len(recs) + 1
  BY <1>1 DEF AtFrom
<1>3. /\ r.event = e => AtFrom(new, 1, e) = AtFrom(recs, 1, e) \cup {Len(recs) + 1}
      /\ r.event # e => AtFrom(new, 1, e) = AtFrom(recs, 1, e)
  BY <1>1 DEF AtFrom
<1> QED
  BY <1>2, <1>3 DEF new

\* A record that follows from the state of the log extends a replay.
LEMMA ReplayAppend ==
    ASSUME NEW recs \in Seq(Record), NEW r \in Record,
           NEW v \in ValidState, NEW m \in ValidState, NEW n \in ValidState,
           Replays(recs, 1, v, m), Leads(r, m, n),
           r.event = "EXIT" => AtFrom(recs, 1, "ENTRY") = {}
    PROVE  Replays(Append(recs, r), 1, v, n)
<1> DEFINE new == Append(recs, r)
           k == Len(recs) + 1
           X == AtFrom(recs, 1, "EXIT")
           N == AtFrom(recs, 1, "ENTRY")
           E == AtFrom(recs, 1, "EPOCH")
           X1 == AtFrom(new, 1, "EXIT")
           N1 == AtFrom(new, 1, "ENTRY")
           E1 == AtFrom(new, 1, "EPOCH")
<1>1. /\ r.event = "EXIT" => X1 = X \cup {k}
      /\ r.event # "EXIT" => X1 = X
      /\ r.event = "ENTRY" => N1 = N \cup {k}
      /\ r.event # "ENTRY" => N1 = N
      /\ r.event = "EPOCH" => E1 = E \cup {k}
      /\ r.event # "EPOCH" => E1 = E
      /\ \A i \in X \cup N \cup E : i \in Nat /\ i < k
  <2>1. \A e : /\ r.event = e => AtFrom(new, 1, e) = AtFrom(recs, 1, e) \cup {k}
               /\ r.event # e => AtFrom(new, 1, e) = AtFrom(recs, 1, e)
    BY AtFromAppend
  <2>2. \A i \in X \cup N \cup E : i \in 1 .. Len(recs)
    BY ONLY DEF AtFrom
  <2>3. Len(recs) \in Nat
    BY ONLY recs \in Seq(Record)
  <2>4. \A i \in X \cup N \cup E : i \in Nat /\ i < k
    BY <2>2, <2>3
  <2> QED
    BY ONLY <2>1, <2>4
<1>2. /\ Len(new) = k /\ Len(recs) \in Nat /\ k \in Nat
      /\ \A i \in 1 .. Len(recs) : new[i] = recs[i]
      /\ new[k] = r
      /\ 1 .. k = (1 .. Len(recs)) \cup {k}
  OBVIOUS
<1>3. X \cup N \cup E \in SUBSET (1 .. Len(recs))
  BY DEF AtFrom
<1>4. /\ r.event \in Event /\ r.hash \in Region \cup {NoRegion}
      /\ r.num \in Nat /\ r.time \in Nat
      /\ v.time \in Nat /\ v.region \in Region \cup {NoRegion} /\ v.epoch \in Nat
      /\ m.time \in Nat /\ m.region \in Region \cup {NoRegion} /\ m.epoch \in Nat
      /\ n.time \in Nat /\ n.region \in Region \cup {NoRegion} /\ n.epoch \in Nat
      /\ \A i \in 1 .. Len(recs) : recs[i].time \in Nat /\ recs[i].num \in Nat
  <2>1. \A i \in 1 .. Len(recs) : recs[i] \in Record
    OBVIOUS
  <2> QED
    BY <2>1 DEF Record, ValidState
<1>5. TimesRise(recs, 1, v, m) /\ ExitThenEntry(recs, 1)
      /\ RegionFollows(recs, 1, v, m) /\ EpochsFollow(recs, 1, v, m)
  BY DEF Replays
<1> HIDE DEF new, k
<1>6. TimesRise(new, 1, v, n)
  <2>1. m.time <= r.time /\ r.time <= n.time
    BY DEF Leads
  <2>2. /\ v.time <= m.time
        /\ \A i \in 1 .. Len(recs) : v.time <= recs[i].time /\ recs[i].time <= m.time
        /\ \A i, j \in 1 .. Len(recs) : i <= j => recs[i].time <= recs[j].time
    BY <1>5 DEF TimesRise
  <2>3. v.time <= n.time
    BY <1>4, <2>1, <2>2
  <2>4. ASSUME NEW i \in 1 .. k
        PROVE  v.time <= new[i].time /\ new[i].time <= n.time
    <3>1. CASE i = k
      BY <1>2, <1>4, <2>1, <2>2, <3>1
    <3>2. CASE i \in 1 .. Len(recs)
      <4>1. new[i].time = recs[i].time /\ recs[i].time \in Nat
        BY <1>2, <1>4, <3>2
      <4>2. v.time <= recs[i].time /\ recs[i].time <= m.time
        BY <2>2, <3>2
      <4> QED
        BY <1>4, <2>1, <4>1, <4>2
    <3> QED
      BY <1>2, <3>1, <3>2
  <2>5. ASSUME NEW i \in 1 .. k, NEW j \in 1 .. k, i <= j
        PROVE  new[i].time <= new[j].time
    <3>1. CASE i \in 1 .. Len(recs) /\ j \in 1 .. Len(recs)
      BY <1>2, <2>2, <2>5, <3>1
    <3>2. CASE i = k
      BY <1>2, <1>4, <2>5, <3>2 DEF k
    <3>3. CASE i \in 1 .. Len(recs) /\ j = k
      BY <1>2, <1>4, <2>1, <2>2, <3>3
    <3> QED
      BY <1>2, <3>1, <3>2, <3>3
  <2> QED
    BY <1>2, <2>3, <2>4, <2>5 DEF TimesRise
<1>7. /\ \A i, j \in X : i = j
      /\ \A i, j \in N : i = j
      /\ \A i \in X, j \in N : i < j
      /\ \A i \in X : v.region # NoRegion /\ recs[i].hash = v.region
      /\ \A j \in N : /\ m.region # NoRegion /\ recs[j].hash = m.region
                      /\ v.region # NoRegion => X # {}
      /\ N = {} => m.region = IF X = {} THEN v.region ELSE NoRegion
  BY <1>5 DEF ExitThenEntry, RegionFollows
<1>8. \A i \in X \cup N \cup E : new[i] = recs[i]
  BY <1>2, <1>3
<1> HIDE DEF X, N, E, X1, N1, E1
<1>9. ExitThenEntry(new, 1) /\ RegionFollows(new, 1, v, n)
  <2>1. CASE r.event = "ENTRY"
    <3>1. X1 = X /\ N1 = N \cup {k} /\ m.region = NoRegion /\ n.region = r.hash /\ r.hash # NoRegion
      BY <1>1, <2>1 DEF Leads
    <3>2. N = {} /\ N1 = {k}
      BY <1>7, <3>1
    <3>3. v.region # NoRegion => X1 # {}
      BY <1>7, <3>1, <3>2
    <3>4. ExitThenEntry(new, 1)
      BY <1>1, <1>7, <3>1, <3>2 DEF ExitThenEntry, X1, N1
    <3>5. RegionFollows(new, 1, v, n)
      BY <1>2, <1>7, <1>8, <3>1, <3>2, <3>3 DEF RegionFollows, X1, N1
    <3> QED
      BY <3>4, <3>5
  <2>2. CASE r.event = "EXIT"
    <3>1. X1 = X \cup {k} /\ N1 = N /\ N = {} /\ m.region = r.hash /\ r.hash # NoRegion
          /\ n.region = NoRegion
      BY <1>1, <2>2 DEF Leads, N
    <3>2. X = {} /\ X1 = {k} /\ v.region = r.hash
      BY <1>7, <3>1
    <3>3. ExitThenEntry(new, 1)
      BY <3>1, <3>2 DEF ExitThenEntry, X1, N1
    <3>4. RegionFollows(new, 1, v, n)
      BY <1>2, <3>1, <3>2 DEF RegionFollows, X1, N1
    <3> QED
      BY <3>3, <3>4
  <2>3. CASE r.event \notin {"ENTRY", "EXIT"}
    <3>1. X1 = X /\ N1 = N /\ n.region = m.region
      BY <1>1, <2>3 DEF Leads
    <3>2. ExitThenEntry(new, 1)
      BY <1>7, <3>1 DEF ExitThenEntry, X1, N1
    <3>3. RegionFollows(new, 1, v, n)
      BY <1>7, <1>8, <3>1 DEF RegionFollows, X1, N1
    <3> QED
      BY <3>2, <3>3
  <2> QED
    BY <2>1, <2>2, <2>3
<1>10. EpochsFollow(new, 1, v, n)
  <2>1. /\ v.epoch <= m.epoch
        /\ \A i \in E : recs[i].num \in v.epoch + 1 .. m.epoch
        /\ \A e \in v.epoch + 1 .. m.epoch : \E i \in E : recs[i].num = e
        /\ \A i, j \in E : i < j => recs[i].num < recs[j].num
    BY <1>5 DEF EpochsFollow, E
  <2>2. CASE r.event = "EPOCH"
    <3>1. E1 = E \cup {k} /\ r.num = m.epoch + 1 /\ n.epoch = m.epoch + 1
      BY <1>1, <2>2 DEF Leads
    <3>2. v.epoch <= n.epoch
      BY <1>4, <2>1, <3>1
    <3>3. \A i \in E1 : new[i].num \in v.epoch + 1 .. n.epoch
      <4>1. r.num \in v.epoch + 1 .. n.epoch
        BY <1>4, <2>1, <3>1
      <4>2. v.epoch + 1 .. m.epoch \in SUBSET (v.epoch + 1 .. n.epoch)
        BY <1>4, <3>1
      <4> QED
        BY <1>2, <1>8, <2>1, <3>1, <4>1, <4>2
    <3>4. ASSUME NEW e \in v.epoch + 1 .. n.epoch
          PROVE  \E i \in E1 : new[i].num = e
      <4>1. e \in v.epoch + 1 .. m.epoch \/ e = r.num
        BY <1>4, <3>1
      <4> QED
        BY <1>2, <1>8, <2>1, <3>1, <4>1
    <3>5. ASSUME NEW i \in E1, NEW j \in E1, i < j
          PROVE  new[i].num < new[j].num
      <4>1. i # k
        <5>1. \A l \in E1 : l \in Nat /\ l <= k
          BY <1>1, <1>2, <3>1
        <5> QED
          BY <1>2, <3>5, <5>1
      <4>2. i \in E /\ new[i] = recs[i] /\ recs[i].num \in v.epoch + 1 .. m.epoch
        BY <1>8, <2>1, <3>1, <4>1
      <4>3. CASE j \in E
        BY <1>8, <2>1, <3>5, <4>2, <4>3
      <4>4. CASE j = k
        BY <1>2, <1>4, <3>1, <4>2, <4>4
      <4> QED
        BY <3>1, <4>3, <4>4
    <3> QED
      BY <3>2, <3>3, <3>4, <3>5 DEF EpochsFollow, E1
  <2>3. CASE r.event # "EPOCH"
    <3>1. E1 = E /\ n.epoch = m.epoch
      BY <1>1, <2>3 DEF Leads
    <3> QED
      BY <1>8, <2>1, <3>1 DEF EpochsFollow, E1
  <2> QED
    BY <2>2, <2>3
<1> QED
  BY <1>6, <1>9, <1>10 DEF Replays, new

\* An entry record that becomes a short-region record leaves the replay in the
\* state before the entry: in no region.
LEMMA ReplayConvert ==
    ASSUME NEW recs \in Seq(Record), NEW new \in Seq(Record),
           NEW v \in ValidState, NEW m \in ValidState, NEW n \in ValidState,
           Replays(recs, 1, v, m), NEW k \in AtFrom(recs, 1, "ENTRY"),
           Len(new) = Len(recs),
           \A i \in 1 .. Len(recs) : i # k => new[i] = recs[i],
           new[k].event = "SHORT", new[k].time = recs[k].time,
           n.region = NoRegion, n.epoch = m.epoch, m.time <= n.time
    PROVE  Replays(new, 1, v, n)
<1> DEFINE X == AtFrom(recs, 1, "EXIT")
           N == AtFrom(recs, 1, "ENTRY")
           E == AtFrom(recs, 1, "EPOCH")
<1>1. k \in 1 .. Len(recs) /\ recs[k].event = "ENTRY" /\ Len(recs) \in Nat
  BY DEF AtFrom
<1>2. TimesRise(recs, 1, v, m) /\ ExitThenEntry(recs, 1)
      /\ RegionFollows(recs, 1, v, m) /\ EpochsFollow(recs, 1, v, m)
  BY DEF Replays
<1>3. /\ AtFrom(new, 1, "EXIT") = X
      /\ AtFrom(new, 1, "ENTRY") = N \ {k}
      /\ AtFrom(new, 1, "EPOCH") = E
  BY <1>1 DEF AtFrom
<1>4. N = {k}
  BY <1>2 DEF ExitThenEntry
<1>5. \A i \in X \cup E : new[i] = recs[i]
  BY <1>1 DEF AtFrom
<1>6. TimesRise(new, 1, v, n)
  <2>1. \A i \in 1 .. Len(recs) : new[i].time = recs[i].time /\ recs[i].time \in Nat
    <3>1. \A i \in 1 .. Len(recs) : recs[i] \in Record
      OBVIOUS
    <3> QED
      BY <3>1 DEF Record
  <2>2. v.time \in Nat /\ m.time \in Nat /\ n.time \in Nat
    BY DEF ValidState
  <2>3. v.time <= n.time /\ \A i \in 1 .. Len(recs) : v.time <= recs[i].time /\ recs[i].time <= n.time
    BY <1>2, <2>1, <2>2 DEF TimesRise
  <2>4. \A i, j \in 1 .. Len(recs) : i <= j => new[i].time <= new[j].time
    BY ONLY <1>2, <2>1 DEF TimesRise
  <2>5. Len(new) = Len(recs)
    OBVIOUS
  <2> QED
    BY ONLY <2>1, <2>3, <2>4, <2>5 DEF TimesRise
<1>7. ExitThenEntry(new, 1)
  BY <1>2, <1>3, <1>4 DEF ExitThenEntry
<1>8. RegionFollows(new, 1, v, n)
  <2>1. X = {} => v.region = NoRegion
    BY <1>2 DEF RegionFollows
  <2> QED
    BY <1>2, <1>3, <1>4, <1>5, <2>1 DEF RegionFollows
<1>9. EpochsFollow(new, 1, v, n)
  <2> HIDE DEF E
  <2>1. /\ v.epoch <= m.epoch
        /\ \A i \in E : recs[i].num \in v.epoch + 1 .. m.epoch
        /\ \A e \in v.epoch + 1 .. m.epoch : \E i \in E : recs[i].num = e
        /\ \A i, j \in E : i < j => recs[i].num < recs[j].num
    BY <1>2 DEF EpochsFollow, E
  <2> QED
    BY <1>3, <1>5, <2>1 DEF EpochsFollow
<1> QED
  BY <1>6, <1>7, <1>8, <1>9 DEF Replays

\* Time passes.
LEMMA ReplayLater ==
    ASSUME NEW recs \in Seq(Record), NEW v \in ValidState, NEW m \in ValidState,
           NEW n \in ValidState, NEW from \in Nat \ {0}, Replays(recs, from, v, m),
           m.time <= n.time, n.region = m.region, n.epoch = m.epoch
    PROVE  Replays(recs, from, v, n)
<1>1. \A i \in from .. Len(recs) : recs[i].time \in Nat
  <2>1. \A i \in from .. Len(recs) : recs[i] \in Record
    OBVIOUS
  <2> QED
    BY <2>1 DEF Record
<1>2. TimesRise(recs, from, v, n)
  BY <1>1 DEF Replays, TimesRise, ValidState
<1>3. RegionFollows(recs, from, v, n) /\ EpochsFollow(recs, from, v, n)
  BY DEF Replays, RegionFollows, EpochsFollow
<1> QED
  BY <1>2, <1>3 DEF Replays

\* An empty table leads nowhere.
LEMMA ReplayNothing ==
    ASSUME NEW v \in ValidState, NEW m \in ValidState,
           v.time <= m.time, v.region = m.region, v.epoch = m.epoch
    PROVE  Replays(<<>>, 1, v, m)
<1>1. \A e : AtFrom(<<>>, 1, e) = {}
  BY DEF AtFrom
<1>2. v.epoch + 1 .. m.epoch = {}
  BY DEF ValidState
<1>3. v.epoch <= m.epoch
  BY DEF ValidState
<1> QED
  BY <1>1, <1>2, <1>3
  DEF Replays, TimesRise, ExitThenEntry, RegionFollows, EpochsFollow

-----------------------------------------------------------------------------
(* The application's stack and Profile's view of it.                       *)

\* An enter outside of any region,
LEMMA EnterOuterStack ==
    ASSUME TypeOK, SameRegion, NEW h \in Region, OutermostEnter(h)
    PROVE  /\ app_stack = <<>> /\ hint_depth = 0
           /\ current_hash = NoRegion /\ entered_hash = NoRegion
           /\ app_stack' = <<h>> /\ app_stack' # <<>> /\ Outermost' = h
           /\ current_hash' = h /\ app_enter_time' = now /\ now' = now
           /\ UNCHANGED <<epoch_count, region_table, ctlVars, done, spent>>
<1>1. app_stack \in Seq(Region)
  BY DEF TypeOK, AppTypeOK
<1>2. app_stack = <<>>
  <2>1. SUFFICES ASSUME app_stack # <<>> PROVE FALSE
    OBVIOUS
  <2>2. app_stack[Len(app_stack)] \in Region
    BY <1>1, <2>1
  <2>3. current_hash = app_stack[Len(app_stack)] /\ current_hash = NoRegion
    BY <2>1 DEF SameRegion, Outermost, OutermostEnter
  <2> QED
    BY <2>2, <2>3, NoRegionAssumption
<1>3. app_stack' = <<h>>
  <2>1. app_stack' = <<h>> \o app_stack
    BY DEF OutermostEnter, AppEnter
  <2> QED
    BY <1>2, <2>1
<1>4. app_stack' # <<>> /\ Outermost' = h
  <2>1. Outermost' = app_stack'[Len(app_stack')]
    BY DEF Outermost
  <2> QED
    BY <1>3, <2>1
<1>5. /\ hint_depth = 0 /\ current_hash = NoRegion /\ entered_hash = NoRegion
      /\ current_hash' = h /\ app_enter_time' = now /\ now' = now
      /\ UNCHANGED <<epoch_count, region_table, ctlVars, done, spent>>
  BY <1>2 DEF SameRegion, OutermostEnter, AppEnter
<1> QED
  BY <1>2, <1>3, <1>4, <1>5

\* an exit of the last region,
LEMMA ExitOuterStack ==
    ASSUME TypeOK, SameRegion, NEW h \in Region, OutermostExit(h)
    PROVE  /\ app_stack # <<>> /\ Len(app_stack) = 1 /\ Outermost = h
           /\ current_hash = h /\ entered_hash = h /\ h # NoRegion
           /\ app_stack' = <<>> /\ hint_depth' = 0
           /\ app_enter_time' = app_enter_time /\ now' = now
           /\ done' = [done EXCEPT ![h] = @ + 1]
           /\ spent' = [spent EXCEPT ![h] = @ + (now - app_enter_time)]
           /\ UNCHANGED <<epoch_count, ctlVars>>
<1>1. app_stack \in Seq(Region) /\ app_stack # <<>> /\ h = Head(app_stack)
  BY DEF TypeOK, AppTypeOK, OutermostExit, AppExit
<1>2. Len(app_stack) = 1
  BY DEF SameRegion, OutermostExit
<1>3. Outermost = h
  BY <1>1, <1>2 DEF Outermost
<1>4. app_stack' = <<>>
  <2>1. app_stack' = Tail(app_stack)
    BY DEF OutermostExit, AppExit
  <2>2. Tail(app_stack) \in Seq(Region) /\ Len(Tail(app_stack)) = 0
    BY <1>1, <1>2
  <2> QED
    BY <2>1, <2>2
<1>5. /\ hint_depth' = 0 /\ app_enter_time' = app_enter_time /\ now' = now
      /\ done' = [done EXCEPT ![h] = @ + 1]
      /\ spent' = [spent EXCEPT ![h] = @ + (now - app_enter_time)]
      /\ UNCHANGED <<epoch_count, ctlVars>>
  BY <1>2 DEF OutermostExit, AppExit
<1> QED
  BY <1>1, <1>2, <1>3, <1>4, <1>5, NoRegionAssumption DEF SameRegion

\* and the calls in between.
LEMMA NestedStack ==
    ASSUME TypeOK, SameRegion, NEW h \in Region, EnterNested(h) \/ ExitNested(h)
    PROVE  /\ app_stack # <<>> /\ app_stack' # <<>> /\ Outermost' = Outermost
           /\ hint_depth' = Len(app_stack')
           /\ app_enter_time' = app_enter_time
           /\ UNCHANGED <<done, spent, now, current_hash, logVars, tableVars, ctlVars>>
<1>1. app_stack \in Seq(Region) /\ hint_depth = Len(app_stack)
  BY DEF TypeOK, AppTypeOK, SameRegion
<1>2. CASE EnterNested(h)
  <2>1. app_stack # <<>>
    BY <1>2 DEF EnterNested, SameRegion
  <2>2. app_stack' = <<h>> \o app_stack /\ hint_depth' = hint_depth + 1
    BY <1>2 DEF EnterNested, AppEnter
  <2> DEFINE new == <<h>> \o app_stack
  <2>3. /\ Len(new) = Len(app_stack) + 1 /\ new # <<>>
        /\ new[Len(app_stack) + 1] = app_stack[Len(app_stack)]
    BY <1>1, <2>1
  <2> HIDE DEF new
  <2>4. Outermost' = Outermost /\ app_stack' # <<>> /\ hint_depth' = Len(app_stack')
    BY <1>1, <2>2, <2>3 DEF Outermost, new
  <2>5. app_enter_time' = app_enter_time
        /\ UNCHANGED <<done, spent, now, current_hash, logVars, tableVars, ctlVars>>
    BY <1>2, <2>1 DEF EnterNested, AppEnter
  <2> QED
    BY <2>1, <2>4, <2>5
<1>3. CASE ExitNested(h)
  <2>1. app_stack # <<>> /\ app_stack' = Tail(app_stack) /\ hint_depth' = hint_depth - 1
        /\ Len(app_stack) > 1
    BY <1>1, <1>3 DEF ExitNested, AppExit
  <2> DEFINE new == Tail(app_stack)
  <2>2. new \in Seq(Region) /\ Len(new) = Len(app_stack) - 1
        /\ \A i \in 1 .. Len(new) : new[i] = app_stack[i + 1]
    BY <1>1, <2>1, HeadTailProperties
  <2> HIDE DEF new
  <2>3. new # <<>> /\ new[Len(new)] = app_stack[Len(app_stack)]
    <3>1. Len(new) \in 1 .. Len(new) /\ Len(new) + 1 = Len(app_stack)
      BY <1>1, <2>1, <2>2
    <3> QED
      BY <2>2, <3>1
  <2>4. Outermost' = Outermost /\ app_stack' # <<>> /\ hint_depth' = Len(app_stack')
    BY <1>1, <2>1, <2>2, <2>3 DEF Outermost, new
  <2>5. app_enter_time' = app_enter_time
        /\ UNCHANGED <<done, spent, now, current_hash, logVars, tableVars, ctlVars>>
    <3>1. Len(app_stack) # 1
      BY <1>1, <2>1
    <3> QED
      BY <1>3, <3>1 DEF ExitNested, AppExit
  <2> QED
    BY <2>1, <2>4, <2>5
<1> QED
  BY <1>2, <1>3

\* The calls an application makes of a log that does not overflow.
LEMMA SoundApp ==
    ASSUME TypeOK, SameRegion, App, Sound'
    PROVE  \/ \E h \in Region : EnterAgain(h)
           \/ \E h \in Region : EnterNew(h)
           \/ \E h \in Region : EnterNested(h) \/ ExitNested(h)
           \/ \E h \in Region : ExitLong(h)
           \/ \E h \in Region : ExitFirstShort(h)
           \/ \E h \in Region : ExitStillShort(h)
           \/ \E h \in Region : ExitShortAgain(h)
           \/ Epoch
<1>1. /\ \A h \in Region : ~EnterOverflow(h) /\ ~ExitOverflow(h) /\ ~ExitBadIndex(h)
      /\ ~EpochOverflow
  BY DEF Sound, EnterOverflow, ExitOverflow, ExitBadIndex, EpochOverflow, Refused
<1>2. \A h \in Region : ~ExitUnmatched(h)
  BY DEF ExitUnmatched, AppExit, SameRegion, TypeOK, AppTypeOK
<1> QED
  BY <1>1, <1>2 DEF App, Enter, Exit

\* They leave Profile and the application in agreement.
LEMMA SameRegionApp ==
    ASSUME TypeOK, SameRegion, App, Sound'
    PROVE  SameRegion' /\ (app_enter_time <= now => app_enter_time' <= now')
<1>0. now \in Nat
  BY DEF TypeOK, AppTypeOK
<1>1. ASSUME NEW h \in Region, EnterAgain(h) \/ EnterNew(h)
      PROVE  SameRegion' /\ app_enter_time' <= now'
  <2>1. OutermostEnter(h) /\ entered_hash' = h /\ hint_depth' = hint_depth + 1
    BY <1>1 DEF EnterAgain, EnterNew
  <2>2. Len(app_stack') = 1 /\ hint_depth' = 1
    BY <2>1, EnterOuterStack
  <2> QED
    BY <1>0, <2>1, <2>2, EnterOuterStack DEF SameRegion
<1>2. ASSUME NEW h \in Region, EnterNested(h) \/ ExitNested(h)
      PROVE  SameRegion' /\ (app_enter_time <= now => app_enter_time' <= now')
  BY <1>2, NestedStack DEF SameRegion, logVars
<1>3. ASSUME NEW h \in Region,
             ExitLong(h) \/ ExitFirstShort(h) \/ ExitStillShort(h) \/ ExitShortAgain(h)
      PROVE  SameRegion' /\ (app_enter_time <= now => app_enter_time' <= now')
  <2>1. OutermostExit(h) /\ current_hash' = NoRegion /\ entered_hash' = NoRegion
    BY <1>3 DEF ExitLong, ExitFirstShort, ExitStillShort, ExitShortAgain, ExitReturns
  <2>2. Len(app_stack') = 0
    BY <2>1, ExitOuterStack
  <2> QED
    BY <2>1, <2>2, ExitOuterStack DEF SameRegion
<1>4. CASE Epoch
  BY <1>4 DEF Epoch, EpochCall, SameRegion, Outermost, profVars
<1> QED
  BY <1>1, <1>2, <1>3, <1>4, SoundApp

-----------------------------------------------------------------------------
(* What the calls do to the entries and to the replay of the log.          *)

Good == TypeOK /\ LogInv /\ SameRegion /\ EntriesTrue

\* Whatever state the records of the log are replayed from.
GoesOn ==
    \A v \in ValidState : Replays(record_table, 1, v, LogState)
                             => Replays(record_table', 1, v, LogState')

\* The state of the log is one of ValidateRecord.
LEMMA LogStateType ==
    TypeOK => LogState \in ValidState /\ LoggedRegion \in Region \cup {NoRegion}
<1> SUFFICES ASSUME TypeOK
             PROVE  LogState \in ValidState /\ LoggedRegion \in Region \cup {NoRegion}
  OBVIOUS
<1>1. app_stack \in Seq(Region)
  BY DEF TypeOK, AppTypeOK
<1>2. app_stack # <<>> => Outermost \in Region
  BY <1>1 DEF Outermost
<1>3. LoggedRegion \in Region \cup {NoRegion}
  BY <1>2 DEF LoggedRegion
<1>4. now \in Nat /\ epoch_count \in Nat
  BY DEF TypeOK, AppTypeOK, LogTypeOK
<1> QED
  BY <1>3, <1>4 DEF LogState, ValidState

\* The same after a step.
LEMMA LogStateTypeNext ==
    ASSUME TypeOK'
    PROVE  LogState' \in ValidState
<1>1. (TypeOK => LogState \in ValidState /\ LoggedRegion \in Region \cup {NoRegion})'
  BY LogStateType, PTL
<1> QED
  BY <1>1 DEF ValidState

\* An open entry is that of the current region, and its record is an entry
\* record.
LEMMA OpenFacts ==
    ASSUME Good, NEW h \in Region, IsOpen(h)
    PROVE  /\ h = current_hash /\ h \in DOMAIN LiveMap
           /\ LiveMap[h].record_idx + 1 \in AtFrom(record_table, 1, "ENTRY")
<1>1. /\ h = current_hash /\ h \in DOMAIN LiveMap
      /\ record_table[LiveMap[h].record_idx + 1].event = "ENTRY"
      /\ LiveMap[h].record_idx \in 0 .. num_record - 1
  BY DEF Good, LogInv, OpenEntryIsCurrent, IsOpen
<1>2. num_record \in Nat
  BY TableFacts DEF Good
<1> QED
  BY <1>1, <1>2 DEF AtFrom, num_record

\* Without one there is no entry record.
LEMMA NoEntryRecord ==
    ASSUME EntriesTrue, \A h \in Region : ~IsOpen(h)
    PROVE  AtFrom(record_table, 1, "ENTRY") = {}
  BY DEF EntriesTrue

\* An entry of a region that the application is not in belongs to a short
\* region of this table.
LEMMA OtherEntry ==
    ASSUME Good, NEW h \in DOMAIN LiveMap, h # current_hash
    PROVE  /\ h \in Region /\ LiveMap[h] \in EnterInfo
           /\ LiveMap[h].region_idx \in 0 .. num_region - 1
           /\ LiveMap[h].record_idx \in 0 .. num_record - 1
           /\ region_table[LiveMap[h].region_idx + 1].hash = h
           /\ LiveMap[h].is_short /\ ~IsOpen(h)
<1>1. h \in Region /\ LiveMap[h] \in EnterInfo /\ num_record \in Nat /\ num_region \in Nat
  BY TableFacts DEF Good
<1>2. EntryTrue(h)
  BY DEF Good, EntriesTrue
<1>3. LiveMap[h].region_idx # -1
  BY <1>2 DEF EntryTrue
<1>4. ~IsOpen(h)
  BY <1>3 DEF IsOpen
<1> QED
  BY <1>1, <1>2, <1>3, <1>4 DEF EntryTrue

\* It stays true when the tables grow and the application is not in it after.
LEMMA OtherEntryKept ==
    ASSUME Good, NEW h \in DOMAIN LiveMap, h # current_hash,
           LiveMap'[h] = LiveMap[h], num_record' \in Nat, num_record <= num_record',
           num_region' \in Nat, num_region <= num_region',
           \A k \in 1 .. num_region : region_table'[k].hash = region_table[k].hash,
           h # current_hash'
    PROVE  EntryTrue(h)' /\ ~IsOpen(h)'
<1>1. /\ LiveMap[h].region_idx \in 0 .. num_region - 1
      /\ LiveMap[h].record_idx \in 0 .. num_record - 1
      /\ region_table[LiveMap[h].region_idx + 1].hash = h
      /\ LiveMap[h].is_short
  BY OtherEntry
<1>2. num_record \in Nat /\ num_region \in Nat
  BY TableFacts DEF Good
<1>3. LiveMap[h].region_idx # -1 /\ LiveMap[h].region_idx + 1 \in 1 .. num_region
  BY <1>1, <1>2
<1>4. ~IsOpen(h)'
  BY <1>3 DEF IsOpen
<1>5. /\ LiveMap[h].record_idx \in -1 .. num_record' - 1
      /\ LiveMap[h].record_idx # -1
      /\ LiveMap[h].region_idx \in 0 .. num_region' - 1
  BY <1>1, <1>2
<1>6. region_table'[LiveMap[h].region_idx + 1].hash = h
  BY <1>1, <1>3
<1> QED
  BY <1>1, <1>3, <1>4, <1>5, <1>6 DEF EntryTrue

\* Outside of any region nothing is open, and an empty table has no entries.
LEMMA OutsideFacts ==
    ASSUME Good, app_stack = <<>>
    PROVE  /\ \A h \in DOMAIN LiveMap : h # current_hash
           /\ \A h \in Region : ~IsOpen(h)
           /\ LoggedRegion = NoRegion
           /\ AtFrom(record_table, 1, "ENTRY") = {}
           /\ DOMAIN LiveMap # {} => record_table # <<>>
<1>1. current_hash = NoRegion /\ entered_hash = NoRegion
  BY DEF Good, SameRegion
<1>2. \A h \in DOMAIN LiveMap : h \in Region
  BY TableFacts DEF Good
<1>3. \A h \in DOMAIN LiveMap : h # current_hash
  BY <1>1, <1>2, NoRegionAssumption
<1>4. \A h \in Region : ~IsOpen(h)
  BY <1>3, OpenFacts
<1>5. AtFrom(record_table, 1, "ENTRY") = {}
  BY <1>4, NoEntryRecord DEF Good
<1>6. ASSUME record_table = <<>> PROVE DOMAIN LiveMap = {}
  <2>1. num_record = 0
    BY <1>6 DEF num_record
  <2>2. entered_hash \notin DOMAIN enter_map
    BY <1>1, NoRegionAssumption DEF Good, TypeOK, LogTypeOK
  <2> QED
    BY <2>1, <2>2 DEF LiveMap, NoEntries
<1> QED
  BY <1>3, <1>4, <1>5, <1>6 DEF LoggedRegion

-----------------------------------------------------------------------------
\* A first entry appends an entry record.
LEMMA EnterNewReplay ==
    ASSUME Good, TypeOK', LogInv', NEW g \in Region, EnterNew(g)
    PROVE  EntriesTrue' /\ GoesOn
<1> DEFINE r == RegionRecord("ENTRY", g)
<1>1. /\ record_table' = Append(record_table, r) /\ r \in Record
      /\ r.event = "ENTRY" /\ r.hash = g /\ r.time = now
      /\ enter_map' = WithEntry(LiveMap, g, NewInfo)
      /\ OutermostEnter(g) /\ g \notin DOMAIN LiveMap
  <2>1. r \in Record /\ r.event = "ENTRY" /\ r.hash = g /\ r.time = now
    BY RecordTypes DEF Event, RegionRecord, Good
  <2> QED
    BY <2>1 DEF EnterNew, Append1
<1>2. /\ app_stack = <<>> /\ app_stack' # <<>> /\ Outermost' = g
      /\ current_hash' = g /\ app_enter_time' = now /\ now' = now
      /\ current_hash = NoRegion
      /\ epoch_count' = epoch_count /\ region_table' = region_table
  BY <1>1, EnterOuterStack DEF Good
<1> HIDE DEF r
<1>3. /\ num_record' = num_record + 1 /\ num_region' = num_region
      /\ record_table' # <<>> /\ record_table'[num_record + 1] = r
      /\ num_record \in Nat /\ num_region \in Nat
  BY <1>1, <1>2, AppendProperties DEF num_record, num_region, Good, TypeOK, TableTypeOK
<1>4. /\ DOMAIN LiveMap' = DOMAIN LiveMap \cup {g}
      /\ LiveMap'[g] = NewInfo
      /\ \A h \in DOMAIN LiveMap : LiveMap'[h] = LiveMap[h]
  <2>1. LiveMap' = WithEntry(LiveMap, g, NewInfo)
    BY <1>1, <1>3, NewLiveMap
  <2> QED
    BY <1>1, <2>1 DEF WithEntry
<1>5. IsOpen(g)' /\ LiveMap'[g].record_idx + 1 = num_record + 1
  BY <1>3, <1>4 DEF IsOpen, NewInfo
<1>6. EntryTrue(g)'
  <2>1. /\ LiveMap'[g].record_idx = num_record /\ LiveMap'[g].region_idx = -1
        /\ ~LiveMap'[g].is_short /\ LiveMap'[g].enter_time = now
    BY <1>4 DEF NewInfo
  <2>2. LiveMap'[g].record_idx \in -1 .. num_record' - 1 /\ g = current_hash'
    BY <1>2, <1>3, <2>1
  <2>3. /\ record_table'[LiveMap'[g].record_idx + 1].hash = g
        /\ record_table'[LiveMap'[g].record_idx + 1].time = app_enter_time'
    BY <1>1, <1>2, <1>3, <1>5
  <2>4. LiveMap'[g].is_short <=> ~IsOpen(g)'
    BY <1>5, <2>1
  <2>5. LiveMap'[g].enter_time = app_enter_time' /\ ~(LiveMap'[g].region_idx # -1)
    BY <1>2, <2>1
  <2> QED
    BY <2>2, <2>3, <2>4, <2>5 DEF EntryTrue
<1>7. ASSUME NEW h \in DOMAIN LiveMap PROVE EntryTrue(h)'
  <2>1. h # current_hash /\ h # g
    BY <1>1, <1>2, OutsideFacts
  <2> QED
    BY <1>2, <1>3, <1>4, <2>1, OtherEntryKept
<1>8. AtFrom(record_table', 1, "ENTRY") = {num_record + 1}
  <2>1. AtFrom(record_table, 1, "ENTRY") = {}
    BY <1>2, OutsideFacts
  <2>2. record_table \in Seq(Record)
    BY DEF Good, TypeOK, TableTypeOK
  <2>3. AtFrom(Append(record_table, r), 1, "ENTRY")
           = AtFrom(record_table, 1, "ENTRY") \cup {Len(record_table) + 1}
    BY <1>1, <2>2, AtFromAppend
  <2> QED
    BY <1>1, <2>1, <2>3 DEF num_record
<1>9. EntriesTrue'
  BY <1>4, <1>5, <1>6, <1>7, <1>8 DEF EntriesTrue
<1>10. LoggedRegion = NoRegion /\ LoggedRegion' = g
  BY <1>2, <1>5, OutsideFacts DEF LoggedRegion
<1>11. Leads(r, LogState, LogState')
  <2>1. now \in Nat
    BY DEF Good, TypeOK, AppTypeOK
  <2> QED
    BY <1>1, <1>2, <1>10, <2>1, NoRegionAssumption DEF Leads, LogState
<1>12. GoesOn
  BY <1>1, <1>11, LogStateType, LogStateTypeNext, ReplayAppend
  DEF GoesOn, Good, TypeOK, TableTypeOK
<1> QED
  BY <1>9, <1>12

\* A later entry leaves the tables alone.
LEMMA EnterAgainReplay ==
    ASSUME Good, TypeOK', LogInv', NEW g \in Region, EnterAgain(g)
    PROVE  EntriesTrue' /\ GoesOn
<1>1. /\ OutermostEnter(g) /\ g \in DOMAIN LiveMap
      /\ record_table' = record_table
      /\ enter_map' = [LiveMap EXCEPT ![g].enter_time = now]
  BY DEF EnterAgain
<1>2. /\ app_stack = <<>> /\ app_stack' # <<>> /\ Outermost' = g
      /\ current_hash' = g /\ app_enter_time' = now /\ now' = now
      /\ current_hash = NoRegion
      /\ epoch_count' = epoch_count /\ region_table' = region_table
  BY <1>1, EnterOuterStack DEF Good
<1>3. record_table # <<>>
  BY <1>1, <1>2, OutsideFacts
<1>4. /\ LiveMap' = enter_map' /\ num_record' = num_record /\ num_region' = num_region
      /\ num_record \in Nat /\ num_region \in Nat
  BY <1>1, <1>2, <1>3, NewLiveMap, TableFacts DEF num_record, num_region, Good
<1>5. /\ DOMAIN LiveMap' = DOMAIN LiveMap
      /\ \A h \in DOMAIN LiveMap : h # g => LiveMap'[h] = LiveMap[h]
  BY <1>1, <1>4
<1>6. \A h \in DOMAIN LiveMap : h # current_hash
  BY <1>2, OutsideFacts
<1>7. /\ LiveMap[g] \in EnterInfo
      /\ LiveMap[g].region_idx \in 0 .. num_region - 1
      /\ LiveMap[g].record_idx \in 0 .. num_record - 1
      /\ region_table[LiveMap[g].region_idx + 1].hash = g
      /\ LiveMap[g].is_short
  BY <1>1, <1>6, OtherEntry
<1>8. /\ LiveMap'[g].record_idx = LiveMap[g].record_idx
      /\ LiveMap'[g].region_idx = LiveMap[g].region_idx
      /\ LiveMap'[g].is_short = LiveMap[g].is_short
      /\ LiveMap'[g].enter_time = now
  BY <1>1, <1>4, <1>7 DEF EnterInfo
<1>9. ~IsOpen(g)' /\ EntryTrue(g)'
  <2>1. LiveMap[g].region_idx # -1 /\ LiveMap[g].record_idx # -1
        /\ LiveMap[g].record_idx \in -1 .. num_record - 1
    BY <1>4, <1>7
  <2>2. ~IsOpen(g)'
    BY <1>8, <2>1 DEF IsOpen
  <2> QED
    BY <1>2, <1>4, <1>7, <1>8, <2>1, <2>2 DEF EntryTrue
<1>10. ASSUME NEW h \in DOMAIN LiveMap, h # g PROVE EntryTrue(h)'
  BY <1>2, <1>4, <1>5, <1>6, <1>10, OtherEntryKept
<1>11. AtFrom(record_table', 1, "ENTRY") = {}
  BY <1>1, <1>2, OutsideFacts
<1>12. EntriesTrue'
  BY <1>5, <1>9, <1>10, <1>11 DEF EntriesTrue
<1>13. LogState' = LogState
  <2>1. LoggedRegion = NoRegion
    BY <1>2, OutsideFacts
  <2>2. LoggedRegion' = NoRegion
    BY <1>1, <1>2, <1>5, <1>9 DEF LoggedRegion
  <2> QED
    BY <1>2, <2>1, <2>2 DEF LogState
<1> QED
  BY <1>1, <1>12, <1>13 DEF GoesOn

\* In the last region only its own entry can be open.
LEMMA InsideFacts ==
    ASSUME Good, NEW g \in Region, OutermostExit(g)
    PROVE  /\ \A h \in DOMAIN LiveMap : h # g => h # current_hash
           /\ \A h \in Region : IsOpen(h) => h = g
           /\ LoggedRegion = IF g \notin DOMAIN LiveMap \/ IsOpen(g) THEN g ELSE NoRegion
           /\ LoggedRegion' = NoRegion
           /\ now' = now /\ epoch_count' = epoch_count
           /\ g # NoRegion /\ current_hash = g
<1>1. /\ app_stack # <<>> /\ Outermost = g /\ current_hash = g /\ app_stack' = <<>>
      /\ now' = now /\ epoch_count' = epoch_count /\ g # NoRegion
  BY ExitOuterStack DEF Good
<1>2. \A h \in Region : IsOpen(h) => h = g
  BY <1>1, OpenFacts
<1> QED
  BY <1>1, <1>2 DEF LoggedRegion

\* An exit whose entry went out with an earlier dump.
LEMMA ExitLongReplay ==
    ASSUME Good, TypeOK', LogInv', NEW g \in Region, ExitLong(g)
    PROVE  EntriesTrue' /\ GoesOn
<1> DEFINE r == RegionRecord("EXIT", g)
<1>1. /\ record_table' = Append(record_table, r) /\ r \in Record
      /\ r.event = "EXIT" /\ r.hash = g /\ r.time = now
      /\ enter_map' = LiveMap /\ region_table' = region_table
      /\ OutermostExit(g) /\ g \notin DOMAIN LiveMap
      /\ current_hash' = NoRegion
  <2>1. r \in Record /\ r.event = "EXIT" /\ r.hash = g /\ r.time = now
    BY RecordTypes DEF Event, RegionRecord, Good
  <2> QED
    BY <2>1 DEF ExitLong, ExitReturns, Append1
<1> HIDE DEF r
<1>2. record_table \in Seq(Record)
  BY DEF Good, TypeOK, TableTypeOK
<1>3. /\ num_record' = num_record + 1 /\ num_region' = num_region
      /\ record_table' # <<>>
      /\ num_record \in Nat /\ num_region \in Nat
  BY <1>1, <1>2, AppendProperties DEF num_record, num_region, Good, TypeOK, TableTypeOK
<1>4. LiveMap' = LiveMap
  BY <1>1, <1>3, NewLiveMap
<1>5. ASSUME NEW h \in DOMAIN LiveMap PROVE EntryTrue(h)'
  <2>1. h # current_hash /\ h # current_hash'
    <3>1. h \in Region
      BY TableFacts DEF Good
    <3> QED
      BY <1>1, <3>1, InsideFacts, NoRegionAssumption
  <2> QED
    BY <1>1, <1>3, <1>4, <2>1, OtherEntryKept
<1>6. AtFrom(record_table, 1, "ENTRY") = {}
  <2>1. \A h \in Region : ~IsOpen(h)
    BY <1>1, InsideFacts DEF IsOpen
  <2> QED
    BY <2>1, NoEntryRecord DEF Good
<1>7. AtFrom(record_table', 1, "ENTRY") = {}
  BY <1>1, <1>2, <1>6, AtFromAppend
<1>8. EntriesTrue'
  BY <1>4, <1>5, <1>7 DEF EntriesTrue
<1>9. Leads(r, LogState, LogState')
  <2>1. now \in Nat
    BY DEF Good, TypeOK, AppTypeOK
  <2>2. /\ LoggedRegion = g /\ LoggedRegion' = NoRegion
        /\ now' = now /\ epoch_count' = epoch_count /\ g # NoRegion
    BY <1>1, InsideFacts
  <2> QED
    BY <1>1, <2>1, <2>2 DEF Leads, LogState
<1>10. GoesOn
  BY <1>1, <1>2, <1>6, <1>9, LogStateType, LogStateTypeNext, ReplayAppend DEF GoesOn, Good
<1> QED
  BY <1>8, <1>10

\* The entry record becomes a short-region record.
LEMMA ExitFirstShortReplay ==
    ASSUME Good, TypeOK', LogInv', NEW g \in Region, ExitFirstShort(g)
    PROVE  EntriesTrue' /\ GoesOn
<1> DEFINE k == LiveMap[g].record_idx + 1
           r == ShortRecord(num_region, record_table[k].time)
           region == NewShortRegion(g)
<1>1. /\ record_table' = [record_table EXCEPT ![k] = r]
      /\ region_table' = Append(region_table, region)
      /\ enter_map' = [LiveMap EXCEPT ![g].is_short = TRUE, ![g].region_idx = num_region]
      /\ OutermostExit(g) /\ IsOpen(g) /\ g \in DOMAIN LiveMap
      /\ current_hash' = NoRegion
  BY DEF ExitFirstShort, ExitReturns, IsOpen
<1>2. /\ record_table \in Seq(Record) /\ region_table \in Seq(ShortRegion)
      /\ record_table' \in Seq(Record)
      /\ num_record \in Nat /\ num_region \in Nat /\ LiveMap[g] \in EnterInfo
  BY <1>1, TableFacts DEF Good, TypeOK, TableTypeOK
<1>3. k \in AtFrom(record_table, 1, "ENTRY") /\ k \in 1 .. Len(record_table)
  BY <1>1, OpenFacts DEF AtFrom
<1>4. region \in ShortRegion /\ region.hash = g
  BY <1>1, RecordTypes DEF Good, NewShortRegion
<1>5. r.event = "SHORT" /\ r.time = record_table[k].time
  BY DEF ShortRecord
<1> HIDE DEF r, region
<1>6. /\ Len(record_table') = Len(record_table) /\ record_table'[k] = r
      /\ \A i \in 1 .. Len(record_table) : i # k => record_table'[i] = record_table[i]
  <2> HIDE DEF k
  <2> QED
    BY <1>1, <1>2, <1>3
<1>7. /\ num_record' = num_record /\ num_region' = num_region + 1
      /\ record_table' # <<>>
      /\ region_table'[num_region + 1] = region
      /\ \A i \in 1 .. num_region : region_table'[i] = region_table[i]
  <2>1. num_record' = num_record /\ record_table' # <<>>
    BY <1>2, <1>3, <1>6 DEF num_record
  <2>2. num_region' = num_region + 1 /\ region_table'[num_region + 1] = region
        /\ \A i \in 1 .. num_region : region_table'[i] = region_table[i]
    BY <1>1, <1>2, <1>4, AppendProperties DEF num_region
  <2> QED
    BY <2>1, <2>2
<1>8. LiveMap' = enter_map' /\ DOMAIN LiveMap' = DOMAIN LiveMap
  BY <1>1, <1>7, NewLiveMap
<1>9. /\ LiveMap'[g].region_idx = num_region
      /\ LiveMap'[g].record_idx = LiveMap[g].record_idx
      /\ LiveMap'[g].is_short = TRUE
      /\ \A h \in DOMAIN LiveMap : h # g => LiveMap'[h] = LiveMap[h]
  BY <1>1, <1>2, <1>8 DEF EnterInfo
<1>10. EntryTrue(g)'
  <2>1. LiveMap'[g].record_idx \in -1 .. num_record' - 1 /\ LiveMap'[g].record_idx # -1
    BY <1>1, <1>2, <1>7, <1>9 DEF IsOpen
  <2>2. /\ LiveMap'[g].region_idx # -1 /\ LiveMap'[g].region_idx \in 0 .. num_region' - 1
        /\ region_table'[LiveMap'[g].region_idx + 1].hash = g
    BY <1>2, <1>4, <1>7, <1>9
  <2>3. ~IsOpen(g)'
    BY <2>2 DEF IsOpen
  <2>4. g # current_hash'
    BY <1>1, InsideFacts
  <2> QED
    BY <1>9, <2>1, <2>2, <2>3, <2>4 DEF EntryTrue
<1>11. ASSUME NEW h \in DOMAIN LiveMap, h # g PROVE EntryTrue(h)'
  <2>1. h # current_hash /\ h # current_hash'
    <3>1. h \in Region
      BY TableFacts DEF Good
    <3> QED
      BY <1>1, <1>11, <3>1, InsideFacts, NoRegionAssumption
  <2>2. num_record' \in Nat /\ num_record <= num_record' /\ num_region' \in Nat
        /\ num_region <= num_region'
    BY <1>2, <1>7
  <2> QED
    BY <1>7, <1>9, <1>11, <2>1, <2>2, OtherEntryKept
<1>12. AtFrom(record_table', 1, "ENTRY") = {}
  <2>1. \A i \in AtFrom(record_table, 1, "ENTRY") : i = k
    <3> TAKE i \in AtFrom(record_table, 1, "ENTRY")
    <3>1. PICK h \in Region : IsOpen(h) /\ LiveMap[h].record_idx + 1 = i
      BY DEF Good, EntriesTrue
    <3>2. h = g
      BY <1>1, <3>1, InsideFacts
    <3> QED
      BY <3>1, <3>2
  <2> HIDE DEF k
  <2> QED
    BY <1>5, <1>6, <2>1 DEF AtFrom
<1>13. EntriesTrue'
  BY <1>8, <1>10, <1>11, <1>12 DEF EntriesTrue
<1>14. GoesOn
  <2>1. LoggedRegion' = NoRegion /\ now' = now /\ epoch_count' = epoch_count
    BY <1>1, InsideFacts
  <2>2. LogState'.region = NoRegion /\ LogState'.epoch = LogState.epoch
        /\ LogState.time <= LogState'.time
    <3>1. now \in Nat
      BY DEF Good, TypeOK, AppTypeOK
    <3> QED
      BY <2>1, <3>1 DEF LogState
  <2>3. LogState \in ValidState /\ LogState' \in ValidState
    BY LogStateType, LogStateTypeNext DEF Good
  <2>4. record_table'[k].event = "SHORT" /\ record_table'[k].time = record_table[k].time
    BY <1>5, <1>6
  <2> HIDE DEF k
  <2> QED
    BY <1>2, <1>3, <1>6, <2>2, <2>3, <2>4, ReplayConvert DEF GoesOn
<1> QED
  BY <1>13, <1>14

\* The short region of a later interval gets a record of its own.
LEMMA ExitStillShortReplay ==
    ASSUME Good, TypeOK', LogInv', NEW g \in Region, ExitStillShort(g)
    PROVE  EntriesTrue' /\ GoesOn
<1> DEFINE r == ShortRecord(num_region, now)
           region == NewShortRegion(g)
<1>1. /\ record_table' = Append(record_table, r)
      /\ region_table' = Append(region_table, region)
      /\ enter_map' = [LiveMap EXCEPT ![g].record_idx = num_record, ![g].region_idx = num_region]
      /\ OutermostExit(g) /\ g \in DOMAIN LiveMap /\ LiveMap[g].record_idx = -1
      /\ current_hash' = NoRegion
  BY DEF ExitStillShort, ExitReturns, Append1
<1>2. /\ record_table \in Seq(Record) /\ region_table \in Seq(ShortRegion)
      /\ num_record \in Nat /\ num_region \in Nat /\ now \in Nat /\ LiveMap[g] \in EnterInfo
  BY <1>1, TableFacts DEF Good, TypeOK, TableTypeOK, AppTypeOK
<1>3. ~IsOpen(g) /\ LiveMap[g].is_short
  <2>1. ~IsOpen(g)
    BY <1>1, <1>2 DEF IsOpen
  <2> QED
    BY <1>1, <2>1 DEF Good, EntriesTrue, EntryTrue
<1>4. region \in ShortRegion /\ region.hash = g /\ r \in Record /\ r.event = "SHORT" /\ r.time = now
  BY <1>1, <1>2, RecordTypes DEF Good, NewShortRegion, ShortRecord
<1> HIDE DEF r, region
<1>5. /\ num_record' = num_record + 1 /\ num_region' = num_region + 1
      /\ record_table' # <<>>
      /\ region_table'[num_region + 1] = region
      /\ \A i \in 1 .. num_region : region_table'[i] = region_table[i]
  <2>1. num_record' = num_record + 1 /\ record_table' # <<>>
    BY <1>1, <1>2, <1>4, AppendProperties DEF num_record
  <2>2. num_region' = num_region + 1 /\ region_table'[num_region + 1] = region
        /\ \A i \in 1 .. num_region : region_table'[i] = region_table[i]
    BY <1>1, <1>2, <1>4, AppendProperties DEF num_region
  <2> QED
    BY <2>1, <2>2
<1>6. LiveMap' = enter_map' /\ DOMAIN LiveMap' = DOMAIN LiveMap
  BY <1>1, <1>5, NewLiveMap
<1>7. /\ LiveMap'[g].region_idx = num_region
      /\ LiveMap'[g].record_idx = num_record
      /\ LiveMap'[g].is_short = LiveMap[g].is_short
      /\ \A h \in DOMAIN LiveMap : h # g => LiveMap'[h] = LiveMap[h]
  BY <1>1, <1>2, <1>6 DEF EnterInfo
<1>8. EntryTrue(g)'
  <2>1. LiveMap'[g].record_idx \in -1 .. num_record' - 1 /\ LiveMap'[g].record_idx # -1
    BY <1>2, <1>5, <1>7
  <2>2. /\ LiveMap'[g].region_idx # -1 /\ LiveMap'[g].region_idx \in 0 .. num_region' - 1
        /\ region_table'[LiveMap'[g].region_idx + 1].hash = g
    BY <1>2, <1>4, <1>5, <1>7
  <2>3. ~IsOpen(g)'
    BY <2>2 DEF IsOpen
  <2>4. g # current_hash'
    BY <1>1, InsideFacts
  <2>5. LiveMap'[g].is_short <=> ~IsOpen(g)'
    BY <1>3, <1>7, <2>3
  <2> QED
    BY <2>1, <2>2, <2>3, <2>4, <2>5 DEF EntryTrue
<1>9. ASSUME NEW h \in DOMAIN LiveMap, h # g PROVE EntryTrue(h)'
  <2>1. h # current_hash /\ h # current_hash'
    <3>1. h \in Region
      BY TableFacts DEF Good
    <3> QED
      BY <1>1, <1>9, <3>1, InsideFacts, NoRegionAssumption
  <2>2. num_record' \in Nat /\ num_record <= num_record' /\ num_region' \in Nat
        /\ num_region <= num_region'
    BY <1>2, <1>5
  <2> QED
    BY <1>5, <1>7, <1>9, <2>1, <2>2, OtherEntryKept
<1>10. AtFrom(record_table', 1, "ENTRY") = {}
  <2>1. \A h \in Region : ~IsOpen(h)
    BY <1>1, <1>3, InsideFacts
  <2>2. AtFrom(record_table, 1, "ENTRY") = {}
    BY <2>1, NoEntryRecord DEF Good
  <2> QED
    BY <1>1, <1>2, <1>4, <2>2, AtFromAppend
<1>11. EntriesTrue'
  BY <1>6, <1>8, <1>9, <1>10 DEF EntriesTrue
<1>12. Leads(r, LogState, LogState')
  <2>1. LoggedRegion = NoRegion /\ LoggedRegion' = NoRegion /\ now' = now
        /\ epoch_count' = epoch_count
    BY <1>1, <1>3, InsideFacts
  <2> QED
    BY <1>2, <1>4, <2>1 DEF Leads, LogState
<1>13. GoesOn
  BY <1>1, <1>2, <1>4, <1>12, LogStateType, LogStateTypeNext, ReplayAppend DEF GoesOn, Good
<1> QED
  BY <1>11, <1>13

\* One more completion of a short region changes no record.
LEMMA ExitShortAgainReplay ==
    ASSUME Good, TypeOK', LogInv', NEW g \in Region, ExitShortAgain(g)
    PROVE  EntriesTrue' /\ GoesOn
<1> DEFINE k == LiveMap[g].region_idx + 1
           new == [region_table[k] EXCEPT !.num_complete = @ + 1,
                                          !.total_time = @ + Elapsed(g)]
<1>1. /\ record_table' = record_table
      /\ region_table' = [region_table EXCEPT ![k] = new]
      /\ enter_map' = LiveMap
      /\ OutermostExit(g) /\ g \in DOMAIN LiveMap
      /\ LiveMap[g].record_idx # -1 /\ LiveMap[g].region_idx # -1
      /\ current_hash' = NoRegion
  BY DEF ExitShortAgain, ExitReturns
<1>2. /\ record_table \in Seq(Record) /\ region_table \in Seq(ShortRegion)
      /\ num_record \in Nat /\ num_region \in Nat
  BY TableFacts DEF Good, TypeOK, TableTypeOK
<1>3. /\ EntryTrue(g) /\ ~IsOpen(g)
      /\ LiveMap[g].region_idx \in 0 .. num_region - 1
      /\ region_table[k].hash = g
      /\ LiveMap[g].record_idx \in 0 .. num_record - 1
  <2>1. EntryTrue(g)
    BY <1>1 DEF Good, EntriesTrue
  <2> QED
    BY <1>1, <1>2, <2>1 DEF EntryTrue, IsOpen
<1>4. /\ num_record' = num_record /\ num_region' = num_region
      /\ \A i \in 1 .. num_region : region_table'[i].hash = region_table[i].hash
  <2>1. \A i \in 1 .. Len(region_table) : region_table[i] \in ShortRegion
    BY <1>2
  <2>2. k \in 1 .. Len(region_table)
    BY <1>2, <1>3 DEF num_region
  <2>3. new.hash = region_table[k].hash
    BY <2>1, <2>2 DEF ShortRegion
  <2> HIDE DEF new, k
  <2> QED
    BY <1>1, <1>2, <2>2, <2>3 DEF num_record, num_region
<1>5. record_table' # <<>>
  BY <1>1, <1>2, <1>3 DEF num_record
<1>6. LiveMap' = LiveMap
  BY <1>1, <1>5, NewLiveMap
<1>7. EntryTrue(g)'
  <2>1. g # current_hash'
    BY <1>1, InsideFacts
  <2>2. ~IsOpen(g)'
    BY <1>1, <1>6 DEF IsOpen
  <2>3. region_table'[k].hash = g
    BY <1>2, <1>3, <1>4
  <2>4. /\ LiveMap[g].record_idx \in -1 .. num_record - 1
        /\ LiveMap[g].is_short
        /\ LiveMap[g].record_idx # -1 /\ LiveMap[g].region_idx # -1
        /\ LiveMap[g].region_idx \in 0 .. num_region - 1
    BY <1>1, <1>3 DEF EntryTrue
  <2> HIDE DEF new
  <2> QED
    BY ONLY <1>4, <1>6, <2>1, <2>2, <2>3, <2>4 DEF EntryTrue
<1>8. ASSUME NEW h \in DOMAIN LiveMap, h # g PROVE EntryTrue(h)'
  <2>1. h # current_hash /\ h # current_hash'
    <3>1. h \in Region
      BY TableFacts DEF Good
    <3> QED
      BY <1>1, <1>8, <3>1, InsideFacts, NoRegionAssumption
  <2> QED
    BY <1>2, <1>4, <1>6, <2>1, OtherEntryKept
<1>9. AtFrom(record_table', 1, "ENTRY") = {}
  <2>1. \A h \in Region : ~IsOpen(h)
    BY <1>1, <1>3, InsideFacts
  <2> QED
    BY <1>1, <2>1, NoEntryRecord DEF Good
<1>10. EntriesTrue'
  BY <1>6, <1>7, <1>8, <1>9 DEF EntriesTrue
<1>11. LogState' = LogState
  <2>1. LoggedRegion = NoRegion /\ LoggedRegion' = NoRegion /\ now' = now
        /\ epoch_count' = epoch_count
    BY <1>1, <1>3, InsideFacts
  <2> QED
    BY <2>1 DEF LogState
<1> QED
  BY <1>1, <1>10, <1>11 DEF GoesOn

\* What a step that leaves the stack and the entries as they are changes: at
\* most the number of records.
LEMMA SameEntries ==
    ASSUME Good, TypeOK', LiveMap' = LiveMap, region_table' = region_table,
           UNCHANGED <<current_hash, app_enter_time>>,
           app_stack' # <<>> <=> app_stack # <<>>,
           app_stack # <<>> => Outermost' = Outermost,
           num_record <= num_record',
           \A i \in 1 .. num_record : record_table'[i] = record_table[i],
           AtFrom(record_table', 1, "ENTRY") = AtFrom(record_table, 1, "ENTRY")
    PROVE  EntriesTrue' /\ LoggedRegion' = LoggedRegion
<1>1. num_record \in Nat /\ num_record' \in Nat /\ num_region' = num_region
  BY TableFacts DEF Good, TypeOK, TableTypeOK, num_record, num_region
<1>2. ASSUME NEW h \in DOMAIN LiveMap PROVE EntryTrue(h)' /\ (IsOpen(h)' <=> IsOpen(h))
  <2>1. EntryTrue(h)
    BY DEF Good, EntriesTrue
  <2>2. LiveMap[h].record_idx \in -1 .. num_record - 1
    BY <2>1 DEF EntryTrue
  <2>3. LiveMap[h].record_idx \in -1 .. num_record' - 1
    BY <1>1, <2>2
  <2>4. LiveMap[h].record_idx \in 0 .. num_record - 1
           <=> LiveMap[h].record_idx \in 0 .. num_record' - 1
    BY <1>1, <2>2
  <2>5. IsOpen(h)' <=> IsOpen(h)
    BY <2>4 DEF IsOpen
  <2>6. IsOpen(h) => record_table'[LiveMap[h].record_idx + 1]
                        = record_table[LiveMap[h].record_idx + 1]
    BY <1>1 DEF IsOpen
  <2> QED
    BY <1>1, <2>1, <2>3, <2>5, <2>6 DEF EntryTrue
<1>3. \A h \in Region : IsOpen(h)' <=> IsOpen(h)
  <2> TAKE h \in Region
  <2>1. CASE h \in DOMAIN LiveMap
    BY <1>2, <2>1
  <2>2. CASE h \notin DOMAIN LiveMap
    BY <2>2 DEF IsOpen
  <2> QED
    BY <2>1, <2>2
<1>4. EntriesTrue'
  BY <1>2, <1>3 DEF Good, EntriesTrue
<1>5. app_stack # <<>> => Outermost \in Region
  BY DEF Outermost, Good, TypeOK, AppTypeOK
<1>6. LoggedRegion' = LoggedRegion
  BY <1>3, <1>5 DEF LoggedRegion
<1> QED
  BY <1>4, <1>6

\* An epoch appends its record.
LEMMA EpochReplay ==
    ASSUME Good, TypeOK', LogInv', Epoch
    PROVE  EntriesTrue' /\ GoesOn
<1> DEFINE r == EpochRecord(epoch_count + 1)
<1>1. /\ record_table' = Append(record_table, r) /\ enter_map' = LiveMap
      /\ region_table' = region_table /\ epoch_count' = epoch_count + 1
      /\ UNCHANGED <<app_stack, app_enter_time, now, current_hash>>
  BY DEF Epoch, EpochCall, Append1, profVars
<1>2. r \in Record /\ r.event = "EPOCH" /\ r.num = epoch_count + 1 /\ r.time = now
  BY RecordTypes DEF Good, EpochRecord
<1> HIDE DEF r
<1>3. record_table \in Seq(Record) /\ epoch_count \in Nat /\ now \in Nat
  BY DEF Good, TypeOK, TableTypeOK, LogTypeOK, AppTypeOK
<1>4. /\ num_record' = num_record + 1 /\ record_table' # <<>> /\ num_record \in Nat
      /\ \A i \in 1 .. num_record : record_table'[i] = record_table[i]
  BY <1>1, <1>2, <1>3, AppendProperties DEF num_record
<1>5. LiveMap' = LiveMap
  BY <1>1, <1>4, NewLiveMap
<1>6. AtFrom(record_table', 1, "ENTRY") = AtFrom(record_table, 1, "ENTRY")
  BY <1>1, <1>2, <1>3, AtFromAppend
<1>7. Outermost' = Outermost
  BY <1>1 DEF Outermost
<1>8. EntriesTrue' /\ LoggedRegion' = LoggedRegion
  <2>1. num_record <= num_record'
    BY <1>4
  <2> QED
    BY <1>1, <1>4, <1>5, <1>6, <1>7, <2>1, SameEntries
<1>9. Leads(r, LogState, LogState')
  BY <1>1, <1>2, <1>3, <1>8 DEF Leads, LogState
<1>10. GoesOn
  BY <1>1, <1>2, <1>3, <1>9, LogStateType, LogStateTypeNext, ReplayAppend DEF GoesOn, Good
<1> QED
  BY <1>8, <1>10

\* A nested call changes nothing of the log.
LEMMA NestedReplay ==
    ASSUME Good, TypeOK', NEW g \in Region, EnterNested(g) \/ ExitNested(g)
    PROVE  EntriesTrue' /\ GoesOn
<1>1. /\ app_stack # <<>> /\ app_stack' # <<>> /\ Outermost' = Outermost
      /\ UNCHANGED <<app_enter_time, now, current_hash, logVars, tableVars>>
  BY NestedStack DEF Good
<1>2. /\ record_table' = record_table /\ region_table' = region_table
      /\ LiveMap' = LiveMap /\ epoch_count' = epoch_count /\ num_record' = num_record
      /\ num_record \in Nat
  BY <1>1, TableFacts DEF logVars, tableVars, LiveMap, num_record, Good
<1>3. EntriesTrue' /\ LoggedRegion' = LoggedRegion
  <2>1. num_record <= num_record'
    BY <1>2
  <2> QED
    BY <1>1, <1>2, <2>1, SameEntries
<1>4. LogState' = LogState
  BY <1>1, <1>2, <1>3 DEF LogState
<1> QED
  BY <1>2, <1>3, <1>4 DEF GoesOn

\* Every call keeps what the entries say and lets the replay go on.
LEMMA AppReplay ==
    ASSUME Good, TypeOK', LogInv', App, Sound'
    PROVE  EntriesTrue' /\ GoesOn
<1>1. TypeOK /\ SameRegion
  BY DEF Good
<1> QED
  BY <1>1, SoundApp, EnterAgainReplay, EnterNewReplay, NestedReplay, ExitLongReplay,
     ExitFirstShortReplay, ExitStillShortReplay, ExitShortAgainReplay, EpochReplay

-----------------------------------------------------------------------------
(* Every step keeps the invariant.                                         *)

\* A log that overflowed stays lost.
LEMMA SoundBefore ==
    ASSUME [Next]_vars, Sound'
    PROVE  Sound
<1>1. CASE App
  <2>1. ASSUME NEW h \in Region, Enter(h)
        PROVE  fault' = fault \/ fault' = "overflow"
    BY ONLY <2>1
    DEF Enter, EnterAgain, EnterNew, EnterOverflow, EnterNested, logVars, Refused
  <2>2. ASSUME NEW h \in Region, Exit(h)
        PROVE  fault' = fault \/ fault' \in {"overflow", "overrun"}
    <3>1. ExitLong(h) \/ ExitFirstShort(h) => fault' = fault
      BY ONLY DEF ExitLong, ExitFirstShort, ExitReturns
    <3>2. ExitStillShort(h) \/ ExitShortAgain(h) => fault' = fault
      BY ONLY DEF ExitStillShort, ExitShortAgain, ExitReturns
    <3>3. ExitOverflow(h) \/ ExitBadIndex(h)
             => fault' = fault \/ fault' \in {"overflow", "overrun"}
      BY ONLY DEF ExitOverflow, ExitBadIndex, Refused
    <3>4. ExitNested(h) \/ ExitUnmatched(h) => fault' = fault
      BY ONLY DEF ExitNested, ExitUnmatched, logVars
    <3> QED
      BY ONLY <2>2, <3>1, <3>2, <3>3, <3>4 DEF Exit
  <2>3. Epoch \/ EpochOverflow => fault' = fault \/ fault' = "overflow"
    BY ONLY DEF Epoch, EpochOverflow, Refused
  <2> QED
    BY <1>1, <2>1, <2>2, <2>3 DEF App, Sound
<1>2. CASE Tick
  BY <1>2 DEF Sound, Tick, logVars
<1>3. CASE Ctl
  BY <1>3, CtlFrame DEF Sound, logVars
<1>4. CASE UNCHANGED vars
  BY <1>4 DEF Sound, vars, logVars
<1> QED
  BY <1>1, <1>2, <1>3, <1>4 DEF Next

\* A replay may begin in an earlier state.
LEMMA ReplayEarlier ==
    ASSUME NEW recs \in Seq(Record), NEW v \in ValidState, NEW u \in ValidState,
           NEW m \in ValidState, NEW from \in Nat \ {0}, Replays(recs, from, v, m),
           u.time <= v.time, u.region = v.region, u.epoch = v.epoch
    PROVE  Replays(recs, from, u, m)
<1>1. \A i \in from .. Len(recs) : recs[i].time \in Nat
  <2>1. \A i \in from .. Len(recs) : recs[i] \in Record
    OBVIOUS
  <2> QED
    BY <2>1 DEF Record
<1>2. TimesRise(recs, from, u, m)
  BY <1>1 DEF Replays, TimesRise, ValidState
<1>3. RegionFollows(recs, from, u, m) /\ EpochsFollow(recs, from, u, m)
  BY DEF Replays, RegionFollows, EpochsFollow
<1> QED
  BY <1>2, <1>3 DEF Replays

\* The controller's state has the type of the replays.
LEMMA ValidType ==
    TypeOK => valid \in ValidState /\ batch \in Seq(Record) /\ ctl_next \in Nat \ {0}
              /\ record_table \in Seq(Record)
  BY DEF TypeOK, CtlTypeOK, TableTypeOK, ValidState

\* Steps that concern neither the application nor the log.
LEMMA SameLog ==
    ASSUME SameRegion, EntriesTrue,
           UNCHANGED <<app_stack, app_enter_time, profVars, logVars, tableVars>>
    PROVE  SameRegion' /\ EntriesTrue' /\ LoggedRegion' = LoggedRegion
<1>1. /\ UNCHANGED <<app_stack, app_enter_time, current_hash, hint_depth, entered_hash>>
      /\ LiveMap' = LiveMap /\ num_record' = num_record /\ num_region' = num_region
      /\ record_table' = record_table /\ region_table' = region_table
      /\ Outermost' = Outermost
  BY DEF profVars, logVars, tableVars, LiveMap, num_record, num_region, Outermost
<1>2. \A h : IsOpen(h)' <=> IsOpen(h)
  BY <1>1 DEF IsOpen
<1>3. \A h : EntryTrue(h)' <=> EntryTrue(h)
  BY <1>1, <1>2 DEF EntryTrue
<1>4. EntriesTrue'
  BY <1>1, <1>2, <1>3 DEF EntriesTrue
<1>5. SameRegion'
  BY <1>1 DEF SameRegion
<1>6. LoggedRegion' = LoggedRegion
  BY <1>1, <1>2 DEF LoggedRegion
<1> QED
  BY <1>4, <1>5, <1>6

\* dump() forgets every entry but that of a short region being executed: an
\* entry record that goes out leaves its region to be closed by an exit record.
LEMMA DumpEntries ==
    ASSUME Good, TypeOK', Dump
    PROVE  SameRegion' /\ EntriesTrue' /\ LoggedRegion' = LoggedRegion
<1>1. /\ UNCHANGED <<app_stack, app_enter_time, current_hash, hint_depth,
                     entered_hash, enter_map>>
      /\ record_table' = <<>> /\ region_table' = <<>>
  BY DEF Dump, Controller, appVars, profVars, logVars
<1>2. SameRegion' /\ Outermost' = Outermost
  BY <1>1 DEF Good, SameRegion, Outermost
<1>3. num_record' = 0 /\ num_region' = 0 /\ num_record \in Nat /\ num_region \in Nat
  BY <1>1, TableFacts DEF num_record, num_region, Good
<1>4. CASE record_table = <<>>
  <2>1. num_record = 0
    BY <1>4 DEF num_record
  <2>2. num_region = 0
    BY <1>3, <2>1 DEF Good, LogInv, TablesFit
  <2>3. region_table = <<>>
    BY <2>2 DEF num_region, Good, TypeOK, TableTypeOK
  <2>4. UNCHANGED <<app_stack, app_enter_time, profVars, logVars, tableVars>>
    BY <1>1, <1>4, <2>3 DEF Dump, Controller, appVars, tableVars
  <2> QED
    BY <2>4, SameLog DEF Good
<1>5. CASE record_table # <<>>
  <2>0. PICK e : e = current_hash
    OBVIOUS
  <2>1. LiveMap = enter_map
    BY <1>5, LiveMapNonEmpty DEF Good
  <2>2. entered_hash = e
    BY <2>0 DEF Good, SameRegion
  <2>3. /\ e \in DOMAIN LiveMap /\ LiveMap[e].is_short =>
              LiveMap' = [h \in {e} |-> [LiveMap[e] EXCEPT !.record_idx = -1, !.region_idx = -1]]
        /\ ~(e \in DOMAIN LiveMap /\ LiveMap[e].is_short) => LiveMap' = NoEntries
    BY <1>1, <1>3, <2>1, <2>2 DEF LiveMap
  <2>4. AtFrom(record_table', 1, "ENTRY") = {}
    BY <1>1 DEF AtFrom
  <2>5. \A h \in DOMAIN LiveMap : h \in Region /\ LiveMap[h] \in EnterInfo /\ EntryTrue(h)
    BY TableFacts DEF Good, EntriesTrue
  <2>6. app_stack # <<>> => e = Outermost
    BY <2>0 DEF Good, SameRegion
  <2>7. app_stack = <<>> => e = NoRegion
    BY <2>0 DEF Good, SameRegion
  <2>8. CASE e \in DOMAIN LiveMap /\ LiveMap[e].is_short
    <3>1. /\ DOMAIN LiveMap' = {e}
          /\ LiveMap'[e].record_idx = -1 /\ LiveMap'[e].region_idx = -1
          /\ LiveMap'[e].is_short = LiveMap[e].is_short
          /\ LiveMap'[e].enter_time = LiveMap[e].enter_time
      <4>1. LiveMap[e] \in EnterInfo
        BY <2>5, <2>8
      <4> DEFINE kept == [LiveMap[e] EXCEPT !.record_idx = -1, !.region_idx = -1]
      <4>2. /\ kept.record_idx = -1 /\ kept.region_idx = -1
            /\ kept.is_short = LiveMap[e].is_short
            /\ kept.enter_time = LiveMap[e].enter_time
        BY <4>1 DEF EnterInfo
      <4>3. LiveMap' = [h \in {e} |-> kept]
        BY <2>3, <2>8
      <4> HIDE DEF kept
      <4> QED
        BY <4>2, <4>3
    <3>2. ~IsOpen(e)' /\ ~IsOpen(e)
      <4>1. ~IsOpen(e)'
        BY <1>3, <3>1 DEF IsOpen
      <4>2. ~IsOpen(e)
        BY <2>5, <2>8 DEF EntryTrue
      <4> QED
        BY <4>1, <4>2
    <3>3. EntryTrue(e)'
      <4>1. LiveMap[e].enter_time = app_enter_time
        BY <2>0, <2>5, <2>8 DEF EntryTrue
      <4>2. LiveMap'[e].record_idx \in -1 .. num_record' - 1
        BY <1>3, <3>1
      <4>3. LiveMap'[e].is_short <=> ~IsOpen(e)'
        BY <2>8, <3>1, <3>2
      <4> QED
        BY <1>1, <2>0, <3>1, <3>2, <4>1, <4>2, <4>3 DEF EntryTrue
    <3>4. app_stack # <<>>
      BY <2>5, <2>7, <2>8, NoRegionAssumption
    <3>5. LoggedRegion = NoRegion /\ LoggedRegion' = NoRegion
      BY <1>1, <1>2, <2>6, <2>8, <3>1, <3>2, <3>4 DEF LoggedRegion
    <3> QED
      BY <1>2, <2>4, <3>1, <3>3, <3>5 DEF EntriesTrue
  <2>9. CASE ~(e \in DOMAIN LiveMap /\ LiveMap[e].is_short)
    <3>1. DOMAIN LiveMap' = {}
      BY <2>3, <2>9 DEF NoEntries
    <3>2. e \in DOMAIN LiveMap => IsOpen(e)
      BY <2>5, <2>9 DEF EntryTrue
    <3>3. LoggedRegion' = IF app_stack # <<>> THEN Outermost ELSE NoRegion
      BY <1>1, <1>2, <3>1 DEF LoggedRegion
    <3>4. LoggedRegion = IF app_stack # <<>> THEN Outermost ELSE NoRegion
      BY <2>6, <3>2 DEF LoggedRegion
    <3> QED
      BY <1>2, <2>4, <3>1, <3>3, <3>4 DEF EntriesTrue
  <2> QED
    BY <2>8, <2>9
<1> QED
  BY <1>4, <1>5

\* The controller's part.
LEMMA CtlReplay ==
    ASSUME Good, TypeOK', ctl_pc # "failed", InStep, Ctl
    PROVE  SameRegion' /\ EntriesTrue' /\ ctl_pc' # "failed" /\ InStep'
<1>1. UNCHANGED <<app_stack, app_enter_time, now, profVars, logVars>>
      /\ epoch_count' = epoch_count
  BY CtlFrame DEF appVars, logVars
<1>2. /\ LogState \in ValidState /\ LogState' \in ValidState
      /\ valid \in ValidState /\ batch \in Seq(Record) /\ ctl_next \in Nat \ {0}
      /\ record_table \in Seq(Record)
  BY LogStateType, LogStateTypeNext, ValidType DEF Good
<1>3. CASE Dump
  <2>1. /\ ctl_pc = "idle" /\ ctl_pc' = "check" /\ ctl_next' = 1
        /\ batch' = record_table /\ record_table' = <<>> /\ valid' = valid
    BY <1>3 DEF Dump, Controller
  <2>2. SameRegion' /\ EntriesTrue' /\ LoggedRegion' = LoggedRegion
    BY <1>3, DumpEntries
  <2>3. LogState' = LogState
    BY <1>1, <2>2 DEF LogState
  <2>4. LogState.time <= LogState.time
    BY <1>2 DEF ValidState
  <2>5. Replays(<<>>, 1, LogState, LogState')
    BY <1>2, <2>3, <2>4, ReplayNothing
  <2>6. Replays(record_table, 1, valid, LogState)
    BY <2>1 DEF InStep
  <2> QED
    BY <1>2, <2>1, <2>2, <2>5, <2>6 DEF InStep
<1>4. CASE UNCHANGED tableVars
  <2>1. SameRegion' /\ EntriesTrue' /\ LoggedRegion' = LoggedRegion
    BY <1>1, <1>4, SameLog DEF Good
  <2>2. LogState' = LogState /\ record_table' = record_table
    BY <1>1, <1>4, <2>1 DEF LogState, tableVars
  <2>3. CASE Check \/ CheckThrows
    <3>1. ctl_pc = "check" /\ ctl_next <= Len(batch) /\ batch' = batch
      BY <2>3 DEF Check, CheckThrows, Loop, Controller
    <3>2. PICK m \in ValidState : /\ Replays(batch, ctl_next, valid, m)
                                  /\ Replays(record_table, 1, m, LogState)
      BY <3>1 DEF InStep
    <3>3. /\ Accepts(batch[ctl_next])
          /\ Replays(batch, ctl_next + 1, Validated(batch[ctl_next]), m)
      BY <1>2, <3>1, <3>2, ReplayStep
    <3>4. ctl_pc' = ctl_pc /\ ctl_next' = ctl_next + 1 /\ valid' = Validated(batch[ctl_next])
      BY <2>3, <3>3 DEF Check, CheckThrows
    <3> QED
      BY <2>1, <2>2, <3>1, <3>2, <3>3, <3>4 DEF InStep
  <2>4. CASE CheckDone
    <3>1. ctl_pc = "check" /\ ctl_next > Len(batch) /\ ctl_pc' = "aggregate" /\ valid' = valid
      BY <2>4 DEF CheckDone, LoopEnd, Controller
    <3>2. PICK m \in ValidState : /\ Replays(batch, ctl_next, valid, m)
                                  /\ Replays(record_table, 1, m, LogState)
      BY <3>1 DEF InStep
    <3>3. valid.time <= m.time /\ valid.region = m.region /\ valid.epoch = m.epoch
      BY <1>2, <3>1, <3>2, ReplayDone
    <3>4. Replays(record_table, 1, valid, LogState)
      BY <1>2, <3>2, <3>3, ReplayEarlier
    <3> QED
      BY <2>1, <2>2, <3>1, <3>4 DEF InStep
  <2>5. CASE Aggregate \/ AggregateDone
    <3>1. ctl_pc = "aggregate" /\ ctl_pc' \in {"aggregate", "idle"} /\ valid' = valid
      BY <2>5 DEF Aggregate, AggregateDone, Loop, LoopEnd, Controller
    <3> QED
      BY <2>1, <2>2, <3>1 DEF InStep
  <2>6. CASE Dump
    BY <1>3, <2>6
  <2> QED
    BY <2>3, <2>4, <2>5, <2>6 DEF Ctl
<1>5. Dump \/ UNCHANGED tableVars
  BY DEF Ctl, Check, CheckThrows, CheckDone, Aggregate, AggregateDone, Loop, LoopEnd
<1> QED
  BY <1>3, <1>4, <1>5

\* The invariant is inductive.
LEMMA ReplayInvStep == IInv /\ ReplayInv /\ [Next]_vars => ReplayInv'
<1> SUFFICES ASSUME IInv, ReplayInv, [Next]_vars, Sound'
             PROVE  ReplayInv'
  BY DEF ReplayInv
<1>1. Sound
  BY SoundBefore
<1>2. /\ SameRegion /\ EntriesTrue /\ app_enter_time <= now
      /\ ctl_pc # "failed" /\ InStep
  BY <1>1 DEF ReplayInv
<1>3. Good
  BY <1>1, <1>2, SoundIsWhole DEF Good, WholeInv
<1>4. IInv'
  BY IInvStep
<1>5. TypeOK' /\ LogInv'
  BY <1>4, SoundIsWholeNext DEF WholeInv
<1>6. /\ LogState \in ValidState /\ LogState' \in ValidState
      /\ valid \in ValidState /\ batch \in Seq(Record) /\ ctl_next \in Nat \ {0}
      /\ record_table \in Seq(Record)
  BY <1>3, <1>5, LogStateType, LogStateTypeNext, ValidType DEF Good
<1> SUFFICES /\ SameRegion' /\ EntriesTrue' /\ app_enter_time' <= now'
             /\ ctl_pc' # "failed" /\ InStep'
  BY DEF ReplayInv
<1>7. CASE App
  <2>1. EntriesTrue' /\ GoesOn
    BY <1>3, <1>5, <1>7, AppReplay
  <2>2. SameRegion' /\ app_enter_time' <= now'
    BY <1>2, <1>3, <1>7, SameRegionApp DEF Good
  <2>3. UNCHANGED <<ctl_pc, ctl_next, batch, valid>>
    BY <1>7, AppFrame DEF ctlVars
  <2>4. InStep'
    BY <1>2, <1>6, <2>1, <2>3 DEF InStep, GoesOn
  <2> QED
    BY <1>2, <2>1, <2>2, <2>3, <2>4
<1>8. CASE Tick
  <2>1. /\ UNCHANGED <<appVars, profVars, logVars, tableVars, ctlVars>> /\ now' = now + 1
    BY <1>8 DEF Tick
  <2>2. SameRegion' /\ EntriesTrue' /\ LoggedRegion' = LoggedRegion
    BY <1>2, <2>1, SameLog DEF appVars
  <2>3. app_enter_time' = app_enter_time /\ now \in Nat /\ app_enter_time \in Nat
    BY <1>3, <2>1 DEF appVars, Good, TypeOK, AppTypeOK
  <2>4. app_enter_time' <= now'
    BY <1>2, <2>1, <2>3
  <2>5. /\ LogState.time <= LogState'.time /\ LogState'.region = LogState.region
        /\ LogState'.epoch = LogState.epoch
    BY <2>1, <2>2, <2>3 DEF LogState, logVars
  <2>6. UNCHANGED <<ctl_pc, ctl_next, batch, valid, record_table>>
    BY <2>1 DEF ctlVars, tableVars
  <2>7. \A v \in ValidState : Replays(record_table, 1, v, LogState)
                                 => Replays(record_table, 1, v, LogState')
    BY <1>6, <2>5, ReplayLater
  <2>8. InStep'
    BY <1>2, <1>6, <2>6, <2>7 DEF InStep
  <2> QED
    BY <1>2, <2>2, <2>4, <2>6, <2>8
<1>9. CASE Ctl
  <2>1. app_enter_time' = app_enter_time /\ now' = now
    BY <1>9, CtlFrame DEF appVars
  <2> QED
    BY <1>2, <1>3, <1>5, <1>9, <2>1, CtlReplay
<1>10. CASE UNCHANGED vars
  <2>1. UNCHANGED <<app_stack, app_enter_time, now, profVars, logVars, tableVars, ctlVars>>
    BY <1>10 DEF vars, appVars
  <2>2. SameRegion' /\ EntriesTrue' /\ LoggedRegion' = LoggedRegion
    BY <1>2, <2>1, SameLog
  <2>3. LogState' = LogState
    BY <2>1, <2>2 DEF LogState, logVars
  <2>4. UNCHANGED <<ctl_pc, ctl_next, batch, valid, record_table>>
    BY <2>1 DEF ctlVars, tableVars
  <2> QED
    BY <1>2, <2>1, <2>2, <2>3, <2>4 DEF InStep
<1> QED
  BY <1>7, <1>8, <1>9, <1>10 DEF Next

\* It holds at first.
LEMMA InitReplayInv == Init => ReplayInv
<1> SUFFICES ASSUME Init PROVE ReplayInv
  OBVIOUS
<1>1. TypeOK
  BY InitTypeOK
<1>2. num_record = 0 /\ LiveMap = NoEntries /\ DOMAIN LiveMap = {}
  BY DEF Init, num_record, LiveMap, NoEntries
<1>3. SameRegion
  BY DEF Init, SameRegion
<1>4. EntriesTrue
  BY <1>2 DEF Init, EntriesTrue, AtFrom
<1>5. LogState = [time |-> 0, region |-> NoRegion, epoch |-> 0]
  BY DEF Init, LogState, LoggedRegion
<1>6. LogState \in ValidState
  BY <1>1, LogStateType
<1>7. Replays(<<>>, 1, LogState, LogState)
  BY <1>5, <1>6, ReplayNothing
<1>8. InStep
  BY <1>5, <1>7 DEF Init, InStep
<1> QED
  BY <1>3, <1>4, <1>8 DEF Init, ReplayInv

\* It holds in every reachable state.
LEMMA ReplayInvariance == Spec => [](IInv /\ ReplayInv)
<1>1. Init => IInv /\ ReplayInv
  BY InitIInv, InitReplayInv
<1>2. IInv /\ ReplayInv /\ [Next]_vars => (IInv /\ ReplayInv)'
  BY IInvStep, ReplayInvStep
<1> QED
  BY <1>1, <1>2, PTL DEF Spec

\* No record of a log that never overflowed brings the controller down:
\* ValidateRecord::check() finds times that do not decrease, an entry only
\* outside of a region, the exit of the region that is open and no epoch missing.
THEOREM ControllerNeverThrows == Spec => []ControllerSurvives
<1>1. ReplayInv => ControllerSurvives
  BY DEF ReplayInv, ControllerSurvives
<1> QED
  BY ReplayInvariance, <1>1, PTL

\* The controller that has checked all there is knows how many epochs the
\* application marked and, unless its region is a short one, where it is.
THEOREM ControllerKnowsRegion == Spec => []ControllerInStep
<1>1. IInv /\ ReplayInv => ControllerInStep
  <2> SUFFICES ASSUME IInv, ReplayInv, Sound, record_table = <<>>, ctl_pc \in {"idle", "aggregate"}
               PROVE  /\ valid.epoch = epoch_count
                      /\ valid.region =
                            IF app_stack # <<>> /\ Outermost \notin DOMAIN LiveMap
                              THEN Outermost ELSE NoRegion
    BY DEF ControllerInStep
  <2>1. Replays(record_table, 1, valid, LogState)
    BY DEF ReplayInv, InStep
  <2>2. LogState \in ValidState /\ valid \in ValidState /\ record_table \in Seq(Record)
    BY LogStateType, ValidType DEF IInv
  <2>3. 1 > Len(record_table) /\ 1 \in Nat \ {0}
    OBVIOUS
  <2>4. valid.region = LogState.region /\ valid.epoch = LogState.epoch
    BY ONLY <2>1, <2>2, <2>3, ReplayDone
  <2>5. \A h : ~IsOpen(h)
    BY DEF IsOpen, num_record
  <2> QED
    BY <2>4, <2>5 DEF LogState, LoggedRegion
<1> QED
  BY ReplayInvariance, <1>1, PTL

-----------------------------------------------------------------------------
(* What records are worth.                                                 *)

Field == {"num_complete", "total_time"}

\* What record r adds to the total of region h that field stands for, if the
\* region was entered at time entry.
Worth(h, r, regs, field, entry) ==
    IF r.event = "EXIT" /\ r.hash = h
      THEN IF field = "num_complete" THEN 1 ELSE r.time - entry
    ELSE IF r.event = "SHORT" /\ regs[r.num + 1].hash = h
      THEN regs[r.num + 1][field]
    ELSE 0

Tally(h, recs, regs, field, entry) ==
    [i \in 1 .. Len(recs) |-> Worth(h, recs[i], regs, field, entry)]

Total(h, recs, regs, field, entry) ==
    SumOver(Tally(h, recs, regs, field, entry), 1 .. Len(recs))

\* The index of the first record of the batch that is not yet added.
FirstLeft ==
    IF ctl_pc = "check" THEN 1
    ELSE IF ctl_pc = "aggregate" THEN ctl_next
    ELSE Len(batch) + 1

EntriesLeft(h) == {i \in AtFrom(batch, FirstLeft, "ENTRY") : batch[i].hash = h}

AnyOf(S) == CHOOSE x \in S : TRUE

\* The last entry of h that the controller knows once the batch is added.
EntrySeen(h) ==
    IF EntriesLeft(h) # {} THEN batch[AnyOf(EntriesLeft(h))].time
    ELSE last_entry[h]

InBatch(h, field) ==
    SumOver(Tally(h, batch, batch_regions, field, last_entry[h]), FirstLeft .. Len(batch))
InLog(h, field) == Total(h, record_table, region_table, field, EntrySeen(h))

-----------------------------------------------------------------------------
(* The inductive invariant.                                                *)

\* The controller knows, or will when it has added its batch, since when the
\* application is in a region whose entry record it has been given.
EntryKnown ==
    app_stack # <<>> /\ Outermost \notin DOMAIN LiveMap
       => EntrySeen(Outermost) = app_enter_time

AddsUp(h) ==
    /\ done[h] = total_count[h] + InBatch(h, "num_complete") + InLog(h, "num_complete")
    /\ spent[h] = total_runtime[h] + InBatch(h, "total_time") + InLog(h, "total_time")

LedgerInv ==
    Sound => /\ ExitThenEntry(batch, 1)
             /\ EntryKnown
             /\ \A h \in Region : AddsUp(h)

-----------------------------------------------------------------------------
(* Facts about worth.                                                      *)

\* The worth of a record is a number.
LEMMA WorthType ==
    ASSUME NEW h, NEW r \in Record, NEW regs \in Seq(ShortRegion), NEW field \in Field,
           NEW entry \in Int, r.event = "SHORT" => r.num < Len(regs)
    PROVE  Worth(h, r, regs, field, entry) \in Int
<1>1. r.time \in Nat /\ r.num \in Nat
  BY DEF Record
<1>2. ASSUME r.event = "SHORT" PROVE regs[r.num + 1][field] \in Int
  <2>1. r.num + 1 \in 1 .. Len(regs)
    BY <1>1, <1>2
  <2>2. regs[r.num + 1] \in ShortRegion
    BY <2>1
  <2> DEFINE region == regs[r.num + 1]
  <2>3. region.num_complete \in Int /\ region.total_time \in Int
    BY <2>2 DEF ShortRegion
  <2> QED
    BY <2>3 DEF Field
<1> QED
  BY <1>1, <1>2 DEF Worth

\* So is that of every record of a table that matches its short regions.
LEMMA TallyType ==
    ASSUME NEW h, NEW recs \in Seq(Record), NEW regs \in Seq(ShortRegion), NEW field \in Field,
           NEW entry \in Int, ShortRegionsMatch(recs, regs)
    PROVE  \A i \in 1 .. Len(recs) : Tally(h, recs, regs, field, entry)[i] \in Int
<1> TAKE i \in 1 .. Len(recs)
<1>1. recs[i] \in Record /\ i \in DOMAIN recs
  OBVIOUS
<1>2. recs[i].event = "SHORT" => recs[i].num < Len(regs)
  BY <1>1 DEF ShortRegionsMatch, ShortIndices
<1>3. Worth(h, recs[i], regs, field, entry) \in Int
  BY <1>1, <1>2, WorthType
<1> QED
  BY <1>3 DEF Tally

\* The number of completions of a table, as the property CompletionsConserved
\* counts them.
LEMMA CompletionsAreWorth ==
    ASSUME NEW h \in Region, NEW recs \in Seq(Record), NEW regs \in Seq(ShortRegion),
           NEW entry \in Int, NEW from \in Nat \ {0}, ShortRegionsMatch(recs, regs)
    PROVE  CompletionsOf(h, recs, regs, from)
              = SumOver(Tally(h, recs, regs, "num_complete", entry), from .. Len(recs))
<1> DEFINE S == {i \in from .. Len(recs) :
                    \/ recs[i].event = "EXIT" /\ recs[i].hash = h
                    \/ /\ recs[i].event = "SHORT"
                       /\ regs[recs[i].num + 1].hash = h}
           W == from .. Len(recs)
           f == Tally(h, recs, regs, "num_complete", entry)
           P == PartialSums(f, S)
           op(i) == IF recs[i].event = "EXIT" THEN 1
                    ELSE regs[recs[i].num + 1].num_complete
           Solves(g) == g = [T \in SUBSET S |->
                               IF T = {} THEN 0
                               ELSE op(CHOOSE x \in T : TRUE) + g[T \ {CHOOSE x \in T : TRUE}]]
           G == CHOOSE g : Solves(g)
           e == [T \in SUBSET S |-> P[T]]
<1>1. CompletionsOf(h, recs, regs, from) = G[S]
  BY DEF CompletionsOf, MapThenSumSet, MapThenFoldSet
<1>2. IsFiniteSet(W) /\ S \in SUBSET W /\ IsFiniteSet(S) /\ W \in SUBSET (1 .. Len(recs))
  <2>1. IsFiniteSet(W)
    BY FS_Interval
  <2> QED
    BY <2>1, FS_Subset
<1>3. \A i \in S : f[i] = op(i)
  <2> TAKE i \in S
  <2>1. i \in 1 .. Len(recs)
    BY <1>2
  <2> QED
    BY <2>1 DEF Tally, Worth
<1>4. \A i \in W : f[i] \in Int
  BY <1>2, TallyType DEF Field
<1>5. \A i \in W \ S : f[i] = 0
  <2> TAKE i \in W \ S
  <2>1. i \in 1 .. Len(recs)
    BY <1>2
  <2> QED
    BY <2>1 DEF Tally, Worth
<1> HIDE DEF f, op
<1>6. \A T \in SUBSET S : SumsAt(f, P, T)
  <2> HIDE DEF S
  <2> QED
    BY <1>2, PartialSumsAt
<1> HIDE DEF P, S, W
<1>7. Solves(e)
  <2>1. ASSUME NEW T \in SUBSET S
        PROVE  e[T] = IF T = {} THEN 0
                      ELSE op(CHOOSE x \in T : TRUE) + e[T \ {CHOOSE x \in T : TRUE}]
    <3>1. T # {} => (CHOOSE x \in T : TRUE) \in S
      OBVIOUS
    <3>2. T \ {CHOOSE x \in T : TRUE} \in SUBSET S
      OBVIOUS
    <3> QED
      BY <1>3, <1>6, <3>1, <3>2 DEF SumsAt
  <2> QED
    BY <2>1
<1>8. Solves(G)
  <2> HIDE DEF e
  <2> QED
    BY <1>7
<1> HIDE DEF G
<1>9. Solution(f, G, S)
  <2>1. ASSUME NEW T \in SUBSET S PROVE SumsAt(f, G, T)
    <3>1. T # {} => (CHOOSE x \in T : TRUE) \in S
      OBVIOUS
    <3> QED
      BY <1>3, <1>8, <3>1 DEF SumsAt
  <2> QED
    BY <2>1 DEF Solution
<1>10. G[S] = SumOver(f, S)
  BY <1>2, <1>9, SumBySolution
<1>11. SumOver(f, W) = SumOver(f, S)
  BY <1>2, <1>4, <1>5, SumZeros
<1> QED
  BY <1>1, <1>10, <1>11 DEF f, W

\* A record keeps its worth when the short region it names does.
LEMMA WorthSame ==
    ASSUME NEW h, NEW r, NEW regs, NEW new, NEW field, NEW entry,
           r.event = "SHORT" =>
              new[r.num + 1].hash = regs[r.num + 1].hash
              /\ new[r.num + 1][field] = regs[r.num + 1][field]
    PROVE  Worth(h, r, new, field, entry) = Worth(h, r, regs, field, entry)
  BY DEF Worth

\* The short-region records of a table name short regions.
LEMMA ShortNames ==
    ASSUME NEW recs \in Seq(Record), NEW regs \in Seq(ShortRegion),
           ShortRegionsMatch(recs, regs), NEW i \in 1 .. Len(recs), recs[i].event = "SHORT"
    PROVE  recs[i].num + 1 \in 1 .. Len(regs) /\ recs[i].num \in Nat
<1>1. recs[i] \in Record /\ i \in ShortIndices(recs)
  BY DEF ShortIndices
<1>2. recs[i].num < Len(regs) /\ recs[i].num \in Nat
  BY <1>1 DEF ShortRegionsMatch, Record
<1> QED
  BY <1>2

-----------------------------------------------------------------------------
(* What the ways the log changes its tables do to their worth.             *)

\* Short regions are appended; the record of one index is replaced.
Extends(regs, new) == \A i \in 1 .. Len(regs) : new[i] = regs[i]
OneConverted(recs, other, k) ==
    /\ Len(other) = Len(recs)
    /\ \A i \in 1 .. Len(recs) : i # k => other[i] = recs[i]

\* A record is appended, perhaps with a short region.
LEMMA TallyAppend ==
    ASSUME NEW h, NEW field \in Field, NEW entry \in Int,
           NEW recs \in Seq(Record), NEW regs \in Seq(ShortRegion), NEW r \in Record,
           NEW new \in Seq(ShortRegion), Extends(regs, new),
           ShortRegionsMatch(recs, regs), ShortRegionsMatch(Append(recs, r), new)
    PROVE  Total(h, Append(recs, r), new, field, entry)
              = Total(h, recs, regs, field, entry)
                  + Worth(h, r, new, field, entry)
<1> DEFINE n == Len(recs)
           longer == Append(recs, r)
           f == Tally(h, recs, regs, field, entry)
           g == Tally(h, longer, new, field, entry)
<1>1. /\ longer \in Seq(Record) /\ Len(longer) = n + 1 /\ n \in Nat
      /\ \A i \in 1 .. n : longer[i] = recs[i]
      /\ longer[n + 1] = r
  BY AppendProperties
<1> HIDE DEF longer
<1>2. \A i \in 1 .. n + 1 : g[i] \in Int
  BY <1>1, TallyType DEF longer
<1>3. \A i \in 1 .. n : g[i] = f[i]
  <2> TAKE i \in 1 .. n
  <2>1. i \in 1 .. Len(longer) /\ i \in 1 .. Len(recs)
    BY <1>1
  <2>2. f[i] = Worth(h, recs[i], regs, field, entry) /\ g[i] = Worth(h, recs[i], new, field, entry)
    BY <1>1, <2>1 DEF Tally
  <2>3. recs[i].event = "SHORT" => new[recs[i].num + 1] = regs[recs[i].num + 1]
    BY <2>1, ShortNames DEF Extends
  <2> QED
    BY <2>2, <2>3, WorthSame
<1>4. g[n + 1] = Worth(h, r, new, field, entry)
  <2>1. n + 1 \in 1 .. Len(longer)
    BY <1>1
  <2> QED
    BY <1>1, <2>1 DEF Tally
<1> HIDE DEF f, g, n
<1>5. SumOver(g, 1 .. n + 1) = SumOver(f, 1 .. n) + g[n + 1]
  BY <1>1, <1>2, <1>3, SumAppend
<1> QED
  BY <1>1, <1>4, <1>5 DEF f, g, n, longer, Total

\* A record is replaced, and a short region appended.
LEMMA TallyConvert ==
    ASSUME NEW h, NEW field \in Field, NEW entry \in Int,
           NEW recs \in Seq(Record), NEW regs \in Seq(ShortRegion),
           NEW other \in Seq(Record), NEW k \in 1 .. Len(recs), OneConverted(recs, other, k),
           NEW new \in Seq(ShortRegion), Extends(regs, new),
           ShortRegionsMatch(recs, regs), ShortRegionsMatch(other, new)
    PROVE  Total(h, other, new, field, entry)
              = Total(h, recs, regs, field, entry)
                  + (Worth(h, other[k], new, field, entry) - Worth(h, recs[k], regs, field, entry))
<1>0. Len(other) = Len(recs) /\ \A i \in 1 .. Len(recs) : i # k => other[i] = recs[i]
  BY DEF OneConverted
<1> DEFINE S == 1 .. Len(recs)
           f == Tally(h, recs, regs, field, entry)
           g == Tally(h, other, new, field, entry)
<1>1. \A i \in S : f[i] \in Int /\ g[i] \in Int
  BY <1>0, TallyType
<1>2. \A i \in S : f[i] = Worth(h, recs[i], regs, field, entry)
                   /\ g[i] = Worth(h, other[i], new, field, entry)
  BY <1>0 DEF Tally
<1>3. \A i \in S : i # k => g[i] = f[i]
  <2> TAKE i \in S
  <2>1. recs[i].event = "SHORT" => new[recs[i].num + 1] = regs[recs[i].num + 1]
    BY ShortNames DEF Extends
  <2>2. Worth(h, recs[i], new, field, entry) = Worth(h, recs[i], regs, field, entry)
    BY <2>1 DEF Worth
  <2> QED
    BY <1>0, <1>2, <2>2
<1>4. IsFiniteSet(S) /\ k \in S
  BY FS_Interval
<1> HIDE DEF f, g, S
<1>5. ChangedAt(f, g, S, k)
  BY <1>1, <1>3 DEF ChangedAt
<1>6. SumOver(g, S) = SumOver(f, S) + (g[k] - f[k])
  BY <1>4, <1>5, SumChange
<1> QED
  BY <1>0, <1>2, <1>4, <1>6 DEF f, g, S, Total

\* The region of one index has new values; what h gains by it.
OneGrows(regs, new, k) ==
    /\ Len(new) = Len(regs) /\ new[k].hash = regs[k].hash
    /\ \A i \in 1 .. Len(regs) : i # k => new[i] = regs[i]
Growth(h, regs, new, k, field) ==
    IF regs[k].hash = h THEN new[k][field] - regs[k][field] ELSE 0

\* A short region grows: the one record that names it is worth so much more.
LEMMA TallyGrow ==
    ASSUME NEW h, NEW field \in Field, NEW entry \in Int,
           NEW recs \in Seq(Record), NEW regs \in Seq(ShortRegion),
           NEW k \in 1 .. Len(regs), NEW new \in Seq(ShortRegion), OneGrows(regs, new, k),
           ShortRegionsMatch(recs, regs)
    PROVE  Total(h, recs, new, field, entry)
              = Total(h, recs, regs, field, entry) + Growth(h, regs, new, k, field)
<1>0. /\ Len(new) = Len(regs) /\ new[k].hash = regs[k].hash
      /\ \A i \in 1 .. Len(regs) : i # k => new[i] = regs[i]
  BY DEF OneGrows
<1> DEFINE S == 1 .. Len(recs)
           f == Tally(h, recs, regs, field, entry)
           g == Tally(h, recs, new, field, entry)
<1>1. PICK e \in ShortIndices(recs) : recs[e].num = k - 1
  BY DEF ShortRegionsMatch
<1>2. e \in S /\ recs[e].event = "SHORT" /\ recs[e].num + 1 = k
  BY <1>1 DEF ShortIndices
<1>3. ShortRegionsMatch(recs, new)
  BY <1>0 DEF ShortRegionsMatch
<1>4. \A i \in S : f[i] \in Int /\ g[i] \in Int
  BY <1>3, TallyType
<1>5. \A i \in S : f[i] = Worth(h, recs[i], regs, field, entry)
                   /\ g[i] = Worth(h, recs[i], new, field, entry)
  BY DEF Tally
<1>6. \A i \in S : i # e => g[i] = f[i]
  <2> TAKE i \in S
  <2> HAVE i # e
  <2>1. recs[i].event = "SHORT" => recs[i].num + 1 \in 1 .. Len(regs) /\ recs[i].num + 1 # k
    <3> HAVE recs[i].event = "SHORT"
    <3>1. recs[i].num + 1 \in 1 .. Len(regs) /\ recs[i].num \in Nat
      BY ShortNames
    <3>2. i \in ShortIndices(recs)
      BY DEF ShortIndices
    <3>3. recs[i].num # recs[e].num
      BY <1>1, <3>2 DEF ShortRegionsMatch
    <3> QED
      BY <1>1, <3>1, <3>3
  <2>3. recs[i].event = "SHORT" =>
           new[recs[i].num + 1].hash = regs[recs[i].num + 1].hash
           /\ new[recs[i].num + 1][field] = regs[recs[i].num + 1][field]
    BY <1>0, <2>1
  <2>2. Worth(h, recs[i], new, field, entry) = Worth(h, recs[i], regs, field, entry)
    BY <2>3 DEF Worth
  <2> QED
    BY <1>5, <2>2
<1>7. IsFiniteSet(S)
  BY FS_Interval
<1>8. /\ f[e] = IF regs[k].hash = h THEN regs[k][field] ELSE 0
      /\ g[e] = IF regs[k].hash = h THEN new[k][field] ELSE 0
  BY <1>0, <1>2, <1>5 DEF Worth
<1>9. f[e] \in Int /\ g[e] \in Int
  BY <1>2, <1>4
<1> HIDE DEF f, g, S
<1>12. ChangedAt(f, g, S, e)
  BY <1>4, <1>6 DEF ChangedAt
<1>10. SumOver(g, S) = SumOver(f, S) + (g[e] - f[e])
  BY <1>2, <1>7, <1>12, SumChange
<1>11. g[e] - f[e] = Growth(h, regs, new, k, field)
  BY <1>8, <1>9 DEF Growth
<1> QED
  BY <1>10, <1>11 DEF f, g, S, Total

-----------------------------------------------------------------------------
(* What the calls of the application add to the worth of the log.          *)

\* What leaving the outermost region now adds to its total.
Earned(field) == IF field = "num_complete" THEN 1 ELSE now - app_enter_time

\* The tables of the log are sequences, and match.
LEMMA TablesMatch ==
    TypeOK /\ LogInv =>
        /\ record_table \in Seq(Record) /\ region_table \in Seq(ShortRegion)
        /\ ShortRegionsMatch(record_table, region_table)
  BY DEF TypeOK, TableTypeOK, LogInv

\* Worth in the log after a step, if it grows by delta.
GrowsBy(h, field, entry, delta) ==
    Total(h, record_table', region_table', field, entry)
        = Total(h, record_table, region_table, field, entry) + delta

\* A record without completions is appended.
LEMMA NothingEarned ==
    ASSUME TypeOK, LogInv, TypeOK', LogInv', NEW r \in Record, r.event \in {"ENTRY", "EPOCH"},
           record_table' = Append(record_table, r), region_table' = region_table,
           NEW h, NEW field \in Field, NEW entry \in Int
    PROVE  GrowsBy(h, field, entry, 0)
<1>1. /\ record_table \in Seq(Record) /\ region_table \in Seq(ShortRegion)
      /\ ShortRegionsMatch(record_table, region_table)
  BY TablesMatch
<1>2. (TypeOK /\ LogInv =>
        /\ record_table \in Seq(Record) /\ region_table \in Seq(ShortRegion)
        /\ ShortRegionsMatch(record_table, region_table))'
  BY TablesMatch, PTL
<1>3. ShortRegionsMatch(Append(record_table, r), region_table)
  BY <1>2
<1>4. Worth(h, r, region_table, field, entry) = 0
  BY DEF Worth
<1>6. Extends(region_table, region_table)
  BY DEF Extends
<1>5. Total(h, Append(record_table, r), region_table, field, entry)
         = Total(h, record_table, region_table, field, entry)
             + Worth(h, r, region_table, field, entry)
  BY <1>1, <1>3, <1>6, TallyAppend
<1> QED
  BY <1>4, <1>5 DEF GrowsBy

\* The time of an outermost traversal, as the log measures it.
LEMMA ElapsedTrue ==
    ASSUME Good, NEW g \in Region, OutermostExit(g), g \in DOMAIN LiveMap
    PROVE  /\ Elapsed(g) = now - app_enter_time
           /\ LiveMap[g].region_idx # -1 =>
                /\ LiveMap[g].region_idx \in 0 .. num_region - 1
                /\ region_table[LiveMap[g].region_idx + 1].hash = g
<1>1. current_hash = g
  BY InsideFacts
<1>2. EntryTrue(g)
  BY DEF Good, EntriesTrue
<1> QED
  BY <1>1, <1>2 DEF EntryTrue, Elapsed

\* A new short region is worth what was earned.
LEMMA NewShortEarned ==
    ASSUME Good, NEW g \in Region, OutermostExit(g), g \in DOMAIN LiveMap
    PROVE  /\ NewShortRegion(g).hash = g
           /\ \A field \in Field : NewShortRegion(g)[field] = Earned(field)
<1> DEFINE region == NewShortRegion(g)
<1>1. region.hash = g /\ region.num_complete = 1 /\ region.total_time = now - app_enter_time
  BY ElapsedTrue DEF NewShortRegion
<1> QED
  BY <1>1 DEF Earned, Field

\* A short-region record is worth what the region it names holds.
LEMMA ShortWorth ==
    ASSUME NEW h, NEW field, NEW entry, NEW time, NEW idx, NEW regs
    PROVE  Worth(h, ShortRecord(idx, time), regs, field, entry)
              = IF regs[idx + 1].hash = h THEN regs[idx + 1][field] ELSE 0
  BY DEF Worth, ShortRecord

\* Leaving a region whose entry record went out with an earlier dump
LEMMA ExitLongWorth ==
    ASSUME Good, TypeOK', LogInv', NEW g \in Region, ExitLong(g),
           NEW h, NEW field \in Field, NEW entry \in Int, h = g => entry = app_enter_time
    PROVE  GrowsBy(h, field, entry, IF h = g THEN Earned(field) ELSE 0)
<1> DEFINE r == RegionRecord("EXIT", g)
<1>1. record_table' = Append(record_table, r) /\ region_table' = region_table
  BY DEF ExitLong, Append1
<1>2. r \in Record /\ r.event = "EXIT" /\ r.hash = g /\ r.time = now
  BY RecordTypes DEF Event, RegionRecord, Good
<1> HIDE DEF r
<1>3. /\ record_table \in Seq(Record) /\ region_table \in Seq(ShortRegion)
      /\ ShortRegionsMatch(record_table, region_table)
  BY TablesMatch DEF Good
<1>4. (TypeOK /\ LogInv =>
        /\ record_table \in Seq(Record) /\ region_table \in Seq(ShortRegion)
        /\ ShortRegionsMatch(record_table, region_table))'
  BY TablesMatch, PTL
<1>5. ShortRegionsMatch(Append(record_table, r), region_table)
  BY <1>1, <1>4
<1>6. Worth(h, r, region_table, field, entry) = IF h = g THEN Earned(field) ELSE 0
  BY <1>2 DEF Worth, Earned, Field
<1>8. Extends(region_table, region_table)
  BY DEF Extends
<1>7. Total(h, Append(record_table, r), region_table, field, entry)
         = Total(h, record_table, region_table, field, entry)
             + Worth(h, r, region_table, field, entry)
  BY <1>2, <1>3, <1>5, <1>8, TallyAppend
<1> QED
  BY <1>1, <1>6, <1>7 DEF GrowsBy

\* or for the first time since the last dump,
LEMMA ExitFirstShortWorth ==
    ASSUME Good, TypeOK', LogInv', NEW g \in Region, ExitFirstShort(g),
           NEW h, NEW field \in Field, NEW entry \in Int
    PROVE  GrowsBy(h, field, entry, IF h = g THEN Earned(field) ELSE 0)
<1> DEFINE k == LiveMap[g].record_idx + 1
           r == ShortRecord(num_region, record_table[k].time)
           region == NewShortRegion(g)
<1>1. /\ record_table' = [record_table EXCEPT ![k] = r]
      /\ region_table' = Append(region_table, region)
      /\ OutermostExit(g) /\ IsOpen(g) /\ g \in DOMAIN LiveMap
  BY DEF ExitFirstShort, IsOpen
<1>2. /\ record_table \in Seq(Record) /\ region_table \in Seq(ShortRegion)
      /\ ShortRegionsMatch(record_table, region_table)
  BY TablesMatch DEF Good
<1>3. (TypeOK /\ LogInv =>
        /\ record_table \in Seq(Record) /\ region_table \in Seq(ShortRegion)
        /\ ShortRegionsMatch(record_table, region_table))'
  BY TablesMatch, PTL
<1>4. k \in AtFrom(record_table, 1, "ENTRY")
  BY <1>1, OpenFacts
<1>5. k \in 1 .. Len(record_table) /\ record_table[k].event = "ENTRY"
  BY <1>4 DEF AtFrom
<1>6. region \in ShortRegion
  BY <1>1, RecordTypes DEF Good
<1> HIDE DEF r, region, k
<1>7. /\ Len(record_table') = Len(record_table) /\ record_table'[k] = r
      /\ \A i \in 1 .. Len(record_table) : i # k => record_table'[i] = record_table[i]
  BY <1>1, <1>2, <1>5
<1>8. /\ region_table'[num_region + 1] = region
      /\ \A i \in 1 .. Len(region_table) : region_table'[i] = region_table[i]
  BY <1>1, <1>2, <1>6, AppendProperties DEF num_region
<1>9. Worth(h, record_table'[k], region_table', field, entry)
         = IF h = g THEN Earned(field) ELSE 0
  <2>1. region.hash = g /\ region[field] = Earned(field)
    BY <1>1, NewShortEarned DEF region
  <2>2. Worth(h, r, region_table', field, entry)
           = IF region_table'[num_region + 1].hash = h
               THEN region_table'[num_region + 1][field] ELSE 0
    BY ShortWorth DEF r
  <2> QED
    BY <1>7, <1>8, <2>1, <2>2
<1>10. Worth(h, record_table[k], region_table, field, entry) = 0
  BY <1>5 DEF Worth
<1>13. /\ OneConverted(record_table, record_table', k)
       /\ Extends(region_table, region_table')
  BY <1>7, <1>8 DEF OneConverted, Extends
<1>14. /\ record_table' \in Seq(Record) /\ region_table' \in Seq(ShortRegion)
       /\ ShortRegionsMatch(record_table', region_table')
  BY <1>3
<1>11. Total(h, record_table', region_table', field, entry)
         = Total(h, record_table, region_table, field, entry)
             + (Worth(h, record_table'[k], region_table', field, entry)
                  - Worth(h, record_table[k], region_table, field, entry))
  BY <1>2, <1>5, <1>13, <1>14, TallyConvert
<1>12. Earned(field) \in Int
  BY DEF Earned, Good, TypeOK, AppTypeOK
<1> QED
  BY <1>9, <1>10, <1>11, <1>12 DEF GrowsBy

\* or for the first time since a dump that found it short,
LEMMA ExitStillShortWorth ==
    ASSUME Good, TypeOK', LogInv', NEW g \in Region, ExitStillShort(g),
           NEW h, NEW field \in Field, NEW entry \in Int
    PROVE  GrowsBy(h, field, entry, IF h = g THEN Earned(field) ELSE 0)
<1> DEFINE r == ShortRecord(num_region, now)
           region == NewShortRegion(g)
<1>1. /\ record_table' = Append(record_table, r)
      /\ region_table' = Append(region_table, region)
      /\ OutermostExit(g) /\ g \in DOMAIN LiveMap
  BY DEF ExitStillShort, Append1
<1>2. /\ record_table \in Seq(Record) /\ region_table \in Seq(ShortRegion)
      /\ ShortRegionsMatch(record_table, region_table)
  BY TablesMatch DEF Good
<1>3. (TypeOK /\ LogInv =>
        /\ record_table \in Seq(Record) /\ region_table \in Seq(ShortRegion)
        /\ ShortRegionsMatch(record_table, region_table))'
  BY TablesMatch, PTL
<1>4. region \in ShortRegion /\ r \in Record
  BY <1>1, TableFacts, RecordTypes DEF Good, TypeOK, AppTypeOK
<1>5. region.hash = g /\ region[field] = Earned(field)
  BY <1>1, NewShortEarned
<1> HIDE DEF region
<1>9. Worth(h, r, region_table', field, entry)
         = IF region_table'[num_region + 1].hash = h
             THEN region_table'[num_region + 1][field] ELSE 0
  BY ShortWorth
<1> HIDE DEF r
<1>6. /\ region_table'[num_region + 1] = region
      /\ \A i \in 1 .. Len(region_table) : region_table'[i] = region_table[i]
  BY <1>1, <1>2, <1>4, AppendProperties DEF num_region
<1>7. ShortRegionsMatch(Append(record_table, r), region_table')
  BY <1>1, <1>3
<1>10. Extends(region_table, region_table') /\ region_table' \in Seq(ShortRegion)
  BY <1>3, <1>6 DEF Extends
<1>8. Total(h, Append(record_table, r), region_table', field, entry)
         = Total(h, record_table, region_table, field, entry)
             + Worth(h, r, region_table', field, entry)
  BY <1>2, <1>4, <1>7, <1>10, TallyAppend
<1> QED
  BY <1>1, <1>5, <1>6, <1>8, <1>9 DEF GrowsBy

\* or another time since then.
LEMMA ExitShortAgainWorth ==
    ASSUME Good, TypeOK', LogInv', NEW g \in Region, ExitShortAgain(g),
           NEW h, NEW field \in Field, NEW entry \in Int
    PROVE  GrowsBy(h, field, entry, IF h = g THEN Earned(field) ELSE 0)
<1> DEFINE k == LiveMap[g].region_idx + 1
           before == region_table[k]
           region == [before EXCEPT !.num_complete = @ + 1, !.total_time = @ + Elapsed(g)]
<1>1. /\ record_table' = record_table
      /\ region_table' = [region_table EXCEPT ![k] = region]
      /\ OutermostExit(g) /\ g \in DOMAIN LiveMap /\ LiveMap[g].region_idx # -1
  BY DEF ExitShortAgain
<1>2. /\ record_table \in Seq(Record) /\ region_table \in Seq(ShortRegion)
      /\ ShortRegionsMatch(record_table, region_table)
  BY TablesMatch DEF Good
<1>3. (TypeOK /\ LogInv =>
        /\ record_table \in Seq(Record) /\ region_table \in Seq(ShortRegion)
        /\ ShortRegionsMatch(record_table, region_table))'
  BY TablesMatch, PTL
<1>4. k \in 1 .. Len(region_table) /\ before.hash = g
  <2>1. num_region \in Nat
    BY TableFacts DEF Good
  <2>2. LiveMap[g].region_idx \in 0 .. num_region - 1 /\ before.hash = g
    BY <1>1, ElapsedTrue
  <2> QED
    BY <2>1, <2>2 DEF num_region
<1>5. Elapsed(g) = now - app_enter_time
  BY <1>1, ElapsedTrue
<1>6. before \in ShortRegion
  <2> HIDE DEF k
  <2> QED
    BY <1>2, <1>4
<1> HIDE DEF before
<1>7. /\ region.hash = g
      /\ region.num_complete = before.num_complete + 1
      /\ region.total_time = before.total_time + (now - app_enter_time)
  BY <1>4, <1>5, <1>6 DEF ShortRegion
<1>8. before.num_complete \in Int /\ before.total_time \in Int
      /\ now \in Int /\ app_enter_time \in Int
  BY <1>6 DEF ShortRegion, Good, TypeOK, AppTypeOK
<1> HIDE DEF k, region
<1>9. region[field] - before[field] = Earned(field)
  BY <1>7, <1>8 DEF Field, Earned
<1>10. /\ Len(region_table') = Len(region_table) /\ region_table'[k] = region
       /\ \A i \in 1 .. Len(region_table) : i # k => region_table'[i] = region_table[i]
  BY <1>1, <1>2, <1>4
<1>11. Total(h, record_table, region_table', field, entry)
         = Total(h, record_table, region_table, field, entry)
             + Growth(h, region_table, region_table', k, field)
  <2>1. OneGrows(region_table, region_table', k)
    BY <1>4, <1>7, <1>10 DEF before, OneGrows
  <2>2. region_table' \in Seq(ShortRegion)
    BY <1>3
  <2> QED
    BY <1>2, <1>4, <2>1, <2>2, TallyGrow
<1>12. Growth(h, region_table, region_table', k, field) = IF h = g THEN Earned(field) ELSE 0
  BY <1>4, <1>9, <1>10 DEF before, Growth
<1> QED
  BY <1>1, <1>11, <1>12 DEF GrowsBy

-----------------------------------------------------------------------------
(* The calls of the application keep the books.                            *)

\* The entry the controller will have seen last is a time.
LEMMA EntrySeenType == TypeOK => \A h \in Region : EntrySeen(h) \in Nat
<1> SUFFICES ASSUME TypeOK, NEW h \in Region PROVE EntrySeen(h) \in Nat
  OBVIOUS
<1>1. CASE EntriesLeft(h) # {}
  <2> DEFINE i == AnyOf(EntriesLeft(h))
  <2>1. i \in EntriesLeft(h)
    BY <1>1 DEF AnyOf
  <2>2. FirstLeft \in Nat \ {0} /\ batch \in Seq(Record)
    BY DEF FirstLeft, TypeOK, CtlTypeOK
  <2>3. i \in 1 .. Len(batch)
    BY <2>1, <2>2 DEF EntriesLeft, AtFrom
  <2>4. EntrySeen(h) = batch[i].time
    BY <1>1 DEF EntrySeen
  <2> HIDE DEF i
  <2>5. batch[i] \in Record
    BY <2>2, <2>3
  <2> QED
    BY <2>4, <2>5 DEF Record
<1>2. CASE EntriesLeft(h) = {}
  BY <1>2 DEF EntrySeen, TypeOK, CtlTypeOK
<1> QED
  BY <1>1, <1>2

\* All the terms of AddsUp are numbers.
Numbers(h) ==
    /\ done[h] \in Int /\ spent[h] \in Int
    /\ total_count[h] \in Int /\ total_runtime[h] \in Int
    /\ EntrySeen(h) \in Int /\ last_entry[h] \in Int
    /\ \A field \in Field : InBatch(h, field) \in Int /\ InLog(h, field) \in Int

AllNumbers == \A h \in Region : Numbers(h)

\* They are.
LEMMA NumbersType == WholeInv => AllNumbers
<1> SUFFICES ASSUME WholeInv, NEW h \in Region PROVE Numbers(h)
  BY DEF AllNumbers
<1>1. /\ done[h] \in Int /\ spent[h] \in Int
      /\ total_count[h] \in Int /\ total_runtime[h] \in Int /\ last_entry[h] \in Int
  BY DEF WholeInv, TypeOK, AppTypeOK, CtlTypeOK
<1>2. EntrySeen(h) \in Int
  BY EntrySeenType DEF WholeInv
<1>3. /\ record_table \in Seq(Record) /\ region_table \in Seq(ShortRegion)
      /\ batch \in Seq(Record) /\ batch_regions \in Seq(ShortRegion)
      /\ ShortRegionsMatch(record_table, region_table)
      /\ ShortRegionsMatch(batch, batch_regions)
      /\ FirstLeft \in Nat \ {0}
  BY DEF WholeInv, TypeOK, TableTypeOK, CtlTypeOK, LogInv, FirstLeft
<1>4. ASSUME NEW field \in Field PROVE InLog(h, field) \in Int
  <2>1. \A i \in 1 .. Len(record_table) :
           Tally(h, record_table, region_table, field, EntrySeen(h))[i] \in Int
    BY <1>2, <1>3, TallyType
  <2>2. IsFiniteSet(1 .. Len(record_table))
    BY <1>3, FS_Interval
  <2> QED
    BY <2>1, <2>2, SumInt DEF InLog, Total
<1>5. ASSUME NEW field \in Field PROVE InBatch(h, field) \in Int
  <2>1. \A i \in 1 .. Len(batch) :
           Tally(h, batch, batch_regions, field, last_entry[h])[i] \in Int
    BY <1>1, <1>3, TallyType
  <2>2. IsFiniteSet(FirstLeft .. Len(batch))
    BY <1>3, FS_Interval
  <2>3. \A i \in FirstLeft .. Len(batch) : i \in 1 .. Len(batch)
    BY <1>3
  <2> QED
    BY <2>1, <2>2, <2>3, SumInt DEF InBatch
<1> QED
  BY <1>1, <1>2, <1>4, <1>5 DEF Numbers

\* The application leaves the controller's books alone.
LEMMA SameBatch ==
    ASSUME UNCHANGED ctlVars
    PROVE  /\ FirstLeft' = FirstLeft
           /\ \A h : EntrySeen(h)' = EntrySeen(h)
           /\ \A h, field : InBatch(h, field)' = InBatch(h, field)
<1>1. UNCHANGED <<ctl_pc, ctl_next, batch, batch_regions, last_entry>>
  BY DEF ctlVars
<1>2. FirstLeft' = FirstLeft
  BY <1>1 DEF FirstLeft
<1>3. ASSUME NEW h PROVE EntriesLeft(h)' = EntriesLeft(h)
  BY <1>1, <1>2 DEF EntriesLeft, AtFrom
<1>4. ASSUME NEW h PROVE EntrySeen(h)' = EntrySeen(h)
  BY <1>1, <1>3 DEF EntrySeen
<1>5. ASSUME NEW h, NEW field PROVE InBatch(h, field)' = InBatch(h, field)
  BY <1>1, <1>2 DEF InBatch
<1> QED
  BY <1>2, <1>4, <1>5

\* If the log grows by what the application did, the books stay balanced.
LEMMA BooksBalance ==
    ASSUME NEW h \in Region, WholeInv, WholeInv', UNCHANGED ctlVars, AddsUp(h),
           NEW c \in Int, done'[h] = done[h] + c, GrowsBy(h, "num_complete", EntrySeen(h), c),
           NEW t \in Int, spent'[h] = spent[h] + t, GrowsBy(h, "total_time", EntrySeen(h), t)
    PROVE  AddsUp(h)'
<1>1. /\ EntrySeen(h)' = EntrySeen(h)
      /\ \A field : InBatch(h, field)' = InBatch(h, field)
      /\ total_count' = total_count /\ total_runtime' = total_runtime
  BY SameBatch DEF ctlVars
<1>2. /\ InLog(h, "num_complete")' = InLog(h, "num_complete") + c
      /\ InLog(h, "total_time")' = InLog(h, "total_time") + t
  BY <1>1 DEF InLog, GrowsBy
<1>3. Numbers(h)
  BY NumbersType DEF AllNumbers
<1>4. /\ InBatch(h, "num_complete") \in Int /\ InLog(h, "num_complete") \in Int
      /\ InBatch(h, "total_time") \in Int /\ InLog(h, "total_time") \in Int
      /\ total_count[h] \in Int /\ total_runtime[h] \in Int
  BY <1>3 DEF Numbers, Field
<1>5. /\ done[h] = total_count[h] + InBatch(h, "num_complete") + InLog(h, "num_complete")
      /\ spent[h] = total_runtime[h] + InBatch(h, "total_time") + InLog(h, "total_time")
  BY DEF AddsUp
<1>6. done'[h] = total_count'[h] + InBatch(h, "num_complete")' + InLog(h, "num_complete")'
  BY <1>1, <1>2, <1>4, <1>5
<1>7. spent'[h] = total_runtime'[h] + InBatch(h, "total_time")' + InLog(h, "total_time")'
  BY <1>1, <1>2, <1>4, <1>5
<1> QED
  BY <1>6, <1>7 DEF AddsUp

\* Calls that complete nothing
LEMMA NothingDone ==
    ASSUME NEW h \in Region, WholeInv, WholeInv', UNCHANGED ctlVars, AddsUp(h),
           UNCHANGED <<done, spent>>,
           \A field \in Field : GrowsBy(h, field, EntrySeen(h), 0)
    PROVE  AddsUp(h)'
<1>1. done[h] \in Int /\ spent[h] \in Int
  BY NumbersType DEF AllNumbers, Numbers
<1>0. PICK z \in Int : z = 0
  OBVIOUS
<1>2. done'[h] = done[h] + z /\ spent'[h] = spent[h] + z
  BY <1>0, <1>1
<1>3. GrowsBy(h, "num_complete", EntrySeen(h), z) /\ GrowsBy(h, "total_time", EntrySeen(h), z)
  BY <1>0 DEF Field
<1> QED
  BY <1>2, <1>3, BooksBalance

\* or leave the tables as they are,
LEMMA SameTables ==
    ASSUME NEW h \in Region, WholeInv, UNCHANGED tableVars
    PROVE  \A field \in Field : GrowsBy(h, field, EntrySeen(h), 0)
<1> TAKE field \in Field
<1>1. record_table' = record_table /\ region_table' = region_table
  BY DEF tableVars
<1>2. InLog(h, field) \in Int
  BY NumbersType DEF AllNumbers, Numbers
<1>3. Total(h, record_table, region_table, field, EntrySeen(h)) \in Int
  BY <1>2 DEF InLog
<1> QED
  BY <1>1, <1>3 DEF GrowsBy

\* or append a record of another kind,
LEMMA OtherRecord ==
    ASSUME NEW h \in Region, WholeInv, WholeInv', NEW r \in Record, r.event \in {"ENTRY", "EPOCH"},
           record_table' = Append(record_table, r), region_table' = region_table
    PROVE  \A field \in Field : GrowsBy(h, field, EntrySeen(h), 0)
<1>1. TypeOK /\ LogInv
  BY DEF WholeInv
<1>2. TypeOK' /\ LogInv'
  BY DEF WholeInv
<1>3. EntrySeen(h) \in Int
  BY NumbersType DEF AllNumbers, Numbers
<1> QED
  BY <1>1, <1>2, <1>3, NothingEarned

\* and a call that leaves the outermost region.
LEMMA Completed ==
    ASSUME NEW g \in Region, WholeInv, WholeInv', Good, OutermostExit(g),
           NEW h \in Region, AddsUp(h),
           \A field \in Field :
              GrowsBy(h, field, EntrySeen(h), IF h = g THEN Earned(field) ELSE 0)
    PROVE  AddsUp(h)'
<1> DEFINE c == IF h = g THEN 1 ELSE 0
           t == IF h = g THEN now - app_enter_time ELSE 0
<1>1. UNCHANGED ctlVars /\ done' = [done EXCEPT ![g] = @ + 1]
      /\ spent' = [spent EXCEPT ![g] = @ + (now - app_enter_time)]
  BY ExitOuterStack DEF Good
<1>2. done \in [Region -> Nat] /\ spent \in [Region -> Int]
      /\ now \in Nat /\ app_enter_time \in Nat
  BY DEF Good, TypeOK, AppTypeOK
<1>3. done'[h] = done[h] + c /\ spent'[h] = spent[h] + t
  BY <1>1, <1>2
<1>4. c \in Int /\ t \in Int
  BY <1>2
<1>5. Earned("num_complete") = 1 /\ Earned("total_time") = now - app_enter_time
  BY DEF Earned
<1>6. GrowsBy(h, "num_complete", EntrySeen(h), c) /\ GrowsBy(h, "total_time", EntrySeen(h), t)
  BY <1>5 DEF Field
<1> HIDE DEF c, t
<1> QED
  BY <1>1, <1>3, <1>4, <1>6, BooksBalance

\* All calls.
LEMMA AppLedger ==
    ASSUME WholeInv, WholeInv', Good, App, Sound', EntryKnown, \A h \in Region : AddsUp(h)
    PROVE  EntryKnown' /\ \A h \in Region : AddsUp(h)'
<1>1. TypeOK' /\ LogInv' /\ TypeOK /\ SameRegion
  BY DEF WholeInv, Good
<1>2. UNCHANGED ctlVars
  BY AppFrame
<1>3. \A h \in Region : EntrySeen(h) \in Int
  BY NumbersType DEF AllNumbers, Numbers
<1>4. CASE \E g \in Region : EnterAgain(g)
  <2>1. PICK g \in Region : EnterAgain(g)
    BY <1>4
  <2>2. /\ OutermostEnter(g) /\ g \in DOMAIN LiveMap
        /\ enter_map' = [LiveMap EXCEPT ![g].enter_time = now]
        /\ record_table' = record_table /\ region_table' = region_table
    BY <2>1 DEF EnterAgain, OutermostEnter
  <2>3. app_stack = <<>> /\ Outermost' = g /\ UNCHANGED <<done, spent>>
    BY <1>1, <2>2, EnterOuterStack
  <2>4. record_table # <<>>
    BY <2>2, <2>3, OutsideFacts
  <2>5. g \in DOMAIN LiveMap'
    BY <1>1, <2>2, <2>4, NewLiveMap
  <2>6. EntryKnown'
    BY <2>3, <2>5 DEF EntryKnown
  <2>7. UNCHANGED tableVars
    BY <2>2 DEF tableVars
  <2> QED
    BY <1>2, <2>3, <2>6, <2>7, SameTables, NothingDone
<1>5. CASE \E g \in Region : EnterNew(g)
  <2>1. PICK g \in Region : EnterNew(g)
    BY <1>5
  <2>2. /\ OutermostEnter(g) /\ enter_map' = WithEntry(LiveMap, g, NewInfo)
        /\ record_table' = Append(record_table, RegionRecord("ENTRY", g))
        /\ region_table' = region_table
    BY <2>1 DEF EnterNew, OutermostEnter, Append1
  <2>3. Outermost' = g /\ UNCHANGED <<done, spent>>
    BY <1>1, <2>2, EnterOuterStack
  <2>4. RegionRecord("ENTRY", g) \in Record /\ RegionRecord("ENTRY", g).event = "ENTRY"
    BY <1>1, RecordTypes DEF Event, RegionRecord
  <2>5. record_table' # <<>>
    BY <1>1, <2>2, <2>4, AppendProperties DEF TypeOK, TableTypeOK
  <2>6. g \in DOMAIN LiveMap'
    BY <1>1, <2>2, <2>5, NewLiveMap DEF WithEntry
  <2>7. EntryKnown'
    BY <2>3, <2>6 DEF EntryKnown
  <2> QED
    BY <1>2, <2>2, <2>3, <2>4, <2>7, OtherRecord, NothingDone
<1>6. CASE \E g \in Region : EnterNested(g) \/ ExitNested(g)
  <2>1. /\ app_stack # <<>> /\ Outermost' = Outermost /\ app_enter_time' = app_enter_time
        /\ UNCHANGED <<done, spent, logVars, tableVars>>
    BY <1>1, <1>6, NestedStack
  <2>2. LiveMap' = LiveMap
    BY <2>1 DEF LiveMap, logVars, tableVars, num_record
  <2>3. EntryKnown'
    BY <1>2, <2>1, <2>2, SameBatch DEF EntryKnown
  <2> QED
    BY <1>2, <2>1, <2>3, SameTables, NothingDone
<1>7. ASSUME NEW g \in Region, OutermostExit(g),
             ASSUME NEW h \in Region, NEW field \in Field
             PROVE  GrowsBy(h, field, EntrySeen(h), IF h = g THEN Earned(field) ELSE 0)
      PROVE  EntryKnown' /\ \A h \in Region : AddsUp(h)'
  <2>1. app_stack' = <<>>
    BY <1>1, <1>7, ExitOuterStack
  <2>2. EntryKnown'
    BY <2>1 DEF EntryKnown
  <2> QED
    BY <1>7, <2>2, Completed
<1>8. CASE \E g \in Region : ExitLong(g)
  <2>1. PICK g \in Region : ExitLong(g)
    BY <1>8
  <2>2. OutermostExit(g) /\ g \notin DOMAIN LiveMap
    BY <2>1 DEF ExitLong
  <2>3. app_stack # <<>> /\ Outermost = g
    BY <1>1, <2>2, ExitOuterStack
  <2>4. EntrySeen(g) = app_enter_time
    BY <2>2, <2>3 DEF EntryKnown
  <2>5. ASSUME NEW h \in Region, NEW field \in Field
        PROVE  GrowsBy(h, field, EntrySeen(h), IF h = g THEN Earned(field) ELSE 0)
    BY <1>1, <1>3, <2>1, <2>4, ExitLongWorth
  <2> QED
    BY <1>7, <2>2, <2>5
<1>9. CASE \E g \in Region : ExitFirstShort(g)
  <2>1. PICK g \in Region : ExitFirstShort(g)
    BY <1>9
  <2>2. OutermostExit(g)
    BY <2>1 DEF ExitFirstShort
  <2>3. ASSUME NEW h \in Region, NEW field \in Field
        PROVE  GrowsBy(h, field, EntrySeen(h), IF h = g THEN Earned(field) ELSE 0)
    BY <1>1, <1>3, <2>1, ExitFirstShortWorth
  <2> QED
    BY <1>7, <2>2, <2>3
<1>10. CASE \E g \in Region : ExitStillShort(g)
  <2>1. PICK g \in Region : ExitStillShort(g)
    BY <1>10
  <2>2. OutermostExit(g)
    BY <2>1 DEF ExitStillShort
  <2>3. ASSUME NEW h \in Region, NEW field \in Field
        PROVE  GrowsBy(h, field, EntrySeen(h), IF h = g THEN Earned(field) ELSE 0)
    BY <1>1, <1>3, <2>1, ExitStillShortWorth
  <2> QED
    BY <1>7, <2>2, <2>3
<1>11. CASE \E g \in Region : ExitShortAgain(g)
  <2>1. PICK g \in Region : ExitShortAgain(g)
    BY <1>11
  <2>2. OutermostExit(g)
    BY <2>1 DEF ExitShortAgain
  <2>3. ASSUME NEW h \in Region, NEW field \in Field
        PROVE  GrowsBy(h, field, EntrySeen(h), IF h = g THEN Earned(field) ELSE 0)
    BY <1>1, <1>3, <2>1, ExitShortAgainWorth
  <2> QED
    BY <1>7, <2>2, <2>3
<1>12. CASE Epoch
  <2>1. /\ record_table' = Append(record_table, EpochRecord(epoch_count + 1))
        /\ region_table' = region_table /\ enter_map' = LiveMap
        /\ UNCHANGED <<app_stack, app_enter_time, done, spent>>
    BY <1>12 DEF Epoch, EpochCall, Append1
  <2>2. EpochRecord(epoch_count + 1) \in Record /\ EpochRecord(epoch_count + 1).event = "EPOCH"
    BY <1>1, RecordTypes DEF EpochRecord
  <2>3. record_table' # <<>>
    BY <1>1, <2>1, <2>2, AppendProperties DEF TypeOK, TableTypeOK
  <2>4. LiveMap' = LiveMap
    BY <1>1, <2>1, <2>3, NewLiveMap
  <2>5. Outermost' = Outermost
    BY <2>1 DEF Outermost
  <2>6. EntryKnown'
    BY <1>2, <2>1, <2>4, <2>5, SameBatch DEF EntryKnown
  <2> QED
    BY <1>2, <2>1, <2>2, <2>6, OtherRecord, NothingDone
<1> QED
  BY <1>1, <1>4, <1>5, <1>6, <1>8, <1>9, <1>10, <1>11, <1>12, SoundApp

-----------------------------------------------------------------------------
(* The controller keeps them, too.                                         *)

\* What moves from the batch to the total leaves the balance as it is.
LEMMA BatchMoves ==
    ASSUME NEW h \in Region, WholeInv, WholeInv', AddsUp(h),
           UNCHANGED <<done, spent, record_table, region_table>>,
           EntrySeen(h)' = EntrySeen(h),
           NEW c \in Int, total_count'[h] = total_count[h] + c,
           InBatch(h, "num_complete") = c + InBatch(h, "num_complete")',
           NEW t \in Int, total_runtime'[h] = total_runtime[h] + t,
           InBatch(h, "total_time") = t + InBatch(h, "total_time")'
    PROVE  AddsUp(h)'
<1>1. Numbers(h)
  BY NumbersType DEF AllNumbers
<1>2. (WholeInv => AllNumbers)'
  BY NumbersType, PTL
<1>3. Numbers(h)'
  BY <1>2 DEF AllNumbers
<1>4. /\ InBatch(h, "num_complete")' \in Int /\ InLog(h, "num_complete") \in Int
      /\ InBatch(h, "total_time")' \in Int /\ InLog(h, "total_time") \in Int
      /\ total_count[h] \in Int /\ total_runtime[h] \in Int
  BY <1>1, <1>3 DEF Numbers, Field
<1>5. /\ InLog(h, "num_complete")' = InLog(h, "num_complete")
      /\ InLog(h, "total_time")' = InLog(h, "total_time")
  BY DEF InLog
<1>6. /\ done[h] = total_count[h] + InBatch(h, "num_complete") + InLog(h, "num_complete")
      /\ spent[h] = total_runtime[h] + InBatch(h, "total_time") + InLog(h, "total_time")
  BY DEF AddsUp
<1>7. done'[h] = total_count'[h] + InBatch(h, "num_complete")' + InLog(h, "num_complete")'
  BY <1>4, <1>5, <1>6
<1>8. spent'[h] = total_runtime'[h] + InBatch(h, "total_time")' + InLog(h, "total_time")'
  BY <1>4, <1>5, <1>6
<1> QED
  BY <1>7, <1>8 DEF AddsUp

\* A step that adds nothing and leaves as much of the batch.
LEMMA NothingMoves ==
    ASSUME NEW h \in Region, WholeInv, WholeInv', AddsUp(h),
           UNCHANGED <<done, spent, record_table, region_table, total_count, total_runtime>>,
           EntrySeen(h)' = EntrySeen(h),
           \A field \in Field : InBatch(h, field)' = InBatch(h, field)
    PROVE  AddsUp(h)'
<1>1. /\ InBatch(h, "num_complete")' = InBatch(h, "num_complete")
      /\ InBatch(h, "total_time")' = InBatch(h, "total_time")
  BY DEF Field
<1>2. /\ InLog(h, "num_complete")' = InLog(h, "num_complete")
      /\ InLog(h, "total_time")' = InLog(h, "total_time")
  BY DEF InLog
<1> QED
  BY <1>1, <1>2 DEF AddsUp

\* What is known of the entry only depends on the log and on EntrySeen.
LEMMA StillKnown ==
    ASSUME UNCHANGED <<app_stack, app_enter_time, enter_map, entered_hash, record_table>>,
           \A h : EntrySeen(h)' = EntrySeen(h), EntryKnown
    PROVE  EntryKnown'
<1>1. LiveMap' = LiveMap
  BY DEF LiveMap, num_record
<1>2. Outermost' = Outermost
  BY DEF Outermost
<1> QED
  BY <1>1, <1>2 DEF EntryKnown

\* Nothing is left of a batch that was added.
LEMMA NothingLeft ==
    ASSUME TypeOK, FirstLeft > Len(batch)
    PROVE  /\ \A h : EntrySeen(h) = last_entry[h]
           /\ \A h, field : InBatch(h, field) = 0
<1>1. FirstLeft \in Nat \ {0} /\ Len(batch) \in Nat
  BY DEF FirstLeft, TypeOK, CtlTypeOK
<1>2. FirstLeft .. Len(batch) = {}
  BY <1>1
<1>3. ASSUME NEW h PROVE EntrySeen(h) = last_entry[h]
  BY <1>2 DEF EntrySeen, EntriesLeft, AtFrom
<1>4. ASSUME NEW h, NEW field PROVE InBatch(h, field) = 0
  BY <1>2, SumEmpty DEF InBatch
<1> QED
  BY <1>3, <1>4

\* The entry records of a batch are one at most.
LEMMA OneEntry ==
    ASSUME TypeOK, ExitThenEntry(batch, 1), NEW h, NEW i \in EntriesLeft(h)
    PROVE  EntriesLeft(h) = {i} /\ EntrySeen(h) = batch[i].time
<1>1. FirstLeft \in Nat \ {0} /\ batch \in Seq(Record)
  BY DEF FirstLeft, TypeOK, CtlTypeOK
<1>2. \A j \in EntriesLeft(h) : j \in AtFrom(batch, 1, "ENTRY")
  BY <1>1 DEF EntriesLeft, AtFrom
<1>3. \A j \in EntriesLeft(h) : j = i
  BY <1>2 DEF ExitThenEntry
<1>4. EntriesLeft(h) = {i}
  BY <1>3
<1>5. AnyOf(EntriesLeft(h)) = i
  BY <1>4 DEF AnyOf
<1> QED
  BY <1>4, <1>5 DEF EntrySeen

\* The same, to be read after a step.
LEMMA OneEntryLeft ==
    TypeOK /\ ExitThenEntry(batch, 1)
       => \A h : \A j \in EntriesLeft(h) : EntrySeen(h) = batch[j].time
  BY OneEntry

\* dump(): what was in the log is in the batch.
LEMMA DumpLedger ==
    ASSUME WholeInv, WholeInv', Good, InStep, EntryKnown, \A h \in Region : AddsUp(h), Dump
    PROVE  /\ ExitThenEntry(batch', 1)
           /\ EntryKnown'
           /\ \A h \in Region : AddsUp(h)'
<1>1. /\ batch' = record_table /\ batch_regions' = region_table
      /\ record_table' = <<>> /\ region_table' = <<>>
      /\ ctl_pc = "idle" /\ ctl_pc' = "check"
      /\ UNCHANGED <<app_stack, app_enter_time, done, spent, current_hash,
                     total_count, total_runtime, last_entry>>
  BY DEF Dump, Controller, appVars, profVars
<1>2. TypeOK /\ TypeOK' /\ SameRegion /\ EntriesTrue
  BY DEF WholeInv, Good
<1>3. record_table \in Seq(Record) /\ Len(record_table) \in Nat
  BY <1>2 DEF TypeOK, TableTypeOK
<1>4. ExitThenEntry(record_table, 1)
  BY <1>1 DEF InStep, Replays
<1>5. ExitThenEntry(batch', 1)
  BY <1>1, <1>4
<1>6. FirstLeft > Len(batch) /\ FirstLeft' = 1
  BY <1>1, <1>2 DEF FirstLeft, TypeOK, CtlTypeOK
<1>7. /\ \A h : EntrySeen(h) = last_entry[h]
      /\ \A h, field : InBatch(h, field) = 0
  BY <1>2, <1>6, NothingLeft
<1>8. ASSUME NEW h \in Region, NEW field \in Field
      PROVE  InBatch(h, field)' = InLog(h, field) /\ InLog(h, field)' = 0
  <2>1. InBatch(h, field)' = InLog(h, field)
    BY <1>1, <1>6, <1>7 DEF InBatch, InLog, Total
  <2>2. 1 .. Len(record_table') = {}
    BY <1>1
  <2>3. InLog(h, field)' = 0
    BY <2>2, SumEmpty DEF InLog, Total
  <2> QED
    BY <2>1, <2>3
<1>9. ASSUME NEW h \in Region PROVE AddsUp(h)'
  <2>1. Numbers(h)
    BY NumbersType DEF AllNumbers
  <2>2. /\ InLog(h, "num_complete") \in Int /\ InLog(h, "total_time") \in Int
        /\ total_count[h] \in Int /\ total_runtime[h] \in Int
    BY <2>1 DEF Numbers, Field
  <2>3. /\ InBatch(h, "num_complete")' = InLog(h, "num_complete")
        /\ InBatch(h, "total_time")' = InLog(h, "total_time")
        /\ InLog(h, "num_complete")' = 0 /\ InLog(h, "total_time")' = 0
        /\ InBatch(h, "num_complete") = 0 /\ InBatch(h, "total_time") = 0
    BY <1>7, <1>8 DEF Field
  <2>4. /\ done[h] = total_count[h] + InBatch(h, "num_complete") + InLog(h, "num_complete")
        /\ spent[h] = total_runtime[h] + InBatch(h, "total_time") + InLog(h, "total_time")
    BY DEF AddsUp
  <2>5. done'[h] = total_count'[h] + InBatch(h, "num_complete")' + InLog(h, "num_complete")'
    BY <1>1, <2>2, <2>3, <2>4
  <2>6. spent'[h] = total_runtime'[h] + InBatch(h, "total_time")' + InLog(h, "total_time")'
    BY <1>1, <2>2, <2>3, <2>4
  <2> QED
    BY <2>5, <2>6 DEF AddsUp
<1>10. EntryKnown'
  <2> SUFFICES ASSUME app_stack' # <<>>, Outermost' \notin DOMAIN LiveMap'
               PROVE  EntrySeen(Outermost)' = app_enter_time'
    BY DEF EntryKnown
  <2>1. PICK o : o = Outermost
    OBVIOUS
  <2>2. Outermost' = o /\ app_stack # <<>> /\ app_stack \in Seq(Region)
    BY <1>1, <1>2, <2>1 DEF Outermost, TypeOK, AppTypeOK
  <2>3. o \in Region
    BY <2>1, <2>2 DEF Outermost
  <2>4. LoggedRegion' = o /\ o # NoRegion
    BY <2>2, <2>3, NoRegionAssumption DEF LoggedRegion
  <2>5. LoggedRegion = o
    BY <1>2, <2>4, DumpEntries
  <2>6. o \notin DOMAIN LiveMap \/ IsOpen(o)
    BY <2>1, <2>4, <2>5 DEF LoggedRegion
  <2>7. current_hash = o
    BY <2>1, <2>2 DEF Good, SameRegion
  <2>8. \A i : i \in EntriesLeft(o)'
                  <=> i \in AtFrom(record_table, 1, "ENTRY") /\ record_table[i].hash = o
    BY <1>1, <1>6 DEF EntriesLeft
  <2>9. CASE IsOpen(o)
    <3>1. PICK i : i = LiveMap[o].record_idx + 1
      OBVIOUS
    <3>2. i \in AtFrom(record_table, 1, "ENTRY") /\ o \in DOMAIN LiveMap
      BY <2>3, <2>9, <3>1, OpenFacts
    <3>3. record_table[i].hash = o /\ record_table[i].time = app_enter_time
      BY <1>2, <2>9, <3>1, <3>2 DEF EntriesTrue, EntryTrue
    <3>4. i \in EntriesLeft(o)'
      BY <2>8, <3>2, <3>3
    <3>5. EntrySeen(o)' = batch'[i].time
      <4>1. (TypeOK /\ ExitThenEntry(batch, 1)
               => \A h : \A j \in EntriesLeft(h) : EntrySeen(h) = batch[j].time)'
        BY OneEntryLeft, PTL
      <4> QED
        BY <1>2, <1>5, <3>4, <4>1
    <3> QED
      BY <1>1, <2>2, <3>3, <3>5
  <2>10. CASE o \notin DOMAIN LiveMap
    <3>1. \A i : i \notin AtFrom(record_table, 1, "ENTRY")
      <4> SUFFICES ASSUME NEW i \in AtFrom(record_table, 1, "ENTRY") PROVE FALSE
        OBVIOUS
      <4>1. PICK h \in Region : IsOpen(h)
        BY <1>2 DEF EntriesTrue
      <4>2. h = current_hash /\ h \in DOMAIN LiveMap
        BY <4>1, OpenFacts
      <4> QED
        BY <2>7, <2>10, <4>2
    <3>2. EntriesLeft(o)' = {}
      BY <2>8, <3>1
    <3>3. EntrySeen(o)' = last_entry[o]
      BY <1>1, <3>2 DEF EntrySeen
    <3>4. EntrySeen(o) = app_enter_time
      BY <2>1, <2>2, <2>10 DEF EntryKnown
    <3> QED
      BY <1>1, <1>7, <2>2, <3>3, <3>4
  <2> QED
    BY <2>6, <2>9, <2>10
<1> QED
  BY <1>5, <1>9, <1>10

\* ProcessRegionAggregator::update() adds what the record is worth,
LEMMA AddsWorth ==
    ASSUME WholeInv, Aggregate, NEW h \in Region
    PROVE  /\ total_count'[h] = total_count[h]
                + Worth(h, batch[ctl_next], batch_regions, "num_complete", last_entry[h])
           /\ total_runtime'[h] = total_runtime[h]
                + Worth(h, batch[ctl_next], batch_regions, "total_time", last_entry[h])
<1> DEFINE r == batch[ctl_next]
<1>1. AggregateRecord(r)
  BY DEF Aggregate
<1>2. /\ total_count \in [Region -> Nat] /\ total_runtime \in [Region -> Int]
  BY DEF WholeInv, TypeOK, CtlTypeOK
<1> HIDE DEF r
<1> SUFFICES
      /\ total_count'[h] = total_count[h]
            + Worth(h, r, batch_regions, "num_complete", last_entry[h])
      /\ total_runtime'[h] = total_runtime[h]
            + Worth(h, r, batch_regions, "total_time", last_entry[h])
  BY DEF r
<1>3. total_count[h] \in Int /\ total_runtime[h] \in Int
  BY <1>2
<1>4. CASE r.event \in {"ENTRY", "EPOCH"} /\ UNCHANGED <<total_count, total_runtime>>
  BY <1>3, <1>4 DEF Worth
<1>5. CASE r.event = "EXIT" /\ Aggregated(r.hash, 1, r.time - last_entry[r.hash])
  <2>1. /\ total_count' = [total_count EXCEPT ![r.hash] = @ + 1]
        /\ total_runtime' = [total_runtime EXCEPT ![r.hash] = @ + (r.time - last_entry[r.hash])]
    BY <1>5 DEF Aggregated
  <2>2. CASE r.hash = h
    BY <1>2, <1>5, <2>1, <2>2 DEF Worth
  <2>3. CASE r.hash # h
    <3>1. total_count'[h] = total_count[h] /\ total_runtime'[h] = total_runtime[h]
      BY <1>2, <2>1, <2>3
    <3>2. \A field : Worth(h, r, batch_regions, field, last_entry[h]) = 0
      BY <1>5, <2>3 DEF Worth
    <3> QED
      BY <1>3, <3>1, <3>2
  <2> QED
    BY <2>2, <2>3
<1>6. CASE /\ r.event = "SHORT"
           /\ Aggregated(batch_regions[r.num + 1].hash, batch_regions[r.num + 1].num_complete,
                         batch_regions[r.num + 1].total_time)
  <2> DEFINE region == batch_regions[r.num + 1]
  <2>1. /\ total_count' = [total_count EXCEPT ![region.hash] = @ + region.num_complete]
        /\ total_runtime' = [total_runtime EXCEPT ![region.hash] = @ + region.total_time]
    BY <1>6 DEF Aggregated
  <2>2. \A field : Worth(h, r, batch_regions, field, last_entry[h])
                      = IF region.hash = h THEN region[field] ELSE 0
    BY <1>6 DEF Worth
  <2> HIDE DEF region
  <2>3. CASE region.hash = h
    <3>1. total_count'[h] = total_count[h] + region.num_complete
          /\ total_runtime'[h] = total_runtime[h] + region.total_time
      BY <1>2, <2>1, <2>3
    <3> QED
      BY <2>2, <2>3, <3>1
  <2>4. CASE region.hash # h
    <3>1. total_count'[h] = total_count[h] /\ total_runtime'[h] = total_runtime[h]
      BY <1>2, <2>1, <2>4
    <3> QED
      BY <1>3, <2>2, <2>4, <3>1
  <2> QED
    BY <2>3, <2>4
<1>7. CASE /\ r.event = "SHORT"
           /\ batch_regions[r.num + 1].hash \notin Region
           /\ UNCHANGED <<total_count, total_runtime>>
  <2>1. batch_regions[r.num + 1].hash # h
    BY <1>7
  <2>2. \A field : Worth(h, r, batch_regions, field, last_entry[h]) = 0
    BY <1>7, <2>1 DEF Worth
  <2> QED
    BY <1>3, <1>7, <2>2
<1> QED
  BY <1>1, <1>4, <1>5, <1>6, <1>7 DEF AggregateRecord

\* and an entry record becomes the last entry of its region.
LEMMA EntryMoves ==
    ASSUME WholeInv, Aggregate, NEW h \in Region
    PROVE  last_entry'[h] = IF batch[ctl_next].event = "ENTRY" /\ batch[ctl_next].hash = h
                              THEN batch[ctl_next].time ELSE last_entry[h]
<1> DEFINE r == batch[ctl_next]
<1>1. AggregateRecord(r)
  BY DEF Aggregate
<1>2. last_entry \in [Region -> Nat]
  BY DEF WholeInv, TypeOK, CtlTypeOK
<1> HIDE DEF r
<1>3. last_entry'[h] = IF r.event = "ENTRY" /\ r.hash = h THEN r.time ELSE last_entry[h]
  BY <1>1, <1>2 DEF AggregateRecord
<1> QED
  BY <1>3 DEF r

\* The controller will have seen the same entries as before,
LEMMA AggregateEntries ==
    ASSUME WholeInv, WholeInv', ExitThenEntry(batch, 1), Aggregate, NEW h \in Region
    PROVE  EntrySeen(h)' = EntrySeen(h)
<1> DEFINE n == ctl_next
<1>1. /\ FirstLeft = n /\ FirstLeft' = n + 1 /\ batch' = batch
      /\ n \in Nat \ {0} /\ n <= Len(batch) /\ batch \in Seq(Record)
  BY DEF Aggregate, Loop, Controller, FirstLeft, WholeInv, TypeOK, CtlTypeOK
<1> HIDE DEF n
<1>2. EntriesLeft(h)' = {i \in AtFrom(batch, n + 1, "ENTRY") : batch[i].hash = h}
  BY <1>1 DEF EntriesLeft
<1>3. EntriesLeft(h) = {i \in AtFrom(batch, n, "ENTRY") : batch[i].hash = h}
  BY <1>1 DEF EntriesLeft
<1>4. last_entry'[h] = IF batch[n].event = "ENTRY" /\ batch[n].hash = h
                         THEN batch[n].time ELSE last_entry[h]
  BY EntryMoves DEF n
<1>5. CASE batch[n].event = "ENTRY" /\ batch[n].hash = h
  <2>1. n \in EntriesLeft(h)
    BY <1>1, <1>3, <1>5 DEF AtFrom
  <2>2. EntriesLeft(h) = {n} /\ EntrySeen(h) = batch[n].time
    BY <2>1, OneEntry DEF WholeInv
  <2>3. \A i \in EntriesLeft(h)' : i \in EntriesLeft(h) /\ i # n
    BY <1>1, <1>2, <1>3 DEF AtFrom
  <2>4. EntriesLeft(h)' = {}
    BY <2>2, <2>3
  <2> QED
    BY <1>4, <1>5, <2>2, <2>4 DEF EntrySeen
<1>6. CASE ~(batch[n].event = "ENTRY" /\ batch[n].hash = h)
  <2>1. EntriesLeft(h)' = EntriesLeft(h)
    BY <1>1, <1>2, <1>3, <1>6 DEF AtFrom
  <2> QED
    BY <1>1, <1>4, <1>6, <2>1 DEF EntrySeen
<1> QED
  BY <1>5, <1>6

\* and the rest of the batch is worth what it was: no exit follows an entry.
LEMMA AggregateWorth ==
    ASSUME WholeInv, WholeInv', ExitThenEntry(batch, 1), Aggregate, NEW h \in Region,
           NEW field \in Field
    PROVE  InBatch(h, field)
              = Worth(h, batch[ctl_next], batch_regions, field, last_entry[h])
                  + InBatch(h, field)'
<1> DEFINE n == ctl_next
           L == Len(batch)
           f == Tally(h, batch, batch_regions, field, last_entry[h])
           g == Tally(h, batch, batch_regions, field, last_entry'[h])
<1>1. /\ FirstLeft = n /\ FirstLeft' = n + 1
      /\ batch' = batch /\ batch_regions' = batch_regions
      /\ n \in Nat \ {0} /\ n <= L /\ L \in Nat
  BY DEF Aggregate, Loop, Controller, FirstLeft, WholeInv, TypeOK, CtlTypeOK
<1>2. /\ batch \in Seq(Record) /\ batch_regions \in Seq(ShortRegion)
      /\ ShortRegionsMatch(batch, batch_regions) /\ last_entry[h] \in Int
  BY DEF WholeInv, TypeOK, CtlTypeOK, LogInv
<1>3. \A i \in 1 .. L : f[i] \in Int
  BY <1>2, TallyType
<1>4. \A i \in 1 .. L : /\ f[i] = Worth(h, batch[i], batch_regions, field, last_entry[h])
                        /\ g[i] = Worth(h, batch[i], batch_regions, field, last_entry'[h])
  BY DEF Tally
<1>5. InBatch(h, field) = SumOver(f, n .. L)
  BY <1>1 DEF InBatch
<1>6. InBatch(h, field)' = SumOver(g, n + 1 .. L)
  BY <1>1 DEF InBatch
<1> HIDE DEF f, g, L
<1>7. n \in 1 .. L /\ \A i \in n .. L : i \in 1 .. L
  BY <1>1
<1>8. SumOver(f, n .. L) = f[n] + SumOver(f, n + 1 .. L)
  BY <1>1, <1>3, <1>7, SumFirst
<1>9. \A i \in n + 1 .. L : f[i] = g[i]
  <2>1. CASE last_entry'[h] = last_entry[h]
    BY <1>1, <1>4, <2>1
  <2>2. CASE last_entry'[h] # last_entry[h]
    <3>1. batch[n].event = "ENTRY"
      BY <2>2, EntryMoves
    <3>2. n \in AtFrom(batch, 1, "ENTRY")
      BY <1>7, <3>1 DEF AtFrom, L
    <3>3. \A i \in n + 1 .. L : batch[i].event # "EXIT"
      <4> SUFFICES ASSUME NEW i \in n + 1 .. L, batch[i].event = "EXIT" PROVE FALSE
        OBVIOUS
      <4>1. i \in AtFrom(batch, 1, "EXIT")
        BY <1>1 DEF AtFrom, L
      <4>2. i < n
        BY <3>2, <4>1 DEF ExitThenEntry
      <4> QED
        BY <1>1, <4>2
    <3>4. \A i \in n + 1 .. L : Worth(h, batch[i], batch_regions, field, last_entry[h])
                                  = Worth(h, batch[i], batch_regions, field, last_entry'[h])
      BY <3>3 DEF Worth
    <3> QED
      BY <1>1, <1>4, <3>4
  <2> QED
    BY <2>1, <2>2
<1>10. IsFiniteSet(n + 1 .. L)
  BY <1>1, FS_Interval
<1>11. SumOver(f, n + 1 .. L) = SumOver(g, n + 1 .. L)
  BY <1>9, <1>10, SumSame
<1> QED
  BY <1>4, <1>5, <1>6, <1>7, <1>8, <1>11

\* The same, to be read after a step.
LEMMA NothingLeftAfter ==
    TypeOK /\ FirstLeft > Len(batch)
       => /\ \A h : EntrySeen(h) = last_entry[h]
          /\ \A h, field : InBatch(h, field) = 0
  BY NothingLeft

\* All the steps of the controller.
LEMMA CtlLedger ==
    ASSUME WholeInv, WholeInv', Good, InStep, ctl_pc' # "failed",
           ExitThenEntry(batch, 1), EntryKnown, \A h \in Region : AddsUp(h), Ctl
    PROVE  /\ ExitThenEntry(batch', 1)
           /\ EntryKnown'
           /\ \A h \in Region : AddsUp(h)'
<1>1. CASE Dump
  BY <1>1, DumpLedger
<1>2. CASE CheckThrows
  BY <1>2 DEF CheckThrows
<1>3. ASSUME UNCHANGED <<app_stack, app_enter_time, done, spent, enter_map, entered_hash,
                         tableVars, batch, total_count, total_runtime>>,
             \A h : EntrySeen(h)' = EntrySeen(h),
             \A h, field : InBatch(h, field)' = InBatch(h, field)
      PROVE  /\ ExitThenEntry(batch', 1)
             /\ EntryKnown'
             /\ \A h \in Region : AddsUp(h)'
  <2>1. ExitThenEntry(batch', 1)
    BY <1>3
  <2>2. EntryKnown'
    BY <1>3, StillKnown DEF tableVars
  <2>3. \A h \in Region : AddsUp(h)'
    BY <1>3, NothingMoves DEF tableVars
  <2> QED
    BY <2>1, <2>2, <2>3
<1>4. CASE Check \/ CheckDone
  <2>1. /\ UNCHANGED <<app_stack, app_enter_time, done, spent, enter_map, entered_hash,
                       tableVars, batch, batch_regions, total_count, total_runtime, last_entry>>
        /\ FirstLeft = 1 /\ FirstLeft' = 1
    BY <1>4 DEF Check, CheckDone, Loop, LoopEnd, Controller, FirstLeft, appVars, logVars
  <2>2. \A h : EntriesLeft(h)' = EntriesLeft(h)
    BY <2>1 DEF EntriesLeft
  <2>3. \A h : EntrySeen(h)' = EntrySeen(h)
    BY <2>1, <2>2 DEF EntrySeen
  <2>4. \A h, field : InBatch(h, field)' = InBatch(h, field)
    BY <2>1 DEF InBatch
  <2> QED
    BY <1>3, <2>1, <2>3, <2>4
<1>5. CASE AggregateDone
  <2>1. /\ UNCHANGED <<app_stack, app_enter_time, done, spent, enter_map, entered_hash,
                       tableVars, batch, batch_regions, total_count, total_runtime, last_entry>>
        /\ ctl_pc = "aggregate" /\ ctl_pc' = "idle" /\ ctl_next > Len(batch)
    BY <1>5 DEF AggregateDone, LoopEnd, Controller, appVars, logVars
  <2>2. FirstLeft > Len(batch) /\ FirstLeft' > Len(batch')
    BY <2>1 DEF FirstLeft, WholeInv, TypeOK, CtlTypeOK
  <2>3. /\ \A h : EntrySeen(h) = last_entry[h]
        /\ \A h, field : InBatch(h, field) = 0
    BY <2>2, NothingLeft DEF WholeInv
  <2>4. (TypeOK /\ FirstLeft > Len(batch)
           => /\ \A h : EntrySeen(h) = last_entry[h]
              /\ \A h, field : InBatch(h, field) = 0)'
    BY NothingLeftAfter, PTL
  <2>5. /\ \A h : EntrySeen(h)' = last_entry'[h]
        /\ \A h, field : InBatch(h, field)' = 0
    BY <2>2, <2>4 DEF WholeInv
  <2> QED
    BY <1>3, <2>1, <2>3, <2>5
<1>6. CASE Aggregate
  <2>1. UNCHANGED <<app_stack, app_enter_time, done, spent, enter_map, entered_hash,
                    record_table, region_table, batch>>
    BY <1>6 DEF Aggregate, Loop, Controller, appVars, logVars, tableVars
  <2>2. \A h \in Region : EntrySeen(h)' = EntrySeen(h)
    BY <1>6, AggregateEntries
  <2>3. ASSUME NEW h \in Region PROVE AddsUp(h)'
    <3>1. PICK c : c = Worth(h, batch[ctl_next], batch_regions, "num_complete", last_entry[h])
      OBVIOUS
    <3>2. PICK t : t = Worth(h, batch[ctl_next], batch_regions, "total_time", last_entry[h])
      OBVIOUS
    <3>3. total_count'[h] = total_count[h] + c /\ total_runtime'[h] = total_runtime[h] + t
      BY <1>6, <3>1, <3>2, AddsWorth
    <3>4. InBatch(h, "num_complete") = c + InBatch(h, "num_complete")'
      BY <1>6, <3>1, AggregateWorth DEF Field
    <3>5. InBatch(h, "total_time") = t + InBatch(h, "total_time")'
      BY <1>6, <3>2, AggregateWorth DEF Field
    <3>6. c \in Int /\ t \in Int
      <4>1. /\ batch \in Seq(Record) /\ batch_regions \in Seq(ShortRegion)
            /\ ctl_next \in 1 .. Len(batch) /\ last_entry[h] \in Int
            /\ ShortRegionsMatch(batch, batch_regions)
        BY <1>6 DEF WholeInv, TypeOK, CtlTypeOK, LogInv, Aggregate, Loop
      <4>2. batch[ctl_next] \in Record
        BY <4>1
      <4>3. batch[ctl_next].event = "SHORT" => batch[ctl_next].num < Len(batch_regions)
        BY <4>1 DEF ShortRegionsMatch, ShortIndices
      <4>4. "num_complete" \in Field /\ "total_time" \in Field
        BY DEF Field
      <4> QED
        BY <3>1, <3>2, <4>1, <4>2, <4>3, <4>4, WorthType
    <3> QED
      BY <2>1, <2>2, <3>3, <3>4, <3>5, <3>6, BatchMoves
  <2>4. EntryKnown'
    <3>1. LiveMap' = LiveMap /\ Outermost' = Outermost
      BY <2>1 DEF LiveMap, num_record, Outermost
    <3>2. app_stack # <<>> => Outermost \in Region
      BY DEF Outermost, WholeInv, TypeOK, AppTypeOK
    <3> QED
      BY <2>1, <2>2, <3>1, <3>2 DEF EntryKnown
  <2> QED
    BY <2>1, <2>3, <2>4
<1> QED
  BY <1>1, <1>2, <1>4, <1>5, <1>6 DEF Ctl

-----------------------------------------------------------------------------
(* The invariant is one.                                                   *)

\* Every step preserves it.
LEMMA LedgerInvStep == IInv /\ ReplayInv /\ LedgerInv /\ [Next]_vars => LedgerInv'
<1> SUFFICES ASSUME IInv, ReplayInv, LedgerInv, [Next]_vars, Sound'
             PROVE  LedgerInv'
  BY DEF LedgerInv
<1>1. Sound
  BY SoundBefore
<1>2. SameRegion /\ EntriesTrue /\ InStep
  BY <1>1 DEF ReplayInv
<1>3. Good /\ WholeInv
  BY <1>1, <1>2, SoundIsWhole DEF Good, WholeInv
<1>4. IInv' /\ ReplayInv' /\ WholeInv'
  BY IInvStep, ReplayInvStep, SoundIsWholeNext
<1>5. ctl_pc' # "failed"
  BY <1>4 DEF ReplayInv
<1>6. ExitThenEntry(batch, 1) /\ EntryKnown /\ \A h \in Region : AddsUp(h)
  BY <1>1 DEF LedgerInv
<1> SUFFICES ExitThenEntry(batch', 1) /\ EntryKnown' /\ \A h \in Region : AddsUp(h)'
  BY DEF LedgerInv
<1>7. CASE App
  <2>1. batch' = batch
    BY <1>7, AppFrame DEF ctlVars
  <2> QED
    BY <1>3, <1>4, <1>6, <1>7, <2>1, AppLedger
<1>8. CASE Tick \/ UNCHANGED vars
  <2>1. UNCHANGED <<appVars, logVars, tableVars, ctlVars>>
    BY <1>8 DEF Tick, vars
  <2>2. /\ UNCHANGED <<app_stack, app_enter_time, done, spent, enter_map, entered_hash,
                       record_table, region_table, batch, total_count, total_runtime>>
    BY <2>1 DEF appVars, logVars, tableVars, ctlVars
  <2>3. /\ \A h : EntrySeen(h)' = EntrySeen(h)
        /\ \A h, field : InBatch(h, field)' = InBatch(h, field)
    BY <2>1, SameBatch
  <2>4. EntryKnown'
    BY <1>6, <2>2, <2>3, StillKnown
  <2>5. \A h \in Region : AddsUp(h)'
    BY <1>3, <1>4, <1>6, <2>2, <2>3, NothingMoves
  <2> QED
    BY <1>6, <2>2, <2>4, <2>5
<1>9. CASE Ctl
  BY <1>2, <1>3, <1>4, <1>5, <1>6, <1>9, CtlLedger
<1> QED
  BY <1>7, <1>8, <1>9 DEF Next

\* It holds at first.
LEMMA InitLedgerInv == Init => LedgerInv
<1> SUFFICES ASSUME Init PROVE LedgerInv
  OBVIOUS
<1>1. /\ record_table = <<>> /\ batch = <<>> /\ app_stack = <<>> /\ ctl_pc = "idle"
      /\ \A h \in Region : done[h] = 0 /\ spent[h] = 0 /\ total_count[h] = 0 /\ total_runtime[h] = 0
  BY DEF Init
<1>2. ExitThenEntry(batch, 1)
  BY <1>1 DEF ExitThenEntry, AtFrom
<1>3. EntryKnown
  BY <1>1 DEF EntryKnown
<1>4. TypeOK
  BY InitTypeOK
<1>5. FirstLeft > Len(batch)
  BY <1>1 DEF FirstLeft
<1>6. \A h, field : InBatch(h, field) = 0
  BY <1>4, <1>5, NothingLeft
<1>7. ASSUME NEW h, NEW field PROVE InLog(h, field) = 0
  <2>1. 1 .. Len(record_table) = {}
    BY <1>1
  <2> QED
    BY <2>1, SumEmpty DEF InLog, Total
<1>8. \A h \in Region : AddsUp(h)
  BY <1>1, <1>6, <1>7 DEF AddsUp
<1> QED
  BY <1>2, <1>3, <1>8 DEF LedgerInv

\* So it always holds.
LEMMA LedgerInvariance == Spec => [](IInv /\ ReplayInv /\ LedgerInv)
<1>1. Init => IInv /\ ReplayInv /\ LedgerInv
  BY InitIInv, InitReplayInv, InitLedgerInv
<1>2. IInv /\ ReplayInv /\ LedgerInv /\ [Next]_vars => (IInv /\ ReplayInv /\ LedgerInv)'
  BY IInvStep, ReplayInvStep, LedgerInvStep
<1> QED
  BY <1>1, <1>2, PTL DEF Spec

-----------------------------------------------------------------------------
(* What the runs check, for every value of the constants.                  *)

\* The completions of the records not yet added, as the run counts them.
LEMMA PendingCompletions ==
    ASSUME WholeInv, NEW h \in Region
    PROVE  /\ Unaggregated(h) = InBatch(h, "num_complete")
           /\ CompletionsOf(h, record_table, region_table, 1) = InLog(h, "num_complete")
<1>1. /\ record_table \in Seq(Record) /\ region_table \in Seq(ShortRegion)
      /\ batch \in Seq(Record) /\ batch_regions \in Seq(ShortRegion)
      /\ ShortRegionsMatch(record_table, region_table)
      /\ ShortRegionsMatch(batch, batch_regions)
      /\ FirstLeft \in Nat \ {0} /\ ctl_next \in Nat \ {0} /\ 1 \in Nat \ {0}
  BY DEF WholeInv, TypeOK, TableTypeOK, CtlTypeOK, LogInv, FirstLeft
<1>2. EntrySeen(h) \in Int /\ last_entry[h] \in Int
  BY NumbersType DEF AllNumbers, Numbers
<1>3. CompletionsOf(h, record_table, region_table, 1) = InLog(h, "num_complete")
  <2> DEFINE entry == EntrySeen(h)
             sum == SumOver(Tally(h, record_table, region_table, "num_complete", entry),
                            1 .. Len(record_table))
  <2>1. /\ h \in Region /\ record_table \in Seq(Record) /\ region_table \in Seq(ShortRegion)
        /\ entry \in Int /\ 1 \in Nat \ {0} /\ ShortRegionsMatch(record_table, region_table)
    BY <1>1, <1>2
  <2> HIDE DEF entry
  <2>2. CompletionsOf(h, record_table, region_table, 1) = sum
    BY ONLY <2>1, CompletionsAreWorth
  <2> USE DEF entry
  <2> HIDE DEF sum
  <2>3. sum = InLog(h, "num_complete")
    BY ONLY DEF sum, entry, InLog, Total
  <2> QED
    BY ONLY <2>2, <2>3
<1>4. CompletionsOf(h, batch, batch_regions, FirstLeft) = InBatch(h, "num_complete")
  <2> DEFINE entry == last_entry[h]
             sum == SumOver(Tally(h, batch, batch_regions, "num_complete", entry),
                            FirstLeft .. Len(batch))
  <2>1. /\ h \in Region /\ batch \in Seq(Record) /\ batch_regions \in Seq(ShortRegion)
        /\ entry \in Int /\ FirstLeft \in Nat \ {0} /\ ShortRegionsMatch(batch, batch_regions)
    BY <1>1, <1>2
  <2> HIDE DEF entry
  <2>2. CompletionsOf(h, batch, batch_regions, FirstLeft) = sum
    BY ONLY <2>1, CompletionsAreWorth
  <2> USE DEF entry
  <2> HIDE DEF sum
  <2>3. sum = InBatch(h, "num_complete")
    BY ONLY DEF sum, entry, InBatch
  <2> QED
    BY ONLY <2>2, <2>3
<1>5. CASE ctl_pc = "check" \/ ctl_pc = "aggregate"
  BY <1>3, <1>4, <1>5 DEF Unaggregated, FirstLeft
<1>6. CASE ctl_pc # "check" /\ ctl_pc # "aggregate"
  <2>1. Unaggregated(h) = 0
    BY <1>6 DEF Unaggregated
  <2>2. FirstLeft > Len(batch)
    BY <1>1, <1>6 DEF FirstLeft
  <2>3. InBatch(h, "num_complete") = 0
    BY <2>2, NothingLeft DEF WholeInv
  <2> QED
    BY <1>3, <2>1, <2>3
<1> QED
  BY <1>5, <1>6

\* Every completed traversal of a region is counted exactly once, whatever mix
\* of exit records and short regions of ApplicationRecordLog::exit() reports it
\* and between whichever of its calls dump() comes: it is in the controller's
\* total, in the batch it processes or in the log.
THEOREM CompletionsCountedOnce == Spec => []CompletionsConserved
<1>1. IInv /\ ReplayInv /\ LedgerInv => CompletionsConserved
  <2> SUFFICES ASSUME IInv, LedgerInv, Sound, NEW h \in Region
               PROVE  done[h] = total_count[h] + Unaggregated(h)
                                  + CompletionsOf(h, record_table, region_table, 1)
    BY DEF CompletionsConserved
  <2>1. AddsUp(h)
    BY DEF LedgerInv
  <2> QED
    BY <2>1, SoundIsWhole, PendingCompletions DEF AddsUp
<1> QED
  BY <1>1, LedgerInvariance, PTL

\* When the controller has caught up, the run time ProcessRegionAggregator has
\* added up for a region is the time the application spent in it: an exit record
\* is matched with the entry of an earlier dump, a short region carries its own.
THEOREM RunTimeIsTimeSpent == Spec => []RuntimeConserved
<1>1. IInv /\ ReplayInv /\ LedgerInv => RuntimeConserved
  <2> SUFFICES ASSUME IInv, LedgerInv, Sound, record_table = <<>>, ctl_pc = "idle"
               PROVE  total_runtime = spent
    BY DEF RuntimeConserved
  <2>1. FirstLeft > Len(batch)
    BY DEF FirstLeft, IInv, TypeOK, CtlTypeOK
  <2>2. \A h : InBatch(h, "total_time") = 0
    BY <2>1, NothingLeft DEF IInv
  <2>3. 1 .. Len(record_table) = {}
    OBVIOUS
  <2>4. \A h : InLog(h, "total_time") = 0
    BY <2>3, SumEmpty DEF InLog, Total
  <2>5. total_runtime \in [Region -> Int] /\ spent \in [Region -> Int]
    BY DEF IInv, TypeOK, AppTypeOK, CtlTypeOK
  <2>6. ASSUME NEW h \in Region PROVE spent[h] = total_runtime[h]
    <3>1. spent[h] = total_runtime[h] + InBatch(h, "total_time") + InLog(h, "total_time")
      BY DEF LedgerInv, AddsUp
    <3> QED
      BY <2>2, <2>4, <2>5, <3>1
  <2> QED
    BY <2>5, <2>6
<1> QED
  BY <1>1, LedgerInvariance, PTL

-----------------------------------------------------------------------------
(* RecordLog implements RegionLedger.                                      *)

\* What is still to be added is not less than nothing.
LEMMA PendingNotNegative ==
    ASSUME NEW h, NEW recs \in Seq(Record), NEW regs \in Seq(ShortRegion), NEW entry \in Int,
           NEW from \in Nat \ {0}, ShortRegionsMatch(recs, regs)
    PROVE  SumOver(Tally(h, recs, regs, "num_complete", entry), from .. Len(recs)) >= 0
<1> DEFINE S == from .. Len(recs)
           f == Tally(h, recs, regs, "num_complete", entry)
           z == [i \in S |-> 0]
<1>1. IsFiniteSet(S) /\ \A i \in S : i \in 1 .. Len(recs)
  BY FS_Interval
<1>2. \A i \in S : f[i] \in Int
  BY <1>1, TallyType DEF Field
<1>3. ASSUME NEW i \in S PROVE 0 <= f[i]
  <2>1. f[i] = Worth(h, recs[i], regs, "num_complete", entry)
    BY <1>1 DEF Tally
  <2>2. recs[i].event = "SHORT" => regs[recs[i].num + 1] \in ShortRegion
    BY <1>1, ShortNames
  <2>3. recs[i].event = "SHORT" => regs[recs[i].num + 1].num_complete >= 0
    BY <2>2 DEF ShortRegion
  <2> QED
    BY <2>1, <2>3 DEF Worth
<1>4. \A i \in S : z[i] = 0
  OBVIOUS
<1> HIDE DEF f, z, S
<1>5. SumOver(z, S) = Cardinality(S) * 0
  BY <1>1, <1>4, SumConstant
<1>6. Cardinality(S) \in Nat
  BY <1>1, FS_CardinalityType
<1>7. SumOver(z, S) = 0
  BY <1>5, <1>6
<1>8. SumOver(z, S) <= SumOver(f, S)
  BY <1>1, <1>2, <1>3, <1>4, SumMonotone
<1>9. SumOver(f, S) \in Int
  BY <1>1, <1>2, SumInt
<1> QED
  BY <1>7, <1>8, <1>9 DEF f, S

\* The controller never counts more than was completed.
LEMMA NeverOvercounts ==
    IInv /\ LedgerInv /\ Sound => \A h \in Region : total_count[h] <= done[h]
<1> SUFFICES ASSUME IInv, LedgerInv, Sound, NEW h \in Region PROVE total_count[h] <= done[h]
  OBVIOUS
<1>1. /\ record_table \in Seq(Record) /\ region_table \in Seq(ShortRegion)
      /\ batch \in Seq(Record) /\ batch_regions \in Seq(ShortRegion)
      /\ ShortRegionsMatch(record_table, region_table)
      /\ ShortRegionsMatch(batch, batch_regions)
      /\ FirstLeft \in Nat \ {0} /\ 1 \in Nat \ {0}
  BY SoundIsWhole DEF WholeInv, LogInv, TypeOK, TableTypeOK, CtlTypeOK, FirstLeft
<1>2. Numbers(h)
  BY SoundIsWhole, NumbersType DEF AllNumbers
<1>3. EntrySeen(h) \in Int /\ last_entry[h] \in Int
  BY <1>2 DEF Numbers
<1>4. InBatch(h, "num_complete") >= 0 /\ InLog(h, "num_complete") >= 0
  BY <1>1, <1>3, PendingNotNegative DEF InBatch, InLog, Total
<1>5. done[h] = total_count[h] + InBatch(h, "num_complete") + InLog(h, "num_complete")
  BY DEF LedgerInv, AddsUp
<1>6. /\ InBatch(h, "num_complete") \in Int /\ InLog(h, "num_complete") \in Int
      /\ total_count[h] \in Int /\ done[h] \in Int
  BY <1>2 DEF Numbers, Field
<1> QED
  BY <1>4, <1>5, <1>6

\* A call of a sound log completes one region, or none.
LEMMA AppCompletes ==
    ASSUME WholeInv, SameRegion, App, Sound, Sound'
    PROVE  UNCHANGED <<done, total_count>> \/ \E h \in Region : Ledger!Complete(h)
<1>1. TypeOK /\ total_count' = total_count
  BY AppFrame DEF WholeInv, ctlVars
<1>2. ASSUME NEW h \in Region, OutermostEnter(h)
      PROVE  done' = done
  BY <1>1, <1>2, EnterOuterStack
<1>3. ASSUME NEW h \in Region, OutermostExit(h)
      PROVE  Ledger!Complete(h)
  BY <1>1, <1>3, ExitOuterStack DEF Ledger!Complete
<1>4. ASSUME NEW h \in Region, EnterNested(h) \/ ExitNested(h)
      PROVE  done' = done
  BY <1>1, <1>4, NestedStack
<1>5. ASSUME Epoch PROVE done' = done
  BY <1>5 DEF Epoch, EpochCall
<1> QED
  BY <1>1, <1>2, <1>3, <1>4, <1>5, SoundApp
     DEF EnterAgain, EnterNew, ExitLong, ExitFirstShort, ExitStillShort, ExitShortAgain

\* The controller reports completions of one region, or none.
LEMMA CtlReports ==
    ASSUME WholeInv, Ctl, Sound, Sound', \A h \in Region : total_count'[h] <= done[h]
    PROVE  UNCHANGED <<done, total_count>> \/ \E h \in Region : Ledger!Report(h)
<1>1. done' = done
  BY CtlFrame DEF appVars
<1>2. total_count \in [Region -> Nat] /\ done \in [Region -> Nat]
  BY DEF WholeInv, TypeOK, AppTypeOK, CtlTypeOK
<1>3. ASSUME NEW h, NEW n \in Nat, NEW t, Aggregated(h, n, t)
      PROVE  UNCHANGED total_count \/ \E g \in Region : Ledger!Report(g)
  <2>1. total_count' = [total_count EXCEPT ![h] = @ + n]
    BY <1>3 DEF Aggregated
  <2>2. CASE h \notin Region \/ n = 0
    BY <1>2, <2>1, <2>2
  <2>3. CASE h \in Region /\ n # 0
    <3>1. total_count'[h] = total_count[h] + n /\ total_count[h] \in Nat /\ done[h] \in Nat
      BY <1>2, <2>1, <2>3
    <3>2. total_count'[h] \in total_count[h] + 1 .. done[h]
      BY <1>3, <2>3, <3>1
    <3>3. total_count' = [total_count EXCEPT ![h] = total_count'[h]]
      BY <1>2, <2>1, <2>3
    <3>4. Ledger!Report(h)
      BY <1>1, <3>2, <3>3 DEF Ledger!Report
    <3> QED
      BY <2>3, <3>4
  <2> QED
    BY <2>2, <2>3
<1>4. CASE Aggregate
  <2>1. AggregateRecord(batch[ctl_next])
    BY <1>4 DEF Aggregate
  <2>2. UNCHANGED total_count \/ \E h, t : \E n \in Nat : Aggregated(h, n, t)
    <3>1. ASSUME NEW k \in 1 .. Len(batch_regions)
          PROVE  batch_regions[k].num_complete \in Nat
      <4>1. batch_regions[k] \in ShortRegion
        BY DEF WholeInv, TypeOK, CtlTypeOK
      <4> QED
        BY <4>1 DEF ShortRegion
    <3>2. batch \in Seq(Record) /\ ctl_next \in 1 .. Len(batch) /\ Len(batch_regions) \in Nat
      BY <1>4 DEF WholeInv, TypeOK, CtlTypeOK, Aggregate, Loop
    <3>3. batch[ctl_next].num \in Nat
      <4>1. batch[ctl_next] \in Record
        BY <3>2
      <4> QED
        BY <4>1 DEF Record
    <3>4. batch[ctl_next].num < Len(batch_regions)
             => batch_regions[batch[ctl_next].num + 1].num_complete \in Nat
      BY <3>1, <3>2, <3>3
    <3> QED
      BY <2>1, <3>4 DEF AggregateRecord
  <2> QED
    BY <1>1, <1>3, <2>2
<1>5. CASE ~Aggregate
  BY <1>1, <1>5
     DEF Ctl, Dump, Check, CheckThrows, CheckDone, AggregateDone, LoopEnd
<1> QED
  BY <1>4, <1>5

\* The log and the controller make only the steps of RegionLedger: a region's
\* completions are counted one by one where they happen, reported to the
\* controller in any portions, and never invented, until the log overflows.
THEOREM LogKeepsLedger == Spec => Ledger!Init /\ [][Ledger!Next]_(Ledger!vars)
<1>1. Init => Ledger!Init
  BY DEF Init, Ledger!Init, Sound
<1>2. IInv /\ ReplayInv /\ LedgerInv /\ (IInv /\ LedgerInv)' /\ [Next]_vars
        => [Ledger!Next]_(Ledger!vars)
  <2> SUFFICES ASSUME IInv, ReplayInv, LedgerInv, IInv', LedgerInv', [Next]_vars
               PROVE  Ledger!Next \/ UNCHANGED Ledger!vars
    OBVIOUS
  <2>1. CASE ~Sound
    <3>1. ~Sound'
      BY <2>1, SoundBefore
    <3> QED
      BY <2>1, <3>1 DEF Ledger!Next, Ledger!Lost
  <2>2. CASE Sound /\ ~Sound'
    BY <2>2 DEF Ledger!Next, Ledger!Lose
  <2>3. CASE Sound /\ Sound'
    <3>1. UNCHANGED <<done, total_count>>
            \/ \E h \in Region : Ledger!Complete(h) \/ Ledger!Report(h)
      <4>1. CASE App
        BY <2>3, <4>1, SoundIsWhole, AppCompletes DEF ReplayInv
      <4>2. CASE Tick \/ UNCHANGED vars
        BY <4>2 DEF Tick, vars, appVars, ctlVars
      <4>3. CASE Ctl
        <5>1. (IInv /\ LedgerInv /\ Sound => \A h \in Region : total_count[h] <= done[h])'
          BY NeverOvercounts, PTL
        <5>2. done' = done
          BY <4>3, CtlFrame DEF appVars
        <5>3. \A h \in Region : total_count'[h] <= done[h]
          BY <2>3, <5>1, <5>2
        <5> QED
          BY <2>3, <4>3, <5>3, SoundIsWhole, CtlReports
      <4> QED
        BY <4>1, <4>2, <4>3 DEF Next
    <3> QED
      BY <2>3, <3>1 DEF Ledger!Next, Ledger!vars
  <2> QED
    BY <2>1, <2>2, <2>3
<1> QED
  BY <1>1, <1>2, LedgerInvariance, PTL DEF Spec
==============================================================================
