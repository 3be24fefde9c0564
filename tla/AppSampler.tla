------------------------------- MODULE AppSampler -------------------------------
(***************************************************************************)
(* What the controller makes of the record logs of several processes:      *)
(* ApplicationSampler::update() with ProxyEpochRecordFilter.cpp and        *)
(* ValidateRecord.cpp, and the two that read its buffers in every loop,    *)
(* ProcessRegionAggregator.cpp and EpochIOGroup.cpp.                       *)
(*                                                                         *)
(* A log is what RecordLog shows it to be, without its limits and times:   *)
(* the records since the last dump, in which a region that was entered and *)
(* left between two dumps is one short record, its signal the index of the *)
(* region in the table of short regions.                                   *)
(***************************************************************************)
EXTENDS Integers, SequencesExt

CONSTANTS
    NumProcess,  \* processes on the node, in the order of their ids
    Region,      \* region hashes
    Proxy,       \* m_proxy_hash
    Filters,     \* record filters to choose from
    MaxCall      \* bound on the calls of a process

Process == 1 .. NumProcess
NoRegion == "none"
NoFilter == [calls |-> 0, startup |-> 0]

ASSUME SamplerAssumption ==
    /\ NumProcess \in Nat /\ MaxCall \in Nat
    /\ Proxy \in Region /\ NoRegion \notin Region
    /\ \A f \in Filters \ {NoFilter} : f.calls \in Nat \ {0} /\ f.startup \in Nat

VARIABLES
    \* a process and its record log
    current,         \* the outermost region it is in
    carried,         \* that region was short in an earlier window
    records,         \* record_table
    short_regions,   \* region_table
    epoch_count,     \* m_epoch_count
    calls,           \* bounds the run
    \* the controller
    filter,          \* the record filter in use
    m_count,         \* ProxyEpochRecordFilter, one for a process
    valid,           \* ValidateRecord, one for a process
    total_count,     \* ProcessRegionAggregator::m_region_info
    per_cpu_count,   \* EpochIOGroup::m_per_cpu_count, of the CPUs of a process
    failed,          \* it ended with an exception
    \* history
    done,            \* how often a process has left a region
    entered          \* how often it has entered one

log == <<current, carried, records, short_regions, epoch_count, calls>>
vars == <<log, filter, m_count, valid, total_count, per_cpu_count, failed, done, entered>>

NoRecords == [p \in Process |-> <<>>]
ZeroCounts == [p \in Process |-> [h \in Region |-> 0]]

Init ==
    /\ current = [p \in Process |-> NoRegion]
    /\ carried = [p \in Process |-> FALSE]
    /\ records = NoRecords /\ short_regions = NoRecords
    /\ epoch_count = [p \in Process |-> 0] /\ calls = [p \in Process |-> 0]
    /\ filter \in Filters
    /\ m_count = [p \in Process |-> -filter.startup]
    /\ valid = [p \in Process |-> [hash |-> NoRegion, epoch |-> 0, ok |-> TRUE]]
    /\ total_count = ZeroCounts
    /\ per_cpu_count = [p \in Process |-> 0]
    /\ failed = FALSE
    /\ done = ZeroCounts /\ entered = ZeroCounts

-----------------------------------------------------------------------------
(* A process.                                                               *)

Record(event, signal) == [event |-> event, signal |-> signal]

\* Whether h is in m_hash_region_enter_map, but for a carried region: it was
\* entered in this window.
IsEntry(p, i, h) == records[p][i] = Record("entry", h)
IsShort(p, i, h) ==
    records[p][i].event = "short" /\ short_regions[p][records[p][i].signal].hash = h
EnteredHere(p, h) == \E i \in DOMAIN records[p] : IsEntry(p, i, h) \/ IsShort(p, i, h)

Call(p) ==
    /\ calls[p] < MaxCall /\ calls' = [calls EXCEPT ![p] = @ + 1]
    /\ UNCHANGED <<filter, m_count, valid, total_count, per_cpu_count, failed>>

Enter(p, h) ==
    /\ Call(p) /\ current[p] = NoRegion
    /\ current' = [current EXCEPT ![p] = h]
    /\ records' = IF EnteredHere(p, h) THEN records
                  ELSE [records EXCEPT ![p] = Append(@, Record("entry", h))]
    /\ entered' = [entered EXCEPT ![p][h] = @ + 1]
    /\ UNCHANGED <<carried, short_regions, epoch_count, done>>

\* Leaving a region: entered before this window, or within it for the first
\* time, or again.
Leave(p, h) ==
    /\ Call(p) /\ current[p] = h
    /\ current' = [current EXCEPT ![p] = NoRegion]
    /\ carried' = [carried EXCEPT ![p] = FALSE]
    /\ done' = [done EXCEPT ![p][h] = @ + 1]
    /\ UNCHANGED <<epoch_count, entered>>

NewShort(p, h) ==
    short_regions' = [short_regions EXCEPT ![p] = Append(@, [hash |-> h, num_complete |-> 1])]

ExitLong(p, h) ==
    /\ ~EnteredHere(p, h) /\ ~carried[p] /\ Leave(p, h)
    /\ records' = [records EXCEPT ![p] = Append(@, Record("exit", h))]
    /\ UNCHANGED short_regions

ExitCarried(p, h) ==
    /\ ~EnteredHere(p, h) /\ carried[p] /\ Leave(p, h)
    /\ records' = [records EXCEPT ![p] = Append(@, Record("short", Len(short_regions[p]) + 1))]
    /\ NewShort(p, h)

ExitFirst(p, h) ==
    /\ Leave(p, h)
    /\ \E i \in DOMAIN records[p] :
         /\ IsEntry(p, i, h)
         /\ records' = [records EXCEPT ![p][i] = Record("short", Len(short_regions[p]) + 1)]
    /\ NewShort(p, h)

ExitAgain(p, h) ==
    /\ Leave(p, h)
    /\ \E i \in DOMAIN records[p] :
         /\ IsShort(p, i, h)
         /\ short_regions' = [short_regions EXCEPT
                                ![p][records[p][i].signal].num_complete = @ + 1]
    /\ UNCHANGED records

Epoch(p) ==
    /\ Call(p)
    /\ epoch_count' = [epoch_count EXCEPT ![p] = @ + 1]
    /\ records' = [records EXCEPT ![p] = Append(@, Record("epoch", epoch_count'[p]))]
    /\ UNCHANGED <<current, carried, short_regions, done, entered>>

Application ==
    \E p \in Process :
      \/ Epoch(p)
      \/ \E h \in Region : \/ Enter(p, h) \/ ExitLong(p, h) \/ ExitCarried(p, h)
                           \/ ExitFirst(p, h) \/ ExitAgain(p, h)

-----------------------------------------------------------------------------
(* ApplicationSampler::update().                                            *)

\* Mutant: the epochs are not divided by the calls for each.
ProxySignalCalls(count) == 1 + count

\* The epoch signal that the proxy filter makes up for an entry.
ProxySignal(count) == 1 + count \div filter.calls

\* Mutant: the first entry after the start-up is taken for one of it.
IsProxyEpochLate(count) == count > 0 /\ count % filter.calls = 0

IsProxyEpoch(count) == count >= 0 /\ count % filter.calls = 0

\* ProxyEpochRecordFilter::filter(): f holds what came out so far.
FilterRecord(f, r) ==
    IF r.event = "epoch" THEN f
    ELSE IF r # Record("entry", Proxy) THEN [f EXCEPT !.out = Append(@, r)]
    ELSE [count |-> f.count + 1,
          out |-> f.out \o <<r>> \o IF IsProxyEpoch(f.count)
                                     THEN <<Record("epoch", ProxySignal(f.count))>>
                                     ELSE <<>>]

Filtered(p) ==
    LET start == [count |-> m_count[p], out |-> <<>>] IN
      IF filter = NoFilter THEN [start EXCEPT !.out = records[p]]
      ELSE FoldLeft(FilterRecord, start, records[p])

\* ValidateRecord::check(): v.ok is lost when it throws.
Check(v, r) ==
    CASE r.event = "entry" -> [v EXCEPT !.ok = @ /\ v.hash = NoRegion, !.hash = r.signal]
      [] r.event = "exit"  -> [v EXCEPT !.ok = @ /\ v.hash = r.signal, !.hash = NoRegion]
      [] r.event = "epoch" -> [v EXCEPT !.ok = @ /\ r.signal = v.epoch + 1,
                                        !.epoch = r.signal]
      [] OTHER             -> v

\* The tables of the processes one behind the other, and where each begins.
short_region_buffer == FoldLeft(\o, <<>>, short_regions)
Offset(p) == Len(FoldLeft(\o, <<>>, SubSeq(short_regions, 1, p - 1)))

\* Mutant: a process' own indices are kept.
ShiftedNot(p, seq) == seq

\* The short records of a process, as many as it has short regions, are moved
\* to where its table begins.
Shifted(p, seq) ==
    LET Shorts(i) == {j \in 1 .. i : seq[j].event = "short"} IN
      [i \in DOMAIN seq |->
         IF i \in Shorts(i) /\ Cardinality(Shorts(i)) <= Len(short_regions[p])
         THEN [seq[i] EXCEPT !.signal = @ + Offset(p)] ELSE seq[i]]

-----------------------------------------------------------------------------
(* The readers of the buffers.                                              *)

\* ProcessRegionAggregator::update(): what a record adds to the count of h.
\* An index that get_short_region() has no region for is an exception.
InBuffer(r) == r.event = "short" => r.signal \in DOMAIN short_region_buffer
Completions(r, h) ==
    IF r = Record("exit", h) THEN 1
    ELSE IF r.event = "short" /\ short_region_buffer[r.signal].hash = h
    THEN short_region_buffer[r.signal].num_complete
    ELSE 0
Completed(seq, h) == FoldLeft(LAMBDA n, r : n + Completions(r, h), 0, seq)

\* EpochIOGroup::read_batch(): the last epoch record counts.
LastEpoch(p, seq) ==
    FoldLeft(LAMBDA n, r : IF r.event = "epoch" THEN r.signal ELSE n, per_cpu_count[p], seq)

\* dump() of every process.
Dump == records' = NoRecords /\ short_regions' = NoRecords

\* One control loop.  The next call of a process finds its log empty, and
\* keeps of its map the region it is in if that was short.
Sample ==
    LET filtered == [p \in Process |-> Filtered(p)]
        checked == [p \in Process |-> FoldLeft(Check, valid[p], filtered[p].out)]
        buffer == [p \in Process |-> Shifted(p, filtered[p].out)]
        fits == \A p \in Process : \A i \in DOMAIN buffer[p] : InBuffer(buffer[p][i])
    IN
    /\ ~failed /\ Dump
    /\ carried' = [p \in Process |->
                     \/ carried[p]
                     \/ \E i \in DOMAIN records[p] : IsShort(p, i, current[p])]
    /\ m_count' = [p \in Process |-> filtered[p].count]
    /\ valid' = checked
    /\ failed' = ~(fits /\ \A p \in Process : checked[p].ok)
    /\ IF failed' THEN UNCHANGED <<total_count, per_cpu_count>>
       ELSE /\ total_count' = [p \in Process |-> [h \in Region |->
                                 total_count[p][h] + Completed(buffer[p], h)]]
            /\ per_cpu_count' = [p \in Process |-> LastEpoch(p, buffer[p])]
    /\ UNCHANGED <<current, epoch_count, calls, filter, done, entered>>

Next == Application \/ Sample

Spec == Init /\ [][Next]_vars

-----------------------------------------------------------------------------
(* Properties.                                                              *)

\* Every variable has a value of its C++ type.
TypeOK ==
    /\ current \in [Process -> Region \cup {NoRegion}] /\ carried \in [Process -> BOOLEAN]
    /\ \A p \in Process :
         /\ \A i \in DOMAIN records[p] :
              CASE records[p][i].event \in {"entry", "exit"} -> records[p][i].signal \in Region
                [] records[p][i].event = "short" ->
                     records[p][i].signal \in DOMAIN short_regions[p]
                [] OTHER -> records[p][i].event = "epoch" /\ records[p][i].signal \in Nat
         /\ \A s \in DOMAIN short_regions[p] :
              short_regions[p][s].hash \in Region /\ short_regions[p][s].num_complete \in Nat
         /\ m_count[p] \in Int /\ valid[p].epoch \in Nat /\ per_cpu_count[p] \in Nat
         /\ total_count[p] \in [Region -> Nat]
    /\ failed \in BOOLEAN

\* The controller survives what the processes do: neither the validation of the
\* records, filtered or not, nor the look-up of a short region throws.
NothingThrows == ~failed

\* No completion is lost or booked to another region or process on the way from
\* the logs through the common table of short regions to the report: what the
\* aggregator counted and what is still in the log is what the process did.
CountsConserved ==
    ~failed => \A p \in Process, h \in Region :
      LET InLog == Cardinality({i \in DOMAIN records[p] : records[p][i] = Record("exit", h)})
                   + FoldLeft(LAMBDA n, s : n + IF s.hash = h THEN s.num_complete ELSE 0,
                              0, short_regions[p])
      IN total_count[p][h] + InLog = done[p][h]

\* The epochs of a number of entries, by the manual: one for the first of every
\* filter.calls entries after filter.startup.
EpochsOf(n) == Cardinality({k \in 1 .. n : k > filter.startup
                                           /\ (k - filter.startup - 1) % filter.calls = 0})

\* EPOCH_COUNT is the number of epochs of the process, be it the ones it
\* reported or the ones made up from the entry records of the proxy region -
\* which are not all of its entries: a short region hides some.
EpochsCounted ==
    \A p \in Process :
      IF filter = NoFilter
      THEN per_cpu_count[p] + Cardinality({i \in DOMAIN records[p] :
                                             records[p][i].event = "epoch"}) = epoch_count[p]
      ELSE LET seen == m_count[p] + filter.startup IN
             per_cpu_count[p] = EpochsOf(seen) /\ seen <= entered[p][Proxy]

===============================================================================
