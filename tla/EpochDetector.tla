----------------------------- MODULE EpochDetector -----------------------------
(***************************************************************************)
(* Epochs inferred from the sequence of regions that a process enters:     *)
(* EditDistPeriodicityDetector.cpp (a history of bounded length, and the   *)
(* edit distances between its end and what precedes it, updated for every  *)
(* record in a table whose three indices wrap around) and                  *)
(* EditDistEpochRecordFilter.cpp (the state machine that turns periods     *)
(* into epochs).                                                           *)
(*                                                                         *)
(* A hysteresis factor is a number of halves: 3 stands for 1.5.  The       *)
(* regions come in any order first, and then repeat the last of them for   *)
(* ever.                                                                   *)
(***************************************************************************)
EXTENDS Integers, SequencesExt

CONSTANTS
    Region,            \* the regions a process enters
    HistorySize,       \* m_history_buffer_size
    BasePeriod,        \* m_min_hysteresis_base_period
    MinPeriod,         \* m_min_detectable_period
    StableHalves,      \* the stable_period_hysteresis asked for, in halves
    UnstableHalves,    \* the unstable_period_hysteresis asked for, in halves
    ByName,            \* the filter is made from its name, as the launcher does
    MaxFree,           \* bound on the records that come in any order
    MaxRecord,         \* bound on all records
    Repeats,           \* lengths of the pattern that is repeated then
    SettleTime         \* records of a pattern after which it must be known

ASSUME DetectorAssumption ==
    /\ HistorySize \in Nat \ {0, 1} /\ BasePeriod \in Nat /\ MinPeriod \in Nat
    /\ StableHalves \in Nat /\ UnstableHalves \in Nat /\ ByName \in BOOLEAN
    /\ MaxFree \in Nat /\ MaxRecord \in Nat /\ Repeats \subseteq 1..MaxFree
    /\ SettleTime \in Nat

VARIABLES
    \* the detector
    m_history_buffer,
    m_record_count,
    m_DP,
    m_period,
    m_score,
    \* the filter
    m_last_period,
    m_period_stable,
    m_period_unstable,
    m_is_period_detected,
    m_last_epoch,
    m_epoch_count,
    result,            \* the records that the last call returned
    \* the application
    stream,            \* history: the regions entered
    repeat             \* length of the pattern that is repeated, or 0

detector == <<m_history_buffer, m_record_count, m_DP, m_period, m_score>>
filter == <<m_last_period, m_period_stable, m_period_unstable, m_is_period_detected,
            m_last_epoch, m_epoch_count>>
vars == <<detector, filter, result, stream, repeat>>

Slot == 0..(HistorySize - 1)

Init ==
    /\ m_history_buffer = <<>> /\ m_record_count = 0
    /\ m_DP = [i \in Slot |-> [j \in Slot |-> [m \in Slot |-> 0]]]
    /\ m_period = -1 /\ m_score = -1
    /\ m_last_period = -1 /\ m_period_stable = 0 /\ m_period_unstable = 0
    /\ m_is_period_detected = FALSE /\ m_last_epoch = -1 /\ m_epoch_count = 0
    /\ result = <<>> /\ stream = <<>> /\ repeat = 0

-----------------------------------------------------------------------------
(* The detector.  n is the number of records, h the history.                *)

Insert(h, r) == Append(IF Len(h) < HistorySize THEN h ELSE Tail(h), r)

\* "Supposed to be INF": larger than any distance, and small enough to add to.
Infinity == 1000000

\* Mutant: the table is trusted for records that have left it.
KeptTooLong(n, ii, jj, mm) == jj < HistorySize /\ n - mm < HistorySize

\* Records [0..ii) and [mm..mm + jj) are recent enough for the table.
Kept(n, ii, jj, mm) == n - ii < HistorySize /\ jj < HistorySize /\ n - mm < HistorySize

\* The distance between [mm..mm + jj) and the nearest end of records [0..ii).
Dget(dp, n, ii, jj, mm) ==
    IF Kept(n, ii, jj, mm)
    THEN dp[ii % HistorySize][jj % HistorySize][mm % HistorySize]
    ELSE Infinity

\* The last of the first n records that an index of the table can stand for.
Recent(n, slot) == n - 1 - ((n - 1 - slot) % HistorySize)

\* Before the n-th record is compared: nothing is matched by nothing, and
\* records [mm..n) by nothing at the cost of their number.
BaseDP(dp, n) ==
    [i \in Slot |-> [j \in Slot |-> [m \in Slot |->
        LET mm == Recent(n, m)
        IN IF mm >= 0 /\ i = 0 /\ j = (n - mm) % HistorySize THEN n - mm
           ELSE IF mm = n - 1 /\ j = 0 /\ Recent(n, i) >= 0 THEN 0
           ELSE dp[i][j][m]]]]

\* The distances to records [mm..n), when the n-th is the last of history h.
Column(dp, h, n, mm) ==
    LET jj == n - mm
        Replaced(ii) ==
            LET entry_age == n - (ii - 1)
            IN IF entry_age <= Len(h) /\ h[Len(h) - entry_age + 1] = Last(h) THEN 0 ELSE 2
        d[ii \in 0..mm] ==
            IF ii < Max({1, n - HistorySize})
            THEN Dget(dp, n, ii, jj, mm)
            ELSE Min({ (IF Kept(n, ii - 1, jj, mm) THEN d[ii - 1] ELSE Infinity) + 1,
                       Dget(dp, n, ii, jj - 1, mm) + 1,
                       Dget(dp, n, ii - 1, jj - 1, mm) + Replaced(ii) })
    IN d

UpdatedDP(dp, h, n) ==
    LET base == BaseDP(dp, n)
    IN [i \in Slot |-> [j \in Slot |-> [m \in Slot |->
            LET ii == Recent(n, i)
                mm == Recent(n, m)
            IN IF ii \in 1..mm /\ j = (n - mm) % HistorySize
               THEN Column(base, h, n, mm)[ii]
               ELSE base[i][j][m]]]]

\* The ends of the records that are compared with what precedes them.
Candidates(n) == Max({(n + 1) \div 2, n - HistorySize})..(n - 1)

\* Mutant: a pattern that is repeated within s is not looked for.
WholeSlice(s) == Len(s)

\* The length of the shortest pattern that s repeats.
SmallestRepeatingPattern(s) ==
    Min({d \in 1..Len(s) : Len(s) % d = 0 /\ \A i \in 1..(Len(s) - d) : s[i] = s[i + d]})

Update(r) ==
    LET h == Insert(m_history_buffer, r)
        n == m_record_count + 1
        dp == UpdatedDP(m_DP, h, n)
        Score(mm) == Dget(dp, n, mm, n - mm, mm)
        score == Min({Score(mm) : mm \in Candidates(n)})
        bestm == Min({mm \in Candidates(n) : Score(mm) = score})
    IN /\ m_history_buffer' = h
       /\ m_record_count' = n
       /\ IF n < 2
          THEN UNCHANGED <<m_DP, m_period, m_score>>
          ELSE /\ m_DP' = dp
               /\ m_score' = score
               /\ m_period' = SmallestRepeatingPattern(
                                  SubSeq(h, Len(h) - (n - bestm) + 1, Len(h)))

-----------------------------------------------------------------------------
(* The filter.                                                              *)

\* The parsers of a name return both factors as int.
Halves(asked) == IF ByName THEN 2 * (asked \div 2) ELSE asked

\* While no period is detected; the score and the period are those of the record.
SeekPeriod ==
    LET low == m_score' >= m_period' \/ m_period' < MinPeriod
        last == IF low THEN -1 ELSE m_period'
        stable == IF ~low /\ m_period' = m_last_period THEN m_period_stable + 1 ELSE 0
        found == IF m_period' <= BasePeriod
                 THEN 2 * stable = Halves(StableHalves) * BasePeriod
                 ELSE stable >= (Halves(StableHalves) * m_period') \div 2
    IN /\ ~m_is_period_detected
       /\ m_is_period_detected' = found
       /\ m_last_period' = last
       /\ m_period_stable' = IF found THEN 0 ELSE stable
       /\ m_last_epoch' = IF found THEN m_record_count' ELSE m_last_epoch
       /\ m_epoch_count' = IF found THEN m_epoch_count + 1 ELSE m_epoch_count
       /\ UNCHANGED m_period_unstable

\* Mutant: deviations are not added up.
DeviationsOnce == IF m_period' = m_last_period THEN 0 ELSE 1

\* Records in a row with another period than the one detected.
Deviations == IF m_period' = m_last_period THEN 0 ELSE m_period_unstable + 1

\* Mutant: off by one.
EpochIsLate ==
    /\ m_period' >= m_last_period
    /\ m_record_count' - m_last_epoch > m_period'

\* Mutant: the distance from the last epoch is not looked at.
EpochIsDueAlways == m_period' >= m_last_period

EpochIsDue ==
    /\ m_period' >= m_last_period
    /\ m_record_count' - m_last_epoch >= m_period'

\* While a period is detected.
FollowPeriod ==
    LET lost == Deviations >= (Halves(UnstableHalves) * m_last_period) \div 2
        epoch == ~lost /\ EpochIsDue
    IN /\ m_is_period_detected
       /\ m_is_period_detected' = ~lost
       /\ m_period_unstable' = IF lost THEN 0 ELSE Deviations
       /\ m_last_epoch' = IF epoch THEN m_record_count' ELSE m_last_epoch
       /\ m_epoch_count' = IF epoch THEN m_epoch_count + 1 ELSE m_epoch_count
       /\ UNCHANGED <<m_last_period, m_period_stable>>

\* filter() of a region entry.
Entry(r) ==
    /\ Update(r)
    /\ SeekPeriod \/ FollowPeriod
    /\ result' = IF m_epoch_count' # m_epoch_count
                 THEN <<"entry", "epoch">> ELSE <<"entry">>
    /\ stream' = Append(stream, r)

\* Any other record passes, except the epochs that the application marks itself.
Other(event) ==
    /\ result' = IF event = "epoch" THEN <<>> ELSE <<event>>
    /\ UNCHANGED <<detector, filter, stream, repeat>>

AnyEntry ==
    /\ repeat = 0 /\ Len(stream) < MaxFree
    /\ \E r \in Region : Entry(r)
    /\ UNCHANGED repeat

RepeatedEntry ==
    /\ Len(stream) < MaxRecord
    /\ \E p \in IF repeat = 0 THEN Repeats ELSE {repeat} :
          /\ p <= Len(stream) /\ repeat' = p
          /\ Entry(stream[Len(stream) + 1 - p])

Next == AnyEntry \/ RepeatedEntry \/ \E event \in {"exit", "epoch"} : Other(event)

Spec == Init /\ [][Next]_vars

-----------------------------------------------------------------------------
TypeOK ==
    /\ Len(m_history_buffer) = Min({m_record_count, HistorySize})
    /\ IsSuffix(m_history_buffer, stream)
    /\ m_record_count = Len(stream)
    /\ m_DP \in [Slot -> [Slot -> [Slot -> 0..(Infinity + MaxRecord)]]]
    /\ m_period \in {-1} \cup 1..HistorySize
    /\ m_score \in -1..Infinity
    /\ m_last_period \in {-1} \cup MinPeriod..HistorySize
    /\ m_period_stable \in 0..MaxRecord /\ m_period_unstable \in 0..MaxRecord
    /\ m_is_period_detected \in BOOLEAN
    /\ m_last_epoch \in -1..m_record_count /\ m_epoch_count \in 0..m_record_count
    /\ result \in {<<>>, <<"entry">>, <<"entry", "epoch">>, <<"exit">>}

\* The number of insertions and deletions that turn one sequence into the other; to replace is
\* to delete and to insert.
Subsequences(s) == FoldLeft(LAMBDA S, e : S \cup {Append(t, e) : t \in S}, {<<>>}, s)
Distance(s, t) ==
    Len(s) + Len(t) - 2 * Max({Len(c) : c \in Subsequences(s) \cap Subsequences(t)})

\* The distance between the last L records and the best end of what precedes them:
\* nothing is as good as 2 * L records or more.
TailDistance(L) ==
    LET n == Len(stream)
        tail == SubSeq(stream, n - L + 1, n)
    IN Min({Distance(SubSeq(stream, i, n - L), tail)
              : i \in Max({1, n - 3 * L + 2})..(n - L + 1)})

\* As long as no record was forgotten, the table that calc_period() updates record
\* by record holds the edit distances of the whole stream; after that, what it has
\* lost may make a distance look larger, never smaller (calc_period(), Dget()).
DistancesExact ==
    m_record_count > 1 =>
        \A mm \in Candidates(m_record_count) :
            LET found == Dget(m_DP, m_record_count, mm, m_record_count - mm, mm)
                exact == TailDistance(m_record_count - mm)
            IN /\ found >= exact
               /\ m_record_count < HistorySize => found = exact

\* The last 2 * L records are the same L records twice.
Twice(L) == \A i \in (Len(stream) - L + 1)..Len(stream) : stream[i] = stream[i - L]
SquareTails == {L \in 1..(HistorySize - 2) : 2 * L <= Len(stream) /\ Twice(L)}

\* The last n records have period p and no smaller one.
Periodic(n, p) == \A i \in (Len(stream) - n + p + 1)..Len(stream) : stream[i] = stream[i - p]
SteadyFor(n, p) ==
    /\ n <= Len(stream) /\ Periodic(n, p)
    /\ \A q \in 1..(p - 1) : ~Periodic(n, q)

\* The score is 0 exactly when the stream ends with a square that the table can
\* hold, and the period is then the shortest period of the longest such square
\* (calc_period(), find_smallest_repeating_pattern()).
PeriodIsPattern ==
    m_record_count > 1 =>
        /\ m_score = 0 <=> SquareTails # {}
        /\ m_score = 0 => SteadyFor(2 * Max(SquareTails), m_period)

Settled(p) == p >= MinPeriod /\ SteadyFor(SettleTime, p)

\* Whatever came before, a pattern that is repeated for SettleTime records is
\* detected, with its own length and not a multiple of it (epoch_detected()).
PeriodFound ==
    \A p \in Repeats : Settled(p) => m_is_period_detected /\ m_last_period = p

\* From then on an epoch is reported every period, no more and no less often.
EpochEveryPeriod ==
    [][\A p \in Repeats : Settled(p) /\ stream' # stream =>
          (m_epoch_count' # m_epoch_count <=> m_record_count' - m_last_epoch = p)]_vars

\* Two epochs are never nearer than the shortest period that may be detected, also
\* when the detection was lost and found again in between.
EpochsApart ==
    [][m_epoch_count' # m_epoch_count /\ m_last_epoch # -1
          => m_record_count' - m_last_epoch >= MinPeriod]_vars

================================================================================
