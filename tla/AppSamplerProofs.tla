---------------------------- MODULE AppSamplerProofs ----------------------------
(***************************************************************************)
(* Proofs about AppSampler: for any processes, regions, record filters and *)
(* calls, nothing that the processes record makes the controller throw,    *)
(* the epochs that the controller reports are those of the process, and    *)
(* the completions of a region that it has counted are, with those that    *)
(* the log still has, the ones the process did.                            *)
(***************************************************************************)
EXTENDS AppSampler, SumTheorems

-----------------------------------------------------------------------------
(* Folds from the left.  The community modules define them by a recursion  *)
(* over the subsets of the places of a sequence, of which the first places *)
(* matter only.                                                            *)

\* A function of those subsets that takes the last place in with its step.
FoldsAt(m, base, step, g, T) ==
    g[T] = IF T = {} THEN base ELSE step[Max(T)][g[T \ {Max(T)}]]

\* There is one up to any size.
LEMMA FoldsUpTo ==
    ASSUME NEW m \in Nat, NEW S, NEW base \in S, NEW step \in [1 .. m -> [S -> S]]
    PROVE  \A k \in Nat : \E g \in [SUBSET (1 .. m) -> S] : \A T \in SUBSET (1 .. m) :
               Cardinality(T) <= k => FoldsAt(m, base, step, g, T)
<1> DEFINE Some(k) == \E g \in [SUBSET (1 .. m) -> S] : \A T \in SUBSET (1 .. m) :
                         Cardinality(T) <= k => FoldsAt(m, base, step, g, T)
           Bad == {k \in Nat : ~Some(k)}
<1> SUFFICES ASSUME Bad # {} PROVE FALSE
  OBVIOUS
<1>1. PICK k \in Bad : \A j \in Bad : k <= j
  BY LeastOf
<1>2. \A T \in SUBSET (1 .. m) :
         /\ IsFiniteSet(T) /\ Cardinality(T) \in Nat
         /\ Cardinality(T) = 0 <=> T = {}
         /\ \A i \in T : Cardinality(T \ {i}) = Cardinality(T) - 1
  <2>1. IsFiniteSet(1 .. m)
    BY FS_Interval
  <2> SUFFICES ASSUME NEW T \in SUBSET (1 .. m)
               PROVE  /\ IsFiniteSet(T) /\ Cardinality(T) \in Nat
                      /\ Cardinality(T) = 0 <=> T = {}
                      /\ \A i \in T : Cardinality(T \ {i}) = Cardinality(T) - 1
    OBVIOUS
  <2>2. IsFiniteSet(T)
    BY ONLY <2>1, T \in SUBSET (1 .. m), FS_Subset
  <2>3. Cardinality(T) \in Nat /\ (Cardinality(T) = 0 <=> T = {})
    BY ONLY <2>2, FS_CardinalityType, FS_EmptySet
  <2>4. \A i \in T : Cardinality(T \ {i}) = Cardinality(T) - 1
    BY ONLY <2>2, FS_RemoveElement
  <2> QED
    BY ONLY <2>2, <2>3, <2>4
<1>3. k # 0
  <2> DEFINE g == [U \in SUBSET (1 .. m) |-> base]
  <2>1. ASSUME NEW T \in SUBSET (1 .. m), Cardinality(T) <= 0
        PROVE  FoldsAt(m, base, step, g, T)
    BY <1>2, <2>1 DEF FoldsAt
  <2>2. g \in [SUBSET (1 .. m) -> S]
    OBVIOUS
  <2> QED
    BY <1>1, <2>1, <2>2
<1>4. k - 1 \in Nat /\ k - 1 \notin Bad
  <2>1. k \in Nat /\ (k - 1 \in Bad => k <= k - 1)
    BY <1>1
  <2>2. k - 1 \in Nat /\ ~(k <= k - 1)
    BY ONLY <1>3, <2>1
  <2> QED
    BY ONLY <2>1, <2>2
<1>5. PICK g \in [SUBSET (1 .. m) -> S] :
         \A T \in SUBSET (1 .. m) : Cardinality(T) <= k - 1 => FoldsAt(m, base, step, g, T)
  BY <1>4
<1> DEFINE h == [T \in SUBSET (1 .. m) |->
                   IF Cardinality(T) <= k - 1 \/ T = {} THEN g[T]
                   ELSE step[Max(T)][g[T \ {Max(T)}]]]
<1>6. \A T \in SUBSET (1 .. m) : T # {} =>
         /\ Max(T) \in T /\ Max(T) \in 1 .. m
         /\ T \ {Max(T)} \in SUBSET (1 .. m)
         /\ step[Max(T)] \in [S -> S]
         /\ step[Max(T)][g[T \ {Max(T)}]] \in S
  <2> SUFFICES ASSUME NEW T \in SUBSET (1 .. m), T # {}
               PROVE  /\ Max(T) \in T /\ Max(T) \in 1 .. m
                      /\ T \ {Max(T)} \in SUBSET (1 .. m)
                      /\ step[Max(T)] \in [S -> S]
                      /\ step[Max(T)][g[T \ {Max(T)}]] \in S
    OBVIOUS
  <2>1. Max(T) \in T
    BY ONLY m \in Nat, T \in SUBSET (1 .. m), T # {}, MaxIn
  <2>2. Max(T) \in 1 .. m /\ T \ {Max(T)} \in SUBSET (1 .. m)
    BY ONLY T \in SUBSET (1 .. m), <2>1
  <2>3. g[T \ {Max(T)}] \in S
    BY ONLY g \in [SUBSET (1 .. m) -> S], <2>2
  <2>4. step[Max(T)] \in [S -> S]
    BY ONLY step \in [1 .. m -> [S -> S]], <2>2
  <2> QED
    BY ONLY <2>1, <2>2, <2>3, <2>4
<1>7. h \in [SUBSET (1 .. m) -> S]
  BY ONLY g \in [SUBSET (1 .. m) -> S], <1>6
<1>8. ASSUME NEW T \in SUBSET (1 .. m), Cardinality(T) <= k PROVE FoldsAt(m, base, step, h, T)
  <2>1. CASE T = {}
    <3>1. Cardinality(T) <= k - 1
      BY <1>2, <1>4, <2>1
    <3>2. FoldsAt(m, base, step, g, T) /\ h[T] = g[T]
      BY <1>5, <3>1
    <3> QED
      BY <2>1, <3>2 DEF FoldsAt
  <2>2. CASE T # {}
    <3>1. Max(T) \in T /\ T \ {Max(T)} \in SUBSET (1 .. m)
      BY <1>6, <2>2
    <3>2. Cardinality(T \ {Max(T)}) <= k - 1
      <4>1. Cardinality(T) \in Nat /\ Cardinality(T \ {Max(T)}) = Cardinality(T) - 1
        BY ONLY T \in SUBSET (1 .. m), <1>2, <3>1
      <4>2. Cardinality(T) <= k /\ k \in Nat
        BY <1>8
      <4> QED
        BY ONLY <4>1, <4>2
    <3>3. h[T \ {Max(T)}] = g[T \ {Max(T)}]
      BY ONLY <3>1, <3>2
    <3>4. h[T] = step[Max(T)][g[T \ {Max(T)}]]
      <4>1. CASE Cardinality(T) <= k - 1
        <5>1. FoldsAt(m, base, step, g, T)
          BY ONLY T \in SUBSET (1 .. m), <1>5, <4>1
        <5>2. h[T] = g[T]
          BY ONLY T \in SUBSET (1 .. m), <4>1
        <5> QED
          BY ONLY <2>2, <5>1, <5>2 DEF FoldsAt
      <4>2. CASE ~(Cardinality(T) <= k - 1)
        BY ONLY T \in SUBSET (1 .. m), <2>2, <4>2
      <4> QED
        BY ONLY <4>1, <4>2
    <3> QED
      BY ONLY <2>2, <3>3, <3>4 DEF FoldsAt
  <2> QED
    BY <2>1, <2>2
<1>9. Some(k)
  <2> HIDE DEF h
  <2> QED
    BY <1>7, <1>8
<1> QED
  BY <1>1, <1>9

\* So there is one.
LEMMA FoldsExist ==
    ASSUME NEW m \in Nat, NEW S, NEW base \in S, NEW step \in [1 .. m -> [S -> S]]
    PROVE  \E g \in [SUBSET (1 .. m) -> S] : \A T \in SUBSET (1 .. m) :
               FoldsAt(m, base, step, g, T)
<1>1. Cardinality(1 .. m) \in Nat /\ \A U \in SUBSET (1 .. m) : Cardinality(U) <= Cardinality(1 .. m)
  <2>1. IsFiniteSet(1 .. m)
    BY FS_Interval
  <2> QED
    BY ONLY <2>1, FS_Subset, FS_CardinalityType
<1>2. PICK g \in [SUBSET (1 .. m) -> S] : \A U \in SUBSET (1 .. m) :
         Cardinality(U) <= Cardinality(1 .. m) => FoldsAt(m, base, step, g, U)
  BY <1>1, FoldsUpTo
<1> QED
  BY <1>1, <1>2

\* The last of the first places.
LEMMA LastPlace ==
    ASSUME NEW k \in Nat, k # 0
    PROVE  Max(1 .. k) = k /\ (1 .. k) \ {k} = 1 .. (k - 1)
<1>1. Max(1 .. k) \in 1 .. k /\ \A j \in 1 .. k : Max(1 .. k) >= j
  <2>1. k \in 1 .. k /\ \A j \in 1 .. k : k >= j
    OBVIOUS
  <2> QED
    BY <2>1 DEF Max
<1>2. k \in 1 .. k
  OBVIOUS
<1> QED
  BY <1>1, <1>2

\* What holds at the beginning and is kept from a place to the next holds at all places.
LEMMA PlaceInduction ==
    ASSUME NEW n \in Nat, NEW G, 0 \in G, \A k \in 1 .. n : k - 1 \in G => k \in G
    PROVE  \A k \in 0 .. n : k \in G
<1> DEFINE Bad == {k \in 0 .. n : k \notin G}
<1> SUFFICES ASSUME Bad # {} PROVE FALSE
  OBVIOUS
<1>1. PICK k \in Bad : \A j \in Bad : k <= j
  <2>1. Bad \in SUBSET Nat
    OBVIOUS
  <2> QED
    BY <2>1, LeastOf
<1>2. k \in 0 .. n /\ k \notin G /\ k # 0
  BY <1>1
<1>3. k \in 1 .. n /\ k - 1 \in 0 .. n /\ ~(k <= k - 1)
  BY ONLY n \in Nat, <1>2
<1>4. k - 1 \in G
  BY <1>1, <1>3
<1> QED
  BY <1>2, <1>3, <1>4

\* A chain of states, each from the one before with its step.
StepChain(n, S, base, step, c) ==
    c \in [0 .. n -> S] /\ c[0] = base /\ \A k \in 1 .. n : c[k] = step[k][c[k - 1]]

\* What a fold computes for the subsets,
FoldsFrom(n, S, base, step, G) ==
    /\ G[{}] = base
    /\ \A T \in SUBSET (1 .. n) : T # {} /\ G[T \ {Max(T)}] \in S
                                    => G[T] = step[Max(T)][G[T \ {Max(T)}]]

\* is in the end the end of the chain, whatever it does with other places.
LEMMA FoldChain ==
    ASSUME NEW n \in Nat, NEW S, NEW base \in S, NEW step \in [1 .. n -> [S -> S]],
           NEW G, FoldsFrom(n, S, base, step, G)
    PROVE  \E c : StepChain(n, S, base, step, c) /\ c[n] = G[1 .. n]
<1> DEFINE c == [k \in 0 .. n |-> G[1 .. k]]
           Good == {k \in 0 .. n : c[k] \in S}
<1>1. c[0] = base
  <2>1. 1 .. 0 = {}
    OBVIOUS
  <2> QED
    BY ONLY FoldsFrom(n, S, base, step, G), n \in Nat, <2>1 DEF FoldsFrom
<1>2. ASSUME NEW k \in 1 .. n, c[k - 1] \in S
      PROVE  c[k] = step[k][c[k - 1]] /\ c[k] \in S
  <2>1. k \in Nat /\ k # 0 /\ k - 1 \in 0 .. n /\ k \in 0 .. n
    BY ONLY n \in Nat, k \in 1 .. n
  <2>2. Max(1 .. k) = k /\ (1 .. k) \ {k} = 1 .. (k - 1)
    BY ONLY <2>1, LastPlace
  <2>3. 1 .. k \in SUBSET (1 .. n) /\ 1 .. k # {}
    <3>1. \A j \in 1 .. k : j \in 1 .. n
      BY ONLY n \in Nat, k \in 1 .. n
    <3>2. k \in 1 .. k
      BY ONLY n \in Nat, k \in 1 .. n
    <3> QED
      BY ONLY <3>1, <3>2
  <2>4. G[1 .. (k - 1)] \in S
    BY ONLY <1>2, <2>1
  <2>5. G[1 .. k] = step[Max(1 .. k)][G[(1 .. k) \ {Max(1 .. k)}]]
    BY ONLY <2>2, <2>3, <2>4, FoldsFrom(n, S, base, step, G) DEF FoldsFrom
  <2>6. c[k] = step[k][c[k - 1]]
    BY ONLY <2>1, <2>2, <2>5
  <2>7. step[k] \in [S -> S]
    BY ONLY step \in [1 .. n -> [S -> S]], k \in 1 .. n
  <2> QED
    BY ONLY <1>2, <2>6, <2>7
<1>3. c[n] = G[1 .. n] /\ c = [k \in 0 .. n |-> c[k]]
  BY ONLY n \in Nat
<1> HIDE DEF c
<1>4. 0 \in Good
  BY ONLY n \in Nat, base \in S, <1>1
<1>5. ASSUME NEW k \in 1 .. n, k - 1 \in Good PROVE k \in Good
  <2>1. k \in 0 .. n
    BY ONLY n \in Nat, k \in 1 .. n
  <2> QED
    BY ONLY <1>2, <1>5, <2>1
<1> HIDE DEF Good
<1>6. \A k \in 0 .. n : k \in Good
  BY ONLY n \in Nat, <1>4, <1>5, PlaceInduction
<1>7. \A k \in 0 .. n : c[k] \in S
  BY ONLY <1>6 DEF Good
<1>8. c \in [0 .. n -> S]
  BY ONLY <1>3, <1>7
<1>9. \A k \in 1 .. n : k - 1 \in 0 .. n
  BY ONLY n \in Nat
<1>10. \A k \in 1 .. n : c[k] = step[k][c[k - 1]]
  BY ONLY <1>2, <1>7, <1>9
<1> QED
  BY ONLY <1>1, <1>3, <1>8, <1>10 DEF StepChain

-----------------------------------------------------------------------------
(* What the controller validates.                                           *)

\* Records as the logs and the filters make them, and the states of ValidateRecord.
Recs == [event : {"entry", "exit"}, signal : Region] \cup [event : {"short", "epoch"}, signal : Nat]
Checks == [hash : Region \cup {NoRegion}, epoch : Nat, ok : BOOLEAN]

\* A record is one of four.
LEMMA RecordKinds ==
    ASSUME NEW r \in Recs
    PROVE  \/ r.event = "entry" /\ r.signal \in Region
           \/ r.event = "exit" /\ r.signal \in Region
           \/ r.event = "short" /\ r.signal \in Nat
           \/ r.event = "epoch" /\ r.signal \in Nat
  BY DEF Recs

\* What the validation of a record looks at and changes.
LEMMA CheckAt ==
    ASSUME NEW v \in Checks, NEW r \in Recs
    PROVE  /\ Check(v, r) \in Checks
           /\ r.event = "entry" => Check(v, r) = [hash |-> r.signal, epoch |-> v.epoch,
                                                  ok |-> v.ok /\ v.hash = NoRegion]
           /\ r.event = "exit" => Check(v, r) = [hash |-> NoRegion, epoch |-> v.epoch,
                                                 ok |-> v.ok /\ v.hash = r.signal]
           /\ r.event = "epoch" => Check(v, r) = [hash |-> v.hash, epoch |-> r.signal,
                                                  ok |-> v.ok /\ r.signal = v.epoch + 1]
           /\ r.event = "short" => Check(v, r) = v
<1>1. CASE r.event = "entry" /\ r.signal \in Region
  BY <1>1 DEF Check, Checks
<1>2. CASE r.event = "exit" /\ r.signal \in Region
  BY <1>2 DEF Check, Checks
<1>3. CASE r.event = "short" /\ r.signal \in Nat
  BY <1>3 DEF Check, Checks
<1>4. CASE r.event = "epoch" /\ r.signal \in Nat
  BY <1>4 DEF Check, Checks
<1> QED
  BY <1>1, <1>2, <1>3, <1>4, RecordKinds

\* The states that the validation of a sequence goes through.
Checking(v, s, c) ==
    /\ c \in [0 .. Len(s) -> Checks] /\ c[0] = v
    /\ \A k \in 1 .. Len(s) : c[k] = Check(c[k - 1], s[k])

\* They end with what the validation of the whole sequence gives.
LEMMA CheckRun ==
    ASSUME NEW v \in Checks, NEW s \in Seq(Recs)
    PROVE  \E c : Checking(v, s, c) /\ FoldLeft(Check, v, s) = c[Len(s)]
<1> DEFINE n == Len(s)
           step == [i \in 1 .. n |-> [x \in Checks |-> Check(x, s[i])]]
           Solves(e) == e = [T \in SUBSET (DOMAIN s) |->
                               IF T = {} THEN v ELSE Check(e[T \ {Max(T)}], s[Max(T)])]
           G == CHOOSE e : Solves(e)
<1>1. n \in Nat /\ DOMAIN s = 1 .. n
  OBVIOUS
<1>2. FoldLeft(Check, v, s) = G[DOMAIN s]
  BY DEF FoldLeft, MapThenFoldSet
<1>3. \A i \in 1 .. n : \A x \in Checks : Check(x, s[i]) \in Checks
  <2>1. \A i \in 1 .. n : s[i] \in Recs
    OBVIOUS
  <2> QED
    BY ONLY <2>1, CheckAt
<1>4. step \in [1 .. n -> [Checks -> Checks]]
  BY ONLY <1>3
<1>5. v \in Checks
  OBVIOUS
<1>6. \A i \in 1 .. n : \A x \in Checks : step[i][x] = Check(x, s[i])
  BY ONLY TRUE
<1>7. \A T \in SUBSET (1 .. n) : T # {} => Max(T) \in 1 .. n /\ T \ {Max(T)} \in SUBSET (1 .. n)
  <2>1. \A T \in SUBSET (1 .. n) : T # {} => Max(T) \in T
    BY ONLY <1>1, MaxIn
  <2> QED
    BY ONLY <2>1
<1> HIDE DEF n, step
<1>8. PICK g \in [SUBSET (1 .. n) -> Checks] :
         \A T \in SUBSET (1 .. n) : FoldsAt(n, v, step, g, T)
  BY ONLY <1>1, <1>4, <1>5, FoldsExist
<1>9. Solves(g)
  <2>1. ASSUME NEW T \in SUBSET (1 .. n)
        PROVE  g[T] = IF T = {} THEN v ELSE Check(g[T \ {Max(T)}], s[Max(T)])
    BY ONLY T \in SUBSET (1 .. n), g \in [SUBSET (1 .. n) -> Checks], <1>6, <1>7, <1>8 DEF FoldsAt
  <2> QED
    BY ONLY <1>1, <1>8, <2>1
<1>10. Solves(G)
  <2> HIDE DEF Solves
  <2> QED
    BY ONLY <1>9
<1> HIDE DEF G
<1>11. G[{}] = v
  BY ONLY <1>10
<1>12. FoldsFrom(n, Checks, v, step, G)
  <2>1. ASSUME NEW T \in SUBSET (1 .. n), T # {}, G[T \ {Max(T)}] \in Checks
        PROVE  G[T] = step[Max(T)][G[T \ {Max(T)}]]
    <3>1. G[T] = Check(G[T \ {Max(T)}], s[Max(T)])
      BY ONLY T \in SUBSET (1 .. n), <1>1, <1>10, <2>1
    <3> QED
      BY ONLY T \in SUBSET (1 .. n), <1>6, <1>7, <2>1, <3>1
  <2> QED
    BY ONLY <1>11, <2>1 DEF FoldsFrom
<1> HIDE DEF Solves
<1>13. PICK c : StepChain(n, Checks, v, step, c) /\ c[n] = G[1 .. n]
  BY ONLY <1>1, <1>4, <1>5, <1>12, FoldChain
<1>14. \A k \in 1 .. n : k - 1 \in 0 .. n
  BY ONLY <1>1
<1>15. Checking(v, s, c)
  BY ONLY <1>6, <1>13, <1>14 DEF StepChain, Checking, n
<1> QED
  BY ONLY <1>1, <1>2, <1>13, <1>15 DEF n

-----------------------------------------------------------------------------
(* A log and the state of its process: s and t are the two tables, c is the *)
(* region that the process is in, car whether that is carried, and vh the   *)
(* region that the controller knows of.                                     *)

ShortRegions == [hash : Region, num_complete : Nat]

\* Each short region has one record.
Booked(s, t) ==
    /\ \A i \in DOMAIN s : s[i].event = "short" =>
         /\ s[i].signal \in DOMAIN t
         /\ \A j \in DOMAIN s : j # i /\ s[j].event = "short" => s[j].signal # s[i].signal
    /\ \A q \in DOMAIN t : \E i \in DOMAIN s : s[i].event = "short" /\ s[i].signal = q

\* The only region that is entered and not left yet is the one that the process is in,
EntryFits(s, c, car) ==
    \A i \in DOMAIN s : s[i].event = "entry" =>
      /\ s[i].signal = c /\ ~car
      /\ \A j \in DOMAIN s : j # i => s[j].event # "entry"

\* one is left that the controller knows of, before another is entered,
ExitFits(s, vh) ==
    \A i \in DOMAIN s : s[i].event = "exit" =>
      /\ s[i].signal = vh
      /\ \A j \in DOMAIN s : j # i => s[j].event # "exit" /\ (j < i => s[j].event # "entry")

\* and no region is both.
Apart(s, t) ==
    \A i, j \in DOMAIN s : s[i].event = "entry" /\ s[j].event = "short"
                             => t[s[j].signal].hash # s[i].signal

Untouched(s) == \A i \in DOMAIN s : s[i].event = "epoch"
NoExit(s) == \A i \in DOMAIN s : s[i].event # "exit"
EnteredIn(s, t, h) ==
    \E i \in DOMAIN s : \/ s[i] = Record("entry", h)
                        \/ s[i].event = "short" /\ t[s[i].signal].hash = h

\* What was entered in an earlier window is known until it is left,
KnownFits(s, c, car, vh) == vh # NoRegion /\ NoExit(s) => c = vh /\ ~car /\ Untouched(s)
\* and not known if it is carried;
CarriedFits(s, c, car, vh) == car => c # NoRegion /\ vh = NoRegion /\ Untouched(s)
\* there is no other way to be in a region than these two and to enter it.
CurrentFits(s, t, c, car, vh) ==
    c # NoRegion => car \/ (c = vh /\ NoExit(s)) \/ EnteredIn(s, t, c)

LogFits(s, t, c, car, vh) ==
    /\ Booked(s, t) /\ Apart(s, t)
    /\ EntryFits(s, c, car) /\ ExitFits(s, vh)
    /\ KnownFits(s, c, car, vh) /\ CarriedFits(s, c, car, vh) /\ CurrentFits(s, t, c, car, vh)

\* A record more.
Longer(s, a, r) ==
    /\ DOMAIN a = DOMAIN s \cup {Len(s) + 1} /\ Len(s) + 1 \notin DOMAIN s
    /\ \A i \in DOMAIN s : a[i] = s[i] /\ i < Len(s) + 1 /\ ~(Len(s) + 1 < i)
    /\ a[Len(s) + 1] = r

\* Append gives it.
LEMMA AppendLonger ==
    ASSUME NEW S, NEW s \in Seq(S), NEW r \in S
    PROVE  Append(s, r) \in Seq(S) /\ Longer(s, Append(s, r), r)
  BY DEF Longer

\* The events of a record that is made.
LEMMA RecordFields ==
    ASSUME NEW e, NEW x
    PROVE  Record(e, x).event = e /\ Record(e, x).signal = x
  BY DEF Record

\* enter() of a region that has a record keeps the log,
LEMMA EnterAgainFits ==
    ASSUME NEW s, NEW t, NEW car, NEW vh, NEW h, h # NoRegion,
           \A i \in DOMAIN s : s[i].event = "entry" => s[i].signal # NoRegion,
           LogFits(s, t, NoRegion, car, vh), EnteredIn(s, t, h)
    PROVE  LogFits(s, t, h, car, vh)
<1>1. ~car
  BY DEF LogFits, CarriedFits
<1>2. \A i \in DOMAIN s : s[i].event # "entry"
  BY DEF LogFits, EntryFits
<1>3. ~(vh # NoRegion /\ NoExit(s))
  BY DEF LogFits, KnownFits
<1>4. EntryFits(s, h, car) /\ KnownFits(s, h, car, vh) /\ CarriedFits(s, h, car, vh)
  BY <1>1, <1>2, <1>3 DEF EntryFits, KnownFits, CarriedFits
<1>5. CurrentFits(s, t, h, car, vh)
  BY DEF CurrentFits
<1> QED
  BY <1>4, <1>5 DEF LogFits

\* and of another adds one.
LEMMA EnterFits ==
    ASSUME NEW s, NEW t, NEW car, NEW vh, NEW h, NEW a, h # NoRegion,
           \A i \in DOMAIN s : s[i].event = "entry" => s[i].signal # NoRegion,
           LogFits(s, t, NoRegion, car, vh), ~EnteredIn(s, t, h),
           Longer(s, a, Record("entry", h))
    PROVE  LogFits(a, t, h, car, vh)
<1> DEFINE n == Len(s) + 1
<1>1. /\ DOMAIN a = DOMAIN s \cup {n} /\ n \notin DOMAIN s
      /\ \A i \in DOMAIN s : a[i] = s[i] /\ i < n /\ ~(n < i)
      /\ a[n].event = "entry" /\ a[n].signal = h /\ a[n] = Record("entry", h)
  BY RecordFields DEF Longer
<1> HIDE DEF n
<1>2. ~car
  BY DEF LogFits, CarriedFits
<1>3. \A i \in DOMAIN s : s[i].event # "entry"
  BY DEF LogFits, EntryFits
<1>4. ~(vh # NoRegion /\ NoExit(s))
  BY DEF LogFits, KnownFits
<1>5. Booked(a, t)
  BY ONLY <1>1, LogFits(s, t, NoRegion, car, vh) DEF LogFits, Booked
<1>6. Apart(a, t)
  <2>1. \A j \in DOMAIN s : s[j].event = "short" => t[s[j].signal].hash # h
    BY DEF EnteredIn
  <2> QED
    BY ONLY <1>1, <1>3, <2>1 DEF Apart
<1>7. EntryFits(a, h, car)
  BY ONLY <1>1, <1>2, <1>3 DEF EntryFits
<1>8. ExitFits(a, vh)
  BY ONLY <1>1, LogFits(s, t, NoRegion, car, vh) DEF LogFits, ExitFits
<1>9. KnownFits(a, h, car, vh)
  BY ONLY <1>1, <1>4 DEF KnownFits, NoExit
<1>10. CarriedFits(a, h, car, vh) /\ CurrentFits(a, t, h, car, vh)
  BY ONLY <1>1, <1>2 DEF CarriedFits, CurrentFits, EnteredIn
<1> QED
  BY ONLY <1>5, <1>6, <1>7, <1>8, <1>9, <1>10 DEF LogFits

\* epoch()
LEMMA EpochFits ==
    ASSUME NEW s, NEW t, NEW c, NEW car, NEW vh, NEW x, NEW a,
           LogFits(s, t, c, car, vh), Longer(s, a, Record("epoch", x))
    PROVE  LogFits(a, t, c, car, vh)
<1> DEFINE n == Len(s) + 1
<1>1. /\ DOMAIN a = DOMAIN s \cup {n} /\ n \notin DOMAIN s
      /\ \A i \in DOMAIN s : a[i] = s[i] /\ i < n /\ ~(n < i)
      /\ a[n].event = "epoch"
  BY RecordFields DEF Longer
<1> HIDE DEF n
<1>2. Booked(a, t)
  BY ONLY <1>1, LogFits(s, t, c, car, vh) DEF LogFits, Booked
<1>3. Apart(a, t)
  BY ONLY <1>1, LogFits(s, t, c, car, vh) DEF LogFits, Apart
<1>4. EntryFits(a, c, car) /\ ExitFits(a, vh)
  BY ONLY <1>1, LogFits(s, t, c, car, vh) DEF LogFits, EntryFits, ExitFits
<1>5. (NoExit(a) <=> NoExit(s)) /\ (Untouched(a) <=> Untouched(s))
  BY ONLY <1>1 DEF NoExit, Untouched
<1>6. KnownFits(a, c, car, vh) /\ CarriedFits(a, c, car, vh)
  BY ONLY <1>5, LogFits(s, t, c, car, vh) DEF LogFits, KnownFits, CarriedFits
<1>7. EnteredIn(s, t, c) => EnteredIn(a, t, c)
  BY ONLY <1>1 DEF EnteredIn
<1>8. CurrentFits(a, t, c, car, vh)
  BY ONLY <1>5, <1>7, LogFits(s, t, c, car, vh) DEF LogFits, CurrentFits
<1> QED
  BY ONLY <1>2, <1>3, <1>4, <1>6, <1>8 DEF LogFits

\* exit() of a region that the controller knows of,
LEMMA ExitLongFits ==
    ASSUME NEW s, NEW t, NEW vh, NEW h, NEW a, h # NoRegion,
           LogFits(s, t, h, FALSE, vh), ~EnteredIn(s, t, h), Longer(s, a, Record("exit", h))
    PROVE  LogFits(a, t, NoRegion, FALSE, vh)
<1> DEFINE n == Len(s) + 1
<1>1. /\ DOMAIN a = DOMAIN s \cup {n} /\ n \notin DOMAIN s
      /\ \A i \in DOMAIN s : a[i] = s[i] /\ i < n /\ ~(n < i)
      /\ a[n].event = "exit" /\ a[n].signal = h
  BY RecordFields DEF Longer
<1> HIDE DEF n
<1>2. h = vh /\ Untouched(s)
  BY DEF LogFits, CurrentFits, KnownFits
<1>3. Booked(a, t)
  BY ONLY <1>1, LogFits(s, t, h, FALSE, vh) DEF LogFits, Booked
<1>4. Apart(a, t) /\ EntryFits(a, NoRegion, FALSE)
  BY ONLY <1>1, <1>2 DEF Untouched, Apart, EntryFits
<1>5. ExitFits(a, vh)
  BY ONLY <1>1, <1>2 DEF Untouched, ExitFits
<1>6. ~NoExit(a)
  BY ONLY <1>1 DEF NoExit
<1>7. KnownFits(a, NoRegion, FALSE, vh) /\ CarriedFits(a, NoRegion, FALSE, vh)
      /\ CurrentFits(a, t, NoRegion, FALSE, vh)
  BY ONLY <1>6 DEF KnownFits, CarriedFits, CurrentFits
<1> QED
  BY ONLY <1>3, <1>4, <1>5, <1>7 DEF LogFits

\* of one that is carried,
LEMMA ExitCarriedFits ==
    ASSUME NEW s, NEW t, NEW vh, NEW h, NEW a, NEW u, NEW x,
           LogFits(s, t, h, TRUE, vh),
           Longer(s, a, Record("short", Len(t) + 1)), Longer(t, u, x)
    PROVE  LogFits(a, u, NoRegion, FALSE, vh)
<1> DEFINE n == Len(s) + 1
           m == Len(t) + 1
<1>1. /\ DOMAIN a = DOMAIN s \cup {n} /\ n \notin DOMAIN s
      /\ \A i \in DOMAIN s : a[i] = s[i] /\ i < n /\ ~(n < i)
      /\ a[n].event = "short" /\ a[n].signal = m
      /\ DOMAIN u = DOMAIN t \cup {m} /\ m \notin DOMAIN t
  BY RecordFields DEF Longer
<1> HIDE DEF n, m
<1>2. vh = NoRegion /\ Untouched(s)
  BY DEF LogFits, CarriedFits
<1>3. DOMAIN t = {}
  BY <1>2 DEF LogFits, Booked, Untouched
<1>4. Booked(a, u)
  BY ONLY <1>1, <1>2, <1>3 DEF Booked, Untouched
<1>5. Apart(a, u) /\ EntryFits(a, NoRegion, FALSE) /\ ExitFits(a, vh)
  BY ONLY <1>1, <1>2 DEF Untouched, Apart, EntryFits, ExitFits
<1>6. KnownFits(a, NoRegion, FALSE, vh) /\ CarriedFits(a, NoRegion, FALSE, vh)
      /\ CurrentFits(a, u, NoRegion, FALSE, vh)
  BY ONLY <1>2 DEF KnownFits, CarriedFits, CurrentFits
<1> QED
  BY ONLY <1>4, <1>5, <1>6 DEF LogFits

\* A record in place of another.
Replaced(s, a, i, r) ==
    DOMAIN a = DOMAIN s /\ a[i] = r /\ \A j \in DOMAIN s : j # i => a[j] = s[j]

\* of one that has just been entered,
LEMMA ExitFirstFits ==
    ASSUME NEW s, NEW t, NEW car, NEW vh, NEW h, NEW a, NEW u, NEW x, NEW i \in DOMAIN s,
           LogFits(s, t, h, car, vh), s[i] = Record("entry", h),
           Replaced(s, a, i, Record("short", Len(t) + 1)), Longer(t, u, x)
    PROVE  LogFits(a, u, NoRegion, FALSE, vh)
<1> DEFINE m == Len(t) + 1
<1>1. /\ DOMAIN a = DOMAIN s /\ \A j \in DOMAIN s : j # i => a[j] = s[j]
      /\ a[i].event = "short" /\ a[i].signal = m /\ s[i].event = "entry"
      /\ DOMAIN u = DOMAIN t \cup {m} /\ m \notin DOMAIN t
  BY RecordFields DEF Longer, Replaced
<1> HIDE DEF m
<1>2. \A j \in DOMAIN s : a[j].event # "entry"
  BY ONLY <1>1, i \in DOMAIN s, LogFits(s, t, h, car, vh) DEF LogFits, EntryFits
<1>3. Booked(a, u)
  <2>1. Booked(s, t)
    BY DEF LogFits
  <2>2. \A j \in DOMAIN s : a[j].event = "short" =>
          IF j = i THEN a[j].signal = m
          ELSE s[j].event = "short" /\ a[j].signal = s[j].signal /\ a[j].signal \in DOMAIN t
    BY ONLY <1>1, <2>1 DEF Booked
  <2>3. ASSUME NEW j \in DOMAIN s, a[j].event = "short"
        PROVE  /\ a[j].signal \in DOMAIN u
               /\ \A k \in DOMAIN s : k # j /\ a[k].event = "short" => a[k].signal # a[j].signal
    BY ONLY <1>1, <2>1, <2>2, <2>3 DEF Booked
  <2>4. ASSUME NEW q \in DOMAIN u
        PROVE  \E j \in DOMAIN s : a[j].event = "short" /\ a[j].signal = q
    <3>1. CASE q = m
      BY ONLY <1>1, <3>1, i \in DOMAIN s
    <3>2. CASE q # m
      <4>1. PICK j \in DOMAIN s : s[j].event = "short" /\ s[j].signal = q
        BY ONLY <1>1, <2>1, <2>4, <3>2 DEF Booked
      <4>2. j # i
        BY ONLY <1>1, <4>1
      <4> QED
        BY ONLY <1>1, <4>1, <4>2
    <3> QED
      BY ONLY <3>1, <3>2
  <2> QED
    BY ONLY <1>1, <2>3, <2>4 DEF Booked
<1>4. Apart(a, u) /\ EntryFits(a, NoRegion, FALSE)
  BY ONLY <1>1, <1>2 DEF Apart, EntryFits
<1>5. ExitFits(a, vh)
  BY ONLY <1>1, <1>2, LogFits(s, t, h, car, vh) DEF LogFits, ExitFits
<1>6. NoExit(a) <=> NoExit(s)
  BY ONLY <1>1, i \in DOMAIN s DEF NoExit
<1>7. ~Untouched(s)
  BY ONLY <1>1, i \in DOMAIN s DEF Untouched
<1>8. KnownFits(a, NoRegion, FALSE, vh)
  BY ONLY <1>6, <1>7, LogFits(s, t, h, car, vh) DEF LogFits, KnownFits
<1>9. CarriedFits(a, NoRegion, FALSE, vh) /\ CurrentFits(a, u, NoRegion, FALSE, vh)
  BY ONLY TRUE DEF CarriedFits, CurrentFits
<1> QED
  BY ONLY <1>3, <1>4, <1>5, <1>8, <1>9 DEF LogFits

\* and of one that was left before in this window.
LEMMA ExitAgainFits ==
    ASSUME NEW s, NEW t, NEW car, NEW vh, NEW h, NEW u, NEW i \in DOMAIN s,
           LogFits(s, t, h, car, vh), s[i].event = "short", t[s[i].signal].hash = h,
           DOMAIN u = DOMAIN t, \A q \in DOMAIN t : u[q].hash = t[q].hash
    PROVE  LogFits(s, u, NoRegion, FALSE, vh)
<1>1. \A j \in DOMAIN s : s[j].event # "entry"
  BY DEF LogFits, EntryFits, Apart
<1>2. ~Untouched(s)
  BY DEF Untouched
<1>3. Booked(s, u)
  BY DEF LogFits, Booked
<1>4. Apart(s, u) /\ EntryFits(s, NoRegion, FALSE)
  BY ONLY <1>1 DEF Apart, EntryFits
<1>5. ExitFits(s, vh)
  BY DEF LogFits
<1>6. KnownFits(s, NoRegion, FALSE, vh)
  BY ONLY <1>2, LogFits(s, t, h, car, vh) DEF LogFits, KnownFits
<1>7. CarriedFits(s, NoRegion, FALSE, vh) /\ CurrentFits(s, u, NoRegion, FALSE, vh)
  BY ONLY TRUE DEF CarriedFits, CurrentFits
<1> QED
  BY ONLY <1>3, <1>4, <1>5, <1>6, <1>7 DEF LogFits

-----------------------------------------------------------------------------
(* The region that the controller knows of after the first k records.       *)

HashAt(s, k, c, vh) ==
    IF \E i \in DOMAIN s : i <= k /\ s[i].event = "entry" THEN c
    ELSE IF \E i \in DOMAIN s : i <= k /\ s[i].event = "exit" THEN NoRegion
    ELSE vh

\* At the end of a window the process is in it, or in a region that is carried.
LEMMA DumpFits ==
    ASSUME NEW s, NEW t, NEW c, NEW car, NEW vh, NEW car2, NEW k,
           \A q \in DOMAIN t : t[q].hash # NoRegion,
           \A i \in DOMAIN s : /\ i <= k
                               /\ s[i].event \in {"entry", "exit"} => s[i].signal # NoRegion,
           LogFits(s, t, c, car, vh),
           car2 <=> car \/ \E i \in DOMAIN s : s[i].event = "short" /\ t[s[i].signal].hash = c
    PROVE  LogFits(<< >>, << >>, c, car2, HashAt(s, k, c, vh))
<1> DEFINE H == HashAt(s, k, c, vh)
<1>1. DOMAIN (<< >>) = {}
  OBVIOUS
<1>2. NoExit(<< >>) /\ Untouched(<< >>)
  BY ONLY <1>1 DEF NoExit, Untouched
<1>3. /\ Booked(<< >>, << >>) /\ Apart(<< >>, << >>)
      /\ EntryFits(<< >>, c, car2) /\ ExitFits(<< >>, H)
  BY ONLY <1>1 DEF Booked, Apart, EntryFits, ExitFits
<1>4. car2 => c # NoRegion
  <2>1. car => c # NoRegion
    BY DEF LogFits, CarriedFits
  <2>2. ASSUME NEW i \in DOMAIN s, s[i].event = "short", t[s[i].signal].hash = c PROVE c # NoRegion
    <3>1. s[i].signal \in DOMAIN t
      BY <2>2 DEF LogFits, Booked
    <3> QED
      BY <2>2, <3>1
  <2> QED
    BY <2>1, <2>2
<1>5. \/ H = NoRegion /\ (c # NoRegion => car2)
      \/ H = c /\ ~car2
  <2>1. CASE \E i \in DOMAIN s : s[i].event = "entry"
    <3>1. PICK i \in DOMAIN s : s[i].event = "entry"
      BY <2>1
    <3>2. H = c
      BY <3>1 DEF HashAt
    <3>3. ~car /\ s[i].signal = c
      BY <3>1 DEF LogFits, EntryFits
    <3>4. \A j \in DOMAIN s : s[j].event = "short" => t[s[j].signal].hash # c
      BY ONLY <3>1, <3>3, LogFits(s, t, c, car, vh) DEF LogFits, Apart
    <3> QED
      BY <3>2, <3>3, <3>4
  <2>2. CASE (\A i \in DOMAIN s : s[i].event # "entry") /\ ~NoExit(s)
    <3>1. H = NoRegion
      BY <2>2 DEF HashAt, NoExit
    <3>2. c # NoRegion => car \/ EnteredIn(s, t, c)
      BY <2>2 DEF LogFits, CurrentFits
    <3>3. EnteredIn(s, t, c) => \E i \in DOMAIN s : s[i].event = "short" /\ t[s[i].signal].hash = c
      BY ONLY <2>2, RecordFields DEF EnteredIn
    <3> QED
      BY <3>1, <3>2, <3>3
  <2>3. CASE (\A i \in DOMAIN s : s[i].event # "entry") /\ NoExit(s)
    <3>1. H = vh
      BY <2>3 DEF HashAt, NoExit
    <3>2. CASE vh # NoRegion
      <4>1. c = vh /\ ~car /\ Untouched(s)
        BY <2>3, <3>2 DEF LogFits, KnownFits
      <4>2. \A i \in DOMAIN s : s[i].event # "short"
        BY <4>1 DEF Untouched
      <4> QED
        BY <3>1, <4>1, <4>2
    <3>3. CASE vh = NoRegion
      <4>1. c # NoRegion => car \/ EnteredIn(s, t, c)
        BY <3>3 DEF LogFits, CurrentFits
      <4>2. EnteredIn(s, t, c) => \E i \in DOMAIN s : s[i].event = "short" /\ t[s[i].signal].hash = c
        BY ONLY <2>3, RecordFields DEF EnteredIn
      <4> QED
        BY <3>1, <3>3, <4>1, <4>2
    <3> QED
      BY <3>2, <3>3
  <2> QED
    BY <2>1, <2>2, <2>3
<1> HIDE DEF H
<1>6. KnownFits(<< >>, c, car2, H)
  BY ONLY <1>2, <1>5 DEF KnownFits
<1>7. CarriedFits(<< >>, c, car2, H)
  BY ONLY <1>2, <1>4, <1>5 DEF CarriedFits
<1>8. CurrentFits(<< >>, << >>, c, car2, H)
  BY ONLY <1>2, <1>5 DEF CurrentFits
<1>9. LogFits(<< >>, << >>, c, car2, H)
  BY ONLY <1>3, <1>6, <1>7, <1>8 DEF LogFits
<1> QED
  BY ONLY <1>9 DEF H

\* The validation of a record but an epoch agrees with the log.
LEMMA HashStep ==
    ASSUME NEW s \in Seq(Recs), NEW t, NEW c, NEW car, NEW vh, NEW k \in 1 .. Len(s),
           NoRegion \notin Region, LogFits(s, t, c, car, vh),
           NEW v \in Checks, v.hash = HashAt(s, k - 1, c, vh), v.ok, s[k].event # "epoch"
    PROVE  Check(v, s[k]) = [hash |-> HashAt(s, k, c, vh), epoch |-> v.epoch, ok |-> TRUE]
<1>1. /\ k \in DOMAIN s /\ s[k] \in Recs
      /\ \A i \in DOMAIN s : i <= k <=> i <= k - 1 \/ i = k
      /\ \A i \in DOMAIN s : i <= k - 1 => i < k /\ i # k
  <2>1. DOMAIN s = 1 .. Len(s) /\ Len(s) \in Nat
    OBVIOUS
  <2>2. s[k] \in Recs
    OBVIOUS
  <2> QED
    BY ONLY <2>1, <2>2, k \in 1 .. Len(s)
<1> DEFINE E(j) == \E i \in DOMAIN s : i <= j /\ s[i].event = "entry"
           X(j) == \E i \in DOMAIN s : i <= j /\ s[i].event = "exit"
<1>2. /\ HashAt(s, k, c, vh) = IF E(k) THEN c ELSE IF X(k) THEN NoRegion ELSE vh
      /\ HashAt(s, k - 1, c, vh) = IF E(k - 1) THEN c ELSE IF X(k - 1) THEN NoRegion ELSE vh
  BY ONLY TRUE DEF HashAt
<1>3. /\ E(k) <=> E(k - 1) \/ s[k].event = "entry"
      /\ X(k) <=> X(k - 1) \/ s[k].event = "exit"
  BY ONLY <1>1
<1>4. CASE s[k].event = "entry"
  <2>1. s[k].signal = c /\ ~E(k - 1)
    BY ONLY <1>1, <1>4, LogFits(s, t, c, car, vh) DEF LogFits, EntryFits
  <2>2. X(k - 1) \/ vh = NoRegion
    <3>1. ASSUME vh # NoRegion PROVE X(k - 1)
      <4>1. ~Untouched(s)
        BY ONLY <1>1, <1>4 DEF Untouched
      <4>2. ~NoExit(s)
        BY ONLY <3>1, <4>1, LogFits(s, t, c, car, vh) DEF LogFits, KnownFits
      <4>3. PICK i \in DOMAIN s : s[i].event = "exit"
        BY ONLY <4>2 DEF NoExit
      <4>4. ~(k < i) /\ i # k
        BY ONLY <1>1, <1>4, <4>3, LogFits(s, t, c, car, vh) DEF LogFits, ExitFits
      <4>5. i <= k - 1
        BY ONLY <4>4, k \in 1 .. Len(s), i \in DOMAIN s, s \in Seq(Recs)
      <4> QED
        BY ONLY <4>3, <4>5
    <3> QED
      BY ONLY <3>1
  <2>3. v.hash = NoRegion
    BY ONLY v.hash = HashAt(s, k - 1, c, vh), <1>2, <2>1, <2>2
  <2>4. Check(v, s[k]) = [hash |-> s[k].signal, epoch |-> v.epoch, ok |-> v.ok /\ v.hash = NoRegion]
    BY ONLY v \in Checks, <1>1, <1>4, CheckAt
  <2>5. HashAt(s, k, c, vh) = c
    BY ONLY <1>2, <1>3, <1>4
  <2> QED
    BY ONLY v.ok, <2>1, <2>3, <2>4, <2>5
<1>5. CASE s[k].event = "exit"
  <2>1. s[k].signal = vh /\ ~E(k - 1) /\ ~X(k - 1)
    BY ONLY <1>1, <1>5, LogFits(s, t, c, car, vh) DEF LogFits, ExitFits
  <2>2. v.hash = vh
    BY ONLY v.hash = HashAt(s, k - 1, c, vh), <1>2, <2>1
  <2>3. Check(v, s[k]) = [hash |-> NoRegion, epoch |-> v.epoch, ok |-> v.ok /\ v.hash = s[k].signal]
    BY ONLY v \in Checks, <1>1, <1>5, CheckAt
  <2>4. HashAt(s, k, c, vh) = NoRegion
    BY ONLY <1>2, <1>3, <1>5, <2>1
  <2> QED
    BY ONLY v.ok, <2>1, <2>2, <2>3, <2>4
<1>6. CASE s[k].event = "short"
  <2>1. Check(v, s[k]) = v
    BY ONLY v \in Checks, <1>1, <1>6, CheckAt
  <2>2. HashAt(s, k, c, vh) = v.hash
    BY ONLY v.hash = HashAt(s, k - 1, c, vh), <1>2, <1>3, <1>6
  <2> QED
    BY ONLY v \in Checks, v.ok, <2>1, <2>2 DEF Checks
<1> QED
  BY ONLY <1>1, <1>4, <1>5, <1>6, s[k].event # "epoch", RecordKinds

\* An epoch changes nothing about the region.
LEMMA HashKept ==
    ASSUME NEW s \in Seq(Recs), NEW c, NEW vh, NEW k \in 1 .. Len(s), s[k].event = "epoch"
    PROVE  HashAt(s, k, c, vh) = HashAt(s, k - 1, c, vh)
<1>1. \A i \in DOMAIN s : i <= k <=> i <= k - 1 \/ i = k
  <2>1. DOMAIN s = 1 .. Len(s) /\ Len(s) \in Nat
    OBVIOUS
  <2> QED
    BY ONLY <2>1, k \in 1 .. Len(s)
<1> QED
  BY ONLY <1>1, s[k].event = "epoch" DEF HashAt

\* Before the first record.
LEMMA HashFirst ==
    ASSUME NEW s \in Seq(Recs), NEW c, NEW vh
    PROVE  HashAt(s, 0, c, vh) = vh
<1>1. \A i \in DOMAIN s : ~(i <= 0)
  OBVIOUS
<1> QED
  BY ONLY <1>1 DEF HashAt

-----------------------------------------------------------------------------
(* Counting places.                                                         *)

\* How many of the first k places are in W.
Hits(W, k) == Cardinality(W \cap (1 .. k))

\* None of none, and one place more.
LEMMA HitsAt ==
    ASSUME NEW W, NEW k \in Nat
    PROVE  /\ Hits(W, 0) = 0 /\ Hits(W, k) \in Nat
           /\ Hits(W, k + 1) = Hits(W, k) + IF k + 1 \in W THEN 1 ELSE 0
<1>1. Hits(W, 0) = 0
  <2>1. W \cap (1 .. 0) = {}
    OBVIOUS
  <2> QED
    BY ONLY <2>1, FS_EmptySet DEF Hits
<1> DEFINE T == W \cap (1 .. k)
<1>2. IsFiniteSet(T)
  <2>1. IsFiniteSet(1 .. k)
    BY FS_Interval
  <2> QED
    BY ONLY <2>1, FS_Subset
<1>3. Cardinality(T) \in Nat
  BY ONLY <1>2, FS_CardinalityType
<1>4. k + 1 \notin T
  OBVIOUS
<1>5. CASE k + 1 \in W
  <2>1. W \cap (1 .. (k + 1)) = T \cup {k + 1}
    BY <1>5
  <2>2. Cardinality(T \cup {k + 1}) = Cardinality(T) + 1
    BY ONLY <1>2, <1>4, FS_AddElement
  <2> QED
    BY ONLY <1>1, <1>3, <1>5, <2>1, <2>2 DEF Hits
<1>6. CASE k + 1 \notin W
  <2>1. W \cap (1 .. (k + 1)) = T
    BY <1>6
  <2> QED
    BY ONLY <1>1, <1>3, <1>6, <2>1 DEF Hits
<1> QED
  BY ONLY <1>5, <1>6

\* The places of a kind of record.
Places(s, e) == {i \in DOMAIN s : s[i].event = e}

\* Places of the first records only count.
LEMMA HitsAgree ==
    ASSUME NEW W, NEW V, NEW k \in Nat, \A i \in 1 .. k : i \in W <=> i \in V
    PROVE  Hits(W, k) = Hits(V, k)
<1>1. W \cap (1 .. k) = V \cap (1 .. k)
  OBVIOUS
<1> QED
  BY ONLY <1>1 DEF Hits

\* Epoch records have the numbers that follow e, the last of them m.
Numbered(s, e, m) ==
    /\ \A i \in DOMAIN s : s[i].event = "epoch" => s[i].signal = e + Hits(Places(s, "epoch"), i)
    /\ m = e + Hits(Places(s, "epoch"), Len(s))

\* Without a filter, the records of a window pass the validation.
LEMMA PlainRun ==
    ASSUME NEW s \in Seq(Recs), NEW t, NEW c, NEW car, NEW v \in Checks, NEW m,
           NoRegion \notin Region, LogFits(s, t, c, car, v.hash), v.ok, Numbered(s, v.epoch, m)
    PROVE  FoldLeft(Check, v, s) = [hash |-> HashAt(s, Len(s), c, v.hash), epoch |-> m, ok |-> TRUE]
<1> DEFINE n == Len(s)
           vh == v.hash
           W == Places(s, "epoch")
           After(k) == [hash |-> HashAt(s, k, c, vh), epoch |-> v.epoch + Hits(W, k), ok |-> TRUE]
<1>1. n \in Nat /\ DOMAIN s = 1 .. n /\ v.epoch \in Nat
  BY DEF Checks
<1>2. PICK d : Checking(v, s, d) /\ FoldLeft(Check, v, s) = d[n]
  BY CheckRun
<1>3. d \in [0 .. n -> Checks] /\ d[0] = v /\ \A k \in 1 .. n : d[k] = Check(d[k - 1], s[k])
  BY ONLY <1>2 DEF Checking
<1> DEFINE Good == {k \in 0 .. n : d[k] = After(k)}
<1>4. 0 \in Good
  <2>1. HashAt(s, 0, c, vh) = vh
    BY HashFirst
  <2>2. v.epoch + Hits(W, 0) = v.epoch
    BY ONLY <1>1, HitsAt
  <2>3. v = [hash |-> vh, epoch |-> v.epoch, ok |-> TRUE]
    BY v.ok DEF Checks
  <2>4. d[0] = After(0)
    BY ONLY <1>3, <2>1, <2>2, <2>3
  <2> QED
    BY ONLY <1>1, <2>4
<1>5. ASSUME NEW k \in 1 .. n, k - 1 \in Good PROVE k \in Good
  <2>1. k - 1 \in 0 .. n /\ k \in 0 .. n /\ k - 1 \in Nat /\ (k - 1) + 1 = k /\ k \in DOMAIN s
    BY ONLY <1>1, k \in 1 .. n
  <2>2. d[k - 1] = After(k - 1) /\ d[k - 1] \in Checks /\ s[k] \in Recs
    <3>1. d[k - 1] = After(k - 1)
      BY ONLY <1>5
    <3>2. d[k - 1] \in Checks
      BY ONLY <1>3, <2>1
    <3>3. s[k] \in Recs
      BY ONLY s \in Seq(Recs), k \in 1 .. n
    <3> QED
      BY ONLY <3>1, <3>2, <3>3
  <2>3. Hits(W, k) = Hits(W, k - 1) + (IF k \in W THEN 1 ELSE 0) /\ Hits(W, k - 1) \in Nat
    <3> HIDE DEF W
    <3>1. /\ Hits(W, k - 1) \in Nat
          /\ Hits(W, (k - 1) + 1) = Hits(W, k - 1) + IF (k - 1) + 1 \in W THEN 1 ELSE 0
      BY ONLY <2>1, HitsAt
    <3>2. Hits(W, (k - 1) + 1) = Hits(W, k) /\ ((k - 1) + 1 \in W <=> k \in W)
      BY ONLY <2>1
    <3> QED
      BY ONLY <3>1, <3>2
  <2>4. k \in W <=> s[k].event = "epoch"
    BY ONLY <2>1 DEF Places
  <2>5. d[k - 1].hash = HashAt(s, k - 1, c, vh) /\ d[k - 1].ok
        /\ d[k - 1].epoch = v.epoch + Hits(W, k - 1)
    BY ONLY <2>2
  <2>6. CASE s[k].event = "epoch"
    <3>1. s[k].signal = v.epoch + Hits(W, k)
      BY ONLY <2>1, <2>6, Numbered(s, v.epoch, m) DEF Numbered
    <3>2. Check(d[k - 1], s[k]) = [hash |-> d[k - 1].hash, epoch |-> s[k].signal,
                                   ok |-> d[k - 1].ok /\ s[k].signal = d[k - 1].epoch + 1]
      BY ONLY <2>2, <2>6, CheckAt
    <3>3. HashAt(s, k, c, vh) = HashAt(s, k - 1, c, vh)
      BY <2>6, HashKept
    <3>4. s[k].signal = d[k - 1].epoch + 1
      BY ONLY <1>1, <2>3, <2>4, <2>5, <2>6, <3>1
    <3>5. d[k] = Check(d[k - 1], s[k])
      BY ONLY <1>3, k \in 1 .. n
    <3>6. d[k] = After(k)
      BY ONLY <2>5, <3>1, <3>2, <3>3, <3>4, <3>5
    <3> QED
      BY ONLY <2>1, <3>6
  <2>7. CASE s[k].event # "epoch"
    <3>1. Check(d[k - 1], s[k]) = [hash |-> HashAt(s, k, c, vh), epoch |-> d[k - 1].epoch, ok |-> TRUE]
      BY <2>2, <2>5, <2>7, HashStep
    <3>2. Hits(W, k) = Hits(W, k - 1)
      BY ONLY <2>3, <2>4, <2>7
    <3>3. d[k] = Check(d[k - 1], s[k])
      BY ONLY <1>3, k \in 1 .. n
    <3>4. d[k] = After(k)
      BY ONLY <2>5, <3>1, <3>2, <3>3
    <3> QED
      BY ONLY <2>1, <3>4
  <2> QED
    BY ONLY <2>6, <2>7
<1> HIDE DEF Good
<1>6. \A k \in 0 .. n : k \in Good
  <2> HIDE DEF n
  <2> QED
    BY ONLY <1>1, <1>4, <1>5, PlaceInduction
<1>7. d[n] = After(n)
  <2>1. n \in 0 .. n
    BY ONLY <1>1
  <2> QED
    BY ONLY <1>6, <2>1 DEF Good
<1>8. m = v.epoch + Hits(W, n)
  BY DEF Numbered
<1> QED
  BY ONLY <1>2, <1>7, <1>8

\* The validation of one record more.
LEMMA CheckAppend ==
    ASSUME NEW v \in Checks, NEW s \in Seq(Recs), NEW r \in Recs
    PROVE  /\ FoldLeft(Check, v, s) \in Checks
           /\ FoldLeft(Check, v, Append(s, r)) = Check(FoldLeft(Check, v, s), r)
<1> DEFINE a == Append(s, r)
           n == Len(s)
<1>1. /\ a \in Seq(Recs) /\ n \in Nat /\ Len(a) = n + 1
      /\ a[n + 1] = r /\ \A k \in 1 .. n : a[k] = s[k]
  OBVIOUS
<1> HIDE DEF a
<1>2. PICK d : Checking(v, s, d) /\ FoldLeft(Check, v, s) = d[n]
  BY CheckRun
<1>3. PICK e : Checking(v, a, e) /\ FoldLeft(Check, v, a) = e[n + 1]
  BY <1>1, CheckRun
<1>4. d \in [0 .. n -> Checks] /\ d[0] = v /\ \A k \in 1 .. n : d[k] = Check(d[k - 1], s[k])
  BY ONLY <1>2 DEF Checking
<1>5. e[0] = v /\ \A k \in 1 .. n + 1 : e[k] = Check(e[k - 1], a[k])
  BY ONLY <1>1, <1>3 DEF Checking
<1> DEFINE Good == {k \in 0 .. n : d[k] = e[k]}
<1> HIDE DEF n
<1>6. 0 \in Good
  BY ONLY <1>1, <1>4, <1>5
<1>7. ASSUME NEW k \in 1 .. n, k - 1 \in Good PROVE k \in Good
  <2>1. k \in 0 .. n /\ k \in 1 .. n + 1
    BY ONLY <1>1, k \in 1 .. n
  <2>2. d[k - 1] = e[k - 1]
    BY ONLY <1>7
  <2>3. a[k] = s[k]
    BY ONLY <1>1, k \in 1 .. n
  <2>4. d[k] = Check(d[k - 1], s[k])
    BY ONLY <1>4, k \in 1 .. n
  <2>5. e[k] = Check(e[k - 1], a[k])
    BY ONLY <1>5, <2>1
  <2> QED
    BY ONLY <2>1, <2>2, <2>3, <2>4, <2>5
<1> HIDE DEF Good
<1>8. \A k \in 0 .. n : k \in Good
  BY ONLY <1>1, <1>6, <1>7, PlaceInduction
<1>9. n \in 0 .. n /\ n + 1 \in 1 .. n + 1 /\ (n + 1) - 1 = n
  BY ONLY <1>1
<1>10. d[n] = e[n]
  BY ONLY <1>8, <1>9 DEF Good
<1>11. e[n + 1] = Check(e[(n + 1) - 1], a[n + 1])
  BY ONLY <1>5, <1>9
<1>12. e[n + 1] = Check(d[n], r)
  BY ONLY <1>1, <1>9, <1>10, <1>11
<1>13. d[n] \in Checks
  BY ONLY <1>4, <1>9
<1> QED
  BY ONLY <1>2, <1>3, <1>12, <1>13 DEF a

\* and of none.
LEMMA CheckNone ==
    ASSUME NEW v \in Checks
    PROVE  FoldLeft(Check, v, << >>) = v
<1>1. << >> \in Seq(Recs) /\ Len(<< >>) = 0
  OBVIOUS
<1>2. PICK d : Checking(v, << >>, d) /\ FoldLeft(Check, v, << >>) = d[Len(<< >>)]
  BY ONLY v \in Checks, <1>1, CheckRun
<1> QED
  BY ONLY <1>1, <1>2 DEF Checking

-----------------------------------------------------------------------------
(* The filter.                                                              *)

FilterStates == [count : Int, out : Seq(Recs)]

\* Epochs made up for n entries, those of the start-up counted down to 0.
Made(n) == IF n <= 0 THEN 0 ELSE 1 + ((n - 1) \div filter.calls)

\* The quotient grows where the remainder is 0.
LEMMA DivStep ==
    ASSUME NEW c \in Nat, NEW b \in Nat, b # 0, c # 0
    PROVE  /\ c \div b \in Nat /\ (c - 1) \div b \in Nat
           /\ c % b = 0 => c \div b = (c - 1) \div b + 1
           /\ c % b # 0 => c \div b = (c - 1) \div b
  OBVIOUS

\* What the filter makes up continues the count.
LEMMA MadeStep ==
    ASSUME NEW c \in Int, filter.calls \in Nat \ {0}
    PROVE  /\ Made(c) \in Nat
           /\ IsProxyEpoch(c) => ProxySignal(c) = Made(c) + 1 /\ Made(c + 1) = Made(c) + 1
           /\ ~IsProxyEpoch(c) => Made(c + 1) = Made(c)
<1> DEFINE b == filter.calls
<1>1. b \in Nat /\ b # 0
  OBVIOUS
<1> HIDE DEF b
<1>2. CASE c < 0
  <2>1. c <= 0 /\ c + 1 <= 0 /\ ~(c >= 0)
    BY <1>2
  <2> QED
    BY ONLY <2>1 DEF Made, IsProxyEpoch
<1>3. CASE c = 0
  <2>1. 0 % b = 0 /\ 0 \div b = 0
    BY ONLY <1>1
  <2>2. Made(0) = 0 /\ Made(1) = 1
    BY ONLY <2>1 DEF Made, b
  <2>3. ProxySignal(0) = 1 /\ IsProxyEpoch(0)
    BY ONLY <2>1 DEF ProxySignal, IsProxyEpoch, b
  <2> QED
    BY ONLY <1>3, <2>2, <2>3
<1>4. CASE c > 0
  <2>1. c \in Nat /\ c # 0 /\ c >= 0 /\ ~(c <= 0) /\ ~(c + 1 <= 0) /\ (c + 1) - 1 = c
    BY <1>4
  <2>2. /\ c \div b \in Nat /\ (c - 1) \div b \in Nat
        /\ c % b = 0 => c \div b = (c - 1) \div b + 1
        /\ c % b # 0 => c \div b = (c - 1) \div b
    BY ONLY <1>1, <2>1, DivStep
  <2>3. Made(c) = 1 + ((c - 1) \div b) /\ Made(c + 1) = 1 + (c \div b)
    BY ONLY <2>1 DEF Made, b
  <2>4. ProxySignal(c) = 1 + (c \div b) /\ (IsProxyEpoch(c) <=> c % b = 0)
    BY ONLY <2>1 DEF ProxySignal, IsProxyEpoch, b
  <2> QED
    BY ONLY <2>2, <2>3, <2>4
<1> QED
  BY <1>2, <1>3, <1>4

IsProxyEntry(r) == r = Record("entry", Proxy)

\* What the filter does with a record.
LEMMA FilterAt ==
    ASSUME NEW f \in FilterStates, NEW r \in Recs, filter.calls \in Nat \ {0}
    PROVE  /\ FilterRecord(f, r) \in FilterStates
           /\ r.event = "epoch" => FilterRecord(f, r) = f
           /\ r.event # "epoch" => \/ FilterRecord(f, r).out = Append(f.out, r)
                                      /\ ~(IsProxyEntry(r) /\ IsProxyEpoch(f.count))
                                   \/ FilterRecord(f, r).out =
                                        Append(Append(f.out, r), Record("epoch", ProxySignal(f.count)))
                                      /\ IsProxyEntry(r) /\ IsProxyEpoch(f.count)
           /\ FilterRecord(f, r).count = f.count + IF IsProxyEntry(r) THEN 1 ELSE 0
<1>1. f.count \in Int /\ f.out \in Seq(Recs) /\ f = [count |-> f.count, out |-> f.out]
  BY DEF FilterStates
<1>2. Append(f.out, r) \in Seq(Recs)
  BY <1>1
<1>3. CASE r.event = "epoch"
  <2>1. FilterRecord(f, r) = f
    BY ONLY <1>3 DEF FilterRecord
  <2>2. ~IsProxyEntry(r)
    BY ONLY <1>3, RecordFields DEF IsProxyEntry
  <2> QED
    BY ONLY f \in FilterStates, <1>1, <1>3, <2>1, <2>2
<1>4. CASE r.event # "epoch" /\ ~IsProxyEntry(r)
  <2>1. FilterRecord(f, r) = [f EXCEPT !.out = Append(@, r)]
    BY ONLY <1>4 DEF FilterRecord, IsProxyEntry
  <2>2. FilterRecord(f, r) = [count |-> f.count, out |-> Append(f.out, r)]
    BY ONLY <1>1, <2>1
  <2> QED
    BY ONLY <1>1, <1>2, <1>4, <2>2 DEF FilterStates
<1>5. CASE r.event # "epoch" /\ IsProxyEntry(r) /\ IsProxyEpoch(f.count)
  <2> DEFINE e == Record("epoch", ProxySignal(f.count))
  <2>1. FilterRecord(f, r) = [count |-> f.count + 1, out |-> f.out \o <<r>> \o <<e>>]
    BY ONLY <1>5 DEF FilterRecord, IsProxyEntry
  <2>2. e \in Recs
    <3>1. ProxySignal(f.count) \in Nat
      <4>1. /\ Made(f.count) \in Nat
            /\ IsProxyEpoch(f.count) => ProxySignal(f.count) = Made(f.count) + 1
        BY <1>1, MadeStep
      <4> QED
        BY ONLY <1>5, <4>1
    <3> QED
      BY ONLY <3>1 DEF Record, Recs
  <2> HIDE DEF e
  <2>3. f.out \o <<r>> \o <<e>> = Append(Append(f.out, r), e)
    BY ONLY <1>1, r \in Recs, <2>2
  <2>4. Append(Append(f.out, r), e) \in Seq(Recs)
    BY ONLY <1>2, <2>2
  <2>5. f.count + 1 \in Int
    BY ONLY <1>1
  <2>6. FilterRecord(f, r) = [count |-> f.count + 1, out |-> Append(Append(f.out, r), e)]
    BY ONLY <2>1, <2>3
  <2> QED
    BY ONLY <1>5, <2>4, <2>5, <2>6 DEF FilterStates, e
<1>6. CASE r.event # "epoch" /\ IsProxyEntry(r) /\ ~IsProxyEpoch(f.count)
  <2>1. FilterRecord(f, r) = [count |-> f.count + 1, out |-> f.out \o <<r>> \o << >>]
    BY ONLY <1>6 DEF FilterRecord, IsProxyEntry
  <2>2. f.out \o <<r>> \o << >> = Append(f.out, r)
    BY ONLY <1>1, r \in Recs
  <2>3. f.count + 1 \in Int
    BY ONLY <1>1
  <2>4. FilterRecord(f, r) = [count |-> f.count + 1, out |-> Append(f.out, r)]
    BY ONLY <2>1, <2>2
  <2> QED
    BY ONLY <1>2, <1>6, <2>3, <2>4 DEF FilterStates
<1> QED
  BY ONLY <1>3, <1>4, <1>5, <1>6

\* The states that the filter goes through.
Filtering(v, s, c) ==
    /\ c \in [0 .. Len(s) -> FilterStates] /\ c[0] = v
    /\ \A k \in 1 .. Len(s) : c[k] = FilterRecord(c[k - 1], s[k])

\* They end with what it makes of the whole sequence.
LEMMA FilterRun ==
    ASSUME NEW v \in FilterStates, NEW s \in Seq(Recs), filter.calls \in Nat \ {0}
    PROVE  \E c : Filtering(v, s, c) /\ FoldLeft(FilterRecord, v, s) = c[Len(s)]
<1> DEFINE n == Len(s)
           step == [i \in 1 .. n |-> [x \in FilterStates |-> FilterRecord(x, s[i])]]
           Solves(e) == e = [T \in SUBSET (DOMAIN s) |->
                               IF T = {} THEN v ELSE FilterRecord(e[T \ {Max(T)}], s[Max(T)])]
           G == CHOOSE e : Solves(e)
<1>1. n \in Nat /\ DOMAIN s = 1 .. n
  OBVIOUS
<1>2. FoldLeft(FilterRecord, v, s) = G[DOMAIN s]
  BY DEF FoldLeft, MapThenFoldSet
<1>3. \A i \in 1 .. n : \A x \in FilterStates : FilterRecord(x, s[i]) \in FilterStates
  <2>1. \A i \in 1 .. n : s[i] \in Recs
    OBVIOUS
  <2> QED
    BY ONLY filter.calls \in Nat \ {0}, <2>1, FilterAt
<1>4. step \in [1 .. n -> [FilterStates -> FilterStates]]
  BY ONLY <1>3
<1>5. v \in FilterStates
  OBVIOUS
<1>6. \A i \in 1 .. n : \A x \in FilterStates : step[i][x] = FilterRecord(x, s[i])
  BY ONLY TRUE
<1>7. \A T \in SUBSET (1 .. n) : T # {} => Max(T) \in 1 .. n /\ T \ {Max(T)} \in SUBSET (1 .. n)
  <2>1. \A T \in SUBSET (1 .. n) : T # {} => Max(T) \in T
    BY ONLY <1>1, MaxIn
  <2> QED
    BY ONLY <2>1
<1> HIDE DEF n, step
<1>8. PICK g \in [SUBSET (1 .. n) -> FilterStates] :
         \A T \in SUBSET (1 .. n) : FoldsAt(n, v, step, g, T)
  BY ONLY <1>1, <1>4, <1>5, FoldsExist
<1>9. Solves(g)
  <2>1. ASSUME NEW T \in SUBSET (1 .. n)
        PROVE  g[T] = IF T = {} THEN v ELSE FilterRecord(g[T \ {Max(T)}], s[Max(T)])
    BY ONLY T \in SUBSET (1 .. n), g \in [SUBSET (1 .. n) -> FilterStates], <1>6, <1>7, <1>8 DEF FoldsAt
  <2> QED
    BY ONLY <1>1, <1>8, <2>1
<1>10. Solves(G)
  <2> HIDE DEF Solves
  <2> QED
    BY ONLY <1>9
<1> HIDE DEF G
<1>11. G[{}] = v
  BY ONLY <1>10
<1>12. FoldsFrom(n, FilterStates, v, step, G)
  <2>1. ASSUME NEW T \in SUBSET (1 .. n), T # {}, G[T \ {Max(T)}] \in FilterStates
        PROVE  G[T] = step[Max(T)][G[T \ {Max(T)}]]
    <3>1. G[T] = FilterRecord(G[T \ {Max(T)}], s[Max(T)])
      BY ONLY T \in SUBSET (1 .. n), <1>1, <1>10, <2>1
    <3> QED
      BY ONLY T \in SUBSET (1 .. n), <1>6, <1>7, <2>1, <3>1
  <2> QED
    BY ONLY <1>11, <2>1 DEF FoldsFrom
<1> HIDE DEF Solves
<1>13. PICK c : StepChain(n, FilterStates, v, step, c) /\ c[n] = G[1 .. n]
  BY ONLY <1>1, <1>4, <1>5, <1>12, FoldChain
<1>14. \A k \in 1 .. n : k - 1 \in 0 .. n
  BY ONLY <1>1
<1>15. Filtering(v, s, c)
  BY ONLY <1>6, <1>13, <1>14 DEF StepChain, Filtering, n
<1> QED
  BY ONLY <1>1, <1>2, <1>13, <1>15 DEF n

\* What is let through comes from the log: each short record from one of its own.
Passed(o, s, k) ==
    /\ \A i \in DOMAIN o : o[i].event = "short" => \E j \in 1 .. k : s[j] = o[i]
    /\ \A i, j \in DOMAIN o : i # j /\ o[i].event = "short" /\ o[j].event = "short"
                                => o[i].signal # o[j].signal

\* One more is let through.
LEMMA PassedMore ==
    ASSUME NEW S, NEW o \in Seq(S), NEW s, NEW k, NEW l, NEW r \in S, Passed(o, s, k),
           1 .. k \subseteq 1 .. l,
           r.event = "short" => \E j \in 1 .. l : s[j] = r,
           r.event = "short" => \A j \in 1 .. k : s[j].event = "short" => s[j].signal # r.signal
    PROVE  Passed(Append(o, r), s, l)
<1> DEFINE a == Append(o, r)
           n == Len(o) + 1
<1>1. Longer(o, a, r)
  BY AppendLonger
<1> HIDE DEF a
<1>2. DOMAIN a = DOMAIN o \cup {n} /\ n \notin DOMAIN o /\ a[n] = r /\ \A i \in DOMAIN o : a[i] = o[i]
  BY ONLY <1>1 DEF Longer
<1> HIDE DEF n
<1>3. \A i \in DOMAIN o : o[i].event = "short" =>
         /\ \E j \in 1 .. l : s[j] = o[i]
         /\ r.event = "short" => o[i].signal # r.signal
  BY DEF Passed
<1>4. \A i, j \in DOMAIN o : i # j /\ o[i].event = "short" /\ o[j].event = "short"
                                => o[i].signal # o[j].signal
  BY DEF Passed
<1>5. ASSUME NEW i \in DOMAIN a, a[i].event = "short" PROVE \E j \in 1 .. l : s[j] = a[i]
  BY ONLY <1>2, <1>3, <1>5, r.event = "short" => \E j \in 1 .. l : s[j] = r
<1>6. ASSUME NEW i \in DOMAIN a, NEW j \in DOMAIN a, i # j,
             a[i].event = "short", a[j].event = "short"
      PROVE  a[i].signal # a[j].signal
  BY ONLY <1>2, <1>3, <1>4, <1>6
<1>7. Passed(a, s, l)
  BY ONLY <1>5, <1>6 DEF Passed
<1> QED
  BY ONLY <1>7 DEF a

\* The same is let through of a longer log.
LEMMA PassedKept ==
    ASSUME NEW o, NEW s, NEW k, NEW l, Passed(o, s, k), 1 .. k \subseteq 1 .. l
    PROVE  Passed(o, s, l)
  BY DEF Passed

ProxyEntries(s) == {i \in DOMAIN s : s[i] = Record("entry", Proxy)}

\* What the validation gives when the filter has made its epochs.
Validated(s, c, vh, k, count) ==
    [hash |-> HashAt(s, k, c, vh), epoch |-> Made(count), ok |-> TRUE]

\* One record of the log, through the filter and the validation.
LEMMA FilterStep ==
    ASSUME NEW s \in Seq(Recs), NEW t, NEW c, NEW car, NEW v \in Checks, NEW k \in 1 .. Len(s),
           NEW f \in FilterStates, filter.calls \in Nat \ {0},
           NoRegion \notin Region, LogFits(s, t, c, car, v.hash),
           FoldLeft(Check, v, f.out) = Validated(s, c, v.hash, k - 1, f.count),
           Passed(f.out, s, k - 1)
    PROVE  LET g == FilterRecord(f, s[k]) IN
             /\ FoldLeft(Check, v, g.out) = Validated(s, c, v.hash, k, g.count)
             /\ Passed(g.out, s, k)
<1> DEFINE g == FilterRecord(f, s[k])
           r == s[k]
           vh == v.hash
           w == FoldLeft(Check, v, f.out)
<1>1. /\ r \in Recs /\ f.out \in Seq(Recs) /\ f.count \in Int
      /\ k \in 1 .. k /\ 1 .. (k - 1) \subseteq 1 .. k /\ k \in DOMAIN s
      /\ \A j \in 1 .. (k - 1) : j \in DOMAIN s /\ j # k
  <2>1. DOMAIN s = 1 .. Len(s) /\ Len(s) \in Nat
    OBVIOUS
  <2>2. r \in Recs /\ f.out \in Seq(Recs) /\ f.count \in Int
    BY DEF FilterStates
  <2> QED
    BY ONLY <2>1, <2>2, k \in 1 .. Len(s)
<1>2. /\ g \in FilterStates
      /\ r.event = "epoch" => g = f
      /\ r.event # "epoch" => \/ g.out = Append(f.out, r) /\ ~(IsProxyEntry(r) /\ IsProxyEpoch(f.count))
                              \/ g.out = Append(Append(f.out, r), Record("epoch", ProxySignal(f.count)))
                                 /\ IsProxyEntry(r) /\ IsProxyEpoch(f.count)
      /\ g.count = f.count + IF IsProxyEntry(r) THEN 1 ELSE 0
  BY ONLY <1>1, f \in FilterStates, filter.calls \in Nat \ {0}, FilterAt
<1>3. /\ Made(f.count) \in Nat
      /\ IsProxyEpoch(f.count) =>
           ProxySignal(f.count) = Made(f.count) + 1 /\ Made(f.count + 1) = Made(f.count) + 1
      /\ ~IsProxyEpoch(f.count) => Made(f.count + 1) = Made(f.count)
  BY ONLY <1>1, filter.calls \in Nat \ {0}, MadeStep
<1>4. w \in Checks /\ FoldLeft(Check, v, Append(f.out, r)) = Check(w, r)
  BY ONLY <1>1, v \in Checks, CheckAppend
<1>5. w = [hash |-> HashAt(s, k - 1, c, vh), epoch |-> Made(f.count), ok |-> TRUE]
  BY DEF Validated
<1>6. w.hash = HashAt(s, k - 1, c, vh) /\ w.ok /\ w.epoch = Made(f.count)
  BY ONLY <1>5
<1> HIDE DEF g, w
<1>7. CASE r.event = "epoch"
  <2>1. HashAt(s, k, c, vh) = HashAt(s, k - 1, c, vh)
    BY <1>7, HashKept
  <2>2. FoldLeft(Check, v, g.out) = Validated(s, c, vh, k, g.count)
    BY ONLY <1>2, <1>5, <1>7, <2>1 DEF Validated, w
  <2>3. Passed(g.out, s, k)
    BY ONLY <1>1, <1>2, <1>7, Passed(f.out, s, k - 1), PassedKept
  <2> QED
    BY ONLY <2>2, <2>3 DEF g
<1>8. CASE r.event # "epoch"
  <2>1. Check(w, r) = [hash |-> HashAt(s, k, c, vh), epoch |-> w.epoch, ok |-> TRUE]
    BY <1>4, <1>6, <1>8, HashStep
  <2>2. Passed(Append(f.out, r), s, k)
    <3>1. r.event = "short" => \E j \in 1 .. k : s[j] = r
      BY ONLY <1>1
    <3>2. r.event = "short" => \A j \in 1 .. (k - 1) : s[j].event = "short" => s[j].signal # r.signal
      BY ONLY <1>1, LogFits(s, t, c, car, v.hash) DEF LogFits, Booked
    <3> QED
      BY ONLY <1>1, <3>1, <3>2, Passed(f.out, s, k - 1), PassedMore
  <2>3. CASE g.out = Append(f.out, r) /\ ~(IsProxyEntry(r) /\ IsProxyEpoch(f.count))
    <3>1. Made(g.count) = Made(f.count)
      <4>1. f.count + 0 = f.count
        BY ONLY <1>1
      <4> QED
        BY ONLY <1>2, <1>3, <2>3, <4>1
    <3>2. FoldLeft(Check, v, g.out) = Validated(s, c, vh, k, g.count)
      BY ONLY <1>4, <1>6, <2>1, <2>3, <3>1 DEF Validated
    <3> QED
      BY ONLY <2>2, <2>3, <3>2 DEF g
  <2>4. CASE /\ g.out = Append(Append(f.out, r), Record("epoch", ProxySignal(f.count)))
             /\ IsProxyEntry(r) /\ IsProxyEpoch(f.count)
    <3> DEFINE e == Record("epoch", ProxySignal(f.count))
               a == Append(f.out, r)
    <3>1. ProxySignal(f.count) = Made(f.count) + 1 /\ ProxySignal(f.count) \in Nat
      BY ONLY <1>3, <2>4
    <3>2. e.event = "epoch" /\ e.signal = ProxySignal(f.count) /\ e \in Recs
      BY ONLY <3>1 DEF Record, Recs
    <3>3. a \in Seq(Recs)
      BY ONLY <1>1
    <3> HIDE DEF e, a
    <3>4. FoldLeft(Check, v, Append(a, e)) = Check(Check(w, r), e) /\ Check(w, r) \in Checks
      <4>1. /\ FoldLeft(Check, v, a) \in Checks
            /\ FoldLeft(Check, v, Append(a, e)) = Check(FoldLeft(Check, v, a), e)
        BY ONLY v \in Checks, <3>2, <3>3, CheckAppend
      <4>2. FoldLeft(Check, v, a) = Check(w, r)
        BY ONLY <1>4 DEF a
      <4> QED
        BY ONLY <4>1, <4>2
    <3> DEFINE x == Check(w, r)
    <3>5. x.hash = HashAt(s, k, c, vh) /\ x.epoch = Made(f.count) /\ x.ok
      BY ONLY <1>6, <2>1
    <3> HIDE DEF x
    <3>6. Check(x, e) = [hash |-> x.hash, epoch |-> e.signal, ok |-> x.ok /\ e.signal = x.epoch + 1]
      BY ONLY <3>2, <3>4, CheckAt DEF x
    <3>7. Made(g.count) = Made(f.count) + 1
      BY ONLY <1>2, <1>3, <2>4
    <3>8. Check(x, e) = Validated(s, c, vh, k, g.count)
      BY ONLY <3>1, <3>2, <3>5, <3>6, <3>7 DEF Validated
    <3>9. Passed(Append(a, e), s, k)
      <4>1. e.event # "short"
        BY ONLY <3>2
      <4>2. Passed(a, s, k) /\ 1 .. k \subseteq 1 .. k
        BY ONLY <2>2 DEF a
      <4> QED
        BY ONLY <3>2, <3>3, <4>1, <4>2, PassedMore
    <3>10. g.out = Append(a, e)
      BY ONLY <2>4 DEF a, e
    <3> QED
      BY ONLY <3>4, <3>8, <3>9, <3>10 DEF g, x
  <2> QED
    BY ONLY <1>2, <1>8, <2>3, <2>4
<1> QED
  BY ONLY <1>7, <1>8 DEF g

\* The records of a window pass the validation behind the filter.
FilterGives(g, s, c, v, st) ==
    /\ g \in FilterStates
    /\ FoldLeft(Check, v, g.out) = Validated(s, c, v.hash, Len(s), g.count)
    /\ Passed(g.out, s, Len(s))
    /\ g.count = st.count + Hits(ProxyEntries(s), Len(s))

\* A filtered window does.
LEMMA FilterPasses ==
    ASSUME NEW s \in Seq(Recs), NEW t, NEW c, NEW car, NEW v \in Checks, NEW st \in FilterStates,
           st.out = << >>, filter.calls \in Nat \ {0},
           NoRegion \notin Region, LogFits(s, t, c, car, v.hash), v.ok, v.epoch = Made(st.count)
    PROVE  FilterGives(FoldLeft(FilterRecord, st, s), s, c, v, st)
<1> DEFINE n == Len(s)
           W == ProxyEntries(s)
<1>1. n \in Nat /\ DOMAIN s = 1 .. n /\ st.count \in Int
  BY DEF FilterStates
<1>2. PICK f : Filtering(st, s, f) /\ FoldLeft(FilterRecord, st, s) = f[n]
  BY FilterRun
<1>3. f \in [0 .. n -> FilterStates] /\ f[0] = st /\ \A k \in 1 .. n : f[k] = FilterRecord(f[k - 1], s[k])
  BY ONLY <1>2 DEF Filtering
<1> DEFINE Fine(k) == /\ FoldLeft(Check, v, f[k].out) = Validated(s, c, v.hash, k, f[k].count)
                      /\ Passed(f[k].out, s, k)
                      /\ f[k].count = st.count + Hits(W, k)
           Good == {k \in 0 .. n : Fine(k)}
<1>4. Fine(0)
  <2>1. FoldLeft(Check, v, << >>) = v
    BY CheckNone
  <2>2. HashAt(s, 0, c, v.hash) = v.hash
    BY HashFirst
  <2>3. v = [hash |-> v.hash, epoch |-> v.epoch, ok |-> TRUE]
    BY v.ok DEF Checks
  <2>4. FoldLeft(Check, v, f[0].out) = Validated(s, c, v.hash, 0, f[0].count)
    BY ONLY <1>3, st.out = << >>, v.epoch = Made(st.count), <2>1, <2>2, <2>3 DEF Validated
  <2>5. DOMAIN (<< >>) = {}
    OBVIOUS
  <2>6. Passed(f[0].out, s, 0)
    BY ONLY <1>3, st.out = << >>, <2>5 DEF Passed
  <2>7. Hits(W, 0) = 0
    BY ONLY HitsAt, 0 \in Nat
  <2>8. f[0].count = st.count + Hits(W, 0)
    BY ONLY <1>1, <1>3, <2>7
  <2> QED
    BY ONLY <2>4, <2>6, <2>8
<1>5. ASSUME NEW k \in 1 .. n, k - 1 \in Good PROVE k \in Good
  <2>1. k \in 0 .. n /\ k - 1 \in 0 .. n /\ k - 1 \in Nat /\ (k - 1) + 1 = k /\ k \in DOMAIN s
    BY ONLY <1>1, k \in 1 .. n
  <2>2. Fine(k - 1)
    BY ONLY <1>5
  <2>3. f[k - 1] \in FilterStates
    BY ONLY <1>3, <2>1
  <2>4. f[k] = FilterRecord(f[k - 1], s[k])
    BY ONLY <1>3, k \in 1 .. n
  <2>5. /\ FoldLeft(Check, v, f[k - 1].out) = Validated(s, c, v.hash, k - 1, f[k - 1].count)
        /\ Passed(f[k - 1].out, s, k - 1)
        /\ f[k - 1].count = st.count + Hits(W, k - 1)
    BY ONLY <2>2
  <2>6. /\ FoldLeft(Check, v, f[k].out) = Validated(s, c, v.hash, k, f[k].count)
        /\ Passed(f[k].out, s, k)
    <3> DEFINE e == f[k - 1]
               g == FilterRecord(e, s[k])
    <3>1. /\ FoldLeft(Check, v, e.out) = Validated(s, c, v.hash, k - 1, e.count)
          /\ Passed(e.out, s, k - 1) /\ e \in FilterStates /\ k \in 1 .. Len(s)
      BY ONLY <2>3, <2>5, k \in 1 .. n
    <3> HIDE DEF e
    <3>2. /\ FoldLeft(Check, v, g.out) = Validated(s, c, v.hash, k, g.count)
          /\ Passed(g.out, s, k)
      BY ONLY <3>1, FilterStep, s \in Seq(Recs), v \in Checks,
              filter.calls \in Nat \ {0}, NoRegion \notin Region, LogFits(s, t, c, car, v.hash)
    <3>3. f[k] = g
      BY ONLY <2>4 DEF e
    <3> HIDE DEF g
    <3> QED
      BY ONLY <3>2, <3>3
  <2>7. f[k].count = f[k - 1].count + IF k \in W THEN 1 ELSE 0
    <3>1. s[k] \in Recs
      BY ONLY s \in Seq(Recs), k \in 1 .. n
    <3>2. FilterRecord(f[k - 1], s[k]).count = f[k - 1].count + IF IsProxyEntry(s[k]) THEN 1 ELSE 0
      BY ONLY <2>3, <3>1, filter.calls \in Nat \ {0}, FilterAt
    <3>3. IsProxyEntry(s[k]) <=> k \in W
      BY ONLY <2>1 DEF IsProxyEntry, ProxyEntries
    <3> QED
      BY ONLY <2>4, <3>2, <3>3
  <2>8. f[k].count = st.count + Hits(W, k)
    <3> HIDE DEF W
    <3>1. /\ Hits(W, k - 1) \in Nat
          /\ Hits(W, (k - 1) + 1) = Hits(W, k - 1) + IF (k - 1) + 1 \in W THEN 1 ELSE 0
      BY ONLY <2>1, HitsAt
    <3>2. Hits(W, (k - 1) + 1) = Hits(W, k) /\ ((k - 1) + 1 \in W <=> k \in W)
      BY ONLY <2>1
    <3>3. Hits(W, k) = Hits(W, k - 1) + IF k \in W THEN 1 ELSE 0
      BY ONLY <3>1, <3>2
    <3> QED
      BY ONLY <1>1, <2>5, <2>7, <3>1, <3>3
  <2> QED
    BY ONLY <2>1, <2>6, <2>8
<1>6. 0 \in Good
  <2>1. 0 \in 0 .. n
    BY ONLY <1>1
  <2> QED
    BY ONLY <1>4, <2>1
<1> HIDE DEF Good
<1>7. \A k \in 0 .. n : k \in Good
  <2> HIDE DEF n
  <2> QED
    BY ONLY <1>1, <1>5, <1>6, PlaceInduction
<1>8. n \in 0 .. n
  BY ONLY <1>1
<1>9. Fine(n)
  BY ONLY <1>7, <1>8 DEF Good
<1>10. f[n] \in FilterStates
  BY ONLY <1>3, <1>8
<1>11. FilterGives(f[n], s, c, v, st)
  BY ONLY <1>9, <1>10 DEF FilterGives
<1> QED
  BY ONLY <1>2, <1>11

-----------------------------------------------------------------------------
(* Sequences one behind the other.                                          *)

\* The first ones of them, for any number.
Chaining(n, q, Q, c) ==
    /\ c \in [0 .. n -> Q] /\ c[0] = << >>
    /\ \A k \in 1 .. n : c[k] = c[k - 1] \o q[k]

\* There is such a chain, and it ends with all.
LEMMA ChainRun ==
    ASSUME NEW n \in Nat, NEW Q, << >> \in Q, \A x, y \in Q : (x \o y) \in Q, NEW s \in [1 .. n -> Q]
    PROVE  \E c : Chaining(n, s, Q, c) /\ FoldLeft(\o, << >>, s) = c[n]
<1> DEFINE step == [i \in 1 .. n |-> [x \in Q |-> (x \o s[i])]]
           Solves(e) == e = [T \in SUBSET (DOMAIN s) |->
                               IF T = {} THEN << >> ELSE (e[T \ {Max(T)}] \o s[Max(T)])]
           G == CHOOSE e : Solves(e)
<1>1. n \in Nat /\ DOMAIN s = 1 .. n
  OBVIOUS
<1>2. FoldLeft(\o, << >>, s) = G[DOMAIN s]
  BY DEF FoldLeft, MapThenFoldSet
<1>3. \A i \in 1 .. n : \A x \in Q : (x \o s[i]) \in Q
  BY ONLY s \in [1 .. n -> Q], \A x, y \in Q : (x \o y) \in Q
<1>4. step \in [1 .. n -> [Q -> Q]]
  BY ONLY <1>3
<1>5. << >> \in Q
  OBVIOUS
<1>6. \A i \in 1 .. n : \A x \in Q : step[i][x] = (x \o s[i])
  BY ONLY TRUE
<1>7. \A T \in SUBSET (1 .. n) : T # {} => Max(T) \in 1 .. n /\ T \ {Max(T)} \in SUBSET (1 .. n)
  <2>1. \A T \in SUBSET (1 .. n) : T # {} => Max(T) \in T
    BY ONLY <1>1, MaxIn
  <2> QED
    BY ONLY <2>1
<1> HIDE DEF step
<1>8. PICK g \in [SUBSET (1 .. n) -> Q] :
         \A T \in SUBSET (1 .. n) : FoldsAt(n, << >>, step, g, T)
  BY ONLY <1>1, <1>4, <1>5, FoldsExist
<1>9. Solves(g)
  <2>1. ASSUME NEW T \in SUBSET (1 .. n)
        PROVE  g[T] = IF T = {} THEN << >> ELSE (g[T \ {Max(T)}] \o s[Max(T)])
    BY ONLY T \in SUBSET (1 .. n), g \in [SUBSET (1 .. n) -> Q], <1>6, <1>7, <1>8 DEF FoldsAt
  <2> QED
    BY ONLY <1>1, <1>8, <2>1
<1>10. Solves(G)
  <2> HIDE DEF Solves
  <2> QED
    BY ONLY <1>9
<1> HIDE DEF G
<1>11. G[{}] = << >>
  BY ONLY <1>10
<1>12. FoldsFrom(n, Q, << >>, step, G)
  <2>1. ASSUME NEW T \in SUBSET (1 .. n), T # {}, G[T \ {Max(T)}] \in Q
        PROVE  G[T] = step[Max(T)][G[T \ {Max(T)}]]
    <3>1. G[T] = (G[T \ {Max(T)}] \o s[Max(T)])
      BY ONLY T \in SUBSET (1 .. n), <1>1, <1>10, <2>1
    <3> QED
      BY ONLY T \in SUBSET (1 .. n), <1>6, <1>7, <2>1, <3>1
  <2> QED
    BY ONLY <1>11, <2>1 DEF FoldsFrom
<1> HIDE DEF Solves
<1>13. PICK c : StepChain(n, Q, << >>, step, c) /\ c[n] = G[1 .. n]
  BY ONLY <1>1, <1>4, <1>5, <1>12, FoldChain
<1>14. \A k \in 1 .. n : k - 1 \in 0 .. n
  BY ONLY <1>1
<1>15. Chaining(n, s, Q, c)
  BY ONLY <1>6, <1>13, <1>14 DEF StepChain, Chaining
<1> QED
  BY ONLY <1>1, <1>2, <1>13, <1>15

\* What is in one of them is in all of them, as many places later as the ones before have.
FlatAt(S, t, all, offset) ==
    /\ all \in Seq(S) /\ offset \in Nat
    /\ \A q \in 1 .. Len(t) :
         q \in DOMAIN all /\ offset + q \in DOMAIN all /\ all[offset + q] = t[q]

\* It is so of each of them.
LEMMA FlatPlaces ==
    ASSUME NEW N \in Nat, NEW S, NEW T \in [1 .. N -> Seq(S)], NEW p \in 1 .. N
    PROVE  FlatAt(S, T[p], FoldLeft(\o, << >>, T),
                  Len(FoldLeft(\o, << >>, SubSeq(T, 1, p - 1))))
<1> DEFINE Q == Seq(S)
           B == SubSeq(T, 1, p - 1)
           m == p - 1
<1>1. << >> \in Q /\ \A x, y \in Q : (x \o y) \in Q
  OBVIOUS
<1>2. m \in Nat /\ m \in 0 .. N /\ m + 1 = p /\ p \in 0 .. N /\ p \in Nat
  BY ONLY N \in Nat, p \in 1 .. N
<1>3. B \in [1 .. m -> Q] /\ \A k \in 1 .. m : B[k] = T[k]
  <2>1. T \in Seq(Q) /\ Len(T) = N
    OBVIOUS
  <2> HIDE DEF Q
  <2>2. B \in Seq(Q) /\ Len(B) = m /\ \A k \in 1 .. m : B[k] = T[k]
    BY ONLY <1>2, <2>1, N \in Nat, p \in 1 .. N
  <2>3. DOMAIN B = 1 .. m /\ \A k \in 1 .. m : B[k] \in Q
    BY ONLY <1>2, <2>2
  <2>4. B = [k \in DOMAIN B |-> B[k]]
    BY ONLY <2>2
  <2> QED
    BY ONLY <2>2, <2>3, <2>4
<1> HIDE DEF B, m
<1>4. PICK c : Chaining(N, T, Q, c) /\ FoldLeft(\o, << >>, T) = c[N]
  <2> HIDE DEF Q
  <2>1. T \in [1 .. N -> Q]
    BY DEF Q
  <2> QED
    BY ONLY N \in Nat, <1>1, <2>1, ChainRun
<1>5. PICK d : Chaining(m, B, Q, d) /\ FoldLeft(\o, << >>, B) = d[m]
  <2> HIDE DEF Q
  <2> QED
    BY ONLY <1>1, <1>2, <1>3, ChainRun
<1>6. /\ \A k \in 0 .. N : c[k] \in Q
      /\ c[0] = << >> /\ \A k \in 1 .. N : c[k] = c[k - 1] \o T[k]
  BY ONLY <1>4 DEF Chaining
<1>7. d[0] = << >> /\ \A k \in 1 .. m : d[k] = d[k - 1] \o B[k]
  BY ONLY <1>5 DEF Chaining
<1>8. d[m] = c[m]
  <2> DEFINE Same == {k \in 0 .. m : d[k] = c[k]}
  <2>1. 0 \in Same
    BY ONLY <1>2, <1>6, <1>7
  <2>2. ASSUME NEW k \in 1 .. m, k - 1 \in Same PROVE k \in Same
    <3>1. k \in 1 .. N /\ k \in 0 .. m
      BY ONLY <1>2, k \in 1 .. m, N \in Nat
    <3>2. d[k - 1] = c[k - 1]
      BY ONLY <2>2
    <3>3. d[k] = d[k - 1] \o T[k]
      BY ONLY <1>3, <1>7, k \in 1 .. m
    <3>4. c[k] = c[k - 1] \o T[k]
      BY ONLY <1>6, <3>1
    <3> QED
      BY ONLY <3>1, <3>2, <3>3, <3>4
  <2> HIDE DEF Same
  <2>3. \A k \in 0 .. m : k \in Same
    BY ONLY <1>2, <2>1, <2>2, PlaceInduction
  <2>4. m \in 0 .. m
    BY ONLY <1>2
  <2> QED
    BY ONLY <2>3, <2>4 DEF Same
<1> DEFINE o == Len(c[m])
           l == Len(T[p])
<1>9. /\ o \in Nat /\ l \in Nat
      /\ Len(c[p]) = o + l
      /\ \A q \in 1 .. l : o + q \in 1 .. (o + l) /\ c[p][o + q] = T[p][q]
  <2>1. c[m] \in Seq(S) /\ T[p] \in Seq(S)
    BY <1>2, <1>6
  <2>2. c[p] = c[m] \o T[p]
    BY ONLY <1>6, p \in 1 .. N DEF m
  <2>3. o \in Nat /\ l \in Nat /\ Len(c[m] \o T[p]) = o + l
    BY ONLY <2>1
  <2>4. \A q \in 1 .. l : o + q \in 1 .. (o + l) /\ (c[m] \o T[p])[o + q] = T[p][q]
    BY ONLY <2>1
  <2> QED
    BY ONLY <2>2, <2>3, <2>4
<1> DEFINE w == Len(c[p])
           Starts(k) == w <= Len(c[k]) /\ \A i \in 1 .. w : c[k][i] = c[p][i]
           Good == {k \in 0 .. N : k < p \/ Starts(k)}
<1>10. 0 \in Good
  BY ONLY N \in Nat, p \in 1 .. N
<1>11. ASSUME NEW k \in 1 .. N, k - 1 \in Good PROVE k \in Good
  <2>1. k \in 0 .. N /\ k - 1 \in 0 .. N /\ k \in Int
    BY ONLY N \in Nat, k \in 1 .. N
  <2>2. c[k - 1] \in Seq(S) /\ c[p] \in Seq(S) /\ T[k] \in Seq(S)
    BY <1>2, <1>6, <2>1
  <2>3. w \in Nat
    BY ONLY <2>2
  <2>4. c[k] = c[k - 1] \o T[k]
    BY ONLY <1>6, k \in 1 .. N
  <2>5. CASE k < p
    BY ONLY <2>1, <2>5
  <2>6. CASE k = p
    <3>1. Starts(k)
      BY ONLY <2>3, <2>6
    <3> HIDE DEF Starts
    <3> QED
      BY ONLY <2>1, <3>1
  <2>7. CASE k > p
    <3>1. Starts(k - 1)
      <4>1. ~(k - 1 < p)
        BY ONLY <1>2, <2>1, <2>7
      <4> HIDE DEF Starts
      <4> QED
        BY ONLY <1>11, <4>1
    <3>2. \A i \in 1 .. w : (c[k - 1] \o T[k])[i] = c[k - 1][i]
      BY ONLY <2>2, <2>3, <3>1
    <3>3. w <= Len(c[k - 1] \o T[k])
      BY ONLY <2>2, <2>3, <3>1
    <3>4. Starts(k)
      BY ONLY <2>4, <3>1, <3>2, <3>3
    <3> HIDE DEF Starts
    <3> QED
      BY ONLY <2>1, <3>4
  <2> QED
    BY ONLY <1>2, <2>1, <2>5, <2>6, <2>7
<1> HIDE DEF Good
<1>12. \A k \in 0 .. N : k \in Good
  BY ONLY N \in Nat, <1>10, <1>11, PlaceInduction
<1>13. N \in 0 .. N /\ ~(N < p)
  BY ONLY N \in Nat, p \in 1 .. N
<1>14. Starts(N)
  <2> HIDE DEF Starts
  <2> QED
    BY ONLY <1>12, <1>13 DEF Good
<1>15. c[N] \in Seq(S)
  BY <1>6, <1>13
<1>16. \A q \in 1 .. l : q \in DOMAIN c[N] /\ o + q \in DOMAIN c[N] /\ c[N][o + q] = T[p][q]
  <2>1. Len(c[N]) \in Nat /\ DOMAIN c[N] = 1 .. Len(c[N])
    BY ONLY <1>15
  <2>2. o + l <= Len(c[N]) /\ \A i \in 1 .. (o + l) : c[N][i] = c[p][i]
    BY ONLY <1>9, <1>14
  <2>3. \A q \in 1 .. l : q \in DOMAIN c[N] /\ o + q \in DOMAIN c[N]
    BY ONLY <1>9, <2>1, <2>2
  <2> QED
    BY ONLY <1>9, <2>2, <2>3
<1>17. Len(FoldLeft(\o, << >>, SubSeq(T, 1, p - 1))) = o
  BY ONLY <1>5, <1>8 DEF B
<1>18. FlatAt(S, T[p], c[N], o)
  BY ONLY <1>9, <1>15, <1>16 DEF FlatAt, l
<1> HIDE DEF o, l
<1> QED
  BY ONLY <1>4, <1>17, <1>18

-----------------------------------------------------------------------------
(* The invariant.                                                           *)

RegionCounts == [Process -> [Region -> Nat]]

LogTypes ==
    /\ current \in [Process -> Region \cup {NoRegion}] /\ carried \in [Process -> BOOLEAN]
    /\ records \in [Process -> Seq(Recs)] /\ short_regions \in [Process -> Seq(ShortRegions)]
    /\ epoch_count \in [Process -> Nat] /\ calls \in [Process -> Nat]
    /\ done \in RegionCounts /\ entered \in RegionCounts

ControllerTypes ==
    /\ filter \in Filters
    /\ m_count \in [Process -> Int] /\ valid \in [Process -> Checks]
    /\ total_count \in RegionCounts /\ per_cpu_count \in [Process -> Nat]
    /\ failed \in BOOLEAN

\* The epochs of a process, be they reported or made up, are those that the
\* controller has validated and the ones in the log.
EpochsFit(p) ==
    IF filter = NoFilter THEN Numbered(records[p], valid[p].epoch, epoch_count[p])
    ELSE valid[p].epoch = Made(m_count[p])

\* The log of a process fits what the process does and what the controller knows of it.
LogOf(p) == LogFits(records[p], short_regions[p], current[p], carried[p], valid[p].hash)

\* So do all, and nothing has failed.
LogInv ==
    /\ LogTypes /\ ControllerTypes
    /\ ~failed
    /\ \A p \in Process : LogOf(p) /\ EpochsFit(p) /\ valid[p].ok

\* A filter has its parameters.
LEMMA FilterParameters ==
    ASSUME filter \in Filters, filter # NoFilter
    PROVE  filter.calls \in Nat \ {0} /\ filter.startup \in Nat
  BY SamplerAssumption

\* A log without records,
LEMMA NoneNumbered ==
    ASSUME NEW e \in Nat
    PROVE  Numbered(<< >>, e, e)
<1>1. DOMAIN (<< >>) = {} /\ Len(<< >>) = 0
  OBVIOUS
<1>2. Hits(Places(<< >>, "epoch"), 0) = 0
  BY ONLY HitsAt, 0 \in Nat
<1> QED
  BY ONLY <1>1, <1>2, e \in Nat DEF Numbered

\* one with a record more,
LEMMA NumberedLonger ==
    ASSUME NEW s \in Seq(Recs), NEW a, NEW r, NEW e \in Nat, NEW m, NEW m2,
           Numbered(s, e, m), Longer(s, a, r), Len(a) = Len(s) + 1,
           r.event = "epoch" => r.signal = m + 1 /\ m2 = m + 1,
           r.event # "epoch" => m2 = m
    PROVE  Numbered(a, e, m2)
<1> DEFINE n == Len(s)
           W == Places(s, "epoch")
           V == Places(a, "epoch")
<1>1. n \in Nat /\ DOMAIN s = 1 .. n /\ \A i \in DOMAIN s : i \in Nat /\ 1 .. i \subseteq DOMAIN s
  OBVIOUS
<1>2. /\ DOMAIN a = DOMAIN s \cup {n + 1} /\ n + 1 \notin DOMAIN s /\ a[n + 1] = r
      /\ \A i \in DOMAIN s : a[i] = s[i]
  BY DEF Longer
<1>3. m = e + Hits(W, n) /\ \A i \in DOMAIN s : s[i].event = "epoch" => s[i].signal = e + Hits(W, i)
  BY DEF Numbered
<1>4. \A i \in DOMAIN s : i \in W <=> i \in V
  BY ONLY <1>2 DEF Places
<1>5. n + 1 \in V <=> r.event = "epoch"
  BY ONLY <1>2 DEF Places
<1> HIDE DEF n, W, V
<1>6. \A i \in DOMAIN s : Hits(V, i) = Hits(W, i)
  <2>1. ASSUME NEW i \in DOMAIN s PROVE Hits(V, i) = Hits(W, i)
    <3>1. i \in Nat /\ \A j \in 1 .. i : j \in V <=> j \in W
      BY ONLY i \in DOMAIN s, <1>1, <1>4
    <3> QED
      BY ONLY <3>1, HitsAgree
  <2> QED
    BY ONLY <2>1
<1>7. Hits(V, n) = Hits(W, n)
  <2>1. \A j \in 1 .. n : j \in V <=> j \in W
    BY ONLY <1>1, <1>4
  <2> QED
    BY ONLY <1>1, <2>1, HitsAgree
<1>8. Hits(V, n) \in Nat /\ Hits(V, n + 1) = Hits(V, n) + IF n + 1 \in V THEN 1 ELSE 0
  BY ONLY <1>1, HitsAt
<1>9. m2 = e + Hits(V, n + 1)
  <2>1. CASE r.event = "epoch"
    <3>1. Hits(V, n + 1) = Hits(W, n) + 1 /\ Hits(W, n) \in Nat
      BY ONLY <1>5, <1>7, <1>8, <2>1
    <3>2. m2 = m + 1
      BY ONLY <2>1, r.event = "epoch" => r.signal = m + 1 /\ m2 = m + 1
    <3> QED
      BY ONLY e \in Nat, <1>3, <3>1, <3>2
  <2>2. CASE r.event # "epoch"
    <3>1. Hits(V, n + 1) = Hits(W, n)
      BY ONLY <1>5, <1>7, <1>8, <2>2
    <3> QED
      BY ONLY <1>3, <2>2, <3>1, r.event # "epoch" => m2 = m
  <2> QED
    BY ONLY <2>1, <2>2
<1>10. ASSUME NEW i \in DOMAIN a, a[i].event = "epoch" PROVE a[i].signal = e + Hits(V, i)
  <2>1. CASE i \in DOMAIN s
    BY ONLY <1>2, <1>3, <1>6, <1>10, <2>1
  <2>2. CASE i = n + 1
    <3>1. r.event = "epoch" /\ a[i].signal = r.signal
      BY ONLY <1>2, <1>10, <2>2
    <3>2. r.signal = m2
      BY ONLY <3>1, r.event = "epoch" => r.signal = m + 1 /\ m2 = m + 1
    <3> QED
      BY ONLY <1>9, <2>2, <3>1, <3>2
  <2> QED
    BY ONLY <1>2, <2>1, <2>2
<1>11. Len(a) = n + 1
  BY DEF n
<1> QED
  BY ONLY <1>9, <1>10, <1>11 DEF Numbered, V

\* and one in which another record than an epoch has changed.
LEMMA NumberedReplaced ==
    ASSUME NEW s, NEW a, NEW r, NEW e, NEW m, NEW i \in DOMAIN s, Numbered(s, e, m),
           Replaced(s, a, i, r), Len(a) = Len(s), r.event # "epoch", s[i].event # "epoch"
    PROVE  Numbered(a, e, m)
<1>1. /\ DOMAIN a = DOMAIN s /\ a[i].event # "epoch"
      /\ \A j \in DOMAIN s : j # i => a[j] = s[j]
  BY DEF Replaced
<1>2. Places(a, "epoch") = Places(s, "epoch")
  BY ONLY <1>1, s[i].event # "epoch" DEF Places
<1>3. \A j \in DOMAIN s : a[j].event = "epoch" => a[j] = s[j]
  BY ONLY <1>1
<1> QED
  BY ONLY <1>1, <1>2, <1>3, Numbered(s, e, m), Len(a) = Len(s) DEF Numbered

\* What a call does: the log of one process changes.
CallAt(p, s, t, c, car, m) ==
    /\ records' = [records EXCEPT ![p] = s] /\ short_regions' = [short_regions EXCEPT ![p] = t]
    /\ current' = [current EXCEPT ![p] = c] /\ carried' = [carried EXCEPT ![p] = car]
    /\ epoch_count' = [epoch_count EXCEPT ![p] = m]
    /\ UNCHANGED <<filter, m_count, valid, total_count, per_cpu_count, failed>>

\* It keeps the invariant if it keeps that log in order.
LEMMA CallKeeps ==
    ASSUME LogInv, NEW p \in Process, NEW s \in Seq(Recs), NEW t \in Seq(ShortRegions),
           NEW c \in Region \cup {NoRegion}, NEW car \in BOOLEAN, NEW m \in Nat,
           CallAt(p, s, t, c, car, m), LogFits(s, t, c, car, valid[p].hash),
           filter = NoFilter => Numbered(s, valid[p].epoch, m),
           calls' \in [Process -> Nat], done' \in RegionCounts, entered' \in RegionCounts
    PROVE  LogInv'
<1>1. /\ records' = [records EXCEPT ![p] = s] /\ short_regions' = [short_regions EXCEPT ![p] = t]
      /\ current' = [current EXCEPT ![p] = c] /\ carried' = [carried EXCEPT ![p] = car]
      /\ epoch_count' = [epoch_count EXCEPT ![p] = m]
  BY DEF CallAt
<1>2. /\ filter' = filter /\ m_count' = m_count /\ valid' = valid
      /\ total_count' = total_count /\ per_cpu_count' = per_cpu_count /\ failed' = failed
  BY DEF CallAt
<1>3. /\ current \in [Process -> Region \cup {NoRegion}] /\ carried \in [Process -> BOOLEAN]
      /\ records \in [Process -> Seq(Recs)] /\ short_regions \in [Process -> Seq(ShortRegions)]
      /\ epoch_count \in [Process -> Nat]
  BY DEF LogInv, LogTypes
<1>4. LogTypes'
  <2>1. /\ records' \in [Process -> Seq(Recs)] /\ short_regions' \in [Process -> Seq(ShortRegions)]
    <3> DEFINE R == Seq(Recs)
               Q == Seq(ShortRegions)
    <3>1. s \in R /\ t \in Q /\ records \in [Process -> R] /\ short_regions \in [Process -> Q]
      BY <1>3
    <3> HIDE DEF R, Q
    <3>2. records' \in [Process -> R] /\ short_regions' \in [Process -> Q]
      BY ONLY <1>1, <3>1
    <3> QED
      BY ONLY <3>2 DEF R, Q
  <2>2. /\ current' \in [Process -> Region \cup {NoRegion}] /\ carried' \in [Process -> BOOLEAN]
        /\ epoch_count' \in [Process -> Nat]
    BY ONLY <1>1, <1>3, c \in Region \cup {NoRegion}, car \in BOOLEAN, m \in Nat
  <2> QED
    BY ONLY <2>1, <2>2, calls' \in [Process -> Nat], done' \in RegionCounts, entered' \in RegionCounts
       DEF LogTypes
<1>5. ControllerTypes' /\ ~failed'
  BY ONLY <1>2, LogInv DEF LogInv, ControllerTypes
<1>6. ASSUME NEW q \in Process PROVE LogOf(q)' /\ EpochsFit(q)' /\ valid'[q].ok
  <2>1. LogOf(q) /\ EpochsFit(q) /\ valid[q].ok
    BY DEF LogInv
  <2>2. CASE q = p
    <3>1. /\ records'[q] = s /\ short_regions'[q] = t /\ current'[q] = c /\ carried'[q] = car
          /\ epoch_count'[q] = m
      BY ONLY <1>1, <1>3, <2>2, q \in Process
    <3>2. LogOf(q)'
      BY ONLY <1>2, <2>2, <3>1, LogFits(s, t, c, car, valid[p].hash) DEF LogOf
    <3>3. EpochsFit(q)'
      BY ONLY <1>2, <2>1, <2>2, <3>1, filter = NoFilter => Numbered(s, valid[p].epoch, m)
         DEF EpochsFit, Made
    <3> QED
      BY ONLY <1>2, <2>1, <3>2, <3>3
  <2>3. CASE q # p
    <3>1. /\ records'[q] = records[q] /\ short_regions'[q] = short_regions[q]
          /\ current'[q] = current[q] /\ carried'[q] = carried[q] /\ epoch_count'[q] = epoch_count[q]
      BY ONLY <1>1, <1>3, <2>3, q \in Process
    <3>2. LogOf(q)'
      BY ONLY <1>2, <2>1, <3>1 DEF LogOf
    <3>3. EpochsFit(q)'
      BY ONLY <1>2, <2>1, <3>1 DEF EpochsFit, Made
    <3> QED
      BY ONLY <1>2, <2>1, <3>2, <3>3
  <2> QED
    BY ONLY <2>2, <2>3
<1> QED
  BY ONLY <1>4, <1>5, <1>6 DEF LogInv

\* What is known of the log of a process.
LEMMA LogAt ==
    ASSUME LogInv, NEW p \in Process
    PROVE  /\ records[p] \in Seq(Recs) /\ short_regions[p] \in Seq(ShortRegions)
           /\ Len(records[p]) \in Nat /\ Len(short_regions[p]) \in Nat
           /\ current[p] \in Region \cup {NoRegion} /\ carried[p] \in BOOLEAN
           /\ epoch_count[p] \in Nat /\ valid[p].epoch \in Nat /\ valid[p] \in Checks
           /\ LogFits(records[p], short_regions[p], current[p], carried[p], valid[p].hash)
           /\ filter = NoFilter => Numbered(records[p], valid[p].epoch, epoch_count[p])
           /\ NoRegion \notin Region
           /\ \A i \in DOMAIN records[p] : /\ records[p][i] \in Recs
                                           /\ records[p][i].event \in {"entry", "exit"}
                                                => records[p][i].signal # NoRegion
           /\ \A q \in DOMAIN short_regions[p] :
                short_regions[p][q] \in ShortRegions /\ short_regions[p][q].hash # NoRegion
<1>1. records[p] \in Seq(Recs) /\ short_regions[p] \in Seq(ShortRegions)
  BY DEF LogInv, LogTypes
<1>2. Len(records[p]) \in Nat /\ Len(short_regions[p]) \in Nat
  BY ONLY <1>1
<1>3. /\ current[p] \in Region \cup {NoRegion} /\ carried[p] \in BOOLEAN
      /\ epoch_count[p] \in Nat
  BY DEF LogInv, LogTypes
<1>4. valid[p] \in Checks
  BY DEF LogInv, ControllerTypes
<1>5. valid[p].epoch \in Nat
  BY ONLY <1>4 DEF Checks
<1>6. NoRegion \notin Region
  BY SamplerAssumption
<1>7. \A i \in DOMAIN records[p] : /\ records[p][i] \in Recs
                                   /\ records[p][i].event \in {"entry", "exit"}
                                        => records[p][i].signal # NoRegion
  <2>1. \A i \in DOMAIN records[p] : records[p][i] \in Recs
    BY ONLY <1>1
  <2>2. \A r \in Recs : r.event \in {"entry", "exit"} => r.signal \in Region
    BY ONLY RecordKinds
  <2> QED
    BY ONLY <1>6, <2>1, <2>2
<1>8. \A q \in DOMAIN short_regions[p] :
         short_regions[p][q] \in ShortRegions /\ short_regions[p][q].hash # NoRegion
  <2>1. \A q \in DOMAIN short_regions[p] : short_regions[p][q] \in ShortRegions
    BY ONLY <1>1
  <2> QED
    BY ONLY <1>6, <2>1 DEF ShortRegions
<1>9. LogFits(records[p], short_regions[p], current[p], carried[p], valid[p].hash)
  BY DEF LogInv, LogOf
<1>10. filter = NoFilter => Numbered(records[p], valid[p].epoch, epoch_count[p])
  BY DEF LogInv, EpochsFit
<1> QED
  BY ONLY <1>1, <1>2, <1>3, <1>4, <1>5, <1>6, <1>7, <1>8, <1>9, <1>10

\* A function changed at a place to what it has there.
LEMMA NoChange ==
    ASSUME NEW A, NEW B, NEW f \in [A -> B], NEW p \in A
    PROVE  f = [f EXCEPT ![p] = f[p]]
  OBVIOUS

\* The parts of a log that a call may leave alone, as changes.
LEMMA Unchanged ==
    ASSUME LogInv, NEW p \in Process
    PROVE  /\ records = [records EXCEPT ![p] = records[p]]
           /\ short_regions = [short_regions EXCEPT ![p] = short_regions[p]]
           /\ current = [current EXCEPT ![p] = current[p]]
           /\ carried = [carried EXCEPT ![p] = carried[p]]
           /\ epoch_count = [epoch_count EXCEPT ![p] = epoch_count[p]]
<1>1. /\ current \in [Process -> Region \cup {NoRegion}] /\ carried \in [Process -> BOOLEAN]
      /\ records \in [Process -> Seq(Recs)] /\ short_regions \in [Process -> Seq(ShortRegions)]
      /\ epoch_count \in [Process -> Nat]
  BY DEF LogInv, LogTypes
<1> QED
  BY ONLY <1>1, p \in Process, NoChange

\* The bound on the calls of a process, and the history.
LEMMA CallCounts ==
    ASSUME LogInv, NEW p \in Process, Call(p)
    PROVE  /\ calls' \in [Process -> Nat]
           /\ UNCHANGED <<filter, m_count, valid, total_count, per_cpu_count, failed>>
<1>1. calls \in [Process -> Nat] /\ calls' = [calls EXCEPT ![p] = calls[p] + 1]
  BY DEF LogInv, LogTypes, Call
<1>2. calls[p] + 1 \in Nat
  BY ONLY <1>1, p \in Process
<1>3. calls' \in [Process -> Nat]
  BY ONLY <1>1, <1>2
<1> QED
  BY ONLY <1>3, Call(p) DEF Call

\* One more of a count leaves it one.
LEMMA CountMore ==
    ASSUME NEW f \in RegionCounts, NEW p \in Process, NEW h \in Region
    PROVE  [f EXCEPT ![p][h] = @ + 1] \in RegionCounts
<1>1. f \in [Process -> [Region -> Nat]] /\ f[p] \in [Region -> Nat] /\ f[p][h] + 1 \in Nat
  BY DEF RegionCounts
<1>2. [f[p] EXCEPT ![h] = @ + 1] \in [Region -> Nat]
  BY ONLY <1>1
<1> QED
  BY ONLY <1>1, <1>2 DEF RegionCounts

\* What the log says of a region.
LEMMA EnteredHereIn ==
    ASSUME NEW p, NEW h
    PROVE  EnteredHere(p, h) <=> EnteredIn(records[p], short_regions[p], h)
  BY DEF EnteredHere, EnteredIn, IsEntry, IsShort

\* A record more.
LEMMA LongerRecords ==
    ASSUME NEW s \in Seq(Recs), NEW r \in Recs
    PROVE  /\ Append(s, r) \in Seq(Recs) /\ Longer(s, Append(s, r), r)
           /\ Len(Append(s, r)) = Len(s) + 1
<1>1. Append(s, r) \in Seq(Recs) /\ Longer(s, Append(s, r), r)
  BY ONLY AppendLonger, s \in Seq(Recs), r \in Recs
<1>2. Len(Append(s, r)) = Len(s) + 1
  OBVIOUS
<1> QED
  BY ONLY <1>1, <1>2

\* enter()
LEMMA EnterKeeps ==
    ASSUME LogInv, NEW p \in Process, NEW h \in Region, Enter(p, h)
    PROVE  LogInv'
<1> DEFINE s == records[p]
           t == short_regions[p]
           r == Record("entry", h)
           vh == valid[p].hash
           car == carried[p]
           m == epoch_count[p]
<1>1. /\ s \in Seq(Recs) /\ t \in Seq(ShortRegions) /\ car \in BOOLEAN
      /\ m \in Nat /\ valid[p].epoch \in Nat /\ NoRegion \notin Region
      /\ \A i \in DOMAIN s : s[i].event = "entry" => s[i].signal # NoRegion
      /\ LogFits(s, t, current[p], car, vh)
      /\ filter = NoFilter => Numbered(s, valid[p].epoch, m)
  BY LogAt
<1>2. /\ current[p] = NoRegion /\ Call(p)
      /\ current' = [current EXCEPT ![p] = h]
      /\ records' = IF EnteredHere(p, h) THEN records ELSE [records EXCEPT ![p] = Append(@, r)]
      /\ entered' = [entered EXCEPT ![p][h] = @ + 1]
      /\ UNCHANGED <<carried, short_regions, epoch_count, done>>
  BY DEF Enter
<1>3. /\ calls' \in [Process -> Nat]
      /\ UNCHANGED <<filter, m_count, valid, total_count, per_cpu_count, failed>>
  BY ONLY LogInv, p \in Process, <1>2, CallCounts
<1>4. done' \in RegionCounts /\ entered' \in RegionCounts
  <2>1. done \in RegionCounts /\ entered \in RegionCounts
    BY DEF LogInv, LogTypes
  <2> QED
    BY ONLY <1>2, <2>1, CountMore, p \in Process, h \in Region
<1>5. /\ records = [records EXCEPT ![p] = s] /\ short_regions = [short_regions EXCEPT ![p] = t]
      /\ carried = [carried EXCEPT ![p] = car] /\ epoch_count = [epoch_count EXCEPT ![p] = m]
  BY Unchanged
<1>6. EnteredHere(p, h) <=> EnteredIn(s, t, h)
  BY EnteredHereIn
<1>7. h # NoRegion /\ h \in Region \cup {NoRegion}
  BY ONLY <1>1, h \in Region
<1>8. LogFits(s, t, NoRegion, car, vh)
  BY ONLY <1>1, <1>2
<1>9. r \in Recs /\ r.event # "epoch"
  BY ONLY h \in Region DEF Record, Recs
<1>10. CASE EnteredHere(p, h)
  <2>1. CallAt(p, s, t, h, car, m)
    BY ONLY <1>2, <1>3, <1>5, <1>10 DEF CallAt
  <2>2. LogFits(s, t, h, car, vh)
    <3> HIDE DEF s, t, car, vh
    <3> QED
      BY ONLY <1>1, <1>6, <1>7, <1>8, <1>10, EnterAgainFits
  <2> QED
    BY ONLY LogInv, p \in Process, <1>1, <1>3, <1>4, <1>7, <2>1, <2>2, CallKeeps
<1>11. CASE ~EnteredHere(p, h)
  <2> DEFINE a == Append(s, r)
  <2>1. a \in Seq(Recs) /\ Longer(s, a, r) /\ Len(a) = Len(s) + 1
    BY ONLY <1>1, <1>9, LongerRecords
  <2>2. CallAt(p, a, t, h, car, m)
    BY ONLY <1>2, <1>3, <1>5, <1>11 DEF CallAt
  <2> HIDE DEF a
  <2>3. LogFits(a, t, h, car, vh)
    <3> HIDE DEF s, t, car, vh
    <3> QED
      BY ONLY <1>1, <1>6, <1>7, <1>8, <1>11, <2>1, EnterFits
  <2>4. filter = NoFilter => Numbered(a, valid[p].epoch, m)
    <3> HIDE DEF s, r, m
    <3> QED
      BY ONLY <1>1, <1>9, <2>1, NumberedLonger
  <2> QED
    BY ONLY LogInv, p \in Process, <1>1, <1>3, <1>4, <1>7, <2>1, <2>2, <2>3, <2>4, CallKeeps
<1> QED
  BY ONLY <1>10, <1>11

\* What the four ways to leave a region have in common.
LEMMA LeaveAt ==
    ASSUME LogInv, NEW p \in Process, NEW h \in Region, Leave(p, h)
    PROVE  /\ current[p] = h /\ h # NoRegion /\ NoRegion \in Region \cup {NoRegion}
           /\ current' = [current EXCEPT ![p] = NoRegion]
           /\ carried' = [carried EXCEPT ![p] = FALSE]
           /\ epoch_count' = [epoch_count EXCEPT ![p] = epoch_count[p]]
           /\ calls' \in [Process -> Nat] /\ done' \in RegionCounts /\ entered' \in RegionCounts
           /\ UNCHANGED <<filter, m_count, valid, total_count, per_cpu_count, failed>>
<1>1. /\ current[p] = h /\ Call(p)
      /\ current' = [current EXCEPT ![p] = NoRegion]
      /\ carried' = [carried EXCEPT ![p] = FALSE]
      /\ done' = [done EXCEPT ![p][h] = @ + 1]
      /\ UNCHANGED <<epoch_count, entered>>
  BY DEF Leave
<1>2. /\ calls' \in [Process -> Nat]
      /\ UNCHANGED <<filter, m_count, valid, total_count, per_cpu_count, failed>>
  BY ONLY LogInv, p \in Process, <1>1, CallCounts
<1>3. done' \in RegionCounts /\ entered' \in RegionCounts
  <2>1. done \in RegionCounts /\ entered \in RegionCounts
    BY DEF LogInv, LogTypes
  <2> QED
    BY ONLY <1>1, <2>1, CountMore, p \in Process, h \in Region
<1>4. h # NoRegion
  BY SamplerAssumption
<1>5. epoch_count' = [epoch_count EXCEPT ![p] = epoch_count[p]]
  BY ONLY <1>1, LogInv, p \in Process, Unchanged
<1> QED
  BY ONLY <1>1, <1>2, <1>3, <1>4, <1>5

\* exit() of a region that was entered in an earlier window,
LEMMA ExitLongKeeps ==
    ASSUME LogInv, NEW p \in Process, NEW h \in Region, ExitLong(p, h)
    PROVE  LogInv'
<1> DEFINE s == records[p]
           t == short_regions[p]
           r == Record("exit", h)
           a == Append(s, r)
           vh == valid[p].hash
           m == epoch_count[p]
<1>1. /\ s \in Seq(Recs) /\ t \in Seq(ShortRegions) /\ m \in Nat /\ valid[p].epoch \in Nat
      /\ LogFits(s, t, current[p], carried[p], vh) /\ carried[p] \in BOOLEAN
      /\ filter = NoFilter => Numbered(s, valid[p].epoch, m)
  BY LogAt
<1>2. /\ ~EnteredHere(p, h) /\ ~carried[p] /\ Leave(p, h)
      /\ records' = [records EXCEPT ![p] = a] /\ short_regions' = short_regions
  BY DEF ExitLong
<1>3. /\ current[p] = h /\ h # NoRegion /\ NoRegion \in Region \cup {NoRegion}
      /\ current' = [current EXCEPT ![p] = NoRegion]
      /\ carried' = [carried EXCEPT ![p] = FALSE]
      /\ epoch_count' = [epoch_count EXCEPT ![p] = m]
      /\ calls' \in [Process -> Nat] /\ done' \in RegionCounts /\ entered' \in RegionCounts
      /\ UNCHANGED <<filter, m_count, valid, total_count, per_cpu_count, failed>>
  BY ONLY LogInv, p \in Process, h \in Region, <1>2, LeaveAt
<1>4. short_regions = [short_regions EXCEPT ![p] = t]
  BY Unchanged
<1>5. r \in Recs /\ r.event # "epoch"
  BY ONLY h \in Region DEF Record, Recs
<1>6. a \in Seq(Recs) /\ Longer(s, a, r) /\ Len(a) = Len(s) + 1
  BY ONLY <1>1, <1>5, LongerRecords
<1>7. CallAt(p, a, t, NoRegion, FALSE, m)
  BY ONLY <1>2, <1>3, <1>4 DEF CallAt
<1>8. ~EnteredIn(s, t, h)
  BY ONLY <1>2, EnteredHereIn
<1> HIDE DEF a
<1>9. LogFits(a, t, NoRegion, FALSE, vh)
  <2>1. LogFits(s, t, h, FALSE, vh)
    <3>1. carried[p] = FALSE
      BY ONLY <1>1, <1>2
    <3> QED
      BY ONLY <1>1, <1>3, <3>1
  <2> HIDE DEF s, t, vh
  <2> QED
    BY ONLY <1>3, <1>6, <1>8, <2>1, ExitLongFits
<1>10. filter = NoFilter => Numbered(a, valid[p].epoch, m)
  <2> HIDE DEF s, r, m
  <2> QED
    BY ONLY <1>1, <1>5, <1>6, NumberedLonger
<1>11. FALSE \in BOOLEAN
  OBVIOUS
<1> QED
  BY ONLY LogInv, p \in Process, <1>1, <1>3, <1>6, <1>7, <1>9, <1>10, <1>11, CallKeeps

\* of one that is carried,
LEMMA ExitCarriedKeeps ==
    ASSUME LogInv, NEW p \in Process, NEW h \in Region, ExitCarried(p, h)
    PROVE  LogInv'
<1> DEFINE s == records[p]
           t == short_regions[p]
           x == [hash |-> h, num_complete |-> 1]
           r == Record("short", Len(t) + 1)
           a == Append(s, r)
           u == Append(t, x)
           vh == valid[p].hash
           m == epoch_count[p]
<1>1. /\ s \in Seq(Recs) /\ t \in Seq(ShortRegions) /\ m \in Nat /\ valid[p].epoch \in Nat
      /\ LogFits(s, t, current[p], carried[p], vh) /\ carried[p] \in BOOLEAN
      /\ filter = NoFilter => Numbered(s, valid[p].epoch, m)
      /\ Len(t) \in Nat
  BY LogAt
<1>2. /\ carried[p] /\ Leave(p, h)
      /\ records' = [records EXCEPT ![p] = a]
      /\ short_regions' = [short_regions EXCEPT ![p] = u]
  BY DEF ExitCarried, NewShort
<1>3. /\ current[p] = h /\ h # NoRegion /\ NoRegion \in Region \cup {NoRegion}
      /\ current' = [current EXCEPT ![p] = NoRegion]
      /\ carried' = [carried EXCEPT ![p] = FALSE]
      /\ epoch_count' = [epoch_count EXCEPT ![p] = m]
      /\ calls' \in [Process -> Nat] /\ done' \in RegionCounts /\ entered' \in RegionCounts
      /\ UNCHANGED <<filter, m_count, valid, total_count, per_cpu_count, failed>>
  BY ONLY LogInv, p \in Process, h \in Region, <1>2, LeaveAt
<1>4. x \in ShortRegions
  BY DEF ShortRegions
<1>5. r \in Recs /\ r.event # "epoch"
  BY ONLY <1>1 DEF Record, Recs
<1>6. a \in Seq(Recs) /\ Longer(s, a, r) /\ Len(a) = Len(s) + 1
  BY ONLY <1>1, <1>5, LongerRecords
<1>7. u \in Seq(ShortRegions) /\ Longer(t, u, x)
  BY ONLY <1>1, <1>4, AppendLonger
<1>8. CallAt(p, a, u, NoRegion, FALSE, m)
  BY ONLY <1>2, <1>3 DEF CallAt
<1> HIDE DEF a, u, x
<1>9. LogFits(a, u, NoRegion, FALSE, vh)
  <2>1. LogFits(s, t, h, TRUE, vh)
    <3>1. carried[p] = TRUE
      BY ONLY <1>1, <1>2
    <3> QED
      BY ONLY <1>1, <1>3, <3>1
  <2>2. Longer(s, a, Record("short", Len(t) + 1))
    BY ONLY <1>6
  <2> HIDE DEF s, t, vh
  <2> QED
    BY ONLY <1>7, <2>1, <2>2, ExitCarriedFits
<1>10. filter = NoFilter => Numbered(a, valid[p].epoch, m)
  <2> HIDE DEF s, r, m
  <2> QED
    BY ONLY <1>1, <1>5, <1>6, NumberedLonger
<1>11. FALSE \in BOOLEAN
  OBVIOUS
<1> QED
  BY ONLY LogInv, p \in Process, <1>1, <1>3, <1>6, <1>7, <1>8, <1>9, <1>10, <1>11, CallKeeps

\* of one that was entered in this window,
LEMMA ExitFirstKeeps ==
    ASSUME LogInv, NEW p \in Process, NEW h \in Region, ExitFirst(p, h)
    PROVE  LogInv'
<1> DEFINE s == records[p]
           t == short_regions[p]
           x == [hash |-> h, num_complete |-> 1]
           r == Record("short", Len(t) + 1)
           u == Append(t, x)
           vh == valid[p].hash
           m == epoch_count[p]
<1>1. /\ s \in Seq(Recs) /\ t \in Seq(ShortRegions) /\ m \in Nat /\ valid[p].epoch \in Nat
      /\ LogFits(s, t, current[p], carried[p], vh)
      /\ filter = NoFilter => Numbered(s, valid[p].epoch, m)
      /\ Len(t) \in Nat
  BY LogAt
<1>2. PICK i \in DOMAIN s :
         /\ s[i] = Record("entry", h) /\ Leave(p, h)
         /\ records' = [records EXCEPT ![p][i] = r]
         /\ short_regions' = [short_regions EXCEPT ![p] = u]
  BY DEF ExitFirst, NewShort, IsEntry
<1> DEFINE a == [s EXCEPT ![i] = r]
<1>3. /\ current[p] = h /\ h # NoRegion /\ NoRegion \in Region \cup {NoRegion}
      /\ current' = [current EXCEPT ![p] = NoRegion]
      /\ carried' = [carried EXCEPT ![p] = FALSE]
      /\ epoch_count' = [epoch_count EXCEPT ![p] = m]
      /\ calls' \in [Process -> Nat] /\ done' \in RegionCounts /\ entered' \in RegionCounts
      /\ UNCHANGED <<filter, m_count, valid, total_count, per_cpu_count, failed>>
  BY ONLY LogInv, p \in Process, h \in Region, <1>2, LeaveAt
<1>4. x \in ShortRegions
  BY DEF ShortRegions
<1>5. r \in Recs /\ r.event # "epoch"
  BY ONLY <1>1 DEF Record, Recs
<1>6. a \in Seq(Recs) /\ Len(a) = Len(s) /\ Replaced(s, a, i, r)
  <2>1. a \in Seq(Recs) /\ Len(a) = Len(s)
    BY ONLY <1>1, <1>5, i \in DOMAIN s
  <2>2. DOMAIN a = DOMAIN s /\ a[i] = r /\ \A j \in DOMAIN s : j # i => a[j] = s[j]
    BY ONLY i \in DOMAIN s
  <2> QED
    BY ONLY <2>1, <2>2 DEF Replaced
<1>7. u \in Seq(ShortRegions) /\ Longer(t, u, x)
  BY ONLY <1>1, <1>4, AppendLonger
<1>8. CallAt(p, a, u, NoRegion, FALSE, m)
  <2>1. records' = [records EXCEPT ![p] = a]
    BY ONLY <1>2
  <2> QED
    BY ONLY <1>2, <1>3, <2>1 DEF CallAt
<1> HIDE DEF a, u, x
<1>9. LogFits(a, u, NoRegion, FALSE, vh)
  <2>1. LogFits(s, t, h, carried[p], vh) /\ s[i] = Record("entry", h) /\ i \in DOMAIN s
    BY ONLY <1>1, <1>2, <1>3
  <2>2. Replaced(s, a, i, Record("short", Len(t) + 1))
    BY ONLY <1>6
  <2> HIDE DEF s, t, vh
  <2> QED
    BY ONLY <1>7, <2>1, <2>2, ExitFirstFits
<1>10. filter = NoFilter => Numbered(a, valid[p].epoch, m)
  <2>1. s[i].event # "epoch" /\ i \in DOMAIN s
    BY ONLY <1>2, RecordFields
  <2> HIDE DEF s, r, m
  <2> QED
    BY ONLY <1>1, <1>5, <1>6, <2>1, NumberedReplaced
<1>11. FALSE \in BOOLEAN
  OBVIOUS
<1> QED
  BY ONLY LogInv, p \in Process, <1>1, <1>3, <1>6, <1>7, <1>8, <1>9, <1>10, <1>11, CallKeeps

\* and again.
LEMMA ExitAgainKeeps ==
    ASSUME LogInv, NEW p \in Process, NEW h \in Region, ExitAgain(p, h)
    PROVE  LogInv'
<1> DEFINE s == records[p]
           t == short_regions[p]
           vh == valid[p].hash
           m == epoch_count[p]
<1>1. /\ s \in Seq(Recs) /\ t \in Seq(ShortRegions) /\ m \in Nat /\ valid[p].epoch \in Nat
      /\ LogFits(s, t, current[p], carried[p], vh)
      /\ filter = NoFilter => Numbered(s, valid[p].epoch, m)
  BY LogAt, SMTT(40)
<1>2. PICK i \in DOMAIN s :
         /\ s[i].event = "short" /\ t[s[i].signal].hash = h /\ Leave(p, h)
         /\ short_regions' = [short_regions EXCEPT ![p][s[i].signal].num_complete = @ + 1]
         /\ records' = records
  BY DEF ExitAgain, IsShort
<1> DEFINE q == s[i].signal
           u == [t EXCEPT ![q].num_complete = @ + 1]
<1>3. /\ current[p] = h /\ h # NoRegion /\ NoRegion \in Region \cup {NoRegion}
      /\ current' = [current EXCEPT ![p] = NoRegion]
      /\ carried' = [carried EXCEPT ![p] = FALSE]
      /\ epoch_count' = [epoch_count EXCEPT ![p] = m]
      /\ calls' \in [Process -> Nat] /\ done' \in RegionCounts /\ entered' \in RegionCounts
      /\ UNCHANGED <<filter, m_count, valid, total_count, per_cpu_count, failed>>
  BY ONLY LogInv, p \in Process, h \in Region, <1>2, LeaveAt
<1>4. records = [records EXCEPT ![p] = s]
  BY Unchanged
<1>5. q \in DOMAIN t
  <2> HIDE DEF s, t, m, vh, u, q
  <2>1. Booked(s, t)
    BY ONLY <1>1 DEF LogFits
  <2>2. \A j \in DOMAIN s : s[j].event = "short" => s[j].signal \in DOMAIN t
    BY ONLY <2>1, SMTT(40) DEF Booked
  <2>3. s[i].event = "short"
    BY ONLY <1>2, SMTT(40)
  <2> QED
    BY ONLY i \in DOMAIN s, <2>2, <2>3 DEF q
<1>6. t[q] \in ShortRegions
  <2> HIDE DEF s, t, q
  <2> QED
    BY ONLY <1>1, <1>5, SMTT(40)
<1>7. /\ u = [t EXCEPT ![q] = [hash |-> t[q].hash, num_complete |-> t[q].num_complete + 1]]
      /\ [hash |-> t[q].hash, num_complete |-> t[q].num_complete + 1] \in ShortRegions
  <2> DEFINE x == t[q]
  <2>1. x \in ShortRegions
    BY ONLY <1>6
  <2>2. [x EXCEPT !.num_complete = @ + 1] = [hash |-> x.hash, num_complete |-> x.num_complete + 1]
    <3> HIDE DEF x
    <3> QED
      BY ONLY <2>1 DEF ShortRegions
  <2>3. [hash |-> x.hash, num_complete |-> x.num_complete + 1] \in ShortRegions
    <3> HIDE DEF x
    <3> QED
      BY ONLY <2>1 DEF ShortRegions
  <2>4. u = [t EXCEPT ![q] = [x EXCEPT !.num_complete = @ + 1]]
    BY ONLY TRUE
  <2> HIDE DEF u
  <2> QED
    BY ONLY <2>2, <2>3, <2>4
<1>8. /\ u \in Seq(ShortRegions) /\ DOMAIN u = DOMAIN t
      /\ \A k \in DOMAIN t : u[k].hash = t[k].hash
  <2> DEFINE y == [hash |-> t[q].hash, num_complete |-> t[q].num_complete + 1]
  <2>1. u = [t EXCEPT ![q] = y] /\ y \in ShortRegions /\ y.hash = t[q].hash
    BY ONLY <1>7
  <2> HIDE DEF y, u, q
  <2>2. u \in Seq(ShortRegions) /\ DOMAIN u = DOMAIN t
    BY ONLY <1>1, <1>5, <2>1
  <2>3. \A k \in DOMAIN t : u[k].hash = t[k].hash
    BY ONLY <1>5, <2>1
  <2> QED
    BY ONLY <2>2, <2>3
<1>9. CallAt(p, s, u, NoRegion, FALSE, m)
  <2>1. short_regions' = [short_regions EXCEPT ![p] = u]
    BY ONLY <1>2
  <2> QED
    BY ONLY <1>2, <1>3, <1>4, <2>1 DEF CallAt
<1> HIDE DEF u
<1>10. LogFits(s, u, NoRegion, FALSE, vh)
  <2>1. /\ LogFits(s, t, h, carried[p], vh) /\ i \in DOMAIN s
        /\ s[i].event = "short" /\ t[s[i].signal].hash = h
    BY ONLY <1>1, <1>2, <1>3
  <2> HIDE DEF s, t, vh, q
  <2> QED
    BY ONLY <1>8, <2>1, ExitAgainFits
<1>11. FALSE \in BOOLEAN
  OBVIOUS
<1> QED
  BY ONLY LogInv, p \in Process, <1>1, <1>3, <1>8, <1>9, <1>10, <1>11, CallKeeps

\* epoch()
LEMMA EpochKeeps ==
    ASSUME LogInv, NEW p \in Process, Epoch(p)
    PROVE  LogInv'
<1> DEFINE s == records[p]
           t == short_regions[p]
           m == epoch_count[p]
           r == Record("epoch", m + 1)
           a == Append(s, r)
           c == current[p]
           car == carried[p]
           vh == valid[p].hash
<1>1. /\ s \in Seq(Recs) /\ t \in Seq(ShortRegions) /\ m \in Nat /\ valid[p].epoch \in Nat
      /\ c \in Region \cup {NoRegion} /\ car \in BOOLEAN
      /\ LogFits(s, t, c, car, vh)
      /\ filter = NoFilter => Numbered(s, valid[p].epoch, m)
  BY LogAt
<1>2. epoch_count \in [Process -> Nat] /\ done \in RegionCounts /\ entered \in RegionCounts
  BY DEF LogInv, LogTypes
<1>3. /\ Call(p) /\ epoch_count' = [epoch_count EXCEPT ![p] = m + 1]
      /\ records' = [records EXCEPT ![p] = Append(@, Record("epoch", epoch_count'[p]))]
      /\ UNCHANGED <<current, carried, short_regions, done, entered>>
  BY DEF Epoch
<1>4. epoch_count'[p] = m + 1 /\ m + 1 \in Nat
  BY ONLY <1>1, <1>2, <1>3, p \in Process
<1>5. records' = [records EXCEPT ![p] = a]
  BY ONLY <1>3, <1>4
<1>6. /\ calls' \in [Process -> Nat]
      /\ UNCHANGED <<filter, m_count, valid, total_count, per_cpu_count, failed>>
  BY ONLY LogInv, p \in Process, <1>3, CallCounts
<1>7. /\ short_regions = [short_regions EXCEPT ![p] = t]
      /\ current = [current EXCEPT ![p] = c] /\ carried = [carried EXCEPT ![p] = car]
  BY Unchanged
<1>8. r \in Recs /\ r.event = "epoch" /\ r.signal = m + 1
  BY ONLY <1>4 DEF Record, Recs
<1>9. a \in Seq(Recs) /\ Longer(s, a, r) /\ Len(a) = Len(s) + 1
  BY ONLY <1>1, <1>8, LongerRecords
<1>10. CallAt(p, a, t, c, car, m + 1)
  BY ONLY <1>3, <1>5, <1>6, <1>7 DEF CallAt
<1> HIDE DEF a
<1>11. LogFits(a, t, c, car, vh)
  <2> HIDE DEF s, t, c, car, vh, m
  <2> QED
    BY ONLY <1>1, <1>9, EpochFits
<1>12. filter = NoFilter => Numbered(a, valid[p].epoch, m + 1)
  <2> HIDE DEF s, r, m
  <2> QED
    BY ONLY <1>1, <1>8, <1>9, NumberedLonger
<1>13. done' \in RegionCounts /\ entered' \in RegionCounts
  BY ONLY <1>2, <1>3
<1> HIDE DEF s, t, c, car, vh
<1> QED
  BY ONLY LogInv, p \in Process, <1>1, <1>4, <1>6, <1>9, <1>10, <1>11, <1>12, <1>13, CallKeeps
     DEF t, c, car, vh

-----------------------------------------------------------------------------
(* A control loop.                                                          *)

\* The common table of short regions, and where that of a process begins.
LEMMA BufferAt ==
    ASSUME LogInv, NEW p \in Process
    PROVE  /\ short_region_buffer \in Seq(ShortRegions) /\ Offset(p) \in Nat
           /\ \A q \in DOMAIN short_regions[p] :
                /\ q \in Nat /\ q \in DOMAIN short_region_buffer
                /\ Offset(p) + q \in DOMAIN short_region_buffer
                /\ short_region_buffer[Offset(p) + q] = short_regions[p][q]
<1>1. NumProcess \in Nat /\ p \in 1 .. NumProcess
  BY SamplerAssumption DEF Process
<1>2. short_regions \in [1 .. NumProcess -> Seq(ShortRegions)]
  BY DEF LogInv, LogTypes, Process
<1>3. FlatAt(ShortRegions, short_regions[p], short_region_buffer, Offset(p))
  BY ONLY <1>1, <1>2, FlatPlaces DEF short_region_buffer, Offset
<1>4. short_regions[p] \in Seq(ShortRegions)
  BY ONLY <1>1, <1>2
<1>5. DOMAIN short_regions[p] = 1 .. Len(short_regions[p])
      /\ \A q \in DOMAIN short_regions[p] : q \in Nat
  BY ONLY <1>4
<1> QED
  BY ONLY <1>3, <1>5 DEF FlatAt

\* The whole log is let through without a filter.
LEMMA PassedAll ==
    ASSUME NEW s \in Seq(Recs), NEW t, Booked(s, t)
    PROVE  Passed(s, s, Len(s))
<1>1. DOMAIN s = 1 .. Len(s)
  OBVIOUS
<1>2. \A i \in DOMAIN s : \E j \in 1 .. Len(s) : s[j] = s[i]
  BY ONLY <1>1
<1>3. \A i, j \in DOMAIN s : i # j /\ s[i].event = "short" /\ s[j].event = "short"
                               => s[i].signal # s[j].signal
  BY ONLY Booked(s, t) DEF Booked
<1> QED
  BY ONLY <1>2, <1>3 DEF Passed

\* What comes out of the filter, and what the validation says of it.
FilteredFits(p, s, o, count, v) ==
    /\ o \in Seq(Recs) /\ count \in Int /\ Passed(o, s, Len(s))
    /\ FoldLeft(Check, v, o) =
         [hash |-> HashAt(s, Len(s), current[p], v.hash),
          epoch |-> IF filter = NoFilter THEN epoch_count[p] ELSE Made(count), ok |-> TRUE]
    /\ count = m_count[p] + IF filter = NoFilter THEN 0 ELSE Hits(ProxyEntries(s), Len(s))

\* The loop filters and validates the log of a process so.
LEMMA FilteredAt ==
    ASSUME LogInv, NEW p \in Process
    PROVE  FilteredFits(p, records[p], Filtered(p).out, Filtered(p).count, valid[p])
<1> DEFINE s == records[p]
           t == short_regions[p]
           c == current[p]
           car == carried[p]
           v == valid[p]
           st == [count |-> m_count[p], out |-> << >>]
           n == Len(s)
<1>1. /\ s \in Seq(Recs) /\ v \in Checks /\ NoRegion \notin Region
      /\ LogFits(s, t, c, car, v.hash)
      /\ filter = NoFilter => Numbered(s, v.epoch, epoch_count[p])
  BY LogAt
<1>2. v.ok /\ m_count[p] \in Int /\ (filter # NoFilter => v.epoch = Made(m_count[p]))
      /\ filter \in Filters
  BY DEF LogInv, ControllerTypes, EpochsFit
<1>3. CASE filter = NoFilter
  <2>1. Filtered(p) = [st EXCEPT !.out = s]
    BY ONLY <1>3 DEF Filtered
  <2>2. Filtered(p).out = s /\ Filtered(p).count = m_count[p]
    BY ONLY <2>1
  <2>3. FoldLeft(Check, v, s) = [hash |-> HashAt(s, n, c, v.hash), epoch |-> epoch_count[p], ok |-> TRUE]
    <3> DEFINE m == epoch_count[p]
    <3>1. Numbered(s, v.epoch, m)
      BY ONLY <1>1, <1>3
    <3> HIDE DEF s, t, c, car, v, m
    <3>2. FoldLeft(Check, v, s) = [hash |-> HashAt(s, Len(s), c, v.hash), epoch |-> m, ok |-> TRUE]
      BY ONLY <1>1, <1>2, <3>1, PlainRun
    <3> QED
      BY ONLY <3>2 DEF m
  <2>4. Passed(s, s, n)
    BY ONLY <1>1, PassedAll DEF LogFits
  <2>5. m_count[p] = m_count[p] + 0
    BY ONLY <1>2
  <2> QED
    BY ONLY <1>1, <1>2, <1>3, <2>2, <2>3, <2>4, <2>5 DEF FilteredFits
<1>4. CASE filter # NoFilter
  <2>1. Filtered(p) = FoldLeft(FilterRecord, st, s)
    BY ONLY <1>4 DEF Filtered
  <2>2. filter.calls \in Nat \ {0}
    BY ONLY <1>2, <1>4, FilterParameters
  <2>3. st \in FilterStates /\ st.out = << >> /\ st.count = m_count[p] /\ v.epoch = Made(st.count)
    <3>1. st.out = << >> /\ st.count = m_count[p]
      BY ONLY TRUE
    <3>2. << >> \in Seq(Recs)
      OBVIOUS
    <3>3. st \in FilterStates
      BY ONLY <1>2, <3>2 DEF FilterStates
    <3> QED
      BY ONLY <1>2, <1>4, <3>1, <3>3
  <2> DEFINE g == FoldLeft(FilterRecord, st, s)
  <2> HIDE DEF st
  <2>7. FilterGives(FoldLeft(FilterRecord, st, s), s, c, v, st)
    <3> HIDE DEF s, t, c, car, v
    <3> QED
      BY ONLY <1>1, <1>2, <2>2, <2>3, FilterPasses
  <2>4. /\ g \in FilterStates
        /\ FoldLeft(Check, v, g.out) = Validated(s, c, v.hash, Len(s), g.count)
        /\ Passed(g.out, s, Len(s))
        /\ g.count = st.count + Hits(ProxyEntries(s), Len(s))
    BY ONLY <2>7 DEF FilterGives
  <2> HIDE DEF g
  <2>5. g.out \in Seq(Recs) /\ g.count \in Int
    BY ONLY <2>4 DEF FilterStates
  <2>6. Filtered(p) = g
    BY ONLY <2>1 DEF g
  <2> QED
    BY ONLY <1>4, <2>3, <2>4, <2>5, <2>6 DEF FilteredFits, Validated
<1> QED
  BY ONLY <1>3, <1>4

\* Not more short records are let through than there are short regions.
LEMMA ShortsBound ==
    ASSUME NEW s, NEW t \in Seq(ShortRegions), NEW o \in Seq(Recs), NEW i \in DOMAIN o,
           Booked(s, t), DOMAIN s = 1 .. Len(s), Passed(o, s, Len(s))
    PROVE  Cardinality({j \in 1 .. i : o[j].event = "short"}) <= Len(t)
<1> DEFINE A == {j \in 1 .. i : o[j].event = "short"}
           f == [j \in A |-> o[j].signal]
<1>1. /\ Len(t) \in Nat /\ DOMAIN t = 1 .. Len(t)
      /\ \A j \in 1 .. i : j \in DOMAIN o
  <2>1. Len(t) \in Nat /\ DOMAIN t = 1 .. Len(t)
    OBVIOUS
  <2>2. DOMAIN o = 1 .. Len(o) /\ Len(o) \in Nat
    OBVIOUS
  <2>3. \A j \in 1 .. i : j \in DOMAIN o
    BY ONLY <2>2, i \in DOMAIN o
  <2> QED
    BY ONLY <2>1, <2>3
<1>2. \A j \in DOMAIN o : o[j].event = "short" => o[j].signal \in DOMAIN t
  <2>1. ASSUME NEW j \in DOMAIN o, o[j].event = "short"
        PROVE  o[j].signal \in DOMAIN t
    <3>1. PICK k \in DOMAIN s : s[k] = o[j]
      BY ONLY j \in DOMAIN o, <2>1, DOMAIN s = 1 .. Len(s), Passed(o, s, Len(s)) DEF Passed
    <3>2. \A l \in DOMAIN s : s[l].event = "short" => s[l].signal \in DOMAIN t
      BY ONLY Booked(s, t) DEF Booked
    <3> QED
      BY ONLY <2>1, <3>1, <3>2
  <2> QED
    BY ONLY <2>1
<1>3. f \in [A -> 1 .. Len(t)]
  <2>1. \A j \in A : o[j].signal \in 1 .. Len(t)
    <3>1. ASSUME NEW j \in A
          PROVE  o[j].signal \in 1 .. Len(t)
      <4>1. j \in DOMAIN o /\ o[j].event = "short"
        BY ONLY <1>1, j \in A
      <4> QED
        BY ONLY <1>1, <1>2, <4>1
    <3> QED
      BY ONLY <3>1
  <2> HIDE DEF A
  <2> QED
    BY ONLY <2>1
<1>4. \A a, b \in A : f[a] = f[b] => a = b
  BY ONLY <1>1, Passed(o, s, Len(s)) DEF Passed
<1>5. f \in Injection(A, 1 .. Len(t))
  BY ONLY <1>3, <1>4 DEF Injection, IsInjective
<1>6. IsFiniteSet(1 .. Len(t)) /\ Cardinality(1 .. Len(t)) = Len(t)
  <2> DEFINE n == Len(t)
  <2>1. 1 \in Int /\ n \in Int
    BY ONLY <1>1
  <2>2. IsFiniteSet(1 .. n) /\ Cardinality(1 .. n) = IF 1 > n THEN 0 ELSE n - 1 + 1
    <3> HIDE DEF n
    <3> QED
      BY ONLY <2>1, FS_Interval
  <2> QED
    BY ONLY <1>1, <2>2
<1> HIDE DEF f, A
<1>7. Cardinality(A) <= Cardinality(1 .. Len(t))
  BY ONLY <1>5, <1>6, FS_Injection
<1> QED
  BY ONLY <1>6, <1>7 DEF A

\* What is moved to where the table of the process begins: all its short records.
ShiftFits(p, o, b) ==
    /\ b \in Seq(Recs) /\ DOMAIN b = DOMAIN o /\ Len(b) = Len(o)
    /\ \A i \in DOMAIN o : /\ o[i].event # "short" => b[i] = o[i]
                           /\ o[i].event = "short"
                                => b[i] = Record("short", o[i].signal + Offset(p))

\* ApplicationSampler::update() moves the indices of them all, as there are as
\* many of them as short regions at most.
LEMMA ShiftedAt ==
    ASSUME LogInv, NEW p \in Process, NEW o \in Seq(Recs),
           Passed(o, records[p], Len(records[p]))
    PROVE  ShiftFits(p, o, Shifted(p, o))
<1> DEFINE s == records[p]
           t == short_regions[p]
           Shorts(i) == {j \in 1 .. i : o[j].event = "short"}
           b == Shifted(p, o)
<1>1. s \in Seq(Recs) /\ t \in Seq(ShortRegions) /\ Booked(s, t) /\ Passed(o, s, Len(s))
  BY LogAt DEF LogFits
<1>2. DOMAIN o = 1 .. Len(o) /\ Len(o) \in Nat /\ DOMAIN s = 1 .. Len(s)
  BY <1>1
<1>3. Offset(p) \in Nat
  BY BufferAt
<1>4. b = [i \in DOMAIN o |->
             IF i \in Shorts(i) /\ Cardinality(Shorts(i)) <= Len(t)
             THEN [o[i] EXCEPT !.signal = @ + Offset(p)] ELSE o[i]]
  BY DEF Shifted
<1>5. ASSUME NEW i \in DOMAIN o
      PROVE  /\ i \in Shorts(i) <=> o[i].event = "short"
             /\ Cardinality(Shorts(i)) <= Len(t)
  <2>1. i \in 1 .. i
    BY ONLY <1>2, i \in DOMAIN o
  <2>2. i \in Shorts(i) <=> o[i].event = "short"
    BY ONLY <2>1
  <2>3. Cardinality(Shorts(i)) <= Len(t)
    <3> HIDE DEF s, t
    <3> QED
      BY ONLY <1>1, <1>2, i \in DOMAIN o, o \in Seq(Recs), ShortsBound
  <2> QED
    BY ONLY <2>2, <2>3
<1> HIDE DEF Shorts, t, s
<1>6. ASSUME NEW i \in DOMAIN o
      PROVE  b[i] = IF o[i].event = "short" THEN [o[i] EXCEPT !.signal = @ + Offset(p)] ELSE o[i]
  BY ONLY <1>4, <1>5, i \in DOMAIN o
<1>7. ASSUME NEW i \in DOMAIN o
      PROVE  /\ o[i].event # "short" => b[i] = o[i]
             /\ o[i].event = "short" => b[i] = Record("short", o[i].signal + Offset(p))
             /\ b[i] \in Recs
  <2>1. o[i] \in Recs
    BY ONLY i \in DOMAIN o, o \in Seq(Recs)
  <2>2. CASE o[i].event = "short"
    <3> DEFINE r == o[i]
    <3>1. r.signal \in Nat
      BY ONLY <2>1, <2>2, RecordKinds
    <3>2. r = [event |-> "short", signal |-> r.signal]
      BY ONLY <2>1, <2>2 DEF Recs
    <3>3. b[i] = [r EXCEPT !.signal = r.signal + Offset(p)]
      BY ONLY <1>6, <2>2
    <3> HIDE DEF r, b
    <3>4. b[i] = [event |-> "short", signal |-> r.signal + Offset(p)]
      BY ONLY <3>2, <3>3
    <3>5. r.signal + Offset(p) \in Nat
      BY ONLY <1>3, <3>1
    <3> QED
      BY ONLY <2>2, <3>4, <3>5 DEF Record, Recs, r
  <2>3. CASE o[i].event # "short"
    BY ONLY <1>6, <2>1, <2>3
  <2> QED
    BY ONLY <2>2, <2>3
<1>8. DOMAIN b = 1 .. Len(o) /\ b = [i \in 1 .. Len(o) |-> b[i]]
  BY ONLY <1>2, <1>4
<1> HIDE DEF b
<1>9. b \in Seq(Recs) /\ Len(b) = Len(o)
  <2>1. \A i \in 1 .. Len(o) : b[i] \in Recs
    BY ONLY <1>2, <1>7
  <2>2. b \in [1 .. Len(o) -> Recs]
    BY ONLY <1>8, <2>1
  <2> QED
    BY ONLY <1>2, <2>2
<1> QED
  BY ONLY <1>2, <1>7, <1>8, <1>9 DEF ShiftFits, b

\* Each of them finds its short region.
LEMMA ShiftedInBuffer ==
    ASSUME LogInv, NEW p \in Process, NEW o \in Seq(Recs), NEW b, ShiftFits(p, o, b),
           Passed(o, records[p], Len(records[p]))
    PROVE  \A i \in DOMAIN b :
             /\ InBuffer(b[i])
             /\ b[i].event = "short" =>
                  /\ o[i].event = "short" /\ o[i].signal \in DOMAIN short_regions[p]
                  /\ short_region_buffer[b[i].signal] = short_regions[p][o[i].signal]
                  /\ short_region_buffer[b[i].signal] \in ShortRegions
<1>1. SUFFICES ASSUME NEW i \in DOMAIN b, b[i].event = "short"
               PROVE  /\ o[i].event = "short" /\ o[i].signal \in DOMAIN short_regions[p]
                      /\ b[i].signal \in DOMAIN short_region_buffer
                      /\ short_region_buffer[b[i].signal] = short_regions[p][o[i].signal]
                      /\ short_region_buffer[b[i].signal] \in ShortRegions
  BY DEF InBuffer
<1>2. /\ records[p] \in Seq(Recs) /\ short_regions[p] \in Seq(ShortRegions)
      /\ Booked(records[p], short_regions[p])
  BY LogAt DEF LogFits
<1>3. i \in DOMAIN o /\ o[i].event = "short" /\ b[i] = Record("short", o[i].signal + Offset(p))
  BY ONLY <1>1, ShiftFits(p, o, b) DEF ShiftFits
<1>4. o[i].signal \in DOMAIN short_regions[p]
  <2>1. DOMAIN records[p] = 1 .. Len(records[p])
    BY ONLY <1>2
  <2>2. PICK j \in DOMAIN records[p] : records[p][j] = o[i]
    BY ONLY <1>3, <2>1, Passed(o, records[p], Len(records[p])) DEF Passed
  <2> QED
    BY ONLY <1>2, <1>3, <2>2 DEF Booked
<1>5. /\ Offset(p) \in Nat /\ o[i].signal \in Nat
      /\ Offset(p) + o[i].signal \in DOMAIN short_region_buffer
      /\ short_region_buffer[Offset(p) + o[i].signal] = short_regions[p][o[i].signal]
  BY <1>4, BufferAt
<1>6. b[i].signal = Offset(p) + o[i].signal
  <2>1. b[i].signal = o[i].signal + Offset(p)
    BY ONLY <1>3 DEF Record
  <2> QED
    BY ONLY <1>5, <2>1
<1>7. short_regions[p][o[i].signal] \in ShortRegions
  BY ONLY <1>2, <1>4
<1> QED
  BY ONLY <1>3, <1>4, <1>5, <1>6, <1>7

\* What the aggregator has counted of a region after each of the records.
Counting(h, s, c) ==
    /\ c \in [0 .. Len(s) -> Nat] /\ c[0] = 0
    /\ \A k \in 1 .. Len(s) : c[k] = c[k - 1] + Completions(s[k], h)

\* It ends with what is counted of all the records.
LEMMA CountRun ==
    ASSUME NEW h, NEW s \in Seq(Recs), \A i \in DOMAIN s : Completions(s[i], h) \in Nat
    PROVE  \E c : Counting(h, s, c) /\ Completed(s, h) = c[Len(s)]
<1> DEFINE n == Len(s)
           step == [i \in 1 .. n |-> [x \in Nat |-> (x + Completions(s[i], h))]]
           Solves(e) == e = [T \in SUBSET (DOMAIN s) |->
                               IF T = {} THEN 0 ELSE (e[T \ {Max(T)}] + Completions(s[Max(T)], h))]
           G == CHOOSE e : Solves(e)
<1>1. n \in Nat /\ DOMAIN s = 1 .. n
  OBVIOUS
<1>2. Completed(s, h) = G[DOMAIN s]
  BY DEF Completed, FoldLeft, MapThenFoldSet
<1>3. \A i \in 1 .. n : \A x \in Nat : (x + Completions(s[i], h)) \in Nat
  <2>1. \A i \in 1 .. n : Completions(s[i], h) \in Nat
    BY ONLY <1>1, \A i \in DOMAIN s : Completions(s[i], h) \in Nat
  <2> QED
    BY ONLY <2>1
<1>4. step \in [1 .. n -> [Nat -> Nat]]
  BY ONLY <1>3
<1>5. 0 \in Nat
  OBVIOUS
<1>6. \A i \in 1 .. n : \A x \in Nat : step[i][x] = (x + Completions(s[i], h))
  BY ONLY TRUE
<1>7. \A T \in SUBSET (1 .. n) : T # {} => Max(T) \in 1 .. n /\ T \ {Max(T)} \in SUBSET (1 .. n)
  <2>1. \A T \in SUBSET (1 .. n) : T # {} => Max(T) \in T
    BY ONLY <1>1, MaxIn
  <2> QED
    BY ONLY <2>1
<1> HIDE DEF n, step
<1>8. PICK g \in [SUBSET (1 .. n) -> Nat] :
         \A T \in SUBSET (1 .. n) : FoldsAt(n, 0, step, g, T)
  BY ONLY <1>1, <1>4, <1>5, FoldsExist
<1>9. Solves(g)
  <2>1. ASSUME NEW T \in SUBSET (1 .. n)
        PROVE  g[T] = IF T = {} THEN 0 ELSE (g[T \ {Max(T)}] + Completions(s[Max(T)], h))
    BY ONLY T \in SUBSET (1 .. n), g \in [SUBSET (1 .. n) -> Nat], <1>6, <1>7, <1>8 DEF FoldsAt
  <2> QED
    BY ONLY <1>1, <1>8, <2>1
<1>10. Solves(G)
  <2> HIDE DEF Solves
  <2> QED
    BY ONLY <1>9
<1> HIDE DEF G
<1>11. G[{}] = 0
  BY ONLY <1>10
<1>12. FoldsFrom(n, Nat, 0, step, G)
  <2>1. ASSUME NEW T \in SUBSET (1 .. n), T # {}, G[T \ {Max(T)}] \in Nat
        PROVE  G[T] = step[Max(T)][G[T \ {Max(T)}]]
    <3>1. G[T] = (G[T \ {Max(T)}] + Completions(s[Max(T)], h))
      BY ONLY T \in SUBSET (1 .. n), <1>1, <1>10, <2>1
    <3> QED
      BY ONLY T \in SUBSET (1 .. n), <1>6, <1>7, <2>1, <3>1
  <2> QED
    BY ONLY <1>11, <2>1 DEF FoldsFrom
<1> HIDE DEF Solves
<1>13. PICK c : StepChain(n, Nat, 0, step, c) /\ c[n] = G[1 .. n]
  <2> DEFINE N == Nat
             first == 0
             st == step
  <2>1. n \in Nat /\ first \in N /\ st \in [1 .. n -> [N -> N]] /\ FoldsFrom(n, N, first, st, G)
    BY ONLY <1>1, <1>4, <1>5, <1>12
  <2>2. \E c : StepChain(n, N, first, st, c) /\ c[n] = G[1 .. n]
    <3> HIDE DEF N, first, st
    <3> QED
      BY ONLY <2>1, FoldChain
  <2> QED
    BY ONLY <2>2
<1>14. \A k \in 1 .. n : k - 1 \in 0 .. n
  BY ONLY <1>1
<1>15. Counting(h, s, c)
  BY ONLY <1>6, <1>13, <1>14 DEF StepChain, Counting, n
<1> QED
  BY ONLY <1>1, <1>2, <1>13, <1>15 DEF n

\* What EPOCH_COUNT would be after each of the records, from n0 on.
LastOf(n0, s, c) ==
    /\ c \in [0 .. Len(s) -> Nat] /\ c[0] = n0
    /\ \A k \in 1 .. Len(s) : c[k] = IF s[k].event = "epoch" THEN s[k].signal ELSE c[k - 1]

\* It is what it is after the last.
LEMMA LastEpochRun ==
    ASSUME NEW p, NEW s \in Seq(Recs), per_cpu_count[p] \in Nat
    PROVE  \E c : LastOf(per_cpu_count[p], s, c) /\ LastEpoch(p, s) = c[Len(s)]
<1> DEFINE n == Len(s)
           step == [i \in 1 .. n |-> [x \in Nat |-> (IF s[i].event = "epoch" THEN s[i].signal ELSE x)]]
           Solves(e) == e = [T \in SUBSET (DOMAIN s) |->
                               IF T = {} THEN per_cpu_count[p] ELSE (IF s[Max(T)].event = "epoch" THEN s[Max(T)].signal ELSE e[T \ {Max(T)}])]
           G == CHOOSE e : Solves(e)
<1>1. n \in Nat /\ DOMAIN s = 1 .. n
  OBVIOUS
<1>2. LastEpoch(p, s) = G[DOMAIN s]
  BY DEF LastEpoch, FoldLeft, MapThenFoldSet
<1>3. \A i \in 1 .. n : \A x \in Nat : (IF s[i].event = "epoch" THEN s[i].signal ELSE x) \in Nat
  <2>1. \A i \in 1 .. n : s[i] \in Recs
    OBVIOUS
  <2> QED
    BY ONLY <2>1, RecordKinds
<1>4. step \in [1 .. n -> [Nat -> Nat]]
  BY ONLY <1>3
<1>5. per_cpu_count[p] \in Nat
  OBVIOUS
<1>6. \A i \in 1 .. n : \A x \in Nat : step[i][x] = (IF s[i].event = "epoch" THEN s[i].signal ELSE x)
  BY ONLY TRUE
<1>7. \A T \in SUBSET (1 .. n) : T # {} => Max(T) \in 1 .. n /\ T \ {Max(T)} \in SUBSET (1 .. n)
  <2>1. \A T \in SUBSET (1 .. n) : T # {} => Max(T) \in T
    BY ONLY <1>1, MaxIn
  <2> QED
    BY ONLY <2>1
<1> HIDE DEF n, step
<1>8. PICK g \in [SUBSET (1 .. n) -> Nat] :
         \A T \in SUBSET (1 .. n) : FoldsAt(n, per_cpu_count[p], step, g, T)
  BY ONLY <1>1, <1>4, <1>5, FoldsExist
<1>9. Solves(g)
  <2>1. ASSUME NEW T \in SUBSET (1 .. n)
        PROVE  g[T] = IF T = {} THEN per_cpu_count[p] ELSE (IF s[Max(T)].event = "epoch" THEN s[Max(T)].signal ELSE g[T \ {Max(T)}])
    <3>1. FoldsAt(n, per_cpu_count[p], step, g, T)
      BY ONLY T \in SUBSET (1 .. n), <1>8
    <3>2. CASE T = {}
      BY ONLY <3>1, <3>2 DEF FoldsAt
    <3>3. CASE T # {}
      <4>1. Max(T) \in 1 .. n /\ T \ {Max(T)} \in SUBSET (1 .. n)
        BY ONLY T \in SUBSET (1 .. n), <1>7, <3>3
      <4>2. g[T] = step[Max(T)][g[T \ {Max(T)}]]
        BY ONLY <3>1, <3>3 DEF FoldsAt
      <4>3. g[T \ {Max(T)}] \in Nat
        BY ONLY g \in [SUBSET (1 .. n) -> Nat], <4>1
      <4>4. step[Max(T)][g[T \ {Max(T)}]] =
              IF s[Max(T)].event = "epoch" THEN s[Max(T)].signal ELSE g[T \ {Max(T)}]
        BY ONLY <1>6, <4>1, <4>3
      <4> QED
        BY ONLY <3>3, <4>2, <4>4
    <3> QED
      BY ONLY <3>2, <3>3
  <2> QED
    BY ONLY <1>1, <1>8, <2>1
<1>10. Solves(G)
  <2> HIDE DEF Solves
  <2> QED
    BY ONLY <1>9
<1> HIDE DEF G
<1>11. G[{}] = per_cpu_count[p]
  BY ONLY <1>10
<1>12. FoldsFrom(n, Nat, per_cpu_count[p], step, G)
  <2>1. ASSUME NEW T \in SUBSET (1 .. n), T # {}, G[T \ {Max(T)}] \in Nat
        PROVE  G[T] = step[Max(T)][G[T \ {Max(T)}]]
    <3>1. G[T] = (IF s[Max(T)].event = "epoch" THEN s[Max(T)].signal ELSE G[T \ {Max(T)}])
      BY ONLY T \in SUBSET (1 .. n), <1>1, <1>10, <2>1
    <3> QED
      BY ONLY T \in SUBSET (1 .. n), <1>6, <1>7, <2>1, <3>1
  <2> QED
    BY ONLY <1>11, <2>1 DEF FoldsFrom
<1> HIDE DEF Solves
<1>13. PICK c : StepChain(n, Nat, per_cpu_count[p], step, c) /\ c[n] = G[1 .. n]
  <2> DEFINE N == Nat
             first == per_cpu_count[p]
             st == step
  <2>1. n \in Nat /\ first \in N /\ st \in [1 .. n -> [N -> N]] /\ FoldsFrom(n, N, first, st, G)
    BY ONLY <1>1, <1>4, <1>5, <1>12
  <2>2. \E c : StepChain(n, N, first, st, c) /\ c[n] = G[1 .. n]
    <3> HIDE DEF N, first, st
    <3> QED
      BY ONLY <2>1, FoldChain, SMTT(40)
  <2> QED
    BY ONLY <2>2
<1>14. \A k \in 1 .. n : k - 1 \in 0 .. n
  BY ONLY <1>1
<1>15. LastOf(per_cpu_count[p], s, c)
  <2>1. /\ c \in [0 .. n -> Nat] /\ c[0] = per_cpu_count[p]
        /\ \A k \in 1 .. n : c[k] = step[k][c[k - 1]]
    BY ONLY <1>13 DEF StepChain
  <2>2. ASSUME NEW k \in 1 .. n
        PROVE  c[k] = IF s[k].event = "epoch" THEN s[k].signal ELSE c[k - 1]
    <3>1. c[k - 1] \in Nat
      BY ONLY <1>14, <2>1
    <3>2. step[k][c[k - 1]] = IF s[k].event = "epoch" THEN s[k].signal ELSE c[k - 1]
      BY ONLY <1>6, <3>1
    <3> QED
      BY ONLY <2>1, <3>2
  <2> QED
    BY ONLY <2>1, <2>2 DEF LastOf, n
<1> QED
  BY ONLY <1>1, <1>2, <1>13, <1>15 DEF n

\* What the loop makes of the records of a process.
Seen(p) == Filtered(p).out
Buffered(p) == Shifted(p, Seen(p))

\* They fit the log, and their moved indices the common table.
LEMMA SeenAt ==
    ASSUME LogInv, NEW p \in Process
    PROVE  /\ FilteredFits(p, records[p], Seen(p), Filtered(p).count, valid[p])
           /\ ShiftFits(p, Seen(p), Buffered(p))
           /\ Seen(p) \in Seq(Recs) /\ Passed(Seen(p), records[p], Len(records[p]))
           /\ Filtered(p).count \in Int /\ Buffered(p) \in Seq(Recs)
<1>1. FilteredFits(p, records[p], Seen(p), Filtered(p).count, valid[p])
  BY FilteredAt DEF Seen
<1>2. /\ Seen(p) \in Seq(Recs) /\ Passed(Seen(p), records[p], Len(records[p]))
      /\ Filtered(p).count \in Int
  BY ONLY <1>1 DEF FilteredFits
<1>3. ShiftFits(p, Seen(p), Buffered(p))
  BY ONLY LogInv, p \in Process, <1>2, ShiftedAt DEF Buffered
<1> QED
  BY ONLY <1>1, <1>2, <1>3 DEF ShiftFits

\* What the validation says of them.
LEMMA CheckedAt ==
    ASSUME LogInv, NEW p \in Process
    PROVE  /\ FoldLeft(Check, valid[p], Seen(p)) \in Checks
           /\ FoldLeft(Check, valid[p], Seen(p)).ok
           /\ FoldLeft(Check, valid[p], Seen(p)).hash =
                HashAt(records[p], Len(records[p]), current[p], valid[p].hash)
           /\ FoldLeft(Check, valid[p], Seen(p)).epoch =
                IF filter = NoFilter THEN epoch_count[p] ELSE Made(Filtered(p).count)
<1> DEFINE v == valid[p]
           o == Seen(p)
<1>1. v \in Checks /\ o \in Seq(Recs) /\ FilteredFits(p, records[p], o, Filtered(p).count, v)
  BY LogAt, SeenAt
<1> HIDE DEF v, o
<1>2. FoldLeft(Check, v, o) \in Checks
  <2>1. PICK d : Checking(v, o, d) /\ FoldLeft(Check, v, o) = d[Len(o)]
    BY ONLY <1>1, CheckRun
  <2>2. Len(o) \in 0 .. Len(o)
    BY ONLY <1>1
  <2> QED
    BY ONLY <2>1, <2>2 DEF Checking
<1>3. FoldLeft(Check, v, o) =
        [hash |-> HashAt(records[p], Len(records[p]), current[p], v.hash),
         epoch |-> IF filter = NoFilter THEN epoch_count[p] ELSE Made(Filtered(p).count),
         ok |-> TRUE]
  BY ONLY <1>1 DEF FilteredFits
<1> QED
  BY ONLY <1>2, <1>3 DEF v, o

\* What the aggregator counts of them.
LEMMA CountedAt ==
    ASSUME LogInv, NEW p \in Process, NEW h
    PROVE  /\ \A i \in DOMAIN Buffered(p) : Completions(Buffered(p)[i], h) \in Nat
           /\ Completed(Buffered(p), h) \in Nat
<1> DEFINE b == Buffered(p)
           o == Seen(p)
<1>1. /\ ShiftFits(p, o, b) /\ o \in Seq(Recs) /\ b \in Seq(Recs)
      /\ Passed(o, records[p], Len(records[p]))
  BY SeenAt
<1> HIDE DEF b, o
<1>2. \A i \in DOMAIN b : b[i].event = "short" => short_region_buffer[b[i].signal] \in ShortRegions
  BY ONLY LogInv, p \in Process, <1>1, ShiftedInBuffer
<1>3. \A i \in DOMAIN b : Completions(b[i], h) \in Nat
  BY ONLY <1>2 DEF Completions, ShortRegions
<1>4. Completed(b, h) \in Nat
  <2>1. PICK c : Counting(h, b, c) /\ Completed(b, h) = c[Len(b)]
    BY ONLY <1>1, <1>3, CountRun
  <2>2. Len(b) \in 0 .. Len(b)
    BY ONLY <1>1
  <2>3. c \in [0 .. Len(b) -> Nat]
    BY ONLY <2>1 DEF Counting
  <2> QED
    BY ONLY <2>1, <2>2, <2>3
<1> QED
  BY ONLY <1>3, <1>4 DEF b

\* EPOCH_COUNT is a number.
LEMMA LastEpochAt ==
    ASSUME LogInv, NEW p \in Process
    PROVE  LastEpoch(p, Buffered(p)) \in Nat
<1> DEFINE b == Buffered(p)
<1>1. b \in Seq(Recs)
  BY SeenAt
<1>2. per_cpu_count[p] \in Nat
  BY DEF LogInv, ControllerTypes
<1> HIDE DEF b
<1>3. PICK c : LastOf(per_cpu_count[p], b, c) /\ LastEpoch(p, b) = c[Len(b)]
  BY ONLY <1>1, <1>2, LastEpochRun
<1>4. Len(b) \in 0 .. Len(b)
  BY ONLY <1>1
<1>5. c \in [0 .. Len(b) -> Nat]
  BY ONLY <1>3 DEF LastOf
<1> QED
  BY ONLY <1>3, <1>4, <1>5 DEF b

\* Nothing throws, so a control loop goes to its end.
LoopEnds ==
    /\ records' = NoRecords /\ short_regions' = NoRecords
    /\ carried' = [p \in Process |-> \/ carried[p]
                                     \/ \E i \in DOMAIN records[p] : IsShort(p, i, current[p])]
    /\ m_count' = [p \in Process |-> Filtered(p).count]
    /\ valid' = [p \in Process |-> FoldLeft(Check, valid[p], Seen(p))]
    /\ failed' = FALSE
    /\ total_count' = [p \in Process |-> [h \in Region |->
                         total_count[p][h] + Completed(Buffered(p), h)]]
    /\ per_cpu_count' = [p \in Process |-> LastEpoch(p, Buffered(p))]
    /\ UNCHANGED <<current, epoch_count, calls, filter, done, entered>>

\* It always ends so.
LEMMA SampleAt ==
    ASSUME LogInv, Sample
    PROVE  LoopEnds
<1> DEFINE filtered == [p \in Process |-> Filtered(p)]
           checked == [p \in Process |-> FoldLeft(Check, valid[p], filtered[p].out)]
           buffer == [p \in Process |-> Shifted(p, filtered[p].out)]
           fits == \A p \in Process : \A i \in DOMAIN buffer[p] : InBuffer(buffer[p][i])
<1>1. /\ records' = NoRecords /\ short_regions' = NoRecords
      /\ carried' = [p \in Process |-> \/ carried[p]
                                       \/ \E i \in DOMAIN records[p] : IsShort(p, i, current[p])]
      /\ m_count' = [p \in Process |-> filtered[p].count]
      /\ valid' = checked
      /\ failed' = ~(fits /\ \A p \in Process : checked[p].ok)
      /\ ~failed' =>
           /\ total_count' = [p \in Process |-> [h \in Region |->
                                total_count[p][h] + Completed(buffer[p], h)]]
           /\ per_cpu_count' = [p \in Process |-> LastEpoch(p, buffer[p])]
      /\ UNCHANGED <<current, epoch_count, calls, filter, done, entered>>
  BY DEF Sample, Dump
<1>2. \A p \in Process : filtered[p].out = Seen(p) /\ filtered[p].count = Filtered(p).count
  BY ONLY TRUE DEF Seen
<1> HIDE DEF filtered
<1>3. \A p \in Process : /\ checked[p] = FoldLeft(Check, valid[p], Seen(p))
                         /\ buffer[p] = Buffered(p)
  BY ONLY <1>2 DEF Buffered
<1>4. \A p \in Process : checked[p].ok
  BY ONLY LogInv, <1>3, CheckedAt
<1>5. fits
  <2>1. ASSUME NEW p \in Process, NEW i \in DOMAIN Buffered(p) PROVE InBuffer(Buffered(p)[i])
    <3>1. /\ Seen(p) \in Seq(Recs) /\ ShiftFits(p, Seen(p), Buffered(p))
          /\ Passed(Seen(p), records[p], Len(records[p]))
      BY ONLY LogInv, p \in Process, SeenAt
    <3> QED
      BY ONLY LogInv, p \in Process, i \in DOMAIN Buffered(p), <3>1, ShiftedInBuffer
  <2> QED
    BY ONLY <1>3, <2>1
<1>6. checked = [p \in Process |-> FoldLeft(Check, valid[p], Seen(p))]
  BY ONLY <1>2
<1>7. ~failed'
  <2> HIDE DEF fits, checked
  <2> QED
    BY ONLY <1>1, <1>4, <1>5
<1> HIDE DEF fits, checked, buffer
<1>8. m_count' = [p \in Process |-> Filtered(p).count]
  BY ONLY <1>1, <1>2
<1>9. total_count' = [p \in Process |-> [h \in Region |->
                        total_count[p][h] + Completed(Buffered(p), h)]]
  BY ONLY <1>1, <1>3, <1>7
<1>10. per_cpu_count' = [p \in Process |-> LastEpoch(p, Buffered(p))]
  BY ONLY <1>1, <1>3, <1>7
<1>11. failed' = FALSE
  BY ONLY <1>1, <1>4, <1>5
<1> QED
  BY ONLY <1>1, <1>6, <1>8, <1>9, <1>10, <1>11 DEF LoopEnds

\* It leaves the log of a process in order, for the window that begins.
LEMMA DumpedAt ==
    ASSUME LogInv, LoopEnds, NEW p \in Process
    PROVE  LogOf(p)' /\ EpochsFit(p)' /\ valid'[p].ok
<1> DEFINE s == records[p]
           t == short_regions[p]
           c == current[p]
           car == carried[p]
           vh == valid[p].hash
           car2 == carried'[p]
           k == Len(s)
<1>1. /\ records'[p] = << >> /\ short_regions'[p] = << >> /\ current'[p] = c
      /\ car2 = (\/ car \/ \E i \in DOMAIN s : IsShort(p, i, c))
      /\ m_count'[p] = Filtered(p).count
      /\ valid'[p] = FoldLeft(Check, valid[p], Seen(p))
      /\ epoch_count'[p] = epoch_count[p] /\ filter' = filter
  BY ONLY p \in Process, LoopEnds DEF LoopEnds, NoRecords
<1>2. /\ s \in Seq(Recs) /\ LogFits(s, t, c, car, vh)
      /\ \A i \in DOMAIN s : s[i].event \in {"entry", "exit"} => s[i].signal # NoRegion
      /\ \A q \in DOMAIN t : t[q].hash # NoRegion
      /\ epoch_count[p] \in Nat
  BY LogAt
<1>3. \A i \in DOMAIN s : i <= k /\ (s[i].event \in {"entry", "exit"} => s[i].signal # NoRegion)
  <2>1. \A i \in DOMAIN s : i <= k
    BY ONLY <1>2
  <2> QED
    BY ONLY <1>2, <2>1
<1>4. car2 <=> car \/ \E i \in DOMAIN s : s[i].event = "short" /\ t[s[i].signal].hash = c
  BY ONLY <1>1 DEF IsShort
<1>5. /\ valid'[p].ok /\ valid'[p].hash = HashAt(s, k, c, vh)
      /\ valid'[p].epoch = IF filter = NoFilter THEN epoch_count[p] ELSE Made(Filtered(p).count)
  BY ONLY LogInv, p \in Process, <1>1, CheckedAt
<1>6. LogFits(<< >>, << >>, c, car2, HashAt(s, k, c, vh))
  <2> HIDE DEF s, t, c, car, vh, car2, k
  <2> QED
    BY ONLY <1>2, <1>3, <1>4, DumpFits
<1>7. LogOf(p)'
  <2> HIDE DEF s, c, car2, k, vh
  <2>1. current'[p] = c /\ carried'[p] = car2
    BY ONLY <1>1 DEF car2
  <2> QED
    BY ONLY <1>1, <1>5, <1>6, <2>1 DEF LogOf
<1>8. EpochsFit(p)'
  <2>1. CASE filter = NoFilter
    <3>1. Numbered(<< >>, epoch_count[p], epoch_count[p])
      BY ONLY <1>2, NoneNumbered
    <3> QED
      BY ONLY <1>1, <1>5, <2>1, <3>1 DEF EpochsFit
  <2>2. CASE filter # NoFilter
    BY ONLY <1>1, <1>5, <2>2 DEF EpochsFit, Made
  <2> QED
    BY ONLY <2>1, <2>2
<1> QED
  BY ONLY <1>5, <1>7, <1>8

\* A control loop keeps the invariant.
LEMMA SampleKeeps ==
    ASSUME LogInv, Sample
    PROVE  LogInv'
<1>1. LoopEnds
  BY SampleAt
<1>2. LogTypes /\ ControllerTypes
  BY DEF LogInv
<1>3. LogTypes'
  <2>1. NoRecords \in [Process -> Seq(Recs)] /\ NoRecords \in [Process -> Seq(ShortRegions)]
    <3> DEFINE R == Seq(Recs)
               Q == Seq(ShortRegions)
    <3>1. << >> \in R /\ << >> \in Q
      OBVIOUS
    <3> HIDE DEF R, Q
    <3>2. NoRecords \in [Process -> R] /\ NoRecords \in [Process -> Q]
      BY ONLY <3>1 DEF NoRecords
    <3> QED
      BY ONLY <3>2 DEF R, Q
  <2>2. carried' \in [Process -> BOOLEAN]
    <3>1. \A p \in Process : carried[p] \in BOOLEAN
      BY ONLY <1>2 DEF LogTypes
    <3>2. \A p \in Process : (\/ carried[p] \/ \E i \in DOMAIN records[p] : IsShort(p, i, current[p]))
                                \in BOOLEAN
      BY ONLY <3>1
    <3> QED
      BY ONLY <1>1, <3>2 DEF LoopEnds
  <2>3. /\ current' = current /\ epoch_count' = epoch_count /\ calls' = calls
        /\ done' = done /\ entered' = entered
        /\ records' = NoRecords /\ short_regions' = NoRecords
    BY ONLY <1>1 DEF LoopEnds
  <2> QED
    BY ONLY <1>2, <2>1, <2>2, <2>3 DEF LogTypes
<1>4. ControllerTypes'
  <2>1. filter' \in Filters
    BY ONLY <1>1, <1>2 DEF LoopEnds, ControllerTypes
  <2>2. m_count' \in [Process -> Int]
    <3>1. \A p \in Process : Filtered(p).count \in Int
      BY ONLY LogInv, SeenAt
    <3> QED
      BY ONLY <1>1, <3>1 DEF LoopEnds
  <2>3. valid' \in [Process -> Checks]
    <3>1. \A p \in Process : FoldLeft(Check, valid[p], Seen(p)) \in Checks
      BY ONLY LogInv, CheckedAt
    <3> QED
      BY ONLY <1>1, <3>1 DEF LoopEnds
  <2>4. total_count' \in RegionCounts
    <3>1. \A p \in Process, h \in Region : Completed(Buffered(p), h) \in Nat
      BY ONLY LogInv, CountedAt
    <3>2. \A p \in Process, h \in Region : total_count[p][h] \in Nat
      BY ONLY <1>2 DEF ControllerTypes, RegionCounts
    <3>3. \A p \in Process, h \in Region : total_count[p][h] + Completed(Buffered(p), h) \in Nat
      BY ONLY <3>1, <3>2
    <3> QED
      BY ONLY <1>1, <3>3 DEF LoopEnds, RegionCounts
  <2>5. per_cpu_count' \in [Process -> Nat]
    <3>1. \A p \in Process : LastEpoch(p, Buffered(p)) \in Nat
      BY ONLY LogInv, LastEpochAt
    <3> QED
      BY ONLY <1>1, <3>1 DEF LoopEnds
  <2>6. failed' \in BOOLEAN
    BY ONLY <1>1 DEF LoopEnds
  <2> QED
    BY ONLY <2>1, <2>2, <2>3, <2>4, <2>5, <2>6 DEF ControllerTypes
<1>5. ~failed'
  BY ONLY <1>1 DEF LoopEnds
<1>6. \A p \in Process : LogOf(p)' /\ EpochsFit(p)' /\ valid'[p].ok
  BY ONLY LogInv, <1>1, DumpedAt
<1> QED
  BY ONLY <1>3, <1>4, <1>5, <1>6 DEF LogInv

-----------------------------------------------------------------------------
(* The theorems.                                                            *)

\* Nothing is recorded to begin with.
LEMMA InitLog == Init => LogInv
<1> SUFFICES ASSUME Init PROVE LogInv
  OBVIOUS
<1>1. LogTypes
  <2>1. NoRecords \in [Process -> Seq(Recs)] /\ NoRecords \in [Process -> Seq(ShortRegions)]
    <3> DEFINE R == Seq(Recs)
               Q == Seq(ShortRegions)
    <3>1. << >> \in R /\ << >> \in Q
      OBVIOUS
    <3> HIDE DEF R, Q
    <3>2. NoRecords \in [Process -> R] /\ NoRecords \in [Process -> Q]
      BY ONLY <3>1 DEF NoRecords
    <3> QED
      BY ONLY <3>2 DEF R, Q
  <2>2. ZeroCounts \in RegionCounts
    BY DEF ZeroCounts, RegionCounts
  <2>3. /\ current \in [Process -> Region \cup {NoRegion}] /\ carried \in [Process -> BOOLEAN]
        /\ epoch_count \in [Process -> Nat] /\ calls \in [Process -> Nat]
    BY DEF Init
  <2>4. records = NoRecords /\ short_regions = NoRecords /\ done = ZeroCounts /\ entered = ZeroCounts
    BY DEF Init
  <2> QED
    BY ONLY <2>1, <2>2, <2>3, <2>4 DEF LogTypes
<1>2. /\ filter \in Filters /\ m_count = [p \in Process |-> -filter.startup]
      /\ valid = [p \in Process |-> [hash |-> NoRegion, epoch |-> 0, ok |-> TRUE]]
      /\ total_count = ZeroCounts /\ per_cpu_count = [p \in Process |-> 0] /\ failed = FALSE
  BY DEF Init
<1>3. filter.startup \in Nat
  <2>1. CASE filter = NoFilter
    BY <2>1 DEF NoFilter
  <2>2. CASE filter # NoFilter
    BY <1>2, <2>2, FilterParameters
  <2> QED
    BY <2>1, <2>2
<1>4. ControllerTypes
  <2>1. m_count \in [Process -> Int]
    BY ONLY <1>2, <1>3
  <2>2. valid \in [Process -> Checks]
    <3>1. [hash |-> NoRegion, epoch |-> 0, ok |-> TRUE] \in Checks
      BY ONLY TRUE DEF Checks
    <3> QED
      BY ONLY <1>2, <3>1
  <2>3. total_count \in RegionCounts
    BY ONLY <1>2 DEF ZeroCounts, RegionCounts
  <2>4. per_cpu_count \in [Process -> Nat]
    BY ONLY <1>2
  <2> QED
    BY ONLY <1>2, <2>1, <2>2, <2>3, <2>4 DEF ControllerTypes
<1>5. ASSUME NEW p \in Process PROVE LogOf(p) /\ EpochsFit(p) /\ valid[p].ok
  <2>1. /\ records[p] = << >> /\ short_regions[p] = << >> /\ current[p] = NoRegion
        /\ carried[p] = FALSE /\ valid[p] = [hash |-> NoRegion, epoch |-> 0, ok |-> TRUE]
        /\ epoch_count[p] = 0 /\ m_count[p] = -filter.startup
    BY DEF Init, NoRecords
  <2>2. valid[p].hash = NoRegion /\ valid[p].epoch = 0 /\ valid[p].ok
    BY ONLY <2>1
  <2>3. LogFits(<< >>, << >>, NoRegion, FALSE, NoRegion)
    <3>1. DOMAIN (<< >>) = {}
      OBVIOUS
    <3> QED
      BY ONLY <3>1 DEF LogFits, Booked, Apart, EntryFits, ExitFits, KnownFits, CarriedFits,
                       CurrentFits, NoExit, Untouched
  <2>4. LogOf(p)
    BY ONLY <2>1, <2>2, <2>3 DEF LogOf
  <2>5. EpochsFit(p)
    <3>1. CASE filter = NoFilter
      <4>1. Numbered(<< >>, 0, 0)
        BY ONLY NoneNumbered
      <4> QED
        BY ONLY <2>1, <2>2, <3>1, <4>1 DEF EpochsFit
    <3>2. CASE filter # NoFilter
      <4>1. Made(-filter.startup) = 0
        BY ONLY <1>3 DEF Made
      <4> QED
        BY ONLY <2>1, <2>2, <3>2, <4>1 DEF EpochsFit
    <3> QED
      BY ONLY <3>1, <3>2
  <2> QED
    BY ONLY <2>2, <2>4, <2>5
<1>6. ~failed
  BY ONLY <1>2
<1> QED
  BY ONLY <1>1, <1>4, <1>5, <1>6 DEF LogInv

\* Every step keeps the invariant.
LEMMA NextLog == LogInv /\ [Next]_vars => LogInv'
<1> SUFFICES ASSUME LogInv, [Next]_vars PROVE LogInv'
  OBVIOUS
<1>1. CASE Sample
  BY ONLY LogInv, <1>1, SampleKeeps
<1>2. ASSUME NEW p \in Process, Epoch(p) PROVE LogInv'
  BY ONLY LogInv, <1>2, EpochKeeps
<1>3. ASSUME NEW p \in Process, NEW h \in Region, Enter(p, h) PROVE LogInv'
  BY ONLY LogInv, <1>3, EnterKeeps
<1>4. ASSUME NEW p \in Process, NEW h \in Region, ExitLong(p, h) PROVE LogInv'
  BY ONLY LogInv, <1>4, ExitLongKeeps
<1>5. ASSUME NEW p \in Process, NEW h \in Region, ExitCarried(p, h) PROVE LogInv'
  BY ONLY LogInv, <1>5, ExitCarriedKeeps
<1>6. ASSUME NEW p \in Process, NEW h \in Region, ExitFirst(p, h) PROVE LogInv'
  BY ONLY LogInv, <1>6, ExitFirstKeeps
<1>7. ASSUME NEW p \in Process, NEW h \in Region, ExitAgain(p, h) PROVE LogInv'
  BY ONLY LogInv, <1>7, ExitAgainKeeps
<1>8. CASE UNCHANGED vars
  BY ONLY LogInv, <1>8 DEF vars, log, LogInv, LogTypes, ControllerTypes, LogOf, EpochsFit, Made
<1> QED
  BY ONLY [Next]_vars, <1>1, <1>2, <1>3, <1>4, <1>5, <1>6, <1>7, <1>8 DEF Next, Application

\* The invariant always holds.
THEOREM LogsFit == Spec => []LogInv
  BY InitLog, NextLog, PTL DEF Spec

\* ApplicationSampler::update() and the readers of its buffers never throw for
\* what the processes record, however their calls and the control loops follow
\* on each other: neither ValidateRecord::check() nor get_short_region().
THEOREM NeverThrows == Spec => []NothingThrows
<1>1. LogInv => NothingThrows
  BY DEF LogInv, NothingThrows
<1> QED
  BY <1>1, LogsFit, PTL

-----------------------------------------------------------------------------
(* The count of epochs.                                                     *)

\* The entry records of the proxy region in the log.
LoggedEntries(p) == Hits(ProxyEntries(records[p]), Len(records[p]))

\* The report has what is validated, and no entry record is without an entry.
EpochOf(p) ==
    /\ per_cpu_count[p] = valid[p].epoch
    /\ filter # NoFilter => m_count[p] + filter.startup + LoggedEntries(p) <= entered[p][Proxy]
EpochInv == \A p \in Process : EpochOf(p)

\* The places of a record.
Matches(s, x) == {i \in DOMAIN s : s[i] = x}

\* There is one more if one is appended,
LEMMA MatchesLonger ==
    ASSUME NEW s \in Seq(Recs), NEW r \in Recs, NEW x
    PROVE  Hits(Matches(Append(s, r), x), Len(Append(s, r))) =
             Hits(Matches(s, x), Len(s)) + IF r = x THEN 1 ELSE 0
<1> DEFINE a == Append(s, r)
           n == Len(s)
           V == Matches(s, x)
           W == Matches(a, x)
<1>1. Longer(s, a, r) /\ Len(a) = n + 1
  BY LongerRecords
<1>2. n \in Nat /\ DOMAIN s = 1 .. n
  OBVIOUS
<1> HIDE DEF a
<1>3. \A i \in 1 .. n : i \in W <=> i \in V
  BY ONLY <1>1, <1>2 DEF Longer, Matches
<1>4. n + 1 \in W <=> r = x
  BY ONLY <1>1 DEF Longer, Matches
<1> HIDE DEF n, V, W
<1>5. Hits(W, n) = Hits(V, n)
  BY ONLY <1>2, <1>3, HitsAgree
<1>6. Hits(W, n + 1) = Hits(W, n) + IF n + 1 \in W THEN 1 ELSE 0
  BY ONLY <1>2, HitsAt
<1>7. Hits(W, Len(a)) = Hits(V, n) + IF r = x THEN 1 ELSE 0
  BY ONLY <1>1, <1>4, <1>5, <1>6
<1> QED
  BY ONLY <1>7 DEF a, n, V, W

\* an entry record of the proxy region for example,
LEMMA LoggedLonger ==
    ASSUME NEW s \in Seq(Recs), NEW r \in Recs
    PROVE  Hits(ProxyEntries(Append(s, r)), Len(Append(s, r))) =
             Hits(ProxyEntries(s), Len(s)) + IF r = Record("entry", Proxy) THEN 1 ELSE 0
<1> DEFINE x == Record("entry", Proxy)
<1>1. \A a : ProxyEntries(a) = Matches(a, x)
  BY DEF ProxyEntries, Matches
<1> HIDE DEF x
<1>2. Hits(Matches(Append(s, r), x), Len(Append(s, r))) =
        Hits(Matches(s, x), Len(s)) + IF r = x THEN 1 ELSE 0
  BY MatchesLonger
<1> QED
  BY ONLY <1>1, <1>2 DEF x

\* and not more with another record in the place of one.
LEMMA LoggedReplaced ==
    ASSUME NEW s \in Seq(Recs), NEW a, NEW i, NEW r, Replaced(s, a, i, r), Len(a) = Len(s),
           r.event # "entry"
    PROVE  Hits(ProxyEntries(a), Len(a)) <= Hits(ProxyEntries(s), Len(s))
<1> DEFINE V == ProxyEntries(s) \cap (1 .. Len(s))
           W == ProxyEntries(a) \cap (1 .. Len(s))
<1>1. Record("entry", Proxy).event = "entry"
  BY ONLY TRUE DEF Record
<1>2. W \subseteq V
  <2>1. SUFFICES ASSUME NEW j \in DOMAIN a, a[j] = Record("entry", Proxy)
                 PROVE  j \in DOMAIN s /\ s[j] = Record("entry", Proxy)
    BY ONLY TRUE DEF ProxyEntries
  <2> QED
    BY ONLY <1>1, <2>1, Replaced(s, a, i, r), r.event # "entry" DEF Replaced
<1>3. IsFiniteSet(V)
  <2>1. Len(s) \in Int /\ 1 \in Int
    OBVIOUS
  <2>2. IsFiniteSet(1 .. Len(s))
    BY ONLY <2>1, FS_Interval
  <2> QED
    BY ONLY <2>2, FS_Subset
<1> HIDE DEF V, W
<1>4. Cardinality(W) <= Cardinality(V)
  BY ONLY <1>2, <1>3, FS_Subset
<1> QED
  BY ONLY <1>4, Len(a) = Len(s) DEF Hits, V, W

\* A call keeps this if it records no more entries than there are.
LEMMA CallCounted ==
    ASSUME LogInv, EpochInv, NEW p \in Process,
           UNCHANGED <<filter, m_count, valid, total_count, per_cpu_count, failed>>,
           NEW a, records' = [records EXCEPT ![p] = a], NEW d \in Nat,
           Hits(ProxyEntries(a), Len(a)) <= LoggedEntries(p) + d,
           entered'[p][Proxy] = entered[p][Proxy] + d,
           \A q \in Process : q # p => entered'[q][Proxy] = entered[q][Proxy],
           Hits(ProxyEntries(a), Len(a)) \in Nat
    PROVE  EpochInv'
<1> SUFFICES ASSUME NEW q \in Process PROVE EpochOf(q)'
  BY DEF EpochInv
<1>1. EpochOf(q)
  BY DEF EpochInv
<1>2. /\ filter' = filter /\ m_count'[q] = m_count[q] /\ valid'[q] = valid[q]
      /\ per_cpu_count'[q] = per_cpu_count[q]
  OBVIOUS
<1>3. DOMAIN records = Process
  BY DEF LogInv, LogTypes
<1>4. CASE q # p
  <2>1. records'[q] = records[q]
    BY ONLY <1>3, <1>4, q \in Process, records' = [records EXCEPT ![p] = a]
  <2>2. LoggedEntries(q)' = LoggedEntries(q)
    BY ONLY <2>1 DEF LoggedEntries, ProxyEntries, Hits
  <2>3. entered'[q][Proxy] = entered[q][Proxy]
    BY ONLY <1>4, q \in Process, \A x \in Process : x # p => entered'[x][Proxy] = entered[x][Proxy]
  <2> QED
    BY ONLY <1>1, <1>2, <2>2, <2>3 DEF EpochOf
<1>5. CASE q = p
  <2>1. records'[p] = a
    BY ONLY <1>3, p \in Process, records' = [records EXCEPT ![p] = a]
  <2>2. LoggedEntries(p)' = Hits(ProxyEntries(a), Len(a))
    BY ONLY <2>1 DEF LoggedEntries, ProxyEntries, Hits
  <2>3. filter # NoFilter =>
          m_count'[p] + filter'.startup + LoggedEntries(p)' <= entered'[p][Proxy]
    <3> SUFFICES ASSUME filter # NoFilter
                 PROVE  m_count'[p] + filter'.startup + LoggedEntries(p)' <= entered'[p][Proxy]
      OBVIOUS
    <3>1. m_count[p] + filter.startup + LoggedEntries(p) <= entered[p][Proxy]
      BY ONLY <1>1, <1>5, filter # NoFilter DEF EpochOf
    <3>2. m_count[p] \in Int /\ filter.startup \in Int
      BY FilterParameters DEF LogInv, ControllerTypes
    <3>3. LoggedEntries(p) \in Int
      <4>1. Len(records[p]) \in Nat
        BY LogAt
      <4> QED
        BY ONLY <4>1, HitsAt DEF LoggedEntries
    <3>4. entered[p][Proxy] \in Int
      BY SamplerAssumption DEF LogInv, LogTypes, RegionCounts
    <3> DEFINE x == Hits(ProxyEntries(a), Len(a))
    <3>5. x \in Nat /\ x <= LoggedEntries(p) + d
      OBVIOUS
    <3>6. m_count[p] + filter.startup + x <= entered[p][Proxy] + d
      <4> HIDE DEF x
      <4> QED
        BY ONLY <3>1, <3>2, <3>3, <3>4, <3>5, d \in Nat
    <3> QED
      BY ONLY <1>2, <1>5, <2>2, <3>6, entered'[p][Proxy] = entered[p][Proxy] + d
  <2> QED
    BY ONLY <1>1, <1>2, <1>5, <2>3 DEF EpochOf
<1> QED
  BY ONLY <1>4, <1>5

\* The number of entry records is one.
LEMMA LoggedNat ==
    ASSUME NEW s \in Seq(Recs)
    PROVE  Hits(ProxyEntries(s), Len(s)) \in Nat
<1>1. Len(s) \in Nat
  OBVIOUS
<1> QED
  BY ONLY <1>1, HitsAt

\* enter() makes an entry record at most,
LEMMA EnterCounted ==
    ASSUME LogInv, EpochInv, NEW p \in Process, NEW h \in Region, Enter(p, h)
    PROVE  EpochInv'
<1> DEFINE s == records[p]
           r == Record("entry", h)
           d == IF h = Proxy THEN 1 ELSE 0
           P(a) == Hits(ProxyEntries(a), Len(a))
<1>1. s \in Seq(Recs)
  BY LogAt
<1>2. /\ Call(p)
      /\ records' = IF EnteredHere(p, h) THEN records ELSE [records EXCEPT ![p] = Append(s, r)]
      /\ entered' = [entered EXCEPT ![p][h] = @ + 1]
  BY DEF Enter
<1>3. UNCHANGED <<filter, m_count, valid, total_count, per_cpu_count, failed>>
  BY ONLY <1>2 DEF Call
<1>4. entered \in [Process -> [Region -> Nat]] /\ Proxy \in Region
  BY SamplerAssumption DEF LogInv, LogTypes, RegionCounts
<1>5. /\ entered'[p][Proxy] = entered[p][Proxy] + d
      /\ \A q \in Process : q # p => entered'[q][Proxy] = entered[q][Proxy]
  BY ONLY <1>2, <1>4, p \in Process, h \in Region
<1>6. r \in Recs /\ (r = Record("entry", Proxy) <=> h = Proxy)
  BY DEF Record, Recs
<1>7. d \in Nat
  OBVIOUS
<1>8. P(s) = LoggedEntries(p) /\ P(s) \in Nat
  BY ONLY <1>1, LoggedNat DEF LoggedEntries
<1>9. CASE EnteredHere(p, h)
  <2>1. records' = [records EXCEPT ![p] = s]
    BY <1>2, <1>9, Unchanged
  <2>2. P(s) <= LoggedEntries(p) + d
    BY ONLY <1>7, <1>8
  <2> HIDE DEF s, d
  <2> QED
    BY ONLY LogInv, EpochInv, p \in Process, <1>3, <1>5, <1>7, <1>8, <2>1, <2>2, CallCounted
<1>10. CASE ~EnteredHere(p, h)
  <2> DEFINE a == Append(s, r)
  <2>1. records' = [records EXCEPT ![p] = a]
    BY ONLY <1>2, <1>10
  <2>2. P(a) = P(s) + d
    BY ONLY <1>1, <1>6, LoggedLonger
  <2>3. a \in Seq(Recs)
    BY ONLY <1>1, <1>6, LongerRecords
  <2> HIDE DEF s, a
  <2>4. P(a) \in Nat
    BY ONLY <2>3, LoggedNat
  <2> HIDE DEF d
  <2>5. P(a) <= LoggedEntries(p) + d
    BY ONLY <1>7, <1>8, <2>2
  <2> QED
    BY ONLY LogInv, EpochInv, p \in Process, <1>3, <1>5, <1>7, <2>1, <2>4, <2>5, CallCounted
<1> QED
  BY <1>9, <1>10

\* and the other calls make none.
LEMMA OthersCounted ==
    ASSUME LogInv, EpochInv, NEW p \in Process, Call(p), entered' = entered,
           NEW a, records' = [records EXCEPT ![p] = a],
           \/ a = records[p]
           \/ \E r \in Recs : r.event # "entry" /\ a = Append(records[p], r)
           \/ \E i \in DOMAIN records[p] : \E r \in Recs :
                r.event # "entry" /\ a = [records[p] EXCEPT ![i] = r]
    PROVE  EpochInv'
<1> DEFINE s == records[p]
           P(b) == Hits(ProxyEntries(b), Len(b))
<1>1. s \in Seq(Recs)
  BY LogAt
<1>2. UNCHANGED <<filter, m_count, valid, total_count, per_cpu_count, failed>>
  BY DEF Call
<1>3. entered[p][Proxy] \in Nat
  BY SamplerAssumption DEF LogInv, LogTypes, RegionCounts
<1>4. P(s) = LoggedEntries(p) /\ P(s) \in Nat
  BY ONLY <1>1, LoggedNat DEF LoggedEntries
<1>5. P(a) \in Nat /\ P(a) <= P(s)
  <2>1. CASE a = s
    BY ONLY <1>4, <2>1
  <2>2. ASSUME NEW r \in Recs, r.event # "entry", a = Append(s, r)
        PROVE  P(a) \in Nat /\ P(a) <= P(s)
    <3>1. r # Record("entry", Proxy)
      BY ONLY <2>2, RecordFields
    <3>2. P(a) = P(s) + 0
      BY ONLY <1>1, <2>2, <3>1, LoggedLonger
    <3> QED
      BY ONLY <1>4, <3>2
  <2>3. ASSUME NEW i \in DOMAIN s, NEW r \in Recs, r.event # "entry", a = [s EXCEPT ![i] = r]
        PROVE  P(a) \in Nat /\ P(a) <= P(s)
    <3>1. a \in Seq(Recs) /\ Len(a) = Len(s)
      BY ONLY <1>1, <2>3
    <3>2. Replaced(s, a, i, r)
      BY ONLY <1>1, <2>3 DEF Replaced
    <3> HIDE DEF s
    <3> QED
      BY ONLY <1>1, <2>3, <3>1, <3>2, LoggedNat, LoggedReplaced
  <2> QED
    BY <2>1, <2>2, <2>3
<1>6. P(a) <= LoggedEntries(p) + 0
  BY ONLY <1>4, <1>5
<1>7. entered'[p][Proxy] = entered[p][Proxy] + 0
  BY ONLY <1>3, entered' = entered
<1>8. \A q \in Process : q # p => entered'[q][Proxy] = entered[q][Proxy]
  BY ONLY entered' = entered
<1> DEFINE d == 0
<1>9. /\ d \in Nat /\ P(a) <= LoggedEntries(p) + d
      /\ entered'[p][Proxy] = entered[p][Proxy] + d
  BY ONLY <1>6, <1>7
<1> HIDE DEF d
<1> QED
  BY ONLY LogInv, EpochInv, p \in Process, <1>2, <1>5, <1>8, <1>9,
          records' = [records EXCEPT ![p] = a], CallCounted

\* The last epoch record is the last one that is validated.
LEMMA LastValidated ==
    ASSUME LogInv, NEW p \in Process, per_cpu_count[p] = valid[p].epoch
    PROVE  LastEpoch(p, Buffered(p)) = FoldLeft(Check, valid[p], Seen(p)).epoch
<1> DEFINE b == Buffered(p)
           o == Seen(p)
           v == valid[p]
           n == Len(o)
<1>1. /\ ShiftFits(p, o, b) /\ o \in Seq(Recs) /\ b \in Seq(Recs)
      /\ v \in Checks /\ per_cpu_count[p] \in Nat
  BY SeenAt, LogAt DEF LogInv, ControllerTypes
<1> HIDE DEF b, o, v
<1>2. PICK c : LastOf(per_cpu_count[p], b, c) /\ LastEpoch(p, b) = c[Len(b)]
  BY ONLY <1>1, LastEpochRun
<1>3. PICK d : Checking(v, o, d) /\ FoldLeft(Check, v, o) = d[n]
  BY ONLY <1>1, CheckRun
<1>4. /\ Len(b) = n /\ n \in Nat /\ DOMAIN o = 1 .. n
      /\ \A i \in DOMAIN o : /\ o[i].event # "short" => b[i] = o[i]
                             /\ o[i].event = "short" => b[i] = Record("short", o[i].signal + Offset(p))
  BY ONLY <1>1 DEF ShiftFits
<1> HIDE DEF n
<1>5. /\ c[0] = per_cpu_count[p]
      /\ \A k \in 1 .. n : c[k] = IF b[k].event = "epoch" THEN b[k].signal ELSE c[k - 1]
  BY ONLY <1>2, <1>4 DEF LastOf
<1>6. /\ d[0] = v /\ \A k \in 0 .. n : d[k] \in Checks
      /\ \A k \in 1 .. n : d[k] = Check(d[k - 1], o[k])
  BY ONLY <1>3, <1>4 DEF Checking, n
<1> DEFINE Good == {k \in 0 .. n : c[k] = d[k].epoch}
<1>7. 0 \in Good
  BY ONLY <1>4, <1>5, <1>6, per_cpu_count[p] = valid[p].epoch DEF v
<1>8. ASSUME NEW k \in 1 .. n, k - 1 \in Good PROVE k \in Good
  <2>1. k - 1 \in 0 .. n /\ k \in 0 .. n /\ k \in DOMAIN o
    BY ONLY <1>4, k \in 1 .. n
  <2>2. o[k] \in Recs
    BY ONLY <1>1, <2>1
  <2>3. c[k - 1] = d[k - 1].epoch
    BY ONLY <1>8
  <2>4. d[k - 1] \in Checks
    BY ONLY <1>6, <2>1
  <2>5. b[k].event = o[k].event /\ (o[k].event = "epoch" => b[k].signal = o[k].signal)
    <3>1. CASE o[k].event = "short"
      BY ONLY <1>4, <2>1, <3>1, RecordFields
    <3>2. CASE o[k].event # "short"
      BY ONLY <1>4, <2>1, <3>2
    <3> QED
      BY ONLY <3>1, <3>2
  <2>6. c[k] = IF o[k].event = "epoch" THEN o[k].signal ELSE c[k - 1]
    BY ONLY <1>5, <2>5, k \in 1 .. n
  <2>7. d[k] = Check(d[k - 1], o[k])
    BY ONLY <1>6, k \in 1 .. n
  <2>8. d[k].epoch = IF o[k].event = "epoch" THEN o[k].signal ELSE d[k - 1].epoch
    <3>1. CASE o[k].event = "epoch"
      BY ONLY <2>2, <2>4, <2>7, <3>1, CheckAt
    <3>2. CASE o[k].event # "epoch"
      BY ONLY <2>2, <2>4, <2>7, <3>2, CheckAt, RecordKinds
    <3> QED
      BY ONLY <3>1, <3>2
  <2>9. c[k] = d[k].epoch
    BY ONLY <2>3, <2>6, <2>8
  <2> QED
    BY ONLY <2>1, <2>9
<1> HIDE DEF Good
<1>9. n \in Good
  <2>1. \A k \in 0 .. n : k \in Good
    BY ONLY <1>4, <1>7, <1>8, PlaceInduction
  <2>2. n \in 0 .. n
    BY ONLY <1>4
  <2> QED
    BY ONLY <2>1, <2>2
<1>10. c[n] = d[n].epoch
  BY ONLY <1>9 DEF Good
<1> QED
  BY ONLY <1>2, <1>3, <1>4, <1>10 DEF b, o, v

\* A control loop counts the entry records of the window.
LEMMA SampleCounted ==
    ASSUME LogInv, EpochInv, Sample
    PROVE  EpochInv'
<1>1. LoopEnds
  BY SampleAt
<1> SUFFICES ASSUME NEW p \in Process PROVE EpochOf(p)'
  BY DEF EpochInv
<1>2. EpochOf(p)
  BY DEF EpochInv
<1>3. /\ per_cpu_count'[p] = LastEpoch(p, Buffered(p))
      /\ valid'[p] = FoldLeft(Check, valid[p], Seen(p))
      /\ m_count'[p] = Filtered(p).count /\ records'[p] = << >>
      /\ filter' = filter /\ entered' = entered
  BY ONLY p \in Process, <1>1 DEF LoopEnds, NoRecords
<1>4. per_cpu_count'[p] = valid'[p].epoch
  BY ONLY LogInv, p \in Process, <1>2, <1>3, LastValidated DEF EpochOf
<1>5. filter # NoFilter => Filtered(p).count = m_count[p] + LoggedEntries(p)
  BY SeenAt DEF FilteredFits, LoggedEntries
<1>6. LoggedEntries(p)' = 0
  <2>1. Len(<< >>) = 0
    OBVIOUS
  <2>2. LoggedEntries(p)' = Hits(ProxyEntries(<< >>), 0)
    BY ONLY <1>3, <2>1 DEF LoggedEntries, Hits, ProxyEntries
  <2> QED
    BY ONLY <2>2, HitsAt, 0 \in Nat
<1>7. filter # NoFilter =>
        m_count'[p] + filter'.startup + LoggedEntries(p)' <= entered'[p][Proxy]
  <2> SUFFICES ASSUME filter # NoFilter
               PROVE  m_count'[p] + filter'.startup + LoggedEntries(p)' <= entered'[p][Proxy]
    OBVIOUS
  <2>1. m_count[p] + filter.startup + LoggedEntries(p) <= entered[p][Proxy]
    BY ONLY <1>2, filter # NoFilter DEF EpochOf
  <2>2. m_count[p] \in Int /\ filter.startup \in Int
    BY FilterParameters DEF LogInv, ControllerTypes
  <2>3. LoggedEntries(p) \in Int
    <3>1. records[p] \in Seq(Recs)
      BY LogAt
    <3> QED
      BY ONLY <3>1, LoggedNat DEF LoggedEntries
  <2>4. entered[p][Proxy] \in Int
    BY SamplerAssumption DEF LogInv, LogTypes, RegionCounts
  <2>5. (m_count[p] + LoggedEntries(p)) + filter.startup + 0 <= entered[p][Proxy]
    BY ONLY <2>1, <2>2, <2>3, <2>4
  <2> QED
    BY ONLY <1>3, <1>5, <1>6, <2>5, filter # NoFilter
<1> QED
  BY ONLY <1>3, <1>4, <1>7 DEF EpochOf

\* Every step keeps this.
LEMMA NextCounted == LogInv /\ EpochInv /\ [Next]_vars => EpochInv'
<1> SUFFICES ASSUME LogInv, EpochInv, [Next]_vars PROVE EpochInv'
  OBVIOUS
<1>1. CASE Sample
  BY ONLY LogInv, EpochInv, <1>1, SampleCounted
<1>2. ASSUME NEW p \in Process, Epoch(p) PROVE EpochInv'
  <2> DEFINE r == Record("epoch", epoch_count'[p])
             a == Append(records[p], r)
  <2>1. /\ Call(p) /\ entered' = entered /\ records' = [records EXCEPT ![p] = a]
        /\ epoch_count' = [epoch_count EXCEPT ![p] = @ + 1]
    BY <1>2 DEF Epoch
  <2>2. epoch_count'[p] \in Nat
    BY <2>1 DEF LogInv, LogTypes
  <2>3. r \in Recs /\ r.event # "entry"
    BY ONLY <2>2 DEF Record, Recs
  <2>4. \E x \in Recs : x.event # "entry" /\ a = Append(records[p], x)
    BY ONLY <2>3
  <2> HIDE DEF a
  <2> QED
    BY ONLY LogInv, EpochInv, p \in Process, <2>1, <2>4, OthersCounted
<1>3. ASSUME NEW p \in Process, NEW h \in Region, Enter(p, h) PROVE EpochInv'
  BY ONLY LogInv, EpochInv, <1>3, EnterCounted
<1>4. ASSUME NEW p \in Process, NEW h \in Region, ExitLong(p, h) PROVE EpochInv'
  <2> DEFINE r == Record("exit", h)
             a == Append(records[p], r)
  <2>1. Call(p) /\ entered' = entered /\ records' = [records EXCEPT ![p] = a]
    BY <1>4 DEF ExitLong, Leave
  <2>2. r \in Recs /\ r.event # "entry"
    BY ONLY h \in Region DEF Record, Recs
  <2>3. \E x \in Recs : x.event # "entry" /\ a = Append(records[p], x)
    BY ONLY <2>2
  <2> HIDE DEF a
  <2> QED
    BY ONLY LogInv, EpochInv, p \in Process, <2>1, <2>3, OthersCounted
<1>5. ASSUME NEW p \in Process, NEW h \in Region, ExitCarried(p, h) PROVE EpochInv'
  <2> DEFINE r == Record("short", Len(short_regions[p]) + 1)
             a == Append(records[p], r)
  <2>1. Call(p) /\ entered' = entered /\ records' = [records EXCEPT ![p] = a]
    BY <1>5 DEF ExitCarried, Leave
  <2>2. Len(short_regions[p]) \in Nat
    BY LogAt
  <2>3. r \in Recs /\ r.event # "entry"
    BY ONLY <2>2 DEF Record, Recs
  <2>4. \E x \in Recs : x.event # "entry" /\ a = Append(records[p], x)
    BY ONLY <2>3
  <2> HIDE DEF a
  <2> QED
    BY ONLY LogInv, EpochInv, p \in Process, <2>1, <2>4, OthersCounted
<1>6. ASSUME NEW p \in Process, NEW h \in Region, ExitFirst(p, h) PROVE EpochInv'
  <2> DEFINE r == Record("short", Len(short_regions[p]) + 1)
  <2>1. PICK i \in DOMAIN records[p] :
          Leave(p, h) /\ records' = [records EXCEPT ![p][i] = r]
    BY <1>6 DEF ExitFirst
  <2> DEFINE a == [records[p] EXCEPT ![i] = r]
  <2>2. Call(p) /\ entered' = entered /\ records' = [records EXCEPT ![p] = a]
    BY ONLY <2>1 DEF Leave
  <2>3. Len(short_regions[p]) \in Nat
    BY LogAt
  <2>4. r \in Recs /\ r.event # "entry"
    BY ONLY <2>3 DEF Record, Recs
  <2>5. \E j \in DOMAIN records[p] : \E x \in Recs :
          x.event # "entry" /\ a = [records[p] EXCEPT ![j] = x]
    BY ONLY <2>4, i \in DOMAIN records[p]
  <2> HIDE DEF a
  <2> QED
    BY ONLY LogInv, EpochInv, p \in Process, <2>2, <2>5, OthersCounted
<1>7. ASSUME NEW p \in Process, NEW h \in Region, ExitAgain(p, h) PROVE EpochInv'
  <2>1. Call(p) /\ entered' = entered /\ records' = records
    BY <1>7 DEF ExitAgain, Leave
  <2>2. records' = [records EXCEPT ![p] = records[p]]
    BY <2>1, Unchanged
  <2> DEFINE a == records[p]
  <2>3. a = records[p] /\ records' = [records EXCEPT ![p] = a]
    BY ONLY <2>2
  <2> HIDE DEF a
  <2> QED
    BY ONLY LogInv, EpochInv, p \in Process, <2>1, <2>3, OthersCounted
<1>8. CASE UNCHANGED vars
  BY ONLY EpochInv, <1>8 DEF vars, log, EpochInv, EpochOf, LoggedEntries, Hits, ProxyEntries
<1> QED
  BY ONLY [Next]_vars, <1>1, <1>2, <1>3, <1>4, <1>5, <1>6, <1>7, <1>8 DEF Next, Application

\* Nothing is counted to begin with.
LEMMA InitCounted == Init => EpochInv
<1> SUFFICES ASSUME Init, NEW p \in Process PROVE EpochOf(p)
  BY DEF EpochInv
<1>1. /\ per_cpu_count[p] = 0 /\ valid[p].epoch = 0 /\ records[p] = << >>
      /\ m_count[p] = -filter.startup /\ filter \in Filters
      /\ entered[p][Proxy] = 0
  BY SamplerAssumption DEF Init, NoRecords, ZeroCounts
<1>2. LoggedEntries(p) = 0
  <2>1. Len(<< >>) = 0
    OBVIOUS
  <2>2. LoggedEntries(p) = Hits(ProxyEntries(<< >>), 0)
    BY ONLY <1>1, <2>1 DEF LoggedEntries
  <2> QED
    BY ONLY <2>2, HitsAt, 0 \in Nat
<1>3. filter # NoFilter => m_count[p] + filter.startup + LoggedEntries(p) <= entered[p][Proxy]
  <2>1. filter # NoFilter => filter.startup \in Nat
    BY <1>1, FilterParameters
  <2> QED
    BY ONLY <1>1, <1>2, <2>1
<1> QED
  BY ONLY <1>1, <1>3 DEF EpochOf

\* What the filter makes up is what the manual says of the entries it has seen.
LEMMA MadeIsEpochs ==
    ASSUME NEW m \in Int, filter.calls \in Nat \ {0}, filter.startup \in Nat
    PROVE  Made(m) = EpochsOf(m + filter.startup)
<1> DEFINE b == filter.startup
           W == {k \in Nat : k > b /\ (k - b - 1) % filter.calls = 0}
           n == m + b
<1>1. n \in Int /\ b \in Nat
  OBVIOUS
<1>2. EpochsOf(n) = Hits(W, n)
  <2>1. {k \in 1 .. n : k > b /\ (k - b - 1) % filter.calls = 0} = W \cap (1 .. n)
    <3> DEFINE Q(k) == k > b /\ (k - b - 1) % filter.calls = 0
    <3>1. \A k \in 1 .. n : k \in Nat
      BY ONLY <1>1
    <3>2. W = {k \in Nat : Q(k)}
      OBVIOUS
    <3> HIDE DEF Q, W
    <3>3. {k \in 1 .. n : Q(k)} = W \cap (1 .. n)
      BY ONLY <3>1, <3>2
    <3> QED
      BY ONLY <3>3 DEF Q
  <2> QED
    BY ONLY <2>1 DEF EpochsOf, Hits
<1>3. CASE n < 0
  <2>1. 1 .. n = {}
    BY ONLY <1>1, <1>3
  <2>2. Hits(W, n) = 0
    <3>1. W \cap (1 .. n) = {}
      BY ONLY <2>1
    <3> QED
      BY ONLY <3>1, FS_EmptySet DEF Hits
  <2>3. m <= 0
    BY ONLY <1>1, <1>3, m \in Int
  <2> HIDE DEF n, W
  <2> QED
    BY ONLY <1>2, <2>2, <2>3 DEF Made, n
<1>4. CASE n \in Nat
  <2> DEFINE Good == {k \in 0 .. n : Made(k - b) = Hits(W, k)}
  <2>1. 0 \in Good
    <3>1. Made(0 - b) = 0
      <4>1. 0 - b <= 0
        BY ONLY <1>1
      <4> QED
        BY ONLY <4>1 DEF Made
    <3>2. Hits(W, 0) = 0
      BY HitsAt, 0 \in Nat
    <3>3. 0 \in 0 .. n
      BY ONLY <1>4
    <3> QED
      BY ONLY <3>1, <3>2, <3>3
  <2>2. ASSUME NEW k \in 1 .. n, k - 1 \in Good PROVE k \in Good
    <3> DEFINE c == k - 1 - b
    <3>1. /\ k \in Nat /\ k - 1 \in Nat /\ (k - 1) + 1 = k /\ c \in Int /\ c + 1 = k - b
          /\ k \in 0 .. n
      BY ONLY <1>1, <1>4, k \in 1 .. n
    <3>2. /\ Made(c) \in Nat
          /\ IsProxyEpoch(c) => Made(c + 1) = Made(c) + 1
          /\ ~IsProxyEpoch(c) => Made(c + 1) = Made(c)
      BY ONLY <3>1, filter.calls \in Nat \ {0}, MadeStep
    <3>3. Hits(W, k) = Hits(W, k - 1) + IF k \in W THEN 1 ELSE 0
      <4> HIDE DEF W
      <4>1. Hits(W, (k - 1) + 1) = Hits(W, k - 1) + IF (k - 1) + 1 \in W THEN 1 ELSE 0
        BY ONLY <3>1, HitsAt
      <4> QED
        BY ONLY <3>1, <4>1
    <3>4. k \in W <=> IsProxyEpoch(c)
      <4>1. k > b <=> c >= 0
        BY ONLY <1>1, <3>1
      <4>2. k - b - 1 = c
        BY ONLY <1>1, <3>1
      <4> QED
        BY ONLY <3>1, <4>1, <4>2 DEF IsProxyEpoch
    <3>5. Made(c) = Hits(W, k - 1)
      BY ONLY <2>2
    <3> HIDE DEF W, b, c
    <3>6. Made(k - b) = Hits(W, k)
      BY ONLY <3>1, <3>2, <3>3, <3>4, <3>5
    <3> QED
      BY ONLY <3>1, <3>6 DEF b, W
  <2> HIDE DEF Good
  <2>3. n \in Good
    <3>1. \A k \in 0 .. n : k \in Good
      BY ONLY <1>4, <2>1, <2>2, PlaceInduction
    <3>2. n \in 0 .. n
      BY ONLY <1>4
    <3> QED
      BY ONLY <3>1, <3>2
  <2>4. Made(n - b) = Hits(W, n)
    BY ONLY <2>3 DEF Good
  <2>5. n - b = m
    BY ONLY <1>1, m \in Int
  <2> HIDE DEF n, W, b
  <2> QED
    BY ONLY <1>2, <2>4, <2>5 DEF n, b
<1> QED
  BY ONLY <1>1, <1>3, <1>4

\* EPOCH_COUNT is that of the epochs in both cases.
LEMMA CountedEpochs ==
    ASSUME LogInv, EpochInv
    PROVE  EpochsCounted
<1> SUFFICES ASSUME NEW p \in Process
             PROVE  IF filter = NoFilter
                    THEN per_cpu_count[p] + Cardinality({i \in DOMAIN records[p] :
                                              records[p][i].event = "epoch"}) = epoch_count[p]
                    ELSE per_cpu_count[p] = EpochsOf(m_count[p] + filter.startup)
                         /\ m_count[p] + filter.startup <= entered[p][Proxy]
  BY DEF EpochsCounted
<1>1. EpochOf(p) /\ EpochsFit(p) /\ m_count[p] \in Int /\ filter \in Filters
  BY DEF EpochInv, LogInv, ControllerTypes
<1>2. CASE filter = NoFilter
  <2>1. Numbered(records[p], valid[p].epoch, epoch_count[p]) /\ per_cpu_count[p] = valid[p].epoch
    BY ONLY <1>1, <1>2 DEF EpochOf, EpochsFit
  <2>2. records[p] \in Seq(Recs)
    BY LogAt
  <2>3. Places(records[p], "epoch") \cap (1 .. Len(records[p])) =
          {i \in DOMAIN records[p] : records[p][i].event = "epoch"}
    BY ONLY <2>2 DEF Places
  <2> QED
    BY ONLY <1>2, <2>1, <2>3 DEF Numbered, Hits
<1>3. CASE filter # NoFilter
  <2>1. filter.calls \in Nat \ {0} /\ filter.startup \in Nat
    BY ONLY <1>1, <1>3, FilterParameters
  <2>2. Made(m_count[p]) = EpochsOf(m_count[p] + filter.startup)
    BY ONLY <1>1, <2>1, MadeIsEpochs
  <2>3. per_cpu_count[p] = Made(m_count[p])
    BY ONLY <1>1, <1>3 DEF EpochOf, EpochsFit
  <2>4. m_count[p] + filter.startup <= entered[p][Proxy]
    <3>1. m_count[p] + filter.startup + LoggedEntries(p) <= entered[p][Proxy]
      BY ONLY <1>1, <1>3 DEF EpochOf
    <3>2. LoggedEntries(p) \in Nat
      <4>1. records[p] \in Seq(Recs)
        BY LogAt
      <4> QED
        BY ONLY <4>1, LoggedNat DEF LoggedEntries
    <3>3. entered[p][Proxy] \in Int
      BY SamplerAssumption DEF LogInv, LogTypes, RegionCounts
    <3> QED
      BY ONLY <1>1, <2>1, <3>1, <3>2, <3>3
  <2> QED
    BY ONLY <1>3, <2>2, <2>3, <2>4
<1> QED
  BY ONLY <1>2, <1>3

\* EpochIOGroup's EPOCH_COUNT is the number of epochs of the process that the
\* control loops have seen: every epoch that it reported, or, with the proxy
\* filter, one for the first of every so many entry records after the start-up.
THEOREM CountsEpochs == Spec => []EpochsCounted
<1>1. Spec => []EpochInv
  BY InitCounted, NextCounted, LogsFit, PTL DEF Spec
<1>2. LogInv /\ EpochInv => EpochsCounted
  BY CountedEpochs
<1> QED
  BY <1>1, <1>2, LogsFit, PTL

-----------------------------------------------------------------------------
(* The counts of completions.                                               *)

\* What a short region adds to the count of h, and a table of them.
WorthOf(x, h) == IF x.hash = h THEN x.num_complete ELSE 0
Worths(t, h) == [q \in DOMAIN t |-> WorthOf(t[q], h)]
Worth(t, h) == SumOver(Worths(t, h), DOMAIN t)

\* It is a number,
LEMMA WorthInt ==
    ASSUME NEW t \in Seq(ShortRegions), NEW h
    PROVE  /\ DOMAIN t = 1 .. Len(t) /\ Len(t) \in Nat /\ IsFiniteSet(DOMAIN t)
           /\ \A q \in DOMAIN t : WorthOf(t[q], h) \in Int /\ Worths(t, h)[q] = WorthOf(t[q], h)
           /\ \A q \in DOMAIN t : Worths(t, h)[q] \in Int
           /\ Worth(t, h) \in Int
<1>1. DOMAIN t = 1 .. Len(t) /\ Len(t) \in Nat
  OBVIOUS
<1>2. IsFiniteSet(DOMAIN t)
  <2>1. Len(t) \in Int /\ 1 \in Int
    BY ONLY <1>1
  <2>2. IsFiniteSet(1 .. Len(t))
    BY ONLY <2>1, FS_Interval
  <2> QED
    BY ONLY <1>1, <2>2
<1>3. \A q \in DOMAIN t : WorthOf(t[q], h) \in Int /\ Worths(t, h)[q] = WorthOf(t[q], h)
  <2>1. \A q \in DOMAIN t : t[q] \in ShortRegions
    OBVIOUS
  <2> QED
    BY ONLY <2>1 DEF ShortRegions, WorthOf, Worths
<1>4. \A q \in DOMAIN t : Worths(t, h)[q] \in Int
  BY ONLY <1>3
<1>5. Worth(t, h) \in Int
  BY ONLY <1>2, <1>4, SumInt DEF Worth
<1> QED
  BY ONLY <1>1, <1>2, <1>3, <1>4, <1>5

\* which grows with another short region
LEMMA WorthAppend ==
    ASSUME NEW t \in Seq(ShortRegions), NEW x \in ShortRegions, NEW h
    PROVE  Worth(Append(t, x), h) = Worth(t, h) + WorthOf(x, h)
<1> DEFINE u == Append(t, x)
           n == Len(t)
           f == Worths(t, h)
           g == Worths(u, h)
<1>1. u \in Seq(ShortRegions) /\ Len(u) = n + 1 /\ u[n + 1] = x /\ \A q \in 1 .. n : u[q] = t[q]
  OBVIOUS
<1> HIDE DEF u
<1>2. DOMAIN t = 1 .. n /\ n \in Nat /\ \A q \in DOMAIN t : f[q] = WorthOf(t[q], h)
  BY ONLY WorthInt, t \in Seq(ShortRegions)
<1>3. DOMAIN u = 1 .. (n + 1) /\ \A q \in DOMAIN u : g[q] \in Int /\ g[q] = WorthOf(u[q], h)
  BY ONLY WorthInt, <1>1
<1> HIDE DEF n, f, g
<1>4. \A q \in 1 .. n : q \in 1 .. (n + 1)
  BY ONLY <1>2
<1>5. \A q \in 1 .. n : g[q] = f[q]
  BY ONLY <1>1, <1>2, <1>3, <1>4
<1>6. \A q \in 1 .. n + 1 : g[q] \in Int
  BY ONLY <1>3
<1>7. SumOver(g, 1 .. n + 1) = SumOver(f, 1 .. n) + g[n + 1]
  BY ONLY <1>2, <1>5, <1>6, SumAppend
<1>8. g[n + 1] = WorthOf(x, h)
  <2>1. n + 1 \in 1 .. (n + 1)
    BY ONLY <1>2
  <2> QED
    BY ONLY <1>1, <1>3, <2>1
<1>9. SumOver(g, DOMAIN u) = SumOver(f, DOMAIN t) + WorthOf(x, h)
  BY ONLY <1>2, <1>3, <1>7, <1>8
<1> QED
  BY ONLY <1>9 DEF Worth, f, g, u

\* and by one with another completion of one.
LEMMA WorthMore ==
    ASSUME NEW t \in Seq(ShortRegions), NEW q \in DOMAIN t, NEW h
    PROVE  Worth([t EXCEPT ![q].num_complete = @ + 1], h) =
             Worth(t, h) + IF t[q].hash = h THEN 1 ELSE 0
<1> DEFINE x == [t[q] EXCEPT !.num_complete = @ + 1]
           u == [t EXCEPT ![q] = x]
           f == Worths(t, h)
           g == Worths(u, h)
           S == DOMAIN t
<1>1. t[q] \in ShortRegions
  OBVIOUS
<1>2. x \in ShortRegions /\ x.hash = t[q].hash /\ x.num_complete = t[q].num_complete + 1
  BY ONLY <1>1 DEF ShortRegions
<1>3. /\ u \in Seq(ShortRegions) /\ DOMAIN u = S /\ u[q] = x
      /\ \A i \in S : i # q => u[i] = t[i]
  BY ONLY <1>2, t \in Seq(ShortRegions), q \in DOMAIN t
<1> HIDE DEF x, u
<1>4. IsFiniteSet(S) /\ \A i \in S : f[i] \in Int /\ f[i] = WorthOf(t[i], h)
  BY ONLY WorthInt, t \in Seq(ShortRegions)
<1>5. \A i \in S : g[i] \in Int /\ g[i] = WorthOf(u[i], h)
  BY ONLY WorthInt, <1>3
<1> HIDE DEF f, g, S
<1>6. ChangedAt(f, g, S, q)
  BY ONLY <1>3, <1>4, <1>5 DEF ChangedAt
<1>7. SumOver(g, S) = SumOver(f, S) + (g[q] - f[q])
  BY ONLY <1>4, <1>6, q \in DOMAIN t, SumChange DEF S
<1>8. q \in S
  BY DEF S
<1>9. g[q] - f[q] = IF t[q].hash = h THEN 1 ELSE 0
  <2>1. g[q] = WorthOf(x, h) /\ f[q] = WorthOf(t[q], h)
    BY ONLY <1>3, <1>4, <1>5, <1>8
  <2>2. t[q].num_complete \in Nat
    BY ONLY <1>1 DEF ShortRegions
  <2> QED
    BY ONLY <1>2, <2>1, <2>2 DEF WorthOf
<1>10. Worth(u, h) = Worth(t, h) + IF t[q].hash = h THEN 1 ELSE 0
  BY ONLY <1>3, <1>7, <1>9 DEF Worth, f, g, S
<1>11. [t EXCEPT ![q].num_complete = @ + 1] = u
  BY DEF u, x
<1> QED
  BY ONLY <1>10, <1>11

\* The completions of h in a log,
Exits(s, h) == Hits(Matches(s, Record("exit", h)), Len(s))
Logged(s, t, h) == Exits(s, h) + Worth(t, h)

\* and what the aggregator has counted: together they are what the process did.
CountOf(p, h) ==
    total_count[p][h] + Logged(records[p], short_regions[p], h) = done[p][h]
CountInv == \A p \in Process, h \in Region : CountOf(p, h)

\* They are numbers.
LEMMA ExitsNat ==
    ASSUME NEW s \in Seq(Recs), NEW h
    PROVE  Exits(s, h) \in Nat
<1>1. Len(s) \in Nat
  OBVIOUS
<1> QED
  BY ONLY <1>1, HitsAt DEF Exits

\* An exit record more counts.
LEMMA ExitsLonger ==
    ASSUME NEW s \in Seq(Recs), NEW r \in Recs, NEW h
    PROVE  Exits(Append(s, r), h) = Exits(s, h) + IF r = Record("exit", h) THEN 1 ELSE 0
<1> DEFINE x == Record("exit", h)
<1>1. Hits(Matches(Append(s, r), x), Len(Append(s, r))) =
        Hits(Matches(s, x), Len(s)) + IF r = x THEN 1 ELSE 0
  <2> HIDE DEF x
  <2> QED
    BY MatchesLonger
<1> QED
  BY ONLY <1>1 DEF Exits

\* Replacing a record that is not one by another that is not one does not.
LEMMA ExitsReplaced ==
    ASSUME NEW s \in Seq(Recs), NEW a, NEW i \in DOMAIN s, NEW r, Replaced(s, a, i, r),
           Len(a) = Len(s), r.event # "exit", s[i].event # "exit", NEW h
    PROVE  Exits(a, h) = Exits(s, h)
<1> DEFINE V == Matches(s, Record("exit", h))
           W == Matches(a, Record("exit", h))
<1>1. Record("exit", h).event = "exit"
  BY RecordFields
<1>2. \A j \in 1 .. Len(s) : j \in W <=> j \in V
  <2>1. DOMAIN a = DOMAIN s /\ a[i] = r /\ \A j \in DOMAIN s : j # i => a[j] = s[j]
    BY ONLY Replaced(s, a, i, r) DEF Replaced
  <2>2. a[i] # Record("exit", h) /\ s[i] # Record("exit", h)
    BY ONLY <1>1, <2>1, r.event # "exit", s[i].event # "exit"
  <2> QED
    BY ONLY <2>1, <2>2 DEF Matches
<1>3. Len(s) \in Nat
  OBVIOUS
<1> HIDE DEF V, W
<1>4. Hits(W, Len(s)) = Hits(V, Len(s))
  BY ONLY <1>2, <1>3, HitsAgree
<1> QED
  BY ONLY <1>4, Len(a) = Len(s) DEF Exits, V, W

\* A call logs what it completes,
Completes(p, a, u) ==
    /\ records' = [records EXCEPT ![p] = a] /\ short_regions' = [short_regions EXCEPT ![p] = u]
    /\ total_count' = total_count
    /\ \A h \in Region : Logged(a, u, h) =
         Logged(records[p], short_regions[p], h) + (done'[p][h] - done[p][h])
    /\ \A h \in Region : done'[p][h] \in Int
    /\ \A q \in Process : q # p => done'[q] = done[q]

\* and so keeps this.
LEMMA CallCompletes ==
    ASSUME LogInv, CountInv, NEW p \in Process, NEW a, NEW u, Completes(p, a, u)
    PROVE  CountInv'
<1>0. /\ records' = [records EXCEPT ![p] = a] /\ short_regions' = [short_regions EXCEPT ![p] = u]
      /\ total_count' = total_count
      /\ \A h \in Region : Logged(a, u, h) =
           Logged(records[p], short_regions[p], h) + (done'[p][h] - done[p][h])
      /\ \A h \in Region : done'[p][h] \in Int
      /\ \A q \in Process : q # p => done'[q] = done[q]
  BY ONLY Completes(p, a, u) DEF Completes
<1> SUFFICES ASSUME NEW q \in Process, NEW h \in Region PROVE CountOf(q, h)'
  BY DEF CountInv
<1>1. CountOf(q, h)
  BY DEF CountInv
<1>2. DOMAIN records = Process /\ DOMAIN short_regions = Process
  BY DEF LogInv, LogTypes
<1>3. CASE q # p
  <2>1. records'[q] = records[q] /\ short_regions'[q] = short_regions[q] /\ done'[q] = done[q]
    BY <1>0, <1>2, <1>3
  <2>2. total_count' = total_count
    BY ONLY <1>0
  <2> QED
    BY ONLY <1>1, <2>1, <2>2 DEF CountOf, Logged, Exits, Hits, Matches, Worth, Worths
<1>4. CASE q = p
  <2> DEFINE L == Logged(records[p], short_regions[p], h)
  <2>1. records'[p] = a /\ short_regions'[p] = u
    BY <1>0, <1>2
  <2>2. Logged(records[p], short_regions[p], h)' = Logged(a, u, h)
    BY ONLY <2>1 DEF Logged, Exits, Hits, Matches, Worth, Worths
  <2>3. total_count[p][h] + L = done[p][h]
    BY ONLY <1>1, <1>4 DEF CountOf
  <2>4. L \in Int
    <3>1. records[p] \in Seq(Recs) /\ short_regions[p] \in Seq(ShortRegions)
      BY LogAt
    <3>2. Exits(records[p], h) \in Nat
      BY ONLY <3>1, ExitsNat
    <3>3. Worth(short_regions[p], h) \in Int
      BY ONLY <3>1, WorthInt
    <3> QED
      BY ONLY <3>2, <3>3 DEF Logged
  <2>5. total_count[p][h] \in Int /\ done[p][h] \in Int
    BY DEF LogInv, LogTypes, ControllerTypes, RegionCounts
  <2>6. Logged(a, u, h) = L + (done'[p][h] - done[p][h]) /\ done'[p][h] \in Int
    BY <1>0
  <2>8. total_count' = total_count
    BY ONLY <1>0
  <2> HIDE DEF L
  <2>7. total_count[p][h] + Logged(a, u, h) = done'[p][h]
    BY ONLY <2>3, <2>4, <2>5, <2>6
  <2>9. CountOf(p, h)'
    BY ONLY <2>2, <2>7, <2>8 DEF CountOf
  <2> QED
    BY ONLY <1>4, <2>9
<1> QED
  BY ONLY <1>3, <1>4

\* A call that completes nothing,
LEMMA NoneCompleted ==
    ASSUME LogInv, CountInv, NEW p \in Process, NEW a,
           records' = [records EXCEPT ![p] = a], short_regions' = short_regions,
           total_count' = total_count, done' = done,
           \/ a = records[p]
           \/ \E r \in Recs : r.event # "exit" /\ a = Append(records[p], r)
    PROVE  CountInv'
<1> DEFINE s == records[p]
           t == short_regions[p]
<1>1. s \in Seq(Recs) /\ t \in Seq(ShortRegions)
  BY LogAt
<1>2. short_regions' = [short_regions EXCEPT ![p] = t]
  BY Unchanged
<1>3. \A h \in Region : done[p][h] \in Int
  BY DEF LogInv, LogTypes, RegionCounts
<1>4. ASSUME NEW h \in Region PROVE Logged(a, t, h) = Logged(s, t, h) + (done[p][h] - done[p][h])
  <2>1. Exits(a, h) = Exits(s, h)
    <3>1. ASSUME NEW r \in Recs, r.event # "exit", a = Append(s, r)
          PROVE  Exits(a, h) = Exits(s, h)
      <4>1. r # Record("exit", h)
        BY ONLY <3>1, RecordFields
      <4>2. Exits(a, h) = Exits(s, h) + 0
        BY ONLY <1>1, <3>1, <4>1, ExitsLonger
      <4>3. Exits(s, h) \in Nat
        BY ONLY <1>1, ExitsNat
      <4> QED
        BY ONLY <4>2, <4>3
    <3> QED
      BY <3>1
  <2>2. Exits(s, h) \in Nat /\ Worth(t, h) \in Int
    BY ONLY <1>1, ExitsNat, WorthInt
  <2>3. done[p][h] \in Int
    BY ONLY <1>3, h \in Region
  <2> QED
    BY ONLY <2>1, <2>2, <2>3 DEF Logged
<1>6. \A h \in Region : Logged(a, t, h) =
        Logged(records[p], short_regions[p], h) + (done'[p][h] - done[p][h])
  BY ONLY <1>4, done' = done
<1>7. \A h \in Region : done'[p][h] \in Int
  BY ONLY <1>3, done' = done
<1>8. \A q \in Process : q # p => done'[q] = done[q]
  BY ONLY done' = done
<1>9. Completes(p, a, t)
  BY ONLY <1>2, <1>6, <1>7, <1>8, records' = [records EXCEPT ![p] = a],
          total_count' = total_count DEF Completes
<1> HIDE DEF t
<1> QED
  BY ONLY LogInv, CountInv, p \in Process, <1>9, CallCompletes

\* and one that completes g.
CompletesOne(p, g, a, u) ==
    /\ records' = [records EXCEPT ![p] = a] /\ short_regions' = [short_regions EXCEPT ![p] = u]
    /\ total_count' = total_count /\ done' = [done EXCEPT ![p][g] = @ + 1]
    /\ \A h \in Region : Logged(a, u, h) =
         Logged(records[p], short_regions[p], h) + IF h = g THEN 1 ELSE 0

\* One completion more in the log is one more done.
LEMMA OneCompleted ==
    ASSUME LogInv, CountInv, NEW p \in Process, NEW a, NEW u, NEW g \in Region,
           CompletesOne(p, g, a, u)
    PROVE  CountInv'
<1>0. /\ records' = [records EXCEPT ![p] = a] /\ short_regions' = [short_regions EXCEPT ![p] = u]
      /\ total_count' = total_count /\ done' = [done EXCEPT ![p][g] = @ + 1]
      /\ \A h \in Region : Logged(a, u, h) =
           Logged(records[p], short_regions[p], h) + IF h = g THEN 1 ELSE 0
  BY ONLY CompletesOne(p, g, a, u) DEF CompletesOne
<1>1. done \in [Process -> [Region -> Nat]]
  BY DEF LogInv, LogTypes, RegionCounts
<1>2. /\ \A h \in Region : /\ done'[p][h] = done[p][h] + IF h = g THEN 1 ELSE 0
                           /\ done[p][h] \in Int
      /\ \A q \in Process : q # p => done'[q] = done[q]
  BY ONLY <1>0, <1>1, p \in Process, g \in Region
<1>3. \A h \in Region : /\ done'[p][h] \in Int
                        /\ done'[p][h] - done[p][h] = IF h = g THEN 1 ELSE 0
  BY ONLY <1>2
<1>4. \A h \in Region : Logged(a, u, h) =
        Logged(records[p], short_regions[p], h) + (done'[p][h] - done[p][h])
  BY ONLY <1>0, <1>3
<1>5. Completes(p, a, u)
  BY ONLY <1>0, <1>2, <1>3, <1>4 DEF Completes
<1> QED
  BY ONLY LogInv, CountInv, p \in Process, <1>5, CallCompletes

\* Leaving a region is one completion of it,
LEMMA LeaveCompletes ==
    ASSUME LogInv, NEW p, NEW h, Leave(p, h)
    PROVE  total_count' = total_count /\ done' = [done EXCEPT ![p][h] = @ + 1]
  BY DEF Leave, Call

\* that has a record of its own,
LEMMA ExitLongCompletes ==
    ASSUME LogInv, CountInv, NEW p \in Process, NEW h \in Region, ExitLong(p, h)
    PROVE  CountInv'
<1> DEFINE s == records[p]
           t == short_regions[p]
           r == Record("exit", h)
           a == Append(s, r)
<1>1. s \in Seq(Recs) /\ t \in Seq(ShortRegions)
  BY LogAt
<1>2. Leave(p, h) /\ records' = [records EXCEPT ![p] = a] /\ short_regions' = short_regions
  BY DEF ExitLong
<1>3. total_count' = total_count /\ done' = [done EXCEPT ![p][h] = @ + 1]
  BY ONLY LogInv, <1>2, LeaveCompletes
<1>4. short_regions' = [short_regions EXCEPT ![p] = t]
  BY <1>2, Unchanged
<1>5. r \in Recs /\ \A g : r = Record("exit", g) <=> g = h
  BY DEF Record, Recs
<1>6. \A g \in Region : Logged(a, t, g) = Logged(s, t, g) + IF g = h THEN 1 ELSE 0
  <2> SUFFICES ASSUME NEW g \in Region
               PROVE  Logged(a, t, g) = Logged(s, t, g) + IF g = h THEN 1 ELSE 0
    OBVIOUS
  <2>1. Exits(a, g) = Exits(s, g) + IF r = Record("exit", g) THEN 1 ELSE 0
    <3> HIDE DEF r
    <3> QED
      BY ONLY <1>1, <1>5, ExitsLonger
  <2>2. Exits(s, g) \in Nat /\ Worth(t, g) \in Int
    BY ONLY <1>1, ExitsNat, WorthInt
  <2> QED
    BY ONLY <1>5, <2>1, <2>2 DEF Logged
<1>7. CompletesOne(p, h, a, t)
  BY ONLY <1>2, <1>3, <1>4, <1>6 DEF CompletesOne
<1> HIDE DEF a, t
<1> QED
  BY ONLY LogInv, CountInv, p \in Process, h \in Region, <1>7, OneCompleted

\* is the first of a new short region
LEMMA NewShortLogged ==
    ASSUME NEW s \in Seq(Recs), NEW t \in Seq(ShortRegions), NEW a, NEW h \in Region, NEW g,
           Exits(a, g) = Exits(s, g)
    PROVE  Logged(a, Append(t, [hash |-> h, num_complete |-> 1]), g) =
             Logged(s, t, g) + IF g = h THEN 1 ELSE 0
<1> DEFINE x == [hash |-> h, num_complete |-> 1]
<1>1. x \in ShortRegions
  BY DEF ShortRegions
<1>2. WorthOf(x, g) = IF g = h THEN 1 ELSE 0
  BY DEF WorthOf
<1> HIDE DEF x
<1>3. Worth(Append(t, x), g) = Worth(t, g) + WorthOf(x, g)
  BY ONLY <1>1, t \in Seq(ShortRegions), WorthAppend
<1>4. Exits(s, g) \in Nat /\ Worth(t, g) \in Int
  BY ONLY s \in Seq(Recs), t \in Seq(ShortRegions), ExitsNat, WorthInt
<1>5. Logged(a, Append(t, x), g) = Logged(s, t, g) + IF g = h THEN 1 ELSE 0
  BY ONLY <1>2, <1>3, <1>4, Exits(a, g) = Exits(s, g) DEF Logged
<1> QED
  BY ONLY <1>5 DEF x

\* in one of two ways,
LEMMA ExitCarriedCompletes ==
    ASSUME LogInv, CountInv, NEW p \in Process, NEW h \in Region, ExitCarried(p, h)
    PROVE  CountInv'
<1> DEFINE s == records[p]
           t == short_regions[p]
           r == Record("short", Len(t) + 1)
           a == Append(s, r)
           u == Append(t, [hash |-> h, num_complete |-> 1])
<1>1. s \in Seq(Recs) /\ t \in Seq(ShortRegions) /\ Len(t) \in Nat
  BY LogAt
<1>2. /\ Leave(p, h) /\ records' = [records EXCEPT ![p] = a]
      /\ short_regions' = [short_regions EXCEPT ![p] = u]
  BY DEF ExitCarried, NewShort
<1>3. total_count' = total_count /\ done' = [done EXCEPT ![p][h] = @ + 1]
  BY ONLY LogInv, <1>2, LeaveCompletes
<1>4. r \in Recs /\ \A g : r # Record("exit", g)
  BY ONLY <1>1 DEF Record, Recs
<1> HIDE DEF r
<1>5. \A g \in Region : Logged(a, u, g) = Logged(s, t, g) + IF g = h THEN 1 ELSE 0
  <2> SUFFICES ASSUME NEW g \in Region
               PROVE  Logged(a, u, g) = Logged(s, t, g) + IF g = h THEN 1 ELSE 0
    OBVIOUS
  <2>1. Exits(a, g) = Exits(s, g) + 0
    BY ONLY <1>1, <1>4, ExitsLonger
  <2>2. Exits(s, g) \in Nat
    BY ONLY <1>1, ExitsNat
  <2>3. Exits(a, g) = Exits(s, g)
    BY ONLY <2>1, <2>2
  <2> HIDE DEF s, t, a
  <2> QED
    BY ONLY <1>1, <2>3, h \in Region, NewShortLogged
<1>6. CompletesOne(p, h, a, u)
  BY ONLY <1>2, <1>3, <1>5 DEF CompletesOne
<1> HIDE DEF a, u
<1> QED
  BY ONLY LogInv, CountInv, p \in Process, h \in Region, <1>6, OneCompleted

\* The first exit of a short region in a window completes one,
LEMMA ExitFirstCompletes ==
    ASSUME LogInv, CountInv, NEW p \in Process, NEW h \in Region, ExitFirst(p, h)
    PROVE  CountInv'
<1> DEFINE s == records[p]
           t == short_regions[p]
           r == Record("short", Len(t) + 1)
           u == Append(t, [hash |-> h, num_complete |-> 1])
<1>1. s \in Seq(Recs) /\ t \in Seq(ShortRegions)
  BY LogAt
<1>2. PICK i \in DOMAIN s :
         /\ s[i] = Record("entry", h) /\ Leave(p, h)
         /\ records' = [records EXCEPT ![p][i] = r]
         /\ short_regions' = [short_regions EXCEPT ![p] = u]
  BY DEF ExitFirst, NewShort, IsEntry
<1> DEFINE a == [s EXCEPT ![i] = r]
<1>3. total_count' = total_count /\ done' = [done EXCEPT ![p][h] = @ + 1]
  BY ONLY LogInv, <1>2, LeaveCompletes
<1>4. records' = [records EXCEPT ![p] = a]
  BY ONLY <1>2
<1>5. Replaced(s, a, i, r) /\ Len(a) = Len(s)
  BY ONLY <1>1, i \in DOMAIN s DEF Replaced
<1>6. r.event # "exit" /\ s[i].event # "exit"
  BY ONLY <1>2, RecordFields
<1> HIDE DEF a, r
<1>7. \A g \in Region : Logged(a, u, g) = Logged(s, t, g) + IF g = h THEN 1 ELSE 0
  <2> SUFFICES ASSUME NEW g \in Region
               PROVE  Logged(a, u, g) = Logged(s, t, g) + IF g = h THEN 1 ELSE 0
    OBVIOUS
  <2> HIDE DEF s, t
  <2>1. Exits(a, g) = Exits(s, g)
    BY ONLY <1>1, <1>5, <1>6, i \in DOMAIN s, ExitsReplaced
  <2> QED
    BY ONLY <1>1, <2>1, h \in Region, NewShortLogged
<1>8. CompletesOne(p, h, a, u)
  BY ONLY <1>2, <1>3, <1>4, <1>7 DEF CompletesOne
<1> HIDE DEF u
<1> QED
  BY ONLY LogInv, CountInv, p \in Process, h \in Region, <1>8, OneCompleted

\* or one more of one.
LEMMA ExitAgainCompletes ==
    ASSUME LogInv, CountInv, NEW p \in Process, NEW h \in Region, ExitAgain(p, h)
    PROVE  CountInv'
<1> DEFINE s == records[p]
           t == short_regions[p]
<1>1. s \in Seq(Recs) /\ t \in Seq(ShortRegions) /\ Booked(s, t)
  <2>1. s \in Seq(Recs) /\ t \in Seq(ShortRegions) /\ LogFits(s, t, current[p], carried[p], valid[p].hash)
    BY ONLY LogInv, p \in Process, LogAt, SMTT(40)
  <2> QED
    BY ONLY <2>1 DEF LogFits
<1>2. PICK i \in DOMAIN s :
         /\ s[i].event = "short" /\ t[s[i].signal].hash = h /\ Leave(p, h)
         /\ short_regions' = [short_regions EXCEPT ![p][s[i].signal].num_complete = @ + 1]
         /\ records' = records
  BY DEF ExitAgain, IsShort
<1> DEFINE q == s[i].signal
           u == [t EXCEPT ![q].num_complete = @ + 1]
<1>3. total_count' = total_count /\ done' = [done EXCEPT ![p][h] = @ + 1]
  BY ONLY LogInv, <1>2, LeaveCompletes
<1>4. records' = [records EXCEPT ![p] = s]
  BY <1>2, Unchanged
<1>5. short_regions' = [short_regions EXCEPT ![p] = u]
  BY ONLY <1>2
<1>6. q \in DOMAIN t
  BY ONLY <1>1, <1>2, i \in DOMAIN s DEF Booked
<1>7. t[q].hash = h
  BY ONLY <1>2
<1> HIDE DEF q
<1>8. \A g \in Region : Logged(s, u, g) = Logged(s, t, g) + IF g = h THEN 1 ELSE 0
  <2> SUFFICES ASSUME NEW g \in Region
               PROVE  Logged(s, u, g) = Logged(s, t, g) + IF g = h THEN 1 ELSE 0
    OBVIOUS
  <2>1. Worth(u, g) = Worth(t, g) + IF t[q].hash = g THEN 1 ELSE 0
    BY ONLY <1>1, <1>6, WorthMore
  <2>2. Exits(s, g) \in Nat /\ Worth(t, g) \in Int
    BY ONLY <1>1, ExitsNat, WorthInt
  <2> HIDE DEF s, t, u
  <2> QED
    BY ONLY <1>7, <2>1, <2>2 DEF Logged
<1>9. CompletesOne(p, h, s, u)
  BY ONLY <1>3, <1>4, <1>5, <1>8 DEF CompletesOne
<1> QED
  <2> HIDE DEF s, u
  <2>1. \E a, v : CompletesOne(p, h, a, v)
    BY ONLY <1>9
  <2> HIDE DEF t, q
  <2> QED
    BY ONLY LogInv, CountInv, p \in Process, h \in Region, <2>1, OneCompleted

-----------------------------------------------------------------------------
(* What the aggregator is given.                                            *)

\* What a record adds to the count of h by the table of the process, and
\* what a sequence of them does.
ValueOf(r, t, h) ==
    IF r = Record("exit", h) THEN 1
    ELSE IF r.event = "short" /\ r.signal \in DOMAIN t THEN WorthOf(t[r.signal], h)
    ELSE 0
Values(s, t, h) == [i \in DOMAIN s |-> ValueOf(s[i], t, h)]
Total(s, t, h) == SumOver(Values(s, t, h), 1 .. Len(s))

\* They are numbers,
LEMMA ValueInt ==
    ASSUME NEW t \in Seq(ShortRegions), NEW r, NEW h
    PROVE  /\ ValueOf(r, t, h) \in Int
           /\ r.event \notin {"exit", "short"} => ValueOf(r, t, h) = 0
<1>1. \A q \in DOMAIN t : WorthOf(t[q], h) \in Int
  BY WorthInt
<1>2. Record("exit", h).event = "exit"
  BY RecordFields
<1> QED
  BY ONLY <1>1, <1>2 DEF ValueOf

\* each adds to those before it,
LEMMA ValuesGrow ==
    ASSUME NEW s \in Seq(Recs), NEW t \in Seq(ShortRegions), NEW h, NEW k \in 1 .. Len(s)
    PROVE  /\ SumOver(Values(s, t, h), 1 .. k) =
                SumOver(Values(s, t, h), 1 .. (k - 1)) + ValueOf(s[k], t, h)
           /\ SumOver(Values(s, t, h), {}) = 0
<1> DEFINE f == Values(s, t, h)
           m == k - 1
<1>1. /\ DOMAIN s = 1 .. Len(s) /\ Len(s) \in Nat
      /\ m \in Nat /\ m + 1 = k /\ k \in DOMAIN s
      /\ \A i \in 1 .. k : i \in DOMAIN s
  OBVIOUS
<1>2. \A i \in DOMAIN s : f[i] = ValueOf(s[i], t, h) /\ f[i] \in Int
  BY ONLY ValueInt, t \in Seq(ShortRegions) DEF Values
<1> HIDE DEF f
<1>3. \A i \in 1 .. m + 1 : f[i] \in Int
  BY ONLY <1>1, <1>2
<1> HIDE DEF m
<1>4. \A i \in 1 .. m : f[i] = f[i]
  OBVIOUS
<1>5. SumOver(f, 1 .. m + 1) = SumOver(f, 1 .. m) + f[m + 1]
  BY ONLY <1>1, <1>3, <1>4, SumAppend
<1>6. SumOver(f, {}) = 0
  BY ONLY SumEmpty
<1>7. SumOver(f, 1 .. k) = SumOver(f, 1 .. m) + ValueOf(s[k], t, h)
  BY ONLY <1>1, <1>2, <1>5
<1> QED
  BY ONLY <1>6, <1>7 DEF f, m

\* to a total,
LEMMA TotalInt ==
    ASSUME NEW s \in Seq(Recs), NEW t \in Seq(ShortRegions), NEW h
    PROVE  Total(s, t, h) \in Int
<1> DEFINE f == Values(s, t, h)
           S == 1 .. Len(s)
<1>1. DOMAIN s = 1 .. Len(s) /\ Len(s) \in Int /\ 1 \in Int
  OBVIOUS
<1>2. IsFiniteSet(S)
  BY ONLY <1>1, FS_Interval
<1>3. \A i \in S : f[i] \in Int
  BY ONLY <1>1, ValueInt, t \in Seq(ShortRegions) DEF Values
<1> HIDE DEF f, S
<1>4. SumOver(f, S) \in Int
  BY ONLY <1>2, <1>3, SumInt
<1> QED
  BY ONLY <1>4 DEF Total, f, S

\* which grows by that of a record that is appended.
LEMMA TotalAppend ==
    ASSUME NEW s \in Seq(Recs), NEW r \in Recs, NEW t \in Seq(ShortRegions), NEW h
    PROVE  /\ Total(Append(s, r), t, h) = Total(s, t, h) + ValueOf(r, t, h)
           /\ Total(<< >>, t, h) = 0
<1> DEFINE a == Append(s, r)
           n == Len(s)
           f == Values(s, t, h)
           g == Values(a, t, h)
<1>1. /\ DOMAIN s = 1 .. n /\ n \in Nat
      /\ DOMAIN a = 1 .. n + 1 /\ Len(a) = n + 1 /\ a[n + 1] = r /\ \A i \in 1 .. n : a[i] = s[i]
      /\ n + 1 \in 1 .. n + 1 /\ \A i \in 1 .. n : i \in 1 .. n + 1
  OBVIOUS
<1> HIDE DEF a, n
<1>2. \A i \in 1 .. n : f[i] = ValueOf(s[i], t, h)
  BY ONLY <1>1 DEF Values
<1>3. \A i \in 1 .. n + 1 : g[i] = ValueOf(a[i], t, h) /\ g[i] \in Int
  BY ONLY <1>1, ValueInt, t \in Seq(ShortRegions) DEF Values
<1> HIDE DEF f, g
<1>4. \A i \in 1 .. n : g[i] = f[i]
  BY ONLY <1>1, <1>2, <1>3
<1>5. SumOver(g, 1 .. n + 1) = SumOver(f, 1 .. n) + g[n + 1]
  BY ONLY <1>1, <1>3, <1>4, SumAppend
<1>6. g[n + 1] = ValueOf(r, t, h)
  BY ONLY <1>1, <1>3
<1>7. Total(a, t, h) = Total(s, t, h) + ValueOf(r, t, h)
  BY ONLY <1>1, <1>5, <1>6 DEF Total, f, g, n
<1>8. Total(<< >>, t, h) = 0
  <2>1. 1 .. Len(<< >>) = {}
    OBVIOUS
  <2> QED
    BY ONLY <2>1, SumEmpty DEF Total
<1> QED
  BY ONLY <1>7, <1>8 DEF a

\* What the aggregator counts of the buffer is the total of what it was made of.
LEMMA CompletedIsTotal ==
    ASSUME LogInv, NEW p \in Process, NEW h
    PROVE  Completed(Buffered(p), h) = Total(Seen(p), short_regions[p], h)
<1> DEFINE b == Buffered(p)
           o == Seen(p)
           t == short_regions[p]
           f == Values(o, t, h)
           n == Len(o)
<1>1. /\ ShiftFits(p, o, b) /\ o \in Seq(Recs) /\ b \in Seq(Recs) /\ t \in Seq(ShortRegions)
      /\ Passed(o, records[p], Len(records[p]))
  BY SeenAt, LogAt
<1>2. \A i \in DOMAIN b : Completions(b[i], h) \in Nat
  BY CountedAt
<1> HIDE DEF b, o
<1>3. \A i \in DOMAIN b :
         b[i].event = "short" =>
           /\ o[i].event = "short" /\ o[i].signal \in DOMAIN short_regions[p]
           /\ short_region_buffer[b[i].signal] = short_regions[p][o[i].signal]
           /\ short_region_buffer[b[i].signal] \in ShortRegions
  BY ONLY LogInv, p \in Process, <1>1, ShiftedInBuffer
<1>4. /\ Len(b) = n /\ n \in Nat /\ DOMAIN o = 1 .. n /\ DOMAIN b = 1 .. n
      /\ \A i \in DOMAIN o : /\ o[i].event # "short" => b[i] = o[i]
                             /\ o[i].event = "short" => b[i] = Record("short", o[i].signal + Offset(p))
  BY ONLY <1>1 DEF ShiftFits
<1> HIDE DEF t
<1>5. ASSUME NEW i \in 1 .. n PROVE Completions(b[i], h) = ValueOf(o[i], t, h)
  <2>1. i \in DOMAIN b /\ i \in DOMAIN o
    BY ONLY <1>4, i \in 1 .. n
  <2>2. CASE o[i].event = "short"
    <3>1. b[i].event = "short"
      BY ONLY <1>4, <2>1, <2>2, RecordFields
    <3>2. \A g : Record("exit", g).event # "short"
      BY ONLY RecordFields
    <3>3. b[i] # Record("exit", h) /\ o[i] # Record("exit", h)
      BY ONLY <2>2, <3>1, <3>2
    <3>4. o[i].signal \in DOMAIN t /\ short_region_buffer[b[i].signal] = t[o[i].signal]
      BY ONLY <1>3, <2>1, <3>1 DEF t
    <3> QED
      BY ONLY <2>2, <3>1, <3>3, <3>4 DEF Completions, ValueOf, WorthOf
  <2>3. CASE o[i].event # "short"
    <3>1. b[i] = o[i]
      BY ONLY <1>4, <2>1, <2>3
    <3> QED
      BY ONLY <2>3, <3>1 DEF Completions, ValueOf
  <2> QED
    BY ONLY <2>2, <2>3
<1>6. PICK c : Counting(h, b, c) /\ Completed(b, h) = c[Len(b)]
  BY ONLY <1>1, <1>2, CountRun
<1> HIDE DEF n
<1>7. c[0] = 0 /\ \A k \in 1 .. n : c[k] = c[k - 1] + Completions(b[k], h)
  BY ONLY <1>4, <1>6 DEF Counting
<1> DEFINE Good == {k \in 0 .. n : c[k] = SumOver(f, 1 .. k)}
<1>8. 0 \in Good
  <2>1. 1 .. 0 = {} /\ 0 \in 0 .. n
    BY ONLY <1>4
  <2>2. SumOver(f, {}) = 0
    BY ONLY SumEmpty
  <2> QED
    BY ONLY <1>7, <2>1, <2>2
<1>9. ASSUME NEW k \in 1 .. n, k - 1 \in Good PROVE k \in Good
  <2>1. k \in 0 .. n
    BY ONLY <1>4, k \in 1 .. n
  <2>2. c[k] = c[k - 1] + ValueOf(o[k], t, h)
    BY ONLY <1>5, <1>7, k \in 1 .. n
  <2>3. SumOver(f, 1 .. k) = SumOver(f, 1 .. (k - 1)) + ValueOf(o[k], t, h)
    BY ONLY <1>1, k \in 1 .. n, ValuesGrow DEF n, t
  <2>4. c[k - 1] = SumOver(f, 1 .. (k - 1))
    BY ONLY <1>9
  <2> HIDE DEF f
  <2> QED
    BY ONLY <2>1, <2>2, <2>3, <2>4
<1> HIDE DEF Good
<1>10. n \in Good
  <2>1. \A k \in 0 .. n : k \in Good
    BY ONLY <1>4, <1>8, <1>9, PlaceInduction
  <2>2. n \in 0 .. n
    BY ONLY <1>4
  <2> QED
    BY ONLY <2>1, <2>2
<1>11. c[n] = SumOver(f, 1 .. n)
  BY ONLY <1>10 DEF Good
<1> QED
  BY ONLY <1>4, <1>6, <1>11 DEF Total, b, o, t, n

\* The filter lets every completion through,
LEMMA FilterTotal ==
    ASSUME NEW s \in Seq(Recs), NEW t \in Seq(ShortRegions), NEW h, NEW st \in FilterStates,
           st.out = << >>, filter.calls \in Nat \ {0}
    PROVE  Total(FoldLeft(FilterRecord, st, s).out, t, h) = Total(s, t, h)
<1> DEFINE n == Len(s)
           v == Values(s, t, h)
<1>1. n \in Nat /\ DOMAIN s = 1 .. n
  OBVIOUS
<1>2. PICK f : Filtering(st, s, f) /\ FoldLeft(FilterRecord, st, s) = f[n]
  BY FilterRun
<1>3. /\ f \in [0 .. n -> FilterStates] /\ f[0] = st
      /\ \A k \in 1 .. n : f[k] = FilterRecord(f[k - 1], s[k])
  BY ONLY <1>2 DEF Filtering
<1> HIDE DEF n
<1> DEFINE Good == {k \in 0 .. n : Total(f[k].out, t, h) = SumOver(v, 1 .. k)}
<1>4. 0 \in Good
  <2>1. 1 .. 0 = {} /\ 0 \in 0 .. n
    BY ONLY <1>1
  <2>2. SumOver(v, {}) = 0
    BY ONLY SumEmpty
  <2>3. 1 .. Len(<< >>) = {}
    OBVIOUS
  <2>4. Total(<< >>, t, h) = 0
    BY ONLY <2>3, SumEmpty DEF Total
  <2> QED
    BY ONLY <1>3, <2>1, <2>2, <2>4, st.out = << >>
<1>5. ASSUME NEW k \in 1 .. n, k - 1 \in Good PROVE k \in Good
  <2> DEFINE g == f[k - 1]
             r == s[k]
             q == Record("epoch", ProxySignal(g.count))
  <2>1. k \in 0 .. n /\ k - 1 \in 0 .. n /\ k \in DOMAIN s
    BY ONLY <1>1, k \in 1 .. n
  <2>2. g \in FilterStates /\ f[k] = FilterRecord(g, r)
    BY ONLY <1>3, <2>1, k \in 1 .. n
  <2>3. r \in Recs /\ g.out \in Seq(Recs) /\ g.count \in Int
    BY ONLY <2>1, <2>2, s \in Seq(Recs) DEF FilterStates
  <2>4. Total(g.out, t, h) = SumOver(v, 1 .. (k - 1))
    BY ONLY <1>5 DEF Good
  <2>5. SumOver(v, 1 .. k) = SumOver(v, 1 .. (k - 1)) + ValueOf(r, t, h)
    BY ONLY s \in Seq(Recs), t \in Seq(ShortRegions), k \in 1 .. n, ValuesGrow DEF n
  <2>6. Total(g.out, t, h) \in Int /\ ValueOf(r, t, h) \in Int
    BY ONLY <2>3, t \in Seq(ShortRegions), TotalInt, ValueInt
  <2> HIDE DEF g, r, v
  <2>7. Total(f[k].out, t, h) = Total(g.out, t, h) + ValueOf(r, t, h)
    <3>1. CASE r.event = "epoch"
      <4>1. f[k] = g
        BY ONLY <2>2, <2>3, <3>1, filter.calls \in Nat \ {0}, FilterAt
      <4>2. ValueOf(r, t, h) = 0
        BY ONLY <3>1, t \in Seq(ShortRegions), ValueInt
      <4> QED
        BY ONLY <2>6, <4>1, <4>2
    <3>2. CASE r.event # "epoch" /\ f[k].out = Append(g.out, r)
      BY ONLY <2>3, <3>2, t \in Seq(ShortRegions), TotalAppend
    <3>3. CASE /\ r.event # "epoch" /\ IsProxyEpoch(g.count)
               /\ f[k].out = Append(Append(g.out, r), q)
      <4>1. q \in Recs /\ q.event = "epoch"
        <5> DEFINE m == g.count
        <5>2. m \in Int /\ IsProxyEpoch(m)
          BY ONLY <2>3, <3>3
        <5> HIDE DEF m
        <5>3. Made(m) \in Nat /\ ProxySignal(m) = Made(m) + 1
          BY ONLY <5>2, filter.calls \in Nat \ {0}, MadeStep
        <5>1. ProxySignal(g.count) \in Nat
          BY ONLY <5>3 DEF m
        <5> QED
          BY ONLY <5>1 DEF Record, Recs
      <4> DEFINE a == Append(g.out, r)
      <4>2. Total(a, t, h) = Total(g.out, t, h) + ValueOf(r, t, h)
        BY ONLY <2>3, t \in Seq(ShortRegions), TotalAppend
      <4>3. a \in Seq(Recs)
        BY ONLY <2>3
      <4> HIDE DEF a, q
      <4>4. Total(Append(a, q), t, h) = Total(a, t, h) + ValueOf(q, t, h)
        BY ONLY <4>1, <4>3, t \in Seq(ShortRegions), TotalAppend
      <4>5. ValueOf(q, t, h) = 0
        BY ONLY <4>1, t \in Seq(ShortRegions), ValueInt
      <4> QED
        BY ONLY <2>6, <3>3, <4>2, <4>4, <4>5 DEF a
    <3> HIDE DEF q
    <3> QED
      BY ONLY <2>2, <2>3, <3>1, <3>2, <3>3, filter.calls \in Nat \ {0}, FilterAt DEF q
  <2> QED
    BY ONLY <2>1, <2>4, <2>5, <2>7
<1> HIDE DEF Good
<1>6. n \in Good
  <2>1. \A k \in 0 .. n : k \in Good
    BY ONLY <1>1, <1>4, <1>5, PlaceInduction
  <2>2. n \in 0 .. n
    BY ONLY <1>1
  <2> QED
    BY ONLY <2>1, <2>2
<1>7. Total(f[n].out, t, h) = SumOver(v, 1 .. n)
  BY ONLY <1>6 DEF Good
<1> QED
  BY ONLY <1>2, <1>7 DEF Total, n

\* and without one there is nothing to hold them up.
LEMMA SeenTotal ==
    ASSUME LogInv, NEW p \in Process, NEW h
    PROVE  Total(Seen(p), short_regions[p], h) = Total(records[p], short_regions[p], h)
<1> DEFINE st == [count |-> m_count[p], out |-> << >>]
<1>1. records[p] \in Seq(Recs) /\ short_regions[p] \in Seq(ShortRegions)
  BY LogAt
<1>2. m_count[p] \in Int /\ filter \in Filters
  BY DEF LogInv, ControllerTypes
<1>3. CASE filter = NoFilter
  <2>1. Filtered(p) = [st EXCEPT !.out = records[p]]
    BY ONLY <1>3 DEF Filtered
  <2> QED
    BY ONLY <2>1 DEF Seen
<1>4. CASE filter # NoFilter
  <2>1. Filtered(p) = FoldLeft(FilterRecord, st, records[p])
    BY ONLY <1>4 DEF Filtered
  <2>2. st \in FilterStates /\ st.out = << >>
    <3>1. << >> \in Seq(Recs)
      OBVIOUS
    <3> QED
      BY ONLY <1>2, <3>1 DEF FilterStates
  <2>3. filter.calls \in Nat \ {0}
    BY ONLY <1>2, <1>4, FilterParameters
  <2> HIDE DEF st
  <2>4. Total(FoldLeft(FilterRecord, st, records[p]).out, short_regions[p], h) =
          Total(records[p], short_regions[p], h)
    BY ONLY <1>1, <2>2, <2>3, FilterTotal
  <2> QED
    BY ONLY <2>1, <2>4 DEF Seen
<1> QED
  BY ONLY <1>3, <1>4

\* A set in parts that do not meet, and the sums of the parts.
Parted(S, f, C, part, sums) ==
    /\ IsFiniteSet(S) /\ (\A x \in S : f[x] \in Int) /\ IsFiniteSet(C)
    /\ part \in [C -> SUBSET S] /\ (\A a, b \in C : a # b => part[a] \cap part[b] = {})
    /\ \A a \in C : sums[a] = SumOver(f, part[a])

\* The sum of these sums is that of all.
LEMMA PartedSums ==
    ASSUME NEW S, NEW f, NEW C, NEW part, NEW sums, Parted(S, f, C, part, sums)
    PROVE  SumOver(sums, C) = SumOver(f, UNION {part[a] : a \in C})
  BY ONLY Parted(S, f, C, part, sums), SumOfParts DEF Parted

\* As each short region has one record, the total of the log is that of the
\* exit records and the table.
LEMMA TotalLogged ==
    ASSUME NEW s \in Seq(Recs), NEW t \in Seq(ShortRegions), NEW h, Booked(s, t)
    PROVE  Total(s, t, h) = Logged(s, t, h)
<1> DEFINE n == Len(s)
           S == 1 .. n
           x == Record("exit", h)
           f == Values(s, t, h)
           e == [i \in S |-> IF s[i] = x THEN 1 ELSE 0]
           w == [i \in S |-> IF s[i].event = "short" THEN WorthOf(t[s[i].signal], h) ELSE 0]
           A == {i \in S : s[i].event = "short"}
           E == Matches(s, x) \cap S
           T == DOMAIN t
           g == Worths(t, h)
<1>1. n \in Nat /\ DOMAIN s = S
  OBVIOUS
<1>2. IsFiniteSet(S) /\ IsFiniteSet(A) /\ IsFiniteSet(E)
  <2>1. 1 \in Int /\ n \in Int
    BY ONLY <1>1
  <2>2. IsFiniteSet(S)
    <3> HIDE DEF n
    <3> QED
      BY ONLY <2>1, FS_Interval
  <2>3. A \subseteq S /\ E \subseteq S
    BY ONLY TRUE
  <2> HIDE DEF A, E, S
  <2> QED
    BY ONLY <2>2, <2>3, FS_Subset
<1>3. IsFiniteSet(T) /\ \A q \in T : g[q] \in Int /\ g[q] = WorthOf(t[q], h)
  BY ONLY WorthInt, t \in Seq(ShortRegions)
<1>4. \A i \in S : s[i].event = "short" => s[i].signal \in T
  BY ONLY <1>1, Booked(s, t) DEF Booked
<1>5. x.event = "exit"
  BY RecordFields
<1>6. \A i \in S : /\ f[i] = e[i] + w[i]
                   /\ e[i] \in Int /\ w[i] \in Int
  <2> SUFFICES ASSUME NEW i \in S PROVE f[i] = e[i] + w[i] /\ e[i] \in Int /\ w[i] \in Int
    OBVIOUS
  <2>1. f[i] = IF s[i] = x THEN 1
               ELSE IF s[i].event = "short" /\ s[i].signal \in T THEN WorthOf(t[s[i].signal], h)
               ELSE 0
    BY ONLY <1>1, i \in S DEF Values, ValueOf
  <2>2. e[i] = IF s[i] = x THEN 1 ELSE 0
    BY ONLY i \in S
  <2>3. w[i] = IF s[i].event = "short" THEN WorthOf(t[s[i].signal], h) ELSE 0
    BY ONLY i \in S
  <2>4. s[i].event = "short" => WorthOf(t[s[i].signal], h) \in Int /\ s[i].signal \in T /\ s[i] # x
    BY ONLY <1>3, <1>4, <1>5, i \in S
  <2> HIDE DEF f, e, w, x, S, T
  <2> QED
    BY ONLY <2>1, <2>2, <2>3, <2>4
<1> HIDE DEF f, e, w
<1>7. SumOver(f, S) = SumOver(e, S) + SumOver(w, S)
  <2> HIDE DEF S
  <2> QED
    BY ONLY <1>2, <1>6, SumAdd
<1>8. SumOver(e, S) = Cardinality(E)
  <2>1. \A i \in S \ E : e[i] = 0
    BY ONLY <1>1 DEF e, Matches
  <2>2. \A i \in E : e[i] = 1
    BY ONLY <1>1 DEF e, Matches
  <2>3. E \in SUBSET S
    BY ONLY TRUE
  <2> HIDE DEF E, S
  <2>4. SumOver(e, S) = SumOver(e, E)
    BY ONLY <1>2, <1>6, <2>1, <2>3, SumZeros
  <2>5. SumOver(e, E) = Cardinality(E) * 1
    <3> DEFINE c == 1
    <3>1. c \in Int /\ \A i \in E : e[i] = c
      BY ONLY <2>2
    <3> HIDE DEF c
    <3>2. SumOver(e, E) = Cardinality(E) * c
      BY ONLY <1>2, <3>1, SumConstant
    <3> QED
      BY ONLY <3>2 DEF c
  <2>6. Cardinality(E) \in Nat
    BY ONLY <1>2, FS_CardinalityType
  <2> QED
    BY ONLY <2>4, <2>5, <2>6
<1>9. SumOver(w, S) = SumOver(w, A)
  <2>1. \A i \in S \ A : w[i] = 0
    BY ONLY <1>1 DEF w
  <2>2. A \in SUBSET S
    BY ONLY TRUE
  <2> HIDE DEF A, S
  <2> QED
    BY ONLY <1>2, <1>6, <2>1, <2>2, SumZeros
<1>10. SumOver(w, A) = SumOver(g, T)
  <2> DEFINE part == [a \in A |-> {s[a].signal}]
  <2>1. part \in [A -> SUBSET T]
    BY ONLY <1>4
  <2>2. \A a, b \in A : a # b => part[a] \cap part[b] = {}
    <3>1. \A a, b \in A : a # b => s[a].signal # s[b].signal
      BY ONLY <1>1, Booked(s, t) DEF Booked
    <3> HIDE DEF A
    <3> QED
      BY ONLY <3>1
  <2>3. \A a \in A : w[a] = SumOver(g, part[a])
    <3> SUFFICES ASSUME NEW a \in A PROVE w[a] = SumOver(g, part[a])
      OBVIOUS
    <3> DEFINE q == s[a].signal
               Q == {q}
    <3>1. q \in T /\ w[a] = WorthOf(t[q], h)
      BY ONLY <1>4, a \in A DEF w
    <3>2. g[q] \in Int /\ g[q] = w[a]
      BY ONLY <1>3, <3>1
    <3>3. part[a] = Q
      BY ONLY a \in A
    <3> HIDE DEF q, g, part
    <3>4. IsFiniteSet(Q) /\ q \in Q /\ Q \ {q} = {} /\ \A y \in Q : g[y] \in Int
      BY ONLY <3>2, FS_Singleton
    <3> HIDE DEF Q
    <3>5. SumOver(g, Q) = g[q] + SumOver(g, Q \ {q})
      BY ONLY <3>4, SumSplit
    <3>6. SumOver(g, Q) = g[q] + 0
      BY ONLY <3>4, <3>5, SumEmpty
    <3> QED
      BY ONLY <3>2, <3>3, <3>6
  <2>4. UNION {part[a] : a \in A} = T
    <3>1. \A q \in T : \E a \in A : s[a].signal = q
      BY ONLY <1>1, Booked(s, t) DEF Booked
    <3>2. \A a \in A : part[a] = {s[a].signal} /\ s[a].signal \in T
      BY ONLY <1>4
    <3> HIDE DEF part, A, T
    <3> QED
      BY ONLY <3>1, <3>2
  <2>5. \A q \in T : g[q] \in Int
    BY ONLY <1>3
  <2> HIDE DEF part, A, T, g
  <2>6. Parted(T, g, A, part, w)
    BY ONLY <1>2, <1>3, <2>1, <2>2, <2>3, <2>5 DEF Parted
  <2>7. SumOver(w, A) = SumOver(g, UNION {part[a] : a \in A})
    BY ONLY <2>6, PartedSums
  <2> QED
    BY ONLY <2>4, <2>7
<1>11. SumOver(f, S) = Cardinality(E) + SumOver(g, T)
  BY ONLY <1>7, <1>8, <1>9, <1>10
<1> QED
  BY ONLY <1>11 DEF Total, Logged, Exits, Hits, Worth, f, g

-----------------------------------------------------------------------------
(* The sum over a table, as a fold.                                         *)

\* The completions of h in the first of the short regions.
Tallying(h, s, c) ==
    /\ c \in [0 .. Len(s) -> Nat] /\ c[0] = 0
    /\ \A k \in 1 .. Len(s) : c[k] = c[k - 1] + WorthOf(s[k], h)

\* The fold gives those in all.
Tally(s, h) == FoldLeft(LAMBDA m, y : m + IF y.hash = h THEN y.num_complete ELSE 0, 0, s)

\* It goes through the table place by place.
LEMMA TallyRun ==
    ASSUME NEW h, NEW s \in Seq(ShortRegions)
    PROVE  \E c : Tallying(h, s, c) /\ Tally(s, h) = c[Len(s)]
<1> DEFINE n == Len(s)
           step == [i \in 1 .. n |-> [x \in Nat |-> (x + IF s[i].hash = h THEN s[i].num_complete ELSE 0)]]
           Solves(e) == e = [T \in SUBSET (DOMAIN s) |->
                               IF T = {} THEN 0 ELSE (e[T \ {Max(T)}] + IF s[Max(T)].hash = h THEN s[Max(T)].num_complete ELSE 0)]
           G == CHOOSE e : Solves(e)
<1>1. n \in Nat /\ DOMAIN s = 1 .. n
  OBVIOUS
<1>2. Tally(s, h) = G[DOMAIN s]
  BY DEF Tally, FoldLeft, MapThenFoldSet
<1>3. \A i \in 1 .. n : \A x \in Nat : (x + IF s[i].hash = h THEN s[i].num_complete ELSE 0) \in Nat
  <2>1. \A i \in 1 .. n : s[i] \in ShortRegions
    BY ONLY <1>1, s \in Seq(ShortRegions)
  <2>2. \A i \in 1 .. n : s[i].num_complete \in Nat
    BY ONLY <2>1 DEF ShortRegions
  <2> QED
    BY ONLY <2>2
<1>4. step \in [1 .. n -> [Nat -> Nat]]
  BY ONLY <1>3
<1>5. 0 \in Nat
  OBVIOUS
<1>6. \A i \in 1 .. n : \A x \in Nat : step[i][x] = (x + IF s[i].hash = h THEN s[i].num_complete ELSE 0)
  BY ONLY TRUE
<1>7. \A T \in SUBSET (1 .. n) : T # {} => Max(T) \in 1 .. n /\ T \ {Max(T)} \in SUBSET (1 .. n)
  <2>1. \A T \in SUBSET (1 .. n) : T # {} => Max(T) \in T
    BY ONLY <1>1, MaxIn
  <2> QED
    BY ONLY <2>1
<1> HIDE DEF n, step
<1>8. PICK g \in [SUBSET (1 .. n) -> Nat] :
         \A T \in SUBSET (1 .. n) : FoldsAt(n, 0, step, g, T)
  BY ONLY <1>1, <1>4, <1>5, FoldsExist
<1>9. Solves(g)
  <2>1. ASSUME NEW T \in SUBSET (1 .. n)
        PROVE  g[T] = IF T = {} THEN 0 ELSE (g[T \ {Max(T)}] + IF s[Max(T)].hash = h THEN s[Max(T)].num_complete ELSE 0)
    BY ONLY T \in SUBSET (1 .. n), g \in [SUBSET (1 .. n) -> Nat], <1>6, <1>7, <1>8 DEF FoldsAt
  <2> QED
    BY ONLY <1>1, <1>8, <2>1
<1>10. Solves(G)
  <2> HIDE DEF Solves
  <2> QED
    BY ONLY <1>9
<1> HIDE DEF G
<1>11. G[{}] = 0
  BY ONLY <1>10
<1>12. FoldsFrom(n, Nat, 0, step, G)
  <2>1. ASSUME NEW T \in SUBSET (1 .. n), T # {}, G[T \ {Max(T)}] \in Nat
        PROVE  G[T] = step[Max(T)][G[T \ {Max(T)}]]
    <3>1. G[T] = (G[T \ {Max(T)}] + IF s[Max(T)].hash = h THEN s[Max(T)].num_complete ELSE 0)
      BY ONLY T \in SUBSET (1 .. n), <1>1, <1>10, <2>1
    <3> QED
      BY ONLY T \in SUBSET (1 .. n), <1>6, <1>7, <2>1, <3>1
  <2> QED
    BY ONLY <1>11, <2>1 DEF FoldsFrom
<1> HIDE DEF Solves
<1>13. PICK c : StepChain(n, Nat, 0, step, c) /\ c[n] = G[1 .. n]
  <2> DEFINE N == Nat
             first == 0
             st == step
  <2>1. n \in Nat /\ first \in N /\ st \in [1 .. n -> [N -> N]] /\ FoldsFrom(n, N, first, st, G)
    BY ONLY <1>1, <1>4, <1>5, <1>12
  <2>2. \E c : StepChain(n, N, first, st, c) /\ c[n] = G[1 .. n]
    <3> HIDE DEF N, first, st
    <3> QED
      BY ONLY <2>1, FoldChain, SMTT(40)
  <2> QED
    BY ONLY <2>2
<1>14. \A k \in 1 .. n : k - 1 \in 0 .. n
  BY ONLY <1>1
<1>15. Tallying(h, s, c)
  BY ONLY <1>6, <1>13, <1>14 DEF StepChain, Tallying, WorthOf, n
<1> QED
  BY ONLY <1>1, <1>2, <1>13, <1>15 DEF n

\* It is the sum.
LEMMA TallyIsWorth ==
    ASSUME NEW t \in Seq(ShortRegions), NEW h
    PROVE  Tally(t, h) = Worth(t, h)
<1> DEFINE n == Len(t)
           f == Worths(t, h)
<1>1. PICK c : Tallying(h, t, c) /\ Tally(t, h) = c[n]
  BY TallyRun
<1>2. n \in Nat /\ DOMAIN t = 1 .. n /\ \A q \in DOMAIN t : f[q] = WorthOf(t[q], h) /\ f[q] \in Int
  BY ONLY t \in Seq(ShortRegions), WorthInt
<1>3. c[0] = 0 /\ \A k \in 1 .. n : c[k] = c[k - 1] + WorthOf(t[k], h)
  BY ONLY <1>1 DEF Tallying
<1> HIDE DEF n, f
<1> DEFINE Good == {k \in 0 .. n : c[k] = SumOver(f, 1 .. k)}
<1>4. 0 \in Good
  <2>1. 1 .. 0 = {} /\ 0 \in 0 .. n
    BY ONLY <1>2
  <2>2. SumOver(f, {}) = 0
    BY ONLY SumEmpty
  <2> QED
    BY ONLY <1>3, <2>1, <2>2
<1>5. ASSUME NEW k \in 1 .. n, k - 1 \in Good PROVE k \in Good
  <2> DEFINE m == k - 1
  <2>1. m \in Nat /\ m + 1 = k /\ k \in 0 .. n /\ \A i \in 1 .. m + 1 : i \in DOMAIN t
    BY ONLY <1>2, k \in 1 .. n
  <2> HIDE DEF m
  <2>2. \A i \in 1 .. m + 1 : f[i] \in Int
    BY ONLY <1>2, <2>1
  <2>3. \A i \in 1 .. m : f[i] = f[i]
    OBVIOUS
  <2>4. SumOver(f, 1 .. m + 1) = SumOver(f, 1 .. m) + f[m + 1]
    BY ONLY <2>1, <2>2, <2>3, SumAppend
  <2>5. f[k] = WorthOf(t[k], h)
    BY ONLY <1>2, k \in 1 .. n
  <2>6. c[m] = SumOver(f, 1 .. m)
    BY ONLY <1>5 DEF m
  <2>7. c[k] = c[m] + WorthOf(t[k], h)
    BY ONLY <1>3, k \in 1 .. n DEF m
  <2>8. c[k] = SumOver(f, 1 .. k)
    BY ONLY <2>1, <2>4, <2>5, <2>6, <2>7
  <2> QED
    BY ONLY <2>1, <2>8
<1> HIDE DEF Good
<1>6. n \in Good
  <2>1. \A k \in 0 .. n : k \in Good
    BY ONLY <1>2, <1>4, <1>5, PlaceInduction
  <2>2. n \in 0 .. n
    BY ONLY <1>2
  <2> QED
    BY ONLY <2>1, <2>2
<1>7. c[n] = SumOver(f, DOMAIN t)
  BY ONLY <1>2, <1>6 DEF Good
<1> QED
  BY ONLY <1>1, <1>7 DEF Worth, f

-----------------------------------------------------------------------------
(* The theorem about them.                                                  *)

\* A control loop counts what is in the log, and empties it.
LEMMA SampleCompletes ==
    ASSUME LogInv, CountInv, Sample
    PROVE  CountInv'
<1>1. LoopEnds
  BY SampleAt
<1> SUFFICES ASSUME NEW p \in Process, NEW h \in Region PROVE CountOf(p, h)'
  BY DEF CountInv
<1> DEFINE s == records[p]
           t == short_regions[p]
<1>2. total_count[p][h] + Logged(s, t, h) = done[p][h]
  BY DEF CountInv, CountOf
<1>3. /\ total_count'[p][h] = total_count[p][h] + Completed(Buffered(p), h)
      /\ records'[p] = << >> /\ short_regions'[p] = << >> /\ done' = done
  BY ONLY p \in Process, h \in Region, <1>1 DEF LoopEnds, NoRecords
<1>4. Completed(Buffered(p), h) = Logged(s, t, h)
  <2>1. s \in Seq(Recs) /\ t \in Seq(ShortRegions) /\ Booked(s, t)
    BY LogAt DEF LogFits
  <2>2. Total(s, t, h) = Logged(s, t, h)
    <3> HIDE DEF s, t
    <3> QED
      BY ONLY <2>1, TotalLogged
  <2>3. Completed(Buffered(p), h) = Total(Seen(p), t, h)
    BY ONLY LogInv, p \in Process, CompletedIsTotal
  <2>4. Total(Seen(p), t, h) = Total(s, t, h)
    BY ONLY LogInv, p \in Process, SeenTotal
  <2> QED
    BY ONLY <2>2, <2>3, <2>4
<1>5. Logged(<< >>, << >>, h) = 0
  <2>1. Len(<< >>) = 0 /\ DOMAIN (<< >>) = {}
    OBVIOUS
  <2>2. Exits(<< >>, h) = 0
    BY ONLY <2>1, HitsAt, 0 \in Nat DEF Exits
  <2>3. Worth(<< >>, h) = 0
    BY ONLY <2>1, SumEmpty DEF Worth
  <2> QED
    BY ONLY <2>2, <2>3 DEF Logged
<1>6. Logged(records[p], short_regions[p], h)' = Logged(<< >>, << >>, h)
  BY ONLY <1>3 DEF Logged, Exits, Hits, Matches, Worth, Worths
<1>7. total_count'[p][h] = done[p][h]
  BY ONLY <1>2, <1>3, <1>4
<1>8. done[p][h] \in Int
  BY DEF LogInv, LogTypes, RegionCounts
<1>9. total_count'[p][h] + Logged(<< >>, << >>, h) = done'[p][h]
  BY ONLY <1>3, <1>5, <1>7, <1>8
<1> QED
  BY ONLY <1>6, <1>9 DEF CountOf

\* Every step keeps the counts.
LEMMA NextCompletes == LogInv /\ CountInv /\ [Next]_vars => CountInv'
<1> SUFFICES ASSUME LogInv, CountInv, [Next]_vars PROVE CountInv'
  OBVIOUS
<1>1. CASE Sample
  BY ONLY LogInv, CountInv, <1>1, SampleCompletes
<1>2. ASSUME NEW p \in Process, Epoch(p) PROVE CountInv'
  <2> DEFINE r == Record("epoch", epoch_count'[p])
             a == Append(records[p], r)
  <2>1. /\ total_count' = total_count /\ done' = done /\ short_regions' = short_regions
        /\ records' = [records EXCEPT ![p] = a]
        /\ epoch_count' = [epoch_count EXCEPT ![p] = @ + 1]
    BY <1>2 DEF Epoch, Call
  <2>2. epoch_count'[p] \in Nat
    BY <2>1 DEF LogInv, LogTypes
  <2>3. r \in Recs /\ r.event # "exit"
    BY ONLY <2>2 DEF Record, Recs
  <2>4. \E x \in Recs : x.event # "exit" /\ a = Append(records[p], x)
    BY ONLY <2>3
  <2> HIDE DEF a
  <2> QED
    BY ONLY LogInv, CountInv, p \in Process, <2>1, <2>4, NoneCompleted
<1>3. ASSUME NEW p \in Process, NEW h \in Region, Enter(p, h) PROVE CountInv'
  <2> DEFINE r == Record("entry", h)
             a == IF EnteredHere(p, h) THEN records[p] ELSE Append(records[p], r)
  <2>1. /\ total_count' = total_count /\ done' = done /\ short_regions' = short_regions
        /\ records' = IF EnteredHere(p, h) THEN records
                      ELSE [records EXCEPT ![p] = Append(records[p], r)]
    BY <1>3 DEF Enter, Call
  <2>2. records = [records EXCEPT ![p] = records[p]]
    BY Unchanged
  <2>3. records' = [records EXCEPT ![p] = a]
    BY ONLY <2>1, <2>2
  <2>4. r \in Recs /\ r.event # "exit"
    BY ONLY h \in Region DEF Record, Recs
  <2>5. \/ a = records[p]
        \/ \E x \in Recs : x.event # "exit" /\ a = Append(records[p], x)
    BY ONLY <2>4
  <2> HIDE DEF a
  <2> QED
    BY ONLY LogInv, CountInv, p \in Process, <2>1, <2>3, <2>5, NoneCompleted
<1>4. ASSUME NEW p \in Process, NEW h \in Region, ExitLong(p, h) PROVE CountInv'
  BY ONLY LogInv, CountInv, <1>4, ExitLongCompletes
<1>5. ASSUME NEW p \in Process, NEW h \in Region, ExitCarried(p, h) PROVE CountInv'
  BY ONLY LogInv, CountInv, <1>5, ExitCarriedCompletes
<1>6. ASSUME NEW p \in Process, NEW h \in Region, ExitFirst(p, h) PROVE CountInv'
  BY ONLY LogInv, CountInv, <1>6, ExitFirstCompletes
<1>7. ASSUME NEW p \in Process, NEW h \in Region, ExitAgain(p, h) PROVE CountInv'
  BY ONLY LogInv, CountInv, <1>7, ExitAgainCompletes
<1>8. CASE UNCHANGED vars
  BY ONLY CountInv, <1>8
     DEF vars, log, CountInv, CountOf, Logged, Exits, Hits, Matches, Worth, Worths
<1> QED
  BY ONLY [Next]_vars, <1>1, <1>2, <1>3, <1>4, <1>5, <1>6, <1>7, <1>8 DEF Next, Application

\* Nothing is done to begin with.
LEMMA InitCompletes == Init => CountInv
<1> SUFFICES ASSUME Init, NEW p \in Process, NEW h \in Region PROVE CountOf(p, h)
  BY DEF CountInv
<1>1. /\ records[p] = << >> /\ short_regions[p] = << >>
      /\ total_count[p][h] = 0 /\ done[p][h] = 0
  BY DEF Init, NoRecords, ZeroCounts
<1>2. Logged(<< >>, << >>, h) = 0
  <2>1. Len(<< >>) = 0 /\ DOMAIN (<< >>) = {}
    OBVIOUS
  <2>2. Exits(<< >>, h) = 0
    BY ONLY <2>1, HitsAt, 0 \in Nat DEF Exits
  <2>3. Worth(<< >>, h) = 0
    BY ONLY <2>1, SumEmpty DEF Worth
  <2> QED
    BY ONLY <2>2, <2>3 DEF Logged
<1> QED
  BY ONLY <1>1, <1>2 DEF CountOf

\* The sums are the ones of the property.
LEMMA ConservedCounts ==
    ASSUME LogInv, CountInv
    PROVE  CountsConserved
<1> SUFFICES ASSUME NEW p \in Process, NEW h \in Region
             PROVE  total_count[p][h]
                    + (Cardinality({i \in DOMAIN records[p] : records[p][i] = Record("exit", h)})
                       + Tally(short_regions[p], h)) = done[p][h]
  BY DEF CountsConserved, Tally
<1> DEFINE s == records[p]
           t == short_regions[p]
<1>1. s \in Seq(Recs) /\ t \in Seq(ShortRegions)
  BY LogAt
<1>2. total_count[p][h] + Logged(s, t, h) = done[p][h]
  BY DEF CountInv, CountOf
<1>3. Cardinality({i \in DOMAIN s : s[i] = Record("exit", h)}) = Exits(s, h)
  <2>1. {i \in DOMAIN s : s[i] = Record("exit", h)} = Matches(s, Record("exit", h)) \cap (1 .. Len(s))
    BY ONLY <1>1 DEF Matches
  <2> QED
    BY ONLY <2>1 DEF Exits, Hits
<1>4. Tally(t, h) = Worth(t, h)
  BY ONLY <1>1, TallyIsWorth
<1> QED
  BY ONLY <1>2, <1>3, <1>4 DEF Logged

\* What ProcessRegionAggregator has counted of a region of a process, and what
\* its log still has of it in exit records and short regions, is what the
\* process did: the common table of short regions, into which update() moves
\* the indices of every process, books no completion twice or to another.
THEOREM ConservesCounts == Spec => []CountsConserved
<1>1. Spec => []CountInv
  BY InitCompletes, NextCompletes, LogsFit, PTL DEF Spec
<1>2. LogInv /\ CountInv => CountsConserved
  BY ConservedCounts
<1> QED
  BY <1>1, <1>2, LogsFit, PTL
================================================================================
