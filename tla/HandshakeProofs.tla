---------------------------- MODULE HandshakeProofs ----------------------------
(***************************************************************************)
(* Proofs about Handshake: the types; that the map of CPUs is complete     *)
(* when the controller reads it; that nobody writes names while it reads   *)
(* them and that it has them all in the end; that no state is missed while *)
(* both sides make the same trips, and that they do where the names of all *)
(* ranks take as many tables.  For any number of ranks, any affinities,    *)
(* any waits that time out, and a controller that may fail.                *)
(***************************************************************************)
EXTENDS Handshake, TLAPS

-----------------------------------------------------------------------------
(* The scripts.                                                            *)

\* Where a rank waits for the others.
IsBarrier(i) == AppScript[i] \in {"barrier", "test"}

\* The calls of a rank that the proofs are about, by their places.
LEMMA AppCalls ==
    /\ Len(AppScript) = 41
    /\ \A i \in 1 .. 41 :
         /\ AppScript[i] = "construct" <=> i = 4
         /\ AppScript[i] = "map" <=> i = 8
         /\ AppScript[i] = "check" <=> i = 10
         /\ AppScript[i] = "loop_set" <=> i = 30
         /\ AppScript[i] = "again" <=> i = 36
         /\ i <= 16 => (AppScript[i] = "step" <=> i \in {6, 12, 16})
         /\ IsBarrier(i) <=> i \in {1, 3, 5, 9, 11, 15, 18, 20, 23, 26, 29, 33, 37, 40}
<1>1. Len(AppScript) = 41
  BY DEF AppScript
<1> QED
  BY <1>1 DEF AppScript, IsBarrier

\* Those of the controller.
LEMMA CtlCalls ==
    /\ Len(CtlScript) = 21
    /\ \A i \in 1 .. 21 :
         /\ CtlScript[i] = "read_map" <=> i = 5
         /\ CtlScript[i] = "loop_begin" <=> i = 14
         /\ CtlScript[i] = "collect" <=> i = 16
         /\ CtlScript[i] = "again" <=> i = 18
         /\ i <= 7 => (CtlScript[i] = "wait" <=> i \in {2, 4})
  BY DEF CtlScript

\* Where the scripts come back to.
LEMMA Places ==
    /\ Place(AppScript, "map") = 8
    /\ RoundStart = 29
    /\ Place(CtlScript, "read_map") = 5
    /\ Place(CtlScript, "loop_begin") = 14
<1>1. DOMAIN AppScript = 1 .. 41 /\ DOMAIN CtlScript = 1 .. 21
  BY DEF AppScript, CtlScript
<1>2. Place(AppScript, "map") = 8 /\ Place(AppScript, "loop_set") = 30
  BY <1>1, AppCalls DEF Place
<1>3. Place(CtlScript, "read_map") = 5 /\ Place(CtlScript, "loop_begin") = 14
  BY <1>1, CtlCalls DEF Place
<1> QED
  BY <1>2, <1>3 DEF RoundStart

-----------------------------------------------------------------------------
(* Types.                                                                  *)

PlacesOK ==
    /\ pc \in [Actor -> Nat] /\ \A a \in Actor : pc[a] \in DOMAIN Script(a)
    /\ fate \in [Actor -> {"running", "off", "done", "failed"}]

\* The controller ends when it gives up; it reads tables once it has their list.
TypeInv ==
    /\ TypeOK
    /\ ctl_status = Abort => fate[Ctl] # "running"
    /\ pc[Ctl] <= 5 => finished = {}

\* How an actor goes from a call to the next.
Advances(a) == pc' = [pc EXCEPT ![a] = pc[a] + 1] /\ pc[a] + 1 \in DOMAIN Script(a)
Loops(a) ==
    /\ At(a, "again")
    /\ pc' = [pc EXCEPT ![a] = IF a = Ctl THEN 14 ELSE 29]

\* An actor and the ranks are what the scripts take them to be.
LEMMA Actors ==
    /\ Rank \subseteq Actor /\ Ctl \in Actor /\ Ctl \notin Rank /\ 0 \in Rank
    /\ \A r \in Rank : r \in Nat /\ Script(r) = AppScript /\ DOMAIN Script(r) = 1 .. 41
    /\ Script(Ctl) = CtlScript /\ DOMAIN Script(Ctl) = 1 .. 21
<1>1. DOMAIN AppScript = 1 .. 41 /\ DOMAIN CtlScript = 1 .. 21
  BY DEF AppScript, CtlScript
<1> QED
  BY <1>1, RankAssumption DEF Actor, Rank, Ctl, Script

\* A call that returns goes to the next place, or stays at the last.
LEMMA Returning ==
    ASSUME PlacesOK, NEW a \in Actor, Returns(a)
    PROVE  PlacesOK' /\ (pc' = pc \/ Advances(a))
<1>1. DOMAIN Script(a) = 1 .. Len(Script(a)) /\ Len(Script(a)) \in Nat
  <2>1. CASE a = Ctl
    BY <2>1, Actors, CtlCalls
  <2>2. CASE a \in Rank
    <3>1. Script(a) = AppScript /\ DOMAIN Script(a) = 1 .. 41
      BY <2>2, Actors
    <3>2. Len(AppScript) = 41
      BY AppCalls
    <3> QED
      BY <3>1, <3>2
  <2> QED
    BY <2>1, <2>2 DEF Actor
<1>2. pc[a] \in Nat /\ pc[a] \in 1 .. Len(Script(a)) /\ Len(Script(a)) \in Nat
  BY <1>1 DEF PlacesOK
<1>3. CASE pc[a] < Len(Script(a))
  <2>1. Advances(a) /\ fate' = fate
    BY <1>1, <1>2, <1>3 DEF Returns, Advances
  <2> QED
    BY <2>1, <1>2 DEF Advances, PlacesOK
<1>4. CASE ~(pc[a] < Len(Script(a)))
  BY <1>4 DEF Returns, PlacesOK
<1> QED
  BY <1>3, <1>4

\* One that throws or ends stays.
LEMMA Stopping ==
    ASSUME PlacesOK, NEW a \in Actor, Throws(a) \/ Ends(a)
    PROVE  PlacesOK' /\ pc' = pc /\ fate'[a] # "running"
BY DEF Throws, Ends, PlacesOK

\* The loops come back to a place of the script.
LEMMA GoingBack ==
    ASSUME PlacesOK, NEW a \in Actor, At(a, "again"),
           GoesTo(a, IF a = Ctl THEN Place(CtlScript, "loop_begin") ELSE RoundStart)
    PROVE  PlacesOK' /\ Loops(a)
<1> DEFINE i == IF a = Ctl THEN 14 ELSE 29
<1>1. pc' = [pc EXCEPT ![a] = i] /\ fate' = fate
  BY Places DEF GoesTo
<1>2. i \in Nat /\ i \in DOMAIN Script(a)
  <2>1. CASE a = Ctl
    BY <2>1, Actors
  <2>2. CASE a \in Rank
    BY <2>2, Actors
  <2> QED
    BY <2>1, <2>2 DEF Actor
<1>3. PlacesOK'
  <2> HIDE DEF i
  <2> QED
    BY <1>1, <1>2 DEF PlacesOK
<1> QED
  BY <1>1, <1>3 DEF Loops

\* The next state that wait() looks for, and that step() enters, is a state.
LEMMA NextStatus ==
    \A s \in 0 .. Shutdown : After(s) \in 0 .. Shutdown
BY DEF After, Shutdown

\* The values of the types.
LEMMA StatusRange ==
    /\ Status = 0 .. 9 \cup {9999} /\ Shutdown = 9 /\ Abort = 9999
    /\ LoopBegin \in 0 .. Shutdown
BY DEF Status, Shutdown, Abort, LoopBegin

\* The types of what is not a place, in the parts that an action writes.
WordsOK ==
    /\ ctl_status \in Status /\ app_status \in 0 .. Shutdown
    /\ cpu_rank \in [Cpu -> Rank \cup {-1, -2}]
    /\ last_status \in [Actor -> 0 .. Shutdown]
    /\ passed \in [Rank -> Nat]
NamesOK ==
    /\ shmem \subseteq {"message", "status"} /\ tables \subseteq Rank
    /\ cpu_set \in CpuSets /\ chunks \in ChunkCounts /\ impatient \in ImpatientSets
    /\ buffer \in [Rank -> Nat] /\ position \in [Rank -> Nat]
    /\ \A r \in Rank : buffer[r] \in 0 .. chunks[r] /\ position[r] \in 1 .. chunks[r]
    /\ is_done \in [Rank -> BOOLEAN] /\ all_done \in [Rank -> BOOLEAN]
    /\ finished \subseteq tables /\ names \subseteq Rank \X Nat

\* The parts are the whole.
LEMMA TypeParts == TypeOK <=> PlacesOK /\ WordsOK /\ NamesOK
BY DEF TypeOK, PlacesOK, WordsOK, NamesOK

\* The types hold at first.
LEMMA TypesStart == Init => TypeInv
<1> SUFFICES ASSUME Init PROVE TypeInv
  OBVIOUS
<1>1. PlacesOK
  <2>1. \A a \in Actor : 1 \in DOMAIN Script(a)
    BY Actors DEF Actor
  <2> QED
    BY <2>1 DEF Init, PlacesOK
<1>2. WordsOK
  BY Actors, StatusRange DEF Init, WordsOK
<1>3. NamesOK
  <2>1. \A r \in Rank : chunks[r] \in Nat /\ chunks[r] >= 1
    BY ChunkAssumption DEF Init
  <2> QED
    BY <2>1 DEF Init, NamesOK
<1>4. ctl_status # Abort /\ finished = {}
  BY StatusRange DEF Init
<1> QED
  BY <1>1, <1>2, <1>3, <1>4, TypeParts DEF TypeInv

\* Every action calls, and the call returns, stops or goes back.
LEMMA CallsOfNext ==
    ASSUME Next
    PROVE  \E a \in Actor :
             /\ fate[a] = "running"
             /\ \/ Returns(a) \/ Throws(a) \/ Ends(a)
                \/ /\ At(a, "again")
                   /\ GoesTo(a, IF a = Ctl THEN Place(CtlScript, "loop_begin") ELSE RoundStart)
<1>1. CASE \E r \in Rank : RankCall(r)
  <2> PICK r \in Rank : RankCall(r)
    BY <1>1
  <2>1. r \in Actor /\ r # Ctl
    BY Actors
  <2> QED
    BY <2>1 DEF RankCall, Either, At, Step, Wait, WaitAborted, TimesOut, Construct, LoopSet,
                LoopSpin, Barrier, Attaches, NoTable, Map, Check, Enable, Fill, Test, Again
<1>2. CASE CtlCall \/ Fails
  <2>1. Ctl \in Actor
    BY Actors
  <2> QED
    BY <1>2, <2>1 DEF CtlCall, Fails, Either, At, Step, Wait, WaitAborted, TimesOut, CtlLoopBegin,
                      Create, ReadMap, Connect, Update, Names, Collect, CtlAgain
<1> QED
  BY <1>1, <1>2 DEF Next

\* Places stay places; one that has stopped does not go on.
LEMMA PlacesKept ==
    ASSUME PlacesOK, Next
    PROVE  /\ PlacesOK'
           /\ pc' = pc \/ \E a \in Actor : Advances(a) \/ Loops(a)
           /\ \A a \in Actor : fate'[a] = "running" => fate[a] = "running"
<1> PICK a \in Actor : 
             /\ fate[a] = "running"
             /\ \/ Returns(a) \/ Throws(a) \/ Ends(a)
                \/ /\ At(a, "again")
                   /\ GoesTo(a, IF a = Ctl THEN Place(CtlScript, "loop_begin") ELSE RoundStart)
  BY CallsOfNext
<1>1. PlacesOK' /\ (pc' = pc \/ Advances(a) \/ Loops(a))
  BY Returning, Stopping, GoingBack
<1>2. \A b \in Actor \ {a} : fate'[b] = fate[b]
  BY DEF PlacesOK, Returns, Throws, Ends, GoesTo
<1> QED
  BY <1>1, <1>2

\* An action keeps the types of the words ...
LEMMA WordsKept ==
    ASSUME TypeInv, Next
    PROVE  /\ WordsOK'
           /\ ctl_status' = Abort => ctl_status = Abort \/ fate'[Ctl] # "running"
<1> USE TypeParts DEF TypeInv
<1>1. WordsOK /\ PlacesOK /\ (ctl_status = Abort => fate[Ctl] # "running")
  OBVIOUS
<1>2. ASSUME NEW s \in Status, s # Abort PROVE After(s) \in 0 .. Shutdown
  BY <1>2, NextStatus, StatusRange
<1>3. \A s \in 0 .. Shutdown : s \in Status /\ s # Abort
  BY StatusRange
<1>4. ASSUME NEW a \in Actor, Either(a)
      PROVE  WordsOK' /\ (ctl_status' = Abort => ctl_status = Abort)
  <2>1. CASE Step(a)
    <3>1. a = Ctl => ctl_status # Abort
      BY <1>1, <2>1 DEF Step, At
    <3>2. ctl_status' \in Status /\ (ctl_status' = Abort => ctl_status = Abort)
      BY <1>1, <1>2, <1>3, <2>1, <3>1 DEF Step, WordsOK
    <3>3. app_status' \in 0 .. Shutdown
      BY <1>1, <2>1, NextStatus DEF Step, WordsOK
    <3> QED
      BY <1>1, <2>1, <3>2, <3>3 DEF Step, WordsOK
  <2>2. CASE Wait(a)
    <3>1. After(last_status[a]) \in 0 .. Shutdown
      BY <1>1, NextStatus DEF WordsOK
    <3> QED
      BY <1>1, <2>2, <3>1 DEF Wait, WordsOK, statusVars
  <2>3. CASE WaitAborted(a) \/ TimesOut(a)
    BY <1>1, <2>3 DEF WaitAborted, TimesOut, WordsOK, statusVars
  <2> QED
    BY <1>4, <2>1, <2>2, <2>3 DEF Either
<1>5. ASSUME NEW r \in Rank, RankCall(r)
      PROVE  WordsOK' /\ (ctl_status' = Abort => ctl_status = Abort)
  <2>0. r \in Actor
    BY Actors
  <2>1. CASE Either(r)
    BY <2>0, <2>1, <1>4
  <2>2. CASE Construct(r)
    <3>1. 0 \in Status /\ 0 \in 0 .. Shutdown /\ 0 # Abort
      BY StatusRange
    <3> QED
      BY <1>1, <2>2, <3>1, Actors DEF Construct, WordsOK
  <2>3. CASE LoopSet(r) \/ LoopSpin(r)
    BY <1>1, <2>3, StatusRange DEF LoopSet, LoopSpin, WordsOK, statusVars
  <2>4. CASE Barrier(r) \/ Test(r)
    BY <1>1, <2>4 DEF Barrier, Test, WordsOK, statusVars
  <2>5. CASE Map(r)
    BY <1>1, <2>5 DEF Map, WordsOK
  <2>6. CASE Attaches(r) \/ NoTable(r) \/ Check(r) \/ Enable(r) \/ Fill(r) \/ Again(r)
    BY <1>1, <2>6 DEF Attaches, NoTable, Check, Enable, Fill, Again, WordsOK, statusVars
  <2> QED
    BY <1>5, <2>1, <2>2, <2>3, <2>4, <2>5, <2>6 DEF RankCall
<1>6. CASE CtlLoopBegin
  <2>1. LoopBegin \in Status /\ LoopBegin # Abort /\ LoopBegin \in 0 .. Shutdown
    BY <1>3, StatusRange
  <2>2. /\ ctl_status' = LoopBegin /\ app_status' = app_status /\ cpu_rank' = cpu_rank
        /\ last_status' = [last_status EXCEPT ![Ctl] = LoopBegin] /\ passed' = passed
    BY <1>6 DEF CtlLoopBegin
  <2>3. last_status' \in [Actor -> 0 .. Shutdown]
    <3>1. last_status \in [Actor -> 0 .. Shutdown]
      BY <1>1 DEF WordsOK
    <3> QED
      BY <2>1, <2>2, <3>1
  <2>4. WordsOK'
    BY <1>1, <2>1, <2>2, <2>3 DEF WordsOK
  <2> QED
    BY <2>1, <2>2, <2>4
<1>7. CASE ReadMap
  <2>1. Abort \in Status
    BY StatusRange
  <2>2. WordsOK'
    BY <1>1, <1>7, <2>1 DEF ReadMap, WordsOK
  <2>3. fate'[Ctl] # "running" \/ ctl_status' = ctl_status
    BY <1>1, <1>7, Stopping, Actors DEF ReadMap
  <2> QED
    BY <2>2, <2>3
<1>8. CASE Create \/ Connect \/ Update \/ Names \/ Collect \/ CtlAgain \/ Fails
  BY <1>1, <1>8 DEF Create, Connect, Update, Names, Collect, CtlAgain, Fails, WordsOK, statusVars
<1>9. CASE \E r \in Rank : RankCall(r)
  BY <1>5, <1>9
<1>10. CASE Either(Ctl)
  BY <1>4, <1>10, Actors
<1> QED
  BY <1>6, <1>7, <1>8, <1>9, <1>10 DEF Next, CtlCall

\* ... and of the tables and names.
LEMMA NamesKept ==
    ASSUME TypeInv, Next
    PROVE  NamesOK' /\ (pc'[Ctl] <= 5 => finished' = {})
<1> USE TypeParts DEF TypeInv
<1>1. WordsOK /\ PlacesOK /\ NamesOK /\ (pc[Ctl] <= 5 => finished = {})
  OBVIOUS
<1>2. pc'[Ctl] <= 5 => pc[Ctl] <= 5
  <2>1. \A a \in Actor : Advances(a) \/ Loops(a) => (pc'[Ctl] <= 5 => pc[Ctl] <= 5)
    BY <1>1, Actors DEF Advances, Loops, PlacesOK
  <2> QED
    BY <1>1, <2>1, PlacesKept
<1>3. \A r \in Rank : chunks[r] \in Nat /\ chunks[r] >= 1
  BY <1>1, ChunkAssumption DEF NamesOK
<1>4. CASE UNCHANGED <<shmemVars, inputVars, nameVars>>
  BY <1>1, <1>2, <1>4 DEF shmemVars, inputVars, nameVars, NamesOK
<1>5. ASSUME NEW r \in Rank, Fill(r) PROVE NamesOK'
  BY <1>1, <1>3, <1>5 DEF Fill, NamesOK, shmemVars, inputVars
<1>6. ASSUME NEW r \in Rank, Test(r) PROVE NamesOK'
  BY <1>1, <1>6 DEF Test, NamesOK, shmemVars, inputVars
<1>7. CASE Create \/ Connect
  BY <1>1, <1>2, <1>7 DEF Create, Connect, NamesOK, inputVars, nameVars
<1>8. CASE ReadMap
  <2>1. finished = {}
    BY <1>1, <1>8, Actors, CtlCalls DEF ReadMap, At, PlacesOK
  <2> QED
    BY <1>1, <1>8, <2>1 DEF ReadMap, NamesOK, inputVars, nameVars
<1>9. CASE Collect
  <2>1. pc[Ctl] = 16
    BY <1>1, <1>9, Actors, CtlCalls DEF Collect, At, PlacesOK
  <2>2. names' \subseteq Rank \X Nat /\ finished' \subseteq tables
    BY <1>1, <1>9 DEF Collect, NamesOK
  <2> QED
    BY <1>1, <1>2, <1>9, <2>1, <2>2 DEF Collect, NamesOK, shmemVars, inputVars
<1>10. ASSUME NEW r \in Rank, Fill(r) \/ Test(r) PROVE finished' = finished
  BY <1>10 DEF Fill, Test
<1>11. CASE \E r \in Rank : RankCall(r)
  <2> PICK r \in Rank : RankCall(r)
    BY <1>11
  <2>1. CASE Fill(r) \/ Test(r)
    BY <1>1, <1>2, <1>5, <1>6, <1>10, <2>1
  <2>2. CASE ~(Fill(r) \/ Test(r))
    BY <1>4, <2>2 DEF RankCall, Either, Step, Wait, WaitAborted, TimesOut, Construct, LoopSet,
                      LoopSpin, Barrier, Attaches, NoTable, Map, Check, Enable, Again
  <2> QED
    BY <2>1, <2>2
<1>12. CASE Either(Ctl) \/ CtlLoopBegin \/ Update \/ Names \/ CtlAgain \/ Fails
  BY <1>4, <1>12 DEF Either, Step, Wait, WaitAborted, TimesOut, CtlLoopBegin, Update, Names,
                     CtlAgain, Fails
<1> QED
  BY <1>7, <1>8, <1>9, <1>11, <1>12 DEF Next, CtlCall

\* The types hold in every state, and the controller stops when it gives up.
THEOREM TypesOfHandshake == Spec => []TypeInv
<1>1. TypeInv /\ [Next]_vars => TypeInv'
  <2> SUFFICES ASSUME TypeInv, [Next]_vars PROVE TypeInv'
    OBVIOUS
  <2>1. CASE Next
    <3>1. PlacesOK
      BY TypeParts DEF TypeInv
    <3>2. PlacesOK' /\ (fate'[Ctl] = "running" => fate[Ctl] = "running")
      BY <2>1, <3>1, PlacesKept, Actors
    <3>3. TypeOK'
      <4>1. WordsOK' /\ NamesOK'
        BY <2>1, WordsKept, NamesKept
      <4>2. (PlacesOK /\ WordsOK /\ NamesOK => TypeOK)'
        BY TypeParts, PTL
      <4> QED
        BY <3>2, <4>1, <4>2
    <3> QED
      BY <2>1, <3>2, <3>3, WordsKept, NamesKept DEF TypeInv
  <2>2. CASE UNCHANGED vars
    BY <2>2 DEF vars, statusVars, actorVars, shmemVars, inputVars, nameVars, TypeInv, TypeOK
  <2> QED
    BY <2>1, <2>2
<1> QED
  BY <1>1, TypesStart, PTL DEF Spec

-----------------------------------------------------------------------------
(* The ranks keep together.                                                *)

\* Barriers that are left before a place, up to the table.
LeftBefore(i) ==
    IF i = 1 THEN 0 ELSE IF i <= 3 THEN 1 ELSE IF i <= 5 THEN 2
    ELSE IF i <= 9 THEN 3 ELSE IF i <= 11 THEN 4 ELSE 5

\* A rank that has left a barrier more than another is one barrier ahead, and
\* the other has reached it.
Pace ==
    \A r, q \in Rank :
        passed[r] > passed[q] => passed[r] = passed[q] + 1 /\ IsBarrier(pc[q])

Count ==
    \A r \in Rank :
        IF pc[r] <= 15 THEN passed[r] = LeftBefore(pc[r]) ELSE passed[r] >= 6

\* What a step does to the ranks: nothing, a call of one that is no barrier, or
\* a barrier that all have reached.
RanksStay == \A r \in Rank : pc'[r] = pc[r] /\ passed'[r] = passed[r]
OthersStay(r) == \A q \in Rank \ {r} : pc'[q] = pc[q] /\ passed'[q] = passed[q]
Calls(r) ==
    /\ ~IsBarrier(pc[r]) /\ passed'[r] = passed[r] /\ OthersStay(r)
    /\ pc'[r] = pc[r] + 1 \/ (pc[r] = 36 /\ pc'[r] = 29)
Leaves(r) ==
    /\ IsBarrier(pc[r]) /\ passed'[r] = passed[r] + 1 /\ OthersStay(r)
    /\ pc'[r] = pc[r] + 1
    /\ \A q \in Rank : passed[q] > passed[r] \/ (passed[q] = passed[r] /\ IsBarrier(pc[q]))

\* A rank's place and counter.
LEMMA RankTypes ==
    TypeInv =>
        /\ pc \in [Actor -> Nat] /\ passed \in [Rank -> Nat]
        /\ \A r \in Rank : pc[r] \in 1 .. 41 /\ passed[r] \in Nat
        /\ pc[Ctl] \in 1 .. 21
BY Actors DEF TypeInv, TypeOK

\* A running rank at a call, by the name and the place.
LEMMA RankAt ==
    ASSUME TypeInv, NEW r \in Rank, NEW call, At(r, call)
    PROVE  fate[r] = "running" /\ AppScript[pc[r]] = call
BY Actors DEF At

\* Barrier and test are left when all have reached them.
LEMMA BarrierLeaves ==
    ASSUME TypeInv, NEW r \in Rank, Barrier(r) \/ Test(r)
    PROVE  Leaves(r)
<1>1. IsBarrier(pc[r])
  BY RankAt DEF Barrier, Test, IsBarrier
<1>2. pc[r] \in 1 .. 40 /\ passed \in [Rank -> Nat] /\ pc \in [Actor -> Nat]
  BY <1>1, RankTypes, AppCalls
<1>3. pc' = [pc EXCEPT ![r] = @ + 1] /\ passed' = [passed EXCEPT ![r] = @ + 1] /\ AllReached(r)
  <2>1. Len(Script(r)) = 41
    BY Actors, AppCalls
  <2> QED
    BY <1>2, <2>1 DEF Barrier, Test, Returns
<1>4. \A q \in Rank : passed[q] > passed[r] \/ (passed[q] = passed[r] /\ IsBarrier(pc[q]))
  BY <1>3, RankAt DEF AllReached, IsBarrier
<1> QED
  BY <1>1, <1>2, <1>3, <1>4, Actors DEF Leaves, OthersStay

\* The other calls of a rank.
LEMMA OtherCalls ==
    ASSUME TypeInv, NEW r \in Rank, RankCall(r), ~Barrier(r), ~Test(r)
    PROVE  RanksStay \/ Calls(r)
<1>1. PlacesOK /\ r \in Actor /\ r # Ctl
  BY TypeParts, Actors DEF TypeInv
<1>2. passed' = passed /\ ~IsBarrier(pc[r])
  BY RankAt DEF RankCall, Either, Step, Wait, WaitAborted, TimesOut, Construct, LoopSet, LoopSpin,
                Attaches, NoTable, Map, Check, Enable, Fill, Again, IsBarrier
<1>3. \/ Returns(r) \/ Throws(r)
      \/ At(r, "again") /\ GoesTo(r, RoundStart)
  BY DEF RankCall, Either, Step, Wait, WaitAborted, TimesOut, Construct, LoopSet, LoopSpin,
         Attaches, NoTable, Map, Check, Enable, Fill, Again
<1>4. pc' = pc \/ Advances(r) \/ Loops(r)
  BY <1>1, <1>3, Returning, Stopping, GoingBack
<1>5. CASE pc' = pc
  BY <1>2, <1>5 DEF RanksStay
<1>6. CASE Advances(r)
  BY <1>1, <1>2, <1>6, RankTypes, Actors DEF Advances, Calls, OthersStay
<1>7. CASE Loops(r)
  <2>1. pc[r] = 36 /\ pc' = [pc EXCEPT ![r] = 29]
    BY <1>1, <1>7, RankAt, RankTypes, AppCalls DEF Loops
  <2> QED
    BY <1>1, <1>2, <2>1, RankTypes, Actors DEF Calls, OthersStay
<1> QED
  BY <1>4, <1>5, <1>6, <1>7

\* The controller does not move the ranks.
LEMMA CtlLeavesRanks ==
    ASSUME TypeInv, CtlCall \/ Fails
    PROVE  RanksStay
<1>1. PlacesOK /\ Ctl \in Actor /\ Ctl \notin Rank
  BY TypeParts, Actors DEF TypeInv
<1>2. passed' = passed
  BY DEF CtlCall, Either, Step, Wait, WaitAborted, TimesOut, CtlLoopBegin, Create, ReadMap, Connect,
         Update, Names, Collect, CtlAgain, Fails
<1>3. \/ Returns(Ctl) \/ Throws(Ctl) \/ Ends(Ctl)
      \/ At(Ctl, "again") /\ GoesTo(Ctl, Place(CtlScript, "loop_begin"))
  BY DEF CtlCall, Either, Step, Wait, WaitAborted, TimesOut, CtlLoopBegin, Create, ReadMap, Connect,
         Update, Names, Collect, CtlAgain, Fails
<1>4. pc' = pc \/ Advances(Ctl) \/ Loops(Ctl)
  BY <1>1, <1>3, Returning, Stopping, GoingBack
<1>5. \A r \in Rank : pc'[r] = pc[r]
  BY <1>1, <1>4, RankTypes, Actors DEF Advances, Loops
<1> QED
  BY <1>2, <1>5 DEF RanksStay

\* Every step is one of these.
LEMMA RankStep ==
    ASSUME TypeInv, Next
    PROVE  RanksStay \/ \E r \in Rank : Calls(r) \/ Leaves(r)
BY BarrierLeaves, OtherCalls, CtlLeavesRanks DEF Next

\* The ranks keep their pace, and the count of their barriers.
LEMMA OrderKept ==
    ASSUME TypeInv, TypeInv', Pace, Count, Next
    PROVE  Pace' /\ Count'
<1>1. /\ \A r \in Rank : pc[r] \in 1 .. 41 /\ passed[r] \in Nat
      /\ \A r \in Rank : pc'[r] \in 1 .. 41 /\ passed'[r] \in Nat
  <2>1. (TypeInv =>
           /\ pc \in [Actor -> Nat] /\ passed \in [Rank -> Nat]
           /\ \A r \in Rank : pc[r] \in 1 .. 41 /\ passed[r] \in Nat
           /\ pc[Ctl] \in 1 .. 21)'
    BY RankTypes, PTL
  <2> QED
    BY <2>1, RankTypes
<1>2. CASE RanksStay
  BY <1>2 DEF RanksStay, Pace, Count, LeftBefore, IsBarrier
<1>3. ASSUME NEW r \in Rank, Calls(r) PROVE Pace' /\ Count'
  <2>1. Pace'
    <3> SUFFICES ASSUME NEW p \in Rank, NEW q \in Rank, passed'[p] > passed'[q]
                 PROVE  passed'[p] = passed'[q] + 1 /\ IsBarrier(pc'[q])
      BY DEF Pace, IsBarrier
    <3>1. passed'[p] = passed[p] /\ passed'[q] = passed[q]
      BY <1>3 DEF Calls, OthersStay
    <3>2. passed[p] = passed[q] + 1 /\ IsBarrier(pc[q])
      BY <3>1 DEF Pace
    <3>3. q # r
      BY <1>3, <3>2 DEF Calls
    <3>4. pc'[q] = pc[q]
      BY <1>3, <3>3 DEF Calls, OthersStay
    <3> QED
      BY <3>1, <3>2, <3>4
  <2>2. Count'
    <3> SUFFICES ASSUME NEW q \in Rank
                 PROVE  IF pc'[q] <= 15 THEN passed'[q] = LeftBefore(pc'[q]) ELSE passed'[q] >= 6
      BY DEF Count, LeftBefore
    <3>1. IF pc[q] <= 15 THEN passed[q] = LeftBefore(pc[q]) ELSE passed[q] >= 6
      BY DEF Count
    <3>2. CASE q # r
      BY <1>3, <3>1, <3>2 DEF Calls, OthersStay
    <3>3. CASE q = r
      <4>1. pc[r] \notin {1, 3, 5, 9, 11, 15}
        BY <1>1, <1>3, AppCalls DEF Calls
      <4> QED
        BY <1>1, <1>3, <3>1, <3>3, <4>1 DEF Calls, LeftBefore
    <3> QED
      BY <3>2, <3>3
  <2> QED
    BY <2>1, <2>2
<1>4. ASSUME NEW r \in Rank, Leaves(r) PROVE Pace' /\ Count'
  <2>1. Pace'
    <3> SUFFICES ASSUME NEW p \in Rank, NEW q \in Rank, passed'[p] > passed'[q]
                 PROVE  passed'[p] = passed'[q] + 1 /\ IsBarrier(pc'[q])
      BY DEF Pace, IsBarrier
    <3>1. CASE p # r /\ q # r
      BY <1>4, <3>1 DEF Leaves, OthersStay, Pace
    <3>2. CASE p = r /\ q # r
      <4>1. passed'[p] = passed[r] + 1 /\ passed'[q] = passed[q] /\ pc'[q] = pc[q]
        BY <1>4, <3>2 DEF Leaves, OthersStay
      <4>2. passed[q] = passed[r] /\ IsBarrier(pc[q])
        BY <1>1, <1>4, <4>1 DEF Leaves
      <4> QED
        BY <1>1, <4>1, <4>2
    <3>3. CASE p # r /\ q = r
      BY <1>1, <1>4, <3>3 DEF Leaves, OthersStay, Pace
    <3>4. CASE p = r /\ q = r
      BY <1>1, <3>4
    <3> QED
      BY <3>1, <3>2, <3>3, <3>4
  <2>2. Count'
    <3> SUFFICES ASSUME NEW q \in Rank
                 PROVE  IF pc'[q] <= 15 THEN passed'[q] = LeftBefore(pc'[q]) ELSE passed'[q] >= 6
      BY DEF Count, LeftBefore
    <3>1. IF pc[q] <= 15 THEN passed[q] = LeftBefore(pc[q]) ELSE passed[q] >= 6
      BY DEF Count
    <3>2. CASE q # r
      BY <1>4, <3>1, <3>2 DEF Leaves, OthersStay
    <3>3. CASE q = r
      <4>1. pc[r] \in {1, 3, 5, 9, 11, 15} \/ pc[r] >= 18
        BY <1>1, <1>4, AppCalls DEF Leaves
      <4> QED
        BY <1>1, <1>4, <3>1, <3>3, <4>1 DEF Leaves, LeftBefore
    <3> QED
      BY <3>2, <3>3
  <2> QED
    BY <2>1, <2>2
<1> QED
  BY <1>2, <1>3, <1>4, RankStep

-----------------------------------------------------------------------------
(* The map of CPUs.                                                        *)

\* Rank zero is the first to list itself.
ZeroFirst == \A r \in Rank : pc[r] > 8 => pc[0] > 8

\* The word of the application until it says that the map is complete.
AppWord ==
    /\ pc[0] <= 6 => app_status = 0
    /\ pc[0] > 6 /\ pc[0] <= 12 => app_status = MapBegin

\* The ranks that have listed themselves on a CPU.
Holders(c) == {r \in Rank : pc[r] > 8 /\ c \in cpu_set[r]}

\* The map says who has listed itself on a CPU, unless more than one has.
Listed ==
    pc[0] > 8 =>
        \A c \in Cpu :
            /\ cpu_rank[c] = -1 => Holders(c) = {}
            /\ cpu_rank[c] \in Rank => Holders(c) = {cpu_rank[c]}

\* Rank zero has checked that nobody shares a CPU.
NoneShared == pc[0] > 10 => \A c \in Cpu : cpu_rank[c] # -2

\* The controller waits for both states of the map before it reads it.
CtlFollows ==
    /\ pc[Ctl] <= 2 => last_status[Ctl] = 0
    /\ pc[Ctl] > 2 /\ pc[Ctl] <= 4 => last_status[Ctl] = MapBegin
    /\ pc[Ctl] > 4 => pc[0] > 12

WithCpus == {r \in Rank : cpu_set[r] # {}}
TablesFollow == pc[Ctl] > 5 => tables = WithCpus

MapInv ==
    /\ Pace /\ Count /\ ZeroFirst /\ AppWord
    /\ Listed /\ NoneShared /\ CtlFollows /\ TablesFollow

\* Rank zero past the check: every rank has listed itself.
LEMMA AllListed ==
    ASSUME TypeInv, Pace, Count, pc[0] > 9
    PROVE  \A r \in Rank : pc[r] > 8
<1> SUFFICES ASSUME NEW r \in Rank, pc[r] <= 8 PROVE FALSE
  BY RankTypes
<1>1. pc[0] \in 1 .. 41 /\ passed[0] \in Nat /\ pc[r] \in 1 .. 41 /\ passed[r] \in Nat
  BY RankTypes, Actors
<1>2. passed[0] >= 4
  BY <1>1, Actors DEF Count, LeftBefore
<1>3. passed[r] <= 3 /\ (passed[r] = 3 => pc[r] \in 6 .. 8)
  BY <1>1 DEF Count, LeftBefore
<1>4. passed[0] = passed[r] + 1 /\ IsBarrier(pc[r])
  BY <1>1, <1>2, <1>3, Actors DEF Pace
<1> QED
  BY <1>1, <1>2, <1>3, <1>4, AppCalls

\* A rank past the table: rank zero has said that the map is complete.
LEMMA ZeroSaid ==
    ASSUME TypeInv, Pace, Count, NEW r \in Rank, pc[r] > 15
    PROVE  pc[0] > 12
<1> SUFFICES ASSUME pc[0] <= 12 PROVE FALSE
  BY RankTypes, Actors
<1>1. pc[0] \in 1 .. 41 /\ passed[0] \in Nat /\ pc[r] \in 1 .. 41 /\ passed[r] \in Nat
  BY RankTypes, Actors
<1>2. passed[r] >= 6
  BY <1>1 DEF Count
<1>3. passed[0] <= 5 /\ (passed[0] = 5 => pc[0] = 12)
  BY <1>1, Actors DEF Count, LeftBefore
<1>4. passed[r] = passed[0] + 1 /\ IsBarrier(pc[0])
  BY <1>1, <1>2, <1>3, Actors DEF Pace
<1> QED
  BY <1>1, <1>2, <1>3, <1>4, AppCalls

\* A rank goes to the next place, stays, or starts a round.
LEMMA Onward ==
    ASSUME TypeInv, Next, NEW r \in Rank
    PROVE  \/ pc'[r] = pc[r] \/ pc'[r] = pc[r] + 1
           \/ pc[r] = 36 /\ pc'[r] = 29
BY RankStep DEF RanksStay, Calls, Leaves, OthersStay

\* A rank moves by a call of its own.
LEMMA OwnCall ==
    ASSUME TypeInv, Next, NEW r \in Rank, pc'[r] # pc[r]
    PROVE  RankCall(r)
<1>1. CASE CtlCall \/ Fails
  BY <1>1, CtlLeavesRanks DEF RanksStay
<1>2. CASE \E q \in Rank : RankCall(q)
  <2> PICK q \in Rank : RankCall(q)
    BY <1>2
  <2>1. CASE q = r
    BY <2>1
  <2>2. CASE q # r
    <3>1. PlacesOK /\ q \in Actor /\ q # Ctl
      BY TypeParts, Actors DEF TypeInv
    <3>2. \/ Returns(q) \/ Throws(q)
          \/ At(q, "again") /\ GoesTo(q, RoundStart)
      BY DEF RankCall, Either, Step, Wait, WaitAborted, TimesOut, Construct, LoopSet, LoopSpin,
             Barrier, Test, Attaches, NoTable, Map, Check, Enable, Fill, Again
    <3>3. pc' = pc \/ Advances(q) \/ Loops(q)
      BY <3>1, <3>2, Returning, Stopping, GoingBack
    <3>4. pc'[r] = pc[r]
      BY <2>2, <3>1, <3>3, RankTypes, Actors DEF Advances, Loops
    <3> QED
      BY <3>4
  <2> QED
    BY <2>1, <2>2
<1> QED
  BY <1>1, <1>2 DEF Next

\* What moves a rank from the places that matter.
LEMMA MovesFrom ==
    ASSUME TypeInv, Next, NEW r \in Rank, pc'[r] # pc[r]
    PROVE  /\ pc[r] = 4 => Construct(r)
           /\ pc[r] = 6 => Step(r)
           /\ pc[r] = 8 => Map(r)
           /\ pc[r] = 10 => Check(r)
<1>1. RankCall(r) /\ pc[r] \in 1 .. 41
  BY OwnCall, RankTypes
<1>2. AppScript[4] = "construct" /\ AppScript[6] = "step" /\ AppScript[8] = "map"
      /\ AppScript[10] = "check"
  BY AppCalls
<1>3. \/ AppScript[pc[r]] = "step" /\ Step(r)
      \/ AppScript[pc[r]] = "construct" /\ Construct(r)
      \/ AppScript[pc[r]] = "map" /\ Map(r)
      \/ AppScript[pc[r]] = "check" /\ Check(r)
      \/ AppScript[pc[r]] \notin {"step", "construct", "map", "check"}
  BY <1>1, RankAt DEF RankCall, Either, Step, Wait, WaitAborted, TimesOut, Construct, LoopSet, LoopSpin,
             Barrier, Test, Attaches, NoTable, Map, Check, Enable, Fill, Again
<1> QED
  BY <1>2, <1>3

\* The map is written by the construction of rank zero, and by the ranks in turn.
LEMMA MapWriters ==
    ASSUME TypeInv, Next
    PROVE  \/ cpu_rank' = cpu_rank
           \/ pc[0] = 4 /\ pc'[0] <= 8
           \/ \E r \in Rank : Map(r)
<1>1. CASE \E r \in Rank : Construct(r)
  <2> PICK r \in Rank : Construct(r)
    BY <1>1
  <2>1. CASE r = 0
    <3>1. pc[0] = 4
      BY <2>1, RankAt, RankTypes, AppCalls, Actors DEF Construct
    <3> QED
      BY <3>1, Onward, Actors
  <2>2. CASE r # 0
    BY <2>2 DEF Construct
  <2> QED
    BY <2>1, <2>2
<1>2. CASE \E r \in Rank : RankCall(r) /\ ~Construct(r) /\ ~Map(r)
  BY <1>2 DEF RankCall, Either, Step, Wait, WaitAborted, TimesOut, LoopSet, LoopSpin,
              Barrier, Test, Attaches, NoTable, Check, Enable, Fill, Again, statusVars
<1>3. CASE CtlCall \/ Fails
  BY <1>3 DEF CtlCall, Either, Step, Wait, WaitAborted, TimesOut, CtlLoopBegin, Create, ReadMap,
              Connect, Update, Names, Collect, CtlAgain, Fails, statusVars
<1> QED
  BY <1>1, <1>2, <1>3 DEF Next

\* A rank lists itself at its place, after those before it.
LEMMA MapAt ==
    ASSUME TypeInv, NEW r \in Rank, Map(r)
    PROVE  /\ pc[r] = 8 /\ pc'[r] = 9 /\ OthersStay(r)
           /\ r # 0 => pc[0] > 8
           /\ cpu_set' = cpu_set
           /\ cpu_rank' = [c \in Cpu |->
                             LET old == IF r = 0 THEN -1 ELSE cpu_rank[c]
                             IN  IF c \notin cpu_set[r] THEN old
                                 ELSE IF old = -1 THEN r ELSE -2]
<1>1. pc[r] = 8
  BY RankAt, RankTypes, AppCalls DEF Map
<1>2. pc' = [pc EXCEPT ![r] = @ + 1] /\ passed' = passed
  <2>1. Len(Script(r)) = 41
    BY Actors, AppCalls
  <2> QED
    BY <1>1, <2>1 DEF Map, Returns
<1>3. r # 0 => 0 < r
  BY Actors
<1>4. r # 0 => pc[0] > 8
  BY <1>3, Actors, Places DEF Map, Past
<1> QED
  BY <1>1, <1>2, <1>4, RankTypes, Actors DEF Map, OthersStay, inputVars

\* The inputs of a job do not change.
LEMMA InputsStay ==
    ASSUME Next
    PROVE  cpu_set' = cpu_set /\ chunks' = chunks
BY DEF Next, RankCall, CtlCall, Either, Step, Wait, WaitAborted, TimesOut, Construct, LoopSet,
       LoopSpin, Barrier, Test, Attaches, NoTable, Map, Check, Enable, Fill, Again, CtlLoopBegin,
       Create, ReadMap, Connect, Update, Names, Collect, CtlAgain, Fails, inputVars

\* Rank zero stays the first.
LEMMA ZeroFirstKept ==
    ASSUME TypeInv, ZeroFirst, Next
    PROVE  ZeroFirst'
<1> SUFFICES ASSUME NEW r \in Rank, pc'[r] > 8 PROVE pc'[0] > 8
  BY DEF ZeroFirst
<1>1. pc[r] \in Nat /\ pc[0] \in Nat
  BY RankTypes, Actors
<1>2. pc[0] > 8 => pc'[0] > 8
  BY <1>1, Onward, Actors
<1>3. CASE pc[r] > 8
  BY <1>2, <1>3 DEF ZeroFirst
<1>4. CASE pc[r] <= 8
  <2>1. Map(r)
    BY <1>1, <1>4, Onward, MovesFrom
  <2> QED
    BY <1>2, <2>1, MapAt
<1> QED
  BY <1>1, <1>3, <1>4

\* The map keeps saying who is listed.
LEMMA ListedKept ==
    ASSUME TypeInv, ZeroFirst, Listed, Next
    PROVE  Listed'
<1> SUFFICES ASSUME pc'[0] > 8, NEW c \in Cpu
             PROVE  /\ cpu_rank'[c] = -1 => Holders(c)' = {}
                    /\ cpu_rank'[c] \in Rank => Holders(c)' = {cpu_rank'[c]}
  BY DEF Listed
<1>1. cpu_set' = cpu_set
  BY InputsStay
<1>2. \A r \in Rank : pc[r] \in Nat
  BY RankTypes
<1>3. CASE \E r \in Rank : Map(r)
  <2> PICK r \in Rank : Map(r)
    BY <1>3
  <2>1. /\ pc[r] = 8 /\ pc'[r] = 9 /\ r # -1 /\ -2 \notin Rank
        /\ \A q \in Rank \ {r} : pc'[q] = pc[q]
    BY MapAt, Actors DEF OthersStay
  <2>2. Holders(c)' = Holders(c) \cup (IF c \in cpu_set[r] THEN {r} ELSE {})
    BY <1>1, <2>1 DEF Holders
  <2>3. CASE r = 0
    <3>1. Holders(c) = {}
      <4>1. ~(pc[0] > 8)
        BY <2>1, <2>3
      <4> QED
        BY <4>1 DEF Holders, ZeroFirst
    <3>2. cpu_rank'[c] = IF c \in cpu_set[r] THEN r ELSE -1
      BY <2>3, MapAt
    <3> QED
      BY <2>1, <2>2, <3>1, <3>2, Actors DEF Ctl
  <2>4. CASE r # 0
    <3>1. /\ cpu_rank[c] = -1 => Holders(c) = {}
          /\ cpu_rank[c] \in Rank => Holders(c) = {cpu_rank[c]}
      BY <2>4, MapAt DEF Listed
    <3>2. cpu_rank'[c] = IF c \notin cpu_set[r] THEN cpu_rank[c]
                         ELSE IF cpu_rank[c] = -1 THEN r ELSE -2
      BY <2>4, MapAt
    <3>3. CASE c \notin cpu_set[r]
      BY <2>2, <3>1, <3>2, <3>3
    <3>4. CASE c \in cpu_set[r]
      BY <2>1, <2>2, <3>1, <3>2, <3>4
    <3> QED
      BY <3>3, <3>4
  <2> QED
    BY <2>3, <2>4
<1>4. CASE ~\E r \in Rank : Map(r)
  <2>1. \A r \in Rank : pc'[r] > 8 <=> pc[r] > 8
    BY <1>2, <1>4, Onward, MovesFrom
  <2>2. Holders(c)' = Holders(c)
    BY <1>1, <2>1 DEF Holders
  <2>3. pc[0] > 8 /\ cpu_rank' = cpu_rank
    BY <1>2, <1>4, <2>1, MapWriters, Actors
  <2> QED
    BY <2>2, <2>3 DEF Listed
<1> QED
  BY <1>3, <1>4

\* Once checked, the map is not written any more.
LEMMA NoneSharedKept ==
    ASSUME TypeInv, Pace, Count, NoneShared, Next
    PROVE  NoneShared'
<1> SUFFICES ASSUME pc'[0] > 10 PROVE \A c \in Cpu : cpu_rank'[c] # -2
  BY DEF NoneShared
<1>1. pc[0] \in Nat
  BY RankTypes, Actors
<1>2. pc[0] > 9
  BY <1>1, Onward, Actors
<1>3. cpu_rank' = cpu_rank
  <2>1. \A r \in Rank : ~Map(r)
    BY <1>2, AllListed, MapAt
  <2> QED
    BY <1>2, <2>1, MapWriters
<1>4. CASE pc[0] > 10
  BY <1>3, <1>4 DEF NoneShared
<1>5. CASE pc[0] = 10
  <2>1. Check(0) /\ pc' # pc
    BY <1>5, MovesFrom, Actors
  <2>2. ~Throws(0)
    BY <2>1 DEF Throws
  <2> QED
    BY <1>3, <2>1, <2>2 DEF Check
<1> QED
  BY <1>1, <1>2, <1>4, <1>5

\* The first states.
LEMMA FirstStates == MapBegin = 1 /\ After(0) = 1 /\ After(MapBegin) = 2
BY DEF MapBegin, After, Shutdown

\* A call that returns before the end of the script.
LEMMA OneOn ==
    ASSUME TypeInv, NEW a \in Actor, Returns(a), pc[a] < Len(Script(a))
    PROVE  pc'[a] = pc[a] + 1
BY RankTypes DEF Returns

\* The word of the application keeps to the places of rank zero.
LEMMA AppWordKept ==
    ASSUME TypeInv, Pace, Count, AppWord, Next
    PROVE  AppWord'
<1>1. pc[0] \in 1 .. 41 /\ MapBegin = 1 /\ After(0) = 1
  BY RankTypes, Actors, FirstStates
<1>2. \/ pc'[0] = pc[0] \/ pc'[0] = pc[0] + 1
      \/ pc[0] = 36 /\ pc'[0] = 29
  BY Onward, Actors
<1>3. CASE pc[0] > 12
  BY <1>1, <1>2, <1>3 DEF AppWord
<1>4. CASE app_status' = app_status /\ pc[0] <= 12
  <2>1. pc[0] = 6 => pc'[0] = 6
    <3> SUFFICES ASSUME pc[0] = 6, pc'[0] # 6 PROVE FALSE
      BY <1>1
    <3>1. Step(0) /\ app_status = 0
      BY MovesFrom, Actors DEF AppWord
    <3>2. app_status' = After(app_status)
      BY <3>1 DEF Step
    <3> QED
      BY <1>1, <1>4, <3>1, <3>2
  <2> QED
    BY <1>1, <1>2, <1>4, <2>1 DEF AppWord
<1>5. CASE app_status' # app_status /\ pc[0] <= 12
  <2>1. (\E r \in Rank : Step(r) \/ Construct(r) \/ LoopSet(r)) \/ Step(Ctl)
    BY <1>5 DEF Next, RankCall, CtlCall, Either, Wait, WaitAborted, TimesOut, LoopSpin, Barrier,
                Test, Attaches, NoTable, Map, Check, Enable, Fill, Again, CtlLoopBegin,
                Create, ReadMap, Connect, Update, Names, Collect, CtlAgain, Fails, statusVars
  <2>2. ~Step(Ctl)
    BY <1>5 DEF Step, Ctl
  <2>3. \A r \in Rank : ~LoopSet(r)
    <3> SUFFICES ASSUME NEW r \in Rank, LoopSet(r) PROVE FALSE
      OBVIOUS
    <3>1. pc[r] = 30
      BY RankAt, RankTypes, AppCalls DEF LoopSet
    <3> QED
      BY <1>1, <1>5, <3>1, ZeroSaid
  <2>4. Step(0) \/ Construct(0)
    BY <1>5, <2>1, <2>2, <2>3 DEF Step, Construct
  <2>5. CASE Construct(0)
    <3>1. pc[0] = 4 /\ app_status' = 0
      BY <2>5, RankAt, RankTypes, AppCalls, Actors DEF Construct
    <3> QED
      BY <1>2, <3>1 DEF AppWord
  <2>6. CASE Step(0)
    <3>1. pc[0] \in {6, 12} /\ app_status' = After(app_status)
      BY <1>5, <2>6, RankAt, RankTypes, AppCalls, Actors DEF Step
    <3>2. pc'[0] = pc[0] + 1
      <4>1. Len(Script(0)) = 41
        BY Actors, AppCalls
      <4>2. 0 \in Actor /\ pc[0] < 41
        BY <3>1, Actors
      <4> QED
        BY <2>6, <3>1, <4>1, <4>2, OneOn DEF Step
    <3> QED
      BY <1>1, <3>1, <3>2 DEF AppWord
  <2> QED
    BY <2>4, <2>5, <2>6
<1> QED
  BY <1>1, <1>3, <1>4, <1>5

\* A move of the controller, up to the map.
LEMMA CtlMoves ==
    ASSUME TypeInv, Next
    PROVE  /\ pc'[Ctl] = pc[Ctl] \/ pc'[Ctl] = pc[Ctl] + 1
              \/ (pc[Ctl] = 18 /\ pc'[Ctl] = 14)
           /\ pc'[Ctl] # pc[Ctl] => CtlCall \/ Fails
           /\ pc'[Ctl] # pc[Ctl] /\ pc[Ctl] \in {2, 4} => Wait(Ctl)
           /\ pc'[Ctl] # pc[Ctl] /\ pc[Ctl] = 5 => ReadMap
<1>1. PlacesOK /\ Ctl \in Actor /\ Ctl \notin Rank /\ pc[Ctl] \in 1 .. 21
  BY TypeParts, Actors, RankTypes DEF TypeInv
<1>2. CASE \E r \in Rank : RankCall(r)
  <2> PICK r \in Rank : RankCall(r)
    BY <1>2
  <2>1. r \in Actor /\ r # Ctl
    BY Actors
  <2>2. \/ Returns(r) \/ Throws(r)
        \/ At(r, "again") /\ GoesTo(r, RoundStart)
    BY DEF RankCall, Either, Step, Wait, WaitAborted, TimesOut, Construct, LoopSet, LoopSpin,
           Barrier, Test, Attaches, NoTable, Map, Check, Enable, Fill, Again
  <2>3. pc' = pc \/ Advances(r) \/ Loops(r)
    BY <1>1, <2>1, <2>2, Returning, Stopping, GoingBack
  <2> QED
    BY <1>1, <2>1, <2>3, RankTypes DEF Advances, Loops
<1>3. CASE CtlCall \/ Fails
  <2>1. \/ Returns(Ctl) \/ Throws(Ctl) \/ Ends(Ctl)
        \/ At(Ctl, "again") /\ GoesTo(Ctl, Place(CtlScript, "loop_begin"))
    BY <1>3 DEF CtlCall, Either, Step, Wait, WaitAborted, TimesOut, CtlLoopBegin, Create, ReadMap,
                Connect, Update, Names, Collect, CtlAgain, Fails
  <2>2. pc' = pc \/ Advances(Ctl) \/ Loops(Ctl)
    BY <1>1, <2>1, Returning, Stopping, GoingBack
  <2>3. Script(Ctl) = CtlScript
    BY Actors
  <2>4. \/ pc'[Ctl] = pc[Ctl] \/ pc'[Ctl] = pc[Ctl] + 1
        \/ pc[Ctl] = 18 /\ pc'[Ctl] = 14
    BY <1>1, <2>2, <2>3, RankTypes, CtlCalls DEF Advances, Loops, At
  <2>5. CtlScript[2] = "wait" /\ CtlScript[4] = "wait" /\ CtlScript[5] = "read_map"
    BY CtlCalls
  <2>6. \/ CtlScript[pc[Ctl]] = "wait" /\ Wait(Ctl)
        \/ CtlScript[pc[Ctl]] = "read_map" /\ ReadMap
        \/ CtlScript[pc[Ctl]] \notin {"wait", "read_map"}
        \/ pc' = pc
    BY <1>3, <2>3 DEF CtlCall, Either, At, Step, Wait, WaitAborted, TimesOut, CtlLoopBegin, Create,
                ReadMap, Connect, Update, Names, Collect, CtlAgain, Fails, Throws
  <2> QED
    BY <1>3, <2>4, <2>5, <2>6
<1> QED
  BY <1>2, <1>3 DEF Next

\* The last state that the controller has seen, up to the map.
LEMMA CtlSees ==
    ASSUME TypeInv, Next, pc[Ctl] <= 4
    PROVE  \/ last_status'[Ctl] = last_status[Ctl] /\ pc[Ctl] \notin {2, 4}
           \/ last_status'[Ctl] = last_status[Ctl] /\ pc'[Ctl] = pc[Ctl]
           \/ /\ pc[Ctl] \in {2, 4} /\ Wait(Ctl) /\ pc'[Ctl] = pc[Ctl] + 1
              /\ app_status = After(last_status[Ctl])
              /\ last_status'[Ctl] = After(last_status[Ctl])
<1>1. Ctl \in Actor /\ Ctl \notin Rank /\ pc[Ctl] \in 1 .. 21 /\ Script(Ctl) = CtlScript
      /\ last_status \in [Actor -> 0 .. Shutdown] /\ Len(CtlScript) = 21
  BY Actors, RankTypes, CtlCalls DEF TypeInv, TypeOK
<1>2. CASE Wait(Ctl)
  <2>1. pc[Ctl] \in {2, 4}
    BY <1>1, <1>2, CtlCalls DEF Wait, At
  <2>2. pc'[Ctl] = pc[Ctl] + 1
    <3>1. Returns(Ctl)
      BY <1>2 DEF Wait
    <3>2. Len(Script(Ctl)) = 21 /\ pc[Ctl] < 21
      BY <1>1, <2>1
    <3> QED
      BY <1>1, <3>1, <3>2, OneOn
  <2> QED
    BY <1>1, <1>2, <2>1, <2>2 DEF Wait, Seen
<1>3. CASE ~Wait(Ctl)
  <2>1. last_status'[Ctl] = last_status[Ctl]
    <3>1. CASE \E r \in Rank : Wait(r) \/ LoopSpin(r)
      BY <1>1, <3>1 DEF Wait, LoopSpin
    <3>2. CASE CtlLoopBegin
      BY <1>1, <3>2, CtlCalls DEF CtlLoopBegin, At
    <3>3. CASE ~(\E r \in Rank : Wait(r) \/ LoopSpin(r)) /\ ~CtlLoopBegin
      BY <1>3, <3>3 DEF Next, RankCall, CtlCall, Either, Step, WaitAborted, TimesOut, Construct,
                LoopSet, Barrier, Test, Attaches, NoTable, Map, Check, Enable, Fill, Again,
                Create, ReadMap, Connect, Update, Names, Collect, CtlAgain, Fails
    <3> QED
      BY <3>1, <3>2, <3>3
  <2>2. pc[Ctl] \in {2, 4} => pc'[Ctl] = pc[Ctl]
    BY <1>3, CtlMoves
  <2> QED
    BY <2>1, <2>2
<1> QED
  BY <1>2, <1>3

\* The controller goes to the map when the application has said that it is there.
LEMMA CtlFollowsKept ==
    ASSUME TypeInv, AppWord, CtlFollows, Next
    PROVE  CtlFollows'
<1>1. pc[Ctl] \in 1 .. 21 /\ pc[0] \in 1 .. 41 /\ MapBegin = 1
      /\ After(0) = 1 /\ After(MapBegin) = 2
  BY RankTypes, Actors, FirstStates
<1>2. pc[0] > 12 => pc'[0] > 12
  BY <1>1, Onward, Actors
<1>3. \/ pc'[Ctl] = pc[Ctl] \/ pc'[Ctl] = pc[Ctl] + 1
      \/ (pc[Ctl] = 18 /\ pc'[Ctl] = 14)
  BY CtlMoves
<1>4. CASE pc[Ctl] > 4
  BY <1>1, <1>2, <1>3, <1>4 DEF CtlFollows
<1>5. CASE pc[Ctl] <= 4
  <2>1. CASE last_status'[Ctl] = last_status[Ctl] /\ (pc[Ctl] \notin {2, 4} \/ pc'[Ctl] = pc[Ctl])
    BY <1>1, <1>3, <1>5, <2>1 DEF CtlFollows
  <2>2. CASE /\ pc[Ctl] \in {2, 4} /\ pc'[Ctl] = pc[Ctl] + 1
             /\ app_status = After(last_status[Ctl])
             /\ last_status'[Ctl] = After(last_status[Ctl])
    <3>1. CASE pc[Ctl] = 2
      BY <1>1, <2>2, <3>1 DEF CtlFollows
    <3>2. CASE pc[Ctl] = 4
      <4>1. app_status = 2
        BY <1>1, <2>2, <3>2 DEF CtlFollows
      <4>2. pc[0] > 12
        BY <1>1, <4>1 DEF AppWord
      <4> QED
        BY <1>2, <2>2, <3>2, <4>2 DEF CtlFollows
    <3> QED
      BY <2>2, <3>1, <3>2
  <2> QED
    BY <1>5, <2>1, <2>2, CtlSees
<1> QED
  BY <1>1, <1>4, <1>5

\* The tables are made from the map, and stay.
LEMMA TablesFollowKept ==
    ASSUME TypeInv, Pace, Count, Listed, NoneShared, CtlFollows, TablesFollow, Next
    PROVE  TablesFollow'
<1> SUFFICES ASSUME pc'[Ctl] > 5 PROVE tables' = WithCpus
  BY InputsStay DEF TablesFollow, WithCpus
<1>1. pc[Ctl] \in 1 .. 21
  BY RankTypes
<1>2. CASE pc[Ctl] > 5
  <2>1. ~ReadMap
    BY <1>1, <1>2, Actors, CtlCalls DEF ReadMap, At
  <2>2. tables' = tables
    BY <2>1 DEF Next, RankCall, CtlCall, Either, Step, Wait, WaitAborted, TimesOut, Construct,
                LoopSet, LoopSpin, Barrier, Test, Attaches, NoTable, Map, Check, Enable, Fill,
                Again, CtlLoopBegin, Create, Connect, Update, Names, Collect, CtlAgain, Fails,
                shmemVars
  <2> QED
    BY <1>2, <2>2 DEF TablesFollow
<1>3. CASE pc[Ctl] <= 5
  <2>1. ReadMap
    BY <1>1, <1>3, CtlMoves
  <2>2. pc[Ctl] = 5
    BY <1>1, <2>1, Actors, CtlCalls DEF ReadMap, At
  <2>3. pc[0] > 12
    BY <2>2 DEF CtlFollows
  <2>4. \A r \in Rank : pc[r] > 8
    BY <2>3, AllListed, RankTypes, Actors
  <2>5. \A c \in Cpu : /\ cpu_rank[c] \in Rank \cup {-1}
                       /\ cpu_rank[c] = -1 => Holders(c) = {}
                       /\ cpu_rank[c] \in Rank => Holders(c) = {cpu_rank[c]}
    <3>1. \A c \in Cpu : cpu_rank[c] \in Rank \cup {-1, -2}
      BY DEF TypeInv, TypeOK
    <3>2. pc[0] > 8 /\ pc[0] > 10
      BY <2>3, RankTypes, Actors
    <3> QED
      BY <3>1, <3>2 DEF Listed, NoneShared
  <2>6. \A c \in Cpu : Holders(c) = {r \in Rank : c \in cpu_set[r]}
    BY <2>4 DEF Holders
  <2>7. \A r \in Rank : cpu_set[r] \subseteq Cpu
    BY CpuAssumption DEF TypeInv, TypeOK
  <2>8. tables' = {cpu_rank[c] : c \in Cpu} \cap Rank
    BY <2>1 DEF ReadMap
  <2>9. ASSUME NEW r \in Rank, r \in tables' PROVE cpu_set[r] # {}
    <3> PICK c \in Cpu : cpu_rank[c] = r
      BY <2>8, <2>9
    <3>1. Holders(c) = {r}
      BY <2>5
    <3> QED
      BY <2>6, <3>1
  <2>10. ASSUME NEW r \in Rank, cpu_set[r] # {} PROVE r \in tables'
    <3> PICK c \in Cpu : c \in cpu_set[r]
      BY <2>7, <2>10
    <3>1. r \in Holders(c)
      BY <2>6
    <3>2. cpu_rank[c] = r
      BY <2>5, <3>1
    <3> QED
      BY <2>8, <3>2
  <2> QED
    BY <2>8, <2>9, <2>10 DEF WithCpus
<1> QED
  BY <1>1, <1>2, <1>3

\* The invariant of the map holds in every state.
LEMMA MapInvariance == Spec => []MapInv
<1>1. Init => MapInv
  <2> SUFFICES ASSUME Init PROVE MapInv
    OBVIOUS
  <2>1. pc[0] = 1 /\ pc[Ctl] = 1 /\ last_status[Ctl] = 0 /\ app_status = 0
        /\ \A r \in Rank : pc[r] = 1 /\ passed[r] = 0
    BY Actors DEF Init
  <2> QED
    BY <2>1 DEF MapInv, Pace, Count, LeftBefore, ZeroFirst, AppWord, Listed, NoneShared, CtlFollows,
                TablesFollow
<1>2. TypeInv /\ TypeInv' /\ MapInv /\ [Next]_vars => MapInv'
  <2> SUFFICES ASSUME TypeInv, TypeInv', MapInv, [Next]_vars PROVE MapInv'
    OBVIOUS
  <2>1. CASE Next
    BY <2>1, OrderKept, ZeroFirstKept, AppWordKept, ListedKept, NoneSharedKept, CtlFollowsKept,
       TablesFollowKept DEF MapInv
  <2>2. CASE UNCHANGED vars
    BY <2>2 DEF vars, statusVars, actorVars, shmemVars, inputVars, MapInv, Pace, Count, LeftBefore,
                IsBarrier, ZeroFirst, AppWord, Holders, Listed, NoneShared, CtlFollows,
                TablesFollow, WithCpus
  <2> QED
    BY <2>1, <2>2
<1> QED
  BY <1>1, <1>2, TypesOfHandshake, PTL DEF Spec

\* When the controller has read the map every rank with CPUs of its own has a
\* table.
THEOREM TablesForAll == Spec => []MapIsComplete
<1>1. MapInv => MapIsComplete
  BY Places, Actors DEF MapInv, TablesFollow, WithCpus, MapIsComplete, Past
<1> QED
  BY <1>1, MapInvariance, PTL

-----------------------------------------------------------------------------
(* The states of the message.  A call of a rank or of the controller is    *)
(* told here by its place: what it does to the words, to what its actor    *)
(* has seen, and to the names.                                             *)

AppSteps == {6, 12, 16, 24, 27, 34, 38, 41}
AppWaits == {7, 13, 17, 25, 28, 35, 39}
AppBarriers == {1, 3, 5, 9, 11, 15, 18, 20, 23, 26, 29, 33, 37, 40}
AppSilent == {2, 8, 10, 14, 19, 21, 22}
CtlSteps == {3, 6, 9, 11, 13, 17, 20}
CtlWaits == {2, 4, 8, 15, 19, 21}

\* Where a rank may stop: it throws there, or is done.
AppEnds == {2, 7, 10, 13, 14, 17, 25, 28, 35, 39, 41}

\* The place of a rank that is at a call.
LEMMA AppPlaces ==
    ASSUME TypeInv, NEW r \in Rank, NEW call, At(r, call)
    PROVE  /\ fate[r] = "running" /\ pc[r] \in 1 .. 41
           /\ call = "step" => pc[r] \in AppSteps
           /\ call = "wait" => pc[r] \in AppWaits
           /\ call \in {"attach", "map", "check", "attach_table", "attach_status",
                        "attach_log", "enable"} => pc[r] \in AppSilent
           /\ call \in {"attach", "check", "attach_table"} => pc[r] \in AppEnds
           /\ call = "barrier" => IsBarrier(pc[r]) /\ pc[r] # 33
           /\ call = "test" => pc[r] = 33
           /\ call = "construct" => pc[r] = 4
           /\ call = "loop_set" => pc[r] = 30
           /\ call = "loop_spin" => pc[r] = 31
           /\ call = "fill" => pc[r] = 32
           /\ call = "again" => pc[r] = 36
<1>1. fate[r] = "running" /\ AppScript[pc[r]] = call /\ pc[r] \in 1 .. 41
  BY RankAt, RankTypes
<1>2. \A i \in 1 .. 41 :
         /\ AppScript[i] = "step" => i \in AppSteps
         /\ AppScript[i] = "wait" => i \in AppWaits
         /\ AppScript[i] \in {"attach", "map", "check", "attach_table", "attach_status",
                              "attach_log", "enable"} => i \in AppSilent
         /\ AppScript[i] \in {"attach", "check", "attach_table"} => i \in AppEnds
         /\ AppScript[i] = "barrier" => i # 33
         /\ AppScript[i] = "test" => i = 33
         /\ AppScript[i] = "loop_spin" => i = 31
         /\ AppScript[i] = "fill" => i = 32
  BY DEF AppScript, AppSteps, AppWaits, AppSilent, AppEnds
<1>3. /\ call = "construct" => pc[r] = 4
      /\ call = "loop_set" => pc[r] = 30
      /\ call = "again" => pc[r] = 36
      /\ call = "barrier" => IsBarrier(pc[r])
  BY <1>1, AppCalls DEF IsBarrier
<1> QED
  BY ONLY <1>1, <1>2, <1>3

\* The place of the controller.
LEMMA CtlPlaces ==
    ASSUME TypeInv, NEW call, At(Ctl, call)
    PROVE  /\ fate[Ctl] = "running" /\ pc[Ctl] \in 1 .. 21
           /\ call = "step" => pc[Ctl] \in CtlSteps
           /\ call = "wait" => pc[Ctl] \in CtlWaits
           /\ call = "create" => pc[Ctl] = 1
           /\ call = "read_map" => pc[Ctl] = 5
           /\ call = "connect" => pc[Ctl] = 7
           /\ call = "update" => pc[Ctl] = 10
           /\ call = "names" => pc[Ctl] = 12
           /\ call = "loop_begin" => pc[Ctl] = 14
           /\ call = "collect" => pc[Ctl] = 16
           /\ call = "again" => pc[Ctl] = 18
<1>1. fate[Ctl] = "running" /\ CtlScript[pc[Ctl]] = call /\ pc[Ctl] \in 1 .. 21
  BY RankTypes, Actors DEF At
<1>2. \A i \in 1 .. 21 :
         /\ CtlScript[i] = "step" => i \in CtlSteps
         /\ CtlScript[i] = "wait" => i \in CtlWaits
         /\ CtlScript[i] = "create" => i = 1
         /\ CtlScript[i] = "read_map" => i = 5
         /\ CtlScript[i] = "connect" => i = 7
         /\ CtlScript[i] = "update" => i = 10
         /\ CtlScript[i] = "names" => i = 12
         /\ CtlScript[i] = "loop_begin" => i = 14
         /\ CtlScript[i] = "collect" => i = 16
         /\ CtlScript[i] = "again" => i = 18
  BY DEF CtlScript, CtlSteps, CtlWaits
<1> QED
  BY ONLY <1>1, <1>2

Everyone == \A q \in Rank : is_done[q]

\* A call of a rank that goes on.
RankPlace(r) ==
    /\ pc' = [pc EXCEPT ![r] = IF pc[r] = 36 /\ ~all_done[r] THEN 29 ELSE pc[r] + 1]
    /\ passed' = IF IsBarrier(pc[r]) THEN [passed EXCEPT ![r] = @ + 1] ELSE passed
    /\ IsBarrier(pc[r]) =>
         \A q \in Rank : passed[q] > passed[r] \/ (passed[q] = passed[r] /\ IsBarrier(pc[q]))
RankWord(r) ==
    /\ app_status' = IF pc[r] = 30 THEN 6
                     ELSE IF r = 0 /\ pc[r] \in AppSteps THEN After(app_status)
                     ELSE IF r = 0 /\ pc[r] = 4 THEN 0 ELSE app_status
    /\ ctl_status' = IF r = 0 /\ pc[r] = 4 THEN 0 ELSE ctl_status
    /\ pc[r] \in AppWaits => ctl_status = After(last_status[r])
    /\ pc[r] = 31 => ctl_status = 6
    /\ last_status' = [last_status EXCEPT ![r] = IF pc[r] \in AppWaits THEN After(@)
                                                 ELSE IF pc[r] = 31 THEN 6 ELSE @]
RankNames(r) ==
    /\ all_done' = IF pc[r] = 33 THEN [all_done EXCEPT ![r] = Everyone] ELSE all_done
    /\ IF pc[r] = 32
         THEN /\ buffer' = [buffer EXCEPT ![r] = position[r]]
              /\ is_done' = [is_done EXCEPT ![r] = position[r] = chunks[r]]
              /\ position' = [position EXCEPT ![r] = IF @ = chunks[r] THEN 1 ELSE @ + 1]
         ELSE UNCHANGED <<buffer, is_done, position>>
    /\ UNCHANGED <<tables, chunks, finished, names>>
RankGoes(r) ==
    /\ pc[r] <= 40 /\ fate[r] = "running" /\ fate' = fate
    /\ RankPlace(r) /\ RankWord(r) /\ RankNames(r)

\* One that ends the rank.
RankEnds(r) ==
    /\ pc[r] \in AppEnds /\ \E f : fate' = [fate EXCEPT ![r] = f]
    /\ UNCHANGED <<pc, passed, ctl_status, last_status, tables, chunks, nameVars>>
    /\ app_status' = app_status \/ (pc[0] = 41 /\ app_status' = After(app_status))

\* A call of the controller that goes on.
CtlWord ==
    /\ ctl_status' = IF pc[Ctl] \in CtlSteps THEN After(ctl_status)
                     ELSE IF pc[Ctl] = 14 THEN 6 ELSE ctl_status
    /\ pc[Ctl] \in CtlWaits => app_status = After(last_status[Ctl])
    /\ pc[Ctl] = 10 => app_status = 4
    /\ pc[Ctl] = 12 => app_status = 5
    /\ pc[Ctl] = 14 => app_status = 6
    /\ last_status' = [last_status EXCEPT ![Ctl] = IF pc[Ctl] \in CtlWaits THEN After(@)
                                                   ELSE IF pc[Ctl] = 14 THEN 6 ELSE @]
CtlNames ==
    /\ IF pc[Ctl] = 16
         THEN /\ names' = names \cup {<<r, buffer[r]>> : r \in tables \ finished}
              /\ finished' = finished \cup {r \in tables \ finished : is_done[r]}
         ELSE UNCHANGED <<names, finished>>
    /\ pc[Ctl] # 5 => tables' = tables
    /\ UNCHANGED <<buffer, is_done, position, chunks>>
CtlGoes ==
    /\ pc[Ctl] <= 20 /\ fate[Ctl] = "running" /\ fate' = fate
    /\ pc' = [pc EXCEPT ![Ctl] = IF pc[Ctl] = 18 /\ finished # tables THEN 14 ELSE pc[Ctl] + 1]
    /\ UNCHANGED <<passed, app_status, all_done>>
    /\ CtlWord /\ CtlNames

\* One that ends the controller.
CtlEnds ==
    /\ \E f : f # "running" /\ fate' = [fate EXCEPT ![Ctl] = f]
    /\ UNCHANGED <<pc, passed, app_status, chunks, nameVars>>
    /\ ctl_status' = ctl_status \/ (pc[Ctl] = 5 /\ ctl_status' = Abort)
    /\ pc[Ctl] # 5 => tables' = tables
    /\ \/ last_status' = last_status
       \/ pc[Ctl] = 21 /\ last_status' = [last_status EXCEPT ![Ctl] = After(@)]

\* A call that returns, by the place.
LEMMA RankReturns ==
    ASSUME TypeInv, NEW r \in Rank, Returns(r)
    PROVE  /\ pc[r] <= 40 => pc' = [pc EXCEPT ![r] = pc[r] + 1] /\ fate' = fate
           /\ pc[r] = 41 => pc' = pc /\ fate' = [fate EXCEPT ![r] = "done"]
<1>1. Len(Script(r)) = 41 /\ pc[r] \in 1 .. 41
  BY Actors, AppCalls, RankTypes
<1>2. CASE pc[r] <= 40
  <2>1. pc[r] < Len(Script(r))
    BY <1>1, <1>2
  <2> QED
    BY <1>1, <1>2, <2>1 DEF Returns
<1>3. CASE pc[r] = 41
  <2>1. ~(pc[r] < Len(Script(r)))
    BY <1>1, <1>3
  <2>2. pc' = pc /\ fate' = [fate EXCEPT ![r] = "done"]
    BY <2>1 DEF Returns
  <2> QED
    BY <1>1, <1>3, <2>2
<1> QED
  BY <1>1, <1>2, <1>3

\* Every call of a rank is one of the two.
LEMMA RankCalls ==
    ASSUME TypeInv, NEW r \in Rank, RankCall(r)
    PROVE  RankGoes(r) \/ RankEnds(r)
<1>1. /\ IsBarrier(pc[r]) <=> pc[r] \in {1, 3, 5, 9, 11, 15, 18, 20, 23, 26, 29, 33, 37, 40}
      /\ r # Ctl /\ pc[r] \in 1 .. 41 /\ pc[r] \in Nat
  BY AppCalls, RankTypes, Actors
<1>2. CASE Step(r)
  <2>1. At(r, "step") /\ Returns(r)
    BY <1>2 DEF Step
  <2>2. pc[r] \in AppSteps /\ fate[r] = "running"
    BY <2>1, AppPlaces
  <2>3. /\ app_status' = IF r = 0 THEN After(app_status) ELSE app_status
        /\ ctl_status' = ctl_status
        /\ UNCHANGED <<last_status, passed, tables, chunks, nameVars>>
    BY <1>1, <1>2 DEF Step, shmemVars, inputVars
  <2>4. CASE pc[r] = 41
    <3>1. pc' = pc /\ fate' = [fate EXCEPT ![r] = "done"]
      BY <2>1, <2>4, RankReturns
    <3>2. \E f : fate' = [fate EXCEPT ![r] = f]
      BY ONLY <3>1
    <3> QED
      BY <2>3, <2>4, <3>1, <3>2 DEF RankEnds, AppEnds
  <2>5. CASE pc[r] # 41
    <3>1. pc' = [pc EXCEPT ![r] = pc[r] + 1] /\ fate' = fate /\ pc[r] <= 40
      BY <1>1, <2>1, <2>5, RankReturns
    <3>2. pc[r] \notin {4, 30, 31, 32, 33, 36} /\ pc[r] \notin AppWaits /\ ~IsBarrier(pc[r])
      BY <1>1, <2>2 DEF AppSteps, AppWaits
    <3>3. RankPlace(r)
      BY <2>3, <3>1, <3>2 DEF RankPlace
    <3>4. RankWord(r)
      <4>1. last_status \in [Actor -> 0 .. Shutdown]
        BY DEF TypeInv, TypeOK
      <4> QED
        BY <2>2, <2>3, <3>2, <4>1 DEF RankWord
    <3>5. RankNames(r)
      BY <2>3, <3>2 DEF RankNames, nameVars
    <3> QED
      BY <2>2, <3>1, <3>3, <3>4, <3>5 DEF RankGoes
  <2> QED
    BY <2>4, <2>5
<1>3. CASE Wait(r)
  <2>1. At(r, "wait") /\ Returns(r)
    BY <1>3 DEF Wait
  <2>2. pc[r] \in AppWaits /\ fate[r] = "running"
    BY <2>1, AppPlaces
  <2>3. /\ ctl_status = After(last_status[r])
        /\ last_status' = [last_status EXCEPT ![r] = After(@)]
        /\ UNCHANGED <<app_status, ctl_status, passed, tables, chunks, nameVars>>
    BY <1>1, <1>3 DEF Wait, Seen, statusVars, shmemVars, inputVars
  <2>4. /\ pc[r] \notin {4, 30, 31, 32, 33, 36} /\ pc[r] \notin AppSteps /\ ~IsBarrier(pc[r])
        /\ pc[r] <= 40
    BY <1>1, <2>2 DEF AppSteps, AppWaits
  <2>5. pc' = [pc EXCEPT ![r] = pc[r] + 1] /\ fate' = fate
    BY <2>1, <2>4, RankReturns
  <2>6. RankPlace(r)
    BY <2>3, <2>4, <2>5 DEF RankPlace
  <2>7. RankWord(r)
    BY <2>2, <2>3, <2>4 DEF RankWord
  <2>8. RankNames(r)
    BY <2>3, <2>4 DEF RankNames, nameVars
  <2> QED
    BY <2>2, <2>4, <2>5, <2>6, <2>7, <2>8 DEF RankGoes
<1>4. CASE WaitAborted(r) \/ TimesOut(r) \/ NoTable(r)
  <2>1. At(r, "wait") \/ At(r, "attach") \/ At(r, "attach_table")
    BY <1>4 DEF WaitAborted, TimesOut, NoTable
  <2>2. pc[r] \in AppEnds
    BY <2>1, AppPlaces DEF AppWaits, AppEnds
  <2>3. Throws(r) /\ UNCHANGED <<statusVars, last_status, passed, shmemVars, inputVars, nameVars>>
    BY <1>4 DEF WaitAborted, TimesOut, NoTable
  <2>4. pc' = pc /\ \E f : fate' = [fate EXCEPT ![r] = f]
    BY <2>3 DEF Throws
  <2> QED
    BY <2>2, <2>3, <2>4 DEF RankEnds, statusVars, shmemVars, inputVars
<1>5. CASE Attaches(r) \/ Map(r) \/ Enable(r) \/ (Check(r) /\ Returns(r))
  <2>1. Returns(r) /\ pc[r] \in AppSilent /\ fate[r] = "running"
    <3>1. \/ At(r, "attach") \/ At(r, "attach_table") \/ At(r, "attach_status")
          \/ At(r, "attach_log") \/ At(r, "map") \/ At(r, "enable") \/ At(r, "check")
      BY <1>5 DEF Attaches, Map, Enable, Check
    <3> QED
      BY <1>5, <3>1, AppPlaces DEF Attaches, Map, Enable
  <2>2. UNCHANGED <<app_status, ctl_status, last_status, passed, tables, chunks, nameVars>>
    BY <1>5 DEF Attaches, Map, Enable, Check, statusVars, shmemVars, inputVars
  <2>3. /\ pc[r] \notin {4, 30, 31, 32, 33, 36} /\ pc[r] \notin AppSteps
        /\ pc[r] \notin AppWaits /\ ~IsBarrier(pc[r]) /\ pc[r] <= 40
    BY <1>1, <2>1 DEF AppSteps, AppWaits, AppSilent
  <2>4. pc' = [pc EXCEPT ![r] = pc[r] + 1] /\ fate' = fate
    BY <2>1, <2>3, RankReturns
  <2>5. RankPlace(r)
    BY <2>2, <2>3, <2>4 DEF RankPlace
  <2>6. RankWord(r)
    <3>1. last_status \in [Actor -> 0 .. Shutdown]
      BY DEF TypeInv, TypeOK
    <3> QED
      BY <2>2, <2>3, <3>1 DEF RankWord
  <2>7. RankNames(r)
    BY <2>2, <2>3 DEF RankNames, nameVars
  <2> QED
    BY <2>1, <2>3, <2>4, <2>5, <2>6, <2>7 DEF RankGoes
<1>6. CASE Check(r) /\ Throws(r)
  <2>1. pc[r] \in AppEnds
    BY <1>6, AppPlaces DEF Check
  <2>2. pc' = pc /\ \E f : fate' = [fate EXCEPT ![r] = f]
    BY <1>6 DEF Throws
  <2> QED
    BY <1>6, <2>1, <2>2 DEF Check, RankEnds, statusVars, shmemVars, inputVars
<1>7. CASE Construct(r)
  <2>1. Returns(r) /\ pc[r] = 4 /\ fate[r] = "running"
    BY <1>7, AppPlaces DEF Construct
  <2>2. /\ app_status' = IF r = 0 THEN 0 ELSE app_status
        /\ ctl_status' = IF r = 0 THEN 0 ELSE ctl_status
        /\ UNCHANGED <<last_status, passed, tables, chunks, nameVars>>
    BY <1>7 DEF Construct, shmemVars, inputVars
  <2>3. pc[r] \notin AppSteps /\ pc[r] \notin AppWaits /\ ~IsBarrier(pc[r]) /\ pc[r] <= 40
    BY <1>1, <2>1 DEF AppSteps, AppWaits
  <2>4. pc' = [pc EXCEPT ![r] = pc[r] + 1] /\ fate' = fate
    BY <2>1, <2>3, RankReturns
  <2>5. RankPlace(r)
    BY <2>1, <2>2, <2>3, <2>4 DEF RankPlace
  <2>6. RankWord(r)
    <3>1. last_status \in [Actor -> 0 .. Shutdown]
      BY DEF TypeInv, TypeOK
    <3> QED
      BY <2>1, <2>2, <2>3, <3>1 DEF RankWord
  <2>7. RankNames(r)
    BY <2>1, <2>2 DEF RankNames, nameVars
  <2> QED
    BY <2>1, <2>3, <2>4, <2>5, <2>6, <2>7 DEF RankGoes
<1>8. CASE LoopSet(r) \/ LoopSpin(r)
  <2>1. /\ Returns(r) /\ fate[r] = "running"
        /\ LoopSet(r) => pc[r] = 30
        /\ LoopSpin(r) => pc[r] = 31
    BY <1>8, AppPlaces DEF LoopSet, LoopSpin
  <2>2. /\ LoopSet(r) => app_status' = 6 /\ last_status' = last_status
        /\ LoopSpin(r) => /\ app_status' = app_status /\ ctl_status = 6
                          /\ last_status' = [last_status EXCEPT ![r] = 6]
        /\ UNCHANGED <<ctl_status, passed, tables, chunks, nameVars>>
    BY <1>8 DEF LoopSet, LoopSpin, LoopBegin, statusVars, shmemVars, inputVars
  <2>3. /\ pc[r] \in {30, 31} /\ pc[r] \notin AppSteps /\ pc[r] \notin AppWaits
        /\ ~IsBarrier(pc[r]) /\ pc[r] <= 40 /\ pc[r] # 36
    BY <1>1, <1>8, <2>1 DEF AppSteps, AppWaits
  <2>4. pc' = [pc EXCEPT ![r] = pc[r] + 1] /\ fate' = fate
    BY <2>1, <2>3, RankReturns
  <2>5. RankPlace(r)
    BY <2>2, <2>3, <2>4 DEF RankPlace
  <2>6. RankWord(r)
    <3>1. last_status \in [Actor -> 0 .. Shutdown]
      BY DEF TypeInv, TypeOK
    <3>2. CASE LoopSet(r)
      BY <2>1, <2>2, <2>3, <3>1, <3>2 DEF RankWord
    <3>3. CASE LoopSpin(r)
      BY <2>1, <2>2, <2>3, <3>1, <3>3 DEF RankWord
    <3> QED
      BY <1>8, <3>2, <3>3
  <2>7. RankNames(r)
    BY <2>2, <2>3 DEF RankNames, nameVars
  <2> QED
    BY <2>1, <2>3, <2>4, <2>5, <2>6, <2>7 DEF RankGoes
<1>9. CASE Barrier(r) \/ Test(r)
  <2>1. /\ Returns(r) /\ fate[r] = "running" /\ IsBarrier(pc[r])
        /\ Barrier(r) => pc[r] # 33
        /\ Test(r) => pc[r] = 33
    <3>1. Barrier(r) => At(r, "barrier") /\ Returns(r)
      BY DEF Barrier
    <3>2. Test(r) => At(r, "test") /\ Returns(r)
      BY DEF Test
    <3> QED
      BY <1>1, <1>9, <3>1, <3>2, AppPlaces
  <2>2. /\ passed' = [passed EXCEPT ![r] = @ + 1]
        /\ UNCHANGED <<app_status, ctl_status, last_status, tables, chunks, buffer, is_done,
                       position, finished, names>>
        /\ Barrier(r) => all_done' = all_done
        /\ Test(r) => all_done' = [all_done EXCEPT ![r] = Everyone]
    BY <1>9 DEF Barrier, Test, Everyone, statusVars, shmemVars, inputVars, nameVars
  <2>3. /\ pc[r] \notin {4, 30, 31, 32, 36} /\ pc[r] \notin AppSteps /\ pc[r] \notin AppWaits
        /\ pc[r] <= 40
    BY <1>1, <2>1 DEF AppSteps, AppWaits
  <2>4. pc' = [pc EXCEPT ![r] = pc[r] + 1] /\ fate' = fate
    BY <2>1, <2>3, RankReturns
  <2>5. RankPlace(r)
    <3>1. \A q \in Rank : passed[q] > passed[r] \/ (passed[q] = passed[r] /\ IsBarrier(pc[q]))
      BY <1>9, BarrierLeaves DEF Leaves
    <3> QED
      BY <2>1, <2>2, <2>3, <2>4, <3>1 DEF RankPlace
  <2>6. RankWord(r)
    <3>1. last_status \in [Actor -> 0 .. Shutdown]
      BY DEF TypeInv, TypeOK
    <3> QED
      BY <2>2, <2>3, <3>1 DEF RankWord
  <2>7. RankNames(r)
    BY <1>9, <2>1, <2>2, <2>3 DEF RankNames
  <2> QED
    BY <2>1, <2>3, <2>4, <2>5, <2>6, <2>7 DEF RankGoes
<1>10. CASE Fill(r)
  <2>1. Returns(r) /\ fate[r] = "running" /\ pc[r] = 32
    BY <1>10, AppPlaces DEF Fill
  <2>2. UNCHANGED <<app_status, ctl_status, last_status, passed, tables, chunks, all_done,
                    finished, names>>
    BY <1>10 DEF Fill, statusVars, shmemVars, inputVars
  <2>3. pc[r] \notin AppSteps /\ pc[r] \notin AppWaits /\ ~IsBarrier(pc[r]) /\ pc[r] <= 40
    BY <1>1, <2>1 DEF AppSteps, AppWaits
  <2>4. pc' = [pc EXCEPT ![r] = pc[r] + 1] /\ fate' = fate
    BY <2>1, <2>3, RankReturns
  <2>5. RankPlace(r)
    BY <2>1, <2>2, <2>3, <2>4 DEF RankPlace
  <2>6. RankWord(r)
    <3>1. last_status \in [Actor -> 0 .. Shutdown]
      BY DEF TypeInv, TypeOK
    <3> QED
      BY <2>1, <2>2, <2>3, <3>1 DEF RankWord
  <2>7. RankNames(r)
    BY <1>10, <2>1, <2>2 DEF RankNames, Fill
  <2> QED
    BY <2>1, <2>3, <2>4, <2>5, <2>6, <2>7 DEF RankGoes
<1>11. CASE Again(r)
  <2>1. fate[r] = "running" /\ pc[r] = 36
    BY <1>11, AppPlaces DEF Again
  <2>2. UNCHANGED <<app_status, ctl_status, last_status, passed, tables, chunks, nameVars>>
    BY <1>11 DEF Again, statusVars, shmemVars, inputVars
  <2>3. pc[r] \notin AppSteps /\ pc[r] \notin AppWaits /\ ~IsBarrier(pc[r]) /\ pc[r] <= 40
    BY <1>1, <2>1 DEF AppSteps, AppWaits
  <2>4. /\ pc' = [pc EXCEPT ![r] = IF pc[r] = 36 /\ ~all_done[r] THEN 29 ELSE pc[r] + 1]
        /\ fate' = fate
    <3>1. CASE all_done[r]
      BY <1>11, <2>1, <2>3, <3>1, RankReturns DEF Again
    <3>2. CASE ~all_done[r]
      BY <1>11, <2>1, <3>2, Places DEF Again, GoesTo
    <3> QED
      BY <3>1, <3>2
  <2>5. RankPlace(r)
    BY <2>2, <2>3, <2>4 DEF RankPlace
  <2>6. RankWord(r)
    <3>1. last_status \in [Actor -> 0 .. Shutdown]
      BY DEF TypeInv, TypeOK
    <3> QED
      BY <2>1, <2>2, <2>3, <3>1 DEF RankWord
  <2>7. RankNames(r)
    BY <2>1, <2>2 DEF RankNames, nameVars
  <2> QED
    BY <2>1, <2>3, <2>4, <2>5, <2>6, <2>7 DEF RankGoes
<1>12. Check(r) => Returns(r) \/ Throws(r)
  BY DEF Check
<1> QED
  BY <1>2, <1>3, <1>4, <1>5, <1>6, <1>7, <1>8, <1>9, <1>10, <1>11, <1>12 DEF RankCall, Either

\* Every call of the controller is one of the two.
LEMMA CtlActs ==
    ASSUME TypeInv, CtlCall \/ Fails
    PROVE  CtlGoes \/ CtlEnds
<1>1. /\ Ctl \in Actor /\ Ctl # 0 /\ pc[Ctl] \in 1 .. 21
      /\ Len(Script(Ctl)) = 21 /\ pc \in [Actor -> Nat]
      /\ last_status \in [Actor -> 0 .. Shutdown]
  BY Actors, CtlCalls, RankTypes DEF Ctl, TypeInv, TypeOK
<1>2. /\ Returns(Ctl) /\ pc[Ctl] <= 20 =>
            pc' = [pc EXCEPT ![Ctl] = pc[Ctl] + 1] /\ fate' = fate
      /\ Returns(Ctl) /\ pc[Ctl] = 21 => pc' = pc /\ fate' = [fate EXCEPT ![Ctl] = "done"]
  <2>1. CASE pc[Ctl] <= 20
    BY <1>1, <2>1 DEF Returns
  <2>2. CASE pc[Ctl] = 21
    BY <1>1, <2>2 DEF Returns
  <2> QED
    BY <1>1, <2>1, <2>2
<1>3. ASSUME Throws(Ctl) \/ Ends(Ctl)
      PROVE  pc' = pc /\ \E f : f # "running" /\ fate' = [fate EXCEPT ![Ctl] = f]
  <2>1. CASE Ends(Ctl)
    <3>1. pc' = pc /\ fate' = [fate EXCEPT ![Ctl] = "done"]
      BY <2>1 DEF Ends
    <3>2. \E f : f # "running" /\ fate' = [fate EXCEPT ![Ctl] = f]
      BY ONLY <3>1
    <3> QED
      BY <3>1, <3>2
  <2>2. CASE Throws(Ctl)
    <3>1. pc' = pc /\ fate' = [fate EXCEPT ![Ctl] = "failed"]
      BY <2>2 DEF Throws
    <3>2. \E f : f # "running" /\ fate' = [fate EXCEPT ![Ctl] = f]
      BY ONLY <3>1
    <3> QED
      BY <3>1, <3>2
  <2> QED
    BY <1>3, <2>1, <2>2
<1>4. CASE Step(Ctl)
  <2>1. Returns(Ctl) /\ pc[Ctl] \in CtlSteps /\ fate[Ctl] = "running"
    BY <1>4, CtlPlaces DEF Step
  <2>2. /\ ctl_status' = After(ctl_status)
        /\ UNCHANGED <<app_status, last_status, passed, tables, chunks, nameVars>>
    BY <1>1, <1>4 DEF Step, shmemVars, inputVars
  <2>3. pc[Ctl] \notin {5, 10, 12, 14, 16, 18} /\ pc[Ctl] \notin CtlWaits /\ pc[Ctl] <= 20
    BY <2>1 DEF CtlSteps, CtlWaits
  <2>4. CtlWord
    BY <1>1, <2>1, <2>2, <2>3 DEF CtlWord
  <2>5. CtlNames
    BY <2>2, <2>3 DEF CtlNames, nameVars
  <2> QED
    BY <1>2, <2>1, <2>2, <2>3, <2>4, <2>5 DEF CtlGoes, nameVars
<1>5. CASE Wait(Ctl)
  <2>1. Returns(Ctl) /\ pc[Ctl] \in CtlWaits /\ fate[Ctl] = "running"
    BY <1>5, CtlPlaces DEF Wait
  <2>2. /\ app_status = After(last_status[Ctl])
        /\ last_status' = [last_status EXCEPT ![Ctl] = After(@)]
        /\ UNCHANGED <<app_status, ctl_status, passed, tables, chunks, nameVars>>
    BY <1>5 DEF Wait, Seen, statusVars, shmemVars, inputVars
  <2>3. pc[Ctl] \notin {5, 10, 12, 14, 16, 18} /\ pc[Ctl] \notin CtlSteps
    BY <2>1 DEF CtlSteps, CtlWaits
  <2>4. CASE pc[Ctl] = 21
    <3>1. pc' = pc /\ fate' = [fate EXCEPT ![Ctl] = "done"]
      BY <1>2, <2>1, <2>4
    <3>2. \E f : f # "running" /\ fate' = [fate EXCEPT ![Ctl] = f]
      BY ONLY <3>1
    <3> QED
      BY <2>2, <2>4, <3>1, <3>2 DEF CtlEnds
  <2>5. CASE pc[Ctl] # 21
    <3>1. CtlWord
      BY <2>1, <2>2, <2>3 DEF CtlWord
    <3>2. CtlNames
      BY <2>2, <2>3 DEF CtlNames, nameVars
    <3>3. pc[Ctl] <= 20
      BY <1>1, <2>5
    <3> QED
      BY <1>2, <2>1, <2>2, <2>3, <3>1, <3>2, <3>3 DEF CtlGoes, nameVars
  <2> QED
    BY <2>4, <2>5
<1>6. CASE \/ WaitAborted(Ctl) \/ TimesOut(Ctl) \/ Fails
           \/ (Update /\ Ends(Ctl)) \/ (Names /\ Ends(Ctl)) \/ (CtlAgain /\ Throws(Ctl))
  <2>1. Throws(Ctl) \/ Ends(Ctl)
    BY <1>6 DEF WaitAborted, TimesOut, Fails
  <2>2. UNCHANGED <<app_status, ctl_status, last_status, passed, tables, chunks, nameVars>>
    BY <1>6 DEF WaitAborted, TimesOut, Fails, Update, Names, CtlAgain, statusVars, shmemVars, inputVars
  <2> QED
    BY <1>3, <2>1, <2>2 DEF CtlEnds
<1>7. CASE CtlLoopBegin
  <2>1. Returns(Ctl) /\ pc[Ctl] = 14 /\ fate[Ctl] = "running"
    BY <1>7, CtlPlaces DEF CtlLoopBegin
  <2>2. /\ app_status = 6 /\ ctl_status' = 6
        /\ last_status' = [last_status EXCEPT ![Ctl] = 6]
        /\ UNCHANGED <<app_status, passed, tables, chunks, nameVars>>
    BY <1>7 DEF CtlLoopBegin, LoopBegin, shmemVars, inputVars
  <2>3. pc[Ctl] \notin CtlSteps /\ pc[Ctl] \notin CtlWaits
    BY <2>1 DEF CtlSteps, CtlWaits
  <2>4. CtlWord
    BY <2>1, <2>2, <2>3 DEF CtlWord
  <2>5. CtlNames
    BY <2>1, <2>2 DEF CtlNames, nameVars
  <2> QED
    BY <1>2, <2>1, <2>2, <2>4, <2>5 DEF CtlGoes, nameVars
<1>8. CASE Create \/ Connect \/ (Update /\ Returns(Ctl)) \/ (Names /\ Returns(Ctl))
           \/ (ReadMap /\ Returns(Ctl) /\ ctl_status' = ctl_status)
  <2>1. /\ Returns(Ctl) /\ fate[Ctl] = "running" /\ pc[Ctl] \in {1, 5, 7, 10, 12}
        /\ Update => pc[Ctl] = 10
        /\ Names => pc[Ctl] = 12
        /\ ReadMap <=> pc[Ctl] = 5
    <3>1. /\ Create => At(Ctl, "create") /\ Returns(Ctl)
          /\ Connect => At(Ctl, "connect") /\ Returns(Ctl)
          /\ Update => At(Ctl, "update")
          /\ Names => At(Ctl, "names")
          /\ ReadMap => At(Ctl, "read_map")
      BY DEF Create, Connect, Update, Names, ReadMap
    <3> QED
      BY <1>8, <3>1, CtlPlaces
  <2>2. /\ UNCHANGED <<app_status, ctl_status, last_status, passed, chunks, nameVars>>
        /\ pc[Ctl] # 5 => tables' = tables
    BY <1>8, <2>1 DEF Create, Connect, Update, Names, ReadMap, statusVars, shmemVars, inputVars
  <2>3. /\ pc[Ctl] = 10 => app_status = 4
        /\ pc[Ctl] = 12 => app_status = 5
    <3>1. CASE Update
      <4>1. app_status = 4 \/ Ends(Ctl)
        BY <3>1 DEF Update, SampleEnd, Shutdown
      <4>2. ~Ends(Ctl)
        BY <1>1, <1>2, <2>1, <3>1 DEF Ends
      <4> QED
        BY <2>1, <3>1, <4>1, <4>2
    <3>2. CASE Names
      <4>1. app_status = 5 \/ Ends(Ctl)
        BY <3>2 DEF Names, NameBegin, Shutdown
      <4>2. ~Ends(Ctl)
        BY <1>1, <1>2, <2>1, <3>2 DEF Ends
      <4> QED
        BY <2>1, <3>2, <4>1, <4>2
    <3>3. CASE ~Update /\ ~Names
      <4>1. /\ Create => At(Ctl, "create")
            /\ Connect => At(Ctl, "connect")
            /\ ReadMap => At(Ctl, "read_map")
        BY DEF Create, Connect, ReadMap
      <4> QED
        BY <1>8, <3>3, <4>1, CtlPlaces
    <3> QED
      BY <3>1, <3>2, <3>3
  <2>4. pc[Ctl] \notin {14, 16, 18} /\ pc[Ctl] <= 20
        /\ pc[Ctl] \notin CtlSteps /\ pc[Ctl] \notin CtlWaits
    BY <2>1 DEF CtlSteps, CtlWaits
  <2>5. CtlWord
    BY <1>1, <2>2, <2>3, <2>4 DEF CtlWord
  <2>6. CtlNames
    BY <2>2, <2>4 DEF CtlNames, nameVars
  <2> QED
    BY <1>2, <2>1, <2>2, <2>4, <2>5, <2>6 DEF CtlGoes, nameVars
<1>9. CASE ReadMap /\ Throws(Ctl) /\ ctl_status' = Abort
  <2>1. pc[Ctl] = 5
    BY <1>9, CtlPlaces DEF ReadMap
  <2>2. UNCHANGED <<app_status, last_status, passed, chunks, nameVars>>
    BY <1>9 DEF ReadMap, inputVars
  <2> QED
    BY <1>3, <1>9, <2>1, <2>2 DEF CtlEnds
<1>10. CASE Collect
  <2>1. Returns(Ctl) /\ pc[Ctl] = 16 /\ fate[Ctl] = "running"
    BY <1>10, CtlPlaces DEF Collect
  <2>2. UNCHANGED <<app_status, ctl_status, last_status, passed, tables, chunks, buffer,
                    position, is_done, all_done>>
    BY <1>10 DEF Collect, statusVars, shmemVars, inputVars
  <2>3. pc[Ctl] \notin CtlSteps /\ pc[Ctl] \notin CtlWaits
    BY <2>1 DEF CtlSteps, CtlWaits
  <2>4. CtlWord
    BY <1>1, <2>1, <2>2, <2>3 DEF CtlWord
  <2>5. CtlNames
    BY <1>10, <2>1, <2>2 DEF CtlNames, Collect
  <2> QED
    BY <1>2, <2>1, <2>2, <2>4, <2>5 DEF CtlGoes
<1>11. CASE CtlAgain /\ ~Throws(Ctl)
  <2>1. fate[Ctl] = "running" /\ pc[Ctl] = 18
    BY <1>11, CtlPlaces DEF CtlAgain
  <2>2. UNCHANGED <<app_status, ctl_status, last_status, passed, tables, chunks, nameVars>>
    BY <1>11 DEF CtlAgain, statusVars, shmemVars, inputVars
  <2>3. pc[Ctl] \notin CtlSteps /\ pc[Ctl] \notin CtlWaits
    BY <2>1 DEF CtlSteps, CtlWaits
  <2>4. /\ pc' = [pc EXCEPT ![Ctl] = IF pc[Ctl] = 18 /\ finished # tables THEN 14
                                     ELSE pc[Ctl] + 1]
        /\ fate' = fate
    <3>1. CASE finished = tables
      BY <1>2, <1>11, <2>1, <3>1 DEF CtlAgain
    <3>2. CASE finished # tables
      BY <1>11, <2>1, <3>2, Places DEF CtlAgain, GoesTo
    <3> QED
      BY <3>1, <3>2
  <2>5. CtlWord
    BY <1>1, <2>1, <2>2, <2>3 DEF CtlWord
  <2>6. CtlNames
    BY <2>1, <2>2 DEF CtlNames, nameVars
  <2> QED
    BY <2>1, <2>2, <2>4, <2>5, <2>6 DEF CtlGoes, nameVars
<1>12. /\ Update => Returns(Ctl) \/ Ends(Ctl)
       /\ Names => Returns(Ctl) \/ Ends(Ctl)
       /\ ReadMap => \/ Throws(Ctl) /\ ctl_status' = Abort
                     \/ Returns(Ctl) /\ ctl_status' = ctl_status
  BY DEF Update, Names, ReadMap
<1> QED
  BY <1>4, <1>5, <1>6, <1>7, <1>8, <1>9, <1>10, <1>11, <1>12 DEF CtlCall, Either

\* Every step is one of the four.
LEMMA StepKinds ==
    ASSUME TypeInv, Next
    PROVE  \/ \E r \in Rank : RankGoes(r) \/ RankEnds(r)
           \/ CtlGoes \/ CtlEnds
BY RankCalls, CtlActs DEF Next

-----------------------------------------------------------------------------
(* Ranks that have passed equally many barriers are on one leg of the way, *)
(* and take the same way at the end of the loop.                           *)

\* The legs between barriers; the loop makes its last leg end in the barrier
\* of place 29, too, and its end in that of place 37.
Leg(i) ==
    IF i = 1 THEN 0 ELSE IF i <= 3 THEN 1 ELSE IF i <= 5 THEN 2 ELSE IF i <= 9 THEN 3
    ELSE IF i <= 11 THEN 4 ELSE IF i <= 15 THEN 5 ELSE IF i <= 18 THEN 6
    ELSE IF i <= 20 THEN 7 ELSE IF i <= 23 THEN 8 ELSE IF i <= 26 THEN 9
    ELSE IF i <= 29 THEN 10 ELSE IF i <= 33 THEN 11 ELSE IF i <= 37 THEN 12
    ELSE IF i <= 40 THEN 13 ELSE 14
InLeg(i, j) ==
    Leg(i) = Leg(j) \/ (i = 29 /\ j \in 34 .. 36) \/ (j = 29 /\ i \in 34 .. 36)

\* A rank one barrier ahead is on the leg behind it.
Together ==
    \A r, q \in Rank :
        /\ passed[r] = passed[q] => InLeg(pc[r], pc[q])
        /\ passed[r] = passed[q] + 1 => InLeg(pc[q] + 1, pc[r])

\* What test() told the ranks: the same to all of them in a round.
DoneAlike ==
    \A r, q \in Rank :
        /\ pc[r] <= 33 => ~all_done[r]
        /\ pc[r] >= 37 => all_done[r]
        /\ passed[r] = passed[q] => (all_done[r] <=> all_done[q])
        /\ pc[r] = 33 /\ passed[q] = passed[r] + 1 => (all_done[q] <=> Everyone)

\* A rank stops at a call that may throw, or at the end.
Ended == \A r \in Rank : fate[r] # "running" => pc[r] \in AppEnds

Aligned == Pace /\ Together /\ DoneAlike /\ Ended

\* A call that goes on, for each rank.
LEMMA GoingOn ==
    ASSUME TypeInv, NEW r \in Rank, RankGoes(r)
    PROVE  /\ pc'[r] = IF pc[r] = 36 /\ ~all_done[r] THEN 29 ELSE pc[r] + 1
           /\ pc'[Ctl] = pc[Ctl] /\ last_status'[Ctl] = last_status[Ctl]
           /\ \A q \in Rank \ {r} : /\ pc'[q] = pc[q] /\ passed'[q] = passed[q]
                                    /\ last_status'[q] = last_status[q]
                                    /\ all_done'[q] = all_done[q]
           /\ passed'[r] = IF IsBarrier(pc[r]) THEN passed[r] + 1 ELSE passed[r]
           /\ last_status'[r] = IF pc[r] \in AppWaits THEN After(last_status[r])
                                ELSE IF pc[r] = 31 THEN 6 ELSE last_status[r]
           /\ all_done'[r] = IF pc[r] = 33 THEN Everyone ELSE all_done[r]
           /\ IsBarrier(pc[r]) <=> pc[r] \in AppBarriers
           /\ pc[r] \in 1 .. 40
<1>1. /\ r \in Actor /\ Ctl \in Actor /\ r # Ctl /\ Rank \subseteq Actor /\ Ctl \notin Rank
      /\ pc[r] \in 1 .. 41 /\ pc \in [Actor -> Nat] /\ passed \in [Rank -> Nat]
      /\ last_status \in [Actor -> 0 .. Shutdown] /\ all_done \in [Rank -> BOOLEAN]
  BY Actors, RankTypes DEF TypeInv, TypeOK
<1>2. /\ pc[r] \in 1 .. 40
      /\ IsBarrier(pc[r]) <=> pc[r] \in AppBarriers
  BY <1>1, AppCalls DEF RankGoes, AppBarriers
<1>3. /\ pc'[r] = IF pc[r] = 36 /\ ~all_done[r] THEN 29 ELSE pc[r] + 1
      /\ pc'[Ctl] = pc[Ctl]
      /\ \A q \in Rank \ {r} : pc'[q] = pc[q]
  BY ONLY <1>1, RankGoes(r) DEF RankGoes, RankPlace
<1>4. /\ \A q \in Rank \ {r} : passed'[q] = passed[q]
      /\ passed'[r] = IF IsBarrier(pc[r]) THEN passed[r] + 1 ELSE passed[r]
  BY ONLY <1>1, RankGoes(r) DEF RankGoes, RankPlace
<1>5. /\ last_status'[Ctl] = last_status[Ctl]
      /\ \A q \in Rank \ {r} : last_status'[q] = last_status[q]
      /\ last_status'[r] = IF pc[r] \in AppWaits THEN After(last_status[r])
                           ELSE IF pc[r] = 31 THEN 6 ELSE last_status[r]
  BY ONLY <1>1, RankGoes(r) DEF RankGoes, RankWord
<1>6. /\ \A q \in Rank \ {r} : all_done'[q] = all_done[q]
      /\ all_done'[r] = IF pc[r] = 33 THEN Everyone ELSE all_done[r]
  BY ONLY <1>1, RankGoes(r) DEF RankGoes, RankNames
<1> QED
  BY ONLY <1>2, <1>3, <1>4, <1>5, <1>6

\* The barrier a rank leaves, and the call of one that is at none.
LEMMA Ahead ==
    ASSUME TypeInv, Pace, NEW r \in Rank, RankGoes(r), NEW q \in Rank \ {r}
    PROVE  /\ ~IsBarrier(pc[r]) => passed[q] = passed[r] \/ passed[r] = passed[q] + 1
           /\ IsBarrier(pc[r]) => \/ passed[q] = passed[r] + 1
                                  \/ passed[q] = passed[r] /\ IsBarrier(pc[q])
<1>1. passed[r] \in Nat /\ passed[q] \in Nat
  BY RankTypes
<1>2. /\ passed[r] > passed[q] => passed[r] = passed[q] + 1
      /\ passed[q] > passed[r] => passed[q] = passed[r] + 1 /\ IsBarrier(pc[r])
  BY DEF Pace
<1>3. IsBarrier(pc[r]) => passed[q] > passed[r] \/ (passed[q] = passed[r] /\ IsBarrier(pc[q]))
  BY DEF RankGoes, RankPlace
<1> QED
  BY ONLY <1>1, <1>2, <1>3

\* The legs of two ranks when one of them goes on.
LEMMA LegOn ==
    ASSUME NEW i \in 1 .. 40, NEW j \in 1 .. 41
    PROVE  /\ i \notin AppBarriers /\ InLeg(i, j)
                => /\ ~(i = 36 /\ j = 29) => InLeg(i + 1, j)
                   /\ i = 36 /\ j # 37 => InLeg(29, j)
           /\ InLeg(j + 1, i) /\ i \notin AppBarriers /\ j \in AppBarriers
                => /\ InLeg(j + 1, i + 1)
                   /\ i = 36 => InLeg(j + 1, 29)
           /\ i \in AppBarriers /\ j \in AppBarriers /\ InLeg(i, j) => i = j
           /\ InLeg(i, j) => InLeg(j, i)
           /\ InLeg(j, j)
<1>1. InLeg(j, j) /\ (InLeg(i, j) => InLeg(j, i))
  BY DEF InLeg
<1>2. i \notin AppBarriers /\ i # 36 => Leg(i + 1) = Leg(i)
  BY DEF Leg, AppBarriers
<1>3. i \notin AppBarriers => i # 29
  BY DEF AppBarriers
<1>4. ASSUME i \notin AppBarriers, InLeg(i, j), ~(i = 36 /\ j = 29)
      PROVE  InLeg(i + 1, j)
  <2>1. CASE i = 36
    <3>1. Leg(j) = 12
      BY <1>4, <2>1 DEF InLeg, Leg
    <3>2. Leg(37) = 12
      BY DEF Leg
    <3> QED
      BY <2>1, <3>1, <3>2 DEF InLeg
  <2>2. CASE i # 36
    <3>1. i \in 34 .. 36 => i + 1 \in 34 .. 36
      BY <2>2
    <3> QED
      BY <1>2, <1>3, <1>4, <2>2, <3>1 DEF InLeg
  <2> QED
    BY <2>1, <2>2
<1>5. ASSUME i = 36, InLeg(i, j), j # 37
      PROVE  InLeg(29, j)
  <2>1. j = 29 \/ j \in 34 .. 36
    BY <1>5 DEF InLeg, Leg
  <2> QED
    BY <1>1, <2>1 DEF InLeg
<1>6. ASSUME InLeg(j + 1, i), i \notin AppBarriers, j \in AppBarriers
      PROVE  InLeg(j + 1, i + 1) /\ (i = 36 => InLeg(j + 1, 29))
  <2>1. CASE i = 36
    <3>1. j = 33
      BY <1>6, <2>1 DEF InLeg, Leg, AppBarriers
    <3>2. Leg(34) = 12 /\ Leg(37) = 12
      BY DEF Leg
    <3> QED
      BY <2>1, <3>1, <3>2 DEF InLeg
  <2>2. CASE i # 36
    <3>1. j + 1 # 29
      BY <1>6 DEF AppBarriers
    <3>2. Leg(j + 1) = Leg(i)
      BY <1>3, <1>6, <3>1 DEF InLeg
    <3> QED
      BY <1>2, <1>6, <2>2, <3>2 DEF InLeg
  <2> QED
    BY <2>1, <2>2
<1>7. ASSUME i \in AppBarriers, j \in AppBarriers, InLeg(i, j)
      PROVE  i = j
  <2>1. Leg(i) = Leg(j)
    BY <1>7 DEF InLeg, AppBarriers
  <2> QED
    BY <1>7, <2>1 DEF Leg, AppBarriers
<1>8. i \notin AppBarriers /\ InLeg(i, j) =>
         (~(i = 36 /\ j = 29) => InLeg(i + 1, j)) /\ (i = 36 /\ j # 37 => InLeg(29, j))
  BY ONLY <1>4, <1>5
<1>9. InLeg(j + 1, i) /\ i \notin AppBarriers /\ j \in AppBarriers =>
         InLeg(j + 1, i + 1) /\ (i = 36 => InLeg(j + 1, 29))
  BY ONLY <1>6
<1>10. i \in AppBarriers /\ j \in AppBarriers /\ InLeg(i, j) => i = j
  BY ONLY <1>7
<1> QED
  BY ONLY <1>1, <1>8, <1>9, <1>10

\* What two ranks know of each other, one of them going on.
LEMMA TogetherOn ==
    ASSUME TypeInv, Pace, Together, DoneAlike, NEW r \in Rank, RankGoes(r), NEW q \in Rank \ {r}
    PROVE  /\ passed'[r] = passed'[q] => InLeg(pc'[r], pc'[q]) /\ InLeg(pc'[q], pc'[r])
           /\ passed'[r] = passed'[q] + 1 => InLeg(pc'[q] + 1, pc'[r])
           /\ passed'[q] = passed'[r] + 1 => InLeg(pc'[r] + 1, pc'[q])
<1>1. /\ passed[r] \in Nat /\ passed[q] \in Nat /\ pc[q] \in 1 .. 41 /\ pc[r] \in 1 .. 40
      /\ IsBarrier(pc[r]) <=> pc[r] \in AppBarriers
      /\ IsBarrier(pc[q]) => pc[q] \in AppBarriers
      /\ pc'[q] = pc[q] /\ passed'[q] = passed[q]
      /\ pc'[r] = IF pc[r] = 36 /\ ~all_done[r] THEN 29 ELSE pc[r] + 1
      /\ passed'[r] = IF IsBarrier(pc[r]) THEN passed[r] + 1 ELSE passed[r]
      /\ r \in Rank /\ q \in Rank
  BY RankTypes, GoingOn, AppCalls DEF AppBarriers
<1>2. /\ passed[r] = passed[q] => InLeg(pc[r], pc[q])
      /\ passed[r] = passed[q] + 1 => InLeg(pc[q] + 1, pc[r])
      /\ passed[q] = passed[r] + 1 => InLeg(pc[r] + 1, pc[q])
  BY DEF Together
<1>3. CASE ~IsBarrier(pc[r])
  <2>1. passed'[r] = passed[r] /\ (passed[q] = passed[r] \/ passed[r] = passed[q] + 1)
    <3>1. passed[q] = passed[r] \/ passed[r] = passed[q] + 1
      BY <1>3, Ahead
    <3> QED
      BY ONLY <1>1, <1>3, <3>1
  <2>2. CASE passed[q] = passed[r]
    <3>1. /\ pc[r] = 36 /\ pc[q] = 29 => ~all_done[r]
          /\ pc[q] = 37 => all_done[r]
      <4>1. /\ pc[q] <= 33 => ~all_done[q]
            /\ pc[q] >= 37 => all_done[q]
            /\ all_done[r] <=> all_done[q]
        BY ONLY DoneAlike, <1>1, <2>2 DEF DoneAlike
      <4> QED
        BY ONLY <4>1
    <3>2. InLeg(pc'[r], pc[q])
      <4>1. pc[r] \notin AppBarriers /\ InLeg(pc[r], pc[q])
        BY ONLY <1>1, <1>2, <1>3, <2>2
      <4>2. /\ ~(pc[r] = 36 /\ pc[q] = 29) => InLeg(pc[r] + 1, pc[q])
            /\ pc[r] = 36 /\ pc[q] # 37 => InLeg(29, pc[q])
        BY ONLY <1>1, <4>1, LegOn, ZenonT(60)
      <4>3. CASE pc[r] = 36 /\ ~all_done[r]
        BY ONLY <1>1, <3>1, <4>2, <4>3
      <4>4. CASE ~(pc[r] = 36 /\ ~all_done[r])
        BY ONLY <1>1, <3>1, <4>2, <4>4
      <4> QED
        BY ONLY <4>3, <4>4
    <3>3. InLeg(pc[q], pc'[r])
      BY ONLY <3>2 DEF InLeg
    <3> QED
      BY ONLY <1>1, <2>1, <2>2, <3>2, <3>3
  <2>3. CASE passed[r] = passed[q] + 1
    <3>1. IsBarrier(pc[q])
      BY ONLY Pace, <1>1, <2>3 DEF Pace
    <3>2. pc[q] \in AppBarriers /\ pc[r] \notin AppBarriers /\ InLeg(pc[q] + 1, pc[r])
      BY ONLY <1>1, <1>2, <1>3, <2>3, <3>1
    <3>3. InLeg(pc[q] + 1, pc[r] + 1) /\ (pc[r] = 36 => InLeg(pc[q] + 1, 29))
      BY ONLY <1>1, <3>2, LegOn, ZenonT(60)
    <3>4. InLeg(pc[q] + 1, pc'[r])
      BY ONLY <1>1, <3>3
    <3> QED
      BY ONLY <1>1, <2>1, <2>3, <3>4
  <2> QED
    BY ONLY <2>1, <2>2, <2>3
<1>4. CASE IsBarrier(pc[r])
  <2>1. /\ passed'[r] = passed[r] + 1
        /\ pc'[r] = pc[r] + 1
    BY ONLY <1>1, <1>4 DEF AppBarriers
  <2>2. CASE passed[q] = passed[r] + 1
    <3>1. InLeg(pc[r] + 1, pc[q])
      BY ONLY <1>2, <2>2
    <3>2. InLeg(pc[q], pc[r] + 1)
      BY ONLY <3>1 DEF InLeg
    <3> QED
      BY ONLY <1>1, <2>1, <2>2, <3>1, <3>2
  <2>3. CASE passed[q] = passed[r] /\ IsBarrier(pc[q])
    <3>1. pc[q] = pc[r]
      <4>1. pc[r] \in AppBarriers /\ pc[q] \in AppBarriers /\ InLeg(pc[r], pc[q])
        BY ONLY <1>1, <1>2, <1>4, <2>3
      <4> QED
        BY ONLY <1>1, <4>1, LegOn, ZenonT(60)
    <3>2. InLeg(pc[q] + 1, pc'[r])
      BY ONLY <2>1, <3>1 DEF InLeg
    <3> QED
      BY ONLY <1>1, <2>1, <2>3, <3>2
  <2> QED
    <3>1. \/ passed[q] = passed[r] + 1
          \/ passed[q] = passed[r] /\ IsBarrier(pc[q])
      BY <1>4, Ahead
    <3> QED
      BY ONLY <2>2, <2>3, <3>1
<1> QED
  BY <1>3, <1>4

\* What test() told them.
LEMMA DoneOn ==
    ASSUME TypeInv, Pace, Together, DoneAlike, NEW r \in Rank, RankGoes(r), NEW q \in Rank \ {r}
    PROVE  /\ pc'[r] <= 33 => ~all_done'[r]
           /\ pc'[r] >= 37 => all_done'[r]
           /\ passed'[r] = passed'[q] => (all_done'[r] <=> all_done'[q])
           /\ pc'[r] = 33 => passed'[q] # passed'[r] + 1
           /\ pc'[q] = 33 /\ passed'[r] = passed'[q] + 1 => (all_done'[r] <=> Everyone)
<1>1. /\ passed[r] \in Nat /\ passed[q] \in Nat /\ pc[q] \in 1 .. 41 /\ pc[r] \in 1 .. 40
      /\ IsBarrier(pc[r]) <=> pc[r] \in AppBarriers
      /\ IsBarrier(pc[q]) => pc[q] \in AppBarriers
      /\ pc'[q] = pc[q] /\ passed'[q] = passed[q] /\ all_done'[q] = all_done[q]
      /\ pc'[r] = IF pc[r] = 36 /\ ~all_done[r] THEN 29 ELSE pc[r] + 1
      /\ passed'[r] = IF IsBarrier(pc[r]) THEN passed[r] + 1 ELSE passed[r]
      /\ all_done'[r] = IF pc[r] = 33 THEN Everyone ELSE all_done[r]
      /\ all_done[r] \in BOOLEAN /\ all_done[q] \in BOOLEAN /\ Everyone \in BOOLEAN
      /\ r \in Rank /\ q \in Rank
  <2>1. /\ passed[r] \in Nat /\ passed[q] \in Nat /\ pc[q] \in 1 .. 41
        /\ IsBarrier(pc[q]) => pc[q] \in AppBarriers
    BY RankTypes, AppCalls DEF AppBarriers
  <2>2. all_done[r] \in BOOLEAN /\ all_done[q] \in BOOLEAN /\ Everyone \in BOOLEAN
    BY DEF TypeInv, TypeOK, Everyone
  <2>3. /\ pc[r] \in 1 .. 40
        /\ IsBarrier(pc[r]) <=> pc[r] \in AppBarriers
        /\ pc'[r] = IF pc[r] = 36 /\ ~all_done[r] THEN 29 ELSE pc[r] + 1
        /\ passed'[r] = IF IsBarrier(pc[r]) THEN passed[r] + 1 ELSE passed[r]
        /\ all_done'[r] = IF pc[r] = 33 THEN Everyone ELSE all_done[r]
        /\ pc'[q] = pc[q] /\ passed'[q] = passed[q] /\ all_done'[q] = all_done[q]
    BY GoingOn
  <2> QED
    BY ONLY <2>1, <2>2, <2>3, r \in Rank, q \in Rank
<1>2. /\ pc[r] <= 33 => ~all_done[r]
      /\ pc[r] >= 37 => all_done[r]
      /\ pc[q] <= 33 => ~all_done[q]
      /\ pc[q] >= 37 => all_done[q]
      /\ passed[r] = passed[q] => (all_done[r] <=> all_done[q])
      /\ pc[r] = 33 /\ passed[q] = passed[r] + 1 => (all_done[q] <=> Everyone)
      /\ pc[q] = 33 /\ passed[r] = passed[q] + 1 => (all_done[r] <=> Everyone)
  BY DEF DoneAlike
<1>3. pc[r] = 33 => pc'[r] = 34 /\ passed'[r] = passed[r] + 1
  BY ONLY <1>1 DEF AppBarriers
<1>4. /\ pc'[r] <= 33 => ~all_done'[r]
      /\ pc'[r] >= 37 => all_done'[r]
  <2>1. CASE pc[r] = 36
    <3>1. pc'[r] = IF all_done[r] THEN 37 ELSE 29
      BY ONLY <1>1, <2>1
    <3>2. all_done'[r] = all_done[r]
      BY ONLY <1>1, <2>1
    <3> QED
      BY ONLY <1>1, <3>1, <3>2
  <2>2. CASE pc[r] # 36 /\ pc[r] # 33
    <3>1. pc'[r] = pc[r] + 1 /\ all_done'[r] = all_done[r]
      BY ONLY <1>1, <2>2
    <3>2. /\ pc[r] + 1 <= 33 => ~all_done[r]
          /\ pc[r] + 1 >= 37 => all_done[r]
      BY ONLY <1>1, <1>2, <2>2
    <3> QED
      BY ONLY <3>1, <3>2
  <2> QED
    BY ONLY <1>3, <2>1, <2>2
<1>5. CASE ~IsBarrier(pc[r])
  <2>1. passed[q] = passed[r] \/ passed[r] = passed[q] + 1
    BY <1>5, Ahead
  <2>2. pc[r] # 33 /\ passed'[r] = passed[r]
    BY ONLY <1>1, <1>5 DEF AppBarriers
  <2>3. all_done'[r] = all_done[r]
    BY ONLY <1>1, <2>2
  <2>4. pc'[r] = 33 => passed'[q] # passed'[r] + 1
    BY ONLY <1>1, <2>1, <2>2
  <2>5. /\ passed'[r] = passed'[q] => (all_done'[r] <=> all_done'[q])
        /\ pc'[q] = 33 /\ passed'[r] = passed'[q] + 1 => (all_done'[r] <=> Everyone)
    BY ONLY <1>1, <1>2, <2>2, <2>3
  <2> QED
    BY ONLY <1>4, <2>4, <2>5
<1>6. CASE IsBarrier(pc[r])
  <2>1. passed[q] = passed[r] + 1 \/ (passed[q] = passed[r] /\ IsBarrier(pc[q]))
    BY <1>6, Ahead
  <2>2. /\ pc[r] \in AppBarriers /\ pc[r] # 32
        /\ passed'[r] = passed[r] + 1 /\ pc'[r] = pc[r] + 1
    BY ONLY <1>1, <1>6 DEF AppBarriers
  <2>3. /\ pc[r] = 33 => all_done'[r] = Everyone
        /\ pc[r] # 33 => all_done'[r] = all_done[r]
    BY ONLY <1>1
  <2>4. ASSUME passed[q] = passed[r] + 1
        PROVE  all_done'[r] <=> all_done[q]
    <3>1. CASE pc[r] = 33
      BY ONLY <1>1, <1>2, <2>3, <2>4, <3>1
    <3>2. CASE pc[r] # 33
      <4>1. InLeg(pc[r] + 1, pc[q])
        BY <2>4 DEF Together
      <4>2. Leg(pc[r] + 1) = Leg(pc[q])
        BY ONLY <1>1, <2>2, <3>2, <4>1 DEF InLeg, AppBarriers
      <4>3. \/ pc[r] <= 33 /\ pc[q] <= 33
            \/ pc[r] >= 37 /\ pc[q] >= 37
        BY ONLY <1>1, <2>2, <3>2, <4>2 DEF Leg, AppBarriers
      <4> QED
        BY ONLY <1>2, <2>3, <3>2, <4>3
    <3> QED
      BY ONLY <3>1, <3>2
  <2>5. ASSUME passed[q] = passed[r], pc[q] = 33, IsBarrier(pc[q])
        PROVE  all_done'[r] <=> Everyone
    <3>1. InLeg(pc[r], pc[q]) /\ pc[q] \in AppBarriers
      BY <1>1, <2>5 DEF Together
    <3>2. pc[r] = pc[q]
      BY ONLY <1>1, <2>2, <3>1, LegOn, ZenonT(60)
    <3> QED
      BY ONLY <2>3, <2>5, <3>2
  <2>6. passed'[r] = passed'[q] => (all_done'[r] <=> all_done'[q])
    BY ONLY <1>1, <2>1, <2>2, <2>4
  <2>7. pc'[r] = 33 => passed'[q] # passed'[r] + 1
    BY ONLY <1>1, <2>2
  <2>8. pc'[q] = 33 /\ passed'[r] = passed'[q] + 1 => (all_done'[r] <=> Everyone)
    BY ONLY <1>1, <2>1, <2>2, <2>5
  <2> QED
    BY ONLY <1>4, <2>6, <2>7, <2>8
<1> QED
  BY <1>5, <1>6

\* No rank fills its table while another has left test().
LEMMA NobodyFillsAtTest ==
    ASSUME TypeInv, Pace, Together, NEW p \in Rank, NEW r \in Rank, NEW q \in Rank,
           pc[p] = 32, pc[r] = 33
    PROVE  passed[q] # passed[r] + 1
<1> SUFFICES ASSUME passed[q] = passed[r] + 1 PROVE FALSE
  OBVIOUS
<1>1. passed[p] \in Nat /\ passed[q] \in Nat /\ passed[r] \in Nat
  BY RankTypes
<1>2. ~IsBarrier(32)
  BY AppCalls
<1>3. ~(passed[q] > passed[p])
  BY <1>2 DEF Pace
<1>4. passed[p] = passed[r] + 1
  BY <1>1, <1>3 DEF Pace
<1>5. InLeg(34, 32)
  BY <1>4 DEF Together
<1> QED
  BY <1>5 DEF InLeg, Leg

\* The ranks stay aligned.
LEMMA AlignedKept ==
    ASSUME TypeInv, Count, Aligned, Next, TypeInv'
    PROVE  Aligned'
<1>1. Pace'
  BY OrderKept DEF Aligned
<1>2. \A q \in Rank : pc[q] \in 1 .. 41 /\ passed[q] \in Nat /\ passed[q] # passed[q] + 1
                      /\ passed'[q] \in Nat /\ passed'[q] # passed'[q] + 1
  BY RankTypes DEF TypeInv, TypeOK
<1>3. /\ \A q \in Rank : fate[q] # "running" => pc[q] \in AppEnds
      /\ fate \in [Actor -> {"running", "off", "done", "failed"}] /\ Rank \subseteq Actor
      /\ Ctl \notin Rank /\ Ctl \in Actor
  BY Actors DEF Aligned, Ended, TypeInv, TypeOK
<1>4. ASSUME UNCHANGED <<pc, passed, all_done, is_done>>
      PROVE  Together' /\ DoneAlike'
  <2>1. Together'
    BY <1>4 DEF Aligned, Together, InLeg, Leg
  <2>2. DoneAlike'
    BY <1>4 DEF Aligned, DoneAlike, Everyone
  <2> QED
    BY <2>1, <2>2
<1>5. ASSUME NEW r \in Rank, RankGoes(r) PROVE Aligned'
  <2>1. /\ Pace /\ Together /\ DoneAlike
        /\ \A q \in Rank \ {r} : pc'[q] = pc[q] /\ passed'[q] = passed[q]
                                 /\ all_done'[q] = all_done[q]
        /\ fate' = fate /\ fate[r] = "running"
    BY <1>5, GoingOn DEF Aligned, RankGoes
  <2>2. Together'
    <3> SUFFICES ASSUME NEW p \in Rank, NEW q \in Rank
                 PROVE  /\ passed'[p] = passed'[q] => InLeg(pc'[p], pc'[q])
                        /\ passed'[p] = passed'[q] + 1 => InLeg(pc'[q] + 1, pc'[p])
      BY DEF Together, InLeg, Leg
    <3>1. CASE p # r /\ q # r
      BY <2>1, <3>1 DEF Together
    <3>2. CASE p = r /\ q # r
      BY <1>5, <2>1, <3>2, TogetherOn
    <3>3. CASE p # r /\ q = r
      BY <1>5, <2>1, <3>3, TogetherOn
    <3>4. CASE p = r /\ q = r
      BY <1>2, <3>4 DEF InLeg
    <3> QED
      BY <3>1, <3>2, <3>3, <3>4
  <2>3. \A p \in Rank : (pc'[p] <= 33 => ~all_done'[p]) /\ (pc'[p] >= 37 => all_done'[p])
    <3> SUFFICES ASSUME NEW p \in Rank
                 PROVE  (pc'[p] <= 33 => ~all_done'[p]) /\ (pc'[p] >= 37 => all_done'[p])
      OBVIOUS
    <3>1. CASE p # r
      BY <2>1, <3>1 DEF DoneAlike
    <3>2. CASE p = r
      <4>1. /\ pc'[r] = IF pc[r] = 36 /\ ~all_done[r] THEN 29 ELSE pc[r] + 1
            /\ all_done'[r] = IF pc[r] = 33 THEN Everyone ELSE all_done[r]
            /\ pc[r] \in 1 .. 40
        BY <1>5, GoingOn
      <4>2. /\ pc[r] <= 33 => ~all_done[r]
            /\ pc[r] >= 37 => all_done[r]
        BY <2>1 DEF DoneAlike
      <4>3. CASE pc[r] = 33
        <5>1. pc'[r] = 34
          BY ONLY <4>1, <4>3
        <5> QED
          BY ONLY <3>2, <5>1
      <4>4. CASE pc[r] = 36
        <5>1. CASE all_done[r]
          <6>1. pc'[r] = 37 /\ all_done'[r] = all_done[r]
            BY ONLY <4>1, <4>4, <5>1
          <6> QED
            BY ONLY <3>2, <5>1, <6>1
        <5>2. CASE ~all_done[r]
          <6>1. pc'[r] = 29 /\ all_done'[r] = all_done[r]
            BY ONLY <4>1, <4>4, <5>2
          <6> QED
            BY ONLY <3>2, <5>2, <6>1
        <5> QED
          BY ONLY <5>1, <5>2
      <4>5. CASE pc[r] # 36 /\ pc[r] # 33
        <5>1. pc'[r] = pc[r] + 1 /\ all_done'[r] = all_done[r]
          BY ONLY <4>1, <4>5
        <5>2. /\ pc[r] + 1 <= 33 => ~all_done[r]
              /\ pc[r] + 1 >= 37 => all_done[r]
          BY ONLY <4>1, <4>2, <4>5
        <5> QED
          BY <3>2, <5>1, <5>2
      <4> QED
        BY ONLY <4>3, <4>4, <4>5
    <3> QED
      BY <3>1, <3>2
  <2>4. ASSUME NEW p \in Rank, NEW q \in Rank, passed'[p] = passed'[q]
        PROVE  all_done'[p] <=> all_done'[q]
    <3>1. CASE p # r /\ q # r
      BY <2>1, <2>4, <3>1 DEF DoneAlike
    <3>2. CASE p = r /\ q # r
      BY <1>5, <2>1, <2>4, <3>2, DoneOn
    <3>3. CASE p # r /\ q = r
      BY <1>5, <2>1, <2>4, <3>3, DoneOn
    <3> QED
      BY <3>1, <3>2, <3>3
  <2>5. ASSUME NEW p \in Rank, NEW q \in Rank, pc'[p] = 33, passed'[q] = passed'[p] + 1
        PROVE  all_done'[q] <=> Everyone'
    <3>1. p # q
      BY <1>2, <2>5
    <3>2. p # r
      BY <1>5, <2>1, <2>5, <3>1, DoneOn
    <3>3. pc[p] = 33 /\ passed'[p] = passed[p]
      BY <2>1, <2>5, <3>2
    <3>4. Everyone' <=> Everyone
      <4>1. CASE pc[r] = 32
        <5>1. q # r
          <6>1. ~IsBarrier(32)
            BY AppCalls
          <6>2. passed'[r] = passed[r]
            BY <1>5, <4>1, <6>1, GoingOn
          <6> QED
            BY <2>1, <2>5, <3>3, <4>1, <6>2, NobodyFillsAtTest
        <5>2. passed[q] = passed[p] + 1
          BY <2>1, <2>5, <3>3, <5>1
        <5> QED
          BY <2>1, <3>3, <4>1, <5>2, NobodyFillsAtTest
      <4>2. CASE pc[r] # 32
        BY <1>5, <4>2 DEF RankGoes, RankNames, Everyone
      <4> QED
        BY <4>1, <4>2
    <3>5. CASE q # r
      BY <2>1, <2>5, <3>3, <3>4, <3>5 DEF DoneAlike
    <3>6. CASE q = r
      BY <1>5, <2>1, <2>5, <3>2, <3>3, <3>4, <3>6, DoneOn
    <3> QED
      BY <3>5, <3>6
  <2>6. DoneAlike'
    BY <2>3, <2>4, <2>5 DEF DoneAlike, Everyone
  <2>7. Ended'
    BY <1>3, <2>1 DEF Ended, AppEnds
  <2> QED
    BY <1>1, <2>2, <2>6, <2>7 DEF Aligned
<1>6. ASSUME NEW r \in Rank, RankEnds(r) PROVE Aligned'
  <2>1. /\ UNCHANGED <<pc, passed, all_done, is_done>> /\ pc[r] \in AppEnds
        /\ \E f : fate' = [fate EXCEPT ![r] = f]
    BY <1>6 DEF RankEnds, nameVars
  <2>2. Ended'
    BY <1>3, <2>1 DEF Ended, AppEnds
  <2> QED
    BY <1>1, <1>4, <2>1, <2>2 DEF Aligned
<1>7. ASSUME CtlEnds PROVE Aligned'
  <2>1. UNCHANGED <<pc, passed, all_done, is_done>> /\ \E f : fate' = [fate EXCEPT ![Ctl] = f]
    BY <1>7 DEF CtlEnds, nameVars
  <2>2. Ended'
    BY <1>3, <2>1 DEF Ended, AppEnds
  <2> QED
    BY <1>1, <1>4, <2>1, <2>2 DEF Aligned
<1>8. ASSUME CtlGoes PROVE Aligned'
  <2>1. /\ \A q \in Rank : pc'[q] = pc[q]
        /\ UNCHANGED <<passed, all_done, is_done, fate>>
    BY <1>3, <1>8, RankTypes DEF CtlGoes, CtlNames
  <2>2. Together'
    <3> SUFFICES ASSUME NEW p \in Rank, NEW q \in Rank
                 PROVE  /\ passed'[p] = passed'[q] => InLeg(pc'[p], pc'[q])
                        /\ passed'[p] = passed'[q] + 1 => InLeg(pc'[q] + 1, pc'[p])
      BY DEF Together, InLeg, Leg
    <3> QED
      BY <2>1 DEF Aligned, Together
  <2>3. DoneAlike'
    BY <2>1 DEF Aligned, DoneAlike, Everyone
  <2>4. Ended'
    BY <1>3, <2>1 DEF Ended, AppEnds
  <2> QED
    BY <1>1, <2>2, <2>3, <2>4 DEF Aligned
<1> QED
  BY <1>5, <1>6, <1>7, <1>8, StepKinds

\* The ranks are aligned, whatever happens.
LEMMA AlignedInvariance == Spec => []Aligned
<1>1. Init => Aligned
  <2> SUFFICES ASSUME Init PROVE Aligned
    OBVIOUS
  <2>1. \A r \in Rank : pc[r] = 1 /\ passed[r] = 0 /\ all_done[r] = FALSE /\ fate[r] = "running"
    BY Actors DEF Init
  <2> QED
    BY <2>1 DEF Aligned, Pace, Together, DoneAlike, Ended, InLeg
<1>2. TypeInv /\ TypeInv' /\ Count /\ Aligned /\ [Next]_vars => Aligned'
  <2> SUFFICES ASSUME TypeInv, TypeInv', Count, Aligned, [Next]_vars PROVE Aligned'
    OBVIOUS
  <2>1. CASE Next
    BY <2>1, AlignedKept
  <2>2. CASE UNCHANGED vars
    <3>1. UNCHANGED <<pc, passed, fate, all_done, is_done>>
      BY <2>2 DEF vars, actorVars, nameVars
    <3> QED
      BY <3>1 DEF Aligned, Pace, Together, DoneAlike, Ended, InLeg, Leg, Everyone, IsBarrier
  <2> QED
    BY <2>1, <2>2
<1>3. MapInv => Count
  BY DEF MapInv
<1> QED
  BY <1>1, <1>2, <1>3, TypesOfHandshake, MapInvariance, PTL DEF Spec

-----------------------------------------------------------------------------
(* What the two words say, by the places of rank zero and the controller.  *)

\* A rank has opened the round that rank zero is about to enter.
Opened == \E r \in Rank : pc[r] \in 31 .. 33 /\ passed[r] >= passed[0]

AppSays ==
    /\ pc[0] <= 6 => app_status = 0
    /\ pc[0] \in 7 .. 12 => app_status = 1
    /\ pc[0] \in 13 .. 16 => app_status = 2
    /\ pc[0] \in 17 .. 24 => app_status = 3
    /\ pc[0] \in 25 .. 27 => app_status = 4
    /\ pc[0] = 28 => app_status = 5
    /\ pc[0] \in 29 .. 30 /\ Opened => app_status = 6
    /\ pc[0] \in 29 .. 30 /\ ~Opened => app_status = last_status[0]
    /\ pc[0] \in 31 .. 34 => app_status = 6
    /\ pc[0] \in 35 .. 38 => app_status = 7
    /\ pc[0] \in 39 .. 40 => app_status = 8
    /\ pc[0] = 41 => app_status \in {8, 9}

\* The controller gives up, or says how far it is; it answers each round.
CtlSays ==
    \/ ctl_status = Abort /\ pc[Ctl] = 5
    \/ /\ pc[Ctl] <= 3 => ctl_status = 0
       /\ pc[Ctl] \in 4 .. 6 => ctl_status = 1
       /\ pc[Ctl] \in 7 .. 9 => ctl_status = 2
       /\ pc[Ctl] \in 10 .. 11 => ctl_status = 3
       /\ pc[Ctl] \in 12 .. 13 => ctl_status = 4
       /\ pc[Ctl] = 14 /\ last_status[Ctl] = 3 => ctl_status = 5
       /\ pc[Ctl] = 14 /\ last_status[Ctl] = 7 => ctl_status = 7
       /\ pc[Ctl] \in 15 .. 17 => ctl_status = 6
       /\ pc[Ctl] \in 18 .. 20 => ctl_status = 7
       /\ pc[Ctl] = 21 => ctl_status = 8

\* What each side saw last.
RanksSaw ==
    \A r \in Rank :
        /\ pc[r] <= 7 => last_status[r] = 0
        /\ pc[r] \in 8 .. 13 => last_status[r] = 1
        /\ pc[r] \in 14 .. 17 => last_status[r] = 2
        /\ pc[r] \in 18 .. 25 => last_status[r] = 3
        /\ pc[r] \in 26 .. 28 => last_status[r] = 4
        /\ pc[r] \in 29 .. 31 => last_status[r] \in {5, 7}
        /\ pc[r] \in 32 .. 35 => last_status[r] = 6
        /\ pc[r] \in 36 .. 39 => last_status[r] = 7
CtlSaw ==
    /\ pc[Ctl] <= 2 => last_status[Ctl] = 0
    /\ pc[Ctl] \in 3 .. 4 => last_status[Ctl] = 1
    /\ pc[Ctl] \in 5 .. 8 => last_status[Ctl] = 2
    /\ pc[Ctl] \in 9 .. 13 => last_status[Ctl] = 3
    /\ pc[Ctl] = 14 => last_status[Ctl] \in {3, 7}
    /\ pc[Ctl] = 15 => last_status[Ctl] = 6
    /\ pc[Ctl] \in 16 .. 19 => last_status[Ctl] = 7
    /\ pc[Ctl] = 20 => last_status[Ctl] = 8
    /\ pc[Ctl] = 21 => last_status[Ctl] = 8 \/ (last_status[Ctl] = 9 /\ fate[Ctl] # "running")

\* The controller is before its first round, or between rounds and after the last.
First == pc[Ctl] = 14 /\ last_status[Ctl] = 3
Later == pc[Ctl] >= 18 \/ (pc[Ctl] = 14 /\ last_status[Ctl] = 7)

\* No rank goes on before the controller has said so ...
Waited ==
    \A r \in Rank :
        /\ pc[Ctl] <= 3 => pc[r] <= 7
        /\ pc[Ctl] <= 6 => pc[r] <= 13
        /\ pc[Ctl] <= 9 => pc[r] <= 17
        /\ pc[Ctl] <= 11 => pc[r] <= 25
        /\ pc[Ctl] <= 13 => pc[r] <= 28
        /\ First => pc[r] <= 31
        /\ pc[Ctl] \in 15 .. 17 => pc[r] <= 35
        /\ Later /\ pc[Ctl] <= 20 => pc[r] <= 39

\* ... nor the controller before rank zero.
Heard ==
    /\ pc[Ctl] > 2 => pc[0] > 6
    /\ pc[Ctl] > 4 => pc[0] > 12
    /\ pc[Ctl] > 8 => pc[0] > 16
    /\ pc[Ctl] > 10 => pc[0] > 24
    /\ pc[Ctl] > 12 => pc[0] > 27
    /\ pc[Ctl] = 15 /\ pc[0] <= 34 => app_status = 6
    /\ pc[Ctl] \in 16 .. 17 => pc[0] = 35
    /\ pc[Ctl] >= 20 => pc[0] >= 39

\* In a round every rank is in it, and has filled its table when the controller reads.
InRound ==
    \A r \in Rank :
        /\ pc[Ctl] \in 15 .. 17 => pc[r] >= 29
        /\ pc[Ctl] = 15 /\ pc[r] = 29 => \E q \in Rank : passed[q] > passed[r]
        /\ pc[Ctl] \in 16 .. 17 => pc[r] \in 33 .. 35

\* After it none fills its table again before the controller opens the next.
AfterRound ==
    Later =>
        /\ \A r \in Rank : /\ pc[r] >= 29 /\ pc[r] # 32
                           /\ pc[r] = 33 => passed[0] > passed[r]
        /\ pc[0] \notin 32 .. 34
        /\ pc[0] <= 31 => last_status[0] = 7

Said == AppSays /\ CtlSays /\ RanksSaw /\ CtlSaw
TripInv == Said /\ Waited /\ Heard /\ InRound /\ AfterRound

\* What a rank waits for.
LEMMA RankHears ==
    ASSUME TypeInv, RanksSaw, NEW r \in Rank, RankGoes(r)
    PROVE  /\ pc[r] = 7 => ctl_status = 1
           /\ pc[r] = 13 => ctl_status = 2
           /\ pc[r] = 17 => ctl_status = 3
           /\ pc[r] = 25 => ctl_status = 4
           /\ pc[r] = 28 => ctl_status = 5
           /\ pc[r] = 31 => ctl_status = 6
           /\ pc[r] = 35 => ctl_status = 7
           /\ pc[r] = 39 => ctl_status = 8
<1>1. /\ pc[r] \in AppWaits => ctl_status = After(last_status[r])
      /\ pc[r] = 31 => ctl_status = 6
  BY DEF RankGoes, RankWord
<1>2. /\ pc[r] = 7 => last_status[r] = 0
      /\ pc[r] = 13 => last_status[r] = 1
      /\ pc[r] = 17 => last_status[r] = 2
      /\ pc[r] = 25 => last_status[r] = 3
      /\ pc[r] = 28 => last_status[r] = 4
      /\ pc[r] = 35 => last_status[r] = 6
      /\ pc[r] = 39 => last_status[r] = 7
  BY DEF RanksSaw
<1> QED
  BY ONLY <1>1, <1>2 DEF AppWaits, After, Shutdown

\* The controller on its way, and what it waits for.
LEMMA CtlOn ==
    ASSUME TypeInv, CtlSaw, CtlGoes
    PROVE  /\ pc[Ctl] \in 1 .. 20 /\ fate' = fate
           /\ pc'[Ctl] = IF pc[Ctl] = 18 /\ finished # tables THEN 14 ELSE pc[Ctl] + 1
           /\ last_status'[Ctl] = IF pc[Ctl] \in CtlWaits THEN After(last_status[Ctl])
                                  ELSE IF pc[Ctl] = 14 THEN 6 ELSE last_status[Ctl]
           /\ ctl_status' = IF pc[Ctl] \in CtlSteps THEN After(ctl_status)
                            ELSE IF pc[Ctl] = 14 THEN 6 ELSE ctl_status
           /\ \A r \in Rank : pc'[r] = pc[r] /\ last_status'[r] = last_status[r]
           /\ passed' = passed /\ app_status' = app_status
           /\ pc[Ctl] = 2 => app_status = 1
           /\ pc[Ctl] = 4 => app_status = 2
           /\ pc[Ctl] = 8 => app_status = 3
           /\ pc[Ctl] = 10 => app_status = 4
           /\ pc[Ctl] = 12 => app_status = 5
           /\ pc[Ctl] = 14 => app_status = 6
           /\ pc[Ctl] = 15 => app_status = 7
           /\ pc[Ctl] = 19 => app_status = 8
<1>1. /\ Ctl \in Actor /\ Ctl \notin Rank /\ Rank \subseteq Actor /\ pc \in [Actor -> Nat]
      /\ last_status \in [Actor -> 0 .. Shutdown] /\ pc[Ctl] \in 1 .. 21
  BY Actors, RankTypes DEF TypeInv, TypeOK
<1>2. /\ pc[Ctl] \in 1 .. 20 /\ fate' = fate
      /\ pc'[Ctl] = IF pc[Ctl] = 18 /\ finished # tables THEN 14 ELSE pc[Ctl] + 1
      /\ \A r \in Rank : pc'[r] = pc[r]
      /\ passed' = passed /\ app_status' = app_status
  BY ONLY <1>1, CtlGoes DEF CtlGoes
<1>3. CtlWord
  BY DEF CtlGoes
<1>4. /\ last_status'[Ctl] = IF pc[Ctl] \in CtlWaits THEN After(last_status[Ctl])
                             ELSE IF pc[Ctl] = 14 THEN 6 ELSE last_status[Ctl]
      /\ ctl_status' = IF pc[Ctl] \in CtlSteps THEN After(ctl_status)
                       ELSE IF pc[Ctl] = 14 THEN 6 ELSE ctl_status
      /\ \A r \in Rank : last_status'[r] = last_status[r]
  BY ONLY <1>1, <1>3 DEF CtlWord
<1>5. /\ pc[Ctl] \in CtlWaits => app_status = After(last_status[Ctl])
      /\ pc[Ctl] = 10 => app_status = 4
      /\ pc[Ctl] = 12 => app_status = 5
      /\ pc[Ctl] = 14 => app_status = 6
  BY ONLY <1>3 DEF CtlWord
<1>6. /\ pc[Ctl] = 2 => last_status[Ctl] = 0
      /\ pc[Ctl] = 4 => last_status[Ctl] = 1
      /\ pc[Ctl] = 8 => last_status[Ctl] = 2
      /\ pc[Ctl] = 15 => last_status[Ctl] = 6
      /\ pc[Ctl] = 19 => last_status[Ctl] = 7
  BY DEF CtlSaw
<1>7. /\ pc[Ctl] = 2 => app_status = 1
      /\ pc[Ctl] = 4 => app_status = 2
      /\ pc[Ctl] = 8 => app_status = 3
      /\ pc[Ctl] = 15 => app_status = 7
      /\ pc[Ctl] = 19 => app_status = 8
  BY ONLY <1>5, <1>6 DEF CtlWaits, After, Shutdown
<1> QED
  BY ONLY <1>2, <1>4, <1>5, <1>7

\* An actor that stops stays where it is.
LEMMA Halted ==
    ASSUME TypeInv, CtlEnds \/ \E r \in Rank : RankEnds(r)
    PROVE  /\ pc' = pc /\ passed' = passed
           /\ \A r \in Rank : last_status'[r] = last_status[r]
           /\ \/ last_status'[Ctl] = last_status[Ctl]
              \/ CtlEnds /\ pc[Ctl] = 21 /\ last_status'[Ctl] = After(last_status[Ctl])
           /\ app_status' = app_status \/ (pc[0] = 41 /\ app_status' = After(app_status))
           /\ ctl_status' = ctl_status \/ (pc[Ctl] = 5 /\ ctl_status' = Abort)
           /\ CtlEnds => fate'[Ctl] # "running"
           /\ ~CtlEnds => fate'[Ctl] = fate[Ctl]
<1>1. /\ Ctl \in Actor /\ Ctl \notin Rank /\ Rank \subseteq Actor
      /\ last_status \in [Actor -> 0 .. Shutdown]
      /\ fate \in [Actor -> {"running", "off", "done", "failed"}]
  BY Actors DEF TypeInv, TypeOK
<1>2. CASE CtlEnds
  BY ONLY <1>1, <1>2 DEF CtlEnds
<1>3. ASSUME NEW r \in Rank, RankEnds(r), ~CtlEnds PROVE fate'[Ctl] = fate[Ctl]
  BY ONLY <1>1, <1>3 DEF RankEnds
<1>4. CASE ~CtlEnds
  <2>1. PICK r \in Rank : RankEnds(r)
    BY <1>4
  <2>2. fate'[Ctl] = fate[Ctl]
    BY ONLY <1>3, <1>4, <2>1
  <2> QED
    BY ONLY <1>4, <2>1, <2>2 DEF RankEnds
<1> QED
  BY ONLY <1>2, <1>4

\* What the ranks saw.
LEMMA RanksSawKept ==
    ASSUME TypeInv, RanksSaw, CtlSaw, Next
    PROVE  RanksSaw'
<1>1. ASSUME NEW r \in Rank, RankGoes(r) PROVE RanksSaw'
  <2>1. /\ pc'[r] = IF pc[r] = 36 /\ ~all_done[r] THEN 29 ELSE pc[r] + 1
        /\ last_status'[r] = IF pc[r] \in AppWaits THEN After(last_status[r])
                             ELSE IF pc[r] = 31 THEN 6 ELSE last_status[r]
        /\ pc[r] \in 1 .. 40
        /\ \A q \in Rank \ {r} : pc'[q] = pc[q] /\ last_status'[q] = last_status[q]
    BY <1>1, GoingOn
  <2>2. pc'[r] = 29 \/ pc'[r] = pc[r] + 1
    BY ONLY <2>1
  <2>3. /\ pc[r] <= 7 => last_status[r] = 0
        /\ pc[r] \in 8 .. 13 => last_status[r] = 1
        /\ pc[r] \in 14 .. 17 => last_status[r] = 2
        /\ pc[r] \in 18 .. 25 => last_status[r] = 3
        /\ pc[r] \in 26 .. 28 => last_status[r] = 4
        /\ pc[r] \in 29 .. 31 => last_status[r] \in {5, 7}
        /\ pc[r] \in 32 .. 35 => last_status[r] = 6
        /\ pc[r] \in 36 .. 39 => last_status[r] = 7
    BY DEF RanksSaw
  <2>4. /\ pc'[r] <= 7 => last_status'[r] = 0
        /\ pc'[r] \in 8 .. 13 => last_status'[r] = 1
        /\ pc'[r] \in 14 .. 17 => last_status'[r] = 2
        /\ pc'[r] \in 18 .. 25 => last_status'[r] = 3
        /\ pc'[r] \in 26 .. 28 => last_status'[r] = 4
        /\ pc'[r] \in 29 .. 31 => last_status'[r] \in {5, 7}
        /\ pc'[r] \in 32 .. 35 => last_status'[r] = 6
        /\ pc'[r] \in 36 .. 39 => last_status'[r] = 7
    BY ONLY <2>1, <2>3 DEF AppWaits, After, Shutdown
  <2> QED
    BY ONLY RanksSaw, <2>1, <2>4 DEF RanksSaw
<1>2. CASE CtlGoes
  BY <1>2, CtlOn DEF RanksSaw
<1>3. CASE CtlEnds \/ \E r \in Rank : RankEnds(r)
  BY <1>3, Halted DEF RanksSaw
<1> QED
  BY <1>1, <1>2, <1>3, StepKinds

\* What the controller saw.
LEMMA CtlSawKept ==
    ASSUME TypeInv, CtlSaw, Next
    PROVE  CtlSaw'
<1>1. ASSUME NEW r \in Rank, RankGoes(r) PROVE CtlSaw'
  <2>1. pc'[Ctl] = pc[Ctl] /\ last_status'[Ctl] = last_status[Ctl]
    BY <1>1, GoingOn
  <2>2. fate' = fate
    BY <1>1 DEF RankGoes
  <2> QED
    BY ONLY CtlSaw, <2>1, <2>2 DEF CtlSaw
<1>2. CASE CtlGoes
  <2>1. /\ pc[Ctl] \in 1 .. 20
        /\ pc'[Ctl] = IF pc[Ctl] = 18 /\ finished # tables THEN 14 ELSE pc[Ctl] + 1
        /\ last_status'[Ctl] = IF pc[Ctl] \in CtlWaits THEN After(last_status[Ctl])
                               ELSE IF pc[Ctl] = 14 THEN 6 ELSE last_status[Ctl]
    BY <1>2, CtlOn
  <2> QED
    BY ONLY CtlSaw, <2>1 DEF CtlSaw, CtlWaits, After, Shutdown
<1>3. CASE CtlEnds \/ \E r \in Rank : RankEnds(r)
  <2>1. /\ pc' = pc
        /\ \/ last_status'[Ctl] = last_status[Ctl]
           \/ pc[Ctl] = 21 /\ last_status'[Ctl] = After(last_status[Ctl])
              /\ fate'[Ctl] # "running"
        /\ fate'[Ctl] # "running" \/ fate'[Ctl] = fate[Ctl]
    BY <1>3, Halted
  <2> QED
    BY ONLY CtlSaw, <2>1 DEF CtlSaw, After, Shutdown
<1> QED
  BY <1>1, <1>2, <1>3, StepKinds

\* The words and the waits after a step of the controller.
LEMMA CtlSaysKept ==
    ASSUME TypeInv, CtlSaw, CtlSays, Heard, Next
    PROVE  CtlSays'
<1>1. pc[Ctl] \in 1 .. 21 /\ (ctl_status = Abort => fate[Ctl] # "running")
  BY RankTypes, Actors DEF TypeInv, TypeOK
<1>2. ASSUME NEW r \in Rank, RankGoes(r) PROVE CtlSays'
  <2>1. pc'[Ctl] = pc[Ctl] /\ last_status'[Ctl] = last_status[Ctl]
    BY <1>2, GoingOn
  <2>2. ctl_status' = ctl_status \/ (ctl_status' = 0 /\ pc[0] = 4)
    BY <1>2 DEF RankGoes, RankWord
  <2>3. pc[0] = 4 => pc[Ctl] <= 2
    BY <1>1 DEF Heard
  <2> QED
    BY ONLY CtlSays, <1>1, <2>1, <2>2, <2>3 DEF CtlSays
<1>3. CASE CtlGoes
  <2>1. /\ pc[Ctl] \in 1 .. 20
        /\ pc'[Ctl] = IF pc[Ctl] = 18 /\ finished # tables THEN 14 ELSE pc[Ctl] + 1
        /\ last_status'[Ctl] = IF pc[Ctl] \in CtlWaits THEN After(last_status[Ctl])
                               ELSE IF pc[Ctl] = 14 THEN 6 ELSE last_status[Ctl]
        /\ ctl_status' = IF pc[Ctl] \in CtlSteps THEN After(ctl_status)
                         ELSE IF pc[Ctl] = 14 THEN 6 ELSE ctl_status
    BY <1>3, CtlOn
  <2>2. ctl_status # Abort
    BY <1>1, <1>3 DEF CtlGoes
  <2>3. /\ pc[Ctl] = 14 => last_status[Ctl] \in {3, 7}
        /\ pc[Ctl] = 13 => last_status[Ctl] = 3
        /\ pc[Ctl] = 18 => last_status[Ctl] = 7
    BY DEF CtlSaw
  <2>4. CASE pc[Ctl] <= 11
    <3>1. pc'[Ctl] = pc[Ctl] + 1
      BY ONLY <2>1, <2>4
    <3> QED
      BY ONLY CtlSays, <2>1, <2>2, <2>4, <3>1 DEF CtlSays, CtlSteps, After, Shutdown
  <2>5. CASE pc[Ctl] \in {12, 13}
    <3>1. pc'[Ctl] = pc[Ctl] + 1 /\ (pc[Ctl] = 13 => last_status'[Ctl] = 3)
      BY ONLY <2>1, <2>3, <2>5 DEF CtlWaits
    <3> QED
      BY ONLY CtlSays, <2>1, <2>2, <2>5, <3>1 DEF CtlSays, CtlSteps, After, Shutdown
  <2>6. CASE pc[Ctl] \in 14 .. 17
    <3>1. pc'[Ctl] = pc[Ctl] + 1
      BY ONLY <2>1, <2>6
    <3> QED
      BY ONLY CtlSays, <2>1, <2>2, <2>6, <3>1 DEF CtlSays, CtlSteps, After, Shutdown
  <2>7. CASE pc[Ctl] \in 18 .. 20
    <3>1. pc[Ctl] = 18 => pc'[Ctl] \in {14, 19} /\ last_status'[Ctl] = 7
      BY ONLY <2>1, <2>3, <2>7 DEF CtlWaits
    <3>2. pc[Ctl] # 18 => pc'[Ctl] = pc[Ctl] + 1
      BY ONLY <2>1
    <3> QED
      BY ONLY CtlSays, <2>1, <2>2, <2>7, <3>1, <3>2 DEF CtlSays, CtlSteps, After, Shutdown
  <2> QED
    BY ONLY <2>1, <2>4, <2>5, <2>6, <2>7
<1>4. CASE CtlEnds \/ \E r \in Rank : RankEnds(r)
  <2>1. /\ pc' = pc
        /\ last_status'[Ctl] = last_status[Ctl] \/ pc[Ctl] = 21
        /\ ctl_status' = ctl_status \/ (pc[Ctl] = 5 /\ ctl_status' = Abort)
    BY <1>4, Halted
  <2> QED
    BY ONLY CtlSays, <1>1, <2>1 DEF CtlSays
<1> QED
  BY <1>2, <1>3, <1>4, StepKinds

\* Two ranks, one of them at no barrier.
LEMMA Beside ==
    ASSUME TypeInv, Aligned, NEW r \in Rank, NEW q \in Rank, pc[r] \notin AppBarriers
    PROVE  \/ passed[q] = passed[r] /\ InLeg(pc[r], pc[q])
           \/ passed[r] = passed[q] + 1 /\ pc[q] \in AppBarriers /\ InLeg(pc[q] + 1, pc[r])
<1>1. /\ passed[r] \in Nat /\ passed[q] \in Nat /\ pc[r] \in 1 .. 41 /\ pc[q] \in 1 .. 41
      /\ IsBarrier(pc[r]) => pc[r] \in AppBarriers
      /\ IsBarrier(pc[q]) => pc[q] \in AppBarriers
  BY RankTypes, AppCalls DEF AppBarriers
<1>2. /\ passed[r] > passed[q] => passed[r] = passed[q] + 1 /\ IsBarrier(pc[q])
      /\ passed[q] > passed[r] => IsBarrier(pc[r])
  BY ONLY Aligned DEF Aligned, Pace
<1>3. /\ passed[r] = passed[q] => InLeg(pc[r], pc[q])
      /\ passed[r] = passed[q] + 1 => InLeg(pc[q] + 1, pc[r])
  BY ONLY Aligned DEF Aligned, Together
<1> QED
  BY ONLY pc[r] \notin AppBarriers, <1>1, <1>2, <1>3

\* When the controller opens a round every rank is in it: at its first barrier,
\* that another has left already, or behind it.
LEMMA OpenRound ==
    ASSUME TypeInv, Aligned, AppSays, RanksSaw, CtlSaw, Waited, AfterRound,
           pc[Ctl] = 14, app_status = 6, NEW q \in Rank
    PROVE  /\ pc[q] \in 29 .. 31
           /\ pc[q] = 29 => \E p \in Rank : passed[p] > passed[q]
<1>1. /\ 0 \in Rank /\ pc[0] \in 1 .. 41 /\ passed[0] \in Nat
      /\ pc[q] \in 1 .. 41 /\ passed[q] \in Nat
  BY Actors, RankTypes
<1>2. pc[0] \in 29 .. 31 /\ (pc[0] \in 29 .. 30 => Opened)
  <2>1. pc[0] \in 29 .. 34 /\ (pc[0] \in 29 .. 30 => Opened)
    <3>1. pc[0] \in 29 .. 31 => last_status[0] # 6
      BY <1>1 DEF RanksSaw
    <3> QED
      BY ONLY AppSays, app_status = 6, <1>1, <3>1 DEF AppSays
  <2>2. First \/ Later
    BY DEF CtlSaw, First, Later
  <2>3. First => pc[0] <= 31
    BY <1>1 DEF Waited
  <2>4. Later => pc[0] \notin 32 .. 34
    BY DEF AfterRound
  <2> QED
    BY ONLY <2>1, <2>2, <2>3, <2>4
<1> DEFINE In == /\ pc[q] \in 29 .. 33
                 /\ pc[q] = 29 => \E p \in Rank : passed[p] > passed[q]
                 /\ pc[q] # 29 => ~(passed[0] > passed[q])
<1>3. ASSUME pc[0] = 29 PROVE In
  <2>1. PICK p \in Rank : pc[p] \in 31 .. 33 /\ passed[p] >= passed[0]
    BY <1>2, <1>3 DEF Opened
  <2>2. passed[p] \in Nat
    BY RankTypes
  <2>3. passed[p] # passed[0]
    <3>1. ~InLeg(pc[p], 29)
      BY <2>1 DEF InLeg, Leg
    <3> QED
      BY ONLY Aligned, <1>1, <1>3, <2>1, <3>1 DEF Aligned, Together
  <2>4. passed[p] = passed[0] + 1
    BY ONLY Aligned, <1>1, <2>1, <2>2, <2>3 DEF Aligned, Pace
  <2>5. /\ passed[p] > passed[q] => passed[p] = passed[q] + 1 /\ IsBarrier(pc[q])
        /\ passed[q] > passed[0] => passed[q] = passed[0] + 1
    BY ONLY Aligned, q \in Rank, <1>1, <2>1 DEF Aligned, Pace
  <2>6. CASE passed[q] = passed[0]
    <3>1. IsBarrier(pc[q]) /\ passed[p] > passed[q]
      BY ONLY <1>1, <2>2, <2>4, <2>5, <2>6
    <3>2. InLeg(29, pc[q])
      BY ONLY Aligned, q \in Rank, <1>1, <1>3, <2>6 DEF Aligned, Together
    <3>3. pc[q] \in AppBarriers /\ 29 \in AppBarriers
      BY ONLY <1>1, <3>1, AppCalls DEF AppBarriers
    <3>4. 29 \in 1 .. 40 /\ pc[q] \in 1 .. 41
      BY <1>1
    <3>5. pc[q] = 29
      BY ONLY <3>2, <3>3, <3>4, LegOn, ZenonT(60)
    <3> QED
      BY ONLY <2>1, <3>1, <3>5
  <2>7. CASE passed[q] = passed[0] + 1
    <3>1. InLeg(30, pc[q])
      BY ONLY Aligned, q \in Rank, <1>1, <1>3, <2>7 DEF Aligned, Together
    <3>2. pc[q] \in 30 .. 33
      BY ONLY <1>1, <3>1 DEF InLeg, Leg
    <3> QED
      BY ONLY <1>1, <2>7, <3>2
  <2> QED
    BY ONLY <1>1, <2>2, <2>4, <2>5, <2>6, <2>7
<1>4. ASSUME pc[0] \in 30 .. 31 PROVE In
  <2>1. \/ passed[q] = passed[0] /\ InLeg(pc[0], pc[q])
        \/ passed[0] = passed[q] + 1 /\ pc[q] \in AppBarriers /\ InLeg(pc[q] + 1, pc[0])
    BY <1>1, <1>4, Beside DEF AppBarriers
  <2>2. InLeg(pc[0], pc[q]) => pc[q] \in 30 .. 33
    BY <1>1, <1>4 DEF InLeg, Leg
  <2>3. pc[q] \in AppBarriers /\ InLeg(pc[q] + 1, pc[0]) => pc[q] = 29
    BY <1>4 DEF InLeg, Leg, AppBarriers
  <2>4. passed[0] = passed[q] + 1 => passed[0] > passed[q]
    BY <1>1
  <2> QED
    BY ONLY <1>1, <2>1, <2>2, <2>3, <2>4
<1>5. In
  BY ONLY <1>2, <1>3, <1>4
<1>6. First \/ Later
  BY DEF CtlSaw, First, Later
<1>7. First => pc[q] <= 31
  BY DEF Waited
<1>8. Later => pc[q] # 32 /\ (pc[q] = 33 => passed[0] > passed[q])
  BY DEF AfterRound
<1> QED
  BY ONLY <1>1, <1>5, <1>6, <1>7, <1>8

\* A step of a rank keeps it behind the controller.
LEMMA WaitedKept ==
    ASSUME TypeInv, Aligned, Said, Waited, AfterRound, Next
    PROVE  Waited'
<1> USE DEF Said
<1>1. /\ pc[Ctl] \in 1 .. 21 /\ \A q \in Rank : pc[q] \in 1 .. 41
  BY RankTypes, Actors DEF TypeInv, TypeOK
<1>2. ASSUME NEW r \in Rank, RankGoes(r) PROVE Waited'
  <2>1. /\ pc'[Ctl] = pc[Ctl] /\ last_status'[Ctl] = last_status[Ctl]
        /\ pc'[r] = IF pc[r] = 36 /\ ~all_done[r] THEN 29 ELSE pc[r] + 1
        /\ \A q \in Rank \ {r} : pc'[q] = pc[q]
        /\ pc[r] \in 1 .. 40
    BY <1>2, GoingOn
  <2>2. pc'[r] = pc[r] + 1 \/ (pc[r] = 36 /\ pc'[r] = 29)
    BY ONLY <2>1
  <2>3. /\ pc[r] = 7 => ctl_status = 1
        /\ pc[r] = 13 => ctl_status = 2
        /\ pc[r] = 17 => ctl_status = 3
        /\ pc[r] = 25 => ctl_status = 4
        /\ pc[r] = 28 => ctl_status = 5
        /\ pc[r] = 31 => ctl_status = 6
        /\ pc[r] = 35 => ctl_status = 7
        /\ pc[r] = 39 => ctl_status = 8
    BY <1>2, RankHears
  <2>4. /\ pc[Ctl] <= 3 => pc[r] <= 7
        /\ pc[Ctl] <= 6 => pc[r] <= 13
        /\ pc[Ctl] <= 9 => pc[r] <= 17
        /\ pc[Ctl] <= 11 => pc[r] <= 25
        /\ pc[Ctl] <= 13 => pc[r] <= 28
        /\ First => pc[r] <= 31
        /\ pc[Ctl] \in 15 .. 17 => pc[r] <= 35
        /\ Later /\ pc[Ctl] <= 20 => pc[r] <= 39
    BY DEF Waited
  <2>5. /\ pc[Ctl] <= 3 => pc'[r] <= 7
        /\ pc[Ctl] <= 6 => pc'[r] <= 13
        /\ pc[Ctl] <= 9 => pc'[r] <= 17
        /\ pc[Ctl] <= 11 => pc'[r] <= 25
        /\ pc[Ctl] <= 13 => pc'[r] <= 28
    BY ONLY CtlSays, <1>1, <2>1, <2>2, <2>3, <2>4 DEF CtlSays, Abort
  <2>6. /\ First => pc'[r] <= 31
        /\ pc[Ctl] \in 15 .. 17 => pc'[r] <= 35
        /\ Later /\ pc[Ctl] <= 20 => pc'[r] <= 39
    BY ONLY CtlSays, <1>1, <2>1, <2>2, <2>3, <2>4 DEF CtlSays, First, Later, Abort
  <2>7. (First' <=> First) /\ (Later' <=> Later)
    BY ONLY <2>1 DEF First, Later
  <2> QED
    BY ONLY Waited, <2>1, <2>5, <2>6, <2>7 DEF Waited
<1>3. CASE CtlEnds \/ \E r \in Rank : RankEnds(r)
  <2>1. pc' = pc /\ (last_status'[Ctl] = last_status[Ctl] \/ pc[Ctl] = 21)
    BY <1>3, Halted
  <2>2. /\ First' => First
        /\ Later' /\ pc'[Ctl] <= 20 => Later
    BY ONLY <2>1 DEF First, Later
  <2> QED
    BY ONLY Waited, <2>1, <2>2 DEF Waited
<1>4. CASE CtlGoes
  <2>1. /\ pc[Ctl] \in 1 .. 20
        /\ pc'[Ctl] = IF pc[Ctl] = 18 /\ finished # tables THEN 14 ELSE pc[Ctl] + 1
        /\ last_status'[Ctl] = IF pc[Ctl] \in CtlWaits THEN After(last_status[Ctl])
                               ELSE IF pc[Ctl] = 14 THEN 6 ELSE last_status[Ctl]
        /\ \A q \in Rank : pc'[q] = pc[q]
        /\ pc[Ctl] = 14 => app_status = 6
    BY <1>4, CtlOn
  <2>2. /\ pc[Ctl] = 13 => last_status[Ctl] = 3
        /\ pc[Ctl] = 18 => last_status[Ctl] = 7
    BY DEF CtlSaw
  <2>3. pc'[Ctl] = 14 =>
          \/ pc[Ctl] = 13 /\ First' /\ ~Later'
          \/ pc[Ctl] = 18 /\ ~First' /\ Later'
    BY ONLY <2>1, <2>2 DEF First, Later, CtlWaits
  <2>4. pc[Ctl] = 18 => Later
    BY ONLY <2>1 DEF Later
  <2>5. pc[Ctl] = 14 => \A q \in Rank : pc[q] <= 33
    BY OpenRound, <2>1
  <2>6. pc'[Ctl] = pc[Ctl] + 1 \/ pc'[Ctl] = 14
    BY ONLY <2>1
  <2>7. First' => pc'[Ctl] = 14
    BY DEF First
  <2>8. Later' => pc'[Ctl] >= 18 \/ pc'[Ctl] = 14
    BY DEF Later
  <2>9. ASSUME NEW q \in Rank
        PROVE  /\ pc'[Ctl] <= 3 => pc[q] <= 7
               /\ pc'[Ctl] <= 6 => pc[q] <= 13
               /\ pc'[Ctl] <= 9 => pc[q] <= 17
               /\ pc'[Ctl] <= 11 => pc[q] <= 25
               /\ pc'[Ctl] <= 13 => pc[q] <= 28
               /\ First' => pc[q] <= 31
               /\ pc'[Ctl] \in 15 .. 17 => pc[q] <= 35
               /\ Later' /\ pc'[Ctl] <= 20 => pc[q] <= 39
    <3>1. /\ pc[Ctl] <= 3 => pc[q] <= 7
          /\ pc[Ctl] <= 6 => pc[q] <= 13
          /\ pc[Ctl] <= 9 => pc[q] <= 17
          /\ pc[Ctl] <= 11 => pc[q] <= 25
          /\ pc[Ctl] <= 13 => pc[q] <= 28
          /\ pc[Ctl] \in 15 .. 17 => pc[q] <= 35
          /\ pc[Ctl] \in 18 .. 20 => pc[q] <= 39
          /\ pc[q] \in 1 .. 41
      BY <1>1 DEF Waited, Later
    <3>2. /\ pc'[Ctl] <= 3 => pc[q] <= 7
          /\ pc'[Ctl] <= 6 => pc[q] <= 13
          /\ pc'[Ctl] <= 9 => pc[q] <= 17
          /\ pc'[Ctl] <= 11 => pc[q] <= 25
          /\ pc'[Ctl] <= 13 => pc[q] <= 28
      BY ONLY <2>1, <2>6, <3>1
    <3>3. First' => pc[q] <= 31
      BY ONLY <2>3, <2>7, <3>1
    <3>4. pc[Ctl] = 14 => pc[q] <= 33
      BY <2>5
    <3>5. pc'[Ctl] \in 15 .. 17 => pc[q] <= 35
      BY ONLY <2>1, <2>6, <3>1, <3>4
    <3>6. Later' /\ pc'[Ctl] <= 20 => pc[q] <= 39
      BY ONLY <2>1, <2>3, <2>6, <2>8, <3>1
    <3> QED
      BY ONLY <3>2, <3>3, <3>5, <3>6
  <2>10. \A q \in Rank : pc'[q] = pc[q]
    BY <2>1
  <2> QED
    BY ONLY <2>9, <2>10 DEF Waited
<1> QED
  BY <1>2, <1>3, <1>4, StepKinds

\* When the controller goes on in a round every rank has filled its table.
LEMMA RoundFull ==
    ASSUME TypeInv, Aligned, Waited, Heard, InRound, pc[Ctl] = 15, app_status = 7
    PROVE  pc[0] = 35 /\ \A q \in Rank : pc[q] \in 33 .. 35
<1>1. pc[0] = 35
  <2>1. pc[0] <= 34 => app_status = 6
    BY DEF Heard
  <2>2. pc[0] \in 1 .. 41 /\ pc[0] <= 35
    BY Actors, RankTypes DEF Waited
  <2> QED
    BY ONLY app_status = 7, <2>1, <2>2
<1>2. ASSUME NEW q \in Rank PROVE pc[q] \in 33 .. 35
  <2>1. /\ 0 \in Rank /\ pc[q] \in 29 .. 35
        /\ pc[q] = 29 => \E p \in Rank : passed[p] > passed[q]
    BY Actors, RankTypes DEF InRound, Waited
  <2>2. \/ passed[q] = passed[0] /\ InLeg(35, pc[q])
        \/ pc[q] \in AppBarriers /\ InLeg(pc[q] + 1, 35)
    BY <1>1, <2>1, Beside DEF AppBarriers
  <2>3. CASE passed[q] = passed[0] /\ InLeg(35, pc[q])
    <3>1. pc[q] \in 34 .. 35 \/ pc[q] = 29
      BY ONLY <2>1, <2>3 DEF InLeg, Leg
    <3>2. \A p \in Rank : ~(passed[p] > passed[q])
      <4>1. ~IsBarrier(35)
        BY AppCalls
      <4> QED
        BY <1>1, <2>1, <2>3, <4>1 DEF Aligned, Pace
    <3> QED
      BY ONLY <2>1, <3>1, <3>2
  <2>4. CASE pc[q] \in AppBarriers /\ InLeg(pc[q] + 1, 35)
    BY ONLY <2>4 DEF InLeg, Leg, AppBarriers
  <2> QED
    BY <2>2, <2>3, <2>4
<1> QED
  BY <1>1, <1>2

\* The ranks in a round.
LEMMA InRoundKept ==
    ASSUME TypeInv, Aligned, Said, Waited, Heard, InRound, AfterRound, Next
    PROVE  InRound'
<1> USE DEF Said
<1>1. pc[Ctl] \in 1 .. 21 /\ \A q \in Rank : pc[q] \in 1 .. 41 /\ passed[q] \in Nat
  BY RankTypes, Actors DEF TypeInv, TypeOK
<1>2. ASSUME NEW r \in Rank, RankGoes(r) PROVE InRound'
  <2>1. /\ pc'[Ctl] = pc[Ctl]
        /\ pc'[r] = IF pc[r] = 36 /\ ~all_done[r] THEN 29 ELSE pc[r] + 1
        /\ \A q \in Rank \ {r} : pc'[q] = pc[q] /\ passed'[q] = passed[q]
        /\ pc[r] \in 1 .. 40
        /\ passed'[r] = IF IsBarrier(pc[r]) THEN passed[r] + 1 ELSE passed[r]
    BY <1>2, GoingOn
  <2>2. CASE pc[Ctl] \in 15 .. 17
    <3>1. pc[r] \in 29 .. 35 /\ (pc[Ctl] \in 16 .. 17 => pc[r] \in 33 .. 35)
      BY <1>1, <2>2 DEF InRound, Waited
    <3>2. pc'[r] = pc[r] + 1
      BY ONLY <2>1, <3>1
    <3>3. pc[r] # 35
      <4>1. ctl_status = 6
        BY ONLY CtlSays, <2>2 DEF CtlSays
      <4>2. pc[r] = 35 => ctl_status = 7
        BY <1>2, RankHears
      <4> QED
        BY ONLY <4>1, <4>2
    <3>4. pc'[r] >= 29 /\ pc'[r] # 29 /\ (pc[Ctl] \in 16 .. 17 => pc'[r] \in 33 .. 35)
      BY ONLY <3>1, <3>2, <3>3
    <3>5. \A p \in Rank : passed'[p] >= passed[p]
      BY ONLY <1>1, <1>2, <2>1
    <3>6. ASSUME NEW q \in Rank, pc[Ctl] = 15, pc'[q] = 29
          PROVE  \E p \in Rank : passed'[p] > passed'[q]
      <4>1. q # r
        BY <3>4, <3>6
      <4>2. pc[q] = 29 /\ passed'[q] = passed[q]
        BY ONLY <2>1, <3>6, <4>1
      <4>3. PICK p \in Rank : passed[p] > passed[q]
        BY ONLY InRound, <3>6, <4>2 DEF InRound
      <4>4. passed'[p] > passed'[q]
        <5>1. passed'[p] >= passed[p] /\ passed[p] \in Nat /\ passed[q] \in Nat
          BY <1>1, <3>5
        <5>2. passed'[p] = passed[p] \/ passed'[p] = passed[p] + 1
          BY ONLY <2>1, <1>1
        <5> QED
          BY ONLY <4>2, <4>3, <5>1, <5>2
      <4> QED
        BY ONLY <4>3, <4>4
    <3>7. ASSUME NEW q \in Rank
          PROVE  pc'[q] >= 29 /\ (pc[Ctl] \in 16 .. 17 => pc'[q] \in 33 .. 35)
      <4>1. pc[q] >= 29 /\ (pc[Ctl] \in 16 .. 17 => pc[q] \in 33 .. 35)
        BY <2>2 DEF InRound
      <4> QED
        BY ONLY <2>1, <3>4, <3>7, <4>1
    <3> QED
      BY ONLY <2>1, <3>6, <3>7 DEF InRound
  <2>3. CASE pc[Ctl] \notin 15 .. 17
    BY ONLY <1>1, <2>1, <2>3 DEF InRound
  <2> QED
    BY <2>2, <2>3
<1>3. CASE CtlGoes
  <2>1. /\ pc[Ctl] \in 1 .. 20 /\ passed' = passed
        /\ pc'[Ctl] = IF pc[Ctl] = 18 /\ finished # tables THEN 14 ELSE pc[Ctl] + 1
        /\ \A q \in Rank : pc'[q] = pc[q]
        /\ pc[Ctl] = 14 => app_status = 6
        /\ pc[Ctl] = 15 => app_status = 7
    BY <1>3, CtlOn
  <2>2. CASE pc[Ctl] = 14
    <3>1. \A q \in Rank : /\ pc[q] \in 29 .. 33
                          /\ pc[q] = 29 => \E p \in Rank : passed[p] > passed[q]
      BY <2>1, <2>2, OpenRound
    <3>2. pc'[Ctl] = 15
      BY ONLY <2>1, <2>2
    <3> QED
      BY ONLY <2>1, <3>1, <3>2 DEF InRound
  <2>3. CASE pc[Ctl] = 15
    <3>1. \A q \in Rank : pc[q] \in 33 .. 35
      BY <2>1, <2>3, RoundFull
    <3>2. pc'[Ctl] = 16
      BY ONLY <2>1, <2>3
    <3> QED
      BY ONLY <2>1, <3>1, <3>2 DEF InRound
  <2>4. CASE pc[Ctl] = 16
    <3>1. \A q \in Rank : pc[q] \in 33 .. 35
      BY <2>4 DEF InRound
    <3>2. pc'[Ctl] = 17
      BY ONLY <2>1, <2>4
    <3> QED
      BY ONLY <2>1, <3>1, <3>2 DEF InRound
  <2>5. CASE pc[Ctl] \notin 14 .. 16
    <3>1. pc'[Ctl] \notin 15 .. 17
      BY ONLY <2>1, <2>5
    <3> QED
      BY ONLY <3>1 DEF InRound
  <2> QED
    BY ONLY <2>1, <2>2, <2>3, <2>4, <2>5
<1>4. CASE CtlEnds \/ \E r \in Rank : RankEnds(r)
  <2>1. pc' = pc /\ passed' = passed
    BY <1>4, Halted
  <2> QED
    BY ONLY InRound, <2>1 DEF InRound
<1> QED
  BY <1>2, <1>3, <1>4, StepKinds

\* Rank zero ahead of the controller.
LEMMA HeardKept ==
    ASSUME TypeInv, Aligned, Said, Waited, Heard, InRound, Next
    PROVE  Heard'
<1> USE DEF Said
<1>1. pc[Ctl] \in 1 .. 21 /\ 0 \in Rank /\ pc[0] \in 1 .. 41
  BY RankTypes, Actors DEF TypeInv, TypeOK
<1>2. ASSUME NEW r \in Rank, RankGoes(r) PROVE Heard'
  <2>1. /\ pc'[Ctl] = pc[Ctl]
        /\ r = 0 => pc'[0] = pc[0] + 1 \/ (pc[0] = 36 /\ pc'[0] = 29)
        /\ r # 0 => pc'[0] = pc[0]
    BY <1>1, <1>2, GoingOn
  <2>2. app_status' = IF pc[r] = 30 THEN 6
                      ELSE IF r = 0 /\ pc[r] \in AppSteps THEN After(app_status)
                      ELSE IF r = 0 /\ pc[r] = 4 THEN 0 ELSE app_status
    BY <1>2 DEF RankGoes, RankWord
  <2>3. pc[Ctl] \in 15 .. 17 => pc[0] \in 29 .. 35
    BY <1>1 DEF InRound, Waited
  <2>4. pc[Ctl] \in 16 .. 17 => ~(r = 0 /\ pc[0] = 35)
    <3>1. pc[Ctl] \in 16 .. 17 => ctl_status = 6
      BY ONLY CtlSays DEF CtlSays
    <3>2. pc[r] = 35 => ctl_status = 7
      BY <1>2, RankHears
    <3> QED
      BY ONLY <3>1, <3>2
  <2>5. pc[Ctl] = 15 /\ pc'[0] <= 34 => app_status' = 6
    BY ONLY Heard, <1>1, <2>1, <2>2, <2>3 DEF Heard, AppSteps
  <2>6. pc[Ctl] \in 16 .. 17 => pc'[0] = 35
    BY ONLY Heard, <2>1, <2>4 DEF Heard
  <2> QED
    BY ONLY Heard, <1>1, <2>1, <2>5, <2>6 DEF Heard
<1>3. CASE CtlGoes
  <2>1. /\ pc[Ctl] \in 1 .. 20 /\ app_status' = app_status /\ pc'[0] = pc[0]
        /\ pc'[Ctl] = pc[Ctl] + 1 \/ (pc[Ctl] = 18 /\ pc'[Ctl] = 14)
        /\ pc[Ctl] = 2 => app_status = 1
        /\ pc[Ctl] = 4 => app_status = 2
        /\ pc[Ctl] = 8 => app_status = 3
        /\ pc[Ctl] = 10 => app_status = 4
        /\ pc[Ctl] = 12 => app_status = 5
        /\ pc[Ctl] = 14 => app_status = 6
        /\ pc[Ctl] = 15 => app_status = 7
        /\ pc[Ctl] = 19 => app_status = 8
    BY <1>1, <1>3, CtlOn
  <2>2. pc[Ctl] = 15 => pc[0] = 35
    BY <2>1, RoundFull
  <2>3. pc[0] \in 29 .. 30 => last_status[0] \in {5, 7}
    BY <1>1 DEF RanksSaw
  <2>4. /\ pc[0] <= 6 => app_status = 0
        /\ pc[0] <= 12 => app_status <= 1
        /\ pc[0] <= 16 => app_status <= 2
        /\ pc[0] <= 24 => app_status <= 3
        /\ pc[0] <= 27 => app_status <= 4
        /\ pc[0] <= 38 => app_status <= 7
    BY ONLY AppSays, <1>1, <2>3 DEF AppSays
  <2> QED
    BY ONLY Heard, <1>1, <2>1, <2>2, <2>4 DEF Heard
<1>4. CASE CtlEnds \/ \E r \in Rank : RankEnds(r)
  <2>1. pc' = pc /\ (app_status' = app_status \/ pc[0] = 41)
    BY <1>4, Halted
  <2> QED
    BY ONLY Heard, <1>1, <2>1 DEF Heard
<1> QED
  BY <1>2, <1>3, <1>4, StepKinds

\* Between rounds, and after the last.
LEMMA AfterRoundKept ==
    ASSUME TypeInv, Aligned, Said, Heard, InRound, AfterRound, Next
    PROVE  AfterRound'
<1> USE DEF Said
<1>1. /\ pc[Ctl] \in 1 .. 21 /\ 0 \in Rank
      /\ \A q \in Rank : pc[q] \in 1 .. 41 /\ passed[q] \in Nat
  BY RankTypes, Actors DEF TypeInv, TypeOK
<1>2. ASSUME NEW r \in Rank, RankGoes(r) PROVE AfterRound'
  <2> SUFFICES ASSUME Later' PROVE AfterRound'
    BY DEF AfterRound
  <2>1. /\ pc'[Ctl] = pc[Ctl] /\ last_status'[Ctl] = last_status[Ctl]
        /\ pc'[r] = IF pc[r] = 36 /\ ~all_done[r] THEN 29 ELSE pc[r] + 1
        /\ \A q \in Rank \ {r} : pc'[q] = pc[q] /\ passed'[q] = passed[q]
                                 /\ last_status'[q] = last_status[q]
        /\ passed'[r] = IF IsBarrier(pc[r]) THEN passed[r] + 1 ELSE passed[r]
        /\ pc[r] \in 1 .. 40
        /\ last_status'[r] = IF pc[r] \in AppWaits THEN After(last_status[r])
                             ELSE IF pc[r] = 31 THEN 6 ELSE last_status[r]
    BY <1>2, GoingOn
  <2>2. Later
    BY ONLY <2>1, Later' DEF Later
  <2>3. /\ \A q \in Rank : /\ pc[q] >= 29 /\ pc[q] # 32
                           /\ pc[q] = 33 => passed[0] > passed[q]
        /\ pc[0] \notin 32 .. 34
        /\ pc[0] <= 31 => last_status[0] = 7
    BY ONLY <2>2, AfterRound DEF AfterRound
  <2>4. pc[r] # 31
    <3>1. ctl_status # 6
      BY ONLY CtlSays, <1>1, <2>2 DEF CtlSays, Later, Abort
    <3> QED
      BY <1>2, <3>1, RankHears
  <2>5. /\ pc[r] # 32 /\ (pc'[r] = pc[r] + 1 \/ (pc[r] = 36 /\ pc'[r] = 29))
        /\ passed'[0] >= passed[0]
    BY ONLY <1>1, <1>2, <2>1, <2>3
  <2>6. ASSUME NEW q \in Rank
        PROVE  /\ pc'[q] >= 29 /\ pc'[q] # 32
               /\ pc'[q] = 33 => passed'[0] > passed'[q]
    <3>1. CASE q = r
      <4>1. pc[r] >= 29 /\ pc[r] # 31 /\ pc[r] # 32 /\ pc[r] \in 1 .. 40
        BY <2>1, <2>3, <2>4
      <4>2. pc'[r] >= 29 /\ pc'[r] # 32 /\ pc'[r] # 33
        BY ONLY <2>5, <4>1
      <4> QED
        BY ONLY <3>1, <4>2
    <3>2. CASE q # r
      <4>1. pc'[q] = pc[q] /\ passed'[q] = passed[q]
        BY ONLY <2>1, <2>6, <3>2
      <4>2. passed'[0] = passed[0] \/ passed'[0] = passed[0] + 1
        BY ONLY <1>1, <1>2, <2>1
      <4> QED
        BY ONLY <1>1, <2>3, <2>6, <4>1, <4>2
    <3> QED
      BY <3>1, <3>2
  <2>7. /\ pc'[0] \notin 32 .. 34
        /\ pc'[0] <= 31 => last_status'[0] = 7
    <3>1. CASE r # 0
      BY ONLY <1>1, <2>1, <2>3, <3>1
    <3>2. CASE r = 0
      <4>1. pc[0] = 36 => last_status[0] = 7
        BY <1>1 DEF RanksSaw
      <4>2. pc[0] # 33
        BY ONLY <1>1, <2>3
      <4>3. pc'[0] <= 31 => pc[0] \in 29 .. 30 \/ pc[0] = 36
        BY ONLY <1>1, <2>3, <2>5, <3>2
      <4>4. pc'[0] <= 31 => last_status'[0] = last_status[0]
        BY ONLY <2>1, <3>2, <4>3 DEF AppWaits
      <4>5. pc'[0] \notin 32 .. 34
        BY ONLY <1>1, <2>3, <2>4, <2>5, <3>2, <4>2
      <4> QED
        BY ONLY <2>3, <4>1, <4>3, <4>4, <4>5
    <3> QED
      BY <3>1, <3>2
  <2> QED
    BY ONLY <2>6, <2>7 DEF AfterRound
<1>3. CASE CtlGoes
  <2> SUFFICES ASSUME Later' PROVE AfterRound'
    BY DEF AfterRound
  <2>1. /\ pc[Ctl] \in 1 .. 20 /\ passed' = passed
        /\ pc'[Ctl] = pc[Ctl] + 1 \/ (pc[Ctl] = 18 /\ pc'[Ctl] = 14)
        /\ \A q \in Rank : pc'[q] = pc[q] /\ last_status'[q] = last_status[q]
        /\ last_status'[Ctl] = IF pc[Ctl] \in CtlWaits THEN After(last_status[Ctl])
                               ELSE IF pc[Ctl] = 14 THEN 6 ELSE last_status[Ctl]
    BY <1>3, CtlOn
  <2>2. pc[Ctl] = 13 => last_status[Ctl] = 3
    BY DEF CtlSaw
  <2>3. pc[Ctl] = 17 \/ pc[Ctl] >= 18
    BY ONLY <2>1, <2>2, Later' DEF Later, CtlWaits
  <2>4. /\ \A q \in Rank : /\ pc[q] >= 29 /\ pc[q] # 32
                           /\ pc[q] = 33 => passed[0] > passed[q]
        /\ pc[0] \notin 32 .. 34
        /\ pc[0] <= 31 => last_status[0] = 7
    <3>1. CASE pc[Ctl] >= 18
      BY ONLY <3>1, AfterRound DEF AfterRound, Later
    <3>2. CASE pc[Ctl] = 17
      <4>1. pc[0] = 35 /\ \A q \in Rank : pc[q] \in 33 .. 35
        BY <3>2 DEF Heard, InRound
      <4>2. ASSUME NEW q \in Rank, pc[q] = 33 PROVE passed[0] > passed[q]
        <5>1. \/ InLeg(35, 33)
              \/ passed[0] = passed[q] + 1
          BY <1>1, <4>1, <4>2, Beside DEF AppBarriers
        <5>2. ~InLeg(35, 33)
          BY DEF InLeg, Leg
        <5> QED
          BY ONLY <1>1, <4>2, <5>1, <5>2
      <4> QED
        BY ONLY <4>1, <4>2
    <3> QED
      BY ONLY <2>3, <3>1, <3>2
  <2> QED
    BY ONLY <1>1, <2>1, <2>4 DEF AfterRound
<1>4. CASE CtlEnds \/ \E r \in Rank : RankEnds(r)
  <2>1. /\ pc' = pc /\ passed' = passed /\ \A q \in Rank : last_status'[q] = last_status[q]
        /\ last_status'[Ctl] = last_status[Ctl] \/ pc[Ctl] = 21
    BY <1>4, Halted
  <2>2. Later' => Later
    BY ONLY <2>1 DEF Later
  <2> QED
    BY ONLY AfterRound, <1>1, <2>1, <2>2 DEF AfterRound
<1> QED
  BY <1>2, <1>3, <1>4, StepKinds

\* Rank zero comes to the round, which no rank can have opened.
LEMMA NotOpened ==
    ASSUME TypeInv, Aligned, pc[0] \in {28, 36}, NEW p \in Rank, pc[p] \in 31 .. 33
    PROVE  passed[0] > passed[p]
<1>1. 0 \in Rank /\ passed[0] \in Nat /\ passed[p] \in Nat
  BY Actors, RankTypes
<1>2. InLeg(pc[0], pc[p]) \/ passed[0] = passed[p] + 1
  BY <1>1, Beside DEF AppBarriers
<1>3. ~InLeg(pc[0], pc[p])
  BY DEF InLeg, Leg
<1> QED
  BY <1>1, <1>2, <1>3

\* What the application says.
LEMMA AppSaysKept ==
    ASSUME TypeInv, Aligned, AppSays, RanksSaw, CtlSaw, Next
    PROVE  AppSays'
<1>1. /\ 0 \in Rank /\ pc[0] \in 1 .. 41
      /\ \A q \in Rank : pc[q] \in 1 .. 41 /\ passed[q] \in Nat
  BY RankTypes, Actors DEF TypeInv, TypeOK
<1>2. ASSUME RankGoes(0) PROVE AppSays'
  <2>1. /\ pc'[0] = pc[0] + 1 \/ (pc[0] = 36 /\ pc'[0] = 29)
        /\ pc[0] # 36 => pc'[0] = pc[0] + 1
        /\ \A q \in Rank \ {0} : pc'[q] = pc[q] /\ passed'[q] = passed[q]
        /\ passed'[0] = IF pc[0] \in AppBarriers THEN passed[0] + 1 ELSE passed[0]
        /\ pc[0] \in 1 .. 40
        /\ last_status'[0] = IF pc[0] \in AppWaits THEN After(last_status[0])
                             ELSE IF pc[0] = 31 THEN 6 ELSE last_status[0]
    BY <1>1, <1>2, GoingOn
  <2>2. app_status' = IF pc[0] = 30 THEN 6
                      ELSE IF pc[0] \in AppSteps THEN After(app_status)
                      ELSE IF pc[0] = 4 THEN 0 ELSE app_status
    BY <1>2 DEF RankGoes, RankWord
  <2>3. CASE pc[0] \in {28, 36} /\ pc'[0] = 29
    <3>1. passed'[0] = passed[0] /\ app_status' = app_status
      BY ONLY <2>1, <2>2, <2>3 DEF AppBarriers, AppSteps
    <3>2. last_status'[0] = app_status
      <4>1. pc[0] = 28 => last_status[0] = 4 /\ app_status = 5
        BY <1>1 DEF RanksSaw, AppSays
      <4>2. pc[0] = 36 => last_status[0] = 7 /\ app_status = 7
        BY <1>1 DEF RanksSaw, AppSays
      <4> QED
        BY ONLY <2>1, <2>3, <4>1, <4>2 DEF AppWaits, After, Shutdown
    <3>3. ~Opened'
      <4> SUFFICES ASSUME NEW p \in Rank, pc'[p] \in 31 .. 33 PROVE ~(passed'[p] >= passed'[0])
        BY DEF Opened
      <4>1. pc[p] = pc'[p] /\ passed'[p] = passed[p]
        BY <2>1, <2>3
      <4>2. passed[0] > passed[p]
        BY <2>3, <4>1, NotOpened
      <4> QED
        BY ONLY <1>1, <3>1, <4>1, <4>2
    <3> QED
      BY ONLY <2>3, <3>1, <3>2, <3>3 DEF AppSays
  <2>4. CASE pc[0] = 29
    <3>1. /\ pc'[0] = 30 /\ passed'[0] = passed[0] + 1 /\ app_status' = app_status
          /\ last_status'[0] = last_status[0]
      BY ONLY <2>1, <2>2, <2>4 DEF AppBarriers, AppSteps, AppWaits
    <3>2. Opened' <=> Opened
      <4>1. ASSUME NEW p \in Rank, pc[p] \in 31 .. 33, passed[p] >= passed[0]
            PROVE  pc'[p] \in 31 .. 33 /\ passed'[p] >= passed'[0]
        <5>1. pc'[p] = pc[p] /\ passed'[p] = passed[p]
          BY <2>1, <2>4, <4>1
        <5>2. passed[p] # passed[0]
          <6>1. ~InLeg(pc[p], 29)
            BY <4>1 DEF InLeg, Leg
          <6> QED
            BY <1>1, <2>4, <6>1 DEF Aligned, Together
        <5> QED
          BY <1>1, <3>1, <4>1, <5>1, <5>2
      <4>2. ASSUME NEW p \in Rank, pc'[p] \in 31 .. 33, passed'[p] >= passed'[0]
            PROVE  pc[p] \in 31 .. 33 /\ passed[p] >= passed[0]
        BY <1>1, <2>1, <3>1, <4>2
      <4> QED
        BY <4>1, <4>2 DEF Opened
    <3> QED
      BY ONLY AppSays, <2>4, <3>1, <3>2 DEF AppSays
  <2>5. CASE pc[0] \notin {28, 29, 36}
    <3>1. pc'[0] = pc[0] + 1
      BY ONLY <2>1, <2>5
    <3>2. CASE pc[0] <= 27
      BY ONLY AppSays, <2>1, <2>2, <3>1, <3>2 DEF AppSays, AppSteps, After, Shutdown
    <3>3. CASE pc[0] >= 30
      <4>1. pc[0] = 30 => app_status' = 6
        BY ONLY <2>2
      <4> QED
        BY ONLY AppSays, <2>1, <2>2, <2>5, <3>1, <3>3, <4>1
           DEF AppSays, AppSteps, After, Shutdown
    <3> QED
      BY ONLY <2>1, <2>5, <3>2, <3>3
  <2>6. CASE pc[0] = 36 /\ pc'[0] = 37
    BY ONLY AppSays, <2>2, <2>6 DEF AppSays, AppSteps
  <2> QED
    BY ONLY <2>1, <2>3, <2>4, <2>5, <2>6
<1>3. ASSUME NEW r \in Rank \ {0}, RankGoes(r) PROVE AppSays'
  <2>1. /\ pc'[0] = pc[0] /\ passed'[0] = passed[0] /\ last_status'[0] = last_status[0]
        /\ pc'[r] = pc[r] + 1 \/ (pc[r] = 36 /\ pc'[r] = 29)
        /\ \A q \in Rank \ {r} : pc'[q] = pc[q] /\ passed'[q] = passed[q]
        /\ passed'[r] = IF pc[r] \in AppBarriers THEN passed[r] + 1 ELSE passed[r]
        /\ pc[r] \in 1 .. 40 /\ (IsBarrier(pc[r]) <=> pc[r] \in AppBarriers)
    BY <1>1, <1>3, GoingOn
  <2>2. app_status' = IF pc[r] = 30 THEN 6 ELSE app_status
    BY <1>3 DEF RankGoes, RankWord
  <2>3. CASE pc[r] = 30
    <3>1. pc[0] \in 29 .. 33 /\ passed[r] >= passed[0]
      <4>1. \/ passed[0] = passed[r] /\ InLeg(30, pc[0])
            \/ passed[r] = passed[0] + 1 /\ pc[0] \in AppBarriers /\ InLeg(pc[0] + 1, 30)
        BY <1>1, <2>3, Beside DEF AppBarriers
      <4>2. InLeg(30, pc[0]) => pc[0] \in 29 .. 33
        BY <1>1 DEF InLeg, Leg
      <4>3. pc[0] \in AppBarriers /\ InLeg(pc[0] + 1, 30) => pc[0] = 29
        BY DEF InLeg, Leg, AppBarriers
      <4> QED
        BY ONLY <1>1, <1>3, <4>1, <4>2, <4>3
    <3>2. pc'[r] = 31 /\ passed'[r] = passed[r] /\ app_status' = 6
      BY ONLY <2>1, <2>2, <2>3 DEF AppBarriers
    <3>3. Opened'
      BY <2>1, <3>1, <3>2 DEF Opened
    <3> QED
      BY ONLY <2>1, <3>1, <3>2, <3>3 DEF AppSays
  <2>4. CASE pc[r] # 30
    <3>1. ASSUME pc[0] \in 29 .. 30 PROVE Opened' <=> Opened
      <4>1. pc[r] = 33 => passed[0] > passed[r]
        <5>1. pc[r] = 33 => passed[0] = passed[r] + 1 \/ (passed[0] = passed[r] /\ IsBarrier(pc[0]))
          BY <1>1, <1>3, <2>1, Ahead DEF Aligned, AppBarriers
        <5>3. pc[r] = 33 /\ passed[0] = passed[r] => InLeg(33, pc[0])
          BY <1>1 DEF Aligned, Together
        <5>4. IsBarrier(pc[0]) => pc[0] = 29
          BY <3>1, AppCalls
        <5>5. ~InLeg(33, 29)
          BY DEF InLeg, Leg
        <5> QED
          BY <1>1, <5>1, <5>3, <5>4, <5>5
      <4>2. pc[r] \in 31 .. 33 /\ passed[r] >= passed[0]
              => pc'[r] \in 31 .. 33 /\ passed'[r] >= passed'[0]
        BY <1>1, <2>1, <4>1 DEF AppBarriers
      <4>3. pc'[r] \in 31 .. 33 => pc[r] \in 31 .. 33 /\ passed'[r] = passed[r]
        BY ONLY <2>1, <2>4 DEF AppBarriers
      <4>4. \A q \in Rank : pc[q] \in 31 .. 33 /\ passed[q] >= passed[0]
                              => pc'[q] \in 31 .. 33 /\ passed'[q] >= passed'[0]
        BY ONLY <2>1, <4>2
      <4>5. \A q \in Rank : pc'[q] \in 31 .. 33 /\ passed'[q] >= passed'[0]
                              => pc[q] \in 31 .. 33 /\ passed[q] >= passed[0]
        BY ONLY <2>1, <4>3
      <4> QED
        BY ONLY <4>4, <4>5 DEF Opened
    <3>2. CASE pc[0] \in 29 .. 30
      <4>1. Opened' <=> Opened
        BY ONLY <3>1, <3>2
      <4>2. /\ Opened => app_status = 6
            /\ ~Opened => app_status = last_status[0]
        BY ONLY AppSays, <3>2 DEF AppSays
      <4> QED
        BY ONLY <2>1, <2>2, <2>4, <3>2, <4>1, <4>2 DEF AppSays
    <3>3. CASE pc[0] \notin 29 .. 30
      BY ONLY AppSays, <2>1, <2>2, <2>4, <3>3 DEF AppSays
    <3> QED
      BY ONLY <3>2, <3>3
  <2> QED
    BY <2>3, <2>4
<1>4. CASE CtlGoes
  <2>1. /\ \A q \in Rank : pc'[q] = pc[q] /\ last_status'[q] = last_status[q]
        /\ passed' = passed /\ app_status' = app_status
    BY <1>4, CtlOn
  <2>2. Opened' <=> Opened
    BY ONLY <1>1, <2>1 DEF Opened
  <2> QED
    BY ONLY AppSays, <1>1, <2>1, <2>2 DEF AppSays
<1>5. CASE CtlEnds \/ \E r \in Rank : RankEnds(r)
  <2>1. /\ pc' = pc /\ passed' = passed /\ last_status'[0] = last_status[0]
        /\ app_status' = app_status \/ (pc[0] = 41 /\ app_status' = After(app_status))
    BY <1>1, <1>5, Halted
  <2>2. Opened' <=> Opened
    BY ONLY <2>1 DEF Opened
  <2> QED
    BY ONLY AppSays, <2>1, <2>2 DEF AppSays, After, Shutdown
<1> QED
  BY <1>2, <1>3, <1>4, <1>5, StepKinds

\* The words, the waits and the rounds, whatever happens.
LEMMA TripInvariance == Spec => []TripInv
<1>1. Init => TripInv
  <2> SUFFICES ASSUME Init PROVE TripInv
    OBVIOUS
  <2>1. /\ \A r \in Rank : pc[r] = 1 /\ last_status[r] = 0
        /\ pc[Ctl] = 1 /\ last_status[Ctl] = 0 /\ ctl_status = 0 /\ app_status = 0 /\ 0 \in Rank
    BY Actors DEF Init
  <2>2. AppSays
    BY ONLY <2>1 DEF AppSays
  <2>3. CtlSays /\ CtlSaw
    BY ONLY <2>1 DEF CtlSays, CtlSaw
  <2>4. RanksSaw /\ Waited
    BY ONLY <2>1 DEF RanksSaw, Waited, First, Later
  <2>5. Heard /\ InRound /\ AfterRound
    BY ONLY <2>1 DEF Heard, InRound, AfterRound, Later
  <2> QED
    BY ONLY <2>2, <2>3, <2>4, <2>5 DEF TripInv, Said
<1>2. TypeInv /\ Aligned /\ TripInv /\ [Next]_vars => TripInv'
  <2> SUFFICES ASSUME TypeInv, Aligned, TripInv, [Next]_vars PROVE TripInv'
    OBVIOUS
  <2>1. CASE Next
    <3>1. AppSays' /\ CtlSays' /\ RanksSaw' /\ CtlSaw'
      BY <2>1, AppSaysKept, CtlSaysKept, RanksSawKept, CtlSawKept DEF TripInv, Said
    <3>2. Waited' /\ Heard'
      BY <2>1, WaitedKept, HeardKept DEF TripInv
    <3>3. InRound' /\ AfterRound'
      BY <2>1, InRoundKept, AfterRoundKept DEF TripInv
    <3> QED
      BY ONLY <3>1, <3>2, <3>3 DEF TripInv, Said
  <2>2. CASE UNCHANGED vars
    <3>1. UNCHANGED <<pc, passed, fate, last_status, app_status, ctl_status>>
      BY <2>2 DEF vars, actorVars, statusVars
    <3>2. AppSays'
      <4>1. Opened' <=> Opened
        BY ONLY <3>1 DEF Opened
      <4> QED
        BY ONLY TripInv, <3>1, <4>1 DEF TripInv, Said, AppSays
    <3>3. CtlSays' /\ CtlSaw'
      BY ONLY TripInv, <3>1 DEF TripInv, Said, CtlSays, CtlSaw
    <3>4. RanksSaw' /\ Waited'
      BY ONLY TripInv, <3>1 DEF TripInv, Said, RanksSaw, Waited, First, Later
    <3>5. Heard' /\ InRound' /\ AfterRound'
      BY ONLY TripInv, <3>1 DEF TripInv, Heard, InRound, AfterRound, Later
    <3> QED
      BY ONLY <3>2, <3>3, <3>4, <3>5 DEF TripInv, Said
  <2> QED
    BY <2>1, <2>2
<1> QED
  BY <1>1, <1>2, TypesOfHandshake, AlignedInvariance, PTL DEF Spec

\* The call an actor is at, when it runs.
LEMMA CalledAt ==
    ASSUME TypeInv
    PROVE  /\ \A r \in Rank : pc[r] \in {30, 31} /\ fate[r] = "running"
                                => At(r, "loop_set") \/ At(r, "loop_spin")
           /\ pc[Ctl] = 19 => Past(Ctl, "again")
<1>1. AppScript[30] = "loop_set" /\ AppScript[31] = "loop_spin"
  BY DEF AppScript
<1>2. Place(CtlScript, "again") = 18
  BY CtlCalls DEF Place, CtlScript
<1> QED
  BY <1>1, <1>2, Actors DEF At, Past

\* A table is read in the round in which it was filled: while the controller
\* reads the names (name_fill() of ProfileSampler) no rank writes any.
THEOREM NamesAtRest == Spec => []NobodyFills
<1>1. TypeInv /\ TripInv => NobodyFills
  <2> SUFFICES ASSUME TypeInv, TripInv, At(Ctl, "collect"), NEW r \in Rank, At(r, "fill")
               PROVE  FALSE
    BY DEF NobodyFills
  <2>1. pc[Ctl] = 16 /\ pc[r] = 32
    BY CtlPlaces, AppPlaces
  <2> QED
    BY ONLY TripInv, <2>1 DEF TripInv, InRound
<1> QED
  BY <1>1, TypesOfHandshake, TripInvariance, PTL

\* As long as both sides make the same trips through the loop of the names,
\* nobody's next state is overwritten before it was seen: at every wait() the
\* other side says what was seen last, what is waited for, or that it gave up.
THEOREM NothingMissed == Spec => [](SameTrips => NoStateMissed)
<1>1. TypeInv /\ Aligned /\ TripInv => (SameTrips => NoStateMissed)
  <2> SUFFICES ASSUME TypeInv, Aligned, TripInv, SameTrips, NEW a \in Actor, At(a, "wait")
               PROVE  Seen(a) \in {last_status[a], After(last_status[a]), Abort}
    BY DEF NoStateMissed
  <2>1. /\ AppSays /\ CtlSays /\ RanksSaw /\ CtlSaw
        /\ Waited /\ Heard /\ InRound /\ AfterRound
    BY DEF TripInv, Said
  <2>2. /\ 0 \in Rank /\ pc[0] \in 1 .. 41 /\ pc[Ctl] \in 1 .. 21
    BY Actors, RankTypes
  <2>3. CASE a = Ctl
    <3>1. Seen(a) = app_status /\ pc[Ctl] \in CtlWaits /\ fate[Ctl] = "running"
      BY <2>3, CtlPlaces DEF Seen
    <3>2. CASE pc[Ctl] \in {2, 4, 8}
      <4>1. /\ pc[Ctl] = 2 => last_status[Ctl] = 0 /\ pc[0] <= 7
            /\ pc[Ctl] = 4 => last_status[Ctl] = 1 /\ pc[0] \in 7 .. 13
            /\ pc[Ctl] = 8 => last_status[Ctl] = 2 /\ pc[0] \in 13 .. 17
        BY ONLY <2>1, <2>2, <3>2 DEF CtlSaw, Waited, Heard
      <4>2. /\ pc[0] <= 6 => app_status = 0
            /\ pc[0] \in 7 .. 12 => app_status = 1
            /\ pc[0] \in 13 .. 16 => app_status = 2
            /\ pc[0] = 17 => app_status = 3
        BY ONLY <2>1 DEF AppSays
      <4> QED
        BY ONLY <2>2, <2>3, <3>1, <3>2, <4>1, <4>2 DEF After, Shutdown
    <3>3. CASE pc[Ctl] = 15
      <4>1. last_status[Ctl] = 6 /\ (pc[0] <= 34 => app_status = 6) /\ pc[0] <= 35
        BY ONLY <2>1, <2>2, <3>3 DEF CtlSaw, Waited, Heard
      <4>2. pc[0] = 35 => app_status = 7
        BY ONLY <2>1 DEF AppSays
      <4> QED
        BY ONLY <2>2, <2>3, <3>1, <4>1, <4>2 DEF After, Shutdown
    <3>4. CASE pc[Ctl] = 19
      <4>1. ASSUME NEW r \in Rank PROVE pc[r] \notin 30 .. 31
        <5>1. Past(Ctl, "again")
          BY <3>4, CalledAt
        <5>2. ~At(r, "loop_set") /\ ~At(r, "loop_spin")
          BY <5>1 DEF SameTrips
        <5>3. ~(pc[r] \in {30, 31} /\ fate[r] = "running")
          BY <5>2, CalledAt
        <5>4. fate[r] # "running" => pc[r] \notin 30 .. 31
          BY DEF Aligned, Ended, AppEnds
        <5> QED
          BY ONLY <5>3, <5>4
      <4>2. Later /\ last_status[Ctl] = 7 /\ pc[0] <= 39
        BY ONLY <2>1, <2>2, <3>4 DEF CtlSaw, Later, Waited
      <4>3. /\ \A r \in Rank : /\ pc[r] >= 29 /\ pc[r] # 32
                               /\ pc[r] = 33 => passed[0] > passed[r]
            /\ pc[0] \notin 32 .. 34
            /\ pc[0] <= 31 => last_status[0] = 7
        BY ONLY <2>1, <4>2 DEF AfterRound
      <4>4. ~Opened
        <5> SUFFICES ASSUME NEW r \in Rank, pc[r] \in 31 .. 33, passed[r] >= passed[0]
                     PROVE  FALSE
          BY DEF Opened
        <5>1. pc[r] = 33 /\ passed[0] > passed[r]
          BY <4>1, <4>3
        <5>2. passed[r] \in Nat /\ passed[0] \in Nat
          BY <2>2, RankTypes
        <5> QED
          BY ONLY <5>1, <5>2, passed[r] >= passed[0]
      <4>5. pc[0] = 29 \/ pc[0] \in 35 .. 39
        BY ONLY <2>2, <4>1, <4>2, <4>3
      <4>6. app_status \in {7, 8}
        BY ONLY <2>1, <4>3, <4>4, <4>5 DEF AppSays
      <4> QED
        BY ONLY <2>3, <3>1, <4>2, <4>6 DEF After, Shutdown
    <3>5. CASE pc[Ctl] = 21
      <4>1. last_status[Ctl] = 8 /\ pc[0] >= 39
        BY ONLY <2>1, <3>1, <3>5 DEF CtlSaw, Heard
      <4>2. app_status \in {8, 9}
        BY ONLY <2>1, <2>2, <4>1 DEF AppSays
      <4> QED
        BY ONLY <2>3, <3>1, <4>1, <4>2 DEF After, Shutdown
    <3> QED
      BY ONLY <3>1, <3>2, <3>3, <3>4, <3>5 DEF CtlWaits
  <2>4. CASE a \in Rank
    <3>1. /\ Seen(a) = ctl_status /\ pc[a] \in AppWaits
          /\ pc[a] # 33 /\ pc[a] \notin AppBarriers
      BY <2>4, AppPlaces, Actors DEF Seen, AppWaits, AppBarriers
    <3>2. \/ passed[0] = passed[a] /\ InLeg(pc[a], pc[0])
          \/ pc[0] \in AppBarriers /\ InLeg(pc[0] + 1, pc[a])
      BY <2>2, <2>4, <3>1, Beside
    <3>3. /\ pc[a] = 7 => pc[0] <= 9
          /\ pc[a] = 13 => pc[0] <= 15
          /\ pc[a] = 17 => pc[0] <= 18
          /\ pc[a] = 25 => pc[0] <= 26
          /\ pc[a] = 35 => pc[0] <= 37
      BY ONLY <2>2, <3>1, <3>2 DEF InLeg, Leg, AppBarriers
    <3>4. /\ pc[a] = 7 => pc[Ctl] <= 4
          /\ pc[a] = 13 => pc[Ctl] \in 4 .. 8
          /\ pc[a] = 17 => pc[Ctl] \in 7 .. 10
          /\ pc[a] = 25 => pc[Ctl] \in 10 .. 12
          /\ pc[a] = 35 => pc[Ctl] < 20
      <4>1. /\ pc[Ctl] > 4 => pc[0] > 12
            /\ pc[Ctl] > 8 => pc[0] > 16
            /\ pc[Ctl] > 10 => pc[0] > 24
            /\ pc[Ctl] > 12 => pc[0] > 27
            /\ pc[Ctl] >= 20 => pc[0] >= 39
        BY ONLY <2>1 DEF Heard
      <4>2. /\ pc[Ctl] <= 3 => pc[a] <= 7
            /\ pc[Ctl] <= 6 => pc[a] <= 13
            /\ pc[Ctl] <= 9 => pc[a] <= 17
        BY ONLY <2>1, <2>4 DEF Waited
      <4> QED
        BY ONLY <2>2, <3>3, <4>1, <4>2
    <3>5. First \/ Later \/ pc[Ctl] <= 13 \/ pc[Ctl] \in 15 .. 17
      BY ONLY <2>1, <2>2 DEF First, Later, CtlSaw
    <3>6. pc[a] = 28 => pc[Ctl] \in 12 .. 13 \/ First
      <4>1. /\ pc[Ctl] <= 11 => pc[a] <= 25
            /\ pc[Ctl] \in 15 .. 17 => pc[a] >= 29
            /\ Later => pc[a] >= 29
        BY ONLY <2>1, <2>4 DEF Waited, InRound, AfterRound
      <4> QED
        BY ONLY <2>2, <3>5, <4>1
    <3>7. pc[a] \in {35, 39} => pc[Ctl] > 13 /\ ~First
      <4>1. /\ pc[Ctl] <= 13 => pc[a] <= 28
            /\ First => pc[a] <= 31
        BY ONLY <2>1, <2>4 DEF Waited
      <4> QED
        BY ONLY <2>2, <4>1
    <3>8. pc[a] = 39 => Later
      <4>1. pc[Ctl] \in 15 .. 17 => pc[a] <= 35
        BY ONLY <2>1, <2>4 DEF Waited
      <4> QED
        BY ONLY <2>2, <3>5, <3>7, <4>1
    <3>9. CASE pc[a] \in {7, 13, 17, 25}
      <4>1. /\ pc[a] = 7 => last_status[a] = 0
            /\ pc[a] = 13 => last_status[a] = 1
            /\ pc[a] = 17 => last_status[a] = 2
            /\ pc[a] = 25 => last_status[a] = 3
        BY ONLY <2>1, <2>4 DEF RanksSaw
      <4>2. \/ ctl_status = Abort
            \/ /\ pc[Ctl] <= 3 => ctl_status = 0
               /\ pc[Ctl] \in 4 .. 6 => ctl_status = 1
               /\ pc[Ctl] \in 7 .. 9 => ctl_status = 2
               /\ pc[Ctl] \in 10 .. 11 => ctl_status = 3
               /\ pc[Ctl] = 12 => ctl_status = 4
        BY ONLY <2>1 DEF CtlSays
      <4>3. /\ pc[a] = 7 => ctl_status \in {0, 1, Abort}
            /\ pc[a] = 13 => ctl_status \in {1, 2, Abort}
            /\ pc[a] = 17 => ctl_status \in {2, 3, Abort}
            /\ pc[a] = 25 => ctl_status \in {3, 4, Abort}
        BY ONLY <2>2, <3>4, <4>2
      <4> QED
        BY ONLY <3>1, <3>9, <4>1, <4>3 DEF After, Shutdown
    <3>10. CASE pc[a] = 28
      <4>1. last_status[a] = 4 /\ ctl_status \in {4, 5, Abort}
        BY ONLY <2>1, <2>4, <3>6, <3>10 DEF RanksSaw, CtlSays, First
      <4> QED
        BY ONLY <3>1, <4>1 DEF After, Shutdown
    <3>11. CASE pc[a] = 35
      <4>1. ctl_status \in {6, 7, Abort}
        BY ONLY <2>1, <2>2, <3>4, <3>5, <3>7, <3>11 DEF CtlSays, Later
      <4>2. last_status[a] = 6
        BY ONLY <2>1, <2>4, <3>11 DEF RanksSaw
      <4> QED
        BY ONLY <3>1, <4>1, <4>2 DEF After, Shutdown
    <3>12. CASE pc[a] = 39
      <4>1. ctl_status \in {7, 8, Abort}
        BY ONLY <2>1, <2>2, <3>8, <3>12 DEF CtlSays, Later
      <4>2. last_status[a] = 7
        BY ONLY <2>1, <2>4, <3>12 DEF RanksSaw
      <4> QED
        BY ONLY <3>1, <4>1, <4>2 DEF After, Shutdown
    <3> QED
      BY ONLY <3>1, <3>9, <3>10, <3>11, <3>12 DEF AppWaits
  <2> QED
    BY <2>3, <2>4 DEF Actor
<1> QED
  BY <1>1, TypesOfHandshake, AlignedInvariance, TripInvariance, PTL

-----------------------------------------------------------------------------
(* The names.                                                              *)

\* The table of a rank holds a chunk that the controller has not read.
Filled(r) == pc[Ctl] \in 15 .. 16 /\ pc[r] \in 33 .. 35

\* The controller has the first chunks of a rank.
Known(r, count) == \A c \in 1 .. count : <<r, c>> \in names

\* What it has of a rank: all but the chunk in the table, and what is to come.
HasNames(r) ==
    IF Filled(r)
    THEN /\ is_done[r] <=> buffer[r] = chunks[r]
         /\ ~is_done[r] => position[r] = buffer[r] + 1
         /\ Known(r, buffer[r] - 1)
    ELSE Known(r, position[r] - 1)

NamesInv ==
    /\ pc[Ctl] <= 5 => \A r \in Rank : position[r] = 1
    /\ \A r \in tables \ finished : HasNames(r)
    /\ \A r \in finished : Known(r, chunks[r])
    /\ pc[Ctl] >= 19 => finished = tables

\* The types of the names.
LEMMA NameTypes ==
    ASSUME TypeInv, NEW r \in Rank
    PROVE  /\ position[r] \in Nat /\ position[r] >= 1 /\ position[r] <= chunks[r]
           /\ buffer[r] \in Nat /\ is_done[r] \in BOOLEAN
           /\ chunks[r] \in Nat /\ chunks[r] >= 1
           /\ position \in [Rank -> Nat] /\ buffer \in [Rank -> Nat]
           /\ is_done \in [Rank -> BOOLEAN]
           /\ tables \subseteq Rank /\ finished \subseteq tables
<1>1. chunks \in ChunkCounts
  BY DEF TypeInv, TypeOK
<1>2. chunks \in [Rank -> Nat \ {0}]
  BY <1>1, ChunkAssumption
<1>3. /\ position \in [Rank -> Nat] /\ buffer \in [Rank -> Nat] /\ is_done \in [Rank -> BOOLEAN]
      /\ position[r] \in 1 .. chunks[r]
      /\ tables \subseteq Rank /\ finished \subseteq tables
  BY DEF TypeInv, TypeOK
<1> QED
  BY ONLY <1>2, <1>3, r \in Rank

\* A rank fills its table only while the controller waits in a round.
LEMMA FillsInRound ==
    ASSUME TypeInv, TripInv, NEW r \in Rank, pc[r] = 32
    PROVE  pc[Ctl] = 15
<1>1. pc[Ctl] \in 1 .. 21
  BY RankTypes, Actors
<1>2. First \/ Later \/ pc[Ctl] <= 13 \/ pc[Ctl] \in 15 .. 17
  BY ONLY TripInv, <1>1 DEF TripInv, Said, CtlSaw, First, Later
<1>3. /\ First => pc[r] <= 31
      /\ Later => pc[r] # 32
      /\ pc[Ctl] <= 13 => pc[r] <= 28
      /\ pc[Ctl] \in 16 .. 17 => pc[r] \in 33 .. 35
  BY DEF TripInv, Waited, AfterRound, InRound
<1> QED
  BY ONLY <1>1, <1>2, <1>3, pc[r] = 32

\* Only by filling its table a rank makes it full, and none is emptied by a rank.
LEMMA FilledByRank ==
    ASSUME TypeInv, TripInv, NEW r \in Rank, RankGoes(r), pc[r] # 32, NEW q \in Rank
    PROVE  Filled(q)' <=> Filled(q)
<1>1. /\ pc'[Ctl] = pc[Ctl]
      /\ q # r => pc'[q] = pc[q]
      /\ pc'[r] = pc[r] + 1 \/ (pc[r] = 36 /\ pc'[r] = 29)
      /\ pc[r] \in 1 .. 40
  BY GoingOn, RankTypes, Actors
<1>2. CASE q # r
  BY ONLY <1>1, <1>2 DEF Filled
<1>3. CASE pc[Ctl] \notin 15 .. 16
  BY ONLY <1>1, <1>3 DEF Filled
<1>4. CASE q = r /\ pc[Ctl] \in 15 .. 16
  <2>1. pc[r] \in 29 .. 35
    BY <1>1, <1>4 DEF TripInv, InRound, Waited
  <2>2. pc[r] # 35
    <3>1. ctl_status = 6
      BY <1>4 DEF TripInv, Said, CtlSays
    <3>2. pc[r] = 35 => ctl_status = 7
      BY RankHears DEF TripInv, Said
    <3> QED
      BY ONLY <3>1, <3>2
  <2> QED
    BY ONLY pc[r] # 32, <1>1, <1>4, <2>1, <2>2 DEF Filled
<1> QED
  BY ONLY <1>2, <1>3, <1>4

\* The controller empties the tables when it reads them, and then only.
LEMMA FilledByCtl ==
    ASSUME TypeInv, Aligned, TripInv, CtlGoes, pc[Ctl] # 16, NEW q \in Rank
    PROVE  Filled(q)' <=> Filled(q)
<1>1. /\ pc[Ctl] \in 1 .. 20
      /\ pc'[Ctl] = IF pc[Ctl] = 18 /\ finished # tables THEN 14 ELSE pc[Ctl] + 1
      /\ pc'[q] = pc[q]
      /\ pc[Ctl] = 14 => app_status = 6
  BY CtlOn DEF TripInv, Said
<1>2. CASE pc[Ctl] = 14
  <2>1. pc[q] \in 29 .. 31
    BY <1>1, <1>2, OpenRound DEF TripInv, Said
  <2> QED
    BY ONLY <1>1, <2>1 DEF Filled
<1>3. CASE pc[Ctl] = 15
  BY ONLY <1>1, <1>3 DEF Filled
<1>4. CASE pc[Ctl] \notin 14 .. 15
  <2>1. pc'[Ctl] \notin 15 .. 16 /\ pc[Ctl] \notin 15 .. 16
    BY ONLY pc[Ctl] # 16, <1>1, <1>4
  <2> QED
    BY ONLY <2>1 DEF Filled
<1> QED
  BY ONLY <1>1, <1>2, <1>3, <1>4

\* A rank that goes on.
LEMMA NamesOfRank ==
    ASSUME TypeInv, TripInv, NamesInv, NEW r \in Rank, RankGoes(r)
    PROVE  NamesInv'
<1>1. /\ pc'[Ctl] = pc[Ctl] /\ pc[Ctl] \in 1 .. 21
      /\ \A q \in Rank \ {r} : pc'[q] = pc[q]
      /\ pc'[r] = pc[r] + 1 \/ (pc[r] = 36 /\ pc'[r] = 29)
      /\ pc[r] \in 1 .. 40
  BY GoingOn, RankTypes, Actors
<1>2. UNCHANGED <<tables, chunks, finished, names>>
  BY DEF RankGoes, RankNames
<1>3. tables \subseteq Rank /\ finished \subseteq tables
  BY NameTypes
<1>4. CASE pc[r] = 32
  <2>1. pc[Ctl] = 15 /\ pc'[r] = 33
    BY <1>1, <1>4, FillsInRound
  <2>2. /\ buffer' = [buffer EXCEPT ![r] = position[r]]
        /\ is_done' = [is_done EXCEPT ![r] = position[r] = chunks[r]]
        /\ position' = [position EXCEPT ![r] = IF @ = chunks[r] THEN 1 ELSE @ + 1]
    BY <1>4 DEF RankGoes, RankNames
  <2>3. /\ \A q \in Rank \ {r} : /\ buffer'[q] = buffer[q] /\ is_done'[q] = is_done[q]
                                 /\ position'[q] = position[q]
        /\ buffer'[r] = position[r]
        /\ is_done'[r] <=> position[r] = chunks[r]
        /\ position[r] # chunks[r] => position'[r] = position[r] + 1
    BY <2>2, NameTypes
  <2>4. ASSUME NEW q \in Rank \ {r}, HasNames(q) PROVE HasNames(q)'
    <3>1. Filled(q)' <=> Filled(q)
      BY ONLY <1>1, <2>4 DEF Filled
    <3> QED
      BY ONLY <1>2, <2>3, <2>4, <3>1 DEF HasNames, Known
  <2>5. ASSUME HasNames(r) PROVE HasNames(r)'
    <3>1. ~Filled(r) /\ Filled(r)'
      BY ONLY <1>1, <1>4, <2>1 DEF Filled
    <3>2. Known(r, position[r] - 1)
      BY ONLY <2>5, <3>1 DEF HasNames
    <3>3. Known(r, buffer[r] - 1)'
      BY ONLY <1>2, <2>3, <3>2 DEF Known
    <3> QED
      BY ONLY <1>2, <2>3, <3>1, <3>3 DEF HasNames
  <2>6. \A q \in tables' \ finished' : HasNames(q)'
    BY <1>2, <1>3, <2>4, <2>5 DEF NamesInv
  <2>7. \A q \in finished' : Known(q, chunks[q])'
    BY ONLY NamesInv, <1>2 DEF NamesInv, Known
  <2> QED
    BY ONLY NamesInv, <1>1, <1>2, <2>1, <2>6, <2>7 DEF NamesInv
<1>5. CASE pc[r] # 32
  <2>1. UNCHANGED <<buffer, is_done, position>>
    BY <1>5 DEF RankGoes, RankNames
  <2>2. \A q \in Rank : Filled(q)' <=> Filled(q)
    BY <1>5, FilledByRank
  <2>3. ASSUME NEW q \in Rank, HasNames(q) PROVE HasNames(q)'
    <3>1. Filled(q)' <=> Filled(q)
      BY <2>2
    <3> QED
      BY ONLY <1>2, <2>1, <2>3, <3>1 DEF HasNames, Known
  <2>4. \A q \in tables' \ finished' : HasNames(q)'
    BY <1>2, <1>3, <2>3 DEF NamesInv
  <2>5. \A q \in finished' : Known(q, chunks[q])'
    BY ONLY NamesInv, <1>2 DEF NamesInv, Known
  <2> QED
    BY ONLY NamesInv, <1>1, <1>2, <2>1, <2>4, <2>5 DEF NamesInv
<1> QED
  BY <1>4, <1>5

\* The controller, when it goes on.
LEMMA NamesOfCtl ==
    ASSUME TypeInv, TypeInv', Aligned, TripInv, NamesInv, CtlGoes
    PROVE  NamesInv'
<1>1. /\ pc[Ctl] \in 1 .. 20
      /\ pc'[Ctl] = IF pc[Ctl] = 18 /\ finished # tables THEN 14 ELSE pc[Ctl] + 1
      /\ \A q \in Rank : pc'[q] = pc[q]
      /\ pc[Ctl] = 14 => app_status = 6
      /\ pc[Ctl] = 15 => app_status = 7
  BY CtlOn DEF TripInv, Said
<1>2. /\ UNCHANGED <<buffer, is_done, position, chunks>>
      /\ pc[Ctl] # 5 => tables' = tables
      /\ pc[Ctl] # 16 => UNCHANGED <<names, finished>>
      /\ pc[Ctl] = 16 => /\ names' = names \cup {<<r, buffer[r]>> : r \in tables \ finished}
                         /\ finished' = finished \cup {r \in tables \ finished : is_done[r]}
  BY DEF CtlGoes, CtlNames
<1>3. tables \subseteq Rank /\ finished \subseteq tables /\ tables' \subseteq Rank
  BY DEF TypeInv, TypeOK
<1>4. CASE pc[Ctl] = 5
  <2>1. finished = {} /\ pc'[Ctl] = 6 /\ UNCHANGED <<names, finished>>
    BY <1>1, <1>2, <1>4 DEF TypeInv
  <2>2. \A q \in Rank : position'[q] = 1
    BY <1>2, <1>4 DEF NamesInv
  <2>3. \A q \in tables' \ finished' : HasNames(q)'
    BY ONLY <1>3, <2>1, <2>2 DEF HasNames, Filled, Known
  <2> QED
    BY ONLY <2>1, <2>3 DEF NamesInv
<1>5. CASE pc[Ctl] = 16
  <2>1. pc'[Ctl] = 17 /\ tables' = tables
    BY ONLY <1>1, <1>2, <1>5
  <2>2. ASSUME NEW q \in tables \ finished
        PROVE  /\ Known(q, buffer[q] - 1) /\ <<q, buffer[q]>> \in names'
               /\ is_done[q] <=> buffer[q] = chunks[q]
               /\ ~is_done[q] => position[q] = buffer[q] + 1
    <3>1. q \in Rank /\ HasNames(q)
      BY <1>3 DEF NamesInv
    <3>2. Filled(q)
      BY <1>5, <3>1 DEF TripInv, InRound, Filled
    <3>3. <<q, buffer[q]>> \in names'
      BY <1>2, <1>5
    <3> QED
      BY ONLY <3>1, <3>2, <3>3 DEF HasNames
  <2>3. names \subseteq names'
    BY <1>2, <1>5
  <2>4. ASSUME NEW q \in tables \ finished PROVE Known(q, buffer[q])'
    <3>1. buffer[q] \in Nat /\ buffer'[q] = buffer[q]
      BY <1>2, <1>3, NameTypes
    <3>2. \A c \in 1 .. buffer[q] - 1 : <<q, c>> \in names'
      BY <2>2, <2>3 DEF Known
    <3>3. <<q, buffer[q]>> \in names'
      BY <2>2
    <3>4. \A c \in 1 .. buffer[q] : c \in 1 .. buffer[q] - 1 \/ c = buffer[q]
      BY ONLY <3>1
    <3>5. \A c \in 1 .. buffer[q] : <<q, c>> \in names'
      BY ONLY <3>2, <3>3, <3>4
    <3> QED
      BY ONLY <3>1, <3>5 DEF Known
  <2>5. ASSUME NEW q \in tables' \ finished' PROVE HasNames(q)'
    <3>1. q \in tables \ finished /\ ~is_done[q] /\ q \in Rank
      BY <1>2, <1>3, <1>5, <2>1
    <3>2. ~Filled(q)'
      BY ONLY <2>1 DEF Filled
    <3>3. position'[q] - 1 = buffer'[q]
      <4>1. position[q] = buffer[q] + 1 /\ buffer[q] \in Nat
        BY <2>2, <3>1, NameTypes
      <4> QED
        BY ONLY <1>2, <4>1
    <3>4. Known(q, buffer[q])'
      BY <2>4, <3>1
    <3>5. Known(q, position[q] - 1)'
      BY ONLY <3>3, <3>4 DEF Known
    <3> QED
      BY ONLY <3>2, <3>5 DEF HasNames
  <2>6. ASSUME NEW q \in finished' PROVE Known(q, chunks[q])'
    <3>1. CASE q \in finished
      BY <1>2, <2>3, <3>1 DEF NamesInv, Known
    <3>2. CASE q \notin finished
      <4>1. q \in tables \ finished /\ is_done[q]
        BY <1>2, <1>5, <2>6, <3>2
      <4>2. Known(q, buffer[q])' /\ chunks'[q] = buffer'[q]
        BY <1>2, <2>2, <2>4, <4>1
      <4> QED
        BY ONLY <4>2 DEF Known
    <3> QED
      BY <3>1, <3>2
  <2> QED
    BY ONLY <2>1, <2>5, <2>6 DEF NamesInv
<1>6. CASE pc[Ctl] \notin {5, 16}
  <2>1. UNCHANGED <<buffer, is_done, position, chunks, tables, names, finished>>
    BY <1>2, <1>6
  <2>2. \A q \in Rank : Filled(q)' <=> Filled(q)
    BY <1>6, FilledByCtl
  <2>3. ASSUME NEW q \in Rank, HasNames(q) PROVE HasNames(q)'
    <3>1. Filled(q)' <=> Filled(q)
      BY <2>2
    <3> QED
      BY ONLY <2>1, <2>3, <3>1 DEF HasNames, Known
  <2>4. \A q \in tables' \ finished' : HasNames(q)'
    BY <1>3, <2>1, <2>3 DEF NamesInv
  <2>5. \A q \in finished' : Known(q, chunks[q])'
    BY ONLY NamesInv, <2>1 DEF NamesInv, Known
  <2>6. pc'[Ctl] <= 5 => pc[Ctl] <= 5
    BY ONLY <1>1
  <2>7. pc'[Ctl] >= 19 => finished = tables
    <3>1. pc[Ctl] >= 19 => finished = tables
      BY DEF NamesInv
    <3> QED
      BY ONLY <1>1, <3>1
  <2> QED
    BY ONLY NamesInv, <2>1, <2>4, <2>5, <2>6, <2>7 DEF NamesInv
<1> QED
  BY <1>4, <1>5, <1>6

\* The names, whatever happens.
LEMMA NamesInvariance == Spec => []NamesInv
<1>1. Init => NamesInv
  <2> SUFFICES ASSUME Init PROVE NamesInv
    OBVIOUS
  <2>1. /\ pc[Ctl] = 1 /\ tables = {} /\ finished = {}
        /\ position = [r \in Rank |-> 1]
    BY Actors DEF Init
  <2> QED
    BY ONLY <2>1 DEF NamesInv
<1>2. ASSUME TypeInv, TypeInv', NamesInv, pc' = pc, UNCHANGED <<chunks, nameVars>>,
             pc[Ctl] # 5 => tables' = tables
      PROVE  NamesInv'
  <2>1. UNCHANGED <<buffer, is_done, position, chunks, names, finished>>
    BY <1>2 DEF nameVars
  <2>2. tables' \subseteq Rank
    BY <1>2 DEF TypeInv, TypeOK
  <2>3. CASE pc[Ctl] = 5
    <3>1. /\ finished = {} /\ \A q \in Rank : position[q] = 1
      BY <1>2, <2>3 DEF TypeInv, NamesInv
    <3>2. \A q \in tables' : HasNames(q)'
      BY ONLY <1>2, <2>1, <2>2, <2>3, <3>1 DEF HasNames, Filled, Known
    <3> QED
      BY ONLY <1>2, <2>1, <2>3, <3>1, <3>2 DEF NamesInv
  <2>4. CASE pc[Ctl] # 5
    <3>1. tables' = tables
      BY <1>2, <2>4
    <3> QED
      BY ONLY NamesInv, pc' = pc, <2>1, <3>1 DEF NamesInv, HasNames, Filled, Known
  <2> QED
    BY <2>3, <2>4
<1>3. TypeInv /\ TypeInv' /\ Aligned /\ TripInv /\ NamesInv /\ [Next]_vars => NamesInv'
  <2> SUFFICES ASSUME TypeInv, TypeInv', Aligned, TripInv, NamesInv, [Next]_vars
               PROVE  NamesInv'
    OBVIOUS
  <2>1. CASE UNCHANGED vars
    <3>1. pc' = pc /\ UNCHANGED <<chunks, nameVars, tables>>
      BY <2>1 DEF vars, actorVars, inputVars, shmemVars
    <3> QED
      BY <1>2, <3>1
  <2>2. ASSUME NEW r \in Rank, RankEnds(r) PROVE NamesInv'
    <3>1. pc' = pc /\ UNCHANGED <<chunks, nameVars, tables>>
      BY <2>2 DEF RankEnds
    <3> QED
      BY <1>2, <3>1
  <2>3. CASE CtlEnds
    <3>1. pc' = pc /\ UNCHANGED <<chunks, nameVars>> /\ (pc[Ctl] # 5 => tables' = tables)
      BY <2>3 DEF CtlEnds
    <3> QED
      BY <1>2, <3>1
  <2> QED
    BY <2>1, <2>2, <2>3, NamesOfRank, NamesOfCtl, StepKinds
<1> QED
  BY <1>1, <1>3, TypesOfHandshake, AlignedInvariance, TripInvariance, PTL DEF Spec

\* The report has the names of all ranks: when the loop of region_names() is
\* over every chunk of every rank with a table has been read.
THEOREM NamesOfAllRanks == Spec => []NamesComplete
<1>1. TypeInv /\ NamesInv => NamesComplete
  <2> SUFFICES ASSUME TypeInv, NamesInv, Past(Ctl, "again"), NEW r \in tables
               PROVE  {<<r, c>> : c \in 1 .. chunks[r]} \subseteq names
    BY DEF NamesComplete
  <2>1. pc[Ctl] > 18
    <3>1. Place(CtlScript, "again") = 18
      BY CtlCalls DEF Place, CtlScript
    <3> QED
      BY <3>1, Actors DEF Past
  <2>2. pc[Ctl] >= 19
    BY <2>1, RankTypes
  <2>3. Known(r, chunks[r])
    BY <2>2 DEF NamesInv
  <2> QED
    BY <2>3 DEF Known
<1> QED
  BY <1>1, TypesOfHandshake, NamesInvariance, PTL

-----------------------------------------------------------------------------
(* The trips, where the names of all ranks take as many tables.            *)

Uniform == \A r, q \in Rank : chunks[r] = chunks[q]

\* All ranks fill the same chunk in a round.
SameChunk ==
    \A r, q \in Rank :
        /\ (Filled(r) <=> Filled(q)) => position[r] = position[q]
        /\ Filled(r) /\ ~Filled(q) =>
             position[r] = IF position[q] = chunks[q] THEN 1 ELSE position[q] + 1

\* Who is done starts from the beginning.
DoneAtStart ==
    \A r \in Rank :
        Filled(r) \/ pc[Ctl] \in 16 .. 17 \/ Later => (is_done[r] <=> position[r] = 1)

\* What test() says of a round is true until the next; a rank that fills
\* another table after the controller answered does so because some are not done.
Told ==
    \A r \in Rank :
        /\ pc[r] \in 34 .. 36 => (all_done[r] <=> Everyone)
        /\ pc[r] \in 29 .. 31 /\ Later => ~Everyone

\* The controller has nothing of the tables complete before it has the last.
Collected ==
    /\ pc[Ctl] <= 16 => finished = {}
    /\ pc[Ctl] >= 17 => finished = {r \in tables : is_done[r]}
    /\ pc[Ctl] > 5 => tables # {}

Even == SameChunk /\ DoneAtStart /\ Told /\ Collected

\* Behind the map there are tables: without one the controller gives up.
LEMMA TablesMade ==
    ASSUME TypeInv, Collected, Next
    PROVE  pc'[Ctl] > 5 => tables' # {}
<1> SUFFICES ASSUME pc'[Ctl] > 5 PROVE tables' # {}
  OBVIOUS
<1>1. pc[Ctl] \in 1 .. 21
  BY RankTypes
<1>2. CASE pc[Ctl] > 5
  <2>1. ~ReadMap
    BY <1>1, <1>2, Actors, CtlCalls DEF ReadMap, At
  <2>2. tables' = tables
    BY <2>1 DEF Next, RankCall, CtlCall, Either, Step, Wait, WaitAborted, TimesOut, Construct,
                LoopSet, LoopSpin, Barrier, Test, Attaches, NoTable, Map, Check, Enable, Fill,
                Again, CtlLoopBegin, Create, Connect, Update, Names, Collect, CtlAgain, Fails,
                shmemVars
  <2> QED
    BY ONLY Collected, <1>2, <2>2 DEF Collected
<1>3. CASE pc[Ctl] <= 5
  <2>1. ReadMap
    BY <1>1, <1>3, CtlMoves
  <2>2. Throws(Ctl) => pc' = pc
    BY DEF Throws
  <2>3. ~Throws(Ctl)
    BY <1>1, <1>3, <2>2
  <2> QED
    BY ONLY <2>1, <2>3 DEF ReadMap
<1> QED
  BY <1>1, <1>2, <1>3

\* While a rank fills its table none is behind the test of the round.
LEMMA OneFills ==
    ASSUME TypeInv, Aligned, NEW r \in Rank, NEW q \in Rank, pc[r] = 32
    PROVE  pc[q] \notin 34 .. 36
<1>1. pc[r] \notin AppBarriers /\ pc[q] \in 1 .. 41
  BY RankTypes DEF AppBarriers
<1>2. InLeg(pc[r], pc[q]) \/ pc[q] \in AppBarriers
  BY <1>1, Beside
<1> QED
  BY ONLY pc[r] = 32, <1>1, <1>2 DEF InLeg, Leg, AppBarriers

\* In a round or after it all are done or none is.
LEMMA DoneTogether ==
    ASSUME TypeInv, Even, NEW r \in Rank,
           pc[Ctl] \in 16 .. 17 => \A q \in Rank : Filled(q) <=> Filled(r),
           pc[Ctl] \in 16 .. 17 \/ Later
    PROVE  is_done[r] <=> Everyone
<1>1. \A q \in Rank : is_done[q] <=> position[q] = 1
  BY DEF Even, DoneAtStart
<1>2. \A q \in Rank : position[q] = position[r]
  <2>1. Later => pc[Ctl] \notin 15 .. 17
    BY RankTypes DEF Later
  <2>2. \A q \in Rank : Filled(q) <=> Filled(r)
    BY <2>1 DEF Filled
  <2> QED
    BY ONLY Even, <2>2, r \in Rank DEF Even, SameChunk
<1> QED
  BY ONLY <1>1, <1>2, r \in Rank DEF Everyone

\* A rank that goes on.
LEMMA EvenOfRank ==
    ASSUME TypeInv, Aligned, TripInv, Uniform, Even, NEW r \in Rank, RankGoes(r)
    PROVE  Even'
<1>1. /\ pc'[Ctl] = pc[Ctl] /\ last_status'[Ctl] = last_status[Ctl] /\ pc[Ctl] \in 1 .. 21
      /\ pc'[r] = IF pc[r] = 36 /\ ~all_done[r] THEN 29 ELSE pc[r] + 1
      /\ all_done'[r] = IF pc[r] = 33 THEN Everyone ELSE all_done[r]
      /\ \A q \in Rank \ {r} : pc'[q] = pc[q] /\ all_done'[q] = all_done[q]
      /\ pc[r] \in 1 .. 40
  BY GoingOn, RankTypes, Actors
<1>2. UNCHANGED <<tables, chunks, finished>>
  BY DEF RankGoes, RankNames
<1>3. Later' <=> Later
  BY ONLY <1>1 DEF Later
<1>4. CASE pc[r] = 32
  <2>1. pc[Ctl] = 15 /\ pc'[r] = 33 /\ ~Later
    BY <1>1, <1>4, FillsInRound DEF Later
  <2>2. /\ is_done' = [is_done EXCEPT ![r] = position[r] = chunks[r]]
        /\ position' = [position EXCEPT ![r] = IF @ = chunks[r] THEN 1 ELSE @ + 1]
    BY <1>4 DEF RankGoes, RankNames
  <2>3. /\ \A q \in Rank \ {r} : is_done'[q] = is_done[q] /\ position'[q] = position[q]
        /\ is_done'[r] <=> position[r] = chunks[r]
        /\ position'[r] = IF position[r] = chunks[r] THEN 1 ELSE position[r] + 1
        /\ position[r] \in Nat /\ position[r] >= 1
    BY <2>2, NameTypes
  <2>4. /\ ~Filled(r) /\ Filled(r)'
        /\ \A q \in Rank \ {r} : Filled(q)' <=> Filled(q)
    BY ONLY <1>1, <1>4, <2>1 DEF Filled
  <2>5. ASSUME NEW q \in Rank \ {r}
        PROVE  /\ Filled(q) => position[q] = position'[r]
               /\ ~Filled(q) =>
                    position'[r] = IF position[q] = chunks[q] THEN 1 ELSE position[q] + 1
    <3>1. /\ ~Filled(q) => position[q] = position[r]
          /\ Filled(q) => position[q] = IF position[r] = chunks[r] THEN 1 ELSE position[r] + 1
      BY ONLY Even, r \in Rank, <2>4, <2>5 DEF Even, SameChunk
    <3>2. chunks[q] = chunks[r]
      BY DEF Uniform
    <3> QED
      BY ONLY <2>3, <3>1, <3>2
  <2>6. ASSUME NEW p \in Rank, NEW q \in Rank
        PROVE  /\ (Filled(p)' <=> Filled(q)') => position'[p] = position'[q]
               /\ Filled(p)' /\ ~Filled(q)' =>
                    position'[p] = IF position'[q] = chunks'[q] THEN 1 ELSE position'[q] + 1
    <3>1. CASE p = r /\ q = r
      BY ONLY <3>1
    <3>2. CASE p = r /\ q # r
      BY ONLY <1>2, <2>3, <2>4, <2>5, <2>6, <3>2
    <3>3. CASE p # r /\ q = r
      BY ONLY <1>2, <2>3, <2>4, <2>5, <2>6, <3>3
    <3>4. CASE p # r /\ q # r
      BY ONLY Even, <1>2, <2>3, <2>4, <2>6, <3>4 DEF Even, SameChunk
    <3> QED
      BY ONLY <3>1, <3>2, <3>3, <3>4
  <2>7. SameChunk'
    BY ONLY <2>6 DEF SameChunk
  <2>8. DoneAtStart'
    <3>1. is_done'[r] <=> position'[r] = 1
      BY ONLY <2>3
    <3>2. pc'[Ctl] \notin 16 .. 17 /\ ~Later'
      BY ONLY <1>1, <1>3, <2>1
    <3>3. \A q \in Rank \ {r} : Filled(q)' => (is_done'[q] <=> position'[q] = 1)
      BY ONLY Even, <2>3, <2>4 DEF Even, DoneAtStart
    <3> QED
      BY ONLY <3>1, <3>2, <3>3 DEF DoneAtStart
  <2>9. Told'
    <3>1. \A q \in Rank : pc[q] \notin 34 .. 36
      BY <1>4, OneFills
    <3> QED
      BY ONLY <1>1, <1>3, <2>1, <3>1 DEF Told
  <2>10. Collected'
    BY ONLY Even, <1>1, <1>2, <2>1 DEF Even, Collected
  <2> QED
    BY ONLY <2>7, <2>8, <2>9, <2>10 DEF Even
<1>5. CASE pc[r] # 32
  <2>1. UNCHANGED <<is_done, position>>
    BY <1>5 DEF RankGoes, RankNames
  <2>2. \A q \in Rank : Filled(q)' <=> Filled(q)
    BY <1>5, FilledByRank
  <2>3. Everyone' <=> Everyone
    BY ONLY <2>1 DEF Everyone
  <2>4. SameChunk'
    BY ONLY Even, <1>2, <2>1, <2>2 DEF Even, SameChunk
  <2>5. DoneAtStart'
    BY ONLY Even, <1>1, <1>3, <2>1, <2>2 DEF Even, DoneAtStart
  <2>6. /\ pc'[r] \in 34 .. 36 => (all_done'[r] <=> Everyone)
        /\ pc'[r] \in 29 .. 31 /\ Later => ~Everyone
    <3>1. Later => pc[r] >= 29
      BY DEF TripInv, AfterRound
    <3>2. /\ pc[r] \in 34 .. 36 => (all_done[r] <=> Everyone)
          /\ pc[r] \in 29 .. 31 /\ Later => ~Everyone
      BY DEF Even, Told
    <3> QED
      BY ONLY <1>1, <3>1, <3>2
  <2>7. Told'
    BY ONLY Even, <1>1, <1>3, <2>3, <2>6 DEF Even, Told
  <2>8. Collected'
    BY ONLY Even, <1>1, <1>2, <2>1 DEF Even, Collected
  <2> QED
    BY ONLY <2>4, <2>5, <2>7, <2>8 DEF Even
<1> QED
  BY <1>4, <1>5

\* The controller, when it goes on.
LEMMA EvenOfCtl ==
    ASSUME TypeInv, TypeInv', Aligned, TripInv, TripInv', Even, Next, CtlGoes
    PROVE  Even'
<1>1. /\ pc[Ctl] \in 1 .. 20
      /\ pc'[Ctl] = IF pc[Ctl] = 18 /\ finished # tables THEN 14 ELSE pc[Ctl] + 1
      /\ last_status'[Ctl] = IF pc[Ctl] \in CtlWaits THEN After(last_status[Ctl])
                             ELSE IF pc[Ctl] = 14 THEN 6 ELSE last_status[Ctl]
      /\ \A r \in Rank : pc'[r] = pc[r]
  BY CtlOn DEF TripInv, Said
<1>2. /\ UNCHANGED <<is_done, position, chunks, all_done>>
      /\ pc[Ctl] # 5 => tables' = tables
      /\ pc[Ctl] # 16 => finished' = finished
      /\ pc[Ctl] = 16 => finished' = finished \cup {r \in tables \ finished : is_done[r]}
  BY DEF CtlGoes, CtlNames
<1>3. Everyone' <=> Everyone
  BY ONLY <1>2 DEF Everyone
<1>4. ASSUME NEW r \in Rank
      PROVE  /\ pc[Ctl] \in 16 .. 17 => pc[r] \in 33 .. 35
             /\ pc'[Ctl] \in 16 .. 17 => pc'[r] \in 33 .. 35
  BY DEF TripInv, InRound
<1>5. Later' => Later \/ pc[Ctl] = 17
  <2>1. pc[Ctl] = 13 => last_status[Ctl] = 3
    BY DEF TripInv, Said, CtlSaw
  <2> QED
    BY ONLY <1>1, <2>1 DEF Later, CtlWaits
<1>6. Told'
  <2>1. ASSUME NEW r \in Rank
        PROVE  /\ pc'[r] \in 34 .. 36 => (all_done'[r] <=> Everyone')
               /\ pc'[r] \in 29 .. 31 /\ Later' => ~Everyone'
    BY ONLY Even, <1>1, <1>2, <1>3, <1>4, <1>5, <2>1 DEF Even, Told
  <2> QED
    BY ONLY <2>1 DEF Told
<1>7. pc'[Ctl] > 5 => tables' # {}
  BY TablesMade DEF Even
<1>8. tables \subseteq Rank
  BY DEF TypeInv, TypeOK
<1>9. CASE pc[Ctl] = 16
  <2>1. pc'[Ctl] = 17
    BY ONLY <1>1, <1>9
  <2>2. \A r \in Rank : Filled(r) /\ ~Filled(r)'
    BY ONLY <1>4, <1>9, <2>1 DEF Filled
  <2>3. SameChunk'
    BY ONLY Even, <1>2, <2>2 DEF Even, SameChunk
  <2>4. DoneAtStart'
    BY ONLY Even, <1>2, <2>2 DEF Even, DoneAtStart
  <2>5. finished' = {r \in tables' : is_done'[r]}
    <3>1. finished = {}
      BY ONLY Even, <1>9 DEF Even, Collected
    <3> QED
      BY ONLY <1>2, <1>9, <3>1
  <2>6. Collected'
    BY ONLY <1>7, <2>1, <2>5 DEF Collected
  <2> QED
    BY ONLY <1>6, <2>3, <2>4, <2>6 DEF Even
<1>10. CASE pc[Ctl] # 16
  <2>1. \A r \in Rank : Filled(r)' <=> Filled(r)
    BY <1>10, FilledByCtl
  <2>2. SameChunk'
    BY ONLY Even, <1>2, <2>1 DEF Even, SameChunk
  <2>3. DoneAtStart'
    <3>1. ASSUME NEW r \in Rank, Filled(r)' \/ pc'[Ctl] \in 16 .. 17 \/ Later'
          PROVE  Filled(r) \/ pc[Ctl] \in 16 .. 17 \/ Later
      <4>1. pc'[Ctl] \in 16 .. 17 => pc[Ctl] = 15 /\ pc'[Ctl] = 16
        BY ONLY <1>1, <1>10
      <4>2. pc'[Ctl] = 16 => Filled(r)'
        BY ONLY <1>4, <3>1 DEF Filled
      <4> QED
        BY ONLY <1>5, <2>1, <3>1, <4>1, <4>2
    <3> QED
      BY ONLY Even, <1>2, <3>1 DEF Even, DoneAtStart
  <2>4. pc'[Ctl] <= 16 => finished' = {}
    <3>1. CASE pc[Ctl] = 18 /\ finished # tables
      <4>1. Later /\ pc[Ctl] \notin 16 .. 17 /\ finished = {r \in tables : is_done[r]}
        BY ONLY Even, <3>1 DEF Even, Collected, Later
      <4>2. \A r \in Rank : is_done[r] <=> Everyone
        BY <4>1, DoneTogether
      <4>3. finished = {}
        BY ONLY <1>8, <3>1, <4>1, <4>2 DEF Everyone
      <4> QED
        BY ONLY <1>2, <3>1, <4>3
    <3>2. CASE pc[Ctl] <= 15
      BY ONLY Even, <1>1, <1>2, <3>2 DEF Even, Collected
    <3> QED
      BY ONLY <1>1, <1>10, <3>1, <3>2
  <2>5. pc'[Ctl] >= 17 => finished' = {r \in tables' : is_done'[r]}
    <3>1. pc'[Ctl] >= 17 => pc[Ctl] >= 17
      BY ONLY <1>1, <1>10
    <3> QED
      BY ONLY Even, <1>1, <1>2, <3>1 DEF Even, Collected
  <2>6. Collected'
    BY ONLY <1>7, <2>4, <2>5 DEF Collected
  <2> QED
    BY ONLY <1>6, <2>2, <2>3, <2>6 DEF Even
<1> QED
  BY <1>9, <1>10

\* The trips, whatever happens.
LEMMA EvenInvariance == Spec => [](Uniform => Even)
<1>1. Init => Even
  <2> SUFFICES ASSUME Init PROVE Even
    OBVIOUS
  <2>1. /\ pc[Ctl] = 1 /\ finished = {}
        /\ \A r \in Rank : pc[r] = 1 /\ position[r] = 1
    BY Actors DEF Init
  <2> QED
    BY ONLY <2>1 DEF Even, SameChunk, DoneAtStart, Told, Collected, Filled, Later
<1>2. ASSUME TypeInv, Even, pc' = pc, UNCHANGED <<chunks, nameVars>>,
             last_status'[Ctl] = last_status[Ctl] \/ pc[Ctl] = 21,
             pc[Ctl] # 5 => tables' = tables
      PROVE  Even'
  <2>1. UNCHANGED <<is_done, position, chunks, all_done, finished>>
    BY <1>2 DEF nameVars
  <2>2. /\ \A r \in Rank : Filled(r)' <=> Filled(r)
        /\ Later' <=> Later
        /\ Everyone' <=> Everyone
    BY ONLY <1>2, <2>1 DEF Filled, Later, Everyone
  <2>3. SameChunk' /\ DoneAtStart' /\ Told'
    BY ONLY Even, pc' = pc, <2>1, <2>2 DEF Even, SameChunk, DoneAtStart, Told
  <2>4. Collected'
    BY ONLY <1>2, <2>1 DEF Even, Collected
  <2> QED
    BY ONLY <2>3, <2>4 DEF Even
<1>3. TypeInv /\ TypeInv' /\ Aligned /\ TripInv /\ TripInv' /\ (Uniform => Even) /\ [Next]_vars
        => (Uniform => Even)'
  <2> SUFFICES ASSUME TypeInv, TypeInv', Aligned, TripInv, TripInv', Uniform => Even,
                      [Next]_vars, Uniform'
               PROVE  Even'
    OBVIOUS
  <2>1. chunks' = chunks
    BY InputsStay DEF vars, inputVars
  <2>2. Uniform /\ Even
    BY <2>1 DEF Uniform
  <2>3. CASE UNCHANGED vars
    <3>1. pc' = pc /\ UNCHANGED <<chunks, nameVars, tables, last_status>>
      BY <2>3 DEF vars, actorVars, inputVars, shmemVars
    <3> QED
      BY <1>2, <2>2, <3>1
  <2>4. ASSUME NEW r \in Rank, RankEnds(r) PROVE Even'
    <3>1. pc' = pc /\ UNCHANGED <<chunks, nameVars, tables, last_status>>
      BY <2>4 DEF RankEnds
    <3> QED
      BY <1>2, <2>2, <3>1
  <2>5. CASE CtlEnds
    <3>1. pc' = pc /\ UNCHANGED <<chunks, nameVars>> /\ (pc[Ctl] # 5 => tables' = tables)
      BY <2>5 DEF CtlEnds
    <3>2. last_status'[Ctl] = last_status[Ctl] \/ pc[Ctl] = 21
      BY <2>5, Halted
    <3> QED
      BY <1>2, <2>2, <3>1, <3>2
  <2>6. CASE Next
    BY <2>2, <2>4, <2>5, <2>6, EvenOfRank, EvenOfCtl, StepKinds
  <2> QED
    BY <2>3, <2>6
<1> QED
  BY <1>1, <1>3, TypesOfHandshake, AlignedInvariance, TripInvariance, PTL DEF Spec

\* Where the names of all ranks take as many tables, both sides make the same
\* trips through the loop of the names.
LEMMA SameTripsWhenUniform == Spec => [](Uniform => SameTrips)
<1>1. TypeInv /\ NamesInv /\ (Uniform => Even) => (Uniform => SameTrips)
  <2> SUFFICES ASSUME TypeInv, NamesInv, Uniform, Even, Past(Ctl, "again"), NEW r \in Rank,
                      At(r, "loop_set") \/ At(r, "loop_spin")
               PROVE  FALSE
    BY DEF SameTrips
  <2>1. pc[Ctl] \in 19 .. 21
    <3>1. Place(CtlScript, "again") = 18
      BY CtlCalls DEF Place, CtlScript
    <3> QED
      BY <3>1, Actors, RankTypes DEF Past
  <2>2. pc[r] \in 30 .. 31
    BY AppPlaces
  <2>3. /\ finished = tables /\ tables # {} /\ tables \subseteq Rank
        /\ finished = {q \in tables : is_done[q]}
    BY <2>1 DEF NamesInv, Even, Collected, TypeInv, TypeOK
  <2>4. \A q \in Rank : is_done[q] <=> Everyone
    BY <2>1, DoneTogether DEF Later
  <2>5. Everyone
    BY ONLY <2>3, <2>4
  <2>6. ~Everyone
    BY ONLY Even, r \in Rank, <2>1, <2>2 DEF Even, Told, Later
  <2> QED
    BY ONLY <2>5, <2>6
<1> QED
  BY <1>1, TypesOfHandshake, NamesInvariance, EvenInvariance, PTL

\* Where the names of all ranks take as many tables, nobody's next state is
\* overwritten before it was seen, and both sides leave the loop in the same trip.
THEOREM NothingMissedWhenUniform == Spec => [](Uniform => SameTrips /\ NoStateMissed)
<1> QED
  BY SameTripsWhenUniform, NothingMissed, PTL
===============================================================================
