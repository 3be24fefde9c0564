--------------------------- MODULE StatusBoardProofs ---------------------------
(***************************************************************************)
(* Proofs about StatusBoard: a process keeps the CPUs it took, they show   *)
(* its region and hint between its calls, an update sees what a process    *)
(* at rest shows, and the hint times of a CPU add up.  For any processes,  *)
(* CPUs, regions and bounds.                                               *)
(*                                                                         *)
(* The invariant is about words that are not written yet: what a CPU will  *)
(* show is the value of every such word, or of the buffer if there is      *)
(* none.                                                                   *)
(***************************************************************************)
EXTENDS StatusBoard, SequenceTheorems, SumTheorems

-----------------------------------------------------------------------------
(* The invariant.                                                          *)

\* A process that has not constructed its status writes nothing, and none that
\* has not taken its CPUs is in a region.  Behind the barrier every process
\* has constructed its own, and written all of it.
StartUp ==
    \A r \in Rank :
      /\ stage[r] = "attach" => Idle(r)
      /\ stage[r] # "running" => m_current_hash[r] = "UNMARKED" /\ m_hint_stack[r] = <<>>
      /\ stage[r] = "running" =>
           \A s \in Rank : stage[s] # "running" => stage[s] = "barrier" /\ Idle(s)

\* A process that runs writes to its own CPUs,
OwnCpus ==
    \A r \in Rank : stage[r] = "running" => \A c \in Cpu \ CpusOf[r] : todo[r][c] = <<>>

\* and they will show its number, its region and its hint.
InnermostHint(r) == IF m_hint_stack[r] = <<>> THEN "UNSET" ELSE Head(m_hint_stack[r])
WillShow(words, status, field, v) ==
    /\ \A i \in 1 .. Len(words) : words[i].field = field => words[i].value = v
    /\ (\A i \in 1 .. Len(words) : words[i].field # field) => status[field] = v
ShowsProcess(r, c) ==
    /\ WillShow(todo[r][c], m_buffer[c], "process", r)
    /\ WillShow(todo[r][c], m_buffer[c], "hash", m_current_hash[r])
    /\ WillShow(todo[r][c], m_buffer[c], "hint", InnermostHint(r))
Shown == \A r \in Rank : stage[r] = "running" => \A c \in CpusOf[r] : ShowsProcess(r, c)

\* Until a process runs, its CPUs are as every constructor leaves them, and its own
\* constructor has nothing else to write.
Clearing(words) == \A i \in 1 .. Len(words) : words[i].value = Inactive[words[i].field]
Untouched ==
    \A r \in Rank : stage[r] # "running" =>
      /\ \A c \in CpusOf[r] : m_buffer[c] = Inactive
      /\ \A c \in Cpu : Clearing(todo[r][c])

BoardInv == StartUp /\ OwnCpus /\ Shown /\ Untouched

-----------------------------------------------------------------------------
(* Words.                                                                  *)

\* A word fits into a status.
LEMMA WordFacts ==
    ASSUME NEW w \in Words
    PROVE  w.field \in Field /\ w.value \in Value[w.field]
<1>1. Field = {"process", "hint", "hash", "total_work", "completed_work"}
  BY DEF Field, Range, Layout
<1> QED
  BY <1>1 DEF Words, WordsOf

\* A status after one word more is written:
Written(s, f, v) == [s EXCEPT ![f] = v]

\* a status that has that value.
LEMMA StatusWritten ==
    ASSUME NEW s \in Status, NEW f \in Field, NEW v, v \in Value[f]
    PROVE  /\ Written(s, f, v) \in Status
           /\ \A g \in Field : Written(s, f, v)[g] = IF g = f THEN v ELSE s[g]
<1>1. Field = {"process", "hint", "hash", "total_work", "completed_work"}
  BY DEF Field, Range, Layout
<1>2. /\ f = "process" => v \in Value.process
      /\ f = "hint" => v \in Value.hint
      /\ f = "hash" => v \in Value.hash
      /\ f = "total_work" => v \in Nat
      /\ f = "completed_work" => v \in Nat
  BY DEF Value
<1> QED
  BY <1>1, <1>2 DEF Status, Written

\* A status has a value of its type in each field.
LEMMA StatusFacts ==
    ASSUME NEW s \in Status, NEW f \in Field
    PROVE  s[f] \in Value[f]
  BY DEF Field, Range, Layout, Status, Value

\* Words in a row.
LEMMA OneWord ==
    ASSUME NEW a \in Words
    PROVE  <<a>> \in Seq(Words) /\ Len(<<a>>) = 1 /\ <<a>>[1] = a
  OBVIOUS

\* Their words one after the other.
LEMMA MoreWords ==
    ASSUME NEW s \in Seq(Words), NEW t \in Seq(Words)
    PROVE  /\ s \o t \in Seq(Words) /\ Len(s \o t) = Len(s) + Len(t)
           /\ Len(s) \in Nat /\ Len(t) \in Nat
           /\ \A i \in 1 .. Len(s) : (s \o t)[i] = s[i]
           /\ \A i \in 1 .. Len(t) : (s \o t)[Len(s) + i] = t[i]
  BY ConcatProperties

\* What an operation writes, word by word.
LEMMA WordTypes ==
    ASSUME NEW f \in Field, NEW v \in Value[f]
    PROVE  /\ Word(f, v) \in Seq(Words) /\ Len(Word(f, v)) = 1
           /\ Word(f, v)[1].field = f /\ Word(f, v)[1].value = v
<1>1. Field = {"process", "hint", "hash", "total_work", "completed_work"}
  BY DEF Field, Range, Layout
<1> DEFINE w == [field |-> f, value |-> v]
<1>2. w \in Words
  BY <1>1 DEF Words, WordsOf
<1>3. w.field = f /\ w.value = v
  OBVIOUS
<1> HIDE DEF w
<1> QED
  BY <1>2, <1>3, OneWord DEF Word, w

\* set_hint() writes one word,
LEMMA SetHintWords ==
    ASSUME NEW h \in Hint
    PROVE  /\ SetHint(h) \in Seq(Words) /\ Len(SetHint(h)) = 1
           /\ SetHint(h)[1].field = "hint" /\ SetHint(h)[1].value = h
<1>1. "hint" \in Field /\ h \in Value["hint"]
  BY DEF Field, Range, Layout, Value
<1> QED
  BY <1>1, WordTypes DEF SetHint

\* set_hash() two,
LEMMA SetHashWords ==
    ASSUME NEW g \in Value.hash, NEW h \in Hint
    PROVE  /\ SetHash(g, h) \in Seq(Words) /\ Len(SetHash(g, h)) = 2
           /\ SetHash(g, h)[1].field = "hash" /\ SetHash(g, h)[1].value = g
           /\ SetHash(g, h)[2].field = "hint" /\ SetHash(g, h)[2].value = h
<1>1. /\ "hint" \in Field /\ h \in Value["hint"]
      /\ "hash" \in Field /\ g \in Value["hash"]
  BY DEF Field, Range, Layout, Value
<1> DEFINE a == Word("hash", g)
           b == Word("hint", h)
<1>2. /\ a \in Seq(Words) /\ Len(a) = 1 /\ a[1].field = "hash" /\ a[1].value = g
      /\ b \in Seq(Words) /\ Len(b) = 1 /\ b[1].field = "hint" /\ b[1].value = h
  BY <1>1, WordTypes
<1>3. SetHash(g, h) = a \o b
  BY DEF SetHash
<1> HIDE DEF a, b
<1>4. Len(a \o b) = 2 /\ (a \o b)[1] = a[1] /\ (a \o b)[2] = b[1] /\ a \o b \in Seq(Words)
  BY <1>2, MoreWords
<1> QED
  BY <1>2, <1>3, <1>4

\* reset_work_units() two,
LEMMA ResetWords ==
    /\ ResetWorkUnits \in Seq(Words) /\ Len(ResetWorkUnits) = 2
    /\ ResetWorkUnits[1].field = "total_work" /\ ResetWorkUnits[2].field = "completed_work"
<1>1. /\ "total_work" \in Field /\ 0 \in Value["total_work"]
      /\ "completed_work" \in Field /\ 0 \in Value["completed_work"]
  BY DEF Field, Range, Layout, Value
<1> DEFINE a == Word("total_work", 0)
           b == Word("completed_work", 0)
<1>5. PICK z \in Int : z = 0
  OBVIOUS
<1>2. /\ a \in Seq(Words) /\ Len(a) = 1 /\ a[1].field = "total_work"
      /\ b \in Seq(Words) /\ Len(b) = 1 /\ b[1].field = "completed_work"
  BY <1>1, <1>5, WordTypes
<1>3. ResetWorkUnits = a \o b
  BY DEF ResetWorkUnits
<1> HIDE DEF a, b
<1>4. Len(a \o b) = 2 /\ (a \o b)[1] = a[1] /\ (a \o b)[2] = b[1] /\ a \o b \in Seq(Words)
  BY <1>2, MoreWords
<1> QED
  BY <1>2, <1>3, <1>4

\* exit() of the outermost region four,
LEMMA LeaveWords ==
    /\ LeaveCpu \in Seq(Words) /\ Len(LeaveCpu) = 4
    /\ LeaveCpu[1].field = "hash" /\ LeaveCpu[1].value = "UNMARKED"
    /\ LeaveCpu[2].field = "hint" /\ LeaveCpu[2].value = "UNSET"
    /\ LeaveCpu[3].field = "total_work" /\ LeaveCpu[4].field = "completed_work"
<1> DEFINE a == SetHash("UNMARKED", "UNSET")
           b == ResetWorkUnits
<1>1. "UNMARKED" \in Value.hash /\ "UNSET" \in Hint
  BY DEF Value, Hint
<1>2. /\ a \in Seq(Words) /\ Len(a) = 2 /\ b \in Seq(Words) /\ Len(b) = 2
      /\ a[1].field = "hash" /\ a[1].value = "UNMARKED"
      /\ a[2].field = "hint" /\ a[2].value = "UNSET"
      /\ b[1].field = "total_work" /\ b[2].field = "completed_work"
  BY <1>1, SetHashWords, ResetWords
<1>3. LeaveCpu = a \o b
  BY DEF LeaveCpu
<1> HIDE DEF a, b
<1>4. /\ Len(a \o b) = 4 /\ a \o b \in Seq(Words)
      /\ (a \o b)[1] = a[1] /\ (a \o b)[2] = a[2]
      /\ (a \o b)[3] = b[1] /\ (a \o b)[4] = b[2]
  <2>1. 1 \in 1 .. Len(a) /\ 2 \in 1 .. Len(a) /\ 1 \in 1 .. Len(b) /\ 2 \in 1 .. Len(b)
    BY <1>2
  <2>2. /\ Len(a \o b) = 4 /\ a \o b \in Seq(Words)
        /\ (a \o b)[1] = a[1] /\ (a \o b)[2] = a[2]
    <3>1. Len(a \o b) = Len(a) + Len(b) /\ a \o b \in Seq(Words)
      BY <1>2, MoreWords
    <3>2. \A i \in 1 .. Len(a) : (a \o b)[i] = a[i]
      BY <1>2, MoreWords
    <3> QED
      BY <1>2, <2>1, <3>1, <3>2
  <2>3. (a \o b)[Len(a) + 1] = b[1] /\ (a \o b)[Len(a) + 2] = b[2]
    <3>1. \A i \in 1 .. Len(b) : (a \o b)[Len(a) + i] = b[i]
      BY <1>2, MoreWords
    <3> QED
      BY <2>1, <3>1
  <2> QED
    BY <1>2, <2>2, <2>3
<1> QED
  BY <1>2, <1>3, <1>4

\* and set_process() three.
LEMMA ProcessWords ==
    ASSUME NEW r \in Rank \cup {NoRank}
    PROVE  /\ SetProcess(r) \in Seq(Words) /\ Len(SetProcess(r)) = 3
           /\ SetProcess(r)[1].field = "process" /\ SetProcess(r)[1].value = r
           /\ SetProcess(r)[2].field = "hash" /\ SetProcess(r)[3].field = "hint"
           /\ r # NoRank => SetProcess(r)[2].value = "UNMARKED" /\ SetProcess(r)[3].value = "UNSET"
           /\ r = NoRank => SetProcess(r)[2].value = "INVALID" /\ SetProcess(r)[3].value = "INACTIVE"
<1>1. /\ "UNMARKED" \in Value.hash /\ "UNSET" \in Hint
      /\ "INVALID" \in Value.hash /\ "INACTIVE" \in Hint
      /\ "process" \in Field /\ r \in Value["process"]
  BY DEF Value, Hint, Field, Range, Layout
<1> DEFINE a == Word("process", r)
           b == IF r = NoRank THEN SetHash("INVALID", "INACTIVE") ELSE SetHash("UNMARKED", "UNSET")
<1>2. a \in Seq(Words) /\ Len(a) = 1 /\ a[1].field = "process" /\ a[1].value = r
  BY <1>1, WordTypes
<1>3. /\ b \in Seq(Words) /\ Len(b) = 2 /\ b[1].field = "hash" /\ b[2].field = "hint"
      /\ r # NoRank => b[1].value = "UNMARKED" /\ b[2].value = "UNSET"
      /\ r = NoRank => b[1].value = "INVALID" /\ b[2].value = "INACTIVE"
  <2>1. CASE r = NoRank
    BY <1>1, <2>1, SetHashWords
  <2>2. CASE r # NoRank
    BY <1>1, <2>2, SetHashWords
  <2> QED
    BY <2>1, <2>2
<1>4. SetProcess(r) = a \o b
  BY DEF SetProcess
<1> HIDE DEF a, b
<1>5. /\ Len(a \o b) = 3 /\ a \o b \in Seq(Words)
      /\ (a \o b)[1] = a[1] /\ (a \o b)[2] = b[1] /\ (a \o b)[3] = b[2]
  <2>1. a \in Seq(Words) /\ Len(a) = 1 /\ b \in Seq(Words) /\ Len(b) = 2
    BY <1>2, <1>3
  <2> QED
    BY <2>1, MoreWords
<1> QED
  BY <1>2, <1>3, <1>4, <1>5

-----------------------------------------------------------------------------
(* What a CPU will show.                                                   *)

\* The first word of a sequence, and the others.
LEMMA FirstWord ==
    ASSUME NEW words \in Seq(Words), words # <<>>
    PROVE  /\ Len(words) \in Nat /\ 1 \in 1 .. Len(words) /\ Head(words) = words[1]
           /\ Head(words) \in Words /\ Tail(words) \in Seq(Words)
           /\ Len(Tail(words)) = Len(words) - 1
           /\ \A i \in 1 .. Len(Tail(words)) :
                i + 1 \in 1 .. Len(words) /\ Tail(words)[i] = words[i + 1]
  BY HeadTailProperties

\* Writing a word does not change what will be shown,
LEMMA WriteShows ==
    ASSUME NEW words \in Seq(Words), words # <<>>, NEW s \in Status,
           NEW f \in Field, NEW v, WillShow(words, s, f, v)
    PROVE  WillShow(Tail(words), Written(s, Head(words).field, Head(words).value), f, v)
<1> DEFINE w == Head(words)
           tail == Tail(words)
           new == Written(s, w.field, w.value)
<1>1. /\ Len(words) \in Nat /\ 1 \in 1 .. Len(words) /\ w = words[1]
      /\ w \in Words /\ tail \in Seq(Words) /\ Len(tail) = Len(words) - 1
      /\ \A i \in 1 .. Len(tail) : i + 1 \in 1 .. Len(words) /\ tail[i] = words[i + 1]
  BY FirstWord
<1>2. w.field \in Field /\ w.value \in Value[w.field]
  BY <1>1, WordFacts
<1>3. new[f] = IF f = w.field THEN w.value ELSE s[f]
  BY <1>2, StatusWritten
<1> HIDE DEF w, tail, new
<1>4. \A i \in 1 .. Len(words) : words[i].field = f => words[i].value = v
  BY DEF WillShow
<1>5. \A i \in 1 .. Len(tail) : tail[i].field = f => tail[i].value = v
  BY <1>1, <1>4
<1>6. ASSUME \A i \in 1 .. Len(tail) : tail[i].field # f PROVE new[f] = v
  <2>1. CASE w.field = f
    BY <1>1, <1>3, <1>4, <2>1
  <2>2. CASE w.field # f
    <3>1. ASSUME NEW i \in 1 .. Len(words) PROVE words[i].field # f
      <4>1. CASE i = 1
        BY <1>1, <2>2, <4>1
      <4>2. CASE i # 1
        <5>1. i - 1 \in 1 .. Len(tail)
          BY <1>1, <4>2
        <5>2. tail[i - 1] = words[(i - 1) + 1]
          BY <1>1, <5>1
        <5> QED
          BY <1>1, <1>6, <5>1, <5>2
      <4> QED
        BY <4>1, <4>2
    <3> QED
      BY <1>3, <2>2, <3>1 DEF WillShow
  <2> QED
    BY <2>1, <2>2
<1>7. WillShow(tail, new, f, v)
  BY <1>5, <1>6 DEF WillShow
<1> QED
  BY <1>7 DEF w, tail, new

\* and writing one of a constructor leaves a cleared status as it is.
LEMMA WriteClears ==
    ASSUME NEW words \in Seq(Words), words # <<>>, Clearing(words)
    PROVE  /\ Clearing(Tail(words))
           /\ Written(Inactive, Head(words).field, Head(words).value) = Inactive
<1> DEFINE w == Head(words)
           tail == Tail(words)
<1>1. /\ Len(words) \in Nat /\ 1 \in 1 .. Len(words) /\ w = words[1] /\ w \in Words
      /\ Len(tail) = Len(words) - 1
      /\ \A i \in 1 .. Len(tail) : i + 1 \in 1 .. Len(words) /\ tail[i] = words[i + 1]
  BY FirstWord
<1> HIDE DEF w, tail
<1>2. Clearing(tail)
  BY <1>1 DEF Clearing
<1>3. w.field \in Field /\ w.value = Inactive[w.field]
  BY <1>1, WordFacts DEF Clearing
<1>4. Written(Inactive, w.field, w.value) = Inactive
  BY <1>3 DEF Written, Inactive
<1> QED
  BY <1>2, <1>4 DEF w, tail

\* When nothing is left to write, it is shown.
LEMMA ShownNow ==
    ASSUME NEW words, words = <<>>, NEW s, NEW f, NEW v, WillShow(words, s, f, v)
    PROVE  s[f] = v
  BY DEF WillShow

-----------------------------------------------------------------------------
(* Writing.                                                                *)

Good == TypeOK /\ BoardInv

\* The words and the status of a CPU.
LEMMA BoardFacts ==
    TypeOK => \A r \in Rank : \A c \in Cpu :
                 todo[r][c] \in Seq(Words) /\ m_buffer[c] \in Status
  BY DEF TypeOK

\* A process with nothing left to write.
LEMMA IdleFacts ==
    TypeOK => \A r \in Rank : Idle(r) <=> \A c \in Cpu : todo[r][c] = <<>>
<1> SUFFICES ASSUME TypeOK, NEW r \in Rank
             PROVE  Idle(r) <=> \A c \in Cpu : todo[r][c] = <<>>
  OBVIOUS
<1>1. DOMAIN todo[r] = Cpu /\ todo[r] = [c \in Cpu |-> todo[r][c]]
  BY DEF TypeOK
<1> QED
  BY <1>1 DEF Idle, Nothing

\* Process r writes the first word it has for CPU c.
WritesTo(r, c) ==
    /\ todo[r][c] # <<>>
    /\ m_buffer' = [m_buffer EXCEPT ![c] =
                      Written(m_buffer[c], Head(todo[r][c]).field, Head(todo[r][c]).value)]
    /\ todo' = [todo EXCEPT ![r] = [todo[r] EXCEPT ![c] = Tail(todo[r][c])]]

\* The next word of a call goes to some CPU.
LEMMA WriteStep ==
    ASSUME TypeOK, NEW r \in Rank, Write(r)
    PROVE  \E c \in Cpu : WritesTo(r, c)
  BY DEF Write, IsNext, WritesTo, Written, TypeOK

\* Nothing else changes on the board.
LEMMA WriteFacts ==
    ASSUME TypeOK, NEW r \in Rank, NEW c \in Cpu, WritesTo(r, c)
    PROVE  /\ todo' \in [Rank -> [Cpu -> Seq(Words)]] /\ m_buffer' \in [Cpu -> Status]
           /\ todo'[r][c] = Tail(todo[r][c])
           /\ m_buffer'[c] = Written(m_buffer[c], Head(todo[r][c]).field, Head(todo[r][c]).value)
           /\ \A d \in Cpu : d # c => m_buffer'[d] = m_buffer[d] /\ todo'[r][d] = todo[r][d]
           /\ \A s \in Rank : s # r => todo'[s] = todo[s]
<1>1. todo[r][c] \in Seq(Words) /\ todo[r][c] # <<>> /\ m_buffer[c] \in Status
  BY BoardFacts DEF WritesTo
<1> DEFINE w == Head(todo[r][c])
           tail == Tail(todo[r][c])
           new == Written(m_buffer[c], w.field, w.value)
<1>2. tail \in Seq(Words) /\ w \in Words
  BY <1>1, FirstWord
<1>3. w.field \in Field /\ w.value \in Value[w.field]
  BY <1>2, WordFacts
<1>4. new \in Status
  BY <1>1, <1>3, StatusWritten
<1>5. /\ m_buffer' = [m_buffer EXCEPT ![c] = new]
      /\ todo' = [todo EXCEPT ![r] = [todo[r] EXCEPT ![c] = tail]]
  BY DEF WritesTo
<1> HIDE DEF w, tail, new
<1>6. m_buffer \in [Cpu -> Status] /\ todo \in [Rank -> [Cpu -> Seq(Words)]]
  BY DEF TypeOK
<1>7. /\ m_buffer' \in [Cpu -> Status] /\ m_buffer'[c] = new
      /\ \A d \in Cpu : d # c => m_buffer'[d] = m_buffer[d]
  BY <1>4, <1>5, <1>6
<1>8. /\ todo' \in [Rank -> [Cpu -> Seq(Words)]] /\ todo'[r][c] = tail
      /\ \A d \in Cpu : d # c => todo'[r][d] = todo[r][d]
      /\ \A s \in Rank : s # r => todo'[s] = todo[s]
  BY <1>2, <1>5, <1>6
<1> QED
  BY <1>7, <1>8 DEF new, w, tail

\* A process that writes to the CPU of one that runs is that process.
LEMMA WritesOwn ==
    ASSUME StatusAssumption, Good, NEW r \in Rank, NEW c \in Cpu, todo[r][c] # <<>>,
           NEW s \in Rank, stage[s] = "running"
    PROVE  stage[r] = "running" /\ (c \in CpusOf[s] => s = r)
<1>1. ~Idle(r)
  BY IdleFacts DEF Good
<1>2. stage[r] = "running"
  BY <1>1 DEF Good, BoardInv, StartUp
<1>3. c \in CpusOf[r]
  BY <1>2 DEF Good, BoardInv, OwnCpus
<1> QED
  BY <1>2, <1>3 DEF StatusAssumption

-----------------------------------------------------------------------------
(* The invariant after a word is written.                                  *)

\* The variables of the process that say where it is.
Place == <<stage, m_current_hash, m_hint_stack>>

\* Start-up, and which CPUs a process writes to.
LEMMA WriteKeepsStartUp ==
    ASSUME Good, NEW r \in Rank, NEW c \in Cpu, WritesTo(r, c), UNCHANGED Place
    PROVE  StartUp' /\ OwnCpus'
<1>1. /\ todo[r][c] # <<>> /\ ~Idle(r)
      /\ \A d \in Cpu : d # c => todo'[r][d] = todo[r][d]
      /\ \A s \in Rank : s # r => todo'[s] = todo[s]
  BY WriteFacts, IdleFacts DEF Good, WritesTo
<1>2. \A s \in Rank : Idle(s) => Idle(s)'
  BY <1>1 DEF Idle
<1>3. StartUp'
  BY <1>2 DEF Good, BoardInv, StartUp, Place
<1>4. ASSUME NEW s \in Rank, stage'[s] = "running", NEW d \in Cpu \ CpusOf[s]
      PROVE  todo'[s][d] = <<>>
  <2>1. todo[s][d] = <<>>
    BY <1>4 DEF Good, BoardInv, OwnCpus, Place
  <2> QED
    BY <1>1, <2>1
<1> QED
  BY <1>3, <1>4 DEF OwnCpus

\* What the hint, the hash and the process of a CPU are.
LEMMA ShownFields == {"process", "hash", "hint", "total_work", "completed_work"} \subseteq Field
  BY DEF Field, Range, Layout

\* What the CPUs of a running process will show.
LEMMA WriteKeepsShown ==
    ASSUME StatusAssumption, Good, NEW r \in Rank, NEW c \in Cpu, WritesTo(r, c), UNCHANGED Place
    PROVE  Shown'
<1>1. /\ todo'[r][c] = Tail(todo[r][c])
      /\ m_buffer'[c] = Written(m_buffer[c], Head(todo[r][c]).field, Head(todo[r][c]).value)
      /\ \A d \in Cpu : d # c => m_buffer'[d] = m_buffer[d] /\ todo'[r][d] = todo[r][d]
      /\ \A s \in Rank : s # r => todo'[s] = todo[s]
  BY WriteFacts DEF Good
<1>2. ASSUME NEW s \in Rank, stage'[s] = "running", NEW d \in CpusOf[s]
      PROVE  ShowsProcess(s, d)'
  <2>1. stage[s] = "running" /\ d \in Cpu /\ ShowsProcess(s, d)
    BY <1>2 DEF Good, BoardInv, Shown, Place, StatusAssumption
  <2>2. m_current_hash'[s] = m_current_hash[s] /\ InnermostHint(s)' = InnermostHint(s)
    BY DEF Place, InnermostHint
  <2>3. CASE d = c
    <3>1. s = r
      BY <1>2, <2>1, <2>3, WritesOwn DEF WritesTo
    <3>2. todo[r][c] \in Seq(Words) /\ todo[r][c] # <<>> /\ m_buffer[c] \in Status
      BY BoardFacts DEF Good, WritesTo
    <3>3. ASSUME NEW f \in Field, NEW v, WillShow(todo[r][c], m_buffer[c], f, v)
          PROVE  WillShow(todo'[r][c], m_buffer'[c], f, v)
      BY <1>1, <3>2, <3>3, WriteShows
    <3> QED
      BY <2>1, <2>2, <2>3, <3>1, <3>3, ShownFields DEF ShowsProcess
  <2>4. CASE d # c
    <3>1. todo'[s][d] = todo[s][d] /\ m_buffer'[d] = m_buffer[d]
      BY <1>1, <2>1, <2>4
    <3> QED
      BY <2>1, <2>2, <3>1 DEF ShowsProcess
  <2> QED
    BY <2>3, <2>4
<1> QED
  BY <1>2 DEF Shown

\* What is left of the constructors.
LEMMA WriteKeepsUntouched ==
    ASSUME StatusAssumption, Good, NEW r \in Rank, NEW c \in Cpu, WritesTo(r, c), UNCHANGED Place
    PROVE  Untouched'
<1>1. /\ todo'[r][c] = Tail(todo[r][c])
      /\ m_buffer'[c] = Written(m_buffer[c], Head(todo[r][c]).field, Head(todo[r][c]).value)
      /\ \A d \in Cpu : d # c => m_buffer'[d] = m_buffer[d] /\ todo'[r][d] = todo[r][d]
      /\ \A s \in Rank : s # r => todo'[s] = todo[s]
  BY WriteFacts DEF Good
<1>2. todo[r][c] \in Seq(Words) /\ todo[r][c] # <<>>
  BY BoardFacts DEF Good, WritesTo
<1>3. stage' = stage
  BY DEF Place
<1>4. Clearing(todo[r][c])
        => /\ Clearing(Tail(todo[r][c]))
           /\ Written(Inactive, Head(todo[r][c]).field, Head(todo[r][c]).value) = Inactive
  BY <1>2, WriteClears
<1>5. ASSUME NEW s \in Rank, stage[s] # "running", NEW d \in CpusOf[s]
      PROVE  m_buffer'[d] = Inactive
  <2>1. d \in Cpu /\ m_buffer[d] = Inactive
    BY <1>5 DEF Good, BoardInv, Untouched, StatusAssumption
  <2>2. CASE d # c
    BY <1>1, <2>1, <2>2
  <2>3. CASE d = c
    <3>1. stage[r] # "running"
      <4>1. stage[r] = "running" => todo[r][c] = <<>>
        BY <1>5, <2>1, <2>3 DEF Good, BoardInv, OwnCpus, StatusAssumption
      <4> QED
        BY <1>2, <4>1
    <3>2. Clearing(todo[r][c])
      BY <3>1 DEF Good, BoardInv, Untouched
    <3> QED
      BY <1>1, <1>4, <2>1, <2>3, <3>2
  <2> QED
    BY <2>2, <2>3
<1>6. ASSUME NEW s \in Rank, stage[s] # "running", NEW d \in Cpu
      PROVE  Clearing(todo'[s][d])
  <2>1. Clearing(todo[s][d])
    BY <1>6 DEF Good, BoardInv, Untouched
  <2>2. CASE s = r /\ d = c
    BY <1>1, <1>4, <2>1, <2>2
  <2>3. CASE ~(s = r /\ d = c)
    BY <1>1, <2>1, <2>3
  <2> QED
    BY <2>2, <2>3
<1> QED
  BY <1>3, <1>5, <1>6 DEF Untouched

-----------------------------------------------------------------------------
(* The invariant after a call has started.                                 *)

\* What a loop over CPUs leaves to be written.
LEMMA StartsFacts ==
    ASSUME TypeOK, NEW r \in Rank, NEW cpus, NEW words \in Seq(Words), Starts(r, cpus, words)
    PROVE  /\ todo' \in [Rank -> [Cpu -> Seq(Words)]]
           /\ \A c \in Cpu : todo'[r][c] = IF c \in cpus THEN words ELSE <<>>
           /\ \A s \in Rank : s # r => todo'[s] = todo[s]
<1> DEFINE left == [c \in Cpu |-> IF c \in cpus THEN words ELSE <<>>]
<1>1. left \in [Cpu -> Seq(Words)] /\ \A c \in Cpu : left[c] = IF c \in cpus THEN words ELSE <<>>
  OBVIOUS
<1>2. todo' = [todo EXCEPT ![r] = left]
  BY DEF Starts
<1> HIDE DEF left
<1> QED
  BY <1>1, <1>2 DEF TypeOK

\* The words of a call of process r, with the region and hint it will then have.
CallShows(r, words) ==
    /\ words \in Seq(Words)
    /\ \A c \in CpusOf[r] :
         /\ WillShow(words, m_buffer[c], "process", r)
         /\ WillShow(words, m_buffer[c], "hash", m_current_hash'[r])
         /\ WillShow(words, m_buffer[c], "hint", InnermostHint(r)')

\* Only process r, which runs from now on, is concerned.
CallOf(r) ==
    /\ UNCHANGED m_buffer /\ stage'[r] = "running" /\ Idle(r)
    /\ \A s \in Rank : stage[s] # "running" => stage[s] = "barrier" /\ Idle(s)
    /\ \A s \in Rank : s # r => /\ stage'[s] = stage[s]
                                /\ m_current_hash'[s] = m_current_hash[s]
                                /\ m_hint_stack'[s] = m_hint_stack[s]

\* A call whose words agree with where the process will be keeps the invariant.
LEMMA CallKeepsBoard ==
    ASSUME StatusAssumption, Good, NEW r \in Rank, NEW words, CallShows(r, words), CallOf(r),
           Starts(r, CpusOf[r], words)
    PROVE  BoardInv'
<1>1. words \in Seq(Words)
  BY DEF CallShows
<1>2. /\ \A c \in Cpu : todo'[r][c] = IF c \in CpusOf[r] THEN words ELSE <<>>
      /\ \A s \in Rank : s # r => todo'[s] = todo[s]
  BY <1>1, StartsFacts DEF Good
<1>3. StartUp'
  <2>1. \A s \in Rank : s # r => (Idle(s)' <=> Idle(s))
    BY <1>2 DEF Idle
  <2> QED
    BY <2>1 DEF Good, BoardInv, StartUp, CallOf
<1>4. OwnCpus'
  BY <1>2 DEF Good, BoardInv, OwnCpus, CallOf
<1>5. ASSUME NEW s \in Rank, stage'[s] = "running", NEW c \in CpusOf[s]
      PROVE  ShowsProcess(s, c)'
  <2>1. c \in Cpu
    BY DEF StatusAssumption
  <2>2. CASE s = r
    <3>1. todo'[r][c] = words /\ m_buffer'[c] = m_buffer[c]
      BY <1>2, <1>5, <2>1, <2>2 DEF CallOf
    <3> QED
      BY <1>5, <2>2, <3>1 DEF CallShows, ShowsProcess
  <2>3. CASE s # r
    <3>1. /\ todo'[s] = todo[s] /\ m_buffer' = m_buffer /\ stage[s] = "running"
          /\ m_current_hash'[s] = m_current_hash[s] /\ InnermostHint(s)' = InnermostHint(s)
      BY <1>2, <1>5, <2>3 DEF CallOf, InnermostHint
    <3>2. ShowsProcess(s, c)
      BY <3>1 DEF Good, BoardInv, Shown
    <3> QED
      BY <3>1, <3>2 DEF ShowsProcess
  <2> QED
    BY <2>2, <2>3
<1>6. Untouched'
  BY <1>2 DEF Good, BoardInv, Untouched, CallOf
<1>7. Shown'
  BY <1>5 DEF Shown
<1> QED
  BY <1>3, <1>4, <1>6, <1>7 DEF BoardInv

\* The words are those of a process that runs, and has written the last ones.
LEMMA CallFacts ==
    ASSUME StatusAssumption, Good, NEW r \in Rank, Call(r)
    PROVE  /\ UNCHANGED <<m_buffer, stage>> /\ stage[r] = "running" /\ Idle(r)
           /\ \A s \in Rank : stage[s] # "running" => stage[s] = "barrier" /\ Idle(s)
           /\ \A c \in CpusOf[r] :
                /\ m_buffer[c].process = r /\ m_buffer[c].hash = m_current_hash[r]
                /\ m_buffer[c].hint = InnermostHint(r)
<1>1. UNCHANGED <<m_buffer, stage>> /\ stage[r] = "running" /\ Idle(r)
  BY DEF Call
<1>2. ASSUME NEW c \in CpusOf[r]
      PROVE  /\ m_buffer[c].process = r /\ m_buffer[c].hash = m_current_hash[r]
             /\ m_buffer[c].hint = InnermostHint(r)
  <2>1. c \in Cpu
    BY DEF StatusAssumption
  <2>2. todo[r][c] = <<>>
    BY <1>1, <2>1, IdleFacts DEF Good
  <2>3. ShowsProcess(r, c)
    BY <1>1 DEF Good, BoardInv, Shown
  <2> QED
    BY <2>2, <2>3, ShownNow DEF ShowsProcess
<1> QED
  BY <1>1, <1>2 DEF Good, BoardInv, StartUp

\* Entering a region is on top of the stack of hints.
LEMMA EnterStack ==
    ASSUME TypeOK, NEW r \in Rank, NEW h \in Region, Enter(r, h)
    PROVE  /\ m_hint_stack'[r] \in Seq(Hint) /\ InnermostHint(r)' = HintOf[h] /\ HintOf[h] \in Hint
           /\ \A s \in Rank : s # r => m_hint_stack'[s] = m_hint_stack[s]
<1> DEFINE stack == m_hint_stack[r]
           top == HintOf[h]
<1>1. m_hint_stack' = [m_hint_stack EXCEPT ![r] = <<top>> \o stack]
  BY DEF Enter
<1>2. m_hint_stack \in [Rank -> Seq(Hint)] /\ stack \in Seq(Hint) /\ top \in Hint
  BY DEF TypeOK, Hint
<1> HIDE DEF stack, top
<1>3. /\ <<top>> \o stack \in Seq(Hint) /\ <<top>> \o stack # <<>>
      /\ Head(<<top>> \o stack) = top
  <2>1. <<top>> \in Seq(Hint) /\ Len(<<top>>) = 1 /\ <<top>>[1] = top
    BY <1>2
  <2>2. /\ <<top>> \o stack \in Seq(Hint) /\ Len(<<top>> \o stack) = 1 + Len(stack)
        /\ (<<top>> \o stack)[1] = top /\ Len(stack) \in Nat
    BY <1>2, <2>1, ConcatProperties
  <2> DEFINE longer == <<top>> \o stack
  <2> HIDE DEF longer
  <2>3. longer \in Seq(Hint) /\ Len(longer) > 0 /\ longer[1] = top
    BY <2>2 DEF longer
  <2>4. longer # <<>> /\ Head(longer) = top
    BY <2>3
  <2> QED
    BY <2>3, <2>4 DEF longer
<1> DEFINE longer == <<top>> \o stack
<1> HIDE DEF longer
<1>4. m_hint_stack'[r] = longer /\ \A s \in Rank : s # r => m_hint_stack'[s] = m_hint_stack[s]
  BY <1>1, <1>2 DEF longer
<1>5. InnermostHint(r)' = top
  BY <1>3, <1>4 DEF InnermostHint, longer
<1> QED
  BY <1>2, <1>3, <1>4, <1>5 DEF longer, top

\* The words of enter() outside every region,
LEMMA EnterOutermost ==
    ASSUME StatusAssumption, Good, NEW r \in Rank, NEW h \in Region, Enter(r, h),
           m_current_hash[r] = "UNMARKED"
    PROVE  CallShows(r, SetHash(h, HintOf[h]))
<1> DEFINE words == SetHash(h, HintOf[h])
<1>1. Call(r) /\ m_current_hash'[r] = h /\ h \in Value.hash
  BY DEF Enter, Good, TypeOK, Value
<1>2. InnermostHint(r)' = HintOf[h] /\ HintOf[h] \in Hint
  BY EnterStack DEF Good
<1>3. /\ words \in Seq(Words) /\ Len(words) = 2
      /\ words[1].field = "hash" /\ words[1].value = h
      /\ words[2].field = "hint" /\ words[2].value = HintOf[h]
  BY <1>1, <1>2, SetHashWords
<1> HIDE DEF words
<1>5. ASSUME NEW c \in CpusOf[r]
      PROVE  /\ WillShow(words, m_buffer[c], "process", r)
             /\ WillShow(words, m_buffer[c], "hash", h)
             /\ WillShow(words, m_buffer[c], "hint", HintOf[h])
  <2>1. m_buffer[c]["process"] = r
    BY <1>1, CallFacts
  <2> QED
    BY <1>3, <2>1 DEF WillShow
<1>6. CallShows(r, words)
  BY <1>1, <1>2, <1>3, <1>5 DEF CallShows
<1> QED
  BY <1>6 DEF words

\* and within one.
LEMMA EnterNested ==
    ASSUME StatusAssumption, Good, NEW r \in Rank, NEW h \in Region, Enter(r, h),
           m_current_hash[r] # "UNMARKED"
    PROVE  CallShows(r, SetHint(HintOf[h]))
<1> DEFINE words == SetHint(HintOf[h])
<1>1. Call(r) /\ m_current_hash'[r] = m_current_hash[r]
  BY DEF Enter
<1>2. InnermostHint(r)' = HintOf[h] /\ HintOf[h] \in Hint
  BY EnterStack DEF Good
<1>3. /\ words \in Seq(Words) /\ Len(words) = 1
      /\ words[1].field = "hint" /\ words[1].value = HintOf[h]
  BY <1>2, SetHintWords
<1> HIDE DEF words
<1>5. ASSUME NEW c \in CpusOf[r]
      PROVE  /\ WillShow(words, m_buffer[c], "process", r)
             /\ WillShow(words, m_buffer[c], "hash", m_current_hash'[r])
             /\ WillShow(words, m_buffer[c], "hint", HintOf[h])
  <2>1. m_buffer[c]["process"] = r /\ m_buffer[c]["hash"] = m_current_hash'[r]
    BY <1>1, CallFacts
  <2> QED
    BY <1>3, <2>1 DEF WillShow
<1>6. CallShows(r, words)
  BY <1>1, <1>2, <1>3, <1>5 DEF CallShows
<1> QED
  BY <1>6 DEF words

\* So enter() keeps the invariant.
LEMMA EnterKeepsBoard ==
    ASSUME StatusAssumption, Good, NEW r \in Rank, NEW h \in Region, Enter(r, h)
    PROVE  BoardInv'
<1>1. Call(r)
  BY DEF Enter
<1>2. CallOf(r)
  <2>1. \A s \in Rank : s # r => m_hint_stack'[s] = m_hint_stack[s]
    BY EnterStack DEF Good
  <2>2. \A s \in Rank : s # r => m_current_hash'[s] = m_current_hash[s]
    BY DEF Enter, Good, TypeOK
  <2> QED
    BY <1>1, <2>1, <2>2, CallFacts DEF CallOf
<1>3. CASE m_current_hash[r] = "UNMARKED"
  <2>1. Starts(r, CpusOf[r], SetHash(h, HintOf[h]))
    BY <1>3 DEF Enter
  <2> QED
    BY <1>2, <1>3, <2>1, EnterOutermost, CallKeepsBoard
<1>4. CASE m_current_hash[r] # "UNMARKED"
  <2>1. Starts(r, CpusOf[r], SetHint(HintOf[h]))
    BY <1>4 DEF Enter
  <2> QED
    BY <1>2, <1>4, <2>1, EnterNested, CallKeepsBoard
<1> QED
  BY <1>3, <1>4

\* Leaving a region within another goes back to the hint below.
LEMMA ExitNestedStack ==
    ASSUME TypeOK, NEW r \in Rank, ExitNested(r)
    PROVE  /\ m_hint_stack'[r] \in Seq(Hint) /\ InnermostHint(r)' = m_hint_stack[r][2]
           /\ m_hint_stack[r][2] \in Hint
           /\ \A s \in Rank : s # r => m_hint_stack'[s] = m_hint_stack[s]
<1> DEFINE stack == m_hint_stack[r]
           below == Tail(stack)
<1>1. m_hint_stack' = [m_hint_stack EXCEPT ![r] = below] /\ Len(stack) > 1
  BY DEF ExitNested
<1>2. m_hint_stack \in [Rank -> Seq(Hint)] /\ stack \in Seq(Hint)
  BY DEF TypeOK
<1> HIDE DEF stack
<1>3. /\ below \in Seq(Hint) /\ Len(below) = Len(stack) - 1 /\ Len(stack) \in Nat
      /\ \A i \in 1 .. Len(below) : below[i] = stack[i + 1]
  <2>1. stack # <<>>
    BY <1>1
  <2> QED
    BY <1>2, <2>1, HeadTailProperties
<1> HIDE DEF below
<1>4. Len(below) > 0 /\ below[1] = stack[2] /\ stack[2] \in Hint
  BY <1>1, <1>2, <1>3
<1>5. below # <<>> /\ Head(below) = stack[2]
  BY <1>3, <1>4
<1>6. m_hint_stack'[r] = below /\ \A s \in Rank : s # r => m_hint_stack'[s] = m_hint_stack[s]
  BY <1>1, <1>2
<1>7. InnermostHint(r)' = stack[2]
  BY <1>5, <1>6 DEF InnermostHint
<1> QED
  BY <1>3, <1>4, <1>6, <1>7 DEF stack

\* exit() of a nested region.
LEMMA ExitNestedKeepsBoard ==
    ASSUME StatusAssumption, Good, NEW r \in Rank, ExitNested(r)
    PROVE  BoardInv'
<1> DEFINE hint == m_hint_stack[r][2]
           words == SetHint(hint)
<1>1. Call(r) /\ m_current_hash' = m_current_hash /\ Starts(r, CpusOf[r], words)
  BY DEF ExitNested
<1>2. InnermostHint(r)' = hint /\ hint \in Hint
  BY ExitNestedStack DEF Good
<1> HIDE DEF hint
<1>3. /\ words \in Seq(Words) /\ Len(words) = 1
      /\ words[1].field = "hint" /\ words[1].value = hint
  BY <1>2, SetHintWords
<1> HIDE DEF words
<1>5. ASSUME NEW c \in CpusOf[r]
      PROVE  /\ WillShow(words, m_buffer[c], "process", r)
             /\ WillShow(words, m_buffer[c], "hash", m_current_hash'[r])
             /\ WillShow(words, m_buffer[c], "hint", hint)
  <2>1. m_buffer[c]["process"] = r /\ m_buffer[c]["hash"] = m_current_hash'[r]
    BY <1>1, CallFacts
  <2> QED
    BY <1>3, <2>1 DEF WillShow
<1>6. CallShows(r, words)
  BY <1>1, <1>2, <1>3, <1>5 DEF CallShows
<1>7. CallOf(r)
  <2>1. \A s \in Rank : s # r => m_hint_stack'[s] = m_hint_stack[s]
    BY ExitNestedStack DEF Good
  <2> QED
    BY <1>1, <2>1, CallFacts DEF CallOf
<1> QED
  BY <1>1, <1>6, <1>7, CallKeepsBoard

\* Leaving the outermost region.
LEMMA ExitOutermostKeepsBoard ==
    ASSUME StatusAssumption, Good, NEW r \in Rank, ExitOutermost(r)
    PROVE  BoardInv'
<1> DEFINE words == LeaveCpu
<1>1. Call(r) /\ Starts(r, CpusOf[r], words)
  BY DEF ExitOutermost
<1>2. /\ m_current_hash'[r] = "UNMARKED" /\ InnermostHint(r)' = "UNSET"
      /\ \A s \in Rank : s # r => m_hint_stack'[s] = m_hint_stack[s]
                                  /\ m_current_hash'[s] = m_current_hash[s]
  BY DEF ExitOutermost, Good, TypeOK, InnermostHint
<1>3. /\ words \in Seq(Words) /\ Len(words) = 4
      /\ words[1].field = "hash" /\ words[1].value = "UNMARKED"
      /\ words[2].field = "hint" /\ words[2].value = "UNSET"
      /\ words[3].field = "total_work" /\ words[4].field = "completed_work"
  BY LeaveWords
<1> HIDE DEF words
<1>5. ASSUME NEW c \in CpusOf[r]
      PROVE  /\ WillShow(words, m_buffer[c], "process", r)
             /\ WillShow(words, m_buffer[c], "hash", "UNMARKED")
             /\ WillShow(words, m_buffer[c], "hint", "UNSET")
  <2>1. m_buffer[c]["process"] = r
    BY <1>1, CallFacts
  <2> QED
    BY <1>3, <2>1 DEF WillShow
<1>6. CallShows(r, words)
  BY <1>2, <1>3, <1>5 DEF CallShows
<1>7. CallOf(r)
  BY <1>1, <1>2, CallFacts DEF CallOf
<1> QED
  BY <1>1, <1>6, <1>7, CallKeepsBoard

\* Announcing work units.
LEMMA ThreadInitKeepsBoard ==
    ASSUME StatusAssumption, Good, NEW r \in Rank, NEW n \in WorkUnits, ThreadInit(r, n)
    PROVE  BoardInv'
<1> DEFINE words == Word("total_work", n)
<1>1. /\ Call(r) /\ Starts(r, CpusOf[r], words)
      /\ m_current_hash' = m_current_hash /\ m_hint_stack' = m_hint_stack
  BY DEF ThreadInit
<1>2. InnermostHint(r)' = InnermostHint(r)
  BY <1>1 DEF InnermostHint
<1>3. words \in Seq(Words) /\ Len(words) = 1 /\ words[1].field = "total_work"
  <2>1. "total_work" \in Field /\ n \in Value["total_work"]
    BY DEF Field, Range, Layout, Value, StatusAssumption
  <2> QED
    BY <2>1, WordTypes
<1> HIDE DEF words
<1>5. ASSUME NEW c \in CpusOf[r]
      PROVE  /\ WillShow(words, m_buffer[c], "process", r)
             /\ WillShow(words, m_buffer[c], "hash", m_current_hash'[r])
             /\ WillShow(words, m_buffer[c], "hint", InnermostHint(r)')
  <2>1. /\ m_buffer[c]["process"] = r /\ m_buffer[c]["hash"] = m_current_hash'[r]
        /\ m_buffer[c]["hint"] = InnermostHint(r)'
    BY <1>1, <1>2, CallFacts
  <2> QED
    BY <1>3, <2>1 DEF WillShow
<1>6. CallShows(r, words)
  BY <1>3, <1>5 DEF CallShows
<1>7. CallOf(r)
  BY <1>1, CallFacts DEF CallOf
<1> QED
  BY <1>1, <1>6, <1>7, CallKeepsBoard

\* Taking the CPUs, behind the barrier.
LEMMA PassBarrierKeepsBoard ==
    ASSUME StatusAssumption, Good, NEW r \in Rank, PassBarrier(r)
    PROVE  BoardInv'
<1> DEFINE words == SetProcess(r)
<1>1. /\ stage[r] = "barrier" /\ stage' = [stage EXCEPT ![r] = "running"]
      /\ \A s \in Rank : stage[s] # "attach" /\ (stage[s] = "barrier" => Idle(s))
      /\ UNCHANGED <<m_buffer, m_current_hash, m_hint_stack>> /\ Starts(r, CpusOf[r], words)
  BY DEF PassBarrier
<1>2. m_current_hash'[r] = "UNMARKED" /\ InnermostHint(r)' = "UNSET"
  BY <1>1 DEF Good, BoardInv, StartUp, InnermostHint
<1>3. /\ words \in Seq(Words) /\ Len(words) = 3
      /\ words[1].field = "process" /\ words[1].value = r
      /\ words[2].field = "hash" /\ words[2].value = "UNMARKED"
      /\ words[3].field = "hint" /\ words[3].value = "UNSET"
  BY ProcessWords DEF StatusAssumption
<1> HIDE DEF words
<1>5. ASSUME NEW c \in CpusOf[r]
      PROVE  /\ WillShow(words, m_buffer[c], "process", r)
             /\ WillShow(words, m_buffer[c], "hash", "UNMARKED")
             /\ WillShow(words, m_buffer[c], "hint", "UNSET")
  BY <1>3 DEF WillShow
<1>6. CallShows(r, words)
  BY <1>2, <1>3, <1>5 DEF CallShows
<1>7. stage \in [Rank -> {"attach", "barrier", "running"}]
  BY DEF Good, TypeOK
<1>8. CallOf(r)
  BY <1>1, <1>7 DEF CallOf
<1> QED
  BY <1>1, <1>6, <1>8, CallKeepsBoard

\* Constructing the status: no process has taken its CPUs yet.
LEMMA ConstructKeepsBoard ==
    ASSUME Good, NEW r \in Rank, Construct(r)
    PROVE  BoardInv'
<1> DEFINE words == SetProcess(NoRank)
<1>1. /\ stage[r] = "attach" /\ stage' = [stage EXCEPT ![r] = "barrier"]
      /\ UNCHANGED <<m_buffer, m_current_hash, m_hint_stack>> /\ Starts(r, Cpu, words)
  BY DEF Construct
<1>2. /\ words \in Seq(Words) /\ Len(words) = 3
      /\ words[1].field = "process" /\ words[1].value = NoRank
      /\ words[2].field = "hash" /\ words[2].value = "INVALID"
      /\ words[3].field = "hint" /\ words[3].value = "INACTIVE"
  BY ProcessWords
<1> HIDE DEF words
<1>3. Clearing(words)
  BY <1>2 DEF Clearing, Inactive
<1>4. stage \in [Rank -> {"attach", "barrier", "running"}]
  BY DEF Good, TypeOK
<1>5. \A s \in Rank : stage[s] # "running" /\ stage'[s] # "running"
  BY <1>1, <1>4 DEF Good, BoardInv, StartUp
<1>6. /\ \A c \in Cpu : todo'[r][c] = words
      /\ \A s \in Rank : s # r => todo'[s] = todo[s]
  <2>1. /\ \A c \in Cpu : todo'[r][c] = IF c \in Cpu THEN words ELSE <<>>
        /\ \A s \in Rank : s # r => todo'[s] = todo[s]
    BY <1>1, <1>2, StartsFacts DEF Good
  <2> QED
    BY <2>1
<1>7. StartUp'
  <2>1. ASSUME NEW s \in Rank, stage'[s] = "attach" PROVE Idle(s)'
    <3>1. s # r /\ stage[s] = "attach"
      BY <1>1, <1>4, <2>1
    <3> QED
      BY <1>6, <3>1 DEF Good, BoardInv, StartUp, Idle
  <2> QED
    BY <1>1, <1>5, <2>1 DEF Good, BoardInv, StartUp
<1>8. OwnCpus' /\ Shown'
  BY <1>5 DEF OwnCpus, Shown
<1>9. Untouched'
  BY <1>1, <1>3, <1>5, <1>6 DEF Good, BoardInv, Untouched
<1> QED
  BY <1>7, <1>8, <1>9 DEF BoardInv

\* Posting a work unit changes the progress, and no word that is shown.
LEMMA PostFacts ==
    ASSUME TypeOK, NEW r \in Rank, NEW c \in Cpu, ThreadPost(r, c)
    PROVE  /\ m_buffer' \in [Cpu -> Status] /\ units' \in [Cpu -> Nat]
           /\ \A d \in Cpu : \A f \in Field :
                f # "completed_work" => m_buffer'[d][f] = m_buffer[d][f]
           /\ \A d \in Cpu : m_buffer'[d].completed_work >= m_buffer[d].completed_work
<1>1. m_buffer \in [Cpu -> Status] /\ units \in [Cpu -> Nat]
  BY DEF TypeOK
<1>2. units' \in [Cpu -> Nat]
  BY <1>1 DEF ThreadPost
<1>3. \A d \in Cpu : m_buffer[d] \in Status /\ m_buffer[d].completed_work \in Nat
  BY <1>1 DEF Status
<1>4. CASE m_buffer' = m_buffer
  BY <1>1, <1>2, <1>3, <1>4
<1>5. CASE m_buffer' # m_buffer
  <2> DEFINE s == m_buffer[c]
             n == s.completed_work + 1
             new == Written(s, "completed_work", n)
  <2>1. m_buffer' = [m_buffer EXCEPT ![c] = new]
    BY <1>5 DEF ThreadPost, Written
  <2>2. "completed_work" \in Field /\ n \in Value["completed_work"] /\ s \in Status
    BY <1>3, ShownFields DEF Value
  <2>3. new \in Status /\ \A f \in Field : new[f] = IF f = "completed_work" THEN n ELSE s[f]
    BY <2>2, StatusWritten
  <2>4. new["completed_work"] = n /\ n >= s.completed_work
    BY <1>3, <2>2, <2>3
  <2> HIDE DEF new, n
  <2>5. /\ m_buffer' \in [Cpu -> Status] /\ m_buffer'[c] = new
        /\ \A d \in Cpu : d # c => m_buffer'[d] = m_buffer[d]
    BY <1>1, <2>1, <2>3
  <2>6. ASSUME NEW d \in Cpu
        PROVE  m_buffer'[d].completed_work >= m_buffer[d].completed_work
    <3>1. CASE d = c
      BY <2>4, <2>5, <3>1
    <3>2. CASE d # c
      BY <1>3, <2>5, <3>2
    <3> QED
      BY <3>1, <3>2
  <2>7. ASSUME NEW d \in Cpu, NEW f \in Field, f # "completed_work"
        PROVE  m_buffer'[d][f] = m_buffer[d][f]
    BY <2>3, <2>5, <2>7
  <2> QED
    BY <1>2, <2>5, <2>6, <2>7
<1> QED
  BY <1>4, <1>5

\* So geopm_tprof_post() keeps the invariant.
LEMMA PostKeepsBoard ==
    ASSUME StatusAssumption, Good, NEW r \in Rank, NEW c \in Cpu, ThreadPost(r, c)
    PROVE  BoardInv'
<1>1. UNCHANGED <<stage, todo, m_current_hash, m_hint_stack>>
  BY DEF ThreadPost
<1>2. \A d \in Cpu : \A f \in Field :
         f # "completed_work" => m_buffer'[d][f] = m_buffer[d][f]
  BY PostFacts DEF Good
<1>3. StartUp' /\ OwnCpus'
  BY <1>1 DEF Good, BoardInv, StartUp, OwnCpus, Idle
<1>4. ASSUME NEW s \in Rank, stage'[s] = "running", NEW d \in CpusOf[s]
      PROVE  ShowsProcess(s, d)'
  <2>1. d \in Cpu /\ ShowsProcess(s, d) /\ InnermostHint(s)' = InnermostHint(s)
    BY <1>1, <1>4 DEF Good, BoardInv, Shown, StatusAssumption, InnermostHint
  <2>2. /\ m_buffer'[d]["process"] = m_buffer[d]["process"]
        /\ m_buffer'[d]["hash"] = m_buffer[d]["hash"]
        /\ m_buffer'[d]["hint"] = m_buffer[d]["hint"]
    BY <1>2, <2>1, ShownFields
  <2> QED
    BY <1>1, <2>1, <2>2 DEF ShowsProcess, WillShow
<1>5. Shown'
  BY <1>4 DEF Shown
<1>6. ASSUME NEW s \in Rank, stage[s] # "running", NEW d \in CpusOf[s]
      PROVE  m_buffer'[d] = Inactive
  <2>1. d \in Cpu /\ m_buffer[d] = Inactive
    BY <1>6 DEF Good, BoardInv, Untouched, StatusAssumption
  <2>2. CASE d = c
    BY <2>1, <2>2 DEF ThreadPost, Inactive
  <2>3. CASE d # c
    BY <2>1, <2>3 DEF ThreadPost, Good, TypeOK
  <2> QED
    BY <2>2, <2>3
<1>7. Untouched'
  BY <1>1, <1>6 DEF Good, BoardInv, Untouched
<1> QED
  BY <1>3, <1>5, <1>7 DEF BoardInv

\* The controller and the clock leave the board alone.
LEMMA OthersKeepBoard ==
    ASSUME Good, UNCHANGED <<m_buffer, process>>
    PROVE  BoardInv'
<1>1. UNCHANGED <<m_buffer, stage, todo, m_current_hash, m_hint_stack>>
  BY DEF process
<1>2. StartUp' /\ OwnCpus' /\ Untouched'
  BY <1>1 DEF Good, BoardInv, StartUp, OwnCpus, Untouched, Idle
<1>3. Shown'
  BY <1>1 DEF Good, BoardInv, Shown, ShowsProcess, InnermostHint
<1> QED
  BY <1>2, <1>3 DEF BoardInv

-----------------------------------------------------------------------------
(* Types.                                                                  *)

\* The clock, and the times of the updates.
Clocks ==
    /\ now \in Nat /\ curr_time \in Nat /\ m_update_time \in Nat /\ first_time \in Nat
    /\ m_update_time <= curr_time /\ m_is_first_update \in BOOLEAN
    /\ m_is_first_update => m_update_time = 0 /\ first_time = 0

\* What the processes have, and the controller.
BoardTypes ==
    /\ m_buffer \in [Cpu -> Status] /\ todo \in [Rank -> [Cpu -> Seq(Words)]]
    /\ stage \in [Rank -> {"attach", "barrier", "running"}]
    /\ m_current_hash \in [Rank -> Region \cup {"UNMARKED"}]
    /\ m_hint_stack \in [Rank -> Seq(Hint)] /\ units \in [Cpu -> Nat]
CopyTypes ==
    /\ m_cache \in [Cpu -> Status] /\ uncopied \in [Cpu -> Seq(Field)]
    /\ m_hint_last \in [Cpu -> Hint] /\ m_hint_time \in [Cpu -> [Hint -> Nat]]
    /\ Clocks

\* The two halves of the types.
LEMMA Types == TypeOK /\ Clocks <=> BoardTypes /\ CopyTypes
  BY DEF TypeOK, BoardTypes, CopyTypes

\* The calls of the processes keep the types.
LEMMA EnterTypes ==
    ASSUME TypeOK, NEW r \in Rank, NEW h \in Region, Enter(r, h)
    PROVE  BoardTypes'
<1>1. UNCHANGED <<m_buffer, stage, units>>
  BY DEF Enter, Call
<1>2. m_hint_stack' \in [Rank -> Seq(Hint)]
  <2>1. /\ m_hint_stack'[r] \in Seq(Hint)
        /\ \A s \in Rank : s # r => m_hint_stack'[s] = m_hint_stack[s]
    BY EnterStack
  <2>2. \E stack : m_hint_stack' = [m_hint_stack EXCEPT ![r] = stack]
    BY DEF Enter
  <2> QED
    BY <2>1, <2>2 DEF TypeOK
<1>3. m_current_hash' \in [Rank -> Region \cup {"UNMARKED"}]
  BY DEF Enter, TypeOK
<1>4. h \in Value.hash /\ HintOf[h] \in Hint
  BY DEF Value, Hint
<1>5. todo' \in [Rank -> [Cpu -> Seq(Words)]]
  <2>1. PICK words \in Seq(Words) : Starts(r, CpusOf[r], words)
    <3>1. SetHash(h, HintOf[h]) \in Seq(Words) /\ SetHint(HintOf[h]) \in Seq(Words)
      BY <1>4, SetHashWords, SetHintWords
    <3> QED
      BY <3>1 DEF Enter
  <2> QED
    BY <2>1, StartsFacts
<1> QED
  BY <1>1, <1>2, <1>3, <1>5 DEF TypeOK, BoardTypes

\* exit() of a nested region,
LEMMA ExitNestedTypes ==
    ASSUME TypeOK, NEW r \in Rank, ExitNested(r)
    PROVE  BoardTypes'
<1>1. UNCHANGED <<m_buffer, stage, m_current_hash, units>>
  BY DEF ExitNested, Call
<1>2. m_hint_stack' \in [Rank -> Seq(Hint)]
  <2>1. m_hint_stack'[r] \in Seq(Hint)
    BY ExitNestedStack
  <2>2. \E stack : m_hint_stack' = [m_hint_stack EXCEPT ![r] = stack]
    BY DEF ExitNested
  <2> QED
    BY <2>1, <2>2 DEF TypeOK
<1>3. todo' \in [Rank -> [Cpu -> Seq(Words)]]
  <2>1. m_hint_stack[r][2] \in Hint
    BY ExitNestedStack
  <2>2. SetHint(m_hint_stack[r][2]) \in Seq(Words)
    BY <2>1, SetHintWords
  <2> QED
    BY <2>2, StartsFacts DEF ExitNested
<1> QED
  BY <1>1, <1>2, <1>3 DEF TypeOK, BoardTypes

\* of the outermost one,
LEMMA ExitOutermostTypes ==
    ASSUME TypeOK, NEW r \in Rank, ExitOutermost(r)
    PROVE  BoardTypes'
<1>1. UNCHANGED <<m_buffer, stage>>
  BY DEF ExitOutermost, Call
<1>2. m_hint_stack' \in [Rank -> Seq(Hint)]
  BY DEF ExitOutermost, TypeOK
<1>3. m_current_hash' \in [Rank -> Region \cup {"UNMARKED"}] /\ units' \in [Cpu -> Nat]
  BY DEF ExitOutermost, TypeOK
<1>4. todo' \in [Rank -> [Cpu -> Seq(Words)]]
  BY LeaveWords, StartsFacts DEF ExitOutermost
<1> QED
  BY <1>1, <1>2, <1>3, <1>4 DEF TypeOK, BoardTypes

\* announcing work units,
LEMMA ThreadInitTypes ==
    ASSUME StatusAssumption, TypeOK, NEW r \in Rank, NEW n \in WorkUnits, ThreadInit(r, n)
    PROVE  BoardTypes'
<1>1. UNCHANGED <<m_buffer, stage, m_current_hash, m_hint_stack>> /\ n \in Nat
  BY DEF ThreadInit, Call, StatusAssumption
<1>2. units' \in [Cpu -> Nat]
  BY <1>1 DEF ThreadInit, TypeOK
<1>3. todo' \in [Rank -> [Cpu -> Seq(Words)]]
  <2>1. "total_work" \in Field /\ n \in Value["total_work"]
    BY <1>1 DEF Field, Range, Layout, Value
  <2>2. Word("total_work", n) \in Seq(Words)
    BY <2>1, WordTypes
  <2> QED
    BY <2>2, StartsFacts DEF ThreadInit
<1> QED
  BY <1>1, <1>2, <1>3 DEF TypeOK, BoardTypes

\* and the start-up.
LEMMA StartUpTypes ==
    ASSUME TypeOK, NEW r \in Rank, Construct(r) \/ PassBarrier(r)
    PROVE  BoardTypes'
<1>1. UNCHANGED <<m_buffer, m_current_hash, m_hint_stack, units>>
  BY DEF Construct, PassBarrier
<1>2. stage' \in [Rank -> {"attach", "barrier", "running"}]
  BY DEF Construct, PassBarrier, TypeOK
<1>3. todo' \in [Rank -> [Cpu -> Seq(Words)]]
  <2>1. SetProcess(r) \in Seq(Words) /\ SetProcess(NoRank) \in Seq(Words)
    BY ProcessWords
  <2> QED
    BY <2>1, StartsFacts DEF Construct, PassBarrier
<1> QED
  BY <1>1, <1>2, <1>3 DEF TypeOK, BoardTypes

\* The steps of the application keep the types, and those of the controller.
LEMMA ApplicationTypes ==
    ASSUME StatusAssumption, TypeOK, Clocks, Application
    PROVE  TypeOK' /\ Clocks'
<1> PICK r \in Rank :
      \/ Write(r) \/ Construct(r) \/ PassBarrier(r)
      \/ \E h \in Region : Enter(r, h)
      \/ ExitNested(r) \/ ExitOutermost(r)
      \/ \E n \in WorkUnits : ThreadInit(r, n)
      \/ \E c \in Cpu : ThreadPost(r, c)
  BY DEF Application
<1>1. UNCHANGED <<sampler, now>>
  BY DEF Write, Construct, PassBarrier, Enter, ExitNested, ExitOutermost, ThreadInit, ThreadPost,
         Call
<1>2. BoardTypes'
  <2>1. CASE Write(r)
    <3>1. PICK c \in Cpu : WritesTo(r, c)
      BY <2>1, WriteStep
    <3>2. todo' \in [Rank -> [Cpu -> Seq(Words)]] /\ m_buffer' \in [Cpu -> Status]
      BY <3>1, WriteFacts
    <3>3. UNCHANGED <<stage, m_current_hash, m_hint_stack, units>>
      BY <2>1 DEF Write
    <3> QED
      BY <3>2, <3>3 DEF TypeOK, BoardTypes
  <2>2. CASE Construct(r) \/ PassBarrier(r)
    BY <2>2, StartUpTypes
  <2>3. ASSUME NEW h \in Region, Enter(r, h) PROVE BoardTypes'
    BY <2>3, EnterTypes
  <2>4. CASE ExitNested(r)
    BY <2>4, ExitNestedTypes
  <2>5. CASE ExitOutermost(r)
    BY <2>5, ExitOutermostTypes
  <2>6. ASSUME NEW n \in WorkUnits, ThreadInit(r, n) PROVE BoardTypes'
    BY <2>6, ThreadInitTypes
  <2>7. ASSUME NEW c \in Cpu, ThreadPost(r, c) PROVE BoardTypes'
    <3>1. m_buffer' \in [Cpu -> Status] /\ units' \in [Cpu -> Nat]
      BY <2>7, PostFacts
    <3>2. UNCHANGED <<stage, todo, m_current_hash, m_hint_stack>>
      BY <2>7 DEF ThreadPost
    <3> QED
      BY <3>1, <3>2 DEF TypeOK, BoardTypes
  <2> QED
    BY <2>1, <2>2, <2>3, <2>4, <2>5, <2>6, <2>7
<1>3. CopyTypes'
  BY <1>1 DEF TypeOK, Clocks, CopyTypes, sampler
<1>4. (TypeOK /\ Clocks <=> BoardTypes /\ CopyTypes)'
  BY Types, PTL
<1> QED
  BY <1>2, <1>3, <1>4

\* A word is copied.
LEMMA CopyKeepsTypes ==
    ASSUME TypeOK, Clocks, CopyWord
    PROVE  CopyTypes'
<1>1. PICK c \in Cpu :
        /\ uncopied[c] # <<>> /\ uncopied' = [uncopied EXCEPT ![c] = Tail(@)]
        /\ m_cache' = [m_cache EXCEPT ![c][Head(uncopied[c])] = m_buffer[c][Head(uncopied[c])]]
  BY DEF CopyWord, IsNext
<1> DEFINE f == Head(uncopied[c])
           v == m_buffer[c][f]
           tail == Tail(uncopied[c])
           new == Written(m_cache[c], f, v)
<1>2. uncopied \in [Cpu -> Seq(Field)] /\ m_cache \in [Cpu -> Status] /\ m_buffer[c] \in Status
  BY DEF TypeOK
<1>3. f \in Field /\ tail \in Seq(Field)
  BY <1>1, <1>2, HeadTailProperties
<1>4. v \in Value[f]
  BY <1>2, <1>3, StatusFacts
<1>5. new \in Status
  BY <1>2, <1>3, <1>4, StatusWritten
<1>6. uncopied' = [uncopied EXCEPT ![c] = tail] /\ m_cache' = [m_cache EXCEPT ![c] = new]
  BY <1>1 DEF Written
<1> HIDE DEF f, v, tail, new
<1>7. uncopied' \in [Cpu -> Seq(Field)] /\ m_cache' \in [Cpu -> Status]
  BY <1>2, <1>3, <1>5, <1>6
<1>8. UNCHANGED <<curr_time, m_is_first_update, m_update_time, m_hint_last, m_hint_time,
                  first_time, now>>
  BY DEF CopyWord
<1> QED
  BY <1>7, <1>8 DEF TypeOK, Clocks, CopyTypes

-----------------------------------------------------------------------------
(* Hint times.                                                             *)

\* The hints are finitely many.
LEMMA HintsFinite == StatusAssumption => IsFiniteSet(Hint)
<1> SUFFICES ASSUME StatusAssumption PROVE IsFiniteSet(Hint)
  OBVIOUS
<1> DEFINE T == {HintOf[h] : h \in Region}
           f == [h \in Region |-> HintOf[h]]
<1>1. IsFiniteSet(T)
  <2>1. f \in Surjection(Region, T)
    BY DEF Surjection
  <2>2. IsFiniteSet(Region)
    BY DEF StatusAssumption
  <2> HIDE DEF f, T
  <2> QED
    BY <2>1, <2>2, FS_Surjection
<1>2. Hint = (T \cup {"UNSET"}) \cup {"INACTIVE"}
  BY DEF Hint
<1> HIDE DEF T
<1>3. IsFiniteSet(T \cup {"UNSET"})
  BY <1>1, FS_AddElement
<1> QED
  BY <1>2, <1>3, FS_AddElement

\* The time since the last update, which goes to one hint.
Spent == curr_time - m_update_time

\* What the times of a CPU add up to.
HintTime(c) == SumOver(m_hint_time[c], Hint)
\* The property, with the sum that the lemmas are about.
LEMMA HintTimeSums ==
    HintTimeConserved <=> \A c \in Cpu : HintTime(c) = m_update_time - first_time
<1>1. \A c \in Cpu : MapThenSumSet(LAMBDA h : m_hint_time[c][h], Hint) = HintTime(c)
  BY SumIsFold DEF HintTime
<1> QED
  BY <1>1 DEF HintTimeConserved

\* An update that is not the first adds the time since the last one.
LEMMA UpdateTimes ==
    ASSUME StatusAssumption, TypeOK, Clocks, EndUpdate, ~m_is_first_update, NEW c \in Cpu
    PROVE  /\ m_hint_time'[c] \in [Hint -> Nat]
           /\ HintTime(c)' = HintTime(c) + Spent
<1> DEFINE f == m_hint_time[c]
           k == m_hint_last[c]
           g == [f EXCEPT ![k] = @ + Spent]
<1>1. m_hint_time'[c] = g
  BY DEF EndUpdate, HintTimes, Spent
<1>2. f \in [Hint -> Nat] /\ k \in Hint /\ Spent \in Nat
  BY DEF TypeOK, Clocks, Spent
<1>3. IsFiniteSet(Hint)
  BY HintsFinite
<1> HIDE DEF f, k
<1>4. /\ g \in [Hint -> Nat] /\ g[k] = f[k] + Spent
      /\ \A h \in Hint : f[h] \in Int /\ g[h] \in Int
      /\ \A h \in Hint : h # k => g[h] = f[h]
  BY <1>2
<1> HIDE DEF g
<1>5. ChangedAt(f, g, Hint, k)
  BY <1>4 DEF ChangedAt
<1>6. SumOver(g, Hint) = SumOver(f, Hint) + (g[k] - f[k])
  BY <1>2, <1>3, <1>5, SumChange
<1>7. f[k] \in Int /\ g[k] - f[k] = Spent
  BY <1>2, <1>4
<1> QED
  BY <1>1, <1>4, <1>6, <1>7 DEF f, HintTime

\* The same of the property after a step.
LEMMA HintTimesAfter ==
    ASSUME \A c \in Cpu : HintTime(c)' = m_update_time' - first_time'
    PROVE  HintTimeConserved'
<1>1. (HintTimeConserved <=> \A c \in Cpu : HintTime(c) = m_update_time - first_time)'
  BY HintTimeSums, PTL
<1> QED
  BY <1>1

\* The end of an update: the first one only takes the time.
LEMMA EndUpdateKeeps ==
    ASSUME StatusAssumption, TypeOK, Clocks, HintTimeConserved, EndUpdate
    PROVE  CopyTypes' /\ HintTimeConserved'
<1>1. /\ m_hint_last' = [c \in Cpu |-> m_cache[c].hint]
      /\ m_is_first_update' = FALSE /\ m_update_time' = curr_time
      /\ UNCHANGED <<m_cache, uncopied, curr_time, now>>
  BY DEF EndUpdate
<1>2. \A c \in Cpu : HintTime(c) = m_update_time - first_time
  BY HintTimeSums
<1>3. m_hint_last' \in [Cpu -> Hint]
  <2>1. \A c \in Cpu : m_cache[c].hint \in Hint
    BY DEF TypeOK, Status, Value
  <2> QED
    BY <1>1, <2>1
<1>6. first_time' \in Nat => Clocks'
  <2>1. /\ now' \in Nat /\ curr_time' \in Nat /\ m_update_time' \in Nat
        /\ m_update_time' <= curr_time'
    BY <1>1 DEF Clocks
  <2>2. m_is_first_update' \in BOOLEAN /\ ~m_is_first_update'
    BY <1>1
  <2> HAVE first_time' \in Nat
  <2> QED
    BY <2>1, <2>2 DEF Clocks
<1>4. CASE m_is_first_update
  <2>1. first_time' = curr_time /\ m_hint_time' = m_hint_time
    BY <1>4 DEF EndUpdate, HintTimes
  <2>2. CopyTypes'
    <3>1. Clocks'
      BY <1>6, <2>1 DEF Clocks
    <3>2. m_cache' \in [Cpu -> Status] /\ uncopied' \in [Cpu -> Seq(Field)]
      BY <1>1 DEF TypeOK
    <3> QED
      BY <1>3, <2>1, <3>1, <3>2 DEF TypeOK, CopyTypes
  <2>3. \A c \in Cpu : HintTime(c)' = m_update_time' - first_time'
    <3>1. m_update_time - first_time = 0 /\ m_update_time' - first_time' = 0
      BY <1>1, <1>4, <2>1 DEF Clocks
    <3> QED
      BY <1>2, <2>1, <3>1 DEF HintTime
  <2> QED
    BY <2>2, <2>3, HintTimesAfter
<1>5. CASE ~m_is_first_update
  <2>1. first_time' = first_time /\ \E t : m_hint_time' = [c \in Cpu |-> t[c]]
    BY <1>5 DEF EndUpdate, HintTimes
  <2>2. \A c \in Cpu : m_hint_time'[c] \in [Hint -> Nat] /\ HintTime(c)' = HintTime(c) + Spent
    BY <1>5, UpdateTimes
  <2>3. m_hint_time' \in [Cpu -> [Hint -> Nat]]
    BY <2>1, <2>2
  <2>4. CopyTypes'
    <3>1. Clocks'
      BY <1>6, <2>1 DEF Clocks
    <3>2. m_cache' \in [Cpu -> Status] /\ uncopied' \in [Cpu -> Seq(Field)]
      BY <1>1 DEF TypeOK
    <3> QED
      BY <1>3, <2>3, <3>1, <3>2 DEF CopyTypes
  <2>5. \A c \in Cpu : HintTime(c)' = m_update_time' - first_time'
    <3>1. /\ curr_time \in Int /\ m_update_time \in Int /\ first_time \in Int
          /\ m_update_time' = curr_time /\ first_time' = first_time
      BY <1>1, <2>1 DEF Clocks
    <3> TAKE c \in Cpu
    <3>2. HintTime(c)' = HintTime(c) + Spent /\ HintTime(c) = m_update_time - first_time
      BY <1>2, <2>2
    <3> QED
      BY <3>1, <3>2 DEF Spent
  <2> QED
    BY <2>4, <2>5, HintTimesAfter
<1> QED
  BY <1>4, <1>5

-----------------------------------------------------------------------------
(* The board and the copies.                                               *)

StatusInv == TypeOK /\ BoardInv /\ Clocks /\ HintTimeConserved

\* The invariant holds at first,
LEMMA InitStatus ==
    ASSUME StatusAssumption, Init
    PROVE  StatusInv
<1>1. Inactive \in Status
  BY DEF Inactive, Status, Value, Hint
<1>2. Nothing \in [Cpu -> Seq(Words)] /\ Nothing \in [Cpu -> Seq(Field)]
  BY DEF Nothing
<1>3. TypeOK
  <2>1. m_buffer \in [Cpu -> Status] /\ m_cache \in [Cpu -> Status]
    BY <1>1 DEF Init
  <2>2. "UNSET" \in Hint
    BY DEF Hint
  <2>3. /\ stage \in [Rank -> {"attach", "barrier", "running"}]
        /\ todo \in [Rank -> [Cpu -> Seq(Words)]] /\ uncopied \in [Cpu -> Seq(Field)]
        /\ m_current_hash \in [Rank -> Region \cup {"UNMARKED"}]
        /\ m_hint_stack \in [Rank -> Seq(Hint)] /\ units \in [Cpu -> Nat]
    BY <1>2 DEF Init
  <2>4. m_hint_last \in [Cpu -> Hint] /\ m_hint_time \in [Cpu -> [Hint -> Nat]]
    BY <2>2 DEF Init
  <2> QED
    BY <2>1, <2>3, <2>4 DEF TypeOK
<1>4. StartUp /\ OwnCpus /\ Shown
  BY DEF Init, StartUp, OwnCpus, Shown, Idle
<1>5. Untouched
  BY DEF Init, Untouched, Nothing, Clearing, StatusAssumption
<1>6. Clocks
  BY DEF Init, Clocks
<1>7. HintTimeConserved
  <2>1. ASSUME NEW c \in Cpu PROVE HintTime(c) = 0
    <3> DEFINE f == m_hint_time[c]
    <3>1. \A h \in Hint \ {} : f[h] = 0
      BY DEF Init
    <3>2. \A h \in Hint : f[h] \in Int
      BY <3>1
    <3> HIDE DEF f
    <3>3. SumOver(f, Hint) = SumOver(f, {})
      BY <3>1, <3>2, HintsFinite, SumZeros
    <3> QED
      BY <3>3, SumEmpty DEF HintTime, f
  <2>2. m_update_time - first_time = 0
    BY DEF Init
  <2> QED
    BY <2>1, <2>2, HintTimeSums
<1> QED
  BY <1>3, <1>4, <1>5, <1>6, <1>7 DEF StatusInv, BoardInv

\* The steps of the processes keep the board.
LEMMA ApplicationKeepsBoard ==
    ASSUME StatusAssumption, Good, Application
    PROVE  BoardInv'
<1> PICK r \in Rank :
      \/ Write(r) \/ Construct(r) \/ PassBarrier(r)
      \/ \E h \in Region : Enter(r, h)
      \/ ExitNested(r) \/ ExitOutermost(r)
      \/ \E n \in WorkUnits : ThreadInit(r, n)
      \/ \E c \in Cpu : ThreadPost(r, c)
  BY DEF Application
<1>1. CASE Write(r)
  <2>1. PICK c \in Cpu : WritesTo(r, c)
    BY <1>1, WriteStep DEF Good
  <2>2. UNCHANGED Place
    BY <1>1 DEF Write, Place
  <2>3. StartUp' /\ OwnCpus'
    BY <2>1, <2>2, WriteKeepsStartUp
  <2>4. Shown'
    BY <2>1, <2>2, WriteKeepsShown
  <2>5. Untouched'
    BY <2>1, <2>2, WriteKeepsUntouched
  <2> QED
    BY <2>3, <2>4, <2>5 DEF BoardInv
<1>2. CASE Construct(r)
  BY <1>2, ConstructKeepsBoard
<1>3. CASE PassBarrier(r)
  BY <1>3, PassBarrierKeepsBoard
<1>4. ASSUME NEW h \in Region, Enter(r, h) PROVE BoardInv'
  BY <1>4, EnterKeepsBoard
<1>5. CASE ExitNested(r)
  BY <1>5, ExitNestedKeepsBoard
<1>6. CASE ExitOutermost(r)
  BY <1>6, ExitOutermostKeepsBoard
<1>7. ASSUME NEW n \in WorkUnits, ThreadInit(r, n) PROVE BoardInv'
  BY <1>7, ThreadInitKeepsBoard
<1>8. ASSUME NEW c \in Cpu, ThreadPost(r, c) PROVE BoardInv'
  BY <1>8, PostKeepsBoard
<1> QED
  BY <1>1, <1>2, <1>3, <1>4, <1>5, <1>6, <1>7, <1>8

\* The steps of the controller and of the clock.
LEMMA ControllerKeepsCopies ==
    ASSUME StatusAssumption, TypeOK, Clocks, HintTimeConserved,
           BeginUpdate \/ CopyWord \/ EndUpdate \/ Tick
    PROVE  CopyTypes' /\ HintTimeConserved'
<1>0. HintTimeConserved <=> \A c \in Cpu : HintTime(c) = m_update_time - first_time
  BY HintTimeSums
<1>1. ASSUME UNCHANGED <<m_hint_time, m_update_time, first_time>> PROVE HintTimeConserved'
  <2>1. \A c \in Cpu : HintTime(c)' = m_update_time' - first_time'
    BY <1>0, <1>1 DEF HintTime
  <2> QED
    BY <2>1, HintTimesAfter
<1>2. CASE BeginUpdate
  <2>1. UNCHANGED <<m_cache, m_is_first_update, m_update_time, m_hint_last, m_hint_time,
                    first_time, now>>
    BY <1>2 DEF BeginUpdate
  <2>2. curr_time' = now /\ now > m_update_time
    BY <1>2 DEF BeginUpdate
  <2>3. Clocks'
    BY <2>1, <2>2 DEF Clocks
  <2>4. uncopied' \in [Cpu -> Seq(Field)]
    <3>1. Layout \in Seq(Field)
      BY DEF Layout, Field, Range
    <3> QED
      BY <1>2, <3>1 DEF BeginUpdate, AllWords
  <2>5. CopyTypes'
    BY <2>1, <2>3, <2>4 DEF TypeOK, CopyTypes
  <2> QED
    BY <1>1, <2>1, <2>5
<1>3. CASE CopyWord
  <2>1. UNCHANGED <<m_hint_time, m_update_time, first_time>>
    BY <1>3 DEF CopyWord
  <2> QED
    BY <1>1, <1>3, <2>1, CopyKeepsTypes
<1>4. CASE EndUpdate
  BY <1>4, EndUpdateKeeps
<1>5. CASE Tick
  <2>1. UNCHANGED sampler /\ now' = now + 1
    BY <1>5 DEF Tick
  <2>2. CopyTypes'
    BY <2>1 DEF sampler, TypeOK, Clocks, CopyTypes
  <2> QED
    BY <1>1, <2>1, <2>2 DEF sampler
<1> QED
  BY <1>2, <1>3, <1>4, <1>5

\* and every step keeps it.
LEMMA NextKeepsStatus ==
    ASSUME StatusAssumption, StatusInv, [Next]_vars
    PROVE  StatusInv'
<1>1. Good /\ TypeOK /\ Clocks /\ HintTimeConserved
  BY DEF StatusInv, Good
<1>2. (TypeOK /\ Clocks <=> BoardTypes /\ CopyTypes)'
  BY Types, PTL
<1>3. ASSUME UNCHANGED <<m_hint_time, m_update_time, first_time>> PROVE HintTimeConserved'
  <2>1. HintTimeConserved <=> \A c \in Cpu : HintTime(c) = m_update_time - first_time
    BY HintTimeSums
  <2>2. \A c \in Cpu : HintTime(c)' = m_update_time' - first_time'
    BY <1>1, <1>3, <2>1 DEF HintTime
  <2> QED
    BY <2>2, HintTimesAfter
<1>4. CASE Application
  <2>1. UNCHANGED sampler
    BY <1>4 DEF Application, Write, Construct, PassBarrier, Enter, ExitNested, ExitOutermost,
                ThreadInit, ThreadPost, Call
  <2>2. HintTimeConserved'
    BY <1>3, <2>1 DEF sampler
  <2>3. TypeOK' /\ Clocks'
    BY <1>1, <1>4, ApplicationTypes
  <2>4. BoardInv'
    BY <1>1, <1>4, ApplicationKeepsBoard
  <2> QED
    BY <2>2, <2>3, <2>4 DEF StatusInv
<1>5. CASE BeginUpdate \/ CopyWord \/ EndUpdate \/ Tick
  <2>1. UNCHANGED <<m_buffer, process>>
    BY <1>5 DEF BeginUpdate, CopyWord, EndUpdate, Tick
  <2>2. BoardTypes'
    BY <1>1, <2>1 DEF process, TypeOK, BoardTypes
  <2>3. BoardInv'
    BY <1>1, <2>1, OthersKeepBoard
  <2>4. CopyTypes' /\ HintTimeConserved'
    BY <1>1, <1>5, ControllerKeepsCopies
  <2> QED
    BY <1>2, <2>2, <2>3, <2>4 DEF StatusInv
<1>6. CASE UNCHANGED vars
  <2>1. BoardTypes' /\ CopyTypes'
    BY <1>1, <1>6 DEF vars, process, sampler, TypeOK, Clocks, BoardTypes, CopyTypes
  <2>2. BoardInv'
    BY <1>1, <1>6, OthersKeepBoard DEF vars
  <2>3. HintTimeConserved'
    BY <1>3, <1>6 DEF vars, sampler
  <2> QED
    BY <1>2, <2>1, <2>2, <2>3 DEF StatusInv
<1> QED
  BY <1>4, <1>5, <1>6 DEF Next

-----------------------------------------------------------------------------
(* What an update sees of a process at rest.                               *)

\* The history: how long a process is at rest, and the progress at the beginning.
RestTypes == rest \in [Rank -> 0 .. 2] /\ posted_before \in [Cpu -> Nat]

\* The words that are copied already are those of the CPU, its progress is one since
\* the beginning, and the hint of the last update is the one that it still shows.
Copied(c, f) == \A i \in 1 .. Len(uncopied[c]) : uncopied[c][i] # f
CopySeen(c) == \A f \in Field : f # "completed_work" /\ Copied(c, f) => m_cache[c][f] = m_buffer[c][f]
WorkSeen(c) ==
    /\ posted_before[c] <= m_buffer[c].completed_work
    /\ Copied(c, "completed_work") =>
         /\ posted_before[c] <= m_cache[c].completed_work
         /\ m_cache[c].completed_work <= m_buffer[c].completed_work
HintSeen(r, c) ==
    (rest[r] = 2 \/ curr_time = m_update_time) /\ ~m_is_first_update
      => m_hint_last[c] = m_buffer[c].hint
Seen(r, c) ==
    /\ curr_time # m_update_time => CopySeen(c) /\ WorkSeen(c)
    /\ HintSeen(r, c)
RestSeen == \A r \in Rank : rest[r] > 0 => \A c \in CpusOf[r] : Seen(r, c)

RestInv == RestTypes /\ RestSeen

\* While a process is at rest its CPUs change by the progress of threads only: any
\* word that another one writes there was there.
LEMMA RestKeepsBuffer ==
    ASSUME StatusAssumption, Good, RestTypes, Application,
           NEW r \in Rank, rest'[r] > 0, NEW c \in CpusOf[r]
    PROVE  /\ \A f \in Field : f # "completed_work" => m_buffer'[c][f] = m_buffer[c][f]
           /\ m_buffer'[c].completed_work >= m_buffer[c].completed_work
<1>0. c \in Cpu /\ m_buffer[c].completed_work \in Nat
  BY DEF StatusAssumption, Good, TypeOK, Status
<1>1. PICK s \in Rank :
        \/ Write(s) \/ Construct(s) \/ PassBarrier(s)
        \/ \E h \in Region : Enter(s, h)
        \/ ExitNested(s) \/ ExitOutermost(s)
        \/ \E n \in WorkUnits : ThreadInit(s, n)
        \/ \E d \in Cpu : ThreadPost(s, d)
  BY DEF Application
<1>2. CASE Write(s)
  <2>1. s # r
    BY <1>2 DEF Write, RestTypes
  <2>2. PICK d \in Cpu : WritesTo(s, d)
    BY <1>2, WriteStep DEF Good
  <2>3. m_buffer'[c] = m_buffer[c]
    <3>1. CASE d # c
      <4>1. \A e \in Cpu : e # d => m_buffer'[e] = m_buffer[e]
        BY <2>2, WriteFacts DEF Good
      <4> QED
        BY <1>0, <3>1, <4>1
    <3>2. CASE d = c
      <4>1. todo[s][c] # <<>>
        BY <2>2, <3>2 DEF WritesTo
      <4>2. stage[r] # "running"
        BY <1>0, <2>1, <4>1, WritesOwn
      <4>3. stage[s] # "running"
        BY <1>0, <2>1, <4>1 DEF Good, BoardInv, OwnCpus, StatusAssumption
      <4>4. m_buffer[c] = Inactive /\ Clearing(todo[s][c]) /\ todo[s][c] \in Seq(Words)
        BY <1>0, <4>2, <4>3, BoardFacts DEF Good, BoardInv, Untouched
      <4>5. Written(Inactive, Head(todo[s][c]).field, Head(todo[s][c]).value) = Inactive
        BY <4>1, <4>4, WriteClears
      <4> QED
        BY <2>2, <3>2, <4>4, <4>5, WriteFacts DEF Good
    <3> QED
      BY <3>1, <3>2
  <2> QED
    BY <1>0, <2>3
<1>3. ASSUME NEW d \in Cpu, ThreadPost(s, d)
      PROVE  /\ \A f \in Field : f # "completed_work" => m_buffer'[c][f] = m_buffer[c][f]
             /\ m_buffer'[c].completed_work >= m_buffer[c].completed_work
  BY <1>0, <1>3, PostFacts DEF Good
<1>4. CASE m_buffer' = m_buffer
  BY <1>0, <1>4
<1> QED
  BY <1>1, <1>2, <1>3, <1>4 DEF Construct, PassBarrier, Enter, ExitNested, ExitOutermost,
     ThreadInit, Call

\* So what was seen of it still is what its CPUs show.
LEMMA ApplicationKeepsRest ==
    ASSUME StatusAssumption, Good, Clocks, RestInv, Application
    PROVE  RestInv'
<1>1. /\ UNCHANGED sampler
      /\ rest' = rest \/ \E r \in Rank : rest' = [rest EXCEPT ![r] = 0]
  BY DEF Application, Write, Construct, PassBarrier, Enter, ExitNested, ExitOutermost,
         ThreadInit, ThreadPost, Call
<1>2. RestTypes' /\ \A r \in Rank : rest'[r] > 0 => rest'[r] = rest[r]
  BY <1>1 DEF RestInv, RestTypes, sampler
<1>3. ASSUME NEW r \in Rank, rest'[r] > 0, NEW c \in CpusOf[r]
      PROVE  Seen(r, c)'
  <2>1. Seen(r, c) /\ rest'[r] = rest[r]
    BY <1>2, <1>3 DEF RestInv, RestSeen
  <2>2. /\ \A f \in Field : f # "completed_work" => m_buffer'[c][f] = m_buffer[c][f]
        /\ m_buffer'[c].completed_work >= m_buffer[c].completed_work
    BY <1>3, RestKeepsBuffer DEF RestInv
  <2>3. /\ m_cache' = m_cache /\ uncopied' = uncopied /\ posted_before' = posted_before
        /\ curr_time' = curr_time /\ m_update_time' = m_update_time
        /\ m_is_first_update' = m_is_first_update /\ m_hint_last' = m_hint_last
    BY <1>1 DEF sampler
  <2>4. CopySeen(c) => CopySeen(c)'
    BY <2>2, <2>3 DEF CopySeen, Copied
  <2>5. WorkSeen(c) => WorkSeen(c)'
    <3>1. TypeOK'
      BY ApplicationTypes DEF Good
    <3>0. c \in Cpu
      BY DEF StatusAssumption
    <3>2. m_buffer[c].completed_work \in Nat /\ m_cache[c].completed_work \in Nat
      BY <3>0 DEF Good, TypeOK, Status
    <3>3. m_buffer'[c].completed_work \in Nat
      BY <3>0, <3>1 DEF TypeOK, Status
    <3>4. posted_before[c] \in Nat
      BY <3>0 DEF RestInv, RestTypes
    <3> QED
      BY <2>2, <2>3, <3>2, <3>3, <3>4 DEF WorkSeen, Copied
  <2>6. HintSeen(r, c)'
    <3>1. m_buffer'[c]["hint"] = m_buffer[c]["hint"]
      BY <2>2, ShownFields
    <3> QED
      BY <2>1, <2>3, <3>1 DEF Seen, HintSeen
  <2> QED
    BY <2>1, <2>3, <2>4, <2>5, <2>6 DEF Seen
<1> QED
  BY <1>2, <1>3 DEF RestInv, RestSeen

\* A copied word is the one that the CPU shows.
LEMMA CopyKeepsRest ==
    ASSUME StatusAssumption, TypeOK, RestInv, CopyWord
    PROVE  RestInv'
<1>1. PICK d \in Cpu :
        /\ uncopied[d] # <<>> /\ uncopied' = [uncopied EXCEPT ![d] = Tail(@)]
        /\ m_cache' = [m_cache EXCEPT ![d][Head(uncopied[d])] = m_buffer[d][Head(uncopied[d])]]
  BY DEF CopyWord, IsNext
<1> DEFINE f == Head(uncopied[d])
           tail == Tail(uncopied[d])
           v == m_buffer[d][f]
<1>2. uncopied \in [Cpu -> Seq(Field)] /\ m_cache \in [Cpu -> Status] /\ m_buffer[d] \in Status
  BY DEF TypeOK
<1>3. /\ f \in Field /\ Len(uncopied[d]) \in Nat /\ Len(tail) = Len(uncopied[d]) - 1
      /\ f = uncopied[d][1] /\ \A i \in 1 .. Len(tail) : tail[i] = uncopied[d][i + 1]
  <2>1. uncopied[d] \in Seq(Field) /\ uncopied[d] # <<>>
    BY ONLY <1>1, <1>2
  <2>2. /\ f \in Field /\ tail \in Seq(Field) /\ Len(tail) = Len(uncopied[d]) - 1
        /\ \A i \in 1 .. Len(tail) : tail[i] = uncopied[d][i + 1]
    BY ONLY <2>1, HeadTailProperties
  <2>3. f = uncopied[d][1] /\ Len(uncopied[d]) \in Nat
    BY ONLY <2>1
  <2> QED
    BY ONLY <2>2, <2>3
<1>4. v \in Value[f]
  BY <1>2, <1>3, StatusFacts
<1>5. /\ uncopied'[d] = tail /\ m_cache'[d] = Written(m_cache[d], f, v)
      /\ \A c \in Cpu : c # d => uncopied'[c] = uncopied[c] /\ m_cache'[c] = m_cache[c]
  BY <1>1, <1>2 DEF Written
<1>6. \A g \in Field : m_cache'[d][g] = IF g = f THEN m_buffer[d][g] ELSE m_cache[d][g]
  BY <1>2, <1>3, <1>4, <1>5, StatusWritten
<1>7. UNCHANGED <<m_buffer, curr_time, m_is_first_update, m_update_time, m_hint_last,
                  posted_before, rest>>
  BY DEF CopyWord
<1> HIDE DEF f, tail, v
<1>8. ASSUME NEW g \in Field, Copied(d, g)', g # f PROVE Copied(d, g)
  <2>1. ASSUME NEW i \in 1 .. Len(uncopied[d]) PROVE uncopied[d][i] # g
    <3>1. CASE i = 1
      BY <1>3, <1>8, <3>1
    <3>2. CASE i # 1
      <4>1. i - 1 \in 1 .. Len(tail) /\ (i - 1) + 1 = i
        BY <1>3, <3>2
      <4>2. tail[i - 1] # g
        BY <1>5, <1>8, <4>1 DEF Copied
      <4>3. tail[i - 1] = uncopied[d][(i - 1) + 1]
        BY <1>3, <4>1
      <4> QED
        BY <4>1, <4>2, <4>3
    <3> QED
      BY <3>1, <3>2
  <2> QED
    BY <2>1 DEF Copied
<1>9. ASSUME NEW r \in Rank, rest[r] > 0, NEW c \in CpusOf[r]
      PROVE  Seen(r, c)'
  <2>1. Seen(r, c) /\ c \in Cpu
    BY <1>9 DEF RestInv, RestSeen, StatusAssumption
  <2>2. HintSeen(r, c)'
    BY <1>7, <2>1 DEF Seen, HintSeen
  <2>3. CASE c # d
    <3>1. uncopied'[c] = uncopied[c] /\ m_cache'[c] = m_cache[c]
      BY <1>5, <2>1, <2>3
    <3> QED
      BY <1>7, <2>1, <2>2, <3>1 DEF Seen, CopySeen, WorkSeen, Copied
  <2>4. CASE c = d
    <3>1. CopySeen(d) => CopySeen(d)'
      <4> SUFFICES ASSUME CopySeen(d), NEW g \in Field, g # "completed_work", Copied(d, g)'
                   PROVE  m_cache'[d][g] = m_buffer'[d][g]
        BY DEF CopySeen
      <4> QED
        BY <1>6, <1>7, <1>8 DEF CopySeen
    <3>2. WorkSeen(d) => WorkSeen(d)'
      <4> SUFFICES ASSUME WorkSeen(d) PROVE WorkSeen(d)'
        OBVIOUS
      <4>1. /\ posted_before'[d] = posted_before[d] /\ m_buffer'[d] = m_buffer[d]
            /\ m_buffer[d].completed_work \in Int
        BY <1>2, <1>7 DEF Status
      <4>2. Copied(d, "completed_work")' /\ "completed_work" # f => Copied(d, "completed_work")
        BY <1>8, ShownFields
      <4>3. m_cache'[d]["completed_work"] = IF "completed_work" = f
              THEN m_buffer[d]["completed_work"] ELSE m_cache[d]["completed_work"]
        BY <1>6, ShownFields
      <4> QED
        BY <4>1, <4>2, <4>3 DEF WorkSeen
    <3> QED
      BY <1>7, <2>1, <2>2, <2>4, <3>1, <3>2 DEF Seen
  <2> QED
    BY <2>3, <2>4
<1> QED
  BY <1>7, <1>9 DEF RestInv, RestSeen, RestTypes

\* The beginning and the end of an update, and the clock.
LEMMA UpdateKeepsRest ==
    ASSUME StatusAssumption, TypeOK, Clocks, RestInv, BeginUpdate \/ EndUpdate \/ Tick
    PROVE  RestInv'
<1>1. CASE BeginUpdate
  <2>1. /\ curr_time = m_update_time /\ m_update_time' = m_update_time
        /\ curr_time' # m_update_time'
        /\ UNCHANGED <<m_buffer, m_is_first_update, m_hint_last>>
    BY <1>1 DEF BeginUpdate, Clocks
  <2>2. /\ uncopied' = [c \in Cpu |-> Layout]
        /\ rest' = [r \in Rank |-> IF rest[r] = 0 THEN 1 ELSE 2]
        /\ posted_before' = [c \in Cpu |-> m_buffer[c].completed_work]
    BY <1>1 DEF BeginUpdate, AllWords
  <2>3. RestTypes'
    BY <2>2 DEF RestTypes, TypeOK, Status
  <2>4. ASSUME NEW c \in Cpu, NEW f \in Field PROVE ~Copied(c, f)'
    BY <2>2, <2>4 DEF Copied, Field, Range, Layout
  <2>5. ASSUME NEW r \in Rank, NEW c \in CpusOf[r] PROVE Seen(r, c)'
    <3>1. c \in Cpu
      BY DEF StatusAssumption
    <3>2. CopySeen(c)' /\ WorkSeen(c)'
      <4>1. posted_before'[c] = m_buffer'[c].completed_work /\ m_buffer[c].completed_work \in Int
        BY <2>1, <2>2, <3>1 DEF TypeOK, Status
      <4> QED
        BY <2>1, <2>4, <3>1, <4>1, ShownFields DEF CopySeen, WorkSeen
    <3>3. HintSeen(r, c)'
      <4>1. rest'[r] = 2 => rest[r] > 0
        BY <2>2 DEF RestInv, RestTypes
      <4>2. rest[r] > 0 => HintSeen(r, c)
        BY DEF RestInv, RestSeen, Seen
      <4> QED
        BY <2>1, <4>1, <4>2 DEF HintSeen
    <3> QED
      BY <3>2, <3>3 DEF Seen
  <2> QED
    BY <2>3, <2>5 DEF RestInv, RestSeen
<1>2. CASE EndUpdate
  <2>1. /\ uncopied = Nothing /\ curr_time # m_update_time /\ curr_time' = m_update_time'
        /\ m_hint_last' = [c \in Cpu |-> m_cache[c].hint]
        /\ UNCHANGED <<m_buffer, rest, posted_before>>
    BY <1>2 DEF EndUpdate
  <2>2. ASSUME NEW r \in Rank, rest[r] > 0, NEW c \in CpusOf[r] PROVE Seen(r, c)'
    <3>1. c \in Cpu /\ CopySeen(c)
      BY <2>1, <2>2 DEF StatusAssumption, RestInv, RestSeen, Seen
    <3>2. Copied(c, "hint")
      BY <2>1, <3>1 DEF Copied, Nothing
    <3>3. m_cache[c]["hint"] = m_buffer[c]["hint"]
      BY <3>1, <3>2, ShownFields DEF CopySeen
    <3> QED
      BY <2>1, <3>1, <3>3 DEF Seen, HintSeen
  <2> QED
    BY <2>1, <2>2 DEF RestInv, RestTypes, RestSeen
<1>3. CASE Tick
  BY <1>3 DEF Tick, sampler, RestInv, RestTypes, RestSeen, Seen, CopySeen, WorkSeen, HintSeen,
              Copied
<1> QED
  BY <1>1, <1>2, <1>3

\* Nothing is seen at first, and every step keeps what is.
LEMMA InitRest ==
    ASSUME StatusAssumption, Init
    PROVE  RestInv
  BY DEF Init, RestInv, RestTypes, RestSeen

\* Every step keeps it.
LEMMA NextKeepsRest ==
    ASSUME StatusAssumption, StatusInv, RestInv, [Next]_vars
    PROVE  RestInv'
<1>1. Good /\ TypeOK /\ Clocks
  BY DEF StatusInv, Good
<1>2. CASE Application
  BY <1>1, <1>2, ApplicationKeepsRest
<1>3. CASE CopyWord
  BY <1>1, <1>3, CopyKeepsRest
<1>4. CASE BeginUpdate \/ EndUpdate \/ Tick
  BY <1>1, <1>4, UpdateKeepsRest
<1>5. CASE UNCHANGED vars
  <2>1. UNCHANGED <<m_buffer, m_cache, uncopied, curr_time, m_is_first_update, m_update_time,
                    m_hint_last, posted_before, rest>>
    BY <1>5 DEF vars, sampler
  <2>2. ASSUME NEW c \in Cpu PROVE (CopySeen(c) => CopySeen(c)') /\ (WorkSeen(c) => WorkSeen(c)')
    BY ONLY <2>1 DEF CopySeen, WorkSeen, Copied
  <2>3. ASSUME NEW r \in Rank, rest[r] > 0, NEW c \in CpusOf[r] PROVE Seen(r, c)'
    <3>1. c \in Cpu /\ Seen(r, c)
      BY ONLY <2>3, StatusAssumption, RestInv DEF StatusAssumption, RestInv, RestSeen
    <3>2. HintSeen(r, c) => HintSeen(r, c)'
      BY ONLY <2>1 DEF HintSeen
    <3> QED
      BY ONLY <2>1, <2>2, <3>1, <3>2 DEF Seen
  <2>4. RestTypes'
    BY ONLY <2>1, RestInv DEF RestInv, RestTypes
  <2> QED
    BY ONLY <2>1, <2>3, <2>4 DEF RestInv, RestSeen
<1> QED
  BY <1>2, <1>3, <1>4, <1>5 DEF Next

\* The end of an update that process r was at rest for.
LEMMA UpdateSeesRest ==
    ASSUME StatusAssumption, TypeOK, Clocks, RestInv, EndUpdate,
           NEW r \in Rank, rest[r] > 0, NEW c \in CpusOf[r]
    PROVE  /\ \A f \in Field \ {"completed_work"} : m_cache[c][f] = m_buffer[c][f]
           /\ posted_before[c] <= m_cache[c].completed_work
           /\ m_cache[c].completed_work <= m_buffer[c].completed_work
           /\ rest[r] = 2 /\ ~m_is_first_update =>
                m_hint_time'[c][m_buffer[c].hint]
                  = m_hint_time[c][m_buffer[c].hint] + (m_update_time' - m_update_time)
<1>1. /\ uncopied = Nothing /\ curr_time # m_update_time /\ m_update_time' = curr_time
      /\ HintTimes
  BY DEF EndUpdate
<1>2. c \in Cpu /\ CopySeen(c) /\ WorkSeen(c) /\ HintSeen(r, c)
  BY <1>1 DEF StatusAssumption, RestInv, RestSeen, Seen
<1>3. ASSUME NEW f \in Field PROVE Copied(c, f)
  BY <1>1, <1>2 DEF Copied, Nothing
<1>4. \A f \in Field \ {"completed_work"} : m_cache[c][f] = m_buffer[c][f]
  BY <1>2, <1>3 DEF CopySeen
<1>5. /\ posted_before[c] <= m_cache[c].completed_work
      /\ m_cache[c].completed_work <= m_buffer[c].completed_work
  BY <1>2, <1>3, ShownFields DEF WorkSeen
<1>6. ASSUME rest[r] = 2, ~m_is_first_update
      PROVE  m_hint_time'[c][m_buffer[c].hint]
               = m_hint_time[c][m_buffer[c].hint] + (m_update_time' - m_update_time)
  <2>1. m_hint_last[c] = m_buffer[c].hint /\ m_hint_last[c] \in Hint
    BY <1>2, <1>6 DEF HintSeen, TypeOK
  <2>2. /\ m_hint_time' = [d \in Cpu |->
             [m_hint_time[d] EXCEPT ![m_hint_last[d]] = @ + (curr_time - m_update_time)]]
        /\ m_hint_time[c] \in [Hint -> Nat]
    BY <1>1, <1>2, <1>6 DEF HintTimes, TypeOK
  <2> QED
    BY <1>1, <1>2, <2>1, <2>2
<1> QED
  BY <1>4, <1>5, <1>6

-----------------------------------------------------------------------------
(* The theorems.                                                           *)

\* The invariant holds of every state of the board.
THEOREM StatusInvariance == Spec => []StatusInv
<1>1. Init => StatusInv
  BY InitStatus, StatusAssumption
<1>2. StatusInv /\ [Next]_vars => StatusInv'
  BY NextKeepsStatus, StatusAssumption
<1> QED
  BY <1>1, <1>2, PTL DEF Spec

\* Every word in shared memory, or still to be written there, has its type.
THEOREM WordsHaveTypes == Spec => []TypeOK
<1>1. StatusInv => TypeOK
  BY DEF StatusInv
<1> QED
  BY <1>1, StatusInvariance, PTL

\* A process keeps the CPUs it took, however late another runs the constructor
\* of ApplicationStatus: the barrier in init_app_status() is enough.
THEOREM CpusKeepTheirOwner == Spec => []OwnerKept
<1>1. StatusInv => OwnerKept
  <2> SUFFICES ASSUME StatusInv, NEW r \in Rank, stage[r] = "running", Idle(r), NEW c \in CpusOf[r]
               PROVE  m_buffer[c].process = r
    BY DEF OwnerKept
  <2>1. c \in Cpu
    BY StatusAssumption DEF StatusAssumption
  <2>2. todo[r][c] = <<>> /\ ShowsProcess(r, c)
    BY <2>1, IdleFacts DEF StatusInv, BoardInv, Shown
  <2>3. m_buffer[c]["process"] = r
    BY <2>2, ShownNow DEF ShowsProcess
  <2> QED
    BY <2>3
<1> QED
  BY <1>1, StatusInvariance, PTL

\* Between the calls of a process its CPUs show its region and the hint of the
\* innermost one, however enter() and exit() of ProfileImp were nested.
THEOREM CpusShowHints == Spec => []HintMatchesStack
<1>1. StatusInv => HintMatchesStack
  <2> SUFFICES ASSUME StatusInv, NEW r \in Rank, stage[r] = "running", Idle(r), NEW c \in CpusOf[r]
               PROVE  m_buffer[c].hash = m_current_hash[r] /\ m_buffer[c].hint = InnermostHint(r)
    BY DEF HintMatchesStack, InnermostHint
  <2>1. c \in Cpu
    BY StatusAssumption DEF StatusAssumption
  <2>2. todo[r][c] = <<>> /\ ShowsProcess(r, c)
    BY <2>1, IdleFacts DEF StatusInv, BoardInv, Shown
  <2>3. m_buffer[c]["hash"] = m_current_hash[r] /\ m_buffer[c]["hint"] = InnermostHint(r)
    BY <2>2, ShownNow DEF ShowsProcess
  <2> QED
    BY <2>3
<1> QED
  BY <1>1, StatusInvariance, PTL

\* The hint times that ApplicationSampler::update() adds up are the time since
\* its first call, whatever mixture of words the copies hold.
THEOREM HintTimesAddUp == Spec => []HintTimeConserved
<1>1. StatusInv => HintTimeConserved
  BY DEF StatusInv
<1> QED
  BY <1>1, StatusInvariance, PTL
\* An update() sees what a process at rest shows: every word of its CPUs that no
\* thread changes, a progress that its threads had while the copy was taken, and, if
\* it was at rest since the update before began, the hint that the time belongs to.
THEOREM RestingProcessIsSeen == Spec => RestIsSeen
<1> DEFINE Sees(r, c) ==
             /\ \A f \in Field \ {"completed_work"} : m_cache[c][f] = m_buffer[c][f]
             /\ posted_before[c] <= m_cache[c].completed_work
             /\ m_cache[c].completed_work <= m_buffer[c].completed_work
             /\ rest[r] = 2 /\ ~m_is_first_update =>
                  m_hint_time'[c][m_buffer[c].hint]
                    = m_hint_time[c][m_buffer[c].hint] + (m_update_time' - m_update_time)
<1>1. Init => RestInv
  BY InitRest, StatusAssumption
<1>2. StatusInv /\ RestInv /\ [Next]_vars => RestInv'
  BY NextKeepsRest, StatusAssumption
<1>3. ASSUME StatusInv, RestInv, [Next]_vars, m_update_time' # m_update_time,
             NEW r \in {r \in Rank : rest[r] > 0}, NEW c \in CpusOf[r]
      PROVE  Sees(r, c)
  <2>1. EndUpdate
    BY <1>3 DEF Next, Application, Write, Construct, PassBarrier, Enter, ExitNested, ExitOutermost,
                ThreadInit, ThreadPost, Call, BeginUpdate, CopyWord, Tick, vars, sampler
  <2> QED
    BY <1>3, <2>1, StatusAssumption, UpdateSeesRest DEF StatusInv
<1>4. StatusInv /\ RestInv /\ [Next]_vars
        => [m_update_time' # m_update_time =>
              \A r \in {r \in Rank : rest[r] > 0} : \A c \in CpusOf[r] : Sees(r, c)]_vars
  BY <1>3
<1> QED
  BY <1>1, <1>2, <1>4, StatusInvariance, PTL DEF Spec, RestIsSeen
===============================================================================
