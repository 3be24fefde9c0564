------------------------- MODULE PlatformControlProofs -------------------------
(***************************************************************************)
(* Proofs about PlatformControl: a restore_control() that returns undoes   *)
(* all changes since save_control(), for any registers, controls and       *)
(* requests, any accesses that fail and any number of calls.               *)
(***************************************************************************)
EXTENDS PlatformControl, SumTheorems

-----------------------------------------------------------------------------
(* What a sequence of accesses does.                                       *)

Modified(regs, a) == [regs EXCEPT ![a.reg] = (@ \ a.mask) \cup a.val]

\* The function of which Performed() takes the value at all accesses.
Stages(base, s) ==
    CHOOSE g : g = [T \in SUBSET (DOMAIN s) |->
                      IF T = {} THEN base ELSE Modified(g[T \ {Max(T)}], s[Max(T)])]
StageAt(base, s, g, T) ==
    g[T] = IF T = {} THEN base ELSE Modified(g[T \ {Max(T)}], s[Max(T)])

\* It is the fold of the community modules.
LEMMA PerformedIsStage ==
    ASSUME NEW regs, NEW accesses, NEW n
    PROVE  Performed(regs, accesses, n) =
               Stages(regs, SubSeq(accesses, 1, n))[DOMAIN SubSeq(accesses, 1, n)]
  BY DEF Performed, FoldLeft, MapThenFoldSet, Stages, Modified

\* There are stages for the subsets of any size.
LEMMA StagesUpTo ==
    ASSUME NEW m \in Nat, NEW base, NEW s
    PROVE  \A k \in Nat : \E g : \A T \in SUBSET (1 .. m) :
               Cardinality(T) <= k => StageAt(base, s, g, T)
<1> DEFINE Some(k) == \E g : \A T \in SUBSET (1 .. m) :
                         Cardinality(T) <= k => StageAt(base, s, g, T)
           Bad == {k \in Nat : ~Some(k)}
<1> SUFFICES ASSUME Bad # {} PROVE FALSE
  OBVIOUS
<1>1. PICK k \in Bad : \A j \in Bad : k <= j
  BY LeastOf
<1>2. \A T \in SUBSET (1 .. m) :
         /\ IsFiniteSet(T) /\ Cardinality(T) \in Nat
         /\ Cardinality(T) = 0 <=> T = {}
         /\ \A i \in T : Cardinality(T \ {i}) = Cardinality(T) - 1
  <2>1. IsFiniteSet(1 .. m)
    BY FS_Interval
  <2> SUFFICES ASSUME NEW T \in SUBSET (1 .. m)
               PROVE  /\ IsFiniteSet(T) /\ Cardinality(T) \in Nat
                      /\ Cardinality(T) = 0 <=> T = {}
                      /\ \A i \in T : Cardinality(T \ {i}) = Cardinality(T) - 1
    OBVIOUS
  <2>2. IsFiniteSet(T)
    BY ONLY <2>1, T \in SUBSET (1 .. m), FS_Subset
  <2>3. Cardinality(T) \in Nat /\ (Cardinality(T) = 0 <=> T = {})
    BY ONLY <2>2, FS_CardinalityType, FS_EmptySet
  <2>4. \A i \in T : Cardinality(T \ {i}) = Cardinality(T) - 1
    BY ONLY <2>2, FS_RemoveElement
  <2> QED
    BY ONLY <2>2, <2>3, <2>4
<1>3. k # 0
  <2>1. ASSUME NEW T \in SUBSET (1 .. m), Cardinality(T) <= 0
        PROVE  StageAt(base, s, [U \in SUBSET (1 .. m) |-> base], T)
    BY <1>2, <2>1 DEF StageAt
  <2> QED
    BY <1>1, <2>1
<1>4. k - 1 \in Nat /\ k - 1 \notin Bad
  BY <1>1, <1>3
<1>5. PICK g : \A T \in SUBSET (1 .. m) : Cardinality(T) <= k - 1 => StageAt(base, s, g, T)
  BY <1>4
<1> DEFINE h == [T \in SUBSET (1 .. m) |->
                   IF Cardinality(T) <= k - 1 THEN g[T]
                   ELSE Modified(g[T \ {Max(T)}], s[Max(T)])]
<1>6. ASSUME NEW T \in SUBSET (1 .. m), Cardinality(T) <= k PROVE StageAt(base, s, h, T)
  <2>1. CASE T = {}
    <3>1. Cardinality(T) <= k - 1
      BY <1>2, <1>4, <2>1
    <3>2. StageAt(base, s, g, T) /\ h[T] = g[T]
      BY <1>5, <3>1
    <3> QED
      BY <2>1, <3>2 DEF StageAt
  <2>2. CASE T # {}
    <3>1. Max(T) \in T
      BY <2>2, MaxIn
    <3>2. Cardinality(T \ {Max(T)}) <= k - 1 /\ T \ {Max(T)} \in SUBSET (1 .. m)
      <4>1. Cardinality(T) \in Nat /\ Cardinality(T \ {Max(T)}) = Cardinality(T) - 1
        BY ONLY T \in SUBSET (1 .. m), <1>2, <3>1
      <4>2. Cardinality(T) <= k /\ k \in Nat
        BY <1>6
      <4>3. T \ {Max(T)} \in SUBSET (1 .. m)
        OBVIOUS
      <4>4. \A c, d \in Int : d = c - 1 /\ c <= k => d <= k - 1
        BY <4>2
      <4>5. Cardinality(T) \in Int /\ Cardinality(T \ {Max(T)}) \in Int
        BY ONLY <4>1
      <4> QED
        BY ONLY <4>1, <4>2, <4>3, <4>4, <4>5
    <3>3. h[T \ {Max(T)}] = g[T \ {Max(T)}]
      BY <3>2
    <3>4. h[T] = Modified(g[T \ {Max(T)}], s[Max(T)])
      <4>1. CASE Cardinality(T) <= k - 1
        BY <1>5, <2>2, <4>1 DEF StageAt
      <4>2. CASE ~(Cardinality(T) <= k - 1)
        BY <4>2
      <4> QED
        BY <4>1, <4>2
    <3> QED
      BY ONLY <2>2, <3>3, <3>4 DEF StageAt
  <2> QED
    BY <2>1, <2>2
<1>7. Some(k)
  <2> HIDE DEF h
  <2> QED
    BY <1>6
<1> QED
  BY <1>1, <1>7

\* So the choice in the definition succeeds.
LEMMA StagesAt ==
    ASSUME NEW m \in Nat, NEW base, NEW s, DOMAIN s = 1 .. m, NEW T \in SUBSET (1 .. m)
    PROVE  StageAt(base, s, Stages(base, s), T)
<1>1. Cardinality(1 .. m) \in Nat /\ \A U \in SUBSET (1 .. m) : Cardinality(U) <= Cardinality(1 .. m)
  <2>1. IsFiniteSet(1 .. m)
    BY FS_Interval
  <2> QED
    BY ONLY <2>1, FS_Subset, FS_CardinalityType
<1>2. PICK g : \A U \in SUBSET (1 .. m) : StageAt(base, s, g, U)
  BY <1>1, StagesUpTo
<1> DEFINE h == [U \in SUBSET (1 .. m) |-> g[U]]
           Solves(e) == e = [U \in SUBSET (1 .. m) |->
                               IF U = {} THEN base ELSE Modified(e[U \ {Max(U)}], s[Max(U)])]
<1>3. Solves(h)
  <2>1. ASSUME NEW U \in SUBSET (1 .. m)
        PROVE  h[U] = IF U = {} THEN base ELSE Modified(h[U \ {Max(U)}], s[Max(U)])
    BY <1>2 DEF StageAt
  <2> QED
    BY <2>1
<1>4. Solves(Stages(base, s))
  <2> HIDE DEF h
  <2> QED
    BY <1>3 DEF Stages
<1> QED
  BY <1>4 DEF StageAt

Registers == [Register -> SUBSET Bits]
Accesses == [reg : Register, mask : SUBSET Bits, val : SUBSET Bits]

\* One access.
LEMMA ModifiedAt ==
    ASSUME NEW regs \in Registers, NEW a \in Accesses
    PROVE  /\ Modified(regs, a) \in Registers
           /\ \A r \in Register :
                Modified(regs, a)[r] = IF r = a.reg THEN (regs[r] \ a.mask) \cup a.val ELSE regs[r]
<1>1. a.reg \in Register /\ a.mask \subseteq Bits /\ a.val \subseteq Bits
  BY DEF Accesses
<1>2. \A r \in Register : regs[r] \subseteq Bits
  BY DEF Registers
<1>3. \A r \in Register :
         Modified(regs, a)[r] = IF r = a.reg THEN (regs[r] \ a.mask) \cup a.val ELSE regs[r]
  BY ONLY regs \in Registers, <1>1 DEF Modified, Registers
<1>4. Modified(regs, a) \in [Register -> SUBSET Bits]
  <2>1. (regs[a.reg] \ a.mask) \cup a.val \in SUBSET Bits
    BY ONLY <1>1, <1>2
  <2> QED
    BY ONLY regs \in Registers, <1>1, <2>1 DEF Modified, Registers
<1> QED
  BY ONLY <1>3, <1>4 DEF Registers

\* The bits in question of the accesses that are at some places.
Touched(s, T, r) == UNION {s[i].mask : i \in {i \in T : s[i].reg = r}}

\* Registers agree with others in the bits of W that are in U,
Agree(regs, want, W, U) ==
    \A r \in Register : \A b \in W[r] : b \in U[r] => (b \in regs[r] <=> b \in want[r])
\* accesses give bits of W the others' values,
Steer(accesses, n, want, W) ==
    \A i \in 1 .. n : \A b \in W[accesses[i].reg] :
        /\ b \in accesses[i].mask => (b \in accesses[i].val <=> b \in want[accesses[i].reg])
        /\ b \in accesses[i].val => b \in accesses[i].mask
\* and registers agree with others there and where an access was.
AgreeToo(regs, want, W, U, accesses, n) ==
    \A r \in Register : \A b \in W[r] :
        b \in U[r] \/ b \in Touched(accesses, 1 .. n, r) => (b \in regs[r] <=> b \in want[r])

\* What the accesses leave agrees.
LEMMA PerformedAgrees ==
    ASSUME NEW want, NEW W, NEW U, NEW regs \in Registers,
           NEW accesses \in Seq(Accesses), NEW n \in 0 .. Len(accesses),
           Agree(regs, want, W, U), Steer(accesses, n, want, W)
    PROVE  /\ Performed(regs, accesses, n) \in Registers
           /\ AgreeToo(Performed(regs, accesses, n), want, W, U, accesses, n)
<1> DEFINE s == SubSeq(accesses, 1, n)
           st == Stages(regs, s)
           Fine(T) == /\ st[T] \in Registers
                      /\ \A r \in Register : \A b \in W[r] :
                           b \in U[r] \/ b \in Touched(accesses, T, r) =>
                               (b \in st[T][r] <=> b \in want[r])
           G == {T \in SUBSET (1 .. n) : Fine(T)}
<1>1. /\ n \in Nat /\ DOMAIN s = 1 .. n
      /\ \A i \in 1 .. n : s[i] = accesses[i] /\ accesses[i] \in Accesses
  OBVIOUS
<1>2. Performed(regs, accesses, n) = st[1 .. n]
  BY <1>1, PerformedIsStage
<1>3. \A T \in SUBSET (1 .. n) : StageAt(regs, s, st, T)
  BY <1>1, StagesAt
<1> HIDE DEF s, st
<1>4. {} \in G
  <2>1. st[{}] = regs
    BY <1>3 DEF StageAt
  <2>2. \A r \in Register : Touched(accesses, {}, r) = {}
    BY ONLY TRUE DEF Touched
  <2> QED
    BY <2>1, <2>2 DEF Agree
<1>5. ASSUME NEW T \in SUBSET (1 .. n), T # {}, \A x \in T : T \ {x} \in G
      PROVE  T \in G
  <2> DEFINE x == Max(T)
             v == st[T \ {x}]
             a == accesses[x]
  <2>1. x \in T /\ x \in 1 .. n
    BY <1>1, <1>5, MaxIn
  <2>2. Fine(T \ {x})
    BY <1>5, <2>1
  <2>3. st[T] = Modified(v, a)
    BY <1>1, <1>3, <1>5, <2>1 DEF StageAt
  <2>4. a \in Accesses /\ v \in Registers
    BY <1>1, <2>1, <2>2
  <2>5. \A b \in W[a.reg] : /\ b \in a.mask => (b \in a.val <=> b \in want[a.reg])
                            /\ b \in a.val => b \in a.mask
    BY <2>1 DEF Steer
  <2>6. \A r \in Register : \A b \in W[r] :
           b \in U[r] \/ b \in Touched(accesses, T \ {x}, r) => (b \in v[r] <=> b \in want[r])
    BY <2>2
  <2>7. \A r, b : b \in Touched(accesses, T, r) =>
                    b \in Touched(accesses, T \ {x}, r) \/ (a.reg = r /\ b \in a.mask)
    BY ONLY TRUE DEF Touched
  <2> HIDE DEF x, v, a
  <2>8. /\ st[T] \in Registers
        /\ \A r \in Register :
             st[T][r] = IF r = a.reg THEN (v[r] \ a.mask) \cup a.val ELSE v[r]
    <3>1. /\ Modified(v, a) \in Registers
          /\ \A r \in Register :
               Modified(v, a)[r] = IF r = a.reg THEN (v[r] \ a.mask) \cup a.val ELSE v[r]
      BY <2>4, ModifiedAt
    <3> QED
      BY ONLY <2>3, <3>1
  <2>9. ASSUME NEW r \in Register, NEW b \in W[r], b \in U[r] \/ b \in Touched(accesses, T, r)
        PROVE  b \in st[T][r] <=> b \in want[r]
    <3>1. b \in U[r] \/ b \in Touched(accesses, T \ {x}, r) \/ (a.reg = r /\ b \in a.mask)
      BY ONLY <2>7, <2>9
    <3>2. CASE r = a.reg
      <4>1. b \in st[T][r] <=> (b \in v[r] /\ b \notin a.mask) \/ b \in a.val
        BY ONLY <2>8, <2>9, <3>2
      <4>2. /\ b \in a.mask => (b \in a.val <=> b \in want[r])
            /\ b \in a.val => b \in a.mask
        BY ONLY <2>5, <2>9, <3>2
      <4>3. b \notin a.mask => (b \in v[r] <=> b \in want[r])
        BY ONLY <2>6, <2>9, <3>1
      <4> QED
        BY ONLY <4>1, <4>2, <4>3
    <3>3. CASE r # a.reg
      BY ONLY <2>8, <2>6, <2>9, <3>1, <3>3
    <3> QED
      BY ONLY <3>2, <3>3
  <2> QED
    BY ONLY T \in SUBSET (1 .. n), <2>8, <2>9
<1>6. IsFiniteSet(1 .. n)
  <2>1. 1 \in Int /\ n \in Int
    BY ONLY <1>1
  <2> QED
    BY ONLY <2>1, FS_Interval
<1> HIDE DEF G
<1>7. 1 .. n \in G
  <2>1. \A T \in SUBSET (1 .. n) : T # {} /\ (\A x \in T : T \ {x} \in G) => T \in G
    BY ONLY <1>5
  <2>2. \A T \in SUBSET (1 .. n) : T \in G
    BY ONLY <1>4, <1>6, <2>1, SubsetInduction
  <2> QED
    BY ONLY <2>2
<1> QED
  BY ONLY <1>2, <1>7 DEF G, AgreeToo

-----------------------------------------------------------------------------
(* Sequences of accesses, one behind the other.                            *)

\* The elements of two sequences, one behind the other.
LEMMA RangeOfBoth ==
    ASSUME NEW S, NEW s \in Seq(S), NEW t \in Seq(S)
    PROVE  s \o t \in Seq(S) /\ Range(s \o t) = Range(s) \cup Range(t)
<1>1. /\ s \o t \in Seq(S) /\ Len(s) \in Nat /\ Len(t) \in Nat
      /\ DOMAIN s = 1 .. Len(s) /\ DOMAIN t = 1 .. Len(t)
      /\ DOMAIN (s \o t) = 1 .. Len(s) + Len(t)
      /\ \A i \in 1 .. Len(s) + Len(t) :
           (s \o t)[i] = IF i <= Len(s) THEN s[i] ELSE t[i - Len(s)]
  OBVIOUS
<1>2. ASSUME NEW e \in Range(s \o t) PROVE e \in Range(s) \cup Range(t)
  <2>1. PICK i \in 1 .. Len(s) + Len(t) : e = (s \o t)[i]
    BY <1>1 DEF Range
  <2>2. CASE i <= Len(s)
    <3>1. i \in DOMAIN s /\ e = s[i]
      BY ONLY <1>1, <2>1, <2>2
    <3> QED
      BY ONLY <3>1 DEF Range
  <2>3. CASE ~(i <= Len(s))
    <3>1. i - Len(s) \in DOMAIN t /\ e = t[i - Len(s)]
      BY ONLY <1>1, <2>1, <2>3
    <3> QED
      BY ONLY <3>1 DEF Range
  <2> QED
    BY ONLY <2>2, <2>3
<1>3. ASSUME NEW e \in Range(s) PROVE e \in Range(s \o t)
  <2>1. PICK i \in DOMAIN s : e = s[i]
    BY ONLY e \in Range(s) DEF Range
  <2>2. i \in DOMAIN (s \o t) /\ e = (s \o t)[i]
    BY ONLY <1>1, <2>1
  <2> QED
    BY ONLY <2>2 DEF Range
<1>4. ASSUME NEW e \in Range(t) PROVE e \in Range(s \o t)
  <2>1. PICK i \in DOMAIN t : e = t[i]
    BY ONLY e \in Range(t) DEF Range
  <2>2. i + Len(s) \in DOMAIN (s \o t) /\ e = (s \o t)[i + Len(s)]
    BY ONLY <1>1, <2>1
  <2> QED
    BY ONLY <2>2 DEF Range
<1> QED
  BY ONLY <1>1, <1>2, <1>3, <1>4

\* The first sequences of a sequence, as FlattenSeq() defines them.
FlatAt(seqs, g, i) == g[i] = IF i = 1 THEN seqs[i] ELSE g[i - 1] \o seqs[i]
Flats(seqs) ==
    CHOOSE g : g = [i \in 1 .. Len(seqs) |->
                      IF i = 1 THEN seqs[i] ELSE g[i - 1] \o seqs[i]]

\* There are some up to any place.
LEMMA FlatsUpTo ==
    ASSUME NEW seqs
    PROVE  \A k \in Nat : \E g : \A i \in 1 .. k : FlatAt(seqs, g, i)
<1> DEFINE Some(k) == \E g : \A i \in 1 .. k : FlatAt(seqs, g, i)
           Bad == {k \in Nat : ~Some(k)}
<1> SUFFICES ASSUME Bad # {} PROVE FALSE
  OBVIOUS
<1>1. PICK k \in Bad : \A j \in Bad : k <= j
  BY LeastOf
<1>2. k \in Nat /\ k # 0 /\ ~Some(k)
  <2>1. Some(0)
    OBVIOUS
  <2> QED
    BY <1>1, <2>1
<1>3. k - 1 \in Nat /\ k - 1 \notin Bad
  BY <1>1, <1>2
<1>4. PICK g : \A i \in 1 .. k - 1 : FlatAt(seqs, g, i)
  BY <1>3
<1> DEFINE h == [i \in 1 .. k |->
                   IF i <= k - 1 THEN g[i]
                   ELSE IF i = 1 THEN seqs[i] ELSE g[i - 1] \o seqs[i]]
<1>5. ASSUME NEW i \in 1 .. k PROVE FlatAt(seqs, h, i)
  <2>1. i # 1 => h[i - 1] = g[i - 1]
    BY <1>2
  <2>2. h[i] = IF i <= k - 1 THEN g[i] ELSE IF i = 1 THEN seqs[i] ELSE g[i - 1] \o seqs[i]
    OBVIOUS
  <2>3. i <= k - 1 => FlatAt(seqs, g, i)
    BY <1>2, <1>4
  <2> QED
    BY ONLY <2>1, <2>2, <2>3 DEF FlatAt
<1>6. Some(k)
  <2> HIDE DEF h
  <2> QED
    BY <1>5
<1> QED
  BY <1>2, <1>6

\* So the choice succeeds.
LEMMA FlatsAt ==
    ASSUME NEW seqs, Len(seqs) \in Nat, NEW i \in 1 .. Len(seqs)
    PROVE  FlatAt(seqs, Flats(seqs), i)
<1>1. PICK g : \A k \in 1 .. Len(seqs) : FlatAt(seqs, g, k)
  BY FlatsUpTo, Zenon
<1> DEFINE h == [k \in 1 .. Len(seqs) |-> g[k]]
           Solves(e) == e = [k \in 1 .. Len(seqs) |->
                               IF k = 1 THEN seqs[k] ELSE e[k - 1] \o seqs[k]]
<1>2. Solves(h)
  <2>1. ASSUME NEW k \in 1 .. Len(seqs)
        PROVE  h[k] = IF k = 1 THEN seqs[k] ELSE h[k - 1] \o seqs[k]
    <3>1. h[k] = g[k] /\ (k # 1 => h[k - 1] = g[k - 1])
      OBVIOUS
    <3>2. g[k] = IF k = 1 THEN seqs[k] ELSE g[k - 1] \o seqs[k]
      BY <1>1 DEF FlatAt
    <3> QED
      BY ONLY <3>1, <3>2
  <2> QED
    BY <2>1, Zenon
<1>3. Solves(Flats(seqs))
  <2> HIDE DEF h
  <2> QED
    BY <1>2, Zenon DEF Flats
<1> QED
  BY <1>3, Zenon DEF FlatAt

\* The elements of a flattened sequence are those of its sequences.
LEMMA FlattenedElements ==
    ASSUME NEW S, NEW seqs \in Seq(Seq(S))
    PROVE  /\ FlattenSeq(seqs) \in Seq(S)
           /\ \A e : e \in Range(FlattenSeq(seqs)) <=> \E i \in 1 .. Len(seqs) : e \in Range(seqs[i])
<1>1. Len(seqs) \in Nat /\ \A i \in 1 .. Len(seqs) : seqs[i] \in Seq(S)
  OBVIOUS
<1>2. CASE Len(seqs) = 0
  <2>1. FlattenSeq(seqs) = seqs /\ seqs = << >>
    BY <1>2 DEF FlattenSeq
  <2> QED
    BY <1>2, <2>1 DEF Range
<1>3. CASE Len(seqs) # 0
  <2> DEFINE f == Flats(seqs)
             Fine(k) == /\ f[k] \in Seq(S)
                        /\ \A e : e \in Range(f[k]) <=> \E i \in 1 .. k : e \in Range(seqs[i])
             Bad == {k \in 1 .. Len(seqs) : ~Fine(k)}
  <2>1. FlattenSeq(seqs) = f[Len(seqs)]
    BY <1>3 DEF FlattenSeq, Flats
  <2>2. \A k \in 1 .. Len(seqs) : f[k] = IF k = 1 THEN seqs[k] ELSE f[k - 1] \o seqs[k]
    BY <1>1, FlatsAt DEF FlatAt
  <2> HIDE DEF f
  <2>3. Bad = {}
    <3> SUFFICES ASSUME Bad # {} PROVE FALSE
      OBVIOUS
    <3>1. Bad \in SUBSET Nat
      BY <1>1
    <3>2. PICK k \in Bad : \A j \in Bad : k <= j
      BY ONLY <3>1, Bad # {}, LeastOf
    <3>3. k \in 1 .. Len(seqs) /\ ~Fine(k)
      OBVIOUS
    <3>4. CASE k = 1
      <4>1. f[k] = seqs[1] /\ 1 .. k = {1}
        BY <2>2, <3>3, <3>4
      <4> QED
        BY <1>1, <3>3, <3>4, <4>1
    <3>5. CASE k # 1
      <4>1. k - 1 \in 1 .. Len(seqs) /\ k - 1 \notin Bad
        <5>1. k \in Nat /\ k - 1 \in 1 .. Len(seqs) /\ ~(k <= k - 1)
          BY ONLY <1>1, <3>3, <3>5
        <5> HIDE DEF Bad
        <5> QED
          BY ONLY <3>2, <5>1
      <4>2. Fine(k - 1)
        BY <4>1
      <4>3. f[k] = f[k - 1] \o seqs[k] /\ seqs[k] \in Seq(S)
        BY <1>1, <2>2, <3>3, <3>5
      <4>4. f[k] \in Seq(S) /\ Range(f[k]) = Range(f[k - 1]) \cup Range(seqs[k])
        BY ONLY <4>2, <4>3, RangeOfBoth
      <4>5. \A i : i \in 1 .. k <=> i \in 1 .. k - 1 \/ i = k
        BY ONLY <1>1, <3>3
      <4>6. Fine(k)
        BY ONLY <4>2, <4>4, <4>5
      <4> QED
        BY ONLY <3>3, <4>6
    <3> QED
      BY <3>4, <3>5
  <2>4. Fine(Len(seqs))
    <3>1. Len(seqs) \in 1 .. Len(seqs)
      BY ONLY <1>1, <1>3
    <3> HIDE DEF Fine
    <3>2. \A k \in 1 .. Len(seqs) : Fine(k)
      BY ONLY <2>3
    <3> QED
      BY ONLY <3>1, <3>2
  <2> QED
    BY ONLY <2>1, <2>4
<1> QED
  BY <1>2, <1>3

-----------------------------------------------------------------------------
(* The invariant.                                                          *)

\* The bits of a register that restore_control() writes, where it promises anything.
Fields(r) ==
    UNION {MaskOf[c] : c \in {c \in Control : NameOf[c] \in available /\ r \in Range(RegistersOf[c])}}
Own(r) == IF PartlyRefused(r) THEN Bits ELSE Fields(r)

\* save_control() has cleared what the read mask hides.
Clean ==
    m_do_restore =>
      \A c \in Range(SstControls) : NameOf[c] \in available =>
        \A r \in Range(RegistersOf[c]) : before[r] \subseteq Known(r)

\* Once the controls were saved nothing else is changed.
Intact(regs) ==
    /\ regs \in Registers
    /\ m_do_restore => \A r \in Register : regs[r] \ Own(r) = before[r] \ Own(r)

\* The accesses that leave the registers so.
Harmless(a) ==
    \A b \in Bits \ Own(a.reg) : /\ b \in a.mask => (b \in a.val <=> b \in before[a.reg])
                                 /\ b \in a.val => b \in a.mask
HarmlessAccesses == {a \in Accesses : m_do_restore => Harmless(a)}

\* An operation of the batch; where the second ioctl failed it keeps what it read.
MsrOps == [reg : Register, isrdmsr : BOOLEAN, msrdata : SUBSET Bits, mask : SUBSET Bits,
           val : SUBSET Bits]
OpFine(op) ==
    /\ op.mask \subseteq Own(op.reg) /\ op.val \subseteq op.mask
    /\ ~op.isrdmsr => op.msrdata \ Own(op.reg) = before[op.reg] \ Own(op.reg)

\* An interface of SSTIO, of a register with a control that is available.  What it
\* writes are known fields, whatever was read before.
SstIfs == [reg : Register, adjusters : SUBSET Control, mask : SUBSET Bits,
           write_value : SUBSET Bits]
IfFine(if) ==
    /\ if.adjusters \subseteq SstAt(if.reg) /\ if.write_value \subseteq Known(if.reg)
    /\ \E c \in SstAt(if.reg) : NameOf[c] \in available

\* The entries of a batch leave the other bits alone.
MsrKept(ops) == ops \in Seq(MsrOps) /\ \A i \in DOMAIN ops : OpFine(ops[i])
SstKept(ifs) == ifs \in Seq(SstIfs) /\ \A i \in DOMAIN ifs : IfFine(ifs[i])

ValuesOK ==
    /\ hw \in Registers /\ before \in Registers
    /\ available \subseteq Name /\ m_do_restore \in BOOLEAN /\ m_control_pushed \subseteq Control
    /\ MsrKept(m_write_batch_op) /\ SstKept(m_mbox_write) /\ SstKept(m_mmio_write)

\* What save_control() kept; nothing is pushed before it.
Saved ==
    IF m_do_restore
    THEN /\ \A c \in Control : \A i \in DOMAIN RegistersOf[c] :
              saved[c][i] = before[RegistersOf[c][i]] \cap MaskOf[c]
         /\ \A c \in m_control_pushed : NameOf[c] \in available
    ELSE /\ m_control_pushed = {} /\ m_write_batch_op = << >>
         /\ m_mbox_write = << >> /\ m_mmio_write = << >>

SaveInv == ValuesOK /\ Intact(hw) /\ Saved /\ Clean /\ RestoreUndoes

-----------------------------------------------------------------------------
(* What harmless accesses leave.                                           *)

\* Harmless accesses, or the first of them, change nothing that is not owned.
LEMMA StaysIntact ==
    ASSUME NEW regs, Intact(regs), before \in Registers,
           NEW accesses \in Seq(HarmlessAccesses), NEW n \in 0 .. Len(accesses)
    PROVE  Intact(Performed(regs, accesses, n))
<1> DEFINE W == [r \in Register |-> IF m_do_restore THEN Bits \ Own(r) ELSE {}]
<1>1. accesses \in Seq(Accesses) /\ \A i \in 1 .. n : accesses[i] \in HarmlessAccesses
  <2>1. HarmlessAccesses \subseteq Accesses
    BY DEF HarmlessAccesses
  <2> QED
    BY <2>1
<1>2. regs \in Registers
  BY DEF Intact
<1>3. \A a \in Accesses : a.reg \in Register
  BY DEF Accesses
<1>4. Agree(regs, before, W, W)
  BY DEF Intact, Agree
<1>5. ASSUME NEW i \in 1 .. n, NEW b \in W[accesses[i].reg]
      PROVE  /\ b \in accesses[i].mask =>
                  (b \in accesses[i].val <=> b \in before[accesses[i].reg])
             /\ b \in accesses[i].val => b \in accesses[i].mask
  <2>1. accesses[i] \in HarmlessAccesses /\ accesses[i].reg \in Register
    BY <1>1, <1>3 DEF HarmlessAccesses
  <2>2. m_do_restore /\ b \in Bits \ Own(accesses[i].reg)
    BY <2>1
  <2>3. Harmless(accesses[i])
    BY ONLY <2>1, <2>2 DEF HarmlessAccesses
  <2> QED
    BY ONLY <2>2, <2>3 DEF Harmless
<1>6. Steer(accesses, n, before, W)
  BY ONLY <1>5 DEF Steer
<1> HIDE DEF W
<1>7. /\ Performed(regs, accesses, n) \in Registers
      /\ AgreeToo(Performed(regs, accesses, n), before, W, W, accesses, n)
  BY ONLY <1>1, <1>2, <1>4, <1>6, n \in 0 .. Len(accesses), PerformedAgrees
<1>8. ASSUME m_do_restore, NEW r \in Register
      PROVE  Performed(regs, accesses, n)[r] \ Own(r) = before[r] \ Own(r)
  <2>1. \A b \in Bits \ Own(r) : b \in Performed(regs, accesses, n)[r] <=> b \in before[r]
    BY <1>7, <1>8 DEF W, AgreeToo
  <2>2. Performed(regs, accesses, n)[r] \subseteq Bits /\ before[r] \subseteq Bits
    BY ONLY <1>7, before \in Registers, r \in Register DEF Registers
  <2> QED
    BY ONLY <2>1, <2>2
<1> QED
  BY ONLY <1>7, <1>8 DEF Intact

\* The fields of an available control are its own.
LEMMA OwnField ==
    ASSUME NEW c \in Control, NameOf[c] \in available, NEW r \in Range(RegistersOf[c])
    PROVE  MaskOf[c] \subseteq Own(r)
  BY DEF Own, Fields, Bits

\* The known fields of a mailbox or register in memory are some of the bits, and its
\* own if any is available; else nothing is promised.
LEMMA OwnKnown ==
    ASSUME PlatformAssumption, NEW r
    PROVE  /\ Known(r) \subseteq Bits
           /\ \A c \in SstAt(r) : NameOf[c] \in available => Known(r) \subseteq Own(r)
           /\ \A c \in SstAt(r) : c \in Control /\ IsSst(c) /\ r \in Range(RegistersOf[c])
                                 /\ MaskOf[c] \subseteq Known(r)
<1>1. Range(SstControls) \subseteq Control
  <2>1. MsrControls \in Seq(DOMAIN NameOf) /\ SstControls \in Seq(DOMAIN NameOf)
    BY DEF PlatformAssumption
  <2> QED
    BY ONLY <2>1, RangeOfBoth DEF Control, Controls
<1>2. \A c \in SstAt(r) : c \in Control /\ IsSst(c) /\ r \in Range(RegistersOf[c])
                         /\ MaskOf[c] \subseteq Known(r)
  BY ONLY <1>1 DEF SstAt, IsSst, Known
<1>3. Known(r) \subseteq Bits
  BY ONLY <1>2 DEF Known, Bits
<1>4. ASSUME NEW c \in SstAt(r), NameOf[c] \in available, ~PartlyRefused(r)
      PROVE  Known(r) \subseteq Own(r)
  <2>1. c \in Restored
    BY ONLY <1>2, <1>4 DEF Restored
  <2>2. SstAt(r) \cap Restored = SstAt(r)
    <3>1. SstAt(r) \cap Restored \in {{}, SstAt(r)}
      BY ONLY <1>4 DEF PartlyRefused
    <3> QED
      BY ONLY <1>4, <2>1, <3>1
  <2>3. \A d \in SstAt(r) : NameOf[d] \in available
    BY ONLY <2>2 DEF Restored
  <2>4. Known(r) \subseteq Fields(r)
    BY ONLY <1>2, <2>3 DEF Known, Fields
  <2> QED
    BY ONLY <1>4, <2>4 DEF Own
<1>5. PartlyRefused(r) => Known(r) \subseteq Own(r)
  BY ONLY <1>3 DEF Own
<1> QED
  BY ONLY <1>2, <1>3, <1>4, <1>5

\* What a write of an available control replaces besides its own bits was cleared
\* when it was saved.
LEMMA ReplacedClean ==
    ASSUME PlatformAssumption, Clean, m_do_restore, NEW c \in Control, NameOf[c] \in available,
           NEW r \in Range(RegistersOf[c])
    PROVE  /\ MaskOf[c] \subseteq Own(r) /\ MaskOf[c] \subseteq Replaced(c, r)
           /\ Replaced(c, r) \subseteq Bits
           /\ \A b \in Replaced(c, r) : b \in MaskOf[c] \/ b \notin before[r]
<1>1. MaskOf[c] \subseteq Own(r)
  BY OwnField
<1>2. MaskOf[c] \subseteq Bits
  BY DEF Bits
<1>3. CASE IsSst(c)
  <2>1. before[r] \subseteq Known(r)
    BY ONLY <1>3, Clean, m_do_restore, NameOf[c] \in available, r \in Range(RegistersOf[c])
       DEF Clean, IsSst
  <2> QED
    BY ONLY <1>1, <1>2, <1>3, <2>1 DEF Replaced
<1>4. CASE ~IsSst(c)
  BY ONLY <1>1, <1>2, <1>4 DEF Replaced
<1> QED
  BY ONLY <1>3, <1>4

\* A setting, written to the registers of an available control.
LEMMA SetsHarmless ==
    ASSUME PlatformAssumption, Clean, NEW c \in Control, NameOf[c] \in available,
           NEW val \in SUBSET MaskOf[c]
    PROVE  Sets(c, val) \in Seq(HarmlessAccesses)
<1> DEFINE A(i) == Access(RegistersOf[c][i], Replaced(c, RegistersOf[c][i]), val)
<1>1. RegistersOf[c] \in Seq(Register)
  BY DEF PlatformAssumption
<1>2. MaskOf[c] \subseteq Bits
  BY DEF Bits
<1>3. ASSUME NEW i \in DOMAIN RegistersOf[c]
      PROVE  A(i) \in HarmlessAccesses
  <2>1. RegistersOf[c][i] \in Register /\ RegistersOf[c][i] \in Range(RegistersOf[c])
    <3>1. RegistersOf[c][i] \in Range(RegistersOf[c])
      BY DEF Range
    <3> QED
      BY ONLY <1>1, <3>1, i \in DOMAIN RegistersOf[c]
  <2> DEFINE reg == RegistersOf[c][i]
  <2>2. Replaced(c, reg) \subseteq Bits
    BY ONLY <1>2 DEF Replaced
  <2>3. A(i) \in Accesses /\ A(i).reg = reg /\ A(i).mask = Replaced(c, reg) /\ A(i).val = val
    BY ONLY <1>2, <2>1, <2>2, val \in SUBSET MaskOf[c] DEF Access, Accesses
  <2>4. ASSUME m_do_restore PROVE Harmless(A(i))
    <3>1. /\ MaskOf[c] \subseteq Own(reg) /\ MaskOf[c] \subseteq Replaced(c, reg)
          /\ \A b \in Replaced(c, reg) : b \in MaskOf[c] \/ b \notin before[reg]
      BY ONLY PlatformAssumption, Clean, <2>1, <2>4, c \in Control, NameOf[c] \in available,
              ReplacedClean
    <3> HIDE DEF reg, A
    <3> QED
      BY ONLY <2>3, <3>1, val \in SUBSET MaskOf[c] DEF Harmless
  <2> HIDE DEF A
  <2> QED
    BY ONLY <2>3, <2>4 DEF HarmlessAccesses
<1>4. Len(RegistersOf[c]) \in Nat /\ DOMAIN RegistersOf[c] = 1 .. Len(RegistersOf[c])
  BY ONLY <1>1
<1>5. Sets(c, val) = [i \in 1 .. Len(RegistersOf[c]) |-> A(i)]
  BY ONLY <1>4 DEF Sets
<1> HIDE DEF A
<1>6. [i \in 1 .. Len(RegistersOf[c]) |-> A(i)] \in Seq(HarmlessAccesses)
  <2>1. \A i \in 1 .. Len(RegistersOf[c]) : A(i) \in HarmlessAccesses
    BY ONLY <1>3, <1>4
  <2> QED
    BY ONLY <1>4, <2>1
<1> QED
  BY ONLY <1>5, <1>6

\* The enable bit that comes with a power limit.
LEMMA EnablesHarmless ==
    ASSUME PlatformAssumption, Clean, NEW c \in Control, ~Missing(c)
    PROVE  Enables(c) \in Seq(HarmlessAccesses)
<1>1. CASE c \in DOMAIN EnableOf
  <2>1. EnableOf[c] \in Control /\ NameOf[EnableOf[c]] \in available
    BY <1>1 DEF PlatformAssumption, Missing
  <2>2. Sets(EnableOf[c], MaskOf[EnableOf[c]]) \in Seq(HarmlessAccesses)
    BY ONLY PlatformAssumption, Clean, <2>1, SetsHarmless
  <2> QED
    BY ONLY <1>1, <2>2 DEF Enables
<1>2. CASE c \notin DOMAIN EnableOf
  BY <1>2 DEF Enables
<1> QED
  BY <1>1, <1>2

-----------------------------------------------------------------------------
(* What is appended to the batches.                                        *)

\* The list of a finite set has its elements, each once.
LEMMA ListOf ==
    ASSUME NEW S, IsFiniteSet(S)
    PROVE  SetToSeq(S) \in Seq(S) /\ IsInjective(SetToSeq(S))
<1>1. Cardinality(S) \in Nat /\ ExistsBijection(1 .. Cardinality(S), S)
  BY FS_CardinalityType
<1>2. \E f \in [1 .. Cardinality(S) -> S] : IsInjective(f)
  BY ONLY <1>1 DEF ExistsBijection, Bijection, Injection
<1>3. SetToSeq(S) \in [1 .. Cardinality(S) -> S] /\ IsInjective(SetToSeq(S))
  BY ONLY <1>2 DEF SetToSeq
<1> HIDE DEF SetToSeq
<1>4. SetToSeq(S) \in Seq(S)
  BY ONLY <1>1, <1>3
<1> QED
  BY ONLY <1>3, <1>4

\* The elements of a sequence are finitely many.
LEMMA ElementsFinite ==
    ASSUME NEW S, NEW s \in Seq(S)
    PROVE  IsFiniteSet(Range(s)) /\ Range(s) \subseteq S
<1>1. Len(s) \in Nat /\ s \in [1 .. Len(s) -> S] /\ DOMAIN s = 1 .. Len(s)
  OBVIOUS
<1>2. s \in Surjection(1 .. Len(s), Range(s))
  BY ONLY <1>1 DEF Surjection, Range
<1>3. IsFiniteSet(1 .. Len(s))
  BY ONLY <1>1, FS_Interval
<1> QED
  BY ONLY <1>1, <1>2, <1>3, FS_Surjection DEF Range

\* So are the registers that controls need in a batch.
LEMMA AddedFinite ==
    ASSUME PlatformAssumption, NEW entries, NEW new \in SUBSET Control, IsFiniteSet(new)
    PROVE  IsFiniteSet(Added(entries, new)) /\ Added(entries, new) \subseteq Register
<1> DEFINE S == {Range(RegistersOf[c]) : c \in new}
           f == [c \in new |-> Range(RegistersOf[c])]
<1>1. \A c \in new : IsFiniteSet(Range(RegistersOf[c])) /\ Range(RegistersOf[c]) \subseteq Register
  <2>1. \A c \in new : RegistersOf[c] \in Seq(Register)
    BY DEF PlatformAssumption
  <2> QED
    BY ONLY <2>1, ElementsFinite
<1>2. f \in Surjection(new, S)
  BY ONLY TRUE DEF Surjection
<1>3. IsFiniteSet(S)
  <2> HIDE DEF f, S
  <2> QED
    BY ONLY <1>2, IsFiniteSet(new), FS_Surjection
<1>4. \A T \in S : IsFiniteSet(T) /\ T \subseteq Register
  BY ONLY <1>1
<1> HIDE DEF S
<1>5. IsFiniteSet(UNION S) /\ UNION S \subseteq Register
  BY ONLY <1>3, <1>4, FS_UNION
<1>6. Added(entries, new) \subseteq UNION S
  BY ONLY TRUE DEF Added, S
<1> QED
  BY ONLY <1>5, <1>6, FS_Subset

\* New operations change nothing yet.
LEMMA MsrAddKeeps ==
    ASSUME PlatformAssumption, NEW ops, MsrKept(ops),
           NEW new \in SUBSET Control, IsFiniteSet(new)
    PROVE  MsrKept(MsrAdd(ops, new))
<1> DEFINE New == {[reg |-> r, isrdmsr |-> TRUE, msrdata |-> {}, mask |-> {}, val |-> {}] :
                     r \in Added(ops, new)}
           f == [r \in Added(ops, new) |->
                   [reg |-> r, isrdmsr |-> TRUE, msrdata |-> {}, mask |-> {}, val |-> {}]]
           FineOps == {op \in MsrOps : OpFine(op)}
<1>1. IsFiniteSet(Added(ops, new)) /\ Added(ops, new) \subseteq Register
  BY AddedFinite
<1>2. IsFiniteSet(New)
  <2>1. f \in Surjection(Added(ops, new), New)
    BY ONLY TRUE DEF Surjection
  <2> HIDE DEF f, New
  <2> QED
    BY ONLY <1>1, <2>1, FS_Surjection
<1>3. New \subseteq FineOps
  <2>1. ASSUME NEW r \in Added(ops, new)
        PROVE  [reg |-> r, isrdmsr |-> TRUE, msrdata |-> {}, mask |-> {}, val |-> {}] \in FineOps
    <3>1. r \in Register
      BY ONLY <1>1, <2>1
    <3> QED
      BY ONLY <3>1 DEF MsrOps, OpFine
  <2> QED
    BY ONLY <2>1
<1>4. ops \in Seq(FineOps)
  <2>1. Len(ops) \in Nat /\ ops \in [1 .. Len(ops) -> MsrOps] /\ DOMAIN ops = 1 .. Len(ops)
    BY DEF MsrKept
  <2>2. \A i \in 1 .. Len(ops) : ops[i] \in FineOps
    BY ONLY <2>1, MsrKept(ops) DEF MsrKept
  <2> HIDE DEF FineOps
  <2> QED
    BY ONLY <2>1, <2>2
<1>5. MsrAdd(ops, new) = ops \o SetToSeq(New)
  BY ONLY TRUE DEF MsrAdd
<1>6. SetToSeq(New) \in Seq(New)
  <2> HIDE DEF New
  <2> QED
    BY ONLY <1>2, ListOf
<1> HIDE DEF New
<1>7. MsrAdd(ops, new) \in Seq(FineOps)
  <2> HIDE DEF FineOps
  <2>1. SetToSeq(New) \in Seq(FineOps)
    BY ONLY <1>3, <1>6
  <2> QED
    BY ONLY <1>4, <1>5, <2>1
<1>8. /\ MsrAdd(ops, new) \in Seq(MsrOps)
      /\ \A i \in DOMAIN MsrAdd(ops, new) : MsrAdd(ops, new)[i] \in FineOps
  <2>1. FineOps \subseteq MsrOps
    OBVIOUS
  <2> HIDE DEF FineOps
  <2> QED
    BY ONLY <1>7, <2>1
<1> QED
  BY ONLY <1>8 DEF MsrKept

\* An interface without a setting writes nothing that is not known.
LEMMA InterfaceFine ==
    ASSUME PlatformAssumption, NEW r \in Register, NEW adjusters \in SUBSET SstAt(r),
           NEW c \in SstAt(r), NameOf[c] \in available
    PROVE  Interface(r, adjusters) \in {if \in SstIfs : IfFine(if)}
<1> DEFINE if == Interface(r, adjusters)
<1>1. SstAt(r) \subseteq Control
  BY ONLY PlatformAssumption, OwnKnown
<1>2. /\ if \in SstIfs /\ if.reg = r /\ if.adjusters = adjusters
      /\ if.mask = {} /\ if.write_value = {}
  BY ONLY <1>1, r \in Register, adjusters \in SUBSET SstAt(r) DEF Interface, SstIfs
<1> HIDE DEF if
<1>3. IfFine(if)
  BY ONLY <1>2, adjusters \in SUBSET SstAt(r), c \in SstAt(r), NameOf[c] \in available DEF IfFine
<1> QED
  BY ONLY <1>2, <1>3 DEF if

\* Interfaces that are fine, behind those there are.
LEMMA SstBoth ==
    ASSUME NEW ifs, SstKept(ifs), NEW more \in Seq({if \in SstIfs : IfFine(if)})
    PROVE  SstKept(ifs \o more)
<1> DEFINE Box == {if \in SstIfs : IfFine(if)}
<1>1. ifs \in Seq(Box)
  <2>1. Len(ifs) \in Nat /\ ifs \in [1 .. Len(ifs) -> SstIfs] /\ DOMAIN ifs = 1 .. Len(ifs)
    BY DEF SstKept
  <2>2. \A i \in 1 .. Len(ifs) : ifs[i] \in Box
    BY ONLY <2>1, SstKept(ifs) DEF SstKept
  <2> HIDE DEF Box
  <2> QED
    BY ONLY <2>1, <2>2
<1>2. more \in Seq(Box) /\ Box \subseteq SstIfs /\ \A if \in Box : IfFine(if)
  OBVIOUS
<1> HIDE DEF Box
<1>3. ifs \o more \in Seq(Box)
  BY ONLY <1>1, <1>2
<1>4. ifs \o more \in Seq(SstIfs) /\ \A i \in DOMAIN (ifs \o more) : (ifs \o more)[i] \in Box
  BY ONLY <1>2, <1>3
<1> QED
  BY ONLY <1>2, <1>4 DEF SstKept

\* SSTIO::add_mbox_write()
LEMMA MboxAddKeeps ==
    ASSUME PlatformAssumption, NEW ifs, SstKept(ifs),
           NEW new \in SUBSET Range(SstControls), IsFiniteSet(new),
           \A c \in new : NameOf[c] \in available
    PROVE  SstKept(MboxAdd(ifs, new))
<1> DEFINE New == {Interface(r, SstAt(r)) : r \in Added(ifs, new)}
           f == [r \in Added(ifs, new) |-> Interface(r, SstAt(r))]
           Box == {if \in SstIfs : IfFine(if)}
<1>1. IsFiniteSet(Added(ifs, new)) /\ Added(ifs, new) \subseteq Register
  <2>1. new \in SUBSET Control
    <3>1. Range(SstControls) \subseteq Control
      <4>1. MsrControls \in Seq(DOMAIN NameOf) /\ SstControls \in Seq(DOMAIN NameOf)
        BY DEF PlatformAssumption
      <4> QED
        BY ONLY <4>1, RangeOfBoth DEF Control, Controls
    <3> QED
      BY ONLY <3>1, new \in SUBSET Range(SstControls)
  <2> QED
    BY ONLY PlatformAssumption, <2>1, IsFiniteSet(new), AddedFinite
<1>2. IsFiniteSet(New)
  <2>1. f \in Surjection(Added(ifs, new), New)
    BY ONLY TRUE DEF Surjection
  <2> HIDE DEF f, New
  <2> QED
    BY ONLY <1>1, <2>1, FS_Surjection
<1>3. ASSUME NEW r \in Added(ifs, new) PROVE Interface(r, SstAt(r)) \in Box
  <2>1. r \in Register /\ \E c \in new : r \in Range(RegistersOf[c])
    BY ONLY <1>1, <1>3 DEF Added
  <2>2. PICK c \in SstAt(r) : NameOf[c] \in available
    BY ONLY <2>1, new \in SUBSET Range(SstControls), \A c \in new : NameOf[c] \in available
       DEF SstAt
  <2> QED
    BY ONLY PlatformAssumption, <2>1, <2>2, InterfaceFine
<1>4. New \subseteq Box
  <2> HIDE DEF Box
  <2> QED
    BY ONLY <1>3
<1>5. MboxAdd(ifs, new) = ifs \o SetToSeq(New)
  BY ONLY TRUE DEF MboxAdd
<1>6. SetToSeq(New) \in Seq(New)
  <2> HIDE DEF New
  <2> QED
    BY ONLY <1>2, ListOf
<1> HIDE DEF New
<1>7. SetToSeq(New) \in Seq(Box)
  <2> HIDE DEF Box
  <2> QED
    BY ONLY <1>4, <1>6
<1> QED
  BY ONLY <1>5, <1>7, SstKept(ifs), SstBoth

\* SSTIO::add_mmio_write()
LEMMA MmioAddKeeps ==
    ASSUME PlatformAssumption, NEW ifs, SstKept(ifs), NEW new, NEW parts, Len(parts) \in Nat,
           DOMAIN parts = 1 .. Len(parts), \A c \in new : NameOf[c] \in available
    PROVE  SstKept(MmioAdd(ifs, new, parts))
<1> DEFINE Box == {if \in SstIfs : IfFine(if)}
           I(c, k) == Interface(RegistersOf[c][k], {c})
           f == [i \in DOMAIN parts |-> IF parts[i] \in new \cap InMemory
                                        THEN [k \in DOMAIN RegistersOf[parts[i]] |-> I(parts[i], k)]
                                        ELSE <<>>]
<1>1. MmioAdd(ifs, new, parts) = ifs \o FlattenSeq(f)
  BY ONLY TRUE DEF MmioAdd
<1>2. ASSUME NEW c \in new \cap InMemory
      PROVE  [k \in DOMAIN RegistersOf[c] |-> I(c, k)] \in Seq(Box)
  <2>1. c \in Range(SstControls) /\ NameOf[c] \in available
    BY <1>2 DEF PlatformAssumption
  <2>2. RegistersOf[c] \in Seq(Register)
    <3>1. Range(SstControls) \subseteq Control
      <4>1. MsrControls \in Seq(DOMAIN NameOf) /\ SstControls \in Seq(DOMAIN NameOf)
        BY DEF PlatformAssumption
      <4> QED
        BY ONLY <4>1, RangeOfBoth DEF Control, Controls
    <3> QED
      BY <2>1, <3>1 DEF PlatformAssumption
  <2>3. Len(RegistersOf[c]) \in Nat /\ DOMAIN RegistersOf[c] = 1 .. Len(RegistersOf[c])
    BY ONLY <2>2
  <2>4. ASSUME NEW k \in 1 .. Len(RegistersOf[c]) PROVE I(c, k) \in Box
    <3> DEFINE r == RegistersOf[c][k]
    <3>1. r \in Register
      BY ONLY <2>2, <2>3, <2>4
    <3>2. c \in SstAt(r)
      BY ONLY <2>1, <2>3, <2>4 DEF SstAt, Range
    <3> HIDE DEF r
    <3>3. Interface(r, {c}) \in Box
      BY ONLY PlatformAssumption, <2>1, <3>1, <3>2, InterfaceFine
    <3> QED
      BY ONLY <3>3 DEF r
  <2> HIDE DEF I, Box
  <2> QED
    BY ONLY <2>3, <2>4
<1>3. ASSUME NEW i \in 1 .. Len(parts) PROVE f[i] \in Seq(Box)
  <2>1. CASE parts[i] \in new \cap InMemory
    <3> DEFINE c == parts[i]
               F == [k \in DOMAIN RegistersOf[c] |-> I(c, k)]
    <3>1. f[i] = F
      BY ONLY <1>3, <2>1, DOMAIN parts = 1 .. Len(parts)
    <3>2. F \in Seq(Box)
      BY ONLY <1>2, <2>1
    <3> HIDE DEF f, F, Box
    <3> QED
      BY ONLY <3>1, <3>2
  <2>2. CASE parts[i] \notin new \cap InMemory
    <3>1. f[i] = <<>>
      BY ONLY <1>3, <2>2, DOMAIN parts = 1 .. Len(parts)
    <3> HIDE DEF f, Box
    <3> QED
      BY ONLY <3>1
  <2> QED
    BY ONLY <2>1, <2>2
<1>4. f = [i \in 1 .. Len(parts) |-> f[i]]
  BY ONLY DOMAIN parts = 1 .. Len(parts)
<1> HIDE DEF f
<1>5. FlattenSeq(f) \in Seq(Box)
  <2> DEFINE S == Seq(Box)
  <2>1. \A i \in 1 .. Len(parts) : f[i] \in S
    BY ONLY <1>3
  <2> HIDE DEF S
  <2>2. [i \in 1 .. Len(parts) |-> f[i]] \in Seq(S)
    BY ONLY <2>1, Len(parts) \in Nat
  <2>3. f \in Seq(Seq(Box))
    BY ONLY <1>4, <2>2 DEF S
  <2> HIDE DEF Box
  <2> QED
    BY ONLY <2>3, FlattenedElements
<1> DEFINE more == FlattenSeq(f)
<1>6. more \in Seq(Box)
  BY ONLY <1>5
<1> HIDE DEF more
<1>7. SstKept(ifs \o more)
  BY ONLY <1>6, SstKept(ifs), SstBoth
<1> QED
  BY ONLY <1>1, <1>7 DEF more

\* For no control nothing is appended.
LEMMA AddNothing ==
    ASSUME NEW entries, NEW parts, Len(parts) \in Nat, DOMAIN parts = 1 .. Len(parts),
           entries = << >>
    PROVE  /\ MsrAdd(entries, {}) = << >> /\ MboxAdd(entries, {}) = << >>
           /\ MmioAdd(entries, {}, parts) = << >>
<1>1. SetToSeq({}) = << >>
  <2>1. SetToSeq({}) \in Seq({})
    BY ONLY FS_EmptySet, ListOf
  <2> HIDE DEF SetToSeq
  <2> QED
    BY ONLY <2>1
<1>2. Added(entries, {}) = {}
  BY ONLY TRUE DEF Added
<1> DEFINE I(c) == [k \in DOMAIN RegistersOf[c] |-> Interface(RegistersOf[c][k], {c})]
           f == [i \in DOMAIN parts |-> IF parts[i] \in {} \cap InMemory THEN I(parts[i]) ELSE <<>>]
<1>3. MmioAdd(entries, {}, parts) = entries \o FlattenSeq(f)
  BY ONLY TRUE DEF MmioAdd
<1>4. f = [i \in 1 .. Len(parts) |-> << >>]
  <2> HIDE DEF I
  <2> QED
    BY ONLY DOMAIN parts = 1 .. Len(parts)
<1> HIDE DEF f
<1>5. FlattenSeq(f) = << >>
  <2> DEFINE S == Seq({})
  <2>1. << >> \in S
    OBVIOUS
  <2> HIDE DEF S
  <2>2. f \in Seq(S)
    BY ONLY <1>4, <2>1, Len(parts) \in Nat
  <2>3. f \in Seq(Seq({}))
    BY ONLY <2>2 DEF S
  <2>4. FlattenSeq(f) \in Seq({})
    BY ONLY <2>3, FlattenedElements
  <2> DEFINE g == FlattenSeq(f)
  <2>5. g \in Seq({})
    BY ONLY <2>4
  <2> HIDE DEF g
  <2>6. g = << >>
    BY ONLY <2>5
  <2> QED
    BY ONLY <2>6 DEF g
<1>6. << >> \o << >> = << >>
  OBVIOUS
<1>7. MsrAdd(entries, {}) = << >> /\ MboxAdd(entries, {}) = << >>
  <2> HIDE DEF SetToSeq
  <2> QED
    BY ONLY <1>1, <1>2, <1>6, entries = << >> DEF MsrAdd, MboxAdd
<1>8. MmioAdd(entries, {}, parts) = << >>
  BY ONLY <1>3, <1>5, <1>6, entries = << >>
<1> QED
  BY ONLY <1>7, <1>8

-----------------------------------------------------------------------------
(* The calls.                                                              *)

\* What a call has to show that leaves the saved settings alone.
LEMMA KeepsSaved ==
    ASSUME SaveInv, UNCHANGED <<before, available, m_do_restore, saved>>,
           Intact(hw'), MsrKept(m_write_batch_op'), SstKept(m_mbox_write'),
           SstKept(m_mmio_write'),
           \A c \in m_control_pushed' : c \in Control /\ NameOf[c] \in available,
           ~m_do_restore => /\ m_control_pushed' = {} /\ m_write_batch_op' = << >>
                            /\ m_mbox_write' = << >> /\ m_mmio_write' = << >>,
           last' = "restore_control" =>
               \A r \in Register : ~PartlyRefused(r) => hw'[r] = before[r]
    PROVE  SaveInv'
<1>1. Intact(hw)'
  BY DEF Intact, Own, Fields, PartlyRefused, Restored
<1>2. ValuesOK'
  <2>1. (hw \in Registers /\ before \in Registers)'
    BY DEF Intact, SaveInv, ValuesOK
  <2>2. (available \subseteq Name /\ m_do_restore \in BOOLEAN /\ m_control_pushed \subseteq Control)'
    BY DEF SaveInv, ValuesOK
  <2>3. MsrKept(m_write_batch_op)'
    BY DEF MsrKept, OpFine, Own, Fields, PartlyRefused, Restored
  <2>4. (SstKept(m_mbox_write) /\ SstKept(m_mmio_write))'
    BY DEF SstKept, IfFine
  <2> QED
    BY ONLY <2>1, <2>2, <2>3, <2>4 DEF ValuesOK
<1>3. Saved'
  BY DEF SaveInv, Saved
<1>4. Clean'
  BY DEF SaveInv, Clean
<1>5. RestoreUndoes'
  BY DEF RestoreUndoes, PartlyRefused, Restored
<1> QED
  BY ONLY <1>1, <1>2, <1>3, <1>4, <1>5 DEF SaveInv

\* The controls of a request.
LEMMA PartsControls ==
    ASSUME PlatformAssumption, NEW r \in Request
    PROVE  /\ Len(PartsOf[r]) \in Nat /\ Len(PartsOf[r]) # 0
           /\ DOMAIN PartsOf[r] = 1 .. Len(PartsOf[r])
           /\ \A i \in 1 .. Len(PartsOf[r]) :
                PartsOf[r][i] \in Control /\ PartsOf[r][i] \in Range(PartsOf[r])
           /\ Range(PartsOf[r]) \subseteq Control /\ IsFiniteSet(Range(PartsOf[r]))
<1>1. PartsOf[r] \in Seq(Control) /\ PartsOf[r] # << >>
  BY DEF PlatformAssumption
<1>2. /\ Len(PartsOf[r]) \in Nat /\ Len(PartsOf[r]) # 0
      /\ DOMAIN PartsOf[r] = 1 .. Len(PartsOf[r])
  BY ONLY <1>1
<1>3. Range(PartsOf[r]) \subseteq Control /\ IsFiniteSet(Range(PartsOf[r]))
  BY ONLY <1>1, ElementsFinite
<1>4. \A i \in 1 .. Len(PartsOf[r]) : PartsOf[r][i] \in Range(PartsOf[r])
  BY ONLY <1>2 DEF Range
<1> QED
  BY ONLY <1>2, <1>3, <1>4

\* A family of harmless sequences, one behind the other.
LEMMA FlattenedHarmless ==
    ASSUME NEW m \in Nat, NEW f, \A i \in 1 .. m : f[i] \in Seq(HarmlessAccesses)
    PROVE  FlattenSeq([i \in 1 .. m |-> f[i]]) \in Seq(HarmlessAccesses)
<1> DEFINE S == Seq(HarmlessAccesses)
<1>1. \A i \in 1 .. m : f[i] \in S
  OBVIOUS
<1>2. [i \in 1 .. m |-> f[i]] \in Seq(S)
  <2> HIDE DEF S
  <2> QED
    BY ONLY <1>1, m \in Nat
<1> QED
  BY ONLY <1>2, FlattenedElements

\* push_control(): what is set are the enable bits of available controls.
LEMMA PushKeeps ==
    ASSUME PlatformAssumption, SaveInv, NEW r \in Request, PushControl(r)
    PROVE  SaveInv'
<1>1. /\ UNCHANGED <<before, available, m_do_restore, saved>>
      /\ hw \in Registers /\ before \in Registers /\ Intact(hw)
      /\ MsrKept(m_write_batch_op) /\ SstKept(m_mbox_write) /\ SstKept(m_mmio_write)
      /\ m_control_pushed \subseteq Control /\ Saved /\ Clean
  BY DEF PushControl, history, pio, SaveInv, ValuesOK
<1>2. PICK j \in 0 .. Len(PartsOf[r]) :
         LET new == {PartsOf[r][i] : i \in 1..j} \ m_control_pushed
             enabled == FlattenSeq([i \in 1..j |-> IF PartsOf[r][i] \in new
                                                   THEN Enables(PartsOf[r][i]) ELSE <<>>])
             next == PartsOf[r][j + 1]
         IN /\ \A c \in new : ~RefusesPush(c)
            /\ \/ /\ hw' = After(Len(enabled), enabled)
                  /\ last' = IF j = Len(PartsOf[r]) THEN "push" ELSE "threw"
               \/ /\ j < Len(PartsOf[r]) /\ ~RefusesPush(next) /\ last' = "threw"
                  /\ \E n \in 0..Len(Enables(next)) - 1 :
                       hw' = After(Len(enabled) + n, enabled \o Enables(next))
            /\ m_control_pushed' = m_control_pushed \cup new
            /\ m_write_batch_op' = MsrAdd(m_write_batch_op, {c \in new : IsMsr(c)})
            /\ m_mbox_write' = MboxAdd(m_mbox_write, {c \in new : IsMbox(c)})
            /\ m_mmio_write' = MmioAdd(m_mmio_write, new, PartsOf[r])
  BY DEF PushControl
<1> DEFINE new == {PartsOf[r][i] : i \in 1..j} \ m_control_pushed
           f == [i \in 1..j |-> IF PartsOf[r][i] \in new THEN Enables(PartsOf[r][i]) ELSE <<>>]
           enabled == FlattenSeq(f)
           next == PartsOf[r][j + 1]
<1>3. /\ Len(PartsOf[r]) \in Nat /\ j \in Nat /\ 1 .. j \subseteq 1 .. Len(PartsOf[r])
      /\ DOMAIN PartsOf[r] = 1 .. Len(PartsOf[r])
      /\ \A i \in 1 .. Len(PartsOf[r]) :
           PartsOf[r][i] \in Control /\ PartsOf[r][i] \in Range(PartsOf[r])
      /\ Range(PartsOf[r]) \subseteq Control /\ IsFiniteSet(Range(PartsOf[r]))
  <2>1. /\ Len(PartsOf[r]) \in Nat /\ DOMAIN PartsOf[r] = 1 .. Len(PartsOf[r])
        /\ \A i \in 1 .. Len(PartsOf[r]) :
             PartsOf[r][i] \in Control /\ PartsOf[r][i] \in Range(PartsOf[r])
        /\ Range(PartsOf[r]) \subseteq Control /\ IsFiniteSet(Range(PartsOf[r]))
    BY ONLY PlatformAssumption, r \in Request, PartsControls
  <2>2. j \in Nat /\ 1 .. j \subseteq 1 .. Len(PartsOf[r])
    BY ONLY <2>1, j \in 0 .. Len(PartsOf[r])
  <2> QED
    BY ONLY <2>1, <2>2
<1>4. /\ \A c \in new : ~RefusesPush(c)
      /\ m_control_pushed' = m_control_pushed \cup new
      /\ m_write_batch_op' = MsrAdd(m_write_batch_op, {c \in new : IsMsr(c)})
      /\ m_mbox_write' = MboxAdd(m_mbox_write, {c \in new : IsMbox(c)})
      /\ m_mmio_write' = MmioAdd(m_mmio_write, new, PartsOf[r])
      /\ last' # "restore_control"
  BY <1>2
<1>5. \/ hw' = After(Len(enabled), enabled)
      \/ /\ j < Len(PartsOf[r]) /\ ~RefusesPush(next)
         /\ \E n \in 0..Len(Enables(next)) - 1 :
              hw' = After(Len(enabled) + n, enabled \o Enables(next))
  BY <1>2
<1>6. new \subseteq Range(PartsOf[r])
  BY ONLY <1>3
<1>7. IsFiniteSet(new) /\ new \subseteq Control
  BY ONLY <1>3, <1>6, FS_Subset
<1>8. \A c \in new : m_do_restore /\ ~Missing(c)
  BY ONLY <1>4 DEF RefusesPush
<1> HIDE DEF new
<1>9. enabled \in Seq(HarmlessAccesses) /\ Len(enabled) \in Nat
  <2>1. ASSUME NEW i \in 1 .. j
        PROVE  f[i] \in Seq(HarmlessAccesses)
    <3>1. CASE PartsOf[r][i] \in new
      <4>1. PartsOf[r][i] \in Control /\ ~Missing(PartsOf[r][i])
        BY ONLY <1>3, <1>8, <2>1, <3>1
      <4>2. Enables(PartsOf[r][i]) \in Seq(HarmlessAccesses)
        BY ONLY PlatformAssumption, <1>1, <4>1, EnablesHarmless
      <4>3. f[i] = Enables(PartsOf[r][i])
        BY ONLY <2>1, <3>1
      <4> QED
        BY ONLY <4>2, <4>3
    <3>2. CASE PartsOf[r][i] \notin new
      <4>1. f[i] = << >>
        BY ONLY <2>1, <3>2
      <4> HIDE DEF f
      <4>2. << >> \in Seq(HarmlessAccesses)
        OBVIOUS
      <4> QED
        BY ONLY <4>1, <4>2
    <3> QED
      BY ONLY <3>1, <3>2
  <2>2. f = [i \in 1 .. j |-> f[i]]
    BY ONLY TRUE
  <2> HIDE DEF f
  <2>3. FlattenSeq([i \in 1 .. j |-> f[i]]) \in Seq(HarmlessAccesses)
    BY ONLY <1>3, <2>1, FlattenedHarmless
  <2>4. FlattenSeq(f) \in Seq(HarmlessAccesses)
    BY ONLY <2>2, <2>3
  <2> QED
    BY ONLY <2>4
<1> HIDE DEF enabled
<1>10. Intact(hw')
  <2>1. CASE hw' = After(Len(enabled), enabled)
    <3>1. Len(enabled) \in 0 .. Len(enabled)
      BY ONLY <1>9
    <3>2. Intact(Performed(hw, enabled, Len(enabled)))
      BY ONLY <1>1, <1>9, <3>1, StaysIntact
    <3> QED
      BY ONLY <2>1, <3>2 DEF After
  <2>2. CASE /\ j < Len(PartsOf[r]) /\ ~RefusesPush(next)
             /\ \E n \in 0..Len(Enables(next)) - 1 :
                  hw' = After(Len(enabled) + n, enabled \o Enables(next))
    <3>1. PICK n \in 0..Len(Enables(next)) - 1 :
                  hw' = After(Len(enabled) + n, enabled \o Enables(next))
      BY <2>2
    <3>2. next \in Control /\ ~Missing(next)
      <4>1. j + 1 \in 1 .. Len(PartsOf[r])
        BY ONLY <1>3, <2>2
      <4> QED
        BY ONLY <1>3, <2>2, <4>1 DEF RefusesPush
    <3> HIDE DEF next
    <3>3. Enables(next) \in Seq(HarmlessAccesses)
      BY ONLY PlatformAssumption, <1>1, <3>2, EnablesHarmless
    <3> DEFINE t == Enables(next)
    <3> HIDE DEF t
    <3>4. /\ enabled \o t \in Seq(HarmlessAccesses)
          /\ Len(enabled) + n \in 0 .. Len(enabled \o t)
      <4>1. t \in Seq(HarmlessAccesses) /\ n \in 0 .. Len(t) - 1
        BY ONLY <3>1, <3>3 DEF t
      <4>2. enabled \o t \in Seq(HarmlessAccesses) /\ Len(enabled \o t) = Len(enabled) + Len(t)
        BY ONLY <1>9, <4>1
      <4>3. Len(t) \in Nat
        BY ONLY <4>1
      <4> QED
        BY ONLY <1>9, <4>1, <4>2, <4>3
    <3>5. Intact(Performed(hw, enabled \o t, Len(enabled) + n))
      BY ONLY <1>1, <3>4, StaysIntact
    <3> QED
      BY ONLY <3>1, <3>5 DEF After, t
  <2> QED
    BY ONLY <1>5, <2>1, <2>2
<1>11. MsrKept(m_write_batch_op')
  <2>1. {c \in new : IsMsr(c)} \in SUBSET Control /\ IsFiniteSet({c \in new : IsMsr(c)})
    BY ONLY <1>7, FS_Subset
  <2> QED
    BY ONLY PlatformAssumption, <1>1, <1>4, <2>1, MsrAddKeeps
<1>12. \A c \in new : NameOf[c] \in available
  BY ONLY <1>8 DEF Missing
<1>13. SstKept(m_mbox_write') /\ SstKept(m_mmio_write')
  <2>1. /\ {c \in new : IsMbox(c)} \in SUBSET Range(SstControls)
        /\ IsFiniteSet({c \in new : IsMbox(c)})
    BY ONLY <1>7, FS_Subset DEF IsMbox, IsSst
  <2>2. \A c \in {c \in new : IsMbox(c)} : NameOf[c] \in available
    BY ONLY <1>12
  <2>3. SstKept(m_mbox_write')
    BY ONLY PlatformAssumption, <1>1, <1>4, <2>1, <2>2, MboxAddKeeps
  <2>4. SstKept(m_mmio_write')
    BY ONLY PlatformAssumption, <1>1, <1>3, <1>4, <1>12, MmioAddKeeps
  <2> QED
    BY ONLY <2>3, <2>4
<1>14. \A c \in m_control_pushed' : c \in Control /\ NameOf[c] \in available
  <2>1. \A c \in m_control_pushed : c \in Control
    BY ONLY <1>1
  <2>2. \A c \in new : m_do_restore
    BY ONLY <1>8
  <2>3. \A c \in m_control_pushed : NameOf[c] \in available
    BY ONLY <1>1 DEF Saved
  <2> QED
    BY ONLY <1>4, <1>7, <1>12, <2>1, <2>3
<1>15. ASSUME ~m_do_restore
       PROVE  /\ m_control_pushed' = {} /\ m_write_batch_op' = << >>
              /\ m_mbox_write' = << >> /\ m_mmio_write' = << >>
  <2>1. new = {}
    BY ONLY <1>8, <1>15
  <2>2. /\ m_control_pushed = {} /\ m_write_batch_op = << >>
        /\ m_mbox_write = << >> /\ m_mmio_write = << >>
    BY ONLY <1>1, <1>15 DEF Saved
  <2>3. {c \in new : IsMsr(c)} = {} /\ {c \in new : IsMbox(c)} = {}
    BY ONLY <2>1
  <2>4. /\ MsrAdd(m_write_batch_op, {}) = << >> /\ MboxAdd(m_mbox_write, {}) = << >>
        /\ MmioAdd(m_mmio_write, {}, PartsOf[r]) = << >>
    BY ONLY <1>3, <2>2, AddNothing
  <2> QED
    BY ONLY <1>4, <2>1, <2>2, <2>3, <2>4
<1> QED
  BY ONLY SaveInv, <1>1, <1>4, <1>10, <1>11, <1>13, <1>14, <1>15, KeepsSaved

\* A setting is put into an operation of the batch,
LEMMA OpAdjusted ==
    ASSUME PlatformAssumption, NEW r \in Request, NEW on \in BOOLEAN,
           \A c \in Range(PartsOf[r]) : c \in Control /\ NameOf[c] \in available,
           NEW op \in MsrOps, OpFine(op)
    PROVE  LET new == Adjusts(PartAt(r, op.reg), on, op, MsrAdjusted)
           IN  new \in MsrOps /\ OpFine(new)
<1>1. CASE PartAt(r, op.reg) = {}
  <2>1. Adjusts(PartAt(r, op.reg), on, op, MsrAdjusted) = op
    BY ONLY <1>1 DEF Adjusts
  <2> QED
    BY ONLY op \in MsrOps, OpFine(op), <2>1
<1>2. CASE PartAt(r, op.reg) # {}
  <2> DEFINE c == CHOOSE c \in PartAt(r, op.reg) : TRUE
             mask == MaskOf[c]
             val == Setting(c, on)
             new == [op EXCEPT !.val = (@ \ mask) \cup val, !.mask = @ \cup mask]
  <2>1. c \in PartAt(r, op.reg)
    BY ONLY <1>2
  <2>2. Adjusts(PartAt(r, op.reg), on, op, MsrAdjusted) = new
    BY ONLY <1>2 DEF Adjusts, MsrAdjusted
  <2> HIDE DEF c
  <2>3. c \in Control /\ NameOf[c] \in available /\ op.reg \in Range(RegistersOf[c])
    BY ONLY <2>1, \A e \in Range(PartsOf[r]) : e \in Control /\ NameOf[e] \in available DEF PartAt
  <2>4. mask \subseteq Own(op.reg) /\ mask \subseteq Bits /\ val \subseteq mask
    <3>1. mask \subseteq Own(op.reg)
      BY ONLY <2>3, OwnField
    <3>2. mask \subseteq Bits
      BY ONLY <2>3 DEF Bits
    <3> QED
      BY ONLY <3>1, <3>2 DEF Setting
  <2> HIDE DEF mask, val
  <2>5. /\ new \in MsrOps /\ new.reg = op.reg /\ new.isrdmsr = op.isrdmsr
        /\ new.msrdata = op.msrdata /\ new.mask = op.mask \cup mask
        /\ new.val = (op.val \ mask) \cup val
    BY ONLY op \in MsrOps, <2>4 DEF MsrOps
  <2> HIDE DEF new
  <2>6. OpFine(new)
    BY ONLY <2>4, <2>5, OpFine(op) DEF OpFine
  <2> QED
    BY ONLY <2>2, <2>5, <2>6
<1> QED
  BY ONLY <1>1, <1>2

\* and into an interface of SSTIO.
LEMMA IfAdjusted ==
    ASSUME PlatformAssumption, NEW parts, NEW on \in BOOLEAN, NEW if \in SstIfs, IfFine(if)
    PROVE  LET new == Adjusts(parts \cap if.adjusters, on, if, SstAdjusted)
           IN  new \in SstIfs /\ IfFine(new)
<1> DEFINE mine == parts \cap if.adjusters
<1>1. CASE mine = {}
  <2>1. Adjusts(mine, on, if, SstAdjusted) = if
    BY ONLY <1>1 DEF Adjusts
  <2> QED
    BY ONLY if \in SstIfs, IfFine(if), <2>1
<1>2. CASE mine # {}
  <2> DEFINE c == CHOOSE c \in mine : TRUE
             mask == MaskOf[c]
             val == Setting(c, on)
             new == [if EXCEPT !.write_value = (@ \ mask) \cup val, !.mask = @ \cup mask]
  <2>1. c \in mine
    BY ONLY <1>2
  <2> HIDE DEF mine
  <2>2. Adjusts(mine, on, if, SstAdjusted) = new
    BY ONLY <1>2 DEF Adjusts, SstAdjusted
  <2> HIDE DEF c
  <2>3. c \in SstAt(if.reg)
    BY ONLY <2>1, IfFine(if) DEF mine, IfFine
  <2>4. mask \subseteq Known(if.reg) /\ mask \subseteq Bits /\ val \subseteq mask
    <3>1. mask \subseteq Known(if.reg) /\ Known(if.reg) \subseteq Bits
      BY ONLY PlatformAssumption, <2>3, OwnKnown
    <3> QED
      BY ONLY <3>1 DEF Setting
  <2> HIDE DEF mask, val
  <2>5. /\ new \in SstIfs /\ new.reg = if.reg /\ new.adjusters = if.adjusters
        /\ new.write_value = (if.write_value \ mask) \cup val
    BY ONLY if \in SstIfs, <2>4 DEF SstIfs
  <2> HIDE DEF new
  <2>6. IfFine(new)
    BY ONLY <2>4, <2>5, IfFine(if) DEF IfFine
  <2> QED
    BY ONLY <2>2, <2>5, <2>6 DEF mine
<1> QED
  BY ONLY <1>1, <1>2

\* A family of operations is one of the batch, if each is.
LEMMA MsrFamily ==
    ASSUME NEW n \in Nat, NEW f, \A i \in 1 .. n : f[i] \in MsrOps /\ OpFine(f[i])
    PROVE  MsrKept([i \in 1 .. n |-> f[i]])
<1>1. [i \in 1 .. n |-> f[i]] \in Seq(MsrOps)
  OBVIOUS
<1> QED
  BY <1>1 DEF MsrKept

\* A family of interfaces too.
LEMMA SstFamily ==
    ASSUME NEW n \in Nat, NEW f, \A i \in 1 .. n : f[i] \in SstIfs /\ IfFine(f[i])
    PROVE  SstKept([i \in 1 .. n |-> f[i]])
<1>1. [i \in 1 .. n |-> f[i]] \in Seq(SstIfs)
  OBVIOUS
<1> QED
  BY <1>1 DEF SstKept

\* A setting is put into all interfaces of a batch.
LEMMA SstAdjustsKeeps ==
    ASSUME PlatformAssumption, NEW r \in Request, NEW on \in BOOLEAN, NEW ifs, SstKept(ifs)
    PROVE  SstKept(SstAdjusts(r, on, ifs))
<1> DEFINE P == Range(PartsOf[r])
           H(i) == Adjusts(P \cap ifs[i].adjusters, on, ifs[i], SstAdjusted)
           h == [i \in DOMAIN ifs |-> H(i)]
<1>1. /\ Len(ifs) \in Nat /\ DOMAIN ifs = 1 .. Len(ifs)
      /\ \A i \in 1 .. Len(ifs) : ifs[i] \in SstIfs /\ IfFine(ifs[i])
  BY DEF SstKept
<1>2. SstAdjusts(r, on, ifs) = h
  BY ONLY TRUE DEF SstAdjusts
<1>3. ASSUME NEW i \in 1 .. Len(ifs) PROVE h[i] \in SstIfs /\ IfFine(h[i])
  <2>1. ifs[i] \in SstIfs /\ IfFine(ifs[i])
    BY ONLY <1>1, <1>3
  <2>2. H(i) \in SstIfs /\ IfFine(H(i))
    <3> HIDE DEF P
    <3> QED
      BY ONLY PlatformAssumption, on \in BOOLEAN, <2>1, IfAdjusted
  <2>3. h[i] = H(i)
    BY ONLY <1>1, <1>3
  <2> HIDE DEF h, H
  <2> QED
    BY ONLY <2>2, <2>3
<1>4. h = [i \in 1 .. Len(ifs) |-> h[i]]
  BY ONLY <1>1
<1> HIDE DEF h
<1>5. SstKept([i \in 1 .. Len(ifs) |-> h[i]])
  BY ONLY <1>1, <1>3, SstFamily
<1> QED
  BY ONLY <1>2, <1>4, <1>5

\* adjust(): the batches have the settings, and only of what was pushed.
LEMMA AdjustKeeps ==
    ASSUME PlatformAssumption, SaveInv, NEW r \in Request, NEW on \in BOOLEAN, Adjust(r, on)
    PROVE  SaveInv'
<1> DEFINE ops == m_write_batch_op
           F(i) == Adjusts(PartAt(r, ops[i].reg), on, ops[i], MsrAdjusted)
           f == [i \in DOMAIN ops |-> F(i)]
<1>1. /\ UNCHANGED <<before, available, m_do_restore, saved, hw, m_control_pushed>>
      /\ m_write_batch_op' = f /\ m_mbox_write' = SstAdjusts(r, on, m_mbox_write)
      /\ m_mmio_write' = SstAdjusts(r, on, m_mmio_write)
      /\ Unpushed(r) = {} /\ last' = "adjust"
  BY DEF Adjust
<1>2. /\ hw \in Registers /\ before \in Registers /\ Intact(hw)
      /\ MsrKept(ops) /\ SstKept(m_mbox_write) /\ SstKept(m_mmio_write)
      /\ m_control_pushed \subseteq Control /\ Saved
  BY DEF SaveInv, ValuesOK
<1>3. /\ Range(PartsOf[r]) \subseteq m_control_pushed /\ Range(PartsOf[r]) # {}
  <2>1. Len(PartsOf[r]) \in Nat /\ Len(PartsOf[r]) # 0
    BY ONLY PlatformAssumption, r \in Request, PartsControls
  <2>2. 1 \in 1 .. Len(PartsOf[r])
    BY ONLY <2>1
  <2>3. PartsOf[r][1] \in Range(PartsOf[r])
    BY ONLY <2>2, PlatformAssumption, r \in Request, PartsControls
  <2> QED
    BY ONLY <1>1, <2>3 DEF Unpushed
<1>4. m_do_restore /\ \A c \in m_control_pushed : c \in Control /\ NameOf[c] \in available
  BY ONLY <1>2, <1>3 DEF Saved
<1>5. \A c \in Range(PartsOf[r]) : c \in Control /\ NameOf[c] \in available
  BY ONLY <1>3, <1>4
<1>6. MsrKept(m_write_batch_op')
  <2>1. /\ Len(ops) \in Nat /\ DOMAIN ops = 1 .. Len(ops)
        /\ \A i \in 1 .. Len(ops) : ops[i] \in MsrOps /\ OpFine(ops[i])
    BY ONLY <1>2 DEF MsrKept
  <2>2. ASSUME NEW i \in 1 .. Len(ops) PROVE f[i] \in MsrOps /\ OpFine(f[i])
    <3>1. ops[i] \in MsrOps /\ OpFine(ops[i])
      BY ONLY <2>1, <2>2
    <3>2. F(i) \in MsrOps /\ OpFine(F(i))
      BY ONLY PlatformAssumption, r \in Request, on \in BOOLEAN, <1>5, <3>1, OpAdjusted
    <3>3. f[i] = F(i)
      BY ONLY <2>1, <2>2
    <3> HIDE DEF f, F
    <3> QED
      BY ONLY <3>2, <3>3
  <2>3. f = [i \in 1 .. Len(ops) |-> f[i]]
    BY ONLY <2>1
  <2> HIDE DEF f
  <2>4. MsrKept([i \in 1 .. Len(ops) |-> f[i]])
    BY ONLY <2>1, <2>2, MsrFamily
  <2> QED
    BY ONLY <1>1, <2>3, <2>4
<1>7. SstKept(m_mbox_write') /\ SstKept(m_mmio_write')
  <2>1. SstKept(SstAdjusts(r, on, m_mbox_write))
    BY ONLY PlatformAssumption, r \in Request, on \in BOOLEAN, <1>2, SstAdjustsKeeps
  <2>2. SstKept(SstAdjusts(r, on, m_mmio_write))
    BY ONLY PlatformAssumption, r \in Request, on \in BOOLEAN, <1>2, SstAdjustsKeeps
  <2> QED
    BY ONLY <1>1, <2>1, <2>2
<1> HIDE DEF f
<1>8. last' # "restore_control" /\ Intact(hw')
  BY ONLY <1>1, <1>2
<1>9. \A c \in m_control_pushed' : c \in Control /\ NameOf[c] \in available
  BY ONLY <1>1, <1>4
<1> QED
  BY ONLY SaveInv, <1>1, <1>4, <1>6, <1>7, <1>8, <1>9, KeepsSaved

\* A call that makes harmless accesses and changes no batch.
LEMMA PerformsKeeps ==
    ASSUME PlatformAssumption, SaveInv, NEW name, NEW accesses \in Seq(HarmlessAccesses),
           NEW refused \in BOOLEAN, Performs(name, accesses, refused),
           UNCHANGED <<pio, groups, batches, history>>,
           name = "restore_control" =>
               /\ ~refused
               /\ \A r \in Register : ~PartlyRefused(r) =>
                    Performed(hw, accesses, Len(accesses))[r] = before[r]
    PROVE  SaveInv'
<1>1. PICK n \in 0 .. Len(accesses) :
         /\ hw' = After(n, accesses)
         /\ last' = IF n < Len(accesses) \/ refused THEN "threw" ELSE name
  BY DEF Performs
<1>2. /\ UNCHANGED <<before, available, m_do_restore, saved>>
      /\ UNCHANGED <<m_write_batch_op, m_mbox_write, m_mmio_write, m_control_pushed>>
  BY DEF pio, groups, batches, history
<1>3. /\ Intact(hw) /\ before \in Registers /\ MsrKept(m_write_batch_op)
      /\ SstKept(m_mbox_write) /\ SstKept(m_mmio_write)
      /\ m_control_pushed \subseteq Control /\ Saved
  BY DEF SaveInv, ValuesOK
<1>4. Intact(hw')
  <2>1. Intact(Performed(hw, accesses, n))
    BY ONLY <1>3, accesses \in Seq(HarmlessAccesses), n \in 0 .. Len(accesses), StaysIntact
  <2> QED
    BY ONLY <1>1, <2>1 DEF After
<1>5. ASSUME last' = "restore_control"
      PROVE  \A r \in Register : ~PartlyRefused(r) => hw'[r] = before[r]
  <2>1. name = "restore_control" /\ ~(n < Len(accesses))
    BY ONLY <1>1, <1>5
  <2>2. n = Len(accesses)
    <3>1. Len(accesses) \in Nat
      BY ONLY accesses \in Seq(HarmlessAccesses)
    <3> QED
      BY ONLY <2>1, <3>1, n \in 0 .. Len(accesses)
  <2>3. hw' = Performed(hw, accesses, Len(accesses))
    BY ONLY <1>1, <2>2 DEF After
  <2> QED
    BY <2>1, <2>3
<1>6. /\ MsrKept(m_write_batch_op') /\ SstKept(m_mbox_write') /\ SstKept(m_mmio_write')
      /\ m_do_restore => \A c \in m_control_pushed' : NameOf[c] \in available
      /\ ~m_do_restore => /\ m_control_pushed' = {} /\ m_write_batch_op' = << >>
                          /\ m_mbox_write' = << >> /\ m_mmio_write' = << >>
  BY ONLY <1>2, <1>3 DEF Saved
<1>7. \A c \in m_control_pushed' : c \in Control /\ NameOf[c] \in available
  BY ONLY <1>2, <1>3, <1>6, SaveInv DEF SaveInv, ValuesOK
<1> QED
  BY ONLY SaveInv, <1>2, <1>4, <1>5, <1>6, <1>7, KeepsSaved

\* The parts of a request that write_control() comes to are available.
LEMMA FirstMissing ==
    ASSUME PlatformAssumption, NEW r \in Request
    PROVE  \E j \in 0 .. Len(PartsOf[r]) :
             /\ \A i \in 1 .. j : ~Missing(PartsOf[r][i])
             /\ j < Len(PartsOf[r]) => Missing(PartsOf[r][j + 1])
<1> DEFINE Stop == {j \in 0 .. Len(PartsOf[r]) :
                      j < Len(PartsOf[r]) => Missing(PartsOf[r][j + 1])}
<1>1. Len(PartsOf[r]) \in Nat
  BY PartsControls
<1>2. Stop \in SUBSET Nat /\ Len(PartsOf[r]) \in Stop
  BY <1>1
<1>3. PICK j \in Stop : \A k \in Stop : j <= k
  BY ONLY <1>2, LeastOf
<1>4. j \in 0 .. Len(PartsOf[r]) /\ (j < Len(PartsOf[r]) => Missing(PartsOf[r][j + 1]))
  BY <1>3
<1>5. ASSUME NEW i \in 1 .. j, Missing(PartsOf[r][i]) PROVE FALSE
  <2>1. i - 1 \in 0 .. Len(PartsOf[r]) /\ i - 1 + 1 = i /\ ~(j <= i - 1)
    BY ONLY <1>1, <1>4, i \in 1 .. j
  <2>2. i - 1 \in Stop
    BY ONLY <1>5, <2>1
  <2> HIDE DEF Stop
  <2> QED
    BY ONLY <1>3, <2>1, <2>2
<1> QED
  BY ONLY <1>4, <1>5

\* write_control()
LEMMA WriteKeeps ==
    ASSUME PlatformAssumption, SaveInv, NEW r \in Request, NEW on \in BOOLEAN, WriteControl(r, on)
    PROVE  SaveInv'
<1> DEFINE parts == PartsOf[r]
           some == CHOOSE j \in 0..Len(parts) :
                     /\ \A i \in 1..j : ~Missing(parts[i])
                     /\ j < Len(parts) => Missing(parts[j + 1])
           Writes(c) == Enables(c) \o Sets(c, Setting(c, on))
           f == [i \in 1..some |-> Writes(parts[i])]
<1>1. some \in 0 .. Len(parts) /\ \A i \in 1 .. some : ~Missing(parts[i])
  BY FirstMissing
<1>2. /\ Performs("write_control", FlattenSeq(f), some < Len(parts))
      /\ UNCHANGED <<pio, groups, batches, history>>
  BY DEF WriteControl
<1>3. Len(parts) \in Nat /\ (\A i \in 1 .. Len(parts) : parts[i] \in Control) /\ Clean
  BY PartsControls DEF SaveInv
<1> HIDE DEF some
<1>4. some \in Nat /\ 1 .. some \subseteq 1 .. Len(parts)
  BY ONLY <1>1, <1>3
<1>5. ASSUME NEW i \in 1 .. some PROVE f[i] \in Seq(HarmlessAccesses)
  <2>1. parts[i] \in Control /\ ~Missing(parts[i])
    BY ONLY <1>1, <1>3, <1>4, <1>5
  <2> DEFINE c == parts[i]
  <2> HIDE DEF c
  <2>2. c \in Control /\ ~Missing(c)
    BY ONLY <2>1 DEF c
  <2>3. NameOf[c] \in available /\ Setting(c, on) \in SUBSET MaskOf[c]
    BY ONLY <2>2 DEF Missing, Setting
  <2>4. Enables(c) \in Seq(HarmlessAccesses)
    BY ONLY PlatformAssumption, <1>3, <2>2, EnablesHarmless
  <2>5. Sets(c, Setting(c, on)) \in Seq(HarmlessAccesses)
    BY ONLY PlatformAssumption, <1>3, <2>2, <2>3, SetsHarmless
  <2>6. f[i] = Enables(c) \o Sets(c, Setting(c, on))
    BY ONLY <1>5 DEF c
  <2> DEFINE s == Enables(c)
             t == Sets(c, Setting(c, on))
  <2> HIDE DEF f, s, t
  <2>7. s \o t \in Seq(HarmlessAccesses)
    BY ONLY <2>4, <2>5, RangeOfBoth DEF s, t
  <2> QED
    BY ONLY <2>6, <2>7 DEF s, t
<1>6. FlattenSeq(f) \in Seq(HarmlessAccesses)
  <2>1. f = [i \in 1 .. some |-> f[i]]
    BY ONLY TRUE
  <2> HIDE DEF f
  <2>2. FlattenSeq([i \in 1 .. some |-> f[i]]) \in Seq(HarmlessAccesses)
    BY ONLY <1>4, <1>5, FlattenedHarmless
  <2> QED
    BY ONLY <2>1, <2>2
<1>7. (some < Len(parts)) \in BOOLEAN
  OBVIOUS
<1> HIDE DEF f
<1> DEFINE accesses == FlattenSeq(f)
           refused == some < Len(parts)
<1>8. accesses \in Seq(HarmlessAccesses) /\ refused \in BOOLEAN
  BY ONLY <1>6, <1>7
<1>9. Performs("write_control", accesses, refused) /\ UNCHANGED <<pio, groups, batches, history>>
  BY ONLY <1>2
<1> HIDE DEF accesses, refused
<1>10. "write_control" # "restore_control"
  OBVIOUS
<1> QED
  BY ONLY PlatformAssumption, SaveInv, <1>8, <1>9, <1>10, PerformsKeeps

\* What save_control() removes and rewrites.
Rewritten(refused, at) ==
    LET Rewrites(i) == /\ IsSst(Controls[i])
                       /\ NameOf[Controls[i]] \in refused => i < at[NameOf[Controls[i]]]
        rewritten == UNION {Range(RegistersOf[Controls[i]]) :
                              i \in {i \in DOMAIN Controls : Rewrites(i)}}
    IN /\ \A name \in refused : NameOf[Controls[at[name]]] = name
       /\ available' = available \ refused
       /\ hw' = [r \in Register |-> IF r \in rewritten THEN hw[r] \cap Known(r) ELSE hw[r]]

\* save_control(): the registers that it rewrites lose what is not known, and no
\* field of a control.
LEMMA SaveKeeps ==
    ASSUME PlatformAssumption, SaveInv, SaveControl
    PROVE  SaveInv'
<1>1. /\ ~m_do_restore /\ m_do_restore' = TRUE /\ last' = "save_control"
      /\ saved' = [c \in Control |->
           [i \in DOMAIN RegistersOf[c] |-> hw[RegistersOf[c][i]] \cap MaskOf[c]]]
      /\ before' = hw'
      /\ UNCHANGED <<m_control_pushed, m_write_batch_op, m_mbox_write, m_mmio_write>>
  BY DEF SaveControl, batches
<1>2. \E refused \in SUBSET Refusable : \E at \in [refused -> DOMAIN Controls] :
         Rewritten(refused, at)
  BY DEF SaveControl, Rewritten
<1>3. PICK refused, at : Rewritten(refused, at)
  BY ONLY <1>2
<1> DEFINE Rewrites(i) == /\ IsSst(Controls[i])
                          /\ NameOf[Controls[i]] \in refused => i < at[NameOf[Controls[i]]]
           places == {i \in DOMAIN Controls : Rewrites(i)}
           rewritten == UNION {Range(RegistersOf[Controls[i]]) : i \in places}
<1>4. /\ available' = available \ refused
      /\ hw' = [r \in Register |-> IF r \in rewritten THEN hw[r] \cap Known(r) ELSE hw[r]]
  BY ONLY <1>3 DEF Rewritten
<1>5. /\ hw \in Registers /\ available \subseteq Name
      /\ m_control_pushed = {} /\ m_write_batch_op = << >>
      /\ m_mbox_write = << >> /\ m_mmio_write = << >>
  BY ONLY SaveInv, <1>1 DEF SaveInv, ValuesOK, Saved
<1>6. \A c \in Control : \E i \in DOMAIN Controls : c = Controls[i]
  BY ONLY TRUE DEF Control, Range
<1>7. \A r \in rewritten : \E d \in Control : IsSst(d) /\ r \in Range(RegistersOf[d])
  <2>1. \A i \in DOMAIN Controls : Controls[i] \in Control
    BY ONLY TRUE DEF Control, Range
  <2> QED
    BY ONLY <2>1
<1>8. \A c \in Control : IsSst(c) /\ NameOf[c] \in available' =>
         Range(RegistersOf[c]) \subseteq rewritten
  <2> SUFFICES ASSUME NEW c \in Control, IsSst(c), NameOf[c] \in available'
               PROVE  Range(RegistersOf[c]) \subseteq rewritten
    OBVIOUS
  <2>1. PICK i \in DOMAIN Controls : c = Controls[i]
    BY ONLY <1>6, c \in Control
  <2>2. NameOf[c] \notin refused
    BY ONLY <1>4, NameOf[c] \in available'
  <2>3. i \in places
    BY ONLY <2>1, <2>2, IsSst(c)
  <2> QED
    BY ONLY <2>1, <2>3
<1> HIDE DEF rewritten, places, Rewrites
<1>9. hw' \in Registers /\ \A r \in Register :
         hw'[r] = IF r \in rewritten THEN hw[r] \cap Known(r) ELSE hw[r]
  <2>1. \A r \in Register : hw[r] \subseteq Bits
    BY ONLY <1>5 DEF Registers
  <2>2. \A r \in Register :
         hw'[r] = IF r \in rewritten THEN hw[r] \cap Known(r) ELSE hw[r]
    BY ONLY <1>4
  <2>3. \A r \in Register : hw'[r] \subseteq Bits
    BY ONLY <2>1, <2>2
  <2> QED
    BY ONLY <1>4, <2>2, <2>3 DEF Registers
<1>10. \A c \in Control : \A r \in Range(RegistersOf[c]) :
          r \in Register /\ hw[r] \cap MaskOf[c] = hw'[r] \cap MaskOf[c]
  <2> SUFFICES ASSUME NEW c \in Control, NEW r \in Range(RegistersOf[c])
               PROVE  r \in Register /\ hw[r] \cap MaskOf[c] = hw'[r] \cap MaskOf[c]
    OBVIOUS
  <2>1. r \in Register
    <3>1. RegistersOf[c] \in Seq(Register)
      BY DEF PlatformAssumption
    <3> QED
      BY ONLY <3>1, r \in Range(RegistersOf[c]), ElementsFinite
  <2>2. CASE r \in rewritten
    <3>1. PICK d \in Control : IsSst(d) /\ r \in Range(RegistersOf[d])
      BY ONLY <1>7, <2>2
    <3>2. ~IsMsr(d)
      BY <3>1 DEF PlatformAssumption, IsMsr, IsSst
    <3>3. ~IsMsr(c)
      BY <3>1, <3>2 DEF PlatformAssumption
    <3>4. c \in SstAt(r)
      <4>1. Control = Range(MsrControls) \cup Range(SstControls)
        <5>1. MsrControls \in Seq(DOMAIN NameOf) /\ SstControls \in Seq(DOMAIN NameOf)
          BY DEF PlatformAssumption
        <5> QED
          BY ONLY <5>1, RangeOfBoth DEF Control, Controls
      <4> QED
        BY ONLY <3>3, <4>1, c \in Control, r \in Range(RegistersOf[c]) DEF IsMsr, SstAt
    <3>5. MaskOf[c] \subseteq Known(r)
      BY ONLY PlatformAssumption, <3>4, OwnKnown
    <3> QED
      BY ONLY <1>9, <2>1, <2>2, <3>5
  <2>3. CASE r \notin rewritten
    BY ONLY <1>9, <2>1, <2>3
  <2> QED
    BY ONLY <2>1, <2>2, <2>3
<1>11. ValuesOK'
  <2>1. (hw \in Registers /\ before \in Registers)'
    BY ONLY <1>1, <1>9 DEF Registers
  <2>2. (available \subseteq Name /\ m_do_restore \in BOOLEAN /\ m_control_pushed \subseteq Control)'
    BY ONLY <1>1, <1>4, <1>5
  <2>3. MsrKept(m_write_batch_op)' /\ SstKept(m_mbox_write)' /\ SstKept(m_mmio_write)'
    BY ONLY <1>1, <1>5 DEF MsrKept, SstKept
  <2> QED
    BY ONLY <2>1, <2>2, <2>3 DEF ValuesOK
<1>12. Intact(hw)'
  BY ONLY <1>1, <1>9 DEF Intact, Registers
<1>13. Saved'
  <2>1. ASSUME NEW c \in Control, NEW i \in DOMAIN RegistersOf[c]
        PROVE  saved'[c][i] = before'[RegistersOf[c][i]] \cap MaskOf[c]
    <3>1. saved'[c][i] = hw[RegistersOf[c][i]] \cap MaskOf[c]
      BY ONLY <1>1, <2>1
    <3>2. RegistersOf[c][i] \in Range(RegistersOf[c])
      BY ONLY <2>1 DEF Range
    <3> QED
      BY ONLY <1>1, <1>10, <2>1, <3>1, <3>2
  <2> QED
    BY ONLY <1>1, <1>5, <2>1 DEF Saved
<1>14. ASSUME NEW c \in Range(SstControls), NameOf[c] \in available',
              NEW r \in Range(RegistersOf[c])
       PROVE  before'[r] \subseteq Known(r)
  <2>1. c \in Control /\ IsSst(c)
    <3>1. c \in SstAt(r)
      BY ONLY <1>14 DEF SstAt
    <3> QED
      BY ONLY PlatformAssumption, <3>1, OwnKnown
  <2>2. r \in rewritten
    BY ONLY <1>8, <1>14, <2>1
  <2>3. r \in Register
    BY ONLY <1>10, <1>14, <2>1
  <2> QED
    BY ONLY <1>1, <1>9, <2>2, <2>3
<1>15. Clean'
  BY ONLY <1>14 DEF Clean
<1>16. RestoreUndoes'
  BY ONLY <1>1 DEF RestoreUndoes
<1> QED
  BY ONLY <1>11, <1>12, <1>13, <1>15, <1>16 DEF SaveInv

\* The settings kept are those of before, so writing them is harmless.
LEMMA RestoresHarmless ==
    ASSUME PlatformAssumption, Saved, Clean, m_do_restore, before \in Registers,
           NEW c \in Restored
    PROVE  /\ Restores(c) \in Seq(HarmlessAccesses)
           /\ \A a \in Range(Restores(c)) : \A b \in a.mask : b \in a.val <=> b \in before[a.reg]
           /\ \A a \in Range(Restores(c)) : a.val \subseteq a.mask
           /\ \A reg \in Range(RegistersOf[c]) :
                \E a \in Range(Restores(c)) : a.reg = reg /\ MaskOf[c] \subseteq a.mask
<1>1. c \in Control /\ NameOf[c] \in available
  BY DEF Restored
<1>2. RegistersOf[c] \in Seq(Register)
  BY <1>1 DEF PlatformAssumption
<1>3. /\ Len(RegistersOf[c]) \in Nat /\ DOMAIN RegistersOf[c] = 1 .. Len(RegistersOf[c])
      /\ \A i \in DOMAIN RegistersOf[c] : RegistersOf[c][i] \in Register
  BY ONLY <1>2
<1>4. MaskOf[c] \subseteq Bits
  BY <1>1 DEF Bits
<1>5. \A i \in DOMAIN RegistersOf[c] : saved[c][i] = before[RegistersOf[c][i]] \cap MaskOf[c]
  BY <1>1 DEF Saved
<1> DEFINE M(i) == Replaced(c, RegistersOf[c][i])
           A(i) == Access(RegistersOf[c][i], M(i), saved[c][i])
<1>6. Restores(c) = [i \in 1 .. Len(RegistersOf[c]) |-> A(i)]
  BY ONLY <1>3 DEF Restores
<1>7. ASSUME NEW i \in DOMAIN RegistersOf[c]
      PROVE  /\ A(i) \in HarmlessAccesses
             /\ A(i).reg = RegistersOf[c][i] /\ MaskOf[c] \subseteq A(i).mask
             /\ A(i).val \subseteq A(i).mask
             /\ \A b \in A(i).mask : b \in A(i).val <=> b \in before[RegistersOf[c][i]]
  <2> DEFINE reg == RegistersOf[c][i]
  <2>0. reg \in Range(RegistersOf[c])
    BY ONLY <1>7 DEF Range
  <2>1. /\ MaskOf[c] \subseteq M(i) /\ M(i) \subseteq Bits
        /\ \A b \in M(i) : b \in MaskOf[c] \/ b \notin before[reg]
    <3> HIDE DEF reg
    <3>1. /\ MaskOf[c] \subseteq Replaced(c, reg) /\ Replaced(c, reg) \subseteq Bits
          /\ \A b \in Replaced(c, reg) : b \in MaskOf[c] \/ b \notin before[reg]
      BY ONLY PlatformAssumption, Clean, m_do_restore, <1>1, <2>0, ReplacedClean
    <3> QED
      BY ONLY <3>1 DEF reg
  <2>2. A(i).reg = reg /\ A(i).mask = M(i) /\ A(i).val = before[reg] \cap MaskOf[c]
    BY ONLY <1>5, <1>7 DEF Access
  <2> HIDE DEF M
  <2>3. A(i) \in Accesses
    BY ONLY <1>3, <1>4, <1>5, <1>7, <2>1 DEF Access, Accesses
  <2> HIDE DEF A, reg
  <2>4. /\ A(i).val \subseteq A(i).mask /\ MaskOf[c] \subseteq A(i).mask
        /\ \A b \in A(i).mask : b \in A(i).val <=> b \in before[reg]
    BY ONLY <2>1, <2>2
  <2>5. Harmless(A(i))
    BY ONLY <2>2, <2>4 DEF Harmless
  <2> QED
    BY ONLY <2>2, <2>3, <2>4, <2>5 DEF HarmlessAccesses, reg
<1> HIDE DEF A
<1>8. Restores(c) \in Seq(HarmlessAccesses)
  <2>1. \A i \in 1 .. Len(RegistersOf[c]) : A(i) \in HarmlessAccesses
    BY ONLY <1>3, <1>7
  <2> QED
    BY ONLY <1>3, <1>6, <2>1
<1>9. \A a \in Range(Restores(c)) : \E i \in DOMAIN RegistersOf[c] : a = A(i)
  BY ONLY <1>3, <1>6 DEF Range
<1>10. \A i \in DOMAIN RegistersOf[c] : A(i) \in Range(Restores(c))
  BY ONLY <1>3, <1>6 DEF Range
<1>11. \A a \in Range(Restores(c)) : /\ \A b \in a.mask : b \in a.val <=> b \in before[a.reg]
                                     /\ a.val \subseteq a.mask
  <2> SUFFICES ASSUME NEW a \in Range(Restores(c))
               PROVE  /\ \A b \in a.mask : b \in a.val <=> b \in before[a.reg]
                      /\ a.val \subseteq a.mask
    OBVIOUS
  <2>1. PICK i \in DOMAIN RegistersOf[c] : a = A(i)
    BY ONLY <1>9, a \in Range(Restores(c))
  <2> QED
    BY ONLY <1>7, <2>1
<1>12. ASSUME NEW reg \in Range(RegistersOf[c])
       PROVE  \E a \in Range(Restores(c)) : a.reg = reg /\ MaskOf[c] \subseteq a.mask
  <2>1. PICK i \in DOMAIN RegistersOf[c] : reg = RegistersOf[c][i]
    BY ONLY <1>12 DEF Range
  <2> QED
    BY ONLY <1>7, <1>10, <2>1
<1> QED
  BY ONLY <1>8, <1>11, <1>12

\* restore_control(): what it returns from has written every field that may have
\* been changed.
LEMMA RestoreKeeps ==
    ASSUME PlatformAssumption, SaveInv, RestoreControl
    PROVE  SaveInv'
<1> DEFINE f == [i \in DOMAIN Controls |-> IF Controls[i] \in Restored
                                           THEN Restores(Controls[i]) ELSE <<>>]
           accesses == FlattenSeq(f)
<1>1. /\ m_do_restore /\ Performs("restore_control", accesses, FALSE)
      /\ UNCHANGED <<pio, groups, batches, history>>
  BY DEF RestoreControl
<1>2. Saved /\ Clean /\ before \in Registers /\ hw \in Registers /\ Intact(hw)
  BY DEF SaveInv, ValuesOK
<1>3. /\ Len(Controls) \in Nat /\ DOMAIN Controls = 1 .. Len(Controls)
      /\ \A i \in 1 .. Len(Controls) : Controls[i] \in Control
      /\ \A c \in Control : \E i \in 1 .. Len(Controls) : c = Controls[i]
  <2>1. MsrControls \in Seq(DOMAIN NameOf) /\ SstControls \in Seq(DOMAIN NameOf)
    BY DEF PlatformAssumption
  <2>2. Len(Controls) \in Nat /\ DOMAIN Controls = 1 .. Len(Controls)
    BY ONLY <2>1 DEF Controls
  <2> QED
    BY ONLY <2>2 DEF Control, Range
<1>4. \A c \in Restored :
           /\ Restores(c) \in Seq(HarmlessAccesses)
           /\ \A a \in Range(Restores(c)) : \A b \in a.mask : b \in a.val <=> b \in before[a.reg]
           /\ \A a \in Range(Restores(c)) : a.val \subseteq a.mask
           /\ \A reg \in Range(RegistersOf[c]) :
                \E a \in Range(Restores(c)) : a.reg = reg /\ MaskOf[c] \subseteq a.mask
  BY ONLY PlatformAssumption, <1>1, <1>2, RestoresHarmless
<1>5. ASSUME NEW i \in 1 .. Len(Controls)
      PROVE  /\ f[i] \in Seq(HarmlessAccesses)
             /\ Controls[i] \in Restored => f[i] = Restores(Controls[i])
             /\ Controls[i] \notin Restored => Range(f[i]) = {}
  <2>1. CASE Controls[i] \in Restored
    <3>1. f[i] = Restores(Controls[i])
      BY ONLY <1>3, <1>5, <2>1
    <3> HIDE DEF f
    <3> QED
      BY ONLY <1>4, <2>1, <3>1
  <2>2. CASE Controls[i] \notin Restored
    <3>1. f[i] = << >>
      BY ONLY <1>3, <1>5, <2>2
    <3> HIDE DEF f
    <3>2. << >> \in Seq(HarmlessAccesses) /\ Range(<< >>) = {}
      BY DEF Range
    <3> QED
      BY ONLY <2>2, <3>1, <3>2
  <2> QED
    BY ONLY <2>1, <2>2
<1>6. f = [i \in 1 .. Len(Controls) |-> f[i]]
  BY ONLY <1>3
<1> HIDE DEF f
<1>7. /\ accesses \in Seq(HarmlessAccesses)
      /\ \A e : e \in Range(accesses) <=> \E i \in 1 .. Len(f) : e \in Range(f[i])
      /\ Len(f) = Len(Controls)
  <2> DEFINE S == Seq(HarmlessAccesses)
  <2>1. \A i \in 1 .. Len(Controls) : f[i] \in S
    BY ONLY <1>5
  <2> HIDE DEF S
  <2>2. [i \in 1 .. Len(Controls) |-> f[i]] \in Seq(S)
    BY ONLY <1>3, <2>1
  <2>3. f \in Seq(S)
    BY ONLY <1>6, <2>2
  <2>4. Len(f) = Len(Controls)
    BY ONLY <1>3, <1>6, <2>3
  <2>5. f \in Seq(Seq(HarmlessAccesses))
    BY ONLY <2>3 DEF S
  <2> QED
    BY ONLY <2>4, <2>5, FlattenedElements
<1> HIDE DEF accesses
<1>8. \A e : e \in Range(accesses) <=> \E c \in Restored : e \in Range(Restores(c))
  <2>1. ASSUME NEW e \in Range(accesses) PROVE \E c \in Restored : e \in Range(Restores(c))
    <3>1. PICK i \in 1 .. Len(Controls) : e \in Range(f[i])
      BY ONLY <1>7, <2>1
    <3> QED
      BY ONLY <1>5, <3>1
  <2>2. ASSUME NEW c \in Restored, NEW e \in Range(Restores(c)) PROVE e \in Range(accesses)
    <3>1. PICK i \in 1 .. Len(Controls) : c = Controls[i]
      BY ONLY <1>3, <2>2 DEF Restored
    <3>2. f[i] = Restores(c)
      BY ONLY <1>5, <2>2, <3>1
    <3> QED
      BY ONLY <1>7, <2>2, <3>1, <3>2
  <2> QED
    BY ONLY <2>1, <2>2
<1>9. /\ Len(accesses) \in Nat
      /\ \A i \in 1 .. Len(accesses) : accesses[i] \in Range(accesses)
      /\ \A e \in Range(accesses) : \E i \in 1 .. Len(accesses) : e = accesses[i]
      /\ accesses \in Seq(Accesses)
  <2>1. DOMAIN accesses = 1 .. Len(accesses) /\ Len(accesses) \in Nat
    BY ONLY <1>7
  <2>2. HarmlessAccesses \subseteq Accesses
    BY DEF HarmlessAccesses
  <2>3. accesses \in Seq(Accesses)
    BY ONLY <1>7, <2>2
  <2> QED
    BY ONLY <2>1, <2>3 DEF Range
<1>10. \A a \in Range(accesses) : \A b : /\ b \in a.mask => (b \in a.val <=> b \in before[a.reg])
                                         /\ b \in a.val => b \in a.mask
  BY ONLY <1>4, <1>8
<1> DEFINE W == [r \in Register |-> Bits]
           U == [r \in Register |-> Bits \ Own(r)]
           last_regs == Performed(hw, accesses, Len(accesses))
<1>11. last_regs \in Registers /\ AgreeToo(last_regs, before, W, U, accesses, Len(accesses))
  <2>1. Agree(hw, before, W, U)
    BY ONLY <1>1, <1>2 DEF Intact, Agree
  <2>2. Steer(accesses, Len(accesses), before, W)
    BY ONLY <1>9, <1>10 DEF Steer
  <2>3. Len(accesses) \in 0 .. Len(accesses)
    BY ONLY <1>9
  <2> HIDE DEF W, U
  <2> QED
    BY ONLY <1>2, <1>9, <2>1, <2>2, <2>3, PerformedAgrees
<1>12. ASSUME NEW r \in Register, ~PartlyRefused(r), NEW b \in Own(r)
       PROVE  b \in Touched(accesses, 1 .. Len(accesses), r)
  <2>1. PICK c \in Restored : r \in Range(RegistersOf[c]) /\ b \in MaskOf[c]
    BY ONLY <1>12 DEF Own, Fields, Restored
  <2>2. PICK a \in Range(Restores(c)) : a.reg = r /\ MaskOf[c] \subseteq a.mask
    <3>1. \A reg \in Range(RegistersOf[c]) :
            \E a \in Range(Restores(c)) : a.reg = reg /\ MaskOf[c] \subseteq a.mask
      BY ONLY <1>4, c \in Restored, Zenon
    <3> QED
      BY ONLY <2>1, <3>1, Zenon
  <2>3. PICK i \in 1 .. Len(accesses) : a = accesses[i]
    BY ONLY <1>8, <1>9, <2>2
  <2>4. b \in accesses[i].mask /\ accesses[i].reg = r
    BY ONLY <2>1, <2>2, <2>3
  <2> QED
    BY ONLY <2>3, <2>4 DEF Touched
<1>13. \A r \in Register : ~PartlyRefused(r) =>
          Performed(hw, accesses, Len(accesses))[r] = before[r]
  <2> HIDE DEF last_regs
  <2>1. ASSUME NEW r \in Register, ~PartlyRefused(r) PROVE last_regs[r] = before[r]
    <3>1. last_regs[r] \subseteq Bits /\ before[r] \subseteq Bits
      BY ONLY <1>2, <1>11, <2>1 DEF Registers
    <3>2. \A b \in Bits : b \in last_regs[r] <=> b \in before[r]
      BY ONLY <1>11, <1>12, <2>1 DEF AgreeToo
    <3> QED
      BY ONLY <3>1, <3>2
  <2> QED
    BY ONLY <2>1 DEF last_regs
<1>14. FALSE \in BOOLEAN
  OBVIOUS
<1> QED
  BY ONLY PlatformAssumption, SaveInv, <1>1, <1>7, <1>13, <1>14, PerformsKeeps

-----------------------------------------------------------------------------
(* write_batch().                                                          *)

\* A register is written as a whole, and the bits of nobody as they were.
LEMMA WholeHarmless ==
    ASSUME NEW r \in Register, NEW val \in SUBSET Bits, val \ Own(r) = before[r] \ Own(r)
    PROVE  Whole(r, val) \in HarmlessAccesses
<1>1. Whole(r, val) = [reg |-> r, mask |-> Bits, val |-> val]
  BY DEF Whole, Access
<1> DEFINE a == [reg |-> r, mask |-> Bits, val |-> val]
<1>2. a.reg = r /\ a.mask = Bits /\ a.val = val /\ a \in Accesses
  BY DEF Accesses
<1> HIDE DEF a
<1>3. Harmless(a)
  BY ONLY <1>2, val \in SUBSET Bits, val \ Own(r) = before[r] \ Own(r) DEF Harmless
<1> QED
  BY ONLY <1>1, <1>2, <1>3 DEF HarmlessAccesses, a

\* One ioctl().
LEMMA IoctlIntact ==
    ASSUME before \in Registers, NEW regs, Intact(regs), NEW ops, MsrKept(ops),
           NEW n \in 0 .. Len(ops)
    PROVE  Intact(Ioctl(regs, ops, n))
<1> DEFINE f == [i \in DOMAIN ops |-> IF ops[i].isrdmsr THEN Access(ops[i].reg, {}, {})
                                      ELSE Whole(ops[i].reg, ops[i].msrdata)]
<1>1. /\ Len(ops) \in Nat /\ DOMAIN ops = 1 .. Len(ops)
      /\ \A i \in 1 .. Len(ops) : ops[i] \in MsrOps /\ OpFine(ops[i])
  BY DEF MsrKept
<1>2. ASSUME NEW i \in 1 .. Len(ops) PROVE f[i] \in HarmlessAccesses
  <2>1. /\ ops[i].reg \in Register /\ ops[i].isrdmsr \in BOOLEAN /\ ops[i].msrdata \in SUBSET Bits
        /\ OpFine(ops[i])
    BY ONLY <1>1, <1>2 DEF MsrOps
  <2>2. CASE ops[i].isrdmsr
    <3>1. f[i] = Access(ops[i].reg, {}, {})
      BY ONLY <1>1, <1>2, <2>2
    <3>2. Access(ops[i].reg, {}, {}) \in HarmlessAccesses
      BY ONLY <2>1 DEF Access, HarmlessAccesses, Accesses, Harmless
    <3> QED
      BY ONLY <3>1, <3>2
  <2>3. CASE ~ops[i].isrdmsr
    <3>1. f[i] = Whole(ops[i].reg, ops[i].msrdata)
      BY ONLY <1>1, <1>2, <2>3
    <3>2. ops[i].msrdata \ Own(ops[i].reg) = before[ops[i].reg] \ Own(ops[i].reg)
      BY ONLY <2>1, <2>3 DEF OpFine
    <3>3. Whole(ops[i].reg, ops[i].msrdata) \in HarmlessAccesses
      BY ONLY <2>1, <3>2, WholeHarmless
    <3> QED
      BY ONLY <3>1, <3>3
  <2> QED
    BY ONLY <2>1, <2>2, <2>3
<1>3. f = [i \in 1 .. Len(ops) |-> f[i]]
  BY ONLY <1>1
<1>4. Ioctl(regs, ops, n) = Performed(regs, f, n)
  BY DEF Ioctl
<1> HIDE DEF f
<1>5. f \in Seq(HarmlessAccesses) /\ Len(f) = Len(ops)
  <2>1. [i \in 1 .. Len(ops) |-> f[i]] \in Seq(HarmlessAccesses)
    BY ONLY <1>1, <1>2
  <2> DEFINE m == Len(ops)
  <2>2. m \in Nat /\ f = [i \in 1 .. m |-> f[i]] /\ f \in Seq(HarmlessAccesses)
    BY ONLY <1>1, <1>3, <2>1
  <2> HIDE DEF m
  <2>3. Len(f) = m
    BY ONLY <2>2
  <2> QED
    BY ONLY <2>2, <2>3 DEF m
<1>6. Intact(Performed(regs, f, n))
  BY ONLY before \in Registers, Intact(regs), n \in 0 .. Len(ops), <1>5, StaysIntact
<1> QED
  BY ONLY <1>4, <1>6

\* MSRIO::msr_ioctl_write(): whatever fails, the operations keep what the fields
\* leave of their registers.
LEMMA MsrOutcomes ==
    ASSUME SaveInv, NEW m \in MsrWriteBatch
    PROVE  /\ Intact(m.regs) /\ MsrKept(m.entries)
           /\ ~m_do_restore => m.entries = << >>
<1> DEFINE ops == m_write_batch_op
           n == Len(ops)
           regs == Ioctl(hw, ops, n)
           Data(op) == IF op.isrdmsr THEN hw[op.reg] ELSE op.msrdata
           modified == [i \in 1..n |->
                          [ops[i] EXCEPT !.isrdmsr = FALSE,
                                         !.msrdata = (Data(ops[i]) \ ops[i].mask) \cup ops[i].val]]
           clean == [i \in 1..n |->
                       [modified[i] EXCEPT !.isrdmsr = TRUE, !.mask = {}, !.val = {}]]
<1>1. Intact(hw) /\ hw \in Registers /\ before \in Registers /\ MsrKept(ops) /\ Saved
  BY DEF SaveInv, ValuesOK
<1>2. CASE ops = << >> \/ m = Outcome(hw, ops, "refused")
  <2>1. m.regs = hw /\ m.entries = ops
    <3>1. CASE ops = << >>
      BY <3>1 DEF MsrWriteBatch, Outcome
    <3>2. CASE m = Outcome(hw, ops, "refused")
      BY ONLY <3>2 DEF Outcome
    <3> QED
      BY ONLY <1>2, <3>1, <3>2
  <2> QED
    BY ONLY <1>1, <2>1 DEF Saved
<1>3. CASE ~(ops = << >> \/ m = Outcome(hw, ops, "refused"))
  <2>1. m \in MsrBatch
    BY <1>3 DEF MsrWriteBatch
  <2>2. m_do_restore
    BY ONLY <1>1, <1>3 DEF Saved
  <2>3. /\ n \in Nat /\ DOMAIN ops = 1 .. n
        /\ \A i \in 1 .. n : ops[i] \in MsrOps /\ OpFine(ops[i])
    BY ONLY <1>1 DEF MsrKept
  <2>4. \/ \E k \in 0..n - 1 : m = Outcome(Ioctl(hw, ops, k), ops, "failed")
        \/ \E k \in 0..n - 1 : m = Outcome(Ioctl(regs, modified, k), modified, "failed")
        \/ m = Outcome(Ioctl(regs, modified, n), clean, "done")
    <3> HIDE DEF regs, modified, clean
    <3>1. m \in {Outcome(Ioctl(hw, ops, k), ops, "failed") : k \in 0..n - 1}
         \cup {Outcome(Ioctl(regs, modified, k), modified, "failed") : k \in 0..n - 1}
         \cup {Outcome(Ioctl(regs, modified, n), clean, "done")}
      BY ONLY <2>1 DEF MsrBatch, regs, modified, clean
    <3> QED
      BY ONLY <3>1
  <2>5. ASSUME NEW i \in 1 .. n
        PROVE  /\ modified[i] \in MsrOps /\ OpFine(modified[i])
               /\ clean[i] \in MsrOps /\ OpFine(clean[i])
    <3> DEFINE op == ops[i]
               new == [op EXCEPT !.isrdmsr = FALSE, !.msrdata = (Data(op) \ op.mask) \cup op.val]
               again == [new EXCEPT !.isrdmsr = TRUE, !.mask = {}, !.val = {}]
    <3>1. modified[i] = new
      BY ONLY <2>5
    <3>2. clean[i] = again
      BY ONLY <2>5, <3>1
    <3>3. op \in MsrOps /\ OpFine(op)
      BY ONLY <2>3, <2>5
    <3> HIDE DEF modified, clean, op
    <3>4. op.reg \in Register /\ Data(op) \subseteq Bits /\ op.mask \subseteq Own(op.reg)
          /\ op.val \subseteq op.mask /\ op.val \subseteq Bits /\ op.mask \subseteq Bits
      <4>1. /\ op.reg \in Register /\ op.msrdata \subseteq Bits
            /\ op.val \subseteq Bits /\ op.mask \subseteq Bits
        BY ONLY <3>3 DEF MsrOps
      <4>2. hw[op.reg] \subseteq Bits
        BY ONLY <1>1, <4>1 DEF Registers
      <4> QED
        BY ONLY <3>3, <4>1, <4>2 DEF OpFine
    <3>5. Data(op) \ Own(op.reg) = before[op.reg] \ Own(op.reg)
      <4>1. CASE op.isrdmsr
        BY ONLY <1>1, <2>2, <3>4, <4>1 DEF Intact
      <4>2. CASE ~op.isrdmsr
        BY ONLY <3>3, <4>2 DEF OpFine
      <4> QED
        BY ONLY <4>1, <4>2
    <3> DEFINE data == (Data(op) \ op.mask) \cup op.val
    <3>6. data \subseteq Bits /\ data \ Own(op.reg) = before[op.reg] \ Own(op.reg)
      <4> HIDE DEF Data
      <4> QED
        BY ONLY <3>4, <3>5
    <3>7. /\ new \in MsrOps /\ new.reg = op.reg /\ ~new.isrdmsr /\ new.msrdata = data
          /\ new.mask = op.mask /\ new.val = op.val
      <4>1. data \in SUBSET Bits
        BY ONLY <3>6
      <4>2. new = [op EXCEPT !.isrdmsr = FALSE, !.msrdata = data]
        OBVIOUS
      <4> HIDE DEF new, data
      <4> QED
        BY ONLY <3>3, <4>1, <4>2 DEF MsrOps
    <3> HIDE DEF new, data
    <3>8. /\ again \in MsrOps /\ again.reg = op.reg /\ again.isrdmsr
          /\ again.mask = {} /\ again.val = {}
      BY ONLY <3>7 DEF MsrOps
    <3> HIDE DEF again
    <3>9. OpFine(new) /\ OpFine(again)
      BY ONLY <3>4, <3>6, <3>7, <3>8 DEF OpFine
    <3> QED
      BY ONLY <3>1, <3>2, <3>7, <3>8, <3>9
  <2>6. MsrKept(modified) /\ MsrKept(clean) /\ Len(modified) = n
    <3>1. modified = [i \in 1 .. n |-> modified[i]] /\ clean = [i \in 1 .. n |-> clean[i]]
      BY ONLY TRUE
    <3> HIDE DEF modified, clean, n
    <3>2. MsrKept([i \in 1 .. n |-> modified[i]])
      BY ONLY <2>3, <2>5, MsrFamily
    <3>3. MsrKept([i \in 1 .. n |-> clean[i]])
      BY ONLY <2>3, <2>5, MsrFamily
    <3>4. Len(modified) = n
      <4>1. modified \in Seq(MsrOps)
        BY ONLY <3>1, <3>2 DEF MsrKept
      <4> QED
        BY ONLY <2>3, <3>1, <4>1
    <3> QED
      BY ONLY <3>1, <3>2, <3>3, <3>4
  <2>7. \A k \in 0 .. n - 1 : k \in 0 .. Len(ops)
    BY ONLY <2>3
  <2>8. n \in 0 .. n /\ \A k \in 0 .. n - 1 : k \in 0 .. n
    BY ONLY <2>3
  <2>9. Intact(regs)
    BY ONLY <1>1, <2>8, IoctlIntact
  <2> HIDE DEF regs, modified, clean
  <2>10. CASE \E k \in 0..n - 1 : m = Outcome(Ioctl(hw, ops, k), ops, "failed")
    <3>1. PICK k \in 0..n - 1 : m = Outcome(Ioctl(hw, ops, k), ops, "failed")
      BY <2>10
    <3>2. Intact(Ioctl(hw, ops, k))
      BY ONLY <1>1, <2>7, k \in 0 .. n - 1, IoctlIntact
    <3> QED
      BY ONLY <1>1, <2>2, <3>1, <3>2 DEF Outcome
  <2>11. CASE \E k \in 0..n - 1 : m = Outcome(Ioctl(regs, modified, k), modified, "failed")
    <3>1. PICK k \in 0..n - 1 : m = Outcome(Ioctl(regs, modified, k), modified, "failed")
      BY <2>11
    <3>2. k \in 0 .. Len(modified)
      BY ONLY <2>6, <2>8, k \in 0 .. n - 1
    <3>3. Intact(Ioctl(regs, modified, k))
      BY ONLY <1>1, <2>6, <2>9, <3>2, IoctlIntact
    <3> QED
      BY ONLY <2>2, <2>6, <3>1, <3>3 DEF Outcome
  <2>12. CASE m = Outcome(Ioctl(regs, modified, n), clean, "done")
    <3>1. n \in 0 .. Len(modified)
      BY ONLY <2>6, <2>8
    <3>2. Intact(Ioctl(regs, modified, n))
      BY ONLY <1>1, <2>6, <2>9, <3>1, IoctlIntact
    <3> QED
      BY ONLY <2>2, <2>6, <2>12, <3>2 DEF Outcome
  <2> QED
    BY ONLY <2>4, <2>10, <2>11, <2>12
<1> QED
  BY ONLY <1>2, <1>3

\* What is written to the register of an interface has no bit that is not known, and
\* neither had the register.
LEMMA KnownHarmless ==
    ASSUME PlatformAssumption, Clean, NEW if \in SstIfs, IfFine(if)
    PROVE  Whole(if.reg, if.write_value) \in HarmlessAccesses
<1> DEFINE a == [reg |-> if.reg, mask |-> Bits, val |-> if.write_value]
<1>1. Whole(if.reg, if.write_value) = a
  BY DEF Whole, Access
<1>2. /\ a.reg = if.reg /\ a.mask = Bits /\ a.val = if.write_value /\ a \in Accesses
      /\ if.write_value \subseteq Bits
  BY DEF Accesses, SstIfs
<1> HIDE DEF a
<1>3. PICK c \in SstAt(if.reg) : NameOf[c] \in available
  BY ONLY IfFine(if) DEF IfFine
<1>4. Known(if.reg) \subseteq Own(if.reg) /\ if.write_value \subseteq Known(if.reg)
  BY ONLY PlatformAssumption, <1>3, IfFine(if), OwnKnown DEF IfFine
<1>5. ASSUME m_do_restore PROVE before[if.reg] \subseteq Known(if.reg)
  BY ONLY <1>3, <1>5, Clean DEF Clean, SstAt
<1>6. m_do_restore => Harmless(a)
  BY ONLY <1>2, <1>4, <1>5 DEF Harmless
<1> QED
  BY ONLY <1>1, <1>2, <1>6 DEF HarmlessAccesses

\* Interfaces of the same registers.
SameInterfaces(ifs, others) ==
    /\ SstKept(others) /\ DOMAIN others = 1 .. Len(ifs)
    /\ \A i \in 1 .. Len(ifs) : others[i].reg = ifs[i].reg

\* What interfaces hold when the first j were read: known fields of their own, even
\* where a value belongs to another (beyond BatchLimit).
LEMMA ModifiedKept ==
    ASSUME PlatformAssumption, NEW ifs, SstKept(ifs), NEW regs, NEW j
    PROVE  SameInterfaces(ifs, SstModified(ifs, regs, j))
<1> DEFINE Read(i) == UNION {(regs[ifs[k].reg] \cap Known(ifs[i].reg)) \ ifs[i].mask :
                               k \in {k \in 1..j : (k - 1) % BatchLimit = i - 1}}
           f == SstModified(ifs, regs, j)
<1>1. /\ Len(ifs) \in Nat /\ DOMAIN ifs = 1 .. Len(ifs)
      /\ \A i \in 1 .. Len(ifs) : ifs[i] \in SstIfs /\ IfFine(ifs[i])
  BY DEF SstKept
<1>2. ASSUME NEW i \in 1 .. Len(ifs)
      PROVE  f[i] \in SstIfs /\ IfFine(f[i]) /\ f[i].reg = ifs[i].reg
  <2> DEFINE if == ifs[i]
             more == Read(i)
             new == [if EXCEPT !.write_value = @ \cup more]
  <2>1. f[i] = new
    BY ONLY <1>1, <1>2 DEF SstModified
  <2>2. if \in SstIfs /\ IfFine(if)
    BY ONLY <1>1, <1>2
  <2>3. more \subseteq Known(if.reg)
    BY ONLY TRUE
  <2> HIDE DEF f, if, more
  <2>4. Known(if.reg) \subseteq Bits
    BY ONLY PlatformAssumption, OwnKnown
  <2>5. /\ new \in SstIfs /\ new.reg = if.reg /\ new.adjusters = if.adjusters
        /\ new.write_value = if.write_value \cup more
    BY ONLY <2>2, <2>3, <2>4 DEF SstIfs
  <2> HIDE DEF new
  <2>6. IfFine(new)
    BY ONLY <2>2, <2>3, <2>5 DEF IfFine
  <2> QED
    BY ONLY <2>1, <2>5, <2>6 DEF if
<1>3. f = [i \in 1 .. Len(ifs) |-> f[i]] /\ DOMAIN f = 1 .. Len(ifs)
  BY ONLY <1>1 DEF SstModified
<1> HIDE DEF f
<1>4. SstKept(f)
  <2>1. SstKept([i \in 1 .. Len(ifs) |-> f[i]])
    BY ONLY <1>1, <1>2, SstFamily
  <2> QED
    BY ONLY <1>3, <2>1
<1> QED
  BY ONLY <1>2, <1>3, <1>4 DEF f, SameInterfaces

\* SSTIO::write_batch(), of the mailboxes or of the registers in memory.
LEMMA SstOutcomes ==
    ASSUME PlatformAssumption, SaveInv, NEW ifs, SstKept(ifs), NEW regs, Intact(regs),
           NEW o \in SstWriteBatch(ifs, regs)
    PROVE  /\ Intact(o.regs) /\ SstKept(o.entries)
           /\ ifs = << >> => o.entries = << >>
<1> DEFINE n == Len(ifs)
           modified == SstModified(ifs, regs, n)
           f == [i \in 1..n |-> Whole(ifs[i].reg, modified[i].write_value)]
           Written(k) == Performed(regs, f, k)
<1>1. before \in Registers /\ Clean
  BY DEF SaveInv, ValuesOK
<1>2. n \in Nat
  BY ONLY SstKept(ifs) DEF SstKept
<1>3. \/ \E j : /\ o.regs = regs /\ o.entries = SstModified(ifs, regs, j)
      \/ \E k \in 0 .. n : /\ o.regs = Written(k) /\ o.entries = modified
  <2> HIDE DEF f, modified
  <2>1. o \in {Outcome(regs, SstModified(ifs, regs, j), "failed") :
                 j \in {j \in 0..n - 1 : j % BatchLimit = 0}}
                \cup {Outcome(Written(k), modified, "failed") : k \in 0..n - 1}
                \cup {Outcome(Written(n), modified, "done")}
    BY DEF SstWriteBatch, f, modified
  <2>2. n \in 0 .. n /\ 0 .. n - 1 \subseteq 0 .. n
    BY ONLY <1>2
  <2>3. \A k : Outcome(Written(k), modified, "failed").regs = Written(k)
               /\ Outcome(Written(k), modified, "failed").entries = modified
    BY ONLY TRUE DEF Outcome
  <2>4. Outcome(Written(n), modified, "done").regs = Written(n)
        /\ Outcome(Written(n), modified, "done").entries = modified
    BY ONLY TRUE DEF Outcome
  <2>5. \A j : Outcome(regs, SstModified(ifs, regs, j), "failed").regs = regs
               /\ Outcome(regs, SstModified(ifs, regs, j), "failed").entries
                    = SstModified(ifs, regs, j)
    BY ONLY TRUE DEF Outcome
  <2> HIDE DEF Written
  <2>6. CASE o \in {Outcome(regs, SstModified(ifs, regs, j), "failed") :
                      j \in {j \in 0..n - 1 : j % BatchLimit = 0}}
    BY ONLY <2>5, <2>6
  <2>7. CASE o \in {Outcome(Written(k), modified, "failed") : k \in 0..n - 1}
    BY ONLY <2>2, <2>3, <2>7
  <2>8. CASE o = Outcome(Written(n), modified, "done")
    BY ONLY <2>2, <2>4, <2>8
  <2> QED
    BY ONLY <2>1, <2>6, <2>7, <2>8
<1>4. ASSUME NEW j
      PROVE  /\ SstKept(SstModified(ifs, regs, j))
             /\ DOMAIN SstModified(ifs, regs, j) = 1 .. n
             /\ \A i \in 1 .. n : SstModified(ifs, regs, j)[i].reg = ifs[i].reg
  <2> HIDE DEF f, modified, Written
  <2>1. SameInterfaces(ifs, SstModified(ifs, regs, j))
    BY ONLY PlatformAssumption, SstKept(ifs), ModifiedKept
  <2> QED
    BY ONLY <2>1 DEF SameInterfaces
<1>5. ifs = << >> => \A j : SstModified(ifs, regs, j) = << >>
  BY ONLY TRUE DEF SstModified
<1>6. ASSUME NEW i \in 1 .. n PROVE f[i] \in HarmlessAccesses
  <2> DEFINE if == modified[i]
  <2>1. if \in SstIfs /\ IfFine(if) /\ if.reg = ifs[i].reg
    <3>1. SstKept(modified) /\ DOMAIN modified = 1 .. n /\ modified[i].reg = ifs[i].reg
      BY ONLY <1>4, <1>6
    <3> HIDE DEF modified
    <3> QED
      BY ONLY <1>6, <3>1 DEF SstKept
  <2>2. f[i] = Whole(if.reg, if.write_value)
    BY ONLY <1>6, <2>1
  <2> HIDE DEF if, f
  <2>3. Whole(if.reg, if.write_value) \in HarmlessAccesses
    BY ONLY PlatformAssumption, <1>1, <2>1, KnownHarmless
  <2> QED
    BY ONLY <2>2, <2>3
<1>7. f = [i \in 1 .. n |-> f[i]]
  BY ONLY TRUE
<1> HIDE DEF f, modified, n
<1>8. f \in Seq(HarmlessAccesses)
  BY ONLY <1>2, <1>6, <1>7
<1>9. Len(f) = n
  BY ONLY <1>2, <1>7, <1>8
<1>10. \A k \in 0 .. n : Intact(Written(k))
  BY ONLY Intact(regs), <1>1, <1>8, <1>9, StaysIntact
<1>11. SstKept(modified) /\ (ifs = << >> => modified = << >>)
  BY ONLY <1>4, <1>5 DEF modified
<1> HIDE DEF Written
<1> QED
  BY ONLY Intact(regs), <1>3, <1>4, <1>5, <1>10, <1>11

\* write_batch(), up to the group or the part of SSTIO that fails.
LEMMA WriteBatchKeeps ==
    ASSUME PlatformAssumption, SaveInv, WriteBatch
    PROVE  SaveInv'
<1>1. /\ UNCHANGED <<before, available, m_do_restore, saved>> /\ UNCHANGED m_control_pushed
  BY DEF WriteBatch, pio
<1>2. PICK m \in MsrWriteBatch :
         /\ m_write_batch_op' = m.entries
         /\ \/ /\ last' = "threw" /\ hw' = m.regs
               /\ UNCHANGED <<m_mbox_write, m_mmio_write>>
            \/ \E s \in SstWriteBatch(m_mbox_write, m.regs) :
                 /\ m_mbox_write' = s.entries
                 /\ \/ /\ last' = "threw" /\ hw' = s.regs /\ UNCHANGED m_mmio_write
                    \/ \E t \in SstWriteBatch(m_mmio_write, s.regs) :
                         /\ m_mmio_write' = t.entries /\ hw' = t.regs
                         /\ last' = IF t.end = "done" THEN "write_batch" ELSE "threw"
  BY DEF WriteBatch
<1>3. Intact(m.regs) /\ MsrKept(m.entries) /\ (~m_do_restore => m.entries = << >>)
  BY ONLY SaveInv, m \in MsrWriteBatch, MsrOutcomes
<1>4. /\ SstKept(m_mbox_write) /\ SstKept(m_mmio_write) /\ Saved
      /\ m_control_pushed \subseteq Control
      /\ ~m_do_restore => m_mbox_write = << >> /\ m_mmio_write = << >>
  BY DEF SaveInv, ValuesOK, Saved
<1>5. /\ Intact(hw') /\ SstKept(m_mbox_write') /\ SstKept(m_mmio_write')
      /\ ~m_do_restore => m_mbox_write' = << >> /\ m_mmio_write' = << >>
      /\ last' # "restore_control"
  <2>1. CASE last' = "threw" /\ hw' = m.regs /\ UNCHANGED <<m_mbox_write, m_mmio_write>>
    BY ONLY <1>3, <1>4, <2>1
  <2>2. CASE \E s \in SstWriteBatch(m_mbox_write, m.regs) :
                 /\ m_mbox_write' = s.entries
                 /\ \/ /\ last' = "threw" /\ hw' = s.regs /\ UNCHANGED m_mmio_write
                    \/ \E t \in SstWriteBatch(m_mmio_write, s.regs) :
                         /\ m_mmio_write' = t.entries /\ hw' = t.regs
                         /\ last' = IF t.end = "done" THEN "write_batch" ELSE "threw"
    <3>1. PICK s \in SstWriteBatch(m_mbox_write, m.regs) :
             /\ m_mbox_write' = s.entries
             /\ \/ /\ last' = "threw" /\ hw' = s.regs /\ UNCHANGED m_mmio_write
                \/ \E t \in SstWriteBatch(m_mmio_write, s.regs) :
                     /\ m_mmio_write' = t.entries /\ hw' = t.regs
                     /\ last' = IF t.end = "done" THEN "write_batch" ELSE "threw"
      BY ONLY <2>2
    <3>2. Intact(s.regs) /\ SstKept(s.entries) /\ (m_mbox_write = << >> => s.entries = << >>)
      BY ONLY PlatformAssumption, SaveInv, <1>3, <1>4, SstOutcomes,
              s \in SstWriteBatch(m_mbox_write, m.regs)
    <3>3. CASE last' = "threw" /\ hw' = s.regs /\ UNCHANGED m_mmio_write
      BY ONLY <1>4, <3>1, <3>2, <3>3
    <3>4. CASE \E t \in SstWriteBatch(m_mmio_write, s.regs) :
                 /\ m_mmio_write' = t.entries /\ hw' = t.regs
                 /\ last' = IF t.end = "done" THEN "write_batch" ELSE "threw"
      <4>1. PICK t \in SstWriteBatch(m_mmio_write, s.regs) :
                 /\ m_mmio_write' = t.entries /\ hw' = t.regs
                 /\ last' = IF t.end = "done" THEN "write_batch" ELSE "threw"
        BY ONLY <3>4
      <4>2. Intact(t.regs) /\ SstKept(t.entries) /\ (m_mmio_write = << >> => t.entries = << >>)
        BY ONLY PlatformAssumption, SaveInv, <1>4, <3>2, SstOutcomes,
                t \in SstWriteBatch(m_mmio_write, s.regs)
      <4> QED
        BY ONLY <1>4, <3>1, <3>2, <4>1, <4>2
    <3> QED
      BY ONLY <3>1, <3>3, <3>4
  <2> QED
    BY ONLY <1>2, <2>1, <2>2
<1>6. /\ \A c \in m_control_pushed' : c \in Control /\ NameOf[c] \in available
      /\ ~m_do_restore => m_control_pushed' = {}
  BY ONLY <1>1, <1>4 DEF Saved
<1>7. MsrKept(m_write_batch_op') /\ (~m_do_restore => m_write_batch_op' = << >>)
  BY ONLY <1>2, <1>3
<1> QED
  BY ONLY SaveInv, <1>1, <1>5, <1>6, <1>7, KeepsSaved

-----------------------------------------------------------------------------
(* The theorem.                                                            *)

\* The client starts with nothing saved and nothing pushed.
LEMMA SaveInvInit == PlatformAssumption /\ Init => SaveInv
<1> SUFFICES ASSUME PlatformAssumption, Init PROVE SaveInv
  OBVIOUS
<1>1. /\ hw = FirstBits /\ before = FirstBits /\ m_do_restore = FALSE /\ available = Name
      /\ m_control_pushed = {} /\ m_write_batch_op = << >> /\ m_mbox_write = << >>
      /\ m_mmio_write = << >> /\ last = "nothing"
  BY DEF Init
<1>2. FirstBits \in Registers
  BY DEF PlatformAssumption, Registers
<1>3. MsrKept(m_write_batch_op) /\ SstKept(m_mbox_write) /\ SstKept(m_mmio_write)
  BY ONLY <1>1 DEF MsrKept, SstKept
<1>4. ValuesOK
  BY ONLY <1>1, <1>2, <1>3 DEF ValuesOK
<1> QED
  BY ONLY <1>1, <1>2, <1>4 DEF SaveInv, Intact, Saved, Clean, RestoreUndoes

\* Every call keeps the invariant.
LEMMA SaveInvStep ==
    ASSUME PlatformAssumption, SaveInv, [Next]_vars
    PROVE  SaveInv'
<1>1. CASE \E r \in Request : PushControl(r)
  BY <1>1, PushKeeps
<1>2. CASE \E r \in Request, on \in BOOLEAN : Adjust(r, on)
  BY <1>2, AdjustKeeps
<1>3. CASE \E r \in Request, on \in BOOLEAN : WriteControl(r, on)
  BY <1>3, WriteKeeps
<1>4. CASE WriteBatch
  BY <1>4, WriteBatchKeeps
<1>5. CASE SaveControl
  BY <1>5, SaveKeeps
<1>6. CASE RestoreControl
  BY <1>6, RestoreKeeps
<1>7. CASE UNCHANGED vars
  <2>1. /\ UNCHANGED <<before, available, m_do_restore, saved>>
        /\ UNCHANGED <<hw, m_control_pushed, m_write_batch_op, m_mbox_write, m_mmio_write, last>>
    BY <1>7 DEF vars, pio, groups, batches, history
  <2>2. /\ Intact(hw') /\ MsrKept(m_write_batch_op')
        /\ SstKept(m_mbox_write') /\ SstKept(m_mmio_write')
    BY <2>1 DEF SaveInv, ValuesOK
  <2>3. /\ \A c \in m_control_pushed' : c \in Control /\ NameOf[c] \in available
        /\ ~m_do_restore => /\ m_control_pushed' = {} /\ m_write_batch_op' = << >>
                            /\ m_mbox_write' = << >> /\ m_mmio_write' = << >>
        /\ last' = "restore_control" =>
             \A r \in Register : ~PartlyRefused(r) => hw'[r] = before[r]
    BY <2>1 DEF SaveInv, ValuesOK, Saved, RestoreUndoes
  <2> QED
    BY ONLY SaveInv, <2>1, <2>2, <2>3, KeepsSaved
<1> QED
  BY <1>1, <1>2, <1>3, <1>4, <1>5, <1>6, <1>7 DEF Next

\* PlatformIO.hpp:171-178: a restore_control() that returns undoes all changes
\* since save_control(), wherever calls failed in between, in every register but those
\* of SSTIO that have a refused field beside another.
THEOREM RestoredAll == Spec => []RestoreUndoes
<1>1. Init => SaveInv
  BY PlatformAssumption, SaveInvInit
<1>2. SaveInv /\ [Next]_vars => SaveInv'
  BY PlatformAssumption, SaveInvStep
<1>3. SaveInv => RestoreUndoes
  BY DEF SaveInv
<1> QED
  BY <1>1, <1>2, <1>3, PTL DEF Spec
===============================================================================
