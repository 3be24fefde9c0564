----------------------------- MODULE SumTheorems -----------------------------
(***************************************************************************)
(* Sums of integers over finite sets, as the community modules define      *)
(* them: facts that proofs about conserved quantities cite by name.        *)
(*                                                                         *)
(* Induction is over sets of instances: a family of sets that contains a   *)
(* set whenever it contains the sets with one element less contains all.   *)
(***************************************************************************)
EXTENDS Integers, FiniteSetsExt, FiniteSetTheorems, WellFoundedInduction, TLAPS

\* The function of which MapThenSumSet takes the value at S.
PartialSums(f, S) ==
    CHOOSE g : g = [T \in SUBSET S |->
                      IF T = {} THEN 0
                      ELSE f[CHOOSE x \in T : TRUE] + g[T \ {CHOOSE x \in T : TRUE}]]
SumOver(f, S) == PartialSums(f, S)[S]

\* It is the sum of the community modules.
LEMMA SumIsFold ==
    ASSUME NEW f, NEW S
    PROVE  MapThenSumSet(LAMBDA x : f[x], S) = SumOver(f, S)
  BY DEF MapThenSumSet, MapThenFoldSet, PartialSums, SumOver

-----------------------------------------------------------------------------
(* Induction.                                                              *)

\* A set of natural numbers has a least element.
LEMMA LeastOf ==
    ASSUME NEW S \in SUBSET Nat, S # {}
    PROVE  \E m \in S : \A k \in S : m <= k
<1> DEFINE R == {ss \in Nat \X Nat : ss[1] < ss[2]}
<1>1. IsWellFoundedOn(R, Nat)
  BY NatLessThanWellFounded DEF OpToRel
<1>2. \A m, k \in Nat : <<m, k>> \in R <=> m < k
  OBVIOUS
<1> HIDE DEF R
<1>3. PICK m \in S : \A k \in S : ~(<<k, m>> \in R)
  BY <1>1, WFMin
<1>4. \A k \in S : ~(k < m)
  BY <1>2, <1>3
<1> QED
  BY <1>4

\* A set of places has a last one.
LEMMA MaxIn ==
    ASSUME NEW m \in Nat, NEW T \in SUBSET (1 .. m), T # {}
    PROVE  Max(T) \in T
<1> DEFINE Rest == {m - i : i \in T}
<1>1. Rest \in SUBSET Nat /\ Rest # {}
  <2>1. \A i \in 1 .. m : m - i \in Nat
    BY ONLY m \in Nat
  <2>2. \A i \in T : m - i \in Nat /\ m - i \in Rest
    BY ONLY <2>1, T \in SUBSET (1 .. m)
  <2>3. \A k \in Rest : \E i \in T : k = m - i
    BY ONLY TRUE
  <2> QED
    BY ONLY T # {}, <2>2, <2>3
<1>2. PICK k \in Rest : \A j \in Rest : k <= j
  BY <1>1, LeastOf
<1>3. PICK i \in T : k = m - i
  BY <1>2
<1>4. \A j \in T : i >= j
  <2>1. ASSUME NEW j \in T PROVE i >= j
    <3>1. k <= m - j
      BY <1>2
    <3> QED
      BY <1>3, <3>1
  <2> QED
    BY <2>1
<1>5. \E x \in T : \A y \in T : x >= y
  BY <1>3, <1>4
<1> QED
  BY <1>5 DEF Max

\* A property of the subsets of a finite set that follows from that of the
\* subsets with one element less holds for all.
LEMMA SubsetInduction ==
    ASSUME NEW S, IsFiniteSet(S), NEW G, {} \in G,
           \A T \in SUBSET S : T # {} /\ (\A x \in T : T \ {x} \in G) => T \in G
    PROVE  \A T \in SUBSET S : T \in G
<1> SUFFICES ASSUME \E T \in SUBSET S : T \notin G PROVE FALSE
  OBVIOUS
<1> DEFINE Bad == {T \in SUBSET S : T \notin G}
           Sizes == {Cardinality(T) : T \in Bad}
<1>1. \A T \in SUBSET S : IsFiniteSet(T) /\ Cardinality(T) \in Nat
  BY FS_Subset, FS_CardinalityType
<1>2. Sizes \in SUBSET Nat /\ Sizes # {}
  BY <1>1
<1>3. PICK m \in Sizes : \A k \in Sizes : m <= k
  BY <1>2, LeastOf
<1>4. PICK T \in Bad : m = Cardinality(T)
  BY <1>3
<1>5. ASSUME NEW x \in T PROVE T \ {x} \in G
  <2>1. T \ {x} \in SUBSET S /\ Cardinality(T \ {x}) = Cardinality(T) - 1
    BY <1>1, <1>4, FS_RemoveElement
  <2>2. CASE T \ {x} \in Bad
    <3>1. m <= Cardinality(T \ {x})
      BY <1>3, <2>2
    <3> QED
      BY <1>1, <1>4, <2>1, <3>1
  <2> QED
    BY <2>1, <2>2
<1> QED
  BY <1>4, <1>5

-----------------------------------------------------------------------------
(* The recursive definition has a solution.                                *)

\* What a solution does with one of its arguments.
SumsAt(f, g, T) ==
    g[T] = IF T = {} THEN 0
           ELSE f[CHOOSE x \in T : TRUE] + g[T \ {CHOOSE x \in T : TRUE}]

\* There is one for the subsets of any size.
LEMMA SumsUpTo ==
    ASSUME NEW f, NEW S, IsFiniteSet(S)
    PROVE  \A k \in Nat : \E g : \A T \in SUBSET S : Cardinality(T) <= k => SumsAt(f, g, T)
<1> DEFINE Some(k) == \E g : \A T \in SUBSET S : Cardinality(T) <= k => SumsAt(f, g, T)
           Bad == {k \in Nat : ~Some(k)}
<1> SUFFICES ASSUME Bad # {} PROVE FALSE
  OBVIOUS
<1>1. PICK k \in Bad : \A j \in Bad : k <= j
  BY LeastOf
<1>2. \A T \in SUBSET S : IsFiniteSet(T) /\ Cardinality(T) \in Nat /\ (Cardinality(T) = 0 <=> T = {})
  BY FS_Subset, FS_CardinalityType, FS_EmptySet
<1>3. k # 0
  <2>1. ASSUME NEW T \in SUBSET S, Cardinality(T) <= 0
        PROVE  SumsAt(f, [U \in SUBSET S |-> 0], T)
    BY <1>2, <2>1 DEF SumsAt
  <2> QED
    BY <1>1, <2>1
<1>4. k - 1 \in Nat /\ k - 1 \notin Bad
  BY <1>1, <1>3
<1>5. PICK g : \A T \in SUBSET S : Cardinality(T) <= k - 1 => SumsAt(f, g, T)
  BY <1>4
<1> DEFINE h == [T \in SUBSET S |->
                   IF Cardinality(T) <= k - 1 THEN g[T]
                   ELSE f[CHOOSE x \in T : TRUE] + g[T \ {CHOOSE x \in T : TRUE}]]
<1>6. ASSUME NEW T \in SUBSET S, Cardinality(T) <= k PROVE SumsAt(f, h, T)
  <2> DEFINE x == CHOOSE x \in T : TRUE
  <2>1. CASE T = {}
    <3>1. Cardinality(T) <= k - 1
      BY <1>2, <1>4, <2>1
    <3>2. SumsAt(f, g, T) /\ h[T] = g[T]
      BY <1>5, <3>1
    <3> QED
      BY <2>1, <3>2 DEF SumsAt
  <2>2. CASE T # {}
    <3>1. x \in T
      BY <2>2
    <3>2. Cardinality(T \ {x}) = Cardinality(T) - 1 /\ T \ {x} \in SUBSET S
      BY <1>2, <3>1, FS_RemoveElement
    <3>3. Cardinality(T \ {x}) <= k - 1
      BY <1>2, <1>6, <3>2
    <3>4. h[T \ {x}] = g[T \ {x}]
      BY <3>2, <3>3
    <3>5. h[T] = f[x] + g[T \ {x}]
      <4>1. CASE Cardinality(T) <= k - 1
        BY <1>5, <2>2, <4>1 DEF SumsAt
      <4>2. CASE ~(Cardinality(T) <= k - 1)
        BY <4>2
      <4> QED
        BY <4>1, <4>2
    <3> QED
      BY <2>2, <3>4, <3>5 DEF SumsAt
  <2> QED
    BY <2>1, <2>2
<1>7. Some(k)
  <2> HIDE DEF h
  <2> QED
    BY <1>6
<1> QED
  BY <1>1, <1>7

\* So the choice in the definition succeeds.
LEMMA PartialSumsAt ==
    ASSUME NEW f, NEW S, IsFiniteSet(S), NEW T \in SUBSET S
    PROVE  SumsAt(f, PartialSums(f, S), T)
<1>1. Cardinality(S) \in Nat /\ \A U \in SUBSET S : Cardinality(U) <= Cardinality(S)
  BY FS_Subset, FS_CardinalityType
<1>2. PICK g : \A U \in SUBSET S : SumsAt(f, g, U)
  BY <1>1, SumsUpTo
<1> DEFINE h == [U \in SUBSET S |-> g[U]]
           Solves(e) == e = [U \in SUBSET S |->
                               IF U = {} THEN 0
                               ELSE f[CHOOSE x \in U : TRUE] + e[U \ {CHOOSE x \in U : TRUE}]]
<1>3. Solves(h)
  <2>1. ASSUME NEW U \in SUBSET S
        PROVE  h[U] = IF U = {} THEN 0
                      ELSE f[CHOOSE x \in U : TRUE] + h[U \ {CHOOSE x \in U : TRUE}]
    BY <1>2 DEF SumsAt
  <2> QED
    BY <2>1
<1>4. Solves(PartialSums(f, S))
  <2> HIDE DEF h
  <2> QED
    BY <1>3 DEF PartialSums
<1> QED
  BY <1>4 DEF SumsAt

\* A solution for all the subsets of a set.
Solution(f, g, S) == \A T \in SUBSET S : SumsAt(f, g, T)

\* Any two agree.
LEMMA SolutionsAgree ==
    ASSUME NEW f, NEW S, IsFiniteSet(S), NEW g, NEW h, Solution(f, g, S), Solution(f, h, S)
    PROVE  \A T \in SUBSET S : g[T] = h[T]
<1> DEFINE G == {T \in SUBSET S : g[T] = h[T]}
<1>1. {} \in G
  BY DEF Solution, SumsAt
<1>2. ASSUME NEW T \in SUBSET S, T # {}, \A x \in T : T \ {x} \in G
      PROVE  T \in G
  <2> DEFINE x == CHOOSE x \in T : TRUE
  <2>1. x \in T /\ g[T \ {x}] = h[T \ {x}]
    BY <1>2
  <2>2. g[T] = f[x] + g[T \ {x}] /\ h[T] = f[x] + h[T \ {x}]
    BY <1>2 DEF Solution, SumsAt
  <2> QED
    BY <2>1, <2>2
<1> HIDE DEF G
<1>3. \A T \in SUBSET S : T \in G
  BY <1>1, <1>2, SubsetInduction
<1> QED
  BY <1>3 DEF G

-----------------------------------------------------------------------------
(* Sums.                                                                   *)

\* The sum over a subset is one of the partial sums.
LEMMA SumIsPartial ==
    ASSUME NEW f, NEW S, IsFiniteSet(S), NEW T \in SUBSET S
    PROVE  SumOver(f, T) = PartialSums(f, S)[T]
<1>1. IsFiniteSet(T)
  BY FS_Subset
<1>2. Solution(f, PartialSums(f, T), T) /\ Solution(f, PartialSums(f, S), T)
  BY <1>1, PartialSumsAt DEF Solution
<1>3. \A U \in SUBSET T : PartialSums(f, T)[U] = PartialSums(f, S)[U]
  BY <1>1, <1>2, SolutionsAgree
<1> QED
  BY <1>3 DEF SumOver

\* and any function that solves the recursive definition gives the sum.
LEMMA SumBySolution ==
    ASSUME NEW f, NEW S, IsFiniteSet(S), NEW g, Solution(f, g, S)
    PROVE  g[S] = SumOver(f, S)
<1>1. Solution(f, PartialSums(f, S), S)
  BY PartialSumsAt DEF Solution
<1>2. \A T \in SUBSET S : g[T] = PartialSums(f, S)[T]
  BY <1>1, SolutionsAgree
<1> QED
  BY <1>2 DEF SumOver

\* The sum of nothing,
LEMMA SumEmpty ==
    ASSUME NEW f
    PROVE  SumOver(f, {}) = 0
<1>1. IsFiniteSet({}) /\ {} \in SUBSET {}
  BY FS_EmptySet
<1> QED
  BY <1>1, PartialSumsAt DEF SumsAt, SumOver

\* The element that the recursion takes first, of a set that is not empty.
Chosen(T) == CHOOSE x \in T : TRUE

\* It is one of the set.
LEMMA ChosenIn ==
    ASSUME NEW T, T # {}
    PROVE  Chosen(T) \in T
BY DEF Chosen

\* and of more: the recursion step, whose choice does not matter.
LEMMA SumChoice ==
    ASSUME NEW S, IsFiniteSet(S), NEW f, NEW T \in SUBSET S, T # {}
    PROVE  SumOver(f, T) = f[Chosen(T)] + SumOver(f, T \ {Chosen(T)})
<1>1. SumsAt(f, PartialSums(f, S), T)
  BY PartialSumsAt
<1>2. SumOver(f, T) = PartialSums(f, S)[T]
  BY SumIsPartial
<1>3. SumOver(f, T \ {Chosen(T)}) = PartialSums(f, S)[T \ {Chosen(T)}]
  <2>1. T \ {Chosen(T)} \in SUBSET S
    OBVIOUS
  <2> QED
    BY <2>1, SumIsPartial
<1>4. PartialSums(f, S)[T] = f[Chosen(T)] + PartialSums(f, S)[T \ {Chosen(T)}]
  BY <1>1 DEF SumsAt, Chosen
<1> QED
  BY <1>2, <1>3, <1>4

\* A sum of integers is an integer.
LEMMA SumInt ==
    ASSUME NEW S, IsFiniteSet(S), NEW f, \A x \in S : f[x] \in Int
    PROVE  SumOver(f, S) \in Int
<1> DEFINE G == {T \in SUBSET S : SumOver(f, T) \in Int}
<1>1. {} \in G
  BY SumEmpty
<1>2. ASSUME NEW T \in SUBSET S, T # {}, \A x \in T : T \ {x} \in G
      PROVE  T \in G
  <2> DEFINE y == Chosen(T)
  <2>1. y \in T
    BY <1>2, ChosenIn
  <2>2. SumOver(f, T) = f[y] + SumOver(f, T \ {y})
    BY <1>2, SumChoice
  <2> HIDE DEF y
  <2> QED
    BY <1>2, <2>1, <2>2
<1> HIDE DEF G
<1>3. \A T \in SUBSET S : T \in G
  BY <1>1, <1>2, SubsetInduction
<1> QED
  BY <1>3 DEF G

\* Any element may come first.
LEMMA SumSplit ==
    ASSUME NEW S, IsFiniteSet(S), NEW f, \A x \in S : f[x] \in Int, NEW e \in S
    PROVE  SumOver(f, S) = f[e] + SumOver(f, S \ {e})
<1> DEFINE Splits(T) == \A x \in T : SumOver(f, T) = f[x] + SumOver(f, T \ {x})
           G == {T \in SUBSET S : Splits(T)}
<1>1. {} \in G
  OBVIOUS
<1>2. ASSUME NEW T \in SUBSET S, T # {}, \A x \in T : T \ {x} \in G
      PROVE  T \in G
  <2> DEFINE y == Chosen(T)
  <2>1. y \in T
    BY <1>2, ChosenIn
  <2>2. SumOver(f, T) = f[y] + SumOver(f, T \ {y})
    BY <1>2, SumChoice
  <2> HIDE DEF y
  <2>3. ASSUME NEW x \in T, x # y PROVE SumOver(f, T) = f[x] + SumOver(f, T \ {x})
    <3> DEFINE R == (T \ {y}) \ {x}
    <3>1. R = (T \ {x}) \ {y}
      OBVIOUS
    <3>2. SumOver(f, T \ {y}) = f[x] + SumOver(f, R)
      BY <1>2, <2>1, <2>3
    <3>3. SumOver(f, T \ {x}) = f[y] + SumOver(f, R)
      BY <1>2, <2>1, <2>3, <3>1
    <3>4. SumOver(f, R) \in Int
      <4>1. R \in SUBSET S /\ IsFiniteSet(R)
        BY FS_Subset
      <4> HIDE DEF R
      <4> QED
        BY <4>1, SumInt
    <3> HIDE DEF R
    <3>5. f[x] \in Int /\ f[y] \in Int
      BY <2>1
    <3> QED
      BY <2>2, <3>2, <3>3, <3>4, <3>5
  <2> QED
    BY <2>2, <2>3
<1> HIDE DEF G
<1>3. \A T \in SUBSET S : T \in G
  BY <1>1, <1>2, SubsetInduction
<1> QED
  BY <1>3 DEF G

\* The sum depends on the summands only.
LEMMA SumSame ==
    ASSUME NEW S, IsFiniteSet(S), NEW f, NEW g, \A x \in S : f[x] = g[x]
    PROVE  SumOver(f, S) = SumOver(g, S)
<1> DEFINE G == {T \in SUBSET S : SumOver(f, T) = SumOver(g, T)}
<1>1. {} \in G
  BY SumEmpty
<1>2. ASSUME NEW T \in SUBSET S, T # {}, \A x \in T : T \ {x} \in G
      PROVE  T \in G
  <2> DEFINE y == Chosen(T)
  <2>1. y \in T
    BY <1>2, ChosenIn
  <2>2. /\ SumOver(f, T) = f[y] + SumOver(f, T \ {y})
        /\ SumOver(g, T) = g[y] + SumOver(g, T \ {y})
    <3>1. SumOver(f, T) = f[y] + SumOver(f, T \ {y})
      BY <1>2, SumChoice
    <3>2. SumOver(g, T) = g[y] + SumOver(g, T \ {y})
      BY <1>2, SumChoice
    <3> QED
      BY <3>1, <3>2
  <2> HIDE DEF y
  <2> QED
    BY <1>2, <2>1, <2>2
<1> HIDE DEF G
<1>3. \A T \in SUBSET S : T \in G
  BY <1>1, <1>2, SubsetInduction
<1> QED
  BY <1>3 DEF G

\* Sums are added summand by summand,
LEMMA SumAdd ==
    ASSUME NEW S, IsFiniteSet(S), NEW f, NEW g, NEW h,
           \A x \in S : f[x] \in Int /\ g[x] \in Int /\ h[x] = f[x] + g[x]
    PROVE  SumOver(h, S) = SumOver(f, S) + SumOver(g, S)
<1> DEFINE G == {T \in SUBSET S : SumOver(h, T) = SumOver(f, T) + SumOver(g, T)}
<1>1. {} \in G
  BY SumEmpty
<1>2. ASSUME NEW T \in SUBSET S, T # {}, \A x \in T : T \ {x} \in G
      PROVE  T \in G
  <2>1. PICK y : y \in T
    BY <1>2
  <2> DEFINE R == T \ {y}
  <2>2. /\ SumOver(f, T) = f[y] + SumOver(f, R)
        /\ SumOver(g, T) = g[y] + SumOver(g, R)
        /\ SumOver(h, T) = h[y] + SumOver(h, R)
    <3>1. IsFiniteSet(T) /\ \A x \in T : f[x] \in Int /\ g[x] \in Int /\ h[x] \in Int
      BY FS_Subset
    <3> HIDE DEF G
    <3>2. SumOver(f, T) = f[y] + SumOver(f, R)
      BY <2>1, <3>1, SumSplit
    <3>3. SumOver(g, T) = g[y] + SumOver(g, R)
      BY <2>1, <3>1, SumSplit
    <3>4. SumOver(h, T) = h[y] + SumOver(h, R)
      BY <2>1, <3>1, SumSplit
    <3> QED
      BY <3>2, <3>3, <3>4
  <2>3. IsFiniteSet(R) /\ R \in SUBSET S
    BY FS_Subset
  <2>4. SumOver(h, R) = SumOver(f, R) + SumOver(g, R)
    BY <1>2, <2>1
  <2> HIDE DEF R
  <2>5. SumOver(f, R) \in Int /\ SumOver(g, R) \in Int
    BY <2>3, SumInt
  <2>6. f[y] \in Int /\ g[y] \in Int /\ h[y] = f[y] + g[y]
    BY <2>1
  <2> QED
    BY <2>2, <2>4, <2>5, <2>6
<1> HIDE DEF G
<1>3. \A T \in SUBSET S : T \in G
  BY <1>1, <1>2, SubsetInduction
<1> QED
  BY <1>3 DEF G

\* and grow with them.
LEMMA SumMonotone ==
    ASSUME NEW S, IsFiniteSet(S), NEW f, NEW g,
           \A x \in S : f[x] \in Int /\ g[x] \in Int /\ f[x] <= g[x]
    PROVE  SumOver(f, S) <= SumOver(g, S)
<1> DEFINE G == {T \in SUBSET S : SumOver(f, T) <= SumOver(g, T)}
<1>1. {} \in G
  BY SumEmpty
<1>2. ASSUME NEW T \in SUBSET S, T # {}, \A x \in T : T \ {x} \in G
      PROVE  T \in G
  <2> DEFINE y == Chosen(T)
             R == T \ {y}
  <2>1. y \in T
    BY <1>2, ChosenIn
  <2>2. /\ SumOver(f, T) = f[y] + SumOver(f, R)
        /\ SumOver(g, T) = g[y] + SumOver(g, R)
    <3>1. SumOver(f, T) = f[y] + SumOver(f, R)
      BY <1>2, SumChoice
    <3>2. SumOver(g, T) = g[y] + SumOver(g, R)
      BY <1>2, SumChoice
    <3> QED
      BY <3>1, <3>2
  <2> HIDE DEF y
  <2>3. IsFiniteSet(R) /\ R \in SUBSET S
    BY FS_Subset
  <2>4. SumOver(f, R) <= SumOver(g, R)
    BY <1>2, <2>1
  <2> HIDE DEF R
  <2>5. SumOver(f, R) \in Int /\ SumOver(g, R) \in Int
    BY <2>3, SumInt
  <2>6. f[y] \in Int /\ g[y] \in Int /\ f[y] <= g[y]
    BY <2>1
  <2> QED
    BY <2>2, <2>4, <2>5, <2>6
<1> HIDE DEF G
<1>3. \A T \in SUBSET S : T \in G
  BY <1>1, <1>2, SubsetInduction
<1> QED
  BY <1>3 DEF G

\* The sum of a constant is a product.
LEMMA SumConstant ==
    ASSUME NEW S, IsFiniteSet(S), NEW f, NEW c \in Int, \A x \in S : f[x] = c
    PROVE  SumOver(f, S) = Cardinality(S) * c
<1> DEFINE G == {T \in SUBSET S : SumOver(f, T) = Cardinality(T) * c}
<1>1. {} \in G
  BY SumEmpty, FS_EmptySet
<1>2. ASSUME NEW T \in SUBSET S, T # {}, \A x \in T : T \ {x} \in G
      PROVE  T \in G
  <2> DEFINE y == Chosen(T)
             R == T \ {y}
  <2>1. y \in T
    BY <1>2, ChosenIn
  <2>2. SumOver(f, T) = f[y] + SumOver(f, R)
    BY <1>2, SumChoice
  <2> HIDE DEF y
  <2>3. IsFiniteSet(T) /\ Cardinality(T) \in Nat /\ Cardinality(R) = Cardinality(T) - 1
    BY <2>1, FS_Subset, FS_CardinalityType, FS_RemoveElement
  <2>4. SumOver(f, R) = Cardinality(R) * c /\ f[y] = c
    BY <1>2, <2>1
  <2> HIDE DEF R
  <2> DEFINE k == Cardinality(T)
  <2>5. c + (k - 1) * c = k * c
    BY <2>3
  <2> QED
    BY <2>2, <2>3, <2>4, <2>5
<1> HIDE DEF G
<1>3. \A T \in SUBSET S : T \in G
  BY <1>1, <1>2, SubsetInduction
<1> QED
  BY <1>3 DEF G

\* The sum over two sets that have nothing in common.
LEMMA SumDisjoint ==
    ASSUME NEW S, IsFiniteSet(S), NEW f, \A x \in S : f[x] \in Int,
           NEW A \in SUBSET S, NEW B \in SUBSET S, A \cap B = {}
    PROVE  SumOver(f, A \cup B) = SumOver(f, A) + SumOver(f, B)
<1> DEFINE G == {T \in SUBSET A : SumOver(f, T \cup B) = SumOver(f, T) + SumOver(f, B)}
<1>1. IsFiniteSet(A) /\ IsFiniteSet(B) /\ SumOver(f, B) \in Int
  BY FS_Subset, SumInt
<1>2. {} \in G
  <2>1. {} \cup B = B
    OBVIOUS
  <2> QED
    BY <1>1, <2>1, SumEmpty
<1>3. ASSUME NEW T \in SUBSET A, T # {}, \A x \in T : T \ {x} \in G
      PROVE  T \in G
  <2>1. PICK y : y \in T
    BY <1>3
  <2> DEFINE R == T \ {y}
  <2>2. R \cup B = (T \cup B) \ {y}
    BY <2>1
  <2>3. /\ T \cup B \in SUBSET S /\ T \in SUBSET S /\ R \in SUBSET S
        /\ IsFiniteSet(T \cup B) /\ IsFiniteSet(T) /\ IsFiniteSet(R)
    BY FS_Subset
  <2>4. SumOver(f, T \cup B) = f[y] + SumOver(f, R \cup B)
    BY <2>1, <2>2, <2>3, SumSplit
  <2>5. SumOver(f, T) = f[y] + SumOver(f, R)
    BY <2>1, <2>3, SumSplit
  <2>6. SumOver(f, R \cup B) = SumOver(f, R) + SumOver(f, B)
    BY <1>3, <2>1
  <2> HIDE DEF R
  <2>7. SumOver(f, R) \in Int /\ f[y] \in Int
    BY <2>1, <2>3, SumInt
  <2> QED
    BY <1>1, <2>4, <2>5, <2>6, <2>7
<1> HIDE DEF G
<1>4. \A T \in SUBSET A : T # {} /\ (\A x \in T : T \ {x} \in G) => T \in G
  BY <1>3
<1>5. A \in G
  BY <1>1, <1>2, <1>4, SubsetInduction
<1> QED
  BY <1>5 DEF G

\* The sum of the sums over the parts of a set is that over the set.
LEMMA SumOfParts ==
    ASSUME NEW S, IsFiniteSet(S), NEW f, \A x \in S : f[x] \in Int,
           NEW C, IsFiniteSet(C), NEW part \in [C -> SUBSET S], NEW sums,
           \A a, b \in C : a # b => part[a] \cap part[b] = {},
           \A a \in C : sums[a] = SumOver(f, part[a])
    PROVE  SumOver(sums, C) = SumOver(f, UNION {part[a] : a \in C})
<1> DEFINE All(T) == UNION {part[a] : a \in T}
           G == {T \in SUBSET C : SumOver(sums, T) = SumOver(f, All(T))}
<1>1. {} \in G
  <2>1. All({}) = {}
    OBVIOUS
  <2> QED
    BY <2>1, SumEmpty
<1>2. ASSUME NEW T \in SUBSET C, T # {}, \A x \in T : T \ {x} \in G
      PROVE  T \in G
  <2>1. PICK y : y \in T
    BY <1>2
  <2> DEFINE R == T \ {y}
  <2>2. IsFiniteSet(T) /\ \A a \in T : sums[a] \in Int
    <3>1. ASSUME NEW a \in T PROVE sums[a] \in Int
      <4>1. part[a] \in SUBSET S /\ IsFiniteSet(part[a])
        BY FS_Subset
      <4> QED
        BY <4>1, SumInt
    <3> QED
      BY <3>1, FS_Subset
  <2>3. SumOver(sums, T) = sums[y] + SumOver(sums, R)
    BY <2>1, <2>2, SumSplit
  <2>4. SumOver(sums, R) = SumOver(f, All(R))
    BY <1>2, <2>1
  <2>5. All(T) = part[y] \cup All(R)
    BY <2>1
  <2>6. part[y] \cap All(R) = {}
    BY <2>1
  <2>7. All(R) \in SUBSET S /\ part[y] \in SUBSET S
    BY <2>1
  <2> HIDE DEF All, R
  <2>8. SumOver(f, All(T)) = SumOver(f, part[y]) + SumOver(f, All(R))
    BY <2>5, <2>6, <2>7, SumDisjoint
  <2>9. sums[y] = SumOver(f, part[y])
    BY <2>1
  <2>10. SumOver(sums, T) = SumOver(f, All(T))
    BY <2>3, <2>4, <2>8, <2>9
  <2> QED
    BY <2>10
<1> HIDE DEF G, All
<1>3. \A T \in SUBSET C : T # {} /\ (\A x \in T : T \ {x} \in G) => T \in G
  BY <1>2
<1>4. C \in G
  <2>1. \A T \in SUBSET C : T \in G
    BY ONLY IsFiniteSet(C), <1>1, <1>3, SubsetInduction
  <2> QED
    BY <2>1
<1> QED
  BY <1>4 DEF G, All

\* Where the summands are zero nothing need be summed.
LEMMA SumZeros ==
    ASSUME NEW W, IsFiniteSet(W), NEW f, \A x \in W : f[x] \in Int,
           NEW S \in SUBSET W, \A x \in W \ S : f[x] = 0
    PROVE  SumOver(f, W) = SumOver(f, S)
<1> DEFINE R == W \ S
<1>1. IsFiniteSet(R) /\ IsFiniteSet(S) /\ R \in SUBSET W /\ S \cap R = {} /\ S \cup R = W
  BY FS_Subset
<1>2. \A x \in R : f[x] = 0
  OBVIOUS
<1> HIDE DEF R
<1>3. SumOver(f, S \cup R) = SumOver(f, S) + SumOver(f, R)
  BY <1>1, SumDisjoint
<1>4. SumOver(f, R) = Cardinality(R) * 0 /\ Cardinality(R) \in Nat
  BY <1>1, <1>2, SumConstant, FS_CardinalityType
<1>5. SumOver(f, S) \in Int
  <2>1. \A x \in S : f[x] \in Int
    OBVIOUS
  <2> QED
    BY <1>1, <2>1, SumInt
<1>6. SumOver(f, W) = SumOver(f, S) + SumOver(f, R)
  BY <1>1, <1>3
<1>7. SumOver(f, R) = 0
  BY <1>4
<1> QED
  BY <1>5, <1>6, <1>7

-----------------------------------------------------------------------------
(* Sums over intervals, such as the indices of a table.                    *)

\* Nothing in the interval,
LEMMA SumNoInterval ==
    ASSUME NEW f, NEW a \in Int, NEW b \in Int, a > b
    PROVE  SumOver(f, a .. b) = 0
<1>1. a .. b = {}
  OBVIOUS
<1> QED
  BY <1>1, SumEmpty

\* the first of it apart,
LEMMA SumFirst ==
    ASSUME NEW a \in Int, NEW b \in Int, a <= b, NEW f, \A i \in a .. b : f[i] \in Int
    PROVE  SumOver(f, a .. b) = f[a] + SumOver(f, a + 1 .. b)
<1>1. IsFiniteSet(a .. b)
  BY FS_Interval
<1>2. a \in a .. b /\ (a .. b) \ {a} = a + 1 .. b
  OBVIOUS
<1> QED
  BY <1>1, <1>2, SumSplit

\* and one more at its end.
LEMMA SumAppend ==
    ASSUME NEW n \in Nat, NEW f, NEW g, \A i \in 1 .. n + 1 : g[i] \in Int,
           \A i \in 1 .. n : g[i] = f[i]
    PROVE  SumOver(g, 1 .. n + 1) = SumOver(f, 1 .. n) + g[n + 1]
<1>1. IsFiniteSet(1 .. n + 1) /\ IsFiniteSet(1 .. n)
  BY FS_Interval
<1>2. n + 1 \in 1 .. n + 1 /\ (1 .. n + 1) \ {n + 1} = 1 .. n
  OBVIOUS
<1>3. SumOver(g, 1 .. n + 1) = g[n + 1] + SumOver(g, 1 .. n)
  BY <1>1, <1>2, SumSplit
<1>4. SumOver(g, 1 .. n) = SumOver(f, 1 .. n)
  BY <1>1, SumSame
<1>5. \A i \in 1 .. n : g[i] \in Int
  OBVIOUS
<1>6. SumOver(g, 1 .. n) \in Int
  BY <1>1, <1>5, SumInt
<1>7. g[n + 1] \in Int
  BY <1>2
<1> QED
  BY <1>3, <1>4, <1>6, <1>7

\* Summands that are the same but for one.
ChangedAt(f, g, S, k) ==
    /\ \A i \in S : f[i] \in Int /\ g[i] \in Int
    /\ \A i \in S : i # k => g[i] = f[i]

\* The sum changes by as much.
LEMMA SumChange ==
    ASSUME NEW S, IsFiniteSet(S), NEW k \in S, NEW f, NEW g, ChangedAt(f, g, S, k)
    PROVE  SumOver(g, S) = SumOver(f, S) + (g[k] - f[k])
<1>0. /\ \A i \in S : f[i] \in Int /\ g[i] \in Int
      /\ \A i \in S : i # k => g[i] = f[i]
  BY DEF ChangedAt
<1>1. SumOver(f, S) = f[k] + SumOver(f, S \ {k}) /\ SumOver(g, S) = g[k] + SumOver(g, S \ {k})
  <2>1. SumOver(f, S) = f[k] + SumOver(f, S \ {k})
    BY <1>0, SumSplit
  <2>2. SumOver(g, S) = g[k] + SumOver(g, S \ {k})
    BY <1>0, SumSplit
  <2> QED
    BY <2>1, <2>2
<1> DEFINE R == S \ {k}
<1>2. IsFiniteSet(R) /\ \A i \in R : f[i] \in Int /\ g[i] = f[i]
  BY <1>0, FS_Subset
<1> HIDE DEF R
<1>3. SumOver(g, R) = SumOver(f, R) /\ SumOver(f, R) \in Int
  BY <1>2, SumSame, SumInt
<1>4. f[k] \in Int /\ g[k] \in Int
  BY <1>0
<1> QED
  BY <1>1, <1>3, <1>4 DEF R
==============================================================================
